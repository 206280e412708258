------------------------------- MODULE Locks -------------------------------
(***************************************************************************)
(* The three mutexes of a process - mu_ of the logger, err_mu of           *)
(* error.cpp and the one of the level registry - with every call that      *)
(* takes them, the error handler that calls back into the library, and     *)
(* fork, whose child keeps the mutexes but not the threads that hold them. *)
(*                                                                         *)
(* A call is the sequence of what it does to mutexes and to the fields     *)
(* they guard: a script.  A thread executes the head of its script; the    *)
(* two fields of a pair (handler and user, code and detail) are set and    *)
(* read one by one, so that only the mutex keeps them together.            *)
(***************************************************************************)
EXTENDS Integers, Sequences, FiniteSets

CONSTANTS
    Threads,
    Nobody,         \* holds a mutex that is free
    Calls,          \* the calls the program makes
    HandlerCalls,   \* the calls the error handler makes, at most one at a time
    MaxCalls,       \* bound on the calls of each thread
    MaxForks        \* bound on the forks

ASSUME ConstantsAssumption ==
    /\ Nobody \notin Threads
    /\ MaxCalls \in [Threads -> Nat] /\ MaxForks \in Nat

ASSUME CallsAssumption ==
    Calls \cup HandlerCalls \subseteq
        {"log", "first_log", "init", "set", "configure", "load_file", "reset", "flush",
         "add_level", "fork", "set_error_handler", "remove_error_handler", "clear_error",
         "last_error"}

Mutexes == {"mu", "err", "registry"}
Fields  == {"handler", "user", "code", "detail"}

VARIABLES
    holder,     \* of each mutex
    todo,       \* what is left of the script of each thread
    made,       \* calls made so far, per thread
    shared,     \* the guarded fields: which call set them last
    mine,       \* the copies a thread has made of them
    inHandler,  \* t_in_handler
    gone,       \* threads that did not follow the process through a fork
    process,    \* the process we are in, counted in forks
    g_pid,      \* the cached pid, 0 if none
    t_tid,      \* the cached thread ids, by the process they are of
    stamped     \* ids that lines carry, with the process that logs

lockVars    == <<holder, gone, process>>
fieldVars   == <<shared, mine>>
idVars      == <<g_pid, t_tid, stamped>>
vars        == <<lockVars, todo, made, fieldVars, inHandler, idVars>>

----------------------------------------------------------------------------
(* Scripts.                                                                *)

Lock(m)             == <<"lock", m>>
Unlock(m)           == <<"unlock", m>>
Section(m, body)    == <<Lock(m)>> \o body \o <<Unlock(m)>>
Set(f)              == <<"set", f>>
Clear(f)            == <<"clear", f>>
Get(f)              == <<"get", f>>
Do(op)              == <<op, "">>

\* Mutant: err_mu is taken for each field.
SetErrorHandlerTwice == Section("err", <<Set("handler")>>) \o Section("err", <<Set("user")>>)

SetErrorHandler     == Section("err", <<Set("handler"), Set("user")>>)
RemoveErrorHandler  == Section("err", <<Clear("handler"), Clear("user")>>)
ClearError          == Section("err", <<Clear("code"), Clear("detail")>>)
LastError           == Section("err", <<Get("code"), Get("detail")>>)

\* record, and report up to the test whether there is a handler to call.
Record == Section("err", <<Set("code"), Set("detail")>>)
Report == Record \o Section("err", <<Get("handler"), Get("user")>>) \o <<Do("test")>>

\* The rest of report.
Telling == LastError \o <<Do("call")>>

\* A run or a file is opened under mu_, where run_dir may record; what fails is
\* reported after.  Mutant: before.
OpensReporting ==
    {Section("mu", opening \o failing) : opening \in {<<>>, Record}, failing \in {<<>>, Report}}
Opens ==
    {Section("mu", opening) \o failing : opening \in {<<>>, Record}, failing \in {<<>>, Report}}

\* A level name or a level value is looked up.
LookUp == Section("registry", <<>>)

\* reload_locked: levels are parsed, and what does not parse is recorded.
Reloads == {LookUp, LookUp \o Record}

\* fork with its handlers.  Mutant: no handler.
BareFork == <<Do("fork")>>
Forking  == Section("mu", <<Do("fork")>>)

\* What a call does, one script for each way it may go.
Scripts(call) ==
    CASE call = "log" ->            \* the module is known and its file is open
            {<<Do("stamp")>>, <<Do("stamp")>> \o Report, Record \o <<Do("stamp")>>}
      [] call = "first_log"  ->       \* the module is resolved first
            {Section("mu", <<>>) \o <<Do("stamp")>> \o open : open \in Opens}
      [] call = "init"       -> Opens
      [] call = "set"        -> {LookUp \o Section("mu", reload) : reload \in Reloads}
      [] call = "configure"  -> {Section("mu", LookUp \o reload) : reload \in Reloads}
      [] call = "load_file"  -> {Section("mu", reading \o reload) :
                                    reading \in {<<>>, Record}, reload \in Reloads}
      [] call = "reset"      -> {Section("mu", ClearError)}
      [] call = "flush"      -> {Section("mu", <<>>)}
      [] call = "add_level"  -> {LookUp}
      [] call = "fork"       -> {Forking}
      [] call = "set_error_handler"    -> {SetErrorHandler}
      [] call = "remove_error_handler" -> {RemoveErrorHandler}
      [] call = "clear_error"          -> {ClearError}
      [] call = "last_error"           -> {LastError}

----------------------------------------------------------------------------
Init ==
    /\ holder = [m \in Mutexes |-> Nobody]
    /\ todo = [t \in Threads |-> <<>>]
    /\ made = [t \in Threads |-> 0]
    /\ shared = [f \in Fields |-> <<>>]
    /\ mine = [t \in Threads |-> [f \in Fields |-> <<>>]]
    /\ inHandler = [t \in Threads |-> FALSE]
    /\ gone = {}
    /\ process = 1
    /\ g_pid = 0
    /\ t_tid = [t \in Threads |-> 0]
    /\ stamped = {}

Idle(t)     == todo[t] = <<>>
Id(t)       == <<t, made[t]>>
Op(t)       == Head(todo[t])
At(t, op)   == t \notin gone /\ ~Idle(t) /\ Op(t)[1] = op
Advance(t)  == todo' = [todo EXCEPT ![t] = Tail(@)]

\* A call of the program.
Call(t) ==
    /\ t \notin gone /\ Idle(t) /\ made[t] < MaxCalls[t]
    /\ \E call \in Calls : \E script \in Scripts(call) :
          /\ call = "fork" => process <= MaxForks
          /\ todo' = [todo EXCEPT ![t] = script]
    /\ made' = [made EXCEPT ![t] = @ + 1]
    /\ mine' = [mine EXCEPT ![t] = [f \in Fields |-> <<>>]]
    /\ UNCHANGED <<lockVars, shared, inHandler, idVars>>

Acquire(t) ==
    /\ At(t, "lock")
    /\ holder[Op(t)[2]] = Nobody
    /\ holder' = [holder EXCEPT ![Op(t)[2]] = t]
    /\ Advance(t)
    /\ UNCHANGED <<gone, process, made, fieldVars, inHandler, idVars>>

Release(t) ==
    /\ At(t, "unlock")
    /\ holder' = [holder EXCEPT ![Op(t)[2]] = Nobody]
    /\ Advance(t)
    /\ UNCHANGED <<gone, process, made, fieldVars, inHandler, idVars>>

Store(t) ==
    /\ \/ At(t, "set")   /\ shared' = [shared EXCEPT ![Op(t)[2]] = Id(t)]
       \/ At(t, "clear") /\ shared' = [shared EXCEPT ![Op(t)[2]] = <<>>]
    /\ Advance(t)
    /\ UNCHANGED <<lockVars, made, mine, inHandler, idVars>>

Load(t) ==
    /\ At(t, "get")
    /\ mine' = [mine EXCEPT ![t][Op(t)[2]] = shared[Op(t)[2]]]
    /\ Advance(t)
    /\ UNCHANGED <<lockVars, made, shared, inHandler, idVars>>

\* report: return, or go on to the call.
Test(t) ==
    /\ At(t, "test")
    /\ todo' = [todo EXCEPT ![t] =
                    (IF mine[t]["handler"] = <<>> \/ inHandler[t] THEN <<>> ELSE Telling) \o Tail(@)]
    /\ UNCHANGED <<lockVars, made, fieldVars, inHandler, idVars>>

\* report: the handler runs, and may call the library itself.
CallHandler(t) ==
    /\ At(t, "call")
    /\ inHandler' = [inHandler EXCEPT ![t] = TRUE]
    /\ \E script \in {<<>>} \cup UNION {Scripts(call) : call \in HandlerCalls} :
          todo' = [todo EXCEPT ![t] = script \o <<Do("return")>> \o Tail(@)]
    /\ UNCHANGED <<lockVars, made, fieldVars, idVars>>

HandlerReturns(t) ==
    /\ At(t, "return")
    /\ inHandler' = [inHandler EXCEPT ![t] = FALSE]
    /\ Advance(t)
    /\ UNCHANGED <<lockVars, made, fieldVars, idVars>>

\* cached_pid and cached_tid: the ids of a line.
Stamp(t) ==
    /\ At(t, "stamp")
    /\ g_pid' = IF g_pid = 0 THEN process ELSE g_pid
    /\ t_tid' = [t_tid EXCEPT ![t] = IF @ = 0 THEN process ELSE @]
    /\ stamped' = stamped \cup {<<g_pid', t_tid'[t], process>>}
    /\ Advance(t)
    /\ UNCHANGED <<lockVars, made, fieldVars, inHandler>>

\* The thread ids of the child, from atfork_child.  Mutant: as they are.
TidsKept(t)  == t_tid
ChildTids(t) == [t_tid EXCEPT ![t] = 0]

\* fork: we go on as the parent, where nothing has changed, or as the child, where
\* only this thread goes on.
Fork(t) ==
    /\ At(t, "fork")
    /\ Advance(t)
    /\ \/ UNCHANGED <<gone, process, g_pid, t_tid>>
       \/ /\ gone' = Threads \ {t}
          /\ process' = process + 1
          /\ g_pid' = process'
          /\ t_tid' = ChildTids(t)
    /\ UNCHANGED <<holder, made, fieldVars, inHandler, stamped>>

Step(t) ==
    \/ Acquire(t) \/ Release(t) \/ Store(t) \/ Load(t) \/ Test(t)
    \/ CallHandler(t) \/ HandlerReturns(t) \/ Stamp(t) \/ Fork(t)

Next == \E t \in Threads : Call(t) \/ Step(t)

Spec     == Init /\ [][Next]_vars
FairSpec == Spec /\ \A t \in Threads : WF_vars(Step(t))

----------------------------------------------------------------------------
(* Properties.                                                             *)

\* A handler is called with the user pointer it was installed with, and an error is
\* read with its own detail, whoever replaces them meanwhile (slog.h:198, 207).
PairsAreWhole ==
    \A t \in Threads : holder["err"] # t =>
        /\ mine[t]["handler"] = mine[t]["user"]
        /\ mine[t]["code"] = mine[t]["detail"]

\* The user's handler never runs with a mutex of the library held (error.cpp:175).
HandlersHoldNothing ==
    \A t \in Threads : At(t, "call") \/ At(t, "return") => \A m \in Mutexes : holder[m] # t

\* A line carries the ids of the process and the thread that log it, before and after
\* a fork (logger.cpp:61, "so a child never logs a stale id").
IdsAreOwn == \A s \in stamped : s[1] = s[3] /\ s[2] = s[3]

\* "a child never inherits a locked mutex".
ChildInheritsNoMutex == \A m \in Mutexes : holder[m] \notin gone

\* Waiting for a mutex other than mu_ whose holder stayed in the parent.
Orphaned(t) == At(t, "lock") /\ Op(t)[2] # "mu" /\ holder[Op(t)[2]] \in gone

\* No call waits forever, handlers that call back included, except in a child that
\* inherited err_mu or the registry locked.
CallsReturn == \A t \in Threads : ~Idle(t) ~> (Idle(t) \/ t \in gone \/ Orphaned(t))

=============================================================================
