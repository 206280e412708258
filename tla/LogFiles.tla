------------------------------ MODULE LogFiles ------------------------------
(***************************************************************************)
(* The file side of one process's Logger (logger.cpp): how its threads     *)
(* open the run and the files under mu_, cache a descriptor per module and *)
(* write to it without a lock; init, shutdown, fork, restart_after_fork,   *)
(* the reset of the tests; the table of descriptors the crash handler      *)
(* writes to.  Descriptors are numbers, and the kernel reuses them.        *)
(*                                                                         *)
(* open_run is one step here (it runs under mu_); RunDir has its inside.   *)
(***************************************************************************)
EXTENDS Integers, FiniteSets

CONSTANTS
    Threads, NoThread,
    Modules,       \* modules the program logs with
    NoModule,      \* stands for the module in a call of init()
    Shared,        \* the file of single-file mode
    MaxFd,         \* descriptors 1 .. MaxFd
    MaxCrashFds,   \* kMaxCrashFds
    MaxEpoch,      \* bound on the runs after the first: forks with restart, and resets
    OpenRunFails, FileOpenFails,  \* the two kinds of failure that may happen
    Reconfigure,   \* file.per_module changes at any time
    HandlerLogs    \* the error handler logs

Fds       == 1 .. MaxFd
NotOpened == -1
GaveUp    == -2
FdValues  == Fds \cup {NotOpened, GaveUp}
Files     == Modules \cup {Shared}
NoFile    == <<0, NoModule>>  \* behind a free descriptor

ASSUME ConstantsAssumption ==
    /\ NoThread \notin Threads
    /\ NoModule \notin Files
    /\ Shared \notin Modules
    /\ MaxFd \in Nat /\ MaxCrashFds \in Nat /\ MaxEpoch \in Nat
    /\ {OpenRunFails, FileOpenFails, Reconfigure, HandlerLogs} \subseteq BOOLEAN

VARIABLES
    mu,           \* the thread that holds mu_
    pc,
    per_module,   \* settings_.file_per_module
    switched,     \* it changed after the run was tried
    init_state,   \* 0 not tried, 1 ok, 2 failed
    run_open,     \* run_dir_fd_ and run_lock_fd_ are open
    shared_fd,
    opened,       \* runs opened in this epoch
    open_fds,
    unclosed,     \* of open_fds, what the close loop has still to close
    file,         \* the log file behind each descriptor, with the epoch of its run
    known,        \* modules that have a ModuleState
    file_fd,      \* ModuleState::file_fd
    crash_fds, crash_count,   \* g_crash_fds, g_crash_fd_count
    mod, fd, oe,  \* of the call a thread is in: module, descriptor, failure
    outer,        \* the call in which the error handler of a thread runs
    reported,     \* failures reported in this epoch
    closed,
    closing,      \* which of shutdown, restart_after_fork and reset is under way
    epoch,        \* how many times the logger started afresh
    reborn,       \* fork returned in a child that has not restarted yet
    final         \* shutdown closed a run that was open

configVars == <<per_module, switched>>
runVars    == <<init_state, run_open, shared_fd, opened>>
fdVars     == <<open_fds, unclosed, file>>
moduleVars == <<known, file_fd>>
crashVars  == <<crash_fds, crash_count>>
callVars   == <<mod, fd, oe, outer>>
lifeVars   == <<closed, closing, epoch, reborn, final>>
stateVars  == <<configVars, runVars, fdVars, moduleVars, crashVars>>
vars       == <<mu, pc, stateVars, callVars, reported, lifeVars>>

\* OpenErr: what failed (NoModule for the run and its shared file), and the code.
Codes    == {"ok", "dir", "file"}
OpenErrs == (Modules \cup {NoModule}) \X Codes
NoErr    == <<NoModule, "ok">>
NoCall   == [in |-> FALSE, mod |-> NoModule, fd |-> NotOpened, oe |-> NoErr]

CloseSteps == {"close", "clear", "forget"}
Steps == {"idle", "load", "lock", "initlock", "recheck", "run", "file", "slot", "count",
          "publish", "release", "report", "finish", "gone"} \cup CloseSteps

Init ==
    /\ mu = NoThread
    /\ pc = [t \in Threads |-> "idle"]
    /\ per_module \in BOOLEAN
    /\ switched = FALSE
    /\ init_state = 0
    /\ run_open = FALSE
    /\ shared_fd = NotOpened
    /\ opened = 0
    /\ open_fds = {}
    /\ unclosed = {}
    /\ file = [d \in Fds |-> NoFile]
    /\ known = {}
    /\ file_fd = [m \in Modules |-> NotOpened]
    /\ crash_fds = [i \in 1 .. MaxCrashFds |-> NotOpened]
    /\ crash_count = 0
    /\ mod = [t \in Threads |-> NoModule]
    /\ fd = [t \in Threads |-> NotOpened]
    /\ oe = [t \in Threads |-> NoErr]
    /\ outer = [t \in Threads |-> NoCall]
    /\ reported = {}
    /\ closed = FALSE
    /\ closing = "no"
    /\ epoch = 0
    /\ reborn = FALSE
    /\ final = FALSE

Goto(t, step) == pc' = [pc EXCEPT ![t] = step]
SetFd(t, d)   == fd' = [fd EXCEPT ![t] = d]

Logging(t) == pc[t] \notin {"idle", "gone"} \cup CloseSteps

\* open() of a log file may fail, and does when no descriptor is left.
MayFail == FileOpenFails \/ \A d \in Fds : file[d] # NoFile

\* The kernel gives a free descriptor to a log file f of this epoch.
Allocate(d, f) ==
    /\ file[d] = NoFile
    /\ file' = [file EXCEPT ![d] = <<epoch, f>>]
    /\ UNCHANGED <<open_fds, unclosed>>

\* resolve_module: the first use of a module makes its ModuleState, under mu_.
Resolve(m) ==
    /\ m \in known \/ mu = NoThread
    /\ known' = known \cup {m}

\* A line passes the file threshold: dispatch calls ensure_file_open.  The program
\* keeps to "call only when no thread is logging" of what closes files.
Log(t, m) ==
    /\ pc[t] = "idle" /\ closing = "no"
    /\ Resolve(m)
    /\ mod' = [mod EXCEPT ![t] = m]
    /\ Goto(t, "load")
    /\ UNCHANGED <<mu, configVars, runVars, fdVars, file_fd, crashVars, fd, oe, outer, reported,
                   lifeVars>>

\* The lock-free load of file_fd.
LoadFd(t) ==
    /\ pc[t] = "load"
    /\ SetFd(t, file_fd[mod[t]])
    /\ Goto(t, IF file_fd[mod[t]] = NotOpened THEN "lock" ELSE "finish")
    /\ UNCHANGED <<mu, stateVars, mod, oe, outer, reported, lifeVars>>

\* init(): the run is opened without a module.
CallInit(t) ==
    /\ pc[t] = "idle" /\ closing = "no"
    /\ Goto(t, "initlock")
    /\ UNCHANGED <<mu, stateVars, callVars, reported, lifeVars>>

Lock(t) ==
    /\ pc[t] \in {"lock", "initlock"}
    /\ mu = NoThread
    /\ mu' = t
    /\ Goto(t, IF pc[t] = "lock" THEN "recheck" ELSE "run")
    /\ UNCHANGED <<stateVars, callVars, reported, lifeVars>>

\* What the descriptor is once mu_ is ours.  Mutant: what it was before.
Remembered(t) == NotOpened
Reloaded(t)   == file_fd[mod[t]]

\* Another thread may have opened the file, or given up, before mu_ was ours.
Recheck(t) ==
    /\ pc[t] = "recheck"
    /\ SetFd(t, Reloaded(t))
    /\ Goto(t, IF Reloaded(t) = NotOpened THEN "run" ELSE "release")
    /\ UNCHANGED <<mu, stateVars, mod, oe, outer, reported, lifeVars>>

\* ensure_run_open when it was tried before.
RunTried(t) ==
    /\ pc[t] = "run"
    /\ init_state # 0
    /\ SetFd(t, IF init_state = 2 THEN GaveUp ELSE NotOpened)
    /\ Goto(t, IF mod[t] = NoModule THEN "release"
               ELSE IF init_state = 2 THEN "publish" ELSE "file")
    /\ UNCHANGED <<mu, stateVars, mod, oe, outer, reported, lifeVars>>

\* What a failed open_run hands to the caller.  Mutant: nothing.
NoRunErr == NoErr
RunErr   == <<NoModule, "dir">>

\* A hard failure of open_run: never tried again.
RunFails(t) ==
    /\ pc[t] = "run"
    /\ init_state = 0 /\ OpenRunFails
    /\ init_state' = 2
    /\ oe' = [oe EXCEPT ![t] = RunErr]
    /\ SetFd(t, GaveUp)
    /\ Goto(t, IF mod[t] = NoModule THEN "release" ELSE "publish")
    /\ UNCHANGED <<mu, configVars, run_open, shared_fd, opened, fdVars, moduleVars, crashVars,
                   mod, outer, reported, lifeVars>>

\* open_run succeeds.  In single-file mode it opened the shared file too, or
\* failed to, which leaves the run open.
RunOpens(t) ==
    /\ pc[t] = "run"
    /\ init_state = 0
    /\ init_state' = 1 /\ run_open' = TRUE /\ opened' = opened + 1
    /\ \/ /\ per_module
          /\ Goto(t, IF mod[t] = NoModule THEN "release" ELSE "file")
          /\ UNCHANGED <<shared_fd, fdVars, fd, oe>>
       \/ /\ ~per_module
          /\ \E d \in Fds : Allocate(d, Shared) /\ shared_fd' = d /\ SetFd(t, d)
          /\ Goto(t, "slot")
          /\ UNCHANGED oe
       \/ /\ ~per_module /\ MayFail
          /\ shared_fd' = GaveUp
          /\ oe' = [oe EXCEPT ![t] = <<NoModule, "file">>]
          /\ Goto(t, IF mod[t] = NoModule THEN "release" ELSE "file")
          /\ UNCHANGED <<fdVars, fd>>
    /\ UNCHANGED <<mu, configVars, moduleVars, crashVars, mod, outer, reported, lifeVars>>

\* ensure_file_open in single-file mode: the shared descriptor, whatever it is.
UseShared(t) ==
    /\ pc[t] = "file"
    /\ ~per_module
    /\ SetFd(t, shared_fd)
    /\ Goto(t, "publish")
    /\ UNCHANGED <<mu, stateVars, mod, oe, outer, reported, lifeVars>>

\* Its own file for the module, relative to the run directory; without one
\* openat fails.
OpenModuleFile(t) ==
    /\ pc[t] = "file"
    /\ per_module
    /\ \/ /\ run_open
          /\ \E d \in Fds : Allocate(d, mod[t]) /\ SetFd(t, d)
          /\ Goto(t, "slot")
          /\ UNCHANGED oe
       \/ /\ MayFail \/ ~run_open
          /\ oe' = [oe EXCEPT ![t] = <<mod[t], "file">>]
          /\ SetFd(t, GaveUp)
          /\ Goto(t, "publish")
          /\ UNCHANGED fdVars
    /\ UNCHANGED <<mu, configVars, runVars, moduleVars, crashVars, mod, outer, reported, lifeVars>>

\* A new descriptor is remembered.
Tracked(d) == open_fds \cup {d}

\* The table of the crash handler has a slot left.  Mutant: nobody looks.
HasRoomAlways == TRUE
HasRoom       == crash_count < MaxCrashFds

\* push_back, then register_crash_fd, which publishes the slot before it counts
\* it; a full table is left as it is.
RegisterSlot(t) ==
    /\ pc[t] = "slot"
    /\ open_fds' = Tracked(fd[t])
    /\ crash_fds' = IF HasRoom THEN [crash_fds EXCEPT ![crash_count + 1] = fd[t]] ELSE crash_fds
    /\ Goto(t, "count")
    /\ UNCHANGED <<mu, configVars, runVars, unclosed, file, moduleVars, crash_count, callVars,
                   reported, lifeVars>>

RegisterCount(t) ==
    /\ pc[t] = "count"
    /\ crash_count' = IF HasRoom THEN crash_count + 1 ELSE crash_count
    /\ Goto(t, IF mod[t] = NoModule THEN "release" ELSE IF per_module THEN "publish" ELSE "file")
    /\ UNCHANGED <<mu, configVars, runVars, fdVars, moduleVars, crash_fds, callVars, reported,
                   lifeVars>>

\* What is cached for the lock-free readers; a failure for good.  Mutant: a failure
\* is not, and the next line tries again.
CachedSuccess(d) == IF d < 0 THEN NotOpened ELSE d
Cached(d)        == IF d < 0 THEN GaveUp ELSE d

Publish(t) ==
    /\ pc[t] = "publish"
    /\ file_fd' = [file_fd EXCEPT ![mod[t]] = Cached(fd[t])]
    /\ Goto(t, "release")
    /\ UNCHANGED <<mu, configVars, runVars, fdVars, known, crashVars, callVars, reported, lifeVars>>

\* Who has mu_ while a failure is reported.  Mutant: the caller keeps it.
ReporterKeeps(t) == IF oe[t] = NoErr THEN NoThread ELSE mu
Released(t)      == NoThread

Release(t) ==
    /\ pc[t] = "release"
    /\ mu' = Released(t)
    /\ Goto(t, IF oe[t] = NoErr THEN "finish" ELSE "report")
    /\ UNCHANGED <<stateVars, callVars, reported, lifeVars>>

\* report, with mu_ released.  The handler may log, but does not run again
\* inside itself.
Report(t) ==
    /\ pc[t] = "report"
    /\ reported' = reported \cup {oe[t]}
    /\ \/ /\ Goto(t, "finish")
          /\ UNCHANGED <<known, callVars>>
       \/ /\ HandlerLogs /\ ~outer[t].in
          /\ outer' = [outer EXCEPT ![t] =
                         [in |-> TRUE, mod |-> mod[t], fd |-> fd[t], oe |-> oe[t]]]
          /\ oe' = [oe EXCEPT ![t] = NoErr]
          /\ \E m \in Modules : Resolve(m) /\ mod' = [mod EXCEPT ![t] = m]
          /\ Goto(t, "load")
          /\ UNCHANGED fd
    /\ UNCHANGED <<mu, configVars, runVars, fdVars, file_fd, crashVars, lifeVars>>

\* The line is written to the descriptor, if there is one, or init() throws without
\* one; the call returns, to the program or to the handler of the call around it.
Finish(t) ==
    /\ pc[t] = "finish"
    /\ Goto(t, IF outer[t].in THEN "finish" ELSE "idle")
    /\ mod' = [mod EXCEPT ![t] = outer[t].mod]
    /\ SetFd(t, outer[t].fd)
    /\ oe' = [oe EXCEPT ![t] = outer[t].oe]
    /\ outer' = [outer EXCEPT ![t] = NoCall]
    /\ UNCHANGED <<mu, stateVars, reported, lifeVars>>

\* shutdown(), restart_after_fork() in the child of a fork, or reset() takes mu_.
BeginClose(t, kind) ==
    /\ pc[t] = "idle" /\ mu = NoThread
    /\ \A u \in Threads : ~Logging(u)
    /\ \/ kind = "shutdown" /\ ~closed
       \/ kind = "restart" /\ reborn
       \/ kind = "reset" /\ ~reborn /\ epoch < MaxEpoch
    /\ mu' = t
    /\ closing' = kind
    /\ unclosed' = open_fds
    /\ Goto(t, "close")
    /\ UNCHANGED <<configVars, runVars, open_fds, file, moduleVars, crashVars, callVars, reported,
                   closed, epoch, reborn, final>>

\* close() of one descriptor, which is free from now on but stays in open_fds_.
CloseOne(t) ==
    /\ pc[t] = "close"
    /\ \E d \in unclosed :
         /\ file' = [file EXCEPT ![d] = NoFile]
         /\ unclosed' = unclosed \ {d}
    /\ UNCHANGED <<mu, pc, configVars, runVars, open_fds, moduleVars, crashVars, callVars, reported,
                   lifeVars>>

\* What the closed descriptors leave in open_fds_.  Mutant: it is not cleared.
ListKept    == open_fds
ListCleared == {}

\* After the loop, open_fds_.clear().
CloseDone(t) ==
    /\ pc[t] = "close"
    /\ unclosed = {}
    /\ open_fds' = ListCleared
    /\ Goto(t, "clear")
    /\ UNCHANGED <<mu, configVars, runVars, unclosed, file, moduleVars, crashVars, callVars, reported,
                   lifeVars>>

\* The crash handler's count after a close.  Mutant: the closed descriptors stay.
CountKept    == crash_count
CountCleared == 0

ClearCrashFds(t) ==
    /\ pc[t] = "clear"
    /\ crash_count' = CountCleared
    /\ Goto(t, "forget")
    /\ UNCHANGED <<mu, configVars, runVars, fdVars, moduleVars, crash_fds, callVars, reported,
                   lifeVars>>

\* Whether the run counts as tried: shutdown is final, the others start afresh.
\* Mutant: shutdown starts afresh.
TriedNever(kind) == 0
Tried(kind)      == IF kind = "shutdown" THEN init_state ELSE 0

\* The cached descriptor of module m.  Mutant: the child keeps its parent's.
FdKept(kind, m)   == file_fd[m]
FdForgot(kind, m) == IF m \notin known THEN file_fd[m]
                     ELSE IF kind = "shutdown" THEN GaveUp ELSE NotOpened

\* The rest of do_shutdown, do_restart_after_fork and do_reset; a reset makes the
\* settings those of a logger without a configuration.
EndClose(t) ==
    /\ pc[t] = "forget"
    /\ run_open' = FALSE
    /\ shared_fd' = NotOpened
    /\ init_state' = Tried(closing)
    /\ file_fd' = [m \in Modules |-> FdForgot(closing, m)]
    /\ closing' = "no"
    /\ mu' = NoThread
    /\ Goto(t, "idle")
    /\ \/ /\ closing = "shutdown"
          /\ closed' = TRUE
          /\ final' = (init_state = 1)
          /\ UNCHANGED <<configVars, epoch, reborn, reported, opened>>
       \/ /\ closing # "shutdown"
          /\ per_module' = IF closing = "reset" THEN FALSE ELSE per_module
          /\ closed' = FALSE /\ reborn' = FALSE
          /\ epoch' = epoch + 1
          /\ reported' = {} /\ opened' = 0 /\ final' = FALSE /\ switched' = FALSE
    /\ UNCHANGED <<fdVars, known, crashVars, callVars>>

\* set_file_per_module, configure, load_file: settings_ is replaced under mu_.
SetPerModule(t) ==
    /\ Reconfigure
    /\ pc[t] = "idle" /\ mu = NoThread
    /\ per_module' = ~per_module
    /\ switched' = (switched \/ init_state # 0)
    /\ UNCHANGED <<mu, pc, runVars, fdVars, moduleVars, crashVars, callVars, reported, lifeVars>>

\* fork, seen from the child: atfork_prepare took mu_ and the child releases it,
\* only the forking thread exists, the descriptors are copies.
Fork(t) ==
    /\ epoch < MaxEpoch /\ ~reborn
    /\ pc[t] = "idle" /\ mu = NoThread
    /\ pc' = [u \in Threads |-> IF u = t THEN pc[u] ELSE "gone"]
    /\ reborn' = TRUE
    /\ UNCHANGED <<mu, stateVars, callVars, reported, closed, closing, epoch, final>>

\* What a thread does once it is inside a call.
Step(t) ==
    \/ LoadFd(t) \/ Lock(t) \/ Recheck(t) \/ RunTried(t) \/ RunFails(t) \/ RunOpens(t)
    \/ UseShared(t) \/ OpenModuleFile(t) \/ RegisterSlot(t) \/ RegisterCount(t)
    \/ Publish(t) \/ Release(t) \/ Report(t) \/ Finish(t)
    \/ CloseOne(t) \/ CloseDone(t) \/ ClearCrashFds(t) \/ EndClose(t)

Next ==
    \/ \E t \in Threads :
         \/ \E m \in Modules : Log(t, m)
         \/ CallInit(t)
         \/ \E kind \in {"shutdown", "restart", "reset"} : BeginClose(t, kind)
         \/ Step(t)
         \/ SetPerModule(t)
         \/ Fork(t)

Spec == Init /\ [][Next]_vars

\* The threads of a process run; whether a thread calls slog is its own affair.
FairSpec == Spec /\ \A t \in Threads : WF_vars(Step(t))

----------------------------------------------------------------------------
(* Properties.                                                             *)

Entries == (Nat \X Files) \cup {NoFile}
Calls   == [in : BOOLEAN, mod : Modules \cup {NoModule}, fd : FdValues, oe : OpenErrs]

\* Every variable has its type.
TypeOK ==
    /\ mu \in Threads \cup {NoThread}
    /\ pc \in [Threads -> Steps]
    /\ {per_module, switched, run_open, closed, reborn, final} \subseteq BOOLEAN
    /\ init_state \in 0 .. 2
    /\ shared_fd \in FdValues
    /\ opened \in Nat
    /\ open_fds \subseteq Fds
    /\ unclosed \subseteq Fds
    /\ file \in [Fds -> Entries]
    /\ known \subseteq Modules
    /\ file_fd \in [Modules -> FdValues]
    /\ crash_fds \in [1 .. MaxCrashFds -> FdValues]
    /\ crash_count \in 0 .. MaxCrashFds
    /\ mod \in [Threads -> Modules \cup {NoModule}]
    /\ fd \in [Threads -> FdValues]
    /\ oe \in [Threads -> OpenErrs]
    /\ outer \in [Threads -> Calls]
    /\ reported \subseteq OpenErrs
    /\ closing \in {"no", "shutdown", "restart", "reset"}
    /\ epoch \in Nat

\* The double-checked open: one run per life of the process, and no file twice.
RunOpenedOnce ==
    /\ opened <= 1
    /\ \A d, e \in Fds : file[d] # NoFile /\ file[d] = file[e] => d = e

\* A line goes to the file of its module, or to the shared file, of the run this
\* process has now: never to a closed descriptor or one that is used again, nor, after
\* restart_after_fork, to a file of the parent.
LineGoesToItsFile ==
    \A t \in Threads :
        pc[t] = "finish" /\ mod[t] # NoModule /\ fd[t] \in Fds =>
            file[fd[t]] \in {<<epoch, mod[t]>>, <<epoch, Shared>>}

\* No descriptor of a log file is lost: whoever takes mu_, to flush, shut down or
\* start afresh, finds every open log file in open_fds_ and no number that was closed,
\* however the open of a file and its entry, and the close and the clear of the list,
\* are apart; and a close loop never closes a number twice.
OpenFdsAreTheLogs ==
    /\ mu = NoThread => open_fds = {d \in Fds : file[d] # NoFile}
    /\ \A d \in unclosed : file[d] # NoFile

\* The crash handler may interrupt any step but those of a close: every counted
\* slot is an open log file, and when mu_ is free every open log file that fits
\* the table is counted.
CrashTableIsCurrent ==
    LET counted == {crash_fds[i] : i \in 1 .. crash_count}
    IN /\ closing = "no" => counted \subseteq open_fds
       /\ mu = NoThread => open_fds \subseteq counted \/ crash_count = MaxCrashFds

\* shutdown of an open run is final: until restart_after_fork nothing is open,
\* however many modules appear.
ClosedRunStaysClosed ==
    final => ~run_open /\ open_fds = {}

\* "Nothing fails in silence": when no call is under way, a failed run, a failed
\* shared file and every module file that failed has been reported in the process
\* where it happened; modules are not spoken of once file.per_module was changed
\* under an open run.
FailureWasReported ==
    /\ \A t \in Threads : ~Logging(t)
    /\ ~closed /\ ~reborn
    => /\ init_state = 2 => <<NoModule, "dir">> \in reported
       /\ init_state = 1 /\ ~switched => \A m \in known : file_fd[m] = GaveUp =>
            <<IF per_module THEN m ELSE NoModule, "file">> \in reported

\* ... and "once for each failure", however many threads ran into it.
FailureReportedOnce ==
    \A t, u \in Threads : pc[t] = "report" =>
        /\ oe[t] \notin reported
        /\ u # t /\ pc[u] = "report" => oe[u] # oe[t]

\* Whoever takes mu_ releases it, also when the failure it met is handed to a
\* handler that logs.
MutexIsReleased == mu # NoThread ~> mu = NoThread

=============================================================================
