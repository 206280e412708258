---------------------------- MODULE ErrorReport ----------------------------
(***************************************************************************)
(* What becomes of a line and of its failures: format_and_dispatch and     *)
(* dispatch of logger.cpp after the thresholds and the descriptor (a line  *)
(* is formatted in a thread-local buffer, written to its file, then to     *)
(* stdout), and record, report, last_error, clear_error, count_drop and    *)
(* set_error_handler of error.cpp.  Every section under err_mu is one      *)
(* step; between two of them other threads run.                            *)
(*                                                                         *)
(* A line is <<thread, n>>.  Of a message the model keeps its size and     *)
(* whose bytes the buffer has.                                             *)
(***************************************************************************)
EXTENDS Naturals, Sequences, FiniteSets

CONSTANTS
    Threads,
    MaxLines,     \* bound on the lines each thread logs
    MaxMsg,       \* kMaxMsg - 1
    Sizes,        \* how long the message of each line may be, cut to MaxMsg
    HandlerLogs,  \* the error handler logs, once per call
    MayClear,     \* the program calls clear_error
    MayUninstall, \* the program removes and installs its handler
    MayRunOut     \* an allocation may fail

Lines     == UNION {{t} \X (1 .. MaxLines[t]) : t \in Threads}
Positions == 1 .. MaxMsg + 1  \* of the message buffer
Nul       == <<>>             \* the byte that ends a message, of no line
Codes     == {"file_write", "stdout_write", "message_truncated", "out_of_memory"}
NoFailure == <<>>

ASSUME ConstantsAssumption ==
    /\ MaxLines \in [Threads -> Nat]
    /\ MaxMsg \in Nat
    /\ Sizes \in [Lines -> SUBSET (0 .. MaxMsg)]
    /\ {HandlerLogs, MayClear, MayUninstall, MayRunOut} \subseteq BOOLEAN

VARIABLES
    lines,      \* lines logged so far, per thread
    stack,      \* the log calls a thread is in, innermost first
    msgbuf,     \* the thread-local message buffer: whose byte is where
    inHandler,  \* t_in_handler
    sticky,     \* the last error
    noted,      \* g_noted
    drops,      \* g_drops
    notes,      \* how often each code was noted to stderr
    handler,    \* an error handler is installed
    removed,    \* the handler has been removed at some time
    calls,      \* calls of the handler: of which failure, with what information
    output,     \* lines written: where, of which call, whose bytes in their message
    abandoned   \* lines whose call ran out of memory

callVars    == <<lines, stack, msgbuf, inHandler>>
errorVars   == <<sticky, noted, drops, notes>>
handlerVars == <<handler, removed>>
history     == <<calls, output, abandoned>>
vars        == <<callVars, errorVars, handlerVars, history>>

\* A log call under way: the size of its message, where it is, the failure it is
\* reporting, whether its handler has logged.
Frame(line, size) ==
    [line |-> line, size |-> size, at |-> "format", code |-> "file_write", logged |-> FALSE]

Top(t)      == Head(stack[t])
At(t, at)   == stack[t] # <<>> /\ Top(t).at = at
Quiet       == \A t \in Threads : stack[t] = <<>>
Failing(t)  == <<Top(t).line, Top(t).code>>

Goto(t, at)       == stack' = [stack EXCEPT ![t][1].at = at]
Fail(t, code)     == stack' = [stack EXCEPT ![t][1].at = "record", ![t][1].code = code]
Return(t)         == stack' = [stack EXCEPT ![t] = Tail(@)]

Init ==
    /\ lines = [t \in Threads |-> 0]
    /\ stack = [t \in Threads |-> <<>>]
    /\ msgbuf = [t \in Threads |-> [i \in Positions |-> Nul]]
    /\ inHandler = [t \in Threads |-> FALSE]
    /\ sticky = NoFailure
    /\ noted = {}
    /\ drops = 0
    /\ notes = [c \in Codes |-> 0]
    /\ handler = TRUE
    /\ removed = FALSE
    /\ calls = {}
    /\ output = {}
    /\ abandoned = {}

\* A log call of the program, or of the handler the thread is running.
Log(t) ==
    /\ lines[t] < MaxLines[t]
    /\ \/ stack[t] = <<>>
       \/ HandlerLogs /\ At(t, "handler") /\ ~Top(t).logged
    /\ lines' = [lines EXCEPT ![t] = @ + 1]
    /\ \E size \in Sizes[<<t, lines[t] + 1>>] :
         LET frame == Frame(<<t, lines[t] + 1>>, size)
         IN stack' = IF stack[t] = <<>> THEN [stack EXCEPT ![t] = <<frame>>]
                     ELSE [stack EXCEPT ![t] = <<frame, [Top(t) EXCEPT !.logged = TRUE]>>]
    /\ UNCHANGED <<msgbuf, inHandler, errorVars, handlerVars, history>>

\* vsnprintf writes the message of call f and a NUL, and leaves what is behind it.
Overlaid(buffer, f) ==
    [i \in Positions |-> IF i <= f.size THEN f.line ELSE IF i = f.size + 1 THEN Nul
                         ELSE buffer[i]]

\* The message buffers after a line is formatted.  Mutant: one for all threads.
FormattedShared(t)  == [u \in Threads |-> Overlaid(msgbuf[u], Top(t))]
Formatted(t)        == [msgbuf EXCEPT ![t] = Overlaid(@, Top(t))]

\* format_and_dispatch: a message that does not fit is cut, which is recorded.
Format(t) ==
    /\ At(t, "format")
    /\ msgbuf' = Formatted(t)
    /\ \/ Goto(t, "file")
       \/ Top(t).size = MaxMsg /\ Fail(t, "message_truncated")
    /\ UNCHANGED <<lines, inHandler, errorVars, handlerVars, history>>

\* The first line of a module allocates, its file too: emit catches what is thrown.
RunOut(t) ==
    /\ MayRunOut
    /\ At(t, "format") \/ At(t, "file")
    /\ Fail(t, "out_of_memory")
    /\ abandoned' = abandoned \cup {Top(t).line}
    /\ UNCHANGED <<lines, msgbuf, inHandler, errorVars, handlerVars, calls, output>>

\* What a call takes from the buffer: as many bytes as its own message has.
Text(t) == [i \in 1 .. Top(t).size |-> msgbuf[t][i]]

\* dispatch: the line is built from the buffer for each output anew; after the
\* file comes stdout, after stdout the call returns.
Write(t, sink) ==
    /\ At(t, sink)
    /\ \/ /\ output' = output \cup {<<sink, Top(t).line, Text(t)>>}
          /\ IF sink = "file" THEN Goto(t, "stdout") ELSE Return(t)
       \/ /\ Fail(t, IF sink = "file" THEN "file_write" ELSE "stdout_write")
          /\ UNCHANGED output
    /\ UNCHANGED <<lines, msgbuf, inHandler, errorVars, handlerVars, calls, abandoned>>

\* record: the sticky error, under err_mu.
Record(t) ==
    /\ At(t, "record")
    /\ sticky' = Failing(t)
    /\ Goto(t, "note")
    /\ UNCHANGED <<lines, msgbuf, inHandler, noted, drops, notes, handlerVars, history>>

\* Whether a failure is noted: the exchange finds the flag down.  Mutant: always.
NotedAlways(code)   == TRUE
FirstOfItsCode(code) == code \notin noted

\* record: the note.  Cutting a message only records.
Note(t) ==
    /\ At(t, "note")
    /\ noted' = noted \cup {Top(t).code}
    /\ notes' = IF FirstOfItsCode(Top(t).code) THEN [notes EXCEPT ![Top(t).code] = @ + 1] ELSE notes
    /\ Goto(t, IF Top(t).code = "message_truncated" THEN "file" ELSE "gethandler")
    /\ UNCHANGED <<lines, msgbuf, inHandler, sticky, drops, handlerVars, history>>

\* Whether report calls the handler: none inside a handler.  Mutant: not
\* while another thread is inside.
MayCallAlone(t)  == handler /\ \A u \in Threads : ~inHandler[u]
MayCall(t)       == handler /\ ~inHandler[t]

\* report: the handler is read under err_mu.
GetHandler(t) ==
    /\ At(t, "gethandler")
    /\ Goto(t, IF MayCall(t) THEN "copy" ELSE "drop")
    /\ UNCHANGED <<lines, msgbuf, inHandler, errorVars, handlerVars, history>>

\* report: last_error(), under err_mu again, then the call.
CallHandler(t) ==
    /\ At(t, "copy")
    /\ Goto(t, "handler")
    /\ inHandler' = [inHandler EXCEPT ![t] = TRUE]
    /\ calls' = calls \cup {<<Failing(t), sticky>>}
    /\ UNCHANGED <<lines, msgbuf, errorVars, handlerVars, output, abandoned>>

\* The handler returns or throws, which is the same to report.
HandlerReturns(t) ==
    /\ At(t, "handler")
    /\ inHandler' = [inHandler EXCEPT ![t] = FALSE]
    /\ Goto(t, "drop")
    /\ UNCHANGED <<lines, msgbuf, errorVars, handlerVars, history>>

\* What count_drop counts.  Mutant: only lines lost to a file.
LossOfFile(code) == IF code = "file_write" THEN 1 ELSE 0
Loss(code)       == 1

\* count_drop; after the file comes stdout, else the call returns.
CountDrop(t) ==
    /\ At(t, "drop")
    /\ drops' = drops + Loss(Top(t).code)
    /\ IF Top(t).code = "file_write" THEN Goto(t, "stdout") ELSE Return(t)
    /\ UNCHANGED <<lines, msgbuf, inHandler, sticky, noted, notes, handlerVars, history>>

ClearError(t) ==
    /\ MayClear
    /\ stack[t] = <<>>
    /\ sticky' = NoFailure
    /\ UNCHANGED <<callVars, noted, drops, notes, handlerVars, history>>

SetErrorHandler(t) ==
    /\ MayUninstall
    /\ stack[t] = <<>>
    /\ handler' = ~handler
    /\ removed' = TRUE
    /\ UNCHANGED <<callVars, errorVars, history>>

Step(t) ==
    \/ Format(t) \/ RunOut(t) \/ Write(t, "file") \/ Write(t, "stdout")
    \/ Record(t) \/ Note(t) \/ GetHandler(t) \/ CallHandler(t) \/ HandlerReturns(t) \/ CountDrop(t)

Next ==
    \E t \in Threads : Log(t) \/ Step(t) \/ ClearError(t) \/ SetErrorHandler(t)

Spec == Init /\ [][Next]_vars

----------------------------------------------------------------------------
(* Properties.                                                             *)

\* "called once per failure with the failure detail".
HandlerGetsItsFailure ==
    \A call \in calls : call[1] = call[2]

\* The message is the line's own ...
Own(line, text) == \A i \in DOMAIN text : text[i] = line

\* ... or a later line of the thread, its NUL, and the rest of the line's own, cut where
\* its own ended.
Overwritten(line, text) ==
    \E n \in line[2] + 1 .. MaxLines[line[1]], size \in 0 .. MaxMsg :
        \A i \in DOMAIN text :
            text[i] = IF i <= size THEN <<line[1], n>> ELSE IF i = size + 1 THEN Nul ELSE line

\* What goes to a file is the call's own message, whatever the other threads and the
\* handlers do; so is what goes to stdout, unless the handler logged between the two:
\* then that line lies over it.
OutputIsTheMessage ==
    \A o \in output :
        \/ Own(o[2], o[3])
        \/ HandlerLogs /\ o[1] = "stdout" /\ Overwritten(o[2], o[3])

\* Each output of each line was written, or counted as a drop, never both and never
\* neither, once no call is under way; a line whose call ran out of memory is counted
\* once for both.
LinesAreWrittenOrCounted ==
    Quiet =>
        LET logged == {l \in Lines : l[2] <= lines[l[1]]}
            lost   == ({"file", "stdout"} \X logged) \ {<<o[1], o[2]>> : o \in output}
        IN drops = Cardinality({o \in lost : o[1] = "file" \/ o[2] \notin abandoned})

\* One stderr note per code, from whatever number of threads; and none is missing
\* once no call is under way.
OneNotePerCode ==
    /\ \A c \in Codes : notes[c] <= 1
    /\ sticky # NoFailure /\ Quiet => notes[sticky[2]] = 1

\* As long as the handler was never removed, no failure that loses a line passes it
\* by, except one of a line the handler itself logs.
HandlerSeesEveryLoss ==
    ~removed => \A t \in Threads :
        At(t, "drop") /\ Len(stack[t]) = 1 => \E call \in calls : call[1] = Failing(t)

=============================================================================
