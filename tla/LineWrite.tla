----------------------------- MODULE LineWrite ------------------------------
(***************************************************************************)
(* From the settings of the prefix to the bytes in a file and on standard  *)
(* output: reload_locked publishes what a line depends on while dispatch   *)
(* of logger.cpp reads it without a lock, builds the line (LineFormat) and *)
(* hands it to write_all of sink.cpp, which continues after a short write. *)
(* Every line is selected for both outputs, and the file is open.          *)
(*                                                                         *)
(* An output is the sequence of the pieces written to it: piece            *)
(* <<id, from, to, size>> has the bytes from .. to of line id.             *)
(***************************************************************************)
EXTENDS LineFormat, FiniteSets

CONSTANTS
    Threads,
    Records,        \* what is logged: a level and a message
    Configurations, \* the settings of the prefix that calls may ask for
    Defaults,       \* those of a logger with no configuration
    Loaded,         \* those a logger may start with
    Severe,         \* the levels the flush setting selects
    MaxLines,       \* bound on the lines each thread logs
    MaxReloads,     \* bound on the reloads
    MaxShort,       \* bound on the short writes
    MaxClock        \* the wall clock is somewhere in 0 .. MaxClock, and may be set back

ASSUME BoundsAssumption ==
    /\ MaxLines \in [Threads -> Nat]
    /\ MaxReloads \in Nat /\ MaxShort \in Nat /\ MaxClock \in Nat
    /\ Defaults \in Configurations

ASSUME TextsAssumption ==
    /\ \A s \in Configurations \cup Loaded : s.format \in Seq(Characters)
    /\ \A r \in Records : r.msg \in Seq(Characters)

ASSUME SwitchesAssumption == \A s \in Configurations \cup Loaded : s.colour \in BOOLEAN

Sinks == {"file", "stdout"}
Never == -1

VARIABLES
    settings,   \* settings_: [format, time, elapsed, colour, flush]
    start,      \* start_epoch_ns_
    storing,    \* how far the reload under mu_ is
    specs,      \* specs_: the parsed formats, each with the key it was parsed for
    cache,      \* spec_cache_: the specs that can be found again
    fmt,        \* fmt_ptr_, as an index of specs
    colour,     \* stdout_color_
    flush,      \* flush_level_
    pc,
    lines,      \* lines logged so far, per thread
    spec,       \* the spec a thread has loaded, 0 if none
    rec,        \* the record it is writing
    line,       \* the thread-local line buffer
    done,       \* bytes of it that are written
    out,        \* what each output got
    durable,    \* how much of the file fdatasync has been called for
    drops,      \* g_drops
    reloads,    \* reloads so far
    short,      \* lines that met a short write
    inForce,    \* the settings in force at some time during a thread's call
    previous,   \* the settings before the last reload
    resets      \* resets so far

publishedVars == <<colour, flush, fmt, specs, cache>>
configVars  == <<settings, start, storing, reloads, publishedVars>>
callVars    == <<pc, lines, spec, rec, line, done, inForce>>
outVars     == <<out, durable, drops, short>>
historyVars == <<previous, resets>>
vars        == <<configVars, callVars, outVars, historyVars>>

Busy(t)     == pc[t] # "idle"
Id(t)       == <<t, lines[t]>>
Goto(t, at) == pc' = [pc EXCEPT ![t] = at]
Now         == [settings |-> settings, start |-> start]
InForce     == IF storing = "no" THEN {Now} ELSE {Now, previous}

\* What a spec is cached by.  Mutant: the toggles are not part of it.
KeyOfText(s, st)    == <<s.format, FALSE, FALSE, st>>
Key(s, st)          == <<s.format, s.time, s.elapsed, st>>

Parsed(s, st) ==
    [key |-> Key(s, st), format |-> ParseFormat(s.format, s.time, s.elapsed, st)]

Init ==
    /\ settings \in Loaded
    /\ start = 0
    /\ storing = "no"
    /\ specs = <<Parsed(settings, start)>>
    /\ cache = {1}
    /\ fmt = 1
    /\ colour = settings.colour
    /\ flush = settings.flush
    /\ pc = [t \in Threads |-> "idle"]
    /\ lines = [t \in Threads |-> 0]
    /\ spec = [t \in Threads |-> 0]
    /\ rec = [t \in Threads |-> <<>>]
    /\ line = [t \in Threads |-> <<>>]
    /\ done = [t \in Threads |-> 0]
    /\ out = [s \in Sinks |-> <<>>]
    /\ durable = 0
    /\ drops = 0
    /\ reloads = 0
    /\ short = {}
    /\ inForce = [t \in Threads |-> {}]
    /\ previous = Now
    /\ resets = 0

----------------------------------------------------------------------------
(* reload_locked, under mu_.                                               *)

BeginReload(s, st) ==
    /\ storing = "no" /\ reloads < MaxReloads
    /\ settings' = s /\ start' = st
    /\ reloads' = reloads + 1
    /\ storing' = "flush"
    /\ previous' = Now
    /\ inForce' = [t \in Threads |-> IF Busy(t) THEN inForce[t] \cup {Now'} ELSE inForce[t]]
    /\ UNCHANGED <<colour, flush, fmt, pc, lines, spec, rec, line, done, out,
                   durable, short>>

\* A setter or configure.
Configure ==
    /\ \E s \in Configurations : BeginReload(s, start)
    /\ UNCHANGED <<specs, cache, drops, resets>>

\* set_start_epoch_nanos.
SetStart ==
    /\ \E now \in 0 .. MaxClock : BeginReload(settings, now)
    /\ UNCHANGED <<specs, cache, drops, resets>>

\* do_reset: specs that readers may hold stay.
Reset ==
    /\ \E now \in 0 .. MaxClock : BeginReload(Defaults, now)
    /\ UNCHANGED specs
    /\ cache' = {}
    /\ drops' = 0
    /\ resets' = resets + 1

StoreFlush ==
    /\ storing = "flush"
    /\ flush' = settings.flush
    /\ storing' = "colour"
    /\ UNCHANGED <<settings, start, reloads, colour, fmt, specs, cache, callVars, outVars,
                   historyVars>>

StoreColour ==
    /\ storing = "colour"
    /\ colour' = settings.colour
    /\ storing' = "format"
    /\ UNCHANGED <<settings, start, reloads, flush, fmt, specs, cache, callVars, outVars,
                   historyVars>>

\* The specs to use again.
Cached(key) == {i \in cache : specs[i].key = key}

StoreFormat ==
    /\ storing = "format"
    /\ storing' = "no"
    /\ \/ fmt' \in Cached(Key(settings, start)) /\ UNCHANGED <<specs, cache>>
       \/ /\ Cached(Key(settings, start)) = {}
          /\ specs' = Append(specs, Parsed(settings, start))
          /\ fmt' = Len(specs')
          /\ cache' = cache \cup {fmt'}
    /\ UNCHANGED <<settings, start, reloads, flush, colour, callVars, outVars, historyVars>>

----------------------------------------------------------------------------
(* A log call.                                                             *)

\* format_and_dispatch, and the load of the spec.
Log(t) ==
    /\ pc[t] = "idle" /\ lines[t] < MaxLines[t]
    /\ \E r \in Records :
          rec' = [rec EXCEPT ![t] = [level |-> r.level, msg |-> CutMessage(r.msg), now |-> 0]]
    /\ lines' = [lines EXCEPT ![t] = @ + 1]
    /\ spec' = [spec EXCEPT ![t] = fmt]
    /\ inForce' = [inForce EXCEPT ![t] = InForce]
    /\ Goto(t, "clock")
    /\ UNCHANGED <<configVars, historyVars, line, done, outVars>>

\* The clock is read if the spec needs it, and the line of the file is built.
BuildForFile(t) ==
    /\ pc[t] = "clock"
    /\ \E now \in IF specs[spec[t]].format.needsTime THEN 0 .. MaxClock ELSE {0} :
          rec' = [rec EXCEPT ![t].now = now]
    /\ line' = [line EXCEPT ![t] = BuildLine(specs[spec[t]].format, rec'[t], FALSE)]
    /\ done' = [done EXCEPT ![t] = 0]
    /\ Goto(t, "file")
    /\ UNCHANGED <<configVars, historyVars, lines, spec, inForce, outVars>>

BuildForStdout(t) ==
    /\ pc[t] = "colour"
    /\ line' = [line EXCEPT ![t] = BuildLine(specs[spec[t]].format, rec[t], colour)]
    /\ done' = [done EXCEPT ![t] = 0]
    /\ Goto(t, "stdout")
    /\ UNCHANGED <<configVars, historyVars, lines, spec, rec, inForce, outVars>>

\* The thread leaves dispatch; nobody reads its buffer again.
Return(t) ==
    /\ Goto(t, "idle")
    /\ spec' = [spec EXCEPT ![t] = 0]
    /\ inForce' = [inForce EXCEPT ![t] = {}]
    /\ rec' = [rec EXCEPT ![t] = <<>>]
    /\ line' = [line EXCEPT ![t] = <<>>]

\* After the file comes stdout, after stdout the call is over.
Go(t, at) ==
    IF pc[t] = "file" THEN Goto(t, at) /\ UNCHANGED <<spec, inForce, rec, line>> ELSE Return(t)

\* How much of a line is given to write(2).  Mutant: the newline by itself.
TextFirst(from, size)   == IF from < size - 1 THEN size - 1 ELSE size
Given(from, size)       == size

\* The bytes that are written.  Mutant: the buffer is taken from its start again.
PieceFromStart(t, to)   == <<Id(t), 1, to - done[t], Len(line[t])>>
Piece(t, to)            == <<Id(t), done[t] + 1, to, Len(line[t])>>

\* write(2) takes all it is given or, now and then, less: one byte, or all but one.
Write(t) ==
    LET size  == Len(line[t])
        given == Given(done[t], size)
    IN  /\ pc[t] \in Sinks
        /\ \E to \in {done[t] + 1, given - 1, given} \cap (done[t] + 1 .. given) :
              /\ out' = [out EXCEPT ![pc[t]] = Append(@, Piece(t, to))]
              /\ IF to = given THEN UNCHANGED short
                 ELSE Cardinality(short) < MaxShort /\ short' = short \cup {<<pc[t], Id(t)>>}
              /\ done' = [done EXCEPT ![t] = IF to = size THEN 0 ELSE to]
              /\ IF to = size THEN Go(t, "sync") ELSE UNCHANGED <<pc, spec, inForce, rec, line>>
        /\ UNCHANGED <<configVars, historyVars, lines, durable, drops>>

\* An error of write(2) is reported, and the line counted.
Fail(t) ==
    /\ pc[t] \in Sinks
    /\ drops' = drops + 1
    /\ done' = [done EXCEPT ![t] = 0]
    /\ Go(t, "colour")
    /\ UNCHANGED <<configVars, historyVars, lines, out, durable, short>>

\* Which lines are synced.  Mutant: the others.
MildToSync(level) == flush /\ level \notin Severe
ToSync(level)     == flush /\ level \in Severe

\* fdatasync, whose result is ignored: the line counts as flushed, whatever it returns.
Sync(t) ==
    /\ pc[t] = "sync"
    /\ durable' = IF ToSync(rec[t].level) THEN Len(out["file"]) ELSE durable
    /\ Goto(t, "colour")
    /\ UNCHANGED <<configVars, historyVars, lines, spec, rec, line, done, inForce, out, drops,
                   short>>

Call(t) ==
    \/ Log(t) \/ BuildForFile(t) \/ BuildForStdout(t) \/ Write(t) \/ Fail(t) \/ Sync(t)

Reload == Configure \/ SetStart \/ Reset \/ StoreFlush \/ StoreColour \/ StoreFormat

Next == Reload \/ \E t \in Threads : Call(t)

Spec == Init /\ [][Next]_vars

----------------------------------------------------------------------------
(* Properties.                                                             *)

\* Where the pieces of a line are; the last of them ends it.
Places(sink, id)   == {i \in DOMAIN out[sink] : out[sink][i][1] = id}
Complete(sink, id) ==
    \E i \in Places(sink, id) : /\ \A j \in Places(sink, id) : j <= i
                                /\ out[sink][i][3] = out[sink][i][4]

\* A piece begins the line, or goes on where the piece before it ended.
GoesOn(sink, i) ==
    LET before == {j \in Places(sink, out[sink][i][1]) : j < i}
    IN IF before = {} THEN out[sink][i][2] = 1
       ELSE \E j \in before : /\ \A k \in before : k <= j
                              /\ out[sink][i][2] = out[sink][j][3] + 1

\* A text in which a percent sign that stands for itself precedes the letter of a toggle
\* that is on: the toggle takes it for its field.
Misread(s) ==
    \E c \in {"t", "e"} :
        /\ IF c = "t" THEN s.time ELSE s.elapsed
        /\ Has(s.format, c)
        /\ ~\E i \in DOMAIN s.format : StartsToken(s.format, i) /\ s.format[i + 1] = c

\* Whatever is reconfigured meanwhile, a line is the one that the documented tokens
\* and toggles give for settings that were in force during its call; on standard
\* output, with the colour of such settings too.
LineIsPromised ==
    \A t \in Threads :
        /\ pc[t] \in Sinks
        /\ \A f \in inForce[t] : ~Misread(f.settings)
        => \E f, g \in inForce[t] :
              line[t] = Promised(f.settings.format, f.settings.time, f.settings.elapsed,
                                 f.start, rec[t], pc[t] = "stdout" /\ g.settings.colour)

\* One record is one line: it fits in the atomic size, ends with its newline, and no
\* message adds another one.
OneLinePerRecord ==
    \A t \in Threads : pc[t] \in Sinks =>
        /\ Len(line[t]) <= MaxLine
        /\ Last(line[t]) = NewLine
        /\ \A i \in DOMAIN line[t] : line[t][i] # <<"msg", "\n">>

\* Lines never tear: a line of which write(2) took all it was given is in one piece,
\* whatever other threads write.
UnsplitLinesAreWhole ==
    \A sink \in Sinks : \A i \in DOMAIN out[sink] :
        LET piece == out[sink][i]
        IN <<sink, piece[1]>> \notin short => piece[2] = 1 /\ piece[3] = piece[4]

Logged == UNION {{t} \X (1 .. lines[t]) : t \in Threads}

\* The pieces of a line are its bytes in order, each once; and once no call is under
\* way, a line is complete or counted as dropped, on each output.
LinesAreCompleteOrCounted ==
    /\ \A sink \in Sinks : \A i \in DOMAIN out[sink] : GoesOn(sink, i)
    /\ resets = 0 /\ (\A t \in Threads : ~Busy(t)) =>
          drops = Cardinality({o \in Sinks \X Logged : ~Complete(o[1], o[2])})

\* fdatasync is called for a severe line that was written to its file before the call
\* goes on, if all the settings in force during the call say so.  That the line is then
\* on disk is the kernel's answer, which nobody reads.
SevereLinesAreDurable ==
    \A t \in Threads :
        /\ pc[t] \in {"colour", "stdout"}
        /\ rec[t].level \in Severe
        /\ Complete("file", Id(t))
        /\ \A f \in inForce[t] : f.settings.flush
        => \A i \in DOMAIN out["file"] : out["file"][i][1] = Id(t) => i <= durable

\* Once a reload is over, what is published is what the settings say.
PublishedIsCurrent ==
    storing = "no" =>
        /\ specs[fmt] = Parsed(settings, start)
        /\ colour = settings.colour
        /\ flush = settings.flush

=============================================================================
