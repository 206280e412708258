----------------------------- MODULE RateLimit ------------------------------
(***************************************************************************)
(* The rate-limit macros of slog.h, expanded at three call sites that many *)
(* threads reach: each keeps one static atomic, and the line itself is     *)
(* written after it, when the level passes (SLOG_EMIT).                    *)
(*                                                                         *)
(* The counters have 64 bits and no process makes 2^64 calls: they do not  *)
(* wrap here.                                                              *)
(***************************************************************************)
EXTENDS Integers, Sequences, FiniteSets

CONSTANTS
    Threads,
    N,         \* the N of LOG_EVERY_N and LOG_FIRST_N
    Gap,       \* SEC of LOG_EVERY_N_SEC, in clock ticks
    MaxCalls,  \* bound on the number of calls at each site
    MaxClock   \* bound on the monotonic clock

ASSUME RateLimitAssumption ==
    /\ IsFiniteSet(Threads)
    /\ N \in Int
    /\ Gap \in Nat
    /\ MaxCalls \in Nat
    /\ MaxClock \in Nat

Never == -1  \* INT64_MIN, which no reading of the clock is

VARIABLES
    everyCount,  \* _slog_n of LOG_EVERY_N
    firstCount,  \* _slog_n of LOG_FIRST_N
    last,        \* _slog_last of LOG_EVERY_N_SEC
    pc,          \* where each thread is
    now, prev,   \* _slog_now (or the number fetched) and _slog_prev of its call
    everyLines,  \* the numbers of the LOG_EVERY_N calls that wrote a line
    firstLines,  \* the same of LOG_FIRST_N
    stamps,      \* the clock readings it let through, in order
    secCalls,    \* how often it was reached
    clock

siteVars == <<everyCount, firstCount, last>>
callVars == <<pc, now, prev>>
lineVars == <<everyLines, firstLines>>
vars == <<siteVars, callVars, lineVars, stamps, secCalls, clock>>

Goto(t, step) == pc' = [pc EXCEPT ![t] = step]

----------------------------------------------------------------------------
Init ==
    /\ everyCount = 0 /\ firstCount = 0 /\ last = Never
    /\ pc = [t \in Threads |-> "idle"]
    /\ now = [t \in Threads |-> 0]
    /\ prev = [t \in Threads |-> Never]
    /\ everyLines = {} /\ firstLines = {}
    /\ stamps = <<>>
    /\ secCalls = 0
    /\ clock = 0

\* Every N-th number.  Mutant: the number after the increment decides.
NthCallLater(i) == (i + 1) % N = 0
NthCall(i)      == i % N = 0

\* The first N numbers.  Mutant: off by one.
FirstCallsAndOne(i) == i <= N
FirstCalls(i)       == i < N

\* LOG_EVERY_N and LOG_FIRST_N: fetch_add, and a line for some numbers.
EveryN(t) ==
    /\ pc[t] = "idle"
    /\ N > 0
    /\ everyCount < MaxCalls
    /\ everyCount' = everyCount + 1
    /\ now' = [now EXCEPT ![t] = everyCount]
    /\ Goto(t, IF NthCall(everyCount) THEN "every" ELSE "idle")
    /\ UNCHANGED <<firstCount, last, prev, lineVars, stamps, secCalls, clock>>

FirstN(t) ==
    /\ pc[t] = "idle"
    /\ N > 0
    /\ firstCount < MaxCalls
    /\ firstCount' = firstCount + 1
    /\ now' = [now EXCEPT ![t] = firstCount]
    /\ Goto(t, IF FirstCalls(firstCount) THEN "first" ELSE "idle")
    /\ UNCHANGED <<everyCount, last, prev, lineVars, stamps, secCalls, clock>>

\* LOG_EVERY_N_SEC: read the clock, load, compare, exchange.
ReadClock(t) ==
    /\ pc[t] = "idle"
    /\ secCalls < MaxCalls
    /\ secCalls' = secCalls + 1
    /\ now' = [now EXCEPT ![t] = clock]
    /\ Goto(t, "load")
    /\ UNCHANGED <<siteVars, prev, lineVars, stamps, clock>>

\* Mutant: no sentinel, the first call waits for SEC too.
WindowOverPlain(time) == time - last >= Gap
WindowOver(time)      == last = Never \/ time - last >= Gap

LoadLast(t) ==
    /\ pc[t] = "load"
    /\ prev' = [prev EXCEPT ![t] = last]
    /\ Goto(t, IF WindowOver(now[t]) THEN "exchange" ELSE "idle")
    /\ UNCHANGED <<siteVars, now, lineVars, stamps, secCalls, clock>>

\* Mutant: a store instead of the compare and exchange.
ExpectedAlways(t) == TRUE
Expected(t)       == last = prev[t]

Exchange(t) ==
    /\ pc[t] = "exchange"
    /\ \/ /\ Expected(t)
          /\ last' = now[t]
          /\ stamps' = Append(stamps, now[t])
          /\ Goto(t, "sec")
       \/ /\ ~Expected(t)
          /\ Goto(t, "idle")
          /\ UNCHANGED <<last, stamps>>
    /\ UNCHANGED <<everyCount, firstCount, now, prev, lineVars, secCalls, clock>>

\* SLOG_EMIT of a line whose level passes.
EmitEvery(t) ==
    /\ pc[t] = "every"
    /\ everyLines' = everyLines \cup {now[t]}
    /\ Goto(t, "idle")
    /\ UNCHANGED <<siteVars, now, prev, firstLines, stamps, secCalls, clock>>

EmitFirst(t) ==
    /\ pc[t] = "first"
    /\ firstLines' = firstLines \cup {now[t]}
    /\ Goto(t, "idle")
    /\ UNCHANGED <<siteVars, now, prev, everyLines, stamps, secCalls, clock>>

\* A line of LOG_EVERY_N_SEC is known by the clock reading that let it through.
EmitSec(t) ==
    /\ pc[t] = "sec"
    /\ Goto(t, "idle")
    /\ UNCHANGED <<siteVars, now, prev, lineVars, stamps, secCalls, clock>>

Tick ==
    /\ clock < MaxClock
    /\ clock' = clock + 1
    /\ UNCHANGED <<siteVars, callVars, lineVars, stamps, secCalls>>

Call(t) ==
    \/ EveryN(t) \/ FirstN(t) \/ ReadClock(t) \/ LoadLast(t) \/ Exchange(t)
    \/ EmitEvery(t) \/ EmitFirst(t) \/ EmitSec(t)

Next == Tick \/ \E t \in Threads : Call(t)

Spec == Init /\ [][Next]_vars

----------------------------------------------------------------------------
(* Properties.                                                             *)

\* Every variable has its type.
TypeOK ==
    /\ everyCount \in Nat /\ firstCount \in Nat /\ secCalls \in Nat /\ clock \in Nat
    /\ last \in Nat \cup {Never}
    /\ pc \in [Threads -> {"idle", "every", "first", "load", "exchange", "sec"}]
    /\ now \in [Threads -> Nat]
    /\ prev \in [Threads -> Nat \cup {Never}]
    /\ everyLines \subseteq Nat /\ firstLines \subseteq Nat
    /\ stamps \in Seq(Nat)

\* The calls of a site that are about to write their line.
Pending(step) == {now[t] : t \in {u \in Threads : pc[u] = step}}

\* LOG_EVERY_N writes the 1st, the n+1th, the 2n+1th, ... call and no other,
\* whichever threads make them and however late they write.
EveryNthCall ==
    everyLines \cup Pending("every") = {i \in 0 .. (everyCount - 1) : i % N = 0}

\* LOG_FIRST_N writes the first n calls and no other.
FirstNCalls ==
    firstLines \cup Pending("first") = {i \in 0 .. (firstCount - 1) : i < N}

\* The calls LOG_EVERY_N_SEC lets through have read the clock at least SEC apart,
\* whichever threads raced for one window.
StampsAreSpaced ==
    \A i, j \in DOMAIN stamps : i < j => stamps[j] - stamps[i] >= Gap

\* "the first call always fires": when the site was reached and no call is under
\* way, one has been let through.
FirstCallFires ==
    secCalls > 0 /\ (\A t \in Threads : pc[t] \notin {"load", "exchange"}) => stamps # <<>>

=============================================================================
