-------------------------- MODULE RateLimitProofs ---------------------------
(***************************************************************************)
(* Proofs about RateLimit, for any threads, N and SEC.                     *)
(***************************************************************************)
EXTENDS RateLimit, TLAPS

LEMMA TypeInit == Init => TypeOK
  BY RateLimitAssumption DEF Init, TypeOK, Never, RateLimitAssumption

LEMMA TypeStep ==
    ASSUME TypeOK, [Next]_vars
    PROVE  TypeOK'
<1> USE RateLimitAssumption
    DEF TypeOK, RateLimitAssumption, Goto, siteVars, callVars, lineVars
<1>1. CASE UNCHANGED vars
  BY <1>1 DEF vars
<1>2. CASE Tick
  BY <1>2 DEF Tick
<1>3. ASSUME NEW t \in Threads, Call(t) PROVE TypeOK'
  <2>1. CASE EveryN(t)
    BY <2>1 DEF EveryN, NthCall
  <2>2. CASE FirstN(t)
    BY <2>2 DEF FirstN, FirstCalls
  <2>3. CASE ReadClock(t)
    BY <2>3 DEF ReadClock
  <2>4. CASE LoadLast(t)
    BY <2>4 DEF LoadLast, WindowOver
  <2>5. CASE Exchange(t)
    <3>1. CASE last = prev[t]
      <4>1. now[t] \in Nat
        OBVIOUS
      <4>2. /\ last' = now[t]
            /\ stamps' = Append(stamps, now[t])
            /\ pc' = [pc EXCEPT ![t] = "sec"]
            /\ UNCHANGED <<everyCount, firstCount, now, prev, lineVars, secCalls, clock>>
        BY <2>5, <3>1 DEF Exchange, Expected
      <4>3. stamps' \in Seq(Nat)
        BY <4>1, <4>2
      <4>4. last' \in Nat \cup {Never}
        BY <4>1, <4>2
      <4>5. pc' \in [Threads -> {"idle", "every", "first", "load", "exchange", "sec"}]
        BY <4>2
      <4> QED BY <4>2, <4>3, <4>4, <4>5
    <3>2. CASE last # prev[t]
      BY <2>5, <3>2 DEF Exchange, Expected
    <3> QED BY <3>1, <3>2
  <2>6. CASE EmitEvery(t)
    BY <2>6 DEF EmitEvery
  <2>7. CASE EmitFirst(t)
    BY <2>7 DEF EmitFirst
  <2>8. CASE EmitSec(t)
    BY <2>8 DEF EmitSec
  <2> QED BY <1>3, <2>1, <2>2, <2>3, <2>4, <2>5, <2>6, <2>7, <2>8 DEF Call
<1> QED BY <1>1, <1>2, <1>3 DEF Next

\* Every variable has its type, whatever the threads, N and SEC.
THEOREM TypeCorrect == Spec => []TypeOK
  BY TypeInit, TypeStep, PTL DEF Spec

----------------------------------------------------------------------------
\* A step that leaves a site's number, its lines and its writers alone.
LEMMA SamePending ==
    ASSUME NEW step, NEW t \in Threads, TypeOK,
           \A u \in Threads : u # t => pc'[u] = pc[u] /\ now'[u] = now[u],
           pc[t] # step, pc'[t] # step
    PROVE  Pending(step)' = Pending(step)
  BY DEF Pending

\* A thread enters the step with number i.
LEMMA MorePending ==
    ASSUME NEW step, NEW t \in Threads, TypeOK, NEW i \in Nat,
           \A u \in Threads : u # t => pc'[u] = pc[u] /\ now'[u] = now[u],
           pc[t] # step, pc'[t] = step, now'[t] = i
    PROVE  Pending(step)' = Pending(step) \cup {i}
  BY DEF Pending

\* The same for the writers of LOG_EVERY_N.
LEMMA EnteringEvery ==
    ASSUME NEW t \in Threads, TypeOK,
           \A u \in Threads : u # t => pc'[u] = pc[u] /\ now'[u] = now[u],
           pc[t] # "every", pc'[t] = "every", now'[t] = everyCount
    PROVE  Pending("every")' = Pending("every") \cup {everyCount}
<1>1. everyCount \in Nat
  BY DEF TypeOK
<1> QED BY <1>1, MorePending

\* A thread leaves the step; another may have its number.
LEMMA LessPending ==
    ASSUME NEW step, NEW t \in Threads, TypeOK,
           \A u \in Threads : u # t => pc'[u] = pc[u] /\ now'[u] = now[u],
           pc[t] = step, pc'[t] # step
    PROVE  Pending(step)' \cup {now[t]} = Pending(step)
  BY DEF Pending

LEMMA EveryNthStep ==
    ASSUME TypeOK, EveryNthCall, [Next]_vars
    PROVE  EveryNthCall'
<1> USE DEF EveryNthCall, Goto, siteVars, callVars, lineVars
<1>1. CASE UNCHANGED vars
  BY <1>1 DEF vars, Pending
<1>2. CASE Tick
  BY <1>2 DEF Tick, Pending
<1>3. ASSUME NEW t \in Threads, Call(t) PROVE EveryNthCall'
  <2>1. CASE EveryN(t)
    <3>1. {i \in 0 .. everyCount : i % N = 0} =
            {i \in 0 .. (everyCount - 1) : i % N = 0}
              \cup (IF everyCount % N = 0 THEN {everyCount} ELSE {})
      BY DEF TypeOK
    <3>2. everyCount' - 1 = everyCount /\ everyLines' = everyLines
      BY <2>1 DEF EveryN, NthCall, TypeOK
    <3>3. \A u \in Threads : u # t => pc'[u] = pc[u] /\ now'[u] = now[u]
      BY <2>1 DEF EveryN, NthCall, TypeOK
    <3>4. CASE everyCount % N = 0
      <4>1. pc[t] # "every" /\ pc'[t] = "every" /\ now'[t] = everyCount
        BY <2>1, <3>4 DEF EveryN, NthCall, TypeOK
      <4>2. Pending("every")' = Pending("every") \cup {everyCount}
        BY <3>3, <4>1, EnteringEvery
      <4> QED BY <3>1, <3>2, <3>4, <4>2
    <3>5. CASE everyCount % N # 0
      <4>1. pc[t] # "every" /\ pc'[t] # "every"
        BY <2>1, <3>5 DEF EveryN, NthCall, TypeOK
      <4>2. Pending("every")' = Pending("every")
        BY <3>3, <4>1, SamePending
      <4> QED BY <3>1, <3>2, <3>5, <4>2
    <3> QED BY <3>4, <3>5
  <2>2. CASE EmitEvery(t)
    <3>1. /\ \A u \in Threads : u # t => pc'[u] = pc[u] /\ now'[u] = now[u]
          /\ pc[t] = "every" /\ pc'[t] # "every"
          /\ everyLines' = everyLines \cup {now[t]} /\ everyCount' = everyCount
      BY <2>2 DEF EmitEvery, TypeOK
    <3>2. Pending("every")' \cup {now[t]} = Pending("every")
      BY <3>1, LessPending
    <3> QED BY <3>1, <3>2
  <2>3. CASE FirstN(t) \/ ReadClock(t) \/ LoadLast(t) \/ Exchange(t) \/ EmitFirst(t)
             \/ EmitSec(t)
    <3>1. /\ \A u \in Threads : u # t => pc'[u] = pc[u] /\ now'[u] = now[u]
          /\ pc[t] # "every" /\ pc'[t] # "every"
          /\ everyLines' = everyLines /\ everyCount' = everyCount
      BY <2>3 DEF FirstN, FirstCalls, ReadClock, LoadLast, WindowOver, Exchange,
                  Expected, EmitFirst, EmitSec, TypeOK
    <3>2. Pending("every")' = Pending("every")
      BY <3>1, SamePending
    <3> QED BY <3>1, <3>2
  <2> QED BY <1>3, <2>1, <2>2, <2>3 DEF Call
<1> QED BY <1>1, <1>2, <1>3 DEF Next

\* However many threads reach it, LOG_EVERY_N writes every N-th call and no other.
THEOREM EveryNthCorrect == Spec => []EveryNthCall
<1>1. Init => EveryNthCall
  BY RateLimitAssumption DEF Init, EveryNthCall, Pending, RateLimitAssumption
<1> QED
  BY <1>1, TypeCorrect, EveryNthStep, PTL DEF Spec

----------------------------------------------------------------------------
\* The same for the writers of LOG_FIRST_N.
LEMMA EnteringFirst ==
    ASSUME NEW t \in Threads, TypeOK,
           \A u \in Threads : u # t => pc'[u] = pc[u] /\ now'[u] = now[u],
           pc[t] # "first", pc'[t] = "first", now'[t] = firstCount
    PROVE  Pending("first")' = Pending("first") \cup {firstCount}
<1>1. firstCount \in Nat
  BY DEF TypeOK
<1> QED BY <1>1, MorePending

LEMMA FirstNStep ==
    ASSUME TypeOK, FirstNCalls, [Next]_vars
    PROVE  FirstNCalls'
<1> USE DEF FirstNCalls, Goto, siteVars, callVars, lineVars
<1>1. CASE UNCHANGED vars
  BY <1>1 DEF vars, Pending
<1>2. CASE Tick
  BY <1>2 DEF Tick, Pending
<1>3. ASSUME NEW t \in Threads, Call(t) PROVE FirstNCalls'
  <2>1. CASE FirstN(t)
    <3>1. {i \in 0 .. firstCount : i < N} =
            {i \in 0 .. (firstCount - 1) : i < N}
              \cup (IF firstCount < N THEN {firstCount} ELSE {})
      BY DEF TypeOK
    <3>2. firstCount' - 1 = firstCount /\ firstLines' = firstLines
      BY <2>1 DEF FirstN, FirstCalls, TypeOK
    <3>3. \A u \in Threads : u # t => pc'[u] = pc[u] /\ now'[u] = now[u]
      BY <2>1 DEF FirstN, FirstCalls, TypeOK
    <3>4. CASE firstCount < N
      <4>1. pc[t] # "first" /\ pc'[t] = "first" /\ now'[t] = firstCount
        BY <2>1, <3>4 DEF FirstN, FirstCalls, TypeOK
      <4>2. Pending("first")' = Pending("first") \cup {firstCount}
        BY <3>3, <4>1, EnteringFirst
      <4> QED BY <3>1, <3>2, <3>4, <4>2
    <3>5. CASE ~(firstCount < N)
      <4>1. pc[t] # "first" /\ pc'[t] # "first"
        BY <2>1, <3>5 DEF FirstN, FirstCalls, TypeOK
      <4>2. Pending("first")' = Pending("first")
        BY <3>3, <4>1, SamePending
      <4> QED BY <3>1, <3>2, <3>5, <4>2
    <3> QED BY <3>4, <3>5
  <2>2. CASE EmitFirst(t)
    <3>1. /\ \A u \in Threads : u # t => pc'[u] = pc[u] /\ now'[u] = now[u]
          /\ pc[t] = "first" /\ pc'[t] # "first"
          /\ firstLines' = firstLines \cup {now[t]} /\ firstCount' = firstCount
      BY <2>2 DEF EmitFirst, TypeOK
    <3>2. Pending("first")' \cup {now[t]} = Pending("first")
      BY <3>1, LessPending
    <3> QED BY <3>1, <3>2
  <2>3. CASE EveryN(t) \/ ReadClock(t) \/ LoadLast(t) \/ Exchange(t) \/ EmitEvery(t)
             \/ EmitSec(t)
    <3>1. /\ \A u \in Threads : u # t => pc'[u] = pc[u] /\ now'[u] = now[u]
          /\ pc[t] # "first" /\ pc'[t] # "first"
          /\ firstLines' = firstLines /\ firstCount' = firstCount
      BY <2>3 DEF EveryN, NthCall, ReadClock, LoadLast, WindowOver, Exchange,
                  Expected, EmitEvery, EmitSec, TypeOK
    <3>2. Pending("first")' = Pending("first")
      BY <3>1, SamePending
    <3> QED BY <3>1, <3>2
  <2> QED BY <1>3, <2>1, <2>2, <2>3 DEF Call
<1> QED BY <1>1, <1>2, <1>3 DEF Next

\* However many threads reach it, LOG_FIRST_N writes the first N calls and no other.
THEOREM FirstNCorrect == Spec => []FirstNCalls
<1>1. Init => FirstNCalls
  BY RateLimitAssumption DEF Init, FirstNCalls, Pending, RateLimitAssumption
<1> QED
  BY <1>1, TypeCorrect, FirstNStep, PTL DEF Spec

----------------------------------------------------------------------------
\* The static of the site is the last stamp, and a call at its exchange has compared
\* its reading of the clock with the value it expects there.
StampInv ==
    /\ StampsAreSpaced
    /\ last = IF stamps = <<>> THEN Never ELSE stamps[Len(stamps)]
    /\ \A t \in Threads : pc[t] = "exchange" => prev[t] = Never \/ now[t] - prev[t] >= Gap

LEMMA StampStep ==
    ASSUME TypeOK, StampInv, [Next]_vars
    PROVE  StampInv'
<1> USE RateLimitAssumption
    DEF TypeOK, StampInv, StampsAreSpaced, Goto, siteVars, callVars, lineVars,
        RateLimitAssumption
<1>1. CASE UNCHANGED vars
  BY <1>1 DEF vars
<1>2. CASE Tick
  BY <1>2 DEF Tick
<1>3. ASSUME NEW t \in Threads, Call(t) PROVE StampInv'
  <2>1. CASE Exchange(t) /\ last = prev[t]
    <3>1. /\ stamps' = Append(stamps, now[t]) /\ last' = now[t]
          /\ pc[t] = "exchange" /\ pc' = [pc EXCEPT ![t] = "sec"]
          /\ UNCHANGED <<now, prev>>
      BY <2>1 DEF Exchange, Expected
    <3>2. /\ Len(stamps') = Len(stamps) + 1
          /\ stamps'[Len(stamps')] = now[t]
          /\ \A i \in DOMAIN stamps : stamps'[i] = stamps[i]
          /\ DOMAIN stamps' = DOMAIN stamps \cup {Len(stamps')}
      BY <3>1
    <3>3. \A i \in DOMAIN stamps : now[t] - stamps[i] >= Gap
      <4> SUFFICES ASSUME NEW i \in DOMAIN stamps PROVE now[t] - stamps[i] >= Gap
        OBVIOUS
      <4>1. stamps # <<>> /\ last = stamps[Len(stamps)] /\ last \in Nat
            /\ stamps[i] \in Nat /\ Len(stamps) \in DOMAIN stamps /\ i <= Len(stamps)
        OBVIOUS
      <4>2. now[t] - last >= Gap
        <5>1. last = prev[t] /\ prev[t] # Never
          BY <2>1, <4>1 DEF Never
        <5>2. prev[t] = Never \/ now[t] - prev[t] >= Gap
          BY <3>1
        <5> QED BY <5>1, <5>2
      <4>3. i = Len(stamps) \/ last - stamps[i] >= Gap
        BY <4>1
      <4> QED BY <4>1, <4>2, <4>3
    <3>4. StampsAreSpaced'
      <4> SUFFICES ASSUME NEW i \in DOMAIN stamps', NEW j \in DOMAIN stamps', i < j
                   PROVE  stamps'[j] - stamps'[i] >= Gap
        OBVIOUS
      <4>1. DOMAIN stamps = 1 .. Len(stamps) /\ Len(stamps) \in Nat
        OBVIOUS
      <4>2. i \in DOMAIN stamps
        BY <3>2, <4>1
      <4>3. CASE j = Len(stamps')
        BY <3>2, <3>3, <4>2, <4>3
      <4>4. CASE j # Len(stamps')
        BY <3>2, <4>2, <4>4
      <4> QED BY <4>3, <4>4
    <3> QED BY <3>1, <3>2, <3>4
  <2>2. CASE Exchange(t) /\ last # prev[t]
    BY <2>2 DEF Exchange, Expected
  <2>3. CASE LoadLast(t)
    BY <2>3 DEF LoadLast, WindowOver
  <2>4. CASE EveryN(t) \/ FirstN(t) \/ ReadClock(t) \/ EmitEvery(t) \/ EmitFirst(t)
             \/ EmitSec(t)
    BY <2>4 DEF EveryN, NthCall, FirstN, FirstCalls, ReadClock, EmitEvery,
                EmitFirst, EmitSec
  <2> QED BY <1>3, <2>1, <2>2, <2>3, <2>4 DEF Call
<1> QED BY <1>1, <1>2, <1>3 DEF Next

\* However the threads race, the clock readings that LOG_EVERY_N_SEC lets through are
\* at least SEC apart.
THEOREM SpacingCorrect == Spec => []StampsAreSpaced
<1>1. Init => StampInv
  BY DEF Init, StampInv, StampsAreSpaced
<1>2. StampInv => StampsAreSpaced
  BY DEF StampInv
<1> QED
  BY <1>1, <1>2, TypeCorrect, StampStep, PTL DEF Spec

----------------------------------------------------------------------------
\* A thread at its exchange expects the sentinel only if it found it; while nothing has
\* been let through, whoever is past its load has found it; and a call that was made
\* has let one through or is under way.
FiringInv ==
    /\ stamps = <<>> <=> last = Never
    /\ secCalls > 0 =>
          stamps # <<>> \/ \E t \in Threads : pc[t] \in {"load", "exchange"}
    /\ last = Never => \A t \in Threads : pc[t] = "exchange" => prev[t] = Never

LEMMA FiringStep ==
    ASSUME TypeOK, FiringInv, [Next]_vars
    PROVE  FiringInv'
<1> USE RateLimitAssumption
    DEF TypeOK, FiringInv, Goto, siteVars, callVars, lineVars, RateLimitAssumption
<1>1. CASE UNCHANGED vars
  BY <1>1 DEF vars
<1>2. CASE Tick
  BY <1>2 DEF Tick
<1>3. ASSUME NEW t \in Threads, Call(t) PROVE FiringInv'
  <2>1. CASE Exchange(t) /\ last = prev[t]
    <3>1. stamps' = Append(stamps, now[t]) /\ last' = now[t] /\ now[t] \in Nat
      BY <2>1 DEF Exchange, Expected
    <3>2. stamps' # <<>> /\ last' # Never
      BY <3>1 DEF Never
    <3> QED BY <3>2
  <2>2. CASE Exchange(t) /\ last # prev[t]
    <3>1. last # Never /\ last' = last /\ stamps' = stamps
      BY <2>2 DEF Exchange, Expected
    <3> QED BY <3>1
  <2>3. CASE LoadLast(t)
    <3>1. /\ pc[t] = "load" /\ UNCHANGED <<last, stamps, secCalls>>
          /\ pc' = [pc EXCEPT ![t] = IF WindowOver(now[t]) THEN "exchange" ELSE "idle"]
          /\ prev' = [prev EXCEPT ![t] = last]
      BY <2>3 DEF LoadLast
    <3>2. CASE last = Never
      <4>1. pc'[t] = "exchange"
        BY <3>1, <3>2 DEF WindowOver
      <4>2. \A u \in Threads : pc'[u] = "exchange" => prev'[u] = Never
        BY <3>1, <3>2
      <4> QED BY <3>1, <4>1, <4>2
    <3>3. CASE last # Never
      BY <3>1, <3>3
    <3> QED BY <3>2, <3>3
  <2>4. CASE ReadClock(t)
    <3>1. /\ pc'[t] = "load" /\ UNCHANGED <<last, stamps, prev>>
          /\ \A u \in Threads : pc'[u] = "exchange" => pc[u] = "exchange"
      BY <2>4 DEF ReadClock
    <3> QED BY <3>1
  <2>5. CASE EveryN(t) \/ FirstN(t) \/ EmitEvery(t) \/ EmitFirst(t) \/ EmitSec(t)
    <3>1. /\ UNCHANGED <<last, stamps, prev, secCalls>>
          /\ pc[t] \notin {"load", "exchange"} /\ pc'[t] \notin {"load", "exchange"}
          /\ \A u \in Threads : u # t => pc'[u] = pc[u]
      BY <2>5 DEF EveryN, NthCall, FirstN, FirstCalls, EmitEvery, EmitFirst, EmitSec
    <3> QED BY <3>1
  <2> QED BY <1>3, <2>1, <2>2, <2>3, <2>4, <2>5 DEF Call
<1> QED BY <1>1, <1>2, <1>3 DEF Next

\* The first call of LOG_EVERY_N_SEC fires: once a call has been made and none is under
\* way, one has been let through, whatever the threads, SEC and the clock.
THEOREM FirstFiresCorrect == Spec => []FirstCallFires
<1>1. Init => FiringInv
  BY DEF Init, FiringInv
<1>2. FiringInv => FirstCallFires
  BY DEF FiringInv, FirstCallFires
<1> QED
  BY <1>1, <1>2, TypeCorrect, FiringStep, PTL DEF Spec

=============================================================================
