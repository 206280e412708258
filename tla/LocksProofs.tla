---------------------------- MODULE LocksProofs ----------------------------
(***************************************************************************)
(* Proofs about Locks: the ids of a line, the pairs of fields err_mu keeps *)
(* together, and the mutexes the error handler never runs under, for any   *)
(* threads, calls, handlers that call back, and forks.                     *)
(***************************************************************************)
EXTENDS Locks, TLAPS

\* The types of what the ids are computed from; what the calls do is irrelevant.
IdTypes ==
    /\ process \in Nat \ {0}
    /\ t_tid \in [Threads -> Nat]

\* A cached id is that of the process we are in, or not cached; the caches of threads
\* that did not follow a fork are never read again.
IdInv ==
    /\ IdTypes
    /\ g_pid \in {0, process}
    /\ \A t \in Threads \ gone : t_tid[t] \in {0, process}
    /\ IdsAreOwn

LEMMA IdInvInit == Init => IdInv
  BY DEF Init, IdInv, IdTypes, IdsAreOwn

LEMMA IdInvStep == IdInv /\ [Next]_vars => IdInv'
<1> SUFFICES ASSUME IdInv, [Next]_vars PROVE IdInv'
  OBVIOUS
<1> USE DEF IdInv, IdTypes, lockVars, idVars
<1>1. CASE UNCHANGED vars
  BY <1>1 DEF vars, IdsAreOwn
<1> SUFFICES ASSUME NEW t \in Threads, Call(t) \/ Step(t) PROVE IdInv'
  BY <1>1 DEF Next
<1>2. ASSUME UNCHANGED <<gone, process, idVars>> PROVE IdInv'
  BY <1>2 DEF IdsAreOwn
<1>3. CASE \/ Call(t) \/ Acquire(t) \/ Release(t) \/ Store(t) \/ Load(t) \/ Test(t)
           \/ CallHandler(t) \/ HandlerReturns(t)
  BY <1>2, <1>3 DEF Call, Acquire, Release, Store, Load, Test, CallHandler, HandlerReturns
<1>4. CASE Stamp(t)
  <2>1. t \notin gone /\ UNCHANGED <<gone, process>>
    BY <1>4 DEF Stamp, At
  <2>2. g_pid' = process
    BY <1>4 DEF Stamp
  <2>3. t_tid' = [t_tid EXCEPT ![t] = process]
    BY <1>4, <2>1 DEF Stamp
  <2>4. stamped' = stamped \cup {<<process, process, process>>}
    BY <1>4, <2>2, <2>3 DEF Stamp
  <2> QED
    BY <2>1, <2>2, <2>3, <2>4 DEF IdsAreOwn
<1>5. CASE Fork(t)
  <2>1. CASE UNCHANGED <<gone, process, g_pid, t_tid>>
    BY <1>2, <1>5, <2>1 DEF Fork
  <2>2. CASE /\ gone' = Threads \ {t}
             /\ process' = process + 1
             /\ g_pid' = process'
             /\ t_tid' = ChildTids(t)
    <3>1. Threads \ gone' = {t} /\ t_tid'[t] = 0
      BY <2>2 DEF ChildTids
    <3>2. stamped' = stamped
      BY <1>5 DEF Fork
    <3> QED
      BY <2>2, <3>1, <3>2 DEF ChildTids, IdsAreOwn
  <2> QED
    BY <1>5, <2>1, <2>2 DEF Fork
<1> QED
  BY <1>3, <1>4, <1>5 DEF Step

\* Every line carries the ids of the process and of the thread that log it, whichever
\* thread forks, in whatever call, and however many forks lie behind.
THEOREM IdsAreOwnCorrect == Spec => []IdsAreOwn
<1>1. IdInv => IdsAreOwn
  BY DEF IdInv
<1> QED
  BY <1>1, IdInvInit, IdInvStep, PTL DEF Spec

----------------------------------------------------------------------------
(* What is left of a script.                                               *)

Ops == ({"lock", "unlock"} \X Mutexes) \cup ({"set", "clear", "get"} \X Fields)
       \cup {Do(op) : op \in {"test", "call", "return", "stamp", "fork"}}

\* The fields come in pairs.
Firsts == {"handler", "code"}
Second == [handler |-> "user", code |-> "detail"]

\* After position i of script s, mutex m is released before it is locked: who has come
\* so far holds it.
Held(s, i, m) ==
    \E j \in i + 1 .. Len(s) : s[j] = Unlock(m) /\ \A k \in i + 1 .. j - 1 : s[k] # Lock(m)

\* At these points nothing is held.
Outside == {Do("test"), Do("call"), Do("return")}

\* Mutexes are locked when they are not held, and released when they are; fields are set
\* and read in pairs, with err_mu held; no handler is called with a mutex held.
Fine(s) ==
    \A i \in DOMAIN s :
        /\ \A m \in Mutexes :
              /\ s[i] = Lock(m) => Held(s, i, m)
              /\ s[i] \in {Unlock(m)} \cup Outside => ~Held(s, i, m)
        /\ \A op \in {"set", "clear", "get"} : \A f \in Firsts :
              /\ s[i] = <<op, f>> => i < Len(s) /\ s[i + 1] = <<op, Second[f]>>
              /\ s[i] = <<op, Second[f]>> => (i > 1 => s[i - 1] = <<op, f>>)
              /\ s[i] \in {<<op, f>>, <<op, Second[f]>>} => Held(s, i, "err")

\* The script of a call, or the rest of one in which nothing is held.
Good(s) ==
    /\ s \in Seq(Ops) /\ Fine(s)
    /\ \A m \in Mutexes : ~Held(s, 0, m)
    /\ Len(s) > 0 => s[1] \notin {"set", "clear", "get"} \X {"user", "detail"}

\* Nothing of mutex x and no handler: what may stand in a section of x.
Plain(x, s) == \A i \in DOMAIN s : s[i] \notin {Lock(x), Unlock(x)} \cup Outside

Ids == (Threads \X Nat) \cup {<<>>}

ScriptTypes ==
    /\ todo \in [Threads -> Seq(Ops)]
    /\ holder \in [Mutexes -> Threads \cup {Nobody}]
    /\ made \in [Threads -> Nat]
    /\ shared \in [Fields -> Ids]
    /\ mine \in [Threads -> [Fields -> Ids]]

\* A thread holds exactly the mutexes its script is going to release.
HoldInv ==
    \A t \in Threads :
        /\ Fine(todo[t])
        /\ \A m \in Mutexes : holder[m] = t <=> Held(todo[t], 0, m)

HeadIs(t, op) == Len(todo[t]) > 0 /\ todo[t][1] = op

\* Between the two halves of a pair the first one is done, and by the holder of err_mu.
PairInv ==
    \A f \in Firsts :
        /\ \/ shared[f] = shared[Second[f]]
           \/ \E t \in Threads : HeadIs(t, <<"set", Second[f]>>) \/ HeadIs(t, <<"clear", Second[f]>>)
        /\ \A t \in Threads :
              /\ HeadIs(t, <<"set", Second[f]>>) => shared[f] = Id(t)
              /\ HeadIs(t, <<"clear", Second[f]>>) => shared[f] = <<>>
              /\ HeadIs(t, <<"get", Second[f]>>) => mine[t][f] = shared[f]
              /\ mine[t][f] = mine[t][Second[f]] \/ HeadIs(t, <<"get", Second[f]>>)

----------------------------------------------------------------------------
(* Scripts are made of good parts.                                         *)

\* What is held before a step, by what the step is.
LEMMA HeldBefore ==
    ASSUME NEW s \in Seq(Ops), NEW i \in Nat, i < Len(s), NEW m \in Mutexes
    PROVE  Held(s, i, m) <=> (s[i + 1] = Unlock(m) \/ (s[i + 1] # Lock(m) /\ Held(s, i + 1, m)))
<1>1. ASSUME Held(s, i, m), s[i + 1] # Unlock(m)
      PROVE  s[i + 1] # Lock(m) /\ Held(s, i + 1, m)
  <2>1. PICK j \in i + 1 .. Len(s) : s[j] = Unlock(m) /\ \A k \in i + 1 .. j - 1 : s[k] # Lock(m)
    BY <1>1 DEF Held
  <2>2. j # i + 1
    BY <1>1, <2>1
  <2>3. i + 1 \in i + 1 .. j - 1 /\ j \in i + 1 + 1 .. Len(s)
        /\ \A k \in i + 1 + 1 .. j - 1 : k \in i + 1 .. j - 1
    BY <2>1, <2>2
  <2> QED
    BY <2>1, <2>3 DEF Held
<1>2. ASSUME s[i + 1] = Unlock(m) PROVE Held(s, i, m)
  <2>1. i + 1 \in i + 1 .. Len(s) /\ ~\E k : k \in i + 1 .. i + 1 - 1
    OBVIOUS
  <2> QED
    BY <1>2, <2>1 DEF Held
<1>3. ASSUME s[i + 1] # Lock(m), Held(s, i + 1, m) PROVE Held(s, i, m)
  <2>1. PICK j \in i + 1 + 1 .. Len(s) :
           s[j] = Unlock(m) /\ \A k \in i + 1 + 1 .. j - 1 : s[k] # Lock(m)
    BY <1>3 DEF Held
  <2>2. j \in i + 1 .. Len(s)
    BY <2>1
  <2>3. ASSUME NEW k \in i + 1 .. j - 1 PROVE s[k] # Lock(m)
    <3>1. k = i + 1 \/ k \in i + 1 + 1 .. j - 1
      BY <2>1
    <3> QED
      BY <1>3, <2>1, <3>1
  <2> QED
    BY <2>1, <2>2, <2>3 DEF Held
<1> QED
  BY <1>1, <1>2, <1>3

LEMMA HeldInTail ==
    ASSUME NEW s \in Seq(Ops), Len(s) > 0, NEW i \in 0 .. Len(s) - 1, NEW m
    PROVE  Held(Tail(s), i, m) <=> Held(s, i + 1, m)
<1> DEFINE n == Len(s)
           r == Tail(s)
<1>1. n \in Nat /\ Len(r) = n - 1 /\ \A k \in 1 .. n - 1 : r[k] = s[k + 1]
  OBVIOUS
<1> HIDE DEF r
<1>2. ASSUME Held(r, i, m) PROVE Held(s, i + 1, m)
  <2>1. PICK j \in i + 1 .. n - 1 : r[j] = Unlock(m) /\ \A k \in i + 1 .. j - 1 : r[k] # Lock(m)
    BY <1>1, <1>2 DEF Held
  <2>2. j + 1 \in i + 1 + 1 .. n /\ s[j + 1] = Unlock(m)
    BY <1>1, <2>1
  <2>3. ASSUME NEW k \in i + 1 + 1 .. j + 1 - 1 PROVE s[k] # Lock(m)
    <3>1. k - 1 \in i + 1 .. j - 1 /\ k - 1 \in 1 .. n - 1 /\ k - 1 + 1 = k
      BY <2>1
    <3> QED
      BY <1>1, <2>1, <3>1
  <2> QED
    BY <2>2, <2>3 DEF Held
<1>3. ASSUME Held(s, i + 1, m) PROVE Held(r, i, m)
  <2>1. PICK j \in i + 1 + 1 .. n : s[j] = Unlock(m) /\ \A k \in i + 1 + 1 .. j - 1 : s[k] # Lock(m)
    BY <1>3 DEF Held
  <2>2. j - 1 \in i + 1 .. n - 1 /\ r[j - 1] = Unlock(m)
    <3>1. j - 1 \in i + 1 .. n - 1 /\ j - 1 \in 1 .. n - 1 /\ j - 1 + 1 = j
      BY <1>1, <2>1
    <3> QED
      BY <1>1, <2>1, <3>1
  <2>3. ASSUME NEW k \in i + 1 .. j - 1 - 1 PROVE r[k] # Lock(m)
    <3>1. k + 1 \in i + 1 + 1 .. j - 1 /\ k \in 1 .. n - 1
      BY <2>1
    <3> QED
      BY <1>1, <2>1, <3>1
  <2> QED
    BY <1>1, <2>2, <2>3 DEF Held
<1> QED
  BY <1>2, <1>3 DEF r

\* What is left of a script after a step is fine.
LEMMA TailIsFine ==
    ASSUME NEW s \in Seq(Ops), Len(s) > 0, Fine(s)
    PROVE  Tail(s) \in Seq(Ops) /\ Fine(Tail(s))
<1> DEFINE n == Len(s)
           r == Tail(s)
<1>1. /\ n \in Nat /\ r \in Seq(Ops) /\ Len(r) = n - 1 /\ DOMAIN r = 1 .. n - 1
      /\ DOMAIN s = 1 .. n
      /\ \A k \in 1 .. n - 1 : r[k] = s[k + 1]
  OBVIOUS
<1>2. \A k \in 1 .. n - 1 : \A m : Held(r, k, m) <=> Held(s, k + 1, m)
  BY HeldInTail
<1> HIDE DEF r
<1>3. Fine(r)
  <2> SUFFICES ASSUME NEW i \in 1 .. n - 1
               PROVE  /\ \A m \in Mutexes :
                            /\ r[i] = Lock(m) => Held(r, i, m)
                            /\ r[i] \in {Unlock(m)} \cup Outside => ~Held(r, i, m)
                      /\ \A op \in {"set", "clear", "get"} : \A f \in Firsts :
                            /\ r[i] = <<op, f>> => i < Len(r) /\ r[i + 1] = <<op, Second[f]>>
                            /\ r[i] = <<op, Second[f]>> => (i > 1 => r[i - 1] = <<op, f>>)
                            /\ r[i] \in {<<op, f>>, <<op, Second[f]>>} => Held(r, i, "err")
    BY <1>1 DEF Fine
  <2>1. i + 1 \in DOMAIN s /\ r[i] = s[i + 1]
    BY <1>1
  <2>2. ASSUME NEW m \in Mutexes
        PROVE  /\ r[i] = Lock(m) => Held(r, i, m)
               /\ r[i] \in {Unlock(m)} \cup Outside => ~Held(r, i, m)
    BY <1>2, <2>1 DEF Fine
  <2>3. ASSUME NEW op \in {"set", "clear", "get"}, NEW f \in Firsts
        PROVE  /\ r[i] = <<op, f>> => i < Len(r) /\ r[i + 1] = <<op, Second[f]>>
               /\ r[i] = <<op, Second[f]>> => (i > 1 => r[i - 1] = <<op, f>>)
               /\ r[i] \in {<<op, f>>, <<op, Second[f]>>} => Held(r, i, "err")
    <3>1. /\ s[i + 1] = <<op, f>> => i + 1 < n /\ s[i + 1 + 1] = <<op, Second[f]>>
          /\ s[i + 1] = <<op, Second[f]>> => (i + 1 > 1 => s[i + 1 - 1] = <<op, f>>)
          /\ s[i + 1] \in {<<op, f>>, <<op, Second[f]>>} => Held(s, i + 1, "err")
      BY <2>1 DEF Fine
    <3>2. i + 1 < n => r[i + 1] = s[i + 1 + 1] /\ i < Len(r)
      BY <1>1
    <3>3. i > 1 => r[i - 1] = s[i + 1 - 1] /\ i + 1 > 1
      BY <1>1
    <3>4. Held(r, i, "err") <=> Held(s, i + 1, "err")
      BY <1>2
    <3> QED
      BY <2>1, <3>1, <3>2, <3>3, <3>4
  <2> QED
    BY <2>2, <2>3
<1> QED
  BY <1>1, <1>3 DEF r

\* One good script after the other is a good script.
LEMMA Join ==
    ASSUME NEW a, Good(a), NEW b, Good(b)
    PROVE  Good(a \o b)
<1> DEFINE p  == a \o b
           la == Len(a)
           lb == Len(b)
<1>1. a \in Seq(Ops) /\ b \in Seq(Ops) /\ Fine(a) /\ Fine(b)
  BY DEF Good
<1>2. /\ la \in Nat /\ lb \in Nat /\ p \in Seq(Ops) /\ Len(p) = la + lb
      /\ DOMAIN a = 1 .. la /\ DOMAIN b = 1 .. lb /\ DOMAIN p = 1 .. la + lb
      /\ \A i \in 1 .. la : p[i] = a[i]
      /\ \A i \in 1 .. lb : p[la + i] = b[i]
  BY <1>1
<1> HIDE DEF p, la, lb
<1>3. ASSUME NEW i \in 0 .. la, NEW m \in Mutexes
      PROVE  Held(p, i, m) <=> Held(a, i, m)
  <2>1. ASSUME Held(a, i, m) PROVE Held(p, i, m)
    <3>1. PICK j \in i + 1 .. la : a[j] = Unlock(m) /\ \A k \in i + 1 .. j - 1 : a[k] # Lock(m)
      BY <2>1 DEF Held, la
    <3>2. j \in i + 1 .. la + lb /\ p[j] = Unlock(m)
      BY <1>2, <3>1
    <3>3. \A k \in i + 1 .. j - 1 : p[k] # Lock(m)
      BY <1>2, <3>1
    <3> QED
      BY <1>2, <3>2, <3>3 DEF Held
  <2>2. ASSUME Held(p, i, m), ~Held(a, i, m) PROVE FALSE
    <3>1. PICK j \in i + 1 .. la + lb :
             p[j] = Unlock(m) /\ \A k \in i + 1 .. j - 1 : p[k] # Lock(m)
      BY <1>2, <2>2 DEF Held
    <3>2. CASE j <= la
      <4>1. j \in i + 1 .. la /\ a[j] = Unlock(m) /\ \A k \in i + 1 .. j - 1 : a[k] # Lock(m)
        BY <1>2, <3>1, <3>2
      <4> QED
        BY <2>2, <4>1 DEF Held, la
    <3>3. CASE j > la
      <4>1. j - la \in 1 .. lb /\ la + (j - la) = j
        BY <1>2, <3>1, <3>3
      <4>2. b[j - la] = Unlock(m)
        BY <1>2, <3>1, <4>1
      <4>3. ASSUME NEW k \in 1 .. j - la - 1 PROVE b[k] # Lock(m)
        <5>1. k \in 1 .. lb /\ la + k \in i + 1 .. j - 1
          BY <1>2, <3>1, <4>1
        <5> QED
          BY <1>2, <3>1, <5>1
      <4>4. Held(b, 0, m)
        BY <4>1, <4>2, <4>3 DEF Held, lb
      <4> QED
        BY <4>4 DEF Good
    <3> QED
      BY <1>2, <3>1, <3>2, <3>3
  <2> QED
    BY <2>1, <2>2
<1>4. ASSUME NEW i \in 0 .. lb, NEW m \in Mutexes
      PROVE  Held(p, la + i, m) <=> Held(b, i, m)
  <2>1. ASSUME Held(b, i, m) PROVE Held(p, la + i, m)
    <3>1. PICK j \in i + 1 .. lb : b[j] = Unlock(m) /\ \A k \in i + 1 .. j - 1 : b[k] # Lock(m)
      BY <2>1 DEF Held, lb
    <3>2. la + j \in la + i + 1 .. la + lb /\ p[la + j] = Unlock(m)
      BY <1>2, <3>1
    <3>3. ASSUME NEW k \in la + i + 1 .. la + j - 1 PROVE p[k] # Lock(m)
      <4>1. k - la \in i + 1 .. j - 1 /\ k - la \in 1 .. lb /\ la + (k - la) = k
        BY <1>2, <3>1
      <4> QED
        BY <1>2, <3>1, <4>1
    <3> QED
      BY <1>2, <3>2, <3>3 DEF Held
  <2>2. ASSUME Held(p, la + i, m) PROVE Held(b, i, m)
    <3>1. PICK j \in la + i + 1 .. la + lb :
             p[j] = Unlock(m) /\ \A k \in la + i + 1 .. j - 1 : p[k] # Lock(m)
      BY <1>2, <2>2 DEF Held
    <3>2. j - la \in i + 1 .. lb /\ j - la \in 1 .. lb /\ la + (j - la) = j
      BY <1>2, <3>1
    <3>3. b[j - la] = Unlock(m)
      BY <1>2, <3>1, <3>2
    <3>4. ASSUME NEW k \in i + 1 .. j - la - 1 PROVE b[k] # Lock(m)
      <4>1. k \in 1 .. lb /\ la + k \in la + i + 1 .. j - 1
        BY <1>2, <3>1, <3>2
      <4> QED
        BY <1>2, <3>1, <4>1
    <3> QED
      BY <3>2, <3>3, <3>4 DEF Held, lb
  <2> QED
    BY <2>1, <2>2
<1>5. Fine(p)
  <2> SUFFICES ASSUME NEW i \in 1 .. la + lb
               PROVE  /\ \A m \in Mutexes :
                            /\ p[i] = Lock(m) => Held(p, i, m)
                            /\ p[i] \in {Unlock(m)} \cup Outside => ~Held(p, i, m)
                      /\ \A op \in {"set", "clear", "get"} : \A f \in Firsts :
                            /\ p[i] = <<op, f>> => i < Len(p) /\ p[i + 1] = <<op, Second[f]>>
                            /\ p[i] = <<op, Second[f]>> => (i > 1 => p[i - 1] = <<op, f>>)
                            /\ p[i] \in {<<op, f>>, <<op, Second[f]>>} => Held(p, i, "err")
    BY <1>2 DEF Fine
  <2>1. CASE i \in 1 .. la
    <3>1. i \in DOMAIN a /\ p[i] = a[i] /\ \A m \in Mutexes : Held(p, i, m) <=> Held(a, i, m)
      BY <1>2, <1>3, <2>1
    <3>2. ASSUME NEW m \in Mutexes
          PROVE  /\ p[i] = Lock(m) => Held(p, i, m)
                 /\ p[i] \in {Unlock(m)} \cup Outside => ~Held(p, i, m)
      BY <1>1, <3>1 DEF Fine
    <3>3. ASSUME NEW op \in {"set", "clear", "get"}, NEW f \in Firsts
          PROVE  /\ p[i] = <<op, f>> => i < Len(p) /\ p[i + 1] = <<op, Second[f]>>
                 /\ p[i] = <<op, Second[f]>> => (i > 1 => p[i - 1] = <<op, f>>)
                 /\ p[i] \in {<<op, f>>, <<op, Second[f]>>} => Held(p, i, "err")
      <4>1. /\ a[i] = <<op, f>> => i < la /\ a[i + 1] = <<op, Second[f]>>
            /\ a[i] = <<op, Second[f]>> => (i > 1 => a[i - 1] = <<op, f>>)
            /\ a[i] \in {<<op, f>>, <<op, Second[f]>>} => Held(a, i, "err")
        BY <1>1, <3>1 DEF Fine, la
      <4>2. /\ i < la => p[i + 1] = a[i + 1] /\ i < Len(p)
            /\ i > 1 => p[i - 1] = a[i - 1]
        BY <1>2, <2>1
      <4>3. Held(p, i, "err") <=> Held(a, i, "err")
        BY <3>1 DEF Mutexes
      <4> QED
        BY <3>1, <4>1, <4>2, <4>3
    <3> QED
      BY <3>2, <3>3
  <2>2. CASE i \notin 1 .. la
    <3>1. PICK h \in 1 .. lb : i = la + h
      <4>1. i - la \in 1 .. lb /\ i = la + (i - la)
        BY <1>2, <2>2
      <4> QED
        BY <4>1
    <3>2. h \in DOMAIN b /\ p[i] = b[h] /\ \A m \in Mutexes : Held(p, i, m) <=> Held(b, h, m)
      BY <1>2, <1>4, <3>1
    <3>3. ASSUME NEW m \in Mutexes
          PROVE  /\ p[i] = Lock(m) => Held(p, i, m)
                 /\ p[i] \in {Unlock(m)} \cup Outside => ~Held(p, i, m)
      BY <1>1, <3>2 DEF Fine
    <3>4. ASSUME NEW op \in {"set", "clear", "get"}, NEW f \in Firsts
          PROVE  /\ p[i] = <<op, f>> => i < Len(p) /\ p[i + 1] = <<op, Second[f]>>
                 /\ p[i] = <<op, Second[f]>> => (i > 1 => p[i - 1] = <<op, f>>)
                 /\ p[i] \in {<<op, f>>, <<op, Second[f]>>} => Held(p, i, "err")
      <4>1. /\ b[h] = <<op, f>> => h < lb /\ b[h + 1] = <<op, Second[f]>>
            /\ b[h] = <<op, Second[f]>> => (h > 1 => b[h - 1] = <<op, f>>)
            /\ b[h] \in {<<op, f>>, <<op, Second[f]>>} => Held(b, h, "err")
        BY <1>1, <3>2 DEF Fine, lb
      <4>2. h < lb => p[i + 1] = b[h + 1] /\ i < Len(p)
        <5>1. h < lb => h + 1 \in 1 .. lb /\ la + (h + 1) = i + 1 /\ i < la + lb
          BY <1>2, <3>1
        <5> QED
          BY <1>2, <5>1
      <4>3. h > 1 => p[i - 1] = b[h - 1]
        <5>1. h > 1 => h - 1 \in 1 .. lb /\ la + (h - 1) = i - 1
          BY <1>2, <3>1
        <5> QED
          BY <1>2, <5>1
      <4>4. h = 1 => b[h] # <<op, Second[f]>>
        <5>1. <<op, Second[f]>> \in {"set", "clear", "get"} \X {"user", "detail"}
          BY DEF Firsts, Second
        <5>2. Len(b) > 0 /\ b[1] \notin {"set", "clear", "get"} \X {"user", "detail"}
          <6>1. lb > 0
            BY <1>2
          <6> QED
            BY <6>1 DEF Good, lb
        <5> QED
          BY <5>1, <5>2
      <4>5. Held(p, i, "err") <=> Held(b, h, "err")
        BY <3>2 DEF Mutexes
      <4>6. h = 1 \/ h > 1
        OBVIOUS
      <4> QED
        BY <3>2, <4>1, <4>2, <4>3, <4>4, <4>5, <4>6
    <3> QED
      BY <3>3, <3>4
  <2> QED
    BY <2>1, <2>2
<1>6. \A m \in Mutexes : ~Held(p, 0, m)
  BY <1>2, <1>3 DEF Good
<1>7. Len(p) > 0 => p[1] \notin {"set", "clear", "get"} \X {"user", "detail"}
  <2>1. CASE la > 0
    <3>1. p[1] = a[1]
      BY <1>2, <2>1
    <3> QED
      BY <2>1, <3>1 DEF Good, la
  <2>2. CASE la = 0
    <3>1. Len(p) > 0 => lb > 0 /\ p[1] = b[1]
      <4>1. Len(p) > 0 => 1 \in 1 .. lb /\ la + 1 = 1
        BY <1>2, <2>2
      <4> QED
        BY <1>2, <4>1
    <3> QED
      BY <3>1 DEF Good, lb
  <2> QED
    BY <1>2, <2>1, <2>2
<1> QED
  BY <1>2, <1>5, <1>6, <1>7 DEF Good, p

\* A good script in which x does not occur, in a section of x.
LEMMA Enclose ==
    ASSUME NEW x \in Mutexes, NEW b, Good(b), Plain(x, b)
    PROVE  Good(Section(x, b))
<1> DEFINE p == Section(x, b)
           n == Len(b)
<1>1. b \in Seq(Ops) /\ Fine(b)
  BY DEF Good
<1>2. /\ n \in Nat /\ p \in Seq(Ops) /\ Len(p) = n + 2
      /\ DOMAIN b = 1 .. n /\ DOMAIN p = 1 .. n + 2
      /\ p[1] = Lock(x) /\ p[n + 2] = Unlock(x)
      /\ \A i \in 1 .. n : p[i + 1] = b[i]
  <2>1. Lock(x) \in Ops /\ Unlock(x) \in Ops
    BY DEF Lock, Unlock, Ops
  <2>2. <<Lock(x)>> \in Seq(Ops) /\ <<Unlock(x)>> \in Seq(Ops)
    BY <2>1
  <2> DEFINE q == <<Lock(x)>> \o b
  <2>3. /\ n \in Nat /\ q \in Seq(Ops) /\ Len(q) = n + 1 /\ q[1] = Lock(x)
        /\ \A i \in 1 .. n : q[i + 1] = b[i]
    BY <1>1, <2>2
  <2>4. p = q \o <<Unlock(x)>>
    BY DEF Section
  <2> HIDE DEF q, p
  <2>5. p \in Seq(Ops) /\ Len(p) = n + 2 /\ p[n + 2] = Unlock(x) /\ \A i \in 1 .. n + 1 : p[i] = q[i]
    BY <2>2, <2>3, <2>4
  <2>6. \A i \in 1 .. n : i + 1 \in 1 .. n + 1
    BY <2>3
  <2> QED
    BY <1>1, <2>3, <2>5, <2>6
<1> HIDE DEF p, n
<1>3. \A i \in 2 .. n + 1 : i - 1 \in 1 .. n /\ p[i] = b[i - 1]
  <2> SUFFICES ASSUME NEW i \in 2 .. n + 1 PROVE i - 1 \in 1 .. n /\ p[i] = b[i - 1]
    OBVIOUS
  <2>1. i - 1 \in 1 .. n /\ (i - 1) + 1 = i
    BY <1>2
  <2> QED
    BY <1>2, <2>1
<1>4. \A i \in 2 .. n + 1 : p[i] \notin {Lock(x), Unlock(x)} \cup Outside
  BY <1>2, <1>3 DEF Plain
<1>5. ASSUME NEW i \in 1 .. n + 1 PROVE Held(p, i, x)
  <2>1. n + 2 \in i + 1 .. Len(p) /\ \A k \in i + 1 .. n + 2 - 1 : k \in 2 .. n + 1
    BY <1>2
  <2> QED
    BY <1>2, <1>4, <2>1 DEF Held
<1>6. ~Held(p, 0, x) /\ ~Held(p, n + 2, x)
  <2>1. ASSUME NEW j \in 0 + 1 .. Len(p), p[j] = Unlock(x), \A k \in 0 + 1 .. j - 1 : p[k] # Lock(x)
        PROVE  FALSE
    <3>1. p[1] # Unlock(x)
      BY <1>2 DEF Lock, Unlock
    <3>2. 1 \in 0 + 1 .. j - 1
      BY <1>2, <2>1, <3>1
    <3> QED
      BY <1>2, <2>1, <3>2
  <2>2. ~\E j : j \in n + 2 + 1 .. Len(p)
    BY <1>2
  <2> QED
    BY <2>1, <2>2 DEF Held
<1>7. ASSUME NEW m \in Mutexes \ {x} PROVE ~Held(p, 0, m) /\ ~Held(p, n + 2, m)
  <2>1. ASSUME NEW j \in 0 + 1 .. Len(p), p[j] = Unlock(m), \A k \in 0 + 1 .. j - 1 : p[k] # Lock(m)
        PROVE  FALSE
    <3>1. p[1] # Unlock(m) /\ p[n + 2] # Unlock(m)
      BY <1>2 DEF Lock, Unlock
    <3>2. j \in 2 .. n + 1
      BY <1>2, <2>1, <3>1
    <3>3. j - 1 \in 0 + 1 .. n /\ b[j - 1] = Unlock(m)
      BY <1>2, <1>3, <2>1, <3>2
    <3>4. ASSUME NEW k \in 0 + 1 .. j - 1 - 1 PROVE b[k] # Lock(m)
      <4>1. k \in 1 .. n /\ k + 1 \in 0 + 1 .. j - 1
        BY <1>2, <3>2
      <4> QED
        BY <1>2, <2>1, <4>1
    <3>5. Held(b, 0, m)
      BY <3>3, <3>4 DEF Held, n
    <3> QED
      BY <3>5 DEF Good
  <2>2. ~\E j : j \in n + 2 + 1 .. Len(p)
    BY <1>2
  <2> QED
    BY <2>1, <2>2 DEF Held
<1>8. ASSUME NEW i \in 1 .. n, NEW m \in Mutexes \ {x} PROVE Held(p, i + 1, m) <=> Held(b, i, m)
  <2>1. ASSUME Held(b, i, m) PROVE Held(p, i + 1, m)
    <3>1. PICK j \in i + 1 .. n : b[j] = Unlock(m) /\ \A k \in i + 1 .. j - 1 : b[k] # Lock(m)
      BY <2>1 DEF Held, n
    <3>2. j + 1 \in i + 1 + 1 .. Len(p) /\ p[j + 1] = Unlock(m)
      BY <1>2, <3>1
    <3>3. ASSUME NEW k \in i + 1 + 1 .. j + 1 - 1 PROVE p[k] # Lock(m)
      <4>1. k \in 2 .. n + 1 /\ k - 1 \in i + 1 .. j - 1
        BY <1>2, <3>1
      <4> QED
        BY <1>3, <3>1, <4>1
    <3> QED
      BY <3>2, <3>3 DEF Held
  <2>2. ASSUME Held(p, i + 1, m) PROVE Held(b, i, m)
    <3>1. PICK j \in i + 1 + 1 .. n + 2 :
             p[j] = Unlock(m) /\ \A k \in i + 1 + 1 .. j - 1 : p[k] # Lock(m)
      BY <1>2, <2>2 DEF Held
    <3>2. p[n + 2] # Unlock(m)
      BY <1>2 DEF Unlock
    <3>3. j \in 2 .. n + 1 /\ j - 1 \in i + 1 .. n
      BY <1>2, <3>1, <3>2
    <3>4. b[j - 1] = Unlock(m)
      BY <1>3, <3>1, <3>3
    <3>5. ASSUME NEW k \in i + 1 .. j - 1 - 1 PROVE b[k] # Lock(m)
      <4>1. k \in 1 .. n /\ k + 1 \in i + 1 + 1 .. j - 1
        BY <1>2, <3>3
      <4> QED
        BY <1>2, <3>1, <4>1
    <3> QED
      BY <3>3, <3>4, <3>5 DEF Held, n
  <2> QED
    BY <2>1, <2>2
<1>9. Fine(p)
  <2> SUFFICES ASSUME NEW i \in 1 .. n + 2
               PROVE  /\ \A m \in Mutexes :
                            /\ p[i] = Lock(m) => Held(p, i, m)
                            /\ p[i] \in {Unlock(m)} \cup Outside => ~Held(p, i, m)
                      /\ \A op \in {"set", "clear", "get"} : \A f \in Firsts :
                            /\ p[i] = <<op, f>> => i < Len(p) /\ p[i + 1] = <<op, Second[f]>>
                            /\ p[i] = <<op, Second[f]>> => (i > 1 => p[i - 1] = <<op, f>>)
                            /\ p[i] \in {<<op, f>>, <<op, Second[f]>>} => Held(p, i, "err")
    BY <1>2 DEF Fine
  <2>1. CASE i = 1
    <3>1. p[i] = Lock(x) /\ Held(p, i, x)
      BY <1>2, <1>5, <2>1
    <3> QED
      BY <3>1 DEF Lock, Unlock, Outside, Do
  <2>2. CASE i = n + 2
    <3>1. p[i] = Unlock(x) /\ \A m \in Mutexes : ~Held(p, i, m)
      BY <1>2, <1>6, <1>7, <2>2
    <3> QED
      BY <3>1 DEF Lock, Unlock
  <2>3. CASE i \in 2 .. n + 1
    <3>1. PICK h \in 1 .. n : i = h + 1
      <4>1. i - 1 \in 1 .. n /\ i = i - 1 + 1
        BY <1>2, <2>3
      <4> QED
        BY <4>1
    <3>2. h \in DOMAIN b /\ p[i] = b[h]
      BY <1>2, <3>1
    <3>3. \A m \in Mutexes \ {x} : Held(p, i, m) <=> Held(b, h, m)
      BY <1>8, <3>1
    <3>4. Held(p, i, x) /\ p[i] \notin {Lock(x), Unlock(x)} \cup Outside
      BY <1>2, <1>4, <1>5, <2>3
    <3>5. ASSUME NEW m \in Mutexes
          PROVE  /\ p[i] = Lock(m) => Held(p, i, m)
                 /\ p[i] \in {Unlock(m)} \cup Outside => ~Held(p, i, m)
      <4>1. CASE m = x
        BY <3>4, <4>1
      <4>2. CASE m # x
        BY <1>1, <3>2, <3>3, <4>2 DEF Fine
      <4> QED
        BY <4>1, <4>2
    <3>6. ASSUME NEW op \in {"set", "clear", "get"}, NEW f \in Firsts
          PROVE  /\ p[i] = <<op, f>> => i < Len(p) /\ p[i + 1] = <<op, Second[f]>>
                 /\ p[i] = <<op, Second[f]>> => (i > 1 => p[i - 1] = <<op, f>>)
                 /\ p[i] \in {<<op, f>>, <<op, Second[f]>>} => Held(p, i, "err")
      <4>1. /\ b[h] = <<op, f>> => h < n /\ b[h + 1] = <<op, Second[f]>>
            /\ b[h] = <<op, Second[f]>> => (h > 1 => b[h - 1] = <<op, f>>)
            /\ b[h] \in {<<op, f>>, <<op, Second[f]>>} => Held(b, h, "err")
        BY <1>1, <3>2 DEF Fine, n
      <4>2. h < n => p[i + 1] = b[h + 1] /\ i < Len(p)
        <5>1. h < n => h + 1 \in 1 .. n /\ h + 1 + 1 = i + 1
          BY <1>2, <3>1
        <5> QED
          BY <1>2, <3>1, <5>1
      <4>3. h > 1 => p[i - 1] = b[h - 1]
        <5>1. h > 1 => h - 1 \in 1 .. n /\ h - 1 + 1 = i - 1
          BY <1>2, <3>1
        <5> QED
          BY <1>2, <5>1
      <4>4. h = 1 => b[h] # <<op, Second[f]>>
        <5>1. <<op, Second[f]>> \in {"set", "clear", "get"} \X {"user", "detail"}
          BY DEF Firsts, Second
        <5>2. Len(b) > 0 /\ b[1] \notin {"set", "clear", "get"} \X {"user", "detail"}
          <6>1. n > 0
            BY <1>2
          <6> QED
            BY <6>1 DEF Good, n
        <5> QED
          BY <5>1, <5>2
      <4>5. Held(b, h, "err") => Held(p, i, "err")
        BY <3>3, <3>4 DEF Mutexes
      <4>6. h = 1 \/ h > 1
        OBVIOUS
      <4> QED
        BY <3>2, <4>1, <4>2, <4>3, <4>4, <4>5, <4>6
    <3> QED
      BY <3>5, <3>6
  <2>4. i = 1 \/ i = n + 2 \/ i \in 2 .. n + 1
    BY <1>2
  <2> QED
    BY <2>1, <2>2, <2>3, <2>4
<1>10. p[1] \notin {"set", "clear", "get"} \X {"user", "detail"}
  BY <1>2 DEF Lock
<1>11. \A m \in Mutexes : ~Held(p, 0, m)
  BY <1>6, <1>7
<1> QED
  BY <1>2, <1>9, <1>10, <1>11 DEF Good, p

LEMMA Concatenation ==
    ASSUME NEW a \in Seq(Ops), NEW b \in Seq(Ops)
    PROVE  /\ a \o b \in Seq(Ops) /\ Len(a \o b) = Len(a) + Len(b)
           /\ DOMAIN (a \o b) = 1 .. Len(a) + Len(b)
           /\ \A i \in 1 .. Len(a) : (a \o b)[i] = a[i]
           /\ \A i \in 1 .. Len(b) : (a \o b)[Len(a) + i] = b[i]
  OBVIOUS

\* A pair of fields, set or read under err_mu.
PairSection(op, f) == Section("err", <<<<op, f>>, <<op, Second[f]>>>>)

LEMMA PairIsGood ==
    ASSUME NEW op \in {"set", "clear", "get"}, NEW f \in Firsts
    PROVE  Good(PairSection(op, f)) /\ Plain("mu", PairSection(op, f))
<1> DEFINE p == PairSection(op, f)
           g == Second[f]
<1>1. \A o, e, o2, e2 : <<o, e>> = <<o2, e2>> => o = o2 /\ e = e2
  OBVIOUS
<1>2. g \in {"user", "detail"} /\ f \notin {"user", "detail"}
  BY DEF Firsts, Second
<1>3. /\ Lock("err") \in Ops /\ Unlock("err") \in Ops /\ <<op, f>> \in Ops /\ <<op, g>> \in Ops
  BY <1>2 DEF Lock, Unlock, Ops, Mutexes, Fields, Firsts
<1>4. /\ p \in Seq(Ops) /\ Len(p) = 4 /\ DOMAIN p = 1 .. 4
      /\ p[1] = Lock("err") /\ p[2] = <<op, f>> /\ p[3] = <<op, g>> /\ p[4] = Unlock("err")
  <2> DEFINE a == <<Lock("err")>>
             b == <<<<op, f>>, <<op, g>>>>
             c == <<Unlock("err")>>
             q == a \o b
  <2>1. /\ a \in Seq(Ops) /\ Len(a) = 1 /\ a[1] = Lock("err")
        /\ b \in Seq(Ops) /\ Len(b) = 2 /\ b[1] = <<op, f>> /\ b[2] = <<op, g>>
        /\ c \in Seq(Ops) /\ Len(c) = 1 /\ c[1] = Unlock("err")
    BY <1>3
  <2>2. p = q \o c
    BY DEF PairSection, Section
  <2> HIDE DEF a, b, c
  <2>3. q \in Seq(Ops) /\ Len(q) = 3 /\ q[1] = a[1] /\ q[2] = b[1] /\ q[3] = b[2]
    <3>1. /\ q \in Seq(Ops) /\ Len(q) = Len(a) + Len(b)
          /\ \A i \in 1 .. Len(a) : q[i] = a[i]
          /\ \A i \in 1 .. Len(b) : q[Len(a) + i] = b[i]
      BY <2>1, Concatenation
    <3>2. q[1] = a[1] /\ q[1 + 1] = b[1] /\ q[1 + 2] = b[2]
      BY <2>1, <3>1
    <3>3. 1 + 1 = 2 /\ 1 + 2 = 3
      OBVIOUS
    <3> QED
      BY <2>1, <3>1, <3>2, <3>3
  <2> HIDE DEF q, p
  <2>4. /\ p \in Seq(Ops) /\ Len(p) = Len(q) + Len(c) /\ DOMAIN p = 1 .. Len(q) + Len(c)
        /\ \A i \in 1 .. Len(q) : p[i] = q[i]
        /\ \A i \in 1 .. Len(c) : p[Len(q) + i] = c[i]
    BY <2>1, <2>2, <2>3, Concatenation
  <2>5. Len(p) = 4 /\ p[1] = q[1] /\ p[2] = q[2] /\ p[3] = q[3]
    BY <2>1, <2>3, <2>4
  <2>6. p[3 + 1] = c[1] /\ 3 + 1 = 4
    BY <2>1, <2>3, <2>4
  <2>7. DOMAIN p = 1 .. 4
    BY <2>1, <2>3, <2>4
  <2> QED
    BY <2>1, <2>3, <2>4, <2>5, <2>6, <2>7
<1> HIDE DEF p, g
<1>5. \A i \in 1 .. 4 : i = 1 \/ i = 2 \/ i = 3 \/ i = 4
  OBVIOUS
<1>6. \A m \in Mutexes : ~Held(p, 4, m)
  <2>1. ~\E j : j \in 4 + 1 .. 4
    OBVIOUS
  <2> QED
    BY <1>4, <2>1 DEF Held
<1>7. \A m \in Mutexes : Held(p, 3, m) <=> m = "err"
  <2> SUFFICES ASSUME NEW m \in Mutexes PROVE Held(p, 3, m) <=> m = "err"
    OBVIOUS
  <2>1. Held(p, 3, m) <=> (p[4] = Unlock(m) \/ (p[4] # Lock(m) /\ Held(p, 4, m)))
    <3>1. \A i \in Nat : i < Len(p) =>
             (Held(p, i, m) <=> (p[i + 1] = Unlock(m) \/ (p[i + 1] # Lock(m) /\ Held(p, i + 1, m))))
      BY <1>4, HeldBefore
    <3>2. 3 + 1 = 4 /\ 3 < Len(p)
      BY <1>4
    <3> QED
      BY <3>1, <3>2
  <2>2. Unlock("err") = Unlock(m) <=> m = "err"
    BY <1>1 DEF Unlock
  <2> QED
    BY <1>4, <1>6, <2>1, <2>2
<1>8. \A m \in Mutexes : Held(p, 2, m) <=> m = "err"
  BY <1>4, <1>7, HeldBefore DEF Lock, Unlock
<1>9. \A m \in Mutexes : Held(p, 1, m) <=> m = "err"
  BY <1>4, <1>8, HeldBefore DEF Lock, Unlock
<1>10. \A m \in Mutexes : ~Held(p, 0, m)
  BY <1>4, <1>9, HeldBefore DEF Lock, Unlock
<1>11. Fine(p)
  <2> SUFFICES ASSUME NEW i \in 1 .. 4
               PROVE  /\ \A m \in Mutexes :
                            /\ p[i] = Lock(m) => Held(p, i, m)
                            /\ p[i] \in {Unlock(m)} \cup Outside => ~Held(p, i, m)
                      /\ \A o \in {"set", "clear", "get"} : \A e \in Firsts :
                            /\ p[i] = <<o, e>> => i < Len(p) /\ p[i + 1] = <<o, Second[e]>>
                            /\ p[i] = <<o, Second[e]>> => (i > 1 => p[i - 1] = <<o, e>>)
                            /\ p[i] \in {<<o, e>>, <<o, Second[e]>>} => Held(p, i, "err")
    BY <1>4 DEF Fine
  <2>1. CASE i = 1
    <3>1. p[i] = <<"lock", "err">> /\ Held(p, i, "err")
      BY <1>4, <1>9, <2>1 DEF Lock, Mutexes
    <3>2. \A m : p[i] # Unlock(m) /\ p[i] \notin Outside
      BY <1>1, <3>1 DEF Unlock, Outside, Do
    <3>3. \A m : p[i] = Lock(m) => m = "err"
      BY <1>1, <3>1 DEF Lock
    <3>4. \A o \in {"set", "clear", "get"} : \A e : p[i] # <<o, e>>
      BY <1>1, <3>1
    <3> QED
      BY <3>1, <3>2, <3>3, <3>4
  <2>2. CASE i = 2
    <3>1. p[i] = <<op, f>> /\ op \notin {"lock", "unlock", "test", "call", "return"}
      BY <1>4, <2>2
    <3>2. \A m \in Mutexes : p[i] # Lock(m) /\ p[i] \notin {Unlock(m)} \cup Outside
      BY <1>1, <3>1, Zenon DEF Lock, Unlock, Outside, Do
    <3>3. \A o, e : p[i] = <<o, e>> => o = op /\ e = f
      BY <3>1
    <3>4. \A e \in Firsts : Second[e] # f
      BY <1>2 DEF Firsts, Second
    <3>5. Held(p, i, "err") /\ i < Len(p) /\ p[i + 1] = <<op, Second[f]>>
      BY <1>4, <1>8, <2>2 DEF Mutexes, g
    <3> QED
      BY <3>2, <3>3, <3>4, <3>5
  <2>3. CASE i = 3
    <3>1. p[i] = <<op, g>> /\ op \notin {"lock", "unlock", "test", "call", "return"}
      BY <1>4, <2>3
    <3>2. \A m \in Mutexes : p[i] # Lock(m) /\ p[i] \notin {Unlock(m)} \cup Outside
      BY <1>1, <3>1, Zenon DEF Lock, Unlock, Outside, Do
    <3>3. \A o, e : p[i] = <<o, e>> => o = op /\ e = g
      BY <3>1
    <3>4. \A e \in Firsts : e # g /\ (Second[e] = g => e = f)
      BY <1>2 DEF Firsts, Second, g
    <3>5. Held(p, i, "err") /\ p[i - 1] = <<op, f>>
      BY <1>4, <1>7, <2>3 DEF Mutexes
    <3> QED
      BY <3>2, <3>3, <3>4, <3>5
  <2>4. CASE i = 4
    BY <1>4, <1>6, <2>4 DEF Lock, Unlock
  <2> QED
    BY <1>5, <2>1, <2>2, <2>3, <2>4
<1>12. p[1] \notin {"set", "clear", "get"} \X {"user", "detail"}
  BY <1>4 DEF Lock
<1>13. \A i \in 1 .. 4 : p[i] \notin {Lock("mu"), Unlock("mu")} \cup Outside
  <2>1. p[1] \notin {Lock("mu"), Unlock("mu")} \cup Outside
    BY <1>4 DEF Lock, Unlock, Outside, Do
  <2>2. p[4] \notin {Lock("mu"), Unlock("mu")} \cup Outside
    BY <1>4 DEF Lock, Unlock, Outside, Do
  <2>3. \A e : <<op, e>> \notin {Lock("mu"), Unlock("mu")} \cup Outside
    <3>1. op \notin {"lock", "unlock", "test", "call", "return"}
      OBVIOUS
    <3> QED
      BY <1>1, <3>1, Zenon DEF Lock, Unlock, Outside, Do
  <2> QED
    BY <1>4, <1>5, <2>1, <2>2, <2>3
<1> QED
  BY <1>4, <1>10, <1>11, <1>12, <1>13 DEF Good, Plain, p

\* What may stand in a section of mu_.
Inner(s) == Good(s) /\ Plain("mu", s)

LEMMA InnerJoin ==
    ASSUME NEW a, Inner(a), NEW b, Inner(b)
    PROVE  Inner(a \o b)
<1> DEFINE la == Len(a)
           lb == Len(b)
           p  == a \o b
<1>1. a \in Seq(Ops) /\ b \in Seq(Ops)
  BY DEF Inner, Good
<1>2. /\ la \in Nat /\ lb \in Nat /\ DOMAIN a = 1 .. la /\ DOMAIN b = 1 .. lb
      /\ DOMAIN p = 1 .. la + lb
      /\ \A i \in 1 .. la : p[i] = a[i]
      /\ \A i \in 1 .. lb : p[la + i] = b[i]
  BY <1>1, Concatenation
<1> HIDE DEF p, la, lb
<1>3. ASSUME NEW i \in 1 .. la + lb PROVE p[i] \notin {Lock("mu"), Unlock("mu")} \cup Outside
  <2>1. CASE i \in 1 .. la
    BY <1>2, <2>1 DEF Inner, Plain
  <2>2. CASE i \notin 1 .. la
    <3>1. i - la \in 1 .. lb /\ la + (i - la) = i
      BY <1>2, <2>2
    <3>2. p[i] = b[i - la] /\ i - la \in DOMAIN b
      BY <1>2, <3>1
    <3> QED
      BY <3>2 DEF Inner, Plain
  <2> QED
    BY <2>1, <2>2
<1>4. Plain("mu", p)
  BY <1>2, <1>3 DEF Plain
<1>5. Good(p)
  BY Join DEF Inner, p
<1> QED
  BY <1>4, <1>5 DEF Inner, p

LEMMA NothingIsInner == Inner(<<>>)
<1>1. <<>> \in Seq(Ops) /\ Len(<<>>) = 0 /\ ~\E i : i \in DOMAIN <<>>
  OBVIOUS
<1>2. \A m \in Mutexes : ~Held(<<>>, 0, m)
  <2>1. ~\E j : j \in 0 + 1 .. 0
    OBVIOUS
  <2> QED
    BY <1>1, <2>1 DEF Held
<1> QED
  BY <1>1, <1>2 DEF Inner, Good, Fine, Plain

LEMMA OneIsGood ==
    ASSUME NEW op \in {"test", "call", "return", "stamp", "fork"}
    PROVE  Good(<<Do(op)>>)
<1> DEFINE p == <<Do(op)>>
<1>1. \A o, e, o2, e2 : <<o, e>> = <<o2, e2>> => o = o2 /\ e = e2
  OBVIOUS
<1>2. p \in Seq(Ops) /\ Len(p) = 1 /\ DOMAIN p = 1 .. 1 /\ p[1] = Do(op)
  BY DEF Ops
<1> HIDE DEF p
<1>3. \A m : ~Held(p, 1, m)
  <2>1. ~\E j : j \in 1 + 1 .. 1
    OBVIOUS
  <2> QED
    BY <1>2, <2>1 DEF Held
<1>4. op \notin {"lock", "unlock", "set", "clear", "get"}
  OBVIOUS
<1>5. \A o \in {"lock", "unlock", "set", "clear", "get"} : \A e : p[1] # <<o, e>>
  BY <1>1, <1>2, <1>4 DEF Do
<1>6. \A m \in Mutexes : ~Held(p, 0, m)
  <2>1. \A j \in 0 + 1 .. 1 : j = 1
    OBVIOUS
  <2> QED
    BY <1>2, <1>5, <2>1 DEF Held, Unlock
<1>7. Fine(p)
  <2>1. \A i \in DOMAIN p : i = 1
    BY <1>2
  <2>2. \A m : p[1] # Lock(m)
    BY <1>5 DEF Lock
  <2> QED
    BY <1>3, <1>5, <2>1, <2>2, Zenon DEF Fine
<1>8. p[1] \notin {"set", "clear", "get"} \X {"user", "detail"}
  <2> SUFFICES ASSUME p[1] \in {"set", "clear", "get"} \X {"user", "detail"} PROVE FALSE
    OBVIOUS
  <2>1. PICK o \in {"set", "clear", "get"}, e \in {"user", "detail"} : p[1] = <<o, e>>
    OBVIOUS
  <2> QED
    BY <1>5, <2>1
<1> QED
  BY <1>2, <1>6, <1>7, <1>8 DEF Good, p

LEMMA ForkIsInner == Inner(<<Do("fork")>>)
<1>1. Good(<<Do("fork")>>)
  BY OneIsGood
<1>2. Plain("mu", <<Do("fork")>>)
  <2>1. \A i \in DOMAIN <<Do("fork")>> : <<Do("fork")>>[i] = Do("fork")
    OBVIOUS
  <2>2. Do("fork") \notin {Lock("mu"), Unlock("mu")} \cup Outside
    BY DEF Do, Lock, Unlock, Outside
  <2> QED
    BY <2>1, <2>2 DEF Plain
<1> QED
  BY <1>1, <1>2 DEF Inner

LEMMA LookUpIsInner == Inner(LookUp)
<1>1. Plain("registry", <<>>)
  BY DEF Plain
<1>2. Good(LookUp)
  BY <1>1, NothingIsInner, Enclose DEF Inner, LookUp, Mutexes
<1>3. Plain("mu", LookUp)
  <2> DEFINE p == LookUp
  <2>1. /\ <<Lock("registry")>> \in Seq(Ops) /\ <<Unlock("registry")>> \in Seq(Ops)
        /\ <<>> \in Seq(Ops)
    BY DEF Ops, Lock, Unlock, Mutexes
  <2>2. <<Lock("registry")>> \o <<>> = <<Lock("registry")>>
    BY <2>1
  <2>3. p = <<Lock("registry")>> \o <<Unlock("registry")>>
    BY <2>2 DEF LookUp, Section
  <2>4. /\ DOMAIN p = 1 .. 1 + 1
        /\ \A i \in 1 .. 1 : p[i] = Lock("registry")
        /\ \A i \in 1 .. 1 : p[1 + i] = Unlock("registry")
    <3> DEFINE a == <<Lock("registry")>>
               b == <<Unlock("registry")>>
    <3>1. /\ Len(a) = 1 /\ \A i \in 1 .. 1 : a[i] = Lock("registry")
          /\ Len(b) = 1 /\ \A i \in 1 .. 1 : b[i] = Unlock("registry")
      OBVIOUS
    <3>2. p = a \o b /\ a \in Seq(Ops) /\ b \in Seq(Ops)
      BY <2>1, <2>3
    <3> HIDE DEF a, b, p
    <3> QED
      BY <3>1, <3>2, Concatenation
  <2> HIDE DEF p
  <2>5. p[1] = Lock("registry") /\ p[2] = Unlock("registry") /\ \A i \in DOMAIN p : i = 1 \/ i = 2
    <3>1. 1 + 1 = 2 /\ 1 \in 1 .. 1
      OBVIOUS
    <3> QED
      BY <2>4, <3>1
  <2>6. /\ Lock("registry") \notin {Lock("mu"), Unlock("mu")} \cup Outside
        /\ Unlock("registry") \notin {Lock("mu"), Unlock("mu")} \cup Outside
    BY DEF Lock, Unlock, Outside, Do
  <2> QED
    BY <2>5, <2>6 DEF Plain, p
<1> QED
  BY <1>2, <1>3 DEF Inner

LEMMA PairsAreInner ==
    /\ Inner(SetErrorHandler) /\ Inner(RemoveErrorHandler) /\ Inner(ClearError)
    /\ Inner(LastError) /\ Inner(Record) /\ Inner(Section("err", <<Get("handler"), Get("user")>>))
<1>1. \A op \in {"set", "clear", "get"} : \A f \in Firsts : Inner(PairSection(op, f))
  BY PairIsGood DEF Inner
<1>2. /\ SetErrorHandler = PairSection("set", "handler")
      /\ RemoveErrorHandler = PairSection("clear", "handler")
      /\ ClearError = PairSection("clear", "code")
      /\ LastError = PairSection("get", "code")
      /\ Record = PairSection("set", "code")
      /\ Section("err", <<Get("handler"), Get("user")>>) = PairSection("get", "handler")
  BY DEF SetErrorHandler, RemoveErrorHandler, ClearError, LastError, Record, PairSection, Second,
         Set, Clear, Get
<1> QED
  BY <1>1, <1>2 DEF Firsts

LEMMA ReportIsGood == Good(Report) /\ Good(Telling)
<1>1. Good(Record \o Section("err", <<Get("handler"), Get("user")>>))
  BY Join, PairsAreInner DEF Inner
<1>2. Good(Report)
  BY <1>1, Join, OneIsGood DEF Report
<1>3. Good(Telling)
  BY Join, OneIsGood, PairsAreInner DEF Telling, Inner
<1> QED
  BY <1>2, <1>3

LEMMA MuSectionIsGood ==
    ASSUME NEW s, Inner(s)
    PROVE  Good(Section("mu", s))
  BY Enclose DEF Inner, Mutexes

\* Whichever way a call goes, its script is good.
LEMMA ScriptsAreGood ==
    ASSUME NEW call \in Calls \cup HandlerCalls, NEW script \in Scripts(call)
    PROVE  Good(script)
<1> USE DEF Inner
<1>1. Good(<<>>) /\ Good(<<Do("stamp")>>)
  BY NothingIsInner, OneIsGood
<1>2. \A s \in Opens : Good(s)
  <2>1. ASSUME NEW opening \in {<<>>, Record}, NEW failing \in {<<>>, Report}
        PROVE  Good(Section("mu", opening) \o failing)
    <3>1. Inner(opening) /\ Good(failing)
      BY <1>1, NothingIsInner, PairsAreInner, ReportIsGood
    <3> QED
      BY <3>1, Join, MuSectionIsGood
  <2> SUFFICES ASSUME NEW s \in Opens PROVE Good(s)
    OBVIOUS
  <2>2. PICK opening \in {<<>>, Record}, failing \in {<<>>, Report} :
           s = Section("mu", opening) \o failing
    BY DEF Opens
  <2> QED
    BY <2>1, <2>2
<1>3. \A s \in Reloads : Inner(s)
  BY LookUpIsInner, PairsAreInner, InnerJoin DEF Reloads
<1> SUFFICES ASSUME call \in {"log", "first_log", "init", "set", "configure", "load_file", "reset",
                              "flush", "add_level", "fork", "set_error_handler",
                              "remove_error_handler", "clear_error", "last_error"}
             PROVE  Good(script)
  BY CallsAssumption
<1>4. CASE call = "log"
  <2>1. script \in {<<Do("stamp")>>, <<Do("stamp")>> \o Report, Record \o <<Do("stamp")>>}
    BY <1>4 DEF Scripts
  <2>2. Good(<<Do("stamp")>> \o Report) /\ Good(Record \o <<Do("stamp")>>)
    BY <1>1, ReportIsGood, PairsAreInner, Join
  <2> QED
    BY <1>1, <2>1, <2>2
<1>5. CASE call = "first_log"
  <2>1. PICK open \in Opens : script = Section("mu", <<>>) \o <<Do("stamp")>> \o open
    BY <1>5 DEF Scripts
  <2>2. Good(Section("mu", <<>>) \o <<Do("stamp")>>)
    BY <1>1, NothingIsInner, MuSectionIsGood, Join
  <2> QED
    BY <1>2, <2>1, <2>2, Join
<1>6. CASE call = "init"
  BY <1>2, <1>6 DEF Scripts
<1>7. CASE call = "set"
  <2>1. PICK reload \in Reloads : script = LookUp \o Section("mu", reload)
    BY <1>7 DEF Scripts
  <2> QED
    BY <1>3, <2>1, LookUpIsInner, MuSectionIsGood, Join
<1>8. CASE call = "configure"
  <2>1. PICK reload \in Reloads : script = Section("mu", LookUp \o reload)
    BY <1>8 DEF Scripts
  <2>2. Inner(LookUp \o reload)
    BY <1>3, LookUpIsInner, InnerJoin
  <2> QED
    BY <2>1, <2>2, MuSectionIsGood
<1>9. CASE call = "load_file"
  <2>1. PICK reading \in {<<>>, Record}, reload \in Reloads : script = Section("mu", reading \o reload)
    BY <1>9 DEF Scripts
  <2>2. Inner(reading \o reload)
    BY <1>3, <2>1, NothingIsInner, PairsAreInner, InnerJoin
  <2> QED
    BY <2>1, <2>2, MuSectionIsGood
<1>10. CASE call = "reset"
  BY <1>10, PairsAreInner, MuSectionIsGood DEF Scripts
<1>11. CASE call = "flush"
  BY <1>11, NothingIsInner, MuSectionIsGood DEF Scripts
<1>12. CASE call = "add_level"
  BY <1>12, LookUpIsInner DEF Scripts
<1>13. CASE call = "fork"
  BY <1>13, ForkIsInner, MuSectionIsGood DEF Scripts, Forking
<1>14. CASE call = "set_error_handler"
  BY <1>14, PairsAreInner DEF Scripts
<1>15. CASE call = "remove_error_handler"
  BY <1>15, PairsAreInner DEF Scripts
<1>16. CASE call = "clear_error"
  BY <1>16, PairsAreInner DEF Scripts
<1>17. CASE call = "last_error"
  BY <1>17, PairsAreInner DEF Scripts
<1> QED
  BY <1>4, <1>5, <1>6, <1>7, <1>8, <1>9, <1>10, <1>11, <1>12, <1>13, <1>14, <1>15, <1>16, <1>17

----------------------------------------------------------------------------
(* A thread at the head of its script.                                     *)

\* What a step does to the mutexes its thread holds.
LEMMA StepAhead ==
    ASSUME NEW s \in Seq(Ops), Len(s) > 0, Fine(s), NEW m \in Mutexes
    PROVE  /\ Held(s, 0, m) <=> (s[1] = Unlock(m) \/ (s[1] # Lock(m) /\ Held(Tail(s), 0, m)))
           /\ s[1] = Lock(m) => Held(Tail(s), 0, m)
           /\ s[1] \in {Unlock(m)} \cup Outside => ~Held(Tail(s), 0, m)
<1>1. Held(Tail(s), 0, m) <=> Held(s, 1, m)
  BY HeldInTail
<1>2. Held(s, 0, m) <=> (s[1] = Unlock(m) \/ (s[1] # Lock(m) /\ Held(s, 1, m)))
  BY HeldBefore
<1>3. 1 \in DOMAIN s
  OBVIOUS
<1> QED
  BY <1>1, <1>2, <1>3 DEF Fine

\* A pair is done in two steps that follow one another, with err_mu held.
LEMMA PairAhead ==
    ASSUME NEW s \in Seq(Ops), Len(s) > 0, Fine(s),
           NEW op \in {"set", "clear", "get"}, NEW f \in Firsts
    PROVE  /\ (Len(Tail(s)) > 0 /\ Tail(s)[1] = <<op, Second[f]>>) <=> s[1] = <<op, f>>
           /\ s[1] \in {<<op, f>>, <<op, Second[f]>>} => Held(s, 0, "err")
<1> DEFINE n == Len(s)
           r == Tail(s)
<1>1. /\ n \in Nat /\ DOMAIN s = 1 .. n /\ Len(r) = n - 1
      /\ n > 1 => r[1] = s[1 + 1]
      /\ 1 \in 1 .. n /\ 1 + 1 = 2
  OBVIOUS
<1> HIDE DEF r, n
<1>2. ASSUME s[1] = <<op, f>> PROVE Len(r) > 0 /\ r[1] = <<op, Second[f]>>
  <2>1. 1 < Len(s) /\ s[1 + 1] = <<op, Second[f]>>
    BY <1>1, <1>2 DEF Fine
  <2> QED
    BY <1>1, <2>1 DEF n
<1>3. ASSUME Len(r) > 0, r[1] = <<op, Second[f]>> PROVE s[1] = <<op, f>>
  <2>1. 2 \in DOMAIN s /\ s[2] = <<op, Second[f]>> /\ 2 > 1 /\ 2 - 1 = 1
    BY <1>1, <1>3
  <2>2. s[2 - 1] = <<op, f>>
    BY <2>1 DEF Fine
  <2> QED
    BY <2>1, <2>2
<1>4. ASSUME s[1] \in {<<op, f>>, <<op, Second[f]>>} PROVE Held(s, 0, "err")
  <2>1. Held(s, 1, "err")
    BY <1>1, <1>4 DEF Fine
  <2>2. s[1] # Lock("err")
    <3>1. \A o, e, o2, e2 : <<o, e>> = <<o2, e2>> => o = o2
      OBVIOUS
    <3>2. op # "lock"
      OBVIOUS
    <3> QED
      BY <1>4, <3>1, <3>2 DEF Lock
  <2>3. Held(s, 0, "err") <=> (s[1] = Unlock("err") \/ (s[1] # Lock("err") /\ Held(s, 1, "err")))
    BY HeldBefore DEF Mutexes
  <2> QED
    BY <2>1, <2>2, <2>3
<1> QED
  BY <1>2, <1>3, <1>4 DEF r

LEMMA GoodIsFine ==
    ASSUME NEW s, Good(s)
    PROVE  /\ s \in Seq(Ops) /\ Fine(s) /\ \A m \in Mutexes : ~Held(s, 0, m)
           /\ \A op \in {"set", "clear", "get"} : \A f \in Firsts :
                 ~(Len(s) > 0 /\ s[1] = <<op, Second[f]>>)
<1>1. \A op \in {"set", "clear", "get"} : \A f \in Firsts :
         <<op, Second[f]>> \in {"set", "clear", "get"} \X {"user", "detail"}
  BY DEF Firsts, Second
<1>2. \A op \in {"set", "clear", "get"} : \A f \in Firsts :
         ~(Len(s) > 0 /\ s[1] = <<op, Second[f]>>)
  <2> DEFINE seconds == {"set", "clear", "get"} \X {"user", "detail"}
  <2>1. Len(s) > 0 => s[1] \notin seconds
    BY DEF Good
  <2>2. \A op \in {"set", "clear", "get"} : \A f \in Firsts : <<op, Second[f]>> \in seconds
    BY <1>1
  <2> HIDE DEF seconds
  <2> QED
    BY <2>1, <2>2
<1> QED
  BY <1>2 DEF Good

\* Where nothing is held, what is left of a script is a good script again.
LEMMA RestIsGood ==
    ASSUME NEW s \in Seq(Ops), Len(s) > 0, Fine(s), s[1] \in Outside
    PROVE  Good(Tail(s)) /\ \A m \in Mutexes : ~Held(s, 0, m)
<1>1. \A m \in Mutexes : ~Held(Tail(s), 0, m)
  BY StepAhead
<1>2. \A o, e, o2, e2 : <<o, e>> = <<o2, e2>> => o = o2
  OBVIOUS
<1>3. \A o \in {"set", "clear", "get", "unlock"} : \A e : s[1] # <<o, e>>
  BY <1>2 DEF Outside, Do
<1>4. \A m \in Mutexes : ~Held(s, 0, m)
  BY <1>1, <1>3, StepAhead DEF Unlock
<1>5. ASSUME Len(Tail(s)) > 0, Tail(s)[1] \in {"set", "clear", "get"} \X {"user", "detail"} PROVE FALSE
  <2>1. PICK op \in {"set", "clear", "get"}, e \in {"user", "detail"} : Tail(s)[1] = <<op, e>>
    BY <1>5
  <2>2. PICK f \in Firsts : e = Second[f]
    BY DEF Firsts, Second
  <2>3. s[1] = <<op, f>>
    BY <1>5, <2>1, <2>2, PairAhead
  <2> QED
    BY <1>3, <2>3
<1> QED
  BY <1>1, <1>4, <1>5, TailIsFine DEF Good

\* The head of a thread's script.
LEMMA AtHead ==
    ASSUME ScriptTypes, NEW t \in Threads, NEW op, At(t, op)
    PROVE  /\ todo[t] \in Seq(Ops) /\ Len(todo[t]) > 0
           /\ Op(t) = todo[t][1] /\ Op(t) \in Ops /\ Op(t) = <<op, Op(t)[2]>>
<1>1. todo[t] \in Seq(Ops) /\ todo[t] # <<>>
  BY DEF ScriptTypes, At, Idle
<1>2. Len(todo[t]) > 0 /\ Op(t) = todo[t][1] /\ Op(t) \in Ops
  BY <1>1 DEF Op
<1>3. Op(t) = <<Op(t)[1], Op(t)[2]>>
  <2>1. CASE Op(t) \in {"lock", "unlock"} \X Mutexes
    BY <2>1
  <2>2. CASE Op(t) \in {"set", "clear", "get"} \X Fields
    BY <2>2
  <2>3. ASSUME NEW o, Op(t) = Do(o) PROVE Op(t) = <<Op(t)[1], Op(t)[2]>>
    <3>1. Op(t) = <<o, "">>
      BY <2>3 DEF Do
    <3>2. <<o, "">>[1] = o /\ <<o, "">>[2] = ""
      OBVIOUS
    <3> QED
      BY <3>1, <3>2, Zenon
  <2> QED
    BY <1>2, <2>1, <2>2, <2>3 DEF Ops
<1> QED
  BY <1>1, <1>2, <1>3 DEF At

\* Which field or mutex an operation is about.
LEMMA OpKinds ==
    /\ \A x : <<"lock", x>> \in Ops => x \in Mutexes
    /\ \A x : <<"unlock", x>> \in Ops => x \in Mutexes
    /\ \A op \in {"set", "clear", "get"} : \A x : <<op, x>> \in Ops => x \in Fields
    /\ \A op \in {"test", "call", "return", "stamp", "fork"} : \A x : <<op, x>> \in Ops => x = ""
  BY DEF Ops, Do

----------------------------------------------------------------------------
(* The mutexes are held by those who are going to release them.            *)

\* A thread begins something new where it holds nothing.
LEMMA HoldRenewed ==
    ASSUME HoldInv, ScriptTypes, NEW t \in Threads, NEW s, Good(s),
           \A m \in Mutexes : ~Held(todo[t], 0, m),
           todo' = [todo EXCEPT ![t] = s], holder' = holder
    PROVE  HoldInv'
<1>1. todo'[t] = s /\ \A u \in Threads \ {t} : todo'[u] = todo[u]
  BY DEF ScriptTypes
<1> SUFFICES ASSUME NEW u \in Threads
             PROVE  Fine(todo'[u]) /\ \A m \in Mutexes : holder'[m] = u <=> Held(todo'[u], 0, m)
  BY DEF HoldInv
<1>2. CASE u = t
  BY <1>1, <1>2, GoodIsFine DEF HoldInv
<1>3. CASE u # t
  BY <1>1, <1>3 DEF HoldInv
<1> QED
  BY <1>2, <1>3

\* A thread goes on.
LEMMA HoldAdvances ==
    ASSUME HoldInv, ScriptTypes, NEW t \in Threads, Len(todo[t]) > 0,
           todo' = [todo EXCEPT ![t] = Tail(@)],
           \/ /\ holder' = holder
              /\ \A m \in Mutexes : todo[t][1] # Lock(m) /\ todo[t][1] # Unlock(m)
           \/ \E m \in Mutexes :
                 /\ todo[t][1] = Lock(m) /\ holder[m] = Nobody
                 /\ holder' = [holder EXCEPT ![m] = t]
           \/ \E m \in Mutexes :
                 /\ todo[t][1] = Unlock(m)
                 /\ holder' = [holder EXCEPT ![m] = Nobody]
    PROVE  HoldInv'
<1> DEFINE s == todo[t]
           r == Tail(todo[t])
<1>1. /\ s \in Seq(Ops) /\ Len(s) > 0 /\ Fine(s)
      /\ todo'[t] = r /\ \A u \in Threads \ {t} : todo'[u] = todo[u]
  BY DEF ScriptTypes, HoldInv
<1>2. Fine(r)
  BY <1>1, TailIsFine
<1>3. \A m \in Mutexes :
         /\ Held(s, 0, m) <=> (s[1] = Unlock(m) \/ (s[1] # Lock(m) /\ Held(r, 0, m)))
         /\ s[1] = Lock(m) => Held(r, 0, m)
         /\ s[1] = Unlock(m) => ~Held(r, 0, m)
  BY <1>1, StepAhead
<1>4. \A m \in Mutexes : holder[m] = t <=> Held(s, 0, m)
  BY DEF HoldInv
<1>5. \A u \in Threads \ {t} :
         Fine(todo'[u]) /\ \A m \in Mutexes : holder[m] = u <=> Held(todo'[u], 0, m)
  BY <1>1 DEF HoldInv
<1>6. \A m, x : (Lock(m) = Lock(x) => m = x) /\ (Unlock(m) = Unlock(x) => m = x) /\ Lock(m) # Unlock(x)
  BY DEF Lock, Unlock
<1>7. Nobody \notin Threads
  BY ConstantsAssumption
<1> HIDE DEF s, r
<1>8. ASSUME \A u \in Threads : \A m \in Mutexes : holder'[m] = u <=> Held(todo'[u], 0, m)
      PROVE  HoldInv'
  BY <1>1, <1>2, <1>5, <1>8 DEF HoldInv
<1>9. CASE holder' = holder /\ \A m \in Mutexes : s[1] # Lock(m) /\ s[1] # Unlock(m)
  <2>1. \A m \in Mutexes : holder'[m] = t <=> Held(r, 0, m)
    BY <1>3, <1>4, <1>9
  <2> QED
    BY <1>1, <1>5, <1>8, <1>9, <2>1
<1>10. ASSUME NEW m \in Mutexes, s[1] = Lock(m), holder[m] = Nobody,
              holder' = [holder EXCEPT ![m] = t]
       PROVE  HoldInv'
  <2>1. holder'[m] = t /\ \A x \in Mutexes \ {m} : holder'[x] = holder[x]
    BY <1>10 DEF ScriptTypes
  <2>2. ASSUME NEW x \in Mutexes PROVE holder'[x] = t <=> Held(r, 0, x)
    <3>1. CASE x = m
      BY <1>3, <1>10, <2>1, <3>1
    <3>2. CASE x # m
      BY <1>3, <1>4, <1>6, <1>10, <2>1, <3>2
    <3> QED
      BY <3>1, <3>2
  <2>3. ASSUME NEW u \in Threads \ {t}, NEW x \in Mutexes PROVE holder'[x] = u <=> Held(todo'[u], 0, x)
    BY <1>5, <1>7, <1>10, <2>1
  <2> QED
    BY <1>1, <1>8, <2>2, <2>3
<1>11. ASSUME NEW m \in Mutexes, s[1] = Unlock(m), holder' = [holder EXCEPT ![m] = Nobody]
       PROVE  HoldInv'
  <2>1. holder'[m] = Nobody /\ \A x \in Mutexes \ {m} : holder'[x] = holder[x]
    BY <1>11 DEF ScriptTypes
  <2>2. holder[m] = t
    BY <1>3, <1>4, <1>11
  <2>3. ASSUME NEW x \in Mutexes PROVE holder'[x] = t <=> Held(r, 0, x)
    <3>1. CASE x = m
      BY <1>3, <1>7, <1>11, <2>1, <3>1
    <3>2. CASE x # m
      BY <1>3, <1>4, <1>6, <1>11, <2>1, <3>2
    <3> QED
      BY <3>1, <3>2
  <2>4. ASSUME NEW u \in Threads \ {t}, NEW x \in Mutexes PROVE holder'[x] = u <=> Held(todo'[u], 0, x)
    BY <1>5, <1>7, <2>1, <2>2
  <2> QED
    BY <1>1, <1>8, <2>3, <2>4
<1> QED
  BY <1>9, <1>10, <1>11 DEF s

----------------------------------------------------------------------------
(* The pairs.                                                              *)

\* Who is between the two halves of a pair holds err_mu, so no other thread is at a pair.
LEMMA AtPair ==
    ASSUME HoldInv, ScriptTypes, NEW t \in Threads, NEW op \in {"set", "clear", "get"}, NEW f \in Firsts
    PROVE  HeadIs(t, <<op, f>>) \/ HeadIs(t, <<op, Second[f]>>) => holder["err"] = t
<1> SUFFICES ASSUME HeadIs(t, <<op, f>>) \/ HeadIs(t, <<op, Second[f]>>) PROVE holder["err"] = t
  OBVIOUS
<1>1. todo[t] \in Seq(Ops) /\ Fine(todo[t])
  BY DEF ScriptTypes, HoldInv
<1>2. Len(todo[t]) > 0 /\ todo[t][1] \in {<<op, f>>, <<op, Second[f]>>}
  BY DEF HeadIs
<1>3. Held(todo[t], 0, "err")
  BY <1>1, <1>2, PairAhead
<1> QED
  BY <1>3 DEF HoldInv, Mutexes

\* Nothing happens to the pairs.
LEMMA PairsKept ==
    ASSUME PairInv, shared' = shared,
           \A u \in Threads : \A f \in Firsts :
              /\ \A op \in {"set", "clear", "get"} :
                    HeadIs(u, <<op, Second[f]>>)' <=> HeadIs(u, <<op, Second[f]>>)
              /\ HeadIs(u, <<"set", Second[f]>>) => made'[u] = made[u]
              /\ \/ mine'[u] = mine[u]
                 \/ mine'[u][f] = mine'[u][Second[f]] /\ ~HeadIs(u, <<"get", Second[f]>>)
    PROVE  PairInv'
<1> SUFFICES ASSUME NEW f \in Firsts
             PROVE  /\ \/ shared'[f] = shared'[Second[f]]
                       \/ \E u \in Threads : HeadIs(u, <<"set", Second[f]>>)' \/ HeadIs(u, <<"clear", Second[f]>>)'
                    /\ \A u \in Threads :
                          /\ HeadIs(u, <<"set", Second[f]>>)' => shared'[f] = Id(u)'
                          /\ HeadIs(u, <<"clear", Second[f]>>)' => shared'[f] = <<>>
                          /\ HeadIs(u, <<"get", Second[f]>>)' => mine'[u][f] = shared'[f]
                          /\ mine'[u][f] = mine'[u][Second[f]] \/ HeadIs(u, <<"get", Second[f]>>)'
  BY DEF PairInv
<1>1. \/ shared'[f] = shared'[Second[f]]
      \/ \E u \in Threads : HeadIs(u, <<"set", Second[f]>>)' \/ HeadIs(u, <<"clear", Second[f]>>)'
  BY DEF PairInv
<1>2. ASSUME NEW u \in Threads
      PROVE  /\ HeadIs(u, <<"set", Second[f]>>)' => shared'[f] = Id(u)'
             /\ HeadIs(u, <<"clear", Second[f]>>)' => shared'[f] = <<>>
             /\ HeadIs(u, <<"get", Second[f]>>)' => mine'[u][f] = shared'[f]
             /\ mine'[u][f] = mine'[u][Second[f]] \/ HeadIs(u, <<"get", Second[f]>>)'
  BY DEF PairInv, Id
<1> QED
  BY <1>1, <1>2

\* A thread begins something new: no pair is begun or ended.
LEMMA PairsRenewed ==
    ASSUME PairInv, ScriptTypes, NEW t \in Threads, NEW s, Good(s),
           \A op \in {"set", "clear", "get"} : \A f \in Firsts : ~HeadIs(t, <<op, Second[f]>>),
           todo' = [todo EXCEPT ![t] = s], shared' = shared,
           \A u \in Threads \ {t} : made'[u] = made[u] /\ mine'[u] = mine[u],
           \/ mine'[t] = mine[t]
           \/ \A f \in Firsts : mine'[t][f] = mine'[t][Second[f]]
    PROVE  PairInv'
<1>1. todo'[t] = s /\ \A u \in Threads \ {t} : todo'[u] = todo[u]
  BY DEF ScriptTypes
<1>2. \A op \in {"set", "clear", "get"} : \A f \in Firsts : ~HeadIs(t, <<op, Second[f]>>)'
  BY <1>1, GoodIsFine DEF HeadIs
<1>3. \A u \in Threads \ {t} : \A op : HeadIs(u, op)' <=> HeadIs(u, op)
  BY <1>1 DEF HeadIs
<1>4. ASSUME NEW u \in Threads, NEW f \in Firsts
      PROVE  /\ \A op \in {"set", "clear", "get"} :
                   HeadIs(u, <<op, Second[f]>>)' <=> HeadIs(u, <<op, Second[f]>>)
             /\ HeadIs(u, <<"set", Second[f]>>) => made'[u] = made[u]
             /\ \/ mine'[u] = mine[u]
                \/ mine'[u][f] = mine'[u][Second[f]] /\ ~HeadIs(u, <<"get", Second[f]>>)
  <2>1. CASE u = t
    BY <1>2, <2>1
  <2>2. CASE u # t
    BY <1>3, <2>2
  <2> QED
    BY <2>1, <2>2
<1> QED
  BY <1>4, PairsKept

\* A thread goes on with something that is no part of a pair.
LEMMA PairsUntouched ==
    ASSUME PairInv, ScriptTypes, HoldInv, NEW t \in Threads, Len(todo[t]) > 0,
           todo[t][1] \notin {"set", "clear", "get"} \X Fields,
           todo' = [todo EXCEPT ![t] = Tail(@)], UNCHANGED <<shared, made, mine>>
    PROVE  PairInv'
<1>1. /\ todo[t] \in Seq(Ops) /\ Fine(todo[t])
      /\ todo'[t] = Tail(todo[t]) /\ \A u \in Threads \ {t} : todo'[u] = todo[u]
  BY DEF ScriptTypes, HoldInv
<1>2. \A op \in {"set", "clear", "get"} : \A f \in Firsts :
         /\ <<op, f>> \in {"set", "clear", "get"} \X Fields
         /\ <<op, Second[f]>> \in {"set", "clear", "get"} \X Fields
  BY DEF Firsts, Second, Fields
<1>3. \A op \in {"set", "clear", "get"} : \A f \in Firsts :
         ~HeadIs(t, <<op, Second[f]>>) /\ ~HeadIs(t, <<op, Second[f]>>)'
  <2> SUFFICES ASSUME NEW op \in {"set", "clear", "get"}, NEW f \in Firsts
               PROVE  ~HeadIs(t, <<op, Second[f]>>) /\ ~HeadIs(t, <<op, Second[f]>>)'
    OBVIOUS
  <2>1. todo[t][1] # <<op, f>> /\ todo[t][1] # <<op, Second[f]>>
    <3> DEFINE pairs == {"set", "clear", "get"} \X Fields
    <3>1. <<op, f>> \in pairs /\ <<op, Second[f]>> \in pairs /\ todo[t][1] \notin pairs
      BY <1>2
    <3> HIDE DEF pairs
    <3> QED
      BY <3>1
  <2>2. ~(Len(Tail(todo[t])) > 0 /\ Tail(todo[t])[1] = <<op, Second[f]>>)
    BY <1>1, <2>1, PairAhead
  <2> QED
    BY <1>1, <2>1, <2>2 DEF HeadIs
<1>4. \A u \in Threads \ {t} : \A op : HeadIs(u, op)' <=> HeadIs(u, op)
  BY <1>1 DEF HeadIs
<1> QED
  BY <1>3, <1>4, PairsKept

\* A thread goes on with a pair: who is at the second half of which pair, after and before.
LEMMA PairsAdvance ==
    ASSUME ScriptTypes, HoldInv, NEW t \in Threads, Len(todo[t]) > 0,
           todo' = [todo EXCEPT ![t] = Tail(@)],
           todo[t][1] \in {"set", "clear", "get"} \X Fields
    PROVE  \A u \in Threads : \A o \in {"set", "clear", "get"} : \A g \in Firsts :
              /\ HeadIs(u, <<o, Second[g]>>)' <=> (u = t /\ todo[t][1] = <<o, g>>)
              /\ HeadIs(u, <<o, Second[g]>>) <=> (u = t /\ todo[t][1] = <<o, Second[g]>>)
<1> SUFFICES ASSUME NEW u \in Threads, NEW o \in {"set", "clear", "get"}, NEW g \in Firsts
             PROVE  /\ HeadIs(u, <<o, Second[g]>>)' <=> (u = t /\ todo[t][1] = <<o, g>>)
                    /\ HeadIs(u, <<o, Second[g]>>) <=> (u = t /\ todo[t][1] = <<o, Second[g]>>)
  OBVIOUS
<1>1. /\ todo[t] \in Seq(Ops) /\ Fine(todo[t])
      /\ todo'[t] = Tail(todo[t]) /\ \A v \in Threads \ {t} : todo'[v] = todo[v]
  BY DEF ScriptTypes, HoldInv
<1>2. CASE u = t
  <2>1. (Len(Tail(todo[t])) > 0 /\ Tail(todo[t])[1] = <<o, Second[g]>>) <=> todo[t][1] = <<o, g>>
    BY <1>1, PairAhead
  <2> QED
    BY <1>1, <1>2, <2>1 DEF HeadIs
<1>3. CASE u # t
  <2>1. PICK op \in {"set", "clear", "get"}, x \in Fields : todo[t][1] = <<op, x>>
    OBVIOUS
  <2>2. PICK f \in Firsts : x = f \/ x = Second[f]
    BY DEF Fields, Firsts, Second
  <2>3. HeadIs(t, <<op, f>>) \/ HeadIs(t, <<op, Second[f]>>)
    BY <2>1, <2>2 DEF HeadIs
  <2>4. holder["err"] = t
    BY <2>3, AtPair
  <2>5. ~HeadIs(u, <<o, Second[g]>>)
    BY <1>3, <2>4, AtPair
  <2>6. HeadIs(u, <<o, Second[g]>>)' <=> HeadIs(u, <<o, Second[g]>>)
    BY <1>1, <1>3 DEF HeadIs
  <2> QED
    BY <1>3, <2>5, <2>6
<1> QED
  BY <1>2, <1>3

----------------------------------------------------------------------------
(* The invariant, action by action.                                        *)

LockInv == ScriptTypes /\ HoldInv /\ PairInv

LEMMA LockInvInit == Init => LockInv
<1> SUFFICES ASSUME Init PROVE LockInv
  OBVIOUS
<1>1. \A t \in Threads : todo[t] = <<>>
  BY DEF Init
<1>2. <<>> \in Seq(Ops) /\ Len(<<>>) = 0 /\ Fine(<<>>) /\ \A m \in Mutexes : ~Held(<<>>, 0, m)
  BY NothingIsInner, GoodIsFine DEF Inner
<1>3. ScriptTypes
  BY <1>2 DEF Init, ScriptTypes, Ids
<1>4. HoldInv
  BY <1>1, <1>2, ConstantsAssumption DEF Init, HoldInv
<1>5. PairInv
  <2>1. \A f \in Firsts : f \in Fields /\ Second[f] \in Fields
    BY DEF Firsts, Second, Fields
  <2>2. \A e \in Fields : shared[e] = <<>> /\ \A t \in Threads : mine[t][e] = <<>>
    BY DEF Init
  <2>3. \A t \in Threads : \A op : ~HeadIs(t, op)
    BY <1>1, <1>2 DEF HeadIs
  <2> QED
    BY <2>1, <2>2, <2>3 DEF PairInv
<1> QED
  BY <1>3, <1>4, <1>5 DEF LockInv

LEMMA CallKeeps ==
    ASSUME LockInv, NEW t \in Threads, Call(t)
    PROVE  LockInv'
<1> USE DEF LockInv
<1>1. PICK call \in Calls : \E script \in Scripts(call) : todo' = [todo EXCEPT ![t] = script]
  BY DEF Call
<1>2. PICK script \in Scripts(call) : todo' = [todo EXCEPT ![t] = script]
  BY <1>1
<1>3. Good(script) /\ script \in Seq(Ops)
  BY ScriptsAreGood DEF Good
<1>4. /\ todo[t] = <<>> /\ UNCHANGED <<holder, shared>>
      /\ made' = [made EXCEPT ![t] = @ + 1]
      /\ mine' = [mine EXCEPT ![t] = [f \in Fields |-> <<>>]]
  BY DEF Call, Idle, lockVars
<1>5. Len(todo[t]) = 0 /\ \A m \in Mutexes : ~Held(todo[t], 0, m)
  <2>1. Len(<<>>) = 0 /\ \A m \in Mutexes : ~Held(<<>>, 0, m)
    BY NothingIsInner, GoodIsFine DEF Inner
  <2> QED
    BY <1>4, <2>1
<1>6. ScriptTypes'
  BY <1>2, <1>3, <1>4 DEF ScriptTypes, Ids
<1>7. HoldInv'
  BY <1>2, <1>3, <1>4, <1>5, HoldRenewed
<1>8. PairInv'
  <2>1. \A op \in {"set", "clear", "get"} : \A f \in Firsts : ~HeadIs(t, <<op, Second[f]>>)
    BY <1>5 DEF HeadIs
  <2>2. \A u \in Threads \ {t} : made'[u] = made[u] /\ mine'[u] = mine[u]
    BY <1>4 DEF ScriptTypes
  <2>3. \A f \in Firsts : mine'[t][f] = mine'[t][Second[f]]
    BY <1>4 DEF ScriptTypes, Firsts, Second, Fields
  <2> QED
    BY <1>2, <1>3, <1>4, <2>1, <2>2, <2>3, PairsRenewed
<1> QED
  BY <1>6, <1>7, <1>8

\* What is not about a field.
LEMMA OtherKeeps ==
    ASSUME LockInv, NEW t \in Threads,
           \/ Acquire(t) \/ Release(t) \/ HandlerReturns(t) \/ Stamp(t) \/ Fork(t)
    PROVE  LockInv'
<1> USE DEF LockInv
<1>1. \A a, b, c, d : <<a, b>> = <<c, d>> => a = c /\ b = d
  OBVIOUS
<1>2. PICK op \in {"lock", "unlock", "return", "stamp", "fork"} :
         /\ At(t, op)
         /\ op = "lock" => /\ holder[Op(t)[2]] = Nobody
                           /\ holder' = [holder EXCEPT ![Op(t)[2]] = t]
         /\ op = "unlock" => holder' = [holder EXCEPT ![Op(t)[2]] = Nobody]
         /\ op \in {"return", "stamp", "fork"} => holder' = holder
  BY DEF Acquire, Release, HandlerReturns, Stamp, Fork, lockVars
<1>3. todo' = [todo EXCEPT ![t] = Tail(@)] /\ UNCHANGED <<shared, made, mine>>
  BY DEF Acquire, Release, HandlerReturns, Stamp, Fork, Advance, fieldVars
<1> DEFINE x == Op(t)[2]
<1>4. /\ todo[t] \in Seq(Ops) /\ Len(todo[t]) > 0
      /\ todo[t][1] = <<op, x>> /\ <<op, x>> \in Ops
  BY <1>2, AtHead
<1>5. op \in {"lock", "unlock"} => x \in Mutexes
  BY <1>4, OpKinds
<1> HIDE DEF x
<1>6. todo[t][1] \notin {"set", "clear", "get"} \X Fields
  <2> SUFFICES ASSUME todo[t][1] \in {"set", "clear", "get"} \X Fields PROVE FALSE
    OBVIOUS
  <2>1. PICK o \in {"set", "clear", "get"}, e \in Fields : todo[t][1] = <<o, e>>
    OBVIOUS
  <2> QED
    BY <1>1, <1>4, <2>1
<1>7. ScriptTypes'
  <2>1. todo' \in [Threads -> Seq(Ops)]
    BY <1>3, <1>4 DEF ScriptTypes
  <2>2. holder' \in [Mutexes -> Threads \cup {Nobody}]
    BY <1>2, <1>5 DEF ScriptTypes, x
  <2> QED
    BY <1>3, <2>1, <2>2 DEF ScriptTypes
<1>8. HoldInv'
  <2>1. CASE op = "lock"
    BY <1>2, <1>3, <1>4, <1>5, <2>1, HoldAdvances DEF x, Lock
  <2>2. CASE op = "unlock"
    BY <1>2, <1>3, <1>4, <1>5, <2>2, HoldAdvances DEF x, Unlock
  <2>3. CASE op \in {"return", "stamp", "fork"}
    <3>1. \A m \in Mutexes : todo[t][1] # Lock(m) /\ todo[t][1] # Unlock(m)
      BY <1>1, <1>4, <2>3 DEF Lock, Unlock
    <3> QED
      BY <1>2, <1>3, <1>4, <2>3, <3>1, HoldAdvances
  <2> QED
    BY <2>1, <2>2, <2>3
<1>9. PairInv'
  BY <1>3, <1>4, <1>6, PairsUntouched
<1> QED
  BY <1>7, <1>8, <1>9

LEMMA StoreKeeps ==
    ASSUME LockInv, NEW t \in Threads, Store(t)
    PROVE  LockInv'
<1> USE DEF LockInv
<1>1. \A a, b, c, d : <<a, b>> = <<c, d>> => a = c /\ b = d
  OBVIOUS
<1>2. PICK op \in {"set", "clear"} :
         At(t, op) /\ shared' = [shared EXCEPT ![Op(t)[2]] = IF op = "set" THEN Id(t) ELSE <<>>]
  BY DEF Store
<1>3. todo' = [todo EXCEPT ![t] = Tail(@)] /\ UNCHANGED <<holder, made, mine>>
  BY DEF Store, Advance, lockVars
<1> DEFINE x == Op(t)[2]
           v == IF op = "set" THEN Id(t) ELSE <<>>
<1>4. /\ todo[t] \in Seq(Ops) /\ Len(todo[t]) > 0
      /\ todo[t][1] = <<op, x>> /\ <<op, x>> \in Ops
  BY <1>2, AtHead
<1>5. x \in Fields
  BY <1>4, OpKinds
<1>6. shared' = [shared EXCEPT ![x] = v] /\ v \in Ids
  BY <1>2 DEF Ids, Id, ScriptTypes
<1> HIDE DEF x
<1>7. ScriptTypes'
  <2>1. todo' \in [Threads -> Seq(Ops)]
    BY <1>3, <1>4 DEF ScriptTypes
  <2>2. shared' \in [Fields -> Ids]
    BY <1>6 DEF ScriptTypes
  <2> QED
    BY <1>3, <2>1, <2>2 DEF ScriptTypes
<1>8. HoldInv'
  <2>1. \A m \in Mutexes : todo[t][1] # Lock(m) /\ todo[t][1] # Unlock(m)
    BY <1>1, <1>4 DEF Lock, Unlock
  <2> QED
    BY <1>3, <1>4, <2>1, HoldAdvances
<1>9. \A u \in Threads : \A o \in {"set", "clear", "get"} : \A g \in Firsts :
         /\ HeadIs(u, <<o, Second[g]>>)' <=> (u = t /\ o = op /\ g = x)
         /\ HeadIs(u, <<o, Second[g]>>) <=> (u = t /\ o = op /\ Second[g] = x)
  <2>1. \A u \in Threads : \A o \in {"set", "clear", "get"} : \A g \in Firsts :
           /\ HeadIs(u, <<o, Second[g]>>)' <=> (u = t /\ todo[t][1] = <<o, g>>)
           /\ HeadIs(u, <<o, Second[g]>>) <=> (u = t /\ todo[t][1] = <<o, Second[g]>>)
    <3>1. todo[t][1] \in {"set", "clear", "get"} \X Fields
      BY <1>4, <1>5
    <3> QED
      BY <1>3, <1>4, <3>1, PairsAdvance
  <2>2. \A o, g : todo[t][1] = <<o, g>> <=> (o = op /\ g = x)
    BY <1>1, <1>4
  <2> QED
    BY <2>1, <2>2
<1>10. PairInv'
  <2> SUFFICES ASSUME NEW g \in Firsts
               PROVE  /\ \/ shared'[g] = shared'[Second[g]]
                         \/ \E u \in Threads : \/ HeadIs(u, <<"set", Second[g]>>)'
                                               \/ HeadIs(u, <<"clear", Second[g]>>)'
                      /\ \A u \in Threads :
                            /\ HeadIs(u, <<"set", Second[g]>>)' => shared'[g] = Id(u)'
                            /\ HeadIs(u, <<"clear", Second[g]>>)' => shared'[g] = <<>>
                            /\ HeadIs(u, <<"get", Second[g]>>)' => mine'[u][g] = shared'[g]
                            /\ mine'[u][g] = mine'[u][Second[g]] \/ HeadIs(u, <<"get", Second[g]>>)'
    BY DEF PairInv
  <2>1. g \in Fields /\ Second[g] \in Fields /\ g # Second[g]
    BY DEF Firsts, Second, Fields
  <2>2. shared'[x] = v /\ \A e \in Fields \ {x} : shared'[e] = shared[e]
    BY <1>5, <1>6 DEF ScriptTypes
  <2>3. op # "get"
    OBVIOUS
  <2>4. \A u \in Threads : mine'[u][g] = mine'[u][Second[g]]
    <3>1. \A u \in Threads : ~HeadIs(u, <<"get", Second[g]>>)
      BY <1>9, <2>3
    <3> QED
      BY <1>3, <3>1 DEF PairInv
  <2>5. ~\E u \in Threads : HeadIs(u, <<"get", Second[g]>>)'
    BY <1>9, <2>3
  <2>6. CASE g = x
    <3>1. HeadIs(t, <<op, Second[g]>>)'
      BY <1>9, <2>6
    <3>2. \A u \in Threads :
             /\ HeadIs(u, <<"set", Second[g]>>)' => u = t /\ op = "set"
             /\ HeadIs(u, <<"clear", Second[g]>>)' => u = t /\ op = "clear"
      BY <1>9
    <3>3. Id(t)' = Id(t)
      BY <1>3 DEF Id
    <3>4. shared'[g] = v
      BY <2>2, <2>6
    <3> QED
      BY <2>4, <2>5, <3>1, <3>2, <3>3, <3>4
  <2>7. CASE g # x
    <3>1. \A u \in Threads : ~HeadIs(u, <<"set", Second[g]>>)' /\ ~HeadIs(u, <<"clear", Second[g]>>)'
      BY <1>9, <2>7
    <3>2. shared'[g] = shared[g]
      BY <2>1, <2>2, <2>7
    <3>3. CASE Second[g] = x
      <4>1. HeadIs(t, <<op, Second[g]>>)
        BY <1>9, <3>3
      <4>2. shared[g] = v
        BY <4>1 DEF PairInv
      <4> QED
        BY <2>2, <2>4, <2>5, <3>1, <3>2, <3>3, <4>2
    <3>4. CASE Second[g] # x
      <4>1. \A u \in Threads : ~HeadIs(u, <<"set", Second[g]>>) /\ ~HeadIs(u, <<"clear", Second[g]>>)
        BY <1>9, <3>4
      <4>2. shared[g] = shared[Second[g]] /\ shared'[Second[g]] = shared[Second[g]]
        BY <2>1, <2>2, <3>4, <4>1 DEF PairInv
      <4> QED
        BY <2>4, <2>5, <3>1, <3>2, <4>2
    <3> QED
      BY <3>3, <3>4
  <2> QED
    BY <2>6, <2>7
<1> QED
  BY <1>7, <1>8, <1>10

LEMMA LoadKeeps ==
    ASSUME LockInv, NEW t \in Threads, Load(t)
    PROVE  LockInv'
<1> USE DEF LockInv
<1>1. \A a, b, c, d : <<a, b>> = <<c, d>> => a = c /\ b = d
  OBVIOUS
<1>2. /\ At(t, "get") /\ todo' = [todo EXCEPT ![t] = Tail(@)] /\ UNCHANGED <<holder, made, shared>>
      /\ mine' = [mine EXCEPT ![t][Op(t)[2]] = shared[Op(t)[2]]]
  BY DEF Load, Advance, lockVars
<1> DEFINE x == Op(t)[2]
<1>3. /\ todo[t] \in Seq(Ops) /\ Len(todo[t]) > 0
      /\ todo[t][1] = <<"get", x>> /\ <<"get", x>> \in Ops
  BY <1>2, AtHead
<1>4. x \in Fields
  BY <1>3, OpKinds
<1>5. mine' = [mine EXCEPT ![t] = [mine[t] EXCEPT ![x] = shared[x]]]
  BY <1>2
<1> HIDE DEF x
<1>6. ScriptTypes'
  <2>1. todo' \in [Threads -> Seq(Ops)]
    BY <1>2, <1>3 DEF ScriptTypes
  <2>2. mine' \in [Threads -> [Fields -> Ids]]
    BY <1>4, <1>5 DEF ScriptTypes
  <2> QED
    BY <1>2, <2>1, <2>2 DEF ScriptTypes
<1>7. HoldInv'
  <2>1. \A m \in Mutexes : todo[t][1] # Lock(m) /\ todo[t][1] # Unlock(m)
    BY <1>1, <1>3 DEF Lock, Unlock
  <2> QED
    BY <1>2, <1>3, <2>1, HoldAdvances
<1>8. \A u \in Threads : \A o \in {"set", "clear", "get"} : \A g \in Firsts :
         /\ HeadIs(u, <<o, Second[g]>>)' <=> (u = t /\ o = "get" /\ g = x)
         /\ HeadIs(u, <<o, Second[g]>>) <=> (u = t /\ o = "get" /\ Second[g] = x)
  <2>1. \A u \in Threads : \A o \in {"set", "clear", "get"} : \A g \in Firsts :
           /\ HeadIs(u, <<o, Second[g]>>)' <=> (u = t /\ todo[t][1] = <<o, g>>)
           /\ HeadIs(u, <<o, Second[g]>>) <=> (u = t /\ todo[t][1] = <<o, Second[g]>>)
    <3>1. todo[t][1] \in {"set", "clear", "get"} \X Fields
      BY <1>3, <1>4
    <3> QED
      BY <1>2, <1>3, <3>1, PairsAdvance
  <2>2. \A o, g : todo[t][1] = <<o, g>> <=> (o = "get" /\ g = x)
    BY <1>1, <1>3
  <2> QED
    BY <2>1, <2>2
<1>9. PairInv'
  <2> SUFFICES ASSUME NEW g \in Firsts
               PROVE  /\ \/ shared'[g] = shared'[Second[g]]
                         \/ \E u \in Threads : \/ HeadIs(u, <<"set", Second[g]>>)'
                                               \/ HeadIs(u, <<"clear", Second[g]>>)'
                      /\ \A u \in Threads :
                            /\ HeadIs(u, <<"set", Second[g]>>)' => shared'[g] = Id(u)'
                            /\ HeadIs(u, <<"clear", Second[g]>>)' => shared'[g] = <<>>
                            /\ HeadIs(u, <<"get", Second[g]>>)' => mine'[u][g] = shared'[g]
                            /\ mine'[u][g] = mine'[u][Second[g]] \/ HeadIs(u, <<"get", Second[g]>>)'
    BY DEF PairInv
  <2>1. g \in Fields /\ Second[g] \in Fields /\ g # Second[g]
    BY DEF Firsts, Second, Fields
  <2>2. /\ mine'[t][x] = shared[x] /\ \A e \in Fields \ {x} : mine'[t][e] = mine[t][e]
        /\ \A u \in Threads \ {t} : mine'[u] = mine[u]
    BY <1>4, <1>5 DEF ScriptTypes
  <2>3. \A u \in Threads : \A o \in {"set", "clear"} :
           ~HeadIs(u, <<o, Second[g]>>)' /\ ~HeadIs(u, <<o, Second[g]>>)
    BY <1>8
  <2>4. shared'[g] = shared'[Second[g]] /\ shared[g] = shared[Second[g]]
    BY <1>2, <2>3 DEF PairInv
  <2>5. ASSUME NEW u \in Threads
        PROVE  /\ HeadIs(u, <<"get", Second[g]>>)' => mine'[u][g] = shared'[g]
               /\ mine'[u][g] = mine'[u][Second[g]] \/ HeadIs(u, <<"get", Second[g]>>)'
    <3>1. /\ HeadIs(u, <<"get", Second[g]>>)' <=> (u = t /\ g = x)
          /\ HeadIs(u, <<"get", Second[g]>>) <=> (u = t /\ Second[g] = x)
      BY <1>8
    <3>2. /\ HeadIs(u, <<"get", Second[g]>>) => mine[u][g] = shared[g]
          /\ mine[u][g] = mine[u][Second[g]] \/ HeadIs(u, <<"get", Second[g]>>)
      BY DEF PairInv
    <3>3. CASE u = t /\ g = x
      BY <1>2, <2>2, <3>1, <3>3
    <3>4. CASE u = t /\ Second[g] = x
      BY <2>1, <2>2, <2>4, <3>1, <3>2, <3>4
    <3>5. CASE u # t \/ (g # x /\ Second[g] # x)
      BY <2>1, <2>2, <3>1, <3>2, <3>5
    <3> QED
      BY <3>3, <3>4, <3>5
  <2> QED
    BY <2>3, <2>4, <2>5
<1> QED
  BY <1>6, <1>7, <1>9

\* report: what follows the test, and what the handler does.
LEMMA HandlerKeeps ==
    ASSUME LockInv, NEW t \in Threads, Test(t) \/ CallHandler(t)
    PROVE  LockInv'
<1> USE DEF LockInv
<1>1. At(t, "test") \/ At(t, "call")
  BY DEF Test, CallHandler
<1>2. todo[t] \in Seq(Ops) /\ Fine(todo[t]) /\ Len(todo[t]) > 0 /\ todo[t][1] \in Outside
  <2>1. PICK op \in {"test", "call"} : At(t, op)
    BY <1>1
  <2> DEFINE x == Op(t)[2]
  <2>2. todo[t] \in Seq(Ops) /\ Len(todo[t]) > 0 /\ todo[t][1] = <<op, x>> /\ <<op, x>> \in Ops
    BY <2>1, AtHead
  <2>3. x = ""
    BY <2>2, OpKinds
  <2> HIDE DEF x
  <2> QED
    BY <2>2, <2>3 DEF Outside, Do, HoldInv
<1>3. Good(Tail(todo[t])) /\ \A m \in Mutexes : ~Held(todo[t], 0, m)
  BY <1>2, RestIsGood
<1>4. PICK s : Good(s) /\ todo' = [todo EXCEPT ![t] = s]
  <2>1. CASE Test(t)
    <3> DEFINE told == IF mine[t]["handler"] = <<>> \/ inHandler[t] THEN <<>> ELSE Telling
    <3>1. todo' = [todo EXCEPT ![t] = told \o Tail(todo[t])]
      BY <2>1 DEF Test
    <3>2. Good(told)
      BY ReportIsGood, NothingIsInner DEF Inner
    <3> HIDE DEF told
    <3>3. Good(told \o Tail(todo[t]))
      BY <1>3, <3>2, Join
    <3> QED
      BY <3>1, <3>3
  <2>2. CASE CallHandler(t)
    <3>1. PICK script \in {<<>>} \cup UNION {Scripts(call) : call \in HandlerCalls} :
             todo' = [todo EXCEPT ![t] = script \o <<Do("return")>> \o Tail(todo[t])]
      BY <2>2 DEF CallHandler
    <3>2. Good(script)
      BY NothingIsInner, ScriptsAreGood DEF Inner
    <3>3. Good(script \o <<Do("return")>>)
      BY <3>2, Join, OneIsGood
    <3>4. Good((script \o <<Do("return")>>) \o Tail(todo[t]))
      BY <1>3, <3>3, Join
    <3> QED
      BY <3>1, <3>4
  <2> QED
    BY <2>1, <2>2
<1>5. UNCHANGED <<holder, made, shared, mine>>
  BY DEF Test, CallHandler, lockVars, fieldVars
<1>6. ScriptTypes'
  BY <1>4, <1>5 DEF ScriptTypes, Good
<1>7. HoldInv'
  BY <1>3, <1>4, <1>5, HoldRenewed
<1>8. PairInv'
  <2>1. \A a, b, c, d : <<a, b>> = <<c, d>> => a = c /\ b = d
    OBVIOUS
  <2>2. \A op \in {"set", "clear", "get"} : \A f \in Firsts : ~HeadIs(t, <<op, Second[f]>>)
    BY <1>2, <2>1 DEF HeadIs, Outside, Do
  <2> QED
    BY <1>4, <1>5, <2>2, PairsRenewed
<1> QED
  BY <1>6, <1>7, <1>8

LEMMA LockInvStep == LockInv /\ [Next]_vars => LockInv'
<1> SUFFICES ASSUME LockInv, [Next]_vars PROVE LockInv'
  OBVIOUS
<1>1. CASE UNCHANGED vars
  BY <1>1 DEF vars, lockVars, fieldVars, LockInv, ScriptTypes, HoldInv, PairInv, HeadIs, Id
<1>2. ASSUME NEW t \in Threads, Call(t) \/ Step(t) PROVE LockInv'
  BY <1>2, CallKeeps, OtherKeeps, StoreKeeps, LoadKeeps, HandlerKeeps DEF Step
<1> QED
  BY <1>1, <1>2 DEF Next

LEMMA LockInvHolds == Spec => []LockInv
  BY LockInvInit, LockInvStep, PTL DEF Spec

\* A handler is called with the user pointer it was installed with, and an error is read
\* with its own detail, for any threads, calls, handlers that call back, and forks.
THEOREM PairsCorrect == Spec => []PairsAreWhole
<1>1. LockInv => PairsAreWhole
  <2> SUFFICES ASSUME LockInv, NEW t \in Threads, holder["err"] # t
               PROVE  /\ mine[t]["handler"] = mine[t]["user"]
                      /\ mine[t]["code"] = mine[t]["detail"]
    BY DEF PairsAreWhole
  <2>1. \A f \in Firsts : mine[t][f] = mine[t][Second[f]]
    BY AtPair DEF LockInv, PairInv
  <2> QED
    BY <2>1 DEF Firsts, Second
<1> QED
  BY <1>1, LockInvHolds, PTL

\* The user's handler never runs with a mutex of the library held, whatever reports.
THEOREM HandlersCorrect == Spec => []HandlersHoldNothing
<1>1. LockInv => HandlersHoldNothing
  <2> SUFFICES ASSUME LockInv, NEW t \in Threads, At(t, "call") \/ At(t, "return"), NEW m \in Mutexes
               PROVE  holder[m] # t
    BY DEF HandlersHoldNothing
  <2>1. PICK op \in {"call", "return"} : At(t, op)
    OBVIOUS
  <2> DEFINE x == Op(t)[2]
  <2>2. todo[t] \in Seq(Ops) /\ Len(todo[t]) > 0 /\ todo[t][1] = <<op, x>> /\ <<op, x>> \in Ops
    BY <2>1, AtHead DEF LockInv
  <2>3. x = ""
    BY <2>2, OpKinds
  <2> HIDE DEF x
  <2>4. todo[t][1] \in Outside /\ Fine(todo[t])
    BY <2>2, <2>3 DEF Outside, Do, HoldInv, LockInv
  <2>5. ~Held(todo[t], 0, m)
    BY <2>2, <2>4, RestIsGood
  <2> QED
    BY <2>5 DEF LockInv, HoldInv
<1> QED
  BY <1>1, LockInvHolds, PTL

=============================================================================
