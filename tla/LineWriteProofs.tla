--------------------------- MODULE LineWriteProofs ---------------------------
(***************************************************************************)
(* Theorems about the lines and the pieces of LineWrite, for any patterns, *)
(* messages, sizes and number of threads, lines and reloads.               *)
(***************************************************************************)
EXTENDS LineWrite, FiniteSetTheorems, SequenceTheorems, WellFoundedInduction, TLAPS

Steps   == {"idle", "clock", "file", "sync", "colour", "stdout"}
Stores  == {"no", "flush", "colour", "format"}
Asked   == Configurations \cup Loaded
Times   == 0 .. MaxClock
States  == [settings : Asked, start : Times]

\* What a pattern with its toggles, a token and a byte of a line consist of: no
\* newline comes out of a message.
Letters == Characters \cup {"%", "t", "e", " "}
Fields  == {"Level", "Func", "Msg", "Module", "Time", "Elapsed", "Pid", "Tid", "File", "Line"}
Token   == ({"Literal"} \X Letters) \cup (Fields \X {""})
Levels  == {r.level : r \in Records}
Byte    == ({"time", "elapsed"} \X Nat) \cup ({"field"} \X Fields)
           \cup ({"char"} \X (Letters \cup {".", "\n"}))
           \cup ({"level", "colour"} \X (Levels \cup {"reset"}))
           \cup ({"msg"} \X ((Characters \cup {".", " "}) \ {"\n"}))
Lines   == Seq(Byte)

Taken   == [level : Levels, msg : Seq((Characters \cup {".", " "}) \ {"\n"}), now : Times]
Ids     == Threads \X Nat
Piece4  == Ids \X Nat \X Nat \X Nat

Types ==
    /\ settings \in Asked /\ start \in Times /\ previous \in States
    /\ storing \in Stores
    /\ pc \in [Threads -> Steps]
    /\ lines \in [Threads -> Nat]
    /\ spec \in [Threads -> Nat]
    /\ rec \in [Threads -> Taken \cup {<<>>}]
    /\ line \in [Threads -> Lines]
    /\ done \in [Threads -> Nat]
    /\ out \in [Sinks -> Seq(Piece4)]
    /\ durable \in Nat /\ drops \in Nat /\ resets \in Nat
    /\ short \subseteq Sinks \X Ids
    /\ inForce \in [Threads -> SUBSET States]

SpecSet == {Parsed(s, st) : s \in Asked, st \in Times}

\* The specs are those of settings, and of the settings stored so far.
Published ==
    /\ specs \in Seq(SpecSet)
    /\ cache \subseteq 1 .. Len(specs)
    /\ fmt \in 1 .. Len(specs)
    /\ storing = "no" => specs[fmt] = Parsed(settings, start)
    /\ storing \in {"no", "format"} => colour = settings.colour
    /\ flush = IF storing = "flush" THEN previous.settings.flush ELSE settings.flush

\* A call under way has a spec and a record.
Held ==
    \A t \in Threads : Busy(t) =>
        /\ spec[t] \in 1 .. Len(specs)
        /\ rec[t] \in Taken
        /\ InForce \subseteq inForce[t]

\* A line being written.
Shaped ==
    \A t \in Threads : pc[t] \in Sinks =>
        /\ Len(line[t]) \in 1 .. MaxLine
        /\ Last(line[t]) = NewLine
        /\ done[t] < Len(line[t])

Unsplit ==
    \A t \in Threads : pc[t] \in Sinks /\ done[t] > 0 => <<pc[t], Id(t)>> \in short

\* A call has a line, and no piece is of a line that comes later.
Logging ==
    /\ \A t \in Threads : Busy(t) => lines[t] > 0
    /\ \A sink \in Sinks : \A i \in DOMAIN out[sink] :
          LET id == out[sink][i][1] IN id[2] \in 1 .. lines[id[1]]

\* The outputs a call has not come to.
Ahead(t) ==
    IF pc[t] = "clock" THEN Sinks
    ELSE IF pc[t] \in {"file", "sync", "colour"} THEN {"stdout"} ELSE {}

\* What a call has written of its line.
Progress ==
    \A t \in Threads :
        /\ \A sink \in Ahead(t) : Places(sink, Id(t)) = {}
        /\ pc[t] \in Sinks =>
             LET p == Places(pc[t], Id(t))
             IN IF done[t] = 0 THEN p = {}
                ELSE \E j \in p : /\ \A k \in p : k <= j
                                  /\ out[pc[t]][j][3] = done[t]
                                  /\ out[pc[t]][j][4] = Len(line[t])

\* The lines that a call has given up, on an output.
Past(sink, id) ==
    \/ id[2] < lines[id[1]]
    \/ pc[id[1]] = "idle"
    \/ sink = "file" /\ pc[id[1]] \in {"sync", "colour", "stdout"}
Lost == {o \in Sinks \X Logged : Past(o[1], o[2]) /\ ~Complete(o[1], o[2])}

Contiguous == \A sink \in Sinks : \A i \in DOMAIN out[sink] : GoesOn(sink, i)

----------------------------------------------------------------------------
(* Facts about sequences.                                                  *)

\* What holds of 0 and passes from a number to the next holds up to any bound.
LEMMA UpTo ==
    ASSUME NEW n \in Nat, NEW s, 0 \in s, \A k \in 0 .. n - 1 : k \in s => k + 1 \in s
    PROVE  \A k \in 0 .. n : k \in s
<1> DEFINE less == {p \in Nat \X Nat : p[1] < p[2]}
           bad  == {k \in 0 .. n : k \notin s}
<1>1. IsWellFoundedOn(less, Nat)
  BY NatLessThanWellFounded DEF OpToRel
<1>2. \A i, j \in Nat : <<j, i>> \in less <=> j < i
  OBVIOUS
<1>3. SUFFICES ASSUME bad # {} PROVE FALSE
  OBVIOUS
<1> HIDE DEF less
<1>4. bad \subseteq Nat
  OBVIOUS
<1>5. PICK k \in bad : \A j \in bad : <<j, k>> \notin less
  <2> HIDE DEF bad
  <2> QED
    BY <1>1, <1>3, <1>4, WFMin
<1>6. k # 0 /\ k - 1 \in 0 .. n - 1
  OBVIOUS
<1>7. k \in Nat /\ k - 1 \in Nat /\ <<k - 1, k>> \in less
  BY <1>2, <1>6
<1>8. k - 1 \notin bad
  BY <1>5, <1>7
<1> QED
  BY <1>6, <1>8

\* A line is built token by token.
LEMMA LineGrows ==
    ASSUME NEW sp, NEW r, NEW colored, NEW n \in Nat, n = Len(sp.tokens)
    PROVE  /\ LineUpTo(sp, r, colored)[0] = [out |-> <<>>, trunc |-> FALSE]
           /\ \A k \in 1 .. n :
                LineUpTo(sp, r, colored)[k] = Put(LineUpTo(sp, r, colored)[k - 1],
                                                  Bytes(sp, r, colored, sp.tokens[k]))
<1> DEFINE empty       == [out |-> <<>>, trunc |-> FALSE]
           body(f, k)  == IF k = 0 THEN empty
                          ELSE Put(f[k - 1], Bytes(sp, r, colored, sp.tokens[k]))
           is(f, m)    == f = [k \in 0 .. m |-> body(f, k)]
           s           == {m \in 0 .. n : \E f : is(f, m)}
<1>1. LineUpTo(sp, r, colored) = CHOOSE f : is(f, n)
  BY DEF LineUpTo
<1>2. 0 \in s
  <2> DEFINE f == [k \in 0 .. 0 |-> empty]
  <2>1. is(f, 0)
    OBVIOUS
  <2>2. \E g : is(g, 0)
    <3> HIDE DEF f, is
    <3> QED
      BY <2>1
  <2> HIDE DEF is
  <2> QED
    BY <2>2
<1>3. ASSUME NEW m \in 0 .. n - 1, m \in s
      PROVE  m + 1 \in s
  <2>1. PICK f : is(f, m)
    BY <1>3
  <2> DEFINE g == [k \in 0 .. m + 1 |-> IF k = m + 1 THEN body(f, m + 1) ELSE f[k]]
  <2>2. ASSUME NEW k \in 0 .. m + 1 PROVE g[k] = body(g, k)
    <3> HIDE DEF empty
    <3>1. CASE k = 0
      BY <2>1, <3>1
    <3>2. CASE k \in 1 .. m + 1
      <4>1. g[k - 1] = f[k - 1]
        BY <3>2
      <4>2. k - 1 \in 0 .. m /\ k # 0
        BY <3>2
      <4>3. CASE k = m + 1
        BY <4>2, <4>3
      <4>4. CASE k # m + 1
        <5>1. k \in 0 .. m /\ g[k] = f[k]
          BY <3>2, <4>4
        <5>2. f[k] = body(f, k)
          <6> HIDE DEF body
          <6> QED
            BY <2>1, <5>1
        <5> QED
          BY <4>1, <4>2, <5>1, <5>2
      <4> QED
        BY <4>3, <4>4
    <3> QED
      BY <3>1, <3>2
  <2>3. is(g, m + 1)
    <3> HIDE DEF body
    <3> QED
      BY <2>2
  <2>4. \E h : is(h, m + 1)
    <3> HIDE DEF g, is
    <3> QED
      BY <2>3
  <2> HIDE DEF is
  <2> QED
    BY <2>4
<1>4. n \in s
  <2> HIDE DEF s
  <2>1. \A k \in 0 .. n : k \in s
    BY <1>2, <1>3, UpTo
  <2> QED
    BY <2>1
<1>5. is(LineUpTo(sp, r, colored), n)
  <2>1. \E f : is(f, n)
    BY <1>4
  <2> HIDE DEF is
  <2> QED
    BY <1>1, <2>1
<1> HIDE DEF body
<1>6. \A k \in 0 .. n : LineUpTo(sp, r, colored)[k] = body(LineUpTo(sp, r, colored), k)
  BY <1>5
<1> QED
  BY <1>6 DEF body

----------------------------------------------------------------------------
(* The tokens of a pattern.                                                *)

LEMMA FieldsAreNamed ==
    ASSUME NEW c \in DOMAIN FieldFor
    PROVE  FieldFor[c] \in Fields
<1>1. c \in {"L", "f", "m", "M", "t", "e", "p", "T", "F", "#"}
  BY DEF FieldFor
<1>2. FieldFor[c] = CASE c = "L" -> "Level"  [] c = "f" -> "Func"    [] c = "m" -> "Msg"
                      [] c = "M" -> "Module" [] c = "t" -> "Time"    [] c = "e" -> "Elapsed"
                      [] c = "p" -> "Pid"    [] c = "T" -> "Tid"     [] c = "F" -> "File"
                      [] c = "#" -> "Line"
  BY <1>1 DEF FieldFor
<1> QED
  BY <1>1, <1>2 DEF Fields

LEMMA ShortSeqs ==
    ASSUME NEW S, NEW x \in S, NEW y \in S
    PROVE  <<x>> \in Seq(S) /\ <<x, y>> \in Seq(S)
OBVIOUS

\* The tokens of pattern p from character i on, when f has those from later ones.
Read(p, f, i) ==
    IF i > Len(p) THEN <<>>
    ELSE IF p[i] # "%" \/ i = Len(p) THEN <<<<"Literal", p[i]>>>> \o f[i + 1]
    ELSE IF p[i + 1] = "%" THEN <<<<"Literal", "%">>>> \o f[i + 2]
    ELSE IF p[i + 1] \in DOMAIN FieldFor
         THEN <<<<FieldFor[p[i + 1]], "">>>> \o f[i + 2]
    ELSE <<<<"Literal", "%">>, <<"Literal", p[i + 1]>>>> \o f[i + 2]

LEMMA ReadsAhead ==
    ASSUME NEW p, NEW n \in Nat, n = Len(p), NEW i \in 1 .. n + 1, NEW f, NEW g,
           \A j \in i + 1 .. n + 1 : f[j] = g[j]
    PROVE  Read(p, f, i) = Read(p, g, i)
<1>1. CASE i = n + 1
  <2>1. i > Len(p)
    BY <1>1
  <2> QED
    BY <2>1 DEF Read
<1>2. CASE i = n
  <2>1. f[i + 1] = g[i + 1]
    BY <1>2
  <2> QED
    BY <1>2, <2>1 DEF Read
<1>3. CASE i < n
  <2>1. f[i + 1] = g[i + 1] /\ f[i + 2] = g[i + 2]
    BY <1>3
  <2> QED
    BY <1>3, <2>1 DEF Read
<1> QED
  BY <1>1, <1>2, <1>3

LEMMA ReadsTokens ==
    ASSUME NEW p \in Seq(Letters), NEW i \in 1 .. Len(p) + 1, NEW f,
           \A j \in i + 1 .. Len(p) + 1 : f[j] \in Seq(Token)
    PROVE  Read(p, f, i) \in Seq(Token)
<1> DEFINE n == Len(p)
<1>1. n \in Nat
  OBVIOUS
<1>2. CASE i = n + 1
  <2>1. i > Len(p)
    BY <1>1, <1>2
  <2> QED
    BY <2>1 DEF Read
<1>3. CASE i # n + 1
  <2>1. p[i] \in Letters /\ (i # n => p[i + 1] \in Letters)
    BY <1>1, <1>3
  <2>2. f[i + 1] \in Seq(Token) /\ (i # n => f[i + 2] \in Seq(Token))
    BY <1>1, <1>3
  <2>3. ~(i > n)
    BY <1>1, <1>3
  <2>4. CASE p[i] # "%" \/ i = n
    <3>1. Read(p, f, i) = <<<<"Literal", p[i]>>>> \o f[i + 1]
      BY <2>3, <2>4 DEF Read
    <3>2. <<<<"Literal", p[i]>>>> \in Seq(Token)
      <4>1. <<"Literal", p[i]>> \in Token
        BY <2>1 DEF Token, Letters
      <4> QED
        BY <4>1, ShortSeqs
    <3> QED
      BY <2>2, <3>1, <3>2
  <2>5. CASE ~(p[i] # "%" \/ i = n) /\ p[i + 1] = "%"
    <3>1. Read(p, f, i) = <<<<"Literal", "%">>>> \o f[i + 2]
      BY <2>3, <2>5 DEF Read
    <3>2. <<<<"Literal", "%">>>> \in Seq(Token)
      <4>1. <<"Literal", "%">> \in Token
        BY DEF Token, Letters
      <4> QED
        BY <4>1, ShortSeqs
    <3> QED
      BY <2>2, <2>5, <3>1, <3>2
  <2>6. CASE ~(p[i] # "%" \/ i = n) /\ p[i + 1] # "%" /\ p[i + 1] \in DOMAIN FieldFor
    <3>1. Read(p, f, i) = <<<<FieldFor[p[i + 1]], "">>>> \o f[i + 2]
      BY <2>3, <2>6 DEF Read
    <3>2. <<<<FieldFor[p[i + 1]], "">>>> \in Seq(Token)
      <4>1. <<FieldFor[p[i + 1]], "">> \in Token
        BY <2>6, FieldsAreNamed DEF Token, Letters
      <4> QED
        BY <4>1, ShortSeqs
    <3>3. f[i + 2] \in Seq(Token)
      BY <2>2, <2>6
    <3> QED
      BY <3>1, <3>2, <3>3, ConcatProperties
  <2>7. CASE ~(p[i] # "%" \/ i = n) /\ p[i + 1] # "%" /\ p[i + 1] \notin DOMAIN FieldFor
    <3>1. Read(p, f, i) = <<<<"Literal", "%">>, <<"Literal", p[i + 1]>>>> \o f[i + 2]
      BY <2>3, <2>7 DEF Read
    <3>2. <<<<"Literal", "%">>, <<"Literal", p[i + 1]>>>> \in Seq(Token)
      <4>1. <<"Literal", "%">> \in Token /\ <<"Literal", p[i + 1]>> \in Token
        BY <2>1, <2>7 DEF Token, Letters
      <4> QED
        BY <4>1, ShortSeqs
    <3> QED
      BY <2>2, <2>7, <3>1, <3>2
  <2> QED
    BY <2>4, <2>5, <2>6, <2>7
<1> QED
  BY <1>2, <1>3

\* f has the tokens of p from every character from i on.
Scanned(p, f, i) == f = [j \in i .. Len(p) + 1 |-> Read(p, f, j)]

LEMMA ScanExists ==
    ASSUME NEW p, NEW n \in Nat, n = Len(p)
    PROVE  \E f : Scanned(p, f, 1)
<1> DEFINE s == {k \in 0 .. n : \E f : Scanned(p, f, n + 1 - k)}
<1>1. 0 \in s
  <2> DEFINE f == [j \in n + 1 .. n + 1 |-> <<>>]
  <2>1. \A j \in n + 1 .. n + 1 : Read(p, f, j) = <<>>
    BY DEF Read
  <2>2. Scanned(p, f, n + 1)
    BY <2>1 DEF Scanned
  <2> HIDE DEF f
  <2>3. n + 1 - 0 = n + 1
    OBVIOUS
  <2> QED
    BY <2>2, <2>3
<1>2. ASSUME NEW k \in 0 .. n - 1, k \in s
      PROVE  k + 1 \in s
  <2> DEFINE i == n - k
  <2>1. i \in 1 .. n /\ n + 1 - k = i + 1 /\ n + 1 - (k + 1) = i
    OBVIOUS
  <2>2. PICK f : Scanned(p, f, i + 1)
    BY <1>2, <2>1
  <2> HIDE DEF i
  <2> DEFINE g == [j \in i .. n + 1 |-> IF j = i THEN Read(p, f, i) ELSE f[j]]
  <2>3. \A j \in i + 1 .. n + 1 : f[j] = g[j] /\ f[j] = Read(p, f, j)
    <3>1. \A j \in i + 1 .. n + 1 : j \in i .. n + 1 /\ j # i
      BY <2>1
    <3>2. \A j \in i + 1 .. n + 1 : f[j] = Read(p, f, j)
      BY <2>2 DEF Scanned
    <3> QED
      BY <3>1, <3>2
  <2>4. ASSUME NEW j \in i .. n + 1 PROVE g[j] = Read(p, g, j)
    <3>1. j \in 1 .. n + 1 /\ \A h \in j + 1 .. n + 1 : f[h] = g[h]
      <4> HIDE DEF g
      <4> QED
        BY <2>1, <2>3
    <3>2. Read(p, f, j) = Read(p, g, j)
      <4> HIDE DEF g
      <4> QED
        BY <3>1, ReadsAhead
    <3>3. g[j] = Read(p, f, j)
      <4>1. CASE j = i
        BY <4>1
      <4>2. CASE j # i
        <5>1. j \in i + 1 .. n + 1
          BY <2>1, <4>2
        <5> HIDE DEF g
        <5> QED
          BY <2>3, <5>1
      <4> QED
        BY <4>1, <4>2
    <3> QED
      BY <3>2, <3>3
  <2>5. Scanned(p, g, i)
    BY <2>4 DEF Scanned
  <2> HIDE DEF g
  <2> QED
    BY <2>1, <2>5
<1>3. n \in s
  <2> HIDE DEF s
  <2> QED
    BY <1>1, <1>2, UpTo
<1>4. n + 1 - n = 1
  OBVIOUS
<1> QED
  BY <1>3, <1>4

\* A pattern is read from its end.
LEMMA PatternsScanned ==
    ASSUME NEW p \in Seq(Letters)
    PROVE  \E f : /\ Tokens(p) = f[1]
                  /\ \A j \in 1 .. Len(p) + 1 : f[j] = Read(p, f, j) /\ f[j] \in Seq(Token)
<1> DEFINE n == Len(p)
           f == CHOOSE f : Scanned(p, f, 1)
<1>1. n \in Nat
  OBVIOUS
<1>2. Tokens(p) = f[1]
  BY DEF Tokens, Scanned, Read
<1>3. Scanned(p, f, 1)
  BY <1>1, ScanExists
<1> HIDE DEF f
<1>4. \A j \in 1 .. n + 1 : f[j] = Read(p, f, j)
  BY <1>3 DEF Scanned
<1> DEFINE t == {k \in 0 .. n : \A j \in n + 1 - k .. n + 1 : f[j] \in Seq(Token)}
<1>5. 0 \in t
  <2>1. f[n + 1] = <<>>
    <3>1. n + 1 > Len(p) /\ f[n + 1] = Read(p, f, n + 1)
      BY <1>1, <1>4
    <3> QED
      BY <3>1 DEF Read
  <2>2. \A j \in n + 1 - 0 .. n + 1 : j = n + 1
    BY <1>1
  <2> HIDE DEF n
  <2>3. 0 \in 0 .. n
    BY <1>1
  <2>4. \A j \in n + 1 - 0 .. n + 1 : f[j] \in Seq(Token)
    <3>1. <<>> \in Seq(Token)
      OBVIOUS
    <3> QED
      BY <2>1, <2>2, <3>1
  <2> QED
    BY <2>3, <2>4
<1>6. ASSUME NEW k \in 0 .. n - 1, k \in t
      PROVE  k + 1 \in t
  <2> DEFINE i == n - k
  <2>1. i \in 1 .. n + 1 /\ n + 1 - k = i + 1 /\ n + 1 - (k + 1) = i /\ k + 1 \in 0 .. n
    BY <1>1
  <2>2. \A j \in i + 1 .. n + 1 : f[j] \in Seq(Token)
    BY <1>6, <2>1
  <2> HIDE DEF i
  <2>3. f[i] \in Seq(Token)
    BY <1>4, <2>1, <2>2, ReadsTokens
  <2>4. \A j \in i .. n + 1 : f[j] \in Seq(Token)
    <3> HIDE DEF n
    <3> QED
      BY <1>1, <2>1, <2>2, <2>3
  <2> HIDE DEF n
  <2> QED
    BY <2>1, <2>4
<1>7. n \in t
  <2> HIDE DEF t, n
  <2>1. \A k \in 0 .. n - 1 : k \in t => k + 1 \in t
    BY <1>6
  <2>2. \A k \in 0 .. n : k \in t
    BY <1>1, <1>5, <2>1, UpTo, Zenon
  <2> QED
    BY <1>1, <2>2
<1>8. n + 1 - n = 1
  BY <1>1
<1>9. \A j \in 1 .. n + 1 : f[j] \in Seq(Token)
  <2> HIDE DEF n
  <2> QED
    BY <1>1, <1>7, <1>8
<1> QED
  BY <1>2, <1>4, <1>9

LEMMA TokensRead ==
    ASSUME NEW p \in Seq(Letters)
    PROVE  Tokens(p) \in Seq(Token)
<1>1. PICK f : /\ Tokens(p) = f[1]
               /\ \A j \in 1 .. Len(p) + 1 : f[j] \in Seq(Token)
  BY PatternsScanned
<1>2. 1 \in 1 .. Len(p) + 1
  OBVIOUS
<1> QED
  BY <1>1, <1>2

----------------------------------------------------------------------------
(* The line of a record.                                                   *)

\* A message is cut, and its line breaks become blanks.
Said == (Characters \cup {".", " "}) \ {"\n"}

LEMMA CutIsSaid ==
    ASSUME NEW msg \in Seq(Characters)
    PROVE  CutMessage(msg) \in Seq(Said)
<1> DEFINE S   == Characters \cup {"."}
           cut == IF Len(msg) < MaxMsg THEN msg ELSE SubSeq(msg, 1, MaxMsg - 4) \o Ellipsis
<1>1. cut \in Seq(S)
  <2>1. msg \in Seq(S)
    OBVIOUS
  <2>2. CASE Len(msg) < MaxMsg
    BY <2>1, <2>2
  <2>3. CASE ~(Len(msg) < MaxMsg)
    <3>1. Ellipsis \in Seq(S)
      BY DEF Ellipsis
    <3>2. SubSeq(msg, 1, MaxMsg - 4) \in Seq(S)
      <4>1. \A i \in 1 .. MaxMsg - 4 : msg[i] \in S
        BY <2>1, <2>3, SizesAssumption
      <4> QED
        BY <2>1, <4>1, SizesAssumption
    <3> QED
      BY <2>3, <3>1, <3>2, ConcatProperties
  <2> QED
    BY <2>2, <2>3
<1> HIDE DEF cut
<1>2. CutMessage(msg) = [i \in DOMAIN cut |-> IF cut[i] \in {"\n", "\r"} THEN " " ELSE cut[i]]
  BY DEF CutMessage, cut
<1>3. \A i \in 1 .. Len(cut) : (IF cut[i] \in {"\n", "\r"} THEN " " ELSE cut[i]) \in Said
  <2> SUFFICES ASSUME NEW i \in 1 .. Len(cut)
               PROVE  (IF cut[i] \in {"\n", "\r"} THEN " " ELSE cut[i]) \in Said
    OBVIOUS
  <2>1. cut[i] \in S
    BY <1>1
  <2>2. " " \in Said
    BY DEF Said
  <2>3. cut[i] # "\n" => cut[i] \in Said
    BY <2>1 DEF Said
  <2> QED
    BY <2>2, <2>3
<1>4. DOMAIN cut = 1 .. Len(cut) /\ Len(cut) \in Nat
  BY <1>1
<1> DEFINE clean(c) == IF c \in {"\n", "\r"} THEN " " ELSE c
<1>5. [i \in 1 .. Len(cut) |-> clean(cut[i])] \in Seq(Said)
  <2>1. \A i \in 1 .. Len(cut) : clean(cut[i]) \in Said
    BY <1>3
  <2> HIDE DEF clean
  <2> QED
    BY <1>4, <2>1
<1> QED
  BY <1>2, <1>4, <1>5

\* A pattern with its toggles is a text too, and its spec has tokens.
LEMMA ToggledIsText ==
    ASSUME NEW s \in Asked
    PROVE  Toggled(s.format, s.time, s.elapsed) \in Seq(Letters)
<1> DEFINE text == s.format
           p == Toggled(text, s.time, s.elapsed)
<1>1. text \in Seq(Letters)
  <2>1. text \in Seq(Characters) /\ Characters \subseteq Letters
    BY TextsAssumption DEF Asked, Letters
  <2> QED
    BY <2>1
<1> DEFINE t == IF s.time /\ ~Has(text, "t") THEN <<"%", "t", " ">> ELSE <<>>
           e == IF s.elapsed /\ ~Has(text, "e") THEN <<"%", "e", " ">> ELSE <<>>
<1>2. <<"%", "t", " ">> \in Seq(Letters) /\ <<"%", "e", " ">> \in Seq(Letters)
      /\ <<>> \in Seq(Letters)
  BY DEF Letters
<1>3. t \in Seq(Letters) /\ e \in Seq(Letters)
  BY <1>2
<1>4. p = t \o e \o text
  BY DEF Toggled
<1> HIDE DEF t, e, p, text
<1>5. p \in Seq(Letters)
  BY <1>1, <1>3, <1>4, ConcatProperties
<1> QED
  BY <1>5 DEF p, text

LEMMA SpecsAreParsed ==
    ASSUME NEW s \in Asked, NEW st \in Times
    PROVE  /\ Parsed(s, st).key = Key(s, st)
           /\ Parsed(s, st).format.tokens \in Seq(Token)
           /\ Parsed(s, st).format.start = st
<1> DEFINE p == Toggled(s.format, s.time, s.elapsed)
<1>1. p \in Seq(Letters)
  BY ToggledIsText
<1>2. Tokens(p) \in Seq(Token)
  <2> HIDE DEF p
  <2> QED
    BY <1>1, TokensRead
<1> QED
  BY <1>2 DEF Parsed, ParseFormat

LEMMA TokensShow ==
    ASSUME NEW sp, sp.start \in Times, NEW r \in Taken, NEW colored, NEW token \in Token
    PROVE  Bytes(sp, r, colored, token) \in Seq(Byte)
<1> DEFINE v == Bytes(sp, r, colored, token)
<1>1. CASE token[1] = "Literal"
  <2>1. v = <<<<"char", token[2]>>>>
    BY <1>1 DEF Bytes
  <2>2. token[2] \in Letters
    BY <1>1 DEF Token, Fields
  <2>3. <<"char", token[2]>> \in Byte
    BY <2>2 DEF Byte
  <2> QED
    BY <2>1, <2>3
<1>2. CASE token[1] = "Msg"
  <2>1. v = [i \in DOMAIN r.msg |-> <<"msg", r.msg[i]>>]
    BY <1>2 DEF Bytes, Chars
  <2>2. r.msg \in Seq(Said)
    BY DEF Taken, Said
  <2>3. DOMAIN r.msg = 1 .. Len(r.msg) /\ Len(r.msg) \in Nat
    BY <2>2
  <2>4. ASSUME NEW i \in 1 .. Len(r.msg) PROVE <<"msg", r.msg[i]>> \in Byte
    <3>1. r.msg[i] \in Said
      BY <2>2
    <3> QED
      BY <3>1 DEF Byte, Said
  <2> QED
    BY <2>1, <2>3, <2>4
<1>3. CASE token[1] = "Level"
  <2>1. v = LevelTag(r.level, colored)
    BY <1>3 DEF Bytes
  <2>2. <<"colour", r.level>> \in Byte /\ <<"level", r.level>> \in Byte
        /\ <<"colour", "reset">> \in Byte
    BY DEF Byte, Taken
  <2>3. <<<<"colour", r.level>>, <<"level", r.level>>, <<"colour", "reset">>>> \in Seq(Byte)
        /\ <<<<"level", r.level>>>> \in Seq(Byte)
    BY <2>2
  <2> QED
    BY <2>1, <2>3 DEF LevelTag
<1>4. CASE token[1] = "Time"
  <2>1. v = <<<<"time", r.now>>>>
    BY <1>4 DEF Bytes
  <2>2. r.now \in Nat
    <3>1. r.now \in Times
      BY DEF Taken
    <3> QED
      BY <3>1, BoundsAssumption DEF Times
  <2>3. <<"time", r.now>> \in Byte
    BY <2>2 DEF Byte
  <2> QED
    BY <2>1, <2>3
<1>5. CASE token[1] = "Elapsed"
  <2>1. v = <<<<"elapsed", Elapsed(sp.start, r.now)>>>>
    BY <1>5 DEF Bytes
  <2>2. Elapsed(sp.start, r.now) \in Nat
    <3>1. r.now \in Times
      BY DEF Taken
    <3>2. r.now \in Nat /\ sp.start \in Nat
      BY <3>1, BoundsAssumption DEF Times
    <3> QED
      BY <3>2 DEF Elapsed
  <2>3. <<"elapsed", Elapsed(sp.start, r.now)>> \in Byte
    BY <2>2 DEF Byte
  <2> QED
    BY <2>1, <2>3
<1>6. CASE token[1] \notin {"Literal", "Msg", "Level", "Time", "Elapsed"}
  <2>1. v = <<<<"field", token[1]>>>>
    BY <1>6 DEF Bytes
  <2>2. <<"field", token[1]>> \in Byte
    BY <1>6 DEF Byte, Token
  <2> QED
    BY <2>1, <2>2
<1> QED
  BY <1>1, <1>2, <1>3, <1>4, <1>5, <1>6

\* The bytes before the newline.
Partial == [out : {b \in Seq(Byte) : Len(b) <= MaxLine - 1}, trunc : BOOLEAN]

LEMMA PutKeepsRoom ==
    ASSUME NEW acc \in Partial, NEW bytes \in Seq(Byte)
    PROVE  Put(acc, bytes) \in Partial
<1> DEFINE room == MaxLine - 1 - Len(acc.out)
<1>1. acc.out \in Seq(Byte) /\ Len(acc.out) <= MaxLine - 1
  BY DEF Partial
<1>2. room \in Nat /\ Len(bytes) \in Nat /\ Len(acc.out) \in Nat
  BY <1>1, SizesAssumption
<1>3. CASE acc.trunc
  BY <1>3 DEF Put
<1>4. CASE ~acc.trunc /\ Len(bytes) <= room
  <2>1. Put(acc, bytes) = [acc EXCEPT !.out = @ \o bytes]
    BY <1>4 DEF Put
  <2>2. acc.out \o bytes \in Seq(Byte) /\ Len(acc.out \o bytes) = Len(acc.out) + Len(bytes)
    BY <1>1, ConcatProperties
  <2>3. Len(acc.out \o bytes) <= MaxLine - 1
    BY <1>2, <1>4, <2>2, SizesAssumption
  <2> QED
    BY <2>1, <2>2, <2>3 DEF Partial
<1>5. CASE ~acc.trunc /\ ~(Len(bytes) <= room)
  <2> DEFINE cut == SubSeq(bytes, 1, room)
  <2>1. Put(acc, bytes) = [out |-> acc.out \o cut, trunc |-> TRUE]
    BY <1>5 DEF Put
  <2>2. cut \in Seq(Byte) /\ Len(cut) = room
    <3>1. \A i \in 1 .. room : bytes[i] \in Byte
      BY <1>2, <1>5
    <3> HIDE DEF room
    <3> QED
      BY <1>2, <3>1
  <2> HIDE DEF cut
  <2>3. acc.out \o cut \in Seq(Byte) /\ Len(acc.out \o cut) = Len(acc.out) + Len(cut)
    BY <1>1, <2>2, ConcatProperties
  <2>4. Len(acc.out \o cut) <= MaxLine - 1
    BY <1>2, <2>2, <2>3, SizesAssumption
  <2> QED
    BY <2>1, <2>3, <2>4 DEF Partial
<1> QED
  BY <1>3, <1>4, <1>5

\* Every line fits, has its bytes from the record, and ends with its newline.
LEMMA LineIsShaped ==
    ASSUME NEW sp, sp.start \in Times, sp.tokens \in Seq(Token), NEW r \in Taken, NEW colored
    PROVE  LET l == BuildLine(sp, r, colored)
           IN l \in Lines /\ Len(l) \in 1 .. MaxLine /\ l[Len(l)] = NewLine
<1> DEFINE n == Len(sp.tokens)
           f == LineUpTo(sp, r, colored)
<1>1. n \in Nat
  OBVIOUS
<1>2. /\ f[0] = [out |-> <<>>, trunc |-> FALSE]
      /\ \A k \in 1 .. n : f[k] = Put(f[k - 1], Bytes(sp, r, colored, sp.tokens[k]))
  BY <1>1, LineGrows
<1>3. \A k \in 1 .. n : sp.tokens[k] \in Token
  OBVIOUS
<1> HIDE DEF f, n
<1>4. f[n] \in Partial
  <2> DEFINE s == {k \in 0 .. n : f[k] \in Partial}
  <2>1. 0 \in s
    <3>1. <<>> \in Seq(Byte) /\ Len(<<>>) <= MaxLine - 1
      BY SizesAssumption
    <3>2. [out |-> <<>>, trunc |-> FALSE] \in Partial
      BY <3>1 DEF Partial
    <3>3. f[0] \in Partial
      BY <1>2, <3>2
    <3> QED
      BY <1>1, <3>3
  <2>2. ASSUME NEW k \in 0 .. n - 1, k \in s
        PROVE  k + 1 \in s
    <3>1. k + 1 \in 1 .. n /\ k + 1 - 1 = k
      BY <1>1
    <3>2. f[k + 1] = Put(f[k], Bytes(sp, r, colored, sp.tokens[k + 1]))
      BY <1>2, <3>1
    <3>3. Bytes(sp, r, colored, sp.tokens[k + 1]) \in Seq(Byte)
      BY <1>3, <3>1, TokensShow
    <3>4. f[k + 1] \in Partial
      BY <2>2, <3>2, <3>3, PutKeepsRoom
    <3> QED
      BY <1>1, <3>1, <3>4
  <2>3. \A k \in 0 .. n - 1 : k \in s => k + 1 \in s
    <3> HIDE DEF s
    <3> QED
      BY <2>2
  <2>4. \A k \in 0 .. n : k \in s
    <3> HIDE DEF s
    <3> QED
      BY <1>1, <2>1, <2>3, UpTo, Zenon
  <2> QED
    BY <1>1, <2>4
<1> DEFINE b    == f[n].out
           kept == IF Len(b) > MaxLine - 4 THEN MaxLine - 4 ELSE Len(b)
           dots == Chars("char", Ellipsis)
           l    == BuildLine(sp, r, colored)
<1>5. l = IF f[n].trunc THEN SubSeq(b, 1, kept) \o dots \o <<NewLine>> ELSE b \o <<NewLine>>
  BY DEF BuildLine, f, n
<1>6. b \in Seq(Byte) /\ Len(b) \in Nat /\ Len(b) <= MaxLine - 1
  BY <1>4 DEF Partial
<1>7. <<NewLine>> \in Seq(Byte) /\ Len(<<NewLine>>) = 1 /\ <<NewLine>>[1] = NewLine
  <2>1. NewLine \in Byte
    BY DEF NewLine, Byte
  <2> QED
    BY <2>1
<1>8. dots \in Seq(Byte) /\ Len(dots) = 3
  <2>1. DOMAIN Ellipsis = 1 .. 3 /\ \A i \in 1 .. 3 : Ellipsis[i] = "."
    BY DEF Ellipsis
  <2>2. dots = [i \in 1 .. 3 |-> <<"char", ".">>]
    BY <2>1 DEF Chars
  <2>3. <<"char", ".">> \in Byte
    BY DEF Byte
  <2> HIDE DEF dots
  <2> QED
    BY <2>2, <2>3
<1>9. /\ SubSeq(b, 1, kept) \in Seq(Byte) /\ Len(SubSeq(b, 1, kept)) = kept
      /\ kept \in 0 .. MaxLine - 4
  <2>1. kept \in 0 .. MaxLine - 4 /\ kept <= Len(b)
    BY <1>6, SizesAssumption
  <2> HIDE DEF b, kept
  <2>2. \A i \in 1 .. kept : b[i] \in Byte
    BY <1>6, <2>1
  <2> QED
    BY <1>6, <2>1, <2>2, SizesAssumption
<1> DEFINE text == IF f[n].trunc THEN SubSeq(b, 1, kept) \o dots ELSE b
<1>10. text \in Seq(Byte) /\ Len(text) \in Nat /\ Len(text) <= MaxLine - 1
  <2> HIDE DEF b, kept, dots
  <2>1. CASE f[n].trunc
    <3> DEFINE c == SubSeq(b, 1, kept)
    <3>1. c \o dots \in Seq(Byte) /\ Len(c \o dots) = Len(c) + Len(dots)
      <4> HIDE DEF c
      <4> QED
        BY <1>8, <1>9, ConcatProperties DEF c
    <3>2. Len(c \o dots) = kept + 3
      BY <1>8, <1>9, <3>1
    <3> QED
      BY <1>9, <2>1, <3>1, <3>2, SizesAssumption
  <2>2. CASE ~f[n].trunc
    BY <1>6, <2>2
  <2> QED
    BY <2>1, <2>2
<1>11. l = text \o <<NewLine>>
  BY <1>5
<1> HIDE DEF text, l
<1>12. /\ l \in Seq(Byte) /\ Len(l) = Len(text) + 1
       /\ l[Len(text) + 1] = NewLine
  BY <1>7, <1>10, <1>11, ConcatProperties
<1> QED
  BY <1>10, <1>12, SizesAssumption DEF l, Lines

----------------------------------------------------------------------------
(* What is published, and what a call holds.                               *)

Shape == Types /\ Published /\ Held /\ Shaped

LEMMA InitShape == Init => Shape
<1> SUFFICES ASSUME Init PROVE Shape
  OBVIOUS
<1>1. settings \in Asked /\ start = 0 /\ 0 \in Times
  BY BoundsAssumption DEF Init, Asked, Times
<1>2. Types
  <2>1. previous \in States
    BY <1>1 DEF Init, Now, States
  <2>2. <<>> \in Lines /\ <<>> \in Seq(Piece4)
    BY DEF Lines
  <2> QED
    BY <1>1, <2>1, <2>2 DEF Init, Types, Stores, Steps
<1>3. Published
  <2>1. Parsed(settings, start) \in SpecSet
    BY <1>1 DEF SpecSet
  <2>2. specs = <<Parsed(settings, start)>> /\ fmt = 1 /\ cache = {1} /\ storing = "no"
        /\ colour = settings.colour /\ flush = settings.flush
    BY DEF Init
  <2>3. specs \in Seq(SpecSet) /\ Len(specs) = 1 /\ specs[1] = Parsed(settings, start)
    BY <2>1, <2>2
  <2> QED
    BY <2>2, <2>3 DEF Published
<1>4. Held /\ Shaped
  BY DEF Init, Held, Shaped, Busy, Sinks
<1> QED
  BY <1>2, <1>3, <1>4 DEF Shape

\* The start of a reload, whatever it asks for.
LEMMA BeginKeepsShape ==
    ASSUME Shape, NEW s \in Asked, NEW st \in Times, BeginReload(s, st),
           specs' = specs, cache' \in {cache, {}}, drops' \in {drops, 0},
           resets' \in {resets, resets + 1}
    PROVE  Shape'
<1> USE DEF Shape
<1>1. Now \in States /\ Now' \in States /\ settings' = s /\ start' = st
  BY DEF BeginReload, Now, States, Types
<1>2. Types'
  BY <1>1 DEF Types, BeginReload, Stores, Busy
<1>3. Published'
  BY DEF Published, BeginReload, Now
<1>4. Held'
  <2> SUFFICES ASSUME NEW t \in Threads, Busy(t)'
               PROVE  /\ spec[t] \in 1 .. Len(specs)
                      /\ rec[t] \in Taken
                      /\ InForce' \subseteq inForce'[t]
    BY DEF Held, BeginReload
  <2>1. Busy(t)
    BY DEF Busy, BeginReload
  <2>2. InForce = {Now} /\ InForce' = {Now', Now}
    BY DEF InForce, BeginReload
  <2>3. inForce'[t] = inForce[t] \cup {Now'}
    BY <2>1 DEF BeginReload, Types
  <2> QED
    BY <2>1, <2>2, <2>3 DEF Held
<1>5. Shaped'
  BY DEF Shaped, BeginReload
<1> QED
  BY <1>2, <1>3, <1>4, <1>5

LEMMA ReloadKeepsShape ==
    ASSUME Shape, Reload
    PROVE  Shape'
<1>1. CASE Configure
  <2>1. PICK s \in Configurations : BeginReload(s, start)
    BY <1>1 DEF Configure
  <2>2. s \in Asked /\ start \in Times
    BY DEF Shape, Types, Asked
  <2> QED
    BY <1>1, <2>1, <2>2, BeginKeepsShape DEF Configure
<1>2. CASE SetStart
  <2>1. PICK now \in Times : BeginReload(settings, now)
    BY <1>2 DEF SetStart, Times
  <2>2. settings \in Asked
    BY DEF Shape, Types
  <2> QED
    BY <1>2, <2>1, <2>2, BeginKeepsShape DEF SetStart
<1>3. CASE Reset
  <2>1. PICK now \in Times : BeginReload(Defaults, now)
    BY <1>3 DEF Reset, Times
  <2>2. Defaults \in Asked
    BY BoundsAssumption DEF Asked
  <2> QED
    BY <1>3, <2>1, <2>2, BeginKeepsShape DEF Reset
<1>4. CASE StoreFlush
  <2> USE <1>4 DEF StoreFlush, callVars, outVars, historyVars
  <2>1. Types'
    BY DEF Shape, Types, Stores
  <2>2. Published'
    BY DEF Shape, Published
  <2>3. InForce' = InForce
    BY DEF InForce, Now
  <2>4. Held' /\ Shaped'
    BY <2>3 DEF Shape, Held, Shaped, Busy
  <2> QED
    BY <2>1, <2>2, <2>4 DEF Shape
<1>5. CASE StoreColour
  <2> USE <1>5 DEF StoreColour, callVars, outVars, historyVars
  <2>1. Types'
    BY DEF Shape, Types, Stores
  <2>2. Published'
    BY DEF Shape, Published
  <2>3. InForce' = InForce
    BY DEF InForce, Now
  <2>4. Held' /\ Shaped'
    BY <2>3 DEF Shape, Held, Shaped, Busy
  <2> QED
    BY <2>1, <2>2, <2>4 DEF Shape
<1>6. CASE StoreFormat
  <2> DEFINE p == Parsed(settings, start)
             n == Len(specs)
  <2>t. settings \in Asked /\ start \in Times /\ p \in SpecSet
    BY DEF Shape, Types, SpecSet
  <2>n. n \in Nat
    BY DEF Shape, Published
  <2>1. Types'
    BY <1>6 DEF StoreFormat, callVars, outVars, historyVars, Shape, Types, Stores
  <2>2. /\ specs' \in Seq(SpecSet) /\ fmt' \in 1 .. Len(specs') /\ specs'[fmt'] = p
        /\ cache' \subseteq 1 .. Len(specs')
        /\ Len(specs) <= Len(specs') /\ Len(specs') \in Nat
    <3>1. CASE fmt' \in Cached(Key(settings, start)) /\ UNCHANGED <<specs, cache>>
      <4>1. fmt' \in cache /\ specs[fmt'].key = Key(settings, start)
        BY <3>1 DEF Cached
      <4>2. fmt' \in 1 .. Len(specs) /\ specs[fmt'] \in SpecSet
        BY <4>1 DEF Shape, Published
      <4>3. PICK s \in Asked, st \in Times : specs[fmt'] = Parsed(s, st)
        BY <4>2 DEF SpecSet
      <4>4. Key(s, st) = Key(settings, start)
        BY <2>t, <4>1, <4>3, SpecsAreParsed
      <4>5. s.format = settings.format /\ s.time = settings.time
            /\ s.elapsed = settings.elapsed /\ st = start
        BY <4>4 DEF Key
      <4>6. specs[fmt'] = p
        BY <4>3, <4>5 DEF Parsed, Key
      <4> QED
        BY <2>n, <3>1, <4>2, <4>6 DEF Shape, Published
    <3>2. CASE /\ specs' = Append(specs, p)
               /\ fmt' = Len(specs')
               /\ cache' = cache \cup {fmt'}
      <4>1. specs \in Seq(SpecSet) /\ cache \subseteq 1 .. n
        BY DEF Shape, Published
      <4> HIDE DEF p
      <4>2. /\ specs' \in Seq(SpecSet) /\ Len(specs') = n + 1 /\ specs'[n + 1] = p
        BY <2>t, <3>2, <4>1
      <4> HIDE DEF n
      <4>3. cache' \subseteq 1 .. n + 1
        BY <2>n, <3>2, <4>1, <4>2
      <4> QED
        BY <2>n, <3>2, <4>2, <4>3 DEF n
    <3> QED
      BY <1>6, <3>1, <3>2 DEF StoreFormat
  <2>3. Published'
    <3>1. storing = "format" /\ storing' = "no" /\ UNCHANGED <<settings, start, colour, flush>>
      BY <1>6 DEF StoreFormat
    <3>2. Parsed(settings', start') = p
      BY <3>1
    <3>3. colour' = settings'.colour /\ flush' = settings'.flush
      BY <3>1 DEF Shape, Published
    <3> HIDE DEF p
    <3> QED
      BY <2>2, <3>1, <3>2, <3>3 DEF Published
  <2>4. Held'
    <3> SUFFICES ASSUME NEW t \in Threads, Busy(t)'
                 PROVE  /\ spec'[t] \in 1 .. Len(specs')
                        /\ rec'[t] \in Taken
                        /\ InForce' \subseteq inForce'[t]
      BY DEF Held
    <3>1. Busy(t) /\ UNCHANGED <<spec, rec, inForce>>
      BY <1>6 DEF StoreFormat, callVars, Busy
    <3>2. InForce' \subseteq InForce
      BY <1>6 DEF StoreFormat, InForce, Now
    <3>3. spec[t] \in 1 .. Len(specs) /\ rec[t] \in Taken /\ InForce \subseteq inForce[t]
      BY <3>1 DEF Shape, Held
    <3> QED
      BY <2>n, <2>2, <3>1, <3>2, <3>3
  <2>5. Shaped'
    BY <1>6 DEF Shape, Shaped, StoreFormat, callVars
  <2> QED
    BY <2>1, <2>3, <2>4, <2>5 DEF Shape
<1> QED
  BY <1>1, <1>2, <1>3, <1>4, <1>5, <1>6 DEF Reload

\* Where a call goes once it is done with an output, and what it keeps.
LEMMA Goes ==
    ASSUME Types, NEW t \in Threads, pc[t] \in Sinks, NEW at \in {"sync", "colour"}, Go(t, at)
    PROVE  /\ pc' = [pc EXCEPT ![t] = IF pc[t] = "file" THEN at ELSE "idle"]
           /\ \A u \in Threads : u # t \/ pc[t] = "file" =>
                 /\ spec'[u] = spec[u] /\ rec'[u] = rec[u] /\ line'[u] = line[u]
                 /\ inForce'[u] = inForce[u]
           /\ spec' \in [Threads -> Nat]
           /\ rec' \in [Threads -> Taken \cup {<<>>}]
           /\ line' \in [Threads -> Lines]
           /\ inForce' \in [Threads -> SUBSET States]
<1>1. CASE pc[t] = "file"
  BY <1>1 DEF Go, Goto, Types
<1>2. CASE pc[t] = "stdout"
  <2>1. Return(t)
    BY <1>2 DEF Go
  <2>2. <<>> \in Lines
    BY DEF Lines
  <2> QED
    BY <1>2, <2>1, <2>2 DEF Return, Goto, Types
<1> QED
  BY <1>1, <1>2 DEF Sinks

\* A write adds a piece that begins after the bytes written so far.
LEMMA Writes ==
    ASSUME Shape, NEW t \in Threads, Write(t)
    PROVE  /\ pc[t] \in Sinks
           /\ UNCHANGED <<configVars, historyVars, lines, durable, drops>>
           /\ \E to \in Nat :
                /\ done[t] + 1 <= to /\ to <= Len(line[t])
                /\ out' = [out EXCEPT ![pc[t]] =
                             Append(@, <<Id(t), done[t] + 1, to, Len(line[t])>>)]
                /\ done' = [done EXCEPT ![t] = IF to = Len(line[t]) THEN 0 ELSE to]
                /\ IF to = Len(line[t]) THEN short' = short /\ Go(t, "sync")
                   ELSE /\ short' = short \cup {<<pc[t], Id(t)>>}
                        /\ UNCHANGED <<pc, spec, inForce, rec, line>>
<1>1. pc[t] \in Sinks /\ UNCHANGED <<configVars, historyVars, lines, durable, drops>>
  BY DEF Write
<1>2. done[t] \in Nat /\ Len(line[t]) \in Nat
  BY <1>1 DEF Shape, Types, Lines
<1>3. PICK to \in done[t] + 1 .. Len(line[t]) :
        /\ out' = [out EXCEPT ![pc[t]] = Append(@, Piece(t, to))]
        /\ IF to = Len(line[t]) THEN UNCHANGED short
           ELSE Cardinality(short) < MaxShort /\ short' = short \cup {<<pc[t], Id(t)>>}
        /\ done' = [done EXCEPT ![t] = IF to = Len(line[t]) THEN 0 ELSE to]
        /\ IF to = Len(line[t]) THEN Go(t, "sync")
           ELSE UNCHANGED <<pc, spec, inForce, rec, line>>
  BY DEF Write, Given
<1>4. to \in Nat /\ done[t] + 1 <= to /\ to <= Len(line[t])
  BY <1>2
<1> QED
  BY <1>1, <1>3, <1>4 DEF Piece

LEMMA CallKeepsPublished ==
    ASSUME Shape, NEW t \in Threads, Call(t)
    PROVE  /\ Published' /\ InForce' = InForce
           /\ UNCHANGED <<configVars, historyVars>>
<1>1. UNCHANGED <<configVars, historyVars>>
  BY DEF Call, Log, BuildForFile, BuildForStdout, Write, Fail, Sync
<1> QED
  BY <1>1 DEF configVars, historyVars, publishedVars, Shape, Published, InForce, Now

LEMMA BuiltIsShaped ==
    ASSUME Shape, NEW t \in Threads, Busy(t), NEW r \in Taken, NEW colored
    PROVE  LET l == BuildLine(specs[spec[t]].format, r, colored)
           IN l \in Lines /\ Len(l) \in 1 .. MaxLine /\ Last(l) = NewLine
<1>1. specs[spec[t]] \in SpecSet
  BY DEF Shape, Held, Published
<1>2. PICK s \in Asked, st \in Times : specs[spec[t]] = Parsed(s, st)
  BY <1>1 DEF SpecSet
<1> DEFINE sp == specs[spec[t]].format
<1>3. sp.start \in Times /\ sp.tokens \in Seq(Token)
  BY <1>2, SpecsAreParsed
<1> HIDE DEF sp
<1> QED
  BY <1>3, LineIsShaped DEF sp, Last

LEMMA CallKeepsShape ==
    ASSUME Shape, NEW t \in Threads, Call(t)
    PROVE  Shape'
<1>p. /\ Published' /\ InForce' = InForce
      /\ UNCHANGED <<configVars, historyVars>>
  BY CallKeepsPublished
<1>c. UNCHANGED <<settings, start, storing, specs, previous, resets>>
  BY <1>p DEF configVars, publishedVars, historyVars
<1>1. CASE Log(t)
  <2> USE <1>1 DEF Log, Goto, outVars
  <2>1. PICK r \in Records :
          rec' = [rec EXCEPT ![t] = [level |-> r.level, msg |-> CutMessage(r.msg), now |-> 0]]
    OBVIOUS
  <2>2. [level |-> r.level, msg |-> CutMessage(r.msg), now |-> 0] \in Taken
    <3>1. CutMessage(r.msg) \in Seq(Said)
      BY TextsAssumption, CutIsSaid
    <3>2. 0 \in Times /\ r.level \in Levels
      BY BoundsAssumption DEF Times, Levels
    <3> QED
      BY <3>1, <3>2 DEF Taken, Said
  <2>3. InForce \in SUBSET States /\ fmt \in Nat /\ fmt \in 1 .. Len(specs)
    BY DEF Shape, Types, Published, InForce, Now, States
  <2>4. Types'
    BY <1>c, <2>1, <2>2, <2>3 DEF Shape, Types, Steps
  <2>5. Held'
    BY <1>c, <1>p, <2>1, <2>2, <2>3 DEF Shape, Types, Held, Busy
  <2>6. Shaped'
    BY DEF Shape, Types, Shaped, Sinks
  <2> QED
    BY <1>p, <2>4, <2>5, <2>6 DEF Shape
<1>2. CASE BuildForFile(t)
  <2> USE <1>2 DEF BuildForFile, Goto, outVars
  <2>1. pc[t] = "clock" /\ rec[t] \in Taken /\ Busy(t)
    BY DEF Shape, Held, Busy
  <2>2. PICK now \in Times : rec' = [rec EXCEPT ![t].now = now]
    <3>1. PICK now \in IF specs[spec[t]].format.needsTime THEN 0 .. MaxClock ELSE {0} :
             rec' = [rec EXCEPT ![t].now = now]
      OBVIOUS
    <3>2. now \in Times
      BY BoundsAssumption DEF Times
    <3> QED
      BY <3>1, <3>2
  <2>3. rec'[t] \in Taken /\ \A u \in Threads : u # t => rec'[u] = rec[u]
    BY <2>1, <2>2 DEF Shape, Types, Taken
  <2> DEFINE l == BuildLine(specs[spec[t]].format, rec'[t], FALSE)
  <2>4. l \in Lines /\ Len(l) \in 1 .. MaxLine /\ Last(l) = NewLine
    BY <2>1, <2>3, BuiltIsShaped
  <2>5. line' = [line EXCEPT ![t] = l]
    OBVIOUS
  <2> HIDE DEF l
  <2>6. Types'
    <3>1. rec' \in [Threads -> Taken \cup {<<>>}]
      BY <2>2, <2>3 DEF Shape, Types
    <3> QED
      BY <1>c, <2>4, <2>5, <3>1 DEF Shape, Types, Steps
  <2>7. Held'
    BY <1>c, <1>p, <2>1, <2>3 DEF Shape, Types, Held, Busy
  <2>8. Shaped'
    <3>1. pc' = [pc EXCEPT ![t] = "file"] /\ done' = [done EXCEPT ![t] = 0]
      OBVIOUS
    <3>2. /\ line'[t] = l /\ done'[t] = 0
          /\ \A u \in Threads : u # t => /\ pc'[u] = pc[u] /\ line'[u] = line[u]
                                         /\ done'[u] = done[u]
      BY <2>5, <3>1 DEF Shape, Types
    <3>3. ASSUME NEW u \in Threads, pc'[u] \in Sinks
          PROVE  /\ Len(line'[u]) \in 1 .. MaxLine
                 /\ Last(line'[u]) = NewLine
                 /\ done'[u] < Len(line'[u])
      <4>1. CASE u = t
        <5>1. 0 < Len(l)
          BY <2>4
        <5> QED
          BY <2>4, <3>2, <4>1, <5>1
      <4>2. CASE u # t
        BY <3>2, <3>3, <4>2 DEF Shape, Shaped
      <4> QED
        BY <4>1, <4>2
    <3> QED
      BY <3>3 DEF Shaped
  <2> QED
    BY <1>p, <2>6, <2>7, <2>8 DEF Shape
<1>3. CASE BuildForStdout(t)
  <2> USE <1>3 DEF BuildForStdout, Goto, outVars
  <2>1. pc[t] = "colour" /\ rec[t] \in Taken /\ Busy(t)
    BY DEF Shape, Held, Busy
  <2> DEFINE l == BuildLine(specs[spec[t]].format, rec[t], colour)
  <2>4. l \in Lines /\ Len(l) \in 1 .. MaxLine /\ Last(l) = NewLine
    BY <2>1, BuiltIsShaped
  <2>5. line' = [line EXCEPT ![t] = l]
    OBVIOUS
  <2> HIDE DEF l
  <2>6. Types'
    BY <1>c, <2>4, <2>5 DEF Shape, Types, Steps
  <2>7. Held'
    BY <1>c, <1>p, <2>1 DEF Shape, Types, Held, Busy
  <2>8. Shaped'
    BY <2>4, <2>5 DEF Shape, Types, Shaped, Sinks
  <2> QED
    BY <1>p, <2>6, <2>7, <2>8 DEF Shape
<1>4. CASE Write(t)
  <2>1. pc[t] \in Sinks /\ UNCHANGED <<lines, durable, drops>>
    BY <1>4, Writes
  <2>2. PICK to \in Nat :
          /\ done[t] + 1 <= to /\ to <= Len(line[t])
          /\ out' = [out EXCEPT ![pc[t]] =
                       Append(@, <<Id(t), done[t] + 1, to, Len(line[t])>>)]
          /\ done' = [done EXCEPT ![t] = IF to = Len(line[t]) THEN 0 ELSE to]
          /\ IF to = Len(line[t]) THEN short' = short /\ Go(t, "sync")
             ELSE /\ short' = short \cup {<<pc[t], Id(t)>>}
                  /\ UNCHANGED <<pc, spec, inForce, rec, line>>
    BY <1>4, Writes
  <2>3. /\ done[t] \in Nat /\ Len(line[t]) \in Nat /\ line[t] \in Lines
        /\ Id(t) \in Ids
    BY DEF Shape, Types, Lines, Id, Ids
  <2>4. /\ out' \in [Sinks -> Seq(Piece4)]
        /\ done' \in [Threads -> Nat]
        /\ short' \subseteq Sinks \X Ids
    <3>1. <<Id(t), done[t] + 1, to, Len(line[t])>> \in Piece4
      BY <2>2, <2>3 DEF Piece4
    <3> DEFINE p == <<Id(t), done[t] + 1, to, Len(line[t])>>
    <3>2. Append(out[pc[t]], p) \in Seq(Piece4)
      <4> HIDE DEF p
      <4> QED
        BY <2>1, <3>1 DEF Shape, Types, p
    <3> QED
      BY <2>1, <2>2, <2>3, <3>2 DEF Shape, Types
  <2>5. CASE to = Len(line[t])
    <3>1. Go(t, "sync")
      BY <2>2, <2>5
    <3>2. /\ pc' = [pc EXCEPT ![t] = IF pc[t] = "file" THEN "sync" ELSE "idle"]
          /\ \A u \in Threads : u # t \/ pc[t] = "file" =>
                /\ spec'[u] = spec[u] /\ rec'[u] = rec[u] /\ line'[u] = line[u]
                /\ inForce'[u] = inForce[u]
          /\ spec' \in [Threads -> Nat]
          /\ rec' \in [Threads -> Taken \cup {<<>>}]
          /\ line' \in [Threads -> Lines]
          /\ inForce' \in [Threads -> SUBSET States]
      BY <2>1, <3>1, Goes DEF Shape
    <3>3. Types'
      BY <1>c, <2>1, <2>4, <3>2 DEF Shape, Types, Steps
    <3>4. Held'
      BY <1>c, <1>p, <2>1, <3>2 DEF Shape, Types, Held, Busy, Sinks
    <3>5. Shaped'
      BY <2>1, <2>2, <3>2 DEF Shape, Types, Shaped, Sinks
    <3> QED
      BY <1>p, <3>3, <3>4, <3>5 DEF Shape
  <2>6. CASE to # Len(line[t])
    <3>1. UNCHANGED <<pc, spec, inForce, rec, line>>
      BY <2>2, <2>6
    <3>3. Types'
      BY <1>c, <2>1, <2>4, <3>1 DEF Shape, Types, Steps
    <3>4. Held'
      BY <1>c, <1>p, <3>1 DEF Shape, Held, Busy
    <3>5. Shaped'
      <4>1. to < Len(line[t])
        BY <2>2, <2>3, <2>6
      <4>2. done' = [done EXCEPT ![t] = to]
        BY <2>2, <2>6
      <4> QED
        BY <3>1, <4>1, <4>2 DEF Shape, Types, Shaped
    <3> QED
      BY <1>p, <3>3, <3>4, <3>5 DEF Shape
  <2> QED
    BY <2>5, <2>6
<1>5. CASE Fail(t)
  <2>1. /\ pc[t] \in Sinks /\ Go(t, "colour") /\ UNCHANGED <<lines, out, durable, short>>
        /\ drops' = drops + 1 /\ done' = [done EXCEPT ![t] = 0]
    BY <1>5 DEF Fail
  <2>2. /\ pc' = [pc EXCEPT ![t] = IF pc[t] = "file" THEN "colour" ELSE "idle"]
        /\ \A u \in Threads : u # t \/ pc[t] = "file" =>
              /\ spec'[u] = spec[u] /\ rec'[u] = rec[u] /\ line'[u] = line[u]
              /\ inForce'[u] = inForce[u]
        /\ spec' \in [Threads -> Nat]
        /\ rec' \in [Threads -> Taken \cup {<<>>}]
        /\ line' \in [Threads -> Lines]
        /\ inForce' \in [Threads -> SUBSET States]
    BY <2>1, Goes DEF Shape
  <2>3. Types'
    BY <1>c, <2>1, <2>2 DEF Shape, Types, Steps
  <2>4. Held'
    BY <1>c, <1>p, <2>1, <2>2 DEF Shape, Types, Held, Busy, Sinks
  <2>5. Shaped'
    BY <2>1, <2>2 DEF Shape, Types, Shaped, Sinks
  <2> QED
    BY <1>p, <2>3, <2>4, <2>5 DEF Shape
<1>6. CASE Sync(t)
  <2> USE <1>6 DEF Sync, Goto
  <2>1. durable' \in Nat
    <3>1. Len(out["file"]) \in Nat
      BY DEF Shape, Types, Sinks
    <3> QED
      BY <3>1 DEF Shape, Types
  <2>2. Types'
    BY <1>c, <2>1 DEF Shape, Types, Steps
  <2>3. Held'
    BY <1>c, <1>p DEF Shape, Types, Held, Busy
  <2>4. Shaped'
    BY DEF Shape, Types, Shaped, Sinks
  <2> QED
    BY <1>p, <2>2, <2>3, <2>4 DEF Shape
<1> QED
  BY <1>1, <1>2, <1>3, <1>4, <1>5, <1>6 DEF Call

LEMMA ShapeHolds == Spec => []Shape
<1>1. Shape /\ [Next]_vars => Shape'
  <2> SUFFICES ASSUME Shape, [Next]_vars PROVE Shape'
    OBVIOUS
  <2>1. CASE Next
    BY <2>1, ReloadKeepsShape, CallKeepsShape DEF Next
  <2>2. CASE UNCHANGED vars
    <3> USE <2>2 DEF vars, configVars, publishedVars, callVars, outVars, historyVars
    <3>1. InForce' = InForce
      BY DEF InForce, Now
    <3>2. Types' /\ Published' /\ Held' /\ Shaped'
      BY <3>1 DEF Shape, Types, Published, Held, Shaped, Busy
    <3> QED
      BY <3>2 DEF Shape
  <2> QED
    BY <2>1, <2>2
<1> QED
  BY <1>1, InitShape, PTL DEF Spec

\* Once a reload is over, the format that log calls take, the colour and the flush
\* level are those of its settings, also when a spec of an earlier reload was found
\* again: specs are found by all they were made of.
THEOREM PublishedCorrect == Spec => []PublishedIsCurrent
<1>1. Shape => PublishedIsCurrent
  BY DEF Shape, Published, PublishedIsCurrent
<1> QED
  BY <1>1, ShapeHolds, PTL

\* One record is one line: whatever the pattern, the message and the settings at each
\* moment, what is written fits in the atomic size, ends with its newline, and has no
\* line break of the message; a line break that the pattern itself has stays.
THEOREM OneLineCorrect == Spec => []OneLinePerRecord
<1>1. Shape => OneLinePerRecord
  <2> SUFFICES ASSUME Shape, NEW t \in Threads, pc[t] \in Sinks
               PROVE  /\ Len(line[t]) <= MaxLine
                      /\ Last(line[t]) = NewLine
                      /\ \A i \in DOMAIN line[t] : line[t][i] # <<"msg", "\n">>
    BY DEF OneLinePerRecord
  <2>1. line[t] \in Lines
    BY DEF Shape, Types
  <2>2. <<"msg", "\n">> \notin Byte
    BY DEF Byte
  <2>3. \A i \in DOMAIN line[t] : line[t][i] \in Byte
    BY <2>1 DEF Lines
  <2>4. Len(line[t]) <= MaxLine /\ Last(line[t]) = NewLine
    BY SizesAssumption DEF Shape, Shaped
  <2> QED
    BY <2>2, <2>3, <2>4
<1> QED
  BY <1>1, ShapeHolds, PTL

----------------------------------------------------------------------------
(* The pieces on an output.                                                *)

\* Where the pieces of a line are in outputs o, whether they end the line, and whether
\* the piece at i begins the line or goes on with it.
At(o, sink, id)     == {i \in DOMAIN o[sink] : o[sink][i][1] = id}
Ended(o, sink, id)  ==
    \E i \in At(o, sink, id) : /\ \A j \in At(o, sink, id) : j <= i
                               /\ o[sink][i][3] = o[sink][i][4]
Earlier(o, sink, i) == {j \in At(o, sink, o[sink][i][1]) : j < i}
Follows(o, sink, i) ==
    IF Earlier(o, sink, i) = {} THEN o[sink][i][2] = 1
    ELSE \E j \in Earlier(o, sink, i) : /\ \A k \in Earlier(o, sink, i) : k <= j
                                        /\ o[sink][i][2] = o[sink][j][3] + 1

LEMMA Appends ==
    ASSUME NEW o \in [Sinks -> Seq(Piece4)], NEW sink \in Sinks, NEW p \in Piece4,
           NEW n, n = Len(o[sink]), NEW o2, o2 = [o EXCEPT ![sink] = Append(@, p)]
    PROVE  /\ n \in Nat /\ DOMAIN o[sink] = 1 .. n /\ DOMAIN o2[sink] = 1 .. n + 1
           /\ \A i \in 1 .. n : o2[sink][i] = o[sink][i]
           /\ o2[sink][n + 1] = p
           /\ \A s \in Sinks : s # sink => o2[s] = o[s]
<1>1. o[sink] \in Seq(Piece4) /\ o2[sink] = Append(o[sink], p)
  OBVIOUS
<1>2. \A s \in Sinks : s # sink => o2[s] = o[s]
  OBVIOUS
<1> DEFINE s1 == o[sink]
           s2 == o2[sink]
<1> HIDE DEF s1, s2
<1>3. s1 \in Seq(Piece4) /\ s2 = Append(s1, p) /\ n = Len(s1)
  BY <1>1 DEF s1, s2
<1>4. /\ n \in Nat /\ DOMAIN s1 = 1 .. n /\ DOMAIN s2 = 1 .. n + 1
      /\ \A i \in 1 .. n : s2[i] = s1[i]
      /\ s2[n + 1] = p
  BY <1>3
<1> QED
  BY <1>2, <1>4 DEF s1, s2

\* What the append of piece p at place n + 1 changes.
Appended(o, o2, sink, p, n) ==
    /\ At(o2, sink, p[1]) = At(o, sink, p[1]) \cup {n + 1}
    /\ At(o, sink, p[1]) \subseteq 1 .. n
    /\ Ended(o2, sink, p[1]) <=> p[3] = p[4]
    /\ \A s \in Sinks : \A id : s # sink \/ id # p[1] =>
          /\ At(o2, s, id) = At(o, s, id)
          /\ Ended(o2, s, id) <=> Ended(o, s, id)
    /\ \A s \in Sinks : \A i \in DOMAIN o[s] : Follows(o2, s, i) <=> Follows(o, s, i)
    /\ Earlier(o2, sink, n + 1) = At(o, sink, p[1])

LEMMA PlacesOfAppend ==
    ASSUME NEW o \in [Sinks -> Seq(Piece4)], NEW sink \in Sinks, NEW p \in Piece4,
           NEW n, n = Len(o[sink]), NEW o2, o2 = [o EXCEPT ![sink] = Append(@, p)]
    PROVE  Appended(o, o2, sink, p, n)
<1>1. /\ n \in Nat /\ DOMAIN o[sink] = 1 .. n /\ DOMAIN o2[sink] = 1 .. n + 1
      /\ \A i \in 1 .. n : o2[sink][i] = o[sink][i]
      /\ o2[sink][n + 1] = p
      /\ \A s \in Sinks : s # sink => o2[s] = o[s]
  BY Appends
<1>2. At(o2, sink, p[1]) = At(o, sink, p[1]) \cup {n + 1} /\ At(o, sink, p[1]) \subseteq 1 .. n
  BY <1>1 DEF At
<1>3. Ended(o2, sink, p[1]) <=> p[3] = p[4]
  <2>1. \A j \in At(o2, sink, p[1]) : j <= n + 1
    BY <1>1, <1>2
  <2>3. n + 1 \in At(o2, sink, p[1])
    BY <1>2
  <2>2. ASSUME NEW i \in At(o2, sink, p[1]), \A j \in At(o2, sink, p[1]) : j <= i
        PROVE  i = n + 1
    <3>1. n + 1 <= i
      BY <2>2, <2>3
    <3>2. i \in 1 .. n \/ i = n + 1
      BY <1>2
    <3> QED
      BY <1>1, <3>1, <3>2
  <2> QED
    BY <1>1, <2>1, <2>2, <2>3 DEF Ended
<1>4. ASSUME NEW s \in Sinks, NEW id, s # sink \/ id # p[1]
      PROVE  /\ At(o2, s, id) = At(o, s, id)
             /\ Ended(o2, s, id) <=> Ended(o, s, id)
  <2>1. CASE s # sink
    BY <1>1, <2>1 DEF At, Ended
  <2>2. CASE s = sink /\ id # p[1]
    <3>1. At(o2, s, id) = At(o, s, id) /\ At(o, s, id) \subseteq 1 .. n
      BY <1>1, <2>2 DEF At
    <3> QED
      BY <1>1, <2>2, <3>1 DEF Ended
  <2> QED
    BY <1>4, <2>1, <2>2
<1>5. ASSUME NEW s \in Sinks, NEW i \in DOMAIN o[s]
      PROVE  Follows(o2, s, i) <=> Follows(o, s, i)
  <2>1. CASE s # sink
    BY <1>1, <2>1 DEF At, Follows, Earlier
  <2>2. CASE s = sink
    <3>1. i \in 1 .. n /\ o2[s][i] = o[s][i]
      BY <1>1, <2>2
    <3>2. Earlier(o2, s, i) = Earlier(o, s, i) /\ Earlier(o, s, i) \subseteq 1 .. n
      BY <1>1, <2>2, <3>1 DEF Earlier, At
    <3>3. \A j \in Earlier(o, s, i) : o2[s][j] = o[s][j]
      BY <1>1, <2>2, <3>2
    <3> QED
      BY <3>1, <3>2, <3>3 DEF Follows
  <2> QED
    BY <2>1, <2>2
<1>6. Earlier(o2, sink, n + 1) = At(o, sink, p[1])
  <2>1. Earlier(o2, sink, n + 1) = {j \in At(o, sink, p[1]) \cup {n + 1} : j < n + 1}
    BY <1>1, <1>2 DEF Earlier
  <2> DEFINE places == At(o, sink, p[1])
  <2>2. places \subseteq 1 .. n
    BY <1>2
  <2> HIDE DEF places
  <2>3. {j \in places \cup {n + 1} : j < n + 1} = places
    <3>1. ~(n + 1 < n + 1)
      BY <1>1
    <3>2. ASSUME NEW j \in places PROVE j < n + 1
      <4>1. j \in 1 .. n
        BY <2>2
      <4> QED
        BY <1>1, <4>1
    <3> QED
      BY <3>1, <3>2
  <2> QED
    BY <2>1, <2>3 DEF places
<1> QED
  BY <1>2, <1>3, <1>4, <1>5, <1>6 DEF Appended

\* The invariants of the pieces, in these terms.
LEMMA InTheseTerms ==
    /\ \A sink, id : Places(sink, id) = At(out, sink, id)
    /\ \A sink, id : Complete(sink, id) <=> Ended(out, sink, id)
    /\ \A sink, i : GoesOn(sink, i) <=> Follows(out, sink, i)
BY DEF Places, At, Complete, Ended, GoesOn, Follows, Earlier

Traced == Unsplit /\ UnsplitLinesAreWhole /\ Logging /\ Progress /\ Contiguous

LEMMA InitTraced == Init => Traced
<1> SUFFICES ASSUME Init PROVE Traced
  OBVIOUS
<1>1. /\ \A t \in Threads : pc[t] = "idle"
      /\ \A sink \in Sinks : out[sink] = <<>> /\ DOMAIN out[sink] = {}
  BY DEF Init
<1>2. "idle" \notin Sinks
  BY DEF Sinks
<1> QED
  BY <1>1, <1>2 DEF Traced, Unsplit, UnsplitLinesAreWhole, Logging, Progress, Contiguous,
                    Ahead, Busy

\* What the steps other than writes do to the pieces.
LEMMA ReloadLeavesPieces ==
    ASSUME Shape, Reload
    PROVE  /\ UNCHANGED <<pc, lines, rec, line, done, out, durable, short>>
           /\ resets' # 0 \/ (UNCHANGED <<resets, drops>>)
           /\ \A t \in Threads : inForce[t] \subseteq inForce'[t]
<1>1. CASE Configure \/ SetStart
  BY <1>1 DEF Configure, SetStart, BeginReload, Shape, Types
<1>2. CASE Reset
  <2>1. resets \in Nat /\ resets' = resets + 1
    BY <1>2 DEF Reset, Shape, Types
  <2> QED
    BY <1>2, <2>1 DEF Reset, BeginReload, Shape, Types
<1>3. CASE StoreFlush \/ StoreColour \/ StoreFormat
  BY <1>3 DEF StoreFlush, StoreColour, StoreFormat, callVars, outVars, historyVars
<1> QED
  BY <1>1, <1>2, <1>3 DEF Reload

LEMMA SameTraced ==
    ASSUME Traced, UNCHANGED <<pc, lines, line, done, out, short>>
    PROVE  Traced'
<1>3. Unsplit' /\ UnsplitLinesAreWhole' /\ Logging'
  BY DEF Traced, Unsplit, UnsplitLinesAreWhole, Logging, Busy, Id
<1>4. Progress'
  BY DEF Traced, Progress, Places, Id, Ahead
<1>5. Contiguous'
  BY DEF Traced, Contiguous, GoesOn, Places
<1> QED
  BY <1>3, <1>4, <1>5 DEF Traced

LEMMA WriteKeepsTraced ==
    ASSUME Shape, Traced, NEW t \in Threads, Write(t)
    PROVE  Traced'
<1> DEFINE sink == pc[t]
           id   == Id(t)
           size == Len(line[t])
           n    == Len(out[sink])
<1>1. sink \in Sinks /\ UNCHANGED <<lines, durable, drops>>
  BY Writes
<1>2. PICK to \in Nat :
        /\ done[t] + 1 <= to /\ to <= size
        /\ out' = [out EXCEPT ![sink] = Append(@, <<id, done[t] + 1, to, size>>)]
        /\ done' = [done EXCEPT ![t] = IF to = size THEN 0 ELSE to]
        /\ IF to = size THEN short' = short /\ Go(t, "sync")
           ELSE /\ short' = short \cup {<<sink, id>>}
                /\ UNCHANGED <<pc, spec, inForce, rec, line>>
  BY Writes
<1> DEFINE p == <<id, done[t] + 1, to, size>>
<1>3. /\ done[t] \in Nat /\ size \in Nat /\ id \in Ids /\ id = <<t, lines[t]>>
      /\ out \in [Sinks -> Seq(Piece4)] /\ pc \in [Threads -> Steps]
      /\ done \in [Threads -> Nat]
  BY DEF Shape, Types, Lines, Id, Ids
<1>4. p \in Piece4 /\ p[1] = id /\ p[2] = done[t] + 1 /\ p[3] = to /\ p[4] = size
  <2> HIDE DEF id, size
  <2>1. done[t] + 1 \in Nat
    BY <1>3
  <2> QED
    BY <1>2, <1>3, <2>1 DEF Piece4
<1>5. /\ n \in Nat /\ DOMAIN out[sink] = 1 .. n /\ DOMAIN out'[sink] = 1 .. n + 1
      /\ \A i \in 1 .. n : out'[sink][i] = out[sink][i]
      /\ out'[sink][n + 1] = p
      /\ \A s \in Sinks : s # sink => out'[s] = out[s]
  <2> HIDE DEF p, sink
  <2> QED
    BY <1>1, <1>2, <1>3, <1>4, Appends DEF p
<1>6. /\ At(out', sink, id) = At(out, sink, id) \cup {n + 1}
      /\ At(out, sink, id) \subseteq 1 .. n
      /\ \A s \in Sinks : \A x : s # sink \/ x # id => At(out', s, x) = At(out, s, x)
      /\ \A s \in Sinks : \A i \in DOMAIN out[s] : Follows(out', s, i) <=> Follows(out, s, i)
      /\ Earlier(out', sink, n + 1) = At(out, sink, id)
  <2>1. n = Len(out[sink]) /\ out' = [out EXCEPT ![sink] = Append(@, p)]
    BY <1>2
  <2> HIDE DEF p, sink, n, id, size
  <2>2. Appended(out, out', sink, p, n)
    BY <1>1, <1>3, <1>4, <2>1, PlacesOfAppend
  <2> QED
    BY <1>4, <2>2 DEF Appended
<1>7. /\ \A u \in Threads : u # t => pc'[u] = pc[u] /\ line'[u] = line[u]
      /\ to # size => pc'[t] = pc[t] /\ line'[t] = line[t]
      /\ to = size => pc'[t] = IF sink = "file" THEN "sync" ELSE "idle"
  <2>1. CASE to = size
    <3>1. Go(t, "sync")
      BY <1>2, <2>1
    <3> QED
      BY <1>1, <1>3, <2>1, <3>1, Goes DEF Shape
  <2>2. CASE to # size
    BY <1>2, <2>2
  <2> QED
    BY <2>1, <2>2
<1>8. \A u \in Threads : Id(u)' = Id(u) /\ (u # t => Id(u) # id)
  BY <1>1, <1>3 DEF Id
<1>9. \A u \in Threads : u # t => done'[u] = done[u]
  BY <1>2, <1>3
<1>10. done'[t] = IF to = size THEN 0 ELSE to
  BY <1>2, <1>3
<1> HIDE DEF p, sink, id, size, n
<1>11. Unsplit'
  <2> SUFFICES ASSUME NEW u \in Threads, pc'[u] \in Sinks, done'[u] > 0
               PROVE  <<pc'[u], Id(u)>> \in short'
    BY <1>8 DEF Unsplit
  <2>1. short \subseteq short'
    BY <1>2
  <2>2. CASE u # t
    BY <1>7, <1>9, <2>1, <2>2 DEF Traced, Unsplit
  <2>3. CASE u = t
    <3>1. to # size
      BY <1>10, <2>3
    <3> QED
      BY <1>2, <1>7, <2>3, <3>1 DEF sink, id
  <2> QED
    BY <2>2, <2>3
<1>12. UnsplitLinesAreWhole'
  <2> SUFFICES ASSUME NEW s \in Sinks, NEW i \in DOMAIN out'[s],
                      <<s, out'[s][i][1]>> \notin short'
               PROVE  out'[s][i][2] = 1 /\ out'[s][i][3] = out'[s][i][4]
    BY DEF UnsplitLinesAreWhole
  <2>1. short \subseteq short'
    BY <1>2
  <2>2. CASE i \in DOMAIN out[s] /\ out'[s][i] = out[s][i]
    BY <2>1, <2>2 DEF Traced, UnsplitLinesAreWhole
  <2>3. CASE s = sink /\ i = n + 1
    <3>1. out'[s][i] = p
      BY <1>5, <2>3
    <3>2. <<sink, id>> \notin short'
      BY <1>4, <2>3, <3>1
    <3>3. to = size
      BY <1>2, <3>2
    <3>4. <<sink, id>> \notin short
      BY <2>1, <3>2
    <3>5. done[t] = 0
      <4>1. ~(done[t] > 0)
        BY <1>1, <3>4 DEF Traced, Unsplit, sink, id
      <4> QED
        BY <1>3, <4>1
    <3> QED
      BY <1>4, <3>1, <3>3, <3>5
  <2>4. s = sink => i \in 1 .. n \/ i = n + 1
    BY <1>5
  <2> QED
    BY <1>5, <2>2, <2>3, <2>4
<1>13. Logging'
  <2>1. \A u \in Threads : pc'[u] # "idle" => lines'[u] > 0
    <3>1. \A u \in Threads : pc'[u] # "idle" => pc[u] # "idle"
      BY <1>1, <1>7 DEF Sinks, sink
    <3> QED
      BY <1>1, <3>1 DEF Traced, Logging, Busy
  <2>2. ASSUME NEW s \in Sinks, NEW i \in DOMAIN out'[s]
        PROVE  out'[s][i][1][2] \in 1 .. lines'[out'[s][i][1][1]]
    <3>1. CASE i \in DOMAIN out[s] /\ out'[s][i] = out[s][i]
      BY <1>1, <3>1 DEF Traced, Logging
    <3>2. CASE s = sink /\ i = n + 1
      <4>1. out'[s][i][1] = id
        BY <1>4, <1>5, <3>2
      <4>2. lines[t] > 0 /\ lines[t] \in Nat
        BY <1>1 DEF Traced, Logging, Busy, Sinks, sink, Shape, Types
      <4>3. id[1] = t /\ id[2] = lines[t]
        BY <1>3
      <4>4. lines[t] \in 1 .. lines[t]
        BY <4>2
      <4> QED
        BY <1>1, <4>1, <4>3, <4>4
    <3>3. s = sink => i \in 1 .. n \/ i = n + 1
      BY <1>5
    <3> QED
      BY <1>5, <3>1, <3>2, <3>3
  <2> QED
    BY <2>1, <2>2 DEF Logging, Busy
<1>14. Progress'
  <2> SUFFICES ASSUME NEW u \in Threads
               PROVE  /\ \A s \in Ahead(u)' : At(out', s, Id(u)) = {}
                      /\ pc'[u] \in Sinks =>
                           LET q == At(out', pc'[u], Id(u))
                           IN IF done'[u] = 0 THEN q = {}
                              ELSE \E j \in q : /\ \A k \in q : k <= j
                                                /\ out'[pc'[u]][j][3] = done'[u]
                                                /\ out'[pc'[u]][j][4] = Len(line'[u])
    BY <1>8 DEF Progress, Places, At
  <2>1. /\ \A s \in Ahead(u) : At(out, s, Id(u)) = {}
        /\ pc[u] \in Sinks =>
             LET q == At(out, pc[u], Id(u))
             IN IF done[u] = 0 THEN q = {}
                ELSE \E j \in q : /\ \A k \in q : k <= j
                                  /\ out[pc[u]][j][3] = done[u]
                                  /\ out[pc[u]][j][4] = Len(line[u])
    BY DEF Traced, Progress, Places, At
  <2>2. Ahead(u) \subseteq Sinks /\ Ahead(u)' \subseteq Sinks
    BY DEF Ahead, Sinks
  <2>3. CASE u # t
    <3>1. pc'[u] = pc[u] /\ line'[u] = line[u] /\ done'[u] = done[u] /\ Ahead(u)' = Ahead(u)
      BY <1>7, <1>9, <2>3 DEF Ahead
    <3>2. \A s \in Sinks : At(out', s, Id(u)) = At(out, s, Id(u))
      BY <1>6, <1>8, <2>3
    <3>3. \A s \in Sinks : \A j \in At(out, s, Id(u)) : out'[s][j] = out[s][j]
      <4>1. \A j \in DOMAIN out[sink] : out'[sink][j] = out[sink][j]
        BY <1>5
      <4> QED
        BY <1>5, <4>1 DEF At
    <3>4. \A s \in Ahead(u)' : At(out', s, Id(u)) = {}
      BY <2>1, <2>2, <3>1, <3>2
    <3>5. ASSUME pc'[u] \in Sinks
          PROVE  LET q == At(out', pc'[u], Id(u))
                 IN IF done'[u] = 0 THEN q = {}
                    ELSE \E j \in q : /\ \A k \in q : k <= j
                                      /\ out'[pc'[u]][j][3] = done'[u]
                                      /\ out'[pc'[u]][j][4] = Len(line'[u])
      BY <2>1, <3>1, <3>2, <3>3, <3>5
    <3> QED
      BY <3>4, <3>5
  <2>4. CASE u = t
    <3>1. \A s \in Ahead(t)' : s # sink /\ s \in Ahead(t)
      BY <1>1, <1>7 DEF Ahead, Sinks, sink
    <3>2. \A s \in Ahead(t)' : At(out', s, id) = {}
      BY <1>6, <2>1, <2>2, <2>4, <3>1 DEF id
    <3>3. ASSUME pc'[t] \in Sinks
          PROVE  LET q == At(out', pc'[t], id)
                 IN IF done'[t] = 0 THEN q = {}
                    ELSE \E j \in q : /\ \A k \in q : k <= j
                                      /\ out'[pc'[t]][j][3] = done'[t]
                                      /\ out'[pc'[t]][j][4] = Len(line'[t])
      <4>1. to # size
        BY <1>1, <1>7, <3>3 DEF Sinks
      <4>2. pc'[t] = sink /\ line'[t] = line[t] /\ done'[t] = to /\ to # 0
        BY <1>2, <1>3, <1>7, <1>10, <4>1 DEF sink
      <4>3. \A k \in At(out', sink, id) : k <= n + 1
        BY <1>5, <1>6
      <4>4. n + 1 \in At(out', sink, id)
        BY <1>6
      <4>5. out'[sink][n + 1][3] = to /\ out'[sink][n + 1][4] = Len(line'[t])
        BY <1>4, <1>5, <4>2 DEF size
      <4> QED
        BY <4>2, <4>3, <4>4, <4>5
    <3> QED
      BY <2>4, <3>2, <3>3 DEF id
  <2> QED
    BY <2>3, <2>4
<1>15. Contiguous'
  <2> SUFFICES ASSUME NEW s \in Sinks, NEW i \in DOMAIN out'[s]
               PROVE  Follows(out', s, i)
    BY DEF Contiguous, GoesOn, Places, Follows, Earlier, At
  <2>1. \A x \in Sinks : \A j \in DOMAIN out[x] : Follows(out, x, j)
    BY DEF Traced, Contiguous, GoesOn, Places, Follows, Earlier, At
  <2>2. CASE i \in DOMAIN out[s]
    BY <1>6, <2>1, <2>2
  <2>3. CASE s = sink /\ i = n + 1
    <3> DEFINE q == At(out, sink, id)
    <3>1. /\ out'[sink][n + 1][2] = done[t] + 1
          /\ Earlier(out', sink, n + 1) = q
      BY <1>4, <1>5, <1>6
    <3>2. IF done[t] = 0 THEN q = {}
          ELSE \E j \in q : /\ \A k \in q : k <= j
                            /\ out[sink][j][3] = done[t]
      BY <1>1 DEF Traced, Progress, Places, At, sink, id
    <3>3. \A j \in q : out'[sink][j] = out[sink][j]
      BY <1>5, <1>6
    <3> HIDE DEF q
    <3>4. CASE done[t] = 0
      BY <2>3, <3>1, <3>2, <3>4 DEF Follows
    <3>5. CASE done[t] # 0
      <4>1. PICK j \in q : (\A k \in q : k <= j) /\ out[sink][j][3] = done[t]
        BY <3>2, <3>5
      <4>2. out'[sink][n + 1][2] = out'[sink][j][3] + 1
        BY <3>1, <3>3, <4>1
      <4> QED
        BY <2>3, <3>1, <4>1, <4>2 DEF Follows
    <3> QED
      BY <3>4, <3>5
  <2>4. s = sink => i \in 1 .. n \/ i = n + 1
    BY <1>5
  <2> QED
    BY <1>5, <2>2, <2>3, <2>4
<1> QED
  BY <1>11, <1>12, <1>13, <1>14, <1>15 DEF Traced

LEMMA OthersKeepTraced ==
    ASSUME Shape, Traced, NEW t \in Threads, Call(t), ~Write(t)
    PROVE  Traced'
<1>1. /\ out' = out /\ short' = short
      /\ \A u \in Threads : u # t => /\ pc'[u] = pc[u] /\ lines'[u] = lines[u]
                                     /\ line'[u] = line[u] /\ done'[u] = done[u]
      /\ lines'[t] \in {lines[t], lines[t] + 1}
      /\ pc'[t] \in Sinks => done'[t] = 0
      /\ \/ /\ pc[t] = "idle" /\ pc'[t] = "clock" /\ lines'[t] = lines[t] + 1
         \/ /\ pc[t] # "idle" /\ pc'[t] # "clock" /\ lines'[t] = lines[t]
            /\ Ahead(t)' \subseteq Ahead(t)
            /\ pc'[t] \in Sinks => pc'[t] \in Ahead(t)
  <2>1. CASE Log(t)
    BY <2>1 DEF Log, Goto, outVars, Shape, Types, Sinks
  <2>2. CASE BuildForFile(t)
    BY <2>2 DEF BuildForFile, Goto, outVars, Shape, Types, Sinks, Ahead
  <2>3. CASE BuildForStdout(t)
    BY <2>3 DEF BuildForStdout, Goto, outVars, Shape, Types, Sinks, Ahead
  <2>4. CASE Fail(t)
    <3>1. /\ pc[t] \in Sinks /\ Go(t, "colour") /\ UNCHANGED <<lines, out, short>>
          /\ done' = [done EXCEPT ![t] = 0]
      BY <2>4 DEF Fail
    <3>2. /\ pc' = [pc EXCEPT ![t] = IF pc[t] = "file" THEN "colour" ELSE "idle"]
          /\ \A u \in Threads : u # t => line'[u] = line[u]
      BY <3>1, Goes DEF Shape
    <3> QED
      BY <3>1, <3>2 DEF Shape, Types, Sinks, Ahead
  <2>5. CASE Sync(t)
    BY <2>5 DEF Sync, Goto, Shape, Types, Sinks, Ahead
  <2> QED
    BY <2>1, <2>2, <2>3, <2>4, <2>5 DEF Call
<1>2. lines \in [Threads -> Nat] /\ \A u \in Threads : lines'[u] \in Nat /\ lines[u] <= lines'[u]
  <2>1. lines \in [Threads -> Nat]
    BY DEF Shape, Types
  <2>2. ASSUME NEW u \in Threads PROVE lines'[u] \in Nat /\ lines[u] <= lines'[u]
    <3>1. lines[u] \in Nat /\ lines'[u] \in {lines[u], lines[u] + 1}
      BY <1>1, <2>1
    <3> QED
      BY <3>1
  <2> QED
    BY <2>1, <2>2
<1>3. Logging'
  <2>1. \A u \in Threads : Busy(u)' => lines'[u] > 0
    BY <1>1, <1>2 DEF Traced, Logging, Busy
  <2>2. ASSUME NEW s \in Sinks, NEW i \in DOMAIN out[s]
        PROVE  out[s][i][1][2] \in 1 .. lines'[out[s][i][1][1]]
    <3> DEFINE id == out[s][i][1]
    <3>1. id \in Ids
      <4>1. out[s] \in Seq(Piece4)
        BY DEF Shape, Types
      <4>2. out[s][i] \in Piece4
        BY <4>1
      <4> QED
        BY <4>2 DEF Piece4
    <3>2. id[2] \in 1 .. lines[id[1]]
      BY DEF Traced, Logging
    <3>3. id[1] \in Threads /\ id[2] \in Nat
      BY <3>1 DEF Ids
    <3> HIDE DEF id
    <3>4. id[2] \in 1 .. lines'[id[1]]
      BY <1>2, <3>2, <3>3
    <3> QED
      BY <3>4 DEF id
  <2> QED
    BY <1>1, <2>1, <2>2 DEF Logging
<1>4. Unsplit'
  <2>1. \A u \in Threads : u # t => Id(u)' = Id(u)
    BY <1>1 DEF Id
  <2>2. \A u \in Threads : pc'[u] \in Sinks /\ done'[u] > 0 => u # t
    BY <1>1
  <2> QED
    BY <1>1, <2>1, <2>2 DEF Traced, Unsplit
<1>5. UnsplitLinesAreWhole' /\ Contiguous'
  BY <1>1 DEF Traced, UnsplitLinesAreWhole, Contiguous, GoesOn, Places
<1>6. Progress'
  <2> SUFFICES ASSUME NEW u \in Threads
               PROVE  /\ \A s \in Ahead(u)' : At(out', s, Id(u)') = {}
                      /\ pc'[u] \in Sinks =>
                           LET q == At(out', pc'[u], Id(u)')
                           IN IF done'[u] = 0 THEN q = {}
                              ELSE \E j \in q : /\ \A k \in q : k <= j
                                                /\ out'[pc'[u]][j][3] = done'[u]
                                                /\ out'[pc'[u]][j][4] = Len(line'[u])
    BY DEF Progress, Places, At
  <2>1. /\ \A s \in Ahead(u) : At(out, s, Id(u)) = {}
        /\ pc[u] \in Sinks =>
             LET q == At(out, pc[u], Id(u))
             IN IF done[u] = 0 THEN q = {}
                ELSE \E j \in q : /\ \A k \in q : k <= j
                                  /\ out[pc[u]][j][3] = done[u]
                                  /\ out[pc[u]][j][4] = Len(line[u])
    BY DEF Traced, Progress, Places, At
  <2>2. CASE u # t
    BY <1>1, <2>1, <2>2 DEF Ahead, Id
  <2>3. CASE u = t /\ pc[t] = "idle"
    <3>1. Id(t)' = <<t, lines[t] + 1>> /\ pc'[t] = "clock"
      BY <1>1, <2>3 DEF Id
    <3>2. \A s \in Sinks : At(out, s, Id(t)') = {}
      <4> SUFFICES ASSUME NEW s \in Sinks, NEW i \in DOMAIN out[s],
                          out[s][i][1] = <<t, lines[t] + 1>>
                   PROVE  FALSE
        BY <3>1 DEF At
      <4>1. lines[t] + 1 \in 1 .. lines[t]
        BY DEF Traced, Logging
      <4> QED
        BY <1>2, <4>1
    <3>3. Ahead(t)' \subseteq Sinks /\ pc'[t] \notin Sinks
      BY <3>1 DEF Ahead, Sinks
    <3> QED
      BY <1>1, <2>3, <3>2, <3>3
  <2>4. CASE u = t /\ pc[t] # "idle"
    <3>1. Id(t)' = Id(t) /\ Ahead(t)' \subseteq Ahead(t)
          /\ (pc'[t] \in Sinks => pc'[t] \in Ahead(t) /\ done'[t] = 0)
      BY <1>1, <2>4 DEF Id
    <3> QED
      BY <1>1, <2>1, <2>4, <3>1
  <2> QED
    BY <2>2, <2>3, <2>4
<1> QED
  BY <1>3, <1>4, <1>5, <1>6 DEF Traced

LEMMA TracedHolds == Spec => [](Shape /\ Traced)
<1>1. Shape /\ Shape' /\ Traced /\ [Next]_vars => Traced'
  <2> SUFFICES ASSUME Shape, Traced, [Next]_vars PROVE Traced'
    OBVIOUS
  <2>1. CASE Reload
    BY <2>1, ReloadLeavesPieces, SameTraced
  <2>2. ASSUME NEW t \in Threads, Call(t) PROVE Traced'
    BY <2>2, WriteKeepsTraced, OthersKeepTraced
  <2>3. CASE UNCHANGED vars
    BY <2>3, SameTraced DEF vars, callVars, outVars
  <2> QED
    BY <2>1, <2>2, <2>3 DEF Next
<1> QED
  BY <1>1, ShapeHolds, InitTraced, PTL DEF Spec

\* Lines never tear: a line of which write(2) took all it was given is in one piece of
\* its output, whatever the other threads write and however the settings change.
THEOREM UnsplitCorrect == Spec => []UnsplitLinesAreWhole
<1>1. Traced => UnsplitLinesAreWhole
  BY DEF Traced
<1> QED
  BY <1>1, TracedHolds, PTL

----------------------------------------------------------------------------
(* What is on disk.                                                        *)

\* A call that is still writing a line has not ended it.
LEMMA Unended ==
    ASSUME Shape, Traced, NEW t \in Threads, pc[t] \in Sinks
    PROVE  ~Ended(out, pc[t], Id(t))
<1> DEFINE q == At(out, pc[t], Id(t))
<1>1. done[t] < Len(line[t]) /\ done[t] \in Nat
  BY DEF Shape, Shaped, Types
<1>2. IF done[t] = 0 THEN q = {}
      ELSE \E j \in q : /\ \A k \in q : k <= j
                        /\ out[pc[t]][j][3] = done[t]
                        /\ out[pc[t]][j][4] = Len(line[t])
  BY DEF Traced, Progress, Places, At
<1>3. q \subseteq Nat
  <2>1. out[pc[t]] \in Seq(Piece4)
    BY DEF Shape, Types
  <2> QED
    BY <2>1 DEF At
<1>4. SUFFICES ASSUME NEW i \in q, \A j \in q : j <= i, out[pc[t]][i][3] = out[pc[t]][i][4]
               PROVE  FALSE
  BY DEF Ended
<1> HIDE DEF q
<1>5. PICK j \in q : /\ \A k \in q : k <= j
                     /\ out[pc[t]][j][3] = done[t]
                     /\ out[pc[t]][j][4] = Len(line[t])
  BY <1>2, <1>4
<1>6. i = j
  <2>1. i <= j /\ j <= i /\ i \in Nat /\ j \in Nat
    BY <1>3, <1>4, <1>5
  <2> QED
    BY <2>1
<1> QED
  BY <1>1, <1>4, <1>5, <1>6

\* A write ends the line, and the call goes on, or leaves both for the next write.
LEMMA WriteEnds ==
    ASSUME Shape, NEW t \in Threads, Write(t)
    PROVE  /\ \A s \in Sinks : \A x : s # pc[t] \/ x # Id(t) =>
                 /\ At(out', s, x) = At(out, s, x)
                 /\ Ended(out', s, x) <=> Ended(out, s, x)
           /\ \/ /\ UNCHANGED <<pc, rec, inForce>>
                 /\ ~Ended(out', pc[t], Id(t))
              \/ /\ Ended(out', pc[t], Id(t))
                 /\ pc' = [pc EXCEPT ![t] = IF pc[t] = "file" THEN "sync" ELSE "idle"]
                 /\ \A u \in Threads : u # t => rec'[u] = rec[u] /\ inForce'[u] = inForce[u]
<1> DEFINE sink == pc[t]
           id   == Id(t)
           size == Len(line[t])
           n    == Len(out[sink])
<1>1. sink \in Sinks
  BY Writes
<1>2. PICK to \in Nat :
        /\ done[t] + 1 <= to /\ to <= size
        /\ out' = [out EXCEPT ![sink] = Append(@, <<id, done[t] + 1, to, size>>)]
        /\ done' = [done EXCEPT ![t] = IF to = size THEN 0 ELSE to]
        /\ IF to = size THEN short' = short /\ Go(t, "sync")
           ELSE /\ short' = short \cup {<<sink, id>>}
                /\ UNCHANGED <<pc, spec, inForce, rec, line>>
  BY Writes
<1> DEFINE p == <<id, done[t] + 1, to, size>>
<1>3. /\ done[t] \in Nat /\ size \in Nat /\ id \in Ids /\ out \in [Sinks -> Seq(Piece4)]
  BY <1>1 DEF Shape, Types, Lines, Id, Ids
<1>4. p \in Piece4 /\ p[1] = id /\ p[3] = to /\ p[4] = size
  <2> HIDE DEF id, size
  <2>1. done[t] + 1 \in Nat
    BY <1>3
  <2> QED
    BY <1>2, <1>3, <2>1 DEF Piece4
<1>5. Appended(out, out', sink, p, n)
  <2>1. n = Len(out[sink]) /\ out' = [out EXCEPT ![sink] = Append(@, p)]
    BY <1>2
  <2> HIDE DEF p, sink, n, id, size
  <2> QED
    BY <1>1, <1>3, <1>4, <2>1, PlacesOfAppend
<1>6. /\ \A s \in Sinks : \A x : s # sink \/ x # id =>
            /\ At(out', s, x) = At(out, s, x)
            /\ Ended(out', s, x) <=> Ended(out, s, x)
      /\ Ended(out', sink, id) <=> to = size
  <2> HIDE DEF p, sink, id, size, n
  <2> QED
    BY <1>4, <1>5 DEF Appended
<1>7. CASE to = size
  BY <1>1, <1>2, <1>6, <1>7, Goes DEF Shape
<1>8. CASE to # size
  BY <1>2, <1>6, <1>8
<1> QED
  BY <1>7, <1>8

LEMMA StepKeepsDurable ==
    ASSUME Shape, Shape', Traced, SevereLinesAreDurable, Next
    PROVE  SevereLinesAreDurable'
<1> SUFFICES ASSUME NEW u \in Threads,
                    pc'[u] \in {"colour", "stdout"},
                    rec'[u].level \in Severe,
                    Ended(out', "file", Id(u)'),
                    \A f \in inForce'[u] : f.settings.flush,
                    NEW i \in At(out', "file", Id(u)')
             PROVE  i <= durable'
  BY DEF SevereLinesAreDurable, Complete, Places, Ended, At
<1>1. /\ pc[u] \in {"colour", "stdout"}
      /\ rec[u].level \in Severe
      /\ Ended(out, "file", Id(u))
      /\ \A f \in inForce[u] : f.settings.flush
      /\ i \in At(out, "file", Id(u))
      => i <= durable
  BY DEF SevereLinesAreDurable, Complete, Places, Ended, At
<1>2. "file" \in Sinks /\ "stdout" \in Sinks
  BY DEF Sinks
<1>3. CASE Reload
  <2>1. /\ UNCHANGED <<pc, lines, rec, out, durable>>
        /\ inForce[u] \subseteq inForce'[u]
    BY <1>3, ReloadLeavesPieces
  <2>2. Id(u)' = Id(u)
    BY <2>1 DEF Id
  <2> QED
    BY <1>1, <2>1, <2>2
<1>4. ASSUME NEW t \in Threads, Write(t)
      PROVE  i <= durable'
  <2>1. /\ pc[t] \in Sinks /\ lines' = lines /\ durable' = durable
        /\ Id(u)' = Id(u) /\ (u # t => Id(u) # Id(t))
    BY <1>4, Writes DEF Id
  <2>2. /\ \A s \in Sinks : \A x : s # pc[t] \/ x # Id(t) =>
              /\ At(out', s, x) = At(out, s, x)
              /\ Ended(out', s, x) <=> Ended(out, s, x)
        /\ \/ /\ UNCHANGED <<pc, rec, inForce>>
              /\ ~Ended(out', pc[t], Id(t))
           \/ /\ Ended(out', pc[t], Id(t))
              /\ pc' = [pc EXCEPT ![t] = IF pc[t] = "file" THEN "sync" ELSE "idle"]
              /\ \A v \in Threads : v # t => rec'[v] = rec[v] /\ inForce'[v] = inForce[v]
    BY <1>4, WriteEnds
  <2>3. pc'[u] = pc[u] /\ rec'[u] = rec[u] /\ inForce'[u] = inForce[u]
    BY <2>2 DEF Shape, Types
  <2>4. CASE u # t
    BY <1>1, <1>2, <2>1, <2>2, <2>3, <2>4
  <2>5. CASE u = t
    <3>1. pc[t] = "stdout"
      BY <2>1, <2>3, <2>5 DEF Sinks
    <3> QED
      BY <1>1, <1>2, <2>1, <2>2, <2>3, <2>5, <3>1
  <2> QED
    BY <2>4, <2>5
<1>5. ASSUME NEW t \in Threads, Call(t), ~Write(t), u # t
      PROVE  i <= durable'
  <2>1. /\ pc'[u] = pc[u] /\ lines'[u] = lines[u] /\ rec'[u] = rec[u] /\ out' = out
        /\ inForce'[u] = inForce[u]
        /\ durable' \in {durable, Len(out["file"])}
    <3>1. CASE Log(t) \/ BuildForFile(t) \/ BuildForStdout(t) \/ Sync(t)
      <4>1. CASE Log(t)
        BY <1>5, <4>1 DEF Log, Goto, outVars, Shape, Types
      <4>2. CASE BuildForFile(t)
        BY <1>5, <4>2 DEF BuildForFile, Goto, outVars, Shape, Types
      <4>3. CASE BuildForStdout(t)
        BY <1>5, <4>3 DEF BuildForStdout, Goto, outVars, Shape, Types
      <4>4. CASE Sync(t)
        BY <1>5, <4>4 DEF Sync, Goto, Shape, Types
      <4> QED
        BY <3>1, <4>1, <4>2, <4>3, <4>4
    <3>2. CASE Fail(t)
      <4>1. pc[t] \in Sinks /\ Go(t, "colour") /\ UNCHANGED <<lines, out, durable>>
        BY <3>2 DEF Fail
      <4>2. /\ pc' = [pc EXCEPT ![t] = IF pc[t] = "file" THEN "colour" ELSE "idle"]
            /\ \A v \in Threads : v # t => rec'[v] = rec[v] /\ inForce'[v] = inForce[v]
        BY <4>1, Goes DEF Shape
      <4> QED
        BY <1>5, <4>1, <4>2 DEF Shape, Types
    <3> QED
      BY <1>5, <3>1, <3>2 DEF Call
  <2>2. Id(u)' = Id(u)
    BY <2>1 DEF Id
  <2>3. i \in 1 .. Len(out["file"])
    <3>1. out["file"] \in Seq(Piece4)
      BY DEF Shape, Types, Sinks
    <3>2. i \in DOMAIN out["file"]
      BY <1>2, <2>1 DEF At
    <3> QED
      BY <3>1, <3>2
  <2>4. i <= durable
    BY <1>1, <2>1, <2>2
  <2> QED
    BY <2>1, <2>3, <2>4
<1>6. ASSUME Call(u), ~Write(u)
      PROVE  i <= durable'
  <2>1. CASE Log(u) \/ BuildForFile(u)
    BY <2>1 DEF Log, BuildForFile, Goto, Shape, Types
  <2>2. CASE BuildForStdout(u)
    <3>1. pc[u] = "colour" /\ UNCHANGED <<lines, rec, inForce, out, durable>>
      BY <2>2 DEF BuildForStdout, outVars
    <3>2. Id(u)' = Id(u)
      BY <3>1 DEF Id
    <3> QED
      BY <1>1, <3>1, <3>2
  <2>3. CASE Fail(u)
    <3>1. pc[u] \in Sinks /\ Go(u, "colour") /\ UNCHANGED <<lines, out, durable>>
      BY <2>3 DEF Fail
    <3>2. pc' = [pc EXCEPT ![u] = IF pc[u] = "file" THEN "colour" ELSE "idle"]
      BY <3>1, Goes DEF Shape
    <3>3. pc[u] = "file"
      BY <3>1, <3>2 DEF Shape, Types
    <3>4. Id(u)' = Id(u)
      BY <3>1 DEF Id
    <3> QED
      BY <3>1, <3>3, <3>4, Unended
  <2>4. CASE Sync(u)
    <3>1. /\ pc[u] = "sync" /\ UNCHANGED <<lines, rec, inForce, out>>
          /\ durable' = IF flush /\ rec[u].level \in Severe THEN Len(out["file"]) ELSE durable
      BY <2>4 DEF Sync, ToSync
    <3>2. InForce \subseteq inForce[u]
      BY <3>1 DEF Shape, Held, Busy
    <3>3. flush
      <4>1. CASE storing = "flush"
        <5>1. previous \in inForce[u] /\ flush = previous.settings.flush
          BY <3>2, <4>1 DEF InForce, Shape, Published
        <5> QED
          BY <3>1, <5>1
      <4>2. CASE storing # "flush"
        <5>1. Now \in inForce[u] /\ flush = Now.settings.flush
          BY <3>2, <4>2 DEF InForce, Now, Shape, Published
        <5> QED
          BY <3>1, <5>1
      <4> QED
        BY <4>1, <4>2
    <3>4. durable' = Len(out["file"])
      BY <3>1, <3>3
    <3>5. i \in 1 .. Len(out["file"])
      BY <1>2, <3>1 DEF At, Shape, Types
    <3> QED
      BY <3>4, <3>5
  <2> QED
    BY <1>6, <2>1, <2>2, <2>3, <2>4 DEF Call
<1> QED
  BY <1>3, <1>4, <1>5, <1>6 DEF Next

\* fdatasync is called for a severe line that was written to its file before the call
\* goes on, if all the settings in force during the call ask for it, also when a reload
\* had stored only some of them, and whatever other threads append behind it.
THEOREM SevereCorrect == Spec => []SevereLinesAreDurable
<1>1. Init => SevereLinesAreDurable
  BY DEF Init, SevereLinesAreDurable
<1>2. Shape /\ Shape' /\ Traced /\ SevereLinesAreDurable /\ [Next]_vars => SevereLinesAreDurable'
  <2>1. CASE UNCHANGED vars
    BY <2>1 DEF vars, callVars, outVars, SevereLinesAreDurable, Complete, Places, Id
  <2> QED
    BY <2>1, StepKeepsDurable
<1> QED
  BY <1>1, <1>2, TracedHolds, PTL DEF Spec

----------------------------------------------------------------------------
(* What is counted.                                                        *)

\* The lines of each output that a call has left unfinished.
GivenUp(at, ls, o, sink, id) ==
    /\ id[2] \in 1 .. ls[id[1]]
    /\ \/ id[2] < ls[id[1]]
       \/ at[id[1]] = "idle"
       \/ sink = "file" /\ at[id[1]] \in {"sync", "colour", "stdout"}
    /\ ~Ended(o, sink, id)
LostOf(at, ls, o) == {x \in Sinks \X Ids : GivenUp(at, ls, o, x[1], x[2])}
LoggedOf(ls)      == UNION {{t} \X (1 .. ls[t]) : t \in Threads}

LEMMA LoggedLines ==
    ASSUME NEW ls \in [Threads -> Nat]
    PROVE  LoggedOf(ls) = {id \in Ids : id[2] \in 1 .. ls[id[1]]}
<1>1. ASSUME NEW id \in LoggedOf(ls) PROVE id \in Ids /\ id[2] \in 1 .. ls[id[1]]
  <2>1. PICK t \in Threads : id \in {t} \X (1 .. ls[t])
    BY DEF LoggedOf
  <2>2. ls[t] \in Nat
    OBVIOUS
  <2> QED
    BY <2>1, <2>2 DEF Ids
<1>2. ASSUME NEW id \in Ids, id[2] \in 1 .. ls[id[1]] PROVE id \in LoggedOf(ls)
  <2>1. id[1] \in Threads /\ id \in {id[1]} \X (1 .. ls[id[1]])
    BY <1>2 DEF Ids
  <2> QED
    BY <2>1 DEF LoggedOf
<1> QED
  BY <1>1, <1>2

LEMMA LostIs == Types => Lost = LostOf(pc, lines, out)
<1> SUFFICES ASSUME Types PROVE Lost = LostOf(pc, lines, out)
  OBVIOUS
<1>1. Logged = {id \in Ids : id[2] \in 1 .. lines[id[1]]}
  BY LoggedLines DEF Logged, LoggedOf, Types
<1>2. Lost = {x \in Sinks \X Logged : Past(x[1], x[2]) /\ ~Ended(out, x[1], x[2])}
  BY DEF Lost, Complete, Places, Ended, At
<1> QED
  BY <1>1, <1>2 DEF LostOf, GivenUp, Past

CountOf(at, ls, o, n) == IsFiniteSet(LostOf(at, ls, o)) /\ n = Cardinality(LostOf(at, ls, o))
Counting == resets = 0 => CountOf(pc, lines, out, drops)

LEMMA InitCounting == Init => Counting
<1> SUFFICES ASSUME Init PROVE LostOf(pc, lines, out) = {} /\ drops = 0
  BY FS_EmptySet DEF Counting, CountOf
<1>1. \A t \in Threads : lines[t] = 0
  BY DEF Init
<1>2. \A id \in Ids : ~(id[2] \in 1 .. lines[id[1]])
  BY <1>1 DEF Ids
<1> QED
  BY <1>2 DEF Init, LostOf, GivenUp

\* Steps that leave the lines as they are: a call that moves on, or starts.
LEMMA CallCounts ==
    ASSUME Shape, Shape', Traced, Counting, NEW t \in Threads, Call(t)
    PROVE  Counting'
<1>1. UNCHANGED resets
  BY CallKeepsPublished DEF historyVars
<1>2. SUFFICES ASSUME CountOf(pc, lines, out, drops)
               PROVE  CountOf(pc', lines', out', drops')
  BY <1>1 DEF Counting
<1> DEFINE lost == LostOf(pc, lines, out)
<1>3. IsFiniteSet(lost) /\ drops = Cardinality(lost) /\ drops \in Nat
  BY <1>2 DEF CountOf, Shape, Types
<1>4. lines \in [Threads -> Nat] /\ pc \in [Threads -> Steps]
  BY DEF Shape, Types
<1>5. CASE Fail(t)
  <2> DEFINE x == <<pc[t], Id(t)>>
  <2>1. /\ pc[t] \in Sinks /\ Go(t, "colour") /\ UNCHANGED <<lines, out>>
        /\ drops' = drops + 1
    BY <1>5 DEF Fail
  <2>2. pc' = [pc EXCEPT ![t] = IF pc[t] = "file" THEN "colour" ELSE "idle"]
    BY <2>1, Goes DEF Shape
  <2>3. ~Ended(out, pc[t], Id(t))
    BY <2>1, Unended
  <2>4. lines[t] > 0 /\ lines[t] \in Nat
    BY <1>4, <2>1 DEF Traced, Logging, Busy, Sinks
  <2>5. x \in Sinks \X Ids /\ x[1] = pc[t] /\ x[2] = <<t, lines[t]>>
    BY <1>4, <2>1 DEF Id, Ids
  <2>6. x \notin lost
    BY <2>1, <2>5 DEF LostOf, GivenUp, Sinks
  <2>7. GivenUp(pc', lines', out', x[1], x[2])
    <3>1. pc'[t] = IF pc[t] = "file" THEN "colour" ELSE "idle"
      BY <1>4, <2>2
    <3>2. lines[t] \in 1 .. lines[t]
      BY <2>4
    <3>3. x[1] = "file" \/ pc'[t] = "idle"
      BY <2>1, <2>5, <3>1 DEF Sinks
    <3> QED
      BY <2>1, <2>3, <2>5, <3>1, <3>2, <3>3 DEF GivenUp, Id
  <2>8. ASSUME NEW s \in Sinks, NEW id \in Ids, <<s, id>> # x
        PROVE  GivenUp(pc', lines', out', s, id) <=> GivenUp(pc, lines, out, s, id)
    <3>1. CASE id[1] # t
      <4>1. pc'[id[1]] = pc[id[1]]
        BY <1>4, <2>2, <3>1 DEF Ids
      <4> QED
        BY <2>1, <4>1 DEF GivenUp
    <3>2. CASE id[1] = t /\ id[2] # lines[t]
      <4>1. id[2] \in 1 .. lines[t] => id[2] < lines[t]
        BY <2>4, <3>2
      <4> QED
        BY <2>1, <3>2, <4>1 DEF GivenUp
    <3>3. CASE id[1] = t /\ id[2] = lines[t]
      <4>1. id = Id(t) /\ s # pc[t]
        BY <2>8, <3>3 DEF Id, Ids
      <4>2. ~(lines[t] < lines[t])
        BY <2>4
      <4>3. pc'[t] = IF pc[t] = "file" THEN "colour" ELSE "idle"
        BY <1>4, <2>2
      <4>4. (s = "file" /\ pc[t] = "stdout") \/ (s = "stdout" /\ pc[t] = "file")
        BY <2>1, <4>1 DEF Sinks
      <4> QED
        BY <2>1, <3>3, <4>2, <4>3, <4>4 DEF GivenUp
    <3> QED
      BY <3>1, <3>2, <3>3
  <2> HIDE DEF x
  <2>9. LostOf(pc', lines', out') = lost \cup {x}
    BY <2>5, <2>7, <2>8 DEF LostOf
  <2> HIDE DEF lost
  <2>10. IsFiniteSet(lost \cup {x}) /\ Cardinality(lost \cup {x}) = Cardinality(lost) + 1
    BY <1>3, <2>6, FS_AddElement
  <2> QED
    BY <1>3, <2>1, <2>9, <2>10 DEF CountOf
<1>6. CASE ~Fail(t)
  <2>1. drops' = drops
    BY <1>6 DEF Call, Log, BuildForFile, BuildForStdout, Write, Sync, outVars
  <2> SUFFICES ASSUME NEW s \in Sinks, NEW id \in Ids
               PROVE  GivenUp(pc', lines', out', s, id) <=> GivenUp(pc, lines, out, s, id)
    <3>1. LostOf(pc', lines', out') = LostOf(pc, lines, out)
      BY DEF LostOf
    <3> QED
      BY <1>2, <2>1, <3>1 DEF CountOf
  <2>2. lines[t] \in Nat /\ id[1] \in Threads /\ id[2] \in Nat
    BY <1>4 DEF Ids
  <2>3. CASE Log(t)
    <3>1. /\ pc[t] = "idle" /\ out' = out
          /\ lines' = [lines EXCEPT ![t] = @ + 1] /\ pc' = [pc EXCEPT ![t] = "clock"]
      BY <2>3 DEF Log, Goto, outVars
    <3>2. CASE id[1] # t
      BY <1>4, <2>2, <3>1, <3>2 DEF GivenUp
    <3>3. CASE id[1] = t
      <4>1. lines'[t] = lines[t] + 1 /\ pc'[t] = "clock"
        BY <1>4, <3>1
      <4>2. id[2] \in 1 .. lines[t] + 1 /\ id[2] < lines[t] + 1 <=> id[2] \in 1 .. lines[t]
        BY <2>2
      <4> QED
        BY <3>1, <3>3, <4>1, <4>2 DEF GivenUp
    <3> QED
      BY <3>2, <3>3
  <2>4. CASE BuildForFile(t) \/ BuildForStdout(t) \/ Sync(t)
    <3>1. /\ out' = out /\ lines' = lines
          /\ \/ pc[t] = "clock" /\ pc' = [pc EXCEPT ![t] = "file"]
             \/ pc[t] = "colour" /\ pc' = [pc EXCEPT ![t] = "stdout"]
             \/ pc[t] = "sync" /\ pc' = [pc EXCEPT ![t] = "colour"]
      BY <2>4 DEF BuildForFile, BuildForStdout, Sync, Goto, outVars
    <3>2. pc'[id[1]] = pc[id[1]] \/ id[1] = t
      BY <1>4, <2>2, <3>1
    <3> QED
      BY <1>4, <2>2, <3>1, <3>2 DEF GivenUp
  <2>5. CASE Write(t)
    <3>1. pc[t] \in Sinks /\ lines' = lines
      BY <2>5, Writes
    <3>2. /\ \A r \in Sinks : \A x : r # pc[t] \/ x # Id(t) =>
                /\ At(out', r, x) = At(out, r, x)
                /\ Ended(out', r, x) <=> Ended(out, r, x)
          /\ \/ /\ UNCHANGED <<pc, rec, inForce>>
                /\ ~Ended(out', pc[t], Id(t))
             \/ /\ Ended(out', pc[t], Id(t))
                /\ pc' = [pc EXCEPT ![t] = IF pc[t] = "file" THEN "sync" ELSE "idle"]
                /\ \A u \in Threads : u # t => rec'[u] = rec[u] /\ inForce'[u] = inForce[u]
      BY <2>5, WriteEnds
    <3>3. ~Ended(out, pc[t], Id(t))
      BY <3>1, Unended
    <3>4. \A u \in Threads : u # t => pc'[u] = pc[u]
      BY <1>4, <3>2
    <3>5. ~(lines[t] < lines[t])
      BY <2>2
    <3>6. CASE id[1] # t
      <4>1. id # Id(t)
        BY <3>6 DEF Id
      <4> QED
        BY <2>2, <3>1, <3>2, <3>4, <3>6, <4>1 DEF GivenUp
    <3>7. CASE id[1] = t /\ id[2] # lines[t]
      <4>1. id # Id(t)
        BY <3>7 DEF Id
      <4>2. id[2] \in 1 .. lines[t] => id[2] < lines[t]
        BY <2>2, <3>7
      <4> QED
        BY <3>1, <3>2, <3>7, <4>1, <4>2 DEF GivenUp
    <3>8. CASE id[1] = t /\ id[2] = lines[t]
      <4>1. id = Id(t)
        BY <3>8 DEF Id, Ids
      <4>2. CASE UNCHANGED pc /\ ~Ended(out', pc[t], Id(t))
        <5>1. Ended(out', s, id) <=> Ended(out, s, id)
          BY <3>2, <3>3, <4>1, <4>2
        <5> QED
          BY <3>1, <4>2, <5>1 DEF GivenUp
      <4>3. CASE /\ Ended(out', pc[t], Id(t))
                 /\ pc' = [pc EXCEPT ![t] = IF pc[t] = "file" THEN "sync" ELSE "idle"]
        <5>1. pc'[t] = IF pc[t] = "file" THEN "sync" ELSE "idle"
          BY <1>4, <4>3
        <5>2. CASE s = pc[t]
          <6>1. Ended(out', s, id)
            BY <4>1, <4>3, <5>2
          <6>2. pc[t] \notin {"idle", "sync", "colour"} /\ (s = "file" => pc[t] # "stdout")
            BY <3>1, <5>2 DEF Sinks
          <6> QED
            BY <3>5, <3>8, <6>1, <6>2 DEF GivenUp
        <5>3. CASE s # pc[t]
          <6>1. Ended(out', s, id) <=> Ended(out, s, id)
            BY <3>2, <5>3
          <6>2. (s = "file" /\ pc[t] = "stdout") \/ (s = "stdout" /\ pc[t] = "file")
            BY <3>1, <5>3 DEF Sinks
          <6> QED
            BY <3>1, <3>5, <3>8, <5>1, <6>1, <6>2 DEF GivenUp
        <5> QED
          BY <5>2, <5>3
      <4> QED
        BY <3>2, <4>2, <4>3
    <3> QED
      BY <3>6, <3>7, <3>8
  <2> QED
    BY <1>6, <2>3, <2>4, <2>5 DEF Call
<1> QED
  BY <1>5, <1>6

LEMMA CountingHolds == Spec => [](Shape /\ Traced /\ Counting)
<1>1. Shape /\ Shape' /\ Traced /\ Counting /\ [Next]_vars => Counting'
  <2> SUFFICES ASSUME Shape, Shape', Traced, Counting, [Next]_vars PROVE Counting'
    OBVIOUS
  <2>1. CASE Reload
    <3>1. /\ UNCHANGED <<pc, lines, out>>
          /\ resets' # 0 \/ UNCHANGED <<resets, drops>>
      BY <2>1, ReloadLeavesPieces
    <3> QED
      BY <3>1 DEF Counting
  <2>2. ASSUME NEW t \in Threads, Call(t) PROVE Counting'
    BY <2>2, CallCounts
  <2>3. CASE UNCHANGED vars
    BY <2>3 DEF vars, callVars, outVars, historyVars, Counting
  <2> QED
    BY <2>1, <2>2, <2>3 DEF Next
<1> QED
  BY <1>1, InitCounting, TracedHolds, PTL DEF Spec

\* The pieces of a line are its bytes in order, each once, and once no call is under
\* way every line is complete or counted as dropped, on each output, as long as no
\* reset cleared the count: whatever was written short, failed or reconfigured.
THEOREM LinesCorrect == Spec => []LinesAreCompleteOrCounted
<1>1. Shape /\ Traced /\ Counting => LinesAreCompleteOrCounted
  <2> SUFFICES ASSUME Shape, Traced, Counting PROVE LinesAreCompleteOrCounted
    OBVIOUS
  <2>1. ASSUME resets = 0, \A t \in Threads : ~Busy(t)
        PROVE  drops = Cardinality({o \in Sinks \X Logged : ~Complete(o[1], o[2])})
    <3>1. Lost = {o \in Sinks \X Logged : ~Complete(o[1], o[2])}
      <4>1. Logged = {id \in Ids : id[2] \in 1 .. lines[id[1]]}
        BY LoggedLines DEF Logged, LoggedOf, Shape, Types
      <4>2. \A sink \in Sinks : \A id \in Logged : Past(sink, id)
        BY <2>1, <4>1 DEF Past, Busy, Ids
      <4> QED
        BY <4>2 DEF Lost
    <3>2. Lost = LostOf(pc, lines, out)
      BY LostIs DEF Shape
    <3> QED
      BY <2>1, <3>1, <3>2 DEF Counting, CountOf
  <2> QED
    BY <2>1 DEF Traced, Contiguous, LinesAreCompleteOrCounted
<1> QED
  BY <1>1, CountingHolds, PTL

----------------------------------------------------------------------------
(* Where the tokens of a pattern start.                                    *)

\* The percent signs that end at each character.
LEMMA RunsOfPercents ==
    ASSUME NEW p \in Seq(Letters), NEW i \in 0 .. Len(p)
    PROVE  \E n \in 0 .. i : /\ \A j \in i - n + 1 .. i : p[j] = "%"
                             /\ i - n >= 1 => p[i - n] # "%"
<1> DEFINE Ends(h, n) == /\ \A j \in h - n + 1 .. h : p[j] = "%"
                         /\ h - n >= 1 => p[h - n] # "%"
           s == {h \in 0 .. Len(p) : \E n \in 0 .. h : Ends(h, n)}
<1>1. Len(p) \in Nat
  OBVIOUS
<1>2. 0 \in s
  <2>1. Ends(0, 0)
    OBVIOUS
  <2> HIDE DEF Ends
  <2>2. 0 \in 0 .. 0 /\ 0 \in 0 .. Len(p)
    BY <1>1
  <2> QED
    BY <2>1, <2>2
<1>3. ASSUME NEW h \in 0 .. Len(p) - 1, h \in s
      PROVE  h + 1 \in s
  <2>1. PICK n \in 0 .. h : Ends(h, n)
    BY <1>3
  <2>2. CASE p[h + 1] = "%"
    <3>1. \A j \in (h + 1) - (n + 1) + 1 .. h + 1 : p[j] = "%"
      <4> SUFFICES ASSUME NEW j \in (h + 1) - (n + 1) + 1 .. h + 1 PROVE p[j] = "%"
        OBVIOUS
      <4>1. j = h + 1 \/ j \in h - n + 1 .. h
        OBVIOUS
      <4> QED
        BY <2>1, <2>2, <4>1
    <3>2. (h + 1) - (n + 1) = h - n /\ n + 1 \in 0 .. h + 1
      OBVIOUS
    <3>3. Ends(h + 1, n + 1)
      BY <2>1, <3>1, <3>2
    <3> HIDE DEF Ends
    <3> QED
      BY <1>1, <3>2, <3>3
  <2>3. CASE p[h + 1] # "%"
    <3>1. Ends(h + 1, 0)
      BY <2>3
    <3> HIDE DEF Ends
    <3> QED
      BY <1>1, <3>1
  <2> QED
    BY <2>2, <2>3
<1>4. \A k \in 0 .. Len(p) : k \in s
  <2> HIDE DEF s
  <2> QED
    BY <1>1, <1>2, <1>3, UpTo
<1> QED
  BY <1>4

\* A token starts at a percent sign that is not itself the second character of one.
LEMMA StartsAlternate ==
    ASSUME NEW p \in Seq(Letters), NEW i \in 1 .. Len(p) - 1
    PROVE  StartsToken(p, i) <=> p[i] = "%" /\ ~StartsToken(p, i - 1)
<1> DEFINE Ends(h, n) == /\ \A j \in h - n + 1 .. h : p[j] = "%"
                         /\ h - n >= 1 => p[h - n] # "%"
<1>0. Len(p) \in Nat
  OBVIOUS
<1>1. \A h \in 1 .. Len(p) - 1 :
        StartsToken(p, h) <=> p[h] = "%" /\ \E n \in 1 .. h : n % 2 = 1 /\ Ends(h, n)
  BY DEF StartsToken
<1>2. ASSUME NEW h \in 1 .. Len(p), NEW m \in 1 .. h, NEW n \in 1 .. h, Ends(h, m), Ends(h, n)
      PROVE  m = n
  <2>1. ~(m < n)
    <3> SUFFICES ASSUME m < n PROVE FALSE
      OBVIOUS
    <3>1. h - m \in h - n + 1 .. h /\ h - m >= 1
      OBVIOUS
    <3> QED
      BY <1>2, <3>1
  <2>2. ~(n < m)
    <3> SUFFICES ASSUME n < m PROVE FALSE
      OBVIOUS
    <3>1. h - n \in h - m + 1 .. h /\ h - n >= 1
      OBVIOUS
    <3> QED
      BY <1>2, <3>1
  <2> QED
    BY <2>1, <2>2
<1>3. ASSUME NEW n \in 1 .. i, Ends(i, n), n > 1
      PROVE  n - 1 \in 1 .. i - 1 /\ Ends(i - 1, n - 1) /\ p[i - 1] = "%"
  <2>1. i - 1 \in i - n + 1 .. i
    BY <1>3
  <2>2. (i - 1) - (n - 1) = i - n /\ \A j \in (i - 1) - (n - 1) + 1 .. i - 1 : j \in i - n + 1 .. i
    BY <1>3
  <2> QED
    BY <1>3, <2>1, <2>2
<1>4. ~StartsToken(p, 0)
  BY DEF StartsToken
<1>5. ASSUME p[i] = "%", ~StartsToken(p, i - 1)
      PROVE  StartsToken(p, i)
  <2>0. i \in 0 .. Len(p)
    OBVIOUS
  <2>1. PICK n \in 0 .. i : Ends(i, n)
    BY <2>0, RunsOfPercents
  <2>2. n # 0
    BY <1>5, <2>1
  <2>3. CASE n = 1
    <3>1. n % 2 = 1
      BY <2>3
    <3> HIDE DEF Ends
    <3> QED
      BY <1>1, <1>5, <2>1, <2>3, <3>1
  <2>4. CASE n > 1
    <3>1. n - 1 \in 1 .. i - 1 /\ Ends(i - 1, n - 1) /\ p[i - 1] = "%"
      BY <1>3, <2>1, <2>2, <2>4
    <3>2. i - 1 \in 1 .. Len(p) - 1
      BY <2>4
    <3> HIDE DEF Ends
    <3>3. ~((n - 1) % 2 = 1)
      BY <1>1, <1>5, <3>1, <3>2
    <3>4. n % 2 = 1
      BY <3>3
    <3>5. n \in 1 .. i
      BY <2>2
    <3> QED
      BY <1>1, <1>5, <2>1, <3>4, <3>5
  <2> QED
    BY <2>2, <2>3, <2>4
<1>6. ASSUME StartsToken(p, i)
      PROVE  p[i] = "%" /\ ~StartsToken(p, i - 1)
  <2> SUFFICES ASSUME StartsToken(p, i - 1) PROVE FALSE
    BY <1>6 DEF StartsToken
  <2>1. i - 1 \in 1 .. Len(p) - 1
    BY DEF StartsToken
  <2>2. PICK m \in 1 .. i - 1 : m % 2 = 1 /\ Ends(i - 1, m) /\ p[i - 1] = "%"
    <3> HIDE DEF Ends
    <3> QED
      BY <1>1, <2>1
  <2>3. PICK n \in 1 .. i : n % 2 = 1 /\ Ends(i, n)
    <3> HIDE DEF Ends
    <3> QED
      BY <1>1, <1>6
  <2>4. n > 1
    <3> SUFFICES ASSUME n = 1 PROVE FALSE
      OBVIOUS
    <3>1. i - n >= 1 /\ i - n = i - 1
      BY <2>1
    <3> QED
      BY <2>2, <2>3, <3>1
  <2>5. n - 1 \in 1 .. i - 1 /\ Ends(i - 1, n - 1)
    BY <1>3, <2>3, <2>4
  <2>6. n - 1 = m
    <3> HIDE DEF Ends
    <3>1. i - 1 \in 1 .. Len(p)
      BY <2>1
    <3> QED
      BY <1>2, <2>2, <2>5, <3>1
  <2> QED
    BY <2>2, <2>3, <2>6
<1> QED
  BY <1>5, <1>6

----------------------------------------------------------------------------
(* What is shown, piece by piece.                                          *)

\* Sequences joined from the left.
LEMMA FlattenGrows ==
    ASSUME NEW S, NEW ss \in Seq(Seq(S)), NEW n \in Nat, n = Len(ss)
    PROVE  \E w \in [0 .. n -> Seq(S)] :
             /\ w[0] = <<>>
             /\ \A k \in 1 .. n : w[k] = w[k - 1] \o ss[k]
             /\ FlattenSeq(ss) = w[n]
<1> DEFINE is(f)      == f = [i \in 1 .. n |-> IF i = 1 THEN ss[i] ELSE f[i - 1] \o ss[i]]
           grows(w, m) == /\ w \in [0 .. m -> Seq(S)]
                          /\ w[0] = <<>>
                          /\ \A k \in 1 .. m : w[k] = w[k - 1] \o ss[k]
           s == {m \in 0 .. n : \E w : grows(w, m)}
<1>0. \A k \in 1 .. n : ss[k] \in Seq(S)
  OBVIOUS
<1>1. 0 \in s
  <2> DEFINE w == [k \in 0 .. 0 |-> <<>>]
  <2>1. grows(w, 0)
    OBVIOUS
  <2> HIDE DEF w, grows
  <2>2. \E v : grows(v, 0)
    BY <2>1
  <2> QED
    BY <2>2
<1>2. ASSUME NEW m \in 0 .. n - 1, m \in s
      PROVE  m + 1 \in s
  <2>1. PICK w : grows(w, m)
    BY <1>2
  <2> DEFINE new == w[m] \o ss[m + 1]
             v   == [k \in 0 .. m + 1 |-> IF k = m + 1 THEN new ELSE w[k]]
  <2>2. new \in Seq(S)
    <3>1. w[m] \in Seq(S) /\ ss[m + 1] \in Seq(S)
      BY <1>0, <2>1
    <3> QED
      BY <3>1
  <2>3. v \in [0 .. m + 1 -> Seq(S)] /\ v[0] = <<>>
    <3> HIDE DEF new
    <3> QED
      BY <2>1, <2>2
  <2>4. ASSUME NEW k \in 1 .. m + 1 PROVE v[k] = v[k - 1] \o ss[k]
    <3>1. v[k - 1] = w[k - 1]
      OBVIOUS
    <3>2. CASE k = m + 1
      <4>1. v[m + 1] = new
        <5> HIDE DEF new
        <5> QED
          OBVIOUS
      <4>2. k - 1 = m
        BY <3>2
      <4> QED
        BY <3>1, <3>2, <4>1, <4>2
    <3>3. CASE k # m + 1
      <4>1. k \in 1 .. m /\ v[k] = w[k]
        BY <3>3
      <4> QED
        BY <2>1, <3>1, <4>1
    <3> QED
      BY <3>2, <3>3
  <2>5. grows(v, m + 1)
    BY <2>3, <2>4
  <2> HIDE DEF v, grows
  <2>6. \E u : grows(u, m + 1)
    BY <2>5
  <2> QED
    BY <2>6
<1>3. n \in s
  <2> HIDE DEF s
  <2>1. \A k \in 0 .. n : k \in s
    BY <1>1, <1>2, UpTo
  <2> QED
    BY <2>1
<1>4. PICK w : grows(w, n)
  BY <1>3
<1>5. CASE n = 0
  <2>1. FlattenSeq(ss) = <<>>
    <3>1. ss = <<>>
      BY <1>5, EmptySeq
    <3> QED
      BY <1>5, <3>1 DEF FlattenSeq
  <2>2. w \in [0 .. n -> Seq(S)] /\ w[0] = <<>> /\ w[n] = <<>>
    BY <1>4, <1>5
  <2> QED
    BY <1>4, <1>5, <2>1, <2>2
<1>6. CASE n > 0
  <2> DEFINE f == CHOOSE f : is(f)
  <2>1. FlattenSeq(ss) = f[n]
    BY <1>6 DEF FlattenSeq
  <2>2. is([k \in 1 .. n |-> w[k]])
    <3>1. ASSUME NEW k \in 1 .. n
          PROVE  w[k] = IF k = 1 THEN ss[k] ELSE w[k - 1] \o ss[k]
      <4>1. w[k] = w[k - 1] \o ss[k]
        BY <1>4
      <4>2. k = 1 => w[k] = ss[k]
        <5> SUFFICES ASSUME k = 1 PROVE w[k] = ss[k]
          OBVIOUS
        <5>1. w[k - 1] = <<>> /\ ss[k] \in Seq(S)
          BY <1>0, <1>4
        <5> QED
          BY <4>1, <5>1
      <4> QED
        BY <4>1, <4>2
    <3> HIDE DEF grows
    <3> DEFINE g == [k \in 1 .. n |-> w[k]]
    <3>2. \A k \in 1 .. n : g[k] = IF k = 1 THEN ss[k] ELSE g[k - 1] \o ss[k]
      <4> SUFFICES ASSUME NEW k \in 1 .. n
                   PROVE  g[k] = IF k = 1 THEN ss[k] ELSE g[k - 1] \o ss[k]
        OBVIOUS
      <4>1. k # 1 => g[k - 1] = w[k - 1]
        OBVIOUS
      <4> QED
        BY <3>1, <4>1
    <3>3. DOMAIN g = 1 .. n
      OBVIOUS
    <3>4. g = [k \in 1 .. n |-> g[k]]
      OBVIOUS
    <3> HIDE DEF g
    <3>5. is(g)
      BY <3>2, <3>4
    <3> QED
      BY <3>5 DEF g
  <2>3. is(f)
    <3> HIDE DEF is
    <3> QED
      BY <2>2
  <2>4. \A k \in 1 .. n : f[k] = IF k = 1 THEN ss[k] ELSE f[k - 1] \o ss[k]
    <3> HIDE DEF f
    <3> QED
      BY <2>3
  <2> DEFINE t == {k \in 0 .. n - 1 : f[k + 1] = w[k + 1]}
             joined(a, k) == a \o ss[k]
  <2> HIDE DEF f
  <2>9. \A k \in 1 .. n : /\ k # 1 => f[k] = joined(f[k - 1], k)
                         /\ w[k] = joined(w[k - 1], k)
    BY <1>4, <2>4
  <2>5. 0 \in t
    <3>1. f[1] = ss[1]
      BY <1>6, <2>4
    <3>2. w[1] = w[0] \o ss[1] /\ w[0] = <<>> /\ ss[1] \in Seq(S)
      <4>1. 1 \in 1 .. n /\ 1 - 1 = 0
        BY <1>6
      <4> QED
        BY <1>0, <1>4, <4>1
    <3>3. w[1] = ss[1]
      BY <3>2
    <3> QED
      BY <1>6, <3>1, <3>3
  <2>6. ASSUME NEW k \in 0 .. n - 1 - 1, k \in t
        PROVE  k + 1 \in t
    <3>1. PICK h : h = k + 1
      OBVIOUS
    <3>2. h \in 0 .. n - 1 /\ h + 1 \in 1 .. n /\ h + 1 - 1 = h /\ h + 1 # 1
      BY <3>1
    <3> HIDE DEF joined
    <3>3. f[h + 1] = joined(f[h], h + 1)
      <4>1. f[h + 1] = joined(f[h + 1 - 1], h + 1)
        BY <2>9, <3>2
      <4> QED
        BY <3>2, <4>1
    <3>4. w[h + 1] = joined(w[h], h + 1)
      BY <2>9, <3>2
    <3>5. f[h] = w[h]
      BY <2>6, <3>1
    <3>6. f[h + 1] = w[h + 1]
      BY <3>3, <3>4, <3>5
    <3> QED
      BY <3>1, <3>2, <3>6
  <2>7. \A k \in 0 .. n - 1 : k \in t
    <3> HIDE DEF t
    <3>1. n - 1 \in Nat
      BY <1>6
    <3> QED
      BY <2>5, <2>6, <3>1, UpTo
  <2>8. f[n] = w[n]
    <3>1. n - 1 \in 0 .. n - 1 /\ n - 1 + 1 = n
      BY <1>6
    <3>2. n - 1 \in t
      BY <2>7, <3>1
    <3> QED
      BY <3>1, <3>2
  <2> QED
    BY <1>4, <2>1, <2>8
<1>7. n = 0 \/ n > 0
  OBVIOUS
<1> QED
  BY <1>5, <1>6, <1>7

----------------------------------------------------------------------------
(* What a line keeps of the bytes put into it.                             *)

\* What of a text of bytes is kept in a line's buffer, and what Put keeps of it.
Fitting(w) == IF Len(w) > MaxLine - 1 THEN SubSeq(w, 1, MaxLine - 1) ELSE w
Kept(acc, w) ==
    /\ acc \in Partial
    /\ acc.out = Fitting(w)
    /\ acc.trunc <=> Len(w) > MaxLine - 1

LEMMA StartOfConcat ==
    ASSUME NEW S, NEW s \in Seq(S), NEW t \in Seq(S), NEW m \in 0 .. Len(s) + Len(t)
    PROVE  SubSeq(s \o t, 1, m) = IF m <= Len(s) THEN SubSeq(s, 1, m)
                                  ELSE s \o SubSeq(t, 1, m - Len(s))
<1> DEFINE u == s \o t
<1>1. /\ u \in Seq(S) /\ Len(u) = Len(s) + Len(t)
      /\ \A i \in 1 .. Len(s) + Len(t) : u[i] = IF i <= Len(s) THEN s[i] ELSE t[i - Len(s)]
  BY ConcatProperties
<1>2. Len(s) \in Nat /\ Len(t) \in Nat /\ m \in Nat
  OBVIOUS
<1> HIDE DEF u
<1>3. /\ SubSeq(u, 1, m) \in Seq(S) /\ Len(SubSeq(u, 1, m)) = m
      /\ \A i \in 1 .. m : SubSeq(u, 1, m)[i] = u[i]
  <2>1. \A i \in 1 .. m : u[i] \in S
    BY <1>1, <1>2
  <2> QED
    BY <1>2, <2>1, SubSeqProperties
<1>4. CASE m <= Len(s)
  <2> DEFINE v == SubSeq(s, 1, m)
  <2>1. \A i \in 1 .. m : s[i] \in S
    BY <1>2, <1>4
  <2>2. v \in Seq(S) /\ Len(v) = m /\ \A i \in 1 .. m : v[i] = s[i]
    BY <1>2, <2>1, SubSeqProperties
  <2> HIDE DEF v
  <2>3. \A i \in 1 .. m : SubSeq(u, 1, m)[i] = v[i]
    BY <1>1, <1>2, <1>3, <1>4, <2>2
  <2>4. SubSeq(u, 1, m) = v
    BY <1>3, <2>2, <2>3, SeqEqual
  <2> QED
    BY <1>4, <2>4 DEF u, v
<1>5. CASE m > Len(s)
  <2> DEFINE n == m - Len(s)
             v == SubSeq(t, 1, n)
             x == s \o v
  <2>1. n \in 1 .. Len(t)
    BY <1>2, <1>5
  <2> HIDE DEF n
  <2>2. v \in Seq(S) /\ Len(v) = n /\ \A i \in 1 .. n : v[i] = t[i]
    <3>1. \A i \in 1 .. n : t[i] \in S
      BY <1>2, <2>1
    <3> QED
      BY <2>1, <3>1, SubSeqProperties
  <2> HIDE DEF v
  <2>3. /\ x \in Seq(S) /\ Len(x) = m
        /\ \A i \in 1 .. m : x[i] = IF i <= Len(s) THEN s[i] ELSE v[i - Len(s)]
    <3>1. Len(s) + n = m
      BY <1>2 DEF n
    <3> QED
      BY <2>2, <3>1, ConcatProperties
  <2> HIDE DEF x
  <2>4. ASSUME NEW i \in 1 .. m PROVE SubSeq(u, 1, m)[i] = x[i]
    <3>1. u[i] = IF i <= Len(s) THEN s[i] ELSE t[i - Len(s)]
      BY <1>1, <1>2
    <3>2. x[i] = IF i <= Len(s) THEN s[i] ELSE v[i - Len(s)]
      BY <2>3
    <3>3. i > Len(s) => i - Len(s) \in 1 .. n
      BY <1>2 DEF n
    <3> QED
      BY <1>2, <1>3, <2>2, <3>1, <3>2, <3>3
  <2>5. SubSeq(u, 1, m) = x
    BY <1>3, <2>3, <2>4, SeqEqual
  <2> QED
    BY <1>2, <1>5, <2>5 DEF u, x, v, n
<1> QED
  BY <1>2, <1>4, <1>5

\* Bytes are joined in any order.
LEMMA BytesAssociate ==
    ASSUME NEW t \in Seq(Byte), NEW u \in Seq(Byte), NEW v \in Seq(Byte)
    PROVE  (t \o u) \o v = t \o (u \o v)
  BY ConcatAssociative

LEMMA TwoInOne ==
    ASSUME NEW x, NEW y
    PROVE  <<x>> \o <<y>> = <<x, y>>
<1> DEFINE S == {x, y}
<1>1. <<x>> \in Seq(S) /\ <<y>> \in Seq(S) /\ <<x, y>> \in Seq(S)
  OBVIOUS
<1>2. Len(<<x>>) = 1 /\ Len(<<y>>) = 1 /\ Len(<<x, y>>) = 2
  OBVIOUS
<1>3. /\ <<x>> \o <<y>> \in Seq(S) /\ Len(<<x>> \o <<y>>) = 2
      /\ \A i \in 1 .. 2 : (<<x>> \o <<y>>)[i] = IF i <= 1 THEN <<x>>[i] ELSE <<y>>[i - 1]
  <2> HIDE DEF S
  <2> QED
    BY <1>1, <1>2, ConcatProperties
<1> DEFINE u == <<x>> \o <<y>>
           v == <<x, y>>
<1>4. \A i \in 1 .. 2 : u[i] = v[i]
  BY <1>3
<1> HIDE DEF u, v, S
<1> QED
  BY <1>1, <1>2, <1>3, <1>4, SeqEqual DEF u, v

LEMMA PutKeeps ==
    ASSUME NEW w \in Seq(Byte), NEW b \in Seq(Byte), NEW acc, Kept(acc, w)
    PROVE  Kept(Put(acc, b), w \o b)
<1> DEFINE m    == MaxLine - 1
           room == m - Len(acc.out)
           wb   == w \o b
           acc2 == Put(acc, b)
<1>1. m \in Nat /\ Len(w) \in Nat /\ Len(b) \in Nat
  BY SizesAssumption
<1>2. wb \in Seq(Byte) /\ Len(wb) = Len(w) + Len(b)
  BY ConcatProperties
<1>3. acc.out = Fitting(w) /\ (acc.trunc <=> Len(w) > m) /\ acc \in Partial
  BY DEF Kept
<1>4. Fitting(wb) = IF Len(wb) > m THEN SubSeq(wb, 1, m) ELSE wb
  BY DEF Fitting
<1>5. acc2 \in Partial
  BY <1>3, PutKeepsRoom
<1>6. SUFFICES acc2.out = Fitting(wb) /\ (acc2.trunc <=> Len(wb) > m)
  BY <1>5 DEF Kept
<1>7. CASE Len(w) > m
  <2>1. acc2 = acc
    BY <1>3, <1>7 DEF Put
  <2>2. m \in 0 .. Len(w) + Len(b) /\ m <= Len(w) /\ Len(wb) > m
    BY <1>1, <1>2, <1>7
  <2>3. Fitting(wb) = Fitting(w)
    <3>1. SubSeq(wb, 1, m) = SubSeq(w, 1, m)
      <4> HIDE DEF m
      <4> QED
        BY <2>2, StartOfConcat
    <3> QED
      BY <1>4, <1>7, <2>2, <3>1 DEF Fitting
  <2> QED
    BY <1>3, <1>7, <2>1, <2>2, <2>3
<1>8. CASE ~(Len(w) > m)
  <2>1. acc.out = w /\ ~acc.trunc
    BY <1>3, <1>8 DEF Fitting
  <2>2. CASE Len(b) <= room
    <3>1. acc2.out = wb /\ ~acc2.trunc
      <4>1. acc2 = [acc EXCEPT !.out = @ \o b]
        BY <2>1, <2>2 DEF Put
      <4> HIDE DEF acc2
      <4> QED
        BY <1>3, <2>1, <4>1 DEF Partial
    <3>2. ~(Len(wb) > m)
      <4> HIDE DEF wb
      <4> QED
        BY <1>1, <1>2, <2>1, <2>2
    <3> HIDE DEF wb, acc2
    <3> QED
      BY <1>4, <3>1, <3>2
  <2>3. CASE ~(Len(b) <= room)
    <3>1. acc2.out = w \o SubSeq(b, 1, room) /\ acc2.trunc
      BY <2>1, <2>3 DEF Put
    <3>2. Len(wb) > m /\ m \in 0 .. Len(w) + Len(b) /\ room = m - Len(w)
      BY <1>1, <1>2, <1>8, <2>1, <2>3
    <3>3. SubSeq(wb, 1, m) = w \o SubSeq(b, 1, room)
      <4>1. CASE m > Len(w)
        <5> HIDE DEF m, room
        <5> QED
          BY <1>1, <3>2, <4>1, StartOfConcat
      <4>2. CASE m = Len(w)
        <5>1. SubSeq(wb, 1, m) = SubSeq(w, 1, m)
          <6> HIDE DEF m
          <6> QED
            BY <1>1, <3>2, <4>2, StartOfConcat
        <5>2. SubSeq(w, 1, m) = w
          <6> HIDE DEF m
          <6> QED
            BY <4>2, SubSeqFull
        <5>3. SubSeq(b, 1, room) = <<>>
          <6>1. room < 1 /\ room \in Int
            BY <1>1, <3>2, <4>2
          <6> HIDE DEF room
          <6> QED
            BY <6>1, SubSeqEmpty
        <5>4. w \o <<>> = w
          BY ConcatEmptySeq
        <5> HIDE DEF room, m, wb
        <5> QED
          BY <5>1, <5>2, <5>3, <5>4
      <4>3. m > Len(w) \/ m = Len(w)
        BY <1>1, <1>8
      <4> HIDE DEF room, m, wb
      <4> QED
        BY <4>1, <4>2, <4>3
    <3> HIDE DEF wb, acc2
    <3> QED
      BY <1>4, <3>1, <3>2, <3>3
  <2> QED
    BY <2>2, <2>3
<1> QED
  BY <1>7, <1>8

Joined(a, b) == a \o b
Literal(c)   == <<"Literal", c>>
Field(c)     == <<FieldFor[c], "">>

\* A character of a pattern shows what its token adds to a line.
LEMMA ShownIs ==
    ASSUME NEW p \in Seq(Letters), NEW i \in 1 .. Len(p), NEW sp, NEW r, NEW colored
    PROVE  /\ StartsToken(p, i - 1) => Shown(p, i, sp.start, r, colored) = <<>>
           /\ ~StartsToken(p, i - 1) /\ ~StartsToken(p, i) =>
                Shown(p, i, sp.start, r, colored) = Bytes(sp, r, colored, Literal(p[i]))
           /\ StartsToken(p, i) /\ p[i + 1] = "%" =>
                Shown(p, i, sp.start, r, colored) = Bytes(sp, r, colored, Literal("%"))
           /\ StartsToken(p, i) /\ p[i + 1] \in DOMAIN FieldFor =>
                Shown(p, i, sp.start, r, colored)
                  = Bytes(sp, r, colored, Field(p[i + 1]))
           /\ StartsToken(p, i) /\ p[i + 1] # "%" /\ p[i + 1] \notin DOMAIN FieldFor =>
                Shown(p, i, sp.start, r, colored)
                  = Joined(Bytes(sp, r, colored, Literal("%")),
                           Bytes(sp, r, colored, Literal(p[i + 1])))
<1> DEFINE v      == Shown(p, i, sp.start, r, colored)
           b(tok) == Bytes(sp, r, colored, tok)
           c      == p[i + 1]
<1>0. Len(p) \in Nat
  OBVIOUS
<1>1. StartsToken(p, i) => ~StartsToken(p, i - 1)
  <2> SUFFICES ASSUME StartsToken(p, i) PROVE ~StartsToken(p, i - 1)
    OBVIOUS
  <2>1. i \in 1 .. Len(p) - 1
    BY DEF StartsToken
  <2> QED
    BY <2>1, StartsAlternate
<1>2. StartsToken(p, i - 1) => v = <<>>
  BY <1>1 DEF Shown
<1>3. ~StartsToken(p, i - 1) /\ ~StartsToken(p, i) => v = b(Literal(p[i]))
  BY DEF Shown, Bytes, Literal, Field
<1>4. ASSUME StartsToken(p, i), c = "%" PROVE v = b(Literal("%"))
  BY <1>1, <1>4 DEF Shown, Bytes, Literal, Field, FieldFor
<1>5. ASSUME StartsToken(p, i), c \in DOMAIN FieldFor PROVE v = b(Field(c))
  <2>1. c \in {"L", "f", "m", "M", "t", "e", "p", "T", "F", "#"}
    BY <1>5 DEF FieldFor
  <2>2. CASE c = "L"
    <3>1. FieldFor[c] = "Level"
      BY <2>2 DEF FieldFor
    <3> QED
      BY <1>1, <1>5, <2>2, <3>1 DEF Shown, Bytes, Literal, Field
  <2>3. CASE c = "m"
    <3>1. FieldFor[c] = "Msg"
      BY <2>3 DEF FieldFor
    <3> QED
      BY <1>1, <1>5, <2>3, <3>1 DEF Shown, Bytes, Literal, Field
  <2>4. CASE c = "t"
    <3>1. FieldFor[c] = "Time"
      BY <2>4 DEF FieldFor
    <3> QED
      BY <1>1, <1>5, <2>4, <3>1 DEF Shown, Bytes, Literal, Field
  <2>5. CASE c = "e"
    <3>1. FieldFor[c] = "Elapsed"
      BY <2>5 DEF FieldFor
    <3> QED
      BY <1>1, <1>5, <2>5, <3>1 DEF Shown, Bytes, Literal, Field
  <2>6. CASE c \in {"f", "M", "p", "T", "F", "#"}
    <3>1. FieldFor[c] \in {"Func", "Module", "Pid", "Tid", "File", "Line"}
      BY <2>6 DEF FieldFor
    <3>2. v = <<<<"field", FieldFor[c]>>>>
      BY <1>1, <1>5, <2>6 DEF Shown
    <3>3. b(Field(c)) = <<<<"field", FieldFor[c]>>>>
      BY <3>1 DEF Bytes, Field
    <3> QED
      BY <3>2, <3>3
  <2> QED
    BY <2>1, <2>2, <2>3, <2>4, <2>5, <2>6
<1>6. ASSUME StartsToken(p, i), c # "%", c \notin DOMAIN FieldFor
      PROVE  v = Joined(b(Literal("%")), b(Literal(c)))
  <2>1. c \notin {"L", "f", "m", "M", "t", "e", "p", "T", "F", "#"}
    BY <1>6 DEF FieldFor
  <2>2. v = Chars("char", <<"%", c>>)
    BY <1>1, <1>6, <2>1 DEF Shown
  <2>3. v = <<<<"char", "%">>, <<"char", c>>>>
    BY <2>2 DEF Chars
  <2>4. b(Literal("%")) = <<<<"char", "%">>>> /\ b(Literal(c)) = <<<<"char", c>>>>
    BY DEF Bytes, Literal
  <2>5. <<<<"char", "%">>>> \o <<<<"char", c>>>> = <<<<"char", "%">>, <<"char", c>>>>
    BY TwoInOne
  <2> QED
    BY <2>3, <2>4, <2>5 DEF Joined
<1> QED
  BY <1>2, <1>3, <1>4, <1>5, <1>6
LEMMA PlainIsShown ==
    ASSUME NEW p \in Seq(Letters), NEW sp, NEW r, NEW colored
    PROVE  \A i \in 1 .. Len(p) :
             ~StartsToken(p, i - 1) /\ ~StartsToken(p, i) =>
               Shown(p, i, sp.start, r, colored) = Bytes(sp, r, colored, Literal(p[i]))
BY ShownIs

----------------------------------------------------------------------------
(* What the scan of a pattern puts into a line.                            *)

\* The tokens of a pattern that follow the first k.
Rest(ts, k, q) ==
    /\ Len(q) = Len(ts) - k
    /\ \A h \in 1 .. Len(q) : ts[k + h] = q[h]

LEMMA OneTokenOn ==
    ASSUME NEW sp, sp.start \in Times, sp.tokens \in Seq(Token), NEW r \in Taken, NEW colored,
           NEW k \in 0 .. Len(sp.tokens), NEW token \in Token, NEW q \in Seq(Token),
           Rest(sp.tokens, k, <<token>> \o q),
           NEW x \in Seq(Byte), Kept(LineUpTo(sp, r, colored)[k], x)
    PROVE  /\ k + 1 \in 0 .. Len(sp.tokens)
           /\ Rest(sp.tokens, k + 1, q)
           /\ x \o Bytes(sp, r, colored, token) \in Seq(Byte)
           /\ Kept(LineUpTo(sp, r, colored)[k + 1], x \o Bytes(sp, r, colored, token))
<1> DEFINE n  == Len(sp.tokens)
           tq == <<token>> \o q
           b  == Bytes(sp, r, colored, token)
           f  == LineUpTo(sp, r, colored)
<1>0. n \in Nat /\ Len(q) \in Nat /\ k \in Nat
  OBVIOUS
<1>1. /\ Len(tq) = 1 + Len(q)
      /\ tq[1] = token
      /\ \A h \in 1 .. Len(q) : tq[1 + h] = q[h]
  <2>1. <<token>> \in Seq(Token) /\ Len(<<token>>) = 1 /\ <<token>>[1] = token
    OBVIOUS
  <2>2. /\ Len(tq) = 1 + Len(q)
        /\ \A i \in 1 .. 1 + Len(q) : tq[i] = IF i <= 1 THEN <<token>>[i] ELSE q[i - 1]
    BY <2>1, ConcatProperties
  <2> HIDE DEF tq
  <2>3. \A h \in 1 .. Len(q) : tq[1 + h] = q[h]
    <3> SUFFICES ASSUME NEW h \in 1 .. Len(q) PROVE tq[1 + h] = q[h]
      OBVIOUS
    <3>1. PICK i : i = 1 + h
      OBVIOUS
    <3>2. i \in 1 .. 1 + Len(q) /\ ~(i <= 1) /\ i - 1 = h
      BY <1>0, <3>1
    <3>3. tq[i] = q[i - 1]
      BY <2>2, <3>2
    <3> QED
      BY <3>1, <3>2, <3>3
  <2> QED
    BY <1>0, <2>1, <2>2, <2>3
<1> HIDE DEF tq
<1>2. Len(tq) = n - k /\ \A h \in 1 .. Len(tq) : sp.tokens[k + h] = tq[h]
  BY DEF Rest, tq
<1> HIDE DEF n
<1>3. k + 1 \in 0 .. n /\ k + 1 \in 1 .. n /\ k + 1 - 1 = k
  BY <1>0, <1>1, <1>2
<1>4. Rest(sp.tokens, k + 1, q)
  <2>1. Len(q) = n - (k + 1)
    <3>1. PICK m : m = Len(q) /\ m \in Nat
      BY <1>0
    <3>2. 1 + m = n - k
      BY <1>1, <1>2, <3>1
    <3>3. m = n - (k + 1)
      BY <1>0, <3>1, <3>2
    <3> QED
      BY <3>1, <3>3
  <2>2. ASSUME NEW h \in 1 .. Len(q) PROVE sp.tokens[k + 1 + h] = q[h]
    <3>1. 1 + h \in 1 .. Len(tq) /\ k + 1 + h = k + (1 + h)
      BY <1>0, <1>1
    <3>2. sp.tokens[k + (1 + h)] = tq[1 + h]
      BY <1>2, <3>1
    <3> QED
      BY <1>1, <3>1, <3>2
  <2> QED
    BY <2>1, <2>2 DEF Rest, n
<1>5. sp.tokens[k + 1] = token
  <2>1. 1 \in 1 .. Len(tq)
    BY <1>0, <1>1
  <2> QED
    BY <1>1, <1>2, <2>1
<1>6. b \in Seq(Byte)
  BY TokensShow
<1>7. f[k + 1] = Put(f[k], b)
  <2>1. \A i \in 1 .. n : f[i] = Put(f[i - 1], Bytes(sp, r, colored, sp.tokens[i]))
    BY <1>0, LineGrows DEF n
  <2> HIDE DEF f
  <2>2. f[k + 1] = Put(f[k], Bytes(sp, r, colored, sp.tokens[k + 1]))
    BY <1>3, <2>1
  <2> QED
    BY <1>5, <2>2
<1>8. Kept(f[k + 1], x \o b)
  <2> HIDE DEF b, f
  <2>1. Kept(Put(f[k], b), x \o b)
    BY <1>6, PutKeeps DEF f
  <2> QED
    BY <1>7, <2>1
<1>9. x \o b \in Seq(Byte)
  <2> HIDE DEF b
  <2> QED
    BY <1>6
<1> QED
  BY <1>3, <1>4, <1>8, <1>9 DEF n

LEMMA ShownIsBytes ==
    ASSUME NEW p \in Seq(Letters), NEW i \in 1 .. Len(p), NEW sp, sp.start \in Times,
           NEW r \in Taken, NEW colored
    PROVE  Shown(p, i, sp.start, r, colored) \in Seq(Byte)
<1> DEFINE v      == Shown(p, i, sp.start, r, colored)
           b(tok) == Bytes(sp, r, colored, tok)
           c      == p[i + 1]
<1>1. \A tok \in Token : b(tok) \in Seq(Byte)
  BY TokensShow
<1>2. \A l \in Letters : Literal(l) \in Token
  BY DEF Token, Literal
<1>3. "%" \in Letters /\ p[i] \in Letters
  <2>1. "%" \in Letters
    BY DEF Letters
  <2> QED
    BY <2>1
<1>4. StartsToken(p, i) => c \in Letters
  BY DEF StartsToken
<1>5. c \in DOMAIN FieldFor => Field(c) \in Token
  BY FieldsAreNamed DEF Token, Field
<1>6. /\ StartsToken(p, i - 1) => v = <<>>
      /\ ~StartsToken(p, i - 1) /\ ~StartsToken(p, i) => v = b(Literal(p[i]))
      /\ StartsToken(p, i) /\ c = "%" => v = b(Literal("%"))
      /\ StartsToken(p, i) /\ c \in DOMAIN FieldFor => v = b(Field(c))
      /\ StartsToken(p, i) /\ c # "%" /\ c \notin DOMAIN FieldFor
            => v = Joined(b(Literal("%")), b(Literal(c)))
  BY ShownIs
<1> HIDE DEF v, b, c
<1>7. CASE StartsToken(p, i - 1)
  <2>1. <<>> \in Seq(Byte)
    OBVIOUS
  <2> QED
    BY <1>6, <1>7, <2>1 DEF v
<1>8. CASE ~StartsToken(p, i - 1) /\ ~StartsToken(p, i)
  <2>1. b(Literal(p[i])) \in Seq(Byte)
    BY <1>1, <1>2, <1>3
  <2> QED
    BY <1>6, <1>8, <2>1 DEF v
<1>9. CASE StartsToken(p, i) /\ c = "%"
  <2>1. b(Literal("%")) \in Seq(Byte)
    BY <1>1, <1>2, <1>3
  <2> QED
    BY <1>6, <1>9, <2>1 DEF v
<1>10. CASE StartsToken(p, i) /\ c \in DOMAIN FieldFor
  <2>1. b(Field(c)) \in Seq(Byte)
    BY <1>1, <1>5, <1>10
  <2> QED
    BY <1>6, <1>10, <2>1 DEF v
<1>11. CASE StartsToken(p, i) /\ c # "%" /\ c \notin DOMAIN FieldFor
  <2>1. b(Literal("%")) \in Seq(Byte) /\ b(Literal(c)) \in Seq(Byte)
    BY <1>1, <1>2, <1>3, <1>4, <1>11
  <2>2. Joined(b(Literal("%")), b(Literal(c))) \in Seq(Byte)
    BY <2>1, ConcatProperties DEF Joined
  <2> QED
    BY <1>6, <1>11, <2>2 DEF v
<1> QED
  BY <1>7, <1>8, <1>9, <1>10, <1>11

\* The same of bytes.
LEMMA BytesGrow ==
    ASSUME NEW ss \in Seq(Seq(Byte)), NEW n \in Nat, n = Len(ss)
    PROVE  \E w \in [0 .. n -> Seq(Byte)] :
             /\ w[0] = <<>>
             /\ \A k \in 1 .. n : w[k] = Joined(w[k - 1], ss[k])
             /\ FlattenSeq(ss) = w[n]
<1>1. \E w \in [0 .. n -> Seq(Byte)] :
        /\ w[0] = <<>>
        /\ \A k \in 1 .. n : w[k] = w[k - 1] \o ss[k]
        /\ FlattenSeq(ss) = w[n]
  BY FlattenGrows
<1> QED
  BY <1>1 DEF Joined

\* Read from the left, the tokens give what the documentation says of each character.
LEMMA ScanShows ==
    ASSUME NEW p \in Seq(Letters), NEW sp, sp.start \in Times, sp.tokens = Tokens(p),
           NEW r \in Taken, NEW colored
    PROVE  /\ AllShown(p, sp.start, r, colored) \in Seq(Byte)
           /\ Kept(LineUpTo(sp, r, colored)[Len(sp.tokens)], AllShown(p, sp.start, r, colored))
<1> DEFINE n    == Len(p)
           show(i) == Shown(p, i, sp.start, r, colored)
           ss   == [i \in 1 .. n |-> show(i)]
           f    == LineUpTo(sp, r, colored)
           b(token) == Bytes(sp, r, colored, token)
           m    == Len(sp.tokens)
<1>0. n \in Nat
  OBVIOUS
<1>p. \A i \in 1 .. n : ~StartsToken(p, i - 1) /\ ~StartsToken(p, i)
                         => show(i) = b(Literal(p[i]))
  BY PlainIsShown
<1>1. ss \in Seq(Seq(Byte)) /\ Len(ss) = n /\ \A k \in 1 .. n : ss[k] = show(k)
  <2>1. \A i \in 1 .. n : show(i) \in Seq(Byte)
    BY ShownIsBytes
  <2> HIDE DEF show, n
  <2> QED
    BY <1>0, <2>1
<1>2. AllShown(p, sp.start, r, colored) = FlattenSeq(ss)
  BY DEF AllShown
<1>3. PICK w \in [0 .. n -> Seq(Byte)] : /\ w[0] = <<>>
                                         /\ \A k \in 1 .. n : w[k] = Joined(w[k - 1], ss[k])
                                         /\ FlattenSeq(ss) = w[n]
  <2> HIDE DEF ss, n
  <2> QED
    BY <1>0, <1>1, BytesGrow
<1>4. \A k \in 1 .. n : w[k] = Joined(w[k - 1], show(k))
  <2> HIDE DEF ss, n, show
  <2> QED
    BY <1>1, <1>3
<1>5. PICK g : /\ Tokens(p) = g[1]
               /\ \A j \in 1 .. n + 1 : g[j] = Read(p, g, j) /\ g[j] \in Seq(Token)
  BY PatternsScanned
<1>6. sp.tokens \in Seq(Token) /\ m \in Nat
  <2>1. 1 \in 1 .. n + 1
    BY <1>0
  <2>2. sp.tokens \in Seq(Token)
    BY <1>5, <2>1
  <2> QED
    BY <2>2
<1>7. \A l \in Letters : Literal(l) \in Token
  BY DEF Token, Literal
<1> DEFINE claim(j) == \E k \in 0 .. m : Rest(sp.tokens, k, g[j + 1]) /\ Kept(f[k], w[j])
           s == {h \in 0 .. n : \A j \in 0 .. h : ~StartsToken(p, j) => claim(j)}
<1>8. 0 \in s
  <2>1. claim(0)
    <3>1. Rest(sp.tokens, 0, g[0 + 1])
      BY <1>5, <1>6 DEF Rest
    <3>2. f[0] = [out |-> <<>>, trunc |-> FALSE]
      BY <1>6, LineGrows
    <3> HIDE DEF f
    <3>3. Kept(f[0], <<>>)
      <4>1. <<>> \in Seq(Byte) /\ Len(<<>>) = 0
        OBVIOUS
      <4>2. MaxLine - 1 \in Nat
        BY SizesAssumption
      <4>3. f[0] \in Partial
        BY <3>2, <4>1, <4>2 DEF Partial
      <4>4. Fitting(<<>>) = <<>> /\ ~(Len(<<>>) > MaxLine - 1)
        BY <4>1, <4>2 DEF Fitting
      <4> QED
        BY <3>2, <4>3, <4>4 DEF Kept
    <3>4. 0 \in 0 .. m
      BY <1>6
    <3> HIDE DEF m
    <3> QED
      BY <1>3, <3>1, <3>3, <3>4
  <2> HIDE DEF claim, n
  <2> QED
    BY <1>0, <2>1
<1>9. ASSUME NEW j \in 0 .. n, claim(j), NEW token \in Token, NEW i \in j + 1 .. n,
             g[j + 1] = <<token>> \o g[i + 1], show(j + 1) = b(token), w[i] = w[j + 1]
      PROVE  claim(i)
  <2>1. j + 1 \in 1 .. n /\ j + 1 - 1 = j /\ i + 1 \in 1 .. n + 1 /\ i \in 0 .. n
    BY <1>0
  <2>2. PICK k \in 0 .. m : Rest(sp.tokens, k, g[j + 1]) /\ Kept(f[k], w[j])
    BY <1>9
  <2>3. w[j] \in Seq(Byte) /\ g[i + 1] \in Seq(Token)
    <3> HIDE DEF n
    <3> QED
      BY <1>3, <1>5, <2>1
  <2>4. Rest(sp.tokens, k, <<token>> \o g[i + 1])
    BY <1>9, <2>2
  <2>5. PICK x, q : x = w[j] /\ q = g[i + 1]
    OBVIOUS
  <2>6. /\ k + 1 \in 0 .. m
        /\ Rest(sp.tokens, k + 1, q)
        /\ Kept(f[k + 1], Joined(x, b(token)))
    <3>1. Kept(f[k], x)
      BY <2>2, <2>5
    <3>2. Rest(sp.tokens, k, <<token>> \o q)
      BY <2>4, <2>5
    <3> QED
      BY <1>6, <2>3, <2>5, <3>1, <3>2, OneTokenOn DEF Joined
  <2>7. Joined(x, b(token)) = w[i]
    <3> HIDE DEF n, show, b
    <3> QED
      BY <1>4, <1>9, <2>1, <2>5
  <2> HIDE DEF m, f, b
  <2> QED
    BY <2>5, <2>6, <2>7
<1>10. ASSUME NEW h \in 0 .. n - 1, h \in s
       PROVE  h + 1 \in s
  <2>1. PICK i : i = h + 1
    OBVIOUS
  <2>2. i \in 1 .. n /\ i - 1 = h /\ h \in 0 .. n /\ i \in 0 .. n /\ i \in h + 1 .. n
    BY <1>0, <2>1
  <2>3. \A j \in 0 .. h : ~StartsToken(p, j) => claim(j)
    BY <1>10
  <2>4. ASSUME ~StartsToken(p, i) PROVE claim(i)
    <3>1. CASE ~StartsToken(p, h)
      <4>1. claim(h)
        <5> HIDE DEF claim
        <5> QED
          BY <2>2, <2>3, <3>1
      <4>2. p[i] # "%" \/ i = n
        <5> SUFFICES ASSUME i # n PROVE p[i] # "%"
          OBVIOUS
        <5>1. i \in 1 .. n - 1
          BY <1>0, <2>2
        <5> QED
          BY <2>2, <2>4, <3>1, <5>1, StartsAlternate
      <4>3. g[i] = <<Literal(p[i])>> \o g[i + 1]
        <5>1. g[i] = Read(p, g, i) /\ ~(i > n)
          BY <1>0, <1>5, <2>2
        <5> QED
          BY <4>2, <5>1 DEF Read, Literal
      <4>4. show(i) = b(Literal(p[i]))
        <5>1. ~StartsToken(p, i - 1)
          BY <2>2, <3>1
        <5> HIDE DEF n, show, b
        <5> QED
          BY <1>p, <2>2, <2>4, <5>1
      <4>5. Literal(p[i]) \in Token
        BY <1>7, <2>2
      <4> HIDE DEF claim, show, b, n
      <4>6. g[h + 1] = <<Literal(p[i])>> \o g[i + 1] /\ show(h + 1) = b(Literal(p[i]))
            /\ w[i] = w[h + 1]
        BY <2>1, <4>3, <4>4
      <4> QED
        BY <1>9, <2>2, <4>1, <4>5, <4>6
    <3>2. CASE StartsToken(p, h)
      <4>1. h \in 1 .. n - 1 /\ p[h] = "%"
        BY <3>2 DEF StartsToken
      <4>2. ~StartsToken(p, h - 1)
        BY <3>2, <4>1, StartsAlternate
      <4>3. PICK j : j = h - 1
        OBVIOUS
      <4>4. j \in 0 .. h /\ j \in 0 .. n /\ j + 1 = h /\ i \in j + 1 .. n /\ h \in 1 .. n /\ h # n
            /\ h + 2 = i + 1 /\ h \in j + 1 .. n
        BY <1>0, <2>1, <2>2, <4>1, <4>3
      <4>5. claim(j)
        <5> HIDE DEF claim
        <5> QED
          BY <2>3, <4>2, <4>3, <4>4
      <4>6. w[i] = w[h]
        <5>1. show(i) = <<>>
          BY <2>2, <3>2, ShownIs
        <5>2. w[i] = Joined(w[h], <<>>)
          <6> HIDE DEF n, show
          <6> QED
            BY <1>4, <2>2, <5>1
        <5>3. w[h] \in Seq(Byte)
          BY <1>3, <2>2
        <5> QED
          BY <5>2, <5>3, ConcatEmptySeq DEF Joined
      <4>7. g[h] = Read(p, g, h) /\ ~(h > n) /\ p[i] \in Letters
        BY <1>0, <1>5, <2>2, <4>4
      <4> DEFINE c == p[i]
      <4>8. ASSUME NEW token \in Token, g[h] = <<token>> \o g[i + 1], show(h) = b(token)
            PROVE  claim(i)
        <5> HIDE DEF claim, show, b, n
        <5>1. g[j + 1] = <<token>> \o g[i + 1] /\ show(j + 1) = b(token) /\ w[i] = w[j + 1]
          BY <4>4, <4>6, <4>8
        <5> QED
          BY <1>9, <4>4, <4>5, <5>1
      <4>9. CASE c = "%"
        <5>1. g[h] = <<Literal("%")>> \o g[i + 1]
          BY <2>1, <4>1, <4>4, <4>7, <4>9 DEF Read, Literal
        <5>2. show(h) = b(Literal("%"))
          BY <2>1, <3>2, <4>4, <4>9, ShownIs
        <5>3. Literal("%") \in Token
          BY <1>7, <4>7, <4>9
        <5> HIDE DEF claim, show, b
        <5> QED
          BY <4>8, <5>1, <5>2, <5>3
      <4>10. CASE c \in DOMAIN FieldFor
        <5>0. c # "%"
          BY <4>10 DEF FieldFor
        <5>1. g[h] = <<Field(c)>> \o g[i + 1]
          BY <2>1, <4>1, <4>4, <4>7, <4>10, <5>0 DEF Read, Field
        <5>2. show(h) = b(Field(c))
          BY <2>1, <3>2, <4>4, <4>10, ShownIs
        <5>3. Field(c) \in Token
          BY <4>10, FieldsAreNamed DEF Token, Field
        <5> HIDE DEF claim, show, b, c
        <5> QED
          BY <4>8, <5>1, <5>2, <5>3
      <4>11. CASE c # "%" /\ c \notin DOMAIN FieldFor
        <5> DEFINE two == <<Literal("%"), Literal(c)>>
        <5>1. g[h] = two \o g[i + 1]
          BY <2>1, <4>1, <4>4, <4>7, <4>11 DEF Read, Literal
        <5>2. show(h) = Joined(b(Literal("%")), b(Literal(c)))
          BY <2>1, <3>2, <4>4, <4>11, ShownIs
        <5>3. Literal("%") \in Token /\ Literal(c) \in Token
          <6>1. "%" \in Letters
            BY DEF Letters
          <6> QED
            BY <1>7, <4>7, <6>1
        <5>4. g[i + 1] \in Seq(Token)
          BY <1>0, <1>5, <2>2
        <5>5. <<Literal(c)>> \o g[i + 1] \in Seq(Token)
              /\ two \o g[i + 1] = <<Literal("%")>> \o (<<Literal(c)>> \o g[i + 1])
          <6>1. <<Literal("%")>> \in Seq(Token) /\ <<Literal(c)>> \in Seq(Token)
            BY <5>3
          <6>2. two = <<Literal("%")>> \o <<Literal(c)>>
            BY TwoInOne
          <6> HIDE DEF two
          <6> QED
            BY <5>4, <6>1, <6>2, ConcatAssociative, ConcatProperties
        <5>6. PICK k \in 0 .. m : Rest(sp.tokens, k, g[h]) /\ Kept(f[k], w[j])
          <6>1. claim(j)
            BY <4>5
          <6> QED
            BY <4>4, <6>1
        <5>7. w[j] \in Seq(Byte) /\ w[h] = Joined(w[j], show(h))
          <6>1. h - 1 = j
            BY <4>3
          <6> HIDE DEF n, show
          <6> QED
            BY <1>3, <1>4, <4>4, <6>1
        <5>8. PICK x, q, a, d : /\ x = w[j] /\ q = g[i + 1]
                                /\ a = Literal("%") /\ d = Literal(c)
          OBVIOUS
        <5>9. PICK dq : dq = <<d>> \o q
          OBVIOUS
        <5>10. /\ k + 1 \in 0 .. m
               /\ Rest(sp.tokens, k + 1, dq)
               /\ x \o b(a) \in Seq(Byte)
               /\ Kept(f[k + 1], x \o b(a))
          <6>1. Rest(sp.tokens, k, <<a>> \o dq) /\ dq \in Seq(Token) /\ Kept(f[k], x)
            <7> HIDE DEF f, m, two
            <7> QED
              BY <5>1, <5>5, <5>6, <5>8, <5>9
          <6> QED
            BY <1>6, <5>3, <5>6, <5>7, <5>8, <6>1, OneTokenOn
        <5>11. PICK y : y = x \o b(a)
          OBVIOUS
        <5>12. /\ k + 1 + 1 \in 0 .. m
               /\ Rest(sp.tokens, k + 1 + 1, q)
               /\ Kept(f[k + 1 + 1], Joined(y, b(d)))
          <6>1. Rest(sp.tokens, k + 1, <<d>> \o q) /\ q \in Seq(Token) /\ d \in Token
            BY <5>3, <5>4, <5>8, <5>9, <5>10
          <6>2. y \in Seq(Byte) /\ Kept(f[k + 1], y)
            <7> HIDE DEF f, b
            <7> QED
              BY <5>10, <5>11
          <6> QED
            BY <1>6, <5>10, <6>1, <6>2, OneTokenOn DEF Joined
        <5>13. Joined(y, b(d)) = w[i]
          <6>1. b(a) \in Seq(Byte) /\ b(d) \in Seq(Byte)
            BY <5>3, <5>8, TokensShow
          <6>2. (x \o b(a)) \o b(d) = x \o (b(a) \o b(d))
            <7>1. x \in Seq(Byte)
              BY <5>7, <5>8
            <7> HIDE DEF b
            <7> QED
              BY <6>1, <7>1, BytesAssociate
          <6>3. Joined(y, b(d)) = Joined(x, Joined(b(a), b(d)))
            BY <5>11, <6>2 DEF Joined
          <6> HIDE DEF b, show
          <6>4. w[h] = Joined(x, Joined(b(a), b(d)))
            BY <5>2, <5>7, <5>8
          <6> QED
            BY <4>6, <6>3, <6>4
        <5> HIDE DEF f, m, b
        <5> QED
          BY <5>8, <5>12, <5>13
      <4> QED
        BY <4>9, <4>10, <4>11
    <3> QED
      BY <3>1, <3>2
  <2>5. \A j \in 0 .. i : ~StartsToken(p, j) => claim(j)
    <3> HIDE DEF claim
    <3>1. \A j \in 0 .. i : j \in 0 .. h \/ j = i
      BY <2>1, <2>2
    <3> QED
      BY <2>3, <2>4, <3>1
  <2> HIDE DEF claim
  <2> QED
    BY <2>1, <2>2, <2>5
<1>11. claim(n)
  <2> HIDE DEF s
  <2>1. \A h \in 0 .. n : h \in s
    <3> HIDE DEF n
    <3> QED
      BY <1>0, <1>8, <1>10, UpTo
  <2>2. n \in s /\ n \in 0 .. n
    BY <1>0, <2>1
  <2>3. ~StartsToken(p, n)
    BY <1>0 DEF StartsToken
  <2> HIDE DEF claim, n
  <2> QED
    BY <2>2, <2>3 DEF s
<1>12. PICK k \in 0 .. m : Rest(sp.tokens, k, g[n + 1]) /\ Kept(f[k], w[n])
  BY <1>11
<1>13. g[n + 1] = <<>>
  <2>1. g[n + 1] = Read(p, g, n + 1) /\ n + 1 > n
    BY <1>0, <1>5
  <2> QED
    BY <2>1 DEF Read
<1>14. k = m
  <2>1. Len(<<>>) = m - k
    BY <1>12, <1>13 DEF Rest
  <2> QED
    BY <1>6, <2>1
<1>15. w[n] \in Seq(Byte)
  <2> HIDE DEF n
  <2> QED
    BY <1>0, <1>3
<1> HIDE DEF f, m, n, ss
<1> QED
  BY <1>2, <1>3, <1>12, <1>14, <1>15 DEF f, m

----------------------------------------------------------------------------
(* A built line is the promised one.                                       *)

\* Unless a percent sign that stands for itself hides it, a toggle finds its field.
LEMMA TogglesAsPromised ==
    ASSUME NEW s \in Asked, ~Misread(s)
    PROVE  Toggled(s.format, s.time, s.elapsed) = WithToggles(s.format, s.time, s.elapsed)
<1> DEFINE text == s.format
           shows(c) == \E i \in DOMAIN text : StartsToken(text, i) /\ text[i + 1] = c
<1>1. ASSUME NEW c \in {"t", "e"}, IF c = "t" THEN s.time ELSE s.elapsed
      PROVE  Has(text, c) <=> shows(c)
  <2>1. Has(text, c) => shows(c)
    BY <1>1 DEF Misread
  <2>2. shows(c) => Has(text, c)
    BY DEF Has, StartsToken
  <2> QED
    BY <2>1, <2>2
<1>2. s.time => (Has(text, "t") <=> shows("t"))
  <2> HIDE DEF shows, text
  <2> QED
    BY <1>1
<1>3. s.elapsed => (Has(text, "e") <=> shows("e"))
  <2> HIDE DEF shows, text
  <2> QED
    BY <1>1
<1>4. /\ (s.time /\ ~Has(text, "t")) <=> (s.time /\ ~shows("t"))
      /\ (s.elapsed /\ ~Has(text, "e")) <=> (s.elapsed /\ ~shows("e"))
  <2> HIDE DEF shows, text
  <2> QED
    BY <1>2, <1>3
<1> DEFINE toggled(time, elapsed) ==
             (IF time THEN <<"%", "t", " ">> ELSE <<>>)
             \o (IF elapsed THEN <<"%", "e", " ">> ELSE <<>>) \o text
<1>5. Toggled(text, s.time, s.elapsed)
        = toggled(s.time /\ ~Has(text, "t"), s.elapsed /\ ~Has(text, "e"))
  BY DEF Toggled
<1>6. WithToggles(text, s.time, s.elapsed)
        = toggled(s.time /\ ~shows("t"), s.elapsed /\ ~shows("e"))
  BY DEF WithToggles
<1>7. toggled(s.time /\ ~Has(text, "t"), s.elapsed /\ ~Has(text, "e"))
        = toggled(s.time /\ ~shows("t"), s.elapsed /\ ~shows("e"))
  <2>1. (s.time /\ ~Has(text, "t")) = (s.time /\ ~shows("t"))
    BY <1>4
  <2>2. (s.elapsed /\ ~Has(text, "e")) = (s.elapsed /\ ~shows("e"))
    BY <1>4
  <2> HIDE DEF toggled, shows
  <2> QED
    BY <2>1, <2>2
<1> DEFINE read    == toggled(s.time /\ ~Has(text, "t"), s.elapsed /\ ~Has(text, "e"))
           meant   == toggled(s.time /\ ~shows("t"), s.elapsed /\ ~shows("e"))
<1> HIDE DEF read, meant
<1>8. Toggled(text, s.time, s.elapsed) = read
  BY <1>5 DEF read
<1>9. WithToggles(text, s.time, s.elapsed) = meant
  BY <1>6 DEF meant
<1>10. read = meant
  BY <1>7 DEF read, meant
<1> QED
  <2> HIDE DEF toggled, shows
  <2> QED
    BY <1>8, <1>9, <1>10

LEMMA BuildIsPromised ==
    ASSUME NEW s \in Asked, NEW st \in Times, ~Misread(s), NEW r \in Taken, NEW colored
    PROVE  BuildLine(Parsed(s, st).format, r, colored)
             = Promised(s.format, s.time, s.elapsed, st, r, colored)
<1> DEFINE p     == Toggled(s.format, s.time, s.elapsed)
           sp    == Parsed(s, st).format
           whole == AllShown(p, st, r, colored)
           acc   == LineUpTo(sp, r, colored)[Len(sp.tokens)]
           m     == MaxLine - 1
           dots  == Chars("char", Ellipsis)
<1>1. p \in Seq(Letters)
  BY ToggledIsText
<1>2. sp.tokens = Tokens(p) /\ sp.start = st
  BY DEF Parsed, ParseFormat
<1>3. whole \in Seq(Byte) /\ Kept(acc, whole)
  <2> HIDE DEF p, sp
  <2> QED
    BY <1>1, <1>2, ScanShows
<1>4. m \in Nat /\ MaxLine - 4 \in Nat /\ Len(whole) \in Nat /\ m > MaxLine - 4
  <2> HIDE DEF whole
  <2> QED
    BY <1>3, SizesAssumption
<1>5. acc.out = Fitting(whole) /\ (acc.trunc <=> Len(whole) > m)
  BY <1>3 DEF Kept
<1>6. Promised(s.format, s.time, s.elapsed, st, r, colored)
        = IF Len(whole) < MaxLine THEN whole \o <<NewLine>>
          ELSE SubSeq(whole, 1, MaxLine - 4) \o dots \o <<NewLine>>
  BY TogglesAsPromised DEF Promised
<1> DEFINE kept == IF Len(acc.out) > MaxLine - 4 THEN MaxLine - 4 ELSE Len(acc.out)
<1>7. BuildLine(sp, r, colored)
        = IF acc.trunc THEN SubSeq(acc.out, 1, kept) \o dots \o <<NewLine>>
          ELSE acc.out \o <<NewLine>>
  BY DEF BuildLine
<1> HIDE DEF whole, acc, sp
<1>8. CASE Len(whole) < MaxLine
  <2>1. ~acc.trunc /\ acc.out = whole
    BY <1>4, <1>5, <1>8, SizesAssumption DEF Fitting
  <2> QED
    BY <1>6, <1>7, <1>8, <2>1 DEF sp
<1>9. CASE ~(Len(whole) < MaxLine)
  <2>1. acc.trunc /\ acc.out = SubSeq(whole, 1, m) /\ m \in 0 .. Len(whole)
    BY <1>4, <1>5, <1>9, SizesAssumption DEF Fitting
  <2> DEFINE v == SubSeq(whole, 1, m)
  <2>2. v \in Seq(Byte) /\ Len(v) = m /\ \A i \in 1 .. m : v[i] = whole[i]
    <3>1. \A i \in 1 .. m : whole[i] \in Byte
      BY <1>3, <1>4, <2>1
    <3> HIDE DEF m
    <3> QED
      BY <1>4, <3>1, SubSeqProperties
  <2>3. kept = MaxLine - 4
    BY <1>4, <2>1, <2>2
  <2> HIDE DEF v
  <2>4. SubSeq(v, 1, MaxLine - 4) = SubSeq(whole, 1, MaxLine - 4)
    <3>1. PICK l : l = MaxLine - 4
      OBVIOUS
    <3>2. l \in Nat /\ l < m /\ l \in Int
      BY <1>4, <3>1
    <3> HIDE DEF m
    <3>3. \A i \in 1 .. l : v[i] \in Byte /\ whole[i] \in Byte /\ v[i] = whole[i]
      BY <1>3, <1>4, <2>1, <2>2, <3>2
    <3>4. /\ SubSeq(v, 1, l) \in Seq(Byte) /\ Len(SubSeq(v, 1, l)) = l
          /\ \A i \in 1 .. l : SubSeq(v, 1, l)[i] = v[i]
      BY <3>2, <3>3, SubSeqProperties
    <3>5. /\ SubSeq(whole, 1, l) \in Seq(Byte) /\ Len(SubSeq(whole, 1, l)) = l
          /\ \A i \in 1 .. l : SubSeq(whole, 1, l)[i] = whole[i]
      BY <3>2, <3>3, SubSeqProperties
    <3>6. SubSeq(v, 1, l) = SubSeq(whole, 1, l)
      BY <3>3, <3>4, <3>5, SeqEqual
    <3> QED
      BY <3>1, <3>6
  <2>5. BuildLine(sp, r, colored) = SubSeq(v, 1, MaxLine - 4) \o dots \o <<NewLine>>
    <3> HIDE DEF dots, kept
    <3> QED
      BY <1>7, <2>1, <2>3 DEF v
  <2>6. Promised(s.format, s.time, s.elapsed, st, r, colored)
          = SubSeq(whole, 1, MaxLine - 4) \o dots \o <<NewLine>>
    <3> HIDE DEF dots
    <3> QED
      BY <1>6, <1>9
  <2> HIDE DEF dots
  <2> QED
    BY <2>4, <2>5, <2>6 DEF sp
<1> QED
  BY <1>8, <1>9

----------------------------------------------------------------------------
(* The settings a line comes from.                                         *)

\* The spec of some settings, and the line they give.
SpecOf(f)         == Parsed(f.settings, f.start)
LineOf(f, r, colored) == BuildLine(SpecOf(f).format, r, colored)

\* A reload changes first what is set, and last what is used.
Before ==
    storing # "no" =>
        /\ specs[fmt] = SpecOf(previous)
        /\ storing \in {"flush", "colour"} => colour = previous.settings.colour

\* A call has the spec of settings in force during it.
Chosen == \A t \in Threads : Busy(t) => \E f \in inForce[t] : specs[spec[t]] = SpecOf(f)

\* And the line that such a spec gives.
BuiltFrom(at, l, r, force) ==
    /\ at = "file"   => \E f \in force : l = LineOf(f, r, FALSE)
    /\ at = "stdout" => \E f, g \in force : l = LineOf(f, r, g.settings.colour)
Built == \A t \in Threads : BuiltFrom(pc[t], line[t], rec[t], inForce[t])

FromForce == Before /\ Chosen /\ Built

LEMMA InitFromForce == Init => FromForce
  BY DEF Init, FromForce, Before, Chosen, Built, BuiltFrom, Busy

LEMMA BeginKeepsFromForce ==
    ASSUME Shape, FromForce, NEW s, NEW st, BeginReload(s, st), specs' = specs
    PROVE  FromForce'
<1>1. Before'
  <2>1. specs[fmt] = SpecOf(Now) /\ colour = settings.colour /\ previous' = Now
    BY DEF BeginReload, Shape, Published, SpecOf, Now
  <2>2. specs' = specs /\ fmt' = fmt /\ colour' = colour /\ Now.settings = settings
    BY DEF BeginReload, Now
  <2>3. specs'[fmt'] = SpecOf(previous')
    BY <2>1, <2>2
  <2>4. colour' = previous'.settings.colour
    BY <2>1, <2>2
  <2> QED
    BY <2>3, <2>4 DEF Before, SpecOf
<1>2. \A t \in Threads : Busy(t) => inForce[t] \subseteq inForce'[t]
  BY DEF BeginReload
<1>3. Chosen'
  BY <1>2 DEF FromForce, Chosen, BeginReload, Busy, SpecOf
<1>4. Built'
  <2>1. \A t \in Threads : pc[t] \in Sinks => Busy(t)
    BY DEF Busy, Sinks
  <2>2. ASSUME NEW t \in Threads
        PROVE  BuiltFrom(pc'[t], line'[t], rec'[t], inForce'[t])
    <3>1. BuiltFrom(pc[t], line[t], rec[t], inForce[t])
      BY DEF FromForce, Built
    <3>2. UNCHANGED <<pc, line, rec>>
      BY DEF BeginReload
    <3>3. pc[t] \in Sinks => inForce[t] \subseteq inForce'[t]
      BY <1>2, <2>1
    <3> QED
      BY <3>1, <3>2, <3>3 DEF BuiltFrom, Sinks
  <2> QED
    BY <2>2 DEF Built
<1> QED
  BY <1>1, <1>3, <1>4 DEF FromForce

LEMMA ReloadKeepsFromForce ==
    ASSUME Shape, FromForce, Reload
    PROVE  FromForce'
<1>1. CASE Configure \/ SetStart \/ Reset
  BY <1>1, BeginKeepsFromForce DEF Configure, SetStart, Reset
<1>2. CASE StoreFlush
  BY <1>2 DEF StoreFlush, callVars, outVars, historyVars, FromForce, Before, Chosen, Built,
              Busy, SpecOf
<1>3. CASE StoreColour
  BY <1>3 DEF StoreColour, callVars, outVars, historyVars, FromForce, Before, Chosen, Built,
              Busy, SpecOf
<1>4. CASE StoreFormat
  <2>1. UNCHANGED <<callVars, outVars, historyVars>> /\ storing' = "no"
    BY <1>4 DEF StoreFormat
  <2>2. ASSUME NEW i \in 1 .. Len(specs) PROVE specs'[i] = specs[i]
    BY <1>4 DEF StoreFormat, Shape, Published
  <2>3. \A t \in Threads : Busy(t) => spec[t] \in 1 .. Len(specs)
    BY DEF Shape, Held
  <2>4. Chosen'
    BY <2>1, <2>2, <2>3 DEF callVars, FromForce, Chosen, Busy, SpecOf
  <2>5. Before' /\ Built'
    BY <2>1 DEF callVars, FromForce, Before, Built, SpecOf
  <2> QED
    BY <2>4, <2>5 DEF FromForce
<1> QED
  BY <1>1, <1>2, <1>3, <1>4 DEF Reload

LEMMA CallKeepsFromForce ==
    ASSUME Shape, FromForce, NEW t \in Threads, Call(t)
    PROVE  FromForce'
<1>c. /\ UNCHANGED <<settings, start, storing, specs, fmt, colour, previous>>
      /\ Before' /\ InForce' = InForce
  <2>1. UNCHANGED <<configVars, historyVars>> /\ InForce' = InForce
    BY CallKeepsPublished
  <2> QED
    BY <2>1 DEF configVars, publishedVars, historyVars, FromForce, Before, SpecOf
<1>n. Now \in InForce /\ (storing # "no" => previous \in InForce)
  BY DEF InForce
<1>1. CASE Log(t)
  <2> USE <1>1 DEF Log, Goto
  <2>1. \E f \in InForce : specs[fmt] = SpecOf(f)
    <3>1. CASE storing = "no"
      <4>1. specs[fmt] = SpecOf(Now)
        BY <3>1 DEF Shape, Published, SpecOf, Now
      <4> QED
        BY <1>n, <4>1
    <3>2. CASE storing # "no"
      BY <1>n, <3>2 DEF FromForce, Before
    <3> QED
      BY <3>1, <3>2
  <2>2. spec'[t] = fmt /\ inForce'[t] = InForce /\ pc'[t] = "clock"
    BY DEF Shape, Types
  <2>3. \A u \in Threads \ {t} : /\ spec'[u] = spec[u] /\ inForce'[u] = inForce[u]
                                 /\ pc'[u] = pc[u] /\ rec'[u] = rec[u] /\ line'[u] = line[u]
    BY DEF Shape, Types
  <2>4. Chosen'
    BY <1>c, <2>1, <2>2, <2>3 DEF FromForce, Chosen, Busy, SpecOf
  <2>5. BuiltFrom(pc'[t], line'[t], rec'[t], inForce'[t])
    BY <2>2 DEF BuiltFrom
  <2>6. Built'
    BY <2>3, <2>5 DEF FromForce, Built
  <2> QED
    BY <1>c, <2>4, <2>6 DEF FromForce
<1>2. CASE BuildForFile(t)
  <2> USE <1>2 DEF BuildForFile, Goto
  <2>1. UNCHANGED <<spec, inForce>> /\ Busy(t) /\ pc'[t] = "file"
    BY DEF Busy, Shape, Types
  <2>2. line'[t] = BuildLine(specs[spec[t]].format, rec'[t], FALSE)
    BY DEF Shape, Types
  <2>3. \A u \in Threads \ {t} : pc'[u] = pc[u] /\ rec'[u] = rec[u] /\ line'[u] = line[u]
    BY DEF Shape, Types
  <2>4. Chosen'
    BY <1>c, <2>1, <2>3 DEF FromForce, Chosen, Busy, SpecOf
  <2>5. PICK f \in inForce[t] : specs[spec[t]] = SpecOf(f)
    BY <2>1 DEF FromForce, Chosen
  <2>6. line'[t] = LineOf(f, rec'[t], FALSE)
    BY <2>2, <2>5 DEF LineOf
  <2>7. BuiltFrom(pc'[t], line'[t], rec'[t], inForce'[t])
    BY <2>1, <2>6 DEF BuiltFrom
  <2>8. Built'
    BY <2>1, <2>3, <2>7 DEF FromForce, Built
  <2> QED
    BY <1>c, <2>4, <2>8 DEF FromForce
<1>3. CASE BuildForStdout(t)
  <2> USE <1>3 DEF BuildForStdout, Goto
  <2>1. UNCHANGED <<spec, inForce, rec>> /\ Busy(t) /\ pc'[t] = "stdout"
    BY DEF Busy, Shape, Types
  <2>2. line'[t] = BuildLine(specs[spec[t]].format, rec[t], colour)
    BY DEF Shape, Types
  <2>3. \A u \in Threads \ {t} : pc'[u] = pc[u] /\ line'[u] = line[u]
    BY DEF Shape, Types
  <2>4. Chosen'
    BY <1>c, <2>1, <2>3 DEF FromForce, Chosen, Busy, SpecOf
  <2>5. PICK f \in inForce[t] : specs[spec[t]] = SpecOf(f)
    BY <2>1 DEF FromForce, Chosen
  <2>6. PICK g \in InForce : colour = g.settings.colour
    <3>1. CASE storing \in {"no", "format"}
      <4>1. colour = Now.settings.colour
        BY <3>1 DEF Shape, Published, Now
      <4> QED
        BY <1>n, <4>1
    <3>2. CASE storing \in {"flush", "colour"}
      BY <1>n, <3>2 DEF FromForce, Before
    <3> QED
      BY <3>1, <3>2 DEF Shape, Types, Stores
  <2>7. g \in inForce[t]
    BY <2>1 DEF Shape, Held
  <2>8. line'[t] = LineOf(f, rec'[t], g.settings.colour)
    BY <2>1, <2>2, <2>5, <2>6 DEF LineOf
  <2>9. BuiltFrom(pc'[t], line'[t], rec'[t], inForce'[t])
    BY <2>1, <2>7, <2>8 DEF BuiltFrom
  <2>10. Built'
    BY <2>1, <2>3, <2>9 DEF FromForce, Built
  <2> QED
    BY <1>c, <2>4, <2>10 DEF FromForce
<1>4. ASSUME pc[t] \in Sinks, NEW at \in {"sync", "colour"}, Go(t, at)
      PROVE  Chosen' /\ Built'
  <2>1. /\ pc' = [pc EXCEPT ![t] = IF pc[t] = "file" THEN at ELSE "idle"]
        /\ \A u \in Threads : u # t \/ pc[t] = "file" =>
              /\ spec'[u] = spec[u] /\ rec'[u] = rec[u] /\ line'[u] = line[u]
              /\ inForce'[u] = inForce[u]
    BY <1>4, Goes DEF Shape
  <2>2. pc'[t] = (IF pc[t] = "file" THEN at ELSE "idle") /\ pc'[t] \notin Sinks
    BY <2>1 DEF Shape, Types, Sinks
  <2>3. \A u \in Threads \ {t} : pc'[u] = pc[u]
    BY <2>1 DEF Shape, Types
  <2>4. \A u \in Threads : Busy(u)' =>
          /\ Busy(u)
          /\ spec'[u] = spec[u] /\ inForce'[u] = inForce[u]
    BY <1>4, <2>1, <2>2, <2>3 DEF Busy, Sinks
  <2>5. Chosen'
    BY <1>c, <2>4 DEF FromForce, Chosen, SpecOf
  <2>6. \A u \in Threads : pc'[u] \in Sinks =>
          /\ pc'[u] = pc[u] /\ rec'[u] = rec[u] /\ line'[u] = line[u]
          /\ inForce'[u] = inForce[u]
    BY <2>1, <2>2, <2>3
  <2>7. ASSUME NEW u \in Threads
        PROVE  BuiltFrom(pc'[u], line'[u], rec'[u], inForce'[u])
    <3>1. BuiltFrom(pc[u], line[u], rec[u], inForce[u])
      BY DEF FromForce, Built
    <3>2. CASE pc'[u] \in Sinks
      BY <2>6, <3>1, <3>2
    <3>3. CASE pc'[u] \notin Sinks
      BY <3>3 DEF BuiltFrom, Sinks
    <3> QED
      BY <3>2, <3>3
  <2> QED
    BY <2>5, <2>7 DEF Built
<1>5. ASSUME UNCHANGED <<spec, inForce, rec, line>>,
             pc' = pc \/ (pc[t] = "sync" /\ pc' = [pc EXCEPT ![t] = "colour"])
      PROVE  Chosen' /\ Built'
  <2>1. \A u \in Threads : (Busy(u)' => Busy(u)) /\ (pc'[u] \in Sinks => pc'[u] = pc[u])
    BY <1>5 DEF Busy, Shape, Types, Sinks
  <2> QED
    BY <1>c, <1>5, <2>1 DEF FromForce, Chosen, Built, BuiltFrom, Sinks, SpecOf
<1>6. CASE Write(t)
  BY <1>c, <1>4, <1>5, <1>6, Writes DEF FromForce
<1>7. CASE Fail(t)
  BY <1>c, <1>4, <1>7 DEF Fail, FromForce
<1>8. CASE Sync(t)
  BY <1>c, <1>5, <1>8 DEF Sync, Goto, FromForce
<1> QED
  BY <1>1, <1>2, <1>3, <1>6, <1>7, <1>8 DEF Call

\* A line of settings that the toggles read well is the documented one.
LEMMA LineOfIsPromised ==
    ASSUME NEW f \in States, ~Misread(f.settings), NEW r \in Taken, NEW colored
    PROVE  LineOf(f, r, colored)
             = Promised(f.settings.format, f.settings.time, f.settings.elapsed,
                        f.start, r, colored)
<1>1. f.settings \in Asked /\ f.start \in Times
  BY DEF States
<1> QED
  BY <1>1, BuildIsPromised DEF LineOf, SpecOf

\* Whatever is reconfigured while it is built, a line is the one that the documented
\* tokens and toggles give for settings in force during its call, with the colour of
\* such settings on standard output: scanning the pattern (parse_format), appending
\* piece by piece to the buffer (LineBuf) and cutting it comes to what the
\* documentation says of each character, for every pattern, message and size.
THEOREM PromiseKept == Spec => []LineIsPromised
<1>1. Init => Shape /\ FromForce
  BY InitShape, InitFromForce
<1>2. Shape /\ FromForce /\ [Next]_vars => FromForce'
  <2> SUFFICES ASSUME Shape, FromForce, [Next]_vars PROVE FromForce'
    OBVIOUS
  <2>1. CASE Next
    BY <2>1, ReloadKeepsFromForce, CallKeepsFromForce DEF Next
  <2>2. CASE UNCHANGED vars
    BY <2>2 DEF vars, configVars, publishedVars, callVars, outVars, historyVars,
                FromForce, Before, Chosen, Built, Busy, SpecOf
  <2> QED
    BY <2>1, <2>2
<1>3. Shape /\ FromForce => LineIsPromised
  <2> SUFFICES ASSUME Shape, FromForce, NEW t \in Threads, pc[t] \in Sinks,
                      \A f \in inForce[t] : ~Misread(f.settings)
               PROVE  \E f, g \in inForce[t] :
                        line[t] = Promised(f.settings.format, f.settings.time,
                                           f.settings.elapsed, f.start, rec[t],
                                           pc[t] = "stdout" /\ g.settings.colour)
    BY DEF LineIsPromised
  <2>1. inForce[t] \subseteq States /\ rec[t] \in Taken
    BY DEF Shape, Types, Held, Busy, Sinks
  <2>2. CASE pc[t] = "file"
    <3>1. PICK f \in inForce[t] : line[t] = LineOf(f, rec[t], FALSE)
      BY <2>2 DEF FromForce, Built, BuiltFrom
    <3>2. (pc[t] = "stdout" /\ f.settings.colour) = FALSE
      BY <2>2
    <3>3. line[t] = Promised(f.settings.format, f.settings.time, f.settings.elapsed,
                             f.start, rec[t], FALSE)
      BY <2>1, <3>1, LineOfIsPromised
    <3> QED
      BY <3>2, <3>3
  <2>3. CASE pc[t] = "stdout"
    <3>1. PICK f, g \in inForce[t] : line[t] = LineOf(f, rec[t], g.settings.colour)
      BY <2>3 DEF FromForce, Built, BuiltFrom
    <3>2. g.settings.colour \in BOOLEAN
      BY <2>1, SwitchesAssumption DEF States, Asked
    <3>3. (pc[t] = "stdout" /\ g.settings.colour) = g.settings.colour
      BY <2>3, <3>2
    <3>4. line[t] = Promised(f.settings.format, f.settings.time, f.settings.elapsed,
                             f.start, rec[t], g.settings.colour)
      BY <2>1, <3>1, LineOfIsPromised
    <3> QED
      BY <3>3, <3>4
  <2> QED
    BY <2>2, <2>3 DEF Sinks
<1> QED
  BY <1>1, <1>2, <1>3, ShapeHolds, PTL DEF Spec

=============================================================================
