------------------------- MODULE ErrorReportProofs -------------------------
(***************************************************************************)
(* Proofs about ErrorReport, for any threads, any number of lines, with or *)
(* without a handler that logs, failing allocations, cleared errors and    *)
(* handlers that come and go.                                              *)
(***************************************************************************)
EXTENDS ErrorReport, SequenceTheorems, FiniteSetTheorems, TLAPS

Places == {"format", "file", "stdout", "record", "note", "gethandler", "copy", "handler",
           "drop"}
Frames == [line : Threads \X Nat, size : 0 .. MaxMsg, at : Places, code : Codes,
           logged : BOOLEAN]

\* The types the proofs need.
Types ==
    /\ lines \in [Threads -> Nat]
    /\ stack \in [Threads -> Seq(Frames)]
    /\ msgbuf \in [Threads -> [Positions -> (Threads \X Nat) \cup {Nul}]]
    /\ inHandler \in [Threads -> BOOLEAN]
    /\ sticky \in {NoFailure} \cup (Threads \X Nat) \X Codes
    /\ noted \subseteq Codes
    /\ notes \in [Codes -> Nat]
    /\ handler \in BOOLEAN /\ removed \in BOOLEAN

----------------------------------------------------------------------------
(* What a step does to the calls of its thread.                            *)

\* Only the innermost call changes, into f.
Advances(t, f) ==
    /\ \A u \in Threads \ {t} : stack'[u] = stack[u]
    /\ Len(stack'[t]) = Len(stack[t])
    /\ stack'[t][1] = f
    /\ \A i \in 2 .. Len(stack[t]) : stack'[t][i] = stack[t][i]

\* Two states of one call: its message, and whether its handler has logged.
SameMessage(f, g) == f.line = g.line /\ f.size = g.size /\ f.logged = g.logged

\* The innermost call returns.
Pops(t) ==
    /\ \A u \in Threads \ {t} : stack'[u] = stack[u]
    /\ Len(stack'[t]) = Len(stack[t]) - 1
    /\ \A i \in 1 .. Len(stack[t]) - 1 : stack'[t][i] = stack[t][i + 1]

LEMMA TopIsFirst ==
    ASSUME Types, NEW t \in Threads, stack[t] # <<>>
    PROVE  /\ Len(stack[t]) \in Nat \ {0}
           /\ Top(t) = stack[t][1] /\ stack[t][1] \in Frames
           /\ \A i \in 1 .. Len(stack[t]) : stack[t][i] \in Frames
  BY DEF Types, Top

LEMMA TopChanges ==
    ASSUME Types, NEW t \in Threads, stack[t] # <<>>, NEW f \in Frames,
           stack' = [stack EXCEPT ![t] = [stack[t] EXCEPT ![1] = f]]
    PROVE  Advances(t, f) /\ stack' \in [Threads -> Seq(Frames)]
<1> DEFINE s == [stack[t] EXCEPT ![1] = f]
<1>1. stack[t] \in Seq(Frames) /\ 1 \in 1 .. Len(stack[t])
  BY TopIsFirst DEF Types
<1>2. s \in Seq(Frames) /\ Len(s) = Len(stack[t]) /\ s[1] = f
      /\ \A i \in 1 .. Len(stack[t]) : s[i] = IF i = 1 THEN f ELSE stack[t][i]
  BY <1>1, ExceptSeq
<1> HIDE DEF s
<1>3. stack'[t] = s /\ \A u \in Threads \ {t} : stack'[u] = stack[u]
  BY DEF Types, s
<1>4. stack' \in [Threads -> Seq(Frames)]
  BY <1>2 DEF Types, s
<1> QED
  BY <1>1, <1>2, <1>3, <1>4 DEF Advances

LEMMA GotoAdvances ==
    ASSUME Types, NEW t \in Threads, stack[t] # <<>>, NEW at \in Places, Goto(t, at)
    PROVE  \E f \in Frames : /\ f.line = stack[t][1].line /\ f.at = at
                             /\ f.code = stack[t][1].code /\ SameMessage(f, stack[t][1])
                             /\ Advances(t, f) /\ stack' \in [Threads -> Seq(Frames)]
<1>1. stack[t] \in Seq(Frames) /\ Len(stack[t]) \in Nat \ {0} /\ stack[t][1] \in Frames
  BY TopIsFirst DEF Types
<1> DEFINE f == [stack[t][1] EXCEPT !.at = at]
<1>2. /\ f \in Frames /\ f.line = stack[t][1].line /\ f.at = at
      /\ f.code = stack[t][1].code /\ SameMessage(f, stack[t][1])
  BY <1>1 DEF Frames, SameMessage
<1>3. stack' = [stack EXCEPT ![t] = [stack[t] EXCEPT ![1] = f]]
  BY DEF Goto, Types
<1> HIDE DEF f
<1>4. Advances(t, f) /\ stack' \in [Threads -> Seq(Frames)]
  BY <1>2, <1>3, TopChanges
<1> QED
  BY <1>2, <1>4

LEMMA FailAdvances ==
    ASSUME Types, NEW t \in Threads, stack[t] # <<>>, NEW code \in Codes, Fail(t, code)
    PROVE  \E f \in Frames : /\ f.line = stack[t][1].line /\ f.at = "record" /\ f.code = code
                             /\ SameMessage(f, stack[t][1])
                             /\ Advances(t, f) /\ stack' \in [Threads -> Seq(Frames)]
<1>1. stack[t] \in Seq(Frames) /\ Len(stack[t]) \in Nat \ {0} /\ stack[t][1] \in Frames
  BY TopIsFirst DEF Types
<1> DEFINE f == [stack[t][1] EXCEPT !.at = "record", !.code = code]
<1>2. /\ f \in Frames /\ f.line = stack[t][1].line /\ f.at = "record" /\ f.code = code
      /\ SameMessage(f, stack[t][1])
  BY <1>1 DEF Frames, Places, SameMessage
<1>3. stack' = [stack EXCEPT ![t] = [stack[t] EXCEPT ![1] = f]]
  BY DEF Fail, Types
<1> HIDE DEF f
<1>4. Advances(t, f) /\ stack' \in [Threads -> Seq(Frames)]
  BY <1>2, <1>3, TopChanges
<1> QED
  BY <1>2, <1>4

LEMMA ReturnPops ==
    ASSUME Types, NEW t \in Threads, stack[t] # <<>>, Return(t)
    PROVE  Pops(t) /\ stack' \in [Threads -> Seq(Frames)]
<1>1. stack[t] \in Seq(Frames) /\ Len(stack[t]) \in Nat \ {0}
  BY TopIsFirst DEF Types
<1>2. Tail(stack[t]) \in Seq(Frames)
  BY <1>1
<1> QED
  BY <1>1, <1>2 DEF Return, Pops, Types

----------------------------------------------------------------------------
(* The invariant.                                                          *)

\* A thread is in one call, or in one from inside the handler of another; t_in_handler
\* says so; calls are numbered.
CallShape ==
    \A t \in Threads :
        /\ Len(stack[t]) <= 2
        /\ Len(stack[t]) = 0 => ~inHandler[t]
        /\ Len(stack[t]) = 1 => (inHandler[t] <=> stack[t][1].at = "handler")
        /\ Len(stack[t]) = 2 =>
             /\ HandlerLogs /\ inHandler[t]
             /\ stack[t][1].at \notin {"copy", "handler"} /\ stack[t][2].at = "handler"
             /\ stack[t][2].line[2] < stack[t][1].line[2]
        /\ \A i \in 1 .. Len(stack[t]) :
             stack[t][i].line[1] = t /\ stack[t][i].line[2] <= lines[t]

\* A call that may still write, and one that may write after its handler.
Buffered(f) == f.at \in {"file", "stdout"} \/ (f.at # "format" /\ f.code # "out_of_memory")
Late(f)     == f.at # "file" /\ ~(f.at \in {"record", "note"} /\ f.code = "message_truncated")

\* What a call finds in the buffer, as far as its message goes.
Prefix(buffer, size) == [i \in 1 .. size |-> buffer[i]]
HasOwn(f, buffer)    == Own(f.line, Prefix(buffer, f.size))
Shows(f, buffer)     ==
    \/ HasOwn(f, buffer)
    \/ HandlerLogs /\ f.logged /\ Late(f) /\ Overwritten(f.line, Prefix(buffer, f.size))

\* The buffer has the message of a call that may still write, or what a line from its
\* handler made of it, which that line has not done before it is formatted.
BufferInv ==
    \A t \in Threads :
        /\ lines[t] <= MaxLines[t]
        /\ \A i \in 1 .. Len(stack[t]) :
             Buffered(stack[t][i]) => Shows(stack[t][i], msgbuf[t])
        /\ Len(stack[t]) = 2 =>
             /\ stack[t][2].logged
             /\ stack[t][1].at = "format" /\ Buffered(stack[t][2]) =>
                  HasOwn(stack[t][2], msgbuf[t])

\* g_noted says what was noted; the last error was noted, or its thread is about to.
NoteInv ==
    /\ \A c \in Codes : notes[c] = IF c \in noted THEN 1 ELSE 0
    /\ sticky # NoFailure =>
        \/ sticky[2] \in noted
        \/ \E t \in Threads : /\ stack[t] # <<>> /\ stack[t][1].at = "note"
                              /\ stack[t][1].code = sticky[2]

\* While the handler was never removed, the call that waits for it, and the outer call
\* that counts its drop, told it of their failure.
Told(f) == \E call \in calls : call[1] = <<f.line, f.code>>
HandlerInv ==
    ~removed =>
        /\ handler
        /\ \A t \in Threads :
             /\ \A i \in 1 .. Len(stack[t]) : stack[t][i].at = "handler" => Told(stack[t][i])
             /\ Len(stack[t]) = 1 /\ stack[t][1].at = "drop" => Told(stack[t][1])

Inv == Types /\ CallShape /\ BufferInv /\ NoteInv /\ HandlerInv /\ OutputIsTheMessage

LEMMA OneOrTwo ==
    ASSUME Types, CallShape, NEW t \in Threads, stack[t] # <<>>
    PROVE  Len(stack[t]) \in {1, 2}
<1>1. stack[t] \in Seq(Frames) /\ Len(stack[t]) <= 2
  BY DEF CallShape, Types
<1> DEFINE n == Len(stack[t])
<1>2. n \in Nat /\ n # 0 /\ n <= 2
  BY <1>1, TopIsFirst
<1> HIDE DEF n
<1>3. n \in {1, 2}
  BY <1>2
<1> QED
  BY <1>3 DEF n

\* Frames keep to the shape when the innermost call goes on ...
LEMMA ShapeAdvances ==
    ASSUME Types, Types', CallShape, NEW t \in Threads, stack[t] # <<>>,
           NEW f \in Frames, Advances(t, f), f.line = stack[t][1].line,
           lines' = lines,
           \A u \in Threads \ {t} : inHandler'[u] = inHandler[u],
           Len(stack[t]) = 1 => (inHandler'[t] <=> f.at = "handler"),
           Len(stack[t]) = 2 => inHandler'[t] /\ f.at \notin {"copy", "handler"}
    PROVE  CallShape'
<1>1. ASSUME NEW u \in Threads \ {t} PROVE stack'[u] = stack[u] /\ inHandler'[u] = inHandler[u]
  BY DEF Advances
<1>2. /\ Len(stack'[t]) = Len(stack[t]) /\ Len(stack[t]) \in Nat \ {0}
      /\ stack'[t][1] = f /\ \A i \in 2 .. Len(stack[t]) : stack'[t][i] = stack[t][i]
  BY TopIsFirst DEF Advances
<1>3. stack \in [Threads -> Seq(Frames)] /\ stack' \in [Threads -> Seq(Frames)]
  BY DEF Types
<1>4. /\ Len(stack[t]) <= 2
      /\ Len(stack[t]) = 2 => /\ HandlerLogs /\ stack[t][2].at = "handler"
                              /\ stack[t][2].line[2] < stack[t][1].line[2]
      /\ \A i \in 1 .. Len(stack[t]) :
             stack[t][i].line[1] = t /\ stack[t][i].line[2] <= lines[t]
  BY DEF CallShape
<1>5. \A i \in 1 .. Len(stack'[t]) :
             stack'[t][i].line[1] = t /\ stack'[t][i].line[2] <= lines'[t]
  <2> TAKE i \in 1 .. Len(stack'[t])
  <2>1. CASE i = 1
    BY <1>2, <1>3, <1>4, <2>1
  <2>2. CASE i # 1
    <3>1. i \in 2 .. Len(stack[t]) /\ i \in 1 .. Len(stack[t])
      BY <1>2, <1>3, <2>2
    <3> QED
      BY <1>2, <1>4, <3>1
  <2> QED
    BY <2>1, <2>2
<1>6. Len(stack[t]) = 2 => stack'[t][2] = stack[t][2]
  BY <1>2, <1>3
<1> QED
  BY <1>1, <1>2, <1>3, <1>4, <1>5, <1>6 DEF CallShape

\* ... and when it returns.
LEMMA ShapePops ==
    ASSUME Types, Types', CallShape, NEW t \in Threads, stack[t] # <<>>, Pops(t),
           lines' = lines, inHandler' = inHandler, stack[t][1].at # "handler"
    PROVE  CallShape'
<1>1. \A u \in Threads \ {t} : stack'[u] = stack[u]
  BY DEF Pops
<1>2. /\ Len(stack'[t]) = Len(stack[t]) - 1 /\ Len(stack[t]) \in Nat \ {0}
      /\ \A i \in 1 .. Len(stack[t]) - 1 : stack'[t][i] = stack[t][i + 1]
  BY TopIsFirst DEF Pops
<1>3. stack \in [Threads -> Seq(Frames)] /\ stack' \in [Threads -> Seq(Frames)]
  BY DEF Types
<1>4. Len(stack[t]) \in {1, 2}
  BY OneOrTwo
<1>5. CASE Len(stack[t]) = 1
  <2>1. ~inHandler'[t] /\ Len(stack'[t]) = 0
    BY <1>2, <1>3, <1>5 DEF CallShape
  <2>2. \A i \in 1 .. Len(stack'[t]) : FALSE
    BY <2>1
  <2>3. ASSUME NEW u \in Threads \ {t}
        PROVE stack'[u] = stack[u] /\ inHandler'[u] = inHandler[u] /\ lines'[u] = lines[u]
    BY <1>1
  <2>4. Len(stack'[t]) # 1 /\ Len(stack'[t]) # 2 /\ Len(stack'[t]) <= 2
    BY <2>1
  <2> QED
    BY <2>1, <2>2, <2>3, <2>4 DEF CallShape
<1>6. CASE Len(stack[t]) = 2
  <2>1. Len(stack'[t]) = 1 /\ stack'[t][1] = stack[t][2]
    BY <1>2, <1>3, <1>6
  <2>2. /\ inHandler'[t] /\ stack[t][2].at = "handler"
        /\ stack[t][2].line[1] = t /\ stack[t][2].line[2] <= lines[t]
    BY <1>6 DEF CallShape
  <2> QED
    BY <1>1, <1>3, <2>1, <2>2 DEF CallShape
<1> QED
  BY <1>4, <1>5, <1>6

\* A call whose buffer is as it was keeps its text.
LEMMA BufferAdvances ==
    ASSUME Types, Types', BufferInv, NEW t \in Threads, stack[t] # <<>>,
           NEW f \in Frames, Advances(t, f), SameMessage(f, stack[t][1]), f.at # "format",
           lines' = lines, msgbuf' = msgbuf, Buffered(f) => Buffered(stack[t][1]),
           Buffered(f) /\ Late(stack[t][1]) => Late(f)
    PROVE  BufferInv'
<1>1. /\ Len(stack'[t]) = Len(stack[t]) /\ Len(stack[t]) \in Nat \ {0}
      /\ stack'[t][1] = f /\ \A i \in 2 .. Len(stack[t]) : stack'[t][i] = stack[t][i]
  BY TopIsFirst DEF Advances
<1>2. stack \in [Threads -> Seq(Frames)] /\ stack' \in [Threads -> Seq(Frames)]
  BY DEF Types
<1>3. Buffered(f) => Shows(f, msgbuf[t])
  <2>1. 1 \in 1 .. Len(stack[t])
    BY <1>1, <1>2
  <2>2. Buffered(stack[t][1]) => Shows(stack[t][1], msgbuf[t])
    BY <2>1 DEF BufferInv
  <2> QED
    BY <2>2 DEF Shows, HasOwn, SameMessage
<1>4. \A i \in 1 .. Len(stack'[t]) : Buffered(stack'[t][i]) => Shows(stack'[t][i], msgbuf[t])
  <2> TAKE i \in 1 .. Len(stack'[t])
  <2>1. CASE i = 1
    BY <1>1, <1>3, <2>1
  <2>2. CASE i # 1
    <3>1. i \in 2 .. Len(stack[t]) /\ i \in 1 .. Len(stack[t])
      BY <1>1, <1>2, <2>2
    <3> QED
      BY <1>1, <3>1 DEF BufferInv
  <2> QED
    BY <2>1, <2>2
<1>5. Len(stack'[t]) = 2 => stack'[t][2].logged
  <2> SUFFICES ASSUME Len(stack'[t]) = 2 PROVE stack'[t][2].logged
    OBVIOUS
  <2>1. Len(stack[t]) = 2 /\ stack[t][2].logged
    BY <1>1 DEF BufferInv
  <2>2. 2 \in 2 .. Len(stack[t])
    BY <2>1
  <2> QED
    BY <1>1, <2>1, <2>2
<1> QED
  BY <1>1, <1>4, <1>5 DEF BufferInv, Advances

LEMMA BufferPops ==
    ASSUME Types, Types', CallShape, BufferInv, NEW t \in Threads, stack[t] # <<>>, Pops(t),
           lines' = lines, msgbuf' = msgbuf
    PROVE  BufferInv'
<1>1. /\ Len(stack'[t]) = Len(stack[t]) - 1 /\ Len(stack[t]) \in {1, 2}
      /\ \A i \in 1 .. Len(stack[t]) - 1 : stack'[t][i] = stack[t][i + 1]
  BY OneOrTwo DEF Pops
<1>2. \A i \in 1 .. Len(stack'[t]) : Buffered(stack'[t][i]) => Shows(stack'[t][i], msgbuf[t])
  <2> TAKE i \in 1 .. Len(stack'[t])
  <2>1. i \in 1 .. Len(stack[t]) - 1 /\ i + 1 \in 1 .. Len(stack[t])
    BY <1>1
  <2> QED
    BY <1>1, <2>1 DEF BufferInv
<1>3. Len(stack'[t]) # 2
  <2>1. CASE Len(stack[t]) = 1
    BY <1>1, <2>1
  <2>2. CASE Len(stack[t]) = 2
    BY <1>1, <2>2
  <2> QED
    BY <1>1, <2>1, <2>2
<1> QED
  BY <1>2, <1>3 DEF BufferInv, Pops

\* What was noted, and who is about to note, stays.
LEMMA NoteAdvances ==
    ASSUME NoteInv, NEW t \in Threads, stack[t] # <<>>, stack[t][1].at # "note",
           sticky' = sticky, noted' = noted, notes' = notes,
           \A u \in Threads \ {t} : stack'[u] = stack[u]
    PROVE  NoteInv'
  BY DEF NoteInv

\* Who was told of a failure stays told.
LEMMA HandlerAdvances ==
    ASSUME Types, Types', HandlerInv, NEW t \in Threads, stack[t] # <<>>,
           NEW f \in Frames, Advances(t, f), removed' = removed, handler' = handler,
           calls \subseteq calls',
           f.at = "handler" => Told(f)',
           ~removed /\ Len(stack[t]) = 1 /\ f.at = "drop" => Told(f)'
    PROVE  HandlerInv'
<1>1. /\ Len(stack'[t]) = Len(stack[t]) /\ Len(stack[t]) \in Nat \ {0}
      /\ stack'[t][1] = f /\ \A i \in 2 .. Len(stack[t]) : stack'[t][i] = stack[t][i]
  BY TopIsFirst DEF Advances
<1>2. stack \in [Threads -> Seq(Frames)] /\ stack' \in [Threads -> Seq(Frames)]
  BY DEF Types
<1>3. \A g : Told(g) => Told(g)'
  BY DEF Told
<1>4. SUFFICES ASSUME ~removed, NEW u \in Threads
               PROVE  /\ \A i \in 1 .. Len(stack'[u]) :
                            stack'[u][i].at = "handler" => Told(stack[u][i])'
                      /\ Len(stack'[u]) = 1 /\ stack'[u][1].at = "drop" => Told(stack[u][1])'
  BY DEF HandlerInv
<1>5. CASE u # t
  <2>1. stack'[u] = stack[u]
    BY <1>5 DEF Advances
  <2>2. /\ \A i \in 1 .. Len(stack[u]) : stack[u][i].at = "handler" => Told(stack[u][i])
        /\ Len(stack[u]) = 1 /\ stack[u][1].at = "drop" => Told(stack[u][1])
    BY <1>4 DEF HandlerInv
  <2>3. calls \subseteq calls'
    OBVIOUS
  <2> QED
    BY <2>1, <2>2, <2>3 DEF Told
<1>6. CASE u = t
  <2>1. ASSUME NEW i \in 1 .. Len(stack'[t]), stack'[t][i].at = "handler"
        PROVE  Told(stack[t][i])'
    <3>1. CASE i = 1
      BY <1>1, <2>1, <3>1 DEF Told
    <3>2. CASE i # 1
      <4>1. i \in 2 .. Len(stack[t]) /\ i \in 1 .. Len(stack[t])
        BY <1>1, <1>2, <3>2
      <4>2. stack'[t][i] = stack[t][i]
        BY <1>1, <4>1
      <4>3. Told(stack[t][i])
        BY <1>4, <2>1, <4>1, <4>2 DEF HandlerInv
      <4> QED
        BY <4>2, <4>3 DEF Told
    <3> QED
      BY <3>1, <3>2
  <2>2. Len(stack'[t]) = 1 /\ stack'[t][1].at = "drop" => Told(stack[t][1])'
    BY <1>1, <1>4 DEF Told
  <2> QED
    BY <1>6, <2>1, <2>2
<1> QED
  BY <1>5, <1>6

LEMMA HandlerPops ==
    ASSUME Types, Types', CallShape, HandlerInv, NEW t \in Threads, stack[t] # <<>>, Pops(t),
           removed' = removed, handler' = handler, calls' = calls
    PROVE  HandlerInv'
<1>1. /\ Len(stack'[t]) = Len(stack[t]) - 1 /\ Len(stack[t]) \in Nat \ {0}
      /\ \A i \in 1 .. Len(stack[t]) - 1 : stack'[t][i] = stack[t][i + 1]
  BY TopIsFirst DEF Pops
<1>2. stack \in [Threads -> Seq(Frames)] /\ stack' \in [Threads -> Seq(Frames)]
  BY DEF Types
<1>3. SUFFICES ASSUME ~removed, NEW u \in Threads
               PROVE  /\ \A i \in 1 .. Len(stack'[u]) :
                            stack'[u][i].at = "handler" => Told(stack[u][i])'
                      /\ Len(stack'[u]) = 1 /\ stack'[u][1].at = "drop" => Told(stack[u][1])'
  BY DEF HandlerInv
<1>4. CASE u # t
  <2>1. stack'[u] = stack[u]
    BY <1>4 DEF Pops
  <2>2. /\ \A i \in 1 .. Len(stack[u]) : stack[u][i].at = "handler" => Told(stack[u][i])
        /\ Len(stack[u]) = 1 /\ stack[u][1].at = "drop" => Told(stack[u][1])
    BY <1>3 DEF HandlerInv
  <2> QED
    BY <2>1, <2>2 DEF Told
<1>5. CASE u = t
  <2>1. ASSUME NEW i \in 1 .. Len(stack'[t])
        PROVE  stack'[t][i] = stack[t][i + 1] /\ i + 1 \in 1 .. Len(stack[t])
    BY <1>1, <1>2
  <2>2. Len(stack'[t]) = 1 => stack'[t][1].at = "handler"
    <3>1. ASSUME Len(stack'[t]) = 1 PROVE Len(stack[t]) = 2 /\ stack'[t][1] = stack[t][2]
      <4>1. Len(stack[t]) = 2
        <5>1. CASE Len(stack[t]) = 1
          BY <1>1, <3>1, <5>1
        <5> QED
          BY <5>1, OneOrTwo
      <4>2. 1 \in 1 .. Len(stack[t]) - 1 /\ 1 + 1 = 2
        BY <4>1
      <4>3. stack'[t][1] = stack[t][1 + 1]
        BY <1>1, <4>2
      <4> QED
        BY <4>1, <4>2, <4>3
    <3> QED
      BY <3>1 DEF CallShape
  <2> QED
    BY <1>3, <1>5, <2>1, <2>2 DEF HandlerInv, Told
<1> QED
  BY <1>4, <1>5


----------------------------------------------------------------------------
(* A call begins.                                                          *)

LEMMA OnlyOneInHandler ==
    ASSUME Types, CallShape, NEW t \in Threads, stack[t] # <<>>, stack[t][1].at = "handler"
    PROVE  Len(stack[t]) = 1
<1>1. Len(stack[t]) # 2
  BY DEF CallShape
<1> QED
  BY <1>1, OneOrTwo

\* The new call is the innermost; the one around it, if any, has logged.
LEMMA LogPushes ==
    ASSUME Types, CallShape, NEW t \in Threads, Log(t)
    PROVE  /\ \A u \in Threads \ {t} : stack'[u] = stack[u]
           /\ stack' \in [Threads -> Seq(Frames)]
           /\ \E size \in 0 .. MaxMsg :
              \/ /\ stack[t] = <<>> /\ Len(stack[t]) = 0
                 /\ stack'[t] = <<Frame(<<t, lines[t] + 1>>, size)>>
              \/ /\ HandlerLogs /\ Len(stack[t]) = 1 /\ stack[t] # <<>>
                 /\ stack[t][1].at = "handler" /\ stack[t][1] \in Frames
                 /\ ~stack[t][1].logged
                 /\ stack'[t] = <<Frame(<<t, lines[t] + 1>>, size),
                                  [stack[t][1] EXCEPT !.logged = TRUE]>>
<1>0. PICK size \in 0 .. MaxMsg :
         stack' = IF stack[t] = <<>> THEN [stack EXCEPT ![t] = <<Frame(<<t, lines[t] + 1>>, size)>>]
                  ELSE [stack EXCEPT ![t] = <<Frame(<<t, lines[t] + 1>>, size),
                                              [Top(t) EXCEPT !.logged = TRUE]>>]
  <2>1. <<t, lines[t] + 1>> \in Lines
    <3>1. lines[t] \in Nat /\ MaxLines[t] \in Nat /\ lines[t] < MaxLines[t]
      BY ConstantsAssumption DEF Log, Types
    <3>2. lines[t] + 1 \in 1 .. MaxLines[t]
      BY <3>1
    <3> QED
      BY <3>2 DEF Lines
  <2>2. Sizes[<<t, lines[t] + 1>>] \subseteq 0 .. MaxMsg
    BY <2>1, ConstantsAssumption
  <2> QED
    BY <2>2 DEF Log
<1> DEFINE f == Frame(<<t, lines[t] + 1>>, size)
<1>1. f \in Frames
  BY DEF Frame, Frames, Places, Codes, Types
<1>2. CASE stack[t] = <<>>
  <2>1. stack' = [stack EXCEPT ![t] = <<f>>]
    BY <1>0, <1>2
  <2> HIDE DEF f
  <2>2. <<f>> \in Seq(Frames) /\ Len(stack[t]) = 0
    BY <1>1, <1>2
  <2>3. stack'[t] = <<f>> /\ stack' \in [Threads -> Seq(Frames)]
        /\ \A u \in Threads \ {t} : stack'[u] = stack[u]
    BY <2>1, <2>2 DEF Types
  <2> QED
    BY <1>2, <2>2, <2>3 DEF f
<1>3. CASE stack[t] # <<>>
  <2> DEFINE g == [stack[t][1] EXCEPT !.logged = TRUE]
  <2>1. /\ stack' = [stack EXCEPT ![t] = <<f, g>>]
        /\ stack[t][1].at = "handler" /\ HandlerLogs /\ ~stack[t][1].logged
    BY <1>0, <1>3, TopIsFirst DEF Log, At
  <2>2. g \in Frames /\ stack[t][1] \in Frames
    BY <1>3, TopIsFirst DEF Frames
  <2>3. Len(stack[t]) = 1
    BY <1>3, <2>1, OnlyOneInHandler
  <2> HIDE DEF f, g
  <2>4. <<f, g>> \in Seq(Frames)
    BY <1>1, <2>2
  <2>5. stack'[t] = <<f, g>> /\ stack' \in [Threads -> Seq(Frames)]
        /\ \A u \in Threads \ {t} : stack'[u] = stack[u]
    BY <2>1, <2>4 DEF Types
  <2> QED
    BY <1>3, <2>1, <2>2, <2>3, <2>5 DEF f, g
<1> QED
  BY <1>2, <1>3

LEMMA LogKeepsInv ==
    ASSUME Inv, NEW t \in Threads, Log(t)
    PROVE  Inv'
<1> USE DEF Inv
<1>0. PICK size \in 0 .. MaxMsg :
         \/ /\ stack[t] = <<>> /\ Len(stack[t]) = 0
            /\ stack'[t] = <<Frame(<<t, lines[t] + 1>>, size)>>
         \/ /\ HandlerLogs /\ Len(stack[t]) = 1 /\ stack[t] # <<>>
            /\ stack[t][1].at = "handler" /\ stack[t][1] \in Frames
            /\ ~stack[t][1].logged
            /\ stack'[t] = <<Frame(<<t, lines[t] + 1>>, size),
                             [stack[t][1] EXCEPT !.logged = TRUE]>>
  BY LogPushes
<1> DEFINE f == Frame(<<t, lines[t] + 1>>, size)
           g == [stack[t][1] EXCEPT !.logged = TRUE]
<1>1. \A u \in Threads \ {t} : stack'[u] = stack[u] /\ lines'[u] = lines[u]
  BY LogPushes DEF Log, Types
<1>2. /\ UNCHANGED <<msgbuf, inHandler, sticky, noted, notes, handler, removed, calls, output>>
      /\ lines' = [lines EXCEPT ![t] = lines[t] + 1] /\ lines[t] < MaxLines[t]
  BY DEF Log, errorVars, handlerVars, history
<1>3. stack' \in [Threads -> Seq(Frames)] /\ lines[t] \in Nat /\ lines'[t] = lines[t] + 1
  BY <1>2, LogPushes DEF Types
<1>4. Types'
  <2>1. lines' \in [Threads -> Nat]
    BY <1>2, <1>3 DEF Types
  <2> QED
    BY <1>2, <1>3, <2>1 DEF Types
<1>5. /\ f.line[1] = t /\ f.line[2] = lines[t] + 1 /\ f.at = "format" /\ ~Buffered(f)
  BY DEF Frame, Buffered
<1>9. \A u \in Threads : lines'[u] <= MaxLines[u]
  BY <1>1, <1>2, <1>3, ConstantsAssumption DEF BufferInv
<1>6. OutputIsTheMessage'
  BY <1>2 DEF OutputIsTheMessage
<1>7. CASE stack[t] = <<>> /\ stack'[t] = <<f>>
  <2>1. Len(stack'[t]) = 1 /\ stack'[t][1] = f /\ Len(stack[t]) = 0
        /\ \A i \in 1 .. Len(stack'[t]) : i = 1
    BY <1>7
  <2>2. ~inHandler[t]
    BY <2>1 DEF CallShape
  <2> HIDE DEF f
  <2>3. CallShape'
    BY <1>1, <1>2, <1>3, <1>5, <2>1, <2>2 DEF CallShape
  <2>4. BufferInv'
    BY <1>1, <1>2, <1>5, <1>9, <2>1 DEF BufferInv
  <2>5. NoteInv'
    BY <1>1, <1>2, <1>7 DEF NoteInv
  <2>6. HandlerInv'
    <3>1. SUFFICES ASSUME ~removed, NEW u \in Threads
                   PROVE  /\ \A i \in 1 .. Len(stack'[u]) :
                                stack'[u][i].at = "handler" => Told(stack'[u][i])
                          /\ Len(stack'[u]) = 1 /\ stack'[u][1].at = "drop"
                             => Told(stack'[u][1])
      BY <1>2 DEF HandlerInv, Told
    <3>2. CASE u = t
      BY <1>5, <2>1, <3>2
    <3>3. CASE u # t
      BY <1>1, <3>1, <3>3 DEF HandlerInv
    <3> QED
      BY <3>2, <3>3
  <2> QED
    BY <1>4, <1>6, <2>3, <2>4, <2>5, <2>6
<1>8. CASE /\ HandlerLogs /\ Len(stack[t]) = 1 /\ stack[t] # <<>>
           /\ stack[t][1].at = "handler" /\ stack[t][1] \in Frames
           /\ ~stack[t][1].logged
           /\ stack'[t] = <<f, g>>
  <2>1. /\ g.line = stack[t][1].line /\ g.at = "handler" /\ g.code = stack[t][1].code
        /\ g.logged = TRUE /\ g.size = stack[t][1].size
    BY <1>8 DEF Frames
  <2>2. /\ stack[t][1].line[1] = t /\ stack[t][1].line[2] <= lines[t]
        /\ stack[t][1].line[2] \in Nat /\ inHandler[t]
    BY <1>8 DEF CallShape, Frames
  <2>3. /\ Len(stack'[t]) = 2 /\ stack'[t][1] = f /\ stack'[t][2] = g
        /\ \A i \in 1 .. Len(stack'[t]) : i \in {1, 2}
    BY <1>8
  <2>4. Buffered(stack[t][1]) => HasOwn(stack[t][1], msgbuf[t])
    BY <1>8 DEF BufferInv, Shows
  <2>10. Buffered(g) => HasOwn(g, msgbuf[t])
    BY <1>8, <2>1, <2>4 DEF Buffered, HasOwn
  <2>5. ~removed => handler /\ Told(stack[t][1])
    BY <1>8 DEF HandlerInv
  <2> HIDE DEF f, g
  <2>6. CallShape'
    <3>1. ASSUME NEW u \in Threads \ {t}
          PROVE  stack'[u] = stack[u] /\ lines'[u] = lines[u] /\ inHandler'[u] = inHandler[u]
      BY <1>1, <1>2
    <3>2. inHandler'[t] /\ f.at \notin {"copy", "handler"} /\ g.line[2] < f.line[2]
      BY <1>2, <1>3, <1>5, <2>1, <2>2
    <3>3. /\ f.line[1] = t /\ f.line[2] <= lines'[t]
          /\ g.line[1] = t /\ g.line[2] <= lines'[t]
      BY <1>3, <1>5, <2>1, <2>2
    <3>4. \A i \in 1 .. Len(stack'[t]) :
             stack'[t][i].line[1] = t /\ stack'[t][i].line[2] <= lines'[t]
      BY <2>3, <3>3
    <3>5. /\ Len(stack'[t]) <= 2 /\ Len(stack'[t]) # 0 /\ Len(stack'[t]) # 1
      BY <2>3
    <3>6. Len(stack'[t]) = 2 =>
             /\ HandlerLogs /\ inHandler'[t]
             /\ stack'[t][1].at \notin {"copy", "handler"} /\ stack'[t][2].at = "handler"
             /\ stack'[t][2].line[2] < stack'[t][1].line[2]
      BY <1>8, <2>1, <2>3, <3>2
    <3>7. ASSUME NEW u \in Threads
          PROVE  /\ Len(stack'[u]) <= 2
                 /\ Len(stack'[u]) = 0 => ~inHandler'[u]
                 /\ Len(stack'[u]) = 1 => (inHandler'[u] <=> stack'[u][1].at = "handler")
                 /\ Len(stack'[u]) = 2 =>
                      /\ HandlerLogs /\ inHandler'[u]
                      /\ stack'[u][1].at \notin {"copy", "handler"} /\ stack'[u][2].at = "handler"
                      /\ stack'[u][2].line[2] < stack'[u][1].line[2]
                 /\ \A i \in 1 .. Len(stack'[u]) :
                      stack'[u][i].line[1] = u /\ stack'[u][i].line[2] <= lines'[u]
      <4>1. CASE u = t
        BY <3>4, <3>5, <3>6, <4>1
      <4>2. CASE u # t
        BY <3>1, <4>2 DEF CallShape
      <4> QED
        BY <4>1, <4>2
    <3> QED
      BY <3>7 DEF CallShape
  <2>7. BufferInv'
    <3>1. Buffered(g) => Shows(g, msgbuf[t])
      BY <2>10 DEF Shows
    <3> QED
      BY <1>1, <1>2, <1>5, <1>9, <2>1, <2>3, <2>10, <3>1 DEF BufferInv
  <2>8. NoteInv'
    BY <1>1, <1>2, <1>8 DEF NoteInv
  <2>9. HandlerInv'
    <3>1. SUFFICES ASSUME ~removed, NEW u \in Threads
                   PROVE  /\ \A i \in 1 .. Len(stack'[u]) :
                                stack'[u][i].at = "handler" => Told(stack'[u][i])
                          /\ Len(stack'[u]) = 1 /\ stack'[u][1].at = "drop"
                             => Told(stack'[u][1])
      BY <1>2 DEF HandlerInv, Told
    <3>2. Told(g)
      BY <2>1, <2>5, <3>1 DEF Told
    <3>3. CASE u = t
      BY <1>5, <2>3, <3>2, <3>3
    <3>4. CASE u # t
      BY <1>1, <3>1, <3>4 DEF HandlerInv
    <3> QED
      BY <3>3, <3>4
  <2> QED
    BY <1>4, <1>6, <2>6, <2>7, <2>8, <2>9
<1> QED
  BY <1>0, <1>7, <1>8

LEMMA InvInit == Init => Inv
<1> SUFFICES ASSUME Init PROVE Inv
  OBVIOUS
<1>1. lines \in [Threads -> Nat] /\ stack \in [Threads -> Seq(Frames)]
  BY DEF Init
<1>2. msgbuf \in [Threads -> [Positions -> (Threads \X Nat) \cup {Nul}]]
  BY DEF Init
<1>3. Types
  BY <1>1, <1>2 DEF Init, Types
<1>4. CallShape /\ BufferInv
  BY ConstantsAssumption DEF Init, CallShape, BufferInv
<1>5. NoteInv /\ HandlerInv /\ OutputIsTheMessage
  BY DEF Init, NoteInv, HandlerInv, OutputIsTheMessage
<1> QED
  BY <1>3, <1>4, <1>5 DEF Inv

----------------------------------------------------------------------------
(* The steps of a call.                                                    *)

LEMMA AtTop ==
    ASSUME Types, NEW t \in Threads, NEW at, At(t, at)
    PROVE  /\ stack[t] # <<>> /\ stack[t][1].at = at /\ Top(t) = stack[t][1]
           /\ stack[t][1] \in Frames
  BY TopIsFirst DEF At

\* A step that neither comes to the handler or a drop nor leaves the handler, and that
\* writes no buffer.
LEMMA PlainKeeps ==
    ASSUME Inv, Types', NEW t \in Threads, stack[t] # <<>>, stack[t][1].at # "handler",
           NEW f \in Frames, Advances(t, f), SameMessage(f, stack[t][1]),
           f.at \notin {"copy", "handler", "drop", "format"},
           Buffered(f) => Buffered(stack[t][1]),
           Buffered(f) /\ Late(stack[t][1]) => Late(f),
           UNCHANGED <<lines, msgbuf, inHandler, handlerVars, calls>>
    PROVE  CallShape' /\ BufferInv' /\ HandlerInv'
<1>1. /\ lines' = lines /\ msgbuf' = msgbuf /\ inHandler' = inHandler
      /\ handler' = handler /\ removed' = removed /\ calls' = calls
  BY DEF handlerVars
<1>2. /\ Len(stack[t]) = 1 => ~inHandler[t]
      /\ Len(stack[t]) = 2 => inHandler[t]
  BY DEF Inv, CallShape
<1>3. CallShape'
  BY <1>1, <1>2, ShapeAdvances DEF Inv, SameMessage
<1>4. BufferInv'
  BY <1>1, BufferAdvances DEF Inv
<1>5. HandlerInv'
  BY <1>1, HandlerAdvances DEF Inv
<1> QED
  BY <1>3, <1>4, <1>5

LEMMA FormatKeepsInv ==
    ASSUME Inv, NEW t \in Threads, Format(t)
    PROVE  Inv'
<1> USE DEF Inv
<1>1. /\ stack[t] # <<>> /\ stack[t][1].at = "format" /\ Top(t) = stack[t][1]
      /\ stack[t][1] \in Frames
  BY AtTop DEF Format
<1>2. /\ UNCHANGED <<lines, inHandler, sticky, noted, notes, handler, removed, calls, output>>
      /\ msgbuf' = [msgbuf EXCEPT ![t] = Overlaid(msgbuf[t], stack[t][1])]
  BY <1>1 DEF Format, Formatted, errorVars, handlerVars, history
<1>3. PICK f \in Frames : /\ Advances(t, f) /\ stack' \in [Threads -> Seq(Frames)]
                          /\ SameMessage(f, stack[t][1])
                          /\ f.line = stack[t][1].line /\ f.at \in {"file", "record"}
  <2>1. CASE Goto(t, "file")
    <3>1. "file" \in Places
      BY DEF Places
    <3> QED
      BY <1>1, <2>1, <3>1, GotoAdvances
  <2>2. CASE Fail(t, "message_truncated")
    <3>1. "message_truncated" \in Codes
      BY DEF Codes
    <3> QED
      BY <1>1, <2>2, <3>1, FailAdvances
  <2> QED
    BY <2>1, <2>2 DEF Format
<1>4. Types'
  <2>1. Overlaid(msgbuf[t], stack[t][1]) \in [Positions -> (Threads \X Nat) \cup {Nul}]
    <3>1. /\ stack[t][1].line \in (Threads \X Nat) \cup {Nul}
          /\ msgbuf[t] \in [Positions -> (Threads \X Nat) \cup {Nul}]
      BY <1>1 DEF Types, Frames
    <3> QED
      BY <3>1 DEF Overlaid
  <2>2. msgbuf' \in [Threads -> [Positions -> (Threads \X Nat) \cup {Nul}]]
    BY <1>2, <2>1 DEF Types
  <2> QED
    BY <1>2, <1>3, <2>2 DEF Types
<1>5. CallShape'
  <2>1. /\ Len(stack[t]) = 1 => ~inHandler[t]
        /\ Len(stack[t]) = 2 => inHandler[t]
    BY <1>1 DEF CallShape
  <2> QED
    BY <1>1, <1>2, <1>3, <1>4, <2>1, ShapeAdvances
<1>6. HandlerInv'
  BY <1>1, <1>2, <1>3, <1>4, HandlerAdvances
<1>7. NoteInv'
  BY <1>1, <1>2, <1>3, NoteAdvances DEF Advances
<1>8. BufferInv'
  <2>1. /\ Len(stack'[t]) = Len(stack[t]) /\ Len(stack[t]) \in {1, 2}
        /\ stack'[t][1] = f
        /\ Len(stack[t]) = 2 => stack'[t][2] = stack[t][2]
    BY <1>1, <1>3, OneOrTwo DEF Advances
  <2>2. msgbuf'[t] = Overlaid(msgbuf[t], stack[t][1])
    BY <1>2 DEF Types
  <2>3. Shows(f, msgbuf'[t])
    <3>1. f.size \in 0 .. MaxMsg /\ f.size = stack[t][1].size /\ f.line = stack[t][1].line
      BY <1>3 DEF Frames, SameMessage
    <3>2. \A i \in 1 .. f.size : msgbuf'[t][i] = f.line
      BY <2>2, <3>1, ConstantsAssumption DEF Overlaid, Positions
    <3>3. HasOwn(f, msgbuf'[t])
      BY <3>2 DEF HasOwn, Own, Prefix
    <3> QED
      BY <3>3 DEF Shows
  <2>4. Len(stack[t]) = 2 /\ Buffered(stack[t][2]) => Shows(stack[t][2], msgbuf'[t])
    <3> SUFFICES ASSUME Len(stack[t]) = 2, Buffered(stack[t][2])
                 PROVE  Shows(stack[t][2], msgbuf'[t])
      OBVIOUS
    <3>1. stack[t][2].logged /\ HasOwn(stack[t][2], msgbuf[t])
      BY <1>1 DEF BufferInv
    <3>2. /\ HandlerLogs /\ stack[t][2].line[2] < stack[t][1].line[2]
          /\ stack[t][2].at = "handler"
          /\ stack[t][1].line[1] = t /\ stack[t][2].line[1] = t
          /\ stack[t][1].line[2] <= lines[t]
      BY DEF CallShape
    <3>3. /\ stack[t][1].line \in Threads \X Nat /\ stack[t][1].size \in 0 .. MaxMsg
          /\ stack[t][2].line \in Threads \X Nat /\ stack[t][2].size \in 0 .. MaxMsg
      BY <1>1, TopIsFirst DEF Frames
    <3>4. Late(stack[t][2])
      BY <3>2 DEF Late
    <3> DEFINE own   == stack[t][2].line
               n     == stack[t][1].line[2]
               size  == stack[t][1].size
               after == Prefix(msgbuf'[t], stack[t][2].size)
    <3>5. n \in own[2] + 1 .. MaxLines[own[1]]
      <4>1. lines[t] \in Nat /\ lines[t] <= MaxLines[t] /\ MaxLines[t] \in Nat
        BY ConstantsAssumption DEF Types, BufferInv
      <4> QED
        BY <3>2, <3>3, <4>1
    <3>6. stack[t][1].line = <<own[1], n>>
      BY <3>2, <3>3
    <3>7. ASSUME NEW i \in DOMAIN after
          PROVE  after[i] = IF i <= size THEN <<own[1], n>>
                            ELSE IF i = size + 1 THEN Nul ELSE own
      <4>1. i \in 1 .. stack[t][2].size /\ after[i] = msgbuf'[t][i]
        BY <3>7 DEF Prefix
      <4>2. msgbuf[t][i] = own
        BY <3>1, <4>1 DEF HasOwn, Own, Prefix
      <4>3. i \in Positions
        BY <3>3, <4>1, ConstantsAssumption DEF Positions
      <4> QED
        BY <2>2, <3>6, <4>1, <4>2, <4>3 DEF Overlaid
    <3>8. size \in 0 .. MaxMsg
      BY <3>3
    <3> HIDE DEF n, size, after, own
    <3>9. Overwritten(own, after)
      BY <3>5, <3>7, <3>8 DEF Overwritten
    <3> QED
      BY <3>1, <3>2, <3>4, <3>9 DEF Shows, own, after
  <2>5. Len(stack'[t]) = 2 => stack'[t][2].logged
    <3>1. Len(stack[t]) = 2 => stack[t][2].logged
      BY DEF BufferInv
    <3> QED
      BY <2>1, <3>1
  <2>6. \A i \in 1 .. Len(stack'[t]) : Buffered(stack'[t][i]) => Shows(stack'[t][i], msgbuf'[t])
    <3> TAKE i \in 1 .. Len(stack'[t])
    <3>1. i = 1 \/ (i = 2 /\ Len(stack[t]) = 2)
      <4>1. CASE Len(stack[t]) = 1
        BY <2>1, <4>1
      <4>2. CASE Len(stack[t]) = 2
        BY <2>1, <4>2
      <4> QED
        BY <2>1, <4>1, <4>2
    <3> QED
      BY <2>1, <2>3, <2>4, <3>1
  <2>7. ASSUME NEW u \in Threads \ {t} PROVE stack'[u] = stack[u] /\ msgbuf'[u] = msgbuf[u]
    <3>1. stack'[u] = stack[u]
      BY <1>3 DEF Advances
    <3>2. msgbuf'[u] = msgbuf[u]
      BY <1>2 DEF Types
    <3> QED
      BY <3>1, <3>2
  <2>8. lines' = lines /\ stack'[t][1].at # "format"
    BY <1>2, <1>3, <2>1
  <2> QED
    BY <2>5, <2>6, <2>7, <2>8 DEF BufferInv
<1>9. OutputIsTheMessage'
  BY <1>2 DEF OutputIsTheMessage
<1> QED
  BY <1>4, <1>5, <1>6, <1>7, <1>8, <1>9

LEMMA RunOutKeepsInv ==
    ASSUME Inv, NEW t \in Threads, RunOut(t)
    PROVE  Inv'
<1> USE DEF Inv
<1>1. /\ stack[t] # <<>> /\ stack[t][1].at \in {"format", "file"}
      /\ stack[t][1] \in Frames
  BY AtTop DEF RunOut
<1>2. /\ UNCHANGED <<lines, msgbuf, inHandler, handlerVars, calls>>
      /\ UNCHANGED <<sticky, noted, notes, handler, removed, output>>
  BY DEF RunOut, errorVars, handlerVars
<1>3. PICK f \in Frames : /\ Advances(t, f) /\ stack' \in [Threads -> Seq(Frames)]
                          /\ SameMessage(f, stack[t][1])
                          /\ f.line = stack[t][1].line
                          /\ f.at = "record" /\ f.code = "out_of_memory"
  <2>1. "out_of_memory" \in Codes /\ Fail(t, "out_of_memory")
    BY DEF RunOut, Codes
  <2> QED
    BY <1>1, <2>1, FailAdvances
<1>5. Types'
  BY <1>2, <1>3 DEF Types
<1>6. CallShape' /\ BufferInv' /\ HandlerInv'
  BY <1>1, <1>2, <1>3, <1>5, PlainKeeps DEF Buffered, Late
<1>7. NoteInv'
  BY <1>1, <1>2, <1>3, NoteAdvances DEF Advances
<1>8. OutputIsTheMessage'
  BY <1>2 DEF OutputIsTheMessage
<1> QED
  BY <1>5, <1>6, <1>7, <1>8

LEMMA WriteKeepsInv ==
    ASSUME Inv, NEW t \in Threads, NEW sink \in {"file", "stdout"}, Write(t, sink)
    PROVE  Inv'
<1> USE DEF Inv
<1>1. /\ stack[t] # <<>> /\ stack[t][1].at = sink /\ Top(t) = stack[t][1]
      /\ stack[t][1] \in Frames
  BY AtTop DEF Write
<1>2. /\ UNCHANGED <<lines, msgbuf, inHandler, handlerVars, calls>>
      /\ UNCHANGED <<sticky, noted, notes, handler, removed>>
  BY DEF Write, errorVars, handlerVars
<1>3. OutputIsTheMessage'
  <2>1. 1 \in 1 .. Len(stack[t])
    BY <1>1, TopIsFirst
  <2>2. Shows(stack[t][1], msgbuf[t])
    BY <1>1, <2>1 DEF BufferInv, Buffered
  <2> DEFINE new == <<sink, stack[t][1].line, Text(t)>>
  <2>3. output' = output \cup {new} \/ output' = output
    BY <1>1 DEF Write
  <2>4. Text(t) = Prefix(msgbuf[t], stack[t][1].size)
    BY <1>1 DEF Text, Prefix
  <2>5. new[1] = sink /\ new[2] = stack[t][1].line /\ new[3] = Text(t)
    OBVIOUS
  <2>6. \/ Own(new[2], new[3])
        \/ HandlerLogs /\ new[1] = "stdout" /\ Overwritten(new[2], new[3])
    BY <1>1, <2>2, <2>4, <2>5 DEF Shows, HasOwn, Late
  <2> HIDE DEF new
  <2> QED
    BY <2>3, <2>6 DEF OutputIsTheMessage
<1>4. CASE Return(t) /\ sink = "stdout"
  <2>1. Pops(t) /\ stack' \in [Threads -> Seq(Frames)]
    BY <1>1, <1>4, ReturnPops
  <2>2. Types'
    BY <1>2, <2>1 DEF Types
  <2>3. CallShape' /\ BufferInv' /\ HandlerInv'
    BY <1>1, <1>2, <1>4, <2>1, <2>2, ShapePops, BufferPops, HandlerPops
  <2>4. NoteInv'
    BY <1>1, <1>2, <1>4, <2>1, NoteAdvances DEF Pops
  <2> QED
    BY <1>3, <2>2, <2>3, <2>4
<1>5. CASE Goto(t, "stdout") \/ \E code \in {"file_write", "stdout_write"} : Fail(t, code)
  <2>1. PICK f \in Frames : /\ Advances(t, f) /\ stack' \in [Threads -> Seq(Frames)]
                            /\ SameMessage(f, stack[t][1])
                            /\ f.line = stack[t][1].line /\ f.at \in {"stdout", "record"}
                            /\ f.at = "record" => f.code # "message_truncated"
    <3>1. CASE Goto(t, "stdout")
      <4>1. "stdout" \in Places
        BY DEF Places
      <4> QED
        BY <1>1, <3>1, <4>1, GotoAdvances
    <3>2. ASSUME NEW code \in {"file_write", "stdout_write"}, Fail(t, code)
          PROVE  \E f \in Frames : /\ Advances(t, f) /\ stack' \in [Threads -> Seq(Frames)]
                                   /\ SameMessage(f, stack[t][1])
                                   /\ f.line = stack[t][1].line /\ f.at \in {"stdout", "record"}
                                   /\ f.at = "record" => f.code # "message_truncated"
      <4>1. code \in Codes /\ code # "message_truncated"
        BY DEF Codes
      <4> QED
        BY <1>1, <3>2, <4>1, FailAdvances
    <3> QED
      BY <1>5, <3>1, <3>2
  <2>2. Types'
    BY <1>2, <2>1 DEF Types
  <2>3. CallShape' /\ BufferInv' /\ HandlerInv'
    BY <1>1, <1>2, <2>1, <2>2, PlainKeeps DEF Buffered, Late
  <2>4. NoteInv'
    BY <1>1, <1>2, <2>1, NoteAdvances DEF Advances
  <2> QED
    BY <1>3, <2>2, <2>3, <2>4
<1> QED
  BY <1>4, <1>5 DEF Write

LEMMA RecordKeepsInv ==
    ASSUME Inv, NEW t \in Threads, Record(t)
    PROVE  Inv'
<1> USE DEF Inv
<1>1. /\ stack[t] # <<>> /\ stack[t][1].at = "record" /\ Top(t) = stack[t][1]
      /\ stack[t][1] \in Frames
  BY AtTop DEF Record
<1>2. /\ UNCHANGED <<lines, msgbuf, inHandler, handlerVars, calls>>
      /\ UNCHANGED <<noted, notes, handler, removed, output>>
      /\ sticky' = <<stack[t][1].line, stack[t][1].code>>
  BY <1>1 DEF Record, handlerVars, history, Failing
<1>3. PICK f \in Frames : /\ Advances(t, f) /\ stack' \in [Threads -> Seq(Frames)]
                          /\ SameMessage(f, stack[t][1])
                          /\ f.line = stack[t][1].line /\ f.at = "note"
                          /\ f.code = stack[t][1].code
  <2>1. "note" \in Places /\ Goto(t, "note")
    BY DEF Record, Places
  <2> QED
    BY <1>1, <2>1, GotoAdvances
<1>4. Types'
  <2>1. sticky' \in (Threads \X Nat) \X Codes
    BY <1>1, <1>2 DEF Frames
  <2> QED
    BY <1>2, <1>3, <2>1 DEF Types
<1>5. CallShape' /\ BufferInv' /\ HandlerInv'
  BY <1>1, <1>2, <1>3, <1>4, PlainKeeps DEF Buffered, Late
<1>6. NoteInv'
  <2>1. stack'[t][1].at = "note" /\ stack'[t][1].code = sticky'[2]
    BY <1>2, <1>3 DEF Advances
  <2>2. stack'[t] # <<>>
    BY <1>1, <1>3, <1>4, TopIsFirst DEF Advances, Types
  <2> QED
    BY <1>2, <2>1, <2>2 DEF NoteInv
<1>7. OutputIsTheMessage'
  BY <1>2 DEF OutputIsTheMessage
<1> QED
  BY <1>4, <1>5, <1>6, <1>7

LEMMA NoteKeepsInv ==
    ASSUME Inv, NEW t \in Threads, Note(t)
    PROVE  Inv'
<1> USE DEF Inv
<1>1. /\ stack[t] # <<>> /\ stack[t][1].at = "note" /\ Top(t) = stack[t][1]
      /\ stack[t][1] \in Frames /\ stack[t][1].code \in Codes
  BY AtTop DEF Note, Frames
<1> DEFINE code == stack[t][1].code
<1>2. /\ UNCHANGED <<lines, msgbuf, inHandler, handlerVars, calls>>
      /\ UNCHANGED <<sticky, handler, removed, output>>
      /\ noted' = noted \cup {code}
      /\ notes' = IF code \notin noted THEN [notes EXCEPT ![code] = notes[code] + 1] ELSE notes
  BY <1>1 DEF Note, handlerVars, history, FirstOfItsCode
<1>3. PICK f \in Frames : /\ Advances(t, f) /\ stack' \in [Threads -> Seq(Frames)]
                          /\ SameMessage(f, stack[t][1])
                          /\ f.line = stack[t][1].line
                          /\ \/ f.at = "gethandler"
                             \/ f.at = "file" /\ code = "message_truncated"
                          /\ f.code = code
  <2> DEFINE at == IF code = "message_truncated" THEN "file" ELSE "gethandler"
  <2>1. at \in Places /\ Goto(t, at)
    BY <1>1 DEF Note, Places
  <2> QED
    BY <1>1, <2>1, GotoAdvances
<1>4. Types'
  <2>1. noted' \subseteq Codes /\ notes' \in [Codes -> Nat]
    BY <1>1, <1>2 DEF Types
  <2> QED
    BY <1>2, <1>3, <2>1 DEF Types
<1>5. CallShape' /\ BufferInv' /\ HandlerInv'
  BY <1>1, <1>2, <1>3, <1>4, PlainKeeps DEF Buffered, Late
<1>6. NoteInv'
  <2>1. ASSUME NEW c \in Codes PROVE notes'[c] = IF c \in noted' THEN 1 ELSE 0
    BY <1>1, <1>2 DEF NoteInv, Types
  <2>2. ASSUME sticky # NoFailure
        PROVE  \/ sticky[2] \in noted'
               \/ \E u \in Threads : /\ stack'[u] # <<>> /\ stack'[u][1].at = "note"
                                     /\ stack'[u][1].code = sticky[2]
    BY <1>2, <1>3, <2>2 DEF NoteInv, Advances
  <2> QED
    BY <1>2, <2>1, <2>2 DEF NoteInv
<1>7. OutputIsTheMessage'
  BY <1>2 DEF OutputIsTheMessage
<1> QED
  BY <1>4, <1>5, <1>6, <1>7

LEMMA GetHandlerKeepsInv ==
    ASSUME Inv, NEW t \in Threads, GetHandler(t)
    PROVE  Inv'
<1> USE DEF Inv
<1>1. /\ stack[t] # <<>> /\ stack[t][1].at = "gethandler" /\ Top(t) = stack[t][1]
      /\ stack[t][1] \in Frames
  BY AtTop DEF GetHandler
<1>2. /\ lines' = lines /\ msgbuf' = msgbuf /\ inHandler' = inHandler /\ sticky' = sticky
      /\ noted' = noted /\ notes' = notes /\ handler' = handler /\ removed' = removed
      /\ calls' = calls /\ output' = output
  BY DEF GetHandler, errorVars, handlerVars, history
<1>3. PICK f \in Frames : /\ Advances(t, f) /\ stack' \in [Threads -> Seq(Frames)]
                          /\ SameMessage(f, stack[t][1])
                          /\ f.line = stack[t][1].line /\ f.code = stack[t][1].code
                          /\ f.at = IF MayCall(t) THEN "copy" ELSE "drop"
  <2> DEFINE at == IF MayCall(t) THEN "copy" ELSE "drop"
  <2>1. at \in Places /\ Goto(t, at)
    BY DEF GetHandler, Places
  <2> QED
    BY <1>1, <2>1, GotoAdvances
<1>4. Types'
  BY <1>2, <1>3 DEF Types
<1>5. /\ Len(stack[t]) = 1 => ~inHandler[t]
      /\ Len(stack[t]) = 2 => inHandler[t]
  BY <1>1 DEF CallShape
<1>6. CallShape'
  BY <1>1, <1>2, <1>3, <1>4, <1>5, ShapeAdvances DEF MayCall
<1>7. BufferInv'
  BY <1>1, <1>2, <1>3, <1>4, BufferAdvances DEF Buffered, Late
<1>8. HandlerInv'
  <2>1. ~removed /\ Len(stack[t]) = 1 => f.at = "copy"
    BY <1>3, <1>5 DEF HandlerInv, MayCall
  <2> QED
    BY <1>1, <1>2, <1>3, <1>4, <2>1, HandlerAdvances
<1>9. NoteInv'
  BY <1>1, <1>2, <1>3, NoteAdvances DEF Advances
<1>10. OutputIsTheMessage'
  BY <1>2 DEF OutputIsTheMessage
<1> QED
  BY <1>4, <1>6, <1>7, <1>8, <1>9, <1>10

LEMMA CallHandlerKeepsInv ==
    ASSUME Inv, NEW t \in Threads, CallHandler(t)
    PROVE  Inv'
<1> USE DEF Inv
<1>1. /\ stack[t] # <<>> /\ stack[t][1].at = "copy" /\ Top(t) = stack[t][1]
      /\ stack[t][1] \in Frames
  BY AtTop DEF CallHandler
<1>2. /\ lines' = lines /\ msgbuf' = msgbuf /\ sticky' = sticky
      /\ noted' = noted /\ notes' = notes /\ handler' = handler /\ removed' = removed
      /\ inHandler' = [inHandler EXCEPT ![t] = TRUE]
      /\ calls' = calls \cup {<<<<stack[t][1].line, stack[t][1].code>>, sticky>>}
      /\ output' = output
  BY <1>1 DEF CallHandler, errorVars, handlerVars, Failing
<1>3. PICK f \in Frames : /\ Advances(t, f) /\ stack' \in [Threads -> Seq(Frames)]
                          /\ SameMessage(f, stack[t][1])
                          /\ f.line = stack[t][1].line /\ f.code = stack[t][1].code
                          /\ f.at = "handler"
  <2>1. "handler" \in Places /\ Goto(t, "handler")
    BY DEF CallHandler, Places
  <2> QED
    BY <1>1, <2>1, GotoAdvances
<1>4. Types'
  <2>1. inHandler' \in [Threads -> BOOLEAN]
    BY <1>2 DEF Types
  <2> QED
    BY <1>2, <1>3, <2>1 DEF Types
<1>5. Len(stack[t]) # 2
  BY <1>1 DEF CallShape
<1>6. CallShape'
  <2>1. inHandler'[t] /\ \A u \in Threads \ {t} : inHandler'[u] = inHandler[u]
    BY <1>2 DEF Types
  <2> QED
    BY <1>1, <1>2, <1>3, <1>4, <1>5, <2>1, ShapeAdvances
<1>7. BufferInv'
  BY <1>1, <1>2, <1>3, <1>4, BufferAdvances DEF Buffered, Late
<1>8. HandlerInv'
  <2> DEFINE failing == <<f.line, f.code>>
  <2>1. <<failing, sticky>> \in calls'
    BY <1>2, <1>3
  <2>2. <<failing, sticky>>[1] = failing
    OBVIOUS
  <2>3. Told(f)'
    BY <2>1, <2>2 DEF Told
  <2> QED
    BY <1>1, <1>2, <1>3, <1>4, <2>3, HandlerAdvances
<1>9. NoteInv'
  BY <1>1, <1>2, <1>3, NoteAdvances DEF Advances
<1>10. OutputIsTheMessage'
  BY <1>2 DEF OutputIsTheMessage
<1> QED
  BY <1>4, <1>6, <1>7, <1>8, <1>9, <1>10

LEMMA HandlerReturnsKeepsInv ==
    ASSUME Inv, NEW t \in Threads, HandlerReturns(t)
    PROVE  Inv'
<1> USE DEF Inv
<1>1. /\ stack[t] # <<>> /\ stack[t][1].at = "handler" /\ Top(t) = stack[t][1]
      /\ stack[t][1] \in Frames
  BY AtTop DEF HandlerReturns
<1>2. /\ lines' = lines /\ msgbuf' = msgbuf /\ sticky' = sticky
      /\ noted' = noted /\ notes' = notes /\ handler' = handler /\ removed' = removed
      /\ inHandler' = [inHandler EXCEPT ![t] = FALSE]
      /\ calls' = calls /\ output' = output
  BY DEF HandlerReturns, errorVars, handlerVars, history
<1>3. PICK f \in Frames : /\ Advances(t, f) /\ stack' \in [Threads -> Seq(Frames)]
                          /\ SameMessage(f, stack[t][1])
                          /\ f.line = stack[t][1].line /\ f.code = stack[t][1].code
                          /\ f.at = "drop"
  <2>1. "drop" \in Places /\ Goto(t, "drop")
    BY DEF HandlerReturns, Places
  <2> QED
    BY <1>1, <2>1, GotoAdvances
<1>4. Types'
  <2>1. inHandler' \in [Threads -> BOOLEAN]
    BY <1>2 DEF Types
  <2> QED
    BY <1>2, <1>3, <2>1 DEF Types
<1>5. Len(stack[t]) = 1
  BY <1>1, OnlyOneInHandler
<1>6. CallShape'
  <2>1. ~inHandler'[t] /\ \A u \in Threads \ {t} : inHandler'[u] = inHandler[u]
    BY <1>2 DEF Types
  <2>2. (inHandler'[t] <=> f.at = "handler") /\ Len(stack[t]) # 2
    BY <1>3, <1>5, <2>1
  <2> QED
    BY <1>1, <1>2, <1>3, <1>4, <2>1, <2>2, ShapeAdvances
<1>7. BufferInv'
  BY <1>1, <1>2, <1>3, <1>4, BufferAdvances DEF Buffered, Late
<1>8. HandlerInv'
  <2>1. ASSUME ~removed PROVE Told(f)'
    <3>1. 1 \in 1 .. Len(stack[t])
      BY <1>5
    <3>2. Told(stack[t][1])
      BY <1>1, <2>1, <3>1 DEF HandlerInv
    <3> QED
      BY <1>2, <1>3, <3>2 DEF Told
  <2> QED
    BY <1>1, <1>2, <1>3, <1>4, <2>1, HandlerAdvances
<1>9. NoteInv'
  BY <1>1, <1>2, <1>3, NoteAdvances DEF Advances
<1>10. OutputIsTheMessage'
  BY <1>2 DEF OutputIsTheMessage
<1> QED
  BY <1>4, <1>6, <1>7, <1>8, <1>9, <1>10

LEMMA CountDropKeepsInv ==
    ASSUME Inv, NEW t \in Threads, CountDrop(t)
    PROVE  Inv'
<1> USE DEF Inv
<1>1. /\ stack[t] # <<>> /\ stack[t][1].at = "drop" /\ Top(t) = stack[t][1]
      /\ stack[t][1] \in Frames
  BY AtTop DEF CountDrop
<1>2. /\ UNCHANGED <<lines, msgbuf, inHandler, handlerVars, calls>>
      /\ UNCHANGED <<sticky, noted, notes, handler, removed, output>>
  BY DEF CountDrop, handlerVars, history
<1>3. OutputIsTheMessage'
  BY <1>2 DEF OutputIsTheMessage
<1>4. CASE stack[t][1].code = "file_write"
  <2>1. PICK f \in Frames : /\ Advances(t, f) /\ stack' \in [Threads -> Seq(Frames)]
                            /\ SameMessage(f, stack[t][1])
                          /\ f.line = stack[t][1].line /\ f.at = "stdout"
    <3>1. "stdout" \in Places /\ Goto(t, "stdout")
      BY <1>1, <1>4 DEF CountDrop, Places
    <3> QED
      BY <1>1, <3>1, GotoAdvances
  <2>2. Types'
    BY <1>2, <2>1 DEF Types
  <2>3. CallShape' /\ BufferInv' /\ HandlerInv'
    BY <1>1, <1>2, <1>4, <2>1, <2>2, PlainKeeps DEF Buffered, Late
  <2>4. NoteInv'
    BY <1>1, <1>2, <2>1, NoteAdvances DEF Advances
  <2> QED
    BY <1>3, <2>2, <2>3, <2>4
<1>5. CASE stack[t][1].code # "file_write"
  <2>1. Pops(t) /\ stack' \in [Threads -> Seq(Frames)]
    BY <1>1, <1>5, ReturnPops DEF CountDrop
  <2>2. Types'
    BY <1>2, <2>1 DEF Types
  <2>3. CallShape' /\ BufferInv' /\ HandlerInv'
    BY <1>1, <1>2, <2>1, <2>2, ShapePops, BufferPops, HandlerPops
  <2>4. NoteInv'
    BY <1>1, <1>2, <2>1, NoteAdvances DEF Pops
  <2> QED
    BY <1>3, <2>2, <2>3, <2>4
<1> QED
  BY <1>4, <1>5

\* Clearing the error, a handler that comes or goes, and nothing at all.
LEMMA OthersKeepInv ==
    ASSUME Inv,
           (\E t \in Threads : ClearError(t) \/ SetErrorHandler(t)) \/ UNCHANGED vars
    PROVE  Inv'
<1> USE DEF Inv
<1>1. /\ lines' = lines /\ stack' = stack /\ msgbuf' = msgbuf /\ inHandler' = inHandler
      /\ noted' = noted /\ notes' = notes /\ calls' = calls /\ output' = output
      /\ \/ sticky' = sticky /\ handler' = handler /\ removed' = removed
         \/ sticky' = NoFailure /\ handler' = handler /\ removed' = removed
         \/ sticky' = sticky /\ handler' = ~handler /\ removed' = TRUE
  BY DEF ClearError, SetErrorHandler, vars, callVars, errorVars, handlerVars, history
<1>2. Types'
  BY <1>1 DEF Types
<1>3. CallShape' /\ BufferInv'
  BY <1>1 DEF CallShape, BufferInv, Buffered, Shows
<1>4. NoteInv'
  BY <1>1 DEF NoteInv
<1>5. HandlerInv'
  BY <1>1 DEF HandlerInv, Told
<1>6. OutputIsTheMessage'
  BY <1>1 DEF OutputIsTheMessage
<1> QED
  BY <1>2, <1>3, <1>4, <1>5, <1>6

----------------------------------------------------------------------------
(* The theorems.                                                           *)

LEMMA InvHolds == Spec => []Inv
<1>1. Inv /\ [Next]_vars => Inv'
  <2> SUFFICES ASSUME Inv, [Next]_vars PROVE Inv'
    OBVIOUS
  <2>1. ASSUME NEW t \in Threads, Step(t) PROVE Inv'
    BY <2>1, FormatKeepsInv, RunOutKeepsInv, WriteKeepsInv, RecordKeepsInv, NoteKeepsInv,
       GetHandlerKeepsInv, CallHandlerKeepsInv, HandlerReturnsKeepsInv, CountDropKeepsInv
    DEF Step
  <2> QED
    BY <2>1, LogKeepsInv, OthersKeepInv DEF Next
<1> QED
  BY <1>1, InvInit, PTL DEF Spec

\* What a call writes to its file is its own message.  What it then writes to stdout is
\* its own message too, unless its handler logged between the two: dispatch reads the
\* thread-local buffer again, at the length it had, and finds there the handler's line,
\* its NUL and the rest of the own message.
THEOREM OutputCorrect == Spec => []OutputIsTheMessage
<1>1. Inv => OutputIsTheMessage
  BY DEF Inv
<1> QED
  BY <1>1, InvHolds, PTL

\* Any number of threads that meet failures of one code note it once on stderr; and the
\* last error was noted once no call is under way.
THEOREM OneNoteCorrect == Spec => []OneNotePerCode
<1>1. Inv => OneNotePerCode
  <2> SUFFICES ASSUME Inv PROVE OneNotePerCode
    OBVIOUS
  <2>1. \A c \in Codes : notes[c] <= 1
    BY DEF Inv, NoteInv
  <2>2. ASSUME sticky # NoFailure, Quiet PROVE notes[sticky[2]] = 1
    <3>1. sticky[2] \in noted /\ sticky[2] \in Codes
      BY <2>2 DEF Inv, NoteInv, Types, Quiet
    <3> QED
      BY <3>1 DEF Inv, NoteInv
  <2> QED
    BY <2>1, <2>2 DEF OneNotePerCode
<1> QED
  BY <1>1, InvHolds, PTL

\* report passes no failure of the program's own lines by, as long as the handler was
\* never removed: between the read of the handler and its call other threads run.
THEOREM HandlerSeesLosses == Spec => []HandlerSeesEveryLoss
<1>1. Inv => HandlerSeesEveryLoss
  <2> SUFFICES ASSUME Inv, ~removed, NEW t \in Threads, At(t, "drop"), Len(stack[t]) = 1
               PROVE  \E call \in calls : call[1] = Failing(t)
    BY DEF HandlerSeesEveryLoss
  <2>1. stack[t][1].at = "drop" /\ Top(t) = stack[t][1]
    BY AtTop DEF Inv
  <2> QED
    BY <2>1 DEF Inv, HandlerInv, Told, Failing
<1> QED
  BY <1>1, InvHolds, PTL


----------------------------------------------------------------------------
(* The count of drops: it is the number of outputs that are missed for     *)
(* good.                                                                   *)

Logged == {l \in Lines : l[2] <= lines[l[1]]}

Written(sink, line) == \E w \in output : w[1] = sink /\ w[2] = line

\* A call has still to write its line to the file, or to count that it did not.
FilePending(f) == f.at \in {"format", "file"} \/ (f.at # "stdout" /\ f.code # "stdout_write")

Pending(sink, line) ==
    \E t \in Threads : \E i \in 1 .. Len(stack[t]) :
        stack[t][i].line = line /\ (sink = "stdout" \/ FilePending(stack[t][i]))

Misses(sink, line) ==
    ~Written(sink, line) /\ ~Pending(sink, line) /\ (sink = "file" \/ line \notin abandoned)

Missed == {o \in {"file", "stdout"} \X Logged : Misses(o[1], o[2])}

\* Lines are numbered, and only those that were logged are written.
Numbered ==
    /\ \A t \in Threads :
          /\ lines[t] <= MaxLines[t]
          /\ \A i \in 1 .. Len(stack[t]) : stack[t][i].line[2] >= 1
    /\ \A w \in output : w[2] \in Logged
    /\ abandoned \subseteq Logged

Reporting == {"record", "note", "gethandler", "copy", "handler", "drop"}

\* What a call has still to write is not written; a line is abandoned by the call that
\* reports so, and a message that was cut is not lost.
StillToWrite(f) ==
    /\ FilePending(f) => ~Written("file", f.line)
    /\ ~Written("stdout", f.line)
    /\ f.line \in abandoned <=> (f.at \in Reporting /\ f.code = "out_of_memory")
    /\ f.at \in {"gethandler", "copy", "handler", "drop"} => f.code # "message_truncated"

Underway == \A t \in Threads : \A i \in 1 .. Len(stack[t]) : StillToWrite(stack[t][i])

Counted == IsFiniteSet(Missed) /\ drops = Cardinality(Missed)

CountInv == Numbered /\ Underway /\ Counted

\* No two calls have the same line.
LEMMA OwnLines ==
    ASSUME Types, CallShape, NEW t \in Threads, NEW u \in Threads,
           NEW i \in 1 .. Len(stack[t]), NEW j \in 1 .. Len(stack[u]),
           stack[t][i].line = stack[u][j].line
    PROVE  t = u /\ i = j
<1>1. t = u
  BY DEF CallShape
<1>2. stack[t] # <<>> /\ Len(stack[t]) \in {1, 2}
  <2>1. stack[t] # <<>>
    OBVIOUS
  <2> QED
    BY <2>1, OneOrTwo
<1>3. CASE Len(stack[t]) = 1
  BY <1>1, <1>3
<1>4. CASE Len(stack[t]) = 2
  <2>1. stack[t][2].line[2] < stack[t][1].line[2]
    BY <1>4 DEF CallShape
  <2>2. stack[t][1] \in Frames /\ stack[t][2] \in Frames
    BY <1>2, <1>4, TopIsFirst
  <2>3. stack[t][1].line # stack[t][2].line
    BY <2>1, <2>2 DEF Frames
  <2>4. i \in {1, 2} /\ j \in {1, 2}
    BY <1>1, <1>4
  <2> QED
    BY <1>1, <2>3, <2>4
<1> QED
  BY <1>2, <1>3, <1>4

\* The line of a call was logged.
LEMMA CallIsLogged ==
    ASSUME Types, CallShape, Numbered, NEW t \in Threads, NEW i \in 1 .. Len(stack[t])
    PROVE  stack[t][i].line \in Logged
<1>1. stack[t] # <<>>
  OBVIOUS
<1>2. stack[t][i] \in Frames
  BY <1>1, TopIsFirst
<1> DEFINE l == stack[t][i].line
<1>3. /\ l \in Threads \X Nat /\ l[1] = t /\ l[2] <= lines[t] /\ l[2] >= 1
      /\ lines[t] <= MaxLines[t] /\ lines[t] \in Nat /\ MaxLines[t] \in Nat
  BY <1>2, ConstantsAssumption DEF Frames, CallShape, Numbered, Types
<1> HIDE DEF l
<1>4. l[2] \in 1 .. MaxLines[t] /\ l = <<t, l[2]>>
  BY <1>3
<1>5. l \in {t} \X (1 .. MaxLines[t])
  BY <1>4
<1>6. l \in Lines
  BY <1>5 DEF Lines
<1> QED
  BY <1>3, <1>6 DEF Logged, l

----------------------------------------------------------------------------
(* What a step leaves pending.                                             *)

\* A step that goes on with a line writes and abandons no other.
OnlyOf(line) ==
    \A l : l # line => /\ l \in abandoned' <=> l \in abandoned
                       /\ \A sink : Written(sink, l)' <=> Written(sink, l)

LEMMA PendingAdvances ==
    ASSUME Types, CallShape, Types', NEW t \in Threads, stack[t] # <<>>,
           NEW f \in Frames, Advances(t, f), f.line = stack[t][1].line
    PROVE  /\ \A sink, l : l # f.line => (Pending(sink, l)' <=> Pending(sink, l))
           /\ Pending("stdout", f.line) /\ Pending("stdout", f.line)'
           /\ Pending("file", f.line)' <=> FilePending(f)
           /\ Pending("file", f.line) <=> FilePending(stack[t][1])
<1>1. /\ \A u \in Threads \ {t} : stack'[u] = stack[u]
      /\ Len(stack'[t]) = Len(stack[t]) /\ stack'[t][1] = f
      /\ \A i \in 2 .. Len(stack[t]) : stack'[t][i] = stack[t][i]
      /\ Len(stack[t]) \in Nat \ {0} /\ 1 \in 1 .. Len(stack[t])
  BY TopIsFirst DEF Advances
<1>2. /\ \A u \in Threads : Len(stack'[u]) = Len(stack[u])
      /\ \A u \in Threads : \A i \in 1 .. Len(stack[u]) :
            /\ stack'[u][i].line = stack[u][i].line
            /\ stack'[u][i].line # f.line => stack'[u][i] = stack[u][i]
  <2>1. \A i \in 1 .. Len(stack[t]) : i = 1 \/ i \in 2 .. Len(stack[t])
    BY <1>1
  <2> QED
    BY <1>1, <2>1
<1>3. \A u \in Threads : \A i \in 1 .. Len(stack[u]) :
         stack[u][i].line = f.line => u = t /\ i = 1
  BY <1>1, OwnLines
<1>4. \A sink, l : l # f.line => (Pending(sink, l)' <=> Pending(sink, l))
  BY <1>2 DEF Pending
<1>5. Pending("stdout", f.line) /\ Pending("stdout", f.line)'
  BY <1>1 DEF Pending
<1>6. Pending("file", f.line)' <=> FilePending(f)
  BY <1>1, <1>2, <1>3 DEF Pending
<1>7. Pending("file", f.line) <=> FilePending(stack[t][1])
  BY <1>1, <1>3 DEF Pending
<1> QED
  BY <1>4, <1>5, <1>6, <1>7

LEMMA PendingPops ==
    ASSUME Types, CallShape, Types', NEW t \in Threads, stack[t] # <<>>, Pops(t),
           NEW line, line = stack[t][1].line
    PROVE  /\ \A sink, l : l # line => (Pending(sink, l)' <=> Pending(sink, l))
           /\ \A sink : ~Pending(sink, line)'
           /\ Pending("stdout", line)
           /\ Pending("file", line) <=> FilePending(stack[t][1])
<1> DEFINE n == Len(stack[t])
<1>1. /\ \A u \in Threads \ {t} : stack'[u] = stack[u]
      /\ Len(stack'[t]) = n - 1 /\ n \in Nat \ {0} /\ 1 \in 1 .. n
      /\ \A i \in 1 .. n - 1 : stack'[t][i] = stack[t][i + 1] /\ i + 1 \in 1 .. n /\ i + 1 # 1
  BY TopIsFirst DEF Pops
<1>2. \A u \in Threads : \A i \in 1 .. Len(stack[u]) :
         stack[u][i].line = line => u = t /\ i = 1
  BY <1>1, OwnLines
<1>3. ASSUME NEW sink, NEW l, l # line PROVE Pending(sink, l)' <=> Pending(sink, l)
  <2>1. ASSUME NEW u \in Threads, NEW i \in 1 .. Len(stack'[u]), stack'[u][i].line = l,
               sink = "stdout" \/ FilePending(stack'[u][i])
        PROVE  Pending(sink, l)
    <3>1. CASE u = t
      BY <1>1, <2>1, <3>1 DEF Pending
    <3>2. CASE u # t
      BY <1>1, <2>1, <3>2 DEF Pending
    <3> QED
      BY <3>1, <3>2
  <2>2. ASSUME NEW u \in Threads, NEW i \in 1 .. Len(stack[u]), stack[u][i].line = l,
               sink = "stdout" \/ FilePending(stack[u][i])
        PROVE  Pending(sink, l)'
    <3>1. CASE u = t
      <4>1. i - 1 \in 1 .. n - 1 /\ i - 1 + 1 = i
        BY <1>1, <1>3, <2>2, <3>1
      <4>2. stack'[t][i - 1] = stack[t][i] /\ i - 1 \in 1 .. Len(stack'[t])
        BY <1>1, <4>1
      <4> QED
        BY <2>2, <3>1, <4>2 DEF Pending
    <3>2. CASE u # t
      BY <1>1, <2>2, <3>2 DEF Pending
    <3> QED
      BY <3>1, <3>2
  <2> QED
    BY <2>1, <2>2 DEF Pending
<1>4. ASSUME NEW sink, Pending(sink, line)' PROVE FALSE
  <2>1. PICK u \in Threads : \E i \in 1 .. Len(stack'[u]) : stack'[u][i].line = line
    BY <1>4 DEF Pending
  <2>2. CASE u = t
    BY <1>1, <1>2, <2>1, <2>2
  <2>3. CASE u # t
    BY <1>1, <1>2, <2>1, <2>3
  <2> QED
    BY <2>2, <2>3
<1>5. Pending("stdout", line)
  BY <1>1 DEF Pending
<1>6. Pending("file", line) <=> FilePending(stack[t][1])
  BY <1>1, <1>2 DEF Pending
<1> QED
  BY <1>3, <1>4, <1>5, <1>6

----------------------------------------------------------------------------
(* What a step misses.                                                     *)

LEMMA AdvanceMisses ==
    ASSUME Types, CallShape, Types', NEW t \in Threads, stack[t] # <<>>,
           NEW f \in Frames, Advances(t, f), f.line = stack[t][1].line, OnlyOf(f.line)
    PROVE  /\ \A sink, l : l # f.line => (Misses(sink, l)' <=> Misses(sink, l))
           /\ ~Misses("stdout", f.line) /\ ~Misses("stdout", f.line)'
           /\ Misses("file", f.line)' <=> (~Written("file", f.line)' /\ ~FilePending(f))
           /\ Misses("file", f.line) <=> (~Written("file", f.line) /\ ~FilePending(stack[t][1]))
  BY PendingAdvances DEF Misses, OnlyOf

LEMMA PopMisses ==
    ASSUME Types, CallShape, Types', NEW t \in Threads, stack[t] # <<>>, Pops(t),
           NEW line, line = stack[t][1].line, OnlyOf(line)
    PROVE  /\ \A sink, l : l # line => (Misses(sink, l)' <=> Misses(sink, l))
           /\ ~Misses("stdout", line)
           /\ Misses("stdout", line)' <=> (~Written("stdout", line)' /\ line \notin abandoned')
           /\ Misses("file", line)' <=> ~Written("file", line)'
           /\ Misses("file", line) <=> (~Written("file", line) /\ ~FilePending(stack[t][1]))
  BY PendingPops DEF Misses, OnlyOf

LEMMA CountedSame ==
    ASSUME Counted, drops' = drops,
           \A sink \in {"file", "stdout"} : \A l : 
              (l \in Logged' /\ Misses(sink, l)') <=> (l \in Logged /\ Misses(sink, l))
    PROVE  Counted'
<1>1. Missed' = Missed
  BY DEF Missed
<1> QED
  BY <1>1 DEF Counted

LEMMA CountedOneMore ==
    ASSUME Counted, drops' = drops + 1, Logged' = Logged,
           NEW s \in {"file", "stdout"}, NEW line \in Logged, ~Misses(s, line), Misses(s, line)',
           \A sink \in {"file", "stdout"} : \A l \in Logged :
              sink # s \/ l # line => (Misses(sink, l)' <=> Misses(sink, l))
    PROVE  Counted'
<1> DEFINE p == <<s, line>>
<1>1. Missed' = Missed \cup {p} /\ p \notin Missed
  <2>1. ASSUME NEW sink \in {"file", "stdout"}, NEW l \in Logged
        PROVE  <<sink, l>> \in Missed' <=> (<<sink, l>> \in Missed \/ <<sink, l>> = p)
    <3>1. <<sink, l>> \in Missed' <=> Misses(sink, l)'
      BY <2>1 DEF Missed
    <3>2. <<sink, l>> \in Missed <=> Misses(sink, l)
      BY <2>1 DEF Missed
    <3>3. <<sink, l>> = p <=> (sink = s /\ l = line)
      OBVIOUS
    <3> QED
      BY <3>1, <3>2, <3>3
  <2>2. /\ \A o \in Missed \cup Missed' \cup {p} : o \in {"file", "stdout"} \X Logged
        /\ p \notin Missed
    BY DEF Missed
  <2> HIDE DEF p
  <2>3. \A o \in {"file", "stdout"} \X Logged : o \in Missed' <=> o \in Missed \cup {p}
    <3> SUFFICES ASSUME NEW o \in {"file", "stdout"} \X Logged
                 PROVE  o \in Missed' <=> o \in Missed \cup {p}
      OBVIOUS
    <3>1. PICK sink \in {"file", "stdout"}, l \in Logged : o = <<sink, l>>
      OBVIOUS
    <3> QED
      BY <2>1, <3>1
  <2> QED
    BY <2>2, <2>3
<1> HIDE DEF p
<1>2. IsFiniteSet(Missed \cup {p}) /\ Cardinality(Missed \cup {p}) = Cardinality(Missed) + 1
  BY <1>1, FS_AddElement DEF Counted
<1> QED
  BY <1>1, <1>2 DEF Counted

LEMMA LoggedSame ==
    ASSUME lines' = lines
    PROVE  Logged' = Logged
  BY DEF Logged

LEMMA UnderwayAdvances ==
    ASSUME Types, CallShape, Types', Underway, NEW t \in Threads, stack[t] # <<>>,
           NEW f \in Frames, Advances(t, f), f.line = stack[t][1].line, OnlyOf(f.line),
           StillToWrite(f)'
    PROVE  Underway'
<1>1. /\ \A u \in Threads \ {t} : stack'[u] = stack[u]
      /\ Len(stack'[t]) = Len(stack[t]) /\ stack'[t][1] = f
      /\ \A i \in 2 .. Len(stack[t]) : stack'[t][i] = stack[t][i]
      /\ Len(stack[t]) \in Nat \ {0} /\ 1 \in 1 .. Len(stack[t])
  BY TopIsFirst DEF Advances
<1>2. ASSUME NEW g, g.line # f.line, StillToWrite(g) PROVE StillToWrite(g)'
  BY <1>2 DEF StillToWrite, OnlyOf
<1>3. ASSUME NEW u \in Threads, NEW i \in 1 .. Len(stack'[u]), NEW h, h = stack'[u][i]
      PROVE  StillToWrite(h)'
  <2>1. CASE u = t /\ i = 1
    <3>1. h = f
      BY <1>1, <1>3, <2>1
    <3> QED
      BY <3>1
  <2>2. CASE ~(u = t /\ i = 1)
    <3>1. i \in 1 .. Len(stack[u]) /\ stack'[u][i] = stack[u][i]
      <4>1. \A j \in 1 .. Len(stack[t]) : j = 1 \/ j \in 2 .. Len(stack[t])
        BY <1>1
      <4> QED
        BY <1>1, <1>3, <2>2, <4>1
    <3>2. stack[u][i].line # f.line
      BY <1>1, <2>2, <3>1, OwnLines
    <3>3. PICK g : g = stack[u][i]
      OBVIOUS
    <3>4. StillToWrite(g)
      BY <3>1, <3>3 DEF Underway
    <3>5. StillToWrite(g)'
      BY <1>2, <3>2, <3>3, <3>4
    <3> QED
      BY <1>3, <3>1, <3>3, <3>5
  <2> QED
    BY <2>1, <2>2
<1> QED
  BY <1>3 DEF Underway, StillToWrite, Written, FilePending

LEMMA UnderwayPops ==
    ASSUME Types, CallShape, Types', Underway, NEW t \in Threads, stack[t] # <<>>, Pops(t),
           NEW line, line = stack[t][1].line, OnlyOf(line)
    PROVE  Underway'
<1> DEFINE n == Len(stack[t])
<1>1. /\ \A u \in Threads \ {t} : stack'[u] = stack[u]
      /\ Len(stack'[t]) = n - 1 /\ n \in Nat \ {0} /\ 1 \in 1 .. n
      /\ \A i \in 1 .. n - 1 : stack'[t][i] = stack[t][i + 1] /\ i + 1 \in 1 .. n /\ i + 1 # 1
  BY TopIsFirst DEF Pops
<1>2. ASSUME NEW g, g.line # line, StillToWrite(g) PROVE StillToWrite(g)'
  BY <1>2 DEF StillToWrite, OnlyOf
<1>3. ASSUME NEW u \in Threads, NEW i \in 1 .. Len(stack'[u]), NEW h, h = stack'[u][i]
      PROVE  StillToWrite(h)'
  <2>1. PICK j \in 1 .. Len(stack[u]) : stack'[u][i] = stack[u][j] /\ ~(u = t /\ j = 1)
    <3>1. CASE u = t
      BY <1>1, <1>3, <3>1
    <3>2. CASE u # t
      BY <1>1, <1>3, <3>2
    <3> QED
      BY <3>1, <3>2
  <2>2. stack[u][j].line # line
    BY <1>1, <2>1, OwnLines
  <2>3. PICK g : g = stack[u][j]
    OBVIOUS
  <2>4. StillToWrite(g)
    BY <2>1, <2>3 DEF Underway
  <2>5. StillToWrite(g)'
    BY <1>2, <2>2, <2>3, <2>4
  <2> QED
    BY <1>3, <2>1, <2>3, <2>5
<1> QED
  BY <1>3 DEF Underway, StillToWrite, Written, FilePending

LEMMA NumberedKept ==
    ASSUME Types, Numbered, NEW t \in Threads, stack[t] # <<>>,
           \/ Pops(t)
           \/ \E f \in Frames : Advances(t, f) /\ f.line = stack[t][1].line,
           lines' = lines, \A w \in output' : w[2] \in Logged, abandoned' \subseteq Logged
    PROVE  Numbered'
<1>1. Logged' = Logged
  BY LoggedSame
<1>2. ASSUME NEW u \in Threads, NEW i \in 1 .. Len(stack'[u]) PROVE stack'[u][i].line[2] >= 1
  <2>1. \E j \in 1 .. Len(stack[u]) : stack'[u][i].line = stack[u][j].line
    <3>1. CASE Pops(t)
      <4>1. /\ \A v \in Threads \ {t} : stack'[v] = stack[v]
            /\ Len(stack'[t]) = Len(stack[t]) - 1 /\ Len(stack[t]) \in Nat \ {0}
            /\ \A k \in 1 .. Len(stack[t]) - 1 :
                  stack'[t][k] = stack[t][k + 1] /\ k + 1 \in 1 .. Len(stack[t])
        BY <3>1, TopIsFirst DEF Pops
      <4> QED
        BY <1>2, <4>1
    <3>2. ASSUME NEW f \in Frames, Advances(t, f), f.line = stack[t][1].line
          PROVE  \E j \in 1 .. Len(stack[u]) : stack'[u][i].line = stack[u][j].line
      <4>1. /\ \A v \in Threads \ {t} : stack'[v] = stack[v]
            /\ Len(stack'[t]) = Len(stack[t]) /\ stack'[t][1] = f
            /\ \A k \in 2 .. Len(stack[t]) : stack'[t][k] = stack[t][k]
            /\ \A k \in 1 .. Len(stack[t]) : k = 1 \/ k \in 2 .. Len(stack[t])
        BY <3>2, TopIsFirst DEF Advances
      <4>2. \A v \in Threads : Len(stack'[v]) = Len(stack[v])
                               /\ \A k \in 1 .. Len(stack[v]) : stack'[v][k].line = stack[v][k].line
        BY <3>2, <4>1
      <4> QED
        BY <1>2, <4>2
    <3> QED
      BY <3>1, <3>2
  <2> QED
    BY <2>1 DEF Numbered
<1> QED
  BY <1>1, <1>2 DEF Numbered

----------------------------------------------------------------------------
(* What the steps of a call do to the count.                               *)

\* A call that goes on and counts nothing: its line is as much written, or still to be
\* written, as before.
LEMMA AdvanceKeepsCount ==
    ASSUME Inv, CountInv, Types', NEW t \in Threads, stack[t] # <<>>,
           NEW f \in Frames, Advances(t, f), f.line = stack[t][1].line, OnlyOf(f.line),
           lines' = lines, drops' = drops, StillToWrite(f)',
           Written("file", f.line)' \/ FilePending(f)
           <=> Written("file", f.line) \/ FilePending(stack[t][1]),
           \A w \in output' : w[2] \in Logged, abandoned' \subseteq Logged
    PROVE  CountInv'
<1>1. Types /\ CallShape /\ Numbered /\ Underway /\ Counted
  BY DEF Inv, CountInv
<1>2. Numbered'
  BY <1>1, NumberedKept
<1>3. Underway'
  BY <1>1, UnderwayAdvances
<1>4. Counted'
  <2>1. ASSUME NEW sink \in {"file", "stdout"}, NEW l PROVE Misses(sink, l)' <=> Misses(sink, l)
    BY <1>1, AdvanceMisses
  <2>2. Logged' = Logged
    BY LoggedSame
  <2> QED
    BY <1>1, <2>1, <2>2, CountedSame
<1> QED
  BY <1>2, <1>3, <1>4 DEF CountInv

\* A call that goes on and neither writes nor counts.
LEMMA SilentKeepsCount ==
    ASSUME Inv, CountInv, Types', NEW t \in Threads, stack[t] # <<>>,
           NEW f \in Frames, Advances(t, f), f.line = stack[t][1].line,
           lines' = lines, drops' = drops, output' = output, abandoned' = abandoned,
           FilePending(f) <=> FilePending(stack[t][1]),
           f.at \in Reporting /\ f.code = "out_of_memory"
           <=> stack[t][1].at \in Reporting /\ stack[t][1].code = "out_of_memory",
           f.at \in {"gethandler", "copy", "handler", "drop"} => f.code # "message_truncated"
    PROVE  CountInv'
<1>1. StillToWrite(stack[t][1])
  <2>1. 1 \in 1 .. Len(stack[t])
    BY TopIsFirst DEF Inv
  <2> QED
    BY <2>1 DEF CountInv, Underway
<1>2. \A sink, l : Written(sink, l)' <=> Written(sink, l)
  BY DEF Written
<1>3. StillToWrite(f)'
  BY <1>1, <1>2 DEF StillToWrite
<1>4. OnlyOf(f.line)
  BY <1>2 DEF OnlyOf
<1>5. /\ \A w \in output' : w[2] \in Logged
      /\ abandoned' \subseteq Logged
  BY DEF CountInv, Numbered
<1>6. Written("file", f.line)' \/ FilePending(f)
      <=> Written("file", f.line) \/ FilePending(stack[t][1])
  BY <1>2
<1> QED
  BY <1>3, <1>4, <1>5, <1>6, AdvanceKeepsCount

\* What is known of the call that makes a step.
LEMMA OfTop ==
    ASSUME Inv, CountInv, NEW t \in Threads, NEW at, At(t, at)
    PROVE  /\ stack[t] # <<>> /\ stack[t][1].at = at /\ Top(t) = stack[t][1]
           /\ stack[t][1] \in Frames /\ stack[t][1].code \in Codes
           /\ StillToWrite(stack[t][1]) /\ stack[t][1].line \in Logged
<1>1. /\ stack[t] # <<>> /\ stack[t][1].at = at /\ Top(t) = stack[t][1]
      /\ stack[t][1] \in Frames /\ 1 \in 1 .. Len(stack[t])
  BY AtTop, TopIsFirst DEF Inv
<1>2. StillToWrite(stack[t][1])
  BY <1>1 DEF CountInv, Underway
<1>3. stack[t][1].line \in Logged
  BY <1>1, CallIsLogged DEF Inv, CountInv
<1> QED
  BY <1>1, <1>2, <1>3 DEF Frames

LEMMA FormatKeepsCount ==
    ASSUME Inv, CountInv, Types', NEW t \in Threads, Format(t)
    PROVE  CountInv'
<1>1. /\ stack[t] # <<>> /\ stack[t][1].at = "format" /\ stack[t][1] \in Frames
  BY OfTop DEF Format
<1>2. lines' = lines /\ drops' = drops /\ output' = output /\ abandoned' = abandoned
  BY DEF Format, errorVars, history
<1>3. "file" \in Places /\ "message_truncated" \in Codes
  BY DEF Places, Codes
<1>4. PICK f \in Frames : /\ Advances(t, f) /\ f.line = stack[t][1].line
                          /\ \/ f.at = "file"
                             \/ f.at = "record" /\ f.code = "message_truncated"
  <2>1. CASE Goto(t, "file")
    BY <1>1, <1>3, <2>1, GotoAdvances DEF Inv
  <2>2. CASE Fail(t, "message_truncated")
    BY <1>1, <1>3, <2>2, FailAdvances DEF Inv
  <2> QED
    BY <2>1, <2>2 DEF Format
<1> QED
  BY <1>1, <1>2, <1>4, SilentKeepsCount DEF FilePending, Reporting

LEMMA RunOutKeepsCount ==
    ASSUME Inv, CountInv, Types', NEW t \in Threads, RunOut(t)
    PROVE  CountInv'
<1>1. /\ stack[t] # <<>> /\ stack[t][1].at \in {"format", "file"} /\ Top(t) = stack[t][1]
      /\ StillToWrite(stack[t][1]) /\ stack[t][1].line \in Logged /\ stack[t][1] \in Frames
  BY OfTop DEF RunOut
<1>2. /\ lines' = lines /\ drops' = drops /\ output' = output
      /\ abandoned' = abandoned \cup {stack[t][1].line}
  BY <1>1 DEF RunOut, errorVars
<1>3. PICK f \in Frames : /\ Advances(t, f) /\ f.line = stack[t][1].line
                          /\ f.at = "record" /\ f.code = "out_of_memory"
  <2>1. "out_of_memory" \in Codes /\ Fail(t, "out_of_memory")
    BY DEF RunOut, Codes
  <2> QED
    BY <1>1, <2>1, FailAdvances DEF Inv
<1>4. \A sink, l : Written(sink, l)' <=> Written(sink, l)
  BY <1>2 DEF Written
<1>5. OnlyOf(f.line)
  BY <1>2, <1>3, <1>4 DEF OnlyOf
<1>6. FilePending(stack[t][1]) /\ FilePending(f)
  BY <1>1, <1>3 DEF FilePending
<1>7. StillToWrite(f)'
  BY <1>1, <1>2, <1>3, <1>4, <1>6 DEF StillToWrite, Reporting
<1>8. (\A w \in output' : w[2] \in Logged) /\ abandoned' \subseteq Logged
  BY <1>1, <1>2 DEF CountInv, Numbered
<1> QED
  BY <1>1, <1>2, <1>3, <1>5, <1>6, <1>7, <1>8, AdvanceKeepsCount

LEMMA RecordKeepsCount ==
    ASSUME Inv, CountInv, Types', NEW t \in Threads, Record(t)
    PROVE  CountInv'
<1>1. /\ stack[t] # <<>> /\ stack[t][1].at = "record" /\ stack[t][1] \in Frames
  BY OfTop DEF Record
<1>2. lines' = lines /\ drops' = drops /\ output' = output /\ abandoned' = abandoned
  BY DEF Record, history
<1>3. PICK f \in Frames : /\ Advances(t, f) /\ f.line = stack[t][1].line
                          /\ f.at = "note" /\ f.code = stack[t][1].code
  <2>1. "note" \in Places /\ Goto(t, "note")
    BY DEF Record, Places
  <2> QED
    BY <1>1, <2>1, GotoAdvances DEF Inv
<1> QED
  BY <1>1, <1>2, <1>3, SilentKeepsCount DEF FilePending, Reporting

LEMMA NoteKeepsCount ==
    ASSUME Inv, CountInv, Types', NEW t \in Threads, Note(t)
    PROVE  CountInv'
<1>1. /\ stack[t] # <<>> /\ stack[t][1].at = "note" /\ stack[t][1] \in Frames
      /\ Top(t) = stack[t][1]
  BY OfTop DEF Note
<1>2. lines' = lines /\ drops' = drops /\ output' = output /\ abandoned' = abandoned
  BY DEF Note, history
<1>3. PICK f \in Frames :
         /\ Advances(t, f) /\ f.line = stack[t][1].line /\ f.code = stack[t][1].code
         /\ f.at = IF f.code = "message_truncated" THEN "file" ELSE "gethandler"
  <2> DEFINE at == IF stack[t][1].code = "message_truncated" THEN "file" ELSE "gethandler"
  <2>1. at \in Places /\ Goto(t, at)
    BY <1>1 DEF Note, Places
  <2> QED
    BY <1>1, <2>1, GotoAdvances DEF Inv
<1> QED
  BY <1>1, <1>2, <1>3, SilentKeepsCount DEF FilePending, Reporting

LEMMA TellingKeepsCount ==
    ASSUME Inv, CountInv, Types', NEW t \in Threads,
           GetHandler(t) \/ CallHandler(t) \/ HandlerReturns(t)
    PROVE  CountInv'
<1>1. /\ stack[t] # <<>> /\ stack[t][1].at \in {"gethandler", "copy", "handler"}
      /\ stack[t][1] \in Frames /\ StillToWrite(stack[t][1])
  BY OfTop DEF GetHandler, CallHandler, HandlerReturns
<1>2. lines' = lines /\ drops' = drops /\ output' = output /\ abandoned' = abandoned
  BY DEF GetHandler, CallHandler, HandlerReturns, errorVars, history
<1>3. \E at \in {"copy", "handler", "drop"} : Goto(t, at)
  BY DEF GetHandler, CallHandler, HandlerReturns
<1>4. PICK f \in Frames : /\ Advances(t, f) /\ f.line = stack[t][1].line
                          /\ f.at \in {"copy", "handler", "drop"} /\ f.code = stack[t][1].code
  <2>1. {"copy", "handler", "drop"} \subseteq Places
    BY DEF Places
  <2> QED
    BY <1>1, <1>3, <2>1, GotoAdvances DEF Inv
<1>5. f.code # "message_truncated"
  BY <1>1, <1>4 DEF StillToWrite
<1> QED
  BY <1>1, <1>2, <1>4, <1>5, SilentKeepsCount DEF FilePending, Reporting

LEMMA WriteKeepsCount ==
    ASSUME Inv, CountInv, Types', NEW t \in Threads, NEW sink \in {"file", "stdout"},
           Write(t, sink)
    PROVE  CountInv'
<1>0. PICK line : line = stack[t][1].line
  OBVIOUS
<1>1. /\ stack[t] # <<>> /\ stack[t][1].at = sink /\ Top(t) = stack[t][1]
      /\ StillToWrite(stack[t][1]) /\ line \in Logged /\ stack[t][1] \in Frames
  BY <1>0, OfTop DEF Write
<1>2. lines' = lines /\ drops' = drops /\ abandoned' = abandoned
  BY DEF Write, errorVars
<1>3. (sink = "file" <=> FilePending(stack[t][1])) /\ line \notin abandoned
  BY <1>0, <1>1 DEF FilePending, StillToWrite, Reporting
<1>4. /\ \A w \in output : w[2] \in Logged
      /\ abandoned' \subseteq Logged
  BY <1>2 DEF CountInv, Numbered
<1>5. ASSUME Fail(t, IF sink = "file" THEN "file_write" ELSE "stdout_write"), output' = output
      PROVE  CountInv'
  <2> DEFINE code == IF sink = "file" THEN "file_write" ELSE "stdout_write"
  <2>1. code \in Codes
    BY DEF Codes
  <2>2. PICK f \in Frames : /\ Advances(t, f) /\ f.line = line
                            /\ f.at = "record" /\ f.code = code
    BY <1>0, <1>1, <1>5, <2>1, FailAdvances DEF Inv
  <2>3. FilePending(f) <=> FilePending(stack[t][1])
    BY <1>3, <2>2 DEF FilePending
  <2> QED
    BY <1>0, <1>1, <1>2, <1>5, <2>2, <2>3, SilentKeepsCount DEF Reporting
<1>6. ASSUME output' = output \cup {<<sink, Top(t).line, Text(t)>>},
             IF sink = "file" THEN Goto(t, "stdout") ELSE Return(t)
      PROVE  CountInv'
  <2> DEFINE text == Text(t)
  <2>1. output' = output \cup {<<sink, line, text>>}
    BY <1>0, <1>1, <1>6
  <2> HIDE DEF text
  <2>2. /\ \A l, s : (l # line \/ s # sink) => (Written(s, l)' <=> Written(s, l))
        /\ Written(sink, line)'
    <3> DEFINE w == <<sink, line, text>>
    <3>1. w[1] = sink /\ w[2] = line
      OBVIOUS
    <3>2. output' = output \cup {w}
      BY <2>1
    <3> HIDE DEF w
    <3> QED
      BY <3>1, <3>2 DEF Written
  <2>3. OnlyOf(line)
    BY <1>2, <2>2 DEF OnlyOf
  <2>4. \A w \in output' : w[2] \in Logged
    BY <1>1, <1>4, <2>1
  <2>5. CASE sink = "file"
    <3>1. "stdout" \in Places
      BY DEF Places
    <3>2. PICK f \in Frames : /\ Advances(t, f) /\ f.line = line /\ f.at = "stdout"
      BY <1>0, <1>1, <1>6, <2>5, <3>1, GotoAdvances DEF Inv
    <3>3. ~FilePending(f)
      BY <3>2 DEF FilePending
    <3>4. StillToWrite(f)'
      BY <1>0, <1>1, <1>2, <1>3, <2>2, <2>5, <3>2, <3>3 DEF StillToWrite, Reporting
    <3> QED
      BY <1>0, <1>1, <1>2, <1>3, <1>4, <2>2, <2>3, <2>4, <2>5, <3>2, <3>4, AdvanceKeepsCount
  <2>6. CASE sink = "stdout"
    <3>1. Pops(t)
      BY <1>1, <1>6, <2>6, ReturnPops DEF Inv
    <3>2. Types /\ CallShape /\ Numbered /\ Underway /\ Counted
      BY DEF Inv, CountInv
    <3>3. Numbered'
      BY <1>1, <1>2, <1>4, <2>4, <3>1, <3>2, NumberedKept
    <3>4. Underway'
      BY <1>0, <1>1, <2>3, <3>1, <3>2, UnderwayPops
    <3>5. ASSUME NEW s \in {"file", "stdout"}, NEW l PROVE Misses(s, l)' <=> Misses(s, l)
      <4>1. /\ \A z, k : k # line => (Misses(z, k)' <=> Misses(z, k))
            /\ ~Misses("stdout", line)
            /\ Misses("stdout", line)' <=> (~Written("stdout", line)' /\ line \notin abandoned')
            /\ Misses("file", line)' <=> ~Written("file", line)'
            /\ Misses("file", line) <=> (~Written("file", line) /\ ~FilePending(stack[t][1]))
        BY <1>0, <1>1, <2>3, <3>1, <3>2, PopMisses
      <4> QED
        BY <1>3, <2>2, <2>6, <4>1
    <3>6. Logged' = Logged
      BY <1>2, LoggedSame
    <3>7. Counted'
      BY <1>2, <3>2, <3>5, <3>6, CountedSame
    <3> QED
      BY <3>3, <3>4, <3>7 DEF CountInv
  <2> QED
    BY <2>5, <2>6
<1> QED
  BY <1>5, <1>6 DEF Write

LEMMA CountDropKeepsCount ==
    ASSUME Inv, CountInv, Types', NEW t \in Threads, CountDrop(t)
    PROVE  CountInv'
<1>0. PICK line, code : line = stack[t][1].line /\ code = stack[t][1].code
  OBVIOUS
<1>1. /\ stack[t] # <<>> /\ stack[t][1].at = "drop" /\ Top(t) = stack[t][1]
      /\ StillToWrite(stack[t][1]) /\ line \in Logged /\ stack[t][1] \in Frames /\ code \in Codes
  BY <1>0, OfTop DEF CountDrop
<1>2. /\ lines' = lines /\ drops' = drops + 1 /\ output' = output /\ abandoned' = abandoned
      /\ IF code = "file_write" THEN Goto(t, "stdout") ELSE Return(t)
  BY <1>0, <1>1 DEF CountDrop, history, Loss
<1>3. /\ code \in {"file_write", "stdout_write", "out_of_memory"}
      /\ FilePending(stack[t][1]) <=> code # "stdout_write"
      /\ line \in abandoned <=> code = "out_of_memory"
      /\ code # "stdout_write" => ~Written("file", line)
      /\ ~Written("stdout", line)
  BY <1>0, <1>1 DEF StillToWrite, FilePending, Codes, Reporting
<1>4. \A sink, l : Written(sink, l)' <=> Written(sink, l)
  BY <1>2 DEF Written
<1>5. OnlyOf(line)
  BY <1>2, <1>4 DEF OnlyOf
<1>6. /\ Types /\ CallShape /\ Numbered /\ Underway /\ Counted
      /\ \A w \in output' : w[2] \in Logged
      /\ abandoned' \subseteq Logged
  BY <1>2 DEF Inv, CountInv, Numbered
<1>7. Logged' = Logged
  BY <1>2, LoggedSame
<1>8. CASE code = "file_write"
  <2>1. "stdout" \in Places
    BY DEF Places
  <2>2. PICK f \in Frames : Advances(t, f) /\ f.line = line /\ f.at = "stdout"
    BY <1>0, <1>1, <1>2, <1>8, <2>1, GotoAdvances DEF Inv
  <2>3. ~FilePending(f)
    BY <2>2 DEF FilePending
  <2>4. StillToWrite(f)'
    BY <1>2, <1>3, <1>4, <1>8, <2>2, <2>3 DEF StillToWrite, Reporting
  <2>5. Numbered' /\ Underway'
    BY <1>0, <1>1, <1>2, <1>5, <1>6, <2>2, <2>4, NumberedKept, UnderwayAdvances
  <2>6. /\ \A sink, l : l # line => (Misses(sink, l)' <=> Misses(sink, l))
        /\ ~Misses("stdout", line) /\ ~Misses("stdout", line)'
        /\ Misses("file", line)' <=> (~Written("file", line)' /\ ~FilePending(f))
        /\ Misses("file", line) <=> (~Written("file", line) /\ ~FilePending(stack[t][1]))
    BY <1>0, <1>1, <1>5, <1>6, <2>2, AdvanceMisses
  <2>7. ~Misses("file", line) /\ Misses("file", line)'
    BY <1>3, <1>4, <1>8, <2>3, <2>6
  <2>8. Counted'
    BY <1>0, <1>1, <1>2, <1>6, <1>7, <2>6, <2>7, CountedOneMore
  <2> QED
    BY <2>5, <2>8 DEF CountInv
<1>9. CASE code # "file_write"
  <2> DEFINE sink == IF code = "stdout_write" THEN "stdout" ELSE "file"
  <2>1. Pops(t)
    BY <1>0, <1>1, <1>2, <1>9, ReturnPops DEF Inv
  <2>2. Numbered' /\ Underway'
    BY <1>0, <1>1, <1>2, <1>5, <1>6, <2>1, NumberedKept, UnderwayPops
  <2>3. /\ \A s, l : l # line => (Misses(s, l)' <=> Misses(s, l))
        /\ ~Misses("stdout", line)
        /\ Misses("stdout", line)' <=> (~Written("stdout", line)' /\ line \notin abandoned')
        /\ Misses("file", line)' <=> ~Written("file", line)'
        /\ Misses("file", line) <=> (~Written("file", line) /\ ~FilePending(stack[t][1]))
    BY <1>0, <1>1, <1>5, <1>6, <2>1, PopMisses
  <2>4. ~Misses(sink, line) /\ Misses(sink, line)'
    BY <1>2, <1>3, <1>4, <1>9, <2>3
  <2>5. \A s \in {"file", "stdout"} : s # sink => (Misses(s, line)' <=> Misses(s, line))
    BY <1>2, <1>3, <1>4, <1>9, <2>3
  <2>6. sink \in {"file", "stdout"}
    OBVIOUS
  <2> HIDE DEF sink
  <2>7. Counted'
    BY <1>0, <1>1, <1>2, <1>6, <1>7, <2>3, <2>4, <2>5, <2>6, CountedOneMore
  <2> QED
    BY <2>2, <2>7 DEF CountInv
<1> QED
  BY <1>8, <1>9

\* A new call: its line is to be written.
LEMMA LogKeepsCount ==
    ASSUME Inv, CountInv, Types', NEW t \in Threads, Log(t)
    PROVE  CountInv'
<1>0. PICK new : new = <<t, lines[t] + 1>>
  OBVIOUS
<1>1. /\ drops' = drops /\ output' = output /\ abandoned' = abandoned
      /\ lines' = [lines EXCEPT ![t] = lines[t] + 1] /\ lines[t] < MaxLines[t]
      /\ \A u \in Threads : lines[u] \in Nat /\ MaxLines[u] \in Nat
  BY ConstantsAssumption DEF Log, errorVars, history, Inv, Types
<1>2. \A u \in Threads : lines'[u] = IF u = t THEN lines[t] + 1 ELSE lines[u]
  BY <1>1 DEF Inv, Types
<1>3. new \notin Logged /\ Logged' = Logged \cup {new}
  <2>1. new \notin Logged
    BY <1>0, <1>1 DEF Logged
  <2>2. new \in Lines
    <3>1. lines[t] + 1 \in 1 .. MaxLines[t]
      BY <1>1
    <3> QED
      BY <1>0, <3>1 DEF Lines
  <2>3. ASSUME NEW l \in Lines PROVE l \in Logged' <=> l \in Logged \cup {new}
    <3>1. PICK u \in Threads : \E k \in 1 .. MaxLines[u] : l = <<u, k>>
      BY <2>3 DEF Lines
    <3>2. PICK k \in 1 .. MaxLines[u] : l = <<u, k>>
      BY <3>1
    <3>3. (l \in Logged' <=> k <= lines'[u]) /\ (l \in Logged <=> k <= lines[u])
      BY <2>3, <3>2 DEF Logged
    <3>4. l = new <=> u = t /\ k = lines[t] + 1
      BY <1>0, <3>2
    <3> QED
      BY <1>1, <1>2, <3>3, <3>4
  <2> QED
    BY <2>1, <2>2, <2>3 DEF Logged
<1>4. \A sink, l : Written(sink, l)' <=> Written(sink, l)
  BY <1>1 DEF Written
<1>5. (\A sink : ~Written(sink, new)) /\ new \notin abandoned
  BY <1>3 DEF Written, CountInv, Numbered
\* What the stacks hold: the new call, and those of before, one of which has logged.
<1>6. /\ \A u \in Threads \ {t} : stack'[u] = stack[u]
      /\ Len(stack'[t]) = Len(stack[t]) + 1 /\ Len(stack[t]) \in {0, 1}
      /\ stack'[t][1].line = new /\ stack'[t][1].at = "format"
      /\ stack'[t][1].code = "file_write"
      /\ Len(stack[t]) = 1 => /\ stack'[t][2].line = stack[t][1].line
                              /\ stack'[t][2].at = stack[t][1].at
                              /\ stack'[t][2].code = stack[t][1].code
  <2>0. PICK size \in 0 .. MaxMsg :
           \/ /\ stack[t] = <<>> /\ Len(stack[t]) = 0
              /\ stack'[t] = <<Frame(<<t, lines[t] + 1>>, size)>>
           \/ /\ HandlerLogs /\ Len(stack[t]) = 1 /\ stack[t] # <<>>
              /\ stack[t][1].at = "handler" /\ stack[t][1] \in Frames
              /\ ~stack[t][1].logged
              /\ stack'[t] = <<Frame(<<t, lines[t] + 1>>, size),
                               [stack[t][1] EXCEPT !.logged = TRUE]>>
    BY LogPushes DEF Inv
  <2> DEFINE f == Frame(new, size)
             g == [stack[t][1] EXCEPT !.logged = TRUE]
  <2>1. f.line = new /\ f.at = "format" /\ f.code = "file_write"
    BY DEF Frame
  <2>2. /\ \A u \in Threads \ {t} : stack'[u] = stack[u]
        /\ \/ Len(stack[t]) = 0 /\ stack'[t] = <<f>>
           \/ /\ Len(stack[t]) = 1 /\ stack[t][1] \in Frames
              /\ stack'[t] = <<f, g>>
    BY <1>0, <2>0, LogPushes DEF Inv
  <2>3. CASE Len(stack[t]) = 0 /\ stack'[t] = <<f>>
    <3> HIDE DEF f
    <3> QED
      BY <2>1, <2>2, <2>3
  <2>4. CASE Len(stack[t]) = 1 /\ stack[t][1] \in Frames /\ stack'[t] = <<f, g>>
    <3>1. g.line = stack[t][1].line /\ g.at = stack[t][1].at /\ g.code = stack[t][1].code
      BY <2>4 DEF Frames
    <3> HIDE DEF f, g
    <3> QED
      BY <2>1, <2>2, <2>4, <3>1
  <2> QED
    BY <2>2, <2>3, <2>4
<1>7. ASSUME NEW u \in Threads, NEW i \in 1 .. Len(stack'[u]), ~(u = t /\ i = 1)
      PROVE  \E j \in 1 .. Len(stack[u]) : /\ stack'[u][i].line = stack[u][j].line
                                           /\ stack'[u][i].at = stack[u][j].at
                                           /\ stack'[u][i].code = stack[u][j].code
  <2>1. CASE u # t
    BY <1>6, <1>7, <2>1
  <2>2. CASE u = t
    <3>1. Len(stack'[t]) = Len(stack[t]) + 1 /\ Len(stack[t]) \in {0, 1}
      BY <1>6
    <3>2. i \in 1 .. Len(stack'[t]) /\ i # 1
      BY <1>7, <2>2
    <3>3. i = 2 /\ Len(stack[t]) = 1 /\ 1 \in 1 .. Len(stack[t])
      <4>1. PICK a, b : a = Len(stack[t]) /\ b = Len(stack'[t])
        OBVIOUS
      <4>2. a \in {0, 1} /\ b = a + 1
        BY <3>1, <4>1
      <4>3. i \in 1 .. b /\ i # 1
        BY <3>2, <4>1
      <4>4. i = 2 /\ a = 1
        BY <4>2, <4>3
      <4> QED
        BY <4>1, <4>4
    <3>4. /\ stack'[t][2].line = stack[t][1].line
          /\ stack'[t][2].at = stack[t][1].at
          /\ stack'[t][2].code = stack[t][1].code
      BY <1>6, <3>3
    <3> QED
      BY <2>2, <3>3, <3>4
  <2> QED
    BY <2>1, <2>2
<1>8. ASSUME NEW u \in Threads, NEW j \in 1 .. Len(stack[u])
      PROVE  \E i \in 1 .. Len(stack'[u]) : /\ stack'[u][i].line = stack[u][j].line
                                            /\ stack'[u][i].at = stack[u][j].at
                                            /\ stack'[u][i].code = stack[u][j].code
  BY <1>6, <1>8
<1>9. 1 \in 1 .. Len(stack'[t])
  BY <1>6
<1>10. /\ \A sink : Pending(sink, new)'
       /\ \A sink, l : l # new => (Pending(sink, l)' <=> Pending(sink, l))
  <2>1. \A sink : Pending(sink, new)'
    BY <1>6, <1>9 DEF Pending, FilePending
  <2>2. ASSUME NEW sink, NEW l, l # new, Pending(sink, l)' PROVE Pending(sink, l)
    <3>1. PICK u \in Threads : \E i \in 1 .. Len(stack'[u]) :
             /\ stack'[u][i].line = l
             /\ sink = "stdout" \/ FilePending(stack[u][i])'
      BY <2>2 DEF Pending, FilePending
    <3>2. PICK i \in 1 .. Len(stack'[u]) :
             /\ stack'[u][i].line = l
             /\ sink = "stdout" \/ FilePending(stack[u][i])'
      BY <3>1
    <3>3. ~(u = t /\ i = 1)
      BY <1>6, <2>2, <3>2
    <3>4. PICK j \in 1 .. Len(stack[u]) : /\ stack'[u][i].line = stack[u][j].line
                                          /\ stack'[u][i].at = stack[u][j].at
                                          /\ stack'[u][i].code = stack[u][j].code
      BY <1>7, <3>3
    <3> QED
      BY <3>2, <3>4 DEF Pending, FilePending
  <2>3. ASSUME NEW sink, NEW l, Pending(sink, l) PROVE Pending(sink, l)'
    BY <1>8, <2>3 DEF Pending, FilePending
  <2> QED
    BY <2>1, <2>2, <2>3
<1>11. Numbered'
  <2>1. \A u \in Threads : lines'[u] <= MaxLines[u]
    BY <1>1, <1>2 DEF CountInv, Numbered
  <2>2. ASSUME NEW u \in Threads, NEW i \in 1 .. Len(stack'[u]) PROVE stack'[u][i].line[2] >= 1
    <3>1. new[2] >= 1
      BY <1>0, <1>1
    <3> QED
      BY <1>6, <1>7, <2>2, <3>1 DEF CountInv, Numbered
  <2>3. (\A w \in output' : w[2] \in Logged') /\ abandoned' \subseteq Logged'
    BY <1>1, <1>3 DEF CountInv, Numbered
  <2> QED
    BY <2>1, <2>2, <2>3 DEF Numbered
<1>12. Underway'
  <2>1. ASSUME NEW u \in Threads, NEW i \in 1 .. Len(stack'[u]), NEW h, h = stack'[u][i]
        PROVE  StillToWrite(h)'
    <3>1. CASE u = t /\ i = 1
      BY <1>1, <1>4, <1>5, <1>6, <2>1, <3>1 DEF StillToWrite, Reporting
    <3>2. CASE ~(u = t /\ i = 1)
      <4>1. PICK j \in 1 .. Len(stack[u]) : /\ h.line = stack[u][j].line
                                            /\ h.at = stack[u][j].at
                                            /\ h.code = stack[u][j].code
        BY <1>7, <2>1, <3>2
      <4>2. StillToWrite(stack[u][j])
        BY DEF CountInv, Underway
      <4> QED
        BY <1>1, <1>4, <4>1, <4>2 DEF StillToWrite, FilePending
    <3> QED
      BY <3>1, <3>2
  <2> QED
    BY <2>1 DEF Underway, StillToWrite, Written, FilePending
<1>13. Counted'
  <2>1. \A sink, l : l # new => (Misses(sink, l)' <=> Misses(sink, l))
    BY <1>1, <1>4, <1>10 DEF Misses
  <2>2. \A sink : ~Misses(sink, new)'
    BY <1>10 DEF Misses
  <2>3. \A sink \in {"file", "stdout"} : \A l :
           (l \in Logged' /\ Misses(sink, l)') <=> (l \in Logged /\ Misses(sink, l))
    BY <1>3, <2>1, <2>2
  <2>4. Counted
    BY DEF CountInv
  <2> QED
    BY <1>1, <2>3, <2>4, CountedSame
<1> QED
  BY <1>11, <1>12, <1>13 DEF CountInv

LEMMA OthersKeepCount ==
    ASSUME CountInv,
           (\E t \in Threads : ClearError(t) \/ SetErrorHandler(t)) \/ UNCHANGED vars
    PROVE  CountInv'
<1>1. /\ lines' = lines /\ stack' = stack /\ drops' = drops /\ output' = output
      /\ abandoned' = abandoned
  BY DEF ClearError, SetErrorHandler, vars, callVars, errorVars, handlerVars, history
<1>2. Logged' = Logged /\ Missed' = Missed
  BY <1>1 DEF Logged, Missed, Misses, Written, Pending, FilePending
<1>3. Numbered' /\ Counted'
  BY <1>1, <1>2 DEF CountInv, Numbered, Counted
<1>4. Underway'
  BY <1>1 DEF CountInv, Underway, StillToWrite, FilePending, Written, Reporting
<1> QED
  BY <1>3, <1>4 DEF CountInv

LEMMA CountInit == Init => CountInv
<1> SUFFICES ASSUME Init PROVE CountInv
  OBVIOUS
<1>1. Logged = {}
  <2>1. ASSUME NEW l \in Lines PROVE ~(l[2] <= lines[l[1]])
    <3>1. PICK u \in Threads : \E k \in 1 .. MaxLines[u] : l = <<u, k>>
      BY <2>1 DEF Lines
    <3>2. PICK k \in 1 .. MaxLines[u] : l = <<u, k>>
      BY <3>1
    <3>3. lines[u] = 0 /\ MaxLines[u] \in Nat
      BY ConstantsAssumption DEF Init
    <3> QED
      BY <3>2, <3>3
  <2> QED
    BY <2>1 DEF Logged
<1>2. Missed = {}
  BY <1>1 DEF Missed
<1>3. Counted
  BY <1>2, FS_EmptySet DEF Init, Counted
<1>4. Numbered /\ Underway
  BY ConstantsAssumption DEF Init, Numbered, Underway
<1> QED
  BY <1>3, <1>4 DEF CountInv

LEMMA CountHolds == Spec => []CountInv
<1>1. Inv /\ Inv' /\ CountInv /\ [Next]_vars => CountInv'
  <2> SUFFICES ASSUME Inv, Inv', CountInv, [Next]_vars PROVE CountInv'
    OBVIOUS
  <2>1. Types'
    BY DEF Inv
  <2>2. ASSUME NEW t \in Threads, Step(t) PROVE CountInv'
    BY <2>1, <2>2, FormatKeepsCount, RunOutKeepsCount, WriteKeepsCount, RecordKeepsCount,
       NoteKeepsCount, TellingKeepsCount, CountDropKeepsCount
    DEF Step
  <2> QED
    BY <2>1, <2>2, LogKeepsCount, OthersKeepCount DEF Next
<1> QED
  BY <1>1, InvHolds, CountInit, PTL DEF Spec

\* Once no call is under way, the drops are the outputs that were not written, one for
\* each, whichever of the failures each call met in whatever order: a file that fails
\* and stdout that then works, both failing, or an allocation that ends the call early
\* and is counted once for both.
THEOREM LossesCounted == Spec => []LinesAreWrittenOrCounted
<1>1. CountInv => LinesAreWrittenOrCounted
  <2> SUFFICES ASSUME CountInv, Quiet PROVE LinesAreWrittenOrCounted
    BY DEF LinesAreWrittenOrCounted
  <2> DEFINE outputs == {"file", "stdout"} \X Logged
             written == {<<o[1], o[2]>> : o \in output}
             lost    == {o \in outputs \ written : o[1] = "file" \/ o[2] \notin abandoned}
  <2>1. \A s, l : ~Pending(s, l)
    BY DEF Quiet, Pending
  <2>2. ASSUME NEW s, NEW l PROVE <<s, l>> \in written <=> Written(s, l)
    <3>1. \A a, b : <<a, b>> = <<s, l>> => a = s /\ b = l
      OBVIOUS
    <3> QED
      BY <3>1 DEF Written
  <2> HIDE DEF written
  <2>3. Missed = lost
    <3>1. ASSUME NEW o \in outputs PROVE o \in Missed <=> o \in lost
      <4>1. PICK s \in {"file", "stdout"}, l \in Logged : o = <<s, l>>
        BY <3>1
      <4>2. o[1] = s /\ o[2] = l
        BY <4>1
      <4>3. o \in Missed <=> ~Written(s, l) /\ (s = "file" \/ l \notin abandoned)
        BY <2>1, <3>1, <4>2 DEF Missed, Misses
      <4>4. o \in lost <=> ~Written(s, l) /\ (s = "file" \/ l \notin abandoned)
        BY <2>2, <3>1, <4>1, <4>2
      <4> QED
        BY <4>3, <4>4
    <3> QED
      BY <3>1 DEF Missed
  <2>4. drops = Cardinality(lost)
    BY <2>3 DEF CountInv, Counted
  <2> QED
    BY <2>4 DEF LinesAreWrittenOrCounted, Logged, written
<1> QED
  BY <1>1, CountHolds, PTL

=============================================================================
