--------------------------- MODULE MCErrorReport ---------------------------
(* ErrorReport with two threads.  One logs two lines, of which a handler   *)
(* may log the second, while the other logs one.  Messages are as long as  *)
(* the buffer or shorter, also than the one they may overwrite.            *)
EXTENDS ErrorReport

CONSTANTS t1, t2

MCThreads   == {t1, t2}
MCTwoAndOne == [t \in MCThreads |-> IF t = t1 THEN 2 ELSE 1]
MCSizes     == [l \in Lines |-> IF l = <<t1, 1>> THEN {1, 4} ELSE IF l = <<t1, 2>> THEN {2} ELSE {4}]
MCOneSize   == [l \in Lines |-> {1}]
MCOneEach   == [t \in MCThreads |-> 1]
=============================================================================
