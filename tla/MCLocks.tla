------------------------------ MODULE MCLocks ------------------------------
(* Locks with two threads of three calls and of one, and one fork.                 *)
EXTENDS Locks

CONSTANTS t1, t2

MCThreads  == {t1, t2}
MCMaxCalls == [t \in MCThreads |-> IF t = t1 THEN 3 ELSE 1]
=============================================================================
