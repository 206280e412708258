----------------------------- MODULE MCLogFiles -----------------------------
(* LogFiles on small sets of threads and modules, which are model values.  *)
EXTENDS LogFiles
=============================================================================
