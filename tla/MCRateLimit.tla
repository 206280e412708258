---------------------------- MODULE MCRateLimit -----------------------------
EXTENDS RateLimit, TLC

\* Threads are alike.
Alike == Permutations(Threads)
=============================================================================
