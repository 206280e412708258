---------------------------- MODULE RunRotation ----------------------------
(***************************************************************************)
(* What the run directory promises: latest is a slot for one run, a run    *)
(* leaves it for the archive and never comes back, and only an archived    *)
(* run that nobody holds open under its lock is deleted.                   *)
(***************************************************************************)
CONSTANTS Runs, NoRun

VARIABLES
    slot,     \* the run whose files lie under latest
    archive,  \* runs that were moved out
    deleted,  \* runs that retention deleted
    held      \* runs whose files are open under the run's lock

vars == <<slot, archive, deleted, held>>

TypeOK ==
    /\ slot \in Runs \cup {NoRun}
    /\ archive \subseteq Runs
    /\ deleted \subseteq Runs
    /\ held \subseteq Runs

Init ==
    /\ slot = NoRun
    /\ archive = {}
    /\ deleted = {}
    /\ held = {}

\* A run takes the free slot; its lock may have been refused.
Publish(r) ==
    /\ slot = NoRun
    /\ r \notin archive \cup deleted
    /\ slot' = r
    /\ \/ held' = held
       \/ held' = held \cup {r}
    /\ UNCHANGED <<archive, deleted>>

\* The tag directory of a run exists before the run holds it.
Hold(r) ==
    /\ slot = r
    /\ held' = held \cup {r}
    /\ UNCHANGED <<slot, archive, deleted>>

Archive(r) ==
    /\ slot = r
    /\ slot' = NoRun
    /\ archive' = archive \cup {r}
    /\ UNCHANGED <<deleted, held>>

Release(r) ==
    /\ r \in held
    /\ held' = held \ {r}
    /\ UNCHANGED <<slot, archive, deleted>>

Delete(r) ==
    /\ r \in archive \ held
    /\ archive' = archive \ {r}
    /\ deleted' = deleted \cup {r}
    /\ UNCHANGED <<slot, held>>

Next ==
    \E r \in Runs : Publish(r) \/ Hold(r) \/ Archive(r) \/ Release(r) \/ Delete(r)

Spec == Init /\ [][Next]_vars
=============================================================================
