--------------------------- MODULE RotationProofs ---------------------------
(***************************************************************************)
(* RunDir implements RunRotation, for any set of processes, any limits of  *)
(* retention, failing system calls other than those of move_out, deaths    *)
(* and forks.                                                              *)
(***************************************************************************)
EXTENDS RunDirProofs

USE DEF Goto, fileVars, lockSet, moveVars, CloseFiles

\* What a run of this configuration makes in latest.
KindOf(m) == IF m = "tagged" THEN TagDir ELSE Shared

\* An entry exists only when its process is past move_out, stays in latest until the
\* process lets .slog.lock go, and is of the one kind its run makes.
RunsAreFresh ==
    \A e \in Entries : at[e] # "none" =>
        /\ pc[e[1]] \notin EarlySteps \cup {"list", "move", "rename", "place"}
        /\ pc[e[1]] \in {"opendir", "first"} => at[e] = "latest"
        /\ e[2] = KindOf(mode[e[1]])

\* A process has open what exists, of its own run, or a child of its parent's.
FilesAreOwn ==
    \A p \in Procs : \A e \in fds[p] :
        /\ at[e] # "none"
        /\ pc[p] # "child" => e[1] = p
        /\ \A f \in fds[p] : e[1] = f[1]

RotationInv == RunsAreFresh /\ FilesAreOwn

\* The configuration of the theorem: what it excludes breaks the rotation.
Orderly ==
    /\ ~Interrupts
    /\ {"rename", "listlatest"} \cap Faults = {}
    /\ "module" \notin Modes
    /\ ~CustomName

\* Everything the other module proves of such a configuration.
DirInv == TypeOK /\ SweepInv /\ ReplaceInv /\ LatestInv

LEMMA TwoModes ==
    ASSUME Orderly, TypeOK, NEW p \in Procs
    PROVE  mode[p] \in {"single", "tagged"}
  BY ConstantsAssumption
     DEF Orderly, TypeOK, TypeProcess, ConstantsAssumption, AllModes

LEMMA NoneIsLate ==
    ASSUME RunsAreFresh, NEW e \in Entries, at[e] # "none"
    PROVE  ~Late(e)
  BY ConstantsAssumption DEF RunsAreFresh, KindOf, Late, LateKinds, ConstantsAssumption

LEMMA NoneIsLatePrime ==
    ASSUME RunsAreFresh', NEW e \in Entries, at'[e] # "none"
    PROVE  ~Late(e)
  BY ConstantsAssumption DEF RunsAreFresh, KindOf, Late, LateKinds, ConstantsAssumption

LEMMA RunsAreFreshStep ==
    ASSUME Orderly, DirInv, RunsAreFresh, [Next]_vars
    PROVE  RunsAreFresh'
<1> USE DEF RunsAreFresh, DirInv, TypeOK, TypeProcess, TypeFiles, EarlySteps, StartSteps,
        Entries, dirVars
<1>0. CASE UNCHANGED vars
  BY <1>0 DEF vars
<1>1. CASE Tick
  BY <1>1 DEF Tick
<1> SUFFICES ASSUME NEW p \in Procs, Start(p) \/ OpenRun(p) \/ AfterOpen(p) \/ Crash(p)
             PROVE RunsAreFresh'
  BY <1>0, <1>1 DEF Next
<1>2. CASE Start(p)
  BY <1>2 DEF Start
<1>3. CASE MakeDirs(p)
  BY <1>3 DEF MakeDirs
<1>4. CASE OpenRunLock(p)
  BY <1>4 DEF OpenRunLock
<1>5. CASE FlockRunLock(p)
  BY <1>5 DEF FlockRunLock
<1>6. CASE LockStruct(p)
  BY <1>6 DEF LockStruct
<1>7. CASE ListLatest(p)
  BY <1>7 DEF ListLatest
<1>8. CASE PickDest(p)
  BY <1>8 DEF PickDest
<1>9. CASE Rename(p)
  <2>1. \A q \in Procs : pc[q] \notin {"opendir", "first"}
    BY <1>9 DEF Rename, SweepInv, CriticalHoldsLock, CriticalSteps
  <2>2. \A e \in Entries : at'[e] # "none" => at[e] # "none"
    BY <1>9 DEF Rename, InLatestAs, Under
  <2>3. pc[p] = "rename" /\ pc' = [pc EXCEPT ![p] = "move"] /\ mode' = mode
    BY <1>9 DEF Rename
  <2> QED
    BY <2>1, <2>2, <2>3
<1>10. CASE MoveDone(p)
  BY <1>10 DEF MoveDone
<1>11. CASE MakeRunDir(p)
  BY <1>11 DEF MakeRunDir, GiveUp, KindOf
<1>12. CASE OpenRunDir(p)
  BY <1>12 DEF OpenRunDir, GiveUp
<1>13. CASE FirstFile(p)
  BY <1>13 DEF FirstFile, OpenInLatest, KindOf
<1>14. CASE ListLocks(p)
  BY <1>14 DEF ListLocks
<1>15. CASE ProbeBusy(p)
  BY <1>15 DEF ProbeBusy
<1>16. CASE ProbeFree(p)
  BY <1>16 DEF ProbeFree
<1>17. CASE ProbeRelease(p)
  BY <1>17 DEF ProbeRelease
<1>18. CASE ScanDone(p)
  BY <1>18 DEF ScanDone
<1>19. CASE SelectVictims(p)
  BY <1>19 DEF SelectVictims
<1>20. CASE NextVictim(p)
  BY <1>20 DEF NextVictim
<1>21. CASE ReapFile(p)
  <2>1. \A q \in Procs : pc[q] \notin {"opendir", "first"}
    BY <1>21 DEF ReapFile, SweepInv, CriticalHoldsLock, CriticalSteps
  <2> QED
    BY <1>21, <2>1 DEF ReapFile
<1>22. CASE UnlinkLock(p)
  BY <1>22 DEF UnlinkLock
<1>23. CASE ReapDone(p)
  BY <1>23 DEF ReapDone
<1>24. CASE UnlockStruct(p)
  BY <1>24 DEF UnlockStruct
<1>25. CASE Shutdown(p)
  BY <1>25 DEF Shutdown
<1>26. CASE Crash(p)
  BY <1>26 DEF Crash
<1>27. CASE Restart(p)
  BY <1>27 DEF Restart
<1>28. ASSUME NEW m \in Modules, OpenModule(p, m) PROVE RunsAreFresh'
  BY <1>28, TwoModes DEF OpenModule
<1>29. ASSUME NEW c \in Procs, Fork(p, c) PROVE RunsAreFresh'
  BY <1>29 DEF Fork
<1> QED
  BY <1>2, <1>3, <1>4, <1>5, <1>6, <1>7, <1>8, <1>9, <1>10, <1>11, <1>12, <1>13,
     <1>14, <1>15, <1>16, <1>17, <1>18, <1>19, <1>20, <1>21, <1>22, <1>23, <1>24,
     <1>25, <1>26, <1>27, <1>28, <1>29 DEF OpenRun, AfterOpen

\* No entry that exists is forgotten.
LEMMA NothingVanishes ==
    ASSUME TypeOK, [Next]_vars
    PROVE  \A e \in Entries : at[e] # "none" => at'[e] # "none"
<1> DEFINE Kept == \A e \in Entries : at[e] # "none" => at'[e] # "none"
<1> USE DEF TypeOK, TypeFiles, dirVars
<1>1. CASE UNCHANGED vars
  BY <1>1 DEF vars
<1>2. CASE Tick
  BY <1>2 DEF Tick
<1> SUFFICES ASSUME NEW p \in Procs, Start(p) \/ OpenRun(p) \/ AfterOpen(p) \/ Crash(p)
             PROVE Kept
  BY <1>1, <1>2 DEF Next
<1>3. CASE Rename(p)
  BY <1>3 DEF Rename
<1>4. CASE MakeRunDir(p)
  BY <1>4 DEF MakeRunDir
<1>5. CASE FirstFile(p)
  BY <1>5 DEF FirstFile, OpenInLatest
<1>6. CASE ReapFile(p)
  BY <1>6 DEF ReapFile
<1>7. ASSUME NEW m \in Modules, OpenModule(p, m) PROVE Kept
  BY <1>7 DEF OpenModule, OpenInLatest
<1>8. CASE \/ Start(p) \/ MakeDirs(p) \/ OpenRunLock(p) \/ FlockRunLock(p)
           \/ LockStruct(p) \/ ListLatest(p) \/ PickDest(p) \/ MoveDone(p)
           \/ OpenRunDir(p) \/ ListLocks(p) \/ ProbeBusy(p) \/ ProbeFree(p)
           \/ ProbeRelease(p) \/ ScanDone(p)
  BY <1>8 DEF Start, MakeDirs, OpenRunLock, FlockRunLock, LockStruct, ListLatest,
     PickDest, MoveDone, OpenRunDir, ListLocks, ProbeBusy, ProbeFree, ProbeRelease,
     ScanDone
<1>9. CASE \/ SelectVictims(p) \/ NextVictim(p) \/ UnlinkLock(p) \/ ReapDone(p)
           \/ UnlockStruct(p) \/ Shutdown(p) \/ (\E c \in Procs : Fork(p, c))
           \/ Restart(p) \/ Crash(p)
  BY <1>9 DEF SelectVictims, NextVictim, UnlinkLock, ReapDone, UnlockStruct, Shutdown,
     Fork, Restart, Crash
<1> QED
  BY <1>3, <1>4, <1>5, <1>6, <1>7, <1>8, <1>9 DEF OpenRun, AfterOpen

LEMMA FilesAreOwnStep ==
    ASSUME Orderly, DirInv, RunsAreFresh, FilesAreOwn, [Next]_vars
    PROVE  FilesAreOwn'
<1> USE NothingVanishes DEF FilesAreOwn, DirInv, TypeOK, TypeProcess, TypeFiles
<1>0. CASE UNCHANGED vars
  BY <1>0 DEF vars, dirVars
<1>1. CASE Tick
  BY <1>1 DEF Tick, dirVars
<1> SUFFICES ASSUME NEW p \in Procs, Start(p) \/ OpenRun(p) \/ AfterOpen(p) \/ Crash(p)
             PROVE FilesAreOwn'
  BY <1>0, <1>1 DEF Next
<1>2. CASE Start(p)
  BY <1>2 DEF Start
<1>3. CASE MakeDirs(p)
  BY <1>3 DEF MakeDirs
<1>4. CASE OpenRunLock(p)
  BY <1>4 DEF OpenRunLock
<1>5. CASE FlockRunLock(p)
  BY <1>5 DEF FlockRunLock
<1>6. CASE LockStruct(p)
  BY <1>6 DEF LockStruct
<1>7. CASE ListLatest(p)
  BY <1>7 DEF ListLatest
<1>8. CASE PickDest(p)
  BY <1>8 DEF PickDest
<1>9. CASE Rename(p)
  BY <1>9 DEF Rename
<1>10. CASE MoveDone(p)
  BY <1>10 DEF MoveDone
<1>11. CASE MakeRunDir(p)
  BY <1>11 DEF MakeRunDir, GiveUp
<1>12. CASE OpenRunDir(p)
  <2>1. \A e \in InLatestAs(<<p, TagDir>>) : e \in Entries /\ e[1] = p /\ at[e] # "none"
    BY <1>12, NoneIsLate DEF OpenRunDir, InLatestAs, Under, LatestInv, LatestIsEmptied
  <2> QED
    BY <1>12, <2>1 DEF OpenRunDir, GiveUp
<1>13. CASE FirstFile(p)
  <2>1. \A e \in InLatestAs(<<p, Shared>>) : e \in Entries /\ e[1] = p /\ at[e] # "none"
    BY <1>13, NoneIsLate DEF FirstFile, InLatestAs, Under, LatestInv, LatestIsEmptied
  <2>2. <<p, Shared>> \in Entries
    BY DEF Entries, Kinds
  <2>3. pc[p] = "first" /\ pc' = [pc EXCEPT ![p] = "retention"]
    BY <1>13 DEF FirstFile
  <2>4. CASE at' = at /\ fds' = fds
    BY <2>3, <2>4
  <2>5. CASE OpenInLatest(p, Shared)
    <3> DEFINE new == IF InLatestAs(<<p, Shared>>) = {} THEN {<<p, Shared>>}
                      ELSE InLatestAs(<<p, Shared>>)
    <3>1. fds' = [fds EXCEPT ![p] = @ \cup new]
      BY <2>5 DEF OpenInLatest
    <3>2. \A e \in new : e[1] = p /\ at'[e] # "none"
      BY <2>1, <2>2, <2>5 DEF OpenInLatest
    <3> HIDE DEF new
    <3> QED
      BY <2>3, <3>1, <3>2
  <2> QED
    BY <1>13, <2>4, <2>5 DEF FirstFile
<1>14. CASE ListLocks(p)
  BY <1>14 DEF ListLocks
<1>15. CASE ProbeBusy(p)
  BY <1>15 DEF ProbeBusy
<1>16. CASE ProbeFree(p)
  BY <1>16 DEF ProbeFree
<1>17. CASE ProbeRelease(p)
  BY <1>17 DEF ProbeRelease
<1>18. CASE ScanDone(p)
  BY <1>18 DEF ScanDone
<1>19. CASE SelectVictims(p)
  BY <1>19 DEF SelectVictims
<1>20. CASE NextVictim(p)
  BY <1>20 DEF NextVictim
<1>21. CASE ReapFile(p)
  BY <1>21 DEF ReapFile
<1>22. CASE UnlinkLock(p)
  BY <1>22 DEF UnlinkLock
<1>23. CASE ReapDone(p)
  BY <1>23 DEF ReapDone
<1>24. CASE UnlockStruct(p)
  BY <1>24 DEF UnlockStruct
<1>25. CASE Shutdown(p)
  BY <1>25 DEF Shutdown
<1>26. CASE Crash(p)
  BY <1>26 DEF Crash
<1>27. CASE Restart(p)
  BY <1>27 DEF Restart
<1>28. ASSUME NEW m \in Modules, OpenModule(p, m) PROVE FilesAreOwn'
  BY <1>28, TwoModes DEF OpenModule
<1>29. ASSUME NEW c \in Procs, Fork(p, c) PROVE FilesAreOwn'
  BY <1>29 DEF Fork
<1> QED
  BY <1>2, <1>3, <1>4, <1>5, <1>6, <1>7, <1>8, <1>9, <1>10, <1>11, <1>12, <1>13,
     <1>14, <1>15, <1>16, <1>17, <1>18, <1>19, <1>20, <1>21, <1>22, <1>23, <1>24,
     <1>25, <1>26, <1>27, <1>28, <1>29 DEF OpenRun, AfterOpen

LEMMA RotationInvCorrect ==
    ASSUME Orderly
    PROVE  Spec => [](DirInv /\ RotationInv)
<1>1. Init => DirInv /\ RotationInv
  BY TypeInit, SweepInvInit
     DEF Init, DirInv, RotationInv, RunsAreFresh, FilesAreOwn, ReplaceInv, NothingReplaced,
         DestIsFree, LatestInv, LatestIsEmptied, OneRunInLatest, Under
<1>2. DirInv /\ [Next]_vars => DirInv'
  BY TypeStep, SweepInvStep, ReplaceInvStep, LatestInvStep DEF Orderly, DirInv, SweepInv
<1>3. DirInv /\ RotationInv /\ [Next]_vars => RotationInv'
  BY RunsAreFreshStep, FilesAreOwnStep DEF RotationInv
<1> QED
  BY <1>1, <1>2, <1>3, PTL DEF Spec

----------------------------------------------------------------------------
(* The steps.                                                              *)

LEMMA OnlyRunOfNone == OnlyRun({}) = NoProc
  BY DEF OnlyRun

LEMMA OnlyRunOfOne == \A r \in Procs : OnlyRun({r}) = r
  BY DEF OnlyRun

\* The slot is free or taken, before a step and after it.
LEMMA SlotFree ==
    /\ Under("latest") = {} => Slot = NoProc
    /\ Under("latest")' = {} => Slot' = NoProc
  BY OnlyRunOfNone DEF Slot, RunsAt

LEMMA SlotTaken ==
    ASSUME NEW r \in Procs
    PROVE  /\ RunsAt("latest") = {r} => Slot = r
           /\ RunsAt("latest")' = {r} => Slot' = r
  BY OnlyRunOfOne DEF Slot

\* A run has one entry, and latest has one at most.
LEMMA OneEntry ==
    ASSUME RunsAreFresh, NEW e \in Entries, NEW f \in Entries,
           at[e] # "none", at[f] # "none", e[1] = f[1]
    PROVE  e = f
  BY DEF RunsAreFresh, Entries

\* The rotation sees where entries are and who holds which run.
Simulated == [Rotation!Next]_(Rotation!vars)

LEMMA UnseenStep ==
    ASSUME at' = at, Held' = Held
    PROVE  Simulated
  BY DEF Simulated, Rotation!vars, Slot, RunsAt, Under, OnlyRun

LEMMA QuietStepIsUnseen ==
    ASSUME at' = at, fds' = fds, lockOk' = lockOk
    PROVE  Simulated
  BY UnseenStep DEF Held

\* Only the run of the process, or for a child that of its parent, may be let go.
LEMMA ClosingReleases ==
    ASSUME DirInv, RotationInv, NEW p \in Procs,
           at' = at, lockOk' = lockOk, fds' = [fds EXCEPT ![p] = {}]
    PROVE  Simulated
<1> USE DEF DirInv, TypeOK, TypeFiles
<1>1. CASE Held' = Held
  BY <1>1, UnseenStep
<1>2. CASE Held' # Held
  <2>1. Held' \subseteq Held
    BY DEF Held
  <2>2. PICK r \in Held : r \notin Held'
    BY <1>2, <2>1
  <2>3. r \in Procs /\ lockOk[r]
    BY <2>2 DEF Held
  <2>4. PICK e \in fds[p] : e[1] = r
    BY <2>2, <2>3 DEF Held
  <2>5. \A f \in fds[p] : f[1] = r
    BY <2>4 DEF RotationInv, FilesAreOwn
  <2>6. Held' = Held \ {r}
    BY <2>1, <2>2, <2>5 DEF Held
  <2>7. Rotation!Release(r)
    BY <2>2, <2>6 DEF Rotation!Release, Slot, RunsAt, Under, OnlyRun
  <2> QED
    BY <2>3, <2>7 DEF Simulated, Rotation!Next
<1> QED
  BY <1>1, <1>2

LEMMA FlockIsUnseen ==
    ASSUME DirInv, RotationInv, NEW p \in Procs, FlockRunLock(p)
    PROVE  Simulated
<1> USE DEF DirInv, TypeOK, TypeFiles, TypeLocks, dirVars, flockVars
<1>1. \A q \in Procs : \A e \in fds[q] : e[1] # p
  BY DEF FlockRunLock, RotationInv, FilesAreOwn, RunsAreFresh, EarlySteps, StartSteps
<1>2. \A r \in Procs \ {p} : lockOk'[r] = lockOk[r]
  BY DEF FlockRunLock
<1>3. fds' = fds /\ at' = at
  BY DEF FlockRunLock
<1>4. Held' = Held
  BY <1>1, <1>2, <1>3 DEF Held
<1> QED
  BY <1>3, <1>4, UnseenStep

LEMMA ForkIsUnseen ==
    ASSUME DirInv, RotationInv, NEW p \in Procs, NEW c \in Procs, Fork(p, c)
    PROVE  Simulated
<1> USE DEF DirInv, TypeOK, TypeFiles, TypeLocks, dirVars, flockVars
<1>1. fds[c] = {}
  BY DEF Fork, RotationInv, FilesAreOwn, RunsAreFresh, EarlySteps
<1>2. fds' = [fds EXCEPT ![c] = fds[p]] /\ at' = at /\ lockOk' = lockOk
  BY DEF Fork
<1>3. Held' = Held
  BY <1>1, <1>2 DEF Held
<1> QED
  BY <1>2, <1>3, UnseenStep

\* A rename that moves something empties the slot.
LEMMA RenameArchives ==
    ASSUME Orderly, DirInv, RotationInv, NEW p \in Procs, Rename(p)
    PROVE  Simulated
<1> USE DEF DirInv, TypeOK, TypeFiles, TypeLocks, dirVars, flockVars, RotationInv
<1> DEFINE e     == dest[p][1]
           k     == dest[p][2]
           moved == InLatestAs(e)
           over  == {f \in Under("old") : Name(f) = Name(e) /\ suffix[f] = k}
<1>1. over = {}
  BY DEF Rename, ReplaceInv, DestIsFree, Taken
<1>2. at' = [f \in Entries |-> IF f \in moved THEN "old" ELSE at[f]]
  BY <1>1 DEF Rename, Orderly
<1>3. Held' = Held
  BY DEF Rename, Held
<1>4. CASE moved = {}
  <2>1. at' = at
    BY <1>2, <1>4
  <2> QED
    BY <1>3, <2>1, UnseenStep
<1>5. CASE moved # {}
  <2>1. PICK f \in moved : TRUE
    BY <1>5
  <2>2. f \in Entries /\ at[f] = "latest" /\ f[1] \in Procs
    BY <2>1 DEF InLatestAs, Under, Entries
  <2>3. \A g \in Under("latest") : g = f
    BY <2>2, OneEntry, NoneIsLate DEF LatestInv, OneRunInLatest, Under
  <2>4. moved = {f}
    BY <2>1, <2>3 DEF InLatestAs
  <2>5. Under("latest")' = {} /\ Under("old")' = Under("old") \cup {f}
        /\ Under("gone")' = Under("gone") /\ RunsAt("latest") = {f[1]}
    BY <1>2, <2>2, <2>3, <2>4 DEF Under, RunsAt
  <2>6. Slot = f[1] /\ Slot' = NoProc
    BY <2>2, <2>5, SlotFree, SlotTaken
  <2>7. RunsAt("old")' = RunsAt("old") \cup {f[1]} /\ RunsAt("gone")' = RunsAt("gone")
    BY <2>5 DEF RunsAt
  <2>8. Rotation!Archive(f[1])
    BY <1>3, <2>6, <2>7 DEF Rotation!Archive
  <2> QED
    BY <2>2, <2>8 DEF Simulated, Rotation!Next
<1> QED
  BY <1>4, <1>5

\* What a run makes first takes the free slot.
LEMMA MakingPublishes ==
    ASSUME DirInv, RotationInv, NEW p \in Procs, NEW k \in Kinds,
           Under("latest") = {}, \A f \in Entries : f[1] = p => at[f] = "none",
           at' = [at EXCEPT ![<<p, k>>] = "latest"],
           Held' = Held \/ Held' = Held \cup {p}
    PROVE  Simulated
<1> USE DEF DirInv, TypeOK, TypeFiles
<1>1. <<p, k>> \in Entries
  BY DEF Entries
<1>2. /\ Under("latest")' = {<<p, k>>}
      /\ Under("old")' = Under("old") /\ Under("gone")' = Under("gone")
  BY <1>1 DEF Under
<1>3. RunsAt("latest")' = {p} /\ RunsAt("old")' = RunsAt("old") /\ RunsAt("gone")' = RunsAt("gone")
  BY <1>2 DEF RunsAt
<1>4. Slot = NoProc /\ Slot' = p
  BY <1>3, SlotFree, SlotTaken
<1>5. p \notin RunsAt("old") \cup RunsAt("gone")
  BY DEF RunsAt, Under
<1>6. Rotation!Publish(p)
  BY <1>3, <1>4, <1>5 DEF Rotation!Publish
<1> QED
  BY <1>6 DEF Simulated, Rotation!Next

\* A run that opens what it has in latest may hold its slot now.
LEMMA OpeningHolds ==
    ASSUME DirInv, NEW p \in Procs, RunsAt("latest") = {p}, at' = at,
           Held' = Held \/ Held' = Held \cup {p}
    PROVE  Simulated
<1>1. CASE Held' = Held
  BY <1>1, UnseenStep
<1>2. CASE Held' = Held \cup {p}
  <2>1. Slot = p
    BY SlotTaken
  <2>2. Slot' = Slot /\ RunsAt("old")' = RunsAt("old") /\ RunsAt("gone")' = RunsAt("gone")
    BY DEF Slot, RunsAt, Under, OnlyRun
  <2>3. Rotation!Hold(p)
    BY <1>2, <2>1, <2>2 DEF Rotation!Hold
  <2> QED
    BY <2>3 DEF Simulated, Rotation!Next
<1> QED
  BY <1>1, <1>2

\* More files of its own make a process hold its own run at most.
LEMMA OwnFilesHoldOwnRun ==
    ASSUME TypeOK, NEW p \in Procs, NEW new \in SUBSET Entries,
           \A e \in new : e[1] = p,
           fds' = [fds EXCEPT ![p] = @ \cup new], lockOk' = lockOk
    PROVE  Held' = Held \/ Held' = Held \cup {p}
<1> USE DEF TypeOK, TypeFiles
<1>1. Held \subseteq Held'
  BY DEF Held
<1>2. Held' \subseteq Held \cup {p}
  BY DEF Held
<1> QED
  BY <1>1, <1>2

LEMMA RunDirPublishes ==
    ASSUME DirInv, RotationInv, NEW p \in Procs, MakeRunDir(p)
    PROVE  Simulated
<1> USE DEF DirInv, TypeOK, dirVars, flockVars
<1>1. Held' = Held
  BY DEF MakeRunDir, Held
<1>2. Under("latest") = {}
  BY NoneIsLate DEF MakeRunDir, LatestInv, LatestIsEmptied, RotationInv, Under
<1>3. \A f \in Entries : f[1] = p => at[f] = "none"
  BY DEF MakeRunDir, RotationInv, RunsAreFresh
<1>4. CASE at' = at
  BY <1>1, <1>4, UnseenStep
<1>5. CASE at' # at
  <2>1. at' = [at EXCEPT ![<<p, TagDir>>] = "latest"] /\ TagDir \in Kinds
    BY <1>5 DEF MakeRunDir, Kinds
  <2> QED
    BY <1>1, <1>2, <1>3, <2>1, MakingPublishes
<1> QED
  BY <1>4, <1>5

LEMMA RunDirHolds ==
    ASSUME DirInv, RotationInv, NEW p \in Procs, OpenRunDir(p)
    PROVE  Simulated
<1> USE DEF DirInv, TypeOK, TypeFiles, dirVars, flockVars
<1> DEFINE new == InLatestAs(<<p, TagDir>>)
<1>1. at' = at /\ lockOk' = lockOk
  BY DEF OpenRunDir
<1>2. \A f \in Under("latest") : f[1] = p
  BY NoneIsLate DEF OpenRunDir, LatestInv, LatestIsEmptied, RotationInv, Under
<1>3. CASE fds' = fds
  BY <1>1, <1>3, QuietStepIsUnseen
<1>4. CASE fds' # fds
  <2>1. fds' = [fds EXCEPT ![p] = @ \cup new] /\ new # {}
    BY <1>4 DEF OpenRunDir
  <2>2. new \in SUBSET Entries /\ \A f \in new : f[1] = p
    BY <1>2 DEF InLatestAs, Under
  <2>3. Held' = Held \/ Held' = Held \cup {p}
    BY <1>1, <2>1, <2>2, OwnFilesHoldOwnRun
  <2>4. RunsAt("latest") = {p}
    BY <1>2, <2>1 DEF RunsAt, InLatestAs
  <2> QED
    BY <1>1, <2>3, <2>4, OpeningHolds
<1> QED
  BY <1>3, <1>4

LEMMA FirstFilePublishes ==
    ASSUME Orderly, DirInv, RotationInv, NEW p \in Procs, FirstFile(p)
    PROVE  Simulated
<1> USE DEF DirInv, TypeOK, TypeFiles, TypeProcess, dirVars, flockVars
<1> DEFINE new == InLatestAs(<<p, Shared>>)
<1>1. lockOk' = lockOk /\ pc[p] = "first"
  BY DEF FirstFile, lockSet
<1>2. \A f \in Under("latest") : f[1] = p
  BY <1>1, NoneIsLate DEF LatestInv, LatestIsEmptied, RotationInv, Under
<1>3. <<p, Shared>> \in Entries /\ Shared \in Kinds
  BY DEF Entries, Kinds
<1>4. CASE at' = at /\ fds' = fds
  BY <1>1, <1>4, QuietStepIsUnseen
<1>5. CASE OpenInLatest(p, Shared) /\ new # {}
  <2>1. at' = at /\ fds' = [fds EXCEPT ![p] = @ \cup new]
    BY <1>5 DEF OpenInLatest
  <2>2. new \in SUBSET Entries /\ \A f \in new : f[1] = p
    BY <1>2 DEF InLatestAs, Under
  <2>3. Held' = Held \/ Held' = Held \cup {p}
    BY <1>1, <2>1, <2>2, OwnFilesHoldOwnRun
  <2>4. RunsAt("latest") = {p}
    BY <1>2, <1>5 DEF RunsAt, InLatestAs
  <2> QED
    BY <2>1, <2>3, <2>4, OpeningHolds
<1>6. CASE OpenInLatest(p, Shared) /\ new = {} /\ mode[p] = "single"
  <2>1. /\ at' = [at EXCEPT ![<<p, Shared>>] = "latest"]
        /\ fds' = [fds EXCEPT ![p] = @ \cup {<<p, Shared>>}]
    BY <1>6 DEF OpenInLatest
  <2>2. Held' = Held \/ Held' = Held \cup {p}
    <3>1. {<<p, Shared>>} \in SUBSET Entries /\ \A f \in {<<p, Shared>>} : f[1] = p
      BY <1>3
    <3> QED
      BY <1>1, <2>1, <3>1, OwnFilesHoldOwnRun
  <2>3. at[<<p, Shared>>] # "latest"
    BY <1>3, <1>6 DEF InLatestAs, Under
  <2>4. \A f \in Entries : f[1] = p => at[f] \in {"none", "latest"}
    BY <1>1 DEF RotationInv, RunsAreFresh
  <2>5. \A f \in Entries : f[1] = p /\ at[f] # "none" => f = <<p, Shared>>
    BY <1>6 DEF RotationInv, RunsAreFresh, KindOf, Entries
  <2>6. \A f \in Entries : f[1] = p => at[f] = "none"
    BY <2>3, <2>4, <2>5
  <2>7. Under("latest") = {}
    BY <1>2, <2>6 DEF Under
  <2> QED
    BY <1>3, <2>1, <2>2, <2>6, <2>7, MakingPublishes
<1> QED
  BY <1>4, <1>5, <1>6 DEF FirstFile

\* Retention deletes the one file of an archived run that nobody holds.
LEMMA ReapingDeletes ==
    ASSUME Orderly, DirInv, RotationInv, NEW p \in Procs, ReapFile(p)
    PROVE  Simulated
<1> USE DEF DirInv, TypeOK, TypeFiles, TypeProcess, dirVars, flockVars
<1>1. PICK e \in names[p] :
          at' = at \/ at' = [at EXCEPT ![e] = IF @ = "old" THEN "gone" ELSE @]
  BY DEF ReapFile
<1>2. e \in Entries /\ e[1] \in dead[p] /\ e[1] \in Procs /\ Stemmed(e)
  BY DEF SweepInv, SweepScope, TypeSweep, Entries
<1>10. fds' = fds /\ lockOk' = lockOk
  BY DEF ReapFile
<1>11. CASE at' = at
  BY <1>10, <1>11, QuietStepIsUnseen
<1> SUFFICES ASSUME at' # at PROVE Simulated
  BY <1>11
<1>12. at' = [at EXCEPT ![e] = "gone"] /\ at[e] = "old"
  BY <1>1, <1>2
<1>3. \A f \in Entries : f[1] = e[1] /\ at[f] # "none" => f = e
  BY <1>2, <1>12, OneEntry DEF RotationInv
<1>4. /\ Under("latest")' = Under("latest") /\ Under("old")' = Under("old") \ {e}
      /\ Under("gone")' = Under("gone") \cup {e}
  BY <1>2, <1>12 DEF Under
<1>5. /\ RunsAt("latest")' = RunsAt("latest")
      /\ RunsAt("gone")' = RunsAt("gone") \cup {e[1]}
  BY <1>4 DEF RunsAt
<1>6. RunsAt("old")' = RunsAt("old") \ {e[1]} /\ e[1] \in RunsAt("old")
  <2>1. \A f \in Under("old") : f[1] = e[1] => f = e
    BY <1>3 DEF Under
  <2>2. e \in Under("old")
    BY <1>2, <1>12 DEF Under
  <2> QED
    BY <1>4, <2>1, <2>2 DEF RunsAt
<1>7. e[1] \notin Held
  <2> SUFFICES ASSUME lockOk[e[1]], NEW q \in Procs, NEW f \in fds[q], f[1] = e[1]
               PROVE FALSE
    BY DEF Held
  <2>1. f \in Entries /\ at[f] # "none"
    BY DEF RotationInv, FilesAreOwn
  <2>2. f = e
    BY <1>3, <2>1
  <2> QED
    BY <1>2, <2>2 DEF SweepInv, DeadRunsHaveNoFiles
<1>8. Slot' = Slot /\ Held' = Held
  <2>1. Slot' = Slot
    BY <1>5 DEF Slot
  <2> QED
    BY <1>10, <2>1 DEF Held
<1>9. Rotation!Delete(e[1])
  BY <1>5, <1>6, <1>7, <1>8 DEF Rotation!Delete
<1> QED
  BY <1>2, <1>9 DEF Simulated, Rotation!Next

LEMMA RotationStep ==
    ASSUME Orderly, DirInv, RotationInv, [Next]_vars
    PROVE  Simulated
<1> USE DEF dirVars, flockVars
<1>1. CASE UNCHANGED vars
  BY <1>1, QuietStepIsUnseen DEF vars
<1>2. CASE Tick
  BY <1>2, QuietStepIsUnseen DEF Tick
<1> SUFFICES ASSUME NEW p \in Procs, Start(p) \/ OpenRun(p) \/ AfterOpen(p) \/ Crash(p)
             PROVE Simulated
  BY <1>1, <1>2 DEF Next
<1>3. CASE FlockRunLock(p)
  BY <1>3, FlockIsUnseen
<1>4. CASE Rename(p)
  BY <1>4, RenameArchives
<1>5. CASE MakeRunDir(p)
  BY <1>5, RunDirPublishes
<1>6. CASE OpenRunDir(p)
  BY <1>6, RunDirHolds
<1>7. CASE FirstFile(p)
  BY <1>7, FirstFilePublishes
<1>8. CASE ReapFile(p)
  BY <1>8, ReapingDeletes
<1>9. ASSUME NEW m \in Modules, OpenModule(p, m) PROVE FALSE
  BY <1>9, TwoModes DEF OpenModule, DirInv
<1>10. CASE Shutdown(p)
  BY <1>10, ClosingReleases DEF Shutdown
<1>11. CASE Crash(p)
  BY <1>11, ClosingReleases DEF Crash
<1>12. CASE Restart(p)
  BY <1>12, ClosingReleases DEF Restart
<1>13. ASSUME NEW c \in Procs, Fork(p, c) PROVE Simulated
  BY <1>13, ForkIsUnseen
<1>14. CASE \/ Start(p) \/ MakeDirs(p) \/ OpenRunLock(p)
            \/ LockStruct(p) \/ ListLatest(p) \/ PickDest(p) \/ MoveDone(p)
  BY <1>14, QuietStepIsUnseen
     DEF Start, MakeDirs, OpenRunLock, LockStruct, ListLatest, PickDest, MoveDone
<1>15. CASE \/ ListLocks(p) \/ ProbeBusy(p) \/ ProbeFree(p)
            \/ ProbeRelease(p) \/ ScanDone(p) \/ SelectVictims(p) \/ NextVictim(p)
            \/ UnlinkLock(p) \/ ReapDone(p) \/ UnlockStruct(p)
  BY <1>15, QuietStepIsUnseen
     DEF ListLocks, ProbeBusy, ProbeFree, ProbeRelease, ScanDone, SelectVictims,
         NextVictim, UnlinkLock, ReapDone, UnlockStruct
<1> QED
  BY <1>3, <1>4, <1>5, <1>6, <1>7, <1>8, <1>9, <1>10, <1>11, <1>12, <1>13, <1>14, <1>15
     DEF OpenRun, AfterOpen

\* If no flock is interrupted, latest opens, no rename fails, nobody opens a file per
\* module and log files have their default names, the run directory is the rotation the docs describe:
\* a run takes the slot, leaves it for the archive, and is deleted there when nobody
\* holds it, whatever starts, dies, forks or sweeps meanwhile.
THEOREM RunDirRotates ==
    ASSUME Orderly
    PROVE  Spec => RotatesRuns
<1>1. Init => Rotation!Init
  <2>1. ASSUME Init PROVE Under("latest") = {} /\ Under("old") = {} /\ Under("gone") = {}
    BY <2>1 DEF Init, Under
  <2> QED
    BY <2>1, SlotFree DEF Init, Rotation!Init, RunsAt, Held
<1>2. DirInv /\ RotationInv /\ [Next]_vars => Simulated
  BY RotationStep
<1> QED
  BY <1>1, <1>2, RotationInvCorrect, PTL DEF Spec, RotatesRuns, Rotation!Spec, Simulated

----------------------------------------------------------------------------
(* A sweep leaves no file that no later sweep can find.                    *)

\* A file with a default name is the only one of its name, so it is moved out with no
\* suffix; and while a process sweeps, latest holds files of its own run only.
SweepingSteps == {"retention"} \cup SweepSteps
NoSuffixes ==
    /\ \A e \in Entries : Stemmed(e) => suffix[e] = 0
    /\ \A p \in Procs : pc[p] \in {"move", "rename"} =>
            \A e \in listing[p] : Stemmed(e) => at[e] = "latest"
    /\ \A p \in Procs : pc[p] = "rename" =>
            /\ dest[p][1] \notin listing[p]
            /\ Stemmed(dest[p][1]) => dest[p][2] = 0
OwnLatest ==
    \A p \in Procs : pc[p] \in SweepingSteps => \A f \in Under("latest") : f[1] = p
OrphanInv == NoSuffixes /\ OwnLatest

\* Only a rename takes an entry out of latest.
LEMMA OnlyRenameTakes ==
    ASSUME TypeOK, NEW p \in Procs,
           Start(p) \/ OpenRun(p) \/ AfterOpen(p) \/ Crash(p), ~Rename(p)
    PROVE  \A e \in Entries : at[e] = "latest" => at'[e] = "latest"
<1> USE DEF TypeOK, TypeFiles, dirVars
<1>1. CASE MakeRunDir(p)
  BY <1>1 DEF MakeRunDir
<1>2. CASE FirstFile(p)
  BY <1>2 DEF FirstFile, OpenInLatest
<1>3. CASE ReapFile(p)
  BY <1>3 DEF ReapFile, TypeSweep
<1>4. ASSUME NEW m \in Modules, OpenModule(p, m)
      PROVE  \A e \in Entries : at[e] = "latest" => at'[e] = "latest"
  BY <1>4 DEF OpenModule, OpenInLatest
<1>5. CASE \/ Start(p) \/ MakeDirs(p) \/ OpenRunLock(p) \/ FlockRunLock(p)
           \/ LockStruct(p) \/ ListLatest(p) \/ PickDest(p) \/ MoveDone(p)
           \/ OpenRunDir(p) \/ ListLocks(p) \/ ProbeBusy(p) \/ ProbeFree(p)
           \/ ProbeRelease(p) \/ ScanDone(p)
  BY <1>5 DEF Start, MakeDirs, OpenRunLock, FlockRunLock, LockStruct, ListLatest,
     PickDest, MoveDone, OpenRunDir, ListLocks, ProbeBusy, ProbeFree, ProbeRelease,
     ScanDone
<1>6. CASE \/ SelectVictims(p) \/ NextVictim(p) \/ UnlinkLock(p) \/ ReapDone(p)
           \/ UnlockStruct(p) \/ Shutdown(p) \/ (\E c \in Procs : Fork(p, c))
           \/ Restart(p) \/ Crash(p)
  BY <1>6 DEF SelectVictims, NextVictim, UnlinkLock, ReapDone, UnlockStruct, Shutdown,
     Fork, Restart, Crash
<1> QED
  BY <1>1, <1>2, <1>3, <1>4, <1>5, <1>6 DEF OpenRun, AfterOpen

LEMMA StemmedNames ==
    ASSUME NEW e \in Entries, NEW f \in Entries, Stemmed(e), Name(f) = Name(e)
    PROVE  f = e
  BY DEF Stemmed, Name, Entries

LEMMA NoSuffixesStep ==
    ASSUME Orderly, DirInv, NoSuffixes, [Next]_vars
    PROVE  NoSuffixes'
<1> USE DEF NoSuffixes, DirInv, TypeOK, TypeFiles, TypeMove, TypeProcess
<1>1. CASE UNCHANGED vars
  BY <1>1 DEF vars, dirVars, Stemmed
<1>2. CASE Tick
  BY <1>2 DEF Tick, dirVars, Stemmed
<1> SUFFICES ASSUME NEW p \in Procs, Start(p) \/ OpenRun(p) \/ AfterOpen(p) \/ Crash(p)
             PROVE NoSuffixes'
  BY <1>1, <1>2 DEF Next
<1>3. CASE Rename(p)
  <2> DEFINE e    == dest[p][1]
             k    == dest[p][2]
  <2>1. pc[p] = "rename" /\ pc' = [pc EXCEPT ![p] = "move"] /\ listing' = listing
    BY <1>3 DEF Rename
  <2>2. \A q \in Procs \ {p} : pc[q] \notin {"move", "rename"}
    BY <2>1 DEF SweepInv, CriticalHoldsLock, CriticalSteps
  <2>3. ASSUME NEW f \in Entries, Stemmed(f) PROVE suffix'[f] = 0
    <3>1. CASE f \in InLatestAs(e)
      <4>1. e \in Entries \cup {NoDest[1]}
        OBVIOUS
      <4>2. e \in Entries /\ f = e
        BY <2>3, <3>1, <4>1, ConstantsAssumption
           DEF InLatestAs, Under, NoDest, Name, Stemmed, Entries, ConstantsAssumption
      <4>3. k = 0
        BY <2>1, <2>3, <4>2
      <4> QED
        BY <1>3, <2>3, <4>3 DEF Rename, dirVars
    <3>2. CASE f \notin InLatestAs(e)
      BY <1>3, <2>3, <3>2 DEF Rename, dirVars
    <3> QED
      BY <3>1, <3>2
  <2>4. ASSUME NEW f \in listing[p], Stemmed(f) PROVE at'[f] = "latest"
    <3>1. f \in Entries /\ at[f] = "latest" /\ f # e
      BY <2>1, <2>4
    <3>2. e \in Entries \cup {NoDest[1]}
      OBVIOUS
    <3>3. f \notin InLatestAs(e)
      BY <2>4, <3>1, <3>2, ConstantsAssumption
         DEF InLatestAs, Under, NoDest, Name, Stemmed, Entries, ConstantsAssumption
    <3>4. f \notin {g \in Under("old") : Name(g) = Name(e) /\ suffix[g] = k}
      BY <3>1 DEF Under
    <3> QED
      BY <1>3, <3>1, <3>3, <3>4 DEF Rename, dirVars
  <2> QED
    BY <2>1, <2>2, <2>3, <2>4 DEF Stemmed
<1>4. CASE ~Rename(p)
  <2>1. \A f \in Entries : at[f] = "latest" => at'[f] = "latest"
    BY <1>4, OnlyRenameTakes
  <2>2. suffix' = suffix
    BY <1>4, OnlyRenameMoves
  <2>3. CASE ListLatest(p)
    <3>1. /\ pc[p] = "list" /\ pc' = [pc EXCEPT ![p] = "move"] /\ dest' = dest
          /\ listing' = [listing EXCEPT ![p] = Under("latest")]
      BY <2>3 DEF ListLatest, Orderly
    <3> QED
      BY <2>1, <2>2, <3>1 DEF Under, Stemmed
  <2>4. CASE PickDest(p)
    <3>1. PICK e \in listing[p], k \in Suffixes :
              /\ FreeName(e, k)
              /\ listing' = [listing EXCEPT ![p] = @ \ {e}]
              /\ dest' = [dest EXCEPT ![p] = <<e, k>>]
      BY <2>4 DEF PickDest
    <3>2. pc[p] = "move" /\ pc' = [pc EXCEPT ![p] = "rename"]
      BY <2>4 DEF PickDest
    <3>3. ASSUME Stemmed(e) PROVE k = 0
      <4>1. e \in Entries /\ at[e] = "latest"
        BY <3>2, <3>3
      <4>2. ~Taken(e, 0)
        BY <3>3, <4>1, StemmedNames DEF Taken, Under
      <4>3. k \in Nat
        BY ConstantsAssumption, FS_CardinalityType DEF Suffixes, ConstantsAssumption
      <4> QED
        BY <3>1, <4>2, <4>3 DEF FreeName
    <3>4. dest'[p] = <<e, k>> /\ listing'[p] = listing[p] \ {e}
      BY <3>1
    <3>5. \A q \in Procs \ {p} : /\ pc'[q] = pc[q] /\ listing'[q] = listing[q]
                                 /\ dest'[q] = dest[q]
      BY <3>1, <3>2
    <3> QED
      BY <2>1, <2>2, <3>2, <3>3, <3>4, <3>5 DEF Stemmed
  <2>5. CASE ~ListLatest(p) /\ ~PickDest(p)
    <3>1. \A q \in Procs : pc'[q] \in {"move", "rename"} =>
              pc'[q] = pc[q] /\ listing'[q] = listing[q] /\ dest'[q] = dest[q]
      <4>1. ASSUME NEW q \in Procs, pc'[q] \in {"move", "rename"}
            PROVE  \/ pc'[q] = pc[q] /\ listing'[q] = listing[q] /\ dest'[q] = dest[q]
                   \/ q = p /\ Moves(p)
        BY <4>1, OthersKeepMoving DEF MovingSteps
      <4>2. Moves(p) => pc'[p] \notin {"move", "rename"}
        BY <1>4, <2>5 DEF Moves, MoveDone, MakeRunDir, OpenRunDir, GiveUp
      <4> QED
        BY <4>1, <4>2
    <3> QED
      BY <2>1, <2>2, <3>1 DEF Stemmed
  <2> QED
    BY <2>3, <2>4, <2>5
<1> QED
  BY <1>3, <1>4

\* A process comes to its sweep from its first file.
LEMMA SweepFollowsFirstFile ==
    ASSUME TypeOK, NEW p \in Procs,
           Start(p) \/ OpenRun(p) \/ AfterOpen(p) \/ Crash(p), ~FirstFile(p)
    PROVE  \A q \in Procs : pc'[q] \in SweepingSteps => pc[q] \in SweepingSteps
<1> DEFINE Kept == \A q \in Procs : pc'[q] \in SweepingSteps => pc[q] \in SweepingSteps
<1> USE DEF TypeOK, TypeProcess, SweepingSteps, SweepSteps
<1>1. CASE Start(p)
  BY <1>1 DEF Start
<1>2. CASE MakeDirs(p)
  BY <1>2 DEF MakeDirs
<1>3. CASE OpenRunLock(p)
  BY <1>3 DEF OpenRunLock
<1>4. CASE FlockRunLock(p)
  BY <1>4 DEF FlockRunLock
<1>5. CASE LockStruct(p)
  BY <1>5 DEF LockStruct
<1>6. CASE ListLatest(p)
  BY <1>6 DEF ListLatest
<1>7. CASE PickDest(p)
  BY <1>7 DEF PickDest
<1>8. CASE Rename(p)
  BY <1>8 DEF Rename
<1>9. CASE MoveDone(p)
  BY <1>9 DEF MoveDone
<1>10. CASE MakeRunDir(p)
  BY <1>10 DEF MakeRunDir, GiveUp
<1>11. CASE OpenRunDir(p)
  BY <1>11 DEF OpenRunDir, GiveUp
<1>12. CASE ListLocks(p)
  BY <1>12 DEF ListLocks
<1>13. CASE ProbeBusy(p)
  BY <1>13 DEF ProbeBusy
<1>14. CASE ProbeFree(p)
  BY <1>14 DEF ProbeFree
<1>15. CASE ProbeRelease(p)
  BY <1>15 DEF ProbeRelease
<1>16. CASE ScanDone(p)
  BY <1>16 DEF ScanDone
<1>17. CASE SelectVictims(p)
  BY <1>17 DEF SelectVictims
<1>18. CASE NextVictim(p)
  BY <1>18 DEF NextVictim
<1>19. CASE ReapFile(p)
  BY <1>19 DEF ReapFile
<1>20. CASE UnlinkLock(p)
  BY <1>20 DEF UnlinkLock
<1>21. CASE ReapDone(p)
  BY <1>21 DEF ReapDone
<1>22. CASE UnlockStruct(p)
  BY <1>22 DEF UnlockStruct
<1>23. CASE Shutdown(p)
  BY <1>23 DEF Shutdown
<1>24. CASE Crash(p)
  BY <1>24 DEF Crash
<1>25. CASE Restart(p)
  BY <1>25 DEF Restart
<1>26. ASSUME NEW m \in Modules, OpenModule(p, m) PROVE Kept
  BY <1>26 DEF OpenModule
<1>27. ASSUME NEW c \in Procs, Fork(p, c) PROVE Kept
  BY <1>27 DEF Fork
<1> QED
  BY <1>1, <1>2, <1>3, <1>4, <1>5, <1>6, <1>7, <1>8, <1>9, <1>10, <1>11, <1>12,
     <1>13, <1>14, <1>15, <1>16, <1>17, <1>18, <1>19, <1>20, <1>21, <1>22, <1>23,
     <1>24, <1>25, <1>26, <1>27 DEF OpenRun, AfterOpen

LEMMA OwnLatestStep ==
    ASSUME Orderly, DirInv, RunsAreFresh, OwnLatest, [Next]_vars
    PROVE  OwnLatest'
<1> USE DEF OwnLatest, DirInv, TypeOK, TypeFiles, TypeProcess, Under
<1>1. CASE UNCHANGED vars
  BY <1>1 DEF vars, dirVars
<1>2. CASE Tick
  BY <1>2 DEF Tick, dirVars
<1> SUFFICES ASSUME NEW p \in Procs, Start(p) \/ OpenRun(p) \/ AfterOpen(p) \/ Crash(p)
             PROVE OwnLatest'
  BY <1>1, <1>2 DEF Next
<1>3. CASE FirstFile(p)
  <2>1. \A f \in Under("latest")' : f[1] = p
    BY <1>3, NoneIsLate DEF FirstFile, OpenInLatest, LatestInv, LatestIsEmptied, Entries
  <2>2. \A q \in Procs \ {p} : pc'[q] \notin SweepingSteps
    BY <1>3 DEF FirstFile, SweepInv, CriticalHoldsLock, CriticalSteps, SweepingSteps, SweepSteps
  <2> QED
    BY <2>1, <2>2
<1>4. CASE MakeRunDir(p)
  <2>1. \A q \in Procs : pc'[q] \notin SweepingSteps
    BY <1>4 DEF MakeRunDir, GiveUp, SweepInv, CriticalHoldsLock, CriticalSteps,
       SweepingSteps, SweepSteps
  <2> QED
    BY <2>1
<1>5. CASE ~FirstFile(p) /\ ~MakeRunDir(p)
  <2>1. \A e \in Entries : at'[e] = "latest" => at[e] = "latest"
    <3>1. \A e \in Entries : at'[e] = "latest" => ~Late(e)
      BY RunsAreFreshStep, NoneIsLatePrime
    <3> QED
      BY <1>5, <3>1, OnlyOpenersAdd
  <2>2. \A q \in Procs : pc'[q] \in SweepingSteps => pc[q] \in SweepingSteps
    BY <1>5, SweepFollowsFirstFile
  <2> QED
    BY <2>1, <2>2
<1> QED
  BY <1>3, <1>4, <1>5

\* Only UnlinkLock removes a lock file, that of its target.
LEMMA OnlyUnlinkLockUnlinks ==
    ASSUME TypeOK, [Next]_vars, NEW r \in Procs, lockFile[r], ~lockFile'[r]
    PROVE  \E p \in Procs : UnlinkLock(p) /\ target[p] = r
<1> USE DEF TypeOK, TypeLocks, lockVars
<1>1. CASE UNCHANGED vars
  BY <1>1 DEF vars
<1>2. CASE Tick
  BY <1>2 DEF Tick
<1> SUFFICES ASSUME NEW p \in Procs, Start(p) \/ OpenRun(p) \/ AfterOpen(p) \/ Crash(p)
             PROVE UnlinkLock(p) /\ target[p] = r
  BY <1>1, <1>2 DEF Next
<1>3. CASE UnlinkLock(p)
  BY <1>3 DEF UnlinkLock
<1>4. CASE OpenRunLock(p)
  BY <1>4 DEF OpenRunLock
<1>5. ASSUME NEW m \in Modules, OpenModule(p, m) PROVE FALSE
  BY <1>5 DEF OpenModule
<1>6. CASE \/ Start(p) \/ MakeDirs(p) \/ FlockRunLock(p)
           \/ LockStruct(p) \/ ListLatest(p) \/ PickDest(p) \/ Rename(p) \/ MoveDone(p)
           \/ MakeRunDir(p) \/ OpenRunDir(p) \/ FirstFile(p)
  BY <1>6 DEF Start, MakeDirs, FlockRunLock, LockStruct, ListLatest, PickDest, Rename,
     MoveDone, MakeRunDir, OpenRunDir, FirstFile
<1>7. CASE \/ ListLocks(p) \/ ProbeBusy(p) \/ ProbeFree(p) \/ ProbeRelease(p)
           \/ ScanDone(p) \/ SelectVictims(p) \/ NextVictim(p) \/ ReapFile(p) \/ ReapDone(p)
           \/ UnlockStruct(p) \/ Shutdown(p) \/ (\E c \in Procs : Fork(p, c))
           \/ Restart(p) \/ Crash(p)
  BY <1>7 DEF ListLocks, ProbeBusy, ProbeFree, ProbeRelease, ScanDone, SelectVictims,
     NextVictim, ReapFile, ReapDone, UnlockStruct, Shutdown, Fork, Restart, Crash
<1> QED
  BY <1>3, <1>4, <1>5, <1>6, <1>7 DEF OpenRun, AfterOpen

\* While the files of a run are unlinked, those that are left in log_dir are those that
\* the reading of log_dir found and no unlink was tried for.
ReapsAll ==
    \A p \in Procs : pc[p] = "reapfiles" => ReapableFiles(target[p]) \subseteq names[p]

LEMMA ReapingSteps ==
    ASSUME TypeOK, NEW p \in Procs,
           Start(p) \/ OpenRun(p) \/ AfterOpen(p) \/ Crash(p), pc'[p] = "reapfiles"
    PROVE  NextVictim(p) \/ ReapFile(p)
<1> USE DEF TypeOK, TypeProcess
<1>1. CASE \/ Start(p) \/ MakeDirs(p) \/ OpenRunLock(p) \/ FlockRunLock(p)
           \/ LockStruct(p) \/ ListLatest(p) \/ PickDest(p) \/ Rename(p) \/ MoveDone(p)
  BY <1>1 DEF Start, MakeDirs, OpenRunLock, FlockRunLock, LockStruct, ListLatest, PickDest,
     Rename, MoveDone
<1>2. CASE \/ MakeRunDir(p) \/ OpenRunDir(p) \/ FirstFile(p) \/ ListLocks(p)
           \/ ProbeBusy(p) \/ ProbeFree(p) \/ ProbeRelease(p) \/ ScanDone(p)
  BY <1>2 DEF MakeRunDir, OpenRunDir, GiveUp, FirstFile, ListLocks, ProbeBusy, ProbeFree,
     ProbeRelease, ScanDone
<1>3. CASE \/ SelectVictims(p) \/ UnlinkLock(p) \/ ReapDone(p) \/ UnlockStruct(p)
           \/ Shutdown(p) \/ Crash(p) \/ Restart(p)
  BY <1>3 DEF SelectVictims, UnlinkLock, ReapDone, UnlockStruct, Shutdown, Crash, Restart
<1>4. ASSUME NEW m \in Modules, OpenModule(p, m) PROVE FALSE
  BY <1>4 DEF OpenModule
<1>5. ASSUME NEW c \in Procs, Fork(p, c) PROVE FALSE
  BY <1>5 DEF Fork
<1> QED
  BY <1>1, <1>2, <1>3, <1>4, <1>5 DEF OpenRun, AfterOpen

LEMMA ReapsAllStep ==
    ASSUME "listfiles" \notin Faults, "unlink" \notin Faults, DirInv, ReapsAll, [Next]_vars
    PROVE  ReapsAll'
<1> USE DEF ReapsAll, DirInv, TypeOK, TypeFiles, TypeProcess, TypeSweep
<1>1. CASE UNCHANGED vars
  BY <1>1 DEF vars, dirVars, sweepVars, ReapableFiles, Under, Stemmed
<1>2. CASE Tick
  BY <1>2 DEF Tick, dirVars, sweepVars, ReapableFiles, Under, Stemmed
<1> SUFFICES ASSUME NEW p \in Procs, Start(p) \/ OpenRun(p) \/ AfterOpen(p) \/ Crash(p),
                    NEW q \in Procs, pc'[q] = "reapfiles"
             PROVE  ReapableFiles(target[q])' \subseteq names'[q]
  BY <1>1, <1>2 DEF Next
<1> SUFFICES ASSUME NEW e \in Entries, at'[e] = "old", Stemmed(e), e[1] = target'[q],
                    suffix'[e] = 0
             PROVE  e \in names'[q]
  BY DEF ReapableFiles, Under, Stemmed
<1>3. CASE q # p
  <2>1. /\ pc[q] = "reapfiles" /\ target'[q] = target[q] /\ names'[q] = names[q]
    BY <1>3, SweepsAreApart DEF SweepsApart
  <2>2. ~Rename(p)
    BY <1>3, <2>1 DEF Rename, SweepInv, CriticalHoldsLock, CriticalSteps
  <2>3. at[e] = "old" /\ suffix[e] = 0
    BY <2>2, OnlyRenameMoves
  <2> QED
    BY <2>1, <2>3 DEF ReapableFiles, Under
<1>4. CASE q = p /\ NextVictim(p)
  <2>1. PICK r \in victims[p] :
            /\ target' = [target EXCEPT ![p] = r]
            /\ names' = [names EXCEPT ![p] = ReapableFiles(r)]
    BY <1>4 DEF NextVictim
  <2>2. at' = at /\ suffix' = suffix
    BY <1>4 DEF NextVictim, dirVars
  <2> QED
    BY <1>4, <2>1, <2>2 DEF ReapableFiles, Under
<1>5. CASE q = p /\ ReapFile(p)
  <2>1. PICK f \in names[p] :
            /\ names' = [names EXCEPT ![p] = @ \ {f}]
            /\ at' = [at EXCEPT ![f] = IF @ = "old" THEN "gone" ELSE @]
    BY <1>5 DEF ReapFile
  <2>2. pc[p] = "reapfiles" /\ target' = target /\ suffix' = suffix
    BY <1>5 DEF ReapFile
  <2>3. e # f /\ at[e] = "old"
    BY <2>1
  <2>4. e \in ReapableFiles(target[p])
    BY <1>5, <2>2, <2>3 DEF ReapableFiles, Under
  <2> QED
    BY <1>5, <2>1, <2>2, <2>3, <2>4
<1> QED
  BY <1>3, <1>4, <1>5, ReapingSteps

\* If no flock is interrupted, latest opens, no rename fails, nobody opens a file per
\* module and log files have their default names, and if reap_run_files can read log_dir
\* and no unlink fails, a sweep, wherever it is cut short, removes the lock of a run that
\* locked itself only after the last of its files: reap_run_files reads log_dir once, and
\* no file of the run appears there, or is left in latest, after that.
THEOREM NoOrphan ==
    ASSUME Orderly, {"listfiles", "unlink"} \cap Faults = {}
    PROVE  Spec => SweepLeavesNoOrphan
<1>1. Init => OrphanInv /\ ReapsAll
  BY DEF Init, OrphanInv, NoSuffixes, OwnLatest, Under, SweepingSteps, SweepSteps, ReapsAll
<1>2. DirInv /\ RotationInv /\ OrphanInv /\ ReapsAll /\ [Next]_vars
        => OrphanInv' /\ ReapsAll'
  BY NoSuffixesStep, OwnLatestStep, ReapsAllStep DEF OrphanInv, RotationInv
<1>3. ASSUME DirInv, RotationInv, OrphanInv, ReapsAll, [Next]_vars, NEW r \in Procs,
             lockFile[r], ~lockFile'[r], lockOk[r], ~CustomName,
             NEW e \in Entries, e[1] = r, e[2] # TagDir, at[e] \in {"latest", "old"}
      PROVE  FALSE
  <2>1. PICK p \in Procs : UnlinkLock(p) /\ target[p] = r
    BY <1>3, OnlyUnlinkLockUnlinks DEF DirInv
  <2>2. at' = at /\ pc[p] = "reapfiles" /\ ReapableFiles(r) = {}
    BY <1>3, <2>1 DEF UnlinkLock, UnlinkedAll, ReapsAll, dirVars
  <2>3. Stemmed(e) /\ suffix[e] = 0
    BY <1>3, NoneIsLate DEF Stemmed, OrphanInv, NoSuffixes, RotationInv, Late, LateKinds
  <2>4. at[e] # "old"
    BY <1>3, <2>2, <2>3 DEF ReapableFiles, Under
  <2>5. r \in dead[p]
    BY <1>3, <2>1, <2>2 DEF DirInv, SweepInv, SweepScope
  <2>6. pc[r] \in {"struct"} \cup EndSteps
    BY <1>3, <2>5 DEF DirInv, SweepInv, DeadRunsHaveNoFiles
  <2>7. r # p
    BY <2>2, <2>6 DEF EndSteps
  <2>8. at[e] # "latest"
    BY <1>3, <2>2, <2>7 DEF OrphanInv, OwnLatest, Under, SweepingSteps, SweepSteps
  <2> QED
    BY <1>3, <2>4, <2>8
<1>4. DirInv /\ RotationInv /\ OrphanInv /\ ReapsAll /\ [Next]_vars => [UnlinksNoOrphan]_vars
  BY <1>3 DEF UnlinksNoOrphan
<1> QED
  BY <1>1, <1>2, <1>4, RotationInvCorrect, PTL DEF Spec, SweepLeavesNoOrphan

=============================================================================
