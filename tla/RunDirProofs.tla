---------------------------- MODULE RunDirProofs ----------------------------
(***************************************************************************)
(* Proofs about RunDir, for any set of processes and any settings.         *)
(***************************************************************************)
EXTENDS RunDir, FiniteSetTheorems, TLAPS

\* The names of the steps, so that their set can stay closed.
LEMMA StepNames ==
    /\ "off" \in Steps /\ "child" \in Steps /\ "run" \in Steps /\ "begin" \in Steps
    /\ "runlock" \in Steps /\ "flock" \in Steps /\ "struct" \in Steps /\ "list" \in Steps
    /\ "move" \in Steps /\ "rename" \in Steps /\ "place" \in Steps /\ "opendir" \in Steps
    /\ "first" \in Steps /\ "retention" \in Steps /\ "probe" \in Steps /\ "probed" \in Steps
    /\ "select" \in Steps /\ "reap" \in Steps /\ "reapfiles" \in Steps /\ "unlock" \in Steps
    /\ "failed" \in Steps /\ "closed" \in Steps /\ "dead" \in Steps
  BY DEF Steps, StartSteps, CriticalSteps, EndSteps

LEMMA SuffixesHaveZero == 0 \in Suffixes
  BY ConstantsAssumption, FS_CardinalityType DEF Suffixes, ConstantsAssumption

LEMMA NoDestType == NoDest \in (Entries \cup {NoDest[1]}) \X Suffixes
  BY SuffixesHaveZero DEF NoDest

LEMMA TypeInit == Init => TypeOK
  BY SuffixesHaveZero, StepNames, ConstantsAssumption
     DEF Init, TypeOK, TypeProcess, TypeFiles, TypeLocks, TypeMove, TypeSweep,
         Places, NoDest, ConstantsAssumption

USE DEF Goto, fileVars, lockSet, moveVars, CloseFiles

LEMMA TypeStep == TypeOK /\ [Next]_vars => TypeOK'
<1> SUFFICES ASSUME TypeOK, [Next]_vars PROVE TypeOK'
  OBVIOUS
<1> USE StepNames DEF TypeOK, dirVars, lockVars, flockVars, sweepVars, vars
<1>0. CASE UNCHANGED vars
  BY <1>0 DEF TypeProcess, TypeFiles, TypeLocks, TypeMove, TypeSweep
<1>1. CASE Tick
  BY <1>1 DEF Tick, TypeProcess, TypeFiles, TypeLocks, TypeMove, TypeSweep
<1> SUFFICES ASSUME NEW p \in Procs, Start(p) \/ OpenRun(p) \/ AfterOpen(p) \/ Crash(p)
             PROVE TypeOK'
  BY <1>0, <1>1 DEF Next
<1>2. CASE Start(p)
  BY <1>2 DEF Start, Goto, TypeProcess, TypeFiles, TypeLocks, TypeMove, TypeSweep
<1>3. CASE MakeDirs(p)
  <2>1. TypeProcess' BY <1>3 DEF MakeDirs, Goto, TypeProcess
  <2>2. TypeFiles' /\ TypeLocks' /\ TypeMove' /\ TypeSweep'
    BY <1>3 DEF MakeDirs, TypeFiles, TypeLocks, TypeMove, TypeSweep
  <2> QED BY <2>1, <2>2
<1>4. CASE OpenRunLock(p)
  <2>1. TypeProcess' BY <1>4 DEF OpenRunLock, Goto, TypeProcess
  <2>2. TypeLocks' BY <1>4 DEF OpenRunLock, TypeLocks, TypeProcess
  <2>3. TypeFiles' /\ TypeMove' /\ TypeSweep'
    BY <1>4 DEF OpenRunLock, TypeFiles, TypeMove, TypeSweep
  <2> QED BY <2>1, <2>2, <2>3
<1>5. CASE FlockRunLock(p)
  <2>1. TypeProcess' BY <1>5 DEF FlockRunLock, Goto, TypeProcess
  <2>2. TypeLocks'
    <3>1. CASE UNCHANGED flockVars
      BY <1>5, <3>1 DEF FlockRunLock, TypeLocks
    <3>2. CASE /\ holders' = [holders EXCEPT ![p] = @ \cup {p}]
               /\ lockOk' = [lockOk EXCEPT ![p] = TRUE]
      BY <1>5, <3>2 DEF FlockRunLock, TypeLocks
    <3> QED BY <1>5, <3>1, <3>2 DEF FlockRunLock
  <2>3. TypeFiles' /\ TypeMove' /\ TypeSweep'
    BY <1>5 DEF FlockRunLock, TypeFiles, TypeMove, TypeSweep
  <2> QED BY <2>1, <2>2, <2>3
<1>6. CASE LockStruct(p)
  <2>1. TypeProcess' BY <1>6 DEF LockStruct, Goto, TypeProcess
  <2>2. TypeLocks' BY <1>6 DEF LockStruct, DropRunLocks, TypeLocks
  <2>3. TypeFiles' /\ TypeMove' /\ TypeSweep'
    BY <1>6 DEF LockStruct, TypeFiles, TypeMove, TypeSweep
  <2> QED BY <2>1, <2>2, <2>3
<1>7. CASE ListLatest(p)
  <2>1. TypeProcess' BY <1>7 DEF ListLatest, Goto, TypeProcess
  <2>2. TypeMove' BY <1>7 DEF ListLatest, Under, TypeMove
  <2>3. TypeFiles' /\ TypeLocks' /\ TypeSweep'
    BY <1>7 DEF ListLatest, TypeFiles, TypeLocks, TypeSweep
  <2> QED BY <2>1, <2>2, <2>3
<1>8. CASE PickDest(p)
  <2>1. TypeProcess' BY <1>8 DEF PickDest, Goto, TypeProcess
  <2>2. TypeMove' BY <1>8 DEF PickDest, Under, TypeMove
  <2>3. TypeFiles' /\ TypeLocks' /\ TypeSweep'
    BY <1>8 DEF PickDest, TypeFiles, TypeLocks, TypeSweep
  <2> QED BY <2>1, <2>2, <2>3
<1>9. CASE Rename(p)
  <2>1. TypeProcess' BY <1>9 DEF Rename, Goto, TypeProcess
  <2>2. TypeFiles'
    <3>1. dest[p][2] \in Suffixes
      BY DEF TypeMove
    <3> QED BY <1>9, <3>1 DEF Rename, Places, TypeFiles
  <2>3. TypeMove' BY <1>9, NoDestType DEF Rename, TypeMove
  <2>4. TypeLocks' /\ TypeSweep'
    BY <1>9 DEF Rename, TypeLocks, TypeSweep
  <2> QED BY <2>1, <2>2, <2>3, <2>4
<1>10. CASE MoveDone(p)
  BY <1>10 DEF MoveDone, Goto, TypeProcess, TypeFiles, TypeLocks, TypeMove, TypeSweep
<1>11. CASE MakeRunDir(p)
  <2>1. TypeProcess' BY <1>11 DEF MakeRunDir, Goto, GiveUp, TypeProcess
  <2>2. TypeFiles' BY <1>11 DEF MakeRunDir, Places, Entries, Kinds, TypeFiles
  <2>3. TypeLocks' BY <1>11 DEF MakeRunDir, GiveUp, DropRunLocks, DropStructLock, TypeLocks
  <2>4. TypeMove' /\ TypeSweep'
    BY <1>11 DEF MakeRunDir, TypeMove, TypeSweep
  <2> QED BY <2>1, <2>2, <2>3, <2>4
<1>12. CASE OpenRunDir(p)
  <2>1. TypeProcess' BY <1>12 DEF OpenRunDir, Goto, GiveUp, TypeProcess
  <2>2. TypeFiles' BY <1>12 DEF OpenRunDir, InLatestAs, Under, TypeFiles
  <2>3. TypeLocks' BY <1>12 DEF OpenRunDir, GiveUp, DropRunLocks, DropStructLock, TypeLocks
  <2>4. TypeMove' /\ TypeSweep'
    BY <1>12 DEF OpenRunDir, TypeMove, TypeSweep
  <2> QED BY <2>1, <2>2, <2>3, <2>4
<1>13. CASE FirstFile(p)
  <2>1. TypeProcess' BY <1>13 DEF FirstFile, Goto, TypeProcess
  <2>2. TypeFiles' BY <1>13 DEF FirstFile, OpenInLatest, InLatestAs, Under, Entries, Kinds, Places, TypeFiles
  <2>3. TypeLocks' /\ TypeMove' /\ TypeSweep'
    BY <1>13 DEF FirstFile, TypeLocks, TypeMove, TypeSweep
  <2> QED BY <2>1, <2>2, <2>3
<1>14. CASE ListLocks(p)
  <2>1. TypeProcess' BY <1>14 DEF ListLocks, Goto, TypeProcess
  <2>2. TypeSweep' BY <1>14 DEF ListLocks, TypeSweep
  <2>3. TypeFiles' /\ TypeLocks' /\ TypeMove'
    BY <1>14 DEF ListLocks, TypeFiles, TypeLocks, TypeMove
  <2> QED BY <2>1, <2>2, <2>3
<1>15. CASE ProbeBusy(p)
  <2>1. TypeSweep' BY <1>15 DEF ProbeBusy, TypeSweep
  <2>2. TypeProcess' /\ TypeFiles' /\ TypeLocks' /\ TypeMove'
    BY <1>15 DEF ProbeBusy, TypeProcess, TypeFiles, TypeLocks, TypeMove
  <2> QED BY <2>1, <2>2
<1>16. CASE ProbeFree(p)
  <2>1. TypeProcess' BY <1>16 DEF ProbeFree, Goto, TypeProcess
  <2>2. TypeSweep' BY <1>16 DEF ProbeFree, TypeSweep
  <2>3. TypeFiles' /\ TypeLocks' /\ TypeMove'
    BY <1>16 DEF ProbeFree, TypeFiles, TypeLocks, TypeMove
  <2> QED BY <2>1, <2>2, <2>3
<1>17. CASE ProbeRelease(p)
  <2>1. TypeProcess' BY <1>17 DEF ProbeRelease, Goto, TypeProcess
  <2>2. TypeSweep' BY <1>17 DEF ProbeRelease, TypeSweep
  <2>3. TypeFiles' /\ TypeLocks' /\ TypeMove'
    BY <1>17 DEF ProbeRelease, TypeFiles, TypeLocks, TypeMove
  <2> QED BY <2>1, <2>2, <2>3
<1>18. CASE ScanDone(p)
  BY <1>18 DEF ScanDone, Goto, TypeProcess, TypeFiles, TypeLocks, TypeMove, TypeSweep
<1>19. CASE SelectVictims(p)
  <2>1. TypeProcess' BY <1>19 DEF SelectVictims, Goto, TypeProcess
  <2>2. TypeSweep' BY <1>19 DEF SelectVictims, TypeSweep
  <2>3. TypeFiles' /\ TypeLocks' /\ TypeMove'
    BY <1>19 DEF SelectVictims, TypeFiles, TypeLocks, TypeMove
  <2> QED BY <2>1, <2>2, <2>3
<1>20. CASE NextVictim(p)
  <2>1. TypeProcess' BY <1>20 DEF NextVictim, Goto, TypeProcess
  <2>2. \A r \in Procs : ReapableFiles(r) \subseteq Entries
    BY DEF ReapableFiles, Under
  <2>4. TypeSweep' BY <1>20, <2>2 DEF NextVictim, TypeSweep
  <2>3. TypeFiles' /\ TypeLocks' /\ TypeMove'
    BY <1>20 DEF NextVictim, TypeFiles, TypeLocks, TypeMove
  <2> QED BY <2>1, <2>3, <2>4
<1>21. CASE ReapFile(p)
  <2>1. TypeFiles' BY <1>21 DEF ReapFile, Places, TypeFiles, TypeSweep
  <2>2. TypeSweep' BY <1>21 DEF ReapFile, TypeSweep
  <2>3. TypeProcess' /\ TypeLocks' /\ TypeMove'
    BY <1>21 DEF ReapFile, TypeProcess, TypeLocks, TypeMove
  <2> QED BY <2>1, <2>2, <2>3
<1>22. CASE UnlinkLock(p)
  <2>1. TypeProcess' BY <1>22 DEF UnlinkLock, Goto, TypeProcess
  <2>2. TypeLocks' BY <1>22 DEF UnlinkLock, TypeLocks
  <2>3. TypeSweep' BY <1>22 DEF UnlinkLock, TypeSweep
  <2>4. TypeFiles' /\ TypeMove'
    BY <1>22 DEF UnlinkLock, TypeFiles, TypeMove
  <2> QED BY <2>1, <2>2, <2>3, <2>4
<1>23. CASE ReapDone(p)
  BY <1>23 DEF ReapDone, Goto, TypeProcess, TypeFiles, TypeLocks, TypeMove, TypeSweep
<1>24. CASE UnlockStruct(p)
  <2>1. TypeProcess' BY <1>24 DEF UnlockStruct, Goto, TypeProcess
  <2>2. TypeLocks' BY <1>24 DEF UnlockStruct, DropStructLock, TypeLocks
  <2>3. TypeSweep' BY <1>24 DEF UnlockStruct, ForgetSweep, TypeSweep
  <2>4. TypeFiles' /\ TypeMove'
    BY <1>24 DEF UnlockStruct, TypeFiles, TypeMove
  <2> QED BY <2>1, <2>2, <2>3, <2>4
<1>25. ASSUME NEW m \in Modules, OpenModule(p, m) PROVE TypeOK'
  <2>1. <<p, Opened(p, m)>> \in Entries
    BY DEF Opened, Entries, Kinds, LateKinds, Strays
  <2>3. OpenInLatest(p, Opened(p, m)) /\ suffix' = suffix
    BY <1>25 DEF OpenModule
  <2>4. TypeFiles'
    BY <2>1, <2>3 DEF OpenInLatest, InLatestAs, Under, Places, TypeFiles
  <2>2. TypeProcess' /\ TypeLocks' /\ TypeMove' /\ TypeSweep'
    BY <1>25 DEF OpenModule, TypeProcess, TypeLocks, TypeMove, TypeSweep
  <2> QED BY <2>2, <2>4
<1>26. CASE Shutdown(p)
  <2>1. TypeProcess' BY <1>26 DEF Shutdown, Goto, TypeProcess
  <2>2. TypeFiles' BY <1>26 DEF Shutdown, TypeFiles
  <2>3. TypeLocks' BY <1>26 DEF Shutdown, DropRunLocks, TypeLocks
  <2>4. TypeMove' /\ TypeSweep'
    BY <1>26 DEF Shutdown, TypeMove, TypeSweep
  <2> QED BY <2>1, <2>2, <2>3, <2>4
<1>27. CASE Crash(p)
  <2>1. TypeProcess' BY <1>27 DEF Crash, Goto, TypeProcess
  <2>2. TypeFiles' BY <1>27 DEF Crash, TypeFiles
  <2>3. TypeLocks' BY <1>27 DEF Crash, DropRunLocks, DropStructLock, TypeLocks
  <2>4. TypeMove' BY <1>27, NoDestType DEF Crash, TypeMove
  <2>5. TypeSweep' BY <1>27 DEF Crash, ForgetSweep, TypeSweep
  <2> QED BY <2>1, <2>2, <2>3, <2>4, <2>5
<1>28. ASSUME NEW c \in Procs, Fork(p, c) PROVE TypeOK'
  <2>1. TypeProcess' BY <1>28 DEF Fork, CopiedLocks, Goto, TypeProcess
  <2>2. TypeFiles' BY <1>28 DEF Fork, CopiedLocks, TypeFiles
  <2>3. TypeLocks' BY <1>28 DEF Fork, CopiedLocks, TypeLocks
  <2>4. TypeMove' /\ TypeSweep'
    BY <1>28 DEF Fork, CopiedLocks, TypeMove, TypeSweep
  <2> QED BY <2>1, <2>2, <2>3, <2>4
<1>29. CASE Restart(p)
  <2>1. TypeProcess' BY <1>29 DEF Restart, Goto, TypeProcess
  <2>2. TypeFiles' BY <1>29 DEF Restart, TypeFiles
  <2>3. TypeLocks' BY <1>29 DEF Restart, DropRunLocks, TypeLocks
  <2>4. TypeMove' /\ TypeSweep'
    BY <1>29 DEF Restart, TypeMove, TypeSweep
  <2> QED BY <2>1, <2>2, <2>3, <2>4
<1> QED
  BY <1>2, <1>3, <1>4, <1>5, <1>6, <1>7, <1>8, <1>9, <1>10, <1>11, <1>12, <1>13,
     <1>14, <1>15, <1>16, <1>17, <1>18, <1>19, <1>20, <1>21, <1>22, <1>23,
     <1>24, <1>25, <1>26, <1>27, <1>28, <1>29 DEF OpenRun, AfterOpen

\* Every variable has its type in every reachable state.
THEOREM TypeCorrect == Spec => []TypeOK
<1>1. Init => TypeOK
  BY TypeInit
<1>2. TypeOK /\ [Next]_vars => TypeOK'
  BY TypeStep
<1> QED
  BY <1>1, <1>2, PTL DEF Spec

----------------------------------------------------------------------------
(* The parts of SweepInv, one by one.                                      *)

\* What an untouched open(O_CREAT) leaves behind: the process gets its own file,
\* or one of a common name; nothing is deleted.
LEMMA OpenInLatestAdds ==
    ASSUME TypeOK, NEW p \in Procs, NEW k \in LateKinds \cup {Shared}, OpenInLatest(p, k)
    PROVE  /\ \A q \in Procs : \A e \in fds'[q] : Stemmed(e) =>
                e \in fds[q] \/ (q = p /\ e = <<p, k>>)
           /\ \A e \in Entries : at'[e] = "gone" => at[e] = "gone"
           /\ \A q \in Procs : \A e \in fds'[q] : at'[e] = "gone" => e \in fds[q]
<1>1. k # TagDir /\ <<p, k>> \in Entries
  <2>1. k \in Kinds
    BY DEF Kinds
  <2>2. k # TagDir
    BY ConstantsAssumption DEF ConstantsAssumption, LateKinds
  <2> QED
    BY <2>1, <2>2 DEF Entries
<1>2. ~CustomName => \A f \in InLatestAs(<<p, k>>) : Stemmed(f) => f = <<p, k>>
  BY <1>1 DEF InLatestAs, Name, Under, Entries, Stemmed
<1>3. \A f \in InLatestAs(<<p, k>>) : f \in Entries /\ at[f] = "latest"
  BY DEF InLatestAs, Under
<1>4. CASE InLatestAs(<<p, k>>) = {}
  BY <1>1, <1>4 DEF OpenInLatest, TypeOK, TypeFiles
<1>5. CASE InLatestAs(<<p, k>>) # {}
  BY <1>1, <1>2, <1>3, <1>5 DEF OpenInLatest, TypeOK, TypeFiles, Stemmed
<1> QED
  BY <1>4, <1>5

\* The file a process opens for a module bears the stem of its run unless the process is
\* a forked child that has not restarted.
LEMMA OpenModuleAdds ==
    ASSUME TypeOK, NEW p \in Procs, NEW m \in Modules, OpenModule(p, m)
    PROVE  /\ \A q \in Procs : \A e \in fds'[q] : Stemmed(e) =>
                e \in fds[q] \/ (q = p /\ e[1] = p /\ pc[p] = "run")
           /\ \A e \in Entries : at'[e] = "gone" => at[e] = "gone"
           /\ \A q \in Procs : \A e \in fds'[q] : at'[e] = "gone" => e \in fds[q]
           /\ \A e \in Entries : at'[e] # at[e] => Late(e) /\ at'[e] = "latest"
<1>1. Opened(p, m) \in LateKinds
  BY DEF Opened, LateKinds, Strays
<1>2. OpenInLatest(p, Opened(p, m))
  BY DEF OpenModule
<1>3. Stemmed(<<p, Opened(p, m)>>) => pc[p] = "run"
  BY DEF Stemmed, Opened, Strays
<1>4. \A e \in Entries : at'[e] # at[e] => Late(e) /\ at'[e] = "latest"
  BY <1>1, <1>2 DEF OpenInLatest, TypeOK, TypeFiles, Late
<1> QED
  BY <1>1, <1>2, <1>3, <1>4, OpenInLatestAdds

\* .slog.lock excludes: unless a signal breaks a wait, a process between the flock
\* and its release is the one that holds it.
LEMMA CriticalHoldsLockStep ==
    ASSUME ~Interrupts, TypeOK, CriticalHoldsLock, [Next]_vars
    PROVE  CriticalHoldsLock'
<1> USE DEF CriticalHoldsLock, TypeOK, TypeProcess, TypeLocks
<1>0. CASE UNCHANGED vars
  BY <1>0 DEF vars
<1>1. CASE Tick
  BY <1>1 DEF Tick
<1> SUFFICES ASSUME NEW p \in Procs, Start(p) \/ OpenRun(p) \/ AfterOpen(p) \/ Crash(p)
             PROVE CriticalHoldsLock'
  BY <1>0, <1>1 DEF Next
<1>2. CASE Start(p)
  BY <1>2 DEF Start, Goto, CriticalSteps
<1>3. CASE MakeDirs(p)
  BY <1>3 DEF MakeDirs, Goto, CriticalSteps
<1>4. CASE OpenRunLock(p)
  BY <1>4 DEF OpenRunLock, Goto, CriticalSteps
<1>5. CASE FlockRunLock(p)
  BY <1>5 DEF FlockRunLock, Goto, CriticalSteps
<1>6. CASE LockStruct(p)
  BY <1>6, ConstantsAssumption DEF LockStruct, Goto, CriticalSteps, ConstantsAssumption
<1>7. CASE ListLatest(p)
  BY <1>7 DEF ListLatest, Goto, CriticalSteps
<1>8. CASE PickDest(p)
  BY <1>8 DEF PickDest, Goto, CriticalSteps
<1>9. CASE Rename(p)
  BY <1>9 DEF Rename, Goto, CriticalSteps
<1>10. CASE MoveDone(p)
  BY <1>10 DEF MoveDone, Goto, CriticalSteps
<1>11. CASE MakeRunDir(p)
  BY <1>11 DEF MakeRunDir, Goto, CriticalSteps, GiveUp, DropStructLock
<1>12. CASE OpenRunDir(p)
  BY <1>12 DEF OpenRunDir, Goto, CriticalSteps, GiveUp, DropStructLock
<1>13. CASE FirstFile(p)
  BY <1>13 DEF FirstFile, Goto, CriticalSteps
<1>14. CASE ListLocks(p)
  BY <1>14 DEF ListLocks, Goto, CriticalSteps
<1>15. CASE ProbeBusy(p)
  BY <1>15 DEF ProbeBusy, Goto, CriticalSteps
<1>16. CASE ProbeFree(p)
  BY <1>16 DEF ProbeFree, Goto, CriticalSteps
<1>17. CASE ProbeRelease(p)
  BY <1>17 DEF ProbeRelease, Goto, CriticalSteps
<1>18. CASE ScanDone(p)
  BY <1>18 DEF ScanDone, Goto, CriticalSteps
<1>19. CASE SelectVictims(p)
  BY <1>19 DEF SelectVictims, Goto, CriticalSteps
<1>20. CASE NextVictim(p)
  BY <1>20 DEF NextVictim, Goto, CriticalSteps
<1>21. CASE ReapFile(p)
  BY <1>21 DEF ReapFile, Goto, CriticalSteps
<1>22. CASE UnlinkLock(p)
  BY <1>22 DEF UnlinkLock, Goto, CriticalSteps
<1>23. CASE ReapDone(p)
  BY <1>23 DEF ReapDone, Goto, CriticalSteps
<1>24. CASE UnlockStruct(p)
  BY <1>24 DEF UnlockStruct, Goto, CriticalSteps, DropStructLock
<1>25. ASSUME NEW m \in Modules, OpenModule(p, m) PROVE CriticalHoldsLock'
  BY <1>25 DEF OpenModule, Goto, CriticalSteps
<1>26. CASE Shutdown(p)
  BY <1>26 DEF Shutdown, Goto, CriticalSteps
<1>27. CASE Crash(p)
  BY <1>27 DEF Crash, Goto, CriticalSteps, DropStructLock
<1>28. ASSUME NEW c \in Procs, Fork(p, c) PROVE CriticalHoldsLock'
  BY <1>28 DEF Fork, CopiedLocks, Goto, CriticalSteps
<1>29. CASE Restart(p)
  BY <1>29 DEF Restart, Goto, CriticalSteps
<1> QED
  BY <1>2, <1>3, <1>4, <1>5, <1>6, <1>7, <1>8, <1>9, <1>10, <1>11, <1>12, <1>13,
     <1>14, <1>15, <1>16, <1>17, <1>18, <1>19, <1>20, <1>21, <1>22, <1>23,
     <1>24, <1>25, <1>26, <1>27, <1>28, <1>29 DEF OpenRun, AfterOpen

\* The flock of a run's own lock is taken in its step and kept until the run ends.
LEMMA RunLockDisciplineStep ==
    ASSUME TypeOK, RunLockDiscipline, [Next]_vars
    PROVE  RunLockDiscipline'
<1> USE DEF RunLockDiscipline, TypeOK, TypeProcess, TypeLocks
<1>0. CASE UNCHANGED vars
  BY <1>0 DEF vars, dirVars, lockVars, flockVars, sweepVars
<1>1. CASE Tick
  BY <1>1 DEF Tick, dirVars, lockVars, flockVars, sweepVars
<1> SUFFICES ASSUME NEW p \in Procs, Start(p) \/ OpenRun(p) \/ AfterOpen(p) \/ Crash(p)
             PROVE RunLockDiscipline'
  BY <1>0, <1>1 DEF Next
<1>2. CASE Start(p)
  BY <1>2 DEF Start, Goto, CriticalSteps, flockVars
<1>3. CASE MakeDirs(p)
  BY <1>3 DEF MakeDirs, Goto, CriticalSteps, flockVars
<1>4. CASE OpenRunLock(p)
  BY <1>4 DEF OpenRunLock, Goto, CriticalSteps, flockVars
<1>5. CASE FlockRunLock(p)
  BY <1>5 DEF FlockRunLock, Goto, CriticalSteps, flockVars
<1>6. CASE LockStruct(p)
  BY <1>6 DEF LockStruct, Goto, CriticalSteps, flockVars, DropRunLocks
<1>7. CASE ListLatest(p)
  BY <1>7 DEF ListLatest, Goto, CriticalSteps, flockVars
<1>8. CASE PickDest(p)
  BY <1>8 DEF PickDest, Goto, CriticalSteps, flockVars
<1>9. CASE Rename(p)
  BY <1>9 DEF Rename, Goto, CriticalSteps, flockVars
<1>10. CASE MoveDone(p)
  BY <1>10 DEF MoveDone, Goto, CriticalSteps, flockVars
<1>11. CASE MakeRunDir(p)
  BY <1>11 DEF MakeRunDir, Goto, CriticalSteps, flockVars, GiveUp, DropRunLocks
<1>12. CASE OpenRunDir(p)
  BY <1>12 DEF OpenRunDir, Goto, CriticalSteps, flockVars, GiveUp, DropRunLocks
<1>13. CASE FirstFile(p)
  BY <1>13 DEF FirstFile, Goto, CriticalSteps, flockVars
<1>14. CASE ListLocks(p)
  BY <1>14 DEF ListLocks, Goto, CriticalSteps, flockVars
<1>15. CASE ProbeBusy(p)
  BY <1>15 DEF ProbeBusy, Goto, CriticalSteps, flockVars
<1>16. CASE ProbeFree(p)
  BY <1>16 DEF ProbeFree, Goto, CriticalSteps, flockVars
<1>17. CASE ProbeRelease(p)
  BY <1>17 DEF ProbeRelease, Goto, CriticalSteps, flockVars
<1>18. CASE ScanDone(p)
  BY <1>18 DEF ScanDone, Goto, CriticalSteps, flockVars
<1>19. CASE SelectVictims(p)
  BY <1>19 DEF SelectVictims, Goto, CriticalSteps, flockVars
<1>20. CASE NextVictim(p)
  BY <1>20 DEF NextVictim, Goto, CriticalSteps, flockVars
<1>21. CASE ReapFile(p)
  BY <1>21 DEF ReapFile, Goto, CriticalSteps, flockVars
<1>22. CASE UnlinkLock(p)
  BY <1>22 DEF UnlinkLock, Goto, CriticalSteps, flockVars
<1>23. CASE ReapDone(p)
  BY <1>23 DEF ReapDone, Goto, CriticalSteps, flockVars
<1>24. CASE UnlockStruct(p)
  BY <1>24 DEF UnlockStruct, Goto, CriticalSteps, flockVars
<1>25. ASSUME NEW m \in Modules, OpenModule(p, m) PROVE RunLockDiscipline'
  BY <1>25 DEF OpenModule, Goto, CriticalSteps, flockVars
<1>26. CASE Shutdown(p)
  BY <1>26 DEF Shutdown, Goto, CriticalSteps, flockVars, DropRunLocks
<1>27. CASE Crash(p)
  BY <1>27 DEF Crash, Goto, CriticalSteps, flockVars, DropRunLocks
<1>28. ASSUME NEW c \in Procs, Fork(p, c) PROVE RunLockDiscipline'
  BY <1>28 DEF Fork, CopiedLocks, Goto, CriticalSteps, flockVars
<1>29. CASE Restart(p)
  BY <1>29 DEF Restart, Goto, CriticalSteps, flockVars, DropRunLocks
<1> QED
  BY <1>2, <1>3, <1>4, <1>5, <1>6, <1>7, <1>8, <1>9, <1>10, <1>11, <1>12, <1>13,
     <1>14, <1>15, <1>16, <1>17, <1>18, <1>19, <1>20, <1>21, <1>22, <1>23,
     <1>24, <1>25, <1>26, <1>27, <1>28, <1>29 DEF OpenRun, AfterOpen

\* The entries that bear the name of a tag are the directories of tagged runs.
LEMMA TagEntries ==
    ASSUME NEW p \in Procs
    PROVE  \A f \in InLatestAs(<<p, TagDir>>) :
                f \in Entries /\ at[f] = "latest" /\ ~Stemmed(f)
  BY ConstantsAssumption
  DEF InLatestAs, Under, Name, Stemmed, Entries, Kinds, ConstantsAssumption

\* Steps that open no file keep FilesNeedStructLock and NoFilesYet if they do not
\* go back to an early step.
LEMMA NoNewFile ==
    ASSUME TypeOK, FilesNeedStructLock, NoFilesYet,
           \A q \in Procs : fds'[q] \subseteq fds[q],
           \A q \in Procs : pc'[q] \in EarlySteps => pc[q] \in EarlySteps,
           \A q \in Procs : pc'[q] \in BeforeFirstFile =>
                pc[q] \in BeforeFirstFile \/ fds'[q] = {}
    PROVE  FilesNeedStructLock' /\ NoFilesYet'
  BY DEF FilesNeedStructLock, NoFilesYet, TypeOK, TypeFiles, Entries, Stemmed

\* A file appears when its process is past .slog.lock, and a process never returns
\* to an earlier step.
LEMMA FilesStep ==
    ASSUME TypeOK, FilesNeedStructLock, NoFilesYet, [Next]_vars
    PROVE  FilesNeedStructLock' /\ NoFilesYet'
<1> USE NoNewFile DEF TypeOK, TypeProcess, TypeFiles, EarlySteps, BeforeFirstFile, StartSteps
<1>0. CASE UNCHANGED vars
  BY <1>0 DEF vars
<1>1. CASE Tick
  BY <1>1 DEF Tick
<1> SUFFICES ASSUME NEW p \in Procs, Start(p) \/ OpenRun(p) \/ AfterOpen(p) \/ Crash(p)
             PROVE FilesNeedStructLock' /\ NoFilesYet'
  BY <1>0, <1>1 DEF Next
<1>2. CASE Start(p)
  BY <1>2 DEF Start, Goto
<1>3. CASE MakeDirs(p)
  BY <1>3 DEF MakeDirs, Goto
<1>4. CASE OpenRunLock(p)
  BY <1>4 DEF OpenRunLock, Goto
<1>5. CASE FlockRunLock(p)
  BY <1>5 DEF FlockRunLock, Goto
<1>6. CASE LockStruct(p)
  BY <1>6 DEF LockStruct, Goto
<1>7. CASE ListLatest(p)
  BY <1>7 DEF ListLatest, Goto
<1>8. CASE PickDest(p)
  BY <1>8 DEF PickDest, Goto
<1>9. CASE Rename(p)
  BY <1>9 DEF Rename, Goto
<1>10. CASE MoveDone(p)
  BY <1>10 DEF MoveDone, Goto
<1>11. CASE MakeRunDir(p)
  BY <1>11 DEF MakeRunDir, Goto, GiveUp
<1>12. CASE OpenRunDir(p)
  <2>1. \A f \in InLatestAs(<<p, TagDir>>) : f \in Entries /\ ~Stemmed(f)
    BY TagEntries
  <2>2. CASE fds' = fds
    BY <1>12, <2>2 DEF OpenRunDir, Goto, GiveUp
  <2>3. CASE fds' = [fds EXCEPT ![p] = @ \cup InLatestAs(<<p, TagDir>>)]
    <3>1. \A q \in Procs : \A e \in fds'[q] : Stemmed(e) => e \in fds[q]
      BY <2>1, <2>3
    <3>2. /\ pc[p] = "opendir"
          /\ \E s \in {"first", "failed"} : pc' = [pc EXCEPT ![p] = s]
      BY <1>12 DEF OpenRunDir, Goto, GiveUp
    <3>3. \A q \in Procs : \A e \in fds[q] : e[1] \in Procs
      BY DEF Entries
    <3>4. FilesNeedStructLock'
      BY <3>1, <3>2, <3>3 DEF FilesNeedStructLock, Stemmed
    <3>5. NoFilesYet'
      BY <3>1, <3>2 DEF NoFilesYet, Stemmed
    <3> QED BY <3>4, <3>5
  <2> QED
    BY <1>12, <2>2, <2>3 DEF OpenRunDir
<1>13. CASE FirstFile(p)
  BY <1>13, OpenInLatestAdds DEF FirstFile, Goto, Entries, Kinds, FilesNeedStructLock, NoFilesYet
<1>14. CASE ListLocks(p)
  BY <1>14 DEF ListLocks, Goto
<1>15. CASE ProbeBusy(p)
  BY <1>15 DEF ProbeBusy, Goto
<1>16. CASE ProbeFree(p)
  BY <1>16 DEF ProbeFree, Goto
<1>17. CASE ProbeRelease(p)
  BY <1>17 DEF ProbeRelease, Goto
<1>18. CASE ScanDone(p)
  BY <1>18 DEF ScanDone, Goto
<1>19. CASE SelectVictims(p)
  BY <1>19 DEF SelectVictims, Goto
<1>20. CASE NextVictim(p)
  BY <1>20 DEF NextVictim, Goto
<1>21. CASE ReapFile(p)
  BY <1>21 DEF ReapFile, Goto
<1>22. CASE UnlinkLock(p)
  BY <1>22 DEF UnlinkLock, Goto
<1>23. CASE ReapDone(p)
  BY <1>23 DEF ReapDone, Goto
<1>24. CASE UnlockStruct(p)
  BY <1>24 DEF UnlockStruct, Goto
<1>25. ASSUME NEW m \in Modules, OpenModule(p, m) PROVE (FilesNeedStructLock /\ NoFilesYet)'
  <2>1. UNCHANGED pc /\ pc[p] \in {"run", "child"}
    BY <1>25 DEF OpenModule
  <2>2. \A q \in Procs : \A e \in fds'[q] : Stemmed(e) =>
            e \in fds[q] \/ (q = p /\ e[1] = p /\ pc[p] = "run")
    BY <1>25, OpenModuleAdds
  <2>3. FilesNeedStructLock'
    BY <2>1, <2>2 DEF FilesNeedStructLock, Stemmed
  <2>4. NoFilesYet'
    BY <2>1, <2>2 DEF NoFilesYet, Stemmed
  <2> QED BY <2>3, <2>4
<1>26. CASE Shutdown(p)
  BY <1>26 DEF Shutdown, Goto
<1>27. CASE Crash(p)
  BY <1>27 DEF Crash, Goto, CriticalSteps
<1>28. ASSUME NEW c \in Procs, Fork(p, c) PROVE (FilesNeedStructLock /\ NoFilesYet)'
  BY <1>28 DEF Fork, CopiedLocks, Goto, FilesNeedStructLock, NoFilesYet
<1>29. CASE Restart(p)
  BY <1>29 DEF Restart, Goto
<1> QED
  BY <1>2, <1>3, <1>4, <1>5, <1>6, <1>7, <1>8, <1>9, <1>10, <1>11, <1>12, <1>13,
     <1>14, <1>15, <1>16, <1>17, <1>18, <1>19, <1>20, <1>21, <1>22, <1>23,
     <1>24, <1>25, <1>26, <1>27, <1>28, <1>29 DEF OpenRun, AfterOpen

\* The steps that neither open nor close a file or a run lock.
QuietStep(p) ==
    \/ Start(p) \/ MakeDirs(p) \/ OpenRunLock(p) \/ ListLatest(p) \/ PickDest(p)
    \/ Rename(p) \/ MoveDone(p) \/ ListLocks(p) \/ ProbeBusy(p) \/ ProbeFree(p)
    \/ ProbeRelease(p) \/ ScanDone(p) \/ SelectVictims(p) \/ NextVictim(p)
    \/ ReapFile(p) \/ UnlinkLock(p) \/ ReapDone(p) \/ UnlockStruct(p)

LEMMA Quiet ==
    ASSUME TypeOK, NEW p \in Procs, QuietStep(p)
    PROVE  /\ UNCHANGED <<fds, holders, lockOk>>
           /\ pc[p] \notin {"struct"} \cup EndSteps
           /\ \A q \in Procs : q # p => pc'[q] = pc[q]
<1> USE DEF TypeOK, TypeProcess, flockVars, EndSteps
<1>1. CASE Start(p)
  BY <1>1 DEF Start, Goto
<1>2. CASE MakeDirs(p)
  BY <1>2 DEF MakeDirs, Goto
<1>3. CASE OpenRunLock(p)
  BY <1>3 DEF OpenRunLock, Goto
<1>4. CASE ListLatest(p)
  BY <1>4 DEF ListLatest, Goto
<1>5. CASE PickDest(p)
  BY <1>5 DEF PickDest, Goto
<1>6. CASE Rename(p)
  BY <1>6 DEF Rename, Goto
<1>7. CASE MoveDone(p)
  BY <1>7 DEF MoveDone, Goto
<1>8. CASE ListLocks(p)
  BY <1>8 DEF ListLocks, Goto
<1>9. CASE ProbeBusy(p)
  BY <1>9 DEF ProbeBusy, Goto
<1>10. CASE ProbeFree(p)
  BY <1>10 DEF ProbeFree, Goto
<1>11. CASE ProbeRelease(p)
  BY <1>11 DEF ProbeRelease, Goto
<1>12. CASE ScanDone(p)
  BY <1>12 DEF ScanDone, Goto
<1>13. CASE SelectVictims(p)
  BY <1>13 DEF SelectVictims, Goto
<1>14. CASE NextVictim(p)
  BY <1>14 DEF NextVictim, Goto
<1>15. CASE ReapFile(p)
  BY <1>15 DEF ReapFile, Goto
<1>16. CASE UnlinkLock(p)
  BY <1>16 DEF UnlinkLock, Goto
<1>17. CASE ReapDone(p)
  BY <1>17 DEF ReapDone, Goto
<1>18. CASE UnlockStruct(p)
  BY <1>18 DEF UnlockStruct, Goto
<1> QED
  BY <1>1, <1>2, <1>3, <1>4, <1>5, <1>6, <1>7, <1>8, <1>9, <1>10, <1>11, <1>12,
     <1>13, <1>14, <1>15, <1>16, <1>17, <1>18 DEF QuietStep

\* Steps that open no file and close no run lock but with all files of its owner.
LEMMA KeepsHolders ==
    ASSUME TypeOK, OpenersHoldLock,
           \A q \in Procs : fds'[q] \subseteq fds[q],
           \A r \in Procs : lockOk'[r] => lockOk[r],
           \A q, r \in Procs : q \in holders[r] =>
                q \in holders'[r] \/ \A e \in fds'[q] : ~Stemmed(e)
    PROVE  OpenersHoldLock'
  BY DEF OpenersHoldLock, TypeOK, TypeFiles, Entries, Stemmed

\* A file of a locked run is opened by the holder of its lock, and copied with it.
LEMMA OpenersHoldLockStep ==
    ASSUME TypeOK, RunLockDiscipline, FilesNeedStructLock, NoFilesYet,
           OpenersHoldLock, [Next]_vars
    PROVE  OpenersHoldLock'
<1> USE DEF TypeOK, TypeProcess, TypeFiles, TypeLocks, Entries, flockVars, DropRunLocks
<1>1. CASE UNCHANGED vars
  BY <1>1, KeepsHolders DEF vars
<1>2. CASE Tick
  BY <1>2, KeepsHolders DEF Tick
<1> SUFFICES ASSUME NEW p \in Procs, Start(p) \/ OpenRun(p) \/ AfterOpen(p) \/ Crash(p)
             PROVE OpenersHoldLock'
  BY <1>1, <1>2 DEF Next
<1>3. CASE QuietStep(p)
  BY <1>3, Quiet, KeepsHolders
<1>4. CASE FlockRunLock(p)
  <2>1. CASE UNCHANGED flockVars
    BY <1>4, <2>1, KeepsHolders DEF FlockRunLock
  <2>2. CASE /\ holders' = [holders EXCEPT ![p] = @ \cup {p}]
             /\ lockOk' = [lockOk EXCEPT ![p] = TRUE]
    <3>1. \A q \in Procs : \A e \in fds[q] : Stemmed(e) => e[1] # p
      BY <1>4 DEF FlockRunLock, FilesNeedStructLock, EarlySteps, StartSteps
    <3> QED BY <1>4, <2>2, <3>1 DEF FlockRunLock, OpenersHoldLock, Stemmed
  <2> QED BY <1>4, <2>1, <2>2 DEF FlockRunLock
<1>5. CASE LockStruct(p)
  <2>1. \A e \in fds[p] : ~Stemmed(e)
    BY <1>5 DEF LockStruct, NoFilesYet, BeforeFirstFile, StartSteps
  <2> QED BY <1>5, <2>1, KeepsHolders DEF LockStruct
<1>6. CASE MakeRunDir(p)
  <2>1. \A e \in fds[p] : ~Stemmed(e)
    BY <1>6 DEF MakeRunDir, NoFilesYet, BeforeFirstFile
  <2> QED BY <1>6, <2>1, KeepsHolders DEF MakeRunDir, GiveUp
<1>7. CASE OpenRunDir(p)
  <2>1. \A e \in fds[p] : ~Stemmed(e)
    BY <1>7 DEF OpenRunDir, NoFilesYet, BeforeFirstFile
  <2>2. CASE fds' = fds
    BY <1>7, <2>1, <2>2, KeepsHolders DEF OpenRunDir, GiveUp
  <2>3. CASE /\ fds' = [fds EXCEPT ![p] = @ \cup InLatestAs(<<p, TagDir>>)]
             /\ UNCHANGED holders
    BY <1>7, <2>3, TagEntries DEF OpenRunDir, OpenersHoldLock, Stemmed
  <2> QED BY <1>7, <2>2, <2>3 DEF OpenRunDir
<1>8. CASE FirstFile(p)
  <2>1. CASE UNCHANGED fds
    BY <1>8, <2>1, KeepsHolders DEF FirstFile
  <2>2. CASE OpenInLatest(p, Shared)
    <3>1. lockOk[p] => p \in holders[p]
      BY <1>8 DEF FirstFile, RunLockDiscipline, CriticalSteps
    <3> QED
      BY <1>8, <2>2, <3>1, OpenInLatestAdds DEF FirstFile, OpenersHoldLock, Stemmed
  <2> QED BY <1>8, <2>1, <2>2 DEF FirstFile
<1>9. ASSUME NEW m \in Modules, OpenModule(p, m) PROVE OpenersHoldLock'
  <2>1. lockOk[p] /\ pc[p] = "run" => p \in holders[p]
    BY DEF RunLockDiscipline
  <2>2. UNCHANGED <<holders, lockOk>>
    BY <1>9 DEF OpenModule
  <2>3. \A q \in Procs : \A e \in fds'[q] : Stemmed(e) =>
            e \in fds[q] \/ (q = p /\ e[1] = p /\ pc[p] = "run")
    BY <1>9, OpenModuleAdds
  <2> QED
    BY <2>1, <2>2, <2>3 DEF OpenersHoldLock, Stemmed
<1>10. CASE Shutdown(p)
  BY <1>10, KeepsHolders DEF Shutdown
<1>11. CASE Crash(p)
  BY <1>11, KeepsHolders DEF Crash
<1>12. ASSUME NEW c \in Procs, Fork(p, c) PROVE OpenersHoldLock'
  BY <1>12 DEF Fork, CopiedLocks, OpenersHoldLock, Stemmed
<1>13. CASE Restart(p)
  BY <1>13, KeepsHolders DEF Restart
<1> QED
  BY <1>3, <1>4, <1>5, <1>6, <1>7, <1>8, <1>9, <1>10, <1>11, <1>12, <1>13
     DEF QuietStep, OpenRun, AfterOpen

\* A process keeps a list of dead runs during its sweep, and reaps only those.
LEMMA SweepScopeStep ==
    ASSUME TypeOK, SweepScope, [Next]_vars
    PROVE  SweepScope'
<1> USE DEF SweepScope, SweepSteps, TypeOK, TypeProcess, TypeSweep
<1>1. CASE UNCHANGED vars
  BY <1>1 DEF vars, sweepVars
<1>2. CASE Tick
  BY <1>2 DEF Tick, sweepVars
<1> SUFFICES ASSUME NEW p \in Procs, Start(p) \/ OpenRun(p) \/ AfterOpen(p) \/ Crash(p)
             PROVE SweepScope'
  BY <1>1, <1>2 DEF Next
<1>3. CASE Start(p)
  BY <1>3 DEF Start, Goto, sweepVars
<1>4. CASE MakeDirs(p)
  BY <1>4 DEF MakeDirs, Goto, sweepVars
<1>5. CASE OpenRunLock(p)
  BY <1>5 DEF OpenRunLock, Goto, sweepVars
<1>6. CASE FlockRunLock(p)
  BY <1>6 DEF FlockRunLock, Goto, sweepVars
<1>7. CASE LockStruct(p)
  BY <1>7 DEF LockStruct, Goto, sweepVars
<1>8. CASE ListLatest(p)
  BY <1>8 DEF ListLatest, Goto, sweepVars
<1>9. CASE PickDest(p)
  BY <1>9 DEF PickDest, Goto, sweepVars
<1>10. CASE Rename(p)
  BY <1>10 DEF Rename, Goto, sweepVars
<1>11. CASE MoveDone(p)
  BY <1>11 DEF MoveDone, Goto, sweepVars
<1>12. CASE MakeRunDir(p)
  BY <1>12 DEF MakeRunDir, Goto, GiveUp, sweepVars
<1>13. CASE OpenRunDir(p)
  BY <1>13 DEF OpenRunDir, Goto, GiveUp, sweepVars
<1>14. CASE FirstFile(p)
  BY <1>14 DEF FirstFile, Goto, sweepVars
<1>15. CASE ListLocks(p)
  BY <1>15 DEF ListLocks, Goto, sweepVars
<1>16. CASE ProbeBusy(p)
  BY <1>16 DEF ProbeBusy, Goto, sweepVars
<1>17. CASE ProbeFree(p)
  BY <1>17 DEF ProbeFree, Goto, sweepVars
<1>18. CASE ProbeRelease(p)
  BY <1>18 DEF ProbeRelease, Goto, sweepVars
<1>19. CASE ScanDone(p)
  BY <1>19 DEF ScanDone, Goto, sweepVars
<1>20. CASE SelectVictims(p)
  BY <1>20 DEF SelectVictims, Goto, sweepVars
<1>21. CASE NextVictim(p)
  <2>1. PICK r \in victims[p] :
            /\ victims' = [victims EXCEPT ![p] = @ \ {r}]
            /\ target' = [target EXCEPT ![p] = r]
            /\ \/ names' = [names EXCEPT ![p] = ReapableFiles(r)]
               \/ UNCHANGED names
    BY <1>21 DEF NextVictim
  <2>2. /\ pc[p] = "reap" /\ pc' = [pc EXCEPT ![p] = "reapfiles"] /\ dead' = dead
    BY <1>21 DEF NextVictim
  <2>3. r \in dead[p]
    BY <2>1
  <2>4. \A e \in ReapableFiles(r) : Stemmed(e) /\ e[1] \in dead[p]
    BY <2>3 DEF ReapableFiles
  <2>5. \A q \in Procs : \A e \in names'[q] : Stemmed(e) /\ e[1] \in dead'[q]
    BY <2>1, <2>2, <2>4
  <2>6. \A q \in Procs : victims'[q] \subseteq dead'[q]
    BY <2>1, <2>2
  <2> QED
    BY <2>1, <2>2, <2>3, <2>5, <2>6 DEF Stemmed
<1>22. CASE ReapFile(p)
  BY <1>22 DEF ReapFile, Goto, sweepVars
<1>23. CASE UnlinkLock(p)
  BY <1>23 DEF UnlinkLock, Goto, sweepVars
<1>24. CASE ReapDone(p)
  BY <1>24 DEF ReapDone, Goto, sweepVars
<1>25. CASE UnlockStruct(p)
  BY <1>25 DEF UnlockStruct, Goto, ForgetSweep
<1>26. ASSUME NEW m \in Modules, OpenModule(p, m) PROVE SweepScope'
  BY <1>26 DEF OpenModule, Goto, sweepVars
<1>27. CASE Shutdown(p)
  BY <1>27 DEF Shutdown, Goto, sweepVars
<1>28. CASE Crash(p)
  BY <1>28 DEF Crash, Goto, ForgetSweep
<1>29. ASSUME NEW c \in Procs, Fork(p, c) PROVE SweepScope'
  BY <1>29 DEF Fork, CopiedLocks, Goto, sweepVars
<1>30. CASE Restart(p)
  BY <1>30 DEF Restart, Goto, sweepVars
<1> QED
  BY <1>3, <1>4, <1>5, <1>6, <1>7, <1>8, <1>9, <1>10, <1>11, <1>12, <1>13,
     <1>14, <1>15, <1>16, <1>17, <1>18, <1>19, <1>20, <1>21, <1>22, <1>23,
     <1>24, <1>25, <1>26, <1>27, <1>28, <1>29, <1>30 DEF OpenRun, AfterOpen

\* Steps that open no file, lock no run and find no run dead, and leave runs that
\* wait for .slog.lock or are over where they are.
LEMMA DeadStayDead ==
    ASSUME TypeOK, DeadRunsHaveNoFiles,
           \A q \in Procs : \A e \in fds'[q] : Stemmed(e) =>
                \/ \E t \in Procs : e \in fds[t]
                \/ pc[e[1]] \notin {"struct"} \cup EndSteps,
           \A r \in Procs : lockOk'[r] => lockOk[r],
           \A q \in Procs : dead'[q] \subseteq dead[q],
           \A r \in Procs : lockOk[r] /\ pc[r] \in {"struct"} \cup EndSteps
                            /\ pc'[r] \notin {"struct"} \cup EndSteps
                            => \A q \in Procs : r \notin dead[q]
    PROVE  DeadRunsHaveNoFiles'
  BY DEF DeadRunsHaveNoFiles, TypeOK, TypeFiles, TypeSweep, Stemmed

\* A run that a sweep finds dead while its flock succeeded has ended; it cannot get
\* past .slog.lock before the sweep is over.
LEMMA DeadRunsHaveNoFilesStep ==
    ASSUME ~Interrupts, TypeOK, CriticalHoldsLock, RunLockDiscipline,
           FilesNeedStructLock, OpenersHoldLock, SweepScope, DeadRunsHaveNoFiles,
           [Next]_vars
    PROVE  DeadRunsHaveNoFiles'
<1> USE DEF TypeOK, TypeProcess, TypeFiles, TypeLocks, TypeSweep
<1>1. CASE UNCHANGED vars
  BY <1>1, DeadStayDead DEF vars, flockVars, sweepVars
<1>2. CASE Tick
  BY <1>2, DeadStayDead DEF Tick, flockVars, sweepVars
<1> SUFFICES ASSUME NEW p \in Procs, Start(p) \/ OpenRun(p) \/ AfterOpen(p) \/ Crash(p)
             PROVE DeadRunsHaveNoFiles'
  BY <1>1, <1>2 DEF Next
<1>3. CASE ProbeFree(p)
  <2>1. PICK r \in scan[p] : /\ ~Flocked(r)
                             /\ dead' = [dead EXCEPT ![p] = @ \cup {r}]
    BY <1>3 DEF ProbeFree
  <2>2. r \in Procs /\ holders[r] = {}
    BY <2>1 DEF Flocked
  <2>3. lockOk[r] => pc[r] \in EndSteps
    BY <2>2 DEF RunLockDiscipline, Steps, StartSteps, EndSteps
  <2>4. lockOk[r] => \A q \in Procs : \A e \in fds[q] : Stemmed(e) => e[1] # r
    BY <2>2 DEF OpenersHoldLock, Stemmed
  <2>5. /\ UNCHANGED <<fds, lockOk>>
        /\ pc[p] = "probe"
        /\ pc' = [pc EXCEPT ![p] = "probed"]
    BY <1>3 DEF ProbeFree, Goto, flockVars
  <2>6. \A q \in Procs : dead'[q] \subseteq dead[q] \cup {r}
    BY <2>1
  <2>7. \A s \in Procs : pc[s] \in {"struct"} \cup EndSteps => pc'[s] = pc[s]
    BY <2>5 DEF EndSteps
  <2> SUFFICES ASSUME NEW q \in Procs, NEW s \in dead'[q], lockOk'[s]
               PROVE  /\ pc'[s] \in {"struct"} \cup EndSteps
                      /\ \A t \in Procs : \A e \in fds'[t] : Stemmed(e) => e[1] # s
    BY DEF DeadRunsHaveNoFiles, Stemmed
  <2>8. CASE s \in dead[q]
    BY <2>5, <2>7, <2>8 DEF DeadRunsHaveNoFiles
  <2>9. CASE s = r
    BY <2>2, <2>3, <2>4, <2>5, <2>7, <2>9
  <2> QED
    BY <2>6, <2>8, <2>9
<1>4. CASE QuietStep(p) /\ ~ProbeFree(p)
  <2>1. \A q \in Procs : dead'[q] \subseteq dead[q]
    BY <1>4 DEF QuietStep, Start, MakeDirs, OpenRunLock, ListLatest, PickDest, Rename,
       MoveDone, ListLocks, ProbeBusy, ProbeRelease, ScanDone, SelectVictims,
       NextVictim, ReapFile, UnlinkLock, ReapDone, UnlockStruct, ForgetSweep, sweepVars
  <2> QED BY <1>4, <2>1, Quiet, DeadStayDead
<1>5. CASE FlockRunLock(p)
  <2>1. \A q \in Procs : \A e \in fds[q] : Stemmed(e) => e[1] # p
    BY <1>5 DEF FlockRunLock, FilesNeedStructLock, EarlySteps, StartSteps
  <2>2. /\ UNCHANGED <<fds, dead>>
        /\ pc[p] = "flock"
        /\ pc' = [pc EXCEPT ![p] = "struct"]
        /\ \A r \in Procs : r # p => lockOk'[r] = lockOk[r]
    BY <1>5 DEF FlockRunLock, Goto, flockVars, sweepVars
  <2> QED BY <2>1, <2>2 DEF DeadRunsHaveNoFiles, Stemmed
<1>6. CASE LockStruct(p)
  <2>1. CASE structLock = NoProc
    <3>1. \A q \in Procs : dead[q] = {}
      BY <2>1, ConstantsAssumption
      DEF CriticalHoldsLock, SweepScope, SweepSteps, CriticalSteps, ConstantsAssumption
    <3> QED BY <1>6, <3>1 DEF LockStruct, DeadRunsHaveNoFiles, sweepVars
  <2>2. CASE structLock # NoProc
    BY <1>6, <2>2, DeadStayDead DEF LockStruct, Goto, EndSteps, sweepVars
  <2> QED BY <2>1, <2>2
<1>7. CASE MakeRunDir(p)
  BY <1>7, DeadStayDead DEF MakeRunDir, GiveUp, Goto, EndSteps, sweepVars
<1>8. CASE OpenRunDir(p)
  <2>1. \A q \in Procs : \A e \in fds'[q] : Stemmed(e) => e \in fds[q]
    BY <1>8, TagEntries DEF OpenRunDir
  <2> QED BY <1>8, <2>1, DeadStayDead DEF OpenRunDir, GiveUp, Goto, EndSteps, sweepVars
<1>9. CASE FirstFile(p)
  <2>1. \A q \in Procs : \A e \in fds'[q] : Stemmed(e) => e \in fds[q] \/ e[1] = p
    BY <1>9, OpenInLatestAdds DEF FirstFile
  <2> QED
    BY <1>9, <2>1, DeadStayDead DEF FirstFile, Goto, EndSteps, flockVars, sweepVars
<1>10. ASSUME NEW m \in Modules, OpenModule(p, m) PROVE DeadRunsHaveNoFiles'
  <2>1. \A q \in Procs : \A e \in fds'[q] : Stemmed(e) =>
            e \in fds[q] \/ (e[1] = p /\ pc[p] = "run")
    BY <1>10, OpenModuleAdds
  <2> QED
    BY <1>10, <2>1, DeadStayDead DEF OpenModule, EndSteps, flockVars, sweepVars
<1>11. CASE Shutdown(p)
  BY <1>11, DeadStayDead DEF Shutdown, Goto, EndSteps, sweepVars
<1>12. CASE Crash(p)
  BY <1>12, DeadStayDead DEF Crash, Goto, EndSteps, ForgetSweep
<1>13. ASSUME NEW c \in Procs, Fork(p, c) PROVE DeadRunsHaveNoFiles'
  BY <1>13, DeadStayDead DEF Fork, CopiedLocks, Goto, EndSteps, sweepVars
<1>14. CASE Restart(p)
  BY <1>14, DeadStayDead DEF Restart, Goto, EndSteps, RunLockDiscipline, sweepVars
<1> QED
  BY <1>3, <1>4, <1>5, <1>6, <1>7, <1>8, <1>9, <1>10, <1>11, <1>12, <1>13, <1>14
     DEF QuietStep, OpenRun, AfterOpen

\* Steps that delete nothing.
LEMMA NothingDeleted ==
    ASSUME TypeOK, NEW p \in Procs,
           Start(p) \/ OpenRun(p) \/ AfterOpen(p) \/ Crash(p), ~ReapFile(p)
    PROVE  \A e \in Entries : at'[e] = "gone" => at[e] = "gone"
<1> USE DEF TypeOK, TypeFiles, dirVars
<1>1. CASE Rename(p)
  BY <1>1 DEF Rename
<1>2. CASE MakeRunDir(p)
  BY <1>2 DEF MakeRunDir
<1>3. CASE FirstFile(p)
  BY <1>3, OpenInLatestAdds DEF FirstFile
<1>4. ASSUME NEW m \in Modules, OpenModule(p, m)
      PROVE \A e \in Entries : at'[e] = "gone" => at[e] = "gone"
  BY <1>4, OpenModuleAdds
<1>5. CASE \/ Start(p) \/ MakeDirs(p) \/ OpenRunLock(p) \/ FlockRunLock(p)
           \/ LockStruct(p) \/ ListLatest(p) \/ PickDest(p) \/ MoveDone(p)
           \/ OpenRunDir(p) \/ ListLocks(p) \/ ProbeBusy(p) \/ ProbeFree(p)
           \/ ProbeRelease(p) \/ ScanDone(p)
  BY <1>5 DEF Start, MakeDirs, OpenRunLock, FlockRunLock, LockStruct, ListLatest,
     PickDest, MoveDone, OpenRunDir, ListLocks, ProbeBusy, ProbeFree, ProbeRelease,
     ScanDone
<1>6. CASE \/ SelectVictims(p) \/ NextVictim(p) \/ UnlinkLock(p) \/ ReapDone(p)
           \/ UnlockStruct(p) \/ Shutdown(p) \/ (\E c \in Procs : Fork(p, c))
           \/ Restart(p) \/ Crash(p)
  BY <1>6 DEF SelectVictims, NextVictim, UnlinkLock, ReapDone, UnlockStruct, Shutdown,
     Fork, Restart, Crash
<1> QED
  BY <1>1, <1>2, <1>3, <1>4, <1>5, <1>6 DEF OpenRun, AfterOpen

\* Retention deletes files by the stem of a run.
LEMMA OnlyStemmedGoneStep ==
    ASSUME TypeOK, SweepScope, OnlyStemmedGone, [Next]_vars
    PROVE  OnlyStemmedGone'
<1> USE DEF OnlyStemmedGone, Stemmed
<1>1. CASE UNCHANGED vars
  BY <1>1 DEF vars, dirVars
<1>2. CASE Tick
  BY <1>2 DEF Tick, dirVars
<1> SUFFICES ASSUME NEW p \in Procs, Start(p) \/ OpenRun(p) \/ AfterOpen(p) \/ Crash(p)
             PROVE OnlyStemmedGone'
  BY <1>1, <1>2 DEF Next
<1>3. CASE ReapFile(p)
  BY <1>3 DEF ReapFile, SweepScope, TypeOK, TypeFiles
<1>4. CASE ~ReapFile(p)
  BY <1>4, NothingDeleted
<1> QED BY <1>3, <1>4

\* The open files after a step that does not lock a run: those of before, and files
\* that are not deleted.
LEMMA OpenedFiles ==
    ASSUME TypeOK, NEW p \in Procs,
           Start(p) \/ OpenRun(p) \/ AfterOpen(p) \/ Crash(p)
    PROVE  \A q \in Procs : \A e \in fds'[q] :
                at'[e] = "gone" => \E t \in Procs : e \in fds[t]
<1> USE DEF TypeOK, TypeFiles, dirVars
<1>1. CASE QuietStep(p)
  BY <1>1, Quiet
<1>2. CASE FlockRunLock(p) \/ LockStruct(p) \/ MakeRunDir(p) \/ Shutdown(p) \/ Crash(p)
           \/ Restart(p)
  BY <1>2 DEF FlockRunLock, LockStruct, MakeRunDir, Shutdown, Crash, Restart
<1>3. CASE OpenRunDir(p)
  BY <1>3, TagEntries DEF OpenRunDir
<1>4. CASE FirstFile(p)
  BY <1>4, OpenInLatestAdds DEF FirstFile
<1>5. ASSUME NEW m \in Modules, OpenModule(p, m)
      PROVE \A q \in Procs : \A e \in fds'[q] :
                at'[e] = "gone" => \E t \in Procs : e \in fds[t]
  BY <1>5, OpenModuleAdds
<1>6. ASSUME NEW c \in Procs, Fork(p, c)
      PROVE \A q \in Procs : \A e \in fds'[q] :
                at'[e] = "gone" => \E t \in Procs : e \in fds[t]
  BY <1>6 DEF Fork, CopiedLocks
<1> QED
  BY <1>1, <1>2, <1>3, <1>4, <1>5, <1>6 DEF QuietStep, OpenRun, AfterOpen

\* A run's own flock is won only by its step, when nobody has a file of it.
LEMMA LockedLater ==
    ASSUME TypeOK, FilesNeedStructLock, NEW p \in Procs,
           Start(p) \/ OpenRun(p) \/ AfterOpen(p) \/ Crash(p)
    PROVE  \A q \in Procs : \A e \in fds[q] :
                Stemmed(e) /\ lockOk'[e[1]] => lockOk[e[1]]
<1> USE DEF TypeOK, TypeFiles, TypeLocks, Entries, flockVars
<1>1. CASE QuietStep(p)
  BY <1>1, Quiet
<1>2. CASE FlockRunLock(p)
  <2>1. \A q \in Procs : \A e \in fds[q] : Stemmed(e) => e[1] # p
    BY <1>2 DEF FlockRunLock, FilesNeedStructLock, EarlySteps, StartSteps
  <2>2. \A r \in Procs : r # p => lockOk'[r] = lockOk[r]
    BY <1>2 DEF FlockRunLock
  <2> QED BY <2>1, <2>2
<1>3. CASE \/ LockStruct(p) \/ MakeRunDir(p) \/ OpenRunDir(p) \/ FirstFile(p)
           \/ (\E m \in Modules : OpenModule(p, m)) \/ Shutdown(p) \/ Crash(p)
           \/ (\E c \in Procs : Fork(p, c)) \/ Restart(p)
  BY <1>3 DEF LockStruct, MakeRunDir, OpenRunDir, FirstFile, OpenModule, Shutdown,
     Crash, Fork, Restart
<1> QED
  BY <1>1, <1>2, <1>3 DEF QuietStep, OpenRun, AfterOpen

\* What retention deletes belongs to a run it found dead, and nobody has a file of
\* such a run open.
LEMMA LockedRunNeverReapedStep ==
    ASSUME TypeOK, FilesNeedStructLock, SweepScope, DeadRunsHaveNoFiles,
           OnlyStemmedGone, LockedRunNeverReaped, [Next]_vars
    PROVE  LockedRunNeverReaped'
<1> USE DEF LockedRunNeverReaped, TypeOK, TypeFiles
<1>1. CASE UNCHANGED vars
  BY <1>1 DEF vars, dirVars, flockVars
<1>2. CASE Tick
  BY <1>2 DEF Tick, dirVars, flockVars
<1> SUFFICES ASSUME NEW p \in Procs, Start(p) \/ OpenRun(p) \/ AfterOpen(p) \/ Crash(p)
             PROVE LockedRunNeverReaped'
  BY <1>1, <1>2 DEF Next
<1>3. CASE ReapFile(p)
  <2>1. PICK e \in names[p] : \A f \in Entries : f # e => at'[f] = at[f]
    BY <1>3 DEF ReapFile
  <2>2. Stemmed(e) /\ e[1] \in dead[p]
    BY <2>1 DEF SweepScope
  <2>4. lockOk[e[1]] => \A q \in Procs : e \notin fds[q]
    BY <2>2 DEF DeadRunsHaveNoFiles
  <2>5. UNCHANGED <<fds, lockOk>>
    BY <1>3 DEF ReapFile, flockVars
  <2> QED BY <2>1, <2>2, <2>4, <2>5
<1>4. CASE ~ReapFile(p)
  <2> SUFFICES ASSUME NEW q \in Procs, NEW e \in fds'[q], lockOk'[e[1]], at'[e] = "gone"
               PROVE FALSE
    OBVIOUS
  <2>1. PICK t \in Procs : e \in fds[t]
    BY OpenedFiles
  <2>2. at[e] = "gone" /\ Stemmed(e)
    BY <1>4, <2>1, NothingDeleted DEF OnlyStemmedGone
  <2>3. lockOk[e[1]]
    BY <2>1, <2>2, LockedLater
  <2> QED BY <2>1, <2>2, <2>3
<1> QED BY <1>3, <1>4

----------------------------------------------------------------------------
LEMMA SweepInvInit == Init => SweepInv
  BY DEF Init, SweepInv, CriticalHoldsLock, RunLockDiscipline, FilesNeedStructLock,
     NoFilesYet, OpenersHoldLock, SweepScope, DeadRunsHaveNoFiles, OnlyStemmedGone,
     LockedRunNeverReaped, CriticalSteps

LEMMA SweepInvStep ==
    ASSUME ~Interrupts, TypeOK, SweepInv, [Next]_vars
    PROVE  SweepInv'
<1> USE DEF SweepInv
<1>1. CriticalHoldsLock'
  BY CriticalHoldsLockStep
<1>2. RunLockDiscipline'
  BY RunLockDisciplineStep
<1>3. FilesNeedStructLock' /\ NoFilesYet'
  BY FilesStep
<1>4. OpenersHoldLock'
  BY OpenersHoldLockStep
<1>5. SweepScope'
  BY SweepScopeStep
<1>6. DeadRunsHaveNoFiles'
  BY DeadRunsHaveNoFilesStep
<1>7. OnlyStemmedGone'
  BY OnlyStemmedGoneStep
<1>8. LockedRunNeverReaped'
  BY LockedRunNeverReapedStep
<1> QED
  BY <1>1, <1>2, <1>3, <1>4, <1>5, <1>6, <1>7, <1>8

\* If no flock is interrupted, the parts of SweepInv hold together in every state of
\* open_run and of the later life of a run.
THEOREM SweepCorrect ==
    ASSUME ~Interrupts
    PROVE  Spec => []SweepInv
<1>1. TypeOK /\ SweepInv /\ [Next]_vars => SweepInv'
  BY SweepInvStep
<1> QED
  BY <1>1, TypeCorrect, SweepInvInit, PTL DEF Spec

\* If no flock is interrupted, two processes are never both between the flock on
\* .slog.lock and its release: no two processes move or reap files at once.
THEOREM OneOpener ==
    ASSUME ~Interrupts
    PROVE  Spec => []StructureExclusive
<1>1. SweepInv => StructureExclusive
  BY DEF SweepInv, CriticalHoldsLock, StructureExclusive
<1> QED
  BY <1>1, SweepCorrect, PTL

\* If no flock is interrupted, retention never deletes a file that a process has
\* open when the flock of the run it belongs to succeeded.
THEOREM LiveRunsSurvive ==
    ASSUME ~Interrupts
    PROVE  Spec => []LockedRunNeverReaped
<1>1. SweepInv => LockedRunNeverReaped
  BY DEF SweepInv
<1> QED
  BY <1>1, SweepCorrect, PTL

----------------------------------------------------------------------------
(* What no signal disturbs: who has which lock when open_run gives up.     *)

\* .slog.lock is held inside the critical part only, and before the flock of its own
\* lock and after its end a process has no descriptor of a run's lock.
NotHolding == {"off", "begin", "runlock", "flock"} \cup EndSteps
LocksAreReleased ==
    \A p \in Procs :
        /\ structLock = p => pc[p] \in CriticalSteps
        /\ pc[p] \in NotHolding => \A r \in Procs : p \notin holders[r]

LEMMA LocksAreReleasedStep ==
    ASSUME TypeOK, LocksAreReleased, [Next]_vars
    PROVE  LocksAreReleased'
<1> USE ConstantsAssumption
    DEF LocksAreReleased, TypeOK, TypeProcess, TypeLocks, NotHolding, CriticalSteps,
        EndSteps, flockVars, ConstantsAssumption
<1>0. CASE UNCHANGED vars
  BY <1>0 DEF vars
<1>1. CASE Tick
  BY <1>1 DEF Tick
<1> SUFFICES ASSUME NEW p \in Procs, Start(p) \/ OpenRun(p) \/ AfterOpen(p) \/ Crash(p)
             PROVE LocksAreReleased'
  BY <1>0, <1>1 DEF Next
<1>2. CASE Start(p)
  BY <1>2 DEF Start
<1>3. CASE MakeDirs(p)
  BY <1>3 DEF MakeDirs
<1>4. CASE OpenRunLock(p)
  BY <1>4 DEF OpenRunLock
<1>5. CASE FlockRunLock(p)
  BY <1>5 DEF FlockRunLock
<1>6. CASE LockStruct(p)
  BY <1>6 DEF LockStruct, DropRunLocks
<1>7. CASE ListLatest(p)
  BY <1>7 DEF ListLatest
<1>8. CASE PickDest(p)
  BY <1>8 DEF PickDest
<1>9. CASE Rename(p)
  BY <1>9 DEF Rename
<1>10. CASE MoveDone(p)
  BY <1>10 DEF MoveDone
<1>11. CASE MakeRunDir(p)
  BY <1>11 DEF MakeRunDir, GiveUp, DropStructLock, DropRunLocks
<1>12. CASE OpenRunDir(p)
  BY <1>12 DEF OpenRunDir, GiveUp, DropStructLock, DropRunLocks
<1>13. CASE FirstFile(p)
  BY <1>13 DEF FirstFile
<1>14. CASE ListLocks(p)
  BY <1>14 DEF ListLocks
<1>15. CASE ProbeBusy(p)
  BY <1>15 DEF ProbeBusy
<1>16. CASE ProbeFree(p)
  BY <1>16 DEF ProbeFree
<1>17. CASE ProbeRelease(p)
  BY <1>17 DEF ProbeRelease
<1>18. CASE ScanDone(p)
  BY <1>18 DEF ScanDone
<1>19. CASE SelectVictims(p)
  BY <1>19 DEF SelectVictims
<1>20. CASE NextVictim(p)
  BY <1>20 DEF NextVictim
<1>21. CASE ReapFile(p)
  BY <1>21 DEF ReapFile
<1>22. CASE UnlinkLock(p)
  BY <1>22 DEF UnlinkLock
<1>23. CASE ReapDone(p)
  BY <1>23 DEF ReapDone
<1>24. CASE UnlockStruct(p)
  BY <1>24 DEF UnlockStruct, DropStructLock
<1>25. CASE Shutdown(p)
  BY <1>25 DEF Shutdown, DropRunLocks
<1>26. CASE Crash(p)
  BY <1>26 DEF Crash, DropStructLock, DropRunLocks
<1>27. CASE Restart(p)
  BY <1>27 DEF Restart, DropRunLocks
<1>28. ASSUME NEW m \in Modules, OpenModule(p, m) PROVE LocksAreReleased'
  BY <1>28 DEF OpenModule
<1>29. ASSUME NEW c \in Procs, Fork(p, c) PROVE LocksAreReleased'
  BY <1>29 DEF Fork, CopiedLocks
<1> QED
  BY <1>2, <1>3, <1>4, <1>5, <1>6, <1>7, <1>8, <1>9, <1>10, <1>11, <1>12, <1>13,
     <1>14, <1>15, <1>16, <1>17, <1>18, <1>19, <1>20, <1>21, <1>22, <1>23, <1>24,
     <1>25, <1>26, <1>27, <1>28, <1>29 DEF OpenRun, AfterOpen

\* Whatever fails, whoever dies and whichever wait a signal ends: open_run gives up,
\* and a run or a process ends, with no lock left behind, .slog.lock or a run's.
THEOREM FailuresHoldNothing == Spec => []FailureHoldsNothing
<1>1. Init => LocksAreReleased
  BY ConstantsAssumption
     DEF Init, LocksAreReleased, NotHolding, CriticalSteps, ConstantsAssumption
<1>2. TypeOK /\ LocksAreReleased /\ [Next]_vars => LocksAreReleased'
  BY LocksAreReleasedStep
<1>3. LocksAreReleased => FailureHoldsNothing
  BY DEF LocksAreReleased, FailureHoldsNothing, NotHolding, CriticalSteps, EndSteps
<1> QED
  BY <1>1, <1>2, <1>3, TypeCorrect, PTL DEF Spec

----------------------------------------------------------------------------
(* No moved file replaces another one.                                     *)

\* Nothing was replaced, and the name chosen for the rename under way is still free.
DestIsFree ==
    \A p \in Procs : pc[p] = "rename" => ~Taken(dest[p][1], dest[p][2])
ReplaceInv == NothingReplaced /\ DestIsFree

\* Only a rename moves an entry out or gives it a suffix.
LEMMA OnlyRenameMoves ==
    ASSUME TypeOK, NEW p \in Procs,
           Start(p) \/ OpenRun(p) \/ AfterOpen(p) \/ Crash(p), ~Rename(p)
    PROVE  /\ \A e \in Entries : at'[e] \in {"old", "lost"} => at'[e] = at[e]
           /\ suffix' = suffix
<1> USE DEF TypeOK, TypeFiles, dirVars
<1>1. CASE MakeRunDir(p)
  BY <1>1 DEF MakeRunDir
<1>2. CASE FirstFile(p)
  BY <1>2 DEF FirstFile, OpenInLatest
<1>3. CASE ReapFile(p)
  BY <1>3 DEF ReapFile
<1>4. ASSUME NEW m \in Modules, OpenModule(p, m)
      PROVE  /\ \A e \in Entries : at'[e] \in {"old", "lost"} => at'[e] = at[e]
             /\ suffix' = suffix
  BY <1>4 DEF OpenModule, OpenInLatest
<1>5. CASE \/ Start(p) \/ MakeDirs(p) \/ OpenRunLock(p) \/ FlockRunLock(p)
           \/ LockStruct(p) \/ ListLatest(p) \/ PickDest(p) \/ MoveDone(p)
           \/ OpenRunDir(p) \/ ListLocks(p) \/ ProbeBusy(p) \/ ProbeFree(p)
           \/ ProbeRelease(p) \/ ScanDone(p)
  BY <1>5 DEF Start, MakeDirs, OpenRunLock, FlockRunLock, LockStruct, ListLatest,
     PickDest, MoveDone, OpenRunDir, ListLocks, ProbeBusy, ProbeFree, ProbeRelease,
     ScanDone
<1>6. CASE \/ SelectVictims(p) \/ NextVictim(p) \/ UnlinkLock(p) \/ ReapDone(p)
           \/ UnlockStruct(p) \/ Shutdown(p) \/ (\E c \in Procs : Fork(p, c))
           \/ Restart(p) \/ Crash(p)
  BY <1>6 DEF SelectVictims, NextVictim, UnlinkLock, ReapDone, UnlockStruct, Shutdown,
     Fork, Restart, Crash
<1> QED
  BY <1>1, <1>2, <1>3, <1>4, <1>5, <1>6 DEF OpenRun, AfterOpen

\* A step into "rename" is PickDest, and no other one touches the choice of a process
\* that is in it.
LEMMA OnlyPickDestChooses ==
    ASSUME TypeOK, NEW p \in Procs,
           Start(p) \/ OpenRun(p) \/ AfterOpen(p) \/ Crash(p), ~PickDest(p)
    PROVE  \A q \in Procs : pc'[q] = "rename" =>
                pc[q] = "rename" /\ dest'[q] = dest[q]
<1> DEFINE Kept == \A q \in Procs : pc'[q] = "rename" =>
                        pc[q] = "rename" /\ dest'[q] = dest[q]
<1> USE DEF TypeOK, TypeProcess, TypeMove
<1>1. CASE Start(p)
  BY <1>1 DEF Start
<1>2. CASE MakeDirs(p)
  BY <1>2 DEF MakeDirs
<1>3. CASE OpenRunLock(p)
  BY <1>3 DEF OpenRunLock
<1>4. CASE FlockRunLock(p)
  BY <1>4 DEF FlockRunLock
<1>5. CASE LockStruct(p)
  BY <1>5 DEF LockStruct
<1>6. CASE ListLatest(p)
  BY <1>6 DEF ListLatest
<1>7. CASE Rename(p)
  BY <1>7 DEF Rename
<1>8. CASE MoveDone(p)
  BY <1>8 DEF MoveDone
<1>9. CASE MakeRunDir(p)
  BY <1>9 DEF MakeRunDir, GiveUp
<1>10. CASE OpenRunDir(p)
  BY <1>10 DEF OpenRunDir, GiveUp
<1>11. CASE FirstFile(p)
  BY <1>11 DEF FirstFile
<1>12. CASE ListLocks(p)
  BY <1>12 DEF ListLocks
<1>13. CASE ProbeBusy(p)
  BY <1>13 DEF ProbeBusy
<1>14. CASE ProbeFree(p)
  BY <1>14 DEF ProbeFree
<1>15. CASE ProbeRelease(p)
  BY <1>15 DEF ProbeRelease
<1>16. CASE ScanDone(p)
  BY <1>16 DEF ScanDone
<1>17. CASE SelectVictims(p)
  BY <1>17 DEF SelectVictims
<1>18. CASE NextVictim(p)
  BY <1>18 DEF NextVictim
<1>19. CASE ReapFile(p)
  BY <1>19 DEF ReapFile
<1>20. CASE UnlinkLock(p)
  BY <1>20 DEF UnlinkLock
<1>21. CASE ReapDone(p)
  BY <1>21 DEF ReapDone
<1>22. CASE UnlockStruct(p)
  BY <1>22 DEF UnlockStruct
<1>23. CASE Shutdown(p)
  BY <1>23 DEF Shutdown
<1>24. CASE Crash(p)
  BY <1>24 DEF Crash
<1>25. CASE Restart(p)
  BY <1>25 DEF Restart
<1>26. ASSUME NEW m \in Modules, OpenModule(p, m) PROVE Kept
  BY <1>26 DEF OpenModule
<1>27. ASSUME NEW c \in Procs, Fork(p, c) PROVE Kept
  BY <1>27 DEF Fork
<1> QED
  BY <1>1, <1>2, <1>3, <1>4, <1>5, <1>6, <1>7, <1>8, <1>9, <1>10, <1>11, <1>12,
     <1>13, <1>14, <1>15, <1>16, <1>17, <1>18, <1>19, <1>20, <1>21, <1>22, <1>23,
     <1>24, <1>25, <1>26, <1>27 DEF OpenRun, AfterOpen

LEMMA ReplaceInvStep ==
    ASSUME TypeOK, CriticalHoldsLock, ReplaceInv, [Next]_vars
    PROVE  ReplaceInv'
<1> USE DEF ReplaceInv, NothingReplaced, DestIsFree, Under
<1>1. CASE UNCHANGED vars
  BY <1>1 DEF vars, dirVars, Taken
<1>2. CASE Tick
  BY <1>2 DEF Tick, dirVars, Taken
<1> SUFFICES ASSUME NEW p \in Procs, Start(p) \/ OpenRun(p) \/ AfterOpen(p) \/ Crash(p)
             PROVE ReplaceInv'
  BY <1>1, <1>2 DEF Next
<1>3. CASE Rename(p)
  <2>1. NothingReplaced'
    <3> DEFINE e    == dest[p][1]
               k    == dest[p][2]
               over == {f \in Under("old") : Name(f) = Name(e) /\ suffix[f] = k}
    <3>1. over = {}
      BY <1>3 DEF Rename, Taken
    <3>2. \A f \in Entries : at'[f] = "lost" => at[f] = "lost"
      BY <1>3, <3>1 DEF Rename, TypeOK, TypeFiles, dirVars
    <3> QED
      BY <3>2
  <2>2. \A q \in Procs : pc'[q] # "rename"
    BY <1>3 DEF Rename, CriticalHoldsLock, CriticalSteps, TypeOK, TypeProcess
  <2> QED
    BY <2>1, <2>2
<1>4. CASE ~Rename(p)
  <2>1. /\ \A e \in Entries : at'[e] \in {"old", "lost"} => at'[e] = at[e]
        /\ suffix' = suffix
    BY <1>4, OnlyRenameMoves
  <2>2. NothingReplaced'
    BY <2>1
  <2>3. ASSUME NEW q \in Procs, pc'[q] = "rename"
        PROVE  ~Taken(dest'[q][1], dest'[q][2])
    <3>1. CASE PickDest(p) /\ q = p
      BY <3>1 DEF PickDest, FreeName, TypeOK, TypeMove
    <3>2. CASE PickDest(p) /\ q # p
      BY <2>3, <3>2 DEF PickDest, TypeOK, TypeProcess, TypeMove
    <3>3. CASE ~PickDest(p)
      <4>1. pc[q] = "rename" /\ dest'[q] = dest[q]
        BY <2>3, <3>3, OnlyPickDestChooses
      <4> QED
        BY <4>1
    <3> QED
      BY <3>1, <3>2, <3>3
  <2>4. ASSUME NEW q \in Procs, pc'[q] = "rename"
        PROVE  ~Taken(dest[q][1], dest[q][2])'
    <3>1. ~Taken(dest'[q][1], dest'[q][2])
      BY <2>3, <2>4
    <3> QED
      BY <3>1, <2>1 DEF Taken, Name
  <2> QED
    BY <2>2, <2>4
<1> QED
  BY <1>3, <1>4

\* If no flock is interrupted, rename() never replaces a file that was moved out
\* before, though looking for a free name and renaming are two calls.
THEOREM NothingIsReplaced ==
    ASSUME ~Interrupts
    PROVE  Spec => []NothingReplaced
<1>1. Init => ReplaceInv
  BY DEF Init, ReplaceInv, NothingReplaced, DestIsFree, Under
<1>2. TypeOK /\ CriticalHoldsLock /\ ReplaceInv /\ [Next]_vars => ReplaceInv'
  BY ReplaceInvStep
<1>3. SweepInv => CriticalHoldsLock
  BY DEF SweepInv
<1>4. ReplaceInv => NothingReplaced
  BY DEF ReplaceInv
<1> QED
  BY <1>1, <1>2, <1>3, <1>4, TypeCorrect, SweepCorrect, PTL DEF Spec

----------------------------------------------------------------------------
(* latest is emptied before a run puts anything there.                     *)

\* move_out has still to rename what is in latest; when it is done nothing is there, and
\* then only what the process of the new run makes.  Entries that are made with no lock
\* between processes may come at any time.
MovingSteps == {"move", "rename", "place", "opendir", "first"}
LatestIsEmptied ==
    \A p \in Procs :
        /\ pc[p] = "move" => \A f \in Under("latest") : Late(f) \/ f \in listing[p]
        /\ pc[p] = "rename" => \A f \in Under("latest") :
             Late(f) \/ f \in listing[p] \/ Name(f) = Name(dest[p][1])
        /\ pc[p] = "place" => \A f \in Under("latest") : Late(f)
        /\ pc[p] \in {"opendir", "first"} => \A f \in Under("latest") : Late(f) \/ f[1] = p
LatestInv == OneRunInLatest /\ LatestIsEmptied

\* The steps of a process that bring it into, or through, the MovingSteps.
Moves(p) ==
    \/ ListLatest(p) \/ PickDest(p) \/ Rename(p) \/ MoveDone(p)
    \/ MakeRunDir(p) \/ OpenRunDir(p)

LEMMA OthersKeepMoving ==
    ASSUME TypeOK, NEW p \in Procs,
           Start(p) \/ OpenRun(p) \/ AfterOpen(p) \/ Crash(p)
    PROVE  \A q \in Procs : pc'[q] \in MovingSteps =>
                \/ pc'[q] = pc[q] /\ listing'[q] = listing[q] /\ dest'[q] = dest[q]
                \/ q = p /\ Moves(p)
<1> DEFINE Kept == \A q \in Procs : pc'[q] \in MovingSteps =>
                \/ pc'[q] = pc[q] /\ listing'[q] = listing[q] /\ dest'[q] = dest[q]
                \/ q = p /\ Moves(p)
<1> USE DEF TypeOK, TypeProcess, TypeMove, MovingSteps
<1>1. CASE Start(p)
  BY <1>1 DEF Start
<1>2. CASE MakeDirs(p)
  BY <1>2 DEF MakeDirs
<1>3. CASE OpenRunLock(p)
  BY <1>3 DEF OpenRunLock
<1>4. CASE FlockRunLock(p)
  BY <1>4 DEF FlockRunLock
<1>5. CASE LockStruct(p)
  BY <1>5 DEF LockStruct
<1>6. CASE ListLatest(p)
  BY <1>6 DEF ListLatest, Moves
<1>7. CASE PickDest(p)
  BY <1>7 DEF PickDest, Moves
<1>8. CASE Rename(p)
  BY <1>8 DEF Rename, Moves
<1>9. CASE MoveDone(p)
  BY <1>9 DEF MoveDone, Moves
<1>10. CASE MakeRunDir(p)
  BY <1>10 DEF MakeRunDir, GiveUp, Moves
<1>11. CASE OpenRunDir(p)
  BY <1>11 DEF OpenRunDir, GiveUp, Moves
<1>12. CASE FirstFile(p)
  BY <1>12 DEF FirstFile
<1>13. CASE ListLocks(p)
  BY <1>13 DEF ListLocks
<1>14. CASE ProbeBusy(p)
  BY <1>14 DEF ProbeBusy
<1>15. CASE ProbeFree(p)
  BY <1>15 DEF ProbeFree
<1>16. CASE ProbeRelease(p)
  BY <1>16 DEF ProbeRelease
<1>17. CASE ScanDone(p)
  BY <1>17 DEF ScanDone
<1>18. CASE SelectVictims(p)
  BY <1>18 DEF SelectVictims
<1>19. CASE NextVictim(p)
  BY <1>19 DEF NextVictim
<1>20. CASE ReapFile(p)
  BY <1>20 DEF ReapFile
<1>21. CASE UnlinkLock(p)
  BY <1>21 DEF UnlinkLock
<1>22. CASE ReapDone(p)
  BY <1>22 DEF ReapDone
<1>23. CASE UnlockStruct(p)
  BY <1>23 DEF UnlockStruct
<1>24. CASE Shutdown(p)
  BY <1>24 DEF Shutdown
<1>25. CASE Crash(p)
  BY <1>25 DEF Crash
<1>26. CASE Restart(p)
  BY <1>26 DEF Restart
<1>27. ASSUME NEW m \in Modules, OpenModule(p, m) PROVE Kept
  BY <1>27 DEF OpenModule
<1>28. ASSUME NEW c \in Procs, Fork(p, c) PROVE Kept
  BY <1>28 DEF Fork
<1> QED
  BY <1>1, <1>2, <1>3, <1>4, <1>5, <1>6, <1>7, <1>8, <1>9, <1>10, <1>11, <1>12,
     <1>13, <1>14, <1>15, <1>16, <1>17, <1>18, <1>19, <1>20, <1>21, <1>22, <1>23,
     <1>24, <1>25, <1>26, <1>27, <1>28 DEF OpenRun, AfterOpen

\* Files of modules apart, only the holder of .slog.lock puts anything into latest.
LEMMA OnlyOpenersAdd ==
    ASSUME TypeOK, NEW p \in Procs,
           Start(p) \/ OpenRun(p) \/ AfterOpen(p) \/ Crash(p),
           ~MakeRunDir(p), ~FirstFile(p)
    PROVE  \A e \in Entries : at'[e] = "latest" => at[e] = "latest" \/ Late(e)
<1> USE DEF TypeOK, TypeFiles, dirVars
<1>1. CASE Rename(p)
  BY <1>1 DEF Rename
<1>2. CASE ReapFile(p)
  BY <1>2 DEF ReapFile
<1>3. ASSUME NEW m \in Modules, OpenModule(p, m)
      PROVE  \A e \in Entries : at'[e] = "latest" => at[e] = "latest" \/ Late(e)
  BY <1>3, OpenModuleAdds
<1>4. CASE \/ Start(p) \/ MakeDirs(p) \/ OpenRunLock(p) \/ FlockRunLock(p)
           \/ LockStruct(p) \/ ListLatest(p) \/ PickDest(p) \/ MoveDone(p)
           \/ OpenRunDir(p) \/ ListLocks(p) \/ ProbeBusy(p) \/ ProbeFree(p)
           \/ ProbeRelease(p) \/ ScanDone(p)
  BY <1>4 DEF Start, MakeDirs, OpenRunLock, FlockRunLock, LockStruct, ListLatest,
     PickDest, MoveDone, OpenRunDir, ListLocks, ProbeBusy, ProbeFree, ProbeRelease,
     ScanDone
<1>5. CASE \/ SelectVictims(p) \/ NextVictim(p) \/ UnlinkLock(p) \/ ReapDone(p)
           \/ UnlockStruct(p) \/ Shutdown(p) \/ (\E c \in Procs : Fork(p, c))
           \/ Restart(p) \/ Crash(p)
  BY <1>5 DEF SelectVictims, NextVictim, UnlinkLock, ReapDone, UnlockStruct, Shutdown,
     Fork, Restart, Crash
<1> QED
  BY <1>1, <1>2, <1>3, <1>4, <1>5 DEF OpenRun, AfterOpen

\* A process that makes its directory or its first file finds nothing of another run.
LEMMA AddingKeepsLatestInv ==
    ASSUME TypeOK, CriticalHoldsLock, LatestInv, NEW p \in Procs,
           MakeRunDir(p) \/ FirstFile(p)
    PROVE  LatestInv'
<1> USE DEF LatestInv, LatestIsEmptied, OneRunInLatest, Under, TypeOK, TypeFiles, TypeProcess
<1>1. \A f \in Entries : at[f] = "latest" => Late(f) \/ f[1] = p
  BY DEF MakeRunDir, FirstFile
<1>2. \A f \in Entries : at'[f] = "latest" => Late(f) \/ f[1] = p
  BY <1>1 DEF MakeRunDir, FirstFile, OpenInLatest, Entries
<1>3. pc'[p] \notin {"move", "rename", "place"}
  BY DEF MakeRunDir, FirstFile, GiveUp
<1>4. \A q \in Procs \ {p} : pc'[q] = pc[q] /\ pc[q] \notin CriticalSteps
  BY DEF MakeRunDir, FirstFile, GiveUp, CriticalHoldsLock, CriticalSteps
<1> QED
  BY <1>2, <1>3, <1>4 DEF CriticalSteps, Late

LEMMA LatestInvStep ==
    ASSUME {"rename", "listlatest"} \cap Faults = {}, TypeOK, CriticalHoldsLock, ReplaceInv, LatestInv, [Next]_vars
    PROVE  LatestInv'
<1> USE DEF LatestInv, LatestIsEmptied, OneRunInLatest, Under
<1>1. CASE UNCHANGED vars
  BY <1>1 DEF vars, dirVars, Name, Late
<1>2. CASE Tick
  BY <1>2 DEF Tick, dirVars, Name, Late
<1> SUFFICES ASSUME NEW p \in Procs, Start(p) \/ OpenRun(p) \/ AfterOpen(p) \/ Crash(p)
             PROVE LatestInv'
  BY <1>1, <1>2 DEF Next
<1>3. CASE MakeRunDir(p) \/ FirstFile(p)
  BY <1>3, AddingKeepsLatestInv
<1>4. CASE ~MakeRunDir(p) /\ ~FirstFile(p)
  <2>1. \A e \in Entries : at'[e] = "latest" => at[e] = "latest" \/ Late(e)
    BY <1>4, OnlyOpenersAdd
  <2>2. OneRunInLatest'
    BY <2>1 DEF Late
  <2> SUFFICES ASSUME NEW q \in Procs
               PROVE  /\ pc'[q] = "move" =>
                            \A f \in Under("latest")' : Late(f) \/ f \in listing'[q]
                      /\ pc'[q] = "rename" => \A f \in Under("latest")' :
                            Late(f) \/ f \in listing'[q] \/ Name(f) = Name(dest'[q][1])
                      /\ pc'[q] = "place" => \A f \in Under("latest")' : Late(f)
                      /\ pc'[q] \in {"opendir", "first"} =>
                            \A f \in Under("latest")' : Late(f) \/ f[1] = q
    BY <2>2 DEF Name, Late
  <2>3. CASE /\ pc'[q] \in MovingSteps /\ pc'[q] = pc[q]
             /\ listing'[q] = listing[q] /\ dest'[q] = dest[q]
    BY <2>1, <2>3 DEF MovingSteps
  <2>4. CASE q = p /\ ListLatest(p)
    BY <2>1, <2>4 DEF ListLatest, TypeOK, TypeProcess, TypeMove
  <2>5. CASE q = p /\ PickDest(p)
    <3>1. PICK e \in listing[p], k \in Suffixes :
              /\ listing' = [listing EXCEPT ![p] = @ \ {e}]
              /\ dest' = [dest EXCEPT ![p] = <<e, k>>]
      BY <2>5 DEF PickDest
    <3>2. listing'[p] = listing[p] \ {e} /\ dest'[p][1] = e
      BY <3>1 DEF TypeOK, TypeMove
    <3>3. pc[p] = "move" /\ pc'[p] = "rename"
      BY <2>5 DEF PickDest, TypeOK, TypeProcess
    <3>4. \A f \in Under("latest") : Late(f) \/ f \in listing[p]
      BY <3>3
    <3> QED
      BY <2>1, <2>5, <3>2, <3>3, <3>4
  <2>6. CASE q = p /\ Rename(p)
    <3> DEFINE e    == dest[p][1]
               k    == dest[p][2]
               over == {f \in Under("old") : Name(f) = Name(e) /\ suffix[f] = k}
    <3>1. pc[p] = "rename" /\ pc'[p] = "move" /\ listing' = listing
      BY <2>6 DEF Rename, TypeOK, TypeProcess
    <3>2. over = {}
      BY <3>1 DEF ReplaceInv, DestIsFree, Taken
    <3>3. \A f \in Entries : at'[f] = "latest" => f \notin InLatestAs(e)
      BY <2>6, <3>2 DEF Rename, TypeOK, TypeFiles
    <3>4. ASSUME NEW f \in Under("latest")', ~Late(f) PROVE f \in listing[p]
      <4>1. f \in Under("latest") /\ f \notin InLatestAs(e)
        BY <2>1, <3>3, <3>4
      <4>2. Name(f) # Name(e)
        BY <4>1 DEF InLatestAs
      <4> QED
        BY <3>1, <3>4, <4>1, <4>2
    <3> QED
      BY <2>6, <3>1, <3>4
  <2>7. CASE q = p /\ MoveDone(p)
    <3>1. pc[p] = "move" /\ pc'[p] = "place" /\ listing[p] = {}
      BY <2>7 DEF MoveDone, MovedAll, TypeOK, TypeProcess
    <3> QED
      BY <2>1, <2>7, <3>1
  <2>8. CASE q = p /\ OpenRunDir(p)
    <3>1. pc[p] = "opendir" /\ pc'[p] \in {"first", "failed"}
      BY <2>8 DEF OpenRunDir, GiveUp, TypeOK, TypeProcess
    <3> QED
      BY <2>1, <2>8, <3>1
  <2>9. CASE pc'[q] \notin MovingSteps
    BY <2>9 DEF MovingSteps
  <2> QED
    BY <1>4, <2>3, <2>4, <2>5, <2>6, <2>7, <2>8, <2>9, OthersKeepMoving DEF Moves
<1> QED
  BY <1>3, <1>4

\* If no flock is interrupted, latest opens and no rename fails, then only the newest
\* run is under latest: no entries of two runs lie there together, but for the module
\* files that a run, or a child of it, opens after open_run.
THEOREM OneRunCorrect ==
    ASSUME ~Interrupts, {"rename", "listlatest"} \cap Faults = {}
    PROVE  Spec => []OneRunInLatest
<1>1. Init => ReplaceInv /\ LatestInv
  BY DEF Init, ReplaceInv, NothingReplaced, DestIsFree, LatestInv, LatestIsEmptied,
     OneRunInLatest, Under
<1>2. TypeOK /\ SweepInv /\ ReplaceInv /\ LatestInv /\ [Next]_vars
        => ReplaceInv' /\ LatestInv'
  BY ReplaceInvStep, LatestInvStep DEF SweepInv
<1>3. LatestInv => OneRunInLatest
  BY DEF LatestInv
<1> QED
  BY <1>1, <1>2, <1>3, TypeCorrect, SweepCorrect, PTL DEF Spec

----------------------------------------------------------------------------
(* A sweep keeps the newest runs.                                          *)

\* A run makes its lock file once; so nothing of a lock file that a sweep read changes
\* but by being unlinked.
BeforeLockFile == {"off", "child", "begin", "runlock"}
StampedOnce ==
    \A r \in Procs : pc[r] \in BeforeLockFile =>
        ~lockFile[r] /\ \A p \in Procs : r \notin dead[p]

\* What a sweep has still to reap, and what it leaves.
Doomed(p) == victims[p] \cup {r \in Procs : pc[p] = "reapfiles" /\ r = target[p]}
Spared(p) == {r \in dead[p] : lockFile[r]} \ Doomed(p)

SparesNewest(p) ==
    /\ Cardinality(Spared(p)) <= RetainRuns
    /\ RetainAge = 0 =>
         \A r \in Spared(p), s \in dead[p] \ Spared(p) : born[r] >= born[s]

ReapSteps == {"reap", "reapfiles", "unlock"}

\* Until the victims are chosen the lock files of the dead runs are there; then those
\* that are no victim are few and newest, however many victims are gone.
KeepsNewest(p) ==
    /\ dead[p] \subseteq seen[p]
    /\ pc[p] \in {"probe", "probed", "select"} => \A r \in dead[p] : lockFile[r]
    /\ pc[p] \in ReapSteps /\ RetainRuns > 0 => SparesNewest(p)
    /\ pc[p] = "unlock" => victims[p] = {}

KeepInv == StampedOnce /\ \A p \in Procs : KeepsNewest(p)

\* What a step of p does to a sweep of another process, and to the lock files: one is
\* made by its own run, and unlinked by a sweep.
SweepsApart(p) ==
    /\ \A q \in Procs \ {p} :
         /\ pc'[q] = pc[q] \/ (pc[q] = "off" /\ pc'[q] = "child")
         /\ dead'[q] = dead[q] /\ seen'[q] = seen[q]
         /\ victims'[q] = victims[q] /\ target'[q] = target[q] /\ names'[q] = names[q]
    /\ \A r \in Procs :
         \/ lockFile'[r] = lockFile[r] /\ born'[r] = born[r]
         \/ r = p /\ pc[p] = "runlock" /\ pc'[p] \notin BeforeLockFile
         \/ pc[p] = "reapfiles" /\ ~lockFile'[r]
    /\ pc'[p] \in BeforeLockFile => pc[p] \in BeforeLockFile
    /\ dead'[p] \subseteq dead[p] \cup {r \in Procs : lockFile[r]}

LEMMA SweepsAreApart ==
    ASSUME TypeOK, NEW p \in Procs, Start(p) \/ OpenRun(p) \/ AfterOpen(p) \/ Crash(p)
    PROVE  SweepsApart(p)
<1> USE DEF SweepsApart, TypeOK, TypeProcess, TypeLocks, TypeSweep, lockVars, sweepVars,
       BeforeLockFile
<1>1. CASE Start(p)
  BY <1>1 DEF Start
<1>2. CASE MakeDirs(p)
  BY <1>2 DEF MakeDirs
<1>3. CASE OpenRunLock(p)
  BY <1>3 DEF OpenRunLock
<1>4. CASE FlockRunLock(p)
  BY <1>4 DEF FlockRunLock
<1>5. CASE LockStruct(p)
  BY <1>5 DEF LockStruct
<1>6. CASE ListLatest(p)
  BY <1>6 DEF ListLatest
<1>7. CASE PickDest(p)
  BY <1>7 DEF PickDest
<1>8. CASE Rename(p)
  BY <1>8 DEF Rename
<1>9. CASE MoveDone(p)
  BY <1>9 DEF MoveDone
<1>10. CASE MakeRunDir(p)
  BY <1>10 DEF MakeRunDir, GiveUp
<1>11. CASE OpenRunDir(p)
  BY <1>11 DEF OpenRunDir, GiveUp
<1>12. CASE FirstFile(p)
  BY <1>12 DEF FirstFile
<1>13. CASE ListLocks(p)
  BY <1>13 DEF ListLocks
<1>14. CASE ProbeBusy(p)
  BY <1>14 DEF ProbeBusy
<1>15. CASE ProbeFree(p)
  BY <1>15 DEF ProbeFree
<1>16. CASE ProbeRelease(p)
  BY <1>16 DEF ProbeRelease
<1>17. CASE ScanDone(p)
  BY <1>17 DEF ScanDone
<1>18. CASE SelectVictims(p)
  BY <1>18 DEF SelectVictims
<1>19. CASE NextVictim(p)
  BY <1>19 DEF NextVictim
<1>20. CASE ReapFile(p)
  BY <1>20 DEF ReapFile
<1>21. CASE UnlinkLock(p)
  BY <1>21 DEF UnlinkLock
<1>22. CASE ReapDone(p)
  BY <1>22 DEF ReapDone
<1>23. CASE UnlockStruct(p)
  BY <1>23 DEF UnlockStruct, ForgetSweep
<1>24. CASE Shutdown(p)
  BY <1>24 DEF Shutdown
<1>25. CASE Crash(p)
  BY <1>25 DEF Crash, ForgetSweep
<1>26. CASE Restart(p)
  BY <1>26 DEF Restart
<1>27. ASSUME NEW m \in Modules, OpenModule(p, m) PROVE SweepsApart(p)
  BY <1>27 DEF OpenModule
<1>28. ASSUME NEW c \in Procs, Fork(p, c) PROVE SweepsApart(p)
  BY <1>28 DEF Fork
<1> QED
  BY <1>1, <1>2, <1>3, <1>4, <1>5, <1>6, <1>7, <1>8, <1>9, <1>10, <1>11, <1>12, <1>13,
     <1>14, <1>15, <1>16, <1>17, <1>18, <1>19, <1>20, <1>21, <1>22, <1>23, <1>24, <1>25,
     <1>26, <1>27, <1>28 DEF OpenRun, AfterOpen

LEMMA StampedOnceStep ==
    ASSUME TypeOK, StampedOnce, NEW p \in Procs, SweepsApart(p)
    PROVE  StampedOnce'
<1> SUFFICES ASSUME NEW r \in Procs, pc'[r] \in BeforeLockFile
             PROVE  ~lockFile'[r] /\ \A q \in Procs : r \notin dead'[q]
  BY DEF StampedOnce
<1>1. pc[r] \in BeforeLockFile
  BY DEF SweepsApart, BeforeLockFile
<1>2. ~lockFile[r] /\ \A q \in Procs : r \notin dead[q]
  BY <1>1 DEF StampedOnce
<1>3. ~lockFile'[r]
  BY <1>2 DEF SweepsApart
<1>4. ASSUME NEW q \in Procs PROVE r \notin dead'[q]
  BY <1>2 DEF SweepsApart
<1> QED
  BY <1>3, <1>4

\* A sweep whose list is as it was, with all lock files in it.
LEMMA SweepUndisturbed ==
    ASSUME TypeOK, NEW q \in Procs, KeepsNewest(q), pc'[q] = pc[q], dead'[q] = dead[q],
           seen'[q] = seen[q], victims'[q] = victims[q], target'[q] = target[q],
           \A r \in dead[q] : lockFile'[r] = lockFile[r] /\ born'[r] = born[r]
    PROVE  KeepsNewest(q)'
<1>1. Doomed(q)' = Doomed(q)
  BY DEF Doomed
<1>2. Spared(q)' = Spared(q)
  BY <1>1 DEF Spared
<1>3. SparesNewest(q) => SparesNewest(q)'
  <2>1. \A r \in Spared(q) : r \in dead[q]
    BY DEF Spared
  <2> QED
    BY <1>2, <2>1 DEF SparesNewest
<1> QED
  BY <1>3 DEF KeepsNewest

\* A process that is not in a sweep has only to keep its lists apart.
LEMMA OutsideSweep ==
    ASSUME NEW q \in Procs, pc'[q] \notin SweepSteps, dead'[q] \subseteq seen'[q]
    PROVE  KeepsNewest(q)'
  BY DEF KeepsNewest, SweepSteps, ReapSteps

LEMMA OthersKeepNewest ==
    ASSUME TypeOK, CriticalHoldsLock, KeepInv, NEW p \in Procs, SweepsApart(p),
           NEW q \in Procs \ {p}
    PROVE  KeepsNewest(q)'
<1>1. /\ KeepsNewest(q)
      /\ dead'[q] = dead[q] /\ seen'[q] = seen[q]
      /\ victims'[q] = victims[q] /\ target'[q] = target[q]
  BY DEF KeepInv, SweepsApart
<1>2. CASE pc'[q] \notin SweepSteps
  BY <1>1, <1>2, OutsideSweep DEF KeepsNewest
<1>3. CASE pc'[q] \in SweepSteps
  <2>1. pc'[q] = pc[q]
    BY <1>3 DEF SweepsApart, SweepSteps
  <2>2. pc[p] # "reapfiles"
    BY <1>3, <2>1 DEF CriticalHoldsLock, CriticalSteps, SweepSteps
  <2>3. ASSUME NEW r \in dead[q] PROVE lockFile'[r] = lockFile[r] /\ born'[r] = born[r]
    <3>1. r \in Procs
      BY DEF TypeOK, TypeSweep
    <3>2. ~(r = p /\ pc[p] = "runlock")
      BY <3>1 DEF KeepInv, StampedOnce, BeforeLockFile
    <3> QED
      BY <2>2, <3>1, <3>2 DEF SweepsApart
  <2> QED
    BY <1>1, <2>1, <2>3, SweepUndisturbed
<1> QED
  BY <1>2, <1>3

\* The choice of victims leaves those in the window of the newest.
LEMMA SelectKeepsNewest ==
    ASSUME TypeOK, NEW p \in Procs, KeepsNewest(p), SelectVictims(p)
    PROVE  KeepsNewest(p)'
<1>1. /\ pc[p] = "select" /\ pc'[p] = "reap" /\ dead' = dead /\ seen' = seen
      /\ lockFile' = lockFile /\ born' = born
      /\ dead[p] \subseteq seen[p] /\ seen[p] \subseteq Procs
      /\ \A r \in dead[p] : lockFile[r]
  BY DEF SelectVictims, lockVars, KeepsNewest, TypeOK, TypeProcess, TypeSweep
<1>2. PICK w \in Window(p) :
         victims'[p] = {r \in dead[p] : \/ RetainRuns > 0 /\ r \notin w
                                        \/ RetainAge > 0 /\ clock - born[r] > RetainAge}
  BY DEF SelectVictims, TypeOK, TypeSweep
<1>3. /\ w \subseteq seen[p] /\ Cardinality(w) <= RetainRuns
      /\ \A r \in w, s \in seen[p] \ w : born[r] >= born[s]
  BY <1>2 DEF Window, Newer
<1>4. Doomed(p)' = victims'[p]
  BY <1>1 DEF Doomed
<1>5. Spared(p)' = dead[p] \ victims'[p]
  BY <1>1, <1>4 DEF Spared
<1>6. ASSUME RetainRuns > 0 PROVE SparesNewest(p)'
  <2>1. Spared(p)' \subseteq w
    BY <1>2, <1>5, <1>6
  <2>2. Cardinality(Spared(p)') <= RetainRuns
    <3>1. IsFiniteSet(w)
      BY <1>1, <1>3, FS_Subset, ConstantsAssumption DEF ConstantsAssumption
    <3>2. /\ Cardinality(Spared(p)') <= Cardinality(w)
          /\ Cardinality(Spared(p)') \in Nat /\ Cardinality(w) \in Nat
      BY <2>1, <3>1, FS_Subset, FS_CardinalityType
    <3> QED
      BY <1>3, <3>2, ConstantsAssumption DEF ConstantsAssumption
  <2>3. ASSUME RetainAge = 0, NEW r \in Spared(p)', NEW s \in dead[p] \ Spared(p)'
        PROVE  born[r] >= born[s]
    <3>1. s \in victims'[p] /\ s \notin w
      BY <1>2, <1>5, <2>3
    <3> QED
      BY <1>1, <1>3, <2>1, <2>3, <3>1
  <2> QED
    BY <1>1, <2>2, <2>3 DEF SparesNewest
<1> QED
  BY <1>1, <1>6 DEF KeepsNewest

\* Reaping spares the same runs from the first victim to the last.
LEMMA ReapingKeepsNewest ==
    ASSUME TypeOK, NEW p \in Procs, KeepsNewest(p), pc[p] \in ReapSteps,
           pc'[p] \in ReapSteps, dead'[p] = dead[p], seen'[p] = seen[p], born' = born,
           Spared(p)' = Spared(p), pc'[p] = "unlock" => victims'[p] = {}
    PROVE  KeepsNewest(p)'
<1>1. SparesNewest(p) => SparesNewest(p)'
  BY DEF SparesNewest
<1> QED
  BY <1>1 DEF KeepsNewest, ReapSteps

\* The steps of p that are no part of its sweep, or end it.
LEMMA OutsideItsSweep ==
    ASSUME TypeOK, NEW p \in Procs, dead[p] \subseteq seen[p],
           Start(p) \/ OpenRun(p) \/ AfterOpen(p) \/ Crash(p),
           pc[p] \notin SweepSteps \cup {"retention"} \/ UnlockStruct(p) \/ Crash(p)
    PROVE  pc'[p] \notin SweepSteps /\ dead'[p] \subseteq seen'[p]
<1> USE DEF TypeOK, TypeProcess, TypeSweep, sweepVars, SweepSteps
<1>1. CASE Start(p)
  BY <1>1 DEF Start
<1>2. CASE MakeDirs(p)
  BY <1>2 DEF MakeDirs
<1>3. CASE OpenRunLock(p)
  BY <1>3 DEF OpenRunLock
<1>4. CASE FlockRunLock(p)
  BY <1>4 DEF FlockRunLock
<1>5. CASE LockStruct(p)
  BY <1>5 DEF LockStruct
<1>6. CASE ListLatest(p)
  BY <1>6 DEF ListLatest
<1>7. CASE PickDest(p)
  BY <1>7 DEF PickDest
<1>8. CASE Rename(p)
  BY <1>8 DEF Rename
<1>9. CASE MoveDone(p)
  BY <1>9 DEF MoveDone
<1>10. CASE MakeRunDir(p)
  BY <1>10 DEF MakeRunDir, GiveUp
<1>11. CASE OpenRunDir(p)
  BY <1>11 DEF OpenRunDir, GiveUp
<1>12. CASE FirstFile(p)
  BY <1>12 DEF FirstFile
<1>13. CASE UnlockStruct(p)
  BY <1>13 DEF UnlockStruct, ForgetSweep
<1>14. CASE Shutdown(p)
  BY <1>14 DEF Shutdown
<1>15. CASE Crash(p)
  BY <1>15 DEF Crash, ForgetSweep
<1>16. CASE Restart(p)
  BY <1>16 DEF Restart
<1>17. ASSUME NEW m \in Modules, OpenModule(p, m)
      PROVE  pc'[p] \notin SweepSteps /\ dead'[p] \subseteq seen'[p]
  BY <1>17 DEF OpenModule
<1>18. ASSUME NEW c \in Procs, Fork(p, c)
      PROVE  pc'[p] \notin SweepSteps /\ dead'[p] \subseteq seen'[p]
  BY <1>18 DEF Fork
<1>19. CASE \/ ListLocks(p) \/ ProbeBusy(p) \/ ProbeFree(p) \/ ProbeRelease(p) \/ ScanDone(p)
            \/ SelectVictims(p) \/ NextVictim(p) \/ ReapFile(p) \/ UnlinkLock(p) \/ ReapDone(p)
  BY <1>19 DEF ListLocks, ProbeBusy, ProbeFree, ProbeRelease, ScanDone, SelectVictims, NextVictim,
     ReapFile, UnlinkLock, ReapDone, UnlockStruct, Crash, StartSteps, CriticalSteps
<1> QED
  BY <1>1, <1>2, <1>3, <1>4, <1>5, <1>6, <1>7, <1>8, <1>9, <1>10, <1>11, <1>12, <1>13,
     <1>14, <1>15, <1>16, <1>17, <1>18, <1>19
     DEF OpenRun, AfterOpen

LEMMA OwnSweepKeepsNewest ==
    ASSUME "unlink" \notin Faults, TypeOK, SweepScope, NEW p \in Procs, KeepsNewest(p),
           Start(p) \/ OpenRun(p) \/ AfterOpen(p) \/ Crash(p)
    PROVE  KeepsNewest(p)'
<1> USE DEF TypeOK, TypeProcess, TypeSweep, TypeLocks, lockVars
<1>1. /\ dead[p] \subseteq seen[p]
      /\ pc[p] \notin SweepSteps => dead[p] = {} /\ victims[p] = {}
      /\ pc[p] = "unlock" => victims[p] = {}
  BY DEF KeepsNewest, SweepScope
<1>2. CASE pc[p] \notin SweepSteps \cup {"retention"} \/ UnlockStruct(p) \/ Crash(p)
  BY <1>1, <1>2, OutsideItsSweep, OutsideSweep
<1>3. CASE ListLocks(p)
  <2>1. dead'[p] = {} /\ victims'[p] = {} /\ seen' = seen
    BY <1>1, <1>3 DEF ListLocks, SweepSteps
  <2>2. pc'[p] \in {"unlock", "probe"}
    BY <1>3 DEF ListLocks
  <2>3. RetainRuns > 0 => SparesNewest(p)'
    <3>1. Spared(p)' = {}
      BY <2>1 DEF Spared
    <3> QED
      BY <2>1, <3>1, FS_EmptySet, ConstantsAssumption DEF SparesNewest, ConstantsAssumption
  <2> QED
    BY <2>1, <2>2, <2>3 DEF KeepsNewest
<1>4. CASE ProbeBusy(p)
  <2>1. /\ pc'[p] = "probe" /\ pc[p] = "probe" /\ dead' = dead /\ lockFile' = lockFile
        /\ seen[p] \subseteq seen'[p]
    BY <1>4 DEF ProbeBusy
  <2> QED
    BY <2>1 DEF KeepsNewest, ReapSteps
<1>5. CASE ProbeFree(p)
  <2>1. PICK r \in scan[p] : /\ lockFile[r]
                             /\ seen' = [seen EXCEPT ![p] = @ \cup {r}]
                             /\ dead' = [dead EXCEPT ![p] = @ \cup {r}]
    BY <1>5 DEF ProbeFree
  <2>2. /\ pc[p] = "probe" /\ pc'[p] = "probed" /\ lockFile' = lockFile
        /\ dead'[p] = dead[p] \cup {r} /\ seen'[p] = seen[p] \cup {r}
    BY <1>5, <2>1 DEF ProbeFree
  <2> QED
    BY <2>1, <2>2 DEF KeepsNewest, ReapSteps
<1>6. CASE ProbeRelease(p)
  <2>1. /\ pc[p] = "probed" /\ pc'[p] = "probe" /\ dead' = dead /\ lockFile' = lockFile
        /\ seen' = seen
    BY <1>6 DEF ProbeRelease
  <2> QED
    BY <2>1 DEF KeepsNewest, ReapSteps
<1>7. CASE ScanDone(p)
  <2>1. /\ pc[p] = "probe" /\ pc'[p] = "select" /\ dead' = dead /\ lockFile' = lockFile
        /\ seen' = seen
    BY <1>7 DEF ScanDone, sweepVars
  <2> QED
    BY <2>1 DEF KeepsNewest, ReapSteps
<1>8. CASE SelectVictims(p)
  BY <1>8, SelectKeepsNewest
<1>9. CASE NextVictim(p)
  <2>1. PICK r \in victims[p] : /\ victims' = [victims EXCEPT ![p] = @ \ {r}]
                                /\ target' = [target EXCEPT ![p] = r]
    BY <1>9 DEF NextVictim
  <2>2. /\ pc[p] = "reap" /\ pc'[p] = "reapfiles" /\ dead' = dead /\ seen' = seen
        /\ lockFile' = lockFile /\ born' = born
        /\ victims'[p] = victims[p] \ {r} /\ target'[p] = r /\ r \in Procs
    BY <1>9, <2>1 DEF NextVictim
  <2>3. Doomed(p)' = Doomed(p)
    BY <2>1, <2>2 DEF Doomed
  <2> QED
    BY <2>2, <2>3, ReapingKeepsNewest DEF Spared, ReapSteps
<1>10. CASE ReapFile(p)
  <2>1. /\ pc[p] = "reapfiles" /\ pc' = pc /\ dead' = dead /\ seen' = seen
        /\ lockFile' = lockFile /\ born' = born /\ victims' = victims /\ target' = target
    BY <1>10 DEF ReapFile, sweepVars
  <2> QED
    BY <2>1, ReapingKeepsNewest DEF Spared, Doomed, ReapSteps
<1>11. CASE UnlinkLock(p)
  <2>1. /\ pc[p] = "reapfiles" /\ pc'[p] = "reap" /\ dead' = dead /\ seen' = seen
        /\ lockFile' = [lockFile EXCEPT ![target[p]] = FALSE] /\ born' = born
        /\ victims' = victims
    BY <1>11 DEF UnlinkLock
  <2>2. /\ Doomed(p) = victims[p] \cup {r \in Procs : r = target[p]}
        /\ Doomed(p)' = victims[p]
    BY <2>1 DEF Doomed
  <2>3. \A r \in Procs : lockFile'[r] <=> lockFile[r] /\ r # target[p]
    BY <2>1
  <2>4. Spared(p)' = Spared(p)
    BY <2>1, <2>2, <2>3 DEF Spared
  <2> QED
    BY <2>1, <2>4, ReapingKeepsNewest DEF ReapSteps
<1>12. CASE ReapDone(p)
  <2>1. /\ pc[p] = "reap" /\ pc'[p] = "unlock" /\ dead' = dead /\ seen' = seen
        /\ lockFile' = lockFile /\ born' = born /\ victims' = victims /\ target' = target
        /\ victims[p] = {}
    BY <1>12 DEF ReapDone, sweepVars
  <2> QED
    BY <2>1, ReapingKeepsNewest DEF Spared, Doomed, ReapSteps
<1>13. \/ pc[p] \notin SweepSteps \cup {"retention"} \/ UnlockStruct(p) \/ Crash(p)
       \/ ListLocks(p) \/ ProbeBusy(p) \/ ProbeFree(p) \/ ProbeRelease(p) \/ ScanDone(p)
       \/ SelectVictims(p) \/ NextVictim(p) \/ ReapFile(p) \/ UnlinkLock(p) \/ ReapDone(p)
  BY DEF OpenRun, AfterOpen, Start, MakeDirs, OpenRunLock, FlockRunLock, LockStruct, ListLatest,
     PickDest, Rename, MoveDone, MakeRunDir, OpenRunDir, FirstFile, OpenModule, Shutdown, Fork,
     Restart, SweepSteps
<1> QED
  BY <1>2, <1>3, <1>4, <1>5, <1>6, <1>7, <1>8, <1>9, <1>10, <1>11, <1>12, <1>13

LEMMA KeepInvStep ==
    ASSUME "unlink" \notin Faults, TypeOK, CriticalHoldsLock, SweepScope, KeepInv, [Next]_vars
    PROVE  KeepInv'
<1>1. CASE UNCHANGED vars
  BY <1>1 DEF vars, lockVars, sweepVars, KeepInv, StampedOnce, KeepsNewest, SparesNewest,
     Spared, Doomed
<1>2. CASE Tick
  BY <1>2 DEF Tick, lockVars, sweepVars, KeepInv, StampedOnce, KeepsNewest, SparesNewest,
     Spared, Doomed
<1>3. ASSUME NEW p \in Procs, Start(p) \/ OpenRun(p) \/ AfterOpen(p) \/ Crash(p)
      PROVE  KeepInv'
  <2>1. SweepsApart(p)
    BY <1>3, SweepsAreApart
  <2>2. StampedOnce'
    BY <2>1, StampedOnceStep DEF KeepInv
  <2>3. ASSUME NEW q \in Procs PROVE KeepsNewest(q)'
    <3>1. CASE q = p
      BY <1>3, <3>1, OwnSweepKeepsNewest DEF KeepInv
    <3>2. CASE q # p
      BY <2>1, <3>2, OthersKeepNewest
    <3> QED
      BY <3>1, <3>2
  <2> QED
    BY <2>2, <2>3 DEF KeepInv
<1> QED
  BY <1>1, <1>2, <1>3 DEF Next

\* If no flock is interrupted and no unlink fails, a sweep that is over leaves at most retain_runs of the
\* runs it found dead and, unless it also reaps by age, no older one in place of a newer
\* one it deleted, whatever starts, dies or forks while it probes and reaps.
THEOREM NewestRunsAreKept ==
    ASSUME ~Interrupts, "unlink" \notin Faults
    PROVE  Spec => []SweepKeepsNewest
<1>1. Init => KeepInv
  BY DEF Init, KeepInv, StampedOnce, KeepsNewest, ReapSteps
<1>2. TypeOK /\ SweepInv /\ KeepInv /\ [Next]_vars => KeepInv'
  BY KeepInvStep DEF SweepInv
<1>3. KeepInv => SweepKeepsNewest
  <2> SUFFICES ASSUME KeepInv, NEW p \in Procs, pc[p] = "unlock", RetainRuns > 0
               PROVE  LET kept == {r \in dead[p] : lockFile[r]}
                      IN /\ Cardinality(kept) <= RetainRuns
                         /\ \A r \in kept, s \in dead[p] \ kept :
                              RetainAge = 0 => born[r] >= born[s]
    BY DEF SweepKeepsNewest
  <2>1. SparesNewest(p) /\ Doomed(p) = {}
    BY DEF KeepInv, KeepsNewest, ReapSteps, Doomed
  <2>2. Spared(p) = {r \in dead[p] : lockFile[r]}
    BY <2>1 DEF Spared
  <2> QED
    BY <2>1, <2>2 DEF SparesNewest
<1> QED
  BY <1>1, <1>2, <1>3, TypeCorrect, SweepCorrect, PTL DEF Spec

=============================================================================
