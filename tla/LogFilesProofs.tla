--------------------------- MODULE LogFilesProofs ---------------------------
(***************************************************************************)
(* Proofs about LogFiles, for any threads, modules and bounds.             *)
(***************************************************************************)
EXTENDS LogFiles, TLAPS

\* Where a call is about a module.
ModuleSteps == {"load", "lock", "recheck", "file", "publish"}

TypeInv ==
    /\ TypeOK
    /\ \A t \in Threads : pc[t] \in ModuleSteps => mod[t] \in Modules
    /\ \A t \in Threads : pc[t] = "slot" => fd[t] \in Fds

\* Every failure the code reports is one of OpenErrs.
LEMMA ErrTypes ==
    /\ NoErr \in OpenErrs
    /\ <<NoModule, "dir">> \in OpenErrs /\ <<NoModule, "file">> \in OpenErrs
    /\ \A m \in Modules \cup {NoModule} : <<m, "file">> \in OpenErrs
  BY DEF NoErr, OpenErrs, Codes

\* The record of a call has the fields a call has.
LEMMA CallTypes ==
    /\ NoCall \in Calls
    /\ \A c \in Calls : /\ c.in \in BOOLEAN /\ c.mod \in Modules \cup {NoModule}
                        /\ c.fd \in FdValues /\ c.oe \in OpenErrs
    /\ \A m \in Modules \cup {NoModule}, d \in FdValues, e \in OpenErrs :
         [in |-> TRUE, mod |-> m, fd |-> d, oe |-> e] \in Calls
  BY ErrTypes DEF NoCall, Calls, FdValues

\* A descriptor is neither of the two marks.
LEMMA FdTypes ==
    /\ NotOpened \in FdValues /\ GaveUp \in FdValues
    /\ \A d \in Fds : d \in FdValues /\ d # NotOpened /\ d # GaveUp /\ d > 0
    /\ NotOpened # GaveUp
  BY ConstantsAssumption DEF ConstantsAssumption, FdValues, Fds, NotOpened, GaveUp

\* Initially every variable has its type.
LEMMA TypeInit == Init => TypeInv
<1> SUFFICES ASSUME Init PROVE TypeInv
  OBVIOUS
<1>1. crash_fds \in [1 .. MaxCrashFds -> FdValues] /\ crash_count \in 0 .. MaxCrashFds
  BY ConstantsAssumption, FdTypes DEF Init, ConstantsAssumption
<1>2. file \in [Fds -> Entries]
  BY DEF Init, Entries
<1>3. outer \in [Threads -> Calls]
  BY CallTypes DEF Init
<1>4. oe \in [Threads -> OpenErrs] /\ reported \subseteq OpenErrs
  BY ErrTypes DEF Init
<1>5. pc \in [Threads -> Steps] /\ \A t \in Threads : pc[t] \notin ModuleSteps \cup {"slot"}
  BY DEF Init, Steps, ModuleSteps
<1>6. shared_fd \in FdValues /\ file_fd \in [Modules -> FdValues] /\ fd \in [Threads -> FdValues]
  BY FdTypes DEF Init
<1>7. {per_module, switched, run_open, closed, reborn, final} \subseteq BOOLEAN
  BY DEF Init
<1>9. init_state \in 0 .. 2 /\ opened \in Nat /\ epoch \in Nat
  BY DEF Init
<1>8. /\ mu \in Threads \cup {NoThread} /\ open_fds \subseteq Fds /\ unclosed \subseteq Fds
      /\ known \subseteq Modules
      /\ mod \in [Threads -> Modules \cup {NoModule}]
      /\ closing \in {"no", "shutdown", "restart", "reset"}
  BY DEF Init
<1> QED
  BY <1>1, <1>2, <1>3, <1>4, <1>5, <1>6, <1>7, <1>8, <1>9 DEF TypeInv, TypeOK

\* The kernel hands out a descriptor of the model, for a file of this epoch.
LEMMA AllocateType ==
    ASSUME TypeOK, NEW d \in Fds, NEW f \in Files, Allocate(d, f)
    PROVE  /\ file' \in [Fds -> Entries]
           /\ open_fds' = open_fds /\ unclosed' = unclosed
           /\ d \in FdValues
<1>1. <<epoch, f>> \in Entries
  BY DEF TypeOK, Entries
<1> QED
  BY <1>1, FdTypes DEF TypeOK, Allocate

\* Every step keeps the types.
LEMMA TypeStep ==
    ASSUME TypeInv, [Next]_vars
    PROVE  TypeInv'
<1> USE ErrTypes, CallTypes, FdTypes, ConstantsAssumption
    DEF ConstantsAssumption, TypeInv, TypeOK, ModuleSteps, Steps, CloseSteps, Goto, SetFd, configVars, runVars, fdVars, moduleVars, crashVars, callVars, lifeVars,
        stateVars
<1>1. CASE UNCHANGED vars
  BY <1>1 DEF vars
<1>2. ASSUME NEW t \in Threads, NEW m \in Modules, Log(t, m) PROVE TypeInv'
  BY <1>2 DEF Log, Resolve
<1>3. ASSUME NEW t \in Threads, CallInit(t) PROVE TypeInv'
  BY <1>3 DEF CallInit
<1>4. ASSUME NEW t \in Threads, NEW kind \in {"shutdown", "restart", "reset"},
             BeginClose(t, kind)
      PROVE TypeInv'
  BY <1>4 DEF BeginClose
<1>5. ASSUME NEW t \in Threads, SetPerModule(t) PROVE TypeInv'
  BY <1>5 DEF SetPerModule
<1>6. ASSUME NEW t \in Threads, Fork(t) PROVE TypeInv'
  BY <1>6 DEF Fork
<1>7. ASSUME NEW t \in Threads, Step(t) PROVE TypeInv'
  <2>1. CASE LoadFd(t)
    BY <2>1 DEF LoadFd
  <2>2. CASE Lock(t)
    BY <2>2 DEF Lock
  <2>3. CASE Recheck(t)
    BY <2>3 DEF Recheck, Reloaded
  <2>4. CASE RunTried(t)
    BY <2>4 DEF RunTried
  <2>5. CASE RunFails(t)
    BY <2>5 DEF RunFails, RunErr
  <2>6. CASE RunOpens(t)
    <3>1. /\ file' \in [Fds -> Entries]
          /\ open_fds' = open_fds /\ unclosed' = unclosed
          /\ shared_fd' \in FdValues
          /\ fd' \in [Threads -> FdValues]
      BY <2>6, AllocateType DEF RunOpens, Files
    <3>2. oe' \in [Threads -> OpenErrs]
      BY <2>6 DEF RunOpens
    <3>3. pc' \in [Threads -> Steps]
      BY <2>6 DEF RunOpens
    <3>4. \A u \in Threads : pc'[u] = "slot" => fd'[u] \in Fds
      BY <2>6 DEF RunOpens
    <3> QED
      BY <2>6, <3>1, <3>2, <3>3, <3>4 DEF RunOpens
  <2>7. CASE UseShared(t)
    BY <2>7 DEF UseShared
  <2>8. CASE OpenModuleFile(t)
    <3>1. /\ file' \in [Fds -> Entries]
          /\ open_fds' = open_fds /\ unclosed' = unclosed
          /\ fd' \in [Threads -> FdValues]
      <4>1. CASE UNCHANGED fdVars /\ fd' = [fd EXCEPT ![t] = GaveUp]
        BY <4>1
      <4>2. CASE \E d \in Fds : Allocate(d, mod[t]) /\ fd' = [fd EXCEPT ![t] = d]
        <5>1. mod[t] \in Files
          BY <2>8 DEF OpenModuleFile, Files
        <5> QED
          BY <4>2, <5>1, AllocateType
      <4> QED
        BY <2>8, <4>1, <4>2 DEF OpenModuleFile
    <3>2. oe' \in [Threads -> OpenErrs]
      <4>1. <<mod[t], "file">> \in OpenErrs
        OBVIOUS
      <4> QED
        BY <2>8, <4>1 DEF OpenModuleFile
    <3>3. pc' \in [Threads -> Steps]
      BY <2>8 DEF OpenModuleFile
    <3>4. \A u \in Threads : pc'[u] = "slot" => fd'[u] \in Fds
      BY <2>8 DEF OpenModuleFile
    <3> QED
      BY <2>8, <3>1, <3>2, <3>3, <3>4 DEF OpenModuleFile
  <2>9. CASE RegisterSlot(t)
    BY <2>9 DEF RegisterSlot, Tracked, HasRoom
  <2>10. CASE RegisterCount(t)
    BY <2>10 DEF RegisterCount, HasRoom
  <2>11. CASE Publish(t)
    BY <2>11 DEF Publish, Cached
  <2>12. CASE Release(t)
    BY <2>12 DEF Release, Released
  <2>13. CASE Report(t)
    <3>1. /\ pc' \in [Threads -> Steps] /\ oe' \in [Threads -> OpenErrs]
          /\ reported' \subseteq OpenErrs /\ fd' = fd
      <4>1. pc' \in [Threads -> Steps]
        BY <2>13 DEF Report
      <4>2. oe' \in [Threads -> OpenErrs] /\ reported' \subseteq OpenErrs /\ fd' = fd
        BY <2>13 DEF Report
      <4> QED
        BY <4>1, <4>2
    <3>2. outer' \in [Threads -> Calls]
      <4>1. [in |-> TRUE, mod |-> mod[t], fd |-> fd[t], oe |-> oe[t]] \in Calls
        OBVIOUS
      <4> QED
        BY <2>13, <4>1 DEF Report
    <3>3. \A u \in Threads : pc'[u] \in ModuleSteps => mod'[u] \in Modules
      BY <2>13 DEF Report
    <3>4. known' \subseteq Modules /\ mod' \in [Threads -> Modules \cup {NoModule}]
      <4>1. CASE known' = known /\ mod' = mod
        BY <4>1
      <4>2. CASE \E m \in Modules : known' = known \cup {m} /\ mod' = [mod EXCEPT ![t] = m]
        BY <4>2
      <4> QED
        BY <2>13, <4>1, <4>2, Zenon DEF Report, Resolve
    <3>5. \A u \in Threads : pc'[u] = "slot" => pc[u] = "slot"
      BY <2>13 DEF Report
    <3> QED
      BY <2>13, <3>1, <3>2, <3>3, <3>4, <3>5 DEF Report
  <2>14. CASE Finish(t)
    BY <2>14 DEF Finish
  <2>15. CASE CloseOne(t)
    <3>1. file' \in [Fds -> Entries] /\ unclosed' \subseteq Fds
      BY <2>15 DEF CloseOne, Entries
    <3> QED
      BY <2>15, <3>1 DEF CloseOne
  <2>16. CASE CloseDone(t)
    BY <2>16 DEF CloseDone, ListCleared
  <2>17. CASE ClearCrashFds(t)
    BY <2>17 DEF ClearCrashFds, CountCleared
  <2>18. CASE EndClose(t)
    <3>1. file_fd' \in [Modules -> FdValues] /\ init_state' \in 0 .. 2
      BY <2>18 DEF EndClose, Tried, FdForgot
    <3>2. /\ per_module' \in BOOLEAN /\ switched' \in BOOLEAN /\ run_open' \in BOOLEAN
          /\ closed' \in BOOLEAN /\ reborn' \in BOOLEAN /\ final' \in BOOLEAN
      BY <2>18 DEF EndClose
    <3>4. reported' \subseteq OpenErrs
      BY <2>18 DEF EndClose
    <3>5. opened' \in {0, opened} /\ epoch' \in {epoch, epoch + 1}
      BY <2>18, Zenon DEF EndClose
    <3>6. opened' \in Nat /\ epoch' \in Nat
      BY <3>5 DEF TypeOK
    <3>3. /\ pc' \in [Threads -> Steps]
          /\ \A u \in Threads : pc'[u] \in ModuleSteps => mod[u] \in Modules
      BY <2>18 DEF EndClose
    <3> QED
      BY <2>18, <3>1, <3>2, <3>3, <3>4, <3>5, <3>6 DEF EndClose
  <2> QED BY <1>7, <2>1, <2>2, <2>3, <2>4, <2>5, <2>6, <2>7, <2>8, <2>9, <2>10, <2>11, <2>12,
             <2>13, <2>14, <2>15, <2>16, <2>17, <2>18 DEF Step
<1> QED BY <1>1, <1>2, <1>3, <1>4, <1>5, <1>6, <1>7 DEF Next

\* Every variable has its type, whatever the threads, the modules and the bounds.
THEOREM TypeCorrect == Spec => []TypeOK
<1>1. TypeInv => TypeOK
  BY DEF TypeInv
<1> QED
  BY <1>1, TypeInit, TypeStep, PTL DEF Spec

----------------------------------------------------------------------------
(* The invariant, in the parts that need each other.                       *)

\* The steps of the code between lock and unlock of mu_.
Holding == {"recheck", "run", "file", "slot", "count", "publish", "release"} \cup CloseSteps

\* mu_ is held exactly between the steps that take and release it.
Exclusion == \A t \in Threads : pc[t] \in Holding <=> mu = t

\* What the program keeps to: nothing logs while files are closed.
QuietClosing ==
    /\ closing # "no" => \A t \in Threads : ~Logging(t)
    /\ \A t \in Threads : pc[t] \in CloseSteps => closing # "no"
    /\ \A t \in Threads : pc[t] \in {"clear", "forget"} => open_fds = {}
    /\ \A t \in Threads : pc[t] = "forget" => crash_count = 0

\* A call that is over has left nothing behind, and the modules spoken of have a
\* ModuleState.
CallShape ==
    /\ \A t \in Threads : ~outer[t].in => outer[t] = NoCall
    /\ \A t \in Threads : outer[t].in => Logging(t) \/ pc[t] = "gone"
    /\ \A t \in Threads : pc[t] \in {"idle", "initlock"} \cup CloseSteps => mod[t] = NoModule
    /\ \A t \in Threads : mod[t] \in known \cup {NoModule} /\ outer[t].mod \in known \cup {NoModule}
    /\ \A m \in Modules \ known : file_fd[m] = NotOpened

CallInv == Exclusion /\ QuietClosing /\ CallShape

\* Thread t has its module's own file open and not yet cached.
Opening(t, m) ==
    /\ pc[t] \in {"slot", "count", "publish"}
    /\ mod[t] = m /\ fd[t] \in Fds /\ file[fd[t]] = <<epoch, m>>

\* The descriptors of log files.
Opened == {d \in Fds : file[d] # NoFile}

\* open_fds_ is behind while an entry is being added, and ahead in a close loop.
ListInv ==
    /\ (\A t \in Threads : pc[t] \notin {"slot", "close"}) => open_fds = Opened
    /\ \A t \in Threads : pc[t] = "slot" =>
         fd[t] \in Opened /\ open_fds = Opened \ {fd[t]}
    /\ \A t \in Threads : pc[t] = "close" => unclosed = Opened
    /\ (\A t \in Threads : pc[t] # "close") => unclosed = {}

\* open_fds_, init_state_ and the end of a run.
RunInv ==
    /\ ListInv
    /\ opened = IF init_state = 1 THEN 1 ELSE 0
    /\ final => init_state = 1 /\ ~run_open /\ open_fds = {} /\ Opened = {}

\* Every open file is one of this epoch.
OneEpoch == \A d \in Fds : file[d] # NoFile => \E f \in Files : file[d] = <<epoch, f>>

\* The shared file is there only when the run was tried.
SharedTried == \A d \in Fds : file[d] = <<epoch, Shared>> => init_state # 0

\* What is open is cached, or the thread that opened it is about to.
CachedOrOpening ==
    \A d \in Fds, m \in Modules : file[d] = <<epoch, m>> =>
        file_fd[m] # NotOpened \/ (mu \in Threads /\ Opening(mu, m))

\* Who is about to open the file of a module finds it not opened.
NotYetOpened ==
    /\ \A t \in Threads : pc[t] \in {"run", "file"} /\ mod[t] \in Modules =>
         file_fd[mod[t]] = NotOpened
    /\ \A t \in Threads : pc[t] \in {"slot", "count"} /\ Opening(t, mod[t]) => per_module
    /\ \A t \in Threads : pc[t] \in {"slot", "count"} /\ mod[t] \in Modules =>
         file_fd[mod[t]] = NotOpened

\* No file is open twice.
FilesDistinct == \A d, e \in Fds : file[d] # NoFile /\ file[d] = file[e] => d = e

\* A descriptor is one of module m's lines, if it is one at all.
GoesTo(m, d) == d \in Fds => file[d] \in {<<epoch, m>>, <<epoch, Shared>>}

HasFd == {"slot", "count", "publish", "release", "report", "finish"}

\* Every descriptor a line can reach is one of its module's.
LineInv ==
    closing = "no" =>
      /\ \A m \in Modules : GoesTo(m, file_fd[m])
      /\ shared_fd \in Fds => file[shared_fd] = <<epoch, Shared>>
      /\ \A t \in Threads : pc[t] \in HasFd /\ mod[t] \in Modules => GoesTo(mod[t], fd[t])
      /\ \A t \in Threads : outer[t].in /\ pc[t] # "gone" /\ outer[t].mod \in Modules =>
           GoesTo(outer[t].mod, outer[t].fd)

\* The table of the crash handler, also while a descriptor is being added.
CrashInv ==
    /\ closing = "no" => \A i \in 1 .. crash_count : crash_fds[i] \in open_fds
    /\ \A d \in open_fds :
         \/ crash_count = MaxCrashFds
         \/ \E i \in 1 .. crash_count : crash_fds[i] = d
         \/ \E t \in Threads : pc[t] \in {"slot", "count"} /\ fd[t] = d
    /\ \A t \in Threads : pc[t] = "count" => fd[t] \in open_fds
    /\ \A t \in Threads : pc[t] = "count" /\ crash_count < MaxCrashFds =>
         crash_fds[crash_count + 1] = fd[t]

\* A failure is with the thread that met it until that thread reports it.
Carrying(t) == pc[t] \in {"file", "publish", "release", "report"} /\ oe[t] # NoErr
Spent       == reported \cup {oe[t] : t \in {u \in Threads : Carrying(u)}}

\* Where in a call there is a failure, and which.
CarryShape ==
    /\ \A t \in Threads : pc[t] \notin {"file", "publish", "release", "report", "finish", "gone"} =>
         oe[t] = NoErr
    /\ \A t \in Threads : pc[t] = "file" /\ oe[t] # NoErr => ~per_module
    /\ \A t \in Threads : pc[t] = "report" => oe[t] # NoErr

\* No two threads have the same failure to report.
CarryDistinct ==
    \A t \in Threads : Carrying(t) =>
        /\ oe[t] \notin reported
        /\ \A u \in Threads : u # t /\ Carrying(u) => oe[u] # oe[t]

\* Nothing is tried again that failed.
SpentTried ==
    /\ {<<NoModule, "dir">>, <<NoModule, "file">>} \cap Spent # {} => init_state # 0
    /\ \A m \in Modules : <<m, "file">> \in Spent =>
         file_fd[m] # NotOpened \/ (mu \in Threads /\ pc[mu] = "publish" /\ mod[mu] = m)

\* Nothing is cached before the run was tried, and no file is opened.
TriedInv ==
    /\ ~closed /\ init_state = 0 => \A m \in Modules : file_fd[m] = NotOpened
    /\ \A t \in Threads : pc[t] \in {"file", "publish", "slot", "count"} => init_state # 0
    /\ \A t \in Threads : pc[t] \in {"slot", "count"} => fd[t] \in Fds

\* What the settings were when the run was tried they still are.
Settled == ~reborn /\ ~closed /\ ~switched /\ init_state = 1

\* The failure that made module m lose its lines.
LostTo(m) == <<IF per_module THEN m ELSE NoModule, "file">>

\* Whoever lost lines to a failure, the failure was met.
ReportedInv ==
    /\ ~reborn /\ init_state = 2 => <<NoModule, "dir">> \in Spent
    /\ Settled /\ ~per_module /\ shared_fd \notin Fds => <<NoModule, "file">> \in Spent
    /\ Settled => \A m \in known : file_fd[m] = GaveUp => LostTo(m) \in Spent
    /\ Settled => \A t \in Threads : pc[t] = "publish" /\ fd[t] \notin Fds => LostTo(mod[t]) \in Spent

\* A step in which no failure is met or reported.
Kept ==
    /\ reported' = reported
    /\ \A u \in Threads : /\ Carrying(u)' <=> Carrying(u)
                          /\ Carrying(u) => oe'[u] = oe[u]

\* mu_ is taken and released where the code locks and unlocks it.
LEMMA ExclusionStep ==
    ASSUME TypeInv, Exclusion, [Next]_vars
    PROVE  Exclusion'
<1> USE ConstantsAssumption DEF ConstantsAssumption, TypeInv, TypeOK, Exclusion, Holding, Steps, CloseSteps, Logging, Goto, SetFd,
        configVars, runVars, fdVars, moduleVars, crashVars, callVars, lifeVars,
        stateVars
<1>1. CASE UNCHANGED vars
  BY <1>1 DEF vars
<1>2. ASSUME NEW t \in Threads, NEW m \in Modules, Log(t, m) PROVE Exclusion'
  BY <1>2 DEF Log, Resolve
<1>3. ASSUME NEW t \in Threads, CallInit(t) PROVE Exclusion'
  BY <1>3 DEF CallInit
<1>4. ASSUME NEW t \in Threads, NEW kind \in {"shutdown", "restart", "reset"},
             BeginClose(t, kind)
      PROVE Exclusion'
  BY <1>4 DEF BeginClose
<1>5. ASSUME NEW t \in Threads, SetPerModule(t) PROVE Exclusion'
  BY <1>5 DEF SetPerModule
<1>6. ASSUME NEW t \in Threads, Fork(t) PROVE Exclusion'
  BY <1>6 DEF Fork
<1>7. ASSUME NEW t \in Threads, Step(t) PROVE Exclusion'
  <2>1. CASE LoadFd(t)
    BY <2>1 DEF LoadFd
  <2>2. CASE Lock(t)
    BY <2>2 DEF Lock
  <2>3. CASE Recheck(t)
    BY <2>3 DEF Recheck, Reloaded
  <2>4. CASE RunTried(t)
    BY <2>4 DEF RunTried
  <2>5. CASE RunFails(t)
    BY <2>5 DEF RunFails, RunErr
  <2>6. CASE RunOpens(t)
    BY <2>6 DEF RunOpens, Allocate
  <2>7. CASE UseShared(t)
    BY <2>7 DEF UseShared
  <2>8. CASE OpenModuleFile(t)
    BY <2>8 DEF OpenModuleFile, Allocate
  <2>9. CASE RegisterSlot(t)
    BY <2>9 DEF RegisterSlot, Tracked, HasRoom
  <2>10. CASE RegisterCount(t)
    BY <2>10 DEF RegisterCount, HasRoom
  <2>11. CASE Publish(t)
    BY <2>11 DEF Publish, Cached
  <2>12. CASE Release(t)
    BY <2>12 DEF Release, Released
  <2>13. CASE Report(t)
    BY <2>13 DEF Report, Resolve
  <2>14. CASE Finish(t)
    BY <2>14 DEF Finish
  <2>15. CASE CloseOne(t)
    BY <2>15 DEF CloseOne
  <2>16. CASE CloseDone(t)
    BY <2>16 DEF CloseDone, ListCleared
  <2>17. CASE ClearCrashFds(t)
    BY <2>17 DEF ClearCrashFds, CountCleared
  <2>18. CASE EndClose(t)
    BY <2>18 DEF EndClose, Tried, FdForgot
  <2> QED BY <1>7, <2>1, <2>2, <2>3, <2>4, <2>5, <2>6, <2>7, <2>8, <2>9, <2>10, <2>11, <2>12,
             <2>13, <2>14, <2>15, <2>16, <2>17, <2>18 DEF Step
<1> QED BY <1>1, <1>2, <1>3, <1>4, <1>5, <1>6, <1>7 DEF Next

\* What closes files runs alone, to its end.
LEMMA QuietClosingStep ==
    ASSUME TypeInv, Exclusion, QuietClosing, [Next]_vars
    PROVE  QuietClosing'
<1> USE ConstantsAssumption DEF ConstantsAssumption, TypeInv, TypeOK, Exclusion, QuietClosing, Holding, Steps, CloseSteps, Logging, Goto, SetFd,
        configVars, runVars, fdVars, moduleVars, crashVars, callVars, lifeVars,
        stateVars
<1>1. CASE UNCHANGED vars
  BY <1>1 DEF vars
<1>2. ASSUME NEW t \in Threads, NEW m \in Modules, Log(t, m) PROVE QuietClosing'
  BY <1>2 DEF Log, Resolve
<1>3. ASSUME NEW t \in Threads, CallInit(t) PROVE QuietClosing'
  BY <1>3 DEF CallInit
<1>4. ASSUME NEW t \in Threads, NEW kind \in {"shutdown", "restart", "reset"},
             BeginClose(t, kind)
      PROVE QuietClosing'
  BY <1>4 DEF BeginClose
<1>5. ASSUME NEW t \in Threads, SetPerModule(t) PROVE QuietClosing'
  BY <1>5 DEF SetPerModule
<1>6. ASSUME NEW t \in Threads, Fork(t) PROVE QuietClosing'
  BY <1>6 DEF Fork
<1>7. ASSUME NEW t \in Threads, Step(t) PROVE QuietClosing'
  <2>1. CASE LoadFd(t)
    BY <2>1 DEF LoadFd
  <2>2. CASE Lock(t)
    BY <2>2 DEF Lock
  <2>3. CASE Recheck(t)
    BY <2>3 DEF Recheck, Reloaded
  <2>4. CASE RunTried(t)
    BY <2>4 DEF RunTried
  <2>5. CASE RunFails(t)
    BY <2>5 DEF RunFails, RunErr
  <2>6. CASE RunOpens(t)
    BY <2>6 DEF RunOpens, Allocate
  <2>7. CASE UseShared(t)
    BY <2>7 DEF UseShared
  <2>8. CASE OpenModuleFile(t)
    BY <2>8 DEF OpenModuleFile, Allocate
  <2>9. CASE RegisterSlot(t)
    BY <2>9 DEF RegisterSlot, Tracked, HasRoom
  <2>10. CASE RegisterCount(t)
    BY <2>10 DEF RegisterCount, HasRoom
  <2>11. CASE Publish(t)
    BY <2>11 DEF Publish, Cached
  <2>12. CASE Release(t)
    BY <2>12 DEF Release, Released
  <2>13. CASE Report(t)
    BY <2>13 DEF Report, Resolve
  <2>14. CASE Finish(t)
    BY <2>14 DEF Finish
  <2>15. CASE CloseOne(t)
    BY <2>15 DEF CloseOne
  <2>16. CASE CloseDone(t)
    BY <2>16 DEF CloseDone, ListCleared
  <2>17. CASE ClearCrashFds(t)
    BY <2>17 DEF ClearCrashFds, CountCleared
  <2>18. CASE EndClose(t)
    BY <2>18 DEF EndClose, Tried, FdForgot
  <2> QED BY <1>7, <2>1, <2>2, <2>3, <2>4, <2>5, <2>6, <2>7, <2>8, <2>9, <2>10, <2>11, <2>12,
             <2>13, <2>14, <2>15, <2>16, <2>17, <2>18 DEF Step
<1> QED BY <1>1, <1>2, <1>3, <1>4, <1>5, <1>6, <1>7 DEF Next

\* Calls begin and end clean; resolve_module comes before everything else.
LEMMA CallShapeStep ==
    ASSUME TypeInv, CallShape, [Next]_vars
    PROVE  CallShape'
<1> USE CallTypes DEF TypeInv, TypeOK, CallShape, CloseSteps, Steps, Logging, Goto, SetFd,
        configVars, runVars, fdVars, moduleVars, crashVars, callVars, lifeVars,
        stateVars
<1>1. CASE UNCHANGED vars
  BY <1>1 DEF vars
<1>2. ASSUME NEW t \in Threads, NEW m \in Modules, Log(t, m) PROVE CallShape'
  BY <1>2 DEF Log, Resolve
<1>3. ASSUME NEW t \in Threads, CallInit(t) PROVE CallShape'
  BY <1>3 DEF CallInit
<1>4. ASSUME NEW t \in Threads, NEW kind \in {"shutdown", "restart", "reset"},
             BeginClose(t, kind)
      PROVE CallShape'
  BY <1>4 DEF BeginClose
<1>5. ASSUME NEW t \in Threads, SetPerModule(t) PROVE CallShape'
  BY <1>5 DEF SetPerModule
<1>6. ASSUME NEW t \in Threads, Fork(t) PROVE CallShape'
  BY <1>6 DEF Fork
<1>7. ASSUME NEW t \in Threads, Step(t) PROVE CallShape'
  <2>1. CASE LoadFd(t)
    BY <2>1 DEF LoadFd
  <2>2. CASE Lock(t)
    BY <2>2 DEF Lock
  <2>3. CASE Recheck(t)
    BY <2>3 DEF Recheck, Reloaded
  <2>4. CASE RunTried(t)
    BY <2>4 DEF RunTried
  <2>5. CASE RunFails(t)
    BY <2>5 DEF RunFails, RunErr
  <2>6. CASE RunOpens(t)
    BY <2>6 DEF RunOpens, Allocate
  <2>7. CASE UseShared(t)
    BY <2>7 DEF UseShared
  <2>8. CASE OpenModuleFile(t)
    BY <2>8 DEF OpenModuleFile, Allocate
  <2>9. CASE RegisterSlot(t)
    BY <2>9 DEF RegisterSlot, Tracked, HasRoom
  <2>10. CASE RegisterCount(t)
    BY <2>10 DEF RegisterCount, HasRoom
  <2>11. CASE Publish(t)
    <3>1. \A m \in Modules : file_fd'[m] = file_fd[m] \/ m = mod[t]
      BY <2>11 DEF Publish
    <3>2. mod[t] \in known \cup {NoModule} /\ mod[t] \in Modules /\ mod[t] # NoModule
      BY <2>11, ConstantsAssumption DEF Publish, ConstantsAssumption, Files, ModuleSteps
    <3>3. \A m \in Modules \ known' : file_fd'[m] = NotOpened
      BY <2>11, <3>1, <3>2 DEF Publish
    <3> QED
      BY <2>11, <3>3 DEF Publish
  <2>12. CASE Release(t)
    BY <2>12 DEF Release, Released
  <2>13. CASE Report(t)
    <3>1. /\ \A u \in Threads : u # t => /\ pc'[u] = pc[u] /\ mod'[u] = mod[u]
                                       /\ outer'[u] = outer[u]
          /\ pc'[t] \in {"load", "finish"} /\ known \subseteq known' /\ file_fd' = file_fd
      BY <2>13 DEF Report, Resolve
    <3>2. CASE mod' = mod /\ outer' = outer
      BY <3>1, <3>2
    <3>3. CASE /\ mod'[t] \in known'
               /\ outer'[t].in /\ outer'[t].mod = mod[t]
      BY <3>1, <3>3
    <3>4. \/ mod' = mod /\ outer' = outer
          \/ mod'[t] \in known' /\ outer'[t].in /\ outer'[t].mod = mod[t]
      BY <2>13 DEF Report, Resolve
    <3> QED
      BY <3>2, <3>3, <3>4
  <2>14. CASE Finish(t)
    <3>1. /\ \A u \in Threads : u # t => /\ pc'[u] = pc[u] /\ mod'[u] = mod[u]
                                       /\ outer'[u] = outer[u]
          /\ pc'[t] = IF outer[t].in THEN "finish" ELSE "idle"
          /\ mod'[t] = outer[t].mod /\ outer'[t] = NoCall
          /\ known' = known /\ file_fd' = file_fd
      BY <2>14 DEF Finish
    <3>2. NoCall.mod = NoModule /\ ~NoCall.in
      BY DEF NoCall
    <3> QED
      BY <3>1, <3>2
  <2>15. CASE CloseOne(t)
    BY <2>15 DEF CloseOne
  <2>16. CASE CloseDone(t)
    BY <2>16 DEF CloseDone, ListCleared
  <2>17. CASE ClearCrashFds(t)
    BY <2>17 DEF ClearCrashFds, CountCleared
  <2>18. CASE EndClose(t)
    BY <2>18 DEF EndClose, Tried, FdForgot
  <2> QED BY <1>7, <2>1, <2>2, <2>3, <2>4, <2>5, <2>6, <2>7, <2>8, <2>9, <2>10, <2>11, <2>12,
             <2>13, <2>14, <2>15, <2>16, <2>17, <2>18 DEF Step
<1> QED BY <1>1, <1>2, <1>3, <1>4, <1>5, <1>6, <1>7 DEF Next

\* A descriptor that is open is not free: no file is named like the mark of a free one.
LEMMA NotFree ==
    /\ \A f \in Files : <<epoch, f>> # NoFile
    /\ Modules \subseteq Files /\ Shared \in Files
    /\ NoModule \notin Modules /\ Shared \notin Modules
  BY ConstantsAssumption DEF ConstantsAssumption, Files, NoFile

\* open_fds_ follows every open, and the clear at the end of every close loop.
LEMMA ListStep ==
    ASSUME TypeInv, CallInv, ListInv, [Next]_vars
    PROVE  ListInv'
<1> USE NotFree, ConstantsAssumption DEF ConstantsAssumption, CallInv, QuietClosing, Exclusion, TypeInv, TypeOK, ListInv, Opened, ModuleSteps, Holding, CloseSteps, Logging, Goto, SetFd,
        configVars, runVars, fdVars, moduleVars, crashVars, callVars, lifeVars,
        stateVars
<1>1. CASE UNCHANGED vars
  BY <1>1 DEF vars
<1>2. ASSUME NEW t \in Threads, NEW m \in Modules, Log(t, m) PROVE ListInv'
  BY <1>2 DEF Log, Resolve
<1>3. ASSUME NEW t \in Threads, CallInit(t) PROVE ListInv'
  BY <1>3 DEF CallInit
<1>4. ASSUME NEW t \in Threads, NEW kind \in {"shutdown", "restart", "reset"},
             BeginClose(t, kind)
      PROVE ListInv'
  BY <1>4 DEF BeginClose
<1>5. ASSUME NEW t \in Threads, SetPerModule(t) PROVE ListInv'
  BY <1>5 DEF SetPerModule
<1>6. ASSUME NEW t \in Threads, Fork(t) PROVE ListInv'
  BY <1>6 DEF Fork
<1>7. ASSUME NEW t \in Threads, Step(t) PROVE ListInv'
  <2>1. CASE LoadFd(t)
    BY <2>1 DEF LoadFd
  <2>2. CASE Lock(t)
    BY <2>2 DEF Lock
  <2>3. CASE Recheck(t)
    BY <2>3 DEF Recheck, Reloaded
  <2>4. CASE RunTried(t)
    BY <2>4 DEF RunTried
  <2>5. CASE RunFails(t)
    BY <2>5 DEF RunFails, RunErr
  <2>6. CASE RunOpens(t)
    BY <2>6 DEF RunOpens, Allocate
  <2>7. CASE UseShared(t)
    BY <2>7 DEF UseShared
  <2>8. CASE OpenModuleFile(t)
    <3>1. <<epoch, mod[t]>> # NoFile
      BY <2>8, NotFree DEF OpenModuleFile, ModuleSteps
    <3> QED
      BY <2>8, <3>1 DEF OpenModuleFile, Allocate
  <2>9. CASE RegisterSlot(t)
    BY <2>9 DEF RegisterSlot, Tracked, HasRoom
  <2>10. CASE RegisterCount(t)
    BY <2>10 DEF RegisterCount, HasRoom
  <2>11. CASE Publish(t)
    BY <2>11 DEF Publish, Cached
  <2>12. CASE Release(t)
    BY <2>12 DEF Release, Released
  <2>13. CASE Report(t)
    BY <2>13 DEF Report, Resolve
  <2>14. CASE Finish(t)
    BY <2>14 DEF Finish
  <2>15. CASE CloseOne(t)
    BY <2>15 DEF CloseOne
  <2>16. CASE CloseDone(t)
    BY <2>16 DEF CloseDone, ListCleared
  <2>17. CASE ClearCrashFds(t)
    BY <2>17 DEF ClearCrashFds, CountCleared
  <2>18. CASE EndClose(t)
    BY <2>18 DEF EndClose, Tried, FdForgot
  <2> QED BY <1>7, <2>1, <2>2, <2>3, <2>4, <2>5, <2>6, <2>7, <2>8, <2>9, <2>10, <2>11, <2>12,
             <2>13, <2>14, <2>15, <2>16, <2>17, <2>18 DEF Step
<1> QED BY <1>1, <1>2, <1>3, <1>4, <1>5, <1>6, <1>7 DEF Next

\* When a close forgets the run, no log file is open.
LEMMA ClosedAll ==
    ASSUME CallInv, ListInv, NEW t \in Threads, EndClose(t)
    PROVE  /\ \A d \in Fds : file[d] = NoFile /\ file'[d] = NoFile
           /\ open_fds = {} /\ open_fds' = {}
<1>1. pc[t] = "forget" /\ file' = file /\ open_fds' = open_fds
  BY DEF EndClose, fdVars
<1>2. \A u \in Threads : pc[u] \notin {"slot", "close"}
  BY <1>1 DEF CallInv, Exclusion, Holding, CloseSteps
<1>3. open_fds = {} /\ open_fds = Opened
  BY <1>1, <1>2 DEF CallInv, QuietClosing, ListInv
<1> QED
  BY <1>1, <1>3 DEF Opened

\* The run is opened once, and shutdown closes it for good.
LEMMA RunStep ==
    ASSUME TypeInv, CallInv, RunInv, [Next]_vars
    PROVE  RunInv'
<1> USE ListStep DEF CallInv, QuietClosing, TypeInv, TypeOK, RunInv, Opened, Logging, CloseSteps, Goto, SetFd,
        configVars, runVars, fdVars, moduleVars, crashVars, callVars, lifeVars,
        stateVars
<1>1. CASE UNCHANGED vars
  BY <1>1 DEF vars
<1>2. ASSUME NEW t \in Threads, NEW m \in Modules, Log(t, m) PROVE RunInv'
  BY <1>2 DEF Log, Resolve
<1>3. ASSUME NEW t \in Threads, CallInit(t) PROVE RunInv'
  BY <1>3 DEF CallInit
<1>4. ASSUME NEW t \in Threads, NEW kind \in {"shutdown", "restart", "reset"},
             BeginClose(t, kind)
      PROVE RunInv'
  BY <1>4 DEF BeginClose
<1>5. ASSUME NEW t \in Threads, SetPerModule(t) PROVE RunInv'
  BY <1>5 DEF SetPerModule
<1>6. ASSUME NEW t \in Threads, Fork(t) PROVE RunInv'
  BY <1>6 DEF Fork
<1>7. ASSUME NEW t \in Threads, Step(t) PROVE RunInv'
  <2>1. CASE LoadFd(t)
    BY <2>1 DEF LoadFd
  <2>2. CASE Lock(t)
    BY <2>2 DEF Lock
  <2>3. CASE Recheck(t)
    BY <2>3 DEF Recheck, Reloaded
  <2>4. CASE RunTried(t)
    BY <2>4 DEF RunTried
  <2>5. CASE RunFails(t)
    BY <2>5 DEF RunFails, RunErr
  <2>6. CASE RunOpens(t)
    BY <2>6 DEF RunOpens, Allocate
  <2>7. CASE UseShared(t)
    BY <2>7 DEF UseShared
  <2>8. CASE OpenModuleFile(t)
    BY <2>8 DEF OpenModuleFile, Allocate
  <2>9. CASE RegisterSlot(t)
    <3>1. Opened # {} /\ Opened' = Opened
      BY <2>9 DEF RegisterSlot, ListInv, Opened
    <3> QED
      BY <2>9, <3>1 DEF RegisterSlot, Tracked, HasRoom
  <2>10. CASE RegisterCount(t)
    BY <2>10 DEF RegisterCount, HasRoom
  <2>11. CASE Publish(t)
    BY <2>11 DEF Publish, Cached
  <2>12. CASE Release(t)
    BY <2>12 DEF Release, Released
  <2>13. CASE Report(t)
    BY <2>13 DEF Report, Resolve
  <2>14. CASE Finish(t)
    BY <2>14 DEF Finish
  <2>15. CASE CloseOne(t)
    BY <2>15 DEF CloseOne
  <2>16. CASE CloseDone(t)
    BY <2>16 DEF CloseDone, ListCleared
  <2>17. CASE ClearCrashFds(t)
    BY <2>17 DEF ClearCrashFds, CountCleared
  <2>18. CASE EndClose(t)
    <3>1. Opened' = {} /\ open_fds' = {}
      BY <2>18, ClosedAll DEF Opened
    <3> QED
      BY <2>18, <3>1 DEF EndClose, Tried, FdForgot
  <2> QED BY <1>7, <2>1, <2>2, <2>3, <2>4, <2>5, <2>6, <2>7, <2>8, <2>9, <2>10, <2>11, <2>12,
             <2>13, <2>14, <2>15, <2>16, <2>17, <2>18 DEF Step
<1> QED BY <1>1, <1>2, <1>3, <1>4, <1>5, <1>6, <1>7 DEF Next

\* A close leaves no file behind for the next life of the process.
LEMMA OneEpochStep ==
    ASSUME TypeInv, CallInv, RunInv, OneEpoch, [Next]_vars
    PROVE  OneEpoch'
<1> USE NotFree DEF TypeInv, TypeOK, OneEpoch, ModuleSteps, Goto, SetFd,
        configVars, runVars, fdVars, moduleVars, crashVars, callVars, lifeVars,
        stateVars
<1>1. CASE UNCHANGED vars
  BY <1>1 DEF vars
<1>2. ASSUME NEW t \in Threads, NEW m \in Modules, Log(t, m) PROVE OneEpoch'
  BY <1>2 DEF Log, Resolve
<1>3. ASSUME NEW t \in Threads, CallInit(t) PROVE OneEpoch'
  BY <1>3 DEF CallInit
<1>4. ASSUME NEW t \in Threads, NEW kind \in {"shutdown", "restart", "reset"},
             BeginClose(t, kind)
      PROVE OneEpoch'
  BY <1>4 DEF BeginClose
<1>5. ASSUME NEW t \in Threads, SetPerModule(t) PROVE OneEpoch'
  BY <1>5 DEF SetPerModule
<1>6. ASSUME NEW t \in Threads, Fork(t) PROVE OneEpoch'
  BY <1>6 DEF Fork
<1>7. ASSUME NEW t \in Threads, Step(t) PROVE OneEpoch'
  <2>1. CASE LoadFd(t)
    BY <2>1 DEF LoadFd
  <2>2. CASE Lock(t)
    BY <2>2 DEF Lock
  <2>3. CASE Recheck(t)
    BY <2>3 DEF Recheck, Reloaded
  <2>4. CASE RunTried(t)
    BY <2>4 DEF RunTried
  <2>5. CASE RunFails(t)
    BY <2>5 DEF RunFails, RunErr
  <2>6. CASE RunOpens(t)
    BY <2>6 DEF RunOpens, Allocate
  <2>7. CASE UseShared(t)
    BY <2>7 DEF UseShared
  <2>8. CASE OpenModuleFile(t)
    BY <2>8 DEF OpenModuleFile, Allocate
  <2>9. CASE RegisterSlot(t)
    BY <2>9 DEF RegisterSlot, Tracked, HasRoom
  <2>10. CASE RegisterCount(t)
    BY <2>10 DEF RegisterCount, HasRoom
  <2>11. CASE Publish(t)
    BY <2>11 DEF Publish, Cached
  <2>12. CASE Release(t)
    BY <2>12 DEF Release, Released
  <2>13. CASE Report(t)
    BY <2>13 DEF Report, Resolve
  <2>14. CASE Finish(t)
    BY <2>14 DEF Finish
  <2>15. CASE CloseOne(t)
    BY <2>15 DEF CloseOne
  <2>16. CASE CloseDone(t)
    BY <2>16 DEF CloseDone, ListCleared
  <2>17. CASE ClearCrashFds(t)
    BY <2>17 DEF ClearCrashFds, CountCleared
  <2>18. CASE EndClose(t)
    BY <2>18, ClosedAll DEF RunInv
  <2> QED BY <1>7, <2>1, <2>2, <2>3, <2>4, <2>5, <2>6, <2>7, <2>8, <2>9, <2>10, <2>11, <2>12,
             <2>13, <2>14, <2>15, <2>16, <2>17, <2>18 DEF Step
<1> QED BY <1>1, <1>2, <1>3, <1>4, <1>5, <1>6, <1>7 DEF Next

\* The shared file is opened with the run only.
LEMMA SharedTriedStep ==
    ASSUME TypeInv, CallInv, RunInv, SharedTried, [Next]_vars
    PROVE  SharedTried'
<1> USE NotFree DEF TypeInv, TypeOK, SharedTried, ModuleSteps, Goto, SetFd,
        configVars, runVars, fdVars, moduleVars, crashVars, callVars, lifeVars,
        stateVars
<1>1. CASE UNCHANGED vars
  BY <1>1 DEF vars
<1>2. ASSUME NEW t \in Threads, NEW m \in Modules, Log(t, m) PROVE SharedTried'
  BY <1>2 DEF Log, Resolve
<1>3. ASSUME NEW t \in Threads, CallInit(t) PROVE SharedTried'
  BY <1>3 DEF CallInit
<1>4. ASSUME NEW t \in Threads, NEW kind \in {"shutdown", "restart", "reset"},
             BeginClose(t, kind)
      PROVE SharedTried'
  BY <1>4 DEF BeginClose
<1>5. ASSUME NEW t \in Threads, SetPerModule(t) PROVE SharedTried'
  BY <1>5 DEF SetPerModule
<1>6. ASSUME NEW t \in Threads, Fork(t) PROVE SharedTried'
  BY <1>6 DEF Fork
<1>7. ASSUME NEW t \in Threads, Step(t) PROVE SharedTried'
  <2>1. CASE LoadFd(t)
    BY <2>1 DEF LoadFd
  <2>2. CASE Lock(t)
    BY <2>2 DEF Lock
  <2>3. CASE Recheck(t)
    BY <2>3 DEF Recheck, Reloaded
  <2>4. CASE RunTried(t)
    BY <2>4 DEF RunTried
  <2>5. CASE RunFails(t)
    BY <2>5 DEF RunFails, RunErr
  <2>6. CASE RunOpens(t)
    BY <2>6 DEF RunOpens, Allocate
  <2>7. CASE UseShared(t)
    BY <2>7 DEF UseShared
  <2>8. CASE OpenModuleFile(t)
    BY <2>8 DEF OpenModuleFile, Allocate
  <2>9. CASE RegisterSlot(t)
    BY <2>9 DEF RegisterSlot, Tracked, HasRoom
  <2>10. CASE RegisterCount(t)
    BY <2>10 DEF RegisterCount, HasRoom
  <2>11. CASE Publish(t)
    BY <2>11 DEF Publish, Cached
  <2>12. CASE Release(t)
    BY <2>12 DEF Release, Released
  <2>13. CASE Report(t)
    BY <2>13 DEF Report, Resolve
  <2>14. CASE Finish(t)
    BY <2>14 DEF Finish
  <2>15. CASE CloseOne(t)
    BY <2>15 DEF CloseOne
  <2>16. CASE CloseDone(t)
    BY <2>16 DEF CloseDone, ListCleared
  <2>17. CASE ClearCrashFds(t)
    BY <2>17 DEF ClearCrashFds, CountCleared
  <2>18. CASE EndClose(t)
    <3>1. \A d \in Fds : file'[d] = NoFile
      BY <2>18, ClosedAll DEF RunInv
    <3>2. <<epoch', Shared>> # NoFile
      BY NotFree, ConstantsAssumption DEF NoFile, ConstantsAssumption, Files
    <3> QED
      BY <3>1, <3>2
  <2> QED BY <1>7, <2>1, <2>2, <2>3, <2>4, <2>5, <2>6, <2>7, <2>8, <2>9, <2>10, <2>11, <2>12,
             <2>13, <2>14, <2>15, <2>16, <2>17, <2>18 DEF Step
<1> QED BY <1>1, <1>2, <1>3, <1>4, <1>5, <1>6, <1>7 DEF Next

\* Nobody opens a module's file between the re-check and the open.
LEMMA NotYetOpenedStep ==
    ASSUME TypeInv, CallInv, NotYetOpened, [Next]_vars
    PROVE  NotYetOpened'
<1> USE NotFree, ConstantsAssumption DEF ConstantsAssumption, CallInv, QuietClosing, Exclusion, CallShape, TypeInv, TypeOK, NotYetOpened, Opening, ModuleSteps, Holding, CloseSteps, Logging, Goto, SetFd,
        configVars, runVars, fdVars, moduleVars, crashVars, callVars, lifeVars,
        stateVars
<1>1. CASE UNCHANGED vars
  BY <1>1 DEF vars
<1>2. ASSUME NEW t \in Threads, NEW m \in Modules, Log(t, m) PROVE NotYetOpened'
  BY <1>2 DEF Log, Resolve
<1>3. ASSUME NEW t \in Threads, CallInit(t) PROVE NotYetOpened'
  BY <1>3 DEF CallInit
<1>4. ASSUME NEW t \in Threads, NEW kind \in {"shutdown", "restart", "reset"},
             BeginClose(t, kind)
      PROVE NotYetOpened'
  BY <1>4 DEF BeginClose
<1>5. ASSUME NEW t \in Threads, SetPerModule(t) PROVE NotYetOpened'
  BY <1>5 DEF SetPerModule
<1>6. ASSUME NEW t \in Threads, Fork(t) PROVE NotYetOpened'
  BY <1>6 DEF Fork
<1>7. ASSUME NEW t \in Threads, Step(t) PROVE NotYetOpened'
  <2>1. CASE LoadFd(t)
    BY <2>1 DEF LoadFd
  <2>2. CASE Lock(t)
    BY <2>2 DEF Lock
  <2>3. CASE Recheck(t)
    BY <2>3 DEF Recheck, Reloaded
  <2>4. CASE RunTried(t)
    BY <2>4 DEF RunTried
  <2>5. CASE RunFails(t)
    BY <2>5 DEF RunFails, RunErr
  <2>6. CASE RunOpens(t)
    BY <2>6 DEF RunOpens, Allocate
  <2>7. CASE UseShared(t)
    BY <2>7 DEF UseShared
  <2>8. CASE OpenModuleFile(t)
    BY <2>8 DEF OpenModuleFile, Allocate
  <2>9. CASE RegisterSlot(t)
    BY <2>9 DEF RegisterSlot, Tracked, HasRoom
  <2>10. CASE RegisterCount(t)
    BY <2>10 DEF RegisterCount, HasRoom
  <2>11. CASE Publish(t)
    BY <2>11 DEF Publish, Cached
  <2>12. CASE Release(t)
    BY <2>12 DEF Release, Released
  <2>13. CASE Report(t)
    BY <2>13 DEF Report, Resolve
  <2>14. CASE Finish(t)
    BY <2>14 DEF Finish
  <2>15. CASE CloseOne(t)
    BY <2>15 DEF CloseOne
  <2>16. CASE CloseDone(t)
    BY <2>16 DEF CloseDone, ListCleared
  <2>17. CASE ClearCrashFds(t)
    BY <2>17 DEF ClearCrashFds, CountCleared
  <2>18. CASE EndClose(t)
    BY <2>18 DEF EndClose, Tried, FdForgot
  <2> QED BY <1>7, <2>1, <2>2, <2>3, <2>4, <2>5, <2>6, <2>7, <2>8, <2>9, <2>10, <2>11, <2>12,
             <2>13, <2>14, <2>15, <2>16, <2>17, <2>18 DEF Step
<1> QED BY <1>1, <1>2, <1>3, <1>4, <1>5, <1>6, <1>7 DEF Next

\* A step that opens nothing keeps what is cached, if the opening thread goes on.
LEMMA CachedStays ==
    ASSUME CachedOrOpening, epoch' = epoch, file_fd' = file_fd,
           \A d \in Fds : file'[d] \in {file[d], NoFile},
           mu \in Threads /\ pc[mu] \in {"slot", "count", "publish"} =>
             /\ mu' = mu /\ mod'[mu] = mod[mu] /\ fd'[mu] = fd[mu]
             /\ (pc'[mu] \in {"slot", "count", "publish"} \/ \A m \in Modules : ~Opening(mu, m))
             /\ file' = file
    PROVE  CachedOrOpening'
<1> SUFFICES ASSUME NEW d \in Fds, NEW m \in Modules, file'[d] = <<epoch, m>>
             PROVE  file_fd[m] # NotOpened \/ (mu' \in Threads /\ Opening(mu, m)')
  BY DEF CachedOrOpening
<1>1. file[d] = <<epoch, m>>
  BY NotFree
<1>2. CASE mu \in Threads /\ Opening(mu, m)
  BY <1>2 DEF Opening
<1>3. file_fd[m] # NotOpened \/ (mu \in Threads /\ Opening(mu, m))
  BY <1>1 DEF CachedOrOpening
<1> QED
  BY <1>2, <1>3

\* An open module file is cached or about to be.
LEMMA CachedStep ==
    ASSUME TypeInv, CallInv, RunInv, NotYetOpened, CachedOrOpening, [Next]_vars
    PROVE  CachedOrOpening'
<1> USE NotFree, FdTypes DEF CallInv, QuietClosing, Exclusion, CallShape, TypeInv, TypeOK, NotYetOpened, ModuleSteps, Holding, CloseSteps, Logging, Goto, SetFd,
        configVars, runVars, fdVars, moduleVars, crashVars, callVars, lifeVars,
        stateVars
<1>1. CASE UNCHANGED vars
  BY <1>1, CachedStays DEF vars
<1>2. ASSUME NEW t \in Threads, NEW m \in Modules, Log(t, m) PROVE CachedOrOpening'
  BY <1>2, CachedStays DEF Log, Resolve
<1>3. ASSUME NEW t \in Threads, CallInit(t) PROVE CachedOrOpening'
  BY <1>3, CachedStays DEF CallInit
<1>4. ASSUME NEW t \in Threads, NEW kind \in {"shutdown", "restart", "reset"},
             BeginClose(t, kind)
      PROVE CachedOrOpening'
  BY <1>4, CachedStays DEF BeginClose
<1>5. ASSUME NEW t \in Threads, SetPerModule(t) PROVE CachedOrOpening'
  BY <1>5, CachedStays DEF SetPerModule
<1>6. ASSUME NEW t \in Threads, Fork(t) PROVE CachedOrOpening'
  <2>1. mu \notin Threads
    BY <1>6, ConstantsAssumption DEF Fork, ConstantsAssumption
  <2> QED
    BY <1>6, <2>1, CachedStays DEF Fork
<1>7. ASSUME NEW t \in Threads, Step(t) PROVE CachedOrOpening'
  <2>1. CASE LoadFd(t)
    <3>1. mu \in Threads /\ pc[mu] \in {"slot", "count", "publish"} =>
            /\ mu' = mu /\ mod'[mu] = mod[mu] /\ fd'[mu] = fd[mu]
            /\ pc'[mu] \in {"slot", "count", "publish"} /\ file' = file
      BY <2>1 DEF LoadFd
    <3>2. epoch' = epoch /\ file_fd' = file_fd /\ file' = file
      BY <2>1 DEF LoadFd
    <3> QED
      BY <3>1, <3>2, CachedStays
  <2>2. CASE Lock(t)
    <3>1. mu \notin Threads
      BY <2>2, ConstantsAssumption DEF Lock, ConstantsAssumption
    <3> QED
      BY <2>2, <3>1, CachedStays DEF Lock
  <2>3. CASE Recheck(t)
    BY <2>3, CachedStays DEF Recheck, Reloaded
  <2>4. CASE RunTried(t)
    BY <2>4, CachedStays DEF RunTried
  <2>5. CASE RunFails(t)
    BY <2>5, CachedStays DEF RunFails, RunErr
  <2>6. CASE RunOpens(t)
    BY <2>6 DEF RunOpens, Allocate, CachedOrOpening, Opening
  <2>7. CASE UseShared(t)
    <3>1. mu \in Threads /\ pc[mu] \in {"slot", "count", "publish"} =>
            /\ mu' = mu /\ mod'[mu] = mod[mu] /\ fd'[mu] = fd[mu]
            /\ pc'[mu] \in {"slot", "count", "publish"} /\ file' = file
      BY <2>7 DEF UseShared
    <3>2. epoch' = epoch /\ file_fd' = file_fd /\ file' = file
      BY <2>7 DEF UseShared
    <3> QED
      BY <3>1, <3>2, CachedStays
  <2>8. CASE OpenModuleFile(t)
    <3>1. CASE run_open /\ \E d \in Fds : Allocate(d, mod[t]) /\ SetFd(t, d) /\ pc'[t] = "slot"
      <4>1. PICK d \in Fds : Allocate(d, mod[t]) /\ fd'[t] = d
        BY <3>1
      <4>2. /\ mu = t /\ mu' = t /\ mod' = mod /\ epoch' = epoch /\ file_fd' = file_fd
            /\ file' = [file EXCEPT ![d] = <<epoch, mod[t]>>]
        BY <2>8, <4>1 DEF OpenModuleFile, Allocate
      <4>3. Opening(mu, mod[t])'
        BY <3>1, <4>1, <4>2 DEF Opening
      <4>4. \A m \in Modules : ~Opening(mu, m)
        BY <2>8, <4>2 DEF OpenModuleFile, Opening
      <4>5. \A e \in Fds, m \in Modules : file'[e] = <<epoch, m>> =>
              file[e] = <<epoch, m>> \/ m = mod[t]
        BY <4>2
      <4> QED
        BY <4>2, <4>3, <4>4, <4>5 DEF CachedOrOpening
    <3>2. CASE file' = file
      BY <2>8, <3>2, CachedStays DEF OpenModuleFile
    <3> QED
      BY <2>8, <3>1, <3>2 DEF OpenModuleFile
  <2>9. CASE RegisterSlot(t)
    BY <2>9, CachedStays DEF RegisterSlot, Tracked, HasRoom
  <2>10. CASE RegisterCount(t)
    <3>1. /\ mu = t /\ mu' = mu /\ mod' = mod /\ fd' = fd /\ file' = file
          /\ epoch' = epoch /\ file_fd' = file_fd
      BY <2>10 DEF RegisterCount, HasRoom
    <3>2. pc'[t] = "publish" \/ \A m \in Modules : ~Opening(t, m)
      BY <2>10, NotFree DEF RegisterCount, HasRoom, Opening
    <3> QED
      BY <3>1, <3>2, CachedStays
  <2>11. CASE Publish(t)
    <3>1. /\ mu = t /\ epoch' = epoch /\ file' = file /\ mod[t] \in Modules
          /\ \A m \in Modules : m # mod[t] => file_fd'[m] = file_fd[m] /\ ~Opening(mu, m)
      BY <2>11 DEF Publish, Opening
    <3>2. Cached(fd[t]) # NotOpened
      BY DEF Cached, NotOpened, GaveUp
    <3>3. file_fd'[mod[t]] # NotOpened
      BY <2>11, <3>1, <3>2 DEF Publish
    <3> QED
      BY <3>1, <3>3 DEF CachedOrOpening
  <2>12. CASE Release(t)
    BY <2>12, CachedStays DEF Release, Released
  <2>13. CASE Report(t)
    BY <2>13, CachedStays DEF Report, Resolve
  <2>14. CASE Finish(t)
    BY <2>14, CachedStays DEF Finish
  <2>15. CASE CloseOne(t)
    BY <2>15, CachedStays DEF CloseOne
  <2>16. CASE CloseDone(t)
    BY <2>16, CachedStays DEF CloseDone, ListCleared
  <2>17. CASE ClearCrashFds(t)
    BY <2>17, CachedStays DEF ClearCrashFds, CountCleared
  <2>18. CASE EndClose(t)
    <3>1. \A d \in Fds : file'[d] = NoFile
      BY <2>18, ClosedAll DEF RunInv
    <3>2. \A m \in Modules : <<epoch', m>> # NoFile
      BY NotFree, ConstantsAssumption DEF NoFile, ConstantsAssumption, Files
    <3> QED
      BY <3>1, <3>2 DEF CachedOrOpening
  <2> QED BY <1>7, <2>1, <2>2, <2>3, <2>4, <2>5, <2>6, <2>7, <2>8, <2>9, <2>10, <2>11, <2>12,
             <2>13, <2>14, <2>15, <2>16, <2>17, <2>18 DEF Step
<1> QED BY <1>1, <1>2, <1>3, <1>4, <1>5, <1>6, <1>7 DEF Next

\* No file is opened twice.
LEMMA DistinctStep ==
    ASSUME TypeInv, CallInv, OneEpoch, SharedTried, NotYetOpened, CachedOrOpening, FilesDistinct, [Next]_vars
    PROVE  FilesDistinct'
<1> USE NotFree DEF CallInv, Exclusion, SharedTried, NotYetOpened, CachedOrOpening, FilesDistinct, TypeInv, TypeOK, Opening, ModuleSteps, Holding, Goto, SetFd,
        configVars, runVars, fdVars, moduleVars, crashVars, callVars, lifeVars,
        stateVars
<1>1. CASE UNCHANGED vars
  BY <1>1 DEF vars
<1>2. ASSUME NEW t \in Threads, NEW m \in Modules, Log(t, m) PROVE FilesDistinct'
  BY <1>2 DEF Log, Resolve
<1>3. ASSUME NEW t \in Threads, CallInit(t) PROVE FilesDistinct'
  BY <1>3 DEF CallInit
<1>4. ASSUME NEW t \in Threads, NEW kind \in {"shutdown", "restart", "reset"},
             BeginClose(t, kind)
      PROVE FilesDistinct'
  BY <1>4 DEF BeginClose
<1>5. ASSUME NEW t \in Threads, SetPerModule(t) PROVE FilesDistinct'
  BY <1>5 DEF SetPerModule
<1>6. ASSUME NEW t \in Threads, Fork(t) PROVE FilesDistinct'
  BY <1>6 DEF Fork
<1>7. ASSUME NEW t \in Threads, Step(t) PROVE FilesDistinct'
  <2>1. CASE LoadFd(t)
    BY <2>1 DEF LoadFd
  <2>2. CASE Lock(t)
    BY <2>2 DEF Lock
  <2>3. CASE Recheck(t)
    BY <2>3 DEF Recheck, Reloaded
  <2>4. CASE RunTried(t)
    BY <2>4 DEF RunTried
  <2>5. CASE RunFails(t)
    BY <2>5 DEF RunFails, RunErr
  <2>6. CASE RunOpens(t)
    BY <2>6 DEF RunOpens, Allocate
  <2>7. CASE UseShared(t)
    BY <2>7 DEF UseShared
  <2>8. CASE OpenModuleFile(t)
    BY <2>8 DEF OpenModuleFile, Allocate
  <2>9. CASE RegisterSlot(t)
    BY <2>9 DEF RegisterSlot, Tracked, HasRoom
  <2>10. CASE RegisterCount(t)
    BY <2>10 DEF RegisterCount, HasRoom
  <2>11. CASE Publish(t)
    BY <2>11 DEF Publish, Cached
  <2>12. CASE Release(t)
    BY <2>12 DEF Release, Released
  <2>13. CASE Report(t)
    BY <2>13 DEF Report, Resolve
  <2>14. CASE Finish(t)
    BY <2>14 DEF Finish
  <2>15. CASE CloseOne(t)
    BY <2>15 DEF CloseOne
  <2>16. CASE CloseDone(t)
    BY <2>16 DEF CloseDone, ListCleared
  <2>17. CASE ClearCrashFds(t)
    BY <2>17 DEF ClearCrashFds, CountCleared
  <2>18. CASE EndClose(t)
    BY <2>18 DEF EndClose, Tried, FdForgot
  <2> QED BY <1>7, <2>1, <2>2, <2>3, <2>4, <2>5, <2>6, <2>7, <2>8, <2>9, <2>10, <2>11, <2>12,
             <2>13, <2>14, <2>15, <2>16, <2>17, <2>18 DEF Step
<1> QED BY <1>1, <1>2, <1>3, <1>4, <1>5, <1>6, <1>7 DEF Next

\* A cached, shared or loaded descriptor stays the one of its file.
LEMMA LineStep ==
    ASSUME TypeInv, CallInv, RunInv, LineInv, [Next]_vars
    PROVE  LineInv'
<1> USE NotFree, FdTypes DEF CallInv, QuietClosing, Exclusion, CallShape, TypeInv, TypeOK, ModuleSteps, Holding, CloseSteps, Logging, LineInv, GoesTo, HasFd, Goto, SetFd,
        configVars, runVars, fdVars, moduleVars, crashVars, callVars, lifeVars,
        stateVars
<1>1. CASE UNCHANGED vars
  BY <1>1 DEF vars
<1>2. ASSUME NEW t \in Threads, NEW m \in Modules, Log(t, m) PROVE LineInv'
  BY <1>2 DEF Log, Resolve
<1>3. ASSUME NEW t \in Threads, CallInit(t) PROVE LineInv'
  BY <1>3 DEF CallInit
<1>4. ASSUME NEW t \in Threads, NEW kind \in {"shutdown", "restart", "reset"},
             BeginClose(t, kind)
      PROVE LineInv'
  BY <1>4 DEF BeginClose
<1>5. ASSUME NEW t \in Threads, SetPerModule(t) PROVE LineInv'
  BY <1>5 DEF SetPerModule
<1>6. ASSUME NEW t \in Threads, Fork(t) PROVE LineInv'
  BY <1>6 DEF Fork
<1>7. ASSUME NEW t \in Threads, Step(t) PROVE LineInv'
  <2>1. CASE LoadFd(t)
    BY <2>1 DEF LoadFd
  <2>2. CASE Lock(t)
    BY <2>2 DEF Lock
  <2>3. CASE Recheck(t)
    BY <2>3 DEF Recheck, Reloaded
  <2>4. CASE RunTried(t)
    BY <2>4 DEF RunTried
  <2>5. CASE RunFails(t)
    BY <2>5 DEF RunFails, RunErr
  <2>6. CASE RunOpens(t)
    BY <2>6 DEF RunOpens, Allocate
  <2>7. CASE UseShared(t)
    <3>1. /\ UNCHANGED <<file, epoch, file_fd, shared_fd, closing, mod, outer>>
          /\ fd'[t] = shared_fd /\ pc[t] = "file" /\ pc'[t] = "publish"
          /\ \A u \in Threads : u # t => pc'[u] = pc[u] /\ fd'[u] = fd[u]
      BY <2>7 DEF UseShared
    <3>2. \A m \in Modules, e \in FdValues : GoesTo(m, e)' <=> GoesTo(m, e)
      BY <3>1
    <3>3. closing = "no" => GoesTo(mod[t], fd[t])'
      BY <3>1
    <3>4. \A u \in Threads : fd[u] \in FdValues /\ outer[u].fd \in FdValues
      BY CallTypes
    <3> HIDE DEF GoesTo
    <3> QED
      BY <3>1, <3>2, <3>3, <3>4
  <2>8. CASE OpenModuleFile(t)
    <3>1. /\ UNCHANGED <<epoch, file_fd, shared_fd, closing, mod, outer>>
          /\ pc[t] = "file" /\ pc'[t] \in {"slot", "publish"} /\ mod[t] \in Modules
          /\ \A u \in Threads : u # t => pc'[u] = pc[u] /\ fd'[u] = fd[u]
      BY <2>8 DEF OpenModuleFile
    <3>2. CASE file' = file /\ fd'[t] = GaveUp
      BY <3>1, <3>2
    <3>3. CASE \E d \in Fds : Allocate(d, mod[t]) /\ fd'[t] = d
      <4>1. PICK d \in Fds : Allocate(d, mod[t]) /\ fd'[t] = d
        BY <3>3
      <4>2. /\ file[d] = NoFile /\ file'[d] = <<epoch, mod[t]>>
            /\ \A e \in Fds : e # d => file'[e] = file[e]
        BY <4>1 DEF Allocate
      <4>3. \A e \in Fds : file[e] # NoFile => file'[e] = file[e]
        BY <4>2
      <4>4. \A m \in Modules : \A e \in FdValues : GoesTo(m, e) => GoesTo(m, e)'
        BY <3>1, <4>3
      <4>5. GoesTo(mod[t], fd[t])'
        BY <3>1, <4>1, <4>2
      <4>6. shared_fd \in Fds /\ file[shared_fd] = <<epoch, Shared>> =>
              file'[shared_fd] = <<epoch, Shared>>
        BY <4>3
      <4> QED
        BY <3>1, <4>4, <4>5, <4>6
    <3> QED
      BY <2>8, <3>2, <3>3 DEF OpenModuleFile
  <2>9. CASE RegisterSlot(t)
    BY <2>9 DEF RegisterSlot, Tracked, HasRoom
  <2>10. CASE RegisterCount(t)
    BY <2>10 DEF RegisterCount, HasRoom
  <2>11. CASE Publish(t)
    BY <2>11 DEF Publish, Cached
  <2>12. CASE Release(t)
    BY <2>12 DEF Release, Released
  <2>13. CASE Report(t)
    BY <2>13 DEF Report, Resolve
  <2>14. CASE Finish(t)
    <3>1. /\ closing' = closing /\ file_fd' = file_fd /\ shared_fd' = shared_fd /\ file' = file
          /\ epoch' = epoch
          /\ \A u \in Threads : u # t => /\ pc'[u] = pc[u] /\ mod'[u] = mod[u] /\ fd'[u] = fd[u]
                                       /\ outer'[u] = outer[u]
          /\ mod'[t] = outer[t].mod /\ fd'[t] = outer[t].fd /\ outer'[t] = NoCall
      BY <2>14 DEF Finish
    <3>2. pc[t] = "finish" /\ NoCall.in = FALSE /\ NoCall.mod = NoModule
      BY <2>14 DEF Finish, NoCall
    <3>3. mod'[t] \in Modules => outer[t].in
      BY <3>1, <3>2, NotFree
    <3> QED
      BY <3>1, <3>2, <3>3 DEF GoesTo
  <2>15. CASE CloseOne(t)
    BY <2>15 DEF CloseOne
  <2>16. CASE CloseDone(t)
    BY <2>16 DEF CloseDone, ListCleared
  <2>17. CASE ClearCrashFds(t)
    BY <2>17 DEF ClearCrashFds, CountCleared
  <2>18. CASE EndClose(t)
    BY <2>18 DEF EndClose, Tried, FdForgot
  <2> QED BY <1>7, <2>1, <2>2, <2>3, <2>4, <2>5, <2>6, <2>7, <2>8, <2>9, <2>10, <2>11, <2>12,
             <2>13, <2>14, <2>15, <2>16, <2>17, <2>18 DEF Step
<1> QED BY <1>1, <1>2, <1>3, <1>4, <1>5, <1>6, <1>7 DEF Next

\* The crash table follows open_fds_.
LEMMA CrashStep ==
    ASSUME TypeInv, CallInv, RunInv, CrashInv, [Next]_vars
    PROVE  CrashInv'
<1> USE NotFree, FdTypes DEF CallInv, QuietClosing, Exclusion, CallShape, RunInv, TypeInv, TypeOK, ModuleSteps, Holding, CloseSteps, Logging, CrashInv, Goto, SetFd,
        configVars, runVars, fdVars, moduleVars, crashVars, callVars, lifeVars,
        stateVars
<1>1. CASE UNCHANGED vars
  BY <1>1 DEF vars
<1>2. ASSUME NEW t \in Threads, NEW m \in Modules, Log(t, m) PROVE CrashInv'
  BY <1>2 DEF Log, Resolve
<1>3. ASSUME NEW t \in Threads, CallInit(t) PROVE CrashInv'
  BY <1>3 DEF CallInit
<1>4. ASSUME NEW t \in Threads, NEW kind \in {"shutdown", "restart", "reset"},
             BeginClose(t, kind)
      PROVE CrashInv'
  BY <1>4 DEF BeginClose
<1>5. ASSUME NEW t \in Threads, SetPerModule(t) PROVE CrashInv'
  BY <1>5 DEF SetPerModule
<1>6. ASSUME NEW t \in Threads, Fork(t) PROVE CrashInv'
  <2>1. \A u \in Threads : pc[u] \notin {"slot", "count"}
    BY <1>6, ConstantsAssumption DEF Fork, ConstantsAssumption
  <2> QED
    BY <1>6, <2>1 DEF Fork
<1>7. ASSUME NEW t \in Threads, Step(t) PROVE CrashInv'
  <2>1. CASE LoadFd(t)
    BY <2>1 DEF LoadFd
  <2>2. CASE Lock(t)
    BY <2>2 DEF Lock
  <2>3. CASE Recheck(t)
    BY <2>3 DEF Recheck, Reloaded
  <2>4. CASE RunTried(t)
    BY <2>4 DEF RunTried
  <2>5. CASE RunFails(t)
    BY <2>5 DEF RunFails, RunErr
  <2>6. CASE RunOpens(t)
    BY <2>6 DEF RunOpens, Allocate
  <2>7. CASE UseShared(t)
    BY <2>7 DEF UseShared
  <2>8. CASE OpenModuleFile(t)
    BY <2>8 DEF OpenModuleFile, Allocate
  <2>9. CASE RegisterSlot(t)
    <3>1. /\ mu = t
          /\ \A u \in Threads : u # t => pc[u] \notin {"slot", "count"}
          /\ crash_count' = crash_count /\ fd' = fd /\ open_fds' = open_fds \cup {fd[t]}
          /\ closing' = closing
          /\ pc' = [pc EXCEPT ![t] = "count"]
      BY <2>9 DEF RegisterSlot, Tracked, HasRoom
    <3>2. \A i \in 1 .. crash_count : crash_fds'[i] = crash_fds[i]
      BY <2>9, ConstantsAssumption DEF RegisterSlot, Tracked, HasRoom, ConstantsAssumption
    <3>3. crash_count < MaxCrashFds => crash_fds'[crash_count + 1] = fd[t]
      BY <2>9, ConstantsAssumption DEF RegisterSlot, Tracked, HasRoom, ConstantsAssumption
    <3> QED
      BY <2>9, <3>1, <3>2, <3>3 DEF RegisterSlot, Tracked, HasRoom
  <2>10. CASE RegisterCount(t)
    <3>1. /\ mu = t /\ fd[t] \in open_fds
          /\ \A u \in Threads : u # t => pc'[u] \notin {"slot", "count"}
          /\ pc'[t] \notin {"slot", "count"}
          /\ crash_fds' = crash_fds /\ fd' = fd /\ open_fds' = open_fds /\ closing' = closing
      BY <2>10 DEF RegisterCount, HasRoom
    <3>2. CASE crash_count < MaxCrashFds
      <4>1. crash_count' = crash_count + 1 /\ crash_fds[crash_count + 1] = fd[t]
        BY <2>10, <3>2 DEF RegisterCount, HasRoom
      <4>2. \A i \in 1 .. crash_count' : i \in 1 .. crash_count \/ i = crash_count'
        BY <4>1
      <4>3. 1 .. crash_count \subseteq 1 .. crash_count' /\ crash_count' \in 1 .. crash_count'
        BY <4>1
      <4>4. \A d \in open_fds : \/ crash_count' = MaxCrashFds
                               \/ \E i \in 1 .. crash_count' : crash_fds[i] = d
        BY <3>1, <3>2, <4>1, <4>3
      <4> QED
        BY <3>1, <4>1, <4>2, <4>4
    <3>3. CASE crash_count = MaxCrashFds
      BY <2>10, <3>1, <3>3 DEF RegisterCount, HasRoom
    <3> QED
      BY <3>2, <3>3, ConstantsAssumption DEF ConstantsAssumption
  <2>11. CASE Publish(t)
    BY <2>11 DEF Publish, Cached
  <2>12. CASE Release(t)
    BY <2>12 DEF Release, Released
  <2>13. CASE Report(t)
    BY <2>13 DEF Report, Resolve
  <2>14. CASE Finish(t)
    BY <2>14 DEF Finish
  <2>15. CASE CloseOne(t)
    BY <2>15 DEF CloseOne
  <2>16. CASE CloseDone(t)
    BY <2>16 DEF CloseDone, ListCleared
  <2>17. CASE ClearCrashFds(t)
    BY <2>17 DEF ClearCrashFds, CountCleared
  <2>18. CASE EndClose(t)
    BY <2>18 DEF EndClose, Tried, FdForgot
  <2> QED BY <1>7, <2>1, <2>2, <2>3, <2>4, <2>5, <2>6, <2>7, <2>8, <2>9, <2>10, <2>11, <2>12,
             <2>13, <2>14, <2>15, <2>16, <2>17, <2>18 DEF Step
<1> QED BY <1>1, <1>2, <1>3, <1>4, <1>5, <1>6, <1>7 DEF Next

\* A call meets at most one failure.
LEMMA CarryShapeStep ==
    ASSUME TypeInv, CallInv, CarryShape, [Next]_vars
    PROVE  CarryShape'
<1> USE NotFree, FdTypes DEF CallInv, QuietClosing, Exclusion, CallShape, TypeInv, TypeOK, ModuleSteps, Holding, CloseSteps, Logging, CarryShape, Goto, SetFd,
        configVars, runVars, fdVars, moduleVars, crashVars, callVars, lifeVars,
        stateVars
<1>1. CASE UNCHANGED vars
  BY <1>1 DEF vars
<1>2. ASSUME NEW t \in Threads, NEW m \in Modules, Log(t, m) PROVE CarryShape'
  BY <1>2 DEF Log, Resolve
<1>3. ASSUME NEW t \in Threads, CallInit(t) PROVE CarryShape'
  BY <1>3 DEF CallInit
<1>4. ASSUME NEW t \in Threads, NEW kind \in {"shutdown", "restart", "reset"},
             BeginClose(t, kind)
      PROVE CarryShape'
  BY <1>4 DEF BeginClose
<1>5. ASSUME NEW t \in Threads, SetPerModule(t) PROVE CarryShape'
  <2>1. \A u \in Threads : pc[u] # "file"
    BY <1>5, ConstantsAssumption DEF SetPerModule, ConstantsAssumption
  <2> QED
    BY <1>5, <2>1 DEF SetPerModule
<1>6. ASSUME NEW t \in Threads, Fork(t) PROVE CarryShape'
  BY <1>6 DEF Fork
<1>7. ASSUME NEW t \in Threads, Step(t) PROVE CarryShape'
  <2>1. CASE LoadFd(t)
    BY <2>1 DEF LoadFd
  <2>2. CASE Lock(t)
    BY <2>2 DEF Lock
  <2>3. CASE Recheck(t)
    BY <2>3 DEF Recheck, Reloaded
  <2>4. CASE RunTried(t)
    BY <2>4 DEF RunTried
  <2>5. CASE RunFails(t)
    BY <2>5 DEF RunFails, RunErr
  <2>6. CASE RunOpens(t)
    <3>1. /\ pc'[t] \in {"slot", "release", "file"} /\ per_module' = per_module
          /\ pc'[t] = "slot" => oe'[t] = oe[t]
          /\ oe'[t] # oe[t] => ~per_module
          /\ oe[t] = NoErr
          /\ \A u \in Threads : u # t => pc'[u] = pc[u] /\ oe'[u] = oe[u]
      BY <2>6 DEF RunOpens
    <3> QED
      BY <3>1
  <2>7. CASE UseShared(t)
    BY <2>7 DEF UseShared
  <2>8. CASE OpenModuleFile(t)
    <3>1. oe[t] = NoErr
      BY <2>8 DEF OpenModuleFile
    <3>2. /\ pc'[t] \in {"slot", "publish"} /\ per_module' = per_module
          /\ pc'[t] = "slot" => oe'[t] = NoErr
          /\ \A u \in Threads : u # t => pc'[u] = pc[u] /\ oe'[u] = oe[u]
      BY <2>8, <3>1 DEF OpenModuleFile
    <3> QED
      BY <3>2
  <2>9. CASE RegisterSlot(t)
    BY <2>9 DEF RegisterSlot, Tracked, HasRoom
  <2>10. CASE RegisterCount(t)
    BY <2>10 DEF RegisterCount, HasRoom
  <2>11. CASE Publish(t)
    BY <2>11 DEF Publish, Cached
  <2>12. CASE Release(t)
    BY <2>12 DEF Release, Released
  <2>13. CASE Report(t)
    <3>1. /\ per_module' = per_module
          /\ pc'[t] \in {"load", "finish"} /\ (pc'[t] = "load" => oe'[t] = NoErr)
          /\ \A u \in Threads : u # t => pc'[u] = pc[u] /\ oe'[u] = oe[u]
      BY <2>13 DEF Report
    <3> QED
      BY <3>1
  <2>14. CASE Finish(t)
    <3>1. /\ per_module' = per_module
          /\ pc'[t] \in {"idle", "finish"} /\ (pc'[t] = "idle" => oe'[t] = NoErr)
          /\ \A u \in Threads : u # t => pc'[u] = pc[u] /\ oe'[u] = oe[u]
      BY <2>14 DEF Finish, NoCall
    <3> QED
      BY <3>1
  <2>15. CASE CloseOne(t)
    BY <2>15 DEF CloseOne
  <2>16. CASE CloseDone(t)
    BY <2>16 DEF CloseDone, ListCleared
  <2>17. CASE ClearCrashFds(t)
    BY <2>17 DEF ClearCrashFds, CountCleared
  <2>18. CASE EndClose(t)
    BY <2>18 DEF EndClose, Tried, FdForgot
  <2> QED BY <1>7, <2>1, <2>2, <2>3, <2>4, <2>5, <2>6, <2>7, <2>8, <2>9, <2>10, <2>11, <2>12,
             <2>13, <2>14, <2>15, <2>16, <2>17, <2>18 DEF Step
<1> QED BY <1>1, <1>2, <1>3, <1>4, <1>5, <1>6, <1>7 DEF Next

\* Most steps neither meet nor report a failure.
LEMMA KeptSteps ==
    ASSUME TypeInv, CallInv, CarryShape, NEW t \in Threads
    PROVE  /\ (\E m \in Modules : Log(t, m)) \/ CallInit(t) \/ SetPerModule(t)
                \/ (\E kind \in {"shutdown", "restart", "reset"} : BeginClose(t, kind)) => Kept
           /\ LoadFd(t) \/ Lock(t) \/ Recheck(t) \/ RunTried(t) \/ UseShared(t) => Kept
           /\ RegisterSlot(t) \/ RegisterCount(t) \/ Publish(t) \/ Release(t) \/ Finish(t) => Kept
           /\ CloseOne(t) \/ CloseDone(t) \/ ClearCrashFds(t) => Kept
<1> USE DEF TypeInv, TypeOK, CallInv, CallShape, CarryShape, CloseSteps, Kept, Carrying, Goto, SetFd,
        configVars, runVars, fdVars, moduleVars, crashVars, callVars, lifeVars,
        stateVars
<1>2. ASSUME NEW m \in Modules, Log(t, m) PROVE Kept
  BY <1>2 DEF Log
<1>3. CallInit(t) => Kept
  BY DEF CallInit
<1>4. SetPerModule(t) => Kept
  BY DEF SetPerModule
<1>5. ASSUME NEW kind \in {"shutdown", "restart", "reset"}, BeginClose(t, kind) PROVE Kept
  BY <1>5 DEF BeginClose
<1>6. LoadFd(t) => Kept
  BY DEF LoadFd
<1>7. Lock(t) => Kept
  BY DEF Lock
<1>8. Recheck(t) => Kept
  BY DEF Recheck, Reloaded
<1>9. RunTried(t) => Kept
  BY DEF RunTried
<1>10. UseShared(t) => Kept
  BY DEF UseShared
<1>11. RegisterSlot(t) => Kept
  BY DEF RegisterSlot, Tracked, HasRoom
<1>12. RegisterCount(t) => Kept
  BY DEF RegisterCount, HasRoom
<1>13. Publish(t) => Kept
  BY DEF Publish, Cached
<1>14. Release(t) => Kept
  BY DEF Release, Released
<1>15. Finish(t) => Kept
  BY DEF Finish
<1>16. CloseOne(t) => Kept
  BY DEF CloseOne
<1>17. CloseDone(t) => Kept
  BY DEF CloseDone, ListCleared
<1>18. ClearCrashFds(t) => Kept
  BY DEF ClearCrashFds, CountCleared
<1> QED
  BY <1>2, <1>3, <1>4, <1>5, <1>6, <1>7, <1>8, <1>9, <1>10, <1>11, <1>12, <1>13, <1>14, <1>15, <1>16, <1>17, <1>18

\* Such a step changes nothing of what was met.
LEMMA KeptSpent ==
    ASSUME Kept
    PROVE  Spent' = Spent /\ (CarryDistinct => CarryDistinct')
<1>1. Spent' = Spent
  BY DEF Kept, Spent
<1>2. CarryDistinct => CarryDistinct'
  BY DEF Kept, CarryDistinct
<1> QED
  BY <1>1, <1>2

\* A thread meets a failure nobody met before.
LEMMA Meets ==
    ASSUME CarryDistinct, NEW t \in Threads, NEW e, e \notin Spent, e # NoErr, oe[t] = NoErr,
           reported' = reported, oe'[t] = e,
           pc'[t] \in {"file", "publish", "release", "report"},
           \A u \in Threads : u # t => pc'[u] = pc[u] /\ oe'[u] = oe[u]
    PROVE  Spent' = Spent \cup {e} /\ CarryDistinct'
<1>1. /\ Carrying(t)' /\ ~Carrying(t)
      /\ \A u \in Threads : u # t => (Carrying(u)' <=> Carrying(u)) /\ oe'[u] = oe[u]
  BY DEF Carrying
<1>2. e \notin reported /\ \A u \in Threads : Carrying(u) => oe[u] # e
  BY DEF Spent
<1>3. Spent' = Spent \cup {e}
  BY <1>1 DEF Spent
<1>4. CarryDistinct'
  BY <1>1, <1>2 DEF CarryDistinct
<1> QED
  BY <1>3, <1>4

\* No failure is met twice.
OnceInv == CarryDistinct /\ SpentTried

\* A hard failure of open_run is new.
LEMMA RunFailsSpends ==
    ASSUME TypeInv, CallInv, CarryShape, OnceInv, NEW t \in Threads, RunFails(t)
    PROVE  Spent' = Spent \cup {RunErr} /\ CarryDistinct'
<1>1. oe[t] = NoErr /\ RunErr \notin Spent /\ RunErr # NoErr
  BY DEF RunFails, RunErr, NoErr, CarryShape, OnceInv, SpentTried
<1>2. /\ reported' = reported /\ oe'[t] = RunErr /\ pc'[t] \in {"release", "publish"}
      /\ \A u \in Threads : u # t => pc'[u] = pc[u] /\ oe'[u] = oe[u]
  BY DEF RunFails, TypeInv, TypeOK, Goto
<1> QED
  BY <1>1, <1>2, Meets DEF OnceInv

\* A failure to open the shared file is new.
LEMMA RunOpensSpends ==
    ASSUME TypeInv, CallInv, CarryShape, OnceInv, NEW t \in Threads, RunOpens(t)
    PROVE  /\ CarryDistinct'
           /\ \/ Spent' = Spent /\ (shared_fd' \in Fds \/ per_module)
              \/ Spent' = Spent \cup {<<NoModule, "file">>}
<1> USE DEF TypeInv, TypeOK, Goto, SetFd, fdVars
<1>1. oe[t] = NoErr /\ <<NoModule, "file">> \notin Spent /\ <<NoModule, "file">> # NoErr
  BY DEF RunOpens, NoErr, CarryShape, OnceInv, SpentTried
<1>2. /\ reported' = reported /\ pc[t] = "run" /\ pc'[t] \in {"release", "file", "slot"}
      /\ \A u \in Threads : u # t => pc'[u] = pc[u] /\ oe'[u] = oe[u]
  BY DEF RunOpens
<1>3. CASE oe' = oe /\ (shared_fd' \in Fds \/ per_module)
  <2>1. Kept
    BY <1>1, <1>2, <1>3 DEF Kept, Carrying
  <2> QED
    BY <1>3, <2>1, KeptSpent DEF OnceInv
<1>4. CASE oe'[t] = <<NoModule, "file">> /\ pc'[t] \in {"release", "file"}
  BY <1>1, <1>2, <1>4, Meets DEF OnceInv
<1> QED
  BY <1>3, <1>4 DEF RunOpens

\* A failure to open a module's file is new.
LEMMA ModuleSpends ==
    ASSUME TypeInv, CallInv, CarryShape, NotYetOpened, OnceInv, NEW t \in Threads,
           OpenModuleFile(t)
    PROVE  /\ CarryDistinct'
           /\ \/ Spent' = Spent /\ pc'[t] = "slot"
              \/ Spent' = Spent \cup {<<mod[t], "file">>} /\ pc'[t] = "publish"
<1> USE DEF TypeInv, TypeOK, ModuleSteps, CallInv, Exclusion, Holding, Goto, SetFd, fdVars
<1>1. /\ oe[t] = NoErr /\ mod[t] \in Modules /\ <<mod[t], "file">> \notin Spent
      /\ <<mod[t], "file">> # NoErr
  BY NotFree DEF OpenModuleFile, NoErr, CarryShape, NotYetOpened, OnceInv, SpentTried
<1>2. /\ reported' = reported /\ pc[t] = "file" /\ pc'[t] \in {"slot", "publish"}
      /\ \A u \in Threads : u # t => pc'[u] = pc[u] /\ oe'[u] = oe[u]
  BY DEF OpenModuleFile
<1>3. CASE oe' = oe /\ pc'[t] = "slot"
  <2>1. Kept
    BY <1>1, <1>2, <1>3 DEF Kept, Carrying
  <2> QED
    BY <1>3, <2>1, KeptSpent DEF OnceInv
<1>4. CASE oe'[t] = <<mod[t], "file">> /\ pc'[t] = "publish"
  BY <1>1, <1>2, <1>4, Meets DEF OnceInv
<1> QED
  BY <1>3, <1>4 DEF OpenModuleFile

\* Nothing is cached or opened before the run was tried.
LEMMA TriedStep ==
    ASSUME TypeInv, CallInv, TriedInv, [Next]_vars
    PROVE  TriedInv'
<1> USE NotFree, FdTypes DEF CallInv, QuietClosing, Exclusion, CallShape, TypeInv, TypeOK, ModuleSteps, Holding, CloseSteps, Logging, TriedInv, Goto, SetFd,
        configVars, runVars, fdVars, moduleVars, crashVars, callVars, lifeVars,
        stateVars
<1>1. CASE UNCHANGED vars
  BY <1>1 DEF vars
<1>2. ASSUME NEW t \in Threads, NEW m \in Modules, Log(t, m) PROVE TriedInv'
  BY <1>2 DEF Log, Resolve
<1>3. ASSUME NEW t \in Threads, CallInit(t) PROVE TriedInv'
  BY <1>3 DEF CallInit
<1>4. ASSUME NEW t \in Threads, NEW kind \in {"shutdown", "restart", "reset"},
             BeginClose(t, kind)
      PROVE TriedInv'
  BY <1>4 DEF BeginClose
<1>5. ASSUME NEW t \in Threads, SetPerModule(t) PROVE TriedInv'
  BY <1>5 DEF SetPerModule
<1>6. ASSUME NEW t \in Threads, Fork(t) PROVE TriedInv'
  BY <1>6 DEF Fork
<1>7. ASSUME NEW t \in Threads, Step(t) PROVE TriedInv'
  <2>1. CASE LoadFd(t)
    BY <2>1 DEF LoadFd
  <2>2. CASE Lock(t)
    BY <2>2 DEF Lock
  <2>3. CASE Recheck(t)
    BY <2>3 DEF Recheck, Reloaded
  <2>4. CASE RunTried(t)
    BY <2>4 DEF RunTried
  <2>5. CASE RunFails(t)
    BY <2>5 DEF RunFails, RunErr
  <2>6. CASE RunOpens(t)
    BY <2>6 DEF RunOpens, Allocate
  <2>7. CASE UseShared(t)
    BY <2>7 DEF UseShared
  <2>8. CASE OpenModuleFile(t)
    BY <2>8 DEF OpenModuleFile, Allocate
  <2>9. CASE RegisterSlot(t)
    BY <2>9 DEF RegisterSlot, Tracked, HasRoom
  <2>10. CASE RegisterCount(t)
    BY <2>10 DEF RegisterCount, HasRoom
  <2>11. CASE Publish(t)
    BY <2>11 DEF Publish, Cached
  <2>12. CASE Release(t)
    BY <2>12 DEF Release, Released
  <2>13. CASE Report(t)
    BY <2>13 DEF Report, Resolve
  <2>14. CASE Finish(t)
    BY <2>14 DEF Finish
  <2>15. CASE CloseOne(t)
    BY <2>15 DEF CloseOne
  <2>16. CASE CloseDone(t)
    BY <2>16 DEF CloseDone, ListCleared
  <2>17. CASE ClearCrashFds(t)
    BY <2>17 DEF ClearCrashFds, CountCleared
  <2>18. CASE EndClose(t)
    BY <2>18 DEF EndClose, Tried, FdForgot
  <2> QED BY <1>7, <2>1, <2>2, <2>3, <2>4, <2>5, <2>6, <2>7, <2>8, <2>9, <2>10, <2>11, <2>12,
             <2>13, <2>14, <2>15, <2>16, <2>17, <2>18 DEF Step
<1> QED BY <1>1, <1>2, <1>3, <1>4, <1>5, <1>6, <1>7 DEF Next

\* No failure is met twice.
LEMMA OnceStep ==
    ASSUME TypeInv, CallInv, NotYetOpened, CarryShape, OnceInv, [Next]_vars
    PROVE  OnceInv'
<1> USE NotFree, FdTypes DEF CallInv, QuietClosing, Exclusion, CallShape, TypeInv, TypeOK, ModuleSteps, Holding, CloseSteps, Logging, OnceInv, SpentTried, Goto, SetFd,
        configVars, runVars, fdVars, moduleVars, crashVars, callVars, lifeVars,
        stateVars
<1>1. CASE UNCHANGED vars
  <2>1. Kept
    BY <1>1 DEF vars, Kept, Carrying
  <2> QED
    BY <1>1, <2>1, KeptSpent DEF vars
<1>2. ASSUME NEW t \in Threads, NEW m \in Modules, Log(t, m) PROVE OnceInv'
  <2>1. Spent' = Spent /\ CarryDistinct'
    BY <1>2, KeptSteps, KeptSpent
  <2>2. /\ mu' = mu /\ file_fd' = file_fd /\ init_state' = init_state
        /\ pc[t] = "idle" /\ \A u \in Threads : u # t => pc'[u] = pc[u] /\ mod'[u] = mod[u]
    BY <1>2 DEF Log
  <2> QED
    BY <2>1, <2>2
<1>3. ASSUME NEW t \in Threads, CallInit(t) PROVE OnceInv'
  BY <1>3, KeptSteps, KeptSpent DEF CallInit
<1>4. ASSUME NEW t \in Threads, NEW kind \in {"shutdown", "restart", "reset"},
             BeginClose(t, kind)
      PROVE OnceInv'
  BY <1>4, KeptSteps, KeptSpent DEF BeginClose
<1>5. ASSUME NEW t \in Threads, SetPerModule(t) PROVE OnceInv'
  BY <1>5, KeptSteps, KeptSpent DEF SetPerModule
<1>6. ASSUME NEW t \in Threads, Fork(t) PROVE OnceInv'
  <2>1. /\ mu \notin Threads /\ reported' = reported /\ oe' = oe /\ init_state' = init_state
        /\ file_fd' = file_fd /\ \A u \in Threads : pc'[u] \in {pc[u], "gone"}
    BY <1>6, ConstantsAssumption DEF Fork, ConstantsAssumption
  <2>2. \A u \in Threads : Carrying(u)' => Carrying(u)
    BY <2>1 DEF Carrying
  <2>3. Spent' \subseteq Spent
    BY <2>1, <2>2 DEF Spent
  <2>4. CarryDistinct'
    BY <2>1, <2>2 DEF CarryDistinct
  <2> QED
    BY <2>1, <2>3, <2>4
<1>7. ASSUME NEW t \in Threads, Step(t) PROVE OnceInv'
  <2>1. CASE LoadFd(t)
    <3>1. Spent' = Spent /\ CarryDistinct'
      BY <2>1, KeptSteps, KeptSpent
    <3> QED
      BY <2>1, <3>1 DEF LoadFd
  <2>2. CASE Lock(t)
    <3>1. mu \notin Threads
      BY <2>2, ConstantsAssumption DEF Lock, ConstantsAssumption
    <3> QED
      BY <2>2, <3>1, KeptSteps, KeptSpent DEF Lock
  <2>3. CASE Recheck(t)
    BY <2>3, KeptSteps, KeptSpent DEF Recheck, Reloaded
  <2>4. CASE RunTried(t)
    BY <2>4, KeptSteps, KeptSpent DEF RunTried
  <2>5. CASE RunFails(t)
    <3>1. \A m \in Modules : <<m, "file">> # RunErr
      BY DEF RunErr
    <3>2. Spent' = Spent \cup {RunErr} /\ CarryDistinct'
      BY <2>5, RunFailsSpends
    <3>3. /\ init_state' # 0 /\ file_fd' = file_fd /\ mu' = mu /\ mu = t /\ pc[t] # "publish"
      BY <2>5 DEF RunFails
    <3> QED
      BY <3>1, <3>2, <3>3
  <2>6. CASE RunOpens(t)
    <3>1. /\ init_state' # 0 /\ file_fd' = file_fd /\ mu' = mu /\ mu = t /\ pc[t] # "publish"
      BY <2>6 DEF RunOpens
    <3>2. CarryDistinct' /\ Spent' \subseteq Spent \cup {<<NoModule, "file">>}
      BY <2>6, RunOpensSpends
    <3> QED
      BY <3>1, <3>2
  <2>7. CASE UseShared(t)
    BY <2>7, KeptSteps, KeptSpent DEF UseShared
  <2>8. CASE OpenModuleFile(t)
    <3>1. /\ file_fd' = file_fd /\ mu' = mu /\ mu = t /\ mod' = mod /\ init_state' = init_state
          /\ pc[t] = "file" /\ mod[t] \in Modules
      BY <2>8 DEF OpenModuleFile
    <3>2. /\ CarryDistinct'
          /\ \/ Spent' = Spent
             \/ Spent' = Spent \cup {<<mod[t], "file">>} /\ pc'[t] = "publish"
      BY <2>8, ModuleSpends
    <3> QED
      BY <3>1, <3>2
  <2>9. CASE RegisterSlot(t)
    BY <2>9, KeptSteps, KeptSpent DEF RegisterSlot, Tracked, HasRoom
  <2>10. CASE RegisterCount(t)
    BY <2>10, KeptSteps, KeptSpent DEF RegisterCount, HasRoom
  <2>11. CASE Publish(t)
    <3>1. Spent' = Spent /\ CarryDistinct'
      BY <2>11, KeptSteps, KeptSpent
    <3>2. Cached(fd[t]) # NotOpened
      BY DEF Cached, NotOpened, GaveUp
    <3>3. /\ mu = t /\ mod[t] \in Modules /\ file_fd'[mod[t]] # NotOpened /\ init_state' = init_state
          /\ \A m \in Modules : m # mod[t] => file_fd'[m] = file_fd[m]
      BY <2>11, <3>2 DEF Publish
    <3> QED
      BY <3>1, <3>3
  <2>12. CASE Release(t)
    BY <2>12, KeptSteps, KeptSpent DEF Release, Released
  <2>13. CASE Report(t)
    <3>1. /\ pc'[t] \in {"load", "finish"} /\ Carrying(t) /\ ~Carrying(t)'
          /\ reported' = reported \cup {oe[t]}
          /\ \A u \in Threads : u # t => (Carrying(u)' <=> Carrying(u)) /\ oe'[u] = oe[u]
      BY <2>13 DEF Report, Carrying, CarryShape
    <3>2. Spent' = Spent
      BY <3>1 DEF Spent
    <3>3. CarryDistinct'
      BY <3>1 DEF CarryDistinct
    <3> QED
      BY <2>13, <3>2, <3>3 DEF Report
  <2>14. CASE Finish(t)
    <3>1. Spent' = Spent /\ CarryDistinct'
      BY <2>14, KeptSteps, KeptSpent
    <3> QED
      BY <2>14, <3>1 DEF Finish
  <2>15. CASE CloseOne(t)
    BY <2>15, KeptSteps, KeptSpent DEF CloseOne
  <2>16. CASE CloseDone(t)
    BY <2>16, KeptSteps, KeptSpent DEF CloseDone, ListCleared
  <2>17. CASE ClearCrashFds(t)
    BY <2>17, KeptSteps, KeptSpent DEF ClearCrashFds, CountCleared
  <2>18. CASE EndClose(t)
    <3>1. \A u \in Threads : ~Carrying(u) /\ ~Carrying(u)'
      BY <2>18 DEF EndClose, Carrying
    <3>2. Spent = reported /\ Spent' = reported' /\ CarryDistinct'
      BY <3>1 DEF Spent, CarryDistinct
    <3>3. CASE closing = "shutdown"
      <4>1. init_state' = init_state /\ reported' = reported
        BY <2>18, <3>3 DEF EndClose, Tried
      <4>2. mu = t /\ pc[t] = "forget"
        BY <2>18 DEF EndClose
      <4>3. \A m \in Modules : file_fd[m] # NotOpened => file_fd'[m] # NotOpened
        BY <2>18, <3>3 DEF EndClose, FdForgot
      <4> QED
        BY <3>2, <4>1, <4>2, <4>3
    <3>4. CASE closing # "shutdown"
      <4>1. reported' = {}
        BY <2>18, <3>4 DEF EndClose
      <4> QED
        BY <3>2, <4>1
    <3> QED
      BY <3>3, <3>4
  <2> QED BY <1>7, <2>1, <2>2, <2>3, <2>4, <2>5, <2>6, <2>7, <2>8, <2>9, <2>10, <2>11, <2>12,
             <2>13, <2>14, <2>15, <2>16, <2>17, <2>18 DEF Step
<1> QED BY <1>1, <1>2, <1>3, <1>4, <1>5, <1>6, <1>7 DEF Next

\* Every failure that is remembered was met by somebody.
LEMMA ReportedStep ==
    ASSUME TypeInv, CallInv, NotYetOpened, CarryShape, OnceInv, TriedInv, ReportedInv, [Next]_vars
    PROVE  ReportedInv'
<1> USE NotFree, FdTypes DEF CallInv, QuietClosing, Exclusion, CallShape, TypeInv, TypeOK, ModuleSteps, Holding, CloseSteps, Logging, TriedInv, ReportedInv, Settled, LostTo, Goto, SetFd,
        configVars, runVars, fdVars, moduleVars, crashVars, callVars, lifeVars,
        stateVars
<1>1. CASE UNCHANGED vars
  <2>1. Kept
    BY <1>1 DEF vars, Kept, Carrying
  <2> QED
    BY <1>1, <2>1, KeptSpent DEF vars
<1>2. ASSUME NEW t \in Threads, NEW m \in Modules, Log(t, m) PROVE ReportedInv'
  <2>1. Spent' = Spent
    BY <1>2, KeptSteps, KeptSpent
  <2> QED
    BY <1>2, <2>1 DEF Log, Resolve
<1>3. ASSUME NEW t \in Threads, CallInit(t) PROVE ReportedInv'
  BY <1>3, KeptSteps, KeptSpent DEF CallInit
<1>4. ASSUME NEW t \in Threads, NEW kind \in {"shutdown", "restart", "reset"},
             BeginClose(t, kind)
      PROVE ReportedInv'
  BY <1>4, KeptSteps, KeptSpent DEF BeginClose
<1>5. ASSUME NEW t \in Threads, SetPerModule(t) PROVE ReportedInv'
  BY <1>5, KeptSteps, KeptSpent DEF SetPerModule
<1>6. ASSUME NEW t \in Threads, Fork(t) PROVE ReportedInv'
  BY <1>6 DEF Fork
<1>7. ASSUME NEW t \in Threads, Step(t) PROVE ReportedInv'
  <2>1. CASE LoadFd(t)
    BY <2>1, KeptSteps, KeptSpent DEF LoadFd
  <2>2. CASE Lock(t)
    BY <2>2, KeptSteps, KeptSpent DEF Lock
  <2>3. CASE Recheck(t)
    BY <2>3, KeptSteps, KeptSpent DEF Recheck, Reloaded
  <2>4. CASE RunTried(t)
    <3>1. /\ pc'[t] = "publish" => init_state = 2
          /\ \A u \in Threads : u # t => pc'[u] = pc[u] /\ fd'[u] = fd[u]
          /\ mod' = mod /\ UNCHANGED <<stateVars, lifeVars>>
      BY <2>4 DEF RunTried
    <3>2. Spent' = Spent
      BY <2>4, KeptSteps, KeptSpent
    <3> QED
      BY <3>1, <3>2
  <2>5. CASE RunFails(t)
    <3>1. init_state' = 2 /\ <<NoModule, "dir">> \in Spent'
      BY <2>5, RunFailsSpends DEF RunFails, RunErr
    <3> QED
      BY <3>1
  <2>6. CASE RunOpens(t)
    <3>1. /\ init_state = 0 /\ init_state' = 1 /\ file_fd' = file_fd /\ mu = t
          /\ pc[t] = "run" /\ pc'[t] # "publish" /\ \A u \in Threads : u # t => pc'[u] = pc[u]
          /\ per_module' = per_module /\ closed' = closed
      BY <2>6 DEF RunOpens
    <3>2. \A u \in Threads : pc'[u] # "publish"
      BY <3>1
    <3>3. ~closed => \A m \in Modules : file_fd'[m] # GaveUp
      BY <3>1
    <3>4. ~per_module /\ shared_fd' \notin Fds => <<NoModule, "file">> \in Spent'
      BY <2>6, RunOpensSpends
    <3>5. known' \subseteq Modules
      BY <2>6 DEF RunOpens
    <3> QED
      BY <3>1, <3>2, <3>3, <3>4, <3>5
  <2>7. CASE UseShared(t)
    BY <2>7, KeptSteps, KeptSpent DEF UseShared
  <2>8. CASE OpenModuleFile(t)
    <3>1. /\ Spent \subseteq Spent' /\ pc'[t] \in {"slot", "publish"}
          /\ pc'[t] = "publish" => <<mod[t], "file">> \in Spent'
      BY <2>8, ModuleSpends
    <3>2. /\ per_module /\ UNCHANGED <<configVars, runVars, moduleVars, lifeVars, mod>>
          /\ \A u \in Threads : u # t => pc'[u] = pc[u] /\ fd'[u] = fd[u]
      BY <2>8 DEF OpenModuleFile
    <3> QED
      BY <3>1, <3>2
  <2>9. CASE RegisterSlot(t)
    BY <2>9, KeptSteps, KeptSpent DEF RegisterSlot, Tracked, HasRoom
  <2>10. CASE RegisterCount(t)
    <3>1. fd' = fd /\ fd[t] \in Fds
      BY <2>10 DEF RegisterCount, HasRoom
    <3>2. Spent' = Spent
      BY <2>10, KeptSteps, KeptSpent
    <3> QED
      BY <2>10, <3>1, <3>2 DEF RegisterCount, HasRoom
  <2>11. CASE Publish(t)
    <3>1. Spent' = Spent
      BY <2>11, KeptSteps, KeptSpent
    <3>2. Cached(fd[t]) = GaveUp => fd[t] \notin Fds
      BY DEF Cached, GaveUp, Fds
    <3>3. /\ UNCHANGED <<configVars, runVars, lifeVars, mod, fd, known>>
          /\ \A u \in Threads : pc'[u] = "publish" => pc[u] = "publish"
          /\ mod[t] \in Modules /\ file_fd'[mod[t]] = Cached(fd[t]) /\ pc[t] = "publish"
          /\ \A m \in Modules : m # mod[t] => file_fd'[m] = file_fd[m]
      BY <2>11 DEF Publish
    <3> QED
      BY <3>1, <3>2, <3>3
  <2>12. CASE Release(t)
    BY <2>12, KeptSteps, KeptSpent DEF Release, Released
  <2>13. CASE Report(t)
    <3>1. /\ pc'[t] \in {"load", "finish"} /\ Carrying(t) /\ ~Carrying(t)'
          /\ reported' = reported \cup {oe[t]}
          /\ \A u \in Threads : u # t => (Carrying(u)' <=> Carrying(u)) /\ oe'[u] = oe[u]
      BY <2>13 DEF Report, Carrying, CarryShape
    <3>2. Spent' = Spent
      BY <3>1 DEF Spent
    <3> QED
      BY <2>13, <3>2 DEF Report, Resolve
  <2>14. CASE Finish(t)
    BY <2>14, KeptSteps, KeptSpent DEF Finish
  <2>15. CASE CloseOne(t)
    BY <2>15, KeptSteps, KeptSpent DEF CloseOne
  <2>16. CASE CloseDone(t)
    BY <2>16, KeptSteps, KeptSpent DEF CloseDone, ListCleared
  <2>17. CASE ClearCrashFds(t)
    BY <2>17, KeptSteps, KeptSpent DEF ClearCrashFds, CountCleared
  <2>18. CASE EndClose(t)
    <3>1. \A u \in Threads : ~Carrying(u) /\ ~Carrying(u)'
      BY <2>18 DEF EndClose, Carrying
    <3>2. Spent = reported /\ Spent' = reported'
      BY <3>1 DEF Spent
    <3>3. CASE closing = "shutdown"
      BY <2>18, <3>2, <3>3 DEF EndClose, Tried
    <3>4. CASE closing # "shutdown"
      BY <2>18, <3>2, <3>4 DEF EndClose, Tried
    <3> QED
      BY <3>3, <3>4
  <2> QED BY <1>7, <2>1, <2>2, <2>3, <2>4, <2>5, <2>6, <2>7, <2>8, <2>9, <2>10, <2>11, <2>12,
             <2>13, <2>14, <2>15, <2>16, <2>17, <2>18 DEF Step
<1> HIDE DEF ReportedInv, TypeInv, CallInv
<1> QED BY <1>1, <1>2, <1>3, <1>4, <1>5, <1>6, <1>7 DEF Next

----------------------------------------------------------------------------
(* Together.                                                               *)

IInv ==
    /\ TypeInv /\ CallInv
    /\ RunInv /\ OneEpoch /\ SharedTried /\ NotYetOpened /\ CachedOrOpening /\ FilesDistinct
    /\ LineInv /\ CrashInv
    /\ CarryShape /\ OnceInv /\ TriedInv /\ ReportedInv

\* The invariant holds initially.
LEMMA IInvInit == Init => IInv
<1> SUFFICES ASSUME Init PROVE IInv
  OBVIOUS
<1> USE TypeInit, NotFree, FdTypes, ConstantsAssumption DEF Init
<1>1. CallInv
  BY DEF CallInv, Exclusion, QuietClosing, CallShape, Holding, CloseSteps, Logging, NoCall,
         ConstantsAssumption
<1>2. RunInv
  BY DEF RunInv, ListInv, Opened
<1>3. OneEpoch /\ SharedTried /\ FilesDistinct
  BY DEF OneEpoch, SharedTried, FilesDistinct
<1>4. NotYetOpened /\ CachedOrOpening
  BY DEF NotYetOpened, CachedOrOpening, Opening
<1>5. LineInv
  BY DEF LineInv, GoesTo, HasFd, NoCall
<1>6. CrashInv
  BY DEF CrashInv
<1>7. Spent = {} /\ \A t \in Threads : ~Carrying(t)
  BY DEF Spent, Carrying
<1>8. CarryShape /\ OnceInv
  BY <1>7 DEF CarryShape, OnceInv, CarryDistinct, SpentTried
<1>9. TriedInv /\ ReportedInv
  BY DEF TriedInv, ReportedInv, Settled
<1> QED
  BY <1>1, <1>2, <1>3, <1>4, <1>5, <1>6, <1>8, <1>9 DEF IInv

\* Every step keeps the invariant.
LEMMA IInvStep ==
    ASSUME IInv, [Next]_vars
    PROVE  IInv'
<1>1. TypeInv' /\ CallInv'
  BY TypeStep, ExclusionStep, QuietClosingStep, CallShapeStep DEF IInv, CallInv
<1>2. RunInv' /\ OneEpoch' /\ SharedTried'
  BY RunStep, OneEpochStep, SharedTriedStep DEF IInv
<1>3. NotYetOpened' /\ CachedOrOpening' /\ FilesDistinct'
  BY NotYetOpenedStep, CachedStep, DistinctStep DEF IInv
<1>4. LineInv' /\ CrashInv'
  BY LineStep, CrashStep DEF IInv
<1>5. CarryShape' /\ OnceInv' /\ TriedInv' /\ ReportedInv'
  BY CarryShapeStep, OnceStep, TriedStep, ReportedStep DEF IInv
<1> QED
  BY <1>1, <1>2, <1>3, <1>4, <1>5 DEF IInv

\* The invariant holds in every reachable state.
LEMMA IInvCorrect == Spec => []IInv
  BY IInvInit, IInvStep, PTL DEF Spec

\* The double-checked open opens one run per life of the process, and no file twice.
THEOREM RunOpenedOnceCorrect == Spec => []RunOpenedOnce
<1>1. IInv => RunOpenedOnce
  BY DEF IInv, RunInv, FilesDistinct, RunOpenedOnce
<1> QED
  BY <1>1, IInvCorrect, PTL

\* No line goes to a closed descriptor, a reused one, or a file of the parent.
THEOREM LineGoesToItsFileCorrect == Spec => []LineGoesToItsFile
<1>1. IInv => LineGoesToItsFile
  <2> SUFFICES ASSUME IInv, NEW t \in Threads,
                      pc[t] = "finish", mod[t] # NoModule, fd[t] \in Fds
               PROVE  file[fd[t]] \in {<<epoch, mod[t]>>, <<epoch, Shared>>}
    BY DEF LineGoesToItsFile
  <2>1. mod[t] \in Modules
    BY DEF IInv, TypeInv, TypeOK
  <2>2. closing = "no"
    BY DEF IInv, CallInv, QuietClosing, Logging, CloseSteps
  <2> QED
    BY <2>1, <2>2 DEF IInv, LineInv, GoesTo, HasFd
<1> QED
  BY <1>1, IInvCorrect, PTL

\* Whoever takes mu_ finds in open_fds_ every open log file and no closed number, and
\* no close loop closes a number twice.
THEOREM OpenFdsCorrect == Spec => []OpenFdsAreTheLogs
<1>1. IInv => OpenFdsAreTheLogs
  <2> SUFFICES ASSUME IInv PROVE OpenFdsAreTheLogs
    OBVIOUS
  <2>1. mu = NoThread => \A t \in Threads : pc[t] \notin {"slot", "close"}
    BY ConstantsAssumption DEF IInv, CallInv, Exclusion, Holding, CloseSteps, ConstantsAssumption
  <2>2. mu = NoThread => open_fds = Opened
    BY <2>1 DEF IInv, RunInv, ListInv
  <2>3. unclosed \subseteq Opened
    BY DEF IInv, RunInv, ListInv
  <2> QED
    BY <2>2, <2>3 DEF OpenFdsAreTheLogs, Opened
<1> QED
  BY <1>1, IInvCorrect, PTL

\* A crash at any step but those of a close finds only open log files in the table,
\* and all that fit when mu_ is free.
THEOREM CrashTableCorrect == Spec => []CrashTableIsCurrent
<1>1. IInv => CrashTableIsCurrent
  <2> SUFFICES ASSUME IInv PROVE CrashTableIsCurrent
    OBVIOUS
  <2>1. mu = NoThread => \A t \in Threads : pc[t] \notin {"slot", "count"}
    BY ConstantsAssumption DEF IInv, CallInv, Exclusion, Holding, ConstantsAssumption
  <2> QED
    BY <2>1 DEF IInv, CrashInv, CrashTableIsCurrent
<1> QED
  BY <1>1, IInvCorrect, PTL

\* After shutdown of an open run nothing is open until the logger starts afresh.
THEOREM ClosedRunCorrect == Spec => []ClosedRunStaysClosed
<1>1. IInv => ClosedRunStaysClosed
  BY DEF IInv, RunInv, ClosedRunStaysClosed
<1> QED
  BY <1>1, IInvCorrect, PTL

\* No failure is reported twice in one life of the process, whoever runs into it.
THEOREM ReportedOnceCorrect == Spec => []FailureReportedOnce
<1>1. IInv => FailureReportedOnce
  BY DEF IInv, CarryShape, OnceInv, CarryDistinct, Carrying, FailureReportedOnce
<1> QED
  BY <1>1, IInvCorrect, PTL

\* Every failure that left lines without a file has been reported when no call is
\* under way.
THEOREM WasReportedCorrect == Spec => []FailureWasReported
<1>1. IInv => FailureWasReported
  <2> SUFFICES ASSUME IInv, \A t \in Threads : ~Logging(t), ~closed, ~reborn
               PROVE  /\ init_state = 2 => <<NoModule, "dir">> \in reported
                      /\ init_state = 1 /\ ~switched => \A m \in known : file_fd[m] = GaveUp =>
                           <<IF per_module THEN m ELSE NoModule, "file">> \in reported
    BY DEF FailureWasReported
  <2>1. \A t \in Threads : ~Carrying(t)
    BY DEF Carrying, Logging, CloseSteps
  <2>2. Spent = reported
    BY <2>1 DEF Spent
  <2> QED
    BY <2>2 DEF IInv, ReportedInv, Settled, LostTo
<1> QED
  BY <1>1, IInvCorrect, PTL

=============================================================================
