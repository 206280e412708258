------------------------------- MODULE RunDir -------------------------------
(***************************************************************************)
(* The run directory shared by every process that logs into one log-dir:   *)
(* open_run of run_dir.cpp, one system call per step, its helpers move_out *)
(* and retention, and what happens to a run afterwards (module files       *)
(* opened later, shutdown, death, fork and restart_after_fork).            *)
(*                                                                         *)
(* A process opens at most one run, so a run is named by its process: its  *)
(* <pid>-<timestamp> stem.  An entry <<r, k>> is an inode that run r may   *)
(* create directly under latest: the shared log file of single-file mode,  *)
(* one file per module, the directory of a tagged run, or a stray: the     *)
(* file of a module that a forked child opens before it restarts.          *)
(***************************************************************************)
EXTENDS Naturals, FiniteSets

CONSTANTS
    Procs,       \* processes that may log into the directory
    NoProc,      \* not a process
    Modules,     \* module names of file_per_module mode
    Shared,      \* the entry kind of the single log file
    TagDir,      \* the entry kind of a tagged run's directory
    Modes,       \* configurations a process may have
    RetainRuns,  \* file.retain_runs, 0 for off
    RetainAge,   \* file.retain_days, in clock ticks, 0 for off
    CustomName,  \* file.name is set (and the same in every process)
    Interrupts,  \* a signal may end a blocking flock with EINTR
    Faults,      \* system calls that may fail
    Forking,     \* processes may fork
    MaxClock     \* bound on the clock that stamps the lock files

AllModes  == {"single", "module", "tagged"}
AllFaults == {"dir", "runlock", "structlock", "listlatest", "rename", "tagdir", "opendir",
              "first", "listlocks", "probe", "listfiles", "unlink"}

Stray(m) == <<m, "stray">>
Strays   == {Stray(m) : m \in Modules}

\* Entries that are made with no lock between processes.
LateKinds == Modules \cup Strays
Late(e)   == e[2] \in LateKinds

Kinds   == LateKinds \cup {Shared, TagDir}
Entries == Procs \X Kinds

ASSUME ConstantsAssumption ==
    /\ IsFiniteSet(Procs)
    /\ NoProc \notin Procs
    /\ Shared \notin Modules
    /\ TagDir \notin Modules \cup {Shared}
    /\ Strays \cap (Modules \cup {Shared, TagDir}) = {}
    /\ Modes \subseteq AllModes
    /\ RetainRuns \in Nat
    /\ RetainAge \in Nat
    /\ CustomName \in BOOLEAN
    /\ Interrupts \in BOOLEAN
    /\ Forking \in BOOLEAN
    /\ Faults \subseteq AllFaults
    /\ MaxClock \in Nat

VARIABLES
    pc,          \* where each process is
    mode,        \* its settings: single file, file per module, or a run tag
    at,          \* where each inode is linked
    suffix,      \* the "-N" its name got when it was moved out (0 for none)
    fds,         \* the log files and directories each process has open
    lockFile,    \* .slog-run-<stem>.lock exists
    born,        \* its modification time
    holders,     \* processes that hold the flocked descriptor of a run's lock
    lockOk,      \* what the flock of a run's own lock returned (nobody reads it)
    structLock,  \* the process that holds the flock on .slog.lock
    listing,     \* entries of latest that move_out has still to rename
    dest,        \* the rename under way: an entry and the suffix chosen for it
    scan,        \* lock files that retention has still to probe
    seen,        \* lock files it has probed
    dead,        \* those of them whose lock it could take
    victims,     \* runs it still has to reap
    target,      \* the run being probed or reaped
    names,       \* its files that reap_run_files has still to unlink
    clock

dirVars   == <<at, suffix>>
lockVars  == <<lockFile, born>>
flockVars == <<holders, lockOk>>
sweepVars == <<scan, seen, dead, victims, target, names>>
fileVars  == <<mode, clock, dirVars, fds>>
lockSet   == <<lockVars, flockVars, structLock>>
moveVars  == <<listing, dest>>
vars      == <<pc, fileVars, lockSet, moveVars, sweepVars>>

Places == {"none", "latest", "old", "gone", "lost"}

\* A process inside open_run, between the flock on .slog.lock and its release.
CriticalSteps ==
    {"list", "move", "rename", "place", "opendir", "first", "retention", "probe",
     "probed", "select", "reap", "reapfiles", "unlock"}

StartSteps == {"begin", "runlock", "flock", "struct"}
EndSteps   == {"failed", "closed", "dead"}
Steps      == {"off", "child", "run"} \cup StartSteps \cup CriticalSteps \cup EndSteps

\* At most two entries per process bear one name, so no suffix exceeds this.
Suffixes == 0 .. 2 * Cardinality(Procs)

NoDest == <<<<NoProc, Shared>>, 0>>

\* The name of an entry: a custom file.name and a run tag are the same in every
\* run, a default name starts with a pid.
Name(e) == IF CustomName /\ e[2] \in Strays THEN <<NoProc, e[2][1]>>
           ELSE <<IF CustomName \/ e[2] = TagDir THEN NoProc ELSE e[1], e[2]>>

Under(place) == {e \in Entries : at[e] = place}

\* Entries that bear the name of e in latest (at most one).
InLatestAs(e) == {f \in Under("latest") : Name(f) = Name(e)}

\* unique_dest: is <name>-<k> taken in log_dir?
Taken(e, k) == \E f \in Under("old") : Name(f) = Name(e) /\ suffix[f] = k

\* The name of the entry starts with the stem of its run, "<pid>-<timestamp>": a
\* stray has the pid of the child with the timestamp of its parent.
Stemmed(e) == ~CustomName /\ e[2] \notin {TagDir} \cup Strays

\* reap_run_files matches "<stem>*.log" in log_dir, which no name does that was
\* given a suffix.
ReapableFiles(r) ==
    {e \in Under("old") : Stemmed(e) /\ e[1] = r /\ suffix[e] = 0}

Goto(p, step) == pc' = [pc EXCEPT ![p] = step]

\* open(O_CREAT): the inode of that name under latest, made if there is none.
OpenInLatest(p, k) ==
    IF InLatestAs(<<p, k>>) = {}
    THEN /\ at' = [at EXCEPT ![<<p, k>>] = "latest"]
         /\ fds' = [fds EXCEPT ![p] = @ \cup {<<p, k>>}]
    ELSE /\ at' = at
         /\ fds' = [fds EXCEPT ![p] = @ \cup InLatestAs(<<p, k>>)]

\* The process lets go of its descriptors of run locks; a flock ends with the
\* last copy of its descriptor.
DropRunLocks(p) == holders' = [r \in Procs |-> holders[r] \ {p}]

\* Mutant: the descriptor of .slog.lock stays open.
KeepStructLock(p) == UNCHANGED structLock
DropStructLock(p) == structLock' = IF structLock = p THEN NoProc ELSE structLock

\* Its log files close.
CloseFiles(p) == fds' = [fds EXCEPT ![p] = {}]

ForgetSweep(p) ==
    /\ scan' = [scan EXCEPT ![p] = {}]
    /\ seen' = [seen EXCEPT ![p] = {}]
    /\ dead' = [dead EXCEPT ![p] = {}]
    /\ victims' = [victims EXCEPT ![p] = {}]
    /\ target' = [target EXCEPT ![p] = NoProc]
    /\ names' = [names EXCEPT ![p] = {}]

----------------------------------------------------------------------------
Init ==
    /\ pc = [p \in Procs |-> "off"]
    /\ mode \in [Procs -> Modes]
    /\ at = [e \in Entries |-> "none"]
    /\ suffix = [e \in Entries |-> 0]
    /\ fds = [p \in Procs |-> {}]
    /\ lockFile = [r \in Procs |-> FALSE]
    /\ born = [r \in Procs |-> 0]
    /\ holders = [r \in Procs |-> {}]
    /\ lockOk = [r \in Procs |-> FALSE]
    /\ structLock = NoProc
    /\ listing = [p \in Procs |-> {}]
    /\ dest = [p \in Procs |-> NoDest]
    /\ scan = [p \in Procs |-> {}]
    /\ seen = [p \in Procs |-> {}]
    /\ dead = [p \in Procs |-> {}]
    /\ victims = [p \in Procs |-> {}]
    /\ target = [p \in Procs |-> NoProc]
    /\ names = [p \in Procs |-> {}]
    /\ clock = 0

\* The first line that needs a file, or init(), calls open_run.
Start(p) ==
    /\ pc[p] = "off"
    /\ Goto(p, "begin")
    /\ UNCHANGED <<fileVars, lockSet, moveVars, sweepVars>>

\* mkdir_p(log_dir), mkdir_p(latest); an existing directory is fine.
MakeDirs(p) ==
    /\ pc[p] = "begin"
    /\ \/ Goto(p, "runlock")
       \/ "dir" \in Faults /\ Goto(p, "failed")
    /\ UNCHANGED <<fileVars, lockSet, moveVars, sweepVars>>

\* open(O_CREAT) of the per-run lock; a failure is recorded and not fatal.
OpenRunLock(p) ==
    /\ pc[p] = "runlock"
    /\ \/ /\ lockFile' = [lockFile EXCEPT ![p] = TRUE]
          /\ born' = [born EXCEPT ![p] = clock]
          /\ Goto(p, "flock")
       \/ /\ "runlock" \in Faults
          /\ Goto(p, "struct")
          /\ UNCHANGED lockVars
    /\ UNCHANGED <<fileVars, flockVars, structLock, moveVars, sweepVars>>

\* flock(LOCK_EX | LOCK_NB), result ignored: refused while a retention probe of
\* another process holds the lock.
FlockRunLock(p) ==
    /\ pc[p] = "flock"
    /\ IF \E q \in Procs : pc[q] = "probed" /\ target[q] = p
       THEN UNCHANGED flockVars
       ELSE /\ holders' = [holders EXCEPT ![p] = @ \cup {p}]
            /\ lockOk' = [lockOk EXCEPT ![p] = TRUE]
    /\ Goto(p, "struct")
    /\ UNCHANGED <<fileVars, lockVars, structLock, moveVars, sweepVars>>

\* open and flock(LOCK_EX) of .slog.lock.  The flock blocks, and its result is
\* ignored: EINTR lets the process go on without the lock.
LockStruct(p) ==
    /\ pc[p] = "struct"
    /\ \/ /\ structLock = NoProc
          /\ structLock' = p
          /\ Goto(p, "list")
          /\ UNCHANGED holders
       \/ /\ Interrupts
          /\ structLock # NoProc
          /\ Goto(p, "list")
          /\ UNCHANGED <<structLock, holders>>
       \/ /\ "structlock" \in Faults
          /\ DropRunLocks(p)
          /\ Goto(p, "failed")
          /\ UNCHANGED structLock
    /\ UNCHANGED <<fileVars, lockVars, lockOk, moveVars, sweepVars>>

\* move_out: opendir(latest), one readdir pass.  If opendir fails, move_out returns
\* without a word and open_run goes on.
ListLatest(p) ==
    /\ pc[p] = "list"
    /\ \/ listing' = [listing EXCEPT ![p] = Under("latest")]
       \/ "listlatest" \in Faults /\ UNCHANGED listing
    /\ Goto(p, "move")
    /\ UNCHANGED <<fileVars, lockSet, dest, sweepVars>>

\* unique_dest: the first name that is free in log_dir.  Mutant: the plain name.
PlainName(e, k) == k = 0
FreeName(e, k)  == ~Taken(e, k) /\ \A j \in 0 .. (k - 1) : Taken(e, j)

PickDest(p) ==
    /\ pc[p] = "move"
    /\ \E e \in listing[p], k \in Suffixes :
         /\ FreeName(e, k)
         /\ listing' = [listing EXCEPT ![p] = @ \ {e}]
         /\ dest' = [dest EXCEPT ![p] = <<e, k>>]
    /\ Goto(p, "rename")
    /\ UNCHANGED <<fileVars, lockSet, sweepVars>>

\* rename(): moves whatever bears the name now and replaces a file that took the
\* destination in between; a directory is not replaced (ENOTEMPTY).  A failure
\* is noted and the entry stays.
Rename(p) ==
    /\ pc[p] = "rename"
    /\ LET e     == dest[p][1]
           k     == dest[p][2]
           moved == InLatestAs(e)
           over  == {f \in Under("old") : Name(f) = Name(e) /\ suffix[f] = k}
       IN \/ /\ over = {} \/ e[2] # TagDir
             /\ at' = [f \in Entries |-> IF f \in moved THEN "old"
                                         ELSE IF moved # {} /\ f \in over THEN "lost"
                                         ELSE at[f]]
             /\ suffix' = [f \in Entries |-> IF f \in moved THEN k ELSE suffix[f]]
          \/ /\ "rename" \in Faults \/ (over # {} /\ e[2] = TagDir)
             /\ UNCHANGED dirVars
    /\ dest' = [dest EXCEPT ![p] = NoDest]
    /\ Goto(p, "move")
    /\ UNCHANGED <<mode, clock, fds, lockSet, listing, sweepVars>>

\* Mutant: move_out stops early.
MovedSome(p) == TRUE
MovedAll(p)  == listing[p] = {}

MoveDone(p) ==
    /\ pc[p] = "move"
    /\ MovedAll(p)
    /\ Goto(p, "place")
    /\ UNCHANGED <<fileVars, lockSet, moveVars, sweepVars>>

\* An error return after the structure lock was taken: both locks are released.
\* Mutant: the descriptor of the run's lock leaks.
GiveUpLeaking(p) == DropStructLock(p) /\ UNCHANGED holders /\ Goto(p, "failed")
GiveUp(p)        == DropStructLock(p) /\ DropRunLocks(p) /\ Goto(p, "failed")

\* mkdir(latest/<tag>) of a tagged run; an existing directory is fine.
MakeRunDir(p) ==
    /\ pc[p] = "place"
    /\ \/ /\ at' = IF mode[p] = "tagged" /\ InLatestAs(<<p, TagDir>>) = {}
                   THEN [at EXCEPT ![<<p, TagDir>>] = "latest"]
                   ELSE at
          /\ Goto(p, "opendir")
          /\ UNCHANGED <<structLock, holders>>
       \/ /\ mode[p] = "tagged" /\ "tagdir" \in Faults
          /\ GiveUp(p)
          /\ UNCHANGED at
    /\ UNCHANGED <<mode, clock, suffix, fds, lockVars, lockOk, moveVars, sweepVars>>

\* open(run_dir, O_DIRECTORY): the descriptor every later file opens under.
OpenRunDir(p) ==
    /\ pc[p] = "opendir"
    /\ \/ /\ mode[p] = "tagged" => InLatestAs(<<p, TagDir>>) # {}
          /\ fds' = IF mode[p] = "tagged"
                    THEN [fds EXCEPT ![p] = @ \cup InLatestAs(<<p, TagDir>>)]
                    ELSE fds
          /\ Goto(p, "first")
          /\ UNCHANGED <<structLock, holders>>
       \/ /\ \/ "opendir" \in Faults
             \/ mode[p] = "tagged" /\ InLatestAs(<<p, TagDir>>) = {}
          /\ GiveUp(p)
          /\ UNCHANGED fds
    /\ UNCHANGED <<mode, clock, dirVars, lockVars, lockOk, moveVars, sweepVars>>

\* The shared file of single-file mode is created under the lock; a failure is
\* not fatal.  The files of a tagged run are inside its directory.
FirstFile(p) ==
    /\ pc[p] = "first"
    /\ \/ /\ mode[p] = "single"
          /\ OpenInLatest(p, Shared)
       \/ /\ mode[p] # "single" \/ "first" \in Faults
          /\ UNCHANGED <<at, fds>>
    /\ Goto(p, "retention")
    /\ UNCHANGED <<mode, clock, suffix, lockSet, moveVars, sweepVars>>

\* retention: returns at once when both limits are off or log_dir does not open,
\* else reads log_dir.
ListLocks(p) ==
    /\ pc[p] = "retention"
    /\ \/ /\ (RetainRuns = 0 /\ RetainAge = 0) \/ "listlocks" \in Faults
          /\ Goto(p, "unlock")
          /\ UNCHANGED scan
       \/ /\ RetainRuns > 0 \/ RetainAge > 0
          /\ Goto(p, "probe")
          /\ scan' = [scan EXCEPT ![p] = {r \in Procs : lockFile[r]}]
    /\ UNCHANGED <<fileVars, lockSet, moveVars, seen, dead, victims, target, names>>

\* Somebody holds the flock on the lock file of r: its run, or a probe of it.
\* Mutant: the probe ignores that.
FlockedNever(r) == FALSE
Flocked(r) ==
    \/ holders[r] # {}
    \/ \E q \in Procs : pc[q] = "probed" /\ target[q] = r

\* The probe of one lock file: open it and try to take its flock.  A file that does
\* not open is listed as that of a live run.
ProbeBusy(p) ==
    /\ pc[p] = "probe"
    /\ \E r \in scan[p] :
         /\ ~lockFile[r] \/ Flocked(r) \/ "probe" \in Faults
         /\ scan' = [scan EXCEPT ![p] = @ \ {r}]
         /\ seen' = [seen EXCEPT ![p] = @ \cup {r}]
    /\ UNCHANGED <<pc, fileVars, lockSet, moveVars, dead, victims, target, names>>

ProbeFree(p) ==
    /\ pc[p] = "probe"
    /\ \E r \in scan[p] :
         /\ lockFile[r] /\ ~Flocked(r)
         /\ scan' = [scan EXCEPT ![p] = @ \ {r}]
         /\ seen' = [seen EXCEPT ![p] = @ \cup {r}]
         /\ dead' = [dead EXCEPT ![p] = @ \cup {r}]
         /\ target' = [target EXCEPT ![p] = r]
    /\ Goto(p, "probed")
    /\ UNCHANGED <<fileVars, lockSet, moveVars, victims, names>>

\* flock(LOCK_UN), close.
ProbeRelease(p) ==
    /\ pc[p] = "probed"
    /\ target' = [target EXCEPT ![p] = NoProc]
    /\ Goto(p, "probe")
    /\ UNCHANGED <<fileVars, lockSet, moveVars, scan, seen, dead, victims, names>>

ScanDone(p) ==
    /\ pc[p] = "probe"
    /\ scan[p] = {}
    /\ Goto(p, "select")
    /\ UNCHANGED <<fileVars, lockSet, moveVars, sweepVars>>

\* The order of the list of lock files.  Mutant: oldest first.
Older(r, s) == born[r] <= born[s]
Newer(r, s) == born[r] >= born[s]

\* The front of the list sorted newest first: equal times come in any order.
Window(p) ==
    {w \in SUBSET seen[p] :
        /\ Cardinality(w) <= RetainRuns
        /\ Cardinality(w) < RetainRuns => w = seen[p]
        /\ \A r \in w, s \in seen[p] \ w : Newer(r, s)}

\* The dead runs outside the window, and those that are too old.
SelectVictims(p) ==
    /\ pc[p] = "select"
    /\ \E w \in Window(p) :
         victims' = [victims EXCEPT ![p] =
                        {r \in dead[p] :
                            \/ RetainRuns > 0 /\ r \notin w
                            \/ RetainAge > 0 /\ clock - born[r] > RetainAge}]
    /\ Goto(p, "reap")
    /\ UNCHANGED <<fileVars, lockSet, moveVars, scan, seen, dead, target, names>>

\* The victims are reaped in the order of the list, newest first.  For each,
\* reap_run_files reads log_dir once; if it does not open, no file is found.
NextVictim(p) ==
    /\ pc[p] = "reap"
    /\ \E r \in victims[p] :
         /\ \A s \in victims[p] : Newer(r, s)
         /\ victims' = [victims EXCEPT ![p] = @ \ {r}]
         /\ target' = [target EXCEPT ![p] = r]
         /\ \/ names' = [names EXCEPT ![p] = ReapableFiles(r)]
            \/ "listfiles" \in Faults /\ UNCHANGED names
    /\ Goto(p, "reapfiles")
    /\ UNCHANGED <<fileVars, lockSet, moveVars, scan, seen, dead>>

\* One unlink, of a name that another sweep may have unlinked before; its result
\* is ignored.
ReapFile(p) ==
    /\ pc[p] = "reapfiles"
    /\ \E e \in names[p] :
         /\ names' = [names EXCEPT ![p] = @ \ {e}]
         /\ \/ at' = [at EXCEPT ![e] = IF @ = "old" THEN "gone" ELSE @]
            \/ "unlink" \in Faults /\ UNCHANGED at
    /\ UNCHANGED <<pc, mode, clock, suffix, fds, lockSet, moveVars, scan, seen, dead, victims,
                   target>>

\* When the lock file goes: after all files that were found, whatever became of
\* them.  Mutant: before.
UnlinkedSome(p) == TRUE
UnlinkedAll(p)  == names[p] = {}

UnlinkLock(p) ==
    /\ pc[p] = "reapfiles"
    /\ UnlinkedAll(p)
    /\ \/ lockFile' = [lockFile EXCEPT ![target[p]] = FALSE]
       \/ "unlink" \in Faults /\ UNCHANGED lockFile
    /\ target' = [target EXCEPT ![p] = NoProc]
    /\ Goto(p, "reap")
    /\ UNCHANGED <<fileVars, born, flockVars, structLock, moveVars, scan, seen, dead, victims,
                   names>>

ReapDone(p) ==
    /\ pc[p] = "reap"
    /\ victims[p] = {}
    /\ Goto(p, "unlock")
    /\ UNCHANGED <<fileVars, lockSet, moveVars, sweepVars>>

\* flock(LOCK_UN) and close of .slog.lock: open_run returns an open run.
UnlockStruct(p) ==
    /\ pc[p] = "unlock"
    /\ DropStructLock(p)
    /\ ForgetSweep(p)
    /\ Goto(p, "run")
    /\ UNCHANGED <<fileVars, lockVars, flockVars, moveVars>>

\* The kind of file a process opens for a module.
Opened(p, m) == IF pc[p] = "run" THEN m ELSE Stray(m)

\* ensure_file_open of a module in file_per_module mode: no lock between
\* processes is held, and an untagged run's descriptor is latest itself, in a
\* forked child too.
OpenModule(p, m) ==
    /\ pc[p] \in {"run", "child"}
    /\ mode[p] = "module"
    /\ \A e \in fds[p] : e[2] \notin {m, Stray(m)}
    /\ OpenInLatest(p, Opened(p, m))
    /\ UNCHANGED <<pc, mode, clock, suffix, lockSet, moveVars, sweepVars>>

\* shutdown(), or the end of the process: its descriptors close.
Shutdown(p) ==
    /\ pc[p] \in {"run", "child"}
    /\ CloseFiles(p)
    /\ DropRunLocks(p)
    /\ Goto(p, "closed")
    /\ UNCHANGED <<mode, clock, dirVars, lockVars, lockOk, structLock, moveVars, sweepVars>>

\* Death inside open_run: the kernel closes every descriptor and ends the flocks.
Crash(p) ==
    /\ pc[p] \in StartSteps \cup CriticalSteps
    /\ CloseFiles(p)
    /\ DropRunLocks(p)
    /\ DropStructLock(p)
    /\ ForgetSweep(p)
    /\ listing' = [listing EXCEPT ![p] = {}]
    /\ dest' = [dest EXCEPT ![p] = NoDest]
    /\ Goto(p, "dead")
    /\ UNCHANGED <<mode, clock, dirVars, lockVars, lockOk>>

\* Who has descriptors of run locks after a fork.  Mutant: not the child.
CopiedNone(p, c)  == holders
CopiedLocks(p, c) == [r \in Procs |-> IF p \in holders[r] THEN holders[r] \cup {c} ELSE holders[r]]

\* fork: never inside open_run, because atfork_prepare waits for mu_.  The child
\* has copies of the parent's descriptors.
Fork(p, c) ==
    /\ Forking
    /\ pc[p] \in {"run", "child"}
    /\ pc[c] = "off"
    /\ fds' = [fds EXCEPT ![c] = fds[p]]
    /\ holders' = CopiedLocks(p, c)
    /\ mode' = [mode EXCEPT ![c] = mode[p]]
    /\ Goto(c, "child")
    /\ UNCHANGED <<clock, dirVars, lockVars, lockOk, structLock, moveVars, sweepVars>>

\* restart_after_fork: the child closes its copies and opens a run of its own.
Restart(c) ==
    /\ pc[c] = "child"
    /\ CloseFiles(c)
    /\ DropRunLocks(c)
    /\ Goto(c, "begin")
    /\ UNCHANGED <<mode, clock, dirVars, lockVars, lockOk, structLock, moveVars, sweepVars>>

Tick ==
    /\ clock < MaxClock
    /\ clock' = clock + 1
    /\ UNCHANGED <<pc, mode, dirVars, fds, lockSet, moveVars, sweepVars>>

\* What open_run does of its own accord.
OpenRun(p) ==
    \/ MakeDirs(p) \/ OpenRunLock(p) \/ FlockRunLock(p) \/ LockStruct(p)
    \/ ListLatest(p) \/ PickDest(p) \/ Rename(p) \/ MoveDone(p)
    \/ MakeRunDir(p) \/ OpenRunDir(p) \/ FirstFile(p)
    \/ ListLocks(p) \/ ProbeBusy(p) \/ ProbeFree(p) \/ ProbeRelease(p) \/ ScanDone(p)
    \/ SelectVictims(p) \/ NextVictim(p) \/ ReapFile(p) \/ UnlinkLock(p) \/ ReapDone(p)
    \/ UnlockStruct(p)

AfterOpen(p) ==
    \/ \E m \in Modules : OpenModule(p, m)
    \/ Shutdown(p)
    \/ \E c \in Procs : Fork(p, c)
    \/ Restart(p)

Next ==
    \/ \E p \in Procs : Start(p) \/ OpenRun(p) \/ AfterOpen(p) \/ Crash(p)
    \/ Tick

Spec == Init /\ [][Next]_vars

\* open_run never waits but for .slog.lock, and the kernel schedules every
\* process; no signal need come to one that waits.  A process takes that lock
\* once, so weak fairness of its step is enough.
Unaided(p) == OpenRun(p) /\ (pc[p] = "struct" => structLock = NoProc)

FairSpec == Spec /\ \A p \in Procs : WF_vars(Unaided(p))

----------------------------------------------------------------------------
(* Properties.                                                             *)

\* Every variable has its type.
TypeProcess == /\ pc \in [Procs -> Steps]
               /\ mode \in [Procs -> Modes]
               /\ clock \in Nat
TypeFiles   == /\ at \in [Entries -> Places]
               /\ suffix \in [Entries -> Suffixes]
               /\ fds \in [Procs -> SUBSET Entries]
TypeLocks   == /\ lockFile \in [Procs -> BOOLEAN]
               /\ born \in [Procs -> Nat]
               /\ holders \in [Procs -> SUBSET Procs]
               /\ lockOk \in [Procs -> BOOLEAN]
               /\ structLock \in Procs \cup {NoProc}
TypeMove    == /\ listing \in [Procs -> SUBSET Entries]
               /\ dest \in [Procs -> (Entries \cup {NoDest[1]}) \X Suffixes]
TypeSweep   == /\ scan \in [Procs -> SUBSET Procs]
               /\ seen \in [Procs -> SUBSET Procs]
               /\ dead \in [Procs -> SUBSET Procs]
               /\ victims \in [Procs -> SUBSET Procs]
               /\ target \in [Procs -> Procs \cup {NoProc}]
               /\ names \in [Procs -> SUBSET Entries]

TypeOK == TypeProcess /\ TypeFiles /\ TypeLocks /\ TypeMove /\ TypeSweep

\* No two processes are between the flock on .slog.lock and its release.
StructureExclusive ==
    \A p, q \in Procs : pc[p] \in CriticalSteps /\ pc[q] \in CriticalSteps => p = q

\* "retention never reaps a live run": a file some process still has open, of a
\* run whose flock succeeded, is not deleted, whatever starts, dies, forks or
\* sweeps in between.
LockedRunNeverReaped ==
    \A p \in Procs : \A e \in fds[p] : lockOk[e[1]] => at[e] # "gone"

\* What makes LockedRunNeverReaped inductive when no flock is interrupted.

SweepSteps == {"probe", "probed", "select", "reap", "reapfiles", "unlock"}

CriticalHoldsLock ==
    \A p \in Procs : pc[p] \in CriticalSteps => structLock = p

\* A run's own flock is tried once; if it succeeded its process holds it until
\* the end of the run.
RunLockDiscipline ==
    \A p \in Procs :
        /\ pc[p] \in {"off", "child", "begin", "runlock", "flock"} => ~lockOk[p]
        /\ lockOk[p] /\ pc[p] \in {"struct", "run"} \cup CriticalSteps =>
             p \in holders[p]

\* A run has no file, and its process none of another run's, before the process
\* is past .slog.lock and its first file.
EarlySteps       == {"off", "child"} \cup StartSteps
BeforeFirstFile  == {"off", "list", "move", "rename", "place", "opendir", "first"}
                        \cup StartSteps
FilesNeedStructLock ==
    \A q \in Procs : \A e \in fds[q] : Stemmed(e) => pc[e[1]] \notin EarlySteps
NoFilesYet ==
    \A q \in Procs : pc[q] \in BeforeFirstFile => \A e \in fds[q] : ~Stemmed(e)

\* Whoever has a file of a locked run open, a forked child included, has a copy
\* of the descriptor of its lock.
OpenersHoldLock ==
    \A q \in Procs : \A e \in fds[q] :
        Stemmed(e) /\ lockOk[e[1]] => q \in holders[e[1]]

SweepScope ==
    \A p \in Procs :
        /\ pc[p] \notin SweepSteps => dead[p] = {}
        /\ victims[p] \subseteq dead[p]
        /\ pc[p] \in {"probed", "reapfiles"} => target[p] \in dead[p]
        /\ \A e \in names[p] : Stemmed(e) /\ e[1] \in dead[p]

\* A locked run that a sweep found dead is over, or had not locked itself yet and
\* waits for the sweep to end: nobody has, or will have, a file of it open.
DeadRunsHaveNoFiles ==
    \A p \in Procs : \A r \in dead[p] : lockOk[r] =>
        /\ pc[r] \in {"struct"} \cup EndSteps
        /\ \A q \in Procs : \A e \in fds[q] : Stemmed(e) => e[1] # r

OnlyStemmedGone == \A e \in Entries : at[e] = "gone" => Stemmed(e)

SweepInv ==
    /\ CriticalHoldsLock /\ RunLockDiscipline /\ FilesNeedStructLock /\ NoFilesYet
    /\ OpenersHoldLock /\ SweepScope /\ DeadRunsHaveNoFiles /\ OnlyStemmedGone
    /\ LockedRunNeverReaped

\* The same without asking what the flock returned: what the docs promise of
\* every run.
OpenFileNeverReaped ==
    \A p \in Procs : \A e \in fds[p] : at[e] # "gone"

\* "only the newest run stays under latest": at no point do entries of two runs
\* lie there together, but for a module file that an older run, or a child of it,
\* opened after it was moved out.
OneRunInLatest ==
    \A e, f \in Under("latest") : e[1] = f[1] \/ Late(e) \/ Late(f)

\* unique_dest and rename are two calls: no moved file ever replaces another one.
NothingReplaced == Under("lost") = {}

\* An error return of open_run, and a death, leave nothing locked.
FailureHoldsNothing ==
    \A p \in Procs : pc[p] \in EndSteps =>
        structLock # p /\ \A r \in Procs : p \notin holders[r]

\* A step that removes the lock file of a run leaves no file of it to reap.  Nobody
\* checks that: it takes a log_dir that opens and unlinks that succeed, and runs whose
\* files are all made under the structure lock.
UnlinksNoOrphan ==
    \A r \in Procs : lockFile[r] /\ ~lockFile'[r] /\ lockOk[r] /\ ~CustomName =>
        \A e \in Entries : e[1] = r /\ e[2] # TagDir => at[e] \notin {"latest", "old"}

\* Retention removes a run's lock file only when no file of that run is left to
\* reap, neither moved out nor still in latest: a death between two steps of the
\* sweep never leaves a file that no later sweep can find.
SweepLeavesNoOrphan == [][UnlinksNoOrphan]_vars

\* A completed sweep leaves at most retain_runs of the runs it found dead, and
\* never an older one in place of a newer one it deleted.
SweepKeepsNewest ==
    \A p \in Procs : pc[p] = "unlock" /\ RetainRuns > 0 =>
        LET kept == {r \in dead[p] : lockFile[r]}
        IN /\ Cardinality(kept) <= RetainRuns
           /\ \A r \in kept, s \in dead[p] \ kept :
                RetainAge = 0 => born[r] >= born[s]

\* The directory is the rotation the docs describe.
Held == {r \in Procs : lockOk[r] /\ \E p \in Procs : \E e \in fds[p] : e[1] = r}

RunsAt(place) == {e[1] : e \in Under(place)}

\* The one run of a set of at most one.
OnlyRun(runs) == IF runs = {} THEN NoProc ELSE CHOOSE r \in Procs : r \in runs

Slot == OnlyRun(RunsAt("latest"))

Rotation ==
    INSTANCE RunRotation WITH
        Runs    <- Procs,
        NoRun   <- NoProc,
        slot    <- Slot,
        archive <- RunsAt("old"),
        deleted <- RunsAt("gone"),
        held    <- Held

\* Every step of open_run, of the later life of a run and of a death is a step
\* of that rotation, or none of its business.
RotatesRuns == Rotation!Spec

\* A process that begins to open a run gets there, or fails, or dies: it never
\* waits for ever on a lock left behind by another process.
StartupCompletes ==
    \A p \in Procs :
        pc[p] \in StartSteps \cup CriticalSteps ~> pc[p] \in {"run"} \cup EndSteps

=============================================================================
