# Formal models of slog

slog is a C++17 logging library for Linux (`src/include/slog/`, `src/src/`). A program
logs lines by level and module; each line goes to a file and to standard output. Every
process makes a *run* in a log directory that all processes of a program share, an older
run is moved aside by the next one, and old runs are deleted. There is no logging thread:
the thread that logs formats and writes, so everything below happens between threads of
one process and between processes, with the kernel's `flock`, `rename` and descriptors as
the only arbiters.

This directory holds TLA+ models of that behaviour, TLC configurations that check them on
small instances, and proofs checked by TLAPS. Paths are relative to the repository
(`src/src/run_dir.cpp` is the file `src/run_dir.cpp` of the checkout).

## 1. The parts of the system

| Part | Code | State | Operations | What makes it correct |
|---|---|---|---|---|
| Run directory | `run_dir.cpp`, `internal.h` | on disk: `latest/`, moved-out files, `.slog.lock`, one `.slog-run-<stem>.lock` per run | `open_run` (`move_out`, `unique_dest`, `retention`, `reap_run_files`), `open_log_file` | one run in `latest`; no line lost to a rotation; retention deletes old runs, only finished ones, completely |
| Logger: files and lifecycle | `logger.cpp` | `mu_`, `init_state_`, `run_dir_fd_`, `shared_fd_`, `open_fds_`, `closed_`, `file_fd` of each `ModuleState`, `g_crash_fds` | `ensure_run_open`, `ensure_file_open`, `init`, `shutdown`, `restart_after_fork`, the `atfork` handlers, the crash handler | a run is opened once; a line reaches a file of its own run; failures are reported, once; no descriptor is lost |
| Error reporting | `error.cpp` | last error, handler, `g_noted`, `g_drops`, `t_in_handler` | `record`, `report`, `count_drop`, `last_error`, `clear_error`, `set_error_handler` | every loss is counted, noted once per code, told to the handler; a handler that logs does not recurse |
| Dispatch of a line | `logger.cpp` (`format_and_dispatch`, `dispatch`) | the thread-local buffers | threshold tests, formatting, file, stdout | an output carries its own text; one output failing does not stop the other |
| Settings and thresholds | `config.cpp`, `logger.cpp` | three key/value layers, `settings_`, four atomics per module | setters, `configure`, `load_file`, `load_env`, `reload_locked`, `compute_module`, `resolve_module` | the most specific value of the last layer decides, for old and new modules |
| Levels | `level.cpp` | the registry | `add_level`, `parse_level`, `level_name` | a threshold survives being stored as a text |
| Rate-limit macros | `slog.h` | one static atomic per call site | `LOG_EVERY_N`, `LOG_FIRST_N`, `LOG_EVERY_N_SEC` | exactly the calls named are let through |
| Mutexes and fork handlers | `logger.cpp`, `error.cpp`, `level.cpp` | `mu_`, `err_mu`, the registry's mutex, `g_pid`, `t_tid` | every call that locks, the handler that calls back, `fork` | no user code under a mutex; a fork leaves `mu_` and the ids right; every call returns |
| Prefix and line building | `format.cpp`, `logger.cpp` | `fmt_ptr_`, `specs_`, `spec_cache_` | `parse_format`, `build_line`, the cut of a message | a line is what the documented tokens give; it fits its buffer |
| Writing | `sink.cpp` | memory capture for tests | `write_all` | lines never tear, short writes are continued, losses are counted |
| Readers | `config.cpp` | none | `read_config_file`, `read_env` | the pairs are those the documents promise; what is skipped is reported |

How they interact. A log call tests the thresholds without a lock (`should_log`), asks the
logger for its module's descriptor (a lock-free load, or `ensure_file_open` under `mu_`,
which may call `open_run` and so wait for `.slog.lock`, that is for another process), and
writes. What fails under `mu_` is carried out in an `OpenErr` and reported after `mu_` is
released, because the error handler may log. A setter takes `mu_`, changes a layer and
rebuilds every module's thresholds while other threads read them. `fork` takes `mu_` around
itself; the child may call `restart_after_fork`, which closes the inherited descriptors and
starts a run of its own.

What is hard:

- **Processes.** Any number of processes may be inside `open_run`. Rotation is serialised by
  `.slog.lock`, but a run takes its own lock *before* that, retention probes locks that
  belong to others, module files are opened later with no lock at all, and a process may
  die between any two system calls.
- **Threads.** Double-checked opening, atomics published one by one, two critical sections
  of `err_mu` in one report, a crash handler that may run between any two instructions.
- **Callbacks.** The error handler may log, fail again, and be removed meanwhile.
- **Sequences.** `shutdown`, `fork`, `restart_after_fork`, `init`, reconfiguration and first
  lines of new modules in an order nobody wrote a test for.

Every exposure of this kind is listed, at its line, under `hazards` in `PROJECT.json`.

## 2. Modules

| Module | Models | Main variables and what they are in the code |
|---|---|---|
| `RunRotation` | what a run directory promises: a slot for one run, an archive, deletion of archived runs nobody holds | abstract |
| `RunDir` | `open_run` one system call per step, `move_out`, `retention`; then module files, shutdown, death, fork, restart | `at`, `suffix`: where each inode is and its `-N`; `lockFile`, `born`, `holders`: lock files, their times, copies of the flocked descriptor; `structLock`: `.slog.lock`; `listing`, `dest`, `scan`, `seen`, `dead`, `victims`, `target`, `names`: the locals of the loops |
| `RunDirProofs`, `RotationProofs` | theorems about `RunDir`; that it implements `RunRotation` | |
| `LogFiles` | files, descriptors and lifecycle of one process; `open_run` is one step here, as it runs under `mu_` | named as in `Logger`; `file[d]`: the file behind descriptor `d`, with the epoch (fork generation) of its run; `unclosed`: what the loop of a close has still to close; `oe`: the `OpenErr` of a call; `outer`: the call whose handler is running |
| `LogFilesProofs` | theorems about `LogFiles` | |
| `ErrorReport` | a line after the thresholds: buffer, file, stdout, and the reporting of what fails | `stack`: the nested log calls of a thread, each with the size of its message; `msgbuf`: of each byte of a thread's message buffer, whose message it is of; `sticky`: the last error; `noted`, `drops`, `inHandler`: `g_noted`, `g_drops`, `t_in_handler` |
| `ErrorReportProofs` | theorems about `ErrorReport` | |
| `Locks` | the three mutexes, the calls as sequences of what they do to mutexes and guarded fields, the handler that calls back, `fork` and its handlers, the cached ids | `holder`; `todo`: what a thread's call has still to do; `shared`, `mine`: handler and user pointer, code and detail, and a thread's copies of them; `g_pid`, `t_tid` |
| `LocksProofs` | theorems about `Locks` and its scripts | |
| `Levels` | the registry and its two conversions, with the cut of a `long` to an `int` | `registry` |
| `ConfigText` (extends `Levels`) | `read_config_file`, `read_env` and their helpers on texts; what the documents promise of a text, found without a scan | none |
| `Settings` (extends `ConfigText`) | layers, `apply_kv` and what it records, `compute_module`, `reset`, and log calls that read the four atomics one by one | `source`: the file and environment last read; `layer`, `settings`, `threshold`; `sticky`: the last error's code; `todo`, `storing`: where `reload_locked` is; `inForce`: the settings in force during a call |
| `SettingsProofs` | theorems about `Settings` and `Levels` | |
| `LineFormat` | the pattern, the line built from it, both cuts; what the documents promise of a line, found without a scan | none |
| `LineWrite` (extends `LineFormat`) | the published spec, colour and flush level, `dispatch` that reads them, `write_all` on two outputs, the sync | `fmt`, `specs`, `cache`: `fmt_ptr_`, `specs_`, `spec_cache_`; `line`, `done`: the line buffer of a thread and how much is written; `out`: the pieces each output got; `durable` |
| `LineWriteProofs` | theorems about `LineWrite` and the operators of `LineFormat` | |
| `RateLimit` | three call sites and their atomics | `everyCount`, `firstCount`, `last`; `now`, `prev`: the locals |
| `RateLimitProofs` | theorems about `RateLimit` | |
| `MC*` | values of the constants for TLC | |

Each action is one handler, system call or critical section, with everything it changes;
where the code releases a lock, or reads an atomic that others write, a new step begins.
A mutex held over several steps is a variable when other steps must see it (`mu`,
`structLock`) and a condition when only its holder's variables show it (`MutexFree` in
`Settings`). Operators marked *Mutant* change one definition the way a plausible bug
would; they are not part of any specification and serve to show that each property can
fail.

Abstractions. A run is named by its process, since a process opens one run and the code
names a run by pid and time. The files inside a tag directory never move alone and are not
modelled. A child that has not restarted opens module files under its own pid with its
parent's time stamp: a `Stray`, a file that no sweep matches (should that child restart within
the same second, the file of its own run has that very name; the model keeps them apart). In
`ErrorReport` a message is its size and each byte of it is the line it belongs to, so that two
messages in one buffer can be told apart; a write is one step, `LineWrite` has the inside of
it. In `LineWrite` `durable` is what `fdatasync` was called for; its result is ignored by the
code (`logger.cpp:504`), so whether a line reached the disk is not a state of the library.
A configuration text is a sequence of symbols, in lower case: a word or a number is one symbol, and so is each blank and each character the
readers look for; a key of several words is the key `Several`, and `module.<name>` is the word
`<name>`, which is why `TextsAssumption` wants the names in `SLOG_VERBOSITY` to be modules.
Layers are functions from keys to texts, and a scan is a recursive function of the place it has
reached, which is what the proofs need. A line of `LineFormat` is a sequence of bytes of which a field other than
the message takes one, with the value it shows. In `Locks` a call is one of the scripts it
may follow, so that the order of locks is the code's and the data is gone. A read of a file
is one step. Counters of 64 bits do not wrap.

The components meet in their shared definitions: `Settings` and `LineWrite` both model
`reload_locked`, one for the thresholds and one for the prefix, `LogFiles` and `RunDir` both
model `ensure_run_open`, one from the inside of a process and one between processes, and
`Locks` has the locks of all of them. What one of them does to the other's state is in the
other as an action (a reload in `LineWrite`, a module file in `RunDir`).

The history variables, which the code does not have, only record what happened:
`reported`, `opened`, `final`, `switched` (LogFiles), `calls`, `notes`, `removed`, `output`
(ErrorReport), `stamped` (Locks), `inForce`, `written`, `was`, `source`, `entries`
(Settings), `out`, `durable`, `short`, `inForce`, `previous`, `resets` (LineWrite),
`everyLines`, `firstLines`, `stamps`, `secCalls` (RateLimit). `lockOk` in `RunDir` is the
value of a `flock` the code ignores.

## 3. What TLC checks

| Run | Instance | States | What it shows |
|---|---|---|---|
| `rundir_rotation` | 3 processes, single file or a common tag, keep 1 run, clock 0..1, forks; a run's lock may not open or not be probed, `log_dir` not be listed for the locks, the directory of a tag not be made; processes interchangeable | 1 372 000 | `LockedRunNeverReaped`, `SweepKeepsNewest`, `SweepLeavesNoOrphan`, and that `RunDir` implements `RunRotation` (`RotatesRuns`) |
| `rundir_live` | 2 processes, all twelve `Faults`, interrupted flocks, forks, limits by number and age, clock 0..2 | 784 000 | `FailureHoldsNothing`, `StartupCompletes` |
| `rundir_custom` | 3 processes, one `file.name` or tag for all, all three modes, module files of runs and of forked children, every fault before retention but those of the listing of `latest` and of `rename`, forks | 250 000 | `OneRunInLatest`: but for module files `latest` has one run; `NothingReplaced`: looking for a free name and renaming are two calls, yet no file is overwritten while `.slog.lock` holds |
| `logfiles_process` | 2 threads, 2 modules, 2 descriptors, 1 place in the crash table, 1 fork or reset, failing opens, reconfiguration, a handler that logs | 1 965 000 | `TypeOK` with the bound of the crash table, `RunOpenedOnce`, `LineGoesToItsFile`, `OpenFdsAreTheLogs`, `CrashTableIsCurrent`, `ClosedRunStaysClosed`, `FailureWasReported`, `FailureReportedOnce`, `MutexIsReleased`, no deadlock |
| `errorreport_lines` | 2 threads, 2 lines and 1 line of 1, 2 or 4 bytes in a buffer of 4 and a NUL, a handler that logs, `clear_error`, `set_error_handler`, failing writes and allocations | 8 666 000 | `OutputIsTheMessage`, `LinesAreWrittenOrCounted`, `OneNotePerCode`, `HandlerSeesEveryLoss` |
| `locks_process` | 2 threads, 3 calls and 1 call of 14 kinds, a handler that makes one of 4, 1 fork | 582 000 | `PairsAreWhole`, `HandlersHoldNothing`, `IdsAreOwn`, `CallsReturn` |
| `settings_process` | 2 modules, 3 files (a comment, a repeated key, a pattern with `#`; a line that is no pair and an unknown key; one that cannot be read), 2 environments, 8 setter calls, 1 Config, 1 added level, 2 changes around 1 log call | 1 232 000 | `ThresholdsFollowLayers` against the rule of the docs, `QuietCallsFollowSettings`, `FileLineJustified`, `ReloadReportsWhatItSkips`, `DistinctNamesRoundTrip` |
| `linewrite_lines` | 2 threads of 1 line, 2 messages (one that is cut), 5 patterns to start with and 2 to change to, lines of 11 bytes, 1 reload or reset, 1 short write, failing writes, clock 0..1 | 1 110 000 | `LineIsPromised` against the rule of the docs, `OneLinePerRecord`, `UnsplitLinesAreWhole`, `LinesAreCompleteOrCounted`, `SevereLinesAreDurable`, `PublishedIsCurrent` |
| `ratelimit_sites` | 3 threads, N = 2, SEC = 2 ticks, 3 calls per site, clock 0..4 | 452 000 | `EveryNthCall`, `FirstNCalls`, `StampsAreSpaced`, `FirstCallFires` |

Three more runs show that the code differs from what the repository says of it (section 5).

Why the bounds are enough. Three processes are a run that rotates, a run that it moves or
deletes, and a third that interferes; a limit of one run is reached by the second. In
`LogFiles` two threads race for an open, two modules share or exhaust two descriptors, and
one fork gives a parent and a child. In `Locks` one thread can hold each mutex while the
other waits, forks or calls from its handler; a third would only wait longer, as no call
holds a mutex for another thread. In `LineWrite` a line of 11 bytes is shorter than the
coloured tag with its message and longer than the tag alone, so both cuts fall on either
side of every byte kept for the newline and the ellipsis. In `ErrorReport` the thread with two lines can log its
second from inside its handler while the other thread fails at any point of that; its second
line is shorter or longer than the first, so that its NUL falls inside the first or behind it,
and a line of four bytes is one that may have been cut. Two
configuration changes around one log call give the call a change before it, during it and
after it; the texts hold every case of the readers once. In `RateLimit` three threads can hold the same old stamp.

Deadlock is checked for `LogFiles`, where a program can always go on logging. Elsewhere it
is switched off: processes end, lines and changes run out, and that is no error.

Which calls of `open_run` may fail is the constant `Faults`: `dir` (`mkdir_p`), `runlock`,
`structlock` and `opendir` (`open` of the two locks and of the run's directory), `listlatest`
(`opendir` of `latest` in `move_out`, which then returns without a word), `rename`, `tagdir`,
`first`, `listlocks` (`opendir` of `log_dir` in `retention`), `probe` (`open` of a lock file),
`listfiles` (`opendir` in `reap_run_files`, without a word again) and `unlink`. `EINTR` of the
blocking `flock` is `Interrupts`. Not modelled are other failures of `flock`, a failing
`close`, and a `stat` of a lock file that fails, which makes that run the oldest one.
`rundir_live` has all of these faults; the other runs leave out those under which their
properties are false by what the code does: with `listlatest` or `rename` two runs are in
`latest`, with `listfiles` or `unlink` a sweep leaves files behind (section 5).

`RunDir` is checked for interrupted flocks only as to liveness and leaks: the safety of the
rotation needs the lock (section 5). `BeginClose` in `LogFiles` keeps to the documented rule
that `shutdown` and `restart_after_fork` are called when no thread is logging.

### Fairness

- `RunDir!FairSpec`: weak fairness of each process's own steps of `open_run`
  (`Unaided`). The kernel schedules every process, and each of these steps is a system call
  that returns, except the blocking `flock`, which is enabled only when the lock is free.
  Weak fairness of it would be too weak if processes took the lock again and again, but each
  takes it once. Nothing forces a signal, a death, a shutdown or a start.
- `LogFiles!FairSpec`: weak fairness of the steps of a thread inside a call. Whether a
  thread logs, shuts down or forks is up to the program. Waiting for `mu_` need not be fair:
  `MutexIsReleased` says the holder lets go, not that everybody gets it.
- `Locks!FairSpec`: weak fairness of the steps of a thread inside a call, the handler's
  included: a handler returns. A blocked `lock` is enabled only while the mutex is free;
  `CallsReturn` holds under weak fairness because the calls of the instance are bounded, so
  nobody takes a mutex again and again. It excludes threads that wait for a mutex the parent
  locked (`Orphaned`), which is the finding of `locks_child`.

## 4. What is proved

The `*Proofs` modules are checked by `tlapm` with no step left out. Every part of their
invariants was checked by TLC on the instances of the runs before it was proved.

**RunDir**, for every finite set of processes, every set of modules and modes, all limits,
any set of `Faults`, custom names or not, forking or not:

- `TypeCorrect`: `Spec => []TypeOK`.
- `SweepCorrect`: with `~Interrupts`, `Spec => []SweepInv`.
- `OneOpener`: with `~Interrupts`, no two processes are between the flock on `.slog.lock`
  and its release.
- `LiveRunsSurvive`: with `~Interrupts`, `Spec => []LockedRunNeverReaped`: a file some
  process has open, of a run whose flock succeeded, is never deleted.
- `FailuresHoldNothing`: `Spec => []FailureHoldsNothing`, with interrupts too.
- `NothingIsReplaced`: with `~Interrupts`, `Spec => []NothingReplaced`.
- `OneRunCorrect`: with `~Interrupts` and neither `rename` nor `listlatest` among the faults,
  `Spec => []OneRunInLatest`; runs may have module files.
- `NewestRunsAreKept`: with `~Interrupts` and no `unlink` among the faults,
  `Spec => []SweepKeepsNewest`.
- `RunDirRotates` (in `RotationProofs`): if `Orderly`, that is `~Interrupts`, neither `rename`
  nor `listlatest` among the faults, default names and no run with module files,
  `Spec => RotatesRuns`: `RunDir` implements `RunRotation`.
- `NoOrphan` (in `RotationProofs`): if besides neither `listfiles` nor `unlink` is among the
  faults, `Spec => SweepLeavesNoOrphan`.

No step of the model checks what these assumptions are for: without them the code goes on and
the statements are false. The assumption `~Interrupts` says that no signal ends the blocking
`flock`, whose result is ignored. If `latest` does not open or a file in it cannot be renamed,
it stays beside the next run. A module file opened after a rotation does too, which
`OneRunInLatest` excepts and `RunRotation` does not have. Files with a name of the user's own
match no stem, and files that `reap_run_files` did not find or could not unlink stay when the
sweep unlinks the lock of their run (section 5).

The argument. `LockedRunNeverReaped` is not inductive: a sweep probes a lock in one step and
deletes files many steps later, and what the probe found may be stale. `SweepInv` adds why it
is not. (1) `CriticalHoldsLock`: whoever rotates or sweeps has the structure lock, so sweeps
do not overlap starts. (2) `RunLockDiscipline`: a run tries its flock once, before it waits
for the structure lock, and if it got it, it holds it to the end. (3) `FilesNeedStructLock`,
`NoFilesYet`: nobody has a file of a run that is not past the structure lock.
(4) `OpenersHoldLock`: whoever has a file of a locked run open has a copy of the lock's
descriptor; a fork copies both. (5) `DeadRunsHaveNoFiles`: so a locked run that a probe found
free either is over, or had not locked itself yet, and then waits for the very lock the sweep
holds. (6) `SweepScope`, `OnlyStemmedGone`: a sweep deletes only files of runs it found dead,
and only names that start with a stem. `SweepInvStep` proves each part in a lemma of its own,
one case per action.

On `SweepInv` rest the others. `ReplaceInv`: from the look for a free name to the rename the
process holds the structure lock, and nobody else renames (`DestIsFree`). `LatestInv`: a
process past its last rename has left `latest` empty, and who publishes holds the lock
(`LatestIsEmptied`). The refinement maps the slot to the run in `latest`, the archive to the
runs in `old` and the held runs to those that got their flock and that a process has open;
it needs two more facts, that nothing exists of a run before it publishes (`RunsAreFresh`)
and that a process has open only what exists, of one run, its own or its parent's
(`FilesAreOwn`); then every action is a step of `RunRotation` or a stutter. `NoOrphan` adds
that no file needs a `-N` suffix, which would hide it from a sweep, and that during a sweep
only the sweeper's own files are in `latest`, and that what `reap_run_files` has listed and not
yet unlinked is all that is left of the run (`OrphanInv`, `ReapsAll`): a list made in one step
is complete many steps later, as no file of a dead run appears meanwhile.
`SweepKeepsNewest` compares the lock files at the end of a sweep with those at its start, and
`KeepInv` follows them in between. Until a sweep has chosen its victims the lock files of all
runs it found dead are there (`Doomed`); afterwards those that are no victim are at most
`retain_runs` and, without a limit of age, none is older than a victim (`Spared`,
`SparesNewest`), however many victims are gone already. Other processes neither add to that set, as a run makes its lock file once
(`StampedOnce`), nor take from it, as sweeps do not overlap (`SweepsAreApart`).
`FailureHoldsNothing` has an invariant of its own (`LocksAreReleased`), which does not need
the lock to exclude anybody and so holds with interrupts.

**LogFiles**, for every set of threads and modules, any number of descriptors, any size of
the crash table (none included), with or without failures, reconfiguration and a handler that
logs:

- `TypeCorrect`, and all safety properties of the run `logfiles_process`:
  `RunOpenedOnceCorrect`, `LineGoesToItsFileCorrect`, `OpenFdsCorrect`, `CrashTableCorrect`,
  `ClosedRunCorrect`, `ReportedOnceCorrect`, `WasReportedCorrect`.

The argument. The invariant `IInv` has three layers. `CallInv` is about calls: `mu_` is held
exactly from lock to unlock (`Exclusion`), nothing logs while files are closed
(`QuietClosing`), a call that is over has left nothing behind (`CallShape`). On it rests what
is true of descriptors: every open file is of this epoch; an open module file is cached, or
the one thread inside `mu_` is about to cache it (`CachedOrOpening`), and whoever is about to
open one found none cached (`NotYetOpened`), so no file is opened twice; every descriptor a
line can reach, also the one in the call around a handler, is one of its module's
(`LineInv`); a descriptor is in the crash table, or is on its way there (`CrashInv`). What is
open and what is in `open_fds_` differ in the step between an open and its `push_back` and
during a close, where closed numbers stay listed until the list is cleared: `ListInv` says
which step makes them differ and by what, and `OpenFdsCorrect` follows where `mu_` is free. The
third layer is about failures: `Spent` are those reported or in the hands of a thread; a
failure is met only where nothing was tried before (`SpentTried`), so it is new, and what
lost its file did so to a failure that is spent (`ReportedInv`). Each part has a lemma with
one case per action.

**RateLimit**, for every finite set of threads, every N and SEC:

- `TypeCorrect`; `EveryNthCorrect`: `Spec => []EveryNthCall` and `FirstNCorrect`:
  `Spec => []FirstNCalls`, by lemmas on how the set of calls about to write changes;
  `SpacingCorrect`: `Spec => []StampsAreSpaced`, by the invariant `StampInv`: the last stamp is
  the value of the atomic, and a thread that is about to exchange compared its clock reading
  with the value it expects; `FirstFiresCorrect`: `Spec => []FirstCallFires`, by `FiringInv`:
  while no call was let through, the atomic is unset and some call is on its way to exchange it.

**ErrorReport**, for every set of threads, any number of lines, with or without a handler
that logs, failing allocations, cleared errors and handlers that come and go:

- `OutputCorrect`: `Spec => []OutputIsTheMessage`; `OneNoteCorrect`:
  `Spec => []OneNotePerCode`; `HandlerSeesLosses`: `Spec => []HandlerSeesEveryLoss`;
  `LossesCounted`: `Spec => []LinesAreWrittenOrCounted`.

The argument. `CallShape`: a thread is in at most two calls, and then the outer one is in its
handler, since `t_in_handler` keeps a second handler from running. `BufferInv`: every call
that may still write finds its own message in the thread's buffer or, if its handler has logged
and no write to the file is to come, that message overlaid by the later line, its NUL at the end
of that line (`HasOwn`, `Overwritten`); before the nested call is formatted the outer message is
whole. A call takes as many bytes as its own message has, so this is what it writes. `NoteInv`: the flag of a code is up exactly when it was noted, and the
last error was noted or its thread is about to. `HandlerInv`: while the handler was never
removed, whoever is in it or counts the drop after it has told it. The lemmas `*Advances` and
`*Pops` say what each part keeps when the innermost call goes on or returns, so that each
action only shows what is its own. `CountInv` makes the last property a statement about every
moment: the count is the number of outputs given up for good, those that were not written and
that no call still has to write (`Missed`, `Counted`). It needs that no output is written
twice and that a line is abandoned by the one call that ran out of memory (`Underway`), and
that a number belongs to one line (`Numbered`). A failing write leaves the set of missed
outputs unchanged until its call counts the drop, and that step adds exactly one.

**Locks**, for every set of threads, all calls and handlers, any number of forks:

- `IdsAreOwnCorrect`: `Spec => []IdsAreOwn`, by `IdInv`: a cached id is that of this process
  or none, in every thread that followed it.
- `PairsCorrect`: `Spec => []PairsAreWhole`; `HandlersCorrect`:
  `Spec => []HandlersHoldNothing`.

The argument is about what is left of a script. `Fine` says of every position of a script:
a mutex is locked where it is not held and released where it is, the two fields of a pair
follow one another with `err_mu` held, and no mutex is held at the test for a handler or in
the handler; `Good` that nothing is held at its start. Good scripts stay good when they are
joined (`Join`) or put into a section of a mutex they do not use (`Enclose`), so every call
is good, whichever way it goes (`ScriptsAreGood`), and so is what remains when a handler runs
a call of its own in the middle (`RestIsGood`). `HoldInv` ties that to the state: a thread
holds exactly the mutexes the rest of its script will release. Hence whoever is at a field
holds `err_mu`, nobody else is (`AtPair`), and `PairInv` follows: between the two halves of a
pair the first is done and by the thread at the second.

**Settings** with `Levels`, for all modules, files, environments, setter and `Config` texts,
any levels added at any time, any number of changes and calls:

- `StoredLevelsCorrect`: `Spec => []DistinctNamesRoundTrip`. The first entry with a value
  exists because the naturals are well-founded; with distinct names the text of that entry
  leads back to it.
- `ThresholdsAreComputed`: between rebuilds every module that has a state, also one that a
  log call made, has the thresholds of the settings in force.
- `FileLineCorrect`: `Spec => []FileLineJustified`; `QuietCallsCorrect`:
  `Spec => []QuietCallsFollowSettings`.
- `ThresholdsCorrect`: `Spec => []ThresholdsFollowLayers`, the thresholds are those that the
  rules of the documents give from the texts of the file, the environment and the program's
  own calls.
- `ReportsCorrect`: `Spec => ReloadReportsWhatItSkips`, every rebuild reports what it skips and
  a setter after which nothing is skipped keeps the last error.

The argument of the calls. A rebuild stores the atomics one by one while calls read them. `Current`: each
atomic of a module is that of the settings or, while its store is still to come (`Waiting`),
that of the settings before. `Seen`: a call has seen the settings in force and, during a
rebuild, those before. So each value a call has read is one of settings it has seen
(`Calls`), and the decision made of them is justified by those, or, if nothing changed
meanwhile, is that of the settings.

The argument of the last two goes from the texts to the thresholds. First the readers, which
scan, against the rules, which do not: what `strip_comment` leaves is what stands before the
first comment (`CommentIsStripped`); the name and value cut off at the first equals sign are
those the rule finds (`AssignmentIsRead`); of the values of a key the scan keeps the last, or
for the bare level of `SLOG_VERBOSITY` the first (`LastWins`, `FileIsRead`, `LevelsAreRead`,
`EnvIsRead`); a module is among the parts of a list exactly if its name stands alone between
commas (`ListIsSplit`). These are inductions over the places of a text, by `UpTo` as in
`LineWrite`; `PairsGrow` and `LevelsGrow` show that the recursive functions exist. Then the
layers (`SourceInv`, an invariant): each is what its source reads as, so the merge gives each
key the text the rules give it (`MergedIsGiven`), and the settings are made of the merged
layers with the first `entries` levels (`MadeOf`). Since `add_level` only appends, a text means
with those entries what it meant at the last rebuild (`MeaningStays`), whatever was added
since: without `entries` the invariant would not be inductive. `ThresholdsAreComputed` joins
the thresholds to the settings. For the reports, the keys of the merged layers are keys that
the sources mention (`FileKeysAreMentioned`, `EnvKeysAreKeys`), so the keys a rebuild skips are
those that the rules say (`SkippedAreRecorded`), and `Change` chooses the error among them.
The theorems assume of the texts what `TextsAssumption` says: that they are sequences of
symbols and that setters are called with keys they have.

**LineWrite** with `LineFormat`, for every set of threads, all patterns and messages over any
set of characters, all sizes of both buffers with room for an ellipsis, any settings, any
number of reloads, resets, short and failing writes:

- `PublishedCorrect`: `Spec => []PublishedIsCurrent`; `OneLineCorrect`:
  `Spec => []OneLinePerRecord`; `UnsplitCorrect`: `Spec => []UnsplitLinesAreWhole`;
  `LinesCorrect`: `Spec => []LinesAreCompleteOrCounted`; `SevereCorrect`:
  `Spec => []SevereLinesAreDurable`; `PromiseKept`: `Spec => []LineIsPromised`, the line is
  byte for byte the documented one.

The argument. `Shape` is about what calls read without a lock. `Published`: a published spec
is the parse of settings that were asked for, specs only ever grow, and what a reload has not
yet stored is still what the settings before it said; `Held`: so the index a call has loaded
stays valid, and the settings in force now are among those its call has seen; `Shaped`: the
line being written is as long as `Len` says, fits and ends with its newline. That a parsed
pattern only has tokens `build_line` knows (`TokensRead`), and that the line it builds has
room left after each token (`PutKeepsRoom`, `LineIsShaped`), are facts about functions
defined by recursion: a set that has 0 and with each number the next one has all numbers up to
any bound (`UpTo`, from the fact that the naturals are well-founded), and the set is that of
the positions at which the function exists and is as claimed. `Traced` is about the outputs,
which other threads append to all the time: a call has written exactly `done` bytes of its
line where it is and nothing where it is not yet (`Progress`), so its next piece goes on
where the last one ended (`Contiguous`); a line in several pieces met a short write
(`Unsplit`). `PlacesOfAppend` says once what an append changes of the places of all lines.
`Counting`: the count of drops is the number of lines that some call has given up
unfinished, on each output, at every moment until a reset clears it; a call that fails adds
exactly one pair to that set, and all other steps leave it as it is (`CallCounts`).
`StepKeepsDurable` is the durability of severe lines as an invariant of one step: a line
that is complete stays synced, since `durable` only moves to the end of the file.

`PromiseKept` joins two arguments. One is about functions alone: what the code does to a
pattern and a record (`BuildIsPromised`). The code scans the pattern from the left into
tokens, appends what each shows to a buffer that refuses bytes once it is full, and cuts what
did not fit; the documentation says of each character what it shows, wherever it stands. By
`StartsAlternate` a percent sign starts a token unless it is the second character of one, so
the rule, which counts percent signs backwards, and the scan, which never looks back, agree
on where tokens start; `OneTokenOn` takes the scan over one token, and `ScanShows` over all:
the buffer then has the first bytes of all that is shown, as many as fit, and is marked as
truncated if there are more (`Kept`; `PutKeeps` for one append). `TogglesAsPromised`: the
toggles, which look for the letters of a field in the text, find the field of the scan unless
the text is `Misread`. The other argument is about time (`FromForce`): while a reload is under
way what is published is that of the settings before it until it is stored (`Before`), so the
spec a call loads (`Chosen`) and the line it builds (`Built`) are those of settings in force
during the call, also when the colour is of another reload than the spec.

Only model-checked: the liveness properties (`StartupCompletes`, `MutexIsReleased`,
`CallsReturn`), as the prover does not reason about fairness. Every other property of a
passing run is the statement of a theorem.

## 5. Where the code and its documentation differ

Shown by a run (counterexample from TLC; details under `findings` in `PROJECT.json`):

| Run | Property | In short |
|---|---|---|
| `rundir_unlocked_run` | `OpenFileNeverReaped` | A retention probe holds a starting run's lock for a moment; the run's own non-blocking flock (`run_dir.cpp:216`) fails, unnoticed, and a later sweep deletes the file it writes. Hence "whose flock succeeded" in `LockedRunNeverReaped`. |
| `errorreport_overtaken` | `HandlerGetsItsFailure` | `report` reads the last error again after it let go of `err_mu`: the handler may be given another thread's failure. |
| `locks_child` | `ChildInheritsNoMutex` | `atfork_prepare` takes `mu_` only: a child may inherit `err_mu` or the registry's mutex locked, and its first failure or setter then never returns. |

Known from the models and visible in them, without a run of their own:

- `logger.cpp:450`: an untagged file-per-module run that has been moved out puts its next
  file into `latest`, beside the newer run; so does a forked child, under a name no sweep
  matches. `OneRunInLatest` excepts these files (`Late`). A module file opened during another
  process's sweep, after `log_dir` was read, is never deleted once it is moved out.
- `run_dir.cpp:81`: `move_out` returns without a word if `latest` does not open, and the new run
  publishes beside the old one, although no rename failed (`"listlatest"`).
- `run_dir.cpp:110`, `:122`, `:188`: `reap_run_files` returns without a word if `log_dir` does not
  open and ignores a failed `unlink`; the lock of the run is unlinked all the same, and no later
  sweep can find the files that are left (`"listfiles"`, `"unlink"`).
- `logger.cpp:900`: `init()` after a failed open throws an error with code 0, as `RunTried`
  leaves `oe` empty.
- `logger.cpp:839`: `configure` leaves the `module.*` levels of earlier calls and other layers
  in force (`ConfigKv` has no key for a module the `Config` does not name), while
  `slog.h:230` says it "sets every field".
- `logger.cpp:670`: an allocation that fails in `should_log` is reported and the line lost
  without being counted in `drop_count`; `emit` counts it.
- `run_dir.cpp:195`: an exception of an allocation inside `open_run` leaves with the
  descriptor of `.slog.lock` locked; the other processes wait until this one ends.
- `format.cpp:73`: a pattern with `%%t` or `%%e` hides the toggle of the time or of the
  elapsed time (`Misread`). A cut that falls inside a coloured tag loses the reset of the
  colour.
- `config.cpp:69`: `on` and `off` of an output are compared as they are written, levels in any
  case; `retain.runs` and `retain.days` go through `atoi` and are never reported as bad.
- `error.cpp:190`: `set_error_handler(nullptr)` may return while another thread is about to
  call the old handler (`PairsAreWhole` is about the copies only).
- `run_dir.cpp:214`: a sweep between the `open` and the `flock` of a run's lock unlinks the
  file; the run then holds the lock of a file no later sweep can see, so it is never reaped.
- `run_dir.cpp:232`: the blocking `flock` on `.slog.lock` may return `EINTR`; with `Interrupts`
  and a custom name, `NothingReplaced` fails.
- `logger.cpp:540`: `shutdown` closes the descriptors before it clears the crash table;
  `CrashTableIsCurrent` excludes those steps.
- `logger.cpp:552`: `shutdown` before the first line leaves `init_state_` at 0; a stray line
  opens a run that no later `shutdown` closes. `ClosedRunStaysClosed` is about a run that was
  open.
- `logger.cpp:448`: when `file.per_module` is switched off under an open run, the next module
  gets `shared_fd_ = -1` and loses its file output without a report. `FailureWasReported`
  excludes it by `switched`.
- `error.cpp:187`: `slog.h:200` and `docs/deep-dive.md:482` say that a log call of the handler
  is dropped by a recursion guard. The guard only stops the handler from being called again: the
  nested line is formatted and written. It re-uses the thread-local buffer (`logger.cpp:686`)
  while the outer call keeps the length of its own message (`logger.cpp:477`), so if the handler
  ran between the file and stdout, or because the file could not be opened, the outer call's
  stdout line has the nested message, its NUL and the tail of the outer message, cut at the outer
  length. `OutputIsTheMessage` says exactly that.
- `logger.cpp:504`: the result of `fdatasync` is ignored and the line counted as flushed;
  `SevereLinesAreDurable` is about the call, not the disk.
- `level.cpp:57`: `add_level` checks neither name nor value, and rebuilds nothing. A level
  with a taken or reserved name does not survive being stored (hence `NamesAreDistinct`), and a
  threshold that named the level before it was added stays a bad value until the next reload.
- `logger.cpp:513`: stdout's threshold is two atomics; a call that overlaps two changes can
  read a pair that was never in force. `FileLineJustified` is stated of the file only.
- `slog.h:418`: the stamp of `LOG_EVERY_N_SEC` is read before the line is written, so two
  lines may be closer together than SEC.

## 6. Not modelled

- The memory capture of the tests (`sink.cpp`), fake clocks and counters (`testing.h`): no
  program uses them. `reset` and `set_start_epoch_nanos` are modelled, as they change what
  readers hold.
- The installation of the crash handler, its alternate stack and the signal: calls of the
  kernel with no state of their own. What the handler reads is in `LogFiles`.
- How numbers, times and paths are spelled in a line or a file name.
- `find_config_path`: which file is read is an input of `Settings`.
- Allocation failures other than those of a log call (`ErrorReport`).
- The `-full` name `unique_dest` falls back to after a million collisions, and the files
  inside the directory of a tag.
- Two module names that give one file name after `make_filename` replaced their characters:
  such modules append to one file, and a module of `LogFiles` stands for a file name.

## 7. Plan

Done: `RunDir`, `LogFiles`, `ErrorReport`, `Settings`, `RateLimit` with the first theorems;
then `Locks`, `LineFormat` and `LineWrite`, `ConfigText` and the error codes of the
configuration, reset, the refinement of `RunRotation` as a theorem, and the other theorems
listed above; then the readers of `ConfigText` in a form that can be proved about, and theorems
for all safety and action properties of the passing runs.

Left: liveness, which needs a prover that knows fairness; the spelling of numbers, times and
file names; and two levels of detail in one model, such as `open_run` of `RunDir` inside the
critical section of `LogFiles`.

Each passing run asks everything of one component's instance, so that a later module adds one
run, not several.

## Running

    tlc -workers 2 -config MCRunDir_rotation.cfg MCRunDir.tla
    tlapm RunDirProofs.tla
