# A TLA+ model of FourFectVK's kbase backend

FourFectVK is a patch stack that makes Mesa's PanVK driver run on the Mali-G57 (Valhall v9, Job
Manager) through Arm's `kbase` kernel driver. Upstream PanVK leans on DRM: a syncobj for every fence,
a scheduler in the kernel. kbase has neither. The patches replace both in user space, with threads
that take turns at reading completion events, 255 recycled atom numbers, a ring of submissions, a
hand-made fence type and soft atoms for `sync_file`s. That code is what this project models, checks
with TLC and proves about with TLAPS. Around it the repository keeps the scripts that decide whether a
change is accepted (runners, gates, comparisons) and those that read logs and dumps; they are programs
with files, processes and failures of their own, and are modelled too.

Paths: **U1** is `src/patches-upstream/0001-base-upstream-rebase-52a7497a.patch`, **U2** is
`src/patches-upstream/0002-fourfectvk-0060-0077-frame-prof.patch`, **C1** is
`src/patches-candidates/2026-10-26-api/0001-jm-sync-overlap-timestamp-prerequisites.patch`, **DQ** is
`src/patches-candidates/2026-10-19-deferred-query/0001-defer-occlusion-availability.patch`, **MEM** is
`src/patches-candidates/2026-10-23-memory/0001-jm-import-coherency-incremental-tiler.patch`. Line
numbers are lines of those patch files. The current driver is `patches-upstream/0001..0005` followed by
the candidates in the order of `src/docs/test9/build-order.md`; where C1 changes a function of U1, the
model follows C1. `src/patches/0001..0077` is the history that U1 and U2 squash. `evidence/`,
`results/` and most of `docs/` are logs and notes, but for the scripts of `evidence/validation/`.
**CC** is `src/evidence/validation/compiler-cache-2026-10-19/`, **DV** is
`src/evidence/validation/deferred-query-2026-10-19/`, **GP** is
`src/evidence/validation/gameplay-2026-10-19/`.

## Inventory

| Component | State it keeps | Operations | What is hard |
|---|---|---|---|
| **Job queue** `panvk_kbase_jm` (U1 11000-11532, C1 296-384) | mutex, condition variable, `reading`, `atom_use[]`, `nr_free`, the ring of submissions, `last_seqno`, `completed_seqno`, `lost` | submit, wait for a seqno, export a `sync_file`, read and handle events | threads that read events for each other; numbers reused; the mutex dropped in the middle of an allocation; jobs, fences and ioctls that fail |
| **CPU syncs** `kbase_cpu_sync` (U1 12805-13231) | state, callbacks and target of the payload, imported descriptor, mutex, condition variable | init, signal, reset, set_pending, move, import, export, wait for one, all or any | the wait happens without the mutex and on behalf of others; an impatient owner; descriptors that change hands |
| **Queue submission** `gpu_queue_submit` (U1 11534-11872, C1 565-744) | the chain of batches being built, "reissue" marks, waits and signals of the call | batches, event operations, waits, signals | order of flushes, a batch submitted again while it still runs, failure half way |
| **Host events** (U1 10663-10748, 11702-11729) | the state of a `VkEvent`, a sync of the runtime | set, reset, wait inside a queue | run on the CPU between flushes |
| **Pass overlap** (C1 214-250, 360-371) | dependencies on the second-last atom | another DATA/ORDER graph | off by default, its README calls it incomplete |
| **Map cache** (`pan_kmod`, U1 4075-4262, C1 39-104) | deferred ranges, barrier flag, sticky error | queue a range, flush, barrier | one thread takes the flag for another; an error must stick |
| **Memory backend** (`kbase_kmod`, U1 1982-3941, MEM) | regions, mappings, imports | allocate with a fallback, import, map, free | partial failure |
| **Batches and deferred queries** (DQ) | the open batch, its attached query batch | open, close, begin, end, copy | a result's availability must follow its producer |
| **WSI present wait** (U1 16711-16877) | none of its own | wait for, or export, the syncs of a present | blocks on the components above |
| timestamps, conditional rendering, depth bounds, compiler passes, the v9 port | command-buffer recording, code generation | | sequential; data conversions against Mesa code that is not in the repository |
| **Benchmark runner** (`tools/benchmark_tomb_raider.py`, older copies in GP and DV) | lock file, phase, screenshots, actions, manifest | acquire, launch, look, activate the menu, finish | sees the game only through old screenshots; tools fail; somebody else at the device |
| **Gameplay gate** (`tools/analyze_gameplay.py`) | the log of presents, counted at some moments | accept or reject a run, compare | half lines, grouped rows, logs begun again |
| **Conformance gates** (CC, DV) | `cts-comparison.json`, run directories | make, compare, wait, refuse | two processes and one file that is not written atomically; kills |
| **Oracle series** (DV) | `runs.json` | check, control, stop | a test that finds nothing, a driver that ignores its switch |
| **Shader cache check** (`tools/verify_shader_cache.py`) | cache directories, hits and misses | six processes per repetition | what earlier repetitions left |
| **Patch tools** (`tools/verify_patch_chain.py`, `tools/winlator/mkstagepatches.py`) | trees, copies, patches | reconstruct, list, read, compare; order copies into stages | a tree that is edited while it is read; copies taken late |
| **ISA comparison** (`tools/iolog/isapairs.py`) | rows, archetypes, pairs, a directory | parse, build, match, write | state carried from line to line; a directory that outlives runs |
| **ioctl log and its readers** (`iolog.c`, `passtime.py`, `blobdeps.py`) | lines of submissions and events | log, read back | several threads; atom numbers reused; the line order is not the call order |
| **Query trace** (`tools/analyze_query_trace.py`) | recordings as far as seen | count what was submitted | calls that were not traced |

How they interact: `vkQueueSubmit` reaches *queue submission*, which turns batches into one chain and
calls the *job queue*'s submit; every signalled fence or semaphore becomes a *CPU sync* that is pending
on the submission's seqno, through two callbacks (`panvk_kbase_sync_wait_cb`,
`panvk_kbase_sync_export_cb`, U1 11444-11532). A `vkWaitForFences` enters the sync, drops its mutex and
calls back into the queue; there, whoever finds nobody reading the kernel's events does it for all. A
`SYNC_FD` export makes a FENCE_TRIGGER soft atom, an imported fence becomes a FENCE_WAIT soft atom of
the next submission. The *map cache* is flushed before the batches of a call are handed over.

What must hold, per component:

* **Job queue** - completion never runs ahead of the GPU, however events are ordered; nobody is told
  that failed work succeeded; jobs stay serialised (they share the tiler heap); numbers are neither
  lost nor shared; no thread is left asleep; every call returns.
* **CPU syncs** - the semantics of a binary DRM syncobj, whatever the callers' time-outs; one waiter
  per payload; a wait is for the payload that was armed last; descriptors neither leak nor are closed
  twice; an armed wait returns.
* **Queue submission** - event operations and signals in submission order; a batch is never rewritten
  while it runs; a failed call signals nothing, and no later call succeeds over a lost queue or map cache.
* **Map cache** - no submit with ranges that are still dirty; errors are reported to every later flush.
* **Batches and queries** - availability only after the producing fragment work.
* **Runner and gate** - one game per prefix; what is reported as played was played; what is measured is
  the benchmark, from the right moment, without holes, on one stack.
* **Gates and series** - nothing goes on behind a comparison that did not succeed; a green report means
  a test that finds faults and a driver that has none; a regression is not overwritten; waits end.
* **Patch tools** - "ok" means equal, file by file; patches apply in order and give the live tree, where
  that is possible, and no change goes missing.
* **Readers** - a number they print is about the atom, draw, shader or command it names.

## What is modelled

### `KbaseQueue` and its specification `InOrderQueue`

One action is what a thread does between two points at which it may lose `k->mtx`, or one iteration of
a loop that it runs with the mutex held. The variables `atom_use, nr_free, subs, last_seqno,
completed_seqno, lost, reading, mtx, cnd` are the fields of `struct panvk_kbase_jm`; `pc` and `call`
are the threads' stacks; `katom, events, fence` are the kernel's side and *external*: atoms with ORDER
and DATA dependencies, completion events in a FIFO, the event of an EVENT_ONLY_ON_FAILURE atom
suppressed when it succeeds, its number then reusable at once. That is the contract the comment at U1
11000-11035 states. `told` and `broken` are history: who was promised what, and which submissions had
a failing job.

| Code | Actions |
|---|---|
| `panvk_kbase_progress_locked`, U1 11203-11255 | `WaitMore`, `SubmitWaits`, `ExportWaits` (entry from a caller's loop), `CondWoken/TimedOut/Spurious`, `PollEvents/TimedOut/Failed`, `Lock`, `FinishProgress` |
| `panvk_kbase_handle_event`, U1 11162-11201, C1 296-320 | `HandleAuxEvent`, `HandleSubEvent`, `HandleUnknownEvent`, `RetireOldest` |
| `panvk_kbase_submit_locked`, `alloc_atoms`, `flush`, `submit_one` | `StartSubmit`, `SubmitReturns`, `Submit`, `SubmitFails` |
| `panvk_kbase_wait_seqno`, `sync_wait_cb`, queue idle, destroy | `StartWait`, `WaitReturns` |
| `panvk_kbase_sync_export_cb`, U1 11453-11532 | `StartExport`, `ExportReturns`, `ExportNeedsFence`, `ExportAllocFails`, `ExportLooksAgain`, `ExportTrigger`, `ExportTriggerFails`, `ExportNoFd` |

Abstractions. An allocation takes *any* free numbers where the code scans from a cursor: a superset,
and what makes symmetry over the numbers sound. `RetireOldest` is one turn of `handle_event`'s loop and
is taken before anything else may happen. `k->atom_info`'s kind, kept by number, is `sub.waits`.
`panvk_kbase_jm_destroy` is a wait with a time-out for the last seqno, the CPU fallback of an export
and `QueueWaitIdle` are waits without one; `submit_one` and a waiting flush are a submit followed by
such a wait. The environment's negative controls ("broken on purpose") and the pass-overlap branches
are left out. The test for a lost device that C1 adds to `alloc_atoms` after the mutex was re-acquired
is the same guard as on entry, since the mutex is held between the test and what follows.

`InOrderQueue` is what the queue promises: submissions numbered in order, `completed` never beyond what
the GPU has ended, a `sync_file` signals only after its submission, success is reported only for work
that ended and did not fail, loss is for good. `KbaseQueue` is shown to implement it
(`KeepsItsPromise`), with the GPU's progress read off the atoms that are live.

### `KbaseSync` and its specification `BinaryPayloads`

The state machine of `kbase_cpu_sync`. `sync`, `cond` are `struct kbase_cpu_sync`; a sync's own mutex
is held only within one action (a move takes both, in address order), the two callbacks are the only
waits without it, and they are the actions between `TakesOver` and `OwnerReports`. `fds` is the table of
open descriptors: the caller's number is dupped to one not in use, so a closed number can come back for
another file, which is how a stale descriptor would do harm. `work` is history: what each payload was
armed with.

| Code | Actions |
|---|---|
| init/finish, signal, reset, `panvk_kbase_sync_set_pending`, import, move (U1 12837-12935, 13073-13171) | `FinishAndInit`, `Signal`, `Reset`, `SetPending`, `ImportFile`, `Move` |
| `kbase_cpu_sync_wait_one` (U1 12964-13035) | `FindsSignaled`, `FindsFailed`, `TakesOver`, `CallbackReturns`, `OwnerReports`, `FindsBusy`, `Sleeps`, `Wakes`, `SleepTimesOut` |
| `kbase_cpu_sync_wait_many` (U1 13037-13071) | `StartWait`, `WaitOneReturns` (an operator of the above), `AnyTimesOut`, `AnyPollsAgain` |
| `kbase_cpu_sync_export_sync_file` (U1 13173-13211) | `StartExport`, `ExportsFile`, `ExportsWork`, `ExportReturns`, `ExportWaits` |

The environment obeys Vulkan's external synchronisation (`Exclusive`, `MayArm`): nobody resets, moves,
imports to or destroys a sync that is in another call; a fence may be armed while others wait for it.
The code asserts as much (U1 12893, 12925, 13090). `panvk_kbase_sync_get_payload` only reads a sync, for
a submission, and belongs to the queue-submission component. The queue and the imported fences are
external here: `QueueCompletes`, `QueueIsLost`, `FenceEnds`; the result a callback may return is what
`KbaseQueue` shows of `panvk_kbase_sync_wait_cb`.

`BinaryPayloads` says what users rely on, "binary payloads follow DRM-syncobj semantics" in the
code's words (U1 12921): a new signal replaces whatever the sync held, and a wait finds a payload
signalled only once its work is done, failed only if it failed. Owners, sleepers and time-outs do not
show in it.

### `QueueSubmit`, on the two abstract modules

What the submitting thread does between two points at which the GPU, a failure or another thread
matters to it. `chain`, `kbase_seqno`, `issued`, `seqno` are the code's; `content` and `broken` are what
the kernel was given and what failed of it, `state` and `work` the binary syncs, `order`, `signal_at`,
`wait_at`, `event_at` history. Submissions complete in order and a wait returns once a submission is
complete or the queue lost: that is `InOrderQueue`, which `KbaseQueue` implements; a sync is a
`BinaryPayloads` sync, which `KbaseSync` implements. So the module is not built on the detailed ones and
its state space stays small.

| Code | Actions |
|---|---|
| waits of the call, U1 11756-11801 | `WaitIsFree`, `WaitTakesFile` (an imported fence goes to the next submission), `WaitOnCpu`, `WaitHasFailed` |
| map cache, C1 680-681 | `CacheFlushed`, `CacheFails` |
| the loop, U1 11803-11840 | `StartBatch`, `NextBatch`, `Finish`, `ApplyEventOp`, `Follows` |
| `panvk_queue_submit_batch`, U1 11562-11599, C1 594-608 | `LooksAtBatch`, `WaitEnds`, `ReissueWaits`, `Rewrite`, `AppendBatch`, `AppendNeedsRoom`, `AppendFails` |
| `panvk_kbase_flush`, U1 11405-11427 | `FlushNothing`, `FlushSubmits`, `FlushFails` |
| signals, error exit, U1 11848-11872, C1 731-744 | `Signals`, `CallFails` |

The path without a chain, a debugging mode that waits after each job, is left out.

A call fails in three ways. The queue (a flush, a lost device) and the map cache latch what went wrong,
so every later call fails too (`FailureIsLatched`). The wait for an imported fence (`WaitOnCpu`, for a
descriptor that could not be dupped or another thread's wait) fails when the descriptor cannot be polled
(U1 13134-13139); its sync is FAILED from then on (12978-12982), and the call returns that error (U1
11790-11796) without losing the queue or the device. Observation: that error is
`VK_ERROR_DEVICE_LOST`, while the device is not marked lost and the next call goes on. No text of the repository
says that it should not, so it is no violation here; what is checked is that the failed call leaves
nothing behind and that a later one is in order all the same (`BatchesAreInOrder`, `SignalsAreEarned`).
`refused` is history of the latching ways only (`RefusedByQueue`). An imported fence that ends with an error
is one that has ended, for a poll as for the GPU, which only orders work behind it (`FileSignals`).

### `CacheSync`

`dev->pending_bo_syncs` of pan_kmod: the list, its mutex, the sticky error and the flag of the
user-space operations. An action is what a thread does between two looks at what threads share; the list
is tested once without its lock (`FlushTests`), taken as a sequentially consistent read.

| Code | Actions |
|---|---|
| `pan_kmod_queue_bo_map_sync`, U1 4237-4262, C1 93-101 | `Ask`, `QueueLocks`, `QueueAppends` (`Mergeable`, `MergedAt`, `Appended`) |
| `..flush_bo_map_syncs_locked`, `kbase_kmod_flush..`, C1 51-66, U1 3769-3783 | `SyncRange`, `SyncFails`, `SyncsEnd` |
| `pan_kmod_flush_bo_map_syncs`, C1 68-90 | `FlushTakesFlag`, `FlushBarrier`, `FlushTests`, `FlushLocks`, `FlushReturns` |
| range operations of Mesa (external) | `Operate`, `FlagBarrier` |

`owed` is history: what each thread asked for and is not effective yet. `lost` collects CPU writes an
invalidation threw away; `NoWriteIsLost` speaks of buffers one thread works on, since two threads that
write and invalidate one buffer without synchronising are the application's race. A barrier counts, in
the code's favour, for the operations of every thread; even so `BarrierMeansDone` fails (see the runs).
`pan_kmod_bo_cleanup` is in Mesa code the repository does not hold.

### `BenchmarkRunner`

Several runners on a prefix, each a loop over screenshots of a game that goes on by itself. Time is left
out: a time limit may strike at any turn. A look is a value that may be old when it is used. `MayFail`
says which of tools, game and people misbehave.

| Code (`benchmark_tomb_raider.py`) | Actions |
|---|---|
| 94-111 lock, preparation | `Acquire`, `PrepareFails` |
| 112-215 launch | `Launch` |
| 216-281 a turn of the loop | `SeesExit`, `SeesFile`, `TimesOut`, `Shoots`, `SeesDialog`, `SeesWanted`, `SeesNothing`, `ToolFails` |
| 29-79 `activate` | `HoverFinds`, `HoverRetries`, `HoverGivesUp`, `TakesStamp`, `Press` |
| 284-304 way out | `Cleanup`, `Finish` |

Three activations, by the constant `Activation`: "verified" (`tools/`; `GP/profile_runner_current.py`
and `DV/measurement_runner.py` are the same), "early stamp" (`GP/profile_runner_verified.py`, which
records the action before it looks for the item) and "blind" (`GP/measurement_runner.py`, which presses
Return without reading the title). A clean-up whose own `wineserver` calls time out is left out.

### `GameplayGate`

A run's log as it grows, with what the runner noted of it, then the gate. `presents` and `clock` are
history: what really happened. The statistics of an accepted window are arithmetic over it and are left
out; checks that only read a word of a file are one flag. `Presents`, `Logs` (grouped rows, half lines),
`Resets`, `Changes` are the layer and people, external; `Acts`, `Shoots` the runner;
`Anchored`, `Window`, `Measured`, `Ungrouped`, `LongEnough`, `Accepts` are `analyze` (33-91),
`Analyzes` is `main` (115-143). Observation: a log that is begun again *before* the first screenshot after
the action, and has grown past the anchor by then, can be accepted; GP/README.md:129-131 lists reset
logs among the rejections. That is why the runs let a log begin again only in an instance of its own,
which the properties about the window leave out.

### `CtsGate`, `OracleSeries`, `ShaderCache`

`CtsGate`: the maker (`run_candidate_cts.py` 23-52, `run_cts_matrix.py` 17-61: `Starts`, `RunsCts`,
`CtsFails`, `Compares`, `Writes` in two steps, `MakerDies`) and the waiter (`run_android_checks.py`
9-36, `run_extra_oracle.py` 9-17: `Polls`, `Absent`, `Unreadable`, `Verdict`, `GivesUp`, `ChecksEnd`,
`WaiterDies`). `Tolerant` and `ExactBaseline` tell the two forms apart. A complete file of an earlier
build of the driver is taken for the present one (a hazard without a property, as nothing in the
repository says what should happen).

`OracleSeries`: `Plan` is the fixed order of runs of `run_final_oracle.py` (48-67) or
`run_extra_oracle.py` (18-43); `Runs`, `RunHangs`, `Writes`, `Dies` are `run()`. A test program may be
blind or alarmist, a driver wrong in one mode or deaf to a switch. The very last run of
`run_extra_oracle.py`, whose result is only noted, is left out.

`ShaderCache`: `Step` is one process and its cache directory, `Passes` the check of all hits and misses
(60-71), `Answers` the answer. `Drivers` are all ways to use, share or ignore a cache.

### `StagePatches`, `PatchChain`

`StagePatches` is first the work on a tree (`Copies`, `Edits`, external), then the script (`Makes`: which
copies stand for which file, their order, one patch per stage, the report of what has no copy).
Equal modification times, names that fit several files and the special case for new files are left out.
Stages may take turns as they like: a stage may go on when another has begun, as nothing in the script
keeps it from that. In a `Careless` work files are edited before they are copied, or without a copy at all.
A copy that led to no change is in no patch (107). A
patch of a copy leads to the next copy of the file (`Later`, `After`), a stage's place is its rank among
the times of the oldest copies (`Order`). The two need not agree, and then the patches do not stack: see
the run `stage_patches`. `StackInStageOrder` is what does hold, file by file (`InStageOrder`). Observation:
a file the repository patches that was copied only after it had changed, `CopiedLate`, is taken for the
commit's (72-81 correct that only for files no patch touches); the change before the copy is in no patch and in no report.

`PatchChain` reconstructs, lists, reads file by file beside an editor, compares and answers; `Edit` is the
editor. A file is looked at once (`ReadsFile`), where the code takes its mode with `lstat` (52) and its
content with one `hash-object` over all files later (69-72). What an editor does between the two, a file
that vanishes (an error, no answer) included, is not modelled. `OkMeansSame` is about a tree nobody edits
and says nothing of an answer for a tree that changes while it is read.

### `IsaDump`, `IsaPairs`, `AtomTrace`, `QueryTrace`

`Readers` puts the four side by side, as `Scripts` does.

`IsaDump` is `parse_dump` line by line, over every dump of up to six lines; `IsaPairs` what
follows, phase by phase (`Begins`, `DropsStale`, `Builds`, `WritesTables`, `Archetypes`, `PicksPair`,
`Chooses`, `WritesPair`, `WritesReadme`), with runs that fail or are stopped (`Stopped`) and a directory
that outlives them. Scores are the code's fractions times a common denominator, exact for counts of up to
three, as in the run, and rounded for others; the proof needs only that a score is a number. Sorting is by
rank (`InOrder`): the k-th has k - 1 before it. Classes that are only printed, sizes and texts are left out. (`--pairs=1` asks for half a pair of each stage, rounded up,
and may drop the best one; `TheBestAreChosen` allows what the code's rounding does.)

`AtomTrace`: threads submit (`Enters`, `Stamps`, `Accepts`, `Refuses`, `Logs`) and read events (`Reads`,
`ReadStamps`, `ReadLogs`); the GPU ends atoms (external). `LastBefore`, `WaitsForFragment` are what
`blobdeps.py`, `Completion`, `Sooner`, `BusySince` what `passtime.py` makes of any log so far. `id` in a line is history.
Observations: an atom with EVENT_ONLY_ON_FAILURE has no event when it succeeds, and `passtime.py` (40)
then takes the event of the next use of its number for it, against its own header (5); panvk marks its
atoms so (U1 11327), the system driver the tool is for does not. `blobdeps.py` (36) takes all lines for
one kbase context: the model has one. The window of times on the command line is left out.

`QueryTrace`: the traced program (external, frames in their order) and the script, which reads every
traced call (`Contiguous`, `SeesBegin`, `SeesCmd`, `SeesEnd`, `Vouches`, `Submit`). Totals stand for the
rows per frame.

Right before some definitions of the modules stands a variant with a plausible mistake in it
(`BroadcastOnProgress`, `OwnedNot`, ...). Nothing uses the variants; each, put in the place of its
definition, makes TLC find a property violated, so no property holds vacuously. `PROJECT.json` names one
for each property of each run; the others belong to the other parts of the same property.

## The runs

Several related invariants are checked as one, named for what they say together; the parts are named
in the modules.

| Run | Instance | Checks | Distinct states |
|---|---|---|---|
| `queue_faults` | 2 threads, 3 numbers, 2 submissions of up to 2 jobs and an imported fence, every fault | types; `AtomsAreInOrder` (jobs one at a time, behind their fence, one trigger per submission); `NothingEndsEarly` (completed, signalled, reused only when ended); `ToldTheTruth`; implements `InOrderQueue` | 1.7 M |
| `queue_shapes` | told apart by `shape`: "ring", 2 threads, 3 numbers, 3 submissions of one job, no faults; "crowd", 3 threads, 3 numbers, 2 submissions of one job, imported fences fail | `FreeCountIsExact`, `RingHoldsTheSeqnosInFlight`, `SubmissionsOwnTheirNumbers`, `SleepersHaveOneReader`, `ImportErrorsAreHarmless` | 2.2 M |
| `queue_live` | 2 threads, 2 numbers, 2 submissions, jobs and polls fail | `EveryCallReturns` | 0.2 M |
| `sync_shapes` | 3 threads on one sync, and one thread at a time on two, told apart by `shape` | types, `WaitsAreHandedOver`, `PayloadIsWhatWasArmed`, `DescriptorsAreOwnedOnce`, implements `BinaryPayloads` | 0.9 M |
| `sync_live` | 2 threads, 1 sync; a move needs two and is left out (`StepsOnOne`) | `EveryArmedWaitReturns` | 0.1 M |
| `cache_flushes` | 2 threads, a shared buffer and one of one thread, a list of 2 ranges over 2 granules, 3 requests; for liveness a list of 1, told apart by `size` | `FlushMeansDone`, `NoWriteIsLost`, `OperationsAwaitABarrier`, `EveryFlushOfTheSmallReturns` | 1.0 M |
| `cache_barrier` | the same with one granule and 2 requests; a violation is expected | `BarrierMeansDone` | |
| `submit_calls` | 2 calls over none or 2 of 4 batches (or one, or 3, for one call each), one batch with a SET, 2 syncs (the second call may wait for the first one's signal), a chain of 2, every failure | types, `BatchesAreInOrder`, `SignalsAreEarned`, `FailureIsLatched`, `EveryCallReturns` | 1.3 M |
| `bench_forms` | the three activations with one runner, two runners on one prefix, a short one for liveness, told apart by `form` | types, `ResultsAreReal`, `ActivatesWhatItChecked`, `EveryRunEnds` | 0.7 M |
| `scripts` | `Scripts`: `GameplayGate` to `PatchChain`, 14 settings told apart by `script` | one property per script; `RegressionIsFinal`, `WaitsEnd` | 1.8 M |
| `stage_patches` | `StagePatches` by itself: 2 files, 2 stages, careful work, 2 edits of a file; a violation is expected | `StackExactly` | |
| `iolog` | `Readers`: one parser, 3 pairings, 3 loggers, 2 traces, told apart by `script` | one property per tool | 2.7 M |

`cache_barrier` is a disagreement of code and comment: C1 77 takes the flag with an exchange and then runs the
barrier, and a flush of another thread that finds the flag clear goes on without one, before the first
one's barrier. The comment above (C1 76) says the barrier makes sure "all flush/invalidate requests are
effective". The kernel path, the default, has no such window (`FlushMeansDone`).

`stage_patches` is one of script and header. `mkstagepatches.py` (8-9) says of its patches that they "stack
exactly from the committed state to the live tree". It orders stages by their oldest copy of any file (91)
and diffs each file on its own (95-98). A stage that has begun with one file and comes to a second one
after a later stage was there gets an earlier place for a patch that starts from the later stage's
result. TLC finds it with two stages and two files, each copied before it is edited. In `scripts` the
files whose stages came in order stack whatever else happens (`StackInStageOrder`).

`Scripts` puts the first six scripts side by side, each with a set of settings it may be run with
(`Games`, `Forms`, `Series`, `Caches`, `Works`, `Trees`): `script` says which one with which setting a
behaviour is of, it never changes, and the variables of the others stay 0. `MCScripts` gives the settings
their values for TLC; the proofs are about any settings. `Readers` does the same for the four readers
(`Dumps`, `Pairings`, `Loggers`, `Programs`), and `MCIolog` gives their settings. `MCQueueShapes`, `MCSyncShapes`,
`MCCacheSync` and `MCBenchmarkRunner` tell sizes of one module apart in that way.

Bounds. Three atom numbers for submissions of one or two jobs (two for single jobs in `queue_live`), plus soft atoms,
make the numbers run out, be waited for and be reused within two submissions: the states in which an event could meet the wrong
submission, or an allocation lose the mutex. In the ring there are as many submissions as numbers,
so the ring reaches its limit. Three threads are one submitter (Vulkan makes submission externally
synchronised) and two that can be reader and sleeper at once; a lost wake-up or a second reader needs no
more. In the crowd the submitter waits for all it submitted, as it does at the end of a submission that is
not chained and for an idle queue, and the others wait for and export what they like. `MaxRead` is 2 (32 in the code), so that events are read in batches and the mutex is not dropped
between the two; 1 in the liveness run. `MaxSubmits` and `MaxSeqno` bound the counters, whose 64 bits
cannot wrap in practice. For the syncs, the properties are per sync or per pair (move), and descriptor
numbers are reused with two syncs and three numbers; three threads are an owner, one that is to take
over and one more sleeper. Symmetry is used over atoms and threads (but the submitter),
and not in the liveness runs.

`CacheSync`: a list of 2 with 3 requests is full, merged into and flushed by a request. `QueueSubmit`: a
batch twice in a call and again in the next, a chain one shorter than the longest list, and
`MaxSubmits` above what two calls can make. `BenchmarkRunner`: four attempts at the title are the code's
retries, two rows of the log around each input order stamps and presses. `GameplayGate`: a
window of four ticks with presents before, in and behind it, grouped or missing. `CtsGate`: all of the
runs of each form, one start more than needed. `OracleSeries`: the scripts' own labels, 3 repetitions.
`ShaderCache`: two shaders (some shared, some not), 2 repetitions with faults and 3 without.
`StagePatches`: three stages of two files, one of which no patch of the repository touches, taking
turns in every way with two edits of a file; two stages when the work is careless. `PatchChain`: a source, a document and
an excluded file, two patches, an editor. `IsaPairs`: shaders that are alike to different degrees, some
drawn more than once or not at all. `AtomTrace`: two threads with an atom each, or three numbers of which
one is used again, by fragment and dependency atoms or by render passes of two atoms.
`QueryTrace`: one buffer over a gap of a frame, or two buffers.

Deadlock is checked where the modelled thing goes on for ever: the queue, the syncs, the cache and the
submissions. Scripts end: `bench_forms`, `scripts` and `iolog` say `CHECK_DEADLOCK FALSE`, and what
must not stop early there is said by `EveryRunEnds` and `WaitsEnd`.

### Fairness

`KbaseQueue`: weak fairness of each thread's own steps (the scheduler), strong fairness of a thread's
getting the mutex (a waiter for a pthread mutex is not passed over for ever; weak fairness is not
enough, as the mutex is free and taken again and again), weak fairness of *some* atom ending (the GPU or
kbase's own time-out ends every job, and an imported fence ends). None on starting a call or on
spurious wake-ups. `KbaseSync`: weak fairness of each thread's steps, of the queue's completion and of
the imported fences; strong fairness of the two steps that observe a time-out, since a deadline that has
passed stays passed while the thread may be woken any number of times. Nothing assumes that the device
is, or is not, lost, or that anybody arms a sync: `EveryArmedWaitReturns` is about syncs that are armed,
or waits with a time-out.

`CacheSync` (small size): weak fairness of a thread's own steps but new requests (the scheduler), strong
of getting the mutex, as above. `QueueSubmit`: weak fairness of the call's own steps, of the GPU ending
what it was given, of the event's being read, of an imported fence signalling (the contract of a
`sync_file`); none on starting a call. `BenchmarkRunner`: weak fairness of a turn of the loop, whose
every call has a time limit (`subprocess.run(timeout=...)`), and strong fairness of the check of the
deadline, which has passed for good once it has (238). `CtsGate`: weak fairness of the waiter's deadline
(19-21), looked at in every turn; none on the maker, which nobody may start. That the checks behind a good
comparison end is assumed of their environment (weak fairness of `ChecksEnd`): some of the programs they
call limit their test processes (`src/tools/winlator/verify_dxvk.sh` runs each under `timeout 300`), but
`run_android_checks.py` (31-35) calls them without a time limit of its own. `WaitsEnd` is about waiting for the
comparison; one of the programs could still hang. `ShaderCache`: weak fairness of the script, whose processes have time limits.

## What is proved

Eight modules of proofs, from the named assumptions on the constants only (finite sets, a submitter
among the threads, at least one job and one event per read, descriptors' fences different from
"closed", non-empty lists of syncs, bounds that are numbers, shaders to compile, comparisons to make,
dumps whose uses and shaders are sequences, a `--pairs` that is not negative):
for any number of atoms, threads, jobs, submissions, syncs, fences, buffers, batches, files, stages and
repetitions and every combination of faults.

**`KbaseQueue_proofs`.** `TypeCorrect`, `FreeCount`, `RingInOrder`, `NumbersOwned`, `NoLostWakeUp`,
`ReaderExclusion`, `RingNeverOverflows`, and `HandOver`, which puts the reader's and the sleepers' part
together as the run checks them. The properties are not inductive by themselves: that the free
count stays exact when a submission is retired needs its numbers to be taken and nobody else's
(`SubmissionsOwnTheirNumbers`); that the ring stays in order when an export marks its slot needs the
slot to be found by distance (`RingHoldsTheSeqnosInFlight`) and the call to be about a seqno that was
given out (`CallsAreForSubmitted`); that a sleeper has a reader needs the reader to be unique, or the
first to leave would take `reading` with it (`ReaderIsUnique`). `IInv` is their conjunction; one lemma
per action, or group of actions that disturb the same conjuncts, shows that it is preserved.
`RingNeverOverflows` then follows: the last atoms of the submissions in flight inject into the numbers.

**`KbaseQueueOrder_proofs`**, on top of `IInv`, relates the queue to the kernel's side:
`AtomsStayInOrder`, `NothingEndsTooEarly`, `CallersAreToldTheTruth`. Its invariant `KInv` adds

* `ThreadsBehave`: events are in a thread's hands only between its read and its handling of them, and one
  thread submits, so that `last_seqno` is still the same when it gets the mutex back;
* `Places`: an atom is with the GPU, in the event queue, in one reader's hands or nowhere, never in two
  places, and the event of a submission's last atom comes behind those of the others, in the queue, in
  hand and where it was handled. This is what lets the code retire a submission on its last event, and
  makes a free number idle although the event of its former use was read by another thread;
* `Chains`: the atoms of a submission depend each on the one before, the first job on the last atom of
  the submission before and on the imported fences. The chain survives the end of an atom that waits for
  nothing (`ChainEnds`), so at most one job is free to run. That the last atom lives as long as any atom of
  a submission, and lives as long as any of an earlier one (`EndedWithLast`), is read off the chains;
* `OwnersAreKnown`, `TriggersAreOne`, `SignalledHasEnded`: every live atom belongs to one submission in
  flight (or is its trigger), a submission has at most one trigger, and a signalled `sync_file` is behind
  its submission;
* `FailuresAreSeen`, `Told`: a failed job's event lies before the last event of its submission, so whoever
  retires the submission has already marked the loss, and nobody is told of success past it.

What follows for the caller is in the same module. `QueueKeepsItsPromise`: `KbaseQueue`
implements `InOrderQueue`. The mapping reads
how far the GPU is off the ring: submissions up to `e` have a last atom that is over, those behind it one
that lives (`IsEnded`). That there is such an `e` is an
invariant (`HasEnded`), moved by the steps that end a last atom. Such a step is `End`, a job that
fails `Break`, a retirement `Complete`, a signalled trigger `Signal`, an answer `Report`, the loss `Lose`;
polling, reading, the condition variable and the dropped mutex are stutters.
`ImportErrorsDoNoHarm` is for `Faults \subseteq {"fence_wait"}`. The theorem's
premise is the situation the property is about: imported fences may fail, nothing else does. `Harmless`
says that a failure's event is of a fence wait (`OnlyWaitsFail`), that the ring knows these atoms and no
submission ends with one (`WaitsAreKnown`), and that what waits for one does so by ORDER only, never by
DATA (`NothingIsCancelled`), so the error reaches neither a job nor the device.

**`KbaseSync_proofs`.** `SyncTypeCorrect`, `WaitHasOneOwner`, `NoForgottenSleeper`, `NoStaleTarget`,
`NoForgottenReader`, `DescriptorOwnership`, and `SyncsAreBinaryPayloads`, the refinement. `IInv` adds to
the checked properties that sleepers are in a call for that sync (`SleepersAreThere`), that the
callback, the export and the descriptor of a pending sync come as one (`PayloadHasShape`), and that what
a thread copied for the time without the mutex is still what the sync holds (`CopiesAreCurrent`). The
argument runs through `NoneInside`: whoever may change a sync by the external-synchronisation rule finds
no thread inside a callback or an export of it, since a thread inside a callback means WAITING and MayArm
means unused or RESET. `FdIsFree` is a pigeonhole: one number more than syncs is enough for an import.
The refinement needs one more invariant, `ResultsAreTrue`: what an owner is about to report is still so
when it gets the mutex back, because work ends for good (`WorkEndsForGood`) and nobody re-arms a sync
under its owner (`OwnerKeepsWork`). Then a report is `Observe`, a time-out and a take-over are
stutters, and every host operation is one of the abstract ones.

**`CacheSync_proofs`.** `CacheTypeCorrect`, `FlushIsTrue` (a flush through the kernel that succeeds made
everything its thread asked for effective) and `OperationsAreAnnounced`. `FlushIsTrue` needs to know
where a request is at every moment: still in the thread's hands, in the list, in the part of the list the
holder of the lock has not synchronised yet, or lost with the sticky error up (`NothingIsForgotten`),
that merging two ranges forgets no granule of either (`MergeKeepsGranules`), and that only the holder of
the lock is in the middle of the list (`HolderHasLock`, `RangeInHand`). The unlocked test of the list is
harmless because a thread's own range was appended under the lock before. `WritesAreKept`: an
invalidation never throws away what its thread wrote before. Its invariant `WInv` says that an entry that
invalidates a buffer is there only while its thread reads back (`ReadersInvalidate`) and that a cleaning
which is still owed lies before it in the list and is not passed yet (`CleanedFirst`): a merge only widens
an entry of the same kind, and a walk goes from the front.

**`QueueSubmit_proofs`.** `SubmitTypeCorrect`; `FailureLatches`: once the queue or the map cache has failed
a call, later ones hand over nothing and do not succeed (`RefusalsHaveACause`: whoever is refused had the
queue or the cache lost before, and no step takes that back; a call that fails in its wait for an imported
fence is not among them); `RewritesAreSafe`: a batch that is submitted again is rewritten only when the GPU is done
with it, as `kbase_seqno` is the newest submission that holds it (`SeqnosAreRecent`, kept by the flush's
numbering of the whole chain, `ChainIsNumbered`) and the wait was for that number (`RewriteIsSafe`);
`NoSignalOfFailedWork`: a sync that is found signalled is not of work of which a job failed
(`SignalsAreSound`). `BatchesStayInOrder` and `SignalsAreTrue` compare histories: what the GPU was given
against what the calls asked for. The recursive functions `BatchesOf` and `Delivered` sum over all
submissions so far; instead of an induction over them, the invariant `DInv` carries that they exist and
are the only ones with their equations up to `submitted` (`BatchesAreCounted`, `BatchesAreDelivered`), and a flush, the only
step that changes what they are computed from, extends them by one. `ChainAddsUp` and
`OrderIsKept` then say that what was delivered with what is still in the chain is what was asked for. For the
signals, `SInv`: a call signals with the number of the submission that holds its last batch
(`NewestIsAll`), every armed sync and the event stand behind that (`HistoryIsBehind`), and as long as the
imported file has not signalled, what waits for it is not submitted or behind a submission that waits too
(`FileIsAwaited`).

**`BenchmarkRunner_proofs`.** `ReportsAreTrue`: one game per prefix, a reported success was played to its
end, its dialog has an anchor, and the anchor is not behind the press. `BInv`: whoever is past `Acquire`
holds the lock and games run only there (`LockIsHeld`), a result that is seen, filed or reported was
played (`ResultWasPlayed`), the actions written down are those that led to the phase, with one more before
a key press in the forms that stamp early (`ActionsFollowPhase`), and stamps never lie beyond the log
(`IsAnchored`). `NeverPressesAnother` has two premises, `Activation # "blind"` and nobody else at the menu
(`"steered" \notin MayFail`): the blind copy does not look, and a
person at the device can move the selection between the check and the press, so neither can promise it.
`AnchorsFollowTheCheck` is for the form of `tools/` (`Verified`).

**`Scripts_proofs`**: every property of the run `scripts` but `WaitsEnd`, for any settings. `ScriptsInv` is
one invariant per script (`ScriptsHold`); a step of one leaves the variables of the others alone, so each is
proved by itself.

* `GateIsReal` (`AcceptedRunsAreReal`): a row of the log is an interval that ends with a present, the times of
  the rows add up, and a row that says it is of one frame spans no other present (`GateLog`); what was
  counted at the action is a row of the last present before it, or the one being written (`GateCount`,
  `GateAnchor`). The clock the analysis adds up from the rows is then the time since the action, and the
  rows it keeps lie in the window. A log that is begun again is left out of the last two, as in the run.
* `ChecksAreBehindComparisons` (`ChecksAreEarned`): the report lists the outcomes of the first directories, and
  an outcome is settled once (`CtsRunsOnce`); a file that was written is such a list (`CtsFileTrue`); so who
  got past the wait had all comparisons come out well (`CtsEarned`). `RegressionsStay` (`RegressionIsFinal`)
  is an action property.
* `SeriesAreRight` (`CompleteMeansRight`): the report is the outcome of the plan so far, and a surprise is its
  last entry (`OracleLists`). The plan is computed by recursive functions over labels and repetitions;
  that it has runs that are no controls, and a control with no other driver before it, is `PlanFacts`.
* `CachesAreSound` (`OkMeansSound`): what the cache directory holds between two steps follows from the driver
  (`CacheHolds`), and as long as nothing failed, each step that was passed says something of it (`CacheSays`);
  one repetition says all. Hits and misses are numbers of keys, hence the assumption that there are shaders,
  and finitely many.
* `PatchesStack` (`StackInStageOrder`): a copy holds what its file was at that time, and no two are of one
  time (`StageFacts`), so the list of stages is by the times of their oldest copies, and for a file whose
  stages came in that order, by its own copies (`StageTurnsAre`). `StageValue` is what such a file is after `n`
  stages: it begins with its first copy, ends at the live tree, each
  patch leads from one to the next, and a stage without a patch of it leaves it. Hence `Stacked`, by induction
  over the stages.
* `ChainsAreSame` (`OkMeansSame`): what is compared with is the tree of the whole stack (`ChainStacked`), and
  while nobody edits, what was read is what is there and the list is that of both trees (`ChainReads`).

**`Readers_proofs`**: the four tools of `Readers`, for any settings. `ReadersInv` is one invariant per tool
(`ReadersHold`); each says what the file and the thing it is about have to do with each other.

* `DumpsAreRead` (`UsesAreTheirDescriptors`): the open block is all there is behind the last header of its
  address, a closed one ended at the first line that is no body, short of its blank lines (`DumpCopies`);
  stage and registers are those of the last descriptor that began (`DumpDescriptor`), and the uses are
  the bound lines by rank (`DumpUses`).
* `PairsAreRead` (`PairsAreTheBest`): for dumps of any shaders, any `--pairs`, any number of runs. Three parts.
  (1) Every list the script sorts is a set by rank: in an order on a finite set each rank below its size is
  one element's (`Ranks`), so the list holds each element once, the first ones first (`ListIs`). Hence a
  table has one row for each address that is drawn with (`TableIs`), and the archetypes, whose draws are
  added up one row after the other, count each draw once (`DrawsAdd`, `DrawsKept`); the first of a group is
  the one most drawn with. (2) Scores are numbers for any two shaders (`ScoreIs`). The picks so far are
  one to one, from best to worst, none of the candidates still free is better than any of them, and
  each that is not free shares a shader with a pick that is as good (`PicksOk`). Picking the first of the
  free ones keeps this (`FirstFree`, `PicksMore`); when none is free it says that the pairs are stable.
  (3) What is chosen of each stage are its first places (`ChosenIn`, `ChosenAre`), so a pair that is left
  out stands behind all of its stage, and is left out only if there are enough (`TakenIsBest`). The
  directory (`PairDir`): after the stale files are dropped the pair files are among those of this run, and
  at the end all of them; a run that is stopped promises nothing, and the next one drops what it left.
* `TimesAreRead` (`TimesAreTrue`): a number is out until the event that gives it back is logged, and as long
  as it is out it is one atom's or one call's (`LogNumbers`); an event is in the queue, in a batch or in the
  log, once (`LogEvents`); the atoms of a submission end one behind the other (`LogChain`), so the event of
  the last speaks for the silent ones before it. Hence the times: the event of an atom was logged,
  with an earlier time, before a later atom of its number was stamped, and no event is stamped before its
  atom (`LogTimes`, `LogBefore`, `LogAfter`), wherever the lines came to stand. So the first event at
  or after the time of a submission is the atom's own. Under a lock, the last line about a number that is
  held is that of the kernel's latest atom with it (`LogDeps`), so that dependencies resolve alike. That no
  time is busy twice needs only that `Sooner` orders the atoms found.
* `TracesAreRead` (`CompleteIsTheTruth`): what the script has of a buffer matches what was recorded of it,
  but for its being reset out of sight, unless a frame that was not traced lies behind the last traced
  call (`QueryCurrent`); then the next traced call finds the gap and everything is forgotten. So a submission that is
  vouched for adds the same to both sums (`QuerySums`), and that none of them has secondary buffers is an
  action property over the same invariant.

Inductions over numbers are proved from the library's `NatLessThanWellFounded` and `WFMin`
(`LeastNumber`, `Numbers`): a recursive function is shown to exist as its equations say, and to be
determined by them. What stays out of reach are `RECURSIVE` operators, library theorems that take an operator,
fairness and ENABLED.

Only model-checked: liveness (`EveryCallReturns`, `EveryArmedWaitReturns`, `EveryFlushOfTheSmallReturns`,
`EveryRunEnds`, `WaitsEnd`), which is out of the prover's reach. Every safety property of a passing run is
proved (`ActivatesWhatItChecked` one form at a time, by `NeverPressesAnother` and `AnchorsFollowTheCheck`). `BarrierMeansDone` and `StackExactly` are false, see
`cache_barrier` and `stage_patches`.

## Not modelled, and why

* Command-buffer batches and deferred queries (DQ): the batches and the state of a query are Mesa's, and
  the patch shows only the lines it changes; what closes a batch cannot be read off the repository. The
  hazard is listed (DQ 302) without a property.
* Memory backend (U1 1982-3941, MEM): allocation with a fallback, import and mapping are sequential within
  one call, and the tables they keep are Mesa's. Worth modelling; see the plan.
* WSI present wait: waits for syncs before a present, as `KbaseSync` models; the swapchain is Mesa's.
* Host events: the `SET` a batch carries is in `QueueSubmit`; what the application does to an event from
  the CPU goes to a sync of the runtime, which is not here.
* Pass overlap: a prototype, off by default, which its README calls incomplete.
* `PANVK_KBASE_WAIT_SUBMIT`, `CPU_FENCE_*`, `SYNC_SUBMIT`: switches back to synchronous behaviour,
  and deliberately broken controls.
* Timestamps, conditional rendering, depth bounds, compiler passes, the port itself: sequential
  recording and data conversion, mostly against Mesa code that is not here.
* Timelines over `kbase_cpu_sync` are emulated by the Mesa runtime, which is not here either.
* Memory pressure (`malloc`, `dup` that fail): errors that leave the state as it was.
* Remaining scripts: straight lines of steps that stop at the first error; test programs; the snapshots
  and counters of `tools/iolog`.

## Plan

Done, in this order: the job queue and its specification, the CPU syncs and theirs, submission on the two
abstract modules, the map cache, the runner and the gates, the readers of logs and dumps, and the proofs
above. Left:

1. `JobGraph`: the dependency graph with pass overlap (C1 360-371) against the ordered one, should the
   prototype be finished.
2. The memory backend: allocation with its fallback, import, the flags of a mapping, with failures.
3. Batches and deferred queries, if the Mesa tree the patches apply to is at hand.

Composition: `KbaseQueue` implements `InOrderQueue` and `KbaseSync` implements `BinaryPayloads`;
`QueueSubmit` is built on the two abstract modules, not on the detailed ones, so that its state space stays
small. What it assumes of them is what their refinements show.
