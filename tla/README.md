# Verification of PiEngine

PiEngine (`pi-engine`) computes the decimal digits of pi with the Chudnovsky
series: the terms are split into ranges, every range becomes a triple (P, Q, T),
and neighbouring triples are merged level by level. Around that arithmetic the
program has the machinery this project is about: a thread pool with per-worker
deques and a lock-free global ring, crash-safe checkpoints and resume, chunk
files that let a merge level leave memory, asynchronous readers and writers,
a progress reporter that runs beside the computation, and a final verification that
reads the written output again before it vouches for it.

The project holds TLA+ modules for that machinery, TLC configurations that check
them on small instances, and TLAPS proofs for the scheduler, its ring, the checkpoint
protocol, the resume planner, the chunk storage and the out-of-core merge, the asynchronous
I/O, the progress of a run, the final verification, its arithmetic, the encodings of blocks
and chunks and the versioned index. Source paths below are relative to the
repository root. `PROJECT.json` maps every definition to the lines it models.

Contents: [1 The system](#1-the-system) ·
[2 Modules](#2-modules-and-their-correspondence-to-the-code) ·
[3 Runs](#3-runs-bounds-and-results) · [4 Fairness](#4-fairness) ·
[5 Proofs](#5-proofs) · [6 Findings](#6-findings) ·
[7 Not modelled](#7-what-is-not-modelled-and-why) · [8 Plan](#8-plan)

## 1 The system

### Components

| Component | State it keeps | Operations | Interacts with |
|---|---|---|---|
| **Scheduler** (`src/scheduler/ThreadPool.cpp`, `Worker.cpp`, `Task.cpp`, `TaskHandle.cpp`, `WorkStealingQueue.cpp`, `Scheduler.cpp`) | lifecycle state, its mutex and condition variable, the generation, `outstandingTasks_`, one deque per worker, the global queue, the state of every task | `start`, `stop`, `submit`, `wait`; each worker pops, takes from the global queue, steals, executes, and yields when it found nothing | submits come from the splitter, on the main thread and inside tasks |
| **Global queue** (`LockFreeQueue.cpp`) | two position counters and a sequence number per slot | `push`, `pop`, `empty` by any thread | owned by the pool |
| **Binary splitter** (`src/binary/BinarySplitter.cpp`) | the current merge level | staged split: layout of restored seeds and gaps, blocks, then pairwise merge levels | submits tasks; calls the observers for progress, checkpoint and storage |
| **Checkpoints** (`src/checkpoint/CheckpointFrontierWriter.cpp`, `AtomicFileCommit.cpp`, `CheckpointStore.cpp`, `CheckpointResumePlanner.cpp`, `CheckpointQuarantine.cpp`) | block files, one manifest, quarantined files | commit a frontier (blocks, directory sync, manifest by temporary file and rename), clean up, plan a resume, quarantine bad files | called after every level; read at start |
| **Checkpoint validation** (`CheckpointManifestValidator.cpp` and others) | none | decide which manifest entries are usable | called by the resume planner |
| **Chunk storage** (`src/storage/StorageManager.cpp`, `ChunkStore.cpp`, `ChunkIndex.cpp`) | chunk files, in-memory index, published index file, the set of chunks being stored | `store`, `load`, `contains`, `remove`, opening an existing directory | called by the I/O threads and by the merge coordinator |
| **Asynchronous I/O** (`AsyncWriter.cpp`, `AsyncReader.cpp`) | request queue, request states, counters, two kinds of condition variable | `submit`/`loadAsync`, `waitForCapacity`, `cancel`, `wait`, `shutdown`; I/O threads | wrap the storage manager |
| **Out-of-core merge** (`StorageMergeCoordinator.cpp`, `NodeLifecycle.cpp`) | where every node of the level is, resident bytes | plan an eviction, spill, restore before a merge, retire after it | between the splitter and the asynchronous I/O |
| **Progress** (`src/progress/*`) | phase, completed terms, checkpoint work, durable count; reporting thread and its mutex | phase changes, counters from every thread, snapshots, start/stop of the reporter, restoring counts on resume | everything reports to it; the runner reads it |
| **Pipeline** (`src/main.cpp`, `ChudnovskyCalculator.cpp`) | exit status | open storage, plan resume, compute, finalize, verify, report; handlers for every failure | owns all the above |
| **Final verification** (`src/verification/*`) | the output file, the verification manifest, the report of the stages | write the output, inspect it, compare known digits, hash it, sample hexadecimal digits, save a manifest, verify a file against one | after the calculation, in `main`; a client of the library may verify later |
| **Precision and sample arithmetic** (`PrecisionPolicy.cpp`, `BBPSamplePolicy.cpp`, `BBPHexDigit.cpp`, `DecimalHexDigit.cpp`) | none | terms, working digits and bits for a digit count; sample positions; modular powers; a hexadecimal digit of a decimal | everything is sized by the plan; verification uses the rest |
| **Record formats** (`CheckpointBlockCodec.cpp`, `ChunkCodec.cpp`, `CompressionCodec.cpp`, `GMPSerialization.cpp`) | records on disk | encode, decode | called for every block and chunk file |
| **Versioned index** (`VersionedChunkIndex.cpp`) | versions of every chunk by time | add, query, clear, save, load | its test only |
| **Config, memory, reporters, platform** | none that lasts | parse, allocate, print | see section 7 |

### What is hard in it

The list of hazards, each at its line, is in `PROJECT.json`. In short:

* *Threads.* The pool counts outstanding tasks before a task is visible and
  undoes the count when the push fails, while `stop` waits for the count to
  reach zero and workers look for tasks without a common lock; an overlapping `stop`
  sleeps until a generation it read earlier is over. The ring is a protocol of
  compare-and-swap loops whose counters wrap.
* *Crashes.* A commit is seven or more file operations; a process may be
  killed, the machine may lose power (renames and writes not synced are lost or
  torn), and each write or sync may fail alone. The next process must find a
  manifest whose blocks exist.
* *Partial failure.* `store` publishes a file, then an entry, then an index; any
  of the three may fail and the undo may fail too. The coordinator collects
  several outcomes and must not lose the nodes that did get written.
* *Waiting.* Bounded queues, a condition variable shared by waiters of two
  kinds, shutdown with requests queued, a reporter that must stop and be joined
  on every path out of `main`.
* *Evidence that outlives its file.* The four verification stages open the output
  again each, and the manifest is durable while the output is never synced: the
  file may change between two stages, or be cut after the manifest was saved.
* *Words and bytes.* Products and sums near 2^64, 16-bit counts, lengths read from a
  file: what overflows must be refused, and what is accepted must be what was written.
* *Numbers that must agree.* `outstandingTasks_`, resident bytes, completed
  terms and the durable count are all updated by several threads or by several
  steps, and something is decided on each.

### What makes each component correct

* Scheduler: no accepted task is lost or run twice; the counter that `stop`
  waits for is exact; after `stop` nothing is left; every call returns.
* Ring: a bounded FIFO; no slot has two owners.
* Checkpoints: a manifest that survives names only blocks that survive; a
  restart recomputes nothing that was durable; the merge frontier is always a
  partition of the terms; work ends once faults stop.
* Checkpoint validation: the one-pass overlap scan rejects what comparing all
  pairs would; accepted blocks and ranges to recalculate partition the terms; the
  quarantine never takes an accepted file.
* Storage: what was reported stored can be loaded until removed; two stores of
  overlapping chunks never run together; a failed store leaves nothing, and what faults
  leave behind does not grow by itself.
* Asynchronous I/O: each request settles exactly once; nobody waits beside an
  answer or beside room.
* Out-of-core: every value is in memory or on disk; the accounting equals what
  is resident; a successful run leaves no chunk; a fault-free run succeeds.
* Progress: terms are counted once; what is reported last agrees with the exit
  status; the reporter ends.
* Final verification: a manifest is evidence of the bytes whose hash it holds; a file
  that passes against a manifest is the file that was hashed; a right decimal is
  not rejected, and the output of a completed run is the decimal.
* Arithmetic: no result is lost to the width of a word; samples are spread, and a digit
  the decimal does not determine is not guessed.
* Records: a decoder accepts exactly what its encoder writes.
* Versioned index: no version is lost, doubled or taken for a later one.

## 2 Modules and their correspondence to the code

| Module | Models | Kind |
|---|---|---|
| `TaskService` | what the scheduler promises | abstract specification |
| `ThreadPool` | pool, workers, task states, deques | component, implements `TaskService` |
| `ThreadPoolProofs` | | proofs |
| `BoundedFifo` | a queue with a capacity (`ReferenceQueue` with a bound) | abstract specification |
| `LockFreeQueue` | the global ring | component, implements `BoundedFifo` |
| `LockFreeQueueProofs` | | proofs |
| `CheckpointFrontier` | commit, quarantine, resume and the merge loop on a faulty disk | component |
| `CheckpointProofs` | | proofs |
| `ResumePlanner` | manifest validation, file inspection, quarantine and the plan of a resumed run | component |
| `ResumePlannerProofs` | | proofs |
| `StorageManager` | chunk store, index and manager on a faulty disk | component |
| `StorageProofs` | | proofs about `StorageManager` and `OutOfCore` |
| `AsyncWriter` | the writing queue and its threads | component |
| `AsyncReader` | the reading queue, from `AsyncWriter`'s parts | component |
| `AsyncProofs` | | proofs about both |
| `OutOfCore` | coordinator, writer, reader and storage together | composition, EXTENDS `StorageManager` |
| `Progress` | `main`, calculator, workers, tracker and reporting thread together | composition |
| `ProgressProofs` | | proofs |
| `MachineWords` | words of a given width, `PrecisionPolicy` | operators |
| `BBPSamples` | sample positions, digit extraction, modular powers | operators, EXTENDS `MachineWords` |
| `ArithmeticChecks` | every word as the argument of those operators, beside exact references | checks |
| `FinalVerification` | output, stages, report, manifest, recheck | component, EXTENDS `BBPSamples` |
| `RecordFormats` | checkpoint blocks and chunks as records | component, EXTENDS `MachineWords` |
| `VersionedChunkIndex` | the index of versions and its saved form | component |
| `StoredResultsProofs` | | proofs about `FinalVerification`, `ArithmeticChecks`, `VersionedChunkIndex` and `RecordFormats` |
| `MCAsyncChunks` | the writer with one client, or the reader with two | composition for TLC |
| `MCDirectories` | the chunk directory and the checkpoint directory, side by side | composition for TLC |
| `MCStoredResults` | arithmetic, verification, records and versioned index, side by side | composition for TLC |
| the other `MC*` | constants and symmetry for TLC | |

### ThreadPool and TaskService

A step is what another thread can observe: one critical section of the lifecycle
mutex, one queue operation, or one atomic operation. `submit` holds the lifecycle
mutex throughout, but workers read the counter and the queues without it, so the call
is several actions: it is refused (`SubmitRefused`), or the task is counted
(`SubmitReserve`) and then put into the caller's deque or the global queue
(`SubmitPush`), or the count is undone (`SubmitRollback`). Each pass of `Worker::run`
is several actions too: own deque, global queue, the other deques one at a time, and
the test whether to leave (`CheckStop`). `submit` wakes nobody: a worker that found
nothing yields and looks again. The threads that sleep are clients: in `start` and in an
overlapping `stop` on `lifecycleCondition_`, in `TaskHandle::wait` on the condition
variable of the task, with spurious wake-ups. The global queue is a bounded sequence here;
`LockFreeQueue` justifies that. Starting a thread may fail (`SpawnFails`), which runs the
rollback of `start`. Two generations of start/stop are explored.

`TaskService` has three kinds of task sets (waiting, running, finished) and says
that a task is accepted once, run once, and that `stop` returns after everything
accepted has finished. `ThreadPool!Service` is the refinement mapping.

### LockFreeQueue and BoundedFifo

One atomic load, compare-and-swap or store per step; positions and sequence
numbers are taken modulo `2^Width`. The differences `sequence - position` are
signed as in the code. Memory is sequentially consistent, which is stronger than
the acquire/release orders of the code. The module assumes what the code needs:
positions less than half the range apart, and a capacity that divides the range
(any power of two does) unless the run ends before the counters wrap. A pop may find nothing and a push may be refused while
a thread of the other side is in the middle of its operation; the abstract
queue allows those answers, and `BoundariesAreReal` states when they are allowed.

### CheckpointFrontier

The disk has two layers: what a process sees and what a power loss leaves. Writing
a file, syncing it, renaming and syncing the directory are separate steps, in the
order of `AtomicFileCommit.cpp` and `CheckpointFrontierWriter.cpp`. `Faults` chooses
among killing the process, losing power, a failing write, a failing sync and damage
to a file. A launch with `--resume` validates and quarantines as in
`CheckpointResumePlanner.cpp`; a fresh launch ignores the manifest. The splitter's
layout around restored seeds is `Layout`: `Gaps` are where the cursor `coveredEnd` is short of
the next seed or of the end (`CoveredEnd`), and `Blocks` cuts a gap with the quotient and
remainder of `appendGap` into as many blocks as `boundedBlockCount` says. Cutoff and
the product of workers and tasks per worker are chosen anew in every run, from 1 to the number of
terms, beyond which they make no difference; a product of one is the sequential path.
The early return for an identical frontier (`CheckpointFrontierWriter.cpp:133-137`)
and the guards that throw on malformed frontiers cannot be reached from the splitter.
There is one identity (precision, terms, algorithm) per directory.

### ResumePlanner

`CheckpointResumePlanner::create`, one action per turn of each of its loops: the checks
of `CheckpointManifestValidator::validate`, its overlap scan, the refusal of files,
the inspection (`CheckpointFileInspector`, `CheckpointBlockValidator`,
`ManifestEntryValidator`, `ModularPQTVerifier`, in that order), the orphans and
`complement`. `Init` takes any manifest that `CheckpointManifestCodec::decode` lets
through (`Decodable`) and any directory; entries may be incomplete, of an impossible
level, overlapping or named after another block's file. A checkpoint file is absent,
malformed, the block of another location, a block with wrong values, or whole. A move
to quarantine and the reading of a file may fail. `CheckpointFrontier` takes the same
outcome in one step, for the manifests a run writes. The missing ranges that the
manifest validator reports as diagnostics decide nothing and are left out.

### StorageManager

Chunks are ranges at a level and overlap as ranges do. `store` reserves the chunk in
`inFlightStores_`, writes the file, saves a candidate index with the new entry, replaces the
index in memory by it, and undoes on failure; every disk operation can fail alone,
including those of the undo, and a directory whose sync fails after a rename has the new
file in place. Files and
index are replaced by synced renames, so killing the process and losing power leave
the same disk. `Kill` restarts from the published index.

### AsyncWriter and AsyncReader

Requests move queued - writing - stored, failed or cancelled. Each worker and each
client has a program counter; waiting on a condition variable is membership in a set
from which `notify_one` removes any one member. `shutdown` is called once, by the
owner. Two branches of the worker loop (a request that is no longer queued, a payload
that is gone) cannot be reached and are left out. `AsyncReader` has the same queue and
states (loading and loaded for writing and stored), notifies while holding the lock, and
has no `cancel`. `MCAsyncChunks` chooses at the start whether a behaviour is one of the
writer with the only client `pi-engine` has, or of the reader with two clients.

### OutOfCore

Composes the coordinator with the chunk storage. A node's size is its number of terms;
a tie in the eviction order goes to the lower index, which is the order of chunk
names below ten terms. Writer and reader are never in use together, so one queue stands
for both. The submit loop cannot throw and an eviction plan always exists. The
synchronous fallbacks without writer or reader are used only by tests. A layout is a
choice of increasing cuts (`Cuts`), and the bytes of a set of nodes are the number of terms they
cover (`BytesOf`), which is their sum because nodes do not overlap.

### Progress

`main()`, the calculator, worker tasks, `ProgressTracker` and
`ProgressReportingRunner`. A step is a critical section of `metadataMutex_` or one
atomic access. The spurious failure of `compare_exchange_weak` is a retry and
left out. Only tasks on workers fail: when the main thread's inline half throws, the
frame unwinds under tasks that still refer to it (`BinarySplitter.cpp:531`, see section
6). The manifest an earlier run leaves may cover any of the terms; a resumed
run counts as durable what it accepted. When `scheduler.start` throws, it does so outside the
handlers: the runner's destructor stops the thread and the tracker never fails. A task
carries the block it computes, and `TotalBlocks` counts pairs of a gap and a number in it
(`Planned`), which is the sum that `planCheckpointBlocks` adds up.

### FinalVerification

From the end of the calculation on: `main` opens, writes and closes the output,
`FinalVerifier::verifyFile` inspects its structure, compares the published digits, hashes it
and samples hexadecimal digits, and `main` saves a manifest if the report passed. Each stage
opens the file anew, so each is an action; reading may fail in each, a failing
structure ends the run of stages and the others do not. `LoadManifest` starts the overload of
`verifyFile` that compares the digest with a stored one. Around it somebody may
replace the output or damage the manifest, the process may be killed, and a power loss
leaves any prefix of the output (`main` does not sync it) and the old or the new manifest
(its store does). `quiet` and `clean` are history: nobody changed the output since
the first stage, and nothing at all went wrong.

`Options` are what the command line decides about the files and `Config` does not check.
With `plainName` the name of the output passes `VerificationManifest`'s `validate`; on POSIX a
file can be created under one name that does not, one with a backslash. With `sameFile`
`--verification-manifest` names the output file, and the rename of the manifest replaces
the output (`PutManifest`). A clock at 1970, which `validate` refuses as well, is counted
with the failures of saving.

SHA-256 has no collisions here: a digest is the bytes it was taken of. The
floating-point sum of the BBP series either resolves a digit, and then gives that of pi, or
says it is inconclusive; which of the two is free at every position. The published
reference and the digits of pi are constants. `PiAssumption` states what the code relies on about
them: the first digit behind the point is no nine; a digit count beyond the reference does not end in
nines, back to the reference, that are rounded up; and at the sampled positions `PiHex` is the
hexadecimal expansion of `PiDecimal`.

### MachineWords, BBPSamples and ArithmeticChecks

`uint64_t` is a word of `Width` bits, and every product and sum that the code does not
check is taken modulo `WordSize`, which is `2^Width`. `CreatePlan` is `PrecisionPolicy::create`,
`Select` the four loops of `BBPSamplePolicy`, `Extract` the interval test of
`DecimalHexDigitExtractor`, `Power16Modulo` the loops under `BBPHexDigitCalculator`.
`ArithmeticChecks` steps a counter through all words and compares each operator with
its definition in unbounded integers. The ratios of digits to terms and to bits are scaled down
with the width, and `ArithmeticAssumption` keeps what the code's own constants satisfy:
the remainder's product fits a word. `Power` is the power of integers that GMP computes, as a
recursive function, which can be proved about; the exponent `^` cannot.

### RecordFormats

A record is its fields. What a decoder compares with a constant (magic, version, header
size, reserved fields, checksum kind) is one flag; identity, location, compression,
lengths, signs, checksum and payload are modelled, and each check of the decoders is a
conjunct. Magnitudes are digits of a small radix, so leading zeros and a signed
zero exist. CRC32C has no collisions; LZ4 is external and stands for any codec with
several encodings of the same bytes. The encoder of blocks refuses lengths whose sum is no word, as
`checkedPayloadSize` does. A client encodes, fields are altered, with or
without a checksum that fits again, and a client decodes. Chunk metadata may have been
made of other integers than the ones encoded with it. `DecodersAreExact` says that a
record that is accepted is field by field what encoding the decoded content gives, except
that a compressed chunk may hold another payload that decompresses to the same bytes.

### VersionedChunkIndex

Versions are added with timestamps that may repeat; `std::sort` leaves equal ones in any
order. The saved form is a sequence of fields of different kinds; `After` is the offset
at which the loop of `deserializeInternal` stands after a number of identities; the count of an
identity's versions is taken modulo `CountLimit`, which is 2^16 in the code. The bytes may
be cut. An identity that is not valid can be added, as in the code, and is refused when it is
read again.

## 3 Runs, bounds and results

Every run is a module and a `.cfg`; TLC with two workers needs from seconds to
about two minutes. State counts are distinct states.

| Run | Checks | Instance | States |
|---|---|---|---|
| `thread_pool_safety` | `OutstandingIsExact`, `NoTaskLost`, `StoppedIsDrained`, `StopDrains` | 2 clients, 2 workers, 2 tasks, ring of 1, 2 generations, 1 failed thread construction; clients and tasks symmetric | 269,038 |
| `thread_pool_liveness` | `CallsReturn`, `ServiceSpec` (refinement of `TaskService`, liveness included) | the same with 1 generation and no failed construction, `FairSpec` | 216,500 |
| `checkpoint_power_loss` | `ManifestIsBacked`, `DoneIsDurable`, `FrontierOnlyGrows` | 5 terms, 3 power losses or failed writes, every run resumes | 56,259 |
| `checkpoint_process_crash` | `FrontierPartitions`, `RestartLosesNothing`, `NamedBlocksStay`, `ComputationEnds` | 3 terms, any 2 kills, failed writes, failed syncs or damaged files, fresh runs too, `FairSpec` | 277,701 |
| `lock_free_queue_wrap` | `RingIsSound` (types, one owner per slot, a pop gets the head), `BoundariesAreReal`, `FifoSpec` (refinement of `BoundedFifo`) | 3 threads, 5 tasks, 2 slots, 4-bit counters starting at 14 | 40,884 |
| `directories` | chunks: `InFlightIsExact`, `StoredStaysLoadable`, `FaultsAccountForDamage`; checkpoint blocks: `ScanIsExact`, `PlanPartitions`, `OnlyAcceptedFilesStay` | 3 callers, 2 neighbouring chunks and one overlapping both, any 2 of six faults; 3 terms, every manifest of up to 3 of 10 entries, up to 3 files of which one may be unusable | 1,919,720 |
| `storage_index_sync` | `FailedStoreLeavesNothing`: **violated** | 1 caller, 1 failing sync of the directory after the rename of the index | |
| `async_chunks` | `WriterIsSound` (types, no request in two hands or written after it was cancelled, shutdown leaves everything settled and counted), `CallsReturn`, `RequestsAreSettled`, no deadlock | writer: 1 client, 2 threads; reader: 2 clients, 1 thread; 3 requests, queue of 1; fair threads | 317,035 |
| `out_of_core_faults` | `ValuesAreKept` (every value in memory or on disk, a merge has its inputs), `AccountingIsExact` (resident bytes, the budget after a spill), `FaultFreeRunSucceeds` (success, and no chunk left), `RunEnds` | every layout of 4 terms, budget 1, 2 I/O threads, queue of 1, 1 of six faults, 2 runs, `FairSpec` | 146,940 |
| `out_of_core_resume` | `InterruptedRunResumes`: **violated** | 1 kill, then a run | |
| `progress_run` | `TermsAreExact`, `ExitStatusIsTrue` (a success is reported and a clean run succeeds), `LastRecordIsFinal`, `CliEnds` | 3 terms, cutoff 1, 2 workers and main, every combination of options and accepted blocks, 1 fault of six kinds, `FairSpec` | 442,426 |
| `stored_results` | `WordsAreExact`, `SamplesAreSound`, `DecodersAreExact`, `IndexKeepsVersions`, `ManifestIsEvidence`, `RecheckIsSound`, `CleanRunPublishes` | 14-bit words, all of them; runs for 1, 3 and 5 digits with a right or a wrong result, a reference of 4 digits, 2 samples, 2 changes, plain, refused and shared file names; records with 2 alterations; 3 versions of 3 chunks, counts below 3 | 615,715 |

Four properties carry the type invariant of their module as a conjunct or have it
proved beside them: `RingIsSound`, `WriterIsSound`, `AccountingIsExact` and
`TermsAreExact`; the type invariants of the pool, the checkpoint protocol, the storage
manager and the planner are part of the inductive invariants of section 5.

Why the bounds are enough to be interesting:

* *Pool.* Two workers are needed to steal, and for one to look at the counter and the
  queues while the other finishes a task or submits a child; two clients to race
  `submit` with `stop`; a ring of one slot makes the full case
  (and its undo) common; the second generation shows that nothing of the first
  survives a restart. The proofs remove the bounds for safety.
* *Ring.* With two slots and five tasks the ring is used more than twice around
  and the 4-bit counters pass from 15 to 0 in the middle. Three threads give two
  of one kind against one of the other. The proofs remove the bounds.
* *Checkpoints.* Five terms have three merge levels and an odd pairing; three terms with a
  damaged block have a resumed layout with a gap of one term between, before or after
  seeds. Three faults put one in each of three consecutive runs. The number of runs is not
  bounded.
* *Planner.* Three entries are what it takes for one to be nested in the first
  while its neighbour is not; entries that name another block's file make two
  entries compete for one file. The proofs remove the bounds.
* *Storage.* Three threads on three mutually overlapping chunks make each pair
  of calls meet; two faults let the undo of a failed store fail as well.
* *Asynchronous I/O.* A queue smaller than the number of requests makes clients
  wait for room; two threads can settle requests in either order. The proofs remove
  the bounds for safety, also that of one client for the writer.
* *Out-of-core.* Budget 1 with four terms forces a spill at both levels and a
  reload before both merges; two runs let the second inherit what the first left.
  One fault can hit any of several outstanding requests. The proofs remove the bounds for
  safety.
* *Progress.* Three terms with cutoff 1 are cut into as many blocks as
  `boundedBlockCount` allows, beside restored blocks, and merged on two levels; one fault can
  strike before, in or after the computation. The proofs remove the bounds for safety.
* *Stored results.* The four parts share no state, so a behaviour exercises one of
  them. 14 bits are the least that hold the product of a remainder below 100 and 83, which
  `SafePositionCount` needs. Requests below, at and above the reference make the rounded,
  the exact and the truncated comparison happen; a second run may overwrite the
  output under the manifest of the first; two changes can undo each other between
  stages. Two alterations can mend each other, which is what a decoder must not take.
  Three versions reach the count's limit. The proofs remove the bounds of all
  four parts.

Deadlock is checked in every run; `MCDirectories` lets a finished plan rest. `MCAsyncChunks`,
`MCDirectories` and `MCStoredResults` put models side by side that share no state, so that one
behaviour exercises one of them.

The checkpoint faults are split over two runs. With process kills and power losses
together `ManifestIsBacked` does not hold: a kill between the rename of a manifest
and the sync of its directory lets the next process quarantine blocks that the older
manifest, back after a power loss, still names. Only recalculation is lost:
`FrontierPartitions` is proved for any faults.

## 4 Fairness

Runs that check no liveness (`stored_results` among them) use a specification without
fairness. The others assume:

* `ThreadPool`, `AsyncWriter`, `AsyncReader`, `OutOfCore`, `Progress`: weak
  fairness of each thread that is inside a call or in its loop. Mutexes are
  held for a bounded number of instructions and the operating system runs a
  thread that is not blocked. No fairness is assumed of clients starting calls,
  nor of spurious wake-ups, nor strong fairness of a lock.
* The reporting thread's interval elapses and the reporter returns.
* `CheckpointFrontier`: a running process proceeds, and the user launches a
  process again with `--resume` when one has died. Faults are bounded by `MaxFaults`.
* Tasks terminate: the work of the splitter is finite.

## 5 Proofs

Everything below holds for every value of the constants that satisfies the
named assumptions. All proofs are checked by TLAPS 1.4.5 with Z3, Zenon and LS4.

### ThreadPoolProofs

Assumptions: `PoolAssumption` (clients are not workers, at least one worker and one
slot in the global queue, bounds that are natural numbers) and `TasksFinite`.

None of the interesting invariants is inductive. `IInv` is the conjunction of
`TypeOK` and

* `QueueInv`, `HeldInv`: a task is in one queue, once, or in one worker's hands,
  and its state says which;
* `SubmitInv`: which tasks each half-finished `submit` owns and whether it has
  counted them already;
* `CountInv`: `outstandingTasks_` is the cardinality of the tasks counted;
* `ThreadInv`: which worker threads exist at each point of `start` and `stop`;
* `LifecycleInv`: the lifecycle state implies where every thread and task may be;
* `PromiseInv`: the tasks a `stop` in progress waits for are valid, and ended once its
  generation is over.

`CountInv` needs `SubmitInv` because the count is raised before the task is
visible and lowered by whoever finishes it. From `PoolInvariant` follow
`TypeCorrect`, `CounterIsExact`, `TasksAreNotShared`, `AcceptedTasksAreKept`,
`DrainedWhenStopped`, the action property `StopReturnsDrained`, and
`PoolImplementsService`: each step of the pool is a step of `TaskService` or
changes none of its variables.

### CheckpointProofs

`FrontierInvariant` needs no assumption on the faults: the nodes of the level in
memory are consecutive ranges with increasing starts, so they partition the
terms (`FrontierIsPartition`), whatever blocks a resume accepted and with whatever options the
gaps were cut. The pairing of neighbours, the odd node and the layout around
seeds each have a lemma; the last, `LayoutPartitions`, rests on one about the cursor
(`CursorIsBehind`, `GapsAreComplement`) and one about the arithmetic of the blocks
(`BlockStarts`, `BlocksTileTheGap`). Where a least element is needed it is taken from the
well-foundedness of the natural numbers (`Smallest`).

Under `PowerAndWriteFaults` (faults are power losses and failed writes) the
inductive invariant `SafeInv` adds: every step of a commit before the manifest's
rename leaves the old manifest's blocks alone, all blocks of the new frontier
are synced before it, and cleaning removes only blocks neither manifest names.
From it: `ManifestStaysBacked`, `ResumeFindsEverything`, `ResultIsDurable` and,
when every run resumes, the action property `DurableFrontierGrows`.

Under `ProcessFaults` (no power loss; kills, failed writes, failed syncs and damage are
allowed, and so are fresh runs) the inductive invariant is `CrashInv`:

* `ManifestWhole`: the manifest a process sees is a whole frontier, and outside the last
  two steps of a commit what the writer believes it has published is part of it;
* `FilesKept`: at every step, the files the process still needs are there, and what it is about
  to remove or quarantine is bad or named by nobody;
* `FrontierUsable`: unless a file went bad, every named file passes inspection.

`RestartLosesNothing` speaks of one place of a later process; it needs the last two
parts at every place of every earlier one. `CrashLosesNothing` and the action property
`NamedBlocksRemain` follow.

### ResumePlannerProofs

From `PlannerAssumption` (at least one term; a manifest is a sequence of entries that
can be decoded) and `DirectoryAssumption`, for manifests of any length and any
directory. `PlanInv` says for each loop what it has established at the index it stands
at. The heart is `ScanTurn`: the entries are sorted by their start, so an entry that
overlaps any earlier sound one overlaps the one that ends furthest, and every earlier
one it overlaps, other than that, overlaps the furthest too and has been rejected.
Hence `ScanExact`. It gives `AcceptedApart` (accepted blocks do not overlap and follow one
another), on which `GapInv` rests: below the cursor of `complement` each term is in a
block or in a gap and not in both. `PlanIsPartition` follows at the end of the loop.
`FileInv` says that an accepted file is whole and processed, so that `rejectFile`
returns before it touches it: `AcceptedFilesStay`.

### LockFreeQueueProofs

From `QueueAssumption` and `PowersOfTwo` (2^Width is twice 2^(Width - 1): the provers
know nothing of exponents, and TLC evaluates it), for any number of threads and
tasks, any capacity, word size and start. The counters wrap, so their order means nothing;
but a run moves less than half a round, so each is determined by its distance from
`Start`. `E`, `D`, `Q` and `P` are the distances of the two counters, of a slot's sequence
and of a thread's position, and `RingInv` speaks of them:

* `CounterInv`: the counters are at most a capacity apart, and no push takes two positions,
  which is what bounds the run;
* `WindowInv`: each of the last `Capacity` positions is with its producer, filled, with
  its consumer, or released, and its slot's sequence tells which;
* `OwnerInv`: who has claimed a position, what is in its slot, and that it is alone there;
* `LookInv`: a position that others have passed never looks behind, and one that was found
  ready and is still the counter's is still ready.

`SlotHasOneOwner` is not inductive because the check of a sequence and the claim of a
position are two steps: `LookInv` carries the check across, and `ReadyIsFree` and
`FilledIsHead` draw the conclusion at the claim (the round before is over; the
head is filled). `SlotOfPos` shows that a wrap keeps the slots in order, `Ordered` that
`compareSequence()` orders distances. From `RingInvariant` follow `RingsAreSound`, the action
property `RefusalsTellTheTruth` and `RingImplementsFifo`: claims append and take the head, and
no other step changes `Contents`.

### AsyncProofs

From `AsyncAssumption`, for any clients, requests, threads and capacity. The inductive `IOInv`
says that a queued request is in the queue once and with nobody (`QueueInv`), that a
thread's place tells the state of its request, which no other thread has (`ThreadInv`), that
a request under way is somewhere (`PlaceInv`), that the counters are the cardinalities of what
threads have counted so far (`CountInv`), and that `shutdown()` returns after all
threads (`ClientInv`). `WriterIsSound` alone is not inductive: that everything is settled
when `shutdown()` returns rests on where each request was before the last thread left. The
reader shares the invariant; `WriterInvariant` and `ReaderInvariant` are proved action by
action, and `WritersAreSound` and `ReadersAreSound` follow.

### ProgressProofs

For any terms, threads, options and faults, in two layers. The first needs no assumption.
The reporting thread takes a sample in two steps and decides on the sample, while `main()` goes on.
`RecordInv` says that the tracker no longer moves in either case in which the thread ends:
the phase is terminal only where `main()` changes nothing any more (`PhaseInv`; `markFailed()`
leaves a terminal phase alone), and a stop is only requested while it unwinds (`StopInv`). So
a sample that ends the thread agrees with the tracker (`SampleInv`). `LastRecordsAreFinal`
and `SuccessIsLastReported` follow.

The second, `RunInv`, is about the counts, from `ProgressAssumption`. `TermsAreExact` at the end of the
calculation is not inductive: a worker adds to the counter in two steps, and what is
missing from the counter is in the blocks that wait or are in somebody's hands. So

* `TaskInv`: waiting blocks and the blocks of tasks are disjoint ranges;
* `TermInv`: counted terms and the terms of those blocks (`Left`) add up to all terms, or to
  less after a task failed;
* `CountInv`: the block and durable counters at each place of `main()`, before and after
  the first commit has counted the computed blocks;
* `FlowInv`: which phases are possible at which place, so that no transition is refused,
  and that `main()` leaves its way only after a fault;
* `SampledInv`, `DoneInv`: a sample that says completed has all terms.

The sums are cardinalities of sets of terms. What carries them is `Totals`: restored blocks and gaps
are disjoint and cover the terms, `Cut` divides a gap into exactly `boundedBlockCount` disjoint
blocks, so planned and computed blocks are equally many. `TermsAreCounted` and
`ExitStatusesAreTrue` follow from `RunInvariant`.

### StorageProofs

From `StorageAssumption`, for any number of callers and chunks and any faults,
`StorageInv` is inductive: `StorageTypeOK`, `InFlightIsExact`,
`StoresAreExclusive`, `StoresArePrivate` (a chunk being stored is not in the
index, and its file is whole when it is published), `RemovesAreLocked` and
`StoredStaysLoadable`. The last is what matters; the others are what each
operation relies on.

`DamageIsAccounted` is about what failures leave behind, any fault included, since a failed
store may leave a file, or an entry without a file (section 6). `FaultsAccountForDamage` is
not inductive: an entry that only the index on the disk has becomes one in memory at the next
restart. `DamageInv` bounds `Debt`, the entries without a file in either index and the entries
that only the published index has, by the number of faults, and files without an entry by the
stores that one fault can stop, which are at most one per thread (`InFlightIsExact`,
`CallersAreFinite`). `RemovesAreUnlinked` says that a removal between its two steps
is no damage. Each step either adds nothing (`Careful`) or is a fault and adds one chunk to
the debt (`Faulty`); `StepsAccount` goes through the steps of a call.

`OutOfCore` extends `StorageManager`, and its invariant `OutOfCoreInv` contains `StorageInv`, from
`OutOfCoreAssumption`, for any number of terms, layout, budget, threads, queue capacity, runs and
faults. `ValuesAreKept` is not inductive: a value is released on the word of a request
that another thread settled, which stored the chunk in several steps. The parts:

* `LayoutInv`: the nodes of a level are ranges in order that cover the terms;
* `RequestInv`: a request that is not settled is in the queue once or with one I/O thread;
* `CallInv`: each thread's call at the storage manager is that of its request, and the main
  thread's that of its retirement;
* `LifeInv`: the life of each node at each stage;
* `KeptInv`: a value that is not in memory, or whose spill was settled with success, has its
  chunk in the index;
* `BudgetInv`: the plan's nodes free enough bytes, and those already spilled are out.

`Evicted` takes a prefix of the nodes in the order of `Before`, and that it frees enough is
shown by looking at the last node it takes. For runs without a fault `CleanInv` adds that no
call can fail: files and index hold exactly the chunks of nodes that were spilled at this level or
wait for their retirement. From it, `FaultFreeRunsSucceed`.

### StoredResultsProofs

*Final verification.* From `VerificationAssumption`, for any digits of pi, requests, results and
contents somebody may put into the output, and any number of changes, kills and
power losses. Neither `ManifestIsEvidence` nor `RecheckIsSound` is inductive: a manifest
vouches for what stages found that ended long before it was saved. `VerifyInv` adds,
for each stage that is over, what its status says of the output as it is now, unless
the output changed since the first stage: `StructureFound`, `KnownFound`, `HashFound`,
`SamplesFound` and, for the report, `ReportFound`. Every write to the file after the first
stage clears `quiet`, so the stages' conclusions are about one content of the file.
`WorstBounds` (a report passes only if no stage is worse), `SampledAgree` and
`InspectedBytes` lead to `StagesAreEvidence`: four passed stages are the evidence
`Evident` asks for. From `VerifyInvariant` follow `ManifestsAreEvidence` and
`RechecksAreSound`. The latter needs no earlier manifest to be right: the
recheck runs all stages itself, and the stored digest ties the file to the one hashed.

*How loops are reasoned about.* The operators of this and the next paragraphs are recursive
functions. `LoopExists` and `FoldExists` prove, from the definition of functions and the
well-foundedness of the natural numbers, that a function with the recursive equation exists, so
that the `CHOOSE` behind such a definition satisfies it. What then holds of all its
values is shown by the smallest place at which it would fail (`Smallest`); no induction rule is
needed.

*Arithmetic.* From `WidthAssumption`, `PowerIsPositive` (`2^Width` is a positive number: the provers
know nothing of exponents, and TLC evaluates it) and `ArithmeticAssumption`. `ArithmeticIsExact` is
`WordsAreExact` for every width and word. Its core are facts about quotients and remainders (a product
may be reduced factor by factor; `ceil` of a product is the quotient's product and the remainder's
`ceil`) and the invariants of two loops: doubling in `multiplyModulo` and squaring in
`power16Modulo`. `Power16IsExact` has no bound on the exponent.

*Samples.* `SelectionIsSpread` is about `select` with any draws. `addUnique` keeps the list
duplicate-free, within the range and no longer than asked for, and adds what is offered while there is
room (`AddKeeps`, `TakenIsOk`). As every safe position is offered in the last loop the list is full
or holds all of them, and as the first three and the quarters are offered first they are in it.
`SamplesStaySound` adds that an interval of width one unit of the last place whose ends agree
in a digit has that digit throughout (`SameQuotient`).

*Versioned index.* From `IndexAssumption` (distinct chunks, natural times, a count with at least one
value). `IndexInv` says that each list of versions is a listing of the entries it should hold,
without repetition and in order of time, and that the saved bytes are the first fields of
the encoding of some such index (`SavedAs`), which may be older than the present one. The argument about
reading follows the reader through the encoding: `Offset` is where the writer put the i-th chunk,
and `ReadTo` says that the reader has refused the bytes, or stands at the writer's offset, or
stands on a version because a count did not fit, where the next round refuses. So what is accepted
is the whole encoding unless a count did not fit (`AcceptedLength`), it is read back list by list
(`ReadBack`), and a whole one that fits is accepted (`WholeIsAccepted`). `IndexStaysWhole` follows.

*Numbers and their digits.* `Value` is the number that digits in some base stand for, by the loop
that reads them. `LeadingDigits` (dividing by a power drops as many digits) gives `DigitsOfValue`,
the digits read off again, and `ValueOfDigits`, the number read again: the two directions on which
the records and the rounding rest. `PowerOfSum` is the law of exponents.

*Records.* From `RecordAssumption` (a radix of at least two, integers, and a payload bound that is a
word) and `RejectedAssumption` (what a failed decoder returns is neither bytes nor three integers).
`ExportImport` and `ImportExport` say that an integer and its sign and magnitude bytes determine
each other, `PartsOfJoin` and `JoinOfParts` that the payload and its three magnitudes do. `RecordInv`
says that a record has the fields of its format however it was altered (`FitsKeeps`,
`AlteredIsWellFormed`) and is `Intact` until then. `IntactIsDecoded` is the one half of
`RecordsAreExact`: what is written is read. `AcceptedBlock` and `AcceptedChunk` are the other:
the checks of a decoder leave no field free that the content does not determine, except, in a
compressed chunk, the payload the compressor chose, its size and the checksum over them.

*Clean runs.* From `VerificationAssumption` and `PiAssumption`. `RoundingIs` is that adding half
a unit and dividing rounds up exactly if the next digit is 5 or more; `RoundedUpIs` and
`RoundedUpValue` that the carry of `expectedPrefix` through nines adds one. So `RightDecimalIs`: the
rounded quotient has the digits of the rounded prefix, and `ExpectedIs`: it begins with what
`KnownDigitsVerifier` expects, below and above the size of the reference. `ScaledIsNear` and
`SampleQuotient` show that pi lies in the interval the extractor looks at, so a digit that is the
same at both its ends is that of pi (`RightSample`), and `SamplesPass`. `CleanInv` says that in a
run where nothing went wrong a right decimal has passed every stage so far; it is needed because
`CleanRunPublishes` speaks only of the end. What `VerificationManifest::validate` checks after
that is the order of the samples, which the policy's `IsSpread` gives, and the name of the output:
`CleanPublishable` says that a manifest can be made if and only if the name is plain, and
`CleanRunsPublish` states what a clean run comes to under each of the options, the two
of section 6 included.

### Only model-checked

All liveness (`CallsReturn`, `ServiceSpec`'s fairness, `ComputationEnds`, `RunEnds`,
`CliEnds`, `RequestsAreSettled`): TLAPS does not reason about fairness and `ENABLED`.
The facts about pi are assumptions: TLC evaluates them for the digits of the run.

## 6 Findings

Two runs have a counterexample; `PROJECT.json` quotes the lines.

* `out_of_core_resume`: chunks a killed run leaves in the index make the resumed run's spill of
  the same or an overlapping range fail, on every attempt.
* `storage_index_sync`: `AtomicFileCommit` syncs the directory after the rename
  (`AtomicFileCommit.cpp:212`). When that sync fails for the chunk index, `store` takes the
  index for unpublished and deletes the chunk file (`StorageManager.cpp:72`), and the index on
  the disk names a chunk that has no file. `docs/DECISIONS.md:1101` says that the published index
  remains unchanged. After a restart the chunk cannot be loaded, cannot be stored again
  (it is a duplicate), and `remove` returns false and leaves the entry.
  `directories` and `out_of_core_faults` include that fault.

Two ways in which a clean run with the right decimal does not leave its result are in the statement
of `CleanRunPublishes`, with the options that lead there, and so in `stored_results` and in the
theorem `CleanRunsPublish`:

* `Config` only requires that the output name is not empty (`Config.cpp:73`), and a name with a
  backslash is an ordinary one on POSIX. `VerificationManifest::fromRun` refuses it
  (`VerificationManifest.cpp:74`), after the calculation and the four stages, and the run
  ends as failed. The same holds of file names with 256 bytes or more where a file system allows
  them. `README.md:237-238` of the repository says without exception that the program calculates pi,
  records it, verifies it and saves the manifest.
* Nothing keeps `--verification-manifest` from naming the output (`main.cpp:346-364`). The run
  completes, and where it wrote the decimal there is the manifest of a file that is gone.

Other observations made while modelling, without a run of their own:

* For a checkpoint manifest a failing sync of the directory after the rename is harmless:
  resume is right with either manifest.
* `AsyncChunkWriter::cancel` makes room in the queue and does not notify
  `queueChanged_`: with two clients, one may wait beside room for ever. `pi-engine` has
  one client.
* The counters of the writer are updated after `wait()` can return.
* A worker that calls `stop` from a task body joins itself (`Worker.cpp:81`); the
  splitter never does.
* When a block that `submit` refused is computed by the coordinator and throws, the frame
  with the slots and handles unwinds while tasks still refer to it
  (`BinarySplitter.cpp:531`).
* `position % capacity_` jumps at the wrap of the counter when 2^64 is not a multiple of
  the capacity (`LockFreeQueue.cpp:105`); `LockFreeQueue` assumes that it is.
* `StoragePolicy`'s `parseBytes` looks for `B` before `KB`, `MB` and `GB`, which all contain
  it, so that the multiplier is always 1 (`StoragePolicy.cpp:252`).
* Each stage of the final verification opens the output again. A manifest published while
  somebody changes the output between the stages may vouch for bytes that no stage but the
  hash saw; a later recheck refuses it unless it is disturbed in the same way.
* The manifest is synced and the output is not: after a power loss a valid manifest may
  stand beside a cut output. `RecheckIsSound` says that a recheck refuses it.
* `VersionedChunkIndex::addVersion` validates no identity, so an index can be saved that
  cannot be loaded; and the count of versions is stored in 16 bits, so one with 65536
  versions of a chunk is refused, or, if cut, read with fewer.

## 7 What is not modelled, and why

* P, Q, T, GMP, fixed-point finalization, modular residues: integers of unbounded size. A
  value is determined by its range.
* SHA-256, CRC32C and LZ4 themselves, and the offsets of fields in the byte formats; the
  texts of the two manifests. Checkpoint and chunk files are whole, damaged
  or absent in the modules of the protocols; `RecordFormats` says what the decoders make
  of damage.
* `verifyMemory` and `CanonicalDecimal`, which `pi-engine` does not call; the
  floating-point error bound of the BBP series.
* `StoragePolicy`: validated options and their texts. Reporters and metrics: text and rates;
  in `Progress` a report is written or fails.
* Command line and configuration, platform probing, and the memory allocators, which only
  tests use.
* Weak memory orders of the ring. Maintenance calls of the chunk store that
  `pi-engine` never makes. Files of another identity in a checkpoint directory.

## 8 Plan

Done: every component of section 1 that is marked as modelled, and proofs of every safety property
that a run checks. In this order, next:

1. **Resume as a refinement**: `ResumePlanner`'s plan shown to be the one
   `CheckpointFrontier` takes in one step.
2. **Policies**: the round trip of `StoragePolicy`'s texts, the options
   `CommandLine` accepts together.
3. **Memory pool and arena**: blocks in use and free, reuse, growth.
