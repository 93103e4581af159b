# fk-prof recorder: TLA+ specifications, model checks and proofs

fk-prof's recorder is a JVMTI agent. A profiling timer sends SIGPROF to the
threads of the JVM; the signal handler walks the stack of the thread it
interrupts and pushes a sample into a lock-free queue; a processor thread pops
the samples and writes them to a log. A registry of threads tells the handler
whose sample it is. All of the code is in `recorder/src/main/cpp`; paths below
are relative to it.

This directory models that program in TLA+, checks it with TLC on small
instances, and proves with TLAPS, for all values of the constants, every safety
property that the passing runs check. `PROJECT.json` lists components, runs,
mutants, the source lines of every definition, findings, hazards and theorems.

## Inventory

| Component | State | Operations | Interacts with | Correct when |
|---|---|---|---|---|
| `CircularQueue` | `input`, `output`, slots with a commit flag, frames | `push` (handlers), `pop` (processor) | `LogWriter::record` as listener | samples come out once, unaltered, in order; no slot in two hands |
| `Profiler` | two configurations, log, writer, buffer, processor, handler, `ongoingConf` | `start`, `stop`, setters, `configure`, `handle` | all of the below | objects live while used, one consumer, settings as reported, strings freed once |
| `Processor` | `isRunning_`, `workerDone` | `start`, `stop`, `run` | queue, `SignalHandler` | `stop` returns, and nothing is touched afterwards |
| `SignalHandler` | `currentInterval`, a static `itimerval`, the kernel's timer and disposition | `updateSigprofInterval`, `stopSigprof`, `SetAction` | called by callers and by the processor thread without a lock | SIGPROF never meets its default action |
| `ThreadMap`, `ThreadBucket` | map from `JNIEnv` to bucket, reference counts | `put`, `get` (in the handler), `remove` | concurrent map, GC, queue (samples hold buckets) | a bucket lives while anybody refers to it |
| `GC` | epochs, `remaining`, two lists of garbage | `attachThread`, `detachThread`, `safepoint`, `ss_safepoint`, `scheduleDelete` | called with a mutex, and by handlers without | no table is deleted under a reader |
| hash table primitives | cells with hash, value, offset of the next; `freeBuckets` | `find`, `insertOrUpdate`, the map's `put`, `get`, `remove` | threads and handlers | what was stored is found, chains are released |
| `Migration`, `JobCoordinator` | sources, chunks, `state`, `unitsRemaining`, a job pointer in each table | `participate`, `run`, `migrateRange`, `finishMigration` | hash tables, GC | each job is concluded once with everything moved, no table leaks or is deleted twice |
| `Controller` | `isRunning_`, a socket | `start`, `stop`, `run`, commands | `Profiler` | commands do what they name and are served |
| agent entry points | `CONFIGURATION`, the global objects | `Agent_OnLoad`, `OnVMInit`, `OnThreadStart`, `OnThreadEnd`, `OnVMDeath`, `Agent_OnUnload` | all | options arrive, registration before use, a dying JVM leaves no profiler running |
| control API (`control.cpp`) | none | one function per operation of `Profiler` | `Profiler`, from any Java thread | calls are serialised |
| `LogWriter` | known methods, output stream | `record`, `inspectMethod`, `bci2line` | queue, buckets | a log can be read: methods are announced, lines are right |
| `ProfileWriter`, `Checksum` | buffer, offset, capacity, running checksum | `write_header`, `append_wse`, `flush` | protobuf | never writes past the buffer, nothing is lost or torn |

What is hard in this code: signal handlers interrupt threads at any point and
may not lock; the queue and the map synchronise by single atomic accesses; the
timer is programmed by two threads through one static struct; memory is
reclaimed by counting threads that may be interrupted while they count; 
starting again deletes what handlers of the last period may still use; and a
JVM that dies, the controller's clients and Java threads all call the profiler
at once.

## Modules

```
SampleQueue  <== implemented by ==  CircularQueue  <-- CircularQueueProofs
Options <-- ProfilerControl  <== implemented by ==  Profiler (EXTENDS Options)  <-- ProfilerProofs
                   ^-- Agent (EXTENDS ProfilerControl)  <-- AgentProofs
ThreadMap    tables and buckets: life time, epochs      <-- ThreadMapProofs
Migration    jobs that replace a table                  <-- MigrationProofs
HashTable    cells of one table                         <-- HashTableProofs
LogWriter, ProfileWriter                                <-- WriterProofs
Induction    used by AgentProofs and WriterProofs
```

The theorems about a module are in its Proofs module (see Proofs below).

- **SampleQueue**: what a buffer promises, an abstract bounded FIFO with a
  listener.
- **CircularQueue** (`circular_queue.*`): every load, compare-exchange and
  store of `push` and `pop` is an action (`PushCall` loads `input`, `PushFull`
  and `PushRoom` load `output`, `PushClaim` and `PushRetry` are the exchange,
  `write`, `PushInfo` and `PushCommit` fill and publish the slot; `PopBegin` ...
  `PopAdvance` are the consumer). `Abstract` maps it to SampleQueue: a sample is
  accepted when its slot is claimed. **CircularQueueProofs** holds the theorems.
- **Options** (`ConfigurationOptions`, and the validation in the setters): what
  the setters make of their arguments, and what valid settings are.
- **ProfilerControl**: what the public interface of `Profiler` promises: one
  caller at a time, settings that change only while it is stopped, a profiler
  that works with the settings of its start.
- **Profiler** (`profiler.*`, `processor.*`, `signal_handler.*`): the composed
  life cycle. `section` says where the holder of `ongoingConf` is in `start` or
  `stop`; `wpc` is the processor thread, `hpc` the handler on each thread,
  `upd` the progress of anybody in `updateSigprofInterval`. Objects are
  identities, so that a stale pointer can be told from the current one, and
  path strings are addresses in a small heap. `Control` maps it to
  ProfilerControl: `busy` is read off `section`, `settings` is what the getters
  report, and `used` is put together from what the running objects were made
  with (the interval of the copied configuration, the frames of the buffer, the
  open file).
- **Agent** (`agent.cpp`, `controller.*`, `control.cpp`): everybody who calls
  the profiler, on top of ProfilerControl. `call` is the operation that each
  caller waits with for `ongoingConf`, `holder` the one inside; `vm` is how far
  the JVM is, `ctl` the controller's thread. `parseArguments` goes
  through the options, which are pairs of key and value, one round of its loop
  (`WithOption`) for each; the precedence of keys that are prefixes of others is
  modelled, their characters are not.
- **ThreadMap** (`thread_map.h`, class `GC` and the table replacement in
  `concurrent_map.h`, `OnThreadStart` and `OnThreadEnd` in `agent.cpp`): the
  map is abstract, the life time of tables and buckets is detailed. `put` and
  `remove` look at the cell of their key in the table they loaded and then
  exchange its value, two steps between which the cell may be moved: `PutLost`
  is the update that takes the migration's mark for the old value, which
  `ThreadMapBase::put` releases as a bucket ("crashed": the process ends), and
  `RemoveLost` the removal that gives up and leaves its bucket, still attached,
  in the map. Handlers interleave with everything but the thread they interrupt.
  Threads in `Unmasked` can be interrupted while they register, the others only
  after that.
- **Migration** (`JobCoordinator`, class `Migration`, `migrationStart`,
  `finishMigration` and the destructors in `concurrent_map.h`): job j fills
  table j. `state` is the code's: two for each participant and one when done.
  `me` holds the locals of every thread. Emptying a chunk is one step that
  succeeds or overflows.
- **HashTable** (`find`, `insertOrUpdate`, `migrateRange` and the provider's
  operations in `concurrent_map.h`): one table, one step per access to a cell.
- **LogWriter** (`log_writer.*`): `output` is the sequence of records in the
  log. `bci2line` is the halving search (`approximate`) and the scan that
  follows it (`scanFrom`), as recursive functions of their locals.
- **ProfileWriter** (`profile_writer.h`, `checksum.*`): the buffer in pieces
  (version, length, object, checksum) and bytes, with 32-bit arithmetic modulo
  `Word`.
- **Induction**: what the proofs about those functions need: least elements,
  induction by a measure, and that a loop which descends has a result.
- **MCCircularQueue, MCProfiler, MCLifecycle, MCThreadMap, MCMigration,
  MCHashTable, MCAgent**: instances. Profiler and the two writers share no
  variables, so MCLifecycle checks them in one run: each of its behaviours is one
  of Profiler, of LogWriter or of ProfileWriter, and the other two stay in an
  initial state.

A definition named in a comment as a mutant (`Mutant of X`) is not part of any
specification: it is X with a plausible bug, used to see that a property can
fail.

### Points of fidelity

- Threads are sequentially consistent in the model. The code uses relaxed and
  acquire/release accesses; on x86, the platform it is built for, the orders
  that matter here are kept by the hardware, compiler reordering aside.
- `workerDone` is uninitialised before the first `start`: any Boolean.
- `setitimer` may fail at any call, `RunAgentThread` may fail where
  `SpawnResults` has FALSE. `sigaction` cannot fail with the arguments used.
- In `handle`, `env_id` is uninitialised when the thread has no `JNIEnv`; the
  queue takes any sample, so this is covered by its `Samples`.
- The thread events are enabled only where `GETENV_NEW_THREAD_ASYNC_UNSAFE` is
  defined (`agent.cpp` lines 12 to 14: Apple and FreeBSD). ThreadMap describes
  that build; elsewhere the map stays empty.
- The new table of a migration is written by one migrator in one step per
  value in HashTable. An overflow of it restarts the pass over all cells, as
  the follow-up job does.
- `GC::kEpochInitial` is the largest unsigned value, so a detached bucket is
  never behind (`Behind`).
- In Migration, whether a destination overflows is a free choice for each chunk
  that is not empty yet; the sizes of tables made by `migrationStart` are chosen
  from `Sizes` and twice the old size. A step that would follow the `nullptr` of
  a source that was handed over is no step; `SourcesPresent` says that there is
  none to take. That nobody works on a retired table when it is deleted
  (`Delete`) is what ThreadMap shows of the epochs.
- Agent covers both builds (`asyncUnsafe`): the thread events, and with them
  the option `start`, exist only with `GETENV_NEW_THREAD_ASYNC_UNSAFE`, the
  controller only without. When capabilities are missing `Agent_OnLoad` returns
  0 and the JVM goes on without a profiler ("degraded"); calls and
  `Agent_OnUnload` then follow a null pointer ("crashed").
- In the option string, the value of a key is what follows the next `=`, which
  belongs to a later key when this one has none. For the string options the
  length of the copy is then negative: such strings are not among
  `OptionStrings`.
- Agent takes each caller's start or stop in the steps of ProfilerControl, so
  it inherits what Profiler is shown to implement.
- LogWriter: line number tables are sorted, as the code assumes, but several
  entries may begin at the same place. The entry that ends the binary search
  early is the one at which the scan would stop, so `approximate` returns its
  index.
  `GetLineNumberTable` and the lookup of names may fail at every call.
- ProfileWriter: callers write the header first (`append_wse` does not check).
  `BuffAssumption` keeps `3 * (size + MIN_FREE_BUFF)` below 2^32; the code does
  not check that either. Write errors of the underlying stream are not looked at
  by the code and not modelled.
- The destructor of `Profiler` checks nothing, and `Unload` (in ProfilerControl
  `Destroy`) is enabled whenever there is a profiler. That it is stopped and no
  handler runs is the assumption `QuietUnload` (`DestroyUnused`), see below.
- Hash values are the keys. The code says "Hasher assumed to be collision
  free"; `PointerHasher` folds a pointer, which is not injective in general.

## Assumptions on scheduling

Five assumptions separate what the code ensures from what it relies on. Each is
a definition that restricts the steps of the code in `Next`; `CodeSpec` is the
code alone.

- `NoLap` (CircularQueue): while a handler is between its load of `input` and
  its compare-exchange, the others do not claim `Capacity` slots. Without it:
  run QueueLap.
- `QuietStart` (Profiler): when a profiler is started with a new configuration,
  the handlers of the last period have returned. Without it: run InFlight.
- `QuietUnload` (Profiler): Agent_OnUnload finds a profiler that is stopped, with
  nobody in `start` or `stop` and no handler running. The JVM calls OnVMDeath,
  which stops the profiler, before; nothing in the code waits for handlers. What
  happens to the objects after `delete` is outside the model, so there is no run
  without it.
- `Prompt` (Migration): nobody is between the test of `state` and the
  `fetch_add` on it when the last participant leaves. Without it: run
  FinishTwice.
- `Undisturbed` (ThreadMap): a thread that registers with SIGPROF unblocked is
  not interrupted while it helps to migrate the table, nor in `safepoint` between
  the comparison and the update of its epoch. It may be interrupted everywhere
  else, `put` and the rest of the GC included. Threads started from Java have
  SIGPROF blocked by `JVM_StartThread_Interposer`; the main thread and native
  threads that attach do not. Without it: runs HandlerSpins and CountedTwice.

## Runs

| Run | Module, configuration | States | Shows |
|---|---|---|---|
| Queue | MCCircularQueue, `MCCircularQueue.cfg` | 296,095 | `TypeOK`, `SlotExclusive`, `CantReadMeansEmpty`, `FreeSlotsClean`, `UnreadKept`, refinement of SampleQueue (`FifoExactlyOnce`), and `ClaimedIsRecorded` under fairness |
| QueueLap | MCCircularQueue, `CircularQueueLap.cfg` | | without `NoLap` a full queue is overrun (violation of `CantReadMeansEmpty`) |
| Lifecycle | MCLifecycle, `ProfilerLifecycle.cfg` | 2,902,559 | of Profiler `OneConsumer`, `WorkerObjectsAlive`, `NeverKilled`, `StringsOwned`, `HandlerSafe`, refinement of ProfilerControl (`KeepsPromise`); of the writers `LinesRight`, `MethodsAnnounced`, `WithinBuffer`, `ReadBack` |
| Stops | MCProfiler, `ProfilerStops.cfg` | 19,542 | `StopReturns` under fairness, also when threads cannot be created |
| InFlight | MCProfiler, `ProfilerInFlight.cfg` | | without `QuietStart` a handler pushes into a deleted buffer (violation of `PushesToLive`) |
| Threads | MCThreadMap, `ThreadMapSafe.cfg` | 893,196 | `TablesAlive`, `BucketsAlive`, `EpochWaits`, and `HandlerReturns` under fairness, with an unmasked thread and threads that could not be registered |
| HandlerSpins | MCThreadMap, `ThreadMapSpins.cfg` | | without `Undisturbed` the handler waits for ever for the migration that it has interrupted (violation of `HandlerReturns`) |
| CountedTwice | MCThreadMap, `ThreadMapTwice.cfg` | | without `Undisturbed` a thread is counted off twice and the epoch moves too early (violation of `EpochWaits`) |
| Table | MCHashTable, `MCHashTable.cfg` | 563,225 | `OneCellPerKey`, `BucketsAccounted`, `ChainsReleased`, `OwnerFinds`, `StoredFound`, `NothingLeftBehind` while the table is migrated, and `OpsReturn` under fairness |
| Jobs | MCMigration, `MigrationJobs.cfg` | 324,228 | `TypeOK`, `FinishedOnce`, `SourcesPresent`, `PublishedComplete`, `DeletedOnce`, `NothingLeaks`, and `OpsReturn` under fairness |
| FinishTwice | MCMigration, `MigrationTwice.cfg` | | without `Prompt` a late participant concludes a migration again (violation of `FinishedOnce`) |
| Agent | MCAgent, `Agent.cfg` | 555,144 | `DeathStops`, `SetKeepsOther`, `OptionsTakenOver`, and `CommandsServed` under fairness |

`TypeOK` in Profiler, ThreadMap and HashTable is a theorem (`TypeCorrect` of
each); no run has it as a property of its own. What Lifecycle checks of a writer
is about a behaviour of its `LogSpec` or `FileSpec`, which WriterProofs is about
too.

`DeathStops` and `SetKeepsOther` have an exception each, kept in a history
variable. `late`: a start that takes the lock after OnVMDeath has let go of it
is not stopped by anybody. `overtaken`: the controller reads one bound of the
interval without the lock, and another caller may set both before its turn.
`StoredFound` excepts keys in `missed`: their update or removal met the
migration's mark at its exchange and was given up as if another call had come
first. `TablesAlive` speaks of registered threads (`info`): see the unregistered
readers under What the runs found.

### Bounds

- Queue: two producers and a queue of two samples wrap the ring many times and
  let both producers race for one slot; three kinds of traces (two frames, one
  frame, a failed walk) make padding and copying matter. The theorems cover all
  other sizes.
- Lifecycle: two worker identities (enough for an overlap), two addresses
  (enough for the two configurations), one thread in the handler, a value that
  each setter replaces or swaps, and `PopLimit` 0, so that the worker sets a new
  interval after one sample instead of 201.
- Threads: a thread that registers masked and one that does not; two buckets (a
  bucket can still be queued when its thread has started anew), two tables,
  epochs up to `MaxEpoch`: a table is freed two epochs after it was retired.
  `MaxEpoch` stops new threads, not the epochs. `MaxTotal` stops them too:
  removals that gave up leave `totalThreads` too high, without bound. `MaxRefs`
  stops signals when samples that were rejected have leaked references.
- HandlerSpins, CountedTwice: the same with the first epoch only and without
  failures of `GetThreadInfo`.
- Table: four cells of which three may be used (the code's 75%). The table has
  been in use (`UsedInit`): k0 was stored and removed, which leaves its cell
  taken. k1 and k2 share its chain, which wraps round the end, and k3's begins
  where that one goes on, so that two threads race for one cell, chains become
  too long and the table full. It is migrated from the start on, and the new one
  may overflow. `MaxOps` operations in all. Larger tables and longer chains are
  left to the theorems.
- Jobs: three jobs allow two overflows in a row, an overflow followed by a
  success and a further migration, and three migrations one after the other. The
  first table has one chunk, its successors two or more, so that participants
  share a source and go on to the next one.
- Agent: `MaxCalls` API calls by two Java threads; the controller serves any
  number of commands. Option strings have up to three options, each numeric key
  with a valid value and with one that is replaced by the default.
- Writers (in Lifecycle): all sorted tables of up to four entries with starts in
  {1, 2, 4}, equal ones included, against byte code indices on and between them;
  two methods, up to `MaxRecords` records before the last trace. Messages of 0, 3
  and 20 bytes against a buffer of 24 of which 8 are kept free: the last does not
  fit even when the buffer is empty, so that it is replaced by a larger one.
  `Word` is the smallest value that `BuffAssumption` admits for them.
- `CHECK_DEADLOCK FALSE` is set where the program may stop: all threads have
  ended (ThreadMap), nobody calls any more (HashTable, Agent), the profiler is
  destroyed, or the processor thread could not be created and `stop` spins
  (Profiler).

### Fairness

- Queue: a handler that has claimed a slot finishes `push` (the kernel schedules
  it), and `Processor::run` calls `pop` again. Nobody has to push.
- Stops: the holder of `ongoingConf` and the processor thread are scheduled.
  `StopReturns` has the antecedent `PassesEnd`, since a queue that fills as fast
  as it is drained keeps `run` in its inner loop.
- Threads: threads inside `OnThreadStart`, `OnThreadEnd` and
  handlers are scheduled; no thread has to start or end.
- Table and Jobs: a thread inside an operation is scheduled.
- HandlerSpins (`FairCodeSpec`): also a thread that is interrupted again and
  again gets on with its own steps, because the timer's period is longer than a
  handler; this is the only strong fairness. CountedTwice, like the other
  violations, is one of safety and needs none.
- Agent: the caller inside `start` gets on, and a caller waiting for the spin
  lock gets it when it stays free. Of `stop` nothing is assumed, since it spins
  for ever when the processor thread was not created (Stops excepts that too):
  `CommandsServed` has the antecedent `StopsReturn`, that every stop under way
  ends. The lock is not fair, so `CommandsServed` also rests on the others making
  finitely many calls. No client has to connect and the JVM need not end.

Fairness is weak but for `FairCodeSpec`: no property that holds needs that an
action which is enabled only now and then is taken.

## What the runs found

Details with quotations are in `PROJECT.json`, "findings".

1. QueueLap: `push` is open to an ABA on `input`; after it the whole queue is
   taken for empty and slots are shared.
2. InFlight: a handler enters before `stop`; the next `start` replaces the
   configuration and deletes the buffer that the handler has loaded and pushes
   into.
3. FinishTwice: `Migration::run` tests `state` before it adds itself; a thread
   in between when the last participant leaves concludes the migration again,
   and the table just published is scheduled for deletion.
4. HandlerSpins: a handler that interrupts an unmasked thread in the middle of a
   migration spins on the cell that was moved, until that thread publishes the
   new table, which it cannot do before the handler has returned.
5. CountedTwice: `safepoint` compares the thread's epoch with the global one and
   updates it later; the handler of the same thread in between does the same
   again. `remaining` is decremented twice and the epoch moves although another
   thread is behind.

Seen while modelling and not given a run:

- `push` with a stale index returns false on a queue that is not full, even an
  empty one; a sample that the queue rejects keeps its bucket's reference.
- `stop` does not return after `RunAgentThread` has failed: `Stoppable` in
  `StopReturns` is that exception. A failing `setitimer` ends the worker while
  `isRunning_` stays set.
- The frames array of `handle` is as long as the limit was when the handler
  entered, and it is filled up to the limit at the call of AsyncGetCallTrace; a
  `start` in between that raises the limit lets it overflow. `QuietStart`
  excludes this as well (`FramesFit` in `HandlerSafe`).
- The first `put` of a thread can find the cell of an earlier one that had the
  same `JNIEnv`; if that cell is moved between the look and the exchange,
  `insertOrUpdate` returns the mark `MapValMove` as the old value, and
  `ThreadMapBase::put` releases it as a bucket ("crashed" in ThreadMap).
- A removal that meets the migration at its exchange gives up and leaves its
  bucket in the map and in `totalThreads`. Nobody passes a safepoint with it until
  its `JNIEnv` is used again, so the epoch stops and nothing is reclaimed.
- Threads that GetThreadInfo did not know, and the main thread between the start
  of the profiler and its own `put`, look tables up without being attached; no
  epoch waits for them. `TablesAlive` does not speak of them.
- `newEpoch` stores the new epoch before it resets `remaining`: a handler in
  between is counted off the old count and waited for in the new one for ever.
- Two threads that insert the same key (which ThreadMap does not do) leave a
  chain reserved for ever. `migrateRange` has no case for
  `INSERT_HELP_MIGRATION` of its destination.
- A comment on `bci2line` asks for the nearest entry with a start location
  `>= BCI`; the code finds the last one that is `<=`, which is the right one.
- `log_writer.h` defines `ERR_NO_LINE_FOUND` as -101; `bci2line` returns -101
  for an empty table and the number -102 when no entry covers the index.
- `append_wse` does not look whether the header was written; the buffer of
  `ProfileWriter`, an array, is released with `delete`.
- After `stop`, the controller stays in `accept` until another client comes.
  `Agent_OnUnload` deletes the objects that its thread uses.

## Proofs

The theorems hold for every value of the constants that satisfies the named
assumptions: any number of threads, callers, keys, tables, sizes and requests.
Each module about a component but WriterProofs proves an inductive invariant
`IndInv`, a conjunction of named parts (`Invariance`), and the rest from it; there
is a lemma for every action or group of actions, with a step for each part that
the action can disturb. TLC finds each of these invariants true on the constants
of a run (WriterProofs' `BufferInv`, `FileInv` and `LogInv` without their type
conjuncts).

| module | theorems |
| --- | --- |
| CircularQueueProofs | `TypeCorrect`, `Exclusion` (`SlotExclusive`), `EmptyIsEmpty` (`CantReadMeansEmpty`), `Padding` (`FreeSlotsClean`), `NoOverwrite` (`UnreadKept`), `Refinement` (`FifoExactlyOnce`) |
| ProfilerProofs | `TypeCorrect`, `SingleConsumer` (`OneConsumer`), `WorkerSafety` (`WorkerObjectsAlive`), `Survival` (`NeverKilled`), `StringSafety` (`StringsOwned`), `HandlerSafety` (`HandlerSafe`), `Refinement` (`KeepsPromise`); if threads can be created also `StopNotStranded` |
| HashTableProofs | `TypeCorrect`, `UniqueCells` (`OneCellPerKey`), `BucketsExact` (`BucketsAccounted`), `ChainsOwned` (`ChainsReleased`), `TableEmptied` (`NothingLeftBehind`), `OwnWrites` (`OwnerFinds`), `StoredIsFound` (`StoredFound`) |
| MigrationProofs | `TypeCorrect`, `ConcludedOnce` (`FinishedOnce`), `SourcesHeld` (`SourcesPresent`), `Complete` (`PublishedComplete`), `NoDoubleDelete` (`DeletedOnce`), `NoLeak` (`NothingLeaks`), `NoLostWait` |
| ThreadMapProofs | `Structure`, `TypeCorrect`, `BucketSafety` (`BucketsAlive`), `MigrationCarried`, `TableSafety` (`TablesAlive`), `EpochsWait` (`EpochWaits`), `NoCircularWait` |
| WriterProofs | `WithinBufferAlways`, `ReadBackAlways`, `MethodsAnnouncedAlways`, `LinesAlwaysRight` (`LinesRight`) |
| AgentProofs | `DeathSafety` (`DeathStops`), `BoundsKept` (`SetKeepsOther`), `OptionsArrive` (`OptionsTakenOver`) |
| Induction | lemmas only |

**CircularQueue.** `SlotExclusive` does not say why a claim cannot hit a slot in
use; `IndInv` does: slots in use are exactly those between `output` and `input`
(`InRing`, in `ClaimInv` and `ConsumerInv`), and a producer whose exchange would
succeed has seen room that is still there (`RoomInv`). `RoomInv` is where
`NoLap` is needed: without it an index can be `input` again a lap later, when
there is no room. `PaddingInv` follows the zeroing of frames from slot to slot.
The arithmetic of the ring is in four lemmas (`AdvanceWraps`,
`AdvanceInjective`, `ClaimGrowsRing`, `PopShrinksRing`). For the refinement
`SampleInv` adds that a push finds in its slot what it has written (`Filled`) and
that what is published was pushed. A claim is then `Accept`, the call of the
listener `Record`, the last store of `pop` `Release`, and every other step leaves
the held samples alone: `InOrder` gives their slots, `Stands` what each slot
stands for. Assumed: `Size` is at
least 1, `nullptr` is a possible bucket and environment, a cleared frame is no
real one, `NoSample` is none of the samples, and a trace has at most `maxFrames`
frames, which is what `handle` asks AsyncGetCallTrace for.

**Profiler.** That two processor threads never overlap depends on where the
holder of `ongoingConf` is, on `workerDone` and on `isRunning` at once:
`WorkerInv` ties them together, `PhaseInv` says what holds in each section, and
`ReferenceInv` which objects point to which while `configure` replaces them.
`NeverKilled` needs more than the order in `start`, because the processor thread
programs the timer too: `DispositionInv` says that before the first installation
nobody is in `updateSigprofInterval` and no processor thread runs. `SettingsInv`
(the copy equals the live configuration unless `reloadConfig` or `needsUpdate`
says otherwise) is what the refinement rests on: every action is shown to be a
step of ProfilerControl or to leave its variables alone. `HandlerSafe` is proved
of `Spec`, which has `QuietStart` and `QuietUnload`; without the first run
InFlight refutes its part `PushesToLive`. `IdentityAssumption` says that the
names of pointers, files and actors are different things.

**HashTable.** A walk that runs off its chain must not have passed the cell of
its key by. `Chained` says that every cell is reached from the home of its key by
following links, `OnChain` the same of every put under way, and `Ahead` that the
cell of a key lies ahead of its writer as long as that is looking for it;
reachability is expressed with sets closed under links, so that no recursion is
needed. `ExtendInv` gives the last cell of a chain to the one thread that marked
it, and `Unallocated` says that its key has no cell yet: that is why a key does
not get a second one. `ClaimInv` counts the reservations, `MigrationInv` says how
far `migrateRange` has left its marks. `StoredFound` needs a second invariant,
`ValueInv`: the only value of a key is the one stored last, also while the next
call on it is under way; what a call has loaded is still there at its exchange
unless the cell was marked (`Loaded`), and an overflow puts the same value back;
what is in the next table has left a mark in this one (`Evacuated`).
`WriterAssumption` (a key has one writer:
ThreadMap puts and removes the entry of a thread on that thread) is used in the
steps that begin a call, claim a cell and exchange a value; two writers of one
key are outside these theorems.

**Migration.** `state` counts participants, and a job is concluded by the one
that takes the last two away (`CountInv`, `ConcludeInv`). The tables between the
map's and the newest are the sources of the open job, each with its chunks
moved, claimed by somebody or still to be claimed (`OpenInv`, `HoldInv`,
`WorkInv`); from that a job that is done has emptied all of them, whether or not
jobs before it overflowed. `RootsInv`, `RetireInv` and `DeleteInv` follow a table
from its replacement to its deletion. All of it is of `Spec`, which assumes
`Prompt`; without it run FinishTwice refutes `FinishedOnce`, and with it the
invariant.

**ThreadMap.** `StructInv` gives the life of buckets: `refs` is at least the
number of holders (`BucketInv`), the mutex is held by whoever is inside the GC
(`MutexInv`), and `totalThreads` is at least the number of attached buckets
(`TotalInv`); not equal to it, because a `put` over a bucket that a removal has
left behind releases that without detaching it. For the same reason the sets
that are counted are of buckets, not of threads. That tables outlive their users
is a matter of counting: `remaining` is never less than the number of attached
buckets behind the global epoch that are not counted off yet (`PendingSet`),
except while it is being reset (`EpochInv`), and a registered thread that uses a
retired table has one of these buckets (`GarbageInv`). Nothing is assumed of
`Unmasked`: handlers interrupt any thread that registers unmasked, in `put` and
in the GC, and `PlaceInv` says what a handler finds there. Only `Undisturbed`,
which is in `Spec`, is needed; run CountedTwice refutes `EpochInv`'s count without
it.

**Writers.** `Fits` bounds the capacity, so that no sum in `append_wse` wraps in
`Word`; with it offset and capacity keep their order (`BufferInv`). `FileInv` says
piece by piece what file and buffer hold. `LogInv` says of every known method
where its only announcement is: no later than right after the first frame that
names it. `BuffAssumption` keeps messages so small that no sum wraps, which the
code does not check.

`LinesAlwaysRight` is about tables of any length. The domain of the binary search
is its loop invariant: `start_index + 2 * half` is within the table. `SearchDefined`
shows that the search ends, `ApproximateBefore` that no entry before the index it
returns is after `bci`, and `ScanRight`, by induction over the entries still to
be scanned, that the scan then finds an entry that begins at `bci`, or else the
last one before it. `TablesSorted` carries the assumption of the code on tables
through the behaviour.

**Agent.** `DeathInv` splits on OnVMDeath's last look: after it only a start that
is marked `late` leaves the profiler running. `CommandInv` says what the bound that
the controller has read still means. `CallerAssumption`: JNI callers are not the
controller or the JVM. `OptionsArrive` is about option strings of any length in
which every key has a value: `ParsedMore` says that after i rounds each setting
is the last value named for it among the first i options (`Parsed`), and
`ParsedAll` concludes by induction. `StringAssumption`: option strings are
sequences, and no value is a null pointer.

**Induction.** The theorem modules of the library state induction with an
operator as a parameter, which the provers cannot instantiate. Predicates are
sets here: `Least` follows from the well-foundedness of `<` (`WFMin`), and from it
`Successors`, `MeasureInduction` and `LoopDefined`. The last one is what makes a
recursive function equal to its body: the function is a CHOOSE, and a function
that satisfies the equation exists when each round of the loop makes a measure
smaller.

**Waiting.** Three theorems are about what liveness rests on and is safety in
itself: that whoever waits, waits for somebody who can go on.

- `NoLostWait` (Migration): a thread that waits in `participate` has run the
  present job of its table (`prevJob`), and another is in that job or
  concludes it. `BusyInv` also says so of a job that is done, because a thread
  that finds it done returns without having joined.
- `NoCircularWait` (ThreadMap): a handler that spins on moved cells waits for a
  thread other than its own, on which no handler runs. `MigratorInv` has the thread;
  that it is another one needs `Undisturbed`: run HandlerSpins refutes it without.
- `StopNotStranded` (Profiler): a caller that spins on `workerDone` waits for a
  worker that runs or has cleared it, if `RunAgentThread` does not fail.

Only model-checked:

- liveness (`StopReturns`, `HandlerReturns`, both `OpsReturn`, `CommandsServed`,
  and the queue's): fairness and ENABLED are out of the prover's reach;
- the disagreements of `CodeSpec` with comments, which are counterexamples.

## Not modelled

- The creation of method ids for loaded classes (`OnClassLoad`,
  `OnClassPrepare`, `CreateJMethodIDsForClass`): calls into JVMTI for their side
  effect there, without state of the agent's own.
- The interposition of `JVM_StartThread` in `OnNativeMethodBind`; its effect,
  that the threads it starts have SIGPROF blocked, is `Unmasked`, which names the
  others.
- The text of commands, replies, options and names, and the byte order of the
  log; protobuf's serialisation, which is a number of bytes here.
- What threads do with objects that `Agent_OnUnload` has deleted, until the
  process ends: undefined behaviour that nothing in the code bounds.
- `recorder.proto`, tracing, logging and debug counters, the Java classes and
  the empty build modules: no behaviour to check.
- Weak memory orders (see above).

## Plan

The model covers the program, and every safety property that a passing run checks
is proved. What could still be done is a composition of ThreadMap and Migration,
in which the garbage of the one is the retired tables of the other.
