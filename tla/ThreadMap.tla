----------------------------- MODULE ThreadMap -----------------------------
(***************************************************************************)
(* The registry of profiled threads: OnThreadStart and OnThreadEnd         *)
(* (agent.cpp), ThreadMap and ThreadBucket (thread_map.h), and the epoch   *)
(* based reclamation of the map's hash tables, class GC, and the map's     *)
(* replacement of its table (concurrent_map.h).                            *)
(*                                                                         *)
(* A thread registers itself when it starts and unregisters when it ends;  *)
(* between the two SIGPROF interrupts it and its handler looks the thread  *)
(* up, passes a safepoint and hands the bucket to the queue, whose         *)
(* consumer releases it. GC's mutex serialises everything except the       *)
(* handler's ss_safepoint, which takes no lock.                            *)
(*                                                                         *)
(* The map is abstract here: what matters of a table is which threads have *)
(* a cell in it and whether a cell was moved when it is looked at. How a   *)
(* migration divides and copies the cells is in Migration and HashTable.   *)
(* JNIEnv pointers are reused, so a thread of the model stands for all the *)
(* threads that have had its JNIEnv.                                       *)
(***************************************************************************)
EXTENDS Integers, FiniteSets

CONSTANTS
    Threads,    \* threads, each with a JNIEnv of its own
    Unmasked,   \* those that start without SIGPROF blocked: the main thread and
                \* native threads that attach, which JVM_StartThread_Interposer
                \* does not see
    InfoResults, \* whether GetThreadInfo succeeds: a subset of BOOLEAN
    Buckets, NoBucket,
    NoThread,
    QueueSize,  \* bound: samples the queue holds
    MaxTables,  \* bound: hash tables ever allocated
    MaxEpoch,   \* bound: no thread starts in a later epoch
    MaxTotal,   \* bound: no thread starts when totalThreads has reached it
    MaxRefs     \* bound: no signal is delivered when a bucket has more references

ASSUME ThreadAssumption ==
    /\ IsFiniteSet(Threads) /\ Unmasked \subseteq Threads
    /\ NoThread \notin Threads /\ NoBucket \notin Buckets
    /\ InfoResults \subseteq BOOLEAN
    /\ IsFiniteSet(Buckets)
    /\ {QueueSize, MaxTables, MaxEpoch, MaxTotal, MaxRefs} \subseteq Nat /\ MaxTables > 0

VARIABLES
    mutex,          \* who holds GC::mutex
    totalThreads, globalEpoch, remaining,
    recentGarbage, oldGarbage,
    freed,          \* tables that have been deleted
    current,        \* the map's table
    migration,      \* the table's coordinator: no job, a job, or ended
    cells,          \* the threads that have a cell in each table, deleted or not
    entry,          \* the bucket that the map holds for each thread
    refs,           \* of each bucket, 0 when it is deleted
    localEpoch,     \* of each bucket
    queued,         \* how many samples of the queue refer to each bucket
    tpc, op,        \* where each thread is, and in which operation of the map
    root,           \* the table it works on
    info,           \* its bucket: made by its put, or returned to its remove
    hpc, hroot, hinfo, hglobal  \* the same for its signal handler, and the
                    \* local of ss_safepoint

gcVars == <<mutex, totalThreads, globalEpoch, remaining, recentGarbage, oldGarbage, freed>>
mapVars == <<current, migration, cells, entry>>
bucketVars == <<refs, localEpoch, queued>>
threadVars == <<tpc, op, root, info>>
handlerVars == <<hpc, hroot, hinfo, hglobal>>
vars == <<gcVars, mapVars, bucketVars, threadVars, handlerVars>>

kEpochInitial == -1
Tables == 1..MaxTables

Init ==
    /\ mutex = NoThread /\ totalThreads = 0 /\ globalEpoch = 1 /\ remaining = 0
    /\ recentGarbage = {} /\ oldGarbage = {} /\ freed = {}
    /\ current = 1 /\ migration = "none" /\ cells = [i \in Tables |-> {}]
    /\ entry = [t \in Threads |-> NoBucket]
    /\ refs = [b \in Buckets |-> 0] /\ localEpoch = [b \in Buckets |-> kEpochInitial]
    /\ queued = [b \in Buckets |-> 0]
    /\ tpc = [t \in Threads |-> "off"] /\ op = [t \in Threads |-> "put"]
    /\ root = [t \in Threads |-> 0] /\ info = [t \in Threads |-> NoBucket]
    /\ hpc = [t \in Threads |-> "out"] /\ hroot = [t \in Threads |-> 0]
    /\ hinfo = [t \in Threads |-> NoBucket] /\ hglobal = [t \in Threads |-> 0]

\* The thread itself runs only while its handler does not.
Goto(t, from, to) ==
    /\ tpc[t] = from /\ hpc[t] = "out"
    /\ tpc' = [tpc EXCEPT ![t] = to]

Released(b) == [refs EXCEPT ![b] = @ - 1]
Lock(t) == mutex = NoThread /\ mutex' = t

-----------------------------------------------------------------------------
(* Thread start and end *)

\* A thread that GetThreadInfo knows nothing about is not registered.
OnThreadStart(t) ==
    /\ globalEpoch <= MaxEpoch /\ totalThreads < MaxTotal
    /\ \E known \in InfoResults : Goto(t, "off", IF known THEN "attach" ELSE "running")
    /\ op' = [op EXCEPT ![t] = "put"]
    /\ UNCHANGED <<gcVars, mapVars, bucketVars, root, info, handlerVars>>

\* The constructor of ThreadBucket, and GC::attachThread in it.
attachThread(t) ==
    /\ Goto(t, "attach", "load")
    /\ mutex = NoThread
    /\ totalThreads' = totalThreads + 1
    /\ remaining' = remaining + 1
    /\ \E b \in Buckets :
           /\ refs[b] = 0
           /\ refs' = [refs EXCEPT ![b] = 1]
           /\ localEpoch' = [localEpoch EXCEPT ![b] = globalEpoch - 1]
           /\ info' = [info EXCEPT ![t] = b]
    /\ UNCHANGED <<mutex, globalEpoch, recentGarbage, oldGarbage, freed, mapVars, queued, op, root,
                   handlerVars>>

\* SIGPROF is blocked, then the thread is removed from the map.
OnThreadEnd(t) ==
    /\ Goto(t, "running", "load")
    /\ op' = [op EXCEPT ![t] = "remove"]
    /\ UNCHANGED <<gcVars, mapVars, bucketVars, root, info, handlerVars>>

-----------------------------------------------------------------------------
(* ConcurrentMapProvider::put and remove. They look at the value of the cell *)
(* and then exchange it. A value that was moved when they look sends them to *)
(* help the migration; once that has ended all cells have been moved.        *)

Load(t) ==
    /\ Goto(t, "load", op[t])
    /\ root' = [root EXCEPT ![t] = current]
    /\ UNCHANGED <<gcVars, mapVars, bucketVars, op, info, handlerVars>>

Usable(table) == table = current /\ migration # "ended"
Moved(table) == table # current \/ migration # "none"
WithCell(t) == [cells EXCEPT ![root[t]] = @ \cup {t}]

\* insertOrUpdate allocates a cell for a thread that has none.
PutInsert(t) ==
    /\ Goto(t, "put", "safepoint")
    /\ t \notin cells[root[t]] /\ Usable(root[t])
    /\ cells' = WithCell(t)
    /\ entry' = [entry EXCEPT ![t] = info[t]]
    /\ root' = [root EXCEPT ![t] = 0]
    /\ UNCHANGED <<gcVars, current, migration, bucketVars, op, info, handlerVars>>

\* insertOrUpdate finds no room: a migration is started unless there was one.
PutOverflow(t) ==
    /\ Goto(t, "put", "help")
    /\ t \notin cells[root[t]] /\ current < MaxTables
    /\ migration' = IF root[t] = current /\ migration = "none" THEN "started" ELSE migration
    /\ UNCHANGED <<gcVars, current, cells, entry, bucketVars, op, root, info, handlerVars>>

PutMoved(t) ==
    /\ Goto(t, "put", "help")
    /\ Moved(root[t])
    /\ cells' = WithCell(t)
    /\ UNCHANGED <<gcVars, current, migration, entry, bucketVars, op, root, info, handlerVars>>

\* insertOrUpdate finds the cell of an earlier thread ...
PutFind(t) ==
    /\ Goto(t, "put", "swap")
    /\ t \in cells[root[t]] /\ Usable(root[t])
    /\ UNCHANGED <<gcVars, mapVars, bucketVars, op, root, info, handlerVars>>

\* ... and exchanges its value; put releases a bucket that was there ...
PutUpdate(t) ==
    /\ Goto(t, "swap", "safepoint")
    /\ Usable(root[t])
    /\ entry' = [entry EXCEPT ![t] = info[t]]
    /\ refs' = IF entry[t] = NoBucket THEN refs ELSE Released(entry[t])
    /\ root' = [root EXCEPT ![t] = 0]
    /\ UNCHANGED <<gcVars, current, migration, cells, localEpoch, queued, op, info, handlerVars>>

\* ... or finds it moved meanwhile and returns the mark, MapValMove, as the
\* old value, which put releases as if it pointed to a bucket.
PutLost(t) ==
    /\ Goto(t, "swap", "crashed")
    /\ Moved(root[t])
    /\ root' = [root EXCEPT ![t] = 0]
    /\ UNCHANGED <<gcVars, mapVars, bucketVars, op, info, handlerVars>>

\* A thread that is not in the map has nothing to detach.
RemoveNothing(t) ==
    /\ Goto(t, "remove", "off")
    /\ t \notin cells[root[t]]
    /\ root' = [root EXCEPT ![t] = 0]
    /\ UNCHANGED <<gcVars, mapVars, bucketVars, op, info, handlerVars>>

RemoveMoved(t) ==
    /\ Goto(t, "remove", "help")
    /\ t \in cells[root[t]] /\ Moved(root[t])
    /\ UNCHANGED <<gcVars, mapVars, bucketVars, op, root, info, handlerVars>>

RemoveFind(t) ==
    /\ Goto(t, "remove", "erase")
    /\ t \in cells[root[t]] /\ Usable(root[t])
    /\ UNCHANGED <<gcVars, mapVars, bucketVars, op, root, info, handlerVars>>

\* The bucket that was in the cell is to be detached ...
Remove(t) ==
    /\ Goto(t, "erase", IF entry[t] = NoBucket THEN "off" ELSE "detach")
    /\ Usable(root[t])
    /\ entry' = [entry EXCEPT ![t] = NoBucket]
    /\ info' = [info EXCEPT ![t] = entry[t]]
    /\ root' = [root EXCEPT ![t] = 0]
    /\ UNCHANGED <<gcVars, current, migration, cells, bucketVars, op, handlerVars>>

\* ... but when the value was moved meanwhile remove gives up: the bucket
\* stays, attached, in the map.
RemoveLost(t) ==
    /\ Goto(t, "erase", "off")
    /\ Moved(root[t])
    /\ info' = [info EXCEPT ![t] = NoBucket]
    /\ root' = [root EXCEPT ![t] = 0]
    /\ UNCHANGED <<gcVars, mapVars, bucketVars, op, handlerVars>>

\* JobCoordinator::participate: the thread joins the job of its table ...
Join(t) ==
    /\ Goto(t, "help", "work")
    /\ root[t] = current /\ migration = "started"
    /\ UNCHANGED <<gcVars, mapVars, bucketVars, op, root, info, handlerVars>>

AloneIn(t) == \A u \in Threads \ {t} : ~(tpc[u] = "work" /\ root[u] = root[t])

\* ... leaves it when there is nothing left to take, but is not the last ...
Leave(t) ==
    /\ Goto(t, "work", "wait")
    /\ ~AloneIn(t)
    /\ UNCHANGED <<gcVars, mapVars, bucketVars, op, root, info, handlerVars>>

\* ... or is the last and ends it. When the job has ended participate
\* returns and the operation is tried again.
EndMigration(t) ==
    /\ Goto(t, "work", "publish")
    /\ AloneIn(t)
    /\ migration' = "ended"
    /\ UNCHANGED <<gcVars, current, cells, entry, bucketVars, op, root, info, handlerVars>>

Participated(t) ==
    /\ tpc[t] \in {"help", "wait"} /\ Goto(t, tpc[t], "load")
    /\ root[t] # current \/ migration = "ended"
    /\ root' = [root EXCEPT ![t] = 0]
    /\ UNCHANGED <<gcVars, mapVars, bucketVars, op, info, handlerVars>>

\* Mutant of Publish: the new table is not stored.
PublishNothing(t) ==
    /\ Goto(t, "publish", "retire")
    /\ UNCHANGED <<gcVars, mapVars, bucketVars, op, root, info, handlerVars>>

\* finishMigration replaces the table by one with a cell for every value ...
Publish(t) ==
    /\ Goto(t, "publish", "retire")
    /\ current' = current + 1
    /\ migration' = "none"
    /\ cells' = [cells EXCEPT ![current + 1] = {u \in Threads : entry[u] # NoBucket}]
    /\ UNCHANGED <<gcVars, entry, bucketVars, op, root, info, handlerVars>>

\* ... and retires the old one (scheduleDelete), whose coordinator is looked
\* at once more before participate returns.
scheduleDelete(t) ==
    /\ Goto(t, "retire", "wait")
    /\ mutex = NoThread
    /\ recentGarbage' = recentGarbage \cup {root[t]}
    /\ UNCHANGED <<mutex, totalThreads, globalEpoch, remaining, oldGarbage, freed, mapVars, bucketVars,
                   op, root, info, handlerVars>>

-----------------------------------------------------------------------------
(* GC::safepoint, GC::detachThread and GC::newEpoch, under the mutex *)

\* The comparison is unsigned: kEpochInitial is above all epochs.
Behind(b) == localEpoch[b] # kEpochInitial /\ localEpoch[b] < globalEpoch
\* What is done with the mutex when rem threads are still behind.
Then(rem) == IF rem = 0 THEN "epoch" ELSE "unlock"

safepoint(t) ==
    /\ Goto(t, "safepoint", IF Behind(info[t]) THEN "move" ELSE Then(remaining))
    /\ Lock(t)
    /\ UNCHANGED <<totalThreads, globalEpoch, remaining, recentGarbage, oldGarbage, freed, mapVars,
                   bucketVars, op, root, info, handlerVars>>

SafepointMove(t) ==
    /\ Goto(t, "move", Then(remaining - 1))
    /\ localEpoch' = [localEpoch EXCEPT ![info[t]] = globalEpoch]
    /\ remaining' = remaining - 1
    /\ UNCHANGED <<mutex, totalThreads, globalEpoch, recentGarbage, oldGarbage, freed, mapVars, refs,
                   queued, op, root, info, handlerVars>>

detachThread(t) ==
    LET rem == IF Behind(info[t]) THEN remaining - 1 ELSE remaining
    IN  /\ Goto(t, "detach", Then(rem))
        /\ Lock(t)
        /\ totalThreads' = totalThreads - 1
        /\ remaining' = rem
        /\ UNCHANGED <<globalEpoch, recentGarbage, oldGarbage, freed, mapVars, bucketVars, op, root,
                       info, handlerVars>>

\* Mutant of NewEpoch: what was retired in this epoch is deleted as well.
NewEpochFreesAll(t) ==
    /\ Goto(t, "epoch", "reset")
    /\ freed' = freed \cup oldGarbage \cup recentGarbage
    /\ oldGarbage' = {}
    /\ globalEpoch' = globalEpoch + 1
    /\ UNCHANGED <<mutex, totalThreads, remaining, recentGarbage, mapVars, bucketVars, op, root, info,
                   handlerVars>>

\* newEpoch: the tables retired before the last epoch are deleted ...
NewEpoch(t) ==
    /\ Goto(t, "epoch", "reset")
    /\ freed' = freed \cup oldGarbage
    /\ oldGarbage' = {}
    /\ globalEpoch' = globalEpoch + 1
    /\ UNCHANGED <<mutex, totalThreads, remaining, recentGarbage, mapVars, bucketVars, op, root, info,
                   handlerVars>>

\* ... and all threads are to be waited for again.
ResetRemaining(t) ==
    /\ Goto(t, "reset", "unlock")
    /\ remaining' = totalThreads
    /\ oldGarbage' = recentGarbage
    /\ recentGarbage' = {}
    /\ UNCHANGED <<mutex, totalThreads, globalEpoch, freed, mapVars, bucketVars, op, root, info,
                   handlerVars>>

\* The mutex is released. OnThreadStart ends by unblocking SIGPROF.
Unlock(t) ==
    /\ Goto(t, "unlock", IF op[t] = "put" THEN "running" ELSE "release")
    /\ mutex' = NoThread
    /\ localEpoch' = IF op[t] = "put" THEN localEpoch
                     ELSE [localEpoch EXCEPT ![info[t]] = kEpochInitial]
    /\ UNCHANGED <<totalThreads, globalEpoch, remaining, recentGarbage, oldGarbage, freed, mapVars,
                   refs, queued, op, root, info, handlerVars>>

\* ThreadMapBase::remove ends with the release of the map's reference.
ReleaseBucket(t) ==
    /\ Goto(t, "release", "off")
    /\ refs' = Released(info[t])
    /\ info' = [info EXCEPT ![t] = NoBucket]
    /\ UNCHANGED <<gcVars, mapVars, localEpoch, queued, op, root, handlerVars>>

-----------------------------------------------------------------------------
(* Profiler::handle, on the interrupted thread: ThreadMapBase::get *)

HandlerGoto(t, from, to) ==
    /\ hpc[t] = from
    /\ hpc' = [hpc EXCEPT ![t] = to]

\* SIGPROF is delivered where it is not blocked.
Interruptible(t) == tpc[t] = "running" \/ (t \in Unmasked /\ op[t] = "put" /\ tpc[t] # "off")

\* The map's get loads the table ...
GetLoad(t) ==
    /\ HandlerGoto(t, "out", "find")
    /\ Interruptible(t) /\ \A b \in Buckets : refs[b] < MaxRefs
    /\ hroot' = [hroot EXCEPT ![t] = current]
    /\ UNCHANGED <<gcVars, mapVars, bucketVars, threadVars, hinfo, hglobal>>

\* ... and again as long as it finds a moved cell.
GetMoved(t) ==
    /\ HandlerGoto(t, "find", "find")
    /\ t \in cells[hroot[t]] /\ Moved(hroot[t])
    /\ hroot' = [hroot EXCEPT ![t] = current]
    /\ UNCHANGED <<gcVars, mapVars, bucketVars, threadVars, hinfo, hglobal>>

GetNothing(t) ==
    /\ HandlerGoto(t, "find", "out")
    /\ \/ t \notin cells[hroot[t]]
       \/ Usable(hroot[t]) /\ (entry[t] # NoBucket => refs[entry[t]] = 0)
    /\ hroot' = [hroot EXCEPT ![t] = 0]
    /\ UNCHANGED <<gcVars, mapVars, bucketVars, threadVars, hinfo, hglobal>>

\* Mutant of acq_bucket: the bucket is used without a reference.
FindBucket(t) ==
    /\ HandlerGoto(t, "find", "safepoint")
    /\ t \in cells[hroot[t]] /\ Usable(hroot[t])
    /\ entry[t] # NoBucket
    /\ hinfo' = [hinfo EXCEPT ![t] = entry[t]]
    /\ hroot' = [hroot EXCEPT ![t] = 0]
    /\ UNCHANGED <<gcVars, mapVars, bucketVars, threadVars, hglobal>>

\* acq_bucket adds a reference to a bucket that has one already.
acq_bucket(t) ==
    /\ HandlerGoto(t, "find", "safepoint")
    /\ t \in cells[hroot[t]] /\ Usable(hroot[t])
    /\ entry[t] # NoBucket
    /\ refs[entry[t]] > 0
    /\ refs' = [refs EXCEPT ![entry[t]] = @ + 1]
    /\ hinfo' = [hinfo EXCEPT ![t] = entry[t]]
    /\ hroot' = [hroot EXCEPT ![t] = 0]
    /\ UNCHANGED <<gcVars, mapVars, localEpoch, queued, threadVars, hglobal>>

\* Mutant of ss_safepoint: a thread that has moved already is counted off again.
SignalAlways(t) ==
    /\ HandlerGoto(t, "safepoint", "subtract")
    /\ hglobal' = [hglobal EXCEPT ![t] = globalEpoch]
    /\ UNCHANGED <<gcVars, mapVars, bucketVars, threadVars, hroot, hinfo>>

ss_safepoint(t) ==
    /\ HandlerGoto(t, "safepoint", IF Behind(hinfo[t]) THEN "subtract" ELSE "push")
    /\ hglobal' = [hglobal EXCEPT ![t] = globalEpoch]
    /\ UNCHANGED <<gcVars, mapVars, bucketVars, threadVars, hroot, hinfo>>

SignalSubtract(t) ==
    /\ HandlerGoto(t, "subtract", "store")
    /\ remaining' = remaining - 1
    /\ UNCHANGED <<mutex, totalThreads, globalEpoch, recentGarbage, oldGarbage, freed, mapVars,
                   bucketVars, threadVars, hroot, hinfo, hglobal>>

SignalStore(t) ==
    /\ HandlerGoto(t, "store", "push")
    /\ localEpoch' = [localEpoch EXCEPT ![hinfo[t]] = hglobal[t]]
    /\ UNCHANGED <<gcVars, mapVars, refs, queued, threadVars, hroot, hinfo, hglobal>>

\* buffer->push, which may find the queue full of other samples; handle
\* ignores its result, so the reference of a rejected sample is lost.
Push(t) ==
    /\ HandlerGoto(t, "push", "out")
    /\ \/ queued[hinfo[t]] < QueueSize /\ queued' = [queued EXCEPT ![hinfo[t]] = @ + 1]
       \/ UNCHANGED queued
    /\ hinfo' = [hinfo EXCEPT ![t] = NoBucket]
    /\ hglobal' = [hglobal EXCEPT ![t] = 0]
    /\ UNCHANGED <<gcVars, mapVars, refs, localEpoch, threadVars, hroot>>

\* The processor thread: pop calls LogWriter::record, which releases the bucket.
Record(b) ==
    /\ queued[b] > 0
    /\ queued' = [queued EXCEPT ![b] = @ - 1]
    /\ refs' = Released(b)
    /\ UNCHANGED <<gcVars, mapVars, localEpoch, threadVars, handlerVars>>

-----------------------------------------------------------------------------
MapStep(t) ==
    \/ Load(t) \/ PutInsert(t) \/ PutOverflow(t) \/ PutMoved(t) \/ PutFind(t) \/ PutUpdate(t) \/ PutLost(t)
    \/ Remove(t) \/ RemoveNothing(t) \/ RemoveMoved(t) \/ RemoveFind(t) \/ RemoveLost(t)
    \/ Join(t) \/ Leave(t) \/ EndMigration(t) \/ Participated(t) \/ Publish(t) \/ scheduleDelete(t)

GCStep(t) ==
    \/ attachThread(t) \/ safepoint(t) \/ SafepointMove(t)
    \/ detachThread(t) \/ NewEpoch(t) \/ ResetRemaining(t) \/ Unlock(t) \/ ReleaseBucket(t)

HandlerStep(t) ==
    \/ GetMoved(t) \/ GetNothing(t) \/ acq_bucket(t) \/ ss_safepoint(t)
    \/ SignalSubtract(t) \/ SignalStore(t) \/ Push(t)

\* The process ends when one of its threads crashes.
Crashed == \E t \in Threads : tpc[t] = "crashed"

Others ==
    \/ \E t \in Threads : \/ OnThreadStart(t) \/ OnThreadEnd(t)
                          \/ MapStep(t) \/ GCStep(t) \/ HandlerStep(t)
    \/ \E b \in Buckets : Record(b)

CodeNext == ~Crashed /\ (Others \/ \E t \in Threads : GetLoad(t))
CodeSpec == Init /\ [][CodeNext]_vars

(***************************************************************************)
(* A thread that registers unmasked can be interrupted anywhere in put.    *)
(* Undisturbed is the assumption that it is not while it helps a           *)
(* migration, nor between the comparison and the update of its epoch in    *)
(* safepoint. The code does nothing to ensure it: CodeSpec is the code     *)
(* alone.                                                                  *)
(***************************************************************************)
Undisturbed(t) == tpc[t] \notin {"help", "work", "publish", "move"}

GetQuietly(t) == Undisturbed(t) /\ GetLoad(t)

Next == ~Crashed /\ (Others \/ \E t \in Threads : GetQuietly(t))
Spec == Init /\ [][Next]_vars

\* The threads inside OnThreadStart, OnThreadEnd and the handlers keep being
\* scheduled; for CodeSpec also a thread that is interrupted again and again,
\* as the timer's period is longer than a handler.
OwnStep(t) == ~Crashed /\ (MapStep(t) \/ GCStep(t))
Fairness ==
    \A t \in Threads : WF_vars(OwnStep(t)) /\ WF_vars(~Crashed /\ HandlerStep(t))
FairSpec == Spec /\ Fairness
FairCodeSpec == CodeSpec /\ Fairness /\ \A t \in Threads : SF_vars(OwnStep(t))

-----------------------------------------------------------------------------
(* Properties *)

\* GC never counts fewer threads than none, and pointers refer to objects of
\* their kind.
TypeOK ==
    /\ mutex \in Threads \cup {NoThread}
    /\ totalThreads \in Nat
    /\ globalEpoch \in Nat /\ remaining \in Int
    /\ recentGarbage \subseteq Tables /\ oldGarbage \subseteq Tables /\ freed \subseteq Tables
    /\ current \in Tables /\ cells \in [Tables -> SUBSET Threads] /\ migration \in {"none", "started", "ended"}
    /\ entry \in [Threads -> Buckets \cup {NoBucket}]
    /\ refs \in [Buckets -> Nat] /\ queued \in [Buckets -> 0..QueueSize]
    /\ localEpoch \in [Buckets -> Nat \cup {kEpochInitial}]
    /\ tpc \in [Threads -> {"off", "attach", "load", "put", "swap", "remove", "erase", "help", "work", "wait",
                            "publish", "retire", "safepoint", "move", "detach", "epoch", "reset", "unlock",
                            "release", "running", "crashed"}]
    /\ op \in [Threads -> {"put", "remove"}]
    /\ root \in [Threads -> Tables \cup {0}] /\ hroot \in [Threads -> Tables \cup {0}]
    /\ info \in [Threads -> Buckets \cup {NoBucket}] /\ hinfo \in [Threads -> Buckets \cup {NoBucket}]
    /\ hpc \in [Threads -> {"out", "find", "safepoint", "subtract", "store", "push"}]
    /\ hglobal \in [Threads -> Nat]

\* Buckets that GC counts in totalThreads: those in the map, also the ones
\* that a remove has left there, those on their way into it, and those taken
\* out and not detached yet.
Detached(t) == op[t] = "remove" /\ tpc[t] \in {"epoch", "reset", "unlock", "release"}
Attached(b) == \E t \in Threads : entry[t] = b \/ (info[t] = b /\ ~Detached(t))

\* No hash table is deleted under a registered thread that is in put, get or
\* remove: a retired table outlives every thread and every signal handler that
\* loaded it while it was the current one. A thread that GetThreadInfo did not
\* know is not attached, and no epoch waits for it.
TablesAlive ==
    /\ current \notin freed
    /\ \A t \in Threads : info[t] # NoBucket => root[t] \notin freed /\ hroot[t] \notin freed

\* The global epoch only moves when every attached thread has moved to it
\* ("force thread to move to global epoch at least once"), be it at a
\* safepoint or in a signal handler. A bucket that a remove has left behind
\* is waited for as well.
WaitsForAll ==
    globalEpoch' # globalEpoch =>
        \A b \in Buckets : Attached(b) =>
            localEpoch[b] = globalEpoch \/ \E t \in Threads : hinfo[t] = b /\ hpc[t] = "store"
EpochWaits == [][WaitsForAll]_vars

\* A bucket lives as long as anybody refers to it: the map, the thread that
\* registers with it or unregisters, a handler, or samples in the queue. It is
\* that of one thread, also after a remove that gave up has left it in the map.
Holders(b) == Cardinality({t \in Threads : info[t] = b \/ entry[t] = b})
                  + Cardinality({t \in Threads : hinfo[t] = b}) + queued[b]
BucketsAlive ==
    /\ \A b \in Buckets : refs[b] >= Holders(b)
    /\ \A t, u \in Threads : t # u => {entry[t], info[t]} \cap {entry[u], info[u]} \subseteq {NoBucket}

\* The signal handler returns although its lookup spins while the map is
\* being migrated by others: no thread stays in it for ever.
HandlerReturns == \A t \in Threads : []<>(hpc[t] = "out" \/ Crashed)
=============================================================================
