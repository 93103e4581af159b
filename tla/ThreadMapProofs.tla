--------------------------- MODULE ThreadMapProofs ---------------------------
(***************************************************************************)
(* Proofs about ThreadMap: a bucket outlives everybody who refers to it,   *)
(* GC counts no fewer threads than are attached, an epoch ends only when   *)
(* every attached thread has moved to it, and no hash table is deleted     *)
(* under a registered thread or its signal handler.                        *)
(*                                                                         *)
(* The argument for the tables: a thread that is in put, remove or get     *)
(* passes no safepoint with its own bucket, so the epoch of that stays     *)
(* what it was when the thread loaded its table. The table is retired      *)
(* later, is old garbage one epoch after that and deleted at the end of    *)
(* that epoch, which waits for the thread.                                 *)
(***************************************************************************)
EXTENDS ThreadMap, FiniteSetTheorems, TLAPS

-----------------------------------------------------------------------------
(* The invariant: the structure *)

InMap == {"put", "swap", "remove", "erase", "help", "work", "wait", "publish", "retire"}
Held == {"move", "epoch", "reset", "unlock"}
Places == {"off", "attach", "load", "safepoint", "detach", "release", "running", "crashed"} \cup InMap \cup Held
HandlerPlaces == {"out", "find", "safepoint", "subtract", "store", "push"}

GCTypes ==
    /\ mutex \in Threads \cup {NoThread} /\ totalThreads \in Int
    /\ globalEpoch \in Nat /\ remaining \in Int
    /\ recentGarbage \subseteq Tables /\ oldGarbage \subseteq Tables /\ freed \subseteq Tables
MapTypes ==
    /\ current \in Tables /\ cells \in [Tables -> SUBSET Threads] /\ migration \in {"none", "started", "ended"}
    /\ entry \in [Threads -> Buckets \cup {NoBucket}]
BucketTypes ==
    /\ refs \in [Buckets -> Nat] /\ queued \in [Buckets -> 0..QueueSize]
    /\ localEpoch \in [Buckets -> Nat \cup {kEpochInitial}]
ThreadTypes ==
    /\ tpc \in [Threads -> Places] /\ op \in [Threads -> {"put", "remove"}]
    /\ root \in [Threads -> Tables \cup {0}] /\ info \in [Threads -> Buckets \cup {NoBucket}]
HandlerTypes ==
    /\ hpc \in [Threads -> HandlerPlaces] /\ hroot \in [Threads -> Tables \cup {0}]
    /\ hinfo \in [Threads -> Buckets \cup {NoBucket}] /\ hglobal \in [Threads -> Nat]
TypeInv == GCTypes /\ MapTypes /\ BucketTypes /\ ThreadTypes /\ HandlerTypes

\* A thread's bucket, what the map has under its JNIEnv, and its table, by
\* where it is. The map has another bucket when a remove has left one there.
PlaceOf(t) ==
    /\ tpc[t] \in {"off", "attach"} => info[t] = NoBucket
    /\ tpc[t] \in {"attach", "put", "swap", "safepoint", "move", "running"} => op[t] = "put"
    /\ tpc[t] \in {"remove", "erase", "detach", "release"} => op[t] = "remove"
    /\ tpc[t] = "running" => info[t] = NoBucket \/ entry[t] = info[t]
    /\ tpc[t] \in InMap \cup {"load"} /\ op[t] = "put" => info[t] # NoBucket /\ entry[t] # info[t]
    /\ tpc[t] \in InMap \cup {"load"} /\ op[t] = "remove" => info[t] = NoBucket \/ entry[t] = info[t]
    /\ tpc[t] \in Held \cup {"safepoint"} /\ op[t] = "put" => info[t] # NoBucket /\ entry[t] = info[t]
    /\ tpc[t] \in Held \cup {"detach", "release"} /\ op[t] = "remove" => info[t] # NoBucket /\ entry[t] = NoBucket
    /\ root[t] # 0 <=> tpc[t] \in InMap

\* The handler uses the bucket that the map has for the thread it has
\* interrupted, and does not interrupt a migrator.
HandlerOf(t) ==
    /\ hpc[t] # "out" => tpc[t] # "off" /\ op[t] = "put" /\ Undisturbed(t)
    /\ hroot[t] # 0 <=> hpc[t] = "find"
    /\ hpc[t] \in {"out", "find"} => hinfo[t] = NoBucket
    /\ hpc[t] \notin {"out", "find"} => hinfo[t] = entry[t] /\ entry[t] # NoBucket
PlaceInv == \A t \in Threads : PlaceOf(t) /\ HandlerOf(t)

\* The tables: who migrates, that a thread in the map has a cell, and that
\* only former tables are garbage.
TableOf(t) ==
    /\ root[t] <= current /\ hroot[t] <= current
    /\ tpc[t] = "work" => root[t] = current /\ migration = "started"
    /\ tpc[t] = "publish" => root[t] = current /\ migration = "ended"
    /\ tpc[t] = "retire" => root[t] < current
    /\ entry[t] # NoBucket => t \in cells[current]
    /\ tpc[t] = "swap" => t \in cells[root[t]]
    /\ tpc[t] \in InMap /\ op[t] = "remove" /\ entry[t] # NoBucket => t \in cells[root[t]]
TableInv ==
    /\ \A t \in Threads : TableOf(t)
    /\ \A t, u \in Threads : tpc[t] = "publish" /\ tpc[u] = "publish" => t = u
    /\ migration # "none" => current < MaxTables
    /\ \A x \in recentGarbage \cup oldGarbage \cup freed : x < current

MutexInv == \A t \in Threads : tpc[t] \in Held <=> mutex = t

\* refs counts the holders; a bucket is that of one thread.
Owns(t, b) == info[t] = b \/ entry[t] = b
BucketInv ==
    /\ \A b \in Buckets : refs[b] >= Holders(b)
    /\ \A b \in Buckets : \A t, u \in Threads : Owns(t, b) /\ Owns(u, b) => t = u

\* A put over a bucket that was left in the map releases it without detaching
\* it, so GC may count more than there are.
AttachedSet == {b \in Buckets : Attached(b)}
TotalInv == totalThreads >= Cardinality(AttachedSet)

StructInv == TypeInv /\ PlaceInv /\ TableInv /\ MutexInv /\ BucketInv /\ TotalInv

-----------------------------------------------------------------------------
(* The invariant: the epochs *)

\* A handler has counted the bucket off and is about to store the epoch.
CountedOff(b) == \E t \in Threads : hinfo[t] = b /\ hpc[t] = "store" /\ hglobal[t] = globalEpoch
Pending(b) == Attached(b) /\ localEpoch[b] < globalEpoch /\ ~CountedOff(b)
PendingSet == {b \in Buckets : Pending(b)}
EpochOf(t) ==
    /\ hpc[t] = "subtract" => localEpoch[hinfo[t]] < globalEpoch /\ hglobal[t] = globalEpoch
    /\ hpc[t] = "store" => localEpoch[hinfo[t]] < hglobal[t] /\ hglobal[t] <= globalEpoch
    /\ tpc[t] = "move" => localEpoch[info[t]] < globalEpoch
Resetting == \E t \in Threads : tpc[t] = "reset"

\* remaining counts every bucket that is behind, except while it is stale.
EpochInv ==
    /\ globalEpoch >= 1
    /\ \A b \in Buckets : Attached(b) => localEpoch[b] >= 0 /\ localEpoch[b] <= globalEpoch
    /\ \A t \in Threads : EpochOf(t)
    /\ ~Resetting => remaining >= Cardinality(PendingSet)
    /\ \A t \in Threads : tpc[t] = "epoch" => PendingSet = {}

\* A thread that has a retired table is behind.
Uses(t, x) == info[t] # NoBucket /\ x # 0 /\ (root[t] = x \/ hroot[t] = x)
GarbageInv ==
    \A t \in Threads : \A x \in Tables : Uses(t, x) =>
        /\ x \notin freed
        /\ x \in oldGarbage => Pending(info[t])
        /\ x \in recentGarbage /\ Resetting => Pending(info[t])

IndInv == StructInv /\ EpochInv /\ GarbageInv

-----------------------------------------------------------------------------
(* Counting *)

\* The threads and the handlers that refer to a bucket.
Owners(b) == {t \in Threads : Owns(t, b)}
Handlers(b) == {t \in Threads : hinfo[t] = b}

\* Holders adds up natural numbers, and an owner counts.
LEMMA HoldersOf ==
    ASSUME TypeInv, NEW b \in Buckets
    PROVE  /\ IsFiniteSet(Owners(b)) /\ IsFiniteSet(Handlers(b))
           /\ Cardinality(Owners(b)) \in Nat /\ Cardinality(Handlers(b)) \in Nat /\ queued[b] \in Nat
           /\ Holders(b) = Cardinality(Owners(b)) + Cardinality(Handlers(b)) + queued[b]
           /\ Holders(b) \in Nat /\ Holders(b) >= queued[b]
           /\ \A t \in Threads : Owns(t, b) => Holders(b) >= 1
<1>1. IsFiniteSet(Owners(b)) /\ IsFiniteSet(Handlers(b))
  <2>1. Owners(b) \subseteq Threads /\ Handlers(b) \subseteq Threads
    BY DEF Owners, Handlers
  <2> QED BY <2>1, FS_Subset, ThreadAssumption
<1>2. Cardinality(Owners(b)) \in Nat /\ Cardinality(Handlers(b)) \in Nat
  BY <1>1, FS_CardinalityType
<1>3. queued[b] \in Nat
  BY ThreadAssumption DEF TypeInv, BucketTypes
<1>4. Holders(b) = Cardinality(Owners(b)) + Cardinality(Handlers(b)) + queued[b]
  BY DEF Holders, Owners, Owns, Handlers
<1>5. ASSUME NEW t \in Threads, Owns(t, b) PROVE Cardinality(Owners(b)) # 0
  <2>1. Owners(b) # {}
    BY <1>5 DEF Owners
  <2> QED BY <2>1, <1>1, FS_EmptySet
<1>6. \A t \in Threads : Owns(t, b) => Holders(b) >= 1
  BY <1>2, <1>3, <1>4, <1>5
<1>7. Holders(b) \in Nat /\ Holders(b) >= queued[b]
  BY <1>2, <1>3, <1>4
<1> QED BY <1>1, <1>2, <1>3, <1>4, <1>6, <1>7

\* A step that adds to refs what it adds to the holders keeps them counted.
LEMMA Balance ==
    ASSUME TypeInv, NEW b \in Buckets, refs[b] >= Holders(b),
           Cardinality(Owners(b)') \in Int, Cardinality(Handlers(b)') \in Int, queued'[b] \in Int, refs'[b] \in Int,
           refs'[b] - refs[b] >= (Cardinality(Owners(b)') - Cardinality(Owners(b)))
                   + (Cardinality(Handlers(b)') - Cardinality(Handlers(b))) + (queued'[b] - queued[b])
    PROVE  refs'[b] >= Holders(b)'
<1>1. Holders(b)' = Cardinality(Owners(b)') + Cardinality(Handlers(b)') + queued'[b]
  BY DEF Holders, Owners, Owns, Handlers
<1>2. /\ Cardinality(Owners(b)) \in Nat /\ Cardinality(Handlers(b)) \in Nat /\ queued[b] \in Nat
      /\ Holders(b) = Cardinality(Owners(b)) + Cardinality(Handlers(b)) + queued[b]
  BY HoldersOf
<1>3. refs[b] \in Nat
  BY DEF TypeInv, BucketTypes
<1> QED BY <1>1, <1>2, <1>3

\* The same for a bucket that the step does not touch.
LEMMA Untouched ==
    ASSUME TypeInv, NEW b \in Buckets, refs[b] >= Holders(b),
           Owners(b)' = Owners(b), Handlers(b)' = Handlers(b), queued'[b] = queued[b], refs'[b] = refs[b]
    PROVE  refs'[b] >= Holders(b)'
<1>1. Holders(b)' = Cardinality(Owners(b)') + Cardinality(Handlers(b)') + queued'[b]
  BY DEF Holders, Owners, Owns, Handlers
<1>2. Holders(b) = Cardinality(Owners(b)) + Cardinality(Handlers(b)) + queued[b]
  BY HoldersOf
<1> QED BY <1>1, <1>2

\* A count follows its set when one element comes or goes.
LEMMA CountStep ==
    ASSUME NEW S, IsFiniteSet(S), NEW t
    PROVE  /\ t \in S => Cardinality(S \ {t}) = Cardinality(S) - 1
           /\ t \notin S => Cardinality(S \cup {t}) = Cardinality(S) + 1
  BY FS_AddElement, FS_RemoveElement

\* A bucket without references is nobody's.
LEMMA NewBucket ==
    ASSUME StructInv, NEW b \in Buckets, refs[b] = 0
    PROVE  /\ \A u \in Threads : info[u] # b /\ entry[u] # b /\ hinfo[u] # b
           /\ ~Attached(b)
<1>1. Holders(b) \in Nat /\ refs[b] >= Holders(b) /\ \A u \in Threads : Owns(u, b) => Holders(b) >= 1
  BY HoldersOf DEF StructInv, BucketInv
<1>2. \A u \in Threads : info[u] # b /\ entry[u] # b
  BY <1>1 DEF Owns
<1>3. \A u \in Threads : hinfo[u] # b
  BY <1>2, ThreadAssumption DEF StructInv, TypeInv, HandlerTypes, HandlerPlaces, PlaceInv, HandlerOf
<1> QED BY <1>2, <1>3 DEF Attached

\* The bucket of a thread is no other's, and only its own handler uses it.
LEMMA OneOwner ==
    ASSUME StructInv, NEW t \in Threads, NEW u \in Threads \ {t}, NEW b \in Buckets, Owns(t, b)
    PROVE  info[u] # b /\ entry[u] # b /\ hinfo[u] # b
<1>1. info[u] # b /\ entry[u] # b
  BY DEF StructInv, BucketInv, Owns
<1> QED BY <1>1, ThreadAssumption DEF StructInv, TypeInv, HandlerTypes, HandlerPlaces, PlaceInv, HandlerOf

-----------------------------------------------------------------------------
(* The structure *)

\* Every step keeps the types: no count of references falls below 0.
LEMMA TypeStep == StructInv /\ [Next]_vars => TypeInv'
<1> SUFFICES ASSUME StructInv, [Next]_vars PROVE TypeInv'
  OBVIOUS
<1> USE ThreadAssumption DEF StructInv, TypeInv, GCTypes, MapTypes, BucketTypes, ThreadTypes,
    HandlerTypes, Places, HandlerPlaces, InMap, Held, Tables, kEpochInitial, gcVars, mapVars,
    bucketVars, threadVars, handlerVars
<1>1. ASSUME NEW t \in Threads, OnThreadStart(t) PROVE TypeInv'
  <2>1. ThreadTypes'
    BY <1>1 DEF OnThreadStart, Goto
  <2> QED BY <1>1, <2>1 DEF OnThreadStart
<1>2. ASSUME NEW t \in Threads, attachThread(t) PROVE TypeInv'
  <2>1. GCTypes' /\ MapTypes' /\ HandlerTypes'
    BY <1>2 DEF attachThread, Goto
  <2>2. ThreadTypes'
    BY <1>2 DEF attachThread, Goto
  <2>3. BucketTypes'
    BY <1>2 DEF attachThread, Goto
  <2> QED BY <2>1, <2>2, <2>3
<1>3. ASSUME NEW t \in Threads, OnThreadEnd(t) PROVE TypeInv'
  BY <1>3 DEF OnThreadEnd, Goto
<1>4. ASSUME NEW t \in Threads, Load(t) PROVE TypeInv'
  BY <1>4 DEF Load, Goto
<1>5. ASSUME NEW t \in Threads, PutInsert(t) PROVE TypeInv'
  <2>0. root[t] \in Tables
    BY <1>5 DEF PutInsert, Goto, PlaceInv, PlaceOf, HandlerOf
  <2>1. GCTypes' /\ MapTypes'
    BY <1>5, <2>0 DEF PutInsert, Goto, WithCell, Usable
  <2>2. BucketTypes'
    BY <1>5, <2>0 DEF PutInsert, Goto, WithCell, Usable
  <2>3. ThreadTypes' /\ HandlerTypes'
    BY <1>5, <2>0 DEF PutInsert, Goto, WithCell, Usable
  <2> QED BY <2>1, <2>2, <2>3
<1>6. ASSUME NEW t \in Threads, PutOverflow(t) PROVE TypeInv'
  BY <1>6 DEF PutOverflow, Goto
<1>7. ASSUME NEW t \in Threads, PutMoved(t) PROVE TypeInv'
  <2>0. root[t] \in Tables
    BY <1>7 DEF PutMoved, Goto, PlaceInv, PlaceOf, HandlerOf
  <2>1. GCTypes' /\ MapTypes'
    BY <1>7, <2>0 DEF PutMoved, Goto, WithCell, Moved
  <2>2. BucketTypes'
    BY <1>7, <2>0 DEF PutMoved, Goto, WithCell, Moved
  <2>3. ThreadTypes' /\ HandlerTypes'
    BY <1>7, <2>0 DEF PutMoved, Goto, WithCell, Moved
  <2> QED BY <2>1, <2>2, <2>3
<1>8. ASSUME NEW t \in Threads, PutFind(t) PROVE TypeInv'
  BY <1>8 DEF PutFind, Goto, Usable
<1>9. ASSUME NEW t \in Threads, PutUpdate(t) PROVE TypeInv'
  <2>1. refs' \in [Buckets -> Nat]
    <3>1. CASE entry[t] = NoBucket
      BY <1>9, <3>1 DEF PutUpdate
    <3>2. CASE entry[t] # NoBucket
      <4>1. entry[t] \in Buckets /\ refs[entry[t]] \in Nat
        BY <3>2
      <4>2. Holders(entry[t]) \in Nat /\ Holders(entry[t]) >= 1 /\ refs[entry[t]] >= Holders(entry[t])
        BY <4>1, HoldersOf DEF BucketInv, Owns
      <4>3. refs[entry[t]] - 1 \in Nat
        BY <4>1, <4>2
      <4> QED BY <1>9, <3>2, <4>1, <4>3 DEF PutUpdate, Released
    <3> QED BY <3>1, <3>2
  <2> QED BY <1>9, <2>1 DEF PutUpdate, Goto
<1>10. ASSUME NEW t \in Threads, PutLost(t) PROVE TypeInv'
  BY <1>10 DEF PutLost, Goto, Moved
<1>11. ASSUME NEW t \in Threads, RemoveNothing(t) PROVE TypeInv'
  BY <1>11 DEF RemoveNothing, Goto
<1>12. ASSUME NEW t \in Threads, RemoveMoved(t) PROVE TypeInv'
  BY <1>12 DEF RemoveMoved, Goto, Moved
<1>13. ASSUME NEW t \in Threads, RemoveFind(t) PROVE TypeInv'
  BY <1>13 DEF RemoveFind, Goto, Usable
<1>14. ASSUME NEW t \in Threads, Remove(t) PROVE TypeInv'
  BY <1>14 DEF Remove, Goto, Usable
<1>15. ASSUME NEW t \in Threads, RemoveLost(t) PROVE TypeInv'
  BY <1>15 DEF RemoveLost, Goto, Moved
<1>16. ASSUME NEW t \in Threads, Join(t) PROVE TypeInv'
  BY <1>16 DEF Join, Goto
<1>17. ASSUME NEW t \in Threads, Leave(t) PROVE TypeInv'
  BY <1>17 DEF Leave, Goto
<1>18. ASSUME NEW t \in Threads, EndMigration(t) PROVE TypeInv'
  BY <1>18 DEF EndMigration, Goto
<1>19. ASSUME NEW t \in Threads, Participated(t) PROVE TypeInv'
  BY <1>19 DEF Participated, Goto
<1>20. ASSUME NEW t \in Threads, Publish(t) PROVE TypeInv'
  <2>0. current + 1 \in Tables
    BY <1>20 DEF Publish, Goto, TableInv, TableOf, PlaceInv, PlaceOf, HandlerOf
  <2>1. GCTypes' /\ MapTypes'
    BY <1>20, <2>0 DEF Publish, Goto
  <2>2. BucketTypes'
    BY <1>20, <2>0 DEF Publish, Goto
  <2>3. ThreadTypes' /\ HandlerTypes'
    BY <1>20, <2>0 DEF Publish, Goto
  <2> QED BY <2>1, <2>2, <2>3
<1>21. ASSUME NEW t \in Threads, scheduleDelete(t) PROVE TypeInv'
  <2>0. root[t] \in Tables
    BY <1>21 DEF scheduleDelete, Goto, PlaceInv, PlaceOf, HandlerOf
  <2>1. GCTypes' /\ MapTypes'
    BY <1>21, <2>0 DEF scheduleDelete, Goto
  <2>2. BucketTypes'
    BY <1>21, <2>0 DEF scheduleDelete, Goto
  <2>3. ThreadTypes' /\ HandlerTypes'
    BY <1>21, <2>0 DEF scheduleDelete, Goto
  <2> QED BY <2>1, <2>2, <2>3
<1>22. ASSUME NEW t \in Threads, safepoint(t) PROVE TypeInv'
  BY <1>22 DEF safepoint, Goto, Lock, Then
<1>23. ASSUME NEW t \in Threads, SafepointMove(t) PROVE TypeInv'
  <2>0. info[t] \in Buckets
    BY <1>23 DEF SafepointMove, Goto, PlaceInv, PlaceOf, HandlerOf
  <2>1. GCTypes' /\ MapTypes'
    BY <1>23, <2>0 DEF SafepointMove, Goto, Then
  <2>2. BucketTypes'
    BY <1>23, <2>0 DEF SafepointMove, Goto, Then
  <2>3. ThreadTypes' /\ HandlerTypes'
    BY <1>23, <2>0 DEF SafepointMove, Goto, Then
  <2> QED BY <2>1, <2>2, <2>3
<1>24. ASSUME NEW t \in Threads, detachThread(t) PROVE TypeInv'
  <2>0. info[t] \in Buckets
    BY <1>24 DEF detachThread, Goto, PlaceInv, PlaceOf, HandlerOf
  <2>1. GCTypes' /\ MapTypes'
    BY <1>24, <2>0 DEF detachThread, Goto, Lock, Then
  <2>2. BucketTypes'
    BY <1>24, <2>0 DEF detachThread, Goto, Lock, Then
  <2>3. ThreadTypes' /\ HandlerTypes'
    BY <1>24, <2>0 DEF detachThread, Goto, Lock, Then
  <2> QED BY <2>1, <2>2, <2>3
<1>25. ASSUME NEW t \in Threads, NewEpoch(t) PROVE TypeInv'
  BY <1>25, SMTT(30) DEF NewEpoch, Goto
<1>26. ASSUME NEW t \in Threads, ResetRemaining(t) PROVE TypeInv'
  BY <1>26 DEF ResetRemaining, Goto
<1>27. ASSUME NEW t \in Threads, Unlock(t) PROVE TypeInv'
  BY <1>27 DEF Unlock, Goto, PlaceInv, PlaceOf
<1>28. ASSUME NEW t \in Threads, ReleaseBucket(t) PROVE TypeInv'
  <2>0. info[t] \in Buckets /\ refs[info[t]] \in Nat
    BY <1>28 DEF ReleaseBucket, Goto, PlaceInv, PlaceOf
  <2>1. Holders(info[t]) \in Nat /\ Holders(info[t]) >= 1 /\ refs[info[t]] >= Holders(info[t])
    BY <2>0, HoldersOf DEF BucketInv, Owns
  <2>2. refs[info[t]] - 1 \in Nat
    BY <2>0, <2>1
  <2>3. refs' \in [Buckets -> Nat]
    BY <1>28, <2>0, <2>2 DEF ReleaseBucket, Released
  <2> QED BY <1>28, <2>3 DEF ReleaseBucket, Goto
<1>29. ASSUME NEW t \in Threads, GetQuietly(t) PROVE TypeInv'
  BY <1>29 DEF GetQuietly, HandlerGoto, GetLoad, Interruptible
<1>30. ASSUME NEW t \in Threads, GetMoved(t) PROVE TypeInv'
  BY <1>30 DEF GetMoved, HandlerGoto, Moved
<1>31. ASSUME NEW t \in Threads, GetNothing(t) PROVE TypeInv'
  BY <1>31 DEF GetNothing, HandlerGoto, Usable
<1>32. ASSUME NEW t \in Threads, acq_bucket(t) PROVE TypeInv'
  <2>0. entry[t] \in Buckets
    BY <1>32 DEF acq_bucket, HandlerGoto, PlaceInv, PlaceOf, HandlerOf
  <2>1. GCTypes' /\ MapTypes'
    BY <1>32, <2>0 DEF acq_bucket, HandlerGoto, Usable
  <2>2. BucketTypes'
    BY <1>32, <2>0 DEF acq_bucket, HandlerGoto, Usable
  <2>3. ThreadTypes' /\ HandlerTypes'
    BY <1>32, <2>0 DEF acq_bucket, HandlerGoto, Usable
  <2> QED BY <2>1, <2>2, <2>3
<1>33. ASSUME NEW t \in Threads, ss_safepoint(t) PROVE TypeInv'
  BY <1>33 DEF ss_safepoint, HandlerGoto
<1>34. ASSUME NEW t \in Threads, SignalSubtract(t) PROVE TypeInv'
  <2>1. GCTypes'
    BY <1>34 DEF SignalSubtract
  <2> QED BY <1>34, <2>1 DEF SignalSubtract, HandlerGoto
<1>35. ASSUME NEW t \in Threads, SignalStore(t) PROVE TypeInv'
  <2>0. hinfo[t] \in Buckets /\ hglobal[t] \in Nat
    BY <1>35 DEF SignalStore, HandlerGoto, PlaceInv, PlaceOf, HandlerOf
  <2>1. GCTypes' /\ MapTypes'
    BY <1>35, <2>0 DEF SignalStore, HandlerGoto
  <2>2. BucketTypes'
    BY <1>35, <2>0 DEF SignalStore, HandlerGoto
  <2>3. ThreadTypes' /\ HandlerTypes'
    BY <1>35, <2>0 DEF SignalStore, HandlerGoto
  <2> QED BY <2>1, <2>2, <2>3
<1>36. ASSUME NEW t \in Threads, Push(t) PROVE TypeInv'
  <2>0. hinfo[t] \in Buckets
    BY <1>36 DEF Push, HandlerGoto, PlaceInv, PlaceOf, HandlerOf
  <2>1. GCTypes' /\ MapTypes'
    BY <1>36, <2>0 DEF Push, HandlerGoto
  <2>2. BucketTypes'
    <3>1. ASSUME queued[hinfo[t]] < QueueSize, queued' = [queued EXCEPT ![hinfo[t]] = @ + 1]
          PROVE  queued' \in [Buckets -> 0..QueueSize]
      <4>1. queued[hinfo[t]] + 1 \in 0..QueueSize
        BY <2>0, <3>1
      <4> QED BY <2>0, <3>1, <4>1
    <3> QED BY <1>36, <3>1 DEF Push
  <2>3. ThreadTypes' /\ HandlerTypes'
    BY <1>36, <2>0 DEF Push, HandlerGoto
  <2> QED BY <2>1, <2>2, <2>3
<1>37. ASSUME NEW b \in Buckets, Record(b) PROVE TypeInv'
  <2>0. refs[b] \in Nat /\ queued[b] \in 0..QueueSize /\ queued[b] > 0
    BY <1>37 DEF Record
  <2>1. Holders(b) \in Nat /\ Holders(b) >= queued[b] /\ refs[b] >= Holders(b)
    BY HoldersOf DEF BucketInv
  <2>2. refs[b] - 1 \in Nat /\ queued[b] - 1 \in 0..QueueSize
    BY <2>0, <2>1
  <2> QED BY <1>37, <2>2 DEF Record, Released
<1>38. CASE UNCHANGED vars
  BY <1>38 DEF vars
<1> QED BY <1>1, <1>2, <1>3, <1>4, <1>5, <1>6, <1>7, <1>8, <1>9, <1>10, <1>11, <1>12, <1>13, <1>14, <1>15,
    <1>16, <1>17, <1>18, <1>19, <1>20, <1>21, <1>22, <1>23, <1>24, <1>25, <1>26, <1>27, <1>28, <1>29, <1>30,
    <1>31, <1>32, <1>33, <1>34, <1>35, <1>36, <1>37, <1>38 DEF Next, Others, MapStep, GCStep, HandlerStep

\* Every step keeps the places of the threads and of their handlers.
LEMMA PlaceStep == StructInv /\ [Next]_vars => PlaceInv'
<1> SUFFICES ASSUME StructInv, [Next]_vars PROVE PlaceInv'
  OBVIOUS
<1> USE ThreadAssumption DEF StructInv, TypeInv, GCTypes, MapTypes, BucketTypes, ThreadTypes,
    HandlerTypes, PlaceInv, PlaceOf, HandlerOf, Places, HandlerPlaces, InMap, Held, TableInv,
    TableOf, Tables, Undisturbed, gcVars, mapVars, bucketVars, threadVars, handlerVars
<1>1. ASSUME NEW t \in Threads, OnThreadStart(t) PROVE PlaceInv'
  BY <1>1 DEF OnThreadStart, Goto
<1>2. ASSUME NEW t \in Threads, attachThread(t) PROVE PlaceInv'
  <2>1. PICK b \in Buckets : refs[b] = 0 /\ info' = [info EXCEPT ![t] = b]
    BY <1>2 DEF attachThread
  <2>2. entry[t] # b
    BY <2>1, NewBucket
  <2>3. ASSUME NEW u \in Threads PROVE PlaceOf(u)'
    BY <1>2, <2>1, <2>2 DEF attachThread, Goto
  <2>4. ASSUME NEW u \in Threads PROVE HandlerOf(u)'
    BY <1>2, <2>1 DEF attachThread, Goto
  <2> HIDE DEF PlaceOf, HandlerOf
  <2> QED BY <2>3, <2>4
<1>3. ASSUME NEW t \in Threads, OnThreadEnd(t) PROVE PlaceInv'
  BY <1>3 DEF OnThreadEnd, Goto
<1>4. ASSUME NEW t \in Threads, Load(t) PROVE PlaceInv'
  BY <1>4 DEF Load, Goto
<1>5. ASSUME NEW t \in Threads, PutInsert(t) PROVE PlaceInv'
  BY <1>5 DEF PutInsert, Goto, WithCell, Usable
<1>6. ASSUME NEW t \in Threads, PutOverflow(t) PROVE PlaceInv'
  BY <1>6 DEF PutOverflow, Goto
<1>7. ASSUME NEW t \in Threads, PutMoved(t) PROVE PlaceInv'
  <2>1. ASSUME NEW u \in Threads PROVE PlaceOf(u)'
    BY <1>7, SMTT(30) DEF PutMoved, Goto, WithCell, Moved
  <2>2. ASSUME NEW u \in Threads PROVE HandlerOf(u)'
    BY <1>7 DEF PutMoved, Goto, WithCell, Moved
  <2> HIDE DEF PlaceOf, HandlerOf
  <2> QED BY <2>1, <2>2
<1>8. ASSUME NEW t \in Threads, PutFind(t) PROVE PlaceInv'
  BY <1>8 DEF PutFind, Goto, Usable
<1>9. ASSUME NEW t \in Threads, PutUpdate(t) PROVE PlaceInv'
  BY <1>9 DEF PutUpdate, Goto, Usable, Released
<1>10. ASSUME NEW t \in Threads, PutLost(t) PROVE PlaceInv'
  BY <1>10 DEF PutLost, Goto, Moved
<1>11. ASSUME NEW t \in Threads, RemoveNothing(t) PROVE PlaceInv'
  BY <1>11 DEF RemoveNothing, Goto
<1>12. ASSUME NEW t \in Threads, RemoveMoved(t) PROVE PlaceInv'
  BY <1>12 DEF RemoveMoved, Goto, Moved
<1>13. ASSUME NEW t \in Threads, RemoveFind(t) PROVE PlaceInv'
  BY <1>13 DEF RemoveFind, Goto, Usable
<1>14. ASSUME NEW t \in Threads, Remove(t) PROVE PlaceInv'
  BY <1>14 DEF Remove, Goto, Usable
<1>15. ASSUME NEW t \in Threads, RemoveLost(t) PROVE PlaceInv'
  BY <1>15 DEF RemoveLost, Goto, Moved
<1>16. ASSUME NEW t \in Threads, Join(t) PROVE PlaceInv'
  BY <1>16 DEF Join, Goto
<1>17. ASSUME NEW t \in Threads, Leave(t) PROVE PlaceInv'
  BY <1>17 DEF Leave, Goto
<1>18. ASSUME NEW t \in Threads, EndMigration(t) PROVE PlaceInv'
  BY <1>18 DEF EndMigration, Goto
<1>19. ASSUME NEW t \in Threads, Participated(t) PROVE PlaceInv'
  BY <1>19 DEF Participated, Goto
<1>20. ASSUME NEW t \in Threads, Publish(t) PROVE PlaceInv'
  BY <1>20 DEF Publish, Goto
<1>21. ASSUME NEW t \in Threads, scheduleDelete(t) PROVE PlaceInv'
  BY <1>21 DEF scheduleDelete, Goto
<1>22. ASSUME NEW t \in Threads, safepoint(t) PROVE PlaceInv'
  BY <1>22 DEF safepoint, Goto, Lock, Then
<1>23. ASSUME NEW t \in Threads, SafepointMove(t) PROVE PlaceInv'
  <2>1. ASSUME NEW u \in Threads PROVE PlaceOf(u)'
    BY <1>23, SMTT(30) DEF SafepointMove, Goto, Then
  <2>2. ASSUME NEW u \in Threads PROVE HandlerOf(u)'
    BY <1>23 DEF SafepointMove, Goto, Then
  <2> HIDE DEF PlaceOf, HandlerOf
  <2> QED BY <2>1, <2>2
<1>24. ASSUME NEW t \in Threads, detachThread(t) PROVE PlaceInv'
  BY <1>24 DEF detachThread, Goto, Lock, Then
<1>25. ASSUME NEW t \in Threads, NewEpoch(t) PROVE PlaceInv'
  BY <1>25 DEF NewEpoch, Goto
<1>26. ASSUME NEW t \in Threads, ResetRemaining(t) PROVE PlaceInv'
  BY <1>26 DEF ResetRemaining, Goto
<1>27. ASSUME NEW t \in Threads, Unlock(t) PROVE PlaceInv'
  BY <1>27 DEF Unlock, Goto
<1>28. ASSUME NEW t \in Threads, ReleaseBucket(t) PROVE PlaceInv'
  BY <1>28 DEF ReleaseBucket, Goto, Released
<1>29. ASSUME NEW t \in Threads, GetQuietly(t) PROVE PlaceInv'
  BY <1>29 DEF GetQuietly, HandlerGoto, GetLoad, Interruptible
<1>30. ASSUME NEW t \in Threads, GetMoved(t) PROVE PlaceInv'
  BY <1>30 DEF GetMoved, HandlerGoto, Moved
<1>31. ASSUME NEW t \in Threads, GetNothing(t) PROVE PlaceInv'
  BY <1>31 DEF GetNothing, HandlerGoto, Usable
<1>32. ASSUME NEW t \in Threads, acq_bucket(t) PROVE PlaceInv'
  BY <1>32 DEF acq_bucket, HandlerGoto, Usable
<1>33. ASSUME NEW t \in Threads, ss_safepoint(t) PROVE PlaceInv'
  BY <1>33 DEF ss_safepoint, HandlerGoto
<1>34. ASSUME NEW t \in Threads, SignalSubtract(t) PROVE PlaceInv'
  BY <1>34 DEF SignalSubtract, HandlerGoto
<1>35. ASSUME NEW t \in Threads, SignalStore(t) PROVE PlaceInv'
  BY <1>35 DEF SignalStore, HandlerGoto
<1>36. ASSUME NEW t \in Threads, Push(t) PROVE PlaceInv'
  BY <1>36 DEF Push, HandlerGoto
<1>37. ASSUME NEW b \in Buckets, Record(b) PROVE PlaceInv'
  BY <1>37 DEF Record, Released
<1>38. CASE UNCHANGED vars
  BY <1>38 DEF vars
<1> QED BY <1>1, <1>2, <1>3, <1>4, <1>5, <1>6, <1>7, <1>8, <1>9, <1>10, <1>11, <1>12, <1>13, <1>14, <1>15,
    <1>16, <1>17, <1>18, <1>19, <1>20, <1>21, <1>22, <1>23, <1>24, <1>25, <1>26, <1>27, <1>28, <1>29, <1>30,
    <1>31, <1>32, <1>33, <1>34, <1>35, <1>36, <1>37, <1>38 DEF Next, Others, MapStep, GCStep, HandlerStep

\* Every step keeps the relation of the tables.
LEMMA TableStep == StructInv /\ [Next]_vars => TableInv'
<1> SUFFICES ASSUME StructInv, [Next]_vars PROVE TableInv'
  OBVIOUS
<1> USE ThreadAssumption DEF StructInv, TypeInv, GCTypes, MapTypes, BucketTypes, ThreadTypes,
    HandlerTypes, PlaceInv, PlaceOf, HandlerOf, Places, HandlerPlaces, InMap, Held, TableInv,
    TableOf, Tables, gcVars, mapVars, bucketVars, threadVars, handlerVars
<1>1. ASSUME NEW t \in Threads, OnThreadStart(t) PROVE TableInv'
  BY <1>1 DEF OnThreadStart, Goto
<1>2. ASSUME NEW t \in Threads, attachThread(t) PROVE TableInv'
  BY <1>2 DEF attachThread, Goto
<1>3. ASSUME NEW t \in Threads, OnThreadEnd(t) PROVE TableInv'
  BY <1>3 DEF OnThreadEnd, Goto
<1>4. ASSUME NEW t \in Threads, Load(t) PROVE TableInv'
  BY <1>4 DEF Load, Goto
<1>5. ASSUME NEW t \in Threads, PutInsert(t) PROVE TableInv'
  BY <1>5 DEF PutInsert, Goto, WithCell, Usable
<1>6. ASSUME NEW t \in Threads, PutOverflow(t) PROVE TableInv'
  BY <1>6 DEF PutOverflow, Goto
<1>7. ASSUME NEW t \in Threads, PutMoved(t) PROVE TableInv'
  BY <1>7 DEF PutMoved, Goto, WithCell, Moved
<1>8. ASSUME NEW t \in Threads, PutFind(t) PROVE TableInv'
  BY <1>8 DEF PutFind, Goto, Usable
<1>9. ASSUME NEW t \in Threads, PutUpdate(t) PROVE TableInv'
  BY <1>9 DEF PutUpdate, Goto, Usable, Released
<1>10. ASSUME NEW t \in Threads, PutLost(t) PROVE TableInv'
  BY <1>10 DEF PutLost, Goto, Moved
<1>11. ASSUME NEW t \in Threads, RemoveNothing(t) PROVE TableInv'
  BY <1>11 DEF RemoveNothing, Goto
<1>12. ASSUME NEW t \in Threads, RemoveMoved(t) PROVE TableInv'
  BY <1>12 DEF RemoveMoved, Goto, Moved
<1>13. ASSUME NEW t \in Threads, RemoveFind(t) PROVE TableInv'
  BY <1>13 DEF RemoveFind, Goto, Usable
<1>14. ASSUME NEW t \in Threads, Remove(t) PROVE TableInv'
  BY <1>14 DEF Remove, Goto, Usable
<1>15. ASSUME NEW t \in Threads, RemoveLost(t) PROVE TableInv'
  BY <1>15 DEF RemoveLost, Goto, Moved
<1>16. ASSUME NEW t \in Threads, Join(t) PROVE TableInv'
  BY <1>16 DEF Join, Goto
<1>17. ASSUME NEW t \in Threads, Leave(t) PROVE TableInv'
  BY <1>17 DEF Leave, Goto
<1>18. ASSUME NEW t \in Threads, EndMigration(t) PROVE TableInv'
  BY <1>18 DEF EndMigration, Goto, AloneIn
<1>19. ASSUME NEW t \in Threads, Participated(t) PROVE TableInv'
  BY <1>19 DEF Participated, Goto
<1>20. ASSUME NEW t \in Threads, Publish(t) PROVE TableInv'
  <2>1. current < MaxTables /\ root[t] = current /\ current + 1 \in Tables
    BY <1>20 DEF Publish, Goto
  <2>2. cells'[current'] = {u \in Threads : entry[u] # NoBucket} /\ cells'[current] = cells[current]
    BY <1>20, <2>1 DEF Publish
  <2>3. ASSUME NEW u \in Threads PROVE TableOf(u)'
    <3>0. current \in Int /\ root[u] \in Int /\ hroot[u] \in Int /\ root[u] <= current /\ hroot[u] <= current
      OBVIOUS
    <3>1. root'[u] <= current' /\ hroot'[u] <= current' /\ (tpc'[u] = "retire" => root'[u] < current')
      <4>1. UNCHANGED <<root, hroot>> /\ current' = current + 1
        BY <1>20 DEF Publish
      <4> QED BY <3>0, <4>1
    <3>2. tpc'[u] # "work" /\ tpc'[u] # "publish"
      BY <1>20, <2>1 DEF Publish, Goto
    <3>3. entry'[u] # NoBucket => u \in cells'[current']
      BY <1>20, <2>2 DEF Publish
    <3>4. tpc'[u] \in InMap /\ op'[u] = "remove" /\ entry'[u] # NoBucket => u \in cells'[root'[u]]
      <4>1. root'[u] \in Tables /\ root'[u] # current + 1 => cells'[root'[u]] = cells[root[u]]
        BY <1>20 DEF Publish
      <4>2. tpc[u] \in InMap /\ op'[u] = "remove" /\ entry'[u] # NoBucket => u \in cells'[root'[u]]
        BY <1>20, <4>1, <2>1 DEF Publish
      <4> QED BY <1>20, <4>2 DEF Publish, Goto
    <3>5. tpc'[u] = "swap" => u \in cells'[root'[u]]
      <4>1. root[u] \in Tables /\ root[u] # current + 1 => cells'[root'[u]] = cells[root[u]]
        BY <1>20 DEF Publish
      <4>2. tpc'[u] = "swap" => tpc[u] = "swap" /\ root[u] \in Tables
        BY <1>20 DEF Publish, Goto
      <4> QED BY <3>0, <4>1, <4>2
    <3> QED BY <3>1, <3>2, <3>3, <3>4, <3>5
  <2>4. \A u, v \in Threads : tpc'[u] = "publish" /\ tpc'[v] = "publish" => u = v
    BY <1>20 DEF Publish, Goto
  <2>5. \A x \in recentGarbage' \cup oldGarbage' \cup freed' : x < current'
    BY <1>20 DEF Publish
  <2>6. migration' = "none"
    BY <1>20 DEF Publish
  <2> HIDE DEF TableOf
  <2> QED BY <2>3, <2>4, <2>5, <2>6
<1>21. ASSUME NEW t \in Threads, scheduleDelete(t) PROVE TableInv'
  BY <1>21 DEF scheduleDelete, Goto
<1>22. ASSUME NEW t \in Threads, safepoint(t) PROVE TableInv'
  BY <1>22 DEF safepoint, Goto, Lock, Then
<1>23. ASSUME NEW t \in Threads, SafepointMove(t) PROVE TableInv'
  BY <1>23 DEF SafepointMove, Goto, Then
<1>24. ASSUME NEW t \in Threads, detachThread(t) PROVE TableInv'
  BY <1>24 DEF detachThread, Goto, Lock, Then
<1>25. ASSUME NEW t \in Threads, NewEpoch(t) PROVE TableInv'
  BY <1>25 DEF NewEpoch, Goto
<1>26. ASSUME NEW t \in Threads, ResetRemaining(t) PROVE TableInv'
  <2>1. \A u \in Threads : TableOf(u)'
    BY <1>26 DEF ResetRemaining, Goto
  <2>2. \A u, v \in Threads : tpc'[u] = "publish" /\ tpc'[v] = "publish" => u = v
    BY <1>26 DEF ResetRemaining, Goto
  <2>3. migration' # "none" => current' < MaxTables
    BY <1>26 DEF ResetRemaining
  <2>4. \A x \in recentGarbage' \cup oldGarbage' \cup freed' : x < current'
    BY <1>26 DEF ResetRemaining
  <2> HIDE DEF TableOf
  <2> QED BY <2>1, <2>2, <2>3, <2>4
<1>27. ASSUME NEW t \in Threads, Unlock(t) PROVE TableInv'
  BY <1>27 DEF Unlock, Goto
<1>28. ASSUME NEW t \in Threads, ReleaseBucket(t) PROVE TableInv'
  BY <1>28 DEF ReleaseBucket, Goto, Released
<1>29. ASSUME NEW t \in Threads, GetQuietly(t) PROVE TableInv'
  BY <1>29 DEF GetQuietly, HandlerGoto, GetLoad, Interruptible
<1>30. ASSUME NEW t \in Threads, GetMoved(t) PROVE TableInv'
  BY <1>30 DEF GetMoved, HandlerGoto, Moved
<1>31. ASSUME NEW t \in Threads, GetNothing(t) PROVE TableInv'
  BY <1>31 DEF GetNothing, HandlerGoto, Usable
<1>32. ASSUME NEW t \in Threads, acq_bucket(t) PROVE TableInv'
  BY <1>32 DEF acq_bucket, HandlerGoto, Usable
<1>33. ASSUME NEW t \in Threads, ss_safepoint(t) PROVE TableInv'
  BY <1>33 DEF ss_safepoint, HandlerGoto
<1>34. ASSUME NEW t \in Threads, SignalSubtract(t) PROVE TableInv'
  BY <1>34 DEF SignalSubtract, HandlerGoto
<1>35. ASSUME NEW t \in Threads, SignalStore(t) PROVE TableInv'
  BY <1>35 DEF SignalStore, HandlerGoto
<1>36. ASSUME NEW t \in Threads, Push(t) PROVE TableInv'
  BY <1>36 DEF Push, HandlerGoto
<1>37. ASSUME NEW b \in Buckets, Record(b) PROVE TableInv'
  BY <1>37 DEF Record, Released
<1>38. CASE UNCHANGED vars
  BY <1>38 DEF vars
<1> QED BY <1>1, <1>2, <1>3, <1>4, <1>5, <1>6, <1>7, <1>8, <1>9, <1>10, <1>11, <1>12, <1>13, <1>14, <1>15,
    <1>16, <1>17, <1>18, <1>19, <1>20, <1>21, <1>22, <1>23, <1>24, <1>25, <1>26, <1>27, <1>28, <1>29, <1>30,
    <1>31, <1>32, <1>33, <1>34, <1>35, <1>36, <1>37, <1>38 DEF Next, Others, MapStep, GCStep, HandlerStep

(***************************************************************************)
(* Most steps of the map and of its lookups touch neither the buckets nor  *)
(* what GC counts. The others, Moves, are the ones the rest is about.      *)
(***************************************************************************)
Still ==
    /\ UNCHANGED <<gcVars, entry, info, bucketVars, hinfo, hglobal>>
    /\ \A u \in Threads :
           /\ tpc'[u] = tpc[u] \/ (tpc[u] \notin Held /\ tpc'[u] \notin Held)
           /\ Detached(u)' <=> Detached(u)
           /\ hpc'[u] = hpc[u] \/ {hpc[u], hpc'[u]} \cap {"subtract", "store"} = {}
           /\ root'[u] \in {root[u], 0, current} /\ hroot'[u] \in {hroot[u], 0, current}
Moves(t) ==
    \/ attachThread(t) \/ PutInsert(t) \/ PutUpdate(t) \/ Remove(t) \/ RemoveLost(t) \/ scheduleDelete(t)
    \/ safepoint(t) \/ SafepointMove(t) \/ detachThread(t) \/ NewEpoch(t) \/ ResetRemaining(t) \/ Unlock(t)
    \/ ReleaseBucket(t) \/ acq_bucket(t) \/ ss_safepoint(t) \/ SignalSubtract(t) \/ SignalStore(t) \/ Push(t)
Moving == (\E t \in Threads : Moves(t)) \/ \E b \in Buckets : Record(b)

\* Every step is one of the two kinds.
LEMMA StillStep == StructInv /\ [Next]_vars => (Still \/ Moving)
<1> SUFFICES ASSUME StructInv, [Next]_vars PROVE (Still \/ Moving)
  OBVIOUS
<1> USE ThreadAssumption DEF StructInv, TypeInv, ThreadTypes, HandlerTypes, PlaceInv, PlaceOf,
    HandlerOf, Places, HandlerPlaces, InMap, Held, Still, Detached, gcVars, mapVars, bucketVars,
    threadVars, handlerVars
<1>1. ASSUME NEW t \in Threads, OnThreadStart(t) PROVE (Still \/ Moving)
  BY <1>1 DEF OnThreadStart, Goto
<1>2. ASSUME NEW t \in Threads, attachThread(t) PROVE (Still \/ Moving)
  BY <1>2 DEF Moves, Moving
<1>3. ASSUME NEW t \in Threads, OnThreadEnd(t) PROVE (Still \/ Moving)
  BY <1>3 DEF OnThreadEnd, Goto
<1>4. ASSUME NEW t \in Threads, Load(t) PROVE (Still \/ Moving)
  BY <1>4 DEF Load, Goto
<1>5. ASSUME NEW t \in Threads, PutInsert(t) PROVE (Still \/ Moving)
  BY <1>5 DEF Moves, Moving
<1>6. ASSUME NEW t \in Threads, PutOverflow(t) PROVE (Still \/ Moving)
  BY <1>6 DEF PutOverflow, Goto
<1>7. ASSUME NEW t \in Threads, PutMoved(t) PROVE (Still \/ Moving)
  BY <1>7 DEF PutMoved, Goto, WithCell, Moved
<1>8. ASSUME NEW t \in Threads, PutFind(t) PROVE (Still \/ Moving)
  BY <1>8 DEF PutFind, Goto, Usable
<1>9. ASSUME NEW t \in Threads, PutUpdate(t) PROVE (Still \/ Moving)
  BY <1>9 DEF Moves, Moving
<1>10. ASSUME NEW t \in Threads, PutLost(t) PROVE (Still \/ Moving)
  BY <1>10 DEF PutLost, Goto, Moved
<1>11. ASSUME NEW t \in Threads, RemoveNothing(t) PROVE (Still \/ Moving)
  BY <1>11 DEF RemoveNothing, Goto
<1>12. ASSUME NEW t \in Threads, RemoveMoved(t) PROVE (Still \/ Moving)
  BY <1>12 DEF RemoveMoved, Goto, Moved
<1>13. ASSUME NEW t \in Threads, RemoveFind(t) PROVE (Still \/ Moving)
  BY <1>13 DEF RemoveFind, Goto, Usable
<1>14. ASSUME NEW t \in Threads, Remove(t) PROVE (Still \/ Moving)
  BY <1>14 DEF Moves, Moving
<1>15. ASSUME NEW t \in Threads, RemoveLost(t) PROVE (Still \/ Moving)
  BY <1>15 DEF Moves, Moving
<1>16. ASSUME NEW t \in Threads, Join(t) PROVE (Still \/ Moving)
  BY <1>16 DEF Join, Goto
<1>17. ASSUME NEW t \in Threads, Leave(t) PROVE (Still \/ Moving)
  BY <1>17 DEF Leave, Goto
<1>18. ASSUME NEW t \in Threads, EndMigration(t) PROVE (Still \/ Moving)
  BY <1>18 DEF EndMigration, Goto
<1>19. ASSUME NEW t \in Threads, Participated(t) PROVE (Still \/ Moving)
  BY <1>19 DEF Participated, Goto
<1>20. ASSUME NEW t \in Threads, Publish(t) PROVE (Still \/ Moving)
  BY <1>20 DEF Publish, Goto
<1>21. ASSUME NEW t \in Threads, scheduleDelete(t) PROVE (Still \/ Moving)
  BY <1>21 DEF Moves, Moving
<1>22. ASSUME NEW t \in Threads, safepoint(t) PROVE (Still \/ Moving)
  BY <1>22 DEF Moves, Moving
<1>23. ASSUME NEW t \in Threads, SafepointMove(t) PROVE (Still \/ Moving)
  BY <1>23 DEF Moves, Moving
<1>24. ASSUME NEW t \in Threads, detachThread(t) PROVE (Still \/ Moving)
  BY <1>24 DEF Moves, Moving
<1>25. ASSUME NEW t \in Threads, NewEpoch(t) PROVE (Still \/ Moving)
  BY <1>25 DEF Moves, Moving
<1>26. ASSUME NEW t \in Threads, ResetRemaining(t) PROVE (Still \/ Moving)
  BY <1>26 DEF Moves, Moving
<1>27. ASSUME NEW t \in Threads, Unlock(t) PROVE (Still \/ Moving)
  BY <1>27 DEF Moves, Moving
<1>28. ASSUME NEW t \in Threads, ReleaseBucket(t) PROVE (Still \/ Moving)
  BY <1>28 DEF Moves, Moving
<1>29. ASSUME NEW t \in Threads, GetQuietly(t) PROVE (Still \/ Moving)
  BY <1>29 DEF GetQuietly, HandlerGoto, GetLoad, Interruptible
<1>30. ASSUME NEW t \in Threads, GetMoved(t) PROVE (Still \/ Moving)
  BY <1>30 DEF GetMoved, HandlerGoto, Moved
<1>31. ASSUME NEW t \in Threads, GetNothing(t) PROVE (Still \/ Moving)
  BY <1>31 DEF GetNothing, HandlerGoto, Usable
<1>32. ASSUME NEW t \in Threads, acq_bucket(t) PROVE (Still \/ Moving)
  BY <1>32 DEF Moves, Moving
<1>33. ASSUME NEW t \in Threads, ss_safepoint(t) PROVE (Still \/ Moving)
  BY <1>33 DEF Moves, Moving
<1>34. ASSUME NEW t \in Threads, SignalSubtract(t) PROVE (Still \/ Moving)
  BY <1>34 DEF Moves, Moving
<1>35. ASSUME NEW t \in Threads, SignalStore(t) PROVE (Still \/ Moving)
  BY <1>35 DEF Moves, Moving
<1>36. ASSUME NEW t \in Threads, Push(t) PROVE (Still \/ Moving)
  BY <1>36 DEF Moves, Moving
<1>37. ASSUME NEW b \in Buckets, Record(b) PROVE (Still \/ Moving)
  BY <1>37 DEF Moving
<1>38. CASE UNCHANGED vars
  BY <1>38 DEF vars
<1> QED BY <1>1, <1>2, <1>3, <1>4, <1>5, <1>6, <1>7, <1>8, <1>9, <1>10, <1>11, <1>12, <1>13, <1>14, <1>15,
    <1>16, <1>17, <1>18, <1>19, <1>20, <1>21, <1>22, <1>23, <1>24, <1>25, <1>26, <1>27, <1>28, <1>29, <1>30,
    <1>31, <1>32, <1>33, <1>34, <1>35, <1>36, <1>37, <1>38 DEF Next, Others, MapStep, GCStep, HandlerStep

\* Every step keeps the mutex with the thread that is between lock and unlock.
LEMMA MutexStep == StructInv /\ [Next]_vars => MutexInv'
<1> SUFFICES ASSUME StructInv, [Next]_vars PROVE MutexInv'
  OBVIOUS
<1> USE ThreadAssumption DEF StructInv, TypeInv, GCTypes, MapTypes, BucketTypes, ThreadTypes,
    HandlerTypes, Places, Held, MutexInv, gcVars, mapVars, bucketVars, threadVars, handlerVars
<1>1. ASSUME NEW t \in Threads, attachThread(t) PROVE MutexInv'
  BY <1>1 DEF attachThread, Goto
<1>2. ASSUME NEW t \in Threads, PutInsert(t) PROVE MutexInv'
  BY <1>2 DEF PutInsert, Goto, WithCell, Usable
<1>3. ASSUME NEW t \in Threads, PutUpdate(t) PROVE MutexInv'
  BY <1>3 DEF PutUpdate, Goto, Usable, Released
<1>4. ASSUME NEW t \in Threads, Remove(t) PROVE MutexInv'
  BY <1>4 DEF Remove, Goto, Usable
<1>5. ASSUME NEW t \in Threads, RemoveLost(t) PROVE MutexInv'
  BY <1>5 DEF RemoveLost, Goto, Moved
<1>6. ASSUME NEW t \in Threads, scheduleDelete(t) PROVE MutexInv'
  BY <1>6 DEF scheduleDelete, Goto
<1>7. ASSUME NEW t \in Threads, safepoint(t) PROVE MutexInv'
  BY <1>7 DEF safepoint, Goto, Lock, Then
<1>8. ASSUME NEW t \in Threads, SafepointMove(t) PROVE MutexInv'
  BY <1>8 DEF SafepointMove, Goto, Then
<1>9. ASSUME NEW t \in Threads, detachThread(t) PROVE MutexInv'
  BY <1>9 DEF detachThread, Goto, Lock, Then
<1>10. ASSUME NEW t \in Threads, NewEpoch(t) PROVE MutexInv'
  BY <1>10 DEF NewEpoch, Goto
<1>11. ASSUME NEW t \in Threads, ResetRemaining(t) PROVE MutexInv'
  BY <1>11 DEF ResetRemaining, Goto
<1>12. ASSUME NEW t \in Threads, Unlock(t) PROVE MutexInv'
  BY <1>12 DEF Unlock, Goto
<1>13. ASSUME NEW t \in Threads, ReleaseBucket(t) PROVE MutexInv'
  BY <1>13 DEF ReleaseBucket, Goto, Released
<1>14. ASSUME NEW t \in Threads, acq_bucket(t) PROVE MutexInv'
  BY <1>14 DEF acq_bucket, HandlerGoto, Usable
<1>15. ASSUME NEW t \in Threads, ss_safepoint(t) PROVE MutexInv'
  BY <1>15 DEF ss_safepoint, HandlerGoto
<1>16. ASSUME NEW t \in Threads, SignalSubtract(t) PROVE MutexInv'
  BY <1>16 DEF SignalSubtract, HandlerGoto
<1>17. ASSUME NEW t \in Threads, SignalStore(t) PROVE MutexInv'
  BY <1>17 DEF SignalStore, HandlerGoto
<1>18. ASSUME NEW t \in Threads, Push(t) PROVE MutexInv'
  BY <1>18 DEF Push, HandlerGoto
<1>19. ASSUME NEW b \in Buckets, Record(b) PROVE MutexInv'
  BY <1>19 DEF Record, Released
<1>20. CASE Still
  BY <1>20 DEF Still
<1> QED BY <1>1, <1>2, <1>3, <1>4, <1>5, <1>6, <1>7, <1>8, <1>9, <1>10, <1>11, <1>12, <1>13, <1>14, <1>15,
    <1>16, <1>17, <1>18, <1>19, <1>20, StillStep DEF Moves, Moving

\* Who owns which bucket after a step, when only one thread's ownership shrinks.
LEMMA OwnersShrink ==
    ASSUME BucketInv, NEW t \in Threads,
           \A u \in Threads : \A b \in Buckets : Owns(u, b)' => Owns(u, b)
    PROVE  \A b \in Buckets : \A u, v \in Threads : Owns(u, b)' /\ Owns(v, b)' => u = v
  BY DEF BucketInv

\* A step that leaves the references and their counts alone keeps BucketInv.
LEMMA BucketKept ==
    ASSUME StructInv, UNCHANGED <<refs, queued, hinfo>>,
           \A u \in Threads : \A b \in Buckets : Owns(u, b)' <=> Owns(u, b)
    PROVE  BucketInv'
<1>1. ASSUME NEW b \in Buckets PROVE refs'[b] >= Holders(b)'
  <2>1. Owners(b)' = Owners(b) /\ Handlers(b)' = Handlers(b)
    BY DEF Owners, Handlers
  <2> QED BY <2>1, Untouched DEF StructInv, BucketInv
<1> QED BY <1>1, OwnersShrink DEF StructInv, BucketInv

\* Every step keeps the counts of references: what it adds to the holders it adds to refs.
LEMMA BucketStep == StructInv /\ [Next]_vars => BucketInv'
<1> SUFFICES ASSUME StructInv, [Next]_vars PROVE BucketInv'
  OBVIOUS
<1> USE ThreadAssumption DEF StructInv, TypeInv, GCTypes, MapTypes, BucketTypes, ThreadTypes,
    HandlerTypes, PlaceInv, PlaceOf, HandlerOf, Places, HandlerPlaces, InMap, Held, gcVars, mapVars,
    bucketVars, threadVars, handlerVars
<1>1. ASSUME NEW t \in Threads, attachThread(t) PROVE BucketInv'
  <2>1. PICK b \in Buckets : /\ refs[b] = 0 /\ refs' = [refs EXCEPT ![b] = 1]
                             /\ info' = [info EXCEPT ![t] = b]
    BY <1>1 DEF attachThread
  <2>2. info[t] = NoBucket /\ UNCHANGED <<queued, hinfo, entry>>
    BY <1>1 DEF attachThread, Goto
  <2>n. \A u \in Threads : ~Owns(u, b)
    BY <2>1, NewBucket DEF Owns
  <2>3. Owners(b)' = Owners(b) \cup {t} /\ t \notin Owners(b) /\ Handlers(b)' = Handlers(b)
    BY <2>1, <2>2, <2>n DEF Owners, Owns, Handlers
  <2>t. refs'[b] >= Holders(b)'
    <3>0. /\ IsFiniteSet(Owners(b)) /\ IsFiniteSet(Handlers(b))
          /\ Cardinality(Owners(b)) \in Nat /\ Cardinality(Handlers(b)) \in Nat
          /\ refs[b] \in Int /\ queued[b] \in Int /\ refs[b] >= Holders(b)
      BY HoldersOf DEF BucketInv
    <3>1. /\ Cardinality(Owners(b)') = Cardinality(Owners(b)) + 1
          /\ Cardinality(Handlers(b)') = Cardinality(Handlers(b))
      BY <2>3, <3>0, CountStep
    <3>2. refs'[b] = refs[b] + 1 /\ queued'[b] = queued[b]
      BY <2>1, <2>2
    <3> HIDE DEF StructInv, TypeInv
    <3> QED BY <3>0, <3>1, <3>2, Balance DEF StructInv
  <2>o. ASSUME NEW c \in Buckets, c # b PROVE refs'[c] >= Holders(c)'
    <3>1. Owners(c)' = Owners(c) /\ Handlers(c)' = Handlers(c) /\ queued'[c] = queued[c] /\ refs'[c] = refs[c]
      BY <2>1, <2>2, <2>o DEF Owners, Owns, Handlers
    <3> QED BY <3>1, Untouched DEF BucketInv
  <2>u. \A u \in Threads : \A c \in Buckets : Owns(u, c)' <=> (Owns(u, c) \/ (u = t /\ c = b))
    BY <2>1, <2>2 DEF Owns
  <2>v. \A c \in Buckets : \A u, v \in Threads : Owns(u, c)' /\ Owns(v, c)' => u = v
    BY <2>u, <2>n DEF BucketInv
  <2> QED BY <2>o, <2>t, <2>v DEF BucketInv
<1>2. ASSUME NEW t \in Threads, PutInsert(t) PROVE BucketInv'
  <2>1. entry[t] = NoBucket
    BY <1>2 DEF PutInsert, Goto, Usable, TableInv, TableOf
  <2>2. \A u \in Threads : \A b \in Buckets : Owns(u, b)' <=> Owns(u, b)
    BY <1>2, <2>1 DEF PutInsert, Owns
  <2> QED BY <1>2, <2>2, BucketKept DEF PutInsert
<1>3. ASSUME NEW t \in Threads, PutUpdate(t) PROVE BucketInv'
  <2>0. CASE entry[t] = NoBucket
    <3>1. \A u \in Threads : \A b \in Buckets : Owns(u, b)' <=> Owns(u, b)
      BY <1>3, <2>0 DEF PutUpdate, Owns
    <3> QED BY <1>3, <2>0, <3>1, BucketKept DEF PutUpdate
  <2> SUFFICES ASSUME entry[t] # NoBucket PROVE BucketInv'
    BY <2>0
  <2>1. PICK b \in Buckets : b = entry[t]
    OBVIOUS
  <2>2. /\ refs' = [refs EXCEPT ![b] = @ - 1] /\ entry' = [entry EXCEPT ![t] = info[t]]
        /\ info[t] # b /\ UNCHANGED <<queued, hinfo, info>>
    BY <1>3, <2>1 DEF PutUpdate, Goto, Released
  <2>3. Owners(b)' = Owners(b) \ {t} /\ t \in Owners(b) /\ Handlers(b)' = Handlers(b)
    BY <2>1, <2>2 DEF Owners, Owns, Handlers
  <2>t. refs'[b] >= Holders(b)'
    <3>0. /\ IsFiniteSet(Owners(b)) /\ IsFiniteSet(Handlers(b))
          /\ Cardinality(Owners(b)) \in Nat /\ Cardinality(Handlers(b)) \in Nat
          /\ refs[b] \in Int /\ queued[b] \in Int /\ refs[b] >= Holders(b)
      BY HoldersOf DEF BucketInv
    <3>1. /\ Cardinality(Owners(b)') = Cardinality(Owners(b)) - 1
          /\ Cardinality(Handlers(b)') = Cardinality(Handlers(b))
      BY <2>3, <3>0, CountStep
    <3>2. refs'[b] = refs[b] - 1 /\ queued'[b] = queued[b]
      BY <2>1, <2>2
    <3> HIDE DEF StructInv, TypeInv
    <3> QED BY <3>0, <3>1, <3>2, Balance DEF StructInv
  <2>o. ASSUME NEW c \in Buckets, c # b PROVE refs'[c] >= Holders(c)'
    <3>1. Owners(c)' = Owners(c) /\ Handlers(c)' = Handlers(c) /\ queued'[c] = queued[c] /\ refs'[c] = refs[c]
      BY <2>1, <2>2, <2>o DEF Owners, Owns, Handlers
    <3> QED BY <3>1, Untouched DEF BucketInv
  <2>s. \A u \in Threads : \A c \in Buckets : Owns(u, c)' => Owns(u, c)
    BY <2>1, <2>2 DEF Owns
  <2> QED BY <2>o, <2>t, <2>s, OwnersShrink DEF BucketInv
<1>4. ASSUME NEW t \in Threads, Remove(t) PROVE BucketInv'
  <2>1. info[t] = NoBucket \/ info[t] = entry[t]
    BY <1>4 DEF Remove, Goto
  <2>2. \A u \in Threads : \A b \in Buckets : Owns(u, b)' <=> Owns(u, b)
    BY <1>4, <2>1 DEF Remove, Owns
  <2> QED BY <1>4, <2>2, BucketKept DEF Remove
<1>5. ASSUME NEW t \in Threads, RemoveLost(t) PROVE BucketInv'
  <2>1. info[t] = NoBucket \/ info[t] = entry[t]
    BY <1>5 DEF RemoveLost, Goto
  <2>2. \A u \in Threads : \A b \in Buckets : Owns(u, b)' <=> Owns(u, b)
    BY <1>5, <2>1 DEF RemoveLost, Owns
  <2> QED BY <1>5, <2>2, BucketKept DEF RemoveLost
<1>6. ASSUME NEW t \in Threads, scheduleDelete(t) PROVE BucketInv'
  BY <1>6, BucketKept DEF scheduleDelete, Owns
<1>7. ASSUME NEW t \in Threads, safepoint(t) PROVE BucketInv'
  BY <1>7, BucketKept DEF safepoint, Owns
<1>8. ASSUME NEW t \in Threads, SafepointMove(t) PROVE BucketInv'
  BY <1>8, BucketKept DEF SafepointMove, Owns
<1>9. ASSUME NEW t \in Threads, detachThread(t) PROVE BucketInv'
  BY <1>9, BucketKept DEF detachThread, Owns
<1>10. ASSUME NEW t \in Threads, NewEpoch(t) PROVE BucketInv'
  BY <1>10, BucketKept DEF NewEpoch, Owns
<1>11. ASSUME NEW t \in Threads, ResetRemaining(t) PROVE BucketInv'
  BY <1>11, BucketKept DEF ResetRemaining, Owns
<1>12. ASSUME NEW t \in Threads, Unlock(t) PROVE BucketInv'
  BY <1>12, BucketKept DEF Unlock, Owns
<1>13. ASSUME NEW t \in Threads, ReleaseBucket(t) PROVE BucketInv'
  <2>1. PICK b \in Buckets : b = info[t]
    BY <1>13 DEF ReleaseBucket, Goto
  <2>2. /\ refs' = [refs EXCEPT ![b] = @ - 1] /\ info' = [info EXCEPT ![t] = NoBucket]
        /\ entry[t] # b /\ UNCHANGED <<queued, hinfo, entry>>
    BY <1>13, <2>1 DEF ReleaseBucket, Goto, Released
  <2>3. Owners(b)' = Owners(b) \ {t} /\ t \in Owners(b) /\ Handlers(b)' = Handlers(b)
    BY <2>1, <2>2 DEF Owners, Owns, Handlers
  <2>t. refs'[b] >= Holders(b)'
    <3>0. /\ IsFiniteSet(Owners(b)) /\ IsFiniteSet(Handlers(b))
          /\ Cardinality(Owners(b)) \in Nat /\ Cardinality(Handlers(b)) \in Nat
          /\ refs[b] \in Int /\ queued[b] \in Int /\ refs[b] >= Holders(b)
      BY HoldersOf DEF BucketInv
    <3>1. /\ Cardinality(Owners(b)') = Cardinality(Owners(b)) - 1
          /\ Cardinality(Handlers(b)') = Cardinality(Handlers(b))
      BY <2>3, <3>0, CountStep
    <3>2. refs'[b] = refs[b] - 1 /\ queued'[b] = queued[b]
      BY <2>1, <2>2
    <3> HIDE DEF StructInv, TypeInv
    <3> QED BY <3>0, <3>1, <3>2, Balance DEF StructInv
  <2>o. ASSUME NEW c \in Buckets, c # b PROVE refs'[c] >= Holders(c)'
    <3>1. Owners(c)' = Owners(c) /\ Handlers(c)' = Handlers(c) /\ queued'[c] = queued[c] /\ refs'[c] = refs[c]
      BY <2>1, <2>2, <2>o DEF Owners, Owns, Handlers
    <3> QED BY <3>1, Untouched DEF BucketInv
  <2>s. \A u \in Threads : \A c \in Buckets : Owns(u, c)' => Owns(u, c)
    BY <2>1, <2>2 DEF Owns
  <2> QED BY <2>o, <2>t, <2>s, OwnersShrink DEF BucketInv
<1>14. ASSUME NEW t \in Threads, acq_bucket(t) PROVE BucketInv'
  <2>1. PICK b \in Buckets : b = entry[t]
    BY <1>14 DEF acq_bucket
  <2>2. /\ refs' = [refs EXCEPT ![b] = @ + 1] /\ hinfo' = [hinfo EXCEPT ![t] = b]
        /\ hinfo[t] = NoBucket /\ UNCHANGED <<queued, info, entry>>
    BY <1>14, <2>1 DEF acq_bucket, HandlerGoto
  <2>3. Handlers(b)' = Handlers(b) \cup {t} /\ t \notin Handlers(b) /\ Owners(b)' = Owners(b)
    BY <2>1, <2>2 DEF Owners, Owns, Handlers
  <2>t. refs'[b] >= Holders(b)'
    <3>0. /\ IsFiniteSet(Owners(b)) /\ IsFiniteSet(Handlers(b))
          /\ Cardinality(Owners(b)) \in Nat /\ Cardinality(Handlers(b)) \in Nat
          /\ refs[b] \in Int /\ queued[b] \in Int /\ refs[b] >= Holders(b)
      BY HoldersOf DEF BucketInv
    <3>1. /\ Cardinality(Owners(b)') = Cardinality(Owners(b))
          /\ Cardinality(Handlers(b)') = Cardinality(Handlers(b)) + 1
      BY <2>3, <3>0, CountStep
    <3>2. refs'[b] = refs[b] + 1 /\ queued'[b] = queued[b]
      BY <2>1, <2>2
    <3> HIDE DEF StructInv, TypeInv
    <3> QED BY <3>0, <3>1, <3>2, Balance DEF StructInv
  <2>o. ASSUME NEW c \in Buckets, c # b PROVE refs'[c] >= Holders(c)'
    <3>1. Owners(c)' = Owners(c) /\ Handlers(c)' = Handlers(c) /\ queued'[c] = queued[c] /\ refs'[c] = refs[c]
      BY <2>1, <2>2, <2>o DEF Owners, Owns, Handlers
    <3> QED BY <3>1, Untouched DEF BucketInv
  <2>s. \A u \in Threads : \A c \in Buckets : Owns(u, c)' => Owns(u, c)
    BY <2>1, <2>2 DEF Owns
  <2> QED BY <2>o, <2>t, <2>s, OwnersShrink DEF BucketInv
<1>15. ASSUME NEW t \in Threads, ss_safepoint(t) PROVE BucketInv'
  BY <1>15, BucketKept DEF ss_safepoint, Owns
<1>16. ASSUME NEW t \in Threads, SignalSubtract(t) PROVE BucketInv'
  BY <1>16, BucketKept DEF SignalSubtract, Owns
<1>17. ASSUME NEW t \in Threads, SignalStore(t) PROVE BucketInv'
  BY <1>17, BucketKept DEF SignalStore, Owns
<1>18. ASSUME NEW t \in Threads, Push(t) PROVE BucketInv'
  <2>1. PICK b \in Buckets : b = hinfo[t]
    BY <1>18 DEF Push, HandlerGoto
  <2>2. /\ hinfo' = [hinfo EXCEPT ![t] = NoBucket] /\ UNCHANGED <<refs, info, entry>>
        /\ queued' = queued \/ queued' = [queued EXCEPT ![b] = @ + 1]
    BY <1>18, <2>1 DEF Push
  <2>3. Handlers(b)' = Handlers(b) \ {t} /\ t \in Handlers(b) /\ Owners(b)' = Owners(b)
    BY <2>1, <2>2 DEF Owners, Owns, Handlers
  <2>t. refs'[b] >= Holders(b)'
    <3>0. /\ IsFiniteSet(Owners(b)) /\ IsFiniteSet(Handlers(b))
          /\ Cardinality(Owners(b)) \in Nat /\ Cardinality(Handlers(b)) \in Nat
          /\ refs[b] \in Int /\ queued[b] \in Int /\ refs[b] >= Holders(b)
      BY HoldersOf DEF BucketInv
    <3>1. /\ Cardinality(Owners(b)') = Cardinality(Owners(b))
          /\ Cardinality(Handlers(b)') = Cardinality(Handlers(b)) - 1
      BY <2>3, <3>0, CountStep
    <3>2. refs'[b] = refs[b] /\ queued'[b] \in {queued[b], queued[b] + 1}
      BY <2>1, <2>2
    <3> HIDE DEF StructInv, TypeInv
    <3> QED BY <3>0, <3>1, <3>2, Balance DEF StructInv
  <2>o. ASSUME NEW c \in Buckets, c # b PROVE refs'[c] >= Holders(c)'
    <3>1. Owners(c)' = Owners(c) /\ Handlers(c)' = Handlers(c) /\ queued'[c] = queued[c] /\ refs'[c] = refs[c]
      BY <2>1, <2>2, <2>o DEF Owners, Owns, Handlers
    <3> QED BY <3>1, Untouched DEF BucketInv
  <2>s. \A u \in Threads : \A c \in Buckets : Owns(u, c)' => Owns(u, c)
    BY <2>1, <2>2 DEF Owns
  <2> QED BY <2>o, <2>t, <2>s, OwnersShrink DEF BucketInv
<1>19. ASSUME NEW b \in Buckets, Record(b) PROVE BucketInv'
  <2>1. queued' = [queued EXCEPT ![b] = @ - 1] /\ refs' = [refs EXCEPT ![b] = @ - 1]
    BY <1>19 DEF Record, Released
  <2>2. UNCHANGED <<info, hinfo, entry>>
    BY <1>19 DEF Record
  <2>3. Handlers(b)' = Handlers(b) /\ Owners(b)' = Owners(b)
    BY <2>2 DEF Owners, Owns, Handlers
  <2>t. refs'[b] >= Holders(b)'
    <3>0. /\ IsFiniteSet(Owners(b)) /\ IsFiniteSet(Handlers(b))
          /\ Cardinality(Owners(b)) \in Nat /\ Cardinality(Handlers(b)) \in Nat
          /\ refs[b] \in Int /\ queued[b] \in Int /\ refs[b] >= Holders(b)
      BY HoldersOf DEF BucketInv
    <3>1. /\ Cardinality(Owners(b)') = Cardinality(Owners(b))
          /\ Cardinality(Handlers(b)') = Cardinality(Handlers(b))
      BY <2>3, <3>0, CountStep
    <3>2. refs'[b] = refs[b] - 1 /\ queued'[b] = queued[b] - 1
      BY <2>1, <2>2
    <3> HIDE DEF StructInv, TypeInv
    <3> QED BY <3>0, <3>1, <3>2, Balance DEF StructInv
  <2>o. ASSUME NEW c \in Buckets, c # b PROVE refs'[c] >= Holders(c)'
    <3>1. Owners(c)' = Owners(c) /\ Handlers(c)' = Handlers(c) /\ queued'[c] = queued[c] /\ refs'[c] = refs[c]
      BY <2>1, <2>2, <2>o DEF Owners, Owns, Handlers
    <3> QED BY <3>1, Untouched DEF BucketInv
  <2>s. \A u \in Threads : \A c \in Buckets : Owns(u, c)' => Owns(u, c)
    BY <2>1, <2>2 DEF Owns
  <2> QED BY <2>o, <2>t, <2>s, OwnersShrink DEF BucketInv
<1>20. CASE Still
  BY <1>20, BucketKept DEF Still, Owns
<1> QED BY <1>1, <1>2, <1>3, <1>4, <1>5, <1>6, <1>7, <1>8, <1>9, <1>10, <1>11, <1>12, <1>13, <1>14, <1>15,
    <1>16, <1>17, <1>18, <1>19, <1>20, StillStep DEF Moves, Moving

\* The steps that change which buckets are attached.
Attaches(t, b) == entry[t] = b \/ (info[t] = b /\ ~Detached(t))
Registered == \E t \in Threads : attachThread(t) \/ detachThread(t) \/ PutUpdate(t)
AttachedKept == totalThreads' = totalThreads /\ \A b \in Buckets : Attached(b)' <=> Attached(b)

\* A bucket is attached by attachThread, and detached by detachThread or by a
\* put over it.
LEMMA AttachedStep == StructInv /\ [Next]_vars => (Registered \/ AttachedKept)
<1> SUFFICES ASSUME StructInv, [Next]_vars, ~Registered
             PROVE  totalThreads' = totalThreads /\ \A u \in Threads : \A b \in Buckets : Attaches(u, b)' <=> Attaches(u, b)
  BY DEF AttachedKept, Attached, Attaches
<1> DEFINE Same == totalThreads' = totalThreads /\ \A u \in Threads : \A b \in Buckets : Attaches(u, b)' <=> Attaches(u, b)
<1> USE ThreadAssumption DEF StructInv, TypeInv, GCTypes, MapTypes, BucketTypes, ThreadTypes,
    HandlerTypes, PlaceInv, PlaceOf, HandlerOf, Places, HandlerPlaces, InMap, Held, Attaches, Detached, gcVars, mapVars,
    bucketVars, threadVars, handlerVars
<1>1. ASSUME NEW t \in Threads, attachThread(t) PROVE Same
  BY <1>1 DEF Registered
<1>2. ASSUME NEW t \in Threads, PutInsert(t) PROVE Same
  BY <1>2 DEF PutInsert, Goto, Usable, TableInv, TableOf
<1>3. ASSUME NEW t \in Threads, PutUpdate(t) PROVE Same
  BY <1>3 DEF Registered
<1>4. ASSUME NEW t \in Threads, Remove(t) PROVE Same
  BY <1>4 DEF Remove, Goto, Usable
<1>5. ASSUME NEW t \in Threads, RemoveLost(t) PROVE Same
  BY <1>5 DEF RemoveLost, Goto, Moved
<1>6. ASSUME NEW t \in Threads, scheduleDelete(t) PROVE Same
  BY <1>6 DEF scheduleDelete, Goto
<1>7. ASSUME NEW t \in Threads, safepoint(t) PROVE Same
  BY <1>7 DEF safepoint, Goto, Lock, Then
<1>8. ASSUME NEW t \in Threads, SafepointMove(t) PROVE Same
  BY <1>8 DEF SafepointMove, Goto, Then
<1>9. ASSUME NEW t \in Threads, detachThread(t) PROVE Same
  BY <1>9 DEF Registered
<1>10. ASSUME NEW t \in Threads, NewEpoch(t) PROVE Same
  BY <1>10 DEF NewEpoch, Goto
<1>11. ASSUME NEW t \in Threads, ResetRemaining(t) PROVE Same
  BY <1>11 DEF ResetRemaining, Goto
<1>12. ASSUME NEW t \in Threads, Unlock(t) PROVE Same
  BY <1>12 DEF Unlock, Goto
<1>13. ASSUME NEW t \in Threads, ReleaseBucket(t) PROVE Same
  BY <1>13 DEF ReleaseBucket, Goto, Released
<1>14. ASSUME NEW t \in Threads, acq_bucket(t) PROVE Same
  BY <1>14 DEF acq_bucket, HandlerGoto, Usable
<1>15. ASSUME NEW t \in Threads, ss_safepoint(t) PROVE Same
  BY <1>15 DEF ss_safepoint, HandlerGoto
<1>16. ASSUME NEW t \in Threads, SignalSubtract(t) PROVE Same
  BY <1>16 DEF SignalSubtract, HandlerGoto
<1>17. ASSUME NEW t \in Threads, SignalStore(t) PROVE Same
  BY <1>17 DEF SignalStore, HandlerGoto
<1>18. ASSUME NEW t \in Threads, Push(t) PROVE Same
  BY <1>18 DEF Push, HandlerGoto
<1>19. ASSUME NEW b \in Buckets, Record(b) PROVE Same
  BY <1>19 DEF Record, Released
<1>20. CASE Still
  BY <1>20 DEF Still
<1> QED BY <1>1, <1>2, <1>3, <1>4, <1>5, <1>6, <1>7, <1>8, <1>9, <1>10, <1>11, <1>12, <1>13, <1>14, <1>15,
    <1>16, <1>17, <1>18, <1>19, <1>20, StillStep DEF Moves, Moving

\* What the three steps attach and detach.
LEMMA AttachedChange ==
    ASSUME StructInv, NEW t \in Threads
    PROVE  /\ attachThread(t) => \E b \in Buckets : /\ refs[b] = 0 /\ info' = [info EXCEPT ![t] = b]
                                                    /\ localEpoch' = [localEpoch EXCEPT ![b] = globalEpoch - 1]
                                                    /\ \A c \in Buckets : Attached(c)' <=> Attached(c) \/ c = b
           /\ detachThread(t) => /\ info[t] \in Buckets /\ Attached(info[t])
                                 /\ \A c \in Buckets : Attached(c)' <=> Attached(c) /\ c # info[t]
           /\ PutUpdate(t) => \A c \in Buckets : Attached(c)' <=> Attached(c) /\ c # entry[t]
<1> USE ThreadAssumption DEF StructInv, TypeInv, MapTypes, ThreadTypes, HandlerTypes, PlaceInv, PlaceOf, InMap, Held
<1>1. ASSUME attachThread(t)
      PROVE  \E b \in Buckets : /\ refs[b] = 0 /\ info' = [info EXCEPT ![t] = b]
                                /\ localEpoch' = [localEpoch EXCEPT ![b] = globalEpoch - 1]
                                /\ \A c \in Buckets : Attached(c)' <=> Attached(c) \/ c = b
  <2>1. PICK b \in Buckets : /\ refs[b] = 0 /\ info' = [info EXCEPT ![t] = b]
                             /\ localEpoch' = [localEpoch EXCEPT ![b] = globalEpoch - 1]
    BY <1>1 DEF attachThread
  <2>2. info[t] = NoBucket
    BY <1>1 DEF attachThread, Goto
  <2>3. \A u \in Threads : \A c \in Buckets : Attaches(u, c)' <=> Attaches(u, c) \/ (u = t /\ c = b)
    BY <1>1, <2>1, <2>2 DEF attachThread, Goto, Attaches, Detached, mapVars
  <2>4. \A c \in Buckets : Attached(c)' <=> Attached(c) \/ c = b
    BY <2>3 DEF Attached, Attaches
  <2> QED BY <2>1, <2>4
<1>2. ASSUME detachThread(t)
      PROVE  /\ info[t] \in Buckets /\ Attached(info[t])
             /\ \A c \in Buckets : Attached(c)' <=> Attached(c) /\ c # info[t]
  <2>1. info[t] \in Buckets /\ Attaches(t, info[t]) /\ entry[t] = NoBucket
    BY <1>2 DEF detachThread, Goto, Attaches, Detached
  <2>2. \A c \in Buckets : ~Attaches(t, c)'
    BY <1>2, <2>1 DEF detachThread, Goto, Then, Attaches, Detached, mapVars
  <2>3. \A u \in Threads \ {t} : \A c \in Buckets : Attaches(u, c)' <=> Attaches(u, c)
    BY <1>2 DEF detachThread, Goto, Attaches, Detached, mapVars
  <2>4. \A u \in Threads \ {t} : ~Attaches(u, info[t])
    BY <2>1, OneOwner DEF Attaches, Owns
  <2>5. \A c \in Buckets : Attaches(t, c) => c = info[t]
    BY <2>1 DEF Attaches
  <2> HIDE DEF StructInv
  <2> QED BY <2>1, <2>2, <2>3, <2>4, <2>5 DEF Attached, Attaches
<1>3. ASSUME PutUpdate(t) PROVE \A c \in Buckets : Attached(c)' <=> Attached(c) /\ c # entry[t]
  <2>1. info[t] \in Buckets /\ entry[t] # info[t] /\ ~Detached(t) /\ ~Detached(t)'
    BY <1>3 DEF PutUpdate, Goto, Detached
  <2>2. \A c \in Buckets : Attaches(t, c)' <=> c = info[t]
    BY <1>3, <2>1 DEF PutUpdate, Attaches
  <2>3. \A u \in Threads \ {t} : \A c \in Buckets : Attaches(u, c)' <=> Attaches(u, c)
    BY <1>3 DEF PutUpdate, Goto, Attaches, Detached
  <2>4. \A u \in Threads \ {t} : entry[t] \in Buckets => ~Attaches(u, entry[t])
    BY OneOwner DEF Attaches, Owns
  <2>5. \A c \in Buckets : Attaches(t, c) <=> c = info[t] \/ c = entry[t]
    BY <2>1 DEF Attaches
  <2> HIDE DEF StructInv
  <2> QED BY <2>1, <2>2, <2>3, <2>4, <2>5 DEF Attached, Attaches
<1> QED BY <1>1, <1>2, <1>3

\* The buckets that are behind are finitely many, and attached.
LEMMA PendingFinite ==
    /\ PendingSet \subseteq AttachedSet /\ IsFiniteSet(AttachedSet)
    /\ IsFiniteSet(PendingSet) /\ Cardinality(PendingSet) \in Nat
    /\ Cardinality(AttachedSet) \in Nat /\ Cardinality(PendingSet) <= Cardinality(AttachedSet)
<1>1. PendingSet \subseteq AttachedSet /\ AttachedSet \subseteq Buckets
  BY DEF PendingSet, AttachedSet, Pending
<1>2. IsFiniteSet(AttachedSet)
  BY <1>1, FS_Subset, ThreadAssumption
<1>3. IsFiniteSet(PendingSet) /\ Cardinality(PendingSet) <= Cardinality(AttachedSet)
  BY <1>1, <1>2, FS_Subset
<1> QED BY <1>1, <1>2, <1>3, FS_CardinalityType

\* GC never counts fewer threads than there are attached buckets.
LEMMA TotalStep == StructInv /\ [Next]_vars => TotalInv'
<1> SUFFICES ASSUME StructInv, [Next]_vars PROVE TotalInv'
  OBVIOUS
<1>0. /\ IsFiniteSet(AttachedSet) /\ Cardinality(AttachedSet) \in Nat /\ totalThreads \in Int
      /\ totalThreads >= Cardinality(AttachedSet)
  BY PendingFinite DEF StructInv, TypeInv, GCTypes, TotalInv
<1>1. CASE AttachedKept
  <2>1. AttachedSet' = AttachedSet
    BY <1>1 DEF AttachedKept, AttachedSet
  <2> QED BY <1>0, <1>1, <2>1 DEF AttachedKept, TotalInv
<1>2. ASSUME NEW t \in Threads, attachThread(t) PROVE TotalInv'
  <2>1. PICK b \in Buckets : refs[b] = 0 /\ \A c \in Buckets : Attached(c)' <=> Attached(c) \/ c = b
    BY <1>2, AttachedChange
  <2>2. AttachedSet' = AttachedSet \cup {b} /\ b \notin AttachedSet
    BY <2>1, NewBucket DEF AttachedSet
  <2>3. Cardinality(AttachedSet') = Cardinality(AttachedSet) + 1
    BY <1>0, <2>2, FS_AddElement
  <2> QED BY <1>0, <1>2, <2>3 DEF attachThread, TotalInv
<1>3. ASSUME NEW t \in Threads, detachThread(t) PROVE TotalInv'
  <2>1. info[t] \in Buckets /\ Attached(info[t]) /\ \A c \in Buckets : Attached(c)' <=> Attached(c) /\ c # info[t]
    BY <1>3, AttachedChange
  <2>2. AttachedSet' = AttachedSet \ {info[t]} /\ info[t] \in AttachedSet
    BY <2>1 DEF AttachedSet
  <2>3. Cardinality(AttachedSet') = Cardinality(AttachedSet) - 1
    BY <1>0, <2>2, FS_RemoveElement
  <2> QED BY <1>0, <1>3, <2>3 DEF detachThread, TotalInv
<1>4. ASSUME NEW t \in Threads, PutUpdate(t) PROVE TotalInv'
  <2>1. AttachedSet' \subseteq AttachedSet
    BY <1>4, AttachedChange DEF AttachedSet
  <2>2. Cardinality(AttachedSet') <= Cardinality(AttachedSet) /\ Cardinality(AttachedSet') \in Nat
    BY <1>0, <2>1, FS_Subset, FS_CardinalityType
  <2> QED BY <1>0, <1>4, <2>2 DEF PutUpdate, TotalInv, gcVars
<1> QED BY <1>1, <1>2, <1>3, <1>4, AttachedStep DEF Registered


-----------------------------------------------------------------------------
(* The epochs *)

\* Only a thread that starts attaches a bucket.
LEMMA AttachedShrinks ==
    ASSUME StructInv, [Next]_vars, \A t \in Threads : ~attachThread(t)
    PROVE  \A b \in Buckets : Attached(b)' => Attached(b)
  BY AttachedStep, AttachedChange DEF Registered, AttachedKept

\* The bucket of a thread that has detached is not attached.
LEMMA DetachedBucket ==
    ASSUME StructInv, NEW t \in Threads, Detached(t)
    PROVE  info[t] \in Buckets /\ ~Attached(info[t])
<1>1. info[t] \in Buckets /\ entry[t] = NoBucket
  BY DEF StructInv, TypeInv, ThreadTypes, PlaceInv, PlaceOf, Detached, Held
<1>2. \A u \in Threads \ {t} : info[u] # info[t] /\ entry[u] # info[t]
  BY <1>1, OneOwner DEF Owns
<1> QED BY <1>1, <1>2, ThreadAssumption DEF Attached

\* A thread that has the mutex is alone between lock and unlock.
LEMMA AloneHeld ==
    ASSUME StructInv, NEW t \in Threads, tpc[t] \in Held, NEW u \in Threads, tpc[u] \in Held
    PROVE  u = t
  BY DEF StructInv, MutexInv

\* While nobody has the mutex, nobody ends an epoch.
LEMMA NobodyHeld ==
    ASSUME StructInv, mutex = NoThread
    PROVE  ~Resetting /\ \A u \in Threads : tpc[u] \notin Held
  BY ThreadAssumption DEF StructInv, MutexInv, Resetting, Held

\* A handler that has not counted its bucket off yet is waited for.
LEMMA SubtractPending ==
    ASSUME IndInv, NEW t \in Threads, hpc[t] = "subtract"
    PROVE  hinfo[t] \in Buckets /\ Owns(t, hinfo[t]) /\ Pending(hinfo[t])
<1>1. StructInv /\ EpochOf(t)
  BY DEF IndInv, EpochInv
<1>2. hinfo[t] \in Buckets /\ entry[t] = hinfo[t]
  BY <1>1 DEF StructInv, TypeInv, HandlerTypes, PlaceInv, HandlerOf
<1>3. \A u \in Threads \ {t} : hinfo[u] # hinfo[t]
  BY <1>1, <1>2, OneOwner DEF Owns
<1>4. Attached(hinfo[t]) /\ ~CountedOff(hinfo[t])
  BY <1>2, <1>3 DEF Attached, CountedOff
<1> QED BY <1>1, <1>2, <1>4 DEF EpochOf, Pending, Owns

\* The part of EpochInv about single buckets and threads.
Current ==
    /\ globalEpoch >= 1
    /\ \A b \in Buckets : Attached(b) => localEpoch[b] >= 0 /\ localEpoch[b] <= globalEpoch
    /\ \A t \in Threads : EpochOf(t)

\* A step that changes neither epochs nor the handlers' places keeps them right.
LEMMA CurrentKept ==
    ASSUME IndInv, [Next]_vars, \A t \in Threads : ~attachThread(t), globalEpoch' = globalEpoch,
           \A b \in Buckets : Attached(b)' => localEpoch'[b] = localEpoch[b] \/ localEpoch'[b] \in 0..globalEpoch,
           \A t \in Threads : EpochOf(t)'
    PROVE  Current'
  BY AttachedShrinks DEF IndInv, EpochInv, Current, StructInv, TypeInv, GCTypes

\* Every step keeps attached buckets in the global epoch or behind it.
LEMMA CurrentStep == IndInv /\ [Next]_vars => Current'
<1> SUFFICES ASSUME IndInv, [Next]_vars PROVE Current'
  OBVIOUS
<1>a. ASSUME NEW t \in Threads, attachThread(t) PROVE Current'
  <2>1. PICK b \in Buckets : /\ refs[b] = 0 /\ info' = [info EXCEPT ![t] = b]
                             /\ localEpoch' = [localEpoch EXCEPT ![b] = globalEpoch - 1]
                             /\ \A c \in Buckets : Attached(c)' <=> Attached(c) \/ c = b
    BY <1>a, AttachedChange DEF IndInv
  <2>2. /\ UNCHANGED <<globalEpoch, hpc, hinfo, hglobal>> /\ globalEpoch \in Nat /\ globalEpoch >= 1
        /\ tpc[t] = "attach" /\ tpc' = [tpc EXCEPT ![t] = "load"] /\ localEpoch \in [Buckets -> Int]
    BY <1>a DEF attachThread, Goto, handlerVars, IndInv, EpochInv, StructInv, TypeInv, GCTypes, BucketTypes, kEpochInitial
  <2>3. \A u \in Threads : info[u] # b /\ hinfo[u] # b
    BY <2>1, NewBucket DEF IndInv
  <2>4. ASSUME NEW c \in Buckets, Attached(c)' PROVE localEpoch'[c] >= 0 /\ localEpoch'[c] <= globalEpoch'
    BY <2>1, <2>2, <2>4 DEF IndInv, EpochInv
  <2>5. ASSUME NEW u \in Threads PROVE EpochOf(u)'
    BY <2>1, <2>2, <2>3 DEF IndInv, EpochInv, EpochOf, StructInv, TypeInv, ThreadTypes
  <2> QED BY <2>2, <2>4, <2>5 DEF Current
<1> SUFFICES ASSUME \A t \in Threads : ~attachThread(t) PROVE Current'
  BY <1>a
<1>b. /\ StructInv /\ globalEpoch \in Nat /\ globalEpoch >= 1 /\ localEpoch \in [Buckets -> Nat \cup {-1}]
      /\ tpc \in [Threads -> Places] /\ hpc \in [Threads -> HandlerPlaces] /\ hglobal \in [Threads -> Nat]
      /\ hinfo \in [Threads -> Buckets \cup {NoBucket}] /\ info \in [Threads -> Buckets \cup {NoBucket}]
      /\ \A t \in Threads : EpochOf(t)
      /\ \A b \in Buckets : Attached(b) => localEpoch[b] >= 0 /\ localEpoch[b] <= globalEpoch
      /\ \A t \in Threads : HandlerOf(t) /\ PlaceOf(t)
  BY DEF IndInv, EpochInv, StructInv, TypeInv, GCTypes, BucketTypes, ThreadTypes, HandlerTypes, PlaceInv, kEpochInitial
<1>1. ASSUME NEW t \in Threads, attachThread(t) PROVE Current'
  BY <1>1
<1>2. ASSUME NEW t \in Threads, PutInsert(t) PROVE Current'
  BY <1>2, <1>b, CurrentKept DEF PutInsert, Goto, WithCell, Usable, gcVars, bucketVars, handlerVars, PlaceOf,
    InMap, Held, Places, HandlerPlaces, EpochOf
<1>3. ASSUME NEW t \in Threads, PutUpdate(t) PROVE Current'
  BY <1>3, <1>b, CurrentKept DEF PutUpdate, Goto, Usable, Released, gcVars, bucketVars, handlerVars, PlaceOf,
    InMap, Held, Places, HandlerPlaces, EpochOf
<1>4. ASSUME NEW t \in Threads, Remove(t) PROVE Current'
  BY <1>4, <1>b, CurrentKept DEF Remove, Goto, Usable, gcVars, bucketVars, handlerVars, PlaceOf, InMap, Held,
    Places, HandlerPlaces, EpochOf
<1>5. ASSUME NEW t \in Threads, RemoveLost(t) PROVE Current'
  BY <1>5, <1>b, CurrentKept DEF RemoveLost, Goto, Moved, gcVars, bucketVars, handlerVars, PlaceOf, InMap,
    Held, Places, HandlerPlaces, EpochOf
<1>6. ASSUME NEW t \in Threads, scheduleDelete(t) PROVE Current'
  BY <1>6, <1>b, CurrentKept DEF scheduleDelete, Goto, gcVars, bucketVars, handlerVars, PlaceOf, InMap, Held,
    Places, HandlerPlaces, EpochOf
<1>7. ASSUME NEW t \in Threads, safepoint(t) PROVE Current'
  <2>1. ASSUME NEW u \in Threads PROVE EpochOf(u)'
    BY <1>7, <1>b DEF safepoint, Goto, Then, Behind, bucketVars, handlerVars, Places, EpochOf
  <2> QED BY <1>7, <2>1, CurrentKept DEF safepoint, bucketVars
<1>8. ASSUME NEW t \in Threads, SafepointMove(t) PROVE Current'
  <2>1. /\ info[t] \in Buckets /\ Owns(t, info[t]) /\ hpc[t] = "out" /\ tpc[t] = "move" /\ tpc'[t] # "move"
        /\ localEpoch' = [localEpoch EXCEPT ![info[t]] = globalEpoch]
    BY <1>8, <1>b DEF SafepointMove, Goto, Then, PlaceOf, Held, Owns, Places
  <2>2. UNCHANGED <<globalEpoch, hpc, hinfo, hglobal, info>> /\ \A u \in Threads \ {t} : tpc'[u] = tpc[u]
    BY <1>8, <1>b DEF SafepointMove, Goto, handlerVars
  <2>3. \A u \in Threads \ {t} : info[u] # info[t] /\ hinfo[u] # info[t]
    BY <1>b, <2>1, OneOwner
  <2>4. ASSUME NEW u \in Threads PROVE EpochOf(u)'
    BY <1>b, <2>1, <2>2, <2>3 DEF EpochOf
  <2> QED BY <1>b, <2>1, <2>2, <2>4, CurrentKept
<1>9. ASSUME NEW t \in Threads, detachThread(t) PROVE Current'
  BY <1>9, <1>b, CurrentKept DEF detachThread, Goto, Lock, Then, gcVars, bucketVars, handlerVars, PlaceOf,
    InMap, Held, Places, HandlerPlaces, EpochOf
<1>10. ASSUME NEW t \in Threads, NewEpoch(t) PROVE Current'
  <2>1. /\ globalEpoch' = globalEpoch + 1 /\ UNCHANGED <<localEpoch, hpc, hinfo, hglobal, info>> /\ tpc[t] = "epoch"
        /\ PendingSet = {} /\ \A u \in Threads : tpc'[u] = "move" => tpc[u] = "move"
    BY <1>10, <1>b DEF NewEpoch, Goto, bucketVars, handlerVars, IndInv, EpochInv
  <2>2. \A u \in Threads : hpc[u] # "subtract"
    BY <2>1, SubtractPending DEF PendingSet
  <2>3. \A u \in Threads : tpc[u] # "move"
    BY <1>b, <2>1, AloneHeld DEF Held
  <2>4. ASSUME NEW u \in Threads PROVE EpochOf(u)'
    BY <1>b, <2>1, <2>2, <2>3 DEF EpochOf
  <2>5. ASSUME NEW c \in Buckets, Attached(c)' PROVE localEpoch'[c] >= 0 /\ localEpoch'[c] <= globalEpoch'
    BY <1>b, <2>1, <2>5, AttachedShrinks
  <2> QED BY <1>b, <2>1, <2>4, <2>5 DEF Current
<1>11. ASSUME NEW t \in Threads, ResetRemaining(t) PROVE Current'
  BY <1>11, <1>b, CurrentKept DEF ResetRemaining, Goto, gcVars, bucketVars, handlerVars, PlaceOf, InMap, Held,
    Places, HandlerPlaces, EpochOf
<1>12. ASSUME NEW t \in Threads, Unlock(t) PROVE Current'
  <2>1. CASE op[t] = "put"
    <3>1. ASSUME NEW u \in Threads PROVE EpochOf(u)'
      BY <1>12, <2>1, <1>b DEF Unlock, Goto, handlerVars, EpochOf
    <3> QED BY <1>12, <2>1, <3>1, CurrentKept DEF Unlock
  <2>2. CASE op[t] # "put"
    <3>1. Detached(t) /\ hpc[t] = "out"
      BY <1>12, <2>2, <1>b DEF Unlock, Goto, Detached, StructInv, TypeInv, ThreadTypes
    <3>2. info[t] \in Buckets /\ ~Attached(info[t]) /\ Owns(t, info[t])
      BY <1>b, <3>1, DetachedBucket DEF Owns
    <3>3. \A u \in Threads \ {t} : info[u] # info[t] /\ hinfo[u] # info[t]
      BY <1>b, <3>2, OneOwner
    <3>4. /\ localEpoch' = [localEpoch EXCEPT ![info[t]] = kEpochInitial]
          /\ UNCHANGED <<globalEpoch, hpc, hinfo, hglobal, info>> /\ tpc'[t] # "move"
          /\ \A u \in Threads \ {t} : tpc'[u] = tpc[u]
      BY <1>12, <2>2, <1>b DEF Unlock, Goto, handlerVars
    <3>5. ASSUME NEW u \in Threads PROVE EpochOf(u)'
      BY <1>b, <3>1, <3>2, <3>3, <3>4 DEF EpochOf
    <3>6. \A b \in Buckets : Attached(b)' => localEpoch'[b] = localEpoch[b]
      BY <1>b, <3>2, <3>4, AttachedShrinks
    <3> QED BY <3>4, <3>5, <3>6, CurrentKept
  <2> QED BY <2>1, <2>2
<1>13. ASSUME NEW t \in Threads, ReleaseBucket(t) PROVE Current'
  BY <1>13, <1>b, CurrentKept DEF ReleaseBucket, Goto, Released, gcVars, bucketVars, handlerVars, PlaceOf,
    InMap, Held, Places, HandlerPlaces, EpochOf
<1>14. ASSUME NEW t \in Threads, acq_bucket(t) PROVE Current'
  BY <1>14, <1>b, CurrentKept DEF acq_bucket, HandlerGoto, Usable, Behind, kEpochInitial, gcVars, threadVars,
    HandlerOf, Held, Places, HandlerPlaces, EpochOf
<1>15. ASSUME NEW t \in Threads, ss_safepoint(t) PROVE Current'
  <2>1. UNCHANGED <<globalEpoch, localEpoch, tpc, info, hinfo>>
    BY <1>15 DEF ss_safepoint, gcVars, bucketVars, threadVars
  <2>2. ASSUME NEW u \in Threads PROVE EpochOf(u)'
    BY <1>15, <1>b, <2>1 DEF ss_safepoint, HandlerGoto, Behind, HandlerPlaces, EpochOf
  <2> QED BY <2>1, <2>2, CurrentKept
<1>16. ASSUME NEW t \in Threads, SignalSubtract(t) PROVE Current'
  <2>1. UNCHANGED <<globalEpoch, localEpoch, tpc, info, hinfo, hglobal>>
    BY <1>16 DEF SignalSubtract, bucketVars, threadVars
  <2>2. ASSUME NEW u \in Threads PROVE EpochOf(u)'
    BY <1>16, <1>b, <2>1 DEF SignalSubtract, HandlerGoto, HandlerPlaces, EpochOf
  <2> QED BY <2>1, <2>2, CurrentKept
<1>17. ASSUME NEW t \in Threads, SignalStore(t) PROVE Current'
  <2>1. /\ hpc[t] = "store" /\ hinfo[t] \in Buckets /\ Owns(t, hinfo[t]) /\ hpc' = [hpc EXCEPT ![t] = "push"]
        /\ localEpoch' = [localEpoch EXCEPT ![hinfo[t]] = hglobal[t]]
        /\ UNCHANGED <<globalEpoch, hinfo, hglobal, info, tpc>>
    BY <1>17, <1>b DEF SignalStore, HandlerGoto, HandlerOf, Owns, gcVars, threadVars
  <2>2. \A u \in Threads \ {t} : info[u] # hinfo[t] /\ hinfo[u] # hinfo[t]
    BY <1>b, <2>1, OneOwner
  <2>3. hglobal[t] \in 0..globalEpoch /\ tpc[t] # "move"
    BY <1>b, <2>1 DEF EpochOf, HandlerOf, Undisturbed
  <2>4. ASSUME NEW u \in Threads PROVE EpochOf(u)'
    BY <1>b, <2>1, <2>2, <2>3 DEF EpochOf
  <2> QED BY <1>b, <2>1, <2>3, <2>4, CurrentKept
<1>18. ASSUME NEW t \in Threads, Push(t) PROVE Current'
  BY <1>18, <1>b, CurrentKept DEF Push, HandlerGoto, Behind, kEpochInitial, gcVars, threadVars, HandlerOf, Held,
    Places, HandlerPlaces, EpochOf
<1>19. ASSUME NEW b \in Buckets, Record(b) PROVE Current'
  BY <1>19, <1>b, CurrentKept DEF Record, gcVars, threadVars, handlerVars, EpochOf
<1>20. CASE Still
  <2>1. ASSUME NEW u \in Threads PROVE EpochOf(u)'
    BY <1>20, <1>b DEF Still, gcVars, bucketVars, Held, EpochOf
  <2> QED BY <1>20, <2>1, CurrentKept DEF Still, gcVars, bucketVars
<1> QED BY <1>1, <1>2, <1>3, <1>4, <1>5, <1>6, <1>7, <1>8, <1>9, <1>10, <1>11, <1>12, <1>13, <1>14, <1>15,
    <1>16, <1>17, <1>18, <1>19, <1>20, <1>b, StillStep DEF Moves, Moving

\* The steps that change who is behind.
CountsOff(t, b) == hinfo[t] = b /\ hpc[t] = "store" /\ hglobal[t] = globalEpoch
Counted ==
    \E t \in Threads : \/ attachThread(t) \/ detachThread(t) \/ PutUpdate(t)
                       \/ SafepointMove(t) \/ SignalSubtract(t) \/ NewEpoch(t)
\* The others leave the epochs alone but for a bucket nobody waits for and one
\* that a handler has counted off.
Steady ==
    /\ UNCHANGED <<globalEpoch, localEpoch>>
    /\ \A u \in Threads : \A b \in Buckets : CountsOff(u, b)' <=> CountsOff(u, b)
Settles == \E t \in Threads : SignalStore(t) \/ (Unlock(t) /\ op[t] = "remove")

\* Every step is of one of these kinds.
LEMMA SteadyStep == StructInv /\ [Next]_vars => (Counted \/ Settles \/ Steady)
<1> SUFFICES ASSUME StructInv, [Next]_vars PROVE (Counted \/ Settles \/ Steady)
  OBVIOUS
<1> USE DEF StructInv, TypeInv, ThreadTypes, HandlerTypes, PlaceInv, PlaceOf, HandlerOf, HandlerPlaces, InMap, Held,
    Steady, CountsOff, gcVars, bucketVars, handlerVars
<1>1. ASSUME NEW t \in Threads, attachThread(t) PROVE (Counted \/ Settles \/ Steady)
  BY <1>1 DEF Counted
<1>2. ASSUME NEW t \in Threads, PutInsert(t) PROVE (Counted \/ Settles \/ Steady)
  BY <1>2 DEF PutInsert, Goto, WithCell, Usable
<1>3. ASSUME NEW t \in Threads, PutUpdate(t) PROVE (Counted \/ Settles \/ Steady)
  BY <1>3 DEF Counted
<1>4. ASSUME NEW t \in Threads, Remove(t) PROVE (Counted \/ Settles \/ Steady)
  BY <1>4 DEF Remove, Goto, Usable
<1>5. ASSUME NEW t \in Threads, RemoveLost(t) PROVE (Counted \/ Settles \/ Steady)
  BY <1>5 DEF RemoveLost, Goto, Moved
<1>6. ASSUME NEW t \in Threads, scheduleDelete(t) PROVE (Counted \/ Settles \/ Steady)
  BY <1>6 DEF scheduleDelete, Goto
<1>7. ASSUME NEW t \in Threads, safepoint(t) PROVE (Counted \/ Settles \/ Steady)
  BY <1>7 DEF safepoint, Goto, Lock, Then
<1>8. ASSUME NEW t \in Threads, SafepointMove(t) PROVE (Counted \/ Settles \/ Steady)
  BY <1>8 DEF Counted
<1>9. ASSUME NEW t \in Threads, detachThread(t) PROVE (Counted \/ Settles \/ Steady)
  BY <1>9 DEF Counted
<1>10. ASSUME NEW t \in Threads, NewEpoch(t) PROVE (Counted \/ Settles \/ Steady)
  BY <1>10 DEF Counted
<1>11. ASSUME NEW t \in Threads, ResetRemaining(t) PROVE (Counted \/ Settles \/ Steady)
  BY <1>11 DEF ResetRemaining, Goto
<1>12. ASSUME NEW t \in Threads, Unlock(t) PROVE (Counted \/ Settles \/ Steady)
  BY <1>12 DEF Unlock, Settles
<1>13. ASSUME NEW t \in Threads, ReleaseBucket(t) PROVE (Counted \/ Settles \/ Steady)
  BY <1>13 DEF ReleaseBucket, Goto, Released
<1>14. ASSUME NEW t \in Threads, acq_bucket(t) PROVE (Counted \/ Settles \/ Steady)
  BY <1>14 DEF acq_bucket, HandlerGoto, Usable
<1>15. ASSUME NEW t \in Threads, ss_safepoint(t) PROVE (Counted \/ Settles \/ Steady)
  BY <1>15 DEF ss_safepoint, HandlerGoto
<1>16. ASSUME NEW t \in Threads, SignalSubtract(t) PROVE (Counted \/ Settles \/ Steady)
  BY <1>16 DEF Counted
<1>17. ASSUME NEW t \in Threads, SignalStore(t) PROVE (Counted \/ Settles \/ Steady)
  BY <1>17 DEF Settles
<1>18. ASSUME NEW t \in Threads, Push(t) PROVE (Counted \/ Settles \/ Steady)
  BY <1>18 DEF Push, HandlerGoto
<1>19. ASSUME NEW b \in Buckets, Record(b) PROVE (Counted \/ Settles \/ Steady)
  BY <1>19 DEF Record, Released
<1>20. CASE Still
  BY <1>20 DEF Still
<1> QED BY <1>1, <1>2, <1>3, <1>4, <1>5, <1>6, <1>7, <1>8, <1>9, <1>10, <1>11, <1>12, <1>13, <1>14, <1>15,
    <1>16, <1>17, <1>18, <1>19, <1>20, StillStep DEF Moves, Moving

\* A bucket falls behind, catches up or is left in the counted steps only.
LEMMA PendingStep == IndInv /\ [Next]_vars => (Counted \/ PendingSet' = PendingSet)
<1> SUFFICES ASSUME IndInv, [Next]_vars, ~Counted, NEW b \in Buckets PROVE Pending(b)' <=> Pending(b)
  BY DEF PendingSet
<1>0. StructInv /\ globalEpoch \in Nat /\ localEpoch \in [Buckets -> Nat \cup {-1}]
  BY DEF IndInv, StructInv, TypeInv, GCTypes, BucketTypes, kEpochInitial
<1>1. \A c \in Buckets : Attached(c)' <=> Attached(c)
  BY <1>0, AttachedStep DEF Registered, AttachedKept, Counted
<1>2. CASE Steady
  <2>1. CountedOff(b)' <=> CountedOff(b)
    BY <1>2 DEF Steady, CountedOff, CountsOff
  <2> QED BY <1>1, <1>2, <2>1 DEF Steady, Pending
<1>3. ASSUME NEW t \in Threads, Unlock(t), op[t] = "remove" PROVE Pending(b)' <=> Pending(b)
  <2>1. Detached(t)
    BY <1>3 DEF Unlock, Goto, Detached
  <2>2. info[t] \in Buckets /\ ~Attached(info[t])
    BY <1>0, <2>1, DetachedBucket
  <2>3. UNCHANGED <<globalEpoch, hpc, hinfo, hglobal>> /\ localEpoch' = [localEpoch EXCEPT ![info[t]] = kEpochInitial]
    BY <1>3 DEF Unlock, handlerVars
  <2>4. CountedOff(b)' <=> CountedOff(b)
    BY <2>3 DEF CountedOff
  <2> QED BY <1>0, <1>1, <2>2, <2>3, <2>4 DEF Pending
<1>4. ASSUME NEW t \in Threads, SignalStore(t) PROVE Pending(b)' <=> Pending(b)
  <2>1. /\ hpc[t] = "store" /\ hinfo[t] \in Buckets /\ Owns(t, hinfo[t])
        /\ localEpoch' = [localEpoch EXCEPT ![hinfo[t]] = hglobal[t]] /\ hglobal[t] \in Nat
        /\ hpc' = [hpc EXCEPT ![t] = "push"] /\ hpc \in [Threads -> HandlerPlaces]
        /\ UNCHANGED <<globalEpoch, hinfo, hglobal>>
    BY <1>4 DEF SignalStore, HandlerGoto, gcVars, IndInv, StructInv, TypeInv, HandlerTypes, PlaceInv, HandlerOf, Owns
  <2>2. localEpoch[hinfo[t]] < hglobal[t] /\ hglobal[t] <= globalEpoch
    BY <2>1 DEF IndInv, EpochInv, EpochOf
  <2>3. \A u \in Threads \ {t} : hinfo[u] # hinfo[t]
    BY <1>0, <2>1, OneOwner
  <2>4. CASE b # hinfo[t]
    <3>1. CountedOff(b)' <=> CountedOff(b)
      BY <2>1, <2>4 DEF CountedOff
    <3> QED BY <1>0, <1>1, <2>1, <2>4, <3>1 DEF Pending
  <2>5. CASE b = hinfo[t]
    <3>1. ~CountedOff(b)' /\ (CountedOff(b) <=> hglobal[t] = globalEpoch)
      BY <2>1, <2>3, <2>5 DEF CountedOff
    <3>2. localEpoch[b] < globalEpoch /\ localEpoch'[b] = hglobal[t]
      BY <1>0, <2>1, <2>2, <2>5
    <3> QED BY <1>0, <1>1, <2>1, <2>2, <3>1, <3>2 DEF Pending
  <2> QED BY <2>4, <2>5
<1> QED BY <1>0, <1>2, <1>3, <1>4, SteadyStep DEF Settles

\* A bucket whose thread moves is no longer behind, and no other changes.
LEMMA MoveCounts ==
    ASSUME IndInv, NEW t \in Threads, SafepointMove(t)
    PROVE  info[t] \in PendingSet /\ PendingSet' = PendingSet \ {info[t]} /\ remaining' = remaining - 1
<1>0. StructInv /\ globalEpoch \in Nat /\ localEpoch \in [Buckets -> Nat \cup {-1}]
  BY DEF IndInv, StructInv, TypeInv, GCTypes, BucketTypes, kEpochInitial
<1>1. /\ info[t] \in Buckets /\ entry[t] = info[t] /\ hinfo[t] = NoBucket /\ localEpoch[info[t]] < globalEpoch
      /\ localEpoch' = [localEpoch EXCEPT ![info[t]] = globalEpoch] /\ remaining' = remaining - 1
      /\ UNCHANGED <<globalEpoch, hpc, hinfo, hglobal, info>>
  BY DEF SafepointMove, Goto, handlerVars, IndInv, EpochInv, EpochOf, StructInv, TypeInv, ThreadTypes, PlaceInv, PlaceOf,
         HandlerOf, Held
<1>2. \A u \in Threads : hinfo[u] # info[t]
  BY <1>0, <1>1, OneOwner, ThreadAssumption DEF Owns
<1>3. \A b \in Buckets : Attached(b)' <=> Attached(b)
  <2>1. \A u \in Threads : Detached(u)' <=> Detached(u)
    BY <1>0 DEF SafepointMove, Goto, Detached, StructInv, TypeInv, ThreadTypes, PlaceInv, PlaceOf
  <2> QED BY <2>1 DEF SafepointMove, mapVars, Attached
<1>4. Pending(info[t])
  BY <1>0, <1>1, <1>2 DEF Pending, Attached, CountedOff
<1>5. ASSUME NEW b \in Buckets PROVE Pending(b)' <=> Pending(b) /\ b # info[t]
  <2>1. CountedOff(b)' <=> CountedOff(b)
    BY <1>1 DEF CountedOff
  <2> QED BY <1>0, <1>1, <1>3, <2>1 DEF Pending
<1> QED BY <1>1, <1>4, <1>5 DEF PendingSet

\* So it is with the bucket that a handler counts off.
LEMMA SignalCounts ==
    ASSUME IndInv, NEW t \in Threads, SignalSubtract(t)
    PROVE  hinfo[t] \in PendingSet /\ PendingSet' = PendingSet \ {hinfo[t]} /\ remaining' = remaining - 1
<1>0. StructInv /\ hpc \in [Threads -> HandlerPlaces] /\ hglobal[t] = globalEpoch /\ hpc[t] = "subtract"
  BY DEF SignalSubtract, HandlerGoto, IndInv, EpochInv, EpochOf, StructInv, TypeInv, HandlerTypes
<1>1. hinfo[t] \in Buckets /\ Owns(t, hinfo[t]) /\ Pending(hinfo[t])
  BY <1>0, SubtractPending
<1>2. /\ UNCHANGED <<globalEpoch, localEpoch, entry, info, tpc, op, hinfo, hglobal>> /\ remaining' = remaining - 1
      /\ hpc' = [hpc EXCEPT ![t] = "store"]
  BY DEF SignalSubtract, HandlerGoto, mapVars, bucketVars, threadVars
<1>3. \A b \in Buckets : Attached(b)' <=> Attached(b)
  BY <1>2 DEF Attached, Detached
<1>4. CountedOff(hinfo[t])'
  BY <1>0, <1>2 DEF CountedOff
<1>5. ASSUME NEW b \in Buckets, b # hinfo[t] PROVE Pending(b)' <=> Pending(b)
  BY <1>0, <1>2, <1>3, <1>5 DEF Pending, CountedOff
<1> QED BY <1>1, <1>2, <1>4, <1>5 DEF PendingSet, Pending

\* A thread that detaches is behind exactly when it is counted off.
LEMMA DetachCounts ==
    ASSUME IndInv, NEW t \in Threads, detachThread(t)
    PROVE  /\ info[t] \in PendingSet <=> Behind(info[t])
           /\ PendingSet' = PendingSet \ {info[t]}
<1>0. /\ StructInv /\ globalEpoch \in Nat /\ localEpoch \in [Buckets -> Nat \cup {-1}]
      /\ hinfo[t] = NoBucket /\ UNCHANGED <<globalEpoch, localEpoch, hpc, hinfo, hglobal>>
  BY DEF detachThread, Goto, bucketVars, handlerVars, IndInv, StructInv, TypeInv, GCTypes, BucketTypes, PlaceInv,
         HandlerOf, kEpochInitial
<1>1. info[t] \in Buckets /\ Attached(info[t]) /\ \A c \in Buckets : Attached(c)' <=> Attached(c) /\ c # info[t]
  BY <1>0, AttachedChange
<1>2. \A u \in Threads : hinfo[u] # info[t]
  BY <1>0, <1>1, OneOwner, ThreadAssumption DEF Owns
<1>3. Pending(info[t]) <=> Behind(info[t])
  BY <1>0, <1>1, <1>2 DEF Pending, CountedOff, Behind, IndInv, EpochInv, kEpochInitial
<1>4. \A b \in Buckets : CountedOff(b)' <=> CountedOff(b)
  BY <1>0 DEF CountedOff
<1>5. \A b \in Buckets : Pending(b)' <=> Pending(b) /\ b # info[t]
  BY <1>0, <1>1, <1>4 DEF Pending
<1> QED BY <1>1, <1>3, <1>5 DEF PendingSet

\* A bucket that is attached is behind.
LEMMA AttachCounts ==
    ASSUME IndInv, NEW t \in Threads, attachThread(t)
    PROVE  \E b \in Buckets : b \notin PendingSet /\ PendingSet' = PendingSet \cup {b}
<1>0. /\ StructInv /\ globalEpoch \in Nat /\ localEpoch \in [Buckets -> Nat \cup {-1}]
      /\ UNCHANGED <<globalEpoch, hpc, hinfo, hglobal>>
  BY DEF attachThread, handlerVars, IndInv, StructInv, TypeInv, GCTypes, BucketTypes, kEpochInitial
<1>1. PICK b \in Buckets : /\ refs[b] = 0 /\ localEpoch' = [localEpoch EXCEPT ![b] = globalEpoch - 1]
                           /\ \A c \in Buckets : Attached(c)' <=> Attached(c) \/ c = b
  BY <1>0, AttachedChange
<1>2. ~Attached(b) /\ \A u \in Threads : hinfo[u] # b
  BY <1>0, <1>1, NewBucket
<1>3. ~Pending(b) /\ Pending(b)'
  BY <1>0, <1>1, <1>2 DEF Pending, CountedOff
<1>4. ASSUME NEW c \in Buckets, c # b PROVE Pending(c)' <=> Pending(c)
  BY <1>0, <1>1, <1>4 DEF Pending, CountedOff
<1> QED BY <1>3, <1>4 DEF PendingSet

\* A bucket that was left in the map is no longer waited for when a put
\* replaces it.
LEMMA UpdateCounts ==
    ASSUME IndInv, NEW t \in Threads, PutUpdate(t)
    PROVE  PendingSet' = PendingSet \ {entry[t]} /\ remaining' = remaining
<1>0. StructInv /\ UNCHANGED <<remaining, globalEpoch, localEpoch, hpc, hinfo, hglobal>>
  BY DEF PutUpdate, gcVars, handlerVars, IndInv
<1>1. \A c \in Buckets : Attached(c)' <=> Attached(c) /\ c # entry[t]
  BY <1>0, AttachedChange
<1>2. \A b \in Buckets : CountedOff(b)' <=> CountedOff(b)
  BY <1>0 DEF CountedOff
<1> QED BY <1>0, <1>1, <1>2 DEF PendingSet, Pending


\* The steps that test the count or set it again, and what the others do.
Checked == \E t \in Threads : safepoint(t) \/ ResetRemaining(t)
Quiet ==
    /\ remaining' = remaining
    /\ \A u \in Threads : /\ tpc'[u] = "epoch" <=> tpc[u] = "epoch"
                          /\ tpc'[u] = "reset" <=> tpc[u] = "reset"

\* The other steps neither count nor start or end an epoch.
LEMMA QuietStep == StructInv /\ [Next]_vars => (Counted \/ Checked \/ Quiet)
<1> SUFFICES ASSUME StructInv, [Next]_vars PROVE (Counted \/ Checked \/ Quiet)
  OBVIOUS
<1> USE DEF StructInv, TypeInv, ThreadTypes, Places, Held, Quiet, gcVars, threadVars
<1>1. ASSUME NEW t \in Threads, attachThread(t) PROVE (Counted \/ Checked \/ Quiet)
  BY <1>1 DEF Counted
<1>2. ASSUME NEW t \in Threads, PutInsert(t) PROVE (Counted \/ Checked \/ Quiet)
  BY <1>2 DEF PutInsert, Goto, WithCell, Usable
<1>3. ASSUME NEW t \in Threads, PutUpdate(t) PROVE (Counted \/ Checked \/ Quiet)
  BY <1>3 DEF Counted
<1>4. ASSUME NEW t \in Threads, Remove(t) PROVE (Counted \/ Checked \/ Quiet)
  BY <1>4 DEF Remove, Goto, Usable
<1>5. ASSUME NEW t \in Threads, RemoveLost(t) PROVE (Counted \/ Checked \/ Quiet)
  BY <1>5 DEF RemoveLost, Goto, Moved
<1>6. ASSUME NEW t \in Threads, scheduleDelete(t) PROVE (Counted \/ Checked \/ Quiet)
  BY <1>6 DEF scheduleDelete, Goto
<1>7. ASSUME NEW t \in Threads, safepoint(t) PROVE (Counted \/ Checked \/ Quiet)
  BY <1>7 DEF Checked
<1>8. ASSUME NEW t \in Threads, SafepointMove(t) PROVE (Counted \/ Checked \/ Quiet)
  BY <1>8 DEF Counted
<1>9. ASSUME NEW t \in Threads, detachThread(t) PROVE (Counted \/ Checked \/ Quiet)
  BY <1>9 DEF Counted
<1>10. ASSUME NEW t \in Threads, NewEpoch(t) PROVE (Counted \/ Checked \/ Quiet)
  BY <1>10 DEF Counted
<1>11. ASSUME NEW t \in Threads, ResetRemaining(t) PROVE (Counted \/ Checked \/ Quiet)
  BY <1>11 DEF Checked
<1>12. ASSUME NEW t \in Threads, Unlock(t) PROVE (Counted \/ Checked \/ Quiet)
  BY <1>12 DEF Unlock, Goto
<1>13. ASSUME NEW t \in Threads, ReleaseBucket(t) PROVE (Counted \/ Checked \/ Quiet)
  BY <1>13 DEF ReleaseBucket, Goto, Released
<1>14. ASSUME NEW t \in Threads, acq_bucket(t) PROVE (Counted \/ Checked \/ Quiet)
  BY <1>14 DEF acq_bucket, HandlerGoto, Usable
<1>15. ASSUME NEW t \in Threads, ss_safepoint(t) PROVE (Counted \/ Checked \/ Quiet)
  BY <1>15 DEF ss_safepoint, HandlerGoto
<1>16. ASSUME NEW t \in Threads, SignalSubtract(t) PROVE (Counted \/ Checked \/ Quiet)
  BY <1>16 DEF Counted
<1>17. ASSUME NEW t \in Threads, SignalStore(t) PROVE (Counted \/ Checked \/ Quiet)
  BY <1>17 DEF SignalStore, HandlerGoto
<1>18. ASSUME NEW t \in Threads, Push(t) PROVE (Counted \/ Checked \/ Quiet)
  BY <1>18 DEF Push, HandlerGoto
<1>19. ASSUME NEW b \in Buckets, Record(b) PROVE (Counted \/ Checked \/ Quiet)
  BY <1>19 DEF Record, Released
<1>20. CASE Still
  BY <1>20 DEF Still
<1> QED BY <1>1, <1>2, <1>3, <1>4, <1>5, <1>6, <1>7, <1>8, <1>9, <1>10, <1>11, <1>12, <1>13, <1>14, <1>15,
    <1>16, <1>17, <1>18, <1>19, <1>20, StillStep DEF Moves, Moving

\* The part of EpochInv about the count.
CountInv ==
    /\ ~Resetting => remaining >= Cardinality(PendingSet)
    /\ \A t \in Threads : tpc[t] = "epoch" => PendingSet = {}

\* A count that has been taken from remaining leaves it large enough, and 0 only
\* when nobody is behind.
LEMMA CountTaken ==
    ASSUME NEW S, IsFiniteSet(S), NEW r \in Int, r >= Cardinality(S)
    PROVE  r = 0 => S = {}
<1>1. Cardinality(S) \in Nat
  BY FS_CardinalityType
<1> QED BY <1>1, FS_EmptySet

\* Every step keeps the count right, and starts an epoch when nobody is behind.
LEMMA RemainingStep == IndInv /\ [Next]_vars => CountInv'
<1> SUFFICES ASSUME IndInv, [Next]_vars PROVE CountInv'
  OBVIOUS
<1> DEFINE n == Cardinality(PendingSet)
<1>0. /\ StructInv /\ CountInv /\ n \in Nat /\ remaining \in Int /\ IsFiniteSet(PendingSet)
      /\ tpc \in [Threads -> Places]
  BY PendingFinite DEF IndInv, EpochInv, CountInv, StructInv, TypeInv, GCTypes, ThreadTypes
<1>1. CASE Quiet /\ ~Counted
  <2>1. PendingSet' = PendingSet
    BY <1>1, PendingStep
  <2>2. Resetting' <=> Resetting
    BY <1>1 DEF Resetting, Quiet
  <2> QED BY <1>0, <1>1, <2>1, <2>2 DEF CountInv, Quiet
<1>2. ASSUME NEW t \in Threads, attachThread(t) PROVE CountInv'
  <2>1. mutex = NoThread /\ remaining' = remaining + 1
    BY <1>2 DEF attachThread
  <2>2. remaining >= n
    BY <1>0, <2>1, NobodyHeld DEF CountInv
  <2>3. Cardinality(PendingSet') = n + 1
    BY <1>0, <1>2, AttachCounts, CountStep
  <2>4. \A u \in Threads : tpc'[u] # "epoch"
    BY <1>0, <1>2, <2>1, NobodyHeld DEF attachThread, Goto, Held
  <2> HIDE DEF n
  <2> QED BY <1>0, <2>1, <2>2, <2>3, <2>4 DEF CountInv
<1>3. ASSUME NEW t \in Threads, SafepointMove(t) PROVE CountInv'
  <2>1. info[t] \in PendingSet /\ PendingSet' = PendingSet \ {info[t]} /\ remaining' = remaining - 1
    BY <1>3, MoveCounts
  <2>2. Cardinality(PendingSet') = n - 1 /\ IsFiniteSet(PendingSet')
    BY <1>0, <2>1, CountStep, FS_RemoveElement
  <2>3. tpc[t] = "move" /\ tpc' = [tpc EXCEPT ![t] = Then(remaining - 1)]
    BY <1>3 DEF SafepointMove, Goto
  <2>4. \A u \in Threads \ {t} : tpc[u] \notin Held
    BY <1>0, <2>3, AloneHeld DEF Held
  <2>5. remaining >= n
    BY <1>0, <2>3, <2>4 DEF CountInv, Resetting, Held
  <2>6. remaining' >= Cardinality(PendingSet')
    <3> HIDE DEF n
    <3> QED BY <1>0, <2>1, <2>2, <2>5
  <2>7. ASSUME NEW u \in Threads, tpc'[u] = "epoch" PROVE PendingSet' = {}
    <3>1. u = t /\ remaining' = 0 /\ remaining' \in Int
      BY <1>0, <2>1, <2>3, <2>4, <2>7 DEF Held, Then
    <3> QED BY <2>2, <2>6, <3>1, CountTaken
  <2> QED BY <2>6, <2>7 DEF CountInv
<1>4. ASSUME NEW t \in Threads, detachThread(t) PROVE CountInv'
  <2>1. PICK r \in Int : r = remaining'
    BY <1>0, <1>4 DEF detachThread
  <2>2. /\ mutex = NoThread /\ tpc[t] = "detach" /\ tpc' = [tpc EXCEPT ![t] = Then(r)]
        /\ r = IF Behind(info[t]) THEN remaining - 1 ELSE remaining
    BY <1>4, <2>1 DEF detachThread, Goto, Lock
  <2>3. PendingSet' = PendingSet \ {info[t]} /\ (info[t] \in PendingSet <=> Behind(info[t]))
    BY <1>4, DetachCounts
  <2>4. remaining >= n
    BY <1>0, <2>2, NobodyHeld DEF CountInv
  <2>5. Cardinality(PendingSet') = (IF Behind(info[t]) THEN n - 1 ELSE n) /\ IsFiniteSet(PendingSet')
    <3>1. CASE info[t] \in PendingSet
      BY <1>0, <2>3, <3>1, CountStep, FS_RemoveElement
    <3>2. CASE info[t] \notin PendingSet
      <4>1. PendingSet' = PendingSet
        BY <2>3, <3>2
      <4> QED BY <1>0, <2>3, <3>2, <4>1
    <3> QED BY <3>1, <3>2
  <2>6. r >= Cardinality(PendingSet')
    <3> HIDE DEF n
    <3> QED BY <1>0, <2>2, <2>4, <2>5
  <2>7. ASSUME NEW u \in Threads, tpc'[u] = "epoch" PROVE PendingSet' = {}
    <3>1. r = 0
      BY <1>0, <2>2, <2>7, NobodyHeld DEF Held, Then
    <3> QED BY <2>5, <2>6, <3>1, CountTaken
  <2> QED BY <2>1, <2>6, <2>7 DEF CountInv
<1>5. ASSUME NEW t \in Threads, NewEpoch(t) PROVE CountInv'
  <2>1. tpc[t] = "epoch" /\ tpc' = [tpc EXCEPT ![t] = "reset"]
    BY <1>5 DEF NewEpoch, Goto
  <2>2. Resetting'
    BY <1>0, <2>1 DEF Resetting
  <2>3. \A u \in Threads : tpc'[u] # "epoch"
    BY <1>0, <2>1, AloneHeld DEF Held
  <2> QED BY <2>2, <2>3 DEF CountInv
<1>6. ASSUME NEW t \in Threads, SignalSubtract(t) PROVE CountInv'
  <2>1. hinfo[t] \in PendingSet /\ PendingSet' = PendingSet \ {hinfo[t]} /\ remaining' = remaining - 1
    BY <1>6, SignalCounts
  <2>2. Cardinality(PendingSet') = n - 1
    BY <1>0, <2>1, CountStep
  <2>3. UNCHANGED tpc
    BY <1>6 DEF SignalSubtract, threadVars
  <2>4. Resetting' <=> Resetting
    BY <2>3 DEF Resetting
  <2>5. ~Resetting' => remaining' >= Cardinality(PendingSet')
    <3>1. ~Resetting => remaining >= n
      BY <1>0 DEF CountInv
    <3> HIDE DEF n
    <3> QED BY <1>0, <2>1, <2>2, <2>4, <3>1
  <2> QED BY <1>0, <2>1, <2>3, <2>5 DEF CountInv
<1>7. ASSUME NEW t \in Threads, PutUpdate(t) PROVE CountInv'
  <2>1. PendingSet' \subseteq PendingSet /\ remaining' = remaining
    BY <1>7, UpdateCounts
  <2>2. Cardinality(PendingSet') <= n /\ Cardinality(PendingSet') \in Nat
    BY <1>0, <2>1, FS_Subset, FS_CardinalityType
  <2>3. \A u \in Threads : tpc'[u] = "epoch" <=> tpc[u] = "epoch"
    BY <1>0, <1>7 DEF PutUpdate, Goto
  <2>4. Resetting' <=> Resetting
    BY <1>0, <1>7 DEF PutUpdate, Goto, Resetting
  <2>5. ~Resetting' => remaining' >= Cardinality(PendingSet')
    <3>1. ~Resetting => remaining >= n
      BY <1>0 DEF CountInv
    <3> HIDE DEF n
    <3> QED BY <1>0, <2>1, <2>2, <2>4, <3>1
  <2> QED BY <1>0, <2>1, <2>3, <2>5 DEF CountInv
<1>8. ASSUME NEW t \in Threads, safepoint(t), ~Counted PROVE CountInv'
  <2>1. /\ mutex = NoThread /\ remaining' = remaining /\ tpc[t] = "safepoint"
        /\ tpc' = [tpc EXCEPT ![t] = IF Behind(info[t]) THEN "move" ELSE Then(remaining)]
    BY <1>8 DEF safepoint, Goto, Lock
  <2>2. PendingSet' = PendingSet
    BY <1>8, PendingStep
  <2>3. remaining >= n
    BY <1>0, <2>1, NobodyHeld DEF CountInv
  <2>4. ASSUME NEW u \in Threads, tpc'[u] = "epoch" PROVE PendingSet' = {}
    <3>1. remaining = 0
      BY <1>0, <2>1, <2>4, NobodyHeld DEF Held, Then
    <3> QED BY <1>0, <2>2, <2>3, <3>1, CountTaken
  <2> QED BY <2>1, <2>2, <2>3, <2>4 DEF CountInv
<1>9. ASSUME NEW t \in Threads, ResetRemaining(t), ~Counted PROVE CountInv'
  <2>1. tpc[t] = "reset" /\ tpc' = [tpc EXCEPT ![t] = "unlock"] /\ remaining' = totalThreads
    BY <1>9 DEF ResetRemaining, Goto
  <2>2. PendingSet' = PendingSet
    BY <1>9, PendingStep
  <2>3. totalThreads >= Cardinality(AttachedSet) /\ totalThreads \in Int
    BY <1>0 DEF StructInv, TotalInv, TypeInv, GCTypes
  <2>4. remaining' >= Cardinality(PendingSet')
    BY <2>1, <2>2, <2>3, PendingFinite
  <2>5. \A u \in Threads : tpc'[u] # "epoch"
    BY <1>0, <2>1, AloneHeld DEF Held
  <2> QED BY <2>4, <2>5 DEF CountInv
<1>10. CASE Counted
  BY <1>2, <1>3, <1>4, <1>5, <1>6, <1>7, <1>10 DEF Counted
<1>11. CASE Checked /\ ~Counted
  BY <1>8, <1>9, <1>11 DEF Checked
<1> QED BY <1>0, <1>1, <1>10, <1>11, QuietStep

\* Every step keeps the epochs right.
LEMMA EpochStep == IndInv /\ [Next]_vars => EpochInv'
  BY CurrentStep, RemainingStep DEF Current, CountInv, EpochInv

-----------------------------------------------------------------------------
(* The garbage *)

\* What a step may do to the tables that threads have.
TakesCurrent ==
    \A t \in Threads : \A x \in Tables :
        Uses(t, x)' => x = current \/ (Uses(t, x) /\ info'[t] = info[t])

\* A thread takes no table but the current one.
LEMMA UsesStep == StructInv /\ [Next]_vars => TakesCurrent
<1> SUFFICES ASSUME StructInv, [Next]_vars PROVE TakesCurrent
  OBVIOUS
<1> USE ThreadAssumption DEF StructInv, TypeInv, MapTypes, ThreadTypes, HandlerTypes, PlaceInv, PlaceOf, HandlerOf, Places,
    HandlerPlaces, InMap, Held, Tables, Uses, TakesCurrent, gcVars, mapVars, bucketVars, threadVars, handlerVars
<1>1. ASSUME NEW t \in Threads, attachThread(t) PROVE TakesCurrent
  BY <1>1 DEF attachThread, Goto
<1>2. ASSUME NEW t \in Threads, PutInsert(t) PROVE TakesCurrent
  BY <1>2 DEF PutInsert, Goto, WithCell, Usable
<1>3. ASSUME NEW t \in Threads, PutUpdate(t) PROVE TakesCurrent
  BY <1>3 DEF PutUpdate, Goto, Usable, Released
<1>4. ASSUME NEW t \in Threads, Remove(t) PROVE TakesCurrent
  BY <1>4, ZenonT(40) DEF Remove, Goto, Usable
<1>5. ASSUME NEW t \in Threads, RemoveLost(t) PROVE TakesCurrent
  BY <1>5 DEF RemoveLost, Goto, Moved
<1>6. ASSUME NEW t \in Threads, scheduleDelete(t) PROVE TakesCurrent
  BY <1>6 DEF scheduleDelete, Goto
<1>7. ASSUME NEW t \in Threads, safepoint(t) PROVE TakesCurrent
  BY <1>7 DEF safepoint, Goto, Lock, Then
<1>8. ASSUME NEW t \in Threads, SafepointMove(t) PROVE TakesCurrent
  BY <1>8 DEF SafepointMove, Goto, Then
<1>9. ASSUME NEW t \in Threads, detachThread(t) PROVE TakesCurrent
  BY <1>9 DEF detachThread, Goto, Lock, Then
<1>10. ASSUME NEW t \in Threads, NewEpoch(t) PROVE TakesCurrent
  BY <1>10 DEF NewEpoch, Goto
<1>11. ASSUME NEW t \in Threads, ResetRemaining(t) PROVE TakesCurrent
  BY <1>11 DEF ResetRemaining, Goto
<1>12. ASSUME NEW t \in Threads, Unlock(t) PROVE TakesCurrent
  BY <1>12 DEF Unlock, Goto
<1>13. ASSUME NEW t \in Threads, ReleaseBucket(t) PROVE TakesCurrent
  BY <1>13 DEF ReleaseBucket, Goto, Released
<1>14. ASSUME NEW t \in Threads, acq_bucket(t) PROVE TakesCurrent
  BY <1>14 DEF acq_bucket, HandlerGoto, Usable
<1>15. ASSUME NEW t \in Threads, ss_safepoint(t) PROVE TakesCurrent
  BY <1>15 DEF ss_safepoint, HandlerGoto
<1>16. ASSUME NEW t \in Threads, SignalSubtract(t) PROVE TakesCurrent
  BY <1>16 DEF SignalSubtract, HandlerGoto
<1>17. ASSUME NEW t \in Threads, SignalStore(t) PROVE TakesCurrent
  BY <1>17 DEF SignalStore, HandlerGoto
<1>18. ASSUME NEW t \in Threads, Push(t) PROVE TakesCurrent
  BY <1>18 DEF Push, HandlerGoto
<1>19. ASSUME NEW b \in Buckets, Record(b) PROVE TakesCurrent
  BY <1>19 DEF Record, Released
<1>20. CASE Still
  BY <1>20 DEF Still
<1> QED BY <1>1, <1>2, <1>3, <1>4, <1>5, <1>6, <1>7, <1>8, <1>9, <1>10, <1>11, <1>12, <1>13, <1>14, <1>15,
    <1>16, <1>17, <1>18, <1>19, <1>20, StillStep DEF Moves, Moving

\* The steps that retire, age and delete tables.
Retires == \E t \in Threads : scheduleDelete(t) \/ NewEpoch(t) \/ ResetRemaining(t)
SameGarbage ==
    /\ UNCHANGED <<recentGarbage, oldGarbage, freed>>
    /\ \A u \in Threads : tpc'[u] = "reset" <=> tpc[u] = "reset"

\* Only these steps move tables towards their end.
LEMMA GarbageKept == StructInv /\ [Next]_vars => (Retires \/ SameGarbage)
<1> SUFFICES ASSUME StructInv, [Next]_vars PROVE (Retires \/ SameGarbage)
  OBVIOUS
<1> USE DEF StructInv, TypeInv, ThreadTypes, Places, Held, SameGarbage, gcVars, threadVars
<1>1. ASSUME NEW t \in Threads, attachThread(t) PROVE (Retires \/ SameGarbage)
  BY <1>1 DEF attachThread, Goto
<1>2. ASSUME NEW t \in Threads, PutInsert(t) PROVE (Retires \/ SameGarbage)
  BY <1>2 DEF PutInsert, Goto, WithCell, Usable
<1>3. ASSUME NEW t \in Threads, PutUpdate(t) PROVE (Retires \/ SameGarbage)
  BY <1>3 DEF PutUpdate, Goto, Usable, Released
<1>4. ASSUME NEW t \in Threads, Remove(t) PROVE (Retires \/ SameGarbage)
  BY <1>4 DEF Remove, Goto, Usable
<1>5. ASSUME NEW t \in Threads, RemoveLost(t) PROVE (Retires \/ SameGarbage)
  BY <1>5 DEF RemoveLost, Goto, Moved
<1>6. ASSUME NEW t \in Threads, scheduleDelete(t) PROVE (Retires \/ SameGarbage)
  BY <1>6 DEF Retires
<1>7. ASSUME NEW t \in Threads, safepoint(t) PROVE (Retires \/ SameGarbage)
  BY <1>7 DEF safepoint, Goto, Lock, Then
<1>8. ASSUME NEW t \in Threads, SafepointMove(t) PROVE (Retires \/ SameGarbage)
  BY <1>8 DEF SafepointMove, Goto, Then
<1>9. ASSUME NEW t \in Threads, detachThread(t) PROVE (Retires \/ SameGarbage)
  BY <1>9 DEF detachThread, Goto, Lock, Then
<1>10. ASSUME NEW t \in Threads, NewEpoch(t) PROVE (Retires \/ SameGarbage)
  BY <1>10 DEF Retires
<1>11. ASSUME NEW t \in Threads, ResetRemaining(t) PROVE (Retires \/ SameGarbage)
  BY <1>11 DEF Retires
<1>12. ASSUME NEW t \in Threads, Unlock(t) PROVE (Retires \/ SameGarbage)
  BY <1>12 DEF Unlock, Goto
<1>13. ASSUME NEW t \in Threads, ReleaseBucket(t) PROVE (Retires \/ SameGarbage)
  BY <1>13 DEF ReleaseBucket, Goto, Released
<1>14. ASSUME NEW t \in Threads, acq_bucket(t) PROVE (Retires \/ SameGarbage)
  BY <1>14 DEF acq_bucket, HandlerGoto, Usable
<1>15. ASSUME NEW t \in Threads, ss_safepoint(t) PROVE (Retires \/ SameGarbage)
  BY <1>15 DEF ss_safepoint, HandlerGoto
<1>16. ASSUME NEW t \in Threads, SignalSubtract(t) PROVE (Retires \/ SameGarbage)
  BY <1>16 DEF SignalSubtract, HandlerGoto
<1>17. ASSUME NEW t \in Threads, SignalStore(t) PROVE (Retires \/ SameGarbage)
  BY <1>17 DEF SignalStore, HandlerGoto
<1>18. ASSUME NEW t \in Threads, Push(t) PROVE (Retires \/ SameGarbage)
  BY <1>18 DEF Push, HandlerGoto
<1>19. ASSUME NEW b \in Buckets, Record(b) PROVE (Retires \/ SameGarbage)
  BY <1>19 DEF Record, Released
<1>20. CASE Still
  BY <1>20 DEF Still
<1> QED BY <1>1, <1>2, <1>3, <1>4, <1>5, <1>6, <1>7, <1>8, <1>9, <1>10, <1>11, <1>12, <1>13, <1>14, <1>15,
    <1>16, <1>17, <1>18, <1>19, <1>20, StillStep DEF Moves, Moving

\* Only NewEpoch moves the global epoch.
LEMMA EpochMoves == [Next]_vars => (globalEpoch' = globalEpoch \/ \E u \in Threads : NewEpoch(u))
<1> SUFFICES ASSUME [Next]_vars PROVE (globalEpoch' = globalEpoch \/ \E u \in Threads : NewEpoch(u))
  OBVIOUS
<1> USE DEF gcVars
<1>1. ASSUME NEW t \in Threads, OnThreadStart(t) PROVE (globalEpoch' = globalEpoch \/ \E u \in Threads : NewEpoch(u))
  BY <1>1 DEF OnThreadStart
<1>2. ASSUME NEW t \in Threads, attachThread(t) PROVE (globalEpoch' = globalEpoch \/ \E u \in Threads : NewEpoch(u))
  BY <1>2 DEF attachThread
<1>3. ASSUME NEW t \in Threads, OnThreadEnd(t) PROVE (globalEpoch' = globalEpoch \/ \E u \in Threads : NewEpoch(u))
  BY <1>3 DEF OnThreadEnd
<1>4. ASSUME NEW t \in Threads, Load(t) PROVE (globalEpoch' = globalEpoch \/ \E u \in Threads : NewEpoch(u))
  BY <1>4 DEF Load
<1>5. ASSUME NEW t \in Threads, PutInsert(t) PROVE (globalEpoch' = globalEpoch \/ \E u \in Threads : NewEpoch(u))
  BY <1>5 DEF PutInsert
<1>6. ASSUME NEW t \in Threads, PutOverflow(t) PROVE (globalEpoch' = globalEpoch \/ \E u \in Threads : NewEpoch(u))
  BY <1>6 DEF PutOverflow
<1>7. ASSUME NEW t \in Threads, PutMoved(t) PROVE (globalEpoch' = globalEpoch \/ \E u \in Threads : NewEpoch(u))
  BY <1>7 DEF PutMoved
<1>8. ASSUME NEW t \in Threads, PutFind(t) PROVE (globalEpoch' = globalEpoch \/ \E u \in Threads : NewEpoch(u))
  BY <1>8 DEF PutFind
<1>9. ASSUME NEW t \in Threads, PutUpdate(t) PROVE (globalEpoch' = globalEpoch \/ \E u \in Threads : NewEpoch(u))
  BY <1>9 DEF PutUpdate
<1>10. ASSUME NEW t \in Threads, PutLost(t) PROVE (globalEpoch' = globalEpoch \/ \E u \in Threads : NewEpoch(u))
  BY <1>10 DEF PutLost
<1>11. ASSUME NEW t \in Threads, RemoveNothing(t) PROVE (globalEpoch' = globalEpoch \/ \E u \in Threads : NewEpoch(u))
  BY <1>11 DEF RemoveNothing
<1>12. ASSUME NEW t \in Threads, RemoveMoved(t) PROVE (globalEpoch' = globalEpoch \/ \E u \in Threads : NewEpoch(u))
  BY <1>12 DEF RemoveMoved
<1>13. ASSUME NEW t \in Threads, RemoveFind(t) PROVE (globalEpoch' = globalEpoch \/ \E u \in Threads : NewEpoch(u))
  BY <1>13 DEF RemoveFind
<1>14. ASSUME NEW t \in Threads, Remove(t) PROVE (globalEpoch' = globalEpoch \/ \E u \in Threads : NewEpoch(u))
  BY <1>14 DEF Remove
<1>15. ASSUME NEW t \in Threads, RemoveLost(t) PROVE (globalEpoch' = globalEpoch \/ \E u \in Threads : NewEpoch(u))
  BY <1>15 DEF RemoveLost
<1>16. ASSUME NEW t \in Threads, Join(t) PROVE (globalEpoch' = globalEpoch \/ \E u \in Threads : NewEpoch(u))
  BY <1>16 DEF Join
<1>17. ASSUME NEW t \in Threads, Leave(t) PROVE (globalEpoch' = globalEpoch \/ \E u \in Threads : NewEpoch(u))
  BY <1>17 DEF Leave
<1>18. ASSUME NEW t \in Threads, EndMigration(t) PROVE (globalEpoch' = globalEpoch \/ \E u \in Threads : NewEpoch(u))
  BY <1>18 DEF EndMigration
<1>19. ASSUME NEW t \in Threads, Participated(t) PROVE (globalEpoch' = globalEpoch \/ \E u \in Threads : NewEpoch(u))
  BY <1>19 DEF Participated
<1>20. ASSUME NEW t \in Threads, Publish(t) PROVE (globalEpoch' = globalEpoch \/ \E u \in Threads : NewEpoch(u))
  BY <1>20 DEF Publish
<1>21. ASSUME NEW t \in Threads, scheduleDelete(t) PROVE (globalEpoch' = globalEpoch \/ \E u \in Threads : NewEpoch(u))
  BY <1>21 DEF scheduleDelete
<1>22. ASSUME NEW t \in Threads, safepoint(t) PROVE (globalEpoch' = globalEpoch \/ \E u \in Threads : NewEpoch(u))
  BY <1>22 DEF safepoint
<1>23. ASSUME NEW t \in Threads, SafepointMove(t) PROVE (globalEpoch' = globalEpoch \/ \E u \in Threads : NewEpoch(u))
  BY <1>23 DEF SafepointMove
<1>24. ASSUME NEW t \in Threads, detachThread(t) PROVE (globalEpoch' = globalEpoch \/ \E u \in Threads : NewEpoch(u))
  BY <1>24 DEF detachThread
<1>25. ASSUME NEW t \in Threads, NewEpoch(t) PROVE (globalEpoch' = globalEpoch \/ \E u \in Threads : NewEpoch(u))
  BY <1>25
<1>26. ASSUME NEW t \in Threads, ResetRemaining(t) PROVE (globalEpoch' = globalEpoch \/ \E u \in Threads : NewEpoch(u))
  BY <1>26 DEF ResetRemaining
<1>27. ASSUME NEW t \in Threads, Unlock(t) PROVE (globalEpoch' = globalEpoch \/ \E u \in Threads : NewEpoch(u))
  BY <1>27 DEF Unlock
<1>28. ASSUME NEW t \in Threads, ReleaseBucket(t) PROVE (globalEpoch' = globalEpoch \/ \E u \in Threads : NewEpoch(u))
  BY <1>28 DEF ReleaseBucket
<1>29. ASSUME NEW t \in Threads, GetQuietly(t) PROVE (globalEpoch' = globalEpoch \/ \E u \in Threads : NewEpoch(u))
  BY <1>29 DEF GetQuietly, GetLoad
<1>30. ASSUME NEW t \in Threads, GetMoved(t) PROVE (globalEpoch' = globalEpoch \/ \E u \in Threads : NewEpoch(u))
  BY <1>30 DEF GetMoved
<1>31. ASSUME NEW t \in Threads, GetNothing(t) PROVE (globalEpoch' = globalEpoch \/ \E u \in Threads : NewEpoch(u))
  BY <1>31 DEF GetNothing
<1>32. ASSUME NEW t \in Threads, acq_bucket(t) PROVE (globalEpoch' = globalEpoch \/ \E u \in Threads : NewEpoch(u))
  BY <1>32 DEF acq_bucket
<1>33. ASSUME NEW t \in Threads, ss_safepoint(t) PROVE (globalEpoch' = globalEpoch \/ \E u \in Threads : NewEpoch(u))
  BY <1>33 DEF ss_safepoint
<1>34. ASSUME NEW t \in Threads, SignalSubtract(t) PROVE (globalEpoch' = globalEpoch \/ \E u \in Threads : NewEpoch(u))
  BY <1>34 DEF SignalSubtract
<1>35. ASSUME NEW t \in Threads, SignalStore(t) PROVE (globalEpoch' = globalEpoch \/ \E u \in Threads : NewEpoch(u))
  BY <1>35 DEF SignalStore
<1>36. ASSUME NEW t \in Threads, Push(t) PROVE (globalEpoch' = globalEpoch \/ \E u \in Threads : NewEpoch(u))
  BY <1>36 DEF Push
<1>37. ASSUME NEW b \in Buckets, Record(b) PROVE (globalEpoch' = globalEpoch \/ \E u \in Threads : NewEpoch(u))
  BY <1>37 DEF Record
<1>38. CASE UNCHANGED vars
  BY <1>38 DEF vars
<1> QED BY <1>1, <1>2, <1>3, <1>4, <1>5, <1>6, <1>7, <1>8, <1>9, <1>10, <1>11, <1>12, <1>13, <1>14, <1>15,
    <1>16, <1>17, <1>18, <1>19, <1>20, <1>21, <1>22, <1>23, <1>24, <1>25, <1>26, <1>27, <1>28, <1>29, <1>30,
    <1>31, <1>32, <1>33, <1>34, <1>35, <1>36, <1>37, <1>38 DEF Next, Others, MapStep, GCStep, HandlerStep

\* The bucket of a thread that has a table stays behind when it is: neither the
\* thread nor its handler passes a safepoint with it meanwhile.
LEMMA PendingStays ==
    ASSUME IndInv, [Next]_vars, NEW u \in Threads, NEW x \in Tables, Uses(u, x), info'[u] = info[u],
           Pending(info[u])
    PROVE  Pending(info[u])'
<1>0. StructInv /\ info[u] \in Buckets /\ Owns(u, info[u]) /\ (root[u] # 0 \/ hroot[u] # 0) /\ PlaceOf(u) /\ HandlerOf(u)
  BY DEF IndInv, StructInv, TypeInv, ThreadTypes, PlaceInv, Uses, Owns
<1>1. ASSUME NEW t \in Threads, SafepointMove(t) PROVE Pending(info[u])'
  <2>1. tpc[t] = "move" /\ hpc[t] = "out" /\ info[t] \in PendingSet /\ PendingSet' = PendingSet \ {info[t]}
    BY <1>1, MoveCounts DEF SafepointMove, Goto
  <2>2. u # t
    BY <1>0, <2>1 DEF PlaceOf, HandlerOf, InMap
  <2>3. info[u] # info[t]
    BY <1>0, <2>2, OneOwner
  <2> QED BY <1>0, <2>1, <2>3 DEF PendingSet
<1>2. ASSUME NEW t \in Threads, SignalSubtract(t) PROVE Pending(info[u])'
  <2>1. hpc[t] = "subtract" /\ hinfo[t] \in PendingSet /\ PendingSet' = PendingSet \ {hinfo[t]}
    BY <1>2, SignalCounts DEF SignalSubtract, HandlerGoto
  <2>2. CASE u = t
    <3>1. root[u] # 0 /\ op[u] = "put" /\ hinfo[u] = entry[u]
      BY <1>0, <2>1, <2>2 DEF HandlerOf
    <3>2. hinfo[u] # info[u]
      BY <1>0, <3>1 DEF PlaceOf
    <3> QED BY <1>0, <2>1, <2>2, <3>2 DEF PendingSet
  <2>3. CASE u # t
    <3>1. hinfo[t] # info[u]
      BY <1>0, <2>3, OneOwner
    <3> QED BY <1>0, <2>1, <3>1 DEF PendingSet
  <2> QED BY <2>2, <2>3
<1>3. ASSUME NEW t \in Threads, detachThread(t) PROVE Pending(info[u])'
  <2>1. tpc[t] = "detach" /\ hpc[t] = "out" /\ PendingSet' = PendingSet \ {info[t]}
    BY <1>3, DetachCounts DEF detachThread, Goto
  <2>2. u # t
    BY <1>0, <2>1 DEF PlaceOf, HandlerOf, InMap
  <2>3. info[u] # info[t]
    BY <1>0, <2>2, OneOwner
  <2> QED BY <1>0, <2>1, <2>3 DEF PendingSet
<1>4. ASSUME NEW t \in Threads, PutUpdate(t) PROVE Pending(info[u])'
  <2>1. tpc[t] = "swap" /\ op[t] = "put" /\ PendingSet' = PendingSet \ {entry[t]}
    BY <1>4, UpdateCounts DEF PutUpdate, Goto, IndInv, StructInv, PlaceInv, PlaceOf
  <2>2. entry[t] # info[u]
    <3>1. CASE u = t
      BY <1>0, <2>1, <3>1 DEF PlaceOf, InMap
    <3>2. CASE u # t
      BY <1>0, <3>2, OneOwner
    <3> QED BY <3>1, <3>2
  <2> QED BY <1>0, <2>1, <2>2 DEF PendingSet
<1>5. ASSUME NEW t \in Threads, attachThread(t) PROVE Pending(info[u])'
  BY <1>0, <1>5, AttachCounts DEF PendingSet
<1>6. ASSUME NEW t \in Threads, NewEpoch(t) PROVE FALSE
  BY <1>0, <1>6 DEF NewEpoch, Goto, IndInv, EpochInv, PendingSet
<1>7. CASE PendingSet' = PendingSet
  BY <1>0, <1>7 DEF PendingSet
<1> QED BY <1>1, <1>2, <1>3, <1>4, <1>5, <1>6, <1>7, PendingStep DEF Counted


\* The bucket of a thread that has a table is attached.
LEMMA UserAttached ==
    ASSUME StructInv, NEW t \in Threads, NEW x \in Tables, Uses(t, x)
    PROVE  info[t] \in Buckets /\ Attached(info[t])
  BY DEF StructInv, TypeInv, ThreadTypes, PlaceInv, PlaceOf, HandlerOf, InMap, Uses, Attached, Detached

\* Every step keeps retired tables from threads that are not behind, and
\* deleted ones from all.
LEMMA GarbageStep == IndInv /\ [Next]_vars => GarbageInv'
<1> SUFFICES ASSUME IndInv, [Next]_vars, NEW u \in Threads, NEW x \in Tables, Uses(u, x)'
             PROVE  /\ x \notin freed'
                    /\ x \in oldGarbage' => Pending(info[u])'
                    /\ x \in recentGarbage' /\ Resetting' => Pending(info[u])'
  BY DEF GarbageInv, Tables
<1>0. StructInv /\ tpc \in [Threads -> Places]
  BY DEF IndInv, StructInv, TypeInv, ThreadTypes
<1>1. CASE x = current
  <2>1. x \notin recentGarbage \cup oldGarbage \cup freed /\ x \in Int
    BY <1>0, <1>1 DEF StructInv, TableInv, Tables
  <2>2. CASE SameGarbage
    BY <2>1, <2>2 DEF SameGarbage
  <2>3. ASSUME NEW t \in Threads, scheduleDelete(t)
        PROVE  x \notin recentGarbage' /\ UNCHANGED <<oldGarbage, freed>>
    <3>1. root[t] < current /\ root[t] \in Int
      BY <1>0, <2>3 DEF scheduleDelete, Goto, StructInv, TableInv, TableOf, TypeInv, ThreadTypes, Tables
    <3> QED BY <1>1, <2>1, <2>3, <3>1 DEF scheduleDelete
  <2>4. ASSUME NEW t \in Threads, NewEpoch(t)
        PROVE  x \notin freed' /\ oldGarbage' = {} /\ UNCHANGED recentGarbage
    BY <2>1, <2>4 DEF NewEpoch
  <2>5. ASSUME NEW t \in Threads, ResetRemaining(t)
        PROVE  x \notin oldGarbage' /\ recentGarbage' = {} /\ UNCHANGED freed
    BY <2>1, <2>5 DEF ResetRemaining
  <2> QED BY <1>0, <2>1, <2>2, <2>3, <2>4, <2>5, GarbageKept DEF Retires
<1>2. CASE Uses(u, x) /\ info'[u] = info[u]
  <2>1. /\ x \notin freed /\ (x \in oldGarbage => Pending(info[u]))
        /\ x \in recentGarbage /\ Resetting => Pending(info[u])
    BY <1>2 DEF IndInv, GarbageInv
  <2>2. Pending(info[u]) => Pending(info[u])'
    BY <1>2, PendingStays
  <2>3. CASE SameGarbage
    <3>1. Resetting' <=> Resetting
      BY <2>3 DEF SameGarbage, Resetting
    <3> QED BY <2>1, <2>2, <2>3, <3>1 DEF SameGarbage
  <2>4. ASSUME NEW t \in Threads, scheduleDelete(t)
        PROVE  ~Resetting' /\ UNCHANGED <<oldGarbage, freed>>
    <3>1. \A v \in Threads : tpc[v] \notin Held
      BY <1>0, <2>4, NobodyHeld DEF scheduleDelete
    <3> QED BY <1>0, <2>4, <3>1 DEF scheduleDelete, Goto, Resetting, Held
  <2>5. ASSUME NEW t \in Threads, NewEpoch(t)
        PROVE  x \notin freed' /\ oldGarbage' = {} /\ Pending(info[u])'
    <3>1. PendingSet = {}
      BY <2>5 DEF NewEpoch, Goto, IndInv, EpochInv
    <3>2. info[u] \in Buckets /\ Attached(info[u])
      BY <1>0, <1>2, UserAttached
    <3>3. x \notin freed' /\ oldGarbage' = {}
      BY <2>1, <2>5, <3>1, <3>2 DEF NewEpoch, PendingSet
    <3>4. /\ localEpoch[info[u]] \in Int /\ localEpoch[info[u]] <= globalEpoch /\ globalEpoch \in Int
          /\ \A v \in Threads : hpc[v] = "store" => hglobal[v] <= globalEpoch
          /\ hglobal \in [Threads -> Nat]
      BY <1>0, <3>2 DEF IndInv, EpochInv, EpochOf, StructInv, TypeInv, GCTypes, BucketTypes, HandlerTypes, kEpochInitial
    <3>5. globalEpoch' = globalEpoch + 1 /\ UNCHANGED <<localEpoch, hpc, hinfo, hglobal>>
      BY <2>5 DEF NewEpoch, bucketVars, handlerVars
    <3>6. ~CountedOff(info[u])'
      BY <3>4, <3>5 DEF CountedOff
    <3>7. Attached(info[u])'
      <4>1. \A v \in Threads : Detached(v)' => Detached(v)
        BY <1>0, <2>5 DEF NewEpoch, Goto, Detached
      <4> QED BY <1>2, <2>5, <3>2, <4>1 DEF NewEpoch, mapVars, Attached
    <3> QED BY <1>2, <3>3, <3>4, <3>5, <3>6, <3>7 DEF Pending
  <2>6. ASSUME NEW t \in Threads, ResetRemaining(t)
        PROVE  freed' = freed /\ recentGarbage' = {} /\ (x \in oldGarbage' => Pending(info[u]))
    <3>1. Resetting
      BY <2>6 DEF ResetRemaining, Goto, Resetting
    <3> QED BY <2>1, <2>6, <3>1 DEF ResetRemaining
  <2> QED BY <1>0, <2>1, <2>2, <2>3, <2>4, <2>5, <2>6, GarbageKept DEF Retires
<1> QED BY <1>0, <1>1, <1>2, UsesStep DEF TakesCurrent

-----------------------------------------------------------------------------
(* Nobody waits for a migration that nobody carries on *)

\* t can take the next step of the migration of the current table: join it,
\* end it or leave it to another, or publish the new table.
Migrates(t) ==
    /\ root[t] = current
    /\ tpc[t] \in IF migration = "started" THEN {"help", "work"} ELSE {"publish"}
MigratorInv == migration # "none" => \E t \in Threads : Migrates(t)

\* A step that leaves the table and its migrators alone.
Aside ==
    /\ current' = current /\ migration' = migration
    /\ \A u \in Threads : tpc[u] \in {"help", "work", "publish"} => tpc'[u] = tpc[u] /\ root'[u] = root[u]

\* After such a step whoever migrated still does.
LEMMA AsideKeeps == ASSUME MigratorInv, Aside PROVE MigratorInv'
  BY DEF MigratorInv, Migrates, Aside

\* Every step of a migrator leaves one: the last to leave ends the migration,
\* and the one that ended it publishes the table.
LEMMA MigratorStep == StructInv /\ MigratorInv /\ [Next]_vars => MigratorInv'
<1> SUFFICES ASSUME StructInv, MigratorInv, [Next]_vars PROVE MigratorInv'
  OBVIOUS
<1> USE ThreadAssumption DEF StructInv, TypeInv, MapTypes, ThreadTypes, TableInv, TableOf
<1>1. ASSUME NEW t \in Threads, OnThreadStart(t) \/ OnThreadEnd(t) \/ GetQuietly(t) PROVE Aside
  BY <1>1 DEF OnThreadStart, OnThreadEnd, GetQuietly, GetLoad, Goto, Aside, mapVars, threadVars
<1>2. ASSUME NEW t \in Threads, GCStep(t) PROVE Aside
  BY <1>2 DEF GCStep, attachThread, safepoint, SafepointMove, detachThread, NewEpoch, ResetRemaining, Unlock,
              ReleaseBucket, Goto, Aside, mapVars
<1>3. ASSUME NEW t \in Threads, HandlerStep(t) PROVE Aside
  BY <1>3 DEF HandlerStep, GetMoved, GetNothing, acq_bucket, ss_safepoint, SignalSubtract, SignalStore, Push,
              Aside, mapVars, threadVars
<1>4. ASSUME NEW b \in Buckets, Record(b) PROVE Aside
  BY <1>4 DEF Record, Aside, mapVars, threadVars
<1>5. CASE UNCHANGED vars
  BY <1>5, AsideKeeps DEF vars, Aside, mapVars, threadVars
<1>6. ASSUME NEW t \in Threads,
             \/ Load(t) \/ PutInsert(t) \/ PutMoved(t) \/ PutFind(t) \/ PutUpdate(t) \/ PutLost(t) \/ Remove(t)
             \/ RemoveNothing(t) \/ RemoveMoved(t) \/ RemoveFind(t) \/ RemoveLost(t) \/ scheduleDelete(t)
      PROVE  Aside
  BY <1>6 DEF Load, PutInsert, PutMoved, PutFind, PutUpdate, PutLost, Remove, RemoveNothing, RemoveMoved, RemoveFind,
              RemoveLost, scheduleDelete, Goto, Aside, mapVars
<1>7. ASSUME NEW t \in Threads, PutOverflow(t) PROVE MigratorInv'
  <2>1. CASE root[t] = current /\ migration = "none"
    <3>1. Migrates(t)'
      BY <1>7, <2>1 DEF PutOverflow, Goto, Migrates
    <3> QED BY <3>1 DEF MigratorInv
  <2>2. CASE ~(root[t] = current /\ migration = "none")
    <3>1. Aside
      BY <1>7, <2>2 DEF PutOverflow, Goto, Aside
    <3> QED BY <3>1, AsideKeeps
  <2> QED BY <2>1, <2>2
<1>8. ASSUME NEW t \in Threads, Join(t) PROVE MigratorInv'
  <2>1. Migrates(t)'
    BY <1>8 DEF Join, Goto, Migrates, mapVars
  <2> QED BY <2>1 DEF MigratorInv
<1>9. ASSUME NEW t \in Threads, Leave(t) PROVE MigratorInv'
  <2>1. PICK u \in Threads \ {t} : tpc[u] = "work" /\ root[u] = root[t]
    BY <1>9 DEF Leave, AloneIn
  <2>2. Migrates(u)'
    BY <1>9, <2>1 DEF Leave, Goto, Migrates, mapVars
  <2> QED BY <2>2 DEF MigratorInv
<1>10. ASSUME NEW t \in Threads, EndMigration(t) PROVE MigratorInv'
  <2>1. Migrates(t)'
    BY <1>10 DEF EndMigration, Goto, Migrates
  <2> QED BY <2>1 DEF MigratorInv
<1>11. ASSUME NEW t \in Threads, Participated(t) PROVE MigratorInv'
  <2>1. ~Migrates(t) /\ UNCHANGED <<current, migration>>
    BY <1>11 DEF Participated, Goto, Migrates, mapVars
  <2>2. ASSUME NEW u \in Threads, Migrates(u) PROVE Migrates(u)'
    BY <1>11, <2>1, <2>2 DEF Participated, Goto, Migrates
  <2> QED BY <2>1, <2>2 DEF MigratorInv
<1>12. ASSUME NEW t \in Threads, Publish(t) PROVE MigratorInv'
  BY <1>12 DEF Publish, MigratorInv
<1> QED BY <1>1, <1>2, <1>3, <1>4, <1>5, <1>6, <1>7, <1>8, <1>9, <1>10, <1>11, <1>12, AsideKeeps
    DEF Next, Others, MapStep

-----------------------------------------------------------------------------
(* Theorems *)

\* Every step keeps the structure.
LEMMA StructStep == StructInv /\ [Next]_vars => StructInv'
  BY TypeStep, PlaceStep, TableStep, MutexStep, BucketStep, TotalStep DEF StructInv

\* Before the first thread starts there is nothing to count.
LEMMA InitInv == Init => IndInv
<1> SUFFICES ASSUME Init PROVE IndInv
  OBVIOUS
<1> USE ThreadAssumption DEF Init
<1>1. TypeInv
  BY DEF TypeInv, GCTypes, MapTypes, BucketTypes, ThreadTypes, HandlerTypes, Places, HandlerPlaces, Tables, kEpochInitial
<1>2. PlaceInv
  BY DEF PlaceInv, PlaceOf, HandlerOf, InMap, Held
<1>3. TableInv /\ MutexInv
  BY DEF TableInv, TableOf, MutexInv, Held
<1>4. AttachedSet = {} /\ PendingSet = {}
  BY DEF AttachedSet, PendingSet, Pending, Attached
<1>5. Cardinality({}) = 0
  BY FS_EmptySet
<1>6. TotalInv
  BY <1>4, <1>5 DEF TotalInv
<1>7. BucketInv
  <2>1. ASSUME NEW b \in Buckets PROVE refs[b] >= Holders(b)
    <3>1. Owners(b) = {} /\ Handlers(b) = {} /\ queued[b] = 0 /\ refs[b] = 0
      BY DEF Owners, Owns, Handlers
    <3>2. Holders(b) = Cardinality(Owners(b)) + Cardinality(Handlers(b)) + queued[b]
      BY <1>1, HoldersOf
    <3> QED BY <1>5, <3>1, <3>2
  <2> QED BY <2>1 DEF BucketInv, Owns
<1>8. EpochInv
  BY <1>4, <1>5 DEF EpochInv, EpochOf, Attached, AttachedSet
<1>9. GarbageInv
  BY DEF GarbageInv, Uses
<1> QED BY <1>1, <1>2, <1>3, <1>6, <1>7, <1>8, <1>9 DEF IndInv, StructInv

\* In every reachable state of Spec the structure holds.
THEOREM Structure == Spec => []StructInv
<1>1. Init => StructInv
  BY InitInv DEF IndInv
<1> QED BY <1>1, StructStep, PTL DEF Spec

\* Type correctness; totalThreads never falls below the number of attached
\* buckets, although attachThread and detachThread only add and subtract.
THEOREM TypeCorrect == Spec => []TypeOK
<1>1. StructInv => TypeOK
  <2> SUFFICES ASSUME StructInv PROVE TypeOK
    OBVIOUS
  <2>1. totalThreads \in Nat
    BY PendingFinite DEF StructInv, TotalInv, TypeInv, GCTypes
  <2> QED BY <2>1 DEF TypeOK, StructInv, TypeInv, GCTypes, MapTypes, BucketTypes, ThreadTypes, HandlerTypes,
              Places, HandlerPlaces, InMap, Held
<1> QED BY <1>1, Structure, PTL

\* A bucket is alive as long as the map, its thread, a handler or a queued
\* sample refers to it, and no two threads have the same, whatever the masks,
\* the removes that give up, the puts over what they left and the full queues.
THEOREM BucketSafety == Spec => []BucketsAlive
<1>1. StructInv => BucketsAlive
  <2> SUFFICES ASSUME StructInv PROVE BucketsAlive
    OBVIOUS
  <2>1. \A t \in Threads : {entry[t], info[t]} \subseteq Buckets \cup {NoBucket}
    BY DEF StructInv, TypeInv, MapTypes, ThreadTypes
  <2>2. \A t, u \in Threads : t # u => {entry[t], info[t]} \cap {entry[u], info[u]} \subseteq {NoBucket}
    BY <2>1 DEF StructInv, BucketInv, Owns
  <2> QED BY <2>2 DEF StructInv, BucketsAlive, BucketInv
<1> QED BY <1>1, Structure, PTL

\* The whole invariant.
THEOREM Invariance == Spec => []IndInv
<1>1. IndInv /\ [Next]_vars => IndInv'
  <2>1. IndInv => StructInv
    BY DEF IndInv
  <2> QED BY <2>1, StructStep, EpochStep, GarbageStep DEF IndInv
<1> QED BY <1>1, InitInv, PTL DEF Spec

\* No table is deleted under a registered thread in put or remove, or under its
\* handler in get, also when the handler interrupts the thread in put.
THEOREM TableSafety == Spec => []TablesAlive
<1>1. IndInv => TablesAlive
  <2> SUFFICES ASSUME IndInv PROVE TablesAlive
    OBVIOUS
  <2>1. current \notin freed
    BY DEF IndInv, StructInv, TypeInv, MapTypes, TableInv, Tables
  <2>2. ASSUME NEW t \in Threads, info[t] # NoBucket PROVE root[t] \notin freed /\ hroot[t] \notin freed
    <3>1. freed \subseteq Tables /\ 0 \notin Tables
      BY DEF IndInv, StructInv, TypeInv, GCTypes, Tables
    <3> QED BY <2>2, <3>1 DEF IndInv, GarbageInv, Uses
  <2> QED BY <2>1, <2>2 DEF TablesAlive
<1> QED BY <1>1, Invariance, PTL

\* The global epoch moves only after every attached bucket has moved to it, be
\* it by its thread or by a handler.
THEOREM EpochsWait == Spec => EpochWaits
<1>1. IndInv /\ [Next]_vars => [WaitsForAll]_vars
  <2> SUFFICES ASSUME IndInv, [Next]_vars, globalEpoch' # globalEpoch, NEW b \in Buckets, Attached(b)
               PROVE  localEpoch[b] = globalEpoch \/ \E t \in Threads : hinfo[t] = b /\ hpc[t] = "store"
    BY DEF WaitsForAll
  <2>1. PICK t \in Threads : NewEpoch(t)
    BY EpochMoves
  <2>2. ~Pending(b)
    BY <2>1 DEF NewEpoch, Goto, IndInv, EpochInv, PendingSet
  <2>3. localEpoch[b] \in Int /\ localEpoch[b] <= globalEpoch /\ globalEpoch \in Int
    BY DEF IndInv, EpochInv, StructInv, TypeInv, GCTypes, BucketTypes, kEpochInitial
  <2> QED BY <2>2, <2>3 DEF Pending, CountedOff
<1> QED BY <1>1, Invariance, PTL DEF EpochWaits, Spec

\* A migration under way always has a thread that can carry it on.
THEOREM MigrationCarried == Spec => [](StructInv /\ MigratorInv)
<1>1. Init => StructInv /\ MigratorInv
  BY InitInv DEF IndInv, Init, MigratorInv
<1> QED BY <1>1, StructStep, MigratorStep, PTL DEF Spec

\* What HandlerReturns rests on: a handler whose lookup spins because the table
\* is being migrated waits for another thread than the one it has interrupted,
\* and for one that is not itself held up by a handler.
WaitsForAnother ==
    \A t \in Threads : hpc[t] = "find" /\ migration # "none" =>
        \E u \in Threads \ {t} : Migrates(u) /\ hpc[u] = "out"

\* No handler spins for the thread it has interrupted, nor in a circle of
\* handlers. This is where Undisturbed is needed: in CodeSpec it fails, and
\* with it HandlerReturns.
THEOREM NoCircularWait == Spec => []WaitsForAnother
<1>1. StructInv /\ MigratorInv => WaitsForAnother
  <2> SUFFICES ASSUME StructInv, MigratorInv, NEW t \in Threads, hpc[t] = "find", migration # "none"
               PROVE  \E u \in Threads \ {t} : Migrates(u) /\ hpc[u] = "out"
    BY DEF WaitsForAnother
  <2>1. PICK u \in Threads : Migrates(u)
    BY DEF MigratorInv
  <2>2. hpc[u] = "out"
    BY <2>1 DEF Migrates, StructInv, PlaceInv, HandlerOf, Undisturbed
  <2> QED BY <2>1, <2>2
<1> QED BY <1>1, MigrationCarried, PTL

=============================================================================
