--------------------------- MODULE HashTableProofs ---------------------------
(***************************************************************************)
(* Proofs about HashTable for any size of the table, any hash function,    *)
(* any number of threads and keys, with or without a migration. What they  *)
(* rest on is that a chain only grows: a cell that was reachable from the  *)
(* home of a key stays reachable.                                          *)
(***************************************************************************)
EXTENDS HashTable, FiniteSetTheorems, TLAPS

-----------------------------------------------------------------------------
(* Chains *)

Linked(c) == deltaNext[c] \notin {MapDeltaEmpty, MapDeltaExtend}
Following(c) == Wrap(c + deltaNext[c])

\* j is on the chain that starts at i: no set of cells that has i and that the
\* chains do not leave is without j.
Closed(S) == \A c \in S : Linked(c) => Following(c) \in S
Reach(i, j) == \A S \in SUBSET Cells : i \in S /\ Closed(S) => j \in S

-----------------------------------------------------------------------------
(* The inductive invariant *)

Walking == {"chain", "delta", "extend", "wait"}
Growing == {"search", "reserve", "full", "claim", "link", "unreserve", "nospace"}
Storing == {"update", "updateSwap", "set", "setSwap"}

Reserving == {t \in Threads : pc[t] \in {"full", "claim", "unreserve"}}
Claiming == {t \in Threads : pc[t] \in {"claim", "unreserve"}}

\* The locals of find and insertOrUpdate, place by place.
LocalInv ==
    \A t \in Threads :
        /\ pc[t] # "idle" /\ pc[t] \notin {"find", "next", "get"} => op[t] # "get"
        /\ pc[t] \in {"find", "next"} => op[t] # "put"
        /\ pc[t] # "idle" /\ op[t] # "get" => <<t, key[t]>> \in Writers
        /\ pc[t] \notin Growing \cup {"set", "setSwap"} => d[t] = 0
        /\ pc[t] \in Growing \ {"nospace"} => d[t] < kNeighbourhood
        /\ pc[t] \in {"idle", "find", "next", "extend", "wait"} => delta[t] = 0
        /\ pc[t] \in Storing \cup {"link"} => hash[entr(t)] = key[t]
        /\ pc[t] = "unreserve" => hash[entr(t)] # Empty
        /\ pc[t] \in {"next", "delta", "extend", "wait"} => hash[cell[t]] # key[t]
        /\ pc[t] = "next" => hash[cell[t]] # Empty

\* Whoever extends a chain has its last cell to itself.
ExtendInv ==
    /\ \A t \in Threads : pc[t] \in Growing => deltaNext[cell[t]] = MapDeltaExtend
    /\ \A t, u \in Threads : pc[t] \in Growing /\ pc[u] \in Growing /\ cell[t] = cell[u] => t = u

\* A chain goes on only behind cells that are allocated.
LinkInv ==
    /\ \A c \in Cells : Linked(c) => hash[c] # Empty
    /\ \A t \in Threads : pc[t] \in Growing /\ d[t] > 0 => hash[cell[t]] # Empty

\* Where a walk is, or is about to be.
At(t) == IF pc[t] = "chain" THEN Wrap(cell[t] + delta[t]) ELSE cell[t]

\* A put is on the chain of its key.
OnChain == \A t \in Threads : pc[t] \in Walking \cup Growing => Reach(Home[key[t]], At(t))

\* Every key is on its chain, but for one that is about to be linked.
Chained ==
    \A j \in Cells : hash[j] # Empty =>
        \/ Reach(Home[hash[j]], j)
        \/ \E t \in Threads : pc[t] = "link" /\ entr(t) = j /\ key[t] = hash[j]

\* The writer of a key has not walked past its cell ...
Ahead ==
    \A t \in Threads, j \in Cells :
        pc[t] \in Walking \cup {"find", "next"} /\ <<t, key[t]>> \in Writers /\ hash[j] = key[t]
            => Reach(At(t), j)

\* ... and when it extends the chain the key has none.
Unallocated ==
    \A t \in Threads, j \in Cells :
        pc[t] \in Growing /\ hash[j] = key[t] => pc[t] = "link" /\ j = entr(t)

StoredAllocated == \A k \in Keys : stored[k] # Empty => \E j \in Cells : hash[j] = k

\* Nobody takes more cells than there are.
ClaimInv ==
    /\ freeBuckets + Cardinality(Allocated) + Cardinality(Reserving) = FreeBuckets
    /\ Cardinality(Allocated) + Cardinality(Claiming) <= FreeBuckets

\* migrateRange leaves marks behind, which nobody removes.
MigrationInv ==
    /\ ~Migrating => mpc = "done"
    /\ mpc \in {"load", "mark", "insert"} => hash[mcell] # Empty
    /\ mpc = "mark" => value[mcell] # Move
    /\ mpc = "insert" => mval # Empty /\ value[mcell] = Move
    /\ mpc # "done" => \A i \in Cells : i < mcell => value[i] = Move
    /\ Migrating /\ mpc = "done" => \A i \in Cells : value[i] = Move

\* The types of HashTable's variables, but for the bounds of freeBuckets, which
\* follow from ClaimInv.
CellTypes ==
    /\ hash \in [Cells -> Keys \cup {Empty}]
    /\ value \in [Cells -> Values \cup {Empty, Move}]
    /\ deltaNext \in [Cells -> {MapDeltaExtend} \cup 0..(kNeighbourhood - 1)]
    /\ freeBuckets \in Int

Places == {"idle", "find", "next", "get", "remove", "erase"} \cup Walking \cup Growing \cup Storing

ThreadTypes ==
    /\ pc \in [Threads -> Places] /\ op \in [Threads -> {"get", "put", "remove"}]
    /\ key \in [Threads -> Keys] /\ val \in [Threads -> Values \cup {Empty}]
    /\ oldValue \in [Threads -> Values \cup {Empty}] /\ cell \in [Threads -> Cells]
    /\ d \in [Threads -> 0..kNeighbourhood] /\ delta \in [Threads -> 0..(kNeighbourhood - 1)]
    /\ jumps \in [Threads -> 0..(kMaxJumpsAllowed + 1)]

OtherTypes ==
    /\ mpc \in {"hash", "unused", "load", "mark", "insert", "done"}
    /\ mcell \in Cells /\ mval \in Values \cup {Empty}
    /\ evacuated \subseteq Keys \X Values
    /\ stored \in [Keys -> Values \cup {Empty}] /\ missed \subseteq Keys /\ calls \in Nat

TypeInv == CellTypes /\ ThreadTypes /\ OtherTypes

IndInv ==
    /\ TypeInv /\ LocalInv /\ ExtendInv /\ LinkInv /\ OnChain /\ Chained /\ Ahead /\ Unallocated
    /\ StoredAllocated /\ OneCellPerKey /\ ChainsReleased /\ ClaimInv /\ MigrationInv

-----------------------------------------------------------------------------
(* Cells and chains *)

\* A position is taken modulo the size of the table.
LEMMA WrapCells ==
    /\ \A i \in Nat : Wrap(i) \in Cells
    /\ \A i \in Cells : Wrap(i) = i /\ Wrap(i + 0) = i
<1>1. \A i \in Nat, s \in Nat \ {0} : i % s \in 0..(s - 1) /\ (i < s => i % s = i)
  OBVIOUS
<1>2. Size \in Nat \ {0}
  BY TableAssumption
<1>3. \A i \in Nat : Wrap(i) \in Cells
  BY <1>1, <1>2 DEF Wrap, Cells
<1>4. \A i \in Cells : i \in Nat /\ i < Size /\ i + 0 = i
  BY <1>2 DEF Cells
<1>5. \A i \in Cells : Wrap(i) = i
  BY <1>1, <1>2, <1>4 DEF Wrap
<1> QED
  BY <1>3, <1>4, <1>5

\* The cells a thread works on are in the table.
LEMMA CellType ==
    ASSUME TypeInv
    PROVE  /\ \A t \in Threads : entr(t) \in Cells /\ At(t) \in Cells /\ cell[t] \in Cells
           /\ \A c \in Cells : Linked(c) => Following(c) \in Cells
           /\ \A t \in Threads : d[t] = 0 => entr(t) = cell[t]
           /\ \A t \in Threads : delta[t] = 0 => At(t) = cell[t]
<1> USE DEF TypeInv, CellTypes, ThreadTypes
<1>1. \A t \in Threads : cell[t] \in Nat /\ d[t] \in Nat /\ delta[t] \in Nat
  BY TableAssumption DEF Cells
<1>2. \A c \in Cells : Linked(c) => c \in Nat /\ deltaNext[c] \in Nat
  BY TableAssumption DEF Linked, Cells, MapDeltaExtend, MapDeltaEmpty
<1>3. \A t \in Threads : entr(t) \in Cells /\ At(t) \in Cells /\ cell[t] \in Cells
  BY <1>1, WrapCells DEF entr, At
<1>4. \A c \in Cells : Linked(c) => Following(c) \in Cells
  BY <1>2, WrapCells DEF Following
<1>5. \A t \in Threads : (d[t] = 0 => entr(t) = cell[t]) /\ (delta[t] = 0 => At(t) = cell[t])
  BY <1>1, WrapCells DEF entr, At
<1> QED
  BY <1>3, <1>4, <1>5

\* A chain starts with its first cell.
LEMMA ReachSelf == \A i : Reach(i, i)
BY DEF Reach

\* The chain that has a cell has the one it is linked to.
LEMMA ReachLinked ==
    ASSUME TypeInv, NEW i, NEW c \in Cells, Reach(i, c), Linked(c)
    PROVE  Reach(i, Following(c))
BY DEF Reach, Closed

\* What is on a chain, and is not its first cell, is on the rest of the chain.
LEMMA ReachRest ==
    ASSUME TypeInv, NEW c \in Cells, NEW j, Reach(c, j), j # c, Linked(c)
    PROVE  Reach(Following(c), j)
<1> SUFFICES ASSUME NEW S \in SUBSET Cells, Following(c) \in S, Closed(S) PROVE j \in S
  BY DEF Reach
<1>1. Closed(S \cup {c}) /\ (S \cup {c}) \in SUBSET Cells
  BY DEF Closed
<1> QED
  BY <1>1 DEF Reach

\* A cell that is not linked is a chain of its own.
LEMMA ReachEnd ==
    ASSUME NEW c \in Cells, NEW j, Reach(c, j), ~Linked(c)
    PROVE  j = c
<1>1. Closed({c}) /\ {c} \in SUBSET Cells
  BY DEF Closed
<1> QED
  BY <1>1 DEF Reach

\* Chains grow: as long as no link is changed, what was on a chain stays there.
LEMMA ReachGrows ==
    ASSUME \A c \in Cells : Linked(c) => deltaNext'[c] = deltaNext[c]
    PROVE  \A i, j : Reach(i, j) => Reach(i, j)'
<1> SUFFICES ASSUME NEW i, NEW j, Reach(i, j), NEW S \in SUBSET Cells, i \in S, Closed(S)' PROVE j \in S
  BY DEF Reach
<1>1. Closed(S)
  BY DEF Closed, Linked, Following
<1> QED
  BY <1>1 DEF Reach

\* Chains depend on nothing but deltaNext.
LEMMA ReachSame ==
    ASSUME UNCHANGED deltaNext
    PROVE  \A i, j : Reach(i, j)' <=> Reach(i, j)
<1>1. \A S : Closed(S)' <=> Closed(S)
  BY DEF Closed, Linked, Following
<1> QED
  BY <1>1 DEF Reach

\* Small facts about the constants.
LEMMA Constants ==
    /\ 0 \in Cells /\ Cells \subseteq Nat /\ kNeighbourhood \in Nat \ {0} /\ kMaxJumpsAllowed \in Nat
    /\ 0 \in 0..kNeighbourhood /\ 0 \in 0..(kNeighbourhood - 1) /\ 0 \in 0..(kMaxJumpsAllowed + 1)
    /\ \A k \in Keys : Home[k] \in Cells /\ k # Empty
BY TableAssumption DEF Cells

-----------------------------------------------------------------------------
(* Steps that leave the chains alone *)

\* Of the threads only t moves.
OnlyMoves(t) ==
    \A u \in Threads : u # t => /\ pc'[u] = pc[u] /\ op'[u] = op[u] /\ key'[u] = key[u]
                                /\ cell'[u] = cell[u] /\ d'[u] = d[u] /\ delta'[u] = delta[u]

\* A thread calls, walks, loads or returns: what has to be shown is what the
\* step does to its own locals and, if it stores a value, to the migration.
LEMMA LocalStep ==
    ASSUME IndInv, TypeInv', LocalInv', NEW t \in Threads, OnlyMoves(t),
           UNCHANGED <<hash, deltaNext, freeBuckets>>, pc[t] \notin Growing, pc'[t] \notin Growing,
           pc'[t] \in Walking => Reach(Home[key[t]], At(t))',
           \A j \in Cells : pc'[t] \in Walking \cup {"find", "next"} /\ <<t, key'[t]>> \in Writers
                                /\ hash[j] = key'[t] => Reach(At(t), j)',
           StoredAllocated', MigrationInv'
    PROVE  IndInv'
<1> USE DEF IndInv, OnlyMoves
<1>1. \A i, j : Reach(i, j)' <=> Reach(i, j)
  BY ReachSame
<1>2. \A u \in Threads : u # t => entr(u)' = entr(u) /\ At(u)' = At(u)
  BY DEF entr, At
<1>3. ExtendInv' /\ LinkInv'
  BY DEF ExtendInv, LinkInv, Linked
<1>4. OnChain'
  <2> SUFFICES ASSUME NEW u \in Threads, pc'[u] \in Walking \cup Growing PROVE Reach(Home[key[u]], At(u))'
    BY DEF OnChain
  <2> QED
    BY <1>1, <1>2 DEF OnChain
<1>5. Chained'
  <2> SUFFICES ASSUME NEW j \in Cells, hash[j] # Empty
               PROVE  \/ Reach(Home[hash[j]], j)'
                      \/ \E u \in Threads : (pc[u] = "link" /\ entr(u) = j /\ key[u] = hash[j])'
    BY DEF Chained
  <2> QED
    BY <1>1, <1>2 DEF Chained, Growing
<1>6. Ahead'
  <2> SUFFICES ASSUME NEW u \in Threads, NEW j \in Cells, pc'[u] \in Walking \cup {"find", "next"},
                      <<u, key'[u]>> \in Writers, hash[j] = key'[u]
               PROVE  Reach(At(u), j)'
    BY DEF Ahead
  <2> QED
    BY <1>1, <1>2 DEF Ahead
<1>7. Unallocated' /\ OneCellPerKey'
  BY <1>2 DEF Unallocated, OneCellPerKey, Allocated
<1>8. ChainsReleased'
  BY DEF ChainsReleased, Extending, Growing
<1>9. ClaimInv'
  <2>1. Reserving' = Reserving /\ Claiming' = Claiming /\ Allocated' = Allocated
    BY DEF Reserving, Claiming, Allocated, Growing
  <2> QED
    BY <2>1 DEF ClaimInv
<1> QED
  BY <1>3, <1>4, <1>5, <1>6, <1>7, <1>8, <1>9

\* The owner of a chain's last cell looks for a free one: what has to be shown
\* is that no bucket is lost.
LEMMA GrowStep ==
    ASSUME IndInv, TypeInv', LocalInv', NEW t \in Threads, OnlyMoves(t),
           UNCHANGED <<hash, deltaNext, value, migrationVars, stored>>,
           pc[t] \in Growing \ {"link"}, pc'[t] \in Growing \ {"link"},
           cell'[t] = cell[t], key'[t] = key[t], d'[t] > 0 => hash[cell[t]] # Empty,
           ClaimInv'
    PROVE  IndInv'
<1> USE DEF IndInv, OnlyMoves
<1>1. \A i, j : Reach(i, j)' <=> Reach(i, j)
  BY ReachSame
<1>2. \A u \in Threads : u # t => entr(u)' = entr(u) /\ At(u)' = At(u)
  BY DEF entr, At
<1>3. At(t)' = cell[t] /\ At(t) = cell[t]
  BY DEF At, Growing
<1>4. ExtendInv' /\ LinkInv'
  BY DEF ExtendInv, LinkInv, Linked
<1>5. OnChain'
  <2> SUFFICES ASSUME NEW u \in Threads, pc'[u] \in Walking \cup Growing PROVE Reach(Home[key[u]], At(u))'
    BY DEF OnChain
  <2> QED
    BY <1>1, <1>2, <1>3 DEF OnChain
<1>6. Chained'
  <2> SUFFICES ASSUME NEW j \in Cells, hash[j] # Empty
               PROVE  \/ Reach(Home[hash[j]], j)'
                      \/ \E u \in Threads : (pc[u] = "link" /\ entr(u) = j /\ key[u] = hash[j])'
    BY DEF Chained
  <2> QED
    BY <1>1, <1>2 DEF Chained
<1>7. Ahead'
  <2> SUFFICES ASSUME NEW u \in Threads, NEW j \in Cells, pc'[u] \in Walking \cup {"find", "next"},
                      <<u, key'[u]>> \in Writers, hash[j] = key'[u]
               PROVE  Reach(At(u), j)'
    BY DEF Ahead
  <2>1. u # t
    BY DEF Walking, Growing
  <2> QED
    BY <1>1, <1>2, <2>1 DEF Ahead
<1>8. Unallocated' /\ OneCellPerKey' /\ StoredAllocated'
  BY <1>2 DEF Unallocated, OneCellPerKey, Allocated, StoredAllocated
<1>9. ChainsReleased'
  BY DEF ChainsReleased, Extending, Growing
<1>10. MigrationInv'
  BY DEF MigrationInv, migrationVars
<1> QED
  BY <1>4, <1>5, <1>6, <1>7, <1>8, <1>9, <1>10

\* An operation returns without having changed the table.
LEMMA FinishStep ==
    ASSUME IndInv, NEW t \in Threads, Finish(t, pc[t]), pc[t] \notin Growing, UNCHANGED cellVars
    PROVE  IndInv'
<1> USE DEF IndInv, Finish, Reset, Goto, cellVars, migrationVars, historyVars
<1>1. TypeInv'
  <2>1. CellTypes' /\ OtherTypes'
    BY DEF TypeInv, CellTypes, OtherTypes
  <2>2. pc' \in [Threads -> Places] /\ UNCHANGED <<op, key>>
    BY DEF TypeInv, ThreadTypes, Places
  <2>3. cell' \in [Threads -> Cells] /\ d' \in [Threads -> 0..kNeighbourhood]
    BY Constants DEF TypeInv, ThreadTypes
  <2>4. delta' \in [Threads -> 0..(kNeighbourhood - 1)] /\ jumps' \in [Threads -> 0..(kMaxJumpsAllowed + 1)]
    BY Constants DEF TypeInv, ThreadTypes
  <2>5. val' \in [Threads -> Values \cup {Empty}] /\ oldValue' \in [Threads -> Values \cup {Empty}]
    BY DEF TypeInv, ThreadTypes
  <2> QED
    BY <2>1, <2>2, <2>3, <2>4, <2>5 DEF TypeInv, ThreadTypes
<1>2. OnlyMoves(t) /\ pc'[t] = "idle" /\ d'[t] = 0 /\ delta'[t] = 0
  BY DEF TypeInv, ThreadTypes, OnlyMoves
<1>3. LocalInv'
  BY <1>2 DEF LocalInv, OnlyMoves, entr, Growing, Storing
<1>4. StoredAllocated' /\ MigrationInv'
  BY DEF StoredAllocated, MigrationInv
<1> QED
  BY <1>1, <1>2, <1>3, <1>4, LocalStep DEF Growing, Walking

\* get, put or remove is called.
LEMMA CallStep ==
    ASSUME IndInv, NEW t \in Threads, NEW o \in {"get", "put", "remove"}, NEW k \in Keys,
           NEW v \in Values \cup {Empty}, Call(t, o, k, v), o # "get" => <<t, k>> \in Writers
    PROVE  IndInv'
<1> USE DEF IndInv, Call, Goto, cellVars, migrationVars
<1>1. TypeInv'
  <2>1. CellTypes' /\ OtherTypes'
    BY DEF TypeInv, CellTypes, OtherTypes
  <2>2. pc' \in [Threads -> Places]
    BY DEF TypeInv, ThreadTypes, Places, Walking
  <2>3. cell' \in [Threads -> Cells]
    BY Constants DEF TypeInv, ThreadTypes
  <2> QED
    BY <2>1, <2>2, <2>3 DEF TypeInv, ThreadTypes
<1>2. /\ OnlyMoves(t) /\ pc[t] = "idle" /\ pc'[t] \in {"chain", "find"} /\ cell'[t] = Home[k]
      /\ key'[t] = k /\ op'[t] = o /\ (pc'[t] = "find" <=> o # "put")
      /\ d[t] = 0 /\ d'[t] = 0 /\ delta[t] = 0 /\ delta'[t] = 0
  BY DEF TypeInv, ThreadTypes, OnlyMoves, LocalInv, Growing
<1>3. LocalInv'
  BY <1>2 DEF LocalInv, OnlyMoves, entr, Growing, Storing
<1>4. At(t)' = Home[k]
  BY <1>2, WrapCells, Constants DEF At
<1>5. Reach(Home[key[t]], At(t))'
  BY <1>2, <1>4, ReachSelf, ReachSame
<1>6. ASSUME NEW j \in Cells, <<t, k>> \in Writers, hash[j] = k PROVE Reach(At(t), j)'
  <2>1. ~\E u \in Threads : pc[u] = "link" /\ entr(u) = j /\ key[u] = k
    BY <1>2, <1>6, WriterAssumption DEF LocalInv
  <2>2. Reach(Home[k], j)
    BY <1>6, <2>1, Constants DEF Chained
  <2> QED
    BY <1>4, <2>2, ReachSame
<1>7. StoredAllocated' /\ MigrationInv'
  BY DEF StoredAllocated, MigrationInv
<1> QED
  BY <1>1, <1>2, <1>3, <1>5, <1>6, <1>7, LocalStep DEF Growing, Walking

\* find walks along a chain; remove loads the value it is about to erase.
LEMMA FindStep ==
    ASSUME IndInv, NEW t \in Threads, FindHash(t) \/ FindNext(t) \/ RemoveLoad(t)
    PROVE  IndInv'
<1> USE DEF IndInv, Goto, cellVars, argVars, walkVars, migrationVars, historyVars
<1>1. CASE FindHash(t)
  <2> USE <1>1 DEF FindHash
  <2>1. TypeInv'
    <3>1. CellTypes' /\ OtherTypes'
      BY DEF TypeInv, CellTypes, OtherTypes
    <3>2. pc' \in [Threads -> Places]
      BY DEF TypeInv, ThreadTypes, LocalInv, Places
    <3> QED
      BY <3>1, <3>2 DEF TypeInv, ThreadTypes
  <2>2. /\ OnlyMoves(t) /\ pc[t] = "find" /\ pc'[t] \in {"get", "remove", "next"}
        /\ UNCHANGED <<key, cell, hash, deltaNext, freeBuckets>>
        /\ pc'[t] = "next" => hash[cell[t]] # key[t] /\ hash[cell[t]] # Empty
    BY DEF TypeInv, ThreadTypes, LocalInv, OnlyMoves
  <2>3. LocalInv'
    BY <2>2 DEF LocalInv, TypeInv, ThreadTypes, OnlyMoves, entr, Growing, Storing
  <2>4. \A j \in Cells : <<t, key'[t]>> \in Writers /\ hash[j] = key'[t] => Reach(At(t), j)'
    BY <2>2, ReachSame DEF Ahead, At
  <2>5. StoredAllocated' /\ MigrationInv'
    BY DEF StoredAllocated, MigrationInv
  <2> QED
    BY <2>1, <2>2, <2>3, <2>4, <2>5, LocalStep DEF Growing, Walking
<1>2. CASE FindNext(t)
  <2> USE <1>2 DEF FindNext
  <2>1. /\ OnlyMoves(t) /\ pc[t] = "next" /\ pc'[t] = "find" /\ cell'[t] = Following(cell[t])
        /\ UNCHANGED <<key, op, d, delta, hash, deltaNext, freeBuckets>>
        /\ Linked(cell[t]) /\ cell[t] \in Cells /\ Following(cell[t]) \in Cells
    BY CellType DEF TypeInv, ThreadTypes, OnlyMoves, Linked, Following
  <2>2. TypeInv'
    <3>1. CellTypes' /\ OtherTypes'
      BY DEF TypeInv, CellTypes, OtherTypes
    <3>2. pc' \in [Threads -> Places] /\ cell' \in [Threads -> Cells]
      BY <2>1 DEF TypeInv, ThreadTypes, Places, Following
    <3> QED
      BY <3>1, <3>2 DEF TypeInv, ThreadTypes
  <2>3. LocalInv'
    BY <2>1 DEF LocalInv, OnlyMoves, entr, Growing, Storing
  <2>4. \A j \in Cells : <<t, key'[t]>> \in Writers /\ hash[j] = key'[t] => Reach(At(t), j)'
    <3> SUFFICES ASSUME NEW j \in Cells, <<t, key[t]>> \in Writers, hash[j] = key[t] PROVE Reach(At(t), j)'
      BY <2>1
    <3>1. Reach(cell[t], j) /\ j # cell[t]
      BY <2>1 DEF Ahead, At, LocalInv
    <3>2. Reach(Following(cell[t]), j)
      BY <2>1, <3>1, ReachRest
    <3> QED
      BY <2>1, <3>2, ReachSame DEF At
  <2>5. StoredAllocated' /\ MigrationInv'
    BY DEF StoredAllocated, MigrationInv
  <2> QED
    BY <2>1, <2>2, <2>3, <2>4, <2>5, LocalStep DEF Growing, Walking
<1>3. CASE RemoveLoad(t)
  <2> USE <1>3 DEF RemoveLoad
  <2>1. TypeInv'
    <3>1. CellTypes' /\ OtherTypes'
      BY DEF TypeInv, CellTypes, OtherTypes
    <3>2. pc' \in [Threads -> Places] /\ oldValue' \in [Threads -> Values \cup {Empty}]
      BY DEF TypeInv, CellTypes, ThreadTypes, Places
    <3> QED
      BY <3>1, <3>2 DEF TypeInv, ThreadTypes
  <2>2. OnlyMoves(t) /\ pc[t] = "remove" /\ pc'[t] = "erase" /\ UNCHANGED <<hash, deltaNext, freeBuckets>>
    BY DEF TypeInv, ThreadTypes, OnlyMoves
  <2>3. LocalInv'
    BY <2>2 DEF LocalInv, OnlyMoves, entr, Growing, Storing
  <2>4. StoredAllocated' /\ MigrationInv'
    BY DEF StoredAllocated, MigrationInv
  <2> QED
    BY <2>1, <2>2, <2>3, <2>4, LocalStep DEF Growing, Walking
<1> QED
  BY <1>1, <1>2, <1>3

\* insertOrUpdate walks along a chain, or waits for it to be extended.
LEMMA WalkStep ==
    ASSUME IndInv, NEW t \in Threads, PutHash(t) \/ PutDelta(t) \/ PutWait(t)
    PROVE  IndInv'
<1> USE DEF IndInv, Goto, cellVars, argVars, migrationVars, historyVars
<1>1. CASE PutHash(t)
  <2> USE <1>1 DEF PutHash
  <2>1. /\ OnlyMoves(t) /\ pc[t] = "chain" /\ pc'[t] \in {"update", "delta"} /\ cell'[t] = At(t)
        /\ At(t) \in Cells /\ UNCHANGED <<key, op, d, delta, hash, deltaNext, freeBuckets>>
        /\ pc'[t] = "update" <=> hash[At(t)] = key[t]
        /\ d[t] = 0
    BY CellType DEF TypeInv, ThreadTypes, OnlyMoves, At, LocalInv, Growing
  <2>2. TypeInv'
    <3>1. CellTypes' /\ OtherTypes'
      BY DEF TypeInv, CellTypes, OtherTypes
    <3>2. pc' \in [Threads -> Places] /\ cell' \in [Threads -> Cells]
      BY <2>1 DEF TypeInv, ThreadTypes, Places, At, Walking, Storing
    <3>3. jumps' \in [Threads -> 0..(kMaxJumpsAllowed + 1)]
      BY Constants DEF TypeInv, ThreadTypes
    <3> QED
      BY <3>1, <3>2, <3>3 DEF TypeInv, ThreadTypes
  <2>3. At(t)' = At(t) /\ entr(t)' = At(t)
    BY <2>1, <2>2, CellType, WrapCells DEF At, entr
  <2>4. LocalInv'
    BY <2>1, <2>3 DEF LocalInv, OnlyMoves, entr, Growing, Storing
  <2>5. Reach(Home[key[t]], At(t))'
    BY <2>1, <2>3, ReachSame DEF OnChain, Walking
  <2>6. \A j \in Cells : <<t, key'[t]>> \in Writers /\ hash[j] = key'[t] => Reach(At(t), j)'
    BY <2>1, <2>3, ReachSame DEF Ahead, Walking
  <2>7. StoredAllocated' /\ MigrationInv'
    BY DEF StoredAllocated, MigrationInv
  <2> QED
    BY <2>1, <2>2, <2>4, <2>5, <2>6, <2>7, LocalStep DEF Growing
<1>2. CASE PutDelta(t)
  <2> USE <1>2 DEF PutDelta
  <2>1. /\ OnlyMoves(t) /\ pc[t] = "delta" /\ cell[t] \in Cells
        /\ UNCHANGED <<key, op, d, cell, hash, deltaNext, freeBuckets>>
        /\ IF Linked(cell[t]) THEN pc'[t] = "chain" /\ delta'[t] = deltaNext[cell[t]]
                              ELSE pc'[t] = "extend" /\ delta'[t] = 0
    BY CellType DEF TypeInv, ThreadTypes, OnlyMoves, Linked
  <2>2. TypeInv'
    <3>1. CellTypes' /\ OtherTypes'
      BY DEF TypeInv, CellTypes, OtherTypes
    <3>2. pc' \in [Threads -> Places]
      BY DEF TypeInv, ThreadTypes, Places, Walking
    <3>3. delta' \in [Threads -> 0..(kNeighbourhood - 1)]
      BY <2>1, Constants DEF TypeInv, CellTypes, ThreadTypes, MapDeltaExtend, MapDeltaEmpty
    <3> QED
      BY <3>1, <3>2, <3>3 DEF TypeInv, ThreadTypes, walkVars
  <2>3. LocalInv'
    BY <2>1 DEF LocalInv, OnlyMoves, entr, Growing, Storing
  <2>4. At(t)' = IF Linked(cell[t]) THEN Following(cell[t]) ELSE cell[t]
    BY <2>1 DEF At, Following
  <2>5. Reach(Home[key[t]], cell[t])
    BY <2>1 DEF OnChain, At, Walking
  <2>6. Reach(Home[key[t]], At(t))'
    BY <2>1, <2>4, <2>5, ReachSame, ReachLinked
  <2>7. \A j \in Cells : <<t, key'[t]>> \in Writers /\ hash[j] = key'[t] => Reach(At(t), j)'
    <3> SUFFICES ASSUME NEW j \in Cells, <<t, key[t]>> \in Writers, hash[j] = key[t] PROVE Reach(At(t), j)'
      BY <2>1
    <3>1. Reach(cell[t], j) /\ j # cell[t]
      BY <2>1 DEF Ahead, At, LocalInv, Walking
    <3>2. Linked(cell[t]) => Reach(Following(cell[t]), j)
      BY <2>1, <3>1, ReachRest
    <3> QED
      BY <2>1, <2>4, <3>1, <3>2, ReachSame
  <2>8. StoredAllocated' /\ MigrationInv'
    BY DEF StoredAllocated, MigrationInv
  <2> QED
    BY <2>1, <2>2, <2>3, <2>6, <2>7, <2>8, LocalStep DEF Growing
<1>3. CASE PutWait(t)
  <2> USE <1>3 DEF PutWait, walkVars
  <2>1. /\ OnlyMoves(t) /\ pc[t] = "wait" /\ pc'[t] = "chain" /\ delta[t] = 0 /\ delta'[t] = 0
        /\ UNCHANGED <<key, op, d, cell, hash, deltaNext, freeBuckets>>
    BY DEF TypeInv, ThreadTypes, OnlyMoves, LocalInv
  <2>2. TypeInv'
    <3>1. CellTypes' /\ OtherTypes'
      BY DEF TypeInv, CellTypes, OtherTypes
    <3>2. pc' \in [Threads -> Places]
      BY DEF TypeInv, ThreadTypes, Places, Walking
    <3> QED
      BY <3>1, <3>2 DEF TypeInv, ThreadTypes
  <2>3. LocalInv'
    BY <2>1 DEF LocalInv, OnlyMoves, entr, Growing, Storing
  <2>4. At(t) = cell[t] /\ At(t)' = cell[t]
    BY <2>1, CellType, WrapCells DEF At
  <2>5. Reach(Home[key[t]], At(t))'
    BY <2>1, <2>4, ReachSame DEF OnChain, Walking
  <2>6. \A j \in Cells : <<t, key'[t]>> \in Writers /\ hash[j] = key'[t] => Reach(At(t), j)'
    BY <2>1, <2>4, ReachSame DEF Ahead, Walking
  <2>7. StoredAllocated' /\ MigrationInv'
    BY DEF StoredAllocated, MigrationInv
  <2> QED
    BY <2>1, <2>2, <2>3, <2>5, <2>6, <2>7, LocalStep DEF Growing
<1> QED
  BY <1>1, <1>2, <1>3

\* put and remove exchange the value of the key's cell and return.
LEMMA StoreStep ==
    ASSUME IndInv, NEW t \in Threads, RemoveErase(t) \/ PutLoad(t) \/ PutSwap(t)
    PROVE  IndInv'
<1> USE DEF IndInv, Goto, argVars, walkVars, migrationVars, historyVars
<1>1. CASE PutLoad(t)
  <2> USE <1>1 DEF PutLoad, cellVars
  <2>1. /\ OnlyMoves(t) /\ UNCHANGED <<hash, deltaNext, freeBuckets>>
        /\ pc[t] \in Storing /\ pc'[t] \in Storing /\ (pc[t] = "set" <=> pc'[t] = "setSwap")
    BY DEF TypeInv, ThreadTypes, OnlyMoves, Storing
  <2>2. TypeInv'
    <3>1. CellTypes' /\ OtherTypes'
      BY DEF TypeInv, CellTypes, OtherTypes
    <3>2. pc' \in [Threads -> Places]
      BY DEF TypeInv, ThreadTypes, Places, Storing
    <3>3. value[entr(t)] \in Values \cup {Empty}
      BY CellType DEF TypeInv, CellTypes
    <3>4. oldValue' \in [Threads -> Values \cup {Empty}]
      BY <3>3 DEF TypeInv, ThreadTypes
    <3> QED
      BY <3>1, <3>2, <3>4 DEF TypeInv, ThreadTypes
  <2>3. LocalInv'
    BY <2>1 DEF LocalInv, OnlyMoves, entr, Growing, Storing
  <2>4. StoredAllocated' /\ MigrationInv'
    BY DEF StoredAllocated, MigrationInv
  <2> QED
    BY <2>1, <2>2, <2>3, <2>4, LocalStep DEF Growing, Walking, Storing
<1>2. CASE RemoveErase(t) \/ PutSwap(t)
  <2>1. /\ OnlyMoves(t) /\ Reset(t) /\ UNCHANGED <<op, key, hash, deltaNext, freeBuckets, migrationVars, calls>>
        /\ pc[t] \in Storing \cup {"erase"} /\ pc'[t] = "idle" /\ d'[t] = 0 /\ delta'[t] = 0
    BY <1>2 DEF RemoveErase, PutSwap, Reset, TypeInv, ThreadTypes, OnlyMoves, Storing
  <2>2. PICK i \in Cells, v \in Values \cup {Empty} :
            value' = value \/ (value[i] # Move /\ value' = [value EXCEPT ![i] = v])
    <3>1. oldValue[t] # Move /\ val[t] \in Values \cup {Empty}
      BY TableAssumption DEF TypeInv, ThreadTypes
    <3> QED
      BY <1>2, <3>1, CellType DEF RemoveErase, PutSwap
  <2>3. TypeInv'
    <3>1. CellTypes'
      BY <2>1, <2>2 DEF TypeInv, CellTypes
    <3>2. pc' \in [Threads -> Places]
      BY <1>2 DEF RemoveErase, PutSwap, TypeInv, ThreadTypes, Places
    <3>3. cell' \in [Threads -> Cells] /\ d' \in [Threads -> 0..kNeighbourhood]
      BY <2>1, Constants DEF Reset, TypeInv, ThreadTypes
    <3>4. delta' \in [Threads -> 0..(kNeighbourhood - 1)] /\ jumps' \in [Threads -> 0..(kMaxJumpsAllowed + 1)]
      BY <2>1, Constants DEF Reset, TypeInv, ThreadTypes
    <3>5. val' \in [Threads -> Values \cup {Empty}] /\ oldValue' \in [Threads -> Values \cup {Empty}]
      BY <2>1 DEF Reset, TypeInv, ThreadTypes
    <3>6. stored' \in [Keys -> Values \cup {Empty}]
      BY <1>2 DEF RemoveErase, PutSwap, TypeInv, ThreadTypes, OtherTypes
    <3>7. missed' \subseteq Keys
      BY <1>2 DEF RemoveErase, PutSwap, Missed, TypeInv, ThreadTypes, OtherTypes
    <3> QED
      BY <2>1, <3>1, <3>2, <3>3, <3>4, <3>5, <3>6, <3>7 DEF TypeInv, ThreadTypes, OtherTypes
  <2>4. LocalInv'
    BY <2>1 DEF LocalInv, OnlyMoves, entr, Growing, Storing
  <2>5. MigrationInv'
    <3>1. \A c \in Cells : value'[c] = Move <=> value[c] = Move
      BY <2>2, TableAssumption DEF TypeInv, CellTypes
    <3> QED
      BY <2>1, <3>1 DEF MigrationInv, TypeInv, OtherTypes
  <2>6. StoredAllocated'
    <3>1. pc[t] \in Storing => hash[entr(t)] = key[t] /\ entr(t) \in Cells
      BY CellType DEF LocalInv
    <3>2. \A k \in Keys : stored'[k] # Empty => stored[k] # Empty \/ (k = key[t] /\ pc[t] \in Storing)
      BY <1>2 DEF RemoveErase, PutSwap, TypeInv, OtherTypes, Storing
    <3> QED
      BY <2>1, <3>1, <3>2 DEF StoredAllocated
  <2> QED
    BY <2>1, <2>3, <2>4, <2>5, <2>6, LocalStep DEF Growing, Walking, Storing
<1> QED
  BY <1>1, <1>2

-----------------------------------------------------------------------------
(* Steps of a thread that extends a chain *)

\* Buckets are counted in finite sets.
LEMMA FiniteCounts ==
    /\ IsFiniteSet(Cells) /\ IsFiniteSet(Allocated) /\ IsFiniteSet(Reserving) /\ IsFiniteSet(Claiming)
    /\ Cardinality(Allocated) \in Nat /\ Cardinality(Reserving) \in Nat /\ Cardinality(Claiming) \in Nat
<1>1. IsFiniteSet(Cells)
  BY FS_Interval, TableAssumption DEF Cells
<1>2. IsFiniteSet(Allocated)
  BY <1>1, FS_Subset DEF Allocated
<1>3. IsFiniteSet(Reserving) /\ IsFiniteSet(Claiming)
  BY TableAssumption, FS_Subset DEF Reserving, Claiming
<1> QED
  BY <1>1, <1>2, <1>3, FS_CardinalityType

\* With its own key nowhere in the table, a search does not end at it.
LEMMA SearchStep ==
    ASSUME IndInv, NEW t \in Threads, PutSearch(t)
    PROVE  IndInv'
<1> USE DEF IndInv, Goto, cellVars, argVars, migrationVars, historyVars, PutSearch
<1>1. hash[entr(t)] # key[t] /\ entr(t) \in Cells
  BY CellType DEF Unallocated, Growing
<1>2. /\ OnlyMoves(t) /\ pc[t] = "search" /\ d[t] < kNeighbourhood /\ d[t] \in Nat
      /\ \/ hash[entr(t)] = Empty /\ pc'[t] = "reserve" /\ d'[t] = d[t]
         \/ hash[entr(t)] # Empty /\ pc'[t] = Onward(t) /\ d'[t] = d[t] + 1
      /\ UNCHANGED <<key, op, cell, delta, hash, deltaNext, value, freeBuckets, stored>>
  <2>1. d[t] \in Nat /\ kNeighbourhood \in Nat
    BY Constants DEF TypeInv, ThreadTypes
  <2>2. pc[t] = "search" /\ d[t] < kNeighbourhood
    BY DEF LocalInv, Growing
  <2>3. OnlyMoves(t)
    BY DEF TypeInv, ThreadTypes, OnlyMoves
  <2> QED
    BY <1>1, <2>1, <2>2, <2>3 DEF TypeInv, ThreadTypes
<1>3. TypeInv'
  <2>1. CellTypes' /\ OtherTypes'
    BY DEF TypeInv, CellTypes, OtherTypes
  <2>2. pc' \in [Threads -> Places]
    BY DEF TypeInv, ThreadTypes, Places, Growing, Storing, Onward
  <2>3. d' \in [Threads -> 0..kNeighbourhood]
    BY <1>2, Constants DEF TypeInv, ThreadTypes
  <2> QED
    BY <2>1, <2>2, <2>3 DEF TypeInv, ThreadTypes
<1>4. LocalInv'
  BY <1>2, Constants DEF LocalInv, OnlyMoves, entr, Growing, Storing, Onward
<1>5. d'[t] > 0 => hash[cell[t]] # Empty
  BY <1>2, CellType DEF LinkInv, Growing
<1>6. ClaimInv'
  <2>1. Reserving' = Reserving /\ Claiming' = Claiming /\ Allocated' = Allocated
    BY <1>2 DEF Reserving, Claiming, Allocated, OnlyMoves, Onward
  <2> QED
    BY <1>2, <2>1 DEF ClaimInv
<1> QED
  BY <1>2, <1>3, <1>4, <1>5, <1>6, GrowStep DEF Growing, Onward

\* A bucket is reserved, found missing, or given back.
LEMMA ReserveStep ==
    ASSUME IndInv, NEW t \in Threads, PutReserve(t) \/ PutFull(t) \/ PutUnreserve(t)
    PROVE  IndInv'
<1> USE DEF IndInv, Goto, argVars, walkVars, migrationVars, historyVars
<1>0. Cardinality(Allocated) \in Nat /\ Cardinality(Reserving) \in Nat /\ Cardinality(Claiming) \in Nat
  BY FiniteCounts
<1>1. CASE PutReserve(t)
  <2> USE <1>1 DEF PutReserve
  <2>1. /\ OnlyMoves(t) /\ pc[t] = "reserve" /\ pc'[t] = (IF freeBuckets <= 0 THEN "full" ELSE "claim")
        /\ UNCHANGED <<key, op, cell, d, delta, hash, deltaNext, value, stored>>
        /\ freeBuckets' = freeBuckets - 1 /\ freeBuckets \in Int
    BY DEF TypeInv, CellTypes, ThreadTypes, OnlyMoves
  <2>2. TypeInv'
    <3>1. CellTypes' /\ OtherTypes'
      BY DEF TypeInv, CellTypes, OtherTypes
    <3>2. pc' \in [Threads -> Places]
      BY DEF TypeInv, ThreadTypes, Places, Growing
    <3> QED
      BY <3>1, <3>2 DEF TypeInv, ThreadTypes
  <2>3. LocalInv'
    BY <2>1 DEF LocalInv, OnlyMoves, entr, Growing, Storing
  <2>4. d'[t] > 0 => hash[cell[t]] # Empty
    BY <2>1 DEF LinkInv, Growing
  <2>5. ClaimInv'
    <3>1. Reserving' = Reserving \cup {t} /\ t \notin Reserving /\ t \notin Claiming /\ Allocated' = Allocated
      BY <2>1 DEF Reserving, Allocated, Claiming, OnlyMoves
    <3>2. Cardinality(Reserving') = Cardinality(Reserving) + 1
      BY <3>1, FiniteCounts, FS_AddElement
    <3>3. CASE freeBuckets <= 0
      <4>1. Claiming' = Claiming
        BY <2>1, <3>3 DEF Claiming, OnlyMoves
      <4> QED
        BY <1>0, <2>1, <3>1, <3>2, <4>1 DEF ClaimInv
    <3>4. CASE ~(freeBuckets <= 0)
      <4>1. Claiming' = Claiming \cup {t}
        BY <2>1, <3>4 DEF Claiming, OnlyMoves
      <4>2. Cardinality(Claiming') = Cardinality(Claiming) + 1
        BY <3>1, <4>1, FiniteCounts, FS_AddElement
      <4>3. Cardinality(Claiming) <= Cardinality(Reserving)
        BY FiniteCounts, FS_Subset DEF Claiming, Reserving
      <4> QED
        BY <1>0, <2>1, <3>1, <3>2, <3>4, <4>2, <4>3, TableAssumption DEF ClaimInv
    <3> QED
      BY <3>3, <3>4
  <2> QED
    BY <2>1, <2>2, <2>3, <2>4, <2>5, GrowStep DEF Growing
<1>2. CASE PutFull(t)
  <2> USE <1>2 DEF PutFull
  <2>1. /\ OnlyMoves(t) /\ pc[t] = "full" /\ pc'[t] = "nospace"
        /\ UNCHANGED <<key, op, cell, d, delta, hash, deltaNext, value, stored>>
        /\ freeBuckets' = freeBuckets + 1 /\ freeBuckets \in Int
    BY DEF TypeInv, CellTypes, ThreadTypes, OnlyMoves
  <2>2. TypeInv'
    <3>1. CellTypes' /\ OtherTypes'
      BY DEF TypeInv, CellTypes, OtherTypes
    <3>2. pc' \in [Threads -> Places]
      BY DEF TypeInv, ThreadTypes, Places, Growing
    <3> QED
      BY <3>1, <3>2 DEF TypeInv, ThreadTypes
  <2>3. LocalInv'
    BY <2>1 DEF LocalInv, OnlyMoves, entr, Growing, Storing
  <2>4. d'[t] > 0 => hash[cell[t]] # Empty
    BY <2>1 DEF LinkInv, Growing
  <2>5. ClaimInv'
    <3>1. /\ Reserving' = Reserving \ {t} /\ t \in Reserving
          /\ Claiming' = Claiming /\ Allocated' = Allocated
      BY <2>1 DEF Reserving, Claiming, Allocated, OnlyMoves
    <3>2. Cardinality(Reserving') = Cardinality(Reserving) - 1
      BY <3>1, FiniteCounts, FS_RemoveElement
    <3> QED
      BY <1>0, <2>1, <3>1, <3>2 DEF ClaimInv
  <2> QED
    BY <2>1, <2>2, <2>3, <2>4, <2>5, GrowStep DEF Growing
<1>3. CASE PutUnreserve(t)
  <2> USE <1>3 DEF PutUnreserve
  <2>1. hash[entr(t)] # key[t] /\ entr(t) \in Cells
    BY CellType DEF Unallocated, Growing
  <2>2. /\ OnlyMoves(t) /\ pc[t] = "unreserve" /\ pc'[t] = Onward(t) /\ d'[t] = d[t] + 1
        /\ d[t] < kNeighbourhood /\ d[t] \in Nat /\ hash[entr(t)] # Empty
        /\ UNCHANGED <<key, op, cell, delta, hash, deltaNext, value, stored>>
        /\ freeBuckets' = freeBuckets + 1 /\ freeBuckets \in Int
    <3>1. d[t] \in Nat /\ kNeighbourhood \in Nat
      BY Constants DEF TypeInv, ThreadTypes
    <3>2. pc[t] = "unreserve" /\ d[t] < kNeighbourhood /\ hash[entr(t)] # Empty
      BY DEF LocalInv, Growing
    <3>3. OnlyMoves(t)
      BY DEF TypeInv, ThreadTypes, OnlyMoves
    <3> QED
      BY <2>1, <3>1, <3>2, <3>3 DEF TypeInv, CellTypes, ThreadTypes
  <2>3. TypeInv'
    <3>1. CellTypes' /\ OtherTypes'
      BY DEF TypeInv, CellTypes, OtherTypes
    <3>2. pc' \in [Threads -> Places]
      BY DEF TypeInv, ThreadTypes, Places, Growing, Storing, Onward
    <3>3. d' \in [Threads -> 0..kNeighbourhood]
      BY <2>2, Constants DEF TypeInv, ThreadTypes
    <3> QED
      BY <3>1, <3>2, <3>3 DEF TypeInv, ThreadTypes
  <2>4. LocalInv'
    BY <2>2, Constants DEF LocalInv, OnlyMoves, entr, Growing, Storing, Onward
  <2>5. d'[t] > 0 => hash[cell[t]] # Empty
    BY <2>2, CellType DEF LinkInv, Growing
  <2>6. ClaimInv'
    <3>1. /\ Reserving' = Reserving \ {t} /\ t \in Reserving /\ Allocated' = Allocated
          /\ Claiming' = Claiming \ {t} /\ t \in Claiming
      BY <2>2 DEF Reserving, Claiming, Allocated, OnlyMoves, Onward
    <3>2. /\ Cardinality(Reserving') = Cardinality(Reserving) - 1
          /\ Cardinality(Claiming') = Cardinality(Claiming) - 1
      BY <3>1, FiniteCounts, FS_RemoveElement
    <3> QED
      BY <1>0, <2>2, <3>1, <3>2 DEF ClaimInv
  <2> QED
    BY <2>2, <2>3, <2>4, <2>5, <2>6, GrowStep DEF Growing, Onward
<1> QED
  BY <1>1, <1>2, <1>3

\* The last cell of a chain is reserved; a thread that comes too late waits.
LEMMA ExtendStep ==
    ASSUME IndInv, NEW t \in Threads, PutExtend(t)
    PROVE  IndInv'
<1> USE DEF IndInv, Goto, argVars, walkVars, migrationVars, historyVars, PutExtend
<1>1. /\ OnlyMoves(t) /\ pc[t] = "extend" /\ cell[t] \in Cells /\ d[t] = 0 /\ delta[t] = 0
      /\ UNCHANGED <<op, key, cell, d, delta, hash, freeBuckets, value, stored>>
      /\ hash[cell[t]] # key[t] /\ <<t, key[t]>> \in Writers
  <2>1. pc[t] = "extend" /\ op[t] # "get" /\ d[t] = 0 /\ delta[t] = 0 /\ hash[cell[t]] # key[t]
    BY DEF LocalInv, Growing
  <2>2. <<t, key[t]>> \in Writers
    BY <2>1 DEF LocalInv
  <2> QED
    BY <2>1, <2>2 DEF TypeInv, ThreadTypes, OnlyMoves
<1>2. At(t) = cell[t] /\ At(t)' = cell[t]
  BY <1>1 DEF At, TypeInv, ThreadTypes
<1>3. \A u \in Threads : u # t => entr(u)' = entr(u) /\ At(u)' = At(u)
  BY <1>1 DEF OnlyMoves, entr, At
<1>4. pc' \in [Threads -> Places]
  BY DEF TypeInv, ThreadTypes, Places, Walking, Growing
<1>5. CASE deltaNext[cell[t]] # MapDeltaEmpty
  <2>1. UNCHANGED deltaNext /\ pc'[t] = "wait"
    BY <1>1, <1>5 DEF TypeInv, ThreadTypes
  <2>2. TypeInv'
    BY <1>1, <1>4, <2>1 DEF TypeInv, CellTypes, ThreadTypes, OtherTypes
  <2>3. LocalInv'
    BY <1>1, <2>1 DEF LocalInv, OnlyMoves, entr, Growing, Storing
  <2>4. Reach(Home[key[t]], At(t))'
    BY <1>1, <1>2, <2>1, ReachSame DEF OnChain, Walking
  <2>5. \A j \in Cells : <<t, key'[t]>> \in Writers /\ hash[j] = key'[t] => Reach(At(t), j)'
    BY <1>1, <1>2, <2>1, ReachSame DEF Ahead, Walking
  <2>6. StoredAllocated' /\ MigrationInv'
    BY <1>1 DEF StoredAllocated, MigrationInv
  <2> QED
    BY <1>1, <2>1, <2>2, <2>3, <2>4, <2>5, <2>6, LocalStep DEF Growing
<1>6. CASE deltaNext[cell[t]] = MapDeltaEmpty
  <2>1. deltaNext' = [deltaNext EXCEPT ![cell[t]] = MapDeltaExtend] /\ pc'[t] = "search"
    BY <1>1, <1>6 DEF TypeInv, ThreadTypes
  <2>2. deltaNext'[cell[t]] = MapDeltaExtend /\ \A c \in Cells : c # cell[t] => deltaNext'[c] = deltaNext[c]
    BY <1>1, <2>1 DEF TypeInv, CellTypes
  <2>3. ~Linked(cell[t]) /\ \A c \in Cells : Linked(c)' => Linked(c) /\ deltaNext'[c] = deltaNext[c]
    BY <1>6, <2>2 DEF Linked
  <2>4. \A i, j : Reach(i, j) => Reach(i, j)'
    BY <2>2, <2>3, ReachGrows
  <2>5. TypeInv'
    <3>1. CellTypes'
      BY <1>1, <2>1 DEF TypeInv, CellTypes
    <3> QED
      BY <1>1, <1>4, <3>1 DEF TypeInv, ThreadTypes, OtherTypes
  <2>6. LocalInv'
    BY <1>1, <2>1, Constants DEF LocalInv, OnlyMoves, entr, Growing, Storing
  <2>7. ExtendInv' /\ LinkInv'
    <3>1. \A u \in Threads : pc[u] \in Growing => cell[u] # cell[t]
      BY <1>6 DEF ExtendInv, MapDeltaEmpty, MapDeltaExtend
    <3>2. ExtendInv'
      BY <1>1, <2>1, <2>2, <3>1 DEF ExtendInv, OnlyMoves, TypeInv, ThreadTypes
    <3>3. LinkInv'
      BY <1>1, <2>3 DEF LinkInv, OnlyMoves
    <3> QED
      BY <3>2, <3>3
  <2>8. OnChain' /\ Chained' /\ Ahead'
    <3>1. OnChain'
      BY <1>1, <1>2, <1>3, <2>4 DEF OnChain, OnlyMoves, Walking
    <3>2. Chained'
      BY <1>1, <1>3, <2>4 DEF Chained, OnlyMoves
    <3>3. Ahead'
      BY <1>1, <1>3, <2>1, <2>4 DEF Ahead, OnlyMoves, Walking
    <3> QED
      BY <3>1, <3>2, <3>3
  <2>9. Unallocated'
    <3>1. \A j \in Cells : hash[j] # key[t]
      <4> SUFFICES ASSUME NEW j \in Cells, hash[j] = key[t] PROVE FALSE
        OBVIOUS
      <4>1. Reach(cell[t], j)
        BY <1>1, <1>2 DEF Ahead, Walking
      <4>2. j = cell[t]
        BY <1>1, <2>3, <4>1, ReachEnd
      <4> QED
        BY <1>1, <4>2
    <3> QED
      BY <1>1, <1>3, <3>1 DEF Unallocated, OnlyMoves
  <2>10. StoredAllocated' /\ OneCellPerKey' /\ MigrationInv'
    BY <1>1 DEF StoredAllocated, OneCellPerKey, Allocated, MigrationInv
  <2>11. ChainsReleased'
    BY <1>1, <2>1, <2>2 DEF ChainsReleased, Extending, OnlyMoves
  <2>12. ClaimInv'
    <3>1. Reserving' = Reserving /\ Claiming' = Claiming /\ Allocated' = Allocated
      BY <1>1, <2>1 DEF Reserving, Claiming, Allocated, OnlyMoves
    <3> QED
      BY <1>1, <3>1 DEF ClaimInv
  <2> QED
    BY <2>5, <2>6, <2>7, <2>8, <2>9, <2>10, <2>11, <2>12
<1> QED
  BY <1>5, <1>6

\* A cell is allocated for the key, which had none, or another thread was faster.
LEMMA ClaimStep ==
    ASSUME IndInv, NEW t \in Threads, PutClaim(t)
    PROVE  IndInv'
<1> USE DEF IndInv, Goto, argVars, walkVars, migrationVars, historyVars, PutClaim
<1> DEFINE e == entr(t)
<1>1. /\ OnlyMoves(t) /\ pc[t] = "claim" /\ e \in Cells /\ cell[t] \in Cells
      /\ UNCHANGED <<op, key, cell, d, delta, deltaNext, freeBuckets, value, stored>>
      /\ key[t] \in Keys /\ key[t] # Empty /\ <<t, key[t]>> \in Writers
  <2>1. pc[t] = "claim" /\ op[t] # "get"
    BY DEF LocalInv
  <2>2. <<t, key[t]>> \in Writers
    BY <2>1 DEF LocalInv
  <2>3. e \in Cells /\ key[t] \in Keys /\ key[t] # Empty
    BY CellType, Constants DEF TypeInv, ThreadTypes
  <2> QED
    BY <2>1, <2>2, <2>3 DEF TypeInv, ThreadTypes, OnlyMoves
<1>2. \A u \in Threads : entr(u)' = entr(u) /\ (u # t => At(u)' = At(u))
  BY <1>1 DEF OnlyMoves, entr, At
<1>3. pc' \in [Threads -> Places]
  BY DEF TypeInv, ThreadTypes, Places, Growing
<1> HIDE DEF e
<1>4. CASE hash[e] # Empty
  <2>1. UNCHANGED hash /\ pc'[t] = "unreserve"
    BY <1>1, <1>4 DEF TypeInv, ThreadTypes, e
  <2>2. TypeInv'
    BY <1>1, <1>3, <2>1 DEF TypeInv, CellTypes, ThreadTypes, OtherTypes
  <2>3. LocalInv'
    BY <1>1, <1>2, <1>4, <2>1 DEF LocalInv, OnlyMoves, e, Growing, Storing
  <2>4. d'[t] > 0 => hash[cell[t]] # Empty
    BY <1>1 DEF LinkInv, Growing
  <2>5. ClaimInv'
    <3>1. Reserving' = Reserving /\ Claiming' = Claiming /\ Allocated' = Allocated
      BY <1>1, <2>1 DEF Reserving, Claiming, Allocated, OnlyMoves
    <3> QED
      BY <1>1, <3>1 DEF ClaimInv
  <2> QED
    BY <1>1, <2>1, <2>2, <2>3, <2>4, <2>5, GrowStep DEF Growing
<1>5. CASE hash[e] = Empty
  <2>1. hash' = [hash EXCEPT ![e] = key[t]] /\ pc'[t] = "link"
    BY <1>1, <1>5 DEF TypeInv, ThreadTypes, e
  <2>2. /\ hash'[e] = key[t] /\ \A c \in Cells : c # e => hash'[c] = hash[c]
        /\ \A c \in Cells : hash[c] # Empty => hash'[c] = hash[c]
    BY <1>1, <1>5, <2>1 DEF TypeInv, CellTypes
  <2>3. \A u \in Threads : u # t /\ <<u, key[u]>> \in Writers => key[u] # key[t]
    BY <1>1, WriterAssumption DEF TypeInv, ThreadTypes
  <2>4. \A c \in Cells : hash[c] # key[t]
    BY <1>1 DEF Unallocated, Growing
  <2>5. \A i, j : Reach(i, j)' <=> Reach(i, j)
    BY <1>1, ReachSame
  <2>6. TypeInv'
    <3>1. CellTypes'
      BY <1>1, <2>1 DEF TypeInv, CellTypes
    <3> QED
      BY <1>1, <1>3, <3>1 DEF TypeInv, ThreadTypes, OtherTypes
  <2>7. LocalInv'
    <3> SUFFICES ASSUME NEW u \in Threads, u # t
                 PROVE  /\ pc[u] \in Storing \cup {"link"} => hash'[entr(u)] = key[u]
                        /\ pc[u] = "unreserve" => hash'[entr(u)] # Empty
                        /\ pc[u] \in {"next", "delta", "extend", "wait"} => hash'[cell[u]] # key[u]
                        /\ pc[u] = "next" => hash'[cell[u]] # Empty
      BY <1>1, <1>2, <2>1, <2>2 DEF LocalInv, OnlyMoves, e, Growing, Storing
    <3>1. entr(u) \in Cells /\ cell[u] \in Cells /\ key[u] # Empty
      BY CellType, Constants DEF TypeInv, ThreadTypes
    <3>2. pc[u] \in Storing \cup {"link"} => hash'[entr(u)] = key[u]
      BY <2>2, <3>1 DEF LocalInv
    <3>3. pc[u] = "unreserve" => hash'[entr(u)] # Empty
      BY <2>2, <3>1 DEF LocalInv
    <3>4. pc[u] = "next" => hash'[cell[u]] # Empty /\ hash'[cell[u]] # key[u]
      BY <2>2, <3>1 DEF LocalInv
    <3>5. pc[u] \in {"delta", "extend", "wait"} => hash'[cell[u]] # key[u]
      <4>1. pc[u] \in {"delta", "extend", "wait"} => <<u, key[u]>> \in Writers /\ hash[cell[u]] # key[u]
        BY DEF LocalInv
      <4> QED
        BY <2>2, <2>3, <3>1, <4>1
    <3> QED
      BY <3>2, <3>3, <3>4, <3>5
  <2>8. ExtendInv' /\ LinkInv'
    <3>1. ExtendInv'
      BY <1>1, <2>1 DEF ExtendInv, OnlyMoves, Growing
    <3>2. LinkInv'
      <4>1. \A c \in Cells : Linked(c)' => hash'[c] # Empty
        BY <1>1, <2>2 DEF LinkInv, Linked
      <4>2. \A u \in Threads : pc'[u] \in Growing /\ d'[u] > 0 => hash'[cell'[u]] # Empty
        BY <1>1, <2>2, CellType DEF LinkInv, OnlyMoves, Growing
      <4> QED
        BY <4>1, <4>2 DEF LinkInv
    <3> QED
      BY <3>1, <3>2
  <2>9. OnChain'
    <3>1. At(t) = cell[t] /\ At(t)' = cell[t]
      BY <1>1, <2>1 DEF At
    <3> QED
      BY <1>1, <1>2, <2>5, <3>1 DEF OnChain, OnlyMoves, Growing
  <2>10. Chained'
    <3> SUFFICES ASSUME NEW j \in Cells, hash'[j] # Empty
                 PROVE  \/ Reach(Home[hash'[j]], j)
                        \/ \E u \in Threads : pc'[u] = "link" /\ entr(u) = j /\ key[u] = hash'[j]
      BY <1>1, <1>2, <2>5 DEF Chained
    <3>1. CASE j = e
      BY <2>1, <2>2, <3>1 DEF e
    <3>2. CASE j # e
      BY <1>1, <2>2, <3>2 DEF Chained, OnlyMoves
    <3> QED
      BY <3>1, <3>2
  <2>11. Ahead'
    <3> SUFFICES ASSUME NEW u \in Threads, NEW j \in Cells, pc'[u] \in Walking \cup {"find", "next"},
                        <<u, key[u]>> \in Writers, hash'[j] = key[u]
                 PROVE  Reach(At(u), j)'
      BY <1>1 DEF Ahead
    <3>1. u # t
      BY <2>1 DEF Walking
    <3>2. hash[j] = key[u]
      BY <2>2, <2>3, <3>1
    <3> QED
      BY <1>1, <1>2, <2>5, <3>1, <3>2 DEF Ahead, OnlyMoves
  <2>12. Unallocated'
    <3> SUFFICES ASSUME NEW u \in Threads, NEW j \in Cells, pc'[u] \in Growing, hash'[j] = key[u]
                 PROVE  pc'[u] = "link" /\ j = entr(u)
      BY <1>1, <1>2 DEF Unallocated
    <3>1. CASE u = t
      BY <2>1, <2>2, <2>4, <3>1 DEF e
    <3>2. CASE u # t
      <4>1. pc[u] \in Growing /\ pc'[u] = pc[u]
        BY <1>1, <3>2 DEF OnlyMoves
      <4>2. <<u, key[u]>> \in Writers
        BY <4>1 DEF LocalInv, Growing
      <4>3. hash[j] = key[u]
        BY <2>2, <2>3, <3>2, <4>2
      <4> QED
        BY <4>1, <4>3 DEF Unallocated
    <3> QED
      BY <3>1, <3>2
  <2>13. StoredAllocated' /\ OneCellPerKey'
    <3>1. StoredAllocated'
      BY <1>1, <2>2, Constants DEF StoredAllocated
    <3>2. OneCellPerKey'
      BY <2>2, <2>4 DEF OneCellPerKey, Allocated
    <3> QED
      BY <3>1, <3>2
  <2>14. ChainsReleased'
    BY <1>1, <2>1 DEF ChainsReleased, Extending, OnlyMoves
  <2>15. ClaimInv'
    <3>0. Cardinality(Allocated) \in Nat /\ Cardinality(Reserving) \in Nat /\ Cardinality(Claiming) \in Nat
      BY FiniteCounts
    <3>1. Allocated' = Allocated \cup {e} /\ e \notin Allocated
      BY <1>1, <1>5, <2>2 DEF Allocated
    <3>2. /\ Reserving' = Reserving \ {t} /\ t \in Reserving
          /\ Claiming' = Claiming \ {t} /\ t \in Claiming
      BY <1>1, <2>1 DEF Reserving, Claiming, OnlyMoves
    <3>3. Cardinality(Allocated') = Cardinality(Allocated) + 1
      BY <3>1, FiniteCounts, FS_AddElement
    <3>4. /\ Cardinality(Reserving') = Cardinality(Reserving) - 1
          /\ Cardinality(Claiming') = Cardinality(Claiming) - 1
      BY <3>2, FiniteCounts, FS_RemoveElement
    <3>5. freeBuckets \in Int /\ FreeBuckets \in Int
      BY TableAssumption DEF TypeInv, CellTypes
    <3> QED
      BY <1>1, <3>0, <3>3, <3>4, <3>5 DEF ClaimInv
  <2>16. MigrationInv'
    BY <1>1, <2>2 DEF MigrationInv, TypeInv, OtherTypes
  <2> QED
    BY <2>6, <2>7, <2>8, <2>9, <2>10, <2>11, <2>12, <2>13, <2>14, <2>15, <2>16
<1> QED
  BY <1>4, <1>5

\* The new cell is linked to the chain, or was the last cell of the chain itself.
LEMMA LinkStep ==
    ASSUME IndInv, NEW t \in Threads, PutLink(t)
    PROVE  IndInv'
<1> USE DEF IndInv, Goto, argVars, walkVars, migrationVars, historyVars, PutLink
<1>1. /\ OnlyMoves(t) /\ pc[t] = "link" /\ pc'[t] = "set" /\ cell[t] \in Cells
      /\ UNCHANGED <<op, key, cell, d, delta, hash, freeBuckets, value, stored>>
      /\ deltaNext' = [deltaNext EXCEPT ![cell[t]] = IF d[t] > 0 THEN d[t] ELSE MapDeltaEmpty]
  BY DEF TypeInv, ThreadTypes, OnlyMoves
<1>2. d[t] \in 0..(kNeighbourhood - 1)
  <2>1. d[t] < kNeighbourhood
    BY <1>1 DEF LocalInv, Growing
  <2> QED
    BY <2>1, Constants DEF TypeInv, ThreadTypes
<1>3. /\ deltaNext'[cell[t]] = d[t] /\ (Linked(cell[t])' <=> d[t] > 0)
      /\ \A c \in Cells : c # cell[t] => deltaNext'[c] = deltaNext[c] /\ (Linked(c)' <=> Linked(c))
  BY <1>1, <1>2 DEF TypeInv, CellTypes, Linked, MapDeltaEmpty, MapDeltaExtend
<1>4. deltaNext[cell[t]] = MapDeltaExtend /\ ~Linked(cell[t])
  BY <1>1 DEF ExtendInv, Growing, Linked
<1>5. \A i, j : Reach(i, j) => Reach(i, j)'
  BY <1>3, <1>4, ReachGrows
<1>6. \A u \in Threads : entr(u)' = entr(u) /\ (u # t => At(u)' = At(u))
  BY <1>1 DEF OnlyMoves, entr, At
<1>7. TypeInv'
  <2>1. CellTypes'
    BY <1>1, <1>2, Constants DEF TypeInv, CellTypes, MapDeltaEmpty
  <2>2. pc' \in [Threads -> Places]
    BY DEF TypeInv, ThreadTypes, Places, Storing
  <2> QED
    BY <1>1, <2>1, <2>2 DEF TypeInv, ThreadTypes, OtherTypes
<1>8. LocalInv'
  BY <1>1, <1>6 DEF LocalInv, OnlyMoves, Growing, Storing
<1>9. ExtendInv'
  BY <1>1, <1>3, CellType DEF ExtendInv, OnlyMoves, Growing
<1>10. LinkInv'
  <2>1. d[t] > 0 => hash[cell[t]] # Empty
    BY <1>1 DEF LinkInv, Growing
  <2> QED
    BY <1>1, <1>3, <2>1 DEF LinkInv, OnlyMoves, Growing
<1>11. Reach(Home[key[t]], entr(t))'
  <2>1. Reach(Home[key[t]], cell[t])'
    <3>1. Reach(Home[key[t]], cell[t])
      BY <1>1 DEF OnChain, At, Growing
    <3> QED
      BY <1>1, <1>5, <3>1
  <2>2. CASE d[t] = 0
    <3>1. entr(t) = cell[t]
      BY <2>2, CellType
    <3> QED
      BY <1>1, <1>6, <2>1, <3>1
  <2>3. CASE d[t] > 0
    <3>1. Linked(cell[t])' /\ Following(cell[t])' = entr(t)'
      BY <1>1, <1>3, <2>3 DEF Following, entr
    <3>2. cell'[t] \in Cells /\ TypeInv'
      BY <1>1, <1>7
    <3> QED
      BY <1>1, <2>1, <3>1, <3>2 DEF Reach, Closed
  <2> QED
    BY <1>2, <2>2, <2>3
<1>12. OnChain'
  BY <1>1, <1>5, <1>6 DEF OnChain, OnlyMoves, Walking, Growing
<1>13. Chained'
  <2> SUFFICES ASSUME NEW j \in Cells, hash[j] # Empty
               PROVE  \/ Reach(Home[hash[j]], j)'
                      \/ \E u \in Threads : (pc[u] = "link" /\ entr(u) = j /\ key[u] = hash[j])'
    BY <1>1 DEF Chained
  <2>1. CASE Reach(Home[hash[j]], j)
    BY <1>1, <1>5, <2>1
  <2>2. ASSUME NEW u \in Threads, pc[u] = "link", entr(u) = j, key[u] = hash[j]
        PROVE  \/ Reach(Home[hash[j]], j)'
               \/ (pc[u] = "link" /\ entr(u) = j /\ key[u] = hash[j])'
    BY <1>1, <1>6, <1>11, <2>2 DEF OnlyMoves
  <2> QED
    BY <2>1, <2>2 DEF Chained
<1>14. Ahead'
  BY <1>1, <1>5, <1>6 DEF Ahead, OnlyMoves, Walking
<1>15. Unallocated' /\ OneCellPerKey' /\ StoredAllocated'
  BY <1>1, <1>6 DEF Unallocated, OneCellPerKey, Allocated, StoredAllocated, OnlyMoves, Growing
<1>16. ChainsReleased'
  BY <1>1, <1>2, <1>3 DEF ChainsReleased, Extending, OnlyMoves, MapDeltaExtend
<1>17. ClaimInv'
  <2>1. Reserving' = Reserving /\ Claiming' = Claiming /\ Allocated' = Allocated
    BY <1>1 DEF Reserving, Claiming, Allocated, OnlyMoves
  <2> QED
    BY <1>1, <2>1 DEF ClaimInv
<1>18. MigrationInv'
  BY <1>1 DEF MigrationInv
<1> QED
  BY <1>7, <1>8, <1>9, <1>10, <1>12, <1>13, <1>14, <1>15, <1>16, <1>17, <1>18

\* The table is full: the chain is given back as it was.
LEMMA NoSpaceStep ==
    ASSUME IndInv, NEW t \in Threads, PutNoSpace(t)
    PROVE  IndInv'
<1> USE DEF IndInv, Finish, Reset, Goto, migrationVars, historyVars, PutNoSpace
<1>1. /\ OnlyMoves(t) /\ pc[t] = "nospace" /\ pc'[t] = "idle" /\ cell[t] \in Cells
      /\ d'[t] = 0 /\ delta'[t] = 0
      /\ UNCHANGED <<op, key, hash, freeBuckets, value, stored>>
      /\ deltaNext' = [deltaNext EXCEPT ![cell[t]] = MapDeltaEmpty]
  BY DEF TypeInv, ThreadTypes, OnlyMoves
<1>2. /\ deltaNext'[cell[t]] = MapDeltaEmpty
      /\ \A c \in Cells : IF c = cell[t] THEN ~Linked(c)'
                                         ELSE deltaNext'[c] = deltaNext[c] /\ (Linked(c)' <=> Linked(c))
  BY <1>1 DEF TypeInv, CellTypes, Linked
<1>3. deltaNext[cell[t]] = MapDeltaExtend /\ ~Linked(cell[t])
  BY <1>1 DEF ExtendInv, Growing, Linked
<1>4. \A i, j : Reach(i, j) => Reach(i, j)'
  BY <1>2, <1>3, ReachGrows
<1>5. \A u \in Threads : u # t => entr(u)' = entr(u) /\ At(u)' = At(u)
  BY <1>1 DEF OnlyMoves, entr, At
<1>6. TypeInv'
  <2>1. CellTypes'
    BY <1>1, Constants DEF TypeInv, CellTypes, MapDeltaEmpty
  <2>2. pc' \in [Threads -> Places]
    BY DEF TypeInv, ThreadTypes, Places
  <2>3. cell' \in [Threads -> Cells] /\ d' \in [Threads -> 0..kNeighbourhood]
    BY Constants DEF TypeInv, ThreadTypes
  <2>4. delta' \in [Threads -> 0..(kNeighbourhood - 1)] /\ jumps' \in [Threads -> 0..(kMaxJumpsAllowed + 1)]
    BY Constants DEF TypeInv, ThreadTypes
  <2>5. val' \in [Threads -> Values \cup {Empty}] /\ oldValue' \in [Threads -> Values \cup {Empty}]
    BY DEF TypeInv, ThreadTypes
  <2> QED
    BY <1>1, <2>1, <2>2, <2>3, <2>4, <2>5 DEF TypeInv, ThreadTypes, OtherTypes
<1>7. LocalInv'
  BY <1>1, <1>5 DEF LocalInv, OnlyMoves, Growing, Storing
<1>8. ExtendInv' /\ LinkInv'
  <2>1. ExtendInv'
    BY <1>1, <1>2, CellType DEF ExtendInv, OnlyMoves, Growing
  <2>2. LinkInv'
    BY <1>1, <1>2 DEF LinkInv, OnlyMoves, Growing
  <2> QED
    BY <2>1, <2>2
<1>9. OnChain'
  BY <1>1, <1>4, <1>5 DEF OnChain, OnlyMoves, Walking, Growing
<1>10. Chained'
  BY <1>1, <1>4, <1>5 DEF Chained, OnlyMoves
<1>11. Ahead'
  BY <1>1, <1>4, <1>5 DEF Ahead, OnlyMoves, Walking
<1>12. Unallocated' /\ OneCellPerKey' /\ StoredAllocated'
  BY <1>1, <1>5 DEF Unallocated, OneCellPerKey, Allocated, StoredAllocated, OnlyMoves, Growing
<1>13. ChainsReleased'
  BY <1>1, <1>2 DEF ChainsReleased, Extending, OnlyMoves, MapDeltaExtend, MapDeltaEmpty
<1>14. ClaimInv'
  <2>1. Reserving' = Reserving /\ Claiming' = Claiming /\ Allocated' = Allocated
    BY <1>1 DEF Reserving, Claiming, Allocated, OnlyMoves
  <2> QED
    BY <1>1, <2>1 DEF ClaimInv
<1>15. MigrationInv'
  BY <1>1 DEF MigrationInv
<1> QED
  BY <1>6, <1>7, <1>8, <1>9, <1>10, <1>11, <1>12, <1>13, <1>14, <1>15

-----------------------------------------------------------------------------
(* migrateRange *)

\* The invariants that do not speak of values or of the migration depend on
\* the variables that migrateRange leaves alone.
LEMMA ChainsKept ==
    ASSUME IndInv, UNCHANGED <<hash, deltaNext, freeBuckets, pc, argVars, walkVars, stored>>
    PROVE  /\ LocalInv' /\ ExtendInv' /\ LinkInv' /\ OnChain' /\ Chained' /\ Ahead' /\ Unallocated'
           /\ StoredAllocated' /\ OneCellPerKey' /\ ChainsReleased' /\ ClaimInv'
<1> USE DEF IndInv, argVars, walkVars
<1>1. \A i, j : Reach(i, j)' <=> Reach(i, j)
  BY ReachSame
<1>2. \A u \in Threads : entr(u)' = entr(u) /\ At(u)' = At(u)
  BY DEF entr, At
<1>3. LocalInv'
  BY <1>2 DEF LocalInv
<1>4. ExtendInv' /\ LinkInv'
  BY DEF ExtendInv, LinkInv, Linked
<1>5. OnChain' /\ Chained' /\ Ahead' /\ Unallocated'
  BY <1>1, <1>2 DEF OnChain, Chained, Ahead, Unallocated
<1>6. StoredAllocated' /\ OneCellPerKey' /\ ChainsReleased' /\ ClaimInv'
  BY DEF StoredAllocated, OneCellPerKey, Allocated, ChainsReleased, Extending, ClaimInv, Reserving, Claiming
<1> QED
  BY <1>3, <1>4, <1>5, <1>6

\* The migration goes over the table from the first cell to the last; values
\* that were put back make it start again.
LEMMA MigrateStepInv ==
    ASSUME IndInv, migrateRange
    PROVE  IndInv'
<1> USE DEF IndInv, cellVars
<1>1. TypeInv' /\ MigrationInv'
  <2> USE DEF TypeInv, CellTypes, OtherTypes, MigrationInv, NextCell
  <2>0. /\ 0 \in Cells /\ mcell \in Nat /\ (mcell + 1 < Size => mcell + 1 \in Cells)
        /\ \A i \in Cells : i \in Nat /\ (i < mcell + 1 => i < mcell \/ i = mcell)
        /\ \A i \in Cells : ~(i < 0) /\ (~(mcell + 1 < Size) => i < mcell + 1)
    BY TableAssumption DEF Cells
  <2>1. ThreadTypes' /\ stored' \in [Keys -> Values \cup {Empty}] /\ missed' \subseteq Keys /\ calls' \in Nat
    BY DEF migrateRange, ThreadTypes, argVars, walkVars, historyVars
  <2>2. ASSUME NextCell, value'[mcell] = Move, \A i \in Cells : i # mcell => value'[i] = value[i],
               mpc # "done", hash' = hash
        PROVE  MigrationInv' /\ mpc' \in {"hash", "done"} /\ mcell' \in Cells /\ mval' = Empty
    BY <2>0, <2>2
  <2>3. CASE MigrateHash
    BY <2>0, <2>1, <2>3 DEF MigrateHash, MigrateStep
  <2>4. CASE MigrateUnused
    <3>1. CASE value[mcell] \in {Empty, Move}
      <4>1. value' = [value EXCEPT ![mcell] = Move] /\ NextCell /\ UNCHANGED <<hash, deltaNext, freeBuckets, evacuated>>
        BY <2>4, <3>1 DEF MigrateUnused
      <4>2. CellTypes'
        BY <4>1
      <4>3. MigrationInv' /\ mpc' \in {"hash", "done"} /\ mcell' \in Cells /\ mval' = Empty
        BY <2>2, <2>4, <4>1 DEF MigrateUnused
      <4> QED
        BY <2>1, <4>1, <4>2, <4>3
    <3>2. CASE value[mcell] \notin {Empty, Move}
      BY <2>1, <2>4, <3>2 DEF MigrateUnused
    <3> QED
      BY <3>1, <3>2
  <2>5. CASE MigrateLoad
    <3>1. CASE value[mcell] = Move
      <4>1. NextCell /\ UNCHANGED <<cellVars, evacuated>>
        BY <2>5, <3>1 DEF MigrateLoad
      <4>2. MigrationInv' /\ mpc' \in {"hash", "done"} /\ mcell' \in Cells /\ mval' = Empty
        BY <2>2, <2>5, <3>1, <4>1 DEF MigrateLoad
      <4> QED
        BY <2>1, <4>1, <4>2
    <3>2. CASE value[mcell] # Move
      BY <2>1, <2>5, <3>2 DEF MigrateLoad
    <3> QED
      BY <3>1, <3>2
  <2>6. CASE MigrateMark
    <3>1. CASE value[mcell] # mval
      BY <2>1, <2>6, <3>1 DEF MigrateMark
    <3>2. CASE value[mcell] = mval
      <4>1. value' = [value EXCEPT ![mcell] = Move] /\ UNCHANGED <<hash, deltaNext, freeBuckets, evacuated>>
        BY <2>6, <3>2 DEF MigrateMark
      <4>2. CellTypes'
        BY <4>1
      <4>3. CASE mval = Empty
        <5>1. NextCell
          BY <2>6, <3>2, <4>3 DEF MigrateMark
        <5>2. MigrationInv' /\ mpc' \in {"hash", "done"} /\ mcell' \in Cells /\ mval' = Empty
          BY <2>2, <2>6, <4>1, <5>1 DEF MigrateMark
        <5> QED
          BY <2>1, <4>1, <4>2, <5>2
      <4>4. CASE mval # Empty
        <5>1. mpc = "mark" /\ mpc' = "insert" /\ UNCHANGED <<mcell, mval>>
          BY <2>6, <3>2, <4>4 DEF MigrateMark
        <5>2. MigrationInv'
          BY <4>1, <4>4, <5>1
        <5> QED
          BY <2>1, <4>1, <4>2, <5>1, <5>2
      <4> QED
        BY <4>3, <4>4
    <3> QED
      BY <3>1, <3>2
  <2>7. CASE MigrateOverflow
    <3>1. CellTypes'
      BY <2>7 DEF MigrateOverflow
    <3> QED
      BY <2>0, <2>1, <2>7, <3>1 DEF MigrateOverflow
  <2>8. CASE MigrateInsert
    <3>1. NextCell /\ UNCHANGED cellVars /\ evacuated' = evacuated \cup {<<hash[mcell], mval>>} /\ mpc = "insert"
      BY <2>8 DEF MigrateInsert
    <3>2. hash[mcell] \in Keys /\ mval \in Values
      BY <3>1
    <3>3. MigrationInv' /\ mpc' \in {"hash", "done"} /\ mcell' \in Cells /\ mval' = Empty
      BY <2>2, <3>1
    <3> QED
      BY <2>1, <3>1, <3>2, <3>3
  <2> QED
    BY <2>3, <2>4, <2>5, <2>6, <2>7, <2>8 DEF migrateRange
<1>2. UNCHANGED <<hash, deltaNext, freeBuckets, pc, argVars, walkVars, stored>>
  BY DEF migrateRange, MigrateHash, MigrateUnused, MigrateLoad, MigrateMark, MigrateInsert, MigrateOverflow,
         historyVars
<1> QED
  BY <1>1, <1>2, ChainsKept

-----------------------------------------------------------------------------
(* The invariant *)

\* The table is empty and nobody works on it.
LEMMA InitIndInv == Init => IndInv
<1> SUFFICES ASSUME Init PROVE IndInv
  OBVIOUS
<1> USE DEF Init
<1>1. TypeInv
  <2>1. CellTypes
    BY Constants, TableAssumption DEF CellTypes, MapDeltaEmpty
  <2>2. ThreadTypes
    BY Constants DEF ThreadTypes, Places
  <2>3. OtherTypes
    BY Constants DEF OtherTypes
  <2> QED
    BY <2>1, <2>2, <2>3 DEF TypeInv
<1>2. LocalInv /\ ExtendInv /\ LinkInv
  BY DEF LocalInv, ExtendInv, LinkInv, Linked, Growing, Storing
<1>3. OnChain /\ Chained /\ Ahead /\ Unallocated /\ StoredAllocated
  BY Constants DEF OnChain, Chained, Ahead, Unallocated, StoredAllocated, Walking, Growing
<1>4. OneCellPerKey /\ ChainsReleased
  BY DEF OneCellPerKey, Allocated, ChainsReleased, MapDeltaEmpty, MapDeltaExtend
<1>5. ClaimInv
  <2>1. Allocated = {} /\ Reserving = {} /\ Claiming = {}
    BY DEF Allocated, Reserving, Claiming
  <2>2. Cardinality({}) = 0
    BY FS_EmptySet
  <2> QED
    BY <2>1, <2>2, TableAssumption DEF ClaimInv
<1>6. MigrationInv
  BY Constants DEF MigrationInv
<1> QED
  BY <1>1, <1>2, <1>3, <1>4, <1>5, <1>6 DEF IndInv

\* Every step keeps the invariant.
LEMMA NextIndInv == IndInv /\ [Next]_vars => IndInv'
<1> SUFFICES ASSUME IndInv, [Next]_vars PROVE IndInv'
  OBVIOUS
<1>1. ASSUME NEW t \in Threads, Operations(t) PROVE IndInv'
  BY <1>1, CallStep DEF Operations
<1>2. ASSUME NEW t \in Threads, Step(t) PROVE IndInv'
  <2>1. CASE FindNothing(t) \/ GetValue(t) \/ RemoveMoved(t) \/ PutTooFar(t) \/ PutMoved(t)
    <3>1. Finish(t, pc[t]) /\ pc[t] \notin Growing /\ UNCHANGED cellVars
      BY <2>1 DEF FindNothing, GetValue, RemoveMoved, PutTooFar, PutMoved, Finish, Goto, Growing
    <3> QED
      BY <3>1, FinishStep
  <2>2. CASE FindHash(t) \/ FindNext(t) \/ RemoveLoad(t)
    BY <2>2, FindStep
  <2>3. CASE PutHash(t) \/ PutDelta(t) \/ PutWait(t)
    BY <2>3, WalkStep
  <2>4. CASE RemoveErase(t) \/ PutLoad(t) \/ PutSwap(t)
    BY <2>4, StoreStep
  <2>5. CASE PutExtend(t) \/ PutSearch(t) \/ PutClaim(t)
    BY <2>5, ExtendStep, SearchStep, ClaimStep
  <2>6. CASE PutReserve(t) \/ PutFull(t) \/ PutUnreserve(t)
    BY <2>6, ReserveStep
  <2>7. CASE PutLink(t) \/ PutNoSpace(t)
    BY <2>7, LinkStep, NoSpaceStep
  <2> QED
    BY <1>2, <2>1, <2>2, <2>3, <2>4, <2>5, <2>6, <2>7 DEF Step
<1>3. CASE migrateRange
  BY <1>3, MigrateStepInv
<1>4. CASE UNCHANGED vars
  <2> USE <1>4 DEF vars, cellVars, migrationVars, historyVars
  <2>1. TypeInv' /\ MigrationInv'
    BY DEF IndInv, TypeInv, CellTypes, ThreadTypes, OtherTypes, MigrationInv, argVars, walkVars
  <2> QED
    BY <2>1, ChainsKept DEF IndInv
<1> QED
  BY <1>1, <1>2, <1>3, <1>4 DEF Next

\* IndInv holds of every reachable state, however threads and migrateRange interleave.
THEOREM Invariance == Spec => []IndInv
BY InitIndInv, NextIndInv, PTL DEF Spec

-----------------------------------------------------------------------------
(* What follows *)

\* A key never has two cells.
THEOREM UniqueCells == Spec => []OneCellPerKey
<1>1. IndInv => OneCellPerKey
  BY DEF IndInv
<1> QED
  BY <1>1, Invariance, PTL

\* No bucket is lost or used twice, and the table is never overfull.
THEOREM BucketsExact == Spec => []BucketsAccounted
<1>1. IndInv => BucketsAccounted
  <2> SUFFICES ASSUME IndInv PROVE BucketsAccounted
    OBVIOUS
  <2>1. Reserving = {t \in Threads : pc[t] \in {"full", "claim", "unreserve"}}
    BY DEF Reserving
  <2>2. Cardinality(Allocated) <= FreeBuckets
    BY FiniteCounts, TableAssumption DEF IndInv, ClaimInv
  <2> QED
    BY <2>1, <2>2 DEF IndInv, ClaimInv, BucketsAccounted
<1> QED
  BY <1>1, Invariance, PTL

\* Whoever waits for a chain waits for a thread that is extending it.
THEOREM ChainsOwned == Spec => []ChainsReleased
<1>1. IndInv => ChainsReleased
  BY DEF IndInv
<1> QED
  BY <1>1, Invariance, PTL

\* After a migration there is nothing left in the table.
THEOREM TableEmptied == Spec => []NothingLeftBehind
<1>1. IndInv => NothingLeftBehind
  BY DEF IndInv, MigrationInv, NothingLeftBehind
<1> QED
  BY <1>1, Invariance, PTL

\* Types, with the bounds of freeBuckets: below 0 by at most the threads that
\* have found the table full.
THEOREM TypeCorrect == Spec => []TypeOK
<1>1. IndInv => TypeOK
  <2> SUFFICES ASSUME IndInv PROVE TypeOK
    OBVIOUS
  <2>1. freeBuckets \in (-Cardinality(Threads))..FreeBuckets
    <3> DEFINE Full == {t \in Threads : pc[t] = "full"}
    <3>1. IsFiniteSet(Full) /\ Cardinality(Full) <= Cardinality(Threads) /\ Cardinality(Full) \in Nat
      BY TableAssumption, FS_Subset, FS_CardinalityType
    <3>2. Cardinality(Reserving) = Cardinality(Claiming) + Cardinality(Full)
      <4>1. Reserving = Claiming \cup Full /\ Claiming \cap Full = {}
        BY DEF Reserving, Claiming
      <4>2. Cardinality(Claiming \cap Full) = 0
        BY <4>1, FS_EmptySet
      <4>3. IsFiniteSet(Claiming) /\ Cardinality(Claiming) \in Nat
        BY FiniteCounts, TableAssumption, FS_Subset, FS_CardinalityType DEF Claiming
      <4> HIDE DEF Full
      <4>4. Cardinality(Claiming \cup Full)
              = Cardinality(Claiming) + Cardinality(Full) - Cardinality(Claiming \cap Full)
        BY <3>1, <4>3, FS_Union
      <4> QED
        BY <3>1, <4>1, <4>2, <4>3, <4>4
    <3>3. Cardinality(Threads) \in Nat /\ FreeBuckets \in Nat /\ freeBuckets \in Int
      BY TableAssumption, FS_CardinalityType DEF IndInv, TypeInv, CellTypes
    <3> HIDE DEF Full
    <3> QED
      BY <3>1, <3>2, <3>3, FiniteCounts DEF IndInv, ClaimInv
  <2>2. pc \in [Threads -> {"idle", "find", "next", "get", "remove", "erase", "chain", "delta", "extend",
                            "wait", "search", "reserve", "full", "claim", "link", "unreserve",
                            "nospace", "update", "updateSwap", "set", "setSwap"}]
    BY DEF IndInv, TypeInv, ThreadTypes, Places, Walking, Growing, Storing
  <2> QED
    BY <2>1, <2>2 DEF IndInv, TypeInv, CellTypes, ThreadTypes, OtherTypes, TypeOK
<1> QED
  BY <1>1, Invariance, PTL

\* The only writer of a key does not miss what it stored.
THEOREM OwnWrites == Spec => OwnerFinds
<1>1. IndInv /\ [Next]_vars => [OwnWriteFound]_vars
  <2> SUFFICES ASSUME IndInv, Next, NEW t \in Threads, pc[t] \in {"find", "next"}, pc'[t] = "idle",
                      <<t, key[t]>> \in Writers, stored[key[t]] # Empty
               PROVE  FALSE
    BY DEF OwnWriteFound
  <2> USE DEF IndInv
  <2>1. FindNothing(t)
    <3> USE DEF Goto
    <3>1. pc \in [Threads -> Places] /\ op[t] \in {"get", "put", "remove"}
      BY DEF TypeInv, ThreadTypes
    <3>2. ~Operations(t) /\ ~migrateRange
      BY DEF Operations, Call, migrateRange
    <3>3. ASSUME NEW u \in Threads, u # t PROVE ~Operations(u) /\ ~Step(u)
      <4>1. \A x : pc' # [pc EXCEPT ![u] = x]
        BY <3>1, <3>3
      <4>2. ~Operations(u)
        BY <4>1 DEF Operations, Call
      <4> QED
        BY <4>1, <4>2 DEF Step, FindNothing, FindHash, FindNext, GetValue, RemoveLoad, RemoveMoved, RemoveErase,
               PutTooFar, PutHash, PutDelta, PutExtend, PutWait, PutSearch, PutReserve, PutFull, PutClaim,
               PutLink, PutUnreserve, PutNoSpace, PutLoad, PutMoved, PutSwap, Finish
    <3>4. Step(t)
      BY <3>2, <3>3 DEF Next
    <3>5. ~FindHash(t) /\ ~FindNext(t)
      BY <3>1 DEF FindHash, FindNext
    <3> QED
      BY <3>4, <3>5 DEF Step, GetValue, RemoveLoad, RemoveMoved, RemoveErase, PutTooFar, PutHash, PutDelta,
             PutExtend, PutWait, PutSearch, PutReserve, PutFull, PutClaim, PutLink, PutUnreserve, PutNoSpace,
             PutLoad, PutMoved, PutSwap, Finish
  <2>2. key[t] \in Keys /\ cell[t] \in Cells /\ At(t) = cell[t]
    BY DEF TypeInv, ThreadTypes, At
  <2>3. PICK j \in Cells : hash[j] = key[t]
    BY <2>2 DEF StoredAllocated
  <2>4. Reach(cell[t], j)
    BY <2>2, <2>3 DEF Ahead
  <2>5. ~Linked(cell[t])
    BY <2>1, <2>2 DEF FindNothing, LinkInv, Linked
  <2>6. j = cell[t]
    BY <2>2, <2>4, <2>5, ReachEnd
  <2> QED
    BY <2>1, <2>2, <2>3, <2>6, Constants DEF FindNothing, LocalInv
<1> QED
  BY <1>1, Invariance, PTL DEF Spec, OwnerFinds

-----------------------------------------------------------------------------
(* The values *)

\* A key has a value in this table, on its way to the next one, or there.
Has(k, x) ==
    \/ x \notin {Empty, Move} /\ \E i \in Cells : hash[i] = k /\ value[i] = x
    \/ mpc = "insert" /\ hash[mcell] = k /\ x = mval
    \/ <<k, x>> \in evacuated

\* The only value of a key is the one stored last, even while its next call is
\* under way.
OneValue == \A k \in Keys \ missed : \A x : Has(k, x) <=> x = stored[k] /\ x # Empty

\* What a put or a remove has loaded is there until its exchange, unless the
\* cell was marked; and the value that an overflow may put back is the same.
Swapping == {"erase", "updateSwap", "setSwap"}
Loaded(t) ==
    pc[t] \in Swapping =>
        /\ value[entr(t)] \in {oldValue[t], Move}
        /\ mpc = "insert" /\ mcell = entr(t) => mval = oldValue[t]
Removing(t) == pc[t] \in {"remove", "erase"} => hash[cell[t]] = key[t]

\* A value in the next table was moved out of the cell of its key.
Evacuated(k) == \E j \in Cells : hash[j] = k /\ value[j] = Move /\ ~(mpc = "insert" /\ mcell = j)

ValueInv ==
    /\ OneValue
    /\ \A t \in Threads : Removing(t) /\ Loaded(t)
    /\ \A p \in evacuated : Evacuated(p[1])
    /\ \A i \in Cells : hash[i] = Empty => value[i] \in {Empty, Move}

\* A step of a thread that stores nothing: what it has found and loaded has to
\* be shown.
LEMMA QuietStep ==
    ASSUME ValueInv, NEW t \in Threads, OnlyMoves(t),
           \A u \in Threads : u # t => oldValue'[u] = oldValue[u],
           UNCHANGED <<hash, value, mpc, mcell, mval, evacuated, stored, missed>>,
           Removing(t)', Loaded(t)'
    PROVE  ValueInv'
<1>1. OneValue'
  <2>1. ASSUME NEW k, NEW x PROVE Has(k, x)' <=> Has(k, x)
    BY DEF Has
  <2> QED
    BY <2>1 DEF ValueInv, OneValue
<1>2. \A u \in Threads : Removing(u)' /\ Loaded(u)'
  BY DEF ValueInv, Removing, Loaded, OnlyMoves, entr
<1>3. \A p \in evacuated' : Evacuated(p[1])'
  BY DEF ValueInv, Evacuated
<1> QED
  BY <1>1, <1>2, <1>3 DEF ValueInv

\* Calls, walks and returns.
LEMMA QuietActions ==
    ASSUME IndInv, ValueInv, NEW t \in Threads,
           \/ Operations(t) \/ FindNothing(t) \/ FindHash(t) \/ FindNext(t) \/ GetValue(t) \/ RemoveMoved(t)
           \/ PutTooFar(t) \/ PutHash(t) \/ PutDelta(t) \/ PutExtend(t) \/ PutWait(t) \/ PutSearch(t)
           \/ PutReserve(t) \/ PutFull(t) \/ PutLink(t) \/ PutUnreserve(t) \/ PutNoSpace(t) \/ PutMoved(t)
    PROVE  ValueInv'
<1> USE DEF Goto, cellVars, argVars, walkVars, migrationVars, historyVars, IndInv, TypeInv, ThreadTypes,
            OnlyMoves, Removing, Loaded, Swapping
<1>0. pc \in [Threads -> Places]
  OBVIOUS
<1>1. ASSUME NEW from, Finish(t, from), UNCHANGED <<hash, value>> PROVE ValueInv'
  BY <1>0, <1>1, QuietStep DEF Finish, Reset
<1>2. CASE FindNothing(t) \/ GetValue(t) \/ RemoveMoved(t) \/ PutTooFar(t) \/ PutNoSpace(t) \/ PutMoved(t)
  BY <1>1, <1>2 DEF FindNothing, GetValue, RemoveMoved, PutTooFar, PutNoSpace, PutMoved
<1>3. CASE Operations(t)
  <2>1. PICK o \in {"get", "put", "remove"}, k \in Keys, v \in Values \cup {Empty} : Call(t, o, k, v)
    BY <1>3 DEF Operations
  <2>2. pc'[t] \in {"chain", "find"}
    BY <1>0, <2>1 DEF Call
  <2> QED
    BY <1>0, <2>1, <2>2, QuietStep DEF Call
<1>4. CASE FindHash(t)
  <2>1. op[t] # "erase" /\ op[t] \notin Swapping
    OBVIOUS
  <2> QED
    BY <1>0, <1>4, <2>1, QuietStep DEF FindHash
<1>5. CASE FindNext(t) \/ PutHash(t) \/ PutDelta(t) \/ PutWait(t)
  BY <1>0, <1>5, QuietStep DEF FindNext, PutHash, PutDelta, PutWait
<1>6. CASE PutExtend(t) \/ PutReserve(t) \/ PutFull(t) \/ PutLink(t)
  BY <1>0, <1>6, QuietStep DEF PutExtend, PutReserve, PutFull, PutLink
<1>7. CASE PutSearch(t) \/ PutUnreserve(t)
  BY <1>0, <1>7, QuietStep DEF PutSearch, PutUnreserve, Onward
<1> QED
  BY <1>2, <1>3, <1>4, <1>5, <1>6, <1>7

\* put and remove load the value they will compare with: there is no mark, so
\* nothing is on its way to the next table.
LEMMA LoadStep ==
    ASSUME IndInv, ValueInv, NEW t \in Threads, RemoveLoad(t) \/ PutLoad(t)
    PROVE  ValueInv'
<1> USE DEF Goto, cellVars, argVars, walkVars, migrationVars, historyVars, IndInv, TypeInv, ThreadTypes
<1>1. CASE RemoveLoad(t)
  <2>1. d[t] = 0 /\ entr(t) = cell[t] /\ hash[cell[t]] = key[t]
    BY <1>1, CellType DEF RemoveLoad, LocalInv, Growing, ValueInv, Removing
  <2>2. entr(t)' = entr(t)
    BY <1>1 DEF RemoveLoad, entr
  <2>3. Removing(t)' /\ Loaded(t)'
    BY <1>1, <2>1, <2>2 DEF RemoveLoad, Removing, Loaded, Swapping, MigrationInv
  <2> QED
    BY <1>1, <2>3, QuietStep DEF RemoveLoad, OnlyMoves
<1>2. CASE PutLoad(t)
  <2>1. entr(t)' = entr(t)
    BY <1>2 DEF PutLoad, entr
  <2>2. Removing(t)' /\ Loaded(t)'
    BY <1>2, <2>1 DEF PutLoad, Removing, Loaded, Swapping, MigrationInv
  <2> QED
    BY <1>2, <2>2, QuietStep DEF PutLoad, OnlyMoves
<1> QED
  BY <1>1, <1>2

\* A new cell has no value yet, and its key had no cell.
LEMMA ClaimValues ==
    ASSUME IndInv, ValueInv, NEW t \in Threads, PutClaim(t)
    PROVE  ValueInv'
<1> USE DEF Goto, cellVars, argVars, walkVars, migrationVars, historyVars, IndInv, TypeInv, ThreadTypes
<1>0. pc \in [Threads -> Places] /\ OnlyMoves(t) /\ pc[t] = "claim" /\ pc'[t] \in {"link", "unreserve"}
  BY DEF PutClaim, OnlyMoves
<1>1. CASE hash[entr(t)] # Empty
  <2>1. UNCHANGED <<hash, value, mpc, mcell, mval, evacuated, stored, missed, oldValue>>
    BY <1>1 DEF PutClaim
  <2> QED
    BY <1>0, <2>1, QuietStep DEF Removing, Loaded, Swapping
<1>2. CASE hash[entr(t)] = Empty
  <2>e. entr(t) \in Cells /\ key[t] \in Keys /\ key[t] # Empty
    BY CellType, Constants
  <2>1. /\ hash' = [hash EXCEPT ![entr(t)] = key[t]]
        /\ UNCHANGED <<value, mpc, mcell, mval, evacuated, stored, missed, oldValue, key, cell, d>>
    BY <1>2 DEF PutClaim
  <2>2. \A i \in Cells : hash[i] # Empty => hash'[i] = hash[i]
    BY <1>2, <2>1, <2>e DEF CellTypes
  <2>3. hash'[entr(t)] = key[t] /\ value[entr(t)] \in {Empty, Move}
        /\ \A i \in Cells : i # entr(t) => hash'[i] = hash[i]
    BY <1>2, <2>1, <2>e DEF CellTypes, ValueInv
  <2>4. mpc = "insert" => hash'[mcell] = hash[mcell]
    BY <2>2 DEF MigrationInv, OtherTypes
  <2>5. OneValue'
    <3>1. ASSUME NEW k \in Keys, NEW x PROVE Has(k, x)' <=> Has(k, x)
      <4>1. x \notin {Empty, Move} => \A i \in Cells : hash'[i] = k /\ value[i] = x <=> hash[i] = k /\ value[i] = x
        BY <1>2, <2>3, Constants, <3>1
      <4> QED
        BY <2>1, <2>4, <4>1 DEF Has
    <3> QED
      BY <2>1, <3>1 DEF ValueInv, OneValue
  <2>6. \A u \in Threads : Removing(u)' /\ Loaded(u)'
    <3> SUFFICES ASSUME NEW u \in Threads PROVE Removing(u)' /\ Loaded(u)'
      OBVIOUS
    <3>1. key[u] \in Keys /\ key[u] # Empty /\ cell[u] \in Cells /\ entr(u)' = entr(u)
      BY <2>1, CellType, Constants DEF entr
    <3>2. pc'[u] \in Swapping \cup {"remove"} => pc'[u] = pc[u]
      BY <1>0 DEF OnlyMoves, Swapping
    <3> QED
      BY <2>1, <2>2, <3>1, <3>2 DEF ValueInv, Removing, Loaded, Swapping
  <2>7. \A p \in evacuated' : Evacuated(p[1])'
    <3> SUFFICES ASSUME NEW p \in evacuated PROVE Evacuated(p[1])'
      BY <2>1
    <3>1. p[1] \in Keys
      BY DEF OtherTypes
    <3>2. PICK j \in Cells : hash[j] = p[1] /\ value[j] = Move /\ ~(mpc = "insert" /\ mcell = j)
      BY DEF ValueInv, Evacuated
    <3>3. hash'[j] = p[1]
      BY <2>2, <3>1, <3>2, Constants
    <3> QED
      BY <2>1, <3>2, <3>3 DEF Evacuated
  <2> QED
    BY <2>1, <2>2, <2>3, <2>5, <2>6, <2>7, <2>e DEF ValueInv
<1> QED
  BY <1>1, <1>2

\* The only writer of a key is the only one that may change its cell.
LEMMA OneSwapper ==
    ASSUME IndInv, ValueInv, NEW t \in Threads, NEW u \in Threads,
           pc[t] \in Swapping, pc[u] \in Swapping, entr(t) = entr(u)
    PROVE  t = u
<1> USE DEF IndInv, TypeInv, ThreadTypes
<1>1. ASSUME NEW w \in Threads, pc[w] \in Swapping
      PROVE  hash[entr(w)] = key[w] /\ <<w, key[w]>> \in Writers
  <2>1. pc[w] = "erase" => entr(w) = cell[w]
    BY CellType DEF LocalInv, Growing
  <2> QED
    BY <1>1, <2>1 DEF LocalInv, Storing, Swapping, ValueInv, Removing
<1>2. key[t] = key[u] /\ <<t, key[t]>> \in Writers /\ <<u, key[u]>> \in Writers /\ key[t] \in Keys
  BY <1>1
<1> QED
  BY <1>2, WriterAssumption

\* put and remove exchange the value: when that fails a migration has marked
\* the cell, and the call has missed its effect.
LEMMA SwapStep ==
    ASSUME IndInv, ValueInv, NEW t \in Threads, RemoveErase(t) \/ PutSwap(t)
    PROVE  ValueInv'
<1> USE DEF Goto, IndInv, TypeInv, ThreadTypes, migrationVars
<1>0. PICK k \in Keys : k = key[t]
  OBVIOUS
<1> DEFINE e == entr(t)
           w == IF pc[t] = "erase" THEN Empty ELSE val[t]
<1>1. pc[t] \in Swapping /\ pc'[t] = "idle" /\ OnlyMoves(t) /\ \A u \in Threads : u # t => oldValue'[u] = oldValue[u]
  BY DEF RemoveErase, PutSwap, Reset, OnlyMoves, Swapping
<1>2. pc[t] = "erase" => e = cell[t]
  BY CellType DEF LocalInv, Growing
<1>3. e \in Cells /\ k \in Keys /\ hash[e] = k /\ w \in Values \cup {Empty} /\ w # Move /\ oldValue[t] # Move
  <2>1. e \in Cells /\ k \in Keys
    BY CellType
  <2>2. hash[e] = k
    BY <1>0, <1>1, <1>2 DEF LocalInv, Storing, Swapping, ValueInv, Removing
  <2>3. w \in Values \cup {Empty} /\ w # Move /\ oldValue[t] # Move
    BY TableAssumption
  <2> QED
    BY <2>1, <2>2, <2>3
<1>4. UNCHANGED <<hash, mpc, mcell, mval, evacuated>>
  BY DEF RemoveErase, PutSwap
<1>5. value[e] \in {oldValue[t], Move}
  BY <1>1 DEF ValueInv, Loaded
<1>6. value[e] # Move => /\ value' = [value EXCEPT ![e] = w] /\ stored' = [stored EXCEPT ![k] = w]
                         /\ missed' = missed
  BY <1>0, <1>2, <1>3, <1>5 DEF RemoveErase, PutSwap, Missed
<1>7. value[e] = Move => /\ value' = value /\ missed' = missed \cup {k}
                         /\ \A j \in Keys : j # k => stored'[j] = stored[j]
  BY <1>0, <1>2, <1>3 DEF RemoveErase, PutSwap, Missed, OtherTypes
<1> HIDE DEF e, w
<1>8. OneValue'
  <2>1. CASE value[e] = Move
    <3>1. ASSUME NEW j, NEW x PROVE Has(j, x)' <=> Has(j, x)
      BY <1>4, <1>7, <2>1 DEF Has
    <3> QED
      BY <1>7, <2>1, <3>1 DEF ValueInv, OneValue
  <2>2. CASE value[e] # Move
    <3>1. value'[e] = w /\ \A i \in Cells : i # e => value'[i] = value[i]
      BY <1>3, <1>6, <2>2 DEF CellTypes
    <3>2. stored'[k] = w /\ \A j \in Keys : j # k => stored'[j] = stored[j]
      BY <1>3, <1>6, <2>2 DEF OtherTypes
    <3>3. \A i \in Cells : hash[i] = k => i = e
      BY <1>3, Constants DEF OneCellPerKey, Allocated
    <3>4. ASSUME NEW x PROVE Has(k, x)' <=> x = w /\ x # Empty
      <4>1. ~(mpc = "insert" /\ hash[mcell] = k)
        BY <2>2, <3>3 DEF MigrationInv, OtherTypes
      <4>2. <<k, x>> \notin evacuated
        BY <2>2, <3>3 DEF ValueInv, Evacuated
      <4>3. Has(k, x)' <=> x \notin {Empty, Move} /\ \E i \in Cells : hash[i] = k /\ value'[i] = x
        BY <1>4, <4>1, <4>2 DEF Has
      <4> QED
        BY <1>3, <3>1, <3>3, <4>3
    <3>5. ASSUME NEW j \in Keys, j # k, NEW x PROVE Has(j, x)' <=> Has(j, x)
      BY <1>3, <1>4, <3>1, <3>5 DEF Has
    <3> SUFFICES ASSUME NEW j \in Keys \ missed, NEW x PROVE Has(j, x)' <=> x = stored'[j] /\ x # Empty
      BY <1>6, <2>2 DEF OneValue
    <3>6. CASE j = k
      BY <3>2, <3>4, <3>6
    <3>7. CASE j # k
      BY <3>2, <3>5, <3>7 DEF ValueInv, OneValue
    <3> QED
      BY <3>6, <3>7
  <2> QED
    BY <2>1, <2>2
<1>9. \A u \in Threads : Removing(u)' /\ Loaded(u)'
  <2> SUFFICES ASSUME NEW u \in Threads PROVE Removing(u)' /\ Loaded(u)'
    OBVIOUS
  <2>1. CASE u = t
    BY <1>1, <2>1 DEF Removing, Loaded, Swapping
  <2>2. CASE u # t
    <3>1. entr(u)' = entr(u) /\ entr(u) \in Cells
      BY <1>1, <2>2, CellType DEF OnlyMoves, entr
    <3>2. pc[u] \in Swapping => value'[entr(u)] = value[entr(u)]
      <4>1. pc[u] \in Swapping => entr(u) # e
        BY <1>1, <2>2, OneSwapper DEF e
      <4> QED
        BY <1>3, <1>6, <1>7, <3>1, <4>1 DEF CellTypes
    <3> QED
      BY <1>1, <1>4, <2>2, <3>1, <3>2 DEF ValueInv, Removing, Loaded, OnlyMoves
  <2> QED
    BY <2>1, <2>2
<1>10. \A i \in Cells : value[i] = Move => value'[i] = Move
  BY <1>3, <1>6, <1>7 DEF CellTypes
<1>11. \A p \in evacuated' : Evacuated(p[1])'
  BY <1>4, <1>10 DEF ValueInv, Evacuated
<1>12. \A i \in Cells : hash'[i] = Empty => value'[i] \in {Empty, Move}
  BY <1>3, <1>4, <1>6, <1>7, Constants DEF CellTypes, ValueInv
<1> QED
  BY <1>8, <1>9, <1>11, <1>12 DEF ValueInv

\* migrateRange moves values from the table to the next one and loses none,
\* also when it has to begin again.
LEMMA MoveStep ==
    ASSUME IndInv, ValueInv, migrateRange
    PROVE  ValueInv'
<1> USE DEF IndInv, TypeInv
<1>1. /\ UNCHANGED <<pc, key, cell, d, oldValue, hash, stored, missed>> /\ mcell \in Cells
      /\ \A t \in Threads : entr(t)' = entr(t)
  BY DEF migrateRange, argVars, walkVars, historyVars, entr, cellVars, MigrateHash, MigrateUnused, MigrateLoad,
         MigrateMark, MigrateInsert, MigrateOverflow, OtherTypes
<1>2. \A t \in Threads : Removing(t)'
  BY <1>1 DEF ValueInv, Removing
<1>3. ASSUME UNCHANGED <<value, evacuated>>, mpc # "insert", mpc' # "insert" PROVE ValueInv'
  <2>1. OneValue'
    <3>1. ASSUME NEW k, NEW x PROVE Has(k, x)' <=> Has(k, x)
      BY <1>1, <1>3 DEF Has
    <3> QED
      BY <1>1, <3>1 DEF ValueInv, OneValue
  <2>2. \A t \in Threads : Loaded(t)'
    BY <1>1, <1>3 DEF ValueInv, Loaded
  <2>3. \A p \in evacuated' : Evacuated(p[1])'
    BY <1>1, <1>3 DEF ValueInv, Evacuated
  <2> QED
    BY <1>1, <1>2, <1>3, <2>1, <2>2, <2>3 DEF ValueInv
<1>4. ASSUME value[mcell] \in {Empty, Move}, value' = [value EXCEPT ![mcell] = Move],
             UNCHANGED evacuated, mpc # "insert", mpc' # "insert"
      PROVE  ValueInv'
  <2>1. value'[mcell] = Move /\ \A i \in Cells : i # mcell => value'[i] = value[i]
    BY <1>1, <1>4 DEF CellTypes
  <2>2. OneValue'
    <3>1. ASSUME NEW k, NEW x PROVE Has(k, x)' <=> Has(k, x)
      BY <1>1, <1>4, <2>1 DEF Has
    <3> QED
      BY <1>1, <3>1 DEF ValueInv, OneValue
  <2>3. \A t \in Threads : Loaded(t)'
    BY <1>1, <1>4, <2>1, CellType DEF ValueInv, Loaded
  <2>4. \A p \in evacuated' : Evacuated(p[1])'
    BY <1>1, <1>4, <2>1 DEF ValueInv, Evacuated
  <2>5. \A i \in Cells : hash'[i] = Empty => value'[i] \in {Empty, Move}
    BY <1>1, <2>1 DEF ValueInv
  <2> QED
    BY <1>2, <2>2, <2>3, <2>4, <2>5 DEF ValueInv
<1>5. CASE MigrateHash
  BY <1>3, <1>5 DEF MigrateHash, MigrateStep, cellVars
<1>6. CASE MigrateUnused
  BY <1>3, <1>4, <1>6 DEF MigrateUnused, NextCell
<1>7. CASE MigrateLoad
  BY <1>3, <1>7 DEF MigrateLoad, NextCell, cellVars
<1>8. CASE MigrateMark
  <2>1. CASE value[mcell] # mval
    BY <1>3, <1>8, <2>1 DEF MigrateMark
  <2>2. CASE value[mcell] = mval /\ mval = Empty
    BY <1>4, <1>8, <2>2 DEF MigrateMark, NextCell
  <2>3. CASE value[mcell] = mval /\ mval # Empty
    <3>1. /\ value' = [value EXCEPT ![mcell] = Move] /\ UNCHANGED <<mcell, mval, evacuated>>
          /\ mpc = "mark" /\ mpc' = "insert"
      BY <1>8, <2>3 DEF MigrateMark
    <3>2. mval \notin {Empty, Move} /\ value'[mcell] = Move /\ \A i \in Cells : i # mcell => value'[i] = value[i]
      BY <1>1, <2>3, <3>1, TableAssumption DEF CellTypes, OtherTypes
    <3>3. OneValue'
      <4>1. ASSUME NEW k, NEW x PROVE Has(k, x)' <=> Has(k, x)
        <5>1. CASE x = mval
          BY <1>1, <2>3, <3>1, <3>2, <5>1 DEF Has
        <5>2. CASE x # mval
          BY <1>1, <2>3, <3>1, <3>2, <5>2 DEF Has
        <5> QED
          BY <5>1, <5>2
      <4> QED
        BY <1>1, <4>1 DEF ValueInv, OneValue
    <3>4. \A t \in Threads : Loaded(t)'
      BY <1>1, <2>3, <3>1, <3>2, CellType DEF ValueInv, Loaded
    <3>5. \A p \in evacuated' : Evacuated(p[1])'
      BY <1>1, <2>3, <3>1, <3>2 DEF ValueInv, Evacuated
    <3>6. \A i \in Cells : hash'[i] = Empty => value'[i] \in {Empty, Move}
      BY <1>1, <3>2 DEF ValueInv
    <3> QED
      BY <1>2, <3>3, <3>4, <3>5, <3>6 DEF ValueInv
  <2> QED
    BY <2>1, <2>2, <2>3
<1>9. CASE MigrateInsert
  <2>1. /\ mpc = "insert" /\ mpc' # "insert" /\ UNCHANGED value /\ value[mcell] = Move
        /\ evacuated' = evacuated \cup {<<hash[mcell], mval>>}
    BY <1>9 DEF MigrateInsert, NextCell, cellVars, MigrationInv
  <2>2. OneValue'
    <3>1. ASSUME NEW k, NEW x PROVE Has(k, x)' <=> Has(k, x)
      BY <1>1, <2>1 DEF Has
    <3> QED
      BY <1>1, <3>1 DEF ValueInv, OneValue
  <2>3. \A t \in Threads : Loaded(t)'
    BY <1>1, <2>1 DEF ValueInv, Loaded
  <2>4. \A p \in evacuated' : Evacuated(p[1])'
    BY <1>1, <2>1 DEF ValueInv, Evacuated
  <2> QED
    BY <1>1, <1>2, <2>1, <2>2, <2>3, <2>4 DEF ValueInv
<1>10. CASE MigrateOverflow
  <2>1. /\ mpc = "insert" /\ mpc' # "insert" /\ UNCHANGED evacuated /\ value[mcell] = Move
        /\ value' = [value EXCEPT ![mcell] = mval] /\ hash[mcell] # Empty
    BY <1>10 DEF MigrateOverflow, MigrationInv
  <2>2. mval \notin {Empty, Move} /\ value'[mcell] = mval /\ \A i \in Cells : i # mcell => value'[i] = value[i]
    BY <1>1, <2>1, TableAssumption DEF CellTypes, OtherTypes, MigrationInv
  <2>3. OneValue'
    <3>1. ASSUME NEW k, NEW x PROVE Has(k, x)' <=> Has(k, x)
      <4>1. CASE x = mval
        BY <1>1, <2>1, <2>2, <4>1 DEF Has
      <4>2. CASE x # mval
        BY <1>1, <2>1, <2>2, <4>2 DEF Has
      <4> QED
        BY <4>1, <4>2
    <3> QED
      BY <1>1, <3>1 DEF ValueInv, OneValue
  <2>4. \A t \in Threads : Loaded(t)'
    BY <1>1, <2>1, <2>2, CellType DEF ValueInv, Loaded
  <2>5. \A p \in evacuated' : Evacuated(p[1])'
    BY <1>1, <2>1, <2>2 DEF ValueInv, Evacuated
  <2>6. \A i \in Cells : hash'[i] = Empty => value'[i] \in {Empty, Move}
    BY <1>1, <2>1, <2>2 DEF ValueInv
  <2> QED
    BY <1>2, <2>3, <2>4, <2>5, <2>6 DEF ValueInv
<1> QED
  BY <1>5, <1>6, <1>7, <1>8, <1>9, <1>10 DEF migrateRange

\* When no call on a key is under way, or only lookups, the map holds what the
\* calls before have left of it, and nothing that was removed comes back with a
\* migration; calls that met its mark at their exchange are excepted.
THEOREM StoredIsFound == Spec => []StoredFound
<1>1. Init => ValueInv
  <2> SUFFICES ASSUME Init PROVE ValueInv
    OBVIOUS
  <2>1. OneValue
    BY DEF Init, OneValue, Has
  <2> QED
    BY <2>1, TableAssumption DEF Init, ValueInv, Removing, Loaded, Swapping, Evacuated
<1>2. IndInv /\ ValueInv /\ [Next]_vars => ValueInv'
  <2> SUFFICES ASSUME IndInv, ValueInv, [Next]_vars PROVE ValueInv'
    OBVIOUS
  <2>1. ASSUME NEW t \in Threads, Operations(t) \/ Step(t) PROVE ValueInv'
    BY <2>1, QuietActions, LoadStep, ClaimValues, SwapStep DEF Step
  <2>2. CASE migrateRange
    BY <2>2, MoveStep
  <2>3. CASE UNCHANGED vars
    <3> USE <2>3 DEF vars, cellVars, argVars, walkVars, migrationVars, historyVars
    <3>1. ASSUME NEW k, NEW x PROVE Has(k, x)' <=> Has(k, x)
      BY DEF Has
    <3>2. OneValue'
      BY <3>1 DEF ValueInv, OneValue
    <3> QED
      BY <3>2 DEF ValueInv, Removing, Loaded, Evacuated, entr
  <2> QED
    BY <2>1, <2>2, <2>3 DEF Next
<1>3. IndInv /\ ValueInv => StoredFound
  <2> SUFFICES ASSUME IndInv, ValueInv, NEW k \in Keys \ missed PROVE Lookup(k) = {stored[k]} \ {Empty}
    BY DEF StoredFound
  <2>1. ASSUME NEW x PROVE x \in Lookup(k) <=> Has(k, x)
    <3>1. x \in {p[2] : p \in {q \in evacuated : q[1] = k}} <=> <<k, x>> \in evacuated
      BY DEF IndInv, TypeInv, OtherTypes
    <3>2. x \in {value[i] : i \in {j \in Cells : hash[j] = k}} \ {Empty, Move}
              <=> x \notin {Empty, Move} /\ \E i \in Cells : hash[i] = k /\ value[i] = x
      OBVIOUS
    <3> QED
      BY <3>1, <3>2 DEF Lookup, Has
  <2> QED
    BY <2>1 DEF ValueInv, OneValue
<1> QED
  BY <1>1, <1>2, <1>3, Invariance, PTL DEF Spec

=============================================================================
