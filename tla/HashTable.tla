----------------------------- MODULE HashTable -----------------------------
(***************************************************************************)
(* One table of the concurrent map (concurrent_map.h): LockFreeMapEntry    *)
(* cells in chains that threads extend without a lock, find and            *)
(* insertOrUpdate on them, the provider's get, put and remove up to the    *)
(* point where they need another table, and Migration::migrateRange, which *)
(* empties the table cell by cell while they go on. Every access to a cell *)
(* or to freeBuckets is a step.                                            *)
(*                                                                         *)
(* Hash values are the keys: "Hasher assumed to be collision free".        *)
(***************************************************************************)
EXTENDS Integers, FiniteSets

CONSTANTS
    Threads,
    Keys,
    Home,       \* the cell that each key hashes to
    Writers,    \* pairs of a thread and a key that it may put and remove
    Values,
    Empty,      \* MapHashEmpty, MapValEmpty and nullptr
    Move,       \* MapValMove: the value was moved to another table
    Size,       \* cells of the table
    FreeBuckets, \* cells that may be used (75% in the code)
    kNeighbourhood, kMaxJumpsAllowed,
    Migrating,  \* whether the table is being migrated
    MaxOps      \* bound: operations that all threads start together

ASSUME TableAssumption ==
    /\ Size \in Nat \ {0} /\ FreeBuckets \in 0..Size
    /\ kNeighbourhood \in 1..Size /\ kMaxJumpsAllowed \in Nat /\ MaxOps \in Nat
    /\ Home \in [Keys -> 0..(Size - 1)] /\ Writers \subseteq Threads \X Keys
    /\ Move \notin Values /\ Empty \notin Values \cup Keys /\ Move # Empty
    /\ Migrating \in BOOLEAN /\ IsFiniteSet(Threads)

\* A key has one writer: ThreadMap puts and removes the entry of a thread on
\* that thread.
ASSUME WriterAssumption ==
    \A t, u \in Threads, k \in Keys : <<t, k>> \in Writers /\ <<u, k>> \in Writers => t = u

Cells == 0..(Size - 1)
MapDeltaEmpty == 0
MapDeltaExtend == -1

VARIABLES
    hash, value, deltaNext,  \* the members of each cell
    freeBuckets,
    pc, op, key, val,  \* where each thread is, its operation and arguments
    cell, d, jumps,    \* its locals: index of prev (or entr), offset, jumps
    delta, oldValue,
    mpc, mcell, mval,  \* migrateRange: where it is, its cell and srcValue
    evacuated,  \* pairs of a hash and a value inserted into the next table
    stored,     \* history: the value of each key according to finished calls
    missed,     \* history: keys with a call that finished without its effect
    calls       \* how many operations were started

cellVars == <<hash, value, deltaNext, freeBuckets>>
argVars == <<op, key, val>>
walkVars == <<cell, d, jumps, delta>>
historyVars == <<stored, missed, calls>>
migrationVars == <<mpc, mcell, mval, evacuated>>
vars == <<cellVars, pc, argVars, walkVars, oldValue, migrationVars, historyVars>>

Wrap(i) == i % Size
entr(t) == Wrap(cell[t] + d[t])

Init ==
    /\ hash = [i \in Cells |-> Empty]
    /\ value = [i \in Cells |-> Empty]
    /\ deltaNext = [i \in Cells |-> MapDeltaEmpty]
    /\ freeBuckets = FreeBuckets
    /\ pc = [t \in Threads |-> "idle"] /\ op = [t \in Threads |-> "get"]
    /\ \E k \in Keys : key = [t \in Threads |-> k]
    /\ val = [t \in Threads |-> Empty]
    /\ cell = [t \in Threads |-> 0] /\ d = [t \in Threads |-> 0]
    /\ jumps = [t \in Threads |-> 0] /\ delta = [t \in Threads |-> 0]
    /\ oldValue = [t \in Threads |-> Empty]
    /\ mpc = IF Migrating THEN "hash" ELSE "done"
    /\ mcell = 0 /\ mval = Empty /\ evacuated = {}
    /\ stored = [k \in Keys |-> Empty] /\ missed = {} /\ calls = 0

Goto(t, from, to) ==
    /\ pc[t] = from
    /\ pc' = [pc EXCEPT ![t] = to]

\* A thread that is idle keeps no locals.
Reset(t) ==
    /\ cell' = [cell EXCEPT ![t] = 0] /\ d' = [d EXCEPT ![t] = 0]
    /\ jumps' = [jumps EXCEPT ![t] = 0] /\ delta' = [delta EXCEPT ![t] = 0]
    /\ oldValue' = [oldValue EXCEPT ![t] = Empty] /\ val' = [val EXCEPT ![t] = Empty]

\* An operation returns, or has to be continued in another table: nothing
\* was stored by it.
Finish(t, from) ==
    /\ Goto(t, from, "idle")
    /\ Reset(t)
    /\ UNCHANGED <<op, key, migrationVars, historyVars>>

Call(t, o, k, v) ==
    /\ calls < MaxOps
    /\ Goto(t, "idle", IF o = "put" THEN "chain" ELSE "find")
    /\ op' = [op EXCEPT ![t] = o]
    /\ key' = [key EXCEPT ![t] = k]
    /\ val' = [val EXCEPT ![t] = v]
    /\ cell' = [cell EXCEPT ![t] = Home[k]]
    /\ calls' = calls + 1
    /\ UNCHANGED <<cellVars, d, jumps, delta, oldValue, migrationVars, stored, missed>>

-----------------------------------------------------------------------------
(* find, for get and remove *)

\* The chain ends: the key is not found.
FindNothing(t) ==
    /\ \/ pc[t] = "find" /\ hash[cell[t]] = Empty
       \/ pc[t] = "next" /\ deltaNext[cell[t]] \in {MapDeltaEmpty, MapDeltaExtend}
    /\ Finish(t, pc[t])
    /\ UNCHANGED cellVars

FindHash(t) ==
    /\ hash[cell[t]] # Empty
    /\ Goto(t, "find", IF hash[cell[t]] = key[t] THEN op[t] ELSE "next")
    /\ UNCHANGED <<cellVars, argVars, walkVars, oldValue, migrationVars, historyVars>>

FindNext(t) ==
    /\ deltaNext[cell[t]] \notin {MapDeltaEmpty, MapDeltaExtend}
    /\ Goto(t, "next", "find")
    /\ cell' = [cell EXCEPT ![t] = Wrap(@ + deltaNext[@])]
    /\ UNCHANGED <<cellVars, argVars, d, jumps, delta, oldValue, migrationVars, historyVars>>

\* get loads the value; a moved one is looked for in the next table.
GetValue(t) ==
    /\ Finish(t, "get")
    /\ UNCHANGED cellVars

RemoveLoad(t) ==
    /\ value[cell[t]] # Move
    /\ Goto(t, "remove", "erase")
    /\ oldValue' = [oldValue EXCEPT ![t] = value[cell[t]]]
    /\ UNCHANGED <<cellVars, argVars, walkVars, migrationVars, historyVars>>

RemoveMoved(t) ==
    /\ value[cell[t]] = Move
    /\ Finish(t, "remove")
    /\ UNCHANGED cellVars

\* The exchange of a call on k fails: it misses its effect when what it met was
\* not another call but the mark of a migration.
Missed(i, k) == missed' = IF value[i] = Move THEN missed \cup {k} ELSE missed

\* The exchange succeeds, or somebody else wrote the cell and remove gives up.
RemoveErase(t) ==
    /\ Goto(t, "erase", "idle")
    /\ \/ /\ value[cell[t]] = oldValue[t]
          /\ value' = [value EXCEPT ![cell[t]] = Empty]
          /\ stored' = [stored EXCEPT ![key[t]] = Empty]
          /\ UNCHANGED missed
       \/ /\ value[cell[t]] # oldValue[t]
          /\ Missed(cell[t], key[t])
          /\ UNCHANGED <<value, stored>>
    /\ Reset(t)
    /\ UNCHANGED <<hash, deltaNext, freeBuckets, op, key, migrationVars, calls>>

-----------------------------------------------------------------------------
(* insertOrUpdate, for put: along the chain *)

\* Too many jumps: the table is reported full.
PutTooFar(t) ==
    /\ jumps[t] > kMaxJumpsAllowed
    /\ Finish(t, "chain")
    /\ UNCHANGED cellVars

\* Mutant of PutHash: the key's own cell is not noticed.
PutHashBlind(t) ==
    /\ jumps[t] <= kMaxJumpsAllowed
    /\ Goto(t, "chain", "delta")
    /\ cell' = [cell EXCEPT ![t] = Wrap(@ + delta[t])]
    /\ jumps' = [jumps EXCEPT ![t] = @ + 1]
    /\ UNCHANGED <<cellVars, argVars, d, delta, oldValue, migrationVars, historyVars>>

PutHash(t) ==
    LET i == Wrap(cell[t] + delta[t])
    IN  /\ jumps[t] <= kMaxJumpsAllowed
        /\ Goto(t, "chain", IF hash[i] = key[t] THEN "update" ELSE "delta")
        /\ cell' = [cell EXCEPT ![t] = i]
        /\ jumps' = [jumps EXCEPT ![t] = @ + 1]
        /\ UNCHANGED <<cellVars, argVars, d, delta, oldValue, migrationVars, historyVars>>

PutDelta(t) ==
    LET next == deltaNext[cell[t]]
    IN  /\ Goto(t, "delta", IF next \in {MapDeltaEmpty, MapDeltaExtend} THEN "extend" ELSE "chain")
        /\ delta' = [delta EXCEPT ![t] = IF next \in {MapDeltaEmpty, MapDeltaExtend} THEN 0 ELSE next]
        /\ UNCHANGED <<cellVars, argVars, cell, d, jumps, oldValue, migrationVars, historyVars>>

\* Mutant of PutExtend: the chain is extended although somebody else has it.
PutExtendAnyway(t) ==
    /\ Goto(t, "extend", "search")
    /\ deltaNext' = [deltaNext EXCEPT ![cell[t]] = MapDeltaExtend]
    /\ UNCHANGED <<hash, value, freeBuckets, argVars, walkVars, oldValue, migrationVars, historyVars>>

\* The last cell of the chain is reserved, or somebody else has it.
PutExtend(t) ==
    /\ \/ /\ deltaNext[cell[t]] = MapDeltaEmpty
          /\ Goto(t, "extend", "search")
          /\ deltaNext' = [deltaNext EXCEPT ![cell[t]] = MapDeltaExtend]
       \/ /\ deltaNext[cell[t]] # MapDeltaEmpty
          /\ Goto(t, "extend", "wait")
          /\ UNCHANGED deltaNext
    /\ UNCHANGED <<hash, value, freeBuckets, argVars, walkVars, oldValue, migrationVars, historyVars>>

PutWait(t) ==
    /\ deltaNext[cell[t]] # MapDeltaExtend
    /\ Goto(t, "wait", "chain")
    /\ UNCHANGED <<cellVars, argVars, walkVars, oldValue, migrationVars, historyVars>>

-----------------------------------------------------------------------------
(* insertOrUpdate: a new cell near the end of the chain *)

\* Where the search goes on after the cell at offset d[t].
Onward(t) == IF d[t] + 1 < kNeighbourhood THEN "search" ELSE "nospace"

PutSearch(t) ==
    LET h == hash[entr(t)]
    IN  /\ Goto(t, "search", IF h = Empty THEN "reserve" ELSE IF h = key[t] THEN "set" ELSE Onward(t))
        /\ d' = [d EXCEPT ![t] = IF h \in {Empty, key[t]} THEN @ ELSE @ + 1]
        /\ UNCHANGED <<cellVars, argVars, cell, jumps, delta, oldValue, migrationVars, historyVars>>

PutReserve(t) ==
    /\ Goto(t, "reserve", IF freeBuckets <= 0 THEN "full" ELSE "claim")
    /\ freeBuckets' = freeBuckets - 1
    /\ UNCHANGED <<hash, value, deltaNext, argVars, walkVars, oldValue, migrationVars, historyVars>>

PutFull(t) ==
    /\ Goto(t, "full", "nospace")
    /\ freeBuckets' = freeBuckets + 1
    /\ UNCHANGED <<hash, value, deltaNext, argVars, walkVars, oldValue, migrationVars, historyVars>>

\* The cell is allocated, or somebody else was faster.
PutClaim(t) ==
    /\ \/ /\ hash[entr(t)] = Empty
          /\ Goto(t, "claim", "link")
          /\ hash' = [hash EXCEPT ![entr(t)] = key[t]]
       \/ /\ hash[entr(t)] # Empty
          /\ Goto(t, "claim", "unreserve")
          /\ UNCHANGED hash
    /\ UNCHANGED <<value, deltaNext, freeBuckets, argVars, walkVars, oldValue, migrationVars, historyVars>>

PutLink(t) ==
    /\ Goto(t, "link", "set")
    /\ deltaNext' = [deltaNext EXCEPT ![cell[t]] = IF d[t] > 0 THEN d[t] ELSE MapDeltaEmpty]
    /\ UNCHANGED <<hash, value, freeBuckets, argVars, walkVars, oldValue, migrationVars, historyVars>>

\* Mutant of PutUnreserve: the bucket that was not used stays taken.
PutKeepsReserve(t) ==
    LET same == hash[entr(t)] = key[t]
    IN  /\ Goto(t, "unreserve", IF same THEN "set" ELSE Onward(t))
        /\ d' = [d EXCEPT ![t] = IF same THEN @ ELSE @ + 1]
        /\ UNCHANGED <<cellVars, argVars, cell, jumps, delta, oldValue, migrationVars, historyVars>>

PutUnreserve(t) ==
    LET same == hash[entr(t)] = key[t]
    IN  /\ Goto(t, "unreserve", IF same THEN "set" ELSE Onward(t))
        /\ freeBuckets' = freeBuckets + 1
        /\ d' = [d EXCEPT ![t] = IF same THEN @ ELSE @ + 1]
        /\ UNCHANGED <<hash, value, deltaNext, argVars, cell, jumps, delta, oldValue, migrationVars, historyVars>>

\* Mutant of PutNoSpace: the chain is not given back.
PutNoSpaceKeeps(t) ==
    /\ Finish(t, "nospace")
    /\ UNCHANGED cellVars

\* The chain is given back and the table is reported full.
PutNoSpace(t) ==
    /\ Finish(t, "nospace")
    /\ deltaNext' = [deltaNext EXCEPT ![cell[t]] = MapDeltaEmpty]
    /\ UNCHANGED <<hash, value, freeBuckets>>

-----------------------------------------------------------------------------
(* insertOrUpdate: the value, in a cell of the chain ("update") or in the    *)
(* cell that the search ended with ("set")                                   *)

PutLoad(t) ==
    /\ pc[t] \in {"update", "set"} /\ value[entr(t)] # Move
    /\ Goto(t, pc[t], IF pc[t] = "update" THEN "updateSwap" ELSE "setSwap")
    /\ oldValue' = [oldValue EXCEPT ![t] = value[entr(t)]]
    /\ UNCHANGED <<cellVars, argVars, walkVars, migrationVars, historyVars>>

\* INSERT_HELP_MIGRATION: the value was moved.
PutMoved(t) ==
    /\ pc[t] \in {"update", "set", "setSwap"} /\ value[entr(t)] = Move
    /\ Finish(t, pc[t])
    /\ UNCHANGED cellVars

\* INSERT_OK; when the exchange fails put pretends that its value was
\* overwritten. Only "setSwap" looks whether it was a migration instead.
PutSwap(t) ==
    /\ \/ Goto(t, "updateSwap", "idle")
       \/ Goto(t, "setSwap", "idle") /\ value[entr(t)] # Move
    /\ value' = IF value[entr(t)] = oldValue[t] THEN [value EXCEPT ![entr(t)] = val[t]] ELSE value
    /\ stored' = [stored EXCEPT ![key[t]] = val[t]]
    /\ Missed(entr(t), key[t])
    /\ Reset(t)
    /\ UNCHANGED <<hash, deltaNext, freeBuckets, op, key, migrationVars, calls>>

-----------------------------------------------------------------------------
(* migrateRange over the whole table. The insertion of a value into the next *)
(* table is one step, since nobody else sees that table's cell for the key.  *)

MigrateStep(from, to) == mpc = from /\ mpc' = to
NextCell ==
    /\ mpc' = IF mcell + 1 < Size THEN "hash" ELSE "done"
    /\ mcell' = IF mcell + 1 < Size THEN mcell + 1 ELSE 0
    /\ mval' = Empty

MigrateHash ==
    /\ MigrateStep("hash", IF hash[mcell] = Empty THEN "unused" ELSE "load")
    /\ UNCHANGED <<cellVars, mcell, mval, evacuated>>

\* Mutant of MigrateUnused: the cell is passed over without a mark.
MigrateUnmarked ==
    /\ mpc = "unused"
    /\ IF value[mcell] \in {Empty, Move} THEN NextCell ELSE mpc' = "hash" /\ UNCHANGED <<mcell, mval>>
    /\ UNCHANGED <<cellVars, evacuated>>

\* An unused cell is marked (it may be already), unless a value was placed
\* there: then the cell is looked at again.
MigrateUnused ==
    /\ mpc = "unused"
    /\ \/ /\ value[mcell] \in {Empty, Move}
          /\ value' = [value EXCEPT ![mcell] = Move]
          /\ NextCell
       \/ value[mcell] \notin {Empty, Move} /\ mpc' = "hash" /\ UNCHANGED <<value, mcell, mval>>
    /\ UNCHANGED <<hash, deltaNext, freeBuckets, evacuated>>

\* Cells that a job before this one has moved are done.
MigrateLoad ==
    /\ mpc = "load"
    /\ \/ value[mcell] = Move /\ NextCell
       \/ value[mcell] # Move /\ mpc' = "mark" /\ mval' = value[mcell] /\ UNCHANGED mcell
    /\ UNCHANGED <<cellVars, evacuated>>

\* Mutant of MigrateMark: the cell is marked without comparing its value.
MigrateMarkBlind ==
    /\ mpc = "mark"
    /\ value' = [value EXCEPT ![mcell] = Move]
    /\ IF mval = Empty THEN NextCell ELSE mpc' = "insert" /\ UNCHANGED <<mcell, mval>>
    /\ UNCHANGED <<hash, deltaNext, freeBuckets, evacuated>>

\* The value is exchanged for the mark, whatever it has become meanwhile.
MigrateMark ==
    /\ mpc = "mark"
    /\ \/ /\ value[mcell] = mval
          /\ value' = [value EXCEPT ![mcell] = Move]
          /\ IF mval = Empty THEN NextCell ELSE mpc' = "insert" /\ UNCHANGED <<mcell, mval>>
       \/ /\ value[mcell] # mval
          /\ mval' = value[mcell]
          /\ UNCHANGED <<mpc, mcell, value>>
    /\ UNCHANGED <<hash, deltaNext, freeBuckets, evacuated>>

MigrateInsert ==
    /\ mpc = "insert"
    /\ evacuated' = evacuated \cup {<<hash[mcell], mval>>}
    /\ NextCell
    /\ UNCHANGED cellVars

\* The next table is too small: the value is put back, and a job with a
\* larger table goes over all cells again.
MigrateOverflow ==
    /\ mpc = "insert" /\ mpc' = "hash"
    /\ value' = [value EXCEPT ![mcell] = mval]
    /\ mcell' = 0 /\ mval' = Empty
    /\ UNCHANGED <<hash, deltaNext, freeBuckets, evacuated>>

migrateRange ==
    /\ MigrateHash \/ MigrateUnused \/ MigrateLoad \/ MigrateMark \/ MigrateInsert \/ MigrateOverflow
    /\ UNCHANGED <<pc, argVars, walkVars, oldValue, historyVars>>

-----------------------------------------------------------------------------
Operations(t) ==
    \/ \E k \in Keys : Call(t, "get", k, Empty)
    \/ \E k \in {x \in Keys : <<t, x>> \in Writers} :
           Call(t, "remove", k, Empty) \/ \E v \in Values : Call(t, "put", k, v)

Step(t) ==
    \/ FindNothing(t) \/ FindHash(t) \/ FindNext(t) \/ GetValue(t)
    \/ RemoveLoad(t) \/ RemoveMoved(t) \/ RemoveErase(t)
    \/ PutTooFar(t) \/ PutHash(t) \/ PutDelta(t) \/ PutExtend(t) \/ PutWait(t)
    \/ PutSearch(t) \/ PutReserve(t) \/ PutFull(t) \/ PutClaim(t) \/ PutLink(t)
    \/ PutUnreserve(t) \/ PutNoSpace(t) \/ PutLoad(t) \/ PutMoved(t) \/ PutSwap(t)

Next == (\E t \in Threads : Operations(t) \/ Step(t)) \/ migrateRange

Spec == Init /\ [][Next]_vars

\* Threads inside an operation keep being scheduled, and so does a migration.
FairSpec == Spec /\ (\A t \in Threads : WF_vars(Step(t))) /\ WF_vars(migrateRange)

-----------------------------------------------------------------------------
(* Properties *)

\* The walks of find and insertOrUpdate stay within the table, chains never
\* point beyond the neighbourhood, and freeBuckets is below 0 by at most one
\* reservation of each thread.
TypeOK ==
    /\ hash \in [Cells -> Keys \cup {Empty}]
    /\ value \in [Cells -> Values \cup {Empty, Move}]
    /\ deltaNext \in [Cells -> {MapDeltaExtend} \cup 0..(kNeighbourhood - 1)]
    /\ freeBuckets \in (-Cardinality(Threads))..FreeBuckets
    /\ op \in [Threads -> {"get", "put", "remove"}] /\ key \in [Threads -> Keys]
    /\ pc \in [Threads -> {"idle", "find", "next", "get", "remove", "erase", "chain", "delta", "extend",
                           "wait", "search", "reserve", "full", "claim", "link", "unreserve",
                           "nospace", "update", "updateSwap", "set", "setSwap"}]
    /\ val \in [Threads -> Values \cup {Empty}] /\ oldValue \in [Threads -> Values \cup {Empty}]
    /\ cell \in [Threads -> Cells] /\ d \in [Threads -> 0..kNeighbourhood]
    /\ jumps \in [Threads -> 0..(kMaxJumpsAllowed + 1)] /\ delta \in [Threads -> 0..(kNeighbourhood - 1)]
    /\ mpc \in {"hash", "unused", "load", "mark", "insert", "done"}
    /\ mcell \in Cells /\ mval \in Values \cup {Empty}
    /\ evacuated \subseteq Keys \X Values /\ missed \subseteq Keys

Allocated == {i \in Cells : hash[i] # Empty}

\* A key never has two cells, so that an update or an erase cannot miss the
\* cell that a lookup finds.
OneCellPerKey == \A i, j \in Allocated : hash[i] = hash[j] => i = j

\* freeBuckets is what it should be, counting the reservations in progress,
\* and the table never has more cells in use than it may have.
BucketsAccounted ==
    /\ freeBuckets + Cardinality(Allocated)
           + Cardinality({t \in Threads : pc[t] \in {"full", "claim", "unreserve"}}) = FreeBuckets
    /\ Cardinality(Allocated) <= FreeBuckets

Extending(t, i) == cell[t] = i
    /\ pc[t] \in {"search", "reserve", "full", "claim", "link", "unreserve", "nospace"}

\* "wait until parent is extended": whoever waits for a chain waits for a
\* thread that is extending it and will give it back.
ChainsReleased ==
    \A i \in Cells : deltaNext[i] = MapDeltaExtend => \E t \in Threads : Extending(t, i)

\* The value of a key in this table, on its way to the next one, or in that.
Lookup(k) ==
    LET here == {value[i] : i \in {j \in Cells : hash[j] = k}} \ {Empty, Move}
        moving == IF mpc = "insert" /\ hash[mcell] = k THEN {mval} ELSE {}
        there == {p[2] : p \in {q \in evacuated : q[1] = k}}
    IN  here \cup moving \cup there

Undisturbed(k) == \A t \in Threads : pc[t] # "idle" /\ key[t] = k => op[t] = "get"

\* A put that returned has stored its value and a remove has erased it: with
\* no call on the key in progress the map holds exactly what they left, and a
\* migration does not bring back a value that it read before it was removed.
\* The only calls excepted are those whose exchange met a migration's mark:
\* insertOrUpdate and remove take that for another call's write.
StoredFound ==
    \A k \in Keys \ missed : Undisturbed(k) => Lookup(k) = {stored[k]} \ {Empty}

\* A thread that is the only writer of a key finds what it stored, whatever
\* the others do to the chain meanwhile.
OwnWriteFound ==
    \A t \in Threads :
        pc[t] \in {"find", "next"} /\ pc'[t] = "idle" /\ <<t, key[t]>> \in Writers
            => stored[key[t]] = Empty
OwnerFinds == [][OwnWriteFound]_vars

\* When the migration is over the table is dead: no value is left in it and
\* no late put can store one.
NothingLeftBehind ==
    Migrating /\ mpc = "done" => \A i \in Cells : value[i] = Move

\* Every operation returns.
OpsReturn == \A t \in Threads : []<>(pc[t] = "idle")
=============================================================================
