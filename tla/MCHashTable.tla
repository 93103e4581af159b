---------------------------- MODULE MCHashTable ----------------------------
(***************************************************************************)
(* A small instance of HashTable: keys that collide, in a table where they *)
(* hardly have room. It has been in use: k0 was stored and removed again,  *)
(* which leaves its cell allocated.                                        *)
(***************************************************************************)
EXTENDS HashTable, TLC

CONSTANTS k0, k1, k2, k3, t1, t2, t3

\* k0, k1 and k2 hash to the last cell, so that their chain wraps; k3 hashes
\* to the cell where that chain continues.
MCHome == (k0 :> Size - 1) @@ (k1 :> Size - 1) @@ (k2 :> Size - 1) @@ (k3 :> 0)

\* Every thread writes keys of its own, as in ThreadMap.
OwnKeys == {<<t1, k1>>, <<t2, k2>>, <<t3, k3>>, <<t3, k0>>}

\* Init, but for the cell that k0 has taken.
UsedInit ==
    /\ hash = [i \in Cells |-> IF i = Home[k0] THEN k0 ELSE Empty]
    /\ value = [i \in Cells |-> Empty]
    /\ deltaNext = [i \in Cells |-> MapDeltaEmpty]
    /\ freeBuckets = FreeBuckets - 1
    /\ pc = [t \in Threads |-> "idle"] /\ op = [t \in Threads |-> "get"]
    /\ key = [t \in Threads |-> k0] /\ val = [t \in Threads |-> Empty]
    /\ cell = [t \in Threads |-> 0] /\ d = [t \in Threads |-> 0]
    /\ jumps = [t \in Threads |-> 0] /\ delta = [t \in Threads |-> 0]
    /\ oldValue = [t \in Threads |-> Empty]
    /\ mpc = "hash" /\ mcell = 0 /\ mval = Empty /\ evacuated = {}
    /\ stored = [k \in Keys |-> Empty] /\ missed = {} /\ calls = 0

UsedSpec == UsedInit /\ [][Next]_vars
FairUsedSpec == UsedSpec /\ (\A t \in Threads : WF_vars(Step(t))) /\ WF_vars(migrateRange)
=============================================================================
