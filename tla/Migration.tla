----------------------------- MODULE Migration -----------------------------
(***************************************************************************)
(* How the concurrent map replaces its table (concurrent_map.h): the       *)
(* JobCoordinator of each table, class Migration with its count of         *)
(* participants, the follow-up job of an overflow, and the provider's      *)
(* migrationStart, finishMigration and the loop of put and remove around   *)
(* them. The cells are in HashTable; here a table is a number of chunks of *)
(* kMigrationChunkSize cells, and emptying a chunk (migrateRange) is a     *)
(* step that succeeds or overflows.                                        *)
(*                                                                         *)
(* Every job makes one table, so job j fills table j; table 0 is the first.*)
(***************************************************************************)
EXTENDS Integers, Sequences, FiniteSets

CONSTANTS
    Threads,
    FirstSize,  \* chunks of the first table
    Sizes,      \* chunks that a table sized by migrationStart can have
    MaxJobs     \* bound: migration jobs ever made

ASSUME MigrationAssumption ==
    /\ IsFiniteSet(Threads) /\ MaxJobs \in Nat
    /\ FirstSize \in Nat \ {0} /\ Sizes \subseteq Nat \ {0} /\ Sizes # {}

Jobs == 1..MaxJobs
Tables == 0..MaxJobs
NoJob == 0      \* nullptr
Ended == -1     \* (Job*)-1
NoTable == -1   \* nullptr

VARIABLES
    made,         \* how many jobs, and tables after the first, were allocated
    size,         \* of each table, in chunks
    moved,        \* the chunks of each table that were emptied
    current,
    coordinator,  \* the job pointer of each table's JobCoordinator
    victim,       \* of each table
    sources, index,  \* of each job: its tables, and the next chunk of each
    overflowed, state, unitsRemaining, prev,
    retired,      \* how often each table was given to scheduleDelete
    deleted,      \* how often each table was deleted
    finished,     \* history: how often each job was concluded
    me            \* each thread: where it is, root of put, the locals prevJob
                  \* and cjob of participate, its source and chunk in run, and
                  \* oldRoot of finishMigration

tableVars == <<size, moved, coordinator, victim>>
jobVars == <<sources, index, overflowed, state, unitsRemaining, prev>>
gcVars == <<retired, deleted>>
vars == <<made, current, tableVars, jobVars, gcVars, finished, me>>

Idle == [pc |-> "idle", root |-> NoTable, prevJob |-> NoJob, job |-> NoJob, pos |-> 0, chunk |-> 0,
         oldRoot |-> NoTable]

Init ==
    /\ made = 0 /\ current = 0
    /\ size = [x \in Tables |-> IF x = 0 THEN FirstSize ELSE 0]
    /\ moved = [x \in Tables |-> {}]
    /\ coordinator = [x \in Tables |-> NoJob] /\ victim = [x \in Tables |-> NoJob]
    /\ sources = [j \in Jobs |-> <<>>] /\ index = [j \in Jobs |-> <<>>]
    /\ overflowed = [j \in Jobs |-> FALSE] /\ state = [j \in Jobs |-> 0]
    /\ unitsRemaining = [j \in Jobs |-> 0] /\ prev = [j \in Jobs |-> NoJob]
    /\ retired = [x \in Tables |-> 0] /\ deleted = [x \in Tables |-> 0]
    /\ finished = [j \in Jobs |-> 0]
    /\ me = [t \in Threads |-> Idle]

At(t, pc) == me[t].pc = pc
Goto(t, from, to) == At(t, from) /\ me' = [me EXCEPT ![t].pc = to]
Chunks(x) == 0..(size[x] - 1)
\* The chunks of all the sources xs of a job, and getMigrationSize of them.
Work(xs) == UNION {{i} \X Chunks(xs[i]) : i \in DOMAIN xs}
Units(xs) == Cardinality(Work(xs))
Done(j) == state[j] % 2 = 1    \* "odd means migration completed"

-----------------------------------------------------------------------------
(* put and remove *)

\* root is loaded at the start and again whenever participate returns.
Load(t) ==
    /\ me[t].pc \in {"idle", "retry"}
    /\ me' = [me EXCEPT ![t] = [Idle EXCEPT !.pc = "try", !.root = current]]
    /\ UNCHANGED <<made, current, tableVars, jobVars, gcVars, finished>>

\* The operation succeeds on root, which is no longer possible when all of
\* its cells were moved.
Succeed(t) ==
    /\ At(t, "try") /\ moved[me[t].root] # Chunks(me[t].root)
    /\ me' = [me EXCEPT ![t] = Idle]
    /\ UNCHANGED <<made, current, tableVars, jobVars, gcVars, finished>>

\* It meets a moved cell, of a migration that is under way or over.
HelpMigration(t) ==
    /\ Goto(t, "try", "participate")
    /\ coordinator[me[t].root] # NoJob
    /\ UNCHANGED <<made, current, tableVars, jobVars, gcVars, finished>>

\* put finds no room and calls migrationStart. Nothing is done when the table
\* has a job, which is looked up under the table's mutex.
StartJoins(t) ==
    /\ Goto(t, "start", "participate")
    /\ coordinator[me[t].root] # NoJob
    /\ UNCHANGED <<made, current, tableVars, jobVars, gcVars, finished>>

Overflow(t) ==
    /\ Goto(t, "try", "start")
    /\ coordinator[me[t].root] = NoJob => made < MaxJobs
    /\ UNCHANGED <<made, current, tableVars, jobVars, gcVars, finished>>

\* A job with sources xs and a destination of n chunks becomes the job of
\* table x.
NewJob(x, xs, n) ==
    LET j == made + 1
    IN  /\ made' = j
        /\ size' = [size EXCEPT ![j] = n]
        /\ index' = [index EXCEPT ![j] = [i \in DOMAIN xs |-> 0]]
        /\ unitsRemaining' = [unitsRemaining EXCEPT ![j] = Units(xs)]
        /\ coordinator' = [coordinator EXCEPT ![x] = j]

migrationStart(t) ==
    LET x == me[t].root
    IN  /\ Goto(t, "start", "participate")
        /\ coordinator[x] = NoJob /\ made < MaxJobs
        /\ \E n \in Sizes \cup {2 * size[x]} : NewJob(x, <<x>>, n)
        /\ sources' = [sources EXCEPT ![made + 1] = <<x>>]
        /\ UNCHANGED <<current, moved, victim, overflowed, state, prev, gcVars, finished>>

-----------------------------------------------------------------------------
(* JobCoordinator::participate *)

\* The thread waits until the job is another than the last one it ran.
Participate(t) ==
    LET cjob == coordinator[me[t].root]
    IN  /\ At(t, "participate") /\ cjob # me[t].prevJob
        /\ me' = [me EXCEPT ![t].pc = IF cjob = Ended THEN "retry" ELSE "run", ![t].job = cjob]
        /\ UNCHANGED <<made, current, tableVars, jobVars, gcVars, finished>>

Return(t) ==
    me' = [me EXCEPT ![t] = [Idle EXCEPT !.pc = "participate", !.root = me[t].root, !.prevJob = me[t].job]]

-----------------------------------------------------------------------------
(* Migration::run *)

Run(t) ==
    /\ At(t, "run")
    /\ IF Done(me[t].job) THEN Return(t) ELSE me' = [me EXCEPT ![t].pc = "join"]
    /\ UNCHANGED <<made, current, tableVars, jobVars, gcVars, finished>>

Join(t) ==
    /\ At(t, "join")
    /\ state' = [state EXCEPT ![me[t].job] = @ + 2]
    /\ me' = [me EXCEPT ![t].pc = "next", ![t].pos = 1]
    /\ UNCHANGED <<made, current, tableVars, sources, index, overflowed, unitsRemaining, prev, gcVars, finished>>

\* The loops over sources and chunks are left when the job is done.
NextChunk(t) ==
    /\ Goto(t, "next", IF me[t].pos > Len(sources[me[t].job]) \/ Done(me[t].job) THEN "leave" ELSE "claim")
    /\ UNCHANGED <<made, current, tableVars, jobVars, gcVars, finished>>

\* A step that follows the pointer of a source that was handed over (nullptr)
\* is no step of the program.
Source(t) == sources[me[t].job][me[t].pos]

\* Mutant of Claim: one chunk past the end is claimed.
ClaimPast(t) ==
    LET i == index[me[t].job][me[t].pos]
    IN  /\ At(t, "claim") /\ Source(t) # NoTable
        /\ index' = [index EXCEPT ![me[t].job][me[t].pos] = @ + 1]
        /\ me' = IF i > size[Source(t)]
                 THEN [me EXCEPT ![t].pc = "next", ![t].pos = @ + 1]
                 ELSE [me EXCEPT ![t].pc = "range", ![t].chunk = i]
        /\ UNCHANGED <<made, current, tableVars, sources, overflowed, state, unitsRemaining, prev, gcVars, finished>>

Claim(t) ==
    LET i == index[me[t].job][me[t].pos]
    IN  /\ At(t, "claim") /\ Source(t) # NoTable
        /\ index' = [index EXCEPT ![me[t].job][me[t].pos] = @ + 1]
        /\ me' = IF i >= size[Source(t)]
                 THEN [me EXCEPT ![t].pc = "next", ![t].pos = @ + 1]
                 ELSE [me EXCEPT ![t].pc = "range", ![t].chunk = i]
        /\ UNCHANGED <<made, current, tableVars, sources, overflowed, state, unitsRemaining, prev, gcVars, finished>>

migrateRange(t) ==
    /\ Goto(t, "range", "unit") /\ Source(t) # NoTable
    /\ moved' = [moved EXCEPT ![Source(t)] = @ \cup {me[t].chunk}]
    /\ UNCHANGED <<made, current, size, coordinator, victim, jobVars, gcVars, finished>>

\* The destination has no room for a value of the chunk.
RangeOverflow(t) ==
    /\ Goto(t, "range", "mark") /\ Source(t) # NoTable
    /\ made < MaxJobs /\ me[t].chunk \notin moved[Source(t)]
    /\ overflowed' = [overflowed EXCEPT ![me[t].job] = TRUE]
    /\ UNCHANGED <<made, current, tableVars, sources, index, state, unitsRemaining, prev, gcVars, finished>>

\* Mutant of Unit: the last chunk but one is taken for the last.
UnitEarly(t) ==
    /\ Goto(t, "unit", IF unitsRemaining[me[t].job] <= 2 THEN "mark" ELSE "next")
    /\ unitsRemaining' = [unitsRemaining EXCEPT ![me[t].job] = @ - 1]
    /\ UNCHANGED <<made, current, tableVars, sources, index, overflowed, state, prev, gcVars, finished>>

Unit(t) ==
    /\ Goto(t, "unit", IF unitsRemaining[me[t].job] = 1 THEN "mark" ELSE "next")
    /\ unitsRemaining' = [unitsRemaining EXCEPT ![me[t].job] = @ - 1]
    /\ UNCHANGED <<made, current, tableVars, sources, index, overflowed, state, prev, gcVars, finished>>

\* state.fetch_or(1)
Mark(t) ==
    /\ Goto(t, "mark", "leave")
    /\ state' = [state EXCEPT ![me[t].job] = IF Done(me[t].job) THEN @ ELSE @ + 1]
    /\ UNCHANGED <<made, current, tableVars, sources, index, overflowed, unitsRemaining, prev, gcVars, finished>>

\* Mutant of Leave: a participant that is not the last one concludes the job.
LeaveFirst(t) ==
    /\ At(t, "leave")
    /\ state' = [state EXCEPT ![me[t].job] = @ - 2]
    /\ IF state[me[t].job] > 5 THEN Return(t) ELSE me' = [me EXCEPT ![t].pc = "conclude"]
    /\ UNCHANGED <<made, current, tableVars, sources, index, overflowed, unitsRemaining, prev, gcVars, finished>>

Leave(t) ==
    /\ At(t, "leave")
    /\ state' = [state EXCEPT ![me[t].job] = @ - 2]
    /\ IF state[me[t].job] > 3 THEN Return(t) ELSE me' = [me EXCEPT ![t].pc = "conclude"]
    /\ UNCHANGED <<made, current, tableVars, sources, index, overflowed, unitsRemaining, prev, gcVars, finished>>

-----------------------------------------------------------------------------
(* The last participant concludes the job. *)

Orig(t) == sources[me[t].job][1]
Concluded(j) == finished' = [finished EXCEPT ![j] = @ + 1]

Succeeded(t) ==
    /\ Goto(t, "conclude", "end") /\ ~overflowed[me[t].job] /\ Orig(t) # NoTable
    /\ Concluded(me[t].job)
    /\ victim' = [victim EXCEPT ![Orig(t)] = me[t].job]
    /\ UNCHANGED <<made, current, size, moved, coordinator, jobVars, gcVars>>

EndJobs(t) ==
    /\ Goto(t, "end", "publish")
    /\ coordinator' = [coordinator EXCEPT ![Orig(t)] = Ended]
    /\ UNCHANGED <<made, current, size, moved, victim, jobVars, gcVars, finished>>

\* Mutant of finishMigration: the new table is not published.
FinishUnpublished(t) ==
    /\ At(t, "publish")
    /\ me' = [me EXCEPT ![t].pc = "retire", ![t].oldRoot = current]
    /\ UNCHANGED <<made, current, tableVars, jobVars, gcVars, finished>>

\* finishMigration: the new table is published and the old one retired.
finishMigration(t) ==
    /\ At(t, "publish")
    /\ me' = [me EXCEPT ![t].pc = "retire", ![t].oldRoot = current]
    /\ current' = me[t].job
    /\ UNCHANGED <<made, tableVars, jobVars, gcVars, finished>>

ScheduleOldRoot(t) ==
    /\ At(t, "retire") /\ Return(t)
    /\ retired' = [retired EXCEPT ![me[t].oldRoot] = @ + 1]
    /\ UNCHANGED <<made, current, tableVars, jobVars, deleted, finished>>

HandedOver(j) == [i \in DOMAIN sources[j] |-> NoTable]

\* Mutants of HandOver: the job keeps its sources; it does not pass on its
\* own destination.
HandOverKeeping(t) ==
    LET j == me[t].job
        xs == Append(sources[j], j)
    IN  /\ At(t, "conclude") /\ overflowed[j] /\ Concluded(j) /\ Return(t)
        /\ NewJob(Orig(t), xs, 2 * size[j])
        /\ sources' = [sources EXCEPT ![made + 1] = xs]
        /\ prev' = [prev EXCEPT ![made + 1] = j]
        /\ UNCHANGED <<current, moved, victim, overflowed, state, gcVars>>
HandOverPartly(t) ==
    LET j == me[t].job
        xs == sources[j]
    IN  /\ At(t, "conclude") /\ overflowed[j] /\ Concluded(j) /\ Return(t)
        /\ NewJob(Orig(t), xs, 2 * size[j])
        /\ sources' = [sources EXCEPT ![made + 1] = xs, ![j] = HandedOver(j)]
        /\ prev' = [prev EXCEPT ![made + 1] = j]
        /\ UNCHANGED <<current, moved, victim, overflowed, state, gcVars>>

\* After an overflow a job with a table of twice the size takes over all the
\* sources and the destination (unless a new one was set already, which
\* cannot be: only the one that concludes a job sets another).
HandOver(t) ==
    LET j == me[t].job
        xs == Append(sources[j], j)
    IN  /\ At(t, "conclude") /\ overflowed[j] /\ Orig(t) # NoTable /\ coordinator[Orig(t)] = j
        /\ Concluded(j) /\ Return(t)
        /\ NewJob(Orig(t), xs, 2 * size[j])
        /\ sources' = [sources EXCEPT ![made + 1] = xs, ![j] = HandedOver(j)]
        /\ prev' = [prev EXCEPT ![made + 1] = j]
        /\ UNCHANGED <<current, moved, victim, overflowed, state, gcVars>>

-----------------------------------------------------------------------------
(* Deletion of a retired table. That nobody works on it any more is what the *)
(* epochs of ThreadMap ensure.                                               *)

\* The job v and those before it: what is in every set that has v and, with a
\* job, the one before it.
Chain(v) ==
    {j \in Jobs : \A s \in SUBSET Jobs :
        (v \in Jobs => v \in s) /\ (\A k \in s : prev[k] \in Jobs => prev[k] \in s) => j \in s}

\* ~HashTable deletes its victim, ~Migration the jobs before it and its
\* sources but the first.
Owned(x) ==
    {o \in Chain(victim[x]) \X (2..(MaxJobs + 1)) :
        o[2] <= Len(sources[o[1]]) /\ sources[o[1]][o[2]] # NoTable}

Delete(x) ==
    /\ retired[x] > deleted[x] /\ \A t \in Threads : me[t].root # x
    /\ deleted' = [y \in Tables |-> deleted[y] + (IF y = x THEN 1 ELSE 0)
                       + Cardinality({o \in Owned(x) : sources[o[1]][o[2]] = y})]
    /\ UNCHANGED <<made, current, tableVars, jobVars, retired, finished, me>>

-----------------------------------------------------------------------------
Working(t) ==
    \/ Succeed(t) \/ HelpMigration(t) \/ Overflow(t) \/ StartJoins(t) \/ migrationStart(t)
    \/ Participate(t) \/ Run(t) \/ Join(t) \/ NextChunk(t) \/ Claim(t) \/ migrateRange(t)
    \/ RangeOverflow(t) \/ Unit(t) \/ Mark(t) \/ Succeeded(t) \/ EndJobs(t)
    \/ finishMigration(t) \/ ScheduleOldRoot(t) \/ HandOver(t)

CodeNext == (\E t \in Threads : Load(t) \/ Working(t) \/ Leave(t)) \/ (\E x \in Tables : Delete(x))
CodeSpec == Init /\ [][CodeNext]_vars

(***************************************************************************)
(* A participant counts itself only after it has looked whether the job is *)
(* done. Prompt is the assumption that nobody is between the two when the  *)
(* last participant leaves. The code does nothing to ensure it: CodeSpec   *)
(* is the code alone.                                                      *)
(***************************************************************************)
Prompt(t) == state[me[t].job] <= 3 => \A u \in Threads : ~(At(u, "join") /\ me[u].job = me[t].job)

PromptLeave(t) == Leave(t) /\ Prompt(t)

Next == (\E t \in Threads : Load(t) \/ Working(t) \/ PromptLeave(t)) \/ (\E x \in Tables : Delete(x))
Spec == Init /\ [][Next]_vars

\* Threads inside put and remove keep being scheduled.
FairSpec == Spec /\ \A t \in Threads : WF_vars(Working(t) \/ PromptLeave(t) \/ (At(t, "retry") /\ Load(t)))

-----------------------------------------------------------------------------
(* Properties *)

Inside(t, j) ==
    me[t].job = j /\ me[t].pc \in {"next", "claim", "range", "unit", "mark", "leave"}

\* state counts two for every participant, a thread works on chunks that
\* exist, and unitsRemaining does not pass below 0.
TypeOK ==
    /\ made \in 0..MaxJobs /\ current \in 0..made
    /\ size \in [Tables -> Nat] /\ moved \in [Tables -> SUBSET Nat]
    /\ coordinator \in [Tables -> Jobs \cup {NoJob, Ended}] /\ victim \in [Tables -> Jobs \cup {NoJob}]
    /\ overflowed \in [Jobs -> BOOLEAN] /\ unitsRemaining \in [Jobs -> Nat]
    /\ prev \in [Jobs -> Jobs \cup {NoJob}]
    /\ \A j \in Jobs : state[j] \div 2 = Cardinality({t \in Threads : Inside(t, j)})
    /\ \A t \in Threads : At(t, "range") => Source(t) \in Tables /\ me[t].chunk \in Chunks(Source(t))

\* "called once per successful migration": a job is concluded by exactly one
\* of its participants, so a table is published, retired and deleted once.
FinishedOnce == \A j \in Jobs : finished[j] <= 1

\* A participant never meets a source that was handed over to the next job
\* (it->table = nullptr), neither in its loops nor when it concludes the job.
SourcesPresent ==
    \A t \in Threads : /\ me[t].pc \in {"claim", "range", "unit"} => Source(t) # NoTable
                      /\ me[t].pc \in {"conclude", "end"} => Orig(t) # NoTable

\* When a new table becomes the map's table, all that was in the tables
\* before it has been moved, the tables of overflowed jobs included: nothing
\* is read from or written to them by a later operation.
PublishedComplete == \A x \in 0..made : x < current => moved[x] = Chunks(x)

\* The map's table is never given away, and what is, is deleted once.
DeletedOnce ==
    /\ retired[current] = 0
    /\ \A x \in Tables : deleted[x] <= 1 /\ (x = current => deleted[x] = 0)

Reclaimable == {x \in 0..made : retired[x] > 0}
                   \cup {sources[o[1]][o[2]] : o \in UNION {Owned(x) : x \in {y \in 0..made : retired[y] > 0}}}

\* Between operations no table is forgotten: all but the map's own are
\* retired, or owned by the job that a retired table keeps as its victim.
NothingLeaks == (\A t \in Threads : At(t, "idle")) => Reclaimable = (0..made) \ {current}

\* Every put and remove returns: nobody waits for ever for the next job, for
\* the end of the jobs or for the new table.
OpsReturn == \A t \in Threads : ~At(t, "idle") ~> At(t, "idle")
=============================================================================
