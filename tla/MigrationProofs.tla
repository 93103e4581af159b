-------------------------- MODULE MigrationProofs --------------------------
(***************************************************************************)
(* Proofs about Migration, under the assumption Prompt: a job is concluded *)
(* once and with all its sources, a published table has everything that    *)
(* was in the tables before it, and no table is deleted twice or forgotten.*)
(*                                                                         *)
(* Only the youngest job, made, can be under way, and only while it is     *)
(* younger than the map's table. Its sources are then the tables from      *)
(* current to made - 1, in order: a job that overflows hands over all that *)
(* it had and its own destination. Tables that were current once and are   *)
(* no more are the roots; the tables between a root and its victim are     *)
(* those that root's destructor deletes.                                   *)
(***************************************************************************)
EXTENDS Migration, FiniteSetTheorems, TLAPS

-----------------------------------------------------------------------------
(* The inductive invariant *)

Loops == {"next", "claim", "range", "unit"}
Joined == Loops \cup {"mark", "leave"}
Concluding == {"conclude", "end", "publish"}
Serving == {"run", "join"} \cup Joined \cup Concluding \cup {"retire"}
Helping == {"participate"} \cup Serving
Places == {"idle", "try", "start", "retry"} \cup Helping

Locals == [pc : Places, root : Tables \cup {NoTable}, prevJob : Jobs \cup {NoJob},
           job : Jobs \cup {NoJob, Ended}, pos : Nat, chunk : Nat, oldRoot : Tables \cup {NoTable}]

TableTypes ==
    /\ made \in 0..MaxJobs /\ current \in 0..made
    /\ size \in [Tables -> Nat] /\ moved \in [Tables -> SUBSET Nat]
    /\ coordinator \in [Tables -> Jobs \cup {NoJob, Ended}] /\ victim \in [Tables -> Jobs \cup {NoJob}]
    /\ retired \in [Tables -> Nat] /\ deleted \in [Tables -> Nat]
JobTypes ==
    /\ sources \in [Jobs -> Seq(Tables \cup {NoTable})] /\ DOMAIN index = Jobs
    /\ overflowed \in [Jobs -> BOOLEAN] /\ state \in [Jobs -> Nat] /\ unitsRemaining \in [Jobs -> Nat]
    /\ prev \in [Jobs -> Jobs \cup {NoJob}] /\ finished \in [Jobs -> Nat]
TypeInv == TableTypes /\ JobTypes /\ me \in [Threads -> Locals]

\* The youngest job has not been published.
Open == made > current

\* A thread works on a table that is or was the map's, and on the youngest job
\* only when it belongs to that table.
RootOf(t) ==
    /\ me[t].pc = "idle" => me[t].root = NoTable
    /\ me[t].pc # "idle" => me[t].root \in Tables /\ (me[t].root = current \/ coordinator[me[t].root] = Ended)
    /\ me[t].pc \in Helping => coordinator[me[t].root] # NoJob
    /\ me[t].pc \in Serving => me[t].job \in 1..made /\ (me[t].job = made /\ Open => me[t].root = current)
RootInv == \A t \in Threads : RootOf(t)

\* Only the map's table has a job under way, and somebody helps with it; jobs
\* and tables to come are as they were at the beginning.
Helped == \E t \in Threads : me[t].root = current /\ me[t].pc \in Helping
Publishing == \E t \in Threads : me[t].pc = "publish"
CoordinatorInv ==
    /\ coordinator[current] = NoJob => made = current
    /\ coordinator[current] \in Jobs => coordinator[current] = made /\ Open /\ Helped
    /\ coordinator[current] = Ended => Open /\ Publishing
    /\ \A x \in Tables : x < current => coordinator[x] \in {NoJob, Ended}
    /\ \A x \in Tables : x > current => coordinator[x] = NoJob
FreshInv ==
    /\ \A x \in Tables : x <= made => size[x] > 0
    /\ \A x \in Tables : moved[x] \subseteq Chunks(x) /\ (x > made => moved[x] = {})
    /\ \A j \in Jobs : j > made => state[j] = 0 /\ finished[j] = 0 /\ ~overflowed[j] /\ prev[j] = NoJob

\* state counts the participants, and what was finished has none.
Participants(j) == {t \in Threads : Inside(t, j)}
Joining(j) == {t \in Threads : At(t, "join") /\ me[t].job = j}
CountOf(j) ==
    /\ state[j] = 2 * Cardinality(Participants(j)) + (IF Done(j) THEN 1 ELSE 0)
    /\ finished[j] > 0 => finished[j] = 1 /\ state[j] = 1 /\ Joining(j) = {}
    /\ j <= current \/ j < made => finished[j] = 1
CountInv == \A j \in Jobs : CountOf(j)

\* There is one thread at most that concludes the open job.
ConcludeOf(t) ==
    /\ me[t].pc \in Concluding => Open /\ me[t].job = made /\ state[made] = 1 /\ Joining(made) = {}
    /\ me[t].pc = "conclude" => finished[made] = 0 /\ coordinator[current] = made
    /\ me[t].pc = "end" => finished[made] = 1 /\ ~overflowed[made] /\ coordinator[current] = made
    /\ me[t].pc = "publish" => finished[made] = 1 /\ ~overflowed[made] /\ coordinator[current] = Ended
    /\ me[t].pc \in {"end", "publish"} => victim[current] = made
ConcludeInv ==
    /\ \A t \in Threads : ConcludeOf(t)
    /\ \A t, u \in Threads : me[t].pc \in Concluding /\ me[u].pc \in Concluding => t = u

\* The jobs of table x up to v: the last one has the tables from x on, those
\* before it have handed over theirs.
Span(x, v) ==
    /\ sources[v] = [i \in 1..(v - x) |-> x + i - 1]
    /\ \A j \in Jobs : x < j /\ j < v => \A i \in DOMAIN sources[j] : sources[j][i] = NoTable
    /\ \A j \in Jobs : x < j /\ j <= v => prev[j] = NoJob \/ (x < prev[j] /\ prev[j] <= v)
    /\ \A z \in Tables : x < z /\ z < v => coordinator[z] = NoJob

OpenInv == Open => Span(current, made) /\ index[made] \in [1..(made - current) -> Nat]

\* Thread t has chunk w[2] of source w[1] of the open job.
Holds(t, w) == me[t].job = made /\ me[t].pos = w[1] /\ me[t].chunk = w[2]
Tried(t, w) == At(t, "range") /\ Holds(t, w)
Taken(t, w) == me[t].pc \in {"range", "unit"} /\ Holds(t, w)
Pending == {w \in Work(sources[made]) : w[2] >= index[made][w[1]] \/ \E t \in Threads : Taken(t, w)}
AllMoved == \A i \in 1..(made - current) : moved[current + i - 1] = Chunks(current + i - 1)
AllClaimed(n) == \A i \in 1..(made - current) : i < n => index[made][i] >= size[current + i - 1]
Marking == \E t \in Threads : At(t, "mark") /\ me[t].job = made

\* What the participants of the open job have of its chunks.
HoldOf(t) ==
    me[t].job = made =>
        /\ me[t].pc \in Loops => me[t].pos >= 1 /\ AllClaimed(me[t].pos)
        /\ me[t].pc \in {"claim", "range", "unit"} => me[t].pos <= made - current
        /\ me[t].pc \in {"range", "unit"} =>
               me[t].chunk \in Chunks(current + me[t].pos - 1) /\ me[t].chunk < index[made][me[t].pos]
        /\ me[t].pc = "unit" => me[t].chunk \in moved[current + me[t].pos - 1]
        /\ me[t].pc = "leave" => Done(made) \/ AllClaimed(made - current + 1)
HoldInv ==
    /\ \A t \in Threads : HoldOf(t)
    /\ \A t, u \in Threads : \A w \in Work(sources[made]) : Taken(t, w) /\ Taken(u, w) => t = u

\* What was claimed is moved, in somebody's hands, or part of an overflow;
\* unitsRemaining counts what is not done; the last to count, and whoever
\* overflows, will mark the job as done.
WorkInv ==
    /\ \A w \in Work(sources[made]) :
           w[2] < index[made][w[1]] =>
               \/ w[2] \in moved[sources[made][w[1]]] \/ overflowed[made]
               \/ \E t \in Threads : Tried(t, w)
    /\ unitsRemaining[made] >= Cardinality(Pending)
    /\ ~overflowed[made] => unitsRemaining[made] = Cardinality(Pending)
    /\ Done(made) \/ Marking => overflowed[made] \/ AllMoved
    /\ overflowed[made] \/ unitsRemaining[made] = 0 => Done(made) \/ Marking
    /\ overflowed[made] => made < MaxJobs

\* Tables that were the map's.
Root(x) == x < current /\ coordinator[x] = Ended
RootsInv ==
    /\ PublishedComplete
    /\ \A x \in Tables : Root(x) => x < victim[x] /\ victim[x] <= current /\ Span(x, victim[x])
    /\ \A z \in Tables : z < current => \E x \in Tables : x <= z /\ Root(x) /\ z < victim[x]

\* The threads that are about to retire a root, and what was.
RetireOf(t) ==
    At(t, "retire") => me[t].oldRoot \in Tables /\ Root(me[t].oldRoot) /\ retired[me[t].oldRoot] = 0
Retiring(x) == \E t \in Threads : At(t, "retire") /\ me[t].oldRoot = x
RetireInv ==
    /\ \A t \in Threads : RetireOf(t)
    /\ \A t, u \in Threads : At(t, "retire") /\ At(u, "retire") /\ me[t].oldRoot = me[u].oldRoot => t = u
    /\ \A x \in Tables : retired[x] <= 1 /\ (retired[x] = 1 => Root(x))
    /\ \A x \in Tables : Root(x) => retired[x] = 1 \/ Retiring(x)
DeleteInv ==
    /\ \A x \in Tables : Root(x) => deleted[x] <= retired[x]
    /\ \A x, z \in Tables : Root(x) /\ x < z /\ z < victim[x] => deleted[z] = deleted[x]
    /\ \A x \in Tables : x >= current => deleted[x] = 0

IndInv ==
    /\ TypeInv /\ RootInv /\ CoordinatorInv /\ FreshInv /\ CountInv /\ ConcludeInv
    /\ OpenInv /\ (Open => HoldInv /\ WorkInv) /\ RootsInv /\ RetireInv /\ DeleteInv

-----------------------------------------------------------------------------
(* Facts about the operators *)

\* Jobs and tables are numbers, and the marks are none of them.
LEMMA Numbers ==
    /\ MaxJobs \in Nat /\ Jobs = 1..MaxJobs /\ Tables = 0..MaxJobs
    /\ Jobs \subseteq Nat /\ Tables \subseteq Nat /\ Jobs \subseteq Tables /\ 0 \in Tables /\ 0 \notin Jobs
    /\ NoJob = 0 /\ Ended = -1 /\ NoTable = -1 /\ NoJob \notin Jobs /\ Ended \notin Jobs /\ NoTable \notin Tables
BY MigrationAssumption DEF Jobs, Tables, NoJob, Ended, NoTable

\* "odd means migration completed": participants come and go by twos.
LEMMA Parity ==
    ASSUME NEW s \in Int
    PROVE  /\ s % 2 \in {0, 1} /\ (s + 2) % 2 = s % 2 /\ (s - 2) % 2 = s % 2
           /\ s % 2 = 0 => (s + 1) % 2 = 1
OBVIOUS

\* The fields of a thread have their types.
LEMMA Fields ==
    ASSUME me \in [Threads -> Locals], NEW t \in Threads
    PROVE  /\ me[t].pc \in Places /\ me[t].root \in Tables \cup {NoTable} /\ me[t].prevJob \in Jobs \cup {NoJob}
           /\ me[t].job \in Jobs \cup {NoJob, Ended} /\ me[t].pos \in Nat /\ me[t].chunk \in Nat
           /\ me[t].oldRoot \in Tables \cup {NoTable} /\ me[t] \in Locals
BY DEF Locals

\* A step of thread t leaves the others where they are.
Only(t) == me' \in [Threads -> Locals] /\ \A u \in Threads : u # t => me'[u] = me[u]
Keeps(t) == UNCHANGED <<me[t].root, me[t].prevJob, me[t].job, me[t].oldRoot>>

\* A thread goes to a source or takes a chunk.
LEMMA SetPos ==
    ASSUME NEW r \in Locals, NEW n \in Nat
    PROVE  [r EXCEPT !.pos = n] \in Locals
BY DEF Locals
\* The same for a chunk.
LEMMA SetChunk ==
    ASSUME NEW r \in Locals, NEW n \in Nat
    PROVE  [r EXCEPT !.chunk = n] \in Locals
BY DEF Locals

\* A step from one place to another.
LEMMA Move ==
    ASSUME TypeInv, NEW t \in Threads, NEW to \in Places, me' = [me EXCEPT ![t].pc = to]
    PROVE  Only(t) /\ me'[t].pc = to /\ Keeps(t) /\ me'[t].pos = me[t].pos /\ me'[t].chunk = me[t].chunk
<1>1. me \in [Threads -> Locals] /\ me[t] \in Locals
  BY Fields DEF TypeInv
<1>2. me'[t] = [me[t] EXCEPT !.pc = to]
  BY <1>1
<1>3. me'[t] \in Locals
  BY <1>1, <1>2 DEF Locals
<1> QED
  BY <1>1, <1>2, <1>3 DEF Only, Keeps, Locals

\* run returns to the loop of participate.
LEMMA Back ==
    ASSUME TypeInv, NEW t \in Threads, Return(t), me[t].job \in Jobs
    PROVE  /\ Only(t) /\ me'[t].pc = "participate" /\ me'[t].root = me[t].root
<1>1. me \in [Threads -> Locals] /\ me[t].root \in Tables \cup {NoTable}
  BY Fields DEF TypeInv
<1>2. me'[t] = [Idle EXCEPT !.pc = "participate", !.root = me[t].root, !.prevJob = me[t].job]
  BY <1>1 DEF Return
<1>3. me'[t] \in Locals
  BY <1>1, <1>2, Numbers, ZenonT(40) DEF Locals, Idle, Places, Helping, Serving
<1> QED
  BY <1>1, <1>2, <1>3 DEF Only, Idle, Return

\* Sets of threads are finite.
LEMMA Finite ==
    ASSUME NEW j
    PROVE  IsFiniteSet(Participants(j)) /\ Cardinality(Participants(j)) \in Nat
BY MigrationAssumption, FS_Subset, FS_CardinalityType DEF Participants

\* Numbers that the invariant is about, with their types.
LEMMA Types ==
    ASSUME IndInv
    PROVE  /\ made \in 0..MaxJobs /\ current \in 0..made /\ made \in Nat /\ current \in Nat
           /\ made \in Tables /\ current \in Tables /\ (Open => made \in Jobs)
           /\ me \in [Threads -> Locals]
           /\ \A j \in Jobs : /\ state[j] \in Nat /\ finished[j] \in Nat /\ unitsRemaining[j] \in Nat
                              /\ overflowed[j] \in BOOLEAN /\ CountOf(j)
           /\ \A x \in Tables : /\ size[x] \in Nat /\ retired[x] \in Nat /\ deleted[x] \in Nat
                                /\ coordinator[x] \in Jobs \cup {NoJob, Ended} /\ victim[x] \in Jobs \cup {NoJob}
<1>1. TableTypes /\ me \in [Threads -> Locals] /\ CountInv
  BY DEF IndInv, TypeInv
<1>2. /\ made \in 0..MaxJobs /\ current \in 0..made /\ made \in Nat /\ current \in Nat
      /\ made \in Tables /\ current \in Tables /\ (Open => made \in Jobs)
  BY <1>1, Numbers DEF TableTypes, Open
<1>3. state \in [Jobs -> Nat] /\ finished \in [Jobs -> Nat] /\ unitsRemaining \in [Jobs -> Nat]
      /\ overflowed \in [Jobs -> BOOLEAN]
  BY DEF IndInv, TypeInv, JobTypes
<1> QED
  BY <1>1, <1>2, <1>3 DEF TableTypes, CountInv

\* A job that nobody has finished is the youngest, and open.
LEMMA UnfinishedOpen ==
    ASSUME IndInv, NEW j \in Jobs, j <= made, finished[j] = 0
    PROVE  j = made /\ Open
<1>1. CountOf(j) /\ made \in Nat /\ current \in Nat /\ j \in Nat /\ current <= made
  BY Types, Numbers
<1> QED
  BY <1>1 DEF CountOf, Open

\* A participant keeps its job open: it was not finished.
LEMMA InsideOpen ==
    ASSUME IndInv, NEW t \in Threads, me[t].pc \in Joined
    PROVE  /\ me[t].job = made /\ made \in Jobs /\ Open /\ me[t].root = current /\ finished[made] = 0 /\ state[made] >= 2
           /\ t \in Participants(made) /\ coordinator[current] # NoJob
<1> DEFINE j == me[t].job
<1>1. j \in Jobs /\ j <= made
  <2>1. j \in 1..made
    BY DEF IndInv, RootInv, RootOf, Serving
  <2> QED
    BY <2>1, Types, Numbers
<1>2. t \in Participants(j)
  BY DEF Participants, Inside, Joined, Loops
<1> HIDE DEF j
<1>3. Cardinality(Participants(j)) >= 1
  BY <1>2, Finite, FS_EmptySet
<1>4. CountOf(j) /\ state[j] \in Nat /\ finished[j] \in Nat
  BY <1>1, Types
<1>5. state[j] >= 2
  BY <1>3, <1>4, Finite DEF CountOf
<1>6. finished[j] = 0
  BY <1>4, <1>5 DEF CountOf
<1>7. j = made /\ Open
  BY <1>1, <1>6, UnfinishedOpen
<1>8. me[t].root = current /\ coordinator[current] # NoJob
  BY <1>7 DEF j, IndInv, RootInv, RootOf, Serving, Helping
<1> QED
  BY <1>1, <1>2, <1>5, <1>6, <1>7, <1>8 DEF j

\* So does a thread that is about to join.
LEMMA JoinOpen ==
    ASSUME IndInv, NEW t \in Threads, me[t].pc = "join"
    PROVE  me[t].job = made /\ made \in Jobs /\ Open /\ me[t].root = current /\ finished[made] = 0
<1> DEFINE j == me[t].job
<1>1. j \in Jobs /\ j <= made
  <2>1. j \in 1..made
    BY DEF IndInv, RootInv, RootOf, Serving
  <2> QED
    BY <2>1, Types, Numbers
<1>2. t \in Joining(j)
  BY DEF Joining, At
<1>3. finished[j] = 0
  BY <1>1, <1>2, Types DEF CountOf
<1>4. j = made /\ Open
  BY <1>1, <1>3, UnfinishedOpen
<1> QED
  BY <1>1, <1>3, <1>4 DEF IndInv, RootInv, RootOf, Serving

\* While there are participants, or a thread is about to join, nobody concludes.
LEMMA NobodyConcludes ==
    ASSUME IndInv, NEW t \in Threads, me[t].pc \in Joined \cup {"join"}
    PROVE  \A u \in Threads : me[u].pc \notin Concluding
<1> SUFFICES ASSUME NEW u \in Threads, me[u].pc \in Concluding PROVE FALSE
  OBVIOUS
<1>1. state[made] = 1 /\ Joining(made) = {}
  BY DEF IndInv, ConcludeInv, ConcludeOf
<1>2. CASE me[t].pc = "join"
  BY <1>1, <1>2, JoinOpen DEF Joining, At
<1>3. CASE me[t].pc \in Joined
  BY <1>1, <1>3, InsideOpen
<1> QED
  BY <1>2, <1>3

\* The work of the open job: the chunks of the tables from current on.
LEMMA WorkMember ==
    ASSUME IndInv, Open
    PROVE  /\ \A i, c : <<i, c>> \in Work(sources[made])
                            <=> i \in 1..(made - current) /\ c \in Chunks(current + i - 1)
           /\ \A w \in Work(sources[made]) : /\ w = <<w[1], w[2]>> /\ w[1] \in 1..(made - current)
                                             /\ w[2] \in Chunks(current + w[1] - 1)
                                             /\ sources[made][w[1]] = current + w[1] - 1
           /\ \A i \in 1..(made - current) : current + i - 1 \in Tables /\ sources[made][i] = current + i - 1
<1>1. sources[made] = [i \in 1..(made - current) |-> current + i - 1]
  BY DEF IndInv, OpenInv, Span
<1>2. \A i \in 1..(made - current) : sources[made][i] = current + i - 1 /\ current + i - 1 \in Tables
  BY <1>1, Numbers DEF IndInv, TypeInv, TableTypes
<1>3. DOMAIN sources[made] = 1..(made - current)
  BY <1>1
<1>4. \A w : w \in Work(sources[made]) <=> \E i \in 1..(made - current) : w \in {i} \X Chunks(sources[made][i])
  BY <1>3 DEF Work
<1> QED
  BY <1>2, <1>4

-----------------------------------------------------------------------------
(* What a step of one thread leaves as it is *)

\* The roots of the other threads.
LEMMA RootKept ==
    ASSUME IndInv, NEW t \in Threads, Only(t), UNCHANGED <<made, current, coordinator>>, RootOf(t)'
    PROVE  RootInv'
<1> SUFFICES ASSUME NEW u \in Threads, u # t PROVE RootOf(u)'
  BY DEF RootInv
<1>1. RootOf(u) /\ me'[u] = me[u]
  BY DEF IndInv, RootInv, Only
<1> QED
  BY <1>1 DEF RootOf, Open

\* A thread that helps goes on to do so, and one that publishes stays there.
LEMMA CoordinatorKept ==
    ASSUME IndInv, NEW t \in Threads, Only(t), UNCHANGED <<made, current, coordinator>>,
           me[t].pc \in Helping /\ me[t].root = current /\ coordinator[current] \in Jobs =>
               me'[t].pc \in Helping /\ me'[t].root = me[t].root,
           me[t].pc # "publish"
    PROVE  CoordinatorInv'
<1>1. CoordinatorInv
  BY DEF IndInv
<1>2. coordinator[current] \in Jobs => Helped'
  <2> SUFFICES ASSUME coordinator[current] \in Jobs PROVE Helped'
    OBVIOUS
  <2>1. PICK u \in Threads : me[u].root = current /\ me[u].pc \in Helping
    BY <1>1 DEF CoordinatorInv, Helped
  <2>2. me'[u].root = current /\ me'[u].pc \in Helping
    BY <2>1 DEF Only
  <2> QED
    BY <2>2 DEF Helped
<1>3. coordinator[current] = Ended => Publishing'
  <2> SUFFICES ASSUME coordinator[current] = Ended PROVE Publishing'
    OBVIOUS
  <2>1. PICK u \in Threads : me[u].pc = "publish"
    BY <1>1 DEF CoordinatorInv, Publishing
  <2>2. me'[u].pc = "publish"
    BY <2>1 DEF Only
  <2> QED
    BY <2>2 DEF Publishing
<1> QED
  BY <1>1, <1>2, <1>3 DEF CoordinatorInv, Open

\* The participants stay the same; whoever is about to join joins an unfinished job.
LEMMA CountKept ==
    ASSUME IndInv, NEW t \in Threads, Only(t), UNCHANGED <<made, current, state, finished>>,
           me[t].pc \notin Joined, me'[t].pc \notin Joined,
           me'[t].pc = "join" => finished[me'[t].job] = 0
    PROVE  CountInv'
<1> SUFFICES ASSUME NEW j \in Jobs PROVE CountOf(j)'
  BY DEF CountInv
<1>1. CountOf(j)
  BY Types
<1>2. Participants(j)' = Participants(j)
  BY DEF Participants, Inside, Only, Joined, Loops
<1>3. finished[j] > 0 /\ Joining(j) = {} => Joining(j)' = {}
  BY DEF Joining, At, Only
<1> QED
  BY <1>1, <1>2, <1>3 DEF CountOf, Done

\* Nobody begins or ends to conclude, and nobody is about to join a job that is done.
LEMMA ConcludeKept ==
    ASSUME IndInv, NEW t \in Threads, Only(t),
           UNCHANGED <<made, current, coordinator, victim, state, finished, overflowed>>,
           me[t].pc \notin Concluding, me'[t].pc \notin Concluding,
           me'[t].pc = "join" => ~Done(me'[t].job)
    PROVE  ConcludeInv'
<1>1. ConcludeInv
  BY DEF IndInv
<1>2. \A u \in Threads : me'[u].pc \in Concluding => u # t /\ me'[u] = me[u]
  BY DEF Only
<1>3. state[made] = 1 => Done(made)
  BY DEF Done
<1>4. state[made] = 1 /\ Joining(made) = {} => Joining(made)' = {}
  BY <1>3 DEF Joining, At, Only
<1>5. \A u \in Threads : ConcludeOf(u)'
  <2> SUFFICES ASSUME NEW u \in Threads, me'[u].pc \in Concluding PROVE ConcludeOf(u)'
    BY DEF ConcludeOf, Concluding
  <2>1. ConcludeOf(u) /\ me'[u] = me[u]
    BY <1>1, <1>2 DEF ConcludeInv
  <2> QED
    BY <2>1, <1>4 DEF ConcludeOf, Open
<1> QED
  BY <1>1, <1>2, <1>5 DEF ConcludeInv

\* While somebody participates, nobody begins to conclude.
LEMMA ConcludeNone ==
    ASSUME IndInv, NEW t \in Threads, Only(t), me[t].pc \in Joined \cup {"join"}, me'[t].pc \notin Concluding
    PROVE  ConcludeInv'
BY NobodyConcludes DEF ConcludeInv, ConcludeOf, Concluding, Only

\* What is known of former tables does not depend on the threads.
LEMMA RootsKept ==
    ASSUME IndInv, UNCHANGED <<made, current, coordinator, victim, sources, prev, size>>,
           \A x \in Tables : moved[x] \subseteq moved'[x] /\ moved'[x] \subseteq Chunks(x)
    PROVE  RootsInv'
<1>1. \A x : Chunks(x)' = Chunks(x) /\ Root(x)' = Root(x)
  BY DEF Chunks, Root
<1>2. \A x, v : Span(x, v)' = Span(x, v)
  BY DEF Span
<1>3. PublishedComplete'
  <2> SUFFICES ASSUME NEW x \in 0..made, x < current PROVE moved'[x] = Chunks(x)
    BY <1>1 DEF PublishedComplete
  <2>1. x \in Tables
    BY Types, Numbers
  <2>2. moved[x] = Chunks(x)
    BY DEF IndInv, RootsInv, PublishedComplete
  <2> QED
    BY <2>1, <2>2
<1> QED
  BY <1>1, <1>2, <1>3 DEF IndInv, RootsInv

\* Nobody begins or ends to retire a table.
LEMMA RetireKept ==
    ASSUME IndInv, NEW t \in Threads, Only(t), UNCHANGED <<current, coordinator, retired>>,
           me[t].pc # "retire", me'[t].pc # "retire"
    PROVE  RetireInv'
<1>1. RetireInv
  BY DEF IndInv
<1>2. \A x : Root(x)' = Root(x)
  BY DEF Root
<1>3. \A u \in Threads : me'[u].pc = "retire" => me'[u] = me[u]
  BY DEF Only
<1>4. \A x : Retiring(x) => Retiring(x)'
  BY DEF Retiring, At, Only
<1>5. \A u \in Threads : RetireOf(u)'
  BY <1>1, <1>2, <1>3 DEF RetireInv, RetireOf, At
<1> QED
  BY <1>1, <1>2, <1>3, <1>4, <1>5 DEF RetireInv, At

\* A step of a thread that has no chunk and gets none.
LEMMA WorkKept ==
    ASSUME IndInv, Open, NEW t \in Threads, Only(t),
           UNCHANGED <<made, current, sources, size, index, moved, overflowed, unitsRemaining>>,
           Done(made)' = Done(made), HoldOf(t)',
           me[t].pc \notin {"range", "unit", "mark"}, me'[t].pc \notin {"range", "unit", "mark"}
    PROVE  HoldInv' /\ WorkInv'
<1>1. HoldInv /\ WorkInv
  BY DEF IndInv
<1>2. \A u \in Threads : me'[u].pc \in {"range", "unit", "mark"} <=> me[u].pc \in {"range", "unit", "mark"}
  BY DEF Only
<1>3. \A u \in Threads : \A w : Taken(u, w)' = Taken(u, w) /\ Tried(u, w)' = Tried(u, w)
  BY <1>2 DEF Taken, Tried, Holds, At, Only
<1>4. Marking' = Marking
  BY <1>2 DEF Marking, At, Only
<1>5. Work(sources[made])' = Work(sources[made])
  BY DEF Work, Chunks
<1>6. Pending' = Pending
  BY <1>3, <1>5 DEF Pending
<1>7. \A n : AllClaimed(n)' = AllClaimed(n)
  BY DEF AllClaimed
<1>8. AllMoved' = AllMoved
  BY DEF AllMoved, Chunks
<1>9. \A u \in Threads : HoldOf(u)'
  <2> SUFFICES ASSUME NEW u \in Threads, u # t PROVE HoldOf(u)'
    OBVIOUS
  <2>1. HoldOf(u) /\ me'[u] = me[u]
    BY <1>1 DEF HoldInv, Only
  <2> QED
    BY <2>1, <1>7 DEF HoldOf, Chunks
<1>10. HoldInv'
  BY <1>1, <1>3, <1>5, <1>9 DEF HoldInv
<1>11. WorkInv'
  BY <1>1, <1>3, <1>4, <1>5, <1>6, <1>8 DEF WorkInv
<1> QED
  BY <1>10, <1>11

\* A step of a thread that changes nothing but its own place.
LEMMA QuietStep ==
    ASSUME IndInv, NEW t \in Threads, Only(t), RootOf(t)', Open => HoldOf(t)',
           UNCHANGED <<made, current, tableVars, jobVars, gcVars, finished>>,
           me[t].pc \notin Joined \cup Concluding \cup {"retire"},
           me'[t].pc \notin Joined \cup Concluding \cup {"retire"},
           me[t].pc \in Helping /\ me[t].root = current /\ coordinator[current] \in Jobs =>
               me'[t].pc \in Helping /\ me'[t].root = me[t].root,
           me'[t].pc = "join" => ~Done(me'[t].job) /\ me'[t].job \in Jobs
    PROVE  IndInv'
<1> USE DEF tableVars, jobVars, gcVars
<1>1. TypeInv'
  BY DEF IndInv, TypeInv, TableTypes, JobTypes, Only
<1>2. RootInv'
  BY RootKept
<1>3. CoordinatorInv'
  BY CoordinatorKept DEF Concluding
<1>4. FreshInv'
  BY DEF IndInv, FreshInv, Chunks
<1>5. CountInv'
  <2>1. me'[t].pc = "join" => finished[me'[t].job] = 0
    <3> SUFFICES ASSUME me'[t].pc = "join" PROVE finished[me'[t].job] = 0
      OBVIOUS
    <3>1. \A j \in Jobs : finished[j] \in Nat /\ (finished[j] > 0 => state[j] = 1)
      BY Types DEF CountOf
    <3> QED
      BY <3>1 DEF Done
  <2> QED
    BY <2>1, CountKept
<1>6. ConcludeInv'
  BY ConcludeKept
<1>7. OpenInv'
  BY DEF IndInv, OpenInv, Open, Span
<1>8. (Open => HoldInv /\ WorkInv)'
  <2> SUFFICES ASSUME Open PROVE HoldInv' /\ WorkInv'
    BY DEF Open
  <2>1. Done(made)' = Done(made)
    BY DEF Done
  <2> QED
    BY <2>1, WorkKept DEF Joined, Loops
<1>9. RootsInv'
  BY RootsKept DEF IndInv, FreshInv
<1>10. RetireInv'
  BY RetireKept
<1>11. DeleteInv'
  BY DEF IndInv, DeleteInv, Root
<1> QED
  BY <1>1, <1>2, <1>3, <1>4, <1>5, <1>6, <1>7, <1>8, <1>9, <1>10, <1>11 DEF IndInv

-----------------------------------------------------------------------------
(* put and remove outside a job *)

\* root is loaded, and given up when the operation succeeds.
LEMMA LoadStep ==
    ASSUME IndInv, NEW t \in Threads, Load(t) \/ Succeed(t)
    PROVE  IndInv'
<1>1. me \in [Threads -> Locals] /\ current \in Tables
  BY Types
<1>2. /\ me[t].pc \in {"idle", "retry", "try"} /\ UNCHANGED <<made, current, tableVars, jobVars, gcVars, finished>>
      /\ \E r \in Locals : /\ me' = [me EXCEPT ![t] = r]
                           /\ \/ r.pc = "idle" /\ r.root = NoTable
                              \/ r.pc = "try" /\ r.root = current
  <2>1. CASE Load(t)
    <3>1. [Idle EXCEPT !.pc = "try", !.root = current] \in Locals
      BY <1>1, Numbers DEF Idle, Locals, Places
    <3> QED
      BY <2>1, <3>1 DEF Load, Idle
  <2>2. CASE Succeed(t)
    <3>1. Idle \in Locals
      BY Numbers DEF Idle, Locals, Places
    <3> QED
      BY <2>2, <3>1 DEF Succeed, At, Idle
  <2> QED
    BY <2>1, <2>2
<1>3. PICK r \in Locals : /\ me' = [me EXCEPT ![t] = r]
                          /\ \/ r.pc = "idle" /\ r.root = NoTable
                             \/ r.pc = "try" /\ r.root = current
  BY <1>2
<1>4. Only(t) /\ me'[t] = r
  BY <1>1, <1>3 DEF Only
<1>5. me'[t].pc \in {"idle", "try"}
  BY <1>3, <1>4
<1>6. RootOf(t)'
  BY <1>1, <1>2, <1>3, <1>4 DEF RootOf, Helping, Serving, Joined, Loops, Concluding
<1>7. HoldOf(t)'
  BY <1>5 DEF HoldOf, Loops
<1> QED
  BY <1>2, <1>4, <1>5, <1>6, <1>7, QuietStep DEF Joined, Loops, Concluding, Helping, Serving

\* The operation turns to a migration.
LEMMA TurnStep ==
    ASSUME IndInv, NEW t \in Threads, HelpMigration(t) \/ StartJoins(t) \/ Overflow(t)
    PROVE  IndInv'
<1>1. PICK to \in {"participate", "start"} :
          /\ me[t].pc \in {"try", "start"} /\ me' = [me EXCEPT ![t].pc = to]
          /\ to = "participate" => coordinator[me[t].root] # NoJob
  BY DEF HelpMigration, StartJoins, Overflow, Goto, At
<1>2. UNCHANGED <<made, current, tableVars, jobVars, gcVars, finished>>
  BY DEF HelpMigration, StartJoins, Overflow
<1>3. Only(t) /\ me'[t].pc = to /\ me'[t].root = me[t].root
  BY <1>1, Move DEF IndInv, Places, Helping, Keeps
<1>4. RootOf(t)'
  <2>1. RootOf(t)
    BY DEF IndInv, RootInv
  <2> QED
    BY <1>1, <1>2, <1>3, <2>1 DEF RootOf, Helping, Serving, Joined, Loops, Concluding, tableVars
<1>5. HoldOf(t)'
  BY <1>1, <1>3 DEF HoldOf, Loops
<1> QED
  BY <1>1, <1>2, <1>3, <1>4, <1>5, QuietStep DEF Joined, Loops, Concluding, Helping, Serving

-----------------------------------------------------------------------------
(* participate, and run before the thread counts itself *)

\* participate finds a job it has not run, or the end of the jobs.
LEMMA ParticipateStep ==
    ASSUME IndInv, NEW t \in Threads, Participate(t)
    PROVE  IndInv'
<1> DEFINE c == coordinator[me[t].root]
<1>1. me \in [Threads -> Locals] /\ me[t] \in Locals /\ RootOf(t) /\ me[t].pc = "participate"
  BY Types, Fields DEF IndInv, RootInv, Participate, At
<1>2. UNCHANGED <<made, current, tableVars, jobVars, gcVars, finished>>
      /\ me' = [me EXCEPT ![t].pc = IF c = Ended THEN "retry" ELSE "run", ![t].job = c]
  BY DEF Participate
<1>3. me[t].root \in Tables /\ c # NoJob /\ (me[t].root = current \/ c = Ended) /\ c \in Jobs \cup {Ended}
  BY <1>1, Types DEF RootOf, Helping
<1>4. c # Ended => me[t].root = current /\ c = made /\ c \in 1..made
  BY <1>3, Types, Numbers DEF IndInv, CoordinatorInv
<1> HIDE DEF c
<1>5. me'[t] = [me[t] EXCEPT !.pc = IF c = Ended THEN "retry" ELSE "run", !.job = c]
  BY <1>1, <1>2
<1>6. Only(t) /\ me'[t].root = me[t].root /\ me'[t].job = c /\ me'[t].pc = IF c = Ended THEN "retry" ELSE "run"
  <2>1. me'[t] \in Locals
    BY <1>1, <1>3, <1>5 DEF Locals, Places, Helping, Serving
  <2> QED
    BY <1>1, <1>2, <1>5, <2>1 DEF Only, Locals
<1>7. RootOf(t)'
  BY <1>1, <1>2, <1>3, <1>4, <1>6 DEF RootOf, Helping, Serving, Joined, Loops, Concluding, tableVars, c
<1>8. HoldOf(t)'
  BY <1>6 DEF HoldOf, Loops
<1>9. me[t].root = current /\ coordinator[current] \in Jobs => c # Ended
  BY Numbers DEF c
<1> QED
  BY <1>1, <1>2, <1>6, <1>7, <1>8, <1>9, QuietStep DEF Joined, Loops, Concluding, Helping, Serving

\* "odd means migration completed": the thread does not join such a job.
LEMMA RunStep ==
    ASSUME IndInv, NEW t \in Threads, Run(t)
    PROVE  IndInv'
<1>1. me[t].pc = "run" /\ RootOf(t) /\ me[t].job \in Jobs /\ TypeInv
  <2>1. me[t].pc = "run" /\ RootOf(t) /\ TypeInv
    BY DEF Run, At, IndInv, RootInv
  <2> QED
    BY <2>1, Types, Numbers DEF RootOf, Serving
<1>2. UNCHANGED <<made, current, tableVars, jobVars, gcVars, finished>>
  BY DEF Run
<1>3. CASE Done(me[t].job)
  <2>1. Only(t) /\ me'[t].pc = "participate" /\ me'[t].root = me[t].root
    BY <1>1, <1>3, Back DEF Run
  <2>2. RootOf(t)'
    BY <1>1, <1>2, <2>1 DEF RootOf, Helping, Serving, Joined, Loops, Concluding, tableVars
  <2>3. HoldOf(t)'
    BY <2>1 DEF HoldOf, Loops
  <2> QED
    BY <1>1, <1>2, <2>1, <2>2, <2>3, QuietStep DEF Joined, Loops, Concluding, Helping, Serving
<1>4. CASE ~Done(me[t].job)
  <2>1. Only(t) /\ me'[t].pc = "join" /\ Keeps(t)
    BY <1>1, <1>4, Move DEF Run, Places, Helping, Serving
  <2>2. RootOf(t)'
    BY <1>1, <1>2, <2>1 DEF RootOf, Helping, Serving, Joined, Loops, Concluding, tableVars, Open, Keeps
  <2>3. HoldOf(t)'
    BY <2>1 DEF HoldOf, Loops
  <2> QED
    BY <1>1, <1>2, <1>4, <2>1, <2>2, <2>3, QuietStep DEF Joined, Loops, Concluding, Helping, Serving, Keeps
<1> QED
  BY <1>3, <1>4

-----------------------------------------------------------------------------
(* The participants of the open job *)

\* Participants that move about inside the job.
LEMMA CountInside ==
    ASSUME IndInv, NEW t \in Threads, Only(t), UNCHANGED <<made, current, state, finished>>,
           me[t].pc \in Joined, me'[t].pc \in Joined, me'[t].job = me[t].job
    PROVE  CountInv'
<1> SUFFICES ASSUME NEW j \in Jobs PROVE CountOf(j)'
  BY DEF CountInv
<1>1. CountOf(j)
  BY Types
<1>2. Participants(j)' = Participants(j)
  BY DEF Participants, Inside, Only, Joined, Loops
<1>3. Joining(j)' = Joining(j)
  BY DEF Joining, At, Only, Joined, Loops
<1> QED
  BY <1>1, <1>2, <1>3 DEF CountOf, Done

\* What is left to show of a participant's step: it concerns its job alone.
LEMMA InsideStep ==
    ASSUME IndInv, NEW t \in Threads, Only(t),
           UNCHANGED <<made, current, size, coordinator, victim, sources, prev, gcVars, finished>>,
           me[t].pc \in Joined \cup {"join"}, me'[t].pc \in Joined \cup {"participate", "conclude"},
           me'[t].root = me[t].root, me'[t].pc # "participate" => me'[t].job = me[t].job,
           me'[t].pc = "conclude" => ConcludeInv',
           TypeInv', \A x \in Tables : moved[x] \subseteq moved'[x] /\ moved'[x] \subseteq Chunks(x),
           \A x \in Tables : x > made => moved'[x] = moved[x],
           \A j \in Jobs : j # made => state'[j] = state[j] /\ overflowed'[j] = overflowed[j],
           Open => index'[made] \in [1..(made - current) -> Nat],
           CountInv', HoldInv', WorkInv'
    PROVE  IndInv'
<1>1. me[t].job = made /\ made \in Jobs /\ Open /\ me[t].root = current /\ coordinator[current] # NoJob
  BY InsideOpen, JoinOpen DEF IndInv, RootInv, RootOf, Helping, Serving
<1>2. RootInv'
  <2>1. RootOf(t) /\ current \in Tables /\ made \in 1..made
    BY <1>1, Numbers, Types DEF IndInv, RootInv
  <2>2. RootOf(t)'
    BY <1>1, <2>1 DEF RootOf, Helping, Serving, Joined, Loops, Concluding
  <2> QED
    BY <2>2, RootKept
<1>3. CoordinatorInv'
  BY CoordinatorKept DEF Joined, Loops, Helping, Serving, Concluding
<1>4. FreshInv'
  <2>1. FreshInv
    BY DEF IndInv
  <2>2. \A j \in Jobs : j > made => state'[j] = state[j] /\ overflowed'[j] = overflowed[j]
    BY Numbers, Types
  <2> QED
    BY <2>1, <2>2 DEF FreshInv, Chunks
<1>5. ConcludeInv'
  BY ConcludeNone DEF Joined, Loops, Concluding
<1>6. OpenInv'
  BY DEF IndInv, OpenInv, Open, Span
<1>7. RootsInv'
  BY RootsKept
<1>8. RetireInv'
  BY RetireKept DEF gcVars, Joined, Loops
<1>9. DeleteInv'
  BY DEF IndInv, DeleteInv, Root, gcVars
<1> QED
  BY <1>2, <1>3, <1>4, <1>5, <1>6, <1>7, <1>8, <1>9 DEF IndInv

\* state += 2
LEMMA JoinStep ==
    ASSUME IndInv, NEW t \in Threads, Join(t)
    PROVE  IndInv'
<1>1. me[t].pc = "join" /\ me[t].job = made /\ made \in Jobs /\ Open /\ finished[made] = 0
  BY JoinOpen DEF Join, At
<1>2. state' = [state EXCEPT ![made] = @ + 2] /\ me' = [me EXCEPT ![t].pc = "next", ![t].pos = 1]
      /\ UNCHANGED <<made, current, tableVars, sources, index, overflowed, unitsRemaining, prev, gcVars, finished>>
  BY <1>1 DEF Join
<1>3. me \in [Threads -> Locals] /\ me[t] \in Locals
  BY Types, Fields
<1>4. me'[t] = [me[t] EXCEPT !.pc = "next", !.pos = 1]
  BY <1>2, <1>3
<1>5. Only(t) /\ me'[t].pc = "next" /\ me'[t].pos = 1 /\ me'[t].job = made /\ me'[t].root = me[t].root
  <2>1. "next" \in Places
    BY DEF Places, Helping, Serving, Joined, Loops
  <2>2. me'[t] \in Locals
    <3> DEFINE r == [me[t] EXCEPT !.pc = "next"]
    <3>1. r \in Locals
      BY <1>3, <2>1 DEF Locals
    <3>2. me'[t] = [r EXCEPT !.pos = 1]
      BY <1>4
    <3> HIDE DEF r
    <3> QED
      BY <3>1, <3>2, SetPos
  <2> QED
    BY <1>1, <1>2, <1>3, <1>4, <2>2 DEF Only, Locals
<1>6. state \in [Jobs -> Nat] /\ state' \in [Jobs -> Nat] /\ state'[made] = state[made] + 2
      /\ \A j \in Jobs : j # made => state'[j] = state[j]
  BY <1>1, <1>2 DEF IndInv, TypeInv, JobTypes
<1>7. \A j \in Jobs : Done(j)' = Done(j)
  <2> SUFFICES ASSUME NEW j \in Jobs PROVE Done(j)' = Done(j)
    OBVIOUS
  <2>1. CASE j = made
    BY <1>6, <2>1, Parity DEF Done
  <2> QED
    BY <1>6, <2>1 DEF Done
<1>8. TypeInv'
  BY <1>2, <1>5, <1>6 DEF IndInv, TypeInv, TableTypes, JobTypes, tableVars, gcVars, Only
<1>9. CountInv'
  <2> SUFFICES ASSUME NEW j \in Jobs PROVE CountOf(j)'
    BY DEF CountInv
  <2>1. CountOf(j)
    BY Types
  <2>2. Joining(j)' \subseteq Joining(j)
    BY <1>5 DEF Joining, At, Only
  <2>3. CASE j # made
    <3>1. Participants(j)' = Participants(j)
      BY <1>1, <1>5, <2>3 DEF Participants, Inside, Only
    <3> QED
      BY <1>2, <1>6, <1>7, <2>1, <2>2, <2>3, <3>1 DEF CountOf
  <2>4. CASE j = made
    <3>1. Participants(j)' = Participants(j) \cup {t} /\ t \notin Participants(j)
      BY <1>1, <1>5, <2>4 DEF Participants, Inside, Only
    <3>2. Cardinality(Participants(j)') = Cardinality(Participants(j)) + 1
      BY <3>1, Finite, FS_AddElement
    <3>3. finished'[j] = 0 /\ UNCHANGED <<made, current>>
      BY <1>1, <1>2, <2>4
    <3>4. state[j] = 2 * Cardinality(Participants(j)) + (IF Done(j) THEN 1 ELSE 0) /\ state'[j] = state[j] + 2
      BY <1>6, <2>1, <2>4 DEF CountOf
    <3>5. state'[j] = 2 * Cardinality(Participants(j)') + (IF Done(j)' THEN 1 ELSE 0)
      BY <1>7, <2>4, <3>2, <3>4, Finite
    <3> QED
      BY <1>1, <2>4, <3>3, <3>5, Types DEF CountOf, Open
  <2> QED
    BY <2>3, <2>4
<1>10. HoldInv' /\ WorkInv'
  <2>1. HoldOf(t)'
    BY <1>5 DEF HoldOf, AllClaimed
  <2>2. Done(made)' = Done(made)
    BY <1>1, <1>2, <1>7 DEF Done
  <2> QED
    BY <1>1, <1>2, <1>5, <2>1, <2>2, WorkKept DEF tableVars
<1> QED
  BY <1>1, <1>2, <1>5, <1>6, <1>8, <1>9, <1>10, InsideStep
     DEF tableVars, gcVars, Joined, Loops, IndInv, FreshInv, OpenInv

\* The loop ends when the job is done or nothing is left to claim.
LEMMA NextChunkStep ==
    ASSUME IndInv, NEW t \in Threads, NextChunk(t)
    PROVE  IndInv'
<1>1. me[t].pc = "next" /\ me[t].job = made /\ made \in Jobs /\ Open
  BY InsideOpen DEF NextChunk, Goto, At, Joined, Loops
<1>2. UNCHANGED <<made, current, tableVars, jobVars, gcVars, finished>>
  BY DEF NextChunk
<1>3. PICK to \in {"leave", "claim"} :
          /\ me' = [me EXCEPT ![t].pc = to]
          /\ to = "leave" => me[t].pos > Len(sources[made]) \/ Done(made)
          /\ to = "claim" => me[t].pos <= Len(sources[made])
  <2>1. Len(sources[made]) \in Nat /\ me[t].pos \in Nat
    BY <1>1, Types, Fields DEF IndInv, TypeInv, JobTypes
  <2>2. CASE me[t].pos > Len(sources[made]) \/ Done(made)
    BY <1>1, <2>2 DEF NextChunk, Goto
  <2>3. CASE ~(me[t].pos > Len(sources[made]) \/ Done(made))
    BY <1>1, <2>1, <2>3 DEF NextChunk, Goto
  <2> QED
    BY <2>2, <2>3
<1>4. Only(t) /\ me'[t].pc = to /\ Keeps(t) /\ me'[t].pos = me[t].pos
  BY <1>3, Move DEF IndInv, Places, Helping, Serving, Joined, Loops
<1>5. HoldOf(t)'
  <2>1. HoldOf(t) /\ me[t].pos \in Nat /\ made \in Nat /\ current \in Nat
    BY <1>1, Types, Fields DEF IndInv, HoldInv
  <2>2. Len(sources[made]) = made - current
    <3>1. sources[made] = [i \in 1..(made - current) |-> current + i - 1] /\ made - current \in Nat
      BY <1>1, <2>1 DEF IndInv, OpenInv, Span, Open
    <3> QED
      BY <3>1
  <2>3. \A n : AllClaimed(n)' = AllClaimed(n)
    BY <1>2 DEF AllClaimed, tableVars, jobVars
  <2>4. me[t].pos > made - current /\ AllClaimed(me[t].pos) => AllClaimed(made - current + 1)
    BY <2>1 DEF AllClaimed
  <2>5. Done(made)' = Done(made)
    BY <1>2 DEF Done, jobVars
  <2> QED
    BY <1>1, <1>2, <1>3, <1>4, <2>1, <2>2, <2>3, <2>4, <2>5 DEF HoldOf, Loops, Keeps
<1>6. HoldInv' /\ WorkInv'
  <2>1. Done(made)' = Done(made)
    BY <1>2 DEF Done, jobVars
  <2> QED
    BY <1>1, <1>2, <1>3, <1>4, <1>5, <2>1, WorkKept DEF tableVars, jobVars
<1>7. TypeInv'
  BY <1>2, <1>4 DEF IndInv, TypeInv, TableTypes, JobTypes, tableVars, jobVars, gcVars, Only
<1>8. CountInv'
  BY <1>1, <1>2, <1>3, <1>4, CountInside DEF jobVars, Joined, Loops, Keeps
<1> QED
  BY <1>1, <1>2, <1>3, <1>4, <1>6, <1>7, <1>8, InsideStep
     DEF tableVars, jobVars, gcVars, Joined, Loops, IndInv, FreshInv, OpenInv, Keeps

\* A participant at a chunk: its place in the open job, in numbers.
LEMMA AtChunk ==
    ASSUME IndInv, NEW t \in Threads, me[t].pc \in {"claim", "range", "unit"}
    PROVE  /\ me[t].job = made /\ made \in Jobs /\ Open /\ HoldOf(t) /\ HoldInv /\ WorkInv
           /\ made \in Nat /\ current \in Nat
           /\ me[t].pos \in 1..(made - current) /\ Source(t) = current + me[t].pos - 1 /\ Source(t) \in Tables
           /\ index[made] \in [1..(made - current) -> Nat]
           /\ size[Source(t)] \in Nat /\ me[t].chunk \in Nat
<1>1. me[t].job = made /\ made \in Jobs /\ Open
  BY InsideOpen DEF Joined, Loops
<1>2. HoldOf(t) /\ HoldInv /\ WorkInv
  BY <1>1 DEF IndInv, HoldInv
<1>3. made \in Nat /\ current \in Nat /\ me[t].pos \in Nat /\ me[t].chunk \in Nat
  BY Types, Fields
<1>4. me[t].pos \in 1..(made - current)
  BY <1>1, <1>2, <1>3 DEF HoldOf, Loops
<1>5. Source(t) = current + me[t].pos - 1 /\ Source(t) \in Tables
  BY <1>1, <1>4, WorkMember DEF Source
<1>6. index[made] \in [1..(made - current) -> Nat]
  BY <1>1 DEF IndInv, OpenInv
<1> QED
  BY <1>1, <1>2, <1>3, <1>4, <1>5, <1>6, Types

\* A chunk is claimed by fetch_add: nobody else gets it.
LEMMA ClaimStep ==
    ASSUME IndInv, NEW t \in Threads, Claim(t)
    PROVE  IndInv'
<1>0. PICK p, x, i : p = me[t].pos /\ x = Source(t) /\ i = index[made][p]
  OBVIOUS
<1>1. me[t].pc = "claim"
  BY DEF Claim, At
<1>2. /\ me[t].job = made /\ made \in Jobs /\ Open /\ HoldOf(t) /\ HoldInv /\ WorkInv
      /\ made \in Nat /\ current \in Nat
      /\ p \in 1..(made - current) /\ x = current + p - 1 /\ x \in Tables
      /\ index[made] \in [1..(made - current) -> Nat] /\ size[x] \in Nat /\ i \in Nat
  BY <1>0, <1>1, AtChunk
<1>3. index' = [index EXCEPT ![made][p] = @ + 1]
      /\ UNCHANGED <<made, current, tableVars, sources, overflowed, state, unitsRemaining, prev, gcVars, finished>>
  BY <1>0, <1>2 DEF Claim
<1>4. me' = IF i >= size[x] THEN [me EXCEPT ![t].pc = "next", ![t].pos = @ + 1]
                            ELSE [me EXCEPT ![t].pc = "range", ![t].chunk = i]
  BY <1>0, <1>2 DEF Claim
<1>5. /\ Only(t) /\ me'[t].job = made /\ me'[t].root = me[t].root
      /\ i >= size[x] => me'[t].pc = "next" /\ me'[t].pos = p + 1
      /\ i < size[x] => me'[t].pc = "range" /\ me'[t].pos = p /\ me'[t].chunk = i
  <2>1. me \in [Threads -> Locals] /\ me[t] \in Locals /\ p \in Nat
    BY <1>2, Types, Fields
  <2>2. "next" \in Places /\ "range" \in Places
    BY DEF Places, Helping, Serving, Joined, Loops
  <2>3. CASE i >= size[x]
    <3> DEFINE r == [me[t] EXCEPT !.pc = "next"]
    <3>1. r \in Locals /\ r.pos = p /\ r.job = me[t].job /\ r.root = me[t].root /\ r.pc = "next"
      BY <1>0, <2>1, <2>2 DEF Locals
    <3>2. me'[t] = [r EXCEPT !.pos = p + 1]
      BY <1>0, <1>4, <2>1, <2>3
    <3> HIDE DEF r
    <3>3. me'[t] \in Locals
      BY <2>1, <3>1, <3>2, SetPos
    <3>4. me'[t].pc = "next" /\ me'[t].pos = p + 1 /\ me'[t].job = me[t].job /\ me'[t].root = me[t].root
      BY <3>1, <3>2 DEF Locals
    <3> QED
      BY <1>2, <1>4, <2>1, <2>3, <3>3, <3>4 DEF Only
  <2>4. CASE i < size[x]
    <3> DEFINE r == [me[t] EXCEPT !.pc = "range"]
    <3>1. r \in Locals /\ r.pos = p /\ r.job = me[t].job /\ r.root = me[t].root /\ r.pc = "range"
      BY <1>0, <2>1, <2>2 DEF Locals
    <3>2. me'[t] = [r EXCEPT !.chunk = i]
      BY <1>2, <1>4, <2>1, <2>4
    <3> HIDE DEF r
    <3>3. me'[t] \in Locals
      BY <1>2, <3>1, <3>2, SetChunk
    <3>4. me'[t].pc = "range" /\ me'[t].pos = p /\ me'[t].chunk = i /\ me'[t].job = me[t].job /\ me'[t].root = me[t].root
      BY <3>1, <3>2 DEF Locals
    <3> QED
      BY <1>2, <1>4, <2>1, <2>4, <3>3, <3>4 DEF Only
  <2> QED
    BY <1>2, <2>3, <2>4
<1>6. /\ DOMAIN index' = Jobs /\ index'[made] \in [1..(made - current) -> Nat]
      /\ index'[made][p] = i + 1 /\ \A k \in 1..(made - current) : k # p => index'[made][k] = index[made][k]
  <2>1. DOMAIN index = Jobs
    BY DEF IndInv, TypeInv, JobTypes
  <2>2. index'[made] = [index[made] EXCEPT ![p] = i + 1]
    BY <1>0, <1>2, <1>3, <2>1
  <2> QED
    BY <1>2, <1>3, <2>1, <2>2
<1>7. \A k \in 1..(made - current) : index[made][k] \in Nat /\ index'[made][k] >= index[made][k] /\ index'[made][k] \in Nat
  <2> SUFFICES ASSUME NEW k \in 1..(made - current)
               PROVE  index[made][k] \in Nat /\ index'[made][k] >= index[made][k] /\ index'[made][k] \in Nat
    OBVIOUS
  <2>1. index[made][k] \in Nat /\ index'[made][k] \in Nat
    BY <1>2, <1>6
  <2>2. CASE k = p
    <3>1. index'[made][k] = i + 1 /\ index[made][k] = i /\ i \in Nat
      BY <1>0, <1>2, <1>6, <2>2
    <3> QED
      BY <3>1
  <2>3. CASE k # p
    BY <1>6, <2>1, <2>3
  <2> QED
    BY <2>1, <2>2, <2>3
<1>8. \A n : AllClaimed(n) => AllClaimed(n)'
  <2> SUFFICES ASSUME NEW n, AllClaimed(n), NEW k \in 1..(made - current), k < n
               PROVE  index'[made][k] >= size[current + k - 1]
    BY <1>3 DEF AllClaimed, tableVars
  <2>1. index[made][k] >= size[current + k - 1] /\ size[current + k - 1] \in Nat
    BY <1>2, WorkMember, Types DEF AllClaimed
  <2> QED
    BY <1>7, <2>1
<1>9. \A u \in Threads : HoldOf(u)'
  <2>1. ASSUME NEW u \in Threads, u # t PROVE HoldOf(u)'
    <3>1. HoldOf(u) /\ me'[u] = me[u] /\ me[u].pos \in Nat /\ me[u].chunk \in Nat
      BY <1>2, <1>5, <2>1, Types, Fields DEF HoldInv, Only
    <3>2. Done(made)' = Done(made) /\ \A y : Chunks(y)' = Chunks(y)
      BY <1>3 DEF Done, Chunks, tableVars
    <3>3. me[u].pc \in {"range", "unit"} /\ me[u].job = made => me[u].pos \in 1..(made - current)
      BY <1>2, <3>1 DEF HoldOf, Loops
    <3>4. me[u].pc \in {"range", "unit"} /\ me[u].job = made => me[u].chunk < index'[made][me[u].pos]
      <4> SUFFICES ASSUME me[u].pc \in {"range", "unit"}, me[u].job = made PROVE me[u].chunk < index'[made][me[u].pos]
        OBVIOUS
      <4>1. me[u].chunk < index[made][me[u].pos]
        BY <3>1 DEF HoldOf
      <4> QED
        BY <1>7, <3>1, <3>3, <4>1
    <3> QED
      BY <1>3, <1>8, <3>1, <3>2, <3>4 DEF HoldOf, tableVars
  <2>2. HoldOf(t)'
    <3>1. AllClaimed(p) /\ p \in Nat
      BY <1>0, <1>1, <1>2 DEF HoldOf, Loops
    <3>2. CASE i >= size[x]
      <4>1. AllClaimed(p + 1)'
        <5> SUFFICES ASSUME NEW k \in 1..(made - current), k < p + 1 PROVE index'[made][k] >= size[current + k - 1]
          BY <1>3 DEF AllClaimed, tableVars
        <5>1. CASE k = p
          BY <1>2, <1>6, <3>2, <5>1
        <5>2. CASE k # p
          <6>1. k < p
            BY <3>1, <5>2
          <6>2. AllClaimed(p)'
            BY <1>8, <3>1
          <6> QED
            BY <1>3, <6>1, <6>2 DEF AllClaimed, tableVars
        <5> QED
          BY <5>1, <5>2
      <4> QED
        BY <1>2, <1>3, <1>5, <3>1, <3>2, <4>1 DEF HoldOf, Loops
    <3>3. CASE i < size[x]
      <4>1. AllClaimed(p)'
        BY <1>8, <3>1
      <4>2. i \in Chunks(current + p - 1)' /\ i < index'[made][p] /\ p <= made - current /\ p >= 1
        BY <1>2, <1>3, <1>6, <3>3 DEF Chunks, tableVars
      <4> QED
        BY <1>2, <1>3, <1>5, <3>3, <4>1, <4>2 DEF HoldOf, Loops
    <3> QED
      BY <1>2, <3>2, <3>3
  <2> QED
    BY <2>1, <2>2
<1>10. Work(sources[made])' = Work(sources[made])
  BY <1>3 DEF Work, Chunks, tableVars
<1>11. ASSUME NEW w \in Work(sources[made])
       PROVE  /\ w[1] \in 1..(made - current) /\ w[2] \in Nat /\ w[2] < size[current + w[1] - 1]
              /\ sources[made][w[1]] = current + w[1] - 1 /\ size[current + w[1] - 1] \in Nat
  <2>1. /\ w[1] \in 1..(made - current) /\ w[2] \in Chunks(current + w[1] - 1)
        /\ sources[made][w[1]] = current + w[1] - 1 /\ current + w[1] - 1 \in Tables
    BY <1>2, <1>11, WorkMember
  <2>2. size[current + w[1] - 1] \in Nat
    BY <2>1, Types
  <2> QED
    BY <2>1, <2>2 DEF Chunks
\* t takes the chunk i when there is one; others have what they had.
<1>12. ASSUME NEW u \in Threads, NEW w \in Work(sources[made])
       PROVE  /\ Taken(u, w)' <=> (Taken(u, w) \/ (u = t /\ i < size[x] /\ w[1] = p /\ w[2] = i))
              /\ Tried(u, w)' <=> (Tried(u, w) \/ (u = t /\ i < size[x] /\ w[1] = p /\ w[2] = i))
  <2>1. CASE u # t
    BY <1>3, <1>5, <2>1 DEF Taken, Tried, Holds, At, Only
  <2>2. CASE u = t
    <3>1. ~Taken(u, w) /\ ~Tried(u, w)
      BY <1>1, <2>2 DEF Taken, Tried, At
    <3>2. CASE i >= size[x]
      <4>1. ~Taken(u, w)' /\ ~Tried(u, w)'
        BY <1>5, <2>2, <3>2 DEF Taken, Tried, At
      <4> QED
        BY <1>2, <3>1, <3>2, <4>1
    <3>3. CASE i < size[x]
      <4>1. me'[u].pc = "range" /\ me'[u].job = made' /\ me'[u].pos = p /\ me'[u].chunk = i
        BY <1>2, <1>3, <1>5, <2>2, <3>3
      <4>2. (Taken(u, w)' <=> (w[1] = p /\ w[2] = i)) /\ (Tried(u, w)' <=> (w[1] = p /\ w[2] = i))
        BY <4>1 DEF Taken, Tried, Holds, At
      <4> QED
        BY <2>2, <3>1, <3>3, <4>2
    <3> QED
      BY <1>2, <3>2, <3>3
  <2> QED
    BY <2>1, <2>2
<1>13. ASSUME NEW u \in Threads, NEW w \in Work(sources[made]), Taken(u, w)
       PROVE  w[2] < index[made][w[1]]
  BY <1>2, <1>13 DEF HoldInv, HoldOf, Taken, Holds
<1>14. HoldInv'
  <2>1. ASSUME NEW u \in Threads, NEW v \in Threads, NEW w \in Work(sources[made]), Taken(u, w)', Taken(v, w)'
        PROVE  u = v
    <3>1. CASE Taken(u, w) /\ Taken(v, w)
      BY <1>2, <3>1 DEF HoldInv
    <3>2. CASE u = t /\ v = t
      BY <3>2
    <3>3. CASE w[1] = p /\ w[2] = i /\ (Taken(u, w) \/ Taken(v, w))
      <4>1. i < index[made][p]
        BY <1>13, <3>3
      <4> QED
        BY <1>0, <1>2, <4>1
    <3> QED
      BY <2>1, <1>12, <3>1, <3>2, <3>3
  <2> QED
    BY <1>9, <1>10, <2>1 DEF HoldInv
<1>15. Pending' = Pending
  <2> SUFFICES ASSUME NEW w \in Work(sources[made])
               PROVE  (w[2] >= index'[made][w[1]] \/ \E u \in Threads : Taken(u, w)')
                          <=> (w[2] >= index[made][w[1]] \/ \E u \in Threads : Taken(u, w))
    BY <1>3, <1>10 DEF Pending
  <2>1. \A u \in Threads : Taken(u, w) => Taken(u, w)'
    BY <1>12
  <2>2. CASE w[1] # p
    BY <1>6, <1>11, <1>12, <2>2
  <2>3. CASE w[1] = p /\ i >= size[x]
    <3>0. w[2] < size[x] /\ w[2] \in Nat
      BY <1>2, <1>11, <2>3
    <3>1. w[2] < i /\ w[2] < i + 1
      BY <1>2, <2>3, <3>0
    <3>2. ~(w[2] >= index'[made][w[1]]) /\ ~(w[2] >= index[made][w[1]])
      <4>1. index'[made][w[1]] = i + 1 /\ index[made][w[1]] = i
        BY <1>0, <1>6, <2>3
      <4> QED
        BY <1>2, <3>0, <3>1, <4>1
    <3>3. ~(i < size[x])
      BY <1>2, <2>3
    <3> QED
      BY <1>12, <3>2, <3>3
  <2>4. CASE w[1] = p /\ i < size[x]
    <3>1. w[2] >= index'[made][w[1]] <=> w[2] >= i + 1
      BY <1>6, <2>4
    <3>2. w[2] >= index[made][w[1]] <=> w[2] >= i
      BY <1>0, <2>4
    <3>3. w[2] = i => Taken(t, w)'
      BY <1>12, <2>4
    <3>4. w[2] >= i <=> w[2] >= i + 1 \/ w[2] = i
      BY <1>2, <1>11
    <3>5. \A u \in Threads : Taken(u, w)' => Taken(u, w) \/ w[2] = i
      BY <1>12
    <3> QED
      BY <2>1, <3>1, <3>2, <3>3, <3>4, <3>5
  <2> QED
    BY <1>2, <2>2, <2>3, <2>4
<1>16. WorkInv'
  <2>1. ASSUME NEW w \in Work(sources[made]), w[2] < index'[made][w[1]]
        PROVE  w[2] \in moved[sources[made][w[1]]] \/ overflowed[made] \/ \E u \in Threads : Tried(u, w)'
    <3>1. CASE w[2] < index[made][w[1]]
      BY <1>2, <1>12, <3>1 DEF WorkInv
    <3>2. CASE ~(w[2] < index[made][w[1]])
      <4>1. w[1] = p /\ w[2] = i
        <5>1. w[1] = p
          BY <1>6, <1>11, <2>1, <3>2
        <5>2. index'[made][w[1]] = i + 1 /\ index[made][w[1]] = i /\ w[2] \in Nat
          BY <1>0, <1>6, <1>11, <5>1
        <5>3. w[2] < i + 1 /\ ~(w[2] < i) /\ i \in Nat
          BY <1>2, <2>1, <3>2, <5>2
        <5> QED
          BY <5>1, <5>2, <5>3
      <4>2. i < size[x]
        BY <1>2, <1>11, <4>1
      <4> QED
        BY <1>12, <4>1, <4>2
    <3> QED
      BY <3>1, <3>2
  <2>2. Marking' = Marking
    <3>1. me'[t].pc # "mark" /\ me[t].pc # "mark"
      BY <1>1, <1>2, <1>5
    <3> QED
      BY <1>3, <1>5, <3>1 DEF Marking, At, Only
  <2>3. Done(made)' = Done(made) /\ AllMoved' = AllMoved
    BY <1>3 DEF Done, AllMoved, Chunks, tableVars
  <2> QED
    BY <1>2, <1>3, <1>10, <1>15, <2>1, <2>2, <2>3 DEF WorkInv, tableVars
<1>17. TypeInv'
  BY <1>3, <1>5, <1>6 DEF IndInv, TypeInv, TableTypes, JobTypes, tableVars, gcVars, Only
<1>18. me'[t].pc \in {"next", "range"}
  BY <1>2, <1>5
<1>19. CountInv'
  BY <1>1, <1>2, <1>3, <1>5, <1>18, CountInside DEF Joined, Loops
<1>20. \A y \in Tables : moved[y] \subseteq moved'[y] /\ moved'[y] \subseteq Chunks(y) /\ moved'[y] = moved[y]
  BY <1>3 DEF IndInv, FreshInv, tableVars
<1> QED
  BY <1>1, <1>2, <1>3, <1>5, <1>6, <1>14, <1>16, <1>17, <1>18, <1>19, <1>20, InsideStep
     DEF tableVars, Joined, Loops

\* The work of the open job is finite, and so is what is left of it.
LEMMA FiniteWork ==
    ASSUME IndInv, Open
    PROVE  IsFiniteSet(Work(sources[made])) /\ IsFiniteSet(Pending) /\ Cardinality(Pending) \in Nat
<1>1. made \in Nat /\ current \in Nat /\ made - current \in Nat
  BY Types DEF Open
<1>2. DOMAIN sources[made] = 1..(made - current)
  BY DEF IndInv, OpenInv, Span
<1>3. IsFiniteSet(1..(made - current))
  BY <1>1, FS_Interval
<1>4. \A i \in 1..(made - current) : IsFiniteSet({i} \X Chunks(sources[made][i]))
  <2> SUFFICES ASSUME NEW i \in 1..(made - current) PROVE IsFiniteSet({i} \X Chunks(sources[made][i]))
    OBVIOUS
  <2>1. size[sources[made][i]] \in Nat
    BY WorkMember, Types
  <2>2. IsFiniteSet(Chunks(sources[made][i]))
    <3>1. size[sources[made][i]] - 1 \in Int
      BY <2>1
    <3> QED
      BY <3>1, FS_Interval, SMTT(30) DEF Chunks
  <2>3. IsFiniteSet({i})
    BY FS_Singleton
  <2> QED
    BY <2>2, <2>3, FS_Product
<1> DEFINE Parts == {{i} \X Chunks(sources[made][i]) : i \in 1..(made - current)}
           f == [i \in 1..(made - current) |-> {i} \X Chunks(sources[made][i])]
<1>5. IsFiniteSet(Parts)
  <2>1. f \in Surjection(1..(made - current), Parts)
    BY DEF Surjection
  <2> QED
    BY <1>3, <2>1, FS_Surjection
<1>6. IsFiniteSet(UNION Parts)
  BY <1>4, <1>5, FS_UNION
<1>7. Work(sources[made]) = UNION Parts
  BY <1>2 DEF Work
<1>8. IsFiniteSet(Work(sources[made]))
  BY <1>6, <1>7
<1> QED
  BY <1>8, FS_Subset, FS_CardinalityType DEF Pending

\* migrateRange: the chunk is moved, and still to be counted.
LEMMA RangeStep ==
    ASSUME IndInv, NEW t \in Threads, migrateRange(t)
    PROVE  IndInv'
<1>0. PICK p, x, c : p = me[t].pos /\ x = Source(t) /\ c = me[t].chunk
  OBVIOUS
<1>1. me[t].pc = "range"
  BY DEF migrateRange, Goto, At
<1>2. /\ me[t].job = made /\ made \in Jobs /\ Open /\ HoldOf(t) /\ HoldInv /\ WorkInv
      /\ made \in Nat /\ current \in Nat
      /\ p \in 1..(made - current) /\ x = current + p - 1 /\ x \in Tables
      /\ index[made] \in [1..(made - current) -> Nat] /\ size[x] \in Nat /\ c \in Nat
  BY <1>0, <1>1, AtChunk
<1>3. moved' = [moved EXCEPT ![x] = @ \cup {c}] /\ me' = [me EXCEPT ![t].pc = "unit"]
      /\ UNCHANGED <<made, current, size, coordinator, victim, jobVars, gcVars, finished>>
  BY <1>0 DEF migrateRange, Goto
<1>4. Only(t) /\ me'[t].pc = "unit" /\ Keeps(t) /\ me'[t].pos = p /\ me'[t].chunk = c
  BY <1>0, <1>3, Move DEF IndInv, Places, Helping, Serving, Joined, Loops
<1>5. c \in Chunks(x)
  BY <1>0, <1>1, <1>2 DEF HoldOf
<1>6. /\ moved' \in [Tables -> SUBSET Nat] /\ c \in moved'[x]
      /\ \A y \in Tables : moved[y] \subseteq moved'[y] /\ moved'[y] \subseteq Chunks(y)
      /\ \A y \in Tables : y > made => moved'[y] = moved[y]
  <2>1. moved \in [Tables -> SUBSET Nat] /\ \A y \in Tables : moved[y] \subseteq Chunks(y)
    BY DEF IndInv, TypeInv, TableTypes, FreshInv
  <2>2. \A y \in Tables : y > made => y # x
    BY <1>2, Numbers
  <2>3. \A y \in Tables : moved'[y] = IF y = x THEN moved[y] \cup {c} ELSE moved[y]
    BY <1>2, <1>3, <2>1
  <2>4. moved' \in [Tables -> SUBSET Nat]
    BY <1>2, <1>3, <2>1
  <2> QED
    BY <1>2, <1>5, <2>1, <2>2, <2>3, <2>4
<1>7. \A n : AllClaimed(n)' = AllClaimed(n)
  BY <1>3 DEF AllClaimed, jobVars
<1>8. \A y : Chunks(y)' = Chunks(y)
  BY <1>3 DEF Chunks
<1>9. Done(made)' = Done(made)
  BY <1>3 DEF Done, jobVars
<1>10. \A u \in Threads : HoldOf(u)'
  <2>1. ASSUME NEW u \in Threads, u # t PROVE HoldOf(u)'
    <3>1. HoldOf(u) /\ me'[u] = me[u] /\ me[u].pos \in Nat
      BY <1>2, <1>4, <2>1, Types, Fields DEF HoldInv, Only
    <3>2. me[u].pc = "unit" /\ me[u].job = made => me[u].chunk \in moved'[current + me[u].pos - 1]
      <4> SUFFICES ASSUME me[u].pc = "unit", me[u].job = made PROVE me[u].chunk \in moved'[current + me[u].pos - 1]
        OBVIOUS
      <4>1. me[u].pos \in 1..(made - current) /\ me[u].chunk \in moved[current + me[u].pos - 1]
        BY <1>2, <3>1 DEF HoldOf, Loops
      <4>2. current + me[u].pos - 1 \in Tables
        BY <1>2, <4>1, WorkMember
      <4> QED
        BY <1>6, <4>1, <4>2
    <3> QED
      BY <1>3, <1>7, <1>8, <1>9, <3>1, <3>2 DEF HoldOf, jobVars
  <2>2. HoldOf(t)'
    <3>1. AllClaimed(p) /\ p >= 1 /\ p <= made - current /\ c < index[made][p]
      BY <1>0, <1>1, <1>2 DEF HoldOf, Loops
    <3> QED
      BY <1>2, <1>3, <1>4, <1>5, <1>6, <1>7, <1>8, <3>1 DEF HoldOf, Loops, jobVars, Keeps
  <2> QED
    BY <2>1, <2>2
<1>11. Work(sources[made])' = Work(sources[made])
  BY <1>3 DEF Work, Chunks, jobVars
<1>12. \A u \in Threads : \A w : Taken(u, w)' = Taken(u, w)
  <2>1. \A u \in Threads : u # t => me'[u] = me[u]
    BY <1>4 DEF Only
  <2>2. \A w : Taken(t, w)' = Taken(t, w)
    BY <1>0, <1>1, <1>3, <1>4 DEF Taken, Holds, Keeps
  <2> QED
    BY <1>3, <2>1, <2>2 DEF Taken, Holds
<1>13. HoldInv'
  BY <1>2, <1>10, <1>11, <1>12 DEF HoldInv
<1>14. Pending' = Pending
  BY <1>3, <1>11, <1>12 DEF Pending, jobVars
<1>15. WorkInv'
  <2>1. ASSUME NEW w \in Work(sources[made]), w[2] < index[made][w[1]]
        PROVE  w[2] \in moved'[sources[made][w[1]]] \/ overflowed[made] \/ \E u \in Threads : Tried(u, w)'
    <3>1. sources[made][w[1]] = current + w[1] - 1 /\ sources[made][w[1]] \in Tables
      BY <1>2, WorkMember
    <3>2. CASE w[2] \in moved[sources[made][w[1]]] \/ overflowed[made]
      BY <1>6, <3>1, <3>2
    <3>3. CASE \E u \in Threads : Tried(u, w)
      <4>1. PICK u \in Threads : Tried(u, w)
        BY <3>3
      <4>2. CASE u = t
        <5>1. w[1] = p /\ w[2] = c
          BY <1>0, <4>1, <4>2 DEF Tried, Holds
        <5> QED
          BY <1>2, <1>6, <3>1, <5>1
      <4>3. CASE u # t
        BY <1>3, <1>4, <4>1, <4>3 DEF Tried, Holds, At, Only
      <4> QED
        BY <4>2, <4>3
    <3> QED
      BY <1>2, <2>1, <3>2, <3>3 DEF WorkInv
  <2>2. Marking' = Marking
    BY <1>1, <1>3, <1>4 DEF Marking, At, Only
  <2>3. AllMoved => AllMoved'
    <3> SUFFICES ASSUME AllMoved, NEW i \in 1..(made - current) PROVE moved'[current + i - 1] = Chunks(current + i - 1)
      BY <1>3, <1>8 DEF AllMoved
    <3>1. current + i - 1 \in Tables /\ moved[current + i - 1] = Chunks(current + i - 1)
      BY <1>2, WorkMember DEF AllMoved
    <3> QED
      BY <1>6, <3>1
  <2> QED
    BY <1>2, <1>3, <1>9, <1>11, <1>14, <2>1, <2>2, <2>3 DEF WorkInv, jobVars
<1>16. TypeInv'
  BY <1>3, <1>4, <1>6 DEF IndInv, TypeInv, TableTypes, JobTypes, jobVars, gcVars, Only
<1>17. CountInv'
  BY <1>1, <1>3, <1>4, CountInside DEF jobVars, Joined, Loops, Keeps
<1> QED
  BY <1>1, <1>2, <1>3, <1>4, <1>6, <1>13, <1>15, <1>16, <1>17, InsideStep
     DEF jobVars, Joined, Loops, Keeps

\* A thread is done with its chunk: nobody else has it, and one unit less is pending.
LEMMA DropChunk ==
    ASSUME IndInv, NEW t \in Threads, Only(t), me[t].pc \in {"range", "unit"}, me'[t].pc \notin {"range", "unit"},
           UNCHANGED <<made, current, sources, size, index>>
    PROVE  /\ \A u \in Threads : \A w : Taken(u, w)' <=> Taken(u, w) /\ u # t
           /\ Work(sources[made])' = Work(sources[made])
           /\ Cardinality(Pending) \in Nat /\ Cardinality(Pending) >= 1
           /\ Cardinality(Pending') = Cardinality(Pending) - 1
<1>0. PICK p, c : p = me[t].pos /\ c = me[t].chunk
  OBVIOUS
<1>1. /\ me[t].job = made /\ Open /\ HoldOf(t) /\ HoldInv /\ p \in 1..(made - current)
      /\ c \in Nat /\ c < index[made][p] /\ index[made][p] \in Nat
  BY <1>0, AtChunk DEF HoldOf
<1>2. <<p, c>> \in Work(sources[made])
  BY <1>0, <1>1, WorkMember DEF HoldOf
<1>3. Taken(t, <<p, c>>)
  BY <1>0, <1>1 DEF Taken, Holds
<1>4. \A u \in Threads : \A w : Taken(u, w)' <=> Taken(u, w) /\ u # t
  BY DEF Taken, Holds, Only
<1>5. Work(sources[made])' = Work(sources[made])
  BY DEF Work, Chunks
<1>6. <<p, c>> \in Pending
  BY <1>2, <1>3 DEF Pending
<1>7. Pending' = Pending \ {<<p, c>>}
  <2> SUFFICES ASSUME NEW w \in Work(sources[made])
               PROVE  (w[2] >= index[made][w[1]] \/ \E u \in Threads : Taken(u, w)')
                          <=> (w[2] >= index[made][w[1]] \/ \E u \in Threads : Taken(u, w)) /\ w # <<p, c>>
    BY <1>5 DEF Pending
  <2>1. w = <<w[1], w[2]>>
    BY <1>1, WorkMember
  <2>2. CASE w = <<p, c>>
    <3>1. \A u \in Threads : Taken(u, w) => u = t
      BY <1>1, <1>2, <1>3, <2>2 DEF HoldInv
    <3>2. ~(w[2] >= index[made][w[1]])
      BY <1>1, <2>2
    <3> QED
      BY <1>4, <2>2, <3>1, <3>2
  <2>3. CASE w # <<p, c>>
    <3>1. ~Taken(t, w)
      BY <1>0, <2>1, <2>3 DEF Taken, Holds
    <3> QED
      BY <1>4, <2>3, <3>1
  <2> QED
    BY <2>2, <2>3
<1>8. IsFiniteSet(Pending) /\ Cardinality(Pending) \in Nat
  BY <1>1, FiniteWork
<1>9. Cardinality(Pending) >= 1
  BY <1>6, <1>8, FS_EmptySet
<1>10. Cardinality(Pending') = Cardinality(Pending) - 1
  BY <1>6, <1>7, <1>8, FS_RemoveElement
<1> QED
  BY <1>4, <1>5, <1>8, <1>9, <1>10

\* What the others hold is not disturbed by a thread that is done with its chunk.
LEMMA HoldDropped ==
    ASSUME IndInv, NEW t \in Threads, Only(t), me[t].pc \in {"range", "unit"}, me'[t].pc \in {"next", "mark"},
           Keeps(t), me'[t].pos = me[t].pos,
           UNCHANGED <<made, current, sources, size, index, moved, state>>
    PROVE  HoldInv'
<1>1. HoldInv /\ HoldOf(t)
  BY AtChunk
<1>2. /\ \A n : AllClaimed(n)' = AllClaimed(n)
      /\ \A y : Chunks(y)' = Chunks(y)
      /\ Done(made)' = Done(made)
  BY DEF AllClaimed, Chunks, Done
<1>3. \A u \in Threads : HoldOf(u)'
  <2>1. ASSUME NEW u \in Threads, u # t PROVE HoldOf(u)'
    <3>1. HoldOf(u) /\ me'[u] = me[u]
      BY <1>1, <2>1 DEF HoldInv, Only
    <3> QED
      BY <1>2, <3>1 DEF HoldOf
  <2>2. HoldOf(t)'
    BY <1>1, <1>2 DEF HoldOf, Loops, Keeps
  <2> QED
    BY <2>1, <2>2
<1>4. /\ \A u \in Threads : \A w : Taken(u, w)' <=> Taken(u, w) /\ u # t
      /\ Work(sources[made])' = Work(sources[made])
  BY DropChunk
<1> QED
  BY <1>1, <1>3, <1>4 DEF HoldInv

\* The destination is too small: the job is marked.
LEMMA RangeOverflowStep ==
    ASSUME IndInv, NEW t \in Threads, RangeOverflow(t)
    PROVE  IndInv'
<1>1. me[t].pc = "range"
  BY DEF RangeOverflow, Goto, At
<1>2. me[t].job = made /\ made \in Jobs /\ Open /\ WorkInv
  BY <1>1, AtChunk
<1>3. /\ overflowed' = [overflowed EXCEPT ![made] = TRUE] /\ me' = [me EXCEPT ![t].pc = "mark"]
      /\ UNCHANGED <<made, current, tableVars, sources, index, state, unitsRemaining, prev, gcVars, finished>>
  BY <1>2 DEF RangeOverflow, Goto
<1>4. Only(t) /\ me'[t].pc = "mark" /\ Keeps(t) /\ me'[t].pos = me[t].pos
  BY <1>3, Move DEF IndInv, Places, Helping, Serving, Joined, Loops
<1>5. overflowed' \in [Jobs -> BOOLEAN] /\ overflowed'[made] /\ \A j \in Jobs : j # made => overflowed'[j] = overflowed[j]
  BY <1>2, <1>3 DEF IndInv, TypeInv, JobTypes
<1>6. HoldInv'
  BY <1>1, <1>3, <1>4, HoldDropped DEF tableVars
<1>7. WorkInv'
  <2>1. Cardinality(Pending) \in Nat /\ Cardinality(Pending') = Cardinality(Pending) - 1
    BY <1>1, <1>3, <1>4, DropChunk DEF tableVars
  <2>2. Marking'
    BY <1>2, <1>3, <1>4 DEF Marking, At, Keeps
  <2>3. unitsRemaining[made] \in Nat /\ unitsRemaining[made] >= Cardinality(Pending)
    BY <1>2, Types DEF WorkInv
  <2>4. unitsRemaining[made] >= Cardinality(Pending')
    BY <2>1, <2>3
  <2>5. made < MaxJobs
    BY DEF RangeOverflow
  <2> QED
    BY <1>3, <1>5, <2>2, <2>4, <2>5 DEF WorkInv
<1>8. TypeInv'
  BY <1>3, <1>4, <1>5 DEF IndInv, TypeInv, TableTypes, JobTypes, tableVars, gcVars, Only
<1>9. CountInv'
  BY <1>1, <1>3, <1>4, CountInside DEF Joined, Loops, Keeps
<1> QED
  BY <1>1, <1>3, <1>4, <1>5, <1>6, <1>7, <1>8, <1>9, InsideStep
     DEF tableVars, Joined, Loops, Keeps, IndInv, FreshInv, OpenInv

\* A chunk is counted; the last one to be counted has completed the job.
LEMMA UnitStep ==
    ASSUME IndInv, NEW t \in Threads, Unit(t)
    PROVE  IndInv'
<1>1. me[t].pc = "unit"
  BY DEF Unit, Goto, At
<1>2. me[t].job = made /\ made \in Jobs /\ Open /\ WorkInv /\ HoldInv /\ unitsRemaining[made] \in Nat
  BY <1>1, AtChunk, Types
<1>3. PICK to \in {"mark", "next"} :
          /\ to = "mark" <=> unitsRemaining[made] = 1
          /\ me' = [me EXCEPT ![t].pc = to]
  <2>1. CASE unitsRemaining[made] = 1
    BY <1>2, <2>1 DEF Unit, Goto
  <2>2. CASE unitsRemaining[made] # 1
    BY <1>2, <2>2 DEF Unit, Goto
  <2> QED
    BY <2>1, <2>2
<1>4. /\ unitsRemaining' = [unitsRemaining EXCEPT ![made] = @ - 1]
      /\ UNCHANGED <<made, current, tableVars, sources, index, overflowed, state, prev, gcVars, finished>>
  BY <1>2 DEF Unit
<1>5. Only(t) /\ me'[t].pc = to /\ Keeps(t) /\ me'[t].pos = me[t].pos
  BY <1>3, Move DEF IndInv, Places, Helping, Serving, Joined, Loops
<1>6. /\ \A u \in Threads : \A w : Taken(u, w)' <=> Taken(u, w) /\ u # t
      /\ Work(sources[made])' = Work(sources[made])
      /\ Cardinality(Pending) \in Nat /\ Cardinality(Pending) >= 1
      /\ Cardinality(Pending') = Cardinality(Pending) - 1
  BY <1>1, <1>3, <1>4, <1>5, DropChunk DEF tableVars
<1>7. unitsRemaining' \in [Jobs -> Nat] /\ unitsRemaining'[made] = unitsRemaining[made] - 1
  <2>1. unitsRemaining \in [Jobs -> Nat]
    BY DEF IndInv, TypeInv, JobTypes
  <2>2. unitsRemaining[made] - 1 \in Nat
    BY <1>2, <1>6 DEF WorkInv
  <2> QED
    BY <1>2, <1>4, <2>1, <2>2
<1>8. HoldInv'
  BY <1>1, <1>3, <1>4, <1>5, HoldDropped DEF tableVars
<1>9. WorkInv'
  <2>1. \A u \in Threads : \A w : Tried(u, w)' <=> Tried(u, w)
    BY <1>1, <1>3, <1>4, <1>5 DEF Tried, Holds, At, Only
  <2>2. AllMoved' = AllMoved /\ Done(made)' = Done(made)
    BY <1>4 DEF AllMoved, Chunks, Done, tableVars
  <2>3. to = "mark" => overflowed[made] \/ AllMoved
    <3> SUFFICES ASSUME to = "mark", ~overflowed[made], NEW i \in 1..(made - current),
                        NEW c \in Chunks(current + i - 1)
                 PROVE  c \in moved[current + i - 1]
      <4>1. \A i \in 1..(made - current) : moved[current + i - 1] \subseteq Chunks(current + i - 1)
        BY <1>2, WorkMember DEF IndInv, FreshInv
      <4> QED
        BY <4>1 DEF AllMoved
    <3>1. Cardinality(Pending') = 0
      BY <1>2, <1>3, <1>6 DEF WorkInv
    <3>2. Pending' = {}
      <4>1. IsFiniteSet(Pending)
        BY <1>2, FiniteWork
      <4>2. Pending' \subseteq Pending
        BY <1>4, <1>6 DEF Pending
      <4>3. IsFiniteSet(Pending')
        BY <4>1, <4>2, FS_Subset
      <4> QED
        BY <3>1, <4>3, FS_EmptySet
    <3>3. <<i, c>> \in Work(sources[made]) /\ sources[made][i] = current + i - 1
      BY <1>2, WorkMember
    <3>4. ~(c >= index[made][i])
      BY <1>4, <1>6, <3>2, <3>3 DEF Pending
    <3>5. \A u \in Threads : ~Tried(u, <<i, c>>)
      <4>1. \A u \in Threads : ~Taken(u, <<i, c>>)'
        BY <1>6, <3>2, <3>3 DEF Pending
      <4>2. ~Tried(t, <<i, c>>)
        BY <1>1 DEF Tried, At
      <4> QED
        BY <1>6, <4>1, <4>2 DEF Tried, Taken, At
    <3>6. c < index[made][i]
      <4>1. index[made][i] \in Nat
        BY <1>2 DEF IndInv, OpenInv
      <4>2. c \in Int
        BY DEF Chunks
      <4> QED
        BY <3>4, <4>1, <4>2
    <3> QED
      BY <1>2, <3>3, <3>5, <3>6 DEF WorkInv
  <2>4. Marking' <=> Marking \/ to = "mark"
    <3>1. to = "mark" => Marking'
      BY <1>2, <1>4, <1>5 DEF Marking, At, Keeps
    <3>2. Marking => Marking'
      BY <1>1, <1>4, <1>5 DEF Marking, At, Only
    <3>3. Marking' => Marking \/ to = "mark"
      BY <1>4, <1>5 DEF Marking, At, Only
    <3> QED
      BY <3>1, <3>2, <3>3
  <2>5. unitsRemaining'[made] >= Cardinality(Pending')
        /\ (~overflowed[made] => unitsRemaining'[made] = Cardinality(Pending'))
    BY <1>2, <1>6, <1>7 DEF WorkInv
  <2>6. unitsRemaining'[made] = 0 => to = "mark"
    BY <1>2, <1>3, <1>7
  <2>7. \A w \in Work(sources[made]) :
            w[2] < index[made][w[1]] =>
                w[2] \in moved[sources[made][w[1]]] \/ overflowed[made] \/ \E u \in Threads : Tried(u, w)'
    BY <1>2, <2>1 DEF WorkInv
  <2> QED
    BY <1>2, <1>4, <1>6, <2>2, <2>3, <2>4, <2>5, <2>6, <2>7 DEF WorkInv, tableVars
<1>10. TypeInv'
  BY <1>4, <1>5, <1>7 DEF IndInv, TypeInv, TableTypes, JobTypes, tableVars, gcVars, Only
<1>11. CountInv'
  BY <1>1, <1>3, <1>4, <1>5, CountInside DEF Joined, Loops, Keeps
<1> QED
  BY <1>1, <1>3, <1>4, <1>5, <1>8, <1>9, <1>10, <1>11, InsideStep
     DEF tableVars, Joined, Loops, Keeps, IndInv, FreshInv, OpenInv

\* state |= 1
LEMMA MarkStep ==
    ASSUME IndInv, NEW t \in Threads, Mark(t)
    PROVE  IndInv'
<1>1. me[t].pc = "mark" /\ me[t].job = made /\ made \in Jobs /\ Open
  BY InsideOpen DEF Mark, Goto, At, Joined
<1>2. /\ state' = [state EXCEPT ![made] = IF Done(made) THEN @ ELSE @ + 1]
      /\ me' = [me EXCEPT ![t].pc = "leave"]
      /\ UNCHANGED <<made, current, tableVars, sources, index, overflowed, unitsRemaining, prev, gcVars, finished>>
  BY <1>1 DEF Mark, Goto
<1>3. Only(t) /\ me'[t].pc = "leave" /\ Keeps(t) /\ me'[t].pos = me[t].pos
  BY <1>2, Move DEF IndInv, Places, Helping, Serving, Joined
<1>4. state \in [Jobs -> Nat] /\ state' \in [Jobs -> Nat]
      /\ state'[made] = (IF Done(made) THEN state[made] ELSE state[made] + 1)
      /\ \A j \in Jobs : j # made => state'[j] = state[j]
  BY <1>1, <1>2 DEF IndInv, TypeInv, JobTypes
<1>5. Done(made)'
  <2>1. state'[made] % 2 = 1
    BY <1>1, <1>4, Parity DEF Done
  <2> QED
    BY <1>2, <2>1 DEF Done
<1>6. HoldInv'
  <2>1. HoldInv
    BY <1>1 DEF IndInv
  <2>2. /\ \A n : AllClaimed(n)' = AllClaimed(n)
        /\ \A y : Chunks(y)' = Chunks(y)
        /\ Work(sources[made])' = Work(sources[made])
    BY <1>2 DEF AllClaimed, Chunks, Work, tableVars
  <2>3. \A u \in Threads : HoldOf(u)'
    <3>1. ASSUME NEW u \in Threads, u # t PROVE HoldOf(u)'
      <4>1. HoldOf(u) /\ me'[u] = me[u]
        BY <1>3, <2>1, <3>1 DEF HoldInv, Only
      <4> QED
        BY <1>2, <1>5, <2>2, <4>1 DEF HoldOf, tableVars
    <3>2. HoldOf(t)'
      BY <1>3, <1>5 DEF HoldOf, Loops
    <3> QED
      BY <3>1, <3>2
  <2>4. \A u \in Threads : \A w : Taken(u, w)' = Taken(u, w)
    BY <1>1, <1>2, <1>3 DEF Taken, Holds, Only
  <2> QED
    BY <2>1, <2>2, <2>3, <2>4 DEF HoldInv
<1>7. WorkInv'
  <2>1. WorkInv /\ Marking
    BY <1>1 DEF IndInv, Marking, At
  <2>2. overflowed[made] \/ AllMoved
    BY <2>1 DEF WorkInv
  <2>3. \A u \in Threads : \A w : Taken(u, w)' = Taken(u, w) /\ Tried(u, w)' = Tried(u, w)
    BY <1>1, <1>2, <1>3 DEF Taken, Tried, Holds, At, Only
  <2>4. Work(sources[made])' = Work(sources[made]) /\ AllMoved' = AllMoved
    BY <1>2 DEF Work, Chunks, AllMoved, tableVars
  <2>5. Pending' = Pending
    BY <1>2, <2>3, <2>4 DEF Pending
  <2> QED
    BY <1>2, <1>5, <2>1, <2>2, <2>3, <2>4, <2>5 DEF WorkInv, tableVars
<1>8. TypeInv'
  BY <1>2, <1>3, <1>4 DEF IndInv, TypeInv, TableTypes, JobTypes, tableVars, gcVars, Only
<1>9. CountInv'
  <2> SUFFICES ASSUME NEW j \in Jobs PROVE CountOf(j)'
    BY DEF CountInv
  <2>1. CountOf(j)
    BY Types
  <2>2. Participants(j)' = Participants(j) /\ Joining(j)' = Joining(j)
    BY <1>1, <1>3 DEF Participants, Inside, Joining, At, Only, Keeps
  <2>3. CASE j # made
    BY <1>2, <1>4, <2>1, <2>2, <2>3 DEF CountOf, Done
  <2>4. CASE j = made
    <3>1. state'[j] = 2 * Cardinality(Participants(j)) + 1
      BY <1>4, <2>1, <2>4, Finite DEF CountOf
    <3>2. finished[j] = 0
      BY <1>1, <2>4, InsideOpen DEF Joined
    <3>3. Done(j)'
      BY <1>2, <1>5, <2>4 DEF Done
    <3> QED
      BY <1>2, <2>1, <2>2, <3>1, <3>2, <3>3 DEF CountOf
  <2> QED
    BY <2>3, <2>4
<1> QED
  BY <1>1, <1>2, <1>3, <1>4, <1>6, <1>7, <1>8, <1>9, InsideStep
     DEF tableVars, Joined, Loops, Keeps, IndInv, FreshInv, OpenInv

\* A thread that leaves alone leaves a job that is done: either somebody would
\* still be about to mark it, or chunks would be left.
LEMMA LastIsDone ==
    ASSUME IndInv, NEW t \in Threads, me[t].pc = "leave", Participants(made) = {t}
    PROVE  Done(made)
<1> SUFFICES ASSUME ~Done(made) PROVE FALSE
  OBVIOUS
<1>1. me[t].job = made /\ made \in Jobs /\ Open
  BY InsideOpen DEF Joined
<1>2. HoldOf(t) /\ WorkInv /\ unitsRemaining[made] \in Nat
  BY <1>1, Types DEF IndInv, HoldInv
<1>3. \A u \in Threads : u # t => ~(me[u].job = made /\ me[u].pc \in {"range", "unit", "mark"})
  BY DEF Participants, Inside
<1>4. ~Marking
  BY <1>3 DEF Marking, At
<1>5. ~overflowed[made] /\ unitsRemaining[made] # 0
  BY <1>2, <1>4 DEF WorkInv
<1>6. Pending # {}
  BY <1>2, <1>5, FS_EmptySet DEF WorkInv
<1>7. PICK w \in Work(sources[made]) : w[2] >= index[made][w[1]] \/ \E u \in Threads : Taken(u, w)
  BY <1>6 DEF Pending
<1>8. w[2] >= index[made][w[1]]
  BY <1>3, <1>7 DEF Taken, Holds
<1>9. w[1] \in 1..(made - current) /\ w[2] \in Chunks(current + w[1] - 1) /\ size[current + w[1] - 1] \in Nat
  BY <1>1, WorkMember, Types
<1>10. AllClaimed(made - current + 1)
  BY <1>1, <1>2 DEF HoldOf
<1>11. index[made][w[1]] >= size[current + w[1] - 1]
  BY <1>9, <1>10, Types DEF AllClaimed
<1>12. index[made][w[1]] \in Nat
  BY <1>1, <1>9 DEF IndInv, OpenInv
<1> QED
  BY <1>8, <1>9, <1>11, <1>12 DEF Chunks

\* state -= 2: the last one to leave concludes the job, which is done then.
LEMMA LeaveStep ==
    ASSUME IndInv, NEW t \in Threads, PromptLeave(t)
    PROVE  IndInv'
<1>1. me[t].pc = "leave"
  BY DEF PromptLeave, Leave, At
<1>2. /\ me[t].job = made /\ made \in Jobs /\ Open /\ finished[made] = 0 /\ state[made] >= 2
      /\ t \in Participants(made) /\ coordinator[current] # NoJob /\ TypeInv
  BY <1>1, InsideOpen DEF Joined, IndInv
<1>3. /\ state' = [state EXCEPT ![made] = @ - 2]
      /\ UNCHANGED <<made, current, tableVars, sources, index, overflowed, unitsRemaining, prev, gcVars, finished>>
  BY <1>2 DEF PromptLeave, Leave
<1>4. /\ Only(t) /\ me'[t].root = me[t].root
      /\ \/ me'[t].pc = "participate" /\ state[made] > 3
         \/ me'[t].pc = "conclude" /\ me'[t].job = made /\ ~(state[made] > 3)
  <2>1. CASE state[made] > 3
    BY <1>2, <2>1, Back DEF PromptLeave, Leave
  <2>2. CASE ~(state[made] > 3)
    <3>1. me' = [me EXCEPT ![t].pc = "conclude"]
      BY <1>2, <2>2 DEF PromptLeave, Leave
    <3>2. "conclude" \in Places
      BY DEF Places, Helping, Serving, Concluding
    <3> QED
      BY <1>2, <2>2, <3>1, <3>2, Move DEF Keeps
  <2> QED
    BY <2>1, <2>2
<1>5. state \in [Jobs -> Nat] /\ state' \in [Jobs -> Nat] /\ state'[made] = state[made] - 2
      /\ \A j \in Jobs : j # made => state'[j] = state[j]
  BY <1>2, <1>3 DEF IndInv, TypeInv, JobTypes
<1>6. \A j \in Jobs : Done(j)' = Done(j)
  <2> SUFFICES ASSUME NEW j \in Jobs PROVE Done(j)' = Done(j)
    OBVIOUS
  <2>1. CASE j = made
    BY <1>5, <2>1, Parity DEF Done
  <2> QED
    BY <1>5, <2>1 DEF Done
<1>7. Participants(made)' = Participants(made) \ {t}
  <2>1. Participants(made)' = {u \in Threads : Inside(u, made)'}
    BY <1>3 DEF Participants, Inside
  <2>2. ~Inside(t, made)'
    BY <1>4 DEF Inside
  <2>3. \A u \in Threads : u # t => Inside(u, made)' = Inside(u, made)
    BY <1>3, <1>4 DEF Inside, Only
  <2> QED
    BY <2>1, <2>2, <2>3 DEF Participants
<1>8. CountInv'
  <2> SUFFICES ASSUME NEW j \in Jobs PROVE CountOf(j)'
    BY DEF CountInv
  <2>1. CountOf(j)
    BY Types
  <2>2. Joining(j)' = Joining(j)
    BY <1>1, <1>4 DEF Joining, At, Only
  <2>3. CASE j # made
    <3>1. Participants(j)' = Participants(j)
      BY <1>1, <1>2, <1>4, <2>3 DEF Participants, Inside, Only
    <3> QED
      BY <1>3, <1>5, <1>6, <2>1, <2>2, <2>3, <3>1 DEF CountOf
  <2>4. CASE j = made
    <3>1. Participants(j)' = Participants(j) \ {t} /\ t \in Participants(j)
      BY <1>2, <1>3, <1>7, <2>4 DEF Participants, Inside
    <3>2. Cardinality(Participants(j)') = Cardinality(Participants(j)) - 1
      BY <3>1, Finite, FS_RemoveElement
    <3>3. finished'[j] = 0 /\ UNCHANGED <<made, current>>
      BY <1>2, <1>3, <2>4
    <3>4. state[j] = 2 * Cardinality(Participants(j)) + (IF Done(j) THEN 1 ELSE 0) /\ state'[j] = state[j] - 2
      BY <1>5, <2>1, <2>4 DEF CountOf
    <3>5. state'[j] = 2 * Cardinality(Participants(j)') + (IF Done(j)' THEN 1 ELSE 0)
      BY <1>6, <2>4, <3>2, <3>4, Finite
    <3> QED
      BY <1>2, <2>4, <3>3, <3>5, Types DEF CountOf, Open
  <2> QED
    BY <2>3, <2>4
<1>9. HoldInv' /\ WorkInv'
  <2>1. HoldOf(t)'
    BY <1>4 DEF HoldOf, Loops
  <2>2. Done(made)' = Done(made)
    BY <1>2, <1>3, <1>6 DEF Done
  <2> QED
    BY <1>1, <1>2, <1>3, <1>4, <2>1, <2>2, WorkKept DEF tableVars
<1>10. TypeInv'
  BY <1>3, <1>4, <1>5 DEF IndInv, TypeInv, TableTypes, JobTypes, tableVars, gcVars, Only
<1>11. me'[t].pc = "conclude" => ConcludeInv'
  <2> SUFFICES ASSUME me'[t].pc = "conclude" PROVE ConcludeInv'
    OBVIOUS
  <2>1. ~(state[made] > 3) /\ me'[t].job = made
    BY <1>4
  <2>2. state[made] = 2 * Cardinality(Participants(made)) + (IF Done(made) THEN 1 ELSE 0)
        /\ Cardinality(Participants(made)) \in Nat
    BY <1>2, Finite, Types DEF CountOf
  <2>3. Cardinality(Participants(made)) = 1
    BY <1>2, <1>5, <2>1, <2>2
  <2>4. Participants(made) = {t}
    BY <1>2, <2>3, Finite, FS_Singleton
  <2>5. Done(made)
    BY <1>1, <2>4, LastIsDone
  <2>6. state'[made] = 1
    BY <1>5, <2>2, <2>3, <2>5
  <2>7. \A u \in Threads : u # t => me'[u].pc \notin Concluding
    BY <1>1, <1>4, NobodyConcludes DEF Only, Joined
  <2>8. Joining(made)' = {}
    <3>1. state[made] <= 3
      BY <1>2, <1>5, <2>1
    <3>2. \A u \in Threads : ~(At(u, "join") /\ me[u].job = made)
      BY <1>2, <3>1 DEF PromptLeave, Prompt
    <3> QED
      BY <1>3, <1>4, <3>2 DEF Joining, At, Only
  <2>9. coordinator[current] = made
    <3>1. ~Publishing
      BY <1>1, NobodyConcludes DEF Publishing, Joined, Concluding
    <3> QED
      BY <1>2, <3>1, Types DEF IndInv, CoordinatorInv
  <2>10. ConcludeOf(t)'
    BY <1>2, <1>3, <2>1, <2>6, <2>8, <2>9 DEF ConcludeOf, Open, tableVars
  <2> QED
    BY <2>7, <2>10 DEF ConcludeInv, ConcludeOf, Concluding
<1> QED
  BY <1>1, <1>2, <1>3, <1>4, <1>5, <1>8, <1>9, <1>10, <1>11, InsideStep
     DEF tableVars, Joined, Loops, IndInv, FreshInv, OpenInv

-----------------------------------------------------------------------------
(* A job begins: the first of a table, or the one that follows an overflow *)

\* The new job made' fills a table of n chunks from all tables from current on.
Inherited == [i \in 1..(made + 1 - current) |-> current + i - 1]
BeginTables(n) ==
    /\ made' = made + 1 /\ made' \in Jobs /\ n \in Nat \ {0}
    /\ NewJob(current, Inherited, n) /\ UNCHANGED <<current, moved, victim, gcVars>>
    /\ coordinator[current] # Ended

\* The jobs before it have handed over their sources and are finished.
BeginJobs ==
    /\ UNCHANGED <<overflowed, state>>
    /\ sources' \in [Jobs -> Seq(Tables \cup {NoTable})] /\ sources'[made'] = Inherited
    /\ \A j \in Jobs : j <= current => sources'[j] = sources[j]
    /\ \A j \in Jobs : current < j /\ j < made' => \A i \in DOMAIN sources'[j] : sources'[j][i] = NoTable
    /\ prev' \in [Jobs -> Jobs \cup {NoJob}] /\ \A j \in Jobs : j # made' => prev'[j] = prev[j]
    /\ prev'[made'] = NoJob \/ (current < prev'[made'] /\ prev'[made'] <= made')
    /\ finished' \in [Jobs -> Nat] /\ \A j \in Jobs : j < made' => finished'[j] = 1
    /\ \A j \in Jobs : j >= made' => finished'[j] = finished[j]
    /\ Open => state[made] = 1 /\ Joining(made) = {}

\* The thread t that made it goes on to participate, and nobody concludes a job.
BeginThread(t) ==
    /\ Only(t) /\ me[t].pc \in {"start", "conclude"} /\ me'[t].pc = "participate" /\ me'[t].root = current
    /\ \A u \in Threads : u # t => me[u].pc \notin Concluding

\* The tables after such a step.
LEMMA BeginFacts ==
    ASSUME IndInv, NEW n, BeginTables(n)
    PROVE  /\ made' = made + 1 /\ made' \in Jobs /\ made' \in Tables /\ made' \in Nat /\ made' > current
           /\ current' = current /\ current # made' /\ current \in Tables /\ current \in Nat /\ made \in Nat
           /\ size'[made'] = n /\ n \in Nat /\ n > 0 /\ \A x \in Tables : x # made' => size'[x] = size[x]
           /\ size' \in [Tables -> Nat] /\ coordinator' \in [Tables -> Jobs \cup {NoJob, Ended}]
           /\ coordinator'[current] = made' /\ \A x \in Tables : x # current => coordinator'[x] = coordinator[x]
           /\ DOMAIN index' = Jobs /\ index'[made'] = [i \in DOMAIN Inherited |-> 0]
           /\ unitsRemaining' = [unitsRemaining EXCEPT ![made'] = Units(Inherited)]
           /\ \A x \in Tables : x # made' => Chunks(x)' = Chunks(x)
<1>1. /\ made' = made + 1 /\ made' \in Jobs /\ n \in Nat \ {0} /\ current' = current
      /\ size' = [size EXCEPT ![made'] = n] /\ coordinator' = [coordinator EXCEPT ![current] = made']
      /\ index' = [index EXCEPT ![made'] = [i \in DOMAIN Inherited |-> 0]]
      /\ unitsRemaining' = [unitsRemaining EXCEPT ![made'] = Units(Inherited)]
  BY DEF BeginTables, NewJob
<1>2. /\ size \in [Tables -> Nat] /\ coordinator \in [Tables -> Jobs \cup {NoJob, Ended}] /\ DOMAIN index = Jobs
      /\ made \in Nat /\ current \in Nat /\ current <= made /\ current \in Tables
  BY Types DEF IndInv, TypeInv, TableTypes, JobTypes
<1>3. made' \in Tables /\ made' \in Nat /\ made' > current /\ current # made'
  BY <1>1, <1>2, Numbers
<1>4. /\ size'[made'] = n /\ n \in Nat /\ n > 0 /\ \A x \in Tables : x # made' => size'[x] = size[x]
      /\ size' \in [Tables -> Nat]
  BY <1>1, <1>2, <1>3
<1>5. coordinator' \in [Tables -> Jobs \cup {NoJob, Ended}] /\ coordinator'[current] = made'
      /\ \A x \in Tables : x # current => coordinator'[x] = coordinator[x]
  BY <1>1, <1>2
<1>6. DOMAIN index' = Jobs /\ index'[made'] = [i \in DOMAIN Inherited |-> 0]
  BY <1>1, <1>2
<1>7. \A x \in Tables : x # made' => Chunks(x)' = Chunks(x)
  BY <1>4 DEF Chunks
<1> QED
  BY <1>1, <1>2, <1>3, <1>4, <1>5, <1>6, <1>7

\* What the new job has to do: a finite number of chunks, one at least.
LEMMA InheritedWork ==
    ASSUME IndInv, NEW n, BeginTables(n)
    PROVE  /\ DOMAIN Inherited = 1..(made' - current)
           /\ \A i \in 1..(made' - current) : /\ Inherited[i] = current + i - 1 /\ Inherited[i] \in Tables
                                              /\ Inherited[i] # made'
           /\ IsFiniteSet(Work(Inherited)) /\ Units(Inherited) \in Nat /\ Units(Inherited) > 0
<1>1. /\ made' = made + 1 /\ made' \in Nat /\ made \in Nat /\ current \in Nat /\ current <= made /\ current \in Tables
      /\ made \in 0..MaxJobs /\ \A x \in Tables : x # made' => Chunks(x)' = Chunks(x)
  BY BeginFacts, Types
<1>2. DOMAIN Inherited = 1..(made' - current)
  BY <1>1 DEF Inherited
<1>3. \A i \in 1..(made' - current) : Inherited[i] = current + i - 1 /\ Inherited[i] \in Tables /\ Inherited[i] # made'
  BY <1>1, Numbers DEF Inherited
<1>4. \A i \in 1..(made' - current) : IsFiniteSet({i} \X Chunks(Inherited[i]))
  <2> SUFFICES ASSUME NEW i \in 1..(made' - current) PROVE IsFiniteSet({i} \X Chunks(Inherited[i]))
    OBVIOUS
  <2>1. size[Inherited[i]] \in Nat
    BY <1>3, Types
  <2>2. 0 \in Int /\ size[Inherited[i]] - 1 \in Int
    BY <2>1
  <2>3. IsFiniteSet(Chunks(Inherited[i]))
    BY <2>2, FS_Interval DEF Chunks
  <2>4. IsFiniteSet({i})
    BY FS_Singleton
  <2> QED
    BY <2>3, <2>4, FS_Product
<1> DEFINE I == 1..(made' - current)
           Part(i) == {i} \X Chunks(Inherited[i])
           Parts == {Part(i) : i \in I}
           f == [i \in I |-> Part(i)]
<1>5. IsFiniteSet(I)
  BY <1>1, FS_Interval
<1>6. f \in Surjection(I, Parts)
  BY DEF Surjection
<1>7. \A T \in Parts : IsFiniteSet(T)
  BY <1>4
<1>8. Work(Inherited) = UNION Parts
  BY <1>2 DEF Work
<1>9. Part(1) \in Parts
  BY <1>1
<1> HIDE DEF I, Parts, f
<1>10. IsFiniteSet(Parts)
  BY <1>5, <1>6, FS_Surjection
<1>11. IsFiniteSet(Work(Inherited))
  BY <1>7, <1>8, <1>10, FS_UNION
<1>12. <<1, 0>> \in Work(Inherited)
  <2>1. 1 \in 1..(made' - current)
    BY <1>1
  <2>2. Inherited[1] = current
    BY <1>1, <1>3, <2>1
  <2>3. size[current] > 0 /\ size[current] \in Nat
    BY <1>1, Types DEF IndInv, FreshInv
  <2>4. 0 \in Chunks(Inherited[1])
    BY <2>2, <2>3 DEF Chunks
  <2>5. <<1, 0>> \in Part(1)
    BY <2>4
  <2> QED
    BY <1>8, <1>9, <2>5
<1>13. Units(Inherited) \in Nat /\ Units(Inherited) # 0
  BY <1>11, <1>12, FS_CardinalityType, FS_EmptySet DEF Units
<1> QED
  BY <1>1, <1>2, <1>3, <1>11, <1>13

\* The parts of the invariant after such a step.
LEMMA BeginTypes ==
    ASSUME IndInv, NEW t \in Threads, NEW n, BeginTables(n), BeginJobs, BeginThread(t)
    PROVE  TypeInv'
<1>1. /\ made' \in Jobs /\ made' \in Nat /\ made' > current /\ current' = current /\ current \in Nat
      /\ size' \in [Tables -> Nat] /\ coordinator' \in [Tables -> Jobs \cup {NoJob, Ended}]
      /\ DOMAIN index' = Jobs /\ unitsRemaining' = [unitsRemaining EXCEPT ![made'] = Units(Inherited)]
  BY BeginFacts
<1>2. unitsRemaining' \in [Jobs -> Nat]
  BY <1>1, InheritedWork DEF IndInv, TypeInv, JobTypes
<1>3. made' \in 0..MaxJobs /\ current' \in 0..made'
  BY <1>1, Numbers
<1>4. UNCHANGED <<moved, victim, retired, deleted>>
  BY DEF BeginTables, gcVars
<1>5. TableTypes'
  BY <1>1, <1>3, <1>4 DEF IndInv, TypeInv, TableTypes
<1>6. JobTypes'
  BY <1>1, <1>2 DEF IndInv, TypeInv, JobTypes, BeginJobs
<1> QED
  BY <1>5, <1>6 DEF TypeInv, BeginThread, Only

\* Nobody works on the new job yet.
LEMMA BeginOthers ==
    ASSUME IndInv, NEW t \in Threads, NEW n, BeginTables(n), BeginThread(t), NEW u \in Threads
    PROVE  /\ ~(me'[u].job = made' /\ me'[u].pc \in Serving)
           /\ u # t => me'[u] = me[u] /\ (me[u].pc \in Serving => me[u].job \in 1..made /\ me[u].job # made')
           /\ me'[u].pc \notin Concluding
<1>1. made' = made + 1 /\ made \in Nat
  BY BeginFacts
<1>2. CASE u = t
  BY <1>2 DEF BeginThread, Serving, Joined, Loops, Concluding
<1>3. CASE u # t
  <2>1. me'[u] = me[u] /\ me[u].pc \notin Concluding /\ RootOf(u)
    BY <1>3 DEF BeginThread, Only, IndInv, RootInv
  <2>2. me[u].pc \in Serving => me[u].job \in 1..made /\ me[u].job # made'
    BY <1>1, <2>1 DEF RootOf
  <2> QED
    BY <1>3, <2>1, <2>2
<1> QED
  BY <1>2, <1>3

\* The others stay at their tables.
LEMMA BeginRoots ==
    ASSUME IndInv, NEW t \in Threads, NEW n, BeginTables(n), BeginThread(t)
    PROVE  RootInv' /\ CoordinatorInv'
<1>1. /\ made' \in Jobs /\ made' \in Nat /\ made' > current /\ current' = current /\ current \in Nat /\ current \in Tables
      /\ coordinator'[current] = made' /\ \A x \in Tables : x # current => coordinator'[x] = coordinator[x]
      /\ made' = made + 1 /\ made \in Nat
  BY BeginFacts
<1>2. made' # NoJob /\ made' # Ended
  BY <1>1, Numbers
<1>3. RootOf(t)'
  <2>1. me'[t].pc = "participate" /\ me'[t].root = current
    BY DEF BeginThread
  <2>2. me'[t].pc \notin Serving
    BY <2>1 DEF Serving, Joined, Loops, Concluding
  <2> QED
    BY <1>1, <1>2, <2>1, <2>2 DEF RootOf
<1>4. ASSUME NEW u \in Threads, u # t PROVE RootOf(u)'
  <2>1. /\ RootOf(u) /\ me'[u] = me[u] /\ coordinator[current] # Ended
        /\ me[u].pc \in Serving => me[u].job \in 1..made /\ me[u].job # made'
    BY <1>4, BeginOthers DEF IndInv, RootInv, BeginTables
  <2>2. me[u].pc # "idle" => me[u].root \in Tables /\ (me[u].root = current \/ coordinator'[me[u].root] = Ended)
    BY <1>1, <2>1 DEF RootOf
  <2>3. me[u].pc \in Helping => coordinator'[me[u].root] # NoJob
    <3>1. me[u].pc \in Helping => me[u].pc # "idle"
      BY DEF Helping, Serving, Joined, Loops, Concluding
    <3> QED
      BY <1>1, <1>2, <2>2, <3>1, Numbers
  <2>4. me[u].pc \in Serving => me[u].job \in 1..made' /\ me[u].job # made'
    BY <1>1, <2>1
  <2> QED
    BY <1>1, <2>1, <2>2, <2>3, <2>4 DEF RootOf
<1>5. CoordinatorInv'
  <2>1. Helped'
    BY <1>1 DEF Helped, Helping, BeginThread
  <2>2. Open'
    BY <1>1 DEF Open
  <2>3. CoordinatorInv
    BY DEF IndInv
  <2>4. \A x \in Tables : x < current => coordinator'[x] \in {NoJob, Ended}
    BY <1>1, <2>3, Numbers DEF CoordinatorInv
  <2>5. \A x \in Tables : x > current => coordinator'[x] = NoJob
    BY <1>1, <2>3, Numbers DEF CoordinatorInv
  <2> QED
    BY <1>1, <1>2, <2>1, <2>2, <2>4, <2>5 DEF CoordinatorInv
<1> QED
  BY <1>3, <1>4, <1>5 DEF RootInv

\* Later jobs and tables are untouched.
LEMMA BeginFresh ==
    ASSUME IndInv, NEW n, BeginTables(n), BeginJobs
    PROVE  FreshInv'
<1>1. /\ made' = made + 1 /\ made \in Nat /\ made' \in Nat /\ made' \in Tables /\ size'[made'] = n /\ n > 0
      /\ \A x \in Tables : x # made' => size'[x] = size[x] /\ Chunks(x)' = Chunks(x)
      /\ moved' = moved /\ FreshInv
  BY BeginFacts DEF BeginTables, IndInv
<1>2. ASSUME NEW x \in Tables PROVE x <= made' => size'[x] > 0
  <2>1. x \in Nat
    BY Numbers
  <2>2. CASE x = made'
    BY <1>1, <2>2
  <2>3. CASE x # made'
    BY <1>1, <2>1, <2>3 DEF FreshInv
  <2> QED
    BY <2>2, <2>3
<1>3. ASSUME NEW x \in Tables PROVE moved'[x] \subseteq Chunks(x)' /\ (x > made' => moved'[x] = {})
  <2>1. x \in Nat
    BY Numbers
  <2>2. moved[x] \subseteq Chunks(x) /\ (x > made => moved[x] = {})
    BY <1>1 DEF FreshInv
  <2>3. x >= made' => moved[x] = {}
    BY <1>1, <2>1, <2>2
  <2>4. CASE x = made'
    BY <1>1, <2>1, <2>3, <2>4
  <2>5. CASE x # made'
    BY <1>1, <2>1, <2>2, <2>3, <2>5
  <2> QED
    BY <2>4, <2>5
<1>4. ASSUME NEW j \in Jobs, j > made'
      PROVE  state'[j] = 0 /\ finished'[j] = 0 /\ ~overflowed'[j] /\ prev'[j] = NoJob
  <2>1. j \in Nat /\ j > made /\ j # made' /\ j >= made'
    BY <1>1, <1>4, Numbers
  <2>2. state'[j] = state[j] /\ finished'[j] = finished[j] /\ overflowed'[j] = overflowed[j] /\ prev'[j] = prev[j]
    BY <2>1 DEF BeginJobs
  <2> QED
    BY <1>1, <2>1, <2>2 DEF FreshInv
<1> QED
  BY <1>2, <1>3, <1>4 DEF FreshInv

\* All jobs before the new one are finished, and it has no participants.
LEMMA BeginCount ==
    ASSUME IndInv, NEW t \in Threads, NEW n, BeginTables(n), BeginJobs, BeginThread(t)
    PROVE  CountInv'
<1> SUFFICES ASSUME NEW j \in Jobs PROVE CountOf(j)'
  BY DEF CountInv
<1>1. made' = made + 1 /\ made \in Nat /\ current' = current /\ current \in Nat /\ current < made'
  BY BeginFacts
<1>2. CountOf(j) /\ j \in Nat /\ finished[j] \in Nat
  BY Types, Numbers
<1>3. Participants(j)' = Participants(j)
  <2>1. ~Inside(t, j) /\ ~Inside(t, j)'
    BY DEF Inside, BeginThread
  <2>2. \A u \in Threads : u # t => Inside(u, j)' = Inside(u, j)
    BY DEF Inside, BeginThread, Only
  <2> QED
    BY <2>1, <2>2 DEF Participants
<1>4. Joining(j)' \subseteq Joining(j)
  BY DEF Joining, At, BeginThread, Only
<1>5. state'[j] = state[j] /\ Done(j)' = Done(j)
  BY DEF Done, BeginJobs
<1>6. CASE j <= made
  <2>1. finished'[j] = 1
    BY <1>1, <1>2, <1>6 DEF BeginJobs
  <2>2. state[j] = 1 /\ Joining(j) = {}
    <3>1. CASE finished[j] > 0
      BY <1>2, <3>1 DEF CountOf
    <3>2. CASE finished[j] = 0
      BY <1>6, <3>2, UnfinishedOpen DEF BeginJobs
    <3> QED
      BY <1>2, <3>1, <3>2
  <2> QED
    BY <1>2, <1>3, <1>4, <1>5, <2>1, <2>2 DEF CountOf
<1>7. CASE j > made
  <2>1. finished'[j] = 0
    BY <1>1, <1>2, <1>7 DEF BeginJobs, IndInv, FreshInv
  <2>2. ~(j <= current') /\ ~(j < made')
    BY <1>1, <1>2, <1>7
  <2> QED
    BY <1>2, <1>3, <1>5, <2>1, <2>2 DEF CountOf
<1> QED
  BY <1>1, <1>2, <1>6, <1>7

\* The new job is open, with the sources it inherits.
LEMMA BeginOpen ==
    ASSUME IndInv, NEW n, BeginTables(n), BeginJobs
    PROVE  Open' /\ OpenInv'
<1>1. /\ made' = made + 1 /\ made \in Nat /\ made' \in Nat /\ current' = current /\ current \in Nat /\ current < made'
      /\ index'[made'] = [i \in DOMAIN Inherited |-> 0]
      /\ \A x \in Tables : x # current => coordinator'[x] = coordinator[x]
  BY BeginFacts
<1>2. sources'[made'] = [i \in 1..(made' - current) |-> current + i - 1]
  BY <1>1 DEF BeginJobs, Inherited
<1>3. \A j \in Jobs : current < j /\ j <= made' => prev'[j] = NoJob \/ (current < prev'[j] /\ prev'[j] <= made')
  <2> SUFFICES ASSUME NEW j \in Jobs, current < j, j <= made'
               PROVE  prev'[j] = NoJob \/ (current < prev'[j] /\ prev'[j] <= made')
    OBVIOUS
  <2>1. CASE j = made'
    BY <2>1 DEF BeginJobs
  <2>2. CASE j # made'
    <3>1. Open /\ j <= made /\ j \in Nat
      BY <1>1, <2>2, Numbers DEF Open
    <3>2. prev[j] = NoJob \/ (current < prev[j] /\ prev[j] <= made)
      BY <3>1 DEF IndInv, OpenInv, Span
    <3>3. prev[j] \in Jobs \cup {NoJob} /\ prev'[j] = prev[j]
      BY <2>2 DEF IndInv, TypeInv, JobTypes, BeginJobs
    <3>4. prev[j] \in Nat
      BY <3>3, Numbers
    <3> QED
      BY <1>1, <3>2, <3>3, <3>4
  <2> QED
    BY <2>1, <2>2
<1>4. \A z \in Tables : current < z /\ z < made' => coordinator'[z] = NoJob
  BY <1>1, Numbers DEF IndInv, CoordinatorInv
<1>5. \A j \in Jobs : current < j /\ j < made' => \A i \in DOMAIN sources'[j] : sources'[j][i] = NoTable
  BY DEF BeginJobs
<1>6. Span(current, made)'
  BY <1>1, <1>2, <1>3, <1>4, <1>5 DEF Span
<1>7. index'[made'] \in [1..(made' - current) -> Nat]
  BY <1>1, InheritedWork
<1> QED
  BY <1>1, <1>6, <1>7 DEF Open, OpenInv

\* All its chunks are to be moved.
LEMMA BeginWork ==
    ASSUME IndInv, NEW t \in Threads, NEW n, BeginTables(n), BeginJobs, BeginThread(t)
    PROVE  HoldInv' /\ WorkInv'
<1>1. /\ made' \in Jobs /\ made' = made + 1 /\ made \in Nat /\ made' \in Nat /\ current' = current
      /\ index'[made'] = [i \in DOMAIN Inherited |-> 0]
      /\ unitsRemaining' = [unitsRemaining EXCEPT ![made'] = Units(Inherited)]
      /\ \A x \in Tables : x # made' => Chunks(x)' = Chunks(x)
  BY BeginFacts
<1>2. \A u \in Threads : ~(me'[u].job = made' /\ me'[u].pc \in Serving)
  BY BeginOthers
<1>3. \A u \in Threads : \A w : ~Taken(u, w)' /\ ~Tried(u, w)'
  BY <1>2 DEF Taken, Tried, Holds, At, Serving, Joined, Loops
<1>4. ~Marking'
  BY <1>2 DEF Marking, At, Serving, Joined
<1>5. \A u \in Threads : HoldOf(u)'
  BY <1>2 DEF HoldOf, Serving, Joined, Loops
<1>6. HoldInv'
  BY <1>3, <1>5 DEF HoldInv
<1>7. sources'[made'] = Inherited
  BY DEF BeginJobs
<1>8. Work(sources[made])' = Work(Inherited)
  <2>1. \A i \in DOMAIN Inherited : 0..(size'[Inherited[i]] - 1) = 0..(size[Inherited[i]] - 1)
    BY <1>1, InheritedWork DEF Chunks
  <2> QED
    BY <1>7, <2>1 DEF Work, Chunks
<1>9. \A w \in Work(Inherited) : w[1] \in DOMAIN Inherited /\ w[2] \in Nat
  BY DEF Work, Chunks
<1>10. \A w \in Work(Inherited) : index'[made'][w[1]] = 0 /\ w[2] >= 0 /\ ~(w[2] < 0)
  BY <1>1, <1>9
<1>11. Pending' = Work(Inherited)
  BY <1>8, <1>10 DEF Pending
<1>12. unitsRemaining'[made'] = Units(Inherited)
  BY <1>1 DEF IndInv, TypeInv, JobTypes
<1>13. state'[made'] = 0 /\ ~overflowed'[made']
  BY <1>1 DEF BeginJobs, IndInv, FreshInv
<1>14. ~Done(made)'
  BY <1>13 DEF Done
<1>15. Units(Inherited) \in Nat /\ Units(Inherited) > 0
  BY InheritedWork
<1>16. Cardinality(Pending') = Units(Inherited)
  BY <1>11 DEF Units
<1>17. WorkInv'
  BY <1>4, <1>8, <1>10, <1>12, <1>13, <1>14, <1>15, <1>16 DEF WorkInv
<1> QED
  BY <1>6, <1>17

\* Former tables are as they were: their jobs are not younger than current.
LEMMA BeginFormer ==
    ASSUME IndInv, NEW t \in Threads, NEW n, BeginTables(n), BeginJobs, BeginThread(t)
    PROVE  RootsInv' /\ RetireInv' /\ DeleteInv'
<1>1. /\ made' = made + 1 /\ made \in Nat /\ made' \in Nat /\ current' = current /\ current \in Nat /\ current <= made
      /\ coordinator'[current] = made' /\ \A x \in Tables : x # current => coordinator'[x] = coordinator[x]
      /\ \A x \in Tables : x # made' => Chunks(x)' = Chunks(x)
      /\ UNCHANGED <<moved, victim, retired, deleted>>
  BY BeginFacts, Types DEF BeginTables, gcVars
<1>2. \A x \in Tables : Root(x)' = Root(x)
  BY <1>1, Numbers DEF Root
<1>3. RootsInv
  BY DEF IndInv
<1>4. PublishedComplete'
  <2> SUFFICES ASSUME NEW x \in 0..made', x < current PROVE moved'[x] = Chunks(x)'
    BY <1>1 DEF PublishedComplete
  <2>1. x \in 0..made /\ x \in Tables /\ x # made'
    BY <1>1, Types, Numbers
  <2> QED
    BY <1>1, <1>3, <2>1 DEF RootsInv, PublishedComplete
<1>5. ASSUME NEW x \in Tables, NEW v \in Jobs, v <= current, Span(x, v) PROVE Span(x, v)'
  <2>1. x \in Nat /\ v \in Nat
    BY Numbers
  <2>2. \A j \in Jobs : j <= v => sources'[j] = sources[j] /\ prev'[j] = prev[j]
    <3> SUFFICES ASSUME NEW j \in Jobs, j <= v PROVE sources'[j] = sources[j] /\ prev'[j] = prev[j]
      OBVIOUS
    <3>1. j \in Nat /\ j <= current /\ j # made'
      BY <1>1, <1>5, <2>1, Numbers
    <3> QED
      BY <3>1 DEF BeginJobs
  <2>3. \A z \in Tables : z < v => coordinator'[z] = coordinator[z]
    BY <1>1, <1>5, <2>1, Numbers
  <2>4. \A j \in Jobs : j < v => j <= v
    BY <2>1, Numbers
  <2>5. v <= v
    BY <2>1
  <2> QED
    BY <1>5, <2>2, <2>3, <2>4, <2>5 DEF Span
<1>6. RootsInv'
  <2>1. \A x \in Tables : Root(x) => x < victim[x] /\ victim[x] <= current /\ Span(x, victim[x])
    BY <1>3 DEF RootsInv
  <2>2. \A x \in Tables : Root(x) => victim[x] \in Jobs
    BY <2>1, Types, Numbers
  <2>3. \A x \in Tables : Root(x)' => x < victim'[x] /\ victim'[x] <= current' /\ Span(x, victim[x])'
    <3> SUFFICES ASSUME NEW x \in Tables, Root(x)
                 PROVE  x < victim'[x] /\ victim'[x] <= current' /\ Span(x, victim[x])'
      BY <1>2
    <3>1. PICK v : v = victim[x]
      OBVIOUS
    <3>2. x < v /\ v <= current /\ Span(x, v) /\ v \in Jobs /\ victim'[x] = v
      BY <1>1, <2>1, <2>2, <3>1
    <3>3. Span(x, v)'
      BY <1>5, <3>2
    <3> QED
      BY <1>1, <3>2, <3>3 DEF Span
  <2>4. \A z \in Tables : z < current => \E x \in Tables : x <= z /\ Root(x) /\ z < victim[x]
    BY <1>3 DEF RootsInv
  <2> QED
    BY <1>1, <1>2, <1>4, <2>3, <2>4 DEF RootsInv
<1>7. RetireInv'
  <2>1. RetireInv /\ \A u \in Threads : me'[u].pc = "retire" <=> me[u].pc = "retire"
    BY DEF IndInv, BeginThread, Only
  <2>2. \A u \in Threads : me'[u].pc = "retire" => me'[u] = me[u]
    BY DEF BeginThread, Only
  <2>3. \A u \in Threads : RetireOf(u)'
    BY <1>1, <1>2, <2>1, <2>2 DEF RetireInv, RetireOf, At
  <2>4. \A x \in Tables : Retiring(x) => Retiring(x)'
    BY <2>1, <2>2 DEF Retiring, At
  <2> QED
    BY <1>1, <1>2, <2>1, <2>2, <2>3, <2>4 DEF RetireInv, At
<1>8. DeleteInv'
  BY <1>1, <1>2 DEF IndInv, DeleteInv
<1> QED
  BY <1>6, <1>7, <1>8

\* All of them together.
LEMMA BeginStep ==
    ASSUME IndInv, NEW t \in Threads, NEW n, BeginTables(n), BeginJobs, BeginThread(t)
    PROVE  IndInv'
<1>1. TypeInv' /\ RootInv' /\ CoordinatorInv' /\ FreshInv' /\ CountInv' /\ OpenInv'
  BY BeginTypes, BeginRoots, BeginFresh, BeginCount, BeginOpen
<1>2. ConcludeInv'
  BY BeginOthers DEF ConcludeInv, ConcludeOf, Concluding
<1>3. HoldInv' /\ WorkInv' /\ RootsInv' /\ RetireInv' /\ DeleteInv'
  BY BeginWork, BeginFormer
<1> QED
  BY <1>1, <1>2, <1>3 DEF IndInv

\* migrationStart: nobody has a job for the map's table yet.
LEMMA StartStep ==
    ASSUME IndInv, NEW t \in Threads, migrationStart(t)
    PROVE  IndInv'
<1>1. /\ me[t].pc = "start" /\ me' = [me EXCEPT ![t].pc = "participate"] /\ coordinator[me[t].root] = NoJob
      /\ made < MaxJobs /\ TypeInv
  BY DEF migrationStart, Goto, At, IndInv
<1>2. me[t].root = current
  BY <1>1, Numbers DEF IndInv, RootInv, RootOf
<1>3. made = current /\ ~Open /\ current \in Tables /\ made \in Nat /\ current \in Nat /\ current <= made
  BY <1>1, <1>2, Types DEF IndInv, CoordinatorInv, Open
<1>4. PICK n \in Sizes \cup {2 * size[current]} : NewJob(current, <<current>>, n)
  BY <1>2 DEF migrationStart
<1>5. /\ sources' = [sources EXCEPT ![made + 1] = <<current>>]
      /\ UNCHANGED <<current, moved, victim, overflowed, state, prev, gcVars, finished>>
  BY <1>2 DEF migrationStart
<1>6. Inherited = <<current>>
  BY <1>3 DEF Inherited
<1>7. made' = made + 1 /\ made' \in Jobs
  BY <1>1, <1>3, <1>4, Numbers DEF NewJob
<1>8. BeginTables(n)
  <2>1. FreshInv /\ size[current] \in Nat
    BY <1>3, Types DEF IndInv
  <2>4. size[current] > 0
    BY <1>3, <2>1 DEF FreshInv
  <2>2. n \in Nat \ {0}
    BY <1>4, <2>1, <2>4, MigrationAssumption
  <2>3. coordinator[current] # Ended
    BY <1>1, <1>2, Numbers
  <2> QED
    BY <1>4, <1>5, <1>6, <1>7, <2>2, <2>3 DEF BeginTables
<1>9. BeginJobs
  <2>1. \A j \in Jobs : j \in Nat /\ (j < made' => j <= current) /\ (j <= current => j # made + 1)
    BY <1>3, <1>7, Numbers
  <2>2. sources' \in [Jobs -> Seq(Tables \cup {NoTable})]
    <3>1. <<current>> \in Seq(Tables \cup {NoTable})
      BY <1>3
    <3> QED
      BY <1>5, <3>1 DEF IndInv, TypeInv, JobTypes
  <2>3. sources'[made'] = Inherited /\ \A j \in Jobs : j <= current => sources'[j] = sources[j]
    BY <1>5, <1>6, <1>7, <2>1 DEF IndInv, TypeInv, JobTypes
  <2>4. prev'[made'] = NoJob
    BY <1>3, <1>5, <1>7 DEF IndInv, FreshInv
  <2>5. \A j \in Jobs : j < made' => finished'[j] = 1
    BY <1>5, <2>1, Types DEF CountOf
  <2>6. prev \in [Jobs -> Jobs \cup {NoJob}] /\ finished \in [Jobs -> Nat]
    BY DEF IndInv, TypeInv, JobTypes
  <2>7. \A j \in Jobs : ~(current < j /\ j < made')
    BY <1>3, <1>7, <2>1
  <2> QED
    BY <1>3, <1>5, <2>2, <2>3, <2>4, <2>5, <2>6, <2>7 DEF BeginJobs
<1>10. BeginThread(t)
  <2>1. "participate" \in Places
    BY DEF Places, Helping
  <2>2. Only(t) /\ me'[t].pc = "participate" /\ me'[t].root = current
    BY <1>1, <1>2, <2>1, Move DEF Keeps
  <2>3. \A u \in Threads : me[u].pc \notin Concluding
    BY <1>3 DEF IndInv, ConcludeInv, ConcludeOf
  <2> QED
    BY <1>1, <2>2, <2>3 DEF BeginThread
<1> QED
  BY <1>8, <1>9, <1>10, BeginStep

\* setJob: the job that follows an overflow takes over all that the one before had.
LEMMA HandOverStep ==
    ASSUME IndInv, NEW t \in Threads, HandOver(t)
    PROVE  IndInv'
<1>1. me[t].pc = "conclude" /\ TypeInv
  BY DEF HandOver, At, IndInv
<1>2. /\ me[t].job = made /\ Open /\ state[made] = 1 /\ Joining(made) = {} /\ finished[made] = 0
      /\ coordinator[current] = made /\ made \in Jobs /\ made \in Nat /\ current \in Nat /\ current \in Tables
      /\ current < made /\ made <= MaxJobs
  <2>1. ConcludeOf(t)
    BY DEF IndInv, ConcludeInv
  <2> QED
    BY <1>1, <2>1, Types DEF ConcludeOf, Concluding, Open
<1>3. me[t].root = current
  BY <1>1, <1>2 DEF IndInv, RootInv, RootOf, Serving, Concluding
<1>4. Span(current, made) /\ sources[made] = [i \in 1..(made - current) |-> current + i - 1]
  BY <1>2 DEF IndInv, OpenInv, Span
<1>5. sources[made][1] = current
  BY <1>2, <1>4
<1>6. Append(sources[made], made) = Inherited /\ Inherited \in Seq(Tables \cup {NoTable})
  <2>1. sources[made] \in Seq(Tables \cup {NoTable}) /\ made \in Tables
    BY <1>2, Types DEF IndInv, TypeInv, JobTypes
  <2>2. Len(sources[made]) = made - current
    BY <1>2, <1>4, <2>1
  <2>3. Append(sources[made], made) = [i \in 1..(made - current + 1) |-> IF i = made - current + 1 THEN made ELSE sources[made][i]]
    BY <2>1, <2>2
  <2>4. \A i \in 1..(made + 1 - current) : (IF i = made - current + 1 THEN made ELSE sources[made][i]) = current + i - 1
    <3> SUFFICES ASSUME NEW i \in 1..(made + 1 - current)
                 PROVE  (IF i = made - current + 1 THEN made ELSE sources[made][i]) = current + i - 1
      OBVIOUS
    <3>1. CASE i = made - current + 1
      BY <1>2, <3>1
    <3>2. CASE i # made - current + 1
      <4>1. i \in 1..(made - current)
        BY <1>2, <3>2
      <4> QED
        BY <1>4, <3>2, <4>1
    <3> QED
      BY <3>1, <3>2
  <2>5. 1..(made - current + 1) = 1..(made + 1 - current)
    BY <1>2
  <2>6. Append(sources[made], made) = Inherited
    BY <2>3, <2>4, <2>5 DEF Inherited
  <2>7. Append(sources[made], made) \in Seq(Tables \cup {NoTable})
    BY <2>1
  <2> QED
    BY <2>6, <2>7
<1>7. /\ NewJob(current, Inherited, 2 * size[made]) /\ Return(t) /\ Concluded(made)
      /\ sources' = [sources EXCEPT ![made + 1] = Inherited, ![made] = HandedOver(made)]
      /\ prev' = [prev EXCEPT ![made + 1] = made]
      /\ UNCHANGED <<current, moved, victim, overflowed, state, gcVars>>
  BY <1>2, <1>5, <1>6 DEF HandOver, Orig
<1>8. made < MaxJobs /\ made' = made + 1 /\ made' \in Jobs /\ made' \in Nat
  <2>1. overflowed[made]
    BY <1>2 DEF HandOver
  <2>2. made < MaxJobs
    BY <1>2, <2>1 DEF IndInv, WorkInv
  <2> QED
    BY <1>2, <1>7, <2>2, Numbers DEF NewJob
<1>9. BeginTables(2 * size[made])
  <2>1. FreshInv /\ made \in Tables /\ made <= made
    BY <1>2, Types DEF IndInv
  <2>2. size[made] \in Nat /\ size[made] > 0
    BY <2>1, Types DEF FreshInv
  <2>3. 2 * size[made] \in Nat \ {0}
    BY <2>2
  <2>4. coordinator[current] # Ended
    BY <1>2, Numbers
  <2> QED
    BY <1>7, <1>8, <2>3, <2>4 DEF BeginTables
<1>10. BeginJobs
  <2>1. sources \in [Jobs -> Seq(Tables \cup {NoTable})] /\ prev \in [Jobs -> Jobs \cup {NoJob}]
        /\ finished \in [Jobs -> Nat]
    BY <1>1 DEF TypeInv, JobTypes
  <2>2. HandedOver(made) \in Seq(Tables \cup {NoTable}) /\ \A i \in DOMAIN HandedOver(made) : HandedOver(made)[i] = NoTable
    <3>1. HandedOver(made) = [i \in 1..(made - current) |-> NoTable]
      BY <1>2, <1>4 DEF HandedOver
    <3>2. made - current \in Nat
      BY <1>2
    <3>3. [i \in 1..(made - current) |-> NoTable] \in Seq(Tables \cup {NoTable})
      BY <3>2
    <3> QED
      BY <3>1, <3>3
  <2>3. /\ sources'[made'] = Inherited /\ sources'[made] = HandedOver(made)
        /\ \A j \in Jobs : j # made /\ j # made' => sources'[j] = sources[j]
        /\ sources' \in [Jobs -> Seq(Tables \cup {NoTable})]
    <3> DEFINE s == [sources EXCEPT ![made'] = Inherited]
    <3>1. s \in [Jobs -> Seq(Tables \cup {NoTable})] /\ s[made'] = Inherited
          /\ \A j \in Jobs : j # made' => s[j] = sources[j]
      BY <1>6, <1>8, <2>1
    <3>2. sources' = [s EXCEPT ![made] = HandedOver(made)]
      BY <1>7, <1>8
    <3>3. made # made'
      BY <1>2, <1>8
    <3> HIDE DEF s
    <3> QED
      BY <1>2, <1>8, <2>2, <3>1, <3>2, <3>3
  <2>4. \A j \in Jobs : j <= current => sources'[j] = sources[j]
    <3>1. \A j \in Jobs : j <= current => j # made /\ j # made'
      BY <1>2, <1>8, Numbers
    <3> QED
      BY <2>3, <3>1
  <2>5. \A j \in Jobs : current < j /\ j < made' => \A i \in DOMAIN sources'[j] : sources'[j][i] = NoTable
    <3> SUFFICES ASSUME NEW j \in Jobs, current < j, j < made'
                 PROVE  \A i \in DOMAIN sources'[j] : sources'[j][i] = NoTable
      OBVIOUS
    <3>1. CASE j = made
      BY <2>2, <2>3, <3>1
    <3>2. CASE j # made
      <4>1. j \in Nat /\ j < made /\ j # made'
        BY <1>2, <1>8, <3>2, Numbers
      <4> QED
        BY <1>4, <2>3, <3>2, <4>1 DEF Span
    <3> QED
      BY <3>1, <3>2
  <2>6. /\ prev' \in [Jobs -> Jobs \cup {NoJob}] /\ \A j \in Jobs : j # made' => prev'[j] = prev[j]
        /\ current < prev'[made'] /\ prev'[made'] <= made'
    <3>1. prev' = [prev EXCEPT ![made'] = made]
      BY <1>7, <1>8
    <3>2. prev'[made'] = made
      BY <1>8, <2>1, <3>1
    <3> QED
      BY <1>2, <1>8, <2>1, <3>1, <3>2
  <2>7. /\ finished' \in [Jobs -> Nat] /\ finished'[made] = 1
        /\ \A j \in Jobs : j # made => finished'[j] = finished[j]
    BY <1>2, <1>7, <2>1 DEF Concluded
  <2>8. \A j \in Jobs : j < made' => finished'[j] = 1
    <3> SUFFICES ASSUME NEW j \in Jobs, j < made', j # made PROVE finished'[j] = 1
      BY <2>7
    <3>1. j < made
      BY <1>2, <1>8, Numbers
    <3> QED
      BY <2>7, <3>1, Types DEF CountOf
  <2>9. \A j \in Jobs : j >= made' => finished'[j] = finished[j]
    BY <1>2, <1>8, <2>7, Numbers
  <2>10. UNCHANGED <<overflowed, state>>
    BY <1>7
  <2> QED
    BY <1>2, <2>3, <2>4, <2>5, <2>6, <2>7, <2>8, <2>9, <2>10 DEF BeginJobs
<1>11. BeginThread(t)
  <2>1. Only(t) /\ me'[t].pc = "participate" /\ me'[t].root = current
    BY <1>1, <1>2, <1>3, <1>7, Back
  <2>2. \A u \in Threads : u # t => me[u].pc \notin Concluding
    BY <1>1 DEF IndInv, ConcludeInv, Concluding
  <2> QED
    BY <1>1, <2>1, <2>2 DEF BeginThread
<1> QED
  BY <1>9, <1>10, <1>11, BeginStep

-----------------------------------------------------------------------------
(* The last participant concludes the job *)

\* Former tables do not depend on the victim and the jobs of the map's table.
LEMMA FormerKept ==
    ASSUME IndInv, UNCHANGED <<made, current, moved, sources, prev, size>>,
           \A x \in Tables : x # current => victim'[x] = victim[x] /\ coordinator'[x] = coordinator[x]
    PROVE  RootsInv' /\ \A x \in Tables : Root(x)' = Root(x)
<1>1. \A x \in Tables : Root(x)' = Root(x)
  BY Types, Numbers DEF Root
<1>2. \A x \in Tables : Root(x) => victim'[x] = victim[x]
  BY Types, Numbers DEF Root
<1>3. RootsInv
  BY DEF IndInv
<1>4. ASSUME NEW x \in Tables, NEW v \in Nat, v <= current, Span(x, v) PROVE Span(x, v)'
  <2>1. \A z \in Tables : z < v => coordinator'[z] = coordinator[z]
    BY <1>4, Types, Numbers
  <2> QED
    BY <1>4, <2>1 DEF Span
<1>5. ASSUME NEW x \in Tables, Root(x) PROVE x < victim'[x] /\ victim'[x] <= current' /\ Span(x, victim[x])'
  <2>1. PICK v : v = victim[x]
    OBVIOUS
  <2>2. x < v /\ v <= current /\ Span(x, v) /\ victim'[x] = v /\ v \in Nat
    BY <1>2, <1>3, <1>5, <2>1, Types, Numbers DEF RootsInv
  <2>3. Span(x, v)'
    BY <1>4, <2>2
  <2> QED
    BY <2>2, <2>3 DEF Span
<1>6. PublishedComplete'
  BY <1>3 DEF RootsInv, PublishedComplete, Chunks
<1> QED
  BY <1>1, <1>2, <1>3, <1>5, <1>6 DEF RootsInv

\* The thread that concludes, and the job it concludes.
LEMMA AtConclusion ==
    ASSUME IndInv, NEW t \in Threads, me[t].pc \in Concluding
    PROVE  /\ me[t].job = made /\ made \in Jobs /\ Open /\ me[t].root = current /\ current \in Tables /\ current \in Nat
           /\ made \in Nat /\ current < made /\ ConcludeOf(t) /\ TypeInv /\ state[made] = 1 /\ Joining(made) = {}
           /\ HoldInv /\ WorkInv /\ Span(current, made) /\ sources[made][1] = current
           /\ \A u \in Threads : u # t => me[u].pc \notin Concluding
<1>1. ConcludeOf(t) /\ TypeInv
  BY DEF IndInv, ConcludeInv
<1>2. me[t].job = made /\ Open /\ state[made] = 1 /\ Joining(made) = {}
  BY <1>1 DEF ConcludeOf
<1>3. made \in Jobs /\ current \in Tables /\ current \in Nat /\ made \in Nat /\ current < made
  BY <1>2, Types DEF Open
<1>4. me[t].root = current
  BY <1>2 DEF IndInv, RootInv, RootOf, Serving
<1>5. HoldInv /\ WorkInv /\ Span(current, made)
  BY <1>2 DEF IndInv, OpenInv
<1>6. sources[made][1] = current
  BY <1>3, <1>5 DEF Span
<1>7. \A u \in Threads : u # t => me[u].pc \notin Concluding
  BY DEF IndInv, ConcludeInv
<1> QED
  BY <1>1, <1>2, <1>3, <1>4, <1>5, <1>6, <1>7

\* A step of the thread that concludes the open job, which stays open.
LEMMA ConclusionStep ==
    ASSUME IndInv, NEW t \in Threads, me[t].pc \in {"conclude", "end"}, Only(t), Keeps(t), me'[t].pc \in {"end", "publish"},
           UNCHANGED <<made, current, size, moved, jobVars, gcVars>>,
           finished' \in [Jobs -> Nat], finished'[made] = 1, \A j \in Jobs : j # made => finished'[j] = finished[j],
           victim' \in [Tables -> Jobs \cup {NoJob}], coordinator' \in [Tables -> Jobs \cup {NoJob, Ended}],
           \A x \in Tables : x # current => victim'[x] = victim[x] /\ coordinator'[x] = coordinator[x],
           coordinator'[current] = coordinator[current] \/ (coordinator'[current] = Ended /\ me'[t].pc = "publish"),
           ConcludeOf(t)'
    PROVE  IndInv'
<1>1. /\ me[t].job = made /\ made \in Jobs /\ Open /\ me[t].root = current /\ current \in Tables
      /\ state[made] = 1 /\ Joining(made) = {} /\ \A u \in Threads : u # t => me[u].pc \notin Concluding
      /\ coordinator[current] = made /\ made \in Nat /\ current \in Nat /\ current < made
  BY AtConclusion DEF Concluding, ConcludeOf
<1>2. UNCHANGED <<made, current, size, moved, sources, index, overflowed, state, unitsRemaining, prev, retired, deleted>>
  BY DEF jobVars, gcVars
<1>3. /\ me'[t].root = current /\ me'[t].job = made /\ me'[t].pc \in Concluding /\ me'[t].pc \in Helping
      /\ me'[t].pc \notin Joined \cup {"join", "retire"} /\ me[t].pc \notin Joined \cup {"join", "retire"}
      /\ me'[t].pc # "idle"
  BY <1>1 DEF Keeps, Concluding, Helping, Serving, Joined, Loops
<1>4. TypeInv'
  BY <1>2 DEF IndInv, TypeInv, TableTypes, JobTypes, Only
<1>5. coordinator'[current] # NoJob /\ \A x \in Tables : coordinator[x] = Ended => coordinator'[x] = Ended
  BY <1>1, Numbers
<1>6. RootInv'
  <2>1. RootOf(t)'
    BY <1>1, <1>2, <1>3, <1>5 DEF RootOf
  <2>2. ASSUME NEW u \in Threads, u # t PROVE RootOf(u)'
    <3>1. RootOf(u) /\ me'[u] = me[u]
      BY <2>2 DEF IndInv, RootInv, Only
    <3>2. me[u].pc # "idle" => me[u].root \in Tables /\ (me[u].root = current \/ coordinator'[me[u].root] = Ended)
      BY <1>5, <3>1 DEF RootOf
    <3>3. me[u].pc \in Helping => me[u].pc # "idle"
      BY DEF Helping, Serving, Joined, Loops, Concluding
    <3>4. me[u].pc \in Helping => coordinator'[me[u].root] # NoJob
      BY <1>5, <3>2, <3>3, Numbers
    <3> QED
      BY <1>2, <3>1, <3>2, <3>4 DEF RootOf, Open
  <2> QED
    BY <2>1, <2>2 DEF RootInv
<1>7. CoordinatorInv'
  <2>1. CoordinatorInv
    BY DEF IndInv
  <2>2. Helped'
    BY <1>2, <1>3 DEF Helped
  <2>3. coordinator'[current] = Ended => Publishing'
    BY <1>1, Numbers DEF Publishing
  <2>4. Open'
    BY <1>1, <1>2 DEF Open
  <2>5. \A x \in Tables : x < current => coordinator'[x] \in {NoJob, Ended}
    BY <1>1, <2>1, Numbers DEF CoordinatorInv
  <2>6. \A x \in Tables : x > current => coordinator'[x] = NoJob
    BY <1>1, <2>1, Numbers DEF CoordinatorInv
  <2>7. coordinator'[current] \in {made, Ended} /\ Ended \notin Jobs
    BY <1>1, Numbers
  <2> QED
    BY <1>2, <1>5, <2>2, <2>3, <2>4, <2>5, <2>6, <2>7 DEF CoordinatorInv
<1>8. FreshInv'
  <2>1. \A j \in Jobs : j > made => finished'[j] = finished[j]
    BY <1>1, Numbers
  <2> QED
    BY <1>2, <2>1 DEF IndInv, FreshInv, Chunks
<1>9. CountInv'
  <2> SUFFICES ASSUME NEW j \in Jobs PROVE CountOf(j)'
    BY DEF CountInv
  <2>1. CountOf(j) /\ state'[j] = state[j]
    BY <1>2, Types
  <2>2. Participants(j)' = Participants(j)
    <3>1. ~Inside(t, j) /\ ~Inside(t, j)'
      BY <1>3 DEF Inside, Joined, Loops
    <3>2. \A u \in Threads : u # t => Inside(u, j)' = Inside(u, j)
      BY DEF Inside, Only
    <3> QED
      BY <3>1, <3>2 DEF Participants
  <2>3. Joining(j)' = Joining(j) /\ Done(j)' = Done(j)
    BY <1>2, <1>3 DEF Joining, At, Only, Done
  <2>4. CASE j = made
    BY <1>1, <2>1, <2>2, <2>3, <2>4 DEF CountOf
  <2>5. CASE j # made
    BY <1>2, <2>1, <2>2, <2>3, <2>5 DEF CountOf
  <2> QED
    BY <2>4, <2>5
<1>10. ConcludeInv'
  <2>1. \A u \in Threads : u # t => me'[u].pc \notin Concluding
    BY <1>1 DEF Only
  <2> QED
    BY <2>1 DEF ConcludeInv, ConcludeOf, Concluding
<1>11. OpenInv'
  <2>1. \A z \in Tables : current < z => coordinator'[z] = coordinator[z]
    BY <1>1, Numbers
  <2> QED
    BY <1>1, <1>2, <2>1, ZenonT(40) DEF IndInv, OpenInv, Span, Open
<1>12. HoldInv' /\ WorkInv'
  <2>1. Done(made)' = Done(made) /\ HoldOf(t)'
    BY <1>2 DEF Done, HoldOf, Loops
  <2>2. me[t].pc \notin {"range", "unit", "mark"} /\ me'[t].pc \notin {"range", "unit", "mark"}
    OBVIOUS
  <2> QED
    BY <1>1, <1>2, <2>1, <2>2, WorkKept
<1>13. RootsInv' /\ \A x \in Tables : Root(x)' = Root(x)
  BY <1>2, FormerKept
<1>14. RetireInv'
  <2>1. RetireInv
    BY DEF IndInv
  <2>2. \A u \in Threads : me'[u].pc = "retire" => me'[u] = me[u]
    BY <1>3 DEF Only
  <2>3. \A x : Retiring(x) => Retiring(x)'
    BY <1>3 DEF Retiring, At, Only
  <2>4. \A u \in Threads : RetireOf(u)'
    BY <1>2, <1>13, <2>1, <2>2 DEF RetireInv, RetireOf, At
  <2> QED
    BY <1>2, <1>13, <2>1, <2>2, <2>3, <2>4 DEF RetireInv, At
<1>15. DeleteInv'
  <2>1. \A x \in Tables : Root(x) => x # current
    BY <1>1, Numbers DEF Root
  <2> QED
    BY <1>2, <1>13, <2>1 DEF IndInv, DeleteInv
<1> QED
  BY <1>4, <1>6, <1>7, <1>8, <1>9, <1>10, <1>11, <1>12, <1>13, <1>14, <1>15 DEF IndInv

\* All was moved: the new table becomes the victim of the old one.
LEMMA SucceededStep ==
    ASSUME IndInv, NEW t \in Threads, Succeeded(t)
    PROVE  IndInv'
<1>1. me[t].pc = "conclude" /\ me[t].pc \in Concluding
  BY DEF Succeeded, Goto, At, Concluding
<1>2. /\ me[t].job = made /\ made \in Jobs /\ Open /\ current \in Tables /\ ConcludeOf(t) /\ TypeInv /\ state[made] = 1
      /\ Joining(made) = {} /\ sources[made][1] = current /\ coordinator[current] = made /\ finished[made] = 0
  BY <1>1, AtConclusion DEF ConcludeOf
<1>3. /\ me' = [me EXCEPT ![t].pc = "end"] /\ ~overflowed[made] /\ finished' = [finished EXCEPT ![made] = @ + 1]
      /\ victim' = [victim EXCEPT ![current] = made]
      /\ UNCHANGED <<made, current, size, moved, coordinator, jobVars, gcVars>>
  BY <1>2 DEF Succeeded, Goto, Concluded, Orig
<1>4. Only(t) /\ Keeps(t) /\ me'[t].pc = "end"
  <2>1. "end" \in Places
    BY DEF Places, Helping, Serving, Concluding
  <2> QED
    BY <1>2, <1>3, <2>1, Move
<1>5. finished' \in [Jobs -> Nat] /\ finished'[made] = 1 /\ \A j \in Jobs : j # made => finished'[j] = finished[j]
  BY <1>2, <1>3 DEF TypeInv, JobTypes
<1>6. /\ victim' \in [Tables -> Jobs \cup {NoJob}] /\ victim'[current] = made
      /\ \A x \in Tables : x # current => victim'[x] = victim[x]
      /\ coordinator' \in [Tables -> Jobs \cup {NoJob, Ended}] /\ coordinator' = coordinator
  BY <1>2, <1>3 DEF TypeInv, TableTypes
<1>7. ConcludeOf(t)'
  <2>1. Joining(made)' = {}
    BY <1>2, <1>3, <1>4 DEF Joining, At, Only
  <2> QED
    BY <1>2, <1>3, <1>4, <1>5, <1>6, <2>1 DEF ConcludeOf, Open, Keeps, jobVars
<1> QED
  BY <1>1, <1>3, <1>4, <1>5, <1>6, <1>7, ConclusionStep

\* end_jobs
LEMMA EndJobsStep ==
    ASSUME IndInv, NEW t \in Threads, EndJobs(t)
    PROVE  IndInv'
<1>1. me[t].pc = "end" /\ me[t].pc \in Concluding
  BY DEF EndJobs, Goto, At, Concluding
<1>2. /\ me[t].job = made /\ made \in Jobs /\ Open /\ current \in Tables /\ ConcludeOf(t) /\ TypeInv /\ state[made] = 1
      /\ Joining(made) = {} /\ sources[made][1] = current /\ finished[made] = 1 /\ ~overflowed[made]
      /\ victim[current] = made
  BY <1>1, AtConclusion DEF ConcludeOf
<1>3. /\ me' = [me EXCEPT ![t].pc = "publish"] /\ coordinator' = [coordinator EXCEPT ![current] = Ended]
      /\ UNCHANGED <<made, current, size, moved, victim, jobVars, gcVars, finished>>
  BY <1>2 DEF EndJobs, Goto, Orig
<1>4. Only(t) /\ Keeps(t) /\ me'[t].pc = "publish"
  <2>1. "publish" \in Places
    BY DEF Places, Helping, Serving, Concluding
  <2> QED
    BY <1>2, <1>3, <2>1, Move
<1>5. finished' \in [Jobs -> Nat] /\ finished' = finished /\ victim' \in [Tables -> Jobs \cup {NoJob}] /\ victim' = victim
  BY <1>2, <1>3 DEF TypeInv, JobTypes, TableTypes
<1>6. /\ coordinator' \in [Tables -> Jobs \cup {NoJob, Ended}] /\ coordinator'[current] = Ended
      /\ \A x \in Tables : x # current => coordinator'[x] = coordinator[x]
  BY <1>2, <1>3 DEF TypeInv, TableTypes
<1>7. ConcludeOf(t)'
  <2>1. Joining(made)' = {}
    BY <1>2, <1>3, <1>4 DEF Joining, At, Only
  <2> QED
    BY <1>2, <1>3, <1>4, <1>5, <1>6, <2>1 DEF ConcludeOf, Open, Keeps, jobVars
<1> QED
  BY <1>1, <1>2, <1>3, <1>4, <1>5, <1>6, <1>7, ConclusionStep

\* finishMigration: all that was moved is in the new table, which is published.
LEMMA FinishStep ==
    ASSUME IndInv, NEW t \in Threads, finishMigration(t)
    PROVE  IndInv'
<1>1. me[t].pc = "publish" /\ me[t].pc \in Concluding
  BY DEF finishMigration, At, Concluding
<1>2. /\ me[t].job = made /\ made \in Jobs /\ Open /\ current \in Tables /\ TypeInv /\ state[made] = 1 /\ made \in Nat
      /\ finished[made] = 1 /\ ~overflowed[made] /\ coordinator[current] = Ended /\ victim[current] = made
      /\ Span(current, made) /\ WorkInv /\ current \in Nat /\ current < made
      /\ me \in [Threads -> Locals] /\ me[t] \in Locals /\ me[t].root = current
  BY <1>1, AtConclusion, Types DEF ConcludeOf
<1>3. /\ current' = made /\ me' = [me EXCEPT ![t].pc = "retire", ![t].oldRoot = current]
      /\ UNCHANGED <<made, tableVars, jobVars, gcVars, finished>>
  BY <1>2 DEF finishMigration
<1>4. /\ Only(t) /\ me'[t].pc = "retire" /\ me'[t].oldRoot = current /\ me'[t].root = me[t].root /\ me'[t].job = me[t].job
  <2> DEFINE r == [me[t] EXCEPT !.pc = "retire"]
  <2>1. "retire" \in Places
    BY DEF Places, Helping, Serving
  <2>2. r \in Locals /\ r.pc = "retire" /\ r.root = me[t].root /\ r.job = me[t].job
    BY <1>2, <2>1 DEF Locals
  <2>3. me' = [me EXCEPT ![t] = [r EXCEPT !.oldRoot = current]]
    BY <1>2, <1>3
  <2> HIDE DEF r
  <2> DEFINE q == [r EXCEPT !.oldRoot = current]
  <2>4. q \in Locals /\ q.pc = "retire" /\ q.oldRoot = current /\ q.root = me[t].root /\ q.job = me[t].job
    BY <1>2, <2>2 DEF Locals
  <2> HIDE DEF q
  <2>5. me' = [me EXCEPT ![t] = q]
    BY <2>3 DEF q
  <2> QED
    BY <1>2, <2>4, <2>5 DEF Only
<1>5. UNCHANGED <<made, size, moved, coordinator, victim, sources, index, overflowed, state, unitsRemaining, prev,
                  retired, deleted, finished>>
  BY <1>3 DEF tableVars, jobVars, gcVars
<1>6. ~Open'
  BY <1>2, <1>3, <1>5 DEF Open
<1>7. \A x \in Tables : coordinator[x] = IF x < current THEN coordinator[x] ELSE IF x = current THEN Ended ELSE NoJob
  <2>1. \A x \in Tables : x \in Nat
    BY Numbers
  <2> QED
    BY <1>2, <2>1 DEF IndInv, CoordinatorInv
<1>8. TypeInv'
  <2>1. made \in 0..MaxJobs /\ current' \in 0..made
    BY <1>2, <1>3, Types
  <2> QED
    BY <1>2, <1>4, <1>5, <2>1 DEF TypeInv, TableTypes, JobTypes, Only
<1>9. RootInv'
  <2> SUFFICES ASSUME NEW u \in Threads PROVE RootOf(u)'
    BY DEF RootInv
  <2>1. RootOf(u)
    BY DEF IndInv, RootInv
  <2>2. CASE u = t
    <3>1. me'[u].root = current /\ me'[u].job \in 1..made /\ Ended # NoJob /\ me'[u].pc # "idle"
      BY <1>2, <1>4, <2>2, Numbers
    <3> QED
      BY <1>2, <1>5, <1>6, <3>1 DEF RootOf
  <2>3. CASE u # t
    <3>1. me'[u] = me[u]
      BY <1>4, <2>3 DEF Only
    <3> QED
      BY <1>2, <1>5, <1>6, <2>1, <3>1 DEF RootOf
  <2> QED
    BY <2>2, <2>3
<1>10. CoordinatorInv'
  <2>1. made \in Tables /\ coordinator[made] = NoJob
    BY <1>2, <1>7, Numbers
  <2>2. \A x \in Tables : x < made => coordinator[x] \in {NoJob, Ended}
    BY <1>7 DEF IndInv, CoordinatorInv
  <2>3. \A x \in Tables : x > made => coordinator[x] = NoJob
    BY <1>2, <1>7, Numbers
  <2>4. NoJob \notin Jobs /\ NoJob # Ended
    BY Numbers
  <2> QED
    BY <1>3, <1>5, <2>1, <2>2, <2>3, <2>4 DEF CoordinatorInv
<1>11. FreshInv'
  BY <1>5 DEF IndInv, FreshInv, Chunks
<1>12. CountInv'
  <2> SUFFICES ASSUME NEW j \in Jobs PROVE CountOf(j)'
    BY DEF CountInv
  <2>1. CountOf(j) /\ j \in Nat
    BY Types, Numbers
  <2>2. Participants(j)' = Participants(j) /\ Joining(j)' = Joining(j) /\ Done(j)' = Done(j)
    BY <1>1, <1>4, <1>5 DEF Participants, Inside, Joining, At, Only, Done
  <2>3. j <= made => finished[j] = 1
    BY <1>2, <2>1 DEF CountOf
  <2> QED
    BY <1>2, <1>3, <1>5, <2>1, <2>2, <2>3 DEF CountOf
<1>13. ConcludeInv'
  <2>1. \A u \in Threads : me'[u].pc \notin Concluding
    BY <1>1, <1>4, AtConclusion DEF Only, Concluding
  <2> QED
    BY <2>1 DEF ConcludeInv, ConcludeOf, Concluding
<1>14. OpenInv' /\ (Open => HoldInv /\ WorkInv)'
  BY <1>6 DEF OpenInv
<1>15. \A x \in Tables : Root(x)' <=> Root(x) \/ x = current
  BY <1>2, <1>3, <1>5, <1>7, Numbers DEF Root
<1>16. RootsInv'
  <2>1. RootsInv
    BY DEF IndInv
  <2>2. PublishedComplete'
    <3> SUFFICES ASSUME NEW x \in 0..made, x < made PROVE moved[x] = Chunks(x)
      BY <1>3, <1>5 DEF PublishedComplete, Chunks
    <3>1. CASE x < current
      BY <2>1, <3>1 DEF RootsInv, PublishedComplete
    <3>2. CASE ~(x < current)
      <4>1. Done(made)
        BY <1>2 DEF Done
      <4>2. AllMoved
        BY <1>2, <4>1 DEF WorkInv
      <4>3. PICK i : i = x - current + 1
        OBVIOUS
      <4>4. i \in 1..(made - current) /\ x = current + i - 1
        BY <1>2, <3>2, <4>3
      <4> QED
        BY <4>2, <4>4 DEF AllMoved
    <3> QED
      BY <3>1, <3>2
  <2>3. \A x, v : Span(x, v)' = Span(x, v)
    BY <1>5 DEF Span
  <2>4. \A x \in Tables : Root(x)' => x < victim[x] /\ victim[x] <= made /\ Span(x, victim[x])
    <3> SUFFICES ASSUME NEW x \in Tables, Root(x) \/ x = current
                 PROVE  x < victim[x] /\ victim[x] <= made /\ Span(x, victim[x])
      BY <1>15
    <3>1. CASE x = current
      BY <1>2, <3>1
    <3>2. CASE Root(x)
      <4>1. x < victim[x] /\ victim[x] <= current /\ Span(x, victim[x])
        BY <2>1, <3>2 DEF RootsInv
      <4>2. victim[x] \in Nat
        BY Types, Numbers
      <4> QED
        BY <1>2, <4>1, <4>2
    <3> QED
      BY <3>1, <3>2
  <2>5. \A z \in Tables : z < made => \E x \in Tables : x <= z /\ Root(x)' /\ z < victim[x]
    <3> SUFFICES ASSUME NEW z \in Tables, z < made PROVE \E x \in Tables : x <= z /\ Root(x)' /\ z < victim[x]
      OBVIOUS
    <3>1. CASE z < current
      <4>1. PICK x \in Tables : x <= z /\ Root(x) /\ z < victim[x]
        BY <2>1, <3>1 DEF RootsInv
      <4> QED
        BY <1>15, <4>1
    <3>2. CASE ~(z < current)
      <4>1. current <= z
        BY <1>2, <3>2, Numbers
      <4> QED
        BY <1>2, <1>15, <4>1
    <3> QED
      BY <3>1, <3>2
  <2> QED
    BY <1>3, <1>5, <2>2, <2>3, <2>4, <2>5 DEF RootsInv
<1>17. ~Root(current) /\ retired[current] = 0
  <2>1. ~Root(current)
    BY <1>2 DEF Root
  <2> QED
    BY <1>2, <2>1, Types DEF IndInv, RetireInv
<1>18. RetireInv'
  <2>1. RetireInv
    BY DEF IndInv
  <2>2. \A u \in Threads : u # t => me'[u] = me[u]
    BY <1>4 DEF Only
  <2>3. \A u \in Threads : me[u].pc = "retire" => me[u].oldRoot # current
    BY <1>17, <2>1 DEF RetireInv, RetireOf, At
  <2>4. \A u \in Threads : RetireOf(u)'
    BY <1>2, <1>4, <1>5, <1>15, <1>17, <2>1, <2>2 DEF RetireInv, RetireOf, At
  <2>5. \A x \in Tables : Retiring(x) => Retiring(x)'
    BY <1>1, <2>2 DEF Retiring, At
  <2>6. ASSUME NEW c, c = current PROVE Retiring(c)'
    BY <1>4, <2>6 DEF Retiring, At
  <2>7. \A x \in Tables : Root(x)' => retired'[x] = 1 \/ Retiring(x)'
    BY <1>5, <1>15, <2>1, <2>5, <2>6 DEF RetireInv
  <2>8. \A x \in Tables : retired'[x] <= 1 /\ (retired'[x] = 1 => Root(x)')
    BY <1>5, <1>15, <2>1 DEF RetireInv
  <2>9. ASSUME NEW u \in Threads, NEW w \in Threads, me'[u].pc = "retire", me'[w].pc = "retire",
               me'[u].oldRoot = me'[w].oldRoot
        PROVE  u = w
    <3>1. \A y \in Threads : y # t => me'[y].oldRoot = me[y].oldRoot /\ me'[y].pc = me[y].pc
      BY <2>2
    <3>2. CASE u = t \/ w = t
      BY <1>4, <2>3, <2>9, <3>1, <3>2
    <3>3. CASE u # t /\ w # t
      BY <2>1, <2>9, <3>1, <3>3 DEF RetireInv, At
    <3> QED
      BY <3>2, <3>3
  <2> QED
    BY <2>4, <2>7, <2>8, <2>9 DEF RetireInv, At
<1>19. DeleteInv'
  <2>1. DeleteInv
    BY DEF IndInv
  <2>2. deleted[current] = 0 /\ \A x \in Tables : x >= current => deleted[x] = 0
    BY <1>2, <2>1 DEF DeleteInv
  <2>3. \A x \in Tables : x >= made => deleted[x] = 0
    BY <1>2, <2>2, Numbers
  <2>4. \A z \in Tables : current < z => deleted[z] = 0
    BY <1>2, <2>2, Numbers
  <2>5. 0 <= retired[current]
    BY <1>17
  <2> QED
    BY <1>2, <1>3, <1>5, <1>15, <2>1, <2>2, <2>3, <2>4, <2>5 DEF DeleteInv
<1> QED
  BY <1>8, <1>9, <1>10, <1>11, <1>12, <1>13, <1>14, <1>16, <1>18, <1>19 DEF IndInv

\* finishMigration, after it has published: the old table is given to the GC.
LEMMA RetireStep ==
    ASSUME IndInv, NEW t \in Threads, ScheduleOldRoot(t)
    PROVE  IndInv'
<1>1. me[t].pc = "retire" /\ Return(t) /\ TypeInv
  BY DEF ScheduleOldRoot, At, IndInv
<1>2. PICK o : o = me[t].oldRoot
  OBVIOUS
<1>3. o \in Tables /\ Root(o) /\ retired[o] = 0
  BY <1>1, <1>2 DEF IndInv, RetireInv, RetireOf, At
<1>4. /\ retired' = [retired EXCEPT ![o] = @ + 1]
      /\ UNCHANGED <<made, current, tableVars, jobVars, deleted, finished>>
  BY <1>2 DEF ScheduleOldRoot
<1>5. UNCHANGED <<made, current, size, moved, coordinator, victim, sources, index, overflowed, state, unitsRemaining, prev,
                  deleted, finished>>
  BY <1>4 DEF tableVars, jobVars
<1>6. RootOf(t) /\ me[t].job \in Jobs /\ coordinator[me[t].root] # NoJob
  <2>1. RootOf(t) /\ me[t].pc \in Serving /\ me[t].pc \in Helping
    BY <1>1 DEF IndInv, RootInv, Serving, Helping
  <2>2. me[t].job \in 1..made /\ coordinator[me[t].root] # NoJob
    BY <2>1 DEF RootOf
  <2> QED
    BY <2>1, <2>2, Types, Numbers
<1>7. Only(t) /\ me'[t].pc = "participate" /\ me'[t].root = me[t].root
  BY <1>1, <1>6, Back
<1>8. /\ retired' \in [Tables -> Nat] /\ retired'[o] = 1
      /\ \A x \in Tables : x # o => retired'[x] = retired[x]
  BY <1>1, <1>3, <1>4 DEF TypeInv, TableTypes
<1>9. TypeInv'
  BY <1>5, <1>7, <1>8 DEF IndInv, TypeInv, TableTypes, JobTypes, Only
<1>10. RootInv'
  <2>1. RootOf(t)'
    BY <1>1, <1>5, <1>6, <1>7 DEF RootOf, Serving, Joined, Loops, Concluding
  <2> QED
    BY <1>5, <1>7, <2>1, RootKept
<1>11. CoordinatorInv'
  BY <1>1, <1>5, <1>7, CoordinatorKept DEF Helping
<1>12. FreshInv'
  BY <1>5 DEF IndInv, FreshInv, Chunks
<1>13. CountInv'
  BY <1>1, <1>5, <1>7, CountKept DEF Joined, Loops
<1>14. ConcludeInv'
  BY <1>1, <1>5, <1>7, ConcludeKept DEF Concluding
<1>15. OpenInv'
  BY <1>5 DEF IndInv, OpenInv, Open, Span
<1>16. (Open => HoldInv /\ WorkInv)'
  <2> SUFFICES ASSUME Open PROVE HoldInv' /\ WorkInv'
    BY <1>5 DEF Open
  <2>1. Done(made)' = Done(made) /\ HoldOf(t)'
    BY <1>5, <1>7 DEF Done, HoldOf, Loops
  <2> QED
    BY <1>1, <1>5, <1>7, <2>1, WorkKept
<1>17. RootsInv'
  BY <1>5, RootsKept DEF IndInv, FreshInv
<1>18. RetireInv'
  <2>1. RetireInv /\ \A x : Root(x)' = Root(x)
    BY <1>5 DEF IndInv, Root
  <2>2. \A u \in Threads : me'[u].pc = "retire" => me'[u] = me[u] /\ u # t
    BY <1>7 DEF Only
  <2>3. \A u \in Threads : u # t /\ me[u].pc = "retire" => me[u].oldRoot # o
    BY <1>1, <1>2, <2>1 DEF RetireInv, At
  <2>4. \A u \in Threads : RetireOf(u)'
    BY <1>8, <2>1, <2>2, <2>3 DEF RetireInv, RetireOf, At
  <2>5. \A x \in Tables : retired'[x] <= 1 /\ (retired'[x] = 1 => Root(x))
    BY <1>3, <1>8, <2>1 DEF RetireInv
  <2>6. \A x \in Tables : x # o /\ Retiring(x) => Retiring(x)'
    BY <1>2, <1>7 DEF Retiring, At, Only
  <2>7. \A x \in Tables : Root(x) => retired'[x] = 1 \/ Retiring(x)'
    BY <1>8, <2>1, <2>6 DEF RetireInv
  <2> QED
    BY <2>1, <2>2, <2>4, <2>5, <2>7 DEF RetireInv, At
<1>19. DeleteInv'
  <2>1. DeleteInv /\ \A x : Root(x)' = Root(x)
    BY <1>5 DEF IndInv, Root
  <2>2. \A x \in Tables : Root(x) => deleted[x] <= retired'[x]
    <3> SUFFICES ASSUME NEW x \in Tables, Root(x) PROVE deleted[x] <= retired'[x]
      OBVIOUS
    <3>1. deleted[x] <= retired[x] /\ deleted[x] \in Nat
      BY <2>1, Types DEF DeleteInv
    <3> QED
      BY <1>3, <1>8, <3>1
  <2> QED
    BY <1>5, <2>1, <2>2 DEF DeleteInv
<1> QED
  BY <1>9, <1>10, <1>11, <1>12, <1>13, <1>14, <1>15, <1>16, <1>17, <1>18, <1>19 DEF IndInv

-----------------------------------------------------------------------------
(* Deletion *)

\* What the destructor of a former table x deletes with it: the tables between
\* it and its victim v, which are the sources 2, 3, ... of job v.
LEMMA OwnedTables ==
    ASSUME IndInv, NEW x \in Tables, Root(x), NEW v, v = victim[x]
    PROVE  /\ v \in Jobs /\ x < v /\ v <= current /\ Span(x, v)
           /\ \A o : o \in Owned(x) <=> o \in {v} \X (2..(v - x))
           /\ \A i \in 2..(v - x) : sources[v][i] = x + i - 1
<1>1. x < v /\ v <= current /\ Span(x, v) /\ v \in Jobs /\ v \in Nat /\ x \in Nat
  <2>1. x < v /\ v <= current /\ Span(x, v)
    BY DEF IndInv, RootsInv
  <2>2. v \in Jobs \cup {NoJob} /\ x \in Nat
    BY Types, Numbers
  <2> QED
    BY <2>1, <2>2, Numbers
<1>2. sources[v] = [i \in 1..(v - x) |-> x + i - 1]
  BY <1>1 DEF Span
<1>3. \A i \in 2..(v - x) : sources[v][i] = x + i - 1
  BY <1>1, <1>2
<1>4. Len(sources[v]) = v - x
  <2>1. sources[v] \in Seq(Tables \cup {NoTable}) /\ v - x \in Nat
    BY <1>1 DEF IndInv, TypeInv, JobTypes
  <2>2. DOMAIN sources[v] = 1..(v - x)
    BY <1>2
  <2> QED
    BY <2>1, <2>2
<1>5. v \in Chain(v)
  BY <1>1 DEF Chain
<1>6. ASSUME NEW j \in Chain(v) PROVE j \in Jobs /\ x < j /\ j <= v
  <2> DEFINE s == {k \in Jobs : x < k /\ k <= v}
  <2>1. s \in SUBSET Jobs /\ v \in s
    BY <1>1
  <2>2. \A k \in s : prev[k] \in Jobs => prev[k] \in s
    BY <1>1, Numbers DEF Span
  <2>3. j \in s
    BY <1>6, <2>1, <2>2 DEF Chain
  <2> QED
    BY <2>3
<1>7. ASSUME NEW o \in Owned(x) PROVE o \in {v} \X (2..(v - x))
  <2>1. o \in Chain(v) \X (2..(MaxJobs + 1)) /\ o[2] <= Len(sources[o[1]]) /\ sources[o[1]][o[2]] # NoTable
    BY <1>7 DEF Owned
  <2>2. o[1] \in Chain(v) /\ o[2] \in 2..(MaxJobs + 1) /\ o = <<o[1], o[2]>>
    BY <2>1
  <2>3. o[1] \in Jobs /\ x < o[1] /\ o[1] <= v
    BY <1>6, <2>2
  <2>4. sources[o[1]] \in Seq(Tables \cup {NoTable})
    BY <2>3 DEF IndInv, TypeInv, JobTypes
  <2>5. o[2] \in Nat /\ o[2] >= 2
    BY <2>2, Numbers
  <2>6. o[2] \in DOMAIN sources[o[1]]
    BY <2>1, <2>4, <2>5
  <2>7. ~(o[1] < v)
    BY <1>1, <2>1, <2>3, <2>6 DEF Span
  <2>8. o[1] = v
    BY <1>1, <2>3, <2>7, Numbers
  <2>9. o[2] \in 2..(v - x)
    BY <1>1, <1>4, <2>1, <2>5, <2>8
  <2> QED
    BY <2>2, <2>8, <2>9
<1>8. ASSUME NEW i \in 2..(v - x) PROVE <<v, i>> \in Owned(x)
  <2>1. v - x <= MaxJobs + 1 /\ i \in 2..(MaxJobs + 1) /\ i <= v - x /\ i \in Nat
    BY <1>1, <1>8, Numbers
  <2>2. sources[v][i] # NoTable
    BY <1>1, <1>3, <1>8, <2>1, Numbers
  <2> DEFINE o == <<v, i>>
  <2>3. o \in Chain(v) \X (2..(MaxJobs + 1)) /\ o[1] = v /\ o[2] = i
    BY <1>5, <2>1
  <2>4. o[2] <= Len(sources[o[1]]) /\ sources[o[1]][o[2]] # NoTable
    BY <1>4, <2>1, <2>2, <2>3
  <2> HIDE DEF o
  <2>5. o \in Owned(x)
    BY <2>3, <2>4 DEF Owned
  <2> QED
    BY <2>5 DEF o
<1> QED
  BY <1>1, <1>3, <1>7, <1>8

\* Delete counts the table and each table that its victim's job owns once.
LEMMA DeleteCounts ==
    ASSUME IndInv, NEW x \in Tables, Delete(x), NEW v, v = victim[x]
    PROVE  /\ Root(x) /\ deleted[x] = 0 /\ retired[x] = 1
           /\ \A y \in Tables : deleted'[y] = IF y = x \/ (x < y /\ y < v) THEN deleted[y] + 1 ELSE deleted[y]
           /\ deleted' \in [Tables -> Nat]
<1>1. Root(x) /\ deleted[x] = 0 /\ retired[x] = 1
  <2>1. retired[x] > deleted[x] /\ retired[x] \in Nat /\ deleted[x] \in Nat
    BY Types DEF Delete
  <2>2. retired[x] <= 1 /\ (retired[x] = 1 => Root(x))
    BY DEF IndInv, RetireInv
  <2> QED
    BY <2>1, <2>2
<1>2. /\ v \in Jobs /\ x < v /\ \A o : o \in Owned(x) <=> o \in {v} \X (2..(v - x))
      /\ \A i \in 2..(v - x) : sources[v][i] = x + i - 1
      /\ v \in Nat /\ x \in Nat
  BY <1>1, OwnedTables, Numbers
<1>3. \A y \in Tables : y \in Nat /\ deleted[y] \in Nat
  BY Types, Numbers
<1>4. ASSUME NEW y \in Tables
      PROVE  Cardinality({o \in Owned(x) : sources[o[1]][o[2]] = y}) = IF x < y /\ y < v THEN 1 ELSE 0
  <2> DEFINE S == {o \in Owned(x) : sources[o[1]][o[2]] = y}
  <2>1. \A o : o \in S <=> o \in {v} \X (2..(v - x)) /\ x + o[2] - 1 = y
    BY <1>2
  <2>2. CASE x < y /\ y < v
    <3>1. PICK i : i = y - x + 1
      OBVIOUS
    <3>2. i \in 2..(v - x) /\ x + i - 1 = y /\ \A k \in 2..(v - x) : x + k - 1 = y => k = i
      <4>1. y \in Nat /\ v \in Nat /\ x \in Nat
        BY <1>2, <1>3
      <4>2. i \in Nat /\ i >= 2 /\ i <= v - x /\ x + i - 1 = y
        BY <2>2, <3>1, <4>1
      <4> QED
        BY <3>1, <4>1, <4>2
    <3>3. S = {<<v, i>>}
      BY <2>1, <3>2
    <3> QED
      BY <2>2, <3>3, FS_Singleton
  <2>3. CASE ~(x < y /\ y < v)
    <3>1. \A k \in 2..(v - x) : x + k - 1 # y
      BY <1>2, <1>3, <2>3
    <3>2. S = {}
      BY <2>1, <3>1
    <3> QED
      BY <2>3, <3>2, FS_EmptySet
  <2> QED
    BY <2>2, <2>3
<1>5. deleted' = [y \in Tables |-> deleted[y] + (IF y = x THEN 1 ELSE 0)
                                       + Cardinality({o \in Owned(x) : sources[o[1]][o[2]] = y})]
  BY DEF Delete
<1>6. \A y \in Tables : deleted'[y] = deleted[y] + (IF y = x THEN 1 ELSE 0) + (IF x < y /\ y < v THEN 1 ELSE 0)
  BY <1>4, <1>5
<1>7. \A y \in Tables : deleted'[y] = IF y = x \/ (x < y /\ y < v) THEN deleted[y] + 1 ELSE deleted[y]
  BY <1>2, <1>3, <1>6
<1>8. deleted' \in [Tables -> Nat]
  BY <1>3, <1>5, <1>7
<1> QED
  BY <1>1, <1>7, <1>8

\* The tables of two roots are different ones.
LEMMA RootsApart ==
    ASSUME IndInv, NEW x \in Tables, NEW y \in Tables, NEW z \in Tables, Root(x), Root(y),
           x <= z, z < victim[x], y <= z, z < victim[y]
    PROVE  x = y
<1>1. ASSUME NEW a \in Tables, NEW b \in Tables, Root(a), Root(b), a < b PROVE ~(b < victim[a])
  <2>1. Span(a, victim[a])
    BY <1>1 DEF IndInv, RootsInv
  <2>2. coordinator[b] # NoJob
    BY <1>1, Numbers DEF Root
  <2> QED
    BY <1>1, <2>1, <2>2 DEF Span
<1>2. x \in Nat /\ y \in Nat /\ z \in Nat /\ victim[x] \in Nat /\ victim[y] \in Nat
  BY Types, Numbers
<1>3. CASE x < y
  BY <1>1, <1>2, <1>3
<1>4. CASE y < x
  BY <1>1, <1>2, <1>4
<1> QED
  BY <1>2, <1>3, <1>4

\* A step that at most deletes tables.
LEMMA StillStep ==
    ASSUME IndInv, DeleteInv', deleted' \in [Tables -> Nat],
           UNCHANGED <<made, current, size, moved, coordinator, victim, sources, index, overflowed, state, unitsRemaining,
                       prev, retired, finished, me>>
    PROVE  IndInv'
<1>1. TypeInv'
  BY DEF IndInv, TypeInv, TableTypes, JobTypes
<1>2. RootInv' /\ CoordinatorInv'
  BY DEF IndInv, RootInv, RootOf, CoordinatorInv, Open, Helped, Publishing
<1>3. FreshInv' /\ OpenInv'
  <2>1. FreshInv'
    BY DEF IndInv, FreshInv, Chunks
  <2> QED
    BY <2>1, SMTT(30) DEF IndInv, OpenInv, Open, Span
<1>4. CountInv' /\ ConcludeInv'
  <2>1. \A j : Participants(j)' = Participants(j) /\ Joining(j)' = Joining(j) /\ Done(j)' = Done(j)
    BY DEF Participants, Joining, Inside, At, Done
  <2>2. CountInv'
    BY <2>1 DEF IndInv, CountInv, CountOf
  <2>3. ConcludeInv'
    BY <2>1 DEF IndInv, ConcludeInv, ConcludeOf, Open
  <2> QED
    BY <2>2, <2>3
<1>5. (Open => HoldInv /\ WorkInv)'
  <2>1. Open' = Open /\ \A u, w : Taken(u, w)' = Taken(u, w) /\ Tried(u, w)' = Tried(u, w)
    BY DEF Open, Taken, Tried, Holds, At
  <2>2. Work(sources[made])' = Work(sources[made]) /\ AllMoved' = AllMoved /\ \A n : AllClaimed(n)' = AllClaimed(n)
    BY DEF Work, Chunks, AllMoved, AllClaimed
  <2>3. Pending' = Pending /\ Marking' = Marking /\ Done(made)' = Done(made) /\ \A y : Chunks(y)' = Chunks(y)
    BY <2>1, <2>2 DEF Pending, Marking, At, Done, Chunks
  <2>4. \A u : HoldOf(u)' = HoldOf(u)
    BY <2>2, <2>3 DEF HoldOf
  <2>5. HoldInv' = HoldInv
    BY <2>1, <2>2, <2>4 DEF HoldInv
  <2>6. WorkInv' = WorkInv
    BY <2>1, <2>2, <2>3 DEF WorkInv
  <2> QED
    BY <2>1, <2>5, <2>6 DEF IndInv
<1>6. RootsInv'
  BY RootsKept DEF IndInv, FreshInv
<1>7. RetireInv' /\ \A y : Root(y)' = Root(y)
  BY DEF IndInv, RetireInv, RetireOf, Retiring, Root, At
<1> QED
  BY <1>1, <1>2, <1>3, <1>4, <1>5, <1>6, <1>7 DEF IndInv

\* ~HashTable: a table goes with all that belongs to it.
LEMMA DeleteStep ==
    ASSUME IndInv, NEW x \in Tables, Delete(x)
    PROVE  IndInv'
<1>1. PICK v : v = victim[x]
  OBVIOUS
<1>2. /\ Root(x) /\ deleted[x] = 0 /\ retired[x] = 1
      /\ \A y \in Tables : deleted'[y] = IF y = x \/ (x < y /\ y < v) THEN deleted[y] + 1 ELSE deleted[y]
      /\ deleted' \in [Tables -> Nat]
  BY <1>1, DeleteCounts
<1>3. UNCHANGED <<made, current, size, moved, coordinator, victim, sources, index, overflowed, state, unitsRemaining,
                  prev, retired, finished, me>>
  BY DEF Delete, tableVars, jobVars
<1>4. v \in Nat /\ x < v /\ v <= current /\ Span(x, v) /\ x \in Nat /\ current \in Nat
  BY <1>1, <1>2, OwnedTables, Types, Numbers
<1>5. \A y : Root(y)' = Root(y)
  BY <1>3 DEF Root
<1>6. DeleteInv'
  <2>1. DeleteInv /\ \A y \in Tables : y \in Nat /\ deleted[y] \in Nat
    BY Types, Numbers DEF IndInv
  <2>2. ASSUME NEW y \in Tables, Root(y) PROVE y # x => ~(x < y /\ y < v)
    <3>1. y < victim[y] /\ y <= y
      BY <2>1, <2>2 DEF IndInv, RootsInv
    <3>2. y # x /\ x < y /\ y < v => x <= y
      BY <1>4, <2>1
    <3> QED
      BY <1>1, <1>2, <2>2, <3>1, <3>2, RootsApart
  <2>3. \A y \in Tables : Root(y) => deleted'[y] <= retired[y]
    BY <1>2, <2>1, <2>2 DEF DeleteInv
  <2>4. ASSUME NEW y \in Tables, NEW z \in Tables, Root(y), y < z, z < victim[y] PROVE deleted'[z] = deleted'[y]
    <3>1. deleted[z] = deleted[y]
      BY <2>1, <2>4 DEF DeleteInv
    <3>2. CASE y = x
      BY <1>1, <1>2, <2>4, <3>1, <3>2
    <3>3. CASE y # x
      <4>1. z # x
        <5>1. Span(y, victim[y])
          BY <2>4 DEF IndInv, RootsInv
        <5>2. coordinator[z] = NoJob /\ coordinator[x] # NoJob
          BY <1>2, <2>4, <5>1, Numbers DEF Span, Root
        <5> QED
          BY <5>2
      <4>2. ~(x < z /\ z < v)
        <5>1. x < z /\ z < v => x <= z
          BY <1>4, <2>1
        <5>2. y <= z
          BY <2>1, <2>4
        <5> QED
          BY <1>1, <1>2, <2>4, <3>3, <5>1, <5>2, RootsApart
      <4>3. deleted'[z] = deleted[z] /\ deleted'[y] = deleted[y]
        BY <1>2, <2>2, <2>4, <3>3, <4>1, <4>2
      <4> QED
        BY <3>1, <4>3
    <3> QED
      BY <3>2, <3>3
  <2>5. \A y \in Tables : y >= current => deleted'[y] = 0
    <3> SUFFICES ASSUME NEW y \in Tables, y >= current PROVE deleted'[y] = 0
      OBVIOUS
    <3>1. deleted[y] = 0 /\ y # x /\ ~(x < y /\ y < v)
      BY <1>4, <2>1 DEF DeleteInv
    <3> QED
      BY <1>2, <3>1
  <2> QED
    BY <1>3, <1>5, <2>3, <2>4, <2>5 DEF DeleteInv
<1> QED
  BY <1>2, <1>3, <1>6, StillStep

-----------------------------------------------------------------------------
(* The invariant holds *)

\* The map starts with an empty table and no job.
LEMMA InitIndInv == Init => IndInv
<1> SUFFICES ASSUME Init PROVE IndInv
  OBVIOUS
<1>1. /\ made = 0 /\ current = 0 /\ 0 \in Tables /\ FirstSize \in Nat /\ FirstSize > 0
      /\ \A x \in Tables : x \in Nat /\ ~(x < 0)
  BY Numbers, MigrationAssumption DEF Init
<1>2. \A t \in Threads : me[t] = Idle /\ me[t].pc = "idle" /\ me[t].root = NoTable
  BY DEF Init, Idle
<1>3. /\ \A x \in Tables : moved[x] = {} /\ coordinator[x] = NoJob /\ retired[x] = 0 /\ deleted[x] = 0
      /\ size[0] = FirstSize
      /\ \A j \in Jobs : state[j] = 0 /\ finished[j] = 0 /\ overflowed[j] = FALSE /\ prev[j] = NoJob
  BY <1>1 DEF Init
<1>4. ~Open /\ \A x \in Tables : ~Root(x)
  BY <1>1 DEF Open, Root
<1>5. TypeInv
  <2>1. Idle \in Locals
    BY Numbers DEF Locals, Idle, Places
  <2>2. <<>> \in Seq(Tables \cup {NoTable})
    OBVIOUS
  <2>3. TableTypes
    BY <1>1, Numbers DEF Init, TableTypes
  <2>4. JobTypes
    BY <2>2 DEF Init, JobTypes
  <2> QED
    BY <2>1, <2>3, <2>4 DEF Init, TypeInv
<1>6. RootInv
  BY <1>2 DEF RootInv, RootOf, Helping, Serving, Joined, Loops, Concluding
<1>7. CoordinatorInv
  BY <1>1, <1>3, Numbers DEF CoordinatorInv
<1>8. FreshInv
  <2>1. \A x \in Tables : x <= 0 => size[x] > 0
    BY <1>1, <1>3
  <2> QED
    BY <1>1, <1>3, <2>1 DEF FreshInv
<1>9. CountInv
  <2> SUFFICES ASSUME NEW j \in Jobs PROVE CountOf(j)
    BY DEF CountInv
  <2>1. Participants(j) = {}
    BY <1>2 DEF Participants, Inside
  <2>2. Cardinality(Participants(j)) = 0
    BY <2>1, FS_EmptySet
  <2>3. state[j] = 0 /\ finished[j] = 0 /\ ~Done(j)
    BY <1>3 DEF Done
  <2>4. ~(j <= current) /\ ~(j < made)
    BY <1>1, Numbers
  <2> QED
    BY <2>2, <2>3, <2>4 DEF CountOf
<1>10. ConcludeInv
  BY <1>2 DEF ConcludeInv, ConcludeOf, Concluding
<1>11. RootsInv /\ RetireInv /\ DeleteInv
  <2>1. RootsInv
    BY <1>1, <1>4 DEF RootsInv, PublishedComplete
  <2>2. RetireInv
    BY <1>2, <1>3, <1>4 DEF RetireInv, RetireOf, At
  <2> QED
    BY <1>3, <1>4, <2>1, <2>2 DEF DeleteInv
<1> QED
  BY <1>4, <1>5, <1>6, <1>7, <1>8, <1>9, <1>10, <1>11 DEF IndInv, OpenInv

\* Nothing happens.
LEMMA StutterIndInv == IndInv /\ UNCHANGED vars => IndInv'
<1> SUFFICES ASSUME IndInv, UNCHANGED vars PROVE IndInv'
  OBVIOUS
<1>1. UNCHANGED <<made, size, moved, current, coordinator, victim, sources, index, overflowed, state, unitsRemaining,
                  prev, retired, deleted, finished, me>>
  BY DEF vars, tableVars, jobVars, gcVars
<1>2. DeleteInv' /\ deleted' \in [Tables -> Nat]
  BY <1>1 DEF IndInv, DeleteInv, Root, TypeInv, TableTypes
<1> QED
  BY <1>1, <1>2, StillStep

\* Every step of Next keeps the invariant.
LEMMA NextIndInv == IndInv /\ [Next]_vars => IndInv'
<1> SUFFICES ASSUME IndInv, Next PROVE IndInv'
  BY StutterIndInv
<1>1. CASE \E x \in Tables : Delete(x)
  BY <1>1, DeleteStep
<1>2. ASSUME NEW t \in Threads, Load(t) \/ Working(t) \/ PromptLeave(t) PROVE IndInv'
  <2>1. CASE Load(t) \/ Succeed(t)
    BY <2>1, LoadStep
  <2>2. CASE HelpMigration(t) \/ StartJoins(t) \/ Overflow(t)
    BY <2>2, TurnStep
  <2>3. CASE migrationStart(t)
    BY <2>3, StartStep
  <2>4. CASE Participate(t) \/ Run(t)
    BY <2>4, ParticipateStep, RunStep
  <2>5. CASE Join(t) \/ NextChunk(t) \/ Claim(t)
    BY <2>5, JoinStep, NextChunkStep, ClaimStep
  <2>6. CASE migrateRange(t) \/ RangeOverflow(t)
    BY <2>6, RangeStep, RangeOverflowStep
  <2>7. CASE Unit(t) \/ Mark(t) \/ PromptLeave(t)
    BY <2>7, UnitStep, MarkStep, LeaveStep
  <2>8. CASE Succeeded(t) \/ EndJobs(t)
    BY <2>8, SucceededStep, EndJobsStep
  <2>9. CASE finishMigration(t) \/ ScheduleOldRoot(t)
    BY <2>9, FinishStep, RetireStep
  <2>10. CASE HandOver(t)
    BY <2>10, HandOverStep
  <2> QED
    BY <1>2, <2>1, <2>2, <2>3, <2>4, <2>5, <2>6, <2>7, <2>8, <2>9, <2>10 DEF Working
<1> QED
  BY <1>1, <1>2 DEF Next

\* Under Prompt, the inductive invariant holds in every reachable state.
THEOREM Invariance == Spec => []IndInv
BY InitIndInv, NextIndInv, PTL DEF Spec

-----------------------------------------------------------------------------
(* What follows from it *)

\* state counts two for every thread inside a job and nothing is worked on that
\* does not exist, for any number of threads, jobs and chunks.
THEOREM TypeCorrect == Spec => []TypeOK
<1>1. IndInv => TypeOK
  <2> SUFFICES ASSUME IndInv PROVE TypeOK
    OBVIOUS
  <2>1. TableTypes /\ JobTypes
    BY DEF IndInv, TypeInv
  <2>2. ASSUME NEW j \in Jobs PROVE state[j] \div 2 = Cardinality({t \in Threads : Inside(t, j)})
    <3>1. CountOf(j) /\ Cardinality(Participants(j)) \in Nat
      BY Types, Finite
    <3>2. PICK c \in Nat : c = Cardinality(Participants(j))
      BY <3>1
    <3>3. state[j] = 2 * c \/ state[j] = 2 * c + 1
      BY <3>1, <3>2 DEF CountOf
    <3>4. state[j] \div 2 = c
      BY <3>3
    <3> QED
      BY <3>2, <3>4 DEF Participants
  <2>3. ASSUME NEW t \in Threads, At(t, "range") PROVE Source(t) \in Tables /\ me[t].chunk \in Chunks(Source(t))
    <3>1. me[t].pc = "range"
      BY <2>3 DEF At
    <3>2. /\ me[t].job = made /\ Open /\ HoldOf(t) /\ me[t].pos \in 1..(made - current)
      BY <3>1, AtChunk
    <3>3. Source(t) = current + me[t].pos - 1 /\ Source(t) \in Tables
      BY <3>2, WorkMember DEF Source
    <3>4. me[t].chunk \in Chunks(current + me[t].pos - 1)
      BY <3>1, <3>2 DEF HoldOf
    <3> QED
      BY <3>3, <3>4
  <2> QED
    BY <2>1, <2>2, <2>3 DEF TypeOK, TableTypes, JobTypes
<1> QED
  BY <1>1, Invariance, PTL

\* "called once per successful migration": no job is concluded twice.
THEOREM ConcludedOnce == Spec => []FinishedOnce
<1>1. IndInv => FinishedOnce
  BY Types DEF CountOf, FinishedOnce
<1> QED
  BY <1>1, Invariance, PTL

\* No participant meets the nullptr of a source that was handed over.
THEOREM SourcesHeld == Spec => []SourcesPresent
<1>1. IndInv => SourcesPresent
  <2> SUFFICES ASSUME IndInv, NEW t \in Threads
               PROVE  /\ me[t].pc \in {"claim", "range", "unit"} => Source(t) # NoTable
                      /\ me[t].pc \in {"conclude", "end"} => Orig(t) # NoTable
    BY DEF SourcesPresent
  <2>1. ASSUME me[t].pc \in {"claim", "range", "unit"} PROVE Source(t) # NoTable
    <3>1. me[t].job = made /\ Open /\ me[t].pos \in 1..(made - current)
      BY <2>1, AtChunk
    <3> QED
      BY <3>1, WorkMember, Numbers DEF Source
  <2>2. ASSUME me[t].pc \in {"conclude", "end"} PROVE Orig(t) # NoTable
    BY <2>2, AtConclusion, Numbers DEF Orig, Concluding
  <2> QED
    BY <2>1, <2>2
<1> QED
  BY <1>1, Invariance, PTL

\* finishMigration publishes a table only when every table before it is empty.
THEOREM Complete == Spec => []PublishedComplete
<1>1. IndInv => PublishedComplete
  BY DEF IndInv, RootsInv
<1> QED
  BY <1>1, Invariance, PTL

\* A table is deleted at most once, and not while it is the map's.
THEOREM NoDoubleDelete == Spec => []DeletedOnce
<1>1. IndInv => DeletedOnce
  <2> SUFFICES ASSUME IndInv PROVE DeletedOnce
    OBVIOUS
  <2>1. current \in Tables /\ current \in Nat /\ \A x \in Tables : x \in Nat /\ retired[x] \in Nat /\ deleted[x] \in Nat
    BY Types, Numbers
  <2>2. retired[current] = 0
    BY <2>1 DEF IndInv, RetireInv, Root
  <2>3. ASSUME NEW x \in Tables PROVE deleted[x] <= 1 /\ (x = current => deleted[x] = 0)
    <3>1. CASE x >= current
      BY <2>1, <3>1 DEF IndInv, DeleteInv
    <3>2. CASE x < current
      <4>1. PICK r \in Tables : r <= x /\ Root(r) /\ x < victim[r]
        BY <3>2 DEF IndInv, RootsInv
      <4>2. deleted[r] <= retired[r] /\ retired[r] <= 1
        BY <4>1 DEF IndInv, DeleteInv, RetireInv
      <4>3. deleted[x] = deleted[r]
        BY <2>1, <4>1 DEF IndInv, DeleteInv
      <4> QED
        BY <2>1, <3>2, <4>2, <4>3
    <3> QED
      BY <2>1, <3>1, <3>2
  <2> QED
    BY <2>2, <2>3 DEF DeletedOnce
<1> QED
  BY <1>1, Invariance, PTL

\* When no operation is under way, every table but the map's can be reclaimed.
THEOREM NoLeak == Spec => []NothingLeaks
<1>1. IndInv => NothingLeaks
  <2> SUFFICES ASSUME IndInv, \A t \in Threads : At(t, "idle") PROVE Reclaimable = (0..made) \ {current}
    BY DEF NothingLeaks
  <2>1. \A t \in Threads : me[t].pc \notin Helping
    BY DEF At, Helping, Serving, Joined, Loops, Concluding
  <2>2. made = current
    <3>1. ~Helped /\ ~Publishing
      BY <2>1 DEF Helped, Publishing, Helping, Serving, Concluding
    <3> QED
      BY <3>1, Types DEF IndInv, CoordinatorInv
  <2>3. \A x \in Tables : retired[x] > 0 <=> Root(x)
    <3>1. \A x : ~Retiring(x)
      BY DEF Retiring, At
    <3> QED
      BY <3>1, Types DEF IndInv, RetireInv
  <2>4. made \in Nat /\ 0..made \subseteq Tables /\ \A x \in Tables : x \in Nat
    BY Types, Numbers
  <2>5. \A x \in 0..made : retired[x] > 0 <=> Root(x)
    BY <2>3, <2>4
  <2>6. ASSUME NEW z \in Reclaimable PROVE z \in (0..made) \ {current}
    <3>1. CASE \E x \in 0..made : Root(x) /\ z = x
      BY <2>2, <2>4, <3>1 DEF Root
    <3>2. ASSUME NEW x \in 0..made, Root(x), NEW o \in Owned(x), z = sources[o[1]][o[2]]
          PROVE  z \in (0..made) \ {current}
      <4>1. PICK v : v = victim[x]
        OBVIOUS
      <4>2. x \in Tables /\ x \in Nat
        BY <2>4
      <4>3. /\ v \in Jobs /\ x < v /\ v <= current /\ o \in {v} \X (2..(v - x))
            /\ \A i \in 2..(v - x) : sources[v][i] = x + i - 1
        BY <3>2, <4>1, <4>2, OwnedTables
      <4>4. o[1] = v /\ o[2] \in 2..(v - x) /\ v \in Nat
        BY <4>3, Numbers
      <4>5. z = x + o[2] - 1
        BY <3>2, <4>3, <4>4
      <4> QED
        BY <2>2, <2>4, <4>2, <4>3, <4>4, <4>5
    <3> QED
      BY <2>5, <2>6, <3>1, <3>2 DEF Reclaimable
  <2>7. ASSUME NEW z \in (0..made) \ {current} PROVE z \in Reclaimable
    <3>1. z \in Tables /\ z < current /\ z \in Nat
      BY <2>2, <2>4
    <3>2. PICK x \in Tables : x <= z /\ Root(x) /\ z < victim[x]
      BY <3>1 DEF IndInv, RootsInv
    <3>3. x \in 0..made /\ x \in Nat /\ retired[x] > 0
      BY <2>2, <2>3, <2>4, <3>1, <3>2
    <3>4. CASE z = x
      BY <3>3, <3>4 DEF Reclaimable
    <3>5. CASE z # x
      <4>1. PICK v : v = victim[x]
        OBVIOUS
      <4>2. /\ v \in Jobs /\ \A o : o \in Owned(x) <=> o \in {v} \X (2..(v - x))
            /\ \A i \in 2..(v - x) : sources[v][i] = x + i - 1
        BY <3>2, <4>1, OwnedTables
      <4>3. PICK i : i = z - x + 1
        OBVIOUS
      <4>4. i \in 2..(v - x) /\ x + i - 1 = z
        BY <3>1, <3>2, <3>3, <3>5, <4>1, <4>2, <4>3, Numbers
      <4>5. <<v, i>> \in Owned(x) /\ z = sources[v][i]
        BY <4>2, <4>4
      <4>6. PICK o : o = <<v, i>>
        OBVIOUS
      <4>7. o \in Owned(x) /\ sources[o[1]][o[2]] = z
        BY <4>5, <4>6
      <4> QED
        BY <3>3, <4>7 DEF Reclaimable
    <3> QED
      BY <3>4, <3>5
  <2> QED
    BY <2>6, <2>7
<1> QED
  BY <1>1, Invariance, PTL

-----------------------------------------------------------------------------
(* Nobody waits for a job that nobody works on *)

\* Somebody works on the open job or concludes it.
Busy == \E u \in Threads : me[u].pc \in Joined \cup Concluding

\* A thread that has left the open job, or found it done, leaves others in it.
\* A job that is to be retired was published.
BusyInv ==
    /\ \A t \in Threads : me[t].prevJob <= made /\ (At(t, "retire") => me[t].job <= current)
    /\ Open /\ (Done(made) \/ \E t \in Threads : me[t].prevJob = made) => Busy

\* A step of t that leaves the jobs alone and does not take t out of one.
LEMMA BusyKept ==
    ASSUME IndInv, BusyInv, NEW t \in Threads, UNCHANGED <<made, current, state>>,
           Only(t), me'[t].prevJob \in {NoJob, me[t].prevJob}, me'[t].pc # "retire",
           me[t].pc \in Joined \cup Concluding => me'[t].pc \in Joined \cup Concluding
    PROVE  BusyInv'
<1>1. made \in Nat /\ current \in Nat /\ current <= made /\ NoJob = 0
  BY Types, Numbers
<1>2. \A u \in Threads : me'[u].prevJob <= made' /\ (At(u, "retire")' => me'[u].job <= current')
  BY <1>1 DEF BusyInv, Only, At
<1>3. ASSUME Open', Done(made)' \/ \E u \in Threads : me'[u].prevJob = made' PROVE Busy'
  <2>1. Open /\ (Done(made) \/ \E u \in Threads : me[u].prevJob = made)
    BY <1>1, <1>3 DEF Open, Done, Only
  <2>2. PICK u \in Threads : me[u].pc \in Joined \cup Concluding
    BY <2>1 DEF BusyInv, Busy
  <2>3. me'[u].pc \in Joined \cup Concluding
    BY <2>2 DEF Only
  <2> QED BY <2>3 DEF Busy
<1> QED BY <1>2, <1>3 DEF BusyInv

\* A step after which t is in the open job.
LEMMA BusyWith ==
    ASSUME IndInv, BusyInv, NEW t \in Threads, UNCHANGED <<made, current>>, Only(t),
           me'[t].prevJob = me[t].prevJob, me'[t].pc \in Joined \cup Concluding
    PROVE  BusyInv'
<1>1. \A u \in Threads : me'[u].prevJob <= made' /\ (At(u, "retire")' => me'[u].job <= current')
  BY DEF BusyInv, Only, At, Joined, Loops, Concluding
<1> QED BY <1>1 DEF BusyInv, Busy

\* A new job has not been run by anybody.
LEMMA BusyNew ==
    ASSUME IndInv, BusyInv, NEW t \in Threads, made' = made + 1, current' = current, state' = state,
           made' \in Jobs, Only(t), me'[t].prevJob \in {me[t].prevJob, made}, me'[t].pc # "retire"
    PROVE  BusyInv'
<1>1. made \in Nat /\ current \in Nat /\ state[made + 1] = 0
  BY Types DEF IndInv, FreshInv
<1>2. \A u \in Threads : me'[u].prevJob \in Int /\ me'[u].prevJob <= made
  <2>1. \A u \in Threads : me'[u].prevJob \in Jobs \cup {NoJob}
    BY DEF Only, Locals
  <2> QED BY <1>1, <2>1, Numbers DEF BusyInv, Only
<1>3. \A u \in Threads : At(u, "retire")' => me'[u].job <= current'
  BY DEF BusyInv, Only, At
<1>4. ~Done(made)' /\ \A u \in Threads : me'[u].prevJob # made'
  BY <1>1, <1>2 DEF Done
<1> QED BY <1>1, <1>2, <1>3, <1>4 DEF BusyInv

\* Run finds the job done, whose other participants have not concluded it yet.
LEMMA BusyRun ==
    ASSUME IndInv, BusyInv, NEW t \in Threads, Run(t)
    PROVE  BusyInv'
<1>1. me[t].pc = "run" /\ UNCHANGED <<made, current, state>> /\ TypeInv /\ me \in [Threads -> Locals]
  BY DEF Run, At, IndInv, TypeInv, jobVars
<1>2. me[t].job \in Jobs /\ me[t].job \in Nat /\ me[t].job <= made /\ made \in Nat /\ current \in Nat
  <2>1. me[t].job \in 1..made
    BY <1>1 DEF IndInv, RootInv, RootOf, Serving
  <2> QED BY <2>1, Types, Numbers
<1>3. CASE ~Done(me[t].job)
  <2>1. me' = [me EXCEPT ![t].pc = "join"] /\ "join" \in Places
    BY <1>3 DEF Run, Places, Helping, Serving
  <2>2. Only(t) /\ me'[t].pc = "join" /\ Keeps(t)
    BY <1>1, <2>1, Move
  <2> QED BY <1>1, <2>2, BusyKept DEF Keeps, Joined, Loops, Concluding
<1>4. CASE Done(me[t].job)
  <2>1. Return(t)
    BY <1>4 DEF Run
  <2>2. Only(t) /\ me'[t].pc = "participate" /\ me'[t].prevJob = me[t].job
    BY <1>1, <1>2, <2>1, Back DEF Return, Idle
  <2>3. \A u \in Threads : me'[u].prevJob <= made' /\ (At(u, "retire")' => me'[u].job <= current')
    BY <1>1, <1>2, <2>2 DEF BusyInv, Only, At
  <2>4. ASSUME Open', Done(made)' \/ \E u \in Threads : me'[u].prevJob = made' PROVE Busy'
    <3>1. Open /\ (Done(made) \/ \E u \in Threads : me[u].prevJob = made)
      BY <1>1, <1>4, <2>2, <2>4 DEF Open, Done, Only
    <3>2. PICK u \in Threads : me[u].pc \in Joined \cup Concluding
      BY <3>1 DEF BusyInv, Busy
    <3>3. u # t
      BY <1>1, <3>2 DEF Joined, Loops, Concluding
    <3> QED BY <2>2, <3>2, <3>3 DEF Busy, Only
  <2> QED BY <2>3, <2>4 DEF BusyInv
<1> QED BY <1>3, <1>4

\* Whoever leaves a job is followed by another participant, or concludes it.
LEMMA BusyLeave ==
    ASSUME IndInv, BusyInv, NEW t \in Threads, PromptLeave(t)
    PROVE  BusyInv'
<1>1. me[t].pc = "leave" /\ UNCHANGED <<made, current>> /\ TypeInv /\ me \in [Threads -> Locals]
  BY DEF PromptLeave, Leave, At, IndInv, TypeInv
<1>2. me[t].job = made /\ made \in Jobs /\ made \in Nat /\ t \in Participants(made)
  BY <1>1, InsideOpen, Types DEF Joined
<1>3. CASE ~(state[made] > 3)
  <2>1. me' = [me EXCEPT ![t].pc = "conclude"] /\ "conclude" \in Places
    BY <1>2, <1>3 DEF PromptLeave, Leave, Places, Helping, Serving, Concluding
  <2>2. Only(t) /\ me'[t].pc = "conclude" /\ Keeps(t)
    BY <1>1, <2>1, Move
  <2> QED BY <1>1, <2>2, BusyWith DEF Keeps, Concluding
<1>4. CASE state[made] > 3
  <2>1. Return(t)
    BY <1>2, <1>4 DEF PromptLeave, Leave
  <2>2. Only(t) /\ me'[t].pc = "participate" /\ me'[t].prevJob = made
    BY <1>1, <1>2, <2>1, Back DEF Return, Idle
  <2>3. \A u \in Threads : me'[u].prevJob <= made' /\ (At(u, "retire")' => me'[u].job <= current')
    BY <1>1, <1>2, <2>2 DEF BusyInv, Only, At
  <2>4. Participants(made) # {t}
    <3>1. CountOf(made) /\ state[made] \in Nat /\ Cardinality(Participants(made)) \in Nat
      BY <1>2, Types, Finite
    <3>2. Cardinality(Participants(made)) # 1
      BY <1>4, <3>1 DEF CountOf
    <3>3. Cardinality({t}) = 1
      BY FS_Singleton
    <3> QED BY <3>2, <3>3
  <2>5. PICK u \in Participants(made) : u # t
    BY <1>2, <2>4
  <2>6. u \in Threads /\ me'[u].pc \in Joined
    BY <2>2, <2>5 DEF Participants, Inside, Only, Joined, Loops
  <2> QED BY <2>3, <2>6 DEF BusyInv, Busy
<1> QED BY <1>3, <1>4

\* The published table is the current one from then on, and no job is open.
LEMMA BusyFinish ==
    ASSUME IndInv, BusyInv, NEW t \in Threads, finishMigration(t)
    PROVE  BusyInv'
<1>1. me[t].pc = "publish" /\ made' = made /\ current' = me[t].job /\ me \in [Threads -> Locals]
  BY DEF finishMigration, At, IndInv, TypeInv
<1>2. current' = made /\ made \in Nat /\ current \in Nat /\ current <= made
  BY <1>1, Types DEF IndInv, ConcludeInv, ConcludeOf, Concluding
<1>3. ASSUME NEW u \in Threads PROVE me'[u].prevJob = me[u].prevJob /\ me'[u].job = me[u].job /\ (u # t => me'[u] = me[u])
  BY <1>1 DEF finishMigration, Locals
<1>4. ASSUME NEW u \in Threads, At(u, "retire")' PROVE me'[u].job <= current'
  <2>1. CASE u = t
    <3>1. me'[u].job = current' /\ current' \in Nat
      BY <1>1, <1>2, <1>3, <2>1
    <3>2. \A n \in Nat : n <= n
      OBVIOUS
    <3> QED BY <3>1, <3>2
  <2>2. CASE u # t
    <3>1. me[u].pc = "retire" /\ me[u].job <= current /\ me'[u].job = me[u].job
      BY <1>3, <1>4, <2>2 DEF At, BusyInv
    <3>2. me[u].job \in Int
      BY <1>1, Fields, Numbers
    <3> QED BY <1>2, <3>1, <3>2
  <2> QED BY <2>1, <2>2
<1> QED BY <1>1, <1>2, <1>3, <1>4 DEF BusyInv, Open

\* Retiring a table ends a job that was published before.
LEMMA BusyRetire ==
    ASSUME IndInv, BusyInv, NEW t \in Threads, ScheduleOldRoot(t)
    PROVE  BusyInv'
<1>1. me[t].pc = "retire" /\ UNCHANGED <<made, current, state>> /\ TypeInv /\ me \in [Threads -> Locals] /\ Return(t)
  BY DEF ScheduleOldRoot, At, IndInv, TypeInv, jobVars
<1>2. me[t].job \in Jobs /\ me[t].job \in Nat /\ me[t].job <= current /\ made \in Nat /\ current \in Nat /\ current <= made
  <2>1. me[t].job \in 1..made
    BY <1>1 DEF IndInv, RootInv, RootOf, Serving
  <2> QED BY <1>1, <2>1, Types, Numbers DEF BusyInv, At
<1>3. Only(t) /\ me'[t].pc = "participate" /\ me'[t].prevJob = me[t].job
  BY <1>1, <1>2, Back DEF Return, Idle
<1>4. \A u \in Threads : me'[u].prevJob <= made' /\ (At(u, "retire")' => me'[u].job <= current')
  BY <1>1, <1>2, <1>3 DEF BusyInv, Only, At
<1>5. ASSUME Open', Done(made)' \/ \E u \in Threads : me'[u].prevJob = made' PROVE Busy'
  <2>1. Open /\ (Done(made) \/ \E u \in Threads : me[u].prevJob = made)
    BY <1>1, <1>2, <1>3, <1>5 DEF Open, Done, Only
  <2>2. PICK u \in Threads : me[u].pc \in Joined \cup Concluding
    BY <2>1 DEF BusyInv, Busy
  <2>3. u # t
    BY <1>1, <2>2 DEF Joined, Loops, Concluding
  <2> QED BY <1>3, <2>2, <2>3 DEF Busy, Only
<1> QED BY <1>4, <1>5 DEF BusyInv

\* The other steps move one thread on its way.
LEMMA BusyMoves ==
    ASSUME IndInv, BusyInv, NEW t \in Threads,
           \/ Load(t) \/ Succeed(t) \/ HelpMigration(t) \/ StartJoins(t) \/ Overflow(t) \/ Participate(t)
           \/ Join(t) \/ NextChunk(t) \/ Claim(t) \/ migrateRange(t) \/ RangeOverflow(t) \/ Unit(t) \/ Mark(t)
           \/ Succeeded(t) \/ EndJobs(t)
    PROVE  BusyInv'
<1>0. TypeInv /\ me \in [Threads -> Locals] /\ me[t] \in Locals /\ UNCHANGED <<made, current>>
  <2>1. UNCHANGED <<made, current>>
    BY DEF Load, Succeed, HelpMigration, StartJoins, Overflow, Participate, Join, NextChunk, Claim, migrateRange,
           RangeOverflow, Unit, Mark, Succeeded, EndJobs
  <2> QED BY <2>1 DEF IndInv, TypeInv
<1> USE <1>0
<1>1. CASE Load(t) \/ Succeed(t)
  <2>1. \A u \in Threads : u # t => me'[u] = me[u]
    BY <1>1 DEF Load, Succeed
  <2>2. me'[t].prevJob = NoJob /\ me'[t].pc \in {"idle", "try"} /\ state' = state
        /\ me[t].pc \in {"idle", "retry", "try"}
    <3>1. CASE Load(t)
      <4>1. me'[t] = [Idle EXCEPT !.pc = "try", !.root = current]
        BY <3>1 DEF Load
      <4> QED BY <3>1, <4>1 DEF Load, Idle, jobVars
    <3>2. CASE Succeed(t)
      <4>1. me'[t] = Idle
        BY <3>2 DEF Succeed
      <4> QED BY <3>2, <4>1 DEF Succeed, At, Idle, jobVars
    <3> QED BY <1>1, <3>1, <3>2
  <2>3. me' \in [Threads -> Locals]
    BY <1>1, NextIndInv DEF Next, Working, IndInv, TypeInv
  <2> QED BY <2>1, <2>2, <2>3, BusyKept DEF Only, Joined, Loops, Concluding
<1>2. CASE HelpMigration(t) \/ StartJoins(t) \/ Overflow(t)
  <2>1. PICK to \in {"participate", "start"} : me' = [me EXCEPT ![t].pc = to] /\ me[t].pc \in {"try", "start"}
    BY <1>2 DEF HelpMigration, StartJoins, Overflow, Goto, At
  <2>2. state' = state /\ to \in Places
    BY <1>2 DEF HelpMigration, StartJoins, Overflow, jobVars, Places, Helping
  <2>3. Only(t) /\ me'[t].pc = to /\ Keeps(t)
    BY <2>1, <2>2, Move
  <2> QED BY <2>1, <2>2, <2>3, BusyKept DEF Keeps, Joined, Loops, Concluding
<1>3. CASE Participate(t)
  <2>1. state' = state /\ me[t].pc = "participate" /\ \A u \in Threads : u # t => me'[u] = me[u]
    BY <1>3 DEF Participate, jobVars, At
  <2>2. me'[t].prevJob = me[t].prevJob /\ me'[t].pc \in {"retry", "run"}
    BY <1>3 DEF Participate, Locals
  <2>3. me' \in [Threads -> Locals]
    BY <1>3, NextIndInv DEF Next, Working, IndInv, TypeInv
  <2> QED BY <2>1, <2>2, <2>3, BusyKept DEF Only, Joined, Loops, Concluding
<1>4. CASE Join(t) \/ NextChunk(t) \/ Claim(t) \/ migrateRange(t) \/ RangeOverflow(t) \/ Unit(t) \/ Mark(t)
           \/ Succeeded(t) \/ EndJobs(t)
  <2>1. \A u \in Threads : u # t => me'[u] = me[u]
    BY <1>4 DEF Join, NextChunk, Claim, migrateRange, RangeOverflow, Unit, Mark, Succeeded, EndJobs, Goto
  <2>2. me'[t].prevJob = me[t].prevJob /\ me'[t].pc \in Joined \cup Concluding
    BY <1>4 DEF Join, NextChunk, Claim, migrateRange, RangeOverflow, Unit, Mark, Succeeded, EndJobs, Goto, Locals,
                Joined, Loops, Concluding
  <2>3. me' \in [Threads -> Locals]
    BY <1>4, NextIndInv DEF Next, Working, IndInv, TypeInv
  <2> QED BY <2>1, <2>2, <2>3, BusyWith DEF Only
<1> QED BY <1>1, <1>2, <1>3, <1>4

\* Every step keeps the invariant.
LEMMA BusyStep == IndInv /\ BusyInv /\ [Next]_vars => BusyInv'
<1> SUFFICES ASSUME IndInv, BusyInv, [Next]_vars PROVE BusyInv'
  OBVIOUS
<1>1. CASE UNCHANGED vars \/ \E x \in Tables : Delete(x)
  <2>1. UNCHANGED <<made, current, state, me>>
    BY <1>1 DEF vars, Delete, jobVars
  <2> QED BY <2>1 DEF BusyInv, Busy, At, Open, Done
<1>2. ASSUME NEW t \in Threads, migrationStart(t) PROVE BusyInv'
  <2>1. /\ made' = made + 1 /\ current' = current /\ state' = state /\ made < MaxJobs
        /\ me' = [me EXCEPT ![t].pc = "participate"] /\ TypeInv /\ "participate" \in Places
    BY <1>2 DEF migrationStart, NewJob, Goto, IndInv, Places, Helping
  <2>2. Only(t) /\ me'[t].pc = "participate" /\ Keeps(t)
    BY <2>1, Move
  <2>3. made' \in Jobs
    BY <2>1, Types, Numbers
  <2> QED BY <2>1, <2>2, <2>3, BusyNew DEF Keeps
<1>3. ASSUME NEW t \in Threads, HandOver(t) PROVE BusyInv'
  <2>1. /\ made' = made + 1 /\ current' = current /\ state' = state /\ me[t].pc = "conclude" /\ Return(t)
        /\ TypeInv /\ overflowed[me[t].job] /\ me \in [Threads -> Locals]
    BY <1>3 DEF HandOver, NewJob, At, IndInv, TypeInv
  <2>2. me[t].job = made /\ Open /\ made \in Jobs
    BY <2>1, Types DEF IndInv, ConcludeInv, ConcludeOf, Concluding
  <2>3. Only(t) /\ me'[t].pc = "participate" /\ me'[t].prevJob = made
    BY <2>1, <2>2, Back DEF Return, Idle
  <2>4. made' \in Jobs
    BY <2>1, <2>2, Types, Numbers DEF IndInv, WorkInv
  <2> QED BY <2>1, <2>3, <2>4, BusyNew
<1> QED BY <1>1, <1>2, <1>3, BusyMoves, BusyRun, BusyLeave, BusyFinish, BusyRetire DEF Next, Working

\* What OpsReturn rests on: whoever waits in participate for the next job of its
\* table waits for a thread that is in the present one or concludes it, and is
\* not waiting itself. So there is a wake-up to come, and no two threads that
\* wait for one another.
Waiting(t) == At(t, "participate") /\ coordinator[me[t].root] = me[t].prevJob
WaitsForWorker ==
    \A t \in Threads : Waiting(t) =>
        \E u \in Threads : me[u].pc \in Joined \cup Concluding /\ me[u].job = coordinator[me[t].root]

\* Under Prompt, nobody waits for a job that has been left by everybody.
THEOREM NoLostWait == Spec => []WaitsForWorker
<1>1. Init => BusyInv
  <2> SUFFICES ASSUME Init PROVE BusyInv
    OBVIOUS
  <2>1. made = 0 /\ current = 0 /\ \A t \in Threads : me[t] = Idle
    BY DEF Init
  <2> QED BY <2>1 DEF BusyInv, Open, At, Idle, NoJob
<1>2. IndInv /\ BusyInv => WaitsForWorker
  <2> SUFFICES ASSUME IndInv, BusyInv, NEW t \in Threads, Waiting(t)
               PROVE  \E u \in Threads : me[u].pc \in Joined \cup Concluding /\ me[u].job = coordinator[me[t].root]
    BY DEF WaitsForWorker
  <2>1. me[t].pc = "participate" /\ coordinator[me[t].root] = me[t].prevJob /\ me[t].prevJob \in Jobs \cup {NoJob}
    BY Types, Fields DEF Waiting, At
  <2>2. coordinator[me[t].root] \in Jobs /\ me[t].root = current
    BY <2>1, Numbers DEF IndInv, RootInv, RootOf, Helping
  <2>3. me[t].prevJob = made /\ coordinator[me[t].root] = made /\ Open
    BY <2>1, <2>2 DEF IndInv, CoordinatorInv
  <2>4. PICK u \in Threads : me[u].pc \in Joined \cup Concluding
    BY <2>3 DEF BusyInv, Busy
  <2>5. me[u].job = made
    BY <2>4, InsideOpen DEF IndInv, ConcludeInv, ConcludeOf
  <2> QED BY <2>3, <2>4, <2>5
<1> QED BY <1>1, <1>2, BusyStep, Invariance, InitIndInv, NextIndInv, PTL DEF Spec

=============================================================================
