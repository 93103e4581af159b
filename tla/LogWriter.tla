------------------------------ MODULE LogWriter ------------------------------
(***************************************************************************)
(* LogWriter (log_writer.h, log_writer.cpp): the processor thread records  *)
(* every trace it pops as a TRACE_START, its frames, and a NEW_METHOD the  *)
(* first time a method is met, with line numbers looked up in the method's *)
(* line number table. Records are the elements of output: their bytes and  *)
(* the thread id are left out, and info->release() is part of ThreadMap.   *)
(***************************************************************************)
EXTENDS Integers, Sequences, FiniteSets, FiniteSetsExt

CONSTANTS
    Methods,    \* method ids
    Starts,     \* start locations that line number tables can have
    Bcis,       \* byte code indices of frames; not positive: an error or none
    NumFrames,  \* num_frames of traces; negative: an error of the walk
    MaxEntries, \* bound: entries in a line number table
    MaxRecords  \* bound: no trace is begun when output is longer

ASSUME LogAssumption ==
    /\ Starts \subseteq Nat /\ Bcis \subseteq Int /\ NumFrames \subseteq Int
    /\ MaxEntries \in Nat /\ MaxRecords \in Nat

VARIABLES
    table,        \* the line number table of every method
    output,       \* the records in the current log file
    knownMethods,
    left,         \* frames of the current trace still to be recorded
    nameless      \* methods whose lookup has failed since the file was opened

logVars == <<table, output, knownMethods, left, nameless>>

\* "We assume the table is sorted by 'start_location'." Entries may begin at
\* the same place; their lines are told apart.
Sorted(t) == \A i, j \in DOMAIN t : i <= j => t[i].start <= t[j].start
Tables == {t \in UNION {{[i \in 1..n |-> [start |-> f[i], line |-> i]] : f \in [1..n -> Starts]} : n \in 0..MaxEntries} :
              Sorted(t)}

LogInit ==
    /\ table \in Tables
    /\ output = <<>> /\ knownMethods = {} /\ left = 0 /\ nameless = {}

-----------------------------------------------------------------------------
(* Line numbers *)

ERR_NO_LINE_INFO == -100

\* The binary search for an index to start from. Its states are half and
\* start_index; the entry at start_index + half is always one of the table's.
\* An equal entry ends the search: the scan then returns it at once.
approximate(bci, t) ==
    LET n == Len(t)
        search[p \in {p \in (0..n) \X (0..n) : p[2] < n /\ p[2] + 2 * p[1] <= n}] ==
            LET half == p[1]
                start == p[2]
                start_location == t[start + half + 1].start
            IN  IF half = 0 THEN start
                ELSE IF bci = start_location THEN start + half
                ELSE search[<<half \div 2, IF bci > start_location THEN start + half ELSE start>>]
    IN  search[<<n \div 2, 0>>]

\* The scan from there to the first entry that is not before bci.
scanFrom(bci, t, start_index) ==
    LET n == Len(t)
        scan[i \in 0..n] ==
            IF i < n /\ bci = t[i + 1].start THEN t[i + 1].line
            ELSE IF i < n /\ bci > t[i + 1].start THEN scan[i + 1]
            ELSE IF i = start_index THEN -102 ELSE t[i].line
    IN  scan[start_index]

\* Mutant of bci2line: the line at the approximated index.
bci2line_approx(bci, t) == IF Len(t) = 0 THEN -101 ELSE t[approximate(bci, t) + 1].line
bci2line(bci, t) == IF Len(t) = 0 THEN -101 ELSE scanFrom(bci, t, approximate(bci, t))

\* GetLineNumberTable fails for methods without the information.
getLineNo(bci) == {ERR_NO_LINE_INFO, bci2line(bci, table)}

-----------------------------------------------------------------------------
(* Recording *)

TraceStart(n) == [tag |-> "TRACE_START", n |-> n]
NewMethod(m) == [tag |-> "NEW_METHOD", method |-> m]
recordFrame(bci, m) ==
    IF bci > 0 THEN {[tag |-> "FRAME_FULL", bci |-> bci, line |-> l, method |-> m] : l \in getLineNo(bci)}
               ELSE {[tag |-> "FRAME_BCI_ONLY", bci |-> bci, method |-> m]}

\* record: the beginning of the next trace.
recordTraceStart(n) ==
    /\ left = 0 /\ Len(output) <= MaxRecords
    /\ output' = Append(output, TraceStart(n))
    /\ left' = IF n < 0 THEN 0 ELSE n
    /\ UNCHANGED <<table, knownMethods, nameless>>

\* The lookup announces the method, or fails for want of its name, its class
\* or the signature of that (a missing source file has a substitute).
lookupFrameInformation(m) == {<<NewMethod(m)>>, <<>>}

\* inspectMethod after frame has been written: a method is known before its
\* names are looked up, and stays known when the lookup fails.
inspectMethod(m, frame) ==
    \/ /\ m \in knownMethods
       /\ output' = Append(output, frame)
       /\ UNCHANGED <<knownMethods, nameless>>
    \/ /\ m \notin knownMethods
       /\ knownMethods' = knownMethods \cup {m}
       /\ \E news \in lookupFrameInformation(m) :
              /\ output' = Append(output, frame) \o news
              /\ nameless' = IF news = <<>> THEN nameless \cup {m} ELSE nameless

\* record: one frame of the trace.
RecordFrame(bci, m) ==
    /\ left > 0
    /\ left' = left - 1
    /\ \E frame \in recordFrame(bci, m) : inspectMethod(m, frame)
    /\ UNCHANGED table

\* Mutant of NewLog: what was known for the last file stays known.
NewLogKnowing ==
    /\ left = 0 /\ output # <<>>
    /\ output' = <<>> /\ nameless' = {}
    /\ UNCHANGED <<table, left, knownMethods>>
\* configure opens another file and makes a new LogWriter for it.
NewLog ==
    /\ left = 0 /\ output # <<>>
    /\ output' = <<>> /\ knownMethods' = {} /\ nameless' = {}
    /\ UNCHANGED <<table, left>>

LogNext ==
    \/ \E n \in NumFrames : recordTraceStart(n)
    \/ \E bci \in Bcis, m \in Methods : RecordFrame(bci, m)
    \/ NewLog
LogSpec == LogInit /\ [][LogNext]_logVars

-----------------------------------------------------------------------------
(* Properties *)

FrameTags == {"FRAME_FULL", "FRAME_BCI_ONLY"}

\* A recorded line is that of an entry with the greatest start location not
\* after the frame's byte code index, wherever the approximation by halving
\* ended: before the first entry, between two, on one or after the last.
Covering(bci, t) == {i \in DOMAIN t : t[i].start <= bci}
Nearest(bci, t) == {i \in Covering(bci, t) : \A j \in Covering(bci, t) : t[j].start <= t[i].start}
Reference(bci, t) == IF t = <<>> THEN {-101}
                     ELSE IF Covering(bci, t) = {} THEN {-102}
                     ELSE {t[i].line : i \in Nearest(bci, t)}
LinesRight ==
    \A i \in DOMAIN output :
        output[i].tag = "FRAME_FULL" => output[i].line \in {ERR_NO_LINE_INFO} \cup Reference(output[i].bci, table)

\* Every log file explains itself: a method met in a frame is announced in
\* the same file, once, right after the first frame that names it, unless
\* the lookup of its names failed.
MethodsAnnounced ==
    \A i \in DOMAIN output :
        output[i].tag \in FrameTags =>
            LET m == output[i].method
                news == {j \in DOMAIN output : output[j] = NewMethod(m)}
            IN  IF m \in nameless THEN news = {}
                ELSE Cardinality(news) = 1 /\ Max(news) <= i + 1
=============================================================================
