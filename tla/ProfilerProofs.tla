--------------------------- MODULE ProfilerProofs ---------------------------
(***************************************************************************)
(* Proofs about Profiler for any number of threads, workers and strings,   *)
(* any settings and any outcome of setitimer and RunAgentThread, under the *)
(* assumptions QuietStart and QuietUnload of Spec.                         *)
(***************************************************************************)
EXTENDS Profiler, FiniteSetTheorems, TLAPS

-----------------------------------------------------------------------------
(***************************************************************************)
(* The inductive invariant behind the properties above.                    *)
(***************************************************************************)

\* isRunning_ and reloadConfig, place by place: between the end of configure
\* and the stop there is nothing to reload.
PhaseInv ==
    /\ section \in {"arm", "halt"} => isRunning_
    /\ isRunning_ => section \in {"free", "arm", "halt"}
    /\ section \in {"log", "buffer", "processor"} => reloadConfig
    /\ isRunning_ \/ section \in {"action", "spawn"} => ~reloadConfig
    /\ needsUpdate => section \in {"buffer", "processor"}

\* Until the handler has been installed for the first time nobody has touched
\* the timer; it is installed only while the profiler runs, or is about to
\* start or end.
DispositionInv ==
    /\ action = "default" => /\ timer = 0 /\ ~isRunning_
                             /\ section \in {"free", "log", "buffer", "processor", "action", "gone"}
                             /\ \A a \in Actors : upd[a] = "none"
                             /\ \A w \in Workers : ~Running(w)
    /\ action = "handler" => isRunning_ \/ section \in {"spawn", "await", "ignore"}

\* A worker holds workerDone until it has ended, and while it runs the
\* profiler does, or is waiting for it.
WorkerInv ==
    \A w \in Workers : IF Running(w)
                        THEN /\ workerDone /\ (isRunning_ \/ section = "await")
                             /\ runs[w] = processor
                        ELSE runs[w] = 0

\* The objects refer to each other, except for what configure has replaced so
\* far and notes in needsUpdate.
ReferenceInv ==
    /\ processorRef.buffer # buffer => section = "processor" /\ needsUpdate
    /\ processorRef.writer # writer => needsUpdate
    /\ bufferRef # writer => section = "buffer" /\ needsUpdate

\* What the objects were made with is in configuration_, and the same as in
\* liveConfiguration unless a setter or configure has left something to do.
SettingsInv ==
    /\ capacity = conf.frames
    /\ section # "gone" => confPath # NULL /\ openFile = heap[confPath]
    /\ section \in {"buffer", "processor"} => livePath = confPath
    /\ section = "processor" => conf.frames = live.frames
    /\ ~reloadConfig /\ section # "gone" => livePath = confPath /\ conf = live

\* No handler is about while configure works, so it sees one configuration
\* and one buffer throughout.
HandlerInv ==
    \A t \in Threads :
        /\ hpc[t] # "out" => /\ section \notin {"log", "buffer", "processor", "gone"}
                             /\ room[t] = conf.frames
        /\ hpc[t] \in {"load", "push"} => taken[t] <= conf.frames
        /\ target[t] = IF hpc[t] = "push" THEN buffer ELSE 0

IndInv ==
    /\ TypeOK /\ PhaseInv /\ DispositionInv /\ OneConsumer /\ WorkerInv /\ ReferenceInv
    /\ SettingsInv /\ StringsOwned /\ HandlerInv

-----------------------------------------------------------------------------
(* Objects and settings *)

\* There are identities enough: with at most two in use, a new object has one
\* that differs from both.
LEMMA FreshIsNew ==
    ASSUME NEW i, NEW j, NEW used, used \subseteq {i, j}
    PROVE  Fresh(used) \in Objects /\ Fresh(used) \notin used
<1>1. Cardinality(Threads) \in Nat
  BY IdentityAssumption, FS_CardinalityType
<1>2. {1, 2, 3} \subseteq Objects
  BY <1>1 DEF Objects
<1>3. \E k \in Objects : k \notin used
  BY <1>2
<1> QED
  BY <1>3 DEF Fresh

\* Whatever the setters are given, the settings stay valid.
LEMMA SettersValidate ==
    ASSUME NEW s \in [min : Nat, max : Nat, frames : Nat]
    PROVE  /\ \A i, j \in Int :
                 /\ WithInterval(s, i, j) \in [min : Nat, max : Nat, frames : Nat]
                 /\ WithInterval(s, i, j).min > 0 /\ WithInterval(s, i, j).min <= WithInterval(s, i, j).max
                 /\ s.frames \in 1..(MAX_FRAMES_TO_CAPTURE - 1) => ValidSettings(WithInterval(s, i, j))
           /\ \A n \in Int :
                 /\ WithFrames(s, n) \in [min : Nat, max : Nat, frames : Nat]
                 /\ s.min > 0 /\ s.min <= s.max => ValidSettings(WithFrames(s, n))
<1>1. ASSUME NEW i \in Int, NEW j \in Int
      PROVE  /\ WithInterval(s, i, j) \in [min : Nat, max : Nat, frames : Nat]
             /\ WithInterval(s, i, j).min > 0 /\ WithInterval(s, i, j).min <= WithInterval(s, i, j).max
             /\ s.frames \in 1..(MAX_FRAMES_TO_CAPTURE - 1) => ValidSettings(WithInterval(s, i, j))
  <2> DEFINE lo == Lesser(ValidInterval(i), ValidInterval(j))
             hi == Greater(ValidInterval(i), ValidInterval(j))
  <2>1. lo \in Nat \ {0} /\ hi \in Nat /\ lo <= hi
    BY OptionAssumption DEF ValidInterval, Lesser, Greater
  <2>2. WithInterval(s, i, j) = [s EXCEPT !.min = lo, !.max = hi]
    BY DEF WithInterval
  <2> HIDE DEF lo, hi
  <2> DEFINE r == WithInterval(s, i, j)
  <2>3. r \in [min : Nat, max : Nat, frames : Nat] /\ r.min = lo /\ r.max = hi /\ r.frames = s.frames
    BY <2>1, <2>2
  <2> HIDE DEF r
  <2>4. /\ r.min > 0 /\ r.min <= r.max
        /\ s.frames \in 1..(MAX_FRAMES_TO_CAPTURE - 1) => ValidSettings(r)
    BY <2>1, <2>3 DEF ValidSettings
  <2> QED
    BY <2>3, <2>4 DEF r
<1>2. ASSUME NEW n \in Int
      PROVE  /\ WithFrames(s, n) \in [min : Nat, max : Nat, frames : Nat]
             /\ s.min > 0 /\ s.min <= s.max => ValidSettings(WithFrames(s, n))
  <2>1. ValidFrames(n) \in 1..(MAX_FRAMES_TO_CAPTURE - 1)
    BY OptionAssumption DEF ValidFrames
  <2> QED
    BY <2>1, OptionAssumption DEF WithFrames, ValidSettings
<1> QED
  BY <1>1, <1>2

-----------------------------------------------------------------------------
(* Type correctness *)

\* The constructor leaves validated settings and one object of each kind.
LEMMA InitTypeOK == Init => TypeOK
<1> SUFFICES ASSUME Init PROVE TypeOK
  OBVIOUS
<1>1. 1 \in Objects
  BY IdentityAssumption, FS_CardinalityType DEF Objects
<1>2. /\ live \in [min : Nat, max : Nat, frames : Nat]
      /\ ValidSettings(live)
  <2>1. PICK arg \in IntervalInputs, n \in FrameInputs :
            live = WithFrames(WithInterval([min |-> 0, max |-> 0, frames |-> 0], arg[1], arg[2]), n)
    BY DEF Init
  <2>2. arg[1] \in Int /\ arg[2] \in Int /\ n \in Int
    BY LimitAssumption
  <2> DEFINE s == WithInterval([min |-> 0, max |-> 0, frames |-> 0], arg[1], arg[2])
  <2>3. s \in [min : Nat, max : Nat, frames : Nat] /\ s.min > 0 /\ s.min <= s.max
    BY <2>2, SettersValidate
  <2> HIDE DEF s
  <2> QED
    BY <2>1, <2>2, <2>3, SettersValidate DEF s
<1>3. /\ {livePath, confPath} \subseteq Ptrs \cup {NULL}
      /\ heap \in [Ptrs -> Files \cup {Generated, NULL}]
  BY DEF Init
<1>4. capacity \in Nat
  BY <1>2, OptionAssumption DEF Init, ValidSettings
<1>5. /\ section \in {"free"} /\ {needsUpdate, reloadConfig, isRunning_, workerDone} \subseteq BOOLEAN
      /\ {live, conf} \subseteq [min : Nat, max : Nat, frames : Nat]
      /\ ValidSettings(live) /\ ValidSettings(conf)
  BY <1>2 DEF Init
<1>6. /\ {writer, buffer, processor, bufferRef} \subseteq Objects
      /\ processorRef \in [writer : Objects, buffer : Objects]
      /\ samples \in 0..QueueSize
  BY <1>1, LimitAssumption DEF Init
<1>7. /\ wpc \in [Workers -> {"none", "drain", "adapt", "poll", "quit", "done"}]
      /\ popped \in [Workers -> Nat] /\ runs \in [Workers -> Objects \cup {0}]
      /\ upd \in [Actors -> {"none", "fill", "set", "store", "ok", "failed"}]
      /\ {currentInterval, itimer, timer} \subseteq Int /\ want \in [Actors -> Int]
  BY DEF Init
<1>8. /\ hpc \in [Threads -> {"out", "walk", "load", "push"}]
      /\ room \in [Threads -> Nat] /\ taken \in [Threads -> Nat]
      /\ target \in [Threads -> Objects \cup {0}]
  BY DEF Init
<1> QED
  BY <1>3, <1>4, <1>5, <1>6, <1>7, <1>8 DEF Init, TypeOK

-----------------------------------------------------------------------------
(* The inductive step *)

\* The setters touch only liveConfiguration, and only while the profiler is
\* stopped and nobody is inside start or stop.
LEMMA SetterStep ==
    ASSUME IndInv, 
           \/ \E arg \in IntervalInputs : setSamplingInterval(arg[1], arg[2])
           \/ \E n \in FrameInputs : setMaxFramesToCapture(n)
           \/ \E f \in Files \cup {NULL} : setFilePath(f)
    PROVE  IndInv'
<1> USE LimitAssumption, IdentityAssumption DEF IndInv, TypeOK, confVars, objectVars, workerVars,
           timerVars, updVars, handlerVars, flagVars
<1>1. ASSUME \E arg \in IntervalInputs : setSamplingInterval(arg[1], arg[2]) PROVE IndInv'
  <2>1. TypeOK'
    <3>1. PICK arg \in IntervalInputs : setSamplingInterval(arg[1], arg[2])
      BY <1>1
    <3>2. arg[1] \in Int /\ arg[2] \in Int /\ live' = WithInterval(live, arg[1], arg[2])
      BY <3>1 DEF setSamplingInterval
    <3>3. live \in [min : Nat, max : Nat, frames : Nat] /\ live.frames \in 1..(MAX_FRAMES_TO_CAPTURE - 1)
      BY DEF ValidSettings
    <3>4. live' \in [min : Nat, max : Nat, frames : Nat] /\ ValidSettings(live')
      BY <3>2, <3>3, SettersValidate
    <3> QED
      BY <3>1, <3>4 DEF setSamplingInterval
  <2>2. PhaseInv' /\ DispositionInv' /\ OneConsumer' /\ WorkerInv'
    BY <1>1
       DEF setSamplingInterval, Settable, PhaseInv, DispositionInv, OneConsumer, WorkerInv,
           Running, Actors
  <2>3. ReferenceInv' /\ SettingsInv' /\ StringsOwned'
    BY <1>1
       DEF setSamplingInterval, Settable, PhaseInv, ReferenceInv, SettingsInv, StringsOwned, Freed
  <2>4. HandlerInv'
    BY <1>1 DEF setSamplingInterval, Settable, PhaseInv, DispositionInv, HandlerInv, ValidSettings
  <2> QED
    BY <2>1, <2>2, <2>3, <2>4
<1>2. ASSUME \E n \in FrameInputs : setMaxFramesToCapture(n) PROVE IndInv'
  <2>1. TypeOK'
    <3>1. PICK n \in FrameInputs : setMaxFramesToCapture(n)
      BY <1>2
    <3>2. n \in Int /\ live' = WithFrames(live, n)
      BY <3>1 DEF setMaxFramesToCapture
    <3>3. live \in [min : Nat, max : Nat, frames : Nat] /\ live.min > 0 /\ live.min <= live.max
      BY DEF ValidSettings
    <3>4. live' \in [min : Nat, max : Nat, frames : Nat] /\ ValidSettings(live')
      BY <3>2, <3>3, SettersValidate
    <3> QED
      BY <3>1, <3>4 DEF setMaxFramesToCapture
  <2>2. PhaseInv' /\ DispositionInv' /\ OneConsumer' /\ WorkerInv'
    BY <1>2
       DEF setMaxFramesToCapture, Settable, PhaseInv, DispositionInv, OneConsumer, WorkerInv,
           Running, Actors
  <2>3. ReferenceInv' /\ SettingsInv' /\ StringsOwned'
    BY <1>2
       DEF setMaxFramesToCapture, Settable, PhaseInv, ReferenceInv, SettingsInv, StringsOwned, Freed
  <2>4. HandlerInv'
    BY <1>2 DEF setMaxFramesToCapture, Settable, PhaseInv, DispositionInv, HandlerInv, ValidSettings
  <2> QED
    BY <2>1, <2>2, <2>3, <2>4
<1>3. ASSUME \E f \in Files \cup {NULL} : setFilePath(f) PROVE IndInv'
  <2>1. TypeOK'
    <3>1. PICK f \in Files \cup {NULL} : setFilePath(f)
      BY <1>3
    <3> DEFINE h == IF livePath # NULL /\ livePath # confPath THEN Freed(heap, livePath) ELSE heap
    <3>2. h \in [Ptrs -> Files \cup {Generated, NULL}]
      BY DEF Freed
    <3>3. \/ livePath' = NULL /\ heap' = h
          \/ \E p \in Ptrs : livePath' = p /\ heap' = [h EXCEPT ![p] = f]
      BY <3>1 DEF setFilePath
    <3> HIDE DEF h
    <3>4. livePath' \in Ptrs \cup {NULL} /\ heap' \in [Ptrs -> Files \cup {Generated, NULL}]
      BY <3>2, <3>3
    <3> QED
      BY <3>1, <3>4 DEF setFilePath
  <2>2. PhaseInv' /\ DispositionInv' /\ OneConsumer' /\ WorkerInv'
    BY <1>3
       DEF setFilePath, Settable, PhaseInv, DispositionInv, OneConsumer, WorkerInv, Running, Actors
  <2>3. ReferenceInv' /\ SettingsInv' /\ StringsOwned'
    <3>1. PICK f \in Files \cup {NULL} : setFilePath(f)
      BY <1>3
    <3> DEFINE h == IF livePath # NULL /\ livePath # confPath THEN Freed(heap, livePath) ELSE heap
    <3>2. h \in [Ptrs -> Files \cup {Generated, NULL}] /\ {p \in Ptrs : h[p] # NULL} = {confPath} \ {NULL}
      BY <3>1 DEF setFilePath, Settable, StringsOwned, SettingsInv, Freed
    <3>3. \/ livePath' = NULL /\ heap' = h
          \/ f # NULL /\ \E p \in Ptrs : h[p] = NULL /\ livePath' = p /\ heap' = [h EXCEPT ![p] = f]
      BY <3>1 DEF setFilePath
    <3>4. /\ reloadConfig' /\ section = "free"
          /\ UNCHANGED <<section, needsUpdate, live, conf, confPath, openFile, objectVars>>
      BY <3>1 DEF setFilePath, Settable
    <3>5. confPath # NULL /\ openFile = heap[confPath] /\ h[confPath] = heap[confPath]
      BY <3>4 DEF SettingsInv, Freed
    <3> HIDE DEF h
    <3>6. StringsOwned'
      BY <3>2, <3>3, <3>4 DEF StringsOwned
    <3>7. SettingsInv'
      BY <3>2, <3>3, <3>4, <3>5 DEF SettingsInv
    <3>8. ReferenceInv'
      BY <3>4 DEF ReferenceInv
    <3> QED
      BY <3>6, <3>7, <3>8
  <2>4. HandlerInv'
    BY <1>3 DEF setFilePath, Settable, PhaseInv, DispositionInv, HandlerInv, ValidSettings
  <2> QED
    BY <2>1, <2>2, <2>3, <2>4
<1> QED
  BY <1>1, <1>2, <1>3

\* start, with configure inside it. QuietStart keeps handlers away from configure.
LEMMA StartStep ==
    ASSUME IndInv, 
           \/ QuietStart
           \/ ConfigureLog
           \/ ConfigureBuffer
           \/ ConfigureProcessor
           \/ SetAction
           \/ ProcessorStart
           \/ StartTimer
           \/ StartReturn
    PROVE  IndInv'
<1> USE LimitAssumption, IdentityAssumption DEF IndInv, TypeOK, confVars, objectVars, workerVars,
           timerVars, updVars, handlerVars, flagVars
<1>1. ASSUME QuietStart PROVE IndInv'
  <2>1. TypeOK'
    BY <1>1 DEF QuietStart, HandlersOut, start, Actors, ValidSettings
  <2>2. PhaseInv' /\ DispositionInv' /\ OneConsumer' /\ WorkerInv'
    BY <1>1
       DEF QuietStart, HandlersOut, start, PhaseInv, DispositionInv, OneConsumer, WorkerInv, Running, Actors
  <2>3. ReferenceInv' /\ SettingsInv' /\ StringsOwned'
    BY <1>1 DEF QuietStart, HandlersOut, start, PhaseInv, ReferenceInv, SettingsInv, StringsOwned, Freed
  <2>4. HandlerInv'
    BY <1>1 DEF QuietStart, HandlersOut, start, PhaseInv, DispositionInv, HandlerInv, ValidSettings
  <2> QED
    BY <2>1, <2>2, <2>3, <2>4
<1>2. ASSUME ConfigureLog PROVE IndInv'
  <2>1. TypeOK'
    <3>1. writer' \in Objects
      <4> DEFINE used == {writer, bufferRef, processorRef.writer}
      <4>1. used \subseteq {writer, writer}
        BY <1>2 DEF ConfigureLog, PhaseInv, ReferenceInv
      <4> HIDE DEF used
      <4>2. Fresh(used) \in Objects
        BY <4>1, FreshIsNew
      <4> QED
        BY <1>2, <4>2 DEF used, ConfigureLog
    <3>2. /\ {livePath', confPath'} \subseteq Ptrs \cup {NULL}
          /\ heap' \in [Ptrs -> Files \cup {Generated, NULL}]
      BY <1>2 DEF ConfigureLog, Freed
    <3>3. needsUpdate' \in BOOLEAN
      BY <1>2 DEF ConfigureLog
    <3> QED
      BY <1>2, <3>1, <3>2, <3>3 DEF ConfigureLog
  <2>2. PhaseInv' /\ DispositionInv' /\ OneConsumer' /\ WorkerInv'
    BY <1>2 DEF ConfigureLog, PhaseInv, DispositionInv, OneConsumer, WorkerInv, Running, Actors
  <2>3. ReferenceInv' /\ SettingsInv' /\ StringsOwned'
    BY <1>2 DEF ConfigureLog, PhaseInv, ReferenceInv, SettingsInv, StringsOwned, Freed
  <2>4. HandlerInv'
    BY <1>2 DEF ConfigureLog, PhaseInv, DispositionInv, HandlerInv, ValidSettings
  <2> QED
    BY <2>1, <2>2, <2>3, <2>4
<1>3. ASSUME ConfigureBuffer PROVE IndInv'
  <2>1. TypeOK'
    <3>1. buffer' \in Objects
      <4> DEFINE used == {buffer, processorRef.buffer} \cup {target[t] : t \in Threads}
      <4>1. used \subseteq {buffer, 0}
        BY <1>3 DEF ConfigureBuffer, HandlerInv, ReferenceInv
      <4> HIDE DEF used
      <4>2. Fresh(used) \in Objects
        BY <4>1, FreshIsNew
      <4> QED
        BY <1>3, <4>2 DEF used, ConfigureBuffer
    <3>2. conf' \in [min : Nat, max : Nat, frames : Nat] /\ ValidSettings(conf')
      BY <1>3 DEF ConfigureBuffer, ValidSettings
    <3>3. needsUpdate' \in BOOLEAN
      BY <1>3 DEF ConfigureBuffer
    <3> QED
      BY <1>3, <3>1, <3>2, <3>3 DEF ConfigureBuffer
  <2>2. PhaseInv' /\ DispositionInv' /\ OneConsumer' /\ WorkerInv'
    BY <1>3 DEF ConfigureBuffer, PhaseInv, DispositionInv, OneConsumer, WorkerInv, Running, Actors
  <2>3. ReferenceInv' /\ SettingsInv' /\ StringsOwned'
    BY <1>3 DEF ConfigureBuffer, PhaseInv, ReferenceInv, SettingsInv, StringsOwned, Freed
  <2>4. HandlerInv'
    BY <1>3 DEF ConfigureBuffer, PhaseInv, DispositionInv, HandlerInv, ValidSettings
  <2> QED
    BY <2>1, <2>2, <2>3, <2>4
<1>4. ASSUME ConfigureProcessor PROVE IndInv'
  <2>1. TypeOK'
    <3>1. processor' \in Objects
      <4> DEFINE used == {processor} \cup {runs[w] : w \in Workers}
      <4>1. used \subseteq {processor, 0}
        BY <1>4 DEF ConfigureProcessor, WorkerInv, PhaseInv
      <4> HIDE DEF used
      <4>2. Fresh(used) \in Objects
        BY <4>1, FreshIsNew
      <4> QED
        BY <1>4, <4>2 DEF used, ConfigureProcessor
    <3>2. conf' \in [min : Nat, max : Nat, frames : Nat] /\ ValidSettings(conf')
      BY <1>4 DEF ConfigureProcessor, ValidSettings
    <3>3. isRunning_' \in BOOLEAN /\ workerDone' \in BOOLEAN
      BY <1>4 DEF ConfigureProcessor
    <3>4. processorRef' \in [writer : Objects, buffer : Objects] /\ currentInterval' \in Int
      BY <1>4 DEF ConfigureProcessor
    <3>5. /\ section' = "action" /\ reloadConfig' = FALSE /\ needsUpdate' = FALSE
          /\ UNCHANGED <<live, livePath, confPath, heap, writer, buffer, capacity, bufferRef, samples,
                         itimer, timer, action, workerVars, updVars, handlerVars>>
      BY <1>4 DEF ConfigureProcessor
    <3> QED
      BY <3>1, <3>2, <3>3, <3>4, <3>5, ZenonT(40)
  <2>2. PhaseInv' /\ DispositionInv' /\ OneConsumer' /\ WorkerInv'
    BY <1>4
       DEF ConfigureProcessor, PhaseInv, DispositionInv, OneConsumer, WorkerInv, Running, Actors
  <2>3. ReferenceInv' /\ SettingsInv' /\ StringsOwned'
    <3>1. ReferenceInv'
      BY <1>4 DEF ConfigureProcessor, PhaseInv, ReferenceInv
    <3>2. conf' = live /\ conf'.frames = conf.frames
      <4>1. conf.frames = live.frames
        BY <1>4 DEF ConfigureProcessor, SettingsInv
      <4>2. conf'.min = live.min /\ conf'.max = live.max /\ conf'.frames = conf.frames
        BY <1>4 DEF ConfigureProcessor
      <4>3. conf' \in [min : Nat, max : Nat, frames : Nat] /\ live \in [min : Nat, max : Nat, frames : Nat]
        BY <2>1
      <4> QED
        BY <4>1, <4>2, <4>3
    <3>3. SettingsInv' /\ StringsOwned'
      BY <1>4, <3>2 DEF ConfigureProcessor, SettingsInv, StringsOwned
    <3> QED
      BY <3>1, <3>3
  <2>4. HandlerInv'
    BY <1>4 DEF ConfigureProcessor, PhaseInv, DispositionInv, HandlerInv, ValidSettings
  <2> QED
    BY <2>1, <2>2, <2>3, <2>4
<1>5. ASSUME SetAction PROVE IndInv'
  <2>1. TypeOK'
    BY <1>5 DEF SetAction, Actors, ValidSettings
  <2>2. PhaseInv' /\ DispositionInv' /\ OneConsumer' /\ WorkerInv'
    BY <1>5 DEF SetAction, PhaseInv, DispositionInv, OneConsumer, WorkerInv, Running, Actors
  <2>3. ReferenceInv' /\ SettingsInv' /\ StringsOwned'
    BY <1>5 DEF SetAction, PhaseInv, ReferenceInv, SettingsInv, StringsOwned, Freed
  <2>4. HandlerInv'
    BY <1>5 DEF SetAction, PhaseInv, DispositionInv, HandlerInv, ValidSettings
  <2> QED
    BY <2>1, <2>2, <2>3, <2>4
<1>6. ASSUME ProcessorStart PROVE IndInv'
  <2>1. TypeOK'
    <3>1. wpc' \in [Workers -> {"none", "drain", "adapt", "poll", "quit", "done"}]
      BY <1>6, ZenonT(40) DEF ProcessorStart
    <3>2. runs' \in [Workers -> Objects \cup {0}]
      BY <1>6 DEF ProcessorStart
    <3> QED
      BY <1>6, <3>1, <3>2 DEF ProcessorStart
  <2>2. PhaseInv' /\ DispositionInv' /\ OneConsumer' /\ WorkerInv'
    <3>1. \A w \in Workers : ~Running(w) /\ runs[w] = 0
      BY <1>6 DEF ProcessorStart, PhaseInv, WorkerInv
    <3>2. PhaseInv'
      BY <1>6 DEF ProcessorStart, PhaseInv
    <3>3. DispositionInv'
      BY <1>6 DEF ProcessorStart, DispositionInv
    <3>4. OneConsumer' /\ WorkerInv'
      <4>1. CASE UNCHANGED <<wpc, runs>>
        BY <1>6, <3>1, <4>1 DEF ProcessorStart, OneConsumer, WorkerInv, Running
      <4>2. CASE \E w \in Workers : /\ wpc' = [wpc EXCEPT ![w] = "drain"]
                                    /\ runs' = [runs EXCEPT ![w] = processor]
        <5>1. PICK w \in Workers : /\ wpc' = [wpc EXCEPT ![w] = "drain"]
                                   /\ runs' = [runs EXCEPT ![w] = processor]
          BY <4>2
        <5>2. \A v \in Workers : IF v = w THEN Running(v)' /\ runs'[v] = processor
                                          ELSE ~Running(v)' /\ runs'[v] = 0
          BY <3>1, <5>1 DEF Running
        <5> QED
          BY <1>6, <5>2 DEF ProcessorStart, OneConsumer, WorkerInv
      <4> QED
        BY <1>6, <4>1, <4>2 DEF ProcessorStart
    <3> QED
      BY <3>2, <3>3, <3>4
  <2>3. ReferenceInv' /\ SettingsInv' /\ StringsOwned'
    BY <1>6 DEF ProcessorStart, PhaseInv, ReferenceInv, SettingsInv, StringsOwned, Freed
  <2>4. HandlerInv'
    BY <1>6 DEF ProcessorStart, PhaseInv, DispositionInv, HandlerInv, ValidSettings
  <2> QED
    BY <2>1, <2>2, <2>3, <2>4
<1>7. ASSUME StartTimer PROVE IndInv'
  <2>1. TypeOK'
    BY <1>7 DEF StartTimer, CallUpdate, Actors, ValidSettings
  <2>2. PhaseInv' /\ DispositionInv' /\ OneConsumer' /\ WorkerInv'
    BY <1>7
       DEF StartTimer, CallUpdate, PhaseInv, DispositionInv, OneConsumer, WorkerInv, Running, Actors
  <2>3. ReferenceInv' /\ SettingsInv' /\ StringsOwned'
    BY <1>7 DEF StartTimer, CallUpdate, PhaseInv, ReferenceInv, SettingsInv, StringsOwned, Freed
  <2>4. HandlerInv'
    BY <1>7 DEF StartTimer, CallUpdate, PhaseInv, DispositionInv, HandlerInv, ValidSettings
  <2> QED
    BY <2>1, <2>2, <2>3, <2>4
<1>8. ASSUME StartReturn PROVE IndInv'
  <2>1. TypeOK'
    BY <1>8 DEF StartReturn, Updated, EndUpdate, Actors, ValidSettings
  <2>2. PhaseInv' /\ DispositionInv' /\ OneConsumer' /\ WorkerInv'
    BY <1>8
       DEF StartReturn, Updated, EndUpdate, PhaseInv, DispositionInv, OneConsumer, WorkerInv,
           Running, Actors
  <2>3. ReferenceInv' /\ SettingsInv' /\ StringsOwned'
    BY <1>8
       DEF StartReturn, Updated, EndUpdate, PhaseInv, ReferenceInv, SettingsInv, StringsOwned, Freed
  <2>4. HandlerInv'
    BY <1>8 DEF StartReturn, Updated, EndUpdate, PhaseInv, DispositionInv, HandlerInv, ValidSettings
  <2> QED
    BY <2>1, <2>2, <2>3, <2>4
<1> QED
  BY <1>1, <1>2, <1>3, <1>4, <1>5, <1>6, <1>7, <1>8

\* stop, and the destructor.
LEMMA StopStep ==
    ASSUME IndInv, 
           \/ stop
           \/ ProcessorStop
           \/ ProcessorStopped
           \/ IgnoreSignal
           \/ QuietUnload
    PROVE  IndInv'
<1> USE LimitAssumption, IdentityAssumption DEF IndInv, TypeOK, confVars, objectVars, workerVars,
           timerVars, updVars, handlerVars, flagVars
<1>1. ASSUME stop PROVE IndInv'
  <2>1. TypeOK'
    BY <1>1 DEF stop, CallUpdate, Actors, ValidSettings
  <2>2. PhaseInv' /\ DispositionInv' /\ OneConsumer' /\ WorkerInv'
    BY <1>1 DEF stop, CallUpdate, PhaseInv, DispositionInv, OneConsumer, WorkerInv, Running, Actors
  <2>3. ReferenceInv' /\ SettingsInv' /\ StringsOwned'
    BY <1>1 DEF stop, CallUpdate, PhaseInv, ReferenceInv, SettingsInv, StringsOwned, Freed
  <2>4. HandlerInv'
    BY <1>1 DEF stop, CallUpdate, PhaseInv, DispositionInv, HandlerInv, ValidSettings
  <2> QED
    BY <2>1, <2>2, <2>3, <2>4
<1>2. ASSUME ProcessorStop PROVE IndInv'
  <2>1. TypeOK'
    <3>1. upd' \in [Actors -> {"none", "fill", "set", "store", "ok", "failed"}] /\ want' \in [Actors -> Int]
      BY <1>2 DEF ProcessorStop, EndUpdate, Actors
    <3> QED
      BY <1>2, <3>1 DEF ProcessorStop
  <2>2. PhaseInv' /\ DispositionInv' /\ OneConsumer' /\ WorkerInv'
    BY <1>2
       DEF ProcessorStop, Updated, EndUpdate, PhaseInv, DispositionInv, OneConsumer, WorkerInv,
           Running, Actors
  <2>3. ReferenceInv' /\ SettingsInv' /\ StringsOwned'
    BY <1>2
       DEF ProcessorStop, Updated, EndUpdate, PhaseInv, ReferenceInv, SettingsInv, StringsOwned, Freed
  <2>4. HandlerInv'
    BY <1>2
       DEF ProcessorStop, Updated, EndUpdate, PhaseInv, DispositionInv, HandlerInv, ValidSettings
  <2> QED
    BY <2>1, <2>2, <2>3, <2>4
<1>3. ASSUME ProcessorStopped PROVE IndInv'
  <2>1. TypeOK'
    BY <1>3 DEF ProcessorStopped, Actors, ValidSettings
  <2>2. PhaseInv' /\ DispositionInv' /\ OneConsumer' /\ WorkerInv'
    BY <1>3 DEF ProcessorStopped, PhaseInv, DispositionInv, OneConsumer, WorkerInv, Running, Actors
  <2>3. ReferenceInv' /\ SettingsInv' /\ StringsOwned'
    BY <1>3 DEF ProcessorStopped, PhaseInv, ReferenceInv, SettingsInv, StringsOwned, Freed
  <2>4. HandlerInv'
    BY <1>3 DEF ProcessorStopped, PhaseInv, DispositionInv, HandlerInv, ValidSettings
  <2> QED
    BY <2>1, <2>2, <2>3, <2>4
<1>4. ASSUME IgnoreSignal PROVE IndInv'
  <2>1. TypeOK'
    BY <1>4 DEF IgnoreSignal, Actors, ValidSettings
  <2>2. PhaseInv' /\ DispositionInv' /\ OneConsumer' /\ WorkerInv'
    BY <1>4 DEF IgnoreSignal, PhaseInv, DispositionInv, OneConsumer, WorkerInv, Running, Actors
  <2>3. ReferenceInv' /\ SettingsInv' /\ StringsOwned'
    BY <1>4 DEF IgnoreSignal, PhaseInv, ReferenceInv, SettingsInv, StringsOwned, Freed
  <2>4. HandlerInv'
    BY <1>4 DEF IgnoreSignal, PhaseInv, DispositionInv, HandlerInv, ValidSettings
  <2> QED
    BY <2>1, <2>2, <2>3, <2>4
<1>5. ASSUME QuietUnload PROVE IndInv'
  <2>1. TypeOK'
    <3>1. heap' \in [Ptrs -> Files \cup {Generated, NULL}]
      BY <1>5 DEF QuietUnload, HandlersOut, Unload, Freed
    <3> QED
      BY <1>5, <3>1 DEF QuietUnload, HandlersOut, Unload
  <2>2. PhaseInv' /\ DispositionInv' /\ OneConsumer' /\ WorkerInv'
    BY <1>5 DEF QuietUnload, HandlersOut, Unload, PhaseInv, DispositionInv, OneConsumer, WorkerInv, Running, Actors
  <2>3. ReferenceInv' /\ SettingsInv' /\ StringsOwned'
    BY <1>5 DEF QuietUnload, HandlersOut, Unload, PhaseInv, ReferenceInv, SettingsInv, StringsOwned, Freed
  <2>4. HandlerInv'
    BY <1>5 DEF QuietUnload, HandlersOut, Unload, PhaseInv, DispositionInv, HandlerInv, ValidSettings
  <2> QED
    BY <2>1, <2>2, <2>3, <2>4
<1> QED
  BY <1>1, <1>2, <1>3, <1>4, <1>5

\* updateSigprofInterval, in the caller and in a worker.
LEMMA UpdateStepInv ==
    ASSUME IndInv, NEW a \in Actors, 
           \/ FillTimer(a)
           \/ SetTimer(a)
           \/ StoreInterval(a)
    PROVE  IndInv'
<1> USE LimitAssumption, IdentityAssumption DEF IndInv, TypeOK, confVars, objectVars, workerVars,
           timerVars, updVars, handlerVars, flagVars
<1>1. ASSUME FillTimer(a) PROVE IndInv'
  <2>1. TypeOK'
    BY <1>1 DEF FillTimer, Actors, ValidSettings
  <2>2. PhaseInv' /\ DispositionInv' /\ OneConsumer' /\ WorkerInv'
    BY <1>1 DEF FillTimer, PhaseInv, DispositionInv, OneConsumer, WorkerInv, Running, Actors
  <2>3. ReferenceInv' /\ SettingsInv' /\ StringsOwned'
    BY <1>1 DEF FillTimer, PhaseInv, ReferenceInv, SettingsInv, StringsOwned, Freed
  <2>4. HandlerInv'
    BY <1>1 DEF FillTimer, PhaseInv, DispositionInv, HandlerInv, ValidSettings
  <2> QED
    BY <2>1, <2>2, <2>3, <2>4
<1>2. ASSUME SetTimer(a) PROVE IndInv'
  <2>1. TypeOK'
    BY <1>2 DEF SetTimer, Actors, ValidSettings
  <2>2. PhaseInv' /\ DispositionInv' /\ OneConsumer' /\ WorkerInv'
    BY <1>2 DEF SetTimer, PhaseInv, DispositionInv, OneConsumer, WorkerInv, Running, Actors
  <2>3. ReferenceInv' /\ SettingsInv' /\ StringsOwned'
    BY <1>2 DEF SetTimer, PhaseInv, ReferenceInv, SettingsInv, StringsOwned, Freed
  <2>4. HandlerInv'
    BY <1>2 DEF SetTimer, PhaseInv, DispositionInv, HandlerInv, ValidSettings
  <2> QED
    BY <2>1, <2>2, <2>3, <2>4
<1>3. ASSUME StoreInterval(a) PROVE IndInv'
  <2>1. TypeOK'
    BY <1>3 DEF StoreInterval, Actors, ValidSettings
  <2>2. PhaseInv' /\ DispositionInv' /\ OneConsumer' /\ WorkerInv'
    BY <1>3 DEF StoreInterval, PhaseInv, DispositionInv, OneConsumer, WorkerInv, Running, Actors
  <2>3. ReferenceInv' /\ SettingsInv' /\ StringsOwned'
    BY <1>3 DEF StoreInterval, PhaseInv, ReferenceInv, SettingsInv, StringsOwned, Freed
  <2>4. HandlerInv'
    BY <1>3 DEF StoreInterval, PhaseInv, DispositionInv, HandlerInv, ValidSettings
  <2> QED
    BY <2>1, <2>2, <2>3, <2>4
<1> QED
  BY <1>1, <1>2, <1>3

\* The processor thread.
LEMMA WorkerStepInv ==
    ASSUME IndInv, NEW w \in Workers, 
           \/ WorkerPop(w)
           \/ WorkerDrained(w)
           \/ WorkerAdapted(w)
           \/ WorkerPoll(w)
           \/ WorkerQuit(w)
           \/ WorkerDone(w)
    PROVE  IndInv'
<1> USE LimitAssumption, IdentityAssumption DEF IndInv, TypeOK, confVars, objectVars, workerVars,
           timerVars, updVars, handlerVars, flagVars
<1>1. ASSUME WorkerPop(w) PROVE IndInv'
  <2>1. TypeOK'
    BY <1>1 DEF WorkerPop, WorkerGoto, Actors, ValidSettings
  <2>2. PhaseInv' /\ DispositionInv' /\ OneConsumer' /\ WorkerInv'
    BY <1>1
       DEF WorkerPop, WorkerGoto, PhaseInv, DispositionInv, OneConsumer, WorkerInv, Running, Actors
  <2>3. ReferenceInv' /\ SettingsInv' /\ StringsOwned'
    BY <1>1 DEF WorkerPop, WorkerGoto, PhaseInv, ReferenceInv, SettingsInv, StringsOwned, Freed
  <2>4. HandlerInv'
    BY <1>1 DEF WorkerPop, WorkerGoto, PhaseInv, DispositionInv, HandlerInv, ValidSettings
  <2> QED
    BY <2>1, <2>2, <2>3, <2>4
<1>2. ASSUME WorkerDrained(w) PROVE IndInv'
  <2>1. TypeOK'
    BY <1>2 DEF WorkerDrained, WorkerGoto, CallUpdate, Actors, ValidSettings
  <2>2. PhaseInv' /\ DispositionInv' /\ OneConsumer' /\ WorkerInv'
    BY <1>2
       DEF WorkerDrained, WorkerGoto, CallUpdate, PhaseInv, DispositionInv, OneConsumer,
           WorkerInv, Running, Actors
  <2>3. ReferenceInv' /\ SettingsInv' /\ StringsOwned'
    BY <1>2
       DEF WorkerDrained, WorkerGoto, CallUpdate, PhaseInv, ReferenceInv, SettingsInv,
           StringsOwned, Freed
  <2>4. HandlerInv'
    BY <1>2
       DEF WorkerDrained, WorkerGoto, CallUpdate, PhaseInv, DispositionInv, HandlerInv, ValidSettings
  <2> QED
    BY <2>1, <2>2, <2>3, <2>4
<1>3. ASSUME WorkerAdapted(w) PROVE IndInv'
  <2>1. TypeOK'
    BY <1>3 DEF WorkerAdapted, WorkerGoto, EndUpdate, Actors, ValidSettings
  <2>2. PhaseInv' /\ DispositionInv' /\ OneConsumer' /\ WorkerInv'
    BY <1>3
       DEF WorkerAdapted, WorkerGoto, EndUpdate, PhaseInv, DispositionInv, OneConsumer,
           WorkerInv, Running, Actors
  <2>3. ReferenceInv' /\ SettingsInv' /\ StringsOwned'
    BY <1>3
       DEF WorkerAdapted, WorkerGoto, EndUpdate, PhaseInv, ReferenceInv, SettingsInv,
           StringsOwned, Freed
  <2>4. HandlerInv'
    BY <1>3
       DEF WorkerAdapted, WorkerGoto, EndUpdate, PhaseInv, DispositionInv, HandlerInv, ValidSettings
  <2> QED
    BY <2>1, <2>2, <2>3, <2>4
<1>4. ASSUME WorkerPoll(w) PROVE IndInv'
  <2>1. TypeOK'
    BY <1>4 DEF WorkerPoll, WorkerGoto, Actors, ValidSettings
  <2>2. PhaseInv' /\ DispositionInv' /\ OneConsumer' /\ WorkerInv'
    BY <1>4
       DEF WorkerPoll, WorkerGoto, PhaseInv, DispositionInv, OneConsumer, WorkerInv, Running, Actors
  <2>3. ReferenceInv' /\ SettingsInv' /\ StringsOwned'
    BY <1>4 DEF WorkerPoll, WorkerGoto, PhaseInv, ReferenceInv, SettingsInv, StringsOwned, Freed
  <2>4. HandlerInv'
    BY <1>4 DEF WorkerPoll, WorkerGoto, PhaseInv, DispositionInv, HandlerInv, ValidSettings
  <2> QED
    BY <2>1, <2>2, <2>3, <2>4
<1>5. ASSUME WorkerQuit(w) PROVE IndInv'
  <2>1. TypeOK'
    BY <1>5 DEF WorkerQuit, WorkerGoto, CallUpdate, Actors, ValidSettings
  <2>2. PhaseInv' /\ DispositionInv' /\ OneConsumer' /\ WorkerInv'
    BY <1>5
       DEF WorkerQuit, WorkerGoto, CallUpdate, PhaseInv, DispositionInv, OneConsumer, WorkerInv,
           Running, Actors
  <2>3. ReferenceInv' /\ SettingsInv' /\ StringsOwned'
    BY <1>5
       DEF WorkerQuit, WorkerGoto, CallUpdate, PhaseInv, ReferenceInv, SettingsInv,
           StringsOwned, Freed
  <2>4. HandlerInv'
    BY <1>5
       DEF WorkerQuit, WorkerGoto, CallUpdate, PhaseInv, DispositionInv, HandlerInv, ValidSettings
  <2> QED
    BY <2>1, <2>2, <2>3, <2>4
<1>6. ASSUME WorkerDone(w) PROVE IndInv'
  <2>1. TypeOK'
    <3>1. upd' \in [Actors -> {"none", "fill", "set", "store", "ok", "failed"}] /\ want' \in [Actors -> Int]
      BY <1>6 DEF WorkerDone, EndUpdate, Actors
    <3>2. /\ wpc' \in [Workers -> {"none", "drain", "adapt", "poll", "quit", "done"}]
          /\ popped' \in [Workers -> Nat] /\ runs' \in [Workers -> Objects \cup {0}]
      BY <1>6 DEF WorkerDone, WorkerGoto
    <3> QED
      BY <1>6, <3>1, <3>2 DEF WorkerDone
  <2>2. PhaseInv' /\ DispositionInv' /\ OneConsumer' /\ WorkerInv'
    BY <1>6
       DEF WorkerDone, WorkerGoto, Updated, EndUpdate, PhaseInv, DispositionInv, OneConsumer,
           WorkerInv, Running, Actors
  <2>3. ReferenceInv' /\ SettingsInv' /\ StringsOwned'
    BY <1>6
       DEF WorkerDone, WorkerGoto, Updated, EndUpdate, PhaseInv, ReferenceInv, SettingsInv,
           StringsOwned, Freed
  <2>4. HandlerInv'
    BY <1>6
       DEF WorkerDone, WorkerGoto, Updated, EndUpdate, PhaseInv, DispositionInv, HandlerInv,
           ValidSettings
  <2> QED
    BY <2>1, <2>2, <2>3, <2>4
<1> QED
  BY <1>1, <1>2, <1>3, <1>4, <1>5, <1>6

\* The signal handler.
LEMMA HandlerStepInv ==
    ASSUME IndInv, NEW t \in Threads, 
           \/ HandleEnter(t)
           \/ HandleWalk(t)
           \/ HandleLoad(t)
           \/ HandlePush(t)
    PROVE  IndInv'
<1> USE LimitAssumption, IdentityAssumption DEF IndInv, TypeOK, confVars, objectVars, workerVars,
           timerVars, updVars, handlerVars, flagVars
<1>1. ASSUME HandleEnter(t) PROVE IndInv'
  <2>1. TypeOK'
    BY <1>1 DEF HandleEnter, HandlerGoto, Actors, ValidSettings
  <2>2. PhaseInv' /\ DispositionInv' /\ OneConsumer' /\ WorkerInv'
    BY <1>1
       DEF HandleEnter, HandlerGoto, PhaseInv, DispositionInv, OneConsumer, WorkerInv, Running, Actors
  <2>3. ReferenceInv' /\ SettingsInv' /\ StringsOwned'
    BY <1>1 DEF HandleEnter, HandlerGoto, PhaseInv, ReferenceInv, SettingsInv, StringsOwned, Freed
  <2>4. HandlerInv'
    BY <1>1 DEF HandleEnter, HandlerGoto, PhaseInv, DispositionInv, HandlerInv, ValidSettings
  <2> QED
    BY <2>1, <2>2, <2>3, <2>4
<1>2. ASSUME HandleWalk(t) PROVE IndInv'
  <2>1. TypeOK'
    BY <1>2 DEF HandleWalk, HandlerGoto, Actors, ValidSettings
  <2>2. PhaseInv' /\ DispositionInv' /\ OneConsumer' /\ WorkerInv'
    BY <1>2
       DEF HandleWalk, HandlerGoto, PhaseInv, DispositionInv, OneConsumer, WorkerInv, Running, Actors
  <2>3. ReferenceInv' /\ SettingsInv' /\ StringsOwned'
    BY <1>2 DEF HandleWalk, HandlerGoto, PhaseInv, ReferenceInv, SettingsInv, StringsOwned, Freed
  <2>4. HandlerInv'
    BY <1>2 DEF HandleWalk, HandlerGoto, PhaseInv, DispositionInv, HandlerInv, ValidSettings
  <2> QED
    BY <2>1, <2>2, <2>3, <2>4
<1>3. ASSUME HandleLoad(t) PROVE IndInv'
  <2>1. TypeOK'
    BY <1>3 DEF HandleLoad, HandlerGoto, Actors, ValidSettings
  <2>2. PhaseInv' /\ DispositionInv' /\ OneConsumer' /\ WorkerInv'
    BY <1>3
       DEF HandleLoad, HandlerGoto, PhaseInv, DispositionInv, OneConsumer, WorkerInv, Running, Actors
  <2>3. ReferenceInv' /\ SettingsInv' /\ StringsOwned'
    BY <1>3 DEF HandleLoad, HandlerGoto, PhaseInv, ReferenceInv, SettingsInv, StringsOwned, Freed
  <2>4. HandlerInv'
    BY <1>3 DEF HandleLoad, HandlerGoto, PhaseInv, DispositionInv, HandlerInv, ValidSettings
  <2> QED
    BY <2>1, <2>2, <2>3, <2>4
<1>4. ASSUME HandlePush(t) PROVE IndInv'
  <2>1. TypeOK'
    BY <1>4 DEF HandlePush, HandlerGoto, Actors, ValidSettings
  <2>2. PhaseInv' /\ DispositionInv' /\ OneConsumer' /\ WorkerInv'
    BY <1>4
       DEF HandlePush, HandlerGoto, PhaseInv, DispositionInv, OneConsumer, WorkerInv, Running, Actors
  <2>3. ReferenceInv' /\ SettingsInv' /\ StringsOwned'
    BY <1>4 DEF HandlePush, HandlerGoto, PhaseInv, ReferenceInv, SettingsInv, StringsOwned, Freed
  <2>4. HandlerInv'
    BY <1>4 DEF HandlePush, HandlerGoto, PhaseInv, DispositionInv, HandlerInv, ValidSettings
  <2> QED
    BY <2>1, <2>2, <2>3, <2>4
<1> QED
  BY <1>1, <1>2, <1>3, <1>4

-----------------------------------------------------------------------------
(* The invariant *)

\* The constructor has configured everything and started nothing.
LEMMA InitIndInv == Init => IndInv
<1> SUFFICES ASSUME Init PROVE IndInv
  OBVIOUS
<1>1. TypeOK
  BY InitTypeOK
<1>2. PhaseInv /\ DispositionInv /\ OneConsumer /\ WorkerInv /\ ReferenceInv /\ HandlerInv
  BY DEF Init, PhaseInv, DispositionInv, OneConsumer, WorkerInv, Running, ReferenceInv, HandlerInv
<1>3. SettingsInv /\ StringsOwned
  BY IdentityAssumption DEF Init, SettingsInv, StringsOwned
<1> QED
  BY <1>1, <1>2, <1>3 DEF IndInv

\* A state change that touches none of the variables keeps the invariant.
LEMMA StutterStep == ASSUME IndInv, UNCHANGED vars PROVE IndInv'
<1> USE DEF vars, confVars, objectVars, workerVars, timerVars, updVars, handlerVars, flagVars
<1>1. TypeOK' /\ PhaseInv' /\ ReferenceInv' /\ SettingsInv' /\ StringsOwned'
  BY DEF IndInv, TypeOK, PhaseInv, ReferenceInv, SettingsInv, StringsOwned
<1>2. DispositionInv' /\ OneConsumer' /\ WorkerInv' /\ HandlerInv'
  BY DEF IndInv, DispositionInv, OneConsumer, WorkerInv, Running, HandlerInv
<1> QED
  BY <1>1, <1>2 DEF IndInv

\* The inductive invariant holds in every reachable state.
THEOREM Invariance == Spec => []IndInv
<1>1. IndInv /\ [Next]_vars => IndInv'
  <2> SUFFICES ASSUME IndInv, [Next]_vars PROVE IndInv'
    OBVIOUS
  <2>1. CASE QuietStart
    BY <2>1, StartStep
  <2>2. CASE Setters
    BY <2>2, SetterStep DEF Setters
  <2>3. CASE stop \/ QuietUnload
    BY <2>3, StopStep
  <2>4. CASE CallerStep
    <3>1. CASE UpdateStep(Caller)
      BY <3>1, UpdateStepInv DEF UpdateStep, Actors
    <3> QED
      BY <2>4, <3>1, StartStep, StopStep DEF CallerStep
  <2>5. ASSUME NEW w \in Workers, WorkerStep(w) PROVE IndInv'
    <3>1. CASE UpdateStep(w)
      BY <3>1, UpdateStepInv DEF UpdateStep, Actors
    <3> QED
      BY <2>5, <3>1, WorkerStepInv DEF WorkerStep
  <2>6. ASSUME NEW t \in Threads, HandlerStep(t) PROVE IndInv'
    BY <2>6, HandlerStepInv DEF HandlerStep
  <2>7. CASE UNCHANGED vars
    BY <2>7, StutterStep
  <2> QED
    BY <2>1, <2>2, <2>3, <2>4, <2>5, <2>6, <2>7 DEF Next, Others
<1> QED
  BY <1>1, InitIndInv, PTL DEF Spec

\* Every variable keeps its type, and both configurations stay valid, whatever
\* the setters are called with.
THEOREM TypeCorrect == Spec => []TypeOK
<1>1. IndInv => TypeOK
  BY DEF IndInv
<1> QED
  BY <1>1, Invariance, PTL

\* At most one processor thread pops from the queue at any time.
THEOREM SingleConsumer == Spec => []OneConsumer
<1>1. IndInv => OneConsumer
  BY DEF IndInv
<1> QED
  BY <1>1, Invariance, PTL

\* The objects a processor thread works with are the current ones.
THEOREM WorkerSafety == Spec => []WorkerObjectsAlive
<1>1. IndInv => WorkerObjectsAlive
  <2> SUFFICES ASSUME IndInv, NEW w \in Workers, Running(w)
               PROVE  /\ runs[w] = processor /\ section # "gone"
                      /\ processorRef = [writer |-> writer, buffer |-> buffer]
                      /\ bufferRef = writer
    BY DEF WorkerObjectsAlive
  <2>1. runs[w] = processor /\ section \in {"free", "arm", "halt", "await"}
    BY DEF IndInv, WorkerInv, PhaseInv
  <2>2. processorRef.writer = writer /\ processorRef.buffer = buffer /\ bufferRef = writer
    BY <2>1 DEF IndInv, ReferenceInv, PhaseInv
  <2>3. processorRef \in [writer : Objects, buffer : Objects]
    BY DEF IndInv, TypeOK
  <2> QED
    BY <2>1, <2>2, <2>3
<1> QED
  BY <1>1, Invariance, PTL

\* The timer is never armed while SIGPROF has its default action.
THEOREM Survival == Spec => []NeverKilled
<1>1. IndInv => NeverKilled
  BY DEF IndInv, DispositionInv, NeverKilled
<1> QED
  BY <1>1, Invariance, PTL

\* No path string dangles and none leaks.
THEOREM StringSafety == Spec => []StringsOwned
<1>1. IndInv => StringsOwned
  BY DEF IndInv
<1> QED
  BY <1>1, Invariance, PTL

\* A signal handler stays within its frames and pushes to the live buffer.
THEOREM HandlerSafety == Spec => []HandlerSafe
<1>1. IndInv => HandlerSafe
  <2> SUFFICES ASSUME IndInv, NEW t \in Threads
               PROVE  /\ hpc[t] \in {"load", "push"} => taken[t] <= room[t]
                      /\ hpc[t] = "push" => target[t] = buffer /\ taken[t] <= capacity
    BY DEF HandlerSafe, FramesFit, PushesToLive
  <2> QED
    BY DEF IndInv, HandlerInv, SettingsInv
<1> QED
  BY <1>1, Invariance, PTL

-----------------------------------------------------------------------------
(* stop does not spin for nobody *)

\* From the creation of the processor thread to the end of stop there is a
\* thread that will clear workerDone, or it has.
AwaitInv == isRunning_ \/ section = "await" => Stoppable

\* Every step keeps that when threads can be created: only the worker that has
\* cleared workerDone ends, and only stop and a new processor set it.
LEMMA AwaitStep == ASSUME FALSE \notin SpawnResults PROVE IndInv /\ AwaitInv /\ [Next]_vars => AwaitInv'
<1> SUFFICES ASSUME IndInv, AwaitInv, [Next]_vars PROVE AwaitInv'
  OBVIOUS
<1> USE DEF AwaitInv, Stoppable, Running, flagVars, workerVars
<1>1. CASE Setters
  BY <1>1 DEF Setters, setSamplingInterval, setMaxFramesToCapture, setFilePath
<1>2. CASE QuietStart \/ stop \/ QuietUnload
  BY <1>2 DEF QuietStart, start, stop, QuietUnload, Unload
<1>3. ASSUME NEW a, UpdateStep(a) PROVE AwaitInv'
  BY <1>3 DEF UpdateStep, FillTimer, SetTimer, StoreInterval
<1>4. CASE ConfigureLog \/ ConfigureBuffer \/ SetAction \/ StartTimer \/ StartReturn \/ IgnoreSignal
  BY <1>4 DEF ConfigureLog, ConfigureBuffer, SetAction, StartTimer, StartReturn, IgnoreSignal
<1>5. CASE ConfigureProcessor
  BY <1>5 DEF ConfigureProcessor, IndInv, PhaseInv
<1>6. CASE ProcessorStart
  <2>1. PICK w \in Workers : wpc' = [wpc EXCEPT ![w] = "drain"]
    BY <1>6 DEF ProcessorStart
  <2>2. wpc'[w] # "none"
    BY <2>1 DEF IndInv, TypeOK
  <2> QED BY <2>2
<1>7. CASE ProcessorStop
  BY <1>7 DEF ProcessorStop, IndInv, PhaseInv
<1>8. CASE ProcessorStopped
  BY <1>8 DEF ProcessorStopped, IndInv, PhaseInv
<1>9. ASSUME NEW w \in Workers, WorkerStep(w) PROVE AwaitInv'
  <2>1. CASE UpdateStep(w)
    BY <1>3, <2>1
  <2>2. CASE WorkerDone(w)
    BY <2>2 DEF WorkerDone
  <2>3. ASSUME NEW to, to # "none", wpc' = [wpc EXCEPT ![w] = to], UNCHANGED <<section, isRunning_, workerDone>>
        PROVE  AwaitInv'
    BY <2>3 DEF IndInv, TypeOK
  <2>4. CASE WorkerPop(w) \/ WorkerDrained(w) \/ WorkerAdapted(w) \/ WorkerPoll(w) \/ WorkerQuit(w)
    <3>1. UNCHANGED <<section, isRunning_, workerDone>>
      BY <2>4 DEF WorkerPop, WorkerDrained, WorkerAdapted, WorkerPoll, WorkerQuit
    <3>2. \E to \in {"drain", "poll", "adapt", "quit", "done"} : wpc' = [wpc EXCEPT ![w] = to]
      BY <2>4 DEF WorkerPop, WorkerDrained, WorkerAdapted, WorkerPoll, WorkerQuit, WorkerGoto
    <3> QED BY <2>3, <3>1, <3>2
  <2> QED BY <1>9, <2>1, <2>2, <2>4 DEF WorkerStep
<1>10. ASSUME NEW t \in Threads, HandlerStep(t) PROVE AwaitInv'
  BY <1>10 DEF HandlerStep, HandleEnter, HandleWalk, HandleLoad, HandlePush
<1>11. CASE UNCHANGED vars
  BY <1>11 DEF vars
<1> QED BY <1>1, <1>2, <1>3, <1>4, <1>5, <1>6, <1>7, <1>8, <1>9, <1>10, <1>11 DEF Next, Others, CallerStep

\* What StopReturns rests on: a caller that spins on workerDone has told the
\* worker to end, and the worker is there to clear it or has cleared it.
StopAnswered == section = "await" => ~isRunning_ /\ Stoppable

\* When RunAgentThread does not fail, stop never spins on a flag that nobody
\* clears, also after a worker has ended by itself because setitimer failed.
THEOREM StopNotStranded == ASSUME FALSE \notin SpawnResults PROVE Spec => []StopAnswered
<1>1. Init => AwaitInv
  BY DEF Init, AwaitInv
<1>2. IndInv /\ AwaitInv => StopAnswered
  BY DEF IndInv, PhaseInv, AwaitInv, StopAnswered
<1>3. IndInv /\ AwaitInv /\ [Next]_vars => AwaitInv'
  BY AwaitStep
<1> QED BY <1>1, <1>2, <1>3, Invariance, PTL DEF Spec

-----------------------------------------------------------------------------
(* The refinement of ProfilerControl *)

\* The constructor's state is an initial state of the control interface.
LEMMA ControlInitial == Init => Control!ControlInit
<1> SUFFICES ASSUME Init PROVE Control!ControlInit
  OBVIOUS
<1>1. ValidSettings(live)
  BY InitTypeOK DEF TypeOK
<1>2. Control!ValidSettings(Reported)
  BY <1>1 DEF Reported, ValidSettings, Control!ValidSettings
<1>3. Reported.file \in Control!Names
  BY IdentityAssumption DEF Init, Reported, Control!Names
<1>4. ControlBusy = "free" /\ InUse = NULL /\ isRunning_ = FALSE
  BY DEF Init, ControlBusy, InUse
<1> QED
  BY <1>2, <1>3, <1>4 DEF Control!ControlInit

\* A step that leaves both configurations, the strings, the files and the
\* progress of the caller alone is invisible at the control interface.
LEMMA ControlUnchanged ==
    ASSUME UNCHANGED <<section, isRunning_, live, livePath, heap, conf, capacity, openFile>>
    PROVE  UNCHANGED Control!controlVars
BY DEF Control!controlVars, ControlBusy, Reported, InUse

\* A setter stores settings that the interface allows.
LEMMA ControlSetters ==
    ASSUME IndInv, IndInv', Setters
    PROVE  Control!Set(Reported')
<1> USE DEF Setters, setSamplingInterval, setMaxFramesToCapture, setFilePath
<1>1. section = "free" /\ isRunning_ = FALSE /\ UNCHANGED <<section, isRunning_>>
  BY DEF IndInv, TypeOK, Settable, flagVars
<1>2. ControlBusy = "free" /\ ControlBusy' = "free" /\ UNCHANGED InUse
  BY <1>1 DEF ControlBusy, InUse
<1>3. Control!ValidSettings(Reported')
  <2>1. ValidSettings(live')
    BY DEF IndInv, TypeOK
  <2> QED
    BY <2>1 DEF Reported, ValidSettings, Control!ValidSettings
<1>4. Reported'.file \in Control!Names \cup {NULL}
  <2>1. livePath' = NULL \/ heap'[livePath'] \in Files \cup {Generated, NULL}
    BY DEF IndInv, TypeOK
  <2> QED
    BY <2>1 DEF Reported, Control!Names
<1> QED
  BY <1>1, <1>2, <1>3, <1>4 DEF Control!Set, Control!Settable

\* configure is invisible, but for a name it makes up for the log file.
LEMMA ControlConfigure ==
    ASSUME IndInv, IndInv', ConfigureLog \/ ConfigureBuffer \/ ConfigureProcessor \/ SetAction
    PROVE  Control!NameFile \/ UNCHANGED Control!controlVars
<1>1. /\ section \in {"log", "buffer", "processor", "action"}
      /\ section' \in {"buffer", "processor", "action", "spawn"}
      /\ UNCHANGED live
  BY DEF ConfigureLog, ConfigureBuffer, ConfigureProcessor, SetAction, confVars
<1>2. ControlBusy = "starting" /\ ControlBusy' = "starting"
  BY <1>1 DEF ControlBusy
<1>3. isRunning_ = FALSE /\ isRunning_' = FALSE
  BY <1>1 DEF IndInv, TypeOK, PhaseInv
<1>4. InUse = NULL /\ InUse' = NULL
  BY <1>3 DEF InUse
<1>5. ASSUME UNCHANGED Reported PROVE UNCHANGED Control!controlVars
  BY <1>2, <1>3, <1>4, <1>5 DEF Control!controlVars
<1>6. CASE ConfigureLog
  <2>1. CASE livePath = NULL
    <3>1. PICK p \in Ptrs : livePath' = p /\ heap'[p] = Generated
      <4>1. confPath # NULL
        BY <1>6 DEF ConfigureLog, IndInv, SettingsInv
      <4> QED
        BY <1>6, <2>1, <4>1 DEF ConfigureLog, IndInv, TypeOK, Freed
    <3>2. Reported.file = NULL /\ Reported' = [Reported EXCEPT !.file = Generated]
      BY <1>1, <2>1, <3>1, IdentityAssumption DEF Reported
    <3> QED
      BY <1>2, <1>3, <1>4, <3>2 DEF Control!NameFile
  <2>2. CASE livePath # NULL
    <3>1. livePath' = livePath /\ heap'[livePath] = heap[livePath]
      BY <1>6, <2>2 DEF ConfigureLog, IndInv, TypeOK, Freed
    <3> QED
      BY <1>1, <1>5, <3>1 DEF Reported
  <2> QED
    BY <2>1, <2>2
<1>7. CASE ConfigureBuffer \/ ConfigureProcessor \/ SetAction
  <2>1. UNCHANGED <<livePath, heap>>
    BY <1>7 DEF ConfigureBuffer, ConfigureProcessor, SetAction, confVars
  <2> QED
    BY <1>1, <1>5, <2>1 DEF Reported
<1> QED
  BY <1>6, <1>7

\* The profiler starts to run with exactly the settings that it reports.
LEMMA ControlRun == ASSUME IndInv, ProcessorStart PROVE Control!Run
<1>1. /\ section = "spawn" /\ section' = "arm" /\ isRunning_' = TRUE
      /\ UNCHANGED <<live, conf, livePath, heap, openFile, capacity>>
  BY DEF ProcessorStart, confVars, objectVars
<1>2. ControlBusy = "starting" /\ ControlBusy' = "started"
  BY <1>1 DEF ControlBusy
<1>3. /\ conf = live /\ livePath = confPath /\ confPath # NULL
      /\ openFile = heap[confPath] /\ capacity = conf.frames
  BY <1>1 DEF IndInv, PhaseInv, SettingsInv
<1>4. InUse' = Reported /\ UNCHANGED Reported
  BY <1>1, <1>3 DEF InUse, Reported
<1>5. Reported.file # NULL
  <2>1. heap[livePath] # NULL
    BY <1>3 DEF IndInv, StringsOwned, TypeOK
  <2> QED
    BY <1>3, <2>1 DEF Reported
<1> QED
  BY <1>1, <1>2, <1>4, <1>5 DEF Control!Run

\* start and stop, apart from configure and from what the worker does.
LEMMA ControlCalls ==
    ASSUME IndInv, start \/ StartReturn \/ stop \/ ProcessorStop \/ ProcessorStopped \/ IgnoreSignal
    PROVE  \/ Control!Start \/ Control!Started \/ Control!Stop \/ Control!Halt \/ Control!Stopped
           \/ UNCHANGED Control!controlVars
<1> USE DEF confVars, objectVars, flagVars, ControlBusy
<1>1. UNCHANGED <<live, conf, livePath, heap, openFile, capacity>>
  BY DEF start, StartReturn, stop, ProcessorStop, ProcessorStopped, IgnoreSignal
<1>2. UNCHANGED Reported /\ (UNCHANGED isRunning_ => UNCHANGED InUse)
  BY <1>1 DEF Reported, InUse
<1>3. CASE start
  BY <1>2, <1>3 DEF start, Control!Start
<1>4. CASE StartReturn
  BY <1>2, <1>4 DEF StartReturn, Control!Started
<1>5. CASE stop
  BY <1>2, <1>5 DEF stop, Control!Stop
<1>6. CASE ProcessorStop
  BY <1>2, <1>6 DEF ProcessorStop, Control!Halt, InUse
<1>7. CASE ProcessorStopped
  BY <1>2, <1>7 DEF ProcessorStopped, Control!controlVars
<1>8. CASE IgnoreSignal
  BY <1>2, <1>8 DEF IgnoreSignal, Control!Stopped
<1> QED
  BY <1>3, <1>4, <1>5, <1>6, <1>7, <1>8

\* The destructor ends the life of the interface.
LEMMA ControlDestroy == ASSUME IndInv, QuietUnload PROVE Control!DestroyUnused
<1>1. /\ section = "free" /\ section' = "gone" /\ isRunning_ = FALSE /\ livePath' = NULL
      /\ UNCHANGED <<isRunning_, live>>
  BY DEF QuietUnload, Unload, flagVars, IndInv, TypeOK
<1>2. Reported' = [Reported EXCEPT !.file = NULL] /\ UNCHANGED InUse
  BY <1>1 DEF Reported, InUse
<1> QED
  BY <1>1, <1>2 DEF ControlBusy, Control!DestroyUnused, Control!Destroy, Control!Settable

\* The profiler implements its control interface: the settings in use are
\* those of the last start, and nothing else about them is ever visible.
THEOREM Refinement == Spec => KeepsPromise
<1>1. IndInv /\ IndInv' /\ [Next]_vars => [Control!ControlNext]_(Control!controlVars)
  <2> SUFFICES ASSUME IndInv, IndInv', [Next]_vars
               PROVE  Control!ControlNext \/ UNCHANGED Control!controlVars
    OBVIOUS
  <2> USE DEF Control!ControlNext, Control!Inside
  <2> USE DEF confVars, objectVars, flagVars
  <2>1. CASE Setters
    BY <2>1, ControlSetters
  <2>2. CASE QuietStart \/ stop
    BY <2>2, ControlCalls DEF QuietStart
  <2>3. CASE QuietUnload
    BY <2>3, ControlDestroy
  <2>4. ASSUME NEW a, UpdateStep(a) PROVE UNCHANGED Control!controlVars
    BY <2>4, ControlUnchanged DEF UpdateStep, FillTimer, SetTimer, StoreInterval
  <2>5. CASE CallerStep
    <3>1. CASE StartTimer
      BY <3>1, ControlUnchanged DEF StartTimer
    <3> QED
      BY <2>4, <2>5, <3>1, ControlConfigure, ControlRun, ControlCalls DEF CallerStep
  <2>6. ASSUME NEW w \in Workers, WorkerStep(w) PROVE UNCHANGED Control!controlVars
    <3>1. CASE UpdateStep(w)
      BY <2>4, <3>1
    <3>2. CASE ~UpdateStep(w)
      BY <2>6, <3>2, ControlUnchanged
         DEF WorkerStep, WorkerPop, WorkerDrained, WorkerAdapted, WorkerPoll, WorkerQuit, WorkerDone
    <3> QED
      BY <3>1, <3>2
  <2>7. ASSUME NEW t \in Threads, HandlerStep(t) PROVE UNCHANGED Control!controlVars
    BY <2>7, ControlUnchanged DEF HandlerStep, HandleEnter, HandleWalk, HandleLoad, HandlePush
  <2>8. CASE UNCHANGED vars
    BY <2>8, ControlUnchanged DEF vars
  <2> QED
    BY <2>1, <2>2, <2>3, <2>5, <2>6, <2>7, <2>8 DEF Next, Others
<1> QED
  BY <1>1, ControlInitial, Invariance, PTL DEF Spec, KeepsPromise, Control!ControlSpec

=============================================================================
