------------------------------ MODULE Profiler ------------------------------
(***************************************************************************)
(* The life cycle of the profiler: Profiler (profiler.h, profiler.cpp),    *)
(* the Processor it runs (processor.h, processor.cpp), the SignalHandler   *)
(* that programs the profiling timer (signal_handler.h,                    *)
(* signal_handler.cpp) and the kernel's timer and signal disposition.      *)
(*                                                                         *)
(* Four kinds of threads interleave:                                       *)
(*   - callers of the control API (JNI, controller, JVMTI callbacks), one  *)
(*     at a time inside the critical section guarded by ongoingConf;       *)
(*   - the processor thread that start spawns (a worker);                  *)
(*   - profiled threads that the timer signal interrupts (handle), which   *)
(*     look at ongoingConf but never wait for it.                          *)
(* A caller that finds nothing to do (start of a running profiler, stop of *)
(* a stopped one, a setter while it runs) and the getters change no state  *)
(* and are not actions.                                                    *)
(***************************************************************************)
EXTENDS Options, FiniteSets

CONSTANTS
    Threads,    \* threads that SIGPROF can interrupt
    Workers,    \* identities for processor threads
    Ptrs,       \* addresses that safe_copy_string can return
    Files,      \* file names that callers give to setFilePath
    Generated,  \* a name made up from pid and time
    NULL,       \* no file name, or no string
    FrameInputs,      \* arguments of setMaxFramesToCapture
    IntervalInputs,   \* arguments of setSamplingInterval, <<min, max>>
    SpawnResults, \* whether RunAgentThread succeeds: a subset of BOOLEAN
    QueueSize,  \* bound: samples the buffer holds (Size in the code)
    PopLimit    \* bound: samples popped before a new interval is set (200 in the code)

ASSUME LimitAssumption ==
    /\ QueueSize \in Nat \ {0} /\ PopLimit \in Nat
    /\ SpawnResults \subseteq BOOLEAN
    /\ FrameInputs \subseteq Int /\ IntervalInputs \subseteq Int \X Int

Caller == "caller"            \* whoever holds ongoingConf

ASSUME IdentityAssumption ==
    /\ IsFiniteSet(Threads) /\ Caller \notin Workers
    /\ NULL \notin Ptrs /\ NULL \notin Files \cup {Generated}

Actors == {Caller} \cup Workers
\* Object identities: one current, one for every reference that can be stale.
Objects == 1..(Cardinality(Threads) + 3)

VARIABLES
    section,     \* where the holder of ongoingConf is, "free" when nobody holds it
    needsUpdate, \* the local of that name in configure
    reloadConfig,
    live, conf,  \* liveConfiguration and configuration_, the paths apart
    livePath, confPath,  \* their logFilePath pointers
    heap,        \* what each string address holds, NULL when free
    openFile,    \* the name logFile was opened with
    writer, buffer,      \* the current LogWriter and CircularQueue
    capacity,    \* the frames a slot of the current buffer holds
    bufferRef,   \* the LogWriter that the current buffer refers to
    samples,     \* how many samples the current buffer holds
    processor,   \* the current Processor (and the SignalHandler made with it)
    processorRef,  \* the LogWriter and CircularQueue that it refers to
    isRunning_, workerDone,  \* its flags
    currentInterval,  \* of the current SignalHandler
    itimer,      \* the static struct that updateSigprofInterval fills
    timer,       \* the interval the kernel's timer is armed with, 0 when disarmed
    action,      \* the disposition of SIGPROF
    wpc, popped, runs,   \* each worker: where in run, its local, its Processor
    upd, want,   \* each actor: where in updateSigprofInterval, its argument
    hpc, room, taken, target  \* each thread: where in handle, length of frames,
                         \* num_frames of the trace, the buffer it pushes to

confVars == <<needsUpdate, reloadConfig, live, conf, livePath, confPath, heap, openFile>>
objectVars == <<writer, buffer, capacity, bufferRef, processor, processorRef>>
workerVars == <<wpc, popped, runs>>
timerVars == <<currentInterval, itimer, timer>>
updVars == <<upd, want>>
handlerVars == <<hpc, room, taken, target>>
flagVars == <<isRunning_, workerDone>>
vars == <<section, confVars, objectVars, samples, flagVars, timerVars, action,
          workerVars, updVars, handlerVars>>

Fresh(used) == CHOOSE i \in Objects : i \notin used

\* The constructor has validated the options and called configure once.
Init ==
    /\ section = "free" /\ needsUpdate = FALSE /\ reloadConfig = FALSE
    /\ \E arg \in IntervalInputs, n \in FrameInputs :
           live = WithFrames(WithInterval([min |-> 0, max |-> 0, frames |-> 0], arg[1], arg[2]), n)
    /\ conf = live
    /\ \E p \in Ptrs, f \in Files \cup {Generated} :
           /\ livePath = p /\ confPath = p
           /\ heap = [q \in Ptrs |-> IF q = p THEN f ELSE NULL]
           /\ openFile = f
    /\ writer = 1 /\ buffer = 1 /\ capacity = conf.frames /\ bufferRef = 1 /\ samples = 0
    /\ processor = 1 /\ processorRef = [writer |-> 1, buffer |-> 1]
    /\ isRunning_ = FALSE
    /\ workerDone \in BOOLEAN    \* never initialised before the first start
    /\ currentInterval = -1 /\ itimer = 0 /\ timer = 0 /\ action = "default"
    /\ wpc = [w \in Workers |-> "none"] /\ popped = [w \in Workers |-> 0]
    /\ runs = [w \in Workers |-> 0]
    /\ upd = [a \in Actors |-> "none"] /\ want = [a \in Actors |-> 0]
    /\ hpc = [t \in Threads |-> "out"] /\ room = [t \in Threads |-> 0]
    /\ taken = [t \in Threads |-> 0] /\ target = [t \in Threads |-> 0]

-----------------------------------------------------------------------------
(* The setters. They do nothing while the profiler runs. *)

\* Mutant: nobody looks whether the profiler runs.
SettableAlways == section = "free"
Settable == section = "free" /\ ~isRunning_

setSamplingInterval(i, j) ==
    /\ Settable
    /\ live' = WithInterval(live, i, j)
    /\ reloadConfig' = TRUE
    /\ UNCHANGED <<section, needsUpdate, conf, livePath, confPath, heap, openFile, objectVars, samples,
                   flagVars, timerVars, action, workerVars, updVars, handlerVars>>

setMaxFramesToCapture(n) ==
    /\ Settable
    /\ live' = WithFrames(live, n)
    /\ reloadConfig' = TRUE
    /\ UNCHANGED <<section, needsUpdate, conf, livePath, confPath, heap, openFile, objectVars, samples,
                   flagVars, timerVars, action, workerVars, updVars, handlerVars>>

Freed(h, p) == [q \in Ptrs |-> IF q = p THEN NULL ELSE h[q]]

\* Mutant of setFilePath: the old path is freed although configuration_ has it.
setFilePathFreeing(f) ==
    LET h == IF livePath # NULL THEN Freed(heap, livePath) ELSE heap
    IN  /\ Settable
        /\ \/ f = NULL /\ livePath' = NULL /\ heap' = h
           \/ f # NULL /\ \E p \in Ptrs :
                  h[p] = NULL /\ livePath' = p /\ heap' = [h EXCEPT ![p] = f]
        /\ reloadConfig' = TRUE
        /\ UNCHANGED <<section, needsUpdate, live, conf, confPath, openFile, objectVars, samples,
                       flagVars, timerVars, action, workerVars, updVars, handlerVars>>

\* The old path is freed unless configuration_ uses it, the new one copied.
setFilePath(f) ==
    LET h == IF livePath # NULL /\ livePath # confPath THEN Freed(heap, livePath) ELSE heap
    IN  /\ Settable
        /\ \/ f = NULL /\ livePath' = NULL /\ heap' = h
           \/ f # NULL /\ \E p \in Ptrs :
                  /\ h[p] = NULL
                  /\ livePath' = p
                  /\ heap' = [h EXCEPT ![p] = f]
        /\ reloadConfig' = TRUE
        /\ UNCHANGED <<section, needsUpdate, live, conf, confPath, openFile, objectVars, samples,
                       flagVars, timerVars, action, workerVars, updVars, handlerVars>>

-----------------------------------------------------------------------------
(* start *)

start ==
    /\ section = "free" /\ ~isRunning_
    /\ section' = IF reloadConfig THEN "log" ELSE "action"
    /\ UNCHANGED <<confVars, objectVars, samples,
                   flagVars, timerVars, action, workerVars, updVars, handlerVars>>

\* configure: a new log file and writer when the path is another string.
ConfigureLog ==
    LET h == IF confPath # NULL THEN Freed(heap, confPath) ELSE heap
    IN  /\ section = "log" /\ section' = "buffer"
        /\ \/ livePath = confPath /\ UNCHANGED <<needsUpdate, livePath, confPath, heap, openFile, writer>>
           \/ /\ livePath # confPath
              /\ \/ /\ livePath = NULL
                    /\ \E p \in Ptrs :
                           /\ h[p] = NULL
                           /\ livePath' = p /\ confPath' = p
                           /\ heap' = [h EXCEPT ![p] = Generated]
                           /\ openFile' = Generated
                 \/ /\ livePath # NULL
                    /\ confPath' = livePath /\ heap' = h /\ openFile' = h[livePath]
                    /\ UNCHANGED livePath
              /\ writer' = Fresh({writer, bufferRef, processorRef.writer})
              /\ needsUpdate' = TRUE
        /\ UNCHANGED <<reloadConfig, live, conf, buffer, capacity, bufferRef, processor, processorRef,
                       samples, flagVars, timerVars, action, workerVars, updVars, handlerVars>>

\* configure: a new buffer when the writer is new or the frames differ.
ConfigureBuffer ==
    LET update == needsUpdate \/ conf.frames # live.frames
    IN  /\ section = "buffer" /\ section' = "processor"
        /\ needsUpdate' = update
        /\ \/ ~update /\ UNCHANGED <<conf, buffer, capacity, bufferRef, samples>>
           \/ /\ update
              /\ conf' = [conf EXCEPT !.frames = live.frames]
              /\ buffer' = Fresh({buffer, processorRef.buffer} \cup {target[t] : t \in Threads})
              /\ capacity' = live.frames
              /\ bufferRef' = writer
              /\ samples' = 0
        /\ UNCHANGED <<reloadConfig, live, livePath, confPath, heap, openFile, writer, processor,
                       processorRef, flagVars, timerVars, action, workerVars, updVars, handlerVars>>

\* Mutant of ConfigureProcessor: a new buffer does not bring a new processor.
ConfigureProcessorAlone ==
    LET update == conf.min # live.min \/ conf.max # live.max
    IN  /\ section = "processor" /\ section' = "action"
        /\ \/ ~update /\ UNCHANGED <<conf, processor, processorRef, flagVars, currentInterval>>
           \/ /\ update
              /\ conf' = [conf EXCEPT !.min = live.min, !.max = live.max]
              /\ processor' = Fresh({processor} \cup {runs[w] : w \in Workers})
              /\ processorRef' = [writer |-> writer, buffer |-> buffer]
              /\ isRunning_' = FALSE /\ workerDone' \in BOOLEAN /\ currentInterval' = -1
        /\ reloadConfig' = FALSE
        /\ needsUpdate' = FALSE
        /\ UNCHANGED <<live, livePath, confPath, heap, openFile, writer, buffer, capacity,
                       bufferRef, samples, itimer, timer, action, workerVars, updVars, handlerVars>>

\* configure: a new processor and signal handler when the buffer is new or
\* the interval differs.
ConfigureProcessor ==
    LET update == needsUpdate \/ conf.min # live.min \/ conf.max # live.max
    IN  /\ section = "processor" /\ section' = "action"
        /\ \/ ~update /\ UNCHANGED <<conf, processor, processorRef, flagVars, currentInterval>>
           \/ /\ update
              /\ conf' = [conf EXCEPT !.min = live.min, !.max = live.max]
              /\ processor' = Fresh({processor} \cup {runs[w] : w \in Workers})
              /\ processorRef' = [writer |-> writer, buffer |-> buffer]
              /\ isRunning_' = FALSE
              /\ workerDone' \in BOOLEAN
              /\ currentInterval' = -1
        /\ reloadConfig' = FALSE
        /\ needsUpdate' = FALSE
        /\ UNCHANGED <<live, livePath, confPath, heap, openFile, writer, buffer, capacity,
                       bufferRef, samples, itimer, timer, action, workerVars, updVars, handlerVars>>

\* handler_->SetAction(&bootstrapHandle)
SetAction ==
    /\ section = "action" /\ section' = "spawn"
    /\ action' = "handler"
    /\ UNCHANGED <<confVars, objectVars, samples, flagVars, timerVars, workerVars, updVars, handlerVars>>

\* processor->start: the flags are set, then the thread is created. When
\* RunAgentThread fails that is only logged.
ProcessorStart ==
    /\ section = "spawn" /\ section' = "arm"
    /\ isRunning_' = TRUE /\ workerDone' = TRUE
    /\ \/ /\ TRUE \in SpawnResults
          /\ \E w \in Workers :
                 /\ wpc[w] = "none"
                 /\ wpc' = [wpc EXCEPT ![w] = "drain"]
                 /\ runs' = [runs EXCEPT ![w] = processor]
       \/ FALSE \in SpawnResults /\ UNCHANGED <<wpc, runs>>
    /\ UNCHANGED popped
    /\ UNCHANGED <<confVars, objectVars, samples, timerVars, action, updVars, handlerVars>>

-----------------------------------------------------------------------------
(* updateSigprofInterval(interval), called by the caller and by the worker.  *)
(* Its accesses to the handler's currentInterval and to the static itimerval *)
(* are not synchronised. It ends with upd[a] = "ok" or "failed".             *)

CallUpdate(a, interval) ==
    /\ upd[a] = "none"
    /\ want' = [want EXCEPT ![a] = interval]
    /\ upd' = [upd EXCEPT ![a] = IF interval = currentInterval THEN "ok" ELSE "fill"]

FillTimer(a) ==
    /\ upd[a] = "fill"
    /\ itimer' = want[a]
    /\ upd' = [upd EXCEPT ![a] = "set"]
    /\ UNCHANGED <<section, confVars, objectVars, samples, flagVars, currentInterval, timer, action,
                   workerVars, want, handlerVars>>

\* setitimer, which can fail.
SetTimer(a) ==
    /\ upd[a] = "set"
    /\ \/ timer' = itimer /\ upd' = [upd EXCEPT ![a] = "store"]
       \/ timer' = timer /\ upd' = [upd EXCEPT ![a] = "failed"]
    /\ UNCHANGED <<section, confVars, objectVars, samples, flagVars, currentInterval, itimer, action,
                   workerVars, want, handlerVars>>

StoreInterval(a) ==
    /\ upd[a] = "store"
    /\ currentInterval' = want[a]
    /\ upd' = [upd EXCEPT ![a] = "ok"]
    /\ UNCHANGED <<section, confVars, objectVars, samples, flagVars, itimer, timer, action,
                   workerVars, want, handlerVars>>

Updated(a) == upd[a] \in {"ok", "failed"}
EndUpdate(a) == upd' = [upd EXCEPT ![a] = "none"] /\ want' = [want EXCEPT ![a] = 0]

\* start arms the timer with one of the intervals drawn by SignalHandler ...
StartTimer ==
    /\ section = "arm"
    /\ \E i \in conf.min..conf.max : CallUpdate(Caller, i)
    /\ UNCHANGED <<section, confVars, objectVars, samples, flagVars, timerVars, action, workerVars, handlerVars>>

\* ... and returns the result.
StartReturn ==
    /\ section = "arm" /\ Updated(Caller)
    /\ EndUpdate(Caller)
    /\ section' = "free"
    /\ UNCHANGED <<confVars, objectVars, samples, flagVars, timerVars, action, workerVars, handlerVars>>

-----------------------------------------------------------------------------
(* stop *)

stop ==
    /\ section = "free" /\ isRunning_
    /\ section' = "halt"
    /\ CallUpdate(Caller, 0)
    /\ UNCHANGED <<confVars, objectVars, samples, flagVars, timerVars, action, workerVars, handlerVars>>

\* processor->stop: ask the worker to end ...
ProcessorStop ==
    /\ section = "halt" /\ Updated(Caller)
    /\ EndUpdate(Caller)
    /\ section' = "await"
    /\ isRunning_' = FALSE
    /\ UNCHANGED <<confVars, objectVars, samples, workerDone, timerVars, action, workerVars, handlerVars>>

\* Mutant of ProcessorStopped: the caller does not wait.
ProcessorStoppedAtOnce ==
    /\ section = "await"
    /\ workerDone' = TRUE
    /\ section' = "ignore"
    /\ UNCHANGED <<confVars, objectVars, samples, isRunning_, timerVars, action, workerVars, updVars, handlerVars>>

\* ... and spin until it has.
ProcessorStopped ==
    /\ section = "await" /\ ~workerDone
    /\ workerDone' = TRUE
    /\ section' = "ignore"
    /\ UNCHANGED <<confVars, objectVars, samples, isRunning_, timerVars, action, workerVars, updVars, handlerVars>>

\* Mutants of IgnoreSignal: the default action is restored; nothing is done.
RestoreDefault ==
    /\ section = "ignore" /\ section' = "free"
    /\ action' = "default"
    /\ UNCHANGED <<confVars, objectVars, samples, flagVars, timerVars, workerVars, updVars, handlerVars>>
KeepHandler ==
    /\ section = "ignore" /\ section' = "free"
    /\ UNCHANGED <<confVars, objectVars, samples, flagVars, timerVars, action, workerVars, updVars, handlerVars>>

\* signal(SIGPROF, SIG_IGN)
IgnoreSignal ==
    /\ section = "ignore" /\ section' = "free"
    /\ action' = "ignore"
    /\ UNCHANGED <<confVars, objectVars, samples, flagVars, timerVars, workerVars, updVars, handlerVars>>

-----------------------------------------------------------------------------
(* The destructor, called by Agent_OnUnload. It checks nothing: its guard    *)
(* reads ongoingConf and goes on, whoever is inside start or stop. The path  *)
(* of configuration_ is freed with it unless it is also that of              *)
(* liveConfiguration, which goes with CONFIGURATION.                         *)

Unload ==
    /\ section # "gone"
    /\ section' = "gone"
    /\ heap' = Freed(IF livePath = confPath THEN heap ELSE Freed(heap, confPath), livePath)
    /\ livePath' = NULL /\ confPath' = NULL
    /\ UNCHANGED <<needsUpdate, reloadConfig, live, conf, openFile, objectVars, samples,
                   flagVars, timerVars, action, workerVars, updVars, handlerVars>>

-----------------------------------------------------------------------------
(* Processor::run *)

WorkerGoto(w, from, to) == wpc[w] = from /\ wpc' = [wpc EXCEPT ![w] = to]

\* pop finds a sample and records it.
WorkerPop(w) ==
    /\ WorkerGoto(w, "drain", "drain") /\ samples > 0
    /\ samples' = samples - 1
    /\ popped' = [popped EXCEPT ![w] = IF @ > PopLimit THEN @ ELSE @ + 1]
    /\ UNCHANGED <<section, confVars, objectVars, flagVars, timerVars, action, runs, updVars, handlerVars>>

\* pop finds nothing; after many samples another interval is set.
WorkerDrained(w) ==
    /\ samples = 0
    /\ \/ /\ popped[w] <= PopLimit
          /\ WorkerGoto(w, "drain", "poll")
          /\ UNCHANGED updVars
       \/ /\ popped[w] > PopLimit
          /\ WorkerGoto(w, "drain", "adapt")
          /\ \E i \in conf.min..conf.max : CallUpdate(w, i)
    /\ UNCHANGED <<section, confVars, objectVars, samples, flagVars, timerVars, action, popped, runs, handlerVars>>

\* The loop is left when the interval could not be set.
WorkerAdapted(w) ==
    /\ EndUpdate(w)
    /\ \/ /\ upd[w] = "ok"
          /\ WorkerGoto(w, "adapt", "poll")
          /\ popped' = [popped EXCEPT ![w] = 0]
       \/ /\ upd[w] = "failed"
          /\ WorkerGoto(w, "adapt", "quit")
          /\ UNCHANGED popped
    /\ UNCHANGED <<section, confVars, objectVars, samples, flagVars, timerVars, action, runs, handlerVars>>

\* Mutant of WorkerPoll: the worker only leaves on errors.
WorkerPollOn(w) ==
    /\ WorkerGoto(w, "poll", "drain")
    /\ UNCHANGED <<section, confVars, objectVars, samples, flagVars, timerVars, action, popped, runs,
                   updVars, handlerVars>>

\* isRunning_ is looked at; the worker sleeps and drains again, or leaves.
WorkerPoll(w) ==
    /\ WorkerGoto(w, "poll", IF isRunning_ THEN "drain" ELSE "quit")
    /\ UNCHANGED <<section, confVars, objectVars, samples, flagVars, timerVars, action, popped, runs,
                   updVars, handlerVars>>

\* handler_.stopSigprof()
WorkerQuit(w) ==
    /\ WorkerGoto(w, "quit", "done")
    /\ CallUpdate(w, 0)
    /\ UNCHANGED <<section, confVars, objectVars, samples, flagVars, timerVars, action, popped, runs, handlerVars>>

\* workerDone.clear(), the last access to anything shared.
WorkerDone(w) ==
    /\ WorkerGoto(w, "done", "none") /\ Updated(w)
    /\ EndUpdate(w)
    /\ workerDone' = FALSE
    /\ popped' = [popped EXCEPT ![w] = 0]
    /\ runs' = [runs EXCEPT ![w] = 0]
    /\ UNCHANGED <<section, confVars, objectVars, samples, isRunning_, timerVars, action, handlerVars>>

-----------------------------------------------------------------------------
(* handle, on a profiled thread. A signal is not delivered again to a thread *)
(* that is handling it.                                                      *)

HandlerGoto(t, from, to) == hpc[t] = from /\ hpc' = [hpc EXCEPT ![t] = to]

\* The timer expires: the thread enters handle and lays out frames.
HandleEnter(t) ==
    /\ timer # 0 /\ action = "handler"
    /\ HandlerGoto(t, "out", "walk")
    /\ room' = [room EXCEPT ![t] = conf.frames]
    /\ UNCHANGED <<section, confVars, objectVars, samples, flagVars, timerVars, action, workerVars,
                   updVars, taken, target>>

\* AsyncGetCallTrace may fill as many frames as the configuration says now;
\* there are none for a thread without a JNIEnv.
HandleWalk(t) ==
    /\ HandlerGoto(t, "walk", "load")
    /\ \E n \in {0, conf.frames} : taken' = [taken EXCEPT ![t] = n]
    /\ UNCHANGED <<section, confVars, objectVars, samples, flagVars, timerVars, action, workerVars,
                   updVars, room, target>>

HandleLoad(t) ==
    /\ HandlerGoto(t, "load", "push")
    /\ target' = [target EXCEPT ![t] = buffer]
    /\ UNCHANGED <<section, confVars, objectVars, samples, flagVars, timerVars, action, workerVars,
                   updVars, room, taken>>

\* buffer->push; the sample is dropped when the queue is full.
HandlePush(t) ==
    /\ HandlerGoto(t, "push", "out")
    /\ samples' = IF target[t] = buffer /\ samples < QueueSize THEN samples + 1 ELSE samples
    /\ room' = [room EXCEPT ![t] = 0]
    /\ taken' = [taken EXCEPT ![t] = 0]
    /\ target' = [target EXCEPT ![t] = 0]
    /\ UNCHANGED <<section, confVars, objectVars, flagVars, timerVars, action, workerVars, updVars>>

-----------------------------------------------------------------------------
UpdateStep(a) == FillTimer(a) \/ SetTimer(a) \/ StoreInterval(a)

Setters ==
    \/ \E arg \in IntervalInputs : setSamplingInterval(arg[1], arg[2])
    \/ \E n \in FrameInputs : setMaxFramesToCapture(n)
    \/ \E f \in Files \cup {NULL} : setFilePath(f)

\* The steps of start and stop after they have taken ongoingConf.
CallerStep ==
    \/ ConfigureLog \/ ConfigureBuffer \/ ConfigureProcessor \/ SetAction
    \/ ProcessorStart \/ StartTimer \/ StartReturn
    \/ ProcessorStop \/ ProcessorStopped \/ IgnoreSignal \/ UpdateStep(Caller)

WorkerStep(w) ==
    \/ WorkerPop(w) \/ WorkerDrained(w) \/ WorkerAdapted(w) \/ WorkerPoll(w)
    \/ WorkerQuit(w) \/ WorkerDone(w) \/ UpdateStep(w)

HandlerStep(t) == HandleEnter(t) \/ HandleWalk(t) \/ HandleLoad(t) \/ HandlePush(t)

Others == Setters \/ stop \/ CallerStep \/ (\E w \in Workers : WorkerStep(w))
                  \/ (\E t \in Threads : HandlerStep(t))

CodeNext == start \/ Unload \/ Others
CodeSpec == Init /\ [][CodeNext]_vars

(***************************************************************************)
(* stop waits for the worker but not for handlers, so a handler can still  *)
(* be running when a later start replaces the buffer. QuietStart is the    *)
(* assumption that it is not: every handler of the last period has         *)
(* returned by the time the profiler is started with a new configuration.  *)
(* QuietUnload is the assumption that Agent_OnUnload finds a profiler that *)
(* is stopped, with nobody inside its control interface and no handler     *)
(* under way. (DeathStops of Agent says which starts can break the first.) *)
(* The code ensures neither: CodeSpec is the code alone.                   *)
(***************************************************************************)
HandlersOut == \A t \in Threads : hpc[t] = "out"

QuietStart == (reloadConfig => HandlersOut) /\ start
QuietUnload == section = "free" /\ ~isRunning_ /\ HandlersOut /\ Unload

Next == QuietStart \/ QuietUnload \/ Others
Spec == Init /\ [][Next]_vars

\* The threads that are inside start, stop, run or handle keep being
\* scheduled; nobody has to call anything.
Fairness == /\ WF_vars(CallerStep)
            /\ \A w \in Workers : WF_vars(WorkerStep(w))
FairSpec == Spec /\ Fairness

-----------------------------------------------------------------------------
(* Properties *)

\* The values of the variables; both configurations hold valid settings.
TypeOK ==
    /\ section \in {"free", "log", "buffer", "processor", "action", "spawn", "arm",
                    "halt", "await", "ignore", "gone"}
    /\ {needsUpdate, reloadConfig, isRunning_, workerDone} \subseteq BOOLEAN
    /\ {live, conf} \subseteq [min : Nat, max : Nat, frames : Nat]
    /\ ValidSettings(live) /\ ValidSettings(conf)
    /\ {livePath, confPath} \subseteq Ptrs \cup {NULL}
    /\ heap \in [Ptrs -> Files \cup {Generated, NULL}]
    /\ {writer, buffer, processor, bufferRef} \subseteq Objects
    /\ processorRef \in [writer : Objects, buffer : Objects]
    /\ capacity \in Nat /\ samples \in 0..QueueSize
    /\ action \in {"default", "handler", "ignore"}
    /\ wpc \in [Workers -> {"none", "drain", "adapt", "poll", "quit", "done"}]
    /\ popped \in [Workers -> Nat] /\ runs \in [Workers -> Objects \cup {0}]
    /\ upd \in [Actors -> {"none", "fill", "set", "store", "ok", "failed"}]
    /\ {currentInterval, itimer, timer} \subseteq Int /\ want \in [Actors -> Int]
    /\ hpc \in [Threads -> {"out", "walk", "load", "push"}]
    /\ room \in [Threads -> Nat] /\ taken \in [Threads -> Nat]
    /\ target \in [Threads -> Objects \cup {0}]

Running(w) == wpc[w] # "none"

\* CircularQueue has one consumer: two processor threads never run at once,
\* however starts and stops follow each other (stop waits for workerDone).
OneConsumer == \A v, w \in Workers : Running(v) /\ Running(w) => v = w

\* "no shared data access after this point, can be safely deleted": as long
\* as a processor thread can touch its Processor, neither that nor the
\* buffer, writer and signal handler behind it have been replaced or, by the
\* destructor, deleted.
WorkerObjectsAlive ==
    \A w \in Workers : Running(w) =>
        /\ runs[w] = processor /\ section # "gone"
        /\ processorRef = [writer |-> writer, buffer |-> buffer]
        /\ bufferRef = writer

\* SIGPROF never meets its default action, which would end the JVM: start
\* installs the handler before it arms the timer and stop never restores the
\* default, whatever the races on the timer.
NeverKilled == timer # 0 => action # "default"

(***************************************************************************)
(* The refinement of ProfilerControl: its settings are what the getters    *)
(* report, its used what the running objects were made with.               *)
(***************************************************************************)
ControlBusy == CASE section \in {"free", "gone"} -> section
                 [] section \in {"log", "buffer", "processor", "action", "spawn"} -> "starting"
                 [] section = "arm" -> "started"
                 [] section = "halt" -> "stopping"
                 [] section \in {"await", "ignore"} -> "stopped"

Reported == [min |-> live.min, max |-> live.max, frames |-> live.frames,
             file |-> IF livePath = NULL THEN NULL ELSE heap[livePath]]
InUse == IF isRunning_ THEN [min |-> conf.min, max |-> conf.max, frames |-> capacity, file |-> openFile]
                       ELSE NULL

Control == INSTANCE ProfilerControl WITH
    busy <- ControlBusy, running <- isRunning_, settings <- Reported, used <- InUse

\* The profiler keeps the promise of its interface. Whatever sequence of
\* setters preceded it, start takes over all of it, down to the file that is
\* open and the frames a slot of the buffer holds; the setters are refused
\* while it runs; and no step of configure changes what the getters report.
KeepsPromise == Control!ControlSpec

\* Every path string has exactly one owner chain: both configurations point
\* to allocated strings and every allocated string is reachable from one of
\* them (no dangling pointer, no double free and no leak in setFilePath,
\* configure and the destructor).
StringsOwned ==
    {p \in Ptrs : heap[p] # NULL} = {livePath, confPath} \ {NULL}

\* A handler works within bounds: AsyncGetCallTrace stays within frames, and
\* the trace that push copies fits a slot of the current buffer.
FramesFit ==
    \A t \in Threads :
        /\ hpc[t] \in {"load", "push"} => taken[t] <= room[t]
        /\ hpc[t] = "push" => taken[t] <= capacity

\* A handler works on live memory: the buffer it has loaded and is about to
\* push to is still the current one, not one that configure has deleted
\* ("these objects all live for the lifecycle of the program").
PushesToLive == \A t \in Threads : hpc[t] = "push" => target[t] = buffer

\* A handler that is under way when the configuration changes neither runs
\* over its arrays nor touches a deleted buffer.
HandlerSafe == FramesFit /\ PushesToLive

\* If every pass of the worker over the queue comes to an end, stop returns:
\* the caller is not left spinning on workerDone with ongoingConf held. The
\* exception is a start whose thread could not be created: nobody will ever
\* clear workerDone for it.
PassesEnd == \A w \in Workers : []<>(wpc[w] # "drain")
Stoppable == ~workerDone \/ \E w \in Workers : Running(w)
StopReturns == PassesEnd => (section = "halt" /\ Stoppable ~> section = "free")
=============================================================================
