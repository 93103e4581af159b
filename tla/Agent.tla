-------------------------------- MODULE Agent --------------------------------
(***************************************************************************)
(* The agent around the profiler: Agent_OnLoad, the JVMTI callbacks        *)
(* OnVMInit, OnThreadStart (of the main thread) and OnVMDeath, and         *)
(* Agent_OnUnload (agent.cpp), the network Controller (controller.h,       *)
(* controller.cpp) and the control API for Java (control.cpp). The         *)
(* profiler itself is ProfilerControl, which Profiler implements.          *)
(*                                                                         *)
(* A caller waits for ongoingConf with its operation in call; what the     *)
(* operation does then is one step, but for start and stop, whose steps    *)
(* (Inside) keep the lock. The spin lock is not fair: any waiting caller   *)
(* may be next. Getters that do not lock change nothing and are steps only *)
(* where their result is used.                                             *)
(***************************************************************************)
EXTENDS ProfilerControl, Sequences, FiniteSetsExt

CONSTANTS
    Apis,           \* Java threads that use the control API
    OptionStrings,  \* option strings, as sequences of [key, value]
    Requests,       \* operations that callers of the API ask for
    Commands,       \* operations that clients of the controller ask for
    NONE,           \* a key without a value, no call
    MaxCalls        \* bound: calls made through the API

Ctl == "controller"   \* the controller's thread
Vm == "vm"            \* the threads of the JVM that run the callbacks
Callers == Apis \cup {Ctl, Vm}

ASSUME CallerAssumption == Apis \cap {Ctl, Vm} = {} /\ NULL \notin Callers
\* The value of an option is a text or a number, never a null pointer.
ASSUME StringAssumption ==
    \A opts \in OptionStrings :
        /\ Len(opts) \in Nat /\ DOMAIN opts = 1..Len(opts)
        /\ \A i \in DOMAIN opts : opts[i].value # NULL

VARIABLES
    asyncUnsafe,   \* the build has GETENV_NEW_THREAD_ASYNC_UNSAFE
    options,       \* the string given to Agent_OnLoad
    config,        \* CONFIGURATION: host, port and start
    vm,            \* how far the JVM is
    seen,          \* what isRunning returned to OnVMDeath
    mainStarted,
    call, holder,  \* the operation of each caller, the caller that has ongoingConf
    calls,         \* calls made through the API so far
    isRunning_,    \* of the controller
    ctl, cmd,      \* where the controller's thread is, the command it serves
    overtaken,     \* another caller has set the interval since the command was read
    late           \* start has begun since OnVMDeath looked

vmVars == <<asyncUnsafe, options, config, vm, seen, mainStarted>>
ctlVars == <<isRunning_, ctl, cmd, overtaken>>
vars == <<controlVars, vmVars, call, holder, calls, ctlVars, late>>

Op(name, a, b) == [op |-> name, a |-> a, b |-> b]
NoOp == Op("none", 0, 0)

-----------------------------------------------------------------------------
(* Options *)

\* The keys in the order of the tests; "interval" is also a prefix of the
\* first two, and a prefix is all that is tested.
KeyOrder == <<"intervalMin", "intervalMax", "interval", "logPath", "start", "host", "port", "maxFrames">>
Prefixed(key) == {key} \cup (IF key \in {"intervalMin", "intervalMax"} THEN {"interval"} ELSE {})
\* Mutant: the shorter name is tested first.
MeansShort(key) ==
    LET p == Prefixed(key) \cap {"interval"} IN IF p # {} THEN "interval" ELSE key
Means(key) ==
    LET hits == {i \in DOMAIN KeyOrder : KeyOrder[i] \in Prefixed(key)}
    IN  IF hits = {} THEN "unknown" ELSE KeyOrder[Min(hits)]

Defaults == [min |-> DEFAULT_SAMPLING_INTERVAL, max |-> DEFAULT_SAMPLING_INTERVAL,
             frames |-> DEFAULT_MAX_FRAMES_TO_CAPTURE, file |-> NULL,
             host |-> NULL, port |-> NULL, start |-> TRUE]

\* The value of the i-th key is what follows the next '=', which is that of a
\* later key when this one has none. (For the three strings the length of the
\* copy would then be negative: such strings are left out.)
ValueOf(opts, i) ==
    LET from == {j \in i..Len(opts) : opts[j].value # NONE}
    IN  IF from = {} THEN NONE ELSE opts[Min(from)].value
\* c after the i-th round of the loop in parseArguments.
WithOption(c, opts, i) ==
    LET k == Means(opts[i].key)
        v == ValueOf(opts, i)
    IN  IF v = NONE THEN c
        ELSE CASE k = "intervalMin" -> [c EXCEPT !.min = v]
               [] k = "intervalMax" -> [c EXCEPT !.max = v]
               [] k = "interval" -> [c EXCEPT !.min = v, !.max = v]
               [] k = "logPath" -> [c EXCEPT !.file = v]
               [] k = "start" -> [c EXCEPT !.start = (v # 0)]
               [] k = "host" -> [c EXCEPT !.host = v]
               [] k = "port" -> [c EXCEPT !.port = v]
               [] k = "maxFrames" -> [c EXCEPT !.frames = v]
               [] OTHER -> c
parseArguments(opts) ==
    LET parsed[i \in 0..Len(opts)] == IF i = 0 THEN Defaults ELSE WithOption(parsed[i - 1], opts, i)
    IN  parsed[Len(opts)]

\* The settings after the constructor of Profiler: validated, and with a
\* name for the log file.
Configured(c) ==
    WithFrames(WithInterval([min |-> c.min, max |-> c.max, frames |-> c.frames,
                             file |-> IF c.file = NULL THEN Generated ELSE c.file],
                            c.min, c.max), c.frames)

-----------------------------------------------------------------------------
Init ==
    /\ asyncUnsafe \in BOOLEAN /\ options \in OptionStrings
    /\ config = [host |-> NULL, port |-> NULL, start |-> TRUE]
    /\ vm = "unloaded" /\ seen = FALSE /\ mainStarted = FALSE
    /\ busy = "free" /\ running = FALSE /\ used = NULL
    /\ settings = Configured(Defaults)   \* until Agent_OnLoad there is no profiler
    /\ call = [p \in Callers |-> NoOp] /\ holder = NULL /\ calls = 0
    /\ isRunning_ = FALSE /\ ctl = "none" /\ cmd = NoOp
    /\ overtaken = FALSE /\ late = FALSE

Ask(p, op) == call[p] = NoOp /\ call' = [call EXCEPT ![p] = op]
Idle(p) == call[p] = NoOp

\* Agent_OnLoad. Without the capabilities the JVM goes on without a profiler
\* ("degraded"); when the events cannot be enabled it does not start.
OnLoad ==
    /\ vm = "unloaded"
    /\ \/ /\ vm' = "loaded"
          /\ LET c == parseArguments(options)
             IN  /\ settings' = Configured(c)
                 /\ config' = [host |-> c.host, port |-> c.port, start |-> c.start]
       \/ vm' \in {"degraded", "failed"} /\ UNCHANGED <<settings, config>>
    /\ options' = <<>>
    /\ UNCHANGED <<busy, running, used, asyncUnsafe, seen, mainStarted, call, holder, calls, ctlVars, late>>

\* OnVMInit starts the controller; the JNIEnv or the thread may be missing.
OnVMInit ==
    /\ vm = "loaded" /\ vm' = "live"
    /\ \/ /\ ~asyncUnsafe /\ config.host # NULL /\ config.port # NULL
          /\ isRunning_' = TRUE
          /\ ctl' \in {"setup", "none"}
       \/ UNCHANGED <<isRunning_, ctl>>
    /\ UNCHANGED <<controlVars, asyncUnsafe, options, config, seen, mainStarted, call, holder, calls,
                   cmd, overtaken, late>>

\* OnThreadStart of the main thread, an event that only this build enables.
OnMainStart ==
    /\ vm = "live" /\ asyncUnsafe /\ ~mainStarted
    /\ mainStarted' = TRUE
    /\ IF config.start THEN Ask(Vm, Op("start", 0, 0)) ELSE UNCHANGED call
    /\ UNCHANGED <<controlVars, asyncUnsafe, options, config, vm, seen, holder, calls, ctlVars, late>>

\* Mutant of OnVMDeath: isRunning looks without taking the lock.
OnVMDeathPeeking ==
    /\ vm = "live" /\ Idle(Vm) /\ vm' = "dying"
    /\ seen' = running
    /\ UNCHANGED <<controlVars, asyncUnsafe, options, config, mainStarted, call, holder, calls, ctlVars, late>>
\* OnVMDeath: isRunning() ...
OnVMDeath ==
    /\ vm = "live" /\ vm' = "dying"
    /\ Ask(Vm, Op("isRunning", 0, 0))
    /\ UNCHANGED <<controlVars, asyncUnsafe, options, config, seen, mainStarted, holder, calls, ctlVars, late>>
\* ... and stop() when it says so.
OnVMDeathStop ==
    /\ vm = "dying" /\ Idle(Vm)
    /\ \/ seen /\ vm' = "stopping" /\ Ask(Vm, Op("stop", 0, 0))
       \/ ~seen /\ vm' = "dead" /\ UNCHANGED call
    /\ UNCHANGED <<controlVars, asyncUnsafe, options, config, seen, mainStarted, holder, calls, ctlVars, late>>
OnVMDeathReturn ==
    /\ vm = "stopping" /\ Idle(Vm) /\ vm' = "dead"
    /\ UNCHANGED <<controlVars, asyncUnsafe, options, config, seen, mainStarted, call, holder, calls, ctlVars, late>>

\* Agent_OnUnload. Without a controller its first line follows a null
\* pointer. What threads that are still about do with the deleted objects
\* until the process ends is left out.
OnUnload ==
    /\ \/ vm = "dead" /\ vm' = "gone" /\ isRunning_' = FALSE
       \/ vm = "degraded" /\ vm' = "crashed" /\ UNCHANGED isRunning_
    /\ UNCHANGED <<controlVars, asyncUnsafe, options, config, seen, mainStarted, call, holder, calls,
                   ctl, cmd, overtaken, late>>

Alive == vm \in {"live", "dying", "stopping", "dead"}

-----------------------------------------------------------------------------
(* The control API (control.cpp) *)

\* Without a profiler, getProfiler() is a null pointer.
CallApi(p, op) ==
    /\ calls < MaxCalls /\ calls' = calls + 1
    /\ \/ Alive /\ Ask(p, op) /\ UNCHANGED vm
       \/ vm = "degraded" /\ vm' = "crashed" /\ UNCHANGED call
    /\ UNCHANGED <<controlVars, asyncUnsafe, options, config, seen, mainStarted, holder, ctlVars, late>>

-----------------------------------------------------------------------------
(* Callers take ongoingConf *)

Return(p) == call' = [call EXCEPT ![p] = NoOp] /\ UNCHANGED holder

\* OnVMDeath has had its last look at the profiler.
PastLook == Idle(Vm) /\ (vm \in {"stopping", "dead"} \/ (vm = "dying" /\ ~seen))

\* Mutant of EnterStart: an early return forgets the lock.
EnterStartKeeping(p) ==
    /\ call[p].op = "start" /\ holder = NULL
    /\ \/ running /\ call' = [call EXCEPT ![p] = NoOp] /\ holder' = p /\ UNCHANGED <<controlVars, late>>
       \/ ~running /\ Start /\ holder' = p /\ late' = PastLook /\ UNCHANGED call
    /\ UNCHANGED <<vmVars, calls, ctlVars>>
EnterStart(p) ==
    /\ call[p].op = "start" /\ holder = NULL
    /\ \/ running /\ Return(p) /\ UNCHANGED <<controlVars, late>>
       \/ /\ ~running /\ Start
          /\ holder' = p
          /\ late' = PastLook
          /\ UNCHANGED call
    /\ UNCHANGED <<vmVars, calls, ctlVars>>

EnterStop(p) ==
    /\ call[p].op = "stop" /\ holder = NULL
    /\ \/ ~running /\ Return(p) /\ UNCHANGED controlVars
       \/ running /\ Stop /\ holder' = p /\ UNCHANGED call
    /\ UNCHANGED <<vmVars, calls, ctlVars, late>>

\* The setters, which do nothing while the profiler runs.
Setting(op) ==
    CASE op.op = "interval" -> WithInterval(settings, op.a, op.b)
      [] op.op = "maxFrames" -> WithFrames(settings, op.a)
      [] op.op = "logPath" -> [settings EXCEPT !.file = op.a]
EnterSet(p) ==
    /\ call[p].op \in {"interval", "maxFrames", "logPath"} /\ holder = NULL
    /\ \/ running /\ UNCHANGED <<controlVars, overtaken>>
       \/ /\ ~running /\ Set(Setting(call[p]))
          /\ overtaken' = (overtaken \/ (p # Ctl /\ call[p].op = "interval"))
    /\ Return(p)
    /\ UNCHANGED <<vmVars, calls, isRunning_, ctl, cmd, late>>

\* isRunning and getFilePath; only OnVMDeath acts on the result.
EnterGet(p) ==
    /\ call[p].op \in {"isRunning", "getFilePath"} /\ holder = NULL
    /\ seen' = IF p = Vm THEN running ELSE seen
    /\ Return(p)
    /\ UNCHANGED <<controlVars, asyncUnsafe, options, config, vm, mainStarted, calls, ctlVars, late>>

Enter(p) == Alive /\ (EnterStart(p) \/ EnterStop(p) \/ EnterSet(p) \/ EnterGet(p))

\* The caller inside start or stop goes on, and returns when it is done.
Proceed ==
    /\ Alive /\ holder # NULL /\ Inside
    /\ IF busy' = "free" THEN call' = [call EXCEPT ![holder] = NoOp] /\ holder' = NULL
                         ELSE UNCHANGED <<call, holder>>
    /\ UNCHANGED <<vmVars, calls, ctlVars, late>>

-----------------------------------------------------------------------------
(* The controller's thread (controller.cpp) *)

ctlGoto(from, to) == Alive /\ ctl = from /\ ctl' = to

\* run: getaddrinfo, socket, bind and listen.
Setup ==
    /\ \E to \in {"test", "ended"} : ctlGoto("setup", to)
    /\ UNCHANGED <<controlVars, vmVars, call, holder, calls, isRunning_, cmd, overtaken, late>>

Test ==
    /\ ctlGoto("test", IF isRunning_ THEN "accept" ELSE "ended")
    /\ UNCHANGED <<controlVars, vmVars, call, holder, calls, isRunning_, cmd, overtaken, late>>

\* A client connects and sends a command; accept or recv may fail.
Accept ==
    /\ \/ ctlGoto("accept", "serve") /\ \E c \in Commands : cmd' = c
       \/ ctlGoto("accept", "test") /\ UNCHANGED cmd
    /\ UNCHANGED <<controlVars, vmVars, call, holder, calls, isRunning_, overtaken, late>>

\* Mutant of Asked: the wrong bound is read.
AskedSwapped(c) ==
    CASE c.op = "intervalMin" -> Op("interval", c.a, settings.min)
      [] c.op = "intervalMax" -> Op("interval", settings.min, c.a)
      [] c.op = "status" -> Op("isRunning", 0, 0)
      [] OTHER -> c
\* The operation that a command calls first. To set one bound of the
\* interval the other is read, without the lock, and both are set.
Asked(c) ==
    CASE c.op = "intervalMin" -> Op("interval", c.a, settings.max)
      [] c.op = "intervalMax" -> Op("interval", settings.min, c.a)
      [] c.op = "status" -> Op("isRunning", 0, 0)
      [] OTHER -> c

\* startSampling, stopSampling, reportStatus, getProfilerParam and
\* setProfilerParam call the profiler. Unknown commands, getters that do not
\* lock, and a start without a JNIEnv do nothing.
Serve ==
    /\ \/ ctlGoto("serve", "wait") /\ cmd.op # "unknown" /\ Ask(Ctl, Asked(cmd))
       \/ ctlGoto("serve", "test") /\ cmd.op \in {"start", "unknown"} /\ UNCHANGED call
    /\ overtaken' = FALSE
    /\ UNCHANGED <<controlVars, vmVars, holder, calls, isRunning_, cmd, late>>

\* The reply to status takes the lock once more for the path; then, as after
\* every command, the connection is closed.
Served ==
    /\ Idle(Ctl)
    /\ \/ ctlGoto("wait", "wait") /\ cmd.op = "status"
          /\ cmd' = Op("getFilePath", 0, 0) /\ Ask(Ctl, cmd')
       \/ ctlGoto("wait", "test") /\ cmd.op # "status"
          /\ cmd' = NoOp /\ UNCHANGED call
    /\ overtaken' = FALSE
    /\ UNCHANGED <<controlVars, vmVars, holder, calls, isRunning_, late>>

-----------------------------------------------------------------------------
Callbacks == OnLoad \/ OnVMInit \/ OnMainStart \/ OnVMDeath \/ OnVMDeathStop \/ OnVMDeathReturn \/ OnUnload
Controller == Setup \/ Test \/ Accept \/ Serve \/ Served

Next ==
    \/ Callbacks \/ Controller \/ Proceed
    \/ \E p \in Apis, op \in Requests : CallApi(p, op)
    \/ \E p \in Callers : Enter(p)
Spec == Init /\ [][Next]_vars

(***************************************************************************)
(* Threads keep being scheduled: a caller inside start, which waits for    *)
(* nothing, comes to its end, and a waiting one finds the lock free once   *)
(* the others, who make finitely many calls, are done. A stop spins on     *)
(* workerDone, for ever when there is no processor thread or when that     *)
(* never finds the queue empty, so nothing is assumed of it. Nothing else  *)
(* has to happen: no client connects, the JVM lives on.                    *)
(***************************************************************************)
Starting == busy \in {"starting", "started"}
Stopping == busy \in {"stopping", "stopped"}
ProceedStart == Starting /\ Proceed
Fairness ==
    /\ WF_vars(ProceedStart) /\ WF_vars(Serve \/ Served)
    /\ \A p \in Callers : WF_vars(Enter(p))
FairSpec == Spec /\ Fairness

-----------------------------------------------------------------------------
(* Properties *)

\* Once OnVMDeath has returned no profiler runs and none is being started,
\* unless a start got the lock after OnVMDeath had let go of it. So a start
\* that is under way when the JVM dies is waited for and stopped.
DeathStops == vm \in {"dead", "gone"} => (running \/ Starting => late)

\* A command that sets one bound of the interval keeps the other one, unless
\* another caller has set the interval between the controller's look at it
\* and its turn.
SetKeepsOther ==
    [][\A c \in {"intervalMin", "intervalMax"} :
          cmd.op = c /\ ctl = "wait" /\ ~Idle(Ctl) /\ call'[Ctl] = NoOp /\ ~overtaken /\ ~running =>
              {settings'.min, settings'.max} =
                  {ValidInterval(cmd.a), IF c = "intervalMin" THEN settings.max ELSE settings.min}]_vars

\* Agent_OnLoad takes over what the options say: of the options that name a
\* setting, as they are written, the last one, validated.
Named(opts, keys) == {i \in DOMAIN opts : opts[i].key \in keys}
LastNamed(opts, keys, default) == IF Named(opts, keys) = {} THEN default ELSE opts[Max(Named(opts, keys))].value
Complete(opts) == \A i \in DOMAIN opts : opts[i].value # NONE
OptionsTakenOver ==
    [][vm = "unloaded" /\ vm' = "loaded" /\ Complete(options) =>
          LET min == ValidInterval(LastNamed(options, {"interval", "intervalMin"}, DEFAULT_SAMPLING_INTERVAL))
              max == ValidInterval(LastNamed(options, {"interval", "intervalMax"}, DEFAULT_SAMPLING_INTERVAL))
          IN  /\ settings'.min = Lesser(min, max) /\ settings'.max = Greater(min, max)
              /\ settings'.frames = ValidFrames(LastNamed(options, {"maxFrames"}, DEFAULT_MAX_FRAMES_TO_CAPTURE))
              /\ settings'.file = LastNamed(options, {"logPath"}, Generated)
              /\ config'.host = LastNamed(options, {"host"}, NULL)
              /\ config'.port = LastNamed(options, {"port"}, NULL)
              /\ config'.start = (LastNamed(options, {"start"}, 1) # 0)]_vars

\* If every stop that is under way returns (StopReturns of Profiler says when
\* it does), every command a client sends is done and its connection closed,
\* although other callers compete for the spin lock, as long as the JVM lives.
\* So a start that fails or finds nothing to do leaves nobody waiting.
StopsReturn == []<>(~Stopping \/ ~Alive)
CommandsServed == StopsReturn => []<>(ctl \notin {"serve", "wait"} \/ ~Alive)
=============================================================================
