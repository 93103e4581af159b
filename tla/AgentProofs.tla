----------------------------- MODULE AgentProofs -----------------------------
(***************************************************************************)
(* Proofs about Agent: the death of the JVM stops the profiler, also one   *)
(* that is just being started, and a command of the controller that sets   *)
(* one bound of the interval keeps the other. For these what counts of the *)
(* options is that the setters and the constructor store valid intervals,  *)
(* which setting them again does not change; what parseArguments makes of  *)
(* the options is a theorem of its own.                                    *)
(***************************************************************************)
EXTENDS Agent, Induction, TLAPS

-----------------------------------------------------------------------------
(* The invariant *)

\* The lock and the profiler: who is inside start or stop, and how far.
LockInv ==
    /\ call = [p \in Callers |-> call[p]]
    /\ busy \in {"free", "starting", "started", "stopping", "stopped"} /\ running \in BOOLEAN
    /\ busy = "free" <=> holder = NULL
    /\ holder \in Callers \cup {NULL}
    /\ busy \in {"starting", "started"} => call[holder].op = "start"
    /\ busy \in {"stopping", "stopped"} => call[holder].op = "stop"
    /\ busy \in {"starting", "stopped"} => ~running
    /\ busy \in {"started", "stopping"} => running

\* What the JVM's callbacks are calling.
VmInv ==
    /\ vm = "live" => Idle(Vm) \/ call[Vm].op = "start"
    /\ vm = "dying" => Idle(Vm) \/ call[Vm].op = "isRunning"
    /\ vm = "stopping" => Idle(Vm) \/ call[Vm].op = "stop"
    /\ vm \notin {"live", "dying", "stopping"} => Idle(Vm)

\* After OnVMDeath's last look only a later start makes the profiler run.
DeathInv ==
    PastLook \/ vm = "gone" => (running \/ busy \in {"starting", "started"} => late)

\* The settings are valid intervals.
SettingsInv ==
    /\ DOMAIN settings = {"min", "max", "frames", "file"}
    /\ ValidInterval(settings.min) = settings.min /\ ValidInterval(settings.max) = settings.max

\* While the controller waits to set a bound, it asks for what the settings
\* still say of the other one, unless it has been overtaken.
CommandInv ==
    /\ ctl # "none" => vm \notin {"unloaded", "loaded"}
    /\ ctl = "wait" /\ cmd.op \in {"intervalMin", "intervalMax"} /\ ~Idle(Ctl) =>
           /\ call[Ctl].op = "interval"
           /\ ~overtaken => call[Ctl] = Asked(cmd)

IndInv == LockInv /\ VmInv /\ DeathInv /\ SettingsInv /\ CommandInv

-----------------------------------------------------------------------------
(* Intervals *)

\* A valid interval is taken as it is, and validation yields valid ones.
LEMMA ValidTwice == ASSUME NEW i PROVE ValidInterval(ValidInterval(i)) = ValidInterval(i)
  BY OptionAssumption DEF ValidInterval

\* setSamplingInterval stores its two arguments, validated and in order.
LEMMA IntervalStored ==
    ASSUME NEW s, DOMAIN s = {"min", "max", "frames", "file"}, NEW i, NEW j
    PROVE  LET w == WithInterval(s, i, j)
           IN  /\ DOMAIN w = {"min", "max", "frames", "file"}
               /\ {w.min, w.max} = {ValidInterval(i), ValidInterval(j)}
               /\ ValidInterval(w.min) = w.min /\ ValidInterval(w.max) = w.max
<1> DEFINE a == Lesser(ValidInterval(i), ValidInterval(j))
           b == Greater(ValidInterval(i), ValidInterval(j))
<1>1. a \in {ValidInterval(i), ValidInterval(j)} /\ b \in {ValidInterval(i), ValidInterval(j)}
      /\ {a, b} = {ValidInterval(i), ValidInterval(j)}
  BY DEF Lesser, Greater
<1>2. ValidInterval(a) = a /\ ValidInterval(b) = b
  BY <1>1, ValidTwice
<1>3. WithInterval(s, i, j) = [s EXCEPT !.min = a, !.max = b]
  BY DEF WithInterval
<1> HIDE DEF a, b
<1>4. /\ DOMAIN [s EXCEPT !.min = a, !.max = b] = DOMAIN s
      /\ [s EXCEPT !.min = a, !.max = b].min = a /\ [s EXCEPT !.min = a, !.max = b].max = b
  OBVIOUS
<1> QED BY <1>1, <1>2, <1>3, <1>4

-----------------------------------------------------------------------------
(* Steps *)

\* The records of operations differ in their op.
LEMMA OpNames == NoOp.op = "none" /\ \A n, a, b : Op(n, a, b).op = n
  BY DEF NoOp, Op

\* Settings as the constructor leaves them are valid.
LEMMA ConfiguredValid ==
    ASSUME NEW c
    PROVE  /\ DOMAIN Configured(c) = {"min", "max", "frames", "file"}
           /\ ValidInterval(Configured(c).min) = Configured(c).min
           /\ ValidInterval(Configured(c).max) = Configured(c).max
<1> DEFINE s == [min |-> c.min, max |-> c.max, frames |-> c.frames, file |-> IF c.file = NULL THEN Generated ELSE c.file]
           w == WithInterval(s, c.min, c.max)
<1>1. DOMAIN s = {"min", "max", "frames", "file"}
  OBVIOUS
<1>2. Configured(c) = [w EXCEPT !.frames = ValidFrames(c.frames)]
  BY DEF Configured, WithFrames
<1> HIDE DEF s
<1>3. DOMAIN w = {"min", "max", "frames", "file"} /\ ValidInterval(w.min) = w.min /\ ValidInterval(w.max) = w.max
  BY <1>1, IntervalStored
<1> HIDE DEF w
<1>4. /\ DOMAIN [w EXCEPT !.frames = ValidFrames(c.frames)] = DOMAIN w
      /\ [w EXCEPT !.frames = ValidFrames(c.frames)].min = w.min
      /\ [w EXCEPT !.frames = ValidFrames(c.frames)].max = w.max
  BY <1>3
<1> QED BY <1>2, <1>3, <1>4

\* What the setters store is valid, and only that of the interval changes it.
LEMMA SettingKeeps ==
    ASSUME SettingsInv, NEW o, o.op \in {"interval", "maxFrames", "logPath"}
    PROVE  LET s == Setting(o)
           IN  /\ DOMAIN s = {"min", "max", "frames", "file"}
               /\ ValidInterval(s.min) = s.min /\ ValidInterval(s.max) = s.max
               /\ o.op # "interval" => s.min = settings.min /\ s.max = settings.max
               /\ o.op = "interval" => {s.min, s.max} = {ValidInterval(o.a), ValidInterval(o.b)}
<1> DEFINE s == Setting(o)
<1>1. CASE o.op = "interval"
  <2>1. s = WithInterval(settings, o.a, o.b)
    BY <1>1 DEF Setting
  <2> QED BY <1>1, <2>1, IntervalStored DEF SettingsInv
<1>2. CASE o.op = "maxFrames"
  <2>1. s = [settings EXCEPT !.frames = ValidFrames(o.a)]
    BY <1>2 DEF Setting, WithFrames
  <2> HIDE DEF s
  <2>2. DOMAIN s = DOMAIN settings /\ s.min = settings.min /\ s.max = settings.max
    BY <2>1 DEF SettingsInv
  <2> QED BY <1>2, <2>2 DEF SettingsInv, s
<1>3. CASE o.op = "logPath"
  <2>1. s = [settings EXCEPT !.file = o.a]
    BY <1>3 DEF Setting
  <2> HIDE DEF s
  <2>2. DOMAIN s = DOMAIN settings /\ s.min = settings.min /\ s.max = settings.max
    BY <2>1 DEF SettingsInv
  <2> QED BY <1>3, <2>2 DEF SettingsInv, s
<1> QED BY <1>1, <1>2, <1>3

\* Every step keeps the lock with the caller inside start or stop.
LEMMA LockStep == IndInv /\ [Next]_vars => LockInv'
<1> SUFFICES ASSUME IndInv, [Next]_vars PROVE LockInv'
  OBVIOUS
<1> USE CallerAssumption, OpNames DEF IndInv, LockInv, Callers, Ctl, Vm, Idle, controlVars, vmVars,
    ctlVars
<1>1. CASE OnLoad
  BY <1>1 DEF OnLoad
<1>2. CASE OnVMInit
  BY <1>2 DEF OnVMInit
<1>3. CASE OnMainStart
  BY <1>3 DEF OnMainStart, Ask
<1>4. CASE OnVMDeath
  BY <1>4 DEF OnVMDeath, Ask
<1>5. CASE OnVMDeathStop
  BY <1>5 DEF OnVMDeathStop, Ask
<1>6. CASE OnVMDeathReturn
  BY <1>6 DEF OnVMDeathReturn
<1>7. CASE OnUnload
  BY <1>7 DEF OnUnload
<1>8. CASE Setup
  BY <1>8 DEF Setup, ctlGoto
<1>9. CASE Test
  BY <1>9 DEF Test, ctlGoto
<1>10. CASE Accept
  BY <1>10 DEF Accept, ctlGoto
<1>11. CASE Serve
  BY <1>11 DEF Serve, ctlGoto, Ask
<1>12. CASE Served
  BY <1>12 DEF Served, ctlGoto, Ask
<1>13. CASE Proceed
  <2>1. CASE NameFile \/ Run \/ Halt
    <3>1. busy' # "free"
      BY <2>1 DEF NameFile, Run, Halt
    <3>2. UNCHANGED <<call, holder>>
      BY <1>13, <3>1 DEF Proceed
    <3>3. CASE NameFile
      BY <3>2, <3>3 DEF NameFile
    <3>4. CASE Run
      BY <3>2, <3>4 DEF Run
    <3>5. CASE Halt
      BY <3>2, <3>5 DEF Halt
    <3> QED BY <2>1, <3>3, <3>4, <3>5
  <2>2. CASE Started \/ Stopped
    <3>1. busy' = "free" /\ UNCHANGED running
      BY <2>2 DEF Started, Stopped
    <3>2. call' = [call EXCEPT ![holder] = NoOp] /\ holder' = NULL
      BY <1>13, <3>1 DEF Proceed
    <3> QED BY <3>1, <3>2
  <2> QED BY <1>13, <2>1, <2>2 DEF Proceed, Inside
<1>14. ASSUME NEW p \in Apis, NEW o \in Requests, CallApi(p, o) PROVE LockInv'
  BY <1>14 DEF CallApi, Ask
<1>15. ASSUME NEW p \in Callers, Alive, EnterStart(p) PROVE LockInv'
  BY <1>15 DEF EnterStart, Return, Start
<1>16. ASSUME NEW p \in Callers, Alive, EnterStop(p) PROVE LockInv'
  BY <1>16 DEF EnterStop, Return, Stop
<1>17. ASSUME NEW p \in Callers, Alive, EnterSet(p) PROVE LockInv'
  BY <1>17 DEF EnterSet, Return, Set, Settable
<1>18. ASSUME NEW p \in Callers, Alive, EnterGet(p) PROVE LockInv'
  BY <1>18 DEF EnterGet, Return
<1>19. CASE UNCHANGED vars
  BY <1>19 DEF vars
<1> QED BY <1>1, <1>2, <1>3, <1>4, <1>5, <1>6, <1>7, <1>8, <1>9, <1>10, <1>11, <1>12, <1>13, <1>14,
    <1>15, <1>16, <1>17, <1>18, <1>19 DEF Next, Callbacks, Controller, Enter

\* Every step keeps the callbacks' calls what they are.
LEMMA VmStep == IndInv /\ [Next]_vars => VmInv'
<1> SUFFICES ASSUME IndInv, [Next]_vars PROVE VmInv'
  OBVIOUS
<1> USE CallerAssumption, OpNames DEF IndInv, LockInv, VmInv, Callers, Ctl, Vm, Idle, controlVars,
    vmVars, ctlVars
<1>1. CASE OnLoad
  BY <1>1 DEF OnLoad
<1>2. CASE OnVMInit
  BY <1>2 DEF OnVMInit
<1>3. CASE OnMainStart
  BY <1>3 DEF OnMainStart, Ask
<1>4. CASE OnVMDeath
  BY <1>4 DEF OnVMDeath, Ask
<1>5. CASE OnVMDeathStop
  BY <1>5 DEF OnVMDeathStop, Ask
<1>6. CASE OnVMDeathReturn
  BY <1>6 DEF OnVMDeathReturn
<1>7. CASE OnUnload
  BY <1>7 DEF OnUnload
<1>8. CASE Setup
  BY <1>8 DEF Setup, ctlGoto
<1>9. CASE Test
  BY <1>9 DEF Test, ctlGoto
<1>10. CASE Accept
  BY <1>10 DEF Accept, ctlGoto
<1>11. CASE Serve
  BY <1>11 DEF Serve, ctlGoto, Ask
<1>12. CASE Served
  BY <1>12 DEF Served, ctlGoto, Ask
<1>13. CASE Proceed
  BY <1>13 DEF Proceed, Inside, NameFile, Run, Started, Halt, Stopped
<1>14. ASSUME NEW p \in Apis, NEW o \in Requests, CallApi(p, o) PROVE VmInv'
  BY <1>14 DEF CallApi, Ask
<1>15. ASSUME NEW p \in Callers, Alive, EnterStart(p) PROVE VmInv'
  BY <1>15 DEF EnterStart, Return, Start
<1>16. ASSUME NEW p \in Callers, Alive, EnterStop(p) PROVE VmInv'
  BY <1>16 DEF EnterStop, Return, Stop
<1>17. ASSUME NEW p \in Callers, Alive, EnterSet(p) PROVE VmInv'
  BY <1>17 DEF EnterSet, Return, Set, Settable
<1>18. ASSUME NEW p \in Callers, Alive, EnterGet(p) PROVE VmInv'
  BY <1>18 DEF EnterGet, Return
<1>19. CASE UNCHANGED vars
  BY <1>19 DEF vars
<1> QED BY <1>1, <1>2, <1>3, <1>4, <1>5, <1>6, <1>7, <1>8, <1>9, <1>10, <1>11, <1>12, <1>13, <1>14,
    <1>15, <1>16, <1>17, <1>18, <1>19 DEF Next, Callbacks, Controller, Enter

\* Every step keeps the profiler of a dead JVM stopped, unless started late.
LEMMA DeathStep == IndInv /\ [Next]_vars => DeathInv'
<1> SUFFICES ASSUME IndInv, [Next]_vars PROVE DeathInv'
  OBVIOUS
<1> USE CallerAssumption, OpNames DEF IndInv, LockInv, VmInv, DeathInv, PastLook, Alive, Callers,
    Ctl, Vm, Idle, controlVars, vmVars, ctlVars
<1>1. CASE OnLoad
  BY <1>1 DEF OnLoad
<1>2. CASE OnVMInit
  BY <1>2 DEF OnVMInit
<1>3. CASE OnMainStart
  BY <1>3 DEF OnMainStart, Ask
<1>4. CASE OnVMDeath
  BY <1>4 DEF OnVMDeath, Ask
<1>5. CASE OnVMDeathStop
  BY <1>5 DEF OnVMDeathStop, Ask
<1>6. CASE OnVMDeathReturn
  BY <1>6 DEF OnVMDeathReturn
<1>7. CASE OnUnload
  BY <1>7 DEF OnUnload
<1>8. CASE Setup
  BY <1>8 DEF Setup, ctlGoto
<1>9. CASE Test
  BY <1>9 DEF Test, ctlGoto
<1>10. CASE Accept
  BY <1>10 DEF Accept, ctlGoto
<1>11. CASE Serve
  BY <1>11 DEF Serve, ctlGoto, Ask
<1>12. CASE Served
  BY <1>12 DEF Served, ctlGoto, Ask
<1>13. CASE Proceed
  BY <1>13 DEF Proceed, Inside, NameFile, Run, Started, Halt, Stopped
<1>14. ASSUME NEW p \in Apis, NEW o \in Requests, CallApi(p, o) PROVE DeathInv'
  BY <1>14 DEF CallApi, Ask
<1>15. ASSUME NEW p \in Callers, Alive, EnterStart(p) PROVE DeathInv'
  <2>1. CASE running
    <3>1. call' = [call EXCEPT ![p] = NoOp] /\ UNCHANGED <<running, busy, late, vm, seen>>
      BY <1>15, <2>1 DEF EnterStart, Return
    <3>2. call[p].op = "start"
      BY <1>15 DEF EnterStart
    <3>3. CASE p = Vm
      <4>1. vm = "live"
        BY <3>2, <3>3
      <4> QED BY <3>1, <4>1
    <3>4. CASE p # Vm
      <4>1. call'[Vm] = call[Vm]
        BY <3>1, <3>4
      <4> QED BY <3>1, <4>1
    <3> QED BY <3>3, <3>4
  <2>2. CASE ~running
    <3>1. late' = PastLook /\ UNCHANGED <<call, vm, seen>>
      BY <1>15, <2>2 DEF EnterStart
    <3>2. vm' # "gone"
      BY <1>15, <3>1
    <3> QED BY <3>1, <3>2
  <2> QED BY <2>1, <2>2
<1>16. ASSUME NEW p \in Callers, Alive, EnterStop(p) PROVE DeathInv'
  BY <1>16 DEF EnterStop, Return, Stop
<1>17. ASSUME NEW p \in Callers, Alive, EnterSet(p) PROVE DeathInv'
  BY <1>17 DEF EnterSet, Return, Set, Settable
<1>18. ASSUME NEW p \in Callers, Alive, EnterGet(p) PROVE DeathInv'
  BY <1>18 DEF EnterGet, Return
<1>19. CASE UNCHANGED vars
  BY <1>19 DEF vars
<1> QED BY <1>1, <1>2, <1>3, <1>4, <1>5, <1>6, <1>7, <1>8, <1>9, <1>10, <1>11, <1>12, <1>13, <1>14,
    <1>15, <1>16, <1>17, <1>18, <1>19 DEF Next, Callbacks, Controller, Enter

\* Every step keeps the settings valid.
LEMMA SettingsStep == IndInv /\ [Next]_vars => SettingsInv'
<1> SUFFICES ASSUME IndInv, [Next]_vars PROVE SettingsInv'
  OBVIOUS
<1> USE OpNames DEF IndInv, SettingsInv, controlVars, vmVars, ctlVars
<1>1. CASE OnLoad
  <2>1. settings' = settings \/ \E c : settings' = Configured(c)
    BY <1>1 DEF OnLoad
  <2>2. ASSUME NEW c, settings' = Configured(c) PROVE SettingsInv'
    BY <2>2, ConfiguredValid DEF SettingsInv
  <2> QED BY <2>1, <2>2 DEF SettingsInv
<1>2. CASE OnVMInit
  BY <1>2 DEF OnVMInit
<1>3. CASE OnMainStart
  BY <1>3 DEF OnMainStart, Ask
<1>4. CASE OnVMDeath
  BY <1>4 DEF OnVMDeath, Ask
<1>5. CASE OnVMDeathStop
  BY <1>5 DEF OnVMDeathStop, Ask
<1>6. CASE OnVMDeathReturn
  BY <1>6 DEF OnVMDeathReturn
<1>7. CASE OnUnload
  BY <1>7 DEF OnUnload
<1>8. CASE Setup
  BY <1>8 DEF Setup, ctlGoto
<1>9. CASE Test
  BY <1>9 DEF Test, ctlGoto
<1>10. CASE Accept
  BY <1>10 DEF Accept, ctlGoto
<1>11. CASE Serve
  BY <1>11 DEF Serve, ctlGoto, Ask
<1>12. CASE Served
  BY <1>12 DEF Served, ctlGoto, Ask
<1>13. CASE Proceed
  <2>1. settings' = settings \/ settings' = [settings EXCEPT !.file = Generated]
    BY <1>13 DEF Proceed, Inside, NameFile, Run, Started, Halt, Stopped
  <2>2. CASE settings' = [settings EXCEPT !.file = Generated]
    BY <2>2
  <2> QED BY <2>1, <2>2
<1>14. ASSUME NEW p \in Apis, NEW o \in Requests, CallApi(p, o) PROVE SettingsInv'
  BY <1>14 DEF CallApi, Ask
<1>15. ASSUME NEW p \in Callers, Alive, EnterStart(p) PROVE SettingsInv'
  BY <1>15 DEF EnterStart, Return, Start
<1>16. ASSUME NEW p \in Callers, Alive, EnterStop(p) PROVE SettingsInv'
  BY <1>16 DEF EnterStop, Return, Stop
<1>17. ASSUME NEW p \in Callers, Alive, EnterSet(p) PROVE SettingsInv'
  <2>1. settings' = settings \/ settings' = Setting(call[p])
    BY <1>17 DEF EnterSet, Return, Set, Settable
  <2>2. CASE settings' = Setting(call[p])
    BY <1>17, <2>2, SettingKeeps DEF SettingsInv, EnterSet
  <2> QED BY <2>1, <2>2 DEF SettingsInv
<1>18. ASSUME NEW p \in Callers, Alive, EnterGet(p) PROVE SettingsInv'
  BY <1>18 DEF EnterGet, Return
<1>19. CASE UNCHANGED vars
  BY <1>19 DEF vars
<1> QED BY <1>1, <1>2, <1>3, <1>4, <1>5, <1>6, <1>7, <1>8, <1>9, <1>10, <1>11, <1>12, <1>13, <1>14,
    <1>15, <1>16, <1>17, <1>18, <1>19 DEF Next, Callbacks, Controller, Enter

\* Every step keeps what the controller asks for.
LEMMA CommandStep == IndInv /\ [Next]_vars => CommandInv'
<1> SUFFICES ASSUME IndInv, [Next]_vars PROVE CommandInv'
  OBVIOUS
<1> USE CallerAssumption, OpNames DEF IndInv, LockInv, VmInv, CommandInv, SettingsInv, Alive, Asked,
    Callers, Ctl, Vm, Idle, controlVars, vmVars, ctlVars
<1>1. CASE OnLoad
  BY <1>1 DEF OnLoad
<1>2. CASE OnVMInit
  BY <1>2 DEF OnVMInit
<1>3. CASE OnMainStart
  BY <1>3 DEF OnMainStart, Ask
<1>4. CASE OnVMDeath
  BY <1>4 DEF OnVMDeath, Ask
<1>5. CASE OnVMDeathStop
  BY <1>5 DEF OnVMDeathStop, Ask
<1>6. CASE OnVMDeathReturn
  BY <1>6 DEF OnVMDeathReturn
<1>7. CASE OnUnload
  BY <1>7 DEF OnUnload
<1>8. CASE Setup
  BY <1>8 DEF Setup, ctlGoto
<1>9. CASE Test
  BY <1>9 DEF Test, ctlGoto
<1>10. CASE Accept
  BY <1>10 DEF Accept, ctlGoto
<1>11. CASE Serve
  BY <1>11 DEF Serve, ctlGoto, Ask
<1>12. CASE Served
  BY <1>12 DEF Served, ctlGoto, Ask
<1>13. CASE Proceed
  BY <1>13 DEF Proceed, Inside, NameFile, Run, Started, Halt, Stopped
<1>14. ASSUME NEW p \in Apis, NEW o \in Requests, CallApi(p, o) PROVE CommandInv'
  BY <1>14 DEF CallApi, Ask
<1>15. ASSUME NEW p \in Callers, Alive, EnterStart(p) PROVE CommandInv'
  BY <1>15 DEF EnterStart, Return, Start
<1>16. ASSUME NEW p \in Callers, Alive, EnterStop(p) PROVE CommandInv'
  BY <1>16 DEF EnterStop, Return, Stop
<1>17. ASSUME NEW p \in Callers, Alive, EnterSet(p) PROVE CommandInv'
  <2>1. call' = [call EXCEPT ![p] = NoOp] /\ UNCHANGED <<ctl, cmd, vm>>
    BY <1>17 DEF EnterSet, Return
  <2>2. CASE p = Ctl
    <3>1. Idle(Ctl)'
      BY <2>1, <2>2
    <3> QED BY <2>1, <3>1
  <2>3. CASE p # Ctl
    <3>1. call'[Ctl] = call[Ctl]
      BY <2>1, <2>3
    <3>2. CASE UNCHANGED <<settings, overtaken>>
      BY <2>1, <3>1, <3>2
    <3>3. CASE call[p].op = "interval" /\ overtaken'
      BY <2>1, <3>1, <3>3
    <3>4. CASE call[p].op # "interval" /\ settings' = Setting(call[p]) /\ (overtaken' <=> overtaken)
      <4>1. settings'.min = settings.min /\ settings'.max = settings.max
        BY <1>17, <3>4, SettingKeeps DEF EnterSet
      <4> QED BY <2>1, <3>1, <3>4, <4>1
    <3>5. \/ UNCHANGED <<settings, overtaken>>
          \/ settings' = Setting(call[p]) /\ overtaken' = (overtaken \/ (p # Ctl /\ call[p].op = "interval"))
      BY <1>17 DEF EnterSet, Set
    <3> QED BY <2>3, <3>2, <3>3, <3>4, <3>5
  <2> QED BY <2>2, <2>3
<1>18. ASSUME NEW p \in Callers, Alive, EnterGet(p) PROVE CommandInv'
  BY <1>18 DEF EnterGet, Return
<1>19. CASE UNCHANGED vars
  BY <1>19 DEF vars
<1> QED BY <1>1, <1>2, <1>3, <1>4, <1>5, <1>6, <1>7, <1>8, <1>9, <1>10, <1>11, <1>12, <1>13, <1>14,
    <1>15, <1>16, <1>17, <1>18, <1>19 DEF Next, Callbacks, Controller, Enter

\* A call of the controller for an interval returns from its setter only.
LEMMA Returning ==
    ASSUME IndInv, Next, call[Ctl].op = "interval", call'[Ctl] # call[Ctl]
    PROVE  EnterSet(Ctl)
<1> USE CallerAssumption, OpNames DEF IndInv, LockInv, Callers, Ctl, Vm
<1>1. CASE Callbacks
  BY <1>1 DEF Callbacks, OnLoad, OnVMInit, OnMainStart, OnVMDeath, OnVMDeathStop, OnVMDeathReturn, OnUnload, Ask
<1>2. CASE Controller
  BY <1>2 DEF Controller, Setup, Test, Accept, Serve, Served, Ask
<1>3. CASE Proceed
  <2>1. holder # Ctl /\ holder \in Callers
    BY <1>3 DEF Proceed
  <2> QED BY <1>3, <2>1 DEF Proceed
<1>4. ASSUME NEW p \in Apis, NEW o \in Requests, CallApi(p, o) PROVE FALSE
  BY <1>4 DEF CallApi, Ask
<1>5. ASSUME NEW p \in Callers, Enter(p) PROVE EnterSet(Ctl)
  <2>1. p = Ctl
    BY <1>5 DEF Enter, EnterStart, EnterStop, EnterSet, EnterGet, Return
  <2> QED BY <1>5, <2>1 DEF Enter, EnterStart, EnterStop, EnterGet
<1> QED BY <1>1, <1>2, <1>3, <1>4, <1>5 DEF Next

-----------------------------------------------------------------------------
(* Options *)

\* The value of the last of the first k options whose key is in keys.
Upto(opts, k, keys) == {i \in 1..k : opts[i].key \in keys}
LastUpto(opts, k, keys, default) ==
    IF Upto(opts, k, keys) = {} THEN default ELSE opts[Max(Upto(opts, k, keys))].value

\* A number as a truth value.
Flag(v) == v # 0

\* What the loop in parseArguments has made of the first k options.
Parsed(opts, k) ==
    [min |-> LastUpto(opts, k, {"interval", "intervalMin"}, DEFAULT_SAMPLING_INTERVAL),
     max |-> LastUpto(opts, k, {"interval", "intervalMax"}, DEFAULT_SAMPLING_INTERVAL),
     frames |-> LastUpto(opts, k, {"maxFrames"}, DEFAULT_MAX_FRAMES_TO_CAPTURE),
     file |-> LastUpto(opts, k, {"logPath"}, NULL),
     host |-> LastUpto(opts, k, {"host"}, NULL),
     port |-> LastUpto(opts, k, {"port"}, NULL),
     start |-> Flag(LastUpto(opts, k, {"start"}, 1))]

\* The least and the greatest member of a set.
LEMMA MinIs == ASSUME NEW S, NEW i \in S, \A j \in S : j \in Int /\ i <= j PROVE Min(S) = i
<1>1. Min(S) \in S /\ \A j \in S : Min(S) <= j
  BY DEF Min
<1> QED BY <1>1
LEMMA MaxIs == ASSUME NEW S, NEW i \in S, \A j \in S : j \in Int /\ j <= i PROVE Max(S) = i
<1>1. Max(S) \in S /\ \A j \in S : Max(S) >= j
  BY DEF Max
<1> QED BY <1>1

\* One more option: it is the last of those it belongs to.
LEMMA OneMore ==
    ASSUME NEW opts, NEW k \in Nat, NEW keys, NEW default
    PROVE  LastUpto(opts, k + 1, keys, default) =
               IF opts[k + 1].key \in keys THEN opts[k + 1].value ELSE LastUpto(opts, k, keys, default)
<1>1. 1..(k + 1) = 1..k \cup {k + 1}
  OBVIOUS
<1>2. CASE opts[k + 1].key \in keys
  <2>1. k + 1 \in Upto(opts, k + 1, keys) /\ \A i \in Upto(opts, k + 1, keys) : i \in Nat /\ i <= k + 1
    BY <1>2 DEF Upto
  <2>2. Max(Upto(opts, k + 1, keys)) = k + 1
    BY <2>1, MaxIs
  <2> QED BY <1>2, <2>1, <2>2 DEF LastUpto
<1>3. CASE opts[k + 1].key \notin keys
  <2>1. Upto(opts, k + 1, keys) = Upto(opts, k, keys)
    BY <1>1, <1>3 DEF Upto
  <2> QED BY <1>3, <2>1 DEF LastUpto
<1> QED BY <1>2, <1>3

\* The tests of keys find the key itself, also where another is a prefix of it.
Keys == {"intervalMin", "intervalMax", "interval", "logPath", "start", "host", "port", "maxFrames"}
LEMMA KeyMeant == ASSUME NEW key PROVE Means(key) = IF key \in Keys THEN key ELSE "unknown"
<1> DEFINE hits == {i \in DOMAIN KeyOrder : KeyOrder[i] \in Prefixed(key)}
<1>1. /\ DOMAIN KeyOrder = 1..8
      /\ KeyOrder[1] = "intervalMin" /\ KeyOrder[2] = "intervalMax" /\ KeyOrder[3] = "interval"
      /\ KeyOrder[4] = "logPath" /\ KeyOrder[5] = "start" /\ KeyOrder[6] = "host"
      /\ KeyOrder[7] = "port" /\ KeyOrder[8] = "maxFrames"
  BY DEF KeyOrder
<1>2. Prefixed(key) = {key} \cup (IF key \in {"intervalMin", "intervalMax"} THEN {"interval"} ELSE {})
  BY DEF Prefixed
<1>3. 1..8 = {1, 2, 3, 4, 5, 6, 7, 8}
  OBVIOUS
<1>4. ASSUME NEW i \in 1..8, key = KeyOrder[i] PROVE Means(key) = key
  <2>1. i \in hits /\ \A j \in hits : j \in Int /\ i <= j
    BY <1>1, <1>2, <1>3, <1>4
  <2>2. Min(hits) = i
    <3> HIDE DEF hits
    <3> QED BY <2>1, MinIs
  <2>3. Means(key) = KeyOrder[Min(hits)]
    BY <2>1 DEF Means
  <2> QED BY <1>4, <2>2, <2>3
<1>5. CASE key \in Keys
  <2>1. \E i \in 1..8 : key = KeyOrder[i]
    BY <1>1, <1>5 DEF Keys
  <2> QED BY <1>4, <1>5, <2>1
<1>6. CASE key \notin Keys
  <2>1. hits = {}
    BY <1>1, <1>2, <1>3, <1>6 DEF Keys
  <2> QED BY <1>6, <2>1 DEF Means
<1> QED BY <1>5, <1>6

\* The value of a key that has one.
LEMMA OwnValue ==
    ASSUME NEW opts, Len(opts) \in Nat, NEW i \in 1..Len(opts), opts[i].value # NONE
    PROVE  ValueOf(opts, i) = opts[i].value
<1> DEFINE from == {j \in i..Len(opts) : opts[j].value # NONE}
<1>1. i \in from /\ \A j \in from : j \in Int /\ i <= j
  OBVIOUS
<1>2. Min(from) = i
  <2> HIDE DEF from
  <2> QED BY <1>1, MinIs
<1> QED BY <1>1, <1>2 DEF ValueOf

\* A round of the loop.
LEMMA ParsedMore ==
    ASSUME NEW opts, Len(opts) \in Nat, NEW k \in Nat, k + 1 <= Len(opts), opts[k + 1].value # NONE
    PROVE  WithOption(Parsed(opts, k), opts, k + 1) = Parsed(opts, k + 1)
<1> DEFINE c == Parsed(opts, k)
           d == Parsed(opts, k + 1)
           key == opts[k + 1].key
           v == opts[k + 1].value
           K == Means(key)
<1>1. ValueOf(opts, k + 1) = v
  BY OwnValue
<1>2. WithOption(c, opts, k + 1) =
          CASE K = "intervalMin" -> [c EXCEPT !.min = v]
            [] K = "intervalMax" -> [c EXCEPT !.max = v]
            [] K = "interval" -> [c EXCEPT !.min = v, !.max = v]
            [] K = "logPath" -> [c EXCEPT !.file = v]
            [] K = "start" -> [c EXCEPT !.start = Flag(v)]
            [] K = "host" -> [c EXCEPT !.host = v]
            [] K = "port" -> [c EXCEPT !.port = v]
            [] K = "maxFrames" -> [c EXCEPT !.frames = v]
            [] OTHER -> c
  <2> HIDE DEF c
  <2> QED BY <1>1 DEF WithOption, Flag
<1>3. K = IF key \in Keys THEN key ELSE "unknown"
  BY KeyMeant
<1>4. d = [min |-> IF key \in {"interval", "intervalMin"} THEN v ELSE c.min,
           max |-> IF key \in {"interval", "intervalMax"} THEN v ELSE c.max,
           frames |-> IF key = "maxFrames" THEN v ELSE c.frames,
           file |-> IF key = "logPath" THEN v ELSE c.file,
           host |-> IF key = "host" THEN v ELSE c.host,
           port |-> IF key = "port" THEN v ELSE c.port,
           start |-> IF key = "start" THEN Flag(v) ELSE c.start]
  <2> DEFINE Last(j, keys, default) == LastUpto(opts, j, keys, default)
  <2>1. ASSUME NEW keys, NEW default PROVE Last(k + 1, keys, default) = IF key \in keys THEN v ELSE Last(k, keys, default)
    BY OneMore
  <2> HIDE DEF Last, key, v
  <2>2. /\ d.min = IF key \in {"interval", "intervalMin"} THEN v ELSE c.min
        /\ d.max = IF key \in {"interval", "intervalMax"} THEN v ELSE c.max
    <3>1. /\ d.min = Last(k + 1, {"interval", "intervalMin"}, DEFAULT_SAMPLING_INTERVAL)
          /\ c.min = Last(k, {"interval", "intervalMin"}, DEFAULT_SAMPLING_INTERVAL)
          /\ d.max = Last(k + 1, {"interval", "intervalMax"}, DEFAULT_SAMPLING_INTERVAL)
          /\ c.max = Last(k, {"interval", "intervalMax"}, DEFAULT_SAMPLING_INTERVAL)
      BY DEF Parsed, Last
    <3> HIDE DEF c, d
    <3> QED BY <2>1, <3>1
  <2>3. d.frames = IF key = "maxFrames" THEN v ELSE c.frames
    <3>1. /\ d.frames = Last(k + 1, {"maxFrames"}, DEFAULT_MAX_FRAMES_TO_CAPTURE)
          /\ c.frames = Last(k, {"maxFrames"}, DEFAULT_MAX_FRAMES_TO_CAPTURE)
      BY DEF Parsed, Last
    <3> HIDE DEF c, d
    <3> QED BY <2>1, <3>1
  <2>4. /\ d.file = IF key = "logPath" THEN v ELSE c.file
        /\ d.host = IF key = "host" THEN v ELSE c.host
        /\ d.port = IF key = "port" THEN v ELSE c.port
    <3>1. /\ d.file = Last(k + 1, {"logPath"}, NULL) /\ c.file = Last(k, {"logPath"}, NULL)
          /\ d.host = Last(k + 1, {"host"}, NULL) /\ c.host = Last(k, {"host"}, NULL)
          /\ d.port = Last(k + 1, {"port"}, NULL) /\ c.port = Last(k, {"port"}, NULL)
      BY DEF Parsed, Last
    <3> HIDE DEF c, d
    <3> QED BY <2>1, <3>1
  <2>5. d.start = IF key = "start" THEN Flag(v) ELSE c.start
    <3>1. d.start = Flag(Last(k + 1, {"start"}, 1)) /\ c.start = Flag(Last(k, {"start"}, 1))
      BY DEF Parsed, Last
    <3>2. Last(k + 1, {"start"}, 1) = IF key = "start" THEN v ELSE Last(k, {"start"}, 1)
      BY <2>1
    <3> HIDE DEF c, d
    <3> QED BY <3>1, <3>2
  <2>6. d = [min |-> d.min, max |-> d.max, frames |-> d.frames, file |-> d.file,
             host |-> d.host, port |-> d.port, start |-> d.start]
    BY DEF Parsed
  <2> HIDE DEF c, d
  <2> QED BY <2>2, <2>3, <2>4, <2>5, <2>6
<1>5. c = [min |-> c.min, max |-> c.max, frames |-> c.frames, file |-> c.file,
           host |-> c.host, port |-> c.port, start |-> c.start]
  BY DEF Parsed
<1> SUFFICES WithOption(c, opts, k + 1) = d
  OBVIOUS
<1> HIDE DEF c, d, key, v, K
<1>6. CASE key = "intervalMin"
  BY <1>2, <1>3, <1>4, <1>5, <1>6 DEF Keys
<1>7. CASE key = "intervalMax"
  BY <1>2, <1>3, <1>4, <1>5, <1>7 DEF Keys
<1>8. CASE key = "interval"
  BY <1>2, <1>3, <1>4, <1>5, <1>8 DEF Keys
<1>9. CASE key = "logPath"
  BY <1>2, <1>3, <1>4, <1>5, <1>9 DEF Keys
<1>10. CASE key = "start"
  BY <1>2, <1>3, <1>4, <1>5, <1>10 DEF Keys
<1>11. CASE key = "host"
  BY <1>2, <1>3, <1>4, <1>5, <1>11 DEF Keys
<1>12. CASE key = "port"
  BY <1>2, <1>3, <1>4, <1>5, <1>12 DEF Keys
<1>13. CASE key = "maxFrames"
  BY <1>2, <1>3, <1>4, <1>5, <1>13 DEF Keys
<1>14. CASE key \notin Keys
  BY <1>2, <1>3, <1>4, <1>5, <1>14 DEF Keys
<1> QED BY <1>6, <1>7, <1>8, <1>9, <1>10, <1>11, <1>12, <1>13, <1>14 DEF Keys

\* The loop has a state after every round.
LEMMA ParseDefined ==
    ASSUME NEW opts, Len(opts) \in Nat
    PROVE  \E g : g = [i \in 0..Len(opts) |-> IF i = 0 THEN Defaults ELSE WithOption(g[i - 1], opts, i)]
<1> DEFINE n == Len(opts)
           Ok(g, k) == g = [i \in 0..k |-> IF i = 0 THEN Defaults ELSE WithOption(g[i - 1], opts, i)]
           T == {k \in Nat : \E g : Ok(g, k)}
<1>1. ASSUME NEW g, NEW k \in Nat
      PROVE  Ok(g, k) <=> /\ g = [i \in 0..k |-> g[i]] /\ g[0] = Defaults
                          /\ \A i \in 1..k : g[i] = WithOption(g[i - 1], opts, i)
  OBVIOUS
<1> HIDE DEF Ok
<1>2. 0 \in T
  <2> DEFINE g == [i \in 0..0 |-> Defaults]
  <2>1. g = [i \in 0..0 |-> g[i]] /\ g[0] = Defaults /\ 1..0 = {}
    OBVIOUS
  <2>2. Ok(g, 0)
    <3> HIDE DEF g
    <3> QED BY <1>1, <2>1
  <2> QED BY <2>2
<1>3. ASSUME NEW k \in Nat, k \in T PROVE k + 1 \in T
  <2>1. PICK g : Ok(g, k)
    BY <1>3
  <2> DEFINE h == [i \in 0..(k + 1) |-> IF i = k + 1 THEN WithOption(g[k], opts, k + 1) ELSE g[i]]
  <2>2. \A i \in 0..k : h[i] = g[i]
    OBVIOUS
  <2>3. h[k + 1] = WithOption(g[k], opts, k + 1) /\ h = [i \in 0..(k + 1) |-> h[i]]
    OBVIOUS
  <2> HIDE DEF h
  <2>4. ASSUME NEW i \in 1..(k + 1) PROVE h[i] = WithOption(h[i - 1], opts, i)
    <3>1. i - 1 \in 0..k /\ h[i - 1] = g[i - 1]
      BY <2>2
    <3>2. CASE i = k + 1
      BY <2>3, <3>1, <3>2
    <3>3. CASE i # k + 1
      <4>1. i \in 1..k /\ i \in 0..k
        BY <3>3
      <4> QED BY <1>1, <2>1, <2>2, <3>1, <4>1
    <3> QED BY <3>2, <3>3
  <2>5. h[0] = Defaults
    BY <1>1, <2>1, <2>2
  <2>6. Ok(h, k + 1)
    BY <1>1, <2>3, <2>4, <2>5
  <2> QED BY <2>6
<1>4. n \in T
  <2> HIDE DEF T
  <2> QED BY <1>2, <1>3, Successors
<1> QED BY <1>4 DEF Ok

\* parseArguments, when every key has a value.
LEMMA ParsedAll ==
    ASSUME NEW opts, Len(opts) \in Nat, DOMAIN opts = 1..Len(opts), Complete(opts)
    PROVE  parseArguments(opts) = Parsed(opts, Len(opts))
<1> DEFINE n == Len(opts)
<1>1. PICK g : /\ g = [i \in 0..n |-> IF i = 0 THEN Defaults ELSE WithOption(g[i - 1], opts, i)]
               /\ parseArguments(opts) = g[n]
  <2>1. \E g : g = [i \in 0..n |-> IF i = 0 THEN Defaults ELSE WithOption(g[i - 1], opts, i)]
    BY ParseDefined
  <2>2. parseArguments(opts) =
            (CHOOSE g : g = [i \in 0..n |-> IF i = 0 THEN Defaults ELSE WithOption(g[i - 1], opts, i)])[n]
    BY DEF parseArguments
  <2> QED BY <2>1, <2>2
<1> DEFINE T == {k \in Nat : k <= n => g[k] = Parsed(opts, k)}
<1>2. 0 \in T
  <2>1. \A keys : Upto(opts, 0, keys) = {}
    BY DEF Upto
  <2>2. \A keys, default : LastUpto(opts, 0, keys, default) = default
    BY <2>1 DEF LastUpto
  <2>3. Flag(1) = TRUE
    BY DEF Flag
  <2>4. Parsed(opts, 0) = Defaults
    BY <2>2, <2>3 DEF Parsed, Defaults
  <2> QED BY <1>1, <2>4
<1>3. ASSUME NEW k \in Nat, k \in T PROVE k + 1 \in T
  <2> SUFFICES ASSUME k + 1 <= n PROVE g[k + 1] = Parsed(opts, k + 1)
    OBVIOUS
  <2>1. g[k] = Parsed(opts, k)
    BY <1>3
  <2>2. k + 1 \in 1..n /\ k + 1 # 0 /\ (k + 1) - 1 = k
    OBVIOUS
  <2>3. g[k + 1] = WithOption(g[k], opts, k + 1)
    BY <1>1, <2>2
  <2>4. opts[k + 1].value # NONE
    BY <2>2 DEF Complete
  <2> QED BY <2>1, <2>3, <2>4, ParsedMore
<1>4. n \in T
  <2> HIDE DEF T
  <2> QED BY <1>2, <1>3, Successors
<1> QED BY <1>1, <1>4

\* What the constructor stores of the parsed options.
LEMMA ConfiguredStores ==
    ASSUME NEW c
    PROVE  /\ Configured(c).min = Lesser(ValidInterval(c.min), ValidInterval(c.max))
           /\ Configured(c).max = Greater(ValidInterval(c.min), ValidInterval(c.max))
           /\ Configured(c).frames = ValidFrames(c.frames)
           /\ Configured(c).file = IF c.file = NULL THEN Generated ELSE c.file
<1> DEFINE file == IF c.file = NULL THEN Generated ELSE c.file
           s == [min |-> c.min, max |-> c.max, frames |-> c.frames, file |-> file]
           low == Lesser(ValidInterval(c.min), ValidInterval(c.max))
           high == Greater(ValidInterval(c.min), ValidInterval(c.max))
           limit == ValidFrames(c.frames)
<1>1. Configured(c) = [[s EXCEPT !.min = low, !.max = high] EXCEPT !.frames = limit]
  BY DEF Configured, WithFrames, WithInterval
<1> HIDE DEF file, low, high, limit
<1>2. /\ s = [min |-> c.min, max |-> c.max, frames |-> c.frames, file |-> file] /\ s.file = file
      /\ DOMAIN s = {"min", "max", "frames", "file"}
  OBVIOUS
<1> HIDE DEF s
<1> DEFINE w == [s EXCEPT !.min = low, !.max = high]
<1>3. DOMAIN w = {"min", "max", "frames", "file"} /\ w.min = low /\ w.max = high /\ w.file = file
  BY <1>2
<1> HIDE DEF w
<1>4. /\ [w EXCEPT !.frames = limit].min = low /\ [w EXCEPT !.frames = limit].max = high
      /\ [w EXCEPT !.frames = limit].frames = limit /\ [w EXCEPT !.frames = limit].file = file
  BY <1>3
<1>5. Configured(c).min = low /\ Configured(c).max = high /\ Configured(c).frames = limit /\ Configured(c).file = file
  BY <1>1, <1>4 DEF w
<1> QED BY <1>5 DEF file, low, high, limit

\* A setting that some option names has the value of one.
LEMMA NamedValue ==
    ASSUME NEW opts \in OptionStrings, NEW keys, NEW default
    PROVE  /\ LastNamed(opts, keys, default) = LastUpto(opts, Len(opts), keys, default)
           /\ Named(opts, keys) # {} => LastNamed(opts, keys, default) # NULL
<1>1. Len(opts) \in Nat /\ DOMAIN opts = 1..Len(opts) /\ \A i \in DOMAIN opts : opts[i].value # NULL
  BY StringAssumption
<1>2. Named(opts, keys) = Upto(opts, Len(opts), keys)
  BY <1>1 DEF Named, Upto
<1>3. ASSUME Named(opts, keys) # {} PROVE LastNamed(opts, keys, default) # NULL
  <2>1. PICK i \in Named(opts, keys) : \A j \in Named(opts, keys) : j <= i
    <3>1. Named(opts, keys) \subseteq Nat /\ \A j \in Named(opts, keys) : j <= Len(opts)
      BY <1>1 DEF Named
    <3> QED BY <1>1, <1>3, <3>1, Greatest
  <2>2. Max(Named(opts, keys)) = i
    <3>1. \A j \in Named(opts, keys) : j \in Int
      BY <1>1 DEF Named
    <3> QED BY <2>1, <3>1, MaxIs
  <2>3. i \in DOMAIN opts
    BY <2>1 DEF Named
  <2> QED BY <1>1, <1>3, <2>2, <2>3 DEF LastNamed
<1> QED BY <1>2, <1>3 DEF LastNamed, LastUpto

-----------------------------------------------------------------------------
(* Theorems *)

\* The invariant holds from the first state on.
THEOREM Invariance == Spec => []IndInv
<1>1. Init => IndInv
  <2> SUFFICES ASSUME Init PROVE IndInv
    OBVIOUS
  <2>1. LockInv
    BY OpNames, CallerAssumption DEF Init, LockInv
  <2>2. VmInv /\ DeathInv /\ CommandInv
    BY OpNames DEF Init, VmInv, DeathInv, PastLook, CommandInv, Idle, Callers
  <2>3. SettingsInv
    BY ConfiguredValid DEF Init, SettingsInv
  <2> QED BY <2>1, <2>2, <2>3 DEF IndInv
<1>2. IndInv /\ [Next]_vars => IndInv'
  BY LockStep, VmStep, DeathStep, SettingsStep, CommandStep DEF IndInv
<1> QED BY <1>1, <1>2, PTL DEF Spec

\* When OnVMDeath has returned, no profiler runs or is being started, unless
\* its start took the lock after OnVMDeath's last look, for any number of
\* callers and requests.
THEOREM DeathSafety == Spec => []DeathStops
<1>1. IndInv => DeathStops
  BY DEF IndInv, VmInv, DeathInv, PastLook, Starting, DeathStops
<1> QED BY <1>1, Invariance, PTL

\* The step that sets a bound for the controller keeps the other one, unless
\* another caller has set the interval since the controller read it.
THEOREM BoundsKept == Spec => SetKeepsOther
<1> DEFINE Kept == \A c \in {"intervalMin", "intervalMax"} :
          cmd.op = c /\ ctl = "wait" /\ ~Idle(Ctl) /\ call'[Ctl] = NoOp /\ ~overtaken /\ ~running =>
              {settings'.min, settings'.max} =
                  {ValidInterval(cmd.a), IF c = "intervalMin" THEN settings.max ELSE settings.min}
<1>1. IndInv /\ [Next]_vars => [Kept]_vars
  <2> SUFFICES ASSUME IndInv, Next, cmd.op \in {"intervalMin", "intervalMax"}, ctl = "wait", ~Idle(Ctl),
                      call'[Ctl] = NoOp, ~overtaken, ~running
               PROVE  {settings'.min, settings'.max} =
                          {ValidInterval(cmd.a), IF cmd.op = "intervalMin" THEN settings.max ELSE settings.min}
    OBVIOUS
  <2>1. call[Ctl].op = "interval" /\ call[Ctl] = Asked(cmd) /\ call'[Ctl] # call[Ctl]
    BY DEF IndInv, CommandInv, Idle
  <2>2. EnterSet(Ctl)
    BY <2>1, Returning
  <2>3. settings' = Setting(call[Ctl])
    BY <2>2 DEF EnterSet, Set
  <2>4. {settings'.min, settings'.max} = {ValidInterval(call[Ctl].a), ValidInterval(call[Ctl].b)}
    BY <2>1, <2>3, SettingKeeps DEF IndInv
  <2>5. {ValidInterval(call[Ctl].a), ValidInterval(call[Ctl].b)} =
            {ValidInterval(cmd.a), IF cmd.op = "intervalMin" THEN settings.max ELSE settings.min}
    BY <2>1 DEF Asked, Op, IndInv, SettingsInv
  <2> QED BY <2>4, <2>5
<1> QED BY <1>1, Invariance, PTL DEF Spec, SetKeepsOther

\* Agent_OnLoad takes over what the options say, of any number of options in
\* any order: of those that name a setting the last one, validated.
THEOREM OptionsArrive == Spec => OptionsTakenOver
<1> DEFINE Given == vm = "unloaded" => options \in OptionStrings
           Taken == vm = "unloaded" /\ vm' = "loaded" /\ Complete(options) =>
              LET min == ValidInterval(LastNamed(options, {"interval", "intervalMin"}, DEFAULT_SAMPLING_INTERVAL))
                  max == ValidInterval(LastNamed(options, {"interval", "intervalMax"}, DEFAULT_SAMPLING_INTERVAL))
              IN  /\ settings'.min = Lesser(min, max) /\ settings'.max = Greater(min, max)
                  /\ settings'.frames = ValidFrames(LastNamed(options, {"maxFrames"}, DEFAULT_MAX_FRAMES_TO_CAPTURE))
                  /\ settings'.file = LastNamed(options, {"logPath"}, Generated)
                  /\ config'.host = LastNamed(options, {"host"}, NULL)
                  /\ config'.port = LastNamed(options, {"port"}, NULL)
                  /\ config'.start = (LastNamed(options, {"start"}, 1) # 0)
<1>1. Init => Given
  BY DEF Init
<1>2. Given /\ [Next]_vars => Given'
  <2>1. [Next]_vars => UNCHANGED <<vm, options>> \/ vm' # "unloaded" \/ (options' = options /\ vm' = vm)
    BY DEF Next, Callbacks, Controller, vars, vmVars, OnLoad, OnVMInit, OnMainStart, OnVMDeath, OnVMDeathStop,
           OnVMDeathReturn, OnUnload, Setup, Test, Accept, Serve, Served, Proceed, CallApi, Enter, EnterStart,
           EnterStop, EnterSet, EnterGet
  <2> QED BY <2>1
<1>3. Given /\ [Next]_vars => [Taken]_vars
  <2> SUFFICES ASSUME Given, Next, vm = "unloaded", vm' = "loaded", Complete(options)
               PROVE  LET min == ValidInterval(LastNamed(options, {"interval", "intervalMin"}, DEFAULT_SAMPLING_INTERVAL))
                          max == ValidInterval(LastNamed(options, {"interval", "intervalMax"}, DEFAULT_SAMPLING_INTERVAL))
                      IN  /\ settings'.min = Lesser(min, max) /\ settings'.max = Greater(min, max)
                          /\ settings'.frames = ValidFrames(LastNamed(options, {"maxFrames"}, DEFAULT_MAX_FRAMES_TO_CAPTURE))
                          /\ settings'.file = LastNamed(options, {"logPath"}, Generated)
                          /\ config'.host = LastNamed(options, {"host"}, NULL)
                          /\ config'.port = LastNamed(options, {"port"}, NULL)
                          /\ config'.start = (LastNamed(options, {"start"}, 1) # 0)
    OBVIOUS
  <2> DEFINE c == parseArguments(options)
             n == Len(options)
  <2>1. settings' = Configured(c) /\ config' = [host |-> c.host, port |-> c.port, start |-> c.start]
    BY DEF Next, Callbacks, Controller, OnLoad, OnVMInit, OnMainStart, OnVMDeath, OnVMDeathStop, vmVars,
           OnVMDeathReturn, OnUnload, Setup, Test, Accept, Serve, Served, Proceed, CallApi, Enter, EnterStart,
           EnterStop, EnterSet, EnterGet, Alive, ctlGoto
  <2>2. options \in OptionStrings /\ n \in Nat /\ DOMAIN options = 1..n
    BY StringAssumption
  <2>3. c = Parsed(options, n)
    BY <2>2, ParsedAll
  <2> DEFINE Last(keys, default) == LastNamed(options, keys, default)
  <2>4. \A keys, default : Last(keys, default) = LastUpto(options, n, keys, default)
    BY <2>2, NamedValue
  <2>5. /\ c.min = Last({"interval", "intervalMin"}, DEFAULT_SAMPLING_INTERVAL)
        /\ c.max = Last({"interval", "intervalMax"}, DEFAULT_SAMPLING_INTERVAL)
        /\ c.frames = Last({"maxFrames"}, DEFAULT_MAX_FRAMES_TO_CAPTURE)
        /\ c.file = Last({"logPath"}, NULL) /\ c.host = Last({"host"}, NULL) /\ c.port = Last({"port"}, NULL)
    <3> HIDE DEF c, n, Last
    <3> QED BY <2>3, <2>4 DEF Parsed
  <2>6. c.start = (Last({"start"}, 1) # 0)
    <3>1. c.start = Flag(LastUpto(options, n, {"start"}, 1))
      <4> HIDE DEF c, n
      <4> QED BY <2>3 DEF Parsed
    <3>2. Flag(LastUpto(options, n, {"start"}, 1)) = (Last({"start"}, 1) # 0)
      BY <2>4 DEF Flag
    <3> HIDE DEF c, Last
    <3> QED BY <3>1, <3>2
  <2>7. (IF c.file = NULL THEN Generated ELSE c.file) = Last({"logPath"}, Generated)
    <3>1. CASE Named(options, {"logPath"}) = {}
      <4>1. Last({"logPath"}, NULL) = NULL /\ Last({"logPath"}, Generated) = Generated
        BY <3>1 DEF LastNamed
      <4> HIDE DEF c, Last
      <4> QED BY <2>5, <4>1
    <3>2. CASE Named(options, {"logPath"}) # {}
      <4>1. Last({"logPath"}, NULL) # NULL
        BY <2>2, <3>2, NamedValue
      <4>2. Last({"logPath"}, NULL) = Last({"logPath"}, Generated)
        BY <3>2 DEF LastNamed
      <4> HIDE DEF c, Last
      <4> QED BY <2>5, <4>1, <4>2
    <3> QED BY <3>1, <3>2
  <2> HIDE DEF c
  <2>8. /\ settings'.min = Lesser(ValidInterval(c.min), ValidInterval(c.max))
        /\ settings'.max = Greater(ValidInterval(c.min), ValidInterval(c.max))
        /\ settings'.frames = ValidFrames(c.frames)
        /\ settings'.file = IF c.file = NULL THEN Generated ELSE c.file
    BY <2>1, ConfiguredStores
  <2>9. config'.host = c.host /\ config'.port = c.port /\ config'.start = c.start
    BY <2>1
  <2> QED BY <2>5, <2>6, <2>7, <2>8, <2>9
<1> QED BY <1>1, <1>2, <1>3, PTL DEF Spec, OptionsTakenOver
=============================================================================
