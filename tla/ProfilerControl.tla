--------------------------- MODULE ProfilerControl ---------------------------
(***************************************************************************)
(* What the control interface of Profiler (profiler.h) promises: one       *)
(* caller at a time, settings that only change while the profiler is       *)
(* stopped, and a profiler that runs with the settings of its start. The   *)
(* detailed Profiler implements it; Agent is built on top of it.           *)
(***************************************************************************)
EXTENDS Options

CONSTANTS
    Files,      \* names of log files
    Generated,  \* a name made up from pid and time
    NULL        \* no name

VARIABLES
    busy,      \* what the holder of ongoingConf is doing, "free" without one
    running,   \* what isRunning says
    settings,  \* what the getters report: min, max, frames and file
    used       \* the settings a running profiler works with, else NULL

controlVars == <<busy, running, settings, used>>

Names == Files \cup {Generated}

ControlInit ==
    /\ busy = "free" /\ running = FALSE /\ used = NULL
    /\ ValidSettings(settings) /\ settings.file \in Names

Settable == busy = "free" /\ ~running

\* A setter: whatever it is given, the result is valid.
Set(s) ==
    /\ Settable
    /\ ValidSettings(s) /\ s.file \in Names \cup {NULL}
    /\ settings' = s
    /\ UNCHANGED <<busy, running, used>>

Start ==
    /\ busy = "free" /\ ~running
    /\ busy' = "starting"
    /\ UNCHANGED <<running, settings, used>>

\* A start without a name for the log file makes one up.
NameFile ==
    /\ busy = "starting" /\ settings.file = NULL
    /\ settings' = [settings EXCEPT !.file = Generated]
    /\ UNCHANGED <<busy, running, used>>

Run ==
    /\ busy = "starting" /\ settings.file # NULL
    /\ busy' = "started" /\ running' = TRUE /\ used' = settings
    /\ UNCHANGED settings

Started == busy = "started" /\ busy' = "free" /\ UNCHANGED <<running, settings, used>>

Stop ==
    /\ busy = "free" /\ running
    /\ busy' = "stopping"
    /\ UNCHANGED <<running, settings, used>>

Halt ==
    /\ busy = "stopping"
    /\ busy' = "stopped" /\ running' = FALSE /\ used' = NULL
    /\ UNCHANGED settings

Stopped == busy = "stopped" /\ busy' = "free" /\ UNCHANGED <<running, settings, used>>

\* The destructor.
Destroy ==
    /\ busy # "gone"
    /\ busy' = "gone"
    /\ settings' = [settings EXCEPT !.file = NULL]
    /\ UNCHANGED <<running, used>>

\* The steps of the caller that is inside start or stop.
Inside == NameFile \/ Run \/ Started \/ Halt \/ Stopped

\* What the interface asks of its owner and does not check: the profiler is
\* stopped and nobody is inside when it is destroyed. Only then does it keep
\* its promises.
DestroyUnused == Settable /\ Destroy

ControlNext == Set(settings') \/ Start \/ Stop \/ Inside \/ DestroyUnused
ControlSpec == ControlInit /\ [][ControlNext]_controlVars
=============================================================================
