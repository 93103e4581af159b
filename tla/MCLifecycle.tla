----------------------------- MODULE MCLifecycle -----------------------------
(***************************************************************************)
(* Small instances of Profiler and of the two writers. They share no       *)
(* state: a Processor thread calls LogWriter with what it pops, which      *)
(* Profiler leaves out. So every behaviour is one of Profiler, one of      *)
(* LogWriter or one of ProfileWriter: the other two stay in an initial     *)
(* state.                                                                  *)
(***************************************************************************)
EXTENDS MCProfiler, LogWriter, ProfileWriter

\* A frame without a byte code index, one that can be a start, one that cannot.
MCBcis == {-1, 2, 3}
\* An error of the stack walk, one frame and two.
MCNumFrames == {-1, 1, 2}

VARIABLE part

\* One initial state of Profiler, for the behaviours of the others.
Resting == conf = [min |-> 1, max |-> 1, frames |-> 2] /\ openFile = Generated /\ workerDone

MCInit ==
    /\ part \in {"profiler", "log", "file"}
    /\ Init /\ LogInit /\ FileInit
    /\ part # "profiler" => Resting
    /\ part # "log" => table = <<>>

ProfilerStep == part = "profiler" /\ Next /\ UNCHANGED <<part, logVars, fileVars>>
LogStep == part = "log" /\ LogNext /\ UNCHANGED <<part, vars, fileVars>>
FileStep == part = "file" /\ FileNext /\ UNCHANGED <<part, vars, logVars>>

MCSpec == MCInit /\ [][ProfilerStep \/ LogStep \/ FileStep]_<<part, vars, logVars, fileVars>>
=============================================================================
