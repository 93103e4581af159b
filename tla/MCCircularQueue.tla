-------------------------- MODULE MCCircularQueue --------------------------
(***************************************************************************)
(* Small instances of CircularQueue: three traces, one of them of a stack  *)
(* that could not be walked (num_frames < 0, the frames are left over from *)
(* the stack of the handler and must not be copied).                       *)
(***************************************************************************)
EXTENDS CircularQueue

CONSTANTS f, g, b, e

MCFrames == {f, g}
MCSamples == {
    [trace |-> [env_id |-> e, num_frames |-> 2, frames |-> <<f, g>>], info |-> b],
    [trace |-> [env_id |-> e, num_frames |-> 1, frames |-> <<g, g>>], info |-> nullptr],
    [trace |-> [env_id |-> nullptr, num_frames |-> -2, frames |-> <<f, f>>], info |-> nullptr]}

\* Liveness does not depend on what the samples hold.
MCOneSample == {[trace |-> [env_id |-> e, num_frames |-> 1, frames |-> <<f>>], info |-> b]}

=============================================================================
