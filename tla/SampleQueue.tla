---------------------------- MODULE SampleQueue ----------------------------
(***************************************************************************)
(* What the sample buffer promises to the profiler, whatever its           *)
(* implementation: samples that were accepted are handed to the listener   *)
(* one at a time, each exactly once, unaltered, in the order in which they  *)
(* were accepted, and at most Size of them are held at any moment.         *)
(* A rejected push changes nothing, so it is a stuttering step here.       *)
(***************************************************************************)
EXTENDS Naturals, Sequences

CONSTANTS
    Sample,   \* what a signal handler pushes: a trace and its thread's bucket
    Size,     \* how many samples the buffer may hold
    NoSample  \* nothing is with the listener

VARIABLES
    held,       \* accepted samples, oldest first, the one being recorded included
    recording   \* the sample the listener has been given, until its slot is freed

qvars == <<held, recording>>

QInit == held = << >> /\ recording = NoSample

Accept(s) ==
    /\ Len(held) < Size
    /\ held' = Append(held, s)
    /\ UNCHANGED recording

Record ==
    /\ held # << >>
    /\ recording = NoSample
    /\ recording' = Head(held)
    /\ UNCHANGED held

Release ==
    /\ recording # NoSample
    /\ held' = Tail(held)
    /\ recording' = NoSample

QNext == (\E s \in Sample : Accept(s)) \/ Record \/ Release

QSpec == QInit /\ [][QNext]_qvars
=============================================================================
