------------------------------- MODULE Options -------------------------------
(***************************************************************************)
(* The settings of the profiler: the numeric part of ConfigurationOptions  *)
(* (globals.h) and what the setters of Profiler (profiler.cpp) make of     *)
(* their arguments.                                                        *)
(***************************************************************************)
EXTENDS Integers

CONSTANTS
    MAX_FRAMES_TO_CAPTURE,
    DEFAULT_MAX_FRAMES_TO_CAPTURE,
    DEFAULT_SAMPLING_INTERVAL

ASSUME OptionAssumption ==
    /\ DEFAULT_SAMPLING_INTERVAL \in Nat \ {0}
    /\ MAX_FRAMES_TO_CAPTURE \in Nat
    /\ DEFAULT_MAX_FRAMES_TO_CAPTURE \in 1..(MAX_FRAMES_TO_CAPTURE - 1)

ValidInterval(i) == IF i > 0 THEN i ELSE DEFAULT_SAMPLING_INTERVAL
Lesser(i, j) == IF i < j THEN i ELSE j
Greater(i, j) == IF i < j THEN j ELSE i

ValidFrames(n) == IF 0 < n /\ n < MAX_FRAMES_TO_CAPTURE THEN n ELSE DEFAULT_MAX_FRAMES_TO_CAPTURE

\* s with the interval that setSamplingInterval(i, j) stores.
WithInterval(s, i, j) ==
    [s EXCEPT !.min = Lesser(ValidInterval(i), ValidInterval(j)),
              !.max = Greater(ValidInterval(i), ValidInterval(j))]
\* s with the limit that setMaxFramesToCapture(n) stores.
WithFrames(s, n) == [s EXCEPT !.frames = ValidFrames(n)]

\* The intervals of a SignalHandler are drawn from min..max and given to
\* setitimer: that range is not empty and does not include 0.
ValidSettings(s) ==
    /\ s.min \in Nat \ {0} /\ s.max \in Nat /\ s.min <= s.max
    /\ s.frames \in 1..(MAX_FRAMES_TO_CAPTURE - 1)
=============================================================================
