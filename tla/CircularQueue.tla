--------------------------- MODULE CircularQueue ---------------------------
(***************************************************************************)
(* CircularQueue (circular_queue.h, circular_queue.cpp): the buffer        *)
(* between the SIGPROF handlers of all profiled threads (producers, which  *)
(* call push) and the processor thread (the one consumer, which calls pop).*)
(* It is lock free: every access to input, output or is_committed is a     *)
(* step of its own and the threads interleave between them.                *)
(*                                                                         *)
(* Memory model: the accesses of one thread take effect in program order.  *)
(* That is what x86 gives; the code asks for less (relaxed accesses with a *)
(* TODO on the ordering).                                                  *)
(***************************************************************************)
EXTENDS Integers, Sequences, FiniteSets

CONSTANTS
    Producers,  \* threads that can be inside push at the same time
    Size,       \* samples the queue may hold (1024 in the code)
    maxFrames,  \* length of a slot's frame buffer
    Frames,     \* what a JVMPI_CallFrame can hold
    NoFrame,    \* a frame of zero bytes
    Envs,       \* JNIEnv pointers, nullptr included
    Infos,      \* ThreadBucket pointers, nullptr included
    nullptr,
    Samples,    \* what handlers push: a JVMPI_CallTrace and its thread's bucket
    NoSample    \* no push, or no call of the listener, is in progress

\* A queue of at least one element; frames other than the cleared one.
ASSUME SizeAssumption == Size \in Nat \ {0}
ASSUME FrameAssumption == maxFrames \in Nat /\ NoFrame \notin Frames
ASSUME PointerAssumption == nullptr \in Infos /\ nullptr \in Envs

FrameIndex == 1..maxFrames
FrameBuffer == [FrameIndex -> Frames \cup {NoFrame}]

\* num_frames is negative when the stack could not be walked, and never
\* exceeds what AsyncGetCallTrace was allowed to write.
NumFrames == {n \in Int : n <= maxFrames}
TraceType == [env_id : Envs, num_frames : NumFrames, frames : FrameBuffer]

ASSUME SampleAssumption ==
    Samples \subseteq [trace : TraceType, info : Infos] /\ NoSample \notin Samples

Capacity == Size + 1
Slots == 0..(Capacity - 1)

VARIABLES
    input,         \* next slot to be claimed by a producer
    output,        \* next slot to be read by the consumer
    is_committed,  \* the three members of each slot's TraceHolder, the frames
    trace,         \* of the trace apart
    info,
    frame_buffer_, \* the frames of each slot
    pc,            \* where each producer is in push
    arg,           \* the arguments of each producer's push
    currentInput,  \* the local of that name in each producer's push
    popPc,         \* where the consumer is in pop
    recorded       \* what listener_.record was given by the pop in progress

producerVars == <<pc, arg, currentInput>>
consumerVars == <<popPc, recorded>>
holders == <<is_committed, trace, info, frame_buffer_>>
vars == <<input, output, is_committed, trace, info, frame_buffer_, pc, arg, currentInput, popPc, recorded>>

\* Mutant: the index does not wrap.
advanceUnbounded(index) == index + 1
advance(index) == (index + 1) % Capacity

Cleared == [i \in FrameIndex |-> NoFrame]

Init ==
    /\ input = 0
    /\ output = 0
    /\ is_committed = [s \in Slots |-> FALSE]
    /\ trace = [s \in Slots |-> [env_id |-> nullptr, num_frames |-> 0]]
    /\ info = [s \in Slots |-> nullptr]
    /\ frame_buffer_ = [s \in Slots |-> Cleared]
    /\ pc = [p \in Producers |-> "idle"]
    /\ arg = [p \in Producers |-> NoSample]
    /\ currentInput = [p \in Producers |-> 0]
    /\ popPc = "idle"
    /\ recorded = NoSample

-----------------------------------------------------------------------------
(* push *)

Goto(p, from, to) ==
    /\ pc[p] = from
    /\ pc' = [pc EXCEPT ![p] = to]

\* push returns: its arguments and locals are gone.
Return(p, from) ==
    /\ Goto(p, from, "idle")
    /\ arg' = [arg EXCEPT ![p] = NoSample]
    /\ currentInput' = [currentInput EXCEPT ![p] = 0]

\* push is called and loads input.
PushCall(p) ==
    /\ Goto(p, "idle", "check")
    /\ \E s \in Samples : arg' = [arg EXCEPT ![p] = s]
    /\ currentInput' = [currentInput EXCEPT ![p] = input]
    /\ UNCHANGED <<input, output, holders, consumerVars>>

\* output is loaded and the queue is taken for full: push returns false.
PushFull(p) ==
    /\ output = advance(currentInput[p])
    /\ Return(p, "check")
    /\ UNCHANGED <<input, output, holders, consumerVars>>

\* Mutant of PushRoom: a full queue is not noticed.
PushAnyway(p) ==
    /\ Goto(p, "check", "cas")
    /\ UNCHANGED <<input, output, holders, arg, currentInput, consumerVars>>

\* output is loaded and there is room.
PushRoom(p) ==
    /\ output # advance(currentInput[p])
    /\ Goto(p, "check", "cas")
    /\ UNCHANGED <<input, output, holders, arg, currentInput, consumerVars>>

\* Mutant of PushClaim: input is stored without comparing it.
PushStore(p) ==
    /\ Goto(p, "cas", "write")
    /\ input' = advance(currentInput[p])
    /\ UNCHANGED <<output, holders, arg, currentInput, consumerVars>>

\* compare_exchange_strong succeeds: the slot is claimed.
PushClaim(p) ==
    /\ input = currentInput[p]
    /\ Goto(p, "cas", "write")
    /\ input' = advance(currentInput[p])
    /\ UNCHANGED <<output, holders, arg, currentInput, consumerVars>>

\* compare_exchange_strong fails: round the loop, input is loaded again.
PushRetry(p) ==
    /\ input # currentInput[p]
    /\ Goto(p, "cas", "check")
    /\ currentInput' = [currentInput EXCEPT ![p] = input]
    /\ UNCHANGED <<input, output, holders, arg, consumerVars>>

\* The frames that write copies over those of the slot; the others stay.
Copied(fb, item) ==
    [i \in FrameIndex |-> IF i <= item.num_frames THEN item.frames[i] ELSE fb[i]]

write(p) ==
    LET slot == currentInput[p]
        item == arg[p].trace
    IN  /\ Goto(p, "write", "info")
        /\ frame_buffer_' = [frame_buffer_ EXCEPT ![slot] = Copied(@, item)]
        /\ trace' = [trace EXCEPT ![slot] =
                        [env_id |-> item.env_id, num_frames |-> item.num_frames]]
        /\ UNCHANGED <<input, output, is_committed, info, arg, currentInput, consumerVars>>

PushInfo(p) ==
    /\ Goto(p, "info", "commit")
    /\ info' = [info EXCEPT ![currentInput[p]] = arg[p].info]
    /\ UNCHANGED <<input, output, is_committed, trace, frame_buffer_, arg, currentInput, consumerVars>>

\* Mutant of PushCommit: the sample is never published.
PushForgotten(p) ==
    /\ Return(p, "commit")
    /\ UNCHANGED <<input, output, holders, consumerVars>>

\* The sample is published and push returns true.
PushCommit(p) ==
    /\ Return(p, "commit")
    /\ is_committed' = [is_committed EXCEPT ![currentInput[p]] = TRUE]
    /\ UNCHANGED <<input, output, trace, info, frame_buffer_, consumerVars>>

\* The steps of push other than the claim.
PushStep(p) ==
    \/ PushCall(p) \/ PushFull(p) \/ PushRoom(p) \/ PushRetry(p)
    \/ write(p) \/ PushInfo(p) \/ PushCommit(p)

-----------------------------------------------------------------------------
(* pop. Only the consumer writes output, so current_output is output. *)

PopGoto(from, to) == popPc = from /\ popPc' = to

PopEmpty ==
    /\ output = input
    /\ PopGoto("idle", "idle")
    /\ UNCHANGED <<input, output, holders, producerVars, recorded>>

PopBegin ==
    /\ output # input
    /\ PopGoto("idle", "wait")
    /\ UNCHANGED <<input, output, holders, producerVars, recorded>>

\* A listener sees the first num_frames frames of the slot.
Seen(fb, num_frames) == [i \in {k \in FrameIndex : k <= num_frames} |-> fb[i]]

\* What a reader of slot s is given.
Contents(s) == [env_id |-> trace[s].env_id,
                num_frames |-> trace[s].num_frames,
                frames |-> Seen(frame_buffer_[s], trace[s].num_frames),
                info |-> info[s]]

\* Mutant of PopRecord: the slot is read as soon as it is claimed.
PopRecordEarly ==
    /\ PopGoto("wait", "clear")
    /\ recorded' = Contents(output)
    /\ UNCHANGED <<input, output, holders, producerVars>>

\* The wait for is_committed is over and listener_.record is called.
PopRecord ==
    /\ is_committed[output]
    /\ PopGoto("wait", "clear")
    /\ recorded' = Contents(output)
    /\ UNCHANGED <<input, output, holders, producerVars>>

\* Mutant of PopClear: the last frame is not zeroed.
PopClearShort ==
    /\ PopGoto("clear", "uncommit")
    /\ frame_buffer_' = [frame_buffer_ EXCEPT ![output] =
           [i \in FrameIndex |-> IF i < trace[output].num_frames THEN NoFrame ELSE @[i]]]
    /\ info' = [info EXCEPT ![output] = nullptr]
    /\ UNCHANGED <<input, output, is_committed, trace, producerVars, recorded>>

\* The frames that were recorded are zeroed, info is reset.
PopClear ==
    /\ PopGoto("clear", "uncommit")
    /\ frame_buffer_' = [frame_buffer_ EXCEPT ![output] =
           [i \in FrameIndex |-> IF i <= trace[output].num_frames THEN NoFrame ELSE @[i]]]
    /\ info' = [info EXCEPT ![output] = nullptr]
    /\ UNCHANGED <<input, output, is_committed, trace, producerVars, recorded>>

\* Mutant of PopUncommit: the commit flag is not reset.
PopStaysCommitted ==
    /\ PopGoto("uncommit", "advance")
    /\ UNCHANGED <<input, output, holders, producerVars, recorded>>

PopUncommit ==
    /\ PopGoto("uncommit", "advance")
    /\ is_committed' = [is_committed EXCEPT ![output] = FALSE]
    /\ UNCHANGED <<input, output, trace, info, frame_buffer_, producerVars, recorded>>

PopAdvance ==
    /\ PopGoto("advance", "idle")
    /\ output' = advance(output)
    /\ recorded' = NoSample
    /\ UNCHANGED <<input, holders, producerVars>>

Pop == PopEmpty \/ PopBegin \/ PopRecord \/ PopClear \/ PopUncommit \/ PopAdvance

CodeNext == (\E p \in Producers : PushClaim(p) \/ PushStep(p)) \/ Pop

\* The code, however its threads are scheduled.
CodeSpec == Init /\ [][CodeNext]_vars

-----------------------------------------------------------------------------
(***************************************************************************)
(* Scheduling. A push compares the index it loaded with input again at     *)
(* its compare_exchange, so it is fooled when the other producers have     *)
(* meanwhile claimed Capacity slots and brought input back to the loaded   *)
(* index. NoLap is the assumption that a claim does not do that to a push  *)
(* that is between its load and its compare_exchange. The code does        *)
(* nothing to ensure it: CodeSpec is the code alone, Spec assumes NoLap.   *)
(***************************************************************************)
Choosing(p) == pc[p] \in {"check", "cas"}

NoLap(p) == \A q \in Producers \ {p} : Choosing(q) => currentInput[q] # advance(input)

UnlappedClaim(p) == NoLap(p) /\ PushClaim(p)

Next == (\E p \in Producers : UnlappedClaim(p) \/ PushStep(p)) \/ Pop

Spec == Init /\ [][Next]_vars

\* A handler that has claimed a slot runs on to the end of push, and
\* Processor::run calls pop again and again.
Fairness ==
    /\ \A p \in Producers : WF_vars(write(p) \/ PushInfo(p) \/ PushCommit(p))
    /\ WF_vars(Pop)

FairSpec == Spec /\ Fairness

-----------------------------------------------------------------------------
(* Properties *)

\* The indices that push and pop compute stay within the buffer, and a push in
\* progress has its arguments.
TypeOK ==
    /\ input \in Slots
    /\ output \in Slots
    /\ is_committed \in [Slots -> BOOLEAN]
    /\ trace \in [Slots -> [env_id : Envs, num_frames : NumFrames]]
    /\ info \in [Slots -> Infos]
    /\ frame_buffer_ \in [Slots -> FrameBuffer]
    /\ pc \in [Producers -> {"idle", "check", "cas", "write", "info", "commit"}]
    /\ arg \in [Producers -> Samples \cup {NoSample}]
    /\ \A p \in Producers : pc[p] # "idle" => arg[p] \in Samples
    /\ currentInput \in [Producers -> Slots]
    /\ popPc \in {"idle", "wait", "clear", "uncommit", "advance"}

\* Producer p has claimed slot s and has not published it yet.
Owns(p, s) == pc[p] \in {"write", "info", "commit"} /\ currentInput[p] = s

\* Slots that hold a sample: from output up to, not including, input.
InRing(s) == IF output <= input THEN output <= s /\ s < input
                                ELSE output <= s \/ s < input

\* Two handlers never write the same slot, and no handler writes a slot that
\* is published or that the consumer is reading or clearing: the claim by
\* compare_exchange in push, the commit flag and the order of the last two
\* stores of pop keep every slot in one thread's hands.
SlotExclusive ==
    /\ \A p, q \in Producers : \A s \in Slots : Owns(p, s) /\ Owns(q, s) => p = q
    /\ \A p \in Producers : \A s \in Slots : Owns(p, s) =>
           /\ ~is_committed[s]
           /\ s = output => popPc \in {"idle", "wait"}

\* "we can use input = output as our can't-read invariant": when pop would
\* find the queue empty no slot is published or about to be.
CantReadMeansEmpty ==
    input = output => \A s \in Slots :
        ~is_committed[s] /\ \A p \in Producers : ~Owns(p, s)

Clean(s) == frame_buffer_[s] = Cleared /\ info[s] = nullptr

\* "Padding already set to 0 by the consumer": the frames of a slot that a
\* handler has yet to write are all zero, whatever was pushed there before.
FreeSlotsClean ==
    \A s \in Slots :
        (~InRing(s) \/ \E p \in Producers : Owns(p, s) /\ pc[p] = "write")
            => Clean(s)

\* A published sample stays exactly as it was published until the consumer
\* has recorded it: no later push touches it.
KeepsUnread ==
    \A s \in Slots :
        is_committed[s] /\ ~(s = output /\ popPc \in {"clear", "uncommit"})
            => is_committed'[s] /\ Contents(s)' = Contents(s)
UnreadKept == [][KeepsUnread]_vars

\* A sample whose slot was claimed is recorded in the end: neither later
\* pushes nor a slow commit of another producer can keep it in the queue.
ClaimedIsRecorded ==
    \A s \in Slots : (\E p \in Producers : Owns(p, s))
        ~> (popPc = "clear" /\ output = s)

-----------------------------------------------------------------------------
(***************************************************************************)
(* The inductive invariant behind SlotExclusive, CantReadMeansEmpty,       *)
(* FreeSlotsClean and UnreadKept (proved in CircularQueueProofs).          *)
(***************************************************************************)
\* Frames of a slot that its sample does not use.
PaddingClean(s) ==
    \A i \in FrameIndex : i > trace[s].num_frames => frame_buffer_[s][i] = NoFrame

Writing(p) == pc[p] \in {"write", "info", "commit"}

\* A claimed slot is in the ring, unpublished and claimed once.
ClaimInv ==
    /\ \A p \in Producers : Writing(p) =>
           InRing(currentInput[p]) /\ ~is_committed[currentInput[p]]
    /\ \A p, q \in Producers :
           Writing(p) /\ Writing(q) /\ currentInput[p] = currentInput[q] => p = q

\* A push about to exchange an index that is still input has room for it.
RoomInv ==
    \A p \in Producers : pc[p] = "cas" /\ currentInput[p] = input => output # advance(input)

\* Published slots are in the ring, and so is the slot pop works on.
ConsumerInv ==
    /\ \A s \in Slots : is_committed[s] => InRing(s)
    /\ popPc # "idle" => input # output
    /\ popPc \in {"clear", "uncommit"} => is_committed[output]
    /\ popPc = "advance" =>
           /\ ~is_committed[output]
           /\ \A p \in Producers : Writing(p) => currentInput[p] # output

PaddingInv ==
    /\ \A s \in Slots : ~InRing(s) => Clean(s)
    /\ \A s \in Slots : is_committed[s] => PaddingClean(s)
    /\ \A p \in Producers :
           /\ pc[p] = "write" => Clean(currentInput[p])
           /\ pc[p] \in {"info", "commit"} => PaddingClean(currentInput[p])
    /\ popPc \in {"uncommit", "advance"} => Clean(output)

IndInv == TypeOK /\ ClaimInv /\ RoomInv /\ ConsumerInv /\ PaddingInv

-----------------------------------------------------------------------------
(***************************************************************************)
(* The queue implements SampleQueue. A sample is accepted when its slot is *)
(* claimed, so a claimed slot stands for the argument of its producer's    *)
(* push until it is committed, and for its own contents afterwards.        *)
(***************************************************************************)
Shown(sample) == [env_id |-> sample.trace.env_id,
                  num_frames |-> sample.trace.num_frames,
                  frames |-> Seen(sample.trace.frames, sample.trace.num_frames),
                  info |-> sample.info]

\* NoSample is none of what a listener can be given.
ASSUME ShownAssumption == NoSample \notin {Shown(s) : s \in Samples}

SampleIn(s) ==
    IF s = output /\ recorded # NoSample THEN recorded
    ELSE IF \E p \in Producers : Owns(p, s)
         THEN Shown(arg[CHOOSE p \in Producers : Owns(p, s)])
         ELSE Contents(s)

heldSamples == [k \in 1..((input + Capacity - output) % Capacity) |->
                    SampleIn((output + k - 1) % Capacity)]

Abstract == INSTANCE SampleQueue WITH
    Sample <- {Shown(s) : s \in Samples},
    held <- heldSamples,
    recording <- recorded

\* Samples come out exactly once, unaltered and in the order of the claims.
FifoExactlyOnce == Abstract!QSpec
=============================================================================
