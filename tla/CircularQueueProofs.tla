------------------------ MODULE CircularQueueProofs ------------------------
(***************************************************************************)
(* Proofs about CircularQueue for any number of producers, any size and    *)
(* any samples, under the scheduling assumption NoLap of Spec.             *)
(***************************************************************************)
EXTENDS CircularQueue, SequenceTheorems, TLAPS

-----------------------------------------------------------------------------
(* Indices of the ring *)

\* advance is the successor that wraps at Capacity - 1: no other index is
\* affected by the modulo in CircularQueue::advance.
LEMMA AdvanceWraps ==
    \A i \in Slots : advance(i) = IF i = Capacity - 1 THEN 0 ELSE i + 1
BY SizeAssumption DEF advance, Slots, Capacity

\* advance stays within the buffer, moves every index and keeps two indices
\* apart.
LEMMA AdvanceInjective ==
    /\ \A i \in Slots : advance(i) \in Slots /\ advance(i) # i
    /\ \A i, j \in Slots : advance(i) = advance(j) => i = j
BY AdvanceWraps, SizeAssumption DEF Slots, Capacity

\* A claim with room adds exactly the claimed slot to the ring.
LEMMA ClaimGrowsRing ==
    ASSUME input \in Slots, output \in Slots,
           output # advance(input), input' = advance(input), output' = output
    PROVE  /\ \A s \in Slots : InRing(s)' <=> InRing(s) \/ s = input
           /\ ~InRing(input)
BY AdvanceWraps, SizeAssumption DEF InRing, Slots, Capacity

\* The last store of pop takes exactly the slot it read out of the ring.
LEMMA PopShrinksRing ==
    ASSUME input \in Slots, output \in Slots,
           output # input, output' = advance(output), input' = input
    PROVE  /\ \A s \in Slots : InRing(s)' <=> InRing(s) /\ s # output
           /\ InRing(output)
BY AdvanceWraps, SizeAssumption DEF InRing, Slots, Capacity

-----------------------------------------------------------------------------
(* Type correctness *)

\* A queue fresh from its constructor is well formed.
LEMMA InitTypeOK == Init => TypeOK
<1> SUFFICES ASSUME Init PROVE TypeOK
  OBVIOUS
<1>1. input \in Slots /\ output \in Slots /\ currentInput \in [Producers -> Slots]
  BY SizeAssumption DEF Init, Slots, Capacity
<1>2. trace \in [Slots -> [env_id : Envs, num_frames : NumFrames]]
  BY FrameAssumption, PointerAssumption DEF Init, NumFrames
<1>3. frame_buffer_ \in [Slots -> FrameBuffer]
  BY DEF Init, FrameBuffer, Cleared
<1>4. is_committed \in [Slots -> BOOLEAN] /\ info \in [Slots -> Infos]
  BY PointerAssumption DEF Init
<1> QED
  BY <1>1, <1>2, <1>3, <1>4 DEF Init, TypeOK

\* No step of push or pop takes an index, a frame or a flag out of range.
LEMMA NextTypeOK == TypeOK /\ [Next]_vars => TypeOK'
<1> SUFFICES ASSUME TypeOK, [Next]_vars PROVE TypeOK'
  OBVIOUS
<1> USE DEF TypeOK, holders
<1>1. ASSUME NEW p \in Producers, PushCall(p) PROVE TypeOK'
  BY <1>1 DEF PushCall, Goto, consumerVars
<1>2. ASSUME NEW p \in Producers, PushFull(p) PROVE TypeOK'
  BY <1>2, SizeAssumption DEF PushFull, Return, Goto, consumerVars, Slots, Capacity
<1>3. ASSUME NEW p \in Producers, PushRoom(p) PROVE TypeOK'
  BY <1>3 DEF PushRoom, Goto, consumerVars
<1>4. ASSUME NEW p \in Producers, PushRetry(p) PROVE TypeOK'
  BY <1>4 DEF PushRetry, Goto, consumerVars
<1>5. ASSUME NEW p \in Producers, write(p) PROVE TypeOK'
  <2> DEFINE slot == currentInput[p]
             item == arg[p].trace
  <2>1. slot \in Slots /\ item \in TraceType
    BY <1>5, SampleAssumption DEF write, Goto
  <2>2. Copied(frame_buffer_[slot], item) \in FrameBuffer
    BY <2>1 DEF Copied, FrameBuffer, TraceType
  <2>3. frame_buffer_' \in [Slots -> FrameBuffer]
    BY <1>5, <2>1, <2>2 DEF write
  <2>4. trace' \in [Slots -> [env_id : Envs, num_frames : NumFrames]]
    BY <1>5, <2>1 DEF write, TraceType
  <2> QED
    BY <1>5, <2>3, <2>4 DEF write, Goto, consumerVars
<1>6. ASSUME NEW p \in Producers, PushInfo(p) PROVE TypeOK'
  <2>1. arg[p].info \in Infos
    BY <1>6, SampleAssumption DEF PushInfo, Goto
  <2> QED
    BY <1>6, <2>1 DEF PushInfo, Goto, consumerVars
<1>7. ASSUME NEW p \in Producers, PushCommit(p) PROVE TypeOK'
  BY <1>7, SizeAssumption DEF PushCommit, Return, Goto, consumerVars, Slots, Capacity
<1>8. ASSUME NEW p \in Producers, UnlappedClaim(p) PROVE TypeOK'
  BY <1>8, AdvanceInjective DEF UnlappedClaim, PushClaim, Goto, consumerVars
<1>9. CASE Pop
  <2>1. CASE PopEmpty \/ PopBegin \/ PopRecord \/ PopUncommit
    BY <2>1 DEF PopEmpty, PopBegin, PopRecord, PopUncommit, PopGoto, producerVars
  <2>2. CASE PopClear
    BY <2>2, PointerAssumption DEF PopClear, PopGoto, producerVars, FrameBuffer
  <2>3. CASE PopAdvance
    BY <2>3, AdvanceInjective DEF PopAdvance, PopGoto, producerVars
  <2> QED
    BY <1>9, <2>1, <2>2, <2>3 DEF Pop
<1>10. CASE UNCHANGED vars
  BY <1>10 DEF vars
<1> QED
  BY <1>1, <1>2, <1>3, <1>4, <1>5, <1>6, <1>7, <1>8, <1>9, <1>10 DEF Next, PushStep

\* The state of the queue is well formed in every reachable state: the
\* indices stay within the buffer and no push is without its arguments.
THEOREM TypeCorrect == Spec => []TypeOK
<1>1. Init => TypeOK
  BY InitTypeOK
<1>2. TypeOK /\ [Next]_vars => TypeOK'
  BY NextTypeOK
<1> QED
  BY <1>1, <1>2, PTL DEF Spec

-----------------------------------------------------------------------------
(* The inductive invariant *)

\* An empty queue satisfies the inductive invariant.
LEMMA InitIndInv == Init => IndInv
<1> SUFFICES ASSUME Init PROVE IndInv
  OBVIOUS
<1>0. \A p \in Producers : pc[p] = "idle"
  BY DEF Init
<1>1. ClaimInv /\ RoomInv
  BY <1>0 DEF ClaimInv, RoomInv, Writing
<1>2. ConsumerInv
  BY DEF Init, ConsumerInv
<1>3. PaddingInv
  BY DEF Init, PaddingInv, Clean
<1> QED
  BY <1>1, <1>2, <1>3, InitTypeOK DEF IndInv

\* push up to the claim: only the locals of one producer change.
LEMMA ChoosingStep ==
    ASSUME IndInv, TypeOK', NEW p \in Producers,
           PushCall(p) \/ PushFull(p) \/ PushRoom(p) \/ PushRetry(p)
    PROVE  IndInv'
<1> USE DEF TypeOK
<1>1. /\ UNCHANGED <<input, output, is_committed, trace, info, frame_buffer_, popPc>>
      /\ ~Writing(p)'
      /\ \A q \in Producers \ {p} : pc'[q] = pc[q] /\ currentInput'[q] = currentInput[q]
      /\ pc'[p] = "cas" => currentInput'[p] = currentInput[p] /\ output # advance(currentInput[p])
  BY DEF IndInv, PushCall, PushFull, PushRoom, PushRetry, Return, Goto, holders, consumerVars, Writing
<1>2. ClaimInv'
  <2>1. \A q \in Producers : Writing(q)' => Writing(q) /\ currentInput'[q] = currentInput[q]
    BY <1>1 DEF Writing
  <2>2. \A q \in Producers : Writing(q)' /\ InRing(currentInput[q]) => InRing(currentInput[q])'
    BY <1>1, <2>1 DEF InRing
  <2> QED
    BY <1>1, <2>1, <2>2 DEF IndInv, ClaimInv
<1>3. RoomInv'
  BY <1>1 DEF IndInv, RoomInv, advance
<1>4. ConsumerInv'
  BY <1>1 DEF IndInv, ConsumerInv, InRing, Writing
<1>5. PaddingInv'
  BY <1>1 DEF IndInv, PaddingInv, Clean, PaddingClean, InRing, Writing
<1> QED
  BY <1>2, <1>3, <1>4, <1>5 DEF IndInv

\* A claim: the slot was outside the ring, hence clean, unpublished and not
\* claimed by another producer. RoomInv is what makes this so, and NoLap
\* what keeps RoomInv.
LEMMA ClaimStep ==
    ASSUME IndInv, TypeOK', NEW p \in Producers, UnlappedClaim(p)
    PROVE  IndInv'
<1> USE DEF TypeOK
<1>1. /\ UNCHANGED <<output, is_committed, trace, info, frame_buffer_, popPc, currentInput>>
      /\ input = currentInput[p] /\ input' = advance(input)
      /\ pc[p] = "cas" /\ pc' = [pc EXCEPT ![p] = "write"]
      /\ input \in Slots /\ output \in Slots
  BY DEF IndInv, UnlappedClaim, PushClaim, Goto, holders, consumerVars
<1>2. output # advance(input)
  BY <1>1 DEF IndInv, RoomInv
<1>3. /\ \A s \in Slots : InRing(s)' <=> InRing(s) \/ s = input
      /\ ~InRing(input)
  BY <1>1, <1>2, ClaimGrowsRing
<1>4. ~is_committed[input] /\ Clean(input)
  BY <1>1, <1>3 DEF IndInv, ConsumerInv, PaddingInv
<1>5. \A q \in Producers : Writing(q) => currentInput[q] # input
  BY <1>3 DEF IndInv, ClaimInv
<1>6. ClaimInv'
  BY <1>1, <1>3, <1>4, <1>5 DEF IndInv, ClaimInv, Writing
<1>7. RoomInv'
  BY <1>1 DEF IndInv, RoomInv, UnlappedClaim, NoLap, Choosing
<1>8. ConsumerInv'
  <2>1. popPc # "idle" => InRing(output)
    BY <1>1, SizeAssumption DEF IndInv, ConsumerInv, InRing, Slots, Capacity
  <2> QED
    BY <1>1, <1>2, <1>3, <1>5, <2>1 DEF IndInv, ConsumerInv, Writing
<1>9. PaddingInv'
  BY <1>1, <1>3, <1>4 DEF IndInv, PaddingInv, Clean, PaddingClean
<1> QED
  BY <1>6, <1>7, <1>8, <1>9 DEF IndInv

\* The stores of push into its own slot: the slot is unpublished and no
\* other producer's, so the others keep what they are promised.
LEMMA FillStep ==
    ASSUME IndInv, TypeOK', NEW p \in Producers, write(p) \/ PushInfo(p)
    PROVE  IndInv'
<1> USE DEF TypeOK
<1> DEFINE slot == currentInput[p]
<1>1. /\ UNCHANGED <<input, output, is_committed, popPc, currentInput>>
      /\ Writing(p) /\ Writing(p)' /\ pc'[p] \in {"info", "commit"}
      /\ \A q \in Producers \ {p} : pc'[q] = pc[q]
      /\ \A s \in Slots \ {slot} :
            trace'[s] = trace[s] /\ info'[s] = info[s] /\ frame_buffer_'[s] = frame_buffer_[s]
      /\ slot \in Slots
  BY DEF IndInv, write, PushInfo, Goto, consumerVars, Writing
<1>2. InRing(slot) /\ ~is_committed[slot]
  BY <1>1 DEF IndInv, ClaimInv
<1>3. \A s \in Slots : InRing(s)' <=> InRing(s)
  BY <1>1 DEF InRing
<1>4. \A s \in Slots \ {slot} : (Clean(s)' <=> Clean(s)) /\ (PaddingClean(s)' <=> PaddingClean(s))
  BY <1>1 DEF Clean, PaddingClean
<1>5. ClaimInv' /\ RoomInv'
  BY <1>1, <1>3 DEF IndInv, ClaimInv, RoomInv, Writing, advance
<1>6. ConsumerInv'
  BY <1>1, <1>3 DEF IndInv, ConsumerInv, Writing
<1>7. PaddingClean(slot)'
  <2>1. CASE write(p)
    <3>1. frame_buffer_[slot] = Cleared
      BY <2>1 DEF IndInv, PaddingInv, Clean, write, Goto
    <3>2. arg[p].trace \in TraceType
      BY <2>1, SampleAssumption DEF IndInv, write, Goto
    <3>3. /\ frame_buffer_'[slot] = Copied(Cleared, arg[p].trace)
          /\ trace'[slot].num_frames = arg[p].trace.num_frames
      BY <1>1, <2>1, <3>1 DEF IndInv, write
    <3> QED
      BY <3>2, <3>3, <1>1, FrameAssumption
         DEF PaddingClean, Copied, Cleared, TraceType, NumFrames, FrameIndex
  <2>2. CASE PushInfo(p)
    BY <2>2 DEF IndInv, PaddingInv, PaddingClean, PushInfo, Goto
  <2> QED
    BY <2>1, <2>2
<1>8. popPc \in {"uncommit", "advance"} => slot # output
  BY <1>1, <1>2 DEF IndInv, ConsumerInv
<1>9. PaddingInv'
  <2>1. \A s \in Slots : ~InRing(s)' => Clean(s)'
    BY <1>2, <1>3, <1>4 DEF IndInv, PaddingInv
  <2>2. \A s \in Slots : is_committed'[s] => PaddingClean(s)'
    BY <1>1, <1>2, <1>4 DEF IndInv, PaddingInv
  <2>3. \A q \in Producers \ {p} : Writing(q) => currentInput[q] # slot
    BY <1>1 DEF IndInv, ClaimInv
  <2>4. \A q \in Producers :
           /\ pc'[q] = "write" => Clean(currentInput[q])'
           /\ pc'[q] \in {"info", "commit"} => PaddingClean(currentInput[q])'
    BY <1>1, <1>4, <1>7, <2>3 DEF IndInv, PaddingInv, Writing, Clean, PaddingClean
  <2>5. popPc' \in {"uncommit", "advance"} => Clean(output)'
    BY <1>1, <1>4, <1>8 DEF IndInv, PaddingInv, Clean
  <2> QED
    BY <2>1, <2>2, <2>4, <2>5, <1>1 DEF PaddingInv, Clean, PaddingClean
<1> QED
  BY <1>5, <1>6, <1>9 DEF IndInv

\* The commit hands the slot over to the consumer.
LEMMA CommitStep ==
    ASSUME IndInv, TypeOK', NEW p \in Producers, PushCommit(p)
    PROVE  IndInv'
<1> USE DEF TypeOK
<1> DEFINE slot == currentInput[p]
<1>1. /\ UNCHANGED <<input, output, trace, info, frame_buffer_, popPc>>
      /\ pc[p] = "commit" /\ pc'[p] = "idle"
      /\ \A q \in Producers \ {p} : pc'[q] = pc[q] /\ currentInput'[q] = currentInput[q]
      /\ is_committed' = [is_committed EXCEPT ![slot] = TRUE]
      /\ slot \in Slots
  BY DEF IndInv, PushCommit, Return, Goto, consumerVars
<1>2. InRing(slot) /\ ~is_committed[slot] /\ PaddingClean(slot)
  BY <1>1 DEF IndInv, ClaimInv, PaddingInv, Writing
<1>3. \A q \in Producers \ {p} : Writing(q) => currentInput[q] # slot
  BY <1>1 DEF IndInv, ClaimInv, Writing
<1>8. \A s \in Slots : /\ InRing(s)' <=> InRing(s)
                       /\ Clean(s)' <=> Clean(s)
                       /\ PaddingClean(s)' <=> PaddingClean(s)
  BY <1>1 DEF InRing, Clean, PaddingClean
<1>9. \A s \in Slots \ {slot} : is_committed'[s] = is_committed[s]
  BY <1>1 DEF IndInv
<1>4. ClaimInv' /\ RoomInv'
  <2>1. \A q \in Producers : Writing(q)' => q # p /\ Writing(q) /\ currentInput'[q] = currentInput[q]
    BY <1>1 DEF Writing
  <2>2. \A q \in Producers : Writing(q)' =>
           InRing(currentInput[q])' /\ ~is_committed'[currentInput'[q]]
    BY <2>1, <1>3, <1>8, <1>9 DEF IndInv, ClaimInv
  <2>3. ClaimInv'
    BY <2>1, <2>2 DEF IndInv, ClaimInv
  <2>4. RoomInv'
    BY <1>1 DEF IndInv, RoomInv, advance
  <2> QED
    BY <2>3, <2>4
<1>5. popPc = "advance" => slot # output
  BY <1>1 DEF IndInv, ConsumerInv, Writing
<1>6. ConsumerInv'
  BY <1>1, <1>2, <1>5 DEF IndInv, ConsumerInv, Writing, InRing
<1>7. PaddingInv'
  <2>1. \A s \in Slots : is_committed'[s] => PaddingClean(s)'
    BY <1>2, <1>8, <1>9 DEF IndInv, PaddingInv
  <2>2. \A q \in Producers :
           /\ pc'[q] = "write" => Clean(currentInput[q])'
           /\ pc'[q] \in {"info", "commit"} => PaddingClean(currentInput[q])'
    BY <1>1, <1>8 DEF IndInv, PaddingInv, Clean, PaddingClean
  <2> QED
    BY <1>1, <1>8, <2>1, <2>2 DEF IndInv, PaddingInv, Clean, PaddingClean
<1> QED
  BY <1>4, <1>6, <1>7 DEF IndInv

\* pop, step by step: it reads a published slot, cleans it, and gives it up
\* only when no producer can hold it.
LEMMA PopStep ==
    ASSUME IndInv, TypeOK', Pop
    PROVE  IndInv'
<1> USE DEF TypeOK
<1>1. UNCHANGED <<input, pc, currentInput>>
  BY DEF Pop, PopEmpty, PopBegin, PopRecord, PopClear, PopUncommit, PopAdvance, producerVars
<1>2. CASE PopEmpty \/ PopBegin \/ PopRecord
  <2>1. /\ UNCHANGED <<output, is_committed, trace, info, frame_buffer_>>
        /\ popPc' \in {"idle", "wait", "clear"}
        /\ popPc' # "idle" => input # output
        /\ popPc' = "clear" => is_committed[output]
    BY <1>2 DEF PopEmpty, PopBegin, PopRecord, PopGoto, holders, IndInv, ConsumerInv
  <2> QED
    BY <1>1, <2>1 DEF IndInv, ClaimInv, RoomInv, ConsumerInv, PaddingInv, Clean, PaddingClean,
                      InRing, Writing, advance
<1>3. CASE PopClear
  <2>1. /\ UNCHANGED <<output, is_committed, trace>>
        /\ popPc = "clear" /\ popPc' = "uncommit"
        /\ \A s \in Slots \ {output} : info'[s] = info[s] /\ frame_buffer_'[s] = frame_buffer_[s]
        /\ output \in Slots
    BY <1>3 DEF PopClear, PopGoto, IndInv
  <2>2. is_committed[output] /\ PaddingClean(output) /\ InRing(output)
    BY <2>1 DEF IndInv, ConsumerInv, PaddingInv
  <2>3. Clean(output)'
    <3>1. \A i \in FrameIndex : frame_buffer_'[output][i] = NoFrame
      BY <1>3, <2>1, <2>2 DEF PopClear, IndInv, PaddingClean, FrameBuffer, FrameIndex, NumFrames
    <3>2. frame_buffer_'[output] \in FrameBuffer
      BY <2>1 DEF IndInv
    <3> QED
      BY <1>3, <2>1, <3>1, <3>2 DEF Clean, Cleared, FrameBuffer, PopClear, IndInv
  <2>4. PaddingClean(output)'
    BY <2>1, <2>3 DEF Clean, PaddingClean, Cleared
  <2>5. ClaimInv' /\ RoomInv' /\ ConsumerInv'
    BY <1>1, <2>1, <2>2 DEF IndInv, ClaimInv, RoomInv, ConsumerInv, InRing, Writing, advance
  <2>6. \A q \in Producers : Writing(q) => currentInput[q] # output
    BY <2>2 DEF IndInv, ClaimInv
  <2>7. PaddingInv'
    BY <1>1, <2>1, <2>2, <2>3, <2>4, <2>6 DEF IndInv, PaddingInv, Clean, PaddingClean, InRing, Writing
  <2> QED
    BY <2>5, <2>7 DEF IndInv
<1>4. CASE PopUncommit
  <2>1. /\ UNCHANGED <<output, trace, info, frame_buffer_>>
        /\ popPc = "uncommit" /\ popPc' = "advance"
        /\ is_committed' = [is_committed EXCEPT ![output] = FALSE]
        /\ output \in Slots
    BY <1>4 DEF PopUncommit, PopGoto, IndInv
  <2>2. \A q \in Producers : Writing(q) => currentInput[q] # output
    BY <2>1 DEF IndInv, ConsumerInv, ClaimInv
  <2> QED
    BY <1>1, <2>1, <2>2 DEF IndInv, ClaimInv, RoomInv, ConsumerInv, PaddingInv, Clean, PaddingClean,
                            InRing, Writing, advance
<1>5. CASE PopAdvance
  <2>1. /\ UNCHANGED <<is_committed, trace, info, frame_buffer_>>
        /\ popPc = "advance" /\ popPc' = "idle"
        /\ input \in Slots /\ output \in Slots
        /\ output' = advance(output) /\ output # input
    BY <1>5 DEF PopAdvance, PopGoto, holders, IndInv, ConsumerInv
  <2>2. \A s \in Slots : InRing(s)' <=> InRing(s) /\ s # output
    BY <1>1, <2>1, PopShrinksRing
  <2>3. /\ ~is_committed[output]
        /\ \A q \in Producers : Writing(q) => currentInput[q] # output
        /\ Clean(output)
    BY <2>1 DEF IndInv, ConsumerInv, PaddingInv
  <2>4. ClaimInv' /\ ConsumerInv'
    BY <1>1, <2>1, <2>2, <2>3 DEF IndInv, ClaimInv, ConsumerInv, Writing
  <2>5. RoomInv'
    BY <1>1, <2>1, AdvanceInjective DEF IndInv, RoomInv
  <2>6. PaddingInv'
    BY <1>1, <2>1, <2>2, <2>3 DEF IndInv, PaddingInv, Clean, PaddingClean
  <2> QED
    BY <2>4, <2>5, <2>6 DEF IndInv
<1> QED
  BY <1>2, <1>3, <1>4, <1>5 DEF Pop

\* Every step of push and pop keeps the inductive invariant.
LEMMA NextIndInv == IndInv /\ [Next]_vars => IndInv'
<1> SUFFICES ASSUME IndInv, [Next]_vars PROVE IndInv'
  OBVIOUS
<1>1. TypeOK'
  BY NextTypeOK DEF IndInv
<1>2. ASSUME NEW p \in Producers, PushStep(p) PROVE IndInv'
  BY <1>1, <1>2, ChoosingStep, FillStep, CommitStep DEF PushStep
<1>3. ASSUME NEW p \in Producers, UnlappedClaim(p) PROVE IndInv'
  BY <1>1, <1>3, ClaimStep
<1>4. CASE Pop
  BY <1>1, <1>4, PopStep
<1>5. CASE UNCHANGED vars
  BY <1>1, <1>5 DEF vars, IndInv, TypeOK, ClaimInv, RoomInv, ConsumerInv, PaddingInv, Clean,
                    PaddingClean, InRing, Writing, advance
<1> QED
  BY <1>2, <1>3, <1>4, <1>5 DEF Next

\* The inductive invariant holds in every reachable state of the queue.
THEOREM Invariance == Spec => []IndInv
<1>1. Init => IndInv
  BY InitIndInv
<1>2. IndInv /\ [Next]_vars => IndInv'
  BY NextIndInv
<1> QED
  BY <1>1, <1>2, PTL DEF Spec

-----------------------------------------------------------------------------
(* What follows from it *)

\* No slot is ever in two hands: of two handlers, or of a handler and the
\* consumer that reads, clears or frees it.
THEOREM Exclusion == Spec => []SlotExclusive
<1>1. IndInv => SlotExclusive
  BY DEF IndInv, TypeOK, ClaimInv, ConsumerInv, SlotExclusive, Owns, Writing
<1> QED
  BY <1>1, Invariance, PTL

\* When pop finds input = output the queue really is empty: no published and
\* no claimed sample can be passed over or overwritten.
THEOREM EmptyIsEmpty == Spec => []CantReadMeansEmpty
<1>1. IndInv => CantReadMeansEmpty
  <2> SUFFICES ASSUME IndInv, input = output, NEW s \in Slots
               PROVE  ~is_committed[s] /\ \A p \in Producers : ~Owns(p, s)
    BY DEF CantReadMeansEmpty
  <2>1. ~InRing(s)
    BY DEF IndInv, TypeOK, InRing, Slots
  <2> QED
    BY <2>1 DEF IndInv, ClaimInv, ConsumerInv, Owns, Writing
<1> QED
  BY <1>1, Invariance, PTL

\* A handler that starts to write a slot finds zeroed frames, as the comment
\* in write relies on.
THEOREM Padding == Spec => []FreeSlotsClean
<1>1. IndInv => FreeSlotsClean
  BY DEF IndInv, PaddingInv, FreeSlotsClean, Owns
<1> QED
  BY <1>1, Invariance, PTL

\* Samples that were published are not touched before they are recorded.
THEOREM NoOverwrite == Spec => UnreadKept
<1>1. IndInv /\ [Next]_vars => [KeepsUnread]_vars
  <2> SUFFICES ASSUME IndInv, Next, NEW s \in Slots, is_committed[s],
                      ~(s = output /\ popPc \in {"clear", "uncommit"})
               PROVE  is_committed'[s] /\ Contents(s)' = Contents(s)
    BY DEF KeepsUnread
  <2> USE DEF IndInv, TypeOK
  <2>1. ASSUME NEW p \in Producers, PushStep(p) \/ UnlappedClaim(p)
        PROVE  /\ is_committed'[s] /\ trace'[s] = trace[s] /\ info'[s] = info[s]
               /\ frame_buffer_'[s] = frame_buffer_[s]
    <3>1. Writing(p) => currentInput[p] # s
      BY DEF ClaimInv
    <3>2. CASE PushCall(p) \/ PushFull(p) \/ PushRoom(p) \/ PushRetry(p) \/ UnlappedClaim(p)
      BY <3>2 DEF PushCall, PushFull, PushRoom, PushRetry, UnlappedClaim, PushClaim, holders
    <3>3. CASE write(p) \/ PushInfo(p) \/ PushCommit(p)
      BY <3>1, <3>3 DEF write, PushInfo, PushCommit, Return, Goto, Writing
    <3> QED
      BY <2>1, <3>2, <3>3 DEF PushStep
  <2>2. CASE Pop
    <3>1. CASE PopEmpty \/ PopBegin \/ PopRecord \/ PopAdvance
      BY <3>1 DEF PopEmpty, PopBegin, PopRecord, PopAdvance, holders, Contents, Seen
    <3>2. CASE PopClear \/ PopUncommit
      <4>1. /\ is_committed'[s] /\ trace'[s] = trace[s] /\ info'[s] = info[s]
            /\ frame_buffer_'[s] = frame_buffer_[s]
        BY <3>2 DEF PopClear, PopUncommit, PopGoto
      <4> QED
        BY <4>1 DEF Contents, Seen
    <3> QED
      BY <2>2, <3>1, <3>2 DEF Pop
  <2>3. ASSUME NEW p \in Producers, PushStep(p) \/ UnlappedClaim(p)
        PROVE  is_committed'[s] /\ Contents(s)' = Contents(s)
    BY <2>1, <2>3 DEF Contents, Seen
  <2> QED
    BY <2>2, <2>3 DEF Next
<1> QED
  BY <1>1, Invariance, PTL DEF Spec, UnreadKept

-----------------------------------------------------------------------------
(* The refinement of SampleQueue *)

Recordable == {Shown(s) : s \in Samples}

\* A push that has written its slot finds there what it was called with.
Filled(p) ==
    LET c == currentInput[p]
        item == arg[p].trace
    IN  /\ pc[p] \in {"info", "commit"} =>
               /\ trace[c].env_id = item.env_id /\ trace[c].num_frames = item.num_frames
               /\ Seen(frame_buffer_[c], item.num_frames) = Seen(item.frames, item.num_frames)
        /\ pc[p] = "commit" => info[c] = arg[p].info

\* The listener has been given a sample until its slot is freed, and what is
\* published was pushed.
RecordInv ==
    /\ recorded # NoSample <=> popPc \in {"clear", "uncommit", "advance"}
    /\ \A s \in Slots : is_committed[s] /\ ~(s = output /\ popPc = "uncommit") => Contents(s) \in Recordable

SampleInv == (\A p \in Producers : Filled(p)) /\ RecordInv

\* A function from 1..n is a sequence of length n.
LEMMA FunctionIsSeq ==
    ASSUME NEW n \in Nat, NEW S, NEW g \in [1..n -> S]
    PROVE  g \in Seq(S) /\ Len(g) = n
OBVIOUS

\* One element more at the end is Append.
LEMMA LongerIsAppend ==
    ASSUME NEW n \in Nat, NEW S, NEW g \in [1..n -> S], NEW h \in [1..(n + 1) -> S],
           \A k \in 1..n : h[k] = g[k]
    PROVE  Len(g) = n /\ h = Append(g, h[n + 1])
<1>1. g \in Seq(S) /\ Len(g) = n /\ h \in Seq(S) /\ Len(h) = n + 1
  BY FunctionIsSeq
<1>2. h[n + 1] \in S
  OBVIOUS
<1>3. /\ Append(g, h[n + 1]) \in Seq(S) /\ Len(Append(g, h[n + 1])) = n + 1
      /\ \A k \in 1..n : Append(g, h[n + 1])[k] = g[k]
      /\ Append(g, h[n + 1])[n + 1] = h[n + 1]
  BY <1>1, <1>2, AppendProperties
<1>4. \A k \in 1..Len(h) : h[k] = Append(g, h[n + 1])[k]
  BY <1>1, <1>3
<1> QED
  BY <1>1, <1>3, <1>4, SeqEqual

\* One element less at the front is Tail.
LEMMA ShorterIsTail ==
    ASSUME NEW n \in Nat \ {0}, NEW S, NEW g \in [1..n -> S], NEW h \in [1..(n - 1) -> S],
           \A k \in 1..(n - 1) : h[k] = g[k + 1]
    PROVE  g # << >> /\ Head(g) = g[1] /\ h = Tail(g)
<1>1. g \in Seq(S) /\ Len(g) = n /\ h \in Seq(S) /\ Len(h) = n - 1
  BY FunctionIsSeq
<1>2. g # << >> /\ Head(g) = g[1]
  BY <1>1
<1>3. Tail(g) \in Seq(S) /\ Len(Tail(g)) = n - 1 /\ \A k \in 1..(n - 1) : Tail(g)[k] = g[k + 1]
  BY <1>1, <1>2, HeadTailProperties
<1> QED
  BY <1>1, <1>2, <1>3, SeqEqual

\* The modulo in a range of two laps.
LEMMA ModOnce ==
    \A n \in Nat : /\ n < Capacity => n % Capacity = n
                   /\ Capacity <= n /\ n < 2 * Capacity => n % Capacity = n - Capacity
<1>1. Capacity \in Nat \ {0}
  BY SizeAssumption DEF Capacity
<1>2. \A m \in Nat \ {0}, n \in Nat : n < m => n % m = n
  OBVIOUS
<1>3. \A m \in Nat \ {0}, n \in Nat : m <= n /\ n < 2 * m => n % m = n - m
  OBVIOUS
<1> QED
  BY <1>1, <1>2, <1>3

Held == (input + Capacity - output) % Capacity
SlotOf(k) == (output + k - 1) % Capacity

\* The samples that are held are those of the ring, from output on.
InOrder ==
    /\ Held = IF output <= input THEN input - output ELSE input + Capacity - output
    /\ Held \in 0..Size
    /\ \A k \in 1..(Held + 1) : /\ SlotOf(k) \in Slots
                                /\ SlotOf(k) = IF output + k - 1 < Capacity THEN output + k - 1
                                                                            ELSE output + k - 1 - Capacity

\* There are at most Size samples, and their slots follow each other.
LEMMA RingOrder == IndInv => InOrder
<1> SUFFICES ASSUME input \in Slots, output \in Slots PROVE InOrder
  BY DEF IndInv, TypeOK
<1>0. Capacity \in Nat
  BY SizeAssumption DEF Capacity
<1>1. Capacity = Size + 1 /\ Size \in Nat /\ Slots = 0..Size
  BY SizeAssumption DEF Capacity, Slots
<1>2. Held = IF output <= input THEN input - output ELSE input + Capacity - output
  <2>1. input + Capacity - output \in Nat /\ input + Capacity - output < 2 * Capacity
    BY <1>1
  <2>2. PICK n \in Nat : n = input + Capacity - output
    BY <2>1
  <2>3. n < 2 * Capacity
    BY <2>1, <2>2
  <2>4. n % Capacity = IF n < Capacity THEN n ELSE n - Capacity
    BY <1>0, <2>3, ModOnce
  <2> QED
    BY <1>1, <2>2, <2>4 DEF Held
<1>3. Held \in 0..Size
  BY <1>1, <1>2
<1>4. \A k \in 1..(Held + 1) : SlotOf(k) = IF output + k - 1 < Capacity THEN output + k - 1
                                                            ELSE output + k - 1 - Capacity
  <2> SUFFICES ASSUME NEW k \in 1..(Held + 1)
               PROVE  SlotOf(k) = IF output + k - 1 < Capacity THEN output + k - 1
                                                               ELSE output + k - 1 - Capacity
    OBVIOUS
  <2>1. output + k - 1 \in Nat /\ output + k - 1 < 2 * Capacity
    BY <1>1, <1>3
  <2>2. PICK n \in Nat : n = output + k - 1
    BY <2>1
  <2>3. n < 2 * Capacity
    BY <2>1, <2>2
  <2>4. n % Capacity = IF n < Capacity THEN n ELSE n - Capacity
    BY <1>0, <2>3, ModOnce
  <2> QED
    BY <1>1, <2>2, <2>4 DEF SlotOf
<1> QED
  BY <1>1, <1>2, <1>3, <1>4 DEF InOrder

\* The same in the next state.
LEMMA RingOrderNext == IndInv' => InOrder'
BY RingOrder, PTL

\* The invariant of the samples holds in an empty queue ...
LEMMA InitSamples == Init => SampleInv
  BY DEF Init, SampleInv, Filled, RecordInv

\* ... and push and pop keep it.
LEMMA NextSamples == IndInv /\ SampleInv /\ [Next]_vars => SampleInv'
<1> SUFFICES ASSUME IndInv, SampleInv, [Next]_vars PROVE SampleInv'
  OBVIOUS
<1> USE DEF IndInv, TypeOK
<1>1. ASSUME NEW s \in Slots, trace'[s] = trace[s], info'[s] = info[s], frame_buffer_'[s] = frame_buffer_[s]
      PROVE  Contents(s)' = Contents(s)
  BY <1>1 DEF Contents, Seen
<1>2. ASSUME NEW p \in Producers, PushCall(p) \/ PushFull(p) \/ PushRoom(p) \/ PushRetry(p) \/ UnlappedClaim(p)
      PROVE  SampleInv'
  <2>1. /\ UNCHANGED <<output, is_committed, trace, info, frame_buffer_, popPc, recorded>>
        /\ pc'[p] \notin {"info", "commit"}
        /\ \A q \in Producers \ {p} : pc'[q] = pc[q] /\ currentInput'[q] = currentInput[q] /\ arg'[q] = arg[q]
    BY <1>2 DEF PushCall, PushFull, PushRoom, PushRetry, UnlappedClaim, PushClaim, Return, Goto, holders, consumerVars
  <2>2. \A q \in Producers : Filled(q)'
    BY <2>1 DEF SampleInv, Filled, Seen
  <2>3. RecordInv'
    BY <1>1, <2>1 DEF SampleInv, RecordInv
  <2> QED
    BY <2>2, <2>3 DEF SampleInv
<1>3. ASSUME NEW p \in Producers, write(p) \/ PushInfo(p) PROVE SampleInv'
  <2> DEFINE c == currentInput[p]
  <2>1. /\ UNCHANGED <<output, is_committed, popPc, recorded, currentInput, arg>> /\ c \in Slots
        /\ Writing(p) /\ \A q \in Producers \ {p} : pc'[q] = pc[q]
        /\ \A s \in Slots \ {c} : trace'[s] = trace[s] /\ info'[s] = info[s] /\ frame_buffer_'[s] = frame_buffer_[s]
    BY <1>3 DEF write, PushInfo, Goto, consumerVars, Writing
  <2>2. \A q \in Producers : q # p /\ Writing(q) => currentInput[q] # c
    BY <2>1 DEF ClaimInv
  <2>3. ~is_committed[c]
    BY <2>1 DEF ClaimInv
  <2>4. RecordInv'
    BY <1>1, <2>1, <2>3 DEF SampleInv, RecordInv
  <2>5. ASSUME NEW q \in Producers, q # p PROVE Filled(q)'
    BY <2>1, <2>2, <2>5 DEF SampleInv, Filled, Writing
  <2>6. Filled(p)'
    <3>1. CASE write(p)
      <4>1. arg[p].trace \in TraceType
        BY <3>1, SampleAssumption DEF write, Goto
      <4>2. /\ pc'[p] = "info" /\ frame_buffer_'[c] = Copied(frame_buffer_[c], arg[p].trace)
            /\ trace'[c].env_id = arg[p].trace.env_id /\ trace'[c].num_frames = arg[p].trace.num_frames
        BY <2>1, <3>1 DEF write, Goto
      <4>3. Seen(frame_buffer_'[c], arg[p].trace.num_frames) = Seen(arg[p].trace.frames, arg[p].trace.num_frames)
        BY <4>1, <4>2 DEF Seen, Copied
      <4> QED
        BY <2>1, <4>2, <4>3 DEF Filled
    <3>2. CASE PushInfo(p)
      BY <2>1, <3>2 DEF PushInfo, Goto, SampleInv, Filled
    <3> QED
      BY <1>3, <3>1, <3>2
  <2> QED
    BY <2>4, <2>5, <2>6 DEF SampleInv
<1>4. ASSUME NEW p \in Producers, PushCommit(p) PROVE SampleInv'
  <2> DEFINE c == currentInput[p]
  <2>1. /\ UNCHANGED <<output, trace, info, frame_buffer_, popPc, recorded>> /\ c \in Slots
        /\ pc[p] = "commit" /\ pc'[p] = "idle"
        /\ \A q \in Producers \ {p} : pc'[q] = pc[q] /\ currentInput'[q] = currentInput[q] /\ arg'[q] = arg[q]
        /\ \A s \in Slots \ {c} : is_committed'[s] = is_committed[s]
    BY <1>4 DEF PushCommit, Return, Goto, consumerVars
  <2>2. Contents(c) \in Recordable
    <3>1. arg[p] \in Samples
      BY <2>1
    <3>2. Contents(c) = Shown(arg[p])
      BY <2>1 DEF SampleInv, Filled, Contents, Shown
    <3> QED
      BY <3>1, <3>2 DEF Recordable
  <2>3. RecordInv'
    BY <1>1, <2>1, <2>2 DEF SampleInv, RecordInv
  <2>4. \A q \in Producers : Filled(q)'
    BY <2>1 DEF SampleInv, Filled
  <2> QED
    BY <2>3, <2>4 DEF SampleInv
<1>5. CASE Pop
  <2>1. UNCHANGED <<pc, arg, currentInput, trace>>
    BY <1>5 DEF Pop, PopEmpty, PopBegin, PopRecord, PopClear, PopUncommit, PopAdvance, producerVars, holders
  <2>2. CASE PopEmpty \/ PopBegin \/ PopRecord \/ PopAdvance
    <3>1. UNCHANGED <<is_committed, info, frame_buffer_>>
      BY <2>2 DEF PopEmpty, PopBegin, PopRecord, PopAdvance, holders
    <3>2. \A q \in Producers : Filled(q)'
      BY <2>1, <3>1 DEF SampleInv, Filled
    <3>3. PopRecord => Contents(output) # NoSample
      BY ShownAssumption DEF PopRecord, PopGoto, SampleInv, RecordInv, Recordable
    <3>4. recorded' # NoSample <=> popPc' \in {"clear", "uncommit", "advance"}
      BY <2>2, <3>3 DEF PopEmpty, PopBegin, PopRecord, PopAdvance, PopGoto, SampleInv, RecordInv
    <3>5. \A s \in Slots : is_committed[s] /\ ~(s = output /\ popPc = "uncommit") => Contents(s)' \in Recordable
      BY <1>1, <2>1, <3>1 DEF SampleInv, RecordInv
    <3>6. popPc # "uncommit"
      BY <2>2 DEF PopEmpty, PopBegin, PopRecord, PopAdvance, PopGoto
    <3> QED
      BY <3>1, <3>2, <3>4, <3>5, <3>6 DEF SampleInv, RecordInv, Recordable
  <2>3. CASE PopClear \/ PopUncommit
    <3>1. /\ UNCHANGED <<output, recorded>> /\ output \in Slots
          /\ popPc \in {"clear", "uncommit"} /\ popPc' \in {"uncommit", "advance"}
          /\ popPc' = "advance" => ~is_committed'[output]
          /\ \A s \in Slots \ {output} : /\ is_committed'[s] = is_committed[s] /\ info'[s] = info[s]
                                         /\ frame_buffer_'[s] = frame_buffer_[s]
      BY <2>3 DEF PopClear, PopUncommit, PopGoto
    <3>2. \A q \in Producers : Writing(q) => currentInput[q] # output
      BY <3>1 DEF ClaimInv, ConsumerInv
    <3>3. \A q \in Producers : Filled(q)'
      BY <2>1, <3>1, <3>2 DEF SampleInv, Filled, Writing
    <3>4. RecordInv'
      BY <1>1, <2>1, <3>1 DEF SampleInv, RecordInv
    <3> QED
      BY <3>3, <3>4 DEF SampleInv
  <2> QED
    BY <1>5, <2>2, <2>3 DEF Pop
<1>6. CASE UNCHANGED vars
  BY <1>1, <1>6 DEF vars, SampleInv, Filled, RecordInv
<1> QED
  BY <1>2, <1>3, <1>4, <1>5, <1>6 DEF Next, PushStep

\* What a slot stands for: the recorded sample, the argument of the push that
\* has claimed it, or its contents.
Stands ==
    \A s \in Slots :
        /\ s = output /\ recorded # NoSample => SampleIn(s) = recorded
        /\ ~(s = output /\ recorded # NoSample) =>
               /\ \A p \in Producers : Owns(p, s) => SampleIn(s) = Shown(arg[p])
               /\ (\A p \in Producers : ~Owns(p, s)) => SampleIn(s) = Contents(s)

\* A slot has at most one owner.
LEMMA SlotStands == IndInv => Stands
<1> SUFFICES ASSUME IndInv, NEW s \in Slots, ~(s = output /\ recorded # NoSample), NEW p \in Producers, Owns(p, s)
             PROVE  SampleIn(s) = Shown(arg[p])
  BY DEF Stands, SampleIn
<1>1. \A q \in Producers : Owns(q, s) => q = p
  BY DEF IndInv, ClaimInv, Owns, Writing
<1>2. (CHOOSE q \in Producers : Owns(q, s)) = p
  BY <1>1
<1> QED
  BY <1>2 DEF SampleIn

\* The same in the next state.
LEMMA SlotStandsNext == IndInv' => Stands'
BY SlotStands, PTL

\* A slot keeps its sample when its contents and its owner stay.
LEMMA SampleKept ==
    ASSUME Stands, Stands', NEW s \in Slots, Contents(s)' = Contents(s),
           \/ output' = output /\ recorded' = recorded
           \/ ~(s = output /\ recorded # NoSample) /\ ~(s = output' /\ recorded' # NoSample),
           \A q \in Producers : /\ Owns(q, s)' <=> Owns(q, s)
                                /\ Owns(q, s) => Shown(arg[q])' = Shown(arg[q])
    PROVE  SampleIn(s)' = SampleIn(s)
<1>1. CASE s = output /\ recorded # NoSample
  BY <1>1 DEF Stands
<1>2. CASE ~(s = output /\ recorded # NoSample) /\ \A q \in Producers : ~Owns(q, s)
  <2>1. SampleIn(s) = Contents(s)
    BY <1>2 DEF Stands
  <2>2. SampleIn(s)' = Contents(s)'
    BY <1>2 DEF Stands
  <2> QED
    BY <2>1, <2>2
<1>3. ASSUME ~(s = output /\ recorded # NoSample), NEW q \in Producers, Owns(q, s)
      PROVE  SampleIn(s)' = SampleIn(s)
  <2>1. SampleIn(s) = Shown(arg[q])
    BY <1>3 DEF Stands
  <2>2. SampleIn(s)' = Shown(arg[q])'
    BY <1>3 DEF Stands
  <2> QED
    BY <1>3, <2>1, <2>2
<1> QED
  BY <1>1, <1>2, <1>3

\* The sequence of samples changes only with the ring or a slot of it.
LEMMA HeldKept ==
    ASSUME IndInv, input' = input, output' = output, \A s \in Slots : SampleIn(s)' = SampleIn(s)
    PROVE  heldSamples' = heldSamples
<1>1. Held' = Held /\ \A k \in 1..Held : SlotOf(k)' = SlotOf(k) /\ SlotOf(k) \in Slots
  <2>1. Held \in Nat /\ \A k \in 1..(Held + 1) : SlotOf(k) \in Slots
    BY RingOrder DEF InOrder
  <2> QED
    BY <2>1 DEF Held, SlotOf
<1>2. \A k \in 1..Held : SampleIn(SlotOf(k))' = SampleIn(SlotOf(k))
  BY <1>1
<1> QED
  BY <1>1, <1>2 DEF heldSamples, Held, SlotOf

\* The steps of push other than the claim change nothing of what is held: until
\* the commit a slot stands for the argument of its push, and then it holds it.
LEMMA PushRefines ==
    ASSUME IndInv, IndInv', SampleInv, NEW p \in Producers, PushStep(p)
    PROVE  UNCHANGED <<heldSamples, recorded>>
<1> USE DEF IndInv, TypeOK
<1>1. UNCHANGED <<input, output, recorded>>
  BY DEF PushStep, PushCall, PushFull, PushRoom, PushRetry, write, PushInfo, PushCommit, consumerVars
<1>2. \A q \in Producers \ {p} : pc'[q] = pc[q] /\ currentInput'[q] = currentInput[q] /\ arg'[q] = arg[q]
  BY DEF PushStep, PushCall, PushFull, PushRoom, PushRetry, write, PushInfo, PushCommit, Return, Goto
<1>3. Stands /\ Stands'
  BY SlotStands, SlotStandsNext
<1>4. ASSUME NEW s \in Slots, Writing(p) => currentInput[p] # s PROVE SampleIn(s)' = SampleIn(s)
  <2>1. trace'[s] = trace[s] /\ info'[s] = info[s] /\ frame_buffer_'[s] = frame_buffer_[s]
    BY <1>4 DEF PushStep, PushCall, PushFull, PushRoom, PushRetry, write, PushInfo, PushCommit, Goto, Return,
                holders, Writing
  <2>2. Contents(s)' = Contents(s)
    BY <2>1 DEF Contents, Seen
  <2>3. ~Owns(p, s) /\ ~Owns(p, s)'
    BY <1>4 DEF Owns, Writing, PushStep, PushCall, PushFull, PushRoom, PushRetry, write, PushInfo, PushCommit,
                Goto, Return
  <2>4. \A q \in Producers : /\ Owns(q, s)' <=> Owns(q, s)
                             /\ Owns(q, s) => Shown(arg[q])' = Shown(arg[q])
    BY <1>2, <2>3 DEF Owns, Shown
  <2> QED
    BY <1>1, <1>3, <2>2, <2>4, SampleKept
<1>5. ASSUME NEW s \in Slots, Writing(p), currentInput[p] = s PROVE SampleIn(s)' = SampleIn(s)
  <2>1. Owns(p, s)
    BY <1>5 DEF Owns, Writing
  <2>2. CASE write(p) \/ PushInfo(p)
    <3>1. Owns(p, s)' /\ arg' = arg
      BY <1>5, <2>2 DEF Owns, write, PushInfo, Goto
    <3>2. Shown(arg[p])' = Shown(arg[p])
      BY <3>1 DEF Shown
    <3> QED
      BY <1>1, <1>3, <2>1, <3>1, <3>2 DEF Stands
  <2>3. CASE PushCommit(p)
    <3>1. pc[p] = "commit" /\ pc'[p] = "idle" /\ UNCHANGED <<trace, info, frame_buffer_>>
      BY <2>3 DEF PushCommit, Return, Goto
    <3>2. Contents(s)' = Shown(arg[p])
      BY <1>5, <3>1 DEF SampleInv, Filled, Contents, Shown
    <3>3. \A q \in Producers : ~Owns(q, s)'
      BY <1>2, <1>5, <3>1 DEF ClaimInv, Owns, Writing
    <3> QED
      BY <1>1, <1>3, <2>1, <3>2, <3>3 DEF Stands
  <2> QED
    BY <1>5, <2>2, <2>3 DEF PushStep, PushCall, PushFull, PushRoom, PushRetry, Goto, Return, Writing
<1>6. \A s \in Slots : SampleIn(s)' = SampleIn(s)
  BY <1>4, <1>5
<1> QED
  BY <1>1, <1>6, HeldKept

\* The claim of a slot is the moment when its sample is accepted.
LEMMA ClaimRefines ==
    ASSUME IndInv, IndInv', SampleInv, NEW p \in Producers, UnlappedClaim(p)
    PROVE  Abstract!Accept(Shown(arg[p])) /\ arg[p] \in Samples
<1> USE DEF IndInv, TypeOK
<1>1. /\ UNCHANGED <<output, trace, info, frame_buffer_, popPc, recorded, currentInput, arg>>
      /\ input = currentInput[p] /\ input' = advance(input)
      /\ pc[p] = "cas" /\ pc' = [pc EXCEPT ![p] = "write"]
      /\ input \in Slots /\ output \in Slots
  BY DEF UnlappedClaim, PushClaim, Goto, holders, consumerVars
<1>2. output # advance(input)
  BY <1>1 DEF RoomInv
<1>3. Stands /\ Stands'
  BY SlotStands, SlotStandsNext
<1>4. PICK i \in Slots : i = input
  BY <1>1
<1>5. SampleIn(i)' = Shown(arg[p])
  <2>1. Owns(p, i)' /\ Shown(arg[p])' = Shown(arg[p])
    BY <1>1, <1>4 DEF Owns, Shown
  <2>2. i = output => recorded = NoSample
    BY <1>4 DEF SampleInv, RecordInv, ConsumerInv
  <2> QED
    BY <1>1, <1>3, <2>1, <2>2 DEF Stands
<1>6. ASSUME NEW s \in Slots, s # i PROVE SampleIn(s)' = SampleIn(s)
  <2>1. Contents(s)' = Contents(s)
    BY <1>1 DEF Contents, Seen
  <2>2. \A q \in Producers : (Owns(q, s)' <=> Owns(q, s)) /\ Shown(arg[q])' = Shown(arg[q])
    BY <1>1, <1>4, <1>6 DEF Owns, Shown
  <2> QED
    BY <1>1, <1>3, <2>1, <2>2, SampleKept
<1>7. PICK n \in Nat : n = Held /\ n < Size /\ Held' = n + 1
  <2>1. /\ Held = IF output <= input THEN input - output ELSE input + Capacity - output
        /\ Held' = IF output <= input' THEN input' - output ELSE input' + Capacity - output
    BY <1>1, RingOrder, RingOrderNext DEF InOrder
  <2>2. Capacity = Size + 1 /\ Size \in Nat /\ Slots = 0..Size
    BY SizeAssumption DEF Capacity, Slots
  <2>3. input' = IF input = Capacity - 1 THEN 0 ELSE input + 1
    BY <1>1, AdvanceWraps
  <2>4. Held \in Nat /\ Held < Size /\ Held' = Held + 1
    <3>1. input \in 0..Size /\ output \in 0..Size /\ input' # output
      BY <1>1, <1>2, <2>2
    <3> QED
      BY <2>1, <2>2, <2>3, <3>1
  <2> QED
    BY <2>4
<1>8. /\ \A k \in 1..n : SlotOf(k) \in Slots /\ SlotOf(k) # i
      /\ SlotOf(n + 1) = i
  <2>1. Capacity = Size + 1 /\ Size \in Nat /\ Slots = 0..Size /\ output \in 0..Size /\ i \in 0..Size
    BY <1>1, SizeAssumption DEF Capacity, Slots
  <2>2. n = IF output <= i THEN i - output ELSE i + Capacity - output
    BY <1>4, <1>7, RingOrder DEF InOrder
  <2>3. \A k \in 1..(n + 1) : /\ SlotOf(k) \in Slots
                              /\ SlotOf(k) = IF output + k - 1 < Capacity THEN output + k - 1
                                                                          ELSE output + k - 1 - Capacity
    BY <1>7, RingOrder DEF InOrder
  <2>4. SlotOf(n + 1) = i
    BY <2>1, <2>2, <2>3
  <2>5. ASSUME NEW k \in 1..n PROVE SlotOf(k) \in Slots /\ SlotOf(k) # i
    <3>1. k \in 1..(n + 1) /\ k \in Int /\ 1 <= k /\ k <= n
      OBVIOUS
    <3>2. SlotOf(k) \in Slots /\ SlotOf(k) = IF output + k - 1 < Capacity THEN output + k - 1 ELSE output + k - 1 - Capacity
      BY <2>3, <3>1
    <3> QED
      BY <2>1, <2>2, <3>1, <3>2
  <2> QED
    BY <2>4, <2>5
<1>9. \A k \in 1..(n + 1) : SlotOf(k)' = SlotOf(k)
  BY <1>1 DEF SlotOf
<1>10. heldSamples = [k \in 1..n |-> SampleIn(SlotOf(k))]
  BY <1>7 DEF heldSamples, Held, SlotOf
<1>11. heldSamples' = [k \in 1..(n + 1) |-> SampleIn(SlotOf(k))']
  BY <1>7 DEF heldSamples, Held, SlotOf
<1>12. \A k \in 1..n : SampleIn(SlotOf(k))' = SampleIn(SlotOf(k))
  BY <1>6, <1>8, <1>9
<1>13. SampleIn(SlotOf(n + 1))' = Shown(arg[p])
  BY <1>5, <1>8, <1>9
<1> DEFINE g == heldSamples
           h == heldSamples'
           S == {h[k] : k \in 1..(n + 1)}
<1>14. g \in [1..n -> S] /\ h \in [1..(n + 1) -> S] /\ (\A k \in 1..n : h[k] = g[k]) /\ h[n + 1] = Shown(arg[p])
  BY <1>10, <1>11, <1>12, <1>13
<1> HIDE DEF g, h, S
<1>15. Len(g) = n /\ h = Append(g, Shown(arg[p]))
  BY <1>14, LongerIsAppend
<1> QED
  BY <1>1, <1>7, <1>15 DEF Abstract!Accept, g, h

\* pop: the listener is given the oldest sample, whose slot is freed at the end.
LEMMA PopRefines ==
    ASSUME IndInv, IndInv', SampleInv, SampleInv', Pop
    PROVE  Abstract!Record \/ Abstract!Release \/ UNCHANGED <<heldSamples, recorded>>
<1> USE DEF IndInv, TypeOK
<1>1. UNCHANGED <<input, pc, currentInput, arg, trace>> /\ input \in Slots /\ output \in Slots
  BY DEF Pop, PopEmpty, PopBegin, PopRecord, PopClear, PopUncommit, PopAdvance, producerVars, holders
<1>2. Stands /\ Stands'
  BY SlotStands, SlotStandsNext
<1>3. \A q \in Producers, s \in Slots : (Owns(q, s)' <=> Owns(q, s)) /\ Shown(arg[q])' = Shown(arg[q])
  BY <1>1 DEF Owns, Shown
<1>4. PICK o \in Slots : o = output
  BY <1>1
<1>5. ASSUME NEW s \in Slots, s # o, UNCHANGED <<info, frame_buffer_>> \/ PopClear, output' = output \/ recorded' = NoSample
      PROVE  SampleIn(s)' = SampleIn(s)
  <2>1. info'[s] = info[s] /\ frame_buffer_'[s] = frame_buffer_[s]
    BY <1>4, <1>5 DEF PopClear
  <2>2. Contents(s)' = Contents(s)
    BY <1>1, <2>1 DEF Contents, Seen
  <2>3. ~(s = output /\ recorded # NoSample) /\ ~(s = output' /\ recorded' # NoSample)
    BY <1>4, <1>5
  <2> QED
    BY <1>2, <1>3, <2>2, <2>3, SampleKept
<1>6. PICK n \in Nat : n = Held /\ (output # input => n # 0)
  BY <1>1, RingOrder, SizeAssumption DEF InOrder, Slots, Capacity
<1>7. heldSamples = [k \in 1..n |-> SampleIn(SlotOf(k))] /\ SlotOf(1) = o
  <2>1. SlotOf(1) = o
    BY <1>1, <1>4, <1>6, RingOrder, SizeAssumption DEF InOrder, Slots, Capacity
  <2> QED
    BY <1>6, <2>1 DEF heldSamples, Held, SlotOf
<1>8. n # 0 => heldSamples # << >> /\ Head(heldSamples) = SampleIn(o)
  <2> DEFINE g == heldSamples
             S == {g[k] : k \in 1..n}
             h == [k \in 1..(n - 1) |-> g[k + 1]]
  <2> SUFFICES ASSUME n # 0 PROVE g # << >> /\ Head(g) = SampleIn(o)
    OBVIOUS
  <2>1. g \in [1..n -> S] /\ h \in [1..(n - 1) -> S] /\ g[1] = SampleIn(o) /\ \A k \in 1..(n - 1) : h[k] = g[k + 1]
    BY <1>7
  <2> HIDE DEF g, S, h
  <2> QED
    BY <2>1, ShorterIsTail
<1>9. CASE PopEmpty \/ PopBegin
  <2>1. UNCHANGED <<output, info, frame_buffer_, recorded>>
    BY <1>9 DEF PopEmpty, PopBegin, holders
  <2>2. \A s \in Slots : SampleIn(s)' = SampleIn(s)
    <3>1. \A s \in Slots : Contents(s)' = Contents(s)
      BY <1>1, <2>1 DEF Contents, Seen
    <3> QED
      BY <1>2, <1>3, <2>1, <3>1, SampleKept
  <2> QED
    BY <1>1, <2>1, <2>2, HeldKept
<1>10. CASE PopClear \/ PopUncommit
  <2>1. UNCHANGED <<output, recorded>> /\ recorded # NoSample /\ (PopClear \/ UNCHANGED <<info, frame_buffer_>>)
    BY <1>10 DEF PopClear, PopUncommit, PopGoto, SampleInv, RecordInv
  <2>2. SampleIn(o)' = SampleIn(o)
    BY <1>2, <1>4, <2>1 DEF Stands
  <2>3. \A s \in Slots : SampleIn(s)' = SampleIn(s)
    BY <1>5, <2>1, <2>2
  <2> QED
    BY <1>1, <2>1, <2>3, HeldKept
<1>11. CASE PopRecord
  <2>1. /\ UNCHANGED <<output, info, frame_buffer_>> /\ recorded' = Contents(output) /\ output # input
        /\ is_committed[output] /\ recorded = NoSample /\ recorded' # NoSample
    BY <1>11 DEF PopRecord, PopGoto, holders, ConsumerInv, SampleInv, RecordInv
  <2>2. \A p \in Producers : ~Owns(p, output)
    BY <2>1 DEF ClaimInv, Owns, Writing
  <2>3. SampleIn(o) = Contents(output) /\ SampleIn(o)' = Contents(output)
    BY <1>2, <1>4, <2>1, <2>2 DEF Stands
  <2>4. \A s \in Slots : SampleIn(s)' = SampleIn(s)
    BY <1>5, <2>1, <2>3
  <2> QED
    BY <1>1, <1>6, <1>8, <2>1, <2>3, <2>4, HeldKept DEF Abstract!Record
<1>12. CASE PopAdvance
  <2>1. /\ UNCHANGED <<info, frame_buffer_>> /\ output' = advance(output) /\ output # input
        /\ recorded # NoSample /\ recorded' = NoSample
    BY <1>12 DEF PopAdvance, PopGoto, holders, ConsumerInv, SampleInv, RecordInv
  <2>2. Capacity = Size + 1 /\ Size \in Nat /\ Slots = 0..Size
    BY SizeAssumption DEF Capacity, Slots
  <2>3. output' = IF output = Capacity - 1 THEN 0 ELSE output + 1
    BY <1>1, <2>1, AdvanceWraps
  <2>4. Held' = n - 1 /\ n \in Nat \ {0}
    <3>1. /\ Held = IF output <= input THEN input - output ELSE input + Capacity - output
          /\ Held' = IF output' <= input THEN input - output' ELSE input + Capacity - output'
      BY <1>1, RingOrder, RingOrderNext DEF InOrder
    <3> QED
      BY <1>1, <1>6, <2>1, <2>2, <2>3, <3>1
  <2>5. ASSUME NEW k \in 1..(n - 1) PROVE SlotOf(k)' = SlotOf(k + 1) /\ SlotOf(k + 1) \in Slots /\ SlotOf(k + 1) # o
    <3>1. /\ k + 1 \in 1..(n + 1) /\ k \in 1..(Held' + 1) /\ k \in Int
      BY <2>4
    <3>2. /\ SlotOf(k + 1) \in Slots
          /\ SlotOf(k + 1) = IF output + (k + 1) - 1 < Capacity THEN output + (k + 1) - 1
                                                                ELSE output + (k + 1) - 1 - Capacity
          /\ SlotOf(k)' = IF output' + k - 1 < Capacity THEN output' + k - 1 ELSE output' + k - 1 - Capacity
      BY <1>6, <3>1, RingOrder, RingOrderNext DEF InOrder
    <3>3. n \in 0..Size
      BY <1>6, RingOrder DEF InOrder
    <3> QED
      BY <1>1, <1>4, <2>2, <2>3, <3>2, <3>3
  <2>6. \A k \in 1..(n - 1) : SampleIn(SlotOf(k))' = SampleIn(SlotOf(k + 1))
    BY <1>5, <2>1, <2>5
  <2>7. heldSamples' = [k \in 1..(n - 1) |-> SampleIn(SlotOf(k))']
    BY <2>4 DEF heldSamples, Held, SlotOf
  <2> DEFINE g == heldSamples
             h == heldSamples'
             S == {g[k] : k \in 1..n}
  <2>8. g \in [1..n -> S] /\ h \in [1..(n - 1) -> S] /\ \A k \in 1..(n - 1) : h[k] = g[k + 1]
    <3>1. g \in [1..n -> S] /\ \A k \in 1..n : g[k] = SampleIn(SlotOf(k))
      BY <1>7
    <3>2. \A k \in 1..(n - 1) : k + 1 \in 1..n
      BY <2>4
    <3>3. \A k \in 1..(n - 1) : h[k] = g[k + 1] /\ g[k + 1] \in S
      BY <2>6, <2>7, <3>1, <3>2
    <3> QED
      BY <2>7, <3>1, <3>3
  <2> HIDE DEF g, h, S
  <2>9. h = Tail(g)
    BY <2>4, <2>8, ShorterIsTail
  <2> QED
    BY <2>1, <2>9 DEF Abstract!Release, g, h
<1> QED
  BY <1>9, <1>10, <1>11, <1>12 DEF Pop

\* CircularQueue implements SampleQueue: under NoLap, samples come out exactly
\* once, unaltered and in the order in which push claimed their slots, and no
\* more than Size are ever held.
THEOREM Refinement == Spec => FifoExactlyOnce
<1>1. Init => Abstract!QInit
  <2> SUFFICES ASSUME Init PROVE Abstract!QInit
    OBVIOUS
  <2>1. Held = 0
    BY InitIndInv, RingOrder DEF Init, InOrder
  <2> QED
    BY <2>1 DEF Init, Abstract!QInit, heldSamples, Held
<1>2. IndInv /\ IndInv' /\ SampleInv /\ SampleInv' /\ [Next]_vars => [Abstract!QNext]_(Abstract!qvars)
  <2> SUFFICES ASSUME IndInv, IndInv', SampleInv, SampleInv', [Next]_vars
               PROVE  Abstract!QNext \/ UNCHANGED <<heldSamples, recorded>>
    BY DEF Abstract!qvars
  <2>1. ASSUME NEW p \in Producers, PushStep(p) PROVE UNCHANGED <<heldSamples, recorded>>
    BY <2>1, PushRefines
  <2>2. ASSUME NEW p \in Producers, UnlappedClaim(p) PROVE Abstract!QNext
    BY <2>2, ClaimRefines DEF Abstract!QNext
  <2>3. CASE Pop
    BY <2>3, PopRefines DEF Abstract!QNext
  <2>4. CASE UNCHANGED vars
    BY <2>4 DEF vars, heldSamples, SampleIn, Owns, Contents, Seen
  <2> QED
    BY <2>1, <2>2, <2>3, <2>4 DEF Next
<1>3. IndInv /\ [Next]_vars => IndInv'
  BY NextIndInv
<1>4. IndInv /\ SampleInv /\ [Next]_vars => SampleInv'
  BY NextSamples
<1> QED
  BY <1>1, <1>2, <1>3, <1>4, InitIndInv, InitSamples, PTL DEF Spec, FifoExactlyOnce, Abstract!QSpec
=============================================================================
