---------------------- MODULE AxisFrameErrorDrop_proofs ----------------------
(***************************************************************************)
(* Proofs about the RX frame store, for every slot size, every number of   *)
(* slots and every input.                                                  *)
(*                                                                         *)
(* StoreInv adds to the types and the slot order what the two sides rely   *)
(* on: a drain runs only over a full slot, and a frame is filled only into *)
(* a free one.  ContentInv adds what is in the slots and in the registers  *)
(* of the drain side; with it each cycle is shown to be a step, or a       *)
(* stutter, of the frame buffer AxisFrames.                                *)
(***************************************************************************)
EXTENDS AxisFrameErrorDrop, TLAPS, SequenceTheorems

SidesOK ==
  /\ draining => fullCount > 0
  /\ valid => draining
  /\ InsideFrame => fullCount < Slots

StoreInv == TypeOK /\ SlotsInOrder /\ SidesOK

LEMMA InitInv == Init => StoreInv
<1> SUFFICES ASSUME Init PROVE StoreInv
  OBVIOUS
<1> USE SizeAssumption DEF Init
<1>1. TypeFill
  <2>1. mem \in [Slot -> [0 .. Depth - 1 -> Beat \cup {NoBeat}]]
    OBVIOUS
  <2>2. len \in [Slot -> 0 .. Depth]
    OBVIOUS
  <2>3. 0 \in Slot /\ 0 \in 0 .. Depth - 1
    BY DEF Slot
  <2>4. QED
    BY <2>1, <2>2, <2>3 DEF TypeFill
<1>2. TypeDrain
  <2>1. 0 \in Slot /\ 0 \in 0 .. Depth
    BY DEF Slot
  <2>2. QED
    BY <2>1 DEF TypeDrain
<1>3. SlotsInOrder
  BY DEF SlotsInOrder, Slot
<1>4. SidesOK
  BY DEF SidesOK, InsideFrame
<1>5. fullCount \in 0 .. Slots
  OBVIOUS
<1>6. QED
  BY <1>1, <1>2, <1>3, <1>4, <1>5 DEF StoreInv, TypeOK

(* What a cycle does to the fill side.                                     *)
LEMMA FillStep ==
  ASSUME StoreInv, NEW b \in Beat, TReady, Fill(b)
  PROVE  /\ TypeFill'
         /\ (wrPtr' > 0 \/ dropping') => fullCount < Slots /\ ~Stored(b)
         /\ Stored(b) => fullCount < Slots /\ fillSlot' = NextSlot(fillSlot)
         /\ ~Stored(b) => fillSlot' = fillSlot
<1> USE SizeAssumption DEF StoreInv, TypeOK, TypeFill, Stored, Fill
<1>1. CASE dropping
  <2>1. b.last \in BOOLEAN /\ UNCHANGED <<mem, len, fillSlot>> /\ fullCount < Slots
    BY <1>1 DEF FillDrop, Beat, SidesOK, InsideFrame
  <2>2. wrPtr' \in 0 .. Depth - 1 /\ bad' \in BOOLEAN /\ dropping' \in BOOLEAN
    <3>1. CASE b.last
      <4>1. dropping' = FALSE /\ wrPtr' = 0 /\ bad' = FALSE
        BY <1>1, <3>1, Zenon DEF FillDrop
      <4>2. 0 \in 0 .. Depth - 1
        OBVIOUS
      <4>3. QED
        BY <4>1, <4>2
    <3>2. CASE ~b.last
      BY <1>1, <3>2 DEF FillDrop
    <3>3. QED
      BY <3>1, <3>2
  <2>3. QED
    BY <1>1, <2>1, <2>2
<1>2. CASE ~dropping
  <2> USE <1>2 DEF FillActive
  <2>1. fullCount < Slots /\ b.last \in BOOLEAN
    BY DEF TReady, Beat
  <2>2. mem' \in [Slot -> [0 .. Depth - 1 -> Beat \cup {NoBeat}]]
    <3>1. [mem[fillSlot] EXCEPT ![wrPtr] = b] \in [0 .. Depth - 1 -> Beat \cup {NoBeat}]
      OBVIOUS
    <3>2. mem' = [mem EXCEPT ![fillSlot] = [mem[fillSlot] EXCEPT ![wrPtr] = b]]
      OBVIOUS
    <3>3. QED
      BY <3>1, <3>2
  <2>3. wrPtr' \in 0 .. Depth - 1 /\ dropping' \in BOOLEAN
    BY <2>1 DEF Overflow
  <2>4. bad' \in BOOLEAN
    BY <2>1 DEF BadNext, Overflow, Beat
  <2>5. len' \in [Slot -> 0 .. Depth] /\ fillSlot' \in Slot
    BY DEF NextSlot, Slot
  <2>6. wrPtr' > 0 \/ dropping' => ~b.last
    BY <2>1 DEF Overflow
  <2>7. QED
    BY <2>1, <2>2, <2>3, <2>4, <2>5, <2>6 DEF Good
<1>3. QED
  BY <1>1, <1>2

(* What a cycle does to the drain side.                                    *)
LEMMA DrainStep ==
  ASSUME StoreInv, NEW ready \in BOOLEAN, Sink(ready)
  PROVE  /\ TypeDrain'
         /\ draining' => fullCount > 0 /\ ~(draining /\ Finish(ready))
         /\ valid' => draining'
         /\ draining /\ Finish(ready) => drainSlot' = NextSlot(drainSlot)
         /\ ~(draining /\ Finish(ready)) => drainSlot' = drainSlot
<1> USE SizeAssumption DEF StoreInv, TypeOK, TypeFill, TypeDrain, Sink
<1>1. wire' \in Beat \cup {NoBeat}
  BY DEF Taken
<1>2. CASE DrainStart
  <2>1. drainLen' \in 0 .. Depth /\ 0 \in 0 .. Depth
    BY <1>2 DEF DrainStart
  <2>2. TypeDrain'
    BY <1>1, <1>2, <2>1 DEF DrainStart
  <2>3. ~draining /\ draining' /\ fullCount > 0 /\ drainSlot' = drainSlot
    BY <1>2 DEF DrainStart
  <2>4. QED
    BY <2>2, <2>3
<1>3. CASE DrainIdle
  BY <1>1, <1>3 DEF DrainIdle
<1>4. CASE DrainFinish(ready)
  <2>1. drainSlot' \in Slot
    BY <1>4 DEF DrainFinish, NextSlot, Slot
  <2>2. TypeDrain'
    BY <1>1, <1>4, <2>1 DEF DrainFinish
  <2>3. draining /\ Finish(ready) /\ ~draining' /\ ~valid' /\ drainSlot' = NextSlot(drainSlot)
    BY <1>4 DEF DrainFinish
  <2>4. QED
    BY <2>2, <2>3
<1>5. CASE DrainMove(ready)
  <2>1. rdCount' \in 0 .. Depth
    BY <1>5 DEF DrainMove, ReadFire
  <2>2. ramDout' \in Beat \cup {NoBeat}
    BY <1>5 DEF DrainMove, ReadFire
  <2>3. reading' \in BOOLEAN /\ valid' \in BOOLEAN
    BY <1>5 DEF DrainMove, ReadFire
  <2>4. out' \in Beat \cup {NoBeat}
    BY <1>5 DEF DrainMove
  <2>5. QED
    BY <1>1, <1>5, <2>1, <2>2, <2>3, <2>4 DEF DrainMove, SidesOK
<1>6. QED
  BY <1>2, <1>3, <1>4, <1>5 DEF Drain

(* full_count and the two slot pointers move together.                     *)
LEMMA CountStep ==
  ASSUME StoreInv, NEW stored \in BOOLEAN, NEW finished \in BOOLEAN,
         Count(stored, finished),
         stored => fullCount < Slots, finished => fullCount > 0,
         fillSlot' = IF stored THEN NextSlot(fillSlot) ELSE fillSlot,
         drainSlot' = IF finished THEN NextSlot(drainSlot) ELSE drainSlot
  PROVE  /\ fullCount' \in 0 .. Slots /\ SlotsInOrder'
         /\ ~stored => fullCount' <= fullCount
         /\ ~finished => fullCount' >= fullCount
BY SizeAssumption DEF StoreInv, TypeOK, TypeFill, TypeDrain, SlotsInOrder, Count, NextSlot, Slot

LEMMA CycleInv == ASSUME StoreInv, NEW ready \in BOOLEAN, Clock(ready) PROVE StoreInv'
<1> DEFINE finished == draining /\ Finish(ready)
<1>1. finished \in BOOLEAN /\ (finished => fullCount > 0)
  BY DEF StoreInv, SidesOK
<1>2. CASE CycleWithout(ready)
  <2>1. FillIdle /\ Sink(ready) /\ Count(FALSE, finished)
    BY <1>2 DEF CycleWithout
  <2>2. TypeDrain' /\ (draining' => fullCount > 0 /\ ~finished) /\ (valid' => draining')
        /\ drainSlot' = IF finished THEN NextSlot(drainSlot) ELSE drainSlot
    BY <2>1, DrainStep
  <2>3. fillSlot' = fillSlot
    BY <2>1 DEF FillIdle, fill
  <2> HIDE DEF finished
  <2>4. /\ fullCount' \in 0 .. Slots /\ SlotsInOrder' /\ fullCount' <= fullCount
        /\ ~finished => fullCount' >= fullCount
    BY <1>1, <2>1, <2>2, <2>3, CountStep
  <2>5. TypeFill'
    BY <2>1, <2>4 DEF FillIdle, fill, StoreInv, TypeOK, TypeFill
  <2>6. SidesOK'
    <3>1. fullCount \in Nat /\ fullCount' \in Nat /\ Slots \in Nat
      BY <2>4, SizeAssumption DEF StoreInv, TypeOK
    <3>2. draining' => fullCount' > 0
      BY <2>2, <2>4, <3>1
    <3>3. InsideFrame' => fullCount' < Slots
      BY <2>1, <2>4, <3>1 DEF StoreInv, SidesOK, InsideFrame, FillIdle, fill
    <3>4. QED
      BY <2>2, <3>2, <3>3 DEF SidesOK
  <2>7. QED
    BY <2>2, <2>4, <2>5, <2>6 DEF StoreInv, TypeOK
<1>3. ASSUME NEW b \in Beat, CycleWithBeat(b, ready) PROVE StoreInv'
  <2>1. TReady /\ Fill(b) /\ Sink(ready) /\ Count(Stored(b), finished)
    BY <1>3 DEF CycleWithBeat
  <2>2. TypeDrain' /\ (draining' => fullCount > 0 /\ ~finished) /\ (valid' => draining')
        /\ drainSlot' = IF finished THEN NextSlot(drainSlot) ELSE drainSlot
    BY <2>1, DrainStep
  <2>3. /\ (wrPtr' > 0 \/ dropping') => fullCount < Slots /\ ~Stored(b)
        /\ Stored(b) => fullCount < Slots
        /\ fillSlot' = IF Stored(b) THEN NextSlot(fillSlot) ELSE fillSlot
    BY <2>1, FillStep
  <2> HIDE DEF finished
  <2>4. /\ fullCount' \in 0 .. Slots /\ SlotsInOrder'
        /\ ~Stored(b) => fullCount' <= fullCount
        /\ ~finished => fullCount' >= fullCount
    BY <1>1, <2>1, <2>2, <2>3, Stored(b) \in BOOLEAN, CountStep DEF Stored
  <2>5. TypeFill'
    BY <2>1, <2>4, FillStep DEF TypeFill
  <2>6. SidesOK'
    <3>1. fullCount \in Nat /\ fullCount' \in Nat /\ Slots \in Nat
      BY <2>4, SizeAssumption DEF StoreInv, TypeOK
    <3>2. draining' => fullCount' > 0
      BY <2>2, <2>4, <3>1
    <3>3. InsideFrame' => fullCount' < Slots
      BY <2>3, <2>4, <3>1 DEF InsideFrame
    <3>4. QED
      BY <2>2, <3>2, <3>3 DEF SidesOK
  <2>7. QED
    BY <2>2, <2>4, <2>5, <2>6 DEF StoreInv, TypeOK
<1>4. QED
  BY <1>2, <1>3 DEF Clock

(* The inductive invariant holds in every cycle of every run.              *)
THEOREM StoreInvariant == Spec => []StoreInv
<1>1. Init => StoreInv
  BY InitInv
<1>2. StoreInv /\ [Next]_vars => StoreInv'
  <2>1. StoreInv /\ UNCHANGED vars => StoreInv'
    BY DEF StoreInv, TypeOK, TypeFill, TypeDrain, SlotsInOrder, SidesOK, InsideFrame,
           vars, fill, drain
  <2>2. QED
    BY <2>1, CycleInv DEF Next
<1>3. QED
  BY <1>1, <1>2, PTL DEF Spec

(* Every register keeps its width's range: full_count never passes the     *)
(* slot count and rd_count never passes the frame.                         *)
THEOREM TypeCorrect == Spec => []TypeOK
<1>1. StoreInv => TypeOK
  BY DEF StoreInv
<1>2. QED
  BY <1>1, StoreInvariant, PTL

(* The fill slot is always full_count places after the drain slot.         *)
THEOREM OrderCorrect == Spec => []SlotsInOrder
<1>1. StoreInv => SlotsInOrder
  BY DEF StoreInv
<1>2. QED
  BY <1>1, StoreInvariant, PTL

(* The MAC's receiver is never stalled inside a frame, whatever the DMA    *)
(* does and however many slots there are.                                  *)
THEOREM ReadyCorrect == Spec => []ReadyInsideFrame
<1>1. StoreInv => ReadyInsideFrame
  BY DEF StoreInv, SidesOK, ReadyInsideFrame, TReady
<1>2. QED
  BY <1>1, StoreInvariant, PTL

(* The RAM is read only into a register that is free or about to be.       *)
NoOverrun == ~(reading /\ valid)

LEMMA OverrunStep ==
  ASSUME StoreInv, NoOverrun, [Next]_vars
  PROVE  NoOverrun'
<1> USE DEF NoOverrun
<1>1. CASE UNCHANGED vars
  BY <1>1 DEF vars, drain
<1>2. ASSUME NEW ready \in BOOLEAN, Clock(ready) PROVE NoOverrun'
  <2>1. Drain(ready)
    BY <1>2 DEF Clock, CycleWithout, CycleWithBeat, Sink
  <2>2. CASE DrainMove(ready)
    <3>1. reading' = ReadFire(ready) /\ valid' = (reading \/ (valid /\ ~ready))
      BY <2>2 DEF DrainMove
    <3>2. ReadFire(ready) => ~reading /\ (~valid \/ ready)
      BY DEF ReadFire
    <3>3. QED
      BY <3>1, <3>2, Zenon
  <2>3. CASE DrainStart \/ DrainIdle \/ DrainFinish(ready)
    <3>1. valid' = FALSE
      BY <2>3 DEF DrainStart, DrainIdle, DrainFinish
    <3>2. QED
      BY <3>1, Zenon
  <2>4. QED
    BY <2>1, <2>2, <2>3 DEF Drain
<1>3. QED
  BY <1>1, <1>2 DEF Next

LEMMA OverrunInvariant == Spec => []NoOverrun
<1>1. Init => NoOverrun
  <2>1. Init => valid = FALSE
    BY DEF Init
  <2>2. QED
    BY <2>1, Zenon DEF NoOverrun
<1>2. QED
  BY <1>1, OverrunStep, StoreInvariant, PTL DEF Spec

(* A beat offered to the DMA stays offered and unchanged while it waits,    *)
(* whatever enters in the same cycles (AXI4-Stream, tvalid and tdata).      *)
THEOREM OfferCorrect == Spec => HoldsOffer
<1>1. ASSUME StoreInv, NoOverrun, valid, Clock(FALSE) PROVE valid' /\ out' = out
  <2>1. draining /\ ~reading
    BY <1>1 DEF StoreInv, SidesOK, NoOverrun
  <2>2. Drain(FALSE)
    BY <1>1 DEF Clock, CycleWithout, CycleWithBeat, Sink
  <2>3. DrainMove(FALSE)
    BY <2>1, <2>2 DEF Drain, DrainStart, DrainIdle, DrainFinish, Finish, Taken
  <2>4. valid' = (reading \/ (valid /\ ~FALSE)) /\ out' = out
    BY <2>1, <2>3 DEF DrainMove
  <2>5. QED
    BY <1>1, <2>4, Zenon
<1>2. StoreInv /\ NoOverrun => [valid /\ Clock(FALSE) => valid' /\ out' = out]_vars
  BY <1>1
<1>3. QED
  BY <1>2, StoreInvariant, OverrunInvariant, PTL DEF HoldsOffer

----------------------------------------------------------------------------
(* The contents.  ContentInv says what the cells and registers hold: the    *)
(* full slots whole frames, the slot being filled the beats so far, and the *)
(* drain registers the beats of their slot in turn.                         *)

(* The slot of the k-th frame of the queue.                                *)
At(k) ==
  IF drainSlot + k - 1 < Slots THEN drainSlot + k - 1 ELSE drainSlot + k - 1 - Slots

(* Slot s of RAM m holds a whole frame of l[s] beats.                      *)
Whole(m, l, s) ==
  /\ l[s] >= 1
  /\ \A i \in 0 .. l[s] - 1 : m[s][i] \in Beat /\ (m[s][i].last <=> i = l[s] - 1)

FullOK == \A k \in 1 .. fullCount : Whole(mem, len, At(k))

FillOK == \A i \in 0 .. wrPtr - 1 : mem[fillSlot][i] \in Beat /\ ~mem[fillSlot][i].last

DrainOK ==
  draining =>
    /\ drainLen = len[drainSlot] /\ rdCount <= drainLen
    /\ Sent \in 0 .. drainLen - 1
    /\ reading => rdCount > 0 /\ ramDout = mem[drainSlot][rdCount - 1]
    /\ valid => out = mem[drainSlot][Sent]

ContentInv == NoOverrun /\ FullOK /\ FillOK /\ DrainOK

LEMMA AtFacts ==
  ASSUME StoreInv
  PROVE  /\ \A k \in 1 .. fullCount : At(k) \in Slot
         /\ fullCount < Slots => /\ At(fullCount + 1) = fillSlot
                                 /\ \A k \in 1 .. fullCount : At(k) # fillSlot
         /\ At(1) = drainSlot
         /\ fullCount \in Nat /\ drainSlot \in Nat /\ Slots \in Nat
BY SizeAssumption DEF StoreInv, TypeOK, TypeFill, TypeDrain, SlotsInOrder, At, Slot

(* The queue begins one slot further when a frame has been drained.        *)
LEMMA AtMoves ==
  ASSUME StoreInv, NEW fin \in BOOLEAN,
         drainSlot' = IF fin THEN NextSlot(drainSlot) ELSE drainSlot
  PROVE  \A k \in 1 .. Slots : At(k)' = IF fin THEN At(k + 1) ELSE At(k)
BY SizeAssumption DEF StoreInv, TypeOK, TypeDrain, At, NextSlot, Slot

(* The cells of the slots that hold frames are not written.                *)
LEMMA FillTouches ==
  ASSUME StoreInv, NEW b \in Beat, Fill(b)
  PROVE  \A s \in Slot \ {fillSlot} : mem'[s] = mem[s] /\ len'[s] = len[s]
BY DEF StoreInv, TypeOK, TypeFill, Fill, FillActive, FillDrop

LEMMA Below ==
  \A p, q, d \in Nat :
    q <= p + 1 /\ q <= d - 1 =>
      \A i \in 0 .. q - 1 : i \in 0 .. d - 1 /\ (i = p \/ i \in 0 .. p - 1)
OBVIOUS

LEMMA FillContent ==
  ASSUME StoreInv, FillOK, NEW b \in Beat, TReady, Fill(b)
  PROVE  /\ FillOK'
         /\ Stored(b) => Whole(mem', len', fillSlot) /\ len'[fillSlot] = wrPtr + 1
                         /\ mem'[fillSlot] = [mem[fillSlot] EXCEPT ![wrPtr] = b]
<1> USE SizeAssumption DEF StoreInv, TypeOK, TypeFill
<1>0. wrPtr \in Nat /\ wrPtr < Depth /\ b.last \in BOOLEAN
  BY DEF Beat
<1>1. CASE dropping
  <2>1. UNCHANGED <<mem, len, fillSlot>> /\ (wrPtr' = 0 \/ wrPtr' = wrPtr)
    BY <1>1 DEF Fill, FillDrop
  <2>2. QED
    BY <1>0, <1>1, <2>1 DEF FillOK, Stored
<1>2. CASE ~dropping
  <2>1. /\ mem'[fillSlot] = [mem[fillSlot] EXCEPT ![wrPtr] = b]
        /\ mem[fillSlot] \in [0 .. Depth - 1 -> Beat \cup {NoBeat}]
    BY <1>2 DEF Fill, FillActive
  <2>2. \A i \in 0 .. Depth - 1 : mem'[fillSlot][i] = IF i = wrPtr THEN b ELSE mem[fillSlot][i]
    BY <2>1
  <2>3. /\ wrPtr' = IF b.last THEN 0 ELSE IF Overflow(b) THEN wrPtr ELSE wrPtr + 1
        /\ len' = IF Good(b) THEN [len EXCEPT ![fillSlot] = wrPtr + 1] ELSE len
        /\ fillSlot' = IF Good(b) THEN NextSlot(fillSlot) ELSE fillSlot
    BY <1>2 DEF Fill, FillActive
  <2>4. FillOK'
    <3>1. CASE b.last
      BY <2>3, <3>1 DEF FillOK
    <3>2. CASE ~b.last
      <4>1. fillSlot' = fillSlot /\ wrPtr' \in 0 .. wrPtr + 1 /\ wrPtr' <= Depth - 1
        BY <1>0, <2>3, <3>2 DEF Good, Overflow
      <4>2. \A i \in 0 .. wrPtr' - 1 :
              i \in 0 .. Depth - 1 /\ (i = wrPtr \/ i \in 0 .. wrPtr - 1)
        <5>1. wrPtr' \in Nat /\ Depth \in Nat
          BY <1>0, <4>1
        <5>2. wrPtr' <= wrPtr + 1 /\ wrPtr' <= Depth - 1
          BY <4>1
        <5>3. QED
          BY <1>0, <5>1, <5>2, Below
      <4>3. QED
        BY <2>2, <3>2, <4>1, <4>2 DEF FillOK
    <3>3. QED
      BY <3>1, <3>2
  <2>5. ASSUME Stored(b) PROVE Whole(mem', len', fillSlot) /\ len'[fillSlot] = wrPtr + 1
    <3>1. Good(b) /\ b.last
      BY <2>5 DEF Stored, Good
    <3>2. len'[fillSlot] = wrPtr + 1
      BY <2>3, <3>1
    <3>3. \A i \in 0 .. wrPtr : i \in 0 .. Depth - 1 /\ (i = wrPtr \/ i \in 0 .. wrPtr - 1)
      BY <1>0
    <3>4. \A i \in 0 .. wrPtr : mem'[fillSlot][i] \in Beat /\ (mem'[fillSlot][i].last <=> i = wrPtr)
      <4>1. TAKE i \in 0 .. wrPtr
      <4>2. CASE i = wrPtr
        BY <1>0, <2>2, <3>1, <3>3, <4>2
      <4>3. CASE i \in 0 .. wrPtr - 1
        <5>1. mem'[fillSlot][i] = mem[fillSlot][i] /\ i # wrPtr
          BY <1>0, <2>2, <3>3, <4>3
        <5>2. QED
          BY <4>3, <5>1 DEF FillOK
      <4>4. QED
        BY <3>3, <4>2, <4>3
    <3>5. len'[fillSlot] - 1 = wrPtr /\ len'[fillSlot] >= 1
      BY <1>0, <3>2
    <3>6. QED
      BY <3>2, <3>4, <3>5, Zenon DEF Whole
  <2>6. QED
    BY <2>1, <2>4, <2>5
<1>3. QED
  BY <1>1, <1>2

(* The beats of the frame at the head of the queue that have gone.         *)
First == IF draining THEN Sent ELSE 0

LEMMA FirstFacts ==
  ASSUME StoreInv, ContentInv
  PROVE  /\ fullCount > 0 => First \in 0 .. len[drainSlot] - 1 /\ len[drainSlot] \in Nat
         /\ First \in Nat
<1> USE SizeAssumption DEF StoreInv, TypeOK, TypeFill, TypeDrain
<1>1. fullCount > 0 => len[drainSlot] >= 1
  BY AtFacts DEF ContentInv, FullOK, Whole
<1>2. len[drainSlot] \in Nat
  OBVIOUS
<1>3. draining => Sent \in 0 .. len[drainSlot] - 1
  BY DEF ContentInv, DrainOK
<1>4. QED
  BY <1>1, <1>2, <1>3 DEF First

(* A cycle of the drain side; untouched are the slots that hold frames.    *)
LEMMA DrainContent ==
  ASSUME StoreInv, ContentInv, NEW ready \in BOOLEAN, Sink(ready),
         \A k \in 1 .. fullCount : mem'[At(k)] = mem[At(k)] /\ len'[At(k)] = len[At(k)]
  PROVE  /\ DrainOK'
         /\ Taken(ready) => draining /\ wire' = mem[drainSlot][First]
         /\ ~Taken(ready) => First' = First /\ wire' = wire
         /\ Taken(ready) /\ ~Finish(ready) => First' = First + 1
         /\ Finish(ready) => draining /\ ~draining'
<1> USE SizeAssumption DEF StoreInv, TypeOK, TypeFill, TypeDrain
<1>0. /\ rdCount \in Nat /\ (valid => draining) /\ ~(reading /\ valid)
      /\ draining \in BOOLEAN /\ reading \in BOOLEAN /\ valid \in BOOLEAN
  BY DEF SidesOK, ContentInv, NoOverrun
<1>1. fullCount > 0 => mem'[drainSlot] = mem[drainSlot] /\ len'[drainSlot] = len[drainSlot]
                       /\ len[drainSlot] \in Nat /\ len[drainSlot] >= 1
  BY AtFacts DEF ContentInv, FullOK, Whole
<1>2. wire' = IF Taken(ready) THEN out ELSE wire
  BY DEF Sink
<1>3. CASE DrainStart
  <2>1. /\ ~draining /\ fullCount > 0 /\ draining' /\ drainLen' = len[drainSlot]
        /\ rdCount' = 0 /\ reading' = FALSE /\ valid' = FALSE /\ drainSlot' = drainSlot
    BY <1>3 DEF DrainStart
  <2>2. Sent' = 0
    <3>1. ~reading' /\ ~valid' /\ rdCount' = 0
      BY <2>1, Zenon
    <3>2. Sent' = rdCount' - (IF reading' THEN 1 ELSE 0) - (IF valid' THEN 1 ELSE 0)
      BY DEF Sent
    <3>3. Sent' = 0 - 0 - 0
      BY <3>1, <3>2, Zenon
    <3>4. QED
      BY <3>3
  <2>3. ~Taken(ready)
    BY <1>0, <2>1 DEF Taken
  <2>4. DrainOK'
    BY <1>1, <2>1, <2>2 DEF DrainOK
  <2>5. QED
    BY <1>2, <2>1, <2>2, <2>3, <2>4 DEF First, Finish
<1>4. CASE DrainIdle
  <2>1. ~draining /\ draining' = draining
    BY <1>4 DEF DrainIdle
  <2>2. ~Taken(ready)
    BY <1>0, <2>1 DEF Taken
  <2>3. QED
    BY <1>2, <2>1, <2>2 DEF First, Finish, DrainOK
<1>5. ASSUME draining
      PROVE  /\ fullCount > 0 /\ drainLen = len[drainSlot] /\ rdCount <= drainLen
             /\ Sent \in 0 .. drainLen - 1
             /\ reading => rdCount > 0 /\ ramDout = mem[drainSlot][rdCount - 1]
             /\ valid => out = mem[drainSlot][Sent] /\ (out.last <=> Sent = drainLen - 1)
  <2>1. Whole(mem, len, drainSlot) /\ fullCount > 0
    BY <1>5, AtFacts DEF SidesOK, ContentInv, FullOK
  <2>2. QED
    BY <1>5, <2>1 DEF ContentInv, DrainOK, Whole
<1>6. CASE DrainFinish(ready)
  <2>1. draining /\ Finish(ready) /\ Taken(ready) /\ draining' = FALSE /\ valid
    BY <1>6 DEF DrainFinish, Finish, Taken
  <2>2. ~draining'
    BY <2>1, Zenon
  <2>3. DrainOK'
    BY <2>2 DEF DrainOK
  <2>4. wire' = mem[drainSlot][First]
    BY <1>2, <1>5, <2>1 DEF First
  <2>5. QED
    BY <2>1, <2>2, <2>3, <2>4
<1>7. CASE DrainMove(ready)
  <2>1. /\ draining /\ draining' /\ ~Finish(ready)
        /\ UNCHANGED <<drainSlot, drainLen>>
    BY <1>7 DEF DrainMove
  <2>2. /\ valid' = (reading \/ (valid /\ ~ready)) /\ reading' = ReadFire(ready)
        /\ rdCount' = (IF ReadFire(ready) THEN rdCount + 1 ELSE rdCount)
        /\ out' = (IF reading THEN ramDout ELSE out)
        /\ ramDout' = (IF ReadFire(ready) THEN mem[drainSlot][rdCount] ELSE ramDout)
    BY <1>7 DEF DrainMove
  <2>3. ReadFire(ready) <=> (~valid \/ ready) /\ ~reading /\ rdCount < drainLen
    BY DEF ReadFire
  <2>4. Sent = rdCount - (IF reading THEN 1 ELSE 0) - (IF valid THEN 1 ELSE 0)
    BY DEF Sent
  <2>5. Sent' = rdCount' - (IF reading' THEN 1 ELSE 0) - (IF valid' THEN 1 ELSE 0)
    BY DEF Sent
  <2>6. Sent' = Sent + (IF Taken(ready) THEN 1 ELSE 0)
    <3>1. CASE reading
      <4>1. ~valid /\ ~ReadFire(ready) /\ valid' /\ ~reading' /\ rdCount' = rdCount
        BY <1>0, <2>2, <2>3, <3>1, Zenon
      <4>2. QED
        BY <1>0, <2>4, <2>5, <3>1, <4>1 DEF Taken
    <3>2. CASE ~reading
      <4>1. valid' <=> valid /\ ~ready
        BY <2>2, <3>2, Zenon
      <4>2. rdCount' = rdCount + (IF reading' THEN 1 ELSE 0)
        BY <1>0, <2>2
      <4>3. Taken(ready) <=> valid /\ ready
        BY DEF Taken
      <4>4. QED
        BY <1>0, <2>4, <2>5, <3>2, <4>1, <4>2, <4>3
    <3>3. QED
      BY <3>1, <3>2
  <2>7. Taken(ready) => Sent # drainLen - 1
    BY <1>5, <2>1 DEF Taken, Finish
  <2>8. Sent' \in 0 .. drainLen - 1 /\ rdCount' <= drainLen
    <3>1. drainLen \in Nat /\ Sent \in 0 .. drainLen - 1 /\ rdCount <= drainLen
      BY <1>5, <2>1
    <3>2. Sent' \in 0 .. drainLen - 1
      BY <2>6, <2>7, <3>1
    <3>3. rdCount' <= drainLen
      BY <1>0, <2>2, <2>3, <3>1
    <3>4. QED
      BY <3>2, <3>3
  <2>9. reading' => rdCount' > 0 /\ ramDout' = mem[drainSlot][rdCount' - 1]
    <3>1. SUFFICES ASSUME ReadFire(ready) PROVE rdCount' > 0 /\ ramDout' = mem[drainSlot][rdCount' - 1]
      BY <2>2, Zenon
    <3>2. rdCount' = rdCount + 1 /\ ramDout' = mem[drainSlot][rdCount]
      BY <2>2, <3>1
    <3>3. QED
      BY <1>0, <3>2
  <2>10. valid' => out' = mem[drainSlot][Sent']
    <3>1. CASE reading
      <4>1. out' = ramDout /\ ramDout = mem[drainSlot][rdCount - 1] /\ ~valid /\ ~Taken(ready)
        BY <1>0, <1>5, <2>1, <2>2, <3>1 DEF Taken
      <4>2. Sent' = rdCount - 1
        BY <1>0, <2>4, <2>6, <3>1, <4>1
      <4>3. QED
        BY <4>1, <4>2
    <3>2. CASE ~reading
      <4>1. valid' <=> valid /\ ~ready
        BY <2>2, <3>2, Zenon
      <4>2. valid' => ~Taken(ready) /\ valid
        BY <4>1 DEF Taken
      <4>3. Sent \in Int /\ (~Taken(ready) => Sent' = Sent)
        BY <1>5, <2>1, <2>6
      <4>4. QED
        BY <1>5, <2>1, <2>2, <3>2, <4>2, <4>3
    <3>3. QED
      BY <3>1, <3>2
  <2>11. DrainOK'
    BY <1>1, <1>5, <2>1, <2>8, <2>9, <2>10 DEF DrainOK
  <2>12. First = Sent /\ First' = Sent' /\ Sent \in Int
    BY <1>5, <2>1 DEF First
  <2>13. Taken(ready) => wire' = mem[drainSlot][Sent]
    BY <1>2, <1>5, <2>1 DEF Taken
  <2>14. QED
    BY <1>2, <2>1, <2>6, <2>11, <2>12, <2>13
<1>8. QED
  BY <1>3, <1>4, <1>6, <1>7 DEF Sink, Drain

(* What the cycle does as a whole: who enters, who leaves.                 *)
LEMMA CycleKeepsSlots ==
  ASSUME StoreInv, NEW b \in Beat, TReady, Fill(b)
  PROVE  \A k \in 1 .. fullCount : mem'[At(k)] = mem[At(k)] /\ len'[At(k)] = len[At(k)]
<1>1. CASE dropping
  BY <1>1 DEF Fill, FillDrop
<1>2. CASE ~dropping
  <2>1. fullCount < Slots
    BY <1>2 DEF TReady
  <2>2. \A k \in 1 .. fullCount : At(k) \in Slot \ {fillSlot}
    BY <2>1, AtFacts
  <2>3. QED
    BY <2>2, FillTouches
<1>3. QED
  BY <1>1, <1>2

(* The frames after a cycle: those behind a drained one, and a stored one.  *)
LEMMA FullKept ==
  ASSUME StoreInv, FullOK, NEW stored \in BOOLEAN, NEW fin \in BOOLEAN,
         Count(stored, fin), fin => fullCount > 0, stored => fullCount < Slots,
         drainSlot' = IF fin THEN NextSlot(drainSlot) ELSE drainSlot,
         \A k \in 1 .. fullCount : mem'[At(k)] = mem[At(k)] /\ len'[At(k)] = len[At(k)],
         stored => Whole(mem', len', fillSlot)
  PROVE  /\ FullOK'
         /\ fullCount' = fullCount - (IF fin THEN 1 ELSE 0) + (IF stored THEN 1 ELSE 0)
         /\ \A k \in 1 .. fullCount - (IF fin THEN 1 ELSE 0) :
              At(k)' = At(IF fin THEN k + 1 ELSE k)
         /\ \A k : stored /\ k = fullCount' => At(k)' = fillSlot
<1>0. /\ fullCount \in 0 .. Slots /\ Slots \in Nat /\ fullCount \in Nat
  BY SizeAssumption DEF StoreInv, TypeOK
<1>1. fullCount' = fullCount - (IF fin THEN 1 ELSE 0) + (IF stored THEN 1 ELSE 0)
  BY <1>0 DEF Count
<1>2. \A k \in 1 .. Slots : At(k)' = IF fin THEN At(k + 1) ELSE At(k)
  BY AtMoves
<1>3. \A k \in 1 .. fullCount - (IF fin THEN 1 ELSE 0) :
        At(k)' = At(IF fin THEN k + 1 ELSE k) /\ (IF fin THEN k + 1 ELSE k) \in 1 .. fullCount
  BY <1>0, <1>2
<1>4. ASSUME stored, NEW k, k = fullCount' PROVE At(k)' = fillSlot
  <2>1. k = (IF fin THEN fullCount ELSE fullCount + 1)
    BY <1>0, <1>1, <1>4
  <2>2. k \in 1 .. Slots
    BY <1>0, <1>4, <2>1
  <2>3. At(k)' = IF fin THEN At(k + 1) ELSE At(k)
    BY <1>2, <2>2
  <2>4. At(fullCount + 1) = fillSlot
    BY <1>4, AtFacts
  <2>5. QED
    BY <2>1, <2>3, <2>4
<1>5. ASSUME NEW k \in 1 .. fullCount' PROVE Whole(mem', len', At(k)')
  <2>1. CASE k <= fullCount - (IF fin THEN 1 ELSE 0)
    <3>1. PICK j \in 1 .. fullCount : At(k)' = At(j)
      BY <1>0, <1>3, <2>1
    <3>2. Whole(mem', len', At(j))
      BY <3>1 DEF FullOK, Whole
    <3>3. QED
      BY <3>1, <3>2
  <2>2. CASE k > fullCount - (IF fin THEN 1 ELSE 0)
    <3>1. stored /\ k = fullCount'
      BY <1>0, <1>1, <2>2
    <3>2. QED
      BY <1>4, <3>1
  <2>3. QED
    BY <1>0, <2>1, <2>2
<1>6. FullOK'
  BY <1>5 DEF FullOK
<1>7. QED
  BY <1>1, <1>3, <1>4, <1>6

LEMMA WithBeatContent ==
  ASSUME StoreInv, ContentInv, NEW ready \in BOOLEAN, NEW b \in Beat, CycleWithBeat(b, ready)
  PROVE  FullOK' /\ FillOK' /\ DrainOK'
<1> DEFINE fin == draining /\ Finish(ready)
<1>1. TReady /\ Fill(b) /\ Sink(ready) /\ Count(Stored(b), fin)
  BY DEF CycleWithBeat
<1>2. /\ draining' => fullCount > 0 /\ ~fin
      /\ drainSlot' = IF fin THEN NextSlot(drainSlot) ELSE drainSlot
  BY <1>1, DrainStep
<1>3. fin \in BOOLEAN /\ (fin => fullCount > 0) /\ (Stored(b) => fullCount < Slots)
  BY <1>1, FillStep DEF StoreInv, SidesOK
<1>4. FillOK' /\ (Stored(b) => Whole(mem', len', fillSlot))
  BY <1>1, FillContent DEF ContentInv
<1>5. \A k \in 1 .. fullCount : mem'[At(k)] = mem[At(k)] /\ len'[At(k)] = len[At(k)]
  BY <1>1, CycleKeepsSlots
<1>6. Stored(b) \in BOOLEAN
  BY DEF Stored
<1> HIDE DEF fin
<1>7. FullOK'
  BY <1>1, <1>2, <1>3, <1>4, <1>5, <1>6, FullKept DEF ContentInv
<1>8. DrainOK'
  BY <1>1, <1>5, DrainContent
<1>9. QED
  BY <1>4, <1>7, <1>8

LEMMA WithoutContent ==
  ASSUME StoreInv, ContentInv, NEW ready \in BOOLEAN, CycleWithout(ready)
  PROVE  FullOK' /\ FillOK' /\ DrainOK'
<1> DEFINE fin == draining /\ Finish(ready)
<1>1. FillIdle /\ Sink(ready) /\ Count(FALSE, fin)
  BY DEF CycleWithout
<1>2. drainSlot' = IF fin THEN NextSlot(drainSlot) ELSE drainSlot
  BY <1>1, DrainStep
<1>3. fin \in BOOLEAN /\ (fin => fullCount > 0)
  BY DEF StoreInv, SidesOK
<1>4. FillOK'
  BY <1>1 DEF ContentInv, FillOK, FillIdle, fill
<1>5. \A k \in 1 .. fullCount : mem'[At(k)] = mem[At(k)] /\ len'[At(k)] = len[At(k)]
  BY <1>1 DEF FillIdle
<1> HIDE DEF fin
<1>6. FullOK'
  BY <1>1, <1>2, <1>3, <1>5, FullKept DEF ContentInv
<1>7. DrainOK'
  BY <1>1, <1>5, DrainContent
<1>8. QED
  BY <1>4, <1>6, <1>7

(* The slots and registers hold what ContentInv says, in every run.        *)
LEMMA ContentInvariant == Spec => []ContentInv
<1>1. Init => FullOK /\ FillOK /\ DrainOK
  BY DEF Init, FullOK, FillOK, DrainOK
<1>2. StoreInv /\ ContentInv /\ [Next]_vars => FullOK' /\ FillOK' /\ DrainOK'
  <2> SUFFICES ASSUME StoreInv, ContentInv, [Next]_vars PROVE FullOK' /\ FillOK' /\ DrainOK'
    OBVIOUS
  <2>1. CASE UNCHANGED vars
    BY <2>1 DEF vars, fill, drain, ContentInv, FullOK, FillOK, DrainOK, At, Whole, Sent
  <2>2. ASSUME NEW ready \in BOOLEAN, Clock(ready) PROVE FullOK' /\ FillOK' /\ DrainOK'
    BY <2>2, WithBeatContent, WithoutContent DEF Clock
  <2>3. QED
    BY <2>1, <2>2 DEF Next
<1>3. NoOverrun /\ FullOK /\ FillOK /\ DrainOK <=> ContentInv
  BY DEF ContentInv
<1>4. QED
  BY <1>1, <1>2, <1>3, StoreInvariant, OverrunInvariant, PTL DEF Spec

----------------------------------------------------------------------------
(* How long a frame keeps its slot.  DrainLeft bounds the cycles with the   *)
(* DMA ready that it takes yet: two for each beat not read, and the rest.   *)

DrainLeft ==
  IF draining THEN 2 * (drainLen - rdCount) + (IF reading THEN 2 ELSE 1)
  ELSE 2 * Depth + 2

(* With the DMA ready each cycle uses one up or frees the slot; a DMA that  *)
(* is not ready, and whatever enters, cost nothing.                         *)
DrainComesCloser ==
  fullCount > 0 =>
    /\ Clock(TRUE) => Finish(TRUE) \/ DrainLeft' < DrainLeft
    /\ Clock(FALSE) => DrainLeft' <= DrainLeft

LEMMA DrainStepLeft ==
  ASSUME StoreInv, ContentInv, fullCount > 0, NEW ready \in BOOLEAN, Drain(ready)
  PROVE  /\ ready => Finish(ready) \/ DrainLeft' < DrainLeft
         /\ ~ready => DrainLeft' <= DrainLeft
<1> USE SizeAssumption
<1>1. /\ drainLen \in 0 .. Depth /\ rdCount \in 0 .. Depth /\ len[drainSlot] \in 0 .. Depth
      /\ drainSlot \in Slot /\ reading \in BOOLEAN /\ valid \in BOOLEAN /\ Depth \in Nat
  BY DEF StoreInv, TypeOK, TypeFill, TypeDrain
<1>2. draining =>
        /\ rdCount <= drainLen /\ ~(reading /\ valid)
        /\ Sent \in 0 .. drainLen - 1
        /\ valid => (out.last <=> Sent = drainLen - 1)
  <2> SUFFICES ASSUME draining
               PROVE  /\ rdCount <= drainLen /\ ~(reading /\ valid)
                      /\ Sent \in 0 .. drainLen - 1
                      /\ valid => (out.last <=> Sent = drainLen - 1)
    OBVIOUS
  <2>1. Whole(mem, len, drainSlot)
    BY AtFacts DEF ContentInv, FullOK
  <2>2. drainLen = len[drainSlot] /\ rdCount <= drainLen /\ Sent \in 0 .. drainLen - 1
        /\ (valid => out = mem[drainSlot][Sent])
    BY DEF ContentInv, DrainOK
  <2>3. ~(reading /\ valid)
    BY DEF ContentInv, NoOverrun
  <2>4. QED
    BY <2>1, <2>2, <2>3 DEF Whole
<1>3. CASE DrainStart
  <2>1. DrainLeft = 2 * Depth + 2 /\ DrainLeft' = 2 * len[drainSlot] + 1
    BY <1>1, <1>3 DEF DrainStart, DrainLeft
  <2>2. QED
    BY <1>1, <2>1
<1>4. CASE DrainIdle
  BY <1>1, <1>4 DEF DrainIdle
<1>5. CASE DrainFinish(ready)
  BY <1>5 DEF DrainFinish, Finish, Taken
<1>6. CASE DrainMove(ready)
  <2>1. /\ draining /\ ~Finish(ready) /\ draining' = draining /\ drainLen' = drainLen
        /\ reading' = ReadFire(ready)
        /\ rdCount' = IF ReadFire(ready) THEN rdCount + 1 ELSE rdCount
    BY <1>6 DEF DrainMove
  <2>2. ReadFire(ready) <=> (~valid \/ ready) /\ ~reading /\ rdCount < drainLen
    BY DEF ReadFire
  <2>3. CASE ReadFire(ready)
    <3>1. DrainLeft' = 2 * (drainLen - (rdCount + 1)) + 2
          /\ DrainLeft = 2 * (drainLen - rdCount) + 1
      BY <2>1, <2>2, <2>3 DEF DrainLeft
    <3>2. QED
      BY <1>1, <3>1
  <2>4. CASE ~ReadFire(ready)
    <3>1. DrainLeft' = 2 * (drainLen - rdCount) + 1
          /\ DrainLeft = 2 * (drainLen - rdCount) + (IF reading THEN 2 ELSE 1)
      BY <2>1, <2>4 DEF DrainLeft
    <3>2. ready => reading
      <4> SUFFICES ASSUME ready, ~reading PROVE FALSE
        OBVIOUS
      <4>0. ~(rdCount < drainLen) /\ rdCount <= drainLen /\ Sent \in 0 .. drainLen - 1
        BY <1>2, <2>1, <2>2, <2>4, Zenon
      <4>1. rdCount = drainLen /\ Sent \in 0 .. drainLen - 1
        BY <1>1, <4>0
      <4>2. Sent = rdCount - (IF valid THEN 1 ELSE 0)
        BY <1>1 DEF Sent
      <4>3. valid /\ Sent = drainLen - 1
        BY <1>1, <4>1, <4>2
      <4>4. out.last
        BY <1>2, <2>1, <4>3
      <4>5. QED
        BY <2>1, <4>3, <4>4 DEF Finish, Taken
    <3>3. QED
      BY <1>1, <3>1, <3>2
  <2>5. QED
    BY <2>3, <2>4
<1>7. QED
  BY <1>3, <1>4, <1>5, <1>6 DEF Drain

(* A stored frame leaves, and its slot is freed, after at most 2 Depth + 2  *)
(* cycles in which the DMA is ready, whatever the MAC sends meanwhile: full *)
(* slots hold a last beat where their length says.  This is what SlotFreed  *)
(* rests on.                                                                *)
THEOREM DrainBounded ==
  Spec => [](DrainLeft \in 1 .. 2 * Depth + 2) /\ [][DrainComesCloser]_vars
<1>1. StoreInv /\ ContentInv => DrainLeft \in 1 .. 2 * Depth + 2
  <2> SUFFICES ASSUME StoreInv, ContentInv PROVE DrainLeft \in 1 .. 2 * Depth + 2
    OBVIOUS
  <2>1. /\ Depth \in Nat /\ drainLen \in 0 .. Depth /\ rdCount \in 0 .. Depth
        /\ (draining => rdCount <= drainLen) /\ (draining /\ reading => rdCount > 0)
    BY SizeAssumption DEF StoreInv, TypeOK, TypeDrain, ContentInv, DrainOK
  <2>2. QED
    BY <2>1 DEF DrainLeft
<1>2. StoreInv /\ ContentInv /\ [Next]_vars => [DrainComesCloser]_vars
  <2> SUFFICES ASSUME StoreInv, ContentInv, fullCount > 0
               PROVE  /\ Clock(TRUE) => Finish(TRUE) \/ DrainLeft' < DrainLeft
                      /\ Clock(FALSE) => DrainLeft' <= DrainLeft
    BY DEF DrainComesCloser
  <2>1. ASSUME NEW ready \in BOOLEAN, Clock(ready) PROVE Drain(ready)
    BY <2>1 DEF Clock, CycleWithBeat, CycleWithout, Sink
  <2>2. QED
    BY <2>1, DrainStepLeft
<1>3. QED
  BY <1>1, <1>2, StoreInvariant, ContentInvariant, PTL DEF Spec

----------------------------------------------------------------------------
(* The refinement.  Piece is what is left of a frame after its first f      *)
(* beats.                                                                   *)

Piece(m, l, s, f) == [i \in 1 .. l[s] - f |-> m[s][f + i - 1]]

LEMMA FunctionIsSeq ==
  ASSUME NEW S, NEW n \in Nat, NEW f \in [1 .. n -> S]
  PROVE  f \in Seq(S) /\ Len(f) = n
<1>1. f \in Seq(S)
  BY SeqDef
<1>2. DOMAIN f = 1 .. n /\ DOMAIN f = 1 .. Len(f) /\ Len(f) \in Nat
  BY <1>1, LenProperties
<1>3. \A a, c \in Nat : 1 .. a = 1 .. c => a = c
  <2>1. SUFFICES ASSUME NEW a \in Nat, NEW c \in Nat, 1 .. a = 1 .. c PROVE a <= c /\ c <= a
    OBVIOUS
  <2>2. \A i \in Nat \ {0} : i \in 1 .. a <=> i \in 1 .. c
    BY <2>1
  <2>3. \A i \in Nat \ {0} : i <= a <=> i <= c
    BY <2>2
  <2>4. QED
    BY <2>3
<1>4. QED
  BY <1>1, <1>2, <1>3

LEMMA PieceIsSeq ==
  ASSUME NEW m, NEW l, NEW s, NEW f \in Nat, l[s] \in Nat, f < l[s], Whole(m, l, s)
  PROVE  /\ Piece(m, l, s, f) \in Seq(Beat) /\ Len(Piece(m, l, s, f)) = l[s] - f
         /\ \A i \in 1 .. l[s] - f : Piece(m, l, s, f)[i] = m[s][f + i - 1]
<1>1. \A i \in 1 .. l[s] - f : f + i - 1 \in 0 .. l[s] - 1
  OBVIOUS
<1>2. Piece(m, l, s, f) \in [1 .. l[s] - f -> Beat]
  BY <1>1 DEF Piece, Whole
<1>3. l[s] - f \in Nat
  OBVIOUS
<1>4. QED
  BY <1>2, <1>3, FunctionIsSeq DEF Piece

LEMMA PieceSame ==
  ASSUME NEW m, NEW l, NEW m2, NEW l2, NEW s, NEW f, m2[s] = m[s], l2[s] = l[s]
  PROVE  Piece(m2, l2, s, f) = Piece(m, l, s, f)
BY DEF Piece

LEMMA PieceTail ==
  ASSUME NEW m, NEW l, NEW s, NEW f \in Nat, l[s] \in Nat, f + 1 < l[s], Whole(m, l, s)
  PROVE  Tail(Piece(m, l, s, f)) = Piece(m, l, s, f + 1)
<1>1. /\ Piece(m, l, s, f) \in Seq(Beat) /\ Len(Piece(m, l, s, f)) = l[s] - f
      /\ \A i \in 1 .. l[s] - f : Piece(m, l, s, f)[i] = m[s][f + i - 1]
  BY PieceIsSeq
<1>2. /\ Piece(m, l, s, f + 1) \in Seq(Beat) /\ Len(Piece(m, l, s, f + 1)) = l[s] - (f + 1)
      /\ \A i \in 1 .. l[s] - (f + 1) : Piece(m, l, s, f + 1)[i] = m[s][f + 1 + i - 1]
  BY PieceIsSeq, f + 1 \in Nat
<1>3. Piece(m, l, s, f) # <<>>
  BY <1>1
<1>4. /\ Tail(Piece(m, l, s, f)) \in Seq(Beat)
      /\ Len(Tail(Piece(m, l, s, f))) = l[s] - f - 1
      /\ \A i \in 1 .. Len(Tail(Piece(m, l, s, f))) :
           Tail(Piece(m, l, s, f))[i] = Piece(m, l, s, f)[i + 1]
  BY <1>1, <1>3, HeadTailProperties
<1>5. \A i \in 1 .. l[s] - f - 1 : Tail(Piece(m, l, s, f))[i] = Piece(m, l, s, f + 1)[i]
  BY <1>1, <1>2, <1>4
<1>6. QED
  BY <1>2, <1>4, <1>5, SeqEqual

(* The abstract queue, frame by frame.                                     *)
QueueShape ==
  /\ Queue \in Seq(Seq(Beat)) /\ Len(Queue) = fullCount
  /\ \A k \in 1 .. fullCount :
       Queue[k] = Piece(mem, len, At(k), IF k = 1 THEN First ELSE 0)

LEMMA QueueIs == StoreInv /\ ContentInv => QueueShape
<1> SUFFICES ASSUME StoreInv, ContentInv PROVE QueueShape
  OBVIOUS
<1> USE DEF StoreInv, TypeOK, TypeFill
<1>1. fullCount \in Nat /\ \A k \in 1 .. fullCount : At(k) \in Slot /\ len[At(k)] \in Nat
  BY AtFacts, SizeAssumption
<1>2. \A k \in 1 .. fullCount :
        Queue[k] = Piece(mem, len, At(k), IF k = 1 THEN First ELSE 0)
  BY DEF Queue, FromSlot, Piece, At, First
<1>3. \A k \in 1 .. fullCount : Queue[k] \in Seq(Beat)
  <2>1. TAKE k \in 1 .. fullCount
  <2>2. Whole(mem, len, At(k))
    BY DEF ContentInv, FullOK
  <2>3. PICK f \in Nat : f = (IF k = 1 THEN First ELSE 0) /\ f < len[At(k)]
    <3>1. CASE k = 1
      BY <1>1, <3>1, FirstFacts, AtFacts
    <3>2. CASE k # 1
      BY <1>1, <2>2, <3>2 DEF Whole
    <3>3. QED
      BY <3>1, <3>2
  <2>4. QED
    BY <1>1, <1>2, <2>2, <2>3, PieceIsSeq
<1>4. Queue \in [1 .. fullCount -> Seq(Beat)]
  BY <1>3 DEF Queue
<1>5. QED
  BY <1>1, <1>2, <1>4, FunctionIsSeq DEF QueueShape

LEMMA QueueIsNext == StoreInv' /\ ContentInv' => QueueShape'
BY QueueIs, PTL

(* The frame going in.                                                     *)
FillingShape ==
  IF dropping \/ bad THEN Filling = [lost |-> TRUE, beats |-> <<>>]
  ELSE /\ Filling = [lost |-> FALSE, beats |-> Filling.beats]
       /\ Filling.beats \in Seq(Beat) /\ Len(Filling.beats) = wrPtr
       /\ \A i \in 1 .. wrPtr : Filling.beats[i] = mem[fillSlot][i - 1]

LEMMA FillingIs == StoreInv /\ ContentInv => FillingShape
<1> SUFFICES ASSUME StoreInv, ContentInv PROVE FillingShape
  OBVIOUS
<1>1. CASE dropping \/ bad
  BY <1>1 DEF FillingShape, Filling
<1>2. CASE ~(dropping \/ bad)
  <2> DEFINE beats == [k \in 1 .. wrPtr |-> mem[fillSlot][k - 1]]
  <2>1. Filling = [lost |-> FALSE, beats |-> beats]
    BY <1>2 DEF Filling
  <2>2. wrPtr \in Nat /\ \A k \in 1 .. wrPtr : k - 1 \in 0 .. wrPtr - 1
    BY SizeAssumption DEF StoreInv, TypeOK, TypeFill
  <2>3. beats \in [1 .. wrPtr -> Beat]
    BY <2>2 DEF ContentInv, FillOK
  <2>4. beats \in Seq(Beat) /\ Len(beats) = wrPtr
    BY <2>2, <2>3, FunctionIsSeq
  <2>5. Filling.beats = beats
    BY <2>1
  <2>6. QED
    BY <1>2, <2>1, <2>4, <2>5 DEF FillingShape
<1>3. QED
  BY <1>1, <1>2

LEMMA FillingIsNext == StoreInv' /\ ContentInv' => FillingShape'
BY FillingIs, PTL

(* A beat taken by the fill side enters the abstract buffer.               *)
LEMMA EnterMaps ==
  ASSUME StoreInv, ContentInv, StoreInv', ContentInv', NEW b \in Beat, TReady, Fill(b)
  PROVE  /\ Frames!Enter(b)
         /\ Frames!Completed(b) = IF Stored(b) THEN <<Append(Filling.beats, b)>> ELSE <<>>
         /\ Stored(b) => Append(Filling.beats, b) = Piece(mem', len', fillSlot, 0)
<1> USE SizeAssumption DEF StoreInv, TypeOK, TypeFill
<1>0. /\ wrPtr \in Nat /\ wrPtr < Depth /\ b.last \in BOOLEAN /\ b.err \in BOOLEAN
      /\ dropping \in BOOLEAN /\ bad \in BOOLEAN
  BY DEF Beat
<1>1. Filling.lost <=> dropping \/ bad
  BY FillingIs DEF FillingShape
<1>2. ~(dropping \/ bad) => /\ Filling.beats \in Seq(Beat) /\ Len(Filling.beats) = wrPtr
                            /\ \A i \in 1 .. wrPtr : Filling.beats[i] = mem[fillSlot][i - 1]
  BY FillingIs DEF FillingShape
<1>3. b.last => (Frames!Refused(b) <=> dropping \/ bad \/ b.err)
  BY <1>0, <1>1 DEF Frames!Refused
<1>4. ~b.last => (Frames!Refused(b) <=> dropping \/ bad \/ b.err \/ wrPtr + 1 = Depth)
  BY <1>0, <1>1, <1>2 DEF Frames!Refused
<1>5. Stored(b) <=> b.last /\ ~Frames!Refused(b)
  BY <1>0, <1>3 DEF Stored, Good
<1>6. FillingShape'
  BY FillingIsNext
<1>7. Frames!Enter(b)
  <2>1. CASE b.last
    <3>1. ~dropping' /\ ~bad' /\ wrPtr' = 0
      <4>1. CASE dropping
        <5>1. dropping' = FALSE /\ wrPtr' = 0 /\ bad' = FALSE
          BY <2>1, <4>1, Zenon DEF Fill, FillDrop
        <5>2. QED
          BY <5>1, Zenon
      <4>2. CASE ~dropping
        <5>1. bad' = BadNext(b) /\ dropping' = Overflow(b)
              /\ wrPtr' = IF b.last THEN 0 ELSE IF Overflow(b) THEN wrPtr ELSE wrPtr + 1
          BY <4>2 DEF Fill, FillActive
        <5>2. BadNext(b) = FALSE /\ ~Overflow(b)
          BY <2>1 DEF BadNext, Overflow
        <5>3. QED
          BY <2>1, <5>1, <5>2, Zenon
      <4>3. QED
        BY <4>1, <4>2
    <3>2. /\ Filling' = [lost |-> FALSE, beats |-> Filling'.beats]
          /\ Filling'.beats \in Seq(Beat) /\ Len(Filling'.beats) = 0
      BY <1>6, <3>1 DEF FillingShape
    <3>3. Filling'.beats = <<>>
      BY <3>2, EmptySeq
    <3>4. Filling' = [lost |-> FALSE, beats |-> <<>>]
      BY <3>2, <3>3
    <3>5. QED
      BY <2>1, <3>4 DEF Frames!Enter, Frames!Empty
  <2>2. CASE ~b.last /\ Frames!Refused(b)
    <3>1. dropping' \/ bad'
      <4>1. CASE dropping
        BY <2>2, <4>1 DEF Fill, FillDrop
      <4>2. CASE ~dropping
        <5>1. bad' = (bad \/ b.err \/ Overflow(b))
          BY <2>2, <4>2, Zenon DEF Fill, FillActive, BadNext
        <5>2. bad \/ b.err \/ Overflow(b)
          BY <1>0, <1>4, <2>2, <4>2 DEF Overflow
        <5>3. QED
          BY <5>1, <5>2, Zenon
      <4>3. QED
        BY <4>1, <4>2
    <3>2. Filling' = [lost |-> TRUE, beats |-> <<>>]
      BY <1>6, <3>1 DEF FillingShape
    <3>3. QED
      BY <2>2, <3>2 DEF Frames!Enter
  <2>3. CASE ~b.last /\ ~Frames!Refused(b)
    <3>1. ~dropping /\ ~bad /\ ~b.err /\ wrPtr + 1 # Depth /\ ~Overflow(b)
      BY <1>0, <1>4, <2>3 DEF Overflow
    <3>2. /\ mem'[fillSlot] = [mem[fillSlot] EXCEPT ![wrPtr] = b]
          /\ bad' = BadNext(b) /\ dropping' = Overflow(b)
          /\ wrPtr' = IF b.last THEN 0 ELSE IF Overflow(b) THEN wrPtr ELSE wrPtr + 1
          /\ fillSlot' = IF Good(b) THEN NextSlot(fillSlot) ELSE fillSlot
      BY <3>1 DEF Fill, FillActive
    <3>3. ~dropping' /\ ~bad' /\ wrPtr' = wrPtr + 1 /\ fillSlot' = fillSlot
      <4>1. BadNext(b) = FALSE /\ ~Good(b)
        BY <2>3, <3>1 DEF BadNext, Good
      <4>2. QED
        BY <2>3, <3>1, <3>2, <4>1, Zenon
    <3>4. /\ Filling' = [lost |-> FALSE, beats |-> Filling'.beats]
          /\ Filling'.beats \in Seq(Beat) /\ Len(Filling'.beats) = wrPtr + 1
          /\ \A i \in 1 .. wrPtr + 1 : Filling'.beats[i] = mem'[fillSlot][i - 1]
      BY <1>6, <3>3 DEF FillingShape
    <3>5. /\ Append(Filling.beats, b) \in Seq(Beat)
          /\ Len(Append(Filling.beats, b)) = wrPtr + 1
          /\ \A i \in 1 .. wrPtr : Append(Filling.beats, b)[i] = mem[fillSlot][i - 1]
          /\ Append(Filling.beats, b)[wrPtr + 1] = b
      BY <1>2, <3>1, AppendProperties
    <3>6. \A i \in 1 .. wrPtr + 1 : Filling'.beats[i] = Append(Filling.beats, b)[i]
      <4>1. \A i \in 1 .. wrPtr : mem'[fillSlot][i - 1] = mem[fillSlot][i - 1]
        BY <1>0, <3>2
      <4>2. mem'[fillSlot][wrPtr] = b
        BY <1>0, <3>2
      <4>3. TAKE i \in 1 .. wrPtr + 1
      <4>4. CASE i = wrPtr + 1
        BY <1>0, <3>4, <3>5, <4>2, <4>4
      <4>5. CASE i \in 1 .. wrPtr
        BY <1>0, <3>4, <3>5, <4>1, <4>5
      <4>6. i = wrPtr + 1 \/ i \in 1 .. wrPtr
        BY <1>0
      <4>7. QED
        BY <4>4, <4>5, <4>6
    <3>7. Filling'.beats = Append(Filling.beats, b)
      BY <1>0, <3>4, <3>5, <3>6, SeqEqual
    <3>8. Filling' = [lost |-> FALSE, beats |-> Append(Filling.beats, b)]
      BY <3>4, <3>7
    <3>9. QED
      BY <2>3, <3>8 DEF Frames!Enter
  <2>4. QED
    BY <2>1, <2>2, <2>3
<1>8. Frames!Completed(b) = IF Stored(b) THEN <<Append(Filling.beats, b)>> ELSE <<>>
  BY <1>5 DEF Frames!Completed
<1>9. ASSUME Stored(b) PROVE Append(Filling.beats, b) = Piece(mem', len', fillSlot, 0)
  <2>1. ~dropping /\ ~bad
    BY <1>9 DEF Stored, Good
  <2>2. /\ Append(Filling.beats, b) \in Seq(Beat)
        /\ Len(Append(Filling.beats, b)) = wrPtr + 1
        /\ \A i \in 1 .. wrPtr : Append(Filling.beats, b)[i] = mem[fillSlot][i - 1]
        /\ Append(Filling.beats, b)[wrPtr + 1] = b
    <3>1. /\ Filling.beats \in Seq(Beat) /\ Len(Filling.beats) = wrPtr
          /\ \A i \in 1 .. wrPtr : Filling.beats[i] = mem[fillSlot][i - 1]
      BY <1>2, <2>1
    <3>2. QED
      BY <3>1, AppendProperties
  <2>3. /\ Whole(mem', len', fillSlot) /\ len'[fillSlot] = wrPtr + 1
        /\ mem'[fillSlot] = [mem[fillSlot] EXCEPT ![wrPtr] = b]
    BY <1>9, FillContent DEF ContentInv
  <2>4. /\ Piece(mem', len', fillSlot, 0) \in Seq(Beat)
        /\ Len(Piece(mem', len', fillSlot, 0)) = wrPtr + 1
        /\ \A i \in 1 .. wrPtr + 1 : Piece(mem', len', fillSlot, 0)[i] = mem'[fillSlot][i - 1]
    BY <1>0, <2>3, PieceIsSeq, 0 \in Nat
  <2>5. \A i \in 1 .. wrPtr + 1 :
          Append(Filling.beats, b)[i] = Piece(mem', len', fillSlot, 0)[i]
    <3>1. \A i \in 1 .. wrPtr : mem'[fillSlot][i - 1] = mem[fillSlot][i - 1]
      BY <1>0, <2>3
    <3>2. mem'[fillSlot][wrPtr] = b
      BY <1>0, <2>3
    <3>3. QED
      BY <1>0, <2>2, <2>4, <3>1, <3>2
  <2>6. QED
    BY <2>2, <2>4, <2>5, SeqEqual
<1>10. QED
  BY <1>7, <1>8, <1>9

LEMMA ConsShape ==
  ASSUME NEW T, NEW x \in T, NEW t \in Seq(T)
  PROVE  /\ <<x>> \o t \in Seq(T) /\ Len(<<x>> \o t) = Len(t) + 1 /\ (<<x>> \o t)[1] = x
         /\ \A i \in 2 .. Len(t) + 1 : (<<x>> \o t)[i] = t[i - 1]
<1>1. <<x>> \in Seq(T) /\ Len(<<x>>) = 1 /\ <<x>>[1] = x /\ Len(t) \in Nat
  BY LenProperties
<1>2. /\ <<x>> \o t \in Seq(T) /\ Len(<<x>> \o t) = 1 + Len(t)
      /\ \A i \in 1 .. 1 + Len(t) : (<<x>> \o t)[i] = IF i <= 1 THEN <<x>>[i] ELSE t[i - 1]
  BY <1>1, ConcatProperties
<1>3. QED
  BY <1>1, <1>2

(* A queue whose first frame has lost its first beat.                      *)
LEMMA HeadShortened ==
  ASSUME NEW S, NEW q \in Seq(Seq(S)), q # <<>>, q[1] # <<>>
  PROVE  LET r == <<Tail(q[1])>> \o Tail(q)
         IN  /\ r \in Seq(Seq(S)) /\ Len(r) = Len(q) /\ r[1] = Tail(q[1])
             /\ \A i \in 2 .. Len(q) : r[i] = q[i]
<1>1. /\ Len(q) \in Nat /\ Len(q) >= 1 /\ q[1] \in Seq(S)
      /\ Tail(q) \in Seq(Seq(S)) /\ Len(Tail(q)) = Len(q) - 1
      /\ \A i \in 1 .. Len(Tail(q)) : Tail(q)[i] = q[i + 1]
  BY HeadTailProperties, EmptySeq, LenProperties
<1>2. Tail(q[1]) \in Seq(S)
  BY <1>1, HeadTailProperties
<1>3. \A i \in 2 .. Len(q) : Tail(q)[i - 1] = q[i] /\ i \in 2 .. Len(Tail(q)) + 1
  BY <1>1
<1> DEFINE r == <<Tail(q[1])>> \o Tail(q)
<1>4. /\ r \in Seq(Seq(S)) /\ Len(r) = Len(Tail(q)) + 1 /\ r[1] = Tail(q[1])
      /\ \A i \in 2 .. Len(Tail(q)) + 1 : r[i] = Tail(q)[i - 1]
  BY <1>1, <1>2, ConsShape
<1> HIDE DEF r
<1>5. Len(r) = Len(q) /\ \A i \in 2 .. Len(q) : r[i] = q[i]
  BY <1>1, <1>3, <1>4
<1>6. QED
  BY <1>4, <1>5 DEF r

(* A queue with the same frames and one more.                              *)
LEMMA QueueGrows ==
  ASSUME NEW S, NEW r \in Seq(Seq(S)), NEW r2 \in Seq(Seq(S)), NEW e \in Seq(S),
         Len(r2) = Len(r) + 1, \A i \in 1 .. Len(r) : r2[i] = r[i], r2[Len(r) + 1] = e
  PROVE  r2 = r \o <<e>>
<1>1. <<e>> \in Seq(Seq(S)) /\ Len(<<e>>) = 1 /\ <<e>>[1] = e /\ Len(r) \in Nat
  BY LenProperties
<1>2. /\ r \o <<e>> \in Seq(Seq(S)) /\ Len(r \o <<e>>) = Len(r) + 1
      /\ \A i \in 1 .. Len(r) + 1 :
           (r \o <<e>>)[i] = IF i <= Len(r) THEN r[i] ELSE <<e>>[i - Len(r)]
  BY <1>1, ConcatProperties
<1>3. \A i \in 1 .. Len(r2) : r2[i] = (r \o <<e>>)[i]
  <2>1. TAKE i \in 1 .. Len(r2)
  <2>2. CASE i = Len(r) + 1
    BY <1>1, <1>2, <2>2
  <2>3. CASE i \in 1 .. Len(r)
    BY <1>1, <1>2, <2>3
  <2>4. QED
    BY <1>1, <2>2, <2>3
<1>4. QED
  BY <1>2, <1>3, SeqEqual

(* What leaves the output register leaves the abstract queue.  Left is the  *)
(* queue after that, before a frame is added.                               *)
Left(taken) == IF taken THEN Frames!Shorter ELSE Queue

(* The drain side of a cycle: nothing leaves, a beat, or a frame's last.    *)
Moved(ready) ==
  /\ Taken(ready) => draining /\ wire' = mem[drainSlot][First]
  /\ ~Taken(ready) => First' = First /\ wire' = wire
  /\ Taken(ready) /\ ~Finish(ready) => First' = First + 1
  /\ Finish(ready) => Taken(ready) /\ First' = 0
  /\ Taken(ready) => (Finish(ready) <=> First = len[drainSlot] - 1)

LEMMA MovedHolds ==
  ASSUME StoreInv, ContentInv, NEW ready \in BOOLEAN, Sink(ready),
         \A k \in 1 .. fullCount : mem'[At(k)] = mem[At(k)] /\ len'[At(k)] = len[At(k)]
  PROVE  Moved(ready) /\ (draining /\ Finish(ready) <=> Finish(ready))
<1>1. /\ Taken(ready) => draining /\ wire' = mem[drainSlot][First]
      /\ ~Taken(ready) => First' = First /\ wire' = wire
      /\ Taken(ready) /\ ~Finish(ready) => First' = First + 1
      /\ Finish(ready) => draining /\ ~draining'
  BY DrainContent
<1>2. Finish(ready) => Taken(ready) /\ First' = 0
  BY <1>1 DEF Finish, First
<1>3. ASSUME Taken(ready) PROVE Finish(ready) <=> First = len[drainSlot] - 1
  <2>1. draining /\ valid /\ fullCount > 0
    BY <1>1, <1>3 DEF Taken, StoreInv, SidesOK
  <2>2. Whole(mem, len, drainSlot)
    BY <2>1, AtFacts DEF ContentInv, FullOK
  <2>3. out = mem[drainSlot][Sent] /\ Sent \in 0 .. len[drainSlot] - 1 /\ First = Sent
    BY <2>1 DEF ContentInv, DrainOK, First
  <2>4. out.last <=> Sent = len[drainSlot] - 1
    BY <2>2, <2>3 DEF Whole
  <2>5. QED
    BY <1>3, <2>3, <2>4 DEF Finish
<1>4. QED
  BY <1>1, <1>2, <1>3 DEF Moved

(* The queue after what left it is the beginning of the next queue.        *)
LEMMA LeftNext ==
  ASSUME StoreInv, ContentInv, StoreInv', ContentInv', NEW ready \in BOOLEAN, Moved(ready),
         \A k \in 1 .. fullCount : mem'[At(k)] = mem[At(k)] /\ len'[At(k)] = len[At(k)],
         NEW n \in Nat, n = fullCount - (IF Finish(ready) THEN 1 ELSE 0), n <= fullCount',
         \A k \in 1 .. n : At(k)' = At(IF Finish(ready) THEN k + 1 ELSE k)
  PROVE  /\ Taken(ready) => Queue # <<>> /\ wire' = Head(Head(Queue))
         /\ Left(Taken(ready)) \in Seq(Seq(Beat)) /\ Len(Left(Taken(ready))) = n
         /\ \A k \in 1 .. n : Queue'[k] = Left(Taken(ready))[k]
<1>1. QueueShape /\ QueueShape'
  BY QueueIs, QueueIsNext
<1>2. /\ Queue \in Seq(Seq(Beat)) /\ Len(Queue) = fullCount /\ fullCount \in Nat
      /\ \A k \in 1 .. fullCount :
           Queue[k] = Piece(mem, len, At(k), IF k = 1 THEN First ELSE 0)
  BY <1>1, AtFacts DEF QueueShape
<1>3. /\ fullCount' \in Nat
      /\ \A k \in 1 .. fullCount' :
           Queue'[k] = Piece(mem', len', At(k)', IF k = 1 THEN First' ELSE 0)
  BY <1>1 DEF QueueShape, StoreInv, TypeOK
<1>4. \A k \in 1 .. n :
        Queue'[k] = Piece(mem, len, At(IF Finish(ready) THEN k + 1 ELSE k),
                          IF k = 1 THEN First' ELSE 0)
  <2>1. TAKE k \in 1 .. n
  <2>2. k \in 1 .. fullCount'
    BY <1>3
  <2>3. PICK j \in 1 .. fullCount : j = (IF Finish(ready) THEN k + 1 ELSE k)
    BY <1>2
  <2>4. Queue'[k] = Piece(mem', len', At(j), IF k = 1 THEN First' ELSE 0)
    BY <1>3, <2>2, <2>3
  <2>5. mem'[At(j)] = mem[At(j)] /\ len'[At(j)] = len[At(j)]
    OBVIOUS
  <2>6. QED
    BY <2>3, <2>4, <2>5, PieceSame
<1>5. CASE ~Taken(ready)
  <2>1. First' = First /\ ~Finish(ready) /\ n = fullCount
    BY <1>2, <1>5 DEF Moved
  <2>2. \A k \in 1 .. n : Queue'[k] = Queue[k]
    BY <1>2, <1>4, <2>1
  <2>3. Left(Taken(ready)) = Queue
    BY <1>5 DEF Left
  <2>4. QED
    BY <1>2, <1>5, <2>1, <2>2, <2>3
<1>6. ASSUME Taken(ready)
      PROVE  /\ fullCount > 0 /\ Whole(mem, len, drainSlot) /\ len[drainSlot] \in Nat
             /\ First \in Nat /\ First < len[drainSlot]
             /\ Queue # <<>> /\ Queue[1] = Piece(mem, len, drainSlot, First)
             /\ Queue[1] \in Seq(Beat) /\ Len(Queue[1]) = len[drainSlot] - First
             /\ Queue[1] # <<>> /\ Head(Queue) = Queue[1]
             /\ Head(Queue[1]) = mem[drainSlot][First]
  <2>1. draining /\ fullCount > 0
    BY <1>6 DEF Moved, StoreInv, SidesOK
  <2>2. Whole(mem, len, drainSlot)
    BY <1>2, <2>1, AtFacts DEF ContentInv, FullOK
  <2>3. len[drainSlot] \in Nat /\ First \in Nat /\ First < len[drainSlot]
    BY <2>1, FirstFacts
  <2>4. Queue[1] = Piece(mem, len, drainSlot, First)
    BY <1>2, <2>1, AtFacts
  <2>5. /\ Queue[1] \in Seq(Beat) /\ Len(Queue[1]) = len[drainSlot] - First
        /\ \A i \in 1 .. len[drainSlot] - First : Queue[1][i] = mem[drainSlot][First + i - 1]
    BY <2>2, <2>3, <2>4, PieceIsSeq
  <2>6. Queue # <<>> /\ Queue[1] # <<>>
    BY <1>2, <2>1, <2>3, <2>5
  <2>7. Head(Queue) = Queue[1] /\ Head(Queue[1]) = Queue[1][1]
    BY <1>2, <2>5, <2>6
  <2>8. Queue[1][1] = mem[drainSlot][First]
    BY <2>3, <2>5
  <2>9. QED
    BY <2>1, <2>2, <2>3, <2>4, <2>5, <2>6, <2>7, <2>8
<1>7. CASE Taken(ready) /\ ~Finish(ready)
  <2>0. /\ fullCount > 0 /\ Whole(mem, len, drainSlot) /\ len[drainSlot] \in Nat
        /\ First \in Nat /\ First < len[drainSlot] /\ Queue # <<>>
        /\ Queue[1] = Piece(mem, len, drainSlot, First)
        /\ Queue[1] \in Seq(Beat) /\ Len(Queue[1]) = len[drainSlot] - First
        /\ Queue[1] # <<>> /\ Head(Queue) = Queue[1]
        /\ Head(Queue[1]) = mem[drainSlot][First]
    BY <1>6, <1>7, Zenon
  <2>1. First' = First + 1 /\ First # len[drainSlot] - 1 /\ n = fullCount
        /\ wire' = mem[drainSlot][First]
    BY <1>2, <1>7 DEF Moved
  <2>2. Left(Taken(ready)) = <<Tail(Queue[1])>> \o Tail(Queue)
    <3>1. \A l, f \in Nat : f # l - 1 => l - f # 1
      OBVIOUS
    <3>2. len[drainSlot] - First # 1
      BY <2>0, <2>1, <3>1, Zenon
    <3>3. Len(Head(Queue)) # 1
      BY <2>0, <3>2, Zenon
    <3>4. QED
      BY <1>7, <2>0, <3>3, Zenon DEF Left, Frames!Shorter
  <2>3. /\ Left(Taken(ready)) \in Seq(Seq(Beat)) /\ Len(Left(Taken(ready))) = Len(Queue)
        /\ Left(Taken(ready))[1] = Tail(Queue[1])
        /\ \A i \in 2 .. Len(Queue) : Left(Taken(ready))[i] = Queue[i]
    <3> DEFINE r == <<Tail(Queue[1])>> \o Tail(Queue)
    <3>1. /\ r \in Seq(Seq(Beat)) /\ Len(r) = Len(Queue) /\ r[1] = Tail(Queue[1])
          /\ \A i \in 2 .. Len(Queue) : r[i] = Queue[i]
      <4>1. Queue \in Seq(Seq(Beat)) /\ Queue # <<>> /\ Queue[1] # <<>>
        BY <1>2, <2>0, Zenon
      <4>2. QED
        BY <4>1, HeadShortened
    <3> HIDE DEF r
    <3>2. Left(Taken(ready)) = r
      BY <2>2 DEF r
    <3>3. QED
      BY <3>1, <3>2
  <2>4. Tail(Queue[1]) = Piece(mem, len, drainSlot, First + 1)
    <3>1. \A l, f \in Nat : f < l /\ f # l - 1 => f + 1 < l
      OBVIOUS
    <3>2. First + 1 < len[drainSlot]
      BY <2>0, <2>1, <3>1, Zenon
    <3>3. Tail(Piece(mem, len, drainSlot, First)) = Piece(mem, len, drainSlot, First + 1)
      BY <2>0, <3>2, PieceTail, Zenon
    <3>4. QED
      BY <2>0, <3>3, Zenon
  <2>5. \A k \in 1 .. n : Queue'[k] = Left(Taken(ready))[k]
    <3>1. TAKE k \in 1 .. n
    <3>2. Queue'[k] = Piece(mem, len, At(k), IF k = 1 THEN First' ELSE 0)
      BY <1>4, <1>7, Zenon
    <3>3. CASE k = 1
      <4>1. At(1) = drainSlot
        BY AtFacts
      <4>2. Queue'[1] = Piece(mem, len, drainSlot, First + 1)
        BY <2>1, <3>2, <3>3, <4>1, Zenon
      <4>3. QED
        BY <2>3, <2>4, <3>3, <4>2, Zenon
    <3>4. CASE k \in 2 .. fullCount
      <4>1. k # 1 /\ k \in 1 .. fullCount
        BY <1>2, <3>4
      <4>2. Queue[k] = Piece(mem, len, At(k), 0)
        BY <1>2, <4>1, Zenon
      <4>3. Queue'[k] = Queue[k]
        BY <3>2, <4>1, <4>2, Zenon
      <4>4. QED
        BY <1>2, <2>3, <3>4, <4>3, Zenon
    <3>5. k = 1 \/ k \in 2 .. fullCount
      BY <1>2, <2>1
    <3>6. QED
      BY <3>3, <3>4, <3>5, Zenon
  <2>6. QED
    BY <1>2, <2>0, <2>1, <2>3, <2>5, Zenon
<1>8. CASE Finish(ready)
  <2>1. /\ Taken(ready) /\ First' = 0 /\ First = len[drainSlot] - 1 /\ n = fullCount - 1
        /\ wire' = mem[drainSlot][First]
    BY <1>2, <1>8 DEF Moved
  <2>0. /\ len[drainSlot] \in Nat /\ Queue # <<>>
        /\ Len(Queue[1]) = len[drainSlot] - First
        /\ Head(Queue) = Queue[1] /\ Head(Queue[1]) = mem[drainSlot][First]
    BY <1>6, <2>1, Zenon
  <2>2. Left(Taken(ready)) = Tail(Queue)
    <3>1. \A l \in Nat : l - (l - 1) = 1
      OBVIOUS
    <3>2. Len(Head(Queue)) = 1
      BY <2>0, <2>1, <3>1, Zenon
    <3>3. QED
      BY <2>1, <3>2, Zenon DEF Left, Frames!Shorter
  <2>3. /\ Tail(Queue) \in Seq(Seq(Beat)) /\ Len(Tail(Queue)) = Len(Queue) - 1
        /\ \A i \in 1 .. Len(Tail(Queue)) : Tail(Queue)[i] = Queue[i + 1]
    BY <1>2, <2>0, HeadTailProperties
  <2>4. \A k \in 1 .. n : Queue'[k] = Tail(Queue)[k]
    <3>1. TAKE k \in 1 .. n
    <3>2. k + 1 \in 1 .. fullCount /\ k + 1 # 1 /\ k \in 1 .. Len(Tail(Queue))
      BY <1>2, <2>1, <2>3
    <3>3. Queue[k + 1] = Piece(mem, len, At(k + 1), 0)
      BY <1>2, <3>2, Zenon
    <3>4. Queue'[k] = Piece(mem, len, At(k + 1), 0)
      BY <1>4, <1>8, <2>1, Zenon
    <3>5. QED
      BY <2>3, <3>2, <3>3, <3>4, Zenon
  <2>5. Len(Tail(Queue)) = n
    BY <1>2, <2>1, <2>3
  <2>6. QED
    BY <2>0, <2>1, <2>2, <2>3, <2>4, <2>5, Zenon
<1>9. Finish(ready) => Taken(ready)
  BY DEF Finish
<1>10. QED
  BY <1>5, <1>7, <1>8, <1>9, Zenon

(* One cycle on the abstract queue: what left is gone, what was stored, e,  *)
(* is behind it.                                                            *)
LEMMA QueueMoves ==
  ASSUME StoreInv, ContentInv, StoreInv', ContentInv', NEW ready \in BOOLEAN, Sink(ready),
         NEW stored \in BOOLEAN, Count(stored, draining /\ Finish(ready)),
         stored => fullCount < Slots,
         \A k \in 1 .. fullCount : mem'[At(k)] = mem[At(k)] /\ len'[At(k)] = len[At(k)],
         stored => Whole(mem', len', fillSlot),
         NEW e \in Seq(Beat), stored => e = Piece(mem', len', fillSlot, 0)
  PROVE  /\ Taken(ready) => Queue # <<>> /\ wire' = Head(Head(Queue))
         /\ ~Taken(ready) => wire' = wire
         /\ Left(Taken(ready)) \in Seq(Seq(Beat))
         /\ Queue' = Left(Taken(ready)) \o (IF stored THEN <<e>> ELSE <<>>)
<1>1. Moved(ready) /\ (draining /\ Finish(ready) <=> Finish(ready))
  BY MovedHolds
<1>2. /\ draining' => fullCount > 0 /\ ~(draining /\ Finish(ready))
      /\ drainSlot' = IF draining /\ Finish(ready) THEN NextSlot(drainSlot) ELSE drainSlot
  BY DrainStep
<1>3. Finish(ready) \in BOOLEAN /\ Taken(ready) \in BOOLEAN
  BY Zenon DEF Finish, Taken
<1>4. fullCount \in Nat /\ (Finish(ready) => fullCount > 0)
  BY <1>1, AtFacts DEF StoreInv, SidesOK
<1>5. Count(stored, Finish(ready))
  BY <1>1, Zenon DEF Count
<1>6. drainSlot' = IF Finish(ready) THEN NextSlot(drainSlot) ELSE drainSlot
  BY <1>1, <1>2, Zenon
<1>7. /\ fullCount' = fullCount - (IF Finish(ready) THEN 1 ELSE 0) + (IF stored THEN 1 ELSE 0)
      /\ \A k \in 1 .. fullCount - (IF Finish(ready) THEN 1 ELSE 0) :
           At(k)' = At(IF Finish(ready) THEN k + 1 ELSE k)
      /\ \A k : stored /\ k = fullCount' => At(k)' = fillSlot
  BY <1>3, <1>4, <1>5, <1>6, FullKept DEF ContentInv
<1>8. PICK n \in Nat : n = fullCount - (IF Finish(ready) THEN 1 ELSE 0)
  BY <1>4
<1>9. fullCount' = n + (IF stored THEN 1 ELSE 0) /\ n <= fullCount'
  BY <1>4, <1>7, <1>8
<1>10. \A k \in 1 .. n : At(k)' = At(IF Finish(ready) THEN k + 1 ELSE k)
  BY <1>7, <1>8, Zenon
<1>11. /\ Taken(ready) => Queue # <<>> /\ wire' = Head(Head(Queue))
       /\ Left(Taken(ready)) \in Seq(Seq(Beat)) /\ Len(Left(Taken(ready))) = n
       /\ \A k \in 1 .. n : Queue'[k] = Left(Taken(ready))[k]
  BY <1>1, <1>8, <1>9, <1>10, LeftNext
<1>12. /\ Queue' \in Seq(Seq(Beat)) /\ Len(Queue') = fullCount'
       /\ \A k \in 1 .. fullCount' :
            Queue'[k] = Piece(mem', len', At(k)', IF k = 1 THEN First' ELSE 0)
  BY QueueIsNext, Zenon DEF QueueShape
<1>13. CASE stored
  <2>1. fullCount' = n + 1 /\ n + 1 \in 1 .. fullCount'
    BY <1>9, <1>13
  <2>2. At(n + 1)' = fillSlot
    BY <1>7, <1>13, <2>1, Zenon
  <2>3. n + 1 = 1 => First' = 0
    <3>1. ASSUME n + 1 = 1 PROVE ~draining'
      BY <1>1, <1>2, <1>4, <1>8, <3>1
    <3>2. QED
      BY <3>1 DEF First
  <2>4. Queue'[n + 1] = Piece(mem', len', fillSlot, 0)
    BY <1>12, <2>1, <2>2, <2>3, Zenon
  <2>5. Queue'[n + 1] = e
    BY <1>13, <2>4, Zenon
  <2> DEFINE q == Queue'
             l == Left(Taken(ready))
  <2>6. /\ q \in Seq(Seq(Beat)) /\ l \in Seq(Seq(Beat)) /\ Len(q) = Len(l) + 1
        /\ (\A i \in 1 .. Len(l) : q[i] = l[i]) /\ q[Len(l) + 1] = e
    BY <1>11, <1>12, <2>1, <2>5, Zenon
  <2> HIDE DEF q, l
  <2>7. q = l \o <<e>>
    BY <2>6, QueueGrows
  <2>8. QED
    BY <1>1, <1>11, <1>13, <2>7, Zenon DEF q, l, Moved
<1>14. CASE ~stored
  <2>1. fullCount' = n
    BY <1>9, <1>14
  <2> DEFINE q == Queue'
             l == Left(Taken(ready))
  <2>2. /\ q \in Seq(Seq(Beat)) /\ l \in Seq(Seq(Beat)) /\ Len(q) = Len(l)
        /\ \A i \in 1 .. Len(q) : q[i] = l[i]
    BY <1>11, <1>12, <2>1, Zenon
  <2> HIDE DEF q, l
  <2>3. q = l
    BY <2>2, SeqEqual
  <2>4. l \o <<>> = l
    BY <2>2, ConcatEmptySeq
  <2>5. QED
    BY <1>1, <1>11, <1>14, <2>3, <2>4, Zenon DEF q, l, Moved
<1>15. QED
  BY <1>13, <1>14

LEMMA BeatMaps ==
  ASSUME StoreInv, ContentInv, StoreInv', ContentInv', NEW ready \in BOOLEAN, NEW b \in Beat,
         CycleWithBeat(b, ready)
  PROVE  Frames!Receive \/ Frames!Emit
<1>1. TReady /\ Fill(b) /\ Sink(ready) /\ Count(Stored(b), draining /\ Finish(ready))
  BY DEF CycleWithBeat
<1>2. /\ Frames!Enter(b)
      /\ Frames!Completed(b) = IF Stored(b) THEN <<Append(Filling.beats, b)>> ELSE <<>>
      /\ Stored(b) => Append(Filling.beats, b) = Piece(mem', len', fillSlot, 0)
  BY <1>1, EnterMaps
<1>3. (Stored(b) => fullCount < Slots) /\ Stored(b) \in BOOLEAN
  BY <1>1, FillStep DEF Stored
<1>4. Stored(b) => Whole(mem', len', fillSlot)
  BY <1>1, FillContent DEF ContentInv
<1>5. \A k \in 1 .. fullCount : mem'[At(k)] = mem[At(k)] /\ len'[At(k)] = len[At(k)]
  BY <1>1, CycleKeepsSlots
<1>6. PICK e \in Seq(Beat) : Stored(b) => e = Append(Filling.beats, b)
  <2>1. CASE Stored(b)
    <3>1. ~(dropping \/ bad)
      BY <2>1 DEF Stored, Good
    <3>2. Filling.beats \in Seq(Beat)
      BY <3>1, FillingIs DEF FillingShape
    <3>3. Append(Filling.beats, b) \in Seq(Beat)
      BY <3>2, AppendProperties
    <3>4. QED
      BY <3>3
  <2>2. CASE ~Stored(b)
    <3>1. <<>> \in Seq(Beat)
      OBVIOUS
    <3>2. QED
      BY <2>2, <3>1
  <2>3. QED
    BY <2>1, <2>2
<1>7. Stored(b) => e = Piece(mem', len', fillSlot, 0)
  BY <1>2, <1>6, Zenon
<1>8. /\ Taken(ready) => Queue # <<>> /\ wire' = Head(Head(Queue))
      /\ ~Taken(ready) => wire' = wire
      /\ Queue' = Left(Taken(ready)) \o (IF Stored(b) THEN <<e>> ELSE <<>>)
  BY <1>1, <1>3, <1>4, <1>5, <1>7, QueueMoves
<1>9. Queue' = Left(Taken(ready)) \o Frames!Completed(b)
  BY <1>2, <1>6, <1>8, Zenon
<1>10. CASE Taken(ready)
  <2>1. Queue' = Frames!Shorter \o Frames!Completed(b)
    BY <1>9, <1>10, Zenon DEF Left
  <2>2. QED
    BY <1>2, <1>8, <1>10, <2>1, Zenon DEF Frames!Emit
<1>11. CASE ~Taken(ready)
  <2>1. Queue' = Queue \o Frames!Completed(b)
    BY <1>9, <1>11, Zenon DEF Left
  <2>2. QED
    BY <1>2, <1>8, <1>11, <2>1, Zenon DEF Frames!Receive
<1>12. QED
  BY <1>10, <1>11

LEMMA NoBeatMaps ==
  ASSUME StoreInv, ContentInv, StoreInv', ContentInv', NEW ready \in BOOLEAN, CycleWithout(ready)
  PROVE  Frames!Emit \/ UNCHANGED Frames!vars
<1>1. FillIdle /\ Sink(ready) /\ Count(FALSE, draining /\ Finish(ready))
  BY DEF CycleWithout
<1>2. mem' = mem /\ len' = len /\ Filling' = Filling
  BY <1>1 DEF FillIdle, fill, Filling
<1>3. \A k \in 1 .. fullCount : mem'[At(k)] = mem[At(k)] /\ len'[At(k)] = len[At(k)]
  BY <1>2
<1>4. PICK e \in Seq(Beat) : TRUE
  <2>1. <<>> \in Seq(Beat)
    OBVIOUS
  <2>2. QED
    BY <2>1
<1>5. PICK stored \in BOOLEAN : stored = FALSE
  OBVIOUS
<1>6. /\ Taken(ready) => Queue # <<>> /\ wire' = Head(Head(Queue))
      /\ ~Taken(ready) => wire' = wire
      /\ Left(Taken(ready)) \in Seq(Seq(Beat))
      /\ Queue' = Left(Taken(ready)) \o (IF stored THEN <<e>> ELSE <<>>)
  BY <1>1, <1>3, <1>5, QueueMoves
<1>7. Queue' = Left(Taken(ready))
  <2>1. Left(Taken(ready)) \o <<>> = Queue'
    BY <1>5, <1>6, Zenon
  <2>2. QED
    BY <1>6, <2>1, ConcatEmptySeq
<1>8. QED
  BY <1>2, <1>6, <1>7 DEF Frames!Emit, Frames!vars, Left

(* The frames that enter without an error and fit a slot leave in order,    *)
(* whole and unchanged, and nothing else leaves: the store implements       *)
(* AxisFrames, whatever the ports do.                                       *)
THEOREM FramesKept == Spec => KeepsFrames
<1>1. Init => Frames!Init
  <2> SUFFICES ASSUME Init PROVE Frames!Init
    OBVIOUS
  <2>1. Queue = <<>>
    <3>1. fullCount = 0
      BY DEF Init
    <3>2. Queue \in [1 .. 0 -> Seq(Beat)]
      BY <3>1 DEF Queue
    <3>3. QED
      BY <3>2, FunctionIsSeq, EmptySeq
  <2>2. Filling = [lost |-> FALSE, beats |-> <<>>]
    <3> DEFINE beats == [k \in 1 .. wrPtr |-> mem[fillSlot][k - 1]]
    <3>1. Filling = [lost |-> FALSE, beats |-> beats]
      BY DEF Init, Filling
    <3>2. beats \in [1 .. 0 -> Beat]
      BY DEF Init
    <3>3. beats = <<>>
      BY <3>2, FunctionIsSeq, EmptySeq
    <3>4. QED
      BY <3>1, <3>3
  <2>3. QED
    BY <2>1, <2>2 DEF Init, Frames!Init, Frames!Empty
<1>2. StoreInv /\ ContentInv /\ StoreInv' /\ ContentInv' /\ [Next]_vars
        => [Frames!Receive \/ Frames!Emit]_(Frames!vars)
  <2> SUFFICES ASSUME StoreInv, ContentInv, StoreInv', ContentInv', [Next]_vars
               PROVE  Frames!Receive \/ Frames!Emit \/ UNCHANGED Frames!vars
    OBVIOUS
  <2>1. CASE UNCHANGED vars
    BY <2>1 DEF vars, fill, drain, Frames!vars, Filling, Queue, FromSlot, Sent
  <2>2. ASSUME NEW ready \in BOOLEAN, Clock(ready)
        PROVE  Frames!Receive \/ Frames!Emit \/ UNCHANGED Frames!vars
    BY <2>2, BeatMaps, NoBeatMaps DEF Clock
  <2>3. QED
    BY <2>1, <2>2 DEF Next
<1>3. QED
  BY <1>1, <1>2, StoreInvariant, ContentInvariant, PTL DEF Spec, KeepsFrames, Frames!Spec

=============================================================================
