------------------------- MODULE AxisFrameErrorDrop -------------------------
(***************************************************************************)
(* hardware/rtl/axis_frame_error_drop.v: the store between the MAC's       *)
(* receiver and the S2MM DMA.  It writes each frame into a slot, forwards  *)
(* it only if no beat had the error sideband and it fits the slot, and     *)
(* drains slots in order.  One step is one clock cycle: the fill side, the *)
(* drain side and full_count read the registers of the cycle before.       *)
(* Neither port is held to anything; tsof travels with the data and is not *)
(* told apart from it.  What the output register holds while tvalid is low *)
(* is of no account, so its clearing is left out, and so are the           *)
(* statistics counters.                                                    *)
(***************************************************************************)
EXTENDS Naturals, Sequences

CONSTANTS
  Data,        \* bytes
  Depth,       \* beats in a slot
  Slots,       \* SLOT_COUNT
  NoBeat       \* a register or cell nothing was written to yet

ASSUME SizeAssumption == Depth \in Nat \ {0} /\ Slots \in Nat \ {0}

Beat == [d : Data, err : BOOLEAN, last : BOOLEAN]
Slot == 0 .. Slots - 1

VARIABLES
  mem,         \* the frame RAM, by slot and position
  len,         \* slot_len[]
  fullCount,   \* full_count: slots that hold a whole good frame
  dropping,    \* fill_state = FILL_DROP
  fillSlot, wrPtr, bad,       \* fill_slot, wr_ptr, frame_bad
  draining,    \* drain_active
  drainSlot, drainLen, rdCount,
  reading,     \* ram_rd_pending
  ramDout,     \* the RAM's output register
  valid, out,  \* m_axis_tvalid and the output register
  wire         \* history: the last beat the sink took

fill  == <<dropping, fillSlot, wrPtr, bad>>
drain == <<draining, drainSlot, drainLen, rdCount, reading, ramDout, valid, out>>
vars  == <<mem, len, fullCount, fill, drain, wire>>

NextSlot(s) == IF s = Slots - 1 THEN 0 ELSE s + 1

(* Slip... definitions are deliberate errors; no specification uses one.    *)
SlipReadyFull == dropping \/ fullCount <= Slots

SlipReadyCountsOwn ==
  dropping \/ fullCount + (IF wrPtr > 0 THEN 1 ELSE 0) < Slots

TReady == dropping \/ fullCount < Slots

(* write_overflow: the last cell of the slot is taken and the frame goes on *)
Overflow(b) == wrPtr = Depth - 1 /\ ~b.last

SlipLastUnchecked(b) == b.last /\ ~bad

(* The frame that b ends is forwarded.                                      *)
Good(b) == b.last /\ ~bad /\ ~b.err

BadNext(b) == IF b.last THEN FALSE ELSE bad \/ b.err \/ Overflow(b)

(* The fill side takes b.                                                   *)
FillActive(b) ==
  /\ mem' = [mem EXCEPT ![fillSlot][wrPtr] = b]
  /\ bad' = BadNext(b)
  /\ dropping' = Overflow(b)
  /\ wrPtr' = IF b.last THEN 0 ELSE IF Overflow(b) THEN wrPtr ELSE wrPtr + 1
  /\ len' = IF Good(b) THEN [len EXCEPT ![fillSlot] = wrPtr + 1] ELSE len
  /\ fillSlot' = IF Good(b) THEN NextSlot(fillSlot) ELSE fillSlot

FillDrop(b) ==
  /\ IF b.last THEN dropping' = FALSE /\ wrPtr' = 0 /\ bad' = FALSE
               ELSE UNCHANGED <<dropping, wrPtr, bad>>
  /\ UNCHANGED <<mem, len, fillSlot>>

FillIdle == UNCHANGED <<mem, len, fill>>

Fill(b) == IF dropping THEN FillDrop(b) ELSE FillActive(b)

Stored(b) == ~dropping /\ Good(b)

----------------------------------------------------------------------------
(* The drain side; ready is m_axis_tready.                                  *)

Taken(ready) == valid /\ ready
Finish(ready) == Taken(ready) /\ out.last

DrainStart ==
  /\ ~draining /\ fullCount > 0
  /\ draining' = TRUE
  /\ drainLen' = len[drainSlot]
  /\ rdCount' = 0 /\ reading' = FALSE /\ valid' = FALSE
  /\ UNCHANGED <<drainSlot, ramDout, out>>

DrainIdle ==
  /\ ~draining /\ fullCount = 0
  /\ valid' = FALSE
  /\ UNCHANGED <<draining, drainSlot, drainLen, rdCount, reading, ramDout, out>>

DrainFinish(ready) ==
  /\ draining /\ Finish(ready)
  /\ valid' = FALSE /\ draining' = FALSE /\ reading' = FALSE
  /\ drainSlot' = NextSlot(drainSlot)
  /\ UNCHANGED <<drainLen, rdCount, ramDout, out>>

SlipReadAhead(ready) == ~reading /\ rdCount < drainLen

SlipReadShort(ready) ==
  (~valid \/ ready) /\ ~reading /\ rdCount + 1 < drainLen

(* ram_rd_fire: the output register is free or about to be.                 *)
ReadFire(ready) == (~valid \/ ready) /\ ~reading /\ rdCount < drainLen

DrainMove(ready) ==
  /\ draining /\ ~Finish(ready)
  /\ valid' = (reading \/ (valid /\ ~ready))
  /\ out' = IF reading THEN ramDout ELSE out
  /\ reading' = ReadFire(ready)
  /\ rdCount' = IF ReadFire(ready) THEN rdCount + 1 ELSE rdCount
  /\ ramDout' = IF ReadFire(ready) THEN mem[drainSlot][rdCount] ELSE ramDout
  /\ UNCHANGED <<draining, drainSlot, drainLen>>

Drain(ready) ==
  \/ DrainStart \/ DrainIdle \/ DrainFinish(ready) \/ DrainMove(ready)

SlipCountFirst(stored, finished) ==
  fullCount' = IF stored THEN fullCount + 1
               ELSE IF finished THEN fullCount - 1
               ELSE fullCount

(* full_count: a frame stored and a frame finished in one cycle cancel.     *)
Count(stored, finished) ==
  fullCount' = IF stored /\ ~finished THEN fullCount + 1
               ELSE IF finished /\ ~stored THEN fullCount - 1
               ELSE fullCount

----------------------------------------------------------------------------
(* One clock cycle, with a beat accepted or without.                        *)

Sink(ready) == Drain(ready) /\ wire' = IF Taken(ready) THEN out ELSE wire

CycleWithBeat(b, ready) ==
  /\ TReady
  /\ Fill(b) /\ Sink(ready)
  /\ Count(Stored(b), draining /\ Finish(ready))

CycleWithout(ready) ==
  FillIdle /\ Sink(ready) /\ Count(FALSE, draining /\ Finish(ready))

Clock(ready) == CycleWithout(ready) \/ \E b \in Beat : CycleWithBeat(b, ready)

Init ==
  /\ mem = [s \in Slot |-> [i \in 0 .. Depth - 1 |-> NoBeat]]
  /\ len = [s \in Slot |-> 0] /\ fullCount = 0
  /\ dropping = FALSE /\ fillSlot = 0 /\ wrPtr = 0 /\ bad = FALSE
  /\ draining = FALSE /\ drainSlot = 0 /\ drainLen = 0 /\ rdCount = 0
  /\ reading = FALSE /\ ramDout = NoBeat /\ valid = FALSE /\ out = NoBeat
  /\ wire = NoBeat

Next == Clock(TRUE) \/ Clock(FALSE)

Spec == Init /\ [][Next]_vars

(* The clock runs, and the DMA takes an offered beat some day.              *)
FairSpec == Spec /\ WF_vars(Clock(TRUE))

----------------------------------------------------------------------------
(* Properties                                                               *)

TypeFill ==
  /\ mem \in [Slot -> [0 .. Depth - 1 -> Beat \cup {NoBeat}]]
  /\ len \in [Slot -> 0 .. Depth]
  /\ dropping \in BOOLEAN /\ bad \in BOOLEAN
  /\ fillSlot \in Slot /\ wrPtr \in 0 .. Depth - 1

TypeDrain ==
  /\ draining \in BOOLEAN /\ drainSlot \in Slot
  /\ drainLen \in 0 .. Depth /\ rdCount \in 0 .. Depth
  /\ reading \in BOOLEAN /\ valid \in BOOLEAN
  /\ ramDout \in Beat \cup {NoBeat} /\ out \in Beat \cup {NoBeat}
  /\ wire \in Beat \cup {NoBeat}

(* The types; in particular full_count and rd_count stay in their ranges.   *)
TypeOK == TypeFill /\ TypeDrain /\ fullCount \in 0 .. Slots

(* The MAC cannot wait inside a frame: once the store has taken the first   *)
(* beat of a frame it is ready in every cycle until the frame's last beat.  *)
InsideFrame == wrPtr > 0 \/ dropping
ReadyInsideFrame == InsideFrame => TReady

(* An offered beat stays offered and unchanged until the DMA takes it.      *)
HoldsOffer == [][valid /\ Clock(FALSE) => valid' /\ out' = out]_vars

(* full_count slots from drain_slot on hold frames; the next is filled.     *)
SlotsInOrder ==
  fillSlot = IF drainSlot + fullCount < Slots THEN drainSlot + fullCount
                                              ELSE drainSlot + fullCount - Slots

(* A stored frame is drained and its slot freed: the store cannot stay full.*)
SlotFreed == fullCount = Slots ~> fullCount < Slots

(* The frames still to leave: the one being drained from its next beat on,  *)
(* then the full slots behind it.                                           *)
FromSlot(s, first) ==
  [k \in 1 .. len[s] - first |-> mem[s][first + k - 1]]

Sent == rdCount - (IF reading THEN 1 ELSE 0) - (IF valid THEN 1 ELSE 0)

Queue ==
  [k \in 1 .. fullCount |->
     LET s == IF drainSlot + k - 1 < Slots THEN drainSlot + k - 1
                                           ELSE drainSlot + k - 1 - Slots
     IN FromSlot(s, IF k = 1 /\ draining THEN Sent ELSE 0)]

Filling ==
  IF dropping \/ bad THEN [lost |-> TRUE, beats |-> <<>>]
  ELSE [lost |-> FALSE, beats |-> [k \in 1 .. wrPtr |-> mem[fillSlot][k - 1]]]

Frames == INSTANCE AxisFrames WITH
  Faulty <- {b \in Beat : b.err}, MaxLen <- Depth,
  filling <- Filling, queue <- Queue

(* Exactly the frames without an error that fit a slot come out, in order,  *)
(* whole and unchanged.                                                     *)
KeepsFrames == Frames!Spec

=============================================================================
