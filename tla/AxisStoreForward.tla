-------------------------- MODULE AxisStoreForward --------------------------
(***************************************************************************)
(* hardware/rtl/axis_store_forward.v: the buffer between the MM2S DMA and  *)
(* the MAC's transmitter, which must never run dry inside a frame.  One    *)
(* step is one clock cycle.  The FIFO is the module's own behavioural one; *)
(* the vendor FIFO of the synthesised build has the same first-word        *)
(* fall-through interface.  Neither port is held to anything: the source   *)
(* may withdraw a beat, the sink may be ready or not in any cycle.         *)
(***************************************************************************)
EXTENDS Naturals, Sequences, FiniteSets

CONSTANTS
  Data,         \* bytes
  Depth,        \* DATA_FIFO_DEPTH: FIFO entries
  PendingMax,   \* all ones in FRAME_COUNT_WIDTH
  MaxFrame,     \* the longest frame the source sends
  NoBeat        \* history: nothing has left yet

ASSUME SizeAssumption ==
  /\ Depth \in Nat /\ PendingMax \in Nat \ {0}
  /\ MaxFrame \in 1 .. Depth     \* the header's sizing rule

Beat == [d : Data, last : BOOLEAN]

VARIABLES
  mem,          \* mem[]: the FIFO's entries
  wr, rd,       \* wr_ptr_r, rd_ptr_r: one bit wider than an index
  pending,      \* frames_pending_r
  inFrame,      \* the source: beats sent of the frame it is in
  wire          \* history: the last beat the sink took

vars == <<mem, wr, rd, pending, inFrame, wire>>

FillLevel == IF wr >= rd THEN wr - rd ELSE wr + 2 * Depth - rd

(* Slip... definitions are deliberate errors; no specification uses one.    *)
SlipWrapEarly(p) == (p + 1) % Depth

NextPtr(p) == (p + 1) % (2 * Depth)

SlipFullOffByOne == FillLevel <= Depth /\ pending # PendingMax

TReady == FillLevel # Depth /\ pending # PendingMax

SlipValidWithData == FillLevel # 0
SlipValidFromTwo == pending > 1 /\ FillLevel # 0

TValid == pending # 0 /\ FillLevel # 0

Dout == mem[rd % Depth]

SlipGuardOnBoth(commit, retire) ==
  IF pending = PendingMax \/ commit = retire THEN pending
  ELSE IF commit THEN pending + 1 ELSE pending - 1

(* frames_pending_r; a frame in and a frame out in one cycle cancel.        *)
PendingNext(commit, retire) ==
  IF commit /\ ~retire /\ pending # PendingMax THEN pending + 1
  ELSE IF retire /\ ~commit /\ pending # 0 THEN pending - 1
  ELSE pending

(* One clock cycle: the source offers b or nothing, the sink is ready or not. *)
Cycle(valid, b, ready) ==
  LET write == valid /\ TReady
      read  == TValid /\ ready
  IN /\ mem' = IF write THEN [mem EXCEPT ![wr % Depth] = b] ELSE mem
     /\ wr' = IF write THEN NextPtr(wr) ELSE wr
     /\ rd' = IF read THEN NextPtr(rd) ELSE rd
     /\ pending' = PendingNext(write /\ b.last, read /\ Dout.last)
     /\ inFrame' = IF ~write THEN inFrame ELSE IF b.last THEN 0 ELSE inFrame + 1
     /\ wire' = IF read THEN Dout ELSE wire

(* The source ends every frame within MaxFrame beats.                       *)
Offered == {b \in Beat : inFrame + 1 = MaxFrame => b.last}

Clock(ready) == \E valid \in BOOLEAN, b \in Offered : Cycle(valid, b, ready)

Init ==
  /\ mem = [i \in 0 .. Depth - 1 |-> NoBeat]
  /\ wr = 0 /\ rd = 0 /\ pending = 0 /\ inFrame = 0 /\ wire = NoBeat

Next == Clock(TRUE) \/ Clock(FALSE)

Spec == Init /\ [][Next]_vars

(* The clock runs, the sink takes an offered beat some day, and a source    *)
(* inside a frame goes on (the DMA sends a whole frame).                    *)
Feed == inFrame > 0 /\ TReady /\ \E b \in Offered, ready \in BOOLEAN : Cycle(TRUE, b, ready)
FairSpec == Spec /\ WF_vars(Clock(TRUE)) /\ SF_vars(Feed)

----------------------------------------------------------------------------
(* Properties                                                               *)

TypeOK ==
  /\ mem \in [0 .. Depth - 1 -> Beat \cup {NoBeat}]
  /\ wr \in 0 .. 2 * Depth - 1 /\ rd \in 0 .. 2 * Depth - 1
  /\ FillLevel \in 0 .. Depth
  /\ pending \in 0 .. PendingMax /\ inFrame \in 0 .. MaxFrame - 1
  /\ wire \in Beat \cup {NoBeat}

(* The sink never sees a gap inside a frame: once a beat other than the     *)
(* last has left, the next one is there in the next cycle (the header).     *)
NoUnderrun ==
  [][TValid /\ rd' # rd /\ ~Dout.last => TValid']_vars

(* The source is never shut out for good: a FIFO filled by a frame that has *)
(* not ended, or a full frame counter, always clears again.                 *)
ReadyAgain == []<>TReady

(* While complete frames are stored, beats go on leaving.                   *)
FramesLeave == <>[](pending = 0) \/ []<><<rd' # rd>>_rd

(* The frames in the FIFO are told by pointer values: one bit wider than an *)
(* index, they keep naming an entry while others come and go.               *)
Ptr == 0 .. 2 * Depth - 1

(* How far pointer value q is ahead of p.                                   *)
Ahead(p, q) == IF q >= p THEN q - p ELSE q + 2 * Depth - p

(* The stored beats that end a frame, and the k-th of them.                 *)
Ends == {p \in Ptr : Ahead(rd, p) < FillLevel /\ mem[p % Depth].last}
UpTo(p) == {q \in Ends : Ahead(rd, q) <= Ahead(rd, p)}
End(k) == CHOOSE p \in Ends : Cardinality(UpTo(p)) = k

Start(k) == IF k = 1 THEN rd ELSE NextPtr(End(k - 1))
Beats(from, n) == [i \in 1 .. n |-> mem[(from + i - 1) % Depth]]

Queue ==
  [k \in 1 .. Cardinality(Ends) |-> Beats(Start(k), Ahead(Start(k), End(k)) + 1)]

Filling ==
  LET from == Start(Cardinality(Ends) + 1)
  IN  [lost |-> FALSE, beats |-> Beats(from, Ahead(from, wr))]

Frames == INSTANCE AxisFrames WITH
  Faulty <- {}, MaxLen <- MaxFrame, filling <- Filling, queue <- Queue

(* Every frame comes out in order, whole and unchanged.                     *)
KeepsFrames == Frames!Spec

=============================================================================
