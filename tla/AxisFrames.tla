----------------------------- MODULE AxisFrames -----------------------------
(***************************************************************************)
(* What a frame buffer between two AXI-Stream ports promises: the frames   *)
(* that went in complete and acceptable come out in order, whole and       *)
(* unchanged, and nothing else comes out.  In one clock cycle a beat may   *)
(* enter, a beat may leave, or both.  axis_store_forward.v (TX) and        *)
(* axis_frame_error_drop.v (RX) are shown to implement it.                 *)
(***************************************************************************)
EXTENDS Naturals, Sequences

CONSTANTS
  Beat,     \* what crosses a port in a cycle; field last is tlast
  Faulty,   \* the beats with the error sideband set
  MaxLen,   \* beats in the longest frame the buffer takes
  NoBeat    \* nothing has left yet

VARIABLES
  filling,  \* the frame going in: its beats, and if it is already refused
  queue,    \* what remains to leave of the frames that are complete
  wire      \* the last beat that left

vars == <<filling, queue, wire>>

Empty == [lost |-> FALSE, beats |-> <<>>]

Init == filling = Empty /\ queue = <<>> /\ wire = NoBeat

(* A frame is refused for one faulty beat, or for not ending in MaxLen.     *)
Refused(b) ==
  filling.lost \/ b \in Faulty \/ (Len(filling.beats) + 1 = MaxLen /\ ~b.last)

Enter(b) ==
  filling' = IF b.last THEN Empty
             ELSE IF Refused(b) THEN [lost |-> TRUE, beats |-> <<>>]
             ELSE [lost |-> FALSE, beats |-> Append(filling.beats, b)]

Completed(b) ==
  IF b.last /\ ~Refused(b) THEN <<Append(filling.beats, b)>> ELSE <<>>

(* What is left of the queue once its first beat has gone.                  *)
Shorter ==
  IF Len(Head(queue)) = 1 THEN Tail(queue) ELSE <<Tail(Head(queue))>> \o Tail(queue)

Receive == \E b \in Beat :
  /\ Enter(b)
  /\ queue' = queue \o Completed(b)
  /\ UNCHANGED wire

Emit ==
  /\ queue # <<>>
  /\ wire' = Head(Head(queue))
  /\ \/ queue' = Shorter /\ UNCHANGED filling
     \/ \E b \in Beat : Enter(b) /\ queue' = Shorter \o Completed(b)

Spec == Init /\ [][Receive \/ Emit]_vars

=============================================================================
