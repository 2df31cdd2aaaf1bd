---------------------------- MODULE MCEmzRxRing ----------------------------
(* Small instances of the direct RX ring for TLC.                           *)
EXTENDS EmzRxRing, TLC

BufSymmetry == Permutations(Buf)

(* RxRingApps stops where RxRingReopen's error begins: once the engine is   *)
(* loose on the ring the state space grows twentyfold.  RxRingIsr goes on.  *)
BeforeReopening == ~reopened

=============================================================================
