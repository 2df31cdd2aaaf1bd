---------------------- MODULE AxisStoreForward_proofs ----------------------
(***************************************************************************)
(* Proofs about the store-and-forward FIFO, for every depth, counter width *)
(* and frame length.                                                       *)
(*                                                                         *)
(* FifoInv, the inductive invariant, adds to the types what no register    *)
(* says: frames_pending_r is the number of tlast entries between the two   *)
(* pointers.  They are counted by their pointer values, one bit wider than *)
(* an index, so an entry keeps its place while others come and go.         *)
(*                                                                         *)
(* FrameInv, on top of it, is what the refinement of AxisFrames needs:     *)
(* every rank among the stored ends occurs, so End(k) names one, and the   *)
(* beats of the frame going in are all that is stored behind the last end. *)
(***************************************************************************)
EXTENDS AxisStoreForward, TLAPS, FiniteSetTheorems, SequenceTheorems

(* p % Depth, for pointer values.                                          *)
Index(p) == IF p < Depth THEN p ELSE p - Depth

FifoInv == TypeOK /\ pending = Cardinality(Ends)

LEMMA Constants == Depth \in Nat /\ Depth > 0 /\ PendingMax \in Nat /\ PendingMax > 0 /\ MaxFrame \in 1 .. Depth
BY SizeAssumption

LEMMA PtrArith ==
  ASSUME NEW p \in Ptr
  PROVE  /\ p % Depth = Index(p) /\ Index(p) \in 0 .. Depth - 1
         /\ NextPtr(p) = (IF p + 1 = 2 * Depth THEN 0 ELSE p + 1) /\ NextPtr(p) \in Ptr
<1>1. \A x \in 0 .. 2 * Depth - 1 : x % Depth = IF x < Depth THEN x ELSE x - Depth
  BY Constants, SMTT(30)
<1>2. \A d \in Nat \ {0} : \A x \in 0 .. d : x % d = IF x = d THEN 0 ELSE x
  BY SMTT(30)
<1>3. 2 * Depth \in Nat \ {0} /\ p + 1 \in 0 .. 2 * Depth
  BY Constants DEF Ptr
<1>4. (p + 1) % (2 * Depth) = IF p + 1 = 2 * Depth THEN 0 ELSE p + 1
  BY <1>2, <1>3
<1>5. QED
  BY <1>1, <1>3, <1>4, Constants DEF Ptr, Index, NextPtr

LEMMA EndsFinite ==
  /\ IsFiniteSet(Ends) /\ Cardinality(Ends) \in Nat
  /\ Ends # {} <=> Cardinality(Ends) # 0
<1>1. IsFiniteSet(Ptr)
  BY Constants, FS_Interval DEF Ptr
<1>2. IsFiniteSet(Ends)
  BY <1>1, FS_Subset DEF Ends
<1>3. QED
  BY <1>2, FS_CardinalityType, FS_EmptySet

(* What one cycle does to the pointers, and when it may write and read.     *)
LEMMA CycleMoves ==
  ASSUME TypeOK, NEW valid \in BOOLEAN, NEW b \in Offered, NEW ready \in BOOLEAN,
         Cycle(valid, b, ready)
  PROVE  /\ wr \in Ptr /\ rd \in Ptr /\ b \in Beat
         /\ wr' = IF valid /\ TReady THEN (IF wr + 1 = 2 * Depth THEN 0 ELSE wr + 1) ELSE wr
         /\ rd' = IF TValid /\ ready THEN (IF rd + 1 = 2 * Depth THEN 0 ELSE rd + 1) ELSE rd
         /\ mem' = IF valid /\ TReady THEN [mem EXCEPT ![Index(wr)] = b] ELSE mem
         /\ TReady => FillLevel < Depth
         /\ TValid => FillLevel > 0
         /\ Dout = mem[Index(rd)]
<1>1. wr \in Ptr /\ rd \in Ptr /\ b \in Beat /\ FillLevel \in 0 .. Depth
  BY DEF TypeOK, Ptr, Offered
<1>2. /\ NextPtr(wr) = (IF wr + 1 = 2 * Depth THEN 0 ELSE wr + 1)
      /\ NextPtr(rd) = (IF rd + 1 = 2 * Depth THEN 0 ELSE rd + 1)
      /\ wr % Depth = Index(wr) /\ rd % Depth = Index(rd)
  BY <1>1, PtrArith
<1>3. (TReady => FillLevel < Depth) /\ (TValid => FillLevel > 0)
  BY <1>1, Constants DEF TReady, TValid
<1>4. QED
  BY <1>1, <1>2, <1>3 DEF Cycle, Dout

LEMMA CycleTypes ==
  ASSUME TypeOK, NEW valid \in BOOLEAN, NEW b \in Offered, NEW ready \in BOOLEAN,
         Cycle(valid, b, ready)
  PROVE  TypeOK'
<1> USE Constants DEF TypeOK
<1>1. wr \in Ptr /\ rd \in Ptr /\ b \in Beat
  BY DEF Ptr, Offered
<1>2. wr % Depth \in 0 .. Depth - 1 /\ rd % Depth \in 0 .. Depth - 1
      /\ NextPtr(wr) \in Ptr /\ NextPtr(rd) \in Ptr
  BY <1>1, PtrArith
<1>3. mem' \in [0 .. Depth - 1 -> Beat \cup {NoBeat}] /\ wire' \in Beat \cup {NoBeat}
  BY <1>1, <1>2 DEF Cycle, Dout
<1>4. wr' \in Ptr /\ rd' \in Ptr
  BY <1>1, <1>2 DEF Cycle
<1>5. FillLevel' \in 0 .. Depth
  <2>6. /\ FillLevel \in 0 .. Depth /\ wr \in Ptr /\ rd \in Ptr
        /\ wr' = IF valid /\ TReady THEN (IF wr + 1 = 2 * Depth THEN 0 ELSE wr + 1) ELSE wr
        /\ rd' = IF TValid /\ ready THEN (IF rd + 1 = 2 * Depth THEN 0 ELSE rd + 1) ELSE rd
        /\ TReady => FillLevel < Depth
        /\ TValid => FillLevel > 0
    BY CycleMoves
  <2>1. CASE valid /\ TReady /\ TValid /\ ready
    BY <2>1, <2>6, SMTT(20) DEF FillLevel, Ptr
  <2>2. CASE valid /\ TReady /\ ~(TValid /\ ready)
    BY <2>2, <2>6, SMTT(20) DEF FillLevel, Ptr
  <2>3. CASE ~(valid /\ TReady) /\ TValid /\ ready
    BY <2>3, <2>6, SMTT(20) DEF FillLevel, Ptr
  <2>4. CASE ~(valid /\ TReady) /\ ~(TValid /\ ready)
    BY <2>4, <2>6, SMTT(20) DEF FillLevel, Ptr
  <2>5. QED
    BY <2>1, <2>2, <2>3, <2>4
<1>6. pending' \in 0 .. PendingMax
  BY DEF Cycle, PendingNext
<1>7. inFrame' \in 0 .. MaxFrame - 1
  BY DEF Cycle, Offered
<1>8. QED
  BY <1>3, <1>4, <1>5, <1>6, <1>7 DEF Ptr

(* An entry ends a frame unless it was read, and the one written if it does. *)
LEMMA EndsMove ==
  ASSUME TypeOK, NEW valid \in BOOLEAN, NEW b \in Offered, NEW ready \in BOOLEAN,
         Cycle(valid, b, ready)
  PROVE  LET write == valid /\ TReady
             read  == TValid /\ ready
             kept  == IF read THEN Ends \ {rd} ELSE Ends
         IN  /\ wr \notin kept
             /\ Ends' = IF write /\ b.last THEN kept \cup {wr} ELSE kept
             /\ read => (rd \in Ends <=> Dout.last)
<1> USE Constants DEF TypeOK
<1> DEFINE write == valid /\ TReady
           read  == TValid /\ ready
           kept  == IF read THEN Ends \ {rd} ELSE Ends
<1>0. \A p \in Ptr : p % Depth = Index(p)
  BY PtrArith
<1>1. wr \in Ptr /\ rd \in Ptr /\ b \in Beat
  BY DEF Ptr, Offered
<1>2. wr \notin Ends
  BY <1>1 DEF Ends, Ahead, FillLevel, Ptr
<1>3. read => (rd \in Ends <=> Dout.last)
  <2>1. Ahead(rd, rd) = 0
    BY <1>1 DEF Ahead, Ptr
  <2>2. (TValid => 0 < FillLevel) /\ Dout = mem[Index(rd)]
    BY CycleMoves
  <2>3. TValid => (rd \in Ends <=> mem[Index(rd)].last)
    BY <1>0, <1>1, <2>1, <2>2, Zenon DEF Ends
  <2>4. QED
    BY <2>2, <2>3
<1>4. /\ wr' = IF write THEN (IF wr + 1 = 2 * Depth THEN 0 ELSE wr + 1) ELSE wr
      /\ rd' = IF read THEN (IF rd + 1 = 2 * Depth THEN 0 ELSE rd + 1) ELSE rd
      /\ mem' = IF write THEN [mem EXCEPT ![Index(wr)] = b] ELSE mem
      /\ write => FillLevel < Depth
      /\ read => FillLevel > 0
  BY CycleMoves
<1>5. ASSUME NEW p \in Ptr
      PROVE  Ahead(rd', p) < FillLevel' <=>
               \/ Ahead(rd, p) < FillLevel /\ ~(read /\ p = rd)
               \/ write /\ p = wr
  <2>2. CASE write /\ read
    BY <1>1, <1>4, <2>2 DEF Ahead, FillLevel, Ptr
  <2>3. CASE write /\ ~read
    BY <1>1, <1>4, <2>3 DEF Ahead, FillLevel, Ptr
  <2>4. CASE ~write /\ read
    BY <1>1, <1>4, <2>4 DEF Ahead, FillLevel, Ptr
  <2>5. CASE ~write /\ ~read
    BY <1>1, <1>4, <2>5 DEF Ahead, FillLevel, Ptr
  <2>6. QED
    BY <2>2, <2>3, <2>4, <2>5
<1>6. ASSUME NEW p \in Ptr, Ahead(rd, p) < FillLevel, write
      PROVE  Index(p) # Index(wr)
  BY <1>1, <1>4, <1>6 DEF Ahead, FillLevel, Index, Ptr
<1>7. ASSUME NEW p \in Ptr
      PROVE  p \in Ends' <=> p \in kept \/ (write /\ b.last /\ p = wr)
  <2>1. CASE write /\ p = wr
    <3>1. mem'[Index(p)] = b
      BY <1>1, <1>4, <2>1, PtrArith
    <3>2. QED
      BY <1>0, <1>2, <1>5, <2>1, <3>1 DEF Ends
  <2>2. CASE ~(write /\ p = wr) /\ Ahead(rd, p) < FillLevel
    <3>1. mem'[Index(p)] = mem[Index(p)]
      BY <1>1, <1>4, <1>6, <2>2, PtrArith
    <3>2. QED
      BY <1>0, <1>5, <2>2, <3>1 DEF Ends
  <2>3. CASE ~(write /\ p = wr) /\ ~(Ahead(rd, p) < FillLevel)
    BY <1>5, <2>3 DEF Ends
  <2>4. QED
    BY <2>1, <2>2, <2>3
<1>8. Ends' \subseteq Ptr /\ kept \subseteq Ptr
  BY DEF Ends
<1>9. Ends' = IF write /\ b.last THEN kept \cup {wr} ELSE kept
  BY <1>1, <1>7, <1>8
<1>10. QED
  BY <1>2, <1>3, <1>9

(* The counter follows: one more for a last beat written, one less for one read. *)
LEMMA CountStep ==
  ASSUME FifoInv, NEW valid \in BOOLEAN, NEW b \in Offered, NEW ready \in BOOLEAN,
         Cycle(valid, b, ready)
  PROVE  pending' = Cardinality(Ends')
<1> DEFINE write  == valid /\ TReady
           read   == TValid /\ ready
           commit == write /\ b.last
           retire == read /\ Dout.last
           kept   == IF read THEN Ends \ {rd} ELSE Ends
<1>1. /\ wr \notin kept
      /\ Ends' = IF commit THEN kept \cup {wr} ELSE kept
      /\ read => (rd \in Ends <=> Dout.last)
  BY EndsMove DEF FifoInv
<1>2. pending = Cardinality(Ends) /\ pending \in Nat /\ IsFiniteSet(Ends)
  BY EndsFinite DEF FifoInv
<1>3. pending' = PendingNext(commit, retire)
  BY DEF Cycle
<1>4. (commit => pending # PendingMax) /\ (retire => pending # 0)
  BY DEF TReady, TValid
<1>5. Cardinality(kept) = (IF retire THEN pending - 1 ELSE pending) /\ IsFiniteSet(kept)
  <2>1. CASE retire
    <3>1. kept = Ends \ {rd} /\ rd \in Ends
      BY <1>1, <2>1
    <3>2. QED
      BY <1>2, <2>1, <3>1, FS_RemoveElement
  <2>2. CASE ~retire
    <3>1. kept = Ends
      BY <1>1, <2>2
    <3>2. QED
      BY <1>2, <2>2, <3>1
  <2>3. QED
    BY <2>1, <2>2
<1>6. Cardinality(Ends') = IF commit THEN Cardinality(kept) + 1 ELSE Cardinality(kept)
  <2>1. CASE commit
    <3>1. Ends' = kept \cup {wr}
      BY <1>1, <2>1
    <3>2. Cardinality(kept \cup {wr}) = Cardinality(kept) + 1
      BY <1>1, <1>5, FS_AddElement
    <3>3. QED
      BY <2>1, <3>1, <3>2
  <2>2. CASE ~commit
    BY <1>1, <2>2
  <2>3. QED
    BY <2>1, <2>2
<1>7. Cardinality(Ends') =
        IF commit /\ ~retire THEN pending + 1
        ELSE IF retire /\ ~commit THEN pending - 1 ELSE pending
  <2> HIDE DEF commit, retire, kept
  <2>1. QED
    BY <1>2, <1>5, <1>6
<1>8. QED
  <2> HIDE DEF commit, retire, kept
  <2>1. QED
    BY <1>3, <1>4, <1>7 DEF PendingNext

LEMMA InitInv == Init => FifoInv
<1> SUFFICES ASSUME Init PROVE FifoInv
  OBVIOUS
<1>1. TypeOK
  BY Constants DEF Init, TypeOK, FillLevel
<1>2. FillLevel = 0
  BY DEF Init, FillLevel
<1>3. \A p \in Ptr : ~(Ahead(rd, p) < FillLevel)
  BY <1>2, Constants DEF Init, Ahead, Ptr
<1>4. Ends = {}
  BY <1>3, Zenon DEF Ends
<1>5. QED
  BY <1>1, <1>4, FS_EmptySet DEF FifoInv, Init

LEMMA NextInv == FifoInv /\ [Next]_vars => FifoInv'
<1> SUFFICES ASSUME FifoInv, [Next]_vars PROVE FifoInv'
  OBVIOUS
<1>1. ASSUME NEW ready \in BOOLEAN, Clock(ready) PROVE FifoInv'
  <2>1. PICK valid \in BOOLEAN, b \in Offered : Cycle(valid, b, ready)
    BY <1>1 DEF Clock
  <2>2. TypeOK'
    BY <2>1, CycleTypes DEF FifoInv
  <2>3. pending' = Cardinality(Ends')
    BY <2>1, CountStep
  <2>4. QED
    BY <2>2, <2>3 DEF FifoInv
<1>2. CASE UNCHANGED vars
  <2>1. TypeOK'
    BY <1>2 DEF FifoInv, TypeOK, FillLevel, vars
  <2>2. Ends' = Ends /\ pending' = pending
    BY <1>2 DEF Ends, Ahead, Ptr, FillLevel, vars
  <2>3. QED
    BY <2>1, <2>2 DEF FifoInv
<1>3. QED
  BY <1>1, <1>2 DEF Next

LEMMA FifoAlways == Spec => []FifoInv
<1>1. QED
  BY InitInv, NextInv, PTL DEF Spec

(* One step of NoUnderrun: a frame whose last beat is still stored holds it  *)
(* behind the beat that leaves now.                                          *)
LEMMA NoGap ==
  ASSUME FifoInv, [Next]_vars, TValid, rd' # rd, ~Dout.last
  PROVE  TValid'
<1>1. PICK ready \in BOOLEAN, valid \in BOOLEAN, b \in Offered : Cycle(valid, b, ready)
  BY DEF Next, Clock, vars
<1>2. /\ FillLevel \in 0 .. Depth /\ wr \in Ptr /\ rd \in Ptr
      /\ wr' = IF valid /\ TReady THEN (IF wr + 1 = 2 * Depth THEN 0 ELSE wr + 1) ELSE wr
      /\ rd' = IF TValid /\ ready THEN (IF rd + 1 = 2 * Depth THEN 0 ELSE rd + 1) ELSE rd
      /\ TReady => FillLevel < Depth
  BY <1>1, CycleMoves DEF FifoInv, TypeOK
<1>3. TValid /\ ready /\ pending # 0 /\ pending \in Nat
  BY <1>2, EndsFinite DEF TValid, FifoInv
<1>4. rd \notin Ends
  BY <1>1, <1>3, EndsMove DEF FifoInv
<1>5. PICK p \in Ends : p # rd
  BY <1>3, <1>4, EndsFinite DEF FifoInv
<1>6. p \in Ptr /\ Ahead(rd, p) < FillLevel
  BY Zenon DEF Ends
<1>7. FillLevel > 1
  BY <1>2, <1>5, <1>6, Constants DEF Ahead, Ptr
<1>8. FillLevel' # 0
  <2>1. CASE valid /\ TReady
    BY <1>2, <1>3, <1>7, <2>1, Constants DEF FillLevel, Ptr
  <2>2. CASE ~(valid /\ TReady)
    BY <1>2, <1>3, <1>7, <2>2, Constants DEF FillLevel, Ptr
  <2>3. QED
    BY <2>1, <2>2
<1>9. pending' # 0
  BY <1>1, <1>3 DEF Cycle, PendingNext
<1>10. QED
  BY <1>8, <1>9 DEF TValid

(* Pointers, fill level and frame counter stay in their ranges: the FIFO is *)
(* never written when full nor read when empty (TypeOK).                    *)
THEOREM TypeCorrect == Spec => []TypeOK
<1>1. FifoInv => TypeOK
  BY DEF FifoInv
<1>2. QED
  BY <1>1, FifoAlways, PTL

(* The transmitter never meets a gap inside a frame, whatever the source    *)
(* and the sink do, and whatever the depth (axis_store_forward.v's header). *)
THEOREM NoUnderrunCorrect == Spec => NoUnderrun
<1>1. FifoInv /\ [Next]_vars => [TValid /\ rd' # rd /\ ~Dout.last => TValid']_vars
  BY NoGap
<1>2. QED
  BY <1>1, FifoAlways, PTL DEF Spec, NoUnderrun

----------------------------------------------------------------------------
(* The frames.  An end is found by its rank among the stored ends; RankOK   *)
(* says every rank occurs, OpenOK where the frame going in begins.          *)

Rank(p) == Cardinality(UpTo(p))

RankOK == \A k \in 1 .. Cardinality(Ends) : \E p \in Ends : Rank(p) = k

Open == Start(Cardinality(Ends) + 1)

OpenOK == Ahead(rd, Open) + inFrame = FillLevel

FrameInv == RankOK /\ OpenOK

LEMMA RankFacts ==
  ASSUME TypeOK
  PROVE  /\ \A p \in Ends : p \in Ptr /\ Rank(p) \in 1 .. Cardinality(Ends)
         /\ \A p, q \in Ends : Ahead(rd, p) < Ahead(rd, q) => Rank(p) < Rank(q)
         /\ \A p, q \in Ends : Rank(p) = Rank(q) => p = q
<1>1. Cardinality(Ends) \in Nat /\ IsFiniteSet(Ends) /\ Ends \subseteq Ptr
  BY EndsFinite DEF Ends
<1>2. rd \in Ptr /\ \A p \in Ptr : Ahead(rd, p) \in Nat
  BY Constants DEF TypeOK, Ptr, Ahead
<1>3. ASSUME NEW p \in Ends
      PROVE  UpTo(p) \in SUBSET Ends /\ IsFiniteSet(UpTo(p)) /\ Rank(p) \in 1 .. Cardinality(Ends)
  <2>1. UpTo(p) \in SUBSET Ends
    BY DEF UpTo
  <2>2. p \in UpTo(p)
    BY <1>1, <1>2 DEF UpTo
  <2>3. IsFiniteSet(UpTo(p)) /\ Cardinality(UpTo(p)) <= Cardinality(Ends)
    BY <1>1, <2>1, FS_Subset
  <2>4. Cardinality(UpTo(p)) \in Nat /\ Cardinality(UpTo(p)) # 0
    BY <2>2, <2>3, FS_CardinalityType, FS_EmptySet
  <2>5. QED
    BY <1>1, <2>1, <2>3, <2>4 DEF Rank
<1>4. ASSUME NEW p \in Ends, NEW q \in Ends, Ahead(rd, p) < Ahead(rd, q)
      PROVE  Rank(p) < Rank(q)
  <2>1. UpTo(p) \in SUBSET UpTo(q)
    BY <1>1, <1>2, <1>4 DEF UpTo
  <2>2. q \in UpTo(q) /\ q \notin UpTo(p)
    BY <1>1, <1>2, <1>4 DEF UpTo
  <2>3. IsFiniteSet(UpTo(q))
    BY <1>3
  <2>4. Rank(p) <= Rank(q) /\ Rank(p) # Rank(q)
    BY <2>1, <2>2, <2>3, FS_Subset DEF Rank
  <2>5. Rank(p) \in Nat /\ Rank(q) \in Nat
    BY <1>1, <1>3
  <2>6. QED
    BY <2>4, <2>5
<1>5. ASSUME NEW p \in Ends, NEW q \in Ends, Rank(p) = Rank(q)
      PROVE  p = q
  <2>1. Rank(p) \in Nat /\ Rank(q) \in Nat /\ p \in Ptr /\ q \in Ptr
    BY <1>1, <1>3
  <2>2. Ahead(rd, p) = Ahead(rd, q)
    BY <1>2, <1>4, <1>5, <2>1
  <2>3. QED
    BY <1>2, <2>1, <2>2, Constants DEF Ahead, Ptr
<1>6. QED
  BY <1>1, <1>3, <1>4, <1>5

(* End(k) is the end of rank k.                                            *)
EndShape ==
  \A k \in 1 .. Cardinality(Ends) :
    /\ End(k) \in Ends /\ End(k) \in Ptr /\ Rank(End(k)) = k
    /\ \A p \in Ends : Rank(p) = k => p = End(k)

LEMMA EndIs == TypeOK /\ RankOK => EndShape
<1> SUFFICES ASSUME TypeOK, RankOK, NEW k \in 1 .. Cardinality(Ends)
             PROVE  /\ End(k) \in Ends /\ End(k) \in Ptr /\ Rank(End(k)) = k
                    /\ \A p \in Ends : Rank(p) = k => p = End(k)
  BY DEF EndShape
<1>1. \E p \in Ends : Cardinality(UpTo(p)) = k
  BY DEF RankOK, Rank
<1>2. End(k) \in Ends /\ Cardinality(UpTo(End(k))) = k
  BY <1>1 DEF End
<1>3. QED
  BY <1>2, RankFacts DEF Rank

LEMMA EndIsNext == TypeOK' /\ RankOK' => EndShape'
BY EndIs, PTL

(* What a cycle does to the ends: r is a read, c an end written, e an end   *)
(* read.                                                                    *)
Moves(r, w, c, e) ==
  /\ wr \in Ptr /\ rd \in Ptr /\ wr' \in Ptr /\ rd' \in Ptr
  /\ FillLevel \in 0 .. Depth
  /\ wr' = IF w THEN NextPtr(wr) ELSE wr
  /\ rd' = IF r THEN NextPtr(rd) ELSE rd
  /\ FillLevel' = FillLevel + (IF w THEN 1 ELSE 0) - (IF r THEN 1 ELSE 0)
  /\ w => FillLevel < Depth
  /\ r => FillLevel > 0 /\ Cardinality(Ends) > 0
  /\ wr \notin Ends
  /\ Ends' = (IF r THEN Ends \ {rd} ELSE Ends) \cup (IF c THEN {wr} ELSE {})
  /\ e => r /\ rd \in Ends
  /\ r /\ ~e => rd \notin Ends
  /\ c => w
  /\ Cardinality(Ends)' = Cardinality(Ends) + (IF c THEN 1 ELSE 0) - (IF e THEN 1 ELSE 0)
  /\ Cardinality(Ends) \in Nat

LEMMA CycleMovesEnds ==
  ASSUME FifoInv, FifoInv', NEW valid \in BOOLEAN, NEW b \in Offered, NEW ready \in BOOLEAN,
         Cycle(valid, b, ready)
  PROVE  Moves(TValid /\ ready, valid /\ TReady, valid /\ TReady /\ b.last,
               TValid /\ ready /\ Dout.last)
<1> DEFINE w == valid /\ TReady
           r == TValid /\ ready
           c == w /\ b.last
           e == r /\ Dout.last
           kept == IF r THEN Ends \ {rd} ELSE Ends
<1>1. /\ wr \in Ptr /\ rd \in Ptr /\ wr' \in Ptr /\ rd' \in Ptr /\ FillLevel \in 0 .. Depth
      /\ FillLevel' \in 0 .. Depth
  BY DEF FifoInv, TypeOK, Ptr
<1>2. wr' = (IF w THEN NextPtr(wr) ELSE wr) /\ rd' = (IF r THEN NextPtr(rd) ELSE rd)
  BY DEF Cycle
<1>3. (w => FillLevel < Depth) /\ (r => FillLevel > 0)
  BY CycleMoves DEF FifoInv
<1>4. FillLevel' = FillLevel + (IF w THEN 1 ELSE 0) - (IF r THEN 1 ELSE 0)
  <2>1. /\ NextPtr(wr) = (IF wr + 1 = 2 * Depth THEN 0 ELSE wr + 1)
        /\ NextPtr(rd) = (IF rd + 1 = 2 * Depth THEN 0 ELSE rd + 1)
    BY <1>1, PtrArith
  <2> HIDE DEF w, r
  <2>2. CASE w /\ r
    BY <1>1, <1>2, <1>3, <2>1, <2>2, Constants, SMTT(20) DEF FillLevel, Ptr
  <2>3. CASE w /\ ~r
    BY <1>1, <1>2, <1>3, <2>1, <2>3, Constants, SMTT(20) DEF FillLevel, Ptr
  <2>4. CASE ~w /\ r
    BY <1>1, <1>2, <1>3, <2>1, <2>4, Constants, SMTT(20) DEF FillLevel, Ptr
  <2>5. CASE ~w /\ ~r
    BY <1>1, <1>2, <2>5, Constants, SMTT(20) DEF FillLevel, Ptr
  <2>6. QED
    BY <2>2, <2>3, <2>4, <2>5
<1>5. /\ wr \notin kept /\ Ends' = (IF c THEN kept \cup {wr} ELSE kept)
      /\ r => (rd \in Ends <=> Dout.last)
  BY EndsMove DEF FifoInv
<1>6. wr \notin Ends
  BY <1>1, Constants DEF Ends, Ahead, FillLevel, Ptr
<1>7. pending = Cardinality(Ends) /\ pending' = Cardinality(Ends') /\ Cardinality(Ends) \in Nat
      /\ (r => pending # 0) /\ (c => pending # PendingMax)
  BY EndsFinite DEF FifoInv, TValid, TReady
<1>8. pending' = PendingNext(c, e)
  BY DEF Cycle
<1> HIDE DEF w
<1>9. pending' = pending + (IF c THEN 1 ELSE 0) - (IF e THEN 1 ELSE 0)
  <2>1. pending \in Nat /\ (e => pending # 0)
    BY <1>7
  <2>2. c \in BOOLEAN /\ e \in BOOLEAN
    BY <1>3 DEF FifoInv
  <2> HIDE DEF c, e
  <2>3. QED
    BY <1>7, <1>8, <2>1 DEF PendingNext
<1>10. Ends' = kept \cup (IF c THEN {wr} ELSE {})
  BY <1>5
<1>11. Moves(r, w, c, e)
  <2>1. (e => r /\ rd \in Ends) /\ (r /\ ~e => rd \notin Ends) /\ (c => w)
    BY <1>5
  <2> HIDE DEF r, c, e
  <2>2. Cardinality(Ends)' = Cardinality(Ends) + (IF c THEN 1 ELSE 0) - (IF e THEN 1 ELSE 0)
    BY <1>7, <1>9
  <2>3. r => Cardinality(Ends) > 0
    BY <1>7
  <2>4. QED
    BY <1>1, <1>2, <1>3, <1>4, <1>6, <1>7, <1>10, <2>1, <2>2, <2>3 DEF Moves
<1>12. QED
  BY <1>11 DEF w

LEMMA RankMoves ==
  ASSUME TypeOK, NEW r \in BOOLEAN, NEW w \in BOOLEAN, NEW c \in BOOLEAN, NEW e \in BOOLEAN,
         Moves(r, w, c, e)
  PROVE  /\ \A q \in Ptr : (r => q # rd) =>
              Ahead(rd', q) = Ahead(rd, q) - (IF r THEN 1 ELSE 0) /\ Ahead(rd, q) \in Nat
         /\ \A p \in Ends : (r => p # rd) =>
              p \in Ends' /\ Rank(p)' = Rank(p) - (IF e THEN 1 ELSE 0)
         /\ \A p : c /\ p = wr => p \in Ends' /\ Rank(p)' = Cardinality(Ends)'
         /\ e => rd \in Ends /\ Rank(rd) = 1
<1>1. /\ wr \in Ptr /\ rd \in Ptr /\ FillLevel \in 0 .. Depth
      /\ rd' = IF r THEN (IF rd + 1 = 2 * Depth THEN 0 ELSE rd + 1) ELSE rd
      /\ (r => FillLevel > 0) /\ wr \notin Ends
      /\ Ends' = (IF r THEN Ends \ {rd} ELSE Ends) \cup (IF c THEN {wr} ELSE {})
      /\ (e => r /\ rd \in Ends) /\ (r /\ ~e => rd \notin Ends)
  BY PtrArith DEF Moves
<1>2. \A q \in Ptr : (r => q # rd) =>
        Ahead(rd', q) = Ahead(rd, q) - (IF r THEN 1 ELSE 0) /\ Ahead(rd, q) \in Nat
  BY <1>1, Constants DEF Ahead, Ptr
<1>3. Ahead(rd, wr) = FillLevel /\ (r => wr # rd) /\ Ahead(rd, rd) = 0
  BY <1>1, Constants DEF Ahead, FillLevel, Ptr
<1>4. \A p \in Ends : p \in Ptr /\ Ahead(rd, p) < FillLevel
  BY Zenon DEF Ends
<1>5. \A p \in Ptr : Ahead(rd, p) \in Nat /\ (Ahead(rd, p) = 0 => p = rd)
  BY <1>1, Constants DEF Ahead, Ptr
<1>6. e => rd \in Ends /\ Rank(rd) = 1
  <2> SUFFICES ASSUME e PROVE rd \in Ends /\ Rank(rd) = 1
    OBVIOUS
  <2>1. rd \in Ends
    BY <1>1
  <2>2. UpTo(rd) = {rd}
    BY <1>3, <1>4, <1>5, <2>1 DEF UpTo
  <2>3. QED
    BY <2>1, <2>2, FS_Singleton DEF Rank
<1>7. ASSUME NEW p \in Ends, r => p # rd
      PROVE  p \in Ends' /\ Rank(p)' = Rank(p) - (IF e THEN 1 ELSE 0)
  <2>1. p \in Ends'
    BY <1>1, <1>7
  <2>2. UpTo(p)' = {q \in Ends' : Ahead(rd', q) <= Ahead(rd', p)}
    BY DEF UpTo, Ahead
  <2>3. \A q \in Ends : (r => q # rd) => (Ahead(rd', q) <= Ahead(rd', p) <=> Ahead(rd, q) <= Ahead(rd, p))
    BY <1>2, <1>4, <1>7
  <2>4. ~(Ahead(rd', wr) <= Ahead(rd', p))
    BY <1>1, <1>2, <1>3, <1>4, <1>7
  <2>5. UpTo(p)' = IF r THEN UpTo(p) \ {rd} ELSE UpTo(p)
    <3>1. ASSUME NEW q
          PROVE  q \in {x \in Ends' : Ahead(rd', x) <= Ahead(rd', p)} <=>
                 q \in UpTo(p) /\ (r => q # rd)
      BY <1>1, <2>3, <2>4, Zenon DEF UpTo
    <3>2. CASE r
      BY <2>2, <3>1, <3>2
    <3>3. CASE ~r
      BY <2>2, <3>1, <3>3
    <3>4. QED
      BY <3>2, <3>3
  <2>6. IsFiniteSet(UpTo(p)) /\ Cardinality(UpTo(p)) \in Nat
    BY EndsFinite, FS_Subset, FS_CardinalityType, UpTo(p) \subseteq Ends DEF UpTo
  <2>7. e => r /\ rd \in UpTo(p)
    BY <1>1, <1>3, <1>4, <1>5 DEF UpTo
  <2>8. ~e /\ r => rd \notin UpTo(p)
    BY <1>1 DEF UpTo
  <2>9. Cardinality(UpTo(p)') = Cardinality(UpTo(p)) - (IF e THEN 1 ELSE 0)
    <3>1. CASE e
      <4>1. Cardinality(UpTo(p) \ {rd}) = Cardinality(UpTo(p)) - 1
        BY <2>6, <2>7, <3>1, FS_RemoveElement
      <4>2. UpTo(p)' = UpTo(p) \ {rd}
        BY <2>5, <2>7, <3>1
      <4>3. QED
        BY <3>1, <4>1, <4>2
    <3>2. CASE ~e
      <4>1. UpTo(p)' = UpTo(p)
        BY <2>5, <2>8, <3>2
      <4>2. QED
        BY <2>6, <3>2, <4>1
    <3>3. QED
      BY <3>1, <3>2
  <2>10. QED
    BY <2>1, <2>9, Zenon DEF Rank
<1>8. ASSUME NEW p, c, p = wr PROVE p \in Ends' /\ Rank(p)' = Cardinality(Ends)'
  <2>1. p \in Ends' /\ p \in Ptr
    BY <1>1, <1>8
  <2>2. UpTo(p)' = {q \in Ends' : Ahead(rd', q) <= Ahead(rd', p)}
    BY DEF UpTo, Ahead
  <2>3. \A q \in Ends' : Ahead(rd', q) <= Ahead(rd', p)
    <3>1. TAKE q \in Ends'
    <3>2. CASE q = wr
      <4>1. Ahead(rd', wr) \in Nat
        BY <1>1, Constants DEF Ahead, Ptr
      <4>2. QED
        BY <1>8, <3>2, <4>1
    <3>3. CASE q # wr
      <4>1. q \in Ends /\ (r => q # rd)
        BY <1>1, <3>3
      <4>2. QED
        BY <1>1, <1>2, <1>3, <1>4, <1>8, <4>1
    <3>4. QED
      BY <3>2, <3>3
  <2>4. UpTo(p)' = Ends'
    BY <2>2, <2>3
  <2>5. QED
    BY <2>1, <2>4, Zenon DEF Rank
<1>9. QED
  BY <1>2, <1>6, <1>7, <1>8

(* The ends after a cycle: those behind an end that was read, and one that  *)
(* was written.                                                             *)
LEMMA EndsKept ==
  ASSUME TypeOK, TypeOK', RankOK, NEW r \in BOOLEAN, NEW w \in BOOLEAN, NEW c \in BOOLEAN,
         NEW e \in BOOLEAN, Moves(r, w, c, e), NEW n \in Nat, NEW d \in {0, 1},
         n = Cardinality(Ends) - d, d = IF e THEN 1 ELSE 0
  PROVE  /\ RankOK'
         /\ Cardinality(Ends)' = n + (IF c THEN 1 ELSE 0)
         /\ \A k \in 1 .. n : k + d \in 1 .. Cardinality(Ends) /\ End(k)' = End(k + d)
         /\ \A k : c /\ k = n + 1 => End(k)' = wr
         /\ e => End(1) = rd
<1>1. EndShape
  BY EndIs
<1>2. /\ \A p \in Ends : (r => p # rd) => p \in Ends' /\ Rank(p)' = Rank(p) - d
      /\ \A p : c /\ p = wr => p \in Ends' /\ Rank(p)' = Cardinality(Ends)'
      /\ e => rd \in Ends /\ Rank(rd) = 1
  BY RankMoves
<1>3. Cardinality(Ends)' = n + (IF c THEN 1 ELSE 0) /\ Cardinality(Ends) \in Nat
  BY DEF Moves
<1>4. /\ r /\ ~e => rd \notin Ends
      /\ r => Cardinality(Ends) > 0
  BY DEF Moves
<1>5. ASSUME NEW k \in 1 .. n
      PROVE  /\ k + d \in 1 .. Cardinality(Ends) /\ End(k + d) \in Ends'
             /\ Rank(End(k + d)) = k + d /\ (r => End(k + d) # rd)
             /\ \A p : p = End(k + d) => Rank(p)' = k
  <2>1. k + d \in 1 .. Cardinality(Ends)
    BY <1>3
  <2>2. End(k + d) \in Ends /\ Rank(End(k + d)) = k + d
    BY <1>1, <2>1 DEF EndShape
  <2>3. r => End(k + d) # rd
    <3>1. CASE e
      <4>1. Rank(rd) = 1 /\ d = 1 /\ k + d # 1
        BY <1>2, <3>1
      <4>2. QED
        BY <2>2, <4>1
    <3>2. CASE ~e
      BY <1>4, <2>2, <3>2
    <3>3. QED
      BY <3>1, <3>2
  <2>4. (k + d) - d = k
    OBVIOUS
  <2>5. End(k + d) \in Ends' /\ \A p : p = End(k + d) => Rank(p)' = k
    BY <1>2, <2>2, <2>3, <2>4, Zenon
  <2>6. QED
    BY <2>1, <2>2, <2>3, <2>5
<1>6. RankOK'
  <2>1. ASSUME NEW k \in 1 .. Cardinality(Ends)' PROVE \E p \in Ends' : Rank(p)' = k
    <3>1. CASE k \in 1 .. n
      BY <1>5, <3>1
    <3>2. CASE c /\ k = Cardinality(Ends)'
      BY <1>2, <3>2
    <3>3. QED
      BY <1>3, <3>1, <3>2
  <2>2. QED
    BY <2>1 DEF RankOK
<1>7. EndShape'
  BY <1>6, EndIsNext
<1>8. ASSUME NEW k \in 1 .. n PROVE End(k)' = End(k + d)
  <2>1. k \in 1 .. Cardinality(Ends)'
    BY <1>3
  <2>2. \A p \in Ends' : Rank(p)' = k => p = End(k)'
    BY <1>7, <2>1, Zenon DEF EndShape
  <2>3. QED
    BY <1>5, <2>2
<1>9. ASSUME NEW k, c, k = n + 1 PROVE End(k)' = wr
  <2>1. k \in 1 .. Cardinality(Ends)' /\ k = Cardinality(Ends)'
    BY <1>3, <1>9
  <2>2. \A p \in Ends' : Rank(p)' = k => p = End(k)'
    BY <1>7, <2>1, Zenon DEF EndShape
  <2>3. \A p : p = wr => p \in Ends' /\ Rank(p)' = k
    BY <1>2, <1>9, <2>1
  <2>4. QED
    BY <2>2, <2>3
<1>10. e => End(1) = rd
  <2> SUFFICES ASSUME e PROVE End(1) = rd
    OBVIOUS
  <2>1. 1 \in 1 .. Cardinality(Ends)
    BY <1>3
  <2>2. \A p \in Ends : Rank(p) = 1 => p = End(1)
    BY <1>1, <2>1, Zenon DEF EndShape
  <2>3. QED
    BY <1>2, <2>2
<1>11. QED
  BY <1>3, <1>5, <1>6, <1>8, <1>9, <1>10

(* Where a frame starts, seen from the read pointer.                       *)
LEMMA StartFacts ==
  ASSUME TypeOK, RankOK
  PROVE  /\ \A k \in 1 .. Cardinality(Ends) + 1 : Start(k) \in Ptr
         /\ \A k \in 1 .. Cardinality(Ends) : Ahead(rd, Start(k)) <= Ahead(rd, End(k))
         /\ \A k \in 2 .. Cardinality(Ends) + 1 : Ahead(rd, Start(k)) \in 1 .. FillLevel
         /\ Start(1) = rd /\ Ahead(rd, rd) = 0
<1>1. EndShape /\ Cardinality(Ends) \in Nat
  BY EndIs, EndsFinite
<1>2. rd \in Ptr /\ FillLevel \in 0 .. Depth
  BY DEF TypeOK, Ptr
<1>3. \A p \in Ends : p \in Ptr /\ Ahead(rd, p) < FillLevel
  BY Zenon DEF Ends
<1>4. \A p \in Ptr : Ahead(rd, p) \in Nat
                     /\ (Ahead(rd, p) < FillLevel => Ahead(rd, NextPtr(p)) = Ahead(rd, p) + 1)
  <2>1. TAKE p \in Ptr
  <2>2. NextPtr(p) = (IF p + 1 = 2 * Depth THEN 0 ELSE p + 1)
    BY PtrArith
  <2>3. QED
    BY <1>2, <2>2, Constants DEF Ahead, Ptr
<1>5. ASSUME NEW k \in 2 .. Cardinality(Ends) + 1
      PROVE  /\ k - 1 \in 1 .. Cardinality(Ends) /\ Start(k) = NextPtr(End(k - 1))
             /\ End(k - 1) \in Ends /\ Start(k) \in Ptr
             /\ Ahead(rd, Start(k)) = Ahead(rd, End(k - 1)) + 1
  <2>1. k - 1 \in 1 .. Cardinality(Ends) /\ k # 1
    BY <1>1
  <2>2. Start(k) = NextPtr(End(k - 1)) /\ End(k - 1) \in Ends
    BY <1>1, <2>1 DEF Start, EndShape
  <2>3. QED
    BY <1>3, <1>4, <2>1, <2>2, PtrArith
<1>6. Start(1) = rd /\ Ahead(rd, rd) = 0
  BY <1>2, Constants DEF Start, Ahead, Ptr
<1>7. ASSUME NEW k \in 1 .. Cardinality(Ends)
      PROVE  Ahead(rd, Start(k)) <= Ahead(rd, End(k))
  <2>1. End(k) \in Ends /\ Ahead(rd, End(k)) \in Nat /\ Rank(End(k)) = k
    BY <1>1, <1>3, <1>4 DEF EndShape
  <2>2. CASE k = 1
    BY <1>6, <2>1, <2>2
  <2>3. CASE k # 1
    <3>1. k \in 2 .. Cardinality(Ends) + 1 /\ k - 1 \in 1 .. Cardinality(Ends)
      BY <1>1, <2>3
    <3>2. End(k - 1) \in Ends /\ Rank(End(k - 1)) = k - 1 /\ Ahead(rd, End(k - 1)) \in Nat
      BY <1>1, <1>3, <1>4, <3>1 DEF EndShape
    <3>3. ~(Ahead(rd, End(k)) < Ahead(rd, End(k - 1)))
      <4>1. \A p, q \in Ends : Ahead(rd, p) < Ahead(rd, q) => Rank(p) < Rank(q)
        BY RankFacts
      <4>2. ~(k < k - 1)
        OBVIOUS
      <4>3. QED
        BY <2>1, <3>2, <4>1, <4>2, Zenon
    <3>4. Ahead(rd, End(k)) # Ahead(rd, End(k - 1))
      <4>1. End(k) # End(k - 1)
        BY <2>1, <3>2
      <4>2. QED
        BY <1>2, <1>3, <2>1, <3>2, <4>1, Constants DEF Ahead, Ptr
    <3>5. QED
      BY <1>5, <2>1, <3>1, <3>2, <3>3, <3>4
  <2>4. QED
    BY <2>2, <2>3
<1>8. \A k \in 2 .. Cardinality(Ends) + 1 : Ahead(rd, Start(k)) \in 1 .. FillLevel
  BY <1>2, <1>3, <1>4, <1>5
<1>9. \A k \in 1 .. Cardinality(Ends) + 1 : Start(k) \in Ptr
  BY <1>1, <1>2, <1>5, <1>6
<1>10. QED
  BY <1>6, <1>7, <1>8, <1>9

LEMMA StartsKept ==
  ASSUME TypeOK, TypeOK', RankOK, NEW r \in BOOLEAN, NEW w \in BOOLEAN, NEW c \in BOOLEAN,
         NEW e \in BOOLEAN, Moves(r, w, c, e), NEW n \in Nat, NEW d \in {0, 1},
         n = Cardinality(Ends) - d, d = IF e THEN 1 ELSE 0
  PROVE  /\ \A k \in 1 .. n + 1 :
              Start(k)' = IF k = 1 /\ r /\ ~e THEN NextPtr(rd) ELSE Start(k + d)
         /\ \A k : c /\ k = n + 2 => Start(k)' = wr'
<1>1. /\ \A k \in 1 .. n : k + d \in 1 .. Cardinality(Ends) /\ End(k)' = End(k + d)
      /\ \A k : c /\ k = n + 1 => End(k)' = wr
      /\ e => End(1) = rd
  BY EndsKept
<1>2. /\ rd' = IF r THEN NextPtr(rd) ELSE rd
      /\ c => wr' = NextPtr(wr)
      /\ e => r
  BY DEF Moves
<1>3. \A k : Start(k)' = IF k = 1 THEN rd' ELSE NextPtr(End(k - 1)')
  BY DEF Start, NextPtr
<1>4. ASSUME NEW k \in 1 .. n + 1
      PROVE  Start(k)' = IF k = 1 /\ r /\ ~e THEN NextPtr(rd) ELSE Start(k + d)
  <2>1. CASE k = 1 /\ ~r
    <3>1. ~e /\ k + d = 1
      BY <1>2, <2>1
    <3>2. QED
      BY <1>2, <1>3, <2>1, <3>1 DEF Start
  <2>2. CASE k = 1 /\ r /\ ~e
    BY <1>2, <1>3, <2>2
  <2>3. CASE k = 1 /\ r /\ e
    <3>1. k + d # 1 /\ (k + d) - 1 = 1
      BY <2>3
    <3>2. Start(k + d) = NextPtr(rd)
      BY <1>1, <2>3, <3>1 DEF Start
    <3>3. QED
      BY <1>2, <1>3, <2>3, <3>2
  <2>4. CASE k # 1
    <3>1. k - 1 \in 1 .. n /\ k + d # 1 /\ (k + d) - 1 = (k - 1) + d
      BY <2>4
    <3>2. End(k - 1)' = End((k - 1) + d)
      BY <1>1, <3>1, Zenon
    <3>3. Start(k + d) = NextPtr(End((k - 1) + d))
      BY <3>1 DEF Start
    <3>4. QED
      BY <1>3, <2>4, <3>2, <3>3
  <2>5. QED
    BY <2>1, <2>2, <2>3, <2>4
<1>5. ASSUME NEW k, c, k = n + 2 PROVE Start(k)' = wr'
  <2>1. k # 1 /\ k - 1 = n + 1
    BY <1>5
  <2>2. End(k - 1)' = wr
    BY <1>1, <1>5, <2>1
  <2>3. QED
    BY <1>2, <1>3, <1>5, <2>1, <2>2
<1>6. QED
  BY <1>4, <1>5

(* Where the frame going in starts after a cycle.                          *)
LEMMA OpenMoves ==
  ASSUME TypeOK, TypeOK', RankOK, NEW r \in BOOLEAN, NEW w \in BOOLEAN, NEW c \in BOOLEAN,
         NEW e \in BOOLEAN, Moves(r, w, c, e)
  PROVE  Open' = IF c THEN wr' ELSE Open
<1>1. PICK d \in {0, 1} : d = IF e THEN 1 ELSE 0
  OBVIOUS
<1>2. Cardinality(Ends) \in Nat /\ (r => Cardinality(Ends) > 0) /\ (e => r)
  BY DEF Moves
<1>3. PICK n \in Nat : n = Cardinality(Ends) - d
  BY <1>1, <1>2
<1>4. Cardinality(Ends)' = n + (IF c THEN 1 ELSE 0)
  BY <1>1, <1>3, EndsKept
<1>5. /\ \A k \in 1 .. n + 1 :
           Start(k)' = IF k = 1 /\ r /\ ~e THEN NextPtr(rd) ELSE Start(k + d)
      /\ \A k : c /\ k = n + 2 => Start(k)' = wr'
  BY <1>1, <1>3, StartsKept
<1>6. \A k : k = Cardinality(Ends)' + 1 => Open' = Start(k)'
  BY DEF Open
<1>7. CASE c
  <2>1. Cardinality(Ends)' + 1 = n + 2
    BY <1>4, <1>7
  <2>2. QED
    BY <1>5, <1>6, <1>7, <2>1
<1>8. CASE ~c
  <2>1. Cardinality(Ends)' + 1 = n + 1 /\ n + 1 \in 1 .. n + 1 /\ (n + 1) + d = Cardinality(Ends) + 1
    BY <1>1, <1>2, <1>3, <1>4, <1>8
  <2>2. ~(n + 1 = 1 /\ r /\ ~e)
    BY <1>1, <1>2, <1>3
  <2>3. Open' = Start(n + 1)'
    BY <1>6, <2>1
  <2>4. Start(n + 1)' = Start((n + 1) + d)
    BY <1>5, <2>1, <2>2
  <2>5. QED
    BY <1>8, <2>1, <2>3, <2>4 DEF Open
<1>9. QED
  BY <1>7, <1>8

LEMMA OpenStep ==
  ASSUME TypeOK, TypeOK', FrameInv, NEW r \in BOOLEAN, NEW w \in BOOLEAN, NEW c \in BOOLEAN,
         NEW e \in BOOLEAN, Moves(r, w, c, e),
         inFrame' = IF ~w THEN inFrame ELSE IF c THEN 0 ELSE inFrame + 1
  PROVE  OpenOK'
<1>1. Open' = (IF c THEN wr' ELSE Open) /\ RankOK
  BY OpenMoves DEF FrameInv
<1>2. Ahead(rd, Open) + inFrame = FillLevel /\ inFrame \in Nat /\ FillLevel \in Nat
  BY Constants DEF FrameInv, OpenOK, TypeOK
<1>3. /\ wr' \in Ptr /\ rd' \in Ptr /\ (r => Cardinality(Ends) > 0) /\ Cardinality(Ends) \in Nat
      /\ FillLevel' = FillLevel + (IF w THEN 1 ELSE 0) - (IF r THEN 1 ELSE 0)
      /\ c => w
  BY DEF Moves
<1>4. CASE c
  <2>1. Ahead(rd', wr') = FillLevel' /\ inFrame' = 0
    BY <1>3, <1>4 DEF Ahead, FillLevel
  <2>2. FillLevel' \in Nat
    BY Constants DEF TypeOK
  <2>3. QED
    BY <1>1, <1>4, <2>1, <2>2 DEF OpenOK, Ahead
<1>5. CASE ~c
  <2>1. Open \in Ptr /\ (Cardinality(Ends) > 0 => Ahead(rd, Open) >= 1) /\ Ahead(rd, rd) = 0
    <3>1. Cardinality(Ends) + 1 \in 1 .. Cardinality(Ends) + 1
      BY <1>3
    <3>2. Open \in Ptr /\ Ahead(rd, rd) = 0
      BY <1>1, <3>1, StartFacts DEF Open
    <3>3. ASSUME Cardinality(Ends) > 0 PROVE Ahead(rd, Open) >= 1
      <4>1. Cardinality(Ends) + 1 \in 2 .. Cardinality(Ends) + 1
        BY <1>3, <3>3
      <4>2. Ahead(rd, Start(Cardinality(Ends) + 1)) \in 1 .. FillLevel
        BY <1>1, <4>1, StartFacts
      <4>3. QED
        BY <1>2, <4>2 DEF Open
    <3>4. QED
      BY <3>2, <3>3
  <2>2. r => Open # rd
    <3>1. ~(0 >= 1)
      OBVIOUS
    <3>2. QED
      BY <1>3, <2>1, <3>1
  <2>3. Ahead(rd', Open) = Ahead(rd, Open) - (IF r THEN 1 ELSE 0) /\ Ahead(rd, Open) \in Nat
    BY <2>1, <2>2, RankMoves
  <2>4. inFrame' = inFrame + (IF w THEN 1 ELSE 0)
    BY <1>2, <1>5
  <2>5. Ahead(rd', Open) + inFrame' = FillLevel'
    BY <1>2, <1>3, <2>3, <2>4
  <2>6. QED
    BY <1>1, <1>5, <2>5 DEF OpenOK, Ahead
<1>6. QED
  BY <1>4, <1>5

LEMMA FrameStep == FifoInv /\ FifoInv' /\ FrameInv /\ [Next]_vars => FrameInv'
<1> SUFFICES ASSUME FifoInv, FifoInv', FrameInv, [Next]_vars PROVE FrameInv'
  OBVIOUS
<1>1. ASSUME NEW ready \in BOOLEAN, NEW valid \in BOOLEAN, NEW b \in Offered,
             Cycle(valid, b, ready)
      PROVE  FrameInv'
  <2>1. PICK r \in BOOLEAN : r <=> TValid /\ ready
    OBVIOUS
  <2>2. PICK w \in BOOLEAN : w <=> valid /\ TReady
    OBVIOUS
  <2>3. PICK c \in BOOLEAN : c <=> valid /\ TReady /\ b.last
    OBVIOUS
  <2>4. PICK e \in BOOLEAN : e <=> TValid /\ ready /\ Dout.last
    OBVIOUS
  <2>5. Moves(r, w, c, e)
    BY <1>1, <2>1, <2>2, <2>3, <2>4, CycleMovesEnds, Zenon DEF Moves
  <2>6. inFrame' = IF ~w THEN inFrame ELSE IF c THEN 0 ELSE inFrame + 1
    BY <1>1, <2>2, <2>3 DEF Cycle
  <2>7. TypeOK /\ TypeOK'
    BY DEF FifoInv
  <2>8. OpenOK'
    BY <2>5, <2>6, <2>7, OpenStep
  <2>9. RankOK'
    <3>1. PICK d \in {0, 1} : d = IF e THEN 1 ELSE 0
      OBVIOUS
    <3>2. PICK n \in Nat : n = Cardinality(Ends) - d
      BY <2>5, <3>1 DEF Moves
    <3>3. QED
      BY <2>5, <2>7, <3>1, <3>2, EndsKept DEF FrameInv
  <2>10. QED
    BY <2>8, <2>9 DEF FrameInv
<1>2. CASE UNCHANGED vars
  BY <1>2 DEF vars, FrameInv, RankOK, OpenOK, Open, Start, End, Rank, UpTo, Ends, Ahead,
              FillLevel, NextPtr, Ptr
<1>3. QED
  BY <1>1, <1>2 DEF Next, Clock

LEMMA FrameInit == Init => FrameInv
<1> SUFFICES ASSUME Init PROVE FrameInv
  OBVIOUS
<1>1. Ends = {} /\ Cardinality(Ends) = 0 /\ FillLevel = 0
  <2>1. TypeOK /\ pending = Cardinality(Ends) /\ pending = 0
    BY InitInv DEF FifoInv, Init
  <2>2. QED
    BY <2>1, EndsFinite DEF Init, FillLevel
<1>2. RankOK
  BY <1>1 DEF RankOK
<1>3. OpenOK
  BY <1>1, Constants DEF Init, OpenOK, Open, Start, Ahead
<1>4. QED
  BY <1>2, <1>3 DEF FrameInv

LEMMA FrameAlways == Spec => []FrameInv
<1>1. QED
  BY FrameInit, FrameStep, FifoAlways, PTL DEF Spec

(* Refusing is never a dead end: a stored frame is on offer in every cycle, *)
(* and a FIFO that takes no beat holds one, since no frame is longer than   *)
(* the FIFO (the header's sizing rule).  This is what ReadyAgain rests on.  *)
OnOffer == (pending # 0 => TValid) /\ (TReady \/ TValid)

THEOREM NeverStuck == Spec => []OnOffer
<1>1. FifoInv /\ FrameInv => OnOffer
  <2> SUFFICES ASSUME FifoInv, FrameInv PROVE OnOffer
    OBVIOUS
  <2>1. /\ pending = Cardinality(Ends) /\ Cardinality(Ends) \in Nat
        /\ FillLevel \in 0 .. Depth /\ rd \in Ptr /\ inFrame \in 0 .. MaxFrame - 1
    BY EndsFinite DEF FifoInv, TypeOK, Ptr
  <2>2. pending # 0 => FillLevel # 0
    <3> SUFFICES ASSUME pending # 0 PROVE FillLevel # 0
      OBVIOUS
    <3>1. PICK p \in Ends : TRUE
      BY <2>1, EndsFinite
    <3>2. p \in Ptr /\ Ahead(rd, p) < FillLevel
      BY Zenon DEF Ends
    <3>3. Ahead(rd, p) \in Nat
      BY <2>1, <3>2, Constants DEF Ahead, Ptr
    <3>4. QED
      BY <2>1, <3>2, <3>3, Constants
  <2>3. FillLevel = Depth => pending # 0
    <3> SUFFICES ASSUME FillLevel = Depth, Cardinality(Ends) = 0 PROVE FALSE
      BY <2>1
    <3>1. Open = rd
      BY DEF Open, Start
    <3>2. Ahead(rd, rd) = 0
      BY <2>1, Constants DEF Ahead, Ptr
    <3>3. Ahead(rd, Open) + inFrame = FillLevel
      BY DEF FrameInv, OpenOK
    <3>4. QED
      BY <2>1, <3>1, <3>2, <3>3, Constants
  <2>4. QED
    BY <2>2, <2>3, Constants DEF OnOffer, TValid, TReady
<1>2. QED
  BY <1>1, FifoAlways, FrameAlways, PTL

----------------------------------------------------------------------------
(* The refinement.  Plus is the pointer value j entries further; Piece is n *)
(* beats from a pointer value on, in RAM m.                                 *)

Cells == Beat \cup {NoBeat}

Plus(p, j) == IF p + j < 2 * Depth THEN p + j ELSE p + j - 2 * Depth

Piece(m, from, n) == [i \in 1 .. n |-> m[Index(Plus(from, i - 1))]]

LEMMA PlusFacts ==
  ASSUME NEW p \in Ptr, NEW j \in 0 .. Depth
  PROVE  /\ Plus(p, j) \in Ptr /\ Index(Plus(p, j)) \in 0 .. Depth - 1
         /\ (p + j) % Depth = Index(Plus(p, j))
         /\ NextPtr(p) = Plus(p, 1) /\ NextPtr(p) \in Ptr /\ Plus(p, 0) = p
<1>1. p \in Nat /\ j \in Nat /\ p + j \in 0 .. 3 * Depth - 1 /\ Plus(p, j) \in Ptr
  BY Constants DEF Ptr, Plus
<1>2. Index(Plus(p, j)) \in 0 .. Depth - 1 /\ NextPtr(p) \in Ptr
  BY <1>1, PtrArith
<1>3. NextPtr(p) = Plus(p, 1) /\ Plus(p, 0) = p
  BY PtrArith, Constants DEF Plus, Ptr
<1>4. \A d \in Nat \ {0} : \A x \in 0 .. 3 * d - 1 :
        /\ x < d => x % d = x
        /\ d <= x /\ x < 2 * d => x % d = x - d
        /\ 2 * d <= x => x % d = x - 2 * d
  BY SMTT(30)
<1>5. PICK x \in 0 .. 3 * Depth - 1 : x = p + j
  BY <1>1
<1>6. (p + j) % Depth = Index(Plus(p, j))
  <2>1. Depth \in Nat \ {0}
    BY Constants
  <2>2. /\ x < Depth => x % Depth = x
        /\ Depth <= x /\ x < 2 * Depth => x % Depth = x - Depth
        /\ 2 * Depth <= x => x % Depth = x - 2 * Depth
    BY <1>4, <2>1, Zenon
  <2>3. PICK m : m = x % Depth
    OBVIOUS
  <2>4. m = Index(Plus(p, j))
    BY <1>1, <1>5, <2>1, <2>2, <2>3 DEF Index, Plus, Ptr
  <2>5. QED
    BY <1>5, <2>3, <2>4, Zenon
<1>7. QED
  BY <1>1, <1>2, <1>3, <1>6

LEMMA FunctionIsSeq ==
  ASSUME NEW S, NEW n \in Nat, NEW f \in [1 .. n -> S]
  PROVE  f \in Seq(S) /\ Len(f) = n
<1>1. f \in Seq(S)
  BY SeqDef
<1>2. DOMAIN f = 1 .. n /\ DOMAIN f = 1 .. Len(f) /\ Len(f) \in Nat
  BY <1>1, LenProperties
<1>3. \A a, c \in Nat : 1 .. a = 1 .. c => a = c
  <2>1. SUFFICES ASSUME NEW a \in Nat, NEW c \in Nat, 1 .. a = 1 .. c PROVE a <= c /\ c <= a
    OBVIOUS
  <2>2. \A i \in Nat \ {0} : i \in 1 .. a <=> i \in 1 .. c
    BY <2>1
  <2>3. \A i \in Nat \ {0} : i <= a <=> i <= c
    BY <2>2
  <2>4. QED
    BY <2>3
<1>4. QED
  BY <1>1, <1>2, <1>3

LEMMA PieceIsSeq ==
  ASSUME NEW m \in [0 .. Depth - 1 -> Cells], NEW p \in Ptr, NEW n \in 0 .. Depth
  PROVE  /\ Piece(m, p, n) \in Seq(Cells) /\ Len(Piece(m, p, n)) = n
         /\ \A i \in 1 .. n : Piece(m, p, n)[i] = m[Index(Plus(p, i - 1))]
<1>1. \A i \in 1 .. n : Index(Plus(p, i - 1)) \in 0 .. Depth - 1
  <2>1. TAKE i \in 1 .. n
  <2>2. i - 1 \in 0 .. Depth
    BY Constants
  <2>3. QED
    BY <2>2, PlusFacts
<1>2. Piece(m, p, n) \in [1 .. n -> Cells]
  BY <1>1 DEF Piece
<1>3. n \in Nat
  BY Constants
<1>4. QED
  BY <1>2, <1>3, FunctionIsSeq DEF Piece

LEMMA BeatsIs ==
  ASSUME NEW p \in Ptr, NEW n \in 0 .. Depth
  PROVE  Beats(p, n) = Piece(mem, p, n)
<1>1. ASSUME NEW i \in 1 .. n PROVE (p + i - 1) % Depth = Index(Plus(p, i - 1))
  <2>1. i - 1 \in 0 .. Depth /\ p + i - 1 = p + (i - 1)
    BY Constants DEF Ptr
  <2>2. (p + (i - 1)) % Depth = Index(Plus(p, i - 1))
    BY <2>1, PlusFacts
  <2>3. QED
    BY <2>1, <2>2, Zenon
<1>2. QED
  BY <1>1 DEF Beats, Piece

LEMMA PieceTail ==
  ASSUME NEW m \in [0 .. Depth - 1 -> Cells], NEW p \in Ptr, NEW n \in 1 .. Depth
  PROVE  Tail(Piece(m, p, n)) = Piece(m, NextPtr(p), n - 1)
<1>1. n \in 0 .. Depth /\ n - 1 \in 0 .. Depth /\ NextPtr(p) \in Ptr
  BY PtrArith, Constants
<1>2. /\ Piece(m, p, n) \in Seq(Cells) /\ Len(Piece(m, p, n)) = n
      /\ \A i \in 1 .. n : Piece(m, p, n)[i] = m[Index(Plus(p, i - 1))]
  BY <1>1, PieceIsSeq
<1>3. /\ Piece(m, NextPtr(p), n - 1) \in Seq(Cells) /\ Len(Piece(m, NextPtr(p), n - 1)) = n - 1
      /\ \A i \in 1 .. n - 1 :
           Piece(m, NextPtr(p), n - 1)[i] = m[Index(Plus(NextPtr(p), i - 1))]
  BY <1>1, PieceIsSeq
<1>4. Piece(m, p, n) # <<>>
  BY <1>2
<1>5. /\ Tail(Piece(m, p, n)) \in Seq(Cells) /\ Len(Tail(Piece(m, p, n))) = n - 1
      /\ \A i \in 1 .. n - 1 : Tail(Piece(m, p, n))[i] = Piece(m, p, n)[i + 1]
  BY <1>2, <1>4, HeadTailProperties
<1>6. \A i \in 1 .. n - 1 : Tail(Piece(m, p, n))[i] = Piece(m, NextPtr(p), n - 1)[i]
  <2>1. TAKE i \in 1 .. n - 1
  <2>2. i + 1 \in 1 .. n /\ (i + 1) - 1 = i
    BY <1>1
  <2>3. Plus(NextPtr(p), i - 1) = Plus(p, i)
    <3>1. NextPtr(p) = (IF p + 1 = 2 * Depth THEN 0 ELSE p + 1)
      BY PtrArith
    <3>2. QED
      BY <1>1, <3>1, Constants DEF Plus, Ptr
  <2>4. Piece(m, p, n)[i + 1] = m[Index(Plus(p, i))]
    BY <1>2, <2>2, Zenon
  <2>5. QED
    BY <1>3, <1>5, <2>3, <2>4, Zenon
<1>7. QED
  BY <1>3, <1>5, <1>6, SeqEqual

LEMMA PieceGrows ==
  ASSUME NEW m \in [0 .. Depth - 1 -> Cells], NEW m2 \in [0 .. Depth - 1 -> Cells],
         NEW p \in Ptr, NEW n \in 0 .. Depth - 1, NEW b \in Cells,
         Piece(m2, p, n) = Piece(m, p, n), m2[Index(Plus(p, n))] = b
  PROVE  Append(Piece(m, p, n), b) = Piece(m2, p, n + 1)
<1>1. n \in 0 .. Depth /\ n + 1 \in 0 .. Depth /\ n \in Nat
  BY Constants
<1>2. /\ Piece(m2, p, n) \in Seq(Cells) /\ Len(Piece(m2, p, n)) = n
      /\ \A i \in 1 .. n : Piece(m2, p, n)[i] = m2[Index(Plus(p, i - 1))]
  BY <1>1, PieceIsSeq
<1>3. /\ Piece(m2, p, n + 1) \in Seq(Cells) /\ Len(Piece(m2, p, n + 1)) = n + 1
      /\ \A i \in 1 .. n + 1 : Piece(m2, p, n + 1)[i] = m2[Index(Plus(p, i - 1))]
  BY <1>1, PieceIsSeq
<1>4. /\ Append(Piece(m2, p, n), b) \in Seq(Cells) /\ Len(Append(Piece(m2, p, n), b)) = n + 1
      /\ \A i \in 1 .. n : Append(Piece(m2, p, n), b)[i] = Piece(m2, p, n)[i]
      /\ Append(Piece(m2, p, n), b)[n + 1] = b
  BY <1>2, AppendProperties
<1>5. \A i \in 1 .. n + 1 : Append(Piece(m2, p, n), b)[i] = Piece(m2, p, n + 1)[i]
  <2>1. TAKE i \in 1 .. n + 1
  <2>2. CASE i \in 1 .. n
    BY <1>2, <1>3, <1>4, <2>2
  <2>3. CASE i = n + 1
    <3>1. i - 1 = n
      BY <1>1, <2>3
    <3>2. QED
      BY <1>3, <1>4, <2>3, <3>1
  <2>4. i \in 1 .. n \/ i = n + 1
    BY <1>1
  <2>5. QED
    BY <2>2, <2>3, <2>4, Zenon
<1>6. Append(Piece(m2, p, n), b) = Piece(m2, p, n + 1)
  BY <1>3, <1>4, <1>5, SeqEqual
<1>7. QED
  BY <1>6

(* A write leaves every stored beat where it is.                           *)
LEMMA PieceKept ==
  ASSUME TypeOK, NEW w \in BOOLEAN, NEW b,
         mem' = IF w THEN [mem EXCEPT ![Index(wr)] = b] ELSE mem, w => FillLevel < Depth,
         NEW p \in Ptr, NEW n \in Nat, Ahead(rd, p) + n <= FillLevel
  PROVE  Piece(mem', p, n) = Piece(mem, p, n)
<1>1. wr \in Ptr /\ rd \in Ptr /\ mem \in [0 .. Depth - 1 -> Cells] /\ FillLevel \in 0 .. Depth
  BY DEF TypeOK, Ptr, Cells
<1>2. ASSUME NEW i \in 1 .. n
      PROVE  mem'[Index(Plus(p, i - 1))] = mem[Index(Plus(p, i - 1))]
  <2>1. Ahead(rd, p) \in Nat
    BY <1>1, Constants DEF Ahead, Ptr
  <2>2. PICK j \in 0 .. Depth : j = i - 1 /\ Ahead(rd, p) + j < FillLevel
    BY <1>1, <2>1, Constants
  <2>3. PICK q \in Ptr : q = Plus(p, j)
    BY PlusFacts
  <2>4. Ahead(rd, q) = Ahead(rd, p) + j
    BY <1>1, <2>2, <2>3, Constants DEF Ahead, Plus, Ptr
  <2>5. w => Index(q) # Index(wr)
    BY <1>1, <2>2, <2>4, Constants DEF Ahead, FillLevel, Index, Ptr
  <2>6. Index(q) \in 0 .. Depth - 1
    BY PtrArith
  <2>7. mem'[Index(q)] = mem[Index(q)]
    BY <1>1, <2>5, <2>6
  <2>8. QED
    BY <2>2, <2>3, <2>7
<1>3. QED
  BY <1>2 DEF Piece

(* The queue: frame k begins at Start(k), Size(k) beats long.              *)
Size(k) == Ahead(Start(k), End(k)) + 1

QueueShape ==
  /\ Queue \in Seq(Seq(Cells)) /\ Len(Queue) = Cardinality(Ends)
  /\ \A k \in 1 .. Cardinality(Ends) :
       /\ Queue[k] = Piece(mem, Start(k), Size(k)) /\ Size(k) \in 1 .. Depth
       /\ Ahead(rd, Start(k)) \in Nat /\ Ahead(rd, Start(k)) + Size(k) <= FillLevel

LEMMA QueueIs == TypeOK /\ RankOK => QueueShape
<1> SUFFICES ASSUME TypeOK, RankOK PROVE QueueShape
  OBVIOUS
<1>1. /\ rd \in Ptr /\ FillLevel \in 0 .. Depth /\ Cardinality(Ends) \in Nat
      /\ mem \in [0 .. Depth - 1 -> Cells]
  BY EndsFinite DEF TypeOK, Ptr, Cells
<1>2. ASSUME NEW k \in 1 .. Cardinality(Ends)
      PROVE  /\ Start(k) \in Ptr /\ Ahead(rd, Start(k)) \in Nat /\ Size(k) \in 1 .. Depth
             /\ Ahead(rd, Start(k)) + Size(k) <= FillLevel
  <2>1. Start(k) \in Ptr /\ Ahead(rd, Start(k)) <= Ahead(rd, End(k))
    BY <1>1, StartFacts
  <2>2. End(k) \in Ptr /\ Ahead(rd, End(k)) < FillLevel
    <3>1. End(k) \in Ends
      BY EndIs DEF EndShape
    <3>2. QED
      BY <3>1, Zenon DEF Ends
  <2>3. \A p, q \in Ptr : Ahead(rd, p) <= Ahead(rd, q) =>
          /\ Ahead(rd, p) \in Nat /\ Ahead(rd, q) \in Nat /\ Ahead(p, q) \in Nat
          /\ Ahead(p, q) = Ahead(rd, q) - Ahead(rd, p)
    BY <1>1, Constants DEF Ahead, Ptr
  <2>4. /\ Ahead(rd, Start(k)) \in Nat /\ Ahead(rd, End(k)) \in Nat
        /\ Size(k) = Ahead(rd, End(k)) - Ahead(rd, Start(k)) + 1
    BY <2>1, <2>2, <2>3 DEF Size
  <2>5. \A a, z, f \in Nat : a <= z /\ z < f /\ f <= Depth =>
          z - a + 1 \in 1 .. Depth /\ a + (z - a + 1) <= f
    BY Constants
  <2>6. FillLevel \in Nat /\ FillLevel <= Depth
    BY <1>1, Constants
  <2>7. QED
    BY <2>1, <2>2, <2>4, <2>5, <2>6, Zenon
<1>3. ASSUME NEW k \in 1 .. Cardinality(Ends)
      PROVE  Queue[k] = Piece(mem, Start(k), Size(k)) /\ Queue[k] \in Seq(Cells)
  <2>1. Start(k) \in Ptr /\ Size(k) \in 0 .. Depth
    BY <1>2, Constants
  <2>2. Queue[k] = Beats(Start(k), Size(k))
    BY DEF Queue, Size
  <2>3. QED
    BY <1>1, <2>1, <2>2, BeatsIs, PieceIsSeq
<1>4. Queue \in [1 .. Cardinality(Ends) -> Seq(Cells)]
  BY <1>3 DEF Queue
<1>5. Queue \in Seq(Seq(Cells)) /\ Len(Queue) = Cardinality(Ends)
  BY <1>1, <1>4, FunctionIsSeq
<1>6. QED
  BY <1>2, <1>3, <1>5 DEF QueueShape

LEMMA QueueIsNext == TypeOK' /\ RankOK' => QueueShape'
BY QueueIs, PTL

(* The frame going in.                                                     *)
FillingShape ==
  /\ Filling = [lost |-> FALSE, beats |-> Piece(mem, Open, inFrame)]
  /\ Open \in Ptr /\ inFrame \in 0 .. Depth - 1
  /\ Ahead(Open, wr) = inFrame /\ Plus(Open, inFrame) = wr
  /\ Ahead(rd, Open) \in Nat /\ Ahead(rd, Open) + inFrame = FillLevel

LEMMA FillingIs == TypeOK /\ FrameInv => FillingShape
<1> SUFFICES ASSUME TypeOK, FrameInv PROVE FillingShape
  OBVIOUS
<1>1. /\ rd \in Ptr /\ wr \in Ptr /\ FillLevel \in 0 .. Depth /\ inFrame \in 0 .. Depth - 1
      /\ Cardinality(Ends) \in Nat
  BY EndsFinite, Constants DEF TypeOK, Ptr
<1>2. Open \in Ptr
  <2>1. Cardinality(Ends) + 1 \in 1 .. Cardinality(Ends) + 1
    BY <1>1
  <2>2. QED
    BY <2>1, StartFacts DEF Open, FrameInv
<1>3. Ahead(rd, Open) + inFrame = FillLevel
  BY DEF FrameInv, OpenOK
<1>4. Ahead(Open, wr) = inFrame /\ Plus(Open, inFrame) = wr /\ Ahead(rd, Open) \in Nat
  BY <1>1, <1>2, <1>3, Constants DEF Ahead, Plus, FillLevel, Ptr
<1>5. inFrame \in 0 .. Depth
  BY <1>1, Constants
<1>6. Filling = [lost |-> FALSE, beats |-> Beats(Open, Ahead(Open, wr))]
  BY DEF Filling, Open
<1>7. Beats(Open, Ahead(Open, wr)) = Piece(mem, Open, inFrame)
  BY <1>2, <1>4, <1>5, BeatsIs
<1>8. QED
  BY <1>1, <1>2, <1>3, <1>4, <1>6, <1>7 DEF FillingShape

LEMMA FillingIsNext == TypeOK' /\ FrameInv' => FillingShape'
BY FillingIs, PTL

LEMMA ConsShape ==
  ASSUME NEW T, NEW x \in T, NEW t \in Seq(T)
  PROVE  /\ <<x>> \o t \in Seq(T) /\ Len(<<x>> \o t) = Len(t) + 1 /\ (<<x>> \o t)[1] = x
         /\ \A i \in 2 .. Len(t) + 1 : (<<x>> \o t)[i] = t[i - 1]
<1>1. <<x>> \in Seq(T) /\ Len(<<x>>) = 1 /\ <<x>>[1] = x /\ Len(t) \in Nat
  BY LenProperties
<1>2. /\ <<x>> \o t \in Seq(T) /\ Len(<<x>> \o t) = 1 + Len(t)
      /\ \A i \in 1 .. 1 + Len(t) : (<<x>> \o t)[i] = IF i <= 1 THEN <<x>>[i] ELSE t[i - 1]
  BY <1>1, ConcatProperties
<1>3. QED
  BY <1>1, <1>2

(* A queue whose first frame has lost its first beat.                      *)
LEMMA HeadShortened ==
  ASSUME NEW S, NEW q \in Seq(Seq(S)), q # <<>>, q[1] # <<>>
  PROVE  LET r == <<Tail(q[1])>> \o Tail(q)
         IN  /\ r \in Seq(Seq(S)) /\ Len(r) = Len(q) /\ r[1] = Tail(q[1])
             /\ \A i \in 2 .. Len(q) : r[i] = q[i]
<1>1. /\ Len(q) \in Nat /\ Len(q) >= 1 /\ q[1] \in Seq(S)
      /\ Tail(q) \in Seq(Seq(S)) /\ Len(Tail(q)) = Len(q) - 1
      /\ \A i \in 1 .. Len(Tail(q)) : Tail(q)[i] = q[i + 1]
  BY HeadTailProperties, EmptySeq, LenProperties
<1>2. Tail(q[1]) \in Seq(S)
  BY <1>1, HeadTailProperties
<1>3. \A i \in 2 .. Len(q) : Tail(q)[i - 1] = q[i] /\ i \in 2 .. Len(Tail(q)) + 1
  BY <1>1
<1> DEFINE r == <<Tail(q[1])>> \o Tail(q)
<1>4. /\ r \in Seq(Seq(S)) /\ Len(r) = Len(Tail(q)) + 1 /\ r[1] = Tail(q[1])
      /\ \A i \in 2 .. Len(Tail(q)) + 1 : r[i] = Tail(q)[i - 1]
  BY <1>1, <1>2, ConsShape
<1> HIDE DEF r
<1>5. Len(r) = Len(q) /\ \A i \in 2 .. Len(q) : r[i] = q[i]
  BY <1>1, <1>3, <1>4
<1>6. QED
  BY <1>4, <1>5 DEF r

(* A queue with the same frames and one more.                              *)
LEMMA QueueGrows ==
  ASSUME NEW S, NEW r \in Seq(Seq(S)), NEW r2 \in Seq(Seq(S)), NEW e \in Seq(S),
         Len(r2) = Len(r) + 1, \A i \in 1 .. Len(r) : r2[i] = r[i], r2[Len(r) + 1] = e
  PROVE  r2 = r \o <<e>>
<1>1. <<e>> \in Seq(Seq(S)) /\ Len(<<e>>) = 1 /\ <<e>>[1] = e /\ Len(r) \in Nat
  BY LenProperties
<1>2. /\ r \o <<e>> \in Seq(Seq(S)) /\ Len(r \o <<e>>) = Len(r) + 1
      /\ \A i \in 1 .. Len(r) + 1 :
           (r \o <<e>>)[i] = IF i <= Len(r) THEN r[i] ELSE <<e>>[i - Len(r)]
  BY <1>1, ConcatProperties
<1>3. \A i \in 1 .. Len(r2) : r2[i] = (r \o <<e>>)[i]
  <2>1. TAKE i \in 1 .. Len(r2)
  <2>2. CASE i = Len(r) + 1
    BY <1>1, <1>2, <2>2
  <2>3. CASE i \in 1 .. Len(r)
    BY <1>1, <1>2, <2>3
  <2>4. QED
    BY <1>1, <2>2, <2>3
<1>4. QED
  BY <1>2, <1>3, SeqEqual

(* The queue after what left it in a cycle, before a frame is added.        *)
Left(read) == IF read THEN Frames!Shorter ELSE Queue

(* What a cycle leaves of each stored frame: all of it, or, of the first,   *)
(* all but the beat read.                                                   *)
LEMMA FramesStay ==
  ASSUME TypeOK, TypeOK', FrameInv, FrameInv',
         NEW r \in BOOLEAN, NEW w \in BOOLEAN, NEW c \in BOOLEAN, NEW e \in BOOLEAN,
         Moves(r, w, c, e), NEW b,
         mem' = IF w THEN [mem EXCEPT ![Index(wr)] = b] ELSE mem,
         NEW n \in Nat, NEW d \in {0, 1},
         n = Cardinality(Ends) - d, d = IF e THEN 1 ELSE 0, NEW k \in 1 .. n
  PROVE  /\ k + d \in 1 .. Cardinality(Ends)
         /\ ~(k = 1 /\ r /\ ~e) => Queue'[k] = Queue[k + d]
         /\ k = 1 /\ r /\ ~e => Queue'[k] = Tail(Queue[1]) /\ Size(1) > 1
<1>1. /\ Queue \in Seq(Seq(Cells)) /\ Len(Queue) = Cardinality(Ends)
      /\ \A j \in 1 .. Cardinality(Ends) :
           /\ Queue[j] = Piece(mem, Start(j), Size(j)) /\ Size(j) \in 1 .. Depth
           /\ Ahead(rd, Start(j)) \in Nat /\ Ahead(rd, Start(j)) + Size(j) <= FillLevel
  BY QueueIs DEF QueueShape, FrameInv
<1>2. \A j \in 1 .. Cardinality(Ends)' :
        Queue'[j] = Piece(mem', Start(j)', Size(j)')
  BY QueueIsNext DEF QueueShape, FrameInv
<1>3. /\ Cardinality(Ends)' = n + (IF c THEN 1 ELSE 0)
      /\ \A j \in 1 .. n : j + d \in 1 .. Cardinality(Ends) /\ End(j)' = End(j + d)
      /\ e => End(1) = rd
  BY EndsKept DEF FrameInv
<1>4. \A j \in 1 .. n + 1 :
        Start(j)' = IF j = 1 /\ r /\ ~e THEN NextPtr(rd) ELSE Start(j + d)
  BY StartsKept DEF FrameInv
<1>5. /\ \A j \in 1 .. Cardinality(Ends) + 1 : Start(j) \in Ptr
      /\ Start(1) = rd /\ Ahead(rd, rd) = 0
  BY StartFacts DEF FrameInv
<1>6. \A j : Size(j)' = Ahead(Start(j)', End(j)') + 1
  BY DEF Size, Ahead
<1>7. k \in 1 .. Cardinality(Ends)' /\ k \in 1 .. n + 1
  BY <1>3
<1>8. PICK j \in 1 .. Cardinality(Ends) : j = k + d
  BY <1>3
<1>9. /\ Cardinality(Ends) \in Nat /\ (w => FillLevel < Depth) /\ (r /\ ~e => rd \notin Ends)
      /\ FillLevel \in Nat /\ rd \in Ptr
      /\ mem \in [0 .. Depth - 1 -> Cells]
  BY Constants DEF Moves, TypeOK, Cells
<1>10. Start(j) \in Ptr /\ Size(j) \in Nat
  <2>1. j \in 1 .. Cardinality(Ends) + 1
    BY <1>9
  <2>2. QED
    BY <1>1, <1>5, <2>1, Constants
<1>11. CASE ~(k = 1 /\ r /\ ~e)
  <2>1. Start(k)' = Start(j) /\ End(k)' = End(j)
    BY <1>3, <1>4, <1>7, <1>8, <1>11, Zenon
  <2>2. Size(k)' = Size(j)
    BY <1>6, <2>1, Zenon DEF Size
  <2>3. Queue'[k] = Piece(mem', Start(j), Size(j))
    BY <1>2, <1>7, <2>1, <2>2, Zenon
  <2>4. Ahead(rd, Start(j)) + Size(j) <= FillLevel
    BY <1>1, Zenon
  <2>5. Piece(mem', Start(j), Size(j)) = Piece(mem, Start(j), Size(j))
    BY <1>9, <1>10, <2>4, PieceKept
  <2>6. Queue'[k] = Queue[j]
    BY <1>1, <2>3, <2>5, Zenon
  <2>7. QED
    BY <1>3, <1>8, <1>11, <2>6, Zenon
<1>12. CASE k = 1 /\ r /\ ~e
  <2>1. j = 1 /\ d = 0
    BY <1>8, <1>12
  <2>2. Start(k)' = NextPtr(rd) /\ End(k)' = End(1)
    BY <1>3, <1>4, <1>7, <1>8, <1>12, <2>1, Zenon
  <2>3. End(1) \in Ptr /\ End(1) # rd /\ Size(1) = Ahead(rd, End(1)) + 1
    <3>1. End(1) \in Ends
      BY <2>1, EndIs DEF EndShape, FrameInv
    <3>2. QED
      BY <1>5, <1>9, <1>12, <3>1, Zenon DEF Ends, Size
  <2>4. Ahead(rd, End(1)) \in Nat \ {0}
        /\ Ahead(NextPtr(rd), End(1)) = Ahead(rd, End(1)) - 1 /\ Ahead(rd, NextPtr(rd)) = 1
    <3>1. NextPtr(rd) = (IF rd + 1 = 2 * Depth THEN 0 ELSE rd + 1)
      BY <1>9, PtrArith
    <3>2. \A q \in Ptr : \A p : q # rd /\ p = (IF rd + 1 = 2 * Depth THEN 0 ELSE rd + 1) =>
            /\ Ahead(rd, q) \in Nat \ {0} /\ Ahead(p, q) = Ahead(rd, q) - 1
            /\ Ahead(rd, p) = 1
      BY <1>9, Constants DEF Ahead, Ptr
    <3>3. QED
      BY <2>3, <3>1, <3>2, Zenon
  <2>5. PICK m \in 1 .. Depth : m = Size(1) /\ m > 1 /\ m <= FillLevel
    <3>1. Size(1) \in 1 .. Depth /\ Ahead(rd, rd) + Size(1) <= FillLevel
      BY <1>1, <1>5, <2>1
    <3>2. QED
      BY <1>5, <1>9, <2>3, <2>4, <3>1
  <2>6. Size(k)' = m - 1 /\ m - 1 \in Nat
    <3>1. Size(k)' = Ahead(NextPtr(rd), End(1)) + 1
      BY <1>6, <2>2, Zenon
    <3>2. QED
      BY <2>3, <2>4, <2>5, <3>1
  <2>7. Queue'[k] = Piece(mem', NextPtr(rd), m - 1)
    BY <1>2, <1>7, <2>2, <2>6, Zenon
  <2>8. Piece(mem', NextPtr(rd), m - 1) = Piece(mem, NextPtr(rd), m - 1)
    <3>1. NextPtr(rd) \in Ptr /\ Ahead(rd, NextPtr(rd)) + (m - 1) <= FillLevel
      BY <1>9, <2>4, <2>5, PtrArith
    <3>2. QED
      BY <1>9, <2>6, <3>1, PieceKept
  <2>9. Tail(Piece(mem, rd, m)) = Piece(mem, NextPtr(rd), m - 1)
    BY <1>9, PieceTail
  <2>10. Queue[1] = Piece(mem, rd, m)
    BY <1>1, <1>5, <2>1, <2>5, Zenon
  <2>11. Queue'[k] = Tail(Queue[1]) /\ Size(1) > 1
    BY <2>5, <2>7, <2>8, <2>9, <2>10, Zenon
  <2>12. QED
    BY <1>3, <1>12, <2>11, Zenon
<1>13. QED
  BY <1>11, <1>12

(* The queue after what left it is the beginning of the next queue.        *)
LEMMA LeftNext ==
  ASSUME TypeOK, TypeOK', FrameInv, FrameInv',
         NEW r \in BOOLEAN, NEW w \in BOOLEAN, NEW c \in BOOLEAN, NEW e \in BOOLEAN,
         Moves(r, w, c, e), NEW b,
         mem' = IF w THEN [mem EXCEPT ![Index(wr)] = b] ELSE mem,
         NEW n \in Nat, NEW d \in {0, 1},
         n = Cardinality(Ends) - d, d = IF e THEN 1 ELSE 0
  PROVE  /\ r => Queue # <<>> /\ Head(Head(Queue)) = mem[Index(rd)]
         /\ Left(r) \in Seq(Seq(Cells)) /\ Len(Left(r)) = n
         /\ \A k \in 1 .. n : Queue'[k] = Left(r)[k]
<1>1. /\ Queue \in Seq(Seq(Cells)) /\ Len(Queue) = Cardinality(Ends)
      /\ \A j \in 1 .. Cardinality(Ends) :
           Queue[j] = Piece(mem, Start(j), Size(j)) /\ Size(j) \in 1 .. Depth
  BY QueueIs DEF QueueShape, FrameInv
<1>2. ASSUME NEW k \in 1 .. n
      PROVE  /\ k + d \in 1 .. Cardinality(Ends)
             /\ ~(k = 1 /\ r /\ ~e) => Queue'[k] = Queue[k + d]
             /\ k = 1 /\ r /\ ~e => Queue'[k] = Tail(Queue[1]) /\ Size(1) > 1
  BY FramesStay
<1>3. /\ Cardinality(Ends) \in Nat /\ rd \in Ptr /\ (e => r)
      /\ (r => Cardinality(Ends) > 0) /\ mem \in [0 .. Depth - 1 -> Cells]
  BY DEF Moves, TypeOK, Cells
<1>4. ASSUME r
      PROVE  /\ Queue # <<>> /\ Queue[1] # <<>> /\ Queue[1] \in Seq(Cells)
             /\ Len(Queue[1]) = Size(1) /\ Head(Queue) = Queue[1]
             /\ Head(Queue[1]) = mem[Index(rd)] /\ Size(1) \in 1 .. Depth
  <2>1. 1 \in 1 .. Cardinality(Ends)
    BY <1>3, <1>4
  <2>2. Start(1) = rd
    BY StartFacts DEF FrameInv
  <2>3. PICK m \in 1 .. Depth : m = Size(1) /\ Queue[1] = Piece(mem, rd, m)
    BY <1>1, <2>1, <2>2, Zenon
  <2>4. m \in 0 .. Depth /\ 1 \in 1 .. m /\ m # 0
    BY Constants
  <2>5. /\ Piece(mem, rd, m) \in Seq(Cells) /\ Len(Piece(mem, rd, m)) = m
        /\ \A i \in 1 .. m : Piece(mem, rd, m)[i] = mem[Index(Plus(rd, i - 1))]
    BY <1>3, <2>4, PieceIsSeq
  <2>6. Plus(rd, 1 - 1) = rd
    BY <1>3, Constants DEF Plus, Ptr
  <2>7. Piece(mem, rd, m)[1] = mem[Index(rd)]
    BY <2>4, <2>5, <2>6, Zenon
  <2>8. Piece(mem, rd, m) # <<>> /\ Head(Piece(mem, rd, m)) = Piece(mem, rd, m)[1]
    BY <2>4, <2>5
  <2>9. Queue # <<>> /\ Head(Queue) = Queue[1]
    BY <1>1, <2>1
  <2>10. QED
    BY <2>3, <2>5, <2>7, <2>8, <2>9, Zenon
<1>5. CASE ~r
  <2>1. n = Cardinality(Ends) /\ d = 0 /\ Left(r) = Queue
    BY <1>3, <1>5 DEF Left
  <2>2. \A k \in 1 .. n : Queue'[k] = Queue[k]
    BY <1>2, <1>5, <2>1
  <2>3. QED
    BY <1>1, <1>5, <2>1, <2>2, Zenon
<1>6. CASE r /\ ~e
  <2>1. /\ Queue # <<>> /\ Queue[1] # <<>> /\ Len(Queue[1]) = Size(1)
        /\ Head(Queue) = Queue[1] /\ Head(Queue[1]) = mem[Index(rd)]
    BY <1>4, <1>6, Zenon
  <2>2. n = Cardinality(Ends) /\ d = 0 /\ 1 \in 1 .. n
    BY <1>3, <1>6
  <2>3. Queue'[1] = Tail(Queue[1]) /\ Size(1) > 1
    BY <1>2, <1>6, <2>2, Zenon
  <2>4. Size(1) # 1
    BY <2>3
  <2>5. Left(r) = <<Tail(Queue[1])>> \o Tail(Queue)
    BY <1>6, <2>1, <2>4, Zenon DEF Left, Frames!Shorter
  <2> DEFINE q == <<Tail(Queue[1])>> \o Tail(Queue)
  <2>6. /\ q \in Seq(Seq(Cells)) /\ Len(q) = Len(Queue) /\ q[1] = Tail(Queue[1])
        /\ \A i \in 2 .. Len(Queue) : q[i] = Queue[i]
    BY <1>1, <2>1, HeadShortened
  <2> HIDE DEF q
  <2>7. \A k \in 1 .. n : Queue'[k] = q[k]
    <3>1. TAKE k \in 1 .. n
    <3>2. CASE k = 1
      BY <2>3, <2>6, <3>2, Zenon
    <3>3. CASE k \in 2 .. n
      <4>1. k # 1 /\ k + d = k
        BY <2>2, <3>3
      <4>2. Queue'[k] = Queue[k]
        BY <1>2, <4>1, Zenon
      <4>3. q[k] = Queue[k]
        BY <1>1, <2>2, <2>6, <3>3, Zenon
      <4>4. QED
        BY <4>2, <4>3
    <3>4. k = 1 \/ k \in 2 .. n
      OBVIOUS
    <3>5. QED
      BY <3>2, <3>3, <3>4, Zenon
  <2>8. Left(r) = q
    BY <2>5 DEF q
  <2>9. QED
    BY <1>1, <2>1, <2>2, <2>6, <2>7, <2>8, Zenon
<1>7. CASE r /\ e
  <2>1. /\ Queue # <<>> /\ Len(Queue[1]) = Size(1)
        /\ Head(Queue) = Queue[1] /\ Head(Queue[1]) = mem[Index(rd)]
    BY <1>4, <1>7, Zenon
  <2>2. n = Cardinality(Ends) - 1 /\ d = 1
    BY <1>7
  <2>3. Size(1) = 1
    <3>1. End(1) = rd
      BY <1>7, EndsKept DEF FrameInv
    <3>2. Start(1) = rd /\ Ahead(rd, rd) = 0
      BY StartFacts DEF FrameInv
    <3>3. QED
      BY <3>1, <3>2 DEF Size
  <2>4. Left(r) = Tail(Queue)
    BY <1>7, <2>1, <2>3, Zenon DEF Left, Frames!Shorter
  <2>5. /\ Tail(Queue) \in Seq(Seq(Cells)) /\ Len(Tail(Queue)) = n
        /\ \A i \in 1 .. n : Tail(Queue)[i] = Queue[i + 1]
    BY <1>1, <2>1, <2>2, HeadTailProperties
  <2>6. \A k \in 1 .. n : Queue'[k] = Tail(Queue)[k]
    BY <1>2, <1>7, <2>2, <2>5, Zenon
  <2>7. QED
    BY <2>1, <2>4, <2>5, <2>6, Zenon
<1>8. QED
  BY <1>5, <1>6, <1>7

(* What a cycle does to the frame going in.                                *)
LEMMA FillingMoves ==
  ASSUME TypeOK, TypeOK', FrameInv, FrameInv',
         NEW r \in BOOLEAN, NEW w \in BOOLEAN, NEW c \in BOOLEAN, NEW e \in BOOLEAN,
         Moves(r, w, c, e), NEW b \in Offered, c <=> w /\ b.last,
         mem' = IF w THEN [mem EXCEPT ![Index(wr)] = b] ELSE mem,
         inFrame' = IF ~w THEN inFrame ELSE IF c THEN 0 ELSE inFrame + 1
  PROVE  /\ Filling.beats \in Seq(Cells)
         /\ w => /\ Frames!Enter(b)
                 /\ Frames!Completed(b) = IF c THEN <<Append(Filling.beats, b)>> ELSE <<>>
                 /\ Append(Filling.beats, b) = Piece(mem', Open, inFrame + 1)
         /\ ~w => Filling' = Filling
<1>1. /\ Filling = [lost |-> FALSE, beats |-> Piece(mem, Open, inFrame)]
      /\ Open \in Ptr /\ inFrame \in 0 .. Depth - 1 /\ Plus(Open, inFrame) = wr
      /\ Ahead(rd, Open) \in Nat /\ Ahead(rd, Open) + inFrame <= FillLevel
  <2>1. FillingShape
    BY FillingIs
  <2>2. FillLevel \in Nat
    BY Constants DEF TypeOK
  <2>3. QED
    BY <2>1, <2>2 DEF FillingShape
<1>2. Filling' = [lost |-> FALSE, beats |-> Piece(mem', Open', inFrame')]
  BY FillingIsNext DEF FillingShape
<1>3. /\ mem \in [0 .. Depth - 1 -> Cells] /\ mem' \in [0 .. Depth - 1 -> Cells]
      /\ wr \in Ptr /\ b \in Beat /\ b \in Cells /\ (w => FillLevel < Depth)
      /\ inFrame \in Nat /\ inFrame \in 0 .. Depth /\ (c => w)
  BY <1>1, Constants DEF Moves, TypeOK, Cells, Offered
<1>4. Open' = IF c THEN wr' ELSE Open
  BY OpenMoves DEF FrameInv
<1>5. Piece(mem, Open, inFrame) \in Seq(Cells) /\ Len(Piece(mem, Open, inFrame)) = inFrame
  BY <1>1, <1>3, PieceIsSeq
<1>6. Filling.beats = Piece(mem, Open, inFrame) /\ Filling.lost = FALSE
  BY <1>1
<1>7. ASSUME w
      PROVE  Append(Piece(mem, Open, inFrame), b) = Piece(mem', Open, inFrame + 1)
  <2>1. Piece(mem', Open, inFrame) = Piece(mem, Open, inFrame)
    BY <1>1, <1>3, PieceKept
  <2>2. mem'[Index(Plus(Open, inFrame))] = b
    <3>1. Index(wr) \in 0 .. Depth - 1
      BY <1>3, PtrArith
    <3>2. QED
      BY <1>1, <1>3, <1>7, <3>1
  <2> DEFINE m == mem'
  <2>3. /\ mem \in [0 .. Depth - 1 -> Cells] /\ m \in [0 .. Depth - 1 -> Cells]
        /\ Open \in Ptr /\ inFrame \in 0 .. Depth - 1 /\ b \in Cells
        /\ Piece(m, Open, inFrame) = Piece(mem, Open, inFrame)
        /\ m[Index(Plus(Open, inFrame))] = b
    BY <1>1, <1>3, <2>1, <2>2, Zenon
  <2> HIDE DEF m
  <2>4. Append(Piece(mem, Open, inFrame), b) = Piece(m, Open, inFrame + 1)
    BY <2>3, PieceGrows
  <2>5. QED
    BY <2>4 DEF m
<1>8. ~Frames!Refused(b)
  <2>1. inFrame + 1 = MaxFrame => b.last
    BY DEF Offered
  <2>2. Len(Filling.beats) = inFrame
    BY <1>5, <1>6
  <2>3. QED
    BY <1>6, <2>1, <2>2, Zenon DEF Frames!Refused
<1>9. ASSUME w PROVE Frames!Enter(b)
  <2>1. CASE b.last
    <3>1. inFrame' = 0
      BY <1>9, <2>1
    <3>2. Piece(mem', Open', 0) = <<>>
      <4>1. Piece(mem', Open', 0) \in [1 .. 0 -> Cells]
        BY DEF Piece
      <4>2. QED
        BY <4>1, FunctionIsSeq, EmptySeq
    <3>3. Filling' = [lost |-> FALSE, beats |-> <<>>]
      BY <1>2, <3>1, <3>2
    <3>4. QED
      BY <2>1, <3>3 DEF Frames!Enter, Frames!Empty
  <2>2. CASE ~b.last
    <3>1. inFrame' = inFrame + 1 /\ Open' = Open
      BY <1>4, <1>9, <2>2
    <3>2. Filling' = [lost |-> FALSE, beats |-> Piece(mem', Open, inFrame + 1)]
      BY <1>2, <3>1
    <3>3. Filling' = [lost |-> FALSE, beats |-> Append(Filling.beats, b)]
      BY <1>6, <1>7, <1>9, <3>2
    <3>4. QED
      BY <1>8, <2>2, <3>3 DEF Frames!Enter
  <2>3. QED
    BY <2>1, <2>2
<1>10. ASSUME w
       PROVE  Frames!Completed(b) = IF c THEN <<Append(Filling.beats, b)>> ELSE <<>>
  BY <1>8, <1>10, Zenon DEF Frames!Completed
<1>11. ASSUME ~w PROVE Filling' = Filling
  BY <1>1, <1>2, <1>3, <1>4, <1>11
<1>12. QED
  BY <1>5, <1>6, <1>7, <1>9, <1>10, <1>11

(* One cycle on the abstract queue: what left is gone, and the frame that   *)
(* was completed, f, is behind the others.                                  *)
LEMMA QueueMoves ==
  ASSUME TypeOK, TypeOK', FrameInv, FrameInv',
         NEW r \in BOOLEAN, NEW w \in BOOLEAN, NEW c \in BOOLEAN, NEW e \in BOOLEAN,
         Moves(r, w, c, e), NEW b,
         mem' = IF w THEN [mem EXCEPT ![Index(wr)] = b] ELSE mem,
         NEW f \in Seq(Cells), c => f = Piece(mem', Open, inFrame + 1)
  PROVE  /\ r => Queue # <<>> /\ Head(Head(Queue)) = mem[Index(rd)]
         /\ Left(r) \in Seq(Seq(Cells))
         /\ Queue' = Left(r) \o (IF c THEN <<f>> ELSE <<>>)
<1>1. PICK d \in {0, 1} : d = IF e THEN 1 ELSE 0
  OBVIOUS
<1>2. Cardinality(Ends) \in Nat /\ (r => Cardinality(Ends) > 0) /\ (e => r)
  BY DEF Moves
<1>3. PICK n \in Nat : n = Cardinality(Ends) - d
  BY <1>1, <1>2
<1>4. /\ r => Queue # <<>> /\ Head(Head(Queue)) = mem[Index(rd)]
      /\ Left(r) \in Seq(Seq(Cells)) /\ Len(Left(r)) = n
      /\ \A k \in 1 .. n : Queue'[k] = Left(r)[k]
  BY <1>1, <1>3, LeftNext
<1>5. /\ Cardinality(Ends)' = n + (IF c THEN 1 ELSE 0)
      /\ \A k : c /\ k = n + 1 => End(k)' = wr
  BY <1>1, <1>3, EndsKept DEF FrameInv
<1>6. /\ Queue' \in Seq(Seq(Cells)) /\ Len(Queue') = Cardinality(Ends)'
      /\ \A k \in 1 .. Cardinality(Ends)' : Queue'[k] = Piece(mem', Start(k)', Size(k)')
  BY QueueIsNext DEF QueueShape, FrameInv
<1> DEFINE q == Queue'
           l == Left(r)
<1>7. CASE c
  <2>1. Cardinality(Ends)' = n + 1 /\ n + 1 \in 1 .. Cardinality(Ends)'
    BY <1>5, <1>7
  <2>2. Start(n + 1)' = Open
    <3>1. /\ n + 1 \in 1 .. n + 1 /\ (n + 1) + d = Cardinality(Ends) + 1
          /\ ~(n + 1 = 1 /\ r /\ ~e)
      BY <1>1, <1>2, <1>3
    <3>2. \A k \in 1 .. n + 1 :
            Start(k)' = IF k = 1 /\ r /\ ~e THEN NextPtr(rd) ELSE Start(k + d)
      BY <1>1, <1>3, StartsKept DEF FrameInv
    <3>3. Start(n + 1)' = Start((n + 1) + d)
      BY <3>1, <3>2, Zenon
    <3>4. QED
      BY <3>1, <3>3 DEF Open
  <2>3. Size(n + 1)' = inFrame + 1
    <3>1. Size(n + 1)' = Ahead(Start(n + 1)', End(n + 1)') + 1
      BY DEF Size, Ahead
    <3>2. End(n + 1)' = wr
      BY <1>5, <1>7, Zenon
    <3>3. Ahead(Open, wr) = inFrame
      BY FillingIs DEF FillingShape
    <3>4. QED
      BY <2>2, <3>1, <3>2, <3>3, Zenon
  <2>4. Queue'[n + 1] = f
    BY <1>6, <1>7, <2>1, <2>2, <2>3, Zenon
  <2>5. /\ q \in Seq(Seq(Cells)) /\ l \in Seq(Seq(Cells)) /\ Len(q) = Len(l) + 1
        /\ (\A i \in 1 .. Len(l) : q[i] = l[i]) /\ q[Len(l) + 1] = f
    BY <1>4, <1>6, <2>1, <2>4, Zenon
  <2> HIDE DEF q, l
  <2>6. q = l \o <<f>>
    BY <2>5, QueueGrows
  <2>7. QED
    BY <1>4, <1>7, <2>6, Zenon DEF q, l
<1>8. CASE ~c
  <2>1. Cardinality(Ends)' = n
    BY <1>5, <1>8
  <2>2. /\ q \in Seq(Seq(Cells)) /\ l \in Seq(Seq(Cells)) /\ Len(q) = Len(l)
        /\ \A i \in 1 .. Len(q) : q[i] = l[i]
    BY <1>4, <1>6, <2>1, Zenon
  <2> HIDE DEF q, l
  <2>3. q = l
    BY <2>2, SeqEqual
  <2>4. l \o <<>> = l
    BY <2>2, ConcatEmptySeq
  <2>5. QED
    BY <1>4, <1>8, <2>3, <2>4, Zenon DEF q, l
<1>9. QED
  BY <1>7, <1>8

LEMMA CycleMaps ==
  ASSUME FifoInv, FifoInv', FrameInv, FrameInv', NEW ready \in BOOLEAN, NEW valid \in BOOLEAN,
         NEW b \in Offered, Cycle(valid, b, ready)
  PROVE  Frames!Receive \/ Frames!Emit \/ UNCHANGED Frames!vars
<1>1. PICK r \in BOOLEAN : r <=> TValid /\ ready
  OBVIOUS
<1>2. PICK w \in BOOLEAN : w <=> valid /\ TReady
  OBVIOUS
<1>3. PICK c \in BOOLEAN : c <=> valid /\ TReady /\ b.last
  OBVIOUS
<1>4. PICK e \in BOOLEAN : e <=> TValid /\ ready /\ Dout.last
  OBVIOUS
<1>5. Moves(r, w, c, e)
  BY <1>1, <1>2, <1>3, <1>4, CycleMovesEnds, Zenon DEF Moves
<1>6. /\ inFrame' = (IF ~w THEN inFrame ELSE IF c THEN 0 ELSE inFrame + 1)
      /\ wire' = IF r THEN Dout ELSE wire
      /\ c <=> w /\ b.last
  BY <1>1, <1>2, <1>3 DEF Cycle
<1>7. TypeOK /\ TypeOK' /\ b \in Beat /\ (c => w)
  BY <1>6 DEF FifoInv, Offered
<1>8. mem' = (IF w THEN [mem EXCEPT ![Index(wr)] = b] ELSE mem) /\ Dout = mem[Index(rd)]
  BY <1>2, <1>7, CycleMoves
<1>9. /\ Filling.beats \in Seq(Cells)
      /\ w => /\ Frames!Enter(b)
              /\ Frames!Completed(b) = IF c THEN <<Append(Filling.beats, b)>> ELSE <<>>
              /\ Append(Filling.beats, b) = Piece(mem', Open, inFrame + 1)
      /\ ~w => Filling' = Filling
  BY <1>5, <1>6, <1>7, <1>8, FillingMoves
<1>10. PICK f \in Seq(Cells) : f = Append(Filling.beats, b)
  <2>1. b \in Cells
    BY <1>7 DEF Cells
  <2>2. QED
    BY <1>9, <2>1, AppendProperties
<1>11. c => f = Piece(mem', Open, inFrame + 1)
  BY <1>7, <1>9, <1>10, Zenon
<1>12. /\ r => Queue # <<>> /\ Head(Head(Queue)) = mem[Index(rd)]
       /\ Left(r) \in Seq(Seq(Cells))
       /\ Queue' = Left(r) \o (IF c THEN <<f>> ELSE <<>>)
  BY <1>5, <1>7, <1>8, <1>11, QueueMoves
<1>13. r => Queue # <<>> /\ wire' = Head(Head(Queue))
  BY <1>6, <1>8, <1>12, Zenon
<1>14. CASE w
  <2>1. Frames!Enter(b) /\ Queue' = Left(r) \o Frames!Completed(b)
    BY <1>9, <1>10, <1>12, <1>14, Zenon
  <2>2. CASE r
    BY <1>7, <1>13, <2>1, <2>2, Zenon DEF Left, Frames!Emit
  <2>3. CASE ~r
    <3>1. wire' = wire
      BY <1>6, <2>3
    <3>2. QED
      BY <1>7, <2>1, <2>3, <3>1, Zenon DEF Left, Frames!Receive
  <2>4. QED
    BY <2>2, <2>3
<1>15. CASE ~w
  <2>1. Queue' = Left(r) /\ Filling' = Filling
    <3>1. Queue' = Left(r) \o <<>>
      BY <1>7, <1>12, <1>15, Zenon
    <3>2. QED
      BY <1>9, <1>12, <1>15, <3>1, ConcatEmptySeq
  <2>2. CASE r
    BY <1>13, <2>1, <2>2, Zenon DEF Left, Frames!Emit
  <2>3. CASE ~r
    BY <1>6, <2>1, <2>3 DEF Left, Frames!vars
  <2>4. QED
    BY <2>2, <2>3
<1>16. QED
  BY <1>14, <1>15

(* Every frame the DMA sends comes out in order, whole and unchanged, and   *)
(* nothing else does: the FIFO implements AxisFrames, whatever the two      *)
(* ports do.                                                                *)
THEOREM FramesKept == Spec => KeepsFrames
<1>1. Init => Frames!Init
  <2> SUFFICES ASSUME Init PROVE Frames!Init
    OBVIOUS
  <2>1. TypeOK /\ Cardinality(Ends) = 0 /\ FrameInv
    BY InitInv, FrameInit DEF FifoInv, Init
  <2>2. Queue = <<>>
    BY <2>1, QueueIs, EmptySeq DEF QueueShape, FrameInv
  <2>3. Filling = [lost |-> FALSE, beats |-> <<>>]
    <3>1. Filling = [lost |-> FALSE, beats |-> Piece(mem, Open, 0)]
      BY <2>1, FillingIs DEF FillingShape, Init
    <3>2. Piece(mem, Open, 0) \in [1 .. 0 -> Cells]
      BY DEF Piece
    <3>3. Piece(mem, Open, 0) = <<>>
      BY <3>2, FunctionIsSeq, EmptySeq
    <3>4. QED
      BY <3>1, <3>3
  <2>4. QED
    BY <2>2, <2>3 DEF Init, Frames!Init, Frames!Empty
<1>2. FifoInv /\ FifoInv' /\ FrameInv /\ FrameInv' /\ [Next]_vars
        => [Frames!Receive \/ Frames!Emit]_(Frames!vars)
  <2> SUFFICES ASSUME FifoInv, FifoInv', FrameInv, FrameInv', [Next]_vars
               PROVE  Frames!Receive \/ Frames!Emit \/ UNCHANGED Frames!vars
    OBVIOUS
  <2>1. CASE UNCHANGED vars
    BY <2>1 DEF vars, Frames!vars, Filling, Queue, Beats, Start, End, UpTo, Ends, Ahead,
                FillLevel, NextPtr, Ptr
  <2>2. ASSUME NEW ready \in BOOLEAN, Clock(ready)
        PROVE  Frames!Receive \/ Frames!Emit \/ UNCHANGED Frames!vars
    BY <2>2, CycleMaps DEF Clock
  <2>3. QED
    BY <2>1, <2>2 DEF Next
<1>3. QED
  BY <1>1, <1>2, FifoAlways, FrameAlways, PTL DEF Spec, KeepsFrames, Frames!Spec

=============================================================================
