-------------------------- MODULE EmzTxRing_proofs --------------------------
(***************************************************************************)
(* Proofs about the direct TX ring, for every ring size, every set of      *)
(* frames and burst sizes and every bound.                                 *)
(*                                                                         *)
(* TxInv, the inductive invariant, is the types, the ring window, what the *)
(* reservation has secured for the call that holds the mutex, and where    *)
(* the engine stands in the window.  The types need the window (the        *)
(* in-flight count never passes 0 or N), the window needs the room that    *)
(* was reserved, and EngineHasAll needs all of them.  CopyOK and ShareOK   *)
(* add whose bytes the buffers hold; with them each step is shown to be a  *)
(* step, or a stutter, of EmzTxPromise.                                    *)
(***************************************************************************)
EXTENDS EmzTxRing, TLAPS, SequenceTheorems

(* What the call inside the mutex may still rely on.                       *)
RoomOK ==
  /\ kind # "burst" /\ pc \in {"fill", "program", "publish", "count"} => inflight < N
  /\ kind = "burst" /\ pc \in {"reclaim", "fill"} => left \in 1 .. N
  /\ kind = "burst" /\ pc = "fill" => inflight = 0
  /\ kind = "burst" /\ pc \in {"program", "publish"} => inflight + left \in 1 .. N
  /\ kind = "burst" /\ pc = "publish" => left = 0
  /\ kind = "burst" => pc # "count"

(* Armed descriptors that no tail write has covered yet.                   *)
Unpublished ==
  IF kind = "burst" THEN IF pc \in {"program", "publish"} THEN inflight ELSE 0
  ELSE IF pc = "publish" THEN 1 ELSE 0

Published == inflight + Uncounted - Unpublished

(* Descriptors the engine has still to send.                               *)
Left == IF active THEN Ahead(cur, tdesc) + 1 ELSE 0

(* The slot k places after slot j.                                         *)
Plus(j, k) == IF j + k < N THEN j + k ELSE j + k - N

(* A running engine has sent the first Published - Left of the window.      *)
EngineOK ==
  eng = "run" =>
    /\ Left <= Published
    /\ \A i \in Slot : i \in done <=> Ahead(completed, i) < Published - Left
    /\ cur = Plus(completed, Published - Left)

TxInv == TypeOK /\ TxWindow /\ RoomOK /\ EngineOK

LEMMA Constants == N \in Nat \ {0} /\ Burst \subseteq 1 .. N /\ MaxWait \in Nat /\ MaxFaults \in Nat
BY NAssumption, BurstAssumption, BoundAssumption

(* Distances between two slots given by their distance from a third.       *)
LEMMA AheadPlus ==
  ASSUME NEW j \in Slot, NEW a \in 0 .. N - 1, NEW b \in 0 .. N - 1, a <= b
  PROVE  Ahead(Plus(j, a), Plus(j, b)) = b - a
BY Constants DEF Ahead, Plus, Slot

LEMMA InitInv == Init => TxInv
<1> SUFFICES ASSUME Init PROVE TxInv
  OBVIOUS
<1> USE Constants DEF Init
<1>1. TypeRing
  BY DEF TypeRing, Slot
<1>2. TypeCall
  BY DEF TypeCall, Slot
<1>3. TypeEngine
  <2>1. wire \in [frame : Frame \cup {Junk}, own : BOOLEAN]
    OBVIOUS
  <2>2. QED
    <3>1. eng \in {"run", "halted"} /\ active \in BOOLEAN
      OBVIOUS
    <3>2. cur \in Slot /\ tdesc \in Slot /\ faults \in 0 .. MaxFaults
      BY DEF Slot
    <3>3. QED
      BY <2>1, <3>1, <3>2, Zenon DEF TypeEngine
<1>4. TxWindow
  BY DEF TxWindow, Ahead, Uncounted, Slot
<1>5. RoomOK
  BY DEF RoomOK
<1>6. EngineOK
  BY DEF EngineOK, Left, Published, Unpublished, Uncounted, Plus, Ahead, Slot
<1>7. QED
  BY <1>1, <1>2, <1>3, <1>4, <1>5, <1>6 DEF TxInv, TypeOK

LEMMA CallInv == TxInv /\ Call => TxInv'
<1> SUFFICES ASSUME TxInv, NEW f \in Frame, NEW k \in {"pkt", "raw", "burst"},
                    NEW n \in 1 .. N, Enter(k, f, n)
             PROVE  TxInv'
  BY Constants DEF Call, Send, SendRaw, SendBurst
<1> USE Constants DEF TxInv, Enter, ring, engine
<1>1. TypeOK'
  BY DEF TypeOK, TypeRing, TypeCall, TypeEngine
<1>2. TxWindow'
  BY DEF TxWindow, Ahead, Uncounted
<1>3. RoomOK'
  BY DEF RoomOK
<1>4. EngineOK'
  BY DEF TypeOK, TypeRing, TypeCall, EngineOK, Left, Published, Unpublished, Uncounted, Plus, Ahead
<1>5. QED
  BY <1>1, <1>2, <1>3, <1>4

LEMMA ReclaimInv == TxInv /\ Reclaim => TxInv'
<1> SUFFICES ASSUME TxInv, Reclaim PROVE TxInv'
  OBVIOUS
<1> USE Constants DEF TxInv, TypeOK, Reclaim
<1>1. TypeRing'
  BY SMTT(30) DEF TypeRing, Slot, Succ
<1>2. TypeCall' /\ TypeEngine'
  BY DEF TypeCall, TypeEngine, locals, engine
<1>3. completed' = Plus(completed, 1)
  BY DEF TypeRing, Slot, Succ, Plus
<1>4. \A i \in Slot : i # completed => Ahead(completed', i) = Ahead(completed, i) - 1
  BY <1>3 DEF TypeRing, Slot, Plus, Ahead
<1>5. Ahead(completed, completed) = 0 /\ Ahead(completed', completed) = N - 1
  BY <1>3 DEF TypeRing, Slot, Plus, Ahead
<1>6. Uncounted = 0 /\ Uncounted' = 0 /\ Unpublished = 0 /\ Unpublished' = 0
  BY DEF Uncounted, Unpublished, locals
<1>7. \A i \in Slot : i # completed => Ahead(completed, i) \in 1 .. N - 1
  BY DEF TypeRing, Slot, Ahead
<1>8. TxWindow'
  <2>1. \A i \in Slot : i \in armed' <=> Ahead(completed', i) < inflight' + Uncounted'
    BY <1>4, <1>5, <1>6, <1>7 DEF TypeRing, TxWindow
  <2>2. QED
    BY <2>1, <1>3, <1>6 DEF TypeRing, TxWindow, Plus, Slot, Ahead
<1>9. RoomOK'
  BY DEF RoomOK, locals
<1>10. EngineOK'
  <2> SUFFICES ASSUME eng = "run" PROVE EngineOK'
    BY DEF EngineOK, engine
  <2>1. Published' = Published - 1 /\ Published = inflight
    BY <1>6 DEF TypeRing, Published
  <2>2. Left' = Left /\ Left \in 0 .. N
    BY DEF TypeRing, TypeEngine, Left, Ahead, Slot, engine
  <2>3. Left < Published
    BY <2>1, <2>2, <1>5 DEF TypeRing, EngineOK
  <2>4. \A i \in Slot : i \in done' <=> Ahead(completed', i) < Published' - Left'
    BY <1>4, <1>5, <1>7, <2>1, <2>2, <2>3 DEF TypeRing, EngineOK
  <2>5. cur' = Plus(completed', Published' - Left')
    BY <1>3, <2>1, <2>2, <2>3 DEF TypeRing, TypeEngine, EngineOK, Plus, Slot, engine
  <2>6. QED
    BY <2>1, <2>2, <2>3, <2>4, <2>5 DEF TypeRing, EngineOK
<1>11. QED
  BY <1>1, <1>2, <1>8, <1>9, <1>10

(* The steps that move the call on and touch neither ring nor engine.      *)
LEMMA MoveInv ==
  TxInv /\ (Reserve \/ PollAgain \/ GiveUp \/ Fill \/ ReadFail \/ ProgramEnd) => TxInv'
<1> SUFFICES ASSUME TxInv, Reserve \/ PollAgain \/ GiveUp \/ Fill \/ ReadFail \/ ProgramEnd
             PROVE TxInv'
  OBVIOUS
<1> USE Constants DEF TxInv, TypeOK, Reclaimed, Room
<1>1. UNCHANGED <<ring, engine, kind, frame, left>>
  BY DEF locals, Reserve, PollAgain, GiveUp, Fill, ReadFail, ProgramEnd
<1>2. TypeRing' /\ TypeEngine'
  BY <1>1 DEF TypeRing, TypeEngine, ring, engine
<1>3. TypeCall'
  <2>1. content' \in [Slot -> Frame \cup {Junk}]
    BY DEF TypeCall, TypeRing, Reserve, PollAgain, GiveUp, Fill, ReadFail, ProgramEnd
  <2>2. first' \in Slot /\ wait' \in 0 .. MaxWait
    BY DEF TypeCall, TypeRing, locals, Reserve, PollAgain, GiveUp, Fill, ReadFail, ProgramEnd
  <2>3. pc' \in {"free", "reclaim", "fill", "program", "publish", "count"}
    BY DEF TypeCall, Reserve, PollAgain, GiveUp, Fill, ReadFail, ProgramEnd
  <2>4. QED
    BY <1>1, <2>1, <2>2, <2>3 DEF TypeCall
<1>4. Uncounted' = Uncounted
  BY <1>1 DEF Uncounted, Reserve, PollAgain, GiveUp, Fill, ReadFail, ProgramEnd
<1>5. TxWindow'
  BY <1>1, <1>4 DEF TxWindow, Ahead, ring
<1>6. RoomOK'
  BY <1>1 DEF TypeRing, RoomOK, ring, Reserve, PollAgain, GiveUp, Fill, ReadFail, ProgramEnd
<1>7. EngineOK'
  <2>1. Unpublished' = Unpublished
    BY <1>1 DEF RoomOK, Unpublished, ring, Reserve, PollAgain, GiveUp, Fill, ReadFail, ProgramEnd
  <2>2. QED
    BY <1>1, <1>4, <2>1 DEF EngineOK, Published, Left, Plus, Ahead, ring, engine
<1>8. QED
  BY <1>2, <1>3, <1>5, <1>6, <1>7

(* The populated slot is inflight places after the completed one, and free. *)
LEMMA PopulatedFree ==
  ASSUME TypeOK, TxWindow, Uncounted = 0, inflight < N
  PROVE  /\ populated = Plus(completed, inflight)
         /\ Ahead(completed, populated) = inflight
         /\ \A i \in Slot : i # populated => Ahead(completed, i) # inflight
BY Constants DEF TypeOK, TypeRing, TxWindow, Plus, Ahead, Slot

(* Programming the populated slot adds one descriptor to the window.       *)
LEMMA ProgramInv == TxInv /\ (Program \/ ProgramBurst) => TxInv'
<1> SUFFICES ASSUME TxInv, Program \/ ProgramBurst PROVE TxInv'
  OBVIOUS
<1> USE Constants DEF TxInv, TypeOK, ProgramBd, CountBd
<1>1. UNCHANGED <<content, completed, kind, frame, first, wait, engine>>
  BY DEF Program, ProgramBurst, locals
<1>2. /\ pc = "program" /\ Uncounted = 0 /\ inflight < N
      /\ armed' = armed \cup {populated} /\ done' = done \ {populated}
  BY DEF TypeRing, TypeCall, RoomOK, Uncounted, Program, ProgramBurst
<1>3. TypeRing'
  <2>1. bdBuf' \in [Slot -> Slot]
    BY DEF TypeRing, TypeCall, Program, ProgramBurst
  <2>2. populated' \in Slot /\ inflight' \in 0 .. N
    <3>1. CASE Program
      BY <3>1 DEF TypeRing, Program
    <3>2. CASE ProgramBurst
      BY <3>2, <1>2 DEF TypeRing, ProgramBurst, Succ, Slot
    <3>3. QED
      BY <3>1, <3>2
  <2>3. QED
    BY <1>1, <1>2, <2>1, <2>2 DEF TypeRing
<1>4. TypeCall'
  <2>1. pc' \in {"program", "publish"} /\ left' \in 0 .. N
    BY DEF TypeCall, Program, ProgramBurst, locals
  <2>2. QED
    BY <1>1, <2>1 DEF TypeCall
<1>5. TypeEngine'
  BY <1>1 DEF TypeEngine, engine
<1>6. inflight' + Uncounted' = inflight + 1
  BY <1>1, <1>2 DEF TypeRing, Uncounted, Program, ProgramBurst
<1>7. TxWindow'
  <2>1. \A i \in Slot : i \in armed' <=> Ahead(completed', i) < inflight' + Uncounted'
    <3>1. \A i \in Slot : Ahead(completed', i) = Ahead(completed, i) /\ Ahead(completed, i) \in Nat
      BY <1>1 DEF TypeRing, Ahead, Slot
    <3>2. \A i \in Slot : i \in armed <=> Ahead(completed, i) < inflight
      BY <1>2 DEF TxWindow, TypeRing
    <3>3. \A i \in Slot : Ahead(completed, i) = inflight <=> i = populated
      BY <1>2, PopulatedFree
    <3>4. inflight \in Nat
      BY DEF TypeRing
    <3>5. QED
      BY <1>2, <1>6, <3>1, <3>2, <3>3, <3>4
  <2>2. populated' = IF completed' + inflight' < N THEN completed' + inflight'
                                                   ELSE completed' + inflight' - N
    <3>1. CASE Program
      BY <3>1, <1>1 DEF TxWindow, Program
    <3>2. CASE ProgramBurst
      <4>1. populated' = Succ(populated) /\ inflight' = inflight + 1 /\ completed' = completed
        BY <3>2, <1>1 DEF ProgramBurst
      <4>2. QED
        BY <4>1, <1>2 DEF TypeRing, TxWindow, Succ, Slot
    <3>3. QED
      BY <3>1, <3>2
  <2>3. QED
    BY <2>1, <2>2 DEF TxWindow
<1>8. RoomOK'
  <2>1. CASE Program
    BY <2>1, <1>1, <1>2 DEF RoomOK, Program, locals
  <2>2. CASE ProgramBurst
    BY <2>2, <1>1, <1>2 DEF RoomOK, ProgramBurst, TypeRing, TypeCall
  <2>3. QED
    BY <2>1, <2>2
<1>9. EngineOK'
  <2> SUFFICES ASSUME eng = "run" PROVE EngineOK'
    BY <1>1 DEF EngineOK, engine
  <2>1. Published' = Published /\ Published \in 0 .. inflight
    <3>1. CASE Program
      BY <3>1, <1>1, <1>2 DEF Published, Unpublished, Uncounted, Program, TypeRing, locals
    <3>2. CASE ProgramBurst
      BY <3>2, <1>1, <1>2 DEF Published, Unpublished, Uncounted, ProgramBurst, TypeRing
    <3>3. QED
      BY <3>1, <3>2
  <2>2. Left' = Left /\ Left \in 0 .. N
    BY <1>1 DEF TypeEngine, Left, Ahead, Slot, engine
  <2>3. populated \notin done
    BY <1>2, <2>1, <2>2, PopulatedFree DEF TypeRing, EngineOK
  <2>4. done' = done
    BY <1>2, <2>3
  <2>5. QED
    BY <1>1, <2>1, <2>2, <2>4 DEF EngineOK, Plus, Ahead, engine
<1>10. QED
  BY <1>3, <1>4, <1>5, <1>7, <1>8, <1>9

(* The tail write hands everything programmed so far to the engine.        *)
LEMMA PublishInv == TxInv /\ Publish => TxInv'
<1> SUFFICES ASSUME TxInv, Publish PROVE TxInv'
  OBVIOUS
<1> USE Constants DEF TxInv, TypeOK, Publish, WriteTail
<1>1. TailSlot \in Slot
  BY DEF TypeRing, TailSlot, Pred, Slot
<1>2. TypeRing' /\ TypeCall'
  BY DEF TypeRing, TypeCall, ring, locals
<1>3. TypeEngine'
  BY <1>1 DEF TypeEngine
<1>4. TxWindow'
  BY DEF TxWindow, Ahead, Uncounted, ring, locals
<1>5. RoomOK'
  BY DEF RoomOK, TypeCall, ring, locals
<1>6. EngineOK'
  <2> SUFFICES ASSUME eng = "run" PROVE EngineOK'
    BY DEF EngineOK
  <2>1. active' /\ tdesc' = TailSlot /\ UNCHANGED <<eng, cur, completed, done, inflight, kind>>
    BY DEF ring, locals
  <2> DEFINE P == Published
             Q == Published'
  <2>2. /\ Q = inflight + Uncounted /\ Q \in 1 .. N
        /\ P \in 0 .. N /\ P < Q
    BY <2>1 DEF TypeRing, RoomOK, Published, Unpublished, Uncounted
  <2>3. TailSlot = Plus(completed, Q - 1)
    BY <2>2 DEF TypeRing, RoomOK, TxWindow, TailSlot, Pred, Plus, Uncounted, Slot
  <2>4. Left \in 0 .. N /\ Left <= P /\ cur = Plus(completed, P - Left)
    BY DEF TypeEngine, EngineOK, Left, Ahead, Slot
  <2>5. Left' = Ahead(cur, TailSlot) + 1
    BY <2>1 DEF Left, Ahead
  <2> HIDE DEF P, Q
  <2>6. Ahead(cur, TailSlot) = Q - 1 - (P - Left)
    <3>1. completed \in Slot /\ P - Left \in 0 .. N - 1 /\ Q - 1 \in 0 .. N - 1 /\ P - Left <= Q - 1
      BY <2>2, <2>4 DEF TypeRing
    <3>2. QED
      BY <2>3, <2>4, <3>1, AheadPlus
  <2>7. Q - Left' = P - Left /\ Left' <= Q
    BY <2>2, <2>4, <2>5, <2>6
  <2>8. QED
    BY <2>1, <2>7 DEF P, Q, EngineOK, Plus, Ahead
<1>7. QED
  BY <1>2, <1>3, <1>4, <1>5, <1>6

LEMMA CountInv == TxInv /\ Count => TxInv'
<1> SUFFICES ASSUME TxInv, Count PROVE TxInv'
  OBVIOUS
<1> USE Constants DEF TxInv, TypeOK, Count, CountBd
<1>1. TypeRing'
  BY SMTT(30) DEF TypeRing, TypeCall, RoomOK, Slot, Succ
<1>2. TypeCall' /\ TypeEngine'
  BY DEF TypeCall, TypeEngine, locals, engine
<1>3. kind # "burst" /\ kind' = kind
  BY DEF RoomOK, locals
<1>4. inflight' + Uncounted' = inflight + Uncounted /\ Published' = Published
  BY <1>3 DEF TypeRing, Published, Unpublished, Uncounted
<1>5. TxWindow'
  <2>1. \A i \in Slot : i \in armed' <=> Ahead(completed', i) < inflight' + Uncounted'
    BY <1>4 DEF TxWindow, Ahead
  <2>2. QED
    BY <2>1, <1>3, SMTT(30) DEF TypeRing, RoomOK, TxWindow, Slot, Succ
<1>6. RoomOK'
  BY <1>3 DEF RoomOK
<1>7. EngineOK'
  BY <1>4 DEF EngineOK, Left, Plus, Ahead, engine
<1>8. QED
  BY <1>1, <1>2, <1>5, <1>6, <1>7

(* One descriptor fewer is left when the engine has sent one.              *)
LEMMA LeftShrinks ==
  ASSUME TxInv, EngineTransmit
  PROVE  Left \in 1 .. N /\ Left' = Left - 1
<1> USE Constants DEF TxInv, TypeOK
<1>0. /\ active /\ cur' = Succ(cur) /\ active' = (cur # tdesc) /\ tdesc' = tdesc
  BY DEF EngineTransmit
<1>1. Left = Ahead(cur, tdesc) + 1 /\ Ahead(cur, tdesc) \in 0 .. N - 1
  BY <1>0 DEF TypeEngine, Left, Ahead, Slot
<1>2. CASE cur = tdesc
  <2>1. Ahead(cur, tdesc) = 0
    BY <1>2 DEF TypeEngine, Ahead, Slot
  <2>2. ~active'
    BY <1>0, <1>2
  <2>3. Left' = 0
    BY <2>2 DEF Left
  <2>4. QED
    BY <1>1, <2>1, <2>3
<1>3. CASE cur # tdesc
  <2>1. Ahead(cur', tdesc') = Ahead(cur, tdesc) - 1
    BY <1>0, <1>3 DEF TypeEngine, Ahead, Slot, Succ
  <2>2. active'
    BY <1>0, <1>3
  <2>3. Left' = Ahead(cur', tdesc') + 1
    BY <2>2 DEF Left, Ahead
  <2>4. Ahead(cur, tdesc) # 0
    BY <1>3 DEF TypeEngine, Ahead, Slot
  <2>5. QED
    BY <1>1, <2>1, <2>3, <2>4
<1>4. QED
  BY <1>2, <1>3

LEMMA EngineInv == TxInv /\ (EngineTransmit \/ EngineFault) => TxInv'
<1> SUFFICES ASSUME TxInv, EngineTransmit \/ EngineFault PROVE TxInv'
  OBVIOUS
<1> USE Constants DEF TxInv, TypeOK
<1>1. UNCHANGED <<content, bdBuf, armed, populated, completed, inflight, pc, locals, tdesc>>
  BY DEF EngineTransmit, EngineFault
<1>2. TypeRing' /\ TypeCall'
  <2>1. done' \subseteq Slot
    BY DEF TypeRing, TypeEngine, EngineTransmit, EngineFault
  <2>2. QED
    BY <1>1, <2>1 DEF TypeRing, TypeCall, locals
<1>3. TypeEngine'
  <2>1. CASE EngineTransmit
    <3>1. wire' \in [frame : Frame \cup {Junk}, own : BOOLEAN]
      BY <2>1 DEF TypeRing, TypeCall, TypeEngine, EngineTransmit
    <3>2. QED
      BY <2>1, <3>1 DEF TypeEngine, EngineTransmit, Slot, Succ
  <2>2. CASE EngineFault
    BY <2>2 DEF TypeEngine, EngineFault
  <2>3. QED
    BY <2>1, <2>2
<1>4. TxWindow'
  BY <1>1 DEF TxWindow, Ahead, Uncounted, locals
<1>5. RoomOK'
  BY <1>1 DEF RoomOK, locals
<1>6. EngineOK'
  <2>1. CASE EngineFault
    BY <2>1 DEF EngineOK, EngineFault
  <2>2. CASE EngineTransmit
    <3> DEFINE sent == Published - Left
    <3>1. /\ eng = "run" /\ eng' = eng /\ active /\ done' = done \cup {cur}
          /\ cur' = Succ(cur) /\ active' = (cur # tdesc)
      BY <2>2 DEF EngineTransmit
    <3>2. Published' = Published /\ Published \in 0 .. N
      BY <1>1 DEF TypeRing, RoomOK, Published, Unpublished, Uncounted, locals
    <3>3. Left \in 1 .. N /\ Left' = Left - 1
      BY <2>2, LeftShrinks
    <3>4. sent \in 0 .. N - 1 /\ cur = Plus(completed, sent)
      BY <3>1, <3>2, <3>3 DEF EngineOK
    <3>5. sent' = sent + 1
      BY <3>2, <3>3
    <3>6. \A i \in Slot : i \in done <=> Ahead(completed, i) < sent
      BY <3>1 DEF EngineOK
    <3> HIDE DEF sent
    <3>7. \A i \in Slot : Ahead(completed, i) = sent <=> i = cur
      BY <3>4 DEF TypeRing, Plus, Ahead, Slot
    <3>8. \A i \in Slot : i \in done' <=> Ahead(completed', i) < sent'
      <4>1. \A i \in Slot : Ahead(completed', i) = Ahead(completed, i) /\ Ahead(completed, i) \in Nat
        BY <1>1 DEF TypeRing, Ahead, Slot
      <4>2. QED
        BY <3>1, <3>4, <3>5, <3>6, <3>7, <4>1
    <3>9. cur' = Plus(completed', sent')
      BY <1>1, <3>1, <3>4, <3>5 DEF TypeRing, Plus, Slot, Succ
    <3>10. QED
      BY <3>1, <3>2, <3>3, <3>4, <3>8, <3>9 DEF EngineOK, sent
  <2>3. QED
    BY <2>1, <2>2
<1>7. QED
  BY <1>2, <1>3, <1>4, <1>5, <1>6

LEMMA StutterInv == TxInv /\ UNCHANGED vars => TxInv'
BY DEF TxInv, vars, ring, locals, engine, TypeOK, TypeRing, TypeCall, TypeEngine,
       TxWindow, RoomOK, EngineOK, Ahead, Uncounted, Left, Published, Unpublished, Plus

(* The inductive invariant holds in every state of every behaviour.        *)
THEOREM TxInvariant == Spec => []TxInv
<1>1. Init => TxInv
  BY InitInv
<1>2. TxInv /\ [Next]_vars => TxInv'
  BY CallInv, ReclaimInv, MoveInv, ProgramInv, PublishInv, CountInv, EngineInv, StutterInv
     DEF Next, Inside
<1>3. QED
  BY <1>1, <1>2, PTL DEF Spec

(* The unsigned in-flight count and every index of emz_tx_direct_* keep    *)
(* their range.                                                            *)
THEOREM TypeCorrect == Spec => []TypeOK
<1>1. TxInv => TypeOK
  BY DEF TxInv
<1>2. QED
  BY <1>1, TxInvariant, PTL

(* The armed descriptors are exactly those from the completed index on,    *)
(* whatever calls time out, fail or send bursts.                           *)
THEOREM WindowCorrect == Spec => []TxWindow
<1>1. TxInv => TxWindow
  BY DEF TxInv
<1>2. QED
  BY <1>1, TxInvariant, PTL

(* A running MM2S engine never fetches a descriptor the driver has not     *)
(* armed, and no accepted frame is left unpublished between calls.         *)
THEOREM EngineCorrect == Spec => []EngineHasAll
<1>1. TxInv => EngineHasAll
  <2> SUFFICES ASSUME TxInv, eng = "run"
               PROVE  /\ Window \subseteq armed \ done
                      /\ pc = "free" => Window = armed \ done
    BY DEF EngineHasAll
  <2> USE Constants DEF TxInv
  <2>1. Published \in 0 .. inflight + Uncounted /\ inflight + Uncounted \in 0 .. N
    BY DEF TypeOK, TypeRing, RoomOK, Published, Unpublished, Uncounted
  <2>2. pc = "free" => Published = inflight + Uncounted
    BY DEF TypeOK, TypeRing, Published, Unpublished, Uncounted
  <2>3. Left \in 0 .. N /\ Left <= Published /\ cur = Plus(completed, Published - Left)
    BY DEF TypeOK, TypeEngine, EngineOK, Left, Ahead, Slot
  <2>4. \A i \in Slot : i \in Window <=> Ahead(cur, i) < Left
    BY DEF TypeOK, TypeEngine, Window, Left, Ahead, Slot
  <2> DEFINE P == Published
             L == Left
  <2>5. P \in 0 .. N /\ L \in 0 .. N /\ L <= P /\ cur = Plus(completed, P - L)
    BY <2>1, <2>3
  <2> HIDE DEF P, L
  <2>6. \A i \in Slot : Ahead(cur, i) < L <=>
          Ahead(completed, i) < P /\ ~(Ahead(completed, i) < P - L)
    BY <2>5 DEF TypeOK, TypeRing, Plus, Ahead, Slot
  <2>7. \A i \in Slot : i \in armed \ done <=>
          Ahead(completed, i) < inflight + Uncounted /\ ~(Ahead(completed, i) < P - L)
    BY DEF TxWindow, EngineOK, P, L
  <2>8. \A i \in Slot : Ahead(completed, i) < P => Ahead(completed, i) < inflight + Uncounted
    BY <2>1 DEF TypeOK, TypeRing, Ahead, Slot, P
  <2>9. Window \subseteq Slot /\ armed \ done \subseteq Slot
    BY DEF TypeOK, TypeRing, Window
  <2>10. QED
    BY <2>2, <2>4, <2>6, <2>7, <2>8, <2>9 DEF P, L
<1>2. QED
  BY <1>1, TxInvariant, PTL

----------------------------------------------------------------------------
(* How long a call stays inside tx_lock.  StepsLeft bounds the steps it has *)
(* still to take: what it may reclaim, poll and program, and the rest.      *)

StepsLeft ==
  CASE pc = "reclaim" -> inflight + (MaxWait - wait) + left + 5
    [] pc = "fill"    -> left + 4
    [] pc = "program" -> left + 3
    [] pc = "publish" -> 2
    [] pc = "count"   -> 1
    [] pc = "free"    -> 0

(* Each step of the call uses some up; nothing the engine does adds any.    *)
ComesCloser ==
  pc # "free" => IF Inside THEN StepsLeft' < StepsLeft ELSE StepsLeft' = StepsLeft

LEMMA StepsType == TypeOK => StepsLeft \in 0 .. 2 * N + MaxWait + 5
BY Constants DEF TypeOK, TypeRing, TypeCall, StepsLeft

LEMMA CallStep == TypeOK /\ [Next]_vars => ComesCloser
<1> SUFFICES ASSUME TypeOK, [Next]_vars, pc # "free" PROVE ComesCloser
  BY DEF ComesCloser
<1> USE Constants DEF StepsLeft, TypeOK, TypeRing, TypeCall
<1>1. ASSUME Inside PROVE StepsLeft' < StepsLeft
  <2>1. CASE Reclaim
    BY <2>1 DEF Reclaim, locals
  <2>2. CASE Reserve \/ PollAgain \/ GiveUp
    BY <2>2 DEF Reserve, PollAgain, GiveUp, Reclaimed, ring, locals
  <2>3. CASE Fill \/ ReadFail
    BY <2>3 DEF Fill, ReadFail, ring, locals
  <2>4. CASE Program \/ ProgramBurst \/ ProgramEnd
    BY <2>4 DEF Program, ProgramBurst, ProgramEnd, ring, locals
  <2>5. CASE Publish \/ Count
    BY <2>5 DEF Publish, Count, ring, locals
  <2>6. QED
    BY <1>1, <2>1, <2>2, <2>3, <2>4, <2>5 DEF Inside
<1>2. ASSUME ~Inside PROVE StepsLeft' = StepsLeft
  <2>1. UNCHANGED <<pc, inflight, left, wait>>
    BY <1>2 DEF Next, Call, Send, SendRaw, SendBurst, Enter, EngineTransmit, EngineFault,
                vars, ring, locals
  <2>2. QED
    BY <2>1
<1>3. QED
  BY <1>1, <1>2 DEF ComesCloser

(* A call is over after at most 2 N + MaxWait + 5 steps of its own, with a  *)
(* full ring, a burst or a halted engine too: emz_send and its siblings     *)
(* never keep tx_lock.  This is what CallReturns rests on.                  *)
THEOREM CallBounded == Spec => [](StepsLeft \in 0 .. 2 * N + MaxWait + 5) /\ [][ComesCloser]_vars
<1>1. TxInv => TypeOK
  BY DEF TxInv
<1>2. QED
  BY <1>1, TxInvariant, StepsType, CallStep, PTL DEF Spec

----------------------------------------------------------------------------
(* The frames.  CopyOK says what the call inside the mutex has copied and   *)
(* what its descriptors name; ShareOK, that all the descriptors that name a *)
(* buffer other than their own name the same one, that of the one burst the *)
(* ring can hold.                                                           *)

CopyOK ==
  /\ pc # "free" => frame \in Frame
  /\ pc \in {"program", "publish"} => content[first] = frame
  /\ kind # "burst" /\ pc \in {"program", "publish"} => first = populated
  /\ kind # "burst" /\ pc = "publish" => bdBuf[populated] = populated
  /\ kind = "burst" /\ pc \in {"reclaim", "fill"} => left \in Burst
  /\ kind = "burst" /\ pc \in {"program", "publish"} =>
       /\ first = completed /\ inflight + left \in Burst
       /\ \A i \in armed : bdBuf[i] = first

ShareOK == \A i, j \in armed : bdBuf[i] = i \/ bdBuf[j] = j \/ bdBuf[i] = bdBuf[j]

LEMMA CopyMove ==
  ASSUME TxInv, CopyOK, ShareOK,
         Reserve \/ PollAgain \/ GiveUp \/ Fill \/ ReadFail \/ ProgramEnd
  PROVE  CopyOK' /\ ShareOK'
<1>1. UNCHANGED <<ring, engine, kind, frame, left>>
  BY DEF locals, Reserve, PollAgain, GiveUp, Fill, ReadFail, ProgramEnd
<1>2. ShareOK'
  BY <1>1 DEF ShareOK, ring
<1>3. CASE Fill
  <2>1. content'[populated] = frame
    BY <1>3 DEF Fill, TxInv, TypeOK, TypeRing, TypeCall
  <2>2. pc = "fill" /\ pc' = "program" /\ first' = populated
    BY <1>3 DEF Fill
  <2>3. kind = "burst" => /\ populated = completed /\ inflight = 0 /\ armed = {}
                          /\ left \in Burst /\ inflight + left \in Burst
    <3> SUFFICES ASSUME kind = "burst"
                 PROVE  /\ populated = completed /\ inflight = 0 /\ armed = {}
                        /\ left \in Burst /\ inflight + left \in Burst
      OBVIOUS
    <3>1. inflight = 0 /\ left \in Burst
      BY <2>2 DEF TxInv, RoomOK, CopyOK
    <3>2. populated = completed
      BY <3>1, Constants DEF TxInv, TypeOK, TypeRing, TxWindow, Slot
    <3>3. armed = {}
      BY <2>2, <3>1, Constants DEF TxInv, TypeOK, TypeRing, TxWindow, Uncounted, Ahead, Slot
    <3>4. inflight + left = left
      BY <3>1, Constants
    <3>5. QED
      BY <3>1, <3>2, <3>3, <3>4
  <2>4. CopyOK'
    BY <1>1, <2>1, <2>2, <2>3 DEF CopyOK, ring
  <2>5. QED
    BY <1>2, <2>4
<1>4. CASE Reserve \/ PollAgain \/ GiveUp \/ ReadFail \/ ProgramEnd
  <2>1. CopyOK'
    BY <1>1, <1>4 DEF CopyOK, ring, locals, Reserve, PollAgain, GiveUp, ReadFail, ProgramEnd,
                      Reclaimed
  <2>2. QED
    BY <1>2, <2>1
<1>5. QED
  BY <1>3, <1>4

LEMMA CopyProgram ==
  ASSUME TxInv, CopyOK, ShareOK, Program \/ ProgramBurst
  PROVE  CopyOK' /\ ShareOK'
<1> USE DEF ProgramBd, CountBd
<1>1. /\ UNCHANGED <<content, completed, kind, frame, first>> /\ pc = "program"
      /\ bdBuf' = [bdBuf EXCEPT ![populated] = first] /\ armed' = armed \cup {populated}
      /\ bdBuf \in [Slot -> Slot] /\ armed \subseteq Slot /\ populated \in Slot
  BY DEF Program, ProgramBurst, locals, TxInv, TypeOK, TypeRing
<1>2. CASE Program
  <2>1. first = populated /\ bdBuf'[populated] = populated /\ kind # "burst"
        /\ pc' = "publish" /\ populated' = populated
    BY <1>1, <1>2 DEF Program, CopyOK
  <2>2. CopyOK'
    BY <1>1, <2>1 DEF CopyOK
  <2>3. \A i \in armed' : bdBuf'[i] = i \/ (i \in armed /\ bdBuf'[i] = bdBuf[i])
    BY <1>1, <2>1
  <2>4. ShareOK'
    BY <2>3, Zenon DEF ShareOK
  <2>5. QED
    BY <2>2, <2>4
<1>3. CASE ProgramBurst
  <2>1. /\ kind = "burst" /\ left' = left - 1 /\ inflight' = inflight + 1 /\ pc' = pc
        /\ left \in Nat /\ inflight \in Nat
    BY <1>3 DEF ProgramBurst, TxInv, TypeOK, TypeRing, TypeCall
  <2>2. \A i \in armed' : bdBuf'[i] = first
    BY <1>1, <2>1 DEF CopyOK
  <2>3. inflight' + left' = inflight + left
    BY <2>1
  <2>4. CopyOK'
    BY <1>1, <2>1, <2>2, <2>3 DEF CopyOK
  <2>5. ShareOK'
    BY <2>2 DEF ShareOK
  <2>6. QED
    BY <2>4, <2>5
<1>4. QED
  BY <1>2, <1>3

LEMMA CopyStep == TxInv /\ CopyOK /\ ShareOK /\ [Next]_vars => CopyOK' /\ ShareOK'
<1> SUFFICES ASSUME TxInv, CopyOK, ShareOK, [Next]_vars PROVE CopyOK' /\ ShareOK'
  OBVIOUS
<1>1. CASE Call
  <2> SUFFICES ASSUME NEW f \in Frame, NEW k \in {"pkt", "raw", "burst"}, NEW n,
                      k = "burst" => n \in Burst, Enter(k, f, n)
               PROVE  CopyOK' /\ ShareOK'
    BY <1>1 DEF Call, Send, SendRaw, SendBurst
  <2>1. CopyOK'
    BY DEF Enter, CopyOK
  <2>2. ShareOK'
    BY DEF Enter, ShareOK, ring
  <2>3. QED
    BY <2>1, <2>2
<1>2. CASE Reclaim
  <2>1. armed' \subseteq armed /\ UNCHANGED <<content, bdBuf, pc, locals>> /\ pc = "reclaim"
    BY <1>2 DEF Reclaim
  <2>2. CopyOK'
    BY <2>1 DEF CopyOK, locals
  <2>3. ShareOK'
    BY <2>1 DEF ShareOK
  <2>4. QED
    BY <2>2, <2>3
<1>3. CASE Publish \/ Count
  <2>1. UNCHANGED <<content, bdBuf, armed, frame, kind, left>> /\ pc # "free"
        /\ pc' \in {"free", "count"}
    BY <1>3 DEF Publish, Count, ring, locals
  <2>2. QED
    BY <2>1 DEF CopyOK, ShareOK
<1>4. CASE EngineTransmit \/ EngineFault
  <2>1. UNCHANGED <<content, bdBuf, armed, populated, completed, inflight, pc, locals>>
    BY <1>4 DEF EngineTransmit, EngineFault
  <2>2. QED
    BY <2>1 DEF CopyOK, ShareOK, locals
<1>5. CASE UNCHANGED vars
  BY <1>5 DEF vars, ring, locals, CopyOK, ShareOK
<1>6. QED
  BY <1>1, <1>2, <1>3, <1>4, <1>5, CopyMove, CopyProgram DEF Next, Inside

LEMMA CopyInvariant == Spec => [](CopyOK /\ ShareOK)
<1>1. Init => CopyOK /\ ShareOK
  BY DEF Init, CopyOK, ShareOK
<1>2. QED
  BY <1>1, CopyStep, TxInvariant, PTL DEF Spec

----------------------------------------------------------------------------
(* The refinement.  Item is what the engine sends for descriptor i; Rest    *)
(* counts the descriptors it has still to send before it idles or halts.    *)

Item(c, b, i) == [frame |-> c[b[i]], own |-> b[i] = i]

Rest == IF eng = "run" THEN Left ELSE 0

Entries == [frame : Frame \cup {Junk}, own : BOOLEAN]

(* A function on 1 .. n is a sequence of length n.                         *)
LEMMA FunctionIsSeq ==
  ASSUME NEW S, NEW n \in Nat, NEW f \in [1 .. n -> S]
  PROVE  f \in Seq(S) /\ Len(f) = n
<1>1. f \in Seq(S)
  BY SeqDef
<1>2. DOMAIN f = 1 .. n /\ DOMAIN f = 1 .. Len(f) /\ Len(f) \in Nat
  BY <1>1, LenProperties
<1>3. \A a, c \in Nat : 1 .. a = 1 .. c => a = c
  <2>1. SUFFICES ASSUME NEW a \in Nat, NEW c \in Nat, 1 .. a = 1 .. c PROVE a <= c /\ c <= a
    OBVIOUS
  <2>2. \A i \in Nat \ {0} : i <= a <=> i <= c
    <3>1. \A i \in Nat \ {0} : i \in 1 .. a <=> i \in 1 .. c
      BY <2>1
    <3>2. QED
      BY <3>1
  <2>3. QED
    BY <2>2
<1>4. QED
  BY <1>1, <1>2, <1>3

(* The pending descriptors are armed ones, and none is being filled.       *)
LEMMA PendingSlots ==
  ASSUME TxInv
  PROVE  /\ Rest \in 0 .. N
         /\ \A k \in 1 .. Rest :
              /\ Plus(cur, k - 1) \in armed /\ Plus(cur, k - 1) \in Slot
              /\ pc \in {"fill", "program"} => Plus(cur, k - 1) # populated
<1> USE Constants DEF TxInv
<1>1. Left \in 0 .. N
  BY DEF TypeOK, TypeEngine, Left, Ahead, Slot
<1>2. Published \in 0 .. N /\ Published <= inflight + Uncounted
  BY DEF TypeOK, TypeRing, RoomOK, Published, Unpublished, Uncounted
<1>3. ASSUME eng = "run", NEW k \in 1 .. Left
      PROVE  /\ Plus(cur, k - 1) \in armed /\ Plus(cur, k - 1) \in Slot
             /\ pc \in {"fill", "program"} => Plus(cur, k - 1) # populated
  <2> DEFINE d == Published - Left + k - 1
  <2>1. d \in 0 .. N - 1 /\ d < Published
    BY <1>1, <1>2, <1>3 DEF EngineOK
  <2>2. cur = Plus(completed, Published - Left) /\ Published - Left \in 0 .. N /\ Left # 0
    BY <1>1, <1>2, <1>3 DEF EngineOK
  <2>3. completed \in Slot /\ k - 1 \in 0 .. N - 1 /\ d = Published - Left + (k - 1)
    BY <1>1, <1>2 DEF TypeOK, TypeRing
  <2>4. Plus(cur, k - 1) = Plus(completed, d) /\ Plus(completed, d) \in Slot
        /\ Ahead(completed, Plus(completed, d)) = d
    <3>1. \A c \in Slot, a \in 0 .. N, j \in 0 .. N - 1 :
            a + j < N => /\ Plus(Plus(c, a), j) = Plus(c, a + j) /\ Plus(c, a + j) \in Slot
                         /\ Ahead(c, Plus(c, a + j)) = a + j
      BY DEF Plus, Ahead, Slot
    <3>2. (Published - Left) + (k - 1) < N
      BY <1>1, <1>2, <2>1, <2>3
    <3>3. QED
      BY <2>2, <2>3, <3>1, <3>2, Zenon
  <2> HIDE DEF d
  <2>5. Plus(completed, d) \in armed
    <3>1. d < inflight + Uncounted
      BY <1>2, <2>1 DEF TypeOK, TypeRing, Uncounted
    <3>2. QED
      BY <2>4, <3>1 DEF TxWindow
  <2>6. ASSUME pc \in {"fill", "program"} PROVE Plus(completed, d) # populated
    <3>1. Uncounted = 0 /\ inflight \in Nat /\ Published <= inflight
      BY <2>6, <1>2 DEF Uncounted, TypeOK, TypeRing
    <3>2. d < inflight
      BY <1>2, <2>1, <3>1
    <3>3. inflight < N => Ahead(completed, populated) = inflight
      BY <3>1, PopulatedFree
    <3>4. inflight < N
      <4>1. CASE kind = "burst" /\ pc = "program"
        <5>1. Published = 0
          BY <3>1, <4>1 DEF Published, Unpublished
        <5>2. QED
          BY <2>1, <5>1
      <4>2. CASE ~(kind = "burst" /\ pc = "program")
        BY <2>6, <4>2 DEF RoomOK
      <4>3. QED
        BY <4>1, <4>2
    <3>5. d # inflight
      BY <2>1, <3>1, <3>2
    <3>6. QED
      BY <2>4, <3>3, <3>4, <3>5, Zenon
  <2>7. QED
    BY <2>4, <2>5, <2>6
<1>4. QED
  BY <1>1, <1>3 DEF Rest

PendingArmed == \A k \in 1 .. Rest : Plus(cur, k - 1) \in armed

LEMMA PendingArmedNow == TxInv => PendingArmed
BY PendingSlots DEF PendingArmed

LEMMA PendingArmedNext == TxInv' => PendingArmed'
BY PendingArmedNow, PTL

(* The abstract queue, entry by entry.                                     *)
PendingShape ==
  /\ Rest \in 0 .. N /\ Pending \in Seq(Entries) /\ Len(Pending) = Rest
  /\ Pending = [k \in 1 .. Rest |-> Item(content, bdBuf, Plus(cur, k - 1))]

LEMMA PendingIs == TxInv => PendingShape
<1> SUFFICES ASSUME TxInv PROVE PendingShape
  OBVIOUS
<1> USE Constants DEF TxInv, TypeOK
<1>1. cur \in Slot /\ Rest \in 0 .. N /\ (eng = "run" => Rest = Left)
  BY PendingSlots DEF TypeEngine, Rest
<1>2. Rest = IF active /\ eng = "run" THEN Ahead(cur, tdesc) + 1 ELSE 0
  BY DEF Rest, Left
<1>3. \A k \in 1 .. Rest :
        Plus(cur, k - 1) = IF cur + k <= N THEN cur + k - 1 ELSE cur + k - 1 - N
  BY <1>1 DEF Plus, Slot
<1>4. Pending = [k \in 1 .. Rest |-> Item(content, bdBuf, Plus(cur, k - 1))]
  BY <1>2, <1>3 DEF Pending, Item
<1>5. \A i \in Slot : Item(content, bdBuf, i) \in Entries
  BY DEF Item, Entries, TypeRing, TypeCall
<1>6. Pending \in [1 .. Rest -> Entries]
  BY <1>4, <1>5, PendingSlots
<1>7. QED
  BY <1>1, <1>4, <1>6, FunctionIsSeq DEF PendingShape

LEMMA PendingIsNext == TxInv' => PendingShape'
BY PendingIs, PTL

(* A step that leaves the engine and the pending descriptors alone.        *)
LEMMA PendingStays ==
  ASSUME TxInv, TxInv', Rest' = Rest, cur' = cur,
         \A k \in 1 .. Rest :
           Item(content', bdBuf', Plus(cur, k - 1)) = Item(content, bdBuf, Plus(cur, k - 1))
  PROVE  Pending' = Pending
<1>1. Pending = [k \in 1 .. Rest |-> Item(content, bdBuf, Plus(cur, k - 1))]
  BY PendingIs DEF PendingShape
<1>2. Pending' = [k \in 1 .. Rest |-> Item(content', bdBuf', Plus(cur, k - 1))]
  BY PendingIsNext, Zenon DEF PendingShape, Plus
<1>3. QED
  BY <1>1, <1>2

(* Steps inside the mutex that a caller's promise does not see.            *)
LEMMA QuietMaps ==
  ASSUME TxInv, TxInv',
         Call \/ Reclaim \/ Reserve \/ PollAgain \/ GiveUp \/ Program \/ ProgramBurst
           \/ ProgramEnd \/ Count
  PROVE  Pending' = Pending /\ wire' = wire /\ eng' = eng
<1>1. UNCHANGED <<content, engine>>
  BY DEF Call, Send, SendRaw, SendBurst, Enter, Reclaim, Reserve, PollAgain, GiveUp,
         Program, ProgramBurst, ProgramEnd, Count
<1>2. Rest' = Rest /\ cur' = cur /\ wire' = wire /\ eng' = eng
  BY <1>1 DEF engine, Rest, Left, Ahead
<1>3. \A k \in 1 .. Rest :
        Item(content', bdBuf', Plus(cur, k - 1)) = Item(content, bdBuf, Plus(cur, k - 1))
  <2>1. CASE Program \/ ProgramBurst
    <3>1. bdBuf' = [bdBuf EXCEPT ![populated] = first] /\ pc = "program"
      BY <2>1 DEF Program, ProgramBurst, ProgramBd
    <3>2. \A k \in 1 .. Rest : Plus(cur, k - 1) \in Slot /\ Plus(cur, k - 1) # populated
      BY <3>1, PendingSlots
    <3>3. bdBuf \in [Slot -> Slot]
      BY DEF TxInv, TypeOK, TypeRing
    <3>4. QED
      BY <1>1, <3>1, <3>2, <3>3 DEF Item
  <2>2. CASE ~(Program \/ ProgramBurst)
    <3>1. bdBuf' = bdBuf
      BY <2>2 DEF Call, Send, SendRaw, SendBurst, Enter, Reclaim, Reserve, PollAgain, GiveUp,
                  ProgramEnd, Count, ring
    <3>2. QED
      BY <1>1, <3>1
  <2>3. QED
    BY <2>1, <2>2
<1>4. QED
  BY <1>2, <1>3, PendingStays

(* A call writes the buffer of the free descriptor: of what is pending this *)
(* can only touch the copies of a burst, and then all of them alike.        *)
LEMMA CopyMaps ==
  ASSUME TxInv, TxInv', CopyOK, ShareOK, Fill \/ ReadFail
  PROVE  \/ \E g \in Frame \cup {Junk} : Promise!Reuse(g)
         \/ Pending' = Pending /\ wire' = wire /\ eng' = eng
<1>1. UNCHANGED <<ring, engine>> /\ pc = "fill"
  BY DEF Fill, ReadFail
<1>2. PICK g \in Frame \cup {Junk} :
        content' = content \/ content' = [content EXCEPT ![populated] = g]
  BY DEF Fill, ReadFail, CopyOK
<1>3. Rest' = Rest /\ cur' = cur /\ wire' = wire /\ eng' = eng /\ bdBuf' = bdBuf
  BY <1>1 DEF ring, engine, Rest, Left, Ahead
<1>4. \A k \in 1 .. Rest : /\ Plus(cur, k - 1) \in Slot /\ Plus(cur, k - 1) \in armed
                           /\ Plus(cur, k - 1) # populated
  BY <1>1, PendingSlots
<1>5. bdBuf \in [Slot -> Slot] /\ content \in [Slot -> Frame \cup {Junk}] /\ populated \in Slot
  BY DEF TxInv, TypeOK, TypeRing, TypeCall
<1>6. CASE content' = content
  BY <1>3, <1>6, PendingStays
<1>7. CASE /\ content' = [content EXCEPT ![populated] = g]
           /\ \A k \in 1 .. Rest : bdBuf[Plus(cur, k - 1)] # populated
  <2>1. \A k \in 1 .. Rest :
          Item(content', bdBuf', Plus(cur, k - 1)) = Item(content, bdBuf, Plus(cur, k - 1))
    BY <1>3, <1>4, <1>5, <1>7 DEF Item
  <2>2. QED
    BY <1>3, <2>1, PendingStays
<1>8. ASSUME content' = [content EXCEPT ![populated] = g],
             NEW j \in 1 .. Rest, bdBuf[Plus(cur, j - 1)] = populated
      PROVE  Promise!Reuse(g)
  <2>1. \A k \in 1 .. Rest :
          bdBuf[Plus(cur, k - 1)] = Plus(cur, k - 1) \/ bdBuf[Plus(cur, k - 1)] = populated
    BY <1>4, <1>8 DEF ShareOK
  <2>2. \A k \in 1 .. Rest :
          Item(content', bdBuf, Plus(cur, k - 1)) =
            IF Item(content, bdBuf, Plus(cur, k - 1)).own
              THEN Item(content, bdBuf, Plus(cur, k - 1)) ELSE Promise!Entry(g, FALSE)
    <3>1. TAKE k \in 1 .. Rest
    <3> DEFINE i == Plus(cur, k - 1)
    <3>2. i \in Slot /\ i # populated /\ (bdBuf[i] = i \/ bdBuf[i] = populated)
      BY <1>4, <2>1
    <3> HIDE DEF i
    <3>3. CASE bdBuf[i] = i
      <4>1. content'[i] = content[i]
        BY <1>5, <1>8, <3>2
      <4>2. Item(content', bdBuf, i) = Item(content, bdBuf, i) /\ Item(content, bdBuf, i).own
        BY <3>3, <4>1 DEF Item
      <4>3. QED
        BY <4>2 DEF i
    <3>4. CASE bdBuf[i] # i
      <4>1. bdBuf[i] = populated /\ content'[populated] = g
        BY <1>5, <1>8, <3>2, <3>4
      <4>2. Item(content', bdBuf, i) = Promise!Entry(g, FALSE) /\ ~Item(content, bdBuf, i).own
        BY <3>4, <4>1 DEF Item, Promise!Entry
      <4>3. QED
        BY <4>2 DEF i
    <3>5. QED
      BY <3>3, <3>4
  <2>3. Pending = [k \in 1 .. Rest |-> Item(content, bdBuf, Plus(cur, k - 1))]
    BY PendingIs DEF PendingShape
  <2>4. Pending' = [k \in 1 .. Rest |-> Item(content', bdBuf, Plus(cur, k - 1))]
    BY <1>3, PendingIsNext, Zenon DEF PendingShape, Plus
  <2>5. Pending' = [k \in DOMAIN Pending |->
                      IF Pending[k].own THEN Pending[k] ELSE Promise!Entry(g, FALSE)]
    BY <2>2, <2>3, <2>4
  <2>6. QED
    BY <1>3, <2>5, Zenon DEF Promise!Reuse
<1>9. QED
  BY <1>2, <1>6, <1>7, <1>8

LEMMA TransmitMaps ==
  ASSUME TxInv, TxInv', EngineTransmit
  PROVE  Promise!Deliver
<1>1. /\ eng = "run" /\ eng' = eng /\ cur' = Succ(cur) /\ UNCHANGED <<content, bdBuf>>
      /\ wire' = Item(content, bdBuf, cur)
  BY DEF EngineTransmit, Item
<1>2. Rest \in 1 .. N /\ Rest' = Rest - 1
  BY <1>1, LeftShrinks DEF Rest
<1>3. /\ Pending \in Seq(Entries) /\ Len(Pending) = Rest
      /\ \A k \in 1 .. Rest : Pending[k] = Item(content, bdBuf, Plus(cur, k - 1))
  BY PendingIs DEF PendingShape
<1>4. /\ Pending' \in Seq(Entries) /\ Len(Pending') = Rest'
      /\ Pending' = [k \in 1 .. Rest' |-> Item(content', bdBuf', Plus(cur', k - 1))]
  BY PendingIsNext, Zenon DEF PendingShape, Plus
<1>5. /\ Pending # <<>> /\ Head(Pending) = Pending[1] /\ Tail(Pending) \in Seq(Entries)
      /\ Len(Tail(Pending)) = Rest - 1
      /\ \A k \in 1 .. Len(Tail(Pending)) : Tail(Pending)[k] = Pending[k + 1]
  <2>1. Pending # <<>>
    BY <1>2, <1>3
  <2>2. QED
    BY <1>3, <2>1, HeadTailProperties
<1>6. cur \in Slot /\ Rest \in Nat
  BY <1>2 DEF TxInv, TypeOK, TypeEngine
<1>7. wire' = Head(Pending)
  <2>1. Plus(cur, 1 - 1) = cur
    BY <1>6, Constants DEF Plus, Slot
  <2>2. Pending[1] = Item(content, bdBuf, cur)
    BY <1>2, <1>3, <2>1
  <2>3. QED
    BY <1>1, <1>5, <2>2
<1>8. \A k \in 1 .. Rest - 1 : Pending'[k] = Tail(Pending)[k]
  <2>1. TAKE k \in 1 .. Rest - 1
  <2>2. Plus(Succ(cur), k - 1) = Plus(cur, (k + 1) - 1)
    BY <1>2, <1>6, Constants DEF Plus, Succ, Slot
  <2>3. Pending'[k] = Item(content, bdBuf, Plus(cur', k - 1))
    BY <1>1, <1>2, <1>4
  <2>4. Pending[k + 1] = Item(content, bdBuf, Plus(cur, (k + 1) - 1))
    <3>1. k + 1 \in 1 .. Rest
      BY <1>6
    <3>2. QED
      BY <1>3, <3>1, Zenon
  <2>5. Tail(Pending)[k] = Pending[k + 1]
    BY <1>5, Zenon
  <2>6. QED
    BY <1>1, <2>2, <2>3, <2>4, <2>5, Zenon
<1>9. Pending' = Tail(Pending)
  <2> DEFINE q == Pending'
             t == Tail(Pending)
  <2>1. /\ q \in Seq(Entries) /\ t \in Seq(Entries) /\ Len(q) = Len(t)
        /\ \A k \in 1 .. Len(q) : q[k] = t[k]
    BY <1>2, <1>4, <1>5, <1>8, Zenon
  <2> HIDE DEF q, t
  <2>2. q = t
    BY <2>1, SeqEqual
  <2>3. QED
    BY <2>2 DEF q, t
<1>10. QED
  BY <1>1, <1>5, <1>7, <1>9, Zenon DEF Promise!Deliver

LEMMA FaultMaps ==
  ASSUME TxInv, TxInv', EngineFault
  PROVE  Promise!Fail
<1>1. eng' = "halted" /\ wire' = wire
  BY DEF EngineFault
<1>2. Rest' = 0 /\ ~(eng' = "run")
  BY <1>1 DEF Rest
<1>3. Pending' \in Seq(Entries) /\ Len(Pending') = 0
  BY <1>2, PendingIsNext, Zenon DEF PendingShape
<1>4. Pending' = <<>>
  <2> DEFINE q == Pending'
  <2>1. q \in Seq(Entries) /\ Len(q) = 0
    BY <1>3
  <2> HIDE DEF q
  <2>2. q = <<>>
    BY <2>1, EmptySeq
  <2>3. QED
    BY <2>2 DEF q
<1>5. (eng' = "run") = FALSE
  BY <1>1
<1>6. QED
  BY <1>1, <1>4, <1>5 DEF Promise!Fail

(* The tail write adds to what is pending all the call has programmed.     *)
LEMMA LeftGrows ==
  ASSUME TxInv, Publish, eng = "run"
  PROVE  /\ Left' = Left + Unpublished /\ Left + Unpublished \in 0 .. N
         /\ Left \in 0 .. Published /\ cur = Plus(completed, Published - Left)
         /\ Published \in 0 .. N /\ cur' = cur /\ eng' = eng
         /\ UNCHANGED <<content, bdBuf, armed, wire>>
<1> USE Constants DEF TxInv, TypeOK
<1> DEFINE Q == inflight + Uncounted
           u == Unpublished
<1>1. /\ active' /\ tdesc' = TailSlot /\ cur' = cur /\ eng' = eng
      /\ UNCHANGED <<content, bdBuf, armed, wire>> /\ pc = "publish"
  BY DEF Publish, WriteTail, ring
<1>2. Published = Q - u /\ Q \in 1 .. N /\ u \in 1 .. Q
  BY <1>1 DEF TypeRing, RoomOK, Published, Unpublished, Uncounted
<1>3. TailSlot = Plus(completed, Q - 1)
  BY <1>1, <1>2 DEF TypeRing, RoomOK, TxWindow, TailSlot, Pred, Plus, Uncounted, Slot
<1>4. Left \in 0 .. N /\ Left <= Published /\ cur = Plus(completed, Published - Left)
  BY DEF TypeEngine, EngineOK, Left, Ahead, Slot
<1>5. Left' = Ahead(cur, TailSlot) + 1
  BY <1>1 DEF Left, Ahead
<1> HIDE DEF Q, u
<1>6. Ahead(cur, TailSlot) = Q - 1 - (Published - Left)
  <2>1. /\ completed \in Slot /\ Published - Left \in 0 .. N - 1 /\ Q - 1 \in 0 .. N - 1
        /\ Published - Left <= Q - 1
    BY <1>2, <1>4 DEF TypeRing
  <2>2. QED
    BY <1>3, <1>4, <2>1, AheadPlus
<1>7. Left' = Left + u /\ Left + u \in 0 .. N /\ Left \in 0 .. Published /\ Published \in 0 .. N
  BY <1>2, <1>4, <1>5, <1>6
<1>8. QED
  BY <1>1, <1>4, <1>7 DEF u

(* A sequence with the same elements and one more.                         *)
LEMMA SeqGrows ==
  ASSUME NEW S, NEW r \in Seq(S), NEW r2 \in Seq(S), NEW e \in S,
         Len(r2) = Len(r) + 1, \A i \in 1 .. Len(r) : r2[i] = r[i], r2[Len(r) + 1] = e
  PROVE  r2 = r \o <<e>>
<1>1. <<e>> \in Seq(S) /\ Len(<<e>>) = 1 /\ <<e>>[1] = e /\ Len(r) \in Nat
  BY LenProperties
<1>2. /\ r \o <<e>> \in Seq(S) /\ Len(r \o <<e>>) = Len(r) + 1
      /\ \A i \in 1 .. Len(r) + 1 :
           (r \o <<e>>)[i] = IF i <= Len(r) THEN r[i] ELSE <<e>>[i - Len(r)]
  BY <1>1, ConcatProperties
<1>3. \A i \in 1 .. Len(r2) : r2[i] = (r \o <<e>>)[i]
  <2>1. TAKE i \in 1 .. Len(r2)
  <2>2. CASE i = Len(r) + 1
    BY <1>1, <1>2, <2>2
  <2>3. CASE i \in 1 .. Len(r)
    BY <1>1, <1>2, <2>3
  <2>4. QED
    BY <1>1, <2>2, <2>3
<1>4. QED
  BY <1>2, <1>3, SeqEqual

LEMMA PublishMaps ==
  ASSUME TxInv, TxInv', CopyOK, Publish
  PROVE  \/ \E f \in Frame : Promise!Submit(f) \/ \E k \in Burst : Promise!SubmitBurst(f, k)
         \/ Pending' = Pending /\ wire' = wire /\ eng' = eng
<1>0. CASE eng # "run"
  <2>1. UNCHANGED <<content, bdBuf, eng, cur, wire>>
    BY <1>0 DEF Publish, WriteTail, ring
  <2>2. Rest' = Rest
    BY <1>0, <2>1 DEF Rest
  <2>3. QED
    BY <2>1, <2>2, PendingStays
<1>1. CASE eng = "run" /\ kind # "burst"
  <2>1. pc = "publish" /\ Unpublished = 1 /\ Uncounted = 1
    BY <1>1 DEF Publish, Unpublished, Uncounted
  <2>2. /\ Left' = Left + 1 /\ Left + 1 \in 0 .. N
        /\ Left \in 0 .. Published /\ cur = Plus(completed, Published - Left)
        /\ Published \in 0 .. N /\ cur' = cur /\ eng' = eng
        /\ UNCHANGED <<content, bdBuf, armed, wire>>
    BY <1>1, <2>1, LeftGrows
  <2>3. Rest = Left /\ Rest' = Left + 1
    BY <1>1, <2>2 DEF Rest
  <2>4. /\ Pending \in Seq(Entries) /\ Len(Pending) = Left
        /\ Pending = [k \in 1 .. Left |-> Item(content, bdBuf, Plus(cur, k - 1))]
    BY <2>3, PendingIs, Zenon DEF PendingShape
  <2>5. /\ Pending' \in Seq(Entries) /\ Len(Pending') = Left + 1
        /\ Pending' = [k \in 1 .. Left + 1 |-> Item(content, bdBuf, Plus(cur, k - 1))]
    BY <2>2, <2>3, PendingIsNext, Zenon DEF PendingShape, Plus
  <2>6. Plus(cur, Left) = populated
    <3>1. Published = inflight /\ inflight < N /\ completed \in Slot /\ inflight \in Nat
      BY <1>1, <2>1 DEF Published, TxInv, TypeOK, TypeRing, RoomOK
    <3>2. populated = Plus(completed, inflight)
      BY <3>1 DEF TxInv, TxWindow, Plus
    <3>3. \A c \in Slot, a, j \in 0 .. N - 1 :
            j <= a => Plus(Plus(c, a - j), j) = Plus(c, a)
      BY Constants DEF Plus, Slot
    <3>4. Left \in 0 .. N - 1 /\ Left <= inflight /\ inflight \in 0 .. N - 1
      BY <2>2, <3>1, Constants
    <3>5. QED
      BY <2>2, <3>1, <3>2, <3>3, <3>4, Zenon
  <2> DEFINE e == Promise!Entry(frame, TRUE)
  <2>7. Item(content, bdBuf, populated) = e
    BY <1>1, <2>1 DEF CopyOK, Item, Promise!Entry
  <2>8. e \in Entries /\ frame \in Frame
    BY <2>1 DEF CopyOK, Entries, Promise!Entry
  <2> DEFINE r == Pending
             q == Pending'
  <2>9. Left \in Nat
    BY <2>2
  <2>10. \A k \in 1 .. Left : q[k] = r[k]
    <3>1. TAKE k \in 1 .. Left
    <3>2. k \in 1 .. Left + 1
      BY <2>9
    <3>3. QED
      BY <2>4, <2>5, <3>2, Zenon
  <2>11. q[Left + 1] = e
    <3>1. Left + 1 \in 1 .. Left + 1 /\ (Left + 1) - 1 = Left
      BY <2>9
    <3>2. q[Left + 1] = Item(content, bdBuf, Plus(cur, Left))
      BY <2>5, <3>1, Zenon
    <3>3. QED
      BY <2>6, <2>7, <3>2, Zenon
  <2>12. r \in Seq(Entries) /\ q \in Seq(Entries) /\ Len(r) = Left /\ Len(q) = Left + 1
    BY <2>4, <2>5, Zenon
  <2> HIDE DEF q, r, e
  <2>13. q = r \o <<e>>
    BY <2>8, <2>10, <2>11, <2>12, SeqGrows
  <2>14. Len(r) + Len(<<e>>) <= N
    BY <2>2, <2>12
  <2>15. Promise!Submit(frame)
    BY <1>1, <2>2, <2>13, <2>14 DEF Promise!Submit, Promise!Accept, q, r, e
  <2>16. QED
    BY <2>8, <2>15, Zenon
<1>2. CASE eng = "run" /\ kind = "burst"
  <2>1. /\ pc = "publish" /\ Unpublished = inflight /\ Uncounted = 0 /\ left = 0
        /\ inflight \in Nat /\ inflight \in Burst /\ frame \in Frame
        /\ content[first] = frame /\ first = completed
        /\ \A i \in armed : bdBuf[i] = first
    <3>1. pc = "publish" /\ left = 0 /\ inflight \in Nat
      BY <1>2 DEF Publish, TxInv, TypeOK, TypeRing, RoomOK
    <3>2. inflight + left = inflight
      BY <3>1
    <3>3. QED
      BY <1>2, <3>1, <3>2 DEF CopyOK, Unpublished, Uncounted
  <2>2. /\ Left' = Left + inflight /\ Left + inflight \in 0 .. N
        /\ Left \in 0 .. Published /\ cur = Plus(completed, Published - Left)
        /\ cur' = cur /\ eng' = eng /\ UNCHANGED <<content, bdBuf, armed, wire>>
    BY <1>2, <2>1, LeftGrows
  <2>3. Left = 0 /\ Published = 0 /\ Rest = 0
    BY <1>2, <2>1, <2>2 DEF Published, Rest
  <2>4. Rest' = inflight /\ inflight \in 0 .. N
    BY <1>2, <2>1, <2>2, <2>3 DEF Rest
  <2>5. cur = completed /\ completed \in Slot
    BY <2>2, <2>3, Constants DEF TxInv, TypeOK, TypeRing, Plus, Slot
  <2>6. Pending = <<>>
    BY <2>3, PendingIs, EmptySeq DEF PendingShape
  <2>7. /\ Pending' \in Seq(Entries) /\ Len(Pending') = inflight
        /\ Pending' = [k \in 1 .. inflight |-> Item(content, bdBuf, Plus(completed, k - 1))]
    BY <2>2, <2>4, <2>5, PendingIsNext, Zenon DEF PendingShape, Plus
  <2>8. \A k \in 1 .. inflight : Plus(completed, k - 1) \in armed
    <3>1. \A k \in 1 .. Rest' : Plus(cur', k - 1) \in armed'
      BY PendingArmedNext, Zenon DEF PendingArmed, Plus
    <3>2. QED
      BY <2>2, <2>4, <2>5, <3>1, Zenon
  <2>9. \A k \in 1 .. inflight :
          Item(content, bdBuf, Plus(completed, k - 1)) = Promise!Entry(frame, k = 1)
    <3>1. TAKE k \in 1 .. inflight
    <3>2. bdBuf[Plus(completed, k - 1)] = completed
      BY <2>1, <2>8
    <3>3. Plus(completed, k - 1) = completed <=> k = 1
      BY <2>4, <2>5, Constants DEF Plus, Slot
    <3>4. (completed = Plus(completed, k - 1)) = (k = 1)
      BY <3>3
    <3>5. QED
      BY <2>1, <3>2, <3>4 DEF Item, Promise!Entry
  <2>10. Pending' = [k \in 1 .. inflight |-> Promise!Entry(frame, k = 1)]
    BY <2>7, <2>9
  <2>11. Pending' = Pending \o Pending'
    <3> DEFINE q == Pending'
    <3>1. q \in Seq(Entries)
      BY <2>7
    <3> HIDE DEF q
    <3>2. q = <<>> \o q
      BY <3>1, ConcatEmptySeq
    <3>3. QED
      BY <2>6, <3>2, Zenon DEF q
  <2>12. Promise!SubmitBurst(frame, inflight)
    <3>1. Len(Pending) + Len(Pending') <= N
      BY <2>4, <2>6, <2>7
    <3>2. Promise!Accept(Pending')
      BY <1>2, <2>2, <2>11, <3>1, Zenon DEF Promise!Accept
    <3>3. QED
      BY <2>10, <3>2, Zenon DEF Promise!SubmitBurst
  <2>13. QED
    BY <2>1, <2>12, Zenon
<1>3. QED
  BY <1>0, <1>1, <1>2

(* Accepted frames go out in the order they were accepted, each with the    *)
(* bytes it was accepted with, the copies of a burst excepted, and after a  *)
(* bus error nothing goes out: the ring implements EmzTxPromise, whatever   *)
(* the calls, refusals, failures and the engine do.                         *)
THEOREM PromiseKept == Spec => KeepsPromise
<1> DEFINE pvars == <<Pending, wire, eng = "run">>
<1>1. Init => Promise!Init
  <2> SUFFICES ASSUME Init PROVE Promise!Init
    OBVIOUS
  <2>1. Rest = 0
    BY DEF Init, Rest, Left
  <2>2. Pending = <<>>
    BY <2>1, InitInv, PendingIs, EmptySeq DEF PendingShape
  <2>3. (eng = "run") = TRUE
    BY DEF Init
  <2>4. QED
    BY <2>2, <2>3 DEF Init, Promise!Init, Promise!Entry
<1>2. TxInv /\ CopyOK /\ ShareOK /\ TxInv' /\ [Next]_vars => [Promise!Next]_pvars
  <2> SUFFICES ASSUME TxInv, CopyOK, ShareOK, TxInv', [Next]_vars
               PROVE  Promise!Next \/ UNCHANGED pvars
    OBVIOUS
  <2>1. CASE Call \/ Reclaim \/ Reserve \/ PollAgain \/ GiveUp \/ Program \/ ProgramBurst
             \/ ProgramEnd \/ Count
    BY <2>1, QuietMaps
  <2>2. CASE Fill \/ ReadFail
    BY <2>2, CopyMaps DEF Promise!Next
  <2>3. CASE Publish
    BY <2>3, PublishMaps DEF Promise!Next
  <2>4. CASE EngineTransmit
    BY <2>4, TransmitMaps DEF Promise!Next
  <2>5. CASE EngineFault
    BY <2>5, FaultMaps DEF Promise!Next
  <2>6. CASE UNCHANGED vars
    <3>1. UNCHANGED <<content, bdBuf, wire, eng, cur, tdesc, active>>
      BY <2>6 DEF vars, ring, engine
    <3>2. Rest' = Rest
      BY <3>1 DEF Rest, Left, Ahead
    <3>3. Pending' = Pending
      BY <3>1, <3>2, PendingStays
    <3>4. QED
      BY <3>1, <3>3
  <2>7. QED
    BY <2>1, <2>2, <2>3, <2>4, <2>5, <2>6 DEF Next, Inside
<1>3. QED
  BY <1>1, <1>2, TxInvariant, CopyInvariant, PTL DEF Spec, KeepsPromise, Promise!Spec

=============================================================================
