-------------------------- MODULE EmzRxRing_proofs --------------------------
(***************************************************************************)
(* Proofs about the direct RX ring, for every ring size, every limit and   *)
(* every set of threads.  Nothing is assumed of the engine: its actions    *)
(* are steps like the others.                                              *)
(*                                                                         *)
(* RingInv is the inductive invariant: types, the link between a context's *)
(* program counter and the buffer it holds, and the ring window.  The      *)
(* types need the window (rx_bd_posted never passes 0 or N) and the window *)
(* needs the types.  OwnedOnce is inductive relative to RingInv.           *)
(***************************************************************************)
EXTENDS EmzRxRing, FiniteSetTheorems, TLAPS

(* A context holds a buffer exactly while its program counter says so.     *)
Holding == {"post", "putback", "class", "route", "enqueue", "give", "put",
            "took", "enter", "work", "handoff", "recv"}
HoldOK == \A c \in Ctx : hold[c] # NoBuf <=> pc[c] \in Holding

RingInv == TypeOK /\ HoldOK /\ RingWindow

Assumptions ==
  /\ N \in Nat \ {0} /\ NoBuf \notin Buf
  /\ IsFiniteSet(Buf) /\ Cardinality(Buf) = N
  /\ MaxInflight \in Nat \ {0} /\ MaxStack \in Nat /\ MaxFaults \in Nat

LEMMA AssumptionsHold == Assumptions
BY NAssumption, BufAssumption, BufCountAssumption, LimitAssumption DEF Assumptions

LEMMA SlotFacts ==
  /\ 0 \in Slot
  /\ \A i \in Slot : Succ(i) \in Slot
BY AssumptionsHold DEF Assumptions, Slot, Succ

(* What a step that leaves the ring, or the pools, alone preserves.        *)
LEMMA RingKept ==
  TypeRing /\ RingWindow /\ UNCHANGED ring => TypeRing' /\ RingWindow'
BY DEF TypeRing, RingWindow, Ahead, ring

LEMMA PostedType == TypeRing => Posted \subseteq Buf /\ Cardinality(Posted) \in Nat
<1> SUFFICES ASSUME TypeRing PROVE Posted \subseteq Buf /\ Cardinality(Posted) \in Nat
  OBVIOUS
<1>1. Posted \subseteq Buf
  BY DEF TypeRing, Posted
<1>2. IsFiniteSet(Posted)
  BY <1>1, AssumptionsHold, FS_Subset DEF Assumptions
<1>3. QED
  BY <1>1, <1>2, FS_CardinalityType

LEMMA InitRing == Init => RingInv
<1> SUFFICES ASSUME Init PROVE RingInv
  OBVIOUS
<1> USE AssumptionsHold DEF Assumptions, Init
<1>1. TypeRing
  BY DEF TypeRing, Slot
<1>2. TypePools
  BY DEF TypePools
<1>3. TypeLocals
  <2>1. pc \in [Ctx -> Label]
    BY DEF Label
  <2>2. hold \in [Ctx -> Buf \cup {NoBuf}]
    OBVIOUS
  <2>3. ret \in [Ctx -> {"idle", "poll", "arm"}]
    OBVIOUS
  <2>4. queued \in [Ctx -> BOOLEAN] /\ completed \in [Ctx -> BOOLEAN]
    OBVIOUS
  <2>5. QED
    BY <2>1, <2>2, <2>3, <2>4 DEF TypeLocals
<1>4. TypeEngine
  <2>1. cur \in Slot /\ tdesc \in Slot /\ faults \in 0 .. MaxFaults
    BY DEF Slot
  <2>2. dmasr \subseteq {"ioc", "err"} /\ irq \subseteq {"ioc", "err"}
    OBVIOUS
  <2>3. QED
    BY <2>1, <2>2, Zenon DEF TypeEngine
<1>5. HoldOK
  BY DEF HoldOK, Holding
<1>6. RingWindow
  BY DEF RingWindow, Ahead, Slot
<1>7. QED
  BY <1>1, <1>2, <1>3, <1>4, <1>5, <1>6 DEF RingInv, TypeOK

(* emz_rx_direct_post_one: the refill slot is the first free one, so the    *)
(* window grows by exactly that slot.                                       *)
LEMMA PostRing ==
  ASSUME RingInv, NEW c \in Ctx, Post(c)
  PROVE  RingInv'
<1> USE DEF RingInv, TypeOK
<1>1. hold[c] \in Buf /\ hold[c] # NoBuf /\ bdBuf[refill] = NoBuf
  BY DEF Post, At, CanPost, TypeLocals, HoldOK, Holding
<1>2. posted < N /\ Ahead(refill) = posted
  BY <1>1, AssumptionsHold DEF Assumptions, RingWindow, TypeRing, Slot, Ahead
<1>3. TypeLocals' /\ HoldOK'
  BY DEF Post, Goto, Label, TypeLocals, HoldOK, Holding
<1>4. TypeRing'
  BY <1>1, <1>2, SlotFacts, AssumptionsHold
     DEF Assumptions, Post, TypeRing, RingWindow
<1>5. RingWindow'
  <2>1. \A i \in Slot : Ahead(i) = posted => i = refill
    BY <1>2, AssumptionsHold
       DEF Assumptions, RingWindow, Ahead, TypeRing, Slot
  <2>2. \A i \in Slot : bdBuf'[i] # NoBuf <=> Ahead(i) < posted + 1
    BY <1>1, <1>2, <2>1, AssumptionsHold
       DEF Assumptions, Post, RingWindow, TypeRing, Slot, Ahead
  <2>3. QED
    BY <1>2, <2>2, AssumptionsHold
       DEF Assumptions, Post, RingWindow, Ahead, TypeRing, Slot, Succ
<1>6. TypePools' /\ TypeEngine'
  BY DEF Post, TypePools, TypeEngine, pools, counts, recov
<1>7. QED
  BY <1>3, <1>4, <1>5, <1>6

(* Retiring the consume slot shrinks the window from its low end.           *)
LEMMA PollTakeRing ==
  ASSUME RingInv, NEW c \in Ctx, PollTake(c)
  PROVE  RingInv'
<1> USE DEF RingInv, TypeOK
<1>1. bdBuf[consume] # NoBuf /\ posted > 0
  BY DEF PollTake, RingWindow, TypeRing, Slot, Ahead
<1>2. TypeLocals' /\ HoldOK'
  BY DEF PollTake, At, Goto, Label, TypeLocals, TypeRing, HoldOK, Holding
<1>3. TypeRing'
  BY <1>1, SlotFacts, AssumptionsHold
     DEF Assumptions, PollTake, TypeRing, RingWindow
<1>4. RingWindow'
  BY <1>1, AssumptionsHold
     DEF Assumptions, PollTake, RingWindow, Ahead, TypeRing, Slot, Succ
<1>5. TypePools' /\ TypeEngine'
  BY DEF PollTake, TypePools, TypeEngine, pools, counts, recov, engine
<1>6. QED
  BY <1>2, <1>3, <1>4, <1>5

(* Recovery empties the window and gives every posted buffer back.          *)
LEMMA RecoverRing ==
  ASSUME RingInv, WqRecover
  PROVE  RingInv'
<1> USE DEF RingInv, TypeOK
<1>1. TypeLocals' /\ HoldOK'
  BY DEF WqRecover, StartRefill, At, Goto, Label, TypeLocals, HoldOK, Holding, Ctx
<1>2. TypeRing' /\ RingWindow'
  BY SlotFacts, AssumptionsHold
     DEF Assumptions, WqRecover, ResetIndices, TypeRing, RingWindow, Ahead, Slot
<1>3. TypePools'
  BY PostedType DEF WqRecover, TypePools
<1>4. TypeEngine'
  BY SlotFacts, Zenon DEF WqRecover, TypeEngine
<1>5. QED
  BY <1>1, <1>2, <1>3, <1>4

(* emz_rx_direct_refill and emz_release_rx_buffer in any context.          *)
LEMMA RefillRing ==
  ASSUME RingInv, NEW c \in Ctx, Refill(c)
  PROVE  RingInv'
<1> USE DEF RingInv, TypeOK
<1>1. CASE Pop(c)
  <2> USE <1>1 DEF Pop
  <2>1. PICK b \in free : free' = free \ {b} /\ hold' = [hold EXCEPT ![c] = b]
    OBVIOUS
  <2>2. b \in Buf /\ b # NoBuf
    BY AssumptionsHold DEF Assumptions, TypePools
  <2>3. TypeLocals' /\ HoldOK'
    BY <2>1, <2>2 DEF At, Goto, Label, TypeLocals, HoldOK, Holding, Ctx
  <2>4. TypePools'
    BY <2>1 DEF At, TypePools, TypeLocals, HoldOK, Holding, Ctx, pools, counts
  <2>5. TypeEngine'
    BY DEF TypeEngine, engine, recov
  <2>6. QED
    BY <2>3, <2>4, <2>5, RingKept
<1>2. CASE PopEmpty(c)
  <2> USE <1>2 DEF PopEmpty
  <2>1. TypeLocals' /\ HoldOK'
    <3>1. TypeLocals'
      BY ZenonT(40) DEF RefillEnd, Return, At, Goto, Label, TypeLocals, TypePools,
         TypeRing, HoldOK, Holding, Ctx
    <3>2. HoldOK'
      BY DEF RefillEnd, Return, At, Goto, Label, TypeLocals, TypePools,
         TypeRing, HoldOK, Holding, Ctx
    <3>3. QED
      BY <3>1, <3>2
  <2>2. TypePools'
    BY DEF TypePools, pools, counts
  <2>3. TypeEngine'
    BY DEF TypeEngine, engine, recov
  <2>4. QED
    BY <2>1, <2>2, <2>3, RingKept
<1>3. CASE Post(c)
  BY <1>3, PostRing
<1>4. CASE PostRefused(c)
  <2> USE <1>4 DEF PostRefused
  <2>1. TypeLocals' /\ HoldOK'
    BY DEF At, Goto, Label, TypeLocals, TypePools, TypeRing, HoldOK, Holding,
       Ctx
  <2>2. TypePools'
    BY DEF TypePools, pools, counts
  <2>3. TypeEngine'
    BY DEF TypeEngine, engine, recov
  <2>4. QED
    BY <2>1, <2>2, <2>3, RingKept
<1>5. CASE PostCount(c) \/ PostUncount(c) \/ Give(c)
  <2> USE <1>5 DEF PostCount, PostUncount, Give
  <2>1. TypeLocals' /\ HoldOK'
    BY DEF At, Goto, Label, TypeLocals, TypePools, TypeRing, HoldOK, Holding,
       Ctx
  <2>2. TypePools'
    BY DEF At, TypePools, TypeLocals, HoldOK, Holding, Ctx, pools, counts
  <2>3. TypeEngine'
    BY DEF TypeEngine, engine, recov
  <2>4. QED
    BY <2>1, <2>2, <2>3, RingKept
<1>6. CASE PutBack(c)
  <2> USE <1>6 DEF PutBack
  <2>1. TypeLocals' /\ HoldOK'
    <3>1. TypeLocals'
      BY ZenonT(40) DEF RefillEnd, Return, At, Goto, Label, TypeLocals, TypePools,
         TypeRing, HoldOK, Holding, Ctx
    <3>2. HoldOK'
      BY DEF RefillEnd, Return, At, Goto, Label, TypeLocals, TypePools,
         TypeRing, HoldOK, Holding, Ctx
    <3>3. QED
      BY <3>1, <3>2
  <2>2. TypePools'
    BY DEF RefillEnd, Return, At, TypePools, TypeLocals, HoldOK, Holding, Ctx,
       pools, counts
  <2>3. TypeEngine'
    BY DEF TypeEngine, engine, recov
  <2>4. QED
    BY <2>1, <2>2, <2>3, RingKept
<1>7. CASE UpdateTail(c)
  <2> USE <1>7 DEF UpdateTail
  <2>1. TypeLocals' /\ HoldOK'
    BY DEF WriteTail, Return, At, Goto, Label, TypeLocals, TypePools,
       TypeRing, HoldOK, Holding, Ctx
  <2>2. TypePools'
    BY DEF TypePools, pools, counts
  <2>3. TypeEngine'
    BY SlotFacts, Zenon DEF WriteTail, Return, TypeEngine, TypeRing, engine,
       recov
  <2>4. QED
    BY <2>1, <2>2, <2>3, RingKept
<1>8. CASE PutFree(c)
  <2> USE <1>8 DEF PutFree
  <2>1. TypeLocals' /\ HoldOK'
    BY DEF StartRefill, At, Goto, Label, TypeLocals, TypePools, TypeRing,
       HoldOK, Holding, Ctx
  <2>2. TypePools'
    BY DEF StartRefill, At, TypePools, TypeLocals, HoldOK, Holding, Ctx,
       pools, counts
  <2>3. TypeEngine'
    BY DEF TypeEngine, engine, recov
  <2>4. QED
    BY <2>1, <2>2, <2>3, RingKept
<1>9. QED
  BY <1>1, <1>2, <1>3, <1>4, <1>5, <1>6, <1>7, <1>8 DEF Refill

(* emz_rx_direct_poll in the interrupt or the work queue.                  *)
LEMMA PollRing ==
  ASSUME RingInv, NEW c \in Ctx, Poll(c)
  PROVE  RingInv'
<1> USE DEF RingInv, TypeOK
<1>1. CASE PollTake(c)
  BY <1>1, PollTakeRing
<1>2. CASE PollIdle(c)
  <2> USE <1>2 DEF PollIdle
  <2>1. TypeLocals' /\ HoldOK'
    <3>1. TypeLocals'
      BY ZenonT(40) DEF PollEnd, StartRefill, At, Goto, Label, TypeLocals, TypePools,
         TypeRing, HoldOK, Holding, Ctx
    <3>2. HoldOK'
      BY DEF PollEnd, StartRefill, At, Goto, Label, TypeLocals, TypePools,
         TypeRing, HoldOK, Holding, Ctx
    <3>3. QED
      BY <3>1, <3>2
  <2>2. TypePools'
    BY DEF TypePools, pools, counts
  <2>3. TypeEngine'
    BY DEF TypeEngine, engine, recov
  <2>4. QED
    BY <2>1, <2>2, <2>3, RingKept
<1>3. CASE PollOrphan(c)
  <2> USE <1>3 DEF PollOrphan
  <2>1. TypeLocals' /\ HoldOK'
    <3>1. TypeLocals'
      BY ZenonT(40) DEF PollEnd, StartRefill, RequestRecover, At, Goto, Label, TypeLocals,
         TypePools, TypeRing, HoldOK, Holding, Ctx
    <3>2. HoldOK'
      BY DEF PollEnd, StartRefill, RequestRecover, At, Goto, Label, TypeLocals,
         TypePools, TypeRing, HoldOK, Holding, Ctx
    <3>3. QED
      BY <3>1, <3>2
  <2>2. TypePools'
    BY DEF TypePools, pools, counts
  <2>3. TypeEngine'
    BY SlotFacts, Zenon DEF PollEnd, StartRefill, RequestRecover, TypeEngine,
       TypeRing, engine, recov
  <2>4. QED
    BY <2>1, <2>2, <2>3, RingKept
<1>4. CASE PollReady(c)
  <2> USE <1>4 DEF PollReady
  <2>1. TypeLocals' /\ HoldOK'
    BY DEF PollNext, At, Goto, Label, TypeLocals, TypePools, TypeRing, HoldOK,
       Holding, Ctx
  <2>2. TypePools'
    BY DEF PollNext, At, TypePools, TypeLocals, HoldOK, Holding, Ctx, pools,
       counts
  <2>3. TypeEngine'
    BY DEF TypeEngine, engine, recov
  <2>4. QED
    BY <2>1, <2>2, <2>3, RingKept
<1>5. CASE PollUncount(c) \/ PollIntercept(c) \/ PollCount(c)
  <2> USE <1>5 DEF PollUncount, PollIntercept, PollCount
  <2>1. TypeLocals' /\ HoldOK'
    BY DEF At, Goto, Label, TypeLocals, TypePools, TypeRing, HoldOK, Holding,
       Ctx
  <2>2. TypePools'
    BY DEF At, TypePools, TypeLocals, HoldOK, Holding, Ctx, pools, counts
  <2>3. TypeEngine'
    BY DEF TypeEngine, engine, recov
  <2>4. QED
    BY <2>1, <2>2, <2>3, RingKept
<1>6. QED
  BY <1>1, <1>2, <1>3, <1>4, <1>5 DEF Poll

(* The interrupt handler.                                                  *)
LEMMA IsrRing ==
  ASSUME RingInv, Isr
  PROVE  RingInv'
<1> USE DEF RingInv, TypeOK
<1>1. CASE IsrRead
  <2> USE <1>1 DEF IsrRead
  <2>1. TypeLocals' /\ HoldOK'
    BY DEF RequestRecover, At, Goto, Label, TypeLocals, TypePools, TypeRing,
       HoldOK, Holding, Ctx
  <2>2. TypePools'
    BY DEF TypePools, pools, counts
  <2>3. TypeEngine'
    BY SlotFacts, Zenon DEF RequestRecover, TypeEngine, TypeRing, engine,
       recov
  <2>4. QED
    BY <2>1, <2>2, <2>3, RingKept
<1>2. CASE IsrAck
  <2> USE <1>2 DEF IsrAck
  <2>1. TypeLocals' /\ HoldOK'
    BY DEF At, Goto, Label, TypeLocals, TypePools, TypeRing, HoldOK, Holding,
       Ctx
  <2>2. TypePools'
    BY DEF TypePools, pools, counts
  <2>3. TypeEngine'
    BY SlotFacts, Zenon DEF TypeEngine, TypeRing, engine, recov
  <2>4. QED
    BY <2>1, <2>2, <2>3, RingKept
<1>3. CASE Poll("isr")
  BY <1>3, PollRing DEF Ctx
<1>4. CASE Refill("isr")
  BY <1>4, RefillRing DEF Ctx
<1>5. QED
  BY <1>1, <1>2, <1>3, <1>4 DEF Isr

(* The work queue, outside the start of a recovery, and the boot path.     *)
LEMMA WqRing ==
  ASSUME RingInv, WqPoll \/ (\E c \in {"wq", "boot"} : Arm(c) \/ IrqEnable(c)) \/ RecoverClear
  PROVE  RingInv'
<1> USE DEF RingInv, TypeOK
<1>1. CASE WqPoll
  <2> USE <1>1 DEF WqPoll
  <2>1. TypeLocals' /\ HoldOK'
    BY DEF At, Goto, Label, TypeLocals, TypePools, TypeRing, HoldOK, Holding,
       Ctx
  <2>2. TypePools'
    BY DEF TypePools, pools, counts
  <2>3. TypeEngine'
    BY DEF TypeEngine, engine, recov
  <2>4. QED
    BY <2>1, <2>2, <2>3, RingKept
<1>2. CASE \E c \in {"wq", "boot"} : Arm(c)
  <2> USE <1>2 DEF Arm
  <2>1. TypeLocals' /\ HoldOK'
    BY DEF ArmTail, At, Goto, Label, TypeLocals, TypePools, TypeRing, HoldOK,
       Holding, Ctx
  <2>2. TypePools'
    BY DEF TypePools, pools, counts
  <2>3. TypeEngine'
    BY SlotFacts, Zenon DEF ArmTail, TypeEngine, TypeRing, engine, recov
  <2>4. QED
    BY <2>1, <2>2, <2>3, RingKept
<1>3. CASE \E c \in {"wq", "boot"} : IrqEnable(c)
  <2> USE <1>3 DEF IrqEnable
  <2>1. TypeLocals' /\ HoldOK'
    BY DEF At, Goto, Label, TypeLocals, TypePools, TypeRing, HoldOK, Holding,
       Ctx
  <2>2. TypePools'
    BY DEF TypePools, pools, counts
  <2>3. TypeEngine'
    BY SlotFacts, Zenon DEF TypeEngine, TypeRing, engine, recov
  <2>4. QED
    BY <2>1, <2>2, <2>3, RingKept
<1>4. CASE RecoverClear
  <2> USE <1>4 DEF RecoverClear
  <2>1. TypeLocals' /\ HoldOK'
    BY DEF At, Goto, Label, TypeLocals, TypePools, TypeRing, HoldOK, Holding,
       Ctx
  <2>2. TypePools'
    BY DEF TypePools, pools, counts
  <2>3. TypeEngine'
    BY SlotFacts, Zenon DEF TypeEngine, TypeRing, engine, recov
  <2>4. QED
    BY <2>1, <2>2, <2>3, RingKept
<1>5. QED
  BY <1>1, <1>2, <1>3, <1>4 DEF Ctx

(* The RX worker.                                                          *)
LEMMA WorkerRing ==
  ASSUME RingInv, Worker
  PROVE  RingInv'
<1> USE DEF RingInv, TypeOK
<1>1. CASE WorkerGet
  <2> USE <1>1 DEF WorkerGet
  <2>1. PICK b \in ready : ready' = ready \ {b} /\ hold' = [hold EXCEPT !["rxt"] = b]
    OBVIOUS
  <2>2. b \in Buf /\ b # NoBuf
    BY AssumptionsHold DEF Assumptions, TypePools
  <2>3. TypeLocals' /\ HoldOK'
    BY <2>1, <2>2 DEF At, Goto, Label, TypeLocals, HoldOK, Holding, Ctx
  <2>4. TypePools'
    BY <2>1 DEF At, TypePools, TypeLocals, HoldOK, Holding, Ctx, pools, counts
  <2>5. TypeEngine'
    BY DEF TypeEngine, engine, recov
  <2>6. QED
    BY <2>3, <2>4, <2>5, RingKept
<1>2. CASE WorkerRelease
  <2> USE <1>2 DEF WorkerRelease
  <2>1. TypeLocals' /\ HoldOK'
    BY DEF At, Goto, Label, TypeLocals, TypePools, TypeRing, HoldOK, Holding,
       Ctx
  <2>2. TypePools'
    BY DEF At, TypePools, TypeLocals, HoldOK, Holding, Ctx, pools, counts
  <2>3. TypeEngine'
    BY DEF TypeEngine, engine, recov
  <2>4. QED
    BY <2>1, <2>2, <2>3, RingKept
<1>3. CASE WorkerUncount \/ WorkerCount \/ WorkerZeroCopy \/ WorkerHandOff
  <2> USE <1>3 DEF WorkerUncount, WorkerCount, WorkerZeroCopy, WorkerHandOff
  <2>1. TypeLocals' /\ HoldOK'
    BY DEF At, Goto, Label, TypeLocals, TypePools, TypeRing, HoldOK, Holding,
       Ctx
  <2>2. TypePools'
    BY DEF At, TypePools, TypeLocals, HoldOK, Holding, Ctx, pools, counts
  <2>3. TypeEngine'
    BY DEF TypeEngine, engine, recov
  <2>4. QED
    BY <2>1, <2>2, <2>3, RingKept
<1>4. CASE RecvKept
  <2> USE <1>4 DEF RecvKept
  <2>1. TypeLocals' /\ HoldOK'
    BY DEF At, Goto, Label, TypeLocals, TypePools, TypeRing, HoldOK, Holding,
       Ctx
  <2>2. TypePools'
    BY DEF At, TypePools, TypeLocals, HoldOK, Holding, Ctx, pools, counts
  <2>3. TypeEngine'
    BY DEF TypeEngine, engine, recov
  <2>4. QED
    BY <2>1, <2>2, <2>3, RingKept
<1>5. CASE RecvFreed
  <2> USE <1>5 DEF RecvFreed
  <2>1. TypeLocals' /\ HoldOK'
    BY DEF At, Goto, Label, TypeLocals, TypePools, TypeRing, HoldOK, Holding,
       Ctx
  <2>2. TypePools'
    BY DEF At, TypePools, TypeLocals, HoldOK, Holding, Ctx, pools, counts
  <2>3. TypeEngine'
    BY DEF TypeEngine, engine, recov
  <2>4. QED
    BY <2>1, <2>2, <2>3, RingKept
<1>6. CASE Refill("rxt")
  BY <1>6, RefillRing DEF Ctx
<1>7. QED
  BY <1>1, <1>2, <1>3, <1>4, <1>5, <1>6 DEF Worker

(* The threads that free packets.                                          *)
LEMMA AppRing ==
  ASSUME RingInv, NEW c \in Apps, App(c)
  PROVE  RingInv'
<1> USE DEF RingInv, TypeOK
<1>1. CASE AppFree(c)
  <2> USE <1>1 DEF AppFree
  <2>1. PICK b \in stack : stack' = stack \ {b} /\ hold' = [hold EXCEPT ![c] = b]
    OBVIOUS
  <2>2. b \in Buf /\ b # NoBuf
    BY AssumptionsHold DEF Assumptions, TypePools
  <2>3. TypeLocals' /\ HoldOK'
    BY <2>1, <2>2 DEF At, Goto, Label, TypeLocals, HoldOK, Holding, Ctx
  <2>4. TypePools'
    BY <2>1 DEF At, TypePools, TypeLocals, HoldOK, Holding, Ctx, pools, counts
  <2>5. TypeEngine'
    BY DEF TypeEngine, engine, recov
  <2>6. QED
    BY <2>3, <2>4, <2>5, RingKept
<1>2. CASE Refill(c)
  BY <1>2, RefillRing DEF Ctx
<1>3. QED
  BY <1>1, <1>2 DEF App

(* The engine touches descriptor status and its own registers only.         *)
LEMMA EngineRing ==
  ASSUME RingInv, Engine
  PROVE  RingInv'
<1> USE DEF RingInv, TypeOK
<1>1. TypeLocals' /\ HoldOK' /\ TypePools'
  BY DEF Engine, EngineComplete, EngineBadDescriptor, EngineFault, locals, pools,
         counts, TypeLocals, TypePools, HoldOK
<1>2. TypeRing' /\ RingWindow'
  <2>1. /\ UNCHANGED <<bdBuf, armed, consume, refill, tail, posted, inflight>>
        /\ done' \subseteq done \cup {cur}
    BY DEF Engine, EngineComplete, EngineBadDescriptor, EngineFault, ring
  <2>2. cur \in Slot
    BY DEF TypeEngine
  <2>3. QED
    BY <2>1, <2>2 DEF TypeRing, RingWindow, Ahead
<1>3. TypeEngine'
  <2>1. cur' \in Slot /\ tdesc' \in Slot
    BY SlotFacts DEF Engine, EngineComplete, EngineBadDescriptor, EngineFault, TypeEngine
  <2>2. faults' \in 0 .. MaxFaults
    BY AssumptionsHold DEF Assumptions, Engine, EngineComplete,
       EngineBadDescriptor, EngineFault, TypeEngine
  <2>3. irq' \subseteq {"ioc", "err"} /\ dmasr' \subseteq {"ioc", "err"}
        /\ eng' \in {"reset", "run", "halted"}
    BY DEF Engine, EngineComplete, EngineBadDescriptor, EngineFault, TypeEngine
  <2>4. /\ active' \in BOOLEAN
        /\ UNCHANGED <<started, recov, irqOn, unpub, reopened>>
    BY DEF Engine, EngineComplete, EngineBadDescriptor, EngineFault, TypeEngine
  <2>5. QED
    BY <2>1, <2>2, <2>3, <2>4, Zenon DEF TypeEngine, recov
<1>4. QED
  BY <1>1, <1>2, <1>3

LEMMA StepRing == RingInv /\ [Next]_vars => RingInv'
<1> SUFFICES ASSUME RingInv, [Next]_vars PROVE RingInv'
  OBVIOUS
<1>1. CASE Isr
  BY <1>1, IsrRing
<1>2. CASE WqPoll
  BY <1>2, WqRing
<1>3. CASE WqRecover
  BY <1>3, RecoverRing
<1>4. CASE WqStep
  BY <1>4, WqRing, PollRing, RefillRing DEF WqStep, Ctx
<1>5. CASE Boot
  BY <1>5, WqRing, RefillRing DEF Boot, Ctx
<1>6. CASE Worker
  BY <1>6, WorkerRing
<1>7. CASE \E c \in Apps : App(c)
  BY <1>7, AppRing
<1>8. CASE Engine
  BY <1>8, EngineRing
<1>9. CASE UNCHANGED vars
  <2>1. UNCHANGED <<ring, started, pools, counts, recov, locals, dmasr, irqOn, engine>>
    BY <1>9 DEF vars
  <2>2. TypeRing' /\ RingWindow'
    BY <2>1, RingKept DEF RingInv, TypeOK
  <2>3. TypeLocals' /\ HoldOK' /\ TypePools'
    BY <2>1 DEF RingInv, TypeOK, TypeLocals, HoldOK, TypePools, locals, pools, counts
  <2>4. TypeEngine'
    BY <2>1 DEF RingInv, TypeOK, TypeEngine, engine, recov
  <2>5. QED
    BY <2>2, <2>3, <2>4 DEF RingInv, TypeOK
<1>10. QED
  BY <1>1, <1>2, <1>3, <1>4, <1>5, <1>6, <1>7, <1>8, <1>9 DEF Next

THEOREM RingInvariant == Spec => []RingInv
<1>1. Init => RingInv
  BY InitRing
<1>2. RingInv /\ [Next]_vars => RingInv'
  BY StepRing
<1>3. QED
  BY <1>1, <1>2, PTL DEF Spec

(* Every variable of the RX ring stays in its range: the unsigned counters *)
(* rx_bd_posted and rx_dma_inflight never wrap and no index leaves the     *)
(* ring, whatever the engine does.                                         *)
THEOREM TypeCorrect == Spec => []TypeOK
<1>1. RingInv => TypeOK
  BY DEF RingInv
<1>2. QED
  BY <1>1, RingInvariant, PTL

(* The posted slots are one window of the ring, from the consume index to  *)
(* the refill index, at every moment and for every ring size.              *)
THEOREM WindowCorrect == Spec => []RingWindow
<1>1. RingInv => RingWindow
  BY DEF RingInv
<1>2. QED
  BY <1>1, RingInvariant, PTL

----------------------------------------------------------------------------
(* OwnedOnce: how the two derived sets follow a change of one entry.        *)

LEMMA HeldTake ==
  ASSUME TypeLocals, NEW c \in Ctx, NEW b \in Buf, hold[c] = NoBuf,
         hold' = [hold EXCEPT ![c] = b]
  PROVE  Held' = Held \cup {b}
BY BufAssumption DEF TypeLocals, Held

LEMMA HeldDrop ==
  ASSUME TypeLocals, NEW c \in Ctx, hold[c] # NoBuf,
         \A d \in Ctx : hold[d] = hold[c] => d = c,
         hold' = [hold EXCEPT ![c] = NoBuf]
  PROVE  Held' = Held \ {hold[c]}
BY DEF TypeLocals, Held

LEMMA PostedPut ==
  ASSUME TypeRing, NEW i \in Slot, NEW b \in Buf, bdBuf[i] = NoBuf,
         bdBuf' = [bdBuf EXCEPT ![i] = b]
  PROVE  Posted' = Posted \cup {b}
BY BufAssumption DEF TypeRing, Posted

LEMMA PostedTake ==
  ASSUME TypeRing, NEW i \in Slot, bdBuf[i] # NoBuf,
         \A j \in Slot : bdBuf[j] = bdBuf[i] => j = i,
         bdBuf' = [bdBuf EXCEPT ![i] = NoBuf]
  PROVE  Posted' = Posted \ {bdBuf[i]}
BY DEF TypeRing, Posted

(* A step that moves no buffer.                                             *)
LEMMA OwnKept ==
  OwnedOnce /\ UNCHANGED <<bdBuf, hold, pools>> => OwnedOnce'
BY DEF OwnedOnce, Posted, Held, pools

(* A context takes a buffer out of one of the three pools ...               *)
LEMMA OwnTake ==
  ASSUME RingInv, OwnedOnce, NEW c \in Ctx, pc[c] \notin Holding,
         NEW b \in free \cup ready \cup stack,
         free' = free \ {b}, ready' = ready \ {b}, stack' = stack \ {b},
         hold' = [hold EXCEPT ![c] = b], bdBuf' = bdBuf
  PROVE  OwnedOnce'
<1>1. hold[c] = NoBuf /\ b \in Buf /\ TypeLocals
  BY DEF RingInv, TypeOK, HoldOK, TypePools
<1>2. Held' = Held \cup {b}
  BY <1>1, HeldTake
<1>3. Posted' = Posted
  BY DEF Posted
<1>4. b \notin Held \cup Posted
  BY DEF OwnedOnce
<1>5. \A d, e \in Ctx : hold'[d] = hold'[e] /\ hold'[d] # NoBuf => d = e
  BY <1>1, <1>4 DEF OwnedOnce, Held, TypeLocals
<1>6. QED
  BY <1>2, <1>3, <1>5 DEF OwnedOnce

(* ... or puts the one it holds into one of them.                           *)
LEMMA OwnGive ==
  ASSUME RingInv, OwnedOnce, NEW c \in Ctx, pc[c] \in Holding,
         \/ free' = free \cup {hold[c]} /\ UNCHANGED <<ready, stack>>
         \/ ready' = ready \cup {hold[c]} /\ UNCHANGED <<free, stack>>
         \/ stack' = stack \cup {hold[c]} /\ UNCHANGED <<free, ready>>,
         hold' = [hold EXCEPT ![c] = NoBuf], bdBuf' = bdBuf
  PROVE  OwnedOnce'
<1>1. hold[c] # NoBuf /\ TypeLocals /\ hold[c] \in Held
  BY DEF RingInv, TypeOK, HoldOK, Held
<1>2. Held' = Held \ {hold[c]}
  BY <1>1, HeldDrop DEF OwnedOnce
<1>3. Posted' = Posted
  BY DEF Posted
<1>4. \A d, e \in Ctx : hold'[d] = hold'[e] /\ hold'[d] # NoBuf => d = e
  BY <1>1 DEF OwnedOnce, TypeLocals
<1>5. QED
  BY <1>1, <1>2, <1>3, <1>4 DEF OwnedOnce

LEMMA PostOwn ==
  ASSUME RingInv, OwnedOnce, NEW c \in Ctx, Post(c)
  PROVE  OwnedOnce'
<1>1. /\ hold[c] \in Buf /\ hold[c] # NoBuf /\ hold[c] \in Held
      /\ bdBuf[refill] = NoBuf /\ refill \in Slot /\ TypeLocals /\ TypeRing
  BY BufAssumption DEF RingInv, TypeOK, HoldOK, Holding, Post, At, CanPost,
     TypeLocals, TypeRing, Held
<1>2. Held' = Held \ {hold[c]} /\ Posted' = Posted \cup {hold[c]}
  BY <1>1, HeldDrop, PostedPut DEF Post, OwnedOnce
<1>3. \A d, e \in Ctx : hold'[d] = hold'[e] /\ hold'[d] # NoBuf => d = e
  BY <1>1 DEF Post, OwnedOnce, TypeLocals
<1>4. \A i, j \in Slot : bdBuf'[i] = bdBuf'[j] /\ bdBuf'[i] # NoBuf => i = j
  BY <1>1 DEF Post, OwnedOnce, Posted, TypeRing
<1>5. QED
  BY <1>1, <1>2, <1>3, <1>4 DEF OwnedOnce, Post, pools

LEMMA PollTakeOwn ==
  ASSUME RingInv, OwnedOnce, NEW c \in Ctx, PollTake(c)
  PROVE  OwnedOnce'
<1>1. /\ hold[c] = NoBuf /\ bdBuf[consume] # NoBuf /\ bdBuf[consume] \in Buf
      /\ consume \in Slot /\ bdBuf[consume] \in Posted /\ TypeLocals /\ TypeRing
  BY BufAssumption DEF RingInv, TypeOK, HoldOK, Holding, PollTake, At,
     TypeLocals, TypeRing, Posted
<1>2. /\ Held' = Held \cup {bdBuf[consume]}
      /\ Posted' = Posted \ {bdBuf[consume]}
  BY <1>1, HeldTake, PostedTake DEF PollTake, OwnedOnce
<1>3. \A d, e \in Ctx : hold'[d] = hold'[e] /\ hold'[d] # NoBuf => d = e
  BY <1>1 DEF PollTake, OwnedOnce, Held, TypeLocals
<1>4. \A i, j \in Slot : bdBuf'[i] = bdBuf'[j] /\ bdBuf'[i] # NoBuf => i = j
  BY <1>1 DEF PollTake, OwnedOnce, TypeRing
<1>5. QED
  BY <1>1, <1>2, <1>3, <1>4 DEF OwnedOnce, PollTake, pools

LEMMA RecoverOwn ==
  ASSUME RingInv, OwnedOnce, WqRecover
  PROVE  OwnedOnce'
<1>1. Posted' = {} /\ \A i \in Slot : bdBuf'[i] = NoBuf
  BY DEF WqRecover, Posted
<1>2. Held' = Held /\ hold' = hold /\ free' = free \cup Posted
      /\ UNCHANGED <<ready, stack>>
  BY DEF WqRecover, Held
<1>3. QED
  BY <1>1, <1>2 DEF OwnedOnce

LEMMA RefillOwn ==
  ASSUME RingInv, OwnedOnce, NEW c \in Ctx, Refill(c)
  PROVE  OwnedOnce'
<1>1. CASE Pop(c)
  <2>1. PICK b \in free : free' = free \ {b} /\ hold' = [hold EXCEPT ![c] = b]
    BY <1>1 DEF Pop
  <2>2. ready' = ready \ {b} /\ stack' = stack \ {b} /\ bdBuf' = bdBuf
        /\ pc[c] \notin Holding
    BY <1>1 DEF Pop, OwnedOnce, ring, At, Holding
  <2>3. QED
    BY <2>1, <2>2, OwnTake
<1>2. CASE Post(c)
  BY <1>2, PostOwn
<1>3. CASE PutBack(c) \/ PutFree(c)
  BY <1>3, OwnGive DEF PutBack, PutFree, At, Holding, ring
<1>4. CASE \/ PopEmpty(c) \/ PostRefused(c) \/ PostCount(c) \/ PostUncount(c)
           \/ UpdateTail(c) \/ Give(c)
  BY <1>4, OwnKept DEF PopEmpty, PostRefused, PostCount, PostUncount, UpdateTail,
     Give, ring
<1>5. QED
  BY <1>1, <1>2, <1>3, <1>4 DEF Refill

LEMMA PollOwn ==
  ASSUME RingInv, OwnedOnce, NEW c \in Ctx, Poll(c)
  PROVE  OwnedOnce'
<1>1. CASE PollTake(c)
  BY <1>1, PollTakeOwn
<1>2. CASE PollReady(c)
  BY <1>2, OwnGive DEF PollReady, At, Holding, ring
<1>3. CASE \/ PollIdle(c) \/ PollOrphan(c) \/ PollUncount(c)
           \/ PollIntercept(c) \/ PollCount(c)
  BY <1>3, OwnKept DEF PollIdle, PollOrphan, PollUncount, PollIntercept, PollCount,
     ring
<1>4. QED
  BY <1>1, <1>2, <1>3 DEF Poll

LEMMA WorkerOwn ==
  ASSUME RingInv, OwnedOnce, Worker
  PROVE  OwnedOnce'
<1>1. CASE WorkerGet
  <2>1. PICK b \in ready :
          ready' = ready \ {b} /\ hold' = [hold EXCEPT !["rxt"] = b]
    BY <1>1 DEF WorkerGet
  <2>2. free' = free \ {b} /\ stack' = stack \ {b} /\ bdBuf' = bdBuf
        /\ pc["rxt"] \notin Holding
    BY <1>1 DEF WorkerGet, OwnedOnce, ring, At, Holding
  <2>3. QED
    BY <2>1, <2>2, OwnTake DEF Ctx
<1>2. CASE RecvKept
  BY <1>2, OwnGive DEF RecvKept, At, Holding, ring, Ctx
<1>3. CASE \/ WorkerUncount \/ WorkerCount \/ WorkerRelease
           \/ WorkerZeroCopy \/ WorkerHandOff \/ RecvFreed
  BY <1>3, OwnKept DEF WorkerUncount, WorkerCount, WorkerRelease, WorkerZeroCopy,
     WorkerHandOff, RecvFreed, ring
<1>4. CASE Refill("rxt")
  BY <1>4, RefillOwn DEF Ctx
<1>5. QED
  BY <1>1, <1>2, <1>3, <1>4 DEF Worker

LEMMA AppOwn ==
  ASSUME RingInv, OwnedOnce, NEW c \in Apps, App(c)
  PROVE  OwnedOnce'
<1>1. CASE AppFree(c)
  <2>1. PICK b \in stack : stack' = stack \ {b} /\ hold' = [hold EXCEPT ![c] = b]
    BY <1>1 DEF AppFree
  <2>2. free' = free \ {b} /\ ready' = ready \ {b} /\ bdBuf' = bdBuf
        /\ pc[c] \notin Holding
    BY <1>1 DEF AppFree, OwnedOnce, ring, At, Holding
  <2>3. QED
    BY <2>1, <2>2, OwnTake DEF Ctx
<1>2. CASE Refill(c)
  BY <1>2, RefillOwn DEF Ctx
<1>3. QED
  BY <1>1, <1>2 DEF App

LEMMA StepOwn == RingInv /\ OwnedOnce /\ [Next]_vars => OwnedOnce'
<1> SUFFICES ASSUME RingInv, OwnedOnce, [Next]_vars PROVE OwnedOnce'
  OBVIOUS
<1>1. CASE Isr
  <2>1. CASE IsrRead \/ IsrAck
    BY <2>1, OwnKept DEF IsrRead, IsrAck, ring
  <2>2. QED
    BY <1>1, <2>1, PollOwn, RefillOwn DEF Isr, Ctx
<1>2. CASE WqPoll
  BY <1>2, OwnKept DEF WqPoll, ring
<1>3. CASE WqRecover
  BY <1>3, RecoverOwn
<1>4. CASE WqStep \/ Boot
  <2>1. CASE \E c \in {"wq", "boot"} : Arm(c) \/ IrqEnable(c)
    BY <2>1, OwnKept DEF Arm, IrqEnable, ring
  <2>2. CASE RecoverClear
    BY <2>2, OwnKept DEF RecoverClear, ring
  <2>3. QED
    BY <1>4, <2>1, <2>2, PollOwn, RefillOwn DEF WqStep, Boot, Ctx
<1>5. CASE Worker
  BY <1>5, WorkerOwn
<1>6. CASE \E c \in Apps : App(c)
  BY <1>6, AppOwn
<1>7. CASE Engine
  BY <1>7, OwnKept DEF Engine, EngineComplete, EngineBadDescriptor, EngineFault,
     ring, locals
<1>8. CASE UNCHANGED vars
  BY <1>8, OwnKept DEF vars, ring, locals
<1>9. QED
  BY <1>1, <1>2, <1>3, <1>4, <1>5, <1>6, <1>7, <1>8 DEF Next

(* No RX buffer is ever in two places and none is ever lost, whatever the  *)
(* interleaving of interrupt, work queue, worker and application threads,  *)
(* and whatever the engine does: the driver never hands the engine, or the *)
(* stack, a buffer that somebody else still has.                           *)
THEOREM OwnershipCorrect == Spec => []OwnedOnce
<1>1. Init => OwnedOnce
  BY DEF Init, OwnedOnce, Posted, Held
<1>2. RingInv /\ OwnedOnce /\ [Next]_vars => OwnedOnce'
  BY StepOwn
<1>3. QED
  BY <1>1, <1>2, RingInvariant, PTL DEF Spec

=============================================================================
