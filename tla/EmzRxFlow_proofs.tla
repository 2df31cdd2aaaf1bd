-------------------------- MODULE EmzRxFlow_proofs --------------------------
(***************************************************************************)
(* Proofs about the direct RX ring that need to know who will act next:    *)
(* what a context's program counter and locals promise, what the engine    *)
(* still has to do, and how many contexts are where.  For every ring size, *)
(* every limit and every finite set of threads.                            *)
(***************************************************************************)
EXTENDS EmzRxRing_proofs

Refilling == {"pop", "post", "acct", "uncount", "putback", "tail"}
Releasing == {"give", "put"}
Polling == {"poll", "class", "route", "enqueue"}

(* What the worker does outside a refill.                                   *)
WorkerStep ==
  \/ WorkerGet \/ WorkerUncount \/ WorkerCount \/ WorkerRelease
  \/ WorkerZeroCopy \/ WorkerHandOff \/ RecvKept \/ RecvFreed

InArm(c) == pc[c] = "arm" \/ ret[c] = "arm"

(* A context's locals are live only between where they are set and read.    *)
RetOK == \A c \in Ctx : ret[c] # "idle" => pc[c] \in Refilling \cup Releasing
QueuedOK == \A c \in Ctx : queued[c] => pc[c] \in Refilling
CompletedOK == \A c \in Ctx : completed[c] => pc[c] \in Polling \/ ret[c] = "poll"

(* The engine is held in reset by the context that is about to arm it.      *)
ArmOK ==
  /\ \A c \in Ctx : InArm(c) => c \in {"wq", "boot"} /\ eng = "reset"
  /\ pc["boot"] = "idle" \/ pc["wq"] = "idle"
  /\ eng = "reset" <=> ~started
  /\ ~started => InArm("wq") \/ InArm("boot")

ResetOK == eng = "reset" => done = {} /\ (unpub => posted > 0)

CtlInv == RetOK /\ QueuedOK /\ CompletedOK /\ ArmOK /\ ResetOK

LEMMA CtlInit == Init => CtlInv
BY DEF Init, CtlInv, RetOK, QueuedOK, CompletedOK, ArmOK, ResetOK, InArm, Refilling,
   Releasing, Polling, Ctx

(* Outside those places they are dead.                                      *)
LEMMA LocalsDead ==
  ASSUME CtlInv, NEW c \in Ctx, pc[c] \notin Refilling \cup Releasing
  PROVE  /\ ret[c] = "idle" /\ ~queued[c]
         /\ pc[c] \notin Polling => ~completed[c]
BY DEF CtlInv, RetOK, QueuedOK, CompletedOK

(* CtlInv holds through each group of actions: a refill of any context,     *)
LEMMA RefillCtl ==
  ASSUME RingInv, CtlInv, NEW c \in Ctx, Refill(c)
  PROVE  CtlInv'
<1> USE DEF RingInv, TypeOK, CtlInv, At, Goto, Refill, Pop, PopEmpty, Post,
       PostRefused, PostCount, PostUncount, PutBack, UpdateTail, Give, PutFree,
       RefillEnd, Return,
       WriteTail, StartRefill
<1>1. TypeLocals /\ {"isr", "wq", "rxt", "boot"} \subseteq Ctx
  BY DEF Ctx
<1>2. RetOK'
  BY <1>1 DEF RetOK, Refilling, Releasing, Polling, TypeLocals, locals
<1>3. QueuedOK'
  BY <1>1 DEF QueuedOK, Refilling, Releasing, Polling, TypeLocals, locals
<1>4. CompletedOK'
  BY <1>1 DEF CompletedOK, Refilling, Releasing, Polling, TypeLocals, locals
<1>5. ArmOK'
  <2>1. \A d \in Ctx : InArm(d)' => InArm(d)
    BY <1>1 DEF InArm, TypeLocals
  <2>2. InArm(c) => InArm(c)'
    BY <1>1 DEF InArm, TypeLocals
  <2>3. \A d \in Ctx \ {c} : pc'[d] = pc[d] /\ ret'[d] = ret[d]
    BY <1>1 DEF TypeLocals
  <2>4. pc[c] # "idle" /\ UNCHANGED <<eng, started>>
    BY DEF engine
  <2>5. QED
    BY <1>1, <2>1, <2>2, <2>3, <2>4 DEF ArmOK, InArm
<1>6. ResetOK'
  BY DEF ResetOK, engine, ring, TypeRing
<1>7. QED
  BY <1>2, <1>3, <1>4, <1>5, <1>6

(* a poll of the handler or the work queue,                                 *)
LEMMA PollCtl ==
  ASSUME RingInv, CtlInv, NEW c \in {"isr", "wq"}, Poll(c)
  PROVE  CtlInv'
<1> USE DEF RingInv, TypeOK, CtlInv, At, Goto, Poll, PollTake, PollIdle, PollOrphan,
       PollUncount, PollIntercept, PollCount, PollReady, PollEnd, PollNext,
       StartRefill, RequestRecover
<1>1. TypeLocals /\ {"isr", "wq", "rxt", "boot"} \subseteq Ctx
  BY DEF Ctx
<1>2. RetOK'
  BY <1>1 DEF RetOK, Refilling, Releasing, Polling, TypeLocals, locals
<1>3. QueuedOK'
  BY <1>1 DEF QueuedOK, Refilling, Releasing, Polling, TypeLocals, locals
<1>4. CompletedOK'
  <2>1. \A d \in Ctx \ {c} : pc'[d] = pc[d] /\ ret'[d] = ret[d] /\ completed'[d] = completed[d]
    BY <1>1 DEF TypeLocals
  <2>2. completed'[c] => pc'[c] \in Polling \/ ret'[c] = "poll"
    BY <1>1 DEF Polling, TypeLocals
  <2>3. QED
    BY <1>1, <2>1, <2>2 DEF CompletedOK
<1>5. ArmOK'
  <2>1. pc[c] \in Polling /\ ret[c] = "idle" /\ UNCHANGED <<eng, started>>
    BY <1>1, LocalsDead DEF Refilling, Releasing, Polling, engine
  <2>2. \A d \in Ctx \ {c} : pc'[d] = pc[d] /\ ret'[d] = ret[d]
    BY <1>1 DEF TypeLocals
  <2>3. ~InArm(c) /\ ~InArm(c)'
    BY <1>1, <2>1 DEF InArm, TypeLocals
  <2>4. QED
    BY <1>1, <2>1, <2>2, <2>3 DEF ArmOK, InArm
<1>6. ResetOK'
  BY DEF ResetOK, engine, ring, TypeRing
<1>7. QED
  BY <1>2, <1>3, <1>4, <1>5, <1>6

(* the handler's entry, the work item's, and what the worker does,          *)
LEMMA WorkCtl ==
  ASSUME RingInv, CtlInv, IsrRead \/ IsrAck \/ WqPoll \/ WorkerStep
  PROVE  CtlInv'
<1> USE DEF RingInv, TypeOK, CtlInv, At, Goto, IsrRead, IsrAck, WqPoll, WorkerStep,
       WorkerGet, WorkerUncount, WorkerCount,
       WorkerRelease, WorkerZeroCopy, WorkerHandOff, RecvKept, RecvFreed, RequestRecover
<1>1. TypeLocals /\ {"isr", "wq", "rxt", "boot"} \subseteq Ctx
  BY DEF Ctx
<1>2. RetOK'
  BY <1>1 DEF RetOK, Refilling, Releasing, Polling, TypeLocals, locals
<1>3. QueuedOK'
  BY <1>1 DEF QueuedOK, Refilling, Releasing, Polling, TypeLocals, locals
<1>4. CompletedOK'
  BY <1>1, LocalsDead DEF CompletedOK, Refilling, Releasing, Polling, TypeLocals
<1>5. ArmOK'
  BY <1>1 DEF ArmOK, InArm, TypeLocals, engine, CanRun, Busy, Coop
<1>6. ResetOK'
  BY DEF ResetOK, engine, ring, TypeRing
<1>7. QED
  BY <1>2, <1>3, <1>4, <1>5, <1>6

(* a thread that frees a packet,                                            *)
LEMMA AppCtl ==
  ASSUME RingInv, CtlInv, NEW c \in Apps, AppFree(c)
  PROVE  CtlInv'
<1> USE DEF RingInv, TypeOK, CtlInv, At, Goto, AppFree
<1>1. TypeLocals /\ {"isr", "wq", "rxt", "boot"} \subseteq Ctx
  BY DEF Ctx
<1>2. RetOK'
  BY <1>1 DEF RetOK, Refilling, Releasing, Polling, TypeLocals, locals
<1>3. QueuedOK'
  BY <1>1 DEF QueuedOK, Refilling, Releasing, Polling, TypeLocals, locals
<1>4. CompletedOK'
  <2>1. c \in Ctx /\ pc[c] = "idle"
    BY DEF Ctx
  <2>2. ~completed[c] /\ completed' = completed
    BY <2>1, LocalsDead DEF Refilling, Releasing, Polling
  <2>3. \A d \in Ctx \ {c} : pc'[d] = pc[d] /\ ret'[d] = ret[d]
    BY <1>1 DEF TypeLocals
  <2>4. QED
    BY <2>1, <2>2, <2>3 DEF CompletedOK
<1>5. ArmOK'
  <2>1. c \in Ctx /\ c \notin {"wq", "boot"} /\ UNCHANGED <<eng, started>>
    BY AppsAssumption DEF Ctx, engine
  <2>2. ~InArm(c)' /\ \A d \in Ctx \ {c} : pc'[d] = pc[d] /\ ret'[d] = ret[d]
    BY <1>1, <2>1 DEF InArm, TypeLocals
  <2>3. QED
    BY <1>1, <2>1, <2>2 DEF ArmOK, InArm
<1>6. ResetOK'
  BY DEF ResetOK, engine, ring, TypeRing
<1>7. QED
  BY <1>2, <1>3, <1>4, <1>5, <1>6

(* the recovery, which puts the engine in reset,                            *)
LEMMA RecoverCtl ==
  ASSUME RingInv, CtlInv, WqRecover \/ RecoverClear
  PROVE  CtlInv'
<1> USE DEF RingInv, TypeOK, CtlInv, At, Goto, WqRecover, RecoverClear,
       StartRefill, ResetIndices, CanRun, Busy, Coop
<1>1. TypeLocals /\ {"isr", "wq", "rxt", "boot"} \subseteq Ctx
  BY DEF Ctx
<1>2. RetOK'
  BY <1>1 DEF RetOK, Refilling, Releasing, Polling, TypeLocals, locals
<1>3. QueuedOK'
  BY <1>1 DEF QueuedOK, Refilling, Releasing, Polling, TypeLocals, locals
<1>4. CompletedOK'
  <2>1. ~completed["wq"] /\ completed' = completed
    BY <1>1, LocalsDead DEF Refilling, Releasing, Polling
  <2>2. QED
    BY <1>1, <2>1 DEF CompletedOK, TypeLocals
<1>5. ArmOK'
  BY <1>1 DEF ArmOK, InArm, TypeLocals, engine
<1>6. ResetOK'
  BY DEF ResetOK, engine, ring, TypeRing
<1>7. QED
  BY <1>2, <1>3, <1>4, <1>5, <1>6

(* the arm, which takes it out of reset, and the interrupt enable,          *)
LEMMA ArmCtl ==
  ASSUME RingInv, CtlInv, NEW c \in {"wq", "boot"}, Arm(c) \/ IrqEnable(c)
  PROVE  CtlInv'
<1> USE DEF RingInv, TypeOK, CtlInv, At, Goto, Arm, IrqEnable, ArmTail
<1>1. TypeLocals /\ {"isr", "wq", "rxt", "boot"} \subseteq Ctx
  BY DEF Ctx
<1>2. RetOK'
  BY <1>1 DEF RetOK, Refilling, Releasing, Polling, TypeLocals, locals
<1>3. QueuedOK'
  BY <1>1 DEF QueuedOK, Refilling, Releasing, Polling, TypeLocals, locals
<1>4. CompletedOK'
  BY <1>1 DEF CompletedOK, Refilling, Releasing, Polling, TypeLocals, locals
<1>5. ArmOK'
  BY <1>1, LocalsDead DEF ArmOK, InArm, TypeLocals, engine, Refilling, Releasing,
     Polling
<1>6. ResetOK'
  BY DEF ResetOK, engine, ring, TypeRing
<1>7. QED
  BY <1>2, <1>3, <1>4, <1>5, <1>6

(* and the engine's own steps.                                              *)
LEMMA EngineCtl ==
  ASSUME RingInv, CtlInv, Engine
  PROVE  CtlInv'
<1> USE DEF RingInv, TypeOK, CtlInv, At, Goto, Engine, EngineComplete,
       EngineBadDescriptor, EngineFault
<1>1. TypeLocals /\ {"isr", "wq", "rxt", "boot"} \subseteq Ctx
  BY DEF Ctx
<1>2. RetOK'
  BY <1>1 DEF RetOK, Refilling, Releasing, Polling, TypeLocals, locals
<1>3. QueuedOK'
  BY <1>1 DEF QueuedOK, Refilling, Releasing, Polling, TypeLocals, locals
<1>4. CompletedOK'
  BY <1>1 DEF CompletedOK, Refilling, Releasing, Polling, TypeLocals, locals
<1>5. ArmOK'
  BY <1>1 DEF ArmOK, InArm, TypeLocals, engine, locals
<1>6. ResetOK'
  BY DEF ResetOK, engine, ring, TypeRing, locals
<1>7. QED
  BY <1>2, <1>3, <1>4, <1>5, <1>6

LEMMA StepCtl == RingInv /\ CtlInv /\ [Next]_vars => CtlInv'
<1> SUFFICES ASSUME RingInv, CtlInv, [Next]_vars PROVE CtlInv'
  OBVIOUS
<1>1. CASE Isr
  BY <1>1, WorkCtl, PollCtl, RefillCtl DEF Isr, Ctx
<1>2. CASE WqPoll \/ Worker
  BY <1>2, WorkCtl, RefillCtl DEF Worker, WorkerStep, Ctx
<1>3. CASE WqRecover
  BY <1>3, RecoverCtl
<1>4. CASE WqStep
  BY <1>4, PollCtl, RefillCtl, ArmCtl, RecoverCtl DEF WqStep, Ctx
<1>5. CASE Boot
  BY <1>5, RefillCtl, ArmCtl DEF Boot, Ctx
<1>6. CASE \E c \in Apps : App(c)
  BY <1>6, AppCtl, RefillCtl DEF App, Ctx
<1>7. CASE Engine
  BY <1>7, EngineCtl
<1>8. CASE UNCHANGED vars
  BY <1>8 DEF CtlInv, RetOK, QueuedOK, CompletedOK, ArmOK, InArm, ResetOK,
     vars, ring, locals, engine
<1>9. QED
  BY <1>1, <1>2, <1>3, <1>4, <1>5, <1>6, <1>7, <1>8 DEF Next

(* RingInv, OwnedOnce and CtlInv hold together in every state.             *)
Ctl == RingInv /\ OwnedOnce /\ CtlInv

LEMMA CtlAlways == Spec => []Ctl
<1>1. Spec => []CtlInv
  BY CtlInit, StepCtl, RingInvariant, PTL DEF Spec
<1>2. RingInv /\ OwnedOnce /\ CtlInv => Ctl
  BY DEF Ctl
<1>3. QED
  BY <1>1, <1>2, RingInvariant, OwnershipCorrect, PTL

----------------------------------------------------------------------------
(* CompletionNoticed: a completed descriptor that nobody is about to poll   *)
(* still has its interrupt raised.                                          *)

WillPoll(c) == pc[c] \in Polling \/ ret[c] = "poll"

NoticeOK ==
  eng = "run" /\ consume \in done /\ bdBuf[consume] # NoBuf =>
    "ioc" \in irq \/ WillPoll("isr") \/ WillPoll("wq")

(* A step that neither completes nor polls, and forgets no polling.         *)
LEMMA NoticeKept ==
  ASSUME NoticeOK, UNCHANGED <<eng, consume, irq, done, bdBuf>>,
         \A c \in {"isr", "wq"} : WillPoll(c) => WillPoll(c)'
  PROVE  NoticeOK'
BY DEF NoticeOK

LEMMA RefillNotice ==
  ASSUME Ctl, NoticeOK, NEW c \in Ctx, Refill(c)
  PROVE  NoticeOK'
<1>1. TypeLocals /\ {"isr", "wq", "rxt", "boot"} \subseteq Ctx
  BY DEF Ctl, RingInv, TypeOK, Ctx
<1>2. \A d \in Ctx : WillPoll(d) => WillPoll(d)'
  BY <1>1 DEF WillPoll, Polling, TypeLocals, Refill, Pop, PopEmpty, Post, PostRefused,
     PostCount, PostUncount, PutBack, UpdateTail, Give, PutFree, RefillEnd, Return,
     StartRefill, At, Goto
<1>3. CASE Post(c)
  <2>1. UNCHANGED <<eng, consume, irq>> /\ done' = done \ {refill}
        /\ \A i \in Slot \ {refill} : bdBuf'[i] = bdBuf[i]
    BY <1>3 DEF Post, Ctl, RingInv, TypeOK, TypeRing
  <2>2. consume \in Slot
    BY DEF Ctl, RingInv, TypeOK, TypeRing
  <2>3. QED
    BY <1>1, <1>2, <2>1, <2>2 DEF NoticeOK
<1>4. CASE ~Post(c)
  <2>1. UNCHANGED <<eng, consume, irq, done, bdBuf>>
    BY <1>4 DEF Refill, Pop, PopEmpty, PostRefused, PostCount, PostUncount, PutBack,
       UpdateTail, Give, PutFree, WriteTail, engine, ring
  <2>2. QED
    BY <1>1, <1>2, <2>1, NoticeKept
<1>5. QED
  BY <1>3, <1>4

(* A poll ends only at a slot that is not complete, or not the driver's.    *)
LEMMA PollNotice ==
  ASSUME Ctl, NoticeOK, NEW c \in {"isr", "wq"}, Poll(c)
  PROVE  NoticeOK'
<1>1. TypeLocals /\ c \in Ctx
  BY DEF Ctl, RingInv, TypeOK, Ctx
<1>2. CASE PollTake(c) \/ PollUncount(c) \/ PollIntercept(c) \/ PollCount(c) \/ PollReady(c)
  <2>1. WillPoll(c)'
    BY <1>1, <1>2 DEF PollTake, PollUncount, PollIntercept, PollCount, PollReady,
       PollNext, WillPoll, Polling, At, Goto, TypeLocals
  <2>2. QED
    BY <2>1 DEF NoticeOK
<1>3. CASE PollIdle(c) \/ PollOrphan(c)
  <2>1. UNCHANGED <<consume, done, bdBuf>>
        /\ (consume \notin done \/ bdBuf[consume] = NoBuf)
    BY <1>3 DEF PollIdle, PollOrphan, ring
  <2>2. QED
    BY <2>1 DEF NoticeOK
<1>4. QED
  BY <1>2, <1>3 DEF Poll

LEMMA OtherNotice ==
  ASSUME Ctl, NoticeOK,
         \/ IsrRead \/ IsrAck \/ WqPoll \/ WorkerStep \/ RecoverClear
         \/ \E c \in Apps : AppFree(c)
         \/ \E c \in {"wq", "boot"} : IrqEnable(c)
  PROVE  NoticeOK'
<1>1. TypeLocals /\ {"isr", "wq", "rxt", "boot"} \subseteq Ctx
  BY DEF Ctl, RingInv, TypeOK, Ctx
<1>2. CASE IsrAck
  <2>1. WillPoll("isr")'
    BY <1>1, <1>2 DEF IsrAck, WillPoll, Polling, Goto, TypeLocals
  <2>2. QED
    BY <2>1 DEF NoticeOK
<1>3. CASE ~IsrAck
  <2>1. UNCHANGED <<eng, consume, irq, done, bdBuf>>
    BY <1>3 DEF IsrRead, WqPoll, WorkerStep, WorkerGet, WorkerUncount, WorkerCount,
       WorkerRelease, WorkerZeroCopy, WorkerHandOff, RecvKept, RecvFreed, RecoverClear,
       AppFree, IrqEnable, engine, ring
  <2>2. \A c \in {"isr", "wq"} : WillPoll(c) => WillPoll(c)'
    <3>1. ret["wq"] = "idle" \/ pc["wq"] \in Refilling \cup Releasing
      BY <1>1 DEF Ctl, CtlInv, RetOK
    <3>2. ret["isr"] = "idle" \/ pc["isr"] \in Refilling \cup Releasing
      BY <1>1 DEF Ctl, CtlInv, RetOK
    <3>3. QED
      BY <1>1, <1>3, <3>1, <3>2, AppsAssumption DEF WillPoll, TypeLocals, IsrRead,
         WqPoll, WorkerStep, WorkerGet, WorkerUncount, WorkerCount, WorkerRelease,
         WorkerZeroCopy, WorkerHandOff, RecvKept, RecvFreed, RecoverClear, AppFree,
         IrqEnable, At, Goto, Refilling, Releasing, Polling
  <2>3. QED
    BY <2>1, <2>2, NoticeKept
<1>4. QED
  BY <1>2, <1>3

LEMMA StepNotice == Ctl /\ NoticeOK /\ [Next]_vars => NoticeOK'
<1> SUFFICES ASSUME Ctl, NoticeOK, [Next]_vars PROVE NoticeOK'
  OBVIOUS
<1>1. CASE Isr
  BY <1>1, OtherNotice, PollNotice, RefillNotice DEF Isr, Ctx
<1>2. CASE WqPoll \/ Worker
  BY <1>2, OtherNotice, RefillNotice DEF Worker, WorkerStep, Ctx
<1>3. CASE WqRecover
  BY <1>3 DEF WqRecover, NoticeOK
<1>4. CASE WqStep \/ Boot
  <2>1. CASE \E c \in {"wq", "boot"} : Arm(c)
    <3>1. done' = {}
      BY <2>1 DEF Arm, Ctl, CtlInv, ArmOK, ResetOK, InArm, At, ring, Ctx
    <3>2. QED
      BY <3>1 DEF NoticeOK
  <2>2. QED
    BY <1>4, <2>1, PollNotice, RefillNotice, OtherNotice DEF WqStep, Boot, Ctx
<1>5. CASE \E c \in Apps : App(c)
  BY <1>5, OtherNotice, RefillNotice DEF App, Ctx
<1>6. CASE Engine
  BY <1>6 DEF Engine, EngineComplete, EngineBadDescriptor, EngineFault, NoticeOK,
     WillPoll, locals
<1>7. CASE UNCHANGED vars
  BY <1>7 DEF vars, ring, locals, engine, NoticeOK, WillPoll
<1>8. QED
  BY <1>1, <1>2, <1>3, <1>4, <1>5, <1>6, <1>7 DEF Next

(* A completion never waits for the 1 ms poll alone: although the handler   *)
(* acknowledges the interrupt before it polls, whatever completes after     *)
(* its poll has passed raises it again (emz_rx_direct_isr).                 *)
THEOREM CompletionCorrect == Spec => []CompletionNoticed
<1>1. Init => NoticeOK
  BY DEF Init, NoticeOK
<1>2. Ctl /\ NoticeOK => CompletionNoticed
  BY DEF Ctl, CtlInv, RetOK, NoticeOK, CompletionNoticed, WillPoll, Busy, Refilling,
     Releasing, Polling, Ctx
<1>3. QED
  BY <1>1, <1>2, StepNotice, CtlAlways, PTL DEF Spec

----------------------------------------------------------------------------
(* PublishedWhenIdle: a posted descriptor that the engine has not been told *)
(* of has a context on its way to the tail write, or the arm ahead.         *)

Publishing(c) == queued[c] \/ pc[c] \in {"acct", "uncount", "tail"}

PublishOK == unpub => ~started \/ \E c \in Ctx : Publishing(c)

LEMMA PublishKept ==
  ASSUME PublishOK, UNCHANGED <<started, unpub>>,
         \A c \in Ctx : Publishing(c) => Publishing(c)'
  PROVE  PublishOK'
BY DEF PublishOK

LEMMA RefillPublish ==
  ASSUME Ctl, PublishOK, NEW c \in Ctx, Refill(c)
  PROVE  PublishOK'
<1>1. TypeLocals
  BY DEF Ctl, RingInv, TypeOK
<1>2. CASE Post(c)
  <2>1. Publishing(c)'
    BY <1>1, <1>2 DEF Post, Publishing, Goto, TypeLocals
  <2>2. QED
    BY <2>1 DEF PublishOK
<1>3. CASE UpdateTail(c)
  BY <1>3 DEF UpdateTail, WriteTail, engine, PublishOK
<1>4. CASE \/ Pop(c) \/ PopEmpty(c) \/ PostRefused(c) \/ PostCount(c)
          \/ PostUncount(c) \/ PutBack(c) \/ Give(c) \/ PutFree(c)
  <2>1. UNCHANGED <<started, unpub>>
    BY <1>4 DEF Pop, PopEmpty, PostRefused, PostCount, PostUncount, PutBack, Give,
       PutFree, engine
  <2>2. pc[c] \in Releasing => ~queued[c]
    BY DEF Ctl, CtlInv, QueuedOK, Refilling, Releasing, Polling
  <2>3. Publishing(c) => Publishing(c)'
    BY <1>1, <1>4, <2>2 DEF Publishing, Releasing, Pop, PopEmpty, PostRefused,
       PostCount, PostUncount, PutBack, Give, PutFree, RefillEnd, Return, StartRefill,
       At, Goto, TypeLocals
  <2>4. \A d \in Ctx \ {c} : pc'[d] = pc[d] /\ queued'[d] = queued[d]
    BY <1>1, <1>4 DEF Pop, PopEmpty, PostRefused, PostCount, PostUncount,
       PutBack, Give, PutFree, RefillEnd, Return, StartRefill, At, Goto, TypeLocals
  <2>5. QED
    BY <2>1, <2>3, <2>4, PublishKept DEF Publishing
<1>5. QED
  BY <1>2, <1>3, <1>4 DEF Refill

LEMMA PollPublish ==
  ASSUME Ctl, PublishOK, NEW c \in Ctx, Poll(c)
  PROVE  PublishOK'
<1>1. TypeLocals /\ ~Publishing(c)
  BY DEF Ctl, RingInv, TypeOK, CtlInv, QueuedOK, Refilling, Releasing, Polling,
     Publishing, Poll, PollTake, PollIdle, PollOrphan, PollUncount, PollIntercept,
     PollCount, PollReady, At
<1>2. UNCHANGED <<started, unpub>>
  BY DEF Poll, PollTake, PollIdle, PollOrphan, PollUncount, PollIntercept, PollCount,
     PollReady, engine
<1>3. \A d \in Ctx \ {c} : pc'[d] = pc[d] /\ queued'[d] = queued[d]
  BY <1>1 DEF Poll, PollTake, PollIdle, PollOrphan, PollUncount, PollIntercept,
     PollCount, PollReady, PollEnd, PollNext, StartRefill, Goto, TypeLocals
<1>4. QED
  BY <1>1, <1>2, <1>3, PublishKept DEF Publishing

LEMMA OtherPublish ==
  ASSUME Ctl, PublishOK,
         \/ IsrRead \/ IsrAck \/ WqPoll \/ WorkerStep \/ RecoverClear
         \/ \E c \in Apps : AppFree(c)
         \/ \E c \in {"wq", "boot"} : IrqEnable(c)
  PROVE  PublishOK'
<1>1. TypeLocals
  BY DEF Ctl, RingInv, TypeOK
<1>2. UNCHANGED <<started, unpub, queued>>
  BY DEF IsrRead, IsrAck, WqPoll, WorkerStep, WorkerGet, WorkerUncount, WorkerCount,
     WorkerRelease, WorkerZeroCopy, WorkerHandOff, RecvKept, RecvFreed, RecoverClear,
     AppFree, IrqEnable, engine
<1>3. \A c \in Ctx : pc[c] \in {"acct", "uncount", "tail"} => pc'[c] = pc[c]
  BY <1>1 DEF TypeLocals, IsrRead, IsrAck, WqPoll, WorkerStep, WorkerGet, WorkerUncount,
     WorkerCount, WorkerRelease, WorkerZeroCopy, WorkerHandOff, RecvKept, RecvFreed,
     RecoverClear, AppFree, IrqEnable, At, Goto
<1>4. QED
  BY <1>2, <1>3, PublishKept DEF Publishing

LEMMA StepPublish == Ctl /\ PublishOK /\ [Next]_vars => PublishOK'
<1> SUFFICES ASSUME Ctl, PublishOK, [Next]_vars PROVE PublishOK'
  OBVIOUS
<1>1. CASE Isr
  BY <1>1, OtherPublish, PollPublish, RefillPublish DEF Isr, Ctx
<1>2. CASE WqPoll \/ Worker
  BY <1>2, OtherPublish, RefillPublish DEF Worker, WorkerStep, Ctx
<1>3. CASE WqRecover
  BY <1>3 DEF WqRecover, PublishOK
<1>4. CASE WqStep \/ Boot
  <2>1. CASE \E c \in {"wq", "boot"} : Arm(c)
    <3>1. ~unpub'
      BY <2>1 DEF Arm, ArmTail, Ctl, RingInv, TypeOK, TypeRing, CtlInv, ArmOK, ResetOK,
         InArm, At, Ctx
    <3>2. QED
      BY <3>1 DEF PublishOK
  <2>2. QED
    BY <1>4, <2>1, PollPublish, RefillPublish, OtherPublish DEF WqStep, Boot, Ctx
<1>5. CASE \E c \in Apps : App(c)
  BY <1>5, OtherPublish, RefillPublish DEF App, Ctx
<1>6. CASE Engine
  <2>1. UNCHANGED <<started, unpub, locals>>
    BY <1>6 DEF Engine, EngineComplete, EngineBadDescriptor, EngineFault
  <2>2. QED
    BY <2>1, PublishKept DEF Publishing, locals
<1>7. CASE UNCHANGED vars
  BY <1>7, PublishKept DEF vars, locals, engine, Publishing
<1>8. QED
  BY <1>1, <1>2, <1>3, <1>4, <1>5, <1>6, <1>7 DEF Next

(* When every context has left the driver the ring is started and every     *)
(* posted descriptor has been published, also those posted while it was     *)
(* not started (emz_rx_direct_update_tail's early return).                  *)
THEOREM PublishCorrect == Spec => []PublishedWhenIdle
<1>1. Init => PublishOK
  BY DEF Init, PublishOK
<1>2. Ctl /\ PublishOK => PublishedWhenIdle
  <2> SUFFICES ASSUME Ctl, PublishOK, AllIdle PROVE started /\ ~unpub
    BY DEF PublishedWhenIdle
  <2>1. \A c \in Ctx : pc[c] = "idle" /\ ret[c] = "idle" /\ ~queued[c]
    BY LocalsDead DEF Ctl, AllIdle, Busy, Refilling, Releasing, Polling
  <2>2. started
    BY <2>1 DEF Ctl, CtlInv, ArmOK, InArm, Ctx
  <2>3. QED
    BY <2>1, <2>2 DEF PublishOK, Publishing
<1>3. QED
  BY <1>1, <1>2, StepPublish, CtlAlways, PTL DEF Spec

----------------------------------------------------------------------------
(* The safety half of RecoveryRestarts: the pending flag, the work item and *)
(* the acknowledged error belong together, and the only step that loses a   *)
(* halt is the atomic_clear at the end of a recovery.                       *)

Rebuilding(c) == InArm(c) \/ pc[c] = "irqon"
Serving == Rebuilding("wq") \/ pc["wq"] = "clear"

RequestServed ==
  /\ recoverQ => pending /\ ~Serving
  /\ pending => recoverQ \/ Serving
  /\ Serving => pending
  /\ ~irqOn => Rebuilding("wq") \/ Rebuilding("boot")

HaltOK ==
  /\ pc["isr"] = "ack" /\ "err" \in dmasr => pending
  /\ pc["isr"] # "ack" => dmasr = {}
  /\ "err" \in irq => eng = "halted"

RecoverOK == RequestServed /\ HaltOK

(* What the flag, the item and the interrupt depend on.                     *)
recoverVars == <<pending, recoverQ, dmasr, irqOn, eng, irq>>

LEMMA RecoverKept ==
  ASSUME RecoverOK, UNCHANGED recoverVars,
         Rebuilding("wq")' <=> Rebuilding("wq"), Rebuilding("boot")' <=> Rebuilding("boot"),
         pc'["wq"] = "clear" <=> pc["wq"] = "clear", pc'["isr"] = "ack" <=> pc["isr"] = "ack"
  PROVE  RecoverOK'
BY DEF RecoverOK, RequestServed, HaltOK, Serving, recoverVars

(* A refill stays inside the recovery that called it.                       *)
LEMMA RefillRecover ==
  ASSUME Ctl, RecoverOK, NEW c \in Ctx, Refill(c)
  PROVE  RecoverOK'
<1>1. TypeLocals /\ {"isr", "wq", "rxt", "boot"} \subseteq Ctx
  BY DEF Ctl, RingInv, TypeOK, Ctx
<1>2. UNCHANGED recoverVars
  BY DEF recoverVars, Refill, Pop, PopEmpty, Post, PostRefused, PostCount, PostUncount,
     PutBack, UpdateTail, WriteTail, Give, PutFree, recov, engine
<1>3. \A d \in Ctx \ {c} : pc'[d] = pc[d] /\ ret'[d] = ret[d]
  BY <1>1 DEF Refill, Pop, PopEmpty, Post, PostRefused, PostCount, PostUncount, PutBack,
     UpdateTail, Give, PutFree, RefillEnd, Return, StartRefill, Goto, TypeLocals
<1>4. pc[c] \in Refilling \cup Releasing /\ pc'[c] \notin {"clear", "ack", "irqon"}
  BY <1>1 DEF Refill, Pop, PopEmpty, Post, PostRefused, PostCount, PostUncount, PutBack,
     UpdateTail, Give, PutFree, RefillEnd, Return, StartRefill, At, Goto, TypeLocals,
     Refilling, Releasing, Polling
<1>5. InArm(c)' <=> InArm(c)
  BY <1>1 DEF Refill, Pop, PopEmpty, Post, PostRefused, PostCount, PostUncount, PutBack,
     UpdateTail, Give, PutFree, RefillEnd, Return, StartRefill, At, Goto, TypeLocals,
     InArm
<1>6. \A d \in Ctx : /\ Rebuilding(d)' <=> Rebuilding(d)
                     /\ pc'[d] = "clear" <=> pc[d] = "clear"
                     /\ pc'[d] = "ack" <=> pc[d] = "ack"
  BY <1>3, <1>4, <1>5 DEF Rebuilding, InArm, Refilling, Releasing, Polling
<1>7. QED
  BY <1>1, <1>2, <1>6, RecoverKept

(* The compare-and-swap submits the work item exactly when it sets the flag.*)
LEMMA RequestKeeps ==
  ASSUME RecoverOK, RequestRecover, pending \in BOOLEAN, recoverQ \in BOOLEAN,
         Serving' <=> Serving
  PROVE  /\ pending' /\ (recoverQ' => ~Serving')
         /\ recoverQ' \/ Serving'
<1>1. pending' = TRUE /\ recoverQ' = (recoverQ \/ ~pending)
  BY DEF RequestRecover
<1>2. (recoverQ => ~Serving) /\ (pending => recoverQ \/ Serving) /\ (Serving => pending)
  BY DEF RecoverOK, RequestServed, HaltOK
<1>3. QED
  BY <1>1, <1>2, Zenon

LEMMA PollRecover ==
  ASSUME Ctl, RecoverOK, NEW c \in {"isr", "wq"}, Poll(c)
  PROVE  RecoverOK'
<1>1. TypeLocals /\ {"isr", "wq", "rxt", "boot"} \subseteq Ctx
      /\ pending \in BOOLEAN /\ recoverQ \in BOOLEAN
  BY DEF Ctl, RingInv, TypeOK, TypeEngine, Ctx
<1>2. pc[c] \in Polling /\ ret[c] = "idle"
  <2>1. pc[c] \in Polling
    BY DEF Poll, PollTake, PollIdle, PollOrphan, PollUncount, PollIntercept,
       PollCount, PollReady, At, Polling
  <2>2. QED
    BY <1>1, <2>1, LocalsDead DEF Ctl, Refilling, Releasing, Polling
<1>3. UNCHANGED <<dmasr, irqOn, eng, irq>>
  BY DEF Poll, PollTake, PollIdle, PollOrphan, PollUncount, PollIntercept, PollCount,
     PollReady, engine
<1>4. \A d \in Ctx \ {c} : pc'[d] = pc[d] /\ ret'[d] = ret[d]
  BY <1>1 DEF Poll, PollTake, PollIdle, PollOrphan, PollUncount, PollIntercept,
     PollCount, PollReady, PollEnd, PollNext, StartRefill, Goto, TypeLocals
<1>5. pc'[c] \in Polling \cup {"give", "pop", "idle"} /\ ret'[c] \in {"idle", "poll"}
  BY <1>1, <1>2 DEF Poll, PollTake, PollIdle, PollOrphan, PollUncount, PollIntercept,
     PollCount, PollReady, PollEnd, PollNext, Polling, StartRefill, At, Goto, TypeLocals
<1>6. \A d \in Ctx : /\ Rebuilding(d)' <=> Rebuilding(d)
                     /\ pc'[d] = "clear" <=> pc[d] = "clear"
                     /\ pc'[d] = "ack" <=> pc[d] = "ack"
  BY <1>2, <1>4, <1>5 DEF Rebuilding, InArm, Polling
<1>7. CASE UNCHANGED recov
  BY <1>1, <1>3, <1>6, <1>7, RecoverKept DEF recov, recoverVars
<1>8. CASE RequestRecover
  <2>1. Serving' <=> Serving
    BY <1>1, <1>6 DEF Serving
  <2>2. pending' /\ (recoverQ' => ~Serving') /\ (recoverQ' \/ Serving')
    BY <1>1, <1>8, <2>1, RequestKeeps
  <2>3. QED
    BY <1>1, <1>3, <1>6, <2>2 DEF RecoverOK, RequestServed, HaltOK
<1>9. QED
  BY <1>7, <1>8 DEF Poll, PollTake, PollIdle, PollOrphan, PollUncount, PollIntercept,
     PollCount, PollReady

(* The handler acknowledges a halt only after it has asked for a recovery.  *)
LEMMA IsrRecover ==
  ASSUME Ctl, RecoverOK, IsrRead \/ IsrAck
  PROVE  RecoverOK'
<1>1. TypeLocals /\ {"isr", "wq", "rxt", "boot"} \subseteq Ctx
      /\ pending \in BOOLEAN /\ recoverQ \in BOOLEAN
  BY DEF Ctl, RingInv, TypeOK, TypeEngine, Ctx
<1>2. \A d \in Ctx \ {"isr"} : pc'[d] = pc[d] /\ ret'[d] = ret[d]
  BY <1>1 DEF IsrRead, IsrAck, Goto, TypeLocals
<1>3. /\ Rebuilding("wq")' <=> Rebuilding("wq")
      /\ Rebuilding("boot")' <=> Rebuilding("boot")
      /\ Serving' <=> Serving
  BY <1>1, <1>2 DEF Rebuilding, InArm, Serving
<1>4. CASE IsrRead
  <2>1. /\ pc'["isr"] = "ack" /\ dmasr' = irq /\ UNCHANGED <<irqOn, eng, irq>>
    BY <1>1, <1>4 DEF IsrRead, Goto, TypeLocals, engine
  <2>2. CASE "err" \in irq
    <3>1. RequestRecover
      BY <1>4, <2>2 DEF IsrRead, RecoverOK, HaltOK
    <3>2. pending' /\ (recoverQ' => ~Serving') /\ (recoverQ' \/ Serving')
      BY <1>1, <1>3, <3>1, RequestKeeps
    <3>3. QED
      BY <1>3, <2>1, <3>2 DEF RecoverOK, RequestServed, HaltOK
  <2>3. CASE "err" \notin irq
    <3>1. UNCHANGED <<pending, recoverQ>>
      BY <1>4, <2>3 DEF IsrRead, recov
    <3>2. QED
      BY <1>3, <2>1, <2>3, <3>1 DEF RecoverOK, RequestServed, HaltOK
  <2>4. QED
    BY <2>2, <2>3
<1>5. CASE IsrAck
  <2>1. /\ pc'["isr"] = "poll" /\ dmasr' = {} /\ irq' = irq \ dmasr
        /\ UNCHANGED <<pending, recoverQ, irqOn, eng>>
    BY <1>1, <1>5 DEF IsrAck, Goto, TypeLocals, recov
  <2>2. QED
    BY <1>3, <2>1 DEF RecoverOK, RequestServed, HaltOK
<1>6. QED
  BY <1>4, <1>5

(* What the other contexts do touches none of it.                           *)
LEMMA OtherRecover ==
  ASSUME Ctl, RecoverOK,
         \/ WqPoll \/ WorkerStep
         \/ \E c \in Apps : AppFree(c)
  PROVE  RecoverOK'
<1>1. TypeLocals /\ {"isr", "wq", "rxt", "boot"} \subseteq Ctx
  BY DEF Ctl, RingInv, TypeOK, Ctx
<1>2. UNCHANGED recoverVars
  BY DEF WqPoll, WorkerStep, WorkerGet, WorkerUncount, WorkerCount, WorkerRelease,
     WorkerZeroCopy, WorkerHandOff, RecvKept, RecvFreed, AppFree,
     recoverVars, recov, engine
<1>3. CASE WqPoll
  <2>1. /\ pc["wq"] = "idle" /\ pc'["wq"] = "poll" /\ UNCHANGED ret
        /\ \A d \in Ctx \ {"wq"} : pc'[d] = pc[d]
    BY <1>1, <1>3 DEF WqPoll, At, Goto, TypeLocals
  <2>2. QED
    BY <1>1, <1>2, <2>1, RecoverKept DEF Rebuilding, InArm
<1>4. CASE WorkerStep
  <2>1. \A d \in Ctx \ {"rxt"} : pc'[d] = pc[d] /\ ret'[d] = ret[d]
    BY <1>1, <1>4 DEF WorkerStep, WorkerGet, WorkerUncount, WorkerCount,
       WorkerRelease, WorkerZeroCopy, WorkerHandOff, RecvKept, RecvFreed, Goto,
       TypeLocals
  <2>2. QED
    BY <1>1, <1>2, <2>1, RecoverKept DEF Rebuilding, InArm
<1>5. CASE \E c \in Apps : AppFree(c)
  <2>1. PICK c \in Apps : AppFree(c)
    BY <1>5
  <2>2. c \in Ctx \ {"isr", "wq", "rxt", "boot"}
    BY AppsAssumption DEF Ctx
  <2>3. \A d \in Ctx \ {c} : pc'[d] = pc[d] /\ ret'[d] = ret[d]
    BY <1>1, <2>1 DEF AppFree, Goto, TypeLocals
  <2>4. QED
    BY <1>1, <1>2, <2>2, <2>3, RecoverKept DEF Rebuilding, InArm
<1>6. QED
  BY <1>3, <1>4, <1>5

(* The recovery takes the item off the queue, keeps the flag to the end,    *)
(* and while it runs the handler is not between its read and its poll.      *)
LEMMA RebuildRecover ==
  ASSUME Ctl, RecoverOK,
         \/ WqRecover \/ RecoverClear
         \/ \E c \in {"wq", "boot"} : Arm(c) \/ IrqEnable(c)
  PROVE  RecoverOK'
<1>1. TypeLocals /\ {"isr", "wq", "rxt", "boot"} \subseteq Ctx
      /\ pending \in BOOLEAN /\ recoverQ \in BOOLEAN
  BY DEF Ctl, RingInv, TypeOK, TypeEngine, Ctx
<1>2. pc["isr"] = "idle" /\ pc'["isr"] = "idle" /\ dmasr = {} /\ dmasr' = {}
  <2>1. pc["isr"] = "idle" /\ pc'["isr"] = pc["isr"] /\ dmasr' = dmasr
    BY <1>1 DEF WqRecover, RecoverClear, Arm, IrqEnable, At, CanRun, Busy, StartRefill,
       Goto, TypeLocals
  <2>2. QED
    BY <2>1 DEF RecoverOK, HaltOK
<1>3. CASE WqRecover
  <2>1. /\ recoverQ /\ recoverQ' = FALSE /\ pending' = pending /\ irq' = {}
        /\ pc'["wq"] = "pop" /\ ret'["wq"] = "arm"
    BY <1>1, <1>3 DEF WqRecover, StartRefill, Goto, TypeLocals
  <2>2. Rebuilding("wq")' /\ Serving'
    BY <2>1 DEF Rebuilding, InArm, Serving
  <2>3. pending' /\ ~recoverQ'
    BY <2>1, Zenon DEF RecoverOK, RequestServed
  <2>4. QED
    BY <1>2, <2>1, <2>2, <2>3 DEF RecoverOK, RequestServed, HaltOK
<1>4. CASE RecoverClear
  <2>1. /\ pc["wq"] = "clear" /\ pending' = FALSE /\ pc'["wq"] = "idle"
        /\ pc'["boot"] = pc["boot"] /\ UNCHANGED <<recoverQ, ret, irqOn, eng, irq>>
    BY <1>1, <1>4 DEF RecoverClear, At, Goto, TypeLocals, engine
  <2>2. ret["wq"] = "idle"
    BY <1>1, <2>1, LocalsDead DEF Ctl, Refilling, Releasing, Polling
  <2>3. ~Serving' /\ (Rebuilding("wq")' <=> Rebuilding("wq"))
        /\ (Rebuilding("boot")' <=> Rebuilding("boot"))
    BY <2>1, <2>2 DEF Serving, Rebuilding, InArm
  <2>4. ~pending' /\ ~recoverQ'
    <3>1. ~recoverQ
      BY <2>1 DEF RecoverOK, RequestServed, Serving
    <3>2. QED
      BY <2>1, <3>1, Zenon
  <2>5. QED
    BY <1>2, <2>1, <2>3, <2>4 DEF RecoverOK, RequestServed, HaltOK
<1>5. ASSUME NEW c \in {"wq", "boot"}, Arm(c) \/ IrqEnable(c) PROVE RecoverOK'
  <2>1. /\ pc[c] \in {"arm", "irqon"} /\ UNCHANGED <<ret, pending, recoverQ>>
        /\ \A d \in Ctx \ {c} : pc'[d] = pc[d]
    BY <1>1, <1>5 DEF Arm, IrqEnable, At, Goto, TypeLocals, recov
  <2>2. ret[c] = "idle"
    BY <1>1, <2>1, LocalsDead DEF Ctl, Refilling, Releasing, Polling
  <2>3. CASE Arm(c)
    <3>1. pc'[c] = "irqon" /\ irq' = {} /\ UNCHANGED irqOn /\ pc[c] = "arm"
      BY <1>1, <2>3 DEF Arm, At, Goto, TypeLocals
    <3>2. /\ Rebuilding("wq")' <=> Rebuilding("wq")
          /\ Rebuilding("boot")' <=> Rebuilding("boot")
          /\ Serving' <=> Serving
      BY <1>1, <2>1, <3>1 DEF Rebuilding, InArm, Serving
    <3>3. QED
      BY <1>2, <2>1, <3>1, <3>2 DEF RecoverOK, RequestServed, HaltOK
  <2>4. CASE IrqEnable(c)
    <3>1. /\ irqOn' = TRUE /\ UNCHANGED <<eng, irq>> /\ pc[c] = "irqon"
          /\ pc'[c] = IF c = "wq" THEN "clear" ELSE "idle"
      BY <1>1, <2>4 DEF IrqEnable, At, Goto, TypeLocals, engine
    <3>2. Serving' <=> Serving
      BY <1>1, <2>1, <2>2, <3>1 DEF Rebuilding, InArm, Serving
    <3>3. irqOn'
      BY <3>1, Zenon
    <3>4. QED
      BY <1>2, <2>1, <3>1, <3>2, <3>3 DEF RecoverOK, RequestServed, HaltOK
  <2>5. QED
    BY <1>5, <2>3, <2>4
<1>6. QED
  BY <1>3, <1>4, <1>5

LEMMA StepRecover == Ctl /\ RecoverOK /\ [Next]_vars => RecoverOK'
<1> SUFFICES ASSUME Ctl, RecoverOK, [Next]_vars PROVE RecoverOK'
  OBVIOUS
<1>1. CASE Isr
  BY <1>1, IsrRecover, PollRecover, RefillRecover DEF Isr, Ctx
<1>2. CASE WqPoll \/ Worker
  BY <1>2, OtherRecover, RefillRecover DEF Worker, WorkerStep, Ctx
<1>3. CASE WqRecover \/ WqStep \/ Boot
  BY <1>3, RebuildRecover, PollRecover, RefillRecover DEF WqStep, Boot, Ctx
<1>4. CASE \E c \in Apps : App(c)
  BY <1>4, OtherRecover, RefillRecover DEF App, Ctx
<1>5. CASE Engine
  <2>1. /\ UNCHANGED <<recov, dmasr, irqOn, locals>>
        /\ "err" \in irq' => eng' = "halted" \/ ("err" \in irq /\ eng' = eng)
    BY <1>5 DEF Engine, EngineComplete, EngineBadDescriptor, EngineFault
  <2>2. QED
    BY <2>1 DEF RecoverOK, RequestServed, HaltOK, Serving, Rebuilding, InArm, recov,
       locals
<1>6. CASE UNCHANGED vars
  BY <1>6, RecoverKept DEF vars, recov, locals, engine, recoverVars, Rebuilding, InArm
<1>7. QED
  BY <1>1, <1>2, <1>3, <1>4, <1>5, <1>6 DEF Next

LEMMA RecoverAlways == Spec => [](Ctl /\ RecoverOK)
<1>1. Init => RecoverOK
  BY DEF Init, RecoverOK, RequestServed, HaltOK, Serving, Rebuilding, InArm, Ctx
<1>2. QED
  BY <1>1, StepRecover, CtlAlways, PTL DEF Spec

(* rx_direct_recover_pending is set exactly while the work item is queued   *)
(* or the recovery runs, so a flag left behind can never refuse the next    *)
(* request for good; and with the interrupt off somebody is on the way to   *)
(* enable it.                                                               *)
THEOREM RequestCorrect == Spec => []RequestServed
<1>1. Ctl /\ RecoverOK => RequestServed
  BY DEF RecoverOK
<1>2. QED
  BY <1>1, RecoverAlways, PTL

(* HaltNoticed fails in the code (RxRingLostRecovery); this is how: from a  *)
(* state in which a halt has its interrupt raised or its recovery pending,  *)
(* only the atomic_clear that ends a recovery leads to one in which it has  *)
(* neither.                                                                 *)
HaltLostByClear == HaltNoticed /\ ~HaltNoticed' => RecoverClear

THEOREM HaltLostOnlyByClear == Spec => [][HaltLostByClear]_vars
<1>1. ASSUME Ctl, RecoverOK, [Next]_vars, ~RecoverClear, HaltNoticed PROVE HaltNoticed'
  <2> SUFFICES ASSUME eng' = "halted", "err" \notin irq' PROVE pending'
    BY DEF HaltNoticed
  <2>1. CASE IsrRead \/ IsrAck
    <3>1. eng = "halted"
      BY <2>1 DEF IsrRead, IsrAck, engine
    <3>2. CASE IsrRead
      <4>1. "err" \notin irq /\ UNCHANGED pending
        BY <3>2 DEF IsrRead, engine, recov
      <4>2. QED
        BY <1>1, <3>1, <4>1 DEF HaltNoticed
    <3>3. CASE IsrAck
      <4>1. pc["isr"] = "ack" /\ irq' = irq \ dmasr /\ UNCHANGED pending
        BY <3>3 DEF IsrAck, At, recov
      <4>2. QED
        BY <1>1, <3>1, <4>1 DEF HaltNoticed, RecoverOK, HaltOK
    <3>4. QED
      BY <2>1, <3>2, <3>3
  <2>2. ASSUME NEW c \in Ctx, Refill(c) PROVE pending'
    <3>1. UNCHANGED <<pending, eng, irq>>
      BY <2>2 DEF Refill, Pop, PopEmpty, Post, PostRefused, PostCount, PostUncount,
         PutBack, UpdateTail, WriteTail, Give, PutFree, recov, engine
    <3>2. QED
      BY <1>1, <3>1 DEF HaltNoticed
  <2>3. ASSUME NEW c \in {"isr", "wq"}, Poll(c) PROVE pending'
    <3>1. UNCHANGED <<eng, irq>> /\ (UNCHANGED pending \/ pending' = TRUE)
      BY <2>3 DEF Poll, PollTake, PollIdle, PollOrphan, PollUncount, PollIntercept,
         PollCount, PollReady, RequestRecover, recov, engine
    <3>2. QED
      BY <1>1, <3>1 DEF HaltNoticed
  <2>4. CASE \/ WqPoll \/ WorkerStep
             \/ (\E c \in Apps : AppFree(c)) \/ (\E c \in {"wq", "boot"} : IrqEnable(c))
             \/ UNCHANGED vars
    <3>1. UNCHANGED <<pending, eng, irq>>
      BY <2>4 DEF WqPoll, WorkerStep, WorkerGet, WorkerUncount, WorkerCount,
         WorkerRelease, WorkerZeroCopy, WorkerHandOff, RecvKept, RecvFreed,
         AppFree, IrqEnable, vars, recov, engine
    <3>2. QED
      BY <1>1, <3>1 DEF HaltNoticed
  <2>5. CASE WqRecover \/ \E c \in {"wq", "boot"} : Arm(c)
    BY <2>5 DEF WqRecover, Arm
  <2>6. CASE Engine
    <3>1. UNCHANGED pending /\ ("err" \notin irq' => eng' = eng /\ "err" \notin irq)
      BY <2>6 DEF Engine, EngineComplete, EngineBadDescriptor, EngineFault, recov
    <3>2. QED
      BY <1>1, <3>1 DEF HaltNoticed
  <2>7. QED
    BY <1>1, <2>1, <2>2, <2>3, <2>4, <2>5, <2>6
    DEF Next, Isr, WqStep, Boot, Worker, WorkerStep, App, Ctx
<1>2. Ctl /\ RecoverOK /\ [Next]_vars => [HaltLostByClear]_vars
  BY <1>1 DEF HaltLostByClear
<1>3. QED
  BY <1>2, RecoverAlways, PTL DEF Spec

----------------------------------------------------------------------------
(* WindowOwnedUnlessReopened.  Counted from the consume index, the first d  *)
(* posted descriptors are complete, the engine stands on the next one, and  *)
(* its tail, while it works, is a posted one from there on, the last of     *)
(* them unless a descriptor waits for its tail write.                       *)

Plus(i, k) == IF i + k < N THEN i + k ELSE i + k - N

TailOK == posted > 0 => tail = Plus(consume, posted - 1)

Standing(d) ==
  /\ cur = Plus(consume, d)
  /\ \A i \in Slot : i \in done <=> Ahead(i) < d
  /\ unpub => d < posted

Working(t) == tdesc = Plus(consume, t) /\ (unpub => t < posted - 1)

EngineOK ==
  eng = "run" /\ ~reopened =>
    \E d \in 0 .. posted :
      Standing(d) /\ (active => \E t \in d .. posted - 1 : Working(t))

LEMMA RingFacts ==
  ASSUME Ctl
  PROVE  /\ N \in Nat \ {0} /\ {consume, refill, tail, cur} \subseteq Slot
         /\ posted \in 0 .. N /\ done \subseteq Slot
         /\ refill = Plus(consume, posted)
         /\ \A i \in Slot : bdBuf[i] # NoBuf <=> Ahead(i) < posted
         /\ \A i \in Slot : Ahead(i) \in 0 .. N - 1 /\ i = Plus(consume, Ahead(i))
         /\ \A k \in 0 .. N - 1 : Plus(consume, k) \in Slot /\ Ahead(Plus(consume, k)) = k
<1>1. TypeRing /\ RingWindow /\ N \in Nat \ {0} /\ cur \in Slot
  BY NAssumption DEF Ctl, RingInv, TypeOK, TypeEngine
<1>2. refill = Plus(consume, posted) /\ \A i \in Slot : bdBuf[i] # NoBuf <=> Ahead(i) < posted
  BY <1>1 DEF RingWindow, Plus
<1>3. \A i \in Slot : Ahead(i) \in 0 .. N - 1 /\ i = Plus(consume, Ahead(i))
  BY <1>1 DEF TypeRing, Slot, Ahead, Plus
<1>4. \A k \in 0 .. N - 1 : Plus(consume, k) \in Slot /\ Ahead(Plus(consume, k)) = k
  BY <1>1 DEF TypeRing, Slot, Ahead, Plus
<1>5. QED
  BY <1>1, <1>2, <1>3, <1>4 DEF TypeRing

LEMMA PlusSucc ==
  ASSUME NEW i \in Slot, NEW k \in 0 .. N - 1
  PROVE  Succ(Plus(i, k)) = Plus(i, k + 1)
BY NAssumption DEF Succ, Plus, Slot

LEMMA SuccPlus ==
  ASSUME NEW i \in Slot, NEW k \in 1 .. N
  PROVE  Plus(Succ(i), k - 1) = Plus(i, k)
BY NAssumption DEF Succ, Plus, Slot

LEMMA EngineKept ==
  ASSUME TailOK, EngineOK,
         UNCHANGED <<eng, cur, tdesc, active, unpub, reopened, done, consume, posted, tail>>
  PROVE  TailOK' /\ EngineOK'
BY DEF TailOK, EngineOK, Standing, Working, Ahead, Plus

LEMMA PostEngine ==
  ASSUME Ctl, TailOK, EngineOK, NEW c \in Ctx, Post(c)
  PROVE  TailOK' /\ EngineOK'
<1>1. posted < N
  <2>1. bdBuf[refill] = NoBuf
    BY DEF Post, CanPost
  <2>2. QED
    BY <2>1, RingFacts
<1>2. /\ posted' = posted + 1 /\ tail' = refill /\ done' = done \ {refill} /\ unpub' = TRUE
      /\ UNCHANGED <<consume, eng, cur, tdesc, active, reopened>>
  BY DEF Post
<1>3. TailOK'
  BY <1>1, <1>2, RingFacts DEF TailOK, Plus
<1>4. EngineOK'
  <2> SUFFICES ASSUME eng = "run", ~reopened
               PROVE  EngineOK'
    BY <1>2 DEF EngineOK
  <2>1. PICK d \in 0 .. posted :
          Standing(d) /\ (active => \E t \in d .. posted - 1 : Working(t))
    BY DEF EngineOK
  <2>2. Standing(d)'
    BY <1>1, <1>2, <2>1, RingFacts DEF Standing, Ahead, Plus
  <2>3. active => \E t \in d .. posted - 1 : Working(t)'
    BY <1>1, <1>2, <2>1, RingFacts DEF Working, Plus
  <2>4. d \in 0 .. posted' /\ d .. posted - 1 \subseteq d .. posted' - 1
    BY <1>2, RingFacts
  <2>5. QED
    BY <1>2, <2>2, <2>3, <2>4 DEF EngineOK
<1>5. QED
  BY <1>3, <1>4

(* emz_rx_direct_update_tail: the tail is the last posted descriptor, and   *)
(* unless the write only repeats it for an idle engine, there is work to it. *)
LEMMA TailEngine ==
  ASSUME Ctl, TailOK, EngineOK, NEW c \in Ctx, UpdateTail(c)
  PROVE  TailOK' /\ EngineOK'
<1>1. UNCHANGED <<consume, posted, tail, done, eng, cur>>
  BY DEF UpdateTail, WriteTail, ring, engine
<1>2. TailOK'
  BY <1>1 DEF TailOK, Plus
<1>3. CASE started /\ eng = "run" /\ ~reopened'
  <2>1. ~reopened /\ (active \/ unpub) /\ tdesc' = tail /\ active' = TRUE /\ unpub' = FALSE
    BY <1>3 DEF UpdateTail, WriteTail, Ctl, RingInv, TypeOK, TypeEngine
  <2>2. PICK d \in 0 .. posted :
          Standing(d) /\ (active => \E t \in d .. posted - 1 : Working(t))
    BY <1>3, <2>1 DEF EngineOK
  <2>3. d < posted
    BY <2>1, <2>2, RingFacts DEF Standing
  <2>4. Standing(d)'
    BY <1>1, <2>1, <2>2 DEF Standing, Ahead, Plus
  <2>5. Working(posted - 1)'
    BY <1>1, <2>1, <2>3, RingFacts DEF Working, TailOK, Plus
  <2>6. d \in 0 .. posted' /\ posted - 1 \in d .. posted' - 1
    BY <1>1, <2>3, RingFacts
  <2>7. \E t \in d .. posted' - 1 : Working(t)'
    BY <1>1, <2>5, <2>6 DEF Working, Plus
  <2>8. QED
    BY <1>2, <2>4, <2>6, <2>7 DEF EngineOK
<1>4. CASE started /\ ~(eng = "run" /\ ~reopened')
  BY <1>1, <1>2, <1>4 DEF EngineOK
<1>5. CASE ~started
  BY <1>5, EngineKept DEF UpdateTail, ring, engine
<1>6. QED
  BY <1>3, <1>4, <1>5

LEMMA PollTakeEngine ==
  ASSUME Ctl, TailOK, EngineOK, NEW c \in Ctx, PollTake(c)
  PROVE  TailOK' /\ EngineOK'
<1>1. /\ consume \in done /\ consume' = Succ(consume) /\ posted' = posted - 1
      /\ done' = done \ {consume}
      /\ UNCHANGED <<tail, eng, cur, tdesc, active, unpub, reopened>>
  BY DEF PollTake, engine
<1>2. posted > 0
  BY RingFacts DEF PollTake, Ahead
<1>3. \A k \in 1 .. N : Plus(Succ(consume), k - 1) = Plus(consume, k)
  BY RingFacts, SuccPlus
<1>4. \A i \in Slot : Ahead(i)' = IF i = consume THEN N - 1 ELSE Ahead(i) - 1
  BY <1>1, RingFacts DEF Ahead, Succ, Slot
<1>5. TailOK'
  BY <1>1, <1>2, <1>3, RingFacts DEF TailOK
<1>6. EngineOK'
  <2> SUFFICES ASSUME eng = "run", ~reopened
               PROVE  EngineOK'
    BY <1>1 DEF EngineOK
  <2>1. PICK d \in 0 .. posted :
          Standing(d) /\ (active => \E t \in d .. posted - 1 : Working(t))
    BY DEF EngineOK
  <2>2. d > 0
    BY <1>1, <2>1, RingFacts DEF Standing
  <2>3. Standing(d - 1)'
    <3>1. cur' = Plus(consume', d - 1)
      BY <1>1, <1>3, <2>1, <2>2, RingFacts DEF Standing
    <3>2. \A i \in Slot : i \in done' <=> Ahead(i)' < d - 1
      BY <1>1, <1>4, <2>1, <2>2, RingFacts DEF Standing
    <3>3. unpub' => d - 1 < posted'
      BY <1>1, <2>1, <2>2, RingFacts DEF Standing
    <3>4. QED
      BY <3>1, <3>2, <3>3 DEF Standing
  <2>4. active => \E t \in d - 1 .. posted' - 1 : Working(t)'
    <3>1. SUFFICES ASSUME active
                   PROVE  \E t \in d - 1 .. posted' - 1 : Working(t)'
      OBVIOUS
    <3>2. PICK t \in d .. posted - 1 : Working(t)
      BY <2>1, <3>1
    <3>3. t - 1 \in d - 1 .. posted' - 1 /\ t \in 1 .. N
      BY <1>1, <2>2, <3>2, RingFacts
    <3>4. Working(t - 1)'
      BY <1>1, <1>3, <3>2, <3>3, RingFacts DEF Working
    <3>5. QED
      BY <3>3, <3>4
  <2>5. d - 1 \in 0 .. posted'
    BY <1>1, <2>2, RingFacts
  <2>6. QED
    BY <1>1, <2>3, <2>4, <2>5 DEF EngineOK
<1>7. QED
  BY <1>5, <1>6

(* emz_rx_direct_arm: nothing is complete, and the tail is the last posted. *)
LEMMA ArmEngine ==
  ASSUME Ctl, TailOK, NEW c \in {"wq", "boot"}, Arm(c)
  PROVE  TailOK' /\ EngineOK'
<1>1. done = {} /\ (unpub => posted > 0)
  BY DEF Arm, Ctl, CtlInv, ArmOK, ResetOK, InArm, At, Ctx
<1>2. UNCHANGED <<consume, posted, tail, done>> /\ cur' = consume /\ ArmTail
  BY DEF Arm, ring
<1>3. TailOK'
  BY <1>2 DEF TailOK, Plus
<1>4. Standing(0)'
  BY <1>1, <1>2, RingFacts DEF Standing, ArmTail, Ahead, Plus, Slot
<1>5. active' => posted > 0 /\ Working(posted - 1)'
  BY <1>2, RingFacts DEF Working, ArmTail, TailOK, Plus
<1>6. 0 \in 0 .. posted' /\ (posted > 0 => posted - 1 \in 0 .. posted' - 1)
  BY <1>2, RingFacts
<1>7. active' => \E t \in 0 .. posted' - 1 : Working(t)'
  BY <1>2, <1>5, <1>6 DEF Working, Plus
<1>8. QED
  BY <1>3, <1>4, <1>6, <1>7 DEF EngineOK

LEMMA CompleteEngine ==
  ASSUME Ctl, TailOK, EngineOK, EngineComplete
  PROVE  TailOK' /\ EngineOK'
<1>1. /\ eng = "run" /\ active /\ done' = done \cup {cur} /\ cur' = Succ(cur)
      /\ active' = (cur # tdesc)
      /\ UNCHANGED <<consume, posted, tail, tdesc, unpub, reopened>>
  BY DEF EngineComplete
<1>2. TailOK'
  BY <1>1 DEF TailOK, Plus
<1>3. EngineOK'
  <2> SUFFICES ASSUME ~reopened
               PROVE  EngineOK'
    BY <1>1 DEF EngineOK
  <2>1. PICK d \in 0 .. posted :
          Standing(d) /\ (active => \E t \in d .. posted - 1 : Working(t))
    BY <1>1 DEF EngineOK
  <2>2. PICK t \in d .. posted - 1 : Working(t)
    BY <1>1, <2>1
  <2>3. d < posted /\ d \in 0 .. N - 1 /\ t \in 0 .. N - 1 /\ Ahead(cur) = d
    BY <2>1, <2>2, RingFacts DEF Standing
  <2>4. Succ(cur) = Plus(consume, d + 1)
    BY <2>1, <2>3, RingFacts, PlusSucc DEF Standing
  <2>5. \A i \in Slot : Ahead(i)' = Ahead(i) /\ (Ahead(i) = d => i = cur)
    BY <1>1, <2>1, RingFacts DEF Standing, Ahead
  <2>6. cur # tdesc => d + 1 <= t
    BY <2>1, <2>2, RingFacts DEF Standing, Working
  <2>7. Standing(d + 1)'
    <3>1. \A i \in Slot : i \in done' <=> Ahead(i)' < d + 1
      BY <1>1, <2>1, <2>3, <2>5, RingFacts DEF Standing
    <3>2. unpub' => d + 1 < posted'
      BY <1>1, <2>2, RingFacts DEF Working
    <3>3. QED
      BY <1>1, <2>4, <3>1, <3>2 DEF Standing, Plus
  <2>8. Working(t)'
    BY <1>1, <2>2 DEF Working, Plus
  <2>9. d + 1 \in 0 .. posted' /\ (d + 1 <= t => t \in d + 1 .. posted' - 1)
    BY <1>1, <2>2, <2>3, RingFacts
  <2>10. active' => \E u \in d + 1 .. posted' - 1 : Working(u)'
    BY <1>1, <2>6, <2>8, <2>9
  <2>11. QED
    BY <2>7, <2>9, <2>10 DEF EngineOK
<1>4. QED
  BY <1>2, <1>3

LEMMA RefillEngine ==
  ASSUME Ctl, TailOK, EngineOK, NEW c \in Ctx, Refill(c)
  PROVE  TailOK' /\ EngineOK'
<1>1. CASE \/ Pop(c) \/ PopEmpty(c) \/ PostRefused(c) \/ PostCount(c)
          \/ PostUncount(c) \/ PutBack(c) \/ Give(c) \/ PutFree(c)
  BY <1>1, EngineKept DEF Pop, PopEmpty, PostRefused, PostCount, PostUncount, PutBack,
     Give, PutFree, ring, engine
<1>2. QED
  BY <1>1, PostEngine, TailEngine DEF Refill

LEMMA PollEngine ==
  ASSUME Ctl, TailOK, EngineOK, NEW c \in Ctx, Poll(c)
  PROVE  TailOK' /\ EngineOK'
<1>1. CASE \/ PollIdle(c) \/ PollOrphan(c) \/ PollUncount(c)
          \/ PollIntercept(c) \/ PollCount(c) \/ PollReady(c)
  BY <1>1, EngineKept DEF PollIdle, PollOrphan, PollUncount, PollIntercept, PollCount,
     PollReady, ring, engine
<1>2. QED
  BY <1>1, PollTakeEngine DEF Poll

LEMMA OtherEngine ==
  ASSUME Ctl, TailOK, EngineOK,
         \/ IsrRead \/ IsrAck \/ WqPoll \/ WorkerStep \/ RecoverClear
         \/ \E c \in Apps : AppFree(c)
         \/ \E c \in {"wq", "boot"} : IrqEnable(c)
  PROVE  TailOK' /\ EngineOK'
BY EngineKept DEF IsrRead, IsrAck, WqPoll, WorkerStep, WorkerGet, WorkerUncount,
   WorkerCount, WorkerRelease, WorkerZeroCopy, WorkerHandOff,
   RecvKept, RecvFreed, RecoverClear, AppFree, IrqEnable, ring, engine

LEMMA StepEngine == Ctl /\ TailOK /\ EngineOK /\ [Next]_vars => TailOK' /\ EngineOK'
<1> SUFFICES ASSUME Ctl, TailOK, EngineOK, [Next]_vars PROVE TailOK' /\ EngineOK'
  OBVIOUS
<1>1. CASE Isr
  BY <1>1, OtherEngine, PollEngine, RefillEngine DEF Isr, Ctx
<1>2. CASE WqPoll \/ Worker
  BY <1>2, OtherEngine, RefillEngine DEF Worker, WorkerStep, Ctx
<1>3. CASE WqRecover
  BY <1>3 DEF WqRecover, ResetIndices, TailOK, EngineOK
<1>4. CASE WqStep \/ Boot
  BY <1>4, ArmEngine, PollEngine, RefillEngine, OtherEngine DEF WqStep, Boot, Ctx
<1>5. CASE \E c \in Apps : App(c)
  BY <1>5, OtherEngine, RefillEngine DEF App, Ctx
<1>6. CASE Engine
  <2>1. CASE EngineBadDescriptor \/ EngineFault
    BY <2>1 DEF EngineBadDescriptor, EngineFault, TailOK, EngineOK, Plus, ring
  <2>2. QED
    BY <1>6, <2>1, CompleteEngine DEF Engine
<1>7. CASE UNCHANGED vars
  BY <1>7, EngineKept DEF vars, ring, engine
<1>8. QED
  BY <1>1, <1>2, <1>3, <1>4, <1>5, <1>6, <1>7 DEF Next

(* Whatever the interleaving of posts, polls and tail writes, every         *)
(* descriptor the engine may still fetch holds a buffer given to it and not *)
(* complete, unless a tail was rewritten for an engine that had gone idle:  *)
(* that rewrite is the only hole in the comment of emz_rx_direct_program_bd. *)
THEOREM EngineWindowCorrect == Spec => []WindowOwnedUnlessReopened
<1>1. Init => TailOK /\ EngineOK
  BY DEF Init, TailOK, EngineOK
<1>2. Ctl /\ TailOK /\ EngineOK => WindowOwnedUnlessReopened
  <2> SUFFICES ASSUME Ctl, EngineOK, ~reopened, eng = "run", active, NEW i \in Window
               PROVE  bdBuf[i] # NoBuf /\ i \notin done
    BY DEF WindowOwnedUnlessReopened, EngineWindowOwned, Window
  <2>1. PICK d \in 0 .. posted : Standing(d) /\ \E t \in d .. posted - 1 : Working(t)
    BY DEF EngineOK
  <2>2. PICK t \in d .. posted - 1 : Working(t)
    BY <2>1
  <2>3. /\ i \in Slot
        /\ (IF i >= cur THEN i - cur ELSE i + N - cur) <=
              (IF tdesc >= cur THEN tdesc - cur ELSE tdesc + N - cur)
    BY DEF Window
  <2>4. /\ cur = Plus(consume, d) /\ tdesc = Plus(consume, t)
        /\ d \in 0 .. N - 1 /\ t \in d .. N - 1
    BY <2>1, <2>2, RingFacts DEF Standing, Working
  <2>5. PICK a \in 0 .. N - 1 : a = Ahead(i) /\ i = Plus(consume, a)
    BY <2>3, RingFacts
  <2>6. consume \in 0 .. N - 1 /\ N \in Nat
    BY RingFacts DEF Slot
  <2>7. a \in d .. t
    BY <2>3, <2>4, <2>5, <2>6, SMTT(30) DEF Plus
  <2>8. QED
    BY <2>1, <2>2, <2>3, <2>5, <2>7, RingFacts DEF Standing
<1>3. QED
  BY <1>1, <1>2, StepEngine, CtlAlways, PTL DEF Spec

----------------------------------------------------------------------------
(* OwnerAccounting.  What the counters do not show yet is the number of     *)
(* contexts at each place between a FIFO operation and its counter.         *)

FillAt == {"post", "acct", "uncount", "putback", "put"}
QueueAt == {"enqueue", "took"}
WorkAt == {"work", "handoff"}
StackAt == {"handoff", "recv"}
TwiceAt == {"uncount", "handoff"}
NeitherAt == {"route", "give", "enter"}
Counted == FillAt \cup {"class"} \cup QueueAt \cup WorkAt \cup StackAt \cup NeitherAt

Sums ==
  /\ CountsMatch
  /\ cStack <= MaxStack
  /\ Cardinality(Posted) = posted

(* One more, or one less, in a pool.                                        *)
LEMMA PoolCard ==
  ASSUME NEW S \in SUBSET Buf
  PROVE  /\ Cardinality(S) \in Nat
         /\ \A b \in S : Cardinality(S \ {b}) = Cardinality(S) - 1
         /\ \A b \in Buf \ S : Cardinality(S \cup {b}) = Cardinality(S) + 1
<1>1. IsFiniteSet(S)
  BY FS_Subset, BufCountAssumption
<1>2. QED
  BY <1>1, FS_CardinalityType, FS_AddElement, FS_RemoveElement

LEMMA FiniteCtx == IsFiniteSet(Ctx)
<1>1. IsFiniteSet({}) /\ IsFiniteSet({"isr"})
  BY FS_EmptySet, FS_Singleton
<1>2. IsFiniteSet({"isr"} \cup {"wq"})
  BY <1>1, FS_AddElement
<1>3. IsFiniteSet(({"isr"} \cup {"wq"}) \cup {"rxt"})
  BY <1>2, FS_AddElement
<1>4. IsFiniteSet((({"isr"} \cup {"wq"}) \cup {"rxt"}) \cup {"boot"})
  BY <1>3, FS_AddElement
<1>5. (({"isr"} \cup {"wq"}) \cup {"rxt"}) \cup {"boot"} = {"isr", "wq", "rxt", "boot"}
  OBVIOUS
<1>6. QED
  BY <1>4, <1>5, AppsAssumption, FS_Union DEF Ctx

(* One context moves: it leaves one place and enters another.               *)
LEMMA NumMove ==
  ASSUME TypeLocals, NEW c \in Ctx, NEW l, Goto(c, l), NEW L
  PROVE  /\ NumAt(L) \in Nat /\ NumAt(L)' \in Nat
         /\ NumAt(L)' + (IF pc[c] \in L THEN 1 ELSE 0)
              = NumAt(L) + (IF l \in L THEN 1 ELSE 0)
<1> DEFINE S == {d \in Ctx : pc[d] \in L}
           T == {d \in Ctx : pc'[d] \in L}
<1>1. IsFiniteSet(Ctx)
  BY FiniteCtx
<1>2. IsFiniteSet(S) /\ IsFiniteSet(T)
  BY <1>1, FS_Subset
<1>3. Cardinality(S) \in Nat /\ Cardinality(T) \in Nat
  BY <1>2, FS_CardinalityType
<1>4. \A d \in Ctx \ {c} : pc'[d] = pc[d]
  BY DEF Goto, TypeLocals
<1>5. pc'[c] = l
  BY DEF Goto, TypeLocals
<1>6. CASE pc[c] \in L /\ l \in L
  <2>1. S = T
    BY <1>4, <1>5, <1>6
  <2>2. QED
    BY <1>3, <1>6, <2>1 DEF NumAt
<1>7. CASE pc[c] \notin L /\ l \notin L
  <2>1. S = T
    BY <1>4, <1>5, <1>7
  <2>2. QED
    BY <1>3, <1>7, <2>1 DEF NumAt
<1>8. CASE pc[c] \in L /\ l \notin L
  <2>1. T = S \ {c} /\ c \in S
    BY <1>4, <1>5, <1>8
  <2>2. Cardinality(T) = Cardinality(S) - 1
    BY <1>2, <2>1, FS_RemoveElement
  <2>3. QED
    BY <1>3, <1>8, <2>2 DEF NumAt
<1>9. CASE pc[c] \notin L /\ l \in L
  <2>1. T = S \cup {c} /\ c \notin S
    BY <1>4, <1>5, <1>9
  <2>2. Cardinality(T) = Cardinality(S) + 1
    BY <1>2, <2>1, FS_AddElement
  <2>3. QED
    BY <1>3, <1>9, <2>2 DEF NumAt
<1>10. QED
  BY <1>6, <1>7, <1>8, <1>9

(* Whether being at l counts, for a set L of places, and the change in that *)
(* when context c goes to l.                                                *)
In(l, L) == IF l \in L THEN 1 ELSE 0
Shift(c, l, L) == In(l, L) - In(pc[c], L)

LEMMA Moved ==
  ASSUME Ctl, NEW c \in Ctx, NEW l, Goto(c, l), NEW L
  PROVE  /\ NumAt(L) \in Nat /\ NumAt(L)' \in Nat
         /\ Shift(c, l, L) \in Int /\ NumAt(L)' = NumAt(L) + Shift(c, l, L)
<1>1. /\ NumAt(L) \in Nat /\ NumAt(L)' \in Nat
      /\ NumAt(L)' + In(pc[c], L) = NumAt(L) + In(l, L)
  BY NumMove DEF Ctl, RingInv, TypeOK, In
<1>2. In(pc[c], L) \in Nat /\ In(l, L) \in Nat
  BY DEF In
<1>3. QED
  BY <1>1, <1>2 DEF Shift

LEMMA SumTypes ==
  ASSUME Ctl
  PROVE  /\ {free, ready, stack, Posted} \subseteq SUBSET Buf
         /\ cFree \in Int /\ cDma \in Int /\ cReady \in Int
         /\ cWorker \in Int /\ cStack \in Int /\ posted \in Nat
         /\ N \in Nat /\ MaxStack \in Nat
         /\ TypeLocals /\ \A c \in Ctx : pc[c] \in Holding => hold[c] \in Buf
BY PostedType, NAssumption, LimitAssumption
   DEF Ctl, RingInv, TypeOK, TypePools, TypeRing, TypeLocals, HoldOK

(* What a context holds is in no pool and no descriptor.                    *)
LEMMA HeldApart ==
  ASSUME Ctl, NEW c \in Ctx, pc[c] \in Holding
  PROVE  hold[c] \in Buf \ (free \cup ready \cup stack \cup Posted)
<1>1. hold[c] \in Buf /\ hold[c] \in Held
  BY SumTypes DEF Held, Ctl, RingInv, HoldOK
<1>2. QED
  BY <1>1 DEF Ctl, OwnedOnce

(* A step keeps the sums when each counter moves with its population and    *)
(* with the place of the context that acts, and the sum of the five with    *)
(* what is counted twice or not at all.                                     *)
LEMMA SumsStep ==
  ASSUME Ctl, Sums, NEW c \in Ctx, NEW l, Goto(c, l),
         {free', ready', stack'} \subseteq SUBSET Buf, posted' \in Nat,
         cFree' = cFree + Cardinality(free') - Cardinality(free) + Shift(c, l, FillAt),
         cDma' = cDma + posted' - posted + Shift(c, l, {"class"}) - Shift(c, l, {"acct"}),
         cReady' = cReady + Cardinality(ready') - Cardinality(ready) + Shift(c, l, QueueAt),
         cWorker' = cWorker + Shift(c, l, WorkAt),
         cStack' = cStack + Cardinality(stack') - Cardinality(stack) + Shift(c, l, StackAt),
         OwnerSum' = OwnerSum + Shift(c, l, TwiceAt) - Shift(c, l, NeitherAt),
         cStack' <= MaxStack, Cardinality(Posted') = posted'
  PROVE  Sums'
<1>1. \A L : /\ NumAt(L) \in Nat /\ Shift(c, l, L) \in Int
             /\ NumAt(L)' = NumAt(L) + Shift(c, l, L)
  BY Moved
<1>2. /\ Cardinality(free) \in Nat /\ Cardinality(ready) \in Nat /\ Cardinality(stack) \in Nat
      /\ cFree \in Int /\ cDma \in Int /\ cReady \in Int /\ cStack \in Int
      /\ posted \in Nat
  BY PoolCard, SumTypes
<1>3. /\ Cardinality(free') \in Nat /\ Cardinality(ready') \in Nat
      /\ Cardinality(stack') \in Nat
  BY PoolCard
<1>4. cFree' = Cardinality(free') + NumAt(FillAt)'
  BY <1>1, <1>2, <1>3 DEF Sums, CountsMatch, FillAt
<1>5. cDma' = posted' + NumAt({"class"})' - NumAt({"acct"})'
  BY <1>1, <1>2, <1>3 DEF Sums, CountsMatch
<1>6. cReady' = Cardinality(ready') + NumAt(QueueAt)'
  BY <1>1, <1>2, <1>3 DEF Sums, CountsMatch, QueueAt
<1>7. cWorker' = NumAt(WorkAt)'
  BY <1>1 DEF Sums, CountsMatch, WorkAt
<1>8. cStack' = Cardinality(stack') + NumAt(StackAt)'
  BY <1>1, <1>2, <1>3 DEF Sums, CountsMatch, StackAt
<1>9. OwnerSum' = N + NumAt(TwiceAt)' - NumAt(NeitherAt)'
  BY <1>1, SumTypes DEF Sums, CountsMatch, TwiceAt, NeitherAt
<1>10. QED
  BY <1>4, <1>5, <1>6, <1>7, <1>8, <1>9
     DEF Sums, CountsMatch, FillAt, QueueAt, WorkAt, StackAt, TwiceAt, NeitherAt

(* A step between two places that do not count.                             *)
LEMMA SumsKept ==
  ASSUME Ctl, Sums, NEW c \in Ctx, NEW l, Goto(c, l), {pc[c], l} \cap Counted = {},
         UNCHANGED <<counts, free, ready, stack, bdBuf, posted>>
  PROVE  Sums'
<1>1. \A L \in SUBSET Counted : NumAt(L) \in Nat /\ NumAt(L)' = NumAt(L)
  BY Moved DEF Shift, In
<1>2. Posted' = Posted /\ {"acct"} \in SUBSET Counted
  BY DEF Posted, Counted, FillAt
<1>3. QED
  BY <1>1, <1>2 DEF Sums, CountsMatch, OwnerSum, Counted, FillAt, QueueAt, WorkAt, StackAt,
     TwiceAt, NeitherAt, counts

(* A step that moves no buffer between the pools and the ring, only counts. *)
LEMMA CountStep ==
  ASSUME Ctl, Sums, NEW c \in Ctx, NEW l, Goto(c, l),
         UNCHANGED <<free, ready, stack, bdBuf, posted>>,
         cFree' = cFree + Shift(c, l, FillAt),
         cDma' = cDma + Shift(c, l, {"class"}) - Shift(c, l, {"acct"}),
         cReady' = cReady + Shift(c, l, QueueAt),
         cWorker' = cWorker + Shift(c, l, WorkAt),
         cStack' = cStack + Shift(c, l, StackAt), cStack' <= MaxStack,
         Shift(c, l, FillAt) + Shift(c, l, {"class"}) + Shift(c, l, QueueAt)
           + Shift(c, l, WorkAt) + Shift(c, l, StackAt)
           = Shift(c, l, {"acct"}) + Shift(c, l, TwiceAt) - Shift(c, l, NeitherAt)
  PROVE  Sums'
<1>1. \A L : Shift(c, l, L) \in Int
  BY Moved
<1>2. /\ Cardinality(free) \in Nat /\ Cardinality(ready) \in Nat
      /\ Cardinality(stack) \in Nat
  BY PoolCard, SumTypes
<1>3. Posted' = Posted
  BY DEF Posted
<1>4. OwnerSum' = OwnerSum + Shift(c, l, TwiceAt) - Shift(c, l, NeitherAt)
  BY <1>1, SumTypes DEF OwnerSum
<1>5. Cardinality(Posted') = posted'
  BY <1>3 DEF Sums
<1>6. QED
  BY <1>1, <1>2, <1>4, <1>5, SumTypes, SumsStep

(* A step that moves a buffer between a pool and a context's hands.         *)
LEMMA PoolStep ==
  ASSUME Ctl, Sums, NEW c \in Ctx, NEW l, Goto(c, l), UNCHANGED <<counts, bdBuf, posted>>,
         {free', ready', stack'} \subseteq SUBSET Buf,
         Cardinality(free') + Shift(c, l, FillAt) = Cardinality(free),
         Cardinality(ready') + Shift(c, l, QueueAt) = Cardinality(ready),
         Cardinality(stack') + Shift(c, l, StackAt) = Cardinality(stack),
         Shift(c, l, {"class"}) = 0, Shift(c, l, {"acct"}) = 0, Shift(c, l, WorkAt) = 0,
         Shift(c, l, TwiceAt) = 0, Shift(c, l, NeitherAt) = 0
  PROVE  Sums'
<1>1. \A L : Shift(c, l, L) \in Int
  BY Moved
<1>2. /\ Cardinality(free) \in Nat /\ Cardinality(ready) \in Nat
      /\ Cardinality(stack) \in Nat /\ Cardinality(free') \in Nat
      /\ Cardinality(ready') \in Nat /\ Cardinality(stack') \in Nat
  BY PoolCard, SumTypes
<1>3. Posted' = Posted
  BY DEF Posted
<1>4. OwnerSum' = OwnerSum /\ OwnerSum \in Int
  BY SumTypes DEF OwnerSum, counts
<1>5. Cardinality(Posted') = posted'
  BY <1>3 DEF Sums
<1>6. cStack' <= MaxStack
  BY DEF Sums, counts
<1>7. QED
  BY <1>1, <1>2, <1>4, <1>5, <1>6, SumTypes, SumsStep DEF counts

(* A refill's or release's target after it has put its buffer back.         *)
LEMMA RefillTarget ==
  ASSUME Ctl, NEW c \in Ctx, RefillEnd(c) \/ Return(c)
  PROVE  \E l : Goto(c, l) /\ l \notin Counted
<1>1. ret[c] \in {"idle", "poll", "arm"}
  BY SumTypes DEF TypeLocals
<1>2. Goto(c, "tail") \/ Goto(c, ret[c])
  BY DEF RefillEnd, Return
<1>3. QED
  BY <1>1, <1>2 DEF Counted, FillAt, QueueAt, WorkAt, StackAt, NeitherAt

(* A buffer taken out of, and put into, the free FIFO.                      *)
LEMMA PopSums ==
  ASSUME Ctl, Sums, NEW c \in Ctx, Pop(c)
  PROVE  Sums'
<1>1. PICK b \in free : free' = free \ {b}
  BY DEF Pop
<1>2. /\ Cardinality(free) \in Nat /\ Cardinality(free') = Cardinality(free) - 1
      /\ free' \subseteq Buf
  BY <1>1, PoolCard, SumTypes
<1>3. pc[c] = "pop" /\ Goto(c, "post") /\ UNCHANGED <<ready, stack, counts, posted, bdBuf>>
  BY DEF Pop, At, ring
<1>4. Cardinality(ready) \in Nat /\ Cardinality(stack) \in Nat
  BY PoolCard, SumTypes
<1>5. QED
  BY <1>2, <1>3, <1>4, PoolStep, SumTypes
     DEF Shift, In, FillAt, QueueAt, WorkAt, StackAt, TwiceAt, NeitherAt

LEMMA PutSums ==
  ASSUME Ctl, Sums, NEW c \in Ctx, PutBack(c) \/ PutFree(c)
  PROVE  Sums'
<1>1. PICK l : Goto(c, l) /\ l \notin Counted
  <2>1. CASE PutBack(c)
    BY <2>1, RefillTarget DEF PutBack
  <2>2. CASE PutFree(c)
    BY <2>2 DEF PutFree, StartRefill, Counted, FillAt, QueueAt, WorkAt, StackAt, NeitherAt
  <2>3. QED
    BY <2>1, <2>2
<1>2. /\ pc[c] \in {"putback", "put"} /\ free' = free \cup {hold[c]}
      /\ UNCHANGED <<ready, stack, counts, posted, bdBuf>>
  BY DEF PutBack, PutFree, At, ring
<1>3. /\ Cardinality(free) \in Nat /\ Cardinality(free') = Cardinality(free) + 1
      /\ free' \subseteq Buf
  BY <1>2, HeldApart, PoolCard, SumTypes DEF Holding
<1>4. Cardinality(ready) \in Nat /\ Cardinality(stack) \in Nat
  BY PoolCard, SumTypes
<1>5. /\ Shift(c, l, FillAt) = -1 /\ Shift(c, l, {"class"}) = 0
      /\ Shift(c, l, {"acct"}) = 0 /\ Shift(c, l, QueueAt) = 0
      /\ Shift(c, l, WorkAt) = 0 /\ Shift(c, l, StackAt) = 0
      /\ Shift(c, l, TwiceAt) = 0 /\ Shift(c, l, NeitherAt) = 0
  BY <1>1, <1>2
     DEF Shift, In, Counted, FillAt, QueueAt, WorkAt, StackAt, TwiceAt, NeitherAt
<1>6. QED
  BY <1>1, <1>2, <1>3, <1>4, <1>5, PoolStep, SumTypes

LEMMA PostSums ==
  ASSUME Ctl, Sums, NEW c \in Ctx, Post(c)
  PROVE  Sums'
<1>1. /\ pc[c] = "post" /\ Goto(c, "acct") /\ posted' = posted + 1
      /\ bdBuf[refill] = NoBuf /\ refill \in Slot
      /\ bdBuf' = [bdBuf EXCEPT ![refill] = hold[c]]
      /\ UNCHANGED <<free, ready, stack, counts>>
  BY DEF Post, At, CanPost, pools, Ctl, RingInv, TypeOK, TypeRing
<1>2. hold[c] \in Buf \ Posted
  BY <1>1, HeldApart DEF Holding
<1>3. Posted' = Posted \cup {hold[c]}
  BY <1>1, <1>2, PostedPut DEF Ctl, RingInv, TypeOK
<1>4. Cardinality(Posted') = posted' /\ posted' \in Nat
  BY <1>1, <1>2, <1>3, PoolCard, SumTypes DEF Sums
<1>5. /\ Cardinality(free) \in Nat /\ Cardinality(ready) \in Nat
      /\ Cardinality(stack) \in Nat /\ OwnerSum' = OwnerSum /\ OwnerSum \in Int
  BY <1>1, PoolCard, SumTypes DEF OwnerSum, counts
<1>6. QED
  BY <1>1, <1>4, <1>5, SumsStep, SumTypes
     DEF Sums, counts, Shift, In, FillAt, QueueAt, WorkAt, StackAt, TwiceAt, NeitherAt

LEMMA RefillSums ==
  ASSUME Ctl, Sums, NEW c \in Ctx, Refill(c)
  PROVE  Sums'
<1>1. CASE PopEmpty(c) \/ UpdateTail(c)
  <2>1. PICK l : Goto(c, l) /\ l \notin Counted
    BY <1>1, RefillTarget DEF PopEmpty, UpdateTail
  <2>2. pc[c] \in {"pop", "tail"} /\ UNCHANGED <<counts, pools, ring>>
    BY <1>1 DEF PopEmpty, UpdateTail, At
  <2>3. QED
    BY <2>1, <2>2, SumsKept
       DEF Counted, FillAt, QueueAt, WorkAt, StackAt, NeitherAt, pools, ring
<1>2. CASE PostRefused(c)
  <2>1. /\ pc[c] = "post" /\ Goto(c, "putback")
        /\ UNCHANGED <<free, ready, stack, bdBuf, posted, cFree, cDma, cReady, cWorker,
                       cStack>>
    BY <1>2 DEF PostRefused, At, ring, pools, counts
  <2>2. QED
    BY <2>1, CountStep, SumTypes
       DEF Sums, Shift, In, FillAt, QueueAt, WorkAt, StackAt, TwiceAt, NeitherAt
<1>3. CASE PostCount(c)
  <2>1. /\ pc[c] = "acct" /\ Goto(c, "uncount") /\ cDma' = cDma + 1
        /\ UNCHANGED <<free, ready, stack, bdBuf, posted, cFree, cReady, cWorker, cStack>>
    BY <1>3 DEF PostCount, At, ring, pools, counts
  <2>2. QED
    BY <2>1, CountStep, SumTypes
       DEF Sums, Shift, In, FillAt, QueueAt, WorkAt, StackAt, TwiceAt, NeitherAt
<1>4. CASE PostUncount(c)
  <2>1. /\ pc[c] = "uncount" /\ Goto(c, "pop") /\ cFree' = cFree - 1
        /\ UNCHANGED <<free, ready, stack, bdBuf, posted, cDma, cReady, cWorker, cStack>>
    BY <1>4 DEF PostUncount, At, ring, pools, counts
  <2>2. QED
    BY <2>1, CountStep, SumTypes
       DEF Sums, Shift, In, FillAt, QueueAt, WorkAt, StackAt, TwiceAt, NeitherAt
<1>5. CASE Give(c)
  <2>1. /\ pc[c] = "give" /\ Goto(c, "put") /\ cFree' = cFree + 1
        /\ UNCHANGED <<free, ready, stack, bdBuf, posted, cDma, cReady, cWorker, cStack>>
    BY <1>5 DEF Give, At, ring, pools, counts
  <2>2. QED
    BY <2>1, CountStep, SumTypes
       DEF Sums, Shift, In, FillAt, QueueAt, WorkAt, StackAt, TwiceAt, NeitherAt
<1>6. QED
  BY <1>1, <1>2, <1>3, <1>4, <1>5, PopSums, PostSums, PutSums DEF Refill

LEMMA PollSums ==
  ASSUME Ctl, Sums, NEW c \in Ctx, Poll(c)
  PROVE  Sums'
<1>1. CASE PollTake(c)
  <2>1. /\ pc[c] = "poll" /\ Goto(c, "class") /\ posted' = posted - 1
        /\ consume \in Slot /\ bdBuf[consume] # NoBuf
        /\ bdBuf' = [bdBuf EXCEPT ![consume] = NoBuf]
        /\ UNCHANGED <<free, ready, stack, counts>>
    BY <1>1 DEF PollTake, At, pools, Ctl, RingInv, TypeOK, TypeRing
  <2>2. Posted' = Posted \ {bdBuf[consume]}
    BY <2>1, PostedTake DEF Ctl, RingInv, TypeOK, OwnedOnce
  <2>3. bdBuf[consume] \in Posted
    BY <2>1 DEF Posted
  <2>4. Cardinality(Posted') = posted' /\ posted' \in Nat
    <3>1. Cardinality(Posted') = Cardinality(Posted) - 1
      BY <2>2, <2>3, PoolCard, SumTypes
    <3>2. posted > 0
      <4>1. IsFiniteSet(Posted)
        BY SumTypes, FS_Subset, BufCountAssumption
      <4>2. Cardinality(Posted) # 0
        BY <2>3, <4>1, FS_EmptySet
      <4>3. QED
        BY <4>2, SumTypes DEF Sums
    <3>3. QED
      BY <2>1, <3>1, <3>2, SumTypes DEF Sums
  <2>5. /\ Cardinality(free) \in Nat /\ Cardinality(ready) \in Nat
        /\ Cardinality(stack) \in Nat /\ OwnerSum' = OwnerSum /\ OwnerSum \in Int
    BY <2>1, PoolCard, SumTypes DEF OwnerSum, counts
  <2>6. QED
    BY <2>1, <2>4, <2>5, SumsStep, SumTypes
       DEF Sums, counts, Shift, In, FillAt, QueueAt, WorkAt, StackAt, TwiceAt, NeitherAt
<1>2. CASE PollUncount(c)
  <2>1. /\ pc[c] = "class" /\ Goto(c, "route") /\ cDma' = cDma - 1
        /\ UNCHANGED <<free, ready, stack, bdBuf, posted, cFree, cReady, cWorker, cStack>>
    BY <1>2 DEF PollUncount, At, ring, pools, counts
  <2>2. QED
    BY <2>1, CountStep, SumTypes
       DEF Sums, Shift, In, FillAt, QueueAt, WorkAt, StackAt, TwiceAt, NeitherAt
<1>3. CASE PollIntercept(c)
  <2>1. /\ pc[c] = "route" /\ Goto(c, "give")
        /\ UNCHANGED <<free, ready, stack, bdBuf, posted, cFree, cDma, cReady, cWorker,
                       cStack>>
    BY <1>3 DEF PollIntercept, At, ring, pools, counts
  <2>2. QED
    BY <2>1, CountStep, SumTypes
       DEF Sums, Shift, In, FillAt, QueueAt, WorkAt, StackAt, TwiceAt, NeitherAt
<1>4. CASE PollCount(c)
  <2>1. /\ pc[c] = "route" /\ Goto(c, "enqueue") /\ cReady' = cReady + 1
        /\ UNCHANGED <<free, ready, stack, bdBuf, posted, cFree, cDma, cWorker, cStack>>
    BY <1>4 DEF PollCount, At, ring, pools, counts
  <2>2. QED
    BY <2>1, CountStep, SumTypes
       DEF Sums, Shift, In, FillAt, QueueAt, WorkAt, StackAt, TwiceAt, NeitherAt
<1>5. CASE PollReady(c)
  <2>1. /\ pc[c] = "enqueue" /\ Goto(c, "poll") /\ ready' = ready \cup {hold[c]}
        /\ UNCHANGED <<free, stack, counts, posted, bdBuf>>
    BY <1>5 DEF PollReady, PollNext, At, ring
  <2>2. /\ Cardinality(ready') = Cardinality(ready) + 1 /\ Cardinality(ready) \in Nat
        /\ ready' \subseteq Buf
    BY <2>1, HeldApart, PoolCard, SumTypes DEF Holding
  <2>3. Cardinality(free) \in Nat /\ Cardinality(stack) \in Nat
    BY PoolCard, SumTypes
  <2>4. /\ Shift(c, "poll", FillAt) = 0 /\ Shift(c, "poll", {"class"}) = 0
        /\ Shift(c, "poll", {"acct"}) = 0 /\ Shift(c, "poll", QueueAt) = -1
        /\ Shift(c, "poll", WorkAt) = 0 /\ Shift(c, "poll", StackAt) = 0
        /\ Shift(c, "poll", TwiceAt) = 0 /\ Shift(c, "poll", NeitherAt) = 0
    BY <2>1 DEF Shift, In, FillAt, QueueAt, WorkAt, StackAt, TwiceAt, NeitherAt
  <2>5. QED
    BY <2>1, <2>2, <2>3, <2>4, PoolStep, SumTypes
<1>6. CASE PollIdle(c) \/ PollOrphan(c)
  <2>1. pc[c] = "poll" /\ UNCHANGED <<counts, free, ready, stack, bdBuf, posted>>
    BY <1>6 DEF PollIdle, PollOrphan, At, pools, ring
  <2>2. Goto(c, "pop") \/ Goto(c, "idle")
    BY <1>6 DEF PollIdle, PollOrphan, PollEnd, StartRefill
  <2>3. QED
    BY <2>1, <2>2, SumsKept DEF Counted, FillAt, QueueAt, WorkAt, StackAt, NeitherAt
<1>7. QED
  BY <1>1, <1>2, <1>3, <1>4, <1>5, <1>6 DEF Poll

(* The worker takes a frame, drops it, or hands it to the stack; a packet   *)
(* is freed.                                                                *)
LEMMA WorkerSums ==
  ASSUME Ctl, Sums, WorkerStep
  PROVE  Sums'
<1>1. "rxt" \in Ctx
  BY DEF Ctx
<1>2. CASE WorkerGet
  <2>1. PICK b \in ready : ready' = ready \ {b}
    BY <1>2 DEF WorkerGet
  <2>2. /\ Cardinality(ready') = Cardinality(ready) - 1 /\ Cardinality(ready) \in Nat
        /\ ready' \subseteq Buf
    BY <2>1, PoolCard, SumTypes
  <2>3. /\ pc["rxt"] = "idle" /\ Goto("rxt", "took")
        /\ UNCHANGED <<free, stack, counts, posted, bdBuf>>
    BY <1>2 DEF WorkerGet, At, ring
  <2>4. Cardinality(free) \in Nat /\ Cardinality(stack) \in Nat
    BY PoolCard, SumTypes
  <2>5. QED
    BY <1>1, <2>2, <2>3, <2>4, PoolStep, SumTypes
       DEF Shift, In, FillAt, QueueAt, WorkAt, StackAt, TwiceAt, NeitherAt
<1>3. CASE WorkerUncount
  <2>1. /\ pc["rxt"] = "took" /\ Goto("rxt", "enter") /\ cReady' = cReady - 1
        /\ UNCHANGED <<free, ready, stack, bdBuf, posted, cFree, cDma, cWorker, cStack>>
    BY <1>3 DEF WorkerUncount, At, ring, pools, counts
  <2>2. QED
    BY <1>1, <2>1, CountStep, SumTypes
       DEF Sums, Shift, In, FillAt, QueueAt, WorkAt, StackAt, TwiceAt, NeitherAt
<1>4. CASE WorkerCount
  <2>1. /\ pc["rxt"] = "enter" /\ Goto("rxt", "work") /\ cWorker' = cWorker + 1
        /\ UNCHANGED <<free, ready, stack, bdBuf, posted, cFree, cDma, cReady, cStack>>
    BY <1>4 DEF WorkerCount, At, ring, pools, counts
  <2>2. QED
    BY <1>1, <2>1, CountStep, SumTypes
       DEF Sums, Shift, In, FillAt, QueueAt, WorkAt, StackAt, TwiceAt, NeitherAt
<1>5. CASE WorkerRelease
  <2>1. /\ pc["rxt"] = "work" /\ Goto("rxt", "give") /\ cWorker' = cWorker - 1
        /\ UNCHANGED <<free, ready, stack, bdBuf, posted, cFree, cDma, cReady, cStack>>
    BY <1>5 DEF WorkerRelease, At, ring, pools, counts
  <2>2. QED
    BY <1>1, <2>1, CountStep, SumTypes
       DEF Sums, Shift, In, FillAt, QueueAt, WorkAt, StackAt, TwiceAt, NeitherAt
<1>6. CASE WorkerZeroCopy
  <2>1. /\ pc["rxt"] = "work" /\ Goto("rxt", "handoff") /\ cStack' = cStack + 1
        /\ cStack < MaxStack
        /\ UNCHANGED <<free, ready, stack, bdBuf, posted, cFree, cDma, cReady, cWorker>>
    BY <1>6 DEF WorkerZeroCopy, At, ring, pools, counts
  <2>2. QED
    BY <1>1, <2>1, CountStep, SumTypes
       DEF Sums, Shift, In, FillAt, QueueAt, WorkAt, StackAt, TwiceAt, NeitherAt
<1>7. CASE WorkerHandOff
  <2>1. /\ pc["rxt"] = "handoff" /\ Goto("rxt", "recv") /\ cWorker' = cWorker - 1
        /\ UNCHANGED <<free, ready, stack, bdBuf, posted, cFree, cDma, cReady, cStack>>
    BY <1>7 DEF WorkerHandOff, At, ring, pools, counts
  <2>2. QED
    BY <1>1, <2>1, CountStep, SumTypes
       DEF Sums, Shift, In, FillAt, QueueAt, WorkAt, StackAt, TwiceAt, NeitherAt
<1>8. CASE RecvKept
  <2>1. /\ pc["rxt"] = "recv" /\ Goto("rxt", "idle") /\ stack' = stack \cup {hold["rxt"]}
        /\ UNCHANGED <<free, ready, counts, posted, bdBuf>>
    BY <1>8 DEF RecvKept, At, ring
  <2>2. /\ Cardinality(stack') = Cardinality(stack) + 1 /\ Cardinality(stack) \in Nat
        /\ stack' \subseteq Buf
    BY <1>1, <2>1, HeldApart, PoolCard, SumTypes DEF Holding
  <2>3. Cardinality(free) \in Nat /\ Cardinality(ready) \in Nat
    BY PoolCard, SumTypes
  <2>4. /\ Shift("rxt", "idle", FillAt) = 0 /\ Shift("rxt", "idle", {"class"}) = 0
        /\ Shift("rxt", "idle", {"acct"}) = 0 /\ Shift("rxt", "idle", QueueAt) = 0
        /\ Shift("rxt", "idle", WorkAt) = 0 /\ Shift("rxt", "idle", StackAt) = -1
        /\ Shift("rxt", "idle", TwiceAt) = 0 /\ Shift("rxt", "idle", NeitherAt) = 0
    BY <2>1 DEF Shift, In, FillAt, QueueAt, WorkAt, StackAt, TwiceAt, NeitherAt
  <2>5. QED
    BY <1>1, <2>1, <2>2, <2>3, <2>4, PoolStep, SumTypes
<1>9. CASE RecvFreed
  <2>1. /\ pc["rxt"] = "recv" /\ Goto("rxt", "give") /\ cStack' = cStack - 1
        /\ UNCHANGED <<free, ready, stack, bdBuf, posted, cFree, cDma, cReady, cWorker>>
    BY <1>9 DEF RecvFreed, At, ring, pools, counts
  <2>2. QED
    BY <1>1, <2>1, CountStep, SumTypes
       DEF Sums, Shift, In, FillAt, QueueAt, WorkAt, StackAt, TwiceAt, NeitherAt
<1>10. QED
  BY <1>2, <1>3, <1>4, <1>5, <1>6, <1>7, <1>8, <1>9 DEF WorkerStep

LEMMA AppSums ==
  ASSUME Ctl, Sums, NEW c \in Apps, AppFree(c)
  PROVE  Sums'
<1>1. PICK b \in stack : stack' = stack \ {b}
  BY DEF AppFree
<1>2. /\ Cardinality(stack) \in Nat /\ Cardinality(stack') = Cardinality(stack) - 1
      /\ stack' \subseteq Buf
  BY <1>1, PoolCard, SumTypes
<1>3. /\ c \in Ctx /\ pc[c] = "idle" /\ Goto(c, "give") /\ cStack' = cStack - 1
      /\ UNCHANGED <<free, ready, cFree, cDma, cReady, cWorker, bdBuf, posted>>
  BY DEF AppFree, At, ring, Ctx
<1>4. Posted' = Posted
  BY <1>3 DEF Posted
<1>5. /\ Cardinality(free) \in Nat /\ Cardinality(ready) \in Nat
      /\ OwnerSum' = OwnerSum - 1 /\ OwnerSum \in Int /\ Cardinality(Posted') = posted'
  BY <1>3, <1>4, PoolCard, SumTypes DEF OwnerSum, Sums
<1>6. QED
  BY <1>2, <1>3, <1>5, SumsStep, SumTypes
     DEF Sums, Shift, In, FillAt, QueueAt, WorkAt, StackAt, TwiceAt, NeitherAt

(* emz_rx_direct_recover gives back exactly the posted buffers: none is in  *)
(* the free FIFO, and there are rx_bd_posted of them.                       *)
LEMMA RecoverSums ==
  ASSUME Ctl, Sums, WqRecover
  PROVE  Sums'
<1>1. /\ pc["wq"] = "idle" /\ Goto("wq", "pop") /\ posted' = 0
      /\ cDma' = cDma - Cardinality(Posted) /\ cFree' = cFree + Cardinality(Posted)
      /\ free' = free \cup Posted
      /\ UNCHANGED <<ready, stack, cReady, cWorker, cStack>>
  BY DEF WqRecover, At, StartRefill, ResetIndices
<1>2. Posted' = {}
  BY DEF WqRecover, Posted
<1>3. Cardinality(free') = Cardinality(free) + Cardinality(Posted)
      /\ Cardinality(free) \in Nat /\ Cardinality(Posted) \in Nat
  <2>1. IsFiniteSet(free) /\ IsFiniteSet(Posted)
    BY SumTypes, FS_Subset, BufCountAssumption
  <2>2. free \cap Posted = {}
    BY DEF Ctl, OwnedOnce
  <2>3. Cardinality(free \cap Posted) = 0
    BY <2>2, FS_EmptySet
  <2>4. Cardinality(free \cup Posted)
          = Cardinality(free) + Cardinality(Posted) - Cardinality(free \cap Posted)
    BY <2>1, FS_Union
  <2>5. Cardinality(free) \in Nat /\ Cardinality(Posted) \in Nat
    BY <2>1, FS_CardinalityType
  <2>6. QED
    BY <1>1, <2>3, <2>4, <2>5
<1>4. Cardinality(Posted') = 0 /\ free' \subseteq Buf /\ "wq" \in Ctx
  BY <1>1, <1>2, FS_EmptySet, SumTypes DEF Ctx
<1>5. /\ Cardinality(ready) \in Nat /\ Cardinality(stack) \in Nat
      /\ OwnerSum' = OwnerSum /\ OwnerSum \in Int
  BY <1>1, <1>3, PoolCard, SumTypes DEF OwnerSum
<1>6. \A L \in {FillAt, {"class"}, {"acct"}, QueueAt, WorkAt, StackAt, TwiceAt, NeitherAt} :
        Shift("wq", "pop", L) = 0
  BY <1>1 DEF Shift, In, FillAt, QueueAt, WorkAt, StackAt, TwiceAt, NeitherAt
<1>7. /\ cFree \in Int /\ cDma \in Int /\ cReady \in Int /\ cWorker \in Int
      /\ cStack \in Int /\ cStack <= MaxStack /\ posted = Cardinality(Posted)
  BY SumTypes DEF Sums
<1>8. /\ cFree' = cFree + Cardinality(free') - Cardinality(free) + Shift("wq", "pop", FillAt)
      /\ cDma' = cDma + posted' - posted + Shift("wq", "pop", {"class"})
                    - Shift("wq", "pop", {"acct"})
  BY <1>1, <1>3, <1>6, <1>7
<1>9. /\ cReady' = cReady + Cardinality(ready') - Cardinality(ready)
                       + Shift("wq", "pop", QueueAt)
      /\ cWorker' = cWorker + Shift("wq", "pop", WorkAt)
      /\ cStack' = cStack + Cardinality(stack') - Cardinality(stack)
                       + Shift("wq", "pop", StackAt)
      /\ OwnerSum' = OwnerSum + Shift("wq", "pop", TwiceAt) - Shift("wq", "pop", NeitherAt)
  BY <1>1, <1>5, <1>6, <1>7
<1>10. {free', ready', stack'} \subseteq SUBSET Buf
  BY <1>1, <1>4, SumTypes
<1>11. posted' \in Nat /\ cStack' <= MaxStack /\ Cardinality(Posted') = posted'
  BY <1>1, <1>4, <1>7
<1>12. QED
  BY <1>1, <1>4, <1>8, <1>9, <1>10, <1>11, SumsStep

LEMMA OtherSums ==
  ASSUME Ctl, Sums,
         \/ IsrRead \/ IsrAck \/ WqPoll \/ RecoverClear
         \/ \E c \in {"wq", "boot"} : Arm(c) \/ IrqEnable(c)
  PROVE  Sums'
<1>1. UNCHANGED <<counts, free, ready, stack, bdBuf, posted>>
  BY DEF IsrRead, IsrAck, WqPoll, RecoverClear, Arm, IrqEnable, ring, pools
<1>2. PICK c \in Ctx, l \in Label : Goto(c, l) /\ pc[c] \notin Counted /\ l \notin Counted
  <2>1. {"isr", "wq", "boot"} \subseteq Ctx
    BY DEF Ctx
  <2>2. CASE IsrRead \/ IsrAck
    BY <2>1, <2>2 DEF IsrRead, IsrAck, At, Counted, Label,
       FillAt, QueueAt, WorkAt, StackAt, NeitherAt
  <2>3. CASE WqPoll \/ RecoverClear
    BY <2>1, <2>3 DEF WqPoll, RecoverClear, At, Counted, Label,
       FillAt, QueueAt, WorkAt, StackAt, NeitherAt
  <2>4. CASE \E c \in {"wq", "boot"} : Arm(c) \/ IrqEnable(c)
    BY <2>1, <2>4 DEF Arm, IrqEnable, At, Counted, Label,
       FillAt, QueueAt, WorkAt, StackAt, NeitherAt
  <2>5. QED
    BY <2>2, <2>3, <2>4
<1>3. QED
  BY <1>1, <1>2, SumsKept

LEMMA StepSums == Ctl /\ Sums /\ [Next]_vars => Sums'
<1> SUFFICES ASSUME Ctl, Sums, [Next]_vars PROVE Sums'
  OBVIOUS
<1>1. CASE Isr
  BY <1>1, OtherSums, PollSums, RefillSums DEF Isr, Ctx
<1>2. CASE WqPoll
  BY <1>2, OtherSums
<1>3. CASE WqRecover
  BY <1>3, RecoverSums
<1>4. CASE WqStep \/ Boot
  BY <1>4, OtherSums, PollSums, RefillSums DEF WqStep, Boot, Ctx
<1>5. CASE Worker
  BY <1>5, WorkerSums, RefillSums DEF Worker, WorkerStep, Ctx
<1>6. CASE \E c \in Apps : App(c)
  BY <1>6, AppSums, RefillSums DEF App, Ctx
<1>7. CASE Engine \/ UNCHANGED vars
  <2>1. UNCHANGED <<counts, free, ready, stack, bdBuf, posted, pc>>
    BY <1>7 DEF Engine, EngineComplete, EngineBadDescriptor, EngineFault, vars,
       ring, pools, locals
  <2>2. Posted' = Posted /\ \A L : NumAt(L)' = NumAt(L)
    BY <2>1 DEF Posted, NumAt
  <2>3. QED
    BY <2>1, <2>2 DEF Sums, CountsMatch, OwnerSum, counts
<1>8. QED
  BY <1>1, <1>2, <1>3, <1>4, <1>5, <1>6, <1>7 DEF Next

LEMMA SumsAlways == Spec => []Sums
<1>1. Init => Sums
  <2> SUFFICES ASSUME Init PROVE Sums
    OBVIOUS
  <2>1. \A L \in SUBSET (Label \ {"idle", "pop"}) : NumAt(L) = 0
    <3> TAKE L \in SUBSET (Label \ {"idle", "pop"})
    <3>1. {c \in Ctx : pc[c] \in L} = {}
      BY DEF Init
    <3>2. QED
      BY <3>1, FS_EmptySet DEF NumAt
  <2>2. Posted = {}
    BY DEF Init, Posted
  <2>3. QED
    BY <2>1, <2>2, FS_EmptySet, BufCountAssumption, NAssumption, LimitAssumption
       DEF Init, Sums, CountsMatch, OwnerSum, Label
<1>2. QED
  BY <1>1, StepSums, CtlAlways, PTL DEF Spec

(* The scheduler lets at most one cooperative thread be at work.            *)
OneCoop == \A c, d \in Coop : Busy(c) /\ Busy(d) => c = d

LEMMA RunsAlone ==
  ASSUME TypeLocals, OneCoop, NEW c \in Ctx, CanRun(c), NEW l, Goto(c, l)
  PROVE  OneCoop'
<1>1. Coop \subseteq Ctx
  BY AppsAssumption DEF Coop, Ctx
<1>2. \A d \in Ctx \ {c} : pc'[d] = pc[d]
  BY DEF Goto, TypeLocals
<1>3. CASE c \in Coop
  <2>1. c # "isr"
    BY <1>3, AppsAssumption DEF Coop
  <2>2. \A d \in Coop \ {c} : pc'[d] = "idle"
    BY <1>1, <1>2, <2>1 DEF CanRun, Busy
  <2>3. QED
    BY <2>2 DEF OneCoop, Busy
<1>4. CASE c \notin Coop
  BY <1>1, <1>2, <1>4 DEF OneCoop, Busy
<1>5. QED
  BY <1>3, <1>4

(* Every step is a step of one context that may run, or the engine's.       *)
LEMMA StepRuns ==
  ASSUME Next
  PROVE  pc' = pc \/ \E c \in Ctx : CanRun(c) /\ \E l : Goto(c, l)
<1>1. ASSUME NEW c \in Ctx, Refill(c) PROVE CanRun(c) /\ \E l : Goto(c, l)
  BY <1>1 DEF Refill, Pop, PopEmpty, Post, PostRefused, PostCount, PostUncount,
     PutBack, UpdateTail, Give, PutFree, RefillEnd, Return, StartRefill, At
<1>2. ASSUME NEW c \in Ctx, Poll(c) PROVE CanRun(c) /\ \E l : Goto(c, l)
  BY <1>2 DEF Poll, PollTake, PollIdle, PollOrphan, PollUncount, PollIntercept,
     PollCount, PollReady, PollEnd, PollNext, StartRefill, At
<1>3. ASSUME NEW c \in Ctx, Arm(c) \/ IrqEnable(c) PROVE CanRun(c) /\ \E l : Goto(c, l)
  BY <1>3 DEF Arm, IrqEnable, At
<1>4. CASE Isr
  BY <1>1, <1>2, <1>4 DEF Isr, IsrRead, IsrAck, At, Ctx
<1>5. CASE WqPoll \/ WqRecover \/ WqStep
  BY <1>1, <1>2, <1>3, <1>5
     DEF WqPoll, WqRecover, WqStep, RecoverClear, StartRefill, At, Ctx
<1>6. CASE Boot
  BY <1>1, <1>3, <1>6 DEF Boot, Ctx
<1>7. CASE Worker
  BY <1>1, <1>7 DEF Worker, WorkerGet, WorkerUncount, WorkerCount, WorkerRelease,
     WorkerZeroCopy, WorkerHandOff, RecvKept, RecvFreed, At, Ctx
<1>8. CASE \E c \in Apps : App(c)
  BY <1>1, <1>8 DEF App, AppFree, At, Ctx
<1>9. CASE Engine
  BY <1>9 DEF Engine, EngineComplete, EngineBadDescriptor, EngineFault, locals
<1>10. QED
  BY <1>4, <1>5, <1>6, <1>7, <1>8, <1>9 DEF Next

LEMMA OneCoopAlways == Spec => []OneCoop
<1>1. Init => OneCoop
  BY AppsAssumption DEF Init, OneCoop, Busy, Coop, Ctx
<1>2. Ctl /\ OneCoop /\ [Next]_vars => OneCoop'
  <2> SUFFICES ASSUME Ctl, OneCoop, [Next]_vars PROVE OneCoop'
    OBVIOUS
  <2>1. CASE pc' = pc
    BY <2>1 DEF OneCoop, Busy
  <2>2. CASE pc' # pc
    BY <2>2, StepRuns, RunsAlone, SumTypes DEF vars, locals
  <2>3. QED
    BY <2>1, <2>2
<1>3. QED
  BY <1>1, <1>2, CtlAlways, PTL DEF Spec

(* So no more than MaxDrift contexts are inside a transfer at once.         *)
LEMMA FewBusy ==
  ASSUME OneCoop, NEW L, "idle" \notin L
  PROVE  NumAt(L) \in 0 .. MaxDrift
<1> DEFINE S == {c \in Ctx : pc[c] \in L}
           B == {c \in Coop : Busy(c)}
           P == Apps \ CoopApps
<1>1. IsFiniteSet(P) /\ Cardinality(P) \in Nat
  BY AppsAssumption, FS_Subset, FS_CardinalityType
<1>2. IsFiniteSet(B) /\ Cardinality(B) \in 0 .. 1
  <2>1. CASE B = {}
    BY <2>1, FS_EmptySet
  <2>2. CASE B # {}
    <3>1. PICK b : b \in B
      BY <2>2
    <3>2. B = {b}
      BY <3>1 DEF OneCoop
    <3>3. QED
      BY <3>2, FS_Singleton
  <2>3. QED
    BY <2>1, <2>2
<1>3. IsFiniteSet({"isr"}) /\ Cardinality({"isr"}) = 1
  BY FS_Singleton
<1>4. IsFiniteSet({"isr"} \cup B) /\ Cardinality({"isr"} \cup B) \in 0 .. 2
  <2>1. /\ IsFiniteSet({"isr"} \cup B)
        /\ Cardinality({"isr"} \cup B) = 1 + Cardinality(B) - Cardinality({"isr"} \cap B)
    BY <1>2, <1>3, FS_Union
  <2>2. IsFiniteSet({"isr"} \cap B)
    BY <1>3, FS_Subset
  <2>3. Cardinality({"isr"} \cap B) \in Nat /\ Cardinality({"isr"} \cup B) \in Nat
    BY <2>1, <2>2, FS_CardinalityType
  <2>4. QED
    BY <1>2, <2>1, <2>3
<1>5. /\ IsFiniteSet(({"isr"} \cup B) \cup P)
      /\ Cardinality(({"isr"} \cup B) \cup P) <= MaxDrift
  <2>1. /\ IsFiniteSet(({"isr"} \cup B) \cup P)
        /\ Cardinality(({"isr"} \cup B) \cup P)
             = Cardinality({"isr"} \cup B) + Cardinality(P)
               - Cardinality(({"isr"} \cup B) \cap P)
    BY <1>1, <1>4, FS_Union
  <2>2. IsFiniteSet(({"isr"} \cup B) \cap P)
    BY <1>1, FS_Subset
  <2>3. /\ Cardinality(({"isr"} \cup B) \cap P) \in Nat
        /\ Cardinality(({"isr"} \cup B) \cup P) \in Nat
    BY <2>1, <2>2, FS_CardinalityType
  <2>4. QED
    BY <1>1, <1>4, <2>1, <2>3 DEF MaxDrift
<1>6. S \subseteq ({"isr"} \cup B) \cup P
  BY DEF Ctx, Coop, Busy
<1>7. IsFiniteSet(S) /\ Cardinality(S) <= Cardinality(({"isr"} \cup B) \cup P)
  BY <1>5, <1>6, FS_Subset
<1>8. Cardinality(S) \in Nat /\ Cardinality(({"isr"} \cup B) \cup P) \in Nat
  BY <1>5, <1>7, FS_CardinalityType
<1>9. MaxDrift \in Nat
  BY <1>1 DEF MaxDrift
<1>10. QED
  BY <1>5, <1>7, <1>8, <1>9 DEF NumAt

(* Each owner counter is the population it counts, give or take the         *)
(* contexts that stand between moving a buffer and counting it, and the sum *)
(* of the five, which emz_rx_owner_sum_update tests, drifts from N by at    *)
(* most one for the interrupt, one for the cooperative threads together and *)
(* one for each preemptible thread.                                         *)
THEOREM AccountingCorrect == Spec => []OwnerAccounting
<1>1. Sums /\ OneCoop => OwnerAccounting
  <2> SUFFICES ASSUME Sums, OneCoop PROVE OwnerAccounting
    OBVIOUS
  <2>1. NumAt({"uncount", "handoff"}) \in 0 .. MaxDrift
    BY FewBusy
  <2>2. NumAt({"route", "give", "enter"}) \in 0 .. MaxDrift
    BY FewBusy
  <2>3. MaxDrift \in Nat
    BY AppsAssumption, FS_Subset, FS_CardinalityType DEF MaxDrift
  <2>4. OwnerSum \in N - MaxDrift .. N + MaxDrift
    <3>1. OwnerSum = N + NumAt({"uncount", "handoff"}) - NumAt({"route", "give", "enter"})
      BY DEF Sums, CountsMatch
    <3>2. QED
      BY <2>1, <2>2, <2>3, <3>1, NAssumption
  <2>5. QED
    BY <2>4 DEF Sums, OwnerAccounting
<1>2. QED
  BY <1>1, SumsAlways, OneCoopAlways, PTL

----------------------------------------------------------------------------
(* RingRefilled.  A context that holds a refused buffer may find room again *)
(* when it puts the buffer back, and does not look.  It need not: it was    *)
(* refused by a full ring, so while it waits too few buffers are left for   *)
(* the others to fill the ring to its limit without passing through here.   *)

Limit == IF MaxInflight < N THEN MaxInflight ELSE N
Offering == NumAt({"post"})
Backing == NumAt({"putback"})

(* A context that will pop, or give back, a buffer before it is done.       *)
Coming(c) ==
  \/ pc[c] \in {"pop", "post", "acct", "uncount", "give", "put",
                "class", "route", "enqueue"}
  \/ pc[c] \in {"took", "enter", "work", "handoff", "recv"}
  \/ completed[c]

Supply == ready # {} \/ stack # {} \/ \E c \in Ctx : Coming(c)

RefillOK ==
  /\ posted <= MaxInflight
  /\ Backing + Limit <= N
  /\ posted < Limit /\ free # {} => Supply

LEMMA NumFacts ==
  /\ \A L : NumAt(L) \in Nat
  /\ \A L : (\A c \in Ctx : pc[c] \notin L) => NumAt(L) = 0
  /\ \A L : (\E c \in Ctx : pc[c] \in L) => NumAt(L) > 0
  /\ \A L, M : L \cap M = {} => NumAt(L \cup M) = NumAt(L) + NumAt(M)
<1>1. \A L : IsFiniteSet({c \in Ctx : pc[c] \in L})
  BY FiniteCtx, FS_Subset
<1>2. \A L : NumAt(L) \in Nat
  BY <1>1, FS_CardinalityType DEF NumAt
<1>3. ASSUME NEW L, \A c \in Ctx : pc[c] \notin L
      PROVE  NumAt(L) = 0
  <2>1. {c \in Ctx : pc[c] \in L} = {}
    BY <1>3
  <2>2. QED
    BY <2>1, FS_EmptySet DEF NumAt
<1>4. ASSUME NEW L, NEW c \in Ctx, pc[c] \in L
      PROVE  NumAt(L) > 0
  <2>1. {d \in Ctx : pc[d] \in L} # {}
    BY <1>4
  <2>2. Cardinality({d \in Ctx : pc[d] \in L}) # 0
    BY <1>1, <2>1, FS_EmptySet
  <2>3. QED
    BY <1>2, <2>2 DEF NumAt
<1>5. ASSUME NEW L, NEW M, L \cap M = {}
      PROVE  NumAt(L \cup M) = NumAt(L) + NumAt(M)
  <2> DEFINE S == {c \in Ctx : pc[c] \in L}
             T == {c \in Ctx : pc[c] \in M}
  <2>1. {c \in Ctx : pc[c] \in L \cup M} = S \cup T /\ S \cap T = {}
    BY <1>5
  <2>2. Cardinality(S \cup T) = Cardinality(S) + Cardinality(T) - Cardinality(S \cap T)
    BY <1>1, FS_Union
  <2>3. Cardinality(S \cap T) = 0
    BY <2>1, FS_EmptySet
  <2>4. Cardinality(S) \in Nat /\ Cardinality(T) \in Nat
    BY <1>1, FS_CardinalityType
  <2> HIDE DEF S, T
  <2>5. Cardinality(S \cup T) = Cardinality(S) + Cardinality(T)
    BY <2>2, <2>3, <2>4
  <2>6. NumAt(L \cup M) = Cardinality(S \cup T)
    BY <2>1 DEF NumAt
  <2>7. NumAt(L) = Cardinality(S) /\ NumAt(M) = Cardinality(T)
    BY DEF NumAt, S, T
  <2>8. QED
    BY <2>5, <2>6, <2>7
<1>6. QED
  BY <1>2, <1>3, <1>4, <1>5

(* The other places where a context holds a buffer.                         *)
OnItsWay == {"put", "class", "recv"} \cup QueueAt \cup WorkAt \cup NeitherAt

LEMMA OnItsWaySplit ==
  NumAt(OnItsWay) = NumAt({"put"}) + NumAt({"class"}) + NumAt({"recv"})
                      + NumAt(QueueAt) + NumAt(WorkAt) + NumAt(NeitherAt)
<1>1. /\ NumAt({"put", "class"}) = NumAt({"put"}) + NumAt({"class"})
      /\ NumAt({"put", "class", "recv"}) = NumAt({"put", "class"}) + NumAt({"recv"})
  <2>1. /\ {"put", "class"} = {"put"} \cup {"class"}
        /\ {"put", "class", "recv"} = {"put", "class"} \cup {"recv"}
        /\ {"put"} \cap {"class"} = {} /\ {"put", "class"} \cap {"recv"} = {}
    OBVIOUS
  <2>2. QED
    BY <2>1, NumFacts
<1>2. /\ {"put", "class", "recv"} \cap QueueAt = {}
      /\ ({"put", "class", "recv"} \cup QueueAt) \cap WorkAt = {}
      /\ ({"put", "class", "recv"} \cup QueueAt \cup WorkAt) \cap NeitherAt = {}
  BY DEF QueueAt, WorkAt, NeitherAt
<1>3. /\ NumAt({"put", "class", "recv"} \cup QueueAt)
           = NumAt({"put", "class", "recv"}) + NumAt(QueueAt)
      /\ NumAt({"put", "class", "recv"} \cup QueueAt \cup WorkAt)
           = NumAt({"put", "class", "recv"} \cup QueueAt) + NumAt(WorkAt)
      /\ NumAt(OnItsWay)
           = NumAt({"put", "class", "recv"} \cup QueueAt \cup WorkAt) + NumAt(NeitherAt)
  BY <1>2, NumFacts DEF OnItsWay
<1>4. QED
  BY <1>1, <1>3, NumFacts

LEMMA FillAtSplit ==
  NumAt(FillAt) = Offering + NumAt({"acct"}) + NumAt({"uncount"}) + Backing + NumAt({"put"})
<1>1. /\ {"post", "acct"} = {"post"} \cup {"acct"} /\ {"post"} \cap {"acct"} = {}
      /\ {"post", "acct", "uncount"} = {"post", "acct"} \cup {"uncount"}
      /\ {"post", "acct"} \cap {"uncount"} = {}
      /\ {"post", "acct", "uncount", "putback"} = {"post", "acct", "uncount"} \cup {"putback"}
      /\ {"post", "acct", "uncount"} \cap {"putback"} = {}
      /\ FillAt = {"post", "acct", "uncount", "putback"} \cup {"put"}
      /\ {"post", "acct", "uncount", "putback"} \cap {"put"} = {}
  BY DEF FillAt
<1>2. /\ NumAt({"post", "acct"}) = NumAt({"post"}) + NumAt({"acct"})
      /\ NumAt({"post", "acct", "uncount"}) = NumAt({"post", "acct"}) + NumAt({"uncount"})
      /\ NumAt({"post", "acct", "uncount", "putback"})
           = NumAt({"post", "acct", "uncount"}) + NumAt({"putback"})
      /\ NumAt(FillAt) = NumAt({"post", "acct", "uncount", "putback"}) + NumAt({"put"})
  BY <1>1, NumFacts
<1>3. QED
  BY <1>2, NumFacts DEF Offering, Backing

(* Every buffer is in a pool, in a descriptor, or with one context: what    *)
(* the five counters and their sum say together.                            *)
LEMMA Conserved ==
  ASSUME Ctl, Sums
  PROVE  Cardinality(free) + Cardinality(ready) + Cardinality(stack) + posted
           + Offering + Backing + NumAt(OnItsWay) = N
<1>1. /\ cFree = Cardinality(free) + NumAt(FillAt)
      /\ cDma = posted + NumAt({"class"}) - NumAt({"acct"})
      /\ cReady = Cardinality(ready) + NumAt(QueueAt) /\ cWorker = NumAt(WorkAt)
      /\ cStack = Cardinality(stack) + NumAt(StackAt)
      /\ cFree + cDma + cReady + cWorker + cStack = N + NumAt(TwiceAt) - NumAt(NeitherAt)
  BY DEF Sums, CountsMatch, OwnerSum, FillAt, QueueAt, WorkAt, StackAt, TwiceAt,
     NeitherAt
<1>2. /\ NumAt(StackAt) = NumAt({"handoff"}) + NumAt({"recv"})
      /\ NumAt(TwiceAt) = NumAt({"uncount"}) + NumAt({"handoff"})
  <2>1. /\ StackAt = {"handoff"} \cup {"recv"} /\ {"handoff"} \cap {"recv"} = {}
        /\ TwiceAt = {"uncount"} \cup {"handoff"} /\ {"uncount"} \cap {"handoff"} = {}
    BY DEF StackAt, TwiceAt
  <2>2. QED
    BY <2>1, NumFacts
<1>3. /\ Cardinality(free) \in Nat /\ Cardinality(ready) \in Nat
      /\ Cardinality(stack) \in Nat /\ posted \in Nat /\ N \in Nat
  BY PoolCard, SumTypes
<1> DEFINE P == Offering                B == Backing
           A == NumAt({"acct"})         U == NumAt({"uncount"})
           T == NumAt({"put"})          C == NumAt({"class"})
           H == NumAt({"handoff"})      R == NumAt({"recv"})
           Q == NumAt(QueueAt)          W == NumAt(WorkAt)
           X == NumAt(NeitherAt)
<1>4. /\ P \in Nat /\ B \in Nat /\ A \in Nat /\ U \in Nat /\ T \in Nat /\ C \in Nat
      /\ H \in Nat /\ R \in Nat /\ Q \in Nat /\ W \in Nat /\ X \in Nat
  BY NumFacts DEF Offering, Backing
<1>5. /\ cFree = Cardinality(free) + (P + A + U + B + T)
      /\ cDma = posted + C - A
      /\ cReady = Cardinality(ready) + Q /\ cWorker = W
      /\ cStack = Cardinality(stack) + (H + R)
      /\ cFree + cDma + cReady + cWorker + cStack = N + (U + H) - X
  BY <1>1, <1>2, FillAtSplit
<1>6. NumAt(OnItsWay) = T + C + R + Q + W + X
  BY OnItsWaySplit
<1> HIDE DEF P, B, A, U, T, C, H, R, Q, W, X
<1>7. Cardinality(free) + Cardinality(ready) + Cardinality(stack) + posted + P + B
        + (T + C + R + Q + W + X) = N
  BY <1>3, <1>4, <1>5
<1>8. QED
  BY <1>6, <1>7 DEF P, B

(* The free, posted, offered and refused buffers are different buffers.     *)
LEMMA SumBound ==
  ASSUME Ctl, Sums
  PROVE  /\ Offering \in Nat /\ Backing \in Nat /\ posted \in 0 .. N
         /\ Offering + Backing + posted <= N
         /\ ~Supply => Cardinality(free) + Backing + posted = N
<1>1. /\ Cardinality(free) \in Nat /\ Cardinality(ready) \in Nat
      /\ Cardinality(stack) \in Nat
  BY PoolCard, SumTypes
<1>2. posted \in 0 .. N
  BY DEF Ctl, RingInv, TypeOK, TypeRing
<1>3. Offering \in Nat /\ Backing \in Nat /\ NumAt(OnItsWay) \in Nat
  BY NumFacts DEF Offering, Backing
<1>4. ASSUME ~Supply
      PROVE  Cardinality(free) + Backing + posted = N
  <2>1. Offering = 0 /\ NumAt(OnItsWay) = 0
    BY <1>4, NumFacts
       DEF Supply, Coming, Offering, OnItsWay, QueueAt, WorkAt, NeitherAt
  <2>2. Cardinality(ready) = 0 /\ Cardinality(stack) = 0
    BY <1>4, FS_EmptySet DEF Supply
  <2>3. QED
    BY <1>1, <1>2, <1>3, <2>1, <2>2, Conserved, NAssumption
<1>5. QED
  BY <1>1, <1>2, <1>3, <1>4, Conserved, NAssumption

LEMMA LimitFacts ==
  Limit \in Nat /\ Limit <= N /\ Limit <= MaxInflight /\ (Limit = N \/ Limit = MaxInflight)
BY NAssumption, LimitAssumption DEF Limit

LEMMA LimitRoom ==
  \A b, d \in Nat : d <= b /\ b + Limit <= N => d + Limit <= N
BY LimitFacts, NAssumption

(* The slot after the window is taken only when the window is the ring.     *)
LEMMA RefillSlot ==
  ASSUME Ctl, bdBuf[refill] # NoBuf
  PROVE  posted = N
<1>1. posted \in 0 .. N /\ refill = Plus(consume, posted) /\ Ahead(refill) < posted
  BY RingFacts
<1>2. consume \in 0 .. N - 1 /\ N \in Nat
  BY RingFacts DEF Slot
<1>3. QED
  BY <1>1, <1>2 DEF Plus, Ahead

(* A step after which some buffer is on its way, and none is newly refused. *)
LEMMA RefillSupplied ==
  ASSUME Ctl, RefillOK, NEW c \in Ctx, NEW l, Goto(c, l), l # "putback",
         posted' <= posted, posted \in Nat, posted' \in Nat, Supply'
  PROVE  RefillOK'
<1>1. /\ Backing \in Nat /\ Backing' \in Nat
      /\ Backing' + In(pc[c], {"putback"}) = Backing + In(l, {"putback"})
  BY NumMove DEF Ctl, RingInv, TypeOK, In, Backing
<1>2. In(l, {"putback"}) = 0 /\ In(pc[c], {"putback"}) \in {0, 1}
  BY DEF In
<1>3. Backing \in Nat /\ Backing' \in Nat /\ Backing' <= Backing
  BY <1>1, <1>2
<1>4. Limit' = Limit
  BY DEF Limit
<1>5. posted <= MaxInflight /\ Backing + Limit <= N
  BY DEF RefillOK
<1>6. posted' <= MaxInflight
  BY <1>5, LimitAssumption
<1>7. Backing' + Limit' <= N
  <2>1. Backing' + Limit <= N
    BY <1>3, <1>5, LimitRoom
  <2>2. QED
    BY <1>4, <2>1
<1>8. QED
  BY <1>6, <1>7 DEF RefillOK

(* A step that takes none off its way.                                      *)
LEMMA RefillKept ==
  ASSUME Ctl, RefillOK, NEW c \in Ctx, NEW l, Goto(c, l), l # "putback",
         free' \subseteq free, ready' = ready, stack' = stack, posted' = posted,
         Coming(c) => Coming(c)', \A d \in Ctx \ {c} : completed'[d] = completed[d]
  PROVE  RefillOK'
<1>1. /\ Backing \in Nat /\ Backing' \in Nat
      /\ Backing' + In(pc[c], {"putback"}) = Backing + In(l, {"putback"})
  BY NumMove DEF Ctl, RingInv, TypeOK, In, Backing
<1>2. In(l, {"putback"}) = 0 /\ In(pc[c], {"putback"}) \in {0, 1}
  BY DEF In
<1>3. Backing \in Nat /\ Backing' \in Nat /\ Backing' <= Backing
  BY <1>1, <1>2
<1>4. \A d \in Ctx : Coming(d) => Coming(d)'
  BY DEF Coming, Goto, Ctl, RingInv, TypeOK, TypeLocals
<1>5. Supply => Supply'
  BY <1>4 DEF Supply
<1>6. Limit' = Limit
  BY DEF Limit
<1>7. Backing' + Limit' <= N
  <2>1. Backing' + Limit <= N
    BY <1>3, LimitRoom DEF RefillOK
  <2>2. QED
    BY <1>6, <2>1
<1>8. QED
  BY <1>5, <1>6, <1>7 DEF RefillOK

(* emz_rx_direct_post_one refuses only when the ring is at its limit.       *)
LEMMA RefusedOK ==
  ASSUME Ctl, Sums, RefillOK, NEW c \in Ctx, PostRefused(c)
  PROVE  RefillOK'
<1>1. /\ pc[c] = "post" /\ Goto(c, "putback")
      /\ UNCHANGED <<posted, free, ready, stack, completed>>
  BY DEF PostRefused, At, ring, pools
<1>2. posted >= Limit
  <2>1. CASE bdBuf[refill] # NoBuf
    <3>1. posted = N
      BY <2>1, RefillSlot
    <3>2. QED
      BY <3>1, LimitFacts
  <2>2. CASE ~(inflight < MaxInflight)
    BY <2>2, LimitFacts, LimitAssumption DEF Ctl, RingInv, RingWindow, TypeOK, TypeRing
  <2>3. QED
    BY <2>1, <2>2 DEF PostRefused, CanPost
<1>3. Offering > 0
  BY <1>1, NumFacts DEF Offering
<1>4. Backing \in Nat /\ Backing' \in Nat /\ Backing' = Backing + 1
  <2>1. /\ Backing \in Nat /\ Backing' \in Nat
        /\ Backing' + In(pc[c], {"putback"}) = Backing + In("putback", {"putback"})
    BY <1>1, NumMove DEF Ctl, RingInv, TypeOK, In, Backing
  <2>2. In(pc[c], {"putback"}) = 0 /\ In("putback", {"putback"}) = 1
    BY <1>1 DEF In
  <2>3. QED
    BY <2>1, <2>2
<1>5. Backing + 1 + posted <= N
  BY <1>3, SumBound, NAssumption
<1>6. Limit' = Limit
  BY DEF Limit
<1>7. QED
  BY <1>1, <1>2, <1>4, <1>5, <1>6, LimitFacts, NAssumption, SumBound DEF RefillOK

(* Before a refused buffer is put back there were either free buffers left, *)
(* and so somebody on the way, or too few out to leave the ring short.      *)
LEMMA PutBackOK ==
  ASSUME Ctl, Sums, RefillOK, NEW c \in Ctx, PutBack(c)
  PROVE  RefillOK'
<1>1. PICK l : Goto(c, l) /\ l \notin Counted
  BY RefillTarget DEF PutBack
<1>2. pc[c] = "putback" /\ UNCHANGED <<posted, ready, stack, completed>>
  BY DEF PutBack, At, ring
<1>3. Backing \in Nat /\ Backing' \in Nat /\ Backing' <= Backing
  <2>1. /\ Backing \in Nat /\ Backing' \in Nat
        /\ Backing' + In(pc[c], {"putback"}) = Backing + In(l, {"putback"})
    BY <1>1, NumMove DEF Ctl, RingInv, TypeOK, In, Backing
  <2>2. In(pc[c], {"putback"}) = 1 /\ In(l, {"putback"}) = 0
    BY <1>1, <1>2 DEF In, Counted, FillAt, QueueAt, WorkAt, StackAt, NeitherAt
  <2>3. QED
    BY <2>1, <2>2
<1>4. Supply => Supply'
  <2>1. \A d \in Ctx : Coming(d) => Coming(d)'
    BY <1>1, <1>2 DEF Coming, Goto, Ctl, RingInv, TypeOK, TypeLocals
  <2>2. QED
    BY <1>2, <2>1 DEF Supply
<1>5. posted < Limit => Supply
  <2>1. SUFFICES ASSUME posted < Limit, ~Supply, free = {} PROVE FALSE
    BY DEF RefillOK
  <2>2. Backing + posted = N
    BY <2>1, SumBound, FS_EmptySet, NAssumption
  <2>3. QED
    BY <2>1, <2>2, SumBound, LimitFacts, NAssumption DEF RefillOK
<1>6. Limit' = Limit
  BY DEF Limit
<1>7. Backing' + Limit' <= N
  <2>1. Backing' + Limit <= N
    BY <1>3, LimitRoom DEF RefillOK
  <2>2. QED
    BY <1>6, <2>1
<1>8. posted' <= MaxInflight /\ (posted' < Limit' => Supply')
  BY <1>2, <1>4, <1>5, <1>6 DEF RefillOK
<1>9. QED
  BY <1>7, <1>8 DEF RefillOK

LEMMA RefillRefill ==
  ASSUME Ctl, Sums, RefillOK, NEW c \in Ctx, Refill(c)
  PROVE  RefillOK'
<1>1. TypeLocals /\ posted \in Nat
  BY SumTypes
<1>2. CASE Pop(c)
  <2>1. Goto(c, "post") /\ posted' = posted
    BY <1>2 DEF Pop, ring
  <2>2. Supply'
    BY <1>1, <2>1 DEF Supply, Coming, Goto, TypeLocals
  <2>3. QED
    BY <1>1, <2>1, <2>2, RefillSupplied
<1>3. CASE PopEmpty(c) \/ UpdateTail(c)
  <2>1. CASE PopEmpty(c)
    <3>1. PICK l : Goto(c, l) /\ l \notin Counted
      BY <2>1, RefillTarget DEF PopEmpty
    <3>2. /\ pc[c] = "pop" /\ free = {} /\ free' = {} /\ UNCHANGED posted
      BY <2>1 DEF PopEmpty, At, ring, pools
    <3>3. /\ Backing \in Nat /\ Backing' \in Nat
          /\ Backing' + In(pc[c], {"putback"}) = Backing + In(l, {"putback"})
      BY <1>1, <3>1, NumMove DEF In, Backing
    <3>4. In(pc[c], {"putback"}) = 0 /\ In(l, {"putback"}) = 0
      BY <3>1, <3>2 DEF In, Counted, FillAt, QueueAt, WorkAt, StackAt, NeitherAt
    <3>5. Backing' = Backing /\ Limit' = Limit
      BY <3>3, <3>4 DEF Limit
    <3>6. QED
      BY <3>2, <3>5 DEF RefillOK
  <2>2. CASE UpdateTail(c)
    <3>1. PICK l : Goto(c, l) /\ l \notin Counted
      BY <2>2, RefillTarget DEF UpdateTail
    <3>2. /\ pc[c] = "tail" /\ UNCHANGED <<free, ready, stack, posted, completed>>
      BY <2>2 DEF UpdateTail, At, ring, pools
    <3>3. Coming(c) => Coming(c)'
      BY <3>2 DEF Coming
    <3>4. QED
      BY <3>1, <3>2, <3>3, RefillKept
         DEF Counted, FillAt, QueueAt, WorkAt, StackAt, NeitherAt
  <2>3. QED
    BY <1>3, <2>1, <2>2
<1>4. CASE Post(c)
  <2>1. posted' = posted + 1 /\ inflight < MaxInflight /\ Goto(c, "acct") /\ pc[c] = "post"
    BY <1>4 DEF Post, CanPost, At
  <2>2. inflight = posted
    BY DEF Ctl, RingInv, RingWindow
  <2>3. /\ Backing \in Nat /\ Backing' \in Nat
        /\ Backing' + In(pc[c], {"putback"}) = Backing + In("acct", {"putback"})
    BY <1>1, <2>1, NumMove DEF In, Backing
  <2>4. In(pc[c], {"putback"}) = 0 /\ In("acct", {"putback"}) = 0
    BY <2>1 DEF In
  <2>5. Backing' = Backing /\ Limit' = Limit
    BY <2>3, <2>4 DEF Limit
  <2>6. Supply'
    BY <1>1, <2>1 DEF Supply, Coming, Goto, TypeLocals
  <2>7. QED
    BY <1>1, <2>1, <2>2, <2>5, <2>6, LimitAssumption DEF RefillOK
<1>5. CASE PostCount(c) \/ PostUncount(c) \/ Give(c) \/ PutFree(c)
  <2>1. posted' = posted
    BY <1>5 DEF PostCount, PostUncount, Give, PutFree, ring
  <2>2. PICK l \in {"uncount", "put", "pop"} : Goto(c, l)
    BY <1>5 DEF PostCount, PostUncount, Give, PutFree, StartRefill
  <2>3. Supply'
    BY <1>1, <2>2 DEF Supply, Coming, Goto, TypeLocals
  <2>4. QED
    BY <1>1, <2>1, <2>2, <2>3, RefillSupplied
<1>6. QED
  BY <1>2, <1>3, <1>4, <1>5, RefusedOK, PutBackOK DEF Refill

LEMMA PollRefill ==
  ASSUME Ctl, Sums, RefillOK, NEW c \in Ctx, Poll(c)
  PROVE  RefillOK'
<1>1. TypeLocals /\ posted \in Nat /\ posted \in 0 .. N
  BY SumTypes, SumBound
<1>2. CASE PollTake(c)
  <2>1. Goto(c, "class") /\ posted' = posted - 1 /\ posted > 0
    BY <1>2, RingFacts DEF PollTake, Ahead
  <2>2. Supply'
    BY <1>1, <2>1 DEF Supply, Coming, Goto, TypeLocals
  <2>3. posted' \in Nat /\ posted' <= posted
    BY <1>1, <2>1
  <2>4. QED
    BY <1>1, <2>1, <2>2, <2>3, RefillSupplied
<1>3. CASE PollUncount(c) \/ PollIntercept(c) \/ PollCount(c) \/ PollReady(c)
  <2>1. posted' = posted
    BY <1>3 DEF PollUncount, PollIntercept, PollCount, PollReady, ring
  <2>2. PICK l : Goto(c, l) /\ l \in {"route", "give", "enqueue", "poll"}
    BY <1>3 DEF PollUncount, PollIntercept, PollCount, PollReady, PollNext
  <2>3. l = "poll" => completed'[c]
    BY <1>1, <1>3, <2>2 DEF PollUncount, PollIntercept, PollCount, PollReady, PollNext,
       Goto, TypeLocals
  <2>4. Supply'
    BY <1>1, <2>2, <2>3 DEF Supply, Coming, Goto, TypeLocals
  <2>5. QED
    BY <1>1, <2>1, <2>2, <2>4, RefillSupplied
<1>4. CASE PollIdle(c) \/ PollOrphan(c)
  <2>1. /\ pc[c] = "poll" /\ PollEnd(c)
        /\ UNCHANGED <<free, ready, stack, posted>>
    BY <1>4 DEF PollIdle, PollOrphan, At, ring, pools
  <2>2. CASE completed[c]
    <3>1. Goto(c, "pop")
      BY <2>1, <2>2 DEF PollEnd, StartRefill
    <3>2. Supply'
      BY <1>1, <3>1 DEF Supply, Coming, Goto, TypeLocals
    <3>3. QED
      BY <1>1, <2>1, <3>1, <3>2, RefillSupplied
  <2>3. CASE ~completed[c]
    <3>1. Goto(c, "idle") /\ ~Coming(c)
      BY <2>1, <2>3 DEF PollEnd, Coming
    <3>2. \A d \in Ctx \ {c} : completed'[d] = completed[d]
      BY <1>1, <2>1 DEF PollEnd, TypeLocals
    <3>3. QED
      BY <2>1, <3>1, <3>2, RefillKept
  <2>4. QED
    BY <2>2, <2>3
<1>5. QED
  BY <1>2, <1>3, <1>4 DEF Poll

LEMMA WorkRefill ==
  ASSUME Ctl, Sums, RefillOK,
         \/ WorkerStep
         \/ \E c \in Apps : AppFree(c)
  PROVE  RefillOK'
<1>1. TypeLocals /\ posted \in Nat /\ "rxt" \in Ctx /\ Apps \subseteq Ctx
  BY SumTypes DEF Ctx
<1>2. posted' = posted
  BY DEF WorkerStep, WorkerGet, WorkerUncount, WorkerCount, WorkerRelease,
     WorkerZeroCopy, WorkerHandOff, RecvKept, RecvFreed, AppFree, ring
<1>3. CASE RecvKept
  <2>1. Goto("rxt", "idle") /\ stack' # {}
    BY <1>3 DEF RecvKept
  <2>2. Supply'
    BY <2>1 DEF Supply
  <2>3. QED
    BY <1>1, <1>2, <2>1, <2>2, RefillSupplied
<1>4. CASE ~RecvKept
  <2>1. PICK c \in Ctx, l \in {"took", "enter", "work", "give", "handoff", "recv"} : Goto(c, l)
    BY <1>1, <1>4 DEF WorkerStep, WorkerGet, WorkerUncount, WorkerCount,
       WorkerRelease, WorkerZeroCopy, WorkerHandOff, RecvFreed, AppFree
  <2>2. Supply'
    BY <1>1, <2>1 DEF Supply, Coming, Goto, TypeLocals
  <2>3. QED
    BY <1>1, <1>2, <2>1, <2>2, RefillSupplied
<1>5. QED
  BY <1>3, <1>4

LEMMA OtherRefill ==
  ASSUME Ctl, Sums, RefillOK,
         \/ IsrRead \/ IsrAck \/ WqPoll \/ RecoverClear
         \/ \E c \in {"wq", "boot"} : Arm(c) \/ IrqEnable(c)
  PROVE  RefillOK'
<1>1. UNCHANGED <<free, ready, stack, posted, completed>>
  BY DEF IsrRead, IsrAck, WqPoll, RecoverClear, Arm, IrqEnable, ring, pools
<1>2. PICK c \in Ctx, l \in Label :
        Goto(c, l) /\ pc[c] \in {"idle", "ack", "clear", "arm", "irqon"} /\ l # "putback"
  <2>1. {"isr", "wq", "boot"} \subseteq Ctx
    BY DEF Ctx
  <2>2. CASE IsrRead \/ IsrAck
    BY <2>1, <2>2 DEF IsrRead, IsrAck, At, Label
  <2>3. CASE WqPoll \/ RecoverClear
    BY <2>1, <2>3 DEF WqPoll, RecoverClear, At, Label
  <2>4. CASE \E c \in {"wq", "boot"} : Arm(c) \/ IrqEnable(c)
    BY <2>1, <2>4 DEF Arm, IrqEnable, At, Label
  <2>5. QED
    BY <2>2, <2>3, <2>4
<1>3. Coming(c) => Coming(c)'
  BY <1>1, <1>2 DEF Coming
<1>4. QED
  BY <1>1, <1>2, <1>3, RefillKept

LEMMA StepRefill == Ctl /\ Sums /\ RefillOK /\ [Next]_vars => RefillOK'
<1> SUFFICES ASSUME Ctl, Sums, RefillOK, [Next]_vars PROVE RefillOK'
  OBVIOUS
<1>1. CASE Isr
  BY <1>1, OtherRefill, PollRefill, RefillRefill DEF Isr, Ctx
<1>2. CASE WqPoll
  BY <1>2, OtherRefill
<1>3. CASE WqRecover
  <2>1. TypeLocals /\ posted \in Nat /\ "wq" \in Ctx
    BY SumTypes DEF Ctx
  <2>2. Goto("wq", "pop") /\ posted' = 0
    BY <1>3 DEF WqRecover, StartRefill, ResetIndices
  <2>3. Supply'
    BY <2>1, <2>2 DEF Supply, Coming, Goto, TypeLocals
  <2>4. QED
    BY <2>1, <2>2, <2>3, RefillSupplied
<1>4. CASE WqStep \/ Boot
  BY <1>4, OtherRefill, PollRefill, RefillRefill DEF WqStep, Boot, Ctx
<1>5. CASE Worker
  BY <1>5, WorkRefill, RefillRefill DEF Worker, WorkerStep, Ctx
<1>6. CASE \E c \in Apps : App(c)
  BY <1>6, WorkRefill, RefillRefill DEF App, Ctx
<1>7. CASE Engine \/ UNCHANGED vars
  <2>1. UNCHANGED <<free, ready, stack, posted, pc, completed>>
    BY <1>7 DEF Engine, EngineComplete, EngineBadDescriptor, EngineFault, vars,
       ring, pools, locals
  <2>2. UNCHANGED <<Backing, Limit, Supply>>
    BY <2>1 DEF Backing, NumAt, Limit, Supply, Coming
  <2>3. QED
    BY <2>1, <2>2 DEF RefillOK
<1>8. QED
  BY <1>1, <1>2, <1>3, <1>4, <1>5, <1>6, <1>7 DEF Next

LEMMA RefillAlways == Spec => [](Ctl /\ Sums /\ RefillOK)
<1>1. Init => RefillOK
  <2> SUFFICES ASSUME Init PROVE RefillOK
    OBVIOUS
  <2>1. pc["boot"] = "pop" /\ "boot" \in Ctx
    BY DEF Init, Ctx
  <2>2. Supply
    BY <2>1 DEF Supply, Coming
  <2>3. Backing = 0
    <3>1. \A c \in Ctx : pc[c] \notin {"putback"}
      BY DEF Init
    <3>2. QED
      BY <3>1, NumFacts DEF Backing
  <2>4. QED
    BY <2>2, <2>3, LimitFacts, LimitAssumption, NAssumption DEF Init, RefillOK
<1>2. QED
  BY <1>1, StepRefill, SumsAlways, CtlAlways, PTL DEF Spec

(* The safety half of RingComesBack: a ring below its limit is never left   *)
(* to itself.  A frame waits for the worker, or is with the stack, or some  *)
(* context will look for a buffer, or give one back, before it is done;     *)
(* that they go on is the fairness the liveness property adds.              *)
RingSupplied == posted < Limit => Supply

THEOREM SupplyCorrect == Spec => []RingSupplied
<1>1. Ctl /\ Sums /\ RefillOK => RingSupplied
  <2> SUFFICES ASSUME Ctl, Sums, RefillOK, posted < Limit, ~Supply PROVE FALSE
    BY DEF RingSupplied
  <2>1. Cardinality(free) + Backing + posted = N /\ Backing \in Nat /\ posted \in 0 .. N
    BY SumBound
  <2>2. free = {}
    BY DEF RefillOK
  <2>3. Backing + posted = N /\ Backing + Limit <= N
    BY <2>1, <2>2, FS_EmptySet, NAssumption DEF RefillOK
  <2>4. QED
    BY <2>1, <2>3, LimitFacts, NAssumption
<1>2. QED
  BY <1>1, RefillAlways, PTL

(* When every context has left the driver and no frame is out with the      *)
(* worker or the stack, the ring is filled to its limit: the race of two    *)
(* refills around a full ring (pop, refuse, put back) leaves none short.    *)
THEOREM RefillCorrect == Spec => []RingRefilled
<1>1. Ctl /\ Sums /\ RefillOK /\ RingSupplied => RingRefilled
  <2> SUFFICES ASSUME Ctl, Sums, RefillOK, RingSupplied, AllIdle, ready = {}, stack = {}
               PROVE  posted = Limit
    BY DEF RingRefilled, Limit
  <2>1. \A c \in Ctx : pc[c] = "idle"
    BY DEF AllIdle, Busy
  <2>2. \A c \in Ctx : ~completed[c]
    BY <2>1, LocalsDead DEF Ctl, Refilling, Releasing, Polling
  <2>3. ~Supply
    BY <2>1, <2>2 DEF Supply, Coming
  <2>4. posted \in 0 .. N /\ Cardinality(free) + Backing + posted = N
    BY <2>3, SumBound
  <2>5. posted <= Limit
    BY <2>4, LimitFacts, NAssumption DEF RefillOK
  <2>6. QED
    BY <2>3, <2>4, <2>5, LimitFacts, NAssumption DEF RingSupplied
<1>2. QED
  BY <1>1, RefillAlways, SupplyCorrect, PTL

=============================================================================
