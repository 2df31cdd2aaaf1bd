----------------------------- MODULE EmzRxRing -----------------------------
(***************************************************************************)
(* The direct RX ring of the emacZero driver (drivers/ethernet/            *)
(* eth_emaczero.c, CONFIG_ETH_EMACZERO_RX_DIRECT_RING): a ring of N S2MM   *)
(* descriptors, N frame buffers, and the five kinds of context that move   *)
(* the buffers: the S2MM interrupt, the system work queue (1 ms poll and   *)
(* ring recovery), the RX worker thread, the threads that free received    *)
(* packets, and the driver's initialisation.                               *)
(*                                                                         *)
(* Grain of atomicity.  The target is a uniprocessor and k_spin_lock masks *)
(* interrupts, so a section under rx_direct_lock is one step, each k_fifo  *)
(* call is one step and each update of an owner counter is one step.       *)
(* The FIFOs are sets: which buffer a get returns is left open.            *)
(* The S2MM engine is external and runs between any two steps.             *)
(***************************************************************************)
EXTENDS Integers, FiniteSets

CONSTANTS
  Buf,          \* the frame buffers, data->rx_buffers
  NoBuf,        \* NULL
  N,            \* EMZ_DMA_BUFFER_COUNT_RX: buffers, and descriptors
  MaxInflight,  \* EMZ_DMA_RX_MAX_INFLIGHT
  MaxStack,     \* EMZ_RX_MAX_STACK_OWNED_ZEROCOPY
  Apps,         \* threads that free received packets
  CoopApps,     \* the cooperative ones among them
  MaxFaults     \* bound: DMA errors the bus raises in one behaviour

ASSUME NAssumption == N \in Nat \ {0}
ASSUME BufAssumption == NoBuf \notin Buf
ASSUME BufCountAssumption == IsFiniteSet(Buf) /\ Cardinality(Buf) = N
ASSUME LimitAssumption ==
  MaxInflight \in Nat \ {0} /\ MaxStack \in Nat /\ MaxFaults \in Nat
ASSUME AppsAssumption ==
  /\ IsFiniteSet(Apps) /\ CoopApps \subseteq Apps
  /\ Apps \cap {"isr", "wq", "rxt", "boot"} = {}

Slot == 0 .. N - 1

(* Definitions named Slip... are deliberate errors, each a mistake this code *)
(* could plausibly contain.  No specification uses one: PROJECT.json names   *)
(* the definition each would replace and the property that then fails.       *)
SlipNoWrap(i) == i + 1

Succ(i) == IF i + 1 = N THEN 0 ELSE i + 1

Ctx == {"isr", "wq", "rxt", "boot"} \cup Apps
Coop == {"wq", "rxt", "boot"} \cup CoopApps

VARIABLES
  bdBuf,      \* rx_bd_buffer[]: the buffer posted in each slot, or NoBuf
  armed,      \* slots whose descriptor has a length in its control word
  done,       \* slots whose descriptor status has Cmplt or an error bit
  consume, refill, tail, posted, inflight,   \* rx_bd_*_index, rx_bd_posted
  started,    \* rx_direct_ring_started
  free, ready, stack,   \* rx_free_fifo, rx_ready_fifo, zero-copy fragments
  cFree, cDma, cReady, cWorker, cStack,      \* the five owner counters
  pending,    \* rx_direct_recover_pending
  recoverQ,   \* rx_direct_recover_work is on the system work queue
  pc, hold, ret, queued, completed,  \* per context: where it is, its rx pointer
  dmasr,      \* the interrupt bits emz_rx_direct_isr read
  irqOn,      \* dma_rx_irq is enabled
  eng, cur, tdesc, active, irq, faults,      \* the S2MM engine
  unpub,      \* history: a descriptor was posted since the last TAILDESC write
  reopened    \* history: TAILDESC was rewritten, nothing new, engine gone idle

ring   == <<bdBuf, armed, done, consume, refill, tail, posted, inflight>>
pools  == <<free, ready, stack>>
counts == <<cFree, cDma, cReady, cWorker, cStack>>
recov  == <<pending, recoverQ>>
locals == <<pc, hold, ret, queued, completed>>
engine == <<eng, cur, tdesc, active, irq, faults, unpub, reopened>>
vars   == <<ring, started, pools, counts, recov, locals, dmasr, irqOn, engine>>

----------------------------------------------------------------------------
(* Scheduling: an interrupt runs to completion over every thread, a        *)
(* cooperative thread is never preempted by a thread.                      *)

Busy(c) == pc[c] # "idle"

CanRun(c) ==
  /\ c # "isr" => ~Busy("isr")
  /\ c # "isr" => \A d \in Coop \ {c} : ~Busy(d)

Goto(c, l) == pc' = [pc EXCEPT ![c] = l]
At(c, l) == pc[c] = l /\ CanRun(c)

----------------------------------------------------------------------------
(* The S2MM engine, as the driver's comments describe it: a TAILDESC write *)
(* makes it process from its current descriptor through the tail           *)
(* inclusive; then it idles on the descriptor after the tail.              *)

WriteTail(i) ==
  /\ unpub' = FALSE
  /\ IF eng = "run"
     THEN /\ tdesc' = i
          /\ active' = TRUE
          /\ reopened' = (reopened \/ (~active /\ ~unpub))
     ELSE UNCHANGED <<tdesc, active, reopened>>
  /\ UNCHANGED <<eng, cur, irq, faults>>

(* A frame arrives and fills the current descriptor.                       *)
EngineComplete ==
  /\ eng = "run" /\ active
  /\ cur \in armed \ done
  /\ done' = done \cup {cur}
  /\ irq' = irq \cup {"ioc"}
  /\ cur' = Succ(cur)
  /\ active' = (cur # tdesc)
  /\ UNCHANGED <<bdBuf, armed, consume, refill, tail, posted, inflight,
                 started, pools, counts, recov, locals, dmasr, irqOn,
                 eng, tdesc, faults, unpub, reopened>>

(* A fetched descriptor without a length, or already complete, halts it.   *)
EngineBadDescriptor ==
  /\ eng = "run" /\ active
  /\ cur \notin armed \ done
  /\ eng' = "halted"
  /\ irq' = irq \cup {"err"}
  /\ UNCHANGED <<ring, started, pools, counts, recov, locals, dmasr, irqOn,
                 cur, tdesc, active, faults, unpub, reopened>>

(* A bus error halts it, with or without an error status written back.     *)
EngineFault ==
  /\ eng = "run" /\ active
  /\ faults < MaxFaults
  /\ faults' = faults + 1
  /\ eng' = "halted"
  /\ irq' = irq \cup {"err"}
  /\ done' \in {done, done \cup {cur}}
  /\ UNCHANGED <<bdBuf, armed, consume, refill, tail, posted, inflight,
                 started, pools, counts, recov, locals, dmasr, irqOn,
                 cur, tdesc, active, unpub, reopened>>

----------------------------------------------------------------------------
(* emz_rx_direct_refill, shared by every context: pop, post, account, and  *)
(* publish the tail once at the end.                                       *)

StartRefill(c, r) ==
  /\ Goto(c, "pop")
  /\ ret' = [ret EXCEPT ![c] = r]
  /\ queued' = [queued EXCEPT ![c] = FALSE]

(* Return to the caller; the locals are dead from there on.                 *)
Return(c) ==
  /\ Goto(c, ret[c])
  /\ ret' = [ret EXCEPT ![c] = "idle"]
  /\ queued' = [queued EXCEPT ![c] = FALSE]

RefillEnd(c) ==
  IF queued[c] THEN Goto(c, "tail") /\ UNCHANGED <<ret, queued>>
               ELSE Return(c)

Pop(c) ==
  /\ At(c, "pop")
  /\ \E b \in free :
       /\ free' = free \ {b}
       /\ hold' = [hold EXCEPT ![c] = b]
  /\ Goto(c, "post")
  /\ UNCHANGED <<ring, started, ready, stack, counts, recov, ret, queued,
                 completed, dmasr, irqOn, engine>>

PopEmpty(c) ==
  /\ At(c, "pop")
  /\ free = {}
  /\ RefillEnd(c)
  /\ UNCHANGED <<ring, started, pools, counts, recov, hold, completed, dmasr,
                 irqOn, engine>>

(* emz_rx_direct_post_one: the section under rx_direct_lock.               *)
SlipCapOffByOne == bdBuf[refill] = NoBuf /\ inflight + 1 < MaxInflight

CanPost == bdBuf[refill] = NoBuf /\ inflight < MaxInflight

Post(c) ==
  /\ At(c, "post")
  /\ CanPost
  /\ inflight' = inflight + 1
  /\ bdBuf' = [bdBuf EXCEPT ![refill] = hold[c]]
  /\ armed' = armed \cup {refill}
  /\ done' = done \ {refill}
  /\ posted' = posted + 1
  /\ refill' = Succ(refill)
  /\ tail' = refill
  /\ hold' = [hold EXCEPT ![c] = NoBuf]
  /\ unpub' = TRUE
  /\ Goto(c, "acct")
  /\ UNCHANGED <<consume, started, pools, counts, recov, ret, queued,
                 completed, dmasr, irqOn, eng, cur, tdesc, active, irq, faults,
                 reopened>>

PostRefused(c) ==
  /\ At(c, "post")
  /\ ~CanPost
  /\ Goto(c, "putback")
  /\ UNCHANGED <<ring, started, pools, counts, recov, hold, ret, queued,
                 completed, dmasr, irqOn, engine>>

(* The posted buffer enters the DMA count, then leaves the free count;      *)
(* between the two both counters have it.                                   *)
PostCount(c) ==
  /\ At(c, "acct")
  /\ cDma' = cDma + 1
  /\ Goto(c, "uncount")
  /\ UNCHANGED <<ring, started, pools, cFree, cReady, cWorker, cStack, recov,
                 hold, ret, queued, completed, dmasr, irqOn, engine>>

SlipForgetFree(c) ==
  /\ At(c, "uncount")
  /\ queued' = [queued EXCEPT ![c] = TRUE]
  /\ Goto(c, "pop")
  /\ UNCHANGED <<ring, started, pools, counts, recov, hold, ret, completed,
                 dmasr, irqOn, engine>>

PostUncount(c) ==
  /\ At(c, "uncount")
  /\ cFree' = cFree - 1
  /\ queued' = [queued EXCEPT ![c] = TRUE]
  /\ Goto(c, "pop")
  /\ UNCHANGED <<ring, started, pools, cDma, cReady, cWorker, cStack, recov,
                 hold, ret, completed, dmasr, irqOn, engine>>

SlipDropRefused(c) ==
  /\ At(c, "putback")
  /\ hold' = [hold EXCEPT ![c] = NoBuf]
  /\ RefillEnd(c)
  /\ UNCHANGED <<ring, started, pools, counts, recov, completed, dmasr, irqOn,
                 engine>>

PutBack(c) ==
  /\ At(c, "putback")
  /\ free' = free \cup {hold[c]}
  /\ hold' = [hold EXCEPT ![c] = NoBuf]
  /\ RefillEnd(c)
  /\ UNCHANGED <<ring, started, ready, stack, counts, recov, completed, dmasr,
                 irqOn, engine>>

(* emz_rx_direct_update_tail                                               *)
UpdateTail(c) ==
  /\ At(c, "tail")
  /\ IF started THEN WriteTail(tail) ELSE UNCHANGED engine
  /\ Return(c)
  /\ UNCHANGED <<ring, started, pools, counts, recov, hold, completed, dmasr,
                 irqOn>>

(* emz_release_rx_buffer: count the buffer free, give it back, then refill. *)
Give(c) ==
  /\ At(c, "give")
  /\ cFree' = cFree + 1
  /\ Goto(c, "put")
  /\ UNCHANGED <<ring, started, pools, cDma, cReady, cWorker, cStack, recov,
                 hold, ret, queued, completed, dmasr, irqOn, engine>>

SlipNoRefill(c) ==
  /\ At(c, "put")
  /\ free' = free \cup {hold[c]}
  /\ hold' = [hold EXCEPT ![c] = NoBuf]
  /\ Return(c)
  /\ UNCHANGED <<ring, started, ready, stack, counts, recov, completed, dmasr,
                 irqOn, engine>>

PutFree(c) ==
  /\ At(c, "put")
  /\ free' = free \cup {hold[c]}
  /\ hold' = [hold EXCEPT ![c] = NoBuf]
  /\ StartRefill(c, ret[c])
  /\ UNCHANGED <<ring, started, ready, stack, counts, recov, completed, dmasr,
                 irqOn, engine>>

Refill(c) ==
  \/ Pop(c) \/ PopEmpty(c)
  \/ Post(c) \/ PostRefused(c) \/ PostCount(c) \/ PostUncount(c)
  \/ PutBack(c) \/ UpdateTail(c) \/ Give(c) \/ PutFree(c)

----------------------------------------------------------------------------
(* emz_rx_direct_poll, run by the interrupt and by the work queue.         *)

SlipInvertedCas ==
  /\ pending' = TRUE
  /\ recoverQ' = (recoverQ \/ pending)

(* emz_rx_direct_request_recover: the compare-and-swap 0 -> 1 submits once. *)
RequestRecover ==
  /\ pending' = TRUE
  /\ recoverQ' = (recoverQ \/ ~pending)

PollEnd(c) ==
  /\ completed' = [completed EXCEPT ![c] = FALSE]
  /\ IF completed[c] THEN StartRefill(c, "idle")
                     ELSE Goto(c, "idle") /\ UNCHANGED <<ret, queued>>

(* The consume slot is complete: retire it and take its buffer.            *)
PollTake(c) ==
  /\ At(c, "poll")
  /\ consume \in done
  /\ bdBuf[consume] # NoBuf
  /\ hold' = [hold EXCEPT ![c] = bdBuf[consume]]
  /\ bdBuf' = [bdBuf EXCEPT ![consume] = NoBuf]
  /\ done' = done \ {consume}
  /\ posted' = posted - 1
  /\ consume' = Succ(consume)
  /\ inflight' = IF inflight > 0 THEN inflight - 1 ELSE inflight
  /\ Goto(c, "class")
  /\ UNCHANGED <<armed, refill, tail, started, pools, counts, recov, ret,
                 queued, completed, dmasr, irqOn, engine>>

PollIdle(c) ==
  /\ At(c, "poll")
  /\ consume \notin done
  /\ PollEnd(c)
  /\ UNCHANGED <<ring, started, pools, counts, recov, hold, dmasr, irqOn,
                 engine>>

(* Cmplt on a slot without a buffer: the engine wrote a descriptor it never *)
(* owned; stop and ask for a ring rebuild.                                  *)
PollOrphan(c) ==
  /\ At(c, "poll")
  /\ consume \in done
  /\ bdBuf[consume] = NoBuf
  /\ RequestRecover
  /\ PollEnd(c)
  /\ UNCHANGED <<ring, started, pools, counts, hold, dmasr, irqOn, engine>>

SlipOnePerPoll(c) ==
  completed' = [completed EXCEPT ![c] = FALSE] /\ Goto(c, "idle")

PollNext(c) ==
  completed' = [completed EXCEPT ![c] = TRUE] /\ Goto(c, "poll")

(* The taken buffer leaves the DMA count.                                   *)
PollUncount(c) ==
  /\ At(c, "class")
  /\ cDma' = cDma - 1
  /\ Goto(c, "route")
  /\ UNCHANGED <<ring, started, pools, cFree, cReady, cWorker, cStack, recov,
                 hold, ret, queued, completed, dmasr, irqOn, engine>>

(* The interceptor or the drop profile claims the frame: released at once.  *)
PollIntercept(c) ==
  /\ At(c, "route")
  /\ completed' = [completed EXCEPT ![c] = TRUE]
  /\ Goto(c, "give")
  /\ ret' = [ret EXCEPT ![c] = "poll"]
  /\ UNCHANGED <<ring, started, pools, counts, recov, hold, queued, dmasr,
                 irqOn, engine>>

(* Or it goes to the worker: counted ready, then put on the ready FIFO.     *)
PollCount(c) ==
  /\ At(c, "route")
  /\ cReady' = cReady + 1
  /\ Goto(c, "enqueue")
  /\ UNCHANGED <<ring, started, pools, cFree, cDma, cWorker, cStack, recov,
                 hold, ret, queued, completed, dmasr, irqOn, engine>>

PollReady(c) ==
  /\ At(c, "enqueue")
  /\ ready' = ready \cup {hold[c]}
  /\ hold' = [hold EXCEPT ![c] = NoBuf]
  /\ PollNext(c)
  /\ UNCHANGED <<ring, started, free, stack, counts, recov, ret, queued,
                 dmasr, irqOn, engine>>

Poll(c) ==
  \/ PollTake(c) \/ PollIdle(c) \/ PollOrphan(c) \/ PollUncount(c)
  \/ PollIntercept(c) \/ PollCount(c) \/ PollReady(c)

----------------------------------------------------------------------------
(* emz_rx_direct_isr: read DMASR, ask for recovery if halted, acknowledge   *)
(* what was read, then poll.                                                *)

IsrRead ==
  /\ At("isr", "idle")
  /\ irqOn /\ irq # {}
  /\ dmasr' = irq
  /\ IF "err" \in irq /\ eng = "halted" THEN RequestRecover
                                        ELSE UNCHANGED recov
  /\ Goto("isr", "ack")
  /\ UNCHANGED <<ring, started, pools, counts, hold, ret, queued, completed,
                 irqOn, engine>>

IsrAck ==
  /\ At("isr", "ack")
  /\ irq' = irq \ dmasr
  /\ dmasr' = {}
  /\ Goto("isr", "poll")
  /\ UNCHANGED <<ring, started, pools, counts, recov, hold, ret, queued,
                 completed, irqOn, eng, cur, tdesc, active, faults, unpub,
                 reopened>>

Isr == IsrRead \/ IsrAck \/ Poll("isr") \/ Refill("isr")

----------------------------------------------------------------------------
(* The system work queue: the 1 ms poll, and emz_rx_direct_recover.         *)

WqPoll ==
  /\ At("wq", "idle")
  /\ started
  /\ Goto("wq", "poll")
  /\ UNCHANGED <<ring, started, pools, counts, recov, hold, ret, queued,
                 completed, dmasr, irqOn, engine>>

Posted == {bdBuf[i] : i \in Slot} \ {NoBuf}

SlipKeepInflight ==
  /\ consume' = 0 /\ refill' = 0 /\ tail' = 0 /\ posted' = 0
  /\ UNCHANGED inflight

ResetIndices ==
  consume' = 0 /\ refill' = 0 /\ tail' = 0 /\ posted' = 0 /\ inflight' = 0

(* From irq_disable to the refill nothing else runs: the work queue is      *)
(* cooperative and the only interrupt that touches the ring is masked.      *)
WqRecover ==
  /\ At("wq", "idle")
  /\ recoverQ
  /\ recoverQ' = FALSE
  /\ irqOn' = FALSE
  /\ eng' = "reset" /\ active' = FALSE /\ irq' = {} /\ unpub' = FALSE
  /\ cur' = 0 /\ tdesc' = 0
  /\ started' = FALSE
  /\ bdBuf' = [i \in Slot |-> NoBuf]
  /\ armed' = {} /\ done' = {}
  /\ ResetIndices
  /\ cDma' = cDma - Cardinality(Posted)
  /\ cFree' = cFree + Cardinality(Posted)
  /\ free' = free \cup Posted
  /\ StartRefill("wq", "arm")
  /\ UNCHANGED <<ready, stack, cReady, cWorker, cStack, pending, hold,
                 completed, dmasr, faults, reopened>>

SlipAlwaysTail == active' = TRUE /\ tdesc' = tail /\ unpub' = FALSE
SlipNeverTail == active' = FALSE /\ UNCHANGED <<tdesc, unpub>>

ArmTail ==
  IF posted > 0 THEN active' = TRUE /\ tdesc' = tail /\ unpub' = FALSE
                ELSE active' = FALSE /\ UNCHANGED <<tdesc, unpub>>

(* emz_rx_direct_arm: reset, CURDESC, RS, and a tail if anything is posted. *)
Arm(c) ==
  /\ At(c, "arm")
  /\ started' = TRUE
  /\ eng' = "run" /\ irq' = {}
  /\ cur' = consume
  /\ ArmTail
  /\ Goto(c, "irqon")
  /\ UNCHANGED <<ring, pools, counts, recov, hold, ret, queued, completed,
                 dmasr, irqOn, faults, reopened>>

(* irq_enable: the boot path is finished, recovery still has its pending    *)
(* flag to clear.                                                           *)
IrqEnable(c) ==
  /\ At(c, "irqon")
  /\ irqOn' = TRUE
  /\ Goto(c, IF c = "wq" THEN "clear" ELSE "idle")
  /\ UNCHANGED <<ring, started, pools, counts, recov, hold, ret, queued,
                 completed, dmasr, engine>>

RecoverClear ==
  /\ At("wq", "clear")
  /\ pending' = FALSE
  /\ Goto("wq", "idle")
  /\ UNCHANGED <<ring, started, pools, counts, recoverQ, hold, ret, queued,
                 completed, dmasr, irqOn, engine>>

WqStep ==
  \/ Poll("wq") \/ Refill("wq")
  \/ Arm("wq") \/ IrqEnable("wq") \/ RecoverClear

Boot == Refill("boot") \/ Arm("boot") \/ IrqEnable("boot")

----------------------------------------------------------------------------
(* emz_rx_thread: take a frame; drop, copy or deliver it.                   *)

WorkerGet ==
  /\ At("rxt", "idle")
  /\ \E b \in ready :
       /\ ready' = ready \ {b}
       /\ hold' = [hold EXCEPT !["rxt"] = b]
  /\ Goto("rxt", "took")
  /\ UNCHANGED <<ring, started, free, stack, counts, recov, ret, queued,
                 completed, dmasr, irqOn, engine>>

(* The frame leaves the ready count, then enters the worker's.              *)
WorkerUncount ==
  /\ At("rxt", "took")
  /\ cReady' = cReady - 1
  /\ Goto("rxt", "enter")
  /\ UNCHANGED <<ring, started, pools, cFree, cDma, cWorker, cStack, recov,
                 hold, ret, queued, completed, dmasr, irqOn, engine>>

WorkerCount ==
  /\ At("rxt", "enter")
  /\ cWorker' = cWorker + 1
  /\ Goto("rxt", "work")
  /\ UNCHANGED <<ring, started, pools, cFree, cDma, cReady, cStack, recov,
                 hold, ret, queued, completed, dmasr, irqOn, engine>>

(* Interface down, invalid frame, interceptor, failed allocation, or the    *)
(* copy fallback after the copy: the worker releases the buffer itself.     *)
WorkerRelease ==
  /\ At("rxt", "work")
  /\ cWorker' = cWorker - 1
  /\ ret' = [ret EXCEPT !["rxt"] = "idle"]
  /\ Goto("rxt", "give")
  /\ UNCHANGED <<ring, started, pools, cFree, cDma, cReady, cStack, recov, hold,
                 queued, completed, dmasr, irqOn, engine>>

(* Zero-copy hand-off, only below the stack-owned cap: counted as the       *)
(* stack's, then no longer as the worker's.                                 *)
WorkerZeroCopy ==
  /\ At("rxt", "work")
  /\ cStack < MaxStack
  /\ cStack' = cStack + 1
  /\ Goto("rxt", "handoff")
  /\ UNCHANGED <<ring, started, pools, cFree, cDma, cReady, cWorker, recov,
                 hold, ret, queued, completed, dmasr, irqOn, engine>>

WorkerHandOff ==
  /\ At("rxt", "handoff")
  /\ cWorker' = cWorker - 1
  /\ Goto("rxt", "recv")
  /\ UNCHANGED <<ring, started, pools, cFree, cDma, cReady, cStack, recov,
                 hold, ret, queued, completed, dmasr, irqOn, engine>>

(* net_recv_data keeps the packet in a socket queue ...                     *)
RecvKept ==
  /\ At("rxt", "recv")
  /\ stack' = stack \cup {hold["rxt"]}
  /\ hold' = [hold EXCEPT !["rxt"] = NoBuf]
  /\ Goto("rxt", "idle")
  /\ UNCHANGED <<ring, started, free, ready, counts, recov, ret, queued,
                 completed, dmasr, irqOn, engine>>

(* ... or the packet is freed in the worker: emz_rx_frag_destroy.           *)
RecvFreed ==
  /\ At("rxt", "recv")
  /\ cStack' = cStack - 1
  /\ ret' = [ret EXCEPT !["rxt"] = "idle"]
  /\ Goto("rxt", "give")
  /\ UNCHANGED <<ring, started, pools, cFree, cDma, cReady, cWorker, recov, hold,
                 queued, completed, dmasr, irqOn, engine>>

Worker ==
  \/ WorkerGet \/ WorkerUncount \/ WorkerCount
  \/ WorkerRelease \/ WorkerZeroCopy \/ WorkerHandOff
  \/ RecvKept \/ RecvFreed \/ Refill("rxt")

(* emz_rx_frag_destroy in the thread that read the packet.                  *)
AppFree(c) ==
  /\ At(c, "idle")
  /\ \E b \in stack :
       /\ stack' = stack \ {b}
       /\ hold' = [hold EXCEPT ![c] = b]
  /\ cStack' = cStack - 1
  /\ ret' = [ret EXCEPT ![c] = "idle"]
  /\ Goto(c, "give")
  /\ UNCHANGED <<ring, started, free, ready, cFree, cDma, cReady, cWorker, recov,
                 queued, completed, dmasr, irqOn, engine>>

App(c) == AppFree(c) \/ Refill(c)

----------------------------------------------------------------------------
(* emz_rx_direct_start has cleared the ring and enters the first refill.    *)

Init ==
  /\ bdBuf = [i \in Slot |-> NoBuf]
  /\ armed = {} /\ done = {}
  /\ consume = 0 /\ refill = 0 /\ tail = 0 /\ posted = 0 /\ inflight = 0
  /\ started = FALSE
  /\ free = Buf /\ ready = {} /\ stack = {}
  /\ cFree = N /\ cDma = 0 /\ cReady = 0 /\ cWorker = 0 /\ cStack = 0
  /\ pending = FALSE /\ recoverQ = FALSE
  /\ pc = [c \in Ctx |-> IF c = "boot" THEN "pop" ELSE "idle"]
  /\ hold = [c \in Ctx |-> NoBuf]
  /\ ret = [c \in Ctx |-> IF c = "boot" THEN "arm" ELSE "idle"]
  /\ queued = [c \in Ctx |-> FALSE]
  /\ completed = [c \in Ctx |-> FALSE]
  /\ dmasr = {} /\ irqOn = FALSE
  /\ eng = "reset" /\ cur = 0 /\ tdesc = 0 /\ active = FALSE /\ irq = {}
  /\ faults = 0 /\ unpub = FALSE /\ reopened = FALSE

Engine == EngineComplete \/ EngineBadDescriptor \/ EngineFault

Next ==
  \/ Isr \/ WqPoll \/ WqRecover \/ WqStep \/ Boot \/ Worker
  \/ \E c \in Apps : App(c)
  \/ Engine

Spec == Init /\ [][Next]_vars

(* What the scheduler gives: interrupts are taken, a context at work goes   *)
(* on when it may run, the worker wakes up for a frame, and the work queue  *)
(* is a FIFO, so a queued recovery is not passed over by later polls        *)
(* forever.  Applications read their sockets, so they free what they hold.  *)
Fairness ==
  /\ WF_vars(Isr)
  /\ WF_vars(WqStep) /\ SF_vars(WqRecover)
  /\ WF_vars(Boot)
  /\ SF_vars(Worker)
  /\ \A c \in Apps : SF_vars(App(c))

FairSpec == Spec /\ Fairness

----------------------------------------------------------------------------
(* Properties                                                               *)

Label == {"idle", "pop", "post", "acct", "uncount", "putback", "tail", "give",
          "put", "poll", "class", "route", "enqueue", "ack", "arm", "irqon",
          "clear", "took", "enter", "work", "handoff", "recv"}

TypeRing ==
  /\ bdBuf \in [Slot -> Buf \cup {NoBuf}]
  /\ armed \subseteq Slot /\ done \subseteq Slot
  /\ consume \in Slot /\ refill \in Slot /\ tail \in Slot
  /\ posted \in 0 .. N /\ inflight \in 0 .. N

TypePools ==
  /\ free \subseteq Buf /\ ready \subseteq Buf /\ stack \subseteq Buf
  /\ cFree \in Int /\ cDma \in Int /\ cReady \in Int
  /\ cWorker \in Int /\ cStack \in Int

TypeLocals ==
  /\ pc \in [Ctx -> Label]
  /\ hold \in [Ctx -> Buf \cup {NoBuf}]
  /\ ret \in [Ctx -> {"idle", "poll", "arm"}]
  /\ queued \in [Ctx -> BOOLEAN] /\ completed \in [Ctx -> BOOLEAN]

TypeEngine ==
  /\ started \in BOOLEAN /\ pending \in BOOLEAN /\ recoverQ \in BOOLEAN
  /\ dmasr \subseteq {"ioc", "err"} /\ irqOn \in BOOLEAN
  /\ eng \in {"reset", "run", "halted"}
  /\ cur \in Slot /\ tdesc \in Slot
  /\ active \in BOOLEAN /\ irq \subseteq {"ioc", "err"}
  /\ faults \in 0 .. MaxFaults
  /\ unpub \in BOOLEAN /\ reopened \in BOOLEAN

(* Every variable stays in its range: the indices stay inside the ring and  *)
(* rx_bd_posted and rx_dma_inflight, both unsigned, never wrap below zero.  *)
TypeOK == TypeRing /\ TypePools /\ TypeLocals /\ TypeEngine

(* The slot's distance ahead of the consume index, going round the ring.    *)
Ahead(i) == IF i >= consume THEN i - consume ELSE i + N - consume

(* Exactly the rx_bd_posted slots from the consume index on hold a buffer,  *)
(* the refill index is the first slot after them, and rx_dma_inflight       *)
(* counts them: no interleaving of refills, polls and recovery leaves a     *)
(* hole that would strand the buffers behind it.                            *)
RingWindow ==
  /\ \A i \in Slot : bdBuf[i] # NoBuf <=> Ahead(i) < posted
  /\ refill = IF consume + posted < N THEN consume + posted
                                      ELSE consume + posted - N
  /\ inflight = posted

(* No buffer is in two places, and none is lost: each is in one FIFO, in    *)
(* one descriptor, with the stack, or in the hands of one context.          *)
Held == {hold[c] : c \in Ctx} \ {NoBuf}

OwnedOnce ==
  /\ \A i, j \in Slot : bdBuf[i] = bdBuf[j] /\ bdBuf[i] # NoBuf => i = j
  /\ \A c, d \in Ctx : hold[c] = hold[d] /\ hold[c] # NoBuf => c = d
  /\ free \cap (ready \cup stack \cup Posted \cup Held) = {}
  /\ ready \cap (stack \cup Posted \cup Held) = {}
  /\ stack \cap (Posted \cup Held) = {}
  /\ Posted \cap Held = {}
  /\ Buf = free \cup ready \cup stack \cup Posted \cup Held

(* Each owner counter is the real population, give or take the contexts     *)
(* that stand between moving a buffer and counting it.  A transfer counts a *)
(* buffer twice or not at all between its two updates; one interrupt, one   *)
(* cooperative thread and the preemptible threads can each be in one, so    *)
(* the sum never drifts further from N than that, where a leak drifts for   *)
(* good.  (The sum at one instant: emz_perf_update_pool_inflight reads the  *)
(* five counters one after the other.)                                      *)
NumAt(L) == Cardinality({c \in Ctx : pc[c] \in L})

OwnerSum == cFree + cDma + cReady + cWorker + cStack

CountsMatch ==
  /\ cFree = Cardinality(free)
             + NumAt({"post", "acct", "uncount", "putback", "put"})
  /\ cDma = posted + NumAt({"class"}) - NumAt({"acct"})
  /\ cReady = Cardinality(ready) + NumAt({"enqueue", "took"})
  /\ cWorker = NumAt({"work", "handoff"})
  /\ cStack = Cardinality(stack) + NumAt({"handoff", "recv"})
  /\ OwnerSum = N + NumAt({"uncount", "handoff"})
                  - NumAt({"route", "give", "enter"})

MaxDrift == 2 + Cardinality(Apps \ CoopApps)

OwnerAccounting ==
  /\ CountsMatch
  /\ cStack <= MaxStack
  /\ OwnerSum \in N - MaxDrift .. N + MaxDrift

AllIdle == \A c \in Ctx : ~Busy(c)

(* When no context is at work and no buffer is out with the worker or the   *)
(* stack, the ring is filled to its limit: the pop / refuse / put-back race *)
(* of two refills cannot leave RX idle with free buffers and a bare ring.   *)
RingRefilled ==
  AllIdle /\ ready = {} /\ stack = {} =>
    posted = IF MaxInflight < N THEN MaxInflight ELSE N

(* When no context is at work every posted descriptor has been published to *)
(* the engine, also those posted while the ring was not started.            *)
PublishedWhenIdle == AllIdle => started /\ ~unpub

(* A completed descriptor never waits for the 1 ms poll alone: while the    *)
(* interrupt handler is not running, its interrupt is still raised.         *)
CompletionNoticed ==
  eng = "run" /\ consume \in done /\ bdBuf[consume] # NoBuf
    /\ ~Busy("isr") /\ ~Busy("wq") => "ioc" \in irq

(* The slots the engine may still fetch.                                    *)
Window ==
  LET dist(i) == IF i >= cur THEN i - cur ELSE i + N - cur
  IN IF eng = "run" /\ active THEN {i \in Slot : dist(i) <= dist(tdesc)} ELSE {}

(* Every descriptor from CURDESC through TAILDESC holds a buffer the driver *)
(* has given to the engine and is not complete (the comment in              *)
(* emz_rx_direct_program_bd): the engine never writes live data.            *)
EngineWindowOwned == \A i \in Window : bdBuf[i] # NoBuf /\ i \notin done

(* The same, as long as no context has rewritten the same TAILDESC after    *)
(* the engine had finished it: that rewrite is the only hole.               *)
WindowOwnedUnlessReopened == ~reopened => EngineWindowOwned

(* A halted engine whose error interrupt was acknowledged has a recovery    *)
(* pending (request_recover, and the comment above emz_rx_direct_recover).  *)
HaltNoticed == eng = "halted" /\ "err" \notin irq => pending

(* A halted engine runs again: the error interrupt, the request, the work   *)
(* item and the rebuild follow each other to the end.  Checked for one bus  *)
(* error; a second one inside the recovery is HaltNoticed's subject.        *)
RecoveryRestarts == eng = "halted" ~> (eng = "run" \/ reopened)

(* A started ring that has run dry is posted to again.                      *)
RingComesBack == (started /\ posted = 0) ~> (posted > 0)

=============================================================================
