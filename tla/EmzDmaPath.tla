----------------------------- MODULE EmzDmaPath -----------------------------
(***************************************************************************)
(* The driver over Zephyr's DMA API (drivers/ethernet/eth_emaczero.c): the *)
(* path a build without the direct rings takes.  A receive buffer goes     *)
(* from rx_free_fifo to the DMA device and rx_dma_fifo, by the completion  *)
(* callback to rx_ready_fifo, by the RX worker to the stack or straight    *)
(* back, and every release refills the device from whatever context it     *)
(* runs in.  Reserving, taking a buffer, programming it, queueing it and   *)
(* starting the channel are separate steps, only the reservation is locked.*)
(*                                                                         *)
(* The DMA driver is external (docs/performance_plan.md:579-590): a config *)
(* or a reload writes the one descriptor at the current index, dma_start   *)
(* posts it and moves on, and each completion calls back in order.  Two    *)
(* contexts between the write and dma_start cross: the first address is    *)
(* overwritten and the second start posts a descriptor nobody wrote, which *)
(* the engine halts on.                                                    *)
(***************************************************************************)
EXTENDS Integers, Sequences, FiniteSets

CONSTANTS
  Buf, NoBuf,
  Apps,          \* preemptible threads that free stack buffers, "main" apart
  MaxInflight,   \* EMZ_DMA_RX_MAX_INFLIGHT
  DropAfterDma,  \* whether the profile mode of that name may be on
  TxCount,       \* EMZ_DMA_BUFFER_COUNT_TX
  MaxFaults      \* bound: failing calls of the DMA API

ASSUME BufAssumption == IsFiniteSet(Buf) /\ Buf # {} /\ NoBuf \notin Buf
ASSUME AppsAssumption == Apps \cap {"isr", "rxt", "main"} = {}
ASSUME InflightAssumption == MaxInflight \in Nat \ {0} /\ IsFiniteSet(Apps)
ASSUME TxAssumption == TxCount \in Nat /\ TxCount > 1
ASSUME BoundAssumption == MaxFaults \in Nat /\ DropAfterDma \in BOOLEAN

(* emz_init refills first, from the thread that then frees stack buffers.   *)
Threads == Apps \cup {"main", "rxt"}
Ctx     == Threads \cup {"isr"}
TxSlot  == 0 .. TxCount - 1

VARIABLES
  free, ready, stack,   \* rx_free_fifo, rx_ready_fifo, buffers Zephyr owns
  dmaFifo,              \* rx_dma_fifo
  inflight,             \* rx_dma_inflight
  pc, hold,             \* per context: its place in the code, its buffer
  written, dq,          \* RX channel: the current descriptor, those posted;
                        \* NoBuf in dq is one that nobody wrote
  populated, completed, \* tx_populated_buffer_index, tx_completed_buffer_index
  txpc,                 \* the sender that holds tx_lock
  tq,                   \* TX channel: posted slots
  faults,
  crossed,      \* history: a context wrote the descriptor over the address
                \* of one that had not started it
  startFailed   \* history: dma_start failed for a buffer on rx_dma_fifo

fifos == <<free, ready, stack, dmaFifo>>
rxdma == <<written, dq>>
hist  == <<crossed, startFailed>>
rx    == <<fifos, inflight, pc, hold, rxdma, hist>>
tx    == <<populated, completed, txpc, tq>>
vars  == <<rx, tx, faults>>

Busy(c) == pc[c] # "idle"

(* Interrupts run over threads, the RX worker over preemptible ones, those *)
(* in any order.                                                           *)
CanRun(c) ==
  /\ c # "isr" => ~Busy("isr")
  /\ c \notin {"isr", "rxt"} => ~Busy("rxt")

Goto(c, l) == pc' = [pc EXCEPT ![c] = l]
Carry(c, b) == hold' = [hold EXCEPT ![c] = b]
Fault == faults < MaxFaults /\ faults' = faults + 1

----------------------------------------------------------------------------
(* emz_refill_dma_rx with emz_queue_dma_rx_buffer.                          *)

SlipFull == inflight > MaxInflight

Full == inflight >= MaxInflight

Reserve(c) ==
  /\ pc[c] = "reserve" /\ CanRun(c)
  /\ IF Full THEN Goto(c, "idle") /\ UNCHANGED inflight
             ELSE Goto(c, "get") /\ inflight' = inflight + 1
  /\ UNCHANGED <<fifos, hold, rxdma, hist, tx, faults>>

Get(c) ==
  /\ pc[c] = "get" /\ CanRun(c)
  /\ \/ \E b \in free : free' = free \ {b} /\ Carry(c, b) /\ Goto(c, "program")
     \/ free = {} /\ Goto(c, "unreserve") /\ UNCHANGED <<free, hold>>
  /\ UNCHANGED <<ready, stack, dmaFifo, inflight, rxdma, hist, tx, faults>>

SlipUnreserved == inflight

Unreserved == inflight - 1

(* A refill that found no buffer, or one whose call failed: the reservation *)
(* is given up first, the buffer put back after.                            *)
Unreserve(c) ==
  /\ pc[c] = "unreserve" /\ CanRun(c)
  /\ inflight' = Unreserved
  /\ Goto(c, IF hold[c] = NoBuf THEN "idle" ELSE "putback")
  /\ UNCHANGED <<fifos, hold, rxdma, hist, tx, faults>>

PutBack(c) ==
  /\ pc[c] = "putback" /\ CanRun(c)
  /\ free' = free \cup {hold[c]}
  /\ Carry(c, NoBuf) /\ Goto(c, "idle")
  /\ UNCHANGED <<ready, stack, dmaFifo, inflight, rxdma, hist, tx, faults>>

(* dma_config the first time, dma_reload from then on.                      *)
Program(c) ==
  /\ pc[c] = "program" /\ CanRun(c)
  /\ \/ /\ written' = hold[c]
        /\ crossed' = (crossed \/ written # NoBuf)
        /\ Goto(c, "queue") /\ UNCHANGED faults
     \/ Fault /\ Goto(c, "unreserve") /\ UNCHANGED <<written, crossed>>
  /\ UNCHANGED <<fifos, inflight, hold, dq, startFailed, tx>>

SlipQueued(b) == <<b>> \o dmaFifo

Queued(b) == Append(dmaFifo, b)

Queue(c) ==
  /\ pc[c] = "queue" /\ CanRun(c)
  /\ dmaFifo' = Queued(hold[c])
  /\ Goto(c, "start")
  /\ UNCHANGED <<free, ready, stack, inflight, hold, rxdma, hist, tx, faults>>

(* A buffer whose dma_start fails stays on rx_dma_fifo while it is put back *)
(* on rx_free_fifo.                                                         *)
Start(c) ==
  /\ pc[c] = "start" /\ CanRun(c)
  /\ \/ /\ dq' = Append(dq, written) /\ written' = NoBuf
        /\ Carry(c, NoBuf) /\ Goto(c, "reserve")
        /\ UNCHANGED <<faults, startFailed>>
     \/ Fault /\ startFailed' = TRUE /\ Goto(c, "unreserve") /\ UNCHANGED <<hold, rxdma>>
  /\ UNCHANGED <<fifos, inflight, crossed, tx>>

Refill(c) ==
  \/ Reserve(c) \/ Get(c) \/ Unreserve(c) \/ PutBack(c)
  \/ Program(c) \/ Queue(c) \/ Start(c)

----------------------------------------------------------------------------
(* Completion, the RX worker, and the stack.                                *)

SlipTaken == dmaFifo

Taken == Tail(dmaFifo)

(* emz_dma_rx_callback takes the oldest buffer of rx_dma_fifo for the one   *)
(* the device filled.  What the DMA driver reports of a halted channel is   *)
(* not modelled.                                                            *)
RxCallback ==
  /\ ~Busy("isr") /\ dq # <<>> /\ Head(dq) # NoBuf
  /\ dq' = Tail(dq)
  /\ IF dmaFifo = <<>>
     THEN UNCHANGED <<fifos, inflight, pc>>
     ELSE /\ dmaFifo' = Taken
          /\ inflight' = IF inflight > 0 THEN inflight - 1 ELSE 0
          /\ \/ ready' = ready \cup {Head(dmaFifo)} /\ UNCHANGED <<free, pc>>
             \/ /\ DropAfterDma
                /\ free' = free \cup {Head(dmaFifo)} /\ Goto("isr", "reserve")
                /\ UNCHANGED ready
          /\ UNCHANGED stack
  /\ UNCHANGED <<hold, written, hist, tx, faults>>

(* The worker takes a frame, keeps its buffer while it looks at it or       *)
(* copies it, and releases it or hands it to the stack.                     *)
WorkerTake ==
  /\ pc["rxt"] = "idle" /\ CanRun("rxt")
  /\ \E b \in ready : ready' = ready \ {b} /\ Carry("rxt", b)
  /\ Goto("rxt", "frame")
  /\ UNCHANGED <<free, stack, dmaFifo, inflight, rxdma, hist, tx, faults>>

WorkerDone ==
  /\ pc["rxt"] = "frame" /\ CanRun("rxt")
  /\ \/ stack' = stack \cup {hold["rxt"]} /\ Goto("rxt", "idle") /\ UNCHANGED free
     \/ free' = free \cup {hold["rxt"]} /\ Goto("rxt", "reserve") /\ UNCHANGED stack
  /\ Carry("rxt", NoBuf)
  /\ UNCHANGED <<ready, dmaFifo, inflight, rxdma, hist, tx, faults>>

(* emz_rx_frag_destroy, by the thread that drops the last reference.        *)
StackFree(c) ==
  /\ c \in Threads \ {"rxt"} /\ ~Busy(c) /\ CanRun(c)
  /\ \E b \in stack : stack' = stack \ {b} /\ free' = free \cup {b}
  /\ Goto(c, "reserve")
  /\ UNCHANGED <<ready, dmaFifo, inflight, hold, rxdma, hist, tx, faults>>

----------------------------------------------------------------------------
(* Transmission: emz_send or emaczero_send_raw_frame under tx_lock, with    *)
(* emz_setup_dma_tx_transfer.                                               *)

NextSlot(i) == (i + 1) % TxCount

SlipTxBusy == FALSE

TxBusy == NextSlot(populated) = completed

(* The frame is copied into the slot before anything is checked.            *)
TxCopy ==
  /\ txpc = "idle" /\ ~Busy("isr")
  /\ txpc' = "setup"
  /\ UNCHANGED <<rx, populated, completed, tq, faults>>

(* ENOSPC, or dma_config or dma_reload.                                     *)
TxSetup ==
  /\ txpc = "setup" /\ ~Busy("isr")
  /\ \/ TxBusy /\ txpc' = "idle" /\ UNCHANGED faults
     \/ ~TxBusy /\ txpc' = "start" /\ UNCHANGED faults
     \/ ~TxBusy /\ Fault /\ txpc' = "idle"
  /\ UNCHANGED <<rx, populated, completed, tq>>

(* tx_populated_buffer_index is moved, and moved back if dma_start fails.   *)
TxStart ==
  /\ txpc = "start" /\ ~Busy("isr")
  /\ \/ /\ populated' = NextSlot(populated) /\ tq' = Append(tq, populated)
        /\ UNCHANGED faults
     \/ Fault /\ UNCHANGED <<populated, tq>>
  /\ txpc' = "idle"
  /\ UNCHANGED <<rx, completed>>

(* emz_dma_tx_callback                                                      *)
TxCallback ==
  /\ ~Busy("isr") /\ tq # <<>>
  /\ tq' = Tail(tq)
  /\ completed' = NextSlot(completed)
  /\ UNCHANGED <<rx, populated, txpc, faults>>

----------------------------------------------------------------------------
Init ==
  /\ free = Buf /\ ready = {} /\ stack = {} /\ dmaFifo = <<>> /\ inflight = 0
  /\ pc = [c \in Ctx |-> IF c = "main" THEN "reserve" ELSE "idle"]
  /\ hold = [c \in Ctx |-> NoBuf]
  /\ written = NoBuf /\ dq = <<>>
  /\ populated = 0 /\ completed = 0 /\ txpc = "idle" /\ tq = <<>>
  /\ faults = 0 /\ crossed = FALSE /\ startFailed = FALSE

RxNext ==
  RxCallback \/ WorkerTake \/ WorkerDone \/ \E c \in Ctx : Refill(c) \/ StackFree(c)

TxNext == TxCopy \/ TxSetup \/ TxStart \/ TxCallback

(* A failed dma_start puts a buffer that is still linked into rx_dma_fifo   *)
(* on rx_free_fifo: one k_fifo node in two lists, which is where the model  *)
(* stops.  Refills that cross in the descriptor go on.                      *)
Next == ~startFailed /\ (RxNext \/ TxNext)

Spec == Init /\ [][Next]_vars

----------------------------------------------------------------------------
(* Properties                                                               *)

Items(s) == {s[i] : i \in 1 .. Len(s)}

TypeOK ==
  /\ free \subseteq Buf /\ ready \subseteq Buf /\ stack \subseteq Buf
  /\ dmaFifo \in Seq(Buf) /\ dq \in Seq(Buf \cup {NoBuf})
  /\ written \in Buf \cup {NoBuf} /\ hold \in [Ctx -> Buf \cup {NoBuf}]
  /\ pc \in [Ctx -> {"idle", "reserve", "get", "program", "queue", "start",
                     "unreserve", "putback", "frame"}]
  /\ inflight \in 0 .. MaxInflight
  /\ populated \in TxSlot /\ completed \in TxSlot /\ tq \in Seq(TxSlot)
  /\ txpc \in {"idle", "setup", "start"}
  /\ faults \in 0 .. MaxFaults
  /\ crossed \in BOOLEAN /\ startFailed \in BOOLEAN

(* Contexts whose buffer is on no fifo, and those buffers.                 *)
Owners == {c \in Ctx : hold[c] # NoBuf /\ pc[c] # "start"}
Held == {hold[c] : c \in Owners}

(* Buffers on their way to rx_dma_fifo whose address the device may have.  *)
Handing == {hold[c] : c \in {d \in Ctx : pc[d] = "queue"}}

(* Up to the first dma_start that fails (eth_emaczero.c:1652 puts a buffer  *)
(* back that line 1594 queued), every buffer is in exactly one place,       *)
(* although refills, callbacks and releases interleave, other calls fail    *)
(* and refills cross in the descriptor; and the device writes only into     *)
(* buffers that wait on rx_dma_fifo or are about to be queued there, into   *)
(* none that the worker, the stack or a later refill has.                   *)
SingleOwner ==
  ~startFailed =>
    /\ free \cup ready \cup stack \cup Items(dmaFifo) \cup Held = Buf
    /\ free \cap (ready \cup stack \cup Items(dmaFifo) \cup Held) = {}
    /\ ready \cap (stack \cup Items(dmaFifo) \cup Held) = {}
    /\ stack \cap (Items(dmaFifo) \cup Held) = {}
    /\ Items(dmaFifo) \cap Held = {}
    /\ \A i, j \in 1 .. Len(dmaFifo) : dmaFifo[i] = dmaFifo[j] => i = j
    /\ \A c, d \in Owners : hold[c] = hold[d] => c = d
    /\ Items(dq) \ {NoBuf} \subseteq Items(dmaFifo) \cup Handing

(* Up to the first dma_start that fails, a completion finds a buffer on     *)
(* rx_dma_fifo; and as long as each reload was started before the next, the *)
(* fifo has the device's order, so the length goes to the buffer that was   *)
(* filled.  After a crossing it may go to another one: the callback takes   *)
(* the oldest buffer, whatever the device wrote.                            *)
CompletionsAttributed ==
  /\ ~startFailed => Len(dq) <= Len(dmaFifo)
  /\ ~startFailed /\ ~crossed =>
       \/ dmaFifo = dq
       \/ written # NoBuf /\ dmaFifo = Append(dq, written)

(* A limit that the reservations of waiting threads cannot fill, as the     *)
(* default of ETH_EMACZERO_RX_DMA_POST_COUNT is (Kconfig allows 1 to 255).  *)
Roomy == MaxInflight > Cardinality(Apps) + 1

(* With such a limit, and while no call of the DMA API has failed: when no  *)
(* context is in the driver, no frame waits and the stack has returned all  *)
(* its buffers, so that nothing would start a refill, the channel has a     *)
(* descriptor, and one it can use unless refills crossed.  Excluded are a   *)
(* smaller limit, a failed call (no one retries a refill that stopped), the *)
(* time the stack keeps frames unread, and, once refills crossed, a channel *)
(* that halts on a descriptor nobody wrote.                                 *)
NeverDead ==
  Roomy /\ faults = 0 /\ (\A c \in Ctx : ~Busy(c)) /\ ready = {} /\ stack = {}
    => dq # <<>> /\ (crossed \/ Head(dq) # NoBuf)

(* The slots the device has are those from the completed index up to the    *)
(* populated one, so the next frame is copied into none of them, although   *)
(* calls fail and completions come in between.                              *)
TxWindow ==
  /\ \A i \in 1 .. Len(tq) : tq[i] = (completed + i - 1) % TxCount
  /\ populated = (completed + Len(tq)) % TxCount
  /\ populated \notin Items(tq)

=============================================================================
