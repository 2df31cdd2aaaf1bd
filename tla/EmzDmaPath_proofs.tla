------------------------- MODULE EmzDmaPath_proofs -------------------------
(***************************************************************************)
(* Proofs about the generic DMA path, for every number of buffers, threads *)
(* and slots, every limit and every number of failing calls.               *)
(*                                                                         *)
(* PathInv, the inductive invariant, ties every context's place in the     *)
(* refill to the buffer it holds (PlaceOK), the device's descriptors to    *)
(* the buffers and the dma_start calls still to come (DeviceOK), and       *)
(* rx_dma_inflight to the reservations and the buffers on rx_dma_fifo      *)
(* (CountOK), whatever crosses, until a dma_start fails and the            *)
(* specification stops.  The exact order of rx_dma_fifo (OrderOK) holds    *)
(* until two contexts meet in the descriptor.                              *)
(***************************************************************************)
EXTENDS EmzDmaPath, TLAPS, FiniteSetTheorems, SequenceTheorems

Places ==
  {"idle", "reserve", "get", "program", "queue", "start", "unreserve", "putback", "frame"}

TypeRx ==
  /\ free \subseteq Buf /\ ready \subseteq Buf /\ stack \subseteq Buf
  /\ dmaFifo \in Seq(Buf) /\ dq \in Seq(Buf \cup {NoBuf})
  /\ written \in Buf \cup {NoBuf} /\ hold \in [Ctx -> Buf \cup {NoBuf}]
  /\ pc \in [Ctx -> Places]
  /\ inflight \in 0 .. MaxInflight
  /\ faults \in 0 .. MaxFaults
  /\ crossed \in BOOLEAN /\ startFailed \in BOOLEAN

TypeTx ==
  /\ populated \in TxSlot /\ completed \in TxSlot /\ tq \in Seq(TxSlot)
  /\ txpc \in {"idle", "setup", "start"}

(* Between the write of the descriptor and dma_start.                      *)
Loaded == {c \in Ctx : pc[c] \in {"queue", "start"}}

(* With a place reserved and no buffer on rx_dma_fifo.                     *)
Reserving == {c \in Ctx : pc[c] \in {"get", "program", "queue", "unreserve"}}

PlaceOK ==
  \A c \in Ctx :
    /\ pc[c] \in {"idle", "reserve", "get"} => hold[c] = NoBuf
    /\ pc[c] \in {"program", "queue", "start", "putback", "frame"} => hold[c] # NoBuf
    /\ pc[c] = "frame" => c = "rxt"

OrderOK ==
  /\ \A c \in Loaded : hold[c] = written
  /\ \A c, d \in Loaded : c = d
  /\ written # NoBuf => Loaded # {}
  /\ \A c \in Ctx : pc[c] = "start" => dmaFifo = Append(dq, written)
  /\ (\A c \in Ctx : pc[c] # "start") => dmaFifo = dq

(* Before dma_start, with the buffer on rx_dma_fifo.                       *)
Starting == {c \in Ctx : pc[c] = "start"}

(* A buffer the device may fill is on the fifo f, not before place i, or a  *)
(* context, at the place p with the buffer h, is about to put it there.     *)
Ahead(p, h, f, b, i) ==
  \/ \E c \in Ctx : p[c] = "queue" /\ h[c] = b
  \/ \E j \in i .. Len(f) : f[j] = b

DeviceOK ==
  /\ Len(dmaFifo) = Len(dq) + Cardinality(Starting)
  /\ \A i \in 1 .. Len(dq) : dq[i] # NoBuf => Ahead(pc, hold, dmaFifo, dq[i], i)
  /\ written # NoBuf => Ahead(pc, hold, dmaFifo, written, Len(dq) + 1)

CountOK == inflight = Cardinality(Reserving) + Len(dmaFifo)

RxInv ==
  ~startFailed =>
    PlaceOK /\ DeviceOK /\ SingleOwner /\ CountOK /\ (~crossed => OrderOK)

(* The slot k places after slot i.                                         *)
Plus(i, k) == IF i + k < TxCount THEN i + k ELSE i + k - TxCount

TxInv ==
  /\ Len(tq) < TxCount
  /\ txpc = "start" => Len(tq) + 1 < TxCount
  /\ \A i \in 1 .. Len(tq) : tq[i] = Plus(completed, i - 1)
  /\ populated = Plus(completed, Len(tq))

PathInv == TypeRx /\ TypeTx /\ RxInv /\ TxInv

----------------------------------------------------------------------------
(* Arithmetic and contexts.                                                *)

LEMMA Constants ==
  /\ TxCount \in Nat /\ TxCount > 1
  /\ MaxInflight \in Nat /\ MaxInflight > 0 /\ MaxFaults \in Nat
  /\ IsFiniteSet(Ctx) /\ "isr" \in Ctx /\ "rxt" \in Ctx /\ "main" \in Ctx
<1>1. IsFiniteSet(Ctx)
  <2>1. IsFiniteSet(Apps \cup {"main"})
    BY InflightAssumption, FS_AddElement
  <2>2. IsFiniteSet(Apps \cup {"main"} \cup {"rxt"})
    BY <2>1, FS_AddElement
  <2>3. IsFiniteSet(Apps \cup {"main"} \cup {"rxt"} \cup {"isr"})
    BY <2>2, FS_AddElement
  <2>4. Ctx = Apps \cup {"main"} \cup {"rxt"} \cup {"isr"}
    BY DEF Ctx, Threads
  <2>5. QED
    BY <2>3, <2>4
<1>2. Cardinality(Apps) \in Nat
  BY InflightAssumption, FS_CardinalityType
<1>3. QED
  BY <1>1, <1>2, TxAssumption, InflightAssumption, BoundAssumption DEF Ctx, Threads

LEMMA ModSmall ==
  ASSUME NEW x \in 0 .. 2 * TxCount - 1
  PROVE  x % TxCount = IF x < TxCount THEN x ELSE x - TxCount
BY Constants, SMTT(30)

LEMMA PlusMod ==
  ASSUME NEW i \in TxSlot, NEW k \in 0 .. TxCount - 1
  PROVE  (i + k) % TxCount = Plus(i, k) /\ Plus(i, k) \in TxSlot
BY Constants, ModSmall DEF Plus, TxSlot

LEMMA NextSlotPlus ==
  ASSUME NEW i \in TxSlot
  PROVE  NextSlot(i) = Plus(i, 1)
BY Constants, PlusMod DEF NextSlot

----------------------------------------------------------------------------
(* Transmission.                                                           *)

LEMMA TxStep ==
  ASSUME TypeTx, TxInv, TxNext
  PROVE  TypeTx' /\ TxInv'
<1> USE DEF TypeTx, TxInv
<1>0. Len(tq) \in Nat
  OBVIOUS
<1>1. CASE TxCopy
  BY <1>1 DEF TxCopy
<1>2. CASE TxSetup
  <2>1. ASSUME ~TxBusy PROVE Len(tq) + 1 < TxCount
    <3>1. SUFFICES ASSUME Len(tq) = TxCount - 1 PROVE TxBusy
      BY <1>0, <2>1, Constants
    <3>2. Plus(populated, 1) = completed
      BY <3>1, Constants DEF Plus, TxSlot
    <3>3. QED
      BY <3>2, NextSlotPlus DEF TxBusy
  <2>2. QED
    BY <1>2, <2>1 DEF TxSetup, rx
<1>3. CASE TxStart
  <2>1. CASE populated' = populated /\ tq' = tq
    BY <1>3, <2>1 DEF TxStart
  <2>2. CASE populated' = NextSlot(populated) /\ tq' = Append(tq, populated)
    <3>1. populated' = Plus(populated, 1) /\ populated' \in TxSlot
      BY <2>2, NextSlotPlus, PlusMod, Constants
    <3>2. txpc = "start" /\ txpc' = "idle" /\ completed' = completed
      BY <1>3 DEF TxStart
    <3>3. /\ tq' \in Seq(TxSlot) /\ Len(tq') = Len(tq) + 1
          /\ \A i \in 1 .. Len(tq) : tq'[i] = tq[i]
          /\ tq'[Len(tq) + 1] = populated
      BY <2>2, AppendProperties
    <3>4. populated' = Plus(completed, Len(tq) + 1)
      BY <1>0, <3>1, <3>2, Constants DEF Plus, TxSlot
    <3>5. \A i \in 1 .. Len(tq') : tq'[i] = Plus(completed', i - 1)
      BY <1>0, <3>2, <3>3
    <3>6. QED
      BY <1>0, <3>1, <3>2, <3>3, <3>4, <3>5
  <2>3. QED
    BY <1>3, <2>1, <2>2 DEF TxStart
<1>4. CASE TxCallback
  <2>1. /\ tq # <<>> /\ tq' = Tail(tq) /\ completed' = NextSlot(completed)
        /\ populated' = populated /\ txpc' = txpc
    BY <1>4 DEF TxCallback
  <2>2. Len(tq) >= 1 /\ tq' \in Seq(TxSlot) /\ Len(tq') = Len(tq) - 1
        /\ \A i \in 1 .. Len(tq') : tq'[i] = tq[i + 1]
    BY <2>1, HeadTailProperties, EmptySeq
  <2>3. completed' = Plus(completed, 1) /\ completed' \in TxSlot
    BY <2>1, NextSlotPlus, PlusMod, Constants
  <2>4. \A k \in 1 .. TxCount - 1 : Plus(completed', k - 1) = Plus(completed, k)
    BY <2>3, Constants DEF Plus, TxSlot
  <2>5. \A i \in 1 .. Len(tq') : tq'[i] = Plus(completed', i - 1)
    <3>1. TAKE i \in 1 .. Len(tq')
    <3>2. tq'[i] = Plus(completed, i)
      BY <1>0, <2>2
    <3>3. QED
      BY <1>0, <2>2, <2>4, <3>2, Constants
  <2>6. populated' = Plus(completed', Len(tq'))
    <3>1. Len(tq) \in 1 .. TxCount - 1 /\ Len(tq') = Len(tq) - 1
      BY <1>0, <2>2, Constants
    <3>2. QED
      BY <2>1, <2>4, <3>1
  <2>7. Len(tq') + 1 = Len(tq) /\ Len(tq') \in Nat
    BY <1>0, <2>2
  <2>8. QED
    BY <1>0, <2>1, <2>2, <2>3, <2>5, <2>6, <2>7, Constants
<1>5. QED
  BY <1>1, <1>2, <1>3, <1>4 DEF TxNext

(* The invariant puts the sender's slot outside what the device has.       *)
LEMMA TxWindowHolds ==
  ASSUME TypeTx, TxInv
  PROVE  TxWindow
<1> USE Constants DEF TypeTx, TxInv
<1>0. Len(tq) \in Nat
  OBVIOUS
<1>1. \A i \in 1 .. Len(tq) : tq[i] = (completed + i - 1) % TxCount
  BY <1>0, PlusMod
<1>2. populated = (completed + Len(tq)) % TxCount
  BY <1>0, PlusMod
<1>3. \A i \in 1 .. Len(tq) : tq[i] # populated
  BY <1>0 DEF Plus, TxSlot
<1>4. QED
  BY <1>1, <1>2, <1>3 DEF TxWindow, Items

----------------------------------------------------------------------------
(* Sequences of buffers, and the sets of contexts.                         *)

LEMMA ItemsAppend ==
  ASSUME NEW s \in Seq(Buf), NEW e \in Buf
  PROVE  Items(Append(s, e)) = Items(s) \cup {e}
<1>1. /\ Len(s) \in Nat /\ Len(Append(s, e)) = Len(s) + 1
      /\ \A i \in 1 .. Len(s) : Append(s, e)[i] = s[i]
      /\ Append(s, e)[Len(s) + 1] = e
  BY AppendProperties, LenProperties
<1>2. QED
  BY <1>1 DEF Items

LEMMA ItemsTail ==
  ASSUME NEW s \in Seq(Buf), s # <<>>,
         \A i, j \in 1 .. Len(s) : s[i] = s[j] => i = j
  PROVE  /\ Head(s) \in Items(s) /\ Items(Tail(s)) = Items(s) \ {Head(s)}
         /\ \A i, j \in 1 .. Len(Tail(s)) : Tail(s)[i] = Tail(s)[j] => i = j
<1>1. /\ Len(s) \in Nat /\ Len(s) >= 1 /\ Len(Tail(s)) = Len(s) - 1 /\ Head(s) = s[1]
      /\ \A i \in 1 .. Len(Tail(s)) : Tail(s)[i] = s[i + 1]
  BY HeadTailProperties, EmptySeq, LenProperties
<1>2. \A i \in 2 .. Len(s) : s[i] = Tail(s)[i - 1] /\ i - 1 \in 1 .. Len(Tail(s)) /\ s[i] # s[1]
  BY <1>1
<1>3. Items(Tail(s)) = Items(s) \ {Head(s)}
  <2>1. ASSUME NEW b \in Items(Tail(s)) PROVE b \in Items(s) \ {Head(s)}
    BY <1>1 DEF Items
  <2>2. ASSUME NEW b \in Items(s) \ {Head(s)} PROVE b \in Items(Tail(s))
    <3>1. PICK i \in 1 .. Len(s) : b = s[i]
      BY DEF Items
    <3>2. i \in 2 .. Len(s)
      BY <1>1, <3>1
    <3>3. QED
      BY <1>2, <3>1, <3>2 DEF Items
  <2>3. QED
    BY <2>1, <2>2
<1>4. QED
  BY <1>1, <1>3 DEF Items

(* Where a context is after it moved, the others staying.                  *)
LEMMA Moved ==
  ASSUME NEW c \in Ctx, NEW l, pc \in [Ctx -> Places], Goto(c, l)
  PROVE  /\ pc'[c] = l /\ \A d \in Ctx \ {c} : pc'[d] = pc[d]
         /\ Reserving' = IF l \in {"get", "program", "queue", "unreserve"}
                         THEN Reserving \cup {c} ELSE Reserving \ {c}
         /\ Loaded' = IF l \in {"queue", "start"} THEN Loaded \cup {c} ELSE Loaded \ {c}
BY DEF Goto, Reserving, Loaded

LEMMA NotLoaded ==
  ASSUME NEW c \in Ctx, NEW l \in Places \ {"queue", "start"}, pc \in [Ctx -> Places],
         Goto(c, l), c \notin Loaded
  PROVE  Loaded' = Loaded /\ \A d \in Ctx : pc'[d] = "start" <=> pc[d] = "start"
<1>1. \A d \in Ctx : pc'[d] = IF d = c THEN l ELSE pc[d]
  BY DEF Goto
<1>2. \A d \in Ctx : d \in Loaded <=> pc[d] \in {"queue", "start"}
  BY DEF Loaded
<1>3. \A d \in Ctx : d \in Loaded' <=> d \in Loaded
  BY <1>1, <1>2 DEF Loaded
<1>4. QED
  BY <1>1, <1>2, <1>3 DEF Loaded

LEMMA ReservingCount ==
  /\ IsFiniteSet(Reserving) /\ Cardinality(Reserving) \in Nat
  /\ \A c \in Ctx : /\ Cardinality(Reserving \cup {c}) =
                         IF c \in Reserving THEN Cardinality(Reserving)
                                            ELSE Cardinality(Reserving) + 1
                    /\ Cardinality(Reserving \ {c}) =
                         IF c \in Reserving THEN Cardinality(Reserving) - 1
                                            ELSE Cardinality(Reserving)
<1>1. IsFiniteSet(Reserving)
  BY Constants, FS_Subset DEF Reserving
<1>2. QED
  BY <1>1, FS_CardinalityType, FS_AddElement, FS_RemoveElement

LEMMA StartingCount ==
  /\ IsFiniteSet(Starting) /\ Cardinality(Starting) \in Nat
  /\ \A c \in Ctx : /\ c \notin Starting =>
                         Cardinality(Starting \cup {c}) = Cardinality(Starting) + 1
                    /\ c \in Starting =>
                         Cardinality(Starting \ {c}) = Cardinality(Starting) - 1
                         /\ Cardinality(Starting) >= 1
<1>1. IsFiniteSet(Starting)
  BY Constants, FS_Subset DEF Starting
<1>2. \A c \in Starting : Cardinality(Starting) # 0
  BY <1>1, FS_EmptySet
<1>3. QED
  BY <1>1, <1>2, FS_CardinalityType, FS_AddElement, FS_RemoveElement

----------------------------------------------------------------------------
(* Reception.  RxActions names the steps for the case splits.              *)

RxActions(c) ==
  \/ Reserve(c) \/ Get(c) \/ Unreserve(c) \/ PutBack(c)
  \/ Program(c) \/ Queue(c) \/ Start(c) \/ StackFree(c)

LEMMA RxCases ==
  ASSUME RxNext
  PROVE  RxCallback \/ WorkerTake \/ WorkerDone \/ \E c \in Ctx : RxActions(c)
BY DEF RxNext, RxActions, Refill

(* A completion finds a buffer: rx_dma_fifo is never behind the device.    *)
LEMMA FifoAhead ==
  ASSUME TypeRx, DeviceOK
  PROVE  /\ Len(dq) \in Nat /\ Len(dmaFifo) \in Nat /\ Len(dq) <= Len(dmaFifo)
         /\ dq # <<>> => dmaFifo # <<>> /\ Head(dmaFifo) \in Buf
<1>1. dmaFifo \in Seq(Buf) /\ Len(dmaFifo) \in Nat /\ Len(dq) \in Nat
  BY LenProperties DEF TypeRx
<1>2. Len(dq) <= Len(dmaFifo)
  BY <1>1, StartingCount DEF DeviceOK
<1>3. dq # <<>> => Len(dq) # 0
  BY EmptySeq DEF TypeRx
<1>4. dq # <<>> => dmaFifo # <<>>
  BY <1>1, <1>2, <1>3
<1>5. QED
  BY <1>1, <1>2, <1>4, HeadTailProperties

LEMMA PlaceStep ==
  ASSUME TypeRx, PlaceOK, RxNext
  PROVE  PlaceOK'
<1> USE DEF TypeRx, PlaceOK, Goto, Carry
<1>0. NoBuf \notin Buf
  BY BufAssumption
<1>1. CASE RxCallback
  BY <1>1 DEF RxCallback, Busy
<1>2. CASE WorkerTake
  BY <1>0, <1>2 DEF WorkerTake
<1>3. CASE WorkerDone
  BY <1>3 DEF WorkerDone
<1>4. ASSUME NEW c \in Ctx, RxActions(c) PROVE PlaceOK'
  <2>1. CASE Reserve(c)
    BY <2>1 DEF Reserve
  <2>2. CASE Get(c)
    BY <1>0, <2>2 DEF Get
  <2>3. CASE Unreserve(c)
    BY <2>3 DEF Unreserve
  <2>4. CASE PutBack(c)
    BY <2>4 DEF PutBack
  <2>5. CASE Program(c)
    BY <2>5 DEF Program
  <2>6. CASE Queue(c)
    BY <2>6 DEF Queue
  <2>7. CASE Start(c)
    BY <2>7 DEF Start, rxdma
  <2>8. CASE StackFree(c)
    BY <2>8 DEF StackFree, Busy
  <2>9. QED
    BY <1>4, <2>1, <2>2, <2>3, <2>4, <2>5, <2>6, <2>7, <2>8 DEF RxActions
<1>5. QED
  BY <1>1, <1>2, <1>3, <1>4, RxCases

(* A step that leaves the descriptor, rx_dma_fifo and who is loaded alone.  *)
LEMMA OrderSame ==
  ASSUME OrderOK, UNCHANGED <<written, dq, dmaFifo>>, Loaded' = Loaded,
         \A d \in Ctx : pc'[d] = "start" <=> pc[d] = "start",
         \A d \in Loaded : hold'[d] = hold[d]
  PROVE  OrderOK'
BY DEF OrderOK

LEMMA OrderStep ==
  ASSUME TypeRx, PlaceOK, DeviceOK, OrderOK, RxNext, ~startFailed', ~crossed'
  PROVE  OrderOK'
<1> USE DEF TypeRx
<1>0. pc \in [Ctx -> Places]
  OBVIOUS
<1>1. CASE RxCallback
  <2>1. dq # <<>> /\ dq' = Tail(dq) /\ dmaFifo' = Tail(dmaFifo) /\ UNCHANGED <<hold, written>>
    BY <1>1, FifoAhead DEF RxCallback, Taken, fifos
  <2>2. pc["isr"] = "idle" /\ (pc' = pc \/ Goto("isr", "reserve"))
    BY <1>1, FifoAhead DEF RxCallback, Busy
  <2>3. Loaded' = Loaded /\ \A d \in Ctx : pc'[d] = "start" <=> pc[d] = "start"
    BY <2>2 DEF Goto, Loaded
  <2>4. Tail(Append(dq, written)) = Append(Tail(dq), written)
    BY <2>1, HeadTailAppend
  <2>5. QED
    BY <2>1, <2>3, <2>4 DEF OrderOK
<1>2. CASE WorkerTake
  <2>1. "rxt" \in Ctx /\ pc["rxt"] = "idle" /\ Goto("rxt", "frame")
    BY <1>2, Constants DEF WorkerTake
  <2>2. UNCHANGED <<written, dq, dmaFifo>> /\ \A d \in Ctx \ {"rxt"} : hold'[d] = hold[d]
    BY <1>2 DEF WorkerTake, Carry, rxdma
  <2>3. "rxt" \notin Loaded
    BY <2>1 DEF Loaded
  <2>4. Loaded' = Loaded /\ \A d \in Ctx : pc'[d] = "start" <=> pc[d] = "start"
    BY <1>0, <2>1, <2>3, NotLoaded DEF Places
  <2>5. QED
    BY <2>2, <2>3, <2>4, OrderSame DEF Loaded
<1>3. CASE WorkerDone
  <2>1. "rxt" \in Ctx /\ pc["rxt"] = "frame" /\ (Goto("rxt", "idle") \/ Goto("rxt", "reserve"))
    BY <1>3, Constants DEF WorkerDone
  <2>2. UNCHANGED <<written, dq, dmaFifo>> /\ \A d \in Ctx \ {"rxt"} : hold'[d] = hold[d]
    BY <1>3 DEF WorkerDone, Carry, rxdma
  <2>3. "rxt" \notin Loaded
    BY <2>1 DEF Loaded
  <2>4. Loaded' = Loaded /\ \A d \in Ctx : pc'[d] = "start" <=> pc[d] = "start"
    BY <1>0, <2>1, <2>3, NotLoaded DEF Places
  <2>5. QED
    BY <2>2, <2>3, <2>4, OrderSame DEF Loaded
<1>4. ASSUME NEW c \in Ctx, RxActions(c) PROVE OrderOK'
  <2>1. CASE Reserve(c) \/ Get(c) \/ Unreserve(c) \/ PutBack(c) \/ StackFree(c)
    <3>1. /\ pc[c] \notin {"queue", "start"}
          /\ \E l \in {"idle", "get", "program", "unreserve", "putback", "reserve"} : Goto(c, l)
      BY <2>1 DEF Reserve, Get, Unreserve, PutBack, StackFree, Busy
    <3>2. UNCHANGED <<written, dq, dmaFifo>> /\ \A d \in Ctx \ {c} : hold'[d] = hold[d]
      BY <2>1 DEF Reserve, Get, Unreserve, PutBack, StackFree, Carry, rxdma, fifos
    <3>3. c \notin Loaded
      BY <3>1 DEF Loaded
    <3>4. Loaded' = Loaded /\ \A d \in Ctx : pc'[d] = "start" <=> pc[d] = "start"
      BY <1>0, <3>1, <3>3, NotLoaded DEF Places
    <3>5. QED
      BY <3>2, <3>3, <3>4, OrderSame DEF Loaded
  <2>2. CASE Program(c)
    <3>1. pc[c] = "program" /\ UNCHANGED <<dq, dmaFifo, hold>> /\ c \notin Loaded
      BY <2>2 DEF Program, fifos, Loaded
    <3>2. CASE Goto(c, "unreserve") /\ UNCHANGED written
      <4>1. Loaded' = Loaded /\ \A d \in Ctx : pc'[d] = "start" <=> pc[d] = "start"
        BY <1>0, <3>1, <3>2, NotLoaded DEF Places
      <4>2. QED
        BY <3>1, <3>2, <4>1, OrderSame
    <3>3. CASE Goto(c, "queue") /\ written' = hold[c] /\ written = NoBuf
      <4>1. Loaded = {}
        BY <3>3 DEF OrderOK, PlaceOK, Loaded
      <4>2. Loaded' = {c} /\ \A d \in Ctx : pc'[d] # "start"
        BY <1>0, <3>3, <4>1, Moved DEF Loaded
      <4>3. dmaFifo = dq
        BY <4>1 DEF OrderOK, Loaded
      <4>4. QED
        BY <3>1, <3>3, <4>2, <4>3 DEF OrderOK
    <3>4. QED
      BY <2>2, <3>2, <3>3 DEF Program
  <2>3. CASE Queue(c)
    <3>1. /\ pc[c] = "queue" /\ Goto(c, "start") /\ c \in Loaded
          /\ dmaFifo' = Append(dmaFifo, hold[c]) /\ UNCHANGED <<hold, written, dq>>
      BY <2>3 DEF Queue, Queued, rxdma, Loaded
    <3>2. Loaded' = Loaded /\ Loaded = {c} /\ hold[c] = written /\ dmaFifo = dq
      BY <1>0, <3>1, Moved DEF OrderOK, Loaded
    <3>3. \A d \in Ctx : pc'[d] = "start" => d = c
      BY <1>0, <3>1, <3>2, Moved DEF Loaded
    <3>4. dmaFifo' = Append(dq', written') /\ pc'[c] = "start"
      BY <1>0, <3>1, <3>2, Moved
    <3>5. QED
      BY <3>1, <3>2, <3>3, <3>4 DEF OrderOK
  <2>4. CASE Start(c)
    <3>1. /\ pc[c] = "start" /\ Goto(c, "reserve") /\ c \in Loaded
          /\ dq' = Append(dq, written) /\ written' = NoBuf /\ UNCHANGED dmaFifo
      BY <2>4 DEF Start, fifos, Loaded
    <3>2. Loaded = {c} /\ dmaFifo = Append(dq, written)
      BY <3>1 DEF OrderOK
    <3>3. Loaded' = {}
      BY <1>0, <3>1, <3>2, Moved
    <3>4. QED
      BY <3>1, <3>2, <3>3 DEF OrderOK, Loaded
  <2>5. QED
    BY <1>4, <2>1, <2>2, <2>3, <2>4 DEF RxActions
<1>5. QED
  BY <1>1, <1>2, <1>3, <1>4, RxCases

----------------------------------------------------------------------------
(* The device.                                                             *)

(* A step that leaves the descriptors and rx_dma_fifo alone, and takes no   *)
(* buffer from a context that is about to queue it.                        *)
LEMMA DeviceSame ==
  ASSUME DeviceOK, UNCHANGED <<written, dq, dmaFifo>>, Starting' = Starting,
         \A d \in Ctx : pc[d] = "queue" => pc'[d] = "queue" /\ hold'[d] = hold[d]
  PROVE  DeviceOK'
<1>1. \A b, i : Ahead(pc, hold, dmaFifo, b, i) => Ahead(pc', hold', dmaFifo', b, i)
  BY DEF Ahead
<1>2. QED
  BY <1>1 DEF DeviceOK

LEMMA DeviceStep ==
  ASSUME TypeRx, PlaceOK, DeviceOK, RxNext, ~startFailed'
  PROVE  DeviceOK'
<1> USE DEF TypeRx
<1>0. /\ pc \in [Ctx -> Places] /\ "rxt" \in Ctx /\ "isr" \in Ctx
      /\ Len(dq) \in Nat /\ Len(dmaFifo) \in Nat /\ Len(dq) <= Len(dmaFifo)
  BY Constants, FifoAhead
<1>1. CASE RxCallback
  <2>1. /\ dq # <<>> /\ dmaFifo # <<>> /\ dq' = Tail(dq) /\ dmaFifo' = Tail(dmaFifo)
        /\ UNCHANGED <<hold, written>> /\ pc["isr"] = "idle"
        /\ pc' = pc \/ Goto("isr", "reserve")
    BY <1>1, FifoAhead DEF RxCallback, Taken, Busy
  <2>2. Starting' = Starting /\ \A d \in Ctx : pc[d] = "queue" => pc'[d] = "queue"
    BY <1>0, <2>1 DEF Starting, Goto
  <2>3. /\ Len(dq) >= 1 /\ Len(dq') = Len(dq) - 1 /\ \A i \in 1 .. Len(dq') : dq'[i] = dq[i + 1]
        /\ Len(dmaFifo') = Len(dmaFifo) - 1
        /\ \A j \in 1 .. Len(dmaFifo') : dmaFifo'[j] = dmaFifo[j + 1]
    BY <2>1, HeadTailProperties, EmptySeq
  <2>4. ASSUME NEW b, NEW i \in Nat, i >= 1, Ahead(pc, hold, dmaFifo, b, i + 1)
        PROVE  Ahead(pc', hold', dmaFifo', b, i)
    <3>1. CASE \E c \in Ctx : pc[c] = "queue" /\ hold[c] = b
      BY <2>1, <2>2, <3>1 DEF Ahead
    <3>2. CASE \E j \in i + 1 .. Len(dmaFifo) : dmaFifo[j] = b
      <4>1. PICK j \in i + 1 .. Len(dmaFifo) : dmaFifo[j] = b
        BY <3>2
      <4>2. j - 1 \in i .. Len(dmaFifo') /\ dmaFifo'[j - 1] = b
        BY <1>0, <2>3, <2>4, <4>1
      <4>3. QED
        BY <4>2 DEF Ahead
    <3>3. QED
      BY <2>4, <3>1, <3>2 DEF Ahead
  <2>5. \A i \in 1 .. Len(dq') : dq'[i] # NoBuf => Ahead(pc', hold', dmaFifo', dq'[i], i)
    <3>1. TAKE i \in 1 .. Len(dq')
    <3>2. i \in Nat /\ i >= 1 /\ i + 1 \in 1 .. Len(dq) /\ dq'[i] = dq[i + 1]
      BY <1>0, <2>3
    <3>3. QED
      BY <2>4, <3>2 DEF DeviceOK
  <2>6. written' # NoBuf => Ahead(pc', hold', dmaFifo', written', Len(dq') + 1)
    BY <1>0, <2>1, <2>3, <2>4 DEF DeviceOK
  <2>7. Len(dmaFifo') = Len(dq') + Cardinality(Starting')
    BY <1>0, <2>2, <2>3, StartingCount DEF DeviceOK
  <2>8. QED
    BY <2>5, <2>6, <2>7 DEF DeviceOK
<1>2. CASE WorkerTake \/ WorkerDone
  <2>1. /\ pc["rxt"] \in {"idle", "frame"} /\ UNCHANGED <<written, dq, dmaFifo>>
        /\ \E l \in {"idle", "frame", "reserve"} : Goto("rxt", l)
        /\ \A d \in Ctx \ {"rxt"} : hold'[d] = hold[d]
    BY <1>2 DEF WorkerTake, WorkerDone, Carry, rxdma
  <2>2. Starting' = Starting
        /\ \A d \in Ctx : pc[d] = "queue" => pc'[d] = "queue" /\ hold'[d] = hold[d]
    BY <1>0, <2>1 DEF Starting, Goto
  <2>3. QED
    BY <2>1, <2>2, DeviceSame
<1>3. ASSUME NEW c \in Ctx, RxActions(c) PROVE DeviceOK'
  <2>1. CASE Reserve(c) \/ Get(c) \/ Unreserve(c) \/ PutBack(c) \/ StackFree(c)
    <3>1. /\ pc[c] \notin {"queue", "start"} /\ UNCHANGED <<written, dq, dmaFifo>>
          /\ \E l \in {"idle", "get", "program", "unreserve", "putback", "reserve"} : Goto(c, l)
          /\ \A d \in Ctx \ {c} : hold'[d] = hold[d]
      BY <2>1 DEF Reserve, Get, Unreserve, PutBack, StackFree, Busy, Carry, rxdma, fifos
    <3>2. Starting' = Starting
          /\ \A d \in Ctx : pc[d] = "queue" => pc'[d] = "queue" /\ hold'[d] = hold[d]
      BY <1>0, <3>1 DEF Starting, Goto
    <3>3. QED
      BY <3>1, <3>2, DeviceSame
  <2>2. CASE Program(c)
    <3>1. /\ pc[c] = "program" /\ UNCHANGED <<dq, dmaFifo, hold>>
          /\ \/ Goto(c, "unreserve") /\ UNCHANGED written
             \/ Goto(c, "queue") /\ written' = hold[c]
      BY <2>2 DEF Program, fifos
    <3>2. Starting' = Starting
          /\ \A d \in Ctx : pc[d] = "queue" => pc'[d] = "queue" /\ hold'[d] = hold[d]
      BY <1>0, <3>1 DEF Starting, Goto
    <3>3. CASE UNCHANGED written
      BY <3>1, <3>2, <3>3, DeviceSame
    <3>4. CASE Goto(c, "queue") /\ written' = hold[c]
      <4>1. \A b, i : Ahead(pc, hold, dmaFifo, b, i) => Ahead(pc', hold', dmaFifo', b, i)
        BY <3>1, <3>2 DEF Ahead
      <4>2. Ahead(pc', hold', dmaFifo', written', Len(dq') + 1)
        BY <1>0, <3>1, <3>4 DEF Ahead, Goto
      <4>3. QED
        BY <3>1, <3>2, <4>1, <4>2 DEF DeviceOK
    <3>5. QED
      BY <3>1, <3>3, <3>4
  <2>3. CASE Queue(c)
    <3>1. /\ pc[c] = "queue" /\ Goto(c, "start") /\ dmaFifo' = Append(dmaFifo, hold[c])
          /\ UNCHANGED <<hold, written, dq>> /\ hold[c] \in Buf
      BY <2>3 DEF Queue, Queued, rxdma, PlaceOK
    <3>2. /\ Len(dmaFifo') = Len(dmaFifo) + 1 /\ dmaFifo'[Len(dmaFifo) + 1] = hold[c]
          /\ \A j \in 1 .. Len(dmaFifo) : dmaFifo'[j] = dmaFifo[j]
      BY <3>1, AppendProperties
    <3>3. c \notin Starting /\ Starting' = Starting \cup {c}
          /\ \A d \in Ctx \ {c} : pc'[d] = pc[d]
      BY <1>0, <3>1 DEF Starting, Goto
    <3>4. Len(dmaFifo') = Len(dq') + Cardinality(Starting')
      BY <1>0, <3>1, <3>2, <3>3, StartingCount DEF DeviceOK
    <3>5. ASSUME NEW b, NEW i \in 1 .. Len(dmaFifo) + 1, Ahead(pc, hold, dmaFifo, b, i)
          PROVE  Ahead(pc', hold', dmaFifo', b, i)
      <4>1. CASE \E d \in Ctx \ {c} : pc[d] = "queue" /\ hold[d] = b
        BY <3>1, <3>3, <4>1 DEF Ahead
      <4>2. CASE hold[c] = b
        BY <1>0, <3>2, <4>2 DEF Ahead
      <4>3. CASE \E j \in i .. Len(dmaFifo) : dmaFifo[j] = b
        BY <1>0, <3>2, <4>3 DEF Ahead
      <4>4. QED
        BY <3>5, <4>1, <4>2, <4>3 DEF Ahead
    <3>6. \A i \in 1 .. Len(dq') : dq'[i] # NoBuf => Ahead(pc', hold', dmaFifo', dq'[i], i)
      BY <1>0, <3>1, <3>5 DEF DeviceOK
    <3>7. written' # NoBuf => Ahead(pc', hold', dmaFifo', written', Len(dq') + 1)
      BY <1>0, <3>1, <3>5 DEF DeviceOK
    <3>8. QED
      BY <3>4, <3>6, <3>7 DEF DeviceOK
  <2>4. CASE Start(c)
    <3>1. /\ pc[c] = "start" /\ Goto(c, "reserve") /\ Carry(c, NoBuf)
          /\ dq' = Append(dq, written) /\ written' = NoBuf /\ UNCHANGED dmaFifo
      BY <2>4 DEF Start, fifos
    <3>2. /\ Len(dq') = Len(dq) + 1 /\ dq'[Len(dq) + 1] = written
          /\ \A i \in 1 .. Len(dq) : dq'[i] = dq[i]
      BY <3>1, AppendProperties
    <3>3. c \in Starting /\ Starting' = Starting \ {c}
          /\ \A d \in Ctx : pc[d] = "queue" => pc'[d] = "queue" /\ hold'[d] = hold[d]
      BY <1>0, <3>1 DEF Starting, Goto, Carry
    <3>4. Len(dmaFifo') = Len(dq') + Cardinality(Starting')
      BY <1>0, <3>1, <3>2, <3>3, StartingCount DEF DeviceOK
    <3>5. \A b, i : Ahead(pc, hold, dmaFifo, b, i) => Ahead(pc', hold', dmaFifo', b, i)
      BY <3>1, <3>3 DEF Ahead
    <3>6. \A i \in 1 .. Len(dq') : dq'[i] # NoBuf => Ahead(pc', hold', dmaFifo', dq'[i], i)
      <4>1. TAKE i \in 1 .. Len(dq')
      <4>2. i \in 1 .. Len(dq) \/ i = Len(dq) + 1
        BY <1>0, <3>2
      <4>3. QED
        BY <3>2, <3>5, <4>2 DEF DeviceOK
    <3>7. QED
      BY <3>1, <3>4, <3>6 DEF DeviceOK
  <2>5. QED
    BY <1>3, <2>1, <2>2, <2>3, <2>4 DEF RxActions
<1>4. QED
  BY <1>1, <1>2, <1>3, RxCases

----------------------------------------------------------------------------
(* Who holds which buffer.                                                 *)

OneEach == \A c, d \in Owners : hold[c] = hold[d] => c = d

LEMMA HeldKept ==
  ASSUME OneEach, Owners' = Owners, \A d \in Owners : hold'[d] = hold[d]
  PROVE  Held' = Held /\ OneEach'
BY DEF Held, OneEach

LEMMA HeldGains ==
  ASSUME OneEach, NEW c \in Ctx \ Owners, Owners' = Owners \cup {c},
         \A d \in Owners : hold'[d] = hold[d], hold'[c] \notin Held
  PROVE  Held' = Held \cup {hold'[c]} /\ OneEach'
BY DEF Held, OneEach

LEMMA HeldLoses ==
  ASSUME OneEach, NEW c \in Owners, Owners' = Owners \ {c},
         \A d \in Owners \ {c} : hold'[d] = hold[d]
  PROVE  Held' = Held \ {hold[c]} /\ hold[c] \in Held /\ OneEach'
<1>1. \A d \in Owners \ {c} : hold[d] # hold[c]
  BY DEF OneEach
<1>2. QED
  BY <1>1 DEF Held, OneEach

(* A partition of the buffers.                                             *)
Parts(F, R, S, D, H) ==
  /\ F \cup R \cup S \cup D \cup H = Buf
  /\ F \cap (R \cup S \cup D \cup H) = {} /\ R \cap (S \cup D \cup H) = {}
  /\ S \cap (D \cup H) = {} /\ D \cap H = {}

LEMMA OwnerParts ==
  SingleOwner <=>
    (~startFailed => /\ Parts(free, ready, stack, Items(dmaFifo), Held)
                     /\ \A i, j \in 1 .. Len(dmaFifo) : dmaFifo[i] = dmaFifo[j] => i = j
                     /\ OneEach
                     /\ Items(dq) \ {NoBuf} \subseteq Items(dmaFifo) \cup Handing)
BY DEF SingleOwner, Parts, OneEach

(* The device keeps to the buffers that wait or are about to.               *)
LEMMA DeviceOwns ==
  ASSUME TypeRx, DeviceOK
  PROVE  Items(dq) \ {NoBuf} \subseteq Items(dmaFifo) \cup Handing
<1>1. SUFFICES ASSUME NEW i \in 1 .. Len(dq), dq[i] # NoBuf
               PROVE  dq[i] \in Items(dmaFifo) \cup Handing
  BY DEF Items
<1>2. Ahead(pc, hold, dmaFifo, dq[i], i)
  BY <1>1 DEF DeviceOK
<1>3. Len(dmaFifo) \in Nat /\ i \in Nat /\ i >= 1
  BY <1>1, FifoAhead
<1>4. QED
  BY <1>2, <1>3 DEF Ahead, Items, Handing

LEMMA OwnerStep ==
  ASSUME TypeRx, PlaceOK, DeviceOK, SingleOwner, RxNext, ~startFailed, ~startFailed',
         (Items(dq) \ {NoBuf} \subseteq Items(dmaFifo) \cup Handing)'
  PROVE  SingleOwner'
<1> USE DEF TypeRx
<1>0. NoBuf \notin Buf /\ "rxt" \in Ctx /\ "isr" \in Ctx
  BY BufAssumption, Constants
<1>a. /\ Parts(free, ready, stack, Items(dmaFifo), Held) /\ OneEach
      /\ \A i, j \in 1 .. Len(dmaFifo) : dmaFifo[i] = dmaFifo[j] => i = j
  BY OwnerParts
<1>b. SUFFICES /\ Parts(free', ready', stack', Items(dmaFifo'), Held') /\ OneEach'
               /\ \A i, j \in 1 .. Len(dmaFifo') : dmaFifo'[i] = dmaFifo'[j] => i = j
  BY DEF SingleOwner, Parts, OneEach, Items, Handing
<1>1. CASE RxCallback
  <2>1. /\ dq # <<>> /\ dmaFifo' = Tail(dmaFifo) /\ UNCHANGED <<hold, stack>>
        /\ pc["isr"] = "idle" /\ (pc' = pc \/ Goto("isr", "reserve"))
        /\ \/ ready' = ready \cup {Head(dmaFifo)} /\ free' = free
           \/ free' = free \cup {Head(dmaFifo)} /\ ready' = ready
    BY <1>1, FifoAhead DEF RxCallback, Taken, Busy
  <2>2. Owners' = Owners
    BY <1>0, <2>1 DEF Goto, Owners
  <2>3. Held' = Held /\ OneEach'
    BY <1>a, <2>1, <2>2, HeldKept
  <2>4. /\ Head(dmaFifo) \in Items(dmaFifo)
        /\ Items(dmaFifo') = Items(dmaFifo) \ {Head(dmaFifo)}
        /\ \A i, j \in 1 .. Len(dmaFifo') : dmaFifo'[i] = dmaFifo'[j] => i = j
    BY <1>a, <2>1, FifoAhead, ItemsTail
  <2>5. QED
    BY <1>a, <2>1, <2>3, <2>4 DEF Parts
<1>2. CASE WorkerTake
  <2>1. PICK b \in ready : ready' = ready \ {b} /\ Carry("rxt", b)
    BY <1>2 DEF WorkerTake
  <2>2. UNCHANGED <<free, stack, dmaFifo>> /\ pc["rxt"] = "idle" /\ Goto("rxt", "frame")
    BY <1>2 DEF WorkerTake
  <2>3. hold["rxt"] = NoBuf /\ hold'["rxt"] = b /\ b # NoBuf
    BY <1>0, <2>1, <2>2 DEF PlaceOK, Carry
  <2>4. "rxt" \notin Owners /\ Owners' = Owners \cup {"rxt"}
        /\ \A d \in Owners : hold'[d] = hold[d]
    BY <1>0, <2>1, <2>2, <2>3 DEF Owners, Goto, Carry
  <2>5. b \notin Held
    BY <1>a DEF Parts
  <2>6. Held' = Held \cup {b} /\ OneEach'
    BY <1>0, <1>a, <2>3, <2>4, <2>5, HeldGains
  <2>7. QED
    BY <1>a, <2>1, <2>2, <2>6 DEF Parts
<1>3. CASE WorkerDone
  <2>1. /\ pc["rxt"] = "frame" /\ Carry("rxt", NoBuf) /\ UNCHANGED <<ready, dmaFifo>>
        /\ Goto("rxt", "idle") \/ Goto("rxt", "reserve")
        /\ \/ stack' = stack \cup {hold["rxt"]} /\ free' = free
           \/ free' = free \cup {hold["rxt"]} /\ stack' = stack
    BY <1>3 DEF WorkerDone
  <2>2. "rxt" \in Owners /\ Owners' = Owners \ {"rxt"}
        /\ \A d \in Owners \ {"rxt"} : hold'[d] = hold[d]
    BY <1>0, <2>1 DEF PlaceOK, Owners, Goto, Carry
  <2>3. Held' = Held \ {hold["rxt"]} /\ hold["rxt"] \in Held /\ OneEach'
    BY <1>a, <2>2, HeldLoses
  <2>4. QED
    BY <1>a, <2>1, <2>3 DEF Parts
<1>4. ASSUME NEW c \in Ctx, RxActions(c)
      PROVE  /\ Parts(free', ready', stack', Items(dmaFifo'), Held') /\ OneEach'
             /\ \A i, j \in 1 .. Len(dmaFifo') : dmaFifo'[i] = dmaFifo'[j] => i = j
  <2>1. CASE Reserve(c) \/ Unreserve(c) \/ Program(c) \/ (Get(c) /\ UNCHANGED hold)
    <3>1. /\ pc[c] \in {"reserve", "unreserve", "program", "get"} /\ UNCHANGED <<fifos, hold>>
          /\ \E l \in {"idle", "get", "putback", "queue", "unreserve"} : Goto(c, l)
      <4>1. CASE Get(c) /\ UNCHANGED hold
        <5>1. pc[c] = "get" /\ hold[c] = NoBuf
          BY <4>1 DEF Get, PlaceOK
        <5>2. \A b \in free : ~Carry(c, b)
          BY <1>0, <4>1, <5>1 DEF Carry
        <5>3. QED
          BY <4>1, <5>1, <5>2 DEF Get, fifos
      <4>2. CASE Reserve(c)
        BY <4>2 DEF Reserve, fifos
      <4>3. CASE Unreserve(c)
        BY <4>3 DEF Unreserve, fifos
      <4>4. CASE Program(c)
        BY <4>4 DEF Program, fifos
      <4>5. QED
        BY <2>1, <4>1, <4>2, <4>3, <4>4
    <3>2. Owners' = Owners
      BY <3>1 DEF Owners, Goto
    <3>3. Held' = Held /\ OneEach'
      BY <1>a, <3>1, <3>2, HeldKept
    <3>4. QED
      BY <1>a, <3>1, <3>3 DEF fifos
  <2>2. CASE Get(c) /\ hold' # hold
    <3>1. PICK b \in free : free' = free \ {b} /\ Carry(c, b) /\ Goto(c, "program")
      BY <2>2 DEF Get
    <3>2. UNCHANGED <<ready, stack, dmaFifo>> /\ pc[c] = "get" /\ hold[c] = NoBuf
      BY <2>2 DEF Get, PlaceOK
    <3>3. hold'[c] = b /\ b # NoBuf
      BY <1>0, <3>1 DEF Carry
    <3>4. c \notin Owners /\ Owners' = Owners \cup {c} /\ \A d \in Owners : hold'[d] = hold[d]
      BY <3>1, <3>2, <3>3 DEF Owners, Goto, Carry
    <3>5. b \notin Held
      BY <1>a DEF Parts
    <3>6. Held' = Held \cup {b} /\ OneEach'
      BY <1>a, <3>3, <3>4, <3>5, HeldGains
    <3>7. QED
      BY <1>a, <3>1, <3>2, <3>6 DEF Parts
  <2>3. CASE PutBack(c)
    <3>1. /\ pc[c] = "putback" /\ free' = free \cup {hold[c]} /\ Carry(c, NoBuf)
          /\ Goto(c, "idle") /\ UNCHANGED <<ready, stack, dmaFifo>>
      BY <2>3 DEF PutBack
    <3>2. c \in Owners /\ Owners' = Owners \ {c} /\ \A d \in Owners \ {c} : hold'[d] = hold[d]
      BY <3>1 DEF PlaceOK, Owners, Goto, Carry
    <3>3. Held' = Held \ {hold[c]} /\ hold[c] \in Held /\ OneEach'
      BY <1>a, <3>2, HeldLoses
    <3>4. QED
      BY <1>a, <3>1, <3>3 DEF Parts
  <2>4. CASE Queue(c)
    <3>1. /\ pc[c] = "queue" /\ Goto(c, "start") /\ dmaFifo' = Append(dmaFifo, hold[c])
          /\ UNCHANGED <<hold, free, ready, stack>>
      BY <2>4 DEF Queue, Queued
    <3>2. c \in Owners /\ Owners' = Owners \ {c}
      BY <3>1 DEF PlaceOK, Owners, Goto
    <3>3. Held' = Held \ {hold[c]} /\ hold[c] \in Held /\ OneEach'
      BY <1>a, <3>1, <3>2, HeldLoses
    <3>4. hold[c] \in Buf /\ hold[c] \notin Items(dmaFifo)
      BY <1>a, <3>3 DEF Parts
    <3>5. Items(dmaFifo') = Items(dmaFifo) \cup {hold[c]}
      BY <3>1, <3>4, ItemsAppend
    <3>6. \A i, j \in 1 .. Len(dmaFifo') : dmaFifo'[i] = dmaFifo'[j] => i = j
      <4>1. /\ Len(dmaFifo) \in Nat /\ Len(dmaFifo') = Len(dmaFifo) + 1
            /\ \A i \in 1 .. Len(dmaFifo) : dmaFifo'[i] = dmaFifo[i]
            /\ dmaFifo'[Len(dmaFifo) + 1] = hold[c]
        BY <3>1, <3>4, AppendProperties, LenProperties
      <4>2. \A i \in 1 .. Len(dmaFifo) : dmaFifo[i] # hold[c]
        BY <3>4 DEF Items
      <4>3. QED
        BY <1>a, <4>1, <4>2
    <3>7. QED
      BY <1>a, <3>1, <3>3, <3>5, <3>6 DEF Parts
  <2>5. CASE Start(c)
    <3>1. pc[c] = "start" /\ Goto(c, "reserve") /\ Carry(c, NoBuf) /\ UNCHANGED fifos
      BY <2>5 DEF Start
    <3>2. Owners' = Owners /\ \A d \in Owners : hold'[d] = hold[d]
      BY <3>1 DEF Owners, Goto, Carry
    <3>3. Held' = Held /\ OneEach'
      BY <1>a, <3>2, HeldKept
    <3>4. QED
      BY <1>a, <3>1, <3>3 DEF fifos
  <2>6. CASE StackFree(c)
    <3>1. PICK b \in stack : stack' = stack \ {b} /\ free' = free \cup {b}
      BY <2>6 DEF StackFree
    <3>2. pc[c] = "idle" /\ Goto(c, "reserve") /\ UNCHANGED <<ready, dmaFifo, hold>>
      BY <2>6 DEF StackFree, Busy
    <3>3. Owners' = Owners
      BY <3>2 DEF Owners, Goto
    <3>4. Held' = Held /\ OneEach'
      BY <1>a, <3>2, <3>3, HeldKept
    <3>5. QED
      BY <1>a, <3>1, <3>2, <3>4 DEF Parts
  <2>7. QED
    BY <1>4, <2>1, <2>2, <2>3, <2>4, <2>5, <2>6 DEF RxActions
<1>5. QED
  BY <1>1, <1>2, <1>3, <1>4, RxCases

----------------------------------------------------------------------------
(* The count of reservations and posted buffers, and the types.            *)

LEMMA CountStep ==
  ASSUME TypeRx, PlaceOK, DeviceOK, CountOK, RxNext, ~startFailed'
  PROVE  CountOK' /\ inflight' \in 0 .. MaxInflight
<1> USE ReservingCount DEF TypeRx
<1>0. pc \in [Ctx -> Places] /\ "rxt" \in Ctx /\ "isr" \in Ctx
      /\ Len(dmaFifo) \in Nat /\ MaxInflight \in Nat
  BY Constants, LenProperties
<1>a. inflight = Cardinality(Reserving) + Len(dmaFifo)
  BY DEF CountOK
<1>1. CASE RxCallback
  <2>1. /\ dq # <<>> /\ dmaFifo # <<>> /\ dmaFifo' = Tail(dmaFifo)
        /\ inflight' = IF inflight > 0 THEN inflight - 1 ELSE 0
        /\ pc["isr"] = "idle" /\ (pc' = pc \/ Goto("isr", "reserve"))
    BY <1>1, FifoAhead DEF RxCallback, Taken, Busy
  <2>2. Reserving' = Reserving
    BY <1>0, <2>1 DEF Goto, Reserving
  <2>3. Len(dmaFifo') = Len(dmaFifo) - 1 /\ Len(dmaFifo) >= 1
    BY <2>1, HeadTailProperties, EmptySeq
  <2>4. QED
    BY <1>0, <1>a, <2>1, <2>2, <2>3 DEF CountOK
<1>2. CASE WorkerTake \/ WorkerDone
  <2>1. /\ pc["rxt"] \in {"idle", "frame"} /\ UNCHANGED <<dmaFifo, inflight>>
        /\ \E l \in {"idle", "frame", "reserve"} : Goto("rxt", l)
    BY <1>2 DEF WorkerTake, WorkerDone
  <2>2. Reserving' = Reserving
    BY <1>0, <2>1 DEF Goto, Reserving
  <2>3. QED
    BY <1>a, <2>1, <2>2 DEF CountOK
<1>3. ASSUME NEW c \in Ctx, RxActions(c) PROVE CountOK' /\ inflight' \in 0 .. MaxInflight
  <2>1. CASE Reserve(c)
    <3>1. pc[c] = "reserve" /\ UNCHANGED dmaFifo /\ c \notin Reserving
      BY <2>1 DEF Reserve, fifos, Reserving
    <3>2. CASE Full
      <4>1. inflight' = inflight /\ Goto(c, "idle")
        BY <2>1, <3>2 DEF Reserve
      <4>2. Reserving' = Reserving
        BY <1>0, <3>1, <4>1 DEF Goto, Reserving
      <4>3. QED
        BY <1>a, <3>1, <4>1, <4>2 DEF CountOK
    <3>3. CASE ~Full
      <4>1. inflight' = inflight + 1 /\ Goto(c, "get") /\ inflight < MaxInflight
        BY <1>0, <2>1, <3>3 DEF Reserve, Full
      <4>2. Reserving' = Reserving \cup {c}
        BY <1>0, <4>1 DEF Goto, Reserving
      <4>3. Cardinality(Reserving') = Cardinality(Reserving) + 1
        BY <3>1, <4>2
      <4>4. QED
        BY <1>0, <1>a, <3>1, <4>1, <4>3 DEF CountOK
    <3>4. QED
      BY <3>2, <3>3
  <2>2. CASE Get(c) \/ Program(c)
    <3>1. /\ pc[c] \in {"get", "program"} /\ UNCHANGED <<dmaFifo, inflight>>
          /\ \E l \in {"program", "unreserve", "queue"} : Goto(c, l)
      BY <2>2 DEF Get, Program, fifos
    <3>2. Reserving' = Reserving
      BY <1>0, <3>1 DEF Goto, Reserving
    <3>3. QED
      BY <1>a, <3>1, <3>2 DEF CountOK
  <2>3. CASE Unreserve(c)
    <3>1. /\ pc[c] = "unreserve" /\ c \in Reserving /\ inflight' = inflight - 1
          /\ UNCHANGED dmaFifo /\ \E l \in {"idle", "putback"} : Goto(c, l)
      BY <2>3 DEF Unreserve, Unreserved, fifos, Reserving
    <3>2. Reserving' = Reserving \ {c}
      BY <1>0, <3>1 DEF Goto, Reserving
    <3>3. Cardinality(Reserving) >= 1
      BY <3>1, FS_EmptySet
    <3>4. QED
      BY <1>0, <1>a, <3>1, <3>2, <3>3 DEF CountOK
  <2>4. CASE PutBack(c) \/ StackFree(c)
    <3>1. /\ pc[c] \in {"putback", "idle"} /\ UNCHANGED <<dmaFifo, inflight>>
          /\ \E l \in {"idle", "reserve"} : Goto(c, l)
      BY <2>4 DEF PutBack, StackFree, Busy
    <3>2. Reserving' = Reserving
      BY <1>0, <3>1 DEF Goto, Reserving
    <3>3. QED
      BY <1>a, <3>1, <3>2 DEF CountOK
  <2>5. CASE Queue(c)
    <3>1. /\ pc[c] = "queue" /\ c \in Reserving /\ Goto(c, "start") /\ inflight' = inflight
          /\ dmaFifo' = Append(dmaFifo, hold[c])
      BY <2>5 DEF Queue, Queued, Reserving
    <3>2. hold[c] \in Buf
      BY <3>1 DEF PlaceOK
    <3>3. Len(dmaFifo') = Len(dmaFifo) + 1
      BY <3>1, <3>2, AppendProperties
    <3>4. Reserving' = Reserving \ {c}
      BY <1>0, <3>1 DEF Goto, Reserving
    <3>5. QED
      BY <1>0, <1>a, <3>1, <3>3, <3>4 DEF CountOK
  <2>6. CASE Start(c)
    <3>1. pc[c] = "start" /\ Goto(c, "reserve") /\ UNCHANGED <<dmaFifo, inflight>>
      BY <2>6 DEF Start, fifos
    <3>2. Reserving' = Reserving
      BY <1>0, <3>1 DEF Goto, Reserving
    <3>3. QED
      BY <1>a, <3>1, <3>2 DEF CountOK
  <2>7. QED
    BY <1>3, <2>1, <2>2, <2>3, <2>4, <2>5, <2>6 DEF RxActions
<1>4. QED
  BY <1>1, <1>2, <1>3, RxCases

LEMMA TypeStep ==
  ASSUME TypeRx, PlaceOK, DeviceOK, RxNext, ~startFailed,
         startFailed' \/ inflight' \in 0 .. MaxInflight
  PROVE  TypeRx'
<1> USE DEF TypeRx, Goto, Carry, Places
<1>0. "rxt" \in Ctx /\ "isr" \in Ctx /\ MaxFaults \in Nat
  BY Constants
<1>1. CASE RxCallback
  <2>1. dq # <<>> /\ dmaFifo # <<>> /\ Head(dmaFifo) \in Buf
    BY <1>1, FifoAhead DEF RxCallback
  <2>2. Tail(dq) \in Seq(Buf \cup {NoBuf}) /\ Tail(dmaFifo) \in Seq(Buf)
    BY <2>1, HeadTailProperties
  <2>3. QED
    BY <1>0, <1>1, <2>1, <2>2 DEF RxCallback, Taken, hist
<1>2. CASE WorkerTake
  BY <1>0, <1>2 DEF WorkerTake, rxdma, hist
<1>3. CASE WorkerDone
  BY <1>0, <1>3 DEF WorkerDone, PlaceOK, rxdma, hist
<1>4. ASSUME NEW c \in Ctx, RxActions(c) PROVE TypeRx'
  <2>1. CASE Reserve(c)
    BY <2>1 DEF Reserve, fifos, rxdma, hist
  <2>2. CASE Get(c)
    BY <2>2 DEF Get, rxdma, hist
  <2>3. CASE Unreserve(c)
    BY <2>3 DEF Unreserve, fifos, rxdma, hist
  <2>4. CASE PutBack(c)
    BY <2>4 DEF PutBack, PlaceOK, rxdma, hist
  <2>5. CASE Program(c)
    <3>1. faults' \in 0 .. MaxFaults /\ written' \in Buf \cup {NoBuf}
      BY <1>0, <2>5 DEF Program, Fault
    <3>2. crossed' \in BOOLEAN /\ UNCHANGED startFailed
      BY <2>5, Zenon DEF Program
    <3>3. pc' \in [Ctx -> Places]
      BY <2>5 DEF Program
    <3>4. inflight' \in 0 .. MaxInflight
      BY <2>5 DEF Program
    <3>5. QED
      BY <2>5, <3>1, <3>2, <3>3, <3>4 DEF Program, fifos
  <2>6. CASE Queue(c)
    BY <2>6 DEF Queue, Queued, PlaceOK, rxdma, hist
  <2>7. CASE Start(c)
    <3>1. faults' \in 0 .. MaxFaults
      BY <1>0, <2>7 DEF Start, Fault
    <3>2. startFailed' \in BOOLEAN /\ UNCHANGED crossed
      BY <2>7, Zenon DEF Start
    <3>3. pc' \in [Ctx -> Places] /\ hold' \in [Ctx -> Buf \cup {NoBuf}]
      BY <2>7 DEF Start
    <3>4. dq' \in Seq(Buf \cup {NoBuf}) /\ written' \in Buf \cup {NoBuf}
      <4>1. Append(dq, written) \in Seq(Buf \cup {NoBuf})
        BY AppendProperties
      <4>2. QED
        BY <2>7, <4>1 DEF Start, rxdma, hist
    <3>5. inflight' \in 0 .. MaxInflight
      BY <2>7 DEF Start
    <3>6. QED
      BY <2>7, <3>1, <3>2, <3>3, <3>4, <3>5 DEF Start, fifos
  <2>8. CASE StackFree(c)
    BY <2>8 DEF StackFree, rxdma, hist
  <2>9. QED
    BY <1>4, <2>1, <2>2, <2>3, <2>4, <2>5, <2>6, <2>7, <2>8 DEF RxActions
<1>5. QED
  BY <1>1, <1>2, <1>3, <1>4, RxCases

----------------------------------------------------------------------------
(* Reception does not die.  AliveInv says where the work is while no call   *)
(* has failed: somewhere there is a frame, a posted buffer, a context with  *)
(* a buffer, or one that is about to look for buffers.  A refill that finds *)
(* rx_dma_inflight at the limit may stop, because the interrupt only starts *)
(* one after it gave a place back.                                          *)

Alive ==
  \/ ready # {} \/ stack # {} \/ dmaFifo # <<>> \/ Held # {}
  \/ \E c \in Ctx : pc[c] \in {"reserve", "get"}

NoneFailed ==
  \A c \in Ctx : pc[c] # "putback" /\ (pc[c] = "unreserve" => hold[c] = NoBuf)

RoomForIsr == pc["isr"] = "reserve" => inflight < MaxInflight \/ dmaFifo # <<>>

AliveInv ==
  Roomy /\ ~startFailed => RoomForIsr /\ (faults = 0 => NoneFailed /\ Alive)

(* The threads cannot fill the device's window by reservations alone.      *)
LEMMA ThreadsBelowLimit ==
  ASSUME TypeRx, Roomy, NEW c \in Ctx, c \notin Reserving, c # "isr", pc["isr"] = "idle"
  PROVE  Cardinality(Reserving) < MaxInflight
<1>1. Reserving \subseteq (Apps \cup {"main", "rxt"}) \ {c} /\ c \in Apps \cup {"main", "rxt"}
  BY DEF Reserving, Ctx, Threads
<1>2. /\ IsFiniteSet(Apps) /\ Cardinality(Apps) \in Nat
      /\ "main" \notin Apps /\ "rxt" \notin Apps
  BY InflightAssumption, AppsAssumption, FS_CardinalityType
<1>3. IsFiniteSet(Apps \cup {"main"}) /\ Cardinality(Apps \cup {"main"}) = Cardinality(Apps) + 1
  BY <1>2, FS_AddElement
<1>4. /\ IsFiniteSet(Apps \cup {"main"} \cup {"rxt"})
      /\ Cardinality(Apps \cup {"main"} \cup {"rxt"}) = Cardinality(Apps) + 2
  <2>1. "rxt" \notin Apps \cup {"main"}
    BY <1>2
  <2>2. Cardinality(Apps \cup {"main"} \cup {"rxt"}) = Cardinality(Apps \cup {"main"}) + 1
        /\ IsFiniteSet(Apps \cup {"main"} \cup {"rxt"})
    BY <1>3, <2>1, FS_AddElement
  <2>3. QED
    BY <1>2, <1>3, <2>2
<1>5. Apps \cup {"main"} \cup {"rxt"} = Apps \cup {"main", "rxt"}
  OBVIOUS
<1>6. /\ IsFiniteSet((Apps \cup {"main", "rxt"}) \ {c})
      /\ Cardinality((Apps \cup {"main", "rxt"}) \ {c}) = Cardinality(Apps) + 1
  <2>1. Cardinality(Apps \cup {"main", "rxt"}) = Cardinality(Apps) + 2
        /\ IsFiniteSet(Apps \cup {"main", "rxt"})
    BY <1>4, <1>5
  <2>2. /\ IsFiniteSet((Apps \cup {"main", "rxt"}) \ {c})
        /\ Cardinality((Apps \cup {"main", "rxt"}) \ {c}) = Cardinality(Apps \cup {"main", "rxt"}) - 1
    BY <1>1, <2>1, FS_RemoveElement
  <2>3. QED
    BY <1>2, <2>1, <2>2
<1>7. Cardinality(Reserving) <= Cardinality(Apps) + 1 /\ Cardinality(Reserving) \in Nat
  <2>1. Reserving \in SUBSET ((Apps \cup {"main", "rxt"}) \ {c})
    BY <1>1
  <2>2. IsFiniteSet(Reserving)
        /\ Cardinality(Reserving) <= Cardinality((Apps \cup {"main", "rxt"}) \ {c})
    BY <1>6, <2>1, FS_Subset
  <2>3. QED
    BY <1>6, <2>2, FS_CardinalityType
<1>8. QED
  BY <1>2, <1>7, InflightAssumption DEF Roomy

LEMMA AliveStep ==
  ASSUME TypeRx, PlaceOK, DeviceOK, SingleOwner, CountOK, AliveInv, RxNext, Roomy,
         ~startFailed, ~startFailed'
  PROVE  AliveInv'
<1> USE DEF TypeRx
<1>0. /\ NoBuf \notin Buf /\ Buf # {} /\ "rxt" \in Ctx /\ "isr" \in Ctx /\ "rxt" # "isr"
      /\ MaxInflight \in Nat /\ MaxFaults \in Nat
  BY BufAssumption, Constants
<1>a. RoomForIsr /\ (faults = 0 => NoneFailed /\ Alive)
  BY DEF AliveInv
<1>b. SUFFICES RoomForIsr' /\ (faults' = 0 => NoneFailed' /\ Alive')
  BY DEF AliveInv
<1>1. CASE RxCallback
  <2>1. /\ dq # <<>> /\ dmaFifo # <<>> /\ dmaFifo' = Tail(dmaFifo) /\ UNCHANGED <<hold, faults>>
        /\ inflight' = IF inflight > 0 THEN inflight - 1 ELSE 0
        /\ \/ ready' = ready \cup {Head(dmaFifo)} /\ pc' = pc
           \/ Goto("isr", "reserve")
        /\ pc["isr"] = "idle"
    BY <1>1, FifoAhead DEF RxCallback, Taken, Busy
  <2>2. inflight' < MaxInflight
    BY <2>1, Constants
  <2>3. NoneFailed => NoneFailed'
    BY <1>0, <2>1 DEF NoneFailed, Goto
  <2>4. Alive'
    BY <1>0, <2>1 DEF Alive, Goto
  <2>5. QED
    BY <1>a, <2>1, <2>2, <2>3, <2>4 DEF RoomForIsr
<1>2. CASE WorkerTake
  <2>1. PICK b \in ready : ready' = ready \ {b} /\ Carry("rxt", b)
    BY <1>2 DEF WorkerTake
  <2>2. /\ UNCHANGED <<dmaFifo, inflight, faults>> /\ pc["rxt"] = "idle"
        /\ Goto("rxt", "frame")
    BY <1>2 DEF WorkerTake
  <2>3. hold'["rxt"] # NoBuf /\ pc'["rxt"] = "frame" /\ pc'["isr"] = pc["isr"]
    BY <1>0, <2>1, <2>2 DEF Carry, Goto
  <2>4. Held' # {}
    <3>1. "rxt" \in Owners'
      BY <1>0, <2>3 DEF Owners
    <3>2. QED
      BY <3>1 DEF Held
  <2>5. NoneFailed => NoneFailed'
    BY <1>0, <2>1, <2>2 DEF NoneFailed, Goto, Carry
  <2>6. QED
    BY <1>a, <2>2, <2>3, <2>4, <2>5 DEF RoomForIsr, Alive
<1>3. CASE WorkerDone
  <2>1. /\ UNCHANGED <<dmaFifo, inflight, faults>> /\ pc["rxt"] = "frame" /\ Carry("rxt", NoBuf)
        /\ \/ stack' = stack \cup {hold["rxt"]} /\ Goto("rxt", "idle")
           \/ Goto("rxt", "reserve")
    BY <1>3 DEF WorkerDone
  <2>2. pc'["isr"] = pc["isr"]
    BY <1>0, <2>1 DEF Goto
  <2>3. Alive'
    BY <1>0, <2>1 DEF Alive, Goto
  <2>4. NoneFailed => NoneFailed'
    BY <1>0, <2>1 DEF NoneFailed, Goto, Carry
  <2>5. QED
    BY <1>a, <2>1, <2>2, <2>3, <2>4 DEF RoomForIsr
<1>4. ASSUME NEW c \in Ctx, RxActions(c)
      PROVE  RoomForIsr' /\ (faults' = 0 => NoneFailed' /\ Alive')
  <2>1. CASE Reserve(c)
    <3>1. pc[c] = "reserve" /\ CanRun(c) /\ UNCHANGED <<fifos, hold, faults>> /\ c \notin Reserving
      BY <2>1 DEF Reserve, Reserving
    <3>2. CASE Full
      <4>1. inflight' = inflight /\ Goto(c, "idle") /\ inflight >= MaxInflight
        BY <2>1, <3>2 DEF Reserve, Full
      <4>2. dmaFifo # <<>>
        <5>1. CASE c = "isr"
          BY <1>0, <1>a, <3>1, <4>1, <5>1 DEF RoomForIsr
        <5>2. CASE c # "isr"
          <6>1. pc["isr"] = "idle"
            BY <3>1, <5>2 DEF CanRun, Busy
          <6>2. Cardinality(Reserving) < MaxInflight
            BY <3>1, <5>2, <6>1, ThreadsBelowLimit
          <6>3. Len(dmaFifo) # 0
            BY <1>0, <4>1, <6>2, ReservingCount DEF CountOK
          <6>4. QED
            BY <6>3
        <5>3. QED
          BY <5>1, <5>2
      <4>3. dmaFifo' # <<>>
        BY <3>1, <4>2 DEF fifos
      <4>4. NoneFailed => NoneFailed'
        BY <3>1, <4>1 DEF NoneFailed, Goto
      <4>5. QED
        BY <1>a, <3>1, <4>3, <4>4 DEF RoomForIsr, Alive
    <3>3. CASE ~Full
      <4>1. Goto(c, "get")
        BY <2>1, <3>3 DEF Reserve
      <4>2. pc'[c] = "get" /\ Alive'
        BY <4>1 DEF Goto, Alive
      <4>3. NoneFailed => NoneFailed'
        BY <3>1, <4>1 DEF NoneFailed, Goto
      <4>4. RoomForIsr'
        BY <1>0, <3>1, <4>1 DEF Goto, RoomForIsr, CanRun, Busy
      <4>5. QED
        BY <1>a, <3>1, <4>2, <4>3, <4>4
    <3>4. QED
      BY <3>2, <3>3
  <2>2. CASE Get(c)
    <3>1. /\ pc[c] = "get" /\ CanRun(c) /\ UNCHANGED <<ready, stack, dmaFifo, inflight, faults>>
          /\ hold[c] = NoBuf
      BY <2>2 DEF Get, PlaceOK
    <3>2. pc'["isr"] # "reserve"
      BY <1>0, <2>2, <3>1 DEF Get, Goto, CanRun, Busy
    <3>3. CASE \E b \in free : Carry(c, b) /\ Goto(c, "program")
      <4>1. hold'[c] # NoBuf /\ pc'[c] = "program"
        BY <1>0, <3>3 DEF Carry, Goto
      <4>2. Held' # {}
        BY <4>1 DEF Held, Owners
      <4>3. NoneFailed => NoneFailed'
        BY <3>3 DEF NoneFailed, Goto, Carry
      <4>4. QED
        BY <1>a, <3>1, <3>2, <4>2, <4>3 DEF RoomForIsr, Alive
    <3>4. CASE free = {} /\ Goto(c, "unreserve") /\ UNCHANGED hold
      <4>1. ready \cup stack \cup Items(dmaFifo) \cup Held = Buf
        BY <3>4 DEF SingleOwner
      <4>2. Owners' = Owners /\ Held' = Held
        BY <3>1, <3>4 DEF Owners, Held, Goto
      <4>3. dmaFifo = <<>> => Items(dmaFifo) = {}
        BY DEF Items
      <4>4. Alive'
        BY <1>0, <3>1, <4>1, <4>2, <4>3 DEF Alive
      <4>5. NoneFailed => NoneFailed'
        BY <3>1, <3>4 DEF NoneFailed, Goto
      <4>6. QED
        BY <1>a, <3>1, <3>2, <4>4, <4>5 DEF RoomForIsr
    <3>5. QED
      BY <2>2, <3>3, <3>4 DEF Get
  <2>3. CASE Unreserve(c) \/ PutBack(c)
    <3>1. pc[c] \in {"unreserve", "putback"} /\ CanRun(c) /\ UNCHANGED <<ready, stack, dmaFifo, faults>>
      BY <2>3 DEF Unreserve, PutBack, fifos
    <3>2. pc'["isr"] # "reserve"
      BY <1>0, <2>3, <3>1 DEF Unreserve, PutBack, Goto, CanRun, Busy
    <3>3. ASSUME faults' = 0 PROVE NoneFailed' /\ Alive'
      <4>1. faults = 0 /\ NoneFailed /\ Alive
        BY <1>a, <3>1, <3>3
      <4>2. Unreserve(c) /\ hold[c] = NoBuf
        BY <2>3, <3>1, <4>1 DEF NoneFailed, PutBack
      <4>3. Goto(c, "idle") /\ UNCHANGED hold
        BY <4>2 DEF Unreserve
      <4>4. Owners' = Owners /\ Held' = Held
        BY <3>1, <4>2, <4>3 DEF Owners, Held, Goto
      <4>5. Alive'
        BY <3>1, <4>1, <4>3, <4>4 DEF Alive, Goto
      <4>6. QED
        BY <4>1, <4>3, <4>5 DEF NoneFailed, Goto
    <3>4. QED
      BY <3>2, <3>3 DEF RoomForIsr
  <2>4. CASE Program(c)
    <3>1. pc[c] = "program" /\ CanRun(c) /\ UNCHANGED <<fifos, hold>> /\ hold[c] # NoBuf
      BY <2>4 DEF Program, PlaceOK
    <3>2. pc'["isr"] # "reserve"
      BY <1>0, <2>4, <3>1 DEF Program, Goto, CanRun, Busy
    <3>3. CASE Goto(c, "queue") /\ UNCHANGED faults
      <4>1. Held' # {}
        BY <3>1, <3>3 DEF Held, Owners, Goto
      <4>2. NoneFailed => NoneFailed'
        BY <3>1, <3>3 DEF NoneFailed, Goto
      <4>3. QED
        BY <1>a, <3>2, <3>3, <4>1, <4>2 DEF RoomForIsr, Alive
    <3>4. CASE Fault
      BY <3>2, <3>4 DEF Fault, RoomForIsr
    <3>5. QED
      BY <2>4, <3>3, <3>4 DEF Program
  <2>5. CASE Queue(c)
    <3>1. /\ pc[c] = "queue" /\ Goto(c, "start") /\ dmaFifo' = Append(dmaFifo, hold[c])
          /\ UNCHANGED <<hold, faults>>
      BY <2>5 DEF Queue, Queued
    <3>2. hold[c] \in Buf
      BY <3>1 DEF PlaceOK
    <3>3. dmaFifo' # <<>>
      BY <3>1, <3>2, AppendProperties
    <3>4. NoneFailed => NoneFailed'
      BY <3>1 DEF NoneFailed, Goto
    <3>5. QED
      BY <1>a, <3>1, <3>3, <3>4 DEF RoomForIsr, Alive
  <2>6. CASE Start(c)
    <3>1. /\ pc[c] = "start" /\ Goto(c, "reserve") /\ Carry(c, NoBuf)
          /\ UNCHANGED <<fifos, faults>>
      BY <2>6 DEF Start
    <3>2. pc'[c] = "reserve" /\ Alive'
      BY <3>1 DEF Goto, Alive
    <3>3. dmaFifo' # <<>>
      <4>1. Len(dmaFifo) # 0
        <5>1. c \in Starting
          BY <3>1 DEF Starting
        <5>2. Cardinality(Starting) >= 1 /\ Cardinality(Starting) \in Nat
          BY <5>1, StartingCount
        <5>3. QED
          BY <5>2, FifoAhead DEF DeviceOK
      <4>2. QED
        BY <3>1, <4>1 DEF fifos
    <3>4. NoneFailed => NoneFailed'
      BY <3>1 DEF NoneFailed, Goto, Carry
    <3>5. QED
      BY <1>a, <3>1, <3>2, <3>3, <3>4 DEF RoomForIsr
  <2>7. CASE StackFree(c)
    <3>1. /\ c # "isr" /\ Goto(c, "reserve") /\ UNCHANGED <<dmaFifo, inflight, hold, faults>>
      BY <2>7, AppsAssumption DEF StackFree, Threads
    <3>2. pc'[c] = "reserve" /\ Alive' /\ pc'["isr"] = pc["isr"]
      BY <1>0, <3>1 DEF Goto, Alive
    <3>3. NoneFailed => NoneFailed'
      BY <3>1 DEF NoneFailed, Goto
    <3>4. QED
      BY <1>a, <3>1, <3>2, <3>3 DEF RoomForIsr
  <2>8. QED
    BY <1>4, <2>1, <2>2, <2>3, <2>4, <2>5, <2>6, <2>7 DEF RxActions
<1>5. QED
  BY <1>1, <1>2, <1>3, <1>4, RxCases

----------------------------------------------------------------------------
(* The theorems.                                                           *)

LEMMA InitInv == Init => PathInv
<1> SUFFICES ASSUME Init PROVE PathInv
  OBVIOUS
<1> USE Constants DEF Init
<1>1. TypeRx
  <2>1. crossed \in BOOLEAN /\ startFailed \in BOOLEAN
    BY Zenon
  <2>2. faults \in 0 .. MaxFaults /\ inflight \in 0 .. MaxInflight
    OBVIOUS
  <2>3. pc \in [Ctx -> Places] /\ hold \in [Ctx -> Buf \cup {NoBuf}]
    BY DEF Places
  <2>4. dmaFifo \in Seq(Buf) /\ dq \in Seq(Buf \cup {NoBuf})
    BY EmptySeq
  <2>5. QED
    BY <2>1, <2>2, <2>3, <2>4 DEF TypeRx
<1>2. TypeTx
  BY DEF TypeTx, TxSlot
<1>3. TxInv
  BY DEF TxInv, Plus
<1>4. PlaceOK
  BY DEF PlaceOK
<1>5. OrderOK
  BY DEF OrderOK, Loaded
<1>6. SingleOwner
  BY DEF SingleOwner, Items, Held, Owners
<1>7. CountOK
  <2>1. Reserving = {} /\ Len(dmaFifo) = 0
    BY DEF Reserving
  <2>2. QED
    BY <2>1, FS_EmptySet DEF CountOK
<1>8. DeviceOK
  <2>1. Starting = {} /\ Len(dmaFifo) = 0 /\ Len(dq) = 0
    BY DEF Starting
  <2>2. QED
    BY <2>1, FS_EmptySet DEF DeviceOK
<1>9. QED
  BY <1>1, <1>2, <1>3, <1>4, <1>5, <1>6, <1>7, <1>8 DEF PathInv, RxInv

(* Transmission and stuttering leave the receive side as it is.            *)
LEMMA RxSame ==
  ASSUME TypeRx, RxInv, UNCHANGED rx, faults' \in 0 .. MaxFaults \/ UNCHANGED faults
  PROVE  TypeRx' /\ RxInv'
<1>1. /\ UNCHANGED <<free, ready, stack, dmaFifo, inflight, pc, hold, written, dq>>
      /\ UNCHANGED <<crossed, startFailed>>
  BY DEF rx, fifos, rxdma, hist
<1>2. TypeRx'
  BY <1>1 DEF TypeRx
<1>3. PlaceOK' = PlaceOK
  BY <1>1 DEF PlaceOK
<1>4. UNCHANGED Loaded /\ UNCHANGED Reserving /\ UNCHANGED Held /\ UNCHANGED Owners
      /\ UNCHANGED Items(dmaFifo) /\ UNCHANGED Items(dq) /\ UNCHANGED Handing
      /\ UNCHANGED Starting
  BY <1>1 DEF Loaded, Reserving, Held, Owners, Items, Handing, Starting
<1>5. OrderOK' = OrderOK
  BY <1>1, <1>4 DEF OrderOK
<1>6. SingleOwner' = SingleOwner
  BY <1>1, <1>4 DEF SingleOwner
<1>7. CountOK' = CountOK
  BY <1>1, <1>4 DEF CountOK
<1>8. DeviceOK' = DeviceOK
  BY <1>1, <1>4 DEF DeviceOK
<1>9. QED
  BY <1>1, <1>2, <1>3, <1>5, <1>6, <1>7, <1>8 DEF RxInv

LEMMA NextInv == PathInv /\ [Next]_vars => PathInv'
<1> SUFFICES ASSUME PathInv, [Next]_vars PROVE PathInv'
  OBVIOUS
<1> USE DEF PathInv
<1>1. CASE UNCHANGED vars
  <2>1. UNCHANGED rx /\ UNCHANGED tx /\ UNCHANGED faults
    BY <1>1 DEF vars
  <2>2. QED
    BY <2>1, RxSame DEF tx, TypeTx, TxInv
<1>2. CASE ~startFailed /\ RxNext
  <2>1. PlaceOK /\ DeviceOK /\ SingleOwner /\ CountOK /\ (~crossed => OrderOK)
    BY <1>2 DEF RxInv
  <2>2. TypeRx' /\ RxInv'
    <3>1. ~startFailed' => CountOK' /\ inflight' \in 0 .. MaxInflight
      BY <1>2, <2>1, CountStep
    <3>2. TypeRx'
      BY <1>2, <2>1, <3>1, TypeStep
    <3>3. ~startFailed' => DeviceOK'
      BY <1>2, <2>1, DeviceStep
    <3>4. TypeRx' /\ DeviceOK' => (Items(dq) \ {NoBuf} \subseteq Items(dmaFifo) \cup Handing)'
      BY DeviceOwns, PTL
    <3>5. ~startFailed' => SingleOwner'
      BY <1>2, <2>1, <3>2, <3>3, <3>4, OwnerStep
    <3>6. ~crossed' => ~crossed
      BY <1>2, RxCases, Zenon DEF RxCallback, WorkerTake, WorkerDone, RxActions, Reserve,
        Get, Unreserve, PutBack, Program, Queue, Start, StackFree, hist
    <3>7. ~startFailed' /\ ~crossed' => OrderOK'
      BY <1>2, <2>1, <3>6, OrderStep
    <3>8. PlaceOK'
      BY <1>2, <2>1, PlaceStep
    <3>9. QED
      BY <3>1, <3>2, <3>3, <3>5, <3>7, <3>8 DEF RxInv
  <2>3. UNCHANGED tx
    BY <1>2, RxCases DEF RxCallback, WorkerTake, WorkerDone, RxActions, Reserve, Get,
                         Unreserve, PutBack, Program, Queue, Start, StackFree
  <2>4. QED
    BY <2>2, <2>3 DEF tx, TypeTx, TxInv
<1>3. CASE ~startFailed /\ TxNext
  <2>1. TypeTx' /\ TxInv'
    BY <1>3, TxStep
  <2>2. UNCHANGED rx /\ faults' \in 0 .. MaxFaults
    BY <1>3, Constants DEF TxNext, TxCopy, TxSetup, TxStart, TxCallback, Fault, TypeRx
  <2>3. QED
    BY <2>1, <2>2, RxSame
<1>4. QED
  BY <1>1, <1>2, <1>3 DEF Next

LEMMA Invariant == Spec => []PathInv
BY InitInv, NextInv, PTL DEF Spec

(* Every variable keeps its range; rx_dma_inflight stays between 0 and the  *)
(* limit although refills and completions cross (eth_emaczero.c:1626-1657). *)
THEOREM PathTypeCorrect == Spec => []TypeOK
<1>1. PathInv => TypeOK
  BY DEF PathInv, TypeRx, TypeTx, TypeOK, Places
<1>2. QED
  BY <1>1, Invariant, PTL

(* Refills, callbacks, the worker and the stack lose no buffer and share    *)
(* none, crossing refills included, and the device writes into no buffer    *)
(* that the worker, the stack or a later refill has, until a dma_start      *)
(* fails (eth_emaczero.c:1543-1661).                                        *)
THEOREM OwnerCorrect == Spec => []SingleOwner
<1>1. PathInv => SingleOwner
  BY DEF PathInv, RxInv, SingleOwner
<1>2. QED
  BY <1>1, Invariant, PTL

(* Until a dma_start fails, a completion finds a buffer on rx_dma_fifo; and *)
(* until two refills meet in the descriptor, it is the one that was filled  *)
(* (emz_dma_rx_callback).                                                   *)
THEOREM AttributionCorrect == Spec => []CompletionsAttributed
<1>1. ASSUME PathInv PROVE CompletionsAttributed
  <2>1. ASSUME NEW c \in Ctx, pc[c] = "start", PlaceOK, OrderOK
        PROVE  written # NoBuf /\ dmaFifo = Append(dq, written)
    BY <2>1 DEF PlaceOK, OrderOK, Loaded
  <2>2. ~startFailed => Len(dq) <= Len(dmaFifo)
    BY <1>1, FifoAhead DEF PathInv, RxInv
  <2>3. QED
    BY <1>1, <2>1, <2>2 DEF PathInv, RxInv, OrderOK, CompletionsAttributed
<1>2. QED
  BY <1>1, Invariant, PTL

(* The slots between the two TX indices are those the device has, so no     *)
(* frame is copied over one that waits (emz_setup_dma_tx_transfer).         *)
THEOREM TxWindowCorrect == Spec => []TxWindow
<1>1. PathInv => TxWindow
  BY TxWindowHolds DEF PathInv
<1>2. QED
  BY <1>1, Invariant, PTL

LEMMA AliveSame ==
  ASSUME AliveInv, UNCHANGED rx, faults' \in Nat, faults \in Nat, faults' >= faults
  PROVE  AliveInv'
<1>1. UNCHANGED <<ready, stack, dmaFifo, inflight, pc, hold, startFailed>>
  BY DEF rx, fifos, hist
<1>2. UNCHANGED Held
  BY <1>1 DEF Held, Owners
<1>3. RoomForIsr' = RoomForIsr /\ NoneFailed' = NoneFailed /\ Alive' = Alive
  BY <1>1, <1>2 DEF RoomForIsr, NoneFailed, Alive
<1>4. faults' = 0 => faults = 0
  OBVIOUS
<1>5. QED
  BY <1>1, <1>3, <1>4 DEF AliveInv

FaultsCounted == startFailed => faults > 0

LEMMA FaultsStay == Spec => []FaultsCounted
<1>1. Init => FaultsCounted
  BY DEF Init, FaultsCounted
<1>2. PathInv /\ FaultsCounted /\ [Next]_vars => FaultsCounted'
  <2> SUFFICES ASSUME PathInv, FaultsCounted, [Next]_vars PROVE FaultsCounted'
    OBVIOUS
  <2>1. faults \in Nat
    BY DEF PathInv, TypeRx
  <2>2. CASE UNCHANGED vars
    BY <2>2 DEF vars, rx, hist, FaultsCounted
  <2>3. CASE RxNext
    <3>1. (UNCHANGED startFailed /\ UNCHANGED faults) \/ faults' = faults + 1
      BY <2>3, RxCases, Zenon DEF RxCallback, WorkerTake, WorkerDone, RxActions, Reserve,
        Get, Unreserve, PutBack, Program, Queue, Start, StackFree, Fault, hist
    <3>2. faults' = faults + 1 => faults' > 0
      BY <2>1
    <3>3. QED
      BY <3>1, <3>2, Zenon DEF FaultsCounted
  <2>4. CASE TxNext
    <3>1. UNCHANGED startFailed /\ (UNCHANGED faults \/ faults' = faults + 1)
      BY <2>4, Zenon DEF TxNext, TxCopy, TxSetup, TxStart, TxCallback, Fault, rx, hist
    <3>2. QED
      BY <2>1, <3>1 DEF FaultsCounted
  <2>5. QED
    BY <2>2, <2>3, <2>4 DEF Next
<1>3. QED
  BY <1>1, <1>2, Invariant, PTL DEF Spec

(* With a limit that waiting threads cannot fill: when no call has failed,  *)
(* nothing is under way and the stack keeps no buffer, the channel has a    *)
(* descriptor, and until refills crossed one with a buffer                  *)
(* (emz_refill_dma_rx, emz_dma_rx_callback).                                *)
THEOREM NeverDeadCorrect == Spec => []NeverDead
<1>1. Init => AliveInv
  <2> SUFFICES ASSUME Init PROVE AliveInv
    OBVIOUS
  <2>1. /\ pc["main"] = "reserve" /\ pc["isr"] = "idle" /\ "main" \in Ctx
        /\ \A c \in Ctx : pc[c] \in {"idle", "reserve"}
    BY Constants DEF Init
  <2>2. QED
    BY <2>1 DEF AliveInv, RoomForIsr, NoneFailed, Alive
<1>2. PathInv /\ AliveInv /\ [Next]_vars => AliveInv'
  <2> SUFFICES ASSUME PathInv, AliveInv, [Next]_vars PROVE AliveInv'
    OBVIOUS
  <2>1. faults \in Nat
    BY DEF PathInv, TypeRx
  <2>2. CASE UNCHANGED vars
    BY <2>1, <2>2, AliveSame DEF vars
  <2>3. CASE ~startFailed /\ RxNext
    <3>1. CASE startFailed' \/ ~Roomy
      BY <3>1 DEF AliveInv, Roomy
    <3>2. CASE ~startFailed' /\ Roomy
      BY <2>3, <3>2, AliveStep DEF PathInv, RxInv
    <3>3. QED
      BY <3>1, <3>2
  <2>4. CASE TxNext
    <3>1. UNCHANGED rx /\ (UNCHANGED faults \/ faults' = faults + 1)
      BY <2>4 DEF TxNext, TxCopy, TxSetup, TxStart, TxCallback, Fault
    <3>2. QED
      BY <2>1, <3>1, AliveSame
  <2>5. QED
    BY <2>2, <2>3, <2>4 DEF Next
<1>3. ASSUME PathInv, AliveInv, FaultsCounted PROVE NeverDead
  <2> SUFFICES ASSUME \A c \in Ctx : pc[c] = "idle", ready = {}, stack = {}, faults = 0, Roomy
               PROVE  dq # <<>> /\ (crossed \/ Head(dq) # NoBuf)
    BY DEF NeverDead, Busy
  <2>0. ~startFailed
    BY <1>3 DEF FaultsCounted
  <2>1. PlaceOK /\ DeviceOK /\ (~crossed => OrderOK) /\ Alive
    BY <1>3, <2>0 DEF PathInv, RxInv, AliveInv
  <2>2. Held = {} /\ Starting = {}
    BY <2>1 DEF PlaceOK, Held, Owners, Starting
  <2>3. dmaFifo # <<>> /\ dmaFifo \in Seq(Buf) /\ dq \in Seq(Buf \cup {NoBuf})
    BY <1>3, <2>1, <2>2 DEF Alive, PathInv, TypeRx
  <2>4. Len(dmaFifo) # 0 /\ Len(dq) = Len(dmaFifo)
    <3>1. Cardinality(Starting) = 0
      BY <2>2, FS_EmptySet
    <3>2. QED
      BY <2>1, <2>3, <3>1, EmptySeq, LenProperties DEF DeviceOK
  <2>5. ~crossed => Head(dq) # NoBuf
    <3>1. ~crossed => dmaFifo = dq
      BY <2>1 DEF OrderOK
    <3>2. Head(dmaFifo) \in Buf
      BY <2>3, HeadTailProperties
    <3>3. QED
      BY <3>1, <3>2, BufAssumption
  <2>6. QED
    BY <2>4, <2>5
<1>4. QED
  BY <1>1, <1>2, <1>3, Invariant, FaultsStay, PTL DEF Spec

=============================================================================
