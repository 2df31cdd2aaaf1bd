----------------------------- MODULE EmzTxRing -----------------------------
(***************************************************************************)
(* The direct TX ring of the emacZero driver (drivers/ethernet/            *)
(* eth_emaczero.c, CONFIG_ETH_EMACZERO_RX_DIRECT_RING): N MM2S descriptors *)
(* with a buffer each, filled by emz_send (packets of the network stack),  *)
(* emaczero_send_raw_frame and the benchmark's burst.                      *)
(*                                                                         *)
(* All three hold the mutex tx_lock from the reservation to the tail       *)
(* write, so one call is inside at a time and the module keeps the locals  *)
(* of that call only.  The MM2S engine is external and runs between any    *)
(* two steps.  Nobody but the callers touches the ring: completed          *)
(* descriptors are collected by the next call, by polling.                 *)
(***************************************************************************)
EXTENDS Naturals, FiniteSets, Sequences

CONSTANTS
  N,          \* EMZ_DMA_BUFFER_COUNT_TX: descriptors, and buffers
  Frame,      \* the frames callers send
  Junk,       \* what a buffer holds before its first frame or after -EIO
  Burst,      \* burst sizes the benchmark asks for, after the clamp to N
  MaxWait,    \* bound on the polls of a full ring (2000, and 10000 for a burst)
  MaxFaults   \* bound: DMA errors the bus raises in one behaviour

ASSUME NAssumption == N \in Nat \ {0}
ASSUME FrameAssumption == Junk \notin Frame
ASSUME BurstAssumption == Burst \subseteq 1 .. N
ASSUME BoundAssumption == MaxWait \in Nat /\ MaxFaults \in Nat

Slot == 0 .. N - 1

(* Slip... definitions are deliberate errors; no specification uses them.   *)
SlipNoWrap(i) == i + 1

Succ(i) == IF i + 1 = N THEN 0 ELSE i + 1

VARIABLES
  content,    \* the frame in each tx_buffer[]
  bdBuf,      \* the buffer each descriptor's buffer_address names
  armed,      \* slots whose descriptor has a length in its control word
  done,       \* slots whose descriptor status has Cmplt or an error bit
  populated, completed, inflight,  \* tx_{populated,completed}_buffer_index, tx_bd_inflight
  pc,         \* where the call inside tx_lock is; "free": nobody holds it
  kind, frame, left, first, wait,  \* that call's kind, arguments and locals
  eng, cur, tdesc, active, faults, \* the MM2S engine
  wire        \* the last frame the engine put on the wire, and if it was its slot's own

ring   == <<bdBuf, armed, done, populated, completed, inflight>>
locals == <<kind, frame, left, first, wait>>
engine == <<eng, cur, tdesc, active, faults, wire>>
vars   == <<content, ring, pc, locals, engine>>

----------------------------------------------------------------------------
(* The three entry points: take tx_lock and reclaim.                        *)

Enter(k, f, n) ==
  /\ pc = "free"
  /\ pc' = "reclaim"
  /\ kind' = k /\ frame' = f /\ left' = n
  /\ wait' = 0
  /\ UNCHANGED <<content, ring, first, engine>>

Send(f) == Enter("pkt", f, 1)
SendRaw(f) == Enter("raw", f, 1)
SendBurst(f, n) == Enter("burst", f, n)

Call ==
  \E f \in Frame : Send(f) \/ SendRaw(f) \/ \E n \in Burst : SendBurst(f, n)

(* emz_tx_direct_reclaim: one completed descriptor ...                      *)
Reclaim ==
  /\ pc = "reclaim"
  /\ inflight > 0 /\ completed \in done
  /\ armed' = armed \ {completed}
  /\ done' = done \ {completed}
  /\ completed' = Succ(completed)
  /\ inflight' = inflight - 1
  /\ UNCHANGED <<content, bdBuf, populated, pc, locals, engine>>

Reclaimed == pc = "reclaim" /\ ~(inflight > 0 /\ completed \in done)

(* ... until none is left; then the ring has room, or the call polls again, *)
(* or gives up with -ENOSPC.  A burst wants the ring empty.                 *)
SlipRoomOffByOne == IF kind = "burst" THEN inflight = 0 ELSE inflight <= N

Room == IF kind = "burst" THEN inflight = 0 ELSE inflight < N

Reserve ==
  /\ Reclaimed
  /\ Room
  /\ pc' = "fill"
  /\ UNCHANGED <<content, ring, locals, engine>>

SlipForgetWait ==
  /\ Reclaimed
  /\ ~Room /\ wait < MaxWait
  /\ UNCHANGED vars

PollAgain ==
  /\ Reclaimed
  /\ ~Room /\ wait < MaxWait
  /\ wait' = wait + 1
  /\ UNCHANGED <<content, ring, pc, kind, frame, left, first, engine>>

GiveUp ==
  /\ Reclaimed
  /\ ~Room /\ wait >= MaxWait
  /\ pc' = "free"
  /\ UNCHANGED <<content, ring, locals, engine>>

(* Copy the frame into the buffer of the next free descriptor.              *)
Fill ==
  /\ pc = "fill"
  /\ content' = [content EXCEPT ![populated] = frame]
  /\ first' = populated
  /\ pc' = "program"
  /\ UNCHANGED <<ring, kind, frame, left, wait, engine>>

(* net_pkt_read failed, perhaps half way: -EIO.                             *)
ReadFail ==
  /\ pc = "fill" /\ kind = "pkt"
  /\ content' \in {content, [content EXCEPT ![populated] = Junk]}
  /\ pc' = "free"
  /\ UNCHANGED <<ring, locals, engine>>

ProgramBd ==
  /\ bdBuf' = [bdBuf EXCEPT ![populated] = first]
  /\ armed' = armed \cup {populated}
  /\ done' = done \ {populated}

CountBd ==
  /\ populated' = Succ(populated)
  /\ inflight' = inflight + 1

(* emz_setup_dma_tx_direct_transfer programs one descriptor, publishes it   *)
(* and then counts it ...                                                   *)
Program ==
  /\ pc = "program" /\ kind # "burst"
  /\ ProgramBd
  /\ pc' = "publish"
  /\ UNCHANGED <<content, populated, completed, inflight, locals, engine>>

(* ... the burst programs and counts them all before it publishes the last. *)
ProgramBurst ==
  /\ pc = "program" /\ kind = "burst" /\ left > 0
  /\ ProgramBd /\ CountBd
  /\ left' = left - 1
  /\ UNCHANGED <<content, completed, pc, kind, frame, first, wait, engine>>

ProgramEnd ==
  /\ pc = "program" /\ kind = "burst" /\ left = 0
  /\ pc' = "publish"
  /\ UNCHANGED <<content, ring, locals, engine>>

Pred(i) == IF i = 0 THEN N - 1 ELSE i - 1

SlipTailBeyond == populated

TailSlot == IF kind = "burst" THEN Pred(populated) ELSE populated

(* The MM2S engine, external: a tail write makes a running engine process   *)
(* through the tail inclusive.                                              *)
WriteTail(i) ==
  /\ IF eng = "run" THEN tdesc' = i /\ active' = TRUE
                    ELSE UNCHANGED <<tdesc, active>>
  /\ UNCHANGED <<eng, cur, faults, wire>>

Publish ==
  /\ pc = "publish"
  /\ WriteTail(TailSlot)
  /\ pc' = IF kind = "burst" THEN "free" ELSE "count"
  /\ UNCHANGED <<content, ring, locals>>

SlipForgetCount ==
  /\ pc = "count"
  /\ populated' = Succ(populated)
  /\ pc' = "free"
  /\ UNCHANGED <<content, bdBuf, armed, done, completed, inflight, locals, engine>>

Count ==
  /\ pc = "count"
  /\ CountBd
  /\ pc' = "free"
  /\ UNCHANGED <<content, bdBuf, armed, done, completed, locals, engine>>

Inside ==
  \/ Reclaim \/ Reserve \/ PollAgain \/ GiveUp \/ Fill \/ ReadFail
  \/ Program \/ ProgramBurst \/ ProgramEnd \/ Publish \/ Count

----------------------------------------------------------------------------
(* The engine reads the next descriptor and its buffer.  EngineHasAll is why *)
(* its halt on a descriptor that is not armed needs no action here.         *)
EngineTransmit ==
  /\ eng = "run" /\ active
  /\ cur \in armed \ done
  /\ wire' = [frame |-> content[bdBuf[cur]], own |-> bdBuf[cur] = cur]
  /\ done' = done \cup {cur}
  /\ cur' = Succ(cur)
  /\ active' = (cur # tdesc)
  /\ UNCHANGED <<content, bdBuf, armed, populated, completed, inflight, pc,
                 locals, eng, tdesc, faults>>

(* A bus error halts it for good: nothing restarts MM2S.                    *)
EngineFault ==
  /\ eng = "run" /\ active
  /\ faults < MaxFaults
  /\ faults' = faults + 1
  /\ eng' = "halted"
  /\ done' \in {done, done \cup {cur}}
  /\ UNCHANGED <<content, bdBuf, armed, populated, completed, inflight, pc,
                 locals, cur, tdesc, active, wire>>

(* emz_tx_direct_start: ring cleared, CURDESC at slot 0, RS set.            *)
Init ==
  /\ content = [i \in Slot |-> Junk]
  /\ bdBuf = [i \in Slot |-> i]
  /\ armed = {} /\ done = {}
  /\ populated = 0 /\ completed = 0 /\ inflight = 0
  /\ pc = "free" /\ kind = "pkt" /\ frame = Junk
  /\ left = 0 /\ first = 0 /\ wait = 0
  /\ eng = "run" /\ cur = 0 /\ tdesc = 0 /\ active = FALSE /\ faults = 0
  /\ wire = [frame |-> Junk, own |-> FALSE]

Next == Call \/ Inside \/ EngineTransmit \/ EngineFault

Spec == Init /\ [][Next]_vars

(* A thread inside the mutex keeps running, and the engine goes on sending. *)
FairSpec == Spec /\ WF_vars(Inside) /\ WF_vars(EngineTransmit)

----------------------------------------------------------------------------
(* Properties                                                               *)

TypeRing ==
  /\ bdBuf \in [Slot -> Slot]
  /\ armed \subseteq Slot /\ done \subseteq Slot
  /\ populated \in Slot /\ completed \in Slot /\ inflight \in 0 .. N

TypeCall ==
  /\ content \in [Slot -> Frame \cup {Junk}]
  /\ pc \in {"free", "reclaim", "fill", "program", "publish", "count"}
  /\ kind \in {"pkt", "raw", "burst"} /\ frame \in Frame \cup {Junk}
  /\ left \in 0 .. N /\ first \in Slot /\ wait \in 0 .. MaxWait

TypeEngine ==
  /\ eng \in {"run", "halted"} /\ cur \in Slot /\ tdesc \in Slot
  /\ active \in BOOLEAN /\ faults \in 0 .. MaxFaults
  /\ wire \in [frame : Frame \cup {Junk}, own : BOOLEAN]

(* The types; in particular tx_bd_inflight, unsigned, stays within the ring.*)
TypeOK == TypeRing /\ TypeCall /\ TypeEngine

(* Slot i's distance ahead of slot j, going round the ring.                 *)
Ahead(j, i) == IF i >= j THEN i - j ELSE i + N - j

(* A descriptor programmed by emz_send and not yet counted.                 *)
Uncounted == IF pc \in {"publish", "count"} /\ kind # "burst" THEN 1 ELSE 0

(* The armed descriptors are exactly the tx_bd_inflight ones from the       *)
(* completed index on (and the one being sent), and the populated index     *)
(* follows them: a burst, a time-out or a failed read leaves no gap.        *)
TxWindow ==
  /\ \A i \in Slot : i \in armed <=> Ahead(completed, i) < inflight + Uncounted
  /\ populated = IF completed + inflight < N THEN completed + inflight
                                             ELSE completed + inflight - N

Window ==
  IF active THEN {i \in Slot : Ahead(cur, i) <= Ahead(cur, tdesc)} ELSE {}

(* What a running engine may fetch is what callers have published and it    *)
(* has not sent: it never reads a descriptor the driver has not armed,      *)
(* and between calls no accepted frame is left without a tail write.        *)
EngineHasAll ==
  eng = "run" =>
    /\ Window \subseteq armed \ done
    /\ pc = "free" => Window = armed \ done

(* No call stays inside tx_lock: the polls are bounded, so also with a      *)
(* halted engine every caller gets an answer and the mutex back.            *)
CallReturns == pc # "free" ~> pc = "free"

(* The frames the engine still has to send, in its order.                   *)
Pending ==
  LET at(k) == IF cur + k <= N THEN cur + k - 1 ELSE cur + k - 1 - N
      n == IF active /\ eng = "run" THEN Ahead(cur, tdesc) + 1 ELSE 0
  IN [k \in 1 .. n |-> [frame |-> content[bdBuf[at(k)]], own |-> bdBuf[at(k)] = at(k)]]

Promise == INSTANCE EmzTxPromise WITH
  Capacity <- N, queue <- Pending, up <- eng = "run"

(* The ring implements the promise: accepted frames go out in order and     *)
(* intact, except the copies of a burst, which a later call may overwrite.  *)
KeepsPromise == Promise!Spec

=============================================================================
