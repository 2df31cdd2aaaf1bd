---------------------------- MODULE EmzSinkStats ----------------------------
(***************************************************************************)
(* The UDP sink's counters (app/src/main.c) and the host that reads them   *)
(* over JTAG (scripts/read_perf_stats.py).  The interceptor counts packets *)
(* in the receive interrupt and in threads, the socket thread counts its   *)
(* calls and errors; every update is a section under sink_stats_lock       *)
(* bracketed by sink_seq.  A counter is 64 bits wide, two words on RV32,   *)
(* stored one after the other.  The host is another bus master: it reads   *)
(* word by word, sink_seq first, reads sink_seq again, and tries again     *)
(* unless the two agree and are even.                                      *)
(*                                                                         *)
(* The block lies at a fixed address in DDR, so a reset leaves it as it is *)
(* until main clears it.  Three counters stand for the block: sink_packets *)
(* and sink_bytes, which one section updates together, and one for the     *)
(* errors and calls that only the socket thread counts.                    *)
(***************************************************************************)
EXTENDS Integers

CONSTANTS
  Threads,      \* the cooperative threads that count: RX worker, work queue, sink
  None,         \* no context
  W,            \* the values of a word (2^32)
  SeqMod,       \* the values of sink_seq (2^32)
  Lens,         \* the payload lengths
  Retries,      \* SEQ_RETRIES
  MaxDuring,    \* bound: updates begun while the host makes one attempt
  MaxReboots    \* bound

ASSUME ContextAssumption == "isr" \notin Threads /\ None \notin Threads \cup {"isr"}
ASSUME WordAssumption == W \in Nat \ {0} /\ Lens \subseteq 0 .. W - 1
(* sink_seq does not come round within one attempt of the host.             *)
ASSUME SeqAssumption ==
  /\ SeqMod \in Nat /\ SeqMod % 2 = 0
  /\ MaxDuring \in Nat /\ 2 * MaxDuring + 1 < SeqMod
ASSUME BoundAssumption == Retries \in Nat \ {0} /\ MaxReboots \in Nat

Ctx == Threads \cup {"isr"}

(* The block's words in ascending order, after sink_seq.                    *)
Counter == 1 .. 3
Packets == 1
Bytes   == 2
Other   == 3
Lo(k)   == 2 * k - 1
Hi(k)   == 2 * k
Last    == 6
Cell    == 1 .. Last

VARIABLES
  seq, mem,          \* sink_seq, and the words of the block
  lock,              \* who is in a section under sink_stats_lock
  todo, half, sum,   \* per context: additions left; the one half stored
  cleared,           \* words main's memset has cleared since the reset
  host, tries,       \* the host: what it does, and at which attempt
  hseq, pos, copy,   \* the sink_seq it read, how many words, and the words
  stable, total,     \* history: the block after the last update; what was counted
  during, moves,     \* history: updates begun, sink_seq steps, in this attempt
  torn, wiped,       \* history: a memset is not complete; this attempt met one
  reboots

block  == <<seq, mem>>
writer == <<lock, todo, half, sum>>
reader == <<host, tries, hseq, pos, copy>>
hist   == <<stable, total, during, moves, torn, wiped>>
vars   == <<block, writer, cleared, reader, hist, reboots>>

Nothing == [k \in {} |-> 0]

Running == cleared = Last + 1
Even(n) == n % 2 = 0
Value(k) == mem[Lo(k)] + W * mem[Hi(k)]

----------------------------------------------------------------------------
(* The updates.  On one CPU k_spin_lock masks interrupts; a cooperative     *)
(* thread leaves the CPU to no other thread, and an interrupt runs over it. *)

CanRun(c) ==
  /\ c # "isr" => \A d \in Ctx \ {c} : lock # d /\ todo[d] = Nothing

SlipNoLock(c) == lock # c

LockFree(c) == lock = None

SlipSeqStays == seq

SlipSeqWide == seq + 1

SeqNext == IF seq + 1 = SeqMod THEN 0 ELSE seq + 1

(* sink_stats_begin, with what the section will add to which counter.      *)
Begin(c, add) ==
  /\ Running /\ CanRun(c) /\ LockFree(c)
  /\ host = "read" => during < MaxDuring
  /\ lock' = c
  /\ seq' = SeqNext
  /\ todo' = [todo EXCEPT ![c] = add]
  /\ total' = [k \in Counter |->
       IF k \in DOMAIN add THEN (total[k] + add[k]) % (W * W) ELSE total[k]]
  /\ during' = IF host = "read" THEN during + 1 ELSE 0
  /\ moves' = IF host = "read" THEN moves + 1 ELSE 0
  /\ UNCHANGED <<mem, half, sum, cleared, reader, stable, torn, wiped, reboots>>

AccountPacket(c) ==
  \E len \in Lens : Begin(c, [k \in {Packets, Bytes} |-> IF k = Bytes THEN len ELSE 1])
(* sink_account_error, and the sink thread counting its recvfrom calls.     *)
AccountOther(c) == c # "isr" /\ Begin(c, [k \in {Other} |-> 1])

(* The counter a section adds to next, in the order of the source.          *)
Current(c) ==
  CHOOSE k \in DOMAIN todo[c] : \A j \in DOMAIN todo[c] : k <= j

(* A 64-bit addition: both words are loaded, then stored in either order.   *)
Store(c) ==
  /\ todo[c] # Nothing /\ half[c] = "none" /\ CanRun(c)
  /\ LET k == Current(c)
     IN  /\ sum' = [sum EXCEPT ![c] = (Value(k) + todo[c][k]) % (W * W)]
         /\ \/ /\ mem' = [mem EXCEPT ![Lo(k)] = sum'[c] % W]
               /\ half' = [half EXCEPT ![c] = "hi"]
            \/ /\ mem' = [mem EXCEPT ![Hi(k)] = sum'[c] \div W]
               /\ half' = [half EXCEPT ![c] = "lo"]
  /\ UNCHANGED <<seq, lock, todo, cleared, reader, hist, reboots>>

StoreRest(c) ==
  /\ half[c] # "none" /\ CanRun(c)
  /\ LET k == Current(c)
     IN  /\ mem' = IF half[c] = "lo" THEN [mem EXCEPT ![Lo(k)] = sum[c] % W]
                                     ELSE [mem EXCEPT ![Hi(k)] = sum[c] \div W]
         /\ todo' = [todo EXCEPT ![c] = [j \in DOMAIN @ \ {k} |-> @[j]]]
  /\ half' = [half EXCEPT ![c] = "none"]
  /\ sum' = [sum EXCEPT ![c] = 0]
  /\ UNCHANGED <<seq, lock, cleared, reader, hist, reboots>>

(* sink_stats_end                                                           *)
End(c) ==
  /\ lock = c /\ todo[c] = Nothing /\ CanRun(c)
  /\ lock' = None
  /\ seq' = SeqNext
  /\ stable' = mem
  /\ moves' = IF host = "read" THEN moves + 1 ELSE 0
  /\ UNCHANGED <<mem, todo, half, sum, cleared, reader, total, during, torn, wiped, reboots>>

Write(c) ==
  \/ AccountPacket(c) \/ AccountOther(c)
  \/ Store(c) \/ StoreRest(c) \/ End(c)

----------------------------------------------------------------------------
(* A reset, and the memset of init_perf_stats_metadata, which runs before   *)
(* the interceptor is registered and the sink thread exists.                *)

Reboot ==
  /\ reboots < MaxReboots
  /\ reboots' = reboots + 1
  /\ cleared' = 0
  /\ lock' = None
  /\ todo' = [c \in Ctx |-> Nothing]
  /\ half' = [c \in Ctx |-> "none"] /\ sum' = [c \in Ctx |-> 0]
  /\ total' = [k \in Counter |-> 0]
  /\ UNCHANGED <<block, reader, stable, during, moves, torn, wiped>>

SlipKeepSeq == UNCHANGED seq /\ mem' = [mem EXCEPT ![1] = 0]

ClearSeq == seq' = 0 /\ UNCHANGED mem

Clear ==
  /\ ~Running
  /\ cleared' = cleared + 1
  /\ IF cleared = 0 THEN ClearSeq
     ELSE mem' = [mem EXCEPT ![cleared] = 0] /\ UNCHANGED seq
  /\ stable' = IF cleared = Last THEN mem' ELSE stable
  /\ torn' = (cleared < Last) /\ wiped' = TRUE
  /\ UNCHANGED <<writer, reader, total, during, moves, reboots>>

----------------------------------------------------------------------------
(* read_stats                                                               *)

HostRun ==
  /\ host = "idle"
  /\ host' = "start" /\ tries' = 1
  /\ UNCHANGED <<block, writer, cleared, hseq, pos, copy, hist, reboots>>

HostReadSeq ==
  /\ host = "start"
  /\ host' = "read"
  /\ hseq' = seq /\ pos' = 0
  /\ during' = 0 /\ moves' = 0 /\ wiped' = torn
  /\ UNCHANGED <<block, writer, cleared, tries, copy, stable, total, torn, reboots>>

HostReadWord ==
  /\ host = "read" /\ pos < Last
  /\ pos' = pos + 1
  /\ copy' = [copy EXCEPT ![pos'] = mem[pos']]
  /\ UNCHANGED <<block, writer, cleared, host, tries, hseq, hist, reboots>>

SlipAnyParity == hseq = seq

Consistent == Even(hseq) /\ hseq = seq

(* What an attempt read is dead once it was taken, or not.                  *)
HostDone(h, n) ==
  /\ host = "read" /\ pos = Last
  /\ host' = h /\ tries' = n
  /\ hseq' = 0 /\ pos' = 0 /\ copy' = [i \in Cell |-> 0]
  /\ during' = 0 /\ moves' = 0 /\ wiped' = FALSE
  /\ UNCHANGED <<block, writer, cleared, stable, total, torn, reboots>>

HostAccept == Consistent /\ HostDone("idle", 0)
HostRetry == ~Consistent /\ tries < Retries /\ HostDone("start", tries + 1)
HostGiveUp == ~Consistent /\ tries = Retries /\ HostDone("idle", 0)

Host ==
  HostRun \/ HostReadSeq \/ HostReadWord \/ HostAccept \/ HostRetry \/ HostGiveUp

----------------------------------------------------------------------------
(* The first boot, with the block cleared.                                  *)
Init ==
  /\ seq = 0 /\ mem = [i \in Cell |-> 0]
  /\ lock = None
  /\ todo = [c \in Ctx |-> Nothing]
  /\ half = [c \in Ctx |-> "none"] /\ sum = [c \in Ctx |-> 0]
  /\ cleared = Last + 1
  /\ host = "idle" /\ tries = 0 /\ hseq = 0 /\ pos = 0 /\ copy = [i \in Cell |-> 0]
  /\ stable = mem /\ total = [k \in Counter |-> 0]
  /\ during = 0 /\ moves = 0 /\ torn = FALSE /\ wiped = FALSE /\ reboots = 0

Next == Reboot \/ Clear \/ Host \/ \E c \in Ctx : Write(c)

Spec == Init /\ [][Next]_vars

----------------------------------------------------------------------------
(* Properties                                                               *)

Word == 0 .. W - 1

TypeBlock == seq \in 0 .. SeqMod - 1 /\ mem \in [Cell -> Word]

TypeWriter ==
  /\ lock \in Ctx \cup {None}
  /\ todo \in [Ctx -> UNION {[S -> 0 .. W] : S \in SUBSET Counter}]
  /\ half \in [Ctx -> {"none", "lo", "hi"}] /\ sum \in [Ctx -> 0 .. W * W - 1]
  /\ cleared \in 0 .. Last + 1 /\ reboots \in 0 .. MaxReboots

TypeReader ==
  /\ host \in {"idle", "start", "read"} /\ tries \in 0 .. Retries
  /\ hseq \in 0 .. SeqMod - 1 /\ pos \in 0 .. Last /\ copy \in [Cell -> Word]

TypeHist ==
  /\ stable \in [Cell -> Word] /\ total \in [Counter -> 0 .. W * W - 1]
  /\ during \in 0 .. MaxDuring /\ moves \in 0 .. 2 * MaxDuring + 1
  /\ torn \in BOOLEAN /\ wiped \in BOOLEAN

(* Every variable in its range; sink_seq and the words keep their width.   *)
TypeOK == TypeBlock /\ TypeWriter /\ TypeReader /\ TypeHist

(* What the host accepts is the block as one update left it, all words of   *)
(* it, although updates and a reset came in between; only main's memset,    *)
(* which sink_seq does not announce, is outside this promise.               *)
ReadIsWhole == [][HostAccept => wiped \/ copy = stable]_vars

(* No addition is lost between the interrupt and the threads: outside an    *)
(* update every 64-bit counter is the sum of what was counted, modulo 2^64. *)
CountsAgree ==
  Running /\ lock = None => \A k \in Counter : Value(k) = total[k]

=============================================================================
