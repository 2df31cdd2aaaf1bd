------------------------ MODULE EmzSinkStats_proofs ------------------------
(***************************************************************************)
(* What the host accepts is one update's block, for every number of        *)
(* threads, width of a word and of sink_seq, payload, retry count and      *)
(* bound on the updates that one attempt can meet.                         *)
(*                                                                         *)
(* SectionOK ties the lock to the parity of sink_seq; BlockOK says that an *)
(* even sink_seq stands over an untouched block; AttemptOK counts how far  *)
(* sink_seq can have moved since the host read it.                         *)
(***************************************************************************)
EXTENDS EmzSinkStats, TLAPS

SectionOK ==
  /\ \A c \in Ctx : todo[c] # Nothing => lock = c
  /\ \A c \in Ctx : half[c] # "none" => todo[c] # Nothing
  /\ lock # None => Running
  /\ Running => (lock = None <=> Even(seq)) /\ ~torn
  /\ cleared \in Cell => Even(seq)

BlockOK == ~torn /\ Even(seq) => mem = stable

Slack == IF lock = None THEN 1 ELSE 0

AttemptOK ==
  host = "read" =>
    /\ moves <= 2 * during + Slack
    /\ ~wiped =>
         /\ ~torn
         /\ seq \in {hseq + moves, hseq + moves - SeqMod}
         /\ moves = 0 /\ Even(hseq) => \A i \in 1 .. pos : copy[i] = mem[i]

SinkInv == TypeOK /\ SectionOK /\ BlockOK /\ AttemptOK

----------------------------------------------------------------------------
(* Arithmetic.                                                             *)

LEMMA SeqNextType ==
  ASSUME seq \in 0 .. SeqMod - 1
  PROVE  SeqNext \in 0 .. SeqMod - 1 /\ (Even(SeqNext) <=> ~Even(seq))
BY SeqAssumption DEF SeqNext, Even

LEMMA SquareType ==
  W * W \in Nat \ {0} /\ W <= W * W
<1>1. W \in Nat /\ W >= 1
  BY WordAssumption
<1>2. W * W \in Nat /\ W * (W - 1) >= 0
  BY <1>1, SMTT(30)
<1>3. QED
  BY <1>1, <1>2, SMTT(30)

LEMMA ModType ==
  ASSUME NEW n \in Int
  PROVE  n % (W * W) \in 0 .. W * W - 1 /\ n % W \in Word
<1>1. W \in Nat /\ W > 0
  BY WordAssumption
<1>2. n % W \in Word
  BY <1>1 DEF Word
<1>3. \A d \in Nat \ {0} : n % d \in 0 .. d - 1
  OBVIOUS
<1>4. QED
  BY <1>2, <1>3, SquareType

LEMMA HighType ==
  ASSUME NEW n \in 0 .. W * W - 1
  PROVE  n \div W \in Word
<1> DEFINE q == n \div W
<1>1. W \in Nat /\ W > 0 /\ W * W \in Nat
  BY WordAssumption, SquareType
<1>2. q \in Int /\ W * q <= n /\ q >= 0
  BY <1>1, SMTT(30)
<1>3. CASE q >= W
  <2>1. W * (q - W) >= 0
    BY <1>1, <1>2, <1>3, SMTT(30)
  <2>2. W * q >= W * W
    BY <1>1, <1>2, <2>1, SMTT(30)
  <2>3. QED
    BY <1>1, <1>2, <2>2
<1>4. CASE q < W
  BY <1>1, <1>2, <1>4 DEF Word
<1>5. QED
  BY <1>1, <1>2, <1>3, <1>4

LEMMA CurrentType ==
  ASSUME TypeWriter, NEW c \in Ctx, todo[c] # Nothing
  PROVE  /\ Current(c) \in Counter /\ Current(c) \in DOMAIN todo[c]
         /\ todo[c][Current(c)] \in 0 .. W
         /\ Lo(Current(c)) \in Cell /\ Hi(Current(c)) \in Cell
<1>1. PICK S \in SUBSET Counter : todo[c] \in [S -> 0 .. W]
  BY DEF TypeWriter
<1>2. S # {}
  BY <1>1 DEF Nothing
<1>3. \E k \in S : \A j \in S : k <= j
  <2>1. S \subseteq 1 .. 3
    BY <1>1 DEF Counter
  <2>2. 1 \in S \/ 2 \in S \/ 3 \in S
    <3>1. PICK k \in S : k \in 1 .. 3
      BY <1>2, <2>1
    <3>2. QED
      BY <3>1
  <2>3. CASE 1 \in S
    BY <2>1, <2>3
  <2>4. CASE 1 \notin S /\ 2 \in S
    BY <2>1, <2>4
  <2>5. CASE 1 \notin S /\ 2 \notin S /\ 3 \in S
    BY <2>1, <2>5
  <2>6. QED
    BY <2>2, <2>3, <2>4, <2>5
<1>4. Current(c) \in S
  BY <1>1, <1>3 DEF Current
<1>5. Current(c) \in 1 .. 3 /\ S = DOMAIN todo[c]
  BY <1>1, <1>4 DEF Counter
<1>6. \A k \in 1 .. 3 : Lo(k) \in Cell /\ Hi(k) \in Cell
  BY DEF Cell, Last, Lo, Hi
<1>7. todo[c][Current(c)] \in 0 .. W
  BY <1>1, <1>4
<1>8. QED
  BY <1>4, <1>5, <1>6, <1>7 DEF Counter

LEMMA ValueType ==
  ASSUME TypeBlock, NEW k \in Counter
  PROVE  Value(k) \in Int
<1>1. W \in Nat /\ mem[Lo(k)] \in Word /\ mem[Hi(k)] \in Word
  BY WordAssumption DEF TypeBlock, Cell, Last, Lo, Hi, Counter
<1>2. QED
  BY <1>1 DEF Value, Word

----------------------------------------------------------------------------
(* The steps of an update.                                                 *)

LEMMA InitInv == Init => SinkInv
<1> SUFFICES ASSUME Init PROVE SinkInv
  OBVIOUS
<1> USE DEF Init
<1>1. 0 \in Word /\ 0 \in 0 .. SeqMod - 1 /\ 0 \in 0 .. W * W - 1
  BY WordAssumption, SeqAssumption, SquareType DEF Word
<1>2. TypeBlock
  BY <1>1 DEF TypeBlock
<1>3. TypeWriter
  <2>1. Nothing \in [{} -> 0 .. W] /\ {} \in SUBSET Counter
    BY DEF Nothing
  <2>2. Nothing \in UNION {[S -> 0 .. W] : S \in SUBSET Counter}
    BY <2>1
  <2>3. QED
    BY <1>1, <2>2, BoundAssumption DEF TypeWriter, Last
<1>4. TypeReader
  BY <1>1, BoundAssumption DEF TypeReader, Last
<1>5. TypeHist
  <2>1. stable \in [Cell -> Word]
    BY <1>2 DEF TypeBlock
  <2>2. total \in [Counter -> 0 .. W * W - 1]
    BY <1>1
  <2>3. during \in 0 .. MaxDuring /\ moves \in 0 .. 2 * MaxDuring + 1
    BY SeqAssumption
  <2>4. QED
    BY <2>1, <2>2, <2>3 DEF TypeHist
<1>6. SectionOK
  BY DEF SectionOK, Running, Even, Cell, Last
<1>7. BlockOK /\ AttemptOK
  BY DEF BlockOK, AttemptOK
<1>8. QED
  BY <1>2, <1>3, <1>4, <1>5, <1>6, <1>7 DEF SinkInv, TypeOK

LEMMA BeginInv ==
  ASSUME SinkInv, NEW c \in Ctx, NEW S \in SUBSET Counter, NEW add \in [S -> 0 .. W],
         Begin(c, add)
  PROVE  SinkInv'
<1> USE DEF SinkInv, TypeOK, Begin, LockFree
<1>1. TypeBlock'
  BY SeqNextType DEF TypeBlock
<1>2. TypeWriter'
  <2>1. add \in UNION {[T -> 0 .. W] : T \in SUBSET Counter}
    OBVIOUS
  <2>2. QED
    BY <2>1 DEF TypeWriter
<1>3. TypeReader'
  BY DEF TypeReader, reader
<1>4. TypeHist'
  <2>1. total' \in [Counter -> 0 .. W * W - 1]
    <3>1. \A k \in S : (total[k] + add[k]) % (W * W) \in 0 .. W * W - 1
      <4> TAKE k \in S
      <4>1. total[k] \in Int /\ add[k] \in Int
        BY WordAssumption, SquareType DEF TypeHist
      <4>2. QED
        BY <4>1, ModType
    <3>2. DOMAIN add = S
      OBVIOUS
    <3>3. QED
      BY <3>1, <3>2 DEF TypeHist
  <2>2. during' \in 0 .. MaxDuring
    BY SeqAssumption DEF TypeHist
  <2>3. moves' \in 0 .. 2 * MaxDuring + 1
    <3>1. CASE host = "read"
      BY <3>1, SeqAssumption DEF TypeHist, AttemptOK, Slack
    <3>2. CASE host # "read"
      BY <3>2, SeqAssumption
    <3>3. QED
      BY <3>1, <3>2
  <2>4. QED
    BY <2>1, <2>2, <2>3 DEF TypeHist
<1>5. Even(seq) /\ ~Even(seq') /\ c # None
  BY SeqNextType, ContextAssumption DEF SectionOK, TypeBlock, Ctx
<1>6. SectionOK'
  <2>1. \A d \in Ctx : todo[d] = Nothing /\ half[d] = "none" /\ lock # d
    BY ContextAssumption DEF SectionOK, Ctx
  <2>2. \A d \in Ctx : d # c => todo'[d] = Nothing
    BY <2>1 DEF TypeWriter
  <2>3. QED
    BY <1>5, <2>1, <2>2 DEF SectionOK, Running, Cell, Last
<1>7. BlockOK'
  BY <1>5 DEF BlockOK
<1>8. AttemptOK'
  <2> SUFFICES ASSUME host = "read" PROVE AttemptOK'
    BY DEF AttemptOK, reader
  <2>1. moves' = moves + 1 /\ during' = during + 1 /\ Slack = 1 /\ Slack' = 0
    BY <1>5 DEF Slack
  <2>2. moves' <= 2 * during' + Slack'
    BY <2>1, SeqAssumption DEF AttemptOK, TypeHist
  <2>3. CASE ~wiped
    <3>1. seq' \in {hseq + moves', hseq + moves' - SeqMod}
      BY <2>1, <2>3, <1>4, SeqAssumption
         DEF AttemptOK, SeqNext, TypeBlock, TypeReader, TypeHist
    <3>2. moves' # 0
      BY <2>1 DEF TypeHist
    <3>3. QED
      BY <2>2, <2>3, <3>1, <3>2 DEF AttemptOK, reader
  <2>4. CASE wiped
    BY <2>2, <2>4 DEF AttemptOK, reader
  <2>5. QED
    BY <2>3, <2>4 DEF TypeHist
<1>9. QED
  BY <1>1, <1>2, <1>3, <1>4, <1>6, <1>7, <1>8

(* Both halves of a store change one word, in a section: sink_seq is odd.  *)
LEMMA StoreFrame ==
  ASSUME SinkInv, NEW c \in Ctx, todo[c] # Nothing, mem' \in [Cell -> Word],
         UNCHANGED <<seq, lock, cleared, reader, hist, reboots>>
  PROVE  TypeBlock' /\ TypeReader' /\ TypeHist' /\ BlockOK' /\ AttemptOK'
<1> USE DEF SinkInv, TypeOK, hist, reader
<1>1. TypeBlock' /\ TypeReader' /\ TypeHist'
  BY DEF TypeBlock, TypeReader, TypeHist
<1>2. lock = c /\ ~Even(seq)
  BY ContextAssumption DEF SectionOK, Ctx
<1>3. BlockOK'
  BY <1>2 DEF BlockOK
<1>4. ASSUME host = "read", ~wiped, moves = 0 PROVE ~Even(hseq)
  <2>1. seq = hseq
    BY <1>4, SeqAssumption DEF AttemptOK, TypeBlock, TypeReader
  <2>2. QED
    BY <1>2, <2>1
<1>5. Slack' = Slack
  BY DEF Slack
<1>6. AttemptOK'
  BY <1>4, <1>5 DEF AttemptOK
<1>7. QED
  BY <1>1, <1>3, <1>6

LEMMA StoreInv ==
  ASSUME SinkInv, NEW c \in Ctx, Store(c)
  PROVE  SinkInv'
<1> DEFINE k == Current(c)
           v == (Value(k) + todo[c][k]) % (W * W)
<1> USE DEF SinkInv, TypeOK, Store
<1>1. k \in Counter /\ Lo(k) \in Cell /\ Hi(k) \in Cell
  BY CurrentType
<1>2. v \in 0 .. W * W - 1
  <2>1. Value(k) \in Int /\ todo[c][k] \in Int
    BY <1>1, CurrentType, ValueType, WordAssumption
  <2>2. Value(k) + todo[c][k] \in Int
    BY <2>1
  <2>3. QED
    BY <2>2, ModType
<1>3. sum' = [sum EXCEPT ![c] = v] /\ sum'[c] = v
  BY DEF TypeWriter
<1>4. mem' \in [Cell -> Word] /\ half' \in [Ctx -> {"none", "lo", "hi"}]
  <2>1. v % W \in Word /\ v \div W \in Word
    <3>1. v \in Int
      BY <1>2, SquareType
    <3>2. QED
      BY <1>2, <3>1, ModType, HighType
  <2>2. CASE /\ mem' = [mem EXCEPT ![Lo(k)] = v % W]
             /\ half' = [half EXCEPT ![c] = "hi"]
    BY <2>1, <2>2, <1>1 DEF TypeBlock, TypeWriter
  <2>3. CASE /\ mem' = [mem EXCEPT ![Hi(k)] = v \div W]
             /\ half' = [half EXCEPT ![c] = "lo"]
    BY <2>1, <2>3, <1>1 DEF TypeBlock, TypeWriter
  <2>4. QED
    BY <1>3, <2>2, <2>3
<1>5. TypeWriter'
  BY <1>2, <1>3, <1>4 DEF TypeWriter
<1>6. SectionOK'
  <2>1. \A d \in Ctx : d # c => half'[d] = half[d]
    BY DEF TypeWriter
  <2>2. QED
    BY <2>1 DEF SectionOK, Running, hist
<1>7. QED
  BY <1>4, <1>5, <1>6, StoreFrame

LEMMA StoreRestInv ==
  ASSUME SinkInv, NEW c \in Ctx, StoreRest(c)
  PROVE  SinkInv'
<1> DEFINE k == Current(c)
<1> USE DEF SinkInv, TypeOK, StoreRest
<1>1. todo[c] # Nothing
  BY DEF SectionOK
<1>2. Lo(k) \in Cell /\ Hi(k) \in Cell
  BY <1>1, CurrentType
<1>3. mem' \in [Cell -> Word]
  <2>1. sum[c] \in 0 .. W * W - 1 /\ sum[c] \in Int
    BY SquareType DEF TypeWriter
  <2>2. sum[c] % W \in Word /\ sum[c] \div W \in Word
    BY <2>1, ModType, HighType
  <2>3. QED
    BY <2>2, <1>2 DEF TypeBlock
<1>4. TypeWriter'
  <2>1. PICK S \in SUBSET Counter : todo[c] \in [S -> 0 .. W]
    BY DEF TypeWriter
  <2> DEFINE rest == [j \in DOMAIN todo[c] \ {k} |-> todo[c][j]]
  <2>2. rest \in [S \ {k} -> 0 .. W]
    BY <2>1
  <2>3. rest \in UNION {[T -> 0 .. W] : T \in SUBSET Counter}
    BY <2>2
  <2>4. todo' = [todo EXCEPT ![c] = rest]
    OBVIOUS
  <2>5. todo' \in [Ctx -> UNION {[T -> 0 .. W] : T \in SUBSET Counter}]
    BY <2>3, <2>4 DEF TypeWriter
  <2>6. 0 \in 0 .. W * W - 1
    BY SquareType
  <2>7. QED
    BY <2>5, <2>6 DEF TypeWriter
<1>5. SectionOK'
  <2>1. lock = c /\ half'[c] = "none"
    BY <1>1 DEF SectionOK, TypeWriter
  <2>2. \A d \in Ctx : d # c => half'[d] = half[d] /\ todo'[d] = todo[d]
    BY DEF TypeWriter
  <2>3. \A d \in Ctx : todo'[d] # Nothing => lock = d
    BY <2>1, <2>2 DEF SectionOK
  <2>4. \A d \in Ctx : half'[d] # "none" => todo'[d] # Nothing
    BY <2>1, <2>2 DEF SectionOK
  <2>5. QED
    BY <2>3, <2>4 DEF SectionOK, Running, hist
<1>6. QED
  BY <1>1, <1>3, <1>4, <1>5, StoreFrame

LEMMA EndInv ==
  ASSUME SinkInv, NEW c \in Ctx, End(c)
  PROVE  SinkInv'
<1> USE DEF SinkInv, TypeOK, End
<1>1. TypeBlock' /\ Running /\ ~Even(seq) /\ Even(seq')
  BY SeqNextType, ContextAssumption DEF SectionOK, TypeBlock, Ctx
<1>2. TypeWriter' /\ TypeReader'
  BY DEF TypeWriter, TypeReader, reader
<1>3. Slack = 0 /\ Slack' = 1
  BY ContextAssumption DEF Slack, Ctx
<1>4. TypeHist'
  <2>1. moves' \in 0 .. 2 * MaxDuring + 1
    BY <1>3, SeqAssumption DEF TypeHist, AttemptOK
  <2>2. QED
    BY <2>1 DEF TypeHist, TypeBlock
<1>5. SectionOK'
  BY <1>1 DEF SectionOK, Running
<1>6. BlockOK'
  BY DEF BlockOK
<1>7. AttemptOK'
  <2> SUFFICES ASSUME host = "read" PROVE AttemptOK'
    BY DEF AttemptOK, reader
  <2>1. moves' <= 2 * during' + Slack' /\ moves' = moves + 1
    BY <1>3, SeqAssumption DEF AttemptOK, TypeHist
  <2>2. CASE ~wiped
    <3>1. seq' \in {hseq + moves', hseq + moves' - SeqMod}
      BY <2>1, <2>2, <1>4, SeqAssumption
         DEF AttemptOK, SeqNext, TypeBlock, TypeReader, TypeHist
    <3>2. moves' # 0
      BY <2>1 DEF TypeHist
    <3>3. QED
      BY <2>1, <2>2, <3>1, <3>2 DEF AttemptOK, reader
  <2>3. CASE wiped
    BY <2>1, <2>3 DEF AttemptOK, reader
  <2>4. QED
    BY <2>2, <2>3 DEF TypeHist
<1>8. QED
  BY <1>1, <1>2, <1>4, <1>5, <1>6, <1>7

----------------------------------------------------------------------------
(* The steps of a reset, of main's memset and of the host.                 *)

LEMMA RebootInv ==
  ASSUME SinkInv, Reboot
  PROVE  SinkInv'
<1> USE DEF SinkInv, TypeOK, Reboot
<1>1. TypeBlock' /\ TypeReader' /\ 0 \in 0 .. W * W - 1
  BY SquareType DEF TypeBlock, TypeReader, block, reader
<1>2. TypeWriter'
  <2>1. Nothing \in [{} -> 0 .. W] /\ {} \in SUBSET Counter
    BY DEF Nothing
  <2>2. Nothing \in UNION {[S -> 0 .. W] : S \in SUBSET Counter}
    BY <2>1
  <2>3. QED
    BY <1>1, <2>2, BoundAssumption DEF TypeWriter, Last
<1>3. TypeHist'
  BY <1>1 DEF TypeHist
<1>4. SectionOK'
  BY DEF SectionOK, Running, Last, Cell
<1>5. BlockOK'
  BY DEF BlockOK, block
<1>6. AttemptOK'
  BY SeqAssumption DEF AttemptOK, Slack, TypeHist, block, reader
<1>7. QED
  BY <1>1, <1>2, <1>3, <1>4, <1>5, <1>6

LEMMA ClearInv ==
  ASSUME SinkInv, Clear
  PROVE  SinkInv'
<1> USE DEF SinkInv, TypeOK, Clear, writer, reader
<1>1. cleared \in 0 .. Last
  BY DEF Running, TypeWriter, Last
<1>2. TypeBlock'
  BY <1>1, SeqAssumption, WordAssumption DEF TypeBlock, ClearSeq, Word
<1>3. TypeWriter' /\ TypeReader'
  BY <1>1 DEF TypeWriter, TypeReader, Last
<1>4. TypeHist'
  BY <1>2 DEF TypeHist, TypeBlock
<1>5. torn' <=> cleared # Last
  <2>1. (cleared < Last) <=> cleared # Last
    BY <1>1 DEF Last
  <2>2. QED
    BY <2>1
<1>6. SectionOK'
  <2>1. lock = None /\ (cleared = 0 => seq' = 0) /\ (cleared # 0 => seq' = seq)
    BY <1>1 DEF SectionOK, ClearSeq
  <2>2. Even(seq')
    BY <1>1, <2>1 DEF SectionOK, Even, Cell, Last
  <2>3. Running' => ~torn'
    BY <1>1, <1>5 DEF Running, Last
  <2>4. QED
    BY <2>1, <2>2, <2>3 DEF SectionOK
<1>7. BlockOK'
  BY <1>5 DEF BlockOK
<1>8. AttemptOK'
  BY DEF AttemptOK, Slack
<1>9. QED
  BY <1>2, <1>3, <1>4, <1>6, <1>7, <1>8

LEMMA HostInv ==
  ASSUME SinkInv, Host
  PROVE  SinkInv'
<1> USE DEF SinkInv, TypeOK
<1>1. CASE HostRun
  BY <1>1, BoundAssumption
     DEF HostRun, block, writer, hist, TypeBlock, TypeWriter, TypeReader, TypeHist,
         SectionOK, BlockOK, AttemptOK, Running
<1>2. CASE HostReadSeq
  <2> USE <1>2 DEF HostReadSeq, block, writer
  <2>1. TypeBlock' /\ TypeWriter' /\ SectionOK' /\ BlockOK'
    BY DEF TypeBlock, TypeWriter, SectionOK, BlockOK, Running
  <2>2. TypeReader' /\ TypeHist'
    BY SeqAssumption DEF TypeReader, TypeHist, TypeBlock, Last
  <2>3. AttemptOK'
    BY SeqAssumption DEF AttemptOK, Slack, TypeBlock
  <2>4. QED
    BY <2>1, <2>2, <2>3
<1>3. CASE HostReadWord
  <2> USE <1>3 DEF HostReadWord, block, writer, hist
  <2>1. TypeBlock' /\ TypeWriter' /\ TypeHist' /\ SectionOK' /\ BlockOK'
    BY DEF TypeBlock, TypeWriter, TypeHist, SectionOK, BlockOK, Running
  <2>2. pos' \in Cell /\ pos' = pos + 1
    BY DEF TypeReader, Cell, Last
  <2>3. copy' = [copy EXCEPT ![pos'] = mem[pos']] /\ TypeReader'
    BY <2>2 DEF TypeReader, TypeBlock, Cell, Last
  <2>4. ASSUME \A i \in 1 .. pos : copy[i] = mem[i]
        PROVE  \A i \in 1 .. pos' : copy'[i] = mem'[i]
    BY <2>2, <2>3, <2>4 DEF TypeReader, Cell, Last
  <2>5. AttemptOK'
    BY <2>4 DEF AttemptOK, Slack
  <2>6. QED
    BY <2>1, <2>3, <2>5
<1>4. ASSUME NEW h \in {"idle", "start"}, NEW n \in 0 .. Retries, HostDone(h, n)
      PROVE  SinkInv'
  <2> USE <1>4 DEF HostDone, block, writer
  <2>1. TypeBlock' /\ TypeWriter' /\ SectionOK' /\ BlockOK'
    BY DEF TypeBlock, TypeWriter, SectionOK, BlockOK, Running
  <2>2. TypeReader' /\ TypeHist'
    <3>1. 0 \in Word /\ 0 \in 0 .. SeqMod - 1 /\ 0 \in 0 .. Last
      BY SeqAssumption, WordAssumption DEF Word, Last
    <3>2. TypeReader'
      BY <3>1 DEF TypeReader
    <3>3. 0 \in 0 .. MaxDuring /\ 0 \in 0 .. 2 * MaxDuring + 1
      BY SeqAssumption
    <3>4. TypeHist'
      BY <3>3 DEF TypeHist
    <3>5. QED
      BY <3>2, <3>4
  <2>3. AttemptOK'
    BY DEF AttemptOK
  <2>4. QED
    BY <2>1, <2>2, <2>3
<1>5. CASE HostAccept
  BY <1>4, <1>5, BoundAssumption DEF HostAccept
<1>6. CASE HostRetry
  BY <1>4, <1>6, BoundAssumption DEF HostRetry, TypeReader
<1>7. CASE HostGiveUp
  BY <1>4, <1>7, BoundAssumption DEF HostGiveUp
<1>8. QED
  BY <1>1, <1>2, <1>3, <1>5, <1>6, <1>7 DEF Host

LEMMA NextInv ==
  ASSUME SinkInv, [Next]_vars
  PROVE  SinkInv'
<1>1. CASE UNCHANGED vars
  BY <1>1 DEF SinkInv, TypeOK, TypeBlock, TypeWriter, TypeReader, TypeHist, SectionOK,
              BlockOK, AttemptOK, Slack, Running, vars, block, writer, reader, hist
<1>2. CASE Reboot
  BY <1>2, RebootInv
<1>3. CASE Clear
  BY <1>3, ClearInv
<1>4. CASE Host
  BY <1>4, HostInv
<1>5. ASSUME NEW c \in Ctx, Write(c) PROVE SinkInv'
  <2>1. CASE AccountPacket(c)
    <3>1. PICK len \in Lens :
            Begin(c, [k \in {Packets, Bytes} |-> IF k = Bytes THEN len ELSE 1])
      BY <2>1 DEF AccountPacket
    <3>2. {Packets, Bytes} \in SUBSET Counter /\ len \in 0 .. W /\ 1 \in 0 .. W
      BY WordAssumption DEF Packets, Bytes, Counter
    <3>3. QED
      BY <3>1, <3>2, BeginInv
  <2>2. CASE AccountOther(c)
    <3>1. {Other} \in SUBSET Counter /\ 1 \in 0 .. W
      BY WordAssumption DEF Other, Counter
    <3>2. QED
      BY <2>2, <3>1, BeginInv DEF AccountOther
  <2>3. QED
    BY <1>5, <2>1, <2>2, StoreInv, StoreRestInv, EndInv DEF Write
<1>6. QED
  BY <1>1, <1>2, <1>3, <1>4, <1>5 DEF Next

----------------------------------------------------------------------------
(* Every variable keeps its range and sink_seq and the words their width.  *)
THEOREM SinkTypeCorrect == Spec => []TypeOK
<1>1. SinkInv => TypeOK
  BY DEF SinkInv
<1>2. QED
  BY InitInv, NextInv, <1>1, PTL DEF Spec

(* read_stats accepts what one update left, whole (profile.h:120,          *)
(* main.c:664): the two reads of sink_seq agree only if it did not move.   *)
THEOREM HostReadsWhole == Spec => ReadIsWhole
<1>1. ASSUME SinkInv, HostAccept PROVE wiped \/ copy = stable
  <2> USE <1>1 DEF SinkInv, TypeOK, HostAccept, HostDone, Consistent
  <2> SUFFICES ASSUME ~wiped PROVE copy = stable
    OBVIOUS
  <2>1. moves = 0
    BY SeqAssumption DEF AttemptOK, TypeReader, TypeBlock, TypeHist
  <2>2. \A i \in Cell : copy[i] = mem[i]
    BY <2>1 DEF AttemptOK, Cell
  <2>3. copy = mem
    BY <2>2 DEF TypeReader, TypeBlock
  <2>4. mem = stable
    BY DEF BlockOK, AttemptOK
  <2>5. QED
    BY <2>3, <2>4
<1>2. SinkInv /\ [Next]_vars => [HostAccept => wiped \/ copy = stable]_vars
  BY <1>1
<1>3. QED
  BY InitInv, NextInv, <1>2, PTL DEF Spec, ReadIsWhole

----------------------------------------------------------------------------
(* What a section has still to add, and that the memset leaves zeroes.     *)

CounterOK(k) ==
  IF lock = None \/ k \notin DOMAIN todo[lock] THEN Value(k) = total[k]
  ELSE IF half[lock] = "none" \/ k # Current(lock)
       THEN (Value(k) + todo[lock][k]) % (W * W) = total[k]
       ELSE /\ sum[lock] = total[k]
            /\ half[lock] = "hi" => mem[Lo(k)] = sum[lock] % W
            /\ half[lock] = "lo" => mem[Hi(k)] = sum[lock] \div W

CountOK ==
  /\ Running => \A k \in Counter : CounterOK(k)
  /\ ~Running => /\ \A k \in Counter : total[k] = 0
                 /\ \A i \in Cell : i < cleared => mem[i] = 0

LEMMA Join ==
  ASSUME NEW n \in 0 .. W * W - 1
  PROVE  (n % W) + W * (n \div W) = n
<1>1. W \in Nat /\ W > 0 /\ n \in Int
  BY WordAssumption, SquareType
<1>2. QED
  BY <1>1, SMTT(30)

LEMMA Apart ==
  ASSUME NEW k \in Counter, NEW j \in Counter
  PROVE  Lo(k) # Hi(j) /\ (k # j => Lo(k) # Lo(j) /\ Hi(k) # Hi(j))
BY DEF Counter, Lo, Hi

LEMMA CountStep ==
  ASSUME SinkInv, CountOK, [Next]_vars
  PROVE  CountOK'
<1> USE DEF SinkInv, TypeOK
<1>0. \A k \in Counter : Lo(k) \in Cell /\ Hi(k) \in Cell
  BY DEF Counter, Cell, Last, Lo, Hi
<1>1. CASE UNCHANGED <<block, writer, cleared, total>>
  BY <1>1 DEF CountOK, CounterOK, Running, Value, Current, block, writer
<1>2. CASE Reboot
  BY <1>2 DEF Reboot, CountOK, Running, Last, Cell
<1>3. CASE Clear
  <2> USE <1>3 DEF Clear, writer
  <2>1. cleared \in 0 .. Last /\ lock = None /\ ~Running
    BY DEF Running, TypeWriter, SectionOK, Last
  <2>2. \A i \in Cell : i < cleared' => mem'[i] = 0
    BY <2>1 DEF CountOK, ClearSeq, TypeBlock, Cell, Last
  <2>3. Running' => \A k \in Counter : Value(k)' = 0
    <3>1. Running' => \A i \in Cell : mem'[i] = 0
      BY <2>1, <2>2 DEF Running, Cell, Last
    <3>2. 0 + W * 0 = 0
      BY WordAssumption
    <3>3. QED
      BY <1>0, <3>1, <3>2 DEF Value
  <2>4. QED
    BY <2>1, <2>2, <2>3 DEF CountOK, CounterOK
<1>4. ASSUME NEW c \in Ctx, NEW S \in SUBSET Counter, NEW add \in [S -> 0 .. W],
             Begin(c, add)
      PROVE  CountOK'
  <2> USE <1>4 DEF Begin, LockFree
  <2>1. /\ Running /\ Running' /\ lock' = c /\ c # None /\ todo'[c] = add
        /\ half'[c] = "none" /\ DOMAIN add = S
    BY ContextAssumption DEF Running, Ctx, TypeWriter, SectionOK
  <2>2. ASSUME NEW k \in Counter PROVE CounterOK(k)'
    <3>1. Value(k)' = Value(k) /\ Value(k) = total[k]
      BY <2>1 DEF Value, CountOK, CounterOK
    <3>2. total'[k] = IF k \in S THEN (total[k] + add[k]) % (W * W) ELSE total[k]
      BY <2>1
    <3>3. QED
      BY <2>1, <3>1, <3>2 DEF CounterOK
  <2>3. QED
    BY <2>1, <2>2 DEF CountOK
<1>5. ASSUME NEW c \in Ctx, Store(c) PROVE CountOK'
  <2> DEFINE k == Current(c)
             v == (Value(k) + todo[c][k]) % (W * W)
  <2> USE <1>5 DEF Store, hist
  <2>1. /\ lock = c /\ lock' = c /\ c # None /\ Running /\ Running' /\ Current(c)' = k
        /\ k \in Counter /\ k \in DOMAIN todo[c]
    BY ContextAssumption, CurrentType DEF SectionOK, Ctx, Running, Current
  <2>2. sum'[c] = v /\ v = total[k]
    BY <2>1 DEF TypeWriter, CountOK, CounterOK
  <2>3. \/ half'[c] = "hi" /\ mem' = [mem EXCEPT ![Lo(k)] = v % W]
        \/ half'[c] = "lo" /\ mem' = [mem EXCEPT ![Hi(k)] = v \div W]
    BY <2>2 DEF TypeWriter
  <2>4. CounterOK(k)'
    BY <1>0, <2>1, <2>2, <2>3 DEF CounterOK, TypeBlock
  <2>5. ASSUME NEW j \in Counter, j # k PROVE CounterOK(j)'
    <3>1. mem'[Lo(j)] = mem[Lo(j)] /\ mem'[Hi(j)] = mem[Hi(j)]
      BY <1>0, <2>1, <2>3, <2>5, Apart DEF TypeBlock
    <3>2. Value(j)' = Value(j)
      BY <3>1 DEF Value
    <3>3. QED
      BY <2>1, <2>5, <3>2 DEF CounterOK, CountOK
  <2>6. QED
    BY <2>1, <2>4, <2>5 DEF CountOK
<1>6. ASSUME NEW c \in Ctx, StoreRest(c) PROVE CountOK'
  <2> USE <1>6 DEF StoreRest, hist
  <2>1. todo[c] # Nothing
    BY DEF SectionOK
  <2>2. PICK k \in Counter : k = Current(c)
    BY <2>1, CurrentType
  <2> DEFINE n == sum[c]
  <2>3. /\ lock = c /\ lock' = c /\ c # None /\ Running /\ Running'
        /\ k \in DOMAIN todo[c] /\ half'[c] = "none"
    BY <2>1, <2>2, ContextAssumption, CurrentType DEF SectionOK, Ctx, Running, TypeWriter
  <2>4. todo'[c] = [j \in DOMAIN todo[c] \ {k} |-> todo[c][j]]
    BY <2>2 DEF TypeWriter
  <2>5. mem'[Lo(k)] = n % W /\ mem'[Hi(k)] = n \div W /\ n = total[k]
    <3>1. CounterOK(k)
      BY <2>3 DEF CountOK
    <3>2. CASE half[c] = "lo"
      BY <1>0, <2>2, <2>3, <3>1, <3>2, Apart DEF CounterOK, TypeBlock
    <3>3. CASE half[c] = "hi"
      BY <1>0, <2>2, <2>3, <3>1, <3>3, Apart DEF CounterOK, TypeBlock
    <3>4. QED
      BY <3>2, <3>3 DEF TypeWriter
  <2>6. CounterOK(k)'
    <3>1. n \in 0 .. W * W - 1
      BY DEF TypeWriter
    <3>2. (n % W) + W * (n \div W) = n
      BY <3>1, Join
    <3>3. Value(k)' = total'[k]
      BY <2>5, <3>2 DEF Value
    <3>4. k \notin DOMAIN todo'[c]
      BY <2>4
    <3>5. QED
      BY <2>3, <3>3, <3>4 DEF CounterOK
  <2>7. ASSUME NEW j \in Counter, j # k PROVE CounterOK(j)'
    <3>1. mem'[Lo(j)] = mem[Lo(j)] /\ mem'[Hi(j)] = mem[Hi(j)]
      BY <1>0, <2>2, <2>7, Apart DEF TypeBlock
    <3>2. Value(j)' = Value(j) /\ total'[j] = total[j]
      BY <3>1 DEF Value
    <3>3. CounterOK(j) /\ j # Current(lock)
      BY <2>2, <2>3, <2>7 DEF CountOK
    <3>4. CASE j \in DOMAIN todo[c]
      <4>1. j \in DOMAIN todo'[c] /\ todo'[c][j] = todo[c][j]
        BY <2>4, <2>7, <3>4
      <4>2. (Value(j) + todo[c][j]) % (W * W) = total[j]
        BY <2>3, <3>3, <3>4 DEF CounterOK
      <4>3. QED
        BY <2>3, <3>2, <4>1, <4>2 DEF CounterOK
    <3>5. CASE j \notin DOMAIN todo[c]
      BY <2>3, <2>4, <3>2, <3>3, <3>5 DEF CounterOK
    <3>6. QED
      BY <3>4, <3>5
  <2>8. QED
    BY <2>3, <2>6, <2>7 DEF CountOK
<1>7. ASSUME NEW c \in Ctx, End(c) PROVE CountOK'
  <2> USE <1>7 DEF End
  <2>1. lock = c /\ lock' = None /\ c # None /\ Running /\ Running' /\ DOMAIN todo[c] = {}
    BY ContextAssumption DEF Running, Ctx, SectionOK, Nothing
  <2>2. \A k \in Counter : Value(k)' = Value(k) /\ Value(k) = total[k]
    BY <2>1 DEF Value, CountOK, CounterOK
  <2>3. QED
    BY <2>1, <2>2 DEF CountOK, CounterOK
<1>8. ASSUME NEW c \in Ctx, AccountPacket(c) \/ AccountOther(c) PROVE CountOK'
  <2>1. {Packets, Bytes} \in SUBSET Counter /\ {Other} \in SUBSET Counter
    BY DEF Packets, Bytes, Other, Counter
  <2>2. Lens \subseteq 0 .. W /\ 1 \in 0 .. W
    BY WordAssumption
  <2>3. CASE AccountPacket(c)
    <3>1. PICK len \in Lens :
            Begin(c, [k \in {Packets, Bytes} |-> IF k = Bytes THEN len ELSE 1])
      BY <2>3 DEF AccountPacket
    <3>2. [k \in {Packets, Bytes} |-> IF k = Bytes THEN len ELSE 1]
            \in [{Packets, Bytes} -> 0 .. W]
      BY <2>2
    <3>3. QED
      BY <1>4, <2>1, <3>1, <3>2
  <2>4. CASE AccountOther(c)
    BY <1>4, <2>1, <2>2, <2>4 DEF AccountOther
  <2>5. QED
    BY <1>8, <2>3, <2>4
<1>9. CASE Host
  BY <1>1, <1>9 DEF Host, HostRun, HostReadSeq, HostReadWord, HostAccept, HostRetry,
                    HostGiveUp, HostDone, hist
<1>10. CASE UNCHANGED vars
  BY <1>1, <1>10 DEF vars, hist
<1>11. QED
  BY <1>2, <1>3, <1>5, <1>6, <1>7, <1>8, <1>9, <1>10 DEF Next, Write

(* sink_stats_lock loses no count: outside an update each 64-bit counter   *)
(* is the sum of what the interrupt and the threads counted (main.c:664).  *)
THEOREM NoCountLost == Spec => []CountsAgree
<1>1. Init => CountOK
  <2> SUFFICES ASSUME Init PROVE CountOK
    OBVIOUS
  <2>1. \A k \in Counter : Lo(k) \in Cell /\ Hi(k) \in Cell
    BY DEF Counter, Cell, Last, Lo, Hi
  <2>2. 0 + W * 0 = 0
    BY WordAssumption
  <2>3. \A k \in Counter : Value(k) = 0
    BY <2>1, <2>2 DEF Init, Value
  <2>4. QED
    BY <2>3 DEF Init, CountOK, CounterOK, Running
<1>2. CountOK => CountsAgree
  BY DEF CountOK, CounterOK, CountsAgree
<1>3. QED
  BY InitInv, NextInv, CountStep, <1>1, <1>2, PTL DEF Spec

=============================================================================
