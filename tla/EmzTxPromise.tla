---------------------------- MODULE EmzTxPromise ----------------------------
(***************************************************************************)
(* What the TX path promises its callers: frames leave in the order they   *)
(* were accepted, each with the bytes it was accepted with.  A benchmark   *)
(* burst is weaker.  Its descriptors share one buffer, so the copies after *)
(* the first keep their place in the queue but not their bytes: a later    *)
(* call may reuse that buffer while they wait.  After a bus error nothing  *)
(* is delivered any more, and what was waiting is lost.                    *)
(***************************************************************************)
EXTENDS Naturals, Sequences

CONSTANTS
  Frame,      \* the frames callers send
  Junk,       \* a buffer half written by a read that failed
  Capacity,   \* frames the path holds
  Burst       \* the sizes of benchmark bursts

VARIABLES
  queue,      \* frames accepted and not yet on the wire
  wire,       \* the last frame put on the wire
  up          \* no bus error yet

Entry(f, o) == [frame |-> f, own |-> o]

Init == queue = <<>> /\ wire = Entry(Junk, FALSE) /\ up = TRUE

Accept(entries) ==
  /\ up
  /\ Len(queue) + Len(entries) <= Capacity
  /\ queue' = queue \o entries
  /\ UNCHANGED <<wire, up>>

Submit(f) == Accept(<<Entry(f, TRUE)>>)

SubmitBurst(f, k) == Accept([i \in 1 .. k |-> Entry(f, i = 1)])

Reuse(f) ==
  /\ queue' = [i \in DOMAIN queue |->
                 IF queue[i].own THEN queue[i] ELSE Entry(f, FALSE)]
  /\ UNCHANGED <<wire, up>>

Deliver ==
  /\ queue # <<>>
  /\ wire' = Head(queue)
  /\ queue' = Tail(queue)
  /\ UNCHANGED up

Fail == up' = FALSE /\ queue' = <<>> /\ UNCHANGED wire

Next ==
  \/ \E f \in Frame : Submit(f) \/ \E k \in Burst : SubmitBurst(f, k)
  \/ \E f \in Frame \cup {Junk} : Reuse(f)
  \/ Deliver \/ Fail

Spec == Init /\ [][Next]_<<queue, wire, up>>

=============================================================================
