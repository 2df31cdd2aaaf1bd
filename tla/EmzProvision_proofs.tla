------------------------- MODULE EmzProvision_proofs -------------------------
(***************************************************************************)
(* Proofs about provisioning, for every set of sessions and addresses, any *)
(* queue length and any number of faults, reboots and mailbox requests.    *)
(*                                                                         *)
(* Three invariants, each inductive by itself: AddrInv about the interface,*)
(* MailInv about the mailbox and its poll, SessionInv about tokens and the *)
(* datagrams in flight.  The types need one more fact, OffersBound, and    *)
(* stand on all of these; a variant bounds the time to an answer.          *)
(***************************************************************************)
EXTENDS EmzProvision, TLAPS, FiniteSetTheorems, SequenceTheorems, FunctionTheorems

----------------------------------------------------------------------------
(* The interface: no call into the stack, failed or not, leaves             *)
(* prov_addr_installed wrong.                                               *)

AddrInv ==
  /\ installed \in BOOLEAN /\ leak \in BOOLEAN
  /\ AddressKnown

LEMMA AddrUnchanged == AddrInv /\ UNCHANGED iface => AddrInv'
  BY DEF AddrInv, AddressKnown, iface

LEMMA ApplyKeeps == ASSUME AddrInv, NEW a, Apply(a) PROVE AddrInv'
  BY DEF AddrInv, AddressKnown, Apply, Rest

LEMMA ApplyFailsKeeps == ASSUME AddrInv, NEW a, ApplyFails(a) PROVE AddrInv'
<1> USE DEF AddrInv, AddressKnown
<1>1. UNCHANGED addr
  BY DEF ApplyFails
<1>2. addr \notin Rest /\ (leak \/ Rest = {})
  BY DEF Rest
<1>3. CASE RemoveFails
  BY <1>1, <1>3 DEF RemoveFails
<1>4. CASE AddFails(a)
  BY <1>1, <1>2, <1>4 DEF AddFails, RollBack
<1>5. CASE MaskFails(a)
  <2>1. PICK removed \in BOOLEAN, back \in BOOLEAN :
          /\ RollBack(IF removed THEN Rest \ {a} ELSE Rest \cup {a}, back)
          /\ leak' = (leak \/ ~removed)
    BY <1>5 DEF MaskFails
  <2>2. CASE removed
    BY <1>1, <1>2, <2>1, <2>2 DEF RollBack
  <2>3. CASE ~removed
    BY <1>1, <2>1, <2>3 DEF RollBack
  <2>4. QED
    BY <2>2, <2>3
<1>6. QED
  BY <1>3, <1>4, <1>5 DEF ApplyFails

LEMMA AddrInvariant == Spec => []AddrInv
<1>1. Init => AddrInv
  BY DEF Init, AddrInv, AddressKnown
<1>2. AddrInv /\ [Next]_vars => AddrInv'
  <2> SUFFICES ASSUME AddrInv, [Next]_vars PROVE AddrInv'
    OBVIOUS
  <2>1. CASE Ingress \/ Jtag \/ (\E x \in Session : Tool(x)) \/ UNCHANGED vars
    BY <2>1, AddrUnchanged DEF Ingress, Jtag, Tool, vars
  <2>2. CASE Reboot
    BY <2>2 DEF Reboot, AddrInv, AddressKnown
  <2>3. CASE Get \/ Ignore \/ ServeDiscover \/ Look \/ Fetch \/ WriteStatus \/ WriteAck
    BY <2>3, AddrUnchanged
    DEF Get, Ignore, ServeDiscover, Look, Fetch, WriteStatus, WriteAck
  <2>4. CASE MailboxApply
    BY <2>4, AddrUnchanged, ApplyKeeps, ApplyFailsKeeps DEF MailboxApply
  <2>5. CASE ServeConfig
    BY <2>5, AddrUnchanged, ApplyKeeps, ApplyFailsKeeps DEF ServeConfig
  <2>6. QED
    BY <2>1, <2>2, <2>3, <2>4, <2>5 DEF Next, Thread, Mailbox
<1>3. QED
  BY <1>1, <1>2, PTL DEF Spec

(* AddressKnown holds always: whatever fails in apply_config and in its     *)
(* rollback, the board knows whether it has the address it reports.         *)
THEOREM AddressCorrect == Spec => []AddressKnown
<1>1. AddrInv => AddressKnown
  BY DEF AddrInv
<1>2. QED
  BY <1>1, AddrInvariant, PTL

----------------------------------------------------------------------------
(* The mailbox.  While the board is at a request the host only polls, so    *)
(* the epoch read is the present one; what was acknowledged is what the     *)
(* poll remembers, in its static or, after a boot, in the mailbox itself.   *)

Busy == pc \in {"fetch", "apply", "status", "ack"}

EpochOK ==
  /\ epoch \in Nat /\ armed \in BOOLEAN /\ magic \in BOOLEAN
  /\ jtag \in {"idle", "staged", "wait", "check"}
  /\ jtag # "wait" => ack = epoch
  /\ Busy => seen = epoch /\ ack # epoch
  /\ armed /\ ~Busy => lastEpoch = ack

StatusOK ==
  /\ pc \in {"status", "ack"} => outcome = ok /\ tries = 1
  /\ pc = "ack" => status = ok
  /\ jtag \in {"wait", "check"} /\ ack = epoch => status = outcome
  /\ ack # epoch /\ pc \notin {"status", "ack"} => tries = 0
  /\ tries \in 0 .. 1

MailInv == EpochOK /\ StatusOK

LEMMA MailInvariant == Spec => []MailInv
<1> USE DEF MailInv, EpochOK, StatusOK, Busy
<1>1. Init => MailInv
  <2> SUFFICES ASSUME Init PROVE MailInv
    OBVIOUS
  <2>1. /\ pc = "get" /\ armed = FALSE /\ magic = FALSE /\ epoch = 0 /\ ack = 0
        /\ jtag = "idle" /\ tries = 0
    BY DEF Init
  <2>2. armed \in BOOLEAN /\ magic \in BOOLEAN /\ ~armed
    BY <2>1, Zenon
  <2>3. QED
    BY <2>1, <2>2
<1>2. MailInv /\ [Next]_vars => MailInv'
  <2> SUFFICES ASSUME MailInv, [Next]_vars PROVE MailInv'
    OBVIOUS
  <2> USE DEF mbox, hist, static, thread
  <2>1. CASE Ingress \/ (\E x \in Session : Tool(x)) \/ UNCHANGED vars
    BY <2>1 DEF Ingress, Tool, vars
  <2>2. CASE Reboot
    <3>1. pc' = "get" /\ armed' = FALSE /\ tries' = 0 /\ UNCHANGED <<mbox, jtag, outcome>>
      BY <2>2 DEF Reboot
    <3>2. armed' \in BOOLEAN /\ ~armed'
      BY <3>1, Zenon
    <3>3. QED
      BY <3>1, <3>2
  <2>3. CASE Jtag
    <3>1. CASE JtagStage
      BY <2>3, <3>1 DEF Jtag, JtagStage
    <3>2. CASE JtagBump
      BY <2>3, <3>2 DEF Jtag, JtagBump
    <3>3. CASE JtagSeesAck \/ JtagReadsStatus \/ JtagClear
      BY <2>3, <3>3 DEF Jtag, JtagSeesAck, JtagReadsStatus, JtagClear
    <3>4. QED
      BY <2>3, <3>1, <3>2, <3>3 DEF Jtag
  <2>4. CASE Get
    BY <2>4 DEF Get
  <2>5. CASE Look
    BY <2>5 DEF Look, Serviced
  <2>6. CASE Fetch
    BY <2>6 DEF Fetch
  <2>7. CASE MailboxApply
    <3>1. /\ pc = "apply" /\ pc' = "status" /\ outcome' = ok' /\ tries' = tries + 1
          /\ UNCHANGED <<seen, static, mbox, jtag>>
      BY <2>7 DEF MailboxApply
    <3>2. QED
      BY <3>1
  <2>8. CASE WriteStatus
    BY <2>8 DEF WriteStatus
  <2>9. CASE WriteAck
    BY <2>9 DEF WriteAck
  <2>10. CASE Ignore \/ ServeDiscover
    BY <2>10 DEF Ignore, ServeDiscover, Done
  <2>11. CASE ServeConfig
    <3>1. pc = "serve" /\ pc' = "get" /\ UNCHANGED <<seen, ok, static, mbox, jtag, outcome, tries>>
      BY <2>11 DEF ServeConfig, Done
    <3>2. QED
      BY <3>1
  <2>12. QED
    BY <2>1, <2>2, <2>3, <2>4, <2>5, <2>6, <2>7, <2>8, <2>9, <2>10, <2>11
    DEF Next, Thread, Mailbox
<1>3. QED
  BY <1>1, <1>2, PTL DEF Spec

(* MailboxHonest holds always: the status read after the acknowledgement is *)
(* this request's, and no request is attempted twice in one boot.           *)
THEOREM MailboxCorrect == Spec => []MailboxHonest
<1>1. MailInv => MailboxHonest
  BY DEF MailInv, EpochOK, StatusOK, MailboxHonest
<1>2. QED
  BY <1>1, MailInvariant, PTL

----------------------------------------------------------------------------
(* The safety half of MailboxServed: while the host waits, every step of    *)
(* the thread brings the acknowledgement nearer, whatever the datagram.     *)

MagicOK ==
  /\ jtag \in {"staged", "wait"} => magic
  /\ pc \in {"get", "look", "fetch", "apply", "status", "ack", "serve"}

LEMMA MagicInvariant == Spec => []MagicOK
<1> USE DEF MagicOK
<1>1. Init => MagicOK
  BY DEF Init
<1>2. MagicOK /\ [Next]_vars => MagicOK'
  <2> SUFFICES ASSUME MagicOK, [Next]_vars PROVE MagicOK'
    OBVIOUS
  <2> USE DEF mbox, thread
  <2>1. CASE Ingress \/ Reboot \/ (\E x \in Session : Tool(x)) \/ UNCHANGED vars
    BY <2>1 DEF Ingress, Reboot, Tool, vars
  <2>2. CASE Jtag
    <3>1. UNCHANGED pc
      BY <2>2 DEF Jtag
    <3>2. CASE JtagStage \/ JtagBump
      BY <3>1, <3>2 DEF JtagStage, JtagBump
    <3>3. CASE JtagSeesAck \/ JtagReadsStatus \/ JtagClear
      BY <3>1, <3>3 DEF JtagSeesAck, JtagReadsStatus, JtagClear
    <3>4. QED
      BY <2>2, <3>2, <3>3 DEF Jtag
  <2>3. CASE Get \/ Look \/ Fetch \/ WriteStatus \/ WriteAck
    BY <2>3 DEF Get, Look, Fetch, WriteStatus, WriteAck
  <2>4. CASE MailboxApply
    BY <2>4 DEF MailboxApply
  <2>5. CASE Ignore \/ ServeDiscover \/ ServeConfig
    BY <2>5 DEF Ignore, ServeDiscover, ServeConfig, Done
  <2>6. QED
    BY <2>1, <2>2, <2>3, <2>4, <2>5 DEF Next, Thread, Mailbox
<1>3. QED
  BY <1>1, <1>2, PTL DEF Spec

StepsToAck ==
  [serve |-> 7, get |-> 6, look |-> 5, fetch |-> 4, apply |-> 3, status |-> 2, ack |-> 1][pc]

(* Only a reset takes the thread back.                                      *)
AckComesCloser ==
  jtag = "wait" /\ ack # epoch =>
    /\ Thread => ack' = epoch' \/ StepsToAck' < StepsToAck
    /\ ~Thread /\ ~Reboot => StepsToAck' = StepsToAck

(* A waiting request is answered within seven steps of the thread unless    *)
(* the board is reset: no datagram, served first or still queued, and       *)
(* nothing the hosts do sends the thread back or past the mailbox.  That    *)
(* the thread takes these steps is the fairness of MailboxServed.           *)
THEOREM AnswerBounded == Spec => [][AckComesCloser]_vars
<1> USE DEF StepsToAck
<1>1. ASSUME MailInv, MagicOK, [Next]_vars PROVE [AckComesCloser]_vars
  <2> SUFFICES ASSUME jtag = "wait", ack # epoch, Next
               PROVE  /\ Thread => ack' = epoch' \/ StepsToAck' < StepsToAck
                      /\ ~Thread /\ ~Reboot => StepsToAck' = StepsToAck
    BY <1>1 DEF AckComesCloser
  <2>1. CASE Thread
    <3> SUFFICES ack' = epoch' \/ StepsToAck' < StepsToAck
      BY <2>1
    <3>1. CASE Get
      BY <3>1 DEF Get
    <3>2. CASE Look
      <4>1. magic /\ ~Serviced
        BY <1>1, <3>2 DEF MagicOK, MailInv, EpochOK, Busy, Look, Serviced
      <4>2. pc = "look" /\ pc' = "fetch"
        BY <3>2, <4>1, Zenon DEF Look
      <4>3. QED
        BY <4>2
    <3>3. CASE Fetch
      BY <3>3 DEF Fetch
    <3>4. CASE MailboxApply
      BY <3>4 DEF MailboxApply
    <3>5. CASE WriteStatus
      BY <3>5 DEF WriteStatus
    <3>6. CASE WriteAck
      <4>1. pc = "ack" /\ ack' = seen /\ epoch' = epoch
        BY <3>6 DEF WriteAck
      <4>2. seen = epoch
        BY <1>1, <4>1 DEF MailInv, EpochOK, Busy
      <4>3. QED
        BY <4>1, <4>2
    <3>7. CASE Ignore \/ ServeDiscover \/ ServeConfig
      <4>1. pc = "serve" /\ pc' = "get"
        BY <3>7 DEF Ignore, ServeDiscover, ServeConfig, Done
      <4>2. QED
        BY <4>1
    <3>8. QED
      BY <2>1, <3>1, <3>2, <3>3, <3>4, <3>5, <3>6, <3>7 DEF Thread, Mailbox
  <2>2. CASE ~Thread /\ ~Reboot
    <3>1. UNCHANGED pc
      BY <2>2 DEF Next, Ingress, Jtag, Tool, thread
    <3>2. QED
      BY <2>2, <3>1
  <2>3. QED
    BY <2>1, <2>2
<1>2. QED
  BY <1>1, MailInvariant, MagicInvariant, PTL DEF Spec

----------------------------------------------------------------------------
(* Sessions.  Tokens grow with the OFFERs, so a new one differs from that   *)
(* of every CONFIG that exists, and a spent one never comes back.           *)

Given == Cardinality(offers)

ConfigOf(x) == [op : {"config"}, xid : {x}, token : Nat \ {0}, ip : Ip]

Datagram == {Junk} \cup {DiscoverMsg(x) : x \in Session}
              \cup UNION {ConfigOf(x) : x \in Session}

(* A CONFIG that is under way is the one its session sent.                  *)
Traced(m) == m.op = "config" => m # None /\ conf[m.xid] = m

OfferOK ==
  /\ IsFiniteSet(offers)
  /\ offers \subseteq [xid : Session, token : Nat \ {0}]
  /\ \A o \in offers : o.token <= Given
  /\ token \in 0 .. Given

ConfigOK ==
  /\ conf \in [Session -> Datagram \cup {None}]
  /\ \A x \in Session : conf[x] # None => conf[x] \in ConfigOf(x) /\ conf[x].token <= Given

FlightOK ==
  /\ queue \in Seq(Datagram)
  /\ \A i \in 1 .. Len(queue) : Traced(queue[i])
  /\ buf # None => buf \in Datagram /\ Traced(buf)

SpentOK ==
  /\ applied \in [Session -> 0 .. 1]
  /\ \A x \in Session :
       applied[x] = 1 => conf[x] # None /\ conf[x].token # token

AckOK ==
  \A m \in acks :
    m.xid \in Session /\ applied[m.xid] = 1 /\ conf[m.xid] # None /\ conf[m.xid].ip = m.ip

SessionInv == running \subseteq Session /\ OfferOK /\ ConfigOK /\ FlightOK /\ SpentOK /\ AckOK

sessionVars == <<proto, queue, buf, net, applied>>

LEMMA SessionUnchanged == SessionInv /\ UNCHANGED sessionVars => SessionInv'
  BY DEF SessionInv, sessionVars, proto, net, OfferOK, Given, ConfigOK, FlightOK, Traced,
         SpentOK, AckOK

LEMMA ConfigShape ==
  ASSUME NEW m \in Datagram, m.op = "config"
  PROVE  m.xid \in Session /\ m \in ConfigOf(m.xid)
  BY DEF Datagram, ConfigOf, Junk, DiscoverMsg

(* A datagram that arrives has been sent.                                   *)
LEMMA IngressKeeps == SessionInv /\ Ingress => SessionInv'
<1> SUFFICES ASSUME SessionInv, Ingress PROVE SessionInv'
  OBVIOUS
<1>1. PICK m \in Sent : queue' = Append(queue, m)
  BY DEF Ingress
<1>2. UNCHANGED <<xid, token, buf, running, conf, offers, acks, applied>>
  BY DEF Ingress, proto, thread, net, hist
<1>3. m \in Datagram /\ Traced(m)
  <2>1. CASE m = Junk
    BY <2>1 DEF Datagram, Traced, Junk
  <2>2. CASE \E x \in running : m = DiscoverMsg(x)
    BY <2>2 DEF Datagram, Traced, DiscoverMsg, SessionInv
  <2>3. CASE \E x \in Session : m = conf[x] /\ m # None
    BY <2>3 DEF Traced, SessionInv, ConfigOK, ConfigOf
  <2>4. QED
    BY <2>1, <2>2, <2>3 DEF Sent
<1>4. FlightOK'
  <2>1. queue' \in Seq(Datagram)
    BY <1>1, <1>3 DEF SessionInv, FlightOK
  <2>2. \A i \in 1 .. Len(queue') : Traced(queue'[i])
    BY <1>1, <1>3 DEF SessionInv, FlightOK
  <2>3. QED
    BY <1>2, <2>1, <2>2 DEF SessionInv, FlightOK, Traced
<1>5. QED
  BY <1>2, <1>4 DEF SessionInv, OfferOK, Given, ConfigOK, SpentOK, AckOK

LEMMA GetKeeps == SessionInv /\ Get => SessionInv'
<1> SUFFICES ASSUME SessionInv, Get PROVE SessionInv'
  OBVIOUS
<1>1. UNCHANGED <<xid, token, running, conf, offers, acks, applied>>
  BY DEF Get, proto, net, hist
<1>2. FlightOK'
  <2>1. CASE queue = <<>>
    BY <1>1, <2>1 DEF Get, SessionInv, FlightOK, Traced
  <2>2. CASE queue # <<>>
    <3>1. buf' = Head(queue) /\ queue' = Tail(queue)
      BY <2>2 DEF Get
    <3>2. Head(queue) = queue[1] /\ 1 \in 1 .. Len(queue) /\ queue[1] \in Datagram
      BY <2>2 DEF SessionInv, FlightOK
    <3>3. queue' \in Seq(Datagram) /\ Len(queue') = Len(queue) - 1
      BY <2>2, <3>1 DEF SessionInv, FlightOK
    <3>4. \A i \in 1 .. Len(queue') : queue'[i] = queue[i + 1] /\ i + 1 \in 1 .. Len(queue)
      BY <2>2, <3>1, <3>3 DEF SessionInv, FlightOK
    <3>5. \A i \in 1 .. Len(queue') : Traced(queue'[i])
      BY <3>4 DEF SessionInv, FlightOK
    <3>6. QED
      BY <1>1, <3>1, <3>2, <3>3, <3>5 DEF SessionInv, FlightOK, Traced
  <2>3. QED
    BY <2>1, <2>2
<1>3. QED
  BY <1>1, <1>2 DEF SessionInv, OfferOK, Given, ConfigOK, SpentOK, AckOK

(* The new token is above every one offered before.                         *)
LEMMA DiscoverKeeps == SessionInv /\ ServeDiscover => SessionInv'
<1> SUFFICES ASSUME SessionInv, ServeDiscover PROVE SessionInv'
  OBVIOUS
<1> USE DEF SessionInv
<1>1. /\ buf' = None /\ UNCHANGED <<queue, running, conf, acks, applied>>
      /\ token' = Given + 1
      /\ offers' = offers \cup {[xid |-> buf.xid, token |-> Given + 1]}
  BY DEF ServeDiscover, Done, hist, Given
<1>2. Given \in Nat
  BY FS_CardinalityType DEF OfferOK, Given
<1>3. buf.xid \in Session
  BY DEF ServeDiscover, FlightOK, Datagram, ConfigOf, Junk, DiscoverMsg
<1>4. IsFiniteSet(offers') /\ Given' = Given + 1
  <2>1. [xid |-> buf.xid, token |-> Given + 1] \notin offers
    BY <1>2 DEF OfferOK
  <2>2. QED
    BY <1>1, <2>1, FS_AddElement DEF OfferOK, Given
<1>5. OfferOK'
  <2>1. offers' \subseteq [xid : Session, token : Nat \ {0}]
    BY <1>1, <1>2, <1>3 DEF OfferOK
  <2>2. \A o \in offers' : o.token <= Given + 1
    BY <1>1, <1>2 DEF OfferOK
  <2>3. QED
    BY <1>1, <1>2, <1>4, <2>1, <2>2 DEF OfferOK
<1>6. ConfigOK'
  BY <1>1, <1>2, <1>4 DEF ConfigOK, ConfigOf
<1>7. FlightOK'
  BY <1>1 DEF FlightOK, Traced
<1>8. SpentOK'
  BY <1>1, <1>2 DEF SpentOK, ConfigOK, ConfigOf
<1>9. QED
  BY <1>1, <1>5, <1>6, <1>7, <1>8 DEF AckOK

(* An accepted CONFIG carries the live token, so its session has not been   *)
(* served; spending the token settles that for good.                        *)
LEMMA ConfigKeeps == SessionInv /\ ServeConfig => SessionInv'
<1> SUFFICES ASSUME SessionInv, ServeConfig PROVE SessionInv'
  OBVIOUS
<1> USE DEF SessionInv
<1>1. buf' = None /\ UNCHANGED <<queue, running, conf, offers>>
  BY DEF ServeConfig, Done
<1>2. FlightOK'
  BY <1>1 DEF FlightOK, Traced
<1>3. CASE Nack
  BY <1>1, <1>2, <1>3 DEF Nack, OfferOK, Given, ConfigOK, SpentOK, AckOK
<1>4. CASE Accepted /\ Apply(buf.ip) /\ Acknowledge(buf.xid)
  <2> DEFINE x == buf.xid
  <2>1. x \in Session /\ buf \in ConfigOf(x) /\ conf[x] # None /\ conf[x] = buf
    BY ConfigShape DEF ServeConfig, FlightOK, Traced
  <2>2. applied[x] = 0
    BY <1>4, <2>1 DEF Accepted, SpentOK
  <2>3. /\ token' = 0 /\ applied' = [applied EXCEPT ![x] = 1]
        /\ acks' = acks \cup {[xid |-> x, ip |-> buf.ip]}
    BY <1>4, <2>1, <2>2 DEF Acknowledge, Apply, SpentOK
  <2>4. Given \in Nat
    BY FS_CardinalityType DEF OfferOK, Given
  <2>5. SpentOK'
    BY <1>1, <2>1, <2>3 DEF SpentOK, ConfigOK, ConfigOf
  <2>6. AckOK'
    BY <1>1, <2>1, <2>3 DEF AckOK, SpentOK
  <2>7. QED
    BY <1>1, <1>2, <2>3, <2>4, <2>5, <2>6 DEF OfferOK, Given, ConfigOK
<1>5. QED
  BY <1>3, <1>4 DEF ServeConfig

LEMMA ToolKeeps == ASSUME SessionInv, NEW x \in Session, Tool(x) PROVE SessionInv'
<1> USE DEF SessionInv
<1>1. UNCHANGED <<xid, token, queue, buf, applied>>
  BY DEF Tool, proto, thread, hist
<1>2. CASE ToolDiscover(x)
  BY <1>1, <1>2 DEF ToolDiscover, OfferOK, Given, ConfigOK, FlightOK, Traced, SpentOK, AckOK
<1>3. CASE ToolConfigure(x)
  <2>1. UNCHANGED <<running, offers, acks>> /\ conf[x] = None
    BY <1>3 DEF ToolConfigure
  <2>2. PICK o \in offers, a \in Ip :
          conf' = [conf EXCEPT ![x] = [op |-> "config", xid |-> x, token |-> o.token, ip |-> a]]
    BY <1>3 DEF ToolConfigure
  <2>3. o.token \in Nat \ {0} /\ o.token <= Given
    BY DEF OfferOK
  <2>4. \A y \in Session : y # x => conf'[y] = conf[y]
    BY <2>2 DEF ConfigOK
  <2>5. conf'[x] \in ConfigOf(x) /\ conf'[x].token <= Given
    BY <2>2, <2>3 DEF ConfigOK, ConfigOf
  <2>6. ConfigOK'
    <3>1. conf' \in [Session -> Datagram \cup {None}]
      BY <2>2, <2>3 DEF ConfigOK, Datagram, ConfigOf
    <3>2. QED
      BY <2>1, <2>4, <2>5, <3>1 DEF ConfigOK, Given
  <2>7. FlightOK'
    <3>1. ASSUME NEW m \in Datagram, Traced(m) PROVE Traced(m)'
      BY <2>1, <2>4, <3>1, ConfigShape DEF Traced
    <3>2. \A i \in 1 .. Len(queue) : queue[i] \in Datagram
      BY DEF FlightOK
    <3>3. QED
      BY <1>1, <3>1, <3>2 DEF FlightOK
  <2>8. SpentOK' /\ AckOK'
    BY <1>1, <2>1, <2>4 DEF SpentOK, AckOK
  <2>9. QED
    BY <1>1, <2>1, <2>6, <2>7, <2>8 DEF OfferOK, Given
<1>4. QED
  BY <1>2, <1>3 DEF Tool

LEMMA RebootKeeps == SessionInv /\ Reboot => SessionInv'
<1> SUFFICES ASSUME SessionInv, Reboot PROVE SessionInv'
  OBVIOUS
<1> USE DEF SessionInv
<1>1. token' = 0 /\ queue' = <<>> /\ buf' = None
      /\ UNCHANGED <<running, conf, offers, acks, applied>>
  BY DEF Reboot, net
<1>2. Given \in Nat
  BY FS_CardinalityType DEF OfferOK, Given
<1>3. FlightOK'
  BY <1>1 DEF FlightOK
<1>4. SpentOK'
  BY <1>1 DEF SpentOK, ConfigOK, ConfigOf
<1>5. QED
  BY <1>1, <1>2, <1>3, <1>4 DEF OfferOK, Given, ConfigOK, AckOK

(* The invariant of tokens and datagrams, from which the next two follow.   *)
THEOREM SessionCorrect == Spec => []SessionInv
<1>1. Init => SessionInv
  <2> SUFFICES ASSUME Init PROVE SessionInv
    OBVIOUS
  <2>1. Given = 0 /\ IsFiniteSet(offers)
    BY FS_EmptySet DEF Init, Given
  <2>2. OfferOK
    BY <2>1 DEF Init, OfferOK
  <2>3. ConfigOK /\ FlightOK /\ SpentOK /\ AckOK
    BY DEF Init, ConfigOK, FlightOK, SpentOK, AckOK
  <2>4. QED
    BY <2>2, <2>3 DEF Init, SessionInv
<1>2. SessionInv /\ [Next]_vars => SessionInv'
  <2> SUFFICES ASSUME SessionInv, [Next]_vars PROVE SessionInv'
    OBVIOUS
  <2>1. CASE Mailbox \/ Ignore \/ Jtag \/ UNCHANGED vars
    <3>1. CASE Mailbox \/ Jtag \/ UNCHANGED vars
      BY <3>1, SessionUnchanged
      DEF sessionVars, Mailbox, Look, Fetch, MailboxApply, WriteStatus, WriteAck,
          Jtag, vars, thread, hist
    <3>2. CASE Ignore
      BY <3>2 DEF Ignore, Done, proto, net, hist, SessionInv, OfferOK, Given, ConfigOK,
                  FlightOK, Traced, SpentOK, AckOK
    <3>3. QED
      BY <2>1, <3>1, <3>2
  <2>2. QED
    BY <2>1, IngressKeeps, GetKeeps, DiscoverKeeps, ConfigKeeps, ToolKeeps, RebootKeeps
    DEF Next, Thread
<1>3. QED
  BY <1>1, <1>2, PTL DEF Spec

(* AppliedOnce holds always: a late, repeated or replayed CONFIG is refused,*)
(* whatever the network, the other sessions and resets do.                  *)
THEOREM OnceCorrect == Spec => []AppliedOnce
<1>1. SessionInv => AppliedOnce
  BY DEF SessionInv, SpentOK, AppliedOnce
<1>2. QED
  BY <1>1, SessionCorrect, PTL

(* AckIsTrue holds always: an ACK is sent only for a CONFIG that was        *)
(* applied, and names its address.                                          *)
THEOREM AckCorrect == Spec => []AckIsTrue
<1>1. SessionInv => AckIsTrue
  BY DEF SessionInv, SpentOK, AckOK, AckIsTrue
<1>2. QED
  BY <1>1, SessionCorrect, PTL

----------------------------------------------------------------------------
(* The types.  What is not in the invariants above is that every OFFER is   *)
(* paid for by a DISCOVER that was counted when it reached the queue, and   *)
(* that a request is only fetched from a mailbox the host has filled.       *)

Discovers(s) == {i \in 1 .. Len(s) : s[i].op = "discover"}

AtHand == IF buf # None /\ buf.op = "discover" THEN 1 ELSE 0

OffersBound == Given + Cardinality(Discovers(queue)) + AtHand <= MaxOffers

LEMMA DiscoversFinite ==
  ASSUME NEW s \in Seq(Datagram)
  PROVE  IsFiniteSet(Discovers(s)) /\ Cardinality(Discovers(s)) \in Nat
<1>1. IsFiniteSet(1 .. Len(s))
  BY FS_Interval, LenProperties
<1>2. Discovers(s) \in SUBSET (1 .. Len(s))
  BY DEF Discovers
<1>3. QED
  BY <1>1, <1>2, FS_Subset, FS_CardinalityType

LEMMA DiscoversAppend ==
  ASSUME NEW s \in Seq(Datagram), NEW m \in Datagram
  PROVE  Cardinality(Discovers(Append(s, m))) =
           Cardinality(Discovers(s)) + (IF m.op = "discover" THEN 1 ELSE 0)
<1>1. /\ Len(s) \in Nat /\ Len(Append(s, m)) = Len(s) + 1
      /\ \A i \in 1 .. Len(s) : Append(s, m)[i] = s[i]
      /\ Append(s, m)[Len(s) + 1] = m
  BY AppendProperties, LenProperties
<1>2. CASE m.op = "discover"
  <2>1. Discovers(Append(s, m)) = Discovers(s) \cup {Len(s) + 1}
    BY <1>1, <1>2 DEF Discovers
  <2>2. Len(s) + 1 \notin Discovers(s)
    BY <1>1 DEF Discovers
  <2>3. QED
    BY <1>2, <2>1, <2>2, DiscoversFinite, FS_AddElement
<1>3. CASE m.op # "discover"
  <2>1. Discovers(Append(s, m)) = Discovers(s)
    BY <1>1, <1>3 DEF Discovers
  <2>2. QED
    BY <1>3, <2>1, DiscoversFinite
<1>4. QED
  BY <1>2, <1>3

LEMMA DiscoversTail ==
  ASSUME NEW s \in Seq(Datagram), s # <<>>
  PROVE  Cardinality(Discovers(s)) =
           Cardinality(Discovers(Tail(s))) + (IF Head(s).op = "discover" THEN 1 ELSE 0)
<1>1. /\ Len(s) \in Nat /\ Len(s) >= 1 /\ Head(s) = s[1]
      /\ Tail(s) \in Seq(Datagram) /\ Len(Tail(s)) = Len(s) - 1
      /\ \A i \in 1 .. Len(Tail(s)) : Tail(s)[i] = s[i + 1]
  BY HeadTailProperties, EmptySeq, LenProperties
<1> DEFINE rest == Discovers(s) \ {1}
           f == [i \in Discovers(Tail(s)) |-> i + 1]
<1>2. f \in Bijection(Discovers(Tail(s)), rest)
  <2>1. \A i \in Discovers(Tail(s)) : i \in 1 .. Len(s) - 1 /\ i + 1 \in rest
    BY <1>1 DEF Discovers
  <2>2. f \in [Discovers(Tail(s)) -> rest]
    BY <2>1
  <2>3. \A i, j \in Discovers(Tail(s)) : f[i] = f[j] => i = j
    BY <2>1
  <2>4. \A k \in rest : k - 1 \in Discovers(Tail(s)) /\ f[k - 1] = k
    <3>1. TAKE k \in rest
    <3>2. k \in 2 .. Len(s) /\ s[k].op = "discover"
      BY <1>1 DEF Discovers
    <3>3. k - 1 \in 1 .. Len(Tail(s)) /\ Tail(s)[k - 1] = s[k]
      BY <1>1, <3>2
    <3>4. QED
      BY <3>2, <3>3 DEF Discovers
  <2>5. QED
    BY <2>2, <2>3, <2>4 DEF Bijection, Injection, Surjection, IsInjective
<1>3. Cardinality(rest) = Cardinality(Discovers(Tail(s)))
  <2>1. ExistsBijection(Discovers(Tail(s)), rest)
    BY <1>2 DEF ExistsBijection
  <2>2. IsFiniteSet(Discovers(Tail(s)))
    BY <1>1, DiscoversFinite
  <2>3. QED
    BY <2>1, <2>2, FS_Bijection
<1>4. IsFiniteSet(Discovers(s)) /\ Cardinality(Discovers(s)) \in Nat
  BY DiscoversFinite
<1>5. Cardinality(rest) = IF 1 \in Discovers(s) THEN Cardinality(Discovers(s)) - 1
                                                ELSE Cardinality(Discovers(s))
  BY <1>4, FS_RemoveElement
<1>6. 1 \in Discovers(s) <=> Head(s).op = "discover"
  BY <1>1 DEF Discovers
<1> HIDE DEF rest
<1>7. QED
  BY <1>3, <1>4, <1>5, <1>6

LEMMA WaitingCounts ==
  ASSUME SessionInv
  PROVE  /\ Waiting = Cardinality(Discovers(queue)) + AtHand
         /\ Given \in Nat /\ Cardinality(Discovers(queue)) \in Nat /\ AtHand \in 0 .. 1
<1>1. queue \in Seq(Datagram) /\ IsFiniteSet(offers)
  BY DEF SessionInv, FlightOK, OfferOK
<1>2. DOMAIN queue = 1 .. Len(queue)
  BY <1>1, LenProperties
<1>3. QED
  BY <1>1, <1>2, DiscoversFinite, FS_CardinalityType DEF Waiting, Discovers, AtHand, Given

LEMMA BoundStep ==
  ASSUME SessionInv, SessionInv', OffersBound, [Next]_vars
  PROVE  OffersBound'
<1> USE DEF OffersBound
<1>0. /\ Given \in Nat /\ Cardinality(Discovers(queue)) \in Nat /\ AtHand \in 0 .. 1
      /\ Waiting = Cardinality(Discovers(queue)) + AtHand
      /\ queue \in Seq(Datagram) /\ MaxOffers \in Nat
  BY WaitingCounts, BoundAssumption DEF SessionInv, FlightOK
<1>1. CASE Ingress
  <2>1. PICK m \in Sent : queue' = Append(queue, m)
    BY <1>1 DEF Ingress
  <2>2. UNCHANGED <<buf, offers>>
    BY <1>1 DEF Ingress, thread, net
  <2>3. m \in Datagram /\ (m.op = "discover" => Given + Waiting < MaxOffers)
    <3>1. CASE m = Junk
      BY <3>1 DEF Datagram, Junk
    <3>2. CASE \E x \in Session : m = conf[x] /\ m # None
      BY <3>2 DEF SessionInv, ConfigOK, ConfigOf
    <3>3. CASE \E x \in running : m = DiscoverMsg(x) /\ Given + Waiting < MaxOffers
      BY <3>3 DEF SessionInv, Datagram
    <3>4. QED
      BY <2>1, <3>1, <3>2, <3>3 DEF Sent, Given
  <2>4. Cardinality(Discovers(queue')) =
          Cardinality(Discovers(queue)) + (IF m.op = "discover" THEN 1 ELSE 0)
    BY <1>0, <2>1, <2>3, DiscoversAppend
  <2>5. Given' = Given /\ AtHand' = AtHand
    BY <2>2 DEF Given, AtHand
  <2>6. QED
    BY <1>0, <2>3, <2>4, <2>5
<1>2. CASE Get
  <2>1. Given' = Given
    BY <1>2 DEF Get, net, Given
  <2>2. CASE queue = <<>>
    <3>1. AtHand' = 0 /\ queue' = queue
      BY <1>2, <2>2 DEF Get, AtHand
    <3>2. QED
      BY <1>0, <2>1, <3>1
  <2>3. CASE queue # <<>>
    <3>1. buf' = Head(queue) /\ queue' = Tail(queue)
      BY <1>2, <2>3 DEF Get
    <3>2. AtHand' <= (IF Head(queue).op = "discover" THEN 1 ELSE 0) /\ AtHand' \in 0 .. 1
      BY <3>1 DEF AtHand
    <3>3. Cardinality(Discovers(queue')) \in Nat
      BY WaitingCounts, DiscoversFinite DEF SessionInv, FlightOK
    <3>4. Cardinality(Discovers(queue)) =
            Cardinality(Discovers(queue')) + (IF Head(queue).op = "discover" THEN 1 ELSE 0)
      BY <1>0, <2>3, <3>1, DiscoversTail
    <3>5. QED
      BY <1>0, <2>1, <3>2, <3>3, <3>4
  <2>4. QED
    BY <2>2, <2>3
<1>3. CASE ServeDiscover
  <2>1. /\ UNCHANGED queue /\ buf' = None /\ AtHand = 1
        /\ offers' = offers \cup {[xid |-> buf.xid, token |-> token']}
    BY <1>3 DEF ServeDiscover, Done, AtHand
  <2>2. AtHand' = 0
    BY <2>1 DEF AtHand
  <2>3. IsFiniteSet(offers)
    BY DEF SessionInv, OfferOK
  <2>4. Given' = IF [xid |-> buf.xid, token |-> token'] \in offers THEN Given ELSE Given + 1
    BY <2>1, <2>3, FS_AddElement DEF Given
  <2>5. QED
    BY <1>0, <2>1, <2>2, <2>4
<1>4. CASE Ignore \/ ServeConfig
  <2>1. UNCHANGED <<queue, offers>> /\ buf' = None
    BY <1>4 DEF Ignore, ServeConfig, Done, net
  <2>2. AtHand' = 0 /\ Given' = Given
    BY <2>1 DEF AtHand, Given
  <2>3. QED
    BY <1>0, <2>1, <2>2
<1>5. CASE Reboot
  <2>1. queue' = <<>> /\ buf' = None /\ UNCHANGED offers
    BY <1>5 DEF Reboot, net
  <2>2. AtHand' = 0 /\ Given' = Given /\ Discovers(queue') = {}
    BY <2>1 DEF AtHand, Given, Discovers
  <2>3. QED
    BY <1>0, <2>2, FS_EmptySet
<1>6. CASE Mailbox \/ Jtag \/ (\E x \in Session : Tool(x)) \/ UNCHANGED vars
  <2>1. UNCHANGED <<queue, buf, offers>>
    BY <1>6 DEF Mailbox, Look, Fetch, MailboxApply, WriteStatus, WriteAck, Jtag, Tool,
                ToolDiscover, ToolConfigure, vars, thread, net
  <2>2. QED
    BY <2>1 DEF AtHand, Given
<1>7. QED
  BY <1>1, <1>2, <1>3, <1>4, <1>5, <1>6 DEF Next, Thread

Written == Ip \cup {BadIp}

BoardOK ==
  /\ addr \in Address /\ attached \subseteq Address
  /\ xid \in Session \cup {None} /\ Len(queue) <= QueueMax
  /\ pc \in {"get", "look", "fetch", "apply", "status", "ack", "serve"}
  /\ mbIp \in Written \cup {None} /\ seen \in 0 .. MaxEpoch
  /\ ok \in {"ok", "failed"}
  /\ lastEpoch \in 0 .. MaxEpoch
  /\ pc = "apply" => mbIp \in Written

WorldOK ==
  /\ epoch \in 0 .. MaxEpoch /\ ack \in 0 .. MaxEpoch
  /\ ip \in Written \cup {None} /\ status \in {"ok", "failed"}
  /\ magic \/ pc = "fetch" => ip \in Written
  /\ jtag = "staged" => epoch < MaxEpoch
  /\ acks \subseteq [xid : Session, ip : Address]
  /\ outcome \in {"ok", "failed", "none"}
  /\ faults \in 0 .. MaxFaults /\ reboots \in 0 .. MaxReboots

LEMMA ApplyTypes ==
  ASSUME NEW a \in Ip, Apply(a) \/ ApplyFails(a),
         addr \in Address, attached \subseteq Address, faults \in 0 .. MaxFaults
  PROVE  addr' \in Address /\ attached' \subseteq Address /\ faults' \in 0 .. MaxFaults
<1>1. CASE Apply(a)
  BY <1>1 DEF Apply, Rest, Address
<1>2. CASE ApplyFails(a)
  <2>1. faults' \in 0 .. MaxFaults /\ addr' = addr
    BY <1>2, BoundAssumption DEF ApplyFails
  <2>2. attached' \subseteq Address
    BY <1>2 DEF ApplyFails, RemoveFails, AddFails, MaskFails, RollBack, Rest, Address
  <2>3. QED
    BY <2>1, <2>2
<1>3. QED
  BY <1>1, <1>2

LEMMA TypesStep ==
  ASSUME SessionInv, MailInv, BoardOK, WorldOK, [Next]_vars
  PROVE  BoardOK' /\ WorldOK'
<1> USE DEF BoardOK, WorldOK
<1>0. MaxEpoch \in Nat /\ MaxFaults \in Nat /\ MaxReboots \in Nat /\ QueueMax \in Nat \ {0}
  BY BoundAssumption
<1> USE DEF iface, proto, thread, static, mbox, net, hist
<1>1. CASE Ingress
  <2>1. Len(queue') = Len(queue) + 1 /\ Len(queue) \in Nat
    <3>1. queue \in Seq(Datagram)
      BY DEF SessionInv, FlightOK
    <3>2. QED
      BY <1>1, <3>1, LenProperties DEF Ingress
  <2>2. Len(queue') <= QueueMax
    BY <1>0, <1>1, <2>1 DEF Ingress
  <2>3. QED
    BY <1>1, <2>2 DEF Ingress
<1>2. CASE Get
  <2>1. Len(queue') <= QueueMax
    <3>1. queue \in Seq(Datagram) /\ Len(queue) \in Nat
      BY LenProperties DEF SessionInv, FlightOK
    <3>2. CASE queue = <<>>
      BY <1>2, <3>2 DEF Get
    <3>3. CASE queue # <<>>
      <4>1. Len(queue') = Len(queue) - 1
        BY <1>2, <3>1, <3>3, HeadTailProperties DEF Get
      <4>2. QED
        BY <1>0, <3>1, <4>1
    <3>4. QED
      BY <3>2, <3>3
  <2>2. QED
    BY <1>2, <2>1 DEF Get
<1>3. CASE Look
  BY <1>3 DEF Look
<1>4. CASE Fetch
  BY <1>4 DEF Fetch
<1>5. CASE MailboxApply
  <2>1. /\ pc = "apply" /\ pc' = "status" /\ outcome' = ok' /\ ok' \in {"ok", "failed"}
        /\ UNCHANGED <<proto, queue, mbIp, seen, static, mbox, jtag, acks, reboots>>
    BY <1>5 DEF MailboxApply
  <2>2. addr' \in Address /\ attached' \subseteq Address /\ faults' \in 0 .. MaxFaults
    BY <1>5, <2>1, ApplyTypes DEF MailboxApply, Usable, Written
  <2>3. QED
    BY <2>1, <2>2
<1>6. CASE WriteStatus
  BY <1>6 DEF WriteStatus
<1>7. CASE WriteAck
  BY <1>0, <1>7 DEF WriteAck
<1>8. CASE Ignore
  BY <1>8 DEF Ignore, Done
<1>9. CASE ServeDiscover
  <2>1. buf.xid \in Session
    BY <1>9 DEF ServeDiscover, SessionInv, FlightOK, Datagram, ConfigOf, Junk, DiscoverMsg
  <2>2. QED
    BY <1>9, <2>1 DEF ServeDiscover, Done
<1>10. CASE ServeConfig
  <2>1. buf.xid \in Session /\ buf.ip \in Ip
    BY <1>10, ConfigShape DEF ServeConfig, SessionInv, FlightOK, ConfigOf
  <2>2. /\ pc = "serve" /\ pc' = "get"
        /\ UNCHANGED <<xid, queue, mbIp, seen, ok, static, mbox, jtag, outcome, reboots>>
    BY <1>10 DEF ServeConfig, Done
  <2>3. addr' \in Address /\ attached' \subseteq Address /\ faults' \in 0 .. MaxFaults
    BY <1>10, <2>1, ApplyTypes DEF ServeConfig
  <2>4. acks' \subseteq [xid : Session, ip : Address]
    BY <1>10, <2>1, <2>3 DEF ServeConfig, Acknowledge, Nack
  <2>5. QED
    BY <2>2, <2>3, <2>4
<1>11. CASE Reboot
  <2>1. /\ attached' \in {{Boot}, {}} /\ addr' = Boot /\ xid' = None /\ queue' = <<>>
        /\ pc' = "get" /\ mbIp' = None /\ seen' = 0 /\ ok' = "ok" /\ lastEpoch' = 0
        /\ UNCHANGED <<mbox, jtag, acks, outcome>>
    BY <1>11 DEF Reboot
  <2>2. faults' \in 0 .. MaxFaults /\ reboots' \in 0 .. MaxReboots
    BY <1>0, <1>11 DEF Reboot
  <2>3. QED
    BY <1>0, <2>1, <2>2 DEF Address
<1>12. CASE Jtag
  <2>1. UNCHANGED <<addr, attached, xid, queue, pc, mbIp, seen, ok, lastEpoch, acks, faults, reboots>>
    BY <1>12 DEF Jtag
  <2>2. CASE JtagStage
    BY <2>1, <2>2 DEF JtagStage, Written
  <2>3. CASE JtagBump
    <3>1. epoch < MaxEpoch /\ jtag' = "wait"
      BY <2>3 DEF JtagBump
    <3>2. QED
      BY <1>0, <2>1, <2>3, <3>1 DEF JtagBump
  <2>4. CASE JtagSeesAck \/ JtagReadsStatus
    BY <2>1, <2>4 DEF JtagSeesAck, JtagReadsStatus
  <2>5. CASE JtagClear
    BY <2>1, <2>5 DEF JtagClear
  <2>6. QED
    BY <1>12, <2>2, <2>3, <2>4, <2>5 DEF Jtag
<1>13. CASE \E x \in Session : Tool(x)
  BY <1>13 DEF Tool, ToolDiscover, ToolConfigure
<1>14. CASE UNCHANGED vars
  BY <1>14 DEF vars
<1>15. QED
  BY <1>1, <1>2, <1>3, <1>4, <1>5, <1>6, <1>7, <1>8, <1>9, <1>10, <1>11, <1>12, <1>13, <1>14
  DEF Next, Thread, Mailbox

LEMMA TypesTogether ==
  ASSUME SessionInv, MailInv, AddrInv, OffersBound, BoardOK, WorldOK
  PROVE  TypeOK
<1>1. Given \in Nat /\ Given <= MaxOffers
  BY WaitingCounts, BoundAssumption DEF OffersBound
<1>2. \A n \in Nat : n <= Given => n <= MaxOffers
  BY <1>1, BoundAssumption
<1>3. \A x \in Session : conf[x] # None => conf[x] \in Message
  <2>1. \A x \in Session :
          conf[x] # None => conf[x] \in ConfigOf(x) /\ conf[x].token \in 1 .. MaxOffers
    BY <1>2, BoundAssumption DEF SessionInv, ConfigOK, ConfigOf
  <2>2. QED
    BY <2>1 DEF ConfigOf, Message
<1>4. \A m \in Datagram : Traced(m) => m \in Message
  <2>1. ASSUME NEW m \in Datagram, Traced(m), m.op = "config" PROVE m \in Message
    BY <1>3, <2>1, ConfigShape DEF Traced
  <2>2. ASSUME NEW m \in Datagram, m.op # "config" PROVE m \in Message
    BY <2>2 DEF Datagram, ConfigOf, Message
  <2>3. QED
    BY <2>1, <2>2
<1>5. queue \in Seq(Message)
  <2>1. queue \in Seq(Datagram) /\ \A i \in 1 .. Len(queue) : queue[i] \in Message
    BY <1>4 DEF SessionInv, FlightOK
  <2>2. queue \in [1 .. Len(queue) -> Message] /\ Len(queue) \in Nat
    BY <2>1, LenProperties
  <2>3. QED
    BY <2>2, SeqDef
<1>6. buf \in Message \cup {None}
  BY <1>4 DEF SessionInv, FlightOK
<1>7. token \in 0 .. MaxOffers
  BY <1>1, BoundAssumption DEF SessionInv, OfferOK
<1>8. TypeBoard
  BY <1>5, <1>6, <1>7 DEF TypeBoard, BoardOK, Written, AddrInv, MailInv, EpochOK
<1>9. offers \subseteq [xid : Session, token : 1 .. MaxOffers]
  <2>1. \A o \in offers : o \in [xid : Session, token : Nat \ {0}] /\ o.token \in 1 .. MaxOffers
    BY <1>2, BoundAssumption DEF SessionInv, OfferOK
  <2>2. QED
    BY <2>1
<1>10. conf \in [Session -> Message \cup {None}]
  BY <1>3 DEF SessionInv, ConfigOK
<1>11. applied \in [Session -> Nat] /\ tries \in Nat
  BY DEF SessionInv, SpentOK, MailInv, StatusOK
<1>12. TypeWorld
  BY <1>9, <1>10, <1>11 DEF TypeWorld, WorldOK, Written, SessionInv, MailInv, EpochOK
<1>13. QED
  BY <1>8, <1>12 DEF TypeOK

(* Every variable keeps its range: the queue its length, the board an       *)
(* address that addr_is_usable accepts, and a DISCOVER brings one OFFER.    *)
THEOREM ProvisionTypeCorrect == Spec => []TypeOK
<1>1. Init => OffersBound
  <2> SUFFICES ASSUME Init PROVE OffersBound
    OBVIOUS
  <2>1. Given = 0 /\ Discovers(queue) = {} /\ AtHand = 0
    BY FS_EmptySet DEF Init, Given, Discovers, AtHand
  <2>2. QED
    BY <2>1, FS_EmptySet, BoundAssumption DEF OffersBound
<1>2. Init => BoardOK /\ WorldOK
  <2> SUFFICES ASSUME Init PROVE BoardOK /\ WorldOK
    OBVIOUS
  <2>1. ~magic
    BY Zenon DEF Init
  <2>2. QED
    BY <2>1, BoundAssumption DEF Init, BoardOK, WorldOK, Address
<1>3. SessionInv /\ SessionInv' /\ OffersBound /\ [Next]_vars => OffersBound'
  BY BoundStep
<1>4. SessionInv /\ MailInv /\ BoardOK /\ WorldOK /\ [Next]_vars => BoardOK' /\ WorldOK'
  BY TypesStep
<1>5. SessionInv /\ MailInv /\ AddrInv /\ OffersBound /\ BoardOK /\ WorldOK => TypeOK
  BY TypesTogether
<1>6. QED
  BY <1>1, <1>2, <1>3, <1>4, <1>5, SessionCorrect, MailInvariant, AddrInvariant, PTL DEF Spec

=============================================================================
