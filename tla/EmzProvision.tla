---------------------------- MODULE EmzProvision ----------------------------
(***************************************************************************)
(* How a board gets its IPv4 address (app/src/provision.c): the board's    *)
(* provisioning thread serves DISCOVER and CONFIG datagrams from a queue   *)
(* that the receive interrupt fills, and a mailbox in DDR that a host      *)
(* writes over JTAG.  The other end is scripts/emacz_config.py, one run of *)
(* the tool per session, and a JTAG host that follows provision.h.         *)
(*                                                                         *)
(* A datagram sent is sent for good: it may arrive late, twice (the tool   *)
(* broadcasts on every adapter) or never, and so may the answers.  The     *)
(* thread is interrupted anywhere by the queue and meets the JTAG host at  *)
(* every word of the mailbox.  A reboot clears everything but the mailbox. *)
(* An address stands for address, prefix and gateway; NACKs, which the     *)
(* tool ignores, are left out.                                             *)
(***************************************************************************)
EXTENDS Naturals, Sequences, FiniteSets

CONSTANTS
  Session,     \* runs of the configuration tool: their transaction ids
  Ip,          \* addresses addr_is_usable accepts
  BadIp,       \* one that it refuses
  Boot,        \* the link-local bootstrap address
  None,        \* no message, no request
  QueueMax,    \* the length of prov_rx_queue (8)
  MaxOffers,   \* bound: DISCOVERs that reach the board
  MaxEpoch,    \* bound: requests the JTAG host makes
  MaxFaults,   \* bound: configurations that fail inside the network stack
  MaxReboots   \* bound

ASSUME NamesAssumption ==
  /\ Boot \notin Ip /\ BadIp \notin Ip \cup {Boot}
  /\ None \notin Session
ASSUME BoundAssumption ==
  /\ QueueMax \in Nat \ {0} /\ MaxOffers \in Nat /\ MaxEpoch \in Nat
  /\ MaxFaults \in Nat /\ MaxReboots \in Nat

VARIABLES
  addr, installed,   \* prov_addr, prov_addr_installed
  attached,          \* external: the addresses the interface really has
  xid, token,        \* prov_xid, prov_token (0: none)
  queue,             \* prov_rx_queue
  pc, buf, mbIp, seen, ok,         \* the thread, and its locals
  armed, lastEpoch,                \* the statics of poll_jtag_mailbox
  magic, epoch, ip, ack, status,   \* the mailbox's words
  jtag,              \* where the JTAG host is
  running, conf,     \* sessions that sent a DISCOVER, and the CONFIG they sent
  offers, acks,      \* the OFFERs and ACKs on the wire
  applied,           \* history: configurations applied, per session
  outcome, tries,    \* history: of the mailbox's present request
  leak,              \* history: a rollback could not remove an address
  faults, reboots

iface  == <<addr, installed, attached, leak, faults>>
proto  == <<xid, token>>
thread == <<pc, buf, mbIp, seen, ok>>
static == <<armed, lastEpoch>>
mbox   == <<magic, epoch, ip, ack, status>>
net    == <<running, conf, offers, acks>>
hist   == <<applied, outcome, tries>>
vars   == <<iface, proto, queue, thread, static, mbox, jtag, net, hist, reboots>>

(* Slip... definitions are deliberate errors; no specification uses them.   *)
SlipUsable(a) == TRUE

Usable(a) == a # BadIp

----------------------------------------------------------------------------
(* apply_config: remove the old address, add the new one, set its netmask,  *)
(* and put the old one back if a step fails.  Adding an address that is     *)
(* attached succeeds; any other call into the stack may fail.               *)

Rest == attached \ (IF installed THEN {addr} ELSE {})

SlipKeepInstalled(left, back) ==
  /\ installed' = (installed \/ back)
  /\ attached' = left \cup (IF back THEN {addr} ELSE {})

RollBack(left, back) ==
  /\ installed' = (back \/ addr \in left)
  /\ attached' = left \cup (IF back THEN {addr} ELSE {})

Apply(a) ==
  /\ attached' = Rest \cup {a}
  /\ addr' = a /\ installed' = TRUE
  /\ UNCHANGED <<leak, faults>>

RemoveFails == installed /\ UNCHANGED <<attached, installed, leak>>

AddFails(a) ==
  /\ a \notin Rest
  /\ \E back \in BOOLEAN : RollBack(Rest, back)
  /\ UNCHANGED leak

MaskFails(a) ==
  \E removed, back \in BOOLEAN :
    /\ RollBack(IF removed THEN Rest \ {a} ELSE Rest \cup {a}, back)
    /\ leak' = (leak \/ ~removed)

ApplyFails(a) ==
  /\ faults < MaxFaults
  /\ faults' = faults + 1
  /\ RemoveFails \/ AddFails(a) \/ MaskFails(a)
  /\ UNCHANGED addr

----------------------------------------------------------------------------
(* emacz_provision_ingress, in the receive interrupt: a full queue drops    *)
(* the datagram.  Junk stands for one that decode_message refuses.          *)

Junk == [op |-> "junk"]
DiscoverMsg(x) == [op |-> "discover", xid |-> x]

Waiting == Cardinality({i \in DOMAIN queue : queue[i].op = "discover"})
             + (IF buf # None /\ buf.op = "discover" THEN 1 ELSE 0)

Sent ==
  {Junk}
    \cup {DiscoverMsg(x) : x \in
            IF Cardinality(offers) + Waiting < MaxOffers THEN running ELSE {}}
    \cup ({conf[x] : x \in Session} \ {None})

Ingress ==
  /\ Len(queue) < QueueMax
  /\ \E m \in Sent : queue' = Append(queue, m)
  /\ UNCHANGED <<iface, proto, thread, static, mbox, jtag, net, hist, reboots>>

----------------------------------------------------------------------------
(* provision_thread_fn: take a datagram or time out, look at the mailbox,   *)
(* then serve the datagram.                                                 *)

Get ==
  /\ pc = "get"
  /\ buf' = IF queue = <<>> THEN None ELSE Head(queue)
  /\ queue' = IF queue = <<>> THEN queue ELSE Tail(queue)
  /\ pc' = "look"
  /\ UNCHANGED <<iface, proto, mbIp, seen, ok, static, mbox, jtag, net, hist, reboots>>

(* poll_jtag_mailbox.  Which epoch was served before is known from the      *)
(* static once armed, and from the mailbox itself after a boot.             *)
SlipAlwaysPending == armed /\ epoch = lastEpoch

Serviced == IF armed THEN epoch = lastEpoch ELSE ack = epoch

SlipLookWhenIdle ==
  /\ pc = "look"
  /\ armed' = magic
  /\ lastEpoch' = IF magic /\ Serviced THEN epoch ELSE lastEpoch
  /\ IF buf = None /\ magic /\ ~Serviced THEN pc' = "fetch" /\ seen' = epoch
                                         ELSE pc' = "serve" /\ UNCHANGED seen
  /\ UNCHANGED <<iface, proto, queue, buf, mbIp, ok, mbox, jtag, net, hist, reboots>>

Look ==
  /\ pc = "look"
  /\ armed' = magic
  /\ lastEpoch' = IF magic /\ Serviced THEN epoch ELSE lastEpoch
  /\ IF magic /\ ~Serviced THEN pc' = "fetch" /\ seen' = epoch
                           ELSE pc' = "serve" /\ UNCHANGED seen
  /\ UNCHANGED <<iface, proto, queue, buf, mbIp, ok, mbox, jtag, net, hist, reboots>>

Fetch ==
  /\ pc = "fetch"
  /\ mbIp' = ip
  /\ pc' = "apply"
  /\ UNCHANGED <<iface, proto, queue, buf, seen, ok, static, mbox, jtag, net, hist, reboots>>

MailboxApply ==
  /\ pc = "apply"
  /\ \/ Usable(mbIp) /\ Apply(mbIp) /\ ok' = "ok"
     \/ Usable(mbIp) /\ ApplyFails(mbIp) /\ ok' = "failed"
     \/ ~Usable(mbIp) /\ ok' = "failed" /\ UNCHANGED iface
  /\ outcome' = ok' /\ tries' = tries + 1
  /\ pc' = "status"
  /\ UNCHANGED <<proto, queue, buf, mbIp, seen, static, mbox, jtag, net, applied, reboots>>

WriteStatus ==
  /\ pc = "status"
  /\ status' = ok
  /\ pc' = "ack"
  /\ UNCHANGED <<iface, proto, queue, buf, mbIp, seen, ok, static,
                 magic, epoch, ip, ack, jtag, net, hist, reboots>>

(* The mailbox locals are dead from here on.                                *)
WriteAck ==
  /\ pc = "ack"
  /\ ack' = seen /\ lastEpoch' = seen
  /\ mbIp' = None /\ seen' = 0 /\ ok' = "ok"
  /\ pc' = "serve"
  /\ UNCHANGED <<iface, proto, queue, buf, armed, magic, epoch, ip, status,
                 jtag, net, hist, reboots>>

Mailbox == Look \/ Fetch \/ MailboxApply \/ WriteStatus \/ WriteAck

Done == pc' = "get" /\ buf' = None

Ignore ==
  /\ pc = "serve"
  /\ buf = None \/ buf = Junk
  /\ Done
  /\ UNCHANGED <<iface, proto, queue, mbIp, seen, ok, static, mbox, jtag, net, hist, reboots>>

(* A new token for every DISCOVER: the cycle counter makes it one that no   *)
(* earlier OFFER carried.                                                   *)
ServeDiscover ==
  /\ pc = "serve" /\ buf # None /\ buf.op = "discover"
  /\ xid' = buf.xid
  /\ token' = Cardinality(offers) + 1
  /\ offers' = offers \cup {[xid |-> buf.xid, token |-> token']}
  /\ Done
  /\ UNCHANGED <<iface, queue, mbIp, seen, ok, static, mbox, jtag, running, conf, acks,
                 hist, reboots>>

Accepted == buf.xid = xid /\ buf.token # 0 /\ buf.token = token

SlipKeepToken(x) ==
  /\ acks' = acks \cup {[xid |-> x, ip |-> addr']}
  /\ applied' = [applied EXCEPT ![x] = @ + 1]
  /\ UNCHANGED token

(* Spend the token, then answer with the address the board now has.         *)
Acknowledge(x) ==
  /\ token' = 0
  /\ acks' = acks \cup {[xid |-> x, ip |-> addr']}
  /\ applied' = [applied EXCEPT ![x] = @ + 1]

SlipAckAnyway ==
  /\ token' = 0
  /\ acks' = acks \cup {[xid |-> buf.xid, ip |-> addr']}
  /\ UNCHANGED applied

Nack == UNCHANGED <<token, acks, applied>>

ServeConfig ==
  /\ pc = "serve" /\ buf # None /\ buf.op = "config"
  /\ \/ Accepted /\ Usable(buf.ip) /\ Apply(buf.ip) /\ Acknowledge(buf.xid)
     \/ Accepted /\ Usable(buf.ip) /\ ApplyFails(buf.ip) /\ Nack
     \/ ~(Accepted /\ Usable(buf.ip)) /\ Nack /\ UNCHANGED iface
  /\ Done
  /\ UNCHANGED <<xid, queue, mbIp, seen, ok, static, mbox, jtag, running, conf, offers,
                 outcome, tries, reboots>>

Thread == Get \/ Mailbox \/ Ignore \/ ServeDiscover \/ ServeConfig

----------------------------------------------------------------------------
(* A reset: the board's memory is new, the mailbox is not.                  *)
(* emacz_provision_start attaches the bootstrap address, or fails to.       *)
Reboot ==
  /\ reboots < MaxReboots
  /\ reboots' = reboots + 1
  /\ \/ attached' = {Boot} /\ installed' = TRUE /\ UNCHANGED faults
     \/ /\ faults < MaxFaults /\ faults' = faults + 1
        /\ attached' = {} /\ installed' = FALSE
  /\ addr' = Boot /\ leak' = FALSE
  /\ xid' = None /\ token' = 0 /\ queue' = <<>>
  /\ pc' = "get" /\ buf' = None /\ mbIp' = None /\ seen' = 0 /\ ok' = "ok"
  /\ armed' = FALSE /\ lastEpoch' = 0 /\ tries' = 0
  /\ UNCHANGED <<mbox, jtag, net, applied, outcome>>

----------------------------------------------------------------------------
(* scripts/emacz_config.py configure: broadcast a DISCOVER, take one of the *)
(* OFFERs that came back, send a CONFIG, wait for its ACK.  A run that times *)
(* out takes no further step; the retry is another session.                 *)

ToolDiscover(x) ==
  /\ x \notin running
  /\ running' = running \cup {x}
  /\ UNCHANGED <<conf, offers, acks>>

ToolConfigure(x) ==
  /\ conf[x] = None
  /\ \E o \in offers, a \in Ip :
       /\ o.xid = x
       /\ conf' = [conf EXCEPT ![x] =
                     [op |-> "config", xid |-> x, token |-> o.token, ip |-> a]]
  /\ UNCHANGED <<running, offers, acks>>

Tool(x) ==
  /\ ToolDiscover(x) \/ ToolConfigure(x)
  /\ UNCHANGED <<iface, proto, queue, thread, static, mbox, jtag, hist, reboots>>

(* The JTAG host writes the header, then the epoch, and polls ack_epoch; a  *)
(* fresh host may clear magic first.                                        *)
JtagStage ==
  /\ jtag = "idle" /\ epoch < MaxEpoch
  /\ magic' = TRUE
  /\ ip' \in Ip \cup {BadIp}
  /\ jtag' = "staged"
  /\ UNCHANGED <<epoch, ack, status, outcome, tries>>

JtagBump ==
  /\ jtag = "staged"
  /\ epoch' = epoch + 1
  /\ outcome' = "none" /\ tries' = 0
  /\ jtag' = "wait"
  /\ UNCHANGED <<magic, ip, ack, status>>

JtagSeesAck ==
  /\ jtag = "wait" /\ ack = epoch
  /\ jtag' = "check"
  /\ UNCHANGED <<mbox, outcome, tries>>

JtagReadsStatus ==
  /\ jtag = "check"
  /\ jtag' = "idle"
  /\ UNCHANGED <<mbox, outcome, tries>>

JtagClear ==
  /\ jtag = "idle"
  /\ magic' = FALSE
  /\ UNCHANGED <<epoch, ip, ack, status, jtag, outcome, tries>>

Jtag ==
  /\ JtagStage \/ JtagBump \/ JtagSeesAck \/ JtagReadsStatus \/ JtagClear
  /\ UNCHANGED <<iface, proto, queue, thread, static, net, applied, reboots>>

----------------------------------------------------------------------------
(* The first boot, with a mailbox of zeros.                                 *)
Init ==
  /\ \/ attached = {Boot} /\ installed = TRUE
     \/ attached = {} /\ installed = FALSE
  /\ addr = Boot /\ leak = FALSE /\ faults = 0
  /\ xid = None /\ token = 0 /\ queue = <<>>
  /\ pc = "get" /\ buf = None /\ mbIp = None /\ seen = 0 /\ ok = "ok"
  /\ armed = FALSE /\ lastEpoch = 0
  /\ magic = FALSE /\ epoch = 0 /\ ip = None /\ ack = 0 /\ status = "ok"
  /\ jtag = "idle"
  /\ running = {} /\ conf = [x \in Session |-> None]
  /\ offers = {} /\ acks = {}
  /\ applied = [x \in Session |-> 0]
  /\ outcome = "none" /\ tries = 0 /\ reboots = 0

Next == Ingress \/ Thread \/ Reboot \/ Jtag \/ \E x \in Session : Tool(x)

Spec == Init /\ [][Next]_vars

(* The thread runs; nothing is assumed of the hosts and the network.        *)
FairSpec == Spec /\ WF_vars(Thread)

----------------------------------------------------------------------------
(* Properties                                                               *)

Address == Ip \cup {Boot}

Message ==
  {Junk} \cup {DiscoverMsg(x) : x \in Session}
    \cup [op : {"config"}, xid : Session, token : 1 .. MaxOffers, ip : Ip]

TypeBoard ==
  /\ addr \in Address /\ attached \subseteq Address
  /\ installed \in BOOLEAN /\ leak \in BOOLEAN
  /\ xid \in Session \cup {None} /\ token \in 0 .. MaxOffers
  /\ queue \in Seq(Message) /\ Len(queue) <= QueueMax
  /\ pc \in {"get", "look", "fetch", "apply", "status", "ack", "serve"}
  /\ buf \in Message \cup {None}
  /\ mbIp \in Ip \cup {BadIp, None} /\ seen \in 0 .. MaxEpoch
  /\ ok \in {"ok", "failed"}
  /\ armed \in BOOLEAN /\ lastEpoch \in 0 .. MaxEpoch

TypeWorld ==
  /\ magic \in BOOLEAN /\ epoch \in 0 .. MaxEpoch /\ ack \in 0 .. MaxEpoch
  /\ ip \in Ip \cup {BadIp, None} /\ status \in {"ok", "failed"}
  /\ jtag \in {"idle", "staged", "wait", "check"}
  /\ running \subseteq Session
  /\ conf \in [Session -> Message \cup {None}]
  /\ offers \subseteq [xid : Session, token : 1 .. MaxOffers]
  /\ acks \subseteq [xid : Session, ip : Address]
  /\ applied \in [Session -> Nat]
  /\ outcome \in {"ok", "failed", "none"} /\ tries \in Nat
  /\ faults \in 0 .. MaxFaults /\ reboots \in 0 .. MaxReboots

(* The types; in particular the board never has, or reports, an address     *)
(* that addr_is_usable refuses.                                             *)
TypeOK == TypeBoard /\ TypeWorld

(* prov_addr_installed says truly whether the reported address is on the    *)
(* interface, whatever failed in a configuration and its rollback; and      *)
(* unless a rollback could not remove one, there is no other address.       *)
AddressKnown ==
  /\ installed <=> addr \in attached
  /\ leak \/ attached \subseteq {addr}

(* A session configures the board at most once: a CONFIG that comes twice,  *)
(* late, or after a reboot cannot bring back an address that another        *)
(* session or the mailbox has replaced since.                               *)
AppliedOnce == \A x \in Session : applied[x] <= 1

(* An ACK is for a CONFIG the board applied, and names its address: the     *)
(* tool never prints "configured" for an address the board did not take.    *)
AckIsTrue ==
  \A m \in acks :
    /\ applied[m.xid] > 0
    /\ conf[m.xid] # None /\ conf[m.xid].ip = m.ip

(* When the JTAG host sees its epoch acknowledged, the status it reads next *)
(* is that of this very request, which was attempted (the comment on the    *)
(* first poll after boot), and not twice in one boot.                       *)
MailboxHonest ==
  /\ jtag = "check" => status = outcome
  /\ tries <= 1

(* A mailbox request is answered, however much traffic keeps the queue full *)
(* (the comment in provision_thread_fn).                                    *)
MailboxServed == (jtag = "wait") ~> (ack = epoch)

=============================================================================
