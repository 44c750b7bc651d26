----------------------------- MODULE NcpHostHL -----------------------------
(***************************************************************************)
(* The host's HL protocol at work (NcpHL): tasks and response handlers     *)
(* issue blocking and nonblocking requests, the link carries them to the   *)
(* SoC in order or gives them up (PacketTransfer), and the SoC answers     *)
(* each blocking request once.  A blocking request holds back the blocking *)
(* requests behind it until it is answered; a nonblocking one does not,    *)
(* and what the SoC answers to it does not concern the queues.             *)
(***************************************************************************)
EXTENDS NcpHL, SequencesExt

CONSTANTS
  MaxReq,     \* bound on the number of requests
  MaxLost     \* bound on the packets the link gives up

ASSUME HostHLConstants == MaxReq \in Nat /\ MaxLost \in Nat

VARIABLES
  hl,        \* the HL context
  toSoc,     \* packets the LL has taken, on their way to the SoC
  atSoc,     \* blocking requests the SoC has not answered yet
  toHost,    \* answers to blocking requests, on their way to the host
  sent,      \* packets in the order they were given to the LL
  issued,    \* the blocking flag of each request, in the order of issue
  lost       \* number of packets the link gave up

vars == <<hl, toSoc, atSoc, toHost, sent, issued, lost>>

TypeOK == /\ hl \in HLState
          /\ toSoc \in Seq(Packet) /\ atSoc \in Seq(Packet) /\ toHost \in Seq(Packet)
          /\ sent \in Seq(Packet)
          /\ issued \in Seq(BOOLEAN)
          /\ lost \in 0..MaxLost

Init == /\ hl = HLInit
        /\ toSoc = << >> /\ atSoc = << >> /\ toHost = << >>
        /\ sent = << >> /\ issued = << >>
        /\ lost = 0

----------------------------------------------------------------------------

CanIssue(h) == Len(issued) < MaxReq /\ FreeBufs(h) # {}

Opt(b, o) == IF b THEN <<o>> ELSE << >>

\* The packet that got into the divider between h and u.
NewPkt(h, u) == Opt(u.div # NoPkt /\ u.div # h.div, u.div)

\* A task issues a request (ncp_host_get_buf_for_* and ncp_host_hl_send_packet).
Issue(blocking) ==
  /\ CanIssue(hl)
  /\ hl' = Request(hl, blocking, Len(issued) + 1)
  /\ issued' = Append(issued, blocking)
  /\ sent' = sent \o NewPkt(hl, hl')
  /\ UNCHANGED <<toSoc, atSoc, toHost, lost>>

(* ncp_ll_quant.  The LL takes the last fragment of the packet or not; a packet
   is received or not; the handler of a response or an indication may issue the
   next blocking request itself, as soc_read_nvram and
   ncp_host_handle_nwk_joined_indication do. *)
Quantum(takes, rx, follow) ==
  LET r == IF rx = "RESPONSE" THEN MarkFinished(hl) ELSE hl
      f == IF follow THEN Request(r, TRUE, Len(issued) + 1) ELSE r
  IN /\ takes => hl.div # NoPkt
     /\ rx = "RESPONSE" => toHost # << >>
     /\ follow => rx # "NOTHING" /\ CanIssue(r)
     /\ hl' = EndOfQuantum(f, takes)
     /\ toHost' = IF rx = "RESPONSE" THEN Tail(toHost) ELSE toHost
     /\ issued' = issued \o Opt(follow, TRUE)
     /\ toSoc' = toSoc \o Opt(takes, hl.div)
     /\ sent' = sent \o NewPkt(hl, hl')
     /\ UNCHANGED <<atSoc, lost>>

\* The link gives up the packet at its head (NO_ACK); nobody tells the HL.
GiveUp ==
  /\ toSoc # << >> /\ lost < MaxLost
  /\ toSoc' = Tail(toSoc)
  /\ lost' = lost + 1
  /\ UNCHANGED <<hl, atSoc, toHost, sent, issued>>

SocReceive ==
  /\ toSoc # << >>
  /\ toSoc' = Tail(toSoc)
  /\ atSoc' = atSoc \o Opt(Head(toSoc).blocking, Head(toSoc))
  /\ UNCHANGED <<hl, toHost, sent, issued, lost>>

SocAnswer ==
  /\ atSoc # << >>
  /\ toHost' = Append(toHost, Head(atSoc))
  /\ atSoc' = Tail(atSoc)
  /\ UNCHANGED <<hl, toSoc, sent, issued, lost>>

Receive == {"NOTHING", "RESPONSE", "INDICATION"}

Next == \/ \E blocking \in BOOLEAN : Issue(blocking)
        \/ \E takes, follow \in BOOLEAN, rx \in Receive : Quantum(takes, rx, follow)
        \/ GiveUp
        \/ SocReceive
        \/ SocAnswer

Spec == Init /\ [][Next]_vars

\* The LL goes on taking packets and passing on what it receives (the link's
\* AllDelivered), and the SoC handles and answers what reaches it.
Fairness == /\ WF_vars(\E rx \in Receive, follow \in BOOLEAN : Quantum(TRUE, rx, follow))
            /\ WF_vars(\E takes, follow \in BOOLEAN : Quantum(takes, "RESPONSE", follow))
            /\ WF_vars(SocReceive)
            /\ WF_vars(SocAnswer)

FairSpec == Spec /\ Fairness

----------------------------------------------------------------------------
(* Properties. *)

\* The HL gives the LL a packet only when the divider is empty, so neither
\* ZB_ASSERT(ret == RET_OK) (ncp_host_hl_proto.c:213, 555) ever fails; and
\* tx_is_active is cleared only while the divider is empty.
NeverBusy == ~ hl.aborted /\ (~ hl.active => hl.div = NoPkt)

InQueue(b) == Contains(hl.bq, b) \/ Contains(hl.nq, b)

\* Every buffer that is not free is in exactly one queue, once; only the head of
\* the blocking queue can be waiting for its response.
BuffersAccounted ==
  /\ \A b \in Buf : hl.pool[b].status # "FREE" <=> InQueue(b)
  /\ IsInjective(hl.bq \o hl.nq)
  /\ \A b \in Buf : /\ hl.pool[b].status \in {"FREE", "WAIT_SENDING", "WAIT_RESPONSE"}
                    /\ hl.pool[b].status = "WAIT_RESPONSE" => hl.bq # << >> /\ b = Head(hl.bq)

\* Requests wait in a queue only while a packet is being sent or the blocking
\* request at the head has no answer yet: no wake-up of the queues is missed.
NoIdleWait ==
  ~ hl.active /\ hl.bq \o hl.nq # << >> =>
    hl.bq # << >> /\ hl.pool[Head(hl.bq)].status = "WAIT_RESPONSE"

\* The packets between the divider and the host's handler, the oldest first.
UnderWay == toHost \o atSoc \o toSoc \o Opt(hl.div # NoPkt, hl.div)

\* At most one blocking request is under way, and it is the one at the head of
\* the blocking queue: the answer that comes next finishes the right request
\* although the handlers do not compare TSNs.
OneOutstanding ==
  /\ \A i, j \in DOMAIN UnderWay : UnderWay[i].blocking /\ UnderWay[j].blocking => i = j
  /\ \A i \in DOMAIN UnderWay :
       LET p == UnderWay[i]
       IN  p.blocking => /\ hl.bq # << >>
                         /\ hl.pool[Head(hl.bq)] = [status |-> "WAIT_RESPONSE", tsn |-> p.tsn, id |-> p.id]

\* Blocking requests are sent in the order they were issued, each once, and none
\* is left out, however the TSNs wrap.
BlockingInOrder ==
  LET Out == {i \in DOMAIN sent : sent[i].blocking}
  IN  /\ \A i \in Out : sent[i].id \in DOMAIN issued /\ issued[sent[i].id]
      /\ \A i, j \in Out : i < j => sent[i].id < sent[j].id
      /\ \A i \in Out, k \in DOMAIN issued :
           issued[k] /\ k < sent[i].id => \E j \in Out : sent[j].id = k

\* Every request is sent and its buffer freed, unless a packet is lost: nothing
\* but a lost packet blocks the queues for ever.
AllServed == <>[](lost > 0 \/ \A b \in Buf : hl.pool[b].status = "FREE")
=============================================================================
