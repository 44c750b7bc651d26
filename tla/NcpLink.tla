------------------------------ MODULE NcpLink ------------------------------
(***************************************************************************)
(* The low-level link between the host and the NCP: two ends (NcpLL), each *)
(* with its serial transport, and the line between them.                   *)
(*                                                                         *)
(* A line is a FIFO of frames.  It may lose a frame or damage its header   *)
(* or body, the transport may report a failed transmission or a short      *)
(* read, and the user may have no room for a packet; CONSTANT Faults says  *)
(* which of these can happen, MaxFaults how many times in a behaviour.     *)
(***************************************************************************)
EXTENDS NcpLL, SequencesExt

CONSTANTS
  Host, Soc,    \* the two ends
  MaxPkts,      \* how many packets the user of each end sends
  Faults,       \* the kinds of fault that can happen
  MaxFaults,    \* bound on their number
  MaxEarly      \* bound on wait-for-ACK alarms that go off while the
                \* frame or its answer is still on the way

Peer == {Host, Soc}
Other(p) == IF p = Host THEN Soc ELSE Host

LineFaults == {"LOSS", "BAD_CRC", "BAD_LEN", "BAD_TYPE", "BAD_BODY"}
SendFaults == {"BUSY", "ERROR"}
FaultKinds == LineFaults \cup SendFaults \cup {"SHORT_READ", "NO_PLACE"}

ASSUME LinkConstants == /\ Host # Soc
                        /\ MaxPkts \in [Peer -> Nat]
                        /\ Faults \subseteq FaultKinds
                        /\ MaxFaults \in Nat
                        /\ MaxEarly \in Nat

VARIABLES
  ll,         \* the LL context of each end
  line,       \* frames on their way to each end
  sendDone,   \* the completion scheduled by each transport, "NONE" if none
  awake,      \* the quantum of each end is scheduled
  offering,   \* the user of each end has a packet ready for the LL
  accepted,   \* number of packets taken from the user of each end
  resolved,   \* what became of them, in order: "acked" or "dropped" (NO_ACK)
  delivered,  \* packets passed to the user of each end, in order
  faults,     \* number of faults so far
  early       \* number of early alarms so far

vars == <<ll, line, sendDone, awake, offering, accepted, resolved, delivered, faults, early>>

TypeOK == /\ ll \in [Peer -> LLState]
          /\ line \in [Peer -> Seq(Frame)]
          /\ sendDone \in [Peer -> SendStatus \cup {"NONE"}]
          /\ awake \in [Peer -> BOOLEAN]
          /\ offering \in [Peer -> BOOLEAN]
          /\ accepted \in [Peer -> Nat]
          /\ resolved \in [Peer -> Seq({"acked", "dropped"})]
          /\ delivered \in [Peer -> Seq(Nat)]
          /\ faults \in 0..MaxFaults
          /\ early \in 0..MaxEarly

Init == /\ ll = [p \in Peer |-> LLInit]
        /\ line = [p \in Peer |-> << >>]
        /\ sendDone = [p \in Peer |-> "NONE"]
        /\ awake = [p \in Peer |-> TRUE]      \* zbncp_ll_init_complete
        /\ offering = [p \in Peer |-> FALSE]
        /\ accepted = [p \in Peer |-> 0]
        /\ resolved = [p \in Peer |-> << >>]
        /\ delivered = [p \in Peer |-> << >>]
        /\ faults = 0
        /\ early = 0

----------------------------------------------------------------------------

\* The kinds of fault that can still happen; "NONE" is always possible.
Possible(kinds) == {"NONE"} \cup IF faults < MaxFaults THEN Faults \cap kinds ELSE {}

Count(happened) == faults' = faults + IF happened THEN 1 ELSE 0

\* The frames that reach the other end when f is sent and fault k happens.
Damaged(f, k) ==
  CASE k = "NONE"     -> <<f>>
    [] k \in {"LOSS"} \cup SendFaults -> << >>
    [] k = "BAD_BODY" -> <<[f EXCEPT !.crcOk = FALSE]>>
    [] OTHER          -> <<[f EXCEPT !.hdr = k]>>

\* Nothing is under way between the two ends.
Quiet == \A p \in Peer : /\ line[p] = << >>
                         /\ ll[p].rxState \in {"IDLE", "RECEIVING_HDR", "RESYNC", "ERROR"}
                         /\ ll[p].ackFlags = "NONE"
                         /\ ll[p].ack = NoFrame

AlarmDue(p) == ll[p].waitAck = "RUNNING" /\ (Quiet \/ early < MaxEarly)

Opt(b, o) == IF b THEN <<o>> ELSE << >>

(* One quantum (ncp_ll_quant -> zbncp_ll_poll) of end p: a place for a received
   packet is there or not, the wait-for-ACK time is up or not, and when the LL
   takes the user's packet the next fragment is there at once (more) or not. *)
PollEnd(p, hasPlace, elapsed, more) ==
  LET body == IF offering[p] THEN accepted[p] + 1 ELSE 0
      a == AlarmUpdateTime(ll[p], elapsed)
      t == ProcessTx(a, body)
      takes == Takes(a, body)
      drops == GivesUp(TxAllocPkt(a, body))
      sends == a.txState = "IDLE" /\ t.txState \in {"SENDING_ACK", "SENDING_PKT"}
  IN /\ awake[p] \/ elapsed
     /\ elapsed => AlarmDue(p)
     /\ more => takes /\ accepted[p] + 1 < MaxPkts[p]
     /\ early' = early + IF elapsed /\ ~ Quiet THEN 1 ELSE 0
     /\ ll' = [ll EXCEPT ![p] = Poll(@, body, hasPlace, elapsed)]
     /\ awake' = [awake EXCEPT ![p] = Service(a, body, hasPlace, FALSE)]
     /\ offering' = [offering EXCEPT ![p] = IF takes THEN more ELSE @]
     /\ accepted' = [accepted EXCEPT ![p] = @ + IF takes THEN 1 ELSE 0]
     /\ resolved' = [resolved EXCEPT ![p] = @ \o Opt(drops, "dropped") \o Opt(Releases(t), "acked")]
     /\ delivered' = [delivered EXCEPT ![p] = @ \o Opt(Delivers(t, hasPlace), t.pkt.body)]
     /\ \E k \in IF sends /\ hasPlace THEN Possible(LineFaults \cup SendFaults) ELSE {"NONE"} :
          /\ line' = [line EXCEPT ![Other(p)] = @ \o IF sends THEN Damaged(Outgoing(t), k) ELSE << >>]
          /\ sendDone' = [sendDone EXCEPT ![p] =
                             IF ~ sends THEN @ ELSE IF k \in SendFaults THEN k ELSE "SUCCESS"]
          /\ Count(k # "NONE" \/ ~ hasPlace)

Quantum(p) == \E elapsed, more \in BOOLEAN, k \in Possible({"NO_PLACE"}) :
                PollEnd(p, k = "NONE", elapsed, more)

\* ncp_ll_send_packet: the user stores a packet and signals the quantum.
SendPacket(p) ==
  /\ ~ offering[p] /\ accepted[p] < MaxPkts[p]
  /\ offering' = [offering EXCEPT ![p] = TRUE]
  /\ awake' = [awake EXCEPT ![p] = TRUE]
  /\ UNCHANGED <<ll, line, sendDone, accepted, resolved, delivered, faults, early>>

\* ncp_tr_send_complete_scheduled: the callback zb_osif_serial_send_data scheduled.
SendDone(p) ==
  /\ sendDone[p] # "NONE"
  /\ ll' = [ll EXCEPT ![p] = SendComplete(@, sendDone[p])]
  /\ sendDone' = [sendDone EXCEPT ![p] = "NONE"]
  /\ awake' = [awake EXCEPT ![p] = TRUE]
  /\ UNCHANGED <<line, offering, accepted, resolved, delivered, faults, early>>

\* The transport has a header for the LL: the frame leaves the line.
HeaderDone(p) ==
  /\ ll[p].rxState \in {"RECEIVING_HDR", "RESYNC"}
  /\ line[p] # << >>
  /\ \E k \in Possible({"SHORT_READ"}) :
       /\ ll' = [ll EXCEPT ![p] = RecvComplete(@, Head(line[p]), k = "NONE")]
       /\ Count(k # "NONE")
  /\ line' = [line EXCEPT ![p] = Tail(@)]
  /\ awake' = [awake EXCEPT ![p] = TRUE]
  /\ UNCHANGED <<sendDone, offering, accepted, resolved, delivered, early>>

\* The transport has a body for the LL.
BodyDone(p) ==
  /\ ll[p].rxState = "RECEIVING_BODY"
  /\ \E k \in Possible({"SHORT_READ"}) :
       /\ ll' = [ll EXCEPT ![p] = RecvComplete(@, @.pkt, k = "NONE")]
       /\ Count(k # "NONE")
  /\ awake' = [awake EXCEPT ![p] = TRUE]
  /\ UNCHANGED <<line, sendDone, offering, accepted, resolved, delivered, early>>

Next == \E p \in Peer : SendPacket(p) \/ Quantum(p) \/ SendDone(p) \/ HeaderDone(p) \/ BodyDone(p)

Spec == Init /\ [][Next]_vars

(* Fairness: the scheduler runs the quanta scheduled, the clock runs, the user
   goes on sending and the driver completes what it was asked for.  The first
   two are weak fairness, written out so that TLC need not evaluate ENABLED: a
   quantum that is due always changes the state. *)
Fairness ==
  \A p \in Peer :
    /\ []<>(~ awake[p]) \/ []<><<\E more \in BOOLEAN : PollEnd(p, TRUE, FALSE, more)>>_vars
    /\ []<>(~ AlarmDue(p)) \/ []<><<\E more \in BOOLEAN : PollEnd(p, TRUE, TRUE, more)>>_vars
    /\ WF_vars(SendPacket(p))
    /\ WF_vars(SendDone(p))
    /\ WF_vars(HeaderDone(p))
    /\ WF_vars(BodyDone(p))

FairSpec == Spec /\ Fairness

----------------------------------------------------------------------------
(* Properties. *)

\* A packet queued behind the head has never been sent: the link is
\* stop-and-wait although the FIFO holds TX_FIFO_SIZE packets
\* (zbncp_ll_tx_start_sending looks at the head only).
OnlyHeadIsSent == \A p \in Peer : \A i \in 2..Len(ll[p].fifo) : ~ ll[p].fifo[i].sent

\* A packet that was sent and that nobody is about to look at again has its
\* wait-for-ACK alarm running (pkt_was_sent, tx.state and alarm_wait_ack agree),
\* so that an answer that never comes cannot stall the queue.
SentHasAlarm ==
  \A p \in Peer : LET s == ll[p] IN
    (/\ s.fifo # << >> /\ Head(s.fifo).sent
     /\ s.txState \in {"IDLE", "SENDING_ACK", "ACK_SENT"}
     /\ s.attempts < TX_ATTEMPTS)
       => s.waitAck = "RUNNING"

\* The alarm runs only for the packet at the head that waits for its answer:
\* it can never count a miss against the packet behind it.
AlarmIsForHead ==
  \A p \in Peer : LET s == ll[p] IN
    s.waitAck # "INFINITE" =>
      /\ s.waitAck = "RUNNING" /\ s.fifo # << >> /\ Head(s.fifo).sent
      /\ s.txState \in {"IDLE", "SENDING_ACK", "ACK_SENT"}

\* No wake-up is lost: the quantum of an end that has something to do is
\* scheduled (zbncp_ll_callme), and a packet of the user that the FIFO has room
\* for is left waiting only while a completion or the wait-for-ACK alarm is due.
NoLostWakeup ==
  \A p \in Peer : ~ awake[p] =>
    /\ Poll(ll[p], 0, TRUE, FALSE) = ll[p]
    /\ offering[p] /\ Len(ll[p].fifo) < TX_FIFO_SIZE =>
         sendDone[p] # "NONE" \/ ll[p].waitAck = "RUNNING"

\* What each direction of the link promises.
HostToSoc == INSTANCE PacketTransfer WITH
  Window <- TX_FIFO_SIZE, offered <- accepted[Host], resolved <- resolved[Host], got <- delivered[Soc]
SocToHost == INSTANCE PacketTransfer WITH
  Window <- TX_FIFO_SIZE, offered <- accepted[Soc], resolved <- resolved[Soc], got <- delivered[Host]

\* Both directions of the link implement it, as long as the frame numbers of
\* packets given up do not wrap (AckedUnlessWrapped).
ImplementsTransfer == HostToSoc!Spec /\ SocToHost!Spec

\* Every packet the users want to send is resolved and both queues drain,
\* whatever is lost or late; and fewer faults than the retries of a packet lose
\* nothing: each packet reaches the other user.
AllDelivered ==
  \A p \in Peer :
    <>[] (/\ Len(resolved[p]) = MaxPkts[p]
          /\ faults + early < WAIT_ACK_RETRY =>
               \A n \in 1..MaxPkts[p] : Contains(delivered[Other(p)], n))

\* Two packets in a row were given up before packet n: with frame numbers 1, 2,
\* 3, 1, ... packet n may then carry the number of the last one handled.
GaveUpTwoBefore(p, n) ==
  \E m \in 1..n - 2 : resolved[p][m] = "dropped" /\ resolved[p][m + 1] = "dropped"

\* A packet reported acknowledged was handed to the other user, unless two
\* packets in a row were given up (NO_ACK) before it: duplicate detection by a
\* two-bit number (zbncp_ll_rx_complete_receiving) is sound that far.
AckedUnlessWrapped ==
  \A p \in Peer : \A n \in 1..Len(resolved[p]) :
    resolved[p][n] = "acked" /\ ~ GaveUpTwoBefore(p, n) => Contains(delivered[Other(p)], n)

\* No packet but the boot packet reaches a user twice, and none overtakes
\* another, however often frames are repeated and packets given up.
NothingTwice ==
  \A p \in Peer : \A i \in 1..Len(delivered[p]) - 1 :
    \/ delivered[p][i] < delivered[p][i + 1]
    \/ delivered[p][i] = 1 /\ delivered[p][i + 1] = 1

\* A packet reported acknowledged was handed to the other user.  ("frame number
\* for last handled and acknowledged packet. Used for checking duplicates",
\* zbncp_ll_impl.h:109; "ask other side to retransmit the packet",
\* zbncp_ll_impl.c:654.)
AckedWasDelivered ==
  \A p \in Peer : \A n \in 1..Len(resolved[p]) :
    resolved[p][n] = "acked" => Contains(delivered[Other(p)], n)

\* An end recovers from a transmission that its transport refuses or fails: its
\* packets do not stay queued for ever ("Retransmit last packet or send pending
\* ACK", zbncp_ll_impl.c:226; "LL should retransmit packet later",
\* zbncp_tr.h:56; alarm_reset: "resetting the RX/TX error state",
\* zbncp_ll_impl.h:139).
FailedSendIsRecovered ==
  \A p \in Peer : (ll[p].fifo # << >>) ~> (ll[p].fifo = << >>)
=============================================================================
