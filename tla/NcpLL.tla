------------------------------- MODULE NcpLL -------------------------------
(***************************************************************************)
(* One end of the NCP low-level (LL) link: the state kept in               *)
(* zbncp_ll_proto_t and the functions of zbncp_ll_impl.c, as operators on  *)
(* that state.  Host and NCP run the same code; NcpLink puts two ends and  *)
(* a serial line together.                                                 *)
(*                                                                         *)
(* Abstracted: bytes.  A frame is a record; its header is intact or broken *)
(* in one of the ways zbncp_ll_rx_validate_header() tells apart, its body  *)
(* is a packet number (0: no body, a pure ACK/NACK) and a CRC verdict.     *)
(***************************************************************************)
EXTENDS Integers, Sequences

CONSTANTS
  TX_FIFO_SIZE,    \* ZBNCP_LL_TX_FIFO_SIZE
  WAIT_ACK_RETRY,  \* ZBNCP_LL_WAIT_ACK_RETRY (finite)
  TX_ATTEMPTS      \* ZBNCP_LL_TX_ATTEMPTS (finite)

ASSUME LLConstants == /\ TX_FIFO_SIZE \in Nat \ {0}
                      /\ WAIT_ACK_RETRY \in Nat \ {0}
                      /\ TX_ATTEMPTS \in Nat \ {0}

NUM_BOOT    == 0   \* frame number of the first frame after a boot
NUM_RX_INIT == 4   \* matches no frame number
FrameNo     == 0..3

RxStates == {"IDLE", "RECEIVING_HDR", "HDR_RECEIVED", "HDR_VALIDATED",
             "RECEIVING_BODY", "BODY_RECEIVED", "RESYNC", "ERROR"}
TxStates == {"IDLE", "SENDING_ACK", "ACK_SENT", "SENDING_PKT", "PKT_SENT", "ERROR"}
Alarms   == {"INFINITE", "RUNNING", "NOW"}
AckFlags == {"NONE", "ACK", "NACK"}      \* NACK: FLAG_ACK and FLAG_RETRANSMIT
HdrKinds == {"OK", "BAD_CRC", "BAD_LEN", "BAD_TYPE"}

Frame == [flags : AckFlags, num : FrameNo, body : Nat, hdr : HdrKinds, crcOk : BOOLEAN]

AckFrame(num, flags) == [flags |-> flags, num |-> num, body |-> 0, hdr |-> "OK", crcOk |-> TRUE]
PktFrame(num, body)  == [flags |-> "NONE", num |-> num, body |-> body, hdr |-> "OK", crcOk |-> TRUE]

NoFrame == PktFrame(NUM_BOOT, 0)   \* an empty buffer: tx.ack.size = 0, rx.pkt not filled

\* A packet queued in tx.fifo.
Pkt == [num : FrameNo, body : Nat, sent : BOOLEAN]

LLState == [txState : TxStates, frameno : FrameNo, fifo : Seq(Pkt),
            attempts : Nat, missing : Nat, ack : Frame,
            rxState : RxStates, handled : 0..4, ackNo : 0..4, ackFlags : AckFlags,
            pkt : Frame, waitAck : Alarms, reset : Alarms]

LLInit == [txState |-> "IDLE", frameno |-> NUM_BOOT, fifo |-> << >>,
           attempts |-> 0, missing |-> 0, ack |-> NoFrame,
           rxState |-> "IDLE", handled |-> NUM_RX_INIT, ackNo |-> NUM_RX_INIT,
           ackFlags |-> "NONE", pkt |-> NoFrame,
           waitAck |-> "INFINITE", reset |-> "INFINITE"]

----------------------------------------------------------------------------
(* Transport completions. *)

SendStatus == {"SUCCESS", "BUSY", "ERROR"}

\* zbncp_ll_send_complete
SendComplete(s, status) ==
  IF s.txState \in {"SENDING_ACK", "SENDING_PKT"}
  THEN CASE status = "SUCCESS" ->
              [s EXCEPT !.attempts = 0,
                        !.txState = IF @ = "SENDING_ACK" THEN "ACK_SENT" ELSE "PKT_SENT"]
         [] status = "BUSY"    -> [s EXCEPT !.txState = "IDLE"]
         [] OTHER              -> [s EXCEPT !.attempts = @ + 1, !.txState = "IDLE"]
  ELSE [s EXCEPT !.attempts = @ + 1, !.txState = "ERROR"]

\* zbncp_ll_recv_complete: f is the frame that the received bytes belong to,
\* whole whether all the bytes asked for have arrived.
RecvComplete(s, f, whole) ==
  CASE s.rxState \in {"RECEIVING_HDR", "RESYNC"} ->
         [s EXCEPT !.rxState = "HDR_RECEIVED",
                   !.pkt = IF whole THEN f ELSE [f EXCEPT !.hdr = "BAD_CRC"]]
    [] s.rxState = "RECEIVING_BODY" ->
         [s EXCEPT !.rxState = IF whole THEN "BODY_RECEIVED" ELSE "ERROR"]
    [] OTHER -> [s EXCEPT !.rxState = "ERROR"]

----------------------------------------------------------------------------
(* The transmit queue. *)

DropHead(q)       == IF q = << >> THEN q ELSE Tail(q)
MarkHead(q, sent) == IF q = << >> THEN q ELSE [q EXCEPT ![1] = [@ EXCEPT !.sent = sent]]

Dequeue(s) == [s EXCEPT !.fifo = DropHead(@)]

\* Mutant of ChangeSendingPktState: the newest packet is marked, not the oldest.
ChangeNewestPktState(s, sent) ==
  [s EXCEPT !.fifo = IF @ = << >> THEN @ ELSE [@ EXCEPT ![Len(@)].sent = sent]]

\* zbncp_ll_change_sending_pkt_state
ChangeSendingPktState(s, sent) ==
  [s EXCEPT !.fifo = MarkHead(@, sent)]

\* Mutants of NextFrameno: not masked, one bit only.
NextFramenoUnmasked(n) == IF n + 1 = NUM_BOOT THEN 1 ELSE n + 1
NextFramenoOneBit(n)   == IF n = 1 THEN 2 ELSE 1

\* zbncp_ll_tx_alloc_frameno: the number after n; the boot number is used once.
NextFrameno(n) == IF (n + 1) % 4 = NUM_BOOT THEN 1 ELSE (n + 1) % 4

\* The packet the user offers is taken when the FIFO has room.
Takes(s, body) == body # 0 /\ Len(s.fifo) < TX_FIFO_SIZE

\* zbncp_ll_tx_alloc_pkt; body = 0: the user has nothing to send
TxAllocPkt(s, body) ==
  IF Takes(s, body)
  THEN [s EXCEPT !.fifo = Append(@, [num |-> s.frameno, body |-> body, sent |-> FALSE]),
                 !.frameno = NextFrameno(@)]
  ELSE s

----------------------------------------------------------------------------
(* Transmitting: zbncp_ll_process_tx. *)

\* zbncp_ll_tx_pop_ack: the pending ACK/NACK moves to the (single) ACK buffer.
TxPopAck(s) ==
  IF s.ackFlags # "NONE" /\ s.ack = NoFrame
  THEN [s EXCEPT !.ack = AckFrame(s.ackNo, s.ackFlags), !.ackFlags = "NONE"]
  ELSE s

\* The head of the queue has been sent WAIT_ACK_RETRY times without an answer.
GivesUp(s) == /\ s.txState = "IDLE"
              /\ s.attempts < TX_ATTEMPTS
              /\ s.missing >= WAIT_ACK_RETRY

TxGiveUp(s) ==
  IF GivesUp(s) THEN Dequeue([s EXCEPT !.waitAck = "INFINITE", !.missing = 0]) ELSE s

\* zbncp_ll_tx_start_sending
TxStartSending(s) ==
  IF s.attempts >= TX_ATTEMPTS
  THEN [s EXCEPT !.txState = "ERROR", !.waitAck = "INFINITE"]
  ELSE LET u == TxPopAck(TxGiveUp(s))
       IN CASE u.ack # NoFrame -> [u EXCEPT !.txState = "SENDING_ACK"]
            [] u.ack = NoFrame /\ u.fifo # << >> /\ ~ Head(u.fifo).sent ->
                 [ChangeSendingPktState(u, TRUE) EXCEPT !.txState = "SENDING_PKT"]
            [] OTHER -> u

\* zbncp_ll_tx_complete_ack
TxCompleteAck(s) == [s EXCEPT !.ack = NoFrame, !.txState = "IDLE"]

\* Mutant of TxStartWaitingAck: the alarm is not set.
TxStartWaitingNoAlarm(s) == [s EXCEPT !.txState = "IDLE"]

\* zbncp_ll_tx_start_waiting_ack: the ACK may have come before the completion.
TxStartWaitingAck(s) ==
  [s EXCEPT !.txState = "IDLE",
            !.waitAck = IF s.fifo # << >> /\ Head(s.fifo).sent THEN "RUNNING" ELSE @]

\* Both error states arm the reset alarm only if it is armed already.
ArmReset(s) == [s EXCEPT !.reset = IF @ # "INFINITE" THEN "RUNNING" ELSE @]

ProcessTx(s, body) ==
  LET u == TxAllocPkt(s, body)
  IN CASE u.txState = "IDLE"     -> TxStartSending(u)
       [] u.txState = "ACK_SENT" -> TxCompleteAck(u)
       [] u.txState = "PKT_SENT" -> TxStartWaitingAck(u)
       [] u.txState = "ERROR"    ->
            ArmReset(ChangeSendingPktState([u EXCEPT !.waitAck = "INFINITE"], FALSE))
       [] OTHER -> u     \* SENDING_ACK, SENDING_PKT: wait for the completion

\* The frame the transport is given when ProcessTx leaves IDLE for SENDING_*.
Outgoing(s) ==
  IF s.txState = "SENDING_ACK" THEN s.ack
  ELSE PktFrame(Head(s.fifo).num, Head(s.fifo).body)

----------------------------------------------------------------------------
(* Receiving: zbncp_ll_process_rx. *)

\* Mutant of Answers: the frame number is not compared.
AnswersAny(s) == /\ s.rxState = "BODY_RECEIVED"
                 /\ s.pkt.flags # "NONE"
                 /\ s.fifo # << >>

\* The frame just received acknowledges the head of the queue...
Answers(s) == /\ s.rxState = "BODY_RECEIVED"
              /\ s.pkt.flags # "NONE"
              /\ s.fifo # << >>
              /\ Head(s.fifo).num = s.pkt.num
\* ...and releases it (or, a NACK, asks for it once more).
Releases(s) == Answers(s) /\ s.pkt.flags = "ACK"

\* Mutant of TxCompletePkt: the alarm is not cancelled.
TxCompletePktKeepAlarm(s) ==
  CASE Releases(s) -> Dequeue([s EXCEPT !.missing = 0])
    [] Answers(s) /\ ~ Releases(s) -> ChangeSendingPktState(s, FALSE)
    [] OTHER -> s

\* zbncp_ll_tx_complete_pkt
TxCompletePkt(s) ==
  CASE Releases(s) -> Dequeue([s EXCEPT !.waitAck = "INFINITE", !.missing = 0])
    [] Answers(s) /\ ~ Releases(s) ->
         ChangeSendingPktState([s EXCEPT !.waitAck = "INFINITE"], FALSE)
    [] OTHER -> s

\* zbncp_ll_acknowledge
Acknowledge(s, num, flags) ==
  [s EXCEPT !.handled = num, !.ackNo = num, !.ackFlags = flags]

\* Mutant of Duplicate: duplicates are not looked for.
NeverDuplicate(s) == FALSE

\* Frame NUM_BOOT is never taken for a duplicate.
Duplicate(s) == s.handled = s.pkt.num /\ s.handled # NUM_BOOT

\* The frame just received carries a body that is passed to the user.
Delivers(s, hasPlace) ==
  /\ s.rxState = "BODY_RECEIVED"
  /\ s.pkt.body # 0
  /\ ~ Duplicate(s)
  /\ s.pkt.crcOk /\ s.pkt.hdr # "BAD_TYPE" /\ hasPlace

\* The answer that a received body calls for (second half of
\* zbncp_ll_rx_complete_receiving): without a place for it there is none.
RxAnswerBody(s, hasPlace) ==
  CASE s.pkt.body = 0 -> s
    [] s.pkt.body # 0 /\ ~ Duplicate(s) /\ ~ s.pkt.crcOk -> Acknowledge(s, s.pkt.num, "NACK")
    [] s.pkt.body # 0 /\ ~ Duplicate(s) /\ s.pkt.crcOk /\ s.pkt.hdr # "BAD_TYPE" /\ ~ hasPlace -> s
    [] OTHER -> Acknowledge(s, s.pkt.num, "ACK")

\* zbncp_ll_rx_start_receiving
RxStartReceiving(s) == [s EXCEPT !.rxState = "RECEIVING_HDR", !.pkt = NoFrame]

\* zbncp_ll_rx_complete_receiving
RxCompleteReceiving(s, hasPlace) ==
  RxStartReceiving(RxAnswerBody(TxCompletePkt(s), hasPlace))

\* zbncp_ll_rx_validate_header
RxValidateHeader(s) ==
  [s EXCEPT !.rxState = CASE s.pkt.hdr = "BAD_CRC" -> "RESYNC"
                          [] s.pkt.hdr = "BAD_LEN" -> "IDLE"
                          [] OTHER                 -> "HDR_VALIDATED"]

\* zbncp_ll_rx_continue_receiving
RxContinueReceiving(s) ==
  [s EXCEPT !.rxState = IF s.pkt.body # 0 THEN "RECEIVING_BODY" ELSE "BODY_RECEIVED"]

ProcessRx(s, hasPlace) ==
  CASE s.rxState = "IDLE"          -> RxStartReceiving(s)
    [] s.rxState = "HDR_RECEIVED"  -> RxValidateHeader(s)
    [] s.rxState = "HDR_VALIDATED" -> RxContinueReceiving(s)
    [] s.rxState = "BODY_RECEIVED" -> RxCompleteReceiving(s, hasPlace)
    [] s.rxState = "ERROR"         -> ArmReset(s)
    [] OTHER -> s        \* RECEIVING_HDR, RECEIVING_BODY, RESYNC: wait for bytes

----------------------------------------------------------------------------
(* Alarms, and the whole quantum: zbncp_ll_poll. *)

\* Only the wait-for-ACK alarm follows the clock; elapsed: its time is up.
AlarmUpdateTime(s, elapsed) ==
  [s EXCEPT !.waitAck = IF @ = "RUNNING" /\ elapsed THEN "NOW" ELSE @]

\* Mutant of AlertWaitAck: the packet is not marked for retransmission.
AlertWaitAckOnlyCounts(s) == [s EXCEPT !.waitAck = "INFINITE", !.missing = @ + 1]

\* zbncp_ll_alert_wait_ack
AlertWaitAck(s) ==
  ChangeSendingPktState([s EXCEPT !.waitAck = "INFINITE", !.missing = @ + 1], FALSE)

\* zbncp_ll_alert_reset
AlertReset(s) == [s EXCEPT !.reset = "INFINITE",
                           !.txState = IF @ = "ERROR" THEN "IDLE" ELSE @,
                           !.rxState = IF @ = "ERROR" THEN "IDLE" ELSE @]

AlarmCheck(s) ==
  LET u == IF s.waitAck = "NOW" THEN AlertWaitAck(s) ELSE s
  IN IF u.reset = "NOW" THEN AlertReset(u) ELSE u

PollTx(s, body, elapsed) == ProcessTx(AlarmUpdateTime(s, elapsed), body)
PollRx(s, body, hasPlace, elapsed) == ProcessRx(PollTx(s, body, elapsed), hasPlace)
Poll(s, body, hasPlace, elapsed) == AlarmCheck(PollRx(s, body, hasPlace, elapsed))

\* Mutant of Service: an alarm that goes off asks for no further quantum.
ServiceWithoutAlert(s, body, hasPlace, elapsed) ==
  LET u == PollRx(s, body, hasPlace, elapsed)
  IN u.txState # s.txState \/ u.rxState # s.rxState

\* zbncp_ll_callme(ll, ZBNCP_FALSE): a state was set or an alarm went off, so
\* the quantum returns timeout 0 and is run again.
Service(s, body, hasPlace, elapsed) ==
  LET u == PollRx(s, body, hasPlace, elapsed)
  IN \/ u.txState # s.txState
     \/ u.rxState # s.rxState
     \/ u.waitAck = "NOW"
     \/ u.reset = "NOW"
=============================================================================
