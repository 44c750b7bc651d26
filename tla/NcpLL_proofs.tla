---------------------------- MODULE NcpLL_proofs ----------------------------
(***************************************************************************)
(* Lemmas about the operators of NcpLL: each yields an LL context; the     *)
(* transmit queue, the wait-for-ACK alarm and the transmitter's state stay *)
(* in step; the queue holds the packets not done with, in order and under  *)
(* their numbers; and a quantum that asks for no further one left nothing  *)
(* to do.  NcpLink_proofs lifts them to the link.                          *)
(***************************************************************************)
EXTENDS NcpLL, SequenceTheorems, TLAPS

----------------------------------------------------------------------------
(* The queue. *)

\* Only the head of the queue may have been sent.
TailUnsent(q) == \A i \in 2..Len(q) : ~ q[i].sent

\* Marking the head (zbncp_ll_change_sending_pkt_state) changes nothing else.
LEMMA MarkHeadProps ==
  ASSUME NEW q \in Seq(Pkt), NEW sent \in BOOLEAN
  PROVE  /\ MarkHead(q, sent) \in Seq(Pkt)
         /\ q # << >> => MarkHead(q, sent) # << >> /\ Head(MarkHead(q, sent)).sent = sent
         /\ q = << >> => MarkHead(q, sent) = << >>
         /\ TailUnsent(q) => TailUnsent(MarkHead(q, sent))
  <1>1. CASE q = << >>  BY <1>1 DEF MarkHead
  <1>2. CASE q # << >>
    <2> DEFINE h == [q[1] EXCEPT !.sent = sent]
               r == [q EXCEPT ![1] = h]
    <2>1. 1 \in 1..Len(q)  BY <1>2, EmptySeq
    <2>2. q[1] \in Pkt  BY <2>1
    <2>3. h \in Pkt /\ h.sent = sent  BY <2>2 DEF Pkt
    <2>4. MarkHead(q, sent) = r  BY <1>2 DEF MarkHead
    <2> HIDE DEF h
    <2>5. /\ r \in Seq(Pkt) /\ Len(r) = Len(q)
          /\ \A j \in 1..Len(q) : r[j] = IF j = 1 THEN h ELSE q[j]
      BY <2>1, <2>3, ExceptSeq
    <2> HIDE DEF r
    <2>6. r # << >> /\ Head(r) = h  BY <2>1, <2>5, EmptySeq
    <2>7. TailUnsent(q) => TailUnsent(r)  BY <2>5 DEF TailUnsent
    <2> QED  BY <1>2, <2>3, <2>4, <2>5, <2>6, <2>7
  <1> QED  BY <1>1, <1>2

\* Removing the head (zbncp_ll_fifo_dequeue) leaves a queue that was not sent.
LEMMA DropHeadProps ==
  ASSUME NEW q \in Seq(Pkt)
  PROVE  /\ DropHead(q) \in Seq(Pkt)
         /\ TailUnsent(q) => /\ TailUnsent(DropHead(q))
                             /\ DropHead(q) # << >> => ~ Head(DropHead(q)).sent
  <1>1. CASE q = << >>  BY <1>1 DEF DropHead
  <1>2. CASE q # << >>
    <2> DEFINE r == Tail(q)
    <2>1. DropHead(q) = r  BY <1>2 DEF DropHead
    <2>2. /\ r \in Seq(Pkt) /\ Len(r) = Len(q) - 1
          /\ \A i \in 1..Len(r) : r[i] = q[i + 1]
      BY <1>2, HeadTailProperties
    <2> HIDE DEF r
    <2>3. ASSUME TailUnsent(q)  PROVE \A i \in 1..Len(r) : ~ r[i].sent
      <3> TAKE i \in 1..Len(r)
      <3>1. i + 1 \in 2..Len(q)  BY <2>2
      <3> QED  BY <2>2, <2>3, <3>1 DEF TailUnsent
    <2>4. r # << >> => 1 \in 1..Len(r) /\ Head(r) = r[1]  BY <2>2, EmptySeq
    <2> QED  BY <2>1, <2>2, <2>3, <2>4 DEF TailUnsent
  <1> QED  BY <1>1, <1>2

\* Appending a packet that was not sent leaves the head alone, if there is one.
LEMMA AppendProps ==
  ASSUME NEW q \in Seq(Pkt), NEW e \in Pkt, ~ e.sent
  PROVE  /\ Append(q, e) \in Seq(Pkt)
         /\ Append(q, e) # << >>
         /\ q # << >> => Head(Append(q, e)) = Head(q)
         /\ q = << >> => Head(Append(q, e)) = e
         /\ TailUnsent(q) => TailUnsent(Append(q, e))
  <1> DEFINE r == Append(q, e)
  <1>1. /\ r \in Seq(Pkt) /\ Len(r) = Len(q) + 1
        /\ \A i \in 1..Len(q) : r[i] = q[i]
        /\ r[Len(q) + 1] = e
    BY AppendProperties
  <1> HIDE DEF r
  <1>2. r # << >> /\ Head(r) = r[1]  BY <1>1, EmptySeq
  <1>3. q # << >> => 1 \in 1..Len(q) /\ Head(q) = q[1]  BY EmptySeq
  <1>4. q = << >> => Len(q) + 1 = 1  BY EmptySeq
  <1>5. TailUnsent(q) => TailUnsent(r)
    <2> SUFFICES ASSUME TailUnsent(q), NEW i \in 2..Len(r)  PROVE ~ r[i].sent
      BY DEF TailUnsent
    <2>1. CASE i \in 2..Len(q)  BY <2>1, <1>1 DEF TailUnsent
    <2>2. CASE i = Len(q) + 1  BY <2>2, <1>1
    <2> QED  BY <2>1, <2>2, <1>1
  <1> QED  BY <1>1, <1>2, <1>3, <1>4, <1>5 DEF r

----------------------------------------------------------------------------
(* Types: every operator maps LL contexts to LL contexts. *)

LEMMA FrameFacts ==
  /\ NoFrame \in Frame
  /\ \A num \in FrameNo, flags \in AckFlags : AckFrame(num, flags) \in Frame
  /\ \A num \in FrameNo, body \in Nat : PktFrame(num, body) \in Frame
  BY DEF NoFrame, Frame, AckFrame, PktFrame, FrameNo, NUM_BOOT, AckFlags, HdrKinds

LEMMA LLInitType == LLInit \in LLState
  BY FrameFacts
  DEF LLInit, LLState, RxStates, TxStates, FrameNo, NUM_BOOT, NUM_RX_INIT, AckFlags, Alarms

LEMMA SendCompleteType ==
  ASSUME NEW s \in LLState, NEW status \in SendStatus
  PROVE  SendComplete(s, status) \in LLState
  <1> DEFINE t == IF s.txState = "SENDING_ACK" THEN "ACK_SENT" ELSE "PKT_SENT"
  <1>1. s.attempts + 1 \in Nat  BY DEF LLState
  <1>2. t \in TxStates /\ "IDLE" \in TxStates /\ "ERROR" \in TxStates  BY DEF TxStates
  <1>3. [s EXCEPT !.attempts = 0, !.txState = t] \in LLState
    <2> HIDE DEF t
    <2> QED  BY <1>2 DEF LLState
  <1>4. [s EXCEPT !.txState = "IDLE"] \in LLState  BY <1>2 DEF LLState
  <1>5. [s EXCEPT !.attempts = s.attempts + 1, !.txState = "IDLE"] \in LLState
    BY <1>1, <1>2 DEF LLState
  <1>6. [s EXCEPT !.attempts = s.attempts + 1, !.txState = "ERROR"] \in LLState
    BY <1>1, <1>2 DEF LLState
  <1> QED  BY <1>3, <1>4, <1>5, <1>6 DEF SendComplete, SendStatus

LEMMA RecvCompleteType ==
  ASSUME NEW s \in LLState, NEW f \in Frame, NEW whole \in BOOLEAN
  PROVE  RecvComplete(s, f, whole) \in LLState
  <1> DEFINE g == IF whole THEN f ELSE [f EXCEPT !.hdr = "BAD_CRC"]
             x == IF whole THEN "BODY_RECEIVED" ELSE "ERROR"
  <1>1. g \in Frame  BY DEF Frame, HdrKinds
  <1>2. x \in RxStates /\ "HDR_RECEIVED" \in RxStates /\ "ERROR" \in RxStates  BY DEF RxStates
  <1>3. [s EXCEPT !.rxState = "HDR_RECEIVED", !.pkt = g] \in LLState
    <2> HIDE DEF g
    <2> QED  BY <1>1, <1>2 DEF LLState
  <1>4. [s EXCEPT !.rxState = x] \in LLState
    <2> HIDE DEF x
    <2> QED  BY <1>2 DEF LLState
  <1>5. [s EXCEPT !.rxState = "ERROR"] \in LLState  BY <1>2 DEF LLState
  <1> QED  BY <1>3, <1>4, <1>5 DEF RecvComplete

LEMMA DequeueType ==
  ASSUME NEW s \in LLState
  PROVE  Dequeue(s) \in LLState
  <1>1. DropHead(s.fifo) \in Seq(Pkt)  BY DropHeadProps DEF LLState
  <1> QED  BY <1>1 DEF Dequeue, LLState

LEMMA ChangeSendingPktStateType ==
  ASSUME NEW s \in LLState, NEW sent \in BOOLEAN
  PROVE  ChangeSendingPktState(s, sent) \in LLState
  <1>1. MarkHead(s.fifo, sent) \in Seq(Pkt)  BY MarkHeadProps DEF LLState
  <1> QED  BY <1>1 DEF ChangeSendingPktState, LLState

LEMMA TxAllocPktType ==
  ASSUME NEW s \in LLState, NEW body \in Nat
  PROVE  TxAllocPkt(s, body) \in LLState
  <1> DEFINE e == [num |-> s.frameno, body |-> body, sent |-> FALSE]
             q == Append(s.fifo, e)
  <1>1. e \in Pkt /\ ~ e.sent  BY DEF Pkt, LLState
  <1>2. q \in Seq(Pkt)
    <2> HIDE DEF e
    <2> QED  BY <1>1, AppendProps DEF LLState
  <1>3. NextFrameno(s.frameno) \in FrameNo  BY DEF NextFrameno, FrameNo, NUM_BOOT, LLState
  <1>4. [s EXCEPT !.fifo = q, !.frameno = NextFrameno(s.frameno)] \in LLState
    <2> HIDE DEF q
    <2> QED  BY <1>2, <1>3 DEF LLState
  <1> QED  BY <1>4 DEF TxAllocPkt

\* The pending answer has the number of a frame, not NUM_RX_INIT: invariant of
\* the receiver that TxPopAck relies on to build a frame.
AckNumbered(s) == s.ackFlags # "NONE" => s.ackNo \in FrameNo

LEMMA TxPopAckType ==
  ASSUME NEW s \in LLState, AckNumbered(s)
  PROVE  TxPopAck(s) \in LLState
  <1>1. CASE s.ackFlags # "NONE" /\ s.ack = NoFrame
    <2>1. AckFrame(s.ackNo, s.ackFlags) \in Frame  BY <1>1, FrameFacts DEF AckNumbered, LLState
    <2>2. "NONE" \in AckFlags  BY DEF AckFlags
    <2>3. [s EXCEPT !.ack = AckFrame(s.ackNo, s.ackFlags), !.ackFlags = "NONE"] \in LLState
      BY <2>1, <2>2 DEF LLState
    <2> QED  BY <1>1, <2>3 DEF TxPopAck
  <1> QED  BY <1>1 DEF TxPopAck

LEMMA TxGiveUpType ==
  ASSUME NEW s \in LLState
  PROVE  TxGiveUp(s) \in LLState
  <1>1. [s EXCEPT !.waitAck = "INFINITE", !.missing = 0] \in LLState  BY DEF LLState, Alarms
  <1> QED  BY <1>1, DequeueType DEF TxGiveUp

LEMMA SetTxState ==
  ASSUME NEW s \in LLState, NEW t \in TxStates
  PROVE  [s EXCEPT !.txState = t] \in LLState
  BY DEF LLState

----------------------------------------------------------------------------
(* The invariant of one end. *)

WaitStates == {"IDLE", "SENDING_ACK", "ACK_SENT"}

HeadSent(s) == s.fifo # << >> /\ Head(s.fifo).sent

LLInv(s) == /\ s \in LLState
            /\ AckNumbered(s)
            /\ TailUnsent(s.fifo)
            /\ s.waitAck # "INFINITE" => HeadSent(s) /\ s.txState \in WaitStates
            /\ s.txState \in {"SENDING_ACK", "SENDING_PKT"} => s.attempts < TX_ATTEMPTS
            /\ s.reset = "INFINITE"

SentInv(s) ==
  HeadSent(s) /\ s.txState \in WaitStates /\ s.attempts < TX_ATTEMPTS => s.waitAck # "INFINITE"

LEMMA LLInitInv == LLInv(LLInit) /\ SentInv(LLInit)
  <1>1. /\ LLInit.fifo = << >> /\ LLInit.waitAck = "INFINITE"
        /\ LLInit.ackFlags = "NONE" /\ LLInit.txState = "IDLE" /\ LLInit.reset = "INFINITE"
    BY DEF LLInit
  <1>2. TailUnsent(<< >>)  BY EmptySeq DEF TailUnsent
  <1> QED  BY <1>1, <1>2, LLInitType DEF LLInv, SentInv, HeadSent, AckNumbered

\* Completions.  A failed transmission must not leave a sent packet without its
\* alarm: BUSY does, and ERROR does unless it reaches the limit of attempts.
LEMMA SendCompleteInv ==
  ASSUME NEW s, NEW status \in SendStatus, LLInv(s),
         s.txState \in {"SENDING_ACK", "SENDING_PKT"}
  PROVE  /\ LLInv(SendComplete(s, status))
         /\ (status = "SUCCESS" \/ (status = "ERROR" /\ TX_ATTEMPTS = 1)) /\ SentInv(s)
              => SentInv(SendComplete(s, status))
  <1> DEFINE u == SendComplete(s, status)
  <1>1. s \in LLState  BY DEF LLInv
  <1>2. u \in LLState  BY <1>1, SendCompleteType
  <1>3. /\ u.fifo = s.fifo /\ u.waitAck = s.waitAck
        /\ u.ackFlags = s.ackFlags /\ u.ackNo = s.ackNo /\ u.reset = s.reset
        /\ status = "SUCCESS" =>
             u.attempts = 0 /\ u.txState = IF s.txState = "SENDING_ACK" THEN "ACK_SENT" ELSE "PKT_SENT"
        /\ status # "SUCCESS" => u.txState = "IDLE"
        /\ status = "ERROR" => u.attempts = s.attempts + 1
    BY <1>1 DEF SendComplete, SendStatus, LLState
  <1>4. LLInv(u)
    <2> HIDE DEF u
    <2> QED  BY <1>2, <1>3 DEF LLInv, HeadSent, WaitStates, AckNumbered
  <1>5. ASSUME SentInv(s), status = "SUCCESS"  PROVE SentInv(u)
    <2>1. s.attempts < TX_ATTEMPTS  BY DEF LLInv
    <2> HIDE DEF u
    <2> QED  BY <2>1, <1>3, <1>5 DEF SentInv, WaitStates, HeadSent
  <1>6. ASSUME status = "ERROR", TX_ATTEMPTS = 1  PROVE SentInv(u)
    <2>1. s.attempts \in Nat  BY <1>1 DEF LLState
    <2> HIDE DEF u
    <2> QED  BY <2>1, <1>3, <1>6 DEF SentInv
  <1> QED  BY <1>4, <1>5, <1>6

LEMMA RecvCompleteInv ==
  ASSUME NEW s, NEW f \in Frame, NEW whole \in BOOLEAN, LLInv(s)
  PROVE  /\ LLInv(RecvComplete(s, f, whole))
         /\ SentInv(s) => SentInv(RecvComplete(s, f, whole))
         /\ RecvComplete(s, f, whole).txState = s.txState
  <1> DEFINE u == RecvComplete(s, f, whole)
  <1>1. s \in LLState  BY DEF LLInv
  <1>2. u \in LLState  BY <1>1, RecvCompleteType
  <1>3. /\ u.fifo = s.fifo /\ u.waitAck = s.waitAck /\ u.txState = s.txState
        /\ u.ackFlags = s.ackFlags /\ u.ackNo = s.ackNo /\ u.reset = s.reset /\ u.attempts = s.attempts
    BY <1>1 DEF RecvComplete, LLState
  <1> HIDE DEF u
  <1> QED  BY <1>2, <1>3 DEF LLInv, SentInv, HeadSent, AckNumbered, u

----------------------------------------------------------------------------
(* The transmitter. *)

LEMMA TxAllocPktInv ==
  ASSUME NEW s, NEW body \in Nat, LLInv(s)
  PROVE  /\ LLInv(TxAllocPkt(s, body))
         /\ SentInv(s) => SentInv(TxAllocPkt(s, body))
         /\ TxAllocPkt(s, body).txState = s.txState
  <1> DEFINE u == TxAllocPkt(s, body)
             e == [num |-> s.frameno, body |-> body, sent |-> FALSE]
  <1>1. s \in LLState  BY DEF LLInv
  <1>2. u \in LLState  BY <1>1, TxAllocPktType
  <1>3. e \in Pkt /\ ~ e.sent  BY <1>1 DEF Pkt, LLState
  <1>4. /\ u.fifo = s.fifo \/ u.fifo = Append(s.fifo, e)
        /\ u.waitAck = s.waitAck /\ u.txState = s.txState
        /\ u.ackFlags = s.ackFlags /\ u.ackNo = s.ackNo /\ u.reset = s.reset /\ u.attempts = s.attempts
    BY <1>1 DEF TxAllocPkt, LLState
  <1> HIDE DEF u, e
  <1>5. TailUnsent(u.fifo) /\ (HeadSent(u) <=> HeadSent(s))
    BY <1>1, <1>3, <1>4, AppendProps DEF LLInv, LLState, HeadSent
  <1> QED  BY <1>2, <1>4, <1>5 DEF LLInv, SentInv, AckNumbered, u

LEMMA TxPopAckInv ==
  ASSUME NEW s, LLInv(s)
  PROVE  /\ LLInv(TxPopAck(s))
         /\ SentInv(s) => SentInv(TxPopAck(s))
         /\ TxPopAck(s).txState = s.txState /\ TxPopAck(s).attempts = s.attempts
  <1> DEFINE u == TxPopAck(s)
  <1>1. s \in LLState /\ AckNumbered(s)  BY DEF LLInv
  <1>2. u \in LLState  BY <1>1, TxPopAckType
  <1>3. /\ u.fifo = s.fifo /\ u.waitAck = s.waitAck /\ u.txState = s.txState
        /\ u.ackFlags \in {s.ackFlags, "NONE"} /\ u.ackNo = s.ackNo /\ u.reset = s.reset /\ u.attempts = s.attempts
    BY <1>1 DEF TxPopAck, LLState
  <1> HIDE DEF u
  <1> QED  BY <1>1, <1>2, <1>3 DEF LLInv, SentInv, HeadSent, AckNumbered, u

LEMMA TxGiveUpInv ==
  ASSUME NEW s, LLInv(s)
  PROVE  /\ LLInv(TxGiveUp(s))
         /\ SentInv(s) => SentInv(TxGiveUp(s))
         /\ TxGiveUp(s).txState = s.txState /\ TxGiveUp(s).attempts = s.attempts
  <1> DEFINE u == TxGiveUp(s)
  <1>1. s \in LLState  BY DEF LLInv
  <1>2. CASE ~ GivesUp(s)  BY <1>2 DEF TxGiveUp
  <1>3. CASE GivesUp(s)
    <2>1. u \in LLState  BY <1>1, TxGiveUpType
    <2>2. /\ u.fifo = DropHead(s.fifo) /\ u.waitAck = "INFINITE" /\ u.txState = s.txState
          /\ u.ackFlags = s.ackFlags /\ u.ackNo = s.ackNo /\ u.reset = s.reset /\ u.attempts = s.attempts
      BY <1>1, <1>3 DEF TxGiveUp, Dequeue, LLState
    <2> HIDE DEF u
    <2>3. TailUnsent(u.fifo) /\ ~ HeadSent(u)
      BY <1>1, <2>2, DropHeadProps DEF LLInv, LLState, HeadSent
    <2> QED  BY <2>1, <2>2, <2>3 DEF LLInv, SentInv, AckNumbered, u
  <1> QED  BY <1>2, <1>3

LEMMA TxStartSendingInv ==
  ASSUME NEW s, LLInv(s), s.txState = "IDLE"
  PROVE  /\ LLInv(TxStartSending(s))
         /\ SentInv(s) => SentInv(TxStartSending(s))
  <1> DEFINE v == TxStartSending(s)
             u == TxPopAck(TxGiveUp(s))
  <1>1. s \in LLState  BY DEF LLInv
  <1>2. CASE s.attempts >= TX_ATTEMPTS
    <2>1. v = [s EXCEPT !.txState = "ERROR", !.waitAck = "INFINITE"]  BY <1>2 DEF TxStartSending
    <2>2. v \in LLState  BY <1>1, <2>1 DEF LLState, TxStates, Alarms
    <2>3. /\ v.fifo = s.fifo /\ v.waitAck = "INFINITE" /\ v.txState = "ERROR"
          /\ v.ackFlags = s.ackFlags /\ v.ackNo = s.ackNo /\ v.reset = s.reset
      BY <1>1, <2>1 DEF LLState
    <2> HIDE DEF v
    <2> QED  BY <2>2, <2>3 DEF LLInv, SentInv, WaitStates, AckNumbered, v
  <1>3. CASE ~ (s.attempts >= TX_ATTEMPTS)
    <2>1. s.attempts < TX_ATTEMPTS  BY <1>1, <1>3, LLConstants DEF LLState
    <2>2. /\ LLInv(u) /\ u.txState = "IDLE" /\ u.attempts < TX_ATTEMPTS
          /\ SentInv(s) => SentInv(u)
      BY <2>1, TxGiveUpInv, TxPopAckInv
    <2>3. u \in LLState  BY <2>2 DEF LLInv
    <2>4. CASE u.ack # NoFrame
      <3>1. v = [u EXCEPT !.txState = "SENDING_ACK"]  BY <1>3, <2>4 DEF TxStartSending
      <3>2. v \in LLState  BY <2>3, <3>1 DEF LLState, TxStates
      <3>3. /\ v.fifo = u.fifo /\ v.waitAck = u.waitAck /\ v.txState = "SENDING_ACK"
            /\ v.ackFlags = u.ackFlags /\ v.ackNo = u.ackNo /\ v.reset = u.reset /\ v.attempts = u.attempts
        BY <2>3, <3>1 DEF LLState
      <3> HIDE DEF v, u
      <3> QED  BY <2>2, <3>2, <3>3 DEF LLInv, SentInv, HeadSent, WaitStates, AckNumbered, v
    <2>5. CASE u.ack = NoFrame /\ u.fifo # << >> /\ ~ Head(u.fifo).sent
      <3>1. v = [ChangeSendingPktState(u, TRUE) EXCEPT !.txState = "SENDING_PKT"]
        BY <1>3, <2>5 DEF TxStartSending
      <3>2. v \in LLState
        BY <2>3, <3>1, ChangeSendingPktStateType, SetTxState DEF TxStates
      <3>3. /\ v.fifo = MarkHead(u.fifo, TRUE) /\ v.waitAck = u.waitAck
            /\ v.txState = "SENDING_PKT"
            /\ v.ackFlags = u.ackFlags /\ v.ackNo = u.ackNo /\ v.reset = u.reset /\ v.attempts = u.attempts
        BY <2>3, <3>1 DEF ChangeSendingPktState, LLState
      <3> HIDE DEF v, u
      <3>4. u.waitAck = "INFINITE"  BY <2>2, <2>5 DEF LLInv, HeadSent
      <3>5. TailUnsent(v.fifo)  BY <2>2, <2>3, <3>3, MarkHeadProps DEF LLInv, LLState
      <3> QED  BY <2>2, <3>2, <3>3, <3>4, <3>5 DEF LLInv, SentInv, WaitStates, AckNumbered, v
    <2>6. CASE u.ack = NoFrame /\ ~ (u.fifo # << >> /\ ~ Head(u.fifo).sent)
      <3>1. v = u  BY <1>3, <2>6 DEF TxStartSending
      <3> QED  BY <2>2, <3>1
    <2> QED  BY <2>4, <2>5, <2>6
  <1> QED  BY <1>2, <1>3

LEMMA TxCompleteAckInv ==
  ASSUME NEW s, LLInv(s), s.txState = "ACK_SENT"
  PROVE  /\ LLInv(TxCompleteAck(s))
         /\ SentInv(s) => SentInv(TxCompleteAck(s))
  <1> DEFINE u == TxCompleteAck(s)
  <1>1. s \in LLState  BY DEF LLInv
  <1>2. u \in LLState  BY <1>1, FrameFacts DEF TxCompleteAck, LLState, TxStates
  <1>3. /\ u.fifo = s.fifo /\ u.waitAck = s.waitAck /\ u.txState = "IDLE"
        /\ u.ackFlags = s.ackFlags /\ u.ackNo = s.ackNo /\ u.reset = s.reset /\ u.attempts = s.attempts
    BY <1>1 DEF TxCompleteAck, LLState
  <1> HIDE DEF u
  <1> QED  BY <1>2, <1>3 DEF LLInv, SentInv, HeadSent, WaitStates, AckNumbered, u

\* The packet has left: from here on its alarm runs, if it is still unanswered.
LEMMA TxStartWaitingAckInv ==
  ASSUME NEW s, LLInv(s), s.txState = "PKT_SENT"
  PROVE  LLInv(TxStartWaitingAck(s)) /\ SentInv(TxStartWaitingAck(s))
  <1> DEFINE u == TxStartWaitingAck(s)
  <1>1. s \in LLState  BY DEF LLInv
  <1>2. u \in LLState  BY <1>1 DEF TxStartWaitingAck, LLState, TxStates, Alarms
  <1>3. /\ u.fifo = s.fifo /\ u.txState = "IDLE"
        /\ u.waitAck = IF HeadSent(s) THEN "RUNNING" ELSE s.waitAck
        /\ u.ackFlags = s.ackFlags /\ u.ackNo = s.ackNo /\ u.reset = s.reset
    BY <1>1 DEF TxStartWaitingAck, LLState, HeadSent
  <1>4. s.waitAck = "INFINITE"  BY DEF LLInv, WaitStates
  <1> HIDE DEF u
  <1> QED  BY <1>2, <1>3, <1>4 DEF LLInv, SentInv, HeadSent, WaitStates, AckNumbered, u

LEMMA ArmResetInv ==
  ASSUME NEW s, LLInv(s)
  PROVE  /\ LLInv(ArmReset(s))
         /\ SentInv(s) => SentInv(ArmReset(s))
         /\ ArmReset(s).txState = s.txState
  <1> DEFINE u == ArmReset(s)
  <1>1. s \in LLState /\ s.reset = "INFINITE"  BY DEF LLInv
  <1>2. u \in LLState  BY <1>1 DEF ArmReset, LLState, Alarms
  <1>3. /\ u.fifo = s.fifo /\ u.waitAck = s.waitAck /\ u.txState = s.txState
        /\ u.ackFlags = s.ackFlags /\ u.ackNo = s.ackNo /\ u.reset = s.reset /\ u.attempts = s.attempts
    BY <1>1 DEF ArmReset, LLState
  <1> HIDE DEF u
  <1> QED  BY <1>2, <1>3 DEF LLInv, SentInv, HeadSent, AckNumbered, u

\* The head is marked unsent and its alarm switched off: what a NACK, a
\* time-out and the error state all do, with the count of misses set to m.
LEMMA RetransmitInv ==
  ASSUME NEW s, NEW m \in Nat, LLInv(s)
  PROVE  LET u == ChangeSendingPktState([s EXCEPT !.waitAck = "INFINITE", !.missing = m], FALSE)
         IN LLInv(u) /\ SentInv(u) /\ u.txState = s.txState /\ u.waitAck = "INFINITE"
  <1> DEFINE r == [s EXCEPT !.waitAck = "INFINITE", !.missing = m]
             u == ChangeSendingPktState(r, FALSE)
  <1>1. s \in LLState  BY DEF LLInv
  <1>2. r \in LLState  BY <1>1 DEF LLState, Alarms
  <1>3. u \in LLState
    <2> HIDE DEF r
    <2> QED  BY <1>2, ChangeSendingPktStateType
  <1>4. /\ u.fifo = MarkHead(s.fifo, FALSE) /\ u.waitAck = "INFINITE"
        /\ u.txState = s.txState /\ u.attempts = s.attempts
        /\ u.ackFlags = s.ackFlags /\ u.ackNo = s.ackNo /\ u.reset = s.reset
    BY <1>1 DEF ChangeSendingPktState, LLState
  <1> HIDE DEF u, r
  <1>5. TailUnsent(u.fifo) /\ ~ HeadSent(u)
    BY <1>1, <1>4, MarkHeadProps DEF LLInv, LLState, HeadSent
  <1> QED  BY <1>3, <1>4, <1>5 DEF LLInv, SentInv, AckNumbered, u, r

\* The head leaves the queue with its alarm (an ACK, or given up).
LEMMA ReleaseInv ==
  ASSUME NEW s, LLInv(s)
  PROVE  LET u == Dequeue([s EXCEPT !.waitAck = "INFINITE", !.missing = 0])
         IN LLInv(u) /\ SentInv(u) /\ u.txState = s.txState /\ u.waitAck = "INFINITE"
  <1> DEFINE r == [s EXCEPT !.waitAck = "INFINITE", !.missing = 0]
             u == Dequeue(r)
  <1>1. s \in LLState  BY DEF LLInv
  <1>2. r \in LLState  BY <1>1 DEF LLState, Alarms
  <1>3. u \in LLState
    <2> HIDE DEF r
    <2> QED  BY <1>2, DequeueType
  <1>4. /\ u.fifo = DropHead(s.fifo) /\ u.waitAck = "INFINITE"
        /\ u.txState = s.txState /\ u.attempts = s.attempts
        /\ u.ackFlags = s.ackFlags /\ u.ackNo = s.ackNo /\ u.reset = s.reset
    BY <1>1 DEF Dequeue, LLState
  <1> HIDE DEF u, r
  <1>5. TailUnsent(u.fifo) /\ ~ HeadSent(u)
    BY <1>1, <1>4, DropHeadProps DEF LLInv, LLState, HeadSent
  <1> QED  BY <1>3, <1>4, <1>5 DEF LLInv, SentInv, AckNumbered, u, r

\* One run of zbncp_ll_process_tx.
LEMMA ProcessTxInv ==
  ASSUME NEW s, NEW body \in Nat, LLInv(s)
  PROVE  /\ LLInv(ProcessTx(s, body))
         /\ SentInv(s) => SentInv(ProcessTx(s, body))
         /\ s.txState \in {"SENDING_ACK", "SENDING_PKT", "ERROR"} =>
              ProcessTx(s, body).txState = s.txState
  <1> DEFINE v == ProcessTx(s, body)
             u == TxAllocPkt(s, body)
  <1>1. LLInv(u) /\ (SentInv(s) => SentInv(u)) /\ u.txState = s.txState  BY TxAllocPktInv
  <1>2. u \in LLState  BY <1>1 DEF LLInv
  <1> HIDE DEF u
  <1>3. CASE u.txState = "IDLE"
    <2>1. v = TxStartSending(u)  BY <1>3 DEF ProcessTx, u
    <2> QED  BY <1>1, <1>3, <2>1, TxStartSendingInv
  <1>4. CASE u.txState = "ACK_SENT"
    <2>1. v = TxCompleteAck(u)  BY <1>4 DEF ProcessTx, u
    <2> QED  BY <1>1, <1>4, <2>1, TxCompleteAckInv
  <1>5. CASE u.txState = "PKT_SENT"
    <2>1. v = TxStartWaitingAck(u)  BY <1>5 DEF ProcessTx, u
    <2> QED  BY <1>1, <1>5, <2>1, TxStartWaitingAckInv
  <1>6. CASE u.txState = "ERROR"
    <2> DEFINE r == ChangeSendingPktState([u EXCEPT !.waitAck = "INFINITE", !.missing = u.missing], FALSE)
    <2>1. [u EXCEPT !.waitAck = "INFINITE", !.missing = u.missing] = [u EXCEPT !.waitAck = "INFINITE"]
      BY <1>2 DEF LLState
    <2>2. v = ArmReset(r)  BY <1>6, <2>1 DEF ProcessTx, u
    <2>3. u.missing \in Nat  BY <1>2 DEF LLState
    <2>4. LLInv(r) /\ SentInv(r) /\ r.txState = "ERROR"  BY <1>1, <1>6, <2>3, RetransmitInv
    <2> HIDE DEF r
    <2> QED  BY <1>1, <1>6, <2>2, <2>4, ArmResetInv
  <1>7. CASE u.txState \in {"SENDING_ACK", "SENDING_PKT"}
    <2>1. v = u  BY <1>7 DEF ProcessTx, u
    <2> QED  BY <1>1, <2>1
  <1>8. u.txState \in TxStates  BY <1>2 DEF LLState
  <1> QED  BY <1>1, <1>3, <1>4, <1>5, <1>6, <1>7, <1>8 DEF TxStates

----------------------------------------------------------------------------
(* The receiver: it leaves tx.state alone. *)

LEMMA TxCompletePktInv ==
  ASSUME NEW s, LLInv(s)
  PROVE  /\ LLInv(TxCompletePkt(s))
         /\ SentInv(s) => SentInv(TxCompletePkt(s))
         /\ TxCompletePkt(s).txState = s.txState
         /\ TxCompletePkt(s).waitAck \in {s.waitAck, "INFINITE"}
  <1> DEFINE v == TxCompletePkt(s)
  <1>1. s \in LLState  BY DEF LLInv
  <1>2. CASE Releases(s)
    <2>1. v = Dequeue([s EXCEPT !.waitAck = "INFINITE", !.missing = 0])  BY <1>2 DEF TxCompletePkt
    <2> HIDE DEF v
    <2> QED  BY <2>1, ReleaseInv DEF v
  <1>3. CASE Answers(s) /\ ~ Releases(s)
    <2>1. [s EXCEPT !.waitAck = "INFINITE", !.missing = s.missing] = [s EXCEPT !.waitAck = "INFINITE"]
      BY <1>1 DEF LLState
    <2>2. v = ChangeSendingPktState([s EXCEPT !.waitAck = "INFINITE", !.missing = s.missing], FALSE)
      BY <1>3, <2>1 DEF TxCompletePkt
    <2>3. s.missing \in Nat  BY <1>1 DEF LLState
    <2> HIDE DEF v
    <2> QED  BY <2>2, <2>3, RetransmitInv DEF v
  <1>4. CASE ~ Answers(s)
    <2>1. v = s  BY <1>4 DEF TxCompletePkt, Releases
    <2> QED  BY <2>1
  <1> QED  BY <1>2, <1>3, <1>4

LEMMA RxAnswerBodyInv ==
  ASSUME NEW s, NEW hasPlace \in BOOLEAN, LLInv(s)
  PROVE  /\ LLInv(RxAnswerBody(s, hasPlace))
         /\ SentInv(s) => SentInv(RxAnswerBody(s, hasPlace))
         /\ RxAnswerBody(s, hasPlace).txState = s.txState
         /\ RxAnswerBody(s, hasPlace).waitAck = s.waitAck
  <1> DEFINE v == RxAnswerBody(s, hasPlace)
  <1>1. s \in LLState  BY DEF LLInv
  <1>2. ASSUME NEW flags \in {"ACK", "NACK"}
        PROVE  LET u == Acknowledge(s, s.pkt.num, flags)
               IN LLInv(u) /\ (SentInv(s) => SentInv(u)) /\ u.txState = s.txState /\ u.waitAck = s.waitAck
    <2> DEFINE u == Acknowledge(s, s.pkt.num, flags)
    <2>1. s.pkt.num \in FrameNo  BY <1>1 DEF LLState, Frame
    <2>2. s.pkt.num \in 0..4 /\ flags \in AckFlags  BY <2>1 DEF FrameNo, AckFlags
    <2>3. u \in LLState  BY <1>1, <2>2 DEF Acknowledge, LLState
    <2>4. /\ u.fifo = s.fifo /\ u.waitAck = s.waitAck /\ u.txState = s.txState
          /\ u.ackNo = s.pkt.num /\ u.reset = s.reset /\ u.attempts = s.attempts
      BY <1>1 DEF Acknowledge, LLState
    <2> HIDE DEF u
    <2> QED  BY <2>1, <2>3, <2>4 DEF LLInv, SentInv, HeadSent, AckNumbered, u
  <1>3. v \in {s, Acknowledge(s, s.pkt.num, "ACK"), Acknowledge(s, s.pkt.num, "NACK")}
    BY DEF RxAnswerBody
  <1> HIDE DEF v
  <1> QED  BY <1>2, <1>3 DEF v

\* What moves only the receiver's state and packet keeps the invariant.
LEMMA RxOnlyInv ==
  ASSUME NEW s, NEW x \in RxStates, NEW f \in Frame, LLInv(s)
  PROVE  LET u == [s EXCEPT !.rxState = x, !.pkt = f]
         IN LLInv(u) /\ (SentInv(s) => SentInv(u)) /\ u.txState = s.txState /\ u.waitAck = s.waitAck
  <1> DEFINE u == [s EXCEPT !.rxState = x, !.pkt = f]
  <1>1. s \in LLState  BY DEF LLInv
  <1>2. u \in LLState  BY <1>1 DEF LLState
  <1>3. /\ u.fifo = s.fifo /\ u.waitAck = s.waitAck /\ u.txState = s.txState
        /\ u.ackFlags = s.ackFlags /\ u.ackNo = s.ackNo /\ u.reset = s.reset /\ u.attempts = s.attempts
    BY <1>1 DEF LLState
  <1> HIDE DEF u
  <1> QED  BY <1>2, <1>3 DEF LLInv, SentInv, HeadSent, AckNumbered, u

\* One run of zbncp_ll_process_rx.
LEMMA ProcessRxInv ==
  ASSUME NEW s, NEW hasPlace \in BOOLEAN, LLInv(s)
  PROVE  /\ LLInv(ProcessRx(s, hasPlace))
         /\ SentInv(s) => SentInv(ProcessRx(s, hasPlace))
         /\ ProcessRx(s, hasPlace).txState = s.txState
         /\ ProcessRx(s, hasPlace).waitAck \in {s.waitAck, "INFINITE"}
  <1> DEFINE v == ProcessRx(s, hasPlace)
  <1>1. s \in LLState  BY DEF LLInv
  <1>2. s.pkt \in Frame /\ NoFrame \in Frame  BY <1>1, FrameFacts DEF LLState
  <1>3. ASSUME NEW x \in RxStates, v = [s EXCEPT !.rxState = x]
        PROVE  LLInv(v) /\ (SentInv(s) => SentInv(v)) /\ v.txState = s.txState /\ v.waitAck = s.waitAck
    <2>1. v = [s EXCEPT !.rxState = x, !.pkt = s.pkt]  BY <1>1, <1>3 DEF LLState
    <2> HIDE DEF v
    <2> QED  BY <1>2, <2>1, RxOnlyInv
  <1>4. CASE s.rxState = "IDLE"
    <2>1. v = [s EXCEPT !.rxState = "RECEIVING_HDR", !.pkt = NoFrame]
      BY <1>4 DEF ProcessRx, RxStartReceiving
    <2>2. "RECEIVING_HDR" \in RxStates  BY DEF RxStates
    <2> HIDE DEF v
    <2>3. LLInv(v) /\ (SentInv(s) => SentInv(v)) /\ v.txState = s.txState /\ v.waitAck = s.waitAck
      BY <1>2, <2>1, <2>2, RxOnlyInv
    <2> QED  BY <2>3 DEF v
  <1>5. CASE s.rxState = "HDR_RECEIVED"
    <2> DEFINE x == CASE s.pkt.hdr = "BAD_CRC" -> "RESYNC"
                      [] s.pkt.hdr = "BAD_LEN" -> "IDLE"
                      [] OTHER                 -> "HDR_VALIDATED"
    <2>1. v = [s EXCEPT !.rxState = x]  BY <1>5 DEF ProcessRx, RxValidateHeader
    <2>2. x \in RxStates  BY DEF RxStates
    <2> HIDE DEF v, x
    <2> QED  BY <1>3, <2>1, <2>2 DEF v
  <1>6. CASE s.rxState = "HDR_VALIDATED"
    <2> DEFINE x == IF s.pkt.body # 0 THEN "RECEIVING_BODY" ELSE "BODY_RECEIVED"
    <2>1. v = [s EXCEPT !.rxState = x]  BY <1>6 DEF ProcessRx, RxContinueReceiving
    <2>2. x \in RxStates  BY DEF RxStates
    <2> HIDE DEF v, x
    <2> QED  BY <1>3, <2>1, <2>2 DEF v
  <1>7. CASE s.rxState = "BODY_RECEIVED"
    <2> DEFINE r == TxCompletePkt(s)
               a == RxAnswerBody(r, hasPlace)
    <2>1. v = [a EXCEPT !.rxState = "RECEIVING_HDR", !.pkt = NoFrame]
      BY <1>7 DEF ProcessRx, RxCompleteReceiving, RxStartReceiving
    <2>2. /\ LLInv(r) /\ (SentInv(s) => SentInv(r))
          /\ r.txState = s.txState /\ r.waitAck \in {s.waitAck, "INFINITE"}
      BY TxCompletePktInv
    <2> HIDE DEF r
    <2>3. LLInv(a) /\ (SentInv(r) => SentInv(a)) /\ a.txState = r.txState /\ a.waitAck = r.waitAck
      BY <2>2, RxAnswerBodyInv
    <2>4. "RECEIVING_HDR" \in RxStates  BY DEF RxStates
    <2> HIDE DEF a, v
    <2>5. LLInv(v) /\ (SentInv(a) => SentInv(v)) /\ v.txState = a.txState /\ v.waitAck = a.waitAck
      BY <1>2, <2>1, <2>3, <2>4, RxOnlyInv
    <2> QED  BY <2>2, <2>3, <2>5 DEF v
  <1>8. CASE s.rxState = "ERROR"
    <2>1. v = ArmReset(s)  BY <1>8 DEF ProcessRx
    <2>2. ArmReset(s).waitAck = s.waitAck  BY <1>1 DEF ArmReset, LLState
    <2> HIDE DEF v
    <2> QED  BY <2>1, <2>2, ArmResetInv DEF v
  <1>9. CASE s.rxState \in {"RECEIVING_HDR", "RECEIVING_BODY", "RESYNC"}
    <2>1. v = s  BY <1>9 DEF ProcessRx
    <2> QED  BY <2>1
  <1>10. s.rxState \in RxStates  BY <1>1 DEF LLState
  <1> QED  BY <1>4, <1>5, <1>6, <1>7, <1>8, <1>9, <1>10 DEF RxStates

----------------------------------------------------------------------------
(* The alarms and the whole quantum. *)

LEMMA AlarmUpdateTimeInv ==
  ASSUME NEW s, NEW elapsed \in BOOLEAN, LLInv(s)
  PROVE  /\ LLInv(AlarmUpdateTime(s, elapsed))
         /\ SentInv(s) => SentInv(AlarmUpdateTime(s, elapsed))
         /\ AlarmUpdateTime(s, elapsed).txState = s.txState
  <1> DEFINE u == AlarmUpdateTime(s, elapsed)
  <1>1. s \in LLState  BY DEF LLInv
  <1>2. u \in LLState  BY <1>1 DEF AlarmUpdateTime, LLState, Alarms
  <1>3. /\ u.fifo = s.fifo /\ u.txState = s.txState
        /\ u.waitAck = "INFINITE" <=> s.waitAck = "INFINITE"
        /\ u.ackFlags = s.ackFlags /\ u.ackNo = s.ackNo /\ u.reset = s.reset /\ u.attempts = s.attempts
    BY <1>1 DEF AlarmUpdateTime, LLState
  <1> HIDE DEF u
  <1> QED  BY <1>2, <1>3 DEF LLInv, SentInv, HeadSent, AckNumbered, u

\* After the alarms are checked none is left at "NOW".  The reset alarm is
\* never armed (link_refused): an end in the error state stays there.
LEMMA AlarmCheckInv ==
  ASSUME NEW s, LLInv(s)
  PROVE  /\ LLInv(AlarmCheck(s))
         /\ SentInv(s) => SentInv(AlarmCheck(s))
         /\ AlarmCheck(s).txState = s.txState
         /\ AlarmCheck(s).waitAck # "NOW"
  <1>1. s \in LLState /\ s.reset = "INFINITE"  BY DEF LLInv
  <1>2. CASE s.waitAck = "NOW"
    <2> DEFINE u == AlertWaitAck(s)
    <2>1. s.missing + 1 \in Nat  BY <1>1 DEF LLState
    <2>2. u = ChangeSendingPktState([s EXCEPT !.waitAck = "INFINITE", !.missing = s.missing + 1], FALSE)
      BY DEF AlertWaitAck
    <2>3. u.reset = "INFINITE"  BY <1>1 DEF AlertWaitAck, ChangeSendingPktState, LLState
    <2>4. AlarmCheck(s) = u  BY <1>2, <2>3 DEF AlarmCheck
    <2> HIDE DEF u
    <2>5. LLInv(u) /\ SentInv(u) /\ u.txState = s.txState /\ u.waitAck = "INFINITE"
      BY <2>1, <2>2, RetransmitInv
    <2> QED  BY <2>4, <2>5
  <1>3. CASE s.waitAck # "NOW"
    <2>1. AlarmCheck(s) = s  BY <1>1, <1>3 DEF AlarmCheck
    <2> QED  BY <2>1, <1>3
  <1> QED  BY <1>2, <1>3

\* One quantum: zbncp_ll_poll.  A completion that is due finds tx.state as it was
\* when the transport was asked, and the error state is not left.
LEMMA PollInv ==
  ASSUME NEW s, NEW body \in Nat, NEW hasPlace \in BOOLEAN, NEW elapsed \in BOOLEAN, LLInv(s)
  PROVE  /\ LLInv(PollTx(s, body, elapsed))
         /\ LLInv(Poll(s, body, hasPlace, elapsed))
         /\ SentInv(s) => SentInv(Poll(s, body, hasPlace, elapsed))
         /\ Poll(s, body, hasPlace, elapsed).waitAck # "NOW"
         /\ Poll(s, body, hasPlace, elapsed).txState = PollTx(s, body, elapsed).txState
         /\ s.txState \in {"SENDING_ACK", "SENDING_PKT", "ERROR"} =>
              PollTx(s, body, elapsed).txState = s.txState
  <1> DEFINE a == AlarmUpdateTime(s, elapsed)
             t == ProcessTx(a, body)
             r == ProcessRx(t, hasPlace)
             v == AlarmCheck(r)
  <1>1. LLInv(a) /\ (SentInv(s) => SentInv(a)) /\ a.txState = s.txState  BY AlarmUpdateTimeInv
  <1>2. PollTx(s, body, elapsed) = t  BY DEF PollTx
  <1>3. Poll(s, body, hasPlace, elapsed) = v  BY DEF Poll, PollRx, PollTx
  <1> HIDE DEF a
  <1>4. /\ LLInv(t) /\ (SentInv(a) => SentInv(t))
        /\ a.txState \in {"SENDING_ACK", "SENDING_PKT", "ERROR"} => t.txState = a.txState
    BY <1>1, ProcessTxInv
  <1> HIDE DEF t
  <1>5. LLInv(r) /\ (SentInv(t) => SentInv(r)) /\ r.txState = t.txState  BY <1>4, ProcessRxInv
  <1> HIDE DEF r
  <1>6. /\ LLInv(v) /\ (SentInv(r) => SentInv(v)) /\ v.txState = r.txState
        /\ v.waitAck # "NOW"
    BY <1>5, AlarmCheckInv
  <1> QED  BY <1>1, <1>2, <1>3, <1>4, <1>5, <1>6

\* What the transmitter hands to the transport is a frame.
LEMMA OutgoingFrame ==
  ASSUME NEW s, NEW body \in Nat, LLInv(s),
         s.txState = "IDLE", ProcessTx(s, body).txState \in {"SENDING_ACK", "SENDING_PKT"}
  PROVE  Outgoing(ProcessTx(s, body)) \in Frame
  <1> DEFINE t == ProcessTx(s, body)
  <1>1. LLInv(t)  BY ProcessTxInv
  <1>2. t \in LLState  BY <1>1 DEF LLInv
  <1>3. CASE t.txState = "SENDING_ACK"
    <2> HIDE DEF t
    <2> QED  BY <1>2, <1>3 DEF Outgoing, LLState, t
  <1>4. CASE t.txState = "SENDING_PKT" /\ t.fifo # << >>
    <2> HIDE DEF t
    <2>1. Head(t.fifo) \in Pkt  BY <1>2, <1>4, HeadTailProperties DEF LLState
    <2>2. PktFrame(Head(t.fifo).num, Head(t.fifo).body) \in Frame  BY <2>1, FrameFacts DEF Pkt
    <2> QED  BY <1>4, <2>2 DEF Outgoing, t
  <1>5. t.txState = "SENDING_PKT" => t.fifo # << >>
    <2> DEFINE u == TxAllocPkt(s, body)
               w == TxPopAck(TxGiveUp(u))
    <2>1. LLInv(u) /\ u.txState = "IDLE"  BY TxAllocPktInv
    <2>2. t = TxStartSending(u)  BY <2>1 DEF ProcessTx
    <2> HIDE DEF u, t
    <2>3. LLInv(w) /\ w.txState = "IDLE"  BY <2>1, TxGiveUpInv, TxPopAckInv
    <2>4. u \in LLState /\ w \in LLState  BY <2>1, <2>3 DEF LLInv
    <2>5. SUFFICES ASSUME t.txState = "SENDING_PKT"  PROVE t.fifo # << >>
      OBVIOUS
    <2> DEFINE c == ChangeSendingPktState(w, TRUE)
    <2> HIDE DEF w
    <2>6. t = [c EXCEPT !.txState = "SENDING_PKT"] /\ w.fifo # << >>
      <3>1. CASE u.attempts >= TX_ATTEMPTS
        <4>1. t.txState = "ERROR"  BY <2>2, <2>4, <3>1 DEF TxStartSending, LLState
        <4> QED  BY <2>5, <4>1
      <3>2. CASE ~ (u.attempts >= TX_ATTEMPTS) /\ w.ack # NoFrame
        <4>1. t = [w EXCEPT !.txState = "SENDING_ACK"]  BY <2>2, <3>2 DEF TxStartSending, w
        <4>2. t.txState = "SENDING_ACK"  BY <2>4, <4>1 DEF LLState
        <4> QED  BY <2>5, <4>2
      <3>3. CASE /\ ~ (u.attempts >= TX_ATTEMPTS) /\ w.ack = NoFrame
                 /\ w.fifo # << >> /\ ~ Head(w.fifo).sent
        BY <2>2, <3>3 DEF TxStartSending, w
      <3>4. CASE /\ ~ (u.attempts >= TX_ATTEMPTS) /\ w.ack = NoFrame
                 /\ ~ (w.fifo # << >> /\ ~ Head(w.fifo).sent)
        <4>1. t = w  BY <2>2, <3>4 DEF TxStartSending, w
        <4> QED  BY <2>3, <2>5, <4>1
      <3> QED  BY <3>1, <3>2, <3>3, <3>4
    <2>7. c.fifo = MarkHead(w.fifo, TRUE) /\ c \in LLState
      BY <2>4, ChangeSendingPktStateType DEF ChangeSendingPktState, LLState
    <2>8. MarkHead(w.fifo, TRUE) # << >>  BY <2>4, <2>6, MarkHeadProps DEF LLState
    <2> HIDE DEF c
    <2> QED  BY <2>6, <2>7, <2>8 DEF LLState
  <1> QED  BY <1>3, <1>4, <1>5

----------------------------------------------------------------------------
(* The packets an end sends, numbered. *)

\* The frame number of packet n: the boot number, then 1, 2, 3, 1, ...
Num(n) == IF n = 1 THEN 0 ELSE ((n - 2) % 3) + 1

\* The queue holds packets r + 1, r + 2, ...
Numbered(q, r) == \A i \in 1..Len(q) : q[i].body = r + i /\ q[i].num = Num(r + i)

\* The end has taken acc packets and is done with r of them.
QInv(s, r, acc) == /\ acc = r + Len(s.fifo)
                   /\ Numbered(s.fifo, r)
                   /\ s.frameno = Num(acc + 1)
                   /\ s.missing > 0 => s.fifo # << >>
                   /\ s.ack.body = 0

\* How many packets an event counts for.
One(b) == IF b THEN 1 ELSE 0

\* zbncp_ll_tx_alloc_frameno numbers the packets as Num does.
LEMMA NumFacts ==
  ASSUME NEW n \in Nat, n > 0
  PROVE  /\ Num(n) \in FrameNo
         /\ NextFrameno(Num(n)) = Num(n + 1)
         /\ Num(n) = NUM_BOOT <=> n = 1
         /\ Num(n) # NUM_RX_INIT
  BY DEF Num, FrameNo, NextFrameno, NUM_BOOT, NUM_RX_INIT

\* Three packets in a row carry different numbers.
LEMMA NumClose ==
  ASSUME NEW n \in Nat, NEW m \in Nat, n > 0, m > 0, Num(n) = Num(m), n <= m + 2, m <= n + 2
  PROVE  n = m
  BY DEF Num

\* Marking the head leaves the packets queued and their numbers as they are.
LEMMA MarkNumbered ==
  ASSUME NEW q \in Seq(Pkt), NEW sent \in BOOLEAN, NEW r \in Nat
  PROVE  /\ Len(MarkHead(q, sent)) = Len(q)
         /\ Numbered(q, r) => Numbered(MarkHead(q, sent), r)
         /\ MarkHead(q, sent) # << >> <=> q # << >>
  <1>1. CASE q = << >>  BY <1>1 DEF MarkHead
  <1>2. CASE q # << >>
    <2> DEFINE h == [q[1] EXCEPT !.sent = sent]
               u == [q EXCEPT ![1] = h]
    <2>1. 1 \in 1..Len(q)  BY <1>2, EmptySeq
    <2>2. q[1] \in Pkt  BY <2>1
    <2>3. h \in Pkt /\ h.body = q[1].body /\ h.num = q[1].num  BY <2>2 DEF Pkt
    <2>4. MarkHead(q, sent) = u  BY <1>2 DEF MarkHead
    <2> HIDE DEF h
    <2>5. /\ u \in Seq(Pkt) /\ Len(u) = Len(q)
          /\ \A j \in 1..Len(q) : u[j] = IF j = 1 THEN h ELSE q[j]
      BY <2>1, <2>3, ExceptSeq
    <2> HIDE DEF u
    <2>6. u # << >>  BY <2>1, <2>5, EmptySeq
    <2>7. Numbered(q, r) => Numbered(u, r)  BY <2>3, <2>5 DEF Numbered
    <2> QED  BY <1>2, <2>4, <2>5, <2>6, <2>7
  <1> QED  BY <1>1, <1>2

\* Removing the head: packet r + 1 was there, packets r + 2, ... remain.
LEMMA DropNumbered ==
  ASSUME NEW q \in Seq(Pkt), NEW r \in Nat, q # << >>, Numbered(q, r)
  PROVE  /\ Len(DropHead(q)) = Len(q) - 1 /\ Len(q) \in Nat /\ Len(q) > 0
         /\ Numbered(DropHead(q), r + 1)
         /\ Head(q).body = r + 1 /\ Head(q).num = Num(r + 1)
  <1> DEFINE u == Tail(q)
  <1>1. DropHead(q) = u  BY DEF DropHead
  <1>2. /\ u \in Seq(Pkt) /\ Len(u) = Len(q) - 1 /\ Len(q) \in Nat
        /\ \A i \in 1..Len(u) : u[i] = q[i + 1]
    BY HeadTailProperties
  <1>3. 1 \in 1..Len(q) /\ Head(q) = q[1]  BY EmptySeq
  <1> HIDE DEF u
  <1>4. ASSUME NEW i \in 1..Len(u)
        PROVE  u[i].body = (r + 1) + i /\ u[i].num = Num((r + 1) + i)
    <2>1. i + 1 \in 1..Len(q) /\ u[i] = q[i + 1] /\ r + (i + 1) = (r + 1) + i  BY <1>2
    <2> QED  BY <2>1 DEF Numbered
  <1>5. Numbered(u, r + 1)  BY <1>4 DEF Numbered
  <1> QED  BY <1>1, <1>2, <1>3, <1>5 DEF Numbered

\* Queueing the next packet under the next number keeps the queue numbered.
LEMMA AppendNumbered ==
  ASSUME NEW q \in Seq(Pkt), NEW r \in Nat, Numbered(q, r), NEW e \in Pkt,
         e.body = r + Len(q) + 1, e.num = Num(r + Len(q) + 1)
  PROVE  /\ Numbered(Append(q, e), r) /\ Len(Append(q, e)) = Len(q) + 1
         /\ Append(q, e) # << >>
  <1> DEFINE u == Append(q, e)
  <1>1. /\ u \in Seq(Pkt) /\ Len(u) = Len(q) + 1 /\ Len(q) \in Nat
        /\ \A i \in 1..Len(q) : u[i] = q[i]
        /\ u[Len(q) + 1] = e
    BY AppendProperties
  <1> HIDE DEF u
  <1>2. u # << >>  BY <1>1, EmptySeq
  <1>3. ASSUME NEW i \in 1..Len(u)  PROVE u[i].body = r + i /\ u[i].num = Num(r + i)
    <2>1. CASE i \in 1..Len(q)  BY <1>1, <2>1 DEF Numbered
    <2>2. CASE i = Len(q) + 1
      <3>1. r + i = r + Len(q) + 1  BY <1>1, <2>2
      <3> QED  BY <1>1, <2>2, <3>1
    <2> QED  BY <1>1, <2>1, <2>2
  <1> QED  BY <1>1, <1>2, <1>3 DEF u, Numbered

\* What the receiver keeps, and the answer it has to give.
RxSame(s, u)  == u.rxState = s.rxState /\ u.handled = s.handled /\ u.pkt = s.pkt
AckSame(s, u) == u.ack = s.ack /\ u.ackNo = s.ackNo /\ u.ackFlags = s.ackFlags
Popped(s, u)  == /\ s.ackFlags # "NONE" /\ u.ackFlags = "NONE"
                 /\ u.ack = AckFrame(s.ackNo, s.ackFlags)

\* zbncp_ll_tx_alloc_pkt: a packet taken from the user gets its number.
LEMMA TxAllocNumbered ==
  ASSUME NEW s \in LLState, NEW r \in Nat, NEW acc \in Nat, QInv(s, r, acc),
         NEW body \in {0, acc + 1}, NEW u, u = TxAllocPkt(s, body)
  PROVE  /\ QInv(u, r, acc + One(Takes(s, body)))
         /\ RxSame(s, u) /\ AckSame(s, u)
         /\ u.txState = s.txState /\ u.attempts = s.attempts /\ u.missing = s.missing
  <1> DEFINE e == [num |-> s.frameno, body |-> body, sent |-> FALSE]
  <1>1. s.fifo \in Seq(Pkt) /\ Len(s.fifo) \in Nat  BY DEF LLState
  <1>2. CASE ~ Takes(s, body)
    <2>1. u = s /\ acc + One(Takes(s, body)) = acc  BY <1>2 DEF TxAllocPkt, One
    <2> QED  BY <2>1 DEF RxSame, AckSame
  <1>3. CASE Takes(s, body)
    <2>1. body = acc + 1 /\ acc + One(Takes(s, body)) = acc + 1  BY <1>3 DEF Takes, One
    <2>2. e \in Pkt /\ e.body = r + Len(s.fifo) + 1 /\ e.num = Num(r + Len(s.fifo) + 1)
      BY <1>1, <2>1 DEF Pkt, LLState, QInv
    <2>3. u = [s EXCEPT !.fifo = Append(s.fifo, e), !.frameno = NextFrameno(s.frameno)]
      BY <1>3 DEF TxAllocPkt
    <2> HIDE DEF e
    <2>4. /\ u.fifo = Append(s.fifo, e) /\ u.frameno = NextFrameno(s.frameno)
          /\ u.missing = s.missing /\ u.txState = s.txState /\ u.attempts = s.attempts
          /\ RxSame(s, u) /\ AckSame(s, u)
      BY <2>3 DEF LLState, RxSame, AckSame
    <2>5. /\ Numbered(u.fifo, r) /\ Len(u.fifo) = Len(s.fifo) + 1 /\ u.fifo # << >>
      BY <1>1, <2>2, <2>4, AppendNumbered DEF QInv
    <2>6. u.frameno = Num(acc + 2)  BY <2>4, NumFacts DEF QInv
    <2>7. acc + 1 = r + Len(u.fifo)  BY <1>1, <2>5 DEF QInv
    <2>8. u.ack.body = 0  BY <2>4 DEF QInv, AckSame
    <2>9. QInv(u, r, acc + 1)  BY <2>5, <2>6, <2>7, <2>8 DEF QInv
    <2> QED  BY <2>1, <2>4, <2>9
  <1> QED  BY <1>2, <1>3

\* Giving the head up: one more packet is done with.
LEMMA TxGiveUpNumbered ==
  ASSUME NEW s \in LLState, NEW r \in Nat, NEW acc \in Nat, QInv(s, r, acc), NEW u, u = TxGiveUp(s)
  PROVE  /\ QInv(u, r + One(GivesUp(s)), acc)
         /\ GivesUp(s) => s.fifo # << >>
         /\ RxSame(s, u) /\ AckSame(s, u) /\ u.txState = s.txState /\ u.attempts = s.attempts
  <1>1. CASE ~ GivesUp(s)
    <2>1. u = s /\ r + One(GivesUp(s)) = r  BY <1>1 DEF TxGiveUp, One
    <2> QED  BY <1>1, <2>1 DEF RxSame, AckSame
  <1>2. CASE GivesUp(s)
    <2>1. s.fifo \in Seq(Pkt) /\ s.fifo # << >>
      BY <1>2, LLConstants DEF GivesUp, QInv, LLState
    <2>2. /\ u.fifo = DropHead(s.fifo) /\ u.frameno = s.frameno /\ u.missing = 0
          /\ u.txState = s.txState /\ u.attempts = s.attempts
          /\ RxSame(s, u) /\ AckSame(s, u)
      BY <1>2 DEF TxGiveUp, Dequeue, LLState, RxSame, AckSame
    <2>3. /\ Len(u.fifo) = Len(s.fifo) - 1 /\ Numbered(u.fifo, r + 1) /\ Len(s.fifo) \in Nat
      BY <2>1, <2>2, DropNumbered DEF QInv
    <2>4. r + One(GivesUp(s)) = r + 1  BY <1>2 DEF One
    <2> QED  BY <2>1, <2>2, <2>3, <2>4 DEF QInv, AckSame
  <1> QED  BY <1>1, <1>2

\* zbncp_ll_tx_pop_ack touches neither the queue nor the receiver.
LEMMA TxPopNumbered ==
  ASSUME NEW s \in LLState, NEW r \in Nat, NEW acc \in Nat, QInv(s, r, acc), NEW u, u = TxPopAck(s)
  PROVE  /\ QInv(u, r, acc) /\ RxSame(s, u) /\ (AckSame(s, u) \/ Popped(s, u))
         /\ u.txState = s.txState
  <1>1. CASE s.ackFlags # "NONE" /\ s.ack = NoFrame
    <2>1. /\ u.fifo = s.fifo /\ u.frameno = s.frameno /\ u.missing = s.missing
          /\ u.txState = s.txState /\ u.ack = AckFrame(s.ackNo, s.ackFlags)
          /\ RxSame(s, u) /\ Popped(s, u)
      BY <1>1 DEF TxPopAck, LLState, RxSame, Popped
    <2>2. u.ack.body = 0  BY <2>1 DEF AckFrame
    <2> QED  BY <2>1, <2>2 DEF QInv
  <1>2. CASE ~ (s.ackFlags # "NONE" /\ s.ack = NoFrame)
    <2>1. u = s  BY <1>2 DEF TxPopAck
    <2> QED  BY <2>1 DEF RxSame, AckSame
  <1> QED  BY <1>1, <1>2

\* What the transmitter does to the answer it has to give.
AckStep(s, u) == AckSame(s, u) \/ Popped(s, u) \/ (u.ack = NoFrame /\ u.ackNo = s.ackNo /\ u.ackFlags = s.ackFlags)

\* What the transmitter hands to the transport: its answer, or the oldest packet.
Sends(u) == \/ u.txState = "SENDING_ACK" /\ Outgoing(u) = u.ack
            \/ /\ u.txState = "SENDING_PKT" /\ u.fifo # << >>
               /\ Outgoing(u) = PktFrame(Head(u.fifo).num, Head(u.fifo).body)

\* A step that only marks the head keeps the numbers.
LEMMA MarkedNumbered ==
  ASSUME NEW s \in LLState, NEW r \in Nat, NEW acc \in Nat, QInv(s, r, acc), NEW u,
         NEW sent \in BOOLEAN, u.fifo = MarkHead(s.fifo, sent), u.frameno = s.frameno,
         u.missing = s.missing, u.ack = s.ack
  PROVE  QInv(u, r, acc)
  <1>1. s.fifo \in Seq(Pkt)  BY DEF LLState
  <1>2. /\ Len(u.fifo) = Len(s.fifo) /\ (u.fifo # << >> <=> s.fifo # << >>)
        /\ Numbered(s.fifo, r) => Numbered(u.fifo, r)
    BY <1>1, MarkNumbered
  <1> QED  BY <1>2 DEF QInv

\* zbncp_ll_tx_start_sending: gives up, answers or sends the oldest packet.
LEMMA TxStartNumbered ==
  ASSUME NEW s, LLInv(s), NEW r \in Nat, NEW acc \in Nat, QInv(s, r, acc),
         s.txState = "IDLE", NEW u, u = TxStartSending(s)
  PROVE  /\ QInv(u, r + One(GivesUp(s)), acc)
         /\ GivesUp(s) => s.fifo # << >>
         /\ RxSame(s, u) /\ (AckSame(s, u) \/ Popped(s, u))
         /\ u.txState \in {"SENDING_ACK", "SENDING_PKT"} => Sends(u)
  <1>1. s \in LLState  BY DEF LLInv
  <1>2. CASE s.attempts >= TX_ATTEMPTS
    <2>1. u = [s EXCEPT !.txState = "ERROR", !.waitAck = "INFINITE"]  BY <1>2 DEF TxStartSending
    <2>2. /\ u.fifo = s.fifo /\ u.frameno = s.frameno /\ u.missing = s.missing
          /\ u.txState = "ERROR" /\ RxSame(s, u) /\ AckSame(s, u)
      BY <1>1, <2>1 DEF LLState, RxSame, AckSame
    <2>3. ~ GivesUp(s) /\ r + One(GivesUp(s)) = r
      BY <1>1, <1>2, LLConstants DEF GivesUp, LLState, One
    <2> QED  BY <2>2, <2>3 DEF QInv, AckSame
  <1>3. CASE ~ (s.attempts >= TX_ATTEMPTS)
    <2> DEFINE g == TxGiveUp(s)
               w == TxPopAck(g)
               n == r + One(GivesUp(s))
    <2>1. LLInv(g) /\ g \in LLState /\ LLInv(w) /\ w \in LLState
      <3>1. LLInv(g)  BY TxGiveUpInv
      <3> HIDE DEF g
      <3> QED  BY <3>1, TxPopAckInv DEF LLInv
    <2>2. n \in Nat  BY DEF One
    <2>3. /\ QInv(g, n, acc) /\ (GivesUp(s) => s.fifo # << >>) /\ g.txState = "IDLE"
          /\ RxSame(s, g) /\ AckSame(s, g)
      BY <1>1, TxGiveUpNumbered
    <2> HIDE DEF g
    <2>4. /\ QInv(w, n, acc) /\ w.txState = "IDLE" /\ RxSame(g, w)
          /\ AckSame(g, w) \/ Popped(g, w)
      <3> HIDE DEF n
      <3> QED  BY <2>1, <2>2, <2>3, TxPopNumbered
    <2>5. RxSame(s, w) /\ (AckSame(s, w) \/ Popped(s, w))
      BY <2>3, <2>4 DEF RxSame, AckSame, Popped
    <2>6. u = CASE w.ack # NoFrame -> [w EXCEPT !.txState = "SENDING_ACK"]
                [] w.ack = NoFrame /\ w.fifo # << >> /\ ~ Head(w.fifo).sent ->
                     [ChangeSendingPktState(w, TRUE) EXCEPT !.txState = "SENDING_PKT"]
                [] OTHER -> w
      BY <1>3 DEF TxStartSending, g
    <2> HIDE DEF w
    <2>7. CASE w.ack # NoFrame
      <3>1. /\ u.fifo = w.fifo /\ u.frameno = w.frameno /\ u.missing = w.missing
            /\ u.txState = "SENDING_ACK" /\ RxSame(w, u) /\ AckSame(w, u)
        BY <2>1, <2>6, <2>7 DEF LLState, RxSame, AckSame
      <3>2. Outgoing(u) = u.ack  BY <3>1 DEF Outgoing
      <3>3. QInv(u, n, acc)  BY <2>4, <3>1 DEF QInv, AckSame
      <3> QED  BY <2>3, <2>5, <3>1, <3>2, <3>3 DEF RxSame, AckSame, Popped, Sends
    <2>8. CASE w.ack = NoFrame /\ w.fifo # << >> /\ ~ Head(w.fifo).sent
      <3>1. /\ u.fifo = MarkHead(w.fifo, TRUE) /\ u.frameno = w.frameno /\ u.missing = w.missing
            /\ u.txState = "SENDING_PKT" /\ RxSame(w, u) /\ AckSame(w, u)
        BY <2>1, <2>6, <2>8 DEF LLState, ChangeSendingPktState, RxSame, AckSame
      <3>2. w.fifo \in Seq(Pkt)  BY <2>1 DEF LLState
      <3>3. u.fifo # << >>  BY <2>8, <3>1, <3>2, MarkNumbered
      <3>4. Outgoing(u) = PktFrame(Head(u.fifo).num, Head(u.fifo).body)  BY <3>1 DEF Outgoing
      <3>5. QInv(u, n, acc)
        <4> HIDE DEF n
        <4> QED  BY <2>1, <2>2, <2>4, <3>1, MarkedNumbered DEF AckSame
      <3> QED  BY <2>3, <2>5, <3>1, <3>3, <3>4, <3>5 DEF RxSame, AckSame, Popped, Sends
    <2>9. CASE w.ack = NoFrame /\ ~ (w.fifo # << >> /\ ~ Head(w.fifo).sent)
      <3>1. u = w  BY <2>6, <2>9
      <3> QED  BY <2>3, <2>4, <2>5, <3>1
    <2> QED  BY <2>7, <2>8, <2>9
  <1> QED  BY <1>2, <1>3

\* One run of zbncp_ll_process_tx, on an end that has taken acc packets.
LEMMA ProcessTxNumbered ==
  ASSUME NEW s, LLInv(s), NEW r \in Nat, NEW acc \in Nat, QInv(s, r, acc),
         NEW body \in {0, acc + 1}, NEW u, u = ProcessTx(s, body)
  PROVE  LET x == TxAllocPkt(s, body)
         IN /\ QInv(u, r + One(GivesUp(x)), acc + One(Takes(s, body)))
            /\ GivesUp(x) => x.fifo # << >> /\ s.fifo # << >>
            /\ RxSame(s, u) /\ AckStep(s, u)
            /\ s.txState = "IDLE" /\ u.txState \in {"SENDING_ACK", "SENDING_PKT"} => Sends(u)
  <1> DEFINE x == TxAllocPkt(s, body)
             n == acc + One(Takes(s, body))
  <1> SUFFICES /\ QInv(u, r + One(GivesUp(x)), n)
               /\ GivesUp(x) => x.fifo # << >> /\ s.fifo # << >>
               /\ RxSame(s, u) /\ AckStep(s, u)
               /\ s.txState = "IDLE" /\ u.txState \in {"SENDING_ACK", "SENDING_PKT"} => Sends(u)
    OBVIOUS
  <1>1. s \in LLState /\ body \in Nat /\ n \in Nat  BY DEF LLInv, One
  <1>2. LLInv(x) /\ x \in LLState  BY <1>1, TxAllocPktInv DEF LLInv
  <1>3. /\ QInv(x, r, n) /\ RxSame(s, x) /\ AckSame(s, x)
        /\ x.txState = s.txState /\ x.missing = s.missing
    BY <1>1, TxAllocNumbered
  <1>4. u = CASE x.txState = "IDLE"     -> TxStartSending(x)
              [] x.txState = "ACK_SENT" -> TxCompleteAck(x)
              [] x.txState = "PKT_SENT" -> TxStartWaitingAck(x)
              [] x.txState = "ERROR"    ->
                   ArmReset(ChangeSendingPktState([x EXCEPT !.waitAck = "INFINITE"], FALSE))
              [] OTHER -> x
    BY DEF ProcessTx
  <1> HIDE DEF x, n
  <1>5. GivesUp(x) => x.txState = "IDLE" /\ s.fifo # << >>
    BY <1>1, <1>3, LLConstants DEF GivesUp, QInv, LLState
  <1>6. CASE x.txState = "IDLE"
    <2>1. u = TxStartSending(x)  BY <1>4, <1>6
    <2>2. /\ QInv(u, r + One(GivesUp(x)), n) /\ (GivesUp(x) => x.fifo # << >>)
          /\ RxSame(x, u) /\ (AckSame(x, u) \/ Popped(x, u))
          /\ u.txState \in {"SENDING_ACK", "SENDING_PKT"} => Sends(u)
      BY <1>1, <1>2, <1>3, <1>6, <2>1, TxStartNumbered
    <2> QED  BY <1>3, <1>5, <2>2 DEF RxSame, AckSame, Popped, AckStep
  <1>7. CASE x.txState # "IDLE"
    <2>1. ~ GivesUp(x) /\ r + One(GivesUp(x)) = r /\ s.txState # "IDLE"
      BY <1>3, <1>5, <1>7 DEF One
    <2>2. CASE x.txState = "ERROR"
      <3> DEFINE y == ChangeSendingPktState([x EXCEPT !.waitAck = "INFINITE"], FALSE)
      <3>1. u = ArmReset(y)  BY <1>4, <2>2
      <3>2. y \in LLState
        <4>1. [x EXCEPT !.waitAck = "INFINITE"] \in LLState  BY <1>2 DEF LLState, Alarms
        <4> QED  BY <4>1, ChangeSendingPktStateType
      <3>3. /\ y.fifo = MarkHead(x.fifo, FALSE) /\ y.frameno = x.frameno /\ y.missing = x.missing
            /\ RxSame(x, y) /\ AckSame(x, y)
        BY <1>2 DEF LLState, ChangeSendingPktState, RxSame, AckSame
      <3> HIDE DEF y
      <3>4. /\ u.fifo = MarkHead(x.fifo, FALSE) /\ u.frameno = x.frameno /\ u.missing = x.missing
            /\ RxSame(x, u) /\ AckSame(x, u)
        BY <3>1, <3>2, <3>3 DEF ArmReset, LLState, RxSame, AckSame
      <3>5. QInv(u, r, n)  BY <1>1, <1>2, <1>3, <3>4, MarkedNumbered DEF AckSame
      <3> QED  BY <1>3, <2>1, <3>4, <3>5 DEF RxSame, AckSame, AckStep
    <2>3. CASE x.txState # "ERROR"
      <3>1. /\ u.fifo = x.fifo /\ u.frameno = x.frameno /\ u.missing = x.missing
            /\ RxSame(x, u) /\ (AckSame(x, u) \/ (u.ack = NoFrame /\ u.ackNo = x.ackNo /\ u.ackFlags = x.ackFlags))
        BY <1>2, <1>4, <1>7, <2>3
        DEF LLState, TxCompleteAck, TxStartWaitingAck, RxSame, AckSame
      <3>2. u.ack.body = 0  BY <1>3, <3>1 DEF QInv, AckSame, NoFrame, PktFrame
      <3> QED  BY <1>3, <2>1, <3>1, <3>2 DEF QInv, RxSame, AckSame, AckStep
    <2> QED  BY <2>2, <2>3
  <1> QED  BY <1>6, <1>7

----------------------------------------------------------------------------
(* What a quantum does to the receiver and its answers. *)

\* A frame, whole or in part, is in the receiver's hands.
Live(s) == s.rxState \in {"HDR_RECEIVED", "HDR_VALIDATED", "RECEIVING_BODY", "BODY_RECEIVED"}

\* The receiver answers the body it holds.
RxAnswers(t, v) == /\ t.rxState = "BODY_RECEIVED" /\ t.pkt.body # 0
                   /\ v.handled = t.pkt.num /\ v.ackNo = t.pkt.num
                   /\ v.ackFlags \in {"ACK", "NACK"}

\* What zbncp_ll_process_rx does to the receiver.
RxStep(t, v, hasPlace) ==
  /\ v.ack = t.ack
  /\ Live(v) => Live(t) /\ v.pkt = t.pkt /\ t.rxState # "BODY_RECEIVED"
  /\ (AckSame(t, v) /\ v.handled = t.handled) \/ RxAnswers(t, v)
  /\ Delivers(t, hasPlace) => RxAnswers(t, v)
  /\ RxAnswers(t, v) /\ ~ Delivers(t, hasPlace) =>
       \/ Duplicate(t) \/ ~ t.pkt.crcOk \/ t.pkt.hdr = "BAD_TYPE" \/ (AckSame(t, v) /\ v.handled = t.handled)

\* zbncp_ll_tx_complete_pkt: an ACK for the head releases it.
LEMMA TxCompleteNumbered ==
  ASSUME NEW s \in LLState, NEW r \in Nat, NEW acc \in Nat, QInv(s, r, acc), NEW u, u = TxCompletePkt(s)
  PROVE  /\ QInv(u, r + One(Releases(s)), acc)
         /\ RxSame(s, u) /\ AckSame(s, u)
  <1>1. s.fifo \in Seq(Pkt)  BY DEF LLState
  <1>2. CASE Releases(s)
    <2>1. s.fifo # << >>  BY <1>2 DEF Releases, Answers
    <2>2. /\ u.fifo = DropHead(s.fifo) /\ u.frameno = s.frameno /\ u.missing = 0
          /\ RxSame(s, u) /\ AckSame(s, u)
      BY <1>2 DEF TxCompletePkt, Dequeue, LLState, RxSame, AckSame
    <2>3. /\ Len(u.fifo) = Len(s.fifo) - 1 /\ Numbered(u.fifo, r + 1) /\ Len(s.fifo) \in Nat
      BY <1>1, <2>1, <2>2, DropNumbered DEF QInv
    <2>4. r + One(Releases(s)) = r + 1  BY <1>2 DEF One
    <2> QED  BY <2>1, <2>2, <2>3, <2>4 DEF QInv, AckSame
  <1>3. CASE ~ Releases(s)
    <2>1. r + One(Releases(s)) = r  BY <1>3 DEF One
    <2>2. CASE Answers(s)
      <3>1. /\ u.fifo = MarkHead(s.fifo, FALSE) /\ u.frameno = s.frameno /\ u.missing = s.missing
            /\ RxSame(s, u) /\ AckSame(s, u)
        BY <1>3, <2>2 DEF TxCompletePkt, ChangeSendingPktState, LLState, RxSame, AckSame
      <3> QED  BY <2>1, <3>1, MarkedNumbered DEF AckSame
    <2>3. CASE ~ Answers(s)
      <3>1. u = s  BY <2>3 DEF TxCompletePkt, Releases
      <3> QED  BY <2>1, <3>1 DEF RxSame, AckSame
    <2> QED  BY <2>2, <2>3
  <1> QED  BY <1>2, <1>3

\* One run of zbncp_ll_process_rx.
LEMMA ProcessRxNumbered ==
  ASSUME NEW t \in LLState, NEW r \in Nat, NEW acc \in Nat, QInv(t, r, acc),
         NEW hasPlace \in BOOLEAN, NEW v, v = ProcessRx(t, hasPlace)
  PROVE  /\ QInv(v, r + One(Releases(t)), acc)
         /\ RxStep(t, v, hasPlace)
  <1>1. CASE t.rxState = "BODY_RECEIVED"
    <2> DEFINE u == TxCompletePkt(t)
               a == RxAnswerBody(u, hasPlace)
    <2>1. v = [a EXCEPT !.rxState = "RECEIVING_HDR", !.pkt = NoFrame]
      BY <1>1 DEF ProcessRx, RxCompleteReceiving, RxStartReceiving
    <2>2. /\ QInv(u, r + One(Releases(t)), acc) /\ RxSame(t, u) /\ AckSame(t, u)
      BY TxCompleteNumbered
    <2>3. u \in LLState
      <3>1. CASE Releases(t)
        <4>1. [t EXCEPT !.waitAck = "INFINITE", !.missing = 0] \in LLState  BY DEF LLState, Alarms
        <4> QED  BY <3>1, <4>1, DequeueType DEF TxCompletePkt
      <3>2. CASE ~ Releases(t)
        <4>1. [t EXCEPT !.waitAck = "INFINITE"] \in LLState  BY DEF LLState, Alarms
        <4> QED  BY <3>2, <4>1, ChangeSendingPktStateType DEF TxCompletePkt
      <3> QED  BY <3>1, <3>2
    <2> HIDE DEF u
    <2>4. Duplicate(u) <=> Duplicate(t)  BY <2>2 DEF RxSame, Duplicate
    <2>5. \/ a = u /\ ~ Delivers(t, hasPlace)
          \/ \E flags \in {"ACK", "NACK"} :
               /\ a = Acknowledge(u, u.pkt.num, flags) /\ t.pkt.body # 0
               /\ \/ Delivers(t, hasPlace) \/ Duplicate(t)
                  \/ ~ t.pkt.crcOk \/ t.pkt.hdr = "BAD_TYPE"
      BY <1>1, <2>2, <2>4 DEF RxAnswerBody, Delivers, RxSame
    <2>6. CASE a = u /\ ~ Delivers(t, hasPlace)
      <3> HIDE DEF a
      <3>1. /\ v.fifo = u.fifo /\ v.frameno = u.frameno /\ v.missing = u.missing
            /\ AckSame(u, v) /\ v.handled = u.handled /\ v.rxState = "RECEIVING_HDR"
        BY <2>1, <2>3, <2>6 DEF LLState, AckSame
      <3> QED  BY <2>2, <2>6, <3>1 DEF QInv, RxSame, AckSame, RxStep, Live
    <2>7. ASSUME NEW flags \in {"ACK", "NACK"}, a = Acknowledge(u, u.pkt.num, flags), t.pkt.body # 0,
                 \/ Delivers(t, hasPlace) \/ Duplicate(t)
                 \/ ~ t.pkt.crcOk \/ t.pkt.hdr = "BAD_TYPE"
          PROVE  /\ QInv(v, r + One(Releases(t)), acc)
                 /\ RxStep(t, v, hasPlace)
      <3> HIDE DEF a
      <3>1. /\ v.fifo = u.fifo /\ v.frameno = u.frameno /\ v.missing = u.missing
            /\ v.ack = u.ack /\ v.handled = u.pkt.num /\ v.ackNo = u.pkt.num /\ v.ackFlags = flags
            /\ v.rxState = "RECEIVING_HDR"
        BY <2>1, <2>3, <2>7 DEF LLState, Acknowledge
      <3>2. RxAnswers(t, v)  BY <1>1, <2>2, <2>7, <3>1 DEF RxAnswers, RxSame
      <3>3. QInv(v, r + One(Releases(t)), acc)  BY <2>2, <3>1 DEF QInv
      <3>4. ~ Live(v) /\ v.ack = t.ack  BY <2>2, <3>1 DEF Live, AckSame
      <3> QED  BY <2>7, <3>2, <3>3, <3>4 DEF RxStep
    <2> QED  BY <2>5, <2>6, <2>7
  <1>2. CASE t.rxState # "BODY_RECEIVED"
    <2>1. ~ Releases(t) /\ r + One(Releases(t)) = r /\ ~ Delivers(t, hasPlace)
      BY <1>2 DEF Releases, Answers, Delivers, One
    <2>2. /\ v.fifo = t.fifo /\ v.frameno = t.frameno /\ v.missing = t.missing
          /\ AckSame(t, v) /\ v.handled = t.handled
          /\ Live(v) => Live(t) /\ v.pkt = t.pkt
      BY <1>2 DEF ProcessRx, RxStartReceiving, RxValidateHeader, RxContinueReceiving, ArmReset,
                  LLState, RxStates, AckSame, Live
    <2> QED  BY <1>2, <2>1, <2>2 DEF QInv, AckSame, RxStep
  <1> QED  BY <1>1, <1>2

\* The clock, the alarms and the transport's completions leave the numbers alone.
LEMMA AlarmUpdateNumbered ==
  ASSUME NEW s \in LLState, NEW r \in Nat, NEW acc \in Nat, QInv(s, r, acc),
         NEW elapsed \in BOOLEAN, NEW u, u = AlarmUpdateTime(s, elapsed)
  PROVE  QInv(u, r, acc) /\ RxSame(s, u) /\ AckSame(s, u) /\ u.fifo = s.fifo
         /\ u.frameno = s.frameno /\ u.txState = s.txState
  <1>1. /\ u.fifo = s.fifo /\ u.frameno = s.frameno /\ u.missing = s.missing /\ u.txState = s.txState
        /\ RxSame(s, u) /\ AckSame(s, u)
    BY DEF AlarmUpdateTime, LLState, RxSame, AckSame
  <1> QED  BY <1>1 DEF QInv, AckSame

\* zbncp_ll_alert_wait_ack marks the head for retransmission and nothing else.
LEMMA AlarmCheckNumbered ==
  ASSUME NEW s, LLInv(s), NEW r \in Nat, NEW acc \in Nat, QInv(s, r, acc), NEW u, u = AlarmCheck(s)
  PROVE  QInv(u, r, acc) /\ RxSame(s, u) /\ AckSame(s, u)
  <1>1. s \in LLState /\ s.reset = "INFINITE"  BY DEF LLInv
  <1>2. CASE s.waitAck = "NOW"
    <2> DEFINE a == AlertWaitAck(s)
    <2>1. /\ a.fifo = MarkHead(s.fifo, FALSE) /\ a.frameno = s.frameno /\ a.reset = s.reset
          /\ RxSame(s, a) /\ AckSame(s, a)
      BY <1>1 DEF AlertWaitAck, ChangeSendingPktState, LLState, RxSame, AckSame
    <2>2. s.fifo # << >> /\ s.fifo \in Seq(Pkt)  BY <1>1, <1>2 DEF LLInv, HeadSent, LLState
    <2> HIDE DEF a
    <2>3. u = a  BY <1>1, <1>2, <2>1 DEF AlarmCheck, a
    <2>4. /\ Len(a.fifo) = Len(s.fifo) /\ a.fifo # << >>
          /\ Numbered(s.fifo, r) => Numbered(a.fifo, r)
      BY <2>1, <2>2, MarkNumbered
    <2>5. QInv(a, r, acc)  BY <2>1, <2>4 DEF QInv, AckSame
    <2> QED  BY <2>1, <2>3, <2>5
  <1>3. CASE s.waitAck # "NOW"
    <2>1. u = s  BY <1>1, <1>3 DEF AlarmCheck
    <2> QED  BY <2>1 DEF RxSame, AckSame
  <1> QED  BY <1>2, <1>3

\* zbncp_ll_send_complete leaves queue, receiver and answers as they are.
LEMMA SendCompleteNumbered ==
  ASSUME NEW s \in LLState, NEW r \in Nat, NEW acc \in Nat, QInv(s, r, acc),
         NEW status \in SendStatus, NEW u, u = SendComplete(s, status)
  PROVE  QInv(u, r, acc) /\ RxSame(s, u) /\ AckSame(s, u)
  <1>1. /\ u.fifo = s.fifo /\ u.frameno = s.frameno /\ u.missing = s.missing
        /\ RxSame(s, u) /\ AckSame(s, u)
    BY DEF SendComplete, SendStatus, LLState, RxSame, AckSame
  <1> QED  BY <1>1 DEF QInv, AckSame

\* zbncp_ll_recv_complete changes the frame in the receiver's hands only.
LEMMA RecvCompleteNumbered ==
  ASSUME NEW s \in LLState, NEW r \in Nat, NEW acc \in Nat, QInv(s, r, acc),
         NEW f \in Frame, NEW whole \in BOOLEAN, NEW u, u = RecvComplete(s, f, whole)
  PROVE  /\ QInv(u, r, acc) /\ AckSame(s, u) /\ u.handled = s.handled
         /\ s.rxState \in {"RECEIVING_HDR", "RESYNC"} => u.pkt \in {f, [f EXCEPT !.hdr = "BAD_CRC"]}
         /\ s.rxState = "RECEIVING_BODY" => (Live(u) => u.pkt = s.pkt)
  <1>1. /\ u.fifo = s.fifo /\ u.frameno = s.frameno /\ u.missing = s.missing
        /\ u.handled = s.handled /\ AckSame(s, u)
        /\ s.rxState \in {"RECEIVING_HDR", "RESYNC"} => u.pkt \in {f, [f EXCEPT !.hdr = "BAD_CRC"]}
        /\ s.rxState = "RECEIVING_BODY" => u.pkt = s.pkt
    BY DEF RecvComplete, LLState, AckSame
  <1> QED  BY <1>1 DEF QInv, AckSame

\* One quantum: x is the end once it has taken the user's packet, t once it has
\* transmitted, v at the end.
LEMMA QuantumNumbered ==
  ASSUME NEW s, LLInv(s), NEW r \in Nat, NEW acc \in Nat, QInv(s, r, acc),
         NEW body \in {0, acc + 1}, NEW hasPlace \in BOOLEAN, NEW elapsed \in BOOLEAN,
         NEW a, a = AlarmUpdateTime(s, elapsed), NEW x, x = TxAllocPkt(a, body),
         NEW t, t = ProcessTx(a, body), NEW v, v = Poll(s, body, hasPlace, elapsed),
         NEW e, e = r + One(GivesUp(x)), NEW n, n = acc + One(Takes(a, body))
  PROVE  /\ a.fifo = s.fifo /\ a.txState = s.txState /\ e \in Nat /\ n \in Nat
         /\ QInv(t, e, n) /\ QInv(v, e + One(Releases(t)), n)
         /\ GivesUp(x) => s.fifo # << >>
         /\ RxSame(s, t) /\ AckStep(s, t) /\ RxStep(t, v, hasPlace)
         /\ a.txState = "IDLE" /\ t.txState \in {"SENDING_ACK", "SENDING_PKT"} => Sends(t)
         /\ t \in LLState /\ s \in LLState
  <1>1. s \in LLState /\ LLInv(a) /\ body \in Nat /\ e \in Nat /\ n \in Nat
    BY AlarmUpdateTimeInv DEF LLInv, One
  <1>2. /\ QInv(a, r, acc) /\ RxSame(s, a) /\ AckSame(s, a) /\ a.fifo = s.fifo /\ a.txState = s.txState
    BY <1>1, AlarmUpdateNumbered
  <1>3. /\ QInv(t, e, n) /\ (GivesUp(x) => a.fifo # << >>)
        /\ RxSame(a, t) /\ AckStep(a, t)
        /\ a.txState = "IDLE" /\ t.txState \in {"SENDING_ACK", "SENDING_PKT"} => Sends(t)
    BY <1>1, <1>2, ProcessTxNumbered
  <1>4. RxSame(s, t) /\ AckStep(s, t)  BY <1>2, <1>3 DEF RxSame, AckSame, AckStep, Popped
  <1>5. LLInv(t) /\ t \in LLState  BY <1>1, ProcessTxInv DEF LLInv
  <1> DEFINE u == ProcessRx(t, hasPlace)
  <1>6. v = AlarmCheck(u)  BY DEF Poll, PollRx, PollTx
  <1>7. LLInv(u)  BY <1>5, ProcessRxInv
  <1>8. QInv(u, e + One(Releases(t)), n) /\ RxStep(t, u, hasPlace)
    BY <1>1, <1>3, <1>5, ProcessRxNumbered
  <1> HIDE DEF u
  <1>9. QInv(v, e + One(Releases(t)), n) /\ RxSame(u, v) /\ AckSame(u, v)
    <2>1. e + One(Releases(t)) \in Nat  BY <1>1 DEF One
    <2> QED  BY <1>1, <1>6, <1>7, <1>8, <2>1, AlarmCheckNumbered
  <1>10. RxStep(t, v, hasPlace)
    BY <1>8, <1>9 DEF RxStep, RxSame, AckSame, RxAnswers, Live
  <1> QED  BY <1>1, <1>2, <1>3, <1>4, <1>5, <1>9, <1>10

----------------------------------------------------------------------------
(* An end at rest. *)

\* Nothing for the transmitter, nothing for the receiver to do.
TxRests(s) ==
  \/ /\ s.txState = "IDLE" /\ s.attempts < TX_ATTEMPTS /\ s.missing < WAIT_ACK_RETRY
     /\ s.ack = NoFrame /\ s.ackFlags = "NONE"
     /\ s.fifo # << >> => Head(s.fifo).sent
  \/ /\ s.txState = "ERROR" /\ s.waitAck = "INFINITE"
     /\ s.fifo # << >> => ~ Head(s.fifo).sent
  \/ s.txState \in {"SENDING_ACK", "SENDING_PKT"}

RxRests(s) == s.rxState \in {"RECEIVING_HDR", "RECEIVING_BODY", "RESYNC", "ERROR"}

\* A quantum whose transmitter left t and that ended as v came to rest.
CameToRest(t, v) == v = t /\ TxRests(t) /\ RxRests(t) /\ t.waitAck # "NOW"

\* A run of zbncp_ll_process_tx that leaves tx.state as it was had nothing left to do.
LEMMA TxAtRest ==
  ASSUME NEW s, LLInv(s), NEW body \in Nat, NEW t, t = ProcessTx(s, body), t.txState = s.txState
  PROVE  TxRests(t)
  <1>1. PICK x : x = TxAllocPkt(s, body)  OBVIOUS
  <1>2. LLInv(x) /\ x.txState = s.txState  BY <1>1, TxAllocPktInv
  <1>3. x \in LLState  BY <1>2 DEF LLInv
  <1>4. CASE x.txState = "IDLE"
    <2>1. t = TxStartSending(x) /\ t.txState = "IDLE"  BY <1>1, <1>2, <1>4 DEF ProcessTx
    <2>2. ~ (x.attempts >= TX_ATTEMPTS)
      <3> SUFFICES ASSUME x.attempts >= TX_ATTEMPTS  PROVE FALSE
        OBVIOUS
      <3>1. t = [x EXCEPT !.txState = "ERROR", !.waitAck = "INFINITE"]  BY <2>1 DEF TxStartSending
      <3> QED  BY <1>3, <2>1, <3>1 DEF LLState
    <2>3. PICK g : g = TxGiveUp(x)  OBVIOUS
    <2>4. PICK w : w = TxPopAck(g)  OBVIOUS
    <2>5. /\ g \in LLState /\ g.txState = "IDLE" /\ g.attempts = x.attempts
          /\ g.missing < WAIT_ACK_RETRY
      <3>1. g \in LLState  BY <1>3, <2>3, TxGiveUpType
      <3>2. CASE GivesUp(x)
        <4>1. g.missing = 0 /\ g.txState = x.txState /\ g.attempts = x.attempts
          BY <1>3, <2>3, <3>2 DEF TxGiveUp, Dequeue, LLState
        <4> QED  BY <1>4, <3>1, <4>1, LLConstants
      <3>3. CASE ~ GivesUp(x)
        <4>1. g = x  BY <2>3, <3>3 DEF TxGiveUp
        <4>2. x.missing < WAIT_ACK_RETRY
          <5>1. x.attempts < TX_ATTEMPTS  BY <1>3, <2>2, LLConstants DEF LLState
          <5> QED  BY <1>3, <1>4, <3>3, <5>1, LLConstants DEF GivesUp, LLState
        <4> QED  BY <1>4, <3>1, <4>1, <4>2
      <3> QED  BY <3>1, <3>2, <3>3
    <2>6. t = CASE w.ack # NoFrame -> [w EXCEPT !.txState = "SENDING_ACK"]
                [] w.ack = NoFrame /\ w.fifo # << >> /\ ~ Head(w.fifo).sent ->
                     [ChangeSendingPktState(w, TRUE) EXCEPT !.txState = "SENDING_PKT"]
                [] OTHER -> w
      BY <2>1, <2>2, <2>3, <2>4 DEF TxStartSending
    <2>7. CASE g.ackFlags # "NONE" /\ g.ack = NoFrame
      <3>1. w.ack = AckFrame(g.ackNo, g.ackFlags) /\ w.txState = "IDLE" /\ w = [g EXCEPT !.ack = w.ack, !.ackFlags = "NONE"]
        BY <2>4, <2>5, <2>7 DEF TxPopAck, LLState
      <3>2. w.ack # NoFrame  BY <2>7, <3>1 DEF AckFrame, NoFrame, PktFrame
      <3>3. t = [w EXCEPT !.txState = "SENDING_ACK"]  BY <2>6, <3>2
      <3>4. t.txState = "SENDING_ACK"  BY <2>5, <3>1, <3>3 DEF LLState
      <3> QED  BY <2>1, <3>4
    <2>8. CASE ~ (g.ackFlags # "NONE" /\ g.ack = NoFrame)
      <3>1. w = g  BY <2>4, <2>8 DEF TxPopAck
      <3>2. w.ack = NoFrame
        <4> SUFFICES ASSUME w.ack # NoFrame  PROVE FALSE
          OBVIOUS
        <4>1. t = [w EXCEPT !.txState = "SENDING_ACK"]  BY <2>6
        <4> QED  BY <2>1, <2>5, <3>1, <4>1 DEF LLState
      <3>3. w.fifo # << >> => Head(w.fifo).sent
        <4> SUFFICES ASSUME w.fifo # << >>, ~ Head(w.fifo).sent  PROVE FALSE
          OBVIOUS
        <4>1. t = [ChangeSendingPktState(w, TRUE) EXCEPT !.txState = "SENDING_PKT"]  BY <2>6, <3>2
        <4>2. ChangeSendingPktState(w, TRUE) \in LLState  BY <2>5, <3>1, ChangeSendingPktStateType
        <4>3. t.txState = "SENDING_PKT"  BY <4>1, <4>2 DEF LLState
        <4> QED  BY <2>1, <4>3
      <3>4. t = w  BY <2>6, <3>2, <3>3
      <3>5. t.attempts < TX_ATTEMPTS  BY <1>3, <2>2, <2>5, <3>1, <3>4, LLConstants DEF LLState
      <3>6. t.ackFlags = "NONE"  BY <2>8, <3>1, <3>2, <3>4
      <3> QED  BY <2>5, <3>1, <3>2, <3>3, <3>4, <3>5, <3>6 DEF TxRests
    <2> QED  BY <2>7, <2>8
  <1>5. CASE x.txState = "ACK_SENT"
    <2>1. t = [x EXCEPT !.ack = NoFrame, !.txState = "IDLE"]  BY <1>1, <1>5 DEF ProcessTx, TxCompleteAck
    <2>2. t.txState = "IDLE"  BY <1>3, <2>1 DEF LLState
    <2> QED  BY <1>2, <1>5, <2>2
  <1>6. CASE x.txState = "PKT_SENT"
    <2>1. t = TxStartWaitingAck(x)  BY <1>1, <1>6 DEF ProcessTx
    <2>2. t.txState = "IDLE"  BY <1>3, <2>1 DEF TxStartWaitingAck, LLState
    <2> QED  BY <1>2, <1>6, <2>2
  <1>7. CASE x.txState = "ERROR"
    <2>1. PICK y : y = ChangeSendingPktState([x EXCEPT !.waitAck = "INFINITE"], FALSE)  OBVIOUS
    <2>2. t = ArmReset(y)  BY <1>1, <1>7, <2>1 DEF ProcessTx
    <2>3. y.fifo = MarkHead(x.fifo, FALSE) /\ y.waitAck = "INFINITE" /\ y.txState = "ERROR" /\ y \in LLState
      <3>1. [x EXCEPT !.waitAck = "INFINITE"] \in LLState  BY <1>3 DEF LLState, Alarms
      <3>2. y \in LLState  BY <2>1, <3>1, ChangeSendingPktStateType
      <3>3. y.fifo = MarkHead(x.fifo, FALSE) /\ y.waitAck = "INFINITE" /\ y.txState = "ERROR"
        BY <1>3, <1>7, <2>1 DEF ChangeSendingPktState, LLState
      <3> QED  BY <3>2, <3>3
    <2>4. t.fifo = y.fifo /\ t.waitAck = "INFINITE" /\ t.txState = "ERROR"
      BY <2>2, <2>3 DEF ArmReset, LLState
    <2>5. x.fifo \in Seq(Pkt)  BY <1>3 DEF LLState
    <2>6. y.fifo # << >> => ~ Head(y.fifo).sent  BY <2>3, <2>5, MarkHeadProps
    <2> QED  BY <2>4, <2>6 DEF TxRests
  <1>8. CASE x.txState \in {"SENDING_ACK", "SENDING_PKT"}
    <2>1. t = x  BY <1>1, <1>8 DEF ProcessTx
    <2> QED  BY <1>8, <2>1 DEF TxRests
  <1> QED  BY <1>3, <1>4, <1>5, <1>6, <1>7, <1>8 DEF LLState, TxStates

\* A quantum that asks for no further one (zbncp_ll_callme) ends at rest.
LEMMA QuantumAtRest ==
  ASSUME NEW s, LLInv(s), NEW body \in Nat, NEW hasPlace \in BOOLEAN, NEW elapsed \in BOOLEAN,
         NEW a, a = AlarmUpdateTime(s, elapsed), NEW t, t = ProcessTx(a, body),
         NEW v, v = Poll(s, body, hasPlace, elapsed), ~ Service(a, body, hasPlace, FALSE)
  PROVE  CameToRest(t, v)
  <1>1. LLInv(a) /\ a \in LLState  BY AlarmUpdateTimeInv DEF LLInv
  <1>2. AlarmUpdateTime(a, FALSE) = a  BY <1>1 DEF AlarmUpdateTime, LLState
  <1>3. PICK u : u = ProcessRx(t, hasPlace)  OBVIOUS
  <1>4. PollRx(a, body, hasPlace, FALSE) = u  BY <1>2, <1>3 DEF PollRx, PollTx
  <1>5. u.txState = a.txState /\ u.rxState = a.rxState /\ u.waitAck # "NOW" /\ u.reset # "NOW"
    BY <1>4 DEF Service
  <1>6. LLInv(t) /\ t \in LLState  BY <1>1, ProcessTxInv DEF LLInv
  <1>7. u.txState = t.txState /\ LLInv(u)  BY <1>3, <1>6, ProcessRxInv
  <1>8. TxRests(t)  BY <1>1, <1>5, <1>7, TxAtRest
  <1>9. t.rxState = a.rxState
    <2> HIDE <1>4
    <2> QED  BY <1>1, <1>6 DEF ProcessTx, TxStartSending, TxCompleteAck, TxStartWaitingAck, ArmReset,
         ChangeSendingPktState, TxAllocPkt, TxPopAck, TxGiveUp, Dequeue, LLState
  <1>10. v = AlarmCheck(u)  BY <1>3 DEF Poll, PollRx, PollTx
  <1>11. v = u  BY <1>5, <1>10 DEF AlarmCheck
  <1>12. RxRests(t) /\ u = t
    <2>1. u.rxState = t.rxState /\ t.reset = "INFINITE"  BY <1>5, <1>6, <1>9 DEF LLInv
    <2>2. CASE t.rxState = "IDLE"
      BY <1>3, <1>6, <2>1, <2>2 DEF ProcessRx, RxStartReceiving, LLState
    <2>3. CASE t.rxState = "HDR_RECEIVED"
      BY <1>3, <1>6, <2>1, <2>3 DEF ProcessRx, RxValidateHeader, LLState
    <2>4. CASE t.rxState = "HDR_VALIDATED"
      BY <1>3, <1>6, <2>1, <2>4 DEF ProcessRx, RxContinueReceiving, LLState
    <2>5. CASE t.rxState = "BODY_RECEIVED"
      <3>1. u = [RxAnswerBody(TxCompletePkt(t), hasPlace) EXCEPT !.rxState = "RECEIVING_HDR", !.pkt = NoFrame]
        BY <1>3, <2>5 DEF ProcessRx, RxCompleteReceiving, RxStartReceiving
      <3>2. u.rxState = "RECEIVING_HDR"
        BY <1>6, <3>1 DEF RxAnswerBody, TxCompletePkt, Acknowledge, Dequeue, ChangeSendingPktState, LLState
      <3> QED  BY <2>1, <2>5, <3>2
    <2>6. CASE t.rxState = "ERROR"
      <3>1. u = [t EXCEPT !.reset = t.reset]  BY <1>3, <2>1, <2>6 DEF ProcessRx, ArmReset
      <3>2. u = t  BY <1>6, <3>1 DEF LLState
      <3> QED  BY <2>6, <3>2 DEF RxRests
    <2>7. CASE t.rxState \in {"RECEIVING_HDR", "RECEIVING_BODY", "RESYNC"}
      <3>1. u = t  BY <1>3, <2>7 DEF ProcessRx
      <3> QED  BY <2>7, <3>1 DEF RxRests
    <2>8. t.rxState \in RxStates  BY <1>6 DEF LLState
    <2> QED  BY <2>2, <2>3, <2>4, <2>5, <2>6, <2>7, <2>8 DEF RxStates
  <1> QED  BY <1>5, <1>8, <1>11, <1>12 DEF CameToRest

\* An end at rest stays as it is until something happens to it.
LEMMA RestIsStable ==
  ASSUME NEW t \in LLState, t.reset = "INFINITE", t.waitAck # "NOW", TxRests(t), RxRests(t)
  PROVE  Poll(t, 0, TRUE, FALSE) = t
  <1>1. AlarmUpdateTime(t, FALSE) = t  BY DEF AlarmUpdateTime, LLState
  <1>2. TxAllocPkt(t, 0) = t  BY DEF TxAllocPkt, Takes
  <1>3. ProcessTx(t, 0) = t
    <2>1. CASE /\ t.txState = "IDLE" /\ t.attempts < TX_ATTEMPTS /\ t.missing < WAIT_ACK_RETRY
               /\ t.ack = NoFrame /\ t.ackFlags = "NONE"
               /\ t.fifo # << >> => Head(t.fifo).sent
      <3>1. ProcessTx(t, 0) = TxStartSending(t)  BY <1>2, <2>1 DEF ProcessTx
      <3>2. ~ (t.attempts >= TX_ATTEMPTS) /\ ~ (t.missing >= WAIT_ACK_RETRY)
        BY <2>1, LLConstants DEF LLState
      <3>3. TxGiveUp(t) = t  BY <3>2 DEF TxGiveUp, GivesUp
      <3>4. TxPopAck(t) = t  BY <2>1 DEF TxPopAck
      <3> QED  BY <2>1, <3>1, <3>2, <3>3, <3>4 DEF TxStartSending
    <2>2. CASE /\ t.txState = "ERROR" /\ t.waitAck = "INFINITE"
               /\ t.fifo # << >> => ~ Head(t.fifo).sent
      <3>1. [t EXCEPT !.waitAck = "INFINITE"] = t  BY <2>2 DEF LLState
      <3>2. ProcessTx(t, 0) = ArmReset(ChangeSendingPktState(t, FALSE))  BY <1>2, <2>2, <3>1 DEF ProcessTx
      <3>3. MarkHead(t.fifo, FALSE) = t.fifo
        <4>1. CASE t.fifo = << >>  BY <4>1 DEF MarkHead
        <4>2. CASE t.fifo # << >>
          <5>1. PICK q \in Seq(Pkt) : q = t.fifo  BY DEF LLState
          <5>2. 1 \in 1..Len(q) /\ q[1] \in Pkt /\ Head(q) = q[1]  BY <4>2, <5>1, EmptySeq
          <5>3. [q[1] EXCEPT !.sent = FALSE] = q[1]  BY <2>2, <4>2, <5>1, <5>2 DEF Pkt
          <5>4. MarkHead(q, FALSE) = [q EXCEPT ![1] = q[1]]  BY <4>2, <5>1, <5>3 DEF MarkHead
          <5>5. [q EXCEPT ![1] = q[1]] = q  BY <5>1, <5>2
          <5> QED  BY <5>1, <5>4, <5>5
        <4> QED  BY <4>1, <4>2
      <3>4. ChangeSendingPktState(t, FALSE) = t  BY <3>3 DEF ChangeSendingPktState, LLState
      <3>5. ArmReset(t) = t  BY DEF ArmReset, LLState
      <3> QED  BY <3>2, <3>4, <3>5
    <2>3. CASE t.txState \in {"SENDING_ACK", "SENDING_PKT"}
      BY <1>2, <2>3 DEF ProcessTx
    <2> QED  BY <2>1, <2>2, <2>3 DEF TxRests
  <1>4. ProcessRx(t, TRUE) = t
    <2>1. ArmReset(t) = t  BY DEF ArmReset, LLState
    <2> QED  BY <2>1 DEF ProcessRx, RxRests
  <1>5. AlarmCheck(t) = t  BY DEF AlarmCheck
  <1> QED  BY <1>1, <1>3, <1>4, <1>5 DEF Poll, PollRx, PollTx

\* As long as no transmission fails the transmitter counts no attempt and stays out of
\* its error state; it waits for a completion only if it did before or has just sent.
NothingFailed(s, a, t, v) ==
  /\ t.attempts = 0 /\ t.txState # "ERROR" /\ v.attempts = 0 /\ v.txState # "ERROR"
  /\ t.txState \in {"SENDING_ACK", "SENDING_PKT"} => a.txState \in {"IDLE", t.txState}
  /\ v.txState = t.txState /\ a.txState = s.txState

\* One quantum of an end at which none has failed.
LEMMA QuantumAttempts ==
  ASSUME NEW s, LLInv(s), s.attempts = 0, s.txState # "ERROR", NEW body \in Nat,
         NEW hasPlace \in BOOLEAN, NEW elapsed \in BOOLEAN,
         NEW a, a = AlarmUpdateTime(s, elapsed), NEW t, t = ProcessTx(a, body),
         NEW v, v = Poll(s, body, hasPlace, elapsed)
  PROVE  NothingFailed(s, a, t, v)
  <1>1. LLInv(a) /\ a \in LLState /\ a.attempts = 0 /\ a.txState = s.txState
    <2>1. a.attempts = s.attempts /\ a.txState = s.txState  BY DEF AlarmUpdateTime, LLInv, LLState
    <2> QED  BY <2>1, AlarmUpdateTimeInv DEF LLInv
  <1>2. PICK x : x = TxAllocPkt(a, body)  OBVIOUS
  <1>3. LLInv(x) /\ x \in LLState /\ x.attempts = 0 /\ x.txState = a.txState
    <2>1. x.attempts = a.attempts  BY <1>1, <1>2 DEF TxAllocPkt, LLState
    <2> QED  BY <1>1, <1>2, <2>1, TxAllocPktInv DEF LLInv
  <1>4. t.attempts = 0 /\ t.txState # "ERROR"
    <2>1. CASE x.txState = "IDLE"
      <3>1. t = TxStartSending(x)  BY <1>2, <2>1 DEF ProcessTx
      <3>2. ~ (x.attempts >= TX_ATTEMPTS)  BY <1>3, LLConstants
      <3>3. PICK w : w = TxPopAck(TxGiveUp(x))  OBVIOUS
      <3>4. w.attempts = 0 /\ w.txState = "IDLE" /\ w \in LLState
        <4>1. PICK g : g = TxGiveUp(x)  OBVIOUS
        <4>2. g \in LLState  BY <1>3, <4>1, TxGiveUpType
        <4>3. g.attempts = 0 /\ g.txState = "IDLE"
          BY <1>3, <2>1, <4>1 DEF TxGiveUp, Dequeue, LLState
        <4>4. w.attempts = g.attempts /\ w.txState = g.txState  BY <3>3, <4>1, <4>2 DEF TxPopAck, LLState
        <4>5. LLInv(g)  BY <1>3, <4>1, TxGiveUpInv
        <4>6. w \in LLState
          BY <3>3, <4>1, <4>5, TxPopAckType DEF LLInv, AckNumbered
        <4> QED  BY <4>3, <4>4, <4>6
      <3>5. PICK m : m = ChangeSendingPktState(w, TRUE)  OBVIOUS
      <3>6. m \in LLState /\ m.attempts = 0
        <4>1. m \in LLState  BY <3>4, <3>5, ChangeSendingPktStateType
        <4>2. m.attempts = w.attempts  BY <3>4, <3>5 DEF ChangeSendingPktState, LLState
        <4> QED  BY <3>4, <4>1, <4>2
      <3>7. t \in {[w EXCEPT !.txState = "SENDING_ACK"], [m EXCEPT !.txState = "SENDING_PKT"], w}
        BY <3>1, <3>2, <3>3, <3>5 DEF TxStartSending
      <3> QED  BY <3>4, <3>6, <3>7 DEF LLState
    <2>2. CASE x.txState = "ACK_SENT"
      <3>1. t = TxCompleteAck(x)  BY <1>2, <2>2 DEF ProcessTx
      <3> QED  BY <1>3, <3>1 DEF TxCompleteAck, LLState
    <2>3. CASE x.txState = "PKT_SENT"
      <3>1. t = TxStartWaitingAck(x)  BY <1>2, <2>3 DEF ProcessTx
      <3> QED  BY <1>3, <3>1 DEF TxStartWaitingAck, LLState
    <2>4. CASE x.txState \in {"SENDING_ACK", "SENDING_PKT"}
      <3>1. t = x  BY <1>2, <2>4 DEF ProcessTx
      <3> QED  BY <1>3, <2>4, <3>1
    <2> QED  BY <1>1, <1>3, <2>1, <2>2, <2>3, <2>4 DEF LLState, TxStates
  <1>5. t.txState \in {"SENDING_ACK", "SENDING_PKT"} => a.txState \in {"IDLE", t.txState}
    <2>1. CASE x.txState = "ACK_SENT"
      <3>1. t = TxCompleteAck(x)  BY <1>2, <2>1 DEF ProcessTx
      <3> QED  BY <1>3, <3>1 DEF TxCompleteAck, LLState
    <2>2. CASE x.txState = "PKT_SENT"
      <3>1. t = TxStartWaitingAck(x)  BY <1>2, <2>2 DEF ProcessTx
      <3> QED  BY <1>3, <3>1 DEF TxStartWaitingAck, LLState
    <2>3. CASE x.txState \in {"SENDING_ACK", "SENDING_PKT"}
      <3>1. t = x  BY <1>2, <2>3 DEF ProcessTx
      <3> QED  BY <1>3, <2>3, <3>1
    <2> QED  BY <1>1, <1>3, <2>1, <2>2, <2>3 DEF LLState, TxStates
  <1>6. LLInv(t) /\ t \in LLState  BY <1>1, ProcessTxInv DEF LLInv
  <1>7. PICK u : u = ProcessRx(t, hasPlace)  OBVIOUS
  <1>8. LLInv(u) /\ u \in LLState /\ u.txState = t.txState  BY <1>6, <1>7, ProcessRxInv DEF LLInv
  <1>9. u.attempts = t.attempts
    BY <1>6, <1>7 DEF ProcessRx, RxStartReceiving, RxValidateHeader, RxContinueReceiving, RxCompleteReceiving,
       RxAnswerBody, TxCompletePkt, Acknowledge, Dequeue, ChangeSendingPktState, ArmReset, LLState
  <1>10. v = AlarmCheck(u)  BY <1>7 DEF Poll, PollRx, PollTx
  <1>11. v.attempts = u.attempts /\ v.txState = u.txState
    <2>1. u.reset = "INFINITE"  BY <1>8 DEF LLInv
    <2>2. CASE u.waitAck = "NOW"
      <3>1. PICK y : y = AlertWaitAck(u)  OBVIOUS
      <3>2. y.reset = "INFINITE" /\ y.attempts = u.attempts /\ y.txState = u.txState
        BY <1>8, <2>1, <3>1 DEF AlertWaitAck, ChangeSendingPktState, LLState
      <3> QED  BY <1>10, <2>2, <3>1, <3>2 DEF AlarmCheck
    <2>3. CASE u.waitAck # "NOW"
      BY <1>10, <2>1, <2>3 DEF AlarmCheck
    <2> QED  BY <2>2, <2>3
  <1> QED  BY <1>1, <1>4, <1>5, <1>8, <1>9, <1>11 DEF NothingFailed
=============================================================================
