--------------------------- MODULE NcpLink_proofs ---------------------------
(***************************************************************************)
(* Proofs about NcpLink, for every FIFO size, number of retries and mix of *)
(* faults: the type invariant, the stop-and-wait discipline of the queue,  *)
(* the agreement of queue, alarm and transmitter state, the error state    *)
(* that no step leaves, the order of the packets a user gets, what an      *)
(* acknowledgement means, the abstract transfer each direction implements, *)
(* and the wake-ups that are not lost.                                     *)
(***************************************************************************)
EXTENDS NcpLink, NcpLL_proofs

Sending == {"SENDING_ACK", "SENDING_PKT"}

(* The inductive invariant: each LL context is in step with itself (LLInv), no
   alarm is left at "NOW" between two quanta, and a completion is due only while
   the LL waits for it; it is one of those that the faults allow. *)
EndInv(p) == /\ LLInv(ll[p])
             /\ ll[p].waitAck # "NOW"
             /\ sendDone[p] # "NONE" => ll[p].txState \in Sending
             /\ sendDone[p] \in {"NONE", "SUCCESS"} \cup Faults

IInv == TypeOK /\ \A p \in Peer : EndInv(p)

----------------------------------------------------------------------------
(* The helpers of the link. *)

LEMMA OtherPeer == \A p \in Peer : Other(p) \in Peer
  BY DEF Other, Peer

LEMMA DamagedFrames ==
  ASSUME NEW f \in Frame, NEW k \in FaultKinds \cup {"NONE"}, k # "SHORT_READ", k # "NO_PLACE"
  PROVE  Damaged(f, k) \in Seq(Frame)
  <1>1. [f EXCEPT !.crcOk = FALSE] \in Frame  BY DEF Frame
  <1>2. k \in HdrKinds => [f EXCEPT !.hdr = k] \in Frame  BY DEF Frame
  <1>3. k \in HdrKinds \cup {"NONE", "BAD_BODY"} \cup {"LOSS"} \cup SendFaults
    BY DEF FaultKinds, LineFaults, SendFaults, HdrKinds
  <1>4. /\ k \in {"LOSS"} \cup SendFaults => Damaged(f, k) = << >>
        /\ k = "NONE" => Damaged(f, k) = <<f>>
        /\ k = "BAD_BODY" => Damaged(f, k) = <<[f EXCEPT !.crcOk = FALSE]>>
        /\ k \in HdrKinds => Damaged(f, k) = <<[f EXCEPT !.hdr = k]>>
    BY DEF Damaged, SendFaults, HdrKinds
  <1>5. << >> \in Seq(Frame) /\ \A g \in Frame : <<g>> \in Seq(Frame)  OBVIOUS
  <1> DEFINE d == Damaged(f, k)
  <1> HIDE DEF d
  <1>6. d = << >> \/ \E g \in Frame : d = <<g>>  BY <1>1, <1>2, <1>3, <1>4 DEF d
  <1> QED  BY <1>5, <1>6 DEF d

LEMMA PossibleKinds ==
  ASSUME NEW K, NEW k \in Possible(K)
  PROVE  /\ k \in {"NONE"} \cup (Faults \cap K)
         /\ k # "NONE" => faults < MaxFaults
  BY DEF Possible

LEMMA CountType ==
  ASSUME TypeOK, NEW happened \in BOOLEAN, Count(happened), happened => faults < MaxFaults
  PROVE  faults' \in 0..MaxFaults
  BY LinkConstants DEF TypeOK, Count

LEMMA OptType ==
  ASSUME NEW S, NEW q \in Seq(S), NEW b \in BOOLEAN, NEW o, b => o \in S
  PROVE  q \o Opt(b, o) \in Seq(S)
  <1>1. Opt(b, o) \in Seq(S)  BY DEF Opt
  <1> QED  BY <1>1, ConcatProperties

----------------------------------------------------------------------------
(* A quantum. *)

LEMMA PollEndInv ==
  ASSUME IInv, NEW p \in Peer, NEW hasPlace \in BOOLEAN, NEW elapsed \in BOOLEAN,
         NEW more \in BOOLEAN, PollEnd(p, hasPlace, elapsed, more),
         hasPlace \/ faults < MaxFaults
  PROVE  /\ IInv'
         /\ \A q \in Peer : SentInv(ll[q]) => SentInv(ll'[q])
         /\ \A q \in Peer : ll[q].txState = "ERROR" => ll'[q].txState = "ERROR"
  <1> DEFINE body == IF offering[p] THEN accepted[p] + 1 ELSE 0
             a == AlarmUpdateTime(ll[p], elapsed)
             t == ProcessTx(a, body)
             v == Poll(ll[p], body, hasPlace, elapsed)
             takes == Takes(a, body)
             drops == GivesUp(TxAllocPkt(a, body))
             sends == a.txState = "IDLE" /\ t.txState \in {"SENDING_ACK", "SENDING_PKT"}
  <1>1. TypeOK /\ LLInv(ll[p])  BY DEF IInv, EndInv
  <1>2. body \in Nat  BY <1>1 DEF TypeOK
  <1>3. PollTx(ll[p], body, elapsed) = t  BY DEF PollTx
  <1>4. PICK k \in IF sends /\ hasPlace THEN Possible(LineFaults \cup SendFaults) ELSE {"NONE"} :
          /\ line' = [line EXCEPT ![Other(p)] = @ \o IF sends THEN Damaged(Outgoing(t), k) ELSE << >>]
          /\ sendDone' = [sendDone EXCEPT ![p] =
                             IF ~ sends THEN @ ELSE IF k \in SendFaults THEN k ELSE "SUCCESS"]
          /\ Count(k # "NONE" \/ ~ hasPlace)
    BY DEF PollEnd
  <1>5. /\ elapsed => AlarmDue(p)
        /\ early' = early + IF elapsed /\ ~ Quiet THEN 1 ELSE 0
        /\ ll' = [ll EXCEPT ![p] = v]
        /\ awake' = [awake EXCEPT ![p] = Service(a, body, hasPlace, FALSE)]
        /\ offering' = [offering EXCEPT ![p] = IF takes THEN more ELSE @]
        /\ accepted' = [accepted EXCEPT ![p] = @ + IF takes THEN 1 ELSE 0]
        /\ resolved' = [resolved EXCEPT ![p] = @ \o Opt(drops, "dropped") \o Opt(Releases(t), "acked")]
        /\ delivered' = [delivered EXCEPT ![p] = @ \o Opt(Delivers(t, hasPlace), t.pkt.body)]
    BY DEF PollEnd
  <1> HIDE DEF body
  <1>6. /\ LLInv(t) /\ LLInv(v) /\ v.waitAck # "NOW" /\ v.txState = t.txState
        /\ SentInv(ll[p]) => SentInv(v)
        /\ ll[p].txState \in {"SENDING_ACK", "SENDING_PKT", "ERROR"} => t.txState = ll[p].txState
    <2> DEFINE u == PollTx(ll[p], body, elapsed)
    <2> HIDE DEF t
    <2>1. LLInv(ll[p]) /\ body \in Nat  BY <1>1, <1>2
    <2>2. LLInv(u)  BY <2>1, PollInv
    <2>3. LLInv(v)  BY <2>1, PollInv
    <2>4. SentInv(ll[p]) => SentInv(v)  BY <2>1, PollInv
    <2>5. v.waitAck # "NOW"  BY <2>1, PollInv
    <2>6. v.txState = u.txState  BY <2>1, PollInv
    <2>7. ll[p].txState \in {"SENDING_ACK", "SENDING_PKT", "ERROR"} => u.txState = ll[p].txState
      BY <2>1, PollInv
    <2> HIDE DEF u, v
    <2> QED  BY <2>2, <2>3, <2>4, <2>5, <2>6, <2>7, <1>3 DEF u
  <1>7. LLInv(a) /\ a.txState = ll[p].txState  BY <1>1, AlarmUpdateTimeInv
  <1>8. sends => Outgoing(t) \in Frame
    <2> HIDE DEF a
    <2> QED  BY <1>2, <1>7, OutgoingFrame
  <1>9. v \in LLState /\ t \in LLState  BY <1>6 DEF LLInv
  <1> HIDE DEF v, t, a
  <1>10. /\ k \in {"NONE"} \cup (Faults \cap (LineFaults \cup SendFaults))
         /\ k # "NONE" => sends /\ faults < MaxFaults
    <2>1. CASE sends /\ hasPlace
      <3>1. k \in Possible(LineFaults \cup SendFaults)  BY <2>1, <1>4
      <3> QED  BY <2>1, <3>1, PossibleKinds
    <2>2. CASE ~ (sends /\ hasPlace)  BY <2>2, <1>4
    <2> QED  BY <2>1, <2>2
  <1>11. /\ ll'[p] = v
         /\ \A q \in Peer : q # p => ll'[q] = ll[q] /\ sendDone'[q] = sendDone[q]
         /\ sendDone'[p] = IF ~ sends THEN sendDone[p] ELSE IF k \in SendFaults THEN k ELSE "SUCCESS"
    BY <1>1, <1>4, <1>5 DEF TypeOK
  <1>12. TypeOK'
    <2>1. ll' \in [Peer -> LLState]  BY <1>1, <1>5, <1>9 DEF TypeOK
    <2>2. line' \in [Peer -> Seq(Frame)]
      <3> DEFINE fs == IF sends THEN Damaged(Outgoing(t), k) ELSE << >>
      <3>1. fs \in Seq(Frame)
        <4>1. k \in FaultKinds \cup {"NONE"} /\ k # "SHORT_READ" /\ k # "NO_PLACE"
          BY <1>10 DEF FaultKinds, LineFaults, SendFaults
        <4> QED  BY <4>1, <1>8, DamagedFrames
      <3> HIDE DEF fs
      <3>2. Other(p) \in Peer /\ line[Other(p)] \in Seq(Frame)  BY <1>1, OtherPeer DEF TypeOK
      <3>3. line[Other(p)] \o fs \in Seq(Frame)  BY <3>1, <3>2, ConcatProperties
      <3>4. line' = [line EXCEPT ![Other(p)] = line[Other(p)] \o fs]  BY <1>4 DEF fs
      <3> QED  BY <1>1, <3>2, <3>3, <3>4 DEF TypeOK
    <2>3. sendDone' \in [Peer -> SendStatus \cup {"NONE"}]
      BY <1>1, <1>4 DEF TypeOK, SendStatus, SendFaults
    <2>4. awake' \in [Peer -> BOOLEAN] /\ offering' \in [Peer -> BOOLEAN]
      BY <1>1, <1>5 DEF TypeOK, Service
    <2>5. accepted' \in [Peer -> Nat]  BY <1>1, <1>5 DEF TypeOK
    <2>6. resolved' \in [Peer -> Seq({"acked", "dropped"})]
      <3> DEFINE R == {"acked", "dropped"}
                 q1 == resolved[p] \o Opt(drops, "dropped")
      <3>1. resolved[p] \in Seq(R)  BY <1>1 DEF TypeOK
      <3>2. q1 \in Seq(R)
        <4>1. drops \in BOOLEAN  BY DEF GivesUp
        <4> HIDE DEF drops
        <4> QED  BY <3>1, <4>1, OptType
      <3> HIDE DEF q1
      <3>3. q1 \o Opt(Releases(t), "acked") \in Seq(R)
        <4>1. Releases(t) \in BOOLEAN  BY DEF Releases, Answers
        <4> QED  BY <3>2, <4>1, OptType
      <3> QED  BY <1>1, <1>5, <3>3 DEF TypeOK, q1
    <2>7. delivered' \in [Peer -> Seq(Nat)]
      <3>1. t.pkt.body \in Nat  BY <1>9 DEF LLState, Frame
      <3>2. Delivers(t, hasPlace) \in BOOLEAN  BY DEF Delivers
      <3>3. delivered[p] \in Seq(Nat)  BY <1>1 DEF TypeOK
      <3>4. delivered[p] \o Opt(Delivers(t, hasPlace), t.pkt.body) \in Seq(Nat)
        BY <3>1, <3>2, <3>3, OptType
      <3> QED  BY <1>1, <1>5, <3>4 DEF TypeOK
    <2>8. faults' \in 0..MaxFaults  BY <1>1, <1>4, <1>10, CountType
    <2>9. early' \in 0..MaxEarly
      BY <1>1, <1>5, LinkConstants DEF TypeOK, AlarmDue
    <2> QED  BY <2>1, <2>2, <2>3, <2>4, <2>5, <2>6, <2>7, <2>8, <2>9 DEF TypeOK
  <1>13. ASSUME NEW q \in Peer  PROVE EndInv(q)'
    <2>1. EndInv(q)  BY DEF IInv
    <2>2. CASE q # p  BY <2>1, <2>2, <1>11 DEF EndInv
    <2>3. CASE q = p
      <3>1. sendDone'[p] \in {"NONE", "SUCCESS"} \cup Faults
        BY <2>1, <2>3, <1>10, <1>11 DEF EndInv
      <3>2. sendDone'[p] # "NONE" => v.txState \in Sending
        BY <2>1, <2>3, <1>6, <1>11 DEF EndInv, Sending
      <3> QED  BY <2>3, <3>1, <3>2, <1>6, <1>11 DEF EndInv
    <2> QED  BY <2>2, <2>3
  <1> QED  BY <1>6, <1>11, <1>12, <1>13 DEF IInv

----------------------------------------------------------------------------
(* The inductive invariant. *)

\* Assumption under which a sent packet always has its alarm: the transport
\* never answers BUSY, and a single failed transmission is the limit.
NoStall == "BUSY" \notin Faults /\ ("ERROR" \in Faults => TX_ATTEMPTS = 1)

AllSent == \A q \in Peer : SentInv(ll[q])

\* The three facts every step is shown to have.
StepOK == /\ IInv'
          /\ NoStall /\ AllSent => AllSent'
          /\ \A q \in Peer : ll[q].txState = "ERROR" => ll'[q].txState = "ERROR"

LEMMA InitInv == Init => IInv /\ AllSent
  <1> SUFFICES ASSUME Init  PROVE IInv /\ AllSent
    OBVIOUS
  <1>1. \A p \in Peer : ll[p] = LLInit /\ sendDone[p] = "NONE"  BY DEF Init
  <1>2. TypeOK  BY LLInitType, LinkConstants DEF Init, TypeOK, SendStatus
  <1>3. LLInit.waitAck = "INFINITE"  BY DEF LLInit
  <1> QED  BY <1>1, <1>2, <1>3, LLInitInv DEF IInv, EndInv, AllSent

LEMMA QuantumStep ==
  ASSUME IInv, NEW p \in Peer, Quantum(p)
  PROVE  StepOK
  <1>1. PICK elapsed \in BOOLEAN, more \in BOOLEAN, k \in Possible({"NO_PLACE"}) :
          PollEnd(p, k = "NONE", elapsed, more)
    BY DEF Quantum
  <1>2. k = "NONE" \/ faults < MaxFaults  BY PossibleKinds
  <1> QED  BY <1>1, <1>2, PollEndInv DEF StepOK, AllSent

LEMMA SendPacketStep ==
  ASSUME IInv, NEW p \in Peer, SendPacket(p)
  PROVE  StepOK
  <1>1. TypeOK'  BY DEF IInv, SendPacket, TypeOK
  <1>2. ll' = ll /\ sendDone' = sendDone  BY DEF SendPacket
  <1> QED  BY <1>1, <1>2 DEF IInv, EndInv, StepOK, AllSent

LEMMA SendDoneStep ==
  ASSUME IInv, NEW p \in Peer, SendDone(p)
  PROVE  StepOK
  <1> DEFINE v == SendComplete(ll[p], sendDone[p])
  <1>1. TypeOK /\ EndInv(p)  BY DEF IInv
  <1>2. sendDone[p] \in SendStatus /\ LLInv(ll[p]) /\ ll[p].txState \in {"SENDING_ACK", "SENDING_PKT"}
    BY <1>1 DEF TypeOK, EndInv, SendDone, Sending
  <1>3. LLInv(v)  BY <1>2, SendCompleteInv
  <1>4. NoStall /\ SentInv(ll[p]) => SentInv(v)
    <2>1. NoStall => sendDone[p] = "SUCCESS" \/ (sendDone[p] = "ERROR" /\ TX_ATTEMPTS = 1)
      BY <1>1, <1>2 DEF NoStall, EndInv, SendStatus, SendDone
    <2> HIDE DEF v
    <2> QED  BY <1>2, <2>1, SendCompleteInv DEF v
  <1>5. v \in LLState  BY <1>3 DEF LLInv
  <1>6. v.waitAck # "NOW"
    BY <1>1, <1>2 DEF SendComplete, EndInv, LLInv, LLState, SendStatus
  <1> HIDE DEF v
  <1>7. /\ ll' = [ll EXCEPT ![p] = v]
        /\ sendDone' = [sendDone EXCEPT ![p] = "NONE"]
        /\ awake' = [awake EXCEPT ![p] = TRUE]
        /\ UNCHANGED <<line, offering, accepted, resolved, delivered, faults, early>>
    BY DEF SendDone, v
  <1>8. TypeOK'  BY <1>1, <1>5, <1>7 DEF TypeOK
  <1>9. /\ ll'[p] = v /\ sendDone'[p] = "NONE"
        /\ \A q \in Peer : q # p => ll'[q] = ll[q] /\ sendDone'[q] = sendDone[q]
    BY <1>1, <1>7 DEF TypeOK
  <1>10. \A q \in Peer : EndInv(q)'  BY <1>3, <1>6, <1>9 DEF IInv, EndInv
  <1> QED  BY <1>2, <1>4, <1>8, <1>9, <1>10 DEF IInv, StepOK, AllSent

\* Bytes for the receiver: f becomes its packet.
LEMMA RecvStep ==
  ASSUME IInv, NEW p \in Peer, NEW f \in Frame, NEW whole \in BOOLEAN,
         ll' = [ll EXCEPT ![p] = RecvComplete(@, f, whole)],
         sendDone' = sendDone, TypeOK'
  PROVE  StepOK
  <1> DEFINE v == RecvComplete(ll[p], f, whole)
  <1>1. TypeOK /\ EndInv(p)  BY DEF IInv
  <1>2. LLInv(v) /\ (SentInv(ll[p]) => SentInv(v)) /\ v.txState = ll[p].txState
    BY <1>1, RecvCompleteInv DEF EndInv
  <1>3. v.waitAck = ll[p].waitAck  BY <1>1 DEF RecvComplete, EndInv, LLInv, LLState
  <1> HIDE DEF v
  <1>4. ll'[p] = v /\ \A q \in Peer : q # p => ll'[q] = ll[q]
    BY <1>1 DEF TypeOK, v
  <1>5. \A q \in Peer : EndInv(q)'  BY <1>2, <1>3, <1>4 DEF IInv, EndInv
  <1> QED  BY <1>2, <1>4, <1>5 DEF IInv, StepOK, AllSent

LEMMA HeaderDoneStep ==
  ASSUME IInv, NEW p \in Peer, HeaderDone(p)
  PROVE  StepOK
  <1>1. PICK k \in Possible({"SHORT_READ"}) :
          /\ ll' = [ll EXCEPT ![p] = RecvComplete(@, Head(line[p]), k = "NONE")]
          /\ Count(k # "NONE")
    BY DEF HeaderDone
  <1>2. TypeOK  BY DEF IInv
  <1>3. line[p] # << >> /\ line[p] \in Seq(Frame)  BY <1>2 DEF HeaderDone, TypeOK
  <1>4. Head(line[p]) \in Frame /\ Tail(line[p]) \in Seq(Frame)  BY <1>3, HeadTailProperties
  <1>5. RecvComplete(ll[p], Head(line[p]), k = "NONE") \in LLState
    BY <1>2, <1>4, RecvCompleteType DEF TypeOK
  <1>6. faults' \in 0..MaxFaults  BY <1>1, <1>2, PossibleKinds, CountType
  <1>7. TypeOK'  BY <1>1, <1>2, <1>4, <1>5, <1>6 DEF HeaderDone, TypeOK
  <1>8. sendDone' = sendDone  BY DEF HeaderDone
  <1> QED  BY <1>1, <1>4, <1>7, <1>8, RecvStep

LEMMA BodyDoneStep ==
  ASSUME IInv, NEW p \in Peer, BodyDone(p)
  PROVE  StepOK
  <1>1. PICK k \in Possible({"SHORT_READ"}) :
          /\ ll' = [ll EXCEPT ![p] = RecvComplete(@, @.pkt, k = "NONE")]
          /\ Count(k # "NONE")
    BY DEF BodyDone
  <1>2. TypeOK  BY DEF IInv
  <1>3. ll[p].pkt \in Frame  BY <1>2 DEF TypeOK, LLState
  <1>4. RecvComplete(ll[p], ll[p].pkt, k = "NONE") \in LLState
    BY <1>2, <1>3, RecvCompleteType DEF TypeOK
  <1>5. faults' \in 0..MaxFaults  BY <1>1, <1>2, PossibleKinds, CountType
  <1>6. TypeOK'  BY <1>1, <1>2, <1>4, <1>5 DEF BodyDone, TypeOK
  <1>7. sendDone' = sendDone  BY DEF BodyDone
  <1> QED  BY <1>1, <1>3, <1>6, <1>7, RecvStep

LEMMA NextStep ==
  ASSUME IInv, [Next]_vars
  PROVE  StepOK
  <1>1. CASE UNCHANGED vars
    BY <1>1 DEF vars, StepOK, AllSent, IInv, EndInv, TypeOK
  <1>2. CASE Next
    BY <1>2, SendPacketStep, QuantumStep, SendDoneStep, HeaderDoneStep, BodyDoneStep DEF Next
  <1> QED  BY <1>1, <1>2

LEMMA SpecInv == Spec => []IInv
  <1>1. Init => IInv  BY InitInv
  <1>2. IInv /\ [Next]_vars => IInv'  BY NextStep DEF StepOK
  <1> QED  BY <1>1, <1>2, PTL DEF Spec

----------------------------------------------------------------------------
(* The theorems. *)

\* Every variable keeps its type; in particular every frame that enters the
\* line carries a frame number, never NUM_RX_INIT.
THEOREM LinkTypeOK == Spec => []TypeOK
  <1>1. IInv => TypeOK  BY DEF IInv
  <1> QED  BY <1>1, SpecInv, PTL

\* The link is stop-and-wait: no packet behind the head has ever been sent.
THEOREM StopAndWait == Spec => []OnlyHeadIsSent
  <1>1. IInv => OnlyHeadIsSent
    BY DEF IInv, EndInv, LLInv, TailUnsent, OnlyHeadIsSent
  <1> QED  BY <1>1, SpecInv, PTL

\* The wait-for-ACK alarm always belongs to the packet at the head.
THEOREM AlarmBelongsToHead == Spec => []AlarmIsForHead
  <1>1. IInv => AlarmIsForHead
    <2> SUFFICES ASSUME IInv, NEW p \in Peer, ll[p].waitAck # "INFINITE"
                 PROVE  /\ ll[p].waitAck = "RUNNING" /\ ll[p].fifo # << >> /\ Head(ll[p].fifo).sent
                        /\ ll[p].txState \in {"IDLE", "SENDING_ACK", "ACK_SENT"}
      BY DEF AlarmIsForHead
    <2>1. LLInv(ll[p]) /\ ll[p].waitAck # "NOW"  BY DEF IInv, EndInv
    <2>2. ll[p].waitAck \in Alarms  BY <2>1 DEF LLInv, LLState
    <2> QED  BY <2>1, <2>2 DEF LLInv, HeadSent, WaitStates, Alarms
  <1> QED  BY <1>1, SpecInv, PTL

\* Unless the transport answers BUSY, or fails with attempts left, a packet
\* that waits for its answer has its alarm running.  (Without the assumption it
\* is false: link_refused.)
THEOREM SentPacketsHaveAlarm == ASSUME NoStall PROVE Spec => []SentHasAlarm
  <1>1. Init => AllSent  BY InitInv
  <1>2. IInv /\ AllSent /\ [Next]_vars => AllSent'  BY NextStep DEF StepOK
  <1>3. IInv /\ AllSent => SentHasAlarm
    <2> SUFFICES ASSUME IInv, NEW p \in Peer, SentInv(ll[p]),
                        ll[p].fifo # << >>, Head(ll[p].fifo).sent,
                        ll[p].txState \in {"IDLE", "SENDING_ACK", "ACK_SENT"},
                        ll[p].attempts < TX_ATTEMPTS
                 PROVE  ll[p].waitAck = "RUNNING"
      BY DEF SentHasAlarm, AllSent
    <2>1. LLInv(ll[p]) /\ ll[p].waitAck # "NOW"  BY DEF IInv, EndInv
    <2>2. ll[p].waitAck \in Alarms  BY <2>1 DEF LLInv, LLState
    <2> QED  BY <2>1, <2>2 DEF SentInv, HeadSent, WaitStates, Alarms
  <1> QED  BY <1>1, <1>2, <1>3, SpecInv, PTL DEF Spec

\* No step of the program leaves the transmitter's error state, whatever the
\* constants: the reset alarm is never armed (link_refused shows the state reached).
THEOREM ErrorIsForGood ==
  Spec => [][\A p \in Peer : ll[p].txState = "ERROR" => ll'[p].txState = "ERROR"]_vars
  <1>1. IInv /\ [Next]_vars =>
          [\A p \in Peer : ll[p].txState = "ERROR" => ll'[p].txState = "ERROR"]_vars
    BY NextStep DEF StepOK
  <1> QED  BY <1>1, SpecInv, PTL DEF Spec

----------------------------------------------------------------------------
(* The frames on their way to an end. *)

(* The frames on their way to the receiver s: the one in its hands and those on
   the line.  All are in S, and each is related by R to those behind it. *)
Way(s, l, S, R) ==
  /\ \A i \in 1..Len(l) : l[i] \in S
  /\ \A i, j \in 1..Len(l) : i < j => <<l[i], l[j]>> \in R
  /\ Live(s) => s.pkt \in S /\ \A i \in 1..Len(l) : <<s.pkt, l[i]>> \in R

\* The receiver's step takes nothing new into its hands.
LEMMA WayKept ==
  ASSUME NEW s, NEW l, NEW v, NEW S, NEW R, NEW S2, NEW R2, Way(s, l, S, R),
         Live(v) => Live(s) /\ v.pkt = s.pkt,
         \A f \in S : f \in S2,
         \A f, g \in S : <<f, g>> \in R => <<f, g>> \in R2
  PROVE  Way(v, l, S2, R2)
  BY DEF Way

\* The frame in the receiver's hands is done with.
LEMMA WayPast ==
  ASSUME NEW s, NEW l, NEW v, NEW S, NEW R, NEW S2, NEW R2, Way(s, l, S, R),
         Live(s), ~ Live(v),
         \A f \in S : <<s.pkt, f>> \in R => f \in S2,
         \A f, g \in S : <<s.pkt, f>> \in R /\ <<s.pkt, g>> \in R /\ <<f, g>> \in R => <<f, g>> \in R2
  PROVE  Way(v, l, S2, R2)
  BY DEF Way

\* A frame enters the line behind all others.
LEMMA WayAppended ==
  ASSUME NEW l \in Seq(Frame), NEW s, NEW S, NEW R, Way(s, l, S, R),
         NEW g \in Frame, g \in S, \A f \in S : <<f, g>> \in R
  PROVE  Way(s, l \o <<g>>, S, R)
  <1> DEFINE m == l \o <<g>>
  <1>1. /\ Len(l) \in Nat /\ Len(m) = Len(l) + 1
        /\ \A i \in 1..Len(l) : m[i] = l[i]
        /\ m[Len(l) + 1] = g
    OBVIOUS
  <1> HIDE DEF m
  <1>2. \A i \in 1..Len(m) : i \in 1..Len(l) \/ i = Len(l) + 1  BY <1>1
  <1> SUFFICES Way(s, m, S, R)  BY DEF m
  <1>3. \A i \in 1..Len(m) : m[i] \in S  BY <1>1, <1>2 DEF Way
  <1>4. ASSUME NEW i \in 1..Len(m), NEW j \in 1..Len(m), i < j  PROVE <<m[i], m[j]>> \in R
    <2>1. i \in 1..Len(l)  BY <1>1, <1>4
    <2>2. m[i] = l[i] /\ l[i] \in S  BY <1>1, <2>1 DEF Way
    <2>3. CASE j \in 1..Len(l)  BY <1>1, <1>4, <2>1, <2>3 DEF Way
    <2>4. CASE j = Len(l) + 1  BY <1>1, <2>2, <2>4
    <2> QED  BY <1>2, <2>3, <2>4
  <1>5. Live(s) => s.pkt \in S /\ \A i \in 1..Len(m) : <<s.pkt, m[i]>> \in R
    BY <1>1, <1>2 DEF Way
  <1> QED  BY <1>3, <1>4, <1>5 DEF Way

\* The receiver takes the first frame on the line.
LEMMA WayTaken ==
  ASSUME NEW l \in Seq(Frame), l # << >>, NEW s, NEW S, NEW R, Way(s, l, S, R), NEW v,
         Head(l) \in S => v.pkt \in S,
         \A g \in S : <<Head(l), g>> \in R => <<v.pkt, g>> \in R
  PROVE  Way(v, Tail(l), S, R)
  <1> DEFINE m == Tail(l)
  <1>1. /\ Len(l) \in Nat /\ Len(l) > 0 /\ Len(m) = Len(l) - 1
        /\ \A i \in 1..Len(m) : m[i] = l[i + 1]
        /\ Head(l) = l[1]
    BY HeadTailProperties, EmptySeq
  <1> HIDE DEF m
  <1>2. \A i \in 1..Len(m) : i + 1 \in 1..Len(l) /\ 1 \in 1..Len(l) /\ 1 < i + 1  BY <1>1
  <1>3. 1 \in 1..Len(l)  BY <1>1
  <1>4. \A i \in 1..Len(m) : m[i] \in S /\ <<l[1], m[i]>> \in R  BY <1>1, <1>2 DEF Way
  <1>5. \A i, j \in 1..Len(m) : i < j => <<m[i], m[j]>> \in R
    <2> TAKE i, j \in 1..Len(m)
    <2>1. i < j => i + 1 < j + 1  BY <1>1
    <2>2. m[i] = l[i + 1] /\ m[j] = l[j + 1] /\ i + 1 \in 1..Len(l) /\ j + 1 \in 1..Len(l)
      BY <1>1, <1>2
    <2> QED  BY <2>1, <2>2 DEF Way
  <1>6. v.pkt \in S  BY <1>1, <1>3 DEF Way
  <1> QED  BY <1>1, <1>4, <1>5, <1>6 DEF Way, m

----------------------------------------------------------------------------
(* The packets on their way: order and duplicates. *)

\* The last packet a user got, 0 before the first.
LastOf(d) == IF d = << >> THEN 0 ELSE d[Len(d)]

(* The packets that may be on the way when the sender is done with r of the acc
   it has taken, and the receiver last passed n to its user and keeps number h:
   the oldest one, or a copy of one before it, but none that n has overtaken;
   and n itself is known for a duplicate. *)
DataS(h, n, r, acc) ==
  {f \in Frame : f.body # 0 => /\ f.num = Num(f.body)
                               /\ n <= f.body /\ f.body <= r + 1 /\ f.body <= acc
                               /\ f.body = n /\ n > 1 => h = Num(n)}

\* Packets never overtake each other on the line.
DataR == {z \in Frame \X Frame : z[1].body # 0 /\ z[2].body # 0 => z[1].body <= z[2].body}

\* The packets a user got: in order, only the boot packet more than once.
Passed(d) == /\ \A i \in 1..Len(d) : d[i] > 0
             /\ \A i \in 1..Len(d) - 1 : d[i] < d[i + 1] \/ (d[i] = 1 /\ d[i + 1] = 1)

\* The receiving end s of a direction, its line l and what its user got.
DataInv(s, l, d, r, acc) ==
  /\ Way(s, l, DataS(s.handled, LastOf(d), r, acc), DataR)
  /\ LastOf(d) <= r + 1 /\ LastOf(d) <= acc
  /\ LastOf(d) = r + 1 /\ LastOf(d) > 1 => s.handled = Num(LastOf(d))
  /\ Passed(d)

\* What the relation says of two frames.
LEMMA DataRFacts ==
  ASSUME NEW f \in Frame, NEW g \in Frame
  PROVE  <<f, g>> \in DataR <=> (f.body # 0 /\ g.body # 0 => f.body <= g.body)
  BY DEF DataR

\* The last packet is a number.
LEMMA LastType ==
  ASSUME NEW d \in Seq(Nat)
  PROVE  LastOf(d) \in Nat
  BY EmptySeq DEF LastOf

\* One more packet for the user.
LEMMA AddLast ==
  ASSUME NEW d \in Seq(Nat), NEW o \in Nat, NEW d2, d2 = d \o <<o>>
  PROVE  /\ d2 \in Seq(Nat) /\ d2 = Append(d, o)
         /\ LastOf(d2) = o /\ Contains(d2, o)
         /\ Passed(d) /\ o > 0 /\ (LastOf(d) < o \/ (LastOf(d) = 1 /\ o = 1)) => Passed(d2)
  <1>1. /\ d2 \in Seq(Nat) /\ Len(d) \in Nat /\ Len(d2) = Len(d) + 1
        /\ \A i \in 1..Len(d) : d2[i] = d[i]
        /\ d2[Len(d) + 1] = o
    OBVIOUS
  <1>2. d2 = Append(d, o)  OBVIOUS
  <1>3. d2 # << >>  BY <1>1, EmptySeq
  <1>4. LastOf(d2) = o  BY <1>1, <1>3 DEF LastOf
  <1>6. Contains(d2, o)
    <2>1. Len(d) + 1 \in 1..Len(d2)  BY <1>1
    <2> QED  BY <1>1, <2>1 DEF Contains
  <1>7. ASSUME Passed(d), o > 0, LastOf(d) < o \/ (LastOf(d) = 1 /\ o = 1)
        PROVE  Passed(d2)
    <2>1. \A i \in 1..Len(d2) : i \in 1..Len(d) \/ i = Len(d) + 1  BY <1>1
    <2>2. \A i \in 1..Len(d2) : d2[i] > 0  BY <1>1, <1>7, <2>1 DEF Passed
    <2>3. ASSUME NEW i \in 1..Len(d2) - 1
          PROVE  d2[i] < d2[i + 1] \/ (d2[i] = 1 /\ d2[i + 1] = 1)
      <3>1. i \in 1..Len(d) /\ d2[i] = d[i]  BY <1>1
      <3>2. CASE i = Len(d)
        <4>1. d # << >>  BY <3>1, EmptySeq
        <4>2. d[i] = LastOf(d)  BY <3>2, <4>1 DEF LastOf
        <4>3. d2[i + 1] = o  BY <1>1, <3>2
        <4> QED  BY <1>7, <3>1, <4>2, <4>3
      <3>3. CASE i # Len(d)
        <4>1. i \in 1..Len(d) - 1 /\ i + 1 \in 1..Len(d)  BY <1>1, <3>1, <3>3
        <4> QED  BY <1>1, <1>7, <3>1, <4>1 DEF Passed
      <3> QED  BY <3>2, <3>3
    <2> QED  BY <2>2, <2>3 DEF Passed
  <1> QED  BY <1>1, <1>2, <1>4, <1>6, <1>7

\* What a user got it keeps.
LEMMA AddContains ==
  ASSUME NEW d \in Seq(Nat), NEW o \in Nat, NEW x, Contains(d, x)
  PROVE  Contains(d \o <<o>>, x)
  <1> DEFINE d2 == d \o <<o>>
  <1>1. /\ Len(d) \in Nat /\ Len(d2) = Len(d) + 1
        /\ \A i \in 1..Len(d) : d2[i] = d[i]
    OBVIOUS
  <1>2. PICK i \in 1..Len(d) : d[i] = x  BY DEF Contains
  <1> HIDE DEF d2
  <1>3. i \in 1..Len(d2) /\ d2[i] = x  BY <1>1, <1>2
  <1>4. Contains(d2, x)  BY <1>3 DEF Contains
  <1> QED  BY <1>4 DEF d2

\* What reaches the other end of f is nothing, or f with its header or body damaged.
LEMMA DamagedSame ==
  ASSUME NEW f \in Frame, NEW k \in FaultKinds \cup {"NONE"}, k # "SHORT_READ", k # "NO_PLACE",
         NEW fs, fs = Damaged(f, k)
  PROVE  \/ fs = << >>
         \/ \E g \in Frame : /\ fs = <<g>>
                             /\ g.flags = f.flags /\ g.num = f.num /\ g.body = f.body
                             /\ k # "BAD_BODY" => g.crcOk = f.crcOk
                             /\ k # "BAD_TYPE" => (g.hdr = "BAD_TYPE" => f.hdr = "BAD_TYPE")
  <1>1. k \in HdrKinds \cup {"NONE", "BAD_BODY"} \cup {"LOSS"} \cup SendFaults
    BY DEF FaultKinds, LineFaults, SendFaults, HdrKinds
  <1>2. CASE k \in {"LOSS"} \cup SendFaults  BY <1>2 DEF Damaged, SendFaults
  <1>3. CASE k = "NONE"
    <2>1. fs = <<f>>  BY <1>3 DEF Damaged, SendFaults
    <2> QED  BY <2>1
  <1>4. CASE k = "BAD_BODY"
    <2> DEFINE g == [f EXCEPT !.crcOk = FALSE]
    <2>1. fs = <<g>>  BY <1>4 DEF Damaged, SendFaults
    <2>2. g \in Frame /\ g.flags = f.flags /\ g.num = f.num /\ g.body = f.body /\ g.hdr = f.hdr
      BY DEF Frame
    <2> HIDE DEF g
    <2> QED  BY <1>4, <2>1, <2>2
  <1>5. CASE k \in HdrKinds
    <2> DEFINE g == [f EXCEPT !.hdr = k]
    <2>1. fs = <<g>>  BY <1>5 DEF Damaged, HdrKinds, SendFaults
    <2>2. g \in Frame /\ g.flags = f.flags /\ g.num = f.num /\ g.body = f.body /\ g.crcOk = f.crcOk
          /\ g.hdr = k
      BY <1>5 DEF Frame
    <2> HIDE DEF g
    <2> QED  BY <2>1, <2>2
  <1> QED  BY <1>1, <1>2, <1>3, <1>4, <1>5

\* The sender takes and finishes packets: the bounds only grow.
LEMMA DataLater ==
  ASSUME NEW s, NEW l, NEW d \in Seq(Nat), NEW r \in Nat, NEW acc \in Nat, DataInv(s, l, d, r, acc),
         NEW r2 \in Nat, NEW acc2 \in Nat, r <= r2, acc <= acc2
  PROVE  DataInv(s, l, d, r2, acc2)
  <1> DEFINE n == LastOf(d)
             S == DataS(s.handled, n, r, acc)
             S2 == DataS(s.handled, n, r2, acc2)
  <1>1. n \in Nat  BY LastType
  <1> HIDE DEF n
  <1>2. \A f \in S : f \in S2
    <2>1. \A f \in Frame : f.body \in Nat  BY DEF Frame
    <2> QED  BY <1>1, <2>1 DEF DataS
  <1> HIDE DEF S, S2
  <1>3. Way(s, l, S, DataR)  BY DEF DataInv, n, S
  <1>4. Way(s, l, S2, DataR)  BY <1>2, <1>3, WayKept
  <1> QED  BY <1>1, <1>4 DEF DataInv, n, S2

\* The sender hands g to its transport when r packets are done with, and g gets through.
LEMMA DataSent ==
  ASSUME NEW s, NEW l \in Seq(Frame), NEW d \in Seq(Nat), NEW r \in Nat, NEW acc \in Nat,
         DataInv(s, l, d, r, acc), NEW g \in Frame,
         g.body # 0 => g.body = r + 1 /\ g.num = Num(r + 1) /\ r + 1 <= acc
  PROVE  DataInv(s, l \o <<g>>, d, r, acc)
  <1> DEFINE n == LastOf(d)
             S == DataS(s.handled, n, r, acc)
  <1>1. n \in Nat  BY LastType
  <1>2. g \in S  BY <1>1 DEF DataInv, DataS
  <1>3. \A f \in S : <<f, g>> \in DataR
    <2> SUFFICES ASSUME NEW f \in S  PROVE <<f, g>> \in DataR
      OBVIOUS
    <2>1. f \in Frame /\ (f.body # 0 => f.body <= r + 1)  BY DEF DataS
    <2> HIDE DEF S
    <2> QED  BY <2>1, DataRFacts
  <1> HIDE DEF S
  <1>4. Way(s, l, S, DataR)  BY DEF DataInv, S
  <1>5. Way(s, l \o <<g>>, S, DataR)  BY <1>2, <1>3, <1>4, WayAppended
  <1> QED  BY <1>5 DEF DataInv, S

\* The transport hands the next frame to the receiver.
LEMMA DataTaken ==
  ASSUME NEW s, NEW l \in Seq(Frame), l # << >>, NEW d \in Seq(Nat), NEW r \in Nat, NEW acc \in Nat,
         DataInv(s, l, d, r, acc), NEW v, v.handled = s.handled,
         v.pkt \in {Head(l), [Head(l) EXCEPT !.hdr = "BAD_CRC"]}
  PROVE  DataInv(v, Tail(l), d, r, acc)
  <1> DEFINE S == DataS(s.handled, LastOf(d), r, acc)
  <1>1. Head(l) \in Frame  BY HeadTailProperties
  <1>2. v.pkt \in Frame /\ v.pkt.body = Head(l).body /\ v.pkt.num = Head(l).num
    BY <1>1 DEF Frame, HdrKinds
  <1>3. Head(l) \in S => v.pkt \in S  BY <1>2 DEF DataS
  <1>4. \A g \in S : <<Head(l), g>> \in DataR => <<v.pkt, g>> \in DataR
    <2>1. \A g \in S : g \in Frame  BY DEF DataS
    <2> HIDE DEF S
    <2> QED  BY <1>1, <1>2, <2>1, DataRFacts
  <1> HIDE DEF S
  <1>5. Way(s, l, S, DataR)  BY DEF DataInv, S
  <1>6. Way(v, Tail(l), S, DataR)  BY <1>3, <1>4, <1>5, WayTaken
  <1> QED  BY <1>6 DEF DataInv, S

\* A completion that hands the receiver nothing new.
LEMMA DataSame ==
  ASSUME NEW s, NEW l, NEW d, NEW r, NEW acc, DataInv(s, l, d, r, acc), NEW v,
         v.handled = s.handled, Live(v) => Live(s) /\ v.pkt = s.pkt
  PROVE  DataInv(v, l, d, r, acc)
  <1> DEFINE S == DataS(s.handled, LastOf(d), r, acc)
  <1> HIDE DEF S
  <1>1. Way(s, l, S, DataR)  BY DEF DataInv, S
  <1>2. Way(v, l, S, DataR)  BY <1>1, WayKept
  <1> QED  BY <1>2 DEF DataInv, S

\* What is known of a packet in the receiver's hands.
LEMMA DataHeld ==
  ASSUME NEW s, NEW l, NEW n \in Nat, NEW r \in Nat, NEW acc \in Nat,
         Way(s, l, DataS(s.handled, n, r, acc), DataR), Live(s), s.pkt.body # 0
  PROVE  /\ s.pkt \in Frame /\ s.pkt.body \in Nat /\ s.pkt.num = Num(s.pkt.body)
         /\ n <= s.pkt.body /\ s.pkt.body <= r + 1 /\ s.pkt.body <= acc
         /\ s.pkt.body = n /\ n > 1 => s.handled = Num(n)
  <1>1. s.pkt \in DataS(s.handled, n, r, acc)  BY DEF Way
  <1> QED  BY <1>1 DEF DataS, Frame

\* The receiver is done with its packet, and n2 is the last one passed to its user.
LEMMA DataDone ==
  ASSUME NEW s, NEW l, NEW n \in Nat, NEW r \in Nat, NEW acc \in Nat,
         Way(s, l, DataS(s.handled, n, r, acc), DataR), NEW v, Live(s), ~ Live(v),
         s.pkt.body # 0, v.handled = s.pkt.num, NEW n2, n2 = n \/ n2 = s.pkt.body
  PROVE  Way(v, l, DataS(v.handled, n2, r, acc), DataR)
  <1>1. PICK S : S = DataS(s.handled, n, r, acc)  OBVIOUS
  <1>2. Way(s, l, S, DataR)  BY <1>1
  <1>3. PICK b \in Nat : /\ b = s.pkt.body /\ b # 0 /\ s.pkt \in Frame
                         /\ s.pkt.num = Num(b) /\ n <= b /\ b <= r + 1 /\ b <= acc
    BY DataHeld
  <1> DEFINE S2 == DataS(v.handled, n2, r, acc)
  <1>4. ASSUME NEW f \in S, <<s.pkt, f>> \in DataR  PROVE f \in S2
    <2>1. f \in Frame /\ f.body \in Nat  BY <1>1 DEF DataS, Frame
    <2>2. f.body # 0 => b <= f.body  BY <1>3, <1>4, <2>1, DataRFacts
    <2>3. f.body # 0 => /\ f.num = Num(f.body) /\ n <= f.body /\ f.body <= r + 1 /\ f.body <= acc
      BY <1>1 DEF DataS
    <2>4. f.body # 0 /\ f.body = n2 => v.handled = Num(n2)  BY <1>3, <2>1, <2>2
    <2> QED  BY <1>3, <2>1, <2>2, <2>3, <2>4 DEF DataS
  <1> HIDE DEF S2
  <1>5. Way(v, l, S2, DataR)  BY <1>2, <1>4, WayPast
  <1> QED  BY <1>5 DEF S2

(* The receiver's quantum: a packet passed to the user is newer than the last
   one, the boot packet apart, and a packet answered is no older. *)
GotOK(t, v, hasPlace, l, d, d2, r, acc) ==
  LET b == t.pkt.body IN
    /\ DataInv(v, l, d2, r, acc)
    /\ LastOf(d2) = IF Delivers(t, hasPlace) THEN b ELSE LastOf(d)
    /\ RxAnswers(t, v) => /\ b \in Nat /\ b > 0 /\ LastOf(d) <= b
                          /\ b <= r + 1 /\ b <= acc /\ t.pkt.num = Num(b)
    /\ Delivers(t, hasPlace) => RxAnswers(t, v) /\ (LastOf(d) < b \/ (LastOf(d) = 1 /\ b = 1))

\* One quantum of the receiver keeps its user's packets in order.
LEMMA DataReceived ==
  ASSUME NEW s, NEW l, NEW d \in Seq(Nat), NEW r \in Nat, NEW acc \in Nat, DataInv(s, l, d, r, acc),
         NEW hasPlace \in BOOLEAN, NEW t \in LLState, RxSame(s, t), NEW v, RxStep(t, v, hasPlace),
         NEW d2, d2 = d \o Opt(Delivers(t, hasPlace), t.pkt.body)
  PROVE  GotOK(t, v, hasPlace, l, d, d2, r, acc)
  <1> PICK D \in BOOLEAN : D = Delivers(t, hasPlace)  BY DEF Delivers
  <1> PICK b : b = t.pkt.body  OBVIOUS
  <1> d2 = d \o Opt(D, b)  OBVIOUS
  <1> SUFFICES /\ DataInv(v, l, d2, r, acc)
               /\ LastOf(d2) = IF D THEN b ELSE LastOf(d)
               /\ RxAnswers(t, v) => /\ b \in Nat /\ b > 0 /\ LastOf(d) <= b /\ b <= r + 1 /\ b <= acc
                                     /\ t.pkt.num = Num(b)
               /\ D => RxAnswers(t, v) /\ (LastOf(d) < b \/ (LastOf(d) = 1 /\ b = 1))
    BY DEF GotOK
  <1>1. PICK n \in Nat : n = LastOf(d)  BY LastType
  <1>2. b \in Nat /\ D \in BOOLEAN  BY DEF LLState, Frame, Delivers
  <1>3. t.pkt = s.pkt /\ t.handled = s.handled /\ (Live(t) <=> Live(s))  BY DEF RxSame, Live
  <1>4. /\ Way(s, l, DataS(s.handled, n, r, acc), DataR) /\ n <= r + 1 /\ n <= acc /\ Passed(d)
        /\ n = r + 1 /\ n > 1 => s.handled = Num(n)
    BY <1>1 DEF DataInv
  <1>5. /\ LastOf(d2) = IF D THEN b ELSE n
        /\ (D => b > 0 /\ (n < b \/ (n = 1 /\ b = 1))) => Passed(d2)
        /\ ~ D => d2 = d
    <2>1. CASE D
      <3>1. d2 = d \o <<b>>  BY <2>1 DEF Opt
      <3>2. b \in Nat /\ Passed(d)  BY <1>2, <1>4
      <3>3. LastOf(d2) = b /\ (b > 0 /\ (n < b \/ (n = 1 /\ b = 1)) => Passed(d2))
        BY <1>1, <3>1, <3>2, AddLast
      <3> QED  BY <2>1, <3>3
    <2>2. CASE ~ D
      <3>1. d2 = d \o << >>  BY <2>2 DEF Opt
      <3>2. d2 = d  BY <3>1
      <3> QED  BY <1>1, <1>4, <2>2, <3>2
    <2> QED  BY <2>1, <2>2
  <1>6. D => RxAnswers(t, v)  BY DEF RxStep
  <1>7. CASE RxAnswers(t, v)
    <2>1. Live(s) /\ ~ Live(v) /\ b = s.pkt.body /\ b # 0 /\ v.handled = s.pkt.num
      BY <1>3, <1>7 DEF RxAnswers, RxStep, Live
    <2>2. PICK n2 : (n2 = n \/ n2 = b) /\ n2 = LastOf(d2)  BY <1>5
    <2>3. Way(s, l, DataS(s.handled, n, r, acc), DataR) /\ n <= r + 1 /\ n <= acc  BY <1>4
    <2>4. /\ b > 0 /\ n <= b /\ b <= r + 1 /\ b <= acc /\ s.pkt.num = Num(b)
          /\ b = n /\ n > 1 => s.handled = Num(n)
      <3>1. Live(s) /\ s.pkt.body # 0  BY <2>1
      <3>2. /\ s.pkt.body \in Nat /\ s.pkt.num = Num(s.pkt.body)
            /\ n <= s.pkt.body /\ s.pkt.body <= r + 1 /\ s.pkt.body <= acc
            /\ s.pkt.body = n /\ n > 1 => s.handled = Num(n)
        BY <2>3, <3>1, DataHeld
      <3> QED  BY <2>1, <3>2
    <2>5. /\ Way(v, l, DataS(v.handled, n2, r, acc), DataR)
          /\ n2 <= r + 1 /\ n2 <= acc /\ (n2 = r + 1 => v.handled = Num(n2))
      <3>1. Way(v, l, DataS(v.handled, n2, r, acc), DataR)  BY <2>1, <2>2, <2>3, DataDone
      <3> QED  BY <1>2, <2>1, <2>2, <2>3, <2>4, <3>1
    <2>6. D => n < b \/ (n = 1 /\ b = 1)
      <3> SUFFICES ASSUME D, n = b, n > 1  PROVE FALSE
        BY <1>2, <2>4
      <3>0. s.handled = Num(b) /\ b \in Nat /\ b > 0 /\ b # 1  BY <1>2, <2>4
      <3>1. s.handled = Num(b) /\ Num(b) # NUM_BOOT  BY <3>0, NumFacts
      <3>2. ~ (s.handled = s.pkt.num /\ s.handled # NUM_BOOT)  BY <1>3 DEF Delivers, Duplicate
      <3> QED  BY <2>4, <3>1, <3>2
    <2>7. Passed(d2)  BY <1>5, <2>4, <2>6
    <2> QED  BY <1>1, <1>3, <1>5, <1>6, <1>2, <2>2, <2>4, <2>5, <2>6, <2>7 DEF DataInv
  <1>8. CASE ~ RxAnswers(t, v)
    <2>1. ~ D /\ v.handled = s.handled /\ (Live(v) => Live(s) /\ v.pkt = s.pkt)
      BY <1>3, <1>6, <1>8 DEF RxStep
    <2>2. DataInv(v, l, d, r, acc)  BY <2>1, DataSame
    <2> QED  BY <1>1, <1>5, <1>8, <2>1, <2>2
  <1> QED  BY <1>7, <1>8

----------------------------------------------------------------------------
(* The answers on their way. *)

\* The frame answers one: an ACK or a NACK.
Answer(f) == f.flags # "NONE"

\* Which packet, from lo on, an answer with number num is about.
Rank(num, lo) == CHOOSE b \in lo..lo + 2 : b > 0 /\ Num(b) = num

\* It is about one of the packets lo..n.
Ranked(num, lo, n) == /\ Rank(num, lo) \in lo..n /\ Rank(num, lo) > 0
                      /\ Num(Rank(num, lo)) = num

\* f, if an answer, is about one of the packets lo..n.
AnsOK(f, lo, n) == Answer(f) => Ranked(f.num, lo, n)

\* Answer g is not about an earlier packet than f.
Ord(f, g, lo) == Answer(f) /\ Answer(g) => Rank(f.num, lo) <= Rank(g.num, lo)

\* The answer that waits for the ACK buffer.
Pend(u) == AckFrame(u.ackNo, u.ackFlags)

\* The frames that may be on their way when a and b are still to be sent...
AnsS(a, b, lo, n) == {f \in Frame : AnsOK(f, lo, n) /\ Ord(f, a, lo) /\ Ord(f, b, lo)}
\* ...and in which order.
AnsR(lo) == {z \in Frame \X Frame : Ord(z[1], z[2], lo)}

(* The answers of u on their way to s: those on the line, in the ACK buffer and
   waiting for it are about packets lo..n, in that order, and n, the last packet
   passed to the user, is the one that u knows for a duplicate. *)
AnsInv(s, l, u, lo, n) ==
  /\ Way(s, l, AnsS(u.ack, Pend(u), lo, n), AnsR(lo))
  /\ AnsOK(u.ack, lo, n) /\ AnsOK(Pend(u), lo, n) /\ Ord(u.ack, Pend(u), lo)
  /\ lo <= n /\ n <= lo + 2
  /\ u.handled = IF n = 0 THEN NUM_RX_INIT ELSE Num(n)

\* What the relation says of two frames.
LEMMA AnsRFacts ==
  ASSUME NEW f \in Frame, NEW g \in Frame, NEW lo
  PROVE  <<f, g>> \in AnsR(lo) <=> Ord(f, g, lo)
  BY DEF AnsR

\* Among three packets in a row the frame number tells which one is meant.
LEMMA RankOf ==
  ASSUME NEW lo \in Nat, NEW b \in Nat, b > 0, lo <= b, b <= lo + 2
  PROVE  Rank(Num(b), lo) = b
  <1>1. \A c \in lo..lo + 2 : c > 0 /\ Num(c) = Num(b) => c = b
    <2> TAKE c \in lo..lo + 2
    <2>1. c \in Nat /\ c <= b + 2 /\ b <= c + 2  OBVIOUS
    <2> QED  BY <2>1, NumClose
  <1>2. b \in lo..lo + 2  OBVIOUS
  <1> QED  BY <1>1, <1>2 DEF Rank

\* A rank is a packet.
LEMMA RankNat ==
  ASSUME NEW lo \in Nat, NEW n \in Nat, NEW num, Ranked(num, lo, n)
  PROVE  Rank(num, lo) \in Nat
  BY DEF Ranked

\* Only the oldest packet's own answer has its number.
LEMMA AnsMatch ==
  ASSUME NEW lo \in Nat, NEW n \in Nat, NEW m \in Nat, m > 0, lo <= m + 2, m <= lo + 2, n <= lo + 2, n <= m + 2,
         Ranked(Num(m), lo, n)
  PROVE  Rank(Num(m), lo) = m /\ m <= n /\ lo <= m
  <1>1. PICK b \in Nat : b = Rank(Num(m), lo)  BY RankNat
  <1>2. b > 0 /\ lo <= b /\ b <= n /\ Num(b) = Num(m)  BY <1>1 DEF Ranked
  <1>3. b = m  BY <1>2, NumClose
  <1> QED  BY <1>1, <1>2, <1>3

\* The sender takes no new frame into its hands.
LEMMA AnsSame ==
  ASSUME NEW s, NEW l, NEW u, NEW lo, NEW n, AnsInv(s, l, u, lo, n), NEW v,
         Live(v) => Live(s) /\ v.pkt = s.pkt
  PROVE  AnsInv(v, l, u, lo, n)
  <1> DEFINE S == AnsS(u.ack, Pend(u), lo, n)
             R == AnsR(lo)
  <1> HIDE DEF S, R
  <1>1. Way(s, l, S, R)  BY DEF AnsInv, S, R
  <1>2. Way(v, l, S, R)  BY <1>1, WayKept
  <1> QED  BY <1>2 DEF AnsInv, S, R

\* The receiver's answers stay as they are.
LEMMA AnsKept ==
  ASSUME NEW s, NEW l, NEW u, NEW lo, NEW n, AnsInv(s, l, u, lo, n), NEW v,
         AckSame(u, v), v.handled = u.handled
  PROVE  AnsInv(s, l, v, lo, n)
  BY DEF AnsInv, AckSame, Pend

\* The sender's transport hands it the next frame.
LEMMA AnsTaken ==
  ASSUME NEW s, NEW l \in Seq(Frame), l # << >>, NEW u, NEW lo, NEW n, AnsInv(s, l, u, lo, n), NEW v,
         v.pkt \in {Head(l), [Head(l) EXCEPT !.hdr = "BAD_CRC"]}
  PROVE  AnsInv(v, Tail(l), u, lo, n)
  <1> DEFINE S == AnsS(u.ack, Pend(u), lo, n)
             R == AnsR(lo)
  <1>1. Head(l) \in Frame  BY HeadTailProperties
  <1>2. v.pkt \in Frame /\ v.pkt.flags = Head(l).flags /\ v.pkt.num = Head(l).num
    BY <1>1 DEF Frame, HdrKinds
  <1>3. Head(l) \in S => v.pkt \in S  BY <1>2 DEF AnsS, AnsOK, Ord, Answer
  <1>4. \A g \in S : g \in Frame  BY DEF AnsS
  <1>5. \A g \in S : <<Head(l), g>> \in R => <<v.pkt, g>> \in R
    <2> HIDE DEF S
    <2> QED  BY <1>1, <1>2, <1>4, AnsRFacts DEF Ord, Answer
  <1> HIDE DEF S, R
  <1>6. Way(s, l, S, R)  BY DEF AnsInv, S, R
  <1>7. \A g \in S : <<Head(l), g>> \in R => <<v.pkt, g>> \in R  BY <1>5
  <1>8. Way(v, Tail(l), S, R)  BY <1>3, <1>6, <1>7, WayTaken
  <1> QED  BY <1>8 DEF AnsInv, S, R

\* The head is acknowledged: it is packet m, the last one passed to the user,
\* and the answers still on their way are about it or later ones.
LEMMA AnsReleased ==
  ASSUME NEW s, NEW l, NEW u, NEW lo \in Nat, NEW n \in Nat, AnsInv(s, l, u, lo, n),
         Live(s), Answer(s.pkt), NEW m \in Nat, m > 0, s.pkt.num = Num(m), n <= m, m <= lo + 2,
         NEW v, ~ Live(v)
  PROVE  n = m /\ AnsInv(v, l, u, m, m)
  <1>0. /\ Way(s, l, AnsS(u.ack, Pend(u), lo, n), AnsR(lo))
        /\ AnsOK(u.ack, lo, n) /\ AnsOK(Pend(u), lo, n) /\ Ord(u.ack, Pend(u), lo)
        /\ lo <= n /\ n <= lo + 2
        /\ u.handled = IF n = 0 THEN NUM_RX_INIT ELSE Num(n)
    BY DEF AnsInv
  <1>1. s.pkt \in AnsS(u.ack, Pend(u), lo, n)  BY <1>0 DEF Way
  <1>2. s.pkt \in Frame /\ Ranked(Num(m), lo, n) /\ Ord(s.pkt, u.ack, lo) /\ Ord(s.pkt, Pend(u), lo)
    BY <1>1 DEF AnsS, AnsOK
  <1>3. Rank(Num(m), lo) = m /\ n = m /\ lo <= m  BY <1>0, <1>2, AnsMatch
  <1>4. Rank(Num(m), m) = m  BY RankOf
  \* Whatever comes after the frame is about packet m.
  <1>5. ASSUME NEW f, AnsOK(f, lo, n), Ord(s.pkt, f, lo), Answer(f)
        PROVE  f.num = Num(m)
    <2>1. Ranked(f.num, lo, n)  BY <1>5 DEF AnsOK
    <2>2. Rank(f.num, lo) \in Nat  BY <2>1, RankNat
    <2>3. m <= Rank(f.num, lo)  BY <1>3, <1>5 DEF Ord
    <2>4. Rank(f.num, lo) = m  BY <1>3, <2>1, <2>2, <2>3 DEF Ranked
    <2> QED  BY <2>1, <2>4 DEF Ranked
  <1>6. ASSUME NEW f, Answer(f) => f.num = Num(m)  PROVE AnsOK(f, m, m)
    BY <1>4, <1>6 DEF AnsOK, Ranked
  <1>7. ASSUME NEW f, NEW g, Answer(f) => f.num = Num(m), Answer(g) => g.num = Num(m)
        PROVE  Ord(f, g, m)
    BY <1>4, <1>7 DEF Ord
  <1> DEFINE a == u.ack
             b == Pend(u)
  <1>8. (Answer(a) => a.num = Num(m)) /\ (Answer(b) => b.num = Num(m))  BY <1>0, <1>2, <1>5
  <1>9. AnsOK(a, m, m) /\ AnsOK(b, m, m) /\ Ord(a, b, m)  BY <1>6, <1>7, <1>8
  <1> DEFINE S == AnsS(a, b, lo, n)
             S2 == AnsS(a, b, m, m)
  <1> HIDE DEF a, b
  <1>10. ASSUME NEW f \in S, <<s.pkt, f>> \in AnsR(lo)  PROVE f \in S2
    <2>1. f \in Frame /\ AnsOK(f, lo, n)  BY DEF AnsS
    <2>2. Ord(s.pkt, f, lo)  BY <1>2, <1>10, <2>1, AnsRFacts
    <2>3. Answer(f) => f.num = Num(m)  BY <1>5, <2>1, <2>2
    <2> QED  BY <1>6, <1>7, <1>8, <2>1, <2>3 DEF AnsS
  <1> DEFINE R == AnsR(lo)
             R2 == AnsR(m)
  <1>11. ASSUME NEW f \in S, NEW g \in S, <<s.pkt, f>> \in R, <<s.pkt, g>> \in R
         PROVE  <<f, g>> \in R2
    <2>1. f \in Frame /\ AnsOK(f, lo, n) /\ g \in Frame /\ AnsOK(g, lo, n)  BY DEF AnsS
    <2>2. Ord(s.pkt, f, lo) /\ Ord(s.pkt, g, lo)  BY <1>2, <1>11, <2>1, AnsRFacts
    <2>3. (Answer(f) => f.num = Num(m)) /\ (Answer(g) => g.num = Num(m))  BY <1>5, <2>1, <2>2
    <2>4. Ord(f, g, m)  BY <1>7, <2>3
    <2> QED  BY <2>1, <2>4, AnsRFacts
  <1>12. Way(s, l, S, R) /\ S2 = AnsS(u.ack, Pend(u), m, m) /\ R2 = AnsR(m)  BY <1>0 DEF a, b
  <1>13. \A f \in S : <<s.pkt, f>> \in R => f \in S2  BY <1>10
  <1> HIDE DEF S, R, S2, R2
  <1>14. Way(v, l, S2, R2)  BY <1>11, <1>12, <1>13, WayPast
  <1> QED  BY <1>0, <1>3, <1>9, <1>12, <1>14 DEF AnsInv, a, b

\* zbncp_ll_process_tx moves an answer to the ACK buffer, or empties it.
LEMMA AnsStepped ==
  ASSUME NEW s, NEW l, NEW u, NEW lo, NEW n, AnsInv(s, l, u, lo, n), NEW t,
         AckStep(u, t), t.handled = u.handled
  PROVE  AnsInv(s, l, t, lo, n)
  <1>1. CASE AckSame(u, t)  BY <1>1, AnsKept
  <1>2. CASE ~ AckSame(u, t)
    <2>1. \/ t.ack = Pend(u) /\ ~ Answer(Pend(t))
          \/ ~ Answer(t.ack) /\ Pend(t) = Pend(u)
      <3>1. CASE Popped(u, t)
        <4>1. t.ack = Pend(u) /\ t.ackFlags = "NONE"  BY <3>1 DEF Popped, Pend
        <4>2. Pend(t).flags = t.ackFlags  BY DEF Pend, AckFrame
        <4> QED  BY <4>1, <4>2 DEF Answer
      <3>2. CASE t.ack = NoFrame /\ t.ackNo = u.ackNo /\ t.ackFlags = u.ackFlags
        <4>1. NoFrame.flags = "NONE"  BY DEF NoFrame, PktFrame
        <4> QED  BY <3>2, <4>1 DEF Answer, Pend
      <3> QED  BY <1>2, <3>1, <3>2 DEF AckStep
    <2> DEFINE a == u.ack
               b == Pend(u)
               x == t.ack
               y == Pend(t)
               S == AnsS(a, b, lo, n)
               S2 == AnsS(x, y, lo, n)
               R == AnsR(lo)
    <2>2. /\ Way(s, l, S, R)
          /\ AnsOK(a, lo, n) /\ AnsOK(b, lo, n)
          /\ lo <= n /\ n <= lo + 2
          /\ u.handled = IF n = 0 THEN NUM_RX_INIT ELSE Num(n)
      BY DEF AnsInv
    <2>3. (x = b /\ ~ Answer(y)) \/ (~ Answer(x) /\ y = b)  BY <2>1
    <2> HIDE DEF a, b, x, y
    <2>4. \A f \in S : f \in S2  BY <2>3 DEF AnsS, Ord
    <2>5. AnsOK(x, lo, n) /\ AnsOK(y, lo, n) /\ Ord(x, y, lo)  BY <2>2, <2>3 DEF AnsOK, Ord
    <2> HIDE DEF S, S2, R
    <2>6. Way(s, l, S2, R)  BY <2>2, <2>4, WayKept
    <2> QED  BY <2>2, <2>5, <2>6 DEF AnsInv, x, y, S2, R
  <1> QED  BY <1>1, <1>2

\* The answer, or a packet, goes out.
LEMMA AnsSent ==
  ASSUME NEW s, NEW l \in Seq(Frame), NEW u, NEW lo \in Nat, NEW n \in Nat, AnsInv(s, l, u, lo, n),
         NEW g \in Frame, Answer(g) => g.flags = u.ack.flags /\ g.num = u.ack.num
  PROVE  AnsInv(s, l \o <<g>>, u, lo, n)
  <1> DEFINE a == u.ack
             b == Pend(u)
             S == AnsS(a, b, lo, n)
             R == AnsR(lo)
  <1>1. /\ Way(s, l, S, R)
        /\ AnsOK(a, lo, n) /\ AnsOK(b, lo, n) /\ Ord(a, b, lo)
    BY DEF AnsInv
  <1> HIDE DEF b
  <1>2. Answer(g) => Answer(a) /\ g.num = a.num  BY DEF Answer
  <1> HIDE DEF a
  <1>3. AnsOK(g, lo, n) /\ Ord(g, b, lo)  BY <1>1, <1>2 DEF AnsOK, Ord
  <1>4. Ord(g, a, lo)
    <2> SUFFICES ASSUME Answer(g)  PROVE Rank(g.num, lo) <= Rank(a.num, lo)
      BY DEF Ord
    <2>1. g.num = a.num /\ Rank(g.num, lo) \in Nat  BY <1>2, <1>3, RankNat DEF AnsOK
    <2> QED  BY <2>1
  <1>5. g \in S  BY <1>3, <1>4 DEF AnsS
  <1>6. \A f \in S : <<f, g>> \in R
    <2> TAKE f \in S
    <2>1. f \in Frame /\ Ord(f, a, lo)  BY DEF AnsS
    <2>2. Ord(f, g, lo)  BY <1>2, <2>1 DEF Ord
    <2> QED  BY <2>1, <2>2, AnsRFacts
  <1> HIDE DEF S, R
  <1>7. Way(s, l \o <<g>>, S, R)  BY <1>1, <1>5, <1>6, WayAppended
  <1> QED  BY <1>7 DEF AnsInv, S, R, a, b

\* The receiver answers packet n2, the last one passed to its user.
LEMMA AnsAdded ==
  ASSUME NEW s, NEW l, NEW u, NEW lo \in Nat, NEW n \in Nat, AnsInv(s, l, u, lo, n),
         NEW v, v.ack = u.ack, NEW n2 \in Nat, n2 > 0, n <= n2, n2 <= lo + 2,
         v.handled = Num(n2), v.ackNo = Num(n2)
  PROVE  AnsInv(s, l, v, lo, n2)
  <1> DEFINE a == u.ack
             b == Pend(u)
             y == Pend(v)
             S == AnsS(a, b, lo, n)
             S2 == AnsS(a, y, lo, n2)
             R == AnsR(lo)
  <1>1. /\ Way(s, l, S, R)
        /\ AnsOK(a, lo, n) /\ AnsOK(b, lo, n)
        /\ lo <= n /\ n <= lo + 2
    BY DEF AnsInv
  <1>2. Rank(Num(n2), lo) = n2  BY <1>1, RankOf
  <1>3. y.num = Num(n2)  BY DEF Pend, AckFrame
  <1> HIDE DEF a, b, y
  <1>4. AnsOK(y, lo, n2)  BY <1>1, <1>2, <1>3 DEF AnsOK, Ranked
  <1>5. ASSUME NEW f, AnsOK(f, lo, n)  PROVE AnsOK(f, lo, n2) /\ Ord(f, y, lo)
    <2> SUFFICES ASSUME Answer(f)  PROVE Ranked(f.num, lo, n2) /\ Rank(f.num, lo) <= n2
      BY <1>2, <1>3 DEF AnsOK, Ord
    <2> QED  BY <1>5 DEF AnsOK, Ranked
  <1>6. \A f \in S : f \in S2  BY <1>5 DEF AnsS
  <1>7. AnsOK(a, lo, n2) /\ Ord(a, y, lo)  BY <1>1, <1>5
  <1> HIDE DEF S, S2, R
  <1>8. Way(s, l, S2, R)  BY <1>1, <1>6, WayKept
  <1> QED  BY <1>1, <1>4, <1>7, <1>8 DEF AnsInv, a, y, S2, R

\* What became of a packet.
Outcome == {"acked", "dropped"}

\* No two packets in a row were given up.
OneInRow(rs) == \A m \in 1..Len(rs) - 1 : ~ (rs[m] = "dropped" /\ rs[m + 1] = "dropped")

\* The oldest packet an answer on its way may be about: the last one the sender
\* is done with, or the one before if that was given up.
Low(rs) == IF rs # << >> /\ rs[Len(rs)] = "dropped" THEN Len(rs) - 1 ELSE Len(rs)

\* Two packets in a row were given up before packet n (GaveUpTwoBefore).
TwoBefore(rs, n) == \E m \in 1..n - 2 : rs[m] = "dropped" /\ rs[m + 1] = "dropped"

\* Every packet acknowledged is among those delivered, unless that happened.
AckedOK(rs, d) ==
  \A n \in 1..Len(rs) : rs[n] = "acked" /\ ~ TwoBefore(rs, n) => Contains(d, n)

\* The answers on their way are about the last two packets done with, or later ones.
LEMMA LowFacts ==
  ASSUME NEW rs \in Seq(Outcome)
  PROVE  Low(rs) \in Nat /\ Low(rs) <= Len(rs) /\ Len(rs) <= Low(rs) + 1 /\ Len(rs) \in Nat
  BY EmptySeq DEF Low

\* One more outcome moves the bound up by at most one.
LEMMA OneMore ==
  ASSUME NEW rs \in Seq(Outcome), NEW o \in Outcome, NEW rs2, rs2 = rs \o <<o>>
  PROVE  /\ rs2 \in Seq(Outcome) /\ Len(rs2) = Len(rs) + 1
         /\ OneInRow(rs2) => OneInRow(rs)
         /\ o = "dropped" /\ OneInRow(rs2) => Low(rs) = Len(rs) /\ Low(rs2) = Low(rs)
         /\ o = "acked" => Low(rs2) = Len(rs) + 1
         /\ o = "acked" /\ ~ TwoBefore(rs2, Len(rs) + 1) => OneInRow(rs2)
  <1>1. /\ rs2 \in Seq(Outcome) /\ Len(rs) \in Nat /\ Len(rs2) = Len(rs) + 1
        /\ \A i \in 1..Len(rs) : rs2[i] = rs[i]
        /\ rs2[Len(rs) + 1] = o
    OBVIOUS
  <1>2. rs2 # << >>  BY <1>1, EmptySeq
  <1>3. OneInRow(rs2) => OneInRow(rs)
    <2> SUFFICES ASSUME OneInRow(rs2), NEW m \in 1..Len(rs) - 1
                 PROVE  ~ (rs[m] = "dropped" /\ rs[m + 1] = "dropped")
      BY DEF OneInRow
    <2>1. m \in 1..Len(rs2) - 1 /\ m \in 1..Len(rs) /\ m + 1 \in 1..Len(rs)  BY <1>1
    <2> QED  BY <1>1, <2>1 DEF OneInRow
  <1>4. o = "dropped" => Low(rs2) = Len(rs)  BY <1>1, <1>2 DEF Low
  <1>5. o = "dropped" /\ OneInRow(rs2) => Low(rs) = Len(rs)
    <2> SUFFICES ASSUME o = "dropped", OneInRow(rs2), rs # << >>, rs[Len(rs)] = "dropped"  PROVE FALSE
      BY DEF Low
    <2>1. Len(rs) \in 1..Len(rs) /\ Len(rs) \in 1..Len(rs2) - 1  BY <1>1, EmptySeq
    <2> QED  BY <1>1, <2>1 DEF OneInRow
  <1>6. o = "acked" => Low(rs2) = Len(rs) + 1  BY <1>1, <1>2 DEF Low
  <1>7. o = "acked" /\ ~ TwoBefore(rs2, Len(rs) + 1) => OneInRow(rs2)
    <2> SUFFICES ASSUME o = "acked", ~ TwoBefore(rs2, Len(rs) + 1), NEW m \in 1..Len(rs2) - 1
                 PROVE  ~ (rs2[m] = "dropped" /\ rs2[m + 1] = "dropped")
      BY DEF OneInRow
    <2>1. CASE m = Len(rs)  BY <1>1, <2>1
    <2>2. CASE m # Len(rs)
      <3>1. m \in 1..(Len(rs) + 1) - 2  BY <1>1, <2>2
      <3> QED  BY <3>1 DEF TwoBefore
    <2> QED  BY <2>1, <2>2
  <1> QED  BY <1>1, <1>3, <1>4, <1>5, <1>6, <1>7

\* Recording an outcome keeps what is known of those before it.
LEMMA AckedMore ==
  ASSUME NEW rs \in Seq(Outcome), NEW o \in Outcome, NEW rs2, rs2 = rs \o <<o>>, NEW d, AckedOK(rs, d),
         o = "acked" /\ OneInRow(rs2) => Contains(d, Len(rs) + 1)
  PROVE  AckedOK(rs2, d)
  <1>1. /\ Len(rs) \in Nat /\ Len(rs2) = Len(rs) + 1
        /\ \A i \in 1..Len(rs) : rs2[i] = rs[i]
        /\ rs2[Len(rs) + 1] = o
    OBVIOUS
  <1> SUFFICES ASSUME NEW n \in 1..Len(rs2), rs2[n] = "acked", ~ TwoBefore(rs2, n)
               PROVE  Contains(d, n)
    BY DEF AckedOK
  <1>2. CASE n \in 1..Len(rs)
    <2>1. rs[n] = "acked"  BY <1>1, <1>2
    <2>2. ~ TwoBefore(rs, n)
      <3> SUFFICES ASSUME NEW m \in 1..n - 2, rs[m] = "dropped", rs[m + 1] = "dropped"  PROVE FALSE
        BY DEF TwoBefore
      <3>1. m \in 1..Len(rs) /\ m + 1 \in 1..Len(rs)  BY <1>1, <1>2
      <3>2. rs2[m] = "dropped" /\ rs2[m + 1] = "dropped"  BY <1>1, <3>1
      <3> QED  BY <3>2 DEF TwoBefore
    <2> QED  BY <1>2, <2>1, <2>2 DEF AckedOK
  <1>3. CASE n = Len(rs) + 1
    <2>1. o = "acked" /\ ~ TwoBefore(rs2, Len(rs) + 1)  BY <1>1, <1>3
    <2> QED  BY <1>3, <2>1, OneMore
  <1> QED  BY <1>1, <1>2, <1>3

\* Delivering a packet keeps what is known of those acknowledged.
LEMMA AckedGrows ==
  ASSUME NEW rs, NEW d \in Seq(Nat), AckedOK(rs, d), NEW o \in Nat
  PROVE  AckedOK(rs, d \o <<o>>)
  <1> SUFFICES ASSUME NEW n \in 1..Len(rs), rs[n] = "acked", ~ TwoBefore(rs, n)
               PROVE  Contains(d \o <<o>>, n)
    BY DEF AckedOK
  <1>1. Contains(d, n)  BY DEF AckedOK
  <1> QED  BY <1>1, AddContains

\* The last packet delivered is among those delivered.
LEMMA LastContains ==
  ASSUME NEW d \in Seq(Nat), LastOf(d) > 0
  PROVE  Contains(d, LastOf(d))
  <1>1. d # << >>  BY DEF LastOf
  <1>2. LastOf(d) = d[Len(d)] /\ Len(d) \in 1..Len(d)  BY <1>1, EmptySeq DEF LastOf
  <1> QED  BY <1>2 DEF Contains

\* A quantum of the sender, seen from its own packets: what an acknowledgement
\* is about, and that it does not meet a packet given up in the same quantum.
SentOK(v, l, u, d, rs, rs2, drops, rel) ==
  /\ OneInRow(rs2) => /\ OneInRow(rs) /\ AnsInv(v, l, u, Low(rs2), LastOf(d))
                      /\ ~ (drops /\ rel)
                      /\ rel => LastOf(d) = Len(rs) + 1
  /\ AckedOK(rs2, d)

\* One quantum of the sender: an ACK that releases the head is about a packet delivered.
LEMMA SenderQuantum ==
  ASSUME NEW s, NEW rs \in Seq(Outcome), NEW t \in LLState, RxSame(s, t), NEW acc \in Nat,
         NEW drops, drops \in BOOLEAN, QInv(t, Len(rs) + One(drops), acc),
         NEW hasPlace \in BOOLEAN, NEW v, RxStep(t, v, hasPlace),
         NEW l, NEW u, NEW d \in Seq(Nat), LastOf(d) <= Len(rs) + 1,
         OneInRow(rs) => AnsInv(s, l, u, Low(rs), LastOf(d)), AckedOK(rs, d),
         NEW rs2, rs2 = rs \o Opt(drops, "dropped") \o Opt(Releases(t), "acked")
  PROVE  SentOK(v, l, u, d, rs, rs2, drops, Releases(t))
  <1> SUFFICES /\ OneInRow(rs2) => /\ OneInRow(rs) /\ AnsInv(v, l, u, Low(rs2), LastOf(d))
                                   /\ ~ (drops /\ Releases(t))
                                   /\ Releases(t) => LastOf(d) = Len(rs) + 1
               /\ AckedOK(rs2, d)
    BY DEF SentOK
  <1>1. PICK n \in Nat : n = LastOf(d)  BY LastType
  <1>2. PICK lo \in Nat : lo = Low(rs) /\ lo <= Len(rs) /\ Len(rs) <= lo + 1 /\ Len(rs) \in Nat
    BY LowFacts
  <1>3. (Live(t) <=> Live(s)) /\ t.pkt = s.pkt  BY DEF RxSame, Live
  <1>4. Live(v) => Live(s) /\ v.pkt = s.pkt  BY <1>3 DEF RxStep
  <1>5. "acked" \in Outcome /\ "dropped" \in Outcome  BY DEF Outcome
  <1>6. Releases(t) => /\ Live(s) /\ ~ Live(v) /\ Answer(s.pkt)
                       /\ s.pkt.num = Num(Len(rs) + One(drops) + 1)
    <2> SUFFICES ASSUME Releases(t)  PROVE /\ Live(s) /\ ~ Live(v) /\ Answer(s.pkt)
                                           /\ s.pkt.num = Num(Len(rs) + One(drops) + 1)
      OBVIOUS
    <2>1. /\ t.rxState = "BODY_RECEIVED" /\ t.fifo # << >> /\ Head(t.fifo).num = t.pkt.num
          /\ t.pkt.flags = "ACK"
      BY DEF Releases, Answers
    <2>2. t.fifo \in Seq(Pkt) /\ Len(rs) + One(drops) \in Nat  BY <1>2 DEF LLState, One
    <2>3. Head(t.fifo).num = Num(Len(rs) + One(drops) + 1)  BY <2>1, <2>2, DropNumbered DEF QInv
    <2> QED  BY <1>3, <2>1, <2>3 DEF Live, Answer, RxStep
  <1>7. CASE drops
    <2>1. PICK rs1 : rs1 = rs \o <<"dropped">>  OBVIOUS
    <2>2. /\ rs1 \in Seq(Outcome) /\ Len(rs1) = Len(rs) + 1
          /\ OneInRow(rs1) => OneInRow(rs) /\ Low(rs) = Len(rs) /\ Low(rs1) = Low(rs)
      BY <1>5, <2>1, OneMore
    <2>3. AckedOK(rs1, d)  BY <1>5, <2>1, AckedMore
    <2>4. rs2 = rs1 \o Opt(Releases(t), "acked")  BY <1>7, <2>1 DEF Opt
    <2>5. CASE Releases(t)
      <3>1. rs2 = rs1 \o <<"acked">>  BY <2>4, <2>5 DEF Opt
      <3>2. ~ OneInRow(rs2)
        <4> SUFFICES ASSUME OneInRow(rs2)  PROVE FALSE
          OBVIOUS
        <4>1. OneInRow(rs1)  BY <1>5, <2>2, <3>1, OneMore
        <4>2. AnsInv(s, l, u, lo, n) /\ lo = Len(rs)  BY <1>1, <1>2, <2>2, <4>1
        <4>3. PICK m \in Nat : m = Len(rs) + 2  BY <1>2
        <4>4. s.pkt.num = Num(m) /\ Live(s) /\ Answer(s.pkt)  BY <1>2, <1>6, <1>7, <2>5, <4>3 DEF One
        <4>5. ~ Live(v) /\ m > 0 /\ n <= m /\ m <= lo + 2 /\ n # m  BY <1>1, <1>2, <1>6, <2>5, <4>2, <4>3
        <4> QED  BY <4>2, <4>4, <4>5, AnsReleased
      <3>3. AckedOK(rs2, d)  BY <1>5, <2>2, <2>3, <3>1, <3>2, AckedMore
      <3> QED  BY <3>2, <3>3
    <2>6. CASE ~ Releases(t)
      <3>1. rs2 = rs1
        <4>1. rs2 = rs1 \o << >>  BY <2>4, <2>6 DEF Opt
        <4> QED  BY <2>2, <4>1
      <3>2. OneInRow(rs2) => AnsInv(v, l, u, Low(rs2), LastOf(d))  BY <1>4, <2>2, <3>1, AnsSame
      <3> QED  BY <2>2, <2>3, <2>6, <3>1, <3>2
    <2> QED  BY <2>5, <2>6
  <1>8. CASE ~ drops
    <2>1. rs2 = rs \o Opt(Releases(t), "acked")
      <3>1. rs2 = (rs \o << >>) \o Opt(Releases(t), "acked")  BY <1>8 DEF Opt
      <3>2. rs \o << >> = rs  OBVIOUS
      <3> QED  BY <3>1, <3>2
    <2>2. CASE Releases(t)
      <3>1. rs2 = rs \o <<"acked">>  BY <2>1, <2>2 DEF Opt
      <3>2. (OneInRow(rs2) => OneInRow(rs)) /\ Low(rs2) = Len(rs) + 1  BY <1>5, <3>1, OneMore
      <3>3. PICK m \in Nat : m = Len(rs) + 1  BY <1>2
      <3>4. /\ s.pkt.num = Num(m) /\ Live(s) /\ ~ Live(v) /\ Answer(s.pkt)
            /\ m > 0 /\ n <= m /\ m <= lo + 2
        BY <1>1, <1>2, <1>6, <1>8, <2>2, <3>3 DEF One
      <3>5. OneInRow(rs2) => n = m /\ AnsInv(v, l, u, m, m)
        <4> SUFFICES ASSUME OneInRow(rs2)  PROVE n = m /\ AnsInv(v, l, u, m, m)
          OBVIOUS
        <4>1. AnsInv(s, l, u, lo, n)  BY <1>1, <1>2, <3>2
        <4> QED  BY <3>4, <4>1, AnsReleased
      <3>6. OneInRow(rs2) => Contains(d, Len(rs) + 1)  BY <1>1, <3>3, <3>4, <3>5, LastContains
      <3>7. AckedOK(rs2, d)  BY <1>5, <3>1, <3>6, AckedMore
      <3> QED  BY <1>1, <1>8, <3>2, <3>3, <3>5, <3>7
    <2>3. CASE ~ Releases(t)
      <3>1. rs2 = rs
        <4>1. rs2 = rs \o << >>  BY <2>1, <2>3 DEF Opt
        <4> QED  BY <4>1
      <3>2. OneInRow(rs) => AnsInv(v, l, u, Low(rs), LastOf(d))  BY <1>4, AnsSame
      <3> QED  BY <2>3, <3>1, <3>2
    <2> QED  BY <2>2, <2>3
  <1> QED  BY <1>7, <1>8

\* Frames whose body is intact and whose type is known.
CleanS == {f \in Frame : f.crcOk /\ f.hdr # "BAD_TYPE"}

\* A quantum of the receiver, seen from its answers: only undamaged frames reach it.
LEMMA ReceiverQuantum ==
  ASSUME NEW s, NEW l, NEW u, NEW t \in LLState, RxSame(u, t), NEW hasPlace \in BOOLEAN, NEW v,
         RxStep(t, v, hasPlace), Live(u) => u.pkt \in CleanS,
         NEW lo \in Nat, NEW n \in Nat, AnsInv(s, l, t, lo, n),
         NEW D, D = Delivers(t, hasPlace), NEW b, b = t.pkt.body, NEW n2, n2 = IF D THEN b ELSE n,
         RxAnswers(t, v) => b \in Nat /\ b > 0 /\ n <= b /\ b <= lo + 2 /\ t.pkt.num = Num(b),
         D => RxAnswers(t, v)
  PROVE  AnsInv(s, l, v, lo, n2)
  <1>1. /\ lo <= n /\ n <= lo + 2
        /\ t.handled = IF n = 0 THEN NUM_RX_INIT ELSE Num(n)
    BY DEF AnsInv
  <1>2. CASE AckSame(t, v) /\ v.handled = t.handled /\ ~ D
    <2>1. n2 = n  BY <1>2
    <2> QED  BY <1>2, <2>1, AnsKept
  <1>3. CASE RxAnswers(t, v) /\ (D \/ ~ (AckSame(t, v) /\ v.handled = t.handled))
    <2>1. v.ack = t.ack /\ v.handled = Num(b) /\ v.ackNo = Num(b) /\ b \in Nat /\ b > 0 /\ n <= b /\ b <= lo + 2
      BY <1>3 DEF RxStep, RxAnswers
    <2>2. n2 = b
      <3> SUFFICES ASSUME ~ D  PROVE b = n
        OBVIOUS
      <3>1. t.pkt.crcOk /\ t.pkt.hdr # "BAD_TYPE"  BY <1>3 DEF RxSame, RxAnswers, Live, CleanS
      <3>2. Duplicate(t)  BY <1>3, <3>1 DEF RxStep
      <3>3. t.handled = Num(b)  BY <1>3, <3>2 DEF Duplicate
      <3>4. n # 0 /\ Num(n) = Num(b)  BY <1>1, <2>1, <3>3, NumFacts
      <3>5. n <= b + 2 /\ b <= n + 2 /\ n > 0  BY <1>1, <2>1, <3>4
      <3> QED  BY <2>1, <3>4, <3>5, NumClose
    <2>3. AnsInv(s, l, v, lo, b)  BY <2>1, AnsAdded
    <2> QED  BY <2>2, <2>3
  <1> QED  BY <1>2, <1>3 DEF RxStep

----------------------------------------------------------------------------
(* The invariants of both directions, and the effect of a quantum. *)

(* The order invariant of the packets p sends: its queue holds the packets after
   those it is done with, numbered, and no copy on the way is out of place. *)
Dir(p) == LET q == Other(p) r == Len(resolved[p]) IN
            /\ QInv(ll[p], r, accepted[p])
            /\ DataInv(ll[q], line[q], delivered[q], r, accepted[p])

\* Both directions.
OrderInv == \A p \in Peer : Dir(p)

\* In whatever order.
CleanR == Frame \X Frame

(* The answer invariant: only undamaged frames, and unless two packets in a row
   were given up, the answers on their way to p are in order and about packets
   that the other end's user has got. *)
CleanWay(p) == Way(ll[p], line[p], CleanS, CleanR) /\ ll[p].ack \in CleanS
Row(p) == OneInRow(resolved[p]) =>
            AnsInv(ll[p], line[p], ll[Other(p)], Low(resolved[p]), LastOf(delivered[Other(p)]))
Acked(p) == AckedOK(resolved[p], delivered[Other(p)])

\* The answer invariant of the link.
AnswerInv == \A p \in Peer : CleanWay(p) /\ Row(p) /\ Acked(p)

----------------------------------------------------------------------------

\* The kinds of fault after which the receiver could answer what it did not take.
NoFalseAck == {"BAD_BODY", "BAD_TYPE"} \cap Faults = {}

\* There are two ends, each the other's other.
LEMMA Ends == \A p \in Peer : /\ Other(p) \in Peer /\ Other(p) # p /\ Other(Other(p)) = p
                              /\ \A q \in Peer : q = p \/ q = Other(p)
  BY LinkConstants DEF Other, Peer

\* What a frame that went out as f may be when it reaches the other end.
Arrives(g, f) == /\ g \in Frame /\ g.flags = f.flags /\ g.num = f.num /\ g.body = f.body
                 /\ NoFalseAck => g.crcOk = f.crcOk /\ (g.hdr = "BAD_TYPE" => f.hdr = "BAD_TYPE")

(* What a quantum of p does: its end is t once it has taken the user's packet
   (takes), given one up (drops) and transmitted, and v at the end; fs is what
   reaches the line. *)
QuantumEffect(p, hasPlace, takes, drops, t, v, fs) ==
  LET e == Len(resolved[p]) + One(drops) n == accepted[p] + One(takes) IN
    /\ t \in LLState /\ takes \in BOOLEAN /\ drops \in BOOLEAN
    /\ QInv(t, e, n) /\ QInv(v, e + One(Releases(t)), n)
    /\ takes => Len(ll[p].fifo) < TX_FIFO_SIZE
    /\ drops => ll[p].fifo # << >>
    /\ RxSame(ll[p], t) /\ AckStep(ll[p], t) /\ RxStep(t, v, hasPlace)
    /\ ll' = [ll EXCEPT ![p] = v]
    /\ accepted' = [accepted EXCEPT ![p] = n]
    /\ resolved' = [resolved EXCEPT ![p] = @ \o Opt(drops, "dropped") \o Opt(Releases(t), "acked")]
    /\ delivered' = [delivered EXCEPT ![p] = @ \o Opt(Delivers(t, hasPlace), t.pkt.body)]
    /\ line' = [line EXCEPT ![Other(p)] = @ \o fs]
    /\ \/ fs = << >>
       \/ \E g, f \in Frame : fs = <<g>> /\ Sends(t) /\ f = Outgoing(t) /\ Arrives(g, f)

\* Every quantum has that effect.
LEMMA QuantumParts ==
  ASSUME IInv, NEW p \in Peer, Dir(p), NEW hasPlace \in BOOLEAN, NEW elapsed \in BOOLEAN,
         NEW more \in BOOLEAN, PollEnd(p, hasPlace, elapsed, more)
  PROVE  \E t, takes, drops, v, fs : QuantumEffect(p, hasPlace, takes, drops, t, v, fs)
  <1>a. PICK body : body = IF offering[p] THEN accepted[p] + 1 ELSE 0  OBVIOUS
  <1>b. PICK a : a = AlarmUpdateTime(ll[p], elapsed)  OBVIOUS
  <1>c. PICK x : x = TxAllocPkt(a, body)  OBVIOUS
  <1>d. PICK t : t = ProcessTx(a, body)  OBVIOUS
  <1>e. PICK v : v = Poll(ll[p], body, hasPlace, elapsed)  OBVIOUS
  <1>f. PICK r : r = Len(resolved[p])  OBVIOUS
  <1>1. TypeOK /\ LLInv(ll[p])  BY DEF IInv, EndInv
  <1>2. accepted[p] \in Nat /\ resolved[p] \in Seq(Outcome)  BY <1>1 DEF TypeOK, Outcome
  <1>3. r \in Nat /\ body \in {0, accepted[p] + 1}  BY <1>2, <1>a, <1>f
  <1>4. QInv(ll[p], r, accepted[p])  BY <1>f DEF Dir
  <1>5. PICK s : s = ll[p]  OBVIOUS
  <1>6. PICK acc \in Nat : acc = accepted[p]  BY <1>2
  <1>7. PICK e : e = r + One(GivesUp(x))  OBVIOUS
  <1>8. PICK n : n = acc + One(Takes(a, body))  OBVIOUS
  <1>9. /\ a.fifo = s.fifo /\ a.txState = s.txState
        /\ QInv(t, e, n) /\ QInv(v, e + One(Releases(t)), n)
        /\ GivesUp(x) => s.fifo # << >>
        /\ RxSame(s, t) /\ AckStep(s, t) /\ RxStep(t, v, hasPlace)
        /\ a.txState = "IDLE" /\ t.txState \in {"SENDING_ACK", "SENDING_PKT"} => Sends(t)
        /\ t \in LLState /\ s \in LLState
    <2>1. LLInv(s) /\ QInv(s, r, acc) /\ body \in {0, acc + 1}  BY <1>1, <1>3, <1>4, <1>5, <1>6
    <2>2. a = AlarmUpdateTime(s, elapsed) /\ v = Poll(s, body, hasPlace, elapsed)  BY <1>5, <1>b, <1>e
    <2>3. QInv(t, e, n)  BY <1>3, <1>7, <1>8, <1>c, <1>d, <2>1, <2>2, QuantumNumbered, SMTT(60)
    <2>4. QInv(v, e + One(Releases(t)), n)  BY <1>3, <1>7, <1>8, <1>c, <1>d, <2>1, <2>2, QuantumNumbered
    <2>5. GivesUp(x) => s.fifo # << >>  BY <1>3, <1>7, <1>8, <1>c, <1>d, <2>1, <2>2, QuantumNumbered
    <2>6. RxSame(s, t) /\ AckStep(s, t)  BY <1>3, <1>7, <1>8, <1>c, <1>d, <2>1, <2>2, QuantumNumbered
    <2>7. RxStep(t, v, hasPlace)  BY <1>3, <1>7, <1>8, <1>c, <1>d, <2>1, <2>2, QuantumNumbered
    <2>8. a.txState = "IDLE" /\ t.txState \in {"SENDING_ACK", "SENDING_PKT"} => Sends(t)
      BY <1>3, <1>7, <1>8, <1>c, <1>d, <2>1, <2>2, QuantumNumbered, SMTT(60)
    <2>9. a.fifo = s.fifo /\ a.txState = s.txState /\ t \in LLState /\ s \in LLState
      BY <1>3, <1>7, <1>8, <1>c, <1>d, <2>1, <2>2, QuantumNumbered, SMTT(60)
    <2> QED  BY <2>3, <2>4, <2>5, <2>6, <2>7, <2>8, <2>9
  <1> DEFINE sends == a.txState = "IDLE" /\ t.txState \in {"SENDING_ACK", "SENDING_PKT"}
  <1>11. PICK k \in IF sends /\ hasPlace THEN Possible(LineFaults \cup SendFaults) ELSE {"NONE"} :
           line' = [line EXCEPT ![Other(p)] = @ \o IF sends THEN Damaged(Outgoing(t), k) ELSE << >>]
    BY <1>a, <1>b, <1>d DEF PollEnd
  <1>12. /\ ll' = [ll EXCEPT ![p] = v]
         /\ accepted' = [accepted EXCEPT ![p] = @ + IF Takes(a, body) THEN 1 ELSE 0]
         /\ resolved' = [resolved EXCEPT ![p] = @ \o Opt(GivesUp(x), "dropped") \o Opt(Releases(t), "acked")]
         /\ delivered' = [delivered EXCEPT ![p] = @ \o Opt(Delivers(t, hasPlace), t.pkt.body)]
    BY <1>a, <1>b, <1>c, <1>d, <1>e DEF PollEnd
  <1>13. accepted' = [accepted EXCEPT ![p] = n]  BY <1>6, <1>8, <1>12 DEF One
  <1>14. PICK fs : fs = IF sends THEN Damaged(Outgoing(t), k) ELSE << >>  OBVIOUS
  <1>15. line' = [line EXCEPT ![Other(p)] = @ \o fs]  BY <1>11, <1>14
  <1>16. k \in {"NONE"} \cup (Faults \cap (LineFaults \cup SendFaults))
    <2>1. CASE sends /\ hasPlace
      <3>1. k \in Possible(LineFaults \cup SendFaults)  BY <2>1, <1>11
      <3> QED  BY <3>1, PossibleKinds
    <2>2. CASE ~ (sends /\ hasPlace)  BY <2>2, <1>11
    <2> QED  BY <2>1, <2>2
  <1>17. sends => Outgoing(t) \in Frame
    <2>1. LLInv(a) /\ body \in Nat  BY <1>1, <1>2, <1>3, <1>b, AlarmUpdateTimeInv
    <2> QED  BY <1>d, <2>1, OutgoingFrame
  <1>18. \/ fs = << >>
         \/ \E g, f \in Frame : fs = <<g>> /\ Sends(t) /\ f = Outgoing(t) /\ Arrives(g, f)
    <2>1. CASE ~ sends  BY <2>1, <1>14
    <2>2. CASE sends
      <3>1. Sends(t)  BY <1>9, <2>2
      <3>2. PICK f \in Frame : f = Outgoing(t)  BY <1>17, <2>2
      <3>3. fs = Damaged(f, k)  BY <1>14, <2>2, <3>2
      <3>4. k \in FaultKinds \cup {"NONE"} /\ k # "SHORT_READ" /\ k # "NO_PLACE"
        BY <1>16 DEF FaultKinds, LineFaults, SendFaults
      <3>5. NoFalseAck => k # "BAD_BODY" /\ k # "BAD_TYPE"  BY <1>16 DEF NoFalseAck
      <3>6. \/ fs = << >>
            \/ \E g \in Frame : /\ fs = <<g>>
                                /\ g.flags = f.flags /\ g.num = f.num /\ g.body = f.body
                                /\ k # "BAD_BODY" => g.crcOk = f.crcOk
                                /\ k # "BAD_TYPE" => (g.hdr = "BAD_TYPE" => f.hdr = "BAD_TYPE")
        BY <3>3, <3>4, DamagedSame
      <3> QED  BY <3>1, <3>2, <3>5, <3>6 DEF Arrives
    <2> QED  BY <2>1, <2>2
  <1> HIDE DEF sends
  <1>19. PICK drops \in BOOLEAN : drops = GivesUp(x)  BY DEF GivesUp
  <1>20. PICK takes \in BOOLEAN : takes = Takes(a, body)  BY DEF Takes
  <1>21. /\ Len(resolved[p]) + One(drops) = e /\ accepted[p] + One(takes) = n
    BY <1>6, <1>7, <1>8, <1>19, <1>20, <1>f
  <1>22. takes => Len(ll[p].fifo) < TX_FIFO_SIZE  BY <1>5, <1>9, <1>20 DEF Takes
  <1>23. drops => ll[p].fifo # << >>  BY <1>5, <1>9, <1>19
  <1>24. resolved' = [resolved EXCEPT ![p] = @ \o Opt(drops, "dropped") \o Opt(Releases(t), "acked")]
    BY <1>12, <1>19
  <1>25. QuantumEffect(p, hasPlace, takes, drops, t, v, fs)
    BY <1>5, <1>9, <1>12, <1>13, <1>15, <1>18, <1>21, <1>22, <1>23, <1>24, Zenon DEF QuantumEffect
  <1> QED  BY <1>9, <1>25

\* What the sender hands to its transport is its answer, or packet e + 1.
LEMMA Outgoes ==
  ASSUME NEW t \in LLState, NEW e \in Nat, NEW n, QInv(t, e, n), Sends(t), NEW f, f = Outgoing(t)
  PROVE  \/ f = t.ack /\ f.body = 0
         \/ /\ f.flags = "NONE" /\ f.crcOk /\ f.hdr = "OK"
            /\ f.body = e + 1 /\ f.num = Num(e + 1) /\ e + 1 <= n
  <1>1. CASE t.txState = "SENDING_ACK" /\ Outgoing(t) = t.ack  BY <1>1 DEF QInv
  <1>2. CASE t.fifo # << >> /\ Outgoing(t) = PktFrame(Head(t.fifo).num, Head(t.fifo).body)
    <2>1. t.fifo \in Seq(Pkt)  BY DEF LLState
    <2>2. Head(t.fifo).body = e + 1 /\ Head(t.fifo).num = Num(e + 1) /\ Len(t.fifo) > 0 /\ Len(t.fifo) \in Nat
      BY <1>2, <2>1, DropNumbered DEF QInv
    <2>3. e + 1 <= n  BY <2>2 DEF QInv
    <2>4. f = PktFrame(Num(e + 1), e + 1)  BY <1>2, <2>2
    <2> QED  BY <2>3, <2>4 DEF PktFrame
  <1> QED  BY <1>1, <1>2 DEF Sends

\* What the sender hands to its transport keeps the order on the line.
LEMMA DataOut ==
  ASSUME NEW s, NEW l \in Seq(Frame), NEW d \in Seq(Nat), NEW r \in Nat, NEW acc \in Nat,
         DataInv(s, l, d, r, acc), NEW t \in LLState, NEW e \in Nat, NEW n \in Nat, r <= e, acc <= n,
         QInv(t, e, n), NEW fs,
         \/ fs = << >>
         \/ \E g \in Frame, f \in Frame :
              /\ fs = <<g>> /\ Sends(t) /\ f = Outgoing(t)
              /\ g.num = f.num /\ g.body = f.body
  PROVE  DataInv(s, l \o fs, d, e, n)
  <1>1. DataInv(s, l, d, e, n)  BY DataLater
  <1>2. CASE fs = << >>
    <2>1. l \o fs = l  BY <1>2
    <2> QED  BY <1>1, <2>1
  <1>3. CASE fs # << >>
    <2>1. PICK g \in Frame, f \in Frame : /\ fs = <<g>> /\ Sends(t) /\ f = Outgoing(t)
                                          /\ g.num = f.num /\ g.body = f.body
      BY <1>3
    <2>2. g.body # 0 => g.body = e + 1 /\ g.num = Num(e + 1) /\ e + 1 <= n  BY <2>1, Outgoes
    <2> QED  BY <1>1, <2>1, <2>2, DataSent
  <1> QED  BY <1>2, <1>3

\* An event counts for one packet at most.
LEMMA OneFacts ==
  ASSUME NEW b
  PROVE  One(b) \in Nat /\ One(b) <= 1
  BY DEF One

\* The outcomes a quantum adds: one given up, one acknowledged.
LEMMA OptLen ==
  ASSUME NEW rs \in Seq(Outcome), NEW drops, drops \in BOOLEAN, NEW rel, rel \in BOOLEAN,
         NEW rs2, rs2 = rs \o Opt(drops, "dropped") \o Opt(rel, "acked")
  PROVE  Len(rs2) = Len(rs) + One(drops) + One(rel)
  <1>1. \A b \in BOOLEAN, o \in Outcome, q \in Seq(Outcome) :
          q \o Opt(b, o) \in Seq(Outcome) /\ Len(q \o Opt(b, o)) = Len(q) + One(b)
    <2> TAKE b \in BOOLEAN, o \in Outcome, q \in Seq(Outcome)
    <2>1. CASE b
      <3>1. Opt(b, o) = <<o>> /\ One(b) = 1  BY <2>1 DEF Opt, One
      <3>2. q \o <<o>> \in Seq(Outcome) /\ Len(q \o <<o>>) = Len(q) + 1  OBVIOUS
      <3> QED  BY <3>1, <3>2
    <2>2. CASE ~ b
      <3>1. Opt(b, o) = << >> /\ One(b) = 0  BY <2>2 DEF Opt, One
      <3>2. q \o << >> = q /\ Len(q) \in Nat  OBVIOUS
      <3> QED  BY <3>1, <3>2
    <2> QED  BY <2>1, <2>2
  <1>2. "acked" \in Outcome /\ "dropped" \in Outcome  BY DEF Outcome
  <1> DEFINE m == rs \o Opt(drops, "dropped")
  <1>3. m \in Seq(Outcome) /\ Len(m) = Len(rs) + One(drops)  BY <1>1, <1>2
  <1> HIDE DEF m
  <1>4. Len(m \o Opt(rel, "acked")) = Len(m) + One(rel)  BY <1>1, <1>2, <1>3
  <1> QED  BY <1>3, <1>4 DEF m

\* A quantum keeps the order invariant.
LEMMA QuantumOrder ==
  ASSUME IInv, OrderInv, NEW p \in Peer, NEW hasPlace \in BOOLEAN, NEW elapsed \in BOOLEAN,
         NEW more \in BOOLEAN, PollEnd(p, hasPlace, elapsed, more)
  PROVE  OrderInv'
  <1>1. PICK q : q = Other(p)  OBVIOUS
  <1>2. q \in Peer /\ q # p /\ Other(q) = p /\ \A z \in Peer : z = p \/ z = q  BY <1>1, Ends
  <1>3. Dir(p)  BY DEF OrderInv
  <1>4. PICK t, takes, drops, v, fs : QuantumEffect(p, hasPlace, takes, drops, t, v, fs)
    BY <1>3, QuantumParts
  <1> t \in LLState /\ takes \in BOOLEAN /\ drops \in BOOLEAN  BY <1>4 DEF QuantumEffect
  <1>8. PICK r : r = Len(resolved[p])  OBVIOUS
  <1>9. PICK e : e = r + One(drops)  OBVIOUS
  <1>10. PICK n : n = accepted[p] + One(takes)  OBVIOUS
  <1>11. /\ QInv(t, e, n) /\ QInv(v, e + One(Releases(t)), n)
         /\ RxSame(ll[p], t) /\ RxStep(t, v, hasPlace)
         /\ ll' = [ll EXCEPT ![p] = v]
         /\ accepted' = [accepted EXCEPT ![p] = n]
         /\ resolved' = [resolved EXCEPT ![p] = @ \o Opt(drops, "dropped") \o Opt(Releases(t), "acked")]
         /\ delivered' = [delivered EXCEPT ![p] = @ \o Opt(Delivers(t, hasPlace), t.pkt.body)]
         /\ line' = [line EXCEPT ![q] = @ \o fs]
    BY <1>1, <1>4, <1>8, <1>9, <1>10, Zenon DEF QuantumEffect
  <1>12. TypeOK  BY DEF IInv
  <1>13. /\ accepted[p] \in Nat /\ accepted[q] \in Nat
         /\ resolved[p] \in Seq(Outcome) /\ resolved[q] \in Seq(Outcome)
         /\ delivered[p] \in Seq(Nat) /\ delivered[q] \in Seq(Nat)
         /\ line[p] \in Seq(Frame) /\ line[q] \in Seq(Frame)
    BY <1>2, <1>12 DEF TypeOK, Outcome
  <1>14. r \in Nat /\ e \in Nat /\ n \in Nat /\ r <= e /\ accepted[p] <= n
    <2>1. r \in Nat  BY <1>8, <1>13
    <2>2. PICK x \in Nat : x = One(drops)  BY OneFacts
    <2>3. PICK y \in Nat : y = One(takes)  BY OneFacts
    <2>4. e = r + x /\ n = accepted[p] + y  BY <1>9, <1>10, <2>2, <2>3, Zenon
    <2>5. x >= 0 /\ y >= 0  BY <2>2, <2>3
    <2>6. PICK z \in Nat : z = accepted[p]  BY <1>13
    <2>7. e \in Nat /\ r <= e  BY <2>1, <2>2, <2>4
    <2>8. n \in Nat /\ z <= n  BY <2>3, <2>4, <2>6
    <2> QED  BY <2>1, <2>6, <2>7, <2>8
  <1>15. \/ fs = << >>
         \/ \E g, f \in Frame : fs = <<g>> /\ Sends(t) /\ f = Outgoing(t) /\ g.num = f.num /\ g.body = f.body
    BY <1>4 DEF QuantumEffect, Arrives
  <1>16. PICK rel : rel = Releases(t) /\ rel \in BOOLEAN  BY DEF Releases, Answers
  <1>17. /\ ll'[p] = v /\ ll'[q] = ll[q]
         /\ accepted'[p] = n /\ accepted'[q] = accepted[q]
         /\ resolved'[p] = resolved[p] \o Opt(drops, "dropped") \o Opt(rel, "acked")
         /\ resolved'[q] = resolved[q]
         /\ delivered'[p] = delivered[p] \o Opt(Delivers(t, hasPlace), t.pkt.body)
         /\ delivered'[q] = delivered[q]
         /\ line'[q] = line[q] \o fs /\ line'[p] = line[p]
    BY <1>2, <1>11, <1>12, <1>15, <1>16 DEF TypeOK
  <1>18. Len(resolved'[p]) = e + One(rel) /\ e + One(rel) \in Nat
    <2>2. PICK rs \in Seq(Outcome) : rs = resolved[p]  BY <1>13
    <2>3. PICK rs2 : rs2 = resolved'[p]  OBVIOUS
    <2>4. rs2 = rs \o Opt(drops, "dropped") \o Opt(rel, "acked")  BY <1>17, <2>2, <2>3
    <2>5. Len(rs2) = Len(rs) + One(drops) + One(rel)  BY <1>16, <2>4, OptLen
    <2>6. One(rel) \in Nat  BY DEF One
    <2>7. Len(rs) = r  BY <1>8, <2>2
    <2> QED  BY <1>9, <1>14, <2>3, <2>5, <2>6, <2>7
  <1>19. DataInv(ll[q], line[q] \o fs, delivered[q], e + One(rel), n)
    <2>1. DataInv(ll[q], line[q], delivered[q], r, accepted[p])  BY <1>1, <1>2, <1>8 DEF OrderInv, Dir
    <2>2. DataInv(ll[q], line[q] \o fs, delivered[q], e, n)
      BY <1>11, <1>13, <1>14, <1>15, <2>1, DataOut
    <2>3. e <= e + One(rel)  BY <1>14 DEF One
    <2>4. PICK l : l = line[q] \o fs  OBVIOUS
    <2>5. PICK m \in Nat : m = e + One(rel)  BY <1>18
    <2>6. DataInv(ll[q], l, delivered[q], e, n) /\ e <= m  BY <2>2, <2>3, <2>4, <2>5
    <2>7. DataInv(ll[q], l, delivered[q], m, n)  BY <1>13, <1>14, <2>6, DataLater
    <2> QED  BY <2>4, <2>5, <2>7
  <1>20. Dir(p)'
    <2>1. QInv(v, e + One(rel), n)  BY <1>11, <1>16
    <2>2. QInv(ll'[p], Len(resolved'[p]), accepted'[p])  BY <1>17, <1>18, <2>1
    <2>3. DataInv(ll'[q], line'[q], delivered'[q], Len(resolved'[p]), accepted'[p])
      BY <1>17, <1>18, <1>19
    <2> QED  BY <1>1, <2>2, <2>3 DEF Dir
  <1>21. Dir(q)'
    <2>1. QInv(ll[q], Len(resolved[q]), accepted[q])  BY <1>2 DEF OrderInv, Dir
    <2>2. DataInv(ll[p], line[p], delivered[p], Len(resolved[q]), accepted[q])
      BY <1>2 DEF OrderInv, Dir
    <2>3. DataInv(v, line[p], delivered'[p], Len(resolved[q]), accepted[q])
      <3>4. PICK m \in Nat : m = Len(resolved[q])  BY <1>13
      <3>5. PICK d \in Seq(Nat) : d = delivered[p]  BY <1>13
      <3>6. PICK d2 : d2 = delivered'[p]  OBVIOUS
      <3>7. PICK s : s = ll[p]  OBVIOUS
      <3>8. PICK acc \in Nat : acc = accepted[q]  BY <1>13
      <3>9. /\ DataInv(s, line[p], d, m, acc) /\ RxSame(s, t) /\ d2 = d \o Opt(Delivers(t, hasPlace), t.pkt.body)
            /\ t \in LLState /\ RxStep(t, v, hasPlace)
        BY <1>11, <1>17, <2>2, <3>4, <3>5, <3>6, <3>7, <3>8
      <3>10. PICK l : l = line[p]  OBVIOUS
      <3>11. DataInv(v, l, d2, m, acc)
        <4>1. DataInv(s, l, d, m, acc)  BY <3>9, <3>10
        <4>2. RxSame(s, t) /\ RxStep(t, v, hasPlace) /\ d2 = d \o Opt(Delivers(t, hasPlace), t.pkt.body)  BY <3>9
        <4>3. GotOK(t, v, hasPlace, l, d, d2, m, acc)  BY <4>1, <4>2, DataReceived
        <4> QED  BY <4>3 DEF GotOK
      <3> QED  BY <3>4, <3>6, <3>8, <3>10, <3>11
    <2>4. QInv(ll'[q], Len(resolved'[q]), accepted'[q])  BY <1>17, <2>1
    <2>5. DataInv(ll'[p], line'[p], delivered'[p], Len(resolved'[q]), accepted'[q])  BY <1>17, <2>3
    <2> QED  BY <1>2, <2>4, <2>5 DEF Dir
  <1> QED  BY <1>2, <1>20, <1>21 DEF OrderInv

(* What the transport's completions do: end p becomes v and l is what is still
   on its line; the transmit queue and the answers stay as they are. *)
Completes(p, v, l) ==
  /\ ll' = [ll EXCEPT ![p] = v] /\ line' = [line EXCEPT ![p] = l]
  /\ UNCHANGED <<accepted, resolved, delivered>>
  /\ QInv(v, Len(resolved[p]), accepted[p])
  /\ AckSame(ll[p], v) /\ v.handled = ll[p].handled
  /\ \/ l = line[p] /\ (Live(v) => Live(ll[p]) /\ v.pkt = ll[p].pkt)
     \/ /\ line[p] # << >> /\ l = Tail(line[p])
        /\ v.pkt \in {Head(line[p]), [Head(line[p]) EXCEPT !.hdr = "BAD_CRC"]}

\* Each of the transport's completions does that.
LEMMA CompletionParts ==
  ASSUME IInv, NEW p \in Peer, Dir(p), SendDone(p) \/ HeaderDone(p) \/ BodyDone(p)
  PROVE  \E v, l : Completes(p, v, l)
  <1>1. TypeOK  BY DEF IInv
  <1>2. /\ ll[p] \in LLState /\ line[p] \in Seq(Frame) /\ accepted[p] \in Nat
        /\ Len(resolved[p]) \in Nat /\ line = [line EXCEPT ![p] = line[p]]
    BY <1>1 DEF TypeOK
  <1>3. PICK s \in LLState : s = ll[p]  BY <1>2
  <1>4. PICK r \in Nat : r = Len(resolved[p])  BY <1>2
  <1>5. PICK acc \in Nat : acc = accepted[p]  BY <1>2
  <1>6. QInv(s, r, acc)  BY <1>3, <1>4, <1>5 DEF Dir
  <1>7. CASE SendDone(p)
    <2>1. PICK status \in SendStatus : status = sendDone[p]  BY <1>1, <1>7 DEF TypeOK, SendDone
    <2>2. PICK v : v = SendComplete(s, status)  OBVIOUS
    <2>3. QInv(v, r, acc) /\ RxSame(s, v) /\ AckSame(s, v)  BY <1>6, <2>2, SendCompleteNumbered
    <2>4. ll' = [ll EXCEPT ![p] = v] /\ UNCHANGED <<line, accepted, resolved, delivered>>
      BY <1>3, <1>7, <2>1, <2>2 DEF SendDone
    <2>5. v.handled = s.handled /\ (Live(v) => Live(s) /\ v.pkt = s.pkt)  BY <2>3 DEF RxSame, Live
    <2>6. Completes(p, v, line[p])
      BY <1>2, <1>3, <1>4, <1>5, <2>3, <2>4, <2>5 DEF Completes
    <2> QED  BY <2>6
  <1>8. CASE HeaderDone(p)
    <2>1. s.rxState \in {"RECEIVING_HDR", "RESYNC"} /\ line[p] # << >>  BY <1>3, <1>8 DEF HeaderDone
    <2>2. PICK f \in Frame : f = Head(line[p])  BY <1>2, <2>1, HeadTailProperties
    <2>3. PICK k : ll' = [ll EXCEPT ![p] = RecvComplete(@, Head(line[p]), k = "NONE")]
      BY <1>8 DEF HeaderDone
    <2>4. PICK whole \in BOOLEAN : whole = (k = "NONE")  OBVIOUS
    <2>5. PICK v : v = RecvComplete(s, f, whole)  OBVIOUS
    <2>6. /\ QInv(v, r, acc) /\ AckSame(s, v) /\ v.handled = s.handled
          /\ v.pkt \in {f, [f EXCEPT !.hdr = "BAD_CRC"]}
      BY <1>6, <2>1, <2>5, RecvCompleteNumbered
    <2>7. ll' = [ll EXCEPT ![p] = v]  BY <1>3, <2>2, <2>3, <2>4, <2>5
    <2>8. line' = [line EXCEPT ![p] = Tail(line[p])] /\ UNCHANGED <<accepted, resolved, delivered>>
      BY <1>8 DEF HeaderDone
    <2>9. Completes(p, v, Tail(line[p]))
      BY <1>3, <1>4, <1>5, <2>1, <2>2, <2>6, <2>7, <2>8 DEF Completes
    <2> QED  BY <2>9
  <1>9. CASE BodyDone(p)
    <2>1. s.rxState = "RECEIVING_BODY"  BY <1>3, <1>9 DEF BodyDone
    <2>2. PICK f \in Frame : f = s.pkt  BY DEF LLState
    <2>3. PICK k : ll' = [ll EXCEPT ![p] = RecvComplete(@, @.pkt, k = "NONE")]
      BY <1>9 DEF BodyDone
    <2>4. PICK whole \in BOOLEAN : whole = (k = "NONE")  OBVIOUS
    <2>5. PICK v : v = RecvComplete(s, f, whole)  OBVIOUS
    <2>6. /\ QInv(v, r, acc) /\ AckSame(s, v) /\ v.handled = s.handled
          /\ Live(v) => v.pkt = s.pkt
      BY <1>6, <2>1, <2>5, RecvCompleteNumbered
    <2>7. ll' = [ll EXCEPT ![p] = v]  BY <1>3, <2>2, <2>3, <2>4, <2>5
    <2>8. UNCHANGED <<line, accepted, resolved, delivered>>  BY <1>9 DEF BodyDone
    <2>9. Live(s)  BY <2>1 DEF Live
    <2>10. Completes(p, v, line[p])
      BY <1>2, <1>3, <1>4, <1>5, <2>6, <2>7, <2>8, <2>9 DEF Completes
    <2> QED  BY <2>10
  <1> QED  BY <1>7, <1>8, <1>9

\* The transport's completions keep the order invariant.
LEMMA CompletionOrder ==
  ASSUME IInv, OrderInv, NEW p \in Peer, NEW v, NEW l, Completes(p, v, l)
  PROVE  OrderInv'
  <1>1. PICK q : q = Other(p)  OBVIOUS
  <1>2. q \in Peer /\ q # p /\ Other(q) = p /\ \A z \in Peer : z = p \/ z = q  BY <1>1, Ends
  <1>3. TypeOK  BY DEF IInv
  <1>4. /\ ll'[p] = v /\ ll'[q] = ll[q] /\ line'[p] = l /\ line'[q] = line[q]
        /\ accepted' = accepted /\ resolved' = resolved /\ delivered' = delivered
    BY <1>2, <1>3 DEF Completes, TypeOK
  <1>5. Dir(p)'
    <2>1. DataInv(ll[q], line[q], delivered[q], Len(resolved[p]), accepted[p])
      BY <1>1 DEF OrderInv, Dir
    <2>2. QInv(v, Len(resolved[p]), accepted[p])  BY DEF Completes
    <2> QED  BY <1>1, <1>4, <2>1, <2>2 DEF Dir
  <1>6. Dir(q)'
    <2>1. QInv(ll[q], Len(resolved[q]), accepted[q])  BY <1>2 DEF OrderInv, Dir
    <2>2. PICK s : s = ll[p]  OBVIOUS
    <2>3. PICK d \in Seq(Nat) : d = delivered[p]  BY <1>3 DEF TypeOK
    <2>4. PICK r \in Nat : r = Len(resolved[q])  BY <1>2, <1>3 DEF TypeOK
    <2>5. PICK acc \in Nat : acc = accepted[q]  BY <1>2, <1>3 DEF TypeOK
    <2>6. PICK l0 \in Seq(Frame) : l0 = line[p]  BY <1>3 DEF TypeOK
    <2>7. DataInv(s, l0, d, r, acc)  BY <1>2, <2>2, <2>3, <2>4, <2>5, <2>6 DEF OrderInv, Dir
    <2>8. v.handled = s.handled  BY <2>2 DEF Completes
    <2>9. \/ l = l0 /\ (Live(v) => Live(s) /\ v.pkt = s.pkt)
          \/ l0 # << >> /\ l = Tail(l0) /\ v.pkt \in {Head(l0), [Head(l0) EXCEPT !.hdr = "BAD_CRC"]}
      BY <2>2, <2>6 DEF Completes
    <2>10. DataInv(v, l, d, r, acc)
      <3>1. CASE l = l0 /\ (Live(v) => Live(s) /\ v.pkt = s.pkt)  BY <2>7, <2>8, <3>1, DataSame
      <3>2. CASE l0 # << >> /\ l = Tail(l0) /\ v.pkt \in {Head(l0), [Head(l0) EXCEPT !.hdr = "BAD_CRC"]}
        BY <2>7, <2>8, <3>2, DataTaken
      <3> QED  BY <2>9, <3>1, <3>2
    <2> QED  BY <1>2, <1>4, <2>1, <2>3, <2>4, <2>5, <2>10 DEF Dir
  <1> QED  BY <1>2, <1>5, <1>6 DEF OrderInv

\* Two ends just started, nothing under way.
LEMMA OrderInit == Init => OrderInv
  <1> SUFFICES ASSUME Init, NEW p \in Peer  PROVE Dir(p)
    BY DEF OrderInv
  <1>1. Other(p) \in Peer  BY Ends
  <1>2. /\ ll[p] = LLInit /\ ll[Other(p)] = LLInit /\ line[Other(p)] = << >>
        /\ resolved[p] = << >> /\ accepted[p] = 0 /\ delivered[Other(p)] = << >>
    BY <1>1 DEF Init
  <1>3. Len(<< >>) = 0 /\ LastOf(<< >>) = 0  BY DEF LastOf
  <1>4. QInv(LLInit, 0, 0)
    BY <1>3, NumFacts DEF QInv, LLInit, Numbered, NoFrame, PktFrame
  <1>5. ~ Live(LLInit)  BY DEF Live, LLInit
  <1>6. DataInv(LLInit, << >>, << >>, 0, 0)  BY <1>3, <1>5 DEF DataInv, Way, Passed
  <1> QED  BY <1>2, <1>3, <1>4, <1>6 DEF Dir

\* The order invariant is inductive.
LEMMA OrderNext == IInv /\ OrderInv /\ [Next]_vars => OrderInv'
  <1> SUFFICES ASSUME IInv, OrderInv, [Next]_vars  PROVE OrderInv'
    OBVIOUS
  <1>1. CASE UNCHANGED vars  BY <1>1 DEF vars, OrderInv, Dir
  <1>2. ASSUME NEW p \in Peer, SendPacket(p)  PROVE OrderInv'
    BY <1>2 DEF SendPacket, OrderInv, Dir
  <1>3. ASSUME NEW p \in Peer, Quantum(p)  PROVE OrderInv'
    <2>1. PICK elapsed \in BOOLEAN, more \in BOOLEAN : \E k : PollEnd(p, k = "NONE", elapsed, more)
      BY <1>3 DEF Quantum
    <2>2. PICK hasPlace \in BOOLEAN : PollEnd(p, hasPlace, elapsed, more)  BY <2>1
    <2> QED  BY <2>2, QuantumOrder
  <1>4. ASSUME NEW p \in Peer, SendDone(p) \/ HeaderDone(p) \/ BodyDone(p)  PROVE OrderInv'
    <2>1. Dir(p)  BY DEF OrderInv
    <2>2. PICK v, l : Completes(p, v, l)  BY <1>4, <2>1, CompletionParts
    <2> QED  BY <2>2, CompletionOrder
  <1> QED  BY <1>1, <1>2, <1>3, <1>4 DEF Next

\* No packet but the boot packet reaches a user twice, and none overtakes another:
\* whatever the line and the transports do, zbncp_ll_rx_complete_receiving passes
\* the packets of the other end on in order.
THEOREM PacketOrder == Spec => []NothingTwice
  <1>1. IInv /\ OrderInv => NothingTwice
    <2> SUFFICES ASSUME IInv, OrderInv, NEW p \in Peer, NEW i \in 1..Len(delivered[p]) - 1
                 PROVE  \/ delivered[p][i] < delivered[p][i + 1]
                        \/ delivered[p][i] = 1 /\ delivered[p][i + 1] = 1
      BY DEF NothingTwice
    <2>1. Other(p) \in Peer /\ Other(Other(p)) = p  BY Ends
    <2>2. Passed(delivered[p])  BY <2>1 DEF OrderInv, Dir, DataInv
    <2> QED  BY <2>2 DEF Passed
  <1>2. Spec => []IInv  BY SpecInv
  <1> QED  BY <1>1, <1>2, OrderInit, OrderNext, PTL DEF Spec

----------------------------------------------------------------------------
(* Acknowledged means delivered. *)

\* The ACK buffer holds an undamaged frame.
LEMMA AckClean ==
  ASSUME NEW s, s.ack \in CleanS, NEW t \in LLState, AckStep(s, t)
  PROVE  t.ack \in CleanS
  <1>1. t.ack \in Frame  BY DEF LLState
  <1>2. t.ack = s.ack \/ t.ack = AckFrame(s.ackNo, s.ackFlags) \/ t.ack = NoFrame
    BY DEF AckStep, AckSame, Popped
  <1> QED  BY <1>1, <1>2 DEF CleanS, AckFrame, NoFrame, PktFrame

\* What reaches the line is undamaged, and an answer only if the sender gave one.
LEMMA OutClean ==
  ASSUME NoFalseAck, NEW t \in LLState, t.ack \in CleanS, NEW e \in Nat, NEW n, QInv(t, e, n), Sends(t),
         NEW f, f = Outgoing(t), NEW g, Arrives(g, f)
  PROVE  g \in CleanS /\ (Answer(g) => g.flags = t.ack.flags /\ g.num = t.ack.num)
  <1>1. \/ f = t.ack
        \/ f.flags = "NONE" /\ f.crcOk /\ f.hdr = "OK"
    BY Outgoes
  <1> QED  BY <1>1 DEF Arrives, CleanS, Answer

\* An undamaged frame enters the line.
LEMMA CleanAppended ==
  ASSUME NEW s, NEW l \in Seq(Frame), Way(s, l, CleanS, CleanR), NEW g, g \in CleanS
  PROVE  Way(s, l \o <<g>>, CleanS, CleanR)
  <1>1. g \in Frame /\ \A f \in CleanS : <<f, g>> \in CleanR  BY DEF CleanS, CleanR
  <1> QED  BY <1>1, WayAppended

\* A quantum keeps the answer invariant: p as sender, then p as receiver.
LEMMA QuantumAnswer ==
  ASSUME NoFalseAck, IInv, OrderInv, AnswerInv, NEW p \in Peer, NEW hasPlace \in BOOLEAN,
         NEW elapsed \in BOOLEAN, NEW more \in BOOLEAN, PollEnd(p, hasPlace, elapsed, more)
  PROVE  AnswerInv'
  <1>1. PICK q : q = Other(p)  OBVIOUS
  <1>2. q \in Peer /\ q # p /\ Other(q) = p /\ \A z \in Peer : z = p \/ z = q  BY <1>1, Ends
  <1>3. Dir(p) /\ Dir(q)  BY <1>2 DEF OrderInv
  <1>4. PICK t, takes, drops, v, fs : QuantumEffect(p, hasPlace, takes, drops, t, v, fs)
    BY <1>3, QuantumParts
  <1> t \in LLState /\ takes \in BOOLEAN /\ drops \in BOOLEAN  BY <1>4 DEF QuantumEffect
  <1>5. TypeOK  BY DEF IInv
  <1>6. PICK s : s = ll[p]  OBVIOUS
  <1>7. PICK u : u = ll[q]  OBVIOUS
  <1>8. PICK rs \in Seq(Outcome) : rs = resolved[p]  BY <1>5 DEF TypeOK, Outcome
  <1>9. PICK ro \in Seq(Outcome) : ro = resolved[q]  BY <1>2, <1>5 DEF TypeOK, Outcome
  <1>10. PICK d \in Seq(Nat) : d = delivered[p]  BY <1>5 DEF TypeOK
  <1>11. PICK do \in Seq(Nat) : do = delivered[q]  BY <1>2, <1>5 DEF TypeOK
  <1>12. PICK l \in Seq(Frame) : l = line[p]  BY <1>5 DEF TypeOK
  <1>13. PICK lo \in Seq(Frame) : lo = line[q]  BY <1>2, <1>5 DEF TypeOK
  <1>14. PICK rs2 : rs2 = rs \o Opt(drops, "dropped") \o Opt(Releases(t), "acked")  OBVIOUS
  <1>15. PICK d2 : d2 = d \o Opt(Delivers(t, hasPlace), t.pkt.body)  OBVIOUS
  <1>16. PICK lo2 : lo2 = lo \o fs  OBVIOUS
  <1>17. /\ ll'[p] = v /\ ll'[q] = u
         /\ resolved'[p] = rs2 /\ resolved'[q] = ro
         /\ delivered'[p] = d2 /\ delivered'[q] = do
         /\ line'[p] = l /\ line'[q] = lo2
    BY <1>1, <1>2, <1>4, <1>5, <1>6, <1>7, <1>8, <1>9, <1>10, <1>11, <1>12, <1>13, <1>14, <1>15, <1>16
    DEF QuantumEffect, TypeOK
  <1>18. RxSame(s, t) /\ AckStep(s, t) /\ RxStep(t, v, hasPlace)
    BY <1>4, <1>6 DEF QuantumEffect
  <1>19. PICK e \in Nat : e = Len(rs) + One(drops)
    <2>1. One(drops) \in Nat  BY OneFacts
    <2> QED  BY <2>1
  <1>20. PICK n \in Nat : n = accepted[p] + One(takes)
    <2>1. One(takes) \in Nat /\ accepted[p] \in Nat  BY <1>5, OneFacts DEF TypeOK
    <2> QED  BY <2>1
  <1>21. QInv(t, e, n)  BY <1>4, <1>8, <1>19, <1>20, Zenon DEF QuantumEffect
  <1>22. /\ Way(s, l, CleanS, CleanR) /\ s.ack \in CleanS
         /\ Way(u, lo, CleanS, CleanR) /\ u.ack \in CleanS
    BY <1>2, <1>6, <1>7, <1>12, <1>13 DEF AnswerInv, CleanWay
  <1>23. t.ack \in CleanS /\ v.ack = t.ack  BY <1>18, <1>22, AckClean DEF RxStep
  <1>24. /\ Live(v) => Live(s) /\ v.pkt = s.pkt
         /\ t.handled = s.handled
    BY <1>18 DEF RxStep, RxSame, Live
  <1>25. \/ fs = << >>
         \/ \E g : fs = <<g>> /\ g \in CleanS /\ (Answer(g) => g.flags = t.ack.flags /\ g.num = t.ack.num)
    <2>1. CASE fs # << >>
      <3>1. PICK g, f \in Frame : fs = <<g>> /\ Sends(t) /\ f = Outgoing(t) /\ Arrives(g, f)
        BY <1>4, <2>1 DEF QuantumEffect
      <3>2. g \in CleanS /\ (Answer(g) => g.flags = t.ack.flags /\ g.num = t.ack.num)
        BY <1>21, <1>23, <3>1, OutClean
      <3> QED  BY <3>1, <3>2
    <2> QED  BY <2>1
  <1>26. CleanWay(p)'
    <2>1. Way(v, l, CleanS, CleanR)  BY <1>22, <1>24, WayKept
    <2> QED  BY <1>17, <1>23, <2>1 DEF CleanWay
  <1>27. CleanWay(q)'
    <2>1. Way(u, lo2, CleanS, CleanR)
      <3>1. CASE fs = << >>
        <4>1. lo2 = lo  BY <1>16, <3>1
        <4> QED  BY <1>22, <4>1
      <3>2. ASSUME NEW g, fs = <<g>>, g \in CleanS  PROVE Way(u, lo2, CleanS, CleanR)
        BY <1>16, <1>22, <3>2, CleanAppended
      <3> QED  BY <1>25, <3>1, <3>2
    <2> QED  BY <1>17, <1>22, <2>1 DEF CleanWay
  <1>28. Row(p)' /\ Acked(p)'
    <2>1. OneInRow(rs) => AnsInv(s, l, u, Low(rs), LastOf(do))
      BY <1>1, <1>6, <1>7, <1>8, <1>11, <1>12 DEF AnswerInv, Row
    <2>2. AckedOK(rs, do)  BY <1>1, <1>8, <1>11 DEF AnswerInv, Acked
    <2>3. LastOf(do) <= Len(rs) + 1  BY <1>1, <1>3, <1>8, <1>11 DEF Dir, DataInv
    <2>4. QInv(t, Len(rs) + One(drops), n)  BY <1>19, <1>21
    <2>5. SentOK(v, l, u, do, rs, rs2, drops, Releases(t))
      BY <1>14, <1>18, <2>1, <2>2, <2>3, <2>4, SenderQuantum
    <2>6. AckedOK(rs2, do) /\ (OneInRow(rs2) => AnsInv(v, l, u, Low(rs2), LastOf(do)))
      BY <2>5 DEF SentOK
    <2> QED  BY <1>1, <1>17, <2>6 DEF Row, Acked
  <1>29. PICK r \in Nat : r = Len(ro)  OBVIOUS
  <1>30. PICK acc \in Nat : acc = accepted[q]  BY <1>2, <1>5 DEF TypeOK
  <1>31. GotOK(t, v, hasPlace, l, d, d2, r, acc)
    <2>1. DataInv(s, l, d, r, acc)  BY <1>2, <1>3, <1>6, <1>9, <1>10, <1>12, <1>29, <1>30 DEF Dir
    <2> QED  BY <1>15, <1>18, <2>1, DataReceived
  <1>32. Row(q)'
    <2> SUFFICES ASSUME OneInRow(ro)  PROVE AnsInv(u, lo2, v, Low(ro), LastOf(d2))
      BY <1>2, <1>17 DEF Row
    <2>1. PICK m \in Nat : m = Low(ro) /\ r <= m + 1  BY <1>29, LowFacts
    <2>2. PICK k \in Nat : k = LastOf(d)  BY LastType
    <2>3. AnsInv(u, lo, s, m, k)
      BY <1>2, <1>6, <1>7, <1>9, <1>10, <1>13, <2>1, <2>2 DEF AnswerInv, Row
    <2>4. AnsInv(u, lo, t, m, k)  BY <1>18, <1>24, <2>3, AnsStepped
    <2>5. AnsInv(u, lo2, t, m, k)
      <3>1. CASE fs = << >>
        <4>1. lo2 = lo  BY <1>16, <3>1
        <4> QED  BY <2>4, <4>1
      <3>2. ASSUME NEW g, fs = <<g>>, g \in CleanS, Answer(g) => g.flags = t.ack.flags /\ g.num = t.ack.num
            PROVE  AnsInv(u, lo2, t, m, k)
        <4>1. g \in Frame  BY <3>2 DEF CleanS
        <4> QED  BY <1>16, <2>4, <3>2, <4>1, AnsSent
      <3> QED  BY <1>25, <3>1, <3>2
    <2>6. PICK D \in BOOLEAN : D = Delivers(t, hasPlace)  BY DEF Delivers
    <2>7. PICK b : b = t.pkt.body  OBVIOUS
    <2>8. PICK k2 : k2 = IF D THEN b ELSE k  OBVIOUS
    <2>9. /\ RxAnswers(t, v) => b \in Nat /\ b > 0 /\ k <= b /\ b <= m + 2 /\ t.pkt.num = Num(b)
          /\ D => RxAnswers(t, v)
          /\ LastOf(d2) = k2
      <3>1. /\ RxAnswers(t, v) => b \in Nat /\ b > 0 /\ k <= b /\ b <= r + 1 /\ t.pkt.num = Num(b)
            /\ Delivers(t, hasPlace) => RxAnswers(t, v)
        BY <1>31, <2>2, <2>7 DEF GotOK
      <3>2. LastOf(d2) = k2  BY <1>31, <2>2, <2>6, <2>7, <2>8 DEF GotOK
      <3>3. b \in Nat => (b <= r + 1 => b <= m + 2)  BY <2>1
      <3> QED  BY <2>6, <3>1, <3>2, <3>3
    <2>10. Live(s) => s.pkt \in CleanS  BY <1>22 DEF Way
    <2>11. AnsInv(u, lo2, v, m, k2)
      BY <1>18, <2>5, <2>6, <2>7, <2>8, <2>9, <2>10, ReceiverQuantum
    <2> QED  BY <2>1, <2>9, <2>11
  <1>33. Acked(q)'
    <2>1. AckedOK(ro, d)  BY <1>2, <1>9, <1>10 DEF AnswerInv, Acked
    <2>2. AckedOK(ro, d2)
      <3>1. CASE Delivers(t, hasPlace)
        <4>1. t.pkt.body \in Nat  BY DEF LLState, Frame
        <4>2. d2 = d \o <<t.pkt.body>>  BY <1>15, <3>1 DEF Opt
        <4> QED  BY <2>1, <4>1, <4>2, AckedGrows
      <3>2. CASE ~ Delivers(t, hasPlace)
        <4>1. d2 = d \o << >>  BY <1>15, <3>2 DEF Opt
        <4>2. d2 = d  BY <4>1
        <4> QED  BY <2>1, <4>2
      <3> QED  BY <3>1, <3>2
    <2> QED  BY <1>2, <1>17, <2>2 DEF Acked
  <1> QED  BY <1>2, <1>26, <1>27, <1>28, <1>32, <1>33 DEF AnswerInv

\* The transport's completions keep the answer invariant.
LEMMA CompletionAnswer ==
  ASSUME IInv, AnswerInv, NEW p \in Peer, NEW v, NEW l, Completes(p, v, l)
  PROVE  AnswerInv'
  <1>1. PICK q : q = Other(p)  OBVIOUS
  <1>2. q \in Peer /\ q # p /\ Other(q) = p /\ \A z \in Peer : z = p \/ z = q  BY <1>1, Ends
  <1>3. TypeOK  BY DEF IInv
  <1>4. /\ ll'[p] = v /\ ll'[q] = ll[q] /\ line'[p] = l /\ line'[q] = line[q]
        /\ accepted' = accepted /\ resolved' = resolved /\ delivered' = delivered
    BY <1>2, <1>3 DEF Completes, TypeOK
  <1>5. PICK s : s = ll[p]  OBVIOUS
  <1>6. PICK u : u = ll[q]  OBVIOUS
  <1>7. PICK l0 \in Seq(Frame) : l0 = line[p]  BY <1>3 DEF TypeOK
  <1>8. v.handled = s.handled /\ AckSame(s, v)  BY <1>5 DEF Completes
  <1>9. \/ l = l0 /\ (Live(v) => Live(s) /\ v.pkt = s.pkt)
        \/ l0 # << >> /\ l = Tail(l0) /\ v.pkt \in {Head(l0), [Head(l0) EXCEPT !.hdr = "BAD_CRC"]}
    BY <1>5, <1>7 DEF Completes
  <1>10. CleanWay(p)'
    <2>1. Way(s, l0, CleanS, CleanR) /\ s.ack \in CleanS  BY <1>5, <1>7 DEF AnswerInv, CleanWay
    <2>2. CASE l = l0 /\ (Live(v) => Live(s) /\ v.pkt = s.pkt)
      <3>1. Way(v, l, CleanS, CleanR)  BY <2>1, <2>2, WayKept
      <3> QED  BY <1>4, <1>8, <2>1, <3>1 DEF CleanWay, AckSame
    <2>3. CASE l0 # << >> /\ l = Tail(l0) /\ v.pkt \in {Head(l0), [Head(l0) EXCEPT !.hdr = "BAD_CRC"]}
      <3>1. Head(l0) \in Frame  BY <2>3, HeadTailProperties
      <3>2. Head(l0) \in CleanS => v.pkt \in CleanS  BY <2>3, <3>1 DEF CleanS, Frame, HdrKinds
      <3>3. \A g \in CleanS : <<Head(l0), g>> \in CleanR => <<v.pkt, g>> \in CleanR
        BY <2>3, <3>1 DEF CleanR, Frame, HdrKinds
      <3>4. Way(v, l, CleanS, CleanR)  BY <2>1, <2>3, <3>2, <3>3, WayTaken
      <3> QED  BY <1>4, <1>8, <2>1, <3>4 DEF CleanWay, AckSame
    <2> QED  BY <1>9, <2>2, <2>3
  <1>11. CleanWay(q)'  BY <1>2, <1>4 DEF AnswerInv, CleanWay
  <1>12. Row(p)'
    <2> SUFFICES ASSUME OneInRow(resolved[p])
                 PROVE  AnsInv(v, l, u, Low(resolved[p]), LastOf(delivered[q]))
      BY <1>1, <1>4, <1>6 DEF Row
    <2>1. PICK m : m = Low(resolved[p])  OBVIOUS
    <2>2. PICK n : n = LastOf(delivered[q])  OBVIOUS
    <2>3. AnsInv(s, l0, u, m, n)  BY <1>1, <1>5, <1>6, <1>7, <2>1, <2>2 DEF AnswerInv, Row
    <2>4. CASE l = l0 /\ (Live(v) => Live(s) /\ v.pkt = s.pkt)
      BY <2>1, <2>2, <2>3, <2>4, AnsSame
    <2>5. CASE l0 # << >> /\ l = Tail(l0) /\ v.pkt \in {Head(l0), [Head(l0) EXCEPT !.hdr = "BAD_CRC"]}
      BY <2>1, <2>2, <2>3, <2>5, AnsTaken
    <2> QED  BY <1>9, <2>4, <2>5
  <1>13. Row(q)'
    <2> SUFFICES ASSUME OneInRow(resolved[q])
                 PROVE  AnsInv(u, line[q], v, Low(resolved[q]), LastOf(delivered[p]))
      BY <1>2, <1>4, <1>6 DEF Row
    <2>1. AnsInv(u, line[q], s, Low(resolved[q]), LastOf(delivered[p]))
      BY <1>2, <1>5, <1>6 DEF AnswerInv, Row
    <2> QED  BY <1>8, <2>1, AnsKept
  <1>14. Acked(p)' /\ Acked(q)'  BY <1>1, <1>2, <1>4 DEF AnswerInv, Acked
  <1> QED  BY <1>2, <1>10, <1>11, <1>12, <1>13, <1>14 DEF AnswerInv

\* Nothing is answered yet.
LEMMA AnswerInit == Init => AnswerInv
  <1> SUFFICES ASSUME Init, NEW p \in Peer  PROVE CleanWay(p) /\ Row(p) /\ Acked(p)
    BY DEF AnswerInv
  <1>1. Other(p) \in Peer  BY Ends
  <1>2. /\ ll[p] = LLInit /\ ll[Other(p)] = LLInit /\ line[p] = << >>
        /\ resolved[p] = << >> /\ delivered[Other(p)] = << >>
    BY <1>1 DEF Init
  <1>3. Len(<< >>) = 0 /\ LastOf(<< >>) = 0 /\ Low(<< >>) = 0  BY DEF LastOf, Low
  <1>4. ~ Live(LLInit) /\ LLInit.ack = NoFrame /\ LLInit.ackFlags = "NONE" /\ LLInit.handled = NUM_RX_INIT
    BY DEF Live, LLInit
  <1>5. NoFrame \in CleanS /\ ~ Answer(NoFrame)
    BY DEF CleanS, NoFrame, PktFrame, Frame, AckFlags, FrameNo, HdrKinds, NUM_BOOT, Answer
  <1>6. ~ Answer(Pend(LLInit))  BY <1>4 DEF Answer, Pend, AckFrame
  <1>7. \A S, R : Way(LLInit, << >>, S, R)  BY <1>3, <1>4 DEF Way
  <1>8. AnsInv(LLInit, << >>, LLInit, 0, 0)
    BY <1>4, <1>5, <1>6, <1>7 DEF AnsInv, AnsOK, Ord
  <1>9. AckedOK(<< >>, << >>)  BY <1>3 DEF AckedOK
  <1> QED  BY <1>2, <1>3, <1>4, <1>5, <1>7, <1>8, <1>9 DEF CleanWay, Row, Acked

\* The answer invariant is inductive.
LEMMA AnswerNext ==
  ASSUME NoFalseAck
  PROVE  IInv /\ OrderInv /\ AnswerInv /\ [Next]_vars => AnswerInv'
  <1> SUFFICES ASSUME IInv, OrderInv, AnswerInv, [Next]_vars  PROVE AnswerInv'
    OBVIOUS
  <1>1. CASE UNCHANGED vars  BY <1>1 DEF vars, AnswerInv, CleanWay, Row, Acked
  <1>2. ASSUME NEW p \in Peer, SendPacket(p)  PROVE AnswerInv'
    BY <1>2 DEF SendPacket, AnswerInv, CleanWay, Row, Acked
  <1>3. ASSUME NEW p \in Peer, Quantum(p)  PROVE AnswerInv'
    <2>1. PICK elapsed \in BOOLEAN, more \in BOOLEAN : \E k : PollEnd(p, k = "NONE", elapsed, more)
      BY <1>3 DEF Quantum
    <2>2. PICK hasPlace \in BOOLEAN : PollEnd(p, hasPlace, elapsed, more)  BY <2>1
    <2> QED  BY <2>2, QuantumAnswer
  <1>4. ASSUME NEW p \in Peer, SendDone(p) \/ HeaderDone(p) \/ BodyDone(p)  PROVE AnswerInv'
    <2>1. Dir(p)  BY DEF OrderInv
    <2>2. PICK v, l : Completes(p, v, l)  BY <1>4, <2>1, CompletionParts
    <2> QED  BY <2>2, CompletionAnswer
  <1> QED  BY <1>1, <1>2, <1>3, <1>4 DEF Next

\* As long as the line damages no body and no packet type, a packet that
\* zbncp_ll_tx_complete_pkt releases on an ACK was handed to the other user, unless
\* two packets in a row were given up before it.  (With a damaged body it is false,
\* link_nack: a NACK records the packet as handled, and its repetition is then
\* acknowledged as a duplicate.)
THEOREM AckedIsDelivered == ASSUME NoFalseAck PROVE Spec => []AckedUnlessWrapped
  <1>1. AnswerInv => AckedUnlessWrapped
    <2> SUFFICES ASSUME AnswerInv, NEW p \in Peer, NEW n \in 1..Len(resolved[p]),
                        resolved[p][n] = "acked", ~ GaveUpTwoBefore(p, n)
                 PROVE  Contains(delivered[Other(p)], n)
      BY DEF AckedUnlessWrapped
    <2>1. ~ TwoBefore(resolved[p], n)  BY DEF GaveUpTwoBefore, TwoBefore
    <2> QED  BY <2>1 DEF AnswerInv, Acked, AckedOK
  <1>2. Spec => []IInv  BY SpecInv
  <1>3. IInv /\ OrderInv /\ AnswerInv /\ [Next]_vars => AnswerInv'  BY AnswerNext
  <1> QED  BY <1>1, <1>2, <1>3, OrderInit, OrderNext, AnswerInit, PTL DEF Spec

----------------------------------------------------------------------------
(* The refinement. *)

\* At no end were two packets in a row given up: no frame number can be mistaken.
NeverWraps == \A p \in Peer : OneInRow(resolved[p])

\* The steps of the abstract transfer from p to the other end.
AcceptStep(p) == accepted[p] - Len(resolved[p]) < TX_FIFO_SIZE /\ accepted'[p] = accepted[p] + 1
ResolveStep(p) == \E o \in Outcome :
                    /\ Len(resolved[p]) + 1 <= accepted[p]
                    /\ o = "acked" => Contains(delivered[Other(p)], Len(resolved[p]) + 1)
                    /\ resolved'[p] = Append(resolved[p], o)
SenderStep(p) == /\ delivered'[Other(p)] = delivered[Other(p)]
                 /\ AcceptStep(p) \/ accepted'[p] = accepted[p]
                 /\ ResolveStep(p) \/ resolved'[p] = resolved[p]
ReceiverStep(p) == LET d == delivered[Other(p)] IN
  /\ accepted'[p] = accepted[p] /\ resolved'[p] = resolved[p]
  /\ \E n \in 1..accepted[p] :
       /\ d = << >> \/ n > d[Len(d)] \/ (n = 1 /\ d[Len(d)] = 1)
       /\ n <= Len(resolved[p]) + 1
       /\ delivered'[Other(p)] = Append(d, n)
TransferStep(p) == SenderStep(p) \/ ReceiverStep(p)

\* A quantum of p is a sender's step of its own packets and a receiver's of the other's.
LEMMA QuantumTransfers ==
  ASSUME NoFalseAck, IInv, OrderInv, AnswerInv, NeverWraps', NEW p \in Peer, NEW hasPlace \in BOOLEAN,
         NEW elapsed \in BOOLEAN, NEW more \in BOOLEAN, PollEnd(p, hasPlace, elapsed, more)
  PROVE  TransferStep(p) /\ TransferStep(Other(p))
  <1>1. PICK q : q = Other(p)  OBVIOUS
  <1>2. q \in Peer /\ q # p /\ Other(q) = p /\ \A z \in Peer : z = p \/ z = q  BY <1>1, Ends
  <1>3. Dir(p) /\ Dir(q)  BY <1>2 DEF OrderInv
  <1>4. PICK t, takes, drops, v, fs : QuantumEffect(p, hasPlace, takes, drops, t, v, fs)
    BY <1>3, QuantumParts
  <1> t \in LLState /\ takes \in BOOLEAN /\ drops \in BOOLEAN  BY <1>4 DEF QuantumEffect
  <1>5. TypeOK  BY DEF IInv
  <1>6. PICK s : s = ll[p]  OBVIOUS
  <1>7. PICK u : u = ll[q]  OBVIOUS
  <1>8. PICK rs \in Seq(Outcome) : rs = resolved[p]  BY <1>5 DEF TypeOK, Outcome
  <1>9. PICK ro \in Seq(Outcome) : ro = resolved[q]  BY <1>2, <1>5 DEF TypeOK, Outcome
  <1>10. PICK d \in Seq(Nat) : d = delivered[p]  BY <1>5 DEF TypeOK
  <1>11. PICK do \in Seq(Nat) : do = delivered[q]  BY <1>2, <1>5 DEF TypeOK
  <1>12. PICK l \in Seq(Frame) : l = line[p]  BY <1>5 DEF TypeOK
  <1>13. PICK rel : rel = Releases(t) /\ rel \in BOOLEAN  BY DEF Releases, Answers
  <1>14. PICK rs2 : rs2 = rs \o Opt(drops, "dropped") \o Opt(Releases(t), "acked")  OBVIOUS
  <1>15. PICK d2 : d2 = d \o Opt(Delivers(t, hasPlace), t.pkt.body)  OBVIOUS
  <1>16. PICK acc \in Nat : acc = accepted[p]  BY <1>5 DEF TypeOK
  <1>17. PICK r \in Nat : r = Len(rs)  OBVIOUS
  <1>18. /\ resolved'[p] = rs2 /\ resolved'[q] = ro
         /\ delivered'[p] = d2 /\ delivered'[q] = do
         /\ accepted'[p] = acc + One(takes) /\ accepted'[q] = accepted[q]
    BY <1>1, <1>2, <1>4, <1>5, <1>8, <1>9, <1>10, <1>11, <1>14, <1>15, <1>16
    DEF QuantumEffect, TypeOK
  <1>19. RxSame(s, t) /\ RxStep(t, v, hasPlace)
    BY <1>4, <1>6 DEF QuantumEffect
  <1>20. Len(s.fifo) = acc - r /\ Len(s.fifo) \in Nat /\ s.fifo \in Seq(Pkt)
    <2>1. QInv(s, r, acc)  BY <1>3, <1>6, <1>8, <1>16, <1>17 DEF Dir
    <2>2. s.fifo \in Seq(Pkt)  BY <1>5, <1>6 DEF TypeOK, LLState
    <2> QED  BY <2>1, <2>2 DEF QInv
  <1>21. (takes => acc - r < TX_FIFO_SIZE) /\ (drops => r + 1 <= acc)
    <2>1. takes => Len(s.fifo) < TX_FIFO_SIZE  BY <1>4, <1>6 DEF QuantumEffect
    <2>2. drops => s.fifo # << >>  BY <1>4, <1>6 DEF QuantumEffect
    <2>3. s.fifo # << >> => Len(s.fifo) > 0  BY <1>20, EmptySeq
    <2> QED  BY <1>20, <2>1, <2>2, <2>3
  <1>22. SentOK(v, l, u, do, rs, rs2, drops, Releases(t))
    <2>1. OneInRow(rs) => AnsInv(s, l, u, Low(rs), LastOf(do))
      BY <1>1, <1>6, <1>7, <1>8, <1>11, <1>12 DEF AnswerInv, Row
    <2>2. AckedOK(rs, do)  BY <1>1, <1>8, <1>11 DEF AnswerInv, Acked
    <2>3. LastOf(do) <= Len(rs) + 1  BY <1>1, <1>3, <1>8, <1>11 DEF Dir, DataInv
    <2>4. PICK n \in Nat : n = accepted[p] + One(takes)
      <3>1. One(takes) \in Nat  BY OneFacts
      <3> QED  BY <1>16, <3>1
    <2>5. QInv(t, Len(rs) + One(drops), n)  BY <1>4, <1>8, <2>4, Zenon DEF QuantumEffect
    <2> QED  BY <1>14, <1>19, <2>1, <2>2, <2>3, <2>5, SenderQuantum
  <1>23. ~ (drops /\ rel) /\ (rel => LastOf(do) = r + 1)
    <2>1. OneInRow(rs2)  BY <1>18 DEF NeverWraps
    <2> QED  BY <1>13, <1>17, <1>22, <2>1 DEF SentOK
  <1>24. "acked" \in Outcome /\ "dropped" \in Outcome  BY DEF Outcome
  <1>25. \/ rs2 = rs
         \/ \E o \in Outcome : /\ r + 1 <= acc /\ rs2 = Append(rs, o)
                               /\ o = "acked" => Contains(do, r + 1)
    <2>1. rs2 = rs \o Opt(drops, "dropped") \o Opt(rel, "acked")  BY <1>13, <1>14
    <2>2. rs \o << >> = rs /\ \A o \in Outcome : rs \o <<o>> = Append(rs, o)  OBVIOUS
    <2>3. CASE drops /\ ~ rel
      <3>1. rs2 = (rs \o <<"dropped">>) \o << >>  BY <2>1, <2>3 DEF Opt
      <3>2. rs \o <<"dropped">> \in Seq(Outcome)  BY <1>24
      <3>3. rs2 = Append(rs, "dropped")  BY <1>24, <2>2, <3>1, <3>2
      <3> QED  BY <1>21, <1>24, <2>3, <3>3
    <2>4. CASE ~ drops /\ rel
      <3>1. rs2 = (rs \o << >>) \o <<"acked">>  BY <2>1, <2>4 DEF Opt
      <3>2. rs2 = Append(rs, "acked")  BY <1>24, <2>2, <3>1
      <3>3. LastOf(do) = r + 1 /\ r + 1 > 0  BY <1>23, <2>4
      <3>4. Contains(do, r + 1)  BY <3>3, LastContains
      <3>5. LastOf(do) <= acc  BY <1>1, <1>3, <1>11, <1>16 DEF Dir, DataInv
      <3> QED  BY <1>24, <3>2, <3>3, <3>4, <3>5
    <2>5. CASE ~ drops /\ ~ rel
      <3>1. rs2 = (rs \o << >>) \o << >>  BY <2>1, <2>5 DEF Opt
      <3> QED  BY <2>2, <3>1
    <2> QED  BY <1>23, <2>3, <2>4, <2>5
  <1>26. SenderStep(p)
    <2>1. AcceptStep(p) \/ accepted'[p] = accepted[p]
      <3>1. CASE takes
        <4>1. One(takes) = 1  BY <3>1 DEF One
        <4> QED  BY <1>8, <1>16, <1>17, <1>18, <1>21, <3>1, <4>1 DEF AcceptStep
      <3>2. CASE ~ takes
        <4>1. One(takes) = 0  BY <3>2 DEF One
        <4> QED  BY <1>16, <1>18, <4>1
      <3> QED  BY <3>1, <3>2
    <2>2. ResolveStep(p) \/ resolved'[p] = resolved[p]
      BY <1>1, <1>8, <1>11, <1>16, <1>17, <1>18, <1>25 DEF ResolveStep
    <2> QED  BY <1>1, <1>11, <1>18, <2>1, <2>2 DEF SenderStep
  <1>27. TransferStep(q)
    <2>1. CASE Delivers(t, hasPlace)
      <3>1. PICK a \in Nat : a = accepted[q]  BY <1>2, <1>5 DEF TypeOK
      <3>2. PICK k \in Nat : k = Len(ro)  OBVIOUS
      <3>3. PICK b \in Nat : b = t.pkt.body  BY DEF LLState, Frame
      <3>4. DataInv(s, l, d, k, a)  BY <1>2, <1>3, <1>6, <1>9, <1>10, <1>12, <3>1, <3>2 DEF Dir
      <3>5. GotOK(t, v, hasPlace, l, d, d2, k, a)
        BY <1>15, <1>19, <3>4, DataReceived
      <3>6. /\ b > 0 /\ b <= k + 1 /\ b <= a
            /\ LastOf(d) < b \/ (LastOf(d) = 1 /\ b = 1)
        BY <2>1, <3>3, <3>5 DEF GotOK
      <3>7. d2 = Append(d, b)
        <4>1. d2 = d \o <<b>>  BY <1>15, <2>1, <3>3 DEF Opt
        <4> QED  BY <4>1
      <3>8. d = << >> \/ b > d[Len(d)] \/ (b = 1 /\ d[Len(d)] = 1)
        <4>1. d # << >> => d[Len(d)] \in Nat /\ LastOf(d) = d[Len(d)]  BY EmptySeq DEF LastOf
        <4> QED  BY <3>6, <4>1
      <3>9. b \in 1..a  BY <3>6
      <3> QED  BY <1>2, <1>9, <1>10, <1>18, <3>1, <3>2, <3>6, <3>7, <3>8, <3>9
               DEF TransferStep, ReceiverStep
    <2>2. CASE ~ Delivers(t, hasPlace)
      <3>1. d2 = d \o << >>  BY <1>15, <2>2 DEF Opt
      <3>2. d2 = d  BY <3>1
      <3> QED  BY <1>2, <1>9, <1>10, <1>18, <3>2 DEF TransferStep, SenderStep
    <2> QED  BY <2>1, <2>2
  <1> QED  BY <1>1, <1>26, <1>27 DEF TransferStep

\* Every step of the link is one of the transfer in each direction, or a stutter.
LEMMA NextTransfers ==
  ASSUME NoFalseAck, IInv, OrderInv, AnswerInv, NeverWraps', [Next]_vars, NEW p \in Peer
  PROVE  TransferStep(p)
  <1>1. CASE UNCHANGED <<accepted, resolved, delivered>>
    BY <1>1 DEF TransferStep, SenderStep
  <1>2. ASSUME NEW q \in Peer, Quantum(q)  PROVE TransferStep(p)
    <2>1. PICK elapsed \in BOOLEAN, more \in BOOLEAN : \E k : PollEnd(q, k = "NONE", elapsed, more)
      BY <1>2 DEF Quantum
    <2>2. PICK hasPlace \in BOOLEAN : PollEnd(q, hasPlace, elapsed, more)  BY <2>1
    <2>3. TransferStep(q) /\ TransferStep(Other(q))  BY <2>2, QuantumTransfers
    <2> QED  BY <2>3, Ends
  <1>3. CASE UNCHANGED vars  BY <1>1, <1>3 DEF vars
  <1>4. ASSUME NEW q \in Peer, SendPacket(q) \/ SendDone(q) \/ HeaderDone(q) \/ BodyDone(q)
        PROVE  TransferStep(p)
    BY <1>1, <1>4 DEF SendPacket, SendDone, HeaderDone, BodyDone
  <1> QED  BY <1>2, <1>3, <1>4 DEF Next

\* Nothing is offered, resolved or delivered at first.
LEMMA InitTransfers ==
  Init => HostToSoc!Init /\ SocToHost!Init
  BY DEF Init, HostToSoc!Init, SocToHost!Init, Peer

\* TransferStep is the abstract next-state relation, for the host's packets...
LEMMA HostTransfers ==
  ASSUME IInv, TransferStep(Host)
  PROVE  [HostToSoc!Next]_HostToSoc!vars
  <1>1. Other(Host) = Soc  BY DEF Other
  <1>2. TypeOK /\ Host \in Peer /\ Soc \in Peer  BY DEF IInv, Peer
  <1>3. CASE SenderStep(Host)
    <2> USE DEF SenderStep
    <2>1. AcceptStep(Host) <=> HostToSoc!Accept  BY DEF AcceptStep, HostToSoc!Accept
    <2>2. ResolveStep(Host) <=> HostToSoc!Resolve
      BY <1>1 DEF ResolveStep, HostToSoc!Resolve, Outcome, Contains, HostToSoc!Contains, HostToSoc!Outcome
    <2> QED  BY <1>1, <1>3, <2>1, <2>2 DEF HostToSoc!Next, HostToSoc!Sender, HostToSoc!vars
  <1>4. CASE ReceiverStep(Host)
    <2>1. PICK n \in 1..accepted[Host] :
            /\ delivered[Soc] = << >> \/ n > delivered[Soc][Len(delivered[Soc])]
                 \/ (n = 1 /\ delivered[Soc][Len(delivered[Soc])] = 1)
            /\ n <= Len(resolved[Host]) + 1
            /\ delivered'[Soc] = Append(delivered[Soc], n)
      BY <1>1, <1>4 DEF ReceiverStep
    <2>2. HostToSoc!Deliver(n)
      BY <1>4, <2>1 DEF ReceiverStep, HostToSoc!Deliver, HostToSoc!Last
    <2> QED  BY <2>2 DEF HostToSoc!Next, HostToSoc!Receiver
  <1> QED  BY <1>3, <1>4 DEF TransferStep

\* ...and for the NCP's.
LEMMA SocTransfers ==
  ASSUME IInv, TransferStep(Soc)
  PROVE  [SocToHost!Next]_SocToHost!vars
  <1>1. Other(Soc) = Host  BY LinkConstants DEF Other
  <1>2. TypeOK /\ Host \in Peer /\ Soc \in Peer  BY DEF IInv, Peer
  <1>3. CASE SenderStep(Soc)
    <2> USE DEF SenderStep
    <2>1. AcceptStep(Soc) <=> SocToHost!Accept  BY DEF AcceptStep, SocToHost!Accept
    <2>2. ResolveStep(Soc) <=> SocToHost!Resolve
      BY <1>1 DEF ResolveStep, SocToHost!Resolve, Outcome, Contains, SocToHost!Contains, SocToHost!Outcome
    <2> QED  BY <1>1, <1>3, <2>1, <2>2 DEF SocToHost!Next, SocToHost!Sender, SocToHost!vars
  <1>4. CASE ReceiverStep(Soc)
    <2>1. PICK n \in 1..accepted[Soc] :
            /\ delivered[Host] = << >> \/ n > delivered[Host][Len(delivered[Host])]
                 \/ (n = 1 /\ delivered[Host][Len(delivered[Host])] = 1)
            /\ n <= Len(resolved[Soc]) + 1
            /\ delivered'[Host] = Append(delivered[Host], n)
      BY <1>1, <1>4 DEF ReceiverStep
    <2>2. SocToHost!Deliver(n)
      BY <1>4, <2>1 DEF ReceiverStep, SocToHost!Deliver, SocToHost!Last
    <2> QED  BY <2>2 DEF SocToHost!Next, SocToHost!Receiver
  <1> QED  BY <1>3, <1>4 DEF TransferStep

\* On the behaviours in which no two packets in a row are given up each direction
\* of the link implements the abstract transfer: packets are taken while the window
\* has room, resolved in order, delivered in order, and acknowledged only when
\* delivered.
THEOREM LinkImplementsTransfer ==
  ASSUME NoFalseAck
  PROVE  Spec /\ []NeverWraps => ImplementsTransfer
  <1>1. /\ IInv /\ OrderInv /\ AnswerInv /\ NeverWraps' /\ [Next]_vars
           => [HostToSoc!Next]_HostToSoc!vars /\ [SocToHost!Next]_SocToHost!vars
    BY NextTransfers, HostTransfers, SocTransfers DEF Peer
  <1>2. Spec => []IInv  BY SpecInv
  <1>3. IInv /\ OrderInv /\ AnswerInv /\ [Next]_vars => AnswerInv'  BY AnswerNext
  <1> QED
    BY <1>1, <1>2, <1>3, OrderInit, OrderNext, AnswerInit, InitTransfers, PTL
    DEF Spec, ImplementsTransfer, HostToSoc!Spec, SocToHost!Spec

----------------------------------------------------------------------------
(* Wake-ups. *)

\* The transport neither refuses nor fails a transmission.
NoFailedSend == Faults \cap SendFaults = {}

(* What this leaves of end p: no attempt is counted, the transmitter is not in its
   error state, and while it is busy the completion it waits for is due. *)
Undisturbed(p) ==
  /\ ll[p].attempts = 0
  /\ ll[p].txState # "ERROR"
  /\ ll[p].txState \in Sending => sendDone[p] # "NONE"

\* NoLostWakeup for end p.
Awaited(p) == ~ awake[p] =>
    /\ Poll(ll[p], 0, TRUE, FALSE) = ll[p]
    /\ offering[p] /\ Len(ll[p].fifo) < TX_FIFO_SIZE =>
         sendDone[p] # "NONE" \/ ll[p].waitAck = "RUNNING"

\* The wake-up invariant.
WakeInv == \A p \in Peer : Undisturbed(p) /\ Awaited(p)

\* A packet offered to a queue of two places or more leaves something in it: the
\* packet that was there, or itself.
LEMMA SomethingQueued ==
  ASSUME NEW s, NEW t, NEW r \in Nat, NEW acc \in Nat, NEW d \in {0, 1}, NEW k \in {0, 1},
         QInv(s, r, acc), QInv(t, r + d, acc + k), s.fifo \in Seq(Pkt), t.fifo \in Seq(Pkt),
         d = 1 => s.fifo # << >>,
         k = 0 => Len(s.fifo) >= 2
  PROVE  t.fifo # << >>
  <1>1. acc = r + Len(s.fifo) /\ acc + k = r + d + Len(t.fifo)  BY DEF QInv
  <1>2. Len(s.fifo) \in Nat /\ Len(t.fifo) \in Nat  OBVIOUS
  <1>3. d = 1 => Len(s.fifo) > 0  BY <1>2, EmptySeq
  <1>4. PICK i \in Nat, j \in Nat : i = Len(s.fifo) /\ j = Len(t.fifo)  BY <1>2
  <1>5. r + i + k = r + d + j /\ (d = 1 => i > 0) /\ (k = 0 => i >= 2)  BY <1>1, <1>3, <1>4
  <1>6. j > 0
    <2>1. CASE d = 0 /\ k = 0  BY <1>5, <2>1
    <2>2. CASE d = 0 /\ k = 1  BY <1>5, <2>2
    <2>3. CASE d = 1 /\ k = 0  BY <1>5, <2>3
    <2>4. CASE d = 1 /\ k = 1  BY <1>5, <2>4
    <2> QED  BY <2>1, <2>2, <2>3, <2>4
  <1> QED  BY <1>4, <1>6

\* A quantum after which none is scheduled leaves nothing to do, or an alarm or a
\* completion that will schedule one.
LEMMA QuantumWake ==
  ASSUME NoFailedSend, TX_FIFO_SIZE > 1,
         IInv, AllSent, OrderInv, WakeInv, IInv', AllSent', NEW p \in Peer,
         NEW hasPlace \in BOOLEAN, NEW elapsed \in BOOLEAN, NEW more \in BOOLEAN,
         PollEnd(p, hasPlace, elapsed, more)
  PROVE  WakeInv'
  <1>a. PICK body : body = IF offering[p] THEN accepted[p] + 1 ELSE 0  OBVIOUS
  <1>b. PICK a : a = AlarmUpdateTime(ll[p], elapsed)  OBVIOUS
  <1>c. PICK x : x = TxAllocPkt(a, body)  OBVIOUS
  <1>d. PICK t : t = ProcessTx(a, body)  OBVIOUS
  <1>e. PICK v : v = Poll(ll[p], body, hasPlace, elapsed)  OBVIOUS
  <1>1. TypeOK /\ LLInv(ll[p]) /\ Undisturbed(p)  BY DEF IInv, EndInv, WakeInv
  <1>2. body \in Nat /\ accepted[p] \in Nat /\ (offering[p] => body # 0) /\ offering[p] \in BOOLEAN
    BY <1>1, <1>a DEF TypeOK
  <1>3. PICK k \in IF a.txState = "IDLE" /\ t.txState \in {"SENDING_ACK", "SENDING_PKT"} /\ hasPlace
                   THEN Possible(LineFaults \cup SendFaults) ELSE {"NONE"} :
          sendDone' = [sendDone EXCEPT ![p] =
                         IF ~ (a.txState = "IDLE" /\ t.txState \in {"SENDING_ACK", "SENDING_PKT"})
                         THEN @ ELSE IF k \in SendFaults THEN k ELSE "SUCCESS"]
    BY <1>a, <1>b, <1>d DEF PollEnd
  <1>4. /\ ll' = [ll EXCEPT ![p] = v]
        /\ awake' = [awake EXCEPT ![p] = Service(a, body, hasPlace, FALSE)]
        /\ offering' = [offering EXCEPT ![p] = IF Takes(a, body) THEN more ELSE @]
    BY <1>a, <1>b, <1>e DEF PollEnd
  <1>5. /\ ll'[p] = v /\ awake'[p] = Service(a, body, hasPlace, FALSE)
        /\ offering'[p] = IF Takes(a, body) THEN more ELSE offering[p]
        /\ sendDone'[p] = IF ~ (a.txState = "IDLE" /\ t.txState \in {"SENDING_ACK", "SENDING_PKT"})
                          THEN sendDone[p] ELSE IF k \in SendFaults THEN k ELSE "SUCCESS"
        /\ \A q \in Peer : q # p => /\ ll'[q] = ll[q] /\ awake'[q] = awake[q]
                                    /\ offering'[q] = offering[q] /\ sendDone'[q] = sendDone[q]
    BY <1>1, <1>3, <1>4 DEF TypeOK
  <1>6. /\ t.attempts = 0 /\ t.txState # "ERROR" /\ v.attempts = 0 /\ v.txState # "ERROR"
        /\ t.txState \in {"SENDING_ACK", "SENDING_PKT"} => a.txState \in {"IDLE", t.txState}
        /\ v.txState = t.txState /\ a.txState = ll[p].txState
    <2>1. PICK s : s = ll[p]  OBVIOUS
    <2>2. LLInv(s) /\ s.attempts = 0 /\ s.txState # "ERROR"  BY <1>1, <2>1 DEF Undisturbed
    <2>3. a = AlarmUpdateTime(s, elapsed) /\ v = Poll(s, body, hasPlace, elapsed)  BY <1>b, <1>e, <2>1
    <2>4. NothingFailed(s, a, t, v)  BY <1>2, <1>d, <2>2, <2>3, QuantumAttempts
    <2> QED  BY <2>1, <2>4 DEF NothingFailed
  <1>7. Undisturbed(p)'
    <2>1. t.txState \in Sending => sendDone'[p] # "NONE"
      <3>1. CASE a.txState = "IDLE" /\ t.txState \in {"SENDING_ACK", "SENDING_PKT"}
        <4>1. "NONE" \notin SendFaults  BY DEF SendFaults
        <4> QED  BY <1>5, <3>1, <4>1
      <3>2. CASE ~ (a.txState = "IDLE" /\ t.txState \in {"SENDING_ACK", "SENDING_PKT"})
        BY <1>1, <1>5, <1>6, <3>2 DEF Undisturbed, Sending
      <3> QED  BY <3>1, <3>2
    <2> QED  BY <1>5, <1>6, <2>1 DEF Undisturbed
  <1>8. ASSUME ~ awake'[p]
        PROVE  /\ Poll(v, 0, TRUE, FALSE) = v
               /\ offering'[p] /\ Len(v.fifo) < TX_FIFO_SIZE =>
                    sendDone'[p] # "NONE" \/ v.waitAck = "RUNNING"
    <2>1. v = t /\ TxRests(t) /\ RxRests(t) /\ t.waitAck # "NOW"
      <3>1. PICK s : s = ll[p]  OBVIOUS
      <3>2. a = AlarmUpdateTime(s, elapsed) /\ v = Poll(s, body, hasPlace, elapsed) /\ LLInv(s)
        BY <1>1, <1>b, <1>e, <3>1
      <3>3. ~ Service(a, body, hasPlace, FALSE)  BY <1>5, <1>8
      <3>4. CameToRest(t, v)  BY <1>2, <1>d, <3>2, <3>3, QuantumAtRest
      <3> QED  BY <3>4 DEF CameToRest
    <2>2. LLInv(v) /\ SentInv(v) /\ v \in LLState  BY <1>5 DEF IInv, EndInv, AllSent, LLInv
    <2>3. Poll(v, 0, TRUE, FALSE) = v
      <3>1. v.reset = "INFINITE"  BY <2>2 DEF LLInv
      <3> QED  BY <2>1, <2>2, <3>1, RestIsStable
    <2>4. ASSUME offering'[p]  PROVE sendDone'[p] # "NONE" \/ v.waitAck = "RUNNING"
      <3>1. PICK r \in Nat : r = Len(resolved[p])  BY <1>1 DEF TypeOK
      <3>2. PICK acc \in Nat : acc = accepted[p]  BY <1>2
      <3>3. PICK s \in LLState : s = ll[p]  BY <1>1 DEF LLInv
      <3>4. LLInv(s) /\ QInv(s, r, acc) /\ body \in {0, acc + 1}
        BY <1>1, <1>a, <3>1, <3>2, <3>3 DEF OrderInv, Dir
      <3>5. PICK e : e = r + One(GivesUp(x))  OBVIOUS
      <3>6. PICK n : n = acc + One(Takes(a, body))  OBVIOUS
      <3>7. a = AlarmUpdateTime(s, elapsed) /\ v = Poll(s, body, hasPlace, elapsed)  BY <1>b, <1>e, <3>3
      <3>8. QInv(t, e, n)  BY <1>c, <1>d, <3>4, <3>5, <3>6, <3>7, QuantumNumbered
      <3>9. GivesUp(x) => s.fifo # << >>  BY <1>c, <1>d, <3>4, <3>5, <3>6, <3>7, QuantumNumbered
      <3>10. a.fifo = s.fifo  BY <3>7 DEF AlarmUpdateTime, LLState
      <3>11. PICK d : d = One(GivesUp(x))  OBVIOUS
      <3>12. PICK m : m = One(Takes(a, body))  OBVIOUS
      <3>13. d \in {0, 1} /\ m \in {0, 1}  BY <3>11, <3>12 DEF One
      <3>14. d = 1 => s.fifo # << >>  BY <3>9, <3>11 DEF One
      <3>15. m = 0 => Len(s.fifo) >= 2
        <4> SUFFICES ASSUME m = 0  PROVE Len(s.fifo) >= 2
          OBVIOUS
        <4>1. ~ Takes(a, body)  BY <3>12 DEF One
        <4>2. body # 0  BY <1>2, <1>5, <2>4, <4>1
        <4>3. s.fifo \in Seq(Pkt)  BY DEF LLState
        <4>4. ~ (Len(s.fifo) < TX_FIFO_SIZE)  BY <3>10, <4>1, <4>2 DEF Takes
        <4>5. PICK i \in Nat : i = Len(s.fifo)  BY <4>3
        <4>6. i >= 2  BY <4>4, <4>5, LLConstants
        <4> QED  BY <4>5, <4>6
      <3>16. t.fifo # << >>
        <4>1. s.fifo \in Seq(Pkt) /\ t.fifo \in Seq(Pkt)  BY <2>1, <2>2 DEF LLState
        <4>2. QInv(t, r + d, acc + m)  BY <3>5, <3>6, <3>8, <3>11, <3>12
        <4> QED  BY <3>4, <3>13, <3>14, <3>15, <4>1, <4>2, SomethingQueued
      <3>17. CASE v.txState \in Sending  BY <1>5, <1>7, <3>17 DEF Undisturbed
      <3>18. CASE v.txState \notin Sending
        <4>1. v.txState = "IDLE" /\ v.attempts < TX_ATTEMPTS /\ (v.fifo # << >> => Head(v.fifo).sent)
          BY <1>6, <2>1, <3>18, LLConstants DEF TxRests, Sending
        <4>2. HeadSent(v)  BY <2>1, <3>16, <4>1 DEF HeadSent
        <4>3. v.waitAck # "INFINITE"  BY <2>2, <4>1, <4>2 DEF SentInv, WaitStates
        <4> QED  BY <2>1, <2>2, <4>3 DEF LLState, Alarms
      <3> QED  BY <3>17, <3>18
    <2> QED  BY <2>3, <2>4
  <1>9. Awaited(p)'  BY <1>5, <1>8 DEF Awaited
  <1>10. ASSUME NEW q \in Peer, q # p  PROVE Undisturbed(q)' /\ Awaited(q)'
    <2>1. Undisturbed(q) /\ Awaited(q)  BY DEF WakeInv
    <2> QED  BY <1>5, <1>10, <2>1 DEF Undisturbed, Awaited
  <1> QED  BY <1>7, <1>9, <1>10 DEF WakeInv

\* Whatever else happens to an end schedules its quantum.
LEMMA OtherWake ==
  ASSUME NoFailedSend, IInv, WakeInv, NEW p \in Peer,
         SendPacket(p) \/ SendDone(p) \/ HeaderDone(p) \/ BodyDone(p)
  PROVE  WakeInv'
  <1>1. TypeOK /\ EndInv(p) /\ Undisturbed(p)  BY DEF IInv, WakeInv
  <1>2. awake'[p]  BY <1>1 DEF TypeOK, SendPacket, SendDone, HeaderDone, BodyDone
  <1>3. \A q \in Peer : q # p => /\ ll'[q] = ll[q] /\ awake'[q] = awake[q]
                                 /\ offering'[q] = offering[q] /\ sendDone'[q] = sendDone[q]
    BY <1>1 DEF TypeOK, SendPacket, SendDone, HeaderDone, BodyDone
  <1>4. Undisturbed(p)'
    <2>1. PICK s \in LLState : s = ll[p]  BY <1>1 DEF EndInv, LLInv
    <2>2. CASE SendPacket(p)  BY <1>1, <2>2 DEF SendPacket, Undisturbed
    <2>3. CASE SendDone(p)
      <3>1. sendDone[p] = "SUCCESS"
        BY <1>1, <2>3 DEF EndInv, SendDone, NoFailedSend, TypeOK, SendStatus, SendFaults
      <3>2. PICK v : v = SendComplete(s, "SUCCESS")  OBVIOUS
      <3>3. s.txState \in Sending  BY <1>1, <2>1, <3>1 DEF EndInv
      <3>4. v.attempts = 0 /\ v.txState \in {"ACK_SENT", "PKT_SENT"}
        BY <3>2, <3>3 DEF SendComplete, Sending, LLState
      <3>5. ll'[p] = v  BY <1>1, <2>1, <2>3, <3>1, <3>2 DEF SendDone, TypeOK
      <3> QED  BY <3>4, <3>5 DEF Undisturbed, Sending
    <2>4. ASSUME NEW f, NEW whole, ll' = [ll EXCEPT ![p] = RecvComplete(@, f, whole)], sendDone' = sendDone
          PROVE  Undisturbed(p)'
      <3>1. PICK v : v = RecvComplete(s, f, whole)  OBVIOUS
      <3>2. v.attempts = s.attempts /\ v.txState = s.txState  BY <3>1 DEF RecvComplete, LLState
      <3>3. ll'[p] = v  BY <1>1, <2>1, <2>4, <3>1 DEF TypeOK
      <3> QED  BY <1>1, <2>1, <2>4, <3>2, <3>3 DEF Undisturbed
    <2>5. CASE HeaderDone(p)
      <3>1. PICK k : ll' = [ll EXCEPT ![p] = RecvComplete(@, Head(line[p]), k = "NONE")]
        BY <2>5 DEF HeaderDone
      <3>2. sendDone' = sendDone  BY <2>5 DEF HeaderDone
      <3> QED  BY <2>4, <3>1, <3>2
    <2>6. CASE BodyDone(p)
      <3>1. PICK k : ll' = [ll EXCEPT ![p] = RecvComplete(@, ll[p].pkt, k = "NONE")]
        BY <2>6 DEF BodyDone
      <3>2. sendDone' = sendDone  BY <2>6 DEF BodyDone
      <3> QED  BY <2>4, <3>1, <3>2
    <2> QED  BY <2>2, <2>3, <2>5, <2>6
  <1>5. Awaited(p)'  BY <1>2 DEF Awaited
  <1>6. ASSUME NEW q \in Peer, q # p  PROVE Undisturbed(q)' /\ Awaited(q)'
    <2>1. Undisturbed(q) /\ Awaited(q)  BY DEF WakeInv
    <2> QED  BY <1>3, <1>6, <2>1 DEF Undisturbed, Awaited
  <1> QED  BY <1>4, <1>5, <1>6 DEF WakeInv

\* Both quanta are scheduled at first (zbncp_ll_init_complete).
LEMMA WakeInit == Init => WakeInv
  BY DEF Init, WakeInv, Undisturbed, Awaited, LLInit, Sending

\* With the others the wake-up invariant is inductive.
LEMMA WakeNext ==
  ASSUME NoFailedSend, TX_FIFO_SIZE > 1, IInv, AllSent, OrderInv, WakeInv, IInv', AllSent', [Next]_vars
  PROVE  WakeInv'
  <1>1. CASE UNCHANGED vars  BY <1>1 DEF vars, WakeInv, Undisturbed, Awaited
  <1>2. ASSUME NEW p \in Peer, Quantum(p)  PROVE WakeInv'
    <2>1. PICK elapsed \in BOOLEAN, more \in BOOLEAN : \E k : PollEnd(p, k = "NONE", elapsed, more)
      BY <1>2 DEF Quantum
    <2>2. PICK hasPlace \in BOOLEAN : PollEnd(p, hasPlace, elapsed, more)  BY <2>1
    <2> QED  BY <2>2, QuantumWake
  <1>3. ASSUME NEW p \in Peer, SendPacket(p) \/ SendDone(p) \/ HeaderDone(p) \/ BodyDone(p)  PROVE WakeInv'
    BY <1>3, OtherWake
  <1> QED  BY <1>1, <1>2, <1>3 DEF Next

\* No wake-up is lost, if no transmission fails and the queue has two places: when
\* zbncp_ll_poll asks for no further quantum (zbncp_ll_callme) there is nothing
\* left to do, and a packet still offered waits for a completion or the alarm.
\* (With one place it is false: a packet given up leaves room that nobody is told of.)
THEOREM WakeUpsAreKept ==
  ASSUME NoFailedSend, TX_FIFO_SIZE > 1
  PROVE  Spec => []NoLostWakeup
  <1>0. NoStall  BY DEF NoFailedSend, NoStall, SendFaults
  <1>1. Init => AllSent /\ OrderInv /\ WakeInv  BY InitInv, OrderInit, WakeInit
  <1>2. IInv /\ IInv' /\ AllSent /\ OrderInv /\ WakeInv /\ [Next]_vars => (AllSent /\ OrderInv /\ WakeInv)'
    <2>1. IInv /\ AllSent /\ [Next]_vars => AllSent'  BY <1>0, NextStep DEF StepOK
    <2> QED  BY <2>1, OrderNext, WakeNext
  <1>3. WakeInv => NoLostWakeup  BY DEF WakeInv, Awaited, NoLostWakeup
  <1>4. Spec => []IInv  BY SpecInv
  <1> QED  BY <1>1, <1>2, <1>3, <1>4, PTL DEF Spec
=============================================================================
