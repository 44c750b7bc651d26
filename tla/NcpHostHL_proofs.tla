-------------------------- MODULE NcpHostHL_proofs --------------------------
(***************************************************************************)
(* Proofs about NcpHostHL, for every size of the buffer pool, every TSN    *)
(* range and every number of requests: the type invariant, the divider is  *)
(* never given a packet while it is busy, no buffer is lost or queued      *)
(* twice, no request waits in a queue without a reason, one blocking       *)
(* request is outstanding at a time, and they are sent in order.           *)
(***************************************************************************)
EXTENDS NcpHostHL, NcpHL_proofs

IInv == TypeOK /\ HLInv(hl) /\ Busy(hl)

----------------------------------------------------------------------------
(* The specification. *)

LEMMA OptSeq ==
  ASSUME NEW S, NEW q \in Seq(S), NEW c \in BOOLEAN, NEW o, c => o \in S
  PROVE  q \o Opt(c, o) \in Seq(S)
  <1>1. Opt(c, o) \in Seq(S)  BY DEF Opt
  <1> QED  BY <1>1, ConcatProperties

LEMMA NewPktSeq ==
  ASSUME NEW q \in Seq(Packet), NEW h, NEW u \in HLState
  PROVE  q \o NewPkt(h, u) \in Seq(Packet)
  <1>1. u.div \in Packet  BY DEF HLState
  <1>2. (u.div # NoPkt /\ u.div # h.div) \in BOOLEAN  OBVIOUS
  <1> QED  BY <1>1, <1>2, OptSeq DEF NewPkt

LEMMA InitInv == Init => IInv
  <1> SUFFICES ASSUME Init PROVE IInv  OBVIOUS
  <1> DEFINE p == [b \in Buf |-> FreeBuffer]
  <1>1. 0 \in Tsn  BY HLConstants DEF Tsn
  <1>2. p \in [Buf -> TxBuffer]  BY BufferTypes
  <1>3. hl = [pool |-> p, bq |-> << >>, nq |-> << >>, active |-> FALSE,
              tsn |-> 0, div |-> NoPkt, aborted |-> FALSE]
    BY DEF Init, HLInit
  <1>4. \A b \in Buf : p[b].status = "FREE"  BY DEF FreeBuffer
  <1> HIDE DEF p
  <1>5. hl \in HLState  BY <1>1, <1>2, <1>3, BufferTypes DEF HLState
  <1>6. /\ hl.pool = p /\ hl.bq = << >> /\ hl.nq = << >>
        /\ ~ hl.active /\ hl.div = NoPkt /\ ~ hl.aborted
    BY <1>3
  <1>7. Distinct(hl) /\ StatusFits(hl)  BY <1>6 DEF Distinct, StatusFits
  <1>8. AllQueued(hl)  BY <1>4, <1>6 DEF AllQueued
  <1>9. HLInv(hl)  BY <1>5, <1>6, <1>7, <1>8 DEF HLInv
  <1>10. TypeOK  BY <1>5, HostHLConstants DEF Init, TypeOK
  <1> QED  BY <1>6, <1>9, <1>10 DEF IInv, Busy

LEMMA IssueInv ==
  ASSUME IInv, NEW blocking \in BOOLEAN, Issue(blocking)
  PROVE  IInv'
  <1>1. TypeOK /\ HLInv(hl) /\ Busy(hl)  BY DEF IInv
  <1>2. FreeBufs(hl) # {} /\ Len(issued) + 1 \in Nat
    BY <1>1, LenProperties DEF Issue, CanIssue, TypeOK
  <1>3. HLInv(Request(hl, blocking, Len(issued) + 1)) /\ Busy(Request(hl, blocking, Len(issued) + 1))
    BY <1>1, <1>2, RequestInv
  <1>4. hl' = Request(hl, blocking, Len(issued) + 1)  BY DEF Issue
  <1>5. HLInv(hl') /\ Busy(hl')  BY <1>3, <1>4
  <1>6. hl' \in HLState  BY <1>5 DEF HLInv
  <1>7. sent' \in Seq(Packet)  BY <1>1, <1>6, NewPktSeq DEF Issue, TypeOK
  <1>8. issued' \in Seq(BOOLEAN)  BY <1>1, AppendProperties DEF Issue, TypeOK
  <1>9. TypeOK'  BY <1>1, <1>6, <1>7, <1>8 DEF Issue, TypeOK
  <1>10. HLInv(hl)' /\ Busy(hl)'  BY <1>5 DEF HLInv, Busy, Distinct, StatusFits, AllQueued, InSeq
  <1> QED  BY <1>9, <1>10 DEF IInv

LEMMA QuantumInv ==
  ASSUME IInv, NEW takes \in BOOLEAN, NEW follow \in BOOLEAN, NEW rx \in Receive,
         Quantum(takes, rx, follow)
  PROVE  IInv'
  <1> DEFINE r == IF rx = "RESPONSE" THEN MarkFinished(hl) ELSE hl
             f == IF follow THEN Request(r, TRUE, Len(issued) + 1) ELSE r
  <1>1. TypeOK /\ HLInv(hl)  BY DEF IInv
  <1>2. Len(issued) + 1 \in Nat  BY <1>1, LenProperties DEF TypeOK
  <1>3. HLInv(r)  BY <1>1, MarkFinishedInv
  <1>4. /\ takes => hl.div # NoPkt
        /\ rx = "RESPONSE" => toHost # << >>
        /\ follow => FreeBufs(r) # {}
        /\ hl' = EndOfQuantum(f, takes)
        /\ toHost' = IF rx = "RESPONSE" THEN Tail(toHost) ELSE toHost
        /\ issued' = issued \o Opt(follow, TRUE)
        /\ toSoc' = toSoc \o Opt(takes, hl.div)
        /\ sent' = sent \o NewPkt(hl, hl')
        /\ UNCHANGED <<atSoc, lost>>
    BY DEF Quantum, CanIssue
  <1> HIDE DEF r
  <1>5. HLInv(f)
    <2>1. CASE follow  BY <1>2, <1>3, <1>4, <2>1, RequestInv
    <2>2. CASE ~ follow  BY <1>3, <2>2
    <2> QED  BY <2>1, <2>2
  <1> HIDE DEF f
  <1>6. HLInv(hl') /\ Busy(hl')  BY <1>4, <1>5, EndOfQuantumInv
  <1>7. hl' \in HLState  BY <1>6 DEF HLInv
  <1>8. sent' \in Seq(Packet)  BY <1>1, <1>4, <1>7, NewPktSeq DEF TypeOK
  <1>9. issued' \in Seq(BOOLEAN)  BY <1>1, <1>4, OptSeq DEF TypeOK
  <1>10. toSoc' \in Seq(Packet)
    <2>1. hl.div \in Packet  BY <1>1 DEF TypeOK, HLState
    <2> QED  BY <1>1, <1>4, <2>1, OptSeq DEF TypeOK
  <1>11. toHost' \in Seq(Packet)  BY <1>1, <1>4, HeadTailProperties DEF TypeOK
  <1>12. TypeOK'  BY <1>1, <1>4, <1>7, <1>8, <1>9, <1>10, <1>11 DEF TypeOK
  <1>13. HLInv(hl)' /\ Busy(hl)'  BY <1>6 DEF HLInv, Busy, Distinct, StatusFits, AllQueued, InSeq
  <1> QED  BY <1>12, <1>13 DEF IInv

LEMMA NextInv == IInv /\ [Next]_vars => IInv'
  <1> SUFFICES ASSUME IInv, [Next]_vars PROVE IInv'  OBVIOUS
  <1>1. TypeOK /\ HLInv(hl) /\ Busy(hl)  BY DEF IInv
  <1>2. ASSUME NEW blocking \in BOOLEAN, Issue(blocking) PROVE IInv'  BY <1>2, IssueInv
  <1>3. ASSUME NEW takes \in BOOLEAN, NEW follow \in BOOLEAN, NEW rx \in Receive,
               Quantum(takes, rx, follow)
        PROVE  IInv'
    BY <1>3, QuantumInv
  <1>4. ASSUME UNCHANGED hl, TypeOK' PROVE IInv'
    BY <1>1, <1>4 DEF IInv, HLInv, Busy, Distinct, StatusFits, AllQueued, InSeq
  <1>5. CASE GiveUp
    <2>1. toSoc' \in Seq(Packet)  BY <1>1, <1>5, HeadTailProperties DEF GiveUp, TypeOK
    <2>2. TypeOK'  BY <1>1, <1>5, <2>1, HostHLConstants DEF GiveUp, TypeOK
    <2> QED  BY <1>4, <1>5, <2>2 DEF GiveUp
  <1>6. CASE SocReceive
    <2>1. toSoc' \in Seq(Packet) /\ Head(toSoc) \in Packet
      BY <1>1, <1>6, HeadTailProperties DEF SocReceive, TypeOK
    <2>2. Head(toSoc).blocking \in BOOLEAN  BY <2>1 DEF Packet
    <2>3. atSoc' \in Seq(Packet)  BY <1>1, <1>6, <2>1, <2>2, OptSeq DEF SocReceive, TypeOK
    <2>4. TypeOK'  BY <1>1, <1>6, <2>1, <2>3 DEF SocReceive, TypeOK
    <2> QED  BY <1>4, <1>6, <2>4 DEF SocReceive
  <1>7. CASE SocAnswer
    <2>1. atSoc' \in Seq(Packet) /\ Head(atSoc) \in Packet
      BY <1>1, <1>7, HeadTailProperties DEF SocAnswer, TypeOK
    <2>2. toHost' \in Seq(Packet)  BY <1>1, <1>7, <2>1, AppendProperties DEF SocAnswer, TypeOK
    <2>3. TypeOK'  BY <1>1, <1>7, <2>1, <2>2 DEF SocAnswer, TypeOK
    <2> QED  BY <1>4, <1>7, <2>3 DEF SocAnswer
  <1>8. CASE UNCHANGED vars  BY <1>1, <1>4, <1>8 DEF vars, TypeOK
  <1> QED  BY <1>2, <1>3, <1>5, <1>6, <1>7, <1>8 DEF Next

LEMMA SpecInv == Spec => []IInv
  BY InitInv, NextInv, PTL DEF Spec

\* The HL context and the packets under way keep their types.
THEOREM HLTypeOK == Spec => []TypeOK
  <1>1. IInv => TypeOK  BY DEF IInv
  <1> QED  BY <1>1, SpecInv, PTL

\* However requests, responses and indications interleave, the divider is empty
\* when the HL gives it a packet: the assertions at ncp_host_hl_proto.c:213 and
\* :555 never fail.
THEOREM NeverGivenWhileBusy == Spec => []NeverBusy
  <1>1. IInv => NeverBusy  BY DEF IInv, HLInv, NeverBusy
  <1> QED  BY <1>1, SpecInv, PTL

\* No request waits in a queue without a packet being sent or a response due.
THEOREM QueuesAreDriven == Spec => []NoIdleWait
  <1>1. IInv => NoIdleWait
    <2> SUFFICES ASSUME IInv, ~ hl.active, hl.bq \o hl.nq # << >>
                 PROVE  hl.bq # << >> /\ hl.pool[Head(hl.bq)].status = "WAIT_RESPONSE"
      BY DEF NoIdleWait
    <2>1. hl.bq \in Seq(Buf) /\ hl.nq \in Seq(Buf)  BY DEF IInv, TypeOK, HLState
    <2>2. hl.bq # << >> \/ hl.nq # << >>  BY <2>1, ConcatEqualIffEmpty
    <2> QED  BY <2>2 DEF IInv, Busy
  <1> QED  BY <1>1, SpecInv, PTL

\* No buffer is lost or queued twice, whatever the size of the pool: put_packet_
\* in_queue never finds its queue full.
THEOREM BuffersAreAccounted == Spec => []BuffersAccounted
  <1>1. IInv => BuffersAccounted
    <2> SUFFICES ASSUME IInv PROVE BuffersAccounted  OBVIOUS
    <2>1. HLInv(hl)  BY DEF IInv
    <2>2. /\ hl \in HLState /\ Distinct(hl) /\ StatusFits(hl) /\ AllQueued(hl)
      BY <2>1 DEF HLInv
    <2>3. hl.bq \in Seq(Buf) /\ hl.nq \in Seq(Buf)  BY <2>2 DEF HLState
    <2>4. Len(hl.bq) \in Nat /\ Len(hl.nq) \in Nat  BY <2>3, LenProperties
    <2>5. \A b \in Buf : hl.pool[b].status # "FREE" <=> InQueue(b)
      BY <2>2 DEF AllQueued, StatusFits, InQueue, InSeq, Contains
    <2>6. IsInjective(hl.bq \o hl.nq)
      <3> DEFINE s == hl.bq \o hl.nq
                 k == Len(hl.bq)
      <3>1. /\ s \in Seq(Buf) /\ Len(s) = k + Len(hl.nq)
            /\ \A i \in 1..k + Len(hl.nq) : s[i] = IF i <= k THEN hl.bq[i] ELSE hl.nq[i - k]
        BY <2>3, ConcatProperties
      <3>2. DOMAIN s = 1..k + Len(hl.nq)  BY <3>1, LenProperties
      <3> HIDE DEF s
      <3>3. \A i \in 1..k + Len(hl.nq) : (i <= k /\ i \in 1..k) \/ (~ i <= k /\ i - k \in 1..Len(hl.nq))
        <4> HIDE DEF k
        <4>1. k \in Nat /\ Len(hl.nq) \in Nat  BY <2>4 DEF k
        <4> DEFINE m == Len(hl.nq)
        <4>2. m \in Nat  BY <4>1
        <4> HIDE DEF m
        <4>3. \A i \in 1..k + m : (i <= k /\ i \in 1..k) \/ (~ i <= k /\ i - k \in 1..m)
          BY <4>1, <4>2
        <4> QED  BY <4>3 DEF m
      <3>4. ASSUME NEW i \in 1..k + Len(hl.nq), NEW j \in 1..k + Len(hl.nq), s[i] = s[j]
            PROVE  i = j
        <4>1. CASE i <= k /\ j <= k  BY <2>2, <3>1, <3>3, <3>4, <4>1 DEF Distinct
        <4>2. CASE ~ i <= k /\ ~ j <= k
          <5>1. hl.nq[i - k] = hl.nq[j - k]  BY <3>1, <3>4, <4>2
          <5>2. i - k = j - k  BY <2>2, <3>3, <4>2, <5>1 DEF Distinct
          <5> QED  BY <2>4, <5>2
        <4>3. CASE i <= k /\ ~ j <= k  BY <2>2, <3>1, <3>3, <3>4, <4>3 DEF Distinct
        <4>4. CASE ~ i <= k /\ j <= k
          <5>1. hl.bq[j] = hl.nq[i - k]  BY <3>1, <3>4, <4>4
          <5>2. j \in 1..k /\ i - k \in 1..Len(hl.nq)  BY <3>3, <4>4
          <5> QED  BY <2>2, <5>1, <5>2 DEF Distinct
        <4> QED  BY <4>1, <4>2, <4>3, <4>4
      <3> QED  BY <3>2, <3>4 DEF IsInjective, s
    <2>7. ASSUME NEW b \in Buf
          PROVE  /\ hl.pool[b].status \in {"FREE", "WAIT_SENDING", "WAIT_RESPONSE"}
                 /\ hl.pool[b].status = "WAIT_RESPONSE" => hl.bq # << >> /\ b = Head(hl.bq)
      <3>1. hl.pool[b].status # "FREE" => InSeq(hl.bq, b) \/ InSeq(hl.nq, b)
        BY <2>2 DEF AllQueued
      <3>2. CASE InSeq(hl.nq, b)  BY <2>2, <3>2 DEF StatusFits, InSeq
      <3>3. CASE InSeq(hl.bq, b)
        <4>1. PICK i \in 1..Len(hl.bq) : hl.bq[i] = b  BY <3>3 DEF InSeq
        <4>2. hl.bq # << >> /\ Head(hl.bq) = hl.bq[1]  BY <2>3, <2>4, <4>1, EmptySeq
        <4>3. i # 1 => i \in 2..Len(hl.bq)  BY <4>1
        <4> QED  BY <2>2, <4>1, <4>2, <4>3 DEF StatusFits
      <3>4. CASE ~ InSeq(hl.bq, b) /\ ~ InSeq(hl.nq, b)  BY <3>1, <3>4
      <3> QED  BY <3>2, <3>3, <3>4
    <2> QED  BY <2>5, <2>6, <2>7 DEF BuffersAccounted
  <1> QED  BY <1>1, SpecInv, PTL

----------------------------------------------------------------------------
(* The blocking request under way.                                         *)

Blocking == {p \in Packet : p.blocking}

\* Of the packets w that have left the divider of h at most one is blocking; it,
\* or the one in the divider, is the request that waits at the head.
OneWaits(h, w) ==
  /\ Few(Blocking, w) /\ All(Blocking, w, HeadPacket(h))
  /\ Has(Blocking, w) => HeadWaits(h)
  /\ h.div.blocking => ~ Has(Blocking, w) /\ HeadWaits(h) /\ h.div = HeadPacket(h)

LEMMA MovesWaits ==
  ASSUME NEW h, NEW u, NEW w, OneWaits(h, w), Moves(h, u)
  PROVE  OneWaits(u, w)
  <1>1. ~ NoPkt.blocking  BY DEF NoPkt
  <1>2. ~ Has(Blocking, w) => All(Blocking, w, HeadPacket(u))  BY DEF Has, All
  <1>3. CASE u.div = h.div /\ HeadKept(h, u)
    BY <1>2, <1>3 DEF OneWaits, HeadKept
  <1>4. CASE h.div = NoPkt /\ ~ u.div.blocking /\ HeadKept(h, u)
    BY <1>2, <1>4 DEF OneWaits, HeadKept
  <1>5. CASE h.div = NoPkt /\ ~ HeadWaits(h) /\ HeadWaits(u) /\ u.div = HeadPacket(u)
    BY <1>2, <1>5 DEF OneWaits
  <1> QED  BY <1>3, <1>4, <1>5 DEF Moves

\* The LL takes the packet in the divider.
LEMMA TakenWaits ==
  ASSUME NEW h \in HLState, NEW w \in Seq(Packet), OneWaits(h, w)
  PROVE  OneWaits([h EXCEPT !.div = NoPkt], w \o << h.div >>)
  <1> DEFINE u == [h EXCEPT !.div = NoPkt]
             p == h.div
             v == << p >>
  <1>1. /\ p \in Packet /\ v \in Seq(Packet)
        /\ u.bq = h.bq /\ u.pool = h.pool /\ ~ u.div.blocking
    BY DEF HLState, NoPkt
  <1>2. p \in Blocking <=> p.blocking  BY <1>1 DEF Blocking
  <1>3. /\ Has(Blocking, v) <=> p \in Blocking
        /\ Few(Blocking, v)
        /\ \A x : All(Blocking, v, x) <=> (p \in Blocking => p = x)
    BY OneMark, Zenon
  <1> HIDE DEF u, v
  <1>4. /\ Has(Blocking, w \o v) <=> Has(Blocking, w) \/ Has(Blocking, v)
        /\ Few(Blocking, w \o v) <=>
             Few(Blocking, w) /\ Few(Blocking, v) /\ ~ (Has(Blocking, w) /\ Has(Blocking, v))
        /\ \A x : All(Blocking, w \o v, x) <=> All(Blocking, w, x) /\ All(Blocking, v, x)
    BY <1>1, ConcatMarks, Zenon
  <1>5. (HeadWaits(u) <=> HeadWaits(h)) /\ HeadPacket(u) = HeadPacket(h)
    BY <1>1 DEF HeadWaits, HeadPacket
  <1>6. OneWaits(u, w \o v)
    <2> HIDE DEF p
    <2>1. p.blocking => ~ Has(Blocking, w) /\ HeadWaits(h) /\ p = HeadPacket(h)
      BY DEF OneWaits, p
    <2>2. Few(Blocking, w \o v)  BY <1>2, <1>3, <1>4, <2>1 DEF OneWaits
    <2>3. All(Blocking, w \o v, HeadPacket(u))
      BY <1>2, <1>3, <1>4, <1>5, <2>1 DEF OneWaits
    <2>4. Has(Blocking, w \o v) => HeadWaits(u)
      BY <1>2, <1>3, <1>4, <1>5, <2>1 DEF OneWaits
    <2> QED  BY <1>1, <2>2, <2>3, <2>4 DEF OneWaits
  <1> QED  BY <1>6 DEF u, v, p

\* The answer to the oldest packet finishes the blocking request.
LEMMA AnsweredWaits ==
  ASSUME NEW h, HLInv(h), NEW w \in Seq(Packet), w # << >>, Head(w).blocking, OneWaits(h, w)
  PROVE  OneWaits(MarkFinished(h), Tail(w))
  <1> DEFINE t == Tail(w)
  <1>1. /\ Has(Blocking, w) <=> Head(w) \in Blocking \/ Has(Blocking, t)
        /\ Few(Blocking, w) <=> Few(Blocking, t) /\ ~ (Head(w) \in Blocking /\ Has(Blocking, t))
        /\ Head(w) \in Packet
    BY TailMarks, Zenon
  <1> HIDE DEF t
  <1>2. Head(w) \in Blocking  BY <1>1 DEF Blocking
  <1>3. ~ Has(Blocking, t) /\ Few(Blocking, t) /\ ~ h.div.blocking
    BY <1>1, <1>2 DEF OneWaits
  <1>4. \A x : All(Blocking, t, x)  BY <1>3 DEF All, Has
  <1>5. MarkFinished(h).div = h.div  BY MarkFinishedMoves
  <1>6. OneWaits(MarkFinished(h), t)  BY <1>3, <1>4, <1>5 DEF OneWaits
  <1> QED  BY <1>6 DEF t

\* A packet is lost, or is no longer looked at.
LEMMA LostWaits ==
  ASSUME NEW h, NEW a \in Seq(Packet), NEW b \in Seq(Packet), b # << >>, OneWaits(h, a \o b)
  PROVE  OneWaits(h, a \o Tail(b))
  <1> DEFINE t == Tail(b)
  <1>1. /\ Has(Blocking, b) <=> Head(b) \in Blocking \/ Has(Blocking, t)
        /\ Few(Blocking, b) <=> Few(Blocking, t) /\ ~ (Head(b) \in Blocking /\ Has(Blocking, t))
        /\ \A x : All(Blocking, b, x) <=> (Head(b) \in Blocking => Head(b) = x) /\ All(Blocking, t, x)
        /\ t \in Seq(Packet)
    BY TailMarks, Zenon
  <1> HIDE DEF t
  <1>2. /\ Has(Blocking, a \o b) <=> Has(Blocking, a) \/ Has(Blocking, b)
        /\ Few(Blocking, a \o b) <=>
             Few(Blocking, a) /\ Few(Blocking, b) /\ ~ (Has(Blocking, a) /\ Has(Blocking, b))
        /\ \A x : All(Blocking, a \o b, x) <=> All(Blocking, a, x) /\ All(Blocking, b, x)
    BY ConcatMarks, Zenon
  <1>3. /\ Has(Blocking, a \o t) <=> Has(Blocking, a) \/ Has(Blocking, t)
        /\ Few(Blocking, a \o t) <=>
             Few(Blocking, a) /\ Few(Blocking, t) /\ ~ (Has(Blocking, a) /\ Has(Blocking, t))
        /\ \A x : All(Blocking, a \o t, x) <=> All(Blocking, a, x) /\ All(Blocking, t, x)
    BY <1>1, ConcatMarks, Zenon
  <1>4. OneWaits(h, a \o t)  BY <1>1, <1>2, <1>3, Zenon DEF OneWaits
  <1> QED  BY <1>4 DEF t

\* The packets that have left the divider, the oldest first.
Left == toHost \o atSoc \o toSoc

OnlyBlocking(q) == \A i \in 1..Len(q) : q[i].blocking

WaitInv == OneWaits(hl, Left) /\ OnlyBlocking(toHost) /\ OnlyBlocking(atSoc)

LEMMA LeftTypes ==
  ASSUME TypeOK
  PROVE  /\ toHost \in Seq(Packet) /\ atSoc \in Seq(Packet) /\ toSoc \in Seq(Packet)
         /\ toHost \o atSoc \in Seq(Packet) /\ Left \in Seq(Packet)
         /\ hl \in HLState
  BY DEF TypeOK, Left

LEMMA BlockingEnds ==
  ASSUME NEW q \in Seq(Packet), OnlyBlocking(q)
  PROVE  /\ q # << >> => Head(q).blocking /\ OnlyBlocking(Tail(q))
         /\ \A p \in Packet : p.blocking => OnlyBlocking(Append(q, p))
  <1>1. Len(q) \in Nat /\ \A i \in 1..Len(q) : q[i].blocking  BY DEF OnlyBlocking
  <1>2. ASSUME q # << >> PROVE Head(q).blocking /\ OnlyBlocking(Tail(q))
    <2>1. Head(q) = q[1] /\ 1 \in 1..Len(q)  BY <1>1, <1>2, EmptySeq
    <2>2. /\ Len(Tail(q)) = Len(q) - 1
          /\ \A i \in 1..Len(q) - 1 : Tail(q)[i] = q[i + 1] /\ i + 1 \in 1..Len(q)
      BY <1>1, <1>2, HeadTailProperties
    <2> QED  BY <1>1, <2>1, <2>2 DEF OnlyBlocking
  <1>3. ASSUME NEW p \in Packet, p.blocking PROVE OnlyBlocking(Append(q, p))
    <2>1. /\ Len(Append(q, p)) = Len(q) + 1 /\ Append(q, p)[Len(q) + 1] = p
          /\ \A i \in 1..Len(q) : Append(q, p)[i] = q[i]
      BY AppendProperties
    <2>2. \A i \in 1..Len(q) + 1 : i = Len(q) + 1 \/ i \in 1..Len(q)  BY <1>1
    <2> QED  BY <1>1, <1>3, <2>1, <2>2 DEF OnlyBlocking
  <1> QED  BY <1>2, <1>3

LEMMA InitWaits == Init => WaitInv
  <1> SUFFICES ASSUME Init PROVE WaitInv  OBVIOUS
  <1>1. Left = << >> /\ ~ hl.div.blocking  BY DEF Init, HLInit, NoPkt, Left
  <1>2. OneWaits(hl, Left)  BY <1>1, NoMarks DEF OneWaits
  <1>3. OnlyBlocking(toHost) /\ OnlyBlocking(atSoc)  BY DEF Init, OnlyBlocking
  <1> QED  BY <1>2, <1>3 DEF WaitInv

LEMMA EndOfQuantumWaits ==
  ASSUME NEW h, HLInv(h), NEW takes \in BOOLEAN, NEW w \in Seq(Packet), OneWaits(h, w)
  PROVE  OneWaits(EndOfQuantum(h, takes), w \o Opt(takes, h.div))
  <1> DEFINE u == IF takes THEN [h EXCEPT !.div = NoPkt] ELSE h
             v == w \o Opt(takes, h.div)
  <1>1. h \in HLState /\ (~ h.active => h.div = NoPkt)  BY DEF HLInv
  <1>2. EndOfQuantum(h, takes) = IF u.div = NoPkt THEN TxReady(u) ELSE u
    BY DEF EndOfQuantum, TxIsReady
  <1>3. OneWaits(u, v)
    <2>1. CASE takes  BY <1>1, <2>1, TakenWaits DEF Opt
    <2>2. CASE ~ takes
      <3>1. v = w  BY <2>2, ConcatEmptySeq DEF Opt
      <3> QED  BY <2>2, <3>1
    <2> QED  BY <2>1, <2>2
  <1>4. HLInv(u)
    <2>1. CASE takes
      <3>1. u = [h EXCEPT !.div = NoPkt]  BY <2>1
      <3>2. /\ u \in HLState /\ u.bq = h.bq /\ u.nq = h.nq /\ u.pool = h.pool
            /\ u.div = NoPkt /\ u.aborted = h.aborted
        BY <1>1, <3>1, BufferTypes DEF HLState
      <3> HIDE DEF u
      <3> QED  BY <3>2 DEF HLInv, Distinct, StatusFits, AllQueued
    <2>2. CASE ~ takes  BY <2>2
    <2> QED  BY <2>1, <2>2
  <1> SUFFICES OneWaits(EndOfQuantum(h, takes), v)  OBVIOUS
  <1> HIDE DEF u, v
  <1>5. CASE u.div = NoPkt
    <2>1. Moves(u, TxReady(u))  BY <1>4, <1>5, TxReadyMoves
    <2> QED  BY <1>2, <1>3, <1>5, <2>1, MovesWaits
  <1>6. CASE u.div # NoPkt  BY <1>2, <1>3, <1>6
  <1> QED  BY <1>5, <1>6

LEMMA IssueWaits ==
  ASSUME IInv, WaitInv, NEW blocking \in BOOLEAN, Issue(blocking)
  PROVE  WaitInv'
  <1>1. HLInv(hl) /\ FreeBufs(hl) # {} /\ Len(issued) + 1 \in Nat
    BY LenProperties DEF IInv, TypeOK, Issue, CanIssue
  <1>2. OneWaits(hl, Left)  BY DEF WaitInv
  <1>3. Moves(hl, hl')
    <2>1. hl' = Request(hl, blocking, Len(issued) + 1)  BY DEF Issue
    <2> QED  BY <1>1, <2>1, RequestMoves
  <1>4. OneWaits(hl', Left)  BY <1>2, <1>3, MovesWaits
  <1>5. Left' = Left /\ toHost' = toHost /\ atSoc' = atSoc  BY DEF Issue, Left
  <1>6. OneWaits(hl, Left)'  BY <1>4, <1>5 DEF OneWaits, Few, All, Has, HeadWaits, HeadPacket
  <1> QED  BY <1>5, <1>6 DEF WaitInv, OnlyBlocking

LEMMA QuantumWaits ==
  ASSUME IInv, WaitInv, NEW takes \in BOOLEAN, NEW follow \in BOOLEAN, NEW rx \in Receive,
         Quantum(takes, rx, follow)
  PROVE  WaitInv'
  <1> DEFINE r == IF rx = "RESPONSE" THEN MarkFinished(hl) ELSE hl
             f == IF follow THEN Request(r, TRUE, Len(issued) + 1) ELSE r
             w == IF rx = "RESPONSE" THEN Tail(Left) ELSE Left
  <1>1. TypeOK /\ HLInv(hl) /\ OneWaits(hl, Left) /\ OnlyBlocking(toHost) /\ OnlyBlocking(atSoc)
    BY DEF IInv, WaitInv
  <1>2. Len(issued) + 1 \in Nat  BY <1>1, LenProperties DEF TypeOK
  <1>3. HLInv(r)  BY <1>1, MarkFinishedInv
  <1>4. /\ rx = "RESPONSE" => toHost # << >>
        /\ follow => FreeBufs(r) # {}
        /\ hl' = EndOfQuantum(f, takes)
        /\ toHost' = IF rx = "RESPONSE" THEN Tail(toHost) ELSE toHost
        /\ toSoc' = toSoc \o Opt(takes, hl.div)
        /\ atSoc' = atSoc
    BY DEF Quantum, CanIssue
  <1>5. /\ rx = "RESPONSE" => Left # << >> /\ Head(Left) = Head(toHost)
                              /\ Tail(Left) = Tail(toHost) \o atSoc \o toSoc
        /\ Left \in Seq(Packet)
    <2>1. /\ toHost \in Seq(Packet) /\ atSoc \in Seq(Packet) /\ toSoc \in Seq(Packet)
          /\ Left \in Seq(Packet)
      BY <1>1, LeftTypes
    <2> QED  BY <1>4, <2>1 DEF Left
  <1>6. OneWaits(r, w) /\ w \in Seq(Packet)
    <2>1. CASE rx = "RESPONSE"
      <3>1. Head(Left).blocking  BY <1>1, <1>4, <1>5, <2>1, LeftTypes, BlockingEnds
      <3> QED  BY <1>1, <1>5, <2>1, <3>1, AnsweredWaits, HeadTailProperties
    <2>2. CASE rx # "RESPONSE"  BY <1>1, <1>5, <2>2
    <2> QED  BY <2>1, <2>2
  <1> HIDE DEF r
  <1>7. HLInv(f) /\ OneWaits(f, w)
    <2>1. CASE follow
      <3>1. HLInv(f) /\ Moves(r, f)  BY <1>2, <1>3, <1>4, <2>1, RequestInv, RequestMoves
      <3> QED  BY <1>6, <3>1, MovesWaits
    <2>2. CASE ~ follow  BY <1>3, <1>6, <2>2
    <2> QED  BY <2>1, <2>2
  <1>8. takes => f.div = hl.div
    <2> SUFFICES ASSUME takes PROVE f.div = hl.div  OBVIOUS
    <2>1. hl.div # NoPkt  BY DEF Quantum
    <2>2. r.div = hl.div  BY <1>1, MarkFinishedMoves DEF r
    <2>3. CASE follow
      <3>1. Moves(r, f)  BY <1>2, <1>3, <1>4, <2>3, RequestMoves
      <3> QED  BY <2>1, <2>2, <3>1 DEF Moves
    <2>4. CASE ~ follow  BY <2>2, <2>4
    <2> QED  BY <2>3, <2>4
  <1> HIDE DEF f
  <1>9. Left' = w \o Opt(takes, hl.div)
    <2> DEFINE t == toHost'
               o == Opt(takes, hl.div)
    <2>1. /\ atSoc \in Seq(Packet) /\ toSoc \in Seq(Packet) /\ t \in Seq(Packet)
      BY <1>1, <1>4, LeftTypes, HeadTailProperties
    <2>2. o \in Seq(Packet)
      <3>1. hl.div \in Packet  BY <1>1 DEF TypeOK, HLState
      <3> QED  BY <3>1 DEF Opt
    <2>3. w = t \o atSoc \o toSoc  BY <1>4, <1>5 DEF Left
    <2>4. Left' = t \o atSoc \o (toSoc \o o)  BY <1>4 DEF Left
    <2> HIDE DEF t, o, w
    <2>5. t \o atSoc \in Seq(Packet)  BY <2>1, ConcatProperties
    <2>6. (t \o atSoc \o toSoc) \o o = t \o atSoc \o (toSoc \o o)
      BY <2>1, <2>2, <2>5, ConcatAssociative
    <2> QED  BY <2>3, <2>4, <2>6 DEF o
  <1> HIDE DEF w
  <1>10. OneWaits(hl', Left')
    <2>1. OneWaits(EndOfQuantum(f, takes), w \o Opt(takes, f.div))
      BY <1>6, <1>7, EndOfQuantumWaits
    <2>2. Opt(takes, f.div) = Opt(takes, hl.div)  BY <1>8 DEF Opt
    <2> QED  BY <1>4, <1>9, <2>1, <2>2
  <1>11. OneWaits(hl, Left)'
    BY <1>10 DEF OneWaits, Few, All, Has, HeadWaits, HeadPacket
  <1>12. OnlyBlocking(toHost')  BY <1>1, <1>4, LeftTypes, BlockingEnds
  <1> QED  BY <1>1, <1>4, <1>11, <1>12 DEF WaitInv, OnlyBlocking

LEMMA NextWaits == IInv /\ WaitInv /\ [Next]_vars => WaitInv'
  <1> SUFFICES ASSUME IInv, WaitInv, [Next]_vars PROVE WaitInv'  OBVIOUS
  <1>1. /\ TypeOK /\ OneWaits(hl, Left) /\ OnlyBlocking(toHost) /\ OnlyBlocking(atSoc)
    BY DEF IInv, WaitInv
  <1>2. /\ toHost \in Seq(Packet) /\ atSoc \in Seq(Packet) /\ toSoc \in Seq(Packet)
        /\ toHost \o atSoc \in Seq(Packet) /\ Left \in Seq(Packet)
    BY <1>1, LeftTypes
  <1>3. ASSUME UNCHANGED hl, OneWaits(hl, Left'), OnlyBlocking(toHost'), OnlyBlocking(atSoc')
        PROVE  WaitInv'
    <2>1. OneWaits(hl', Left')  BY <1>3
    <2>2. OneWaits(hl, Left)'
      BY <2>1 DEF OneWaits, Few, All, Has, HeadWaits, HeadPacket
    <2> QED  BY <1>3, <2>2 DEF WaitInv, OnlyBlocking
  <1>4. CASE GiveUp
    <2>1. Left' = (toHost \o atSoc) \o Tail(toSoc) /\ toSoc # << >>
      BY <1>4 DEF GiveUp, Left
    <2>2. OneWaits(hl, Left')  BY <1>1, <1>2, <2>1, LostWaits DEF Left
    <2> QED  BY <1>1, <1>3, <1>4, <2>2 DEF GiveUp
  <1>5. CASE SocReceive
    <2> DEFINE p == Head(toSoc)
               t == Tail(toSoc)
    <2>1. /\ toSoc # << >> /\ toSoc' = t /\ toHost' = toHost /\ hl' = hl
          /\ atSoc' = IF p.blocking THEN Append(atSoc, p) ELSE atSoc
      <3>1. p \in Packet  BY <1>2, <1>5, HeadTailProperties DEF SocReceive
      <3>2. atSoc \o << p >> = Append(atSoc, p) /\ atSoc \o << >> = atSoc
        BY <1>2, <3>1
      <3> QED  BY <1>5, <3>2 DEF SocReceive, Opt
    <2>2. p \in Packet /\ t \in Seq(Packet)  BY <1>2, <2>1, HeadTailProperties
    <2>3. OnlyBlocking(atSoc')  BY <1>1, <1>2, <2>1, <2>2, BlockingEnds
    <2>4. OneWaits(hl, Left')
      <3>1. CASE p.blocking
        <4>1. Left' = Left  BY <1>2, <2>1, <3>1 DEF Left
        <4> QED  BY <1>1, <4>1
      <3>2. CASE ~ p.blocking
        <4>1. Left' = (toHost \o atSoc) \o t  BY <2>1, <3>2 DEF Left
        <4> QED  BY <1>1, <1>2, <2>1, <4>1, LostWaits DEF Left
      <3> QED  BY <3>1, <3>2
    <2> QED  BY <1>1, <1>3, <2>1, <2>3, <2>4
  <1>6. CASE SocAnswer
    <2>1. /\ atSoc # << >> /\ toHost' = Append(toHost, Head(atSoc)) /\ atSoc' = Tail(atSoc)
          /\ toSoc' = toSoc /\ hl' = hl
      BY <1>6 DEF SocAnswer
    <2>2. Head(atSoc) \in Packet /\ Head(atSoc).blocking /\ OnlyBlocking(Tail(atSoc))
      BY <1>1, <1>2, <2>1, BlockingEnds, HeadTailProperties
    <2>3. OnlyBlocking(toHost')  BY <1>1, <1>2, <2>1, <2>2, BlockingEnds
    <2>4. Left' = Left  BY <1>2, <2>1 DEF Left
    <2> QED  BY <1>1, <1>3, <2>1, <2>2, <2>3, <2>4
  <1>7. CASE UNCHANGED vars
    <2>1. Left' = Left /\ toHost' = toHost /\ atSoc' = atSoc /\ hl' = hl
      BY <1>7 DEF vars, Left
    <2> QED  BY <1>1, <1>3, <2>1
  <1>8. ASSUME NEW blocking \in BOOLEAN, Issue(blocking) PROVE WaitInv'  BY <1>8, IssueWaits
  <1>9. ASSUME NEW takes \in BOOLEAN, NEW follow \in BOOLEAN, NEW rx \in Receive,
               Quantum(takes, rx, follow)
        PROVE  WaitInv'
    BY <1>9, QuantumWaits
  <1> QED  BY <1>4, <1>5, <1>6, <1>7, <1>8, <1>9 DEF Next

\* The handlers take the answer that comes next for the answer to the request at
\* the head of the blocking queue, without comparing TSNs.  It is that answer,
\* for every size of the pool and every TSN range: at most one blocking request
\* is under way, and it is that one.
THEOREM OneBlockingOutstanding == Spec => []OneOutstanding
  <1>1. IInv /\ WaitInv => OneOutstanding
    <2> SUFFICES ASSUME IInv, WaitInv PROVE OneOutstanding  OBVIOUS
    <2> DEFINE p == hl.div
               d == Opt(p # NoPkt, p)
               w == Left \o d
               x == HeadPacket(hl)
    <2>1. hl \in HLState /\ Left \in Seq(Packet) /\ OneWaits(hl, Left)
      BY LeftTypes DEF IInv, WaitInv
    <2>2. p \in Packet /\ d \in Seq(Packet)  BY <2>1 DEF HLState, Opt
    <2>3. /\ Has(Blocking, d) <=> p.blocking
          /\ Few(Blocking, d)
          /\ p.blocking => p = x
          /\ All(Blocking, d, x)
      <3>1. p.blocking => p = x  BY <2>1 DEF OneWaits
      <3>2. CASE p # NoPkt
        <4>1. d = << p >>  BY <3>2 DEF Opt
        <4>2. p \in Blocking <=> p.blocking  BY <2>2 DEF Blocking
        <4>3. /\ Has(Blocking, << p >>) <=> p \in Blocking
              /\ Few(Blocking, << p >>)
              /\ All(Blocking, << p >>, x) <=> (p \in Blocking => p = x)
          BY OneMark, Zenon
        <4> QED  BY <3>1, <4>1, <4>2, <4>3
      <3>3. CASE p = NoPkt
        <4>1. d = << >> /\ ~ p.blocking  BY <3>3 DEF Opt, NoPkt
        <4> QED  BY <3>1, <4>1, NoMarks
      <3> QED  BY <3>2, <3>3
    <2> HIDE DEF d, x
    <2>4. /\ Has(Blocking, w) <=> Has(Blocking, Left) \/ Has(Blocking, d)
          /\ Few(Blocking, w) <=>
               Few(Blocking, Left) /\ Few(Blocking, d) /\ ~ (Has(Blocking, Left) /\ Has(Blocking, d))
          /\ All(Blocking, w, x) <=> All(Blocking, Left, x) /\ All(Blocking, d, x)
          /\ w \in Seq(Packet)
      BY <2>1, <2>2, ConcatMarks, Zenon
    <2>5. Few(Blocking, w) /\ All(Blocking, w, x) /\ (Has(Blocking, w) => HeadWaits(hl))
      BY <2>1, <2>3, <2>4 DEF OneWaits, x
    <2>6. UnderWay = w  BY DEF UnderWay, Left, d
    <2> HIDE DEF w, p
    <2>7. DOMAIN w = 1..Len(w) /\ \A i \in 1..Len(w) : w[i] \in Packet
      BY <2>4, LenProperties, ElementOfSeq
    <2>8. \A i \in 1..Len(w) : w[i].blocking <=> w[i] \in Blocking
      BY <2>7 DEF Blocking
    <2>9. \A i, j \in 1..Len(w) : w[i].blocking /\ w[j].blocking => i = j
      BY <2>5, <2>8 DEF Few
    <2>10. ASSUME NEW i \in 1..Len(w), w[i].blocking
           PROVE  /\ hl.bq # << >>
                  /\ hl.pool[Head(hl.bq)] =
                       [status |-> "WAIT_RESPONSE", tsn |-> w[i].tsn, id |-> w[i].id]
      <3>1. w[i] = x /\ HeadWaits(hl)  BY <2>5, <2>8, <2>10 DEF All, Has
      <3>2. w[i].tsn = hl.pool[Head(hl.bq)].tsn /\ w[i].id = hl.pool[Head(hl.bq)].id
        BY <3>1 DEF x, HeadPacket
      <3>3. hl.bq # << >> /\ hl.pool[Head(hl.bq)].status = "WAIT_RESPONSE"
        BY <3>1 DEF HeadWaits
      <3>4. hl.pool[Head(hl.bq)] \in TxBuffer
        BY <2>1, <3>3, HeadInQueue DEF HLState
      <3> QED  BY <3>2, <3>3, <3>4 DEF TxBuffer
    <2> QED  BY <2>6, <2>7, <2>9, <2>10 DEF OneOutstanding
  <1>2. Spec => [](IInv /\ WaitInv)
    BY InitInv, NextInv, InitWaits, NextWaits, PTL DEF Spec
  <1> QED  BY <1>1, <1>2, PTL

----------------------------------------------------------------------------
(* The order of the blocking requests.  Their ids number the requests in   *)
(* the order of issue; those of the blocking queue increase from its head, *)
(* and the ones not sent yet are above all that were sent.                 *)

\* The id of the i-th request in the blocking queue, and the ids of those not sent yet.
Id(h, i) == h.pool[h.bq[i]].id
Unsent(h) == {x \in Nat : \E i \in 1..Len(h.bq) :
                            Id(h, i) = x /\ h.pool[h.bq[i]].status = "WAIT_SENDING"}
Increasing(h) == \A i, j \in 1..Len(h.bq) : i < j => Id(h, i) < Id(h, j)
Below(h, n) == \A i \in 1..Len(h.bq) : Id(h, i) <= n

\* From h to u the requests `new' are issued, and a blocking request is sent or none.
SendsNone(h, u, new) == /\ u.div = h.div \/ ~ u.div.blocking
                        /\ Unsent(u) = Unsent(h) \cup new
SendsFirst(h, u, new) == /\ u.div.blocking /\ u.div.id \in Unsent(h) \cup new
                         /\ Unsent(u) = (Unsent(h) \cup new) \ {u.div.id}
                         /\ \A y \in Unsent(u) : u.div.id < y
InTurn(h, u, new) == SendsNone(h, u, new) \/ SendsFirst(h, u, new)

LEMMA IdTypes ==
  ASSUME NEW h \in HLState
  PROVE  /\ Len(h.bq) \in Nat
         /\ \A i \in 1..Len(h.bq) : h.bq[i] \in Buf /\ Id(h, i) \in Nat
  <1>1. Len(h.bq) \in Nat /\ \A i \in 1..Len(h.bq) : h.bq[i] \in Buf
    BY LenProperties, ElementOfSeq DEF HLState
  <1>2. h.pool \in [Buf -> TxBuffer]  BY DEF HLState
  <1> QED  BY <1>1, <1>2 DEF Id, TxBuffer

\* A change that leaves the blocking queue and what it holds alone.
LEMMA SameIds ==
  ASSUME NEW h, NEW u, u.bq = h.bq, \A i \in 1..Len(h.bq) : u.pool[h.bq[i]] = h.pool[h.bq[i]]
  PROVE  /\ Unsent(u) = Unsent(h)
         /\ Increasing(h) => Increasing(u)
         /\ \A n : Below(h, n) => Below(u, n)
  <1>1. \A i \in 1..Len(h.bq) : Id(u, i) = Id(h, i)  BY DEF Id
  <1> QED  BY <1>1 DEF Unsent, Increasing, Below

\* A blocking request is added, sent already or not.
Added(h, u, status, id) ==
  /\ status = "WAIT_SENDING" => Unsent(u) = Unsent(h) \cup {id}
  /\ status # "WAIT_SENDING" => Unsent(u) = Unsent(h)
  /\ Increasing(u) /\ Below(u, id)

\* A blocking request is put at the end of its queue.
LEMMA AppendedIds ==
  ASSUME NEW h \in HLState, NEW u \in HLState, NEW b \in Buf, u.bq = Append(h.bq, b),
         \A i \in 1..Len(h.bq) : u.pool[h.bq[i]] = h.pool[h.bq[i]],
         NEW id \in Nat, u.pool[b].id = id, Increasing(h), NEW n \in Nat, Below(h, n), n < id
  PROVE  Added(h, u, u.pool[b].status, id)
  <1> DEFINE k == Len(h.bq)
  <1>1. k \in Nat /\ \A i \in 1..k : h.bq[i] \in Buf /\ Id(h, i) \in Nat  BY IdTypes
  <1>2. /\ Len(u.bq) = k + 1 /\ u.bq[k + 1] = b
        /\ \A i \in 1..k : u.bq[i] = h.bq[i]
    BY AppendProperties DEF HLState
  <1>3. (\A i \in 1..k : Id(u, i) = Id(h, i)) /\ Id(u, k + 1) = id  BY <1>2 DEF Id
  <1>4. 1..Len(u.bq) = (1..k) \cup {k + 1}  BY <1>1, <1>2
  <1>5. \A i \in 1..k : Id(h, i) <= n  BY DEF Below
  <1> HIDE DEF k
  <1>6. Increasing(u)
    <2> SUFFICES ASSUME NEW i \in 1..k + 1, NEW j \in 1..k + 1, i < j PROVE Id(u, i) < Id(u, j)
      BY <1>2 DEF Increasing
    <2>1. i \in 1..k  BY <1>1
    <2>2. CASE j \in 1..k  BY <1>3, <2>1, <2>2 DEF Increasing, k
    <2>3. CASE j = k + 1  BY <1>1, <1>3, <1>5, <2>1, <2>3
    <2> QED  BY <1>1, <2>2, <2>3
  <1>7. Below(u, id)
    <2> SUFFICES ASSUME NEW i \in 1..k + 1 PROVE Id(u, i) <= id  BY <1>2 DEF Below
    <2>1. CASE i \in 1..k  BY <1>1, <1>3, <1>5, <2>1
    <2>2. CASE i = k + 1  BY <1>3, <2>2
    <2> QED  BY <1>1, <2>1, <2>2
  <1>8. \A i \in 1..k : u.pool[u.bq[i]].status = h.pool[h.bq[i]].status  BY <1>2 DEF k
  <1>9. ASSUME NEW x \in Nat
        PROVE  x \in Unsent(u) <=>
                 x \in Unsent(h) \cup (IF u.pool[b].status = "WAIT_SENDING" THEN {id} ELSE {})
    <2>1. x \in Unsent(u) <=> \E i \in (1..k) \cup {k + 1} :
             Id(u, i) = x /\ u.pool[u.bq[i]].status = "WAIT_SENDING"
      BY <1>4 DEF Unsent
    <2>2. x \in Unsent(h) <=> \E i \in 1..k :
             Id(h, i) = x /\ h.pool[h.bq[i]].status = "WAIT_SENDING"
      BY DEF Unsent, k
    <2> QED  BY <1>2, <1>3, <1>8, <2>1, <2>2
  <1>10. Unsent(u) \subseteq Nat /\ Unsent(h) \subseteq Nat  BY DEF Unsent
  <1>11. Unsent(u) = Unsent(h) \cup (IF u.pool[b].status = "WAIT_SENDING" THEN {id} ELSE {})
    BY <1>9, <1>10
  <1> QED  BY <1>6, <1>7, <1>11 DEF Added

LEMMA PutOrder ==
  ASSUME NEW h \in HLState, NEW b \in Buf, ~ InSeq(h.bq, b), Len(h.bq) < POOL_SIZE,
         NEW s \in {"WAIT_SENDING", "WAIT_RESPONSE"},
         Increasing(h), NEW n \in Nat, Below(h, n), NEW id \in Nat, id = h.pool[b].id, n < id,
         NEW u, u = PutInQueue(h, b, TRUE, s)
  PROVE  Added(h, u, s, id) /\ u.div = h.div
  <1> DEFINE x == [h.pool[b] EXCEPT !.status = s]
  <1>1. h.pool \in [Buf -> TxBuffer] /\ h.bq \in Seq(Buf)  BY DEF HLState
  <1>2. x \in TxBuffer /\ x.status = s /\ x.id = h.pool[b].id
    <2>1. s \in BufStatus /\ h.pool[b] \in TxBuffer  BY <1>1 DEF BufStatus
    <2>2. x \in TxBuffer /\ x.status = s  BY <2>1, BufferTypes
    <2>3. x.id = h.pool[b].id  BY <2>1 DEF TxBuffer
    <2> QED  BY <2>2, <2>3
  <1>3. u = [h EXCEPT !.pool = [h.pool EXCEPT ![b] = x], !.bq = Append(h.bq, b)]
    BY DEF PutInQueue, SetStatus, Enqueue, HLState
  <1> HIDE DEF x
  <1>4. [h.pool EXCEPT ![b] = x] \in [Buf -> TxBuffer]  BY <1>1, <1>2
  <1>5. Append(h.bq, b) \in Seq(Buf)  BY <1>1, AppendProperties
  <1>6. /\ u \in HLState /\ u.bq = Append(h.bq, b) /\ u.div = h.div
        /\ u.pool = [h.pool EXCEPT ![b] = x]
    BY <1>3, <1>4, <1>5 DEF HLState
  <1>7. u.pool[b] = x /\ \A i \in 1..Len(h.bq) : u.pool[h.bq[i]] = h.pool[h.bq[i]]
    BY <1>1, <1>6, ElementOfSeq DEF InSeq
  <1>8. u.pool[b].id = h.pool[b].id /\ u.pool[b].status = s /\ h.pool[b].id \in Nat
    BY <1>1, <1>2, <1>7 DEF TxBuffer
  <1>9. u.pool[b].id = id /\ u.bq = Append(h.bq, b)  BY <1>6, <1>8
  <1>10. Added(h, u, u.pool[b].status, id)
    BY <1>6, <1>7, <1>9, AppendedIds
  <1> QED  BY <1>6, <1>8, <1>10

LEMMA RequestOrder ==
  ASSUME NEW h, HLInv(h), FreeBufs(h) # {}, NEW blocking \in BOOLEAN, NEW id \in Nat,
         Increasing(h), NEW n \in Nat, Below(h, n), n < id
  PROVE  /\ InTurn(h, Request(h, blocking, id), IF blocking THEN {id} ELSE {})
         /\ Increasing(Request(h, blocking, id)) /\ Below(Request(h, blocking, id), id)
  <1> DEFINE b == FindFree(h)
             u == GetRequestBuffer(h, b, blocking, id)
             v == Request(h, blocking, id)
             new == IF blocking THEN {id} ELSE {}
  <1>1. b \in FreeBufs(h)  BY FindFreeIsFree
  <1>2. b \in Buf /\ h.pool[b].status = "FREE"  BY <1>1 DEF FreeBufs
  <1>3. h \in HLState /\ StatusFits(h) /\ (~ h.active => h.div = NoPkt)  BY DEF HLInv
  <1>4. /\ u.bq = h.bq /\ u.nq = h.nq /\ u.active = h.active /\ u.div = h.div /\ u \in HLState
        /\ u.pool[b].status = IF blocking THEN "RESERVED_BLOCKING" ELSE "RESERVED_NONBLOCKING"
        /\ u.pool[b].id = id /\ HLInvBut(u, b)
        /\ \A c \in Buf \ {b} : u.pool[c] = h.pool[c]
    <2>1. HLInvBut(u, b)  BY <1>1, GetRequestBufferInv
    <2>2. u.pool[b].id = id  BY <1>2, <1>3 DEF GetRequestBuffer, HLState
    <2> QED  BY <1>1, <2>1, <2>2, GetRequestBufferInv DEF HLInvBut
  <1>5. blocking <=> u.pool[b].status = "RESERVED_BLOCKING"  BY <1>4
  <1>6. v = IF MustQueue(u, blocking) THEN PutInQueue(u, b, blocking, "WAIT_SENDING")
            ELSE SendDirectly(u, b, blocking)
    BY <1>5 DEF Request, SendPacket
  <1> SUFFICES InTurn(h, v, new) /\ Increasing(v) /\ Below(v, id)  OBVIOUS
  <1>7. blocking => new = {id}  OBVIOUS
  <1>8. ~ blocking => new = {}  OBVIOUS
  <1> HIDE DEF b, u, v, new
  <1>9. h.bq \in Seq(Buf) /\ Len(h.bq) \in Nat  BY <1>3, IdTypes DEF HLState
  <1>10. \A i \in 1..Len(h.bq) : h.bq[i] \in Buf \ {b}
    BY <1>2, <1>3, <1>9, ElementOfSeq DEF StatusFits
  <1>11. Unsent(u) = Unsent(h) /\ Increasing(u) /\ Below(u, n)
    BY <1>4, <1>10, SameIds
  <1>12. Below(h, id)
    <2>1. \A i \in 1..Len(h.bq) : Id(h, i) \in Nat /\ Id(h, i) <= n  BY <1>3, IdTypes DEF Below
    <2> QED  BY <2>1 DEF Below
  <1>13. ~ InSeq(u.bq, b) /\ Len(u.bq) < POOL_SIZE
    <2>1. Distinct(u) /\ ~ InSeq(u.bq, b)  BY <1>4 DEF HLInvBut
    <2> QED  BY <1>2, <1>4, <1>9, <2>1, QueueHasRoom DEF Distinct, InSeq
  <1>14. CASE MustQueue(u, blocking) /\ blocking
    <2>1. v = PutInQueue(u, b, TRUE, "WAIT_SENDING")  BY <1>6, <1>14
    <2>2. Added(u, v, "WAIT_SENDING", id) /\ v.div = u.div
      <3>1. u \in HLState /\ id = u.pool[b].id  BY <1>4
      <3> QED  BY <1>2, <1>11, <1>13, <2>1, <3>1, PutOrder
    <2> QED  BY <1>4, <1>7, <1>11, <1>14, <2>2 DEF InTurn, SendsNone, Added
  <1>15. CASE MustQueue(u, blocking) /\ ~ blocking
    <2>1. v = PutInQueue(u, b, FALSE, "WAIT_SENDING")  BY <1>6, <1>15
    <2>2. /\ v.bq = u.bq /\ v.div = u.div
          /\ \A c \in Buf \ {b} : v.pool[c] = u.pool[c]
      BY <1>2, <1>4, <2>1 DEF PutInQueue, SetStatus, HLState
    <2>3. v.bq = h.bq /\ \A i \in 1..Len(h.bq) : v.pool[h.bq[i]] = h.pool[h.bq[i]]
      BY <1>4, <1>10, <2>2
    <2>4. Unsent(v) = Unsent(h) /\ Increasing(v) /\ Below(v, id)
      BY <1>12, <2>3, SameIds
    <2> QED  BY <1>4, <1>8, <1>15, <2>2, <2>4 DEF InTurn, SendsNone
  <1>16. CASE ~ MustQueue(u, blocking)
    <2> DEFINE p == [id |-> id, tsn |-> u.pool[b].tsn, blocking |-> blocking]
               w == [LLSendPacket(u, b, blocking) EXCEPT !.active = TRUE]
    <2>1. h.div = NoPkt /\ ~ u.active /\ (blocking => u.bq = << >>)
      BY <1>3, <1>4, <1>16 DEF MustQueue
    <2>2. /\ w \in HLState /\ w.bq = u.bq /\ w.nq = u.nq /\ w.pool = u.pool /\ w.div = p
      <3>1. p \in Packet  BY <1>2, <1>4 DEF HLState, TxBuffer, Packet
      <3>2. w = [u EXCEPT !.div = p, !.active = TRUE]
        BY <1>4, <2>1 DEF LLSendPacket, HLState
      <3> QED  BY <1>4, <3>1, <3>2 DEF HLState
    <2>3. v = IF blocking THEN PutInQueue(w, b, TRUE, "WAIT_RESPONSE") ELSE TxBufferFree(w, b)
      BY <1>6, <1>16 DEF SendDirectly
    <2>4. p.blocking = blocking /\ p.id = id  OBVIOUS
    <2> HIDE DEF p, w
    <2>5. CASE ~ blocking
      <3>1. v.div = w.div /\ v.bq = w.bq /\ \A c \in Buf \ {b} : v.pool[c] = w.pool[c]
        BY <1>2, <2>2, <2>3, <2>5 DEF TxBufferFree, HLState
      <3>2. v.bq = h.bq /\ \A i \in 1..Len(h.bq) : v.pool[h.bq[i]] = h.pool[h.bq[i]]
        BY <1>4, <1>10, <2>2, <3>1
      <3>3. Unsent(v) = Unsent(h) /\ Increasing(v) /\ Below(v, id)
        BY <1>12, <3>2, SameIds
      <3> QED  BY <1>8, <2>2, <2>4, <2>5, <3>1, <3>3 DEF InTurn, SendsNone
    <2>6. CASE blocking
      <3>1. Unsent(w) = Unsent(u) /\ Increasing(w) /\ Below(w, n)
        BY <1>11, <2>2, SameIds
      <3>2. v = PutInQueue(w, b, TRUE, "WAIT_RESPONSE")  BY <2>3, <2>6
      <3>3. ~ InSeq(w.bq, b) /\ Len(w.bq) < POOL_SIZE /\ w.pool[b].id = id
        BY <1>4, <1>13, <2>2
      <3>4. Added(w, v, "WAIT_RESPONSE", id) /\ v.div = w.div
        BY <1>2, <2>2, <3>1, <3>2, <3>3, PutOrder
      <3>5. Unsent(u) = {}  BY <2>1, <2>6 DEF Unsent
      <3> QED  BY <1>7, <1>11, <2>2, <2>4, <2>6, <3>1, <3>4, <3>5 DEF InTurn, SendsFirst, Added
    <2> QED  BY <2>5, <2>6
  <1> QED  BY <1>14, <1>15, <1>16

\* The answer that comes finishes a request that was sent.
LEMMA MarkFinishedOrder ==
  ASSUME NEW h, HLInv(h), HeadWaits(h), Increasing(h), NEW n, Below(h, n)
  PROVE  LET u == MarkFinished(h)
         IN  Unsent(u) = Unsent(h) /\ Increasing(u) /\ Below(u, n) /\ u.div = h.div
  <1> DEFINE u == MarkFinished(h)
             b == Head(h.bq)
             q == Tail(h.bq)
  <1>1. h \in HLState /\ Distinct(h) /\ h.bq # << >> /\ h.pool[b].status = "WAIT_RESPONSE"
    BY DEF HLInv, HeadWaits
  <1>2. b \in Buf /\ b = h.bq[1] /\ 1 \in 1..Len(h.bq)  BY <1>1, HeadInQueue
  <1>3. Len(h.bq) \in Nat /\ \A i \in 1..Len(h.bq) : h.bq[i] \in Buf /\ Id(h, i) \in Nat
    BY <1>1, IdTypes
  <1>4. Len(q) = Len(h.bq) - 1 /\ \A i \in 1..Len(q) : q[i] = h.bq[i + 1]
    BY <1>1, <1>2, HeadTailProperties DEF HLState
  <1>5. /\ u.bq = q /\ u.div = h.div
        /\ \A c \in Buf \ {b} : u.pool[c] = h.pool[c]
    BY <1>1, <1>2 DEF MarkFinished, TxBufferFree, HLState
  <1> HIDE DEF u, q, b
  <1>6. \A i \in 1..Len(q) : i + 1 \in 1..Len(h.bq) /\ i + 1 # 1  BY <1>3, <1>4
  <1>7. \A i \in 1..Len(q) : u.pool[q[i]] = h.pool[h.bq[i + 1]]
    BY <1>1, <1>2, <1>3, <1>4, <1>5, <1>6 DEF Distinct
  <1>8. \A i \in 1..Len(q) : Id(u, i) = Id(h, i + 1)  BY <1>5, <1>7 DEF Id
  <1>9. Increasing(u)
    <2> SUFFICES ASSUME NEW i \in 1..Len(q), NEW j \in 1..Len(q), i < j
                 PROVE  Id(u, i) < Id(u, j)
      BY <1>5 DEF Increasing
    <2>1. i + 1 < j + 1  BY <1>3, <1>4
    <2> QED  BY <1>6, <1>8, <2>1 DEF Increasing
  <1>10. Below(u, n)  BY <1>5, <1>6, <1>8 DEF Below
  <1>11. ASSUME NEW x \in Nat PROVE x \in Unsent(u) <=> x \in Unsent(h)
    <2>1. x \in Unsent(u) <=> \E i \in 1..Len(q) :
             Id(h, i + 1) = x /\ h.pool[h.bq[i + 1]].status = "WAIT_SENDING"
      BY <1>5, <1>7, <1>8 DEF Unsent
    <2>2. x \in Unsent(h) <=> \E i \in 1..Len(h.bq) :
             Id(h, i) = x /\ h.pool[h.bq[i]].status = "WAIT_SENDING"
      BY DEF Unsent
    <2>3. h.pool[h.bq[1]].status # "WAIT_SENDING"  BY <1>1, <1>2
    <2>4. \A i \in 1..Len(h.bq) : i = 1 \/ (i - 1 \in 1..Len(q) /\ (i - 1) + 1 = i)
      BY <1>3, <1>4
    <2> QED  BY <1>6, <2>1, <2>2, <2>3, <2>4
  <1>12. Unsent(u) = Unsent(h)
    <2>1. Unsent(u) \subseteq Nat /\ Unsent(h) \subseteq Nat  BY DEF Unsent
    <2> QED  BY <1>11, <2>1
  <1> QED  BY <1>5, <1>9, <1>10, <1>12 DEF u

\* From h to u only the divider and the buffer of the head may have changed.
HeadSent(h, u) ==
  /\ h.bq # << >> /\ h.pool[h.bq[1]].status = "WAIT_SENDING"
  /\ u.bq = h.bq /\ u.pool[h.bq[1]].id = h.pool[h.bq[1]].id
  /\ u.pool[h.bq[1]].status = "WAIT_RESPONSE"
  /\ \A c \in Buf \ {h.bq[1]} : u.pool[c] = h.pool[c]
  /\ u.div.blocking /\ u.div.id = h.pool[h.bq[1]].id

LEMMA HeadSentOrder ==
  ASSUME NEW h, HLInv(h), NEW u, HeadSent(h, u), Increasing(h), NEW n, Below(h, n)
  PROVE  SendsFirst(h, u, {}) /\ Increasing(u) /\ Below(u, n)
  <1> DEFINE k == Len(h.bq)
  <1>1. h \in HLState /\ Distinct(h)  BY DEF HLInv
  <1>2. k \in Nat /\ \A i \in 1..k : h.bq[i] \in Buf /\ Id(h, i) \in Nat  BY <1>1, IdTypes
  <1>3. 1 \in 1..k  BY <1>1, HeadInQueue DEF HeadSent
  <1>4. /\ u.bq = h.bq /\ h.pool[h.bq[1]].status = "WAIT_SENDING"
        /\ u.pool[h.bq[1]].id = h.pool[h.bq[1]].id
        /\ u.pool[h.bq[1]].status = "WAIT_RESPONSE"
        /\ u.div.blocking /\ u.div.id = Id(h, 1)
    BY DEF HeadSent, Id
  <1>5. \A i \in 1..k : i # 1 => u.pool[h.bq[i]] = h.pool[h.bq[i]]
    BY <1>1, <1>2, <1>3 DEF HeadSent, Distinct
  <1> HIDE DEF k
  <1>6. \A i \in 1..k : Id(u, i) = Id(h, i)  BY <1>4, <1>5 DEF Id
  <1>7. Increasing(u) /\ Below(u, n)  BY <1>4, <1>6 DEF Increasing, Below, k
  <1>8. \A i \in 1..k : i # 1 => Id(h, 1) < Id(h, i)
    BY <1>2, <1>3 DEF Increasing, k
  <1>9. \A x \in Nat : x \in Unsent(h) <=> \E i \in 1..k :
           Id(h, i) = x /\ h.pool[h.bq[i]].status = "WAIT_SENDING"
    BY DEF Unsent, k
  <1>10. \A x \in Nat : x \in Unsent(u) <=> \E i \in 1..k :
           Id(h, i) = x /\ u.pool[h.bq[i]].status = "WAIT_SENDING"
    BY <1>4, <1>6 DEF Unsent, k
  <1>11. Unsent(u) \subseteq Nat /\ Unsent(h) \subseteq Nat  BY DEF Unsent
  <1>12. Id(h, 1) \in Unsent(h)  BY <1>2, <1>3, <1>4, <1>9
  <1>13. \A x \in Nat : x \in Unsent(u) <=> x \in Unsent(h) /\ x # Id(h, 1)
    <2> SUFFICES ASSUME NEW x \in Nat PROVE x \in Unsent(u) <=> x \in Unsent(h) /\ x # Id(h, 1)
      OBVIOUS
    <2>1. ASSUME x \in Unsent(u) PROVE x \in Unsent(h) /\ x # Id(h, 1)
      <3>1. PICK i \in 1..k : Id(h, i) = x /\ u.pool[h.bq[i]].status = "WAIT_SENDING"
        BY <1>10, <2>1
      <3>2. i # 1  BY <1>4, <3>1
      <3>3. x # Id(h, 1)  BY <1>2, <1>3, <1>8, <3>1, <3>2
      <3> QED  BY <1>5, <1>9, <3>1, <3>2, <3>3
    <2>2. ASSUME x \in Unsent(h), x # Id(h, 1) PROVE x \in Unsent(u)
      <3>1. PICK i \in 1..k : Id(h, i) = x /\ h.pool[h.bq[i]].status = "WAIT_SENDING"
        BY <1>9, <2>2
      <3>2. i # 1  BY <2>2, <3>1
      <3> QED  BY <1>5, <1>10, <3>1, <3>2
    <2> QED  BY <2>1, <2>2
  <1>14. Unsent(u) = Unsent(h) \ {Id(h, 1)}  BY <1>2, <1>3, <1>11, <1>13
  <1>15. \A y \in Unsent(u) : Id(h, 1) < y
    <2> SUFFICES ASSUME NEW y \in Unsent(u) PROVE Id(h, 1) < y  OBVIOUS
    <2>1. y \in Nat /\ y \in Unsent(h) /\ y # Id(h, 1)  BY <1>11, <1>13
    <2> QED  BY <1>8, <1>9, <2>1
  <1> QED  BY <1>4, <1>7, <1>12, <1>14, <1>15 DEF SendsFirst

LEMMA TxReadyOrder ==
  ASSUME NEW h, HLInv(h), h.div = NoPkt, Increasing(h), NEW n, Below(h, n)
  PROVE  /\ InTurn(h, TxReady(h), {})
         /\ Increasing(TxReady(h)) /\ Below(TxReady(h), n)
  <1> DEFINE u == [h EXCEPT !.active = FALSE]
             m == Head(h.nq)
             b == Head(h.bq)
             v == TxReady(h)
  <1>1. h \in HLState /\ StatusFits(h) /\ Distinct(h)  BY DEF HLInv
  <1>2. /\ u \in HLState /\ u.bq = h.bq /\ u.nq = h.nq /\ u.pool = h.pool /\ u.div = NoPkt
    BY <1>1 DEF HLState
  <1>3. h.bq # << >> => b \in Buf /\ b = h.bq[1] /\ 1 \in 1..Len(h.bq)  BY <1>1, HeadInQueue
  <1>4. ASSUME NEW c \in Buf, NEW blocking \in BOOLEAN
        PROVE  /\ LLSendPacket(u, c, blocking) \in HLState
               /\ LLSendPacket(u, c, blocking).div =
                    [id |-> h.pool[c].id, tsn |-> h.pool[c].tsn, blocking |-> blocking]
               /\ LLSendPacket(u, c, blocking).bq = h.bq
               /\ LLSendPacket(u, c, blocking).pool = h.pool
    <2> DEFINE p == [id |-> h.pool[c].id, tsn |-> h.pool[c].tsn, blocking |-> blocking]
    <2>1. p \in Packet  BY <1>1 DEF HLState, TxBuffer, Packet
    <2>2. LLSendPacket(u, c, blocking) = [u EXCEPT !.div = p]  BY <1>2 DEF LLSendPacket
    <2> HIDE DEF p, u
    <2>3. /\ [u EXCEPT !.div = p] \in HLState /\ [u EXCEPT !.div = p].div = p
          /\ [u EXCEPT !.div = p].bq = u.bq /\ [u EXCEPT !.div = p].pool = u.pool
      BY <1>2, <2>1 DEF HLState
    <2> QED  BY <1>2, <2>2, <2>3 DEF p
  <1>5. ASSUME v.bq = h.bq, ~ v.div.blocking,
               \A i \in 1..Len(h.bq) : v.pool[h.bq[i]] = h.pool[h.bq[i]]
        PROVE  InTurn(h, v, {}) /\ Increasing(v) /\ Below(v, n)
    <2> HIDE DEF v
    <2>1. Unsent(v) = Unsent(h) /\ Increasing(v) /\ Below(v, n)  BY <1>5, SameIds
    <2> QED  BY <1>5, <2>1 DEF InTurn, SendsNone
  <1>6. CASE NonblockingFirst(h)
    <2> DEFINE w == LLSendPacket(u, m, FALSE)
    <2>1. h.nq # << >> /\ m \in Buf /\ m = h.nq[1] /\ 1 \in 1..Len(h.nq)
      BY <1>1, <1>6, HeadTailProperties, EmptySeq DEF NonblockingFirst, HLState
    <2>2. /\ w \in HLState /\ ~ w.div.blocking /\ w.bq = h.bq /\ w.pool = h.pool
      <3> HIDE DEF u, m
      <3>1. FALSE \in BOOLEAN  OBVIOUS
      <3>2. /\ w \in HLState /\ w.bq = h.bq /\ w.pool = h.pool
            /\ w.div = [id |-> h.pool[m].id, tsn |-> h.pool[m].tsn, blocking |-> FALSE]
        BY <1>4, <2>1, <3>1
      <3> HIDE DEF w
      <3> QED  BY <3>2
    <2>3. v = [TxBufferFree(w, m) EXCEPT !.nq = Tail(@), !.active = TRUE]
      BY <1>6 DEF TxReady
    <2> HIDE DEF w, v, u, m
    <2>4. v.div = w.div /\ v.bq = w.bq /\ \A c \in Buf \ {m} : v.pool[c] = w.pool[c]
      BY <2>1, <2>2, <2>3 DEF TxBufferFree, HLState
    <2>5. \A i \in 1..Len(h.bq) : h.bq[i] \in Buf \ {m}
      BY <1>1, <2>1, IdTypes DEF Distinct
    <2> QED  BY <1>5, <2>2, <2>4, <2>5 DEF v
  <1>7. CASE ~ NonblockingFirst(h) /\ h.bq # << >> /\ h.pool[b].status = "WAIT_SENDING"
    <2> DEFINE w == LLSendPacket(u, b, TRUE)
    <2>1. v = [SetStatus(w, b, "WAIT_RESPONSE") EXCEPT !.active = TRUE]  BY <1>7 DEF TxReady
    <2>2. /\ w \in HLState /\ w.bq = h.bq /\ w.pool = h.pool
          /\ w.div = [id |-> h.pool[b].id, tsn |-> h.pool[b].tsn, blocking |-> TRUE]
      <3> HIDE DEF u, b
      <3>1. TRUE \in BOOLEAN /\ b \in Buf  BY <1>3, <1>7
      <3> QED  BY <1>4, <3>1
    <2> HIDE DEF w, v, u
    <2>3. /\ v.div = w.div /\ v.bq = w.bq
          /\ v.pool[b].status = "WAIT_RESPONSE" /\ v.pool[b].id = w.pool[b].id
          /\ \A c \in Buf \ {b} : v.pool[c] = w.pool[c]
      BY <1>3, <1>7, <2>1, <2>2 DEF SetStatus, HLState, TxBuffer
    <2>4. HeadSent(h, v)  BY <1>3, <1>7, <2>2, <2>3 DEF HeadSent
    <2>5. SendsFirst(h, v, {}) /\ Increasing(v) /\ Below(v, n)  BY <2>4, HeadSentOrder
    <2> QED  BY <2>5 DEF InTurn, v
  <1>8. CASE /\ ~ NonblockingFirst(h)
             /\ ~ (h.bq # << >> /\ h.pool[b].status = "WAIT_SENDING")
    <2>1. v = u  BY <1>8 DEF TxReady
    <2>2. ~ v.div.blocking  BY <1>2, <2>1 DEF NoPkt
    <2> QED  BY <1>2, <1>5, <2>1, <2>2
  <1> QED  BY <1>6, <1>7, <1>8

\* The ids of the blocking requests sent.
SentIds == {x \in Nat : \E i \in 1..Len(sent) : sent[i].blocking /\ sent[i].id = x}

SentInOrder ==
  \A i, j \in 1..Len(sent) :
    sent[i].blocking /\ sent[j].blocking /\ i < j => sent[i].id < sent[j].id

\* The ids of the requests issued number them, and those of the blocking requests
\* that have not been sent follow those that have.
OrderInv ==
  /\ Increasing(hl) /\ Below(hl, Len(issued))
  /\ SentInOrder
  /\ \A x \in SentIds, y \in Unsent(hl) : x < y
  /\ \A x \in SentIds \cup Unsent(hl) : x \in 1..Len(issued) /\ issued[x]
  /\ \A x \in 1..Len(issued) : issued[x] => x \in SentIds \cup Unsent(hl)
  /\ hl.div.blocking => hl.div.id \in SentIds

LEMMA SentAppended ==
  ASSUME NEW s \in Seq(Packet), NEW p \in Packet, s = sent, sent' = Append(s, p)
  PROVE  /\ SentIds' = IF p.blocking THEN SentIds \cup {p.id} ELSE SentIds
         /\ SentInOrder /\ (p.blocking => \A x \in SentIds : x < p.id) => SentInOrder'
  <1> DEFINE k == Len(s)
  <1>1. k \in Nat /\ \A i \in 1..k : s[i] \in Packet  BY LenProperties, ElementOfSeq
  <1>2. /\ Len(sent') = k + 1 /\ sent'[k + 1] = p
        /\ \A i \in 1..k : sent'[i] = s[i]
    BY AppendProperties
  <1>3. 1..k + 1 = (1..k) \cup {k + 1}  BY <1>1
  <1>4. \A x \in Nat : x \in SentIds <=> \E i \in 1..k : s[i].blocking /\ s[i].id = x
    BY DEF SentIds
  <1>5. \A x \in Nat : x \in SentIds' <=> \E i \in (1..k) \cup {k + 1} :
          sent'[i].blocking /\ sent'[i].id = x
    BY <1>2, <1>3 DEF SentIds
  <1>6. SentIds \subseteq Nat /\ SentIds' \subseteq Nat /\ p.id \in Nat  BY DEF SentIds, Packet
  <1>7. \A x \in Nat : x \in SentIds' <=> x \in SentIds \/ (p.blocking /\ p.id = x)
    BY <1>2, <1>4, <1>5
  <1>8. SentIds' = IF p.blocking THEN SentIds \cup {p.id} ELSE SentIds  BY <1>6, <1>7
  <1>9. ASSUME SentInOrder, p.blocking => \A x \in SentIds : x < p.id PROVE SentInOrder'
    <2> SUFFICES ASSUME NEW i \in 1..k + 1, NEW j \in 1..k + 1, sent'[i].blocking,
                        sent'[j].blocking, i < j
                 PROVE  sent'[i].id < sent'[j].id
      BY <1>2 DEF SentInOrder
    <2>1. i \in 1..k  BY <1>1
    <2>2. CASE j \in 1..k  BY <1>2, <1>9, <2>1, <2>2 DEF SentInOrder
    <2>3. CASE j = k + 1
      <3>1. s[i].blocking /\ p.blocking /\ s[i].id \in Nat  BY <1>1, <1>2, <2>1, <2>3 DEF Packet
      <3>2. s[i].id \in SentIds  BY <1>4, <2>1, <3>1
      <3> QED  BY <1>2, <1>9, <2>1, <2>3, <3>1, <3>2
    <2> QED  BY <1>1, <2>2, <2>3
  <1> QED  BY <1>8, <1>9

\* The requests `new' (none or the next) are issued, and the packet that gets into the
\* divider is recorded.
LEMMA InTurnOrder ==
  ASSUME IInv, OrderInv, hl' \in HLState, NEW new,
         NEW flag \in BOOLEAN, NEW c \in BOOLEAN,
         issued' = issued \o Opt(c, flag),
         new = IF c /\ flag THEN {Len(issued) + 1} ELSE {},
         sent' = sent \o NewPkt(hl, hl'),
         InTurn(hl, hl', new), Increasing(hl'), Below(hl', Len(issued'))
  PROVE  OrderInv'
  <1>1. /\ issued \in Seq(BOOLEAN) /\ sent \in Seq(Packet) /\ hl \in HLState
        /\ Len(issued) \in Nat
    BY LenProperties DEF IInv, TypeOK
  <1>2. hl'.div \in Packet /\ hl.div \in Packet  BY <1>1 DEF HLState
  <1>3. PICK k \in Nat : k = Len(issued)  BY <1>1
  <1>4. /\ 1..Len(issued') = IF c THEN (1..k) \cup {k + 1} ELSE 1..k
        /\ \A i \in 1..k : issued'[i] = issued[i]
        /\ c => issued'[k + 1] = flag
    <2>1. CASE c
      <3>1. issued' = issued \o << flag >>  BY <2>1 DEF Opt
      <3>2. issued' = Append(issued, flag)  BY <1>1, <3>1
      <3>3. /\ Len(issued') = k + 1 /\ issued'[k + 1] = flag
            /\ \A i \in 1..k : issued'[i] = issued[i]
        BY <1>1, <1>3, <3>2, AppendProperties
      <3>4. 1..k + 1 = (1..k) \cup {k + 1}  OBVIOUS
      <3> QED  BY <2>1, <3>3, <3>4
    <2>2. CASE ~ c
      <3>1. issued' = issued \o << >>  BY <2>2 DEF Opt
      <3>2. issued' = issued  BY <1>1, <3>1
      <3> QED  BY <1>3, <2>2, <3>2
    <2> QED  BY <2>1, <2>2
  <1>5. /\ \A x \in new : x = k + 1 /\ c /\ flag
        /\ c /\ flag => k + 1 \in new
    BY <1>3
  <1>6. /\ \A x \in SentIds, y \in Unsent(hl) : x < y
        /\ \A x \in SentIds \cup Unsent(hl) : x \in 1..k /\ issued[x]
        /\ \A x \in 1..k : issued[x] => x \in SentIds \cup Unsent(hl)
        /\ hl.div.blocking => hl.div.id \in SentIds
        /\ SentInOrder
    BY <1>3 DEF OrderInv
  <1> DEFINE all == SentIds \cup Unsent(hl) \cup new
             I == 1..Len(issued')
  <1>7. /\ \A x \in all : x \in I /\ issued'[x]
        /\ \A x \in I : issued'[x] => x \in all
    <2>1. \A x \in all : x \in I /\ issued'[x]  BY <1>4, <1>5, <1>6
    <2>2. \A x \in I : issued'[x] => x \in all  BY <1>4, <1>5, <1>6
    <2> QED  BY <2>1, <2>2
  <1>8. \A x \in SentIds, y \in Unsent(hl) \cup new : x < y
    <2>1. \A x \in SentIds : x < k + 1  BY <1>6
    <2> QED  BY <1>5, <1>6, <2>1
  <1> HIDE DEF all, I
  <1>9. (Increasing(hl) /\ Below(hl, Len(issued)))'  BY DEF Increasing, Below, Id
  <1>10. SUFFICES /\ SentInOrder'
                  /\ \A x \in SentIds', y \in Unsent(hl') : x < y
                  /\ SentIds' \cup Unsent(hl') = all
                  /\ hl'.div.blocking => hl'.div.id \in SentIds'
    <2>1. Unsent(hl)' = Unsent(hl')  BY DEF Unsent, Id
    <2>2. /\ \A x \in SentIds' \cup Unsent(hl') : x \in 1..Len(issued') /\ issued'[x]
          /\ \A x \in 1..Len(issued') : issued'[x] => x \in SentIds' \cup Unsent(hl')
      BY <1>7, <1>10 DEF I
    <2> QED  BY <1>9, <1>10, <2>1, <2>2 DEF OrderInv
  <1>11. CASE SendsFirst(hl, hl', new)
    <2> DEFINE p == hl'.div
    <2>1. /\ p.blocking /\ p.id \in Unsent(hl) \cup new
          /\ Unsent(hl') = (Unsent(hl) \cup new) \ {p.id}
          /\ \A y \in Unsent(hl') : p.id < y
      BY <1>11 DEF SendsFirst
    <2>2. \A x \in SentIds : x < p.id  BY <1>8, <2>1
    <2>3. p # NoPkt /\ p # hl.div
      <3>1. p # NoPkt  BY <2>1 DEF NoPkt
      <3>2. ASSUME p = hl.div PROVE FALSE
        <4>1. hl.div.id \in SentIds /\ hl.div.id \in Nat  BY <1>2, <1>6, <2>1, <3>2 DEF Packet
        <4>2. hl.div.id < hl.div.id  BY <2>2, <3>2, <4>1
        <4> QED  BY <4>1, <4>2
      <3> QED  BY <3>1, <3>2
    <2>4. sent' = Append(sent, p)
      <3>1. NewPkt(hl, hl') = << p >>  BY <2>3 DEF NewPkt, Opt
      <3> QED  BY <1>1, <1>2, <3>1
    <2>5. SentIds' = SentIds \cup {p.id} /\ SentInOrder'
      BY <1>1, <1>2, <1>6, <2>1, <2>2, <2>4, SentAppended
    <2>6. \A x \in SentIds', y \in Unsent(hl') : x < y
      BY <1>8, <2>1, <2>5
    <2> QED  BY <2>1, <2>5, <2>6 DEF all
  <1>12. CASE SendsNone(hl, hl', new)
    <2>1. Unsent(hl') = Unsent(hl) \cup new /\ (hl'.div = hl.div \/ ~ hl'.div.blocking)
      BY <1>12 DEF SendsNone
    <2>2. SentIds' = SentIds /\ SentInOrder'
      <3>1. CASE hl'.div # NoPkt /\ hl'.div # hl.div
        <4>1. NewPkt(hl, hl') = << hl'.div >>  BY <3>1 DEF NewPkt, Opt
        <4>2. sent' = Append(sent, hl'.div)  BY <1>1, <1>2, <4>1
        <4> QED  BY <1>1, <1>2, <1>6, <2>1, <3>1, <4>2, SentAppended
      <3>2. CASE ~ (hl'.div # NoPkt /\ hl'.div # hl.div)
        <4>1. NewPkt(hl, hl') = << >>  BY <3>2 DEF NewPkt, Opt
        <4>2. sent' = sent  BY <1>1, <4>1
        <4> QED  BY <1>6, <4>2 DEF SentIds, SentInOrder
      <3> QED  BY <3>1, <3>2
    <2> QED  BY <1>6, <1>8, <2>1, <2>2 DEF all
  <1> QED  BY <1>11, <1>12 DEF InTurn

LEMMA InitOrder == Init => OrderInv
  <1> SUFFICES ASSUME Init PROVE OrderInv  OBVIOUS
  <1>1. hl.bq = << >> /\ sent = << >> /\ issued = << >> /\ ~ hl.div.blocking
    BY DEF Init, HLInit, NoPkt
  <1>2. SentIds = {} /\ Unsent(hl) = {}  BY <1>1 DEF SentIds, Unsent
  <1>3. Increasing(hl) /\ Below(hl, Len(issued)) /\ SentInOrder
    BY <1>1 DEF Increasing, Below, SentInOrder
  <1>4. 1..Len(issued) = {}  BY <1>1
  <1> QED  BY <1>1, <1>2, <1>3, <1>4 DEF OrderInv

LEMMA IssueOrder ==
  ASSUME IInv, OrderInv, NEW blocking \in BOOLEAN, Issue(blocking), IInv'
  PROVE  OrderInv'
  <1>1. HLInv(hl) /\ issued \in Seq(BOOLEAN) /\ hl' \in HLState  BY DEF IInv, TypeOK
  <1>2. PICK n \in Nat : n = Len(issued)  BY <1>1, LenProperties
  <1>3. /\ hl' = Request(hl, blocking, n + 1) /\ FreeBufs(hl) # {}
        /\ issued' = Append(issued, blocking) /\ sent' = sent \o NewPkt(hl, hl')
    BY <1>2 DEF Issue, CanIssue
  <1> DEFINE new == IF blocking THEN {n + 1} ELSE {}
  <1>4. InTurn(hl, hl', new) /\ Increasing(hl') /\ Below(hl', n + 1)
    <2>1. Increasing(hl) /\ Below(hl, n)  BY <1>2 DEF OrderInv
    <2>2. n + 1 \in Nat /\ n < n + 1  OBVIOUS
    <2> QED  BY <1>1, <1>3, <2>1, <2>2, RequestOrder
  <1>5. Len(issued') = n + 1  BY <1>1, <1>2, <1>3, AppendProperties
  <1>6. issued' = issued \o Opt(TRUE, blocking)  BY <1>1, <1>3 DEF Opt
  <1>7. new = IF TRUE /\ blocking THEN {Len(issued) + 1} ELSE {}  BY <1>2
  <1> HIDE DEF new
  <1> QED  BY <1>1, <1>3, <1>4, <1>5, <1>6, <1>7, InTurnOrder

LEMMA QuantumOrder ==
  ASSUME IInv, WaitInv, OrderInv, NEW takes \in BOOLEAN, NEW follow \in BOOLEAN,
         NEW rx \in Receive, Quantum(takes, rx, follow), IInv'
  PROVE  OrderInv'
  <1> DEFINE r == IF rx = "RESPONSE" THEN MarkFinished(hl) ELSE hl
             f == IF follow THEN Request(r, TRUE, Len(issued) + 1) ELSE r
             u == IF takes THEN [f EXCEPT !.div = NoPkt] ELSE f
  <1>1. HLInv(hl) /\ issued \in Seq(BOOLEAN) /\ hl \in HLState /\ hl' \in HLState /\ TypeOK
    BY DEF IInv, TypeOK
  <1>2. PICK n \in Nat : n = Len(issued)  BY <1>1, LenProperties
  <1>3. /\ takes => hl.div # NoPkt
        /\ rx = "RESPONSE" => toHost # << >>
        /\ follow => FreeBufs(r) # {}
        /\ hl' = EndOfQuantum(f, takes)
        /\ issued' = issued \o Opt(follow, TRUE)
        /\ sent' = sent \o NewPkt(hl, hl')
    BY DEF Quantum, CanIssue
  <1>4. f = IF follow THEN Request(r, TRUE, n + 1) ELSE r  BY <1>2
  <1>5. HLInv(r)  BY <1>1, MarkFinishedInv
  <1>6. Increasing(hl) /\ Below(hl, n)  BY <1>2 DEF OrderInv
  <1>7. Unsent(r) = Unsent(hl) /\ Increasing(r) /\ Below(r, n) /\ r.div = hl.div
    <2>1. CASE rx = "RESPONSE"
      <3>1. toHost \in Seq(Packet) /\ toHost # << >> /\ Left \in Seq(Packet)
        BY <1>1, <1>3, <2>1, LeftTypes
      <3>2. 1 \in 1..Len(toHost) /\ toHost[1] \in Packet
        BY <3>1, EmptySeq, LenProperties, ElementOfSeq
      <3>3. toHost[1].blocking  BY <3>2 DEF WaitInv, OnlyBlocking
      <3>4. Has(Blocking, toHost)  BY <3>2, <3>3 DEF Has, Blocking
      <3>5. Has(Blocking, Left)
        <4>1. /\ toHost \o atSoc \in Seq(Packet) /\ atSoc \in Seq(Packet) /\ toSoc \in Seq(Packet)
          BY <1>1, LeftTypes
        <4>2. Has(Blocking, toHost \o atSoc)  BY <3>1, <3>4, <4>1, ConcatMarks, Zenon
        <4>3. Has(Blocking, (toHost \o atSoc) \o toSoc)  BY <4>1, <4>2, ConcatMarks, Zenon
        <4> QED  BY <4>3 DEF Left
      <3>6. HeadWaits(hl)  BY <3>5 DEF WaitInv, OneWaits
      <3>7. LET m == MarkFinished(hl)
            IN  Unsent(m) = Unsent(hl) /\ Increasing(m) /\ Below(m, n) /\ m.div = hl.div
        BY <1>1, <1>6, <3>6, MarkFinishedOrder
      <3> QED  BY <2>1, <3>7
    <2>2. CASE rx # "RESPONSE"  BY <1>6, <2>2
    <2> QED  BY <2>1, <2>2
  <1> HIDE DEF r
  <1> DEFINE new == IF follow THEN {n + 1} ELSE {}
             m == IF follow THEN n + 1 ELSE n
  <1>8. HLInv(f) /\ InTurn(r, f, new) /\ Increasing(f) /\ Below(f, m)
        /\ (r.div # NoPkt => f.div = r.div)
    <2>1. CASE follow
      <3>1. f = Request(r, TRUE, n + 1)  BY <1>4, <2>1
      <3>2. n + 1 \in Nat /\ n < n + 1 /\ TRUE \in BOOLEAN /\ FreeBufs(r) # {}  BY <1>3, <2>1
      <3>3. HLInv(f)  BY <1>5, <3>1, <3>2, RequestInv
      <3>4. Moves(r, f)  BY <1>5, <3>1, <3>2, RequestMoves
      <3>5. InTurn(r, f, IF TRUE THEN {n + 1} ELSE {}) /\ Increasing(f) /\ Below(f, n + 1)
        BY <1>3, <1>5, <1>7, <2>1, <3>1, <3>2, RequestOrder
      <3> QED  BY <2>1, <3>3, <3>4, <3>5 DEF Moves
    <2>2. CASE ~ follow
      <3>1. f = r /\ new = {}  BY <1>4, <2>2
      <3>2. InTurn(r, f, {})  BY <3>1 DEF InTurn, SendsNone
      <3> QED  BY <1>5, <1>7, <2>2, <3>1, <3>2
    <2> QED  BY <2>1, <2>2
  <1> HIDE DEF f
  <1>9. HLInv(u) /\ u.bq = f.bq /\ u.pool = f.pool /\ u.div = IF takes THEN NoPkt ELSE f.div
    <2>1. CASE takes
      <3>1. u = [f EXCEPT !.div = NoPkt] /\ f \in HLState  BY <1>8, <2>1 DEF HLInv
      <3>2. /\ u \in HLState /\ u.bq = f.bq /\ u.nq = f.nq /\ u.pool = f.pool
            /\ u.div = NoPkt /\ u.aborted = f.aborted
        BY <3>1, BufferTypes DEF HLState
      <3> HIDE DEF u
      <3> QED  BY <1>8, <2>1, <3>2 DEF HLInv, Distinct, StatusFits, AllQueued
    <2>2. CASE ~ takes  BY <1>8, <2>2
    <2> QED  BY <2>1, <2>2
  <1>10. hl' = IF u.div = NoPkt THEN TxReady(u) ELSE u
    BY <1>3 DEF EndOfQuantum, TxIsReady
  <1> HIDE DEF u
  <1>11. Unsent(u) = Unsent(f) /\ Increasing(u) /\ Below(u, m)  BY <1>8, <1>9, SameIds
  <1>12. ~ NoPkt.blocking  BY DEF NoPkt
  <1> HIDE DEF new, m
  <1>13. InTurn(hl, hl', new) /\ Increasing(hl') /\ Below(hl', m)
    <2>1. CASE u.div = NoPkt
      <3>1. /\ InTurn(u, hl', {}) /\ Increasing(hl') /\ Below(hl', m)
        BY <1>9, <1>10, <1>11, <2>1, TxReadyOrder
      <3>2. Unsent(u) = Unsent(hl) \cup new
        <4>1. CASE takes
          <5>1. f.div = r.div /\ r.div # NoPkt  BY <1>3, <1>7, <1>8, <4>1
          <5>2. CASE SendsNone(r, f, new)  BY <1>7, <1>11, <5>2 DEF SendsNone
          <5>3. CASE SendsFirst(r, f, new)
            <6>1. hl.div.blocking /\ hl.div.id \in Unsent(hl) \cup new
              BY <1>7, <5>1, <5>3 DEF SendsFirst
            <6>2. hl.div.id \in SentIds /\ hl.div.id \in Nat
              BY <1>1, <6>1 DEF OrderInv, HLState, Packet
            <6>3. hl.div.id \in 1..n  BY <1>2, <6>2 DEF OrderInv
            <6>4. hl.div.id \notin new  BY <6>3 DEF new
            <6>5. hl.div.id < hl.div.id  BY <6>1, <6>2, <6>4 DEF OrderInv
            <6> QED  BY <6>2, <6>5
          <5> QED  BY <1>8, <5>2, <5>3 DEF InTurn
        <4>2. CASE ~ takes
          <5>1. f.div = NoPkt  BY <1>9, <2>1, <4>2
          <5> QED  BY <1>7, <1>8, <1>11, <1>12, <5>1 DEF InTurn, SendsNone, SendsFirst
        <4> QED  BY <4>1, <4>2
      <3>3. CASE SendsNone(u, hl', {})
        <4>1. ~ hl'.div.blocking /\ Unsent(hl') = Unsent(hl) \cup new
          BY <1>12, <2>1, <3>2, <3>3 DEF SendsNone
        <4> QED  BY <3>1, <4>1 DEF InTurn, SendsNone
      <3>4. CASE SendsFirst(u, hl', {})
        <4>1. SendsFirst(hl, hl', new)  BY <3>2, <3>4 DEF SendsFirst
        <4> QED  BY <3>1, <4>1 DEF InTurn
      <3> QED  BY <3>1, <3>3, <3>4 DEF InTurn
    <2>2. CASE u.div # NoPkt
      <3>1. hl' = u /\ u.div = f.div  BY <1>9, <1>10, <2>2
      <3>2. InTurn(hl, hl', new)
        BY <1>7, <1>8, <1>11, <3>1 DEF InTurn, SendsNone, SendsFirst
      <3> QED  BY <1>11, <3>1, <3>2
    <2> QED  BY <2>1, <2>2
  <1>14. Len(issued') = m
    <2>1. CASE follow
      <3>1. issued' = Append(issued, TRUE)
        <4>1. Opt(follow, TRUE) = << TRUE >>  BY <2>1 DEF Opt
        <4>2. \A b \in BOOLEAN : issued \o << b >> = Append(issued, b)  BY <1>1
        <4> HIDE DEF f
        <4>3. issued' = issued \o << TRUE >>  BY <1>3, <4>1
        <4>4. TRUE \in BOOLEAN  OBVIOUS
        <4> QED  BY <4>2, <4>3, <4>4, Zenon
      <3> QED  BY <1>1, <1>2, <2>1, <3>1, AppendProperties DEF m
    <2>2. CASE ~ follow
      <3>1. issued' = issued  BY <1>1, <1>3, <2>2 DEF Opt
      <3> QED  BY <1>2, <2>2, <3>1 DEF m
    <2> QED  BY <2>1, <2>2
  <1>15. new = IF follow /\ TRUE THEN {Len(issued) + 1} ELSE {}  BY <1>2 DEF new
  <1> QED  BY <1>1, <1>3, <1>13, <1>14, <1>15, InTurnOrder

LEMMA NextOrder == IInv /\ WaitInv /\ OrderInv /\ [Next]_vars => OrderInv'
  <1> SUFFICES ASSUME IInv, WaitInv, OrderInv, [Next]_vars PROVE OrderInv'  OBVIOUS
  <1>1. IInv'  BY NextInv
  <1>2. ASSUME UNCHANGED <<hl, sent, issued>> PROVE OrderInv'
    BY <1>2 DEF OrderInv, Increasing, Below, Id, SentInOrder, SentIds, Unsent
  <1>3. ASSUME NEW blocking \in BOOLEAN, Issue(blocking) PROVE OrderInv'
    BY <1>1, <1>3, IssueOrder
  <1>4. ASSUME NEW takes \in BOOLEAN, NEW follow \in BOOLEAN, NEW rx \in Receive,
               Quantum(takes, rx, follow)
        PROVE  OrderInv'
    BY <1>1, <1>4, QuantumOrder
  <1> QED  BY <1>2, <1>3, <1>4 DEF Next, GiveUp, SocReceive, SocAnswer, vars

\* However the TSNs wrap and whatever is received meanwhile, the blocking requests
\* are sent in the order they were issued, each once, and none is left out.
THEOREM BlockingSentInOrder == Spec => []BlockingInOrder
  <1>1. IInv /\ OrderInv => BlockingInOrder
    <2> SUFFICES ASSUME IInv, OrderInv PROVE BlockingInOrder  OBVIOUS
    <2>1. issued \in Seq(BOOLEAN) /\ sent \in Seq(Packet)  BY DEF IInv, TypeOK
    <2>2. /\ DOMAIN issued = 1..Len(issued) /\ Len(issued) \in Nat
          /\ DOMAIN sent = 1..Len(sent) /\ \A i \in 1..Len(sent) : sent[i] \in Packet
      BY <2>1, LenProperties, ElementOfSeq
    <2>3. \A i \in 1..Len(sent) : sent[i].blocking => sent[i].id \in SentIds
      BY <2>2 DEF SentIds, Packet
    <2>4. \A x \in SentIds : \E i \in 1..Len(sent) : sent[i].blocking /\ sent[i].id = x
      BY DEF SentIds
    <2>5. ASSUME NEW i \in 1..Len(sent), sent[i].blocking
          PROVE  sent[i].id \in 1..Len(issued) /\ issued[sent[i].id]
      BY <2>3, <2>5 DEF OrderInv
    <2>6. ASSUME NEW i \in 1..Len(sent), sent[i].blocking,
                 NEW k \in 1..Len(issued), issued[k], k < sent[i].id
          PROVE  \E j \in 1..Len(sent) : sent[j].blocking /\ sent[j].id = k
      <3>1. sent[i].id \in SentIds /\ sent[i].id \in 1..Len(issued)  BY <2>3, <2>5, <2>6
      <3>2. k \in SentIds \cup Unsent(hl)  BY <2>6 DEF OrderInv
      <3>3. k \notin Unsent(hl)
        <4>1. k \in Unsent(hl) => sent[i].id < k  BY <3>1 DEF OrderInv
        <4> QED  BY <2>2, <2>6, <3>1, <4>1
      <3> QED  BY <2>4, <3>2, <3>3
    <2>7. SentInOrder  BY DEF OrderInv
    <2> QED  BY <2>2, <2>5, <2>6, <2>7 DEF BlockingInOrder, SentInOrder
  <1>2. Spec => [](IInv /\ WaitInv /\ OrderInv)
    BY InitInv, NextInv, InitWaits, NextWaits, InitOrder, NextOrder, PTL DEF Spec
  <1> QED  BY <1>1, <1>2, PTL
=============================================================================
