---------------------------- MODULE NcpHL_proofs ----------------------------
(***************************************************************************)
(* Lemmas about the functions of the HL (NcpHL), for every size of the     *)
(* buffer pool and every TSN range: what each keeps of the context's       *)
(* consistency, and what it puts in the divider.                           *)
(***************************************************************************)
EXTENDS NcpHL, SequencesExt, SequenceTheorems, FiniteSetTheorems, WellFoundedInduction, TLAPS

(* The inductive invariant of the HL context, in terms of positions in the
   queues.  BuffersAccounted says the same of the concatenation of the two. *)
Distinct(h) == /\ \A i, j \in 1..Len(h.bq) : h.bq[i] = h.bq[j] => i = j
               /\ \A i, j \in 1..Len(h.nq) : h.nq[i] = h.nq[j] => i = j
               /\ \A i \in 1..Len(h.bq), j \in 1..Len(h.nq) : h.bq[i] # h.nq[j]

StatusFits(h) ==
  /\ \A i \in 1..Len(h.bq) : h.pool[h.bq[i]].status \in {"WAIT_SENDING", "WAIT_RESPONSE"}
  /\ \A i \in 2..Len(h.bq) : h.pool[h.bq[i]].status = "WAIT_SENDING"
  /\ \A i \in 1..Len(h.nq) : h.pool[h.nq[i]].status = "WAIT_SENDING"

InSeq(q, b) == \E i \in 1..Len(q) : q[i] = b

AllQueued(h) ==
  \A b \in Buf : h.pool[b].status # "FREE" => InSeq(h.bq, b) \/ InSeq(h.nq, b)

HLInv(h) == /\ h \in HLState
            /\ ~ h.aborted
            /\ ~ h.active => h.div = NoPkt
            /\ Distinct(h)
            /\ StatusFits(h)
            /\ AllQueued(h)

\* The same while buffer b is in no queue, whatever its status.
HLInvBut(h, b) == /\ h \in HLState
                  /\ ~ h.aborted
                  /\ ~ h.active => h.div = NoPkt
                  /\ Distinct(h)
                  /\ StatusFits(h)
                  /\ ~ InSeq(h.bq, b) /\ ~ InSeq(h.nq, b)
                  /\ \A c \in Buf \ {b} :
                       h.pool[c].status # "FREE" => InSeq(h.bq, c) \/ InSeq(h.nq, c)

\* What NoIdleWait says, of any HL context.
Busy(h) == h.active \/ (h.bq = << >> /\ h.nq = << >>)
           \/ (h.bq # << >> /\ h.pool[Head(h.bq)].status = "WAIT_RESPONSE")

----------------------------------------------------------------------------
(* Buffers and queues. *)

LEMMA BufFinite == IsFiniteSet(Buf) /\ Cardinality(Buf) = POOL_SIZE
  <1>1. POOL_SIZE \in Int /\ 1 \in Int /\ ~ (1 > POOL_SIZE)  BY HLConstants
  <1>2. IsFiniteSet(1..POOL_SIZE) /\ Cardinality(1..POOL_SIZE) = POOL_SIZE
    <2>1. /\ IsFiniteSet(1..POOL_SIZE)
          /\ Cardinality(1..POOL_SIZE) = IF 1 > POOL_SIZE THEN 0 ELSE POOL_SIZE - 1 + 1
      BY <1>1, FS_Interval
    <2> QED  BY <1>1, <2>1
  <1> QED  BY <1>2 DEF Buf

\* A queue of different buffers that leaves one out is not full.
LEMMA QueueHasRoom ==
  ASSUME NEW q \in Seq(Buf), \A i, j \in 1..Len(q) : q[i] = q[j] => i = j,
         NEW b \in Buf, ~ InSeq(q, b)
  PROVE  Len(q) < POOL_SIZE
  <1>1. Len(q) \in Nat /\ DOMAIN q = 1..Len(q) /\ q \in [1..Len(q) -> Buf]  BY LenProperties
  <1>2. \A i \in 1..Len(q) : q[i] \in Buf \ {b}  BY <1>1 DEF InSeq
  <1>3. q \in [1..Len(q) -> Buf \ {b}]  BY <1>1, <1>2
  <1>4. IsInjective(q)  BY <1>1 DEF IsInjective
  <1>5. q \in Injection(1..Len(q), Buf \ {b})  BY <1>3, <1>4 DEF Injection
  <1>6. IsFiniteSet(Buf \ {b}) /\ Cardinality(Buf \ {b}) = POOL_SIZE - 1
    BY BufFinite, FS_RemoveElement
  <1>7. Cardinality(1..Len(q)) <= POOL_SIZE - 1  BY <1>5, <1>6, FS_Injection
  <1>8. Cardinality(1..Len(q)) = IF 1 > Len(q) THEN 0 ELSE Len(q) - 1 + 1
    BY <1>1, FS_Interval
  <1> QED  BY <1>1, <1>7, <1>8, HLConstants

\* tx_buffer_find_free finds a free buffer if there is one.
LEMMA FindFreeIsFree ==
  ASSUME NEW h, FreeBufs(h) # {}
  PROVE  FindFree(h) \in FreeBufs(h)
  <1> DEFINE R == OpToRel(<, Nat)
  <1>1. FreeBufs(h) \subseteq Nat  BY HLConstants DEF FreeBufs, Buf
  <1>2. IsWellFoundedOn(R, Nat)  BY NatLessThanWellFounded
  <1>3. \A x, y \in Nat : <<y, x>> \in R <=> y < x  BY DEF OpToRel
  <1> HIDE DEF R
  <1>4. PICK b \in FreeBufs(h) : \A c \in FreeBufs(h) : <<c, b>> \notin R  BY <1>1, <1>2, WFMin
  <1>5. \A c \in FreeBufs(h) : ~ (c < b)  BY <1>1, <1>3, <1>4
  <1>6. \A c \in FreeBufs(h) : b <= c  BY <1>1, <1>5
  <1> QED  BY <1>6 DEF FindFree

\* Buffer b gets a status: nothing else changes.
LEMMA PoolUpdate ==
  ASSUME NEW h \in HLState, NEW b \in Buf, NEW x \in TxBuffer
  PROVE  LET u == [h EXCEPT !.pool[b] = x]
         IN /\ u \in HLState
            /\ u.bq = h.bq /\ u.nq = h.nq /\ u.active = h.active
            /\ u.div = h.div /\ u.aborted = h.aborted /\ u.tsn = h.tsn
            /\ u.pool[b] = x
            /\ \A c \in Buf \ {b} : u.pool[c] = h.pool[c]
  BY DEF HLState

LEMMA BufferTypes ==
  /\ FreeBuffer \in TxBuffer
  /\ NoPkt \in Packet
  /\ \A x \in TxBuffer, s \in BufStatus : [x EXCEPT !.status = s] \in TxBuffer
  /\ \A x \in TxBuffer, s \in BufStatus : [x EXCEPT !.status = s].status = s
  <1>1. 0 \in Tsn  BY HLConstants DEF Tsn
  <1>2. FreeBuffer \in TxBuffer /\ NoPkt \in Packet
    BY <1>1 DEF FreeBuffer, TxBuffer, NoPkt, Packet, BufStatus
  <1>3. \A x \in TxBuffer, s \in BufStatus : [x EXCEPT !.status = s] \in TxBuffer
    BY DEF TxBuffer
  <1>4. \A x \in TxBuffer, s \in BufStatus : [x EXCEPT !.status = s].status = s
    BY DEF TxBuffer
  <1> QED  BY <1>2, <1>3, <1>4

\* What a change outside the queues leaves alone.
LEMMA QueuesKept ==
  ASSUME NEW h, NEW u, NEW b \in Buf, HLInvBut(h, b),
         u \in HLState, ~ u.aborted, ~ u.active => u.div = NoPkt,
         u.bq = h.bq, u.nq = h.nq,
         \A c \in Buf \ {b} : u.pool[c] = h.pool[c]
  PROVE  HLInvBut(u, b)
  <1>1. /\ h \in HLState /\ Distinct(h) /\ StatusFits(h)
        /\ ~ InSeq(h.bq, b) /\ ~ InSeq(h.nq, b)
        /\ \A c \in Buf \ {b} : h.pool[c].status # "FREE" => InSeq(h.bq, c) \/ InSeq(h.nq, c)
    BY DEF HLInvBut
  <1>2. h.bq \in Seq(Buf) /\ h.nq \in Seq(Buf)  BY <1>1 DEF HLState
  <1>3. \A i \in 1..Len(h.bq) : h.bq[i] \in Buf \ {b}  BY <1>1, <1>2, ElementOfSeq DEF InSeq
  <1>4. \A i \in 1..Len(h.nq) : h.nq[i] \in Buf \ {b}  BY <1>1, <1>2, ElementOfSeq DEF InSeq
  <1>5. Len(h.bq) \in Nat  BY <1>2, LenProperties
  <1>6. StatusFits(u)  BY <1>1, <1>3, <1>4, <1>5 DEF StatusFits
  <1>7. Distinct(u)  BY <1>1 DEF Distinct
  <1>8. /\ ~ InSeq(u.bq, b) /\ ~ InSeq(u.nq, b)
        /\ \A c \in Buf \ {b} : u.pool[c].status # "FREE" => InSeq(u.bq, c) \/ InSeq(u.nq, c)
    BY <1>1
  <1> QED  BY <1>6, <1>7, <1>8 DEF HLInvBut

\* Freeing a buffer that is in no queue completes the invariant.
LEMMA FreeInv ==
  ASSUME NEW h, NEW b \in Buf, HLInvBut(h, b)
  PROVE  /\ HLInv(TxBufferFree(h, b))
         /\ TxBufferFree(h, b).bq = h.bq /\ TxBufferFree(h, b).nq = h.nq
         /\ TxBufferFree(h, b).active = h.active /\ TxBufferFree(h, b).div = h.div
  <1> DEFINE u == TxBufferFree(h, b)
  <1>1. h \in HLState /\ ~ h.aborted /\ (~ h.active => h.div = NoPkt)  BY DEF HLInvBut
  <1>2. /\ u \in HLState
        /\ u.bq = h.bq /\ u.nq = h.nq /\ u.active = h.active
        /\ u.div = h.div /\ u.aborted = h.aborted
        /\ u.pool[b] = FreeBuffer
        /\ \A c \in Buf \ {b} : u.pool[c] = h.pool[c]
    BY <1>1, BufferTypes, PoolUpdate DEF TxBufferFree
  <1> HIDE DEF u
  <1>3. HLInvBut(u, b)  BY <1>1, <1>2, QueuesKept
  <1>4. u.pool[b].status = "FREE"  BY <1>2 DEF FreeBuffer
  <1>5. AllQueued(u)  BY <1>3, <1>4 DEF AllQueued, HLInvBut
  <1>6. HLInv(u)  BY <1>3, <1>5 DEF HLInv, HLInvBut
  <1> QED  BY <1>2, <1>6 DEF u

LEMMA StatusUpdate ==
  ASSUME NEW h, NEW b \in Buf, HLInvBut(h, b), NEW s \in BufStatus
  PROVE  LET u == SetStatus(h, b, s)
         IN /\ HLInvBut(u, b)
            /\ u.bq = h.bq /\ u.nq = h.nq /\ u.active = h.active /\ u.div = h.div
            /\ u.pool[b].status = s
            /\ \A c \in Buf \ {b} : u.pool[c] = h.pool[c]
  <1> DEFINE u == SetStatus(h, b, s)
             x == [h.pool[b] EXCEPT !.status = s]
  <1>1. h \in HLState /\ ~ h.aborted /\ (~ h.active => h.div = NoPkt)  BY DEF HLInvBut
  <1>2. h.pool[b] \in TxBuffer  BY <1>1 DEF HLState
  <1>3. x \in TxBuffer /\ x.status = s  BY <1>2, BufferTypes
  <1>4. u = [h EXCEPT !.pool[b] = x]  BY <1>1 DEF SetStatus, HLState
  <1> HIDE DEF u, x
  <1>5. /\ u \in HLState
        /\ u.bq = h.bq /\ u.nq = h.nq /\ u.active = h.active
        /\ u.div = h.div /\ u.aborted = h.aborted
        /\ u.pool[b] = x
        /\ \A c \in Buf \ {b} : u.pool[c] = h.pool[c]
    BY <1>1, <1>3, <1>4, PoolUpdate
  <1>6. HLInvBut(u, b)  BY <1>1, <1>5, QueuesKept
  <1> QED  BY <1>3, <1>5, <1>6 DEF u

\* put_packet_in_queue always finds room in the blocking queue...
LEMMA PutBlockingInv ==
  ASSUME NEW h, NEW b \in Buf, HLInvBut(h, b),
         NEW s \in {"WAIT_SENDING", "WAIT_RESPONSE"}, s = "WAIT_RESPONSE" => h.bq = << >>,
         NEW w, w = PutInQueue(h, b, TRUE, s)
  PROVE  /\ HLInv(w)
         /\ h.active => w.active
         /\ Busy(h) /\ h.bq # << >> => Busy(w)
  <1> DEFINE u == SetStatus(h, b, s)
             q == Append(h.bq, b)
             v == [u EXCEPT !.bq = q]
  <1>1. /\ HLInvBut(u, b)
        /\ u.bq = h.bq /\ u.nq = h.nq /\ u.active = h.active /\ u.div = h.div
        /\ u.pool[b].status = s
        /\ \A c \in Buf \ {b} : u.pool[c] = h.pool[c]
    BY StatusUpdate DEF BufStatus
  <1>2. h \in HLState /\ Distinct(h) /\ ~ InSeq(h.bq, b)  BY DEF HLInvBut
  <1>3. h.bq \in Seq(Buf) /\ h.nq \in Seq(Buf)  BY <1>2 DEF HLState
  <1>4. Len(h.bq) < POOL_SIZE  BY <1>2, <1>3, QueueHasRoom DEF Distinct
  <1>5. w = v  BY <1>1, <1>4 DEF PutInQueue, Enqueue
  <1>6. /\ q \in Seq(Buf) /\ Len(q) = Len(h.bq) + 1 /\ Len(h.bq) \in Nat
        /\ \A i \in 1..Len(h.bq) : q[i] = h.bq[i]
        /\ q[Len(h.bq) + 1] = b
    BY <1>3, AppendProperties, LenProperties
  <1>7. /\ u \in HLState /\ ~ u.aborted /\ (~ u.active => u.div = NoPkt)
        /\ Distinct(u) /\ StatusFits(u) /\ ~ InSeq(u.bq, b) /\ ~ InSeq(u.nq, b)
        /\ \A c \in Buf \ {b} : u.pool[c].status # "FREE" => InSeq(u.bq, c) \/ InSeq(u.nq, c)
    BY <1>1 DEF HLInvBut
  <1> HIDE DEF u, q
  <1>8. /\ v \in HLState /\ v.bq = q /\ v.nq = h.nq /\ v.pool = u.pool
        /\ v.active = u.active /\ v.div = u.div /\ v.aborted = u.aborted
    BY <1>1, <1>6, <1>7 DEF HLState
  <1> HIDE DEF v
  <1>9. \A i \in 1..Len(q) : i \in 1..Len(h.bq) \/ i = Len(h.bq) + 1  BY <1>6
  <1>10. \A i \in 1..Len(h.bq) : h.bq[i] # b  BY <1>2 DEF InSeq
  <1>11. \A i \in 1..Len(h.nq) : h.nq[i] # b  BY <1>1, <1>7 DEF InSeq
  <1>12. Distinct(v)
    <2>1. \A i, j \in 1..Len(q) : q[i] = q[j] => i = j  BY <1>2, <1>6, <1>9, <1>10 DEF Distinct
    <2>2. \A i \in 1..Len(q), j \in 1..Len(h.nq) : q[i] # h.nq[j]
      BY <1>2, <1>6, <1>9, <1>11 DEF Distinct
    <2> QED  BY <1>2, <1>8, <2>1, <2>2 DEF Distinct
  <1>13. StatusFits(v)
    <2>1. \A i \in 1..Len(q) : v.pool[q[i]].status \in {"WAIT_SENDING", "WAIT_RESPONSE"}
      BY <1>1, <1>6, <1>7, <1>8, <1>9 DEF StatusFits
    <2>2. \A i \in 2..Len(q) : v.pool[q[i]].status = "WAIT_SENDING"
      <3> SUFFICES ASSUME NEW i \in 2..Len(q)
                   PROVE  v.pool[q[i]].status = "WAIT_SENDING"
        OBVIOUS
      <3>1. CASE i \in 2..Len(h.bq)  BY <3>1, <1>1, <1>6, <1>7, <1>8 DEF StatusFits
      <3>2. CASE i = Len(h.bq) + 1
        <4>1. Len(h.bq) # 0  BY <3>2, <1>6
        <4>2. s = "WAIT_SENDING"  BY <4>1
        <4> QED  BY <3>2, <4>2, <1>1, <1>6, <1>8
      <3> QED  BY <3>1, <3>2, <1>6
    <2> QED  BY <1>1, <1>7, <1>8, <2>1, <2>2 DEF StatusFits
  <1>14. AllQueued(v)
    <2> SUFFICES ASSUME NEW c \in Buf, v.pool[c].status # "FREE"
                 PROVE  InSeq(q, c) \/ InSeq(h.nq, c)
      BY <1>8 DEF AllQueued
    <2>1. CASE c = b  BY <2>1, <1>6 DEF InSeq
    <2>2. CASE c # b
      <3>1. InSeq(h.bq, c) \/ InSeq(h.nq, c)  BY <2>2, <1>1, <1>7, <1>8
      <3> QED  BY <3>1, <1>6 DEF InSeq
    <2> QED  BY <2>1, <2>2
  <1>15. HLInv(v)  BY <1>7, <1>8, <1>12, <1>13, <1>14 DEF HLInv
  <1>16. Busy(h) /\ h.bq # << >> => Busy(v)
    <2> SUFFICES ASSUME Busy(h), h.bq # << >> PROVE Busy(v)  OBVIOUS
    <2>1. Head(h.bq) \in Buf /\ Head(h.bq) = h.bq[1] /\ 1 \in 1..Len(h.bq)
      BY <1>3, HeadTailProperties, EmptySeq
    <2>2. Head(q) = Head(h.bq) /\ q # << >>  BY <1>3, HeadTailAppend, AppendProperties DEF q
    <2>3. Head(h.bq) # b  BY <1>10, <2>1
    <2>4. v.pool[Head(v.bq)] = h.pool[Head(h.bq)]  BY <1>1, <1>8, <2>1, <2>2, <2>3
    <2>5. v.bq # << >>  BY <1>8, <2>2
    <2> QED  BY <1>1, <1>8, <2>4, <2>5 DEF Busy
  <1> QED  BY <1>1, <1>5, <1>8, <1>15, <1>16

\* ... and in the nonblocking one.
LEMMA PutNonblockingInv ==
  ASSUME NEW h, NEW b \in Buf, HLInvBut(h, b),
         NEW w, w = PutInQueue(h, b, FALSE, "WAIT_SENDING")
  PROVE  HLInv(w) /\ (h.active => w.active)
  <1> DEFINE s == "WAIT_SENDING"
             u == SetStatus(h, b, s)
             q == Append(h.nq, b)
             v == [u EXCEPT !.nq = q]
  <1>1. /\ HLInvBut(u, b)
        /\ u.bq = h.bq /\ u.nq = h.nq /\ u.active = h.active /\ u.div = h.div
        /\ u.pool[b].status = s
        /\ \A c \in Buf \ {b} : u.pool[c] = h.pool[c]
    BY StatusUpdate DEF BufStatus
  <1>2. h \in HLState /\ Distinct(h) /\ ~ InSeq(h.nq, b)  BY DEF HLInvBut
  <1>3. h.bq \in Seq(Buf) /\ h.nq \in Seq(Buf)  BY <1>2 DEF HLState
  <1>4. Len(h.nq) < POOL_SIZE  BY <1>2, <1>3, QueueHasRoom DEF Distinct
  <1>5. w = v  BY <1>1, <1>4 DEF PutInQueue, Enqueue
  <1>6. /\ q \in Seq(Buf) /\ Len(q) = Len(h.nq) + 1 /\ Len(h.nq) \in Nat
        /\ \A i \in 1..Len(h.nq) : q[i] = h.nq[i]
        /\ q[Len(h.nq) + 1] = b
    BY <1>3, AppendProperties, LenProperties
  <1>7. /\ u \in HLState /\ ~ u.aborted /\ (~ u.active => u.div = NoPkt)
        /\ Distinct(u) /\ StatusFits(u) /\ ~ InSeq(u.bq, b) /\ ~ InSeq(u.nq, b)
        /\ \A c \in Buf \ {b} : u.pool[c].status # "FREE" => InSeq(u.bq, c) \/ InSeq(u.nq, c)
    BY <1>1 DEF HLInvBut
  <1> HIDE DEF u, q
  <1>8. /\ v \in HLState /\ v.nq = q /\ v.bq = h.bq /\ v.pool = u.pool
        /\ v.active = u.active /\ v.div = u.div /\ v.aborted = u.aborted
    BY <1>1, <1>6, <1>7 DEF HLState
  <1> HIDE DEF v
  <1>9. \A i \in 1..Len(q) : i \in 1..Len(h.nq) \/ i = Len(h.nq) + 1  BY <1>6
  <1>10. \A i \in 1..Len(h.nq) : h.nq[i] # b  BY <1>2 DEF InSeq
  <1>11. \A i \in 1..Len(h.bq) : h.bq[i] # b  BY <1>1, <1>7 DEF InSeq
  <1>12. Distinct(v)
    <2>1. \A i, j \in 1..Len(q) : q[i] = q[j] => i = j  BY <1>2, <1>6, <1>9, <1>10 DEF Distinct
    <2>2. \A i \in 1..Len(h.bq), j \in 1..Len(q) : h.bq[i] # q[j]
      BY <1>2, <1>6, <1>9, <1>11 DEF Distinct
    <2> QED  BY <1>2, <1>8, <2>1, <2>2 DEF Distinct
  <1>13. StatusFits(v)
    <2>1. \A i \in 1..Len(q) : v.pool[q[i]].status = "WAIT_SENDING"
      BY <1>1, <1>6, <1>7, <1>8, <1>9 DEF StatusFits
    <2> QED  BY <1>1, <1>7, <1>8, <2>1 DEF StatusFits
  <1>14. AllQueued(v)
    <2> SUFFICES ASSUME NEW c \in Buf, v.pool[c].status # "FREE"
                 PROVE  InSeq(h.bq, c) \/ InSeq(q, c)
      BY <1>8 DEF AllQueued
    <2>1. CASE c = b  BY <2>1, <1>6 DEF InSeq
    <2>2. CASE c # b
      <3>1. InSeq(h.bq, c) \/ InSeq(h.nq, c)  BY <2>2, <1>1, <1>7, <1>8
      <3> QED  BY <3>1, <1>6 DEF InSeq
    <2> QED  BY <2>1, <2>2
  <1>15. HLInv(v)  BY <1>7, <1>8, <1>12, <1>13, <1>14 DEF HLInv
  <1> QED  BY <1>1, <1>5, <1>8, <1>15

----------------------------------------------------------------------------
(* Sending. *)

\* A packet given to an idle LL goes into the divider, and nothing else changes.
LEMMA LLSendInv ==
  ASSUME NEW h, NEW b \in Buf, NEW c \in Buf, NEW blocking \in BOOLEAN,
         h \in HLState, ~ h.aborted, h.div = NoPkt,
         NEW u, u = [LLSendPacket(h, c, blocking) EXCEPT !.active = TRUE]
  PROVE  /\ HLInvBut(h, b) => HLInvBut(u, b)
         /\ u \in HLState /\ ~ u.aborted /\ u.active
         /\ u.bq = h.bq /\ u.nq = h.nq /\ u.pool = h.pool
  <1> DEFINE pkt == [id |-> h.pool[c].id, tsn |-> h.pool[c].tsn, blocking |-> blocking]
  <1>1. pkt \in Packet  BY DEF HLState, TxBuffer, Packet
  <1>2. LLSendPacket(h, c, blocking) = [h EXCEPT !.div = pkt]  BY DEF LLSendPacket
  <1> HIDE DEF pkt
  <1>3. /\ u \in HLState /\ ~ u.aborted /\ u.active
        /\ u.bq = h.bq /\ u.nq = h.nq /\ u.pool = h.pool
    BY <1>1, <1>2 DEF HLState
  <1>4. HLInvBut(h, b) => HLInvBut(u, b)  BY <1>3, QueuesKept
  <1> QED  BY <1>3, <1>4

\* The same of an LL context with all its buffers accounted for.
LEMMA LLSendKeeps ==
  ASSUME NEW h, HLInv(h), h.div = NoPkt, NEW c \in Buf, NEW blocking \in BOOLEAN,
         NEW u, u = [LLSendPacket(h, c, blocking) EXCEPT !.active = TRUE]
  PROVE  HLInv(u) /\ u.active
  <1> DEFINE pkt == [id |-> h.pool[c].id, tsn |-> h.pool[c].tsn, blocking |-> blocking]
  <1>1. h \in HLState /\ ~ h.aborted  BY DEF HLInv
  <1>2. pkt \in Packet  BY <1>1 DEF HLState, TxBuffer, Packet
  <1>3. LLSendPacket(h, c, blocking) = [h EXCEPT !.div = pkt]  BY DEF LLSendPacket
  <1> HIDE DEF pkt
  <1>4. /\ u \in HLState /\ ~ u.aborted /\ u.active
        /\ u.bq = h.bq /\ u.nq = h.nq /\ u.pool = h.pool
    BY <1>1, <1>2, <1>3 DEF HLState
  <1> QED  BY <1>4 DEF HLInv, Distinct, StatusFits, AllQueued

\* get_request_buffer takes a free buffer, which no queue holds.
LEMMA GetRequestBufferInv ==
  ASSUME NEW h, HLInv(h), NEW b \in FreeBufs(h), NEW blocking \in BOOLEAN, NEW id \in Nat
  PROVE  LET u == GetRequestBuffer(h, b, blocking, id)
         IN /\ HLInvBut(u, b)
            /\ u.bq = h.bq /\ u.nq = h.nq /\ u.active = h.active /\ u.div = h.div
            /\ u.pool[b].status = IF blocking THEN "RESERVED_BLOCKING" ELSE "RESERVED_NONBLOCKING"
            /\ \A c \in Buf \ {b} : u.pool[c] = h.pool[c]
  <1> DEFINE st == IF blocking THEN "RESERVED_BLOCKING" ELSE "RESERVED_NONBLOCKING"
             x == [status |-> st, tsn |-> NextTsn(h.tsn), id |-> id]
             u == GetRequestBuffer(h, b, blocking, id)
  <1>1. /\ h \in HLState /\ Distinct(h) /\ StatusFits(h) /\ AllQueued(h)
        /\ ~ h.aborted /\ (~ h.active => h.div = NoPkt)
    BY DEF HLInv
  <1>2. b \in Buf /\ h.pool[b].status = "FREE"  BY DEF FreeBufs
  <1>3. h.tsn \in Tsn  BY <1>1 DEF HLState
  <1>4. NextTsn(h.tsn) \in Tsn  BY <1>3, HLConstants DEF NextTsn, Tsn
  <1>5. st \in BufStatus  BY DEF BufStatus
  <1>6. x \in TxBuffer /\ x.status = st  BY <1>4, <1>5 DEF TxBuffer
  <1>7. u = [h EXCEPT !.tsn = NextTsn(h.tsn), !.pool[b] = x]  BY DEF GetRequestBuffer
  <1> HIDE DEF u, x, st
  <1>8. /\ u \in HLState
        /\ u.bq = h.bq /\ u.nq = h.nq /\ u.active = h.active
        /\ u.div = h.div /\ u.aborted = h.aborted
        /\ u.pool[b] = x
        /\ \A c \in Buf \ {b} : u.pool[c] = h.pool[c]
    BY <1>1, <1>2, <1>4, <1>6, <1>7 DEF HLState
  <1>9. ~ InSeq(h.bq, b) /\ ~ InSeq(h.nq, b)  BY <1>1, <1>2 DEF StatusFits, InSeq
  <1>10. HLInvBut(h, b)  BY <1>1, <1>9 DEF HLInvBut, AllQueued
  <1>11. HLInvBut(u, b)  BY <1>1, <1>2, <1>8, <1>10, QueuesKept
  <1> QED  BY <1>6, <1>8, <1>11 DEF u, st

\* A request is queued or sent; either way it is accounted for, and a reason for
\* waiting remains.
LEMMA SendPacketInv ==
  ASSUME NEW h, NEW b \in Buf, HLInvBut(h, b),
         h.pool[b].status \in {"RESERVED_BLOCKING", "RESERVED_NONBLOCKING"}
  PROVE  /\ HLInv(SendPacket(h, b))
         /\ Busy(h) => Busy(SendPacket(h, b))
  <1> DEFINE blocking == h.pool[b].status = "RESERVED_BLOCKING"
             v == SendPacket(h, b)
  <1>1. h \in HLState /\ ~ h.aborted /\ (~ h.active => h.div = NoPkt)  BY DEF HLInvBut
  <1>3. v = IF MustQueue(h, blocking) THEN PutInQueue(h, b, blocking, "WAIT_SENDING")
            ELSE SendDirectly(h, b, blocking)
    BY DEF SendPacket
  <1>4. blocking \in BOOLEAN  OBVIOUS
  <1> HIDE DEF v, blocking
  <1>5. CASE MustQueue(h, blocking) /\ blocking
    <2>1. v = PutInQueue(h, b, TRUE, "WAIT_SENDING")  BY <1>3, <1>4, <1>5
    <2>2. h.active \/ h.bq # << >>  BY <1>5 DEF MustQueue
    <2>3. HLInv(v) /\ (h.active => v.active)  BY <2>1, PutBlockingInv
    <2>4. Busy(h) /\ h.bq # << >> => Busy(v)  BY <2>1, PutBlockingInv
    <2> QED  BY <2>2, <2>3, <2>4 DEF Busy, v
  <1>6. CASE MustQueue(h, blocking) /\ ~ blocking
    <2>1. v = PutInQueue(h, b, FALSE, "WAIT_SENDING")  BY <1>3, <1>4, <1>6
    <2>2. h.active  BY <1>6 DEF MustQueue
    <2> QED  BY <2>1, <2>2, PutNonblockingInv DEF Busy, v
  <1>7. CASE ~ MustQueue(h, blocking)
    <2> DEFINE u == [LLSendPacket(h, b, blocking) EXCEPT !.active = TRUE]
    <2>1. ~ h.active /\ (blocking => h.bq = << >>)  BY <1>7 DEF MustQueue
    <2>6. u = [LLSendPacket(h, b, blocking) EXCEPT !.active = TRUE]  OBVIOUS
    <2>7. h.div = NoPkt  BY <1>1, <2>1
    <2> HIDE DEF u
    <2>8. HLInvBut(u, b)  BY <1>1, <1>4, <2>6, <2>7, LLSendInv
    <2>9. u.active  BY <1>1, <1>4, <2>6, <2>7, LLSendInv
    <2>10. u.bq = h.bq  BY <1>1, <2>6, <2>7 DEF LLSendPacket, HLState
    <2>2. HLInvBut(u, b) /\ u.active /\ u.bq = h.bq  BY <2>8, <2>9, <2>10
    <2>3. v = IF blocking THEN PutInQueue(u, b, TRUE, "WAIT_RESPONSE") ELSE TxBufferFree(u, b)
      BY <1>3, <1>7, <2>6 DEF SendDirectly
    <2>4. CASE blocking
      <3>1. v = PutInQueue(u, b, TRUE, "WAIT_RESPONSE") /\ u.bq = << >>
        BY <2>1, <2>2, <2>3, <2>4
      <3> QED  BY <3>1, <2>2, PutBlockingInv DEF Busy, v
    <2>5. CASE ~ blocking
      <3>1. v = TxBufferFree(u, b)  BY <2>3, <2>5
      <3> QED  BY <3>1, <2>2, FreeInv DEF Busy, v
    <2> QED  BY <1>4, <2>4, <2>5
  <1> QED  BY <1>4, <1>5, <1>6, <1>7

LEMMA RequestInv ==
  ASSUME NEW h, HLInv(h), FreeBufs(h) # {}, NEW blocking \in BOOLEAN, NEW id \in Nat
  PROVE  /\ HLInv(Request(h, blocking, id))
         /\ Busy(h) => Busy(Request(h, blocking, id))
  <1> DEFINE b == FindFree(h)
             u == GetRequestBuffer(h, b, blocking, id)
  <1>1. b \in FreeBufs(h)  BY FindFreeIsFree
  <1>2. b \in Buf /\ h.pool[b].status = "FREE"  BY <1>1 DEF FreeBufs
  <1> HIDE DEF b
  <1>3. /\ HLInvBut(u, b)
        /\ u.bq = h.bq /\ u.nq = h.nq /\ u.active = h.active
        /\ u.pool[b].status \in {"RESERVED_BLOCKING", "RESERVED_NONBLOCKING"}
        /\ \A c \in Buf \ {b} : u.pool[c] = h.pool[c]
    BY <1>1, GetRequestBufferInv
  <1> HIDE DEF u
  <1>4. Busy(h) => Busy(u)
    <2>1. h.bq \in Seq(Buf)  BY DEF HLInv, HLState
    <2>2. h.bq # << >> => Head(h.bq) \in Buf  BY <2>1, HeadTailProperties
    <2> QED  BY <1>2, <1>3, <2>2 DEF Busy
  <1>5. Request(h, blocking, id) = SendPacket(u, b)  BY DEF Request, u, b
  <1> QED  BY <1>2, <1>3, <1>4, <1>5, SendPacketInv

----------------------------------------------------------------------------
(* A quantum. *)

\* What is left when the head of a queue is taken off.
LEMMA BlockingHeadOff ==
  ASSUME NEW h, HLInv(h), h.bq # << >>
  PROVE  /\ Head(h.bq) \in Buf
         /\ HLInvBut([h EXCEPT !.bq = Tail(h.bq)], Head(h.bq))
  <1> DEFINE b == Head(h.bq)
             q == Tail(h.bq)
             u == [h EXCEPT !.bq = q]
  <1>1. /\ h \in HLState /\ ~ h.aborted /\ (~ h.active => h.div = NoPkt)
        /\ Distinct(h) /\ StatusFits(h) /\ AllQueued(h)
    BY DEF HLInv
  <1>2. h.bq \in Seq(Buf) /\ h.nq \in Seq(Buf)  BY <1>1 DEF HLState
  <1>3. /\ b \in Buf /\ b = h.bq[1] /\ 1 \in 1..Len(h.bq)
        /\ q \in Seq(Buf) /\ Len(h.bq) \in Nat /\ Len(q) = Len(h.bq) - 1
        /\ \A i \in 1..Len(q) : q[i] = h.bq[i + 1]
    BY <1>2, HeadTailProperties, EmptySeq, LenProperties
  <1> HIDE DEF b, q
  <1>4. /\ u \in HLState /\ u.bq = q /\ u.nq = h.nq /\ u.pool = h.pool
        /\ u.active = h.active /\ u.div = h.div /\ u.aborted = h.aborted
    BY <1>1, <1>3 DEF HLState
  <1> HIDE DEF u
  <1>5. \A i \in 1..Len(q) : i + 1 \in 2..Len(h.bq) /\ i + 1 \in 1..Len(h.bq)  BY <1>3
  <1>6. Distinct(u)
    <2>1. \A i, j \in 1..Len(q) : q[i] = q[j] => i = j
      <3> SUFFICES ASSUME NEW i \in 1..Len(q), NEW j \in 1..Len(q), q[i] = q[j]
                   PROVE  i = j
        OBVIOUS
      <3>1. h.bq[i + 1] = h.bq[j + 1]  BY <1>3
      <3>2. i + 1 = j + 1  BY <1>1, <1>5, <3>1 DEF Distinct
      <3> QED  BY <1>3, <3>2
    <2>2. \A i \in 1..Len(q), j \in 1..Len(h.nq) : q[i] # h.nq[j]
      BY <1>1, <1>3, <1>5 DEF Distinct
    <2> QED  BY <1>1, <1>4, <2>1, <2>2 DEF Distinct
  <1>7. StatusFits(u)
    <2>1. \A i \in 1..Len(q) : u.pool[q[i]].status = "WAIT_SENDING"
      BY <1>1, <1>3, <1>4, <1>5 DEF StatusFits
    <2>2. \A i \in 2..Len(q) : i \in 1..Len(q)  OBVIOUS
    <2> QED  BY <1>1, <1>4, <2>1, <2>2 DEF StatusFits
  <1>8. ~ InSeq(q, b)
    <2> SUFFICES ASSUME NEW i \in 1..Len(q), q[i] = b PROVE FALSE  BY DEF InSeq
    <2>1. h.bq[i + 1] = h.bq[1]  BY <1>3
    <2>2. i + 1 = 1  BY <1>1, <1>3, <1>5, <2>1 DEF Distinct
    <2> QED  BY <1>3, <2>2
  <1>9. ~ InSeq(h.nq, b)  BY <1>1, <1>3 DEF InSeq, Distinct
  <1>10. ASSUME NEW c \in Buf \ {b}, h.pool[c].status # "FREE"
         PROVE  InSeq(q, c) \/ InSeq(h.nq, c)
    <2>1. CASE InSeq(h.nq, c)  BY <2>1
    <2>2. CASE InSeq(h.bq, c)
      <3>1. PICK i \in 1..Len(h.bq) : h.bq[i] = c  BY <2>2 DEF InSeq
      <3>2. i # 1  BY <1>3, <3>1
      <3>3. i - 1 \in 1..Len(q) /\ (i - 1) + 1 = i  BY <1>3, <3>1, <3>2
      <3>4. q[i - 1] = c  BY <1>3, <3>1, <3>3
      <3> QED  BY <3>3, <3>4 DEF InSeq
    <2> QED  BY <1>1, <1>10, <2>1, <2>2 DEF AllQueued
  <1>11. HLInvBut(u, b)  BY <1>1, <1>4, <1>6, <1>7, <1>8, <1>9, <1>10 DEF HLInvBut
  <1> QED  BY <1>3, <1>11 DEF u, b, q

LEMMA NonblockingHeadOff ==
  ASSUME NEW h, HLInv(h), h.nq # << >>
  PROVE  /\ Head(h.nq) \in Buf
         /\ HLInvBut([h EXCEPT !.nq = Tail(h.nq)], Head(h.nq))
  <1> DEFINE b == Head(h.nq)
             q == Tail(h.nq)
             u == [h EXCEPT !.nq = q]
  <1>1. /\ h \in HLState /\ ~ h.aborted /\ (~ h.active => h.div = NoPkt)
        /\ Distinct(h) /\ StatusFits(h) /\ AllQueued(h)
    BY DEF HLInv
  <1>2. h.bq \in Seq(Buf) /\ h.nq \in Seq(Buf)  BY <1>1 DEF HLState
  <1>3. /\ b \in Buf /\ b = h.nq[1] /\ 1 \in 1..Len(h.nq)
        /\ q \in Seq(Buf) /\ Len(h.nq) \in Nat /\ Len(q) = Len(h.nq) - 1
        /\ \A i \in 1..Len(q) : q[i] = h.nq[i + 1]
    BY <1>2, HeadTailProperties, EmptySeq, LenProperties
  <1> HIDE DEF b, q
  <1>4. /\ u \in HLState /\ u.nq = q /\ u.bq = h.bq /\ u.pool = h.pool
        /\ u.active = h.active /\ u.div = h.div /\ u.aborted = h.aborted
    BY <1>1, <1>3 DEF HLState
  <1> HIDE DEF u
  <1>5. \A i \in 1..Len(q) : i + 1 \in 1..Len(h.nq)  BY <1>3
  <1>6. Distinct(u)
    <2>1. \A i, j \in 1..Len(q) : q[i] = q[j] => i = j
      <3> SUFFICES ASSUME NEW i \in 1..Len(q), NEW j \in 1..Len(q), q[i] = q[j]
                   PROVE  i = j
        OBVIOUS
      <3>1. h.nq[i + 1] = h.nq[j + 1]  BY <1>3
      <3>2. i + 1 = j + 1  BY <1>1, <1>5, <3>1 DEF Distinct
      <3> QED  BY <1>3, <3>2
    <2>2. \A i \in 1..Len(h.bq), j \in 1..Len(q) : h.bq[i] # q[j]
      BY <1>1, <1>3, <1>5 DEF Distinct
    <2> QED  BY <1>1, <1>4, <2>1, <2>2 DEF Distinct
  <1>7. StatusFits(u)
    <2>1. \A i \in 1..Len(q) : u.pool[q[i]].status = "WAIT_SENDING"
      BY <1>1, <1>3, <1>4, <1>5 DEF StatusFits
    <2> QED  BY <1>1, <1>4, <2>1 DEF StatusFits
  <1>8. ~ InSeq(q, b)
    <2> SUFFICES ASSUME NEW i \in 1..Len(q), q[i] = b PROVE FALSE  BY DEF InSeq
    <2>1. h.nq[i + 1] = h.nq[1]  BY <1>3
    <2>2. i + 1 = 1  BY <1>1, <1>3, <1>5, <2>1 DEF Distinct
    <2> QED  BY <1>3, <2>2
  <1>9. ~ InSeq(h.bq, b)  BY <1>1, <1>3 DEF InSeq, Distinct
  <1>10. ASSUME NEW c \in Buf \ {b}, h.pool[c].status # "FREE"
         PROVE  InSeq(h.bq, c) \/ InSeq(q, c)
    <2>1. CASE InSeq(h.bq, c)  BY <2>1
    <2>2. CASE InSeq(h.nq, c)
      <3>1. PICK i \in 1..Len(h.nq) : h.nq[i] = c  BY <2>2 DEF InSeq
      <3>2. i # 1  BY <1>3, <3>1
      <3>3. i - 1 \in 1..Len(q) /\ (i - 1) + 1 = i  BY <1>3, <3>1, <3>2
      <3>4. q[i - 1] = c  BY <1>3, <3>1, <3>3
      <3> QED  BY <3>3, <3>4 DEF InSeq
    <2> QED  BY <1>1, <1>10, <2>1, <2>2 DEF AllQueued
  <1>11. HLInvBut(u, b)  BY <1>1, <1>4, <1>6, <1>7, <1>8, <1>9, <1>10 DEF HLInvBut
  <1> QED  BY <1>3, <1>11 DEF u, b, q

\* ncp_host_mark_blocking_request_finished
LEMMA MarkFinishedInv ==
  ASSUME NEW h, HLInv(h)
  PROVE  HLInv(MarkFinished(h))
  <1>1. CASE h.bq = << >>  BY <1>1 DEF MarkFinished
  <1>2. CASE h.bq # << >>
    <2> DEFINE b == Head(h.bq)
               u == [h EXCEPT !.bq = Tail(h.bq)]
    <2>1. b \in Buf /\ HLInvBut(u, b)  BY <1>2, BlockingHeadOff
    <2>2. h \in HLState  BY DEF HLInv
    <2>3. MarkFinished(h) = TxBufferFree(u, b)
      BY <1>2, <2>1, <2>2 DEF MarkFinished, TxBufferFree, HLState
    <2> HIDE DEF b, u
    <2> QED  BY <2>1, <2>3, FreeInv
  <1> QED  BY <1>1, <1>2

\* tx_ready_cb, called with an empty divider: afterwards no request waits
\* without a reason.
LEMMA TxReadyInv ==
  ASSUME NEW h, HLInv(h), h.div = NoPkt
  PROVE  HLInv(TxReady(h)) /\ Busy(TxReady(h))
  <1> DEFINE u == [h EXCEPT !.active = FALSE]
             n == Head(h.nq)
             b == Head(h.bq)
             v == TxReady(h)
  <1>1. h \in HLState /\ ~ h.aborted /\ StatusFits(h)  BY DEF HLInv
  <1>2. h.bq \in Seq(Buf) /\ h.nq \in Seq(Buf)  BY <1>1 DEF HLState
  <1>3. /\ u \in HLState /\ u.bq = h.bq /\ u.nq = h.nq /\ u.pool = h.pool
        /\ u.div = NoPkt /\ ~ u.aborted /\ ~ u.active
    BY <1>1 DEF HLState
  <1> HIDE DEF u
  <1>4. HLInv(u)  BY <1>3 DEF HLInv, Distinct, StatusFits, AllQueued
  <1>5. CASE NonblockingFirst(h)
    <2> DEFINE w == [LLSendPacket(u, n, FALSE) EXCEPT !.active = TRUE]
               x == [w EXCEPT !.nq = Tail(w.nq)]
    <2>1. h.nq # << >> /\ n \in Buf  BY <1>2, <1>5, HeadTailProperties DEF NonblockingFirst
    <2>2. w = [LLSendPacket(u, n, FALSE) EXCEPT !.active = TRUE]  OBVIOUS
    <2>3. v = [TxBufferFree(LLSendPacket(u, n, FALSE), n) EXCEPT !.nq = Tail(@), !.active = TRUE]
      BY <1>5 DEF TxReady, u
    <2>4. LLSendPacket(u, n, FALSE) \in HLState
      <3>1. [id |-> u.pool[n].id, tsn |-> u.pool[n].tsn, blocking |-> FALSE] \in Packet
        BY <1>3, <2>1 DEF HLState, TxBuffer, Packet
      <3> QED  BY <1>3, <3>1 DEF LLSendPacket, HLState
    <2>5. v = TxBufferFree(x, n)  BY <2>3, <2>4 DEF TxBufferFree, HLState
    <2> HIDE DEF w
    <2>6. HLInv(w)  BY <1>3, <1>4, <2>1, <2>2, LLSendKeeps
    <2>7. w.active  BY <1>3, <1>4, <2>1, <2>2, LLSendKeeps
    <2>8. w.nq = h.nq  BY <1>3, <2>2 DEF LLSendPacket, HLState
    <2>9. HLInvBut(x, n)  BY <2>1, <2>6, <2>8, NonblockingHeadOff
    <2>10. x.active  BY <2>6, <2>7 DEF HLInv, HLState
    <2> HIDE DEF x
    <2>11. HLInv(v)  BY <2>1, <2>5, <2>9, FreeInv
    <2>12. v.active  BY <2>1, <2>5, <2>9, <2>10, FreeInv
    <2> QED  BY <2>11, <2>12 DEF Busy
  <1>6. CASE ~ NonblockingFirst(h) /\ h.bq # << >> /\ h.pool[b].status = "WAIT_SENDING"
    <2> DEFINE w == [LLSendPacket(u, b, TRUE) EXCEPT !.active = TRUE]
    <2>1. /\ b \in Buf /\ b = h.bq[1] /\ 1 \in 1..Len(h.bq)
      BY <1>2, <1>6, HeadTailProperties, EmptySeq
    <2>2. w = [LLSendPacket(u, b, TRUE) EXCEPT !.active = TRUE]  OBVIOUS
    <2>3. LLSendPacket(u, b, TRUE) \in HLState
      <3>1. [id |-> u.pool[b].id, tsn |-> u.pool[b].tsn, blocking |-> TRUE] \in Packet
        BY <1>3, <2>1 DEF HLState, TxBuffer, Packet
      <3> QED  BY <1>3, <3>1 DEF LLSendPacket, HLState
    <2>4. v = [SetStatus(LLSendPacket(u, b, TRUE), b, "WAIT_RESPONSE") EXCEPT !.active = TRUE]
      BY <1>6 DEF TxReady, u
    <2>5. v = [w EXCEPT !.pool[b].status = "WAIT_RESPONSE"]
      BY <2>3, <2>4 DEF SetStatus, HLState
    <2> HIDE DEF w
    <2>6. HLInv(w)  BY <1>3, <1>4, <2>1, <2>2, LLSendKeeps
    <2>7. w.active  BY <1>3, <1>4, <2>1, <2>2, LLSendKeeps
    <2>8. w.bq = h.bq  BY <1>3, <2>2 DEF LLSendPacket, HLState
    <2> DEFINE x == [w.pool[b] EXCEPT !.status = "WAIT_RESPONSE"]
    <2>9. w \in HLState  BY <2>6 DEF HLInv
    <2>10. x \in TxBuffer /\ x.status = "WAIT_RESPONSE"
      <3>1. w.pool[b] \in TxBuffer  BY <2>1, <2>9 DEF HLState
      <3> QED  BY <3>1, BufferTypes DEF BufStatus
    <2>11. v = [w EXCEPT !.pool[b] = x]  BY <2>1, <2>5, <2>9 DEF HLState
    <2> HIDE DEF x, v
    <2>12. /\ v \in HLState
           /\ v.bq = w.bq /\ v.nq = w.nq /\ v.active = w.active
           /\ v.div = w.div /\ v.aborted = w.aborted
           /\ v.pool[b] = x
           /\ \A c \in Buf \ {b} : v.pool[c] = w.pool[c]
      BY <2>1, <2>9, <2>10, <2>11, PoolUpdate
    <2>13. /\ ~ w.aborted /\ Distinct(w) /\ StatusFits(w) /\ AllQueued(w)
      BY <2>6 DEF HLInv
    <2>14. Distinct(v)  BY <2>12, <2>13 DEF Distinct
    <2>15. StatusFits(v)
      <3>1. \A i \in 1..Len(w.bq) : i # 1 => i \in 2..Len(w.bq)  OBVIOUS
      <3>2. \A i \in 2..Len(w.bq) : i \in 1..Len(w.bq) /\ i # 1  OBVIOUS
      <3>3. w.bq \in Seq(Buf) /\ w.nq \in Seq(Buf)  BY <2>9 DEF HLState
      <3>4. \A i \in 2..Len(w.bq) : w.bq[i] \in Buf \ {b}
        BY <2>1, <2>8, <2>13, <3>2, <3>3, ElementOfSeq DEF Distinct
      <3>5. \A i \in 1..Len(w.nq) : w.nq[i] \in Buf \ {b}
        BY <2>1, <2>8, <2>13, <3>3, ElementOfSeq DEF Distinct
      <3>6. \A i \in 2..Len(w.bq) : v.pool[w.bq[i]].status = "WAIT_SENDING"
        BY <2>12, <2>13, <3>4 DEF StatusFits
      <3>7. \A i \in 1..Len(w.nq) : v.pool[w.nq[i]].status = "WAIT_SENDING"
        BY <2>12, <2>13, <3>5 DEF StatusFits
      <3>8. v.pool[w.bq[1]].status = "WAIT_RESPONSE"  BY <2>1, <2>8, <2>10, <2>12
      <3> QED  BY <2>12, <3>1, <3>6, <3>7, <3>8 DEF StatusFits
    <2>16. AllQueued(v)
      <3>1. InSeq(w.bq, b)  BY <2>1, <2>8 DEF InSeq
      <3> QED  BY <2>12, <2>13, <3>1 DEF AllQueued
    <2>17. v.active  BY <2>7, <2>12
    <2>18. HLInv(v)  BY <2>12, <2>13, <2>14, <2>15, <2>16, <2>17 DEF HLInv
    <2> QED  BY <2>17, <2>18 DEF Busy, v
  <1>7. CASE /\ ~ NonblockingFirst(h)
             /\ ~ (h.bq # << >> /\ h.pool[b].status = "WAIT_SENDING")
    <2>1. v = u  BY <1>7 DEF TxReady, u
    <2>2. CASE h.bq = << >>
      <3>1. h.nq = << >>  BY <1>7, <2>2 DEF NonblockingFirst
      <3> QED  BY <1>3, <1>4, <2>1, <2>2, <3>1 DEF Busy
    <2>3. CASE h.bq # << >>
      <3>1. b = h.bq[1] /\ 1 \in 1..Len(h.bq)  BY <1>2, <2>3, HeadTailProperties, EmptySeq
      <3>2. h.pool[b].status = "WAIT_RESPONSE"  BY <1>1, <1>7, <2>3, <3>1 DEF StatusFits
      <3> QED  BY <1>3, <1>4, <2>1, <2>3, <3>2 DEF Busy
    <2> QED  BY <2>2, <2>3
  <1> QED  BY <1>5, <1>6, <1>7

LEMMA EndOfQuantumInv ==
  ASSUME NEW h, HLInv(h), NEW takes \in BOOLEAN
  PROVE  HLInv(EndOfQuantum(h, takes)) /\ Busy(EndOfQuantum(h, takes))
  <1> DEFINE u == IF takes THEN [h EXCEPT !.div = NoPkt] ELSE h
  <1>1. HLInv(u)
    <2>1. CASE takes
      <3>1. h \in HLState  BY DEF HLInv
      <3>2. /\ u \in HLState /\ u.bq = h.bq /\ u.nq = h.nq /\ u.pool = h.pool
            /\ u.div = NoPkt /\ u.aborted = h.aborted
        BY <2>1, <3>1, BufferTypes DEF HLState
      <3> HIDE DEF u
      <3> QED  BY <3>2 DEF HLInv, Distinct, StatusFits, AllQueued
    <2>2. CASE ~ takes  BY <2>2
    <2> QED  BY <2>1, <2>2
  <1>2. EndOfQuantum(h, takes) = IF u.div = NoPkt THEN TxReady(u) ELSE u
    BY DEF EndOfQuantum, TxIsReady
  <1> HIDE DEF u
  <1>3. CASE u.div = NoPkt  BY <1>1, <1>2, <1>3, TxReadyInv
  <1>4. CASE u.div # NoPkt
    <2>1. u.active  BY <1>1, <1>4 DEF HLInv
    <2> QED  BY <1>1, <1>2, <1>4, <2>1 DEF Busy
  <1> QED  BY <1>3, <1>4

----------------------------------------------------------------------------
(* What is sent.  The head of the blocking queue that waits for its response *)
(* is the request that was given to the LL last among the blocking ones.   *)

HeadWaits(h) == h.bq # << >> /\ h.pool[Head(h.bq)].status = "WAIT_RESPONSE"

HeadPacket(h) == [id |-> h.pool[Head(h.bq)].id, tsn |-> h.pool[Head(h.bq)].tsn, blocking |-> TRUE]

HeadKept(h, u) == HeadWaits(h) => HeadWaits(u) /\ HeadPacket(u) = HeadPacket(h)

\* From h to u the divider is left alone, or takes a nonblocking packet, or
\* takes a blocking one, for which no other was waiting.
Moves(h, u) ==
  \/ u.div = h.div /\ HeadKept(h, u)
  \/ h.div = NoPkt /\ ~ u.div.blocking /\ HeadKept(h, u)
  \/ h.div = NoPkt /\ ~ HeadWaits(h) /\ HeadWaits(u) /\ u.div = HeadPacket(u)

LEMMA HeadInQueue ==
  ASSUME NEW h \in HLState, h.bq # << >>
  PROVE  Head(h.bq) \in Buf /\ Head(h.bq) = h.bq[1] /\ 1 \in 1..Len(h.bq)
  BY HeadTailProperties, EmptySeq DEF HLState

LEMMA PutKeepsHead ==
  ASSUME NEW h \in HLState, NEW b \in Buf, h.bq # << >> => Head(h.bq) # b,
         NEW blocking \in BOOLEAN, NEW s \in BufStatus
  PROVE  LET u == PutInQueue(h, b, blocking, s) IN u.div = h.div /\ HeadKept(h, u)
  <1> DEFINE u == PutInQueue(h, b, blocking, s)
             w == SetStatus(h, b, s)
  <1>1. /\ w \in HLState /\ w.bq = h.bq /\ w.nq = h.nq /\ w.div = h.div
        /\ \A c \in Buf \ {b} : w.pool[c] = h.pool[c]
    <2>1. [h.pool[b] EXCEPT !.status = s] \in TxBuffer  BY BufferTypes DEF HLState
    <2>2. w = [h EXCEPT !.pool[b] = [h.pool[b] EXCEPT !.status = s]]  BY DEF SetStatus, HLState
    <2> QED  BY <2>1, <2>2, PoolUpdate
  <1> HIDE DEF w
  <1>2. h.bq # << >> => Head(h.bq) \in Buf \ {b}  BY HeadInQueue
  <1>3. CASE blocking /\ Len(h.bq) < POOL_SIZE
    <2>1. u = [w EXCEPT !.bq = Append(@, b)]  BY <1>3 DEF PutInQueue, Enqueue, w
    <2>2. u.div = w.div /\ u.pool = w.pool /\ u.bq = Append(h.bq, b)  BY <1>1, <2>1 DEF HLState
    <2>3. h.bq # << >> => Head(u.bq) = Head(h.bq) /\ u.bq # << >>
      BY <2>2, HeadTailAppend, AppendProperties DEF HLState
    <2> QED  BY <1>1, <1>2, <2>2, <2>3 DEF HeadKept, HeadWaits, HeadPacket
  <1>4. CASE ~ blocking /\ Len(h.nq) < POOL_SIZE
    <2>1. u = [w EXCEPT !.nq = Append(@, b)]  BY <1>4 DEF PutInQueue, Enqueue, w
    <2>2. u.div = w.div /\ u.pool = w.pool /\ u.bq = h.bq  BY <1>1, <2>1 DEF HLState
    <2> QED  BY <1>1, <1>2, <2>2 DEF HeadKept, HeadWaits, HeadPacket
  <1>5. CASE /\ ~ (blocking /\ Len(h.bq) < POOL_SIZE)
             /\ ~ (~ blocking /\ Len(h.nq) < POOL_SIZE)
    <2>1. u = h  BY <1>5 DEF PutInQueue
    <2> QED  BY <2>1 DEF HeadKept
  <1> QED  BY <1>3, <1>4, <1>5

LEMMA RequestMoves ==
  ASSUME NEW h, HLInv(h), FreeBufs(h) # {}, NEW blocking \in BOOLEAN, NEW id \in Nat
  PROVE  Moves(h, Request(h, blocking, id))
  <1> DEFINE b == FindFree(h)
             u == GetRequestBuffer(h, b, blocking, id)
             v == Request(h, blocking, id)
  <1>1. b \in FreeBufs(h)  BY FindFreeIsFree
  <1>2. b \in Buf /\ h.pool[b].status = "FREE"  BY <1>1 DEF FreeBufs
  <1>3. h \in HLState /\ StatusFits(h) /\ (~ h.active => h.div = NoPkt)  BY DEF HLInv
  <1>4. /\ u.bq = h.bq /\ u.nq = h.nq /\ u.active = h.active /\ u.div = h.div /\ u \in HLState
        /\ u.pool[b].status = IF blocking THEN "RESERVED_BLOCKING" ELSE "RESERVED_NONBLOCKING"
        /\ u.pool[b].id = id
        /\ \A c \in Buf \ {b} : u.pool[c] = h.pool[c]
    <2>1. HLInvBut(u, b)  BY <1>1, GetRequestBufferInv
    <2>2. u.pool[b].id = id  BY <1>2, <1>3 DEF GetRequestBuffer, HLState
    <2> QED  BY <1>1, <2>1, <2>2, GetRequestBufferInv DEF HLInvBut
  <1>5. blocking <=> u.pool[b].status = "RESERVED_BLOCKING"  BY <1>4
  <1>6. v = IF MustQueue(u, blocking) THEN PutInQueue(u, b, blocking, "WAIT_SENDING")
            ELSE SendDirectly(u, b, blocking)
    BY <1>5 DEF Request, SendPacket
  <1> SUFFICES Moves(h, v)  OBVIOUS
  <1> HIDE DEF b, u, v
  <1>7. h.bq # << >> => Head(h.bq) \in Buf \ {b}
    BY <1>2, <1>3, HeadInQueue DEF StatusFits
  <1>8. HeadKept(h, u)  BY <1>4, <1>7 DEF HeadKept, HeadWaits, HeadPacket
  <1>9. CASE MustQueue(u, blocking)
    <2>1. v.div = u.div /\ HeadKept(u, v)
      <3>1. "WAIT_SENDING" \in BufStatus  BY DEF BufStatus
      <3>2. v = PutInQueue(u, b, blocking, "WAIT_SENDING")  BY <1>6, <1>9
      <3>3. u.bq # << >> => Head(u.bq) # b  BY <1>4, <1>7
      <3> QED  BY <1>2, <1>4, <3>1, <3>2, <3>3, PutKeepsHead
    <2> QED  BY <1>4, <1>8, <2>1 DEF Moves, HeadKept
  <1>10. CASE ~ MustQueue(u, blocking)
    <2> DEFINE p == [id |-> id, tsn |-> u.pool[b].tsn, blocking |-> blocking]
               w == [LLSendPacket(u, b, blocking) EXCEPT !.active = TRUE]
    <2>1. h.div = NoPkt /\ ~ u.active /\ (blocking => u.bq = << >>)
      BY <1>3, <1>4, <1>10 DEF MustQueue
    <2>2. /\ w \in HLState /\ w.bq = u.bq /\ w.nq = u.nq /\ w.pool = u.pool /\ w.div = p
      <3>1. p \in Packet  BY <1>2, <1>4 DEF HLState, TxBuffer, Packet
      <3>2. w = [u EXCEPT !.div = p, !.active = TRUE]
        BY <1>4, <2>1 DEF LLSendPacket, HLState
      <3> QED  BY <1>4, <3>1, <3>2 DEF HLState
    <2>3. v = IF blocking THEN PutInQueue(w, b, TRUE, "WAIT_RESPONSE") ELSE TxBufferFree(w, b)
      BY <1>6, <1>10 DEF SendDirectly
    <2>4. p.blocking = blocking  OBVIOUS
    <2> HIDE DEF p, w
    <2>5. CASE ~ blocking
      <3>1. v.div = w.div /\ v.bq = w.bq /\ \A c \in Buf \ {b} : v.pool[c] = w.pool[c]
        BY <1>2, <2>2, <2>3, <2>5 DEF TxBufferFree, HLState
      <3>2. HeadKept(h, v)  BY <1>4, <1>7, <2>2, <3>1 DEF HeadKept, HeadWaits, HeadPacket
      <3> QED  BY <2>1, <2>2, <2>4, <2>5, <3>1, <3>2 DEF Moves
    <2>6. CASE blocking
      <3>1. w.bq = << >> /\ Len(w.bq) < POOL_SIZE  BY <2>1, <2>2, <2>6, HLConstants
      <3>2. v = [SetStatus(w, b, "WAIT_RESPONSE") EXCEPT !.bq = Append(@, b)]
        BY <2>3, <2>6, <3>1 DEF PutInQueue, Enqueue
      <3>3. /\ v.div = w.div /\ v.bq = << b >> /\ v.pool[b].status = "WAIT_RESPONSE"
            /\ v.pool[b].id = u.pool[b].id /\ v.pool[b].tsn = u.pool[b].tsn
        <4> DEFINE x == [w.pool[b] EXCEPT !.status = "WAIT_RESPONSE"]
        <4>1. v = [w EXCEPT !.pool = [@ EXCEPT ![b] = x], !.bq = << b >>]
          <5>1. Append(w.bq, b) = << b >>  BY <3>1
          <5> QED  BY <3>2, <5>1 DEF SetStatus, HLState
        <4>2. /\ x.status = "WAIT_RESPONSE"
              /\ x.id = u.pool[b].id /\ x.tsn = u.pool[b].tsn
          BY <1>2, <1>4, <2>2 DEF HLState, TxBuffer
        <4> HIDE DEF x
        <4>3. v.div = w.div /\ v.bq = << b >> /\ v.pool[b] = x
          BY <1>2, <2>2, <4>1 DEF HLState
        <4> QED  BY <4>2, <4>3
      <3>4. HeadWaits(v) /\ HeadPacket(v) = v.div
        <4>1. Head(v.bq) = b /\ v.bq # << >>  BY <3>3
        <4>2. v.div = [id |-> id, tsn |-> u.pool[b].tsn, blocking |-> TRUE]
          BY <2>2, <2>6, <3>3 DEF p
        <4> QED  BY <1>4, <3>3, <4>1, <4>2 DEF HeadWaits, HeadPacket
      <3>5. ~ HeadWaits(h)  BY <1>4, <2>2, <3>1 DEF HeadWaits
      <3> QED  BY <2>1, <3>4, <3>5 DEF Moves
    <2> QED  BY <2>5, <2>6
  <1> QED  BY <1>9, <1>10 DEF v

LEMMA MarkFinishedMoves ==
  ASSUME NEW h, HLInv(h)
  PROVE  MarkFinished(h).div = h.div
  <1>1. h \in HLState  BY DEF HLInv
  <1> QED  BY <1>1 DEF MarkFinished, TxBufferFree, HLState

LEMMA TxReadyMoves ==
  ASSUME NEW h, HLInv(h), h.div = NoPkt
  PROVE  Moves(h, TxReady(h))
  <1> DEFINE u == [h EXCEPT !.active = FALSE]
             n == Head(h.nq)
             b == Head(h.bq)
             v == TxReady(h)
  <1>1. h \in HLState /\ StatusFits(h) /\ Distinct(h)  BY DEF HLInv
  <1>2. /\ u \in HLState /\ u.bq = h.bq /\ u.nq = h.nq /\ u.pool = h.pool /\ u.div = NoPkt
    BY <1>1 DEF HLState
  <1>3. h.bq # << >> => b \in Buf /\ b = h.bq[1] /\ 1 \in 1..Len(h.bq)  BY <1>1, HeadInQueue
  <1>4. ASSUME NEW c \in Buf, NEW blocking \in BOOLEAN
        PROVE  /\ LLSendPacket(u, c, blocking) \in HLState
               /\ LLSendPacket(u, c, blocking).div =
                    [id |-> h.pool[c].id, tsn |-> h.pool[c].tsn, blocking |-> blocking]
               /\ LLSendPacket(u, c, blocking).bq = h.bq
               /\ LLSendPacket(u, c, blocking).pool = h.pool
    <2> DEFINE p == [id |-> h.pool[c].id, tsn |-> h.pool[c].tsn, blocking |-> blocking]
    <2>1. p \in Packet  BY <1>1 DEF HLState, TxBuffer, Packet
    <2>2. LLSendPacket(u, c, blocking) = [u EXCEPT !.div = p]  BY <1>2 DEF LLSendPacket
    <2> HIDE DEF p, u
    <2>3. /\ [u EXCEPT !.div = p] \in HLState /\ [u EXCEPT !.div = p].div = p
          /\ [u EXCEPT !.div = p].bq = u.bq /\ [u EXCEPT !.div = p].pool = u.pool
      BY <1>2, <2>1 DEF HLState
    <2> QED  BY <1>2, <2>2, <2>3 DEF p
  <1>5. CASE NonblockingFirst(h)
    <2> DEFINE w == LLSendPacket(u, n, FALSE)
    <2>1. h.nq # << >> /\ n \in Buf /\ n = h.nq[1] /\ 1 \in 1..Len(h.nq)
      BY <1>1, <1>5, HeadTailProperties, EmptySeq DEF NonblockingFirst, HLState
    <2>2. /\ w \in HLState /\ ~ w.div.blocking /\ w.bq = h.bq /\ w.pool = h.pool
      <3> HIDE DEF u, n
      <3>1. FALSE \in BOOLEAN  OBVIOUS
      <3>2. /\ w \in HLState /\ w.bq = h.bq /\ w.pool = h.pool
            /\ w.div = [id |-> h.pool[n].id, tsn |-> h.pool[n].tsn, blocking |-> FALSE]
        BY <1>4, <2>1, <3>1
      <3> HIDE DEF w
      <3> QED  BY <3>2
    <2>3. v = [TxBufferFree(w, n) EXCEPT !.nq = Tail(@), !.active = TRUE]
      BY <1>5 DEF TxReady
    <2> HIDE DEF w, v, u, n
    <2>4. v.div = w.div /\ v.bq = w.bq /\ \A c \in Buf \ {n} : v.pool[c] = w.pool[c]
      BY <2>1, <2>2, <2>3 DEF TxBufferFree, HLState
    <2>5. h.bq # << >> => b \in Buf \ {n}
      BY <1>1, <1>3, <2>1 DEF Distinct
    <2>6. HeadKept(h, v)
      BY <2>2, <2>4, <2>5 DEF HeadKept, HeadWaits, HeadPacket
    <2> QED  BY <2>2, <2>4, <2>6 DEF Moves, v
  <1>6. CASE ~ NonblockingFirst(h) /\ h.bq # << >> /\ h.pool[b].status = "WAIT_SENDING"
    <2> DEFINE w == LLSendPacket(u, b, TRUE)
    <2>1. v = [SetStatus(w, b, "WAIT_RESPONSE") EXCEPT !.active = TRUE]  BY <1>6 DEF TxReady
    <2>2. /\ w \in HLState /\ w.bq = h.bq /\ w.pool = h.pool
          /\ w.div = [id |-> h.pool[b].id, tsn |-> h.pool[b].tsn, blocking |-> TRUE]
      <3> HIDE DEF u, b
      <3>1. TRUE \in BOOLEAN /\ b \in Buf  BY <1>3, <1>6
      <3> QED  BY <1>4, <3>1
    <2> HIDE DEF w, v, u
    <2>3. /\ v.div = w.div /\ v.bq = w.bq
          /\ v.pool[b].status = "WAIT_RESPONSE"
          /\ v.pool[b].id = w.pool[b].id /\ v.pool[b].tsn = w.pool[b].tsn
      BY <1>3, <1>6, <2>1, <2>2 DEF SetStatus, HLState, TxBuffer
    <2>4. HeadWaits(v) /\ v.div = HeadPacket(v)  BY <1>6, <2>2, <2>3 DEF HeadWaits, HeadPacket
    <2>5. ~ HeadWaits(h)  BY <1>6 DEF HeadWaits
    <2> QED  BY <2>4, <2>5 DEF Moves, v
  <1>7. CASE /\ ~ NonblockingFirst(h)
             /\ ~ (h.bq # << >> /\ h.pool[b].status = "WAIT_SENDING")
    <2>1. v = u  BY <1>7 DEF TxReady
    <2> QED  BY <1>2, <2>1 DEF Moves, HeadKept, HeadWaits, HeadPacket
  <1> QED  BY <1>5, <1>6, <1>7

----------------------------------------------------------------------------
(* Marked elements of sequences: what is on its way is a concatenation of   *)
(* queues, and the invariants speak of some of its elements only.          *)

\* An element of q is in S; no more than one is; those that are equal x.
Has(S, q) == \E i \in 1..Len(q) : q[i] \in S
Few(S, q) == \A i, j \in 1..Len(q) : q[i] \in S /\ q[j] \in S => i = j
All(S, q, x) == \A i \in 1..Len(q) : q[i] \in S => q[i] = x

LEMMA NoMarks ==
  ASSUME NEW S, NEW x
  PROVE  ~ Has(S, << >>) /\ Few(S, << >>) /\ All(S, << >>, x)
  BY DEF Has, Few, All

LEMMA OneMark ==
  ASSUME NEW S, NEW p
  PROVE  /\ Has(S, << p >>) <=> p \in S
         /\ Few(S, << p >>)
         /\ \A x : All(S, << p >>, x) <=> (p \in S => p = x)
  <1>1. Len(<< p >>) = 1 /\ << p >>[1] = p /\ 1..1 = {1}  OBVIOUS
  <1> QED  BY <1>1 DEF Has, Few, All

LEMMA ConcatMarks ==
  ASSUME NEW T, NEW a \in Seq(T), NEW b \in Seq(T), NEW S
  PROVE  /\ Has(S, a \o b) <=> Has(S, a) \/ Has(S, b)
         /\ Few(S, a \o b) <=> Few(S, a) /\ Few(S, b) /\ ~ (Has(S, a) /\ Has(S, b))
         /\ \A x : All(S, a \o b, x) <=> All(S, a, x) /\ All(S, b, x)
         /\ a \o b \in Seq(T)
  <1> DEFINE c == a \o b
             m == Len(a)
             n == Len(b)
  <1>1. m \in Nat /\ n \in Nat /\ Len(c) = m + n /\ c \in Seq(T)  OBVIOUS
  <1>2. \A i \in 1..m : c[i] = a[i] /\ i \in 1..m + n  BY <1>1
  <1>3. \A i \in 1..n : c[m + i] = b[i] /\ m + i \in 1..m + n  BY <1>1
  <1> HIDE DEF c, m, n
  <1>4. \A i \in 1..m + n : (i \in 1..m /\ c[i] = a[i]) \/ (i - m \in 1..n /\ c[i] = b[i - m])
    <2> TAKE i \in 1..m + n
    <2>1. CASE i <= m  BY <1>1, <1>2, <2>1
    <2>2. CASE i > m
      <3>1. i - m \in 1..n /\ m + (i - m) = i  BY <1>1, <2>2
      <3> QED  BY <1>3, <3>1
    <2> QED  BY <1>1, <2>1, <2>2
  <1>5. Has(S, c) <=> Has(S, a) \/ Has(S, b)
    <2>1. ASSUME Has(S, c) PROVE Has(S, a) \/ Has(S, b)
      <3>1. PICK i \in 1..m + n : c[i] \in S  BY <1>1, <2>1 DEF Has
      <3> QED  BY <1>4, <3>1 DEF Has, m, n
    <2>2. ASSUME Has(S, a) PROVE Has(S, c)
      <3>1. PICK i \in 1..m : a[i] \in S  BY <2>2 DEF Has, m
      <3> QED  BY <1>1, <1>2, <3>1 DEF Has
    <2>3. ASSUME Has(S, b) PROVE Has(S, c)
      <3>1. PICK i \in 1..n : b[i] \in S  BY <2>3 DEF Has, n
      <3> QED  BY <1>1, <1>3, <3>1 DEF Has
    <2> QED  BY <2>1, <2>2, <2>3
  <1>6. \A x : All(S, c, x) <=> All(S, a, x) /\ All(S, b, x)
    <2> TAKE x
    <2>1. ASSUME All(S, c, x) PROVE All(S, a, x) /\ All(S, b, x)
      <3>1. ASSUME NEW i \in 1..m, a[i] \in S PROVE a[i] = x
        BY <1>1, <1>2, <2>1, <3>1 DEF All
      <3>2. ASSUME NEW i \in 1..n, b[i] \in S PROVE b[i] = x
        BY <1>1, <1>3, <2>1, <3>2 DEF All
      <3> QED  BY <3>1, <3>2 DEF All, m, n
    <2>2. ASSUME All(S, a, x), All(S, b, x) PROVE All(S, c, x)
      <3>1. ASSUME NEW i \in 1..m + n, c[i] \in S PROVE c[i] = x
        BY <1>4, <2>2, <3>1 DEF All, m, n
      <3> QED  BY <1>1, <3>1 DEF All
    <2> QED  BY <2>1, <2>2
  <1>7. ASSUME Few(S, c) PROVE Few(S, a) /\ Few(S, b) /\ ~ (Has(S, a) /\ Has(S, b))
    <2>1. \A i, j \in 1..m + n : c[i] \in S /\ c[j] \in S => i = j  BY <1>1, <1>7 DEF Few
    <2>2. ASSUME NEW i \in 1..m, NEW j \in 1..m, a[i] \in S, a[j] \in S PROVE i = j
      BY <1>2, <2>1, <2>2
    <2>3. ASSUME NEW i \in 1..n, NEW j \in 1..n, b[i] \in S, b[j] \in S PROVE i = j
      <3>1. m + i = m + j  BY <1>3, <2>1, <2>3
      <3> QED  BY <1>1, <3>1
    <2>4. ASSUME NEW i \in 1..m, NEW j \in 1..n, a[i] \in S, b[j] \in S PROVE FALSE
      <3>1. i = m + j  BY <1>2, <1>3, <2>1, <2>4
      <3> QED  BY <1>1, <3>1
    <2> QED  BY <2>2, <2>3, <2>4 DEF Few, Has, m, n
  <1>8. ASSUME Few(S, a), Few(S, b), ~ (Has(S, a) /\ Has(S, b)) PROVE Few(S, c)
    <2>1. ASSUME NEW i \in 1..m + n, NEW j \in 1..m + n, c[i] \in S, c[j] \in S PROVE i = j
      <3> DEFINE A(k) == k \in 1..m /\ c[k] = a[k]
                 B(k) == k - m \in 1..n /\ c[k] = b[k - m]
      <3>1. ASSUME A(i), A(j) PROVE i = j
        BY <1>8, <2>1, <3>1 DEF Few, m
      <3>2. ASSUME B(i), B(j) PROVE i = j
        <4>1. i - m = j - m  BY <1>8, <2>1, <3>2 DEF Few, n
        <4> QED  BY <1>1, <4>1
      <3>3. ASSUME NEW k, NEW l, A(k), B(l), c[k] \in S, c[l] \in S PROVE FALSE
        BY <1>8, <3>3 DEF Has, m, n
      <3>4. (A(i) \/ B(i)) /\ (A(j) \/ B(j))  BY <1>4
      <3> HIDE DEF A, B
      <3> QED  BY <2>1, <3>1, <3>2, <3>3, <3>4, Zenon
    <2> QED  BY <1>1, <2>1 DEF Few
  <1> QED  BY <1>1, <1>5, <1>6, <1>7, <1>8 DEF c

LEMMA TailMarks ==
  ASSUME NEW T, NEW q \in Seq(T), q # << >>, NEW S
  PROVE  /\ Has(S, q) <=> Head(q) \in S \/ Has(S, Tail(q))
         /\ Few(S, q) <=> Few(S, Tail(q)) /\ ~ (Head(q) \in S /\ Has(S, Tail(q)))
         /\ \A x : All(S, q, x) <=> (Head(q) \in S => Head(q) = x) /\ All(S, Tail(q), x)
         /\ Tail(q) \in Seq(T) /\ Head(q) \in T
  <1>1. Head(q) \in T /\ Tail(q) \in Seq(T) /\ << Head(q) >> \in Seq(T)  OBVIOUS
  <1> DEFINE p == << Head(q) >>
             t == Tail(q)
  <1>2. q = p \o t  OBVIOUS
  <1>3. /\ Has(S, p) <=> Head(q) \in S
        /\ Few(S, p)
        /\ \A x : All(S, p, x) <=> (Head(q) \in S => Head(q) = x)
    BY OneMark, Zenon
  <1> HIDE DEF p, t
  <1>4. /\ Has(S, q) <=> Has(S, p) \/ Has(S, t)
        /\ Few(S, q) <=> Few(S, p) /\ Few(S, t) /\ ~ (Has(S, p) /\ Has(S, t))
        /\ \A x : All(S, q, x) <=> All(S, p, x) /\ All(S, t, x)
    <2>1. p \in Seq(T) /\ t \in Seq(T)  BY <1>1 DEF p, t
    <2> QED  BY <1>2, <2>1, ConcatMarks, Zenon
  <1>5. \A x : All(S, q, x) <=> (Head(q) \in S => Head(q) = x) /\ All(S, t, x)
    BY <1>3, <1>4, Zenon
  <1> QED  BY <1>1, <1>3, <1>4, <1>5, Zenon DEF t
=============================================================================
