------------------------- MODULE NcpStartup_proofs -------------------------
(***************************************************************************)
(* Proofs about NcpStartup, for every number of steps, every size of the   *)
(* buffer pool and any amount of trouble: the type invariant, and that one *)
(* thing at a time drives the start-up while nothing is lost; and, under   *)
(* one kind of trouble, that no assertion fails, that answers find their   *)
(* requests and that no step is passed over.                               *)
(***************************************************************************)
EXTENDS NcpStartup, NcpHL_proofs

(* The requests are ids of steps. *)

Typed(h) == /\ h \in HLState
            /\ \A b \in Buf : h.pool[b].id \in Step
            /\ h.div.id \in Step

LEMMA StepFacts ==
  /\ STEPS \in Nat /\ STEPS > 1 /\ 0 \in Step /\ Step \subseteq Nat
  /\ RESET \in Step /\ VERSION \in Step /\ RESET # VERSION /\ RESET_IND \notin Step
  /\ DONE \notin Step /\ DONE \in 0..STEPS
  BY StartupConstants DEF Step, RESET, VERSION, RESET_IND, DONE

LEMMA FreeTyped ==
  ASSUME NEW h, Typed(h), NEW b \in Buf
  PROVE  Typed(TxBufferFree(h, b))
  <1>1. FreeBuffer \in TxBuffer /\ FreeBuffer.id \in Step
    BY BufferTypes, StepFacts DEF FreeBuffer
  <1> DEFINE x == FreeBuffer
             u == [h EXCEPT !.pool[b] = x]
  <1> HIDE DEF x
  <1>2. u \in HLState /\ u.div = h.div /\ u.pool[b] = x /\ \A c \in Buf \ {b} : u.pool[c] = h.pool[c]
    BY <1>1, PoolUpdate DEF Typed, x
  <1> HIDE DEF u
  <1>3. Typed(u)  BY <1>1, <1>2 DEF Typed, x
  <1> QED  BY <1>3 DEF TxBufferFree, u, x

LEMMA StatusTyped ==
  ASSUME NEW h, Typed(h), NEW b \in Buf, NEW s \in BufStatus
  PROVE  Typed(SetStatus(h, b, s))
  <1> DEFINE x == [h.pool[b] EXCEPT !.status = s]
             u == [h EXCEPT !.pool[b] = x]
  <1>1. h \in HLState /\ h.pool[b] \in TxBuffer /\ h.pool[b].id \in Step  BY DEF Typed, HLState
  <1>2. x \in TxBuffer  BY <1>1, BufferTypes
  <1>3. x.id = h.pool[b].id  BY <1>1 DEF TxBuffer
  <1>4. SetStatus(h, b, s) = u  BY <1>1 DEF SetStatus, HLState
  <1> HIDE DEF x
  <1>5. u \in HLState /\ u.div = h.div /\ u.pool[b] = x /\ \A c \in Buf \ {b} : u.pool[c] = h.pool[c]
    BY <1>1, <1>2, PoolUpdate
  <1> HIDE DEF u
  <1>6. Typed(u)  BY <1>1, <1>3, <1>5 DEF Typed
  <1> QED  BY <1>4, <1>6

\* Other fields of the context.
LEMMA QueuesTyped ==
  ASSUME NEW h, Typed(h), NEW p \in Seq(Buf), NEW q \in Seq(Buf), NEW a \in BOOLEAN
  PROVE  /\ Typed([h EXCEPT !.bq = p]) /\ Typed([h EXCEPT !.nq = q])
         /\ Typed([h EXCEPT !.active = a])
         /\ Typed([h EXCEPT !.nq = q, !.active = a])
         /\ Typed([h EXCEPT !.bq = p, !.nq = q, !.div = NoPkt])
         /\ Typed([h EXCEPT !.div = NoPkt])
         /\ Typed([h EXCEPT !.aborted = TRUE])
  <1>1. NoPkt \in Packet /\ NoPkt.id = 0 /\ 0 \in Step  BY BufferTypes, StepFacts DEF NoPkt
  <1>2. h \in HLState /\ (\A b \in Buf : h.pool[b].id \in Step) /\ h.div.id \in Step  BY DEF Typed
  <1>3. Typed([h EXCEPT !.bq = p])  BY <1>2 DEF Typed, HLState
  <1>4. Typed([h EXCEPT !.nq = q])  BY <1>2 DEF Typed, HLState
  <1>5. Typed([h EXCEPT !.active = a])  BY <1>2 DEF Typed, HLState
  <1>6. Typed([h EXCEPT !.nq = q, !.active = a])  BY <1>2 DEF Typed, HLState
  <1>7. Typed([h EXCEPT !.bq = p, !.nq = q, !.div = NoPkt])  BY <1>1, <1>2 DEF Typed, HLState
  <1>8. Typed([h EXCEPT !.div = NoPkt])  BY <1>1, <1>2 DEF Typed, HLState
  <1>9. Typed([h EXCEPT !.aborted = TRUE])  BY <1>2 DEF Typed, HLState
  <1> QED  BY <1>3, <1>4, <1>5, <1>6, <1>7, <1>8, <1>9

LEMMA PutTyped ==
  ASSUME NEW h, Typed(h), NEW b \in Buf, NEW blocking \in BOOLEAN, NEW s \in BufStatus
  PROVE  Typed(PutInQueue(h, b, blocking, s))
  <1> DEFINE u == SetStatus(h, b, s)
  <1>1. Typed(u) /\ u.bq \in Seq(Buf) /\ u.nq \in Seq(Buf)
    BY StatusTyped DEF Typed, HLState
  <1> HIDE DEF u
  <1>2. Append(u.bq, b) \in Seq(Buf) /\ Append(u.nq, b) \in Seq(Buf)  BY <1>1
  <1>3. Typed([u EXCEPT !.bq = Append(u.bq, b)]) /\ Typed([u EXCEPT !.nq = Append(u.nq, b)])
    BY <1>1, <1>2, QueuesTyped
  <1>4. CASE blocking /\ Len(h.bq) < POOL_SIZE
    <2>1. PutInQueue(h, b, blocking, s) = [u EXCEPT !.bq = Append(u.bq, b)]
      BY <1>4 DEF PutInQueue, Enqueue, u
    <2> QED  BY <1>3, <2>1
  <1>5. CASE ~ blocking /\ Len(h.nq) < POOL_SIZE
    <2>1. PutInQueue(h, b, blocking, s) = [u EXCEPT !.nq = Append(u.nq, b)]
      BY <1>5 DEF PutInQueue, Enqueue, u
    <2> QED  BY <1>3, <2>1
  <1>6. CASE /\ ~ (blocking /\ Len(h.bq) < POOL_SIZE)
             /\ ~ (~ blocking /\ Len(h.nq) < POOL_SIZE)
    BY <1>6 DEF PutInQueue
  <1> QED  BY <1>4, <1>5, <1>6

LEMMA LLSendTyped ==
  ASSUME NEW h, Typed(h), NEW b \in Buf, NEW blocking \in BOOLEAN
  PROVE  Typed(LLSendPacket(h, b, blocking))
  <1> DEFINE p == [id |-> h.pool[b].id, tsn |-> h.pool[b].tsn, blocking |-> blocking]
  <1>1. h \in HLState /\ (\A c \in Buf : h.pool[c].id \in Step) /\ h.div.id \in Step  BY DEF Typed
  <1>2. p \in Packet /\ p.id \in Step  BY <1>1 DEF HLState, TxBuffer, Packet
  <1> HIDE DEF p
  <1>3. Typed([h EXCEPT !.div = p])  BY <1>1, <1>2 DEF Typed, HLState
  <1>4. Typed([h EXCEPT !.aborted = TRUE])
    <2>1. << >> \in Seq(Buf) /\ TRUE \in BOOLEAN  OBVIOUS
    <2> QED  BY <2>1, QueuesTyped
  <1> QED  BY <1>3, <1>4 DEF LLSendPacket, p

LEMMA RequestTyped ==
  ASSUME NEW h, Typed(h), FreeBufs(h) # {}, NEW blocking \in BOOLEAN, NEW id \in Step
  PROVE  Typed(Request(h, blocking, id))
  <1> DEFINE b == FindFree(h)
             u == GetRequestBuffer(h, b, blocking, id)
  <1>1. b \in Buf  BY FindFreeIsFree DEF FreeBufs
  <1> HIDE DEF b
  <1>2. Typed(u)
    <2> DEFINE n == NextTsn(h.tsn)
               s == IF blocking THEN "RESERVED_BLOCKING" ELSE "RESERVED_NONBLOCKING"
               x == [status |-> s, tsn |-> n, id |-> id]
               v == [h EXCEPT !.tsn = n]
    <2>1. h \in HLState /\ h.tsn \in Tsn  BY DEF Typed, HLState
    <2>2. n \in Tsn  BY <2>1, HLConstants DEF NextTsn, Tsn
    <2>3. s \in BufStatus /\ id \in Nat  BY StepFacts DEF BufStatus
    <2>4. u = [h EXCEPT !.tsn = n, !.pool[b] = x]  BY DEF GetRequestBuffer
    <2> HIDE DEF n, s
    <2>5. x \in TxBuffer /\ x.id = id  BY <2>2, <2>3 DEF TxBuffer
    <2> HIDE DEF x
    <2>6. Typed(v) /\ v.pool = h.pool
      BY <2>1, <2>2 DEF Typed, HLState
    <2>7. u = [v EXCEPT !.pool[b] = x]  BY <2>1, <2>4 DEF HLState
    <2> HIDE DEF v, u
    <2>8. /\ u \in HLState /\ u.div = v.div /\ u.pool[b] = x
          /\ \A c \in Buf \ {b} : u.pool[c] = v.pool[c]
      BY <1>1, <2>5, <2>6, <2>7, PoolUpdate DEF Typed
    <2> QED  BY <2>5, <2>6, <2>8 DEF Typed
  <1> DEFINE blk == u.pool[b].status = "RESERVED_BLOCKING"
             w == LLSendPacket(u, b, blk)
             a == [w EXCEPT !.active = TRUE]
  <1>3. Request(h, blocking, id) = IF MustQueue(u, blk) THEN PutInQueue(u, b, blk, "WAIT_SENDING")
                                   ELSE SendDirectly(u, b, blk)
    BY DEF Request, SendPacket, b
  <1>4. SendDirectly(u, b, blk) = IF blk THEN PutInQueue(a, b, TRUE, "WAIT_RESPONSE")
                                  ELSE TxBufferFree(a, b)
    BY DEF SendDirectly
  <1>5. blk \in BOOLEAN /\ TRUE \in BOOLEAN /\ {"WAIT_SENDING", "WAIT_RESPONSE"} \subseteq BufStatus
    BY DEF BufStatus
  <1> HIDE DEF u, blk
  <1>6. Typed(w)  BY <1>1, <1>2, <1>5, LLSendTyped
  <1> HIDE DEF w
  <1>7. Typed(a)
    <2>1. << >> \in Seq(Buf)  OBVIOUS
    <2> QED  BY <1>5, <1>6, <2>1, QueuesTyped
  <1> HIDE DEF a
  <1>8. /\ Typed(PutInQueue(u, b, blk, "WAIT_SENDING"))
        /\ Typed(PutInQueue(a, b, TRUE, "WAIT_RESPONSE"))
        /\ Typed(TxBufferFree(a, b))
    BY <1>1, <1>2, <1>5, <1>7, PutTyped, FreeTyped
  <1> QED  BY <1>3, <1>4, <1>8

LEMMA MarkFinishedTyped ==
  ASSUME NEW h, Typed(h)
  PROVE  Typed(MarkFinished(h))
  <1>1. CASE h.bq = << >>  BY <1>1 DEF MarkFinished
  <1>2. CASE h.bq # << >>
    <2> DEFINE b == Head(h.bq)
               u == TxBufferFree(h, b)
    <2>1. b \in Buf /\ Tail(h.bq) \in Seq(Buf)
      BY <1>2, HeadInQueue, HeadTailProperties DEF Typed, HLState
    <2>2. Typed(u) /\ u.bq = h.bq
      BY <2>1, FreeTyped DEF Typed, TxBufferFree, HLState
    <2>3. MarkFinished(h) = [u EXCEPT !.bq = Tail(h.bq)]
      BY <1>2, <2>2 DEF MarkFinished
    <2>4. TRUE \in BOOLEAN  OBVIOUS
    <2> DEFINE t == Tail(h.bq)
    <2>5. Typed(u) /\ t \in Seq(Buf)  BY <2>1, <2>2
    <2>6. MarkFinished(h) = [u EXCEPT !.bq = t]  BY <2>3
    <2> HIDE DEF u, b, t
    <2>7. Typed([u EXCEPT !.bq = t])  BY <2>4, <2>5, QueuesTyped
    <2> QED  BY <2>6, <2>7
  <1> QED  BY <1>1, <1>2

LEMMA TxReadyTyped ==
  ASSUME NEW h, Typed(h)
  PROVE  Typed(TxReady(h))
  <1> DEFINE u == [h EXCEPT !.active = FALSE]
             n == Head(h.nq)
             b == Head(h.bq)
  <1>1. Typed(u) /\ TRUE \in BOOLEAN /\ FALSE \in BOOLEAN
    <2>1. << >> \in Seq(Buf) /\ FALSE \in BOOLEAN  OBVIOUS
    <2> QED  BY <2>1, QueuesTyped
  <1>2. h \in HLState /\ h.nq \in Seq(Buf) /\ h.bq \in Seq(Buf)  BY DEF Typed, HLState
  <1>3. CASE NonblockingFirst(h)
    <2> DEFINE w == TxBufferFree(LLSendPacket(u, n, FALSE), n)
    <2>1. n \in Buf  BY <1>2, <1>3, HeadTailProperties DEF NonblockingFirst
    <2>2. Typed(LLSendPacket(u, n, FALSE))  BY <1>1, <2>1, LLSendTyped
    <2>3. Typed(w)  BY <2>1, <2>2, FreeTyped
    <2>4. TxReady(h) = [w EXCEPT !.nq = Tail(w.nq), !.active = TRUE]
      BY <1>3 DEF TxReady
    <2>5. w.nq = h.nq
      BY <1>2 DEF TxBufferFree, LLSendPacket, HLState
    <2>6. Tail(h.nq) \in Seq(Buf)  BY <1>2, <1>3, HeadTailProperties DEF NonblockingFirst
    <2> HIDE DEF w
    <2> QED  BY <1>1, <2>3, <2>4, <2>5, <2>6, QueuesTyped
  <1>4. CASE ~ NonblockingFirst(h) /\ h.bq # << >> /\ h.pool[b].status = "WAIT_SENDING"
    <2> DEFINE v == LLSendPacket(u, b, TRUE)
               w == SetStatus(v, b, "WAIT_RESPONSE")
    <2>1. b \in Buf /\ "WAIT_RESPONSE" \in BufStatus
      BY <1>2, <1>4, HeadInQueue DEF BufStatus
    <2>2. Typed(v)  BY <1>1, <2>1, LLSendTyped
    <2> HIDE DEF v
    <2>3. Typed(w)  BY <2>1, <2>2, StatusTyped
    <2>4. TxReady(h) = [w EXCEPT !.active = TRUE]  BY <1>4 DEF TxReady, v
    <2> HIDE DEF w
    <2>5. << >> \in Seq(Buf)  OBVIOUS
    <2> QED  BY <1>1, <2>3, <2>4, <2>5, QueuesTyped
  <1>5. CASE /\ ~ NonblockingFirst(h)
             /\ ~ (h.bq # << >> /\ h.pool[b].status = "WAIT_SENDING")
    BY <1>1, <1>5 DEF TxReady
  <1> QED  BY <1>3, <1>4, <1>5

LEMMA EndOfQuantumTyped ==
  ASSUME NEW h, Typed(h), NEW takes \in BOOLEAN
  PROVE  Typed(EndOfQuantum(h, takes))
  <1> DEFINE u == IF takes THEN [h EXCEPT !.div = NoPkt] ELSE h
  <1>1. Typed(u)
    <2>1. << >> \in Seq(Buf) /\ TRUE \in BOOLEAN  OBVIOUS
    <2> QED  BY <2>1, QueuesTyped
  <1> HIDE DEF u
  <1>2. Typed(TxReady(u))  BY <1>1, TxReadyTyped
  <1> QED  BY <1>1, <1>2 DEF EndOfQuantum, u

LEMMA ProtoInitTyped ==
  ASSUME NEW h, Typed(h)
  PROVE  Typed(ProtoInit(h))
  <1>1. << >> \in Seq(Buf) /\ TRUE \in BOOLEAN  OBVIOUS
  <1> QED  BY <1>1, QueuesTyped DEF ProtoInit

----------------------------------------------------------------------------
(* The functions of the start-up keep the types.                           *)

HostOK(h) == h \in Host /\ Typed(h.hl)

\* One field of the host at a time.
LEMMA FieldsOK ==
  ASSUME NEW h, HostOK(h), NEW n \in Nat, NEW c \in BOOLEAN, NEW g, Typed(g),
         NEW p \in 0..STEPS, NEW r \in {"NONE", "FIRST", "REINIT"}, NEW why \in Failures
  PROVE  /\ HostOK([h EXCEPT !.hl = g]) /\ HostOK([h EXCEPT !.pos = p])
         /\ HostOK([h EXCEPT !.respProcessed = c]) /\ HostOK([h EXCEPT !.pending = c])
         /\ HostOK([h EXCEPT !.calls = n]) /\ HostOK([h EXCEPT !.resetAlarm = c])
         /\ HostOK([h EXCEPT !.timer = c]) /\ HostOK([h EXCEPT !.retry = r])
         /\ HostOK([h EXCEPT !.failure = why])
  <1>1. h \in Host /\ Typed(h.hl) /\ g \in HLState  BY DEF HostOK, Typed
  <1>2. HostOK([h EXCEPT !.hl = g])  BY <1>1 DEF HostOK, Host
  <1>3. HostOK([h EXCEPT !.pos = p])  BY <1>1 DEF HostOK, Host
  <1>4. HostOK([h EXCEPT !.respProcessed = c])  BY <1>1 DEF HostOK, Host
  <1>5. HostOK([h EXCEPT !.pending = c])  BY <1>1 DEF HostOK, Host
  <1>6. HostOK([h EXCEPT !.calls = n])  BY <1>1 DEF HostOK, Host
  <1>7. HostOK([h EXCEPT !.resetAlarm = c])  BY <1>1 DEF HostOK, Host
  <1>8. HostOK([h EXCEPT !.timer = c])  BY <1>1 DEF HostOK, Host
  <1>9. HostOK([h EXCEPT !.retry = r])  BY <1>1 DEF HostOK, Host
  <1>10. HostOK([h EXCEPT !.failure = why])  BY <1>1 DEF HostOK, Host
  <1> QED  BY <1>2, <1>3, <1>4, <1>5, <1>6, <1>7, <1>8, <1>9, <1>10

LEMMA FlagsOK ==
  ASSUME NEW h, HostOK(h), NEW c \in BOOLEAN
  PROVE  /\ HostOK([h EXCEPT !.respProcessed = c]) /\ HostOK([h EXCEPT !.pending = c])
         /\ HostOK([h EXCEPT !.resetAlarm = c]) /\ HostOK([h EXCEPT !.timer = c])
         /\ \A why \in Failures : HostOK(Fail(h, why))
         /\ \A n \in Nat : HostOK([h EXCEPT !.calls = n])
         /\ HostOK(ScheduleNext(h))
  <1>1. Typed(h.hl) /\ h.calls \in Nat /\ h.calls + 1 \in Nat /\ h \in Host
    BY DEF HostOK, Host
  <1>2. 0 \in Nat /\ 0 \in 0..STEPS /\ "NONE" \in {"NONE", "FIRST", "REINIT"} /\ "NONE" \in Failures
    BY StepFacts DEF Failures
  <1>3. /\ HostOK([h EXCEPT !.respProcessed = c]) /\ HostOK([h EXCEPT !.pending = c])
        /\ HostOK([h EXCEPT !.resetAlarm = c]) /\ HostOK([h EXCEPT !.timer = c])
    BY <1>1, <1>2, FieldsOK, Zenon
  <1>4. ASSUME NEW why \in Failures PROVE HostOK(Fail(h, why))
    BY <1>1, <1>2, FieldsOK, Zenon DEF Fail
  <1>5. ASSUME NEW n \in Nat PROVE HostOK([h EXCEPT !.calls = n])
    BY <1>1, <1>2, FieldsOK, Zenon
  <1>6. HostOK(ScheduleNext(h))
    <2> DEFINE n == h.calls + 1
    <2>1. ScheduleNext(h) = [h EXCEPT !.calls = n]  BY DEF ScheduleNext
    <2>2. n \in Nat  BY <1>1
    <2> HIDE DEF n
    <2> QED  BY <1>5, <2>1, <2>2
  <1> QED  BY <1>3, <1>4, <1>5, <1>6

LEMMA NewHL ==
  ASSUME NEW h, HostOK(h), NEW g, Typed(g)
  PROVE  HostOK([h EXCEPT !.hl = g])
  <1>1. 0 \in Nat /\ 0 \in 0..STEPS /\ "NONE" \in {"NONE", "FIRST", "REINIT"} /\ "NONE" \in Failures
        /\ TRUE \in BOOLEAN
    BY StepFacts DEF Failures
  <1> QED  BY <1>1, FieldsOK, Zenon

LEMMA AskOK ==
  ASSUME NEW h, HostOK(h), NEW step \in Step
  PROVE  HostOK(Ask(h, step)) /\ HostOK(AskReset(h))
  <1>1. TRUE \in BOOLEAN /\ "NO_BUFFER" \in Failures /\ RESET \in Step /\ Typed(h.hl)
    BY StepFacts DEF Failures, HostOK
  <1>2. ASSUME NEW id \in Step PROVE HostOK(Ask(h, id))
    <2>1. CASE FreeBufs(h.hl) = {}  BY <1>1, <2>1, FlagsOK, Zenon DEF Ask
    <2>2. CASE FreeBufs(h.hl) # {}
      <3>1. Typed(Request(h.hl, TRUE, id))  BY <1>1, <2>2, RequestTyped, Zenon
      <3> QED  BY <2>2, <3>1, NewHL, Zenon DEF Ask
    <2> QED  BY <2>1, <2>2
  <1>3. HostOK(AskReset(h))
    <2>1. HostOK(Ask(h, RESET))  BY <1>1, <1>2
    <2>2. HostOK([Ask(h, RESET) EXCEPT !.pending = TRUE])  BY <1>1, <2>1, FlagsOK, Zenon
    <2> QED  BY <2>2, Zenon DEF AskReset
  <1> QED  BY <1>2, <1>3

LEMMA DispatchOK ==
  ASSUME NEW h, HostOK(h)
  PROVE  HostOK(Dispatch(h))
  <1>1. h.pos \in 0..STEPS /\ TRUE \in BOOLEAN  BY DEF HostOK, Host
  <1>2. RESET # DONE /\ RESET \notin SKIPPED /\ DONE \notin SKIPPED
    BY StepFacts, StartupConstants DEF RESET, DONE, VERSION
  <1>3. CASE h.pos = RESET
    <2>1. HostOK([h EXCEPT !.resetAlarm = TRUE])  BY <1>1, FlagsOK, Zenon
    <2> QED  BY <1>2, <1>3, <2>1 DEF Dispatch
  <1>4. CASE h.pos = DONE  BY <1>2, <1>4 DEF Dispatch
  <1>5. CASE h.pos \in SKIPPED
    <2>1. HostOK(ScheduleNext(h))  BY <1>1, FlagsOK, Zenon
    <2> QED  BY <1>2, <1>5, <2>1 DEF Dispatch
  <1>6. CASE h.pos \notin {RESET, DONE} /\ h.pos \notin SKIPPED
    <2>1. h.pos \in Step  BY <1>1, <1>6, StepFacts DEF Step, DONE
    <2>2. HostOK(Ask(h, h.pos))  BY <2>1, AskOK, Zenon
    <2> QED  BY <1>6, <2>2 DEF Dispatch
  <1> QED  BY <1>3, <1>4, <1>5, <1>6

LEMMA NextStepOK ==
  ASSUME NEW h, HostOK(h)
  PROVE  HostOK(NextStep(h))
  <1>1. h.pos \in 0..STEPS /\ Typed(h.hl)  BY DEF HostOK, Host
  <1>2. CASE h.pos = DONE  BY <1>2 DEF NextStep
  <1>3. CASE h.pos # DONE
    <2> DEFINE p == h.pos + 1
    <2>1. p \in 0..STEPS  BY <1>1, <1>3, StepFacts DEF DONE
    <2>2. 0 \in Nat /\ TRUE \in BOOLEAN /\ "NONE" \in {"NONE", "FIRST", "REINIT"} /\ "NONE" \in Failures
      BY DEF Failures
    <2> HIDE DEF p
    <2>3. HostOK([h EXCEPT !.pos = p])  BY <1>1, <2>1, <2>2, FieldsOK, Zenon
    <2>4. NextStep(h) = Dispatch([h EXCEPT !.pos = p])  BY <1>3 DEF NextStep, p
    <2> QED  BY <2>3, <2>4, DispatchOK, Zenon
  <1> QED  BY <1>2, <1>3

LEMMA AlarmsOK ==
  ASSUME NEW h, HostOK(h)
  PROVE  HostOK(SocReset(h)) /\ HostOK(TimerAlarm(h))
  <1> DEFINE t == [h EXCEPT !.timer = TRUE]
             u == [h EXCEPT !.respProcessed = FALSE]
  <1>1. TRUE \in BOOLEAN /\ FALSE \in BOOLEAN /\ "TIMER" \in Failures /\ RESET \in Step
    BY StepFacts DEF Failures
  <1>2. HostOK(t) /\ HostOK(u) /\ HostOK(Fail(h, "TIMER"))  BY <1>1, FlagsOK, Zenon
  <1>3. SocReset(h) = IF erase \/ ~ h.respProcessed THEN AskReset(t) ELSE ScheduleNext(t)
    BY DEF SocReset
  <1> HIDE DEF t, u
  <1>4. HostOK(AskReset(t)) /\ HostOK(ScheduleNext(t)) /\ HostOK(Dispatch(u))
    BY <1>1, <1>2, AskOK, FlagsOK, DispatchOK, Zenon
  <1>5. TimerAlarm(h) = IF h.pos > VERSION THEN Fail(h, "TIMER") ELSE Dispatch(u)
    BY DEF TimerAlarm, u
  <1> QED  BY <1>2, <1>3, <1>4, <1>5

LEMMA ResetHandlersOK ==
  ASSUME NEW h, HostOK(h), NEW c \in BOOLEAN
  PROVE  HostOK(HandleResetResponse(h, c)) /\ HostOK(HandleResetIndication(h))
  <1>1. TRUE \in BOOLEAN /\ FALSE \in BOOLEAN /\ "RESET_RESPONSE" \in Failures  BY DEF Failures
  <1>2. HostOK(ScheduleNext(h)) /\ HostOK(Fail(h, "RESET_RESPONSE")) /\ HostOK([h EXCEPT !.respProcessed = TRUE])
    BY <1>1, FlagsOK, Zenon
  <1>3. \A d \in BOOLEAN : HostOK(HandleResetResponse(h, d))
    BY <1>2 DEF HandleResetResponse
  <1>4. HostOK(HandleResetIndication(h))  BY <1>1, <1>2, <1>3 DEF HandleResetIndication
  <1> QED  BY <1>3, <1>4

LEMMA FinishOK ==
  ASSUME NEW h, HostOK(h)
  PROVE  HostOK(Finish(h))
  <1>1. Typed(MarkFinished(h.hl))  BY MarkFinishedTyped DEF HostOK
  <1> QED  BY <1>1, NewHL, Zenon DEF Finish

LEMMA HandleOK ==
  ASSUME NEW h, HostOK(h), NEW msg \in Message
  PROVE  HostOK(Handle(h, msg))
  <1>1. TRUE \in BOOLEAN /\ FALSE \in BOOLEAN /\ "STEP" \in Failures  BY DEF Failures
  <1>2. HostOK(HandleResetIndication(h))  BY <1>1, ResetHandlersOK, Zenon
  <1>3. HostOK(ResetResponse(h))
    <2> DEFINE u == [h EXCEPT !.pending = FALSE]
    <2>1. HostOK(u)  BY <1>1, FlagsOK, Zenon
    <2>2. ResetResponse(h) = IF h.pending THEN HandleResetResponse(Finish(u), TRUE) ELSE u
      BY DEF ResetResponse
    <2> HIDE DEF u
    <2>3. HostOK(HandleResetResponse(Finish(u), TRUE))
      BY <1>1, <2>1, FinishOK, ResetHandlersOK, Zenon
    <2> QED  BY <2>1, <2>2, <2>3
  <1>4. HostOK(VersionResponse(h))
    <2>1. HostOK([Finish(h) EXCEPT !.timer = FALSE])  BY <1>1, FinishOK, FlagsOK, Zenon
    <2> QED  BY <1>1, <2>1, FlagsOK, Zenon DEF VersionResponse
  <1>5. HostOK(StepResponse(h, msg))
    <2>1. HostOK(Finish(h)) /\ HostOK(Fail(h, "STEP")) /\ HostOK(ScheduleNext(Finish(h)))
      BY <1>1, FinishOK, FlagsOK, Zenon
    <2> QED  BY <2>1 DEF StepResponse
  <1> QED  BY <1>2, <1>3, <1>4, <1>5 DEF Handle

LEMMA InitTransportOK ==
  ASSUME NEW h, HostOK(h), NEW param \in {"FIRST", "REINIT"}, NEW ok \in BOOLEAN
  PROVE  HostOK(InitTransport(h, param, ok))
  <1> DEFINE g == ProtoInit(h.hl)
             v == [h EXCEPT !.hl = g]
             u == [v EXCEPT !.retry = "NONE"]
  <1>1. Typed(g)  BY ProtoInitTyped DEF HostOK
  <1> HIDE DEF g
  <1>2. HostOK(v)  BY <1>1, NewHL, Zenon
  <1>3. u = [h EXCEPT !.hl = g, !.retry = "NONE"]  BY DEF HostOK, Host
  <1> HIDE DEF v
  <1>4. ASSUME NEW x, HostOK(x), NEW r \in {"NONE", "FIRST", "REINIT"}
        PROVE  HostOK([x EXCEPT !.retry = r])
    <2>1. Typed(x.hl) /\ 0 \in Nat /\ 0 \in 0..STEPS /\ "NONE" \in Failures /\ TRUE \in BOOLEAN
      BY <1>4, StepFacts DEF Failures, HostOK
    <2> QED  BY <1>4, <2>1, FieldsOK, Zenon
  <1>5. HostOK(u) /\ HostOK([u EXCEPT !.retry = param])
    <2>1. HostOK(u)  BY <1>2, <1>4
    <2> HIDE DEF u
    <2> QED  BY <1>4, <2>1
  <1> HIDE DEF u
  <1>6. HostOK(Dispatch(u)) /\ HostOK(Fail(u, "SERIAL"))
    <2>1. "SERIAL" \in Failures /\ TRUE \in BOOLEAN  BY DEF Failures
    <2> QED  BY <1>5, <2>1, DispatchOK, FlagsOK, Zenon
  <1>7. InitTransport(h, param, ok) \in {Dispatch(u), u, [u EXCEPT !.retry = param], Fail(u, "SERIAL")}
    BY <1>3 DEF InitTransport, g
  <1> QED  BY <1>5, <1>6, <1>7

----------------------------------------------------------------------------
(* The type invariant.                                                     *)

TypeInv == TypeOK /\ HostOK(host)

LEMMA InitTypes == Init => TypeInv
  <1> SUFFICES ASSUME Init PROVE TypeInv  OBVIOUS
  <1>1. Typed(HLInit)
    <2>1. FreeBuffer \in TxBuffer /\ NoPkt \in Packet /\ FreeBuffer.id = 0 /\ NoPkt.id = 0
      BY BufferTypes DEF FreeBuffer, NoPkt
    <2>2. << >> \in Seq(Buf) /\ 0 \in Tsn /\ 0 \in Step  BY HLConstants, StepFacts DEF Tsn
    <2> QED  BY <2>1, <2>2 DEF HLInit, HLState, Typed
  <1>2. HostOK(host)
    <2>1. RESET \in 0..STEPS /\ 0 \in Nat  BY StepFacts DEF RESET
    <2>2. HLInit \in HLState  BY <1>1 DEF Typed
    <2>3. host \in Host  BY <2>1, <2>2 DEF Init, Host, Failures
    <2>4. host.hl = HLInit  BY DEF Init
    <2> QED  BY <1>1, <2>3, <2>4 DEF HostOK
  <1>3. 0 \in 0..MaxLost /\ 0 \in 0..MaxLate /\ 0 \in 0..MaxExtra /\ 0 \in 0..MaxErrors
        /\ 0 \in 0..MaxAway
    BY StartupConstants
  <1>4. host \in Host /\ << >> \in Seq(Step) /\ << >> \in Seq(Message)  BY <1>2 DEF HostOK
  <1>5. TypeOK  BY <1>3, <1>4 DEF Init, TypeOK
  <1> QED  BY <1>2, <1>5 DEF TypeInv

LEMMA HostSteps ==
  ASSUME TypeInv, Callback \/ ResetAlarm \/ Timer \/ (\E ok, repeated \in BOOLEAN : RetryInit(ok, repeated))
  PROVE  HostOK(host')
  <1>1. HostOK(host) /\ host \in Host /\ TRUE \in BOOLEAN /\ FALSE \in BOOLEAN
    BY DEF TypeInv, HostOK
  <1>2. CASE Callback
    <2> DEFINE n == host.calls - 1
               u == [host EXCEPT !.calls = n]
    <2>1. n \in Nat  BY <1>1, <1>2 DEF Callback, Host
    <2>2. host' = NextStep(u)  BY <1>2 DEF Callback
    <2> HIDE DEF n
    <2>3. HostOK(u)  BY <1>1, <2>1, FlagsOK, Zenon
    <2> HIDE DEF u
    <2>4. HostOK(NextStep(u))  BY <2>3, NextStepOK, Zenon
    <2> QED  BY <2>2, <2>4
  <1>3. CASE ResetAlarm
    <2> DEFINE u == [host EXCEPT !.resetAlarm = FALSE]
    <2>1. HostOK(u) /\ host' = SocReset(u)  BY <1>1, <1>3, FlagsOK, Zenon DEF ResetAlarm
    <2> HIDE DEF u
    <2>2. HostOK(SocReset(u))  BY <2>1, AlarmsOK, Zenon
    <2> QED  BY <2>1, <2>2
  <1>4. CASE Timer
    <2> DEFINE u == [host EXCEPT !.timer = FALSE]
    <2>1. HostOK(u) /\ host' = TimerAlarm(u)  BY <1>1, <1>4, FlagsOK, Zenon DEF Timer
    <2> HIDE DEF u
    <2>2. HostOK(TimerAlarm(u))  BY <2>1, AlarmsOK, Zenon
    <2> QED  BY <2>1, <2>2
  <1>5. CASE \E ok, repeated \in BOOLEAN : RetryInit(ok, repeated)
    <2>1. PICK ok \in BOOLEAN, repeated \in BOOLEAN : RetryInit(ok, repeated)  BY <1>5
    <2>2. host.retry \in {"FIRST", "REINIT"} /\ host' = InitTransport(host, host.retry, ok)
      BY <1>1, <2>1 DEF RetryInit, Host
    <2>3. HostOK(InitTransport(host, host.retry, ok))  BY <1>1, <2>2, InitTransportOK, Zenon
    <2> QED  BY <2>2, <2>3
  <1> QED  BY <1>2, <1>3, <1>4, <1>5

LEMMA ReadErrorTypes ==
  ASSUME TypeInv, NEW ok \in BOOLEAN, NEW repeated \in BOOLEAN, ReadError(ok, repeated)
  PROVE  TypeInv'
  <1>1. HostOK(host) /\ TRUE \in BOOLEAN /\ "SERIAL" \in Failures /\ "REINIT" \in {"FIRST", "REINIT"}
    BY DEF TypeInv, Failures
  <1>2. HostOK(Fail(host, "SERIAL")) /\ HostOK(InitTransport(host, "REINIT", ok))
    BY <1>1, FlagsOK, InitTransportOK, Zenon
  <1>3. HostOK(host')  BY <1>2 DEF ReadError
  <1>4. errors' \in 0..MaxErrors  BY StartupConstants, SMTT(30) DEF ReadError, TypeInv, TypeOK
  <1>5. toSoc' \in Seq(Step) /\ toHost' \in Seq(Message)
    BY DEF ReadError, PortRestarts, TypeInv, TypeOK
  <1> QED  BY <1>3, <1>4, <1>5 DEF ReadError, TypeInv, TypeOK, HostOK, soc

LEMMA QuantumTypes ==
  ASSUME TypeInv, NEW takes \in BOOLEAN, NEW receives \in BOOLEAN, Quantum(takes, receives)
  PROVE  TypeInv'
  <1> DEFINE h == IF receives THEN Handle(host, Head(toHost)) ELSE host
  <1>1. HostOK(host) /\ toHost \in Seq(Message) /\ toSoc \in Seq(Step)  BY DEF TypeInv, TypeOK
  <1>2. receives => Head(toHost) \in Message /\ Tail(toHost) \in Seq(Message)
    BY <1>1, HeadTailProperties DEF Quantum
  <1>3. HostOK(h)  BY <1>1, <1>2, HandleOK, Zenon
  <1>4. host' = [h EXCEPT !.hl = EndOfQuantum(h.hl, takes)]  BY DEF Quantum
  <1> HIDE DEF h
  <1>5. HostOK(host')
    <2> DEFINE g == EndOfQuantum(h.hl, takes)
    <2>1. Typed(g)  BY <1>3, EndOfQuantumTyped DEF HostOK
    <2>2. host' = [h EXCEPT !.hl = g]  BY <1>4
    <2> HIDE DEF g
    <2> QED  BY <1>3, <2>1, <2>2, NewHL
  <1>6. toSoc' \in Seq(Step)
    <2>1. host.hl.div.id \in Step  BY <1>1 DEF HostOK, Typed
    <2>2. Append(toSoc, host.hl.div.id) \in Seq(Step)  BY <1>1, <2>1
    <2> QED  BY <1>1, <2>2 DEF Quantum
  <1>7. toHost' \in Seq(Message)  BY <1>1, <1>2 DEF Quantum
  <1>8. answered' \subseteq Step  BY DEF Quantum, TypeInv, TypeOK
  <1> QED  BY <1>5, <1>6, <1>7, <1>8 DEF Quantum, TypeInv, TypeOK, HostOK

LEMMA SocTypes ==
  ASSUME TypeInv,
         \/ GiveUp \/ SocReceive
         \/ \E again \in BOOLEAN : SocAnswer(again)
         \/ \E msg \in {RESET, RESET_IND} : SocRestarts(msg)
  PROVE  TypeInv'
  <1>1. /\ HostOK(host) /\ toSoc \in Seq(Step) /\ atSoc \in Seq(Step) /\ toHost \in Seq(Message)
        /\ lost \in Nat /\ late \in Nat /\ extra \in Nat /\ told \in BOOLEAN /\ TypeOK
    BY StartupConstants DEF TypeInv, TypeOK
  <1>2. CASE GiveUp
    <2>1. Tail(toSoc) \in Seq(Step)  BY <1>1, <1>2, HeadTailProperties DEF GiveUp
    <2>2. lost' \in 0..MaxLost  BY <1>1, <1>2, StartupConstants, SMTT(30) DEF GiveUp
    <2> QED  BY <1>1, <1>2, <2>1, <2>2 DEF GiveUp, TypeInv, TypeOK
  <1>3. CASE SocReceive
    <2>1. Tail(toSoc) \in Seq(Step) /\ Head(toSoc) \in Step
      BY <1>1, <1>3, HeadTailProperties DEF SocReceive
    <2>2. <<RESET>> \in Seq(Step) /\ Append(atSoc, Head(toSoc)) \in Seq(Step)
      BY <1>1, <2>1, StepFacts
    <2> QED  BY <1>1, <1>3, <2>1, <2>2 DEF SocReceive, TypeInv, TypeOK
  <1>4. ASSUME NEW again \in BOOLEAN, SocAnswer(again) PROVE TypeInv'
    <2>1. Tail(atSoc) \in Seq(Step) /\ Head(atSoc) \in Message
      BY <1>1, <1>4, HeadTailProperties DEF SocAnswer, Message
    <2>2. <<RESET, RESET>> \in Seq(Message) /\ <<Head(atSoc)>> \in Seq(Message)
      BY <2>1, StepFacts DEF Message
    <2>3. toHost' \in Seq(Message)  BY <1>1, <1>4, <2>2 DEF SocAnswer
    <2>4. extra' \in 0..MaxExtra  BY <1>1, <1>4, StartupConstants, SMTT(30) DEF SocAnswer, TypeOK
    <2>5. told' \in BOOLEAN  BY <1>1, <1>4 DEF SocAnswer
    <2> QED  BY <1>1, <1>4, <2>1, <2>3, <2>4, <2>5 DEF SocAnswer, TypeInv, TypeOK
  <1>5. ASSUME NEW msg \in {RESET, RESET_IND}, SocRestarts(msg) PROVE TypeInv'
    <2>1. msg \in Message  BY <1>5, StepFacts DEF Message
    <2>2. Append(toHost, msg) \in Seq(Message) /\ << >> \in Seq(Step)  BY <1>1, <2>1
    <2>3. extra' \in 0..MaxExtra /\ lost' \in 0..MaxLost /\ late' \in 0..MaxLate
      <3>0. /\ MaxExtra \in Nat /\ MaxLost \in Nat /\ MaxLate \in Nat
            /\ extra \in 0..MaxExtra /\ lost \in 0..MaxLost /\ late \in 0..MaxLate
        BY <1>1, StartupConstants DEF TypeOK
      <3>1. PICK n : n = Len(atSoc) /\ n \in Nat  BY <1>1, LenProperties
      <3>2. extra < MaxExtra /\ extra' = extra + 1  BY <1>5 DEF SocRestarts
      <3>3. lost + n <= MaxLost /\ lost' = lost + n  BY <1>5, <3>1 DEF SocRestarts
      <3>4. late' = late \/ (late < MaxLate /\ late' = late + 1)
        <4>1. CASE told  BY <1>5, <4>1 DEF SocRestarts
        <4>2. CASE ~ told
          <5>1. late' = late + 0  BY <1>5, <4>2 DEF SocRestarts
          <5> QED  BY <3>0, <5>1
        <4> QED  BY <4>1, <4>2
      <3> QED  BY <3>0, <3>1, <3>2, <3>3, <3>4
    <2> QED  BY <1>1, <1>5, <2>2, <2>3 DEF SocRestarts, TypeInv, TypeOK
  <1> QED  BY <1>2, <1>3, <1>4, <1>5

LEMMA NextTypes == TypeInv /\ [Next]_vars => TypeInv'
  <1> SUFFICES ASSUME TypeInv, [Next]_vars PROVE TypeInv'  OBVIOUS
  <1>1. CASE Callback \/ ResetAlarm \/ Timer \/ (\E ok, repeated \in BOOLEAN : RetryInit(ok, repeated))
    <2>1. HostOK(host')  BY <1>1, HostSteps
    <2>2. late' \in 0..MaxLate /\ away' \in 0..MaxAway
      <3>0. MaxLate \in Nat /\ MaxAway \in Nat /\ late \in 0..MaxLate /\ away \in 0..MaxAway
        BY StartupConstants DEF TypeInv, TypeOK
      <3>1. CASE Timer
        <4>1. /\ Quiet \/ late < MaxLate
              /\ late' = late + IF Quiet THEN 0 ELSE 1
          BY <3>1, Zenon DEF Timer
        <4>2. /\ host.retry # "NONE" => away < MaxAway
              /\ away' = away + IF host.retry # "NONE" THEN 1 ELSE 0
          BY <3>1, Zenon DEF Timer
        <4>3. late' \in 0..MaxLate  BY <3>0, <4>1
        <4>4. away' \in 0..MaxAway  BY <3>0, <4>2
        <4> QED  BY <4>3, <4>4
      <3>2. CASE ~ Timer
        <4>1. late' = late /\ away' = away
          BY <1>1, <3>2, Zenon DEF Callback, ResetAlarm, RetryInit
        <4> QED  BY <3>0, <4>1
      <3> QED  BY <3>1, <3>2
    <2>3. toSoc' \in Seq(Step) /\ toHost' \in Seq(Message)
      <3>1. toSoc \in Seq(Step) /\ toHost \in Seq(Message) /\ << >> \in Seq(Step) /\ << >> \in Seq(Message)
        BY DEF TypeInv, TypeOK
      <3>2. /\ toSoc' = toSoc \/ toSoc' = << >>
            /\ toHost' = toHost \/ toHost' = << >>
        BY <1>1 DEF Callback, ResetAlarm, Timer, RetryInit, PortRestarts, soc
      <3> QED  BY <3>1, <3>2
    <2> QED  BY <1>1, <2>1, <2>2, <2>3
             DEF Callback, ResetAlarm, Timer, RetryInit, TypeInv, TypeOK, HostOK, soc
  <1>2. CASE \E ok, repeated \in BOOLEAN : ReadError(ok, repeated)  BY <1>2, ReadErrorTypes
  <1>3. CASE \E takes, receives \in BOOLEAN : Quantum(takes, receives)  BY <1>3, QuantumTypes
  <1>4. CASE \/ GiveUp \/ SocReceive
             \/ \E again \in BOOLEAN : SocAnswer(again)
             \/ \E msg \in {RESET, RESET_IND} : SocRestarts(msg)
    BY <1>4, SocTypes
  <1>5. CASE UNCHANGED vars  BY <1>5 DEF vars, soc, TypeInv, TypeOK
  <1> QED  BY <1>1, <1>2, <1>3, <1>4, <1>5 DEF Next

LEMMA SpecTypes == Spec => []TypeInv
  <1>1. Init => TypeInv  BY InitTypes
  <1>2. TypeInv /\ [Next]_vars => TypeInv'  BY NextTypes
  <1> QED  BY <1>1, <1>2, PTL DEF Spec

\* The start-up's state keeps its types, whatever is lost, late or repeated: the
\* ids of the requests, wherever they are, are those of steps, and the count of
\* scheduled callbacks never goes below zero (ncp_host_startup.c).
THEOREM StartupTypeOK == Spec => []TypeOK
  <1>1. TypeInv => TypeOK  BY DEF TypeInv
  <1> QED  BY <1>1, SpecTypes, PTL

(* Before the port is open nothing is under way in the host: only then is   *)
(* init_transport still to be called for the first time.                    *)

Opened(h) == h.retry = "FIRST" => ~ h.timer /\ h.calls = 0 /\ ~ h.resetAlarm

\* Only init_transport is concerned with its own retry.
LEMMA RetryKept ==
  ASSUME NEW h, HostOK(h)
  PROVE  /\ Dispatch(h).retry = h.retry /\ NextStep(h).retry = h.retry
         /\ SocReset(h).retry = h.retry /\ TimerAlarm(h).retry = h.retry
         /\ \A m \in Message : Handle(h, m).retry = h.retry
  <1>1. h \in Host  BY DEF HostOK
  <1>2. ASSUME NEW x \in Host, NEW why PROVE Fail(x, why).retry = x.retry
    BY DEF Fail, Host
  <1>3. ASSUME NEW x \in Host PROVE ScheduleNext(x).retry = x.retry
    BY DEF ScheduleNext, Host
  <1>4. ASSUME NEW x \in Host, NEW i PROVE Ask(x, i).retry = x.retry
    <2> DEFINE g == Request(x.hl, TRUE, i)
    <2> HIDE DEF g
    <2>1. [x EXCEPT !.hl = g].retry = x.retry  BY DEF Host
    <2> QED  BY <1>2, <2>1 DEF Ask, g
  <1>5. ASSUME NEW x \in Host PROVE Dispatch(x).retry = x.retry
    <2>1. [x EXCEPT !.resetAlarm = TRUE].retry = x.retry  BY DEF Host
    <2> QED  BY <1>3, <1>4, <2>1 DEF Dispatch
  <1>6. NextStep(h).retry = h.retry
    <2> DEFINE x == [h EXCEPT !.pos = @ + 1]
    <2>1. h.pos # DONE => x \in Host /\ x.retry = h.retry
      BY <1>1, StepFacts DEF Host, DONE
    <2> HIDE DEF x
    <2> QED  BY <1>5, <2>1 DEF NextStep, x
  <1>7. SocReset(h).retry = h.retry
    <2> DEFINE x == [h EXCEPT !.timer = TRUE]
    <2>1. x \in Host /\ x.retry = h.retry  BY <1>1 DEF Host
    <2> HIDE DEF x
    <2>2. AskReset(x).retry = x.retry
      <3> DEFINE y == Ask(x, RESET)
      <3>1. FreeBufs(x.hl) # {} => [y EXCEPT !.pending = TRUE].retry = y.retry
        <4> DEFINE g == Request(x.hl, TRUE, RESET)
        <4> HIDE DEF g
        <4>1. FreeBufs(x.hl) # {} => y = [x EXCEPT !.hl = g]  BY DEF Ask, g
        <4>2. [[x EXCEPT !.hl = g] EXCEPT !.pending = TRUE].retry = [x EXCEPT !.hl = g].retry
          BY <2>1 DEF Host
        <4> HIDE DEF y
        <4> QED  BY <4>1, <4>2
      <3>2. y.retry = x.retry  BY <1>4, <2>1
      <3> HIDE DEF y
      <3> QED  BY <3>1, <3>2 DEF AskReset, y
    <2> QED  BY <1>3, <2>1, <2>2 DEF SocReset, x
  <1>8. TimerAlarm(h).retry = h.retry
    <2> DEFINE x == [h EXCEPT !.respProcessed = FALSE]
    <2>1. x \in Host /\ x.retry = h.retry  BY <1>1 DEF Host
    <2> HIDE DEF x
    <2> QED  BY <1>1, <1>2, <1>5, <2>1 DEF TimerAlarm, x
  <1>9. ASSUME NEW x, HostOK(x) PROVE HostOK(Finish(x)) /\ Finish(x).retry = x.retry
    <2>1. HostOK(Finish(x))  BY <1>9, FinishOK, Zenon
    <2> DEFINE g == MarkFinished(x.hl)
    <2> HIDE DEF g
    <2>2. [x EXCEPT !.hl = g].retry = x.retry  BY <1>9 DEF HostOK, Host
    <2> QED  BY <2>1, <2>2 DEF Finish, g
  <1>10. ASSUME NEW x \in Host, NEW b \in BOOLEAN PROVE HandleResetResponse(x, b).retry = x.retry
    BY <1>2, <1>3 DEF HandleResetResponse
  <1>11. ASSUME NEW m \in Message PROVE Handle(h, m).retry = h.retry
    <2>1. HandleResetIndication(h).retry = h.retry
      <3>1. [h EXCEPT !.respProcessed = TRUE].retry = h.retry /\ FALSE \in BOOLEAN
        BY <1>1 DEF Host
      <3> QED  BY <1>1, <1>10, <3>1 DEF HandleResetIndication
    <2>2. ResetResponse(h).retry = h.retry
      <3> DEFINE x == [h EXCEPT !.pending = FALSE]
      <3>1. FALSE \in BOOLEAN /\ TRUE \in BOOLEAN  OBVIOUS
      <3>2. HostOK(x)  BY <3>1, FlagsOK, Zenon
      <3>3. x.retry = h.retry  BY <1>1 DEF Host
      <3> HIDE DEF x
      <3>4. Finish(x) \in Host /\ Finish(x).retry = x.retry  BY <1>9, <3>2 DEF HostOK
      <3>5. HandleResetResponse(Finish(x), TRUE).retry = x.retry  BY <1>10, <3>1, <3>4
      <3> QED  BY <3>3, <3>5 DEF ResetResponse, x
    <2>3. VersionResponse(h).retry = h.retry
      <3> DEFINE f == Finish(h)
                 x == [f EXCEPT !.timer = FALSE]
      <3>1. f \in Host /\ f.retry = h.retry  BY <1>9 DEF HostOK
      <3> HIDE DEF f
      <3>2. x \in Host /\ x.retry = f.retry  BY <3>1 DEF Host
      <3> HIDE DEF x
      <3>3. ScheduleNext(x).retry = x.retry  BY <1>3, <3>2
      <3> QED  BY <3>1, <3>2, <3>3 DEF VersionResponse, x, f
    <2>4. StepResponse(h, m).retry = h.retry
      <3>1. Finish(h) \in Host /\ Finish(h).retry = h.retry  BY <1>9 DEF HostOK
      <3>2. Fail(h, "STEP").retry = h.retry /\ ScheduleNext(Finish(h)).retry = h.retry
        BY <1>1, <1>2, <1>3, <3>1
      <3> QED  BY <3>1, <3>2 DEF StepResponse
    <2> QED  BY <2>1, <2>2, <2>3, <2>4 DEF Handle
  <1> QED  BY <1>1, <1>5, <1>6, <1>7, <1>8, <1>11

LEMMA NextOpened ==
  ASSUME TypeInv, Opened(host), [Next]_vars
  PROVE  Opened(host')
  <1>1. HostOK(host) /\ host \in Host /\ TRUE \in BOOLEAN /\ FALSE \in BOOLEAN
    BY DEF TypeInv, HostOK
  <1>2. CASE Callback
    <2> DEFINE n == host.calls - 1
               u == [host EXCEPT !.calls = n]
    <2>1. n \in Nat  BY <1>1, <1>2 DEF Callback, Host
    <2>2. host' = NextStep(u) /\ host.retry # "FIRST"  BY <1>2 DEF Callback, Opened
    <2> HIDE DEF n
    <2>3. HostOK(u)  BY <1>1, <2>1, FlagsOK, Zenon
    <2>4. u.retry = host.retry  BY <1>1 DEF Host
    <2> HIDE DEF u
    <2> QED  BY <2>2, <2>3, <2>4, RetryKept DEF Opened
  <1>3. CASE ResetAlarm
    <2> DEFINE u == [host EXCEPT !.resetAlarm = FALSE]
    <2>1. host' = SocReset(u) /\ host.retry # "FIRST"  BY <1>3 DEF ResetAlarm, Opened
    <2>2. HostOK(u)  BY <1>1, FlagsOK, Zenon
    <2>3. u.retry = host.retry  BY <1>1 DEF Host
    <2> HIDE DEF u
    <2> QED  BY <2>1, <2>2, <2>3, RetryKept DEF Opened
  <1>4. CASE Timer
    <2> DEFINE u == [host EXCEPT !.timer = FALSE]
    <2>1. host' = TimerAlarm(u) /\ host.retry # "FIRST"  BY <1>4 DEF Timer, Opened
    <2>2. HostOK(u)  BY <1>1, FlagsOK, Zenon
    <2>3. u.retry = host.retry  BY <1>1 DEF Host
    <2> HIDE DEF u
    <2> QED  BY <2>1, <2>2, <2>3, RetryKept DEF Opened
  <1>5. ASSUME NEW param \in {"FIRST", "REINIT"}, NEW ok \in BOOLEAN,
               param = "FIRST" => host.retry = "FIRST",
               host' = InitTransport(host, param, ok)
        PROVE  Opened(host')
    <2> DEFINE g == ProtoInit(host.hl)
               v == [host EXCEPT !.hl = g]
               u == [v EXCEPT !.retry = "NONE"]
    <2>1. Typed(g)  BY <1>1, ProtoInitTyped DEF HostOK
    <2> HIDE DEF g
    <2>2. HostOK(v)  BY <1>1, <2>1, NewHL, Zenon
    <2>3. HostOK(u)
      <3>1. Typed(v.hl) /\ 0 \in Nat /\ 0 \in 0..STEPS /\ "NONE" \in Failures
            /\ "NONE" \in {"NONE", "FIRST", "REINIT"}
        BY <2>2, StepFacts DEF Failures, HostOK
      <3> HIDE DEF v
      <3> QED  BY <1>1, <2>2, <3>1, FieldsOK, Zenon
    <2>4. /\ u.retry = "NONE" /\ u.timer = host.timer /\ u.calls = host.calls
          /\ u.resetAlarm = host.resetAlarm /\ u = [host EXCEPT !.hl = g, !.retry = "NONE"]
      BY <1>1 DEF Host
    <2> HIDE DEF v
    <2>5. host' \in {Dispatch(u), u, [u EXCEPT !.retry = param], Fail(u, "SERIAL")}
      BY <1>5, <2>4 DEF InitTransport, g
    <2> HIDE DEF u
    <2>6. Dispatch(u).retry = "NONE" /\ Fail(u, "SERIAL").retry = "NONE"
      <3>1. Fail(u, "SERIAL").retry = u.retry  BY <2>3 DEF Fail, HostOK, Host
      <3> QED  BY <2>3, <2>4, <3>1, RetryKept
    <2>7. Opened([u EXCEPT !.retry = param])
      <3> DEFINE x == [u EXCEPT !.retry = param]
      <3>1. x.retry = param /\ x.timer = u.timer /\ x.calls = u.calls /\ x.resetAlarm = u.resetAlarm
        BY <2>3 DEF HostOK, Host
      <3> HIDE DEF x
      <3>2. Opened(x)  BY <1>5, <2>4, <3>1 DEF Opened
      <3> QED  BY <3>2 DEF x
    <2> QED  BY <2>4, <2>5, <2>6, <2>7 DEF Opened
  <1>6. ASSUME NEW ok \in BOOLEAN, NEW repeated \in BOOLEAN, RetryInit(ok, repeated)
        PROVE  Opened(host')
    BY <1>1, <1>5, <1>6 DEF RetryInit, Host
  <1>7. ASSUME NEW ok \in BOOLEAN, NEW repeated \in BOOLEAN, ReadError(ok, repeated)
        PROVE  Opened(host')
    <2>1. CASE host.pos = RESET
      BY <1>5, <1>7, <2>1 DEF ReadError
    <2>2. CASE host.pos # RESET
      <3>1. host' = Fail(host, "SERIAL") /\ host.retry = "NONE"  BY <1>7, <2>2 DEF ReadError
      <3>2. host'.retry = "NONE"  BY <1>1, <3>1 DEF Fail, Host
      <3> QED  BY <3>2 DEF Opened
    <2> QED  BY <2>1, <2>2
  <1>8. ASSUME NEW takes \in BOOLEAN, NEW receives \in BOOLEAN, Quantum(takes, receives)
        PROVE  Opened(host')
    <2> DEFINE h == IF receives THEN Handle(host, Head(toHost)) ELSE host
               g == EndOfQuantum(h.hl, takes)
    <2>1. HostOK(h) /\ h.retry = host.retry /\ (receives => h.retry = "NONE")
          /\ (~ receives => h = host)
      <3>1. CASE receives
        <4>1. toHost \in Seq(Message) /\ toHost # << >> /\ host.retry = "NONE"
          BY <1>8, <3>1 DEF Quantum, TypeInv, TypeOK
        <4>2. Head(toHost) \in Message  BY <4>1, HeadTailProperties
        <4>3. HostOK(Handle(host, Head(toHost)))  BY <1>1, <4>2, HandleOK, Zenon
        <4>4. Handle(host, Head(toHost)).retry = host.retry  BY <1>1, <4>2, RetryKept
        <4> QED  BY <3>1, <4>1, <4>3, <4>4
      <3>2. CASE ~ receives  BY <1>1, <3>2
      <3> QED  BY <3>1, <3>2
    <2>2. host' = [h EXCEPT !.hl = g]  BY <1>8 DEF Quantum
    <2> HIDE DEF g, h
    <2>3. /\ host'.retry = h.retry /\ host'.timer = h.timer /\ host'.calls = h.calls
          /\ host'.resetAlarm = h.resetAlarm
      BY <2>1, <2>2 DEF HostOK, Host
    <2> QED  BY <2>1, <2>3 DEF Opened
  <1>9. CASE \/ GiveUp \/ SocReceive
             \/ \E again \in BOOLEAN : SocAnswer(again)
             \/ \E msg \in {RESET, RESET_IND} : SocRestarts(msg)
    <2>1. host' = host  BY <1>9 DEF GiveUp, SocReceive, SocAnswer, SocRestarts
    <2> QED  BY <2>1
  <1>10. CASE UNCHANGED vars  BY <1>10 DEF vars
  <1> QED  BY <1>2, <1>3, <1>4, <1>6, <1>7, <1>8, <1>9, <1>10 DEF Next

(* What one step of the queues does to the only request under way. *)

AskedId(h) == h.pool[Head(h.bq)].id

\* A blocking request made while no other is under way.
LEMMA RequestAlone ==
  ASSUME NEW h, HLInv(h), Busy(h), h.bq = << >>, h.nq = << >>, NEW id \in Nat
  PROVE  LET r == Request(h, TRUE, id)
         IN /\ FreeBufs(h) # {}
            /\ HLInv(r) /\ Busy(r) /\ r.nq = << >> /\ Len(r.bq) = 1 /\ r.bq # << >>
            /\ AskedId(r) = id
            /\ h.active => r.div = h.div /\ r.active /\ ~ HeadWaits(r)
            /\ ~ h.active => HeadWaits(r) /\ r.div.id = id /\ r.div # NoPkt
  <1> DEFINE b == FindFree(h)
             u == GetRequestBuffer(h, b, TRUE, id)
             r == Request(h, TRUE, id)
             p == [id |-> id, tsn |-> u.pool[b].tsn, blocking |-> TRUE]
             w == [LLSendPacket(u, b, TRUE) EXCEPT !.active = TRUE]
  <1>1. FreeBufs(h) # {}
    <2>1. \A c \in Buf : h.pool[c].status = "FREE"  BY DEF HLInv, AllQueued, InSeq
    <2>2. 1 \in Buf  BY HLConstants DEF Buf
    <2> QED  BY <2>1, <2>2 DEF FreeBufs
  <1>2. b \in Buf /\ b \in FreeBufs(h)  BY <1>1, FindFreeIsFree DEF FreeBufs
  <1>0. r = SendPacket(u, b)  BY DEF Request
  <1> HIDE DEF b
  <1>3. HLInv(r) /\ Busy(r)
    <2>1. TRUE \in BOOLEAN  OBVIOUS
    <2> QED  BY <1>1, <2>1, RequestInv
  <1>4. /\ u.bq = h.bq /\ u.nq = h.nq /\ u.active = h.active /\ u.div = h.div /\ u \in HLState
        /\ u.pool[b].status = "RESERVED_BLOCKING"
        /\ u.pool[b].id = id
    <2>1. TRUE \in BOOLEAN /\ h \in HLState  BY DEF HLInv
    <2>2. ASSUME NEW c \in BOOLEAN, c
          PROVE  /\ HLInvBut(GetRequestBuffer(h, b, c, id), b)
                 /\ GetRequestBuffer(h, b, c, id).bq = h.bq
                 /\ GetRequestBuffer(h, b, c, id).nq = h.nq
                 /\ GetRequestBuffer(h, b, c, id).active = h.active
                 /\ GetRequestBuffer(h, b, c, id).div = h.div
                 /\ GetRequestBuffer(h, b, c, id).pool[b].status = "RESERVED_BLOCKING"
      <3>1. /\ HLInvBut(GetRequestBuffer(h, b, c, id), b)
            /\ GetRequestBuffer(h, b, c, id).bq = h.bq
            /\ GetRequestBuffer(h, b, c, id).nq = h.nq
            /\ GetRequestBuffer(h, b, c, id).active = h.active
            /\ GetRequestBuffer(h, b, c, id).div = h.div
            /\ GetRequestBuffer(h, b, c, id).pool[b].status
                 = IF c THEN "RESERVED_BLOCKING" ELSE "RESERVED_NONBLOCKING"
        BY <1>2, GetRequestBufferInv
      <3> QED  BY <2>2, <3>1
    <2>3. u.pool[b].id = id  BY <1>2, <2>1 DEF GetRequestBuffer, HLState
    <2>4. /\ HLInvBut(u, b)
          /\ u.bq = h.bq /\ u.nq = h.nq /\ u.active = h.active /\ u.div = h.div
          /\ u.pool[b].status = "RESERVED_BLOCKING"
      BY <2>1, <2>2, Zenon
    <2> QED  BY <2>3, <2>4 DEF HLInvBut
  <1>5. r = IF h.active THEN PutInQueue(u, b, TRUE, "WAIT_SENDING") ELSE SendDirectly(u, b, TRUE)
    BY <1>0, <1>4 DEF SendPacket, MustQueue
  <1>6. Len(h.bq) = 0 /\ 0 < POOL_SIZE /\ Append(h.bq, b) = << b >>  BY HLConstants
  <1>7. ASSUME NEW x \in HLState, x.bq = h.bq, NEW s \in BufStatus
        PROVE  /\ PutInQueue(x, b, TRUE, s).bq = << b >>
               /\ PutInQueue(x, b, TRUE, s).nq = x.nq
               /\ PutInQueue(x, b, TRUE, s).div = x.div
               /\ PutInQueue(x, b, TRUE, s).active = x.active
               /\ PutInQueue(x, b, TRUE, s).pool[b].status = s
               /\ PutInQueue(x, b, TRUE, s).pool[b].id = x.pool[b].id
    <2> DEFINE y == PutInQueue(x, b, TRUE, s)
               z == SetStatus(x, b, s)
    <2>1. y = [z EXCEPT !.bq = Append(@, b)]  BY <1>6, <1>7 DEF PutInQueue, Enqueue
    <2>2. /\ z.bq = h.bq /\ z.nq = x.nq /\ z.div = x.div /\ z.active = x.active /\ z \in HLState
          /\ z.pool[b].status = s /\ z.pool[b].id = x.pool[b].id
      <3> DEFINE q == [x.pool[b] EXCEPT !.status = s]
      <3>1. x.pool[b] \in TxBuffer  BY <1>2, <1>7 DEF HLState
      <3>2. q \in TxBuffer /\ q.status = s /\ q.id = x.pool[b].id
        BY <3>1, BufferTypes DEF TxBuffer
      <3>3. z = [x EXCEPT !.pool[b] = q]  BY <1>7 DEF SetStatus, HLState
      <3> HIDE DEF q, z
      <3> QED  BY <1>2, <1>7, <3>2, <3>3, PoolUpdate
    <2> HIDE DEF z, y
    <2>3. y.bq = << b >>  BY <1>6, <2>1, <2>2 DEF HLState
    <2>4. y.nq = x.nq /\ y.div = x.div /\ y.active = x.active /\ y.pool = z.pool
      BY <2>1, <2>2 DEF HLState
    <2> QED  BY <2>2, <2>3, <2>4 DEF y
  <1>8. {"WAIT_SENDING", "WAIT_RESPONSE"} \subseteq BufStatus  BY DEF BufStatus
  <1> HIDE DEF u, r
  <1>9. /\ r.nq = << >> /\ r.bq = << b >> /\ r.pool[b].id = id
        /\ h.active => r.div = h.div /\ r.active /\ r.pool[b].status = "WAIT_SENDING"
        /\ ~ h.active => r.div = p /\ r.pool[b].status = "WAIT_RESPONSE"
    <2>1. CASE h.active
      <3>1. r = PutInQueue(u, b, TRUE, "WAIT_SENDING")  BY <1>5, <2>1
      <3>2. u \in HLState /\ u.bq = h.bq /\ "WAIT_SENDING" \in BufStatus  BY <1>4, <1>8
      <3>3. /\ r.bq = << b >> /\ r.nq = u.nq /\ r.div = u.div /\ r.active = u.active
            /\ r.pool[b].status = "WAIT_SENDING" /\ r.pool[b].id = u.pool[b].id
        BY <1>7, <3>1, <3>2
      <3> QED  BY <1>4, <2>1, <3>3
    <2>2. CASE ~ h.active
      <3>1. h.div = NoPkt  BY <2>2 DEF HLInv
      <3>2. w \in HLState /\ w.bq = h.bq /\ w.nq = h.nq /\ w.pool = u.pool /\ w.div = p
        <4>1. p \in Packet  BY <1>2, <1>4 DEF HLState, TxBuffer, Packet
        <4>2. w = [u EXCEPT !.div = p, !.active = TRUE]
          BY <1>4, <3>1 DEF LLSendPacket, HLState
        <4> HIDE DEF p, w
        <4> QED  BY <1>4, <4>1, <4>2 DEF HLState
      <3>3. r = PutInQueue(w, b, TRUE, "WAIT_RESPONSE")  BY <1>5, <2>2 DEF SendDirectly
      <3> HIDE DEF w, p
      <3>4. /\ r.bq = << b >> /\ r.nq = w.nq /\ r.div = w.div
            /\ r.pool[b].status = "WAIT_RESPONSE" /\ r.pool[b].id = w.pool[b].id
        BY <1>7, <1>8, <3>2, <3>3
      <3> QED  BY <1>4, <2>2, <3>2, <3>4
    <2> QED  BY <2>1, <2>2
  <1>10. p.id = id /\ p # NoPkt
    <2>1. p.blocking # NoPkt.blocking  BY DEF NoPkt
    <2> QED  BY <2>1
  <1> HIDE DEF p
  <1>11. Head(r.bq) = b /\ Len(r.bq) = 1 /\ r.bq # << >>  BY <1>9
  <1>12. "WAIT_SENDING" # "WAIT_RESPONSE"  OBVIOUS
  <1> QED  BY <1>1, <1>3, <1>9, <1>10, <1>11, <1>12 DEF AskedId, HeadWaits, r

LEMMA FinishAlone ==
  ASSUME NEW h, HLInv(h), Len(h.bq) = 1
  PROVE  LET r == MarkFinished(h)
         IN HLInv(r) /\ r.bq = << >> /\ r.nq = h.nq /\ r.div = h.div /\ r.active = h.active
  <1>0. h \in HLState /\ h.bq \in Seq(Buf)  BY DEF HLInv, HLState
  <1>1. h \in HLState /\ h.bq \in Seq(Buf) /\ h.bq # << >>
    <2>1. Len(<< >>) = 0  OBVIOUS
    <2>2. h.bq = << >> => Len(h.bq) = 0  BY <2>1
    <2> QED  BY <1>0, <2>2
  <1>2. Tail(h.bq) = << >>
    <2>1. Tail(h.bq) \in Seq(Buf) /\ Len(Tail(h.bq)) = 0  BY <1>1, HeadTailProperties
    <2> QED  BY <2>1, EmptySeq
  <1>3. MarkFinished(h) = [TxBufferFree(h, Head(h.bq)) EXCEPT !.bq = Tail(@)]
    BY <1>1 DEF MarkFinished
  <1>4. HLInv(MarkFinished(h))  BY MarkFinishedInv
  <1> QED  BY <1>1, <1>2, <1>3, <1>4 DEF TxBufferFree, HLState

\* The LL has taken what the divider held.
LEMMA TakenAlone ==
  ASSUME NEW h, HLInv(h), Busy(h), h.div # NoPkt
  PROVE  LET u == [h EXCEPT !.div = NoPkt]
         IN /\ HLInv(u) /\ Busy(u)
            /\ u.bq = h.bq /\ u.nq = h.nq /\ u.pool = h.pool /\ u.div = NoPkt /\ u.active
  <1> DEFINE u == [h EXCEPT !.div = NoPkt]
  <1>1. h \in HLState /\ h.active  BY DEF HLInv
  <1>2. /\ u \in HLState /\ u.bq = h.bq /\ u.nq = h.nq /\ u.pool = h.pool
        /\ u.div = NoPkt /\ u.aborted = h.aborted /\ u.active
    BY <1>1, BufferTypes DEF HLState
  <1> HIDE DEF u
  <1>3. HLInv(u)  BY <1>2 DEF HLInv, Distinct, StatusFits, AllQueued
  <1> QED  BY <1>2, <1>3 DEF Busy, u

\* The HL may send: the request that waits, if one does.
LEMMA TxReadyAlone ==
  ASSUME NEW h, HLInv(h), h.div = NoPkt, h.nq = << >>
  PROVE  LET v == TxReady(h)
         IN /\ HLInv(v) /\ Busy(v) /\ v.bq = h.bq /\ v.nq = << >>
            /\ h.bq # << >> => AskedId(v) = AskedId(h)
            /\ \/ h.bq # << >> /\ ~ HeadWaits(h) /\ HeadWaits(v) /\ v.div.id = AskedId(h) /\ v.div # NoPkt
               \/ v.div = NoPkt /\ ~ v.active /\ (h.bq = << >> \/ HeadWaits(h)) /\ (HeadWaits(h) <=> HeadWaits(v))
  <1> DEFINE u == [h EXCEPT !.active = FALSE]
             b == Head(h.bq)
             v == TxReady(h)
  <1>1. HLInv(v) /\ Busy(v)  BY TxReadyInv
  <1>2. h \in HLState /\ StatusFits(h)  BY DEF HLInv
  <1>3. ~ NonblockingFirst(h)  BY DEF NonblockingFirst
  <1>4. u \in HLState /\ u.bq = h.bq /\ u.nq = h.nq /\ u.pool = h.pool /\ u.div = NoPkt /\ ~ u.active
    BY <1>2 DEF HLState
  <1>5. h.bq # << >> => b \in Buf /\ b = h.bq[1] /\ 1 \in 1..Len(h.bq)  BY <1>2, HeadInQueue
  <1>6. CASE h.bq # << >> /\ h.pool[b].status = "WAIT_SENDING"
    <2> DEFINE p == [id |-> h.pool[b].id, tsn |-> h.pool[b].tsn, blocking |-> TRUE]
               w == LLSendPacket(u, b, TRUE)
    <2>1. v = [SetStatus(w, b, "WAIT_RESPONSE") EXCEPT !.active = TRUE]
      BY <1>3, <1>6 DEF TxReady
    <2>2. p \in Packet /\ p.id = h.pool[b].id /\ p # NoPkt
      <3>1. p.blocking # NoPkt.blocking  BY DEF NoPkt
      <3>2. p \in Packet  BY <1>2, <1>5, <1>6 DEF HLState, TxBuffer, Packet
      <3> QED  BY <3>1, <3>2
    <2>3. w = [u EXCEPT !.div = p]  BY <1>4 DEF LLSendPacket
    <2> HIDE DEF p, u
    <2>4. w \in HLState /\ w.bq = h.bq /\ w.nq = h.nq /\ w.pool = h.pool /\ w.div = p
      BY <1>4, <2>2, <2>3 DEF HLState
    <2> HIDE DEF w, v, b
    <2>5. /\ v.bq = h.bq /\ v.nq = h.nq /\ v.div = p /\ v.pool[b].status = "WAIT_RESPONSE"
          /\ v.pool[b].id = h.pool[b].id
      BY <1>5, <1>6, <2>1, <2>4 DEF SetStatus, HLState, TxBuffer
    <2>6. h.pool[b].status # "WAIT_RESPONSE"  BY <1>6
    <2>7. Head(h.bq) = b /\ Head(v.bq) = b  BY <2>5 DEF b
    <2> QED  BY <1>1, <1>6, <2>2, <2>5, <2>6, <2>7 DEF AskedId, HeadWaits, v
  <1>7. CASE ~ (h.bq # << >> /\ h.pool[b].status = "WAIT_SENDING")
    <2>1. v = u  BY <1>3, <1>7 DEF TxReady
    <2>2. h.bq = << >> \/ HeadWaits(h)  BY <1>2, <1>5, <1>7 DEF StatusFits, HeadWaits
    <2> QED  BY <1>1, <1>4, <2>1, <2>2 DEF AskedId, HeadWaits
  <1> QED  BY <1>6, <1>7

(* The inductive invariant: exactly one driver, and at most one answer or
   request of a later step on its way, which is the one waited for. *)

Later == 1..STEPS - 1

\* Of the answers that are not a reset's, or the requests they answer, at most
\* one is under way: in w (from the host's queue back to the SoC's) or in the
\* divider; and it is that of the request which waits for it.
Flow(h, w) ==
  \/ ~ HeadWaits(h) /\ ~ Has(Later, w) /\ h.div.id \notin Later
  \/ /\ HeadWaits(h)
     /\ Few(Later, w) /\ All(Later, w, AskedId(h))
     /\ Has(Later, w) => h.div.id \notin Later
     /\ h.div.id \in Later => h.div.id = AskedId(h)
     /\ Has({AskedId(h)}, w) \/ (h.div # NoPkt /\ h.div.id = AskedId(h))

\* A reset reaches the SoC before any other request does.
ResetFirst(h, a, t) ==
  /\ \A i \in 1..Len(t) : t[i] = RESET => i = 1 /\ a = << >>
  /\ h.div # NoPkt /\ h.div.id = RESET => t = << >> /\ a = << >>
  /\ h.bq # << >> /\ AskedId(h) = RESET => HeadWaits(h)

Fresh(h, a, t) == h.pos = RESET /\ ~ h.hl.active /\ h.hl.div = NoPkt /\ t = << >> /\ a = << >>

Ordered(h, a, t) ==
  /\ h.hl.nq = << >>
  /\ h.retry \in {"NONE", "FIRST"}
  /\ h.retry # "NONE" \/ h.resetAlarm => Fresh(h, a, t)
  /\ h.pending <=> h.hl.bq # << >> /\ AskedId(h.hl) = RESET
  /\ h.pending => h.pos = RESET

\* What drives the start-up.
ByNothing(h)  == h.calls = 0 /\ h.hl.bq = << >> /\ ~ h.resetAlarm /\ h.retry = "NONE"
ByCallback(h) == h.calls = 1 /\ h.hl.bq = << >> /\ ~ h.resetAlarm /\ h.retry = "NONE"
ByRequest(h)  == h.calls = 0 /\ h.hl.bq # << >> /\ Len(h.hl.bq) = 1 /\ ~ h.resetAlarm
                 /\ h.retry = "NONE"
ByAlarm(h)    == h.calls = 0 /\ h.hl.bq = << >> /\ h.resetAlarm /\ h.retry = "NONE"
ByRetry(h)    == h.calls = 0 /\ h.hl.bq = << >> /\ ~ h.resetAlarm /\ h.retry # "NONE"

Driver(h) == IF h.pos = DONE THEN ByNothing(h)
             ELSE ByCallback(h) \/ ByRequest(h) \/ ByAlarm(h) \/ ByRetry(h)

Live(h, w, a, t) == Ordered(h, a, t) /\ Flow(h.hl, w) /\ ResetFirst(h.hl, a, t)

Chain(h, w, a, t) == /\ HLInv(h.hl) /\ Busy(h.hl)
                     /\ Driver(h)
                     /\ h.failure = "NONE" => Live(h, w, a, t)

\* SingleChain counts; what it counts is one of the four.
LEMMA DriverCounts ==
  ASSUME NEW h, HostOK(h)
  PROVE  h.calls + Len(h.hl.bq) + One(h.resetAlarm) + One(h.retry # "NONE") = One(h.pos # DONE)
           <=> Driver(h)
  <1>1. /\ h.calls \in Nat /\ h.resetAlarm \in BOOLEAN /\ h.hl.bq \in Seq(Buf)
    BY DEF HostOK, Host, HLState
  <1>2. Len(h.hl.bq) \in Nat /\ (h.hl.bq = << >> <=> Len(h.hl.bq) = 0)
    <2>1. Len(<< >>) = 0  OBVIOUS
    <2> QED  BY <1>1, <2>1, EmptySeq, LenProperties
  <1> DEFINE n == Len(h.hl.bq)
             a == One(h.resetAlarm)
             r == One(h.retry # "NONE")
             d == One(h.pos # DONE)
  <1>3. /\ a \in {0, 1} /\ r \in {0, 1} /\ d \in {0, 1}
        /\ a = 0 <=> ~ h.resetAlarm
        /\ r = 0 <=> h.retry = "NONE"
        /\ d = 0 <=> h.pos = DONE
    BY <1>1 DEF One
  <1> HIDE DEF n, a, r, d
  <1>4. n \in Nat /\ (h.hl.bq = << >> <=> n = 0)  BY <1>2 DEF n
  <1>5. Driver(h) <=>
          IF d = 0 THEN h.calls = 0 /\ n = 0 /\ a = 0 /\ r = 0
          ELSE \/ h.calls = 1 /\ n = 0 /\ a = 0 /\ r = 0
               \/ h.calls = 0 /\ n = 1 /\ a = 0 /\ r = 0
               \/ h.calls = 0 /\ n = 0 /\ a = 1 /\ r = 0
               \/ h.calls = 0 /\ n = 0 /\ a = 0 /\ r = 1
    <2>1. ByRequest(h) <=> h.calls = 0 /\ n = 1 /\ a = 0 /\ r = 0
      BY <1>3, <1>4 DEF ByRequest, n
    <2> QED  BY <1>3, <1>4, <2>1 DEF Driver, ByNothing, ByCallback, ByAlarm, ByRetry
  <1>6. h.calls + n + a + r = d <=>
          IF d = 0 THEN h.calls = 0 /\ n = 0 /\ a = 0 /\ r = 0
          ELSE \/ h.calls = 1 /\ n = 0 /\ a = 0 /\ r = 0
               \/ h.calls = 0 /\ n = 1 /\ a = 0 /\ r = 0
               \/ h.calls = 0 /\ n = 0 /\ a = 1 /\ r = 0
               \/ h.calls = 0 /\ n = 0 /\ a = 0 /\ r = 1
    <2>1. h.calls \in Nat /\ n \in Nat /\ a \in {0, 1} /\ r \in {0, 1} /\ d \in {0, 1}
      BY <1>1, <1>3, <1>4
    <2>2. CASE d = 0  BY <2>1, <2>2
    <2>3. CASE d = 1  BY <2>1, <2>3
    <2> QED  BY <2>1, <2>2, <2>3
  <1> QED  BY <1>5, <1>6 DEF n, a, r, d

\* An assertion that fails stops the start-up; nothing else changes.
LEMMA FailChain ==
  ASSUME NEW h, HostOK(h), NEW w, NEW a, NEW t, Chain(h, w, a, t),
         NEW why \in Failures \ {"NONE"}, NEW v, NEW b, NEW s
  PROVE  Chain(Fail(h, why), v, b, s) /\ Fail(h, why).hl = h.hl
  <1> DEFINE u == Fail(h, why)
  <1>1. /\ u.hl = h.hl /\ u.pos = h.pos /\ u.calls = h.calls /\ u.resetAlarm = h.resetAlarm
        /\ u.retry = h.retry /\ u.failure # "NONE"
    BY DEF Fail, HostOK, Host
  <1> HIDE DEF u
  <1>2. Chain(u, v, b, s)
    BY <1>1 DEF Chain, Driver, ByNothing, ByCallback, ByRequest, ByAlarm, ByRetry
  <1> QED  BY <1>1, <1>2 DEF u

\* Nothing drives the start-up any more but a callback that is scheduled now.
LEMMA ScheduleChain ==
  ASSUME NEW h, HostOK(h), NEW w, NEW a, NEW t, HLInv(h.hl), Busy(h.hl), h.failure = "NONE",
         ByNothing(h), h.pos # DONE, Live(h, w, a, t)
  PROVE  Chain(ScheduleNext(h), w, a, t)
  <1> DEFINE u == ScheduleNext(h)
  <1>1. /\ u.hl = h.hl /\ u.pos = h.pos /\ u.calls = h.calls + 1 /\ u.resetAlarm = h.resetAlarm
        /\ u.retry = h.retry /\ u.failure = h.failure /\ u.pending = h.pending
    BY DEF ScheduleNext, HostOK, Host
  <1> HIDE DEF u
  <1>2. ByCallback(u)  BY <1>1 DEF ByNothing, ByCallback
  <1>3. Ordered(u, a, t)  BY <1>1 DEF Live, Ordered, Fresh
  <1> QED  BY <1>1, <1>2, <1>3 DEF Chain, Live, Driver, u

\* The request of a step is made when nothing drives the start-up.
LEMMA AskChain ==
  ASSUME NEW h, HostOK(h), NEW w, NEW a, NEW t, HLInv(h.hl), Busy(h.hl), h.failure = "NONE",
         ByNothing(h), h.pos # DONE, Live(h, w, a, t), NEW id \in Later
  PROVE  Chain(Ask(h, id), w, a, t)
  <1> DEFINE r == Request(h.hl, TRUE, id)
             u == Ask(h, id)
  <1>1. id \in Nat /\ id # RESET  BY DEF Later, RESET
  <1>2. h.hl.bq = << >> /\ h.hl.nq = << >>  BY DEF ByNothing, Live, Ordered
  <1>3. /\ FreeBufs(h.hl) # {}
        /\ HLInv(r) /\ Busy(r) /\ r.nq = << >> /\ Len(r.bq) = 1 /\ r.bq # << >>
        /\ AskedId(r) = id
        /\ h.hl.active => r.div = h.hl.div /\ r.active /\ ~ HeadWaits(r)
        /\ ~ h.hl.active => HeadWaits(r) /\ r.div.id = id /\ r.div # NoPkt
    BY <1>1, <1>2, RequestAlone
  <1> HIDE DEF r
  <1>4. u = [h EXCEPT !.hl = r]  BY <1>3 DEF Ask, r
  <1> HIDE DEF u
  <1>5. /\ u.hl = r /\ u.pos = h.pos /\ u.calls = h.calls /\ u.resetAlarm = h.resetAlarm
        /\ u.retry = h.retry /\ u.failure = h.failure /\ u.pending = h.pending
    BY <1>4 DEF HostOK, Host
  <1>6. ByRequest(u)  BY <1>3, <1>5 DEF ByNothing, ByRequest
  <1>7. ~ HeadWaits(h.hl) /\ ~ Has(Later, w) /\ h.hl.div.id \notin Later
    <2>1. ~ HeadWaits(h.hl)  BY <1>2 DEF HeadWaits
    <2> QED  BY <2>1 DEF Live, Flow
  <1>8. Flow(r, w)
    <2>1. CASE h.hl.active  BY <1>3, <1>7, <2>1 DEF Flow
    <2>2. CASE ~ h.hl.active
      <3>1. Few(Later, w) /\ All(Later, w, id)  BY <1>7 DEF Has, Few, All
      <3> QED  BY <1>3, <1>7, <2>2, <3>1 DEF Flow
    <2> QED  BY <2>1, <2>2
  <1>9. ResetFirst(r, a, t)
    <2>1. ResetFirst(h.hl, a, t)  BY DEF Live
    <2> QED  BY <1>1, <1>3, <2>1 DEF ResetFirst
  <1>10. Ordered(u, a, t)
    <2>1. Ordered(h, a, t)  BY DEF Live
    <2>2. ~ h.pending  BY <1>2, <2>1 DEF Ordered
    <2> QED  BY <1>1, <1>3, <1>5, <2>1, <2>2 DEF Ordered, ByNothing
  <1> QED  BY <1>3, <1>5, <1>6, <1>8, <1>9, <1>10 DEF Chain, Live, Driver, u

\* The reset is asked for when the alarm fires.
LEMMA AskResetChain ==
  ASSUME NEW h, HostOK(h), NEW w, NEW a, NEW t, HLInv(h.hl), Busy(h.hl), h.failure = "NONE",
         ByNothing(h), Fresh(h, a, t), Live(h, w, a, t)
  PROVE  Chain(AskReset(h), w, a, t)
  <1> DEFINE r == Request(h.hl, TRUE, RESET)
             v == Ask(h, RESET)
             u == AskReset(h)
  <1>1. RESET \in Nat /\ RESET \notin Later /\ RESET # DONE  BY StepFacts DEF Later, RESET, DONE
  <1>2. h.hl.bq = << >> /\ h.hl.nq = << >> /\ ~ h.hl.active  BY DEF ByNothing, Live, Ordered, Fresh
  <1>3. /\ FreeBufs(h.hl) # {}
        /\ HLInv(r) /\ Busy(r) /\ r.nq = << >> /\ Len(r.bq) = 1 /\ r.bq # << >>
        /\ AskedId(r) = RESET
        /\ HeadWaits(r) /\ r.div.id = RESET /\ r.div # NoPkt
    BY <1>1, <1>2, RequestAlone
  <1> HIDE DEF r
  <1>4. v = [h EXCEPT !.hl = r] /\ u = [v EXCEPT !.pending = TRUE]
    BY <1>3 DEF AskReset, Ask, r
  <1> HIDE DEF u
  <1>5. /\ u.hl = r /\ u.pos = h.pos /\ u.calls = h.calls /\ u.resetAlarm = h.resetAlarm
        /\ u.retry = h.retry /\ u.failure = h.failure /\ u.pending = TRUE
    BY <1>4 DEF HostOK, Host
  <1>6. ByRequest(u)  BY <1>3, <1>5 DEF ByNothing, ByRequest
  <1>7. Flow(r, w)
    <2>1. ~ HeadWaits(h.hl)  BY <1>2 DEF HeadWaits
    <2>2. ~ Has(Later, w)  BY <2>1 DEF Live, Flow
    <2>3. Few(Later, w) /\ All(Later, w, RESET)  BY <2>2 DEF Has, Few, All
    <2> QED  BY <1>1, <1>3, <2>2, <2>3 DEF Flow
  <1>8. ResetFirst(r, a, t)
    <2>1. ResetFirst(h.hl, a, t)  BY DEF Live
    <2> QED  BY <1>3, <2>1 DEF ResetFirst, Fresh
  <1>9. Ordered(u, a, t)
    <2>1. Ordered(h, a, t)  BY DEF Live
    <2> QED  BY <1>3, <1>5, <2>1 DEF Ordered, ByNothing, Fresh
  <1>10. u.pos # DONE  BY <1>1, <1>5 DEF Fresh
  <1> QED  BY <1>3, <1>5, <1>6, <1>7, <1>8, <1>9, <1>10 DEF Chain, Live, Driver, u

(* The host's steps that read no message. *)

LEMMA DispatchChain ==
  ASSUME NEW h, HostOK(h), NEW w, NEW a, NEW t, HLInv(h.hl), Busy(h.hl), h.failure = "NONE",
         ByNothing(h), Live(h, w, a, t), h.pos # RESET
  PROVE  Chain(Dispatch(h), w, a, t)
  <1>1. /\ RESET # DONE /\ RESET \notin SKIPPED /\ DONE \notin SKIPPED
        /\ h.pos \in 0..STEPS
    BY StepFacts, StartupConstants DEF RESET, DONE, VERSION, HostOK, Host
  <1>2. CASE h.pos = DONE
    <2>1. Dispatch(h) = h  BY <1>1, <1>2 DEF Dispatch
    <2> QED  BY <1>2, <2>1 DEF Chain, Driver
  <1>3. CASE h.pos \in SKIPPED
    <2>1. Dispatch(h) = ScheduleNext(h) /\ h.pos # DONE  BY <1>1, <1>3 DEF Dispatch
    <2> QED  BY <2>1, ScheduleChain
  <1>4. CASE h.pos # DONE /\ h.pos \notin SKIPPED
    <2>1. Dispatch(h) = Ask(h, h.pos)  BY <1>4 DEF Dispatch
    <2>2. h.pos \in Later  BY <1>1, <1>4, StepFacts DEF Later, RESET, DONE
    <2> DEFINE p == h.pos
    <2>3. p \in Later /\ h.pos # DONE  BY <1>4, <2>2
    <2> HIDE DEF p
    <2>4. Chain(Ask(h, p), w, a, t)  BY <2>3, AskChain
    <2> QED  BY <2>1, <2>4 DEF p
  <1> QED  BY <1>2, <1>3, <1>4

\* startup_next_step, the only callback there is
LEMMA CallbackChain ==
  ASSUME NEW h, HostOK(h), NEW w, NEW a, NEW t, Chain(h, w, a, t), h.failure = "NONE",
         h.calls > 0
  PROVE  Chain(NextStep([h EXCEPT !.calls = @ - 1]), w, a, t)
  <1> DEFINE n == h.calls - 1
             p == h.pos + 1
             u == [h EXCEPT !.calls = n]
             v == [u EXCEPT !.pos = p]
  <1>1. h \in Host /\ h.calls \in Nat /\ h.pos \in 0..STEPS  BY DEF HostOK, Host
  <1>2. h.pos # DONE /\ ByCallback(h)
    BY <1>1 DEF Chain, Driver, ByNothing, ByCallback, ByRequest, ByAlarm, ByRetry
  <1>3. n = 0 /\ p \in 0..STEPS /\ p # RESET
    BY <1>1, <1>2, StepFacts DEF ByCallback, DONE, RESET
  <1> HIDE DEF n, p
  <1>4. HostOK(u)
    <2>1. n \in Nat /\ TRUE \in BOOLEAN  BY <1>3
    <2> QED  BY <2>1, FlagsOK, Zenon
  <1>5. HostOK(v)
    <2>1. 0 \in Nat /\ TRUE \in BOOLEAN /\ "NONE" \in {"NONE", "FIRST", "REINIT"}
          /\ "NONE" \in Failures /\ Typed(u.hl)
      BY <1>4 DEF Failures, HostOK
    <2> HIDE DEF u
    <2> QED  BY <1>3, <1>4, <2>1, FieldsOK, Zenon
  <1>6. /\ v.hl = h.hl /\ v.pos = p /\ v.calls = 0 /\ v.resetAlarm = h.resetAlarm
        /\ v.retry = h.retry /\ v.failure = h.failure /\ v.pending = h.pending
    BY <1>1, <1>3 DEF Host
  <1>7. NextStep([h EXCEPT !.calls = @ - 1]) = Dispatch(v)
    <2>1. u = [h EXCEPT !.calls = @ - 1] /\ u.pos = h.pos  BY <1>1 DEF n, Host
    <2> QED  BY <1>2, <2>1 DEF NextStep, p
  <1> HIDE DEF u, v
  <1>8. ByNothing(v)  BY <1>2, <1>6 DEF ByCallback, ByNothing
  <1>9. Live(v, w, a, t)
    <2>1. Live(h, w, a, t)  BY DEF Chain
    <2> QED  BY <1>2, <1>6, <2>1 DEF Live, Ordered, ByCallback
  <1>10. Chain(Dispatch(v), w, a, t)
    <2>1. HLInv(v.hl) /\ Busy(v.hl) /\ v.failure = "NONE" /\ v.pos # RESET
      BY <1>3, <1>6 DEF Chain
    <2> QED  BY <1>5, <1>8, <1>9, <2>1, DispatchChain
  <1> QED  BY <1>7, <1>10

\* soc_reset
LEMMA ResetAlarmChain ==
  ASSUME NEW h, HostOK(h), NEW w, NEW a, NEW t, Chain(h, w, a, t), h.failure = "NONE",
         h.resetAlarm
  PROVE  Chain(SocReset([h EXCEPT !.resetAlarm = FALSE]), w, a, t)
  <1> DEFINE u == [h EXCEPT !.resetAlarm = FALSE]
             v == [u EXCEPT !.timer = TRUE]
  <1>1. h \in Host /\ Live(h, w, a, t) /\ ByAlarm(h) /\ h.pos # DONE
    BY DEF Chain, Driver, ByNothing, ByCallback, ByRequest, ByAlarm, ByRetry, HostOK
  <1>2. HostOK(u)
    <2>1. FALSE \in BOOLEAN  OBVIOUS
    <2> QED  BY <2>1, FlagsOK, Zenon
  <1>3. HostOK(v)
    <2>1. TRUE \in BOOLEAN  OBVIOUS
    <2> HIDE DEF u
    <2> QED  BY <1>2, <2>1, FlagsOK, Zenon
  <1>4. /\ v.hl = h.hl /\ v.pos = h.pos /\ v.calls = h.calls /\ v.resetAlarm = FALSE
        /\ v.retry = h.retry /\ v.failure = h.failure /\ v.pending = h.pending
    BY <1>1 DEF Host
  <1>5. SocReset(u) = AskReset(v) \/ SocReset(u) = ScheduleNext(v)  BY DEF SocReset
  <1> HIDE DEF v
  <1>6. ByNothing(v) /\ v.pos # DONE  BY <1>1, <1>4 DEF ByAlarm, ByNothing
  <1>7. Live(v, w, a, t) /\ Fresh(v, a, t)
    BY <1>1, <1>4 DEF Live, Ordered, ByAlarm, Fresh
  <1>8. HLInv(v.hl) /\ Busy(v.hl) /\ v.failure = "NONE"  BY <1>4 DEF Chain
  <1>9. Chain(AskReset(v), w, a, t)  BY <1>3, <1>6, <1>7, <1>8, AskResetChain
  <1>10. Chain(ScheduleNext(v), w, a, t)  BY <1>3, <1>6, <1>7, <1>8, ScheduleChain
  <1> QED  BY <1>5, <1>9, <1>10

\* startup_timer_alarm, when nothing is under way: the start-up is done.
LEMMA TimerChain ==
  ASSUME NEW h, HostOK(h), Chain(h, << >>, << >>, << >>), h.failure = "NONE",
         ~ h.hl.active, h.calls = 0, ~ h.resetAlarm, h.retry = "NONE"
  PROVE  Chain(TimerAlarm([h EXCEPT !.timer = FALSE]), << >>, << >>, << >>)
  <1> DEFINE u == [h EXCEPT !.timer = FALSE]
  <1>1. h \in Host /\ Live(h, << >>, << >>, << >>)  BY DEF Chain, HostOK
  <1>2. HostOK(u)
    <2>1. FALSE \in BOOLEAN  OBVIOUS
    <2> QED  BY <2>1, FlagsOK, Zenon
  <1>3. h.pos = DONE
    <2> SUFFICES ASSUME h.pos # DONE PROVE FALSE  OBVIOUS
    <2>1. ByRequest(h)
      BY DEF Chain, Driver, ByCallback, ByRequest, ByAlarm, ByRetry
    <2>2. HeadWaits(h.hl)  BY <2>1 DEF Chain, Busy, HeadWaits, ByRequest
    <2>3. h.hl.div = NoPkt  BY DEF Chain, HLInv
    <2>4. Has({AskedId(h.hl)}, << >>)  BY <1>1, <2>2, <2>3 DEF Live, Flow
    <2> QED  BY <2>4, NoMarks
  <1>4. /\ u.hl = h.hl /\ u.pos = h.pos /\ u.calls = h.calls /\ u.resetAlarm = h.resetAlarm
        /\ u.retry = h.retry /\ u.failure = h.failure /\ u.pending = h.pending
    BY <1>1 DEF Host
  <1>5. TimerAlarm(u) = Fail(u, "TIMER")
    <2>1. u.pos > VERSION  BY <1>3, <1>4, StepFacts DEF DONE, VERSION
    <2> QED  BY <2>1 DEF TimerAlarm
  <1> HIDE DEF u
  <1>6. Chain(u, << >>, << >>, << >>)
    BY <1>1, <1>3, <1>4 DEF Chain, Driver, ByNothing, Live, Ordered, Fresh
  <1>7. "TIMER" \in Failures \ {"NONE"}  BY DEF Failures
  <1>8. Chain(Fail(u, "TIMER"), << >>, << >>, << >>)  BY <1>2, <1>6, <1>7, FailChain
  <1> QED  BY <1>5, <1>8 DEF u

\* What comes before the port is open may be given up: nobody waits for it.
LEMMA ForgetChain ==
  ASSUME NEW h, HostOK(h), NEW w, NEW a, NEW t, Chain(h, w, a, t), h.failure = "NONE",
         h.retry # "NONE"
  PROVE  /\ h.retry = "FIRST" /\ h.pos = RESET /\ a = << >> /\ t = << >>
         /\ Chain(h, << >>, a, t)
  <1>1. Live(h, w, a, t) /\ ByRetry(h)
    BY DEF Chain, Driver, ByNothing, ByCallback, ByRequest, ByAlarm, ByRetry
  <1>2. h.retry = "FIRST" /\ Fresh(h, a, t)  BY <1>1 DEF Live, Ordered, Fresh
  <1>3. Flow(h.hl, << >>)
    <2>1. ~ HeadWaits(h.hl) /\ h.hl.div.id \notin Later
      BY <1>1, <1>2 DEF ByRetry, HeadWaits, Fresh, NoPkt, Later
    <2> QED  BY <2>1, NoMarks DEF Flow
  <1>4. Live(h, << >>, a, t)  BY <1>1, <1>3 DEF Live
  <1> QED  BY <1>2, <1>4 DEF Chain, Fresh

\* init_transport, until the port can be opened: the queues are still empty.
LEMMA RetryChain ==
  ASSUME NEW h, HostOK(h), NEW w, NEW a, NEW t, Chain(h, w, a, t), h.failure = "NONE",
         h.retry # "NONE", NEW ok \in BOOLEAN
  PROVE  Chain(InitTransport(h, h.retry, ok), w, a, t)
  <1> DEFINE g == ProtoInit(h.hl)
             u == [h EXCEPT !.hl = g, !.retry = "NONE"]
  <1>1. h \in Host /\ h.hl \in HLState /\ Live(h, w, a, t) /\ ByRetry(h) /\ h.pos # DONE
    BY DEF Chain, Driver, ByNothing, ByCallback, ByRequest, ByAlarm, ByRetry, HostOK, HLInv
  <1>2. h.pos = RESET /\ h.retry = "FIRST" /\ Fresh(h, a, t)
    BY <1>1 DEF Live, Ordered, Fresh
  <1>3. g = h.hl
    BY <1>1, <1>2 DEF ProtoInit, HLState, ByRetry, Live, Ordered, Fresh
  <1> HIDE DEF g
  <1>4. CASE ok
    <2> DEFINE v == [u EXCEPT !.resetAlarm = TRUE]
    <2>1. InitTransport(h, h.retry, ok) = Dispatch(u)
      BY <1>2, <1>4 DEF InitTransport, g
    <2>2. Dispatch(u) = v
      <3>1. u.pos = RESET /\ RESET # DONE /\ RESET \notin SKIPPED
        BY <1>1, <1>2, StepFacts, StartupConstants DEF Host, RESET, DONE, VERSION
      <3> QED  BY <3>1 DEF Dispatch
    <2>3. /\ v.hl = h.hl /\ v.pos = h.pos /\ v.calls = h.calls /\ v.resetAlarm = TRUE
          /\ v.retry = "NONE" /\ v.failure = h.failure /\ v.pending = h.pending
      BY <1>1, <1>3 DEF Host
    <2> HIDE DEF v
    <2>4. ByAlarm(v)  BY <1>1, <2>3 DEF ByAlarm, ByRetry
    <2>5. Live(v, w, a, t)  BY <1>1, <1>2, <2>3 DEF Live, Ordered, Fresh
    <2>6. Chain(v, w, a, t)  BY <1>1, <2>3, <2>4, <2>5 DEF Chain, Driver
    <2> QED  BY <2>1, <2>2, <2>6
  <1>5. CASE ~ ok
    <2> DEFINE v == [u EXCEPT !.retry = h.retry]
    <2>1. InitTransport(h, h.retry, ok) = v
      BY <1>2, <1>5 DEF InitTransport, g
    <2>2. v = h  BY <1>1, <1>3 DEF Host
    <2> HIDE DEF v
    <2> QED  BY <2>1, <2>2
  <1> QED  BY <1>4, <1>5

(* A message that nobody waits for, and the answer that ends a request. *)

\* A message that is not the one waited for.
LEMMA OtherMessage ==
  ASSUME NEW g, NEW w \in Seq(Message), w # << >>, Flow(g, w), Head(w) \notin Later,
         HeadWaits(g) => Head(w) # AskedId(g)
  PROVE  Flow(g, Tail(w))
  <1> DEFINE m == Head(w)
             v == Tail(w)
             x == AskedId(g)
             X == {x}
  <1>1. /\ Has(Later, w) <=> m \in Later \/ Has(Later, v)
        /\ Few(Later, w) <=> Few(Later, v) /\ ~ (m \in Later /\ Has(Later, v))
        /\ All(Later, w, x) <=> (m \in Later => m = x) /\ All(Later, v, x)
    BY TailMarks, Zenon
  <1>2. Has(X, w) <=> m \in X \/ Has(X, v)
    <2> HIDE DEF X
    <2> QED  BY TailMarks, Zenon
  <1> HIDE DEF m, v, x
  <1>3. m \notin Later /\ (HeadWaits(g) => m # x)  BY DEF m, x
  <1>4. Flow(g, v)  BY <1>1, <1>2, <1>3 DEF Flow, x
  <1> QED  BY <1>4 DEF v

\* A message that is waited for finishes the request, and then nothing is.
LEMMA FinishChain ==
  ASSUME NEW h, HostOK(h), NEW w \in Seq(Message), w # << >>, NEW a, NEW t,
         Chain(h, w, a, t), h.failure = "NONE", h.hl.bq # << >>,
         Head(w) \in Later \/ AskedId(h.hl) = RESET,
         NEW c \in BOOLEAN, NEW p \in BOOLEAN, ~ p
  PROVE  LET u == [h EXCEPT !.hl = MarkFinished(h.hl), !.timer = c, !.pending = p]
         IN /\ HostOK(u) /\ HLInv(u.hl) /\ Busy(u.hl) /\ u.failure = "NONE" /\ u.pos = h.pos
            /\ ByNothing(u) /\ h.pos # DONE /\ Live(u, Tail(w), a, t)
            /\ u.hl.div = h.hl.div /\ u.hl.nq = << >>
            /\ Head(w) \in Later => AskedId(h.hl) = Head(w)
  <1> DEFINE g == MarkFinished(h.hl)
             u == [h EXCEPT !.hl = g, !.timer = c, !.pending = p]
             m == Head(w)
             v == Tail(w)
             x == AskedId(h.hl)
  <1>1. h \in Host /\ Live(h, w, a, t) /\ ByRequest(h) /\ h.pos # DONE
    BY DEF Chain, Driver, ByNothing, ByCallback, ByRequest, ByAlarm, ByRetry, HostOK
  <1>2. HLInv(g) /\ g.bq = << >> /\ g.nq = h.hl.nq /\ g.div = h.hl.div /\ g.active = h.hl.active
    <2>1. Len(h.hl.bq) = 1 /\ HLInv(h.hl)  BY <1>1 DEF ByRequest, Chain
    <2> QED  BY <2>1, FinishAlone
  <1>3. HostOK(u)
    <2>1. HostOK(Finish(h)) /\ Finish(h) = [h EXCEPT !.hl = g]  BY FinishOK DEF Finish
    <2> HIDE DEF g
    <2> DEFINE y == [h EXCEPT !.hl = g]
               z == [y EXCEPT !.timer = c]
    <2>2. HostOK(y)  BY <2>1
    <2>3. u = [z EXCEPT !.pending = p]  BY <1>1 DEF Host
    <2> HIDE DEF y
    <2>4. HostOK(z)  BY <2>2, FlagsOK, Zenon
    <2> HIDE DEF z
    <2>5. HostOK([z EXCEPT !.pending = p])  BY <2>4, FlagsOK, Zenon
    <2> QED  BY <2>3, <2>5
  <1>4. g.nq = << >>  BY <1>1, <1>2 DEF Live, Ordered
  <1> HIDE DEF g
  <1>5. /\ u.hl = g /\ u.pos = h.pos /\ u.calls = h.calls /\ u.resetAlarm = h.resetAlarm
        /\ u.retry = h.retry /\ u.failure = h.failure /\ u.pending = p
    BY <1>1 DEF Host
  <1>6. /\ Has(Later, w) <=> m \in Later \/ Has(Later, v)
        /\ Few(Later, w) <=> Few(Later, v) /\ ~ (m \in Later /\ Has(Later, v))
        /\ All(Later, w, x) <=> (m \in Later => m = x) /\ All(Later, v, x)
    BY TailMarks, Zenon
  <1>7. RESET \notin Later  BY DEF RESET, Later
  <1> HIDE DEF u, m, v, x
  <1>8. /\ ~ Has(Later, v) /\ h.hl.div.id \notin Later
        /\ m \in Later => x = m
    <2>1. Flow(h.hl, w)  BY <1>1 DEF Live
    <2>2. CASE m \in Later  BY <1>6, <2>1, <2>2 DEF Flow, x
    <2>3. CASE x = RESET /\ m \notin Later
      <3>1. CASE ~ HeadWaits(h.hl)  BY <1>6, <2>1, <2>3, <3>1 DEF Flow
      <3>2. CASE HeadWaits(h.hl)
        <4>1. All(Later, w, RESET) /\ h.hl.div.id \notin Later
          BY <1>7, <2>1, <2>3, <3>2 DEF Flow, x
        <4>2. ~ Has(Later, w)  BY <1>7, <4>1 DEF All, Has
        <4> QED  BY <1>6, <2>3, <4>1, <4>2
      <3> QED  BY <3>1, <3>2
    <2>4. m \in Later \/ x = RESET  BY DEF m, x
    <2> QED  BY <2>2, <2>3, <2>4
  <1>9. Flow(g, v)  BY <1>2, <1>8 DEF Flow, HeadWaits
  <1>10. Ordered(u, a, t)  BY <1>1, <1>2, <1>4, <1>5 DEF Ordered, ByRequest, Live
  <1>11. ResetFirst(g, a, t)  BY <1>1, <1>2 DEF ResetFirst, Live
  <1>12. ByNothing(u)  BY <1>1, <1>2, <1>5 DEF ByRequest, ByNothing
  <1>13. Busy(g)  BY <1>2, <1>4 DEF Busy
  <1>14. Live(u, v, a, t)  BY <1>5, <1>9, <1>10, <1>11 DEF Live
  <1>15. /\ HostOK(u) /\ HLInv(u.hl) /\ Busy(u.hl) /\ u.failure = "NONE" /\ u.pos = h.pos
         /\ ByNothing(u) /\ h.pos # DONE /\ Live(u, v, a, t)
         /\ u.hl.div = h.hl.div /\ u.hl.nq = << >>
         /\ m \in Later => x = m
    BY <1>1, <1>2, <1>3, <1>4, <1>5, <1>8, <1>12, <1>13, <1>14
  <1> QED  BY <1>15 DEF u, g, m, v, x

\* A message that finishes nothing changes a flag or stops the start-up.
LEMMA IgnoredChain ==
  ASSUME NEW h, HostOK(h), NEW w \in Seq(Message), w # << >>, NEW a, NEW t,
         Chain(h, w, a, t), h.failure = "NONE", Head(w) \in {RESET, RESET_IND},
         Head(w) = RESET => ~ h.pending
  PROVE  LET u == [h EXCEPT !.pending = FALSE]
             v == [h EXCEPT !.respProcessed = TRUE]
         IN /\ Head(w) = RESET => Chain(u, Tail(w), a, t) /\ u.hl = h.hl
            /\ Head(w) = RESET_IND => Chain(v, Tail(w), a, t) /\ v.hl = h.hl
  <1> DEFINE u == [h EXCEPT !.pending = FALSE]
             v == [h EXCEPT !.respProcessed = TRUE]
  <1>1. h \in Host /\ Typed(h.hl) /\ Live(h, w, a, t)  BY DEF Chain, HostOK
  <1>2. /\ u.hl = h.hl /\ u.pos = h.pos /\ u.calls = h.calls /\ u.resetAlarm = h.resetAlarm
        /\ u.retry = h.retry /\ u.failure = h.failure /\ u.pending = FALSE
    BY <1>1 DEF Host
  <1>3. /\ v.hl = h.hl /\ v.pos = h.pos /\ v.calls = h.calls /\ v.resetAlarm = h.resetAlarm
        /\ v.retry = h.retry /\ v.failure = h.failure /\ v.pending = h.pending
    BY <1>1 DEF Host
  <1>4. Flow(h.hl, Tail(w))
    <2>1. Head(w) \notin Later  BY DEF RESET, RESET_IND, Later
    <2>2. HeadWaits(h.hl) => Head(w) # AskedId(h.hl)
      <3> SUFFICES ASSUME HeadWaits(h.hl) PROVE Head(w) # AskedId(h.hl)  OBVIOUS
      <3>1. h.hl.bq # << >> /\ Head(h.hl.bq) \in Buf
        BY <1>1, HeadInQueue DEF HeadWaits, Typed
      <3>2. AskedId(h.hl) \in Step  BY <1>1, <3>1 DEF Typed, AskedId
      <3>3. Head(w) = RESET => AskedId(h.hl) # RESET  BY <1>1, <3>1 DEF Live, Ordered
      <3> QED  BY <3>2, <3>3, StepFacts
    <2> QED  BY <1>1, <2>1, <2>2, OtherMessage DEF Live
  <1> DEFINE y == Tail(w)
  <1> HIDE DEF u, v, y
  <1>5. Live(v, y, a, t)  BY <1>1, <1>3, <1>4 DEF Live, Ordered, Fresh, y
  <1>6. Chain(v, y, a, t)
    BY <1>3, <1>5 DEF Chain, Driver, ByNothing, ByCallback, ByRequest, ByAlarm, ByRetry
  <1>7. Head(w) = RESET => Chain(u, y, a, t)
    <2> SUFFICES ASSUME Head(w) = RESET PROVE Chain(u, y, a, t)  OBVIOUS
    <2>1. Live(u, y, a, t)  BY <1>1, <1>2, <1>4 DEF Live, Ordered, Fresh, y
    <2> QED  BY <1>2, <2>1 DEF Chain, Driver, ByNothing, ByCallback, ByRequest, ByAlarm, ByRetry
  <1> QED  BY <1>2, <1>3, <1>6, <1>7 DEF u, v, y

(* A quantum: the message read, the packet taken, the next packet made ready. *)

\* The answer to a request finds the request waiting.
LEMMA AnswerAwaited ==
  ASSUME NEW h, NEW w \in Seq(Message), w # << >>, NEW a, NEW t, Live(h, w, a, t),
         Head(w) \in Later
  PROVE  h.hl.bq # << >> /\ AskedId(h.hl) = Head(w) /\ ~ h.pending
  <1> DEFINE m == Head(w)
             x == AskedId(h.hl)
  <1>1. /\ Has(Later, w) <=> m \in Later \/ Has(Later, Tail(w))
        /\ All(Later, w, x) <=> (m \in Later => m = x) /\ All(Later, Tail(w), x)
    BY TailMarks, Zenon
  <1>2. RESET \notin Later /\ m \in Later  BY DEF RESET, Later
  <1> HIDE DEF m, x
  <1>3. HeadWaits(h.hl) /\ All(Later, w, x)  BY <1>1, <1>2 DEF Live, Flow, x
  <1>4. m = x  BY <1>1, <1>2, <1>3
  <1>5. ~ h.pending  BY <1>2, <1>4 DEF Live, Ordered, x
  <1> QED  BY <1>3, <1>4, <1>5 DEF HeadWaits, m, x

LEMMA HandleChain ==
  ASSUME NEW h, HostOK(h), NEW w \in Seq(Message), w # << >>, NEW a, NEW t,
         Chain(h, w, a, t), h.failure = "NONE"
  PROVE  LET u == Handle(h, Head(w))
         IN Chain(u, Tail(w), a, t) /\ HostOK(u) /\ u.hl.div = h.hl.div /\ u.hl.nq = << >>
  <1> DEFINE msg == Head(w)
             v == Tail(w)
             u == Handle(h, msg)
             OK(y) == Chain(y, v, a, t) /\ y.hl.div = h.hl.div /\ y.hl.nq = << >>
  <1>1. msg \in Message /\ HostOK(u)
    <2>1. msg \in Message  BY HeadTailProperties
    <2> QED  BY <2>1, HandleOK
  <1> SUFFICES OK(u)  BY <1>1
  <1>2. h \in Host /\ Live(h, w, a, t) /\ h.hl.nq = << >>  BY DEF Chain, HostOK, Live, Ordered
  <1>3. /\ RESET # RESET_IND /\ VERSION # RESET /\ VERSION # RESET_IND
        /\ RESET \notin Later /\ VERSION \in Later /\ RESET_IND \notin Later
        /\ Message = {RESET, RESET_IND} \cup Later
    BY StepFacts DEF RESET, RESET_IND, VERSION, Later, Message, Step
  <1>4. \A why \in Failures \ {"NONE"} : OK(Fail(h, why))
    <2> TAKE why \in Failures \ {"NONE"}
    <2>1. Chain(Fail(h, why), v, a, t) /\ Fail(h, why).hl = h.hl  BY FailChain
    <2> QED  BY <1>2, <2>1
  <1>5. {"RESET_RESPONSE", "STEP"} \subseteq Failures \ {"NONE"}  BY DEF Failures
  <1>6. ASSUME NEW y, HostOK(y), HLInv(y.hl), Busy(y.hl), y.failure = "NONE", y.pos # DONE,
               ByNothing(y), Live(y, v, a, t), y.hl.div = h.hl.div, y.hl.nq = << >>
        PROVE  OK(ScheduleNext(y))
    <2>1. Chain(ScheduleNext(y), v, a, t)  BY <1>6, ScheduleChain
    <2>2. ScheduleNext(y).hl = y.hl  BY <1>6 DEF ScheduleNext, HostOK, Host
    <2> QED  BY <1>6, <2>1, <2>2
  <1>7. CASE msg = RESET_IND
    <2>1. u = HandleResetIndication(h)  BY <1>3, <1>7 DEF Handle
    <2>2. u = [h EXCEPT !.respProcessed = TRUE] \/ u = Fail(h, "RESET_RESPONSE")
      BY <2>1 DEF HandleResetIndication, HandleResetResponse
    <2>3. OK([h EXCEPT !.respProcessed = TRUE])
      BY <1>2, <1>3, <1>7, IgnoredChain DEF msg
    <2> HIDE DEF OK, u
    <2> QED  BY <1>4, <1>5, <2>2, <2>3
  <1>8. CASE msg = RESET /\ ~ h.pending
    <2>1. u = [h EXCEPT !.pending = FALSE]  BY <1>3, <1>8 DEF Handle, ResetResponse
    <2>2. OK([h EXCEPT !.pending = FALSE])
      BY <1>2, <1>3, <1>8, IgnoredChain DEF msg
    <2> HIDE DEF OK, u
    <2> QED  BY <2>1, <2>2
  <1>9. CASE msg = RESET /\ h.pending
    <2> DEFINE y == [h EXCEPT !.hl = MarkFinished(h.hl), !.timer = h.timer, !.pending = FALSE]
    <2>1. h.hl.bq # << >> /\ AskedId(h.hl) = RESET /\ h.pos = RESET
      BY <1>2, <1>9 DEF Live, Ordered
    <2>2. h.timer \in BOOLEAN /\ FALSE \in BOOLEAN  BY <1>2 DEF Host
    <2>3. /\ HostOK(y) /\ HLInv(y.hl) /\ Busy(y.hl) /\ y.failure = "NONE" /\ y.pos = h.pos
          /\ ByNothing(y) /\ h.pos # DONE /\ Live(y, v, a, t)
          /\ y.hl.div = h.hl.div /\ y.hl.nq = << >>
      BY <2>1, <2>2, FinishChain
    <2>4. u = HandleResetResponse(y, TRUE)
      <3> DEFINE z == [h EXCEPT !.pending = FALSE]
      <3>1. Finish(z) = y  BY <1>2 DEF Finish, Host
      <3> HIDE DEF y
      <3>2. ResetResponse(h) = HandleResetResponse(Finish(z), TRUE)
        BY <1>9 DEF ResetResponse
      <3> QED  BY <1>3, <1>9, <3>1, <3>2 DEF Handle
    <2> HIDE DEF y
    <2>5. HandleResetResponse(y, TRUE) = ScheduleNext(y)
      BY <2>1, <2>3 DEF HandleResetResponse, RESET
    <2> HIDE DEF OK, u
    <2>6. OK(ScheduleNext(y))  BY <1>6, <2>1, <2>3
    <2> QED  BY <2>4, <2>5, <2>6
  <1>10. CASE msg \in Later
    <2>1. h.hl.bq # << >> /\ AskedId(h.hl) = msg /\ ~ h.pending  BY <1>2, <1>10, AnswerAwaited
    <2> DEFINE y(c) == [h EXCEPT !.hl = MarkFinished(h.hl), !.timer = c, !.pending = FALSE]
    <2>2. h.timer \in BOOLEAN /\ FALSE \in BOOLEAN /\ h.pending \in BOOLEAN  BY <1>2 DEF Host
    <2>3. ASSUME NEW c \in BOOLEAN
          PROVE  /\ HostOK(y(c)) /\ HLInv(y(c).hl) /\ Busy(y(c).hl) /\ y(c).failure = "NONE"
                 /\ y(c).pos = h.pos
                 /\ ByNothing(y(c)) /\ h.pos # DONE /\ Live(y(c), v, a, t)
                 /\ y(c).hl.div = h.hl.div /\ y(c).hl.nq = << >>
      BY <1>10, <2>1, <2>2, FinishChain, ZenonT(60)
    <2>4. h.pos # DONE  BY <2>2, <2>3
    <2>5. Finish(h) = y(h.timer) /\ [Finish(h) EXCEPT !.timer = FALSE] = y(FALSE)
      BY <1>2, <2>1, <2>2 DEF Finish, Host
    <2> HIDE DEF y
    <2>6. OK(ScheduleNext(y(h.timer))) /\ OK(ScheduleNext(y(FALSE)))
      <3>1. ASSUME NEW c \in BOOLEAN PROVE OK(ScheduleNext(y(c)))
        <4> DEFINE z == y(c)
        <4>1. /\ HostOK(z) /\ HLInv(z.hl) /\ Busy(z.hl) /\ z.failure = "NONE" /\ z.pos # DONE
              /\ ByNothing(z) /\ Live(z, v, a, t) /\ z.hl.div = h.hl.div /\ z.hl.nq = << >>
          BY <2>3
        <4> HIDE DEF z, OK
        <4>2. OK(ScheduleNext(z))  BY <1>6, <4>1
        <4> QED  BY <4>2 DEF z
      <3> HIDE DEF OK
      <3> QED  BY <2>2, <3>1
    <2> HIDE DEF OK
    <2>7. CASE msg = VERSION
      <3>1. u = ScheduleNext(y(FALSE))  BY <1>3, <2>5, <2>7 DEF Handle, VersionResponse
      <3> HIDE DEF u
      <3> QED  BY <2>6, <3>1
    <2>8. CASE msg # VERSION
      <3>1. u = StepResponse(h, msg)  BY <1>3, <1>10, <2>8 DEF Handle
      <3>2. \/ StepResponse(h, msg) = Fail(h, "STEP")
            \/ StepResponse(h, msg) = ScheduleNext(y(h.timer))
        <4>1. CASE msg \in STRICT /\ h.pos \notin {msg, DONE}
          BY <2>4, <4>1 DEF StepResponse
        <4>2. CASE ~ (msg \in STRICT /\ h.pos \notin {msg, DONE})
          BY <2>4, <2>5, <4>2 DEF StepResponse
        <4> QED  BY <4>1, <4>2
      <3> HIDE DEF u
      <3> QED  BY <1>4, <1>5, <2>6, <3>1, <3>2
    <2> QED  BY <2>7, <2>8
  <1> HIDE DEF OK, u, msg
  <1> QED  BY <1>1, <1>3, <1>7, <1>8, <1>9, <1>10

\* The LL takes the packet: it is on its way to the SoC.
LEMMA TakeChain ==
  ASSUME NEW h, HostOK(h), NEW w \in Seq(Message), NEW a, NEW t \in Seq(Step),
         Chain(h, w, a, t), h.hl.div # NoPkt
  PROVE  LET u == [h EXCEPT !.hl = [@ EXCEPT !.div = NoPkt]]
             id == h.hl.div.id
         IN /\ Chain(u, Append(w, id), a, Append(t, id)) /\ HostOK(u)
            /\ u.hl.div = NoPkt /\ u.hl.nq = h.hl.nq
  <1> DEFINE g == [h.hl EXCEPT !.div = NoPkt]
             id == h.hl.div.id
             u == [h EXCEPT !.hl = g]
             v == Append(w, id)
             s == Append(t, id)
             x == AskedId(h.hl)
             X == {x}
  <1>1. h \in Host /\ Typed(h.hl) /\ HLInv(h.hl) /\ Busy(h.hl)  BY DEF HostOK, Chain
  <1>2. id \in Step /\ id \in Message  BY <1>1 DEF Typed, Message
  <1>3. /\ HLInv(g) /\ Busy(g)
        /\ g.bq = h.hl.bq /\ g.nq = h.hl.nq /\ g.pool = h.hl.pool /\ g.div = NoPkt /\ g.active
    BY <1>1, TakenAlone
  <1>4. HostOK(u)
    <2>1. Typed(g)
      <3>1. << >> \in Seq(Buf) /\ TRUE \in BOOLEAN  OBVIOUS
      <3> QED  BY <1>1, <3>1, QueuesTyped
    <2> HIDE DEF g
    <2> QED  BY <2>1, NewHL
  <1> HIDE DEF g
  <1>5. /\ u.hl = g /\ u.pos = h.pos /\ u.calls = h.calls /\ u.resetAlarm = h.resetAlarm
        /\ u.retry = h.retry /\ u.failure = h.failure /\ u.pending = h.pending
    BY <1>1 DEF Host
  <1> HIDE DEF u
  <1>6. Driver(u)
    BY <1>3, <1>5 DEF Chain, Driver, ByNothing, ByCallback, ByRequest, ByAlarm, ByRetry
  <1>7. ASSUME h.failure = "NONE" PROVE Live(u, v, a, s)
    <2>1. Live(h, w, a, t) /\ h.hl.active  BY <1>1, <1>7 DEF Chain, HLInv
    <2>2. AskedId(g) = x /\ (HeadWaits(g) <=> HeadWaits(h.hl))
      BY <1>3 DEF AskedId, HeadWaits
    <2>3. Ordered(u, a, s)
      <3>1. u.retry = "NONE" /\ ~ u.resetAlarm
        BY <1>1, <1>5, <2>1 DEF Live, Ordered, Fresh, Host
      <3> QED  BY <1>3, <1>5, <2>1, <2>2, <3>1 DEF Live, Ordered
    <2>4. ResetFirst(g, a, s)
      <3>1. ResetFirst(h.hl, a, t)  BY <2>1 DEF Live
      <3>2. ASSUME NEW i \in 1..Len(s), s[i] = RESET PROVE i = 1 /\ a = << >>
        <4>1. Len(s) = Len(t) + 1 /\ Len(t) \in Nat  BY <1>2
        <4>2. CASE i \in 1..Len(t)
          <5>1. s[i] = t[i]  BY <1>2, <4>2
          <5> QED  BY <3>1, <3>2, <4>2, <5>1 DEF ResetFirst
        <4>3. CASE i = Len(t) + 1
          <5>1. s[i] = id  BY <1>2, <4>3
          <5>2. t = << >> /\ a = << >>  BY <3>1, <3>2, <5>1 DEF ResetFirst
          <5>3. Len(t) = 0  BY <5>2
          <5> QED  BY <4>3, <5>2, <5>3
        <4> QED  BY <4>1, <4>2, <4>3
      <3>3. g.bq # << >> /\ AskedId(g) = RESET => HeadWaits(g)
        BY <1>3, <2>2, <3>1 DEF ResetFirst
      <3> QED  BY <1>3, <3>2, <3>3 DEF ResetFirst
    <2>5. Flow(g, v)
      <3> HIDE DEF id, x
      <3> DEFINE p == << id >>
      <3>1. v = w \o p /\ p \in Seq(Message)  BY <1>2
      <3>2. /\ Has(Later, p) <=> id \in Later
            /\ Few(Later, p)
            /\ All(Later, p, x) <=> (id \in Later => id = x)
        BY OneMark, Zenon
      <3>3. Has(X, p) <=> id \in X
        <4> HIDE DEF X
        <4> QED  BY OneMark, Zenon
      <3> HIDE DEF p, v
      <3>0. ASSUME NEW S
            PROVE  /\ Has(S, v) <=> Has(S, w) \/ Has(S, p)
                   /\ Few(S, v) <=> Few(S, w) /\ Few(S, p) /\ ~ (Has(S, w) /\ Has(S, p))
                   /\ All(S, v, x) <=> All(S, w, x) /\ All(S, p, x)
        <4>1. /\ Has(S, w \o p) <=> Has(S, w) \/ Has(S, p)
              /\ Few(S, w \o p) <=> Few(S, w) /\ Few(S, p) /\ ~ (Has(S, w) /\ Has(S, p))
              /\ All(S, w \o p, x) <=> All(S, w, x) /\ All(S, p, x)
          BY <3>1, ConcatMarks, Zenon
        <4> QED  BY <3>1, <4>1
      <3>4. /\ Has(Later, v) <=> Has(Later, w) \/ Has(Later, p)
            /\ Few(Later, v) <=> Few(Later, w) /\ Few(Later, p) /\ ~ (Has(Later, w) /\ Has(Later, p))
            /\ All(Later, v, x) <=> All(Later, w, x) /\ All(Later, p, x)
        BY <3>0
      <3>5. Has(X, v) <=> Has(X, w) \/ Has(X, p)
        <4> HIDE DEF X
        <4> QED  BY <3>0, Zenon
      <3>6. NoPkt.id \notin Later  BY DEF NoPkt, Later
      <3>7. Flow(h.hl, w)  BY <2>1 DEF Live
      <3>8. CASE ~ HeadWaits(h.hl)
        <4>1. ~ Has(Later, w) /\ id \notin Later  BY <3>7, <3>8 DEF Flow, id
        <4> QED  BY <1>3, <2>2, <3>2, <3>4, <3>6, <3>8, <4>1 DEF Flow
      <3>9. CASE HeadWaits(h.hl)
        <4>1. /\ Few(Later, w) /\ All(Later, w, x) /\ (Has(Later, w) => id \notin Later)
              /\ (id \in Later => id = x) /\ (Has(X, w) \/ id = x)
          BY <3>7, <3>9 DEF Flow, id, x
        <4>2. Few(Later, v) /\ All(Later, v, x)  BY <3>2, <3>4, <4>1
        <4>3. Has(X, v)  BY <3>3, <3>5, <4>1
        <4> QED  BY <1>3, <2>2, <3>6, <3>9, <4>2, <4>3 DEF Flow
      <3> QED  BY <3>8, <3>9
    <2> QED  BY <1>5, <2>3, <2>4, <2>5 DEF Live
  <1> HIDE DEF v, s
  <1>8. Chain(u, v, a, s)  BY <1>3, <1>5, <1>6, <1>7 DEF Chain
  <1> QED  BY <1>3, <1>4, <1>5, <1>8 DEF u, v, s, g, id

\* The HL may send the next request.
LEMMA ReadyChain ==
  ASSUME NEW h, HostOK(h), NEW w, NEW a, NEW t, Chain(h, w, a, t),
         h.hl.div = NoPkt, h.hl.nq = << >>
  PROVE  Chain([h EXCEPT !.hl = TxReady(@)], w, a, t)
  <1> DEFINE g == TxReady(h.hl)
             u == [h EXCEPT !.hl = g]
             x == AskedId(h.hl)
  <1>1. h \in Host /\ HLInv(h.hl)  BY DEF HostOK, Chain
  <1>2. /\ HLInv(g) /\ Busy(g) /\ g.bq = h.hl.bq /\ g.nq = << >>
        /\ h.hl.bq # << >> => AskedId(g) = x
        /\ \/ h.hl.bq # << >> /\ ~ HeadWaits(h.hl) /\ HeadWaits(g) /\ g.div.id = x /\ g.div # NoPkt
           \/ g.div = NoPkt /\ ~ g.active /\ (h.hl.bq = << >> \/ HeadWaits(h.hl))
              /\ (HeadWaits(h.hl) <=> HeadWaits(g))
    BY <1>1, TxReadyAlone
  <1> HIDE DEF g
  <1>3. /\ u.hl = g /\ u.pos = h.pos /\ u.calls = h.calls /\ u.resetAlarm = h.resetAlarm
        /\ u.retry = h.retry /\ u.failure = h.failure /\ u.pending = h.pending
    BY <1>1 DEF Host
  <1> HIDE DEF u
  <1>4. Driver(u)
    BY <1>2, <1>3 DEF Chain, Driver, ByNothing, ByCallback, ByRequest, ByAlarm, ByRetry
  <1>5. ASSUME h.failure = "NONE" PROVE Live(u, w, a, t)
    <2>1. Live(h, w, a, t)  BY <1>5 DEF Chain
    <2>2. NoPkt.id \notin Later  BY DEF NoPkt, Later
    <2>3. CASE /\ h.hl.bq # << >> /\ ~ HeadWaits(h.hl)
               /\ HeadWaits(g) /\ g.div.id = x /\ g.div # NoPkt
      <3>1. u.retry = "NONE" /\ ~ u.resetAlarm
        BY <1>3, <2>3 DEF Chain, Driver, ByNothing, ByCallback, ByRequest, ByAlarm, ByRetry
      <3>2. Ordered(u, a, t)  BY <1>2, <1>3, <2>1, <2>3, <3>1 DEF Live, Ordered
      <3>3. ~ Has(Later, w)  BY <2>1, <2>3 DEF Live, Flow
      <3>4. Few(Later, w) /\ All(Later, w, x)  BY <3>3 DEF Has, Few, All
      <3>5. Flow(g, w)  BY <1>2, <2>3, <3>3, <3>4 DEF Flow
      <3>6. x # RESET  BY <2>1, <2>3 DEF Live, ResetFirst
      <3>7. ResetFirst(g, a, t)  BY <1>2, <2>1, <2>3, <3>6 DEF Live, ResetFirst
      <3> QED  BY <1>3, <3>2, <3>5, <3>7 DEF Live
    <2>4. CASE /\ g.div = NoPkt /\ ~ g.active /\ (h.hl.bq = << >> \/ HeadWaits(h.hl))
               /\ (HeadWaits(h.hl) <=> HeadWaits(g))
      <3>1. Ordered(u, a, t)  BY <1>2, <1>3, <2>1, <2>4 DEF Live, Ordered, Fresh
      <3>2. Flow(g, w)
        <4>1. HeadWaits(g) => AskedId(g) = x  BY <1>2 DEF HeadWaits
        <4> QED  BY <2>1, <2>2, <2>4, <4>1 DEF Live, Flow
      <3>3. ResetFirst(g, a, t)  BY <1>2, <2>1, <2>4 DEF Live, ResetFirst
      <3> QED  BY <1>3, <3>1, <3>2, <3>3 DEF Live
    <2> QED  BY <1>2, <2>3, <2>4
  <1>6. Chain(u, w, a, t)  BY <1>2, <1>3, <1>4, <1>5 DEF Chain
  <1> QED  BY <1>6 DEF u, g

(* The link and the SoC: they move messages along the way from the host's
   queue back to the SoC's, and add only resets. *)

Way == (toHost \o atSoc) \o toSoc

ChainInv == /\ TypeInv /\ Opened(host)
            /\ lost = 0 /\ late = 0 /\ errors = 0 => Chain(host, Way, atSoc, toSoc)

LEMMA ConcatHead ==
  ASSUME NEW T, NEW p \in Seq(T), NEW q \in Seq(T), p # << >>
  PROVE  p \o q # << >> /\ Head(p \o q) = Head(p) /\ Tail(p \o q) = Tail(p) \o q
  <1>1. p \o q # << >>  OBVIOUS
  <1>2. Head(p \o q) = Head(p)  OBVIOUS
  <1>3. Tail(p \o q) = Tail(p) \o q  OBVIOUS
  <1> QED BY <1>1, <1>2, <1>3

LEMMA ConcatLast ==
  ASSUME NEW T, NEW p \in Seq(T), NEW q \in Seq(T), NEW x \in T
  PROVE  p \o Append(q, x) = Append(p \o q, x)
  OBVIOUS

LEMMA Shift ==
  ASSUME NEW T, NEW p \in Seq(T), NEW q \in Seq(T), q # << >>
  PROVE  Append(p, Head(q)) \o Tail(q) = p \o q
  OBVIOUS

Join(p, q) == p \o q

LEMMA JoinFacts ==
  \A p, q \in Seq(Message) :
     /\ Join(p, q) \in Seq(Message)
     /\ p # << >> => /\ Join(p, q) # << >>
                     /\ Head(Join(p, q)) = Head(p)
                     /\ Tail(Join(p, q)) = Join(Tail(p), q)
     /\ q # << >> => Join(Append(p, Head(q)), Tail(q)) = Join(p, q)
     /\ \A x \in Message : Join(p, Append(q, x)) = Append(Join(p, q), x)
  <1> TAKE p, q \in Seq(Message)
  <1>1. Join(p, q) \in Seq(Message)  BY DEF Join
  <1>2. p # << >> => Join(p, q) # << >> /\ Head(Join(p, q)) = Head(p) /\ Tail(Join(p, q)) = Join(Tail(p), q)
    BY ConcatHead DEF Join
  <1>3. q # << >> => Join(Append(p, Head(q)), Tail(q)) = Join(p, q)  BY Shift DEF Join
  <1>4. \A x \in Message : Join(p, Append(q, x)) = Append(Join(p, q), x)  BY ConcatLast DEF Join
  <1> QED BY <1>1, <1>2, <1>3, <1>4

LEMMA ConcatThree ==
  \A p, q, r \in Seq(Message) :
     /\ p # << >> => /\ Join(Join(p, q), r) # << >>
                     /\ Head(Join(Join(p, q), r)) = Head(p)
                     /\ Tail(Join(Join(p, q), r)) = Join(Join(Tail(p), q), r)
     /\ \A x \in Message : Join(Join(p, q), Append(r, x)) = Append(Join(Join(p, q), r), x)
  <1> TAKE p, q, r \in Seq(Message)
  <1>1. Join(p, q) \in Seq(Message)  BY JoinFacts
  <1>2. /\ p # << >> => /\ Join(p, q) # << >> /\ Head(Join(p, q)) = Head(p)
                         /\ Tail(Join(p, q)) = Join(Tail(p), q)
    BY JoinFacts
  <1>3. /\ Join(p, q) # << >> => /\ Join(Join(p, q), r) # << >>
                                 /\ Head(Join(Join(p, q), r)) = Head(Join(p, q))
                                 /\ Tail(Join(Join(p, q), r)) = Join(Tail(Join(p, q)), r)
        /\ \A x \in Message : Join(Join(p, q), Append(r, x)) = Append(Join(Join(p, q), r), x)
    BY <1>1, JoinFacts
  <1> QED  BY <1>2, <1>3

LEMMA MoveLast ==
  \A p, q, r \in Seq(Message) :
     r # << >> => Join(Join(p, Append(q, Head(r))), Tail(r)) = Join(Join(p, q), r)
  <1> SUFFICES ASSUME NEW p \in Seq(Message), NEW q \in Seq(Message),
                      NEW r \in Seq(Message), r # << >>
               PROVE  Join(Join(p, Append(q, Head(r))), Tail(r)) = Join(Join(p, q), r)
    OBVIOUS
  <1>1. Head(r) \in Message /\ Join(p, q) \in Seq(Message)  BY HeadTailProperties DEF Join
  <1>2. Join(p, Append(q, Head(r))) = Append(Join(p, q), Head(r))  BY <1>1, JoinFacts
  <1>3. Join(Append(Join(p, q), Head(r)), Tail(r)) = Join(Join(p, q), r)  BY <1>1, JoinFacts
  <1> QED  BY <1>2, <1>3

LEMMA MoveFirst ==
  \A p, q, r \in Seq(Message) :
     q # << >> => Join(Join(Append(p, Head(q)), Tail(q)), r) = Join(p, Join(q, r))
  <1> SUFFICES ASSUME NEW p \in Seq(Message), NEW q \in Seq(Message),
                      NEW r \in Seq(Message), q # << >>
               PROVE  Join(Join(Append(p, Head(q)), Tail(q)), r) = Join(p, Join(q, r))
    OBVIOUS
  <1>1. Join(Append(p, Head(q)), Tail(q)) = Join(p, q)  BY JoinFacts
  <1>2. Join(Join(p, q), r) = Join(p, Join(q, r))  BY DEF Join
  <1> QED  BY <1>1, <1>2

\* Messages that nobody waits for, put between the others.
LEMMA InsertUnmarked ==
  ASSUME NEW T, NEW a \in Seq(T), NEW p \in Seq(T), NEW b \in Seq(T), NEW S, NEW Y,
         \A i \in 1..Len(p) : p[i] \notin S
  PROVE  /\ Has(S, (a \o p) \o b) <=> Has(S, a \o b)
         /\ Few(S, (a \o p) \o b) <=> Few(S, a \o b)
         /\ \A x : All(S, (a \o p) \o b, x) <=> All(S, a \o b, x)
         /\ Has(Y, a \o b) => Has(Y, (a \o p) \o b)
  <1> DEFINE ap == a \o p
  <1>1. ap \in Seq(T)  OBVIOUS
  <1>2. ~ Has(S, p) /\ Few(S, p) /\ \A x : All(S, p, x)  BY DEF Has, Few, All
  <1>3. /\ Has(S, ap) <=> Has(S, a) \/ Has(S, p)
        /\ Few(S, ap) <=> Few(S, a) /\ Few(S, p) /\ ~ (Has(S, a) /\ Has(S, p))
        /\ \A x : All(S, ap, x) <=> All(S, a, x) /\ All(S, p, x)
    BY ConcatMarks, Zenon
  <1>4. Has(Y, ap) <=> Has(Y, a) \/ Has(Y, p)  BY ConcatMarks, Zenon
  <1> HIDE DEF ap
  <1>5. ASSUME NEW c \in Seq(T), NEW R
        PROVE  /\ Has(R, c \o b) <=> Has(R, c) \/ Has(R, b)
               /\ Few(R, c \o b) <=> Few(R, c) /\ Few(R, b) /\ ~ (Has(R, c) /\ Has(R, b))
               /\ \A x : All(R, c \o b, x) <=> All(R, c, x) /\ All(R, b, x)
    BY ConcatMarks, Zenon
  <1>6. Has(S, ap \o b) <=> Has(S, a \o b)  BY <1>1, <1>2, <1>3, <1>5, Zenon
  <1>7. Few(S, ap \o b) <=> Few(S, a \o b)  BY <1>1, <1>2, <1>3, <1>5, Zenon
  <1>8. ASSUME NEW x PROVE All(S, ap \o b, x) <=> All(S, a \o b, x)
    <2>1. All(S, ap, x) <=> All(S, a, x)  BY <1>2, <1>3
    <2>2. All(S, ap \o b, x) <=> All(S, ap, x) /\ All(S, b, x)  BY <1>1, <1>5
    <2>3. All(S, a \o b, x) <=> All(S, a, x) /\ All(S, b, x)  BY <1>5
    <2> QED  BY <2>1, <2>2, <2>3
  <1>9. Has(Y, a \o b) => Has(Y, ap \o b)  BY <1>1, <1>4, <1>5, Zenon
  <1> QED  BY <1>6, <1>7, <1>8, <1>9, Zenon DEF ap

LEMMA WaySeq ==
  ASSUME TypeOK
  PROVE  /\ toHost \in Seq(Message) /\ atSoc \in Seq(Message) /\ toSoc \in Seq(Message)
         /\ Way \in Seq(Message)
  <1>1. Step \subseteq Message  BY DEF Message
  <1>2. atSoc \in Seq(Message) /\ toSoc \in Seq(Message) /\ toHost \in Seq(Message)
    BY <1>1 DEF TypeOK
  <1> QED  BY <1>2 DEF Way

LEMMA InitChain == Init => ChainInv
  <1> SUFFICES ASSUME Init PROVE ChainInv  OBVIOUS
  <1>1. TypeInv  BY InitTypes
  <1>2. Way = << >>  BY DEF Init, Way
  <1>3. /\ host.hl = HLInit /\ host.pos = RESET /\ ~ host.pending /\ host.calls = 0
        /\ ~ host.resetAlarm /\ host.retry = "FIRST" /\ toSoc = << >> /\ atSoc = << >>
    BY DEF Init
  <1>4. /\ HLInit.bq = << >> /\ HLInit.nq = << >> /\ ~ HLInit.active /\ HLInit.div = NoPkt
        /\ ~ HLInit.aborted /\ \A b \in Buf : HLInit.pool[b].status = "FREE"
    BY DEF HLInit, FreeBuffer
  <1>5. HLInit \in HLState  BY <1>1, <1>3 DEF TypeInv, HostOK, Typed
  <1>6. HLInv(HLInit) /\ Busy(HLInit)
    BY <1>4, <1>5 DEF HLInv, Busy, Distinct, StatusFits, AllQueued
  <1>7. ByRetry(host) /\ host.pos # DONE  BY <1>3, <1>4, StepFacts DEF ByRetry
  <1>8. Ordered(host, << >>, << >>)  BY <1>3, <1>4 DEF Ordered, Fresh
  <1>9. Flow(HLInit, << >>)
    <2>1. NoPkt.id \notin Later  BY DEF NoPkt, Later
    <2> QED  BY <1>4, <2>1, NoMarks DEF Flow, HeadWaits
  <1>10. ResetFirst(HLInit, << >>, << >>)  BY <1>4 DEF ResetFirst
  <1>11. Chain(host, << >>, << >>, << >>)
    BY <1>3, <1>6, <1>7, <1>8, <1>9, <1>10 DEF Chain, Live, Driver
  <1>12. Opened(host)  BY DEF Init, Opened
  <1> QED  BY <1>1, <1>2, <1>3, <1>11, <1>12 DEF ChainInv

LEMMA HostChain ==
  ASSUME ChainInv, lost' = 0, late' = 0, errors' = 0,
         Callback \/ ResetAlarm \/ Timer \/ (\E ok, repeated \in BOOLEAN : RetryInit(ok, repeated))
  PROVE  Chain(host', Way', atSoc', toSoc')
  <1>1. TypeOK /\ HostOK(host) /\ late \in Nat
    BY StartupConstants DEF ChainInv, TypeInv, TypeOK
  <1>2. late = 0 /\ (Timer => Quiet)
    BY <1>1 DEF Callback, ResetAlarm, Timer, RetryInit
  <1>3. Chain(host, Way, atSoc, toSoc) /\ host.failure = "NONE"
    BY <1>2 DEF ChainInv, Callback, ResetAlarm, Timer, RetryInit, Running
  <1>4. (Callback \/ ResetAlarm \/ Timer) => Way' = Way /\ atSoc' = atSoc /\ toSoc' = toSoc
    BY DEF Way, Callback, ResetAlarm, Timer, soc
  <1>5. CASE Callback  BY <1>1, <1>3, <1>4, <1>5, CallbackChain DEF Callback
  <1>6. CASE ResetAlarm  BY <1>1, <1>3, <1>4, <1>6, ResetAlarmChain DEF ResetAlarm
  <1>7. CASE Timer
    <2>1. /\ toSoc = << >> /\ atSoc = << >> /\ Way = << >>
          /\ ~ host.hl.active /\ host.calls = 0 /\ ~ host.resetAlarm /\ host.retry = "NONE"
      <3>1. Quiet  BY <1>2, <1>7
      <3>2. host.retry = "NONE"
        BY <1>1, <1>3, <1>7, ForgetChain DEF ChainInv, Opened, Timer
      <3> QED  BY <3>1, <3>2 DEF Quiet, Way
    <2>2. Chain(TimerAlarm([host EXCEPT !.timer = FALSE]), << >>, << >>, << >>)
      BY <1>1, <1>3, <2>1, TimerChain
    <2> QED  BY <1>4, <1>7, <2>1, <2>2 DEF Timer
  <1>8. CASE \E ok, repeated \in BOOLEAN : RetryInit(ok, repeated)
    <2>1. PICK ok \in BOOLEAN, repeated \in BOOLEAN : RetryInit(ok, repeated)  BY <1>8
    <2>2. host.retry # "NONE" /\ host' = InitTransport(host, host.retry, ok)
          /\ toSoc' = << >> /\ atSoc' = atSoc /\ toHost' \in {toHost, << >>}
      BY <2>1 DEF RetryInit, PortRestarts
    <2>3. atSoc = << >> /\ toSoc = << >> /\ Chain(host, << >>, atSoc, toSoc)
      BY <1>1, <1>3, <2>2, ForgetChain
    <2>4. Way' \in {Way, << >>}  BY <2>2, <2>3 DEF Way
    <2>5. Chain(host, Way', atSoc, toSoc)  BY <1>3, <2>3, <2>4
    <2>6. Chain(InitTransport(host, host.retry, ok), Way', atSoc, toSoc)
      BY <1>1, <1>3, <2>2, <2>5, RetryChain
    <2> QED  BY <2>2, <2>3, <2>6
  <1> QED  BY <1>5, <1>6, <1>7, <1>8

LEMMA QuantumChain ==
  ASSUME ChainInv, lost' = 0, late' = 0, errors' = 0,
         NEW takes \in BOOLEAN, NEW receives \in BOOLEAN, Quantum(takes, receives)
  PROVE  Chain(host', Way', atSoc', toSoc')
  <1> DEFINE h == IF receives THEN Handle(host, Head(toHost)) ELSE host
             w == IF receives THEN Tail(Way) ELSE Way
             id == host.hl.div.id
  <1>1. /\ TypeOK /\ HostOK(host) /\ Typed(host.hl) /\ host.failure = "NONE"
        /\ Chain(host, Way, atSoc, toSoc)
        /\ toHost \in Seq(Message) /\ atSoc \in Seq(Message) /\ toSoc \in Seq(Message)
        /\ Way \in Seq(Message) /\ toSoc \in Seq(Step)
    BY WaySeq DEF ChainInv, TypeInv, HostOK, Quantum, Running, TypeOK
  <1>2. id \in Step /\ id \in Message  BY <1>1 DEF Typed, Message
  <1>3. atSoc' = atSoc /\ toSoc' = (IF takes THEN Append(toSoc, id) ELSE toSoc)
        /\ toHost' = (IF receives THEN Tail(toHost) ELSE toHost)
        /\ (takes => host.hl.div # NoPkt) /\ (receives => toHost # << >>)
        /\ host' = [h EXCEPT !.hl = EndOfQuantum(h.hl, takes)]
    BY DEF Quantum
  <1>4. /\ w = (toHost' \o atSoc) \o toSoc
        /\ w \in Seq(Message)
        /\ receives => Way # << >> /\ Head(Way) = Head(toHost)
    <2>1. /\ toHost # << >> => /\ Way # << >> /\ Head(Way) = Head(toHost)
                               /\ Tail(Way) = (Tail(toHost) \o atSoc) \o toSoc
      <3>1. toHost # << >> =>
              /\ Join(Join(toHost, atSoc), toSoc) # << >>
              /\ Head(Join(Join(toHost, atSoc), toSoc)) = Head(toHost)
              /\ Tail(Join(Join(toHost, atSoc), toSoc)) = Join(Join(Tail(toHost), atSoc), toSoc)
        BY <1>1, ConcatThree
      <3> QED  BY <3>1, Zenon DEF Join, Way
    <2>2. receives => Tail(Way) \in Seq(Message)
      BY <1>1, <1>3, <2>1, HeadTailProperties
    <2>3. CASE receives  BY <1>3, <2>1, <2>2, <2>3
    <2>4. CASE ~ receives  BY <1>1, <1>3, <2>4 DEF Way
    <2> QED  BY <2>3, <2>4
  <1>5. HostOK(h) /\ Chain(h, w, atSoc, toSoc) /\ h.hl.div = host.hl.div /\ h.hl.nq = << >>
    <2>1. CASE receives
      <3>1. /\ Chain(Handle(host, Head(Way)), Tail(Way), atSoc, toSoc)
            /\ HostOK(Handle(host, Head(Way)))
            /\ Handle(host, Head(Way)).hl.div = host.hl.div
            /\ Handle(host, Head(Way)).hl.nq = << >>
        BY <1>1, <1>4, <2>1, HandleChain
      <3> QED  BY <1>4, <2>1, <3>1
    <2>2. CASE ~ receives
      <3>1. host.hl.nq = << >>  BY <1>1 DEF Chain, Live, Ordered
      <3> QED  BY <1>1, <2>2, <3>1
    <2> QED  BY <2>1, <2>2
  <1> HIDE DEF h, w
  <1>6. h \in Host  BY <1>5 DEF HostOK
  <1>7. CASE takes
    <2> DEFINE u == [h EXCEPT !.hl = [@ EXCEPT !.div = NoPkt]]
               v == Append(w, id)
               s == Append(toSoc, id)
    <2>1. /\ Chain(u, v, atSoc, s) /\ HostOK(u) /\ u.hl.div = NoPkt /\ u.hl.nq = << >>
      <3>1. h.hl.div # NoPkt /\ id = h.hl.div.id  BY <1>3, <1>5, <1>7
      <3> HIDE DEF id
      <3> QED  BY <1>1, <1>4, <1>5, <3>1, TakeChain
    <2>2. host' = [u EXCEPT !.hl = TxReady(@)]
      <3> DEFINE g == [h.hl EXCEPT !.div = NoPkt]
      <3>1. g.div = NoPkt  BY <1>5 DEF HostOK, Typed, HLState
      <3>2. EndOfQuantum(h.hl, takes) = TxReady(g)  BY <1>7, <3>1 DEF EndOfQuantum, TxIsReady
      <3> HIDE DEF g
      <3>3. u = [h EXCEPT !.hl = g]  BY DEF g
      <3>4. u.hl = g  BY <1>6, <3>3 DEF Host
      <3> HIDE DEF u
      <3>5. [u EXCEPT !.hl = TxReady(g)] = [h EXCEPT !.hl = TxReady(g)]  BY <1>6, <3>3 DEF Host
      <3> QED  BY <1>3, <3>2, <3>4, <3>5
    <2>3. Way' = v /\ toSoc' = s
      <3>1. toHost' \in Seq(Message)
        <4>1. receives => Tail(toHost) \in Seq(Message)  BY <1>1, <1>3, HeadTailProperties
        <4> QED  BY <1>1, <1>3, <4>1
      <3> HIDE DEF id
      <3>2. (toHost' \o atSoc) \o Append(toSoc, id) = Append((toHost' \o atSoc) \o toSoc, id)
        <4>1. Join(Join(toHost', atSoc), Append(toSoc, id))
              = Append(Join(Join(toHost', atSoc), toSoc), id)
          BY <1>1, <1>2, <3>1, ConcatThree, SMTT(30)
        <4> QED  BY <4>1, Zenon DEF Join
      <3> QED  BY <1>3, <1>4, <1>7, <3>2 DEF Way
    <2> HIDE DEF u, v, s
    <2>4. Chain([u EXCEPT !.hl = TxReady(@)], v, atSoc, s)  BY <2>1, ReadyChain
    <2> QED  BY <1>3, <2>2, <2>3, <2>4
  <1>8. CASE ~ takes
    <2>1. Way' = w /\ toSoc' = toSoc /\ atSoc' = atSoc  BY <1>3, <1>4, <1>8 DEF Way
    <2>2. CASE h.hl.div = NoPkt
      <3>1. host' = [h EXCEPT !.hl = TxReady(@)]
        BY <1>3, <1>8, <2>2 DEF EndOfQuantum, TxIsReady
      <3>2. Chain([h EXCEPT !.hl = TxReady(@)], w, atSoc, toSoc)  BY <1>5, <2>2, ReadyChain
      <3> QED  BY <2>1, <3>1, <3>2
    <2>3. CASE h.hl.div # NoPkt
      <3>1. host' = h
        BY <1>3, <1>6, <1>8, <2>3 DEF EndOfQuantum, TxIsReady, Host
      <3> QED  BY <1>5, <2>1, <3>1
    <2> QED  BY <2>2, <2>3
  <1> QED  BY <1>7, <1>8

LEMMA SocChain ==
  ASSUME ChainInv, lost' = 0, late' = 0, errors' = 0,
         \/ SocReceive
         \/ \E again \in BOOLEAN : SocAnswer(again)
         \/ \E msg \in {RESET, RESET_IND} : SocRestarts(msg)
  PROVE  Chain(host', Way', atSoc', toSoc')
  <1> DEFINE x == AskedId(host.hl)
             X == {x}
  <1>1. /\ TypeOK /\ HostOK(host) /\ host' = host
        /\ toHost \in Seq(Message) /\ atSoc \in Seq(Message) /\ toSoc \in Seq(Message)
        /\ Way \in Seq(Message) /\ RESET \in Message /\ RESET_IND \in Message
    BY WaySeq, StepFacts DEF ChainInv, TypeInv, SocReceive, SocAnswer, SocRestarts, Message
  <1>2. lost \in Nat /\ late \in Nat /\ Len(atSoc) \in Nat
    BY <1>1, StartupConstants DEF TypeOK
  <1>3. lost = 0 /\ late = 0 /\ errors = 0
    BY <1>2 DEF SocReceive, SocAnswer, SocRestarts
  <1>4. Chain(host, Way, atSoc, toSoc)  BY <1>3 DEF ChainInv
  <1> SUFFICES ASSUME host.failure = "NONE" PROVE Live(host, Way', atSoc', toSoc')
    BY <1>1, <1>4 DEF Chain
  <1>5. Live(host, Way, atSoc, toSoc)  BY <1>4 DEF Chain
  <1>6. RESET \notin Later /\ RESET_IND \notin Later  BY DEF RESET, RESET_IND, Later
  <1>7. CASE SocReceive
    <2>1. toSoc # << >> /\ host.retry = "NONE" /\ ~ host.resetAlarm
      BY <1>5, <1>7 DEF SocReceive, Live, Ordered, Fresh
    <2>2. /\ 1 \in 1..Len(toSoc) /\ Head(toSoc) = toSoc[1]
          /\ Tail(toSoc) \in Seq(Message) /\ Len(Tail(toSoc)) = Len(toSoc) - 1
          /\ \A i \in 1..Len(Tail(toSoc)) : Tail(toSoc)[i] = toSoc[i + 1]
      BY <1>1, <2>1, HeadTailProperties, EmptySeq
    <2>3. Head(toSoc) = RESET => atSoc = << >>
      BY <1>5, <2>2 DEF Live, ResetFirst
    <2>4. Way' = Way
      <3>1. Append(atSoc, Head(toSoc)) = atSoc'
        <4>1. CASE Head(toSoc) = RESET
          <5>1. atSoc' = << RESET >> /\ atSoc = << >>  BY <1>7, <2>3, <4>1 DEF SocReceive
          <5>2. Append(<< >>, RESET) = << RESET >>  OBVIOUS
          <5> QED  BY <4>1, <5>1, <5>2
        <4>2. CASE Head(toSoc) # RESET  BY <1>7, <4>2 DEF SocReceive
        <4> QED  BY <4>1, <4>2
      <3>2. (toHost \o Append(atSoc, Head(toSoc))) \o Tail(toSoc) = (toHost \o atSoc) \o toSoc
        <4>1. Join(Join(toHost, Append(atSoc, Head(toSoc))), Tail(toSoc))
              = Join(Join(toHost, atSoc), toSoc)
          BY <1>1, <2>1, MoveLast
        <4> QED  BY <4>1, Zenon DEF Join
      <3>3. Way' = (toHost \o atSoc') \o Tail(toSoc)  BY <1>7 DEF SocReceive, Way
      <3> QED  BY <3>1, <3>2, <3>3 DEF Way
    <2>5. ResetFirst(host.hl, atSoc', toSoc')
      <3>1. \A i \in 1..Len(Tail(toSoc)) : Tail(toSoc)[i] # RESET
        <4> TAKE i \in 1..Len(Tail(toSoc))
        <4>1. i + 1 \in 1..Len(toSoc) /\ i + 1 # 1 /\ Tail(toSoc)[i] = toSoc[i + 1]
          BY <1>1, <2>2
        <4> QED  BY <1>5, <4>1 DEF Live, ResetFirst
      <3>2. ~ (host.hl.div # NoPkt /\ host.hl.div.id = RESET)
        BY <1>5, <2>1 DEF Live, ResetFirst
      <3> QED  BY <1>5, <1>7, <3>1, <3>2 DEF Live, ResetFirst, SocReceive
    <2>6. Ordered(host, atSoc', toSoc')  BY <1>5, <2>1 DEF Live, Ordered
    <2> QED  BY <1>5, <2>4, <2>5, <2>6 DEF Live
  <1>8. ASSUME NEW p \in Seq(Message), NEW b \in Seq(Message), \A i \in 1..Len(p) : p[i] \notin Later,
               Way' = (toHost \o p) \o b, Way = toHost \o b
        PROVE  Flow(host.hl, Way')
    <2>1. /\ Has(Later, (toHost \o p) \o b) <=> Has(Later, toHost \o b)
          /\ Few(Later, (toHost \o p) \o b) <=> Few(Later, toHost \o b)
          /\ All(Later, (toHost \o p) \o b, x) <=> All(Later, toHost \o b, x)
      <3> HIDE DEF x
      <3> QED  BY <1>1, <1>8, InsertUnmarked, Zenon
    <2>2. Has(X, toHost \o b) => Has(X, (toHost \o p) \o b)
      <3> HIDE DEF X
      <3> QED  BY <1>1, <1>8, InsertUnmarked, Zenon
    <2>3. /\ Has(Later, Way') <=> Has(Later, Way)
          /\ Few(Later, Way') <=> Few(Later, Way)
          /\ All(Later, Way', x) <=> All(Later, Way, x)
          /\ Has(X, Way) => Has(X, Way')
      BY <1>8, <2>1, <2>2
    <2> QED  BY <1>5, <2>3 DEF Live, Flow
  <1>9. ASSUME NEW again \in BOOLEAN, SocAnswer(again)
        PROVE  Live(host, Way', atSoc', toSoc')
    <2> DEFINE p == IF again THEN << RESET >> ELSE << >>
               b == atSoc \o toSoc
    <2>1. atSoc # << >> /\ host.retry = "NONE" /\ ~ host.resetAlarm
      BY <1>1, <1>5, <1>9 DEF SocAnswer, Live, Ordered, Fresh, HostOK, Host
    <2>2. Head(atSoc) \in Message /\ Tail(atSoc) \in Seq(Message)
          /\ atSoc = << Head(atSoc) >> \o Tail(atSoc)
      BY <1>1, <2>1
    <2>3. p \in Seq(Message) /\ b \in Seq(Message) /\ \A i \in 1..Len(p) : p[i] \notin Later
      BY <1>1, <1>6
    <2>4. Way = toHost \o b  BY <1>1, ConcatAssociative DEF Way
    <2>9. \A c \in Seq(Message) :
            ((c \o << Head(atSoc) >>) \o Tail(atSoc)) \o toSoc = c \o b
      <3> TAKE c \in Seq(Message)
      <3>1. Join(Join(Append(c, Head(atSoc)), Tail(atSoc)), toSoc) = Join(c, Join(atSoc, toSoc))
        BY <1>1, <2>1, MoveFirst
      <3>2. c \o << Head(atSoc) >> = Append(c, Head(atSoc))  BY <2>2, AppendIsConcat
      <3> QED  BY <3>1, <3>2, Zenon DEF Join
    <2>5. Way' = (toHost \o p) \o b
      <3>1. Way' = (toHost' \o Tail(atSoc)) \o toSoc  BY <1>9 DEF SocAnswer, Way
      <3>2. CASE again
        <4>1. toHost' = (toHost \o << RESET >>) \o << Head(atSoc) >>
          BY <1>1, <1>9, <3>2, SMTT(30) DEF SocAnswer
        <4> DEFINE c == toHost \o << RESET >>
        <4>2. c \in Seq(Message)  BY <1>1
        <4>3. Way' = ((c \o << Head(atSoc) >>) \o Tail(atSoc)) \o toSoc  BY <3>1, <4>1
        <4>4. toHost \o p = c  BY <3>2
        <4> HIDE DEF c, p, b
        <4> QED  BY <2>9, <4>2, <4>3, <4>4
      <3>3. CASE ~ again
        <4>1. toHost' = toHost \o << Head(atSoc) >>  BY <1>9, <3>3 DEF SocAnswer
        <4>2. Way' = ((toHost \o << Head(atSoc) >>) \o Tail(atSoc)) \o toSoc  BY <3>1, <4>1
        <4>3. toHost \o p = toHost  BY <1>1, <3>3
        <4> HIDE DEF p, b
        <4> QED  BY <1>1, <2>9, <4>2, <4>3
      <3> QED  BY <3>2, <3>3
    <2>6. Flow(host.hl, Way')
      <3> HIDE DEF p, b
      <3> QED  BY <1>8, <2>3, <2>4, <2>5
    <2>7. ResetFirst(host.hl, atSoc', toSoc')
      BY <1>5, <1>9, <2>1 DEF Live, ResetFirst, SocAnswer
    <2>8. Ordered(host, atSoc', toSoc')  BY <1>5, <2>1 DEF Live, Ordered
    <2> QED  BY <2>6, <2>7, <2>8 DEF Live
  <1>10. ASSUME NEW msg \in {RESET, RESET_IND}, SocRestarts(msg)
         PROVE  Live(host, Way', atSoc', toSoc')
    <2> DEFINE p == << msg >>
    <2>1. atSoc = << >> /\ atSoc' = << >> /\ toSoc' = toSoc /\ toHost' = toHost \o p
      <3>1. Len(atSoc) = 0  BY <1>2, <1>3, <1>10 DEF SocRestarts
      <3>2. atSoc = << >>  BY <1>1, <3>1, EmptySeq
      <3>3. Append(toHost, msg) = toHost \o p  BY <1>1, <1>10, AppendIsConcat
      <3> QED  BY <1>10, <3>2, <3>3 DEF SocRestarts
    <2>2. p \in Seq(Message) /\ \A i \in 1..Len(p) : p[i] \notin Later
      BY <1>1, <1>6
    <2>3. Way = toHost \o toSoc /\ Way' = (toHost \o p) \o toSoc  BY <1>1, <2>1 DEF Way
    <2>4. Flow(host.hl, Way')
      <3> HIDE DEF p
      <3> QED  BY <1>1, <1>8, <2>2, <2>3
    <2> QED  BY <1>5, <2>1, <2>4 DEF Live
  <1> QED
    <2>1. CASE SocReceive  BY <1>7, <2>1
    <2>2. CASE \E again \in BOOLEAN : SocAnswer(again)  BY <1>9, <2>2
    <2>3. CASE \E msg \in {RESET, RESET_IND} : SocRestarts(msg)  BY <1>10, <2>3
    <2> QED  BY <2>1, <2>2, <2>3

LEMMA NextChain == ChainInv /\ [Next]_vars => ChainInv'
  <1> SUFFICES ASSUME ChainInv, [Next]_vars PROVE ChainInv'  OBVIOUS
  <1>1. TypeInv' /\ Opened(host)'  BY NextTypes, NextOpened DEF ChainInv
  <1>2. TypeOK /\ {lost, errors} \subseteq Nat  BY StartupConstants DEF ChainInv, TypeInv, TypeOK
  <1> SUFFICES ASSUME lost' = 0, late' = 0, errors' = 0
               PROVE  Chain(host', Way', atSoc', toSoc')
    BY <1>1 DEF ChainInv
  <1>3. CASE Callback \/ ResetAlarm \/ Timer \/ (\E ok, repeated \in BOOLEAN : RetryInit(ok, repeated))
    BY <1>3, HostChain
  <1>4. CASE \E takes, receives \in BOOLEAN : Quantum(takes, receives)  BY <1>4, QuantumChain
  <1>5. CASE \/ SocReceive
             \/ \E again \in BOOLEAN : SocAnswer(again)
             \/ \E msg \in {RESET, RESET_IND} : SocRestarts(msg)
    BY <1>5, SocChain
  <1>6. CASE \E ok, repeated \in BOOLEAN : ReadError(ok, repeated)
    BY <1>2, <1>6 DEF ReadError
  <1>7. CASE GiveUp  BY <1>2, <1>7 DEF GiveUp
  <1>8. CASE UNCHANGED vars
    <2>1. Way' = Way /\ host' = host /\ atSoc' = atSoc /\ toSoc' = toSoc
          /\ lost = 0 /\ late = 0 /\ errors = 0
      BY <1>8 DEF vars, soc, Way
    <2> QED  BY <2>1 DEF ChainInv
  <1> QED  BY <1>3, <1>4, <1>5, <1>6, <1>7, <1>8 DEF Next

\* While nothing is lost, no time-out is early and the port does not fail, exactly
\* one thing at a time drives the start-up (startup_next_step, soc_reset,
\* init_transport or a blocking request), however the SoC restarts or repeats its
\* reset responses: no step is asked for twice and the start-up never stands still.
THEOREM OneDriver == Spec => []SingleChain
  <1>1. Init => ChainInv  BY InitChain
  <1>2. ChainInv /\ [Next]_vars => ChainInv'  BY NextChain
  <1>3. ChainInv => SingleChain
    BY DriverCounts DEF ChainInv, TypeInv, Chain, SingleChain
  <1> QED  BY <1>1, <1>2, <1>3, PTL DEF Spec

----------------------------------------------------------------------------
(* The start-up when a request is lost or the port fails, but nothing comes *)
(* late or twice: at most one thing at a time has the turn, and none once   *)
(* it is lost.  First what the queues do to the one request, without HLInv: *)
(* what the port's error leaves in the pool is in no queue.                 *)

Used(g) == Buf \ FreeBufs(g)

\* u is g with buffer b reserved for id.
Reserved(g, b, id, u) ==
  /\ u \in HLState
  /\ u.bq = g.bq /\ u.nq = g.nq /\ u.active = g.active
  /\ u.div = g.div /\ u.aborted = g.aborted
  /\ u.pool[b].status = "RESERVED_BLOCKING" /\ u.pool[b].id = id
  /\ \A c \in Buf \ {b} : u.pool[c] = g.pool[c]

LEMMA ReservedEffect ==
  ASSUME NEW g \in HLState, NEW b \in Buf, NEW id \in Nat
  PROVE  Reserved(g, b, id, GetRequestBuffer(g, b, TRUE, id))
  <1> DEFINE n == NextTsn(g.tsn)
             x == [status |-> "RESERVED_BLOCKING", tsn |-> n, id |-> id]
             v == [g EXCEPT !.tsn = n]
             u == GetRequestBuffer(g, b, TRUE, id)
  <1>1. g.tsn \in Tsn  BY DEF HLState
  <1>2. n \in Tsn  BY <1>1, HLConstants DEF NextTsn, Tsn
  <1>3. u = [g EXCEPT !.tsn = n, !.pool[b] = x]  BY DEF GetRequestBuffer
  <1> HIDE DEF n, u
  <1>4. x \in TxBuffer /\ x.status = "RESERVED_BLOCKING" /\ x.id = id
    BY <1>2 DEF TxBuffer, BufStatus
  <1> HIDE DEF x
  <1>5. /\ v \in HLState /\ v.bq = g.bq /\ v.nq = g.nq /\ v.active = g.active
        /\ v.div = g.div /\ v.aborted = g.aborted /\ v.pool = g.pool
    BY <1>2 DEF HLState
  <1>6. u = [v EXCEPT !.pool[b] = x]  BY <1>3 DEF HLState
  <1> HIDE DEF v
  <1>7. /\ u \in HLState
        /\ u.bq = v.bq /\ u.nq = v.nq /\ u.active = v.active
        /\ u.div = v.div /\ u.aborted = v.aborted
        /\ u.pool[b] = x
        /\ \A c \in Buf \ {b} : u.pool[c] = v.pool[c]
    BY <1>4, <1>5, <1>6, PoolUpdate
  <1> QED  BY <1>4, <1>5, <1>7 DEF Reserved, u

\* u is g with buffer b at the end of the blocking queue.
Put(g, b, s, u) ==
  /\ u.bq = Append(g.bq, b) /\ u.nq = g.nq /\ u.active = g.active
  /\ u.div = g.div /\ u.aborted = g.aborted
  /\ u.pool[b].status = s /\ u.pool[b].id = g.pool[b].id
  /\ \A c \in Buf \ {b} : u.pool[c] = g.pool[c]

LEMMA PutEffect ==
  ASSUME NEW g \in HLState, NEW b \in Buf, NEW s \in BufStatus, Len(g.bq) < POOL_SIZE
  PROVE  Put(g, b, s, PutInQueue(g, b, TRUE, s))
  <1> DEFINE y == [g.pool[b] EXCEPT !.status = s]
             z == SetStatus(g, b, s)
             u == PutInQueue(g, b, TRUE, s)
  <1>1. g.pool[b] \in TxBuffer  BY DEF HLState
  <1>2. y \in TxBuffer /\ y.status = s /\ y.id = g.pool[b].id
    BY <1>1, BufferTypes DEF TxBuffer
  <1>3. z = [g EXCEPT !.pool[b] = y]  BY DEF SetStatus, HLState
  <1>4. u = [z EXCEPT !.bq = Append(@, b)]  BY DEF PutInQueue, Enqueue
  <1> HIDE DEF y, z, u
  <1>5. /\ z \in HLState
        /\ z.bq = g.bq /\ z.nq = g.nq /\ z.active = g.active
        /\ z.div = g.div /\ z.aborted = g.aborted /\ z.pool[b] = y
        /\ \A c \in Buf \ {b} : z.pool[c] = g.pool[c]
    BY <1>2, <1>3, PoolUpdate
  <1>6. /\ u.bq = Append(g.bq, b) /\ u.nq = z.nq /\ u.active = z.active /\ u.div = z.div
        /\ u.aborted = z.aborted /\ u.pool = z.pool
    BY <1>4, <1>5 DEF HLState
  <1> QED  BY <1>2, <1>5, <1>6 DEF Put, u

\* One buffer more is used, at most.
UsesOne(g, r) == \E b \in Buf : Used(r) \subseteq Used(g) \cup {b}

LEMMA UsedByOne ==
  ASSUME NEW g, NEW r, NEW b \in Buf, \A c \in Buf \ {b} : r.pool[c] = g.pool[c]
  PROVE  UsesOne(g, r)
  BY DEF UsesOne, Used, FreeBufs

\* A request made while nothing is sent and nothing waits goes to the divider.
LEMMA RequestSent ==
  ASSUME NEW g \in HLState, FreeBufs(g) # {}, g.bq = << >>, ~ g.active, g.div = NoPkt,
         NEW id \in Nat
  PROVE  LET r == Request(g, TRUE, id)
         IN /\ r.nq = g.nq /\ r.aborted = g.aborted /\ r.active
            /\ Len(r.bq) = 1 /\ r.bq # << >> /\ AskedId(r) = id /\ HeadWaits(r)
            /\ r.div # NoPkt /\ r.div.id = id
            /\ UsesOne(g, r)
  <1> DEFINE b == FindFree(g)
             u == GetRequestBuffer(g, b, TRUE, id)
             p == [id |-> id, tsn |-> u.pool[b].tsn, blocking |-> TRUE]
             w == [LLSendPacket(u, b, TRUE) EXCEPT !.active = TRUE]
             r == Request(g, TRUE, id)
  <1>1. b \in Buf  BY FindFreeIsFree DEF FreeBufs
  <1>2. r = SendPacket(u, b)  BY DEF Request
  <1> HIDE DEF b
  <1>3. /\ u \in HLState
        /\ u.bq = << >> /\ u.nq = g.nq /\ ~ u.active /\ u.div = NoPkt /\ u.aborted = g.aborted
        /\ u.pool[b].status = "RESERVED_BLOCKING" /\ u.pool[b].id = id
        /\ \A c \in Buf \ {b} : u.pool[c] = g.pool[c]
    <2>1. Reserved(g, b, id, u)  BY <1>1, ReservedEffect
    <2> HIDE DEF u
    <2> QED  BY <2>1 DEF Reserved
  <1> HIDE DEF u
  <1>4. r = PutInQueue(w, b, TRUE, "WAIT_RESPONSE")
    BY <1>2, <1>3 DEF SendPacket, MustQueue, SendDirectly
  <1>5. /\ w \in HLState /\ w.bq = << >> /\ w.nq = g.nq /\ w.active /\ w.div = p
        /\ w.aborted = g.aborted /\ w.pool = u.pool
    <2>1. p \in Packet  BY <1>1, <1>3 DEF HLState, TxBuffer, Packet
    <2>2. w = [u EXCEPT !.div = p, !.active = TRUE]  BY <1>3 DEF LLSendPacket, HLState
    <2> HIDE DEF p, w
    <2> QED  BY <1>3, <2>1, <2>2 DEF HLState
  <1>6. p.id = id /\ p # NoPkt
    <2>1. p.blocking # NoPkt.blocking  BY DEF NoPkt
    <2> QED  BY <2>1
  <1> HIDE DEF p, w, r
  <1>7. Len(w.bq) < POOL_SIZE /\ "WAIT_RESPONSE" \in BufStatus
    BY <1>5, HLConstants DEF BufStatus
  <1>8. /\ r.bq = Append(w.bq, b) /\ r.nq = w.nq /\ r.active = w.active
        /\ r.div = w.div /\ r.aborted = w.aborted
        /\ r.pool[b].status = "WAIT_RESPONSE" /\ r.pool[b].id = w.pool[b].id
        /\ \A c \in Buf \ {b} : r.pool[c] = w.pool[c]
    <2>1. Put(w, b, "WAIT_RESPONSE", r)  BY <1>1, <1>4, <1>5, <1>7, PutEffect
    <2> QED  BY <2>1 DEF Put
  <1>9. r.bq = << b >> /\ Head(r.bq) = b /\ Len(r.bq) = 1 /\ r.bq # << >>  BY <1>5, <1>8
  <1>10. UsesOne(g, r)  BY <1>1, <1>3, <1>5, <1>8, UsedByOne
  <1> QED  BY <1>3, <1>5, <1>6, <1>8, <1>9, <1>10 DEF AskedId, HeadWaits, r

\* A request made while another waits for its answer stays behind it.
LEMMA RequestStays ==
  ASSUME NEW g \in HLState, FreeBufs(g) # {}, HeadWaits(g), ~ g.active, NEW id \in Nat
  PROVE  LET r == Request(g, TRUE, id)
         IN /\ r.nq = g.nq /\ r.aborted = g.aborted /\ r.active = g.active /\ r.div = g.div
            /\ r.bq # << >> /\ AskedId(r) = AskedId(g) /\ HeadWaits(r)
            /\ UsesOne(g, r)
            /\ Len(r.bq) = Len(g.bq) + 1 \/ (r.bq = g.bq /\ Len(g.bq) >= POOL_SIZE)
  <1> DEFINE b == FindFree(g)
             u == GetRequestBuffer(g, b, TRUE, id)
             r == Request(g, TRUE, id)
             a == Head(g.bq)
  <1>1. b \in Buf /\ g.pool[b].status = "FREE"  BY FindFreeIsFree DEF FreeBufs
  <1>2. r = SendPacket(u, b)  BY DEF Request
  <1> HIDE DEF b
  <1>3. g.bq # << >> /\ g.pool[a].status = "WAIT_RESPONSE" /\ g.bq \in Seq(Buf) /\ a \in Buf
    BY HeadInQueue DEF HeadWaits, HLState
  <1>4. a \in Buf \ {b} /\ Len(g.bq) \in Nat  BY <1>1, <1>3, LenProperties
  <1>5. /\ u \in HLState
        /\ u.bq = g.bq /\ u.nq = g.nq /\ u.active = g.active /\ u.div = g.div
        /\ u.aborted = g.aborted
        /\ u.pool[b].status = "RESERVED_BLOCKING"
        /\ \A c \in Buf \ {b} : u.pool[c] = g.pool[c]
    <2>1. Reserved(g, b, id, u)  BY <1>1, ReservedEffect
    <2> HIDE DEF u
    <2> QED  BY <2>1 DEF Reserved
  <1> HIDE DEF u, r
  <1>6. r = PutInQueue(u, b, TRUE, "WAIT_SENDING")
    BY <1>2, <1>3, <1>5 DEF SendPacket, MustQueue
  <1>7. CASE Len(g.bq) < POOL_SIZE
    <2>1. "WAIT_SENDING" \in BufStatus  BY DEF BufStatus
    <2>2. /\ r.bq = Append(g.bq, b) /\ r.nq = u.nq /\ r.active = u.active
          /\ r.div = u.div /\ r.aborted = u.aborted
          /\ \A c \in Buf \ {b} : r.pool[c] = u.pool[c]
      <3>1. Len(u.bq) < POOL_SIZE  BY <1>5, <1>7
      <3>2. Put(u, b, "WAIT_SENDING", r)  BY <1>1, <1>5, <1>6, <2>1, <3>1, PutEffect
      <3> QED  BY <1>5, <3>2 DEF Put
    <2>3. r.bq # << >> /\ Head(r.bq) = a /\ Len(r.bq) = Len(g.bq) + 1
      BY <1>1, <1>3, <2>2
    <2>4. r.pool[a] = g.pool[a]  BY <1>4, <1>5, <2>2
    <2>5. UsesOne(g, r)  BY <1>1, <1>5, <2>2, UsedByOne
    <2> QED  BY <1>3, <1>5, <2>2, <2>3, <2>4, <2>5 DEF AskedId, HeadWaits, r, a
  <1>8. CASE ~ (Len(g.bq) < POOL_SIZE)
    <2>1. r = u  BY <1>5, <1>6, <1>8 DEF PutInQueue
    <2>2. Len(g.bq) >= POOL_SIZE  BY <1>4, <1>8, HLConstants
    <2>3. r.pool[a] = g.pool[a]  BY <1>4, <1>5, <2>1
    <2>4. UsesOne(g, r)  BY <1>1, <1>5, <2>1, UsedByOne
    <2> QED  BY <1>3, <1>5, <2>1, <2>2, <2>3, <2>4 DEF AskedId, HeadWaits, r, a
  <1> QED  BY <1>7, <1>8

\* The only request in the queue, if one is, is finished.
LEMMA FinishOnly ==
  ASSUME NEW g \in HLState, g.bq = << >> \/ (Len(g.bq) = 1 /\ HeadWaits(g))
  PROVE  LET r == MarkFinished(g)
         IN /\ r.bq = << >> /\ r.nq = g.nq /\ r.div = g.div /\ r.active = g.active
            /\ r.aborted = g.aborted
            /\ Used(r) \subseteq Used(g)
            /\ g.bq # << >> => \E b \in Used(g) : Used(r) = Used(g) \ {b}
  <1> DEFINE r == MarkFinished(g)
             b == Head(g.bq)
  <1>1. CASE g.bq = << >>  BY <1>1 DEF MarkFinished
  <1>2. CASE g.bq # << >>
    <2>1. g.bq \in Seq(Buf) /\ Len(g.bq) = 1 /\ b \in Buf /\ g.pool[b].status = "WAIT_RESPONSE"
      BY <1>2, HeadInQueue DEF HLState, HeadWaits
    <2>2. Tail(g.bq) = << >>
      <3>1. Tail(g.bq) \in Seq(Buf) /\ Len(Tail(g.bq)) = 0  BY <1>2, <2>1, HeadTailProperties
      <3> QED  BY <3>1, EmptySeq
    <2>3. r = [TxBufferFree(g, b) EXCEPT !.bq = Tail(@)]  BY <1>2 DEF MarkFinished
    <2> HIDE DEF b, r
    <2>4. /\ r.bq = << >> /\ r.nq = g.nq /\ r.div = g.div /\ r.active = g.active
          /\ r.aborted = g.aborted /\ r.pool = [g.pool EXCEPT ![b] = FreeBuffer]
      BY <2>2, <2>3 DEF TxBufferFree, HLState
    <2>5. r.pool[b].status = "FREE" /\ \A c \in Buf \ {b} : r.pool[c] = g.pool[c]
      BY <2>1, <2>4 DEF FreeBuffer, HLState
    <2>6. b \in Used(g) /\ Used(r) = Used(g) \ {b}  BY <2>1, <2>5 DEF Used, FreeBufs
    <2> QED  BY <2>4, <2>6 DEF r
  <1> QED  BY <1>1, <1>2

\* The HL may send, but nothing waits to be sent.
LEMMA ReadyIdle ==
  ASSUME NEW g \in HLState, g.nq = << >>, g.bq = << >> \/ HeadWaits(g)
  PROVE  TxReady(g) = [g EXCEPT !.active = FALSE]
  <1>1. ~ NonblockingFirst(g)  BY DEF NonblockingFirst
  <1>2. ~ (g.bq # << >> /\ g.pool[Head(g.bq)].status = "WAIT_SENDING")  BY DEF HeadWaits
  <1> QED  BY <1>1, <1>2 DEF TxReady

(* Whose turn it is, with w on its way from the host's queue back to the    *)
(* SoC's, after e errors of the port or time-outs meanwhile, and l losses.  *)

Idle(h) == h.calls = 0 /\ ~ h.resetAlarm /\ h.retry # "FIRST"
Clear(h, w) == w = << >> /\ h.hl.div = NoPkt
AskedHere(h) == Len(h.hl.bq) = 1 /\ h.hl.bq # << >> /\ AskedId(h.hl) = h.pos

TurnNobody(h, w) == Idle(h) /\ Clear(h, w)
TurnMessage(h, w, e) == /\ Idle(h) /\ h.hl.div = NoPkt
                        /\ h.pos \in Step /\ w = << h.pos >>
                        /\ AskedHere(h) \/ (h.hl.bq = << >> /\ e > 0)
TurnPacket(h, w) == /\ Idle(h) /\ w = << >> /\ h.pos \in Step
                    /\ h.hl.div # NoPkt /\ h.hl.div.id = h.pos /\ AskedHere(h)
TurnCallback(h, w) == /\ h.calls = 1 /\ ~ h.resetAlarm /\ h.retry # "FIRST"
                      /\ Clear(h, w) /\ h.hl.bq = << >>
TurnAlarm(h, w) == /\ h.calls = 0 /\ h.resetAlarm /\ h.retry # "FIRST"
                   /\ Clear(h, w) /\ h.pos = RESET
TurnFirst(h, w) == /\ h.calls = 0 /\ ~ h.resetAlarm /\ h.retry = "FIRST"
                   /\ Clear(h, w) /\ h.pos = RESET /\ h.hl.bq = << >>

Turn(h, w, e) == \/ TurnNobody(h, w) \/ TurnMessage(h, w, e) \/ TurnPacket(h, w)
                 \/ TurnCallback(h, w) \/ TurnAlarm(h, w) \/ TurnFirst(h, w)

(* What waits in the queue: the request under way, unless it is lost; those
   behind it were made when it was. *)
Queued(h, w, e, l) ==
  /\ h.hl.nq = << >> /\ ~ h.hl.aborted
  /\ h.hl.active => TurnPacket(h, w) \/ (TurnNobody(h, w) /\ h.hl.bq = << >>)
  /\ h.hl.div # NoPkt => h.hl.active
  /\ h.hl.bq # << >> => HeadWaits(h.hl)
  /\ Len(h.hl.bq) <= 1 \/ h.pos = RESET \/ (h.pos = VERSION /\ ~ h.timer)
  /\ h.failure = "NONE" /\ l = 0 /\ h.hl.bq # << >> => TurnMessage(h, w, e) \/ TurnPacket(h, w)
  /\ h.hl.bq # << >> /\ AskedId(h.hl) = RESET => h.pending
  /\ h.retry = "REINIT" => e > 0
  /\ ~ h.respProcessed
  /\ h.failure \in {"NONE", "SERIAL", "NO_BUFFER"}

\* The version is known: the timer is off from then on.
After(h) == h.pos > VERSION \/ (h.pos = VERSION /\ h.calls > 0)
TimerOff(h) == h.timer => ~ After(h)

\* The steps passed have their answers, ans.
Passed(h, ans) == \A p \in VERSION..STEPS - 1 :
                    p < h.pos \/ (p = h.pos /\ h.calls > 0) => p \in ans \cup SKIPPED

Ready(h, w, e, l, ans) == Turn(h, w, e) /\ Queued(h, w, e, l) /\ TimerOff(h) /\ Passed(h, ans)

(* A buffer in use is in the queue, but one for each error of the port and each
   time-out while it was away; and there is one fewer while the queue may be
   emptied once more. *)
MaxLeaked == MaxErrors + MaxAway
Enough == POOL_SIZE > 1 /\ MaxLeaked < POOL_SIZE
NUsed(g) == Cardinality(Used(g))
MayAsk(h) == h.calls > 0 \/ h.resetAlarm \/ h.hl.bq # << >>

Leak(h, e, l) ==
  Enough /\ (l = 0 \/ e = 0) =>
    /\ NUsed(h.hl) <= Len(h.hl.bq) + e
    /\ h.failure = "NONE" /\ h.retry = "REINIT" /\ MayAsk(h) => NUsed(h.hl) < Len(h.hl.bq) + e
    /\ h.failure # "NO_BUFFER"

\* The same for a host that is about to ask.
Spare(h, e, l) ==
  Enough /\ (l = 0 \/ e = 0) =>
    /\ NUsed(h.hl) <= Len(h.hl.bq) + e
    /\ h.retry = "REINIT" => NUsed(h.hl) < Len(h.hl.bq) + e
    /\ h.failure # "NO_BUFFER"

Sound(h, w, e, l, ans) == Ready(h, w, e, l, ans) /\ Leak(h, e, l)

LEMMA UsedCount ==
  ASSUME NEW g
  PROVE  /\ IsFiniteSet(Used(g)) /\ NUsed(g) \in Nat /\ NUsed(g) <= POOL_SIZE
         /\ FreeBufs(g) = {} => NUsed(g) = POOL_SIZE
         /\ \A r : UsesOne(g, r) => NUsed(r) <= NUsed(g) + 1
         /\ \A r : Used(r) \subseteq Used(g) => NUsed(r) <= NUsed(g)
         /\ \A r : (\E b \in Used(g) : Used(r) = Used(g) \ {b}) => NUsed(r) = NUsed(g) - 1
  <1>1. ASSUME NEW f PROVE /\ IsFiniteSet(Used(f)) /\ NUsed(f) \in Nat /\ NUsed(f) <= POOL_SIZE
    <2>1. Used(f) \subseteq Buf  BY DEF Used
    <2>2. IsFiniteSet(Used(f)) /\ Cardinality(Used(f)) <= Cardinality(Buf)
      BY <2>1, BufFinite, FS_Subset
    <2> QED  BY <2>2, BufFinite, FS_CardinalityType DEF NUsed
  <1>2. FreeBufs(g) = {} => NUsed(g) = POOL_SIZE  BY BufFinite DEF Used, NUsed
  <1>3. ASSUME NEW r, UsesOne(g, r) PROVE NUsed(r) <= NUsed(g) + 1
    <2>1. PICK b \in Buf : Used(r) \subseteq Used(g) \cup {b}  BY <1>3 DEF UsesOne
    <2> DEFINE S == Used(g)
               T == S \cup {b}
    <2>2. IsFiniteSet(S) /\ Cardinality(S) \in Nat  BY <1>1, FS_CardinalityType
    <2>3. IsFiniteSet(T) /\ (Cardinality(T) = Cardinality(S) \/ Cardinality(T) = Cardinality(S) + 1)
      <3> HIDE DEF S
      <3>1. IsFiniteSet(S \cup {b})
            /\ Cardinality(S \cup {b}) = IF b \in S THEN Cardinality(S) ELSE Cardinality(S) + 1
        BY <2>2, FS_AddElement
      <3> QED  BY <3>1
    <2>4. Cardinality(Used(r)) <= Cardinality(T)  BY <2>1, <2>3, FS_Subset
    <2>5. Cardinality(Used(r)) \in Nat /\ Cardinality(T) \in Nat
      BY <1>1, <2>3, FS_CardinalityType
    <2> QED  BY <2>2, <2>3, <2>4, <2>5 DEF NUsed
  <1>4. ASSUME NEW r, Used(r) \subseteq Used(g) PROVE NUsed(r) <= NUsed(g)
    BY <1>1, <1>4, FS_Subset DEF NUsed
  <1>5. ASSUME NEW r, NEW b \in Used(g), Used(r) = Used(g) \ {b} PROVE NUsed(r) = NUsed(g) - 1
    BY <1>1, <1>5, FS_RemoveElement DEF NUsed
  <1> QED  BY <1>1, <1>2, <1>3, <1>4, <1>5

\* The fields beside the HL context, pending and failure.
Like(u, h) == /\ u.pos = h.pos /\ u.calls = h.calls /\ u.resetAlarm = h.resetAlarm
              /\ u.timer = h.timer /\ u.retry = h.retry /\ u.respProcessed = h.respProcessed

LEMMA LikeFacts ==
  ASSUME NEW h, NEW u, Like(u, h), NEW ans
  PROVE  /\ TimerOff(h) => TimerOff(u)
         /\ Passed(h, ans) => Passed(u, ans)
         /\ Idle(u) <=> Idle(h)
  <1>1. Idle(u) <=> Idle(h)  BY DEF Like, Idle
  <1>2. TimerOff(h) => TimerOff(u)  BY DEF Like, TimerOff, After
  <1>3. Passed(h, ans) => Passed(u, ans)  BY DEF Like, Passed
  <1> QED  BY <1>1, <1>2, <1>3

\* A buffer more is in use, and in the queue.
LEMMA LeakByOne ==
  ASSUME NEW h, NEW u, NEW e \in Nat, NEW l, Spare(h, e, l), u.failure = h.failure,
         u.retry = h.retry, NUsed(h.hl) \in Nat, NUsed(u.hl) \in Nat,
         NUsed(u.hl) <= NUsed(h.hl) + 1,
         Len(h.hl.bq) \in Nat, Len(u.hl.bq) = Len(h.hl.bq) + 1
  PROVE  Leak(u, e, l)
  <1> SUFFICES ASSUME Enough, l = 0 \/ e = 0
               PROVE  /\ NUsed(u.hl) <= Len(u.hl.bq) + e
                      /\ u.retry = "REINIT" => NUsed(u.hl) < Len(u.hl.bq) + e
                      /\ u.failure # "NO_BUFFER"
    BY DEF Leak
  <1>1. PICK m, n, i, k : m = NUsed(h.hl) /\ n = NUsed(u.hl) /\ i = Len(h.hl.bq) /\ k = Len(u.hl.bq)
    OBVIOUS
  <1>2. /\ m <= i + e /\ (h.retry = "REINIT" => m < i + e) /\ h.failure # "NO_BUFFER"
    BY <1>1 DEF Spare
  <1>3. m \in Nat /\ n \in Nat /\ i \in Nat /\ n <= m + 1 /\ k = i + 1  BY <1>1
  <1>4. n <= k + e /\ (m < i + e => n < k + e)  BY <1>3, <1>2
  <1> QED  BY <1>1, <1>2, <1>4

\* Every buffer is in the queue.
LEMMA LeakFull ==
  ASSUME NEW h, NEW u, NEW e \in Nat, NEW l \in Nat, l > 0, Spare(h, e, l), u.failure = h.failure,
         u.retry = h.retry, u.retry = "REINIT" => e > 0, NUsed(u.hl) \in Nat,
         NUsed(u.hl) <= POOL_SIZE, Len(u.hl.bq) \in Nat, Len(u.hl.bq) >= POOL_SIZE
  PROVE  Leak(u, e, l)
  <1> SUFFICES ASSUME Enough, e = 0
               PROVE  /\ NUsed(u.hl) <= Len(u.hl.bq) + e
                      /\ u.retry # "REINIT"
                      /\ u.failure # "NO_BUFFER"
    BY DEF Leak
  <1>1. u.retry # "REINIT" /\ u.failure # "NO_BUFFER"  BY DEF Spare
  <1>2. PICK n, k : n = NUsed(u.hl) /\ k = Len(u.hl.bq)
    OBVIOUS
  <1>3. n <= k + e  BY <1>2, HLConstants
  <1> QED  BY <1>1, <1>2, <1>3

\* u is h after it has asked for its step.
Asked(h, u) == /\ Like(u, h) /\ u.failure = h.failure /\ u.hl = Request(h.hl, TRUE, h.pos)
               /\ u.pending = (h.pending \/ h.pos = RESET)

\* Nothing is in the queue, or what waits there is lost.
AskedAgain(h, l) == \/ h.hl.bq = << >>
                    \/ l > 0 /\ h.pos = RESET
                    \/ l > 0 /\ h.pos = VERSION /\ ~ h.timer

\* The host asks for its step, when nobody has the turn.
LEMMA AskedTurn ==
  ASSUME NEW h, HostOK(h), NEW e \in Nat, NEW l \in Nat, NEW ans,
         Ready(h, << >>, e, l, ans), Spare(h, e, l), h.failure = "NONE",
         TurnNobody(h, << >>), ~ h.hl.active, h.pos \in Step, FreeBufs(h.hl) # {},
         AskedAgain(h, l), NEW u, Asked(h, u)
  PROVE  Sound(u, << >>, e, l, ans)
  <1> DEFINE g == h.hl
             r == u.hl
  <1>1. g \in HLState /\ g.bq \in Seq(Buf) /\ Len(g.bq) \in Nat /\ h.pos \in Nat /\ g.div = NoPkt
    <2>1. g \in HLState /\ g.div = NoPkt  BY DEF HostOK, Typed, TurnNobody, Clear
    <2>2. g.bq \in Seq(Buf)  BY <2>1 DEF HLState
    <2>3. h.pos \in Nat  BY StepFacts
    <2> HIDE DEF g
    <2> QED  BY <2>1, <2>2, <2>3, LenProperties
  <1>0. Like(u, h)  BY DEF Asked
  <1>2. Queued(h, << >>, e, l) /\ Idle(u) /\ TimerOff(u) /\ Passed(u, ans)
    BY <1>0, LikeFacts DEF Ready, TurnNobody
  <1>3. NUsed(g) \in Nat /\ NUsed(r) \in Nat /\ NUsed(r) <= POOL_SIZE
        /\ (UsesOne(g, r) => NUsed(r) <= NUsed(g) + 1)
    BY UsedCount
  <1>4. RESET # VERSION  BY StepFacts
  <1>5. CASE g.bq = << >>
    <2> DEFINE p == h.pos
    <2>1. p \in Nat /\ r = Request(g, TRUE, p)  BY <1>1 DEF Asked
    <2> HIDE DEF g, r, p
    <2>2. /\ r.nq = g.nq /\ r.aborted = g.aborted /\ r.active
          /\ Len(r.bq) = 1 /\ r.bq # << >> /\ AskedId(r) = p /\ HeadWaits(r)
          /\ r.div # NoPkt /\ r.div.id = p
          /\ UsesOne(g, r)
      <3>1. g \in HLState /\ FreeBufs(g) # {} /\ g.bq = << >> /\ ~ g.active /\ g.div = NoPkt
        BY <1>1, <1>5 DEF g
      <3> QED  BY <2>1, <3>1, RequestSent, ZenonT(30)
    <2>3. TurnPacket(u, << >>)
      BY <1>0, <1>2, <2>1, <2>2 DEF TurnPacket, AskedHere, Like, r, p
    <2>4. Queued(u, << >>, e, l)
      <3>1. g.nq = << >> /\ ~ g.aborted /\ (h.retry = "REINIT" => e > 0) /\ ~ h.respProcessed
        BY <1>2 DEF Queued, g
      <3>2. u.failure = "NONE" /\ u.retry = h.retry /\ ~ u.respProcessed
        BY <3>1 DEF Asked, Like
      <3>3. p = RESET => u.pending  BY DEF p, Asked
      <3> HIDE DEF TurnPacket, TurnMessage, TurnNobody
      <3>4. /\ u.hl.nq = << >> /\ ~ u.hl.aborted /\ u.hl.active /\ HeadWaits(u.hl)
            /\ AskedId(u.hl) = RESET => u.pending
        BY <2>2, <3>1, <3>3 DEF r
      <3>5. Len(u.hl.bq) <= 1  BY <2>2 DEF r
      <3> QED  BY <2>3, <3>1, <3>2, <3>4, <3>5 DEF Queued
    <2>5. Leak(u, e, l)
      <3>1. Len(g.bq) = 0 /\ Len(r.bq) = 1  BY <1>5, <2>2
      <3>2. NUsed(h.hl) \in Nat /\ NUsed(u.hl) \in Nat /\ NUsed(u.hl) <= NUsed(h.hl) + 1
        BY <1>3, <2>2 DEF g, r
      <3>3. Len(h.hl.bq) \in Nat /\ Len(u.hl.bq) = Len(h.hl.bq) + 1
        <4>1. Len(h.hl.bq) = 0  BY <3>1 DEF g
        <4>2. Len(u.hl.bq) = 1  BY <3>1 DEF r
        <4> QED  BY <4>1, <4>2
      <3>4. u.failure = h.failure /\ u.retry = h.retry  BY DEF Asked, Like
      <3> QED  BY <3>2, <3>3, <3>4, LeakByOne
    <2> QED  BY <1>2, <2>3, <2>4, <2>5 DEF Sound, Ready, Turn
  <1>6. CASE g.bq # << >>
    <2> DEFINE p == h.pos
    <2>1. p \in Nat /\ r = Request(g, TRUE, p) /\ HeadWaits(g)
      BY <1>1, <1>2, <1>6 DEF Queued, Asked
    <2> HIDE DEF g, r, p
    <2>2. /\ r.nq = g.nq /\ r.aborted = g.aborted /\ r.active = g.active /\ r.div = g.div
          /\ r.bq # << >> /\ AskedId(r) = AskedId(g) /\ HeadWaits(r)
          /\ UsesOne(g, r)
          /\ Len(r.bq) = Len(g.bq) + 1 \/ (r.bq = g.bq /\ Len(g.bq) >= POOL_SIZE)
      <3>1. g \in HLState /\ FreeBufs(g) # {} /\ ~ g.active
        BY <1>1 DEF g
      <3> QED  BY <2>1, <3>1, RequestStays
    <2>3. TurnNobody(u, << >>)
      BY <1>1, <1>2, <2>2 DEF TurnNobody, Clear, r, g
    <2>4. Queued(u, << >>, e, l)
      <3>1. /\ g.nq = << >> /\ ~ g.aborted /\ ~ g.active /\ ~ h.respProcessed
            /\ h.retry = "REINIT" => e > 0
            /\ AskedId(g) = RESET => h.pending
            /\ l > 0 /\ (h.pos = RESET \/ (h.pos = VERSION /\ ~ h.timer))
        BY <1>2, <1>6 DEF Queued, g, AskedAgain
      <3>2. /\ u.failure = "NONE" /\ u.retry = h.retry /\ ~ u.respProcessed
            /\ u.pos = h.pos /\ u.timer = h.timer /\ u.hl = r /\ (h.pending => u.pending)
        BY <3>1 DEF Asked, Like, r
      <3>3. r.div = NoPkt /\ ~ (l = 0)  BY <1>1, <2>2, <3>1
      <3> QED  BY <2>2, <3>1, <3>2, <3>3 DEF Queued
    <2>5. Leak(u, e, l)
      <3>0. u.failure = h.failure /\ u.retry = h.retry  BY DEF Asked, Like
      <3>1. CASE Len(r.bq) = Len(g.bq) + 1
        BY <1>1, <1>3, <2>2, <3>0, <3>1, LeakByOne DEF g, r
      <3>2. CASE r.bq = g.bq /\ Len(g.bq) >= POOL_SIZE
        <4>1. l > 0 /\ (u.retry = "REINIT" => e > 0)
          BY <1>2, <1>6, <3>0 DEF Queued, g, AskedAgain
        <4> QED  BY <1>1, <1>3, <3>0, <3>2, <4>1, LeakFull DEF g, r
      <3> QED  BY <2>2, <3>1, <3>2
    <2> QED  BY <1>2, <2>3, <2>4, <2>5 DEF Sound, Ready, Turn
  <1> QED  BY <1>5, <1>6

\* Nothing is under way, and nothing waits.
Free(h, e) == /\ Idle(h) /\ h.hl.div = NoPkt /\ ~ h.hl.active /\ ~ h.hl.aborted
              /\ h.hl.bq = << >> /\ h.hl.nq = << >>
              /\ h.retry = "REINIT" => e > 0
              /\ ~ h.respProcessed /\ h.failure = "NONE"

LEMMA FreeReady ==
  ASSUME NEW h, NEW e, NEW l, Free(h, e)
  PROVE  TurnNobody(h, << >>) /\ Queued(h, << >>, e, l) /\ Len(h.hl.bq) = 0
  <1>1. TurnNobody(h, << >>)  BY DEF Free, TurnNobody, Clear
  <1>2. Len(h.hl.bq) = 0 /\ h.hl.bq = << >>  BY DEF Free
  <1> QED  BY <1>1, <1>2 DEF Free, Queued

\* A callback is scheduled when the current step has its answer.
LEMMA ScheduledReady ==
  ASSUME NEW h, HostOK(h), NEW e \in Nat, NEW l \in Nat, NEW ans,
         Free(h, e), Spare(h, e, l), h.timer => h.pos = RESET,
         \A p \in VERSION..STEPS - 1 : p <= h.pos => p \in ans \cup SKIPPED
  PROVE  Sound(ScheduleNext(h), << >>, e, l, ans)
  <1> DEFINE u == ScheduleNext(h)
  <1>1. /\ u.hl = h.hl /\ u.pos = h.pos /\ u.calls = h.calls + 1 /\ u.resetAlarm = h.resetAlarm
        /\ u.retry = h.retry /\ u.failure = h.failure /\ u.pending = h.pending
        /\ u.timer = h.timer /\ u.respProcessed = h.respProcessed
    BY DEF ScheduleNext, HostOK, Host
  <1> HIDE DEF u
  <1>2. TurnCallback(u, << >>)  BY <1>1 DEF Free, Idle, TurnCallback, Clear
  <1>3. Queued(u, << >>, e, l)
    <2>1. Len(h.hl.bq) = 0 /\ h.hl.bq = << >>  BY DEF Free
    <2> QED  BY <1>1, <2>1 DEF Free, Queued
  <1>4. TimerOff(u)
    <2>1. ~ (RESET > VERSION) /\ RESET # VERSION  BY StepFacts DEF RESET, VERSION
    <2> QED  BY <1>1, <2>1 DEF TimerOff, After
  <1>5. Passed(u, ans)
    <2> SUFFICES ASSUME NEW p \in VERSION..STEPS - 1, p < u.pos \/ p = u.pos
                 PROVE  p \in ans \cup SKIPPED
      BY DEF Passed
    <2>1. p <= h.pos  BY <1>1, StepFacts DEF HostOK, Host, VERSION
    <2> QED  BY <2>1
  <1>6. Leak(u, e, l)  BY <1>1 DEF Spare, Leak
  <1> QED  BY <1>2, <1>3, <1>4, <1>5, <1>6 DEF Sound, Ready, Turn, u

\* The request of a later step is made, or there is no buffer for it.
LEMMA AskReady ==
  ASSUME NEW h, HostOK(h), NEW e \in 0..MaxLeaked, NEW l \in Nat, NEW ans,
         Ready(h, << >>, e, l, ans), Spare(h, e, l), h.failure = "NONE",
         TurnNobody(h, << >>), ~ h.hl.active, h.pos \in Step, h.pos # RESET,
         AskedAgain(h, l), Len(h.hl.bq) <= 1
  PROVE  Sound(Ask(h, h.pos), << >>, e, l, ans)
  <1> DEFINE u == Ask(h, h.pos)
  <1>0. e \in Nat /\ e <= MaxLeaked /\ MaxLeaked \in Nat  BY StartupConstants DEF MaxLeaked
  <1>1. CASE FreeBufs(h.hl) = {}
    <2>1. u = [h EXCEPT !.failure = "NO_BUFFER"]  BY <1>1 DEF Ask, Fail
    <2>2. Like(u, h) /\ u.hl = h.hl /\ u.pending = h.pending /\ u.failure = "NO_BUFFER"
      BY <2>1 DEF Like, HostOK, Host
    <2> HIDE DEF u
    <2>3. TimerOff(u) /\ Passed(u, ans) /\ Idle(u)
      BY <2>2, LikeFacts DEF Ready, TurnNobody
    <2>4. TurnNobody(u, << >>)  BY <2>2, <2>3 DEF TurnNobody, Clear
    <2>5. Queued(u, << >>, e, l)
      <3>1. Queued(h, << >>, e, l)  BY DEF Ready
      <3> QED  BY <2>2, <3>1 DEF Queued, Like
    <2>6. ~ (Enough /\ (l = 0 \/ e = 0))
      <3> SUFFICES ASSUME Enough, l = 0 \/ e = 0 PROVE FALSE
        OBVIOUS
      <3>1. NUsed(h.hl) <= Len(h.hl.bq) + e /\ NUsed(h.hl) = POOL_SIZE
        BY <1>1, UsedCount DEF Spare
      <3>2. l = 0 => Len(h.hl.bq) = 0
        <4>1. l = 0 => h.hl.bq = << >>  BY DEF AskedAgain
        <4> QED  BY <4>1
      <3>3. h.hl.bq \in Seq(Buf)  BY DEF HostOK, Typed, HLState
      <3>4. PICK n : n = Len(h.hl.bq)  OBVIOUS
      <3>5. n \in Nat /\ n <= 1 /\ (l = 0 => n = 0) /\ POOL_SIZE <= n + e
        BY <3>1, <3>2, <3>3, <3>4, LenProperties
      <3> QED  BY <1>0, <3>5, HLConstants DEF Enough
    <2>7. Leak(u, e, l)  BY <2>6 DEF Leak
    <2> QED  BY <2>3, <2>4, <2>5, <2>7 DEF Sound, Ready, Turn, u
  <1>2. CASE FreeBufs(h.hl) # {}
    <2> DEFINE r == Request(h.hl, TRUE, h.pos)
    <2>1. u = [h EXCEPT !.hl = r]  BY <1>2 DEF Ask
    <2> HIDE DEF r
    <2>2. Like(u, h) /\ u.hl = r /\ u.pending = h.pending /\ u.failure = h.failure
      BY <2>1 DEF Like, HostOK, Host
    <2> HIDE DEF u
    <2>3. u.pending = (h.pending \/ h.pos = RESET)
      BY <2>2 DEF HostOK, Host
    <2>4. Asked(h, u)  BY <2>2, <2>3, Zenon DEF Asked, r
    <2>5. Sound(u, << >>, e, l, ans)  BY <1>0, <1>2, <2>4, AskedTurn
    <2> QED  BY <2>5 DEF u
  <1> QED  BY <1>1, <1>2

\* startup_dispatch, at a step after the reset, when nothing is under way.
LEMMA DispatchReady ==
  ASSUME NEW h, HostOK(h), NEW e \in 0..MaxLeaked, NEW l \in Nat, NEW ans,
         Free(h, e), Spare(h, e, l), TimerOff(h), Passed(h, ans), h.pos # RESET,
         h.pos \in SKIPPED => ~ h.timer
  PROVE  Sound(Dispatch(h), << >>, e, l, ans)
  <1>1. /\ RESET # DONE /\ RESET \notin SKIPPED /\ DONE \notin SKIPPED
        /\ h.pos \in 0..STEPS /\ e \in Nat
    BY StepFacts, StartupConstants DEF RESET, DONE, VERSION, HostOK, Host
  <1>2. TurnNobody(h, << >>) /\ Queued(h, << >>, e, l) /\ Len(h.hl.bq) = 0  BY FreeReady
  <1>3. CASE h.pos = DONE
    <2>1. Dispatch(h) = h  BY <1>1, <1>3 DEF Dispatch
    <2>2. Leak(h, e, l)  BY DEF Spare, Leak
    <2> QED  BY <1>2, <2>1, <2>2 DEF Sound, Ready, Turn
  <1>4. CASE h.pos \in SKIPPED
    <2>1. Dispatch(h) = ScheduleNext(h)  BY <1>1, <1>4 DEF Dispatch
    <2>2. \A p \in VERSION..STEPS - 1 : p <= h.pos => p \in ans \cup SKIPPED
      BY <1>1, <1>4, StepFacts DEF Passed, VERSION
    <2>3. Sound(ScheduleNext(h), << >>, e, l, ans)  BY <1>1, <1>4, <2>2, ScheduledReady
    <2> QED  BY <2>1, <2>3
  <1>5. CASE h.pos # DONE /\ h.pos \notin SKIPPED
    <2>1. Dispatch(h) = Ask(h, h.pos)  BY <1>5 DEF Dispatch
    <2>2. h.pos \in Step  BY <1>1, <1>5, StepFacts DEF Step, DONE
    <2>3. Ready(h, << >>, e, l, ans)  BY <1>2 DEF Ready, Turn
    <2>4. AskedAgain(h, l) /\ ~ h.hl.active /\ h.failure = "NONE" /\ Len(h.hl.bq) <= 1
      BY <1>2 DEF AskedAgain, Free
    <2>5. Sound(Ask(h, h.pos), << >>, e, l, ans)  BY <1>2, <2>2, <2>3, <2>4, AskReady
    <2> QED  BY <2>1, <2>5
  <1> QED  BY <1>3, <1>4, <1>5

\* startup_next_step
LEMMA CallbackReady ==
  ASSUME NEW h, HostOK(h), NEW w, NEW e \in 0..MaxLeaked, NEW l \in Nat, NEW ans,
         Sound(h, w, e, l, ans), h.failure = "NONE", h.calls > 0
  PROVE  w = << >> /\ Sound(NextStep([h EXCEPT !.calls = @ - 1]), w, e, l, ans)
  <1> DEFINE n == h.calls - 1
             p == h.pos + 1
             x == [h EXCEPT !.calls = n]
             v == [x EXCEPT !.pos = p]
  <1>1. h \in Host /\ h.calls \in Nat /\ h.pos \in 0..STEPS  BY DEF HostOK, Host
  <1>2. TurnCallback(h, w)
    BY <1>1 DEF Sound, Ready, Turn, TurnNobody, TurnMessage, TurnPacket, TurnAlarm, TurnFirst, Idle
  <1>3. w = << >> /\ n = 0  BY <1>2 DEF TurnCallback, Clear
  <1>4. HostOK(x)
    <2>1. n \in Nat /\ TRUE \in BOOLEAN  BY <1>3
    <2> HIDE DEF n
    <2> QED  BY <2>1, FlagsOK, Zenon
  <1>5. /\ x.hl = h.hl /\ x.pos = h.pos /\ x.calls = 0 /\ x.resetAlarm = h.resetAlarm
        /\ x.retry = h.retry /\ x.failure = h.failure /\ x.timer = h.timer
        /\ x.respProcessed = h.respProcessed
    BY <1>1, <1>3 DEF Host
  <1>6. x = [h EXCEPT !.calls = @ - 1]  BY <1>1 DEF n, Host
  <1> HIDE DEF x, n
  <1>7. Queued(h, w, e, l) /\ TimerOff(h) /\ Passed(h, ans) /\ Leak(h, e, l)
    BY DEF Sound, Ready
  <1>8. Free(x, e) /\ Spare(x, e, l)
    <2>1. ~ TurnPacket(h, w) /\ ~ TurnNobody(h, w)  BY <1>2 DEF TurnCallback, TurnPacket, TurnNobody, Idle
    <2>2. Free(x, e)  BY <1>2, <1>5, <1>7, <2>1 DEF TurnCallback, Clear, Queued, Free, Idle
    <2>3. Spare(x, e, l)
      <3>1. MayAsk(h)  BY DEF MayAsk
      <3> QED  BY <1>5, <1>7, <3>1 DEF Leak, Spare
    <2> QED  BY <2>2, <2>3
  <1>9. CASE h.pos = DONE
    <2>1. NextStep(x) = x  BY <1>5, <1>9 DEF NextStep
    <2>2. TurnNobody(x, << >>) /\ Queued(x, << >>, e, l)  BY <1>8, FreeReady
    <2>3. TimerOff(x) /\ Passed(x, ans)
      BY <1>5, <1>7 DEF TimerOff, After, Passed
    <2>4. Leak(x, e, l)  BY <1>8 DEF Spare, Leak
    <2> QED  BY <1>3, <1>6, <2>1, <2>2, <2>3, <2>4 DEF Sound, Ready, Turn
  <1>10. CASE h.pos # DONE
    <2>1. p \in 0..STEPS /\ p # RESET /\ p \in Nat
      BY <1>1, <1>10, StepFacts DEF DONE, RESET
    <2>2. HostOK(v)
      <3>1. 0 \in Nat /\ TRUE \in BOOLEAN /\ "NONE" \in {"NONE", "FIRST", "REINIT"}
            /\ "NONE" \in Failures /\ Typed(x.hl)
        BY <1>4 DEF Failures, HostOK
      <3> HIDE DEF p
      <3> QED  BY <1>4, <2>1, <3>1, FieldsOK, Zenon
    <2>3. /\ v.hl = x.hl /\ v.pos = p /\ v.calls = 0 /\ v.resetAlarm = x.resetAlarm
          /\ v.retry = x.retry /\ v.failure = x.failure /\ v.timer = x.timer
          /\ v.respProcessed = x.respProcessed
      BY <1>4, <1>5 DEF HostOK, Host
    <2>4. NextStep(x) = Dispatch(v)  BY <1>5, <1>10 DEF NextStep
    <2> HIDE DEF v
    <2>5. Free(v, e) /\ Spare(v, e, l)  BY <1>8, <2>3 DEF Free, Idle, Spare
    <2>6. TimerOff(v) /\ Passed(v, ans) /\ (v.pos \in SKIPPED => ~ v.timer)
      <3>1. v.timer => ~ (h.pos >= VERSION)
        BY <1>1, <1>5, <1>7, <2>3, StepFacts DEF TimerOff, After, VERSION
      <3>2. TimerOff(v)  BY <1>1, <2>3, <3>1 DEF TimerOff, After, VERSION, p
      <3>3. Passed(v, ans)
        <4> SUFFICES ASSUME NEW q \in VERSION..STEPS - 1, q < v.pos
                     PROVE  q \in ans \cup SKIPPED
          BY <2>3 DEF Passed
        <4>1. q \in Nat  BY StepFacts DEF VERSION
        <4>2. q < h.pos \/ (q = h.pos /\ h.calls > 0)  BY <1>1, <2>3, <4>1 DEF p
        <4> QED  BY <1>7, <4>2 DEF Passed
      <3>4. v.pos \in SKIPPED => ~ v.timer
        BY <1>1, <2>3, <3>1, StepFacts, StartupConstants DEF VERSION, p
      <3> QED  BY <3>2, <3>3, <3>4
    <2>7. v.pos # RESET  BY <2>1, <2>3
    <2>8. Sound(Dispatch(v), << >>, e, l, ans)  BY <2>2, <2>5, <2>6, <2>7, DispatchReady
    <2> QED  BY <1>3, <1>6, <2>4, <2>8
  <1> QED  BY <1>9, <1>10

\* soc_reset
LEMMA ResetAlarmReady ==
  ASSUME NEW h, HostOK(h), NEW w, NEW e \in 0..MaxLeaked, NEW l \in Nat, NEW ans,
         Sound(h, w, e, l, ans), h.failure = "NONE", h.resetAlarm
  PROVE  w = << >> /\ Sound(SocReset([h EXCEPT !.resetAlarm = FALSE]), w, e, l, ans)
  <1> DEFINE x == [h EXCEPT !.resetAlarm = FALSE]
             v == [x EXCEPT !.timer = TRUE]
  <1>1. h \in Host /\ RESET \in Step /\ e \in Nat  BY StepFacts DEF HostOK
  <1>2. TurnAlarm(h, w) /\ w = << >>
    BY <1>1 DEF Sound, Ready, Turn, TurnNobody, TurnMessage, TurnPacket, TurnCallback, TurnAlarm,
       TurnFirst, Idle, Clear
  <1>3. HostOK(v)
    <2>1. TRUE \in BOOLEAN /\ FALSE \in BOOLEAN  OBVIOUS
    <2>2. HostOK(x)  BY <2>1, FlagsOK, Zenon
    <2> HIDE DEF x
    <2> QED  BY <2>1, <2>2, FlagsOK, Zenon
  <1>4. /\ v.hl = h.hl /\ v.pos = h.pos /\ v.calls = h.calls /\ v.resetAlarm = FALSE
        /\ v.retry = h.retry /\ v.failure = h.failure /\ v.timer = TRUE
        /\ v.respProcessed = h.respProcessed /\ v.pending = h.pending
        /\ x.respProcessed = h.respProcessed
    BY <1>1 DEF Host
  <1>5. Queued(h, w, e, l) /\ TimerOff(h) /\ Passed(h, ans) /\ Leak(h, e, l)
    BY DEF Sound, Ready
  <1>6. SocReset(x) = AskReset(v)
    <2>1. ~ x.respProcessed  BY <1>4, <1>5 DEF Queued
    <2> QED  BY <2>1 DEF SocReset
  <1> HIDE DEF x, v
  <1>7. TurnNobody(v, << >>)  BY <1>2, <1>4 DEF TurnAlarm, TurnNobody, Idle, Clear
  <1>8. ~ TurnPacket(h, w) /\ ~ TurnNobody(h, w) /\ ~ TurnMessage(h, w, e)
    BY <1>2 DEF TurnAlarm, TurnPacket, TurnNobody, TurnMessage, Idle
  <1>9. ~ h.hl.active /\ (h.hl.bq # << >> => ~ (l = 0))
    BY <1>5, <1>8 DEF Queued
  <1>10. Queued(v, << >>, e, l)
    <2>1. v.pos = RESET /\ ~ v.hl.active /\ v.hl.div = NoPkt
      BY <1>2, <1>4, <1>9 DEF TurnAlarm, Clear
    <2> QED  BY <1>4, <1>5, <1>9, <2>1 DEF Queued
  <1>11. TimerOff(v) /\ Passed(v, ans)
    <2>1. v.pos = 0 /\ ~ (0 > VERSION) /\ 0 # VERSION
      BY <1>2, <1>4 DEF TurnAlarm, RESET, VERSION
    <2>2. \A p \in VERSION..STEPS - 1 : ~ (p < 0) /\ p # 0
      BY StepFacts DEF VERSION
    <2> QED  BY <2>1, <2>2 DEF TimerOff, After, Passed
  <1>12. Spare(v, e, l)
    <2>1. MayAsk(h)  BY DEF MayAsk
    <2> QED  BY <1>4, <1>5, <2>1 DEF Leak, Spare
  <1>13. Ready(v, << >>, e, l, ans)  BY <1>7, <1>10, <1>11 DEF Ready, Turn
  <1>14. CASE FreeBufs(v.hl) = {}
    <2>1. AskReset(v) = v  BY <1>14 DEF AskReset
    <2>2. Leak(v, e, l)  BY <1>12 DEF Spare, Leak
    <2> QED  BY <1>2, <1>6, <1>13, <2>1, <2>2 DEF Sound, x
  <1>15. CASE FreeBufs(v.hl) # {}
    <2> DEFINE r == Request(v.hl, TRUE, v.pos)
               y == Ask(v, RESET)
               u == AskReset(v)
    <2>1. v.pos = RESET  BY <1>2, <1>4 DEF TurnAlarm
    <2>2. y = [v EXCEPT !.hl = r]  BY <1>15, <2>1 DEF Ask
    <2>3. u = [y EXCEPT !.pending = TRUE]  BY <1>15 DEF AskReset
    <2> HIDE DEF r, y
    <2>4. Like(u, v) /\ u.hl = r /\ u.pending = TRUE /\ u.failure = v.failure
      BY <1>3, <2>2, <2>3 DEF Like, HostOK, Host
    <2> HIDE DEF u
    <2>5. Asked(v, u)  BY <2>1, <2>4, Zenon DEF Asked, r
    <2>6. /\ v.failure = "NONE" /\ ~ v.hl.active /\ v.pos \in Step /\ AskedAgain(v, l)
      BY <1>1, <1>4, <1>9, <2>1 DEF AskedAgain
    <2>7. Sound(u, << >>, e, l, ans)
      BY <1>1, <1>3, <1>7, <1>12, <1>13, <1>15, <2>5, <2>6, AskedTurn
    <2> QED  BY <1>2, <1>6, <2>7 DEF u, x
  <1> QED  BY <1>14, <1>15

\* startup_timer_alarm, when nothing else is left to drive the start-up
LEMMA TimerReady ==
  ASSUME NEW h, HostOK(h), NEW e \in 0..MaxLeaked, NEW l \in Nat, NEW ans,
         Sound(h, << >>, e, l, ans), h.failure = "NONE", h.timer,
         ~ h.hl.active, h.calls = 0, ~ h.resetAlarm,
         NEW f \in 0..MaxLeaked,
         (h.retry = "REINIT" /\ f = e + 1) \/ (h.retry = "NONE" /\ f = e)
  PROVE  Sound(TimerAlarm([h EXCEPT !.timer = FALSE]), << >>, f, l, ans)
  <1> DEFINE x == [h EXCEPT !.timer = FALSE]
             v == [x EXCEPT !.respProcessed = FALSE]
  <1>1. h \in Host /\ h.pos \in 0..STEPS /\ e \in Nat /\ f \in Nat
    BY DEF HostOK, Host
  <1>2. HostOK(v)
    <2>1. TRUE \in BOOLEAN /\ FALSE \in BOOLEAN  OBVIOUS
    <2>2. HostOK(x)  BY <2>1, FlagsOK, Zenon
    <2> HIDE DEF x
    <2> QED  BY <2>1, <2>2, FlagsOK, Zenon
  <1>3. /\ v.hl = h.hl /\ v.pos = h.pos /\ v.calls = h.calls /\ v.resetAlarm = h.resetAlarm
        /\ v.retry = h.retry /\ v.failure = h.failure /\ v.timer = FALSE
        /\ v.respProcessed = FALSE /\ v.pending = h.pending /\ x.pos = h.pos
    BY <1>1 DEF Host
  <1>0. h.retry # "FIRST" /\ f >= e  BY <1>1
  <1>4. Queued(h, << >>, e, l) /\ TimerOff(h) /\ Passed(h, ans) /\ Leak(h, e, l)
    BY DEF Sound, Ready
  <1>5. TurnNobody(h, << >>)
    <2>1. h.hl.div = NoPkt  BY <1>4 DEF Queued
    <2> QED  BY <1>0, <2>1 DEF TurnNobody, Idle, Clear
  <1>6. ~ TurnPacket(h, << >>) /\ ~ TurnMessage(h, << >>, e)
    <2>1. ~ TurnPacket(h, << >>)  BY <1>5 DEF TurnNobody, Clear, TurnPacket
    <2>2. << h.pos >> # << >>  OBVIOUS
    <2> QED  BY <2>1, <2>2 DEF TurnMessage
  <1>7. h.hl.bq # << >> => ~ (l = 0)  BY <1>4, <1>6 DEF Queued
  <1>8. ~ (h.pos > VERSION) /\ h.pos \in {RESET, VERSION}
    <2>1. ~ (h.pos > VERSION)  BY <1>4 DEF TimerOff, After
    <2> QED  BY <1>1, <2>1 DEF RESET, VERSION
  <1>9. TimerAlarm(x) = Dispatch(v)  BY <1>3, <1>8 DEF TimerAlarm
  <1> HIDE DEF x, v
  <1>10. TurnNobody(v, << >>)  BY <1>3, <1>5 DEF TurnNobody, Idle, Clear
  <1>11. Queued(v, << >>, f, l)
    <2>1. ~ v.hl.active /\ v.hl.div = NoPkt /\ (h.pos = RESET \/ h.pos = VERSION)
      BY <1>3, <1>5, <1>8 DEF TurnNobody, Clear
    <2>2. v.retry = "REINIT" => f > 0  BY <1>1, <1>3
    <2> QED  BY <1>3, <1>4, <1>7, <2>1, <2>2 DEF Queued
  <1>12. TimerOff(v) /\ Passed(v, ans)  BY <1>3, <1>4 DEF TimerOff, Passed
  <1>13. Ready(v, << >>, f, l, ans)  BY <1>10, <1>11, <1>12 DEF Ready, Turn
  <1>14. Spare(v, f, l)
    <2> SUFFICES ASSUME Enough, l = 0 \/ f = 0
                 PROVE  /\ NUsed(h.hl) <= Len(h.hl.bq) + f
                        /\ h.retry = "REINIT" => NUsed(h.hl) < Len(h.hl.bq) + f
                        /\ v.failure # "NO_BUFFER"
      BY <1>3 DEF Spare
    <2>1. l = 0 \/ e = 0  BY <1>1
    <2>2. NUsed(h.hl) <= Len(h.hl.bq) + e  BY <1>4, <2>1 DEF Leak
    <2>3. h.hl.bq \in Seq(Buf)  BY DEF HostOK, Typed, HLState
    <2>4. PICK n, m : n = NUsed(h.hl) /\ m = Len(h.hl.bq)  OBVIOUS
    <2>5. n \in Nat /\ m \in Nat /\ n <= m + e  BY <2>2, <2>3, <2>4, UsedCount, LenProperties
    <2>6. n <= m + f /\ (h.retry = "REINIT" => n < m + f)  BY <1>1, <2>5
    <2> QED  BY <1>3, <2>4, <2>6
  <1>15. CASE h.pos = RESET
    <2> DEFINE u == [v EXCEPT !.resetAlarm = TRUE]
    <2>1. Dispatch(v) = u
      <3>1. RESET # DONE /\ RESET \notin SKIPPED
        BY StepFacts, StartupConstants DEF RESET, DONE, VERSION
      <3> QED  BY <1>3, <1>15, <3>1 DEF Dispatch
    <2>2. /\ u.hl = v.hl /\ u.pos = v.pos /\ u.calls = v.calls /\ u.resetAlarm = TRUE
          /\ u.retry = v.retry /\ u.failure = v.failure /\ u.timer = v.timer
          /\ u.respProcessed = v.respProcessed /\ u.pending = v.pending
      BY <1>2 DEF HostOK, Host
    <2> HIDE DEF u
    <2>3. TurnAlarm(u, << >>)
      BY <1>3, <1>10, <1>15, <2>2 DEF TurnNobody, TurnAlarm, Idle, Clear
    <2>4. Queued(u, << >>, f, l)
      <3>1. ~ u.hl.active /\ u.hl.div = NoPkt /\ u.pos = RESET /\ (u.hl.bq # << >> => ~ (l = 0))
        BY <1>3, <1>7, <1>10, <1>15, <2>2 DEF TurnNobody, Clear
      <3> QED  BY <1>11, <2>2, <3>1 DEF Queued
    <2>5. TimerOff(u) /\ Passed(u, ans)  BY <1>3, <1>12, <2>2 DEF TimerOff, Passed
    <2>6. Leak(u, f, l)  BY <1>14, <2>2 DEF Spare, Leak
    <2> QED  BY <1>9, <2>1, <2>3, <2>4, <2>5, <2>6 DEF Sound, Ready, Turn, x
  <1>16. CASE h.pos = VERSION
    <2>1. VERSION # DONE /\ VERSION \notin SKIPPED /\ VERSION # RESET /\ VERSION \in Step
      BY StepFacts, StartupConstants DEF VERSION
    <2>2. Dispatch(v) = Ask(v, v.pos)  BY <1>3, <1>16, <2>1 DEF Dispatch
    <2>3. AskedAgain(v, l) /\ Len(v.hl.bq) <= 1
      <3>1. Len(h.hl.bq) <= 1  BY <1>4, <1>16, <2>1 DEF Queued
      <3> QED  BY <1>3, <1>7, <1>16, <3>1 DEF AskedAgain
    <2>4. v.failure = "NONE" /\ ~ v.hl.active /\ v.pos \in Step /\ v.pos # RESET
      BY <1>3, <1>16, <2>1
    <2>5. Sound(Ask(v, v.pos), << >>, f, l, ans)
      BY <1>2, <1>10, <1>13, <1>14, <2>3, <2>4, AskReady
    <2> QED  BY <1>9, <2>2, <2>5 DEF x
  <1> QED  BY <1>8, <1>15, <1>16

\* u is h with its queues emptied; pending requests leave nothing behind.
Emptied(u, h, r, why) ==
  /\ u.hl = ProtoInit(h.hl) /\ u.retry = r /\ u.failure = why
  /\ u.pos = h.pos /\ u.calls = h.calls /\ u.resetAlarm = h.resetAlarm
  /\ u.timer = h.timer /\ u.pending = h.pending /\ u.respProcessed = h.respProcessed

\* init_transport, but for the first time: what was on its way to the SoC may be
\* gone, v is left of w, and f is the number of errors then.
LEMMA EmptiedReady ==
  ASSUME NEW h, HostOK(h), NEW w, NEW v, v \in {w, << >>}, NEW e \in Nat, NEW l \in Nat, NEW ans,
         Sound(h, w, e, l, ans), h.failure = "NONE", h.retry # "FIRST",
         NEW f \in Nat, \/ h.retry = "REINIT" /\ f = e
                        \/ h.retry = "NONE" /\ f = e + 1,
         NEW r \in {"NONE", "REINIT"}, NEW why \in {"NONE", "SERIAL"},
         NEW u, Emptied(u, h, r, why)
  PROVE  Sound(u, v, f, l, ans)
  <1> DEFINE g == h.hl
             k == u.hl
  <1>1. Queued(h, w, e, l) /\ TimerOff(h) /\ Passed(h, ans) /\ Leak(h, e, l) /\ Turn(h, w, e)
    BY DEF Sound, Ready
  <1>2. f > 0 /\ (f = 0 => e = 0)
    BY <1>1 DEF Queued
  <1>3. g \in HLState  BY DEF HostOK, Typed
  <1>4. /\ k.bq = << >> /\ k.nq = << >> /\ k.div = NoPkt /\ k.active = g.active
        /\ k.aborted = g.aborted /\ k.pool = g.pool
    BY <1>3 DEF Emptied, ProtoInit, HLState
  <1>5. /\ u.retry = r /\ u.failure = why /\ u.pos = h.pos /\ u.calls = h.calls
        /\ u.resetAlarm = h.resetAlarm /\ u.timer = h.timer /\ u.pending = h.pending
        /\ u.respProcessed = h.respProcessed /\ u.retry # "FIRST"
    BY DEF Emptied
  <1> HIDE DEF g, k
  <1>6. ~ TurnFirst(h, w)  BY DEF TurnFirst
  <1>9. Turn(u, v, f)
    <2>1. CASE TurnNobody(h, w) \/ TurnPacket(h, w)
      <3>1. TurnNobody(u, v)
        BY <1>4, <1>5, <2>1 DEF TurnNobody, TurnPacket, Idle, Clear, k
      <3> QED  BY <3>1 DEF Turn
    <2>2. CASE TurnMessage(h, w, e)
      <3>1. Idle(u)  BY <1>5, <2>2 DEF TurnMessage, Idle
      <3>2. CASE v = w
        <4>1. TurnMessage(u, v, f)  BY <1>2, <1>4, <1>5, <2>2, <3>1, <3>2 DEF TurnMessage, k
        <4> QED  BY <4>1 DEF Turn
      <3>3. CASE v = << >>
        <4>1. TurnNobody(u, v)  BY <1>4, <3>1, <3>3 DEF TurnNobody, Clear, k
        <4> QED  BY <4>1 DEF Turn
      <3> QED  BY <3>2, <3>3
    <2>3. CASE TurnCallback(h, w)
      <3>1. TurnCallback(u, v)  BY <1>4, <1>5, <2>3 DEF TurnCallback, Clear, k
      <3> QED  BY <3>1 DEF Turn
    <2>4. CASE TurnAlarm(h, w)
      <3>1. TurnAlarm(u, v)  BY <1>4, <1>5, <2>4 DEF TurnAlarm, Clear, k
      <3> QED  BY <3>1 DEF Turn
    <2> QED  BY <1>1, <1>6, <2>1, <2>2, <2>3, <2>4 DEF Turn
  <1>10. Queued(u, v, f, l)
    <2>1. g.active => TurnPacket(h, w) \/ TurnNobody(h, w)  BY <1>1 DEF Queued, g
    <2>2. k.active => TurnNobody(u, v)
      BY <1>4, <1>5, <2>1 DEF TurnNobody, TurnPacket, Idle, Clear, k
    <2>3. Len(k.bq) = 0 /\ ~ k.aborted /\ ~ u.respProcessed
      BY <1>1, <1>4, <1>5 DEF Queued, g
    <2> QED  BY <1>2, <1>4, <1>5, <2>2, <2>3 DEF Queued, k
  <1>11. TimerOff(u) /\ Passed(u, ans)  BY <1>1, <1>5 DEF TimerOff, After, Passed
  <1>12. Leak(u, f, l)
    <2> SUFFICES ASSUME Enough, l = 0
                 PROVE  /\ NUsed(k) <= Len(k.bq) + f
                        /\ MayAsk(u) /\ u.retry = "REINIT" => NUsed(k) < Len(k.bq) + f
      BY <1>2, <1>5 DEF Leak, k
    <2>1. /\ NUsed(g) <= Len(g.bq) + e
          /\ h.retry = "REINIT" /\ MayAsk(h) => NUsed(g) < Len(g.bq) + e
      BY <1>1 DEF Leak, g
    <2>2. g.bq # << >> => TurnMessage(h, w, e) \/ TurnPacket(h, w)
      BY <1>1 DEF Queued, g
    <2>3. g.bq # << >> => Len(g.bq) = 1 /\ h.calls = 0 /\ ~ h.resetAlarm
      BY <2>2 DEF TurnMessage, TurnPacket, AskedHere, Idle, g
    <2>4. g.bq = << >> => Len(g.bq) = 0  OBVIOUS
    <2>5. Len(k.bq) = 0 /\ NUsed(k) = NUsed(g)
      BY <1>4 DEF NUsed, Used, FreeBufs
    <2>6. MayAsk(u) => MayAsk(h) /\ g.bq = << >>
      BY <1>4, <1>5, <2>3 DEF MayAsk, g, k
    <2>7. g.bq # << >> => MayAsk(h)  BY DEF MayAsk, g
    <2>8. PICK n, m : n = NUsed(g) /\ m = Len(g.bq)  OBVIOUS
    <2>9. n \in Nat  BY <2>8, UsedCount
    <2>10. /\ m = 0 \/ (m = 1 /\ (h.retry = "REINIT" => n < m + e))
           /\ n <= m + e
           /\ MayAsk(u) => m = 0 /\ (h.retry = "REINIT" => n < m + e)
      BY <2>1, <2>3, <2>4, <2>6, <2>7, <2>8
    <2>11. n <= 0 + f /\ (MayAsk(u) => n < 0 + f)
      <3>1. CASE h.retry = "REINIT" /\ f = e  BY <2>9, <2>10, <3>1
      <3>2. CASE h.retry = "NONE" /\ f = e + 1  BY <2>9, <2>10, <3>2
      <3> QED  BY <3>1, <3>2
    <2> QED  BY <2>5, <2>8, <2>11
  <1> QED  BY <1>9, <1>10, <1>11, <1>12 DEF Sound, Ready

\* The first init_transport.
LEMMA FirstReady ==
  ASSUME NEW h, HostOK(h), NEW w, NEW e \in 0..MaxLeaked, NEW l \in Nat, NEW ans,
         Sound(h, w, e, l, ans), h.failure = "NONE", h.retry = "FIRST", NEW ok \in BOOLEAN
  PROVE  Sound(InitTransport(h, "FIRST", ok), w, e, l, ans)
  <1> DEFINE g == ProtoInit(h.hl)
             x == [h EXCEPT !.hl = g, !.retry = "NONE"]
             u == IF ok THEN [x EXCEPT !.resetAlarm = TRUE] ELSE [x EXCEPT !.retry = "FIRST"]
  <1>1. h \in Host /\ h.hl \in HLState  BY DEF HostOK, Typed
  <1>2. Queued(h, w, e, l) /\ TimerOff(h) /\ Passed(h, ans) /\ Leak(h, e, l) /\ Turn(h, w, e)
    BY DEF Sound, Ready
  <1>3. TurnFirst(h, w)
    BY <1>2 DEF Turn, TurnNobody, TurnMessage, TurnPacket, TurnCallback, TurnAlarm, Idle
  <1>4. g = h.hl
    BY <1>1, <1>2, <1>3 DEF ProtoInit, HLState, TurnFirst, Clear, Queued
  <1> HIDE DEF g
  <1>5. InitTransport(h, "FIRST", ok) = u
    <2>1. x.pos = RESET /\ RESET # DONE /\ RESET \notin SKIPPED
      BY <1>1, <1>3, StepFacts, StartupConstants DEF TurnFirst, Host, RESET, DONE, VERSION
    <2>2. Dispatch(x) = [x EXCEPT !.resetAlarm = TRUE]  BY <2>1 DEF Dispatch
    <2>3. h.pos = RESET  BY <1>3 DEF TurnFirst
    <2> QED  BY <2>2, <2>3 DEF InitTransport, g
  <1>6. /\ u.hl = h.hl /\ u.pos = h.pos /\ u.calls = h.calls /\ u.resetAlarm = (h.resetAlarm \/ ok)
        /\ u.retry = (IF ok THEN "NONE" ELSE "FIRST") /\ u.failure = h.failure /\ u.timer = h.timer
        /\ u.respProcessed = h.respProcessed /\ u.pending = h.pending
    BY <1>1, <1>4 DEF Host
  <1> HIDE DEF u
  <1>7. TurnAlarm(u, w) \/ TurnFirst(u, w)
    BY <1>3, <1>6 DEF TurnFirst, TurnAlarm, Clear
  <1>8. Queued(u, w, e, l)
    <2>1. Len(h.hl.bq) = 0 /\ h.hl.bq = << >>  BY <1>3 DEF TurnFirst
    <2>2. ~ TurnPacket(h, w) /\ ~ TurnNobody(h, w)
      BY <1>3 DEF TurnFirst, TurnPacket, TurnNobody, Idle
    <2> QED  BY <1>2, <1>6, <2>1, <2>2 DEF Queued
  <1>9. TimerOff(u) /\ Passed(u, ans)  BY <1>2, <1>6 DEF TimerOff, After, Passed
  <1>10. Leak(u, e, l)  BY <1>2, <1>6 DEF Leak
  <1> QED  BY <1>5, <1>7, <1>8, <1>9, <1>10 DEF Sound, Ready, Turn

LEMMA RetryReady ==
  ASSUME NEW h, HostOK(h), NEW w, NEW e \in 0..MaxLeaked, NEW l \in Nat, NEW ans,
         Sound(h, w, e, l, ans), h.failure = "NONE", h.retry # "NONE", NEW ok \in BOOLEAN,
         NEW v, v \in {w, << >>}
  PROVE  Sound(InitTransport(h, h.retry, ok), v, e, l, ans)
  <1>1. h \in Host /\ e \in Nat /\ h.retry \in {"FIRST", "REINIT"}  BY DEF HostOK, Host
  <1>2. CASE h.retry = "FIRST"
    <2>1. Sound(InitTransport(h, "FIRST", ok), w, e, l, ans)  BY <1>2, FirstReady
    <2>2. w = << >>
      BY <1>2 DEF Sound, Ready, Turn, TurnNobody, TurnMessage, TurnPacket, TurnCallback, TurnAlarm,
         TurnFirst, Idle, Clear
    <2> QED  BY <1>2, <2>1, <2>2
  <1>3. CASE h.retry = "REINIT"
    <2> DEFINE x == [h EXCEPT !.hl = ProtoInit(h.hl), !.retry = "NONE"]
               u == InitTransport(h, "REINIT", ok)
    <2>1. /\ ok => u = x
          /\ ~ ok /\ h.pos = RESET => u = [x EXCEPT !.retry = "REINIT"]
          /\ ~ ok /\ h.pos # RESET => u = [x EXCEPT !.failure = "SERIAL"]
      BY DEF InitTransport, Fail
    <2>2. \E r \in {"NONE", "REINIT"}, why \in {"NONE", "SERIAL"} : Emptied(u, h, r, why)
      <3> DEFINE g == ProtoInit(h.hl)
      <3> HIDE DEF u
      <3>1. x = [h EXCEPT !.hl = g, !.retry = "NONE"]  OBVIOUS
      <3> HIDE DEF g
      <3>2. CASE ok
        <4>1. Emptied(u, h, "NONE", "NONE")  BY <1>1, <2>1, <3>1, <3>2 DEF Emptied, Host, g
        <4> QED  BY <4>1
      <3>3. CASE ~ ok /\ h.pos = RESET
        <4>1. Emptied(u, h, "REINIT", "NONE")  BY <1>1, <2>1, <3>1, <3>3 DEF Emptied, Host, g
        <4> QED  BY <4>1
      <3>4. CASE ~ ok /\ h.pos # RESET
        <4>1. Emptied(u, h, "NONE", "SERIAL")  BY <1>1, <2>1, <3>1, <3>4 DEF Emptied, Host, g
        <4> QED  BY <4>1
      <3> QED  BY <3>2, <3>3, <3>4
    <2> HIDE DEF u
    <2>3. Sound(u, v, e, l, ans)  BY <1>1, <1>3, <2>2, EmptiedReady
    <2> QED  BY <1>3, <2>3 DEF u
  <1> QED  BY <1>1, <1>2, <1>3

\* zb_error_top_level_handler
LEMMA ReadErrorReady ==
  ASSUME NEW h, HostOK(h), NEW w, NEW v, v \in {w, << >>}, NEW e \in Nat, NEW l \in Nat, NEW ans,
         Sound(h, w, e, l, ans), h.failure = "NONE", h.retry = "NONE", NEW ok \in BOOLEAN,
         NEW u, u = IF h.pos = RESET THEN InitTransport(h, "REINIT", ok) ELSE Fail(h, "SERIAL")
  PROVE  Sound(u, v, e + 1, l, ans)
  <1>1. h \in Host /\ e + 1 \in Nat  BY DEF HostOK
  <1>2. CASE h.pos = RESET
    <2> DEFINE g == ProtoInit(h.hl)
               x == [h EXCEPT !.hl = g, !.retry = "NONE"]
    <2>1. u = IF ok THEN x ELSE [x EXCEPT !.retry = "REINIT"]
      BY <1>2 DEF InitTransport
    <2> HIDE DEF g
    <2>2. \E r \in {"NONE", "REINIT"}, why \in {"NONE", "SERIAL"} : Emptied(u, h, r, why)
      <3>1. CASE ok
        <4>1. Emptied(u, h, "NONE", "NONE")  BY <1>1, <2>1, <3>1 DEF Emptied, Host, g
        <4> QED  BY <4>1
      <3>2. CASE ~ ok
        <4>1. Emptied(u, h, "REINIT", "NONE")  BY <1>1, <2>1, <3>2 DEF Emptied, Host, g
        <4> QED  BY <4>1
      <3> QED  BY <3>1, <3>2
    <2>3. h.retry # "FIRST" /\ (\/ h.retry = "REINIT" /\ e + 1 = e
                                \/ h.retry = "NONE" /\ e + 1 = e + 1)
      OBVIOUS
    <2> QED  BY <1>1, <2>2, <2>3, EmptiedReady
  <1>3. CASE h.pos # RESET
    <2>1. u = [h EXCEPT !.failure = "SERIAL"]  BY <1>3 DEF Fail
    <2>2. Like(u, h) /\ u.hl = h.hl /\ u.failure = "SERIAL" /\ u.pending = h.pending
      BY <1>1, <2>1 DEF Like, Host
    <2>3. Queued(h, w, e, l) /\ TimerOff(h) /\ Passed(h, ans) /\ Leak(h, e, l) /\ Turn(h, w, e)
      BY DEF Sound, Ready
    <2>4. ~ TurnAlarm(h, w) /\ ~ TurnFirst(h, w)  BY <1>3 DEF TurnAlarm, TurnFirst
    <2>5. TimerOff(u) /\ Passed(u, ans) /\ (Idle(u) <=> Idle(h))
      BY <2>2, <2>3, LikeFacts
    <2>6. /\ TurnNobody(h, w) => TurnNobody(u, v)
          /\ TurnPacket(h, w) => TurnPacket(u, v)
          /\ TurnCallback(h, w) => TurnCallback(u, v)
          /\ TurnMessage(h, w, e) => TurnMessage(u, v, e + 1) \/ TurnNobody(u, v)
      <3>1. TurnNobody(h, w) => TurnNobody(u, v)  BY <2>2, <2>5 DEF TurnNobody, Clear
      <3>2. TurnPacket(h, w) => TurnPacket(u, v)
        BY <2>2, <2>5 DEF TurnPacket, AskedHere, Like
      <3>3. TurnCallback(h, w) => TurnCallback(u, v)  BY <2>2 DEF TurnCallback, Clear, Like
      <3>4. TurnMessage(h, w, e) => TurnMessage(u, v, e + 1) \/ TurnNobody(u, v)
        <4>1. e > 0 => e + 1 > 0  OBVIOUS
        <4> QED  BY <2>2, <2>5, <4>1 DEF TurnMessage, TurnNobody, Clear, AskedHere, Like
      <3> QED  BY <3>1, <3>2, <3>3, <3>4
    <2>7. Turn(u, v, e + 1)  BY <2>3, <2>4, <2>6 DEF Turn
    <2>8. Queued(u, v, e + 1, l)
      <3>1. u.retry = "NONE" /\ u.failure # "NONE"  BY <2>2 DEF Like
      <3> QED  BY <2>2, <2>3, <2>6, <3>1 DEF Queued, Like
    <2>9. Leak(u, e + 1, l)
      <3>0. e + 1 # 0 /\ u.failure # "NONE" /\ u.failure # "NO_BUFFER" /\ u.hl = h.hl  BY <2>2
      <3> SUFFICES ASSUME Enough, l = 0 PROVE NUsed(h.hl) <= Len(h.hl.bq) + (e + 1)
        BY <3>0 DEF Leak
      <3>1. NUsed(h.hl) <= Len(h.hl.bq) + e  BY <2>3 DEF Leak
      <3>2. h.hl.bq \in Seq(Buf)  BY DEF HostOK, Typed, HLState
      <3>3. PICK n, m : n = NUsed(h.hl) /\ m = Len(h.hl.bq)  OBVIOUS
      <3>4. n \in Nat /\ m \in Nat /\ n <= m + e  BY <3>1, <3>2, <3>3, UsedCount, LenProperties
      <3>5. n <= m + (e + 1)  BY <3>4
      <3> QED  BY <3>3, <3>5
    <2> QED  BY <2>5, <2>7, <2>8, <2>9 DEF Sound, Ready
  <1> QED  BY <1>2, <1>3

LEMMA EndQuiet ==
  ASSUME NEW g \in HLState, g.nq = << >>, g.bq = << >> \/ HeadWaits(g), g.div = NoPkt
  PROVE  /\ EndOfQuantum(g, FALSE) = [g EXCEPT !.active = FALSE]
         /\ ~ g.active => EndOfQuantum(g, FALSE) = g
  <1>1. EndOfQuantum(g, FALSE) = TxReady(g)  BY DEF EndOfQuantum, TxIsReady
  <1>2. EndOfQuantum(g, FALSE) = [g EXCEPT !.active = FALSE]  BY <1>1, ReadyIdle
  <1>3. ~ g.active => [g EXCEPT !.active = FALSE] = g  BY DEF HLState
  <1> QED  BY <1>2, <1>3

\* x is h after its request is finished, whatever becomes of pending and timer.
Finished(x, h) == /\ x.hl = MarkFinished(h.hl) /\ x.failure = h.failure
                  /\ x.pos = h.pos /\ x.calls = h.calls /\ x.resetAlarm = h.resetAlarm
                  /\ x.retry = h.retry /\ x.respProcessed = h.respProcessed

LEMMA FinishedFree ==
  ASSUME NEW h, HostOK(h), NEW w, NEW e \in 0..MaxLeaked, NEW l \in Nat, NEW ans,
         Sound(h, w, e, l, ans), h.failure = "NONE", h.retry = "NONE", TurnMessage(h, w, e),
         NEW x, Finished(x, h)
  PROVE  Free(x, e) /\ Spare(x, e, l)
  <1> DEFINE g == h.hl
             r == x.hl
  <1>1. Queued(h, w, e, l) /\ Leak(h, e, l) /\ g \in HLState /\ r = MarkFinished(g)
    BY DEF Sound, Ready, HostOK, Typed, Finished
  <1>2. g.nq = << >> /\ ~ g.aborted /\ ~ g.active /\ g.div = NoPkt
    <2>1. ~ TurnPacket(h, w) /\ ~ TurnNobody(h, w)
      <3>1. << h.pos >> # << >>  OBVIOUS
      <3> QED  BY <3>1 DEF TurnMessage, TurnPacket, TurnNobody, Clear
    <2> QED  BY <1>1, <2>1 DEF Queued, TurnMessage
  <1>3. g.bq = << >> \/ (Len(g.bq) = 1 /\ HeadWaits(g))
    <2>1. g.bq # << >> => AskedHere(h)  BY DEF TurnMessage
    <2> QED  BY <1>1, <2>1 DEF Queued, AskedHere
  <1> HIDE DEF g, r
  <1>4. /\ r.bq = << >> /\ r.nq = g.nq /\ r.div = g.div /\ r.active = g.active
        /\ r.aborted = g.aborted
        /\ Used(r) \subseteq Used(g)
        /\ g.bq # << >> => \E b \in Used(g) : Used(r) = Used(g) \ {b}
    BY <1>1, <1>3, FinishOnly
  <1>5. Free(x, e)
    <2>1. Idle(x)  BY DEF Finished, TurnMessage, Idle
    <2>2. ~ x.respProcessed /\ x.failure = "NONE" /\ x.retry = "NONE"
      BY <1>1 DEF Finished, Queued
    <2> QED  BY <1>2, <1>4, <2>1, <2>2 DEF Free, r
  <1>6. Spare(x, e, l)
    <2> SUFFICES ASSUME Enough, l = 0 \/ e = 0 PROVE NUsed(r) <= 0 + e
      <3>1. Len(r.bq) = 0 /\ x.retry = "NONE" /\ x.failure = "NONE"  BY <1>4 DEF Finished
      <3> QED  BY <3>1 DEF Spare, r
    <2>1. NUsed(g) <= Len(g.bq) + e  BY <1>1 DEF Leak, g
    <2>2. NUsed(g) \in Nat /\ NUsed(r) \in Nat  BY UsedCount
    <2>3. CASE g.bq = << >>
      <3>1. NUsed(r) <= NUsed(g) /\ Len(g.bq) = 0  BY <1>4, <2>3, UsedCount
      <3> QED  BY <2>1, <2>2, <3>1
    <2>4. CASE g.bq # << >>
      <3>1. NUsed(r) = NUsed(g) - 1 /\ Len(g.bq) = 1  BY <1>3, <1>4, <2>4, UsedCount
      <3> QED  BY <2>1, <2>2, <3>1
    <2> QED  BY <2>3, <2>4
  <1> QED  BY <1>5, <1>6

\* The message on its way is handled: ans is what is answered then.
LEMMA HandledReady ==
  ASSUME NEW h, HostOK(h), NEW w, NEW e \in 0..MaxLeaked, NEW l \in Nat, NEW ans,
         Sound(h, w, e, l, ans), h.failure = "NONE", h.retry = "NONE", TurnMessage(h, w, e)
  PROVE  LET u == Handle(h, h.pos)
         IN  Sound([u EXCEPT !.hl = EndOfQuantum(u.hl, FALSE)], << >>, e, l, ans \cup {h.pos})
  <1> DEFINE u == Handle(h, h.pos)
             more == ans \cup {h.pos}
  <1>1. /\ h \in Host /\ h.pos \in Step /\ h.pos \in Nat /\ h.pos # DONE /\ h.pos # RESET_IND /\ e \in Nat
    <2>1. h \in Host /\ h.pos \in Step  BY DEF HostOK, TurnMessage
    <2>2. e \in Nat  BY StartupConstants
    <2>3. h.pos \in Nat /\ h.pos # DONE /\ h.pos # RESET_IND  BY <2>1, StepFacts
    <2> QED  BY <2>1, <2>2, <2>3
  <1>2. Queued(h, w, e, l) /\ TimerOff(h) /\ Passed(h, ans)  BY DEF Sound, Ready
  <1>3. Passed(h, more) /\ \A p \in VERSION..STEPS - 1 : p <= h.pos => p \in more \cup SKIPPED
    <2>1. \A p \in VERSION..STEPS - 1 : p <= h.pos => p < h.pos \/ p = h.pos
      BY <1>1, StepFacts DEF VERSION
    <2>2. \A p \in VERSION..STEPS - 1 : p < h.pos => p \in more \cup SKIPPED
      BY <1>2 DEF Passed
    <2>3. h.pos \in more  OBVIOUS
    <2> HIDE DEF more
    <2>4. \A p \in VERSION..STEPS - 1 : p <= h.pos => p \in more \cup SKIPPED
      BY <2>1, <2>2, <2>3
    <2>5. \A p \in VERSION..STEPS - 1 : p < h.pos \/ p = h.pos => p <= h.pos
      BY <1>1, StepFacts DEF VERSION
    <2> QED  BY <2>4, <2>5 DEF Passed
  <1>4. Sound(u, << >>, e, l, more)
        /\ u.hl \in HLState /\ u.hl.nq = << >> /\ u.hl.bq = << >> /\ u.hl.div = NoPkt
        /\ ~ u.hl.active /\ HostOK(u)
    <2>1. ASSUME NEW x, Free(x, e), u = ScheduleNext(x), HostOK(x), Spare(x, e, l), x.pos = h.pos,
                 x.timer => x.pos = RESET
          PROVE  Sound(u, << >>, e, l, more) /\ u.hl = x.hl
      <3> HIDE DEF u, more
      <3>1. Sound(ScheduleNext(x), << >>, e, l, more)
        BY <1>1, <1>3, <2>1, ScheduledReady
      <3>2. u.hl = x.hl  BY <2>1 DEF ScheduleNext, HostOK, Host
      <3> QED  BY <2>1, <3>1, <3>2
    <2>2. \A x : Free(x, e) =>
            x.hl.nq = << >> /\ x.hl.bq = << >> /\ x.hl.div = NoPkt /\ ~ x.hl.active
      BY DEF Free
    <2>3. HostOK(u) /\ u.hl \in HLState
      <3>1. h.pos \in Message  BY <1>1 DEF Message
      <3>2. HostOK(u)  BY <3>1, HandleOK
      <3> QED  BY <3>2 DEF HostOK, Typed
    <2>4. CASE h.pos = RESET
      <3> DEFINE v == [h EXCEPT !.pending = FALSE]
                 x == Finish(v)
      <3>1. u = ResetResponse(h)
        <4>1. RESET # VERSION  BY StepFacts
        <4> QED  BY <1>1, <2>4, <4>1 DEF Handle
      <3>2. HostOK(v)
        <4>1. FALSE \in BOOLEAN  OBVIOUS
        <4> QED  BY <4>1, FlagsOK, Zenon
      <3>3. /\ v.hl = h.hl /\ v.pos = h.pos /\ v.calls = h.calls /\ v.resetAlarm = h.resetAlarm
            /\ v.retry = h.retry /\ v.failure = h.failure /\ v.timer = h.timer
            /\ v.respProcessed = h.respProcessed /\ v.pending = FALSE
        BY <1>1 DEF Host
      <3>4. u = IF h.pending THEN HandleResetResponse(x, TRUE) ELSE v
        BY <3>1 DEF ResetResponse
      <3> HIDE DEF v, u
      <3>5. HostOK(x)  BY <3>2, FinishOK
      <3>6. Finished(x, h) /\ x.timer = h.timer
        BY <3>2, <3>3 DEF Finish, Finished, HostOK, Host
      <3>7. Free(x, e) /\ Spare(x, e, l)  BY <3>6, FinishedFree
      <3> HIDE DEF x
      <3>8. CASE h.pending
        <4>1. x.pos = h.pos /\ x.pos <= RESET  BY <1>1, <2>4, <3>6 DEF Finished
        <4>2. u = ScheduleNext(x)  BY <3>4, <3>8, <4>1 DEF HandleResetResponse
        <4>3. Sound(u, << >>, e, l, more) /\ u.hl = x.hl
          BY <2>1, <2>4, <3>5, <3>7, <4>1, <4>2
        <4> QED  BY <2>2, <2>3, <3>7, <4>3
      <3>9. CASE ~ h.pending
        <4>1. h.hl.bq = << >> /\ u = v
          BY <1>2, <2>4, <3>4, <3>9 DEF TurnMessage, AskedHere, Queued
        <4>2. MarkFinished(h.hl) = h.hl  BY <4>1 DEF MarkFinished
        <4>3. Finished(v, h)  BY <3>3, <4>2 DEF Finished
        <4>4. Free(v, e) /\ Spare(v, e, l)  BY <4>3, FinishedFree
        <4>5. TurnNobody(v, << >>) /\ Queued(v, << >>, e, l)  BY <4>4, FreeReady
        <4>6. TimerOff(v) /\ Passed(v, more)
          BY <1>2, <1>3, <3>3 DEF TimerOff, After, Passed
        <4>7. Leak(v, e, l)  BY <4>4 DEF Spare, Leak
        <4> QED  BY <2>2, <2>3, <4>1, <4>4, <4>5, <4>6, <4>7 DEF Sound, Ready, Turn
      <3> QED  BY <3>8, <3>9
    <2>5. CASE h.pos = VERSION
      <3> DEFINE v == Finish(h)
                 x == [v EXCEPT !.timer = FALSE]
      <3>1. u = ScheduleNext(x)
        <4>1. VERSION # RESET  BY StepFacts
        <4> QED  BY <1>1, <2>5, <4>1 DEF Handle, VersionResponse
      <3> HIDE DEF u
      <3>2. HostOK(v)  BY FinishOK
      <3>3. v.hl = MarkFinished(h.hl) /\ Finished(v, h)
        BY <1>1 DEF Finish, Finished, Host
      <3> HIDE DEF v
      <3>4. HostOK(x)
        <4>1. FALSE \in BOOLEAN  OBVIOUS
        <4> QED  BY <3>2, <4>1, FlagsOK, Zenon
      <3>5. Finished(x, h) /\ x.timer = FALSE /\ x.pos = h.pos
        BY <3>2, <3>3 DEF Finished, HostOK, Host
      <3> HIDE DEF x
      <3>6. Free(x, e) /\ Spare(x, e, l)  BY <3>5, FinishedFree
      <3>7. Sound(u, << >>, e, l, more) /\ u.hl = x.hl  BY <2>1, <3>1, <3>4, <3>5, <3>6
      <3> QED  BY <2>2, <2>3, <3>6, <3>7
    <2>6. CASE h.pos \notin {RESET, VERSION}
      <3> DEFINE x == Finish(h)
      <3>1. u = StepResponse(h, h.pos)  BY <1>1, <2>6 DEF Handle
      <3>2. u = ScheduleNext(x)  BY <1>1, <3>1 DEF StepResponse
      <3> HIDE DEF u
      <3>3. HostOK(x)  BY FinishOK
      <3>4. Finished(x, h) /\ x.timer = h.timer  BY <1>1 DEF Finish, Finished, Host
      <3> HIDE DEF x
      <3>5. Free(x, e) /\ Spare(x, e, l) /\ x.pos = h.pos
        BY <3>4, FinishedFree DEF Finished
      <3>6. h.pos > VERSION  BY <1>1, <2>6 DEF RESET, VERSION
      <3>7. ~ x.timer  BY <1>2, <3>4, <3>6 DEF TimerOff, After
      <3>8. Sound(u, << >>, e, l, more) /\ u.hl = x.hl  BY <2>1, <3>2, <3>3, <3>5, <3>7
      <3> QED  BY <2>2, <2>3, <3>5, <3>8
    <2> QED  BY <2>4, <2>5, <2>6
  <1> HIDE DEF u, more
  <1>5. EndOfQuantum(u.hl, FALSE) = u.hl  BY <1>4, EndQuiet
  <1>6. [u EXCEPT !.hl = EndOfQuantum(u.hl, FALSE)] = u  BY <1>4, <1>5 DEF HostOK, Host
  <1> QED  BY <1>4, <1>6 DEF u, more

\* Nothing is handled: the LL takes the request, or it is only looked whether
\* another could be sent.
LEMMA TakenReady ==
  ASSUME NEW h, HostOK(h), NEW w, NEW e \in Nat, NEW l \in Nat, NEW ans,
         Sound(h, w, e, l, ans), h.failure = "NONE", NEW takes \in BOOLEAN,
         takes => h.hl.div # NoPkt
  PROVE  LET u == [h EXCEPT !.hl = EndOfQuantum(h.hl, takes)]
         IN  IF takes THEN w = << >> /\ Sound(u, << h.hl.div.id >>, e, l, ans)
             ELSE Sound(u, w, e, l, ans)
  <1> DEFINE g == h.hl
             r == EndOfQuantum(g, takes)
             u == [h EXCEPT !.hl = r]
  <1>1. h \in Host /\ g \in HLState  BY DEF HostOK, Typed
  <1>2. /\ Queued(h, w, e, l) /\ TimerOff(h) /\ Passed(h, ans) /\ Leak(h, e, l)
        /\ Turn(h, w, e)
    BY DEF Sound, Ready
  <1>3. g.nq = << >> /\ (g.bq = << >> \/ HeadWaits(g)) /\ ~ g.aborted
    BY <1>2 DEF Queued
  <1>4. /\ Like(u, h) /\ u.hl = r /\ u.failure = h.failure /\ u.pending = h.pending
    BY <1>1 DEF Like, Host
  <1>5. TimerOff(u) /\ Passed(u, ans) /\ (Idle(u) <=> Idle(h))  BY <1>2, <1>4, LikeFacts
  <1>6. /\ r.bq = g.bq /\ r.nq = g.nq /\ r.pool = g.pool /\ r.aborted = g.aborted
        /\ r.div = (IF takes THEN NoPkt ELSE g.div)
        /\ r.active = (g.active /\ ~ takes /\ g.div # NoPkt)
    <2>1. CASE takes
      <3> DEFINE k == [g EXCEPT !.div = NoPkt]
      <3>1. r = TxReady(k)
        <4>1. k.div = NoPkt  BY <1>1 DEF HLState
        <4> QED  BY <2>1, <4>1 DEF EndOfQuantum, TxIsReady
      <3>2. /\ k \in HLState /\ k.bq = g.bq /\ k.nq = g.nq /\ k.pool = g.pool
            /\ k.aborted = g.aborted /\ k.div = NoPkt
        <4>1. NoPkt \in Packet  BY <1>1, HLConstants DEF NoPkt, Packet, Tsn
        <4> QED  BY <1>1, <4>1 DEF HLState
      <3> HIDE DEF k, r
      <3>3. k.nq = << >> /\ (k.bq = << >> \/ HeadWaits(k))  BY <1>3, <3>2 DEF HeadWaits
      <3>4. r = [k EXCEPT !.active = FALSE]  BY <3>1, <3>2, <3>3, ReadyIdle
      <3> QED  BY <2>1, <3>2, <3>4 DEF HLState
    <2>2. CASE ~ takes /\ g.div = NoPkt
      <3>1. takes = FALSE  BY <2>2
      <3>2. r = [g EXCEPT !.active = FALSE]
        <4>1. EndOfQuantum(g, FALSE) = [g EXCEPT !.active = FALSE]
          BY <1>1, <1>3, <2>2, EndQuiet
        <4> QED  BY <3>1, <4>1, Zenon
      <3> HIDE DEF r, g
      <3> QED  BY <1>1, <2>2, <3>2 DEF HLState
    <2>3. CASE ~ takes /\ g.div # NoPkt
      <3>1. r = g  BY <2>3 DEF EndOfQuantum, TxIsReady
      <3>2. g.active = (g.active /\ ~ takes /\ g.div # NoPkt)
        <4>1. g.active  BY <1>2, <2>3 DEF Queued
        <4>2. g.active = TRUE  BY <1>1, <4>1 DEF HLState
        <4> QED  BY <2>3, <4>2
      <3> HIDE DEF r
      <3> QED  BY <2>3, <3>1, <3>2
    <2> QED  BY <2>1, <2>2, <2>3
  <1>7. NUsed(r) = NUsed(g)  BY <1>6 DEF NUsed, Used, FreeBufs
  <1> HIDE DEF r, u, g
  <1>8. /\ u.hl.bq = h.hl.bq /\ AskedId(u.hl) = AskedId(h.hl) /\ (HeadWaits(u.hl) <=> HeadWaits(h.hl))
        /\ AskedHere(u) = AskedHere(h)
    BY <1>4, <1>6 DEF AskedId, HeadWaits, AskedHere, Like, g
  <1>9. Leak(u, e, l)
    BY <1>2, <1>4, <1>7, <1>8 DEF Leak, MayAsk, Like, g
  <1>10. CASE takes
    <2>1. TurnPacket(h, w)
      <3>1. g.div # NoPkt  BY <1>10 DEF g
      <3> QED  BY <1>2, <3>1 DEF Turn, TurnNobody, TurnMessage, TurnCallback, TurnAlarm, TurnFirst, Clear, g
    <2>2. w = << >> /\ h.hl.div.id = h.pos /\ h.pos \in Step /\ AskedHere(h) /\ Idle(h)
      BY <2>1 DEF TurnPacket
    <2>3. TurnMessage(u, << h.pos >>, e)
      <3>1. u.hl.div = NoPkt /\ u.pos = h.pos  BY <1>4, <1>6, <1>10 DEF Like
      <3> QED  BY <1>5, <1>8, <2>2, <3>1 DEF TurnMessage
    <2>4. Queued(u, << h.pos >>, e, l)
      <3>1. ~ u.hl.active /\ u.hl.nq = << >> /\ ~ u.hl.aborted /\ u.hl.div = NoPkt
        BY <1>3, <1>4, <1>6, <1>10
      <3> QED  BY <1>2, <1>4, <1>8, <2>3, <3>1 DEF Queued, Like
    <2>5. Sound(u, << h.pos >>, e, l, ans)
      BY <1>5, <1>9, <2>3, <2>4 DEF Sound, Ready, Turn
    <2> QED  BY <1>10, <2>2, <2>5 DEF u, r, g
  <1>11. CASE ~ takes
    <2>1. u.hl.div = h.hl.div  BY <1>4, <1>6, <1>11 DEF g
    <2>2. /\ TurnNobody(u, w) <=> TurnNobody(h, w)
          /\ TurnMessage(u, w, e) <=> TurnMessage(h, w, e)
          /\ TurnPacket(u, w) <=> TurnPacket(h, w)
          /\ TurnCallback(u, w) <=> TurnCallback(h, w)
          /\ TurnAlarm(u, w) <=> TurnAlarm(h, w)
          /\ TurnFirst(u, w) <=> TurnFirst(h, w)
      <3>1. TurnNobody(u, w) <=> TurnNobody(h, w)  BY <1>5, <2>1 DEF TurnNobody, Clear
      <3>2. TurnMessage(u, w, e) <=> TurnMessage(h, w, e)
        BY <1>4, <1>5, <1>8, <2>1 DEF TurnMessage, Like
      <3>3. TurnPacket(u, w) <=> TurnPacket(h, w)
        BY <1>4, <1>5, <1>8, <2>1 DEF TurnPacket, Like
      <3>4. TurnCallback(u, w) <=> TurnCallback(h, w)
        BY <1>4, <1>8, <2>1 DEF TurnCallback, Clear, Like
      <3>5. TurnAlarm(u, w) <=> TurnAlarm(h, w)  BY <1>4, <2>1 DEF TurnAlarm, Clear, Like
      <3>6. TurnFirst(u, w) <=> TurnFirst(h, w)
        BY <1>4, <1>8, <2>1 DEF TurnFirst, Clear, Like
      <3> QED  BY <3>1, <3>2, <3>3, <3>4, <3>5, <3>6
    <2>3. Turn(u, w, e)  BY <1>2, <2>2 DEF Turn
    <2>4. Queued(u, w, e, l)
      <3>1. /\ u.hl.active => h.hl.active
            /\ u.hl.div # NoPkt /\ h.hl.active => u.hl.active
            /\ u.hl.nq = << >> /\ ~ u.hl.aborted
        BY <1>3, <1>4, <1>6, <1>11, <2>1 DEF g
      <3> QED  BY <1>2, <1>4, <1>8, <2>1, <2>2, <3>1 DEF Queued, Like
    <2>5. Sound(u, w, e, l, ans)  BY <1>5, <1>9, <2>3, <2>4 DEF Sound, Ready
    <2> QED  BY <1>11, <2>5 DEF u, r, g
  <1> QED  BY <1>10, <1>11

\* A way of at most one message is all in one place.
LEMMA OneOnly ==
  ASSUME NEW p \in Seq(Message), NEW q \in Seq(Message), NEW r \in Seq(Message)
  PROVE  /\ (p \o q) \o r = << >> => p = << >> /\ q = << >> /\ r = << >>
         /\ \A m : (p \o q) \o r = << m >> =>
              \/ p = << m >> /\ q = << >> /\ r = << >>
              \/ p = << >> /\ q = << m >> /\ r = << >>
              \/ p = << >> /\ q = << >> /\ r = << m >>
  <1> DEFINE s == (p \o q) \o r
  <1>1. /\ s \in Seq(Message)
        /\ Len(s) = Len(p) + Len(q) + Len(r)
        /\ Len(p) \in Nat /\ Len(q) \in Nat /\ Len(r) \in Nat
    OBVIOUS
  <1>2. \A t \in {p, q, r} : Len(t) = 0 => t = << >>  BY EmptySeq
  <1>3. ASSUME s = << >> PROVE p = << >> /\ q = << >> /\ r = << >>
    <2>1. Len(s) = 0  BY <1>3
    <2>2. Len(p) = 0 /\ Len(q) = 0 /\ Len(r) = 0  BY <1>1, <2>1
    <2> QED  BY <1>2, <2>2
  <1>4. ASSUME NEW m, s = << m >>
        PROVE  \/ p = << m >> /\ q = << >> /\ r = << >>
               \/ p = << >> /\ q = << m >> /\ r = << >>
               \/ p = << >> /\ q = << >> /\ r = << m >>
    <2>1. Len(s) = 1  BY <1>4
    <2>2. \/ Len(p) = 1 /\ Len(q) = 0 /\ Len(r) = 0
          \/ Len(p) = 0 /\ Len(q) = 1 /\ Len(r) = 0
          \/ Len(p) = 0 /\ Len(q) = 0 /\ Len(r) = 1
      <3> HIDE DEF s
      <3> QED  BY <1>1, <2>1
    <2>3. CASE Len(q) = 0 /\ Len(r) = 0
      <3>1. q = << >> /\ r = << >>  BY <1>2, <2>3
      <3>2. s = p  BY <3>1
      <3> QED  BY <1>4, <3>1, <3>2
    <2>4. CASE Len(p) = 0 /\ Len(r) = 0
      <3>1. p = << >> /\ r = << >>  BY <1>2, <2>4
      <3>2. s = q  BY <3>1
      <3> QED  BY <1>4, <3>1, <3>2
    <2>5. CASE Len(p) = 0 /\ Len(q) = 0
      <3>1. p = << >> /\ q = << >>  BY <1>2, <2>5
      <3>2. s = r  BY <3>1
      <3> QED  BY <1>4, <3>1, <3>2
    <2> QED  BY <2>2, <2>3, <2>4, <2>5
  <1> QED  BY <1>3, <1>4

\* The buffers that init_transport may have left reserved.
Leaked == errors + away

TroubleInv ==
  /\ TypeInv /\ Opened(host)
  /\ late = 0 /\ extra = 0 =>
       Sound(host, Way, Leaked, lost, answered) /\ (errors = 0 => away = 0)

\* What is on its way when the port is opened again.
LEMMA RestartedWay ==
  ASSUME NEW e, Sound(host, Way, e, lost, answered), NEW repeated \in BOOLEAN, PortRestarts(repeated),
         atSoc' = atSoc, toHost \in Seq(Message), atSoc \in Seq(Message), toSoc \in Seq(Message)
  PROVE  Way' \in {Way, << >>}
  <1>1. Way = << >> \/ Way = << host.pos >>
    BY DEF Sound, Ready, Turn, TurnNobody, TurnMessage, TurnPacket, TurnCallback,
       TurnAlarm, TurnFirst, Clear
  <1>2. Way' = (toHost' \o atSoc) \o << >> /\ toHost' \in {toHost, << >>}
    BY DEF PortRestarts, Way
  <1>3. Way' = toHost' \o atSoc  BY <1>2
  <1>4. /\ toHost = << >> \/ toHost = << host.pos >>
        /\ atSoc = << >> \/ atSoc = << host.pos >>
        /\ toHost = << >> \/ atSoc = << >>
        /\ Way = << >> => toHost = << >> /\ atSoc = << >>
    BY <1>1, OneOnly, SMTT(30) DEF Way
  <1>5. CASE Way = << >>  BY <1>2, <1>3, <1>4, <1>5
  <1>6. CASE Way = << host.pos >>
    <2>1. CASE toHost' = << >>
      <3>1. Way' = atSoc  BY <1>3, <2>1
      <3> QED  BY <1>4, <1>6, <3>1
    <2>2. CASE toHost' = toHost
      <3>1. Way' = toHost \o atSoc  BY <1>3, <2>2
      <3>2. CASE toHost = << >>
        <4>1. Way' = atSoc  BY <3>1, <3>2
        <4> QED  BY <1>4, <1>6, <4>1
      <3>3. CASE toHost # << >>
        <4>1. atSoc = << >> /\ toHost = << host.pos >>  BY <1>4, <3>3
        <4>2. Way' = toHost  BY <3>1, <4>1
        <4> QED  BY <1>6, <4>1, <4>2
      <3> QED  BY <3>2, <3>3
    <2> QED  BY <1>2, <2>1, <2>2
  <1> QED  BY <1>1, <1>5, <1>6


LEMMA InitTrouble == Init => TroubleInv
  <1> SUFFICES ASSUME Init PROVE TroubleInv  OBVIOUS
  <1>1. TypeInv  BY InitTypes
  <1>2. Way = << >>  BY DEF Init, Way
  <1>3. /\ host.hl = HLInit /\ host.pos = RESET /\ ~ host.pending /\ host.calls = 0
        /\ ~ host.resetAlarm /\ ~ host.timer /\ host.retry = "FIRST" /\ ~ host.respProcessed
        /\ host.failure = "NONE" /\ errors = 0 /\ away = 0 /\ Leaked = 0 /\ lost = 0 /\ answered = {}
    BY DEF Init, Leaked
  <1>4. /\ HLInit.bq = << >> /\ HLInit.nq = << >> /\ ~ HLInit.active /\ HLInit.div = NoPkt
        /\ ~ HLInit.aborted /\ \A b \in Buf : HLInit.pool[b].status = "FREE"
    BY DEF HLInit, FreeBuffer
  <1>5. TurnFirst(host, << >>)  BY <1>3, <1>4 DEF TurnFirst, Clear
  <1>6. Len(HLInit.bq) = 0  BY <1>4
  <1>7. Queued(host, << >>, 0, 0)  BY <1>3, <1>4, <1>6 DEF Queued
  <1>8. TimerOff(host) /\ Passed(host, {})
    <2>1. \A p \in VERSION..STEPS - 1 : ~ (p < RESET) /\ p # RESET
      BY StepFacts DEF VERSION, RESET
    <2> QED  BY <1>3, <2>1 DEF TimerOff, Passed
  <1>9. Leak(host, 0, 0)
    <2>1. Used(HLInit) = {}  BY <1>4 DEF Used, FreeBufs
    <2>2. NUsed(HLInit) = 0  BY <2>1, FS_EmptySet DEF NUsed
    <2> QED  BY <1>3, <1>6, <2>2 DEF Leak
  <1>10. Opened(host)  BY DEF Init, Opened
  <1> QED  BY <1>1, <1>2, <1>3, <1>5, <1>7, <1>8, <1>9, <1>10 DEF TroubleInv, Sound, Ready, Turn

LEMMA HostTrouble ==
  ASSUME TroubleInv, late' = 0, extra' = 0,
         Callback \/ ResetAlarm \/ Timer \/ (\E ok, repeated \in BOOLEAN : RetryInit(ok, repeated))
  PROVE  Sound(host', Way', Leaked', lost', answered') /\ (errors' = 0 => away' = 0)
  <1>1. /\ TypeOK /\ HostOK(host) /\ late \in Nat /\ lost \in Nat /\ errors \in Nat /\ away \in Nat
        /\ Leaked \in 0..MaxLeaked
    BY StartupConstants DEF TroubleInv, TypeInv, TypeOK, Leaked, MaxLeaked
  <1>2. late = 0 /\ extra = 0 /\ (Timer => Quiet)
    BY <1>1 DEF Callback, ResetAlarm, Timer, RetryInit
  <1>3. /\ Sound(host, Way, Leaked, lost, answered) /\ host.failure = "NONE"
        /\ errors = 0 => away = 0
    BY <1>2 DEF TroubleInv, Callback, ResetAlarm, Timer, RetryInit, Running
  <1>4. /\ errors' = errors /\ lost' = lost /\ answered' = answered
        /\ ~ Timer => away' = away /\ Leaked' = Leaked
        /\ Callback \/ ResetAlarm \/ Timer => Way' = Way
    BY DEF Way, Callback, ResetAlarm, Timer, RetryInit, soc, Leaked
  <1>5. CASE Callback
    <2>1. /\ host.calls > 0 /\ host' = NextStep([host EXCEPT !.calls = @ - 1])
          /\ away' = away /\ Leaked' = Leaked /\ Way' = Way
      BY <1>5 DEF Callback, Leaked, Way, soc
    <2>2. Sound(NextStep([host EXCEPT !.calls = @ - 1]), Way, Leaked, lost, answered)
      BY <1>1, <1>3, <2>1, CallbackReady
    <2> QED  BY <1>3, <1>4, <2>1, <2>2
  <1>6. CASE ResetAlarm
    <2>1. /\ host.resetAlarm /\ host' = SocReset([host EXCEPT !.resetAlarm = FALSE])
          /\ away' = away /\ Leaked' = Leaked /\ Way' = Way
      BY <1>6 DEF ResetAlarm, Leaked, Way, soc
    <2>2. Sound(SocReset([host EXCEPT !.resetAlarm = FALSE]), Way, Leaked, lost, answered)
      BY <1>1, <1>3, <2>1, ResetAlarmReady
    <2> QED  BY <1>3, <1>4, <2>1, <2>2
  <1>7. CASE Timer
    <2>1. /\ Way = << >> /\ ~ host.hl.active /\ host.calls = 0 /\ ~ host.resetAlarm
          /\ host.timer
      BY <1>2, <1>7 DEF Quiet, Way, Timer
    <2>2. host.retry \in {"NONE", "REINIT"}
      BY <1>1, <2>1 DEF TroubleInv, Opened, HostOK, Host
    <2>3. /\ away' \in 0..MaxAway /\ Leaked' \in 0..MaxLeaked
          /\ away' = IF host.retry = "REINIT" THEN away + 1 ELSE away
          /\ Leaked' = IF host.retry = "REINIT" THEN Leaked + 1 ELSE Leaked
      <3>1. errors \in 0..MaxErrors /\ away \in 0..MaxAway  BY <1>1 DEF TypeOK
      <3>2. away' \in 0..MaxAway /\ away' = IF host.retry = "REINIT" THEN away + 1 ELSE away
        BY <1>7, <2>2, <3>1, StartupConstants DEF Timer
      <3> QED  BY <1>1, <1>4, <3>1, <3>2, StartupConstants DEF Leaked, MaxLeaked
    <2>4. errors' = 0 => away' = 0
      <3>1. CASE host.retry = "REINIT"
        <4>1. Leaked > 0  BY <1>3, <3>1 DEF Sound, Ready, Queued
        <4>2. errors # 0  BY <1>1, <1>3, <4>1 DEF Leaked
        <4> QED  BY <1>4, <4>2
      <3>2. CASE host.retry = "NONE"
        <4>1. away' = away  BY <2>3, <3>2
        <4> QED  BY <1>3, <1>4, <4>1
      <3> QED  BY <2>2, <3>1, <3>2
    <2>5. Sound(TimerAlarm([host EXCEPT !.timer = FALSE]), << >>, Leaked', lost, answered)
      <3>1. PICK f \in 0..MaxLeaked : f = Leaked'  BY <2>3
      <3>2. \/ host.retry = "REINIT" /\ f = Leaked + 1
            \/ host.retry = "NONE" /\ f = Leaked
        BY <2>2, <2>3, <3>1
      <3>3. Sound(TimerAlarm([host EXCEPT !.timer = FALSE]), << >>, f, lost, answered)
        <4>1. Sound(host, << >>, Leaked, lost, answered) /\ ~ host.hl.active
          BY <1>3, <2>1
        <4>2. HostOK(host) /\ Leaked \in 0..MaxLeaked /\ lost \in Nat /\ host.failure = "NONE"
          BY <1>1, <1>3
        <4>3. PICK e \in 0..MaxLeaked : e = Leaked  BY <4>2
        <4>4. Sound(host, << >>, e, lost, answered)  BY <4>1, <4>3
        <4>5. \/ host.retry = "REINIT" /\ f = e + 1
              \/ host.retry = "NONE" /\ f = e
          BY <3>2, <4>3
        <4>6. /\ host.timer /\ ~ host.hl.active /\ host.calls = 0 /\ ~ host.resetAlarm
              /\ host.failure = "NONE" /\ HostOK(host) /\ lost \in Nat
          BY <2>1, <4>2
        <4> QED  BY <4>4, <4>5, <4>6, TimerReady
      <3> QED  BY <3>1, <3>3
    <2> QED  BY <1>4, <1>7, <2>1, <2>4, <2>5 DEF Timer
  <1>8. CASE \E ok, repeated \in BOOLEAN : RetryInit(ok, repeated)
    <2>1. PICK ok \in BOOLEAN, repeated \in BOOLEAN : RetryInit(ok, repeated)  BY <1>8
    <2>2. /\ host.retry # "NONE" /\ host' = InitTransport(host, host.retry, ok)
          /\ PortRestarts(repeated) /\ atSoc' = atSoc /\ away' = away
      BY <2>1 DEF RetryInit
    <2>3. Leaked' = Leaked  BY <1>4, <2>2 DEF Leaked
    <2>4. /\ toHost \in Seq(Message) /\ atSoc \in Seq(Message) /\ toSoc \in Seq(Message)
      BY WaySeq DEF TroubleInv, TypeInv
    <2>5. Way' \in {Way, << >>}  BY <1>3, <2>2, <2>4, RestartedWay
    <2>6. Sound(host', Way', Leaked, lost, answered)
      BY <1>1, <1>3, <2>2, <2>5, RetryReady
    <2> QED  BY <1>3, <1>4, <2>2, <2>3, <2>6
  <1> QED  BY <1>5, <1>6, <1>7, <1>8

LEMMA ErrorTrouble ==
  ASSUME TroubleInv, late' = 0, extra' = 0, NEW ok \in BOOLEAN, NEW repeated \in BOOLEAN,
         ReadError(ok, repeated)
  PROVE  Sound(host', Way', Leaked', lost', answered') /\ (errors' = 0 => away' = 0)
  <1>1. /\ TypeOK /\ HostOK(host) /\ lost \in Nat /\ errors \in Nat /\ Leaked \in Nat
    BY StartupConstants DEF TroubleInv, TypeInv, TypeOK, Leaked
  <1>2. late = 0 /\ extra = 0 /\ lost' = lost /\ answered' = answered /\ errors' = errors + 1
        /\ Leaked' = Leaked + 1
    BY <1>1, StartupConstants DEF ReadError, Leaked, TypeOK
  <1>3. Sound(host, Way, Leaked, lost, answered) /\ host.failure = "NONE" /\ host.retry = "NONE"
    BY <1>2 DEF TroubleInv, ReadError, Running
  <1>4. /\ toHost \in Seq(Message) /\ atSoc \in Seq(Message) /\ toSoc \in Seq(Message)
    BY WaySeq DEF TroubleInv, TypeInv
  <1>5. Way' \in {Way, << >>}
    BY <1>3, <1>4, RestartedWay DEF ReadError
  <1>6. host' = IF host.pos = RESET THEN InitTransport(host, "REINIT", ok) ELSE Fail(host, "SERIAL")
    BY DEF ReadError
  <1>7. Sound(host', Way', Leaked + 1, lost, answered)
    BY <1>1, <1>3, <1>5, <1>6, ReadErrorReady
  <1>8. errors' # 0  BY <1>1, <1>2
  <1> QED  BY <1>2, <1>7, <1>8

LEMMA QuantumTrouble ==
  ASSUME TroubleInv, late' = 0, extra' = 0, NEW takes \in BOOLEAN, NEW receives \in BOOLEAN,
         Quantum(takes, receives)
  PROVE  Sound(host', Way', Leaked', lost', answered') /\ (errors' = 0 => away' = 0)
  <1>1. /\ TypeOK /\ HostOK(host) /\ lost \in Nat /\ Leaked \in 0..MaxLeaked /\ Leaked \in Nat
    BY StartupConstants DEF TroubleInv, TypeInv, TypeOK, Leaked, MaxLeaked
  <1>2. late = 0 /\ extra = 0 /\ lost' = lost /\ errors' = errors /\ away' = away
        /\ Leaked' = Leaked /\ atSoc' = atSoc
    BY DEF Quantum, Leaked
  <1>3. /\ Sound(host, Way, Leaked, lost, answered) /\ host.failure = "NONE"
        /\ errors = 0 => away = 0
    BY <1>2 DEF TroubleInv, Quantum, Running
  <1>4. /\ toHost \in Seq(Message) /\ atSoc \in Seq(Message) /\ toSoc \in Seq(Message)
    BY WaySeq DEF TroubleInv, TypeInv
  <1>5. CASE receives
    <2>1. toHost # << >> /\ host.retry = "NONE"  BY <1>5 DEF Quantum
    <2>2. Way # << >>  BY <1>4, <2>1, OneOnly DEF Way
    <2>3. TurnMessage(host, Way, Leaked)
      BY <1>3, <2>2 DEF Sound, Ready, Turn, TurnNobody, TurnPacket, TurnCallback, TurnAlarm,
         TurnFirst, Clear
    <2>4. Way = << host.pos >> /\ host.pos \in Step /\ host.hl.div = NoPkt
      BY <2>3 DEF TurnMessage
    <2>5. toHost = << host.pos >> /\ atSoc = << >> /\ toSoc = << >>
      <3>1. PICK m : m = host.pos  OBVIOUS
      <3>2. (toHost \o atSoc) \o toSoc = << m >>  BY <2>4, <3>1 DEF Way
      <3>3. \/ toHost = << m >> /\ atSoc = << >> /\ toSoc = << >>
            \/ toHost = << >> /\ atSoc = << m >> /\ toSoc = << >>
            \/ toHost = << >> /\ atSoc = << >> /\ toSoc = << m >>
        BY <1>4, <3>2, OneOnly
      <3> QED  BY <2>1, <3>1, <3>3
    <2>6. Head(toHost) = host.pos /\ Tail(toHost) = << >>  BY <2>5
    <2>7. takes = FALSE  BY <2>4 DEF Quantum
    <2> DEFINE u == Handle(host, host.pos)
    <2>8. /\ host' = [u EXCEPT !.hl = EndOfQuantum(u.hl, FALSE)]
          /\ answered' = answered \cup {host.pos} /\ Way' = << >>
      <3>1. host' = [u EXCEPT !.hl = EndOfQuantum(u.hl, FALSE)]
        BY <1>5, <2>6, <2>7, Zenon DEF Quantum
      <3>2. answered' = answered \cup {host.pos}
        BY <1>5, <2>4, <2>6 DEF Quantum
      <3>3. toHost' = << >> /\ toSoc' = << >>
        BY <1>5, <2>5, <2>6, <2>7 DEF Quantum
      <3>4. Way' = << >>  BY <1>2, <2>5, <3>3 DEF Way
      <3> QED  BY <3>1, <3>2, <3>4
    <2>9. Sound([u EXCEPT !.hl = EndOfQuantum(u.hl, FALSE)], << >>, Leaked, lost,
                answered \cup {host.pos})
      BY <1>1, <1>3, <2>1, <2>3, HandledReady
    <2> HIDE DEF u
    <2> QED  BY <1>2, <1>3, <2>8, <2>9
  <1>6. CASE ~ receives
    <2> DEFINE u == [host EXCEPT !.hl = EndOfQuantum(host.hl, takes)]
    <2>1. /\ host' = u /\ toHost' = toHost /\ answered' = answered
          /\ takes => host.hl.div # NoPkt
          /\ toSoc' = (IF takes THEN Append(toSoc, host.hl.div.id) ELSE toSoc)
      BY <1>6 DEF Quantum
    <2>2. IF takes THEN Way = << >> /\ Sound(u, << host.hl.div.id >>, Leaked, lost, answered)
          ELSE Sound(u, Way, Leaked, lost, answered)
      BY <1>1, <1>3, <2>1, TakenReady
    <2> HIDE DEF u
    <2>3. CASE takes
      <3>1. toHost = << >> /\ atSoc = << >> /\ toSoc = << >>
        BY <1>4, <2>2, <2>3, OneOnly DEF Way
      <3>2. toSoc' = << host.hl.div.id >>
        <4>1. Append(<< >>, host.hl.div.id) = << host.hl.div.id >>
          BY <1>1 DEF HostOK, Typed
        <4> QED  BY <2>1, <2>3, <3>1, <4>1
      <3>3. Way' = << host.hl.div.id >>
        <4>1. Way' = (<< >> \o << >>) \o << host.hl.div.id >>  BY <1>2, <2>1, <3>1, <3>2 DEF Way
        <4>2. host.hl.div.id \in Step  BY <1>1 DEF HostOK, Typed
        <4> QED  BY <4>1, <4>2
      <3> QED  BY <1>2, <1>3, <2>1, <2>2, <2>3, <3>3
    <2>4. CASE ~ takes
      <3>1. Way' = Way  BY <1>2, <2>1, <2>4 DEF Way
      <3> QED  BY <1>2, <1>3, <2>1, <2>2, <2>4, <3>1
    <2> QED  BY <2>3, <2>4
  <1> QED  BY <1>5, <1>6

\* The link gives the request up: nobody has the turn then.
LEMMA LostReady ==
  ASSUME NEW h, HostOK(h), NEW w, NEW e \in Nat, NEW l \in Nat, NEW ans,
         Sound(h, w, e, l, ans), TurnMessage(h, w, e)
  PROVE  Sound(h, << >>, e, l + 1, ans)
  <1>1. Queued(h, w, e, l) /\ TimerOff(h) /\ Passed(h, ans) /\ Leak(h, e, l)
    BY DEF Sound, Ready
  <1>2. TurnNobody(h, << >>)  BY DEF TurnMessage, TurnNobody, Clear
  <1>3. ~ h.hl.active
    <2>1. << h.pos >> # << >>  OBVIOUS
    <2> QED  BY <1>1, <2>1 DEF Queued, TurnMessage, TurnPacket, TurnNobody, Clear
  <1>4. l + 1 # 0 /\ h.hl.div = NoPkt  BY DEF TurnMessage
  <1>5. Queued(h, << >>, e, l + 1)  BY <1>1, <1>3, <1>4 DEF Queued
  <1>6. Leak(h, e, l + 1)  BY <1>1, <1>4 DEF Leak
  <1> QED  BY <1>1, <1>2, <1>5, <1>6 DEF Sound, Ready, Turn

LEMMA SocTrouble ==
  ASSUME TroubleInv, late' = 0, extra' = 0,
         \/ GiveUp
         \/ SocReceive
         \/ \E again \in BOOLEAN : SocAnswer(again)
         \/ \E msg \in {RESET, RESET_IND} : SocRestarts(msg)
  PROVE  Sound(host', Way', Leaked', lost', answered') /\ (errors' = 0 => away' = 0)
  <1>1. /\ TypeOK /\ HostOK(host) /\ lost \in Nat /\ Leaked \in Nat /\ extra \in Nat
    BY StartupConstants DEF TroubleInv, TypeInv, TypeOK, Leaked
  <1>2. ~ (\E msg \in {RESET, RESET_IND} : SocRestarts(msg))
    BY <1>1 DEF SocRestarts
  <1>3. /\ late = 0 /\ extra = 0 /\ errors' = errors /\ away' = away /\ Leaked' = Leaked
        /\ host' = host /\ answered' = answered
        /\ \A again \in BOOLEAN : SocAnswer(again) => again = FALSE
    BY <1>1, <1>2 DEF GiveUp, SocReceive, SocAnswer, Leaked
  <1>4. Sound(host, Way, Leaked, lost, answered) /\ (errors = 0 => away = 0)
    BY <1>3 DEF TroubleInv
  <1>5. /\ toHost \in Seq(Message) /\ atSoc \in Seq(Message) /\ toSoc \in Seq(Message)
    BY WaySeq DEF TroubleInv, TypeInv
  <1>6. toSoc # << >> \/ atSoc # << >>  BY <1>2 DEF GiveUp, SocReceive, SocAnswer
  <1>7. Way # << >>  BY <1>5, <1>6, OneOnly DEF Way
  <1>8. TurnMessage(host, Way, Leaked)
    BY <1>4, <1>7 DEF Sound, Ready, Turn, TurnNobody, TurnPacket, TurnCallback, TurnAlarm,
       TurnFirst, Clear
  <1> DEFINE m == host.pos
  <1>9. Way = << m >>  BY <1>8 DEF TurnMessage
  <1>10. \/ toHost = << m >> /\ atSoc = << >> /\ toSoc = << >>
         \/ toHost = << >> /\ atSoc = << m >> /\ toSoc = << >>
         \/ toHost = << >> /\ atSoc = << >> /\ toSoc = << m >>
    BY <1>5, <1>9, OneOnly DEF Way
  <1> HIDE DEF m
  <1>11. << m >> # << >> /\ Head(<< m >>) = m /\ Tail(<< m >>) = << >>
         /\ Append(<< >>, m) = << m >>  OBVIOUS
  <1>12. CASE GiveUp
    <2>1. toSoc = << m >> /\ toHost = << >> /\ atSoc = << >>
      BY <1>10, <1>12 DEF GiveUp
    <2>2. toSoc' = << >> /\ lost' = lost + 1 /\ toHost' = << >> /\ atSoc' = << >>
      BY <1>11, <1>12, <2>1 DEF GiveUp
    <2>3. Way' = << >>  BY <2>2 DEF Way
    <2>4. Sound(host, << >>, Leaked, lost + 1, answered)  BY <1>1, <1>4, <1>8, LostReady
    <2> QED  BY <1>3, <1>4, <2>2, <2>3, <2>4
  <1>13. CASE SocReceive
    <2>1. toSoc = << m >> /\ toHost = << >> /\ atSoc = << >>
      BY <1>10, <1>13 DEF SocReceive
    <2>2. toSoc' = << >> /\ lost' = lost /\ toHost' = << >> /\ atSoc' = << m >>
      BY <1>11, <1>13, <2>1 DEF SocReceive
    <2>3. Way' = << m >>  BY <2>2 DEF Way
    <2> QED  BY <1>3, <1>4, <1>9, <2>2, <2>3
  <1>14. CASE \E again \in BOOLEAN : SocAnswer(again)
    <2>1. PICK again \in BOOLEAN : SocAnswer(again)  BY <1>14
    <2>2. again = FALSE  BY <1>3, <2>1
    <2>3. atSoc = << m >> /\ toHost = << >> /\ toSoc = << >>
      BY <1>10, <2>1 DEF SocAnswer
    <2>4. toHost' = toHost \o << m >> /\ atSoc' = << >> /\ toSoc' = toSoc /\ lost' = lost
      BY <1>11, <2>1, <2>2, <2>3 DEF SocAnswer
    <2>5. Way' = << m >>  BY <2>3, <2>4 DEF Way
    <2> QED  BY <1>3, <1>4, <1>9, <2>4, <2>5
  <1> QED  BY <1>2, <1>12, <1>13, <1>14

LEMMA NextTrouble == TroubleInv /\ [Next]_vars => TroubleInv'
  <1> SUFFICES ASSUME TroubleInv, [Next]_vars PROVE TroubleInv'  OBVIOUS
  <1>1. TypeInv' /\ Opened(host)'  BY NextTypes, NextOpened DEF TroubleInv
  <1> SUFFICES ASSUME late' = 0, extra' = 0
               PROVE  Sound(host', Way', Leaked', lost', answered') /\ (errors' = 0 => away' = 0)
    BY <1>1 DEF TroubleInv
  <1>2. CASE Callback \/ ResetAlarm \/ Timer \/ (\E ok, repeated \in BOOLEAN : RetryInit(ok, repeated))
    BY <1>2, HostTrouble
  <1>3. CASE \E ok, repeated \in BOOLEAN : ReadError(ok, repeated)  BY <1>3, ErrorTrouble
  <1>4. CASE \E takes, receives \in BOOLEAN : Quantum(takes, receives)  BY <1>4, QuantumTrouble
  <1>5. CASE \/ GiveUp
             \/ SocReceive
             \/ \E again \in BOOLEAN : SocAnswer(again)
             \/ \E msg \in {RESET, RESET_IND} : SocRestarts(msg)
    BY <1>5, SocTrouble
  <1>6. CASE UNCHANGED vars
    <2>1. /\ Way' = Way /\ host' = host /\ errors' = errors /\ away' = away
          /\ Leaked' = Leaked /\ lost' = lost /\ answered' = answered /\ late = 0 /\ extra = 0
      BY <1>6 DEF vars, soc, Way, Leaked
    <2> QED  BY <2>1 DEF TroubleInv
  <1> QED  BY <1>2, <1>3, <1>4, <1>5, <1>6 DEF Next

----------------------------------------------------------------------------
(* The start-up when nothing is lost and nothing is late, but the SoC       *)
(* restarts and repeats itself: what the answers find, beside the chain.    *)

\* The request that waits is the current step's, and no assertion has failed.
InStep(h, ans) == /\ h.failure = "NONE"
                  /\ h.hl.bq # << >> => AskedId(h.hl) = h.pos
                  /\ TimerOff(h) /\ Passed(h, ans)

\* A reset indication that the host has still to read is older than its version:
\* q is on its way, s says that the SoC has told it and k that the host knows it.
Heard(q, s, k) ==
  /\ \A i, j \in 1..Len(q) : i < j => ~ (q[i] = VERSION /\ q[j] = RESET_IND)
  /\ ~ s => \A i \in 1..Len(q) : q[i] # VERSION
  /\ k => s /\ \A i \in 1..Len(q) : q[i] # RESET_IND

SteadyInv ==
  /\ ChainInv
  /\ lost = 0 /\ late = 0 /\ errors = 0 =>
       InStep(host, answered) /\ Heard(toHost, told, After(host))

LEMMA HeardTail ==
  ASSUME NEW q \in Seq(Message), q # << >>, NEW s \in BOOLEAN, NEW k \in BOOLEAN, Heard(q, s, k)
  PROVE  /\ Heard(Tail(q), s, k)
         /\ Head(q) = VERSION => Heard(Tail(q), s, TRUE)
         /\ Head(q) = RESET_IND => ~ k
  <1>1. /\ Len(q) \in Nat /\ 1 \in 1..Len(q) /\ Head(q) = q[1]
        /\ Len(Tail(q)) = Len(q) - 1
        /\ \A i \in 1..Len(Tail(q)) : Tail(q)[i] = q[i + 1]
    BY HeadTailProperties, EmptySeq, LenProperties
  <1> DEFINE v == Tail(q)
             n == Len(q)
  <1>2. \A i \in 1..Len(v) : i + 1 \in 1..n /\ 1 < i + 1 /\ v[i] = q[i + 1]
    BY <1>1
  <1>3. \A i, j \in 1..Len(v) : i < j => i + 1 < j + 1
    BY <1>1
  <1> HIDE DEF v
  <1>4. Heard(v, s, k)
    <2>1. \A i, j \in 1..Len(v) : i < j => ~ (v[i] = VERSION /\ v[j] = RESET_IND)
      BY <1>2, <1>3 DEF Heard
    <2>2. ~ s => \A i \in 1..Len(v) : v[i] # VERSION  BY <1>2 DEF Heard
    <2>3. k => s /\ \A i \in 1..Len(v) : v[i] # RESET_IND  BY <1>2 DEF Heard
    <2> QED  BY <2>1, <2>2, <2>3 DEF Heard
  <1>5. ASSUME Head(q) = VERSION PROVE Heard(v, s, TRUE)
    <2>1. s  BY <1>1, <1>5 DEF Heard
    <2>2. \A i \in 1..Len(v) : v[i] # RESET_IND
      <3> TAKE i \in 1..Len(v)
      <3>1. 1 \in 1..n /\ i + 1 \in 1..n /\ 1 < i + 1 /\ q[1] = VERSION
        BY <1>1, <1>2, <1>5
      <3>2. q[i + 1] # RESET_IND  BY <3>1 DEF Heard
      <3> QED  BY <1>2, <3>2
    <2> QED  BY <1>4, <2>1, <2>2 DEF Heard
  <1>6. Head(q) = RESET_IND => ~ k  BY <1>1 DEF Heard
  <1> QED  BY <1>4, <1>5, <1>6 DEF v

\* An answer comes behind what is on its way; s becomes z.
LEMMA HeardMore ==
  ASSUME NEW q \in Seq(Message), NEW m \in Message, NEW s \in BOOLEAN, NEW k \in BOOLEAN,
         Heard(q, s, k), NEW z \in BOOLEAN, s => z, m = VERSION => z,
         m = RESET_IND => ~ s /\ ~ k
  PROVE  Heard(Append(q, m), z, k)
  <1> DEFINE v == Append(q, m)
             n == Len(q)
  <1>1. VERSION # RESET_IND  BY StepFacts
  <1>2. n \in Nat /\ Len(v) = n + 1 /\ v[n + 1] = m /\ \A i \in 1..n : v[i] = q[i]
    BY AppendProperties, LenProperties
  <1>3. \A i \in 1..Len(v) : i \in 1..n \/ i = n + 1  BY <1>2
  <1>4. \A i, j \in 1..Len(v) : i < j => i \in 1..n  BY <1>2
  <1> HIDE DEF v
  <1>5. ASSUME NEW i \in 1..Len(v), NEW j \in 1..Len(v), i < j, v[i] = VERSION
        PROVE  v[j] # RESET_IND
    <2>1. i \in 1..n /\ q[i] = VERSION  BY <1>2, <1>4, <1>5
    <2>2. s  BY <2>1 DEF Heard
    <2>3. CASE j \in 1..n
      <3>1. q[j] # RESET_IND  BY <1>5, <2>1, <2>3 DEF Heard
      <3> QED  BY <1>2, <2>3, <3>1
    <2>4. CASE j = n + 1  BY <1>2, <2>2, <2>4
    <2> QED  BY <1>3, <2>3, <2>4
  <1>6. ~ z => \A i \in 1..Len(v) : v[i] # VERSION
    <2> SUFFICES ASSUME ~ z, NEW i \in 1..Len(v) PROVE v[i] # VERSION  OBVIOUS
    <2>1. ~ s /\ m # VERSION  OBVIOUS
    <2> QED  BY <1>2, <1>3, <2>1 DEF Heard
  <1>7. k => z /\ \A i \in 1..Len(v) : v[i] # RESET_IND
    <2> SUFFICES ASSUME k PROVE z /\ \A i \in 1..Len(v) : v[i] # RESET_IND  OBVIOUS
    <2>1. s /\ m # RESET_IND /\ \A i \in 1..n : q[i] # RESET_IND  BY DEF Heard
    <2> QED  BY <1>2, <1>3, <2>1
  <1> QED  BY <1>5, <1>6, <1>7 DEF Heard, v

\* The host's steps that read no message: it knows the version when it did.
Onward(u, h, ans) == InStep(u, ans) /\ (After(u) => After(h))

LEMMA AskInStep ==
  ASSUME NEW h, HostOK(h), HLInv(h.hl), Busy(h.hl), h.hl.bq = << >>, h.hl.nq = << >>,
         NEW ans, InStep(h, ans), h.pos \in Step
  PROVE  /\ InStep(Ask(h, h.pos), ans) /\ (After(Ask(h, h.pos)) <=> After(h))
         /\ h.pos = RESET => InStep(AskReset(h), ans) /\ (After(AskReset(h)) <=> After(h))
  <1> DEFINE p == h.pos
             r == Request(h.hl, TRUE, p)
             u == Ask(h, p)
             v == [u EXCEPT !.pending = TRUE]
  <1>1. p \in Nat  BY StepFacts
  <1>2. FreeBufs(h.hl) # {} /\ AskedId(r) = p
    <2> HIDE DEF p
    <2> QED  BY <1>1, RequestAlone
  <1> HIDE DEF r
  <1>3. u = [h EXCEPT !.hl = r]  BY <1>2 DEF Ask, r
  <1>5. Like(u, h) /\ u.hl = r /\ u.failure = h.failure
        /\ Like(v, h) /\ v.hl = r /\ v.failure = h.failure
    BY <1>3 DEF Like, HostOK, Host
  <1>6. p = RESET => AskReset(h) = v  BY <1>2 DEF AskReset
  <1> HIDE DEF u, v
  <1>7. ASSUME NEW x, Like(x, h), x.hl = r, x.failure = h.failure
        PROVE  InStep(x, ans) /\ (After(x) <=> After(h))
    <2>1. TimerOff(x) /\ Passed(x, ans)  BY <1>7, LikeFacts DEF InStep
    <2>2. After(x) <=> After(h)  BY <1>7 DEF Like, After
    <2>3. x.pos = p  BY <1>7 DEF Like
    <2> QED  BY <1>2, <1>7, <2>1, <2>2, <2>3 DEF InStep
  <1>8. InStep(u, ans) /\ (After(u) <=> After(h))  BY <1>5, <1>7
  <1>9. InStep(v, ans) /\ (After(v) <=> After(h))  BY <1>5, <1>7
  <1> QED  BY <1>6, <1>8, <1>9 DEF u, p

\* A callback is scheduled when the step has its answer.
LEMMA ScheduledInStep ==
  ASSUME NEW h, HostOK(h), h.failure = "NONE", h.hl.bq = << >>, NEW ans,
         h.timer => h.pos = RESET,
         \A p \in VERSION..STEPS - 1 : p <= h.pos => p \in ans \cup SKIPPED
  PROVE  InStep(ScheduleNext(h), ans) /\ (After(ScheduleNext(h)) => h.pos >= VERSION)
  <1> DEFINE u == ScheduleNext(h)
  <1>1. /\ u.hl = h.hl /\ u.pos = h.pos /\ u.timer = h.timer /\ u.failure = h.failure
        /\ h.pos \in Nat
    BY StepFacts DEF ScheduleNext, HostOK, Host
  <1> HIDE DEF u
  <1>2. After(u) => h.pos >= VERSION  BY <1>1 DEF After, VERSION
  <1>3. TimerOff(u)
    <2>1. ~ (RESET >= VERSION)  BY DEF RESET, VERSION
    <2> QED  BY <1>1, <1>2, <2>1 DEF TimerOff
  <1>4. Passed(u, ans)
    <2> SUFFICES ASSUME NEW p \in VERSION..STEPS - 1, p < u.pos \/ p = u.pos
                 PROVE  p \in ans \cup SKIPPED
      BY DEF Passed
    <2>1. p <= h.pos  BY <1>1, StepFacts DEF VERSION
    <2> QED  BY <2>1
  <1> QED  BY <1>1, <1>2, <1>3, <1>4 DEF InStep, u

LEMMA CallbackInStep ==
  ASSUME NEW h, HostOK(h), NEW w, NEW a, NEW t, Chain(h, w, a, t), h.calls > 0,
         NEW ans, InStep(h, ans)
  PROVE  Onward(NextStep([h EXCEPT !.calls = @ - 1]), h, ans)
  <1> DEFINE n == h.calls - 1
             p == h.pos + 1
             x == [h EXCEPT !.calls = n]
             v == [x EXCEPT !.pos = p]
             u == NextStep([h EXCEPT !.calls = @ - 1])
  <1>1. h \in Host /\ h.calls \in Nat /\ h.pos \in 0..STEPS /\ h.failure = "NONE"
        /\ h.pos \in Nat
    BY StepFacts DEF HostOK, Host, InStep
  <1>2. h.pos # DONE /\ ByCallback(h) /\ h.hl.nq = << >> /\ HLInv(h.hl) /\ Busy(h.hl)
    BY <1>1 DEF Chain, Driver, ByNothing, ByCallback, ByRequest, ByAlarm, ByRetry, Live, Ordered
  <1>3. n = 0 /\ p \in 0..STEPS /\ p # RESET /\ p \in Nat
    BY <1>1, <1>2, StepFacts DEF ByCallback, DONE, RESET
  <1> HIDE DEF n
  <1>4. HostOK(x)
    <2>1. n \in Nat /\ TRUE \in BOOLEAN  BY <1>3
    <2> QED  BY <2>1, FlagsOK, Zenon
  <1>5. HostOK(v)
    <2>1. 0 \in Nat /\ TRUE \in BOOLEAN /\ "NONE" \in {"NONE", "FIRST", "REINIT"}
          /\ "NONE" \in Failures /\ Typed(x.hl)
      BY <1>4 DEF Failures, HostOK
    <2> HIDE DEF x, p
    <2> QED  BY <1>3, <1>4, <2>1, FieldsOK, Zenon
  <1>6. /\ v.hl = h.hl /\ v.pos = p /\ v.calls = 0 /\ v.timer = h.timer /\ v.failure = h.failure
    BY <1>1, <1>3 DEF Host
  <1>7. u = Dispatch(v)
    <2>1. x = [h EXCEPT !.calls = @ - 1] /\ x.pos = h.pos  BY <1>1 DEF n, Host
    <2> QED  BY <1>2, <2>1 DEF NextStep
  <1> HIDE DEF x, v, u
  <1>8. v.timer => ~ (h.pos >= VERSION)
    BY <1>1, <1>6 DEF InStep, TimerOff, After, VERSION
  <1>9. After(v) => h.pos >= VERSION  BY <1>1, <1>6 DEF After, VERSION
  <1>10. h.pos >= VERSION => After(h)  BY <1>1 DEF After, VERSION
  <1>11. \A q \in VERSION..STEPS - 1 : q < p => q \in ans \cup SKIPPED
    <2> TAKE q \in VERSION..STEPS - 1
    <2>1. q \in Nat  BY StepFacts DEF VERSION
    <2>2. q < p => q < h.pos \/ (q = h.pos /\ h.calls > 0)  BY <1>1, <2>1
    <2> QED  BY <2>2 DEF InStep, Passed
  <1> HIDE DEF p
  <1>12. InStep(v, ans)
    <2>1. TimerOff(v)  BY <1>8, <1>9 DEF TimerOff
    <2>2. Passed(v, ans)  BY <1>6, <1>11 DEF Passed
    <2> QED  BY <1>1, <1>2, <1>6, <2>1, <2>2 DEF InStep, ByCallback
  <1>13. /\ RESET # DONE /\ RESET \notin SKIPPED /\ DONE \notin SKIPPED
    BY StepFacts, StartupConstants DEF RESET, DONE, VERSION
  <1>14. ASSUME p = DONE PROVE Onward(u, h, ans)
    <2>1. u = v  BY <1>6, <1>7, <1>13, <1>14 DEF Dispatch
    <2> QED  BY <1>9, <1>10, <1>12, <2>1 DEF Onward
  <1>15. ASSUME p \in SKIPPED PROVE Onward(u, h, ans)
    <2>1. u = ScheduleNext(v)  BY <1>3, <1>6, <1>7, <1>13, <1>15 DEF Dispatch
    <2>2. h.pos >= VERSION
      BY <1>1, <1>15, StepFacts, StartupConstants DEF p, VERSION
    <2>3. \A q \in VERSION..STEPS - 1 : q <= v.pos => q \in ans \cup SKIPPED
      <3> TAKE q \in VERSION..STEPS - 1
      <3>1. q \in Nat  BY StepFacts DEF VERSION
      <3>2. q <= p => q < p \/ q = p  BY <1>3, <3>1
      <3> QED  BY <1>6, <1>11, <1>15, <3>2
    <2>4. InStep(ScheduleNext(v), ans)
      BY <1>2, <1>5, <1>6, <1>8, <1>12, <2>2, <2>3, ScheduledInStep DEF InStep, ByCallback
    <2> QED  BY <1>10, <2>1, <2>2, <2>4 DEF Onward
  <1>16. ASSUME p # DONE, p \notin SKIPPED PROVE Onward(u, h, ans)
    <2>1. u = Ask(v, v.pos)  BY <1>3, <1>6, <1>7, <1>16 DEF Dispatch
    <2>2. v.pos \in Step  BY <1>3, <1>6, <1>16, StepFacts DEF Step, DONE
    <2>3. v.hl.bq = << >> /\ v.hl.nq = << >> /\ HLInv(v.hl) /\ Busy(v.hl)
      BY <1>2, <1>6 DEF ByCallback
    <2>4. InStep(Ask(v, v.pos), ans) /\ (After(Ask(v, v.pos)) <=> After(v))
      BY <1>5, <1>12, <2>2, <2>3, AskInStep
    <2> QED  BY <1>9, <1>10, <2>1, <2>4 DEF Onward
  <1> QED  BY <1>14, <1>15, <1>16 DEF u

LEMMA ResetAlarmInStep ==
  ASSUME NEW h, HostOK(h), NEW w, NEW a, NEW t, Chain(h, w, a, t), h.resetAlarm,
         NEW ans, InStep(h, ans)
  PROVE  Onward(SocReset([h EXCEPT !.resetAlarm = FALSE]), h, ans)
  <1> DEFINE x == [h EXCEPT !.resetAlarm = FALSE]
             v == [x EXCEPT !.timer = TRUE]
             u == SocReset(x)
  <1>1. h \in Host /\ Live(h, w, a, t) /\ ByAlarm(h) /\ h.failure = "NONE"
    BY DEF Chain, Driver, ByNothing, ByCallback, ByRequest, ByAlarm, ByRetry, HostOK, InStep
  <1>2. h.pos = RESET /\ h.hl.nq = << >> /\ h.hl.bq = << >> /\ HLInv(h.hl) /\ Busy(h.hl)
    BY <1>1 DEF Live, Ordered, Fresh, ByAlarm, Chain
  <1>3. HostOK(v)
    <2>1. TRUE \in BOOLEAN /\ FALSE \in BOOLEAN  OBVIOUS
    <2>2. HostOK(x)  BY <2>1, FlagsOK, Zenon
    <2> HIDE DEF x
    <2> QED  BY <2>1, <2>2, FlagsOK, Zenon
  <1>4. v.hl = h.hl /\ v.pos = h.pos /\ v.calls = h.calls /\ v.failure = h.failure
    BY <1>1 DEF Host
  <1>5. u = AskReset(v) \/ u = ScheduleNext(v)  BY DEF SocReset
  <1> HIDE DEF x, v, u
  <1>6. ~ (RESET >= VERSION) /\ RESET \in Step /\ ~ (RESET > VERSION) /\ RESET # VERSION
        /\ \A p \in VERSION..STEPS - 1 : ~ (p <= RESET) /\ ~ (p < RESET) /\ p # RESET
    BY StepFacts DEF RESET, VERSION
  <1>7. ~ After(v) /\ InStep(v, ans)
    <2>1. ~ After(v)  BY <1>2, <1>4, <1>6 DEF After
    <2>2. Passed(v, ans)  BY <1>2, <1>4, <1>6 DEF Passed
    <2> QED  BY <1>1, <1>2, <1>4, <2>1, <2>2 DEF InStep, TimerOff
  <1>8. InStep(AskReset(v), ans) /\ ~ After(AskReset(v))
    <2>1. v.pos = RESET /\ v.pos \in Step /\ HLInv(v.hl) /\ Busy(v.hl) /\ v.hl.bq = << >>
          /\ v.hl.nq = << >>
      BY <1>2, <1>4, <1>6
    <2> QED  BY <1>3, <1>7, <2>1, AskInStep
  <1>9. InStep(ScheduleNext(v), ans) /\ ~ After(ScheduleNext(v))
    <2>1. v.failure = "NONE" /\ v.hl.bq = << >> /\ v.pos = RESET  BY <1>1, <1>2, <1>4
    <2>2. \A p \in VERSION..STEPS - 1 : p <= v.pos => p \in ans \cup SKIPPED
      BY <1>6, <2>1
    <2> QED  BY <1>3, <1>6, <2>1, <2>2, ScheduledInStep
  <1> QED  BY <1>5, <1>8, <1>9 DEF Onward, u, x

\* The timer is not running any more when nothing is left to do.
LEMMA TimerInStep ==
  ASSUME NEW h, HostOK(h), Chain(h, << >>, << >>, << >>), h.timer,
         ~ h.hl.active, h.calls = 0, ~ h.resetAlarm, h.retry = "NONE",
         NEW ans, InStep(h, ans)
  PROVE  FALSE
  <1>1. Live(h, << >>, << >>, << >>)  BY DEF Chain, InStep
  <1>2. h.pos # DONE
    BY StepFacts DEF InStep, TimerOff, After, DONE, VERSION
  <1>3. ByRequest(h)
    BY <1>2 DEF Chain, Driver, ByCallback, ByRequest, ByAlarm, ByRetry
  <1>4. HeadWaits(h.hl)  BY <1>3 DEF Chain, Busy, HeadWaits, ByRequest
  <1>5. h.hl.div = NoPkt  BY DEF Chain, HLInv
  <1>6. Has({AskedId(h.hl)}, << >>)  BY <1>1, <1>4, <1>5 DEF Live, Flow
  <1> QED  BY <1>6, NoMarks

LEMMA RetryInStep ==
  ASSUME NEW h, HostOK(h), NEW w, NEW a, NEW t, Chain(h, w, a, t), h.retry # "NONE",
         NEW ok \in BOOLEAN, NEW ans, InStep(h, ans)
  PROVE  Onward(InitTransport(h, h.retry, ok), h, ans)
  <1> DEFINE g == ProtoInit(h.hl)
             x == [h EXCEPT !.hl = g, !.retry = "NONE"]
             u == IF ok THEN [x EXCEPT !.resetAlarm = TRUE] ELSE [x EXCEPT !.retry = "FIRST"]
  <1>1. h \in Host /\ h.hl \in HLState /\ Live(h, w, a, t) /\ ByRetry(h)
    BY DEF Chain, Driver, ByNothing, ByCallback, ByRequest, ByAlarm, ByRetry, HostOK, HLInv, InStep
  <1>2. h.pos = RESET /\ h.retry = "FIRST" /\ Fresh(h, a, t)
    BY <1>1 DEF Live, Ordered, Fresh
  <1>3. g = h.hl
    BY <1>1, <1>2 DEF ProtoInit, HLState, ByRetry, Live, Ordered, Fresh
  <1> HIDE DEF g
  <1>4. InitTransport(h, h.retry, ok) = u
    <2>1. x.pos = RESET /\ RESET # DONE /\ RESET \notin SKIPPED
      BY <1>1, <1>2, StepFacts, StartupConstants DEF Host, RESET, DONE, VERSION
    <2>2. Dispatch(x) = [x EXCEPT !.resetAlarm = TRUE]  BY <2>1 DEF Dispatch
    <2> QED  BY <1>2, <2>2 DEF InitTransport, g
  <1>5. /\ u.hl = h.hl /\ u.pos = h.pos /\ u.calls = h.calls /\ u.timer = h.timer
        /\ u.failure = h.failure
    BY <1>1, <1>3 DEF Host
  <1> HIDE DEF u
  <1>6. InStep(u, ans) /\ (After(u) <=> After(h))
    BY <1>5 DEF InStep, TimerOff, After, Passed
  <1> QED  BY <1>4, <1>6 DEF Onward

\* What the host knows less, it may be told again.
LEMMA HeardLess ==
  ASSUME NEW q, NEW s, NEW k, Heard(q, s, k), NEW z, z => k
  PROVE  Heard(q, s, z)
  BY DEF Heard

LEMMA InStepMore ==
  ASSUME NEW h, NEW ans, InStep(h, ans), NEW more, ans \subseteq more,
         NEW u, u.hl = h.hl, u.pos = h.pos, u.calls = h.calls, u.timer = h.timer,
         u.failure = h.failure
  PROVE  InStep(u, more) /\ (After(u) <=> After(h))
  <1>1. After(u) <=> After(h)  BY DEF After
  <1>2. TimerOff(u)  BY <1>1 DEF InStep, TimerOff
  <1>3. Passed(u, more)  BY DEF InStep, Passed
  <1> QED  BY <1>1, <1>2, <1>3 DEF InStep

\* The first message of q is handled; u is the host then.
Informed(u, q, s, ans) == /\ InStep(u, ans \cup ({Head(q)} \cap Step))
                          /\ Heard(Tail(q), s, After(u))

\* A request is answered: y is the host when the request is finished.
\* What is given up is not heard.
LEMMA HeardNone ==
  ASSUME NEW q, NEW s, NEW k, Heard(q, s, k)
  PROVE  Heard(<< >>, s, k)
  <1>1. Len(<< >>) = 0  OBVIOUS
  <1> QED  BY <1>1 DEF Heard

LEMMA AnswerInformed ==
  ASSUME NEW y, HostOK(y), y.failure = "NONE", y.hl.bq = << >>, NEW ans,
         y.timer => y.pos = RESET, NEW q \in Seq(Message), NEW s \in BOOLEAN,
         \A p \in VERSION..STEPS - 1 : p < y.pos => p \in ans \cup SKIPPED,
         Head(q) = y.pos, y.pos \in Step,
         Heard(Tail(q), s, y.pos >= VERSION)
  PROVE  Informed(ScheduleNext(y), q, s, ans)
  <1> DEFINE more == ans \cup ({Head(q)} \cap Step)
  <1>1. y.pos \in Nat /\ y.pos \in more  BY StepFacts
  <1>2. ans \subseteq more  OBVIOUS
  <1> HIDE DEF more
  <1>3. \A p \in VERSION..STEPS - 1 : p <= y.pos => p \in more \cup SKIPPED
    <2> TAKE p \in VERSION..STEPS - 1
    <2>1. p \in Nat  BY StepFacts DEF VERSION
    <2>2. p <= y.pos => p < y.pos \/ p = y.pos  BY <1>1, <2>1
    <2> QED  BY <1>1, <1>2, <2>2
  <1>4. InStep(ScheduleNext(y), more) /\ (After(ScheduleNext(y)) => y.pos >= VERSION)
    BY <1>3, ScheduledInStep
  <1>5. Heard(Tail(q), s, After(ScheduleNext(y)))  BY <1>4, HeardLess
  <1> QED  BY <1>4, <1>5 DEF Informed, more

LEMMA HandleInStep ==
  ASSUME NEW h, HostOK(h), NEW w \in Seq(Message), w # << >>, NEW a, NEW t,
         Chain(h, w, a, t), NEW ans, InStep(h, ans),
         NEW q \in Seq(Message), q # << >>, Head(q) = Head(w),
         NEW s \in BOOLEAN, Heard(q, s, After(h))
  PROVE  Informed(Handle(h, Head(w)), q, s, ans)
  <1> DEFINE msg == Head(w)
             u == Handle(h, msg)
             more == ans \cup ({msg} \cap Step)
  <1>1. /\ h \in Host /\ Live(h, w, a, t) /\ h.failure = "NONE" /\ h.pos \in Nat
        /\ msg \in Message
    BY StepFacts, HeadTailProperties DEF HostOK, Host, Chain, InStep
  <1>2. /\ RESET # RESET_IND /\ VERSION # RESET /\ VERSION # RESET_IND
        /\ VERSION \in Later /\ RESET_IND \notin Later /\ RESET \notin Later
        /\ Message = {RESET, RESET_IND} \cup Later
        /\ Later \subseteq Step /\ DONE \notin Later
    BY StepFacts DEF RESET, RESET_IND, VERSION, Later, Message, Step, DONE
  <1>3. /\ Heard(Tail(q), s, After(h))
        /\ msg = VERSION => Heard(Tail(q), s, TRUE)
        /\ msg = RESET_IND => ~ After(h)
    <2>1. After(h) \in BOOLEAN  BY DEF After
    <2>2. /\ Heard(Tail(q), s, After(h))
          /\ Head(q) = VERSION => Heard(Tail(q), s, TRUE)
          /\ Head(q) = RESET_IND => ~ After(h)
      BY <2>1, HeardTail
    <2> QED  BY <2>2
  <1>4. ans \subseteq more  OBVIOUS
  <1>5. ASSUME NEW y, InStep(y, more) /\ (After(y) <=> After(h)), u = y
        PROVE  Informed(u, q, s, ans)
    <2> HIDE DEF u
    <2>1. Heard(Tail(q), s, After(u))  BY <1>3, <1>5, HeardLess
    <2> QED  BY <1>5, <2>1 DEF Informed
  <1>6. ASSUME msg = RESET_IND PROVE Informed(u, q, s, ans)
    <2> DEFINE y == [h EXCEPT !.respProcessed = TRUE]
    <2>1. h.pos <= VERSION  BY <1>1, <1>3, <1>6 DEF After, VERSION
    <2>2. u = y  BY <1>2, <1>6, <2>1 DEF Handle, HandleResetIndication
    <2>3. y.hl = h.hl /\ y.pos = h.pos /\ y.calls = h.calls /\ y.timer = h.timer
          /\ y.failure = h.failure
      BY <1>1 DEF Host
    <2> HIDE DEF y, u, more
    <2>4. InStep(y, more) /\ (After(y) <=> After(h))  BY <1>4, <2>3, InStepMore
    <2> QED  BY <1>5, <2>2, <2>4
  <1>7. ASSUME msg = RESET, ~ h.pending PROVE Informed(u, q, s, ans)
    <2> DEFINE y == [h EXCEPT !.pending = FALSE]
    <2>1. u = y  BY <1>2, <1>7 DEF Handle, ResetResponse
    <2>2. y.hl = h.hl /\ y.pos = h.pos /\ y.calls = h.calls /\ y.timer = h.timer
          /\ y.failure = h.failure
      BY <1>1 DEF Host
    <2> HIDE DEF y, u, more
    <2>3. InStep(y, more) /\ (After(y) <=> After(h))  BY <1>4, <2>2, InStepMore
    <2> QED  BY <1>5, <2>1, <2>3
  <1> DEFINE y(c) == [h EXCEPT !.hl = MarkFinished(h.hl), !.timer = c, !.pending = FALSE]
  <1>8. ASSUME h.hl.bq # << >>, msg \in Later \/ AskedId(h.hl) = RESET, NEW c \in BOOLEAN,
               msg = h.pos, c => h.pos = RESET, Heard(Tail(q), s, h.pos >= VERSION)
        PROVE  Informed(ScheduleNext(y(c)), q, s, ans)
    <2> DEFINE x == y(c)
    <2>1. FALSE \in BOOLEAN  OBVIOUS
    <2>2. HostOK(x) /\ x.failure = "NONE" /\ x.pos = h.pos /\ ByNothing(x) /\ h.pos # DONE
      BY <1>1, <1>8, <2>1, FinishChain
    <2>3. x.timer = c  BY <1>1 DEF Host
    <2> HIDE DEF x
    <2>4. \A p \in VERSION..STEPS - 1 : p < x.pos => p \in ans \cup SKIPPED
      BY <2>2 DEF InStep, Passed
    <2>5. Head(q) = x.pos /\ x.pos \in Step
      <3>1. h.pos \in 0..STEPS  BY <1>1 DEF Host
      <3>2. h.pos \in Step  BY <2>2, <3>1, StepFacts DEF Step, DONE
      <3> QED  BY <1>8, <2>2, <3>2
    <2>6. Informed(ScheduleNext(x), q, s, ans)
      BY <1>8, <2>2, <2>3, <2>4, <2>5, AnswerInformed DEF ByNothing
    <2> QED  BY <2>6 DEF x
  <1>9. ASSUME msg = RESET, h.pending PROVE Informed(u, q, s, ans)
    <2>1. h.hl.bq # << >> /\ AskedId(h.hl) = RESET /\ h.pos = RESET
      BY <1>1, <1>9 DEF Live, Ordered
    <2>2. h.timer \in BOOLEAN  BY <1>1 DEF Host
    <2>3. ~ (h.pos >= VERSION)  BY <2>1 DEF RESET, VERSION
    <2>4. Heard(Tail(q), s, h.pos >= VERSION)  BY <1>3, <2>3, HeardLess
    <2> DEFINE x == y(h.timer)
    <2>5. Informed(ScheduleNext(x), q, s, ans)  BY <1>8, <1>9, <2>1, <2>2, <2>4
    <2>6. u = HandleResetResponse(x, TRUE) /\ x.pos = h.pos
      <3> DEFINE z == [h EXCEPT !.pending = FALSE]
      <3>1. Finish(z) = x /\ x.pos = h.pos  BY <1>1 DEF Finish, Host
      <3>2. ResetResponse(h) = HandleResetResponse(Finish(z), TRUE)
        BY <1>9 DEF ResetResponse
      <3> HIDE DEF x, z
      <3> QED  BY <1>2, <1>9, <3>1, <3>2 DEF Handle
    <2> HIDE DEF x, u
    <2>7. HandleResetResponse(x, TRUE) = ScheduleNext(x)
      BY <2>1, <2>6 DEF HandleResetResponse, RESET
    <2> QED  BY <2>5, <2>6, <2>7
  <1>10. ASSUME msg \in Later PROVE Informed(u, q, s, ans)
    <2>1. h.hl.bq # << >> /\ AskedId(h.hl) = msg /\ ~ h.pending  BY <1>1, <1>10, AnswerAwaited
    <2>2. msg = h.pos  BY <2>1 DEF InStep
    <2>3. /\ h.timer \in BOOLEAN /\ h.pending \in BOOLEAN /\ h.pending = FALSE
          /\ h.pos >= VERSION /\ h.pos # DONE
      BY <1>1, <1>2, <1>10, <2>1, <2>2 DEF Host, Later, VERSION
    <2>4. Finish(h) = y(h.timer) /\ [Finish(h) EXCEPT !.timer = FALSE] = y(FALSE)
      BY <1>1, <2>3 DEF Finish, Host
    <2> HIDE DEF y, msg
    <2>5. ASSUME msg = VERSION PROVE Informed(u, q, s, ans)
      <3>1. u = ScheduleNext(y(FALSE))  BY <1>2, <2>4, <2>5 DEF Handle, VersionResponse
      <3>2. Heard(Tail(q), s, h.pos >= VERSION)  BY <1>3, <2>5, HeardLess
      <3>3. FALSE \in BOOLEAN  OBVIOUS
      <3>4. Informed(ScheduleNext(y(FALSE)), q, s, ans)
        BY <1>8, <1>10, <2>1, <2>2, <3>2, <3>3
      <3> HIDE DEF u
      <3> QED  BY <3>1, <3>4
    <2>6. ASSUME msg # VERSION PROVE Informed(u, q, s, ans)
      <3>1. After(h)  BY <1>1, <2>2, <2>3, <2>6 DEF After, VERSION
      <3>2. ~ h.timer  BY <3>1 DEF InStep, TimerOff
      <3>3. u = StepResponse(h, msg)  BY <1>2, <1>10, <2>6 DEF Handle
      <3>4. StepResponse(h, msg) = ScheduleNext(y(h.timer))
        BY <2>2, <2>3, <2>4 DEF StepResponse
      <3>5. Heard(Tail(q), s, h.pos >= VERSION)  BY <1>3, <3>1, HeardLess
      <3>6. Informed(ScheduleNext(y(h.timer)), q, s, ans)
        BY <1>8, <1>10, <2>1, <2>2, <2>3, <3>2, <3>5
      <3> HIDE DEF u
      <3> QED  BY <3>3, <3>4, <3>6
    <2> QED  BY <2>5, <2>6
  <1> HIDE DEF u, y, more
  <1>11. msg = RESET_IND \/ msg = RESET \/ msg \in Later  BY <1>1, <1>2
  <1>12. Informed(u, q, s, ans)  BY <1>6, <1>7, <1>9, <1>10, <1>11
  <1> QED  BY <1>12 DEF u, msg

\* The end of a quantum changes neither the queue nor what is asked for.
LEMMA EndInStep ==
  ASSUME NEW h, HostOK(h), NEW w, NEW a, NEW t, Chain(h, w, a, t), h.hl.nq = << >>,
         NEW ans, InStep(h, ans), NEW takes \in BOOLEAN, takes => h.hl.div # NoPkt
  PROVE  Onward([h EXCEPT !.hl = EndOfQuantum(h.hl, takes)], h, ans)
  <1> DEFINE g == h.hl
             r == EndOfQuantum(g, takes)
             k == [g EXCEPT !.div = NoPkt]
             u == [h EXCEPT !.hl = r]
  <1>1. h \in Host /\ HLInv(g) /\ Busy(g) /\ g \in HLState  BY DEF HostOK, Chain, Typed
  <1>2. r.bq = g.bq /\ (g.bq # << >> => AskedId(r) = AskedId(g))
    <2>1. CASE takes
      <3>1. HLInv(k) /\ k.bq = g.bq /\ k.nq = << >> /\ k.pool = g.pool /\ k.div = NoPkt
        BY <1>1, <2>1, TakenAlone
      <3>2. r = TxReady(k)  BY <2>1, <3>1 DEF EndOfQuantum, TxIsReady
      <3> HIDE DEF k, r, g
      <3>3. r.bq = k.bq /\ (k.bq # << >> => AskedId(r) = AskedId(k))
        BY <3>1, <3>2, TxReadyAlone
      <3>4. AskedId(k) = AskedId(g)  BY <3>1 DEF AskedId
      <3> QED  BY <3>1, <3>3, <3>4
    <2>2. CASE ~ takes /\ g.div = NoPkt
      <3>1. r = TxReady(g)  BY <2>2 DEF EndOfQuantum, TxIsReady
      <3> HIDE DEF r
      <3>2. TxReady(g).bq = g.bq /\ (g.bq # << >> => AskedId(TxReady(g)) = AskedId(g))
        BY <1>1, <2>2, TxReadyAlone
      <3> QED  BY <3>1, <3>2
    <2>3. CASE ~ takes /\ g.div # NoPkt
      <3>1. r = g  BY <2>3 DEF EndOfQuantum, TxIsReady
      <3> HIDE DEF r
      <3> QED  BY <3>1
    <2> QED  BY <2>1, <2>2, <2>3
  <1> HIDE DEF r
  <1>3. u.hl = r /\ u.pos = h.pos /\ u.calls = h.calls /\ u.timer = h.timer
        /\ u.failure = h.failure
    BY <1>1 DEF Host
  <1> HIDE DEF u
  <1>4. After(u) <=> After(h)  BY <1>3 DEF After
  <1>5. TimerOff(u) /\ Passed(u, ans)  BY <1>3, <1>4 DEF InStep, TimerOff, Passed
  <1>6. InStep(u, ans)  BY <1>2, <1>3, <1>5 DEF InStep
  <1> QED  BY <1>4, <1>6 DEF Onward, u, r

LEMMA InitSteady == Init => SteadyInv
  <1> SUFFICES ASSUME Init PROVE SteadyInv  OBVIOUS
  <1>1. ChainInv  BY InitChain
  <1>2. /\ host.hl.bq = << >> /\ host.pos = RESET /\ host.calls = 0 /\ ~ host.timer
        /\ host.failure = "NONE" /\ answered = {} /\ toHost = << >> /\ told = FALSE
    BY DEF Init, HLInit
  <1>3. ~ After(host)  BY <1>2 DEF After, RESET, VERSION
  <1>4. \A p \in VERSION..STEPS - 1 : ~ (p < RESET) /\ p # RESET
    BY StepFacts DEF VERSION, RESET
  <1>5. InStep(host, answered)  BY <1>2, <1>4 DEF InStep, TimerOff, Passed
  <1>6. Heard(toHost, told, After(host))
    <2>1. Len(toHost) = 0  BY <1>2
    <2> QED  BY <1>3, <2>1 DEF Heard
  <1> QED  BY <1>1, <1>5, <1>6 DEF SteadyInv

LEMMA HostSteady ==
  ASSUME SteadyInv, lost' = 0, late' = 0, errors' = 0,
         Callback \/ ResetAlarm \/ Timer \/ (\E ok, repeated \in BOOLEAN : RetryInit(ok, repeated))
  PROVE  InStep(host', answered') /\ Heard(toHost', told', After(host'))
  <1>1. TypeOK /\ HostOK(host) /\ late \in Nat
    BY StartupConstants DEF SteadyInv, ChainInv, TypeInv, TypeOK
  <1>2. late = 0 /\ lost = 0 /\ errors = 0 /\ (Timer => Quiet)
    BY <1>1 DEF Callback, ResetAlarm, Timer, RetryInit
  <1>3. /\ Chain(host, Way, atSoc, toSoc) /\ InStep(host, answered)
        /\ Heard(toHost, told, After(host))
    BY <1>2 DEF SteadyInv, ChainInv
  <1>4. answered' = answered /\ toHost' \in {toHost, << >>} /\ told' = told
    BY DEF Callback, ResetAlarm, Timer, RetryInit, PortRestarts, soc
  <1>5. Onward(host', host, answered)
    <2>1. CASE Callback  BY <1>1, <1>3, <2>1, CallbackInStep DEF Callback
    <2>2. CASE ResetAlarm  BY <1>1, <1>3, <2>2, ResetAlarmInStep DEF ResetAlarm
    <2>3. CASE Timer
      <3>1. /\ toSoc = << >> /\ atSoc = << >> /\ Way = << >> /\ host.timer
            /\ ~ host.hl.active /\ host.calls = 0 /\ ~ host.resetAlarm /\ host.retry = "NONE"
        <4>1. Quiet /\ host.timer  BY <1>2, <2>3 DEF Timer
        <4>2. host.retry = "NONE"
          BY <1>1, <1>3, <4>1, ForgetChain DEF SteadyInv, ChainInv, Opened, InStep
        <4> QED  BY <4>1, <4>2 DEF Quiet, Way
      <3>2. Chain(host, << >>, << >>, << >>)  BY <1>3, <3>1
      <3> QED  BY <1>1, <1>3, <3>1, <3>2, TimerInStep
    <2>4. CASE \E ok, repeated \in BOOLEAN : RetryInit(ok, repeated)
      <3>1. PICK ok \in BOOLEAN, repeated \in BOOLEAN : RetryInit(ok, repeated)  BY <2>4
      <3>2. host.retry # "NONE" /\ host' = InitTransport(host, host.retry, ok)
        BY <3>1 DEF RetryInit
      <3>3. Onward(InitTransport(host, host.retry, ok), host, answered)
        BY <1>1, <1>3, <3>2, RetryInStep
      <3> QED  BY <3>2, <3>3
    <2> QED  BY <2>1, <2>2, <2>3, <2>4
  <1>6. Heard(toHost', told, After(host'))
    <2>1. Heard(toHost, told, After(host'))  BY <1>3, <1>5, HeardLess DEF Onward
    <2> QED  BY <1>4, <2>1, HeardNone
  <1> QED  BY <1>4, <1>5, <1>6 DEF Onward

LEMMA QuantumSteady ==
  ASSUME SteadyInv, lost' = 0, late' = 0, errors' = 0,
         NEW takes \in BOOLEAN, NEW receives \in BOOLEAN, Quantum(takes, receives)
  PROVE  InStep(host', answered') /\ Heard(toHost', told', After(host'))
  <1> DEFINE h == IF receives THEN Handle(host, Head(toHost)) ELSE host
             more == answered'
  <1>1. /\ TypeOK /\ HostOK(host) /\ ChainInv
        /\ toHost \in Seq(Message) /\ atSoc \in Seq(Message) /\ toSoc \in Seq(Message)
        /\ Way \in Seq(Message) /\ told \in BOOLEAN
    BY WaySeq DEF SteadyInv, ChainInv, TypeInv, TypeOK
  <1>2. lost = 0 /\ late = 0 /\ errors = 0  BY DEF Quantum
  <1>3. /\ Chain(host, Way, atSoc, toSoc) /\ InStep(host, answered) /\ host.failure = "NONE"
        /\ Heard(toHost, told, After(host))
    BY <1>2 DEF SteadyInv, ChainInv, InStep
  <1>4. /\ toHost' = (IF receives THEN Tail(toHost) ELSE toHost) /\ told' = told
        /\ (takes => host.hl.div # NoPkt) /\ (receives => toHost # << >>)
        /\ host' = [h EXCEPT !.hl = EndOfQuantum(h.hl, takes)]
        /\ answered' = answered \cup (IF receives THEN {Head(toHost)} \cap Step ELSE {})
    BY DEF Quantum
  <1>5. /\ InStep(h, more) /\ Heard(toHost', told, After(h)) /\ HostOK(h)
        /\ h.hl.nq = << >> /\ h.hl.div = host.hl.div
        /\ \E w : Chain(h, w, atSoc, toSoc)
    <2>1. CASE receives
      <3>1. toHost # << >> /\ Way # << >> /\ Head(Way) = Head(toHost)
        <4>1. toHost # << >>  BY <1>4, <2>1
        <4>2. /\ Join(Join(toHost, atSoc), toSoc) # << >>
              /\ Head(Join(Join(toHost, atSoc), toSoc)) = Head(toHost)
          BY <1>1, <4>1, ConcatThree
        <4> QED  BY <4>1, <4>2, Zenon DEF Join, Way
      <3>2. h = Handle(host, Head(Way))  BY <2>1, <3>1
      <3>3. Informed(Handle(host, Head(Way)), toHost, told, answered)
        BY <1>1, <1>3, <3>1, HandleInStep
      <3>4. /\ Chain(Handle(host, Head(Way)), Tail(Way), atSoc, toSoc)
            /\ HostOK(Handle(host, Head(Way)))
            /\ Handle(host, Head(Way)).hl.div = host.hl.div
            /\ Handle(host, Head(Way)).hl.nq = << >>
        BY <1>1, <1>3, <3>1, HandleChain
      <3> HIDE DEF h
      <3>5. InStep(h, answered') /\ Heard(toHost', told, After(h))
        BY <1>4, <2>1, <3>2, <3>3 DEF Informed
      <3> QED  BY <3>2, <3>4, <3>5
    <2>2. CASE ~ receives
      <3>1. h = host /\ answered' = answered /\ toHost' = toHost  BY <1>4, <2>2
      <3> HIDE DEF h
      <3>2. host.hl.nq = << >>  BY <1>3 DEF Chain, Live, Ordered
      <3> QED  BY <1>1, <1>3, <3>1, <3>2
    <2> QED  BY <2>1, <2>2
  <1> HIDE DEF h, more
  <1>6. PICK w : Chain(h, w, atSoc, toSoc)  BY <1>5
  <1>7. takes => h.hl.div # NoPkt  BY <1>4, <1>5
  <1>8. Onward([h EXCEPT !.hl = EndOfQuantum(h.hl, takes)], h, more)
    BY <1>5, <1>6, <1>7, EndInStep
  <1>9. Onward(host', h, more)  BY <1>4, <1>8
  <1>10. Heard(toHost', told', After(host'))
    BY <1>4, <1>5, <1>9, HeardLess DEF Onward
  <1> QED  BY <1>9, <1>10 DEF Onward, more

LEMMA SocSteady ==
  ASSUME SteadyInv, lost' = 0, late' = 0, errors' = 0,
         \/ SocReceive
         \/ \E again \in BOOLEAN : SocAnswer(again)
         \/ \E msg \in {RESET, RESET_IND} : SocRestarts(msg)
  PROVE  InStep(host', answered') /\ Heard(toHost', told', After(host'))
  <1>1. /\ TypeOK /\ host' = host /\ answered' = answered
        /\ toHost \in Seq(Message) /\ atSoc \in Seq(Step) /\ told \in BOOLEAN
        /\ RESET \in Message /\ RESET_IND \in Message /\ Step \subseteq Message
    BY StepFacts DEF SteadyInv, ChainInv, TypeInv, TypeOK, SocReceive, SocAnswer, SocRestarts,
       Message
  <1>2. lost \in Nat /\ late \in Nat /\ Len(atSoc) \in Nat
    BY <1>1, StartupConstants DEF TypeOK
  <1>3. lost = 0 /\ late = 0 /\ errors = 0
    BY <1>2 DEF SocReceive, SocAnswer, SocRestarts
  <1>4. InStep(host, answered) /\ Heard(toHost, told, After(host))  BY <1>3 DEF SteadyInv
  <1> DEFINE k == After(host)
  <1>5. k \in BOOLEAN /\ k = After(host)  BY DEF After
  <1> HIDE DEF k
  <1> SUFFICES Heard(toHost', told', k)  BY <1>1, <1>4, <1>5
  <1>6. Heard(toHost, told, k)  BY <1>4, <1>5
  <1>7. RESET # VERSION /\ RESET # RESET_IND /\ RESET_IND \notin Step  BY StepFacts
  <1>8. CASE SocReceive
    BY <1>6, <1>8 DEF SocReceive
  <1>9. ASSUME NEW again \in BOOLEAN, SocAnswer(again) PROVE Heard(toHost', told', k)
    <2> DEFINE m == Head(atSoc)
               z == told \/ m = VERSION
    <2>1. m \in Step /\ m \in Message /\ m # RESET_IND
      <3>1. atSoc # << >>  BY <1>9 DEF SocAnswer
      <3>2. m \in Step  BY <1>1, <3>1, HeadTailProperties
      <3> QED  BY <1>1, <1>7, <3>2
    <2>2. z \in BOOLEAN /\ (told => z) /\ (m = VERSION => z) /\ told' = z
      BY <1>9 DEF SocAnswer
    <2> HIDE DEF z, m
    <2>3. CASE ~ again
      <3>1. toHost' = Append(toHost, m)
        <4>1. toHost' = toHost \o << m >>  BY <1>9, <2>3 DEF SocAnswer, m
        <4> QED  BY <1>1, <2>1, <4>1, AppendIsConcat
      <3>2. Heard(Append(toHost, m), z, k)  BY <1>1, <1>5, <1>6, <2>1, <2>2, HeardMore
      <3> QED  BY <2>2, <3>1, <3>2
    <2>4. CASE again
      <3> DEFINE v == Append(toHost, RESET)
      <3>1. toHost' = Append(v, RESET)
        <4>1. toHost' = toHost \o << RESET, RESET >>  BY <1>9, <2>4 DEF SocAnswer
        <4> QED  BY <1>1, <4>1
      <3>2. v \in Seq(Message)  BY <1>1
      <3>3. Heard(v, told, k)  BY <1>1, <1>5, <1>6, <1>7, HeardMore
      <3> HIDE DEF v
      <3>4. Heard(Append(v, RESET), z, k)
        BY <1>1, <1>5, <1>7, <2>2, <3>2, <3>3, HeardMore
      <3> QED  BY <2>2, <3>1, <3>4
    <2> QED  BY <2>3, <2>4
  <1>10. ASSUME NEW msg \in {RESET, RESET_IND}, SocRestarts(msg) PROVE Heard(toHost', told', k)
    <2>1. toHost' = Append(toHost, msg) /\ told' = told  BY <1>10 DEF SocRestarts
    <2>2. ~ told  BY <1>2, <1>10 DEF SocRestarts
    <2>3. ~ k  BY <1>6, <2>2 DEF Heard
    <2>4. msg \in Message /\ msg # VERSION
      BY <1>1, <1>7, StepFacts
    <2>5. Heard(Append(toHost, msg), told, k)
      BY <1>1, <1>5, <1>6, <2>2, <2>3, <2>4, HeardMore
    <2> QED  BY <2>1, <2>5
  <1> QED
    <2>1. CASE SocReceive  BY <1>8, <2>1
    <2>2. CASE \E again \in BOOLEAN : SocAnswer(again)  BY <1>9, <2>2
    <2>3. CASE \E msg \in {RESET, RESET_IND} : SocRestarts(msg)  BY <1>10, <2>3
    <2> QED  BY <2>1, <2>2, <2>3

LEMMA NextSteady == SteadyInv /\ [Next]_vars => SteadyInv'
  <1> SUFFICES ASSUME SteadyInv, [Next]_vars PROVE SteadyInv'  OBVIOUS
  <1>1. ChainInv'  BY NextChain DEF SteadyInv
  <1>2. {lost, errors} \subseteq Nat
    BY StartupConstants DEF SteadyInv, ChainInv, TypeInv, TypeOK
  <1> SUFFICES ASSUME lost' = 0, late' = 0, errors' = 0
               PROVE  InStep(host', answered') /\ Heard(toHost', told', After(host'))
    BY <1>1 DEF SteadyInv
  <1>3. CASE Callback \/ ResetAlarm \/ Timer \/ (\E ok, repeated \in BOOLEAN : RetryInit(ok, repeated))
    BY <1>3, HostSteady
  <1>4. CASE \E takes, receives \in BOOLEAN : Quantum(takes, receives)  BY <1>4, QuantumSteady
  <1>5. CASE \/ SocReceive
             \/ \E again \in BOOLEAN : SocAnswer(again)
             \/ \E msg \in {RESET, RESET_IND} : SocRestarts(msg)
    BY <1>5, SocSteady
  <1>6. CASE \E ok, repeated \in BOOLEAN : ReadError(ok, repeated)
    BY <1>2, <1>6 DEF ReadError
  <1>7. CASE GiveUp  BY <1>2, <1>7 DEF GiveUp
  <1>8. CASE UNCHANGED vars
    <2>1. /\ host' = host /\ toHost' = toHost /\ told' = told /\ answered' = answered
          /\ lost = 0 /\ late = 0 /\ errors = 0
      BY <1>8 DEF vars, soc
    <2>2. InStep(host, answered) /\ Heard(toHost, told, After(host))  BY <2>1 DEF SteadyInv
    <2> QED  BY <2>1, <2>2
  <1> QED  BY <1>3, <1>4, <1>5, <1>6, <1>7, <1>8 DEF Next

----------------------------------------------------------------------------
(* What the two invariants say together, when there is one kind of trouble. *)

\* Either the SoC does not restart or repeat itself, or nothing is lost.
LEMMA OneKind ==
  ASSUME TypeOK, OneTrouble
  PROVE  /\ late = 0
         /\ extra = 0 \/ (lost = 0 /\ errors = 0)
         /\ lost = 0 \/ errors = 0
  <1>1. lost \in Nat /\ errors \in Nat /\ extra \in Nat  BY StartupConstants DEF TypeOK
  <1> DEFINE l == One(lost > 0)
             e == One(errors > 0)
             x == One(extra > 0)
  <1>2. /\ l \in {0, 1} /\ e \in {0, 1} /\ x \in {0, 1}
        /\ l = 0 => lost = 0
        /\ e = 0 => errors = 0
        /\ x = 0 => extra = 0
    BY <1>1 DEF One
  <1>3. late = 0 /\ l + e + x <= 1  BY DEF OneTrouble
  <1> HIDE DEF l, e, x
  <1>4. (l = 0 /\ e = 0) \/ (l = 0 /\ x = 0) \/ (e = 0 /\ x = 0)  BY <1>2, <1>3
  <1> QED  BY <1>2, <1>3, <1>4

LEMMA TroubleFacts ==
  ASSUME TroubleInv, SteadyInv, OneTrouble
  PROVE  /\ HostOK(host) /\ (lost = 0 \/ errors = 0)
         /\ \/ /\ Sound(host, Way, Leaked, lost, answered)
               /\ lost = 0 \/ Leaked = 0
               /\ Leaked > 0 => errors > 0
            \/ Chain(host, Way, atSoc, toSoc) /\ InStep(host, answered)
  <1>1. TypeOK /\ HostOK(host)  BY DEF TroubleInv, TypeInv
  <1>2. late = 0 /\ (extra = 0 \/ (lost = 0 /\ errors = 0)) /\ (lost = 0 \/ errors = 0)
    BY <1>1, OneKind
  <1>3. errors \in Nat /\ away \in Nat  BY <1>1, StartupConstants DEF TypeOK
  <1>4. CASE extra = 0
    <2>1. Sound(host, Way, Leaked, lost, answered) /\ (errors = 0 => away = 0)
      BY <1>2, <1>4 DEF TroubleInv
    <2>2. Leaked > 0 => errors > 0  BY <1>3, <2>1 DEF Leaked
    <2>3. errors = 0 => Leaked = 0  BY <1>3, <2>1 DEF Leaked
    <2> QED  BY <1>1, <1>2, <2>1, <2>2, <2>3
  <1>5. CASE lost = 0 /\ errors = 0
    BY <1>1, <1>2, <1>5 DEF SteadyInv, ChainInv
  <1> QED  BY <1>2, <1>4, <1>5

LEMMA NoFailure ==
  ASSUME Enough, TroubleInv, SteadyInv
  PROVE  AssertsHold
  <1> SUFFICES ASSUME OneTrouble
               PROVE  host.failure \in {"NONE", "SERIAL"} /\ ~ host.hl.aborted
    BY DEF AssertsHold
  <1>1. CASE /\ Sound(host, Way, Leaked, lost, answered)
             /\ lost = 0 \/ Leaked = 0
             /\ Leaked > 0 => errors > 0
    <2>1. host.failure # "NO_BUFFER"  BY <1>1 DEF Sound, Leak
    <2> QED  BY <1>1, <2>1 DEF Sound, Ready, Queued
  <1>2. CASE Chain(host, Way, atSoc, toSoc) /\ InStep(host, answered)
    BY <1>2 DEF Chain, HLInv, InStep
  <1> QED  BY <1>1, <1>2, TroubleFacts

LEMMA Matches ==
  ASSUME TroubleInv, SteadyInv
  PROVE  AnswerMatches
  <1> DEFINE m == Head(toHost)
  <1>1. /\ toHost \in Seq(Message) /\ atSoc \in Seq(Message) /\ toSoc \in Seq(Message)
        /\ Way \in Seq(Message)
    BY WaySeq DEF TroubleInv, TypeInv
  <1> SUFFICES ASSUME OneTrouble, toHost # << >>
               PROVE  \/ m = RESET_IND
                      \/ m = RESET /\ ~ host.pending
                      \/ host.hl.bq # << >> /\ AskedId(host.hl) = m
                      \/ host.hl.bq = << >> /\ errors > 0
    BY DEF AnswerMatches, AskedId
  <1>2. Way # << >> /\ Head(Way) = m /\ m \in Message
    <2>1. /\ Join(Join(toHost, atSoc), toSoc) # << >>
          /\ Head(Join(Join(toHost, atSoc), toSoc)) = Head(toHost)
      BY <1>1, ConcatThree
    <2>2. m \in Message  BY <1>1, HeadTailProperties
    <2> QED  BY <2>1, <2>2, Zenon DEF Join, Way
  <1>3. CASE /\ Sound(host, Way, Leaked, lost, answered)
             /\ lost = 0 \/ Leaked = 0
             /\ Leaked > 0 => errors > 0
    <2>1. TurnMessage(host, Way, Leaked)
      BY <1>2, <1>3 DEF Sound, Ready, Turn, TurnNobody, TurnPacket, TurnCallback, TurnAlarm,
         TurnFirst, Clear
    <2>2. Way = << host.pos >> /\ (AskedHere(host) \/ (host.hl.bq = << >> /\ errors > 0))
      BY <1>3, <2>1 DEF TurnMessage
    <2>3. m = host.pos  BY <1>2, <2>2
    <2> QED  BY <2>2, <2>3 DEF AskedHere
  <1>4. CASE Chain(host, Way, atSoc, toSoc) /\ InStep(host, answered)
    <2>1. Live(host, Way, atSoc, toSoc)  BY <1>4 DEF Chain, InStep
    <2> HIDE DEF m
    <2>2. CASE m = RESET /\ host.pending
      BY <2>1, <2>2 DEF Live, Ordered
    <2>3. CASE m \in Later
      <3>1. host.hl.bq # << >> /\ AskedId(host.hl) = Head(Way)
        BY <1>1, <1>2, <2>1, <2>3, AnswerAwaited
      <3> QED  BY <1>2, <3>1
    <2>4. m = RESET_IND \/ m = RESET \/ m \in Later
      BY <1>2, StepFacts DEF RESET, Later, Message, Step
    <2> QED  BY <2>2, <2>3, <2>4
  <1> HIDE DEF m
  <1> QED  BY <1>3, <1>4, TroubleFacts

LEMMA AllPassed ==
  ASSUME TroubleInv, SteadyInv
  PROVE  NoStepSkipped
  <1> SUFFICES ASSUME OneTrouble, NEW p \in VERSION..host.pos - 1
               PROVE  p \in answered \cup SKIPPED
    BY DEF NoStepSkipped
  <1>1. HostOK(host)  BY TroubleFacts
  <1>2. host.pos \in 0..STEPS  BY <1>1 DEF HostOK, Host
  <1>3. p \in VERSION..STEPS - 1 /\ p < host.pos
    BY <1>2, StepFacts DEF VERSION
  <1>4. Passed(host, answered)  BY TroubleFacts DEF Sound, Ready, InStep
  <1> QED  BY <1>3, <1>4 DEF Passed

LEMMA SpecTrouble == Spec => [](TroubleInv /\ SteadyInv)
  <1>1. Init => TroubleInv /\ SteadyInv  BY InitTrouble, InitSteady
  <1>2. TroubleInv /\ SteadyInv /\ [Next]_vars => (TroubleInv /\ SteadyInv)'
    BY NextTrouble, NextSteady
  <1> QED  BY <1>1, <1>2, PTL DEF Spec

\* While one kind of trouble happens - a lost request, a failing port or a SoC that
\* restarts and repeats itself - no ZB_ASSERT of the start-up fails: no response
\* finds it at another step, the timer does not fire when the version is known, and
\* a request finds a buffer, if the pool has two and more than the port has errors and
\* the timer goes off while it is away
\* (ncp_host_hl_proto_init empties the queues but not the pool).
THEOREM AssertionsHold ==
  ASSUME POOL_SIZE > 1, MaxErrors + MaxAway < POOL_SIZE
  PROVE  Spec => []AssertsHold
  <1>1. Enough  BY DEF Enough, MaxLeaked
  <1>2. TroubleInv /\ SteadyInv => AssertsHold  BY <1>1, NoFailure
  <1> QED  BY <1>2, SpecTrouble, PTL

\* While one kind of trouble happens, a message that would finish a blocking request
\* (mark_blocking_request_finished) answers the request at the head of the blocking
\* queue, or the queue was emptied by init_transport.
THEOREM AnswersMatch == Spec => []AnswerMatches
  <1>1. TroubleInv /\ SteadyInv => AnswerMatches  BY Matches
  <1> QED  BY <1>1, SpecTrouble, PTL

\* While one kind of trouble happens, startup_next_step leaves no step behind whose
\* response has not been handled, but those that have nothing to ask for.
THEOREM StepsInTurn == Spec => []NoStepSkipped
  <1>1. TroubleInv /\ SteadyInv => NoStepSkipped  BY AllPassed
  <1> QED  BY <1>1, SpecTrouble, PTL
=============================================================================
