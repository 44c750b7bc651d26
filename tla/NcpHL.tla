------------------------------- MODULE NcpHL -------------------------------
(***************************************************************************)
(* The request queues of the NCP high-level (HL) protocol on the host: the *)
(* state of zb_ncp_host_ctx_t (ncp_host_hl_proto.c) and of the divider     *)
(* that holds the one packet being sent (zbncp_divider.c), and their       *)
(* functions as operators on it.  NcpHostHL and NcpStartup use them.       *)
(*                                                                         *)
(* Abstracted: the contents of a request.  An id the caller chooses stands *)
(* for them.                                                               *)
(***************************************************************************)
EXTENDS Integers, Sequences

CONSTANTS
  POOL_SIZE,      \* TX_BUFFERS_POOL_SIZE, also the capacity of both queues
  TSN_RESERVED    \* NCP_TSN_RESERVED, the last value of the 8-bit TSN

ASSUME HLConstants == POOL_SIZE \in Nat \ {0} /\ TSN_RESERVED \in Nat \ {0}

Buf == 1..POOL_SIZE
Tsn == 0..TSN_RESERVED - 1

BufStatus == {"FREE", "RESERVED_BLOCKING", "RESERVED_NONBLOCKING", "WAIT_SENDING", "WAIT_RESPONSE"}

TxBuffer == [status : BufStatus, tsn : Tsn, id : Nat]
FreeBuffer == [status |-> "FREE", tsn |-> 0, id |-> 0]

\* What the divider holds; NoPkt: pkt_size is 0.
Packet == [id : Nat, tsn : Tsn, blocking : BOOLEAN]
NoPkt  == [id |-> 0, tsn |-> 0, blocking |-> FALSE]

HLState == [pool : [Buf -> TxBuffer], bq : Seq(Buf), nq : Seq(Buf),
            active : BOOLEAN, tsn : Tsn, div : Packet, aborted : BOOLEAN]

\* g_ncp_host_ctx is zeroed and then given to ncp_host_hl_proto_init.
HLInit == [pool |-> [b \in Buf |-> FreeBuffer], bq |-> << >>, nq |-> << >>,
           active |-> FALSE, tsn |-> 0, div |-> NoPkt, aborted |-> FALSE]

----------------------------------------------------------------------------
(* Buffers and queues. *)

FreeBufs(h) == {b \in Buf : h.pool[b].status = "FREE"}

\* tx_buffer_find_free
FindFree(h) == CHOOSE b \in FreeBufs(h) : \A c \in FreeBufs(h) : b <= c

\* tx_buffer_free
TxBufferFree(h, b) == [h EXCEPT !.pool[b] = FreeBuffer]

SetStatus(h, b, status) == [h EXCEPT !.pool[b].status = status]

\* Mutant of Enqueue: put at the head of the ring buffer.
EnqueueFirst(q, b) == <<b>> \o q

\* ZB_RING_BUFFER_PUT_PTR
Enqueue(q, b) == Append(q, b)

\* put_packet_in_queue
PutInQueue(h, b, blocking, status) ==
  CASE blocking /\ Len(h.bq) < POOL_SIZE ->
         [SetStatus(h, b, status) EXCEPT !.bq = Enqueue(@, b)]
    [] ~ blocking /\ Len(h.nq) < POOL_SIZE ->
         [SetStatus(h, b, status) EXCEPT !.nq = Enqueue(@, b)]
    [] OTHER -> h      \* RET_NO_MEMORY

----------------------------------------------------------------------------
(* Sending. *)

\* ncp_ll_send_packet: the divider takes the packet, or it is busy and the
\* caller's ZB_ASSERT(ret == RET_OK) stops the program.
LLSendPacket(h, b, blocking) ==
  IF h.div = NoPkt
  THEN [h EXCEPT !.div = [id |-> h.pool[b].id, tsn |-> h.pool[b].tsn, blocking |-> blocking]]
  ELSE [h EXCEPT !.aborted = TRUE]

\* Mutant of NextTsn: the reserved value is not skipped.
NextTsnUnskipped(n) == (n + 1) % (TSN_RESERVED + 1)

\* get_next_tsn
NextTsn(n) == IF n + 1 = TSN_RESERVED THEN 0 ELSE n + 1

\* get_request_buffer, which fails without a free buffer
GetRequestBuffer(h, b, blocking, id) ==
  [h EXCEPT !.tsn = NextTsn(@),
            !.pool[b] = [status |-> IF blocking THEN "RESERVED_BLOCKING" ELSE "RESERVED_NONBLOCKING",
                         tsn |-> NextTsn(h.tsn), id |-> id]]

\* The last branch of ncp_host_hl_send_packet.
SendDirectly(h, b, blocking) ==
  LET u == [LLSendPacket(h, b, blocking) EXCEPT !.active = TRUE]
  IN IF blocking THEN PutInQueue(u, b, TRUE, "WAIT_RESPONSE") ELSE TxBufferFree(u, b)

\* Mutants of MustQueue: a transmission, or a blocking request, is ignored.
MustQueueUnlessNonblocking(h, blocking) == blocking /\ (h.bq # << >> \/ h.active)
MustQueueIfActive(h, blocking) == h.active

\* The conditions under which ncp_host_hl_send_packet queues a request.
MustQueue(h, blocking) == h.active \/ (blocking /\ h.bq # << >>)

\* ncp_host_hl_send_packet for a buffer that get_request_buffer reserved
SendPacket(h, b) ==
  LET blocking == h.pool[b].status = "RESERVED_BLOCKING"
  IN IF MustQueue(h, blocking) THEN PutInQueue(h, b, blocking, "WAIT_SENDING")
     ELSE SendDirectly(h, b, blocking)

\* How every request function uses the two: a buffer is reserved, filled and
\* sent without a break.
Request(h, blocking, id) ==
  LET b == FindFree(h) IN SendPacket(GetRequestBuffer(h, b, blocking, id), b)

\* The nonblocking request at the head of its queue goes first if it has the
\* lower TSN.
NonblockingFirst(h) ==
  /\ h.nq # << >>
  /\ h.bq = << >> \/ h.pool[Head(h.bq)].tsn > h.pool[Head(h.nq)].tsn

\* tx_ready_cb
TxReady(h) ==
  LET u == [h EXCEPT !.active = FALSE]
      n == Head(h.nq)
      b == Head(h.bq)
  IN CASE NonblockingFirst(h) ->
            [TxBufferFree(LLSendPacket(u, n, FALSE), n) EXCEPT !.nq = Tail(@), !.active = TRUE]
       [] ~ NonblockingFirst(h) /\ h.bq # << >> /\ h.pool[b].status = "WAIT_SENDING" ->
            [SetStatus(LLSendPacket(u, b, TRUE), b, "WAIT_RESPONSE") EXCEPT !.active = TRUE]
       [] OTHER -> u

\* Mutant of MarkFinished: the buffer is not freed.
MarkFinishedKeepBuffer(h) == IF h.bq = << >> THEN h ELSE [h EXCEPT !.bq = Tail(@)]

\* ncp_host_mark_blocking_request_finished
MarkFinished(h) ==
  IF h.bq = << >> THEN h ELSE [TxBufferFree(h, Head(h.bq)) EXCEPT !.bq = Tail(@)]

\* ncp_host_hl_proto_init, with the LL and the divider it initialises: the
\* buffer pool and tx_is_active stay as they are.
ProtoInit(h) == [h EXCEPT !.bq = << >>, !.nq = << >>, !.div = NoPkt]

\* Mutant of TxIsReady: only when the LL took something in this quantum.
TxIsReadyIfTaken(h, takes) == takes /\ h.div = NoPkt

\* zbncp_div_process_response: ready whenever the divider is empty, whether or
\* not the LL took something in this quantum.
TxIsReady(h, takes) == h.div = NoPkt

\* The last steps of ncp_ll_quant: the divider learns what the LL took (takes:
\* the packet's last fragment), and then the HL may send the next packet.
EndOfQuantum(h, takes) ==
  LET u == IF takes THEN [h EXCEPT !.div = NoPkt] ELSE h
  IN IF TxIsReady(u, takes) THEN TxReady(u) ELSE u
=============================================================================
