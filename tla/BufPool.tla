------------------------------ MODULE BufPool ------------------------------
(***************************************************************************)
(* The pool of packet buffers (src/common/zb_bufpool_mult.c over the       *)
(* storage of zb_bufpool_mult_storage.c) and the requests that wait for a  *)
(* buffer.  A buffer takes 1, 2, ... neighbouring places of one array and  *)
(* is accounted as IN or OUT; each kind may use half of the array, and the *)
(* last Reserve places of a half are for high-priority calls.  A delayed   *)
(* request that finds no buffer waits in the queue of its kind, and the    *)
(* release of a buffer of that kind serves the head of that queue: its     *)
(* callback is scheduled with the buffer.                                  *)
(*                                                                         *)
(* Each call is one step: ZB_INTERRUPT_SAFE_BUFS is not defined in this    *)
(* library, whose calls all come from the scheduler's loop.  The MAC, the  *)
(* only user of mac_rx_need_buf, is on the SoC: the flag is never set here.*)
(* delayed_buf_usage, a statistic of the queues, is left out.              *)
(***************************************************************************)
EXTENDS Integers, Sequences, FiniteSets

CONSTANTS PoolSize,      \* ZB_IOBUF_POOL_SIZE, in places
          Reserve,       \* ZB_BUFS_HI_PRIOR_RESERVE
          RxCap,         \* ZB_MAC_RX_QUEUE_CAP
          QSize,         \* ZB_BUF_Q_SIZE
          Sizes,         \* multiplicities of the buffers asked for directly
          DelayedSizes   \* ... and by delayed requests

ZB_OUT_BUFFER == 0
ZB_IN_BUFFER == 1
Kinds == {ZB_OUT_BUFFER, ZB_IN_BUFFER}
Limit == PoolSize \div 2

ASSUME PoolAssumption == /\ PoolSize \in Nat
                         /\ Reserve \in Nat /\ Reserve < Limit
                         /\ RxCap \in Nat /\ RxCap < Limit
                         /\ QSize \in Nat
                         /\ Sizes \subseteq Nat \ {0}
                         /\ DelayedSizes \subseteq Nat \ {0}

VARIABLES
  bpool,             \* [busy: places taken, allocated: places per kind, bufs: headers]
  delayed_queue,     \* per kind, the sizes the waiting requests ask for, in order
  moved              \* history: an IN buffer was requalified while a request waited for one

vars == <<bpool, delayed_queue, moved>>

Places == 0 .. PoolSize - 1
Buffer == [at : Places, cnt : Sizes \cup DelayedSizes \cup {1}, kind : Kinds]
Extent(b) == b.at .. b.at + b.cnt - 1
PlacesOf(bufs, k) == UNION {Extent(b) : b \in {c \in bufs : c.kind = k}}

-----------------------------------------------------------------------------
(* The storage and the limits.                                             *)

\* Mutant of Fits: the search stops before the last place.
FitsButLast(p, n) == {at \in 0 .. PoolSize - n - 1 : (at .. at + n - 1) \cap p.busy = {}}

\* Places where n neighbours are free: the storage takes the first of them.
Fits(p, n) == {at \in 0 .. PoolSize - n : (at .. at + n - 1) \cap p.busy = {}}

\* Mutant of WithinLimit: what is taken is compared, not what will be.
WithinLimitBefore(p, k, hi, n) == p.allocated[k] <= Limit - (IF hi THEN 0 ELSE Reserve)

\* A large buffer must leave room for one more.
WithinLimit(p, k, hi, n) ==
  p.allocated[k] + n + (IF n > 1 THEN 1 ELSE 0) <= Limit - (IF hi THEN 0 ELSE Reserve)

\* The buffer a call gets: none, or one.
Allocations(p, k, hi, n) ==
  {b \in [at : Fits(p, n), cnt : {n}, kind : {k}] :
      WithinLimit(p, k, hi, n) /\ \A at \in Fits(p, n) : b.at <= at}

\* ... and a delayed request, which leaves RxCap IN buffers to reception.
DelayedAllocations(p, k, n) ==
  {b \in Allocations(p, k, FALSE, n) :
      k = ZB_OUT_BUFFER \/ Limit - p.allocated[ZB_IN_BUFFER] > RxCap}

With(p, b) == [busy |-> p.busy \cup Extent(b),
               allocated |-> [p.allocated EXCEPT ![b.kind] = @ + b.cnt],
               bufs |-> p.bufs \cup {b}]

Without(p, b) == [busy |-> p.busy \ Extent(b),
                  allocated |-> [p.allocated EXCEPT ![b.kind] = @ - b.cnt],
                  bufs |-> p.bufs \ {b}]

-----------------------------------------------------------------------------
Init == /\ bpool = [busy |-> {}, allocated |-> [k \in Kinds |-> 0], bufs |-> {}]
        /\ delayed_queue = [k \in Kinds |-> << >>]
        /\ moved = FALSE

\* A call that gets no buffer returns 0 and changes nothing.
GetBuf(k, hi, n) == /\ \E b \in Allocations(bpool, k, hi, n) : bpool' = With(bpool, b)
                    /\ UNCHANGED <<delayed_queue, moved>>

zb_buf_get(k, n) == GetBuf(k, FALSE, n)
zb_buf_get_hipri(k) == GetBuf(k, TRUE, 1)
zb_buf_get_any ==
  zb_buf_get(IF bpool.allocated[ZB_OUT_BUFFER] > bpool.allocated[ZB_IN_BUFFER]
             THEN ZB_IN_BUFFER ELSE ZB_OUT_BUFFER, 1)

\* The request is tried at once, whoever waits already; then it waits, if the
\* queue has room.
zb_get_buf_delayed(k, n) ==
  \/ /\ \E b \in DelayedAllocations(bpool, k, n) : bpool' = With(bpool, b)
     /\ UNCHANGED <<delayed_queue, moved>>
  \/ /\ DelayedAllocations(bpool, k, n) = {}
     /\ Len(delayed_queue[k]) < QSize
     /\ delayed_queue' = [delayed_queue EXCEPT ![k] = Append(@, n)]
     /\ UNCHANGED <<bpool, moved>>

\* Mutant of zb_buf_free: nobody is tried again.
FreeOnly(b) == /\ bpool' = Without(bpool, b)
               /\ UNCHANGED <<delayed_queue, moved>>

\* The release of a buffer serves the head of the queue of its own kind, no more.
FlushNothing(p, k) ==
  /\ \/ delayed_queue[k] = << >>
     \/ delayed_queue[k] # << >> /\ DelayedAllocations(p, k, Head(delayed_queue[k])) = {}
  /\ bpool' = p
  /\ UNCHANGED <<delayed_queue, moved>>

FlushHead(p, k) ==
  /\ delayed_queue[k] # << >>
  /\ \E b \in DelayedAllocations(p, k, Head(delayed_queue[k])) : bpool' = With(p, b)
  /\ delayed_queue' = [delayed_queue EXCEPT ![k] = Tail(@)]
  /\ moved' = (moved /\ (k = ZB_IN_BUFFER => Len(delayed_queue[k]) > 1))

Flush(p, k) == FlushNothing(p, k) \/ FlushHead(p, k)

\* Mutant of zb_buf_free: the queue of the other kind is served.
FreeForOther(b) == Flush(Without(bpool, b), 1 - b.kind)

zb_buf_free(b) == Flush(Without(bpool, b), b.kind)

\* Mutant of zb_buf_requalify_in_to_out: the header still says IN.
RequalifyCountersOnly(b) ==
  /\ b.kind = ZB_IN_BUFFER
  /\ bpool.allocated[ZB_IN_BUFFER] > bpool.allocated[ZB_OUT_BUFFER]
  /\ bpool' = [bpool EXCEPT !.allocated = [k \in Kinds |-> IF k = ZB_IN_BUFFER
                                                           THEN bpool.allocated[k] - b.cnt
                                                           ELSE bpool.allocated[k] + b.cnt]]
  /\ UNCHANGED <<delayed_queue, moved>>

\* An IN buffer becomes OUT if that evens the halves out; nobody is served.
zb_buf_requalify_in_to_out(b) ==
  /\ b.kind = ZB_IN_BUFFER
  /\ bpool.allocated[ZB_IN_BUFFER] > bpool.allocated[ZB_OUT_BUFFER]
  /\ bpool.allocated[ZB_OUT_BUFFER] + b.cnt <= Limit - Reserve
  /\ bpool' = [busy |-> bpool.busy,
               allocated |-> [k \in Kinds |-> IF k = ZB_IN_BUFFER THEN bpool.allocated[k] - b.cnt
                                                                ELSE bpool.allocated[k] + b.cnt],
               bufs |-> (bpool.bufs \ {b}) \cup {[b EXCEPT !.kind = ZB_OUT_BUFFER]}]
  /\ moved' = (delayed_queue[ZB_IN_BUFFER] # << >>)
  /\ UNCHANGED delayed_queue

Next == \/ \E k \in Kinds, n \in Sizes : zb_buf_get(k, n)
        \/ \E k \in Kinds : zb_buf_get_hipri(k)
        \/ zb_buf_get_any
        \/ \E k \in Kinds, n \in DelayedSizes : zb_get_buf_delayed(k, n)
        \/ \E b \in bpool.bufs : zb_buf_free(b)
        \/ \E b \in bpool.bufs : zb_buf_requalify_in_to_out(b)

Spec == Init /\ [][Next]_vars

\* Among the callbacks and tasks that hold OUT buffers one releases its buffer
\* some time.
ReleaseOut == \E b \in bpool.bufs : b.kind = ZB_OUT_BUFFER /\ zb_buf_free(b)
FairSpec == Spec /\ WF_vars(ReleaseOut)

-----------------------------------------------------------------------------
(* Properties.                                                             *)

TypeOK == /\ bpool \in [busy : SUBSET Places, allocated : [Kinds -> 0 .. Limit],
                        bufs : SUBSET Buffer]
          /\ delayed_queue \in [Kinds -> Seq(DelayedSizes)]
          /\ \A k \in Kinds : Len(delayed_queue[k]) <= QSize
          /\ moved \in BOOLEAN

\* No two buffers share a place, a place is taken exactly if it is in a buffer,
\* and each kind's counter is the number of its places.
Accounted(p) ==
  /\ \A b, c \in p.bufs : b # c => Extent(b) \cap Extent(c) = {}
  /\ p.busy = PlacesOf(p.bufs, ZB_OUT_BUFFER) \cup PlacesOf(p.bufs, ZB_IN_BUFFER)
  /\ \A k \in Kinds : p.allocated[k] = Cardinality(PlacesOf(p.bufs, k))

\* Through every allocation, requalification and release the bitmap of the
\* storage, the headers and the counters of the pool tell the same.
PoolAccounts == Accounted(bpool)

\* "Do not allow one part to eat entire another part": whatever the other half
\* holds, and however it is scattered, a high-priority call of a kind below its
\* limit finds a place.
HalvesAreIndependent ==
  \A k \in Kinds : bpool.allocated[k] < Limit => Allocations(bpool, k, TRUE, 1) # {}

\* A request for one place that is first in its queue waits for somebody: there
\* is a buffer of its kind whose release will try it again.  Only a
\* requalification takes IN buffers away without a release.
WaitedFor ==
  \A k \in Kinds :
    /\ delayed_queue[k] # << >>
    /\ Head(delayed_queue[k]) = 1
    /\ k = ZB_IN_BUFFER => ~moved
    => bpool.allocated[k] > 0

\* If tasks release their buffers, those of high priority do not keep the OUT
\* half above its limit for ever and requests for large OUT buffers cease, the
\* head of the OUT queue is served again and again until nobody waits.
WaitersServed ==
  LET q == delayed_queue[ZB_OUT_BUFFER]
      Served == q # << >> /\ q' = Tail(q)
  IN  /\ []<>(bpool.allocated[ZB_OUT_BUFFER] < Limit - Reserve)
      /\ <>[](\A i \in DOMAIN q : q[i] = 1)
      => []<>(q = << >>) \/ []<><<Served>>_vars
=============================================================================
