--------------------------- MODULE BufPool_proofs ---------------------------
(***************************************************************************)
(* Proofs about the buffer pool, for every size of the pool, every         *)
(* reserve and every size of buffer: its bookkeeping is exact, one half    *)
(* never keeps the other from its share, and a request for one place never *)
(* waits for nobody.                                                       *)
(***************************************************************************)
EXTENDS BufPool, FiniteSetTheorems, WellFoundedInduction, TLAPS

\* What a pool is at any moment, before and within a step.
Pool == [busy : SUBSET Places, allocated : [Kinds -> 0 .. Limit], bufs : SUBSET Buffer]
Sound(p) == p \in Pool /\ Accounted(p)

AllSizes == Sizes \cup DelayedSizes \cup {1}

-----------------------------------------------------------------------------
(* Constants.                                                              *)

LEMMA LimitFacts == /\ Limit \in Nat /\ 2 * Limit <= PoolSize
                    /\ Reserve \in Nat /\ Reserve < Limit
                    /\ RxCap \in Nat /\ RxCap < Limit
                    /\ PoolSize \in Nat
  BY PoolAssumption DEF Limit

LEMMA SizesFacts == AllSizes \subseteq Nat \ {0}
  BY PoolAssumption DEF AllSizes

\* An extent has as many places as its buffer says.
LEMMA ExtentSize ==
  ASSUME NEW b, b.at \in Nat, b.cnt \in Nat \ {0}
  PROVE  IsFiniteSet(Extent(b)) /\ Cardinality(Extent(b)) = b.cnt
  <1>1. b.at \in Int /\ b.at + b.cnt - 1 \in Int
    OBVIOUS
  <1>2. /\ IsFiniteSet(b.at .. b.at + b.cnt - 1)
        /\ Cardinality(b.at .. b.at + b.cnt - 1)
             = IF b.at > b.at + b.cnt - 1 THEN 0 ELSE (b.at + b.cnt - 1) - b.at + 1
    BY <1>1, FS_Interval
  <1> QED
    BY <1>2 DEF Extent

\* The places of a pool are finitely many.
LEMMA PlacesFinite ==
  ASSUME NEW S \in SUBSET Places
  PROVE  IsFiniteSet(S)
  <1>1. IsFiniteSet(0 .. PoolSize - 1)
    BY LimitFacts, FS_Interval
  <1> QED
    BY <1>1, FS_Subset DEF Places

-----------------------------------------------------------------------------
(* Sets of buffers.                                                        *)

LEMMA PlacesOfAdd ==
  ASSUME NEW bufs, NEW b, NEW k
  PROVE  PlacesOf(bufs \cup {b}, k) =
           IF b.kind = k THEN PlacesOf(bufs, k) \cup Extent(b) ELSE PlacesOf(bufs, k)
  BY DEF PlacesOf

LEMMA PlacesOfRemove ==
  ASSUME NEW bufs, NEW b \in bufs, NEW k,
         \A c \in bufs : b # c => Extent(b) \cap Extent(c) = {}
  PROVE  PlacesOf(bufs \ {b}, k) = PlacesOf(bufs, k) \ (IF b.kind = k THEN Extent(b) ELSE {})
  BY DEF PlacesOf

LEMMA PlacesOfIn ==
  ASSUME NEW p, Sound(p), NEW k \in Kinds
  PROVE  /\ PlacesOf(p.bufs, k) \subseteq p.busy
         /\ IsFiniteSet(PlacesOf(p.bufs, k))
  <1>1. PlacesOf(p.bufs, k) \subseteq p.busy /\ p.busy \in SUBSET Places
    BY DEF Sound, Accounted, Pool, Kinds
  <1> QED
    BY <1>1, PlacesFinite

LEMMA BufferFacts ==
  ASSUME NEW b \in Buffer
  PROVE  /\ b.at \in Nat /\ b.cnt \in Nat \ {0} /\ b.kind \in Kinds
         /\ IsFiniteSet(Extent(b)) /\ Cardinality(Extent(b)) = b.cnt
  <1>1. b.at \in Nat /\ b.cnt \in Nat \ {0} /\ b.kind \in Kinds
    BY SizesFacts DEF Buffer, Places, AllSizes
  <1> QED
    BY <1>1, ExtentSize

-----------------------------------------------------------------------------
(* Allocation, release and requalification keep the books.                 *)

LEMMA AllocationFacts ==
  ASSUME NEW p, Sound(p), NEW k \in Kinds, NEW hi \in BOOLEAN, NEW n \in AllSizes,
         NEW b \in Allocations(p, k, hi, n)
  PROVE  /\ b \in Buffer /\ b.kind = k /\ b.cnt = n
         /\ Extent(b) \cap p.busy = {}
         /\ Extent(b) \subseteq Places
         /\ p.allocated[k] + b.cnt <= Limit
  <1>1. n \in Nat \ {0}
    BY SizesFacts
  <1>2. /\ b \in [at : Fits(p, n), cnt : {n}, kind : {k}]
        /\ WithinLimit(p, k, hi, n)
    BY DEF Allocations
  <1>3. b.at \in Fits(p, n) /\ b.cnt = n /\ b.kind = k
    BY <1>2
  <1>4. b.at \in 0 .. PoolSize - n /\ (b.at .. b.at + n - 1) \cap p.busy = {}
    BY <1>3 DEF Fits
  <1>5. b.at \in Places
    BY <1>1, <1>4, LimitFacts DEF Places
  <1>6. b \in Buffer
    BY <1>2, <1>3, <1>5 DEF Buffer, AllSizes
  <1>7. Extent(b) \subseteq Places /\ Extent(b) \cap p.busy = {}
    BY <1>1, <1>3, <1>4, LimitFacts DEF Extent, Places
  <1>8. p.allocated[k] + n <= Limit
    <2>1. p.allocated[k] \in Nat
      BY LimitFacts DEF Sound, Pool
    <2> QED
      BY <1>1, <1>2, <2>1, LimitFacts DEF WithinLimit
  <1> QED
    BY <1>3, <1>6, <1>7, <1>8

LEMMA WithSound ==
  ASSUME NEW p, Sound(p), NEW b \in Buffer,
         Extent(b) \cap p.busy = {}, Extent(b) \subseteq Places,
         p.allocated[b.kind] + b.cnt <= Limit
  PROVE  Sound(With(p, b))
  <1> DEFINE w == With(p, b)
  <1>1. /\ w.busy = p.busy \cup Extent(b)
        /\ w.allocated = [p.allocated EXCEPT ![b.kind] = @ + b.cnt]
        /\ w.bufs = p.bufs \cup {b}
        /\ w \in [busy : {w.busy}, allocated : {w.allocated}, bufs : {w.bufs}]
    BY DEF With
  <1>2. b.kind \in Kinds /\ b.cnt \in Nat \ {0} /\ IsFiniteSet(Extent(b))
        /\ Cardinality(Extent(b)) = b.cnt
    BY BufferFacts
  <1>3. p.busy \subseteq Places /\ p.allocated \in [Kinds -> 0 .. Limit] /\ p.bufs \subseteq Buffer
    BY DEF Sound, Pool
  <1> HIDE DEF w
  <1>4. w \in Pool
    <2>1. w.allocated \in [Kinds -> 0 .. Limit]
      <3>1. p.allocated[b.kind] + b.cnt \in 0 .. Limit
        BY <1>2, <1>3, LimitFacts
      <3> QED
        BY <1>1, <1>2, <1>3, <3>1
    <2> QED
      BY <1>1, <1>3, <2>1 DEF Pool
  <1>5. \A c \in p.bufs : Extent(c) \subseteq p.busy
    BY <1>3, BufferFacts DEF Sound, Accounted, PlacesOf, Kinds
  <1>6. \A c, d \in w.bufs : c # d => Extent(c) \cap Extent(d) = {}
    BY <1>1, <1>5 DEF Sound, Accounted
  <1>7. ASSUME NEW k \in Kinds
        PROVE  PlacesOf(w.bufs, k) =
                 IF b.kind = k THEN PlacesOf(p.bufs, k) \cup Extent(b) ELSE PlacesOf(p.bufs, k)
    <2>1. PlacesOf(p.bufs \cup {b}, k) =
             IF b.kind = k THEN PlacesOf(p.bufs, k) \cup Extent(b) ELSE PlacesOf(p.bufs, k)
      BY PlacesOfAdd
    <2> QED
      BY <1>1, <2>1
  <1>8. w.busy = PlacesOf(w.bufs, ZB_OUT_BUFFER) \cup PlacesOf(w.bufs, ZB_IN_BUFFER)
    <2>1. p.busy = PlacesOf(p.bufs, ZB_OUT_BUFFER) \cup PlacesOf(p.bufs, ZB_IN_BUFFER)
      BY DEF Sound, Accounted
    <2> QED
      BY <1>1, <1>2, <1>7, <2>1 DEF Kinds
  <1>9. ASSUME NEW k \in Kinds
        PROVE  w.allocated[k] = Cardinality(PlacesOf(w.bufs, k))
    <2>1. PlacesOf(w.bufs, k) =
             IF b.kind = k THEN PlacesOf(p.bufs, k) \cup Extent(b) ELSE PlacesOf(p.bufs, k)
      BY <1>7
    <2>2. PlacesOf(p.bufs, k) \subseteq p.busy /\ IsFiniteSet(PlacesOf(p.bufs, k))
      BY PlacesOfIn
    <2>3. p.allocated[k] = Cardinality(PlacesOf(p.bufs, k))
      BY DEF Sound, Accounted
    <2>4. CASE b.kind = k
      <3>1. PlacesOf(p.bufs, k) \cap Extent(b) = {}
        BY <2>2
      <3>2. Cardinality(PlacesOf(p.bufs, k) \cup Extent(b)) =
              Cardinality(PlacesOf(p.bufs, k)) + Cardinality(Extent(b))
              - Cardinality(PlacesOf(p.bufs, k) \cap Extent(b))
        BY <1>2, <2>2, FS_Union
      <3>3. Cardinality({}) = 0
        BY FS_EmptySet
      <3>4. w.allocated[k] = p.allocated[k] + b.cnt
        BY <1>1, <1>3, <2>4
      <3>5. p.allocated[k] \in Nat
        BY <1>3, LimitFacts
      <3>6. Cardinality(PlacesOf(p.bufs, k) \cup Extent(b)) = p.allocated[k] + b.cnt
        <4>1. Cardinality(PlacesOf(p.bufs, k) \cap Extent(b)) = 0
          BY <3>1, <3>3
        <4>2. Cardinality(Extent(b)) = b.cnt /\ b.cnt \in Nat
          BY <1>2
        <4>3. Cardinality(PlacesOf(p.bufs, k)) \in Nat
          BY <2>3, <3>5
        <4>4. Cardinality(PlacesOf(p.bufs, k) \cup Extent(b)) = Cardinality(PlacesOf(p.bufs, k)) + b.cnt
          BY <3>2, <4>1, <4>2, <4>3
        <4> QED
          BY <2>3, <4>4
      <3> QED
        BY <2>1, <2>4, <3>4, <3>6
    <2>5. CASE b.kind # k
      BY <1>1, <1>3, <2>1, <2>3, <2>5
    <2> QED
      BY <2>4, <2>5
  <1> QED
    BY <1>4, <1>6, <1>8, <1>9 DEF Sound, Accounted, w

LEMMA WithoutSound ==
  ASSUME NEW p, Sound(p), NEW b \in p.bufs
  PROVE  /\ Sound(Without(p, b)) /\ b \in Buffer
         /\ b.cnt <= p.allocated[b.kind]
  <1> DEFINE w == Without(p, b)
  <1>1. /\ w.busy = p.busy \ Extent(b)
        /\ w.allocated = [p.allocated EXCEPT ![b.kind] = @ - b.cnt]
        /\ w.bufs = p.bufs \ {b}
        /\ w \in [busy : {w.busy}, allocated : {w.allocated}, bufs : {w.bufs}]
    BY DEF Without
  <1>2. p.busy \subseteq Places /\ p.allocated \in [Kinds -> 0 .. Limit] /\ p.bufs \subseteq Buffer
    BY DEF Sound, Pool
  <1>3. /\ b \in Buffer /\ b.kind \in Kinds /\ b.cnt \in Nat \ {0} /\ IsFiniteSet(Extent(b))
        /\ Cardinality(Extent(b)) = b.cnt
    BY <1>2, BufferFacts
  <1>4. \A c, d \in p.bufs : c # d => Extent(c) \cap Extent(d) = {}
    BY DEF Sound, Accounted
  <1> HIDE DEF w
  <1>5. \A k \in Kinds : PlacesOf(w.bufs, k) =
             PlacesOf(p.bufs, k) \ (IF b.kind = k THEN Extent(b) ELSE {})
    BY <1>1, <1>4, PlacesOfRemove
  <1>6. Extent(b) \subseteq PlacesOf(p.bufs, b.kind)
    BY DEF PlacesOf
  <1>7. \A k \in Kinds : k # b.kind => PlacesOf(p.bufs, k) \cap Extent(b) = {}
    BY <1>4 DEF PlacesOf
  <1>8. ASSUME NEW k \in Kinds
        PROVE  /\ w.allocated[k] = Cardinality(PlacesOf(w.bufs, k))
               /\ b.kind = k => b.cnt <= p.allocated[k]
    <2>1. p.allocated[k] = Cardinality(PlacesOf(p.bufs, k)) /\ IsFiniteSet(PlacesOf(p.bufs, k))
      BY PlacesOfIn DEF Sound, Accounted
    <2>2. CASE b.kind = k
      <3>1. PlacesOf(w.bufs, k) = PlacesOf(p.bufs, k) \ Extent(b)
        BY <1>5, <2>2
      <3>2. Cardinality(PlacesOf(p.bufs, k) \ Extent(b)) =
              Cardinality(PlacesOf(p.bufs, k)) - Cardinality(PlacesOf(p.bufs, k) \cap Extent(b))
        BY <1>3, <2>1, FS_Difference
      <3>3. PlacesOf(p.bufs, k) \cap Extent(b) = Extent(b)
        BY <1>6, <2>2
      <3>4. Cardinality(Extent(b)) <= Cardinality(PlacesOf(p.bufs, k))
        BY <1>6, <2>1, <2>2, FS_Subset
      <3>5. w.allocated[k] = p.allocated[k] - b.cnt
        BY <1>1, <1>2, <2>2
      <3> QED
        BY <1>3, <2>1, <3>1, <3>2, <3>3, <3>4, <3>5
    <2>3. CASE b.kind # k
      <3>1. PlacesOf(w.bufs, k) = PlacesOf(p.bufs, k)
        BY <1>5, <2>3
      <3> QED
        BY <1>1, <1>2, <2>1, <2>3, <3>1
    <2> QED
      BY <2>2, <2>3
  <1>9. w.busy = PlacesOf(w.bufs, ZB_OUT_BUFFER) \cup PlacesOf(w.bufs, ZB_IN_BUFFER)
    <2>1. p.busy = PlacesOf(p.bufs, ZB_OUT_BUFFER) \cup PlacesOf(p.bufs, ZB_IN_BUFFER)
      BY DEF Sound, Accounted
    <2> QED
      BY <1>1, <1>3, <1>5, <1>7, <2>1 DEF Kinds
  <1>10. w \in Pool
    <2>1. p.allocated[b.kind] - b.cnt \in 0 .. Limit
      BY <1>2, <1>3, <1>8, LimitFacts
    <2>2. w.allocated \in [Kinds -> 0 .. Limit]
      BY <1>1, <1>2, <1>3, <2>1
    <2> QED
      BY <1>1, <1>2, <2>2 DEF Pool
  <1>11. \A c, d \in w.bufs : c # d => Extent(c) \cap Extent(d) = {}
    BY <1>1, <1>4
  <1>12. Sound(w)
    BY <1>8, <1>9, <1>10, <1>11 DEF Sound, Accounted
  <1> QED
    BY <1>3, <1>8, <1>12 DEF w

\* Requalification is a release followed by an allocation at the same place.
LEMMA RequalifySound ==
  ASSUME NEW p, Sound(p), NEW b \in p.bufs, b.kind = ZB_IN_BUFFER,
         p.allocated[ZB_OUT_BUFFER] + b.cnt <= Limit,
         NEW q, q = [busy |-> p.busy,
                     allocated |-> [k \in Kinds |-> IF k = ZB_IN_BUFFER
                                                    THEN p.allocated[k] - b.cnt
                                                    ELSE p.allocated[k] + b.cnt],
                     bufs |-> (p.bufs \ {b}) \cup {[b EXCEPT !.kind = ZB_OUT_BUFFER]}]
  PROVE  Sound(q)
  <1> DEFINE o == Without(p, b)
             c == [b EXCEPT !.kind = ZB_OUT_BUFFER]
  <1>1. Sound(o) /\ b \in Buffer
    BY WithoutSound
  <1>2. /\ o.busy = p.busy \ Extent(b)
        /\ o.allocated = [p.allocated EXCEPT ![b.kind] = @ - b.cnt]
        /\ o.bufs = p.bufs \ {b}
    BY DEF Without
  <1>3. /\ c \in Buffer /\ c.at = b.at /\ c.cnt = b.cnt /\ c.kind = ZB_OUT_BUFFER
    BY <1>1 DEF Buffer, Kinds
  <1>4. p.allocated \in [Kinds -> 0 .. Limit] /\ p.busy \subseteq Places
    BY DEF Sound, Pool
  <1>5. Extent(b) \subseteq p.busy
    BY DEF Sound, Accounted, PlacesOf
  <1> HIDE DEF o, c
  <1>6. Extent(c) = Extent(b)
    BY <1>3 DEF Extent
  <1>7. o.allocated[ZB_OUT_BUFFER] = p.allocated[ZB_OUT_BUFFER]
    BY <1>2, <1>4 DEF Kinds, ZB_OUT_BUFFER, ZB_IN_BUFFER
  <1>8. Sound(With(o, c))
    <2>1. Extent(c) \cap o.busy = {} /\ Extent(c) \subseteq Places
      BY <1>2, <1>4, <1>5, <1>6
    <2>2. o.allocated[c.kind] + c.cnt <= Limit
      BY <1>3, <1>7
    <2> QED
      BY <1>1, <1>3, <2>1, <2>2, WithSound
  <1>9. o.busy \cup Extent(c) = p.busy
    BY <1>2, <1>5, <1>6
  <1>10. o.bufs \cup {c} = (p.bufs \ {b}) \cup {c}
    BY <1>2
  <1>11. [o.allocated EXCEPT ![c.kind] = @ + c.cnt] =
           [k \in Kinds |-> IF k = ZB_IN_BUFFER THEN p.allocated[k] - b.cnt
                                                ELSE p.allocated[k] + b.cnt]
    BY <1>2, <1>3, <1>4 DEF Kinds, ZB_OUT_BUFFER, ZB_IN_BUFFER
  <1>12. With(o, c) = q
    BY <1>9, <1>10, <1>11 DEF With, c
  <1> QED
    BY <1>8, <1>12

-----------------------------------------------------------------------------
(* Room.                                                                   *)

\* A kind below its limit finds a place for one, whatever the other kind holds.
LEMMA RoomForOne ==
  ASSUME NEW p, Sound(p), NEW k \in Kinds, p.allocated[k] < Limit
  PROVE  \E at \in Fits(p, 1) : \A x \in Fits(p, 1) : at <= x
  <1> DEFINE S == PlacesOf(p.bufs, ZB_OUT_BUFFER)
             T == PlacesOf(p.bufs, ZB_IN_BUFFER)
             R == OpToRel(<, Nat)
  <1>1. IsFiniteSet(S) /\ IsFiniteSet(T)
    BY PlacesOfIn DEF Kinds
  <1>2. /\ p.busy = S \cup T
        /\ p.allocated[ZB_OUT_BUFFER] = Cardinality(S)
        /\ p.allocated[ZB_IN_BUFFER] = Cardinality(T)
    BY DEF Sound, Accounted, Kinds
  <1>3. /\ p.allocated[ZB_OUT_BUFFER] \in 0 .. Limit /\ p.allocated[ZB_IN_BUFFER] \in 0 .. Limit
        /\ p.busy \subseteq Places
    BY DEF Sound, Pool, Kinds
  <1> HIDE DEF S, T, R
  <1>4. p.allocated[ZB_OUT_BUFFER] < Limit \/ p.allocated[ZB_IN_BUFFER] < Limit
    BY DEF Kinds
  <1>5. Cardinality(S) + Cardinality(T) < PoolSize
    BY <1>2, <1>3, <1>4, LimitFacts
  <1>6. Cardinality(p.busy) < PoolSize
    <2>1. Cardinality(S \cup T) = Cardinality(S) + Cardinality(T) - Cardinality(S \cap T)
      BY <1>1, FS_Union
    <2>2. Cardinality(S \cap T) \in Nat
      BY <1>1, FS_Intersection, FS_CardinalityType
    <2>3. Cardinality(S) \in Nat /\ Cardinality(T) \in Nat
      BY <1>1, FS_CardinalityType
    <2>4. Cardinality(S \cup T) <= Cardinality(S) + Cardinality(T)
      BY <2>1, <2>2, <2>3
    <2>5. Cardinality(S \cup T) \in Nat
      BY <1>1, FS_Union, FS_CardinalityType
    <2> QED
      BY <1>2, <1>5, <2>3, <2>4, <2>5, LimitFacts
  <1>7. Cardinality(Places) = PoolSize
    <2>1. Cardinality(0 .. PoolSize - 1) = IF 0 > PoolSize - 1 THEN 0 ELSE (PoolSize - 1) - 0 + 1
      BY LimitFacts, FS_Interval
    <2> QED
      BY <2>1, LimitFacts DEF Places
  <1>8. PICK x \in Places : x \notin p.busy
    <2>1. p.busy # Places
      BY <1>6, <1>7, LimitFacts
    <2> QED
      BY <1>3, <2>1
  <1>9. x \in Fits(p, 1)
    <2>1. x \in 0 .. PoolSize - 1 /\ x .. x + 1 - 1 = {x}
      BY LimitFacts DEF Places
    <2> QED
      BY <1>8, <2>1 DEF Fits
  <1>10. Fits(p, 1) \subseteq Nat
    BY LimitFacts DEF Fits
  <1>11. IsWellFoundedOn(R, Nat) /\ \A y, z \in Nat : <<z, y>> \in R <=> z < y
    BY NatLessThanWellFounded DEF R, OpToRel
  <1>12. PICK at \in Fits(p, 1) : \A y \in Fits(p, 1) : <<y, at>> \notin R
    BY <1>9, <1>10, <1>11, WFMin
  <1>13. \A y \in Fits(p, 1) : ~ (y < at)
    BY <1>10, <1>11, <1>12
  <1> QED
    BY <1>10, <1>12, <1>13

LEMMA AllocationForOne ==
  ASSUME NEW p, Sound(p), NEW k \in Kinds, NEW hi \in BOOLEAN,
         p.allocated[k] < Limit - (IF hi THEN 0 ELSE Reserve)
  PROVE  Allocations(p, k, hi, 1) # {}
  <1>1. p.allocated[k] \in Nat
    BY LimitFacts DEF Sound, Pool
  <1>2. p.allocated[k] < Limit
    BY <1>1, LimitFacts
  <1>3. PICK at \in Fits(p, 1) : \A x \in Fits(p, 1) : at <= x
    BY <1>2, RoomForOne
  <1>4. WithinLimit(p, k, hi, 1)
    BY <1>1, LimitFacts DEF WithinLimit
  <1>5. [at |-> at, cnt |-> 1, kind |-> k] \in Allocations(p, k, hi, 1)
    BY <1>3, <1>4 DEF Allocations
  <1> QED
    BY <1>5

\* A delayed request for one place waits only if its kind holds some place.
LEMMA RefusedOne ==
  ASSUME NEW p, Sound(p), NEW k \in Kinds, DelayedAllocations(p, k, 1) = {}
  PROVE  p.allocated[k] > 0
  <1>1. p.allocated[k] \in Nat
    BY LimitFacts DEF Sound, Pool
  <1>2. CASE k # ZB_OUT_BUFFER /\ ~ (Limit - p.allocated[ZB_IN_BUFFER] > RxCap)
    <2>1. k = ZB_IN_BUFFER
      BY <1>2 DEF Kinds
    <2> QED
      BY <1>1, <1>2, <2>1, LimitFacts
  <1>3. CASE k = ZB_OUT_BUFFER \/ Limit - p.allocated[ZB_IN_BUFFER] > RxCap
    <2>1. Allocations(p, k, FALSE, 1) = {}
      BY <1>3 DEF DelayedAllocations
    <2>2. ~ (p.allocated[k] < Limit - Reserve)
      BY <2>1, AllocationForOne
    <2> QED
      BY <1>1, <2>2, LimitFacts
  <1> QED
    BY <1>2, <1>3

-----------------------------------------------------------------------------
(* The invariant.                                                          *)

Queued == /\ delayed_queue \in [Kinds -> Seq(DelayedSizes)]
          /\ \A k \in Kinds : Len(delayed_queue[k]) <= QSize
          /\ moved \in BOOLEAN

IInv == Sound(bpool) /\ Queued /\ WaitedFor

LEMMA SoundGet ==
  ASSUME NEW p, Sound(p), NEW k \in Kinds, NEW hi \in BOOLEAN, NEW n \in AllSizes,
         NEW b \in Allocations(p, k, hi, n)
  PROVE  /\ Sound(With(p, b))
         /\ \A j \in Kinds : With(p, b).allocated[j] >= p.allocated[j]
         /\ With(p, b).allocated[k] > 0
  <1>1. /\ b \in Buffer /\ b.kind = k /\ b.cnt = n
        /\ Extent(b) \cap p.busy = {} /\ Extent(b) \subseteq Places
        /\ p.allocated[k] + b.cnt <= Limit
    BY AllocationFacts
  <1>2. Sound(With(p, b))
    BY <1>1, WithSound
  <1>3. p.allocated \in [Kinds -> Nat] /\ n \in Nat \ {0}
    BY SizesFacts, LimitFacts DEF Sound, Pool
  <1>4. With(p, b).allocated = [p.allocated EXCEPT ![k] = @ + n]
    BY <1>1 DEF With
  <1> QED
    BY <1>2, <1>3, <1>4

LEMMA InitInv == Init => IInv
  <1> SUFFICES ASSUME Init PROVE IInv
    OBVIOUS
  <1>1. /\ bpool.busy = {} /\ bpool.bufs = {} /\ bpool.allocated = [k \in Kinds |-> 0]
        /\ bpool \in [busy : {{}}, allocated : {[k \in Kinds |-> 0]}, bufs : {{}}]
    BY DEF Init
  <1>2. \A k \in Kinds : PlacesOf(bpool.bufs, k) = {}
    BY <1>1 DEF PlacesOf
  <1>3. Sound(bpool)
    <2>1. bpool \in Pool
      <3>1. [k \in Kinds |-> 0] \in [Kinds -> 0 .. Limit]
        BY LimitFacts
      <3> QED
        BY <1>1, <3>1 DEF Pool
    <2>2. Cardinality({}) = 0
      BY FS_EmptySet
    <2> QED
      BY <1>1, <1>2, <2>1, <2>2 DEF Sound, Accounted, Kinds
  <1>4. Queued /\ WaitedFor
    <2>1. /\ delayed_queue = [k \in Kinds |-> << >>] /\ moved = FALSE
          /\ \A k \in Kinds : delayed_queue[k] = << >>
      BY DEF Init
    <2>2. << >> \in Seq(DelayedSizes) /\ Len(<< >>) = 0 /\ 0 <= QSize
      BY PoolAssumption
    <2>3. Queued
      BY <2>1, <2>2 DEF Queued
    <2>4. WaitedFor
      BY <2>1 DEF WaitedFor
    <2> QED
      BY <2>3, <2>4
  <1> QED
    BY <1>3, <1>4 DEF IInv

\* A call that gets a buffer at once.
LEMMA GetInv ==
  ASSUME IInv, NEW k \in Kinds, NEW hi \in BOOLEAN, NEW n \in AllSizes, GetBuf(k, hi, n)
  PROVE  IInv'
  <1>1. PICK b \in Allocations(bpool, k, hi, n) : bpool' = With(bpool, b)
    BY DEF GetBuf
  <1>2. Sound(bpool) /\ delayed_queue' = delayed_queue /\ moved' = moved
    BY DEF IInv, GetBuf
  <1>3. Sound(bpool') /\ \A j \in Kinds : bpool'.allocated[j] >= bpool.allocated[j]
    BY <1>1, <1>2, SoundGet
  <1>4. /\ bpool.allocated \in [Kinds -> Nat] /\ bpool'.allocated \in [Kinds -> Nat]
    BY <1>2, <1>3, LimitFacts DEF Sound, Pool
  <1>5. Queued'
    BY <1>2 DEF IInv, Queued
  <1>6. WaitedFor'
    BY <1>2, <1>3, <1>4 DEF IInv, WaitedFor
  <1> QED
    BY <1>3, <1>5, <1>6 DEF IInv

LEMMA DelayedInv ==
  ASSUME IInv, NEW k \in Kinds, NEW n \in DelayedSizes, zb_get_buf_delayed(k, n)
  PROVE  IInv'
  <1>1. CASE /\ \E b \in DelayedAllocations(bpool, k, n) : bpool' = With(bpool, b)
             /\ UNCHANGED <<delayed_queue, moved>>
    <2>1. n \in AllSizes
      BY DEF AllSizes
    <2>2. GetBuf(k, FALSE, n)
      BY <1>1 DEF GetBuf, DelayedAllocations
    <2> QED
      BY <2>1, <2>2, GetInv
  <1>2. CASE /\ DelayedAllocations(bpool, k, n) = {}
             /\ Len(delayed_queue[k]) < QSize
             /\ delayed_queue' = [delayed_queue EXCEPT ![k] = Append(@, n)]
             /\ UNCHANGED <<bpool, moved>>
    <2>1. Sound(bpool) /\ Queued /\ WaitedFor
      BY DEF IInv
    <2>2. delayed_queue[k] \in Seq(DelayedSizes)
      BY <2>1 DEF Queued
    <2>3. /\ delayed_queue'[k] = Append(delayed_queue[k], n)
          /\ \A j \in Kinds : j # k => delayed_queue'[j] = delayed_queue[j]
      BY <1>2, <2>1 DEF Queued
    <2>4. /\ Append(delayed_queue[k], n) \in Seq(DelayedSizes)
          /\ Len(Append(delayed_queue[k], n)) = Len(delayed_queue[k]) + 1
          /\ Len(delayed_queue[k]) \in Nat
      BY <2>2
    <2>5. Queued'
      BY <1>2, <2>1, <2>3, <2>4, PoolAssumption DEF Queued
    <2>6. WaitedFor'
      <3> SUFFICES ASSUME NEW j \in Kinds, delayed_queue'[j] # << >>,
                          Head(delayed_queue'[j]) = 1, j = ZB_IN_BUFFER => ~ moved
                   PROVE  bpool.allocated[j] > 0
        BY <1>2 DEF WaitedFor
      <3>1. CASE j # k \/ delayed_queue[k] # << >>
        <4>1. CASE j # k
          BY <2>1, <2>3, <4>1 DEF WaitedFor
        <4>2. CASE j = k /\ delayed_queue[k] # << >>
          <5>1. Head(Append(delayed_queue[k], n)) = Head(delayed_queue[k])
            BY <2>2, <4>2
          <5> QED
            BY <2>1, <2>3, <4>2, <5>1 DEF WaitedFor
        <4> QED
          BY <3>1, <4>1, <4>2
      <3>2. CASE j = k /\ delayed_queue[k] = << >>
        <4>1. Head(Append(delayed_queue[k], n)) = n
          BY <2>2, <3>2
        <4>2. DelayedAllocations(bpool, k, 1) = {}
          BY <1>2, <2>3, <3>2, <4>1
        <4> QED
          BY <2>1, <3>2, <4>2, RefusedOne
      <3> QED
        BY <3>1, <3>2
    <2>7. Sound(bpool)'
      BY <1>2, <2>1 DEF Sound, Accounted
    <2> QED
      BY <2>5, <2>6, <2>7 DEF IInv
  <1> QED
    BY <1>1, <1>2 DEF zb_get_buf_delayed

\* A release, with the head of the queue of its kind served or not.
LEMMA FreeInv ==
  ASSUME IInv, NEW b \in bpool.bufs, zb_buf_free(b)
  PROVE  IInv'
  <1> DEFINE p == Without(bpool, b)
             k == b.kind
  <1>1. Sound(bpool) /\ Queued /\ WaitedFor
    BY DEF IInv
  <1>2. Sound(p) /\ b \in Buffer
    BY <1>1, WithoutSound
  <1>3. k \in Kinds /\ b.cnt \in Nat
    BY <1>2, BufferFacts
  <1>4. /\ bpool.allocated \in [Kinds -> Nat] /\ p.allocated \in [Kinds -> Nat]
        /\ \A j \in Kinds : j # k => p.allocated[j] = bpool.allocated[j]
    <2>1. p.allocated = [bpool.allocated EXCEPT ![k] = @ - b.cnt]
      BY DEF Without
    <2>2. bpool.allocated \in [Kinds -> Nat]
      BY <1>1, LimitFacts DEF Sound, Pool
    <2>3. p.allocated \in [Kinds -> Nat]
      BY <1>2, LimitFacts DEF Sound, Pool
    <2> QED
      BY <2>1, <2>2, <2>3
  <1> HIDE DEF p
  <1>5. CASE FlushNothing(p, k)
    <2>1. /\ bpool' = p /\ delayed_queue' = delayed_queue /\ moved' = moved
          /\ delayed_queue[k] # << >> => DelayedAllocations(p, k, Head(delayed_queue[k])) = {}
      BY <1>5 DEF FlushNothing
    <2>2. Queued'
      BY <1>1, <2>1 DEF Queued
    <2>3. WaitedFor'
      <3> SUFFICES ASSUME NEW j \in Kinds, delayed_queue[j] # << >>,
                          Head(delayed_queue[j]) = 1, j = ZB_IN_BUFFER => ~ moved
                   PROVE  p.allocated[j] > 0
        BY <2>1 DEF WaitedFor
      <3>1. CASE j = k
        BY <1>2, <1>3, <2>1, <3>1, RefusedOne
      <3>2. CASE j # k
        BY <1>1, <1>4, <3>2 DEF WaitedFor
      <3> QED
        BY <3>1, <3>2
    <2> QED
      BY <1>2, <2>1, <2>2, <2>3 DEF IInv
  <1>6. CASE FlushHead(p, k)
    <2>1. /\ delayed_queue[k] # << >>
          /\ delayed_queue' = [delayed_queue EXCEPT ![k] = Tail(@)]
          /\ moved' = (moved /\ (k = ZB_IN_BUFFER => Len(delayed_queue[k]) > 1))
      BY <1>6 DEF FlushHead
    <2>2. PICK c \in DelayedAllocations(p, k, Head(delayed_queue[k])) : bpool' = With(p, c)
      BY <1>6 DEF FlushHead
    <2>3. delayed_queue[k] \in Seq(DelayedSizes)
      BY <1>1, <1>3 DEF Queued
    <2>4. Head(delayed_queue[k]) \in AllSizes
      BY <2>1, <2>3 DEF AllSizes
    <2>5. c \in Allocations(p, k, FALSE, Head(delayed_queue[k]))
      BY <2>2 DEF DelayedAllocations
    <2>6. /\ Sound(bpool') /\ bpool'.allocated[k] > 0
          /\ \A j \in Kinds : bpool'.allocated[j] >= p.allocated[j]
      BY <1>2, <1>3, <2>2, <2>4, <2>5, SoundGet
    <2>7. bpool'.allocated \in [Kinds -> Nat]
      BY <2>6, LimitFacts DEF Sound, Pool
    <2>8. /\ delayed_queue'[k] = Tail(delayed_queue[k])
          /\ \A j \in Kinds : j # k => delayed_queue'[j] = delayed_queue[j]
          /\ Tail(delayed_queue[k]) \in Seq(DelayedSizes)
          /\ Len(Tail(delayed_queue[k])) = Len(delayed_queue[k]) - 1
          /\ Len(delayed_queue[k]) \in Nat
      BY <1>1, <1>3, <2>1, <2>3 DEF Queued
    <2>9. Queued'
      BY <1>1, <1>3, <2>1, <2>8, PoolAssumption DEF Queued
    <2>10. WaitedFor'
      <3> SUFFICES ASSUME NEW j \in Kinds, delayed_queue'[j] # << >>,
                          Head(delayed_queue'[j]) = 1, j = ZB_IN_BUFFER => ~ moved'
                   PROVE  bpool'.allocated[j] > 0
        BY DEF WaitedFor
      <3>1. CASE j = k
        BY <2>6, <3>1
      <3>2. CASE j # k
        <4>1. j = ZB_IN_BUFFER => ~ moved
          BY <2>1, <3>2
        <4>2. bpool.allocated[j] > 0
          BY <1>1, <2>8, <3>2, <4>1 DEF WaitedFor
        <4> QED
          BY <1>4, <2>6, <2>7, <3>2, <4>2
      <3> QED
        BY <3>1, <3>2
    <2> QED
      BY <2>6, <2>9, <2>10 DEF IInv
  <1> QED
    BY <1>5, <1>6 DEF zb_buf_free, Flush, p

LEMMA RequalifyInv ==
  ASSUME IInv, NEW b \in bpool.bufs, zb_buf_requalify_in_to_out(b)
  PROVE  IInv'
  <1>1. Sound(bpool) /\ Queued /\ WaitedFor
    BY DEF IInv
  <1>2. /\ b.kind = ZB_IN_BUFFER
        /\ bpool.allocated[ZB_OUT_BUFFER] + b.cnt <= Limit - Reserve
        /\ bpool' = [busy |-> bpool.busy,
                     allocated |-> [k \in Kinds |-> IF k = ZB_IN_BUFFER
                                                    THEN bpool.allocated[k] - b.cnt
                                                    ELSE bpool.allocated[k] + b.cnt],
                     bufs |-> (bpool.bufs \ {b}) \cup {[b EXCEPT !.kind = ZB_OUT_BUFFER]}]
        /\ moved' = (delayed_queue[ZB_IN_BUFFER] # << >>)
        /\ delayed_queue' = delayed_queue
    BY DEF zb_buf_requalify_in_to_out
  <1>3. b.cnt \in Nat /\ bpool.allocated \in [Kinds -> Nat]
    BY <1>1, BufferFacts, LimitFacts DEF Sound, Pool
  <1>4. Sound(bpool')
    <2>1. bpool.allocated[ZB_OUT_BUFFER] + b.cnt <= Limit
      BY <1>2, <1>3, LimitFacts DEF Kinds
    <2> QED
      BY <1>1, <1>2, <2>1, RequalifySound
  <1>5. Queued'
    BY <1>1, <1>2 DEF Queued
  <1>6. WaitedFor'
    <2> SUFFICES ASSUME NEW j \in Kinds, delayed_queue[j] # << >>,
                        Head(delayed_queue[j]) = 1, j = ZB_IN_BUFFER => ~ moved'
                 PROVE  bpool'.allocated[j] > 0
      BY <1>2 DEF WaitedFor
    <2>1. j # ZB_IN_BUFFER
      BY <1>2
    <2>2. bpool.allocated[j] > 0
      BY <1>1, <2>1 DEF WaitedFor
    <2>3. bpool'.allocated[j] = bpool.allocated[j] + b.cnt
      BY <1>2, <2>1
    <2> QED
      BY <1>3, <2>2, <2>3
  <1> QED
    BY <1>4, <1>5, <1>6 DEF IInv

LEMMA NextInv == IInv /\ [Next]_vars => IInv'
  <1> SUFFICES ASSUME IInv, [Next]_vars PROVE IInv'
    OBVIOUS
  <1>1. ASSUME NEW k \in Kinds, NEW n \in Sizes, zb_buf_get(k, n) PROVE IInv'
    BY <1>1, GetInv DEF zb_buf_get, AllSizes
  <1>2. ASSUME NEW k \in Kinds, zb_buf_get_hipri(k) PROVE IInv'
    BY <1>2, GetInv DEF zb_buf_get_hipri, AllSizes
  <1>3. ASSUME zb_buf_get_any PROVE IInv'
    BY <1>3, GetInv DEF zb_buf_get_any, zb_buf_get, AllSizes, Kinds
  <1>4. ASSUME NEW k \in Kinds, NEW n \in DelayedSizes, zb_get_buf_delayed(k, n) PROVE IInv'
    BY <1>4, DelayedInv
  <1>5. ASSUME NEW b \in bpool.bufs, zb_buf_free(b) PROVE IInv'
    BY <1>5, FreeInv
  <1>6. ASSUME NEW b \in bpool.bufs, zb_buf_requalify_in_to_out(b) PROVE IInv'
    BY <1>6, RequalifyInv
  <1>7. CASE UNCHANGED vars
    BY <1>7 DEF vars, IInv, Queued, WaitedFor
  <1> QED
    BY <1>1, <1>2, <1>3, <1>4, <1>5, <1>6, <1>7 DEF Next

THEOREM PoolInvariant == Spec => []IInv
  BY InitInv, NextInv, PTL DEF Spec

-----------------------------------------------------------------------------
(* What it gives.                                                          *)

\* The state of the pool is of its type: in particular no kind ever has more
\* than half of the places.
THEOREM TypeCorrect == Spec => []TypeOK
  <1>1. IInv => TypeOK
    BY DEF IInv, Sound, Queued, Pool, TypeOK
  <1> QED
    BY <1>1, PoolInvariant, PTL

\* The bitmap, the headers and the counters always agree.
THEOREM AccountsAgree == Spec => []PoolAccounts
  <1>1. IInv => PoolAccounts
    BY DEF IInv, Sound, PoolAccounts
  <1> QED
    BY <1>1, PoolInvariant, PTL

\* A high-priority call of a kind below its limit always finds a place.
THEOREM HalvesIndependent == Spec => []HalvesAreIndependent
  <1>1. IInv => HalvesAreIndependent
    <2> SUFFICES ASSUME IInv, NEW k \in Kinds, bpool.allocated[k] < Limit
                 PROVE  Allocations(bpool, k, TRUE, 1) # {}
      BY DEF HalvesAreIndependent
    <2>1. bpool.allocated[k] < Limit - 0
      BY LimitFacts DEF IInv, Sound, Pool
    <2>2. Sound(bpool)
      BY DEF IInv
    <2> QED
      BY <2>1, <2>2, AllocationForOne
  <1> QED
    BY <1>1, PoolInvariant, PTL

\* Who waits for one place waits for a buffer somebody holds.
THEOREM NobodyWaitsAlone == Spec => []WaitedFor
  <1>1. IInv => WaitedFor
    BY DEF IInv
  <1> QED
    BY <1>1, PoolInvariant, PTL
=============================================================================
