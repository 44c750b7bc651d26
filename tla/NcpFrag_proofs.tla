--------------------------- MODULE NcpFrag_proofs ---------------------------
(***************************************************************************)
(* Proofs about NcpFrag.  The frames in the link and the one in the        *)
(* divider form a stream in which each frame is the piece that follows the *)
(* one before it or the first of another packet, even after losses, which  *)
(* only take frames away at its head.  The reassembly is empty, holds a    *)
(* byte of a damaged packet, or holds the beginning of one packet up to a  *)
(* cut, at least Body before its end, and what it has still to see of the  *)
(* stream (the rest) goes on there, with a new packet, or with a damaged   *)
(* one.  The head of the stream may come once more only if it is the first *)
(* fragment of its packet, or when the reassembly is empty and skips it.   *)
(*                                                                         *)
(* The last part follows the packets that nothing happens to: they come in *)
(* ascending order and without a gap, the reassembly stands where the one  *)
(* at the head of the stream goes on, and each that has left the stream is *)
(* delivered, behind the packets before it.                                *)
(***************************************************************************)
EXTENDS NcpFrag, TLAPS

-----------------------------------------------------------------------------
(* Division by Body.                                                       *)

LEMMA DivMod ==
  ASSUME NEW n \in Nat
  PROVE  n \div Body \in Nat /\ n % Body \in 0 .. Body - 1 /\ n = Body * (n \div Body) + (n % Body)
<1>1. n \div Body \in Nat /\ n % Body \in 0 .. Body - 1
  BY FragAssumption, SMT
<1>2. n = Body * (n \div Body) + (n % Body)
  BY FragAssumption, SMT
<1> QED
  BY <1>1, <1>2

LEMMA DivUnique ==
  ASSUME NEW n \in Nat, NEW q \in Nat, NEW r \in 0 .. Body - 1, n = Body * q + r
  PROVE  n \div Body = q /\ n % Body = r
BY FragAssumption, SMTT(30)

LEMMA LessBody ==
  ASSUME NEW n \in Nat, n >= Body
  PROVE  (n - Body) % Body = n % Body
<1>1. PICK q \in Nat, r \in 0 .. Body - 1 : n = Body * q + r /\ r = n % Body
  BY DivMod
<1>2. q # 0
  BY <1>1, FragAssumption
<1>3. q - 1 \in Nat /\ n - Body \in Nat
  BY <1>2, FragAssumption
<1>4. n - Body = Body * (q - 1) + r
  BY <1>1, FragAssumption, SMT
<1> QED
  BY <1>1, <1>3, <1>4, DivUnique

LEMMA LessRest ==
  ASSUME NEW n \in Nat
  PROVE  n - (n % Body) \in Nat /\ (n - (n % Body)) % Body = 0
<1>1. PICK q \in Nat, r \in 0 .. Body - 1 : n = Body * q + r /\ r = n % Body
  BY DivMod
<1>2. PICK k \in Nat : k = Body * q
  BY FragAssumption, SMT
<1>3. k = Body * q + 0 /\ k = n - r /\ 0 \in 0 .. Body - 1
  BY <1>1, <1>2, FragAssumption
<1>4. k % Body = 0
  BY <1>3, DivUnique
<1> QED
  BY <1>1, <1>3, <1>4

LEMMA AtLeastBody ==
  ASSUME NEW n \in Nat \ {0}, n % Body = 0
  PROVE  n >= Body
BY FragAssumption, SMT

(* A piece of at most Body is one piece.                                   *)
LEMMA OnePiece ==
  ASSUME NEW n \in 1 .. Body
  PROVE  Pieces(n) = 1 /\ Pieces(0) = 0
<1>1. (n + Body - 1) \div Body = 1
  BY FragAssumption, SMT
<1>2. (0 + Body - 1) \div Body = 0
  BY FragAssumption, SMT
<1> QED
  BY <1>1, <1>2 DEF Pieces

LEMMA WholePiece ==
  ASSUME NEW n \in Nat, n >= Body
  PROVE  Pieces(n) = 1 + Pieces(n - Body)
<1>1. n + Body - 1 \in Nat /\ n + Body - 1 >= Body
  BY FragAssumption
<1>2. PICK k \in Nat : k = n + Body - 1 /\ k >= Body
  BY <1>1
<1>3. k \div Body = 1 + ((k - Body) \div Body)
  BY <1>2, FragAssumption, SMTT(30)
<1>4. k - Body = (n - Body) + Body - 1
  BY <1>2, FragAssumption
<1> QED
  BY <1>2, <1>3, <1>4 DEF Pieces

LEMMA SmallPiece ==
  ASSUME NEW n \in Nat, n % Body # 0
  PROVE  Pieces(n) = 1 + Pieces(n - (n % Body))
<1>1. ((n - (n % Body)) + Body - 1) \div Body + 1 = (n + Body - 1) \div Body
  BY FragAssumption, SMTT(30)
<1> QED
  BY <1>1, FragAssumption DEF Pieces

-----------------------------------------------------------------------------
(* The cuts of a packet.                                                   *)

\* Where a packet may be cut: a multiple of Body before its end.
Cut(size, k) == k = 0 \/ (k \in 1 .. size - 1 /\ (size - k) % Body = 0)

\* From a cut on, a piece that is not the last one leads to the next cut, and
\* leaves at least Body for the pieces after it.
LEMMA PieceToCut ==
  ASSUME NEW size \in 1 .. Big, NEW k \in Nat, Cut(size, k), k + Body < size
  PROVE  /\ PieceSize(size, k) \in 1 .. Body
         /\ Cut(size, k + PieceSize(size, k))
         /\ k + PieceSize(size, k) + Body <= size
         /\ Pieces(size - k) = 1 + Pieces(size - (k + PieceSize(size, k)))
<1>1. CASE k = 0 /\ size % Body # 0
  <2>1. PieceSize(size, k) = size % Body
    BY <1>1, FragAssumption DEF PieceSize
  <2>2. PICK r \in 1 .. Body : r = size % Body /\ size - r \in Nat /\ (size - r) % Body = 0
    BY <1>1, DivMod, LessRest, FragAssumption
  <2>3. r < size /\ size - r >= Body
    BY <2>2, AtLeastBody, FragAssumption
  <2>4. Pieces(size) = 1 + Pieces(size - r)
    BY <2>2, <1>1, SmallPiece, FragAssumption
  <2> QED
    BY <1>1, <2>1, <2>2, <2>3, <2>4, FragAssumption DEF Cut
<1>2. CASE ~(k = 0 /\ size % Body # 0)
  <2>1. PieceSize(size, k) = Body
    BY <1>2, FragAssumption DEF PieceSize
  <2>2. PICK n \in Nat : n = size - k /\ n > Body
    BY FragAssumption
  <2>3. n % Body = 0
    BY <1>2, <2>2 DEF Cut
  <2>4. (n - Body) % Body = 0
    <3>1. n >= Body
      BY <2>2, FragAssumption
    <3> QED
      BY <2>3, <3>1, LessBody
  <2>5. n - Body >= Body
    BY <2>2, <2>4, AtLeastBody, FragAssumption
  <2>6. Pieces(n) = 1 + Pieces(n - Body)
    BY <2>2, WholePiece, FragAssumption
  <2>7. size - (k + Body) = n - Body
    BY <2>2, FragAssumption
  <2> QED
    BY <2>1, <2>2, <2>4, <2>5, <2>6, <2>7, FragAssumption DEF Cut
<1> QED
  BY <1>1, <1>2

LEMMA LastPiece ==
  ASSUME NEW size \in 1 .. Big, NEW k \in Nat, Cut(size, k), k + Body >= size
  PROVE  /\ PieceSize(size, k) \in 1 .. Body
         /\ k + PieceSize(size, k) = size
         /\ Pieces(size - k) = 1 + Pieces(0)
<1>1. PieceSize(size, k) = size - k /\ size - k \in 1 .. Body
  BY FragAssumption DEF PieceSize, Cut
<1> QED
  BY <1>1, OnePiece, FragAssumption

LEMMA CutRange ==
  ASSUME NEW size \in 1 .. Big, NEW k, Cut(size, k)
  PROVE  k \in 0 .. size - 1
BY FragAssumption DEF Cut

-----------------------------------------------------------------------------
(* Bytes.                                                                  *)

LEMMA BytesType ==
  ASSUME NEW M, NEW m \in M, NEW from \in Nat, NEW size \in Nat, from + size <= Big
  PROVE  Bytes(m, from, size) \in Seq(M \X (1 .. Big)) /\ Len(Bytes(m, from, size)) = size
<1>1. \A i \in 1 .. size : <<m, from + i>> \in M \X (1 .. Big)
  BY FragAssumption
<1> QED
  BY <1>1 DEF Bytes

LEMMA BytesJoin ==
  ASSUME NEW m, NEW k \in Nat, NEW n \in Nat
  PROVE  Bytes(m, 0, k) \o Bytes(m, k, n) = Bytes(m, 0, k + n)
BY DEF Bytes

LEMMA BytesPackets ==
  ASSUME NEW m, NEW from \in Nat, NEW size \in Nat \ {0}
  PROVE  PacketsIn(Bytes(m, from, size)) = {m}
<1>1. DOMAIN Bytes(m, from, size) = 1 .. size
  BY DEF Bytes
<1>2. \A i \in 1 .. size : Bytes(m, from, size)[i] = <<m, from + i>> /\ Bytes(m, from, size)[i][1] = m
  BY DEF Bytes
<1>3. 1 \in 1 .. size
  OBVIOUS
<1> QED
  BY <1>1, <1>2, <1>3, Zenon DEF PacketsIn, ToSet

LEMMA JoinedPackets ==
  ASSUME NEW S, NEW r \in Seq(S), NEW t \in Seq(S)
  PROVE  PacketsIn(r \o t) = PacketsIn(r) \cup PacketsIn(t)
<1>1. ToSet(r \o t) = ToSet(r) \cup ToSet(t)
  <2>1. \A i \in 1 .. Len(r) : (r \o t)[i] = r[i] /\ i \in 1 .. Len(r \o t)
    OBVIOUS
  <2>2. \A i \in 1 .. Len(t) : (r \o t)[Len(r) + i] = t[i] /\ Len(r) + i \in 1 .. Len(r \o t)
    OBVIOUS
  <2>3. \A i \in 1 .. Len(r \o t) : (i \in 1 .. Len(r) /\ (r \o t)[i] = r[i])
                                 \/ (i - Len(r) \in 1 .. Len(t) /\ (r \o t)[i] = t[i - Len(r)])
    OBVIOUS
  <2>4. DOMAIN r = 1 .. Len(r) /\ DOMAIN t = 1 .. Len(t) /\ DOMAIN (r \o t) = 1 .. Len(r \o t)
    OBVIOUS
  <2>5. ASSUME NEW x \in ToSet(r \o t) PROVE x \in ToSet(r) \cup ToSet(t)
    BY <2>3, <2>4 DEF ToSet
  <2>6. ASSUME NEW x \in ToSet(r) PROVE x \in ToSet(r \o t)
    <3>1. PICK i \in 1 .. Len(r) : x = r[i]
      BY <2>4, Zenon DEF ToSet
    <3> QED
      BY <2>1, <2>4, <3>1, Zenon DEF ToSet
  <2>7. ASSUME NEW x \in ToSet(t) PROVE x \in ToSet(r \o t)
    <3>1. PICK i \in 1 .. Len(t) : x = t[i]
      BY <2>4, Zenon DEF ToSet
    <3> QED
      BY <2>2, <2>4, <3>1, Zenon DEF ToSet
  <2> QED
    BY <2>5, <2>6, <2>7, Zenon
<1> QED
  BY <1>1, Zenon DEF PacketsIn

LEMMA PacketsType ==
  ASSUME NEW M, NEW r \in Seq(M \X (1 .. Big))
  PROVE  PacketsIn(r) \subseteq M
<1>1. \A i \in DOMAIN r : r[i] \in M \X (1 .. Big)
  OBVIOUS
<1> QED
  BY <1>1, Zenon DEF PacketsIn, ToSet

-----------------------------------------------------------------------------
(* The stream of frames.                                                   *)

\* f is a piece of one of the packets sent.
IsPiece(s, f) == \E m \in 1 .. Len(s), k \in Nat : Cut(s[m], k) /\ f = Piece(m, s[m], k)

\* g comes right behind f.
Continues(f, g) == IF f.END THEN g.START ELSE g.pkt = f.pkt /\ g.from = f.from + f.size

Chain(s, q) == /\ q \in Seq(Frame)
               /\ \A i \in 1 .. Len(q) : IsPiece(s, q[i])
               /\ \A i \in 1 .. Len(q) - 1 : Continues(q[i], q[i + 1])

LEMMA Element ==
  ASSUME NEW S, NEW s \in Seq(S), NEW i \in 1 .. Len(s)
  PROVE  s[i] \in S
OBVIOUS

LEMMA PieceFields ==
  ASSUME NEW m, NEW size, NEW k
  PROVE  /\ Piece(m, size, k).pkt = m
         /\ Piece(m, size, k).from = k
         /\ Piece(m, size, k).size = PieceSize(size, k)
         /\ Piece(m, size, k).START <=> k = 0
         /\ Piece(m, size, k).END <=> k + Body >= size
BY Zenon DEF Piece

LEMMA PieceFacts ==
  ASSUME NEW s \in Seq(1 .. Big), NEW f, IsPiece(s, f)
  PROVE  /\ f.pkt \in 1 .. Len(s)
         /\ s[f.pkt] \in 1 .. Big
         /\ f.from \in 0 .. Big - 1
         /\ f.size \in 1 .. Body
         /\ f.from + f.size <= s[f.pkt]
         /\ f.START <=> f.from = 0
         /\ f.END => f.from + f.size = s[f.pkt]
         /\ ~f.END => /\ Cut(s[f.pkt], f.from + f.size)
                      /\ f.from + f.size + Body <= s[f.pkt]
<1>1. PICK m \in 1 .. Len(s), k \in Nat : Cut(s[m], k) /\ f = Piece(m, s[m], k)
  BY DEF IsPiece
<1>2. PICK size \in 1 .. Big : size = s[m]
  BY Element, Zenon
<1>3. /\ f.pkt = m /\ f.from = k
      /\ f.size = PieceSize(size, k)
      /\ f.START <=> k = 0
      /\ f.END <=> k + Body >= size
  <2>1. f = Piece(m, size, k)
    BY <1>1, <1>2
  <2>2. /\ Piece(m, size, k).pkt = m
        /\ Piece(m, size, k).from = k
        /\ Piece(m, size, k).size = PieceSize(size, k)
        /\ Piece(m, size, k).START <=> k = 0
        /\ Piece(m, size, k).END <=> k + Body >= size
    BY PieceFields, Zenon
  <2> QED
    BY <2>1, <2>2
<1>4. Cut(size, k)
  BY <1>1, <1>2
<1>5. k \in 0 .. size - 1
  BY <1>4, CutRange
<1>8. CASE f.END
  <2>1. PieceSize(size, k) \in 1 .. Body /\ k + PieceSize(size, k) = size
    BY <1>3, <1>4, <1>8, LastPiece
  <2>2. f.size \in 1 .. Body /\ f.from + f.size = s[f.pkt]
    BY <1>2, <1>3, <2>1
  <2>3. f.from + f.size <= s[f.pkt]
    BY <1>2, <1>3, <2>2
  <2> QED
    BY <1>2, <1>3, <1>5, <1>8, <2>2, <2>3, FragAssumption
<1>9. CASE ~f.END
  <2>1. k + Body < size
    BY <1>3, <1>9, FragAssumption
  <2>2. /\ PieceSize(size, k) \in 1 .. Body
        /\ Cut(size, k + PieceSize(size, k))
        /\ k + PieceSize(size, k) + Body <= size
    BY <1>4, <2>1, PieceToCut
  <2>3. /\ f.size \in 1 .. Body
        /\ Cut(s[f.pkt], f.from + f.size)
        /\ f.from + f.size + Body <= s[f.pkt]
    BY <1>2, <1>3, <2>2
  <2>4. f.from + f.size <= s[f.pkt]
    BY <1>2, <1>3, <2>3, FragAssumption
  <2> QED
    BY <1>2, <1>3, <1>5, <1>9, <2>3, <2>4, FragAssumption
<1> QED
  BY <1>8, <1>9

LEMMA NewPiece ==
  ASSUME NEW s \in Seq(1 .. Big), Len(s) <= MaxPkts,
         NEW m \in 1 .. Len(s), NEW k, Cut(s[m], k)
  PROVE  Piece(m, s[m], k) \in Frame /\ IsPiece(s, Piece(m, s[m], k))
<1>1. s[m] \in 1 .. Big
  BY Element, Zenon
<1>2. k \in 0 .. s[m] - 1 /\ k \in 0 .. Big
  BY <1>1, CutRange, FragAssumption
<1>0. IsPiece(s, Piece(m, s[m], k))
  BY <1>2 DEF IsPiece
<1>3. Piece(m, s[m], k).size \in 1 .. Body
  BY <1>0, PieceFacts
<1>4. PieceSize(s[m], k) \in 1 .. Body
  BY <1>3, PieceFields
<1>5. (k = 0) \in BOOLEAN /\ (k + Body >= s[m]) \in BOOLEAN
  OBVIOUS
<1>6. m \in 1 .. MaxPkts
  BY FragAssumption
<1>7. Piece(m, s[m], k) \in Frame
  BY <1>2, <1>4, <1>5, <1>6, Zenon DEF Piece, Frame
<1> QED
  BY <1>0, <1>7

LEMMA MorePackets ==
  ASSUME NEW S, NEW s \in Seq(S), NEW z, NEW f, IsPiece(s, f)
  PROVE  IsPiece(Append(s, z), f)
<1>1. PICK m \in 1 .. Len(s), k \in Nat : Cut(s[m], k) /\ f = Piece(m, s[m], k)
  BY DEF IsPiece
<1>2. m \in 1 .. Len(Append(s, z)) /\ Append(s, z)[m] = s[m]
  OBVIOUS
<1> QED
  BY <1>1, <1>2 DEF IsPiece

LEMMA ChainTail ==
  ASSUME NEW s, NEW q, Chain(s, q), q # << >>
  PROVE  /\ Chain(s, Tail(q))
         /\ Tail(q) # << >> => Continues(q[1], Tail(q)[1])
<1>1. q \in Seq(Frame) /\ Len(q) > 0
  BY DEF Chain
<1>2. Tail(q) \in Seq(Frame) /\ Len(Tail(q)) = Len(q) - 1
  BY <1>1
<1>3. \A i \in 1 .. Len(q) - 1 : Tail(q)[i] = q[i + 1]
  BY <1>1
<1>4. \A i \in 1 .. Len(Tail(q)) : IsPiece(s, Tail(q)[i])
  BY <1>1, <1>2, <1>3 DEF Chain
<1>5. \A i \in 1 .. Len(Tail(q)) - 1 : Continues(Tail(q)[i], Tail(q)[i + 1])
  <2> TAKE i \in 1 .. Len(Tail(q)) - 1
  <2>1. i + 1 \in 1 .. Len(q) - 1 /\ i \in 1 .. Len(q) - 1
    BY <1>1, <1>2
  <2>2. Continues(q[i + 1], q[i + 1 + 1])
    BY <2>1 DEF Chain
  <2> QED
    BY <2>1, <2>2, <1>3
<1>6. Tail(q) # << >> => Continues(q[1], Tail(q)[1])
  <2> HAVE Tail(q) # << >>
  <2>1. 1 \in 1 .. Len(q) - 1
    BY <1>1, <1>2
  <2>2. Continues(q[1], q[1 + 1])
    BY <2>1 DEF Chain
  <2> QED
    BY <2>1, <2>2, <1>3
<1> QED
  BY <1>2, <1>4, <1>5, <1>6 DEF Chain

LEMMA ChainAppend ==
  ASSUME NEW s, NEW q, Chain(s, q), NEW g \in Frame, IsPiece(s, g),
         q # << >> => Continues(q[Len(q)], g)
  PROVE  Chain(s, Append(q, g))
<1> DEFINE r == Append(q, g)
<1>1. q \in Seq(Frame)
  BY DEF Chain
<1>2. r \in Seq(Frame) /\ Len(r) = Len(q) + 1 /\ r[Len(q) + 1] = g
  BY <1>1
<1>3. \A i \in 1 .. Len(q) : r[i] = q[i]
  BY <1>1
<1>4. \A i \in 1 .. Len(r) : IsPiece(s, r[i])
  <2> TAKE i \in 1 .. Len(r)
  <2>1. CASE i \in 1 .. Len(q)
    BY <2>1, <1>3 DEF Chain
  <2>2. CASE i = Len(q) + 1
    BY <2>2, <1>2
  <2> QED
    BY <2>1, <2>2, <1>1, <1>2
<1>5. \A i \in 1 .. Len(r) - 1 : Continues(r[i], r[i + 1])
  <2> TAKE i \in 1 .. Len(r) - 1
  <2>1. CASE i \in 1 .. Len(q) - 1
    <3>1. i \in 1 .. Len(q) /\ i + 1 \in 1 .. Len(q)
      BY <2>1, <1>1
    <3>2. Continues(q[i], q[i + 1])
      BY <2>1 DEF Chain
    <3> QED
      BY <3>1, <3>2, <1>3
  <2>2. CASE i = Len(q)
    BY <2>2, <1>1, <1>2, <1>3
  <2> QED
    BY <2>1, <2>2, <1>1, <1>2
<1> QED
  BY <1>2, <1>4, <1>5 DEF Chain

LEMMA ChainMorePackets ==
  ASSUME NEW S, NEW s \in Seq(S), NEW z, NEW q, Chain(s, q)
  PROVE  Chain(Append(s, z), q)
BY MorePackets DEF Chain

-----------------------------------------------------------------------------
(* The reassembly.                                                         *)

Touched(r, d) == PacketsIn(r) \cap d # {}

\* The frame g may come when the first k bytes of packet m are there.
Expected(g, m, k, d) == g.START \/ (g.pkt = m /\ g.from = k) \/ g.pkt \in d

Beginning(s, r, d, q) ==
  \E m \in 1 .. Len(s), k \in 1 .. Big :
    /\ r = Bytes(m, 0, k)
    /\ Cut(s[m], k)
    /\ k + Body <= s[m]
    /\ q # << >> => Expected(q[1], m, k, d)

\* What the reassembly holds while the stream q is on its way.
Sane(s, r, d, q) == r = << >> \/ Touched(r, d) \/ Beginning(s, r, d, q)

\* What may be delivered.
Good(s, r, d) == Touched(r, d) \/ \E m \in 1 .. Len(s) : r = Bytes(m, 0, s[m])

Joined(r, f, n) == (IF f.START THEN << >> ELSE r) \o Bytes(f.pkt, f.from, n)

LEMMA PlaceFacts ==
  ASSUME NEW k \in 0 .. Big
  PROVE  /\ PlaceSize(k) \in 0 .. Body
         /\ k + PlaceSize(k) <= Big
         /\ k + Body <= Big => PlaceSize(k) = Body
BY FragAssumption DEF PlaceSize

LEMMA Concat ==
  ASSUME NEW S, NEW r \in Seq(S), NEW t \in Seq(S)
  PROVE  r \o t \in Seq(S) /\ Len(r \o t) = Len(r) + Len(t)
OBVIOUS

LEMMA Bounded ==
  ASSUME NEW k \in Nat, NEW n \in Nat, NEW z \in Nat, NEW size \in Nat, NEW b \in Nat,
         n <= z, k + z <= size, size <= b
  PROVE  k + n <= b /\ \A c \in Nat : z <= c => n <= c
OBVIOUS

LEMMA JoinedFacts ==
  ASSUME NEW M, NEW r \in Seq(M \X (1 .. Big)), Len(r) <= Big,
         NEW f, f.pkt \in M, f.from \in Nat, f.START => f.from = 0,
         NEW n \in Nat \ {0}, f.from + n <= Big, n <= Body, n <= PlaceSize(Len(r))
  PROVE  /\ Joined(r, f, n) \in Seq(M \X (1 .. Big))
         /\ Len(Joined(r, f, n)) <= Big
         /\ f.pkt \in PacketsIn(Joined(r, f, n))
         /\ ~f.START => PacketsIn(r) \subseteq PacketsIn(Joined(r, f, n))
<1>1. PICK b \in Seq(M \X (1 .. Big)) : b = Bytes(f.pkt, f.from, n) /\ Len(b) = n
  <2>1. PICK m \in M, k \in Nat : m = f.pkt /\ k = f.from
    OBVIOUS
  <2>2. k + n <= Big /\ n \in Nat
    BY <2>1
  <2>3. Bytes(m, k, n) \in Seq(M \X (1 .. Big)) /\ Len(Bytes(m, k, n)) = n
    BY <2>2, BytesType
  <2> QED
    BY <2>1, <2>3
<1>2. PacketsIn(b) = {f.pkt}
  BY <1>1, BytesPackets
<1>3. << >> \in Seq(M \X (1 .. Big)) /\ Len(<< >>) = 0
  OBVIOUS
<1>4. Len(r) + PlaceSize(Len(r)) <= Big
  <2>1. Len(r) \in 0 .. Big
    BY FragAssumption
  <2> QED
    BY <2>1, PlaceFacts
<1>5. PlaceSize(Len(r)) \in Nat
  <2>1. Len(r) \in 0 .. Big
    BY FragAssumption
  <2> QED
    BY <2>1, PlaceFacts, FragAssumption
<1>6. CASE f.START
  <2>1. Joined(r, f, n) = << >> \o b
    BY <1>1, <1>6, Zenon DEF Joined
  <2>2. << >> \o b = b
    BY <1>1
  <2> QED
    BY <1>6, <2>1, <2>2, <1>1, <1>2, FragAssumption
<1>7. CASE ~f.START
  <2>1. Joined(r, f, n) = r \o b
    BY <1>1, <1>7, Zenon DEF Joined
  <2>2. r \o b \in Seq(M \X (1 .. Big)) /\ Len(r \o b) = Len(r) + n
    BY <1>1, Concat
  <2>3. PacketsIn(r \o b) = PacketsIn(r) \cup PacketsIn(b)
    BY <1>1, JoinedPackets
  <2>4. Len(r) + n <= Big
    BY <1>4, <1>5, FragAssumption
  <2> QED
    BY <1>2, <2>1, <2>2, <2>3, <2>4
<1> QED
  BY <1>6, <1>7

\* A frame that comes to a reassembly it does not skip: either it ends a packet
\* that may be delivered, or what is there then is sane again.
LEMMA JoinedSane ==
  ASSUME NEW s \in Seq(1 .. Big), NEW q, Chain(s, q), q # << >>,
         NEW r \in Seq((1 .. Len(s)) \X (1 .. Big)), Len(r) <= Big,
         NEW d, NEW d2, d \subseteq d2, Sane(s, r, d, q),
         q[1].START \/ r # << >>,
         NEW n \in Nat \ {0}, n <= q[1].size, n <= PlaceSize(Len(r)),
         n < q[1].size => q[1].pkt \in d2
  PROVE  /\ Joined(r, q[1], n) \in Seq((1 .. Len(s)) \X (1 .. Big))
         /\ Len(Joined(r, q[1], n)) <= Big
         /\ q[1].END => Good(s, Joined(r, q[1], n), d2)
         /\ ~q[1].END => Sane(s, Joined(r, q[1], n), d2, Tail(q))
<1>1. PICK f : f = q[1]
  OBVIOUS
<1>2. IsPiece(s, f)
  <2>1. 1 \in 1 .. Len(q)
    BY DEF Chain
  <2> QED
    BY <2>1, <1>1 DEF Chain
<1>3. PICK m \in 1 .. Len(s) : m = f.pkt
  BY <1>2, PieceFacts
<1>4. PICK k \in 0 .. Big - 1 : k = f.from
  BY <1>2, PieceFacts
<1>5. PICK size \in 1 .. Big : size = s[m]
  BY Element, Zenon
<1>6. /\ f.size \in 1 .. Body
      /\ k + f.size <= size
      /\ f.START <=> k = 0
      /\ f.END => k + f.size = size
      /\ ~f.END => Cut(size, k + f.size) /\ k + f.size + Body <= size
  BY <1>2, <1>3, <1>4, <1>5, PieceFacts
<1>0. n <= f.size
  BY <1>1
<1>7. k + n <= Big /\ n <= Body /\ k \in Nat
  <2>1. PICK z \in 1 .. Body : z = f.size /\ k + z <= size /\ n <= z
    BY <1>0, <1>6
  <2>2. k \in Nat /\ n \in Nat /\ z \in Nat /\ z <= Body /\ size <= Big
    BY FragAssumption
  <2>3. Body \in Nat /\ Big \in Nat /\ size \in Nat
    BY FragAssumption
  <2>4. k + n <= Big
    BY <2>1, <2>2, <2>3, Bounded
  <2>5. n <= Body
    BY <2>1, <2>2, <2>3, Bounded
  <2> QED
    BY <2>2, <2>4, <2>5
<1> DEFINE p == Joined(r, f, n)
<1>8. /\ p \in Seq((1 .. Len(s)) \X (1 .. Big))
      /\ Len(p) <= Big
      /\ m \in PacketsIn(p)
      /\ ~f.START => PacketsIn(r) \subseteq PacketsIn(p)
  BY <1>1, <1>3, <1>4, <1>6, <1>7, JoinedFacts
<1> HIDE DEF p
<1>9. Touched(p, d2) => Good(s, p, d2) /\ Sane(s, p, d2, Tail(q))
  BY DEF Good, Sane
<1>10. SUFFICES Touched(p, d2) \/ (n = f.size /\ p = Bytes(m, 0, k + n))
  <2>1. ASSUME n = f.size, p = Bytes(m, 0, k + n), f.END PROVE Good(s, p, d2)
    BY <2>1, <1>5, <1>6 DEF Good
  <2>2. ASSUME n = f.size, p = Bytes(m, 0, k + n), ~f.END PROVE Sane(s, p, d2, Tail(q))
    <3>1. Tail(q) # << >> => Expected(Tail(q)[1], m, k + n, d2)
      <4>1. Tail(q) # << >> => Continues(f, Tail(q)[1])
        BY <1>1, ChainTail
      <4> QED
        BY <4>1, <2>2, <1>3, <1>4 DEF Continues, Expected
    <3>2. k + n \in 1 .. Big /\ Cut(s[m], k + n) /\ k + n + Body <= s[m]
      BY <1>4, <1>5, <1>6, <1>7, <2>2
    <3> QED
      BY <2>2, <3>1, <3>2 DEF Sane, Beginning
  <2> QED
    BY <1>1, <1>8, <1>9, <2>1, <2>2 DEF p
<1>11. CASE n < f.size
  BY <1>11, <1>1, <1>3, <1>8 DEF Touched
<1>12. CASE n = f.size /\ f.START
  <2>1. p = << >> \o Bytes(m, 0, n)
    BY <1>12, <1>3, <1>4, <1>6, Zenon DEF Joined, p
  <2>2. Bytes(m, 0, n) \in Seq((1 .. Len(s)) \X (1 .. Big))
    BY <1>7, <1>12, <1>6, BytesType
  <2>3. p = Bytes(m, 0, n)
    BY <2>1, <2>2
  <2> QED
    BY <2>3, <1>12, <1>6
<1>13. CASE n = f.size /\ ~f.START
  <2>1. r # << >>
    BY <1>13, <1>1
  <2>2. CASE Touched(r, d)
    BY <2>2, <1>8, <1>13 DEF Touched
  <2>3. CASE Beginning(s, r, d, q)
    <3>1. PICK a \in 1 .. Len(s), c \in 1 .. Big : r = Bytes(a, 0, c) /\ Expected(f, a, c, d)
      BY <2>3, <1>1 DEF Beginning
    <3>2. CASE f.pkt \in d
      BY <3>2, <1>3, <1>8 DEF Touched
    <3>3. CASE f.pkt = a /\ f.from = c
      <4>1. p = Bytes(m, 0, k) \o Bytes(m, k, n)
        BY <1>13, <1>3, <1>4, <3>1, <3>3, Zenon DEF Joined, p
      <4>2. p = Bytes(m, 0, k + n)
        BY <4>1, <1>7, BytesJoin
      <4> QED
        BY <4>2, <1>13
    <3> QED
      BY <3>1, <3>2, <3>3, <1>13 DEF Expected
  <2> QED
    BY <2>1, <2>2, <2>3 DEF Sane
<1> QED
  BY <1>11, <1>12, <1>13, <1>1, <1>6, SMTT(30)

\* Without damage there is room for the next frame.
LEMMA SaneRoom ==
  ASSUME NEW s \in Seq(1 .. Big), NEW q, Chain(s, q), q # << >>,
         NEW q2, NEW r, Sane(s, r, {}, q2)
  PROVE  q[1].size <= PlaceSize(Len(r))
<1>1. q[1].size \in 1 .. Body
  <2>1. 1 \in 1 .. Len(q)
    BY DEF Chain
  <2>2. IsPiece(s, q[1])
    BY <2>1 DEF Chain
  <2> QED
    BY <2>2, PieceFacts
<1>2. Len(r) \in 0 .. Big /\ Len(r) + Body <= Big
  <2>1. CASE r = << >>
    BY <2>1, FragAssumption
  <2>2. CASE Beginning(s, r, {}, q2)
    <3>1. PICK m \in 1 .. Len(s), k \in 1 .. Big : r = Bytes(m, 0, k) /\ k + Body <= s[m]
      BY <2>2 DEF Beginning
    <3>2. s[m] \in 1 .. Big
      BY Element, Zenon
    <3>3. Len(r) = k
      BY <3>1, FragAssumption DEF Bytes
    <3> QED
      BY <3>1, <3>2, <3>3, FragAssumption
  <2> QED
    BY <2>1, <2>2 DEF Sane, Touched
<1> QED
  BY <1>1, <1>2, PlaceFacts

-----------------------------------------------------------------------------
(* The invariant.                                                          *)

Stream == ll \o div.tx_pkt

\* What the receiver has still to see for the first time.
Rest == Pending \o div.tx_pkt

Idle == div = NoPacket /\ cuts = 0

\* The divider offers the piece of the last packet that starts after k bytes.
Cutting(k) == LET size == sent[Len(sent)]
                  offset == k + PieceSize(size, k)
              IN  /\ Len(sent) > 0
                  /\ Cut(size, k)
                  /\ div = CutPiece(Len(sent), size, k)
                  /\ cuts \in Nat
                  /\ cuts + Pieces(size - offset) = Pieces(size)

Types == /\ sent \in Seq(Sizes) /\ Len(sent) <= MaxPkts
         /\ ll \in Seq(Frame) /\ Len(ll) <= QueueSize
         /\ boot \in BOOLEAN /\ head \in {"NEW", "KNOWN", "FORGOTTEN"}
         /\ head # "NEW" => ll # << >>
         /\ res \in Seq((1 .. Len(sent)) \X (1 .. Big)) /\ Len(res) <= Big
         /\ delivered \in Seq(Seq((1 .. MaxPkts) \X (1 .. Big)))
         /\ damaged \subseteq 1 .. Len(sent)
         /\ aborted \subseteq 1 .. Len(sent)
         /\ repeated \subseteq 1 .. Len(sent)
         /\ losses \in 0 .. MaxLost
         /\ repeats \in 0 .. MaxRepeats
         /\ resets \in 0 .. MaxResets

IInv == /\ Types
        /\ Idle \/ \E k \in Nat : Cutting(k)
        /\ Chain(sent, Stream)
        /\ div.tx_pkt = << >> /\ ll # << >> => ll[Len(ll)].END
        /\ Sane(sent, res, damaged, Rest)
        /\ \A i \in 1 .. Len(delivered) : Good(sent, delivered[i], damaged)
        /\ losses = 0 => damaged = {}
        /\ boot /\ Stream # << >> => Stream[1].START
        /\ head = "FORGOTTEN" => res = << >>

LEMMA Retyped ==
  ASSUME NEW S, NEW T, NEW s \in Seq(S), \A i \in 1 .. Len(s) : s[i] \in T
  PROVE  s \in Seq(T)
<1>1. s = [i \in 1 .. Len(s) |-> s[i]] /\ Len(s) \in Nat
  OBVIOUS
<1> QED
  BY <1>1

LEMMA SizesInRange ==
  ASSUME NEW s \in Seq(Sizes)
  PROVE  s \in Seq(1 .. Big)
<1>1. \A i \in 1 .. Len(s) : s[i] \in 1 .. Big
  BY Element, FragAssumption
<1> QED
  BY <1>1, Retyped, Zenon

LEMMA MorePairs ==
  ASSUME NEW M, NEW L, M \subseteq L, NEW r \in Seq(M \X (1 .. Big))
  PROVE  r \in Seq(L \X (1 .. Big))
<1>1. \A i \in 1 .. Len(r) : r[i] \in M \X (1 .. Big)
  BY Element
<1>2. M \X (1 .. Big) \subseteq L \X (1 .. Big)
  OBVIOUS
<1>3. \A i \in 1 .. Len(r) : r[i] \in L \X (1 .. Big)
  BY <1>1, <1>2, Zenon
<1> QED
  BY <1>3, Retyped, Zenon

(* The divider with a packet in it.                                        *)
LEMMA CuttingFacts ==
  ASSUME NEW k \in Nat, Cutting(k), sent \in Seq(Sizes), Len(sent) <= MaxPkts
  PROVE  LET m == Len(sent)  size == sent[m]  g == Piece(m, size, k)
         IN  /\ m \in 1 .. MaxPkts /\ m \in 1 .. Len(sent)
             /\ size \in 1 .. Big
             /\ div.pkt_size = size
             /\ div.tx_pkt = << g >>
             /\ g \in Frame
             /\ IsPiece(sent, g)
             /\ g.pkt = m /\ g.from = k
             /\ g.size = PieceSize(size, k)
             /\ div.offset = k + PieceSize(size, k)
             /\ div.offset \in 1 .. size
             /\ g.END <=> div.offset = size
             /\ ~g.END => Cut(size, div.offset)
             /\ cuts \in Nat
             /\ cuts + Pieces(size - div.offset) = Pieces(size)
<1>1. PICK m \in 1 .. Len(sent) : m = Len(sent) /\ m \in 1 .. MaxPkts
  BY FragAssumption DEF Cutting
<1>2. sent \in Seq(1 .. Big)
  BY SizesInRange
<1>3. PICK size \in 1 .. Big : size = sent[m]
  BY <1>2, Element, Zenon
<1>4. /\ Cut(size, k)
      /\ div = CutPiece(m, size, k)
      /\ cuts \in Nat
      /\ cuts + Pieces(size - (k + PieceSize(size, k))) = Pieces(size)
  BY <1>1, <1>3 DEF Cutting
<1>5. /\ div.pkt_size = size
      /\ div.tx_pkt = << Piece(m, size, k) >>
      /\ div.offset = k + PieceSize(size, k)
  BY <1>4 DEF CutPiece
<1>6. PICK g : g = Piece(m, size, k)
  OBVIOUS
<1>7. g \in Frame /\ IsPiece(sent, g)
  BY <1>1, <1>2, <1>3, <1>4, <1>6, NewPiece
<1>8. g.pkt = m /\ g.from = k /\ g.size = PieceSize(size, k)
  BY <1>6, PieceFields
<1>9. /\ g.size \in 1 .. Body
      /\ g.from + g.size <= size
      /\ g.END => g.from + g.size = size
      /\ ~g.END => Cut(size, g.from + g.size) /\ g.from + g.size + Body <= size
  BY <1>2, <1>3, <1>7, <1>8, PieceFacts
<1>10. div.offset \in 1 .. size
  BY <1>5, <1>8, <1>9, FragAssumption
<1>11. g.END <=> div.offset = size
  BY <1>5, <1>8, <1>9, <1>10, FragAssumption
<1>12. ~g.END => Cut(size, div.offset)
  BY <1>5, <1>8, <1>9
<1> QED
  BY <1>1, <1>3, <1>4, <1>5, <1>6, <1>7, <1>8, <1>10, <1>11, <1>12

-----------------------------------------------------------------------------
(* What the steps do to the stream and to what the reassembly expects.     *)

LEMMA DividerFacts ==
  ASSUME IInv
  PROVE  /\ div.tx_pkt \in Seq(Frame) /\ Len(div.tx_pkt) <= 1
         /\ div.tx_pkt = << >> => Idle /\ Stream = ll
         /\ div.tx_pkt # << >> => \E k \in Nat : Cutting(k)
         /\ div.pkt_size \in 0 .. Big /\ div.offset \in 0 .. div.pkt_size
         /\ div.pkt_size = 0 <=> div.tx_pkt = << >>
         /\ cuts \in Nat
<1>1. CASE Idle
  BY <1>1, FragAssumption DEF IInv, Idle, NoPacket, Stream, Types
<1>2. CASE \E k \in Nat : Cutting(k)
  <2>1. PICK k \in Nat : Cutting(k)
    BY <1>2
  <2>2. sent \in Seq(Sizes) /\ Len(sent) <= MaxPkts
    BY DEF IInv, Types
  <2>3. PICK g \in Frame : div.tx_pkt = << g >>
    BY <2>1, <2>2, CuttingFacts, Zenon
  <2>4. div.pkt_size \in 1 .. Big /\ div.offset \in 1 .. div.pkt_size /\ cuts \in Nat
    BY <2>1, <2>2, CuttingFacts
  <2>5. << g >> \in Seq(Frame) /\ Len(<< g >>) = 1 /\ << g >> # << >>
    OBVIOUS
  <2> QED
    BY <1>2, <2>3, <2>4, <2>5, FragAssumption
<1> QED
  BY <1>1, <1>2 DEF IInv

LEMMA StreamHead ==
  ASSUME NEW S, NEW l \in Seq(S), NEW t \in Seq(S), l # << >>
  PROVE  /\ Tail(l) \o t = Tail(l \o t)
         /\ l \o t # << >>
         /\ Head(l) = (l \o t)[1]
         /\ Tail(l) \in Seq(S) /\ Len(Tail(l)) = Len(l) - 1
<1>1. Len(l) \in Nat \ {0} /\ Len(t) \in Nat
  OBVIOUS
<1>2. Len(Tail(l) \o t) = Len(l) + Len(t) - 1 /\ Len(Tail(l \o t)) = Len(l) + Len(t) - 1
  BY <1>1
<1>3. \A i \in 1 .. Len(l) + Len(t) - 1 : (Tail(l) \o t)[i] = Tail(l \o t)[i]
  BY <1>1
<1>4. Tail(l) \o t \in Seq(S) /\ Tail(l \o t) \in Seq(S)
  BY <1>1
<1>5. Tail(l) \o t = Tail(l \o t)
  BY <1>2, <1>3, <1>4
<1> QED
  BY <1>1, <1>5

LEMMA ConcatOne ==
  ASSUME NEW S, NEW l \in Seq(S), NEW g \in S
  PROVE  l \o << g >> = Append(l, g)
OBVIOUS

LEMMA GoodStays ==
  ASSUME NEW S, NEW s \in Seq(S), NEW z, NEW r, NEW d, NEW d2, d \subseteq d2, Good(s, r, d)
  PROVE  Good(s, r, d2) /\ Good(Append(s, z), r, d2)
<1>1. CASE Touched(r, d)
  BY <1>1 DEF Good, Touched
<1>2. CASE \E m \in 1 .. Len(s) : r = Bytes(m, 0, s[m])
  <2>1. PICK m \in 1 .. Len(s) : r = Bytes(m, 0, s[m])
    BY <1>2
  <2>2. m \in 1 .. Len(Append(s, z)) /\ Append(s, z)[m] = s[m]
    OBVIOUS
  <2> QED
    BY <2>1, <2>2 DEF Good
<1> QED
  BY <1>1, <1>2 DEF Good

\* The reassembly stays sane when packets are sent, frames are damaged and the
\* stream goes on behind the frame that is expected.
LEMMA SaneStays ==
  ASSUME NEW S, NEW s \in Seq(S), NEW z, NEW r, NEW d, NEW d2, d \subseteq d2,
         NEW q, NEW q2, Sane(s, r, d, q),
         q2 # << >> => (q # << >> /\ q2[1] = q[1]) \/ q2[1].START \/ q2[1].pkt \in d2
                    \/ Touched(r, d2)
  PROVE  Sane(s, r, d2, q2) /\ Sane(Append(s, z), r, d2, q2)
<1>1. CASE r = << >>
  BY <1>1 DEF Sane
<1>2. CASE Touched(r, d2)
  BY <1>2 DEF Sane
<1>3. CASE Touched(r, d)
  BY <1>3, <1>2 DEF Touched
<1>4. CASE Beginning(s, r, d, q) /\ ~Touched(r, d2)
  <2>1. PICK m \in 1 .. Len(s), k \in 1 .. Big :
           /\ r = Bytes(m, 0, k)
           /\ Cut(s[m], k)
           /\ k + Body <= s[m]
           /\ q # << >> => Expected(q[1], m, k, d)
    BY <1>4 DEF Beginning
  <2>2. q2 # << >> => Expected(q2[1], m, k, d2)
    BY <1>4, <2>1 DEF Expected
  <2>3. m \in 1 .. Len(Append(s, z)) /\ Append(s, z)[m] = s[m]
    OBVIOUS
  <2> QED
    BY <2>1, <2>2, <2>3 DEF Sane, Beginning
<1> QED
  BY <1>1, <1>2, <1>3, <1>4 DEF Sane

LEMMA RestFacts ==
  ASSUME IInv
  PROVE  /\ Pending \in Seq(Frame) /\ Rest \in Seq(Frame) /\ Chain(sent, Rest)
         /\ head = "NEW" => Pending = ll /\ Rest = Stream
         /\ head # "NEW" => /\ Stream # << >> /\ Pending = Tail(ll) /\ Rest = Tail(Stream)
                           /\ ll # << >>
<1>1. ll \in Seq(Frame) /\ div.tx_pkt \in Seq(Frame) /\ (head # "NEW" => ll # << >>)
  BY DividerFacts DEF IInv, Types
<1>2. CASE head = "NEW"
  <2>1. Pending = ll /\ Rest = Stream
    BY <1>2 DEF Pending, Rest, Stream
  <2>2. Stream \in Seq(Frame) /\ Chain(sent, Stream)
    BY DEF IInv, Chain
  <2> QED
    BY <1>1, <1>2, <2>1, <2>2
<1>3. CASE head # "NEW"
  <2>1. Pending = Tail(ll) /\ Rest = Tail(ll) \o div.tx_pkt /\ ll # << >>
    BY <1>1, <1>3 DEF Pending, Rest
  <2>2. Tail(ll) \o div.tx_pkt = Tail(Stream) /\ Stream # << >> /\ Tail(ll) \in Seq(Frame)
    BY <1>1, <2>1, StreamHead DEF Stream
  <2>3. Chain(sent, Tail(Stream))
    BY <2>2, ChainTail DEF IInv
  <2>4. Tail(Stream) \in Seq(Frame)
    BY <2>3 DEF Chain
  <2> QED
    BY <1>3, <2>1, <2>2, <2>3, <2>4
<1> QED
  BY <1>2, <1>3

\* A frame that may come meets a reassembly that is sane for the whole stream.
LEMMA SaneStream ==
  ASSUME IInv, CanCome
  PROVE  /\ Sane(sent, res, damaged, Stream)
         /\ head # "NEW" => Stream[1].START \/ res = << >>
<1>1. CASE head = "NEW"
  BY <1>1, RestFacts DEF IInv
<1>2. CASE head = "KNOWN"
  <2>1. Stream # << >> /\ boot
    BY <1>2, RestFacts DEF CanCome
  <2>2. Stream[1].START
    BY <2>1 DEF IInv
  <2>3. PICK S : sent \in Seq(S)
    BY DEF IInv, Types
  <2>4. Sane(sent, res, damaged, Rest)
    BY DEF IInv
  <2>5. Sane(sent, res, damaged, Stream)
    BY <2>2, <2>3, <2>4, SaneStays
  <2> QED
    BY <2>2, <2>5
<1>3. CASE head = "FORGOTTEN"
  BY <1>3 DEF IInv, Sane
<1> QED
  BY <1>1, <1>2, <1>3 DEF IInv, Types

-----------------------------------------------------------------------------
(* The invariant is inductive.                                             *)

LEMMA InitInv == Init => IInv
<1> SUFFICES ASSUME Init PROVE IInv
  OBVIOUS
<1>1. Types
  BY FragAssumption DEF Init, Types
<1>2. Idle
  BY DEF Init, Idle
<1>3. Stream = << >>
  BY DEF Init, Stream, NoPacket
<1>4. Chain(sent, Stream)
  BY <1>3 DEF Chain
<1>5. Sane(sent, res, damaged, Rest)
  BY DEF Init, Sane
<1> QED
  BY <1>1, <1>2, <1>3, <1>4, <1>5 DEF Init, IInv

LEMMA StoreInv ==
  ASSUME IInv, NEW size \in Sizes, StoreTxPkt(size)
  PROVE  IInv'
<1>1. /\ sent \in Seq(Sizes) /\ Len(sent) < MaxPkts
      /\ sent' = Append(sent, size)
      /\ div' = CutPiece(Len(sent) + 1, size, 0)
      /\ cuts' = 1
      /\ UNCHANGED <<ll, boot, head, res, delivered, damaged, repeated, aborted,
                     losses, repeats, resets>>
      /\ div.tx_pkt = << >> /\ Stream = ll
  BY DividerFacts DEF StoreTxPkt, link, IInv, Types
<1>2. PICK m \in Nat : m = Len(sent) + 1
  BY <1>1
<1>3. /\ sent' \in Seq(Sizes) /\ Len(sent') = m /\ sent'[m] = size
      /\ m <= MaxPkts /\ m \in 1 .. Len(sent')
      /\ 1 .. Len(sent) \subseteq 1 .. Len(sent')
  BY <1>1, <1>2, FragAssumption
<1>4. size \in 1 .. Big /\ sent' \in Seq(1 .. Big) /\ Cut(size, 0)
  BY <1>3, SizesInRange, FragAssumption DEF Cut
<1>5. PICK g : g = Piece(m, size, 0)
  OBVIOUS
<1>6. g \in Frame /\ IsPiece(sent', g) /\ g.START
  <2>1. g \in Frame /\ IsPiece(sent', g)
    BY <1>3, <1>4, <1>5, NewPiece
  <2>2. g.START
    BY <1>5, PieceFields
  <2> QED
    BY <2>1, <2>2
<1>7. div'.tx_pkt = << g >>
  BY <1>1, <1>2, <1>5 DEF CutPiece
<1>8. Types'
  <2>1. res' \in Seq((1 .. Len(sent')) \X (1 .. Big)) /\ Len(res') <= Big
    BY <1>1, <1>3, MorePairs DEF IInv, Types
  <2>2. /\ damaged' \subseteq 1 .. Len(sent') /\ aborted' \subseteq 1 .. Len(sent')
        /\ repeated' \subseteq 1 .. Len(sent')
    BY <1>1, <1>3 DEF IInv, Types
  <2> QED
    BY <1>1, <1>3, <2>1, <2>2 DEF IInv, Types
<1>9. Cutting(0)'
  <2>1. 1 + Pieces(size - (0 + PieceSize(size, 0))) = Pieces(size)
    <3>1. CASE 0 + Body < size
      <4>1. Pieces(size - 0) = 1 + Pieces(size - (0 + PieceSize(size, 0)))
        BY <3>1, <1>4, PieceToCut
      <4> QED
        BY <4>1, <1>4
    <3>2. CASE 0 + Body >= size
      <4>1. 0 + PieceSize(size, 0) = size /\ Pieces(size - 0) = 1 + Pieces(0)
        BY <3>2, <1>4, LastPiece
      <4>2. size - (0 + PieceSize(size, 0)) = 0 /\ size - 0 = size
        BY <4>1, <1>4
      <4> QED
        BY <4>1, <4>2
    <3> QED
      BY <3>1, <3>2, <1>4, FragAssumption
  <2> QED
    BY <1>1, <1>2, <1>3, <1>4, <2>1 DEF Cutting
<1>10. Stream' = Append(ll, g)
  <2>1. Stream' = ll \o << g >>
    BY <1>1, <1>7 DEF Stream
  <2>2. ll \in Seq(Frame)
    BY DEF IInv, Types
  <2> QED
    BY <2>1, <2>2, <1>6, ConcatOne
<1>11. Chain(sent', Stream')
  <2>1. Chain(sent', ll)
    BY <1>1, ChainMorePackets DEF IInv
  <2>2. ll # << >> => Continues(ll[Len(ll)], g)
    BY <1>1, <1>6 DEF IInv, Continues
  <2> QED
    BY <2>1, <2>2, <1>6, <1>10, ChainAppend
<1>12. Sane(sent', res', damaged', Rest')
  <2>1. Pending \in Seq(Frame) /\ Rest \in Seq(Frame) /\ Pending' = Pending
    BY <1>1, RestFacts DEF Pending
  <2>2. Rest = Pending
    BY <1>1, <2>1 DEF Rest
  <2>3. Rest' = Append(Pending, g)
    <3>1. Rest' = Pending \o << g >>
      BY <1>7, <2>1 DEF Rest
    <3> QED
      BY <1>6, <2>1, <3>1, ConcatOne
  <2>4. Sane(sent, res, damaged, Pending)
    BY <2>2 DEF IInv
  <2>5. (Pending # << >> /\ Append(Pending, g)[1] = Pending[1]) \/ Append(Pending, g)[1].START
    BY <1>6, <2>1
  <2>6. Sane(Append(sent, size), res, damaged, Append(Pending, g))
    BY <1>1, <2>4, <2>5, SaneStays
  <2> QED
    BY <1>1, <2>3, <2>6
<1>13. \A i \in 1 .. Len(delivered') : Good(sent', delivered'[i], damaged')
  BY <1>1, GoodStays DEF IInv
<1>14. div'.tx_pkt # << >>
  BY <1>7
<1>15. losses' = 0 => damaged' = {}
  BY <1>1 DEF IInv
<1>16. boot' /\ Stream' # << >> => Stream'[1].START
  <2>1. CASE ll = << >>
    BY <1>6, <1>10, <2>1
  <2>2. CASE ll # << >>
    <3>1. ll \in Seq(Frame)
      BY DEF IInv, Types
    <3>2. Append(ll, g)[1] = ll[1]
      BY <2>2, <3>1
    <3> QED
      BY <1>1, <1>10, <2>2, <3>2 DEF IInv
  <2> QED
    BY <2>1, <2>2
<1>17. head' = "FORGOTTEN" => res' = << >>
  BY <1>1 DEF IInv
<1> QED
  BY <1>8, <1>9, <1>11, <1>12, <1>13, <1>14, <1>15, <1>16, <1>17 DEF IInv

LEMMA TakeInv ==
  ASSUME IInv, TakeFragment
  PROVE  IInv'
<1>1. /\ sent \in Seq(Sizes) /\ Len(sent) <= MaxPkts /\ sent \in Seq(1 .. Big)
      /\ ll \in Seq(Frame) /\ Len(ll) < QueueSize
      /\ ll' = ll \o div.tx_pkt
      /\ UNCHANGED <<sent, boot, head, res, delivered, damaged, repeated, aborted,
                     losses, repeats, resets>>
  BY SizesInRange DEF TakeFragment, IInv, Types
<1>2. PICK k \in Nat : Cutting(k)
  BY DividerFacts DEF TakeFragment
<1>3. PICK m \in 1 .. Len(sent), size \in 1 .. Big :
        m = Len(sent) /\ size = sent[m]
  BY <1>1, <1>2, CuttingFacts, Zenon
<1>4. PICK f \in Frame : f = Piece(m, size, k)
  BY <1>1, <1>2, <1>3, CuttingFacts, Zenon
<1>5. /\ div.pkt_size = size
      /\ div.tx_pkt = << f >>
      /\ f.pkt = m /\ f.from = k
      /\ f.size = PieceSize(size, k)
      /\ div.offset = k + PieceSize(size, k)
      /\ div.offset \in 1 .. size
      /\ f.END <=> div.offset = size
      /\ ~f.END => Cut(size, div.offset)
      /\ cuts \in Nat
      /\ cuts + Pieces(size - div.offset) = Pieces(size)
  BY <1>1, <1>2, <1>3, <1>4, CuttingFacts, Zenon
<1>6. /\ ll' = Append(ll, f) /\ ll' \in Seq(Frame) /\ Len(ll') <= QueueSize
      /\ ll' # << >> /\ ll'[Len(ll')] = f
      /\ ll' = Stream
  BY <1>1, <1>5, FragAssumption DEF Stream
<1>7. Types'
  BY <1>1, <1>6 DEF IInv, Types
<1>8. \A i \in 1 .. Len(delivered') : Good(sent', delivered'[i], damaged')
  BY <1>1 DEF IInv
<1>9. /\ Chain(sent', ll') /\ Sane(sent', res', damaged', Rest)
      /\ head' = "FORGOTTEN" => res' = << >>
      /\ boot' => ll'[1].START
      /\ Rest \in Seq(Frame) /\ Rest # << >> /\ Pending' = Rest
  <2>1. Pending \in Seq(Frame) /\ Rest \in Seq(Frame)
    BY RestFacts
  <2>2. Rest = Append(Pending, f)
    BY <1>5, <2>1, ConcatOne DEF Rest
  <2>3. Pending' = Rest
    <3>1. CASE head = "NEW"
      BY <1>1, <1>6, <3>1, RestFacts DEF Pending
    <3>2. CASE head # "NEW"
      BY <1>1, <1>6, <3>2, RestFacts DEF Pending
    <3> QED
      BY <3>1, <3>2
  <2>4. Rest # << >>
    BY <2>1, <2>2
  <2> QED
    BY <1>1, <1>6, <2>1, <2>3, <2>4 DEF IInv
<1>10. losses' = 0 => damaged' = {}
  BY <1>1 DEF IInv
<1>11. CASE div.offset = div.pkt_size
  <2>1. Idle'
    BY <1>11 DEF TakeFragment, Idle
  <2>2. div'.tx_pkt = << >>
    BY <2>1 DEF Idle, NoPacket
  <2>3. Stream' = ll'
    BY <1>6, <2>2 DEF Stream
  <2>4. ll'[Len(ll')].END
    BY <1>5, <1>6, <1>11
  <2>5. Rest' = Rest
    BY <1>9, <2>2 DEF Rest
  <2> QED
    BY <1>7, <1>8, <1>9, <1>10, <2>1, <2>3, <2>4, <2>5 DEF IInv
<1>12. CASE div.offset # div.pkt_size
  <2>1. PICK n \in 1 .. size : n = div.offset /\ Cut(size, n) /\ n < size /\ ~f.END
    BY <1>5, <1>12
  <2>2. div' = CutPiece(m, size, n) /\ cuts' = cuts + 1
    BY <1>3, <1>5, <1>12, <2>1 DEF TakeFragment
  <2>3. PICK g : g = Piece(m, size, n)
    OBVIOUS
  <2>4. g \in Frame /\ IsPiece(sent, g)
    BY <1>1, <1>3, <2>1, <2>3, NewPiece
  <2>5. g.pkt = m /\ g.from = n
    BY <2>3, PieceFields
  <2>6. div'.tx_pkt = << g >> /\ div'.tx_pkt # << >>
    BY <2>2, <2>3 DEF CutPiece
  <2>7. Stream' = Append(ll', g)
    BY <1>6, <2>6 DEF Stream
  <2>8. Chain(sent', Stream')
    <3>1. Continues(f, g)
      BY <1>5, <2>1, <2>5 DEF Continues
    <3> QED
      BY <3>1, <1>1, <1>6, <1>9, <2>4, <2>7, ChainAppend
  <2>9. Sane(sent', res', damaged', Rest')
    <3>1. Rest' = Append(Rest, g)
      <4>1. Rest' = Rest \o << g >>
        BY <1>9, <2>6 DEF Rest
      <4> QED
        BY <1>9, <2>4, <4>1, ConcatOne
    <3>2. Append(Rest, g)[1] = Rest[1]
      BY <1>9
    <3> QED
      BY <1>1, <1>9, <3>1, <3>2, SaneStays
  <2>11. boot' => Stream'[1].START
    <3>1. Append(ll', g)[1] = ll'[1]
      BY <1>6
    <3> QED
      BY <1>9, <2>7, <3>1
  <2>10. Cutting(n)'
    <3>1. Pieces(size - n) = 1 + Pieces(size - (n + PieceSize(size, n)))
      <4>1. CASE n + Body < size
        BY <4>1, <2>1, PieceToCut, FragAssumption
      <4>2. CASE n + Body >= size
        <5>1. n + PieceSize(size, n) = size /\ Pieces(size - n) = 1 + Pieces(0)
          BY <4>2, <2>1, LastPiece, FragAssumption
        <5>2. size - (n + PieceSize(size, n)) = 0
          BY <5>1
        <5> QED
          BY <5>1, <5>2
      <4> QED
        BY <4>1, <4>2, <2>1, FragAssumption
    <3>2. cuts + Pieces(size - n) = Pieces(size) /\ cuts \in Nat
      BY <1>5, <2>1
    <3>3. Pieces(size - (n + PieceSize(size, n))) \in Int
      <4>1. n + PieceSize(size, n) \in 1 .. size
        <5>1. CASE n + Body < size
          BY <5>1, <2>1, PieceToCut, FragAssumption
        <5>2. CASE n + Body >= size
          BY <5>2, <2>1, LastPiece, FragAssumption
        <5> QED
          BY <5>1, <5>2, <2>1, FragAssumption
      <4>2. PICK z \in Nat : z = size - (n + PieceSize(size, n)) + Body - 1
        BY <4>1, FragAssumption
      <4> QED
        BY <4>2, DivMod DEF Pieces
    <3>4. cuts' \in Nat /\ cuts' + Pieces(size - (n + PieceSize(size, n))) = Pieces(size)
      BY <2>2, <3>1, <3>2, <3>3
    <3>5. Len(sent') = m /\ sent'[m] = size /\ m > 0
      BY <1>1, <1>3
    <3> QED
      BY <2>1, <2>2, <3>4, <3>5 DEF Cutting
  <2> QED
    BY <1>7, <1>8, <1>9, <1>10, <2>1, <2>6, <2>8, <2>9, <2>10, <2>11 DEF IInv
<1> QED
  BY <1>11, <1>12

LEMMA StreamShrinks ==
  ASSUME IInv, ll # << >>, ll' = Tail(ll), UNCHANGED <<sent, div, cuts>>
  PROVE  /\ Stream # << >> /\ Head(ll) = Stream[1] /\ Stream' = Tail(Stream)
         /\ Chain(sent', Stream')
         /\ ll' \in Seq(Frame) /\ Len(ll') <= QueueSize
         /\ Idle' \/ (\E k \in Nat : Cutting(k))'
         /\ div'.tx_pkt = << >> /\ ll' # << >> => ll'[Len(ll')].END
<1>1. ll \in Seq(Frame) /\ Len(ll) <= QueueSize /\ div.tx_pkt \in Seq(Frame)
  BY DividerFacts DEF IInv, Types
<1>2. /\ Tail(ll) \o div.tx_pkt = Tail(Stream) /\ Stream # << >> /\ Head(ll) = Stream[1]
      /\ Tail(ll) \in Seq(Frame) /\ Len(Tail(ll)) = Len(ll) - 1
  BY <1>1, StreamHead DEF Stream
<1>3. Stream' = Tail(Stream)
  BY <1>2 DEF Stream
<1>4. Chain(sent', Stream')
  BY <1>2, <1>3, ChainTail DEF IInv
<1>5. Len(ll') <= QueueSize
  BY <1>1, <1>2, FragAssumption
<1>6. Idle' \/ (\E k \in Nat : Cutting(k))'
  <2>1. CASE Idle
    BY <2>1 DEF Idle
  <2>2. CASE \E k \in Nat : Cutting(k)
    BY <2>2 DEF Cutting
  <2> QED
    BY <2>1, <2>2 DEF IInv
<1>7. ll' # << >> => ll'[Len(ll')] = ll[Len(ll)]
  BY <1>1, <1>2
<1> QED
  BY <1>2, <1>3, <1>4, <1>5, <1>6, <1>7 DEF IInv

\* The frame that comes is new to the reassembly or not; what it has still to see
\* then is the stream behind it.
LEMMA ReceiveStream ==
  ASSUME IInv, NEW acked \in BOOLEAN, ReceiveFragment(acked)
  PROVE  /\ Stream # << >> /\ Head(ll) = Stream[1] /\ Rest' = Tail(Stream)
         /\ Stream' = (IF acked THEN Tail(Stream) ELSE Stream)
         /\ Chain(sent', Stream')
         /\ ll' \in Seq(Frame) /\ Len(ll') <= QueueSize
         /\ boot' \in BOOLEAN /\ head' \in {"NEW", "KNOWN"} /\ (head' # "NEW" => ll' # << >>)
         /\ boot' /\ Stream' # << >> => Stream'[1].START
         /\ Idle' \/ (\E k \in Nat : Cutting(k))'
         /\ div'.tx_pkt = << >> /\ ll' # << >> => ll'[Len(ll')].END
         /\ head # "NEW" => Rest = Tail(Stream)
         /\ head = "NEW" => Rest = Stream
<1>1. ll # << >> /\ UNCHANGED <<sent, div, cuts>>
  BY DEF ReceiveFragment, CanCome
<1>2. ll \in Seq(Frame) /\ div.tx_pkt \in Seq(Frame)
  BY DividerFacts DEF IInv, Types
<1>3. /\ Tail(ll) \o div.tx_pkt = Tail(Stream) /\ Stream # << >> /\ Head(ll) = Stream[1]
  BY <1>1, <1>2, StreamHead DEF Stream
<1>4. (head # "NEW" => Rest = Tail(Stream)) /\ (head = "NEW" => Rest = Stream)
  BY RestFacts
<1>5. CASE acked
  <2>1. ll' = Tail(ll) /\ boot' = FALSE /\ head' = "NEW"
    BY <1>5 DEF ReceiveFragment
  <2>2. /\ Stream' = Tail(Stream) /\ Chain(sent', Stream')
        /\ ll' \in Seq(Frame) /\ Len(ll') <= QueueSize
        /\ Idle' \/ (\E k \in Nat : Cutting(k))'
        /\ div'.tx_pkt = << >> /\ ll' # << >> => ll'[Len(ll')].END
    BY <1>1, <2>1, StreamShrinks
  <2>3. Rest' = Tail(Stream)
    BY <1>1, <1>3, <2>1, SMTT(30) DEF Rest, Pending
  <2> QED
    BY <1>3, <1>4, <1>5, <2>1, <2>2, <2>3
<1>6. CASE ~ acked
  <2>1. ll' = ll /\ boot' = boot /\ head' = "KNOWN"
    BY <1>6 DEF ReceiveFragment
  <2>2. Stream' = Stream
    BY <1>1, <2>1 DEF Stream
  <2>3. Rest' = Tail(Stream)
    BY <1>1, <1>3, <2>1 DEF Rest, Pending
  <2>4. Idle' \/ (\E k \in Nat : Cutting(k))'
    <3>1. CASE Idle
      BY <1>1, <3>1 DEF Idle
    <3>2. CASE \E k \in Nat : Cutting(k)
      BY <1>1, <3>2 DEF Cutting
    <3> QED
      BY <3>1, <3>2 DEF IInv
  <2>5. /\ Len(ll') <= QueueSize /\ boot' \in BOOLEAN
        /\ boot' /\ Stream' # << >> => Stream'[1].START
        /\ div'.tx_pkt = << >> /\ ll' # << >> => ll'[Len(ll')].END
        /\ Chain(sent', Stream')
    BY <1>1, <2>1, <2>2 DEF IInv, Types
  <2> QED
    BY <1>1, <1>2, <1>3, <1>4, <1>6, <2>1, <2>2, <2>3, <2>4, <2>5
<1> QED
  BY <1>5, <1>6

LEMMA ReceiveInv ==
  ASSUME IInv, NEW acked \in BOOLEAN, ReceiveFragment(acked)
  PROVE  IInv'
<1> DEFINE place == PlaceSize(Len(res))
           short == IF Head(ll).size < place THEN Head(ll).size ELSE place
<1>1. /\ CanCome /\ place > 0
      /\ UNCHANGED <<sent, div, cuts, aborted, losses, resets>>
  BY DEF ReceiveFragment
<1>2. /\ sent \in Seq(Sizes) /\ sent \in Seq(1 .. Big) /\ Len(sent) <= MaxPkts
      /\ res \in Seq((1 .. Len(sent)) \X (1 .. Big)) /\ Len(res) <= Big
      /\ delivered \in Seq(Seq((1 .. MaxPkts) \X (1 .. Big)))
      /\ damaged \subseteq 1 .. Len(sent)
  BY SizesInRange DEF IInv, Types
<1>3. /\ Stream # << >> /\ Head(ll) = Stream[1] /\ Rest' = Tail(Stream)
      /\ Chain(sent, Stream) /\ Chain(sent', Stream')
      /\ ll' \in Seq(Frame) /\ Len(ll') <= QueueSize
      /\ boot' \in BOOLEAN /\ head' \in {"NEW", "KNOWN"} /\ (head' # "NEW" => ll' # << >>)
      /\ boot' /\ Stream' # << >> => Stream'[1].START
      /\ Idle' \/ (\E k \in Nat : Cutting(k))'
      /\ div'.tx_pkt = << >> /\ ll' # << >> => ll'[Len(ll')].END
  BY ReceiveStream DEF IInv
<1>4. PICK f : f = Stream[1] /\ f = Head(ll)
  BY <1>3
<1>5. IsPiece(sent, f) /\ f.pkt \in 1 .. Len(sent) /\ f.size \in 1 .. Body
  <2>1. 1 \in 1 .. Len(Stream)
    BY <1>3 DEF Chain
  <2>2. IsPiece(sent, f)
    BY <2>1, <1>3, <1>4 DEF Chain
  <2> QED
    BY <1>2, <2>2, PieceFacts
<1>6. place \in 1 .. Body
  <2>1. Len(res) \in 0 .. Big
    BY <1>2, FragAssumption
  <2> QED
    BY <1>1, <2>1, PlaceFacts, FragAssumption
<1>7. PICK n \in Nat \ {0} : n = short /\ n <= f.size /\ n <= place
  BY <1>4, <1>5, <1>6, FragAssumption
<1>8. damaged' = damaged \cup (IF n < f.size THEN {f.pkt} ELSE {})
  BY <1>4, <1>7 DEF ReceiveFragment
<1>9. /\ damaged \subseteq damaged' /\ damaged' \subseteq 1 .. Len(sent)
      /\ n < f.size => f.pkt \in damaged'
  BY <1>2, <1>5, <1>8
<1>19. repeated' \subseteq 1 .. Len(sent) /\ repeats' \in 0 .. MaxRepeats
  <2>1. repeated' \subseteq repeated \cup {f.pkt}
    BY <1>4 DEF ReceiveFragment
  <2>2. repeats \in 0 .. MaxRepeats /\ repeated \subseteq 1 .. Len(sent) /\ MaxRepeats \in Nat
    BY FragAssumption DEF IInv, Types
  <2>3. repeats' = repeats \/ (repeats' = repeats + 1 /\ repeats < MaxRepeats)
    BY <2>2 DEF ReceiveFragment
  <2> QED
    BY <1>5, <2>1, <2>2, <2>3
<1>20. Sane(sent, res, damaged, Stream)
  BY <1>1, SaneStream
<1>10. losses' = 0 => damaged' = {}
  <2> HAVE losses' = 0
  <2>1. damaged = {}
    BY <1>1 DEF IInv
  <2>2. f.size <= place
    BY <1>2, <1>3, <1>4, <1>20, <2>1, SaneRoom
  <2>3. n = f.size
    BY <1>4, <1>5, <1>6, <1>7, <2>2, FragAssumption
  <2> QED
    BY <1>5, <1>8, <2>1, <2>3, FragAssumption
<1> DEFINE p == Joined(res, f, n)
<1>11. \/ Skipped(f) /\ UNCHANGED <<res, delivered>>
       \/ ~Skipped(f) /\ ~f.END /\ res' = p /\ UNCHANGED delivered
       \/ ~Skipped(f) /\ f.END /\ res' = << >> /\ delivered' = Append(delivered, p)
  BY <1>4, <1>7 DEF ReceiveFragment, Joined, Begun
<1>12. ~Skipped(f) => /\ p \in Seq((1 .. Len(sent)) \X (1 .. Big))
                      /\ Len(p) <= Big
                      /\ f.END => Good(sent, p, damaged')
                      /\ ~f.END => Sane(sent, p, damaged', Tail(Stream))
  <2> HAVE ~Skipped(f)
  <2>1. f.START \/ res # << >>
    BY DEF Skipped
  <2> QED
    BY <2>1, <1>2, <1>3, <1>4, <1>7, <1>9, <1>20, JoinedSane
<1> HIDE DEF p, place, short
<1>13. \A i \in 1 .. Len(delivered) : Good(sent, delivered[i], damaged')
  BY <1>2, <1>9, GoodStays DEF IInv
<1>14. ASSUME res' \in Seq((1 .. Len(sent)) \X (1 .. Big)), Len(res') <= Big,
              delivered' \in Seq(Seq((1 .. MaxPkts) \X (1 .. Big))),
              Sane(sent, res', damaged', Tail(Stream)),
              \A i \in 1 .. Len(delivered') : Good(sent, delivered'[i], damaged')
       PROVE  IInv'
  <2>1. Types'
    BY <1>1, <1>2, <1>3, <1>9, <1>14, <1>19 DEF IInv, Types
  <2>2. Sane(sent', res', damaged', Rest')
    BY <1>1, <1>3, <1>14
  <2>3. \A i \in 1 .. Len(delivered') : Good(sent', delivered'[i], damaged')
    BY <1>1, <1>14
  <2> QED
    BY <1>3, <1>10, <2>1, <2>2, <2>3 DEF IInv
<1>15. << >> \in Seq((1 .. Len(sent)) \X (1 .. Big)) /\ Len(<< >>) <= Big
  BY FragAssumption
<1>16. Sane(sent, << >>, damaged', Tail(Stream))
  BY DEF Sane
<1>17. CASE Skipped(f) /\ UNCHANGED <<res, delivered>>
  <2>1. res' = << >> /\ delivered' = delivered
    BY <1>17 DEF Skipped
  <2> QED
    BY <2>1, <1>2, <1>13, <1>14, <1>15, <1>16
<1>18. CASE ~Skipped(f) /\ ~f.END /\ res' = p /\ UNCHANGED delivered
  BY <1>18, <1>2, <1>12, <1>13, <1>14
<1>21. CASE ~Skipped(f) /\ f.END /\ res' = << >> /\ delivered' = Append(delivered, p)
  <2>1. p \in Seq((1 .. MaxPkts) \X (1 .. Big))
    <3>1. 1 .. Len(sent) \subseteq 1 .. MaxPkts
      BY <1>2, FragAssumption
    <3> QED
      BY <3>1, <1>12, <1>21, MorePairs
  <2>2. PICK S : delivered \in Seq(S) /\ p \in S /\ S = Seq((1 .. MaxPkts) \X (1 .. Big))
    BY <2>1, <1>2
  <2>3. delivered' \in Seq(S) /\ Len(delivered') = Len(delivered) + 1
    BY <2>2, <1>21
  <2>4. \A i \in 1 .. Len(delivered') : Good(sent, delivered'[i], damaged')
    <3> TAKE i \in 1 .. Len(delivered')
    <3>1. CASE i \in 1 .. Len(delivered)
      <4>1. delivered'[i] = delivered[i]
        BY <3>1, <2>2, <1>21
      <4> QED
        BY <3>1, <4>1, <1>13
    <3>2. CASE i = Len(delivered) + 1
      <4>1. delivered'[i] = p
        BY <3>2, <2>2, <1>21
      <4> QED
        BY <4>1, <1>12, <1>21
    <3> QED
      BY <3>1, <3>2, <2>2, <2>3
  <2> QED
    BY <1>14, <1>15, <1>16, <1>21, <2>2, <2>3, <2>4
<1> QED
  BY <1>11, <1>17, <1>18, <1>21

LEMMA LoseInv ==
  ASSUME IInv, Lose
  PROVE  IInv'
<1>1. /\ ll # << >> /\ ll' = Tail(ll) /\ head = "NEW" /\ head' = "NEW" /\ boot' = FALSE
      /\ losses < MaxLost /\ losses' = losses + 1
      /\ damaged' = damaged \cup {Head(ll).pkt}
      /\ UNCHANGED <<sent, div, cuts, res, delivered, repeated, aborted, repeats, resets>>
  BY DEF Lose
<1>2. /\ Stream # << >> /\ Head(ll) = Stream[1] /\ Stream' = Tail(Stream)
      /\ Chain(sent, Stream) /\ Chain(sent', Stream')
      /\ ll' \in Seq(Frame) /\ Len(ll') <= QueueSize
      /\ Idle' \/ (\E k \in Nat : Cutting(k))'
      /\ div'.tx_pkt = << >> /\ ll' # << >> => ll'[Len(ll')].END
  BY <1>1, StreamShrinks DEF IInv
<1>3. sent \in Seq(Sizes) /\ sent \in Seq(1 .. Big) /\ losses \in 0 .. MaxLost
  BY SizesInRange DEF IInv, Types
<1>4. PICK f : f = Stream[1] /\ f = Head(ll)
  BY <1>2
<1>5. f.pkt \in 1 .. Len(sent)
  <2>1. 1 \in 1 .. Len(Stream)
    BY <1>2 DEF Chain
  <2>2. IsPiece(sent, f)
    BY <2>1, <1>2, <1>4 DEF Chain
  <2> QED
    BY <1>3, <2>2, PieceFacts
<1>6. damaged' \subseteq 1 .. Len(sent) /\ damaged \subseteq damaged' /\ f.pkt \in damaged'
  BY <1>1, <1>4, <1>5 DEF IInv, Types
<1>7. losses' \in 0 .. MaxLost /\ losses' # 0
  BY <1>1, <1>3, FragAssumption
<1>8. Types'
  BY <1>1, <1>2, <1>6, <1>7 DEF IInv, Types
<1>9. Tail(Stream) # << >> => Tail(Stream)[1].START \/ Tail(Stream)[1].pkt \in damaged'
  <2> HAVE Tail(Stream) # << >>
  <2>1. Continues(f, Tail(Stream)[1])
    BY <1>2, <1>4, ChainTail
  <2> QED
    BY <2>1, <1>6 DEF Continues
<1>10. Sane(sent', res', damaged', Rest')
  <2>1. Sane(sent, res, damaged, Stream)
    BY <1>1, RestFacts DEF IInv
  <2>2. Sane(sent, res, damaged', Tail(Stream))
    BY <1>3, <1>6, <1>9, <2>1, SaneStays
  <2>3. Rest' = Stream'
    BY <1>1 DEF Rest, Pending, Stream
  <2> QED
    BY <1>1, <1>2, <2>2, <2>3
<1>11. \A i \in 1 .. Len(delivered') : Good(sent', delivered'[i], damaged')
  <2>1. \A i \in 1 .. Len(delivered) : Good(sent, delivered[i], damaged')
    BY <1>3, <1>6, GoodStays DEF IInv
  <2> QED
    BY <1>1, <2>1
<1> QED
  BY <1>1, <1>2, <1>7, <1>8, <1>10, <1>11 DEF IInv

LEMMA SettleInv ==
  ASSUME IInv, Settle
  PROVE  IInv' /\ Rest' = Rest /\ Stream' = Rest
<1>1. /\ head # "NEW" /\ ll' = Tail(ll) /\ head' = "NEW" /\ boot' = FALSE
      /\ UNCHANGED <<sent, div, cuts, res, delivered, damaged, repeated, aborted,
                     losses, repeats, resets>>
  BY DEF Settle
<1>2. ll # << >> /\ Rest = Tail(Stream)
  BY <1>1, RestFacts
<1>3. /\ Stream' = Tail(Stream) /\ Chain(sent', Stream')
      /\ ll' \in Seq(Frame) /\ Len(ll') <= QueueSize
      /\ Idle' \/ (\E k \in Nat : Cutting(k))'
      /\ div'.tx_pkt = << >> /\ ll' # << >> => ll'[Len(ll')].END
  BY <1>1, <1>2, StreamShrinks
<1>4. Rest' = Stream'
  BY <1>1 DEF Rest, Pending, Stream
<1>5. Types'
  BY <1>1, <1>3 DEF IInv, Types
<1>6. Sane(sent', res', damaged', Rest')
  BY <1>1, <1>2, <1>3, <1>4 DEF IInv
<1>7. \A i \in 1 .. Len(delivered') : Good(sent', delivered'[i], damaged')
  BY <1>1 DEF IInv
<1>8. losses' = 0 => damaged' = {}
  BY <1>1 DEF IInv
<1> QED
  BY <1>1, <1>2, <1>3, <1>4, <1>5, <1>6, <1>7, <1>8 DEF IInv

LEMMA InitializeSenderInv ==
  ASSUME IInv, InitializeSender
  PROVE  IInv'
<1>1. /\ resets < MaxResets /\ resets' = resets + 1
      /\ div' = NoPacket /\ cuts' = 0 /\ ll' = << >> /\ boot' = TRUE /\ head' = "NEW"
      /\ aborted' = aborted \cup {f.pkt : f \in ToSet(Rest)}
      /\ UNCHANGED <<sent, res, delivered, damaged, repeated, losses, repeats>>
  BY DEF InitializeSender, Rest
<1>2. Chain(sent, Rest) /\ sent \in Seq(1 .. Big)
  BY SizesInRange, RestFacts DEF IInv, Types
<1>3. \A f \in ToSet(Rest) : f.pkt \in 1 .. Len(sent)
  <2> TAKE f \in ToSet(Rest)
  <2>1. DOMAIN Rest = 1 .. Len(Rest)
    BY <1>2 DEF Chain
  <2>2. PICK i \in 1 .. Len(Rest) : f = Rest[i]
    BY <2>1, Zenon DEF ToSet
  <2>3. IsPiece(sent, f)
    BY <1>2, <2>2 DEF Chain
  <2> QED
    BY <1>2, <2>3, PieceFacts
<1>4. aborted' \subseteq 1 .. Len(sent)
  BY <1>1, <1>3 DEF IInv, Types
<1>5. resets' \in 0 .. MaxResets
  BY <1>1, FragAssumption DEF IInv, Types
<1>6. << >> \in Seq(Frame) /\ Len(<< >>) <= QueueSize
  BY FragAssumption
<1>7. Types'
  BY <1>1, <1>4, <1>5, <1>6 DEF IInv, Types
<1>8. Stream' = << >> /\ Rest' = << >>
  BY <1>1 DEF Stream, Rest, Pending, NoPacket
<1>9. Chain(sent', Stream')
  BY <1>8 DEF Chain
<1>10. Sane(sent', res', damaged', Rest')
  <2>1. Sane(sent, res, damaged, Rest) /\ sent \in Seq(1 .. Big)
    BY <1>2 DEF IInv
  <2>2. Sane(sent, res, damaged, << >>)
    BY <2>1, SaneStays
  <2> QED
    BY <1>1, <1>8, <2>2
<1> QED
  BY <1>1, <1>7, <1>8, <1>9, <1>10 DEF IInv, Idle

LEMMA InitializeReceiverInv ==
  ASSUME IInv, InitializeReceiver
  PROVE  IInv'
<1>1. /\ resets < MaxResets /\ resets' = resets + 1
      /\ aborted' = aborted \cup PacketsIn(res) /\ res' = << >>
      /\ head' = (IF head = "NEW" THEN "NEW" ELSE "FORGOTTEN")
      /\ UNCHANGED <<sent, div, cuts, ll, boot, delivered, damaged, repeated, losses, repeats>>
  BY DEF InitializeReceiver
<1>2. aborted' \subseteq 1 .. Len(sent)
  BY <1>1, PacketsType DEF IInv, Types
<1>3. resets' \in 0 .. MaxResets
  BY <1>1, FragAssumption DEF IInv, Types
<1>4. << >> \in Seq((1 .. Len(sent)) \X (1 .. Big)) /\ Len(<< >>) <= Big
  BY FragAssumption
<1>5. Types'
  BY <1>1, <1>2, <1>3, <1>4 DEF IInv, Types
<1>6. Stream' = Stream /\ Rest' = Rest
  BY <1>1 DEF Stream, Rest, Pending
<1>7. Chain(sent', Stream') /\ Sane(sent', res', damaged', Rest')
  BY <1>1, <1>6 DEF IInv, Sane
<1>8. Idle' \/ (\E k \in Nat : Cutting(k))'
  BY <1>1 DEF IInv, Idle, Cutting
<1> QED
  BY <1>1, <1>5, <1>6, <1>7, <1>8 DEF IInv

LEMMA StutterInv ==
  ASSUME IInv, UNCHANGED vars
  PROVE  IInv'
<1>1. Stream' = Stream /\ Rest' = Rest
  BY DEF vars, link, Stream, Rest, Pending
<1>2. Idle' \/ (\E k \in Nat : Cutting(k))'
  BY DEF IInv, Idle, Cutting, vars, link
<1> QED
  BY <1>1, <1>2 DEF IInv, Types, vars, link

\* Whatever is lost and whoever starts again, the frames on their way and what
\* the reassembly holds fit together (IInv): zbncp_div_request, the LL's queue
\* and zbncp_res_process_response keep to it.
THEOREM FragInvariant == Spec => []IInv
<1>1. ASSUME IInv, [Next]_vars PROVE IInv'
  <2>1. CASE \E size \in Sizes : StoreTxPkt(size)
    BY <1>1, <2>1, StoreInv
  <2>2. CASE TakeFragment
    BY <1>1, <2>2, TakeInv
  <2>3. CASE \E acked \in BOOLEAN : ReceiveFragment(acked)
    BY <1>1, <2>3, ReceiveInv
  <2>4. CASE Lose
    BY <1>1, <2>4, LoseInv
  <2>5. CASE InitializeSender
    BY <1>1, <2>5, InitializeSenderInv
  <2>6. CASE InitializeReceiver
    BY <1>1, <2>6, InitializeReceiverInv
  <2>7. CASE UNCHANGED vars
    BY <1>1, <2>7, StutterInv
  <2>8. CASE Settle
    BY <1>1, <2>8, SettleInv
  <2> QED
    BY <1>1, <2>1, <2>2, <2>3, <2>4, <2>5, <2>6, <2>7, <2>8 DEF Next
<1> QED
  BY <1>1, InitInv, PTL DEF Spec

-----------------------------------------------------------------------------
(* What follows from it.                                                   *)

\* The types, and the reassembly's buffer is never written past its end.
THEOREM FragTypeOK == Spec => []TypeOK
<1>1. ASSUME IInv PROVE TypeOK
  <2>1. /\ sent \in Seq(Sizes) /\ Len(sent) <= MaxPkts
        /\ ll \in Seq(Frame) /\ Len(ll) <= QueueSize
        /\ res \in Seq((1 .. Len(sent)) \X (1 .. Big)) /\ Len(res) <= Big
        /\ boot \in BOOLEAN /\ head \in {"NEW", "KNOWN", "FORGOTTEN"}
        /\ ll = << >> => head = "NEW"
        /\ damaged \cup repeated \cup aborted \subseteq 1 .. Len(sent)
        /\ losses \in 0 .. MaxLost /\ repeats \in 0 .. MaxRepeats /\ resets \in 0 .. MaxResets
    BY <1>1 DEF IInv, Types
  <2>2. /\ div.tx_pkt \in Seq(Frame) /\ Len(div.tx_pkt) <= 1
        /\ div.pkt_size \in 0 .. Big /\ div.offset \in 0 .. div.pkt_size
        /\ cuts \in Nat
    BY <1>1, DividerFacts
  <2>3. ToSet(ll \o div.tx_pkt) \subseteq Frame
    <3>1. ll \o div.tx_pkt \in Seq(Frame)
      BY <2>1, <2>2, Concat
    <3>2. \A i \in DOMAIN (ll \o div.tx_pkt) : (ll \o div.tx_pkt)[i] \in Frame
      BY <3>1
    <3> QED
      BY <3>2, Zenon DEF ToSet
  <2>4. res \in Seq((1 .. MaxPkts) \X (1 .. Big))
    <3>1. 1 .. Len(sent) \subseteq 1 .. MaxPkts
      BY <2>1, FragAssumption
    <3> QED
      BY <2>1, <3>1, MorePairs
  <2> QED
    BY <2>1, <2>2, <2>3, <2>4 DEF TypeOK
<1> QED
  BY <1>1, FragInvariant, PTL

\* A delivered packet is a whole one unless the link lost a frame of it: no
\* start of either side, at any point of a packet, delivers a part or a mixture.
THEOREM DeliveredWhole == Spec => []WholePackets
<1>1. ASSUME IInv PROVE WholePackets
  <2>1. DOMAIN delivered = 1 .. Len(delivered) /\ DOMAIN sent = 1 .. Len(sent)
    BY <1>1 DEF IInv, Types
  <2>2. ASSUME NEW i \in 1 .. Len(delivered)
        PROVE  \/ \E m \in 1 .. Len(sent) : delivered[i] = Whole(m)
               \/ PacketsIn(delivered[i]) \cap damaged # {}
    BY <1>1 DEF IInv, Good, Touched, Whole
  <2> QED
    BY <2>1, <2>2 DEF WholePackets
<1> QED
  BY <1>1, FragInvariant, PTL

\* Cutting the small piece first makes no more pieces than cutting it last.
THEOREM FewestPieces == Spec => []FewestFragments
<1>1. ASSUME IInv PROVE FewestFragments
  <2>1. CASE Idle
    BY <2>1 DEF FewestFragments, Idle, NoPacket
  <2>2. CASE \E k \in Nat : Cutting(k)
    <3>1. PICK k \in Nat : Cutting(k)
      BY <2>2
    <3>2. PICK size : div.pkt_size = size /\ cuts + Pieces(size - div.offset) = Pieces(size)
      BY <1>1, <3>1, CuttingFacts, Zenon DEF IInv, Types
    <3> QED
      BY <3>2 DEF FewestFragments
  <2> QED
    BY <1>1, <2>1, <2>2 DEF IInv
<1> QED
  BY <1>1, FragInvariant, PTL

\* As long as the link loses nothing every frame fits in the place that
\* reassembling_new_place gives it, whichever side starts again.
THEOREM RoomForEveryFrame == Spec => []AlwaysRoom
<1>1. ASSUME IInv PROVE AlwaysRoom
  <2> SUFFICES ASSUME losses = 0, CanCome
               PROVE  Head(ll).size <= PlaceSize(Len(res))
    BY DEF AlwaysRoom
  <2>1. damaged = {} /\ Chain(sent, Stream) /\ Sane(sent, res, {}, Rest)
    BY <1>1 DEF IInv
  <2>2. Stream # << >> /\ Head(ll) = Stream[1]
    BY <1>1, DividerFacts, StreamHead DEF IInv, Types, Stream, CanCome
  <2>3. sent \in Seq(1 .. Big)
    BY <1>1, SizesInRange DEF IInv, Types
  <2> QED
    BY <2>1, <2>2, <2>3, SaneRoom
<1> QED
  BY <1>1, FragInvariant, PTL

-----------------------------------------------------------------------------
(* What came through whole.  The packets in the stream q ascend, each one  *)
(* that is not harmed comes from its first byte or from where the          *)
(* reassembly r stands, and those that have left it are delivered: lost is *)
(* the set of the harmed packets, dl the packets delivered, rep the set of *)
(* the packets a frame of which came again.                                *)

Ahead(q) == \A i, j \in 1 .. Len(q) :
              i < j => q[i].pkt <= q[j].pkt /\ (q[i].END => q[i].pkt < q[j].pkt)

OnItsWay(q, m) == \E i \in 1 .. Len(q) : q[i].pkt = m

Comes(r, lost, q) ==
  q # << >> => q[1].START \/ q[1].pkt \in lost \/ r = Bytes(q[1].pkt, 0, q[1].from)

Carried(s, dl, i, m) == dl[i] = Bytes(m, 0, s[m])

Arrived(s, lost, q, dl) ==
  \A m \in (1 .. Len(s)) \ lost : OnItsWay(q, m) \/ \E i \in 1 .. Len(dl) : Carried(s, dl, i, m)

Behind(s, lost, q, dl) ==
  \A i \in 1 .. Len(dl), m \in (1 .. Len(s)) \ lost, j \in 1 .. Len(q) :
    Carried(s, dl, i, m) => m < q[j].pkt

InOrder(s, lost, rep, dl) ==
  \A i, j \in 1 .. Len(dl), m, n \in (1 .. Len(s)) \ lost :
    i < j /\ Carried(s, dl, i, m) /\ Carried(s, dl, j, n) =>
      m < n \/ (m = n /\ m \in rep /\ s[m] <= Body)

Delivery(s, r, lost, rep, q, dl) ==
  /\ Ahead(q)
  /\ Comes(r, lost, q)
  /\ Arrived(s, lost, q, dl)
  /\ Behind(s, lost, q, dl)
  /\ InOrder(s, lost, rep, dl)

\* No packet is delivered before the head of the stream.
UpTo(s, lost, q, dl) ==
  \A i \in 1 .. Len(dl), m \in (1 .. Len(s)) \ lost :
    q # << >> /\ Carried(s, dl, i, m) => m <= q[1].pkt

\* A frame behind a packet's last one, or the next of the same packet.
LEMMA AheadAppend ==
  ASSUME NEW s \in Seq(1 .. Big), NEW q, Chain(s, q), Ahead(q), NEW g \in Frame,
         \A i \in 1 .. Len(q) : q[i].pkt <= g.pkt /\ (q[i].END => q[i].pkt < g.pkt)
  PROVE  Ahead(Append(q, g))
<1>1. q \in Seq(Frame)
  BY DEF Chain
<1>2. Len(Append(q, g)) = Len(q) + 1 /\ Append(q, g)[Len(q) + 1] = g
  BY <1>1
<1>3. \A i \in 1 .. Len(q) : Append(q, g)[i] = q[i]
  BY <1>1
<1> SUFFICES ASSUME NEW i \in 1 .. Len(q) + 1, NEW j \in 1 .. Len(q) + 1, i < j
             PROVE  /\ Append(q, g)[i].pkt <= Append(q, g)[j].pkt
                    /\ Append(q, g)[i].END => Append(q, g)[i].pkt < Append(q, g)[j].pkt
  BY <1>2 DEF Ahead
<1>4. i \in 1 .. Len(q)
  BY <1>1
<1>5. CASE j \in 1 .. Len(q)
  BY <1>3, <1>4, <1>5 DEF Ahead
<1>6. CASE j = Len(q) + 1
  BY <1>2, <1>3, <1>4, <1>6
<1> QED
  BY <1>1, <1>5, <1>6

LEMMA TailFacts ==
  ASSUME NEW S, NEW q \in Seq(S), q # << >>
  PROVE  /\ Len(q) \in Nat \ {0} /\ Len(Tail(q)) = Len(q) - 1
         /\ \A i \in 1 .. Len(Tail(q)) : Tail(q)[i] = q[i + 1] /\ i + 1 \in 1 .. Len(q)
         /\ \A i \in 1 .. Len(q) : i # 1 => i - 1 \in 1 .. Len(Tail(q)) /\ Tail(q)[i - 1] = q[i]
OBVIOUS

\* The head of the stream is gone.
LEMMA AheadTail ==
  ASSUME NEW q \in Seq(Frame), q # << >>, Ahead(q)
  PROVE  Ahead(Tail(q))
<1>1. \A i, j \in 1 .. Len(Tail(q)) : i < j =>
         Tail(q)[i].pkt <= Tail(q)[j].pkt /\ (Tail(q)[i].END => Tail(q)[i].pkt < Tail(q)[j].pkt)
  <2> TAKE i, j \in 1 .. Len(Tail(q))
  <2> HAVE i < j
  <2>1. PICK a \in 1 .. Len(q) : a = i + 1 /\ Tail(q)[i] = q[a]
    BY TailFacts
  <2>2. PICK b \in 1 .. Len(q) : b = j + 1 /\ Tail(q)[j] = q[b]
    BY TailFacts
  <2>3. a < b
    BY <2>1, <2>2
  <2> QED
    BY <2>1, <2>2, <2>3 DEF Ahead
<1> QED
  BY <1>1 DEF Ahead

\* What a packet carries is carried still when more packets are sent.
LEMMA CarriedStays ==
  ASSUME NEW S, NEW s \in Seq(S), NEW z, NEW dl, NEW i, NEW m \in 1 .. Len(s)
  PROVE  Carried(s, dl, i, m) <=> Carried(Append(s, z), dl, i, m)
<1>1. Append(s, z)[m] = s[m]
  OBVIOUS
<1> QED
  BY <1>1 DEF Carried

\* Only packets sent are delivered whole.
LEMMA CarriedSize ==
  ASSUME NEW s \in Seq(1 .. Big), NEW dl, NEW i, NEW m \in 1 .. Len(s), Carried(s, dl, i, m)
  PROVE  PacketsIn(dl[i]) = {m}
<1>1. s[m] \in 1 .. Big
  BY Element, Zenon
<1>2. 0 \in Nat /\ s[m] \in Nat \ {0}
  BY <1>1
<1> QED
  BY <1>2, BytesPackets DEF Carried

\* More harm asks for less.
LEMMA DeliveryHarmed ==
  ASSUME NEW s, NEW r, NEW lost, NEW lost2, lost \subseteq lost2,
         NEW rep, NEW rep2, rep \subseteq rep2, NEW q, NEW dl,
         Delivery(s, r, lost, rep, q, dl)
  PROVE  Delivery(s, r, lost2, rep2, q, dl)
<1>1. Ahead(q) /\ Comes(r, lost2, q)
  BY DEF Delivery, Comes
<1>2. \A m \in (1 .. Len(s)) \ lost2 : m \in (1 .. Len(s)) \ lost
  OBVIOUS
<1>3. Arrived(s, lost2, q, dl)
  BY <1>2 DEF Delivery, Arrived
<1>4. Behind(s, lost2, q, dl)
  BY <1>2 DEF Delivery, Behind
<1>5. InOrder(s, lost2, rep2, dl)
  BY <1>2 DEF Delivery, InOrder
<1> QED
  BY <1>1, <1>3, <1>4, <1>5 DEF Delivery

\* More harm lets less be delivered before the head.
LEMMA UpToHarmed ==
  ASSUME NEW s, NEW lost, NEW lost2, lost \subseteq lost2, NEW q, NEW dl, UpTo(s, lost, q, dl)
  PROVE  UpTo(s, lost2, q, dl)
BY DEF UpTo

LEMMA BehindUpTo ==
  ASSUME NEW s \in Seq(1 .. Big), NEW r, NEW lost, NEW rep, NEW q, Chain(s, q), NEW dl,
         Delivery(s, r, lost, rep, q, dl)
  PROVE  Ahead(q) /\ UpTo(s, lost, q, dl)
<1>1. q \in Seq(Frame)
  BY DEF Chain
<1>2. ASSUME NEW i \in 1 .. Len(dl), NEW m \in (1 .. Len(s)) \ lost, q # << >>,
             Carried(s, dl, i, m)
      PROVE  m <= q[1].pkt
  <2>1. 1 \in 1 .. Len(q)
    BY <1>1, <1>2
  <2>2. m < q[1].pkt
    BY <1>2, <2>1 DEF Delivery, Behind
  <2>3. IsPiece(s, q[1])
    BY <2>1 DEF Chain
  <2>4. q[1].pkt \in Nat /\ m \in Nat
    BY <2>3, PieceFacts
  <2> QED
    BY <2>2, <2>4
<1> QED
  BY <1>2 DEF Delivery, UpTo

\* What the reassembly holds does not matter to a packet that is harmed.
LEMMA DeliveryAny ==
  ASSUME NEW s \in Seq(1 .. Big), NEW r, NEW r2, NEW lost, NEW rep, NEW q, Chain(s, q), q # << >>,
         NEW dl, q[1].pkt \in lost, Delivery(s, r, lost, rep, Tail(q), dl)
  PROVE  Delivery(s, r2, lost, rep, Tail(q), dl)
<1>1. Comes(r2, lost, Tail(q))
  BY ChainTail DEF Comes, Continues
<1> QED
  BY <1>1 DEF Delivery

\* The first frame of an unharmed packet that has more to come, once more.
LEMMA DeliveryOn ==
  ASSUME NEW s \in Seq(1 .. Big), NEW r, NEW lost, NEW rep, NEW q, Chain(s, q), q # << >>,
         NEW dl, ~ q[1].END, Delivery(s, r, lost, rep, Tail(q), dl)
  PROVE  Delivery(s, Bytes(q[1].pkt, 0, q[1].from + q[1].size), lost, rep, Tail(q), dl)
<1>1. Tail(q) # << >> => Tail(q)[1].pkt = q[1].pkt /\ Tail(q)[1].from = q[1].from + q[1].size
  BY ChainTail DEF Continues
<1>2. Comes(Bytes(q[1].pkt, 0, q[1].from + q[1].size), lost, Tail(q))
  BY <1>1 DEF Comes
<1> QED
  BY <1>2 DEF Delivery

\* The frame at the head of the stream is gone, and its packet is harmed.
LEMMA DeliveryTail ==
  ASSUME NEW s \in Seq(1 .. Big), NEW r, NEW r2, NEW lost, NEW rep, NEW q, Chain(s, q), q # << >>,
         NEW dl, q[1].pkt \in lost, Delivery(s, r, lost, rep, q, dl)
  PROVE  Delivery(s, r2, lost, rep, Tail(q), dl)
<1>1. q \in Seq(Frame)
  BY DEF Chain
<1>2. Ahead(Tail(q))
  BY <1>1, AheadTail DEF Delivery
<1>3. Comes(r2, lost, Tail(q))
  BY ChainTail DEF Comes, Continues
<1>4. Arrived(s, lost, Tail(q), dl)
  <2> SUFFICES ASSUME NEW m \in (1 .. Len(s)) \ lost, OnItsWay(q, m)
               PROVE  OnItsWay(Tail(q), m)
    BY DEF Delivery, Arrived
  <2>1. PICK i \in 1 .. Len(q) : q[i].pkt = m
    BY DEF OnItsWay
  <2>2. i # 1
    BY <2>1
  <2> QED
    BY <1>1, <2>1, <2>2, TailFacts DEF OnItsWay
<1>5. Behind(s, lost, Tail(q), dl)
  BY <1>1, TailFacts DEF Delivery, Behind
<1> QED
  BY <1>2, <1>3, <1>4, <1>5 DEF Delivery

\* A frame of an unharmed packet that has more to come.
LEMMA DeliveryNext ==
  ASSUME NEW s \in Seq(1 .. Big), NEW r, NEW lost, NEW rep, NEW q, Chain(s, q), q # << >>, Tail(q) # << >>,
         NEW dl, ~ q[1].END, Delivery(s, r, lost, rep, q, dl)
  PROVE  Delivery(s, Bytes(q[1].pkt, 0, q[1].from + q[1].size), lost, rep, Tail(q), dl)
<1>1. q \in Seq(Frame)
  BY DEF Chain
<1>2. Ahead(Tail(q))
  BY <1>1, AheadTail DEF Delivery
<1>3. Tail(q)[1].pkt = q[1].pkt /\ Tail(q)[1].from = q[1].from + q[1].size
  BY ChainTail DEF Continues
<1>4. Comes(Bytes(q[1].pkt, 0, q[1].from + q[1].size), lost, Tail(q))
  BY <1>3 DEF Comes
<1>5. Arrived(s, lost, Tail(q), dl)
  <2> SUFFICES ASSUME NEW m \in (1 .. Len(s)) \ lost, OnItsWay(q, m)
               PROVE  OnItsWay(Tail(q), m)
    BY DEF Delivery, Arrived
  <2>1. PICK i \in 1 .. Len(q) : q[i].pkt = m
    BY DEF OnItsWay
  <2>2. CASE i = 1
    <3>1. PICK t \in Seq(Frame) : t = Tail(q)
      BY ChainTail DEF Chain
    <3>2. 1 \in 1 .. Len(t)
      BY <3>1
    <3>3. t[1].pkt = m
      BY <1>3, <2>1, <2>2, <3>1
    <3> QED
      BY <3>1, <3>2, <3>3 DEF OnItsWay
  <2>3. CASE i # 1
    BY <1>1, <2>1, <2>3, TailFacts DEF OnItsWay
  <2> QED
    BY <2>2, <2>3
<1>6. Behind(s, lost, Tail(q), dl)
  BY <1>1, TailFacts DEF Delivery, Behind
<1> QED
  BY <1>2, <1>4, <1>5, <1>6 DEF Delivery

\* The last frame of an unharmed packet, which is delivered.
LEMMA DeliveryLast ==
  ASSUME NEW s \in Seq(1 .. Big), NEW r, NEW r2, NEW lost, NEW rep, NEW q, Chain(s, q), q # << >>,
         NEW S, NEW dl \in Seq(S), NEW p \in S,
         q[1].END, q[1].pkt \in 1 .. Len(s), p = Bytes(q[1].pkt, 0, s[q[1].pkt]),
         Delivery(s, r, lost, rep, q, dl)
  PROVE  Delivery(s, r2, lost, rep, Tail(q), Append(dl, p))
<1> DEFINE dl2 == Append(dl, p)
<1>1. q \in Seq(Frame)
  BY DEF Chain
<1>2. Ahead(Tail(q))
  BY <1>1, AheadTail DEF Delivery
<1>3. Comes(r2, lost, Tail(q))
  BY ChainTail DEF Comes, Continues
<1>4. /\ Len(dl2) = Len(dl) + 1 /\ dl2[Len(dl) + 1] = p
      /\ \A i \in 1 .. Len(dl) : dl2[i] = dl[i] /\ i \in 1 .. Len(dl2)
      /\ \A i \in 1 .. Len(dl2) : i \in 1 .. Len(dl) \/ i = Len(dl) + 1
      /\ Len(dl) + 1 \in 1 .. Len(dl2)
      /\ Len(dl) \in Nat
  OBVIOUS
<1> HIDE DEF dl2
<1>5. \A i \in 1 .. Len(dl), m \in 1 .. Len(s) : Carried(s, dl2, i, m) <=> Carried(s, dl, i, m)
  BY <1>4 DEF Carried
<1>6. Carried(s, dl2, Len(dl) + 1, q[1].pkt)
  BY <1>4 DEF Carried
<1>7. \A m \in 1 .. Len(s) : Carried(s, dl2, Len(dl) + 1, m) => m = q[1].pkt
  <2> TAKE m \in 1 .. Len(s)
  <2> HAVE Carried(s, dl2, Len(dl) + 1, m)
  <2>1. PacketsIn(dl2[Len(dl) + 1]) = {m} /\ PacketsIn(dl2[Len(dl) + 1]) = {q[1].pkt}
    BY <1>6, CarriedSize
  <2> QED
    BY <2>1
<1>8. Arrived(s, lost, Tail(q), dl2)
  <2> SUFFICES ASSUME NEW m \in (1 .. Len(s)) \ lost
               PROVE  OnItsWay(Tail(q), m) \/ \E i \in 1 .. Len(dl2) : Carried(s, dl2, i, m)
    BY DEF Arrived
  <2>1. CASE \E i \in 1 .. Len(dl) : Carried(s, dl, i, m)
    BY <1>4, <1>5, <2>1
  <2>2. CASE OnItsWay(q, m)
    <3>1. PICK i \in 1 .. Len(q) : q[i].pkt = m
      BY <2>2 DEF OnItsWay
    <3>2. CASE i = 1
      BY <1>4, <1>6, <3>1, <3>2
    <3>3. CASE i # 1
      BY <1>1, <3>1, <3>3, TailFacts DEF OnItsWay
    <3> QED
      BY <3>2, <3>3
  <2> QED
    BY <2>1, <2>2 DEF Delivery, Arrived
<1>9. Behind(s, lost, Tail(q), dl2)
  <2> SUFFICES ASSUME NEW i \in 1 .. Len(dl2), NEW m \in (1 .. Len(s)) \ lost,
                      NEW j \in 1 .. Len(Tail(q)), Carried(s, dl2, i, m)
               PROVE  m < Tail(q)[j].pkt
    BY DEF Behind
  <2>1. PICK k \in 1 .. Len(q) : k = j + 1 /\ q[k] = Tail(q)[j]
    BY <1>1, TailFacts
  <2>2. CASE i \in 1 .. Len(dl)
    BY <1>5, <2>1, <2>2 DEF Delivery, Behind
  <2>3. CASE i = Len(dl) + 1
    <3>1. m = q[1].pkt
      BY <1>7, <2>3
    <3>2. 1 \in 1 .. Len(q) /\ 1 < k
      BY <1>1, <2>1
    <3>3. q[1].pkt < q[k].pkt
      BY <3>2 DEF Delivery, Ahead
    <3> QED
      BY <2>1, <3>1, <3>3
  <2> QED
    BY <1>4, <2>2, <2>3
<1>10. InOrder(s, lost, rep, dl2)
  <2> SUFFICES ASSUME NEW i \in 1 .. Len(dl2), NEW j \in 1 .. Len(dl2),
                      NEW m \in (1 .. Len(s)) \ lost, NEW n \in (1 .. Len(s)) \ lost,
                      i < j, Carried(s, dl2, i, m), Carried(s, dl2, j, n)
               PROVE  m < n \/ (m = n /\ m \in rep /\ s[m] <= Body)
    BY DEF InOrder
  <2>1. i \in 1 .. Len(dl)
    BY <1>4
  <2>2. Carried(s, dl, i, m)
    BY <1>5, <2>1
  <2>3. CASE j \in 1 .. Len(dl)
    BY <1>5, <2>1, <2>2, <2>3 DEF Delivery, InOrder
  <2>4. CASE j = Len(dl) + 1
    <3>1. n = q[1].pkt
      BY <1>7, <2>4
    <3>2. 1 \in 1 .. Len(q)
      BY <1>1
    <3> QED
      BY <2>1, <2>2, <3>1, <3>2 DEF Delivery, Behind
  <2> QED
    BY <1>4, <2>3, <2>4
<1> QED
  BY <1>2, <1>3, <1>8, <1>9, <1>10 DEF Delivery, dl2

\* The only frame of an unharmed packet, which is delivered once more.
LEMMA DeliveryAgain ==
  ASSUME NEW s \in Seq(1 .. Big), NEW r, NEW r2, NEW lost, NEW rep, NEW q, Chain(s, q), q # << >>,
         NEW S, NEW dl \in Seq(S), NEW p \in S,
         q[1].END, q[1].pkt \in 1 .. Len(s), p = Bytes(q[1].pkt, 0, s[q[1].pkt]),
         q[1].pkt \in rep, s[q[1].pkt] <= Body, Ahead(q), UpTo(s, lost, q, dl),
         Delivery(s, r, lost, rep, Tail(q), dl)
  PROVE  Delivery(s, r2, lost, rep, Tail(q), Append(dl, p))
<1> DEFINE dl2 == Append(dl, p)
<1>1. q \in Seq(Frame)
  BY DEF Chain
<1>2. Comes(r2, lost, Tail(q))
  BY ChainTail DEF Comes, Continues
<1>3. /\ Len(dl2) = Len(dl) + 1 /\ dl2[Len(dl) + 1] = p
      /\ \A i \in 1 .. Len(dl) : dl2[i] = dl[i] /\ i \in 1 .. Len(dl2)
      /\ \A i \in 1 .. Len(dl2) : i \in 1 .. Len(dl) \/ i = Len(dl) + 1
      /\ Len(dl) \in Nat
  OBVIOUS
<1> HIDE DEF dl2
<1>4. \A i \in 1 .. Len(dl), m \in 1 .. Len(s) : Carried(s, dl2, i, m) <=> Carried(s, dl, i, m)
  BY <1>3 DEF Carried
<1>5. \A m \in 1 .. Len(s) : Carried(s, dl2, Len(dl) + 1, m) => m = q[1].pkt
  <2> TAKE m \in 1 .. Len(s)
  <2> HAVE Carried(s, dl2, Len(dl) + 1, m)
  <2>1. Carried(s, dl2, Len(dl) + 1, q[1].pkt)
    BY <1>3 DEF Carried
  <2>2. PacketsIn(dl2[Len(dl) + 1]) = {m} /\ PacketsIn(dl2[Len(dl) + 1]) = {q[1].pkt}
    BY <2>1, CarriedSize
  <2> QED
    BY <2>2
<1>6. Arrived(s, lost, Tail(q), dl2)
  BY <1>3, <1>4 DEF Delivery, Arrived
<1>7. Behind(s, lost, Tail(q), dl2)
  <2> SUFFICES ASSUME NEW i \in 1 .. Len(dl2), NEW m \in (1 .. Len(s)) \ lost,
                      NEW j \in 1 .. Len(Tail(q)), Carried(s, dl2, i, m)
               PROVE  m < Tail(q)[j].pkt
    BY DEF Behind
  <2>1. CASE i \in 1 .. Len(dl)
    BY <1>4, <2>1 DEF Delivery, Behind
  <2>2. CASE i = Len(dl) + 1
    <3>1. m = q[1].pkt
      BY <1>5, <2>2
    <3>2. PICK k \in 1 .. Len(q) : k = j + 1 /\ q[k] = Tail(q)[j]
      BY <1>1, TailFacts
    <3>3. 1 \in 1 .. Len(q) /\ 1 < k
      BY <1>1, <3>2
    <3>4. q[1].pkt < q[k].pkt
      BY <3>3 DEF Ahead
    <3> QED
      BY <3>1, <3>2, <3>4
  <2> QED
    BY <1>3, <2>1, <2>2
<1>8. InOrder(s, lost, rep, dl2)
  <2> SUFFICES ASSUME NEW i \in 1 .. Len(dl2), NEW j \in 1 .. Len(dl2),
                      NEW m \in (1 .. Len(s)) \ lost, NEW n \in (1 .. Len(s)) \ lost,
                      i < j, Carried(s, dl2, i, m), Carried(s, dl2, j, n)
               PROVE  m < n \/ (m = n /\ m \in rep /\ s[m] <= Body)
    BY DEF InOrder
  <2>1. i \in 1 .. Len(dl)
    BY <1>3
  <2>2. Carried(s, dl, i, m)
    BY <1>4, <2>1
  <2>3. CASE j \in 1 .. Len(dl)
    BY <1>4, <2>1, <2>2, <2>3 DEF Delivery, InOrder
  <2>4. CASE j = Len(dl) + 1
    <3>1. n = q[1].pkt
      BY <1>5, <2>4
    <3>2. m <= n
      BY <2>1, <2>2, <3>1 DEF UpTo
    <3> QED
      BY <3>1, <3>2
  <2> QED
    BY <1>3, <2>3, <2>4
<1> QED
  BY <1>2, <1>6, <1>7, <1>8 DEF Delivery, dl2

\* A packet that is delivered with harmed ones in it.
LEMMA DeliverySpoilt ==
  ASSUME NEW s \in Seq(1 .. Big), NEW r, NEW lost, NEW rep, NEW q, NEW S, NEW dl \in Seq(S), NEW p \in S,
         PacketsIn(p) \cap lost # {}, Delivery(s, r, lost, rep, q, dl)
  PROVE  Delivery(s, r, lost, rep, q, Append(dl, p))
<1> DEFINE dl2 == Append(dl, p)
<1>1. /\ dl2[Len(dl) + 1] = p
      /\ \A i \in 1 .. Len(dl) : dl2[i] = dl[i] /\ i \in 1 .. Len(dl2)
      /\ \A i \in 1 .. Len(dl2) : i \in 1 .. Len(dl) \/ i = Len(dl) + 1
  OBVIOUS
<1> HIDE DEF dl2
<1>2. \A m \in (1 .. Len(s)) \ lost : ~ Carried(s, dl2, Len(dl) + 1, m)
  <2> SUFFICES ASSUME NEW m \in (1 .. Len(s)) \ lost, Carried(s, dl2, Len(dl) + 1, m)
               PROVE  FALSE
    OBVIOUS
  <2>1. PacketsIn(dl2[Len(dl) + 1]) = {m}
    BY CarriedSize
  <2> QED
    BY <1>1, <2>1
<1>3. \A i \in 1 .. Len(dl), m \in 1 .. Len(s) : Carried(s, dl2, i, m) <=> Carried(s, dl, i, m)
  BY <1>1 DEF Carried
<1>4. \A i \in 1 .. Len(dl2), m \in (1 .. Len(s)) \ lost :
        Carried(s, dl2, i, m) => i \in 1 .. Len(dl) /\ Carried(s, dl, i, m)
  BY <1>1, <1>2, <1>3
<1>5. Arrived(s, lost, q, dl2)
  BY <1>1, <1>3 DEF Delivery, Arrived
<1>6. Behind(s, lost, q, dl2)
  BY <1>4 DEF Delivery, Behind
<1>7. InOrder(s, lost, rep, dl2)
  BY <1>4 DEF Delivery, InOrder
<1> QED
  BY <1>5, <1>6, <1>7 DEF Delivery, dl2

\* A frame is added behind the others: of a new packet, or of the last one.
LEMMA DeliveryAdds ==
  ASSUME NEW s \in Seq(1 .. Big), NEW r, NEW lost, NEW rep, NEW q, Chain(s, q), NEW dl, NEW g \in Frame,
         \A i \in 1 .. Len(q) : q[i].pkt <= g.pkt /\ (q[i].END => q[i].pkt < g.pkt),
         q = << >> => g.START,
         \A i \in 1 .. Len(dl), m \in (1 .. Len(s)) \ lost : Carried(s, dl, i, m) => m < g.pkt,
         Delivery(s, r, lost, rep, q, dl)
  PROVE  Delivery(s, r, lost, rep, Append(q, g), dl)
<1>1. q \in Seq(Frame)
  BY DEF Chain
<1>2. Ahead(Append(q, g))
  BY AheadAppend DEF Delivery
<1>3. /\ \A i \in 1 .. Len(q) : Append(q, g)[i] = q[i] /\ i \in 1 .. Len(Append(q, g))
      /\ \A i \in 1 .. Len(Append(q, g)) : i \in 1 .. Len(q) \/ Append(q, g)[i] = g
      /\ q # << >> => 1 \in 1 .. Len(q)
      /\ q = << >> => Append(q, g)[1] = g
  BY <1>1
<1>4. Comes(r, lost, Append(q, g))
  BY <1>3 DEF Delivery, Comes
<1>5. Arrived(s, lost, Append(q, g), dl)
  BY <1>3 DEF Delivery, Arrived, OnItsWay
<1>6. Behind(s, lost, Append(q, g), dl)
  BY <1>3 DEF Delivery, Behind
<1> QED
  BY <1>2, <1>4, <1>5, <1>6 DEF Delivery

\* Nothing is delivered yet of the packet that is sent.
LEMMA NothingNew ==
  ASSUME NEW s \in Seq(1 .. Big), NEW z \in 1 .. Big, NEW lost, NEW d, d \subseteq 1 .. Len(s),
         NEW dl, \A i \in 1 .. Len(dl) : Good(s, dl[i], d)
  PROVE  \A i \in 1 .. Len(dl), m \in (1 .. Len(Append(s, z))) \ lost :
           Carried(Append(s, z), dl, i, m) =>
             m \in (1 .. Len(s)) \ lost /\ Carried(s, dl, i, m) /\ m < Len(s) + 1
<1> DEFINE s2 == Append(s, z)
           new == Len(s) + 1
<1>1. /\ s2 \in Seq(1 .. Big) /\ Len(s2) = new
      /\ \A m \in 1 .. Len(s2) : m \in 1 .. Len(s) \/ m = new
      /\ new \in 1 .. Len(s2) /\ new \notin 1 .. Len(s)
      /\ \A m \in 1 .. Len(s) : m \in 1 .. Len(s2) /\ m < new
  OBVIOUS
<1>2. \A i \in 1 .. Len(dl), m \in 1 .. Len(s) : Carried(s2, dl, i, m) <=> Carried(s, dl, i, m)
  BY CarriedStays
<1> HIDE DEF s2, new
<1>3. \A i \in 1 .. Len(dl) : ~ Carried(s2, dl, i, new)
  <2> SUFFICES ASSUME NEW i \in 1 .. Len(dl), Carried(s2, dl, i, new)
               PROVE  FALSE
    OBVIOUS
  <2>1. PacketsIn(dl[i]) = {new}
    BY <1>1, CarriedSize
  <2>2. CASE Touched(dl[i], d)
    BY <1>1, <2>1, <2>2 DEF Touched
  <2>3. CASE \E m \in 1 .. Len(s) : dl[i] = Bytes(m, 0, s[m])
    <3>1. PICK m \in 1 .. Len(s) : Carried(s, dl, i, m)
      BY <2>3 DEF Carried
    <3>2. PacketsIn(dl[i]) = {m}
      BY <3>1, CarriedSize
    <3> QED
      BY <1>1, <2>1, <3>2
  <2> QED
    BY <2>2, <2>3 DEF Good
<1>4. \A i \in 1 .. Len(dl), m \in (1 .. Len(s2)) \ lost :
        Carried(s2, dl, i, m) => m \in (1 .. Len(s)) \ lost /\ Carried(s, dl, i, m) /\ m < new
  BY <1>1, <1>2, <1>3
<1> QED
  BY <1>4 DEF s2, new

\* A new packet: nothing of it is delivered yet.
LEMMA DeliverySends ==
  ASSUME NEW s \in Seq(1 .. Big), NEW z \in 1 .. Big, NEW r, NEW lost, NEW rep, NEW d, d \subseteq lost,
         d \subseteq 1 .. Len(s),
         NEW q, Chain(s, q), NEW dl, \A i \in 1 .. Len(dl) : Good(s, dl[i], d),
         NEW g \in Frame, g.START, g.pkt = Len(s) + 1,
         Delivery(s, r, lost, rep, q, dl)
  PROVE  Delivery(Append(s, z), r, lost, rep, Append(q, g), dl)
<1> DEFINE s2 == Append(s, z)
           new == Len(s) + 1
<1>1. /\ s2 \in Seq(1 .. Big) /\ Len(s2) = new
      /\ \A m \in 1 .. Len(s2) : m \in 1 .. Len(s) \/ m = new
      /\ new \in 1 .. Len(s2) /\ new \notin 1 .. Len(s)
      /\ \A m \in 1 .. Len(s) : m \in 1 .. Len(s2) /\ m < new
  OBVIOUS
<1>2. \A i \in 1 .. Len(dl), m \in 1 .. Len(s) : Carried(s2, dl, i, m) <=> Carried(s, dl, i, m)
  BY CarriedStays
<1> HIDE DEF s2, new
<1>4. \A i \in 1 .. Len(dl), m \in (1 .. Len(s2)) \ lost :
        Carried(s2, dl, i, m) => m \in (1 .. Len(s)) \ lost /\ Carried(s, dl, i, m) /\ m < new
  BY NothingNew DEF s2, new
<1>5. Chain(s2, q)
  BY ChainMorePackets DEF s2
<1>6. q \in Seq(Frame)
  BY DEF Chain
<1>7. \A i \in 1 .. Len(q) : q[i].pkt < g.pkt /\ q[i].pkt <= g.pkt
  <2> TAKE i \in 1 .. Len(q)
  <2>1. q[i].pkt \in 1 .. Len(s)
    BY PieceFacts DEF Chain
  <2> QED
    BY <1>1, <2>1 DEF new
<1>8. Ahead(Append(q, g))
  BY <1>1, <1>5, <1>7, AheadAppend DEF Delivery
<1>9. /\ \A i \in 1 .. Len(q) : Append(q, g)[i] = q[i] /\ i \in 1 .. Len(Append(q, g))
      /\ \A i \in 1 .. Len(Append(q, g)) : i \in 1 .. Len(q) \/ Append(q, g)[i] = g
      /\ q # << >> => 1 \in 1 .. Len(q)
      /\ q = << >> => Append(q, g)[1] = g
      /\ \E i \in 1 .. Len(Append(q, g)) : Append(q, g)[i] = g
  <2>1. Len(q) + 1 \in 1 .. Len(Append(q, g)) /\ Append(q, g)[Len(q) + 1] = g
    BY <1>6
  <2> QED
    BY <1>6, <2>1
<1>10. Comes(r, lost, Append(q, g))
  BY <1>9 DEF Delivery, Comes
<1>11. Arrived(s2, lost, Append(q, g), dl)
  <2> SUFFICES ASSUME NEW m \in (1 .. Len(s2)) \ lost
               PROVE  OnItsWay(Append(q, g), m) \/ \E i \in 1 .. Len(dl) : Carried(s2, dl, i, m)
    BY DEF Arrived
  <2>1. CASE m \in 1 .. Len(s)
    BY <1>2, <1>9, <2>1 DEF Delivery, Arrived, OnItsWay
  <2>2. CASE m = new
    BY <1>9, <2>2 DEF OnItsWay, new
  <2> QED
    BY <1>1, <2>1, <2>2
<1>12. Behind(s2, lost, Append(q, g), dl)
  <2> SUFFICES ASSUME NEW i \in 1 .. Len(dl), NEW m \in (1 .. Len(s2)) \ lost,
                      NEW j \in 1 .. Len(Append(q, g)), Carried(s2, dl, i, m)
               PROVE  m < Append(q, g)[j].pkt
    BY DEF Behind
  <2>1. m \in (1 .. Len(s)) \ lost /\ Carried(s, dl, i, m) /\ m < g.pkt
    BY <1>4 DEF new
  <2> QED
    BY <1>9, <2>1 DEF Delivery, Behind
<1>13. InOrder(s2, lost, rep, dl)
  <2>1. \A m \in 1 .. Len(s) : s2[m] = s[m]
    BY DEF s2
  <2> QED
    BY <1>4, <2>1 DEF Delivery, InOrder
<1> QED
  BY <1>8, <1>10, <1>11, <1>12, <1>13 DEF Delivery, s2

\* The sender starts again, and harms what is on its way.
LEMMA DeliveryEmptied ==
  ASSUME NEW s, NEW r, NEW lost, NEW rep, NEW lost2, NEW q, NEW dl, lost \subseteq lost2,
         \A i \in 1 .. Len(q) : q[i].pkt \in lost2, Delivery(s, r, lost, rep, q, dl)
  PROVE  Delivery(s, r, lost2, rep, << >>, dl)
<1>1. Delivery(s, r, lost2, rep, q, dl)
  BY DeliveryHarmed
<1>2. Ahead(<< >>) /\ Comes(r, lost2, << >>) /\ Behind(s, lost2, << >>, dl)
  BY DEF Ahead, Comes, Behind
<1>3. Arrived(s, lost2, << >>, dl)
  BY <1>1 DEF Delivery, Arrived, OnItsWay
<1> QED
  BY <1>1, <1>2, <1>3 DEF Delivery

\* The receiver starts again, and harms what is in the reassembly.
LEMMA DeliveryRestarted ==
  ASSUME NEW s \in Seq(1 .. Big), NEW r, NEW lost, NEW rep, NEW lost2, NEW q, Chain(s, q), NEW dl,
         lost \subseteq lost2, PacketsIn(r) \subseteq lost2, Delivery(s, r, lost, rep, q, dl)
  PROVE  Delivery(s, << >>, lost2, rep, q, dl)
<1>1. Delivery(s, r, lost2, rep, q, dl)
  BY DeliveryHarmed
<1>2. Comes(<< >>, lost2, q)
  <2> SUFFICES ASSUME q # << >>, ~ q[1].START
               PROVE  q[1].pkt \in lost2
    BY DEF Comes
  <2>1. IsPiece(s, q[1])
    <3>1. 1 \in 1 .. Len(q)
      BY DEF Chain
    <3> QED
      BY <3>1 DEF Chain
  <2>2. q[1].from \in Nat \ {0}
    BY <2>1, PieceFacts, FragAssumption
  <2>3. CASE r = Bytes(q[1].pkt, 0, q[1].from)
    <3>1. PacketsIn(Bytes(q[1].pkt, 0, q[1].from)) = {q[1].pkt}
      BY <2>2, BytesPackets
    <3> QED
      BY <2>3, <3>1
  <2> QED
    BY <1>1, <2>3 DEF Delivery, Comes
<1> QED
  BY <1>1, <1>2 DEF Delivery

\* A frame more at the end does not move the head of the stream.
LEMMA UpToAppend ==
  ASSUME NEW s, NEW lost, NEW q \in Seq(Frame), q # << >>, NEW g \in Frame, NEW dl,
         UpTo(s, lost, q, dl)
  PROVE  UpTo(s, lost, Append(q, g), dl)
<1>1. Append(q, g)[1] = q[1]
  OBVIOUS
<1> QED
  BY <1>1 DEF UpTo

\* What the frame at the head completes, that frame is part of.
LEMMA UpToDelivered ==
  ASSUME NEW s \in Seq(1 .. Big), NEW lost, NEW q, NEW S, NEW dl \in Seq(S), NEW p \in S,
         q[1].pkt \in Nat, q[1].pkt \in PacketsIn(p), UpTo(s, lost, q, dl)
  PROVE  UpTo(s, lost, q, Append(dl, p))
<1> DEFINE dl2 == Append(dl, p)
<1>1. /\ dl2[Len(dl) + 1] = p
      /\ \A i \in 1 .. Len(dl) : dl2[i] = dl[i]
      /\ \A i \in 1 .. Len(dl2) : i \in 1 .. Len(dl) \/ i = Len(dl) + 1
  OBVIOUS
<1> HIDE DEF dl2
<1>2. ASSUME NEW i \in 1 .. Len(dl2), NEW m \in (1 .. Len(s)) \ lost, q # << >>,
             Carried(s, dl2, i, m)
      PROVE  m <= q[1].pkt
  <2>1. CASE i \in 1 .. Len(dl)
    <3>1. Carried(s, dl, i, m)
      BY <1>1, <1>2, <2>1 DEF Carried
    <3> QED
      BY <1>2, <2>1, <3>1 DEF UpTo
  <2>2. CASE i = Len(dl) + 1
    <3>1. PacketsIn(dl2[i]) = {m}
      BY <1>2, CarriedSize
    <3>2. m = q[1].pkt
      BY <1>1, <2>2, <3>1
    <3> QED
      BY <3>2
  <2> QED
    BY <1>1, <2>1, <2>2
<1> QED
  BY <1>2 DEF UpTo, dl2

\* The frames up to one that has more of its packet to come.
LEMMA LastFrame ==
  ASSUME NEW l \in Seq(Frame), NEW f \in Frame, NEW g \in Frame, ~ f.END, g.pkt = f.pkt,
         Ahead(Append(l, f))
  PROVE  LET q == Append(l, f)
         IN  \A i \in 1 .. Len(q) : q[i].pkt <= g.pkt /\ (q[i].END => q[i].pkt < g.pkt)
<1>1. PICK q \in Seq(Frame) : q = Append(l, f)
  <2>1. Append(l, f) \in Seq(Frame)
    OBVIOUS
  <2> QED
    BY <2>1
<1>2. PICK last \in 1 .. Len(q) : last = Len(q) /\ q[last] = f
  <2>1. Len(Append(l, f)) = Len(l) + 1 /\ Len(l) \in Nat /\ Append(l, f)[Len(l) + 1] = f
    OBVIOUS
  <2> QED
    BY <1>1, <2>1
<1>3. \A i \in 1 .. Len(q) : q[i].pkt <= g.pkt /\ (q[i].END => q[i].pkt < g.pkt)
  <2> TAKE i \in 1 .. Len(q)
  <2>1. CASE i = last
    <3>1. f.pkt \in Nat
      BY DEF Frame
    <3> QED
      BY <1>2, <2>1, <3>1
  <2>2. CASE i # last
    <3>1. i < last
      BY <1>2, <2>2
    <3> QED
      BY <1>1, <1>2, <3>1 DEF Ahead
  <2> QED
    BY <2>1, <2>2
<1> QED
  BY <1>1, <1>3

-----------------------------------------------------------------------------
(* Every step keeps the packets on their way.  Rest is what the reassembly *)
(* has still to see for the first time; the head of Stream may come again. *)

Deliver == /\ Delivery(sent, res, Harmed, repeated, Rest, delivered)
           /\ Ahead(Stream)
           /\ UpTo(sent, Harmed, Stream, delivered)

LEMMA InitDelivery == Init => Deliver
<1> SUFFICES ASSUME Init PROVE Deliver
  OBVIOUS
<1>1. sent = << >> /\ delivered = << >> /\ Stream = << >> /\ Rest = << >>
  BY DEF Init, Stream, Rest, Pending, NoPacket
<1>2. Len(<< >>) = 0 /\ 1 .. 0 = {}
  OBVIOUS
<1>3. Delivery(sent, res, Harmed, repeated, Rest, delivered)
  BY <1>1, <1>2, Zenon DEF Delivery, Ahead, Comes, Arrived, Behind, InOrder
<1>4. Ahead(Stream) /\ UpTo(sent, Harmed, Stream, delivered)
  BY <1>1, <1>2, Zenon DEF Ahead, UpTo
<1> QED
  BY <1>3, <1>4 DEF Deliver

LEMMA StoreDelivery ==
  ASSUME IInv, Deliver, NEW size \in Sizes, StoreTxPkt(size)
  PROVE  Deliver'
<1>1. /\ sent \in Seq(Sizes) /\ Len(sent) < MaxPkts
      /\ sent' = Append(sent, size)
      /\ div' = CutPiece(Len(sent) + 1, size, 0)
      /\ UNCHANGED <<ll, boot, head, res, delivered, damaged, repeated, aborted>>
      /\ div.tx_pkt = << >> /\ Stream = ll
  BY DividerFacts DEF StoreTxPkt, link, IInv, Types
<1>2. PICK m \in Nat : m = Len(sent) + 1
  BY <1>1
<1>3. sent' \in Seq(Sizes) /\ Len(sent') = m /\ sent'[m] = size /\ m <= MaxPkts /\ m \in 1 .. Len(sent')
  BY <1>1, <1>2, FragAssumption
<1>4. size \in 1 .. Big /\ sent \in Seq(1 .. Big) /\ sent' \in Seq(1 .. Big) /\ Cut(size, 0)
  BY <1>1, <1>3, SizesInRange, FragAssumption DEF Cut
<1>5. PICK g : g = Piece(m, size, 0)
  OBVIOUS
<1>6. g \in Frame /\ g.START /\ g.pkt = Len(sent) + 1
  <2>1. g \in Frame
    BY <1>3, <1>4, <1>5, NewPiece
  <2>2. g.START /\ g.pkt = m
    BY <1>5, PieceFields
  <2> QED
    BY <1>2, <2>1, <2>2
<1>7. Stream \in Seq(Frame) /\ Pending \in Seq(Frame) /\ Chain(sent, Rest) /\ Chain(sent, Stream)
  BY RestFacts DEF IInv, Chain
<1>8. Stream' = Append(Stream, g) /\ Rest' = Append(Rest, g)
  <2>1. div'.tx_pkt = << g >>
    BY <1>1, <1>2, <1>5 DEF CutPiece
  <2>2. Stream' = Stream \o << g >>
    BY <1>1, <2>1 DEF Stream
  <2>3. Rest = Pending \o << >> /\ Rest' = Pending \o << g >>
    BY <1>1, <2>1 DEF Rest, Pending
  <2>4. Rest = Pending
    BY <1>7, <2>3
  <2> QED
    BY <1>6, <1>7, <2>2, <2>3, <2>4, ConcatOne
<1>9. damaged \subseteq Harmed /\ damaged \subseteq 1 .. Len(sent) /\ Harmed' = Harmed
  BY <1>1 DEF Harmed, IInv, Types
<1>10. \A i \in 1 .. Len(delivered) : Good(sent, delivered[i], damaged)
  BY DEF IInv
<1>11. Delivery(sent', res', Harmed', repeated', Rest', delivered')
  <2>1. Delivery(Append(sent, size), res, Harmed, repeated, Append(Rest, g), delivered)
    BY <1>4, <1>6, <1>7, <1>9, <1>10, DeliverySends DEF Deliver
  <2> QED
    BY <1>1, <1>8, <1>9, <2>1
<1>12. Ahead(Stream')
  <2>1. \A i \in 1 .. Len(Stream) : Stream[i].pkt <= g.pkt /\ (Stream[i].END => Stream[i].pkt < g.pkt)
    <3> TAKE i \in 1 .. Len(Stream)
    <3>1. Stream[i].pkt \in 1 .. Len(sent)
      BY <1>4, <1>7, PieceFacts DEF Chain
    <3> QED
      BY <1>1, <1>6, <3>1
  <2>2. Ahead(Stream)
    BY DEF Deliver
  <2> QED
    BY <1>4, <1>6, <1>7, <1>8, <2>1, <2>2, AheadAppend
<1>13. UpTo(sent', Harmed, Stream', delivered)
  <2>1. \A i \in 1 .. Len(delivered), x \in (1 .. Len(sent')) \ Harmed :
          Carried(sent', delivered, i, x) =>
            x \in (1 .. Len(sent)) \ Harmed /\ Carried(sent, delivered, i, x) /\ x < g.pkt
    <3>1. \A i \in 1 .. Len(delivered), x \in (1 .. Len(Append(sent, size))) \ Harmed :
            Carried(Append(sent, size), delivered, i, x) =>
              x \in (1 .. Len(sent)) \ Harmed /\ Carried(sent, delivered, i, x)
                /\ x < Len(sent) + 1
      BY <1>4, <1>9, <1>10, NothingNew
    <3> QED
      BY <1>1, <1>6, <3>1
  <2>2. UpTo(sent, Harmed, Stream, delivered) /\ g.pkt \in Nat
    BY <1>6 DEF Deliver, Frame
  <2>3. CASE Stream = << >>
    <3>1. Stream'[1] = g
      BY <1>6, <1>8, <2>3
    <3>2. \A i \in 1 .. Len(delivered), x \in (1 .. Len(sent')) \ Harmed :
            Carried(sent', delivered, i, x) => x <= g.pkt
      <4> TAKE i \in 1 .. Len(delivered), x \in (1 .. Len(sent')) \ Harmed
      <4> HAVE Carried(sent', delivered, i, x)
      <4>1. x < g.pkt /\ x \in Nat
        BY <2>1
      <4> QED
        BY <2>2, <4>1
    <3> QED
      BY <3>1, <3>2 DEF UpTo
  <2>4. CASE Stream # << >>
    <3>1. Stream'[1] = Stream[1]
      BY <1>6, <1>7, <1>8, <2>4
    <3> QED
      BY <2>1, <2>2, <2>4, <3>1 DEF UpTo
  <2> QED
    BY <2>3, <2>4
<1> QED
  BY <1>1, <1>9, <1>11, <1>12, <1>13 DEF Deliver

LEMMA TakeDelivery ==
  ASSUME IInv, Deliver, TakeFragment
  PROVE  Deliver'
<1>1. /\ sent \in Seq(Sizes) /\ Len(sent) <= MaxPkts /\ sent \in Seq(1 .. Big)
      /\ ll \in Seq(Frame)
      /\ ll' = ll \o div.tx_pkt
      /\ head # "NEW" => ll # << >>
      /\ UNCHANGED <<sent, head, res, delivered, damaged, repeated, aborted>>
  BY SizesInRange DEF TakeFragment, IInv, Types
<1>2. PICK k \in Nat : Cutting(k)
  BY DividerFacts DEF TakeFragment
<1>3. PICK m \in 1 .. Len(sent), size \in 1 .. Big :
        m = Len(sent) /\ size = sent[m]
  BY <1>1, <1>2, CuttingFacts, Zenon
<1>4. PICK f \in Frame : f = Piece(m, size, k)
  BY <1>1, <1>2, <1>3, CuttingFacts, Zenon
<1>5. /\ div.pkt_size = size
      /\ div.tx_pkt = << f >>
      /\ f.pkt = m
      /\ div.offset \in 1 .. size
      /\ f.END <=> div.offset = size
      /\ ~f.END => Cut(size, div.offset)
  BY <1>1, <1>2, <1>3, <1>4, CuttingFacts, Zenon
<1>6. /\ Pending \in Seq(Frame) /\ Chain(sent, Rest) /\ Chain(sent, Stream)
      /\ Rest \in Seq(Frame) /\ Stream \in Seq(Frame)
  BY RestFacts DEF IInv, Chain
<1>7. /\ Stream = Append(ll, f) /\ ll' = Stream
      /\ Rest = Append(Pending, f) /\ Pending' = Rest
  <2>1. Stream = Append(ll, f) /\ Rest = Append(Pending, f) /\ ll' = Append(ll, f)
    BY <1>1, <1>5, <1>6 DEF Stream, Rest
  <2>2. CASE head = "NEW"
    BY <1>1, <2>1, <2>2 DEF Pending
  <2>3. CASE head # "NEW"
    <3>1. Pending = Tail(ll) /\ Pending' = Tail(Append(ll, f)) /\ ll # << >>
      BY <1>1, <2>1, <2>3 DEF Pending
    <3>2. Tail(Append(ll, f)) = Append(Tail(ll), f)
      <4>1. /\ Tail(ll) \o << f >> = Tail(ll \o << f >>) /\ Tail(ll) \in Seq(Frame)
            /\ << f >> \in Seq(Frame)
        BY <1>1, <3>1, StreamHead
      <4> QED
        BY <1>1, <4>1, ConcatOne
    <3> QED
      BY <2>1, <3>1, <3>2
  <2> QED
    BY <2>1, <2>2, <2>3
<1>8. Harmed' = Harmed
  BY <1>1 DEF Harmed
<1>9. CASE div.offset = div.pkt_size
  <2>1. div' = NoPacket
    BY <1>9 DEF TakeFragment
  <2>2. div'.tx_pkt = << >>
    BY <2>1 DEF NoPacket
  <2>3. Stream' = Stream \o << >> /\ Rest' = Rest \o << >>
    BY <1>7, <2>2 DEF Stream, Rest
  <2>4. Stream' = Stream /\ Rest' = Rest
    BY <1>6, <2>3
  <2> QED
    BY <1>1, <1>8, <2>4 DEF Deliver
<1>10. CASE div.offset # div.pkt_size
  <2>1. PICK n \in 1 .. size : n = div.offset /\ Cut(size, n) /\ ~f.END
    BY <1>5, <1>10
  <2>2. div' = CutPiece(m, size, n)
    BY <1>3, <1>5, <1>10, <2>1 DEF TakeFragment
  <2>3. PICK g : g = Piece(m, size, n)
    OBVIOUS
  <2>4. g \in Frame /\ g.pkt = m
    <3>1. g \in Frame
      BY <1>1, <1>3, <2>1, <2>3, NewPiece
    <3>2. g.pkt = m
      BY <2>3, PieceFields
    <3> QED
      BY <3>1, <3>2
  <2>5. Stream' = Append(Stream, g) /\ Rest' = Append(Rest, g)
    <3>1. div'.tx_pkt = << g >>
      BY <2>2, <2>3 DEF CutPiece
    <3>2. Stream' = Stream \o << g >> /\ Rest' = Rest \o << g >>
      BY <1>7, <3>1 DEF Stream, Rest
    <3> QED
      BY <1>6, <2>4, <3>2, ConcatOne
  <2>6. Ahead(Rest) /\ Ahead(Stream)
    BY DEF Deliver, Delivery
  <2>7. /\ \A i \in 1 .. Len(Rest) : Rest[i].pkt <= g.pkt /\ (Rest[i].END => Rest[i].pkt < g.pkt)
        /\ \A i \in 1 .. Len(Stream) :
             Stream[i].pkt <= g.pkt /\ (Stream[i].END => Stream[i].pkt < g.pkt)
    <3>1. g.pkt = f.pkt /\ ~ f.END /\ f \in Frame /\ g \in Frame
      BY <1>4, <1>5, <2>1, <2>4
    <3>2. \A i \in 1 .. Len(Rest) : Rest[i].pkt <= g.pkt /\ (Rest[i].END => Rest[i].pkt < g.pkt)
      BY <1>6, <1>7, <2>6, <3>1, LastFrame
    <3>3. \A i \in 1 .. Len(Stream) :
            Stream[i].pkt <= g.pkt /\ (Stream[i].END => Stream[i].pkt < g.pkt)
      BY <1>1, <1>7, <2>6, <3>1, LastFrame
    <3> QED
      BY <3>2, <3>3
  <2>8. PICK last : last \in 1 .. Len(Rest) /\ Rest[last] = f
    <3>1. Len(Append(Pending, f)) = Len(Pending) + 1 /\ Len(Pending) \in Nat
          /\ Append(Pending, f)[Len(Pending) + 1] = f
      BY <1>6
    <3>2. Len(Pending) + 1 \in 1 .. Len(Append(Pending, f))
      BY <3>1
    <3>3. Rest = Append(Pending, f)
      BY <1>7, Zenon
    <3> QED
      BY <3>1, <3>2, <3>3
  <2>9. \A i \in 1 .. Len(delivered), x \in (1 .. Len(sent)) \ Harmed :
          Carried(sent, delivered, i, x) => x < g.pkt
    <3>1. \A i \in 1 .. Len(delivered), x \in (1 .. Len(sent)) \ Harmed :
            Carried(sent, delivered, i, x) => x < Rest[last].pkt
      BY <2>8 DEF Deliver, Delivery, Behind
    <3> QED
      BY <1>5, <2>4, <2>8, <3>1
  <2>10. Rest # << >> /\ Stream # << >>
    BY <1>1, <1>6, <1>7, SMTT(30)
  <2>11. Delivery(sent, res, Harmed, repeated, Append(Rest, g), delivered)
    BY <1>1, <1>6, <2>4, <2>7, <2>9, <2>10, DeliveryAdds DEF Deliver
  <2>12. Ahead(Append(Stream, g))
    BY <1>1, <1>6, <2>4, <2>6, <2>7, AheadAppend
  <2>13. UpTo(sent, Harmed, Append(Stream, g), delivered)
    BY <1>6, <2>4, <2>10, UpToAppend DEF Deliver
  <2> QED
    BY <1>1, <1>8, <2>5, <2>11, <2>12, <2>13 DEF Deliver
<1> QED
  BY <1>9, <1>10

LEMMA LoseDelivery ==
  ASSUME IInv, Deliver, Lose
  PROVE  Deliver'
<1>1. /\ ll # << >> /\ ll' = Tail(ll) /\ damaged' = damaged \cup {Head(ll).pkt}
      /\ head = "NEW"
      /\ UNCHANGED <<sent, div, cuts, head, res, delivered, repeated, aborted>>
  BY DEF Lose
<1>2. /\ Stream # << >> /\ Head(ll) = Stream[1] /\ Stream' = Tail(Stream)
      /\ Chain(sent, Stream) /\ sent \in Seq(1 .. Big)
      /\ Chain(sent, Tail(Stream))
  BY <1>1, StreamShrinks, SizesInRange DEF IInv, Types
<1>3. Rest = Stream /\ Rest' = Stream'
  BY <1>1, RestFacts DEF Rest, Pending, Stream
<1>4. Harmed \subseteq Harmed' /\ Stream[1].pkt \in Harmed'
  BY <1>1, <1>2 DEF Harmed
<1>5. Delivery(sent, res, Harmed', repeated, Stream, delivered)
  BY <1>3, <1>4, DeliveryHarmed DEF Deliver
<1>6. Delivery(sent, res, Harmed', repeated, Tail(Stream), delivered)
  BY <1>2, <1>4, <1>5, DeliveryTail
<1>7. Ahead(Tail(Stream)) /\ UpTo(sent, Harmed', Tail(Stream), delivered)
  BY <1>2, <1>6, BehindUpTo
<1> QED
  BY <1>1, <1>2, <1>3, <1>6, <1>7 DEF Deliver

LEMMA SettleDelivery ==
  ASSUME IInv, Deliver, Settle
  PROVE  Deliver'
<1>1. /\ head # "NEW" /\ ll' = Tail(ll) /\ head' = "NEW"
      /\ UNCHANGED <<sent, div, cuts, res, delivered, damaged, repeated, aborted>>
  BY DEF Settle
<1>2. ll # << >> /\ Chain(sent, Rest) /\ Rest = Tail(Stream) /\ sent \in Seq(1 .. Big)
  BY <1>1, RestFacts, SizesInRange DEF IInv, Types
<1>3. Stream' = Tail(Stream)
  BY <1>1, <1>2, StreamShrinks
<1>4. Rest' = Stream'
  BY <1>1 DEF Rest, Pending, Stream
<1>5. Ahead(Rest) /\ UpTo(sent, Harmed, Rest, delivered)
  BY <1>2, BehindUpTo DEF Deliver
<1>6. Harmed' = Harmed
  BY <1>1 DEF Harmed
<1> QED
  BY <1>1, <1>2, <1>3, <1>4, <1>5, <1>6 DEF Deliver

LEMMA InitializeSenderDelivery ==
  ASSUME IInv, Deliver, InitializeSender
  PROVE  Deliver'
<1>1. /\ div' = NoPacket /\ ll' = << >> /\ head' = "NEW"
      /\ aborted' = aborted \cup {f.pkt : f \in ToSet(Rest)}
      /\ UNCHANGED <<sent, res, delivered, damaged, repeated>>
  BY DEF InitializeSender, Rest
<1>2. Stream' = << >> /\ Rest' = << >>
  BY <1>1 DEF Stream, Rest, Pending, NoPacket
<1>3. Rest \in Seq(Frame)
  BY RestFacts
<1>4. \A i \in 1 .. Len(Rest) : Rest[i] \in ToSet(Rest)
  <2>1. DOMAIN Rest = 1 .. Len(Rest)
    BY <1>3
  <2> QED
    BY <2>1, Zenon DEF ToSet
<1>5. Harmed \subseteq Harmed' /\ \A i \in 1 .. Len(Rest) : Rest[i].pkt \in Harmed'
  BY <1>1, <1>4 DEF Harmed
<1>6. Delivery(sent, res, Harmed', repeated, << >>, delivered)
  BY <1>5, DeliveryEmptied DEF Deliver
<1>7. Ahead(<< >>) /\ UpTo(sent, Harmed', << >>, delivered)
  BY DEF Ahead, UpTo
<1> QED
  BY <1>1, <1>2, <1>6, <1>7 DEF Deliver

LEMMA InitializeReceiverDelivery ==
  ASSUME IInv, Deliver, InitializeReceiver
  PROVE  Deliver'
<1>1. /\ aborted' = aborted \cup PacketsIn(res) /\ res' = << >>
      /\ head' = "NEW" <=> head = "NEW"
      /\ UNCHANGED <<sent, div, cuts, ll, delivered, damaged, repeated>>
  BY DEF InitializeReceiver
<1>2. Stream' = Stream /\ Rest' = Rest
  BY <1>1 DEF Stream, Rest, Pending
<1>3. Chain(sent, Rest) /\ sent \in Seq(1 .. Big)
  BY RestFacts, SizesInRange DEF IInv, Types
<1>4. Harmed \subseteq Harmed' /\ PacketsIn(res) \subseteq Harmed'
  BY <1>1 DEF Harmed
<1>5. Delivery(sent, << >>, Harmed', repeated, Rest, delivered)
  BY <1>3, <1>4, DeliveryRestarted DEF Deliver
<1>6. UpTo(sent, Harmed', Stream, delivered)
  BY <1>4, UpToHarmed DEF Deliver
<1> QED
  BY <1>1, <1>2, <1>5, <1>6 DEF Deliver

\* What the reassembly makes of a frame that goes on where it stands.
LEMMA JoinedOn ==
  ASSUME NEW f, NEW m, NEW k \in Nat, NEW n \in Nat \ {0}, NEW r,
         f.pkt = m, f.from = k, f.START <=> k = 0, f.START \/ r = Bytes(m, 0, k)
  PROVE  Joined(r, f, n) = Bytes(m, 0, k + n)
<1>1. CASE f.START
  <2>1. k = 0 /\ Joined(r, f, n) = << >> \o Bytes(m, 0, n)
    BY <1>1, Zenon DEF Joined
  <2>2. << >> \o Bytes(m, 0, n) = Bytes(m, 0, n)
    BY DEF Bytes
  <2>3. 0 + n = n
    OBVIOUS
  <2> QED
    BY <2>1, <2>2, <2>3
<1>2. CASE ~ f.START
  <2>1. Joined(r, f, n) = Bytes(m, 0, k) \o Bytes(m, k, n)
    BY <1>2, Zenon DEF Joined
  <2> QED
    BY <2>1, BytesJoin
<1> QED
  BY <1>1, <1>2

\* The last frame under way ends its packet.
LEMMA LastOnItsWay ==
  ASSUME IInv, ll # << >>, Tail(Stream) = << >>
  PROVE  Stream[1].END
<1>1. ll \in Seq(Frame) /\ div.tx_pkt \in Seq(Frame)
  BY DividerFacts DEF IInv, Types
<1>2. Tail(ll) \o div.tx_pkt = << >> /\ Head(ll) = Stream[1]
      /\ Tail(ll) \in Seq(Frame) /\ Len(Tail(ll)) = Len(ll) - 1
  BY <1>1, StreamHead DEF Stream
<1>3. Len(Tail(ll)) = 0 /\ div.tx_pkt = << >>
  <2>1. PICK t \in Seq(Frame), u \in Seq(Frame) : t = Tail(ll) /\ u = div.tx_pkt
    BY <1>1, <1>2
  <2>2. Len(t \o u) = Len(t) + Len(u)
    OBVIOUS
  <2>3. Len(t \o u) = 0
    BY <1>2, <2>1
  <2>4. Len(t) = 0 /\ Len(u) = 0
    BY <2>2, <2>3
  <2>5. u = << >>
    BY <2>4
  <2> QED
    BY <2>1, <2>4, <2>5
<1>4. Len(ll) = 1 /\ Head(ll) = ll[1]
  BY <1>1, <1>2, <1>3, SMTT(30)
<1> QED
  BY <1>2, <1>3, <1>4 DEF IInv

LEMMA ReceiveDelivery ==
  ASSUME IInv, Deliver, NEW acked \in BOOLEAN, ReceiveFragment(acked)
  PROVE  Deliver'
<1> DEFINE place == PlaceSize(Len(res))
           short == IF Head(ll).size < place THEN Head(ll).size ELSE place
<1>1. /\ CanCome /\ ll # << >>
      /\ UNCHANGED <<sent, div, cuts, aborted>>
      /\ place > 0
  BY DEF ReceiveFragment, CanCome
<1>2. /\ sent \in Seq(Sizes) /\ sent \in Seq(1 .. Big) /\ Len(sent) <= MaxPkts
      /\ res \in Seq((1 .. Len(sent)) \X (1 .. Big)) /\ Len(res) <= Big
      /\ delivered \in Seq(Seq((1 .. MaxPkts) \X (1 .. Big)))
  BY SizesInRange DEF IInv, Types
<1>3. /\ Stream # << >> /\ Head(ll) = Stream[1] /\ Rest' = Tail(Stream)
      /\ Stream' = (IF acked THEN Tail(Stream) ELSE Stream)
      /\ Chain(sent, Stream)
      /\ head # "NEW" => Rest = Tail(Stream)
      /\ head = "NEW" => Rest = Stream
  BY ReceiveStream DEF IInv
<1>4. PICK f : f = Stream[1] /\ f = Head(ll)
  BY <1>3
<1>5. /\ f.pkt \in 1 .. Len(sent) /\ sent[f.pkt] \in 1 .. Big
      /\ f.from \in 0 .. Big - 1 /\ f.size \in 1 .. Body
      /\ f.from + f.size <= sent[f.pkt]
      /\ f.START <=> f.from = 0
      /\ f.END => f.from + f.size = sent[f.pkt]
  <2>1. 1 \in 1 .. Len(Stream)
    BY <1>3 DEF Chain
  <2>2. IsPiece(sent, f)
    BY <2>1, <1>3, <1>4 DEF Chain
  <2> QED
    BY <1>2, <2>2, PieceFacts
<1>6. place \in 1 .. Body
  <2>1. Len(res) \in 0 .. Big
    BY <1>2, FragAssumption
  <2> QED
    BY <1>1, <2>1, PlaceFacts, FragAssumption
<1>7. PICK n \in Nat \ {0} : n = short /\ n <= f.size /\ n <= place
  BY <1>4, <1>5, <1>6, FragAssumption, SMTT(30)
<1>8. Harmed' = Harmed \cup (IF n < f.size THEN {f.pkt} ELSE {})
  <2>1. damaged' = damaged \cup (IF n < f.size THEN {f.pkt} ELSE {})
    BY <1>4, <1>7, SMTT(30) DEF ReceiveFragment
  <2> QED
    BY <1>1, <2>1 DEF Harmed
<1>9. repeated' = repeated \cup (IF head = "NEW" THEN {} ELSE {f.pkt})
  BY <1>4 DEF ReceiveFragment
<1>10. /\ Delivery(sent, res, Harmed', repeated', Rest, delivered)
       /\ Ahead(Stream) /\ UpTo(sent, Harmed', Stream, delivered)
  <2>1. Harmed \subseteq Harmed' /\ repeated \subseteq repeated'
    BY <1>8, <1>9, SMTT(30)
  <2> QED
    BY <2>1, DeliveryHarmed, UpToHarmed DEF Deliver
<1> DEFINE p == Joined(res, f, n)
<1>11. \/ Skipped(f) /\ UNCHANGED <<res, delivered>>
       \/ ~Skipped(f) /\ ~f.END /\ res' = p /\ UNCHANGED delivered
       \/ ~Skipped(f) /\ f.END /\ res' = << >> /\ delivered' = Append(delivered, p)
  BY <1>4, <1>7 DEF ReceiveFragment, Joined, Begun
<1>12. p \in Seq((1 .. MaxPkts) \X (1 .. Big)) /\ f.pkt \in PacketsIn(p)
  <2>1. 1 .. Len(sent) \subseteq 1 .. MaxPkts /\ f.pkt \in 1 .. MaxPkts
    <3>1. Len(sent) \in Nat /\ MaxPkts \in Nat /\ Len(sent) <= MaxPkts
      BY <1>2, FragAssumption
    <3>2. 1 .. Len(sent) \subseteq 1 .. MaxPkts
      BY <3>1
    <3> QED
      BY <1>5, <3>2
  <2>2. res \in Seq((1 .. MaxPkts) \X (1 .. Big))
    BY <1>2, <2>1, MorePairs
  <2>3. PICK k \in Nat, z \in 1 .. Body, size \in 1 .. Big :
           k = f.from /\ z = f.size /\ size = sent[f.pkt] /\ k + z <= size /\ n <= z
    BY <1>5, <1>7
  <2>4. k + n <= Big /\ n <= Body
    BY <2>3, FragAssumption
  <2> QED
    BY <1>2, <1>5, <1>7, <2>1, <2>2, <2>3, <2>4, JoinedFacts
<1>13. ASSUME f.START \/ res = Bytes(f.pkt, 0, f.from), n = f.size
       PROVE  p = Bytes(f.pkt, 0, f.from + f.size)
  <2>1. f.from \in Nat
    BY <1>5
  <2>2. Joined(res, f, n) = Bytes(f.pkt, 0, f.from + n)
    BY <1>5, <1>13, <2>1, JoinedOn
  <2> QED
    BY <1>13, <2>2 DEF p
<1> HIDE DEF p, place, short
<1>14. PICK S : delivered \in Seq(S) /\ p \in S
  BY <1>2, <1>12
<1>15. ASSUME f.pkt \in Harmed'
       PROVE  Delivery(sent, res', Harmed', repeated', Tail(Stream), delivered')
  <2>1. \A r2 : Delivery(sent, r2, Harmed', repeated', Tail(Stream), delivered)
    <3>1. CASE head = "NEW"
      BY <1>2, <1>3, <1>4, <1>10, <1>15, <3>1, DeliveryTail
    <3>2. CASE head # "NEW"
      BY <1>2, <1>3, <1>4, <1>10, <1>15, <3>2, DeliveryAny
    <3> QED
      BY <3>1, <3>2
  <2>2. Delivery(sent, << >>, Harmed', repeated', Tail(Stream), Append(delivered, p))
    <3>1. PacketsIn(p) \cap Harmed' # {}
      BY <1>12, <1>15
    <3> QED
      BY <1>2, <1>14, <2>1, <3>1, DeliverySpoilt
  <2> QED
    BY <1>11, <2>1, <2>2
<1>16. ASSUME f.pkt \notin Harmed', head = "NEW"
       PROVE  Delivery(sent, res', Harmed', repeated', Tail(Stream), delivered')
  <2>1. n = f.size /\ Rest = Stream
    BY <1>3, <1>5, <1>7, <1>8, <1>16
  <2>2. f.START \/ res = Bytes(f.pkt, 0, f.from)
    BY <1>3, <1>4, <1>10, <1>16, <2>1 DEF Delivery, Comes
  <2>3. ~ Skipped(f)
    <3>1. ASSUME ~ f.START, res = << >> PROVE FALSE
      <4>1. PICK k \in Nat \ {0} : k = f.from
        BY <1>5, <3>1, FragAssumption
      <4>2. Bytes(f.pkt, 0, k) = << >>
        BY <2>2, <3>1, <4>1
      <4>3. Len(Bytes(f.pkt, 0, k)) = k
        BY DEF Bytes
      <4> QED
        BY <4>1, <4>2, <4>3
    <3> QED
      BY <3>1 DEF Skipped
  <2>4. p = Bytes(f.pkt, 0, f.from + f.size)
    BY <1>13, <2>1, <2>2
  <2>5. CASE f.END
    <3>1. p = Bytes(f.pkt, 0, sent[f.pkt])
      BY <1>5, <2>4, <2>5
    <3>2. Delivery(sent, << >>, Harmed', repeated', Tail(Stream), Append(delivered, p))
      BY <1>2, <1>3, <1>4, <1>5, <1>10, <1>14, <2>1, <2>5, <3>1, DeliveryLast
    <3> QED
      BY <1>11, <2>3, <2>5, <3>2
  <2>6. CASE ~ f.END
    <3>1. Tail(Stream) # << >>
      BY <1>1, <1>4, <2>6, LastOnItsWay
    <3>2. Delivery(sent, p, Harmed', repeated', Tail(Stream), delivered)
      BY <1>2, <1>3, <1>4, <1>10, <2>1, <2>4, <2>6, <3>1, DeliveryNext
    <3> QED
      BY <1>11, <2>3, <2>6, <3>2
  <2> QED
    BY <2>5, <2>6
<1>17. ASSUME f.pkt \notin Harmed', head # "NEW"
       PROVE  Delivery(sent, res', Harmed', repeated', Tail(Stream), delivered')
  <2>1. n = f.size /\ Rest = Tail(Stream) /\ f.pkt \in repeated'
    BY <1>3, <1>5, <1>7, <1>8, <1>9, <1>17
  <2>2. Delivery(sent, res, Harmed', repeated', Tail(Stream), delivered)
    BY <1>10, <2>1
  <2>3. CASE ~ f.START
    <3>1. Skipped(f)
      BY <1>1, <1>4, <1>17, <2>3, SaneStream DEF Skipped
    <3> QED
      BY <1>11, <2>2, <3>1
  <2>4. CASE f.START
    <3>1. ~ Skipped(f) /\ f.from = 0
      BY <1>5, <2>4 DEF Skipped
    <3>2. p = Bytes(f.pkt, 0, f.from + f.size)
      BY <1>13, <2>1, <2>4
    <3>3. CASE f.END
      <4>1. p = Bytes(f.pkt, 0, sent[f.pkt])
        BY <1>5, <3>2, <3>3
      <4>2. sent[f.pkt] <= Body
        <5>1. PICK z \in 1 .. Body : z = f.size
          BY <1>5
        <5>2. sent[f.pkt] = z
          BY <1>5, <3>1, <3>3, <5>1
        <5> QED
          BY <5>2, FragAssumption
      <4>3. Delivery(sent, << >>, Harmed', repeated', Tail(Stream), Append(delivered, p))
        BY <1>2, <1>3, <1>4, <1>5, <1>10, <1>14, <2>1, <2>2, <3>3, <4>1, <4>2, DeliveryAgain
      <4> QED
        BY <1>11, <3>1, <3>3, <4>3
    <3>4. CASE ~ f.END
      <4>1. Delivery(sent, p, Harmed', repeated', Tail(Stream), delivered)
        BY <1>2, <1>3, <1>4, <2>2, <3>2, <3>4, DeliveryOn
      <4> QED
        BY <1>11, <3>1, <3>4, <4>1
    <3> QED
      BY <3>3, <3>4
  <2> QED
    BY <2>3, <2>4
<1>18. Delivery(sent, res', Harmed', repeated', Tail(Stream), delivered')
  BY <1>15, <1>16, <1>17
<1>19. CASE acked
  <2>1. Chain(sent, Tail(Stream))
    BY <1>3, ChainTail
  <2>2. Ahead(Tail(Stream)) /\ UpTo(sent, Harmed', Tail(Stream), delivered')
    BY <1>2, <1>18, <2>1, BehindUpTo
  <2> QED
    BY <1>1, <1>3, <1>18, <1>19, <2>2 DEF Deliver
<1>20. CASE ~ acked
  <2>1. UpTo(sent, Harmed', Stream, delivered')
    <3>1. Stream[1].pkt \in Nat /\ Stream[1].pkt \in PacketsIn(p)
      BY <1>4, <1>5, <1>12
    <3>2. UpTo(sent, Harmed', Stream, delivered)
      BY <1>10
    <3>3. UpTo(sent, Harmed', Stream, Append(delivered, p))
      BY <1>2, <1>14, <3>1, <3>2, UpToDelivered
    <3> QED
      BY <1>11, <3>2, <3>3
  <2> QED
    BY <1>1, <1>3, <1>10, <1>18, <1>20, <2>1 DEF Deliver
<1> QED
  BY <1>19, <1>20

\* The invariant, with the way of the unharmed packets.
DInv == IInv /\ Deliver

\* Whatever is lost or comes again, and whoever starts again, an unharmed packet is on
\* its way, and the reassembly waits for it where it stands, or it is delivered: no step
\* of the divider, the link or the reassembly drops it or delivers it out of turn, and
\* only a frame that is a whole packet makes it delivered twice when it comes twice.
THEOREM DeliveryInvariant == Spec => []DInv
<1>1. Init => DInv
  BY InitInv, InitDelivery DEF DInv
<1>2. ASSUME DInv, [Next]_vars, IInv' PROVE DInv'
  <2>0. IInv /\ Deliver
    BY <1>2 DEF DInv
  <2> SUFFICES Deliver'
    BY <1>2 DEF DInv
  <2>1. CASE \E size \in Sizes : StoreTxPkt(size)
    BY <2>0, <2>1, StoreDelivery
  <2>2. CASE TakeFragment
    BY <2>0, <2>2, TakeDelivery
  <2>3. CASE \E acked \in BOOLEAN : ReceiveFragment(acked)
    BY <2>0, <2>3, ReceiveDelivery
  <2>4. CASE Lose
    BY <2>0, <2>4, LoseDelivery
  <2>5. CASE Settle
    BY <2>0, <2>5, SettleDelivery
  <2>6. CASE InitializeSender
    BY <2>0, <2>6, InitializeSenderDelivery
  <2>7. CASE InitializeReceiver
    BY <2>0, <2>7, InitializeReceiverDelivery
  <2>8. CASE UNCHANGED vars
    BY <2>0, <2>8 DEF vars, link, Deliver, Stream, Rest, Pending, Harmed
  <2> QED
    BY <1>2, <2>1, <2>2, <2>3, <2>4, <2>5, <2>6, <2>7, <2>8 DEF Next
<1> QED
  BY <1>1, <1>2, FragInvariant, PTL DEF Spec

\* The packets that came through whole, and nothing else that is whole, are delivered
\* in order, and twice only if one frame holds the packet and that frame came again.
THEOREM UndamagedDelivered == Spec => []UndamagedIsDelivered
<1>1. ASSUME DInv PROVE UndamagedIsDelivered
  <2> DEFINE Carries(i, m) == delivered[i] = Whole(m)
             MayRepeat(m) == m \in repeated /\ sent[m] <= Body
  <2>1. /\ DOMAIN delivered = 1 .. Len(delivered) /\ DOMAIN sent = 1 .. Len(sent)
        /\ sent \in Seq(1 .. Big)
        /\ IInv /\ Delivery(sent, res, Harmed, repeated, Rest, delivered)
    BY <1>1, SizesInRange DEF DInv, Deliver, IInv, Types
  <2>2. \A i \in 1 .. Len(delivered), m \in 1 .. Len(sent) :
          Carries(i, m) <=> Carried(sent, delivered, i, m)
    BY DEF Whole, Carried
  <2>3. \A m \in 1 .. Len(sent) : m \in Through <=> ~ OnItsWay(Rest, m)
    <3>1. DOMAIN Rest = 1 .. Len(Rest)
      BY <2>1, RestFacts
    <3> QED
      BY <2>1, <3>1, Zenon DEF Through, OnItsWay, ToSet, Rest
  <2>4. ASSUME NEW i \in 1 .. Len(delivered), PacketsIn(delivered[i]) \cap Harmed = {}
        PROVE  \E m \in Through \ Harmed : Carries(i, m)
    <3>1. ~ Touched(delivered[i], damaged) /\ Good(sent, delivered[i], damaged)
      BY <2>1, <2>4 DEF IInv, Touched, Harmed
    <3>2. PICK m \in 1 .. Len(sent) : Carried(sent, delivered, i, m)
      BY <3>1 DEF Good, Carried
    <3>3. m \notin Harmed
      BY <2>1, <2>4, <3>2, CarriedSize
    <3>4. ~ OnItsWay(Rest, m)
      <4>1. ASSUME NEW j \in 1 .. Len(Rest), Rest[j].pkt = m PROVE FALSE
        <5>1. m < m
          BY <2>1, <3>2, <3>3, <4>1 DEF Delivery, Behind
        <5> QED
          BY <5>1
      <4> QED
        BY <4>1 DEF OnItsWay
    <3> QED
      BY <2>2, <2>3, <3>2, <3>3, <3>4
  <2>5. ASSUME NEW m \in Through \ Harmed
        PROVE  \E i \in 1 .. Len(delivered) : Carries(i, m)
    <3>1. m \in (1 .. Len(sent)) \ Harmed
      BY <2>1 DEF Through
    <3> QED
      BY <2>1, <2>2, <2>3, <3>1 DEF Delivery, Arrived
  <2>6. ASSUME NEW i \in 1 .. Len(delivered), NEW j \in 1 .. Len(delivered),
               NEW m \in (1 .. Len(sent)) \ Harmed, NEW n \in (1 .. Len(sent)) \ Harmed,
               i < j, Carries(i, m), Carries(j, n)
        PROVE  m < n \/ (m = n /\ MayRepeat(m))
    BY <2>1, <2>2, <2>6 DEF Delivery, InOrder
  <2> QED
    BY <2>1, <2>4, <2>5, <2>6 DEF UndamagedIsDelivered
<1> QED
  BY <1>1, DeliveryInvariant, PTL
=============================================================================
