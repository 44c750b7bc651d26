------------------------------ MODULE NcpFrag ------------------------------
(***************************************************************************)
(* Fragmentation: one direction of the layer between the high level and    *)
(* the link (zbncp_divider.c on the sending side, zbncp_reassembling.c on  *)
(* the receiving one, both reset by zbncp_fragmentation.c).  The divider   *)
(* cuts a packet of up to Big bytes in pieces of up to Body, one per       *)
(* quantum; the reassembly puts together, in a buffer of Big bytes, what   *)
(* the link hands over.                                                    *)
(*                                                                         *)
(* The link (NcpLink) is a queue that may lose a frame: it gives one up    *)
(* after its retries, or takes a new frame for an old one, and tells       *)
(* neither side.  A frame stays at the head of the sender's LL until it is *)
(* acknowledged, and may come again until then: the receiver's LL knows it *)
(* by its number, but not the first one of an LL, whose number is 0, and   *)
(* no frame once ncp_ll_proto_init has created that LL anew.               *)
(*                                                                         *)
(* A frame carries the `size' bytes of the `pkt'-th packet that follow its *)
(* first `from' bytes; <<m, i>> is the i-th byte of the m-th packet.  The  *)
(* receiver's user buffer is set before every quantum (ncp_ll_quant) and   *)
(* is no smaller than Big, so it never matters here.                       *)
(***************************************************************************)
EXTENDS Integers, Sequences, SequencesExt

CONSTANTS Body,       \* ZBNCP_LL_BODY_SIZE_MAX
          Big,        \* ZBNCP_BIG_BUF_SIZE
          Sizes,      \* of the packets sent
          QueueSize,  \* frames the LL holds
          MaxPkts, MaxLost, MaxRepeats, MaxResets    \* bounds

ASSUME FragAssumption == /\ Body \in Nat \ {0}
                         /\ Big \in Nat /\ Big >= Body
                         /\ Sizes \subseteq 1 .. Big
                         /\ QueueSize \in Nat \ {0}
                         /\ MaxPkts \in Nat /\ MaxLost \in Nat
                         /\ MaxRepeats \in Nat /\ MaxResets \in Nat

VARIABLES
  sent,         \* history: sizes of the packets the HL gave to the divider
  div,          \* [pkt_size, offset, tx_pkt]; tx_pkt is << >> or one frame
  cuts,         \* history: pieces cut from the packet in the divider
  ll,           \* frames in the sender's LL
  boot,         \* no frame has left that LL yet: its first one has number 0
  head,         \* what the receiver's LL knows of ll's head: "NEW", "KNOWN", or "FORGOTTEN"
  res,          \* the first `offset' bytes of the reassembly's big_buf
  delivered,    \* history: packets passed to the receiver's HL
  damaged,      \* history: packets some frame of which was lost or shortened
  repeated,     \* history: packets a frame of which was handed over again
  aborted,      \* history: packets cut off when a side started again
  losses, repeats, resets                \* counts for the bounds

link == <<ll, boot, head>>
vars == <<sent, div, cuts, link, res, delivered, damaged, repeated, aborted,
          losses, repeats, resets>>

\* The frames that the receiver has still to see for the first time.
Pending == IF head = "NEW" THEN ll ELSE Tail(ll)

Bytes(m, from, size) == [i \in 1 .. size |-> <<m, from + i>>]
Whole(m) == Bytes(m, 0, sent[m])
PacketsIn(bytes) == {b[1] : b \in ToSet(bytes)}

-----------------------------------------------------------------------------
(* The divider.                                                            *)

NoPacket == [pkt_size |-> 0, offset |-> 0, tx_pkt |-> << >>]

\* Mutant of PieceSize: the whole pieces first and the small one last.
LargeFirst(size, offset) == IF offset + Body < size THEN Body ELSE size - offset

\* Mutant of PieceSize: the small piece is one byte.
OneByteFirst(size, offset) ==
  IF offset + Body < size THEN IF offset = 0 THEN 1 ELSE Body ELSE size - offset

\* "Try to send small packet first", then whole ones.
PieceSize(size, offset) ==
  IF offset + Body >= size THEN size - offset
  ELSE IF offset = 0 /\ size % Body # 0 THEN size % Body
  ELSE Body

Piece(m, size, offset) ==
  [pkt |-> m, from |-> offset, size |-> PieceSize(size, offset),
   START |-> (offset = 0), END |-> (offset + Body >= size)]

CutPiece(m, size, offset) == [pkt_size |-> size,
                              offset |-> offset + PieceSize(size, offset),
                              tx_pkt |-> << Piece(m, size, offset) >>]

\* The HL's packet is copied and its first piece is cut, unless there is one.
StoreTxPkt(size) ==
  /\ Len(sent) < MaxPkts
  /\ div.pkt_size = 0
  /\ sent' = Append(sent, size)
  /\ div' = CutPiece(Len(sent) + 1, size, 0)
  /\ cuts' = 1
  /\ UNCHANGED <<link, res, delivered, damaged, repeated, aborted, losses, repeats, resets>>

\* A quantum offers the piece to the LL; when it is taken the next one is cut.
\* A full LL takes nothing.
TakeFragment ==
  /\ div.tx_pkt # << >>
  /\ Len(ll) < QueueSize
  /\ ll' = ll \o div.tx_pkt
  /\ \/ div.offset = div.pkt_size /\ div' = NoPacket /\ cuts' = 0
     \/ /\ div.offset # div.pkt_size
        /\ div' = CutPiece(Len(sent), div.pkt_size, div.offset)
        /\ cuts' = cuts + 1
  /\ UNCHANGED <<sent, boot, head, res, delivered, damaged, repeated, aborted,
                 losses, repeats, resets>>

-----------------------------------------------------------------------------
(* The reassembly.                                                         *)

\* Mutant of PlaceSize: a whole frame is always welcome.
WholePlace(offset) == Body

PlaceSize(offset) == IF offset + Body < Big THEN Body ELSE Big - offset

\* A first fragment throws away what an aborted packet left.
Begun(start) == IF start THEN << >> ELSE res

\* Mutant of Skipped: any fragment may be the first.
SkippedNever(f) == FALSE

\* While the first fragment is awaited the others are skipped.
Skipped(f) == res = << >> /\ ~f.START

\* Mutant of CanCome: the LL knows no frame again.
CanAlwaysCome == ll # << >>

\* A retransmission is acknowledged and discarded, unless its number is 0.
CanCome == ll # << >> /\ (head = "KNOWN" => boot)

\* The LL copies as many bytes as there is room for and acknowledges the frame.
\* Without room it would not: the sender retries until it gives the frame up.
\* The frame leaves the sender's LL when the acknowledgement comes at once.
ReceiveFragment(acked) ==
  /\ CanCome
  /\ head = "NEW" \/ repeats < MaxRepeats
  /\ PlaceSize(Len(res)) > 0
  /\ LET f == Head(ll)
         n == IF f.size < PlaceSize(Len(res)) THEN f.size ELSE PlaceSize(Len(res))
         packet == Begun(f.START) \o Bytes(f.pkt, f.from, n)
     IN  /\ damaged' = damaged \cup (IF n < f.size THEN {f.pkt} ELSE {})
         /\ repeated' = repeated \cup (IF head = "NEW" THEN {} ELSE {f.pkt})
         /\ \/ Skipped(f) /\ UNCHANGED <<res, delivered>>
            \/ ~Skipped(f) /\ ~f.END /\ res' = packet /\ UNCHANGED delivered
            \/ ~Skipped(f) /\ f.END /\ res' = << >> /\ delivered' = Append(delivered, packet)
  /\ repeats' = repeats + IF head = "NEW" THEN 0 ELSE 1
  /\ IF acked THEN ll' = Tail(ll) /\ boot' = FALSE /\ head' = "NEW"
     ELSE head' = "KNOWN" /\ UNCHANGED <<ll, boot>>
  /\ UNCHANGED <<sent, div, cuts, aborted, losses, resets>>

-----------------------------------------------------------------------------
(* The link and the resets.                                                *)

\* A frame leaves the sender's LL that has not been handed over.
Lose ==
  /\ ll # << >> /\ head = "NEW"
  /\ losses < MaxLost
  /\ losses' = losses + 1
  /\ damaged' = damaged \cup {Head(ll).pkt}
  /\ ll' = Tail(ll) /\ boot' = FALSE
  /\ UNCHANGED <<sent, div, cuts, head, res, delivered, repeated, aborted, repeats, resets>>

\* A frame that has been handed over is acknowledged late, or given up.
Settle ==
  /\ head # "NEW"
  /\ ll' = Tail(ll) /\ boot' = FALSE /\ head' = "NEW"
  /\ UNCHANGED <<sent, div, cuts, res, delivered, damaged, repeated, aborted,
                 losses, repeats, resets>>

\* The sending side starts again: its divider forgets its packet, and its LL is a
\* new one.
InitializeSender ==
  /\ resets < MaxResets
  /\ resets' = resets + 1
  /\ div' = NoPacket
  /\ cuts' = 0
  /\ ll' = << >> /\ boot' = TRUE /\ head' = "NEW"
  /\ aborted' = aborted \cup {f.pkt : f \in ToSet(Pending \o div.tx_pkt)}
  /\ UNCHANGED <<sent, res, delivered, damaged, repeated, losses, repeats>>

\* The receiving side starts again: it awaits a first fragment, and its LL is a
\* new one that knows no frame.
InitializeReceiver ==
  /\ resets < MaxResets
  /\ resets' = resets + 1
  /\ head' = IF head = "NEW" THEN "NEW" ELSE "FORGOTTEN"
  /\ aborted' = aborted \cup PacketsIn(res)
  /\ res' = << >>
  /\ UNCHANGED <<sent, div, cuts, ll, boot, delivered, damaged, repeated, losses, repeats>>

Init == /\ sent = << >>
        /\ div = NoPacket
        /\ cuts = 0
        /\ ll = << >> /\ boot = TRUE /\ head = "NEW"
        /\ res = << >>
        /\ delivered = << >>
        /\ damaged = {}
        /\ repeated = {}
        /\ aborted = {}
        /\ losses = 0 /\ repeats = 0 /\ resets = 0

Next == \/ \E size \in Sizes : StoreTxPkt(size)
        \/ TakeFragment
        \/ \E acked \in BOOLEAN : ReceiveFragment(acked)
        \/ Lose
        \/ Settle
        \/ InitializeSender
        \/ InitializeReceiver

Spec == Init /\ [][Next]_vars

-----------------------------------------------------------------------------
(* Properties.                                                             *)

Frame == [pkt : 1 .. MaxPkts, from : 0 .. Big, size : 1 .. Body, START : BOOLEAN, END : BOOLEAN]

\* The types; the reassembly never writes past its buffer, whatever mixture of
\* packets the losses make of it.
TypeOK ==
  /\ sent \in Seq(Sizes)
  /\ div.pkt_size \in 0 .. Big /\ div.offset \in 0 .. div.pkt_size
  /\ ToSet(ll \o div.tx_pkt) \subseteq Frame
  /\ Len(ll) <= QueueSize /\ Len(div.tx_pkt) <= 1
  /\ boot \in BOOLEAN
  /\ head \in {"NEW", "KNOWN", "FORGOTTEN"} /\ (ll = << >> => head = "NEW")
  /\ res \in Seq((1 .. MaxPkts) \X (1 .. Big)) /\ Len(res) <= Big
  /\ damaged \cup repeated \cup aborted \subseteq 1 .. Len(sent)
  /\ cuts \in Nat /\ losses \in 0 .. MaxLost /\ repeats \in 0 .. MaxRepeats
  /\ resets \in 0 .. MaxResets

\* Whenever and however often a side starts again, and whatever frames the link then
\* hands over once more, what the high level gets is a whole packet: only a frame lost
\* by the link cuts one short or mixes it with another.
WholePackets ==
  \A i \in DOMAIN delivered :
    \/ \E m \in DOMAIN sent : delivered[i] = Whole(m)
    \/ PacketsIn(delivered[i]) \cap damaged # {}

\* The packets out of the divider and the link.
Through == {m \in DOMAIN sent : \A f \in ToSet(Pending \o div.tx_pkt) : f.pkt # m}

Harmed == damaged \cup aborted

\* Whatever happened to the packets before and after them, those that came through whole
\* are delivered, in order, and nothing is delivered that was not sent.  One is delivered
\* twice only if it is of one frame and the link has handed that frame over again; the
\* fragments of the others are put together once.
UndamagedIsDelivered ==
  LET Carries(i, m) == delivered[i] = Whole(m)
      MayRepeat(m) == m \in repeated /\ sent[m] <= Body
  IN  /\ \A i \in DOMAIN delivered : PacketsIn(delivered[i]) \cap Harmed = {} =>
           \E m \in Through \ Harmed : Carries(i, m)
      /\ \A m \in Through \ Harmed : \E i \in DOMAIN delivered : Carries(i, m)
      /\ \A i, j \in DOMAIN delivered, m, n \in DOMAIN sent \ Harmed :
           i < j /\ Carries(i, m) /\ Carries(j, n) => m < n \/ (m = n /\ MayRepeat(m))

\* Rounded up.
Pieces(size) == (size + Body - 1) \div Body

\* "But do not create extra packets": small piece first or not, the pieces cut
\* and those to come are as few as the size allows.
FewestFragments ==
  div.pkt_size # 0 => cuts + Pieces(div.pkt_size - div.offset) = Pieces(div.pkt_size)

\* While no frame is lost, every frame finds a place that holds all of it, though
\* the places shrink towards the end of the buffer, even when a side has started
\* again in the middle of a packet or a frame comes again: with the small piece
\* first no packet leaves less than Body before its last piece.
AlwaysRoom ==
  losses = 0 /\ CanCome => Head(ll).size <= PlaceSize(Len(res))
=============================================================================
