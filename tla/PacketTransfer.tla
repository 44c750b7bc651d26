--------------------------- MODULE PacketTransfer ---------------------------
(***************************************************************************)
(* What one direction of the low-level link promises, in terms of what its *)
(* users see: packets are numbered in the order the sender's user handed   *)
(* them over; the receiver's user gets each at most once and in that order *)
(* (the boot packet, number 1, may be repeated while nothing later has     *)
(* arrived); the sender is done with its packets in order, and is told     *)
(* "acked" only of a packet that the receiver's user has got.              *)
(***************************************************************************)
EXTENDS Integers, Sequences, SequencesExt

CONSTANT Window      \* packets the sender holds at once

VARIABLES
  offered,     \* number of packets taken from the sender's user
  resolved,    \* what the sender concluded of packets 1..Len(resolved)
  got          \* packets handed to the receiver's user, in order

vars == <<offered, resolved, got>>

Outcome == {"acked", "dropped"}

TypeOK == /\ offered \in Nat
          /\ resolved \in Seq(Outcome)
          /\ got \in Seq(Nat)

Init == offered = 0 /\ resolved = << >> /\ got = << >>

Accept == offered - Len(resolved) < Window /\ offered' = offered + 1

Resolve == LET n == Len(resolved) + 1
           IN \E o \in Outcome : /\ n <= offered
                                 /\ o = "acked" => Contains(got, n)
                                 /\ resolved' = Append(resolved, o)

\* One step of the sender may take a packet and be done with another.
Sender == /\ UNCHANGED got
          /\ \/ Accept /\ UNCHANGED resolved
             \/ Resolve /\ UNCHANGED offered
             \/ Accept /\ Resolve

\* Only the oldest unresolved packet, or a copy of an earlier one that is
\* still on the line, can arrive.
Deliver(n) == /\ \/ got = << >>
                 \/ n > Last(got)
                 \/ n = 1 /\ Last(got) = 1
              /\ n <= Len(resolved) + 1
              /\ got' = Append(got, n)
              /\ UNCHANGED <<offered, resolved>>

Receiver == \E n \in 1..offered : Deliver(n)

Next == Sender \/ Receiver

Spec == Init /\ [][Next]_vars
=============================================================================
