------------------------------- MODULE Outbox -------------------------------
(***************************************************************************)
(* What the message buffer of a charging station promises: it accepts       *)
(* messages at any time and hands them over one at a time, in the order in  *)
(* which it accepted them, each acceptance once.                            *)
(***************************************************************************)
EXTENDS Naturals, Sequences

CONSTANT Messages

VARIABLES accepted, delivered

vars == <<accepted, delivered>>

Init == accepted = <<>> /\ delivered = <<>>

Accept(m) ==
  /\ accepted' = Append(accepted, m)
  /\ UNCHANGED delivered

Deliver ==
  /\ Len(delivered) < Len(accepted)
  /\ delivered' = Append(delivered, accepted[Len(delivered) + 1])
  /\ UNCHANGED accepted

Next == Deliver \/ \E m \in Messages : Accept(m)

Spec == Init /\ [][Next]_vars

=============================================================================
