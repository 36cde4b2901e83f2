--------------------------- MODULE MCTransactions ---------------------------
(* Instances of Transactions for TLC. *)
EXTENDS Transactions

CONSTANTS tagA, tagB

MCTags == {tagA, tagB}
MCLocalTags == {tagA}

=============================================================================
