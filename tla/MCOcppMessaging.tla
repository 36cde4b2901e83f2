-------------------------- MODULE MCOcppMessaging --------------------------
(* Instances of OcppMessaging for TLC. *)
EXTENDS OcppMessaging, TLC

CONSTANTS boot, start, reply, l1, l2

MCCalls == {boot, start}
MCReplies == {reply}
MCBoots == {boot}
MCSlow == {start}
MCLoops == {l1, l2}

Symmetry == Permutations(MCLoops)

=============================================================================
