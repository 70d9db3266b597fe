------------------------- MODULE MCMessagingLedger -------------------------
(* Instances of the durable state of a thread. *)
EXTENDS MessagingLedger, TLC

CONSTANTS ra, rb, s1, s2, x1

MCRuns == {ra, rb}
MCSourceIds == {s1, s2}
MCExternalIds == {x1}
MCSymmetry == Permutations(MCRuns) \cup Permutations(MCSourceIds)
=============================================================================
