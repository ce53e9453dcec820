--------------------------- MODULE MCRandomRound ---------------------------
(* A small instance of RandomRound for TLC: two readers of the random path. *)
EXTENDS RandomRound

CONSTANTS s1, s2, random, l1, l2, c1, e1, e2, none

MCRandom == [l \in {l1, l2} |-> random]
=============================================================================
