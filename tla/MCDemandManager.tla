-------------------------- MODULE MCDemandManager --------------------------
(* Small instances of DemandManager for TLC. *)
EXTENDS DemandManager, TLC

CONSTANTS s1, s2, random, l1, l2, c1, c2, e1, e2, none

\* Two readers of one stream.
MCOneStream == [l \in {l1, l2} |-> s1]

\* One reader of a stream.
MCOneReader == [l \in {l1} |-> s1]

\* One reader of a stream, one of the random path.
MCMixed == l1 :> s1 @@ l2 :> random

Symmetry == Permutations(Calls) \cup Permutations(Entries)
=============================================================================
