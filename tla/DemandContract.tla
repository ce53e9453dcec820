--------------------------- MODULE DemandContract ---------------------------
(***************************************************************************)
(* What the manager promises of a playback path, with no trace of how: who *)
(* wants the path (the on-demand leases) and whether a publisher is        *)
(* registered for it.  A publisher comes up only with a reader that joins, *)
(* goes down with the last reader, by an administrative stop, or because   *)
(* its source is over; a reader is never deprived of its publisher because *)
(* another reader left or fell silent.                                     *)
(***************************************************************************)
EXTENDS FiniteSets

CONSTANTS Paths,   \* playback paths
          Leases   \* reader leases

VARIABLES wanted,  \* wanted[p]: the leases held on p
          up       \* up[p]: a publisher is registered for p

vars == <<wanted, up>>

Init ==
    /\ wanted = [p \in Paths |-> {}]
    /\ up = [p \in Paths |-> FALSE]

\* A reader joins (or refreshes): the path is up afterwards.
Join(p, l) ==
    /\ wanted' = [wanted EXCEPT ![p] = @ \cup {l}]
    /\ up' = [up EXCEPT ![p] = TRUE]

\* A path that is down cannot be brought up: the lease is not kept.
Refuse(p, l) ==
    /\ ~up[p]
    /\ wanted' = [wanted EXCEPT ![p] = @ \ {l}]
    /\ UNCHANGED up

\* Some leases are dropped; exactly the paths nobody wants any more go down.
\* "gone" is the lease of one leaving reader, or all that fell silent.
Leave(gone) ==
    /\ \A p \in Paths: gone[p] \subseteq wanted[p]
    /\ \E p \in Paths: gone[p] # {}
    /\ wanted' = [p \in Paths |-> wanted[p] \ gone[p]]
    /\ up' = [p \in Paths |-> up[p] /\ (gone[p] = {} \/ wanted'[p] # {})]

\* An administrative stop takes the path down whoever wants it.
Evict(p) ==
    /\ wanted' = [wanted EXCEPT ![p] = {}]
    /\ up' = [up EXCEPT ![p] = FALSE]

\* The publisher's source is over, or its retries are exhausted.
SourceOver(p) ==
    /\ up[p]
    /\ up' = [up EXCEPT ![p] = FALSE]
    /\ UNCHANGED wanted

\* The process that keeps all of this in memory restarts.
Crash ==
    /\ wanted' = [p \in Paths |-> {}]
    /\ up' = [p \in Paths |-> FALSE]

Next ==
    \/ \E p \in Paths, l \in Leases: Join(p, l) \/ Refuse(p, l)
    \/ \E gone \in [Paths -> SUBSET Leases]: Leave(gone)
    \/ \E p \in Paths: Evict(p) \/ SourceOver(p)
    \/ Crash

Spec == Init /\ [][Next]_vars
=============================================================================
