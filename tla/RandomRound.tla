---------------------------- MODULE RandomRound ----------------------------
(* The reserved path "random" over one round of viewers: from the first    *)
(* lease on it until the last one is gone.  "drawn" remembers which stream *)
(* the round was given; it is no state of the code.                        *)
EXTENDS DemandManager

VARIABLE drawn

RoundInit == Init /\ drawn = None

RoundNext ==
    /\ Next
    /\ drawn' = IF demands'[Random] = {} THEN None
                ELSE IF drawn = None /\ handles'[Random] # None
                     THEN source'[handles'[Random]]
                     ELSE drawn

RoundSpec == RoundInit /\ [][RoundNext]_<<vars, drawn>>

\* All viewers of a round share one draw: "subsequent heartbeats keep the
\* same backing source until the last reader leaves" (AcquireDemand).
RoundKeepsDraw ==
    handles[Random] # None => source[handles[Random]] = drawn
=============================================================================
