------------------------- MODULE SupervisorContract -------------------------
(***************************************************************************)
(* What the manager relies on in a supervisor (Handle.Run): it works until *)
(* it returns, it never returns while its ffmpeg is alive, it never has    *)
(* two of them, and once cancelled it does return.  This is the life cycle *)
(* DemandManager gives to an element of Entries.                           *)
(***************************************************************************)
VARIABLES returned,   \* Run has returned
          cancelled,  \* its context is cancelled
          ffmpeg      \* its ffmpeg process is alive

vars == <<returned, cancelled, ffmpeg>>

Init == returned = FALSE /\ cancelled = FALSE /\ ffmpeg = FALSE

Cancel ==
    /\ cancelled' = TRUE
    /\ UNCHANGED <<returned, ffmpeg>>

Spawn ==
    /\ ~returned /\ ~ffmpeg
    /\ ffmpeg' = TRUE
    /\ UNCHANGED <<returned, cancelled>>

Exit ==
    /\ ffmpeg
    /\ ffmpeg' = FALSE
    /\ UNCHANGED <<returned, cancelled>>

Return ==
    /\ ~returned /\ ~ffmpeg
    /\ returned' = TRUE
    /\ UNCHANGED <<cancelled, ffmpeg>>

Next == Cancel \/ Spawn \/ Exit \/ Return

Spec == Init /\ [][Next]_vars

FairSpec == Spec /\ WF_vars(cancelled /\ Exit) /\ WF_vars(cancelled /\ Return)
=============================================================================
