------------------------- MODULE SupervisorHistory -------------------------
(* Supervisor with a history variable: how many attempts in a row failed,  *)
(* that is since the last run that ended cleanly or lasted healthyRunFor.  *)
EXTENDS Supervisor

VARIABLE streak

HistoryInit == Init /\ streak = 0

\* The run at hand ended as it should.
CleanEnd == pc = "exited" /\ ~ctxDone /\ waited = "ok" /\ ~Live

\* A step of retry.
Attempt ==
    /\ pc \in {"resolve", "start"} \/ (pc = "exited" /\ ~ctxDone /\ ~CleanEnd)
    /\ pc' \in {"sleep", "leaving"}

\* One more, counted up to the first number that is too high.
OneMore(n) == IF n > MaxRestarts + 1 THEN n ELSE n + 1

HistoryNext ==
    /\ Next
    /\ streak' = IF CleanEnd THEN 0
                 ELSE IF ~Attempt THEN streak
                 ELSE IF pc = "exited" /\ long THEN 1 ELSE OneMore(streak)

HistorySpec == HistoryInit /\ [][HistoryNext]_<<vars, streak>>

FairHistorySpec == HistorySpec /\ Fairness

\* A supervisor never makes more than maxRestarts restarts in a row that all
\* fail: the budget cannot be refilled by anything but a good run.
FailuresBounded == streak <= MaxRestarts + 1
=============================================================================
