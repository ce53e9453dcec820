-------------------------- MODULE SupervisorProofs --------------------------
(***************************************************************************)
(* Proofs about Supervisor and SupervisorHistory, for every retry budget   *)
(* and every kind of source.                                               *)
(***************************************************************************)
EXTENDS SupervisorHistory, TLAPS

\* An exhausted budget is never exceeded: the loop is left at once.
SpentIsLeft == restarts > MaxRestarts => pc \in {"leaving", "returned"}

\* Where Run is while there is an ffmpeg, and what it has shown by then.
LoopShows ==
    /\ proc # "none" <=> pc \in {"started", "wait"}
    /\ pc \in {"resolve", "start", "started"} => state = "restarting"
    /\ pc = "wait" => state = "running"
    /\ state \in {"stopped", "error"} => pc \in {"leaving", "returned"}

IInv == TypeOK /\ StatusTellsTruth /\ SpentIsLeft /\ LoopShows

\* A new handle has spent nothing and is shown as restarting.
LEMMA InitInv == Init => IInv
<1> SUFFICES ASSUME Init PROVE IInv
  OBVIOUS
<1>1. TypeOK
  <2>1. kind \in AllKinds
    BY KindsOfSource DEF Init
  <2>2. restarts \in 0 .. MaxRestarts + 1
    BY BudgetIsNatural DEF Init
  <2>3. /\ ctxDone \in BOOLEAN /\ silent \in BOOLEAN
        /\ killed \in BOOLEAN /\ long \in BOOLEAN
    BY DEF Init
  <2> QED BY <2>1, <2>2, <2>3 DEF Init, TypeOK
<1>2. StatusTellsTruth
  BY DEF Init, StatusTellsTruth
<1>3. SpentIsLeft
  BY BudgetIsNatural DEF Init, SpentIsLeft
<1>4. LoopShows
  BY DEF Init, LoopShows
<1> QED BY <1>1, <1>2, <1>3, <1>4 DEF IInv

\* Counting an attempt, from a counter that has not run out.
LEMMA RetryCounts ==
    ASSUME NEW n \in 0 .. MaxRestarts, Retry(n)
    PROVE  /\ restarts' \in 0 .. MaxRestarts + 1
           /\ restarts' = n + 1
           /\ restarts' > MaxRestarts => pc' = "leaving" /\ state' = "error"
           /\ restarts' <= MaxRestarts => pc' = "sleep" /\ state' = state
  BY BudgetIsNatural DEF Retry

\* The invariant is inductive: every step of Run, ffmpeg and the watchdog keeps
\* it.
LEMMA InvStep == IInv /\ [Next]_vars => IInv'
<1> SUFFICES ASSUME IInv, [Next]_vars PROVE IInv'
  OBVIOUS
<1> USE BudgetIsNatural
    DEF IInv, TypeOK, StatusTellsTruth, SpentIsLeft, LoopShows
<1>1. CASE UNCHANGED vars
  BY <1>1 DEF vars, process
<1>2. CASE Top
  BY <1>2 DEF Top, process
<1>3. CASE BuildArgs
  <2>1. restarts \in 0 .. MaxRestarts
    BY <1>3 DEF BuildArgs
  <2> QED BY <1>3, <2>1, RetryCounts DEF BuildArgs, process
<1>4. CASE Start
  <2>1. restarts \in 0 .. MaxRestarts
    BY <1>4 DEF Start
  <2>2. CASE Retry(restarts) /\ UNCHANGED process
    BY <1>4, <2>1, <2>2, RetryCounts DEF Start, process
  <2>3. CASE ~Retry(restarts)
    BY <1>4, <2>3 DEF Start, process
  <2> QED BY <1>4, <2>2, <2>3 DEF Start
<1>5. CASE AfterExit
  <2>1. (IF long THEN 0 ELSE restarts) \in 0 .. MaxRestarts
    BY <1>5 DEF AfterExit
  <2>2. CASE Retry(IF long THEN 0 ELSE restarts)
    BY <1>5, <2>1, <2>2, RetryCounts DEF AfterExit, process
  <2>3. CASE ~Retry(IF long THEN 0 ELSE restarts)
    BY <1>5, <2>3 DEF AfterExit, process
  <2> QED BY <2>2, <2>3
<1>6. CASE Sleep
  BY <1>6 DEF Sleep, process
<1>7. CASE Return
  BY <1>7 DEF Return, process
<1>8. CASE Progress
  BY <1>8 DEF Progress
<1>9. CASE Watchdog
  BY <1>9 DEF Watchdog
<1>10. CASE Terminate
  BY <1>10 DEF Terminate
<1>11. CASE ProcessExits
  BY <1>11 DEF ProcessExits
<1>12. CASE Cancel
  BY <1>12 DEF Cancel, process
<1>13. CASE ShowRunning
  BY <1>13 DEF ShowRunning, process
<1> QED
  BY <1>1, <1>2, <1>3, <1>4, <1>5, <1>6, <1>7, <1>8, <1>9, <1>10, <1>11,
     <1>12, <1>13
  DEF Next, Loop

\* The inductive invariant of the supervisor holds in every reachable state.
THEOREM Invariance == Spec => []IInv
  BY InitInv, InvStep, PTL DEF Spec

\* Type correctness: in particular the counter stays within its budget.
THEOREM TypeCorrect == Spec => []TypeOK
<1>1. IInv => TypeOK
  BY DEF IInv
<1> QED BY <1>1, Invariance, PTL

\* What the API shows differs from what ffmpeg does between the spawn and the
\* setState that follows, and from an exit to the next attempt, nowhere else.
THEOREM StatusIsTrue == Spec => []StatusTellsTruth
<1>1. IInv => StatusTellsTruth
  BY DEF IInv
<1> QED BY <1>1, Invariance, PTL

-----------------------------------------------------------------------------

\* Every step of Run is a step of the contract or a stutter.
LEMMA ContractStep == IInv /\ [Next]_vars => [Contract!Next]_(Contract!vars)
<1> SUFFICES ASSUME IInv, [Next]_vars
             PROVE  Contract!Next \/ UNCHANGED Contract!vars
  OBVIOUS
<1> USE DEF Contract!vars
<1>1. CASE UNCHANGED <<pc, ctxDone, proc>>
  BY <1>1
<1>2. CASE UNCHANGED <<ctxDone, proc>> /\ pc # "returned" /\ pc' # "returned"
  BY <1>2
<1>3. CASE Start
  <2>1. proc = "none"
    BY <1>3 DEF Start, IInv, TypeOK, LoopShows
  <2>2. CASE pc' = "started"
    BY <1>3, <2>1, <2>2
    DEF Start, Retry, process, Contract!Next, Contract!Spawn
  <2>3. CASE pc' # "started"
    BY <1>3, <2>3 DEF Start, Retry, process
  <2> QED BY <2>2, <2>3
<1>4. CASE Return
  BY <1>4 DEF Return, process, IInv, TypeOK, LoopShows,
              Contract!Next, Contract!Return
<1>5. CASE Terminate
  BY <1>5 DEF Terminate
<1>6. CASE ProcessExits
  BY <1>6 DEF ProcessExits, Contract!Next, Contract!Exit
<1>7. CASE Cancel
  BY <1>7 DEF Cancel, process, Contract!Next, Contract!Cancel
<1> QED
  BY <1>1, <1>2, <1>3, <1>4, <1>5, <1>6, <1>7
  DEF Next, Loop, vars, process, Top, BuildArgs, ShowRunning, AfterExit, Sleep, Retry,
      Progress, Watchdog

\* The safety half of the contract: one ffmpeg at a time, and none when Run
\* has returned.  (That a cancelled Run returns is left to TLC.)
THEOREM SupervisorKeepsContract == Spec => Contract!Spec
<1>1. Init => Contract!Init
  BY DEF Init, Contract!Init
<1> QED
  BY <1>1, Invariance, ContractStep, PTL DEF Spec, Contract!Spec

-----------------------------------------------------------------------------

\* The history: never more failures in a row than the counter has seen.
StreakIsCounted == streak \in Nat /\ streak <= restarts

\* Every attempt retry counts for the streak is counted in restarts as well.
LEMMA StreakStep ==
    IInv /\ StreakIsCounted /\ [HistoryNext]_<<vars, streak>>
        => StreakIsCounted'
<1> SUFFICES ASSUME IInv, StreakIsCounted, [HistoryNext]_<<vars, streak>>
             PROVE  StreakIsCounted'
  OBVIOUS
<1> USE BudgetIsNatural DEF IInv, TypeOK, StreakIsCounted
<1>1. CASE UNCHANGED <<vars, streak>>
  BY <1>1 DEF vars
<1>2. CASE HistoryNext
  <2>1. restarts' \in Nat
    BY <1>2, InvStep DEF HistoryNext
  <2>2. CASE CleanEnd
    BY <1>2, <2>1, <2>2 DEF HistoryNext
  <2>3. CASE ~CleanEnd /\ ~Attempt
    <3>1. streak' = streak
      BY <1>2, <2>3 DEF HistoryNext
    <3>2. restarts' = restarts
      BY <1>2, <2>3 DEF HistoryNext, Next, Loop, Top, BuildArgs, Start,
         ShowRunning, AfterExit, Sleep, Return, Progress, Watchdog, Terminate,
         ProcessExits, Cancel, Retry, Attempt, CleanEnd
    <3> QED BY <3>1, <3>2
  <2>4. CASE ~CleanEnd /\ Attempt
    <3>1. streak' = IF pc = "exited" /\ long THEN 1 ELSE OneMore(streak)
      BY <1>2, <2>4 DEF HistoryNext
    <3>2. restarts' = IF pc = "exited" /\ long THEN 1 ELSE restarts + 1
      BY <1>2, <2>4 DEF HistoryNext, Next, Loop, Top, BuildArgs, Start,
         ShowRunning, AfterExit, Sleep, Return, Progress, Watchdog, Terminate,
         ProcessExits, Cancel, Retry, Attempt, CleanEnd
    <3> QED BY <3>1, <3>2 DEF OneMore
  <2> QED BY <2>2, <2>3, <2>4
<1> QED BY <1>1, <1>2

\* No supervisor makes more than maxRestarts failing restarts in a row.
THEOREM FailuresAreBounded == HistorySpec => []FailuresBounded
<1> DEFINE Inv == IInv /\ StreakIsCounted
<1>1. HistoryInit => Inv
  BY InitInv DEF HistoryInit, StreakIsCounted, Init
<1>2. Inv /\ [HistoryNext]_<<vars, streak>> => Inv'
  <2>1. [HistoryNext]_<<vars, streak>> => [Next]_vars
    BY DEF HistoryNext
  <2> QED BY <2>1, InvStep, StreakStep
<1>3. Inv => FailuresBounded
  BY BudgetIsNatural DEF IInv, TypeOK, StreakIsCounted, FailuresBounded
<1> QED BY <1>1, <1>2, <1>3, PTL DEF HistorySpec
=============================================================================
