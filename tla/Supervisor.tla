----------------------------- MODULE Supervisor -----------------------------
(***************************************************************************)
(* internal/ffmpeg, process.go: one Handle.Run.  It resolves the source,   *)
(* starts ffmpeg, waits for it under a watchdog, and decides after every   *)
(* exit whether to stop, to replay, or to retry with a budget.             *)
(*                                                                         *)
(* Durations are left out: a sleep ends at any time, and a run "was long"  *)
(* or not.  So are the texts of lastError and the figures only displayed.  *)
(***************************************************************************)
EXTENDS Naturals

CONSTANTS Kinds,       \* kinds of source to consider
          MaxRestarts  \* maxRestarts

AllKinds == {"direct_live", "direct_file", "provider_live", "provider_vod"}

ASSUME KindsOfSource == Kinds \subseteq AllKinds
ASSUME BudgetIsNatural == MaxRestarts \in Nat

VARIABLES
    kind,      \* the kind of its source
    pc,        \* where Run is
    state,     \* Handle.state, as the API shows it
    restarts,  \* the retry counter
    ctxDone,   \* the supervisor's context is cancelled
    proc,      \* ffmpeg: "none", "alive", or "dying" after SIGTERM
    silent,    \* no progress=continue for staleTimeout
    killed,    \* the watchdog has cancelled procCtx
    waited,    \* what cmd.Wait reported: "ok" or "fail"
    long       \* the last run lasted healthyRunFor

process == <<proc, silent, killed, waited, long>>
vars == <<kind, pc, state, restarts, ctxDone, process>>

Init ==
    /\ kind \in Kinds
    /\ pc = "top" /\ state = "restarting" /\ restarts = 0
    /\ ctxDone = FALSE
    /\ proc = "none" /\ silent = FALSE /\ killed = FALSE
    /\ waited = "fail" /\ long = FALSE

Resolved == kind \in {"provider_live", "provider_vod"}

Live == kind \in {"direct_live", "provider_live"}

(***************************************************************************)
(* The loop of Run                                                         *)
(***************************************************************************)

\* Fault: the attempt is not counted.
FaultNoCount(n) ==
    /\ restarts' = n
    /\ pc' = "sleep" /\ UNCHANGED state

\* Fault: the budget is compared before the attempt is counted.
FaultOneTooMany(n) ==
    /\ restarts' = n + 1
    /\ IF n > MaxRestarts
       THEN pc' = "leaving" /\ state' = "error"
       ELSE pc' = "sleep" /\ UNCHANGED state

\* retry, when n attempts were counted before: give up, or sleep and go on.
Retry(n) ==
    /\ restarts' = n + 1
    /\ IF n + 1 > MaxRestarts
       THEN pc' = "leaving" /\ state' = "error"
       ELSE pc' = "sleep" /\ UNCHANGED state

\* Fault: an iteration begins without setState(StateRestarting).
FaultStateKept ==
    /\ pc = "top"
    /\ pc' = IF ctxDone THEN "leaving" ELSE "resolve"
    /\ UNCHANGED <<kind, state, restarts, ctxDone, process>>

Top ==
    /\ pc = "top"
    /\ IF ctxDone THEN pc' = "leaving" /\ UNCHANGED state
                  ELSE pc' = "resolve" /\ state' = "restarting"
    /\ UNCHANGED <<kind, restarts, ctxDone, process>>

\* buildArgs: only a provider's page or room can fail to resolve.
BuildArgs ==
    /\ pc = "resolve"
    /\ \/ pc' = "start" /\ UNCHANGED <<state, restarts>>
       \/ kind = "provider_live" /\ Retry(restarts)
    /\ UNCHANGED <<kind, ctxDone, process>>

\* start: ffmpeg is spawned in a process group of its own, or is not.
Start ==
    /\ pc = "start"
    /\ \/ /\ pc' = "started" /\ UNCHANGED <<state, restarts, waited, long>>
          /\ proc' = "alive" /\ silent' = FALSE /\ killed' = FALSE
       \/ Retry(restarts) /\ UNCHANGED process
    /\ UNCHANGED <<kind, ctxDone>>

\* Fault: start is not followed by setState(StateRunning).
FaultStartUnseen ==
    /\ pc = "started"
    /\ pc' = "wait"
    /\ UNCHANGED <<kind, state, restarts, ctxDone, process>>

\* What ffmpeg has been doing meanwhile, and whether it is still there, shows
\* when the watchdog has been started and cmd.Wait is called.
ShowRunning ==
    /\ pc = "started"
    /\ pc' = "wait" /\ state' = "running"
    /\ UNCHANGED <<kind, restarts, ctxDone, process>>

\* The switch after cmd.Wait.
AfterExit ==
    /\ pc = "exited"
    /\ \/ /\ ctxDone
          /\ pc' = "leaving" /\ UNCHANGED <<state, restarts>>
       \/ /\ ~ctxDone /\ waited = "ok" /\ ~Live /\ ~Resolved
          /\ pc' = "leaving" /\ UNCHANGED <<state, restarts>>
       \/ /\ ~ctxDone /\ waited = "ok" /\ ~Live /\ Resolved
          /\ pc' = "sleep" /\ state' = "restarting" /\ UNCHANGED restarts
       \/ /\ ~ctxDone /\ (waited = "fail" \/ Live)
          /\ Retry(IF long THEN 0 ELSE restarts)
    /\ UNCHANGED <<kind, ctxDone, process>>

\* sleep, before a retry or a replay: the timer, or the context.
Sleep ==
    /\ pc = "sleep"
    /\ pc' = "top" \/ (ctxDone /\ pc' = "leaving")
    /\ UNCHANGED <<kind, state, restarts, ctxDone, process>>

\* Every return runs the deferred setState(StateStopped).
Return ==
    /\ pc = "leaving"
    /\ pc' = "returned" /\ state' = "stopped"
    /\ UNCHANGED <<kind, restarts, ctxDone, process>>

(***************************************************************************)
(* ffmpeg, its watchdog, and whoever cancels the supervisor                *)
(***************************************************************************)

\* readProgress sees progress=continue, or staleTimeout passes without it.
Progress ==
    /\ proc = "alive"
    /\ silent' \in BOOLEAN
    /\ UNCHANGED <<kind, pc, state, restarts, ctxDone, proc, killed, waited,
                   long>>

\* Fault: the watchdog only logs.
FaultWatchdogLogs ==
    /\ pc = "wait" /\ proc = "alive" /\ silent /\ ~killed
    /\ UNCHANGED vars

Watchdog ==
    /\ pc = "wait" /\ proc = "alive" /\ silent /\ ~killed
    /\ killed' = TRUE
    /\ UNCHANGED <<kind, pc, state, restarts, ctxDone, proc, silent, waited,
                   long>>

\* Fault: ffmpeg is bound to a context of its own.
FaultOnlyWatchdogKills ==
    /\ proc = "alive" /\ killed
    /\ proc' = "dying"
    /\ UNCHANGED <<kind, pc, state, restarts, ctxDone, silent, killed, waited,
                   long>>

\* cmd.Cancel: SIGTERM to the group once procCtx, a child of ctx, is done.
Terminate ==
    /\ proc = "alive" /\ (ctxDone \/ killed)
    /\ proc' = "dying"
    /\ UNCHANGED <<kind, pc, state, restarts, ctxDone, silent, killed, waited,
                   long>>

\* The process ends and cmd.Wait returns; after a Cancel it reports an error
\* whatever the exit status, and waitDelay later the group is gone anyway.
ProcessExits ==
    /\ pc = "wait" /\ proc # "none"
    /\ pc' = "exited" /\ proc' = "none"
    /\ waited' \in IF proc = "dying" THEN {"fail"} ELSE {"ok", "fail"}
    /\ long' \in BOOLEAN
    /\ UNCHANGED <<kind, state, restarts, ctxDone, silent, killed>>

\* stopEntry, or the shutdown of the service.
Cancel ==
    /\ ~ctxDone
    /\ ctxDone' = TRUE
    /\ UNCHANGED <<kind, pc, state, restarts, process>>

-----------------------------------------------------------------------------

Loop == Top \/ BuildArgs \/ Start \/ ShowRunning \/ AfterExit \/ Sleep \/ Return

Next ==
    Loop \/ Progress \/ Watchdog \/ Terminate \/ ProcessExits \/ Cancel

\* Goroutines and timers run; a terminated process dies (SIGKILL after
\* waitDelay).  A source may stay silent or end, but need not.
Fairness ==
    /\ WF_vars(Loop)
    /\ WF_vars(Watchdog)
    /\ WF_vars(Terminate)
    /\ WF_vars(proc = "dying" /\ ProcessExits)

Spec == Init /\ [][Next]_vars

FairSpec == Spec /\ Fairness

-----------------------------------------------------------------------------

\* Type invariant.
TypeOK ==
    /\ kind \in AllKinds
    /\ pc \in {"top", "resolve", "start", "started", "wait", "exited",
               "sleep", "leaving", "returned"}
    /\ state \in {"restarting", "running", "error", "stopped"}
    /\ restarts \in 0 .. MaxRestarts + 1
    /\ ctxDone \in BOOLEAN
    /\ proc \in {"none", "alive", "dying"}
    /\ silent \in BOOLEAN /\ killed \in BOOLEAN /\ long \in BOOLEAN
    /\ waited \in {"ok", "fail"}

\* Where what the API shows may differ from what ffmpeg does: a live one is
\* shown as restarting until setState(StateRunning), and one that is gone as
\* running, through the whole backoff (retry leaves the state alone), until
\* the next turn of the loop or the return.  Nowhere else: in particular no
\* ffmpeg lives behind a state of stopped or error, which stands for a budget
\* that is spent, and no attempt begins under the state of the last one.
StatusTellsTruth ==
    /\ proc # "none" /\ state # "running" =>
          pc = "started" /\ state = "restarting"
    /\ proc = "none" /\ state = "running" =>
          pc \in {"exited", "sleep", "top", "leaving"}
    /\ state = "error" => pc = "leaving" /\ restarts > MaxRestarts
    /\ state = "stopped" <=> pc = "returned"

\* What the manager relies on when it cancels a supervisor and waits for it.
Contract == INSTANCE SupervisorContract WITH
    returned <- pc = "returned",
    cancelled <- ctxDone,
    ffmpeg <- proc # "none"

\* A supervisor ends only after its ffmpeg, has one at a time, and ends once it
\* is cancelled: so stopEntry returns, and nothing is left running behind it.
KeepsContract == Contract!FairSpec

\* A hung ffmpeg (half-open connection, frozen camera) does not hang its
\* supervisor: it is killed unless it speaks again.
HungIsKilled ==
    (proc = "alive" /\ silent) ~> (proc # "alive" \/ ~silent)

\* A source that keeps failing is given up, unless a run of it goes on for
\* ever: failed runs do not alternate with sleeps without end.
FailingIsGivenUp ==
    <>[](~long /\ (waited = "fail" \/ Live)) =>
        <>(pc = "returned") \/ <>[](pc = "wait")

\* After the budget is exhausted the stream is shown in state error.
GivenUpShowsError ==
    [][(pc = "leaving" /\ state = "error") => state' = "error"]_vars
=============================================================================
