----------------------------- MODULE StatusView -----------------------------
(***************************************************************************)
(* What the management API shows of a supervisor: Supervisor, next to the  *)
(* manager's status poller (pollOnce), which asks MediaMTX for the path    *)
(* and caches the answer in the handle (SetMediaMTX).  State and cached    *)
(* answer are read together (HandleSnapshot, toStreamOut), but written by  *)
(* goroutines that know nothing of each other.                             *)
(*                                                                         *)
(* MediaMTX may gain or lose a publisher of the path at any time: this     *)
(* ffmpeg, or the one of a supervisor before or after this one.  Number    *)
(* and addresses of readers are cached with the online flag.               *)
(***************************************************************************)
EXTENDS SupervisorHistory

VARIABLES
    registered,  \* the supervisor is in Manager.handles
    published,   \* MediaMTX has a publisher on the path
    online,      \* Handle.mtxOnline
    poll,        \* where pollOnce is with this handle
    seen         \* history: published, at some time in the current or last round

view == <<registered, published, online, poll, seen>>

ViewInit ==
    /\ HistoryInit
    /\ registered = TRUE /\ published \in BOOLEAN /\ online = FALSE
    /\ poll = "idle" /\ seen = FALSE

(***************************************************************************)
(* pollOnce                                                                *)
(***************************************************************************)

\* A round begins: the handles are copied under the lock.
CopyEntries ==
    /\ poll \in {"idle", "failed"} /\ registered
    /\ poll' = "look" /\ seen' = published
    /\ UNCHANGED <<registered, published, online>>

\* Fault: nothing is recorded for a handle that is not running.
FaultSkipsIdle ==
    /\ poll = "look"
    /\ poll' = IF state = "running" THEN "ask" ELSE "idle"
    /\ UNCHANGED <<registered, published, online, seen>>

\* Snapshot: MediaMTX is asked about a running ffmpeg only.
Look ==
    /\ poll = "look"
    /\ poll' = IF state = "running" THEN "ask" ELSE "off"
    /\ UNCHANGED <<registered, published, online, seen>>

\* Fault: what MediaMTX does not know is left as it was.
FaultUnknownIsKept ==
    /\ poll = "ask"
    /\ poll' = IF published THEN "on" ELSE "idle"
    /\ UNCHANGED <<registered, published, online, seen>>

\* GetPath answers: the path's state; "off" if there is no such path (404).
GetPath ==
    /\ poll = "ask"
    /\ poll' = IF published THEN "on" ELSE "off"
    /\ UNCHANGED <<registered, published, online, seen>>

\* GetPath fails: the last answer stays in the cache.
GetPathFails ==
    /\ poll = "ask"
    /\ poll' = "failed"
    /\ UNCHANGED <<registered, published, online, seen>>

\* What was fetched is stored, whatever has become of the handle meanwhile.
SetMediaMTX ==
    /\ poll \in {"on", "off"}
    /\ online' = (poll = "on") /\ poll' = "idle"
    /\ UNCHANGED <<registered, published, seen>>

PollOnce == CopyEntries \/ Look \/ GetPath \/ GetPathFails \/ SetMediaMTX

(***************************************************************************)
(* The rest of the manager, and MediaMTX                                   *)
(***************************************************************************)

\* takeEntryLocked, or the goroutine that removes a terminal supervisor.
Unregister ==
    /\ registered
    /\ registered' = FALSE
    /\ UNCHANGED <<published, online, poll, seen>>

Publication ==
    /\ published' = ~published
    /\ seen' = IF poll \in {"idle", "failed"} THEN seen ELSE TRUE
    /\ UNCHANGED <<registered, online, poll>>

ViewNext ==
    \/ HistoryNext /\ UNCHANGED view
    \/ (PollOnce \/ Unregister \/ Publication) /\ UNCHANGED <<vars, streak>>

\* The ticker keeps firing, MediaMTX answers now and then, and a terminal
\* supervisor is removed.
ViewFairness ==
    /\ Fairness
    /\ WF_view(PollOnce) /\ SF_view(GetPath)
    /\ WF_view(pc = "returned" /\ Unregister)

ViewSpec == ViewInit /\ [][ViewNext]_<<vars, streak, view>>

FairViewSpec == ViewSpec /\ ViewFairness

-----------------------------------------------------------------------------

\* What toStreamOut shows as online.
ShownOnline == registered /\ online

\* Type invariant.
ViewTypeOK ==
    /\ TypeOK
    /\ registered \in BOOLEAN /\ published \in BOOLEAN
    /\ online \in BOOLEAN /\ seen \in BOOLEAN
    /\ poll \in {"idle", "look", "ask", "on", "off", "failed"}

\* The cached answer is at most one round old: after a round that did not end
\* with an error, a stream is online only if it had a publisher at some time
\* in that round, even if its ffmpeg has stopped or started again meanwhile.
OnlineIsConfirmed == poll = "idle" /\ online => seen

\* A stream does not stay online after its publisher has gone, not even one
\* whose ffmpeg fails again and again and is never running when it is polled.
OfflineIsNoticed ==
    (ShownOnline /\ ~published) ~> (~ShownOnline \/ published)

\* A stream that publishes is online in the end, however often it restarted.
OnlineIsNoticed ==
    (registered /\ proc = "alive" /\ published)
        ~> (ShownOnline \/ ~(registered /\ proc = "alive" /\ published))
=============================================================================
