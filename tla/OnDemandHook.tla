---------------------------- MODULE OnDemandHook ----------------------------
(***************************************************************************)
(* internal/ondemand: the helper MediaMTX runs while a path has readers,   *)
(* over a network that loses and delays, against the backend.  Time passes *)
(* in seconds (Tick) and no timer of the helper is late.                   *)
(*                                                                         *)
(* The backend is DemandContract, which DemandManager implements: its      *)
(* answers to /acquire and /release are steps of that contract.            *)
(***************************************************************************)
EXTENDS Naturals, FiniteSets

CONSTANTS path, lease,  \* MTX_PATH, and the lease the helper made up
          Retry,        \* retryInterval
          Heartbeat,    \* heartbeatInterval
          Timeout,      \* of a request, and of the release
          TTL           \* demandLeaseTTL

ASSUME TimesArePositive ==
    {Retry, Heartbeat, Timeout, TTL} \subseteq Nat \ {0}
ASSUME BeatsDoNotOverlap == Timeout < Heartbeat
ASSUME ThreeBeatsMayFail == 2 * Timeout + 3 * Heartbeat < TTL
ASSUME RetriesAreQuicker == Retry + Timeout < Heartbeat

VARIABLES
    wanted, up, \* of the backend (DemandContract)
    row,        \* the stream in the store
    age,        \* seconds since the lease was recorded or refreshed, up to TTL
    pc,         \* the helper: "acquire", "retry", "ticking", "beat",
                \* "release", "gone"
    clock,      \* seconds in the first request, the sleep, the release, or
                \* since the last tick of the ticker
    reply,      \* to its request: "pending", "ok", "retry", "terminal"
    late,       \* requests it gave up that the backend may still serve
    missed,     \* requests in a row without success, up to 3
    left,       \* it was signalled or killed
    denied      \* it was told 404 or 409

Backend == INSTANCE DemandContract WITH Paths <- {path}, Leases <- {lease}

backend == <<wanted, up, age>>
helper == <<pc, clock, reply, late, missed>>
history == <<left, denied>>
vars == <<backend, row, helper, history>>

Init ==
    /\ Backend!Init
    /\ row \in {"enabled", "disabled", "absent"}
    /\ age = 0
    /\ pc = "acquire" /\ clock = 0 /\ reply = "pending"
    /\ late = {} /\ missed = 0
    /\ left = FALSE /\ denied = FALSE

Held == wanted[path] # {}

Acquiring == pc \in {"acquire", "beat"}

Living == pc \notin {"release", "gone"}

(***************************************************************************)
(* The backend                                                             *)
(***************************************************************************)

\* Fault: AcquireDemand's fast path does not refresh the heartbeat.
FaultNoRefresh ==
    /\ Backend!Join(path, lease)
    /\ up[path] \/ row = "enabled"
    /\ age' = IF Held THEN age ELSE 0

\* AcquireDemand succeeds: a supervisor is there, or is launched.  (The row may
\* change after it has been read: DemandManager has that.)
Recorded ==
    /\ Backend!Join(path, lease)
    /\ up[path] \/ row = "enabled"
    /\ age' = 0

\* The lease is released; an unknown one changes nothing.
Released ==
    /\ IF Held THEN Backend!Leave([p \in {path} |-> {lease}])
               ELSE UNCHANGED <<wanted, up>>
    /\ UNCHANGED age

\* 204
Accept ==
    /\ Acquiring /\ reply = "pending"
    /\ Recorded
    /\ reply' = "ok"
    /\ UNCHANGED <<row, pc, clock, late, missed, history>>

\* 404 and 409: the path is down, the row absent or disabled.  (A name that
\* cannot be stored gets 400, which is to the helper what 404 is.)
Deny ==
    /\ Acquiring /\ reply = "pending" /\ ~up[path] /\ row # "enabled"
    /\ reply' = "terminal" /\ denied' = TRUE
    /\ UNCHANGED <<backend, row, pc, clock, late, missed, left>>

\* 425 while a source is prepared; 500, after which the lease is not kept if
\* it is newEntryAs that failed.
PutOff ==
    /\ Acquiring /\ reply = "pending" /\ ~up[path]
    /\ Backend!Refuse(path, lease) \/ UNCHANGED <<wanted, up>>
    /\ reply' = "retry"
    /\ UNCHANGED <<age, row, pc, clock, late, missed, history>>

AcceptRelease ==
    /\ pc = "release" /\ reply = "pending"
    /\ Released
    /\ reply' = "ok"
    /\ UNCHANGED <<row, pc, clock, late, missed, history>>

\* A request its sender no longer waits for is served, or is lost.
ServeLate(r) ==
    /\ r \in late
    /\ late' = late \ {r}
    /\ \/ r = "acquire" /\ Recorded
       \/ r = "acquire" /\ Backend!Refuse(path, lease) /\ UNCHANGED age
       \/ r = "release" /\ Released
       \/ UNCHANGED backend
    /\ UNCHANGED <<row, pc, clock, reply, missed, history>>

\* Fault: the sweep skips a path that is playing.
FaultSweepIdle ==
    /\ Held /\ age >= TTL /\ ~up[path]
    /\ Backend!Leave(wanted)
    /\ UNCHANGED <<age, row, helper, history>>

\* expireDemandLeases, however late: the lease loop waits for the supervisors
\* it stops.
Sweep ==
    /\ Held /\ age >= TTL
    /\ Backend!Leave(wanted)
    /\ UNCHANGED <<age, row, helper, history>>

\* The management API, the end of the source, a restart of the container.
Administer ==
    /\ \/ row' \in {"enabled", "disabled", "absent"} /\ UNCHANGED <<wanted, up>>
       \/ Backend!Evict(path) /\ UNCHANGED row
       \/ Backend!SourceOver(path) /\ UNCHANGED row
       \/ Backend!Crash /\ UNCHANGED row
    /\ UNCHANGED <<age, helper, history>>

(***************************************************************************)
(* The helper: Run                                                         *)
(***************************************************************************)

\* It stops waiting for its request, which may still reach the backend.
Abandon ==
    \/ late' = late
    \/ reply = "pending" /\ Acquiring /\ late' = late \cup {"acquire"}
    \/ reply = "pending" /\ pc = "release" /\ late' = late \cup {"release"}

\* The deferred release.
Leave ==
    /\ pc' = "release" /\ clock' = 0 /\ reply' = "pending"
    /\ UNCHANGED missed

Success ==
    /\ Acquiring /\ reply = "ok"
    /\ pc' = "ticking" /\ clock' = IF pc = "acquire" THEN 0 ELSE clock
    /\ missed' = 0
    /\ UNCHANGED <<backend, row, reply, late, history>>

Terminal ==
    /\ Acquiring /\ reply = "terminal"
    /\ Leave
    /\ UNCHANGED <<backend, row, late, history>>

\* Fault: every error ends the helper.
FaultAnyErrorIsTerminal ==
    /\ Acquiring
    /\ Abandon /\ Leave
    /\ UNCHANGED <<backend, row, history>>

\* Fault: the sleep before a retry counts from the request.
FaultClockKept ==
    /\ Acquiring /\ reply # "terminal"
    /\ Abandon
    /\ pc' = IF pc = "acquire" THEN "retry" ELSE "ticking"
    /\ missed' = IF missed = 3 THEN 3 ELSE missed + 1
    /\ UNCHANGED <<backend, row, clock, reply, history>>

\* 425, 500, a refused or broken connection, or (at Timeout) no answer.  The
\* first acquire is retried, a heartbeat waits for the next tick.
Failure ==
    /\ Acquiring /\ reply # "terminal"
    /\ Abandon
    /\ IF pc = "acquire" THEN pc' = "retry" /\ clock' = 0
                         ELSE pc' = "ticking" /\ UNCHANGED clock
    /\ missed' = IF missed = 3 THEN 3 ELSE missed + 1
    /\ UNCHANGED <<backend, row, reply, history>>

TryAgain ==
    /\ pc = "retry" /\ clock = Retry
    /\ pc' = "acquire" /\ clock' = 0 /\ reply' = "pending"
    /\ UNCHANGED <<backend, row, late, missed, history>>

Beat ==
    /\ pc = "ticking" /\ clock = Heartbeat
    /\ pc' = "beat" /\ clock' = 0 /\ reply' = "pending"
    /\ UNCHANGED <<backend, row, late, missed, history>>

\* MediaMTX signals it: the context ends its request or its sleep.
Signal ==
    /\ Living
    /\ Abandon /\ Leave
    /\ left' = TRUE
    /\ UNCHANGED <<backend, row, denied>>

\* The release is answered, fails, or runs into its own timeout.
Gone ==
    /\ pc = "release"
    /\ Abandon
    /\ pc' = "gone" /\ clock' = 0
    /\ UNCHANGED <<backend, row, reply, missed, history>>

\* It ends abruptly, with no release.
Killed ==
    /\ pc # "gone"
    /\ Abandon
    /\ pc' = "gone" /\ clock' = 0 /\ left' = TRUE
    /\ UNCHANGED <<backend, row, reply, missed, denied>>

-----------------------------------------------------------------------------

\* Where each timer of the helper ends.
Limit ==
    CASE pc = "retry" -> Retry
      [] pc = "ticking" -> Heartbeat
      [] pc = "gone" -> 0
      [] OTHER -> Timeout

\* A second passes, unless a timer is due.
Tick ==
    /\ pc # "gone" => clock < Limit
    /\ clock' = IF pc = "gone" THEN clock ELSE clock + 1
    /\ age' = IF Held /\ age < TTL THEN age + 1 ELSE age
    /\ UNCHANGED <<wanted, up, row, pc, reply, late, missed, history>>

Serve == Accept \/ Deny \/ PutOff \/ AcceptRelease
            \/ \E r \in {"acquire", "release"}: ServeLate(r)

Run == Success \/ Terminal \/ Failure \/ TryAgain \/ Beat \/ Gone

Next == Serve \/ Sweep \/ Administer \/ Run \/ Signal \/ Killed \/ Tick

\* Time passes, the helper and the lease loop run.  A backend asked again and
\* again answers some day (the fairness is strong because a request does not
\* wait for the answer); nothing forces it to serve what was abandoned.
Fairness ==
    /\ WF_vars(Tick) /\ WF_vars(Sweep)
    /\ WF_vars(Success) /\ WF_vars(Terminal) /\ WF_vars(TryAgain)
    /\ WF_vars(Beat) /\ WF_vars(Gone)
    /\ WF_vars(Failure /\ (reply = "retry" \/ clock = Timeout))
    /\ SF_vars(Accept) /\ SF_vars(Deny)

Spec == Init /\ [][Next]_vars

FairSpec == Spec /\ Fairness

-----------------------------------------------------------------------------

\* Type invariant; no timer runs past its end.
TypeOK ==
    /\ wanted \in [{path} -> SUBSET {lease}]
    /\ up \in [{path} -> BOOLEAN]
    /\ row \in {"enabled", "disabled", "absent"}
    /\ age \in 0 .. TTL
    /\ pc \in {"acquire", "retry", "ticking", "beat", "release", "gone"}
    /\ clock \in 0 .. Limit
    /\ reply \in {"pending", "ok", "retry", "terminal"}
    /\ late \subseteq {"acquire", "release"}
    /\ missed \in 0 .. 3
    /\ left \in BOOLEAN /\ denied \in BOOLEAN

\* A healthy helper's lease is never due for the sweep: heartbeatInterval,
\* the request timeout and demandLeaseTTL leave room for two lost heartbeats
\* in a row, whatever the first acquire and the answers' delays were.
LiveLeaseIsFresh == Living /\ Held /\ age >= TTL => missed = 3

\* Nothing is left behind by a helper that is gone: its release may be lost
\* or overtaken by its own acquire, the lease is dropped all the same.
GoneIsForgotten == <>(pc = "gone") => <>[](~Held)

\* A path that goes down under its readers (its source ended, the backend
\* restarted, the lease was swept) comes up again by a heartbeat, unless the
\* helper has left or was told that the stream is not there for it.
ReadersAreServed ==
    (Living /\ ~up[path]) ~> (up[path] \/ left \/ denied)
=============================================================================
