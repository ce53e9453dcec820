--------------------------- MODULE DemandManager ---------------------------
(***************************************************************************)
(* internal/manager: the on-demand life cycle of ffmpeg supervisors.       *)
(*                                                                         *)
(* MediaMTX runs one helper per path with readers; each helper holds one   *)
(* lease.  Handlers of /acquire, /release and the management API run in    *)
(* goroutines of their own and interleave wherever Manager.mu is not held; *)
(* a critical section, and a single SQL statement, is one action.  A       *)
(* handler that must wait is a record in "calls".  A supervisor goroutine  *)
(* (launchLocked) is an element of Entries.                                *)
(***************************************************************************)
EXTENDS FiniteSets

CONSTANTS Streams,       \* names of stored streams
          Random,        \* the reserved path "random"
          Leases,        \* leases, one per helper process
          LeasePath,     \* the path a helper serves (its MTX_PATH)
          Calls,         \* goroutines of handlers that may be waiting at once
          Entries,       \* supervisors that may exist at once
          Vod,           \* streams whose source must be downloaded first
          Unresolvable,  \* stored streams whose provider is not registered
          None

Paths == Streams \cup {Random}

ASSUME RandomIsReserved == Random \notin Streams
ASSUME HelpersServePaths == LeasePath \in [Leases -> Paths]
ASSUME NoneIsNothing == None \notin Entries \cup Paths \cup Leases
ASSUME StreamKinds ==
    Vod \subseteq Streams /\ Unresolvable \subseteq Streams \ Vod

VARIABLES
    store,      \* desired_state of every row, or "absent"
    handles,    \* Manager.handles: the supervisor registered for a path
    demands,    \* Manager.demands: the leases held on a path
    lapsed,     \* those of them with no heartbeat for demandLeaseTTL
    phase,      \* a supervisor: "running" in Handle.Run, "returned" from it,
                \* "done" once its done channel is closed (or never launched)
    cancelled,  \* supervisors whose context is cancelled
    publishes,  \* the path a supervisor publishes on
    source,     \* the stream it reads
    calls,      \* handlers in flight
    expired,    \* leaseLoop: supervisors withdrawn, not yet cancelled
    sweeping    \* leaseLoop: the supervisor whose end it waits for

requests == <<store, calls>>
book == <<handles, demands, lapsed>>
supervisors == <<phase, cancelled, publishes, source>>
sweeper == <<expired, sweeping>>
vars == <<requests, book, supervisors, sweeper>>

Idle == [pc |-> "idle", path |-> None, lease |-> None,
         src |-> None, ent |-> None]

Init ==
    /\ store \in [Streams -> {"absent", "running", "stopped"}]
    /\ handles = [p \in Paths |-> None]
    /\ demands = [p \in Paths |-> {}]
    /\ lapsed = [p \in Paths |-> {}]
    /\ phase = [e \in Entries |-> "done"]
    /\ cancelled = {}
    /\ publishes = [e \in Entries |-> Random]
    /\ source = [e \in Entries |-> None]
    /\ calls = [c \in Calls |-> Idle]
    /\ expired = {}
    /\ sweeping = None

(***************************************************************************)
(* Helpers                                                                 *)
(***************************************************************************)

\* leases[lease] = time.Now(): recorded, or refreshed.
Record(p, l) ==
    /\ demands' = [demands EXCEPT ![p] = @ \cup {l}]
    /\ lapsed' = [lapsed EXCEPT ![p] = @ \ {l}]

\* Fault: stopEntry without its nil check.
FaultNoNilCheck(c, p) ==
    /\ handles' = [handles EXCEPT ![p] = None]
    /\ calls' = [calls EXCEPT ![c] =
           [Idle EXCEPT !.pc = "cancel", !.path = p, !.ent = handles[p]]]

\* Fault: takeEntryLocked without the delete.
FaultEntryLeftBehind(c, p) ==
    /\ UNCHANGED handles
    /\ calls' = [calls EXCEPT ![c] =
           IF handles[p] = None THEN Idle
           ELSE [Idle EXCEPT !.pc = "cancel", !.path = p, !.ent = handles[p]]]

\* takeEntryLocked, then stopEntry: the caller goes on to cancel the
\* supervisor it took, or is finished if there was none.
TakeEntry(c, p) ==
    /\ handles' = [handles EXCEPT ![p] = None]
    /\ calls' = [calls EXCEPT ![c] =
           IF handles[p] = None THEN Idle
           ELSE [Idle EXCEPT !.pc = "cancel", !.path = p, !.ent = handles[p]]]

\* An entry struct that nothing refers to any more.
Unreferenced(e) ==
    /\ phase[e] = "done"
    /\ e \notin expired \cup {sweeping}
    /\ \A c \in Calls: calls[c].ent # e

Enabled == {s \in Streams: store[s] = "running"}

\* resolveDemandSource: the stored stream of that name if it is enabled; for
\* the random path any enabled stream.
Candidates(p) == IF p = Random THEN Enabled ELSE Enabled \cap {p}

(***************************************************************************)
(* Management API                                                          *)
(***************************************************************************)

\* createStream: a row is created enabled; the provider is validated.
CreateStream(s) ==
    /\ store[s] = "absent" /\ s \notin Unresolvable
    /\ store' = [store EXCEPT ![s] = "running"]
    /\ UNCHANGED <<calls, book, supervisors, sweeper>>

\* Enable: SetDesired only; it starts nothing.
EnableStream(s) ==
    /\ store[s] = "stopped"
    /\ store' = [store EXCEPT ![s] = "running"]
    /\ UNCHANGED <<calls, book, supervisors, sweeper>>

\* EnsureStopped and Delete first write the store; the rest follows once
\* cancelPreparation has returned.
Withdraw(c, s, desired) ==
    /\ calls[c] = Idle /\ store[s] # "absent"
    /\ store' = [store EXCEPT ![s] = desired]
    /\ calls' = [calls EXCEPT ![c] = [Idle EXCEPT !.pc = "drop", !.path = s]]
    /\ UNCHANGED <<book, supervisors, sweeper>>

EnsureStopped(c, s) == Withdraw(c, s, "stopped")

Delete(c, s) == Withdraw(c, s, "absent")

\* stopAndClearDemand, up to the unlock.
ClearDemand(c) ==
    LET p == calls[c].path IN
    /\ calls[c].pc = "drop"
    /\ demands' = [demands EXCEPT ![p] = {}]
    /\ lapsed' = [lapsed EXCEPT ![p] = {}]
    /\ TakeEntry(c, p)
    /\ UNCHANGED <<store, supervisors, sweeper>>

\* Fault: stopEntry waits for an exit it has not asked for.
FaultWaitOnly(c) ==
    /\ calls[c].pc = "cancel"
    /\ calls' = [calls EXCEPT ![c].pc = "await"]
    /\ UNCHANGED <<store, book, supervisors, sweeper>>

\* stopEntry: e.cancel(), then <-e.done.
CancelEntry(c) ==
    /\ calls[c].pc = "cancel"
    /\ cancelled' = cancelled \cup {calls[c].ent}
    /\ calls' = [calls EXCEPT ![c].pc = "await"]
    /\ UNCHANGED <<store, book, phase, publishes, source, sweeper>>

AwaitDone(c) ==
    /\ calls[c].pc = "await"
    /\ phase[calls[c].ent] = "done"
    /\ calls' = [calls EXCEPT ![c] = Idle]
    /\ UNCHANGED <<store, book, supervisors, sweeper>>

(***************************************************************************)
(* Demand: AcquireDemand and ReleaseDemand                                 *)
(***************************************************************************)

\* The locked fast path: a registered supervisor only needs the lease.
AcquireHeld(l) ==
    /\ handles[LeasePath[l]] # None
    /\ Record(LeasePath[l], l)
    /\ UNCHANGED <<requests, handles, supervisors, sweeper>>

AcquireMiss(c, l) ==
    /\ calls[c] = Idle /\ handles[LeasePath[l]] = None
    /\ calls' = [calls EXCEPT ![c] =
           [Idle EXCEPT !.pc = "resolve", !.path = LeasePath[l], !.lease = l]]
    /\ UNCHANGED <<store, book, supervisors, sweeper>>

\* The store is read with no lock held.  Nothing to publish: not found,
\* disabled, or no enabled stream.
ResolveSource(c) ==
    LET found == Candidates(calls[c].path) IN
    /\ calls[c].pc = "resolve"
    /\ \/ /\ found = {}
          /\ calls' = [calls EXCEPT ![c] = Idle]
       \/ \E s \in found:
            calls' = [calls EXCEPT
                ![c].pc = IF s \in Vod THEN "prepare" ELSE "register",
                ![c].src = s]
    /\ UNCHANGED <<store, book, supervisors, sweeper>>

\* The download is "ready" or the call ends with ErrPreparing.
CheckPreparation(c) ==
    /\ calls[c].pc = "prepare"
    /\ \/ calls' = [calls EXCEPT ![c].pc = "register"]
       \/ calls' = [calls EXCEPT ![c] = Idle]
    /\ UNCHANGED <<store, book, supervisors, sweeper>>

\* Second critical section: another call registered a supervisor meanwhile.
JoinRegistered(c) ==
    /\ calls[c].pc = "register" /\ handles[calls[c].path] # None
    /\ Record(calls[c].path, calls[c].lease)
    /\ calls' = [calls EXCEPT ![c] = Idle]
    /\ UNCHANGED <<store, handles, supervisors, sweeper>>

\* Fault: the lease of a failed activation is kept.
FaultNoRollBack(c) ==
    /\ calls[c].pc = "register" /\ handles[calls[c].path] = None
    /\ calls[c].src \in Unresolvable
    /\ Record(calls[c].path, calls[c].lease)
    /\ calls' = [calls EXCEPT ![c] = Idle]
    /\ UNCHANGED <<store, handles, supervisors, sweeper>>

\* Second critical section: newEntryAs fails and the lease is taken back.
RollBack(c) ==
    LET p == calls[c].path IN
    /\ calls[c].pc = "register" /\ handles[p] = None
    /\ calls[c].src \in Unresolvable
    /\ demands' = [demands EXCEPT ![p] = @ \ {calls[c].lease}]
    /\ lapsed' = [lapsed EXCEPT ![p] = @ \ {calls[c].lease}]
    /\ calls' = [calls EXCEPT ![c] = Idle]
    /\ UNCHANGED <<store, handles, supervisors, sweeper>>

\* Fault: the second critical section does not look at handles again.
FaultNoSecondLook(c, e) ==
    LET p == calls[c].path IN
    /\ calls[c].pc = "register" /\ calls[c].src \notin Unresolvable
    /\ Unreferenced(e)
    /\ Record(p, calls[c].lease)
    /\ handles' = [handles EXCEPT ![p] = e]
    /\ phase' = [phase EXCEPT ![e] = "running"]
    /\ cancelled' = cancelled \ {e}
    /\ publishes' = [publishes EXCEPT ![e] = p]
    /\ source' = [source EXCEPT ![e] = calls[c].src]
    /\ calls' = [calls EXCEPT ![c] = Idle]
    /\ UNCHANGED <<store, sweeper>>

\* Second critical section: newEntryAs and launchLocked.
Launch(c, e) ==
    LET p == calls[c].path IN
    /\ calls[c].pc = "register" /\ handles[p] = None
    /\ calls[c].src \notin Unresolvable
    /\ Unreferenced(e)
    /\ Record(p, calls[c].lease)
    /\ handles' = [handles EXCEPT ![p] = e]
    /\ phase' = [phase EXCEPT ![e] = "running"]
    /\ cancelled' = cancelled \ {e}
    /\ publishes' = [publishes EXCEPT ![e] = p]
    /\ source' = [source EXCEPT ![e] = calls[c].src]
    /\ calls' = [calls EXCEPT ![c] = Idle]
    /\ UNCHANGED <<store, sweeper>>

\* Fault: a release never looks whether it was the last one.
FaultLastStays(l) ==
    /\ demands' = [demands EXCEPT ![LeasePath[l]] = @ \ {l}]
    /\ lapsed' = [lapsed EXCEPT ![LeasePath[l]] = @ \ {l}]
    /\ UNCHANGED <<requests, handles, supervisors, sweeper>>

\* ReleaseDemand while others still hold leases on the path.
ReleaseOne(l) ==
    LET p == LeasePath[l] IN
    /\ demands[p] \ {l} # {}
    /\ demands' = [demands EXCEPT ![p] = @ \ {l}]
    /\ lapsed' = [lapsed EXCEPT ![p] = @ \ {l}]
    /\ UNCHANGED <<requests, handles, supervisors, sweeper>>

\* The last release takes the supervisor down with it.
ReleaseLast(c, l) ==
    LET p == LeasePath[l] IN
    /\ calls[c] = Idle /\ demands[p] = {l}
    /\ demands' = [demands EXCEPT ![p] = {}]
    /\ lapsed' = [lapsed EXCEPT ![p] = {}]
    /\ TakeEntry(c, p)
    /\ UNCHANGED <<store, supervisors, sweeper>>

(***************************************************************************)
(* leaseLoop                                                               *)
(***************************************************************************)

\* demandLeaseTTL passes without a heartbeat of this lease.
Lapse(p, l) ==
    /\ l \in demands[p] \ lapsed[p]
    /\ lapsed' = [lapsed EXCEPT ![p] = @ \cup {l}]
    /\ UNCHANGED <<requests, handles, demands, supervisors, sweeper>>

\* Fault: one silent helper is enough to take the path down.
FaultAnyLapse(p) == lapsed[p] # {}

\* All leases of the path have lapsed.
Deserted(p) == lapsed[p] # {} /\ demands[p] \subseteq lapsed[p]

\* expireDemandLeases: all paths in one critical section.
Sweep ==
    /\ expired = {} /\ sweeping = None
    /\ \E p \in Paths: lapsed[p] # {}
    /\ demands' = [p \in Paths |-> demands[p] \ lapsed[p]]
    /\ lapsed' = [p \in Paths |-> {}]
    /\ handles' = [p \in Paths |-> IF Deserted(p) THEN None ELSE handles[p]]
    /\ expired' = {handles[p]: p \in {q \in Paths: Deserted(q)}} \ {None}
    /\ UNCHANGED <<requests, supervisors, sweeping>>

\* Fault: the sweep waits for an exit it has not asked for.
FaultSweepWaits(e) ==
    /\ sweeping = None /\ e \in expired
    /\ expired' = expired \ {e}
    /\ sweeping' = e
    /\ UNCHANGED <<requests, book, supervisors>>

\* Then stopEntry of one after the other.
SweepCancel(e) ==
    /\ sweeping = None /\ e \in expired
    /\ cancelled' = cancelled \cup {e}
    /\ expired' = expired \ {e}
    /\ sweeping' = e
    /\ UNCHANGED <<requests, book, phase, publishes, source>>

SweepAwait ==
    /\ sweeping # None
    /\ phase[sweeping] = "done"
    /\ sweeping' = None
    /\ UNCHANGED <<requests, book, supervisors, expired>>

(***************************************************************************)
(* Supervisor goroutines                                                   *)
(***************************************************************************)

\* Handle.Run returns: because it is cancelled, or of itself (source over,
\* retries exhausted).
RunReturns(e) ==
    /\ phase[e] = "running"
    /\ phase' = [phase EXCEPT ![e] = "returned"]
    /\ UNCHANGED <<requests, book, cancelled, publishes, source, sweeper>>

\* Fault: whatever is registered for the path is struck off.
FaultForgetAny(e) == [handles EXCEPT ![publishes[e]] = None]

\* handles[p] after supervisor e is struck off: only if it is still the one
\* registered.
Forget(e) ==
    [p \in Paths |-> IF p = publishes[e] /\ handles[p] = e
                     THEN None ELSE handles[p]]

\* Fault: done is closed only by a supervisor that was still registered.
FaultCloseIfRegistered(e) ==
    /\ phase[e] = "returned" /\ handles[publishes[e]] = e
    /\ handles' = Forget(e)
    /\ phase' = [phase EXCEPT ![e] = "done"]
    /\ UNCHANGED <<requests, demands, lapsed, cancelled, publishes, source,
                   sweeper>>

\* The rest of launchLocked's goroutine, up to close(e.done).
Reap(e) ==
    /\ phase[e] = "returned"
    /\ handles' = Forget(e)
    /\ phase' = [phase EXCEPT ![e] = "done"]
    /\ UNCHANGED <<requests, demands, lapsed, cancelled, publishes, source,
                   sweeper>>

\* The container restarts: only the database survives.
Restart ==
    /\ handles' = [p \in Paths |-> None]
    /\ demands' = [p \in Paths |-> {}]
    /\ lapsed' = [p \in Paths |-> {}]
    /\ phase' = [e \in Entries |-> "done"]
    /\ cancelled' = {}
    /\ calls' = [c \in Calls |-> Idle]
    /\ expired' = {}
    /\ sweeping' = None
    /\ UNCHANGED <<store, publishes, source>>

-----------------------------------------------------------------------------

\* The steps a handler takes once its request is accepted.
CallStep(c) ==
    \/ ClearDemand(c) \/ CancelEntry(c) \/ AwaitDone(c)
    \/ ResolveSource(c) \/ CheckPreparation(c)
    \/ JoinRegistered(c) \/ RollBack(c) \/ \E e \in Entries: Launch(c, e)

Request ==
    \/ \E s \in Streams: CreateStream(s) \/ EnableStream(s)
    \/ \E c \in Calls, s \in Streams: EnsureStopped(c, s) \/ Delete(c, s)
    \/ \E l \in Leases: AcquireHeld(l) \/ ReleaseOne(l)
    \/ \E c \in Calls, l \in Leases: AcquireMiss(c, l) \/ ReleaseLast(c, l)

LeaseLoop == Sweep \/ SweepAwait \/ \E e \in Entries: SweepCancel(e)

Next ==
    \/ Request
    \/ \E c \in Calls: CallStep(c)
    \/ LeaseLoop
    \/ \E p \in Paths, l \in Leases: Lapse(p, l)
    \/ \E e \in Entries: RunReturns(e) \/ Reap(e)
    \/ Restart

\* Goroutines are scheduled; a cancelled Run returns (SIGTERM, then SIGKILL
\* after waitDelay).  Nothing forces requests, time or the source to act.
\* Launch is strong because Entries is finite: the code never waits for an
\* entry struct, so here it must not be passed over for ever for want of one.
Fairness ==
    /\ \A c \in Calls: WF_vars(CallStep(c))
    /\ \A c \in Calls: SF_vars(\E e \in Entries: Launch(c, e))
    /\ WF_vars(LeaseLoop)
    /\ \A e \in Entries: WF_vars(e \in cancelled /\ RunReturns(e))
    /\ \A e \in Entries: WF_vars(Reap(e))

Spec == Init /\ [][Next]_vars

FairSpec == Spec /\ Fairness

-----------------------------------------------------------------------------

CallRecords ==
    [pc: {"idle", "drop", "cancel", "await", "resolve", "prepare", "register"},
     path: Paths \cup {None}, lease: Leases \cup {None},
     src: Streams \cup {None}, ent: Entries \cup {None}]

\* Type invariant; every call that works on a path knows it.
TypeOK ==
    /\ store \in [Streams -> {"absent", "running", "stopped"}]
    /\ handles \in [Paths -> Entries \cup {None}]
    /\ demands \in [Paths -> SUBSET Leases]
    /\ lapsed \in [Paths -> SUBSET Leases]
    /\ phase \in [Entries -> {"done", "running", "returned"}]
    /\ cancelled \subseteq Entries
    /\ publishes \in [Entries -> Paths]
    /\ source \in [Entries -> Streams \cup {None}]
    /\ calls \in [Calls -> CallRecords]
    /\ expired \subseteq Entries
    /\ sweeping \in Entries \cup {None}

\* A supervisor is registered only for a path somebody holds a lease on
\* (AcquireDemand records before it registers; ReleaseDemand, the sweep and
\* stopAndClearDemand take both away in one critical section).
HandleHasDemand == \A p \in Paths: handles[p] # None => demands[p] # {}

\* Someone is about to cancel this supervisor.
Doomed(e) ==
    \/ e \in cancelled \cup expired
    \/ \E c \in Calls: calls[c].pc = "cancel" /\ calls[c].ent = e

\* No ffmpeg is out of reach: a running supervisor is the one registered for
\* its path, or its cancellation is already on the way.  A late exit of an
\* old supervisor must not strike off its successor (launchLocked).
NoStraySupervisor ==
    \A e \in Entries:
        phase[e] = "running" => handles[publishes[e]] = e \/ Doomed(e)

\* The registered supervisor of a path has not been cancelled by anybody: a
\* reader that joins on the fast path never joins a publisher being stopped.
RegisteredIsNotDoomed ==
    \A p \in Paths: handles[p] # None =>
        /\ publishes[handles[p]] = p
        /\ ~Doomed(handles[p])

\* As long as a path is registered it is the same supervisor that publishes
\* there, and it reads the same source: no acquire, late exit or restart of an
\* entry changes the picture under the readers (manager.go:176-178).
PublisherIsKept ==
    [][\A p \in Paths: handles[p] # None /\ handles'[p] # None =>
           /\ handles'[p] = handles[p]
           /\ UNCHANGED <<publishes[handles[p]], source[handles[p]]>>]_vars

\* A stream that is not enabled is up, and no stop or delete has yet to look.
UpWhileStopped(s) ==
    /\ store[s] # "running" /\ handles[s] # None
    /\ \A c \in Calls: ~(calls[c].pc = "drop" /\ calls[c].path = s)

\* Only an acquire of that path that had read the row before it was disabled
\* can bring a stopped stream up behind EnsureStopped's back: neither a
\* heartbeat, another path's reader, the sweep nor another stop can
\* (manager.go:141-142; StoppedIsDown tells what that acquire does).
OnlyLateAcquireRevives ==
    [][\A s \in Streams: ~UpWhileStopped(s) /\ UpWhileStopped(s)' =>
           \E c \in Calls:
               /\ calls[c].pc = "register" /\ calls'[c] = Idle
               /\ calls[c].path = s /\ calls[c].src = s
               /\ source'[handles'[s]] = s /\ UNCHANGED store]_vars

\* What is promised of a path, whatever handlers interleave.
Contract == INSTANCE DemandContract WITH
    wanted <- demands,
    up <- [p \in Paths |-> handles[p] # None]

\* Every step of the manager is a step of the contract: no reader loses its
\* publisher because another one left, fell silent or was stopped late.
KeepsContract == Contract!Spec

\* Every handler returns, whatever else is going on: neither a stop nor a
\* last release hangs on a done channel.
CallsReturn ==
    \A c \in Calls: (calls[c].pc # "idle") ~> (calls[c].pc = "idle")

\* A supervisor withdrawn from its path comes to its end, even when the
\* lease loop has others to wait for first.
WithdrawnIsStopped ==
    \A e \in Entries:
        (phase[e] = "running" /\ handles[publishes[e]] # e)
            ~> (phase[e] = "done")

\* A lease whose helper is gone does not keep its stream going for ever: it
\* is swept unless the helper is heard of again.
LapsedLeaseIsSwept ==
    \A p \in Paths, l \in Leases: (l \in lapsed[p]) ~> (l \notin lapsed[p])

\* At most one ffmpeg publishes on a path (README: one process per stream).
OneFfmpegPerPath ==
    \A e, f \in Entries:
        phase[e] = "running" /\ phase[f] = "running"
            /\ publishes[e] = publishes[f] => e = f

\* Once every handler has returned, a stream that is not enabled has no
\* supervisor: EnsureStopped stops it even if a reader holds a lease.
StoppedIsDown ==
    (\A c \in Calls: calls[c] = Idle) =>
        \A s \in Streams: store[s] # "running" => handles[s] = None
=============================================================================
