------------------------ MODULE DemandManagerProofs ------------------------
(***************************************************************************)
(* Proofs about DemandManager, for every set of streams, leases, calls and *)
(* supervisors.  The invariants are proved from IInv, which adds to them   *)
(* what a registered supervisor and a call in flight may look like.        *)
(***************************************************************************)
EXTENDS DemandManager, TLAPS

\* A call knows its path, and the supervisor it is stopping.
Knows(r) ==
    /\ r.pc # "idle" => r.path \in Paths
    /\ r.pc \in {"resolve", "prepare", "register"} => r.lease \in Leases
    /\ r.pc \in {"prepare", "register"} => r.src \in Streams
    /\ r.pc \in {"cancel", "await"} <=> r.ent # None

CallsKnow == \A c \in Calls: Knows(calls[c])

\* A registered supervisor publishes on its path, is alive, and nobody who
\* stops supervisors refers to it.
RegisteredIsFree ==
    \A p \in Paths: handles[p] # None =>
        /\ publishes[handles[p]] = p
        /\ phase[handles[p]] # "done"
        /\ handles[p] \notin cancelled \cup expired \cup {sweeping}
        /\ \A c \in Calls: calls[c].ent # handles[p]

\* Only a recorded lease can lapse.
LapsedAreHeld == \A p \in Paths: lapsed[p] \subseteq demands[p]

IInv ==
    /\ TypeOK
    /\ CallsKnow
    /\ RegisteredIsFree
    /\ LapsedAreHeld
    /\ HandleHasDemand
    /\ NoStraySupervisor

\* The manager starts empty, whatever rows the database holds.
LEMMA InitInv == Init => IInv
  BY RandomIsReserved, NoneIsNothing
  DEF Init, IInv, TypeOK, CallRecords, Idle, CallsKnow, Knows,
      RegisteredIsFree, LapsedAreHeld, HandleHasDemand, NoStraySupervisor, Paths

\* The records a handler puts into "calls".
LEMMA CallRecordsAreClosed ==
    /\ Idle \in CallRecords
    /\ \A p \in Paths: [Idle EXCEPT !.pc = "drop", !.path = p] \in CallRecords
    /\ \A p \in Paths, e \in Entries:
          [Idle EXCEPT !.pc = "cancel", !.path = p, !.ent = e] \in CallRecords
    /\ \A p \in Paths, l \in Leases:
          [Idle EXCEPT !.pc = "resolve", !.path = p, !.lease = l]
              \in CallRecords
    /\ \A r \in CallRecords, pc \in {"await", "register", "prepare"}:
          [r EXCEPT !.pc = pc] \in CallRecords
    /\ \A r \in CallRecords, s \in Streams: [r EXCEPT !.src = s] \in CallRecords
  BY DEF CallRecords, Idle

\* Every step of the manager keeps the types.
LEMMA TypeStep == ASSUME TypeOK, CallsKnow, [Next]_vars PROVE TypeOK'
<1> USE RandomIsReserved, NoneIsNothing, HelpersServePaths, StreamKinds
    DEF TypeOK
<1>1. CASE UNCHANGED vars
  BY <1>1 DEF vars, requests, book, supervisors, sweeper
<1>2. ASSUME NEW s \in Streams, CreateStream(s) \/ EnableStream(s)
      PROVE TypeOK'
  BY <1>2 DEF CreateStream, EnableStream, book, supervisors, sweeper
<1>3. ASSUME NEW c \in Calls, NEW s \in Streams,
             NEW desired \in {"stopped", "absent"}, Withdraw(c, s, desired)
      PROVE TypeOK'
  <2>1. s \in Paths
    BY DEF Paths
  <2> QED
    BY <1>3, <2>1, CallRecordsAreClosed
    DEF Withdraw, book, supervisors, sweeper
<1>4. ASSUME NEW l \in Leases, AcquireHeld(l) \/ ReleaseOne(l)
      PROVE TypeOK'
  BY <1>4 DEF AcquireHeld, ReleaseOne, Record, requests, supervisors, sweeper
<1>5. ASSUME NEW c \in Calls, NEW l \in Leases, AcquireMiss(c, l)
      PROVE TypeOK'
  BY <1>5, CallRecordsAreClosed DEF AcquireMiss, book, supervisors, sweeper
<1>6. ASSUME NEW c \in Calls, NEW l \in Leases, ReleaseLast(c, l)
      PROVE TypeOK'
  BY <1>6, CallRecordsAreClosed DEF ReleaseLast, TakeEntry, supervisors, sweeper
<1>7. ASSUME NEW c \in Calls, ClearDemand(c)
      PROVE TypeOK'
  <2>1. calls[c].path \in Paths
    BY <1>7 DEF ClearDemand, CallsKnow, Knows
  <2> QED
    BY <1>7, <2>1, CallRecordsAreClosed
    DEF ClearDemand, TakeEntry, supervisors, sweeper
<1>8. ASSUME NEW c \in Calls, CancelEntry(c)
      PROVE TypeOK'
  <2>1. calls[c].ent \in Entries
    BY <1>8 DEF CancelEntry, CallsKnow, Knows, CallRecords
  <2> QED
    BY <1>8, <2>1, CallRecordsAreClosed DEF CancelEntry, book, sweeper
<1>9. ASSUME NEW c \in Calls, AwaitDone(c)
      PROVE TypeOK'
  BY <1>9, CallRecordsAreClosed DEF AwaitDone, book, supervisors, sweeper
<1>10. ASSUME NEW c \in Calls, ResolveSource(c)
       PROVE TypeOK'
  <2>1. calls' \in [Calls -> CallRecords]
    <3>1. CASE calls' = [calls EXCEPT ![c] = Idle]
      BY <3>1, CallRecordsAreClosed
    <3>2. ASSUME NEW s \in Streams,
                 calls' = [calls EXCEPT
                     ![c].pc = IF s \in Vod THEN "prepare" ELSE "register",
                     ![c].src = s]
          PROVE calls' \in [Calls -> CallRecords]
      <4> DEFINE pc == IF s \in Vod THEN "prepare" ELSE "register"
                 r == [calls[c] EXCEPT !.pc = pc]
      <4>1. r \in CallRecords
        BY CallRecordsAreClosed
      <4>2. [r EXCEPT !.src = s] \in CallRecords
        BY <4>1, CallRecordsAreClosed
      <4>3. calls' = [calls EXCEPT ![c] = [r EXCEPT !.src = s]]
        BY <3>2
      <4> QED BY <4>2, <4>3
    <3> QED BY <1>10, <3>1, <3>2 DEF ResolveSource, Candidates, Enabled
  <2> QED BY <1>10, <2>1 DEF ResolveSource, book, supervisors, sweeper
<1>11. ASSUME NEW c \in Calls, CheckPreparation(c)
       PROVE TypeOK'
  <2>1. calls[c] \in CallRecords
    OBVIOUS
  <2>2. [calls[c] EXCEPT !.pc = "register"] \in CallRecords
    BY <2>1, CallRecordsAreClosed
  <2>3. calls' \in [Calls -> CallRecords]
    BY <1>11, <2>2, CallRecordsAreClosed DEF CheckPreparation
  <2> QED BY <1>11, <2>3 DEF CheckPreparation, book, supervisors, sweeper
<1>12. ASSUME NEW c \in Calls, JoinRegistered(c) \/ RollBack(c)
       PROVE TypeOK'
  <2>1. calls[c].path \in Paths /\ calls[c].lease \in Leases
    BY <1>12 DEF JoinRegistered, RollBack, CallsKnow, Knows
  <2>2. CASE JoinRegistered(c)
    BY <2>1, <2>2, CallRecordsAreClosed
    DEF JoinRegistered, Record, supervisors, sweeper
  <2>3. CASE RollBack(c)
    BY <2>1, <2>3, CallRecordsAreClosed DEF RollBack, supervisors, sweeper
  <2> QED BY <1>12, <2>2, <2>3
<1>13. ASSUME NEW c \in Calls, NEW e \in Entries, Launch(c, e)
       PROVE TypeOK'
  <2>1. /\ calls[c].path \in Paths
        /\ calls[c].lease \in Leases
        /\ calls[c].src \in Streams
    BY <1>13 DEF Launch, CallsKnow, Knows
  <2> QED
    BY <1>13, <2>1, CallRecordsAreClosed DEF Launch, Record, sweeper
<1>14. CASE Sweep
  BY <1>14 DEF Sweep, requests, supervisors
<1>15. ASSUME NEW e \in Entries, SweepCancel(e)
       PROVE TypeOK'
  BY <1>15 DEF SweepCancel, requests, book
<1>16. CASE SweepAwait
  BY <1>16 DEF SweepAwait, requests, book, supervisors
<1>17. ASSUME NEW p \in Paths, NEW l \in Leases, Lapse(p, l)
       PROVE TypeOK'
  BY <1>17 DEF Lapse, requests, supervisors, sweeper
<1>18. ASSUME NEW e \in Entries, RunReturns(e) \/ Reap(e)
       PROVE TypeOK'
  BY <1>18 DEF RunReturns, Reap, Forget, requests, book, sweeper
<1>19. CASE Restart
  BY <1>19, CallRecordsAreClosed DEF Restart
<1> QED
  BY <1>1, <1>2, <1>3, <1>4, <1>5, <1>6, <1>7, <1>8, <1>9, <1>10, <1>11,
     <1>12, <1>13, <1>14, <1>15, <1>16, <1>17, <1>18, <1>19
  DEF Next, Request, CallStep, LeaseLoop, EnsureStopped, Delete

\* What a call knows is kept by the records handlers put into "calls".
LEMMA KnowledgeIsClosed ==
    /\ Knows(Idle)
    /\ \A p \in Paths: Knows([Idle EXCEPT !.pc = "drop", !.path = p])
    /\ \A p \in Paths, e \in Entries:
          Knows([Idle EXCEPT !.pc = "cancel", !.path = p, !.ent = e])
    /\ \A p \in Paths, l \in Leases:
          Knows([Idle EXCEPT !.pc = "resolve", !.path = p, !.lease = l])
    /\ \A r \in CallRecords: Knows(r) /\ r.pc = "cancel" =>
          Knows([r EXCEPT !.pc = "await"])
    /\ \A r \in CallRecords: Knows(r) /\ r.pc = "prepare" =>
          Knows([r EXCEPT !.pc = "register"])
    /\ \A r \in CallRecords, s \in Streams, pc \in {"prepare", "register"}:
          Knows(r) /\ r.pc = "resolve" =>
              Knows([r EXCEPT !.pc = pc, !.src = s])
  BY NoneIsNothing DEF Knows, Idle, CallRecords

\* Every step keeps what the calls in flight know.
LEMMA CallsStep == ASSUME TypeOK, CallsKnow, [Next]_vars PROVE CallsKnow'
<1> USE DEF CallsKnow
<1>1. ASSUME NEW c \in Calls, NEW r, Knows(r),
             calls' = [calls EXCEPT ![c] = r]
      PROVE CallsKnow'
  BY <1>1 DEF TypeOK, Knows
<1>2. CASE UNCHANGED calls
  BY <1>2 DEF Knows
<1>3. ASSUME NEW c \in Calls, NEW s \in Streams,
             NEW desired \in {"stopped", "absent"}, Withdraw(c, s, desired)
      PROVE CallsKnow'
  BY <1>1, <1>3, KnowledgeIsClosed DEF Withdraw, Paths
<1>4. ASSUME NEW c \in Calls, NEW l \in Leases, AcquireMiss(c, l)
      PROVE CallsKnow'
  BY <1>1, <1>4, KnowledgeIsClosed, HelpersServePaths DEF AcquireMiss
<1>5. ASSUME NEW c \in Calls, NEW p \in Paths, TakeEntry(c, p)
      PROVE CallsKnow'
  BY <1>1, <1>5, KnowledgeIsClosed DEF TakeEntry, TypeOK
<1>6. ASSUME NEW c \in Calls, NEW l \in Leases, ReleaseLast(c, l)
      PROVE CallsKnow'
  BY <1>5, <1>6, HelpersServePaths DEF ReleaseLast
<1>7. ASSUME NEW c \in Calls, ClearDemand(c)
      PROVE CallsKnow'
  BY <1>5, <1>7 DEF ClearDemand, Knows
<1>8. ASSUME NEW c \in Calls, CancelEntry(c)
      PROVE CallsKnow'
  <2>1. Knows([calls[c] EXCEPT !.pc = "await"])
    BY <1>8, KnowledgeIsClosed DEF CancelEntry, TypeOK
  <2> QED BY <1>1, <1>8, <2>1 DEF CancelEntry
<1>9. ASSUME NEW c \in Calls, calls' = [calls EXCEPT ![c] = Idle]
      PROVE CallsKnow'
  BY <1>1, <1>9, KnowledgeIsClosed
<1>10. ASSUME NEW c \in Calls, ResolveSource(c)
       PROVE CallsKnow'
  <2>1. ASSUME NEW s \in Streams,
               calls' = [calls EXCEPT
                   ![c].pc = IF s \in Vod THEN "prepare" ELSE "register",
                   ![c].src = s]
        PROVE CallsKnow'
    <3> DEFINE pc == IF s \in Vod THEN "prepare" ELSE "register"
               r == [calls[c] EXCEPT !.pc = pc, !.src = s]
    <3>1. Knows(r)
      BY <1>10, KnowledgeIsClosed DEF ResolveSource, TypeOK
    <3>2. calls' = [calls EXCEPT ![c] = r]
      BY <2>1
    <3> QED BY <1>1, <3>1, <3>2
  <2> QED BY <1>9, <1>10, <2>1 DEF ResolveSource, Candidates, Enabled
<1>11. ASSUME NEW c \in Calls, CheckPreparation(c)
       PROVE CallsKnow'
  <2>1. Knows([calls[c] EXCEPT !.pc = "register"])
    BY <1>11, KnowledgeIsClosed DEF CheckPreparation, TypeOK
  <2> QED BY <1>1, <1>9, <1>11, <2>1 DEF CheckPreparation
<1>12. CASE Restart
  BY <1>12, KnowledgeIsClosed DEF Restart, Knows
<1> QED
  BY <1>2, <1>3, <1>4, <1>6, <1>7, <1>8, <1>9, <1>10, <1>11, <1>12
  DEF Next, Request, CallStep, LeaseLoop, vars, requests, CreateStream,
      EnableStream, EnsureStopped, Delete, AcquireHeld, ReleaseOne, AwaitDone,
      JoinRegistered, RollBack, Launch, Sweep, SweepCancel, SweepAwait, Lapse,
      RunReturns, Reap

\* Leases and registered supervisors are taken away together.
LEMMA BookStep ==
    ASSUME TypeOK, CallsKnow, LapsedAreHeld, HandleHasDemand, [Next]_vars
    PROVE  LapsedAreHeld' /\ HandleHasDemand'
<1> USE RandomIsReserved, NoneIsNothing, HelpersServePaths
    DEF TypeOK, LapsedAreHeld, HandleHasDemand
<1> DEFINE Goal == LapsedAreHeld' /\ HandleHasDemand'
<1>1. CASE UNCHANGED book
  BY <1>1 DEF book
<1>2. ASSUME NEW p \in Paths, NEW l \in Leases, Record(p, l),
             \A q \in Paths: q # p => handles'[q] = handles[q]
      PROVE Goal
  BY <1>2 DEF Record
<1>3. ASSUME NEW l \in Leases, AcquireHeld(l)
      PROVE Goal
  BY <1>2, <1>3 DEF AcquireHeld
<1>4. ASSUME NEW l \in Leases, ReleaseOne(l)
      PROVE Goal
  BY <1>4 DEF ReleaseOne
<1>5. ASSUME NEW p \in Paths, NEW c \in Calls, TakeEntry(c, p),
             demands' = [demands EXCEPT ![p] = {}],
             lapsed' = [lapsed EXCEPT ![p] = {}]
      PROVE Goal
  BY <1>5 DEF TakeEntry
<1>6. ASSUME NEW c \in Calls, NEW l \in Leases, ReleaseLast(c, l)
      PROVE Goal
  BY <1>5, <1>6 DEF ReleaseLast
<1>7. ASSUME NEW c \in Calls, ClearDemand(c)
      PROVE Goal
  BY <1>5, <1>7 DEF ClearDemand, CallsKnow, Knows
<1>8. ASSUME NEW c \in Calls, JoinRegistered(c)
      PROVE Goal
  BY <1>2, <1>8 DEF JoinRegistered, CallsKnow, Knows
<1>9. ASSUME NEW c \in Calls, RollBack(c)
      PROVE Goal
  BY <1>9 DEF RollBack
<1>10. ASSUME NEW c \in Calls, NEW e \in Entries, Launch(c, e)
       PROVE Goal
  BY <1>2, <1>10 DEF Launch, CallsKnow, Knows
<1>11. CASE Sweep
  BY <1>11 DEF Sweep, Deserted
<1>12. ASSUME NEW p \in Paths, NEW l \in Leases, Lapse(p, l)
       PROVE Goal
  BY <1>12 DEF Lapse
<1>13. ASSUME NEW e \in Entries, Reap(e)
       PROVE Goal
  BY <1>13 DEF Reap, Forget
<1>14. CASE Restart
  BY <1>14 DEF Restart
<1> QED
  BY <1>1, <1>3, <1>4, <1>6, <1>7, <1>8, <1>9, <1>10, <1>11, <1>12, <1>13,
     <1>14
  DEF Next, Request, CallStep, LeaseLoop, vars, CreateStream, EnableStream,
      EnsureStopped, Delete, Withdraw, AcquireMiss, CancelEntry, AwaitDone,
      ResolveSource, CheckPreparation, SweepCancel, SweepAwait, RunReturns

\* Whoever takes a supervisor from "handles" becomes the only one to refer
\* to it, and will cancel it.
LEMMA SupervisorStep ==
    ASSUME IInv, [Next]_vars, TypeOK'
    PROVE  RegisteredIsFree' /\ NoStraySupervisor'
<1> USE RandomIsReserved, NoneIsNothing, HelpersServePaths
<1> DEFINE Goal == RegisteredIsFree' /\ NoStraySupervisor'
<1>0. TypeOK /\ CallsKnow
  BY DEF IInv
<1>1. CASE UNCHANGED <<handles, supervisors, calls, sweeper>>
  BY <1>1
  DEF IInv, TypeOK, RegisteredIsFree, NoStraySupervisor, Doomed,
      supervisors, sweeper
<1>2. ASSUME NEW c \in Calls, NEW r \in CallRecords, r.ent = None,
             calls' = [calls EXCEPT ![c] = r], calls[c].pc # "cancel",
             UNCHANGED <<handles, supervisors, sweeper>>
      PROVE Goal
  BY <1>2
  DEF IInv, TypeOK, RegisteredIsFree, NoStraySupervisor, Doomed,
      supervisors, sweeper
<1>3. ASSUME NEW c \in Calls, NEW p \in Paths, TakeEntry(c, p),
             calls[c].pc # "cancel", UNCHANGED <<supervisors, sweeper>>
      PROVE Goal
  BY <1>3
  DEF IInv, TypeOK, RegisteredIsFree, NoStraySupervisor, Doomed,
      TakeEntry, supervisors, sweeper, Idle
<1>4. ASSUME NEW c \in Calls, CancelEntry(c)
      PROVE Goal
  <2>1. /\ cancelled' = cancelled \cup {calls[c].ent}
        /\ \A d \in Calls: calls'[d].ent = calls[d].ent
        /\ \A d \in Calls: d # c => calls'[d] = calls[d]
        /\ UNCHANGED <<handles, phase, publishes, expired, sweeping>>
    BY <1>4 DEF CancelEntry, IInv, TypeOK, CallRecords, book, sweeper
  <2>2. RegisteredIsFree'
    BY <2>1 DEF IInv, TypeOK, RegisteredIsFree
  <2>3. NoStraySupervisor'
    BY <2>1 DEF IInv, TypeOK, NoStraySupervisor, Doomed
  <2> QED BY <2>2, <2>3
<1>5. ASSUME NEW c \in Calls, NEW e \in Entries, Launch(c, e)
      PROVE Goal
  BY <1>5
  DEF IInv, TypeOK, RegisteredIsFree, NoStraySupervisor, Doomed,
      Launch, Unreferenced, Record, CallsKnow, Knows, sweeper, Idle
<1>6. CASE Sweep
  BY <1>6
  DEF IInv, TypeOK, RegisteredIsFree, NoStraySupervisor, Doomed,
      Sweep, Deserted, requests, supervisors
<1>7. ASSUME NEW e \in Entries, SweepCancel(e)
      PROVE Goal
  BY <1>7
  DEF IInv, TypeOK, RegisteredIsFree, NoStraySupervisor, Doomed,
      SweepCancel, requests, book
<1>8. CASE SweepAwait
  BY <1>8
  DEF IInv, TypeOK, RegisteredIsFree, NoStraySupervisor, Doomed,
      SweepAwait, requests, book, supervisors
<1>9. ASSUME NEW e \in Entries, RunReturns(e)
      PROVE Goal
  BY <1>9
  DEF IInv, TypeOK, RegisteredIsFree, NoStraySupervisor, Doomed,
      RunReturns, requests, book, sweeper
<1>10. ASSUME NEW e \in Entries, Reap(e)
       PROVE Goal
  BY <1>10
  DEF IInv, TypeOK, RegisteredIsFree, NoStraySupervisor, Doomed,
      Reap, Forget, requests, sweeper
<1>11. CASE Restart
  BY <1>11
  DEF IInv, TypeOK, RegisteredIsFree, NoStraySupervisor, Doomed,
      Restart, Idle
<1>12. ASSUME NEW c \in Calls, NEW s \in Streams,
              NEW desired \in {"stopped", "absent"}, Withdraw(c, s, desired)
       PROVE Goal
  <2> DEFINE r == [Idle EXCEPT !.pc = "drop", !.path = s]
  <2>1. s \in Paths
    BY DEF Paths
  <2>2. r \in CallRecords
    BY <2>1, CallRecordsAreClosed
  <2>3. r.ent = None /\ calls[c].pc # "cancel"
    BY <1>12 DEF Withdraw, Idle
  <2>4. calls' = [calls EXCEPT ![c] = r]
    BY <1>12 DEF Withdraw
  <2>5. UNCHANGED <<handles, supervisors, sweeper>>
    BY <1>12 DEF Withdraw, book
  <2> HIDE DEF r, Goal
  <2> QED BY <1>2, <2>2, <2>3, <2>4, <2>5
<1>13. ASSUME NEW c \in Calls, NEW l \in Leases, AcquireMiss(c, l)
       PROVE Goal
  <2> DEFINE r == [Idle EXCEPT !.pc = "resolve", !.path = LeasePath[l],
                               !.lease = l]
  <2>1. r \in CallRecords
    BY CallRecordsAreClosed
  <2>2. r.ent = None /\ calls[c].pc # "cancel"
    BY <1>13 DEF AcquireMiss, Idle
  <2>3. calls' = [calls EXCEPT ![c] = r]
    BY <1>13 DEF AcquireMiss
  <2>4. UNCHANGED <<handles, supervisors, sweeper>>
    BY <1>13 DEF AcquireMiss, book
  <2> HIDE DEF r, Goal
  <2> QED BY <1>2, <2>1, <2>2, <2>3, <2>4
<1>14. ASSUME NEW c \in Calls, calls' = [calls EXCEPT ![c] = Idle],
              calls[c].pc # "cancel",
              UNCHANGED <<handles, supervisors, sweeper>>
       PROVE Goal
  BY <1>2, <1>14, CallRecordsAreClosed DEF Idle
<1>15. ASSUME NEW c \in Calls, NEW pc \in {"prepare", "register"},
              NEW s \in Streams,
              calls' = [calls EXCEPT ![c].pc = pc, ![c].src = s],
              calls[c].pc = "resolve",
              UNCHANGED <<handles, supervisors, sweeper>>
       PROVE Goal
  <2> DEFINE r == [calls[c] EXCEPT !.pc = pc, !.src = s]
  <2>1. r \in CallRecords /\ r.ent = None
    BY <1>0, <1>15 DEF TypeOK, CallsKnow, Knows, CallRecords
  <2>2. calls' = [calls EXCEPT ![c] = r]
    BY <1>0, <1>15 DEF TypeOK
  <2> QED BY <1>2, <1>15, <2>1, <2>2
<1>16. ASSUME NEW c \in Calls, CheckPreparation(c)
       PROVE Goal
  <2> DEFINE r == [calls[c] EXCEPT !.pc = "register"]
  <2>1. r \in CallRecords
    BY <1>0, CallRecordsAreClosed DEF TypeOK
  <2>2. r.ent = None
    BY <1>0, <1>16 DEF CheckPreparation, TypeOK, CallsKnow, Knows, CallRecords
  <2>3. /\ calls[c].pc = "prepare"
        /\ UNCHANGED <<handles, supervisors, sweeper>>
        /\ \/ calls' = [calls EXCEPT ![c] = r]
           \/ calls' = [calls EXCEPT ![c] = Idle]
    BY <1>16 DEF CheckPreparation, book
  <2> HIDE DEF r, Goal
  <2> QED BY <1>2, <1>14, <2>1, <2>2, <2>3
<1>17. ASSUME NEW c \in Calls, ResolveSource(c)
       PROVE Goal
  BY <1>14, <1>15, <1>17 DEF ResolveSource, Candidates, Enabled, book
<1>18. ASSUME NEW c \in Calls, NEW l \in Leases, ReleaseLast(c, l)
       PROVE Goal
  BY <1>3, <1>18 DEF ReleaseLast, Idle
<1>19. ASSUME NEW c \in Calls, ClearDemand(c)
       PROVE Goal
  BY <1>0, <1>3, <1>19 DEF ClearDemand, CallsKnow, Knows
<1>20. ASSUME NEW c \in Calls, AwaitDone(c) \/ JoinRegistered(c) \/ RollBack(c)
       PROVE Goal
  BY <1>14, <1>20 DEF AwaitDone, JoinRegistered, RollBack, book
<1> QED
  BY <1>1, <1>4, <1>5, <1>6, <1>7, <1>8, <1>9, <1>10, <1>11, <1>12, <1>13,
     <1>16, <1>17, <1>18, <1>19, <1>20
  DEF Next, Request, CallStep, LeaseLoop, vars, requests, book, CreateStream,
      EnableStream, EnsureStopped, Delete, AcquireHeld, ReleaseOne, Lapse

\* The invariant is inductive: every step of the manager keeps it.
LEMMA InvStep == IInv /\ [Next]_vars => IInv'
<1> SUFFICES ASSUME IInv, [Next]_vars PROVE IInv'
  OBVIOUS
<1>1. TypeOK' /\ CallsKnow'
  BY TypeStep, CallsStep DEF IInv
<1>2. LapsedAreHeld' /\ HandleHasDemand'
  BY BookStep DEF IInv
<1>3. RegisteredIsFree' /\ NoStraySupervisor'
  BY <1>1, SupervisorStep
<1> QED BY <1>1, <1>2, <1>3 DEF IInv

\* The inductive invariant holds in every reachable state.
THEOREM Invariance == Spec => []IInv
  BY InitInv, InvStep, PTL DEF Spec

\* Type correctness of the manager's state.
THEOREM TypeCorrect == Spec => []TypeOK
<1>1. IInv => TypeOK
  BY DEF IInv
<1> QED BY <1>1, Invariance, PTL

\* A registered supervisor always has a lease behind it.
THEOREM RegisteredOnDemand == Spec => []HandleHasDemand
<1>1. IInv => HandleHasDemand
  BY DEF IInv
<1> QED BY <1>1, Invariance, PTL

\* No running supervisor is out of reach of those who stop supervisors.
THEOREM NoSupervisorIsLost == Spec => []NoStraySupervisor
<1>1. IInv => NoStraySupervisor
  BY DEF IInv
<1> QED BY <1>1, Invariance, PTL

\* A reader never joins a publisher that is being stopped.
THEOREM JoinedIsNotStopped == Spec => []RegisteredIsNotDoomed
<1>1. IInv => RegisteredIsNotDoomed
  BY DEF IInv, RegisteredIsFree, RegisteredIsNotDoomed, Doomed
<1> QED BY <1>1, Invariance, PTL

-----------------------------------------------------------------------------

\* A step that leaves demands alone, and which paths are registered.
LEMMA Stutter ==
    ASSUME UNCHANGED demands,
           \A p \in Paths: (handles'[p] # None) = (handles[p] # None)
    PROVE  UNCHANGED Contract!vars
  BY DEF Contract!vars

\* A recorded lease on a path that is registered afterwards is a Join.
LEMMA JoinStep ==
    ASSUME TypeOK, NEW p \in Paths, NEW l \in Leases, Record(p, l),
           handles'[p] # None,
           \A q \in Paths: q # p => handles'[q] = handles[q]
    PROVE  Contract!Next
<1>1. Contract!Join(p, l)
  BY DEF Contract!Join, Record, TypeOK
<1> QED BY <1>1 DEF Contract!Next

\* Leases dropped in a step that deregisters the paths left without any.
LEMMA LeaveStep ==
    ASSUME TypeOK, NEW gone \in [Paths -> SUBSET Leases],
           \A p \in Paths: gone[p] \subseteq demands[p],
           \E p \in Paths: gone[p] # {},
           demands' = [p \in Paths |-> demands[p] \ gone[p]],
           \A p \in Paths: (handles'[p] # None) =
               (handles[p] # None /\ (gone[p] = {} \/ demands'[p] # {}))
    PROVE  Contract!Next
<1>1. Contract!Leave(gone)
  BY DEF Contract!Leave, TypeOK
<1> QED BY <1>1 DEF Contract!Next

\* Every step of the manager is a step of the contract or a stutter.
LEMMA ContractStep == IInv /\ [Next]_vars => [Contract!Next]_(Contract!vars)
<1> SUFFICES ASSUME IInv, [Next]_vars
             PROVE  Contract!Next \/ UNCHANGED Contract!vars
  OBVIOUS
<1> USE NoneIsNothing, HelpersServePaths
<1>1. TypeOK /\ CallsKnow /\ LapsedAreHeld /\ HandleHasDemand
  BY DEF IInv
<1>2. CASE UNCHANGED <<handles, demands>>
  BY <1>2, Stutter
<1>3. ASSUME NEW l \in Leases, AcquireHeld(l)
      PROVE Contract!Next
  BY <1>1, <1>3, JoinStep DEF AcquireHeld
<1>4. ASSUME NEW c \in Calls, JoinRegistered(c)
      PROVE Contract!Next
  BY <1>1, <1>4, JoinStep DEF JoinRegistered, CallsKnow, Knows
<1>5. ASSUME NEW c \in Calls, NEW e \in Entries, Launch(c, e)
      PROVE Contract!Next
  <2>1. calls[c].path \in Paths /\ calls[c].lease \in Leases
    BY <1>1, <1>5 DEF Launch, CallsKnow, Knows
  <2>2. handles' = [handles EXCEPT ![calls[c].path] = e] /\ e # None
    BY <1>5 DEF Launch
  <2>3. Record(calls[c].path, calls[c].lease)
    BY <1>5 DEF Launch
  <2> QED BY <1>1, <2>1, <2>2, <2>3, JoinStep DEF TypeOK
<1>6. ASSUME NEW c \in Calls, RollBack(c)
      PROVE Contract!Next
  <2>1. PICK p \in Paths, l \in Leases:
            p = calls[c].path /\ l = calls[c].lease
    BY <1>1, <1>6 DEF RollBack, CallsKnow, Knows
  <2>2. Contract!Refuse(p, l)
    BY <1>1, <1>6, <2>1 DEF RollBack, Contract!Refuse, TypeOK
  <2> QED BY <2>2 DEF Contract!Next
<1>7. ASSUME NEW l \in Leases, ReleaseOne(l)
      PROVE Contract!Next \/ UNCHANGED Contract!vars
  <2> DEFINE gone == [q \in Paths |-> IF q = LeasePath[l]
                                      THEN demands[q] \cap {l} ELSE {}]
  <2>1. CASE l \in demands[LeasePath[l]]
    <3>1. gone \in [Paths -> SUBSET Leases]
      BY <1>1 DEF TypeOK
    <3>2. /\ \A p \in Paths: gone[p] \subseteq demands[p]
          /\ \E p \in Paths: gone[p] # {}
      BY <2>1
    <3>3. demands' = [p \in Paths |-> demands[p] \ gone[p]]
      BY <1>1, <1>7 DEF ReleaseOne, TypeOK
    <3>4. \A p \in Paths: gone[p] = {} \/ demands'[p] # {}
      BY <1>1, <1>7 DEF ReleaseOne, TypeOK
    <3>5. handles' = handles
      BY <1>7 DEF ReleaseOne
    <3> HIDE DEF gone
    <3> QED BY <1>1, <3>1, <3>2, <3>3, <3>4, <3>5, LeaveStep
  <2>2. CASE l \notin demands[LeasePath[l]]
    BY <1>1, <1>7, <2>2, Stutter DEF ReleaseOne, TypeOK
  <2> QED BY <2>1, <2>2
<1>8. ASSUME NEW c \in Calls, NEW l \in Leases, ReleaseLast(c, l)
      PROVE Contract!Next
  <2> DEFINE gone == [q \in Paths |-> IF q = LeasePath[l] THEN {l} ELSE {}]
  <2>1. gone \in [Paths -> SUBSET Leases]
    OBVIOUS
  <2>2. /\ \A p \in Paths: gone[p] \subseteq demands[p]
        /\ \E p \in Paths: gone[p] # {}
    BY <1>8 DEF ReleaseLast
  <2>3. demands' = [p \in Paths |-> demands[p] \ gone[p]]
    BY <1>1, <1>8 DEF ReleaseLast, TypeOK
  <2>4. \A p \in Paths: (handles'[p] # None) =
            (handles[p] # None /\ (gone[p] = {} \/ demands'[p] # {}))
    BY <1>1, <1>8 DEF ReleaseLast, TakeEntry, TypeOK
  <2> HIDE DEF gone
  <2> QED BY <1>1, <2>1, <2>2, <2>3, <2>4, LeaveStep
<1>9. ASSUME NEW c \in Calls, ClearDemand(c)
      PROVE Contract!Next
  <2>1. PICK p \in Paths: p = calls[c].path
    BY <1>1, <1>9 DEF ClearDemand, CallsKnow, Knows
  <2>2. Contract!Evict(p)
    BY <1>1, <1>9, <2>1 DEF ClearDemand, TakeEntry, Contract!Evict, TypeOK
  <2> QED BY <2>2 DEF Contract!Next
<1>10. CASE Sweep
  <2>1. \A p \in Paths: (handles'[p] # None) =
            (handles[p] # None /\ (lapsed[p] = {} \/ demands'[p] # {}))
    BY <1>1, <1>10 DEF Sweep, Deserted, TypeOK
  <2>2. /\ lapsed \in [Paths -> SUBSET Leases]
        /\ \A p \in Paths: lapsed[p] \subseteq demands[p]
    BY <1>1 DEF TypeOK, LapsedAreHeld
  <2>3. /\ \E p \in Paths: lapsed[p] # {}
        /\ demands' = [p \in Paths |-> demands[p] \ lapsed[p]]
    BY <1>10 DEF Sweep
  <2> QED BY <1>1, <2>1, <2>2, <2>3, LeaveStep
<1>11. ASSUME NEW e \in Entries, Reap(e)
       PROVE Contract!Next \/ UNCHANGED Contract!vars
  <2>1. CASE handles[publishes[e]] = e
    <3>1. PICK p \in Paths: p = publishes[e]
      BY <1>1 DEF TypeOK
    <3>2. Contract!SourceOver(p)
      BY <1>1, <1>11, <2>1, <3>1 DEF Reap, Forget, Contract!SourceOver, TypeOK
    <3> QED BY <3>2 DEF Contract!Next
  <2>2. CASE handles[publishes[e]] # e
    BY <1>1, <1>11, <2>2, Stutter DEF Reap, Forget, TypeOK
  <2> QED BY <2>1, <2>2
<1>12. CASE Restart
  <2>1. Contract!Crash
    BY <1>12 DEF Restart, Contract!Crash
  <2> QED BY <2>1 DEF Contract!Next
<1> QED
  BY <1>2, <1>3, <1>4, <1>5, <1>6, <1>7, <1>8, <1>9, <1>10, <1>11, <1>12
  DEF Next, Request, CallStep, LeaseLoop, vars, requests, book, CreateStream,
      EnableStream, EnsureStopped, Delete, Withdraw, AcquireMiss, CancelEntry,
      AwaitDone, ResolveSource, CheckPreparation, SweepCancel, SweepAwait,
      Lapse, RunReturns

\* The manager keeps its contract: a path goes down only with its last
\* reader, by a stop, with its source, or with the process.
THEOREM ManagerKeepsContract == Spec => KeepsContract
<1>1. Init => Contract!Init
  BY NoneIsNothing DEF Init, Contract!Init
<1> QED
  BY <1>1, Invariance, ContractStep, PTL
  DEF Spec, KeepsContract, Contract!Spec

-----------------------------------------------------------------------------

\* A path gets a supervisor from Launch only; every other step leaves it the
\* one it has, with its source, or none.
LEMMA OnlyLaunchRegisters ==
    ASSUME TypeOK, [Next]_vars, ~ \E c \in Calls, e \in Entries: Launch(c, e)
    PROVE  /\ \A p \in Paths: handles'[p] \in {handles[p], None}
           /\ UNCHANGED <<publishes, source>>
<1> USE DEF TypeOK, book, supervisors
<1>1. CASE UNCHANGED <<handles, publishes, source>>
  BY <1>1
<1>2. ASSUME NEW c \in Calls, ClearDemand(c) \/ \E l \in Leases: ReleaseLast(c, l)
      PROVE  /\ \A p \in Paths: handles'[p] \in {handles[p], None}
             /\ UNCHANGED <<publishes, source>>
  BY <1>2 DEF ClearDemand, ReleaseLast, TakeEntry
<1>3. CASE Sweep
  BY <1>3 DEF Sweep
<1>4. ASSUME NEW e \in Entries, Reap(e)
      PROVE  /\ \A p \in Paths: handles'[p] \in {handles[p], None}
             /\ UNCHANGED <<publishes, source>>
  BY <1>4 DEF Reap, Forget
<1>5. CASE Restart
  BY <1>5 DEF Restart
<1> QED
  BY <1>1, <1>2, <1>3, <1>4, <1>5
  DEF Next, Request, CallStep, LeaseLoop, vars, CreateStream, EnableStream,
      EnsureStopped, Delete, Withdraw, AcquireHeld, AcquireMiss, ReleaseOne,
      CancelEntry, AwaitDone, ResolveSource, CheckPreparation, JoinRegistered,
      RollBack, SweepCancel, SweepAwait, Lapse, RunReturns

\* A launched entry is registered nowhere, so no other path's picture changes.
LEMMA KeptStep ==
    ASSUME IInv, [Next]_vars, NEW p \in Paths,
           handles[p] # None, handles'[p] # None
    PROVE  /\ handles'[p] = handles[p]
           /\ UNCHANGED <<publishes[handles[p]], source[handles[p]]>>
<1>1. handles[p] \in Entries /\ phase[handles[p]] # "done" /\ TypeOK
  BY DEF IInv, TypeOK, RegisteredIsFree
<1>2. ASSUME NEW c \in Calls, NEW e \in Entries, Launch(c, e)
      PROVE  /\ handles'[p] = handles[p]
             /\ UNCHANGED <<publishes[handles[p]], source[handles[p]]>>
  <2>1. calls[c].path # p /\ handles[p] # e
    BY <1>1, <1>2 DEF Launch, Unreferenced
  <2> QED BY <1>1, <1>2, <2>1 DEF Launch, TypeOK
<1> QED BY <1>1, <1>2, OnlyLaunchRegisters

\* Readers of a path keep their publisher and its source for as long as the
\* path stays registered.
THEOREM ReadersKeepTheirPicture == Spec => PublisherIsKept
<1>1. IInv /\ [Next]_vars =>
        [\A p \in Paths: handles[p] # None /\ handles'[p] # None =>
            /\ handles'[p] = handles[p]
            /\ UNCHANGED <<publishes[handles[p]], source[handles[p]]>>]_vars
  BY KeptStep
<1> QED BY <1>1, Invariance, PTL DEF Spec, PublisherIsKept

-----------------------------------------------------------------------------

\* An acquire of a stored stream's path has resolved that stream.
ResolvedIsOwn(r) ==
    r.pc \in {"prepare", "register"} /\ r.path \in Streams => r.src = r.path

CallsResolveOwn == \A c \in Calls: ResolvedIsOwn(calls[c])

LEMMA ResolveOwnStep ==
    ASSUME IInv, CallsResolveOwn, [Next]_vars
    PROVE  CallsResolveOwn'
<1> USE DEF CallsResolveOwn
<1>0. calls \in [Calls -> CallRecords] /\ CallsKnow
  BY DEF IInv, TypeOK
<1>1. ASSUME NEW c \in Calls, NEW r, ResolvedIsOwn(r),
             calls' = [calls EXCEPT ![c] = r]
      PROVE  CallsResolveOwn'
  BY <1>0, <1>1 DEF ResolvedIsOwn
<1>2. CASE UNCHANGED calls
  BY <1>2 DEF ResolvedIsOwn
<1>3. ASSUME NEW c \in Calls, NEW r, r.pc \notin {"prepare", "register"},
             calls' = [calls EXCEPT ![c] = r]
      PROVE  CallsResolveOwn'
  BY <1>1, <1>3 DEF ResolvedIsOwn
<1>4. ASSUME NEW c \in Calls, calls' = [calls EXCEPT ![c] = Idle]
      PROVE  CallsResolveOwn'
  BY <1>3, <1>4 DEF Idle
<1>5. ASSUME NEW c \in Calls, NEW s \in Streams, NEW desired,
             Withdraw(c, s, desired)
      PROVE  CallsResolveOwn'
  BY <1>3, <1>5 DEF Withdraw, Idle
<1>6. ASSUME NEW c \in Calls, NEW l \in Leases, AcquireMiss(c, l)
      PROVE  CallsResolveOwn'
  BY <1>3, <1>6 DEF AcquireMiss, Idle
<1>7. ASSUME NEW c \in Calls, NEW p, TakeEntry(c, p)
      PROVE  CallsResolveOwn'
  <2>1. CASE handles[p] = None
    BY <1>4, <1>7, <2>1 DEF TakeEntry
  <2>2. CASE handles[p] # None
    BY <1>3, <1>7, <2>2 DEF TakeEntry, Idle
  <2> QED BY <2>1, <2>2
<1>8. ASSUME NEW c \in Calls, CancelEntry(c)
      PROVE  CallsResolveOwn'
  BY <1>0, <1>3, <1>8 DEF CancelEntry, CallRecords
<1>9. ASSUME NEW c \in Calls, ResolveSource(c)
      PROVE  CallsResolveOwn'
  <2>1. CASE calls' = [calls EXCEPT ![c] = Idle]
    BY <1>4, <2>1
  <2>2. ASSUME NEW s \in Candidates(calls[c].path),
               calls' = [calls EXCEPT
                   ![c].pc = IF s \in Vod THEN "prepare" ELSE "register",
                   ![c].src = s]
        PROVE  CallsResolveOwn'
    <3> DEFINE pc == IF s \in Vod THEN "prepare" ELSE "register"
               r == [calls[c] EXCEPT !.pc = pc, !.src = s]
    <3>1. r.path = calls[c].path /\ r.src = s
      BY <1>0 DEF CallRecords
    <3>2. calls[c].path \in Streams => s = calls[c].path
      BY RandomIsReserved DEF Candidates
    <3>3. calls' = [calls EXCEPT ![c] = r]
      BY <2>2
    <3> HIDE DEF r
    <3> QED BY <1>1, <3>1, <3>2, <3>3 DEF ResolvedIsOwn
  <2> QED BY <1>9, <2>1, <2>2 DEF ResolveSource
<1>10. ASSUME NEW c \in Calls, CheckPreparation(c)
       PROVE  CallsResolveOwn'
  <2> DEFINE r == [calls[c] EXCEPT !.pc = "register"]
  <2>1. calls[c].pc = "prepare" /\ r.path = calls[c].path /\ r.src = calls[c].src
    BY <1>0, <1>10 DEF CheckPreparation, CallRecords
  <2>2. ResolvedIsOwn(r)
    BY <2>1 DEF ResolvedIsOwn
  <2>3. calls' = [calls EXCEPT ![c] = r] \/ calls' = [calls EXCEPT ![c] = Idle]
    BY <1>10 DEF CheckPreparation
  <2> HIDE DEF r
  <2> QED BY <1>1, <1>4, <2>2, <2>3
<1>11. CASE Restart
  BY <1>11 DEF Restart, Idle, ResolvedIsOwn
<1> QED
  BY <1>2, <1>4, <1>5, <1>6, <1>7, <1>8, <1>9, <1>10, <1>11
  DEF Next, Request, CallStep, LeaseLoop, vars, requests, CreateStream,
      EnableStream, EnsureStopped, Delete, AcquireHeld, ReleaseOne, ReleaseLast,
      ClearDemand, AwaitDone, JoinRegistered, RollBack, Launch, Sweep,
      SweepCancel, SweepAwait, Lapse, RunReturns, Reap

\* Whoever is about to drop the demand of a path takes its supervisor.
DropsOf(s) == {c \in Calls: calls[c].pc = "drop" /\ calls[c].path = s}

\* A registered stream that stays registered: it is stopped or deleted
\* together with a drop that is to come, and the drop does not go away.
LEMMA DropStep ==
    ASSUME IInv, [Next]_vars, NEW s \in Streams,
           handles[s] # None, handles'[s] # None
    PROVE  /\ DropsOf(s) \subseteq DropsOf(s)'
           /\ store[s] = "running" /\ store'[s] # "running" => DropsOf(s)' # {}
<1> DEFINE Goal == /\ DropsOf(s) \subseteq DropsOf(s)'
                   /\ store[s] = "running" /\ store'[s] # "running"
                        => DropsOf(s)' # {}
<1>0. /\ calls \in [Calls -> CallRecords] /\ s \in Paths
      /\ store \in [Streams -> {"absent", "running", "stopped"}]
      /\ handles \in [Paths -> Entries \cup {None}]
  BY DEF IInv, TypeOK, Paths
<1>1. CASE UNCHANGED <<store, calls>>
  BY <1>1 DEF DropsOf
<1>2. ASSUME NEW c \in Calls, calls[c].pc # "drop", NEW r,
             calls' = [calls EXCEPT ![c] = r], UNCHANGED store
      PROVE  Goal
  BY <1>0, <1>2 DEF DropsOf
<1>3. ASSUME NEW t \in Streams, CreateStream(t) \/ EnableStream(t)
      PROVE  Goal
  BY <1>0, <1>3 DEF CreateStream, EnableStream, DropsOf
<1>4. ASSUME NEW c \in Calls, NEW t \in Streams, NEW desired,
             Withdraw(c, t, desired)
      PROVE  Goal
  <2>1. /\ calls[c].pc # "drop" /\ store' = [store EXCEPT ![t] = desired]
        /\ calls' = [calls EXCEPT ![c] = [Idle EXCEPT !.pc = "drop", !.path = t]]
    <3>1. calls[c] = Idle
      BY <1>4, Zenon DEF Withdraw
    <3> QED BY <1>4, <3>1 DEF Withdraw, Idle
  <2>2. calls'[c].pc = "drop" /\ calls'[c].path = t
    BY <1>0, <2>1 DEF Idle
  <2>3. DropsOf(s) \subseteq DropsOf(s)'
    BY <1>0, <2>1 DEF DropsOf
  <2>4. t = s => DropsOf(s)' # {}
    BY <2>2 DEF DropsOf
  <2> QED BY <1>0, <2>1, <2>3, <2>4
<1>5. ASSUME NEW c \in Calls, NEW l \in Leases,
             AcquireMiss(c, l) \/ ReleaseLast(c, l)
      PROVE  Goal
  <2>1. calls[c].pc # "drop"
    <3>1. calls[c] = Idle
      BY <1>5, Zenon DEF AcquireMiss, ReleaseLast
    <3> QED BY <3>1 DEF Idle
  <2> QED BY <1>2, <1>5, <2>1 DEF AcquireMiss, ReleaseLast, TakeEntry
<1>6. ASSUME NEW c \in Calls, ClearDemand(c)
      PROVE  Goal
  <2>1. calls[c].path # s
    BY <1>0, <1>6 DEF ClearDemand, TakeEntry
  <2> QED BY <1>0, <1>6, <2>1 DEF ClearDemand, TakeEntry, DropsOf
<1>7. ASSUME NEW c \in Calls,
             \/ CancelEntry(c) \/ AwaitDone(c) \/ JoinRegistered(c)
             \/ RollBack(c) \/ CheckPreparation(c)
             \/ \E e \in Entries: Launch(c, e)
      PROVE  Goal
  <2>1. /\ calls[c].pc # "drop" /\ UNCHANGED store
        /\ calls' = [calls EXCEPT ![c] = calls'[c]]
    BY <1>0, <1>7
    DEF CancelEntry, AwaitDone, JoinRegistered, RollBack, CheckPreparation,
        Launch
  <2> QED BY <1>2, <2>1
<1>8. ASSUME NEW c \in Calls, ResolveSource(c)
      PROVE  Goal
  <2>1. /\ calls[c].pc # "drop" /\ UNCHANGED store
        /\ calls' = [calls EXCEPT ![c] = calls'[c]]
    BY <1>0, <1>8 DEF ResolveSource
  <2> QED BY <1>2, <2>1
<1>9. CASE Restart
  BY <1>0, <1>9 DEF Restart
<1> QED
  BY <1>1, <1>3, <1>4, <1>5, <1>6, <1>7, <1>8, <1>9
  DEF Next, Request, CallStep, LeaseLoop, vars, requests, EnsureStopped,
      Delete, AcquireHeld, ReleaseOne, Sweep, SweepCancel, SweepAwait, Lapse,
      RunReturns, Reap

\* A stopped stream that comes up behind EnsureStopped's back was launched by
\* an acquire that had resolved it.
LEMMA RevivedStep ==
    ASSUME IInv, CallsResolveOwn, [Next]_vars, NEW s \in Streams,
           ~UpWhileStopped(s), UpWhileStopped(s)'
    PROVE  \E c \in Calls:
               /\ calls[c].pc = "register" /\ calls'[c] = Idle
               /\ calls[c].path = s /\ calls[c].src = s
               /\ source'[handles'[s]] = s /\ UNCHANGED store
<1>1. s \in Paths /\ TypeOK
  BY DEF IInv, Paths
<1>2. handles'[s] # None /\ store'[s] # "running" /\ DropsOf(s)' = {}
  BY DEF UpWhileStopped, DropsOf
<1>3. handles[s] = None
  <2>1. SUFFICES ASSUME handles[s] # None PROVE FALSE
    OBVIOUS
  <2>2. DropsOf(s) = {} /\ store[s] # "running"
    BY <1>2, <2>1, DropStep
  <2> QED BY <2>1, <2>2 DEF UpWhileStopped, DropsOf
<1>4. PICK c \in Calls, e \in Entries: Launch(c, e)
  BY <1>1, <1>2, <1>3, OnlyLaunchRegisters
<1>5. calls[c].path = s /\ handles'[s] = e
  BY <1>1, <1>2, <1>3, <1>4 DEF Launch, TypeOK
<1>6. calls[c].pc = "register" /\ calls[c].src = s
  BY <1>4, <1>5 DEF Launch, CallsResolveOwn, ResolvedIsOwn
<1> QED BY <1>1, <1>4, <1>5, <1>6 DEF Launch, TypeOK

\* The one way for a stopped stream to be up: an acquire read its row before
\* it was stopped and registers after the stop has looked.
THEOREM OnlyALateAcquireRevives == Spec => OnlyLateAcquireRevives
<1>1. Init => CallsResolveOwn
  BY DEF Init, Idle, CallsResolveOwn, ResolvedIsOwn
<1>2. IInv /\ CallsResolveOwn /\ [Next]_vars => CallsResolveOwn'
  BY ResolveOwnStep
<1>3. IInv /\ CallsResolveOwn /\ [Next]_vars =>
        [\A s \in Streams: ~UpWhileStopped(s) /\ UpWhileStopped(s)' =>
           \E c \in Calls:
               /\ calls[c].pc = "register" /\ calls'[c] = Idle
               /\ calls[c].path = s /\ calls[c].src = s
               /\ source'[handles'[s]] = s /\ UNCHANGED store]_vars
  BY RevivedStep
<1> QED
  BY <1>1, <1>2, <1>3, Invariance, PTL DEF Spec, OnlyLateAcquireRevives

\* Two ffmpegs may publish on one path for a while, never for good: one of
\* them is about to be cancelled.
THEOREM OneOfTwoIsDoomed ==
    Spec => [](\A e, f \in Entries:
                 /\ e # f /\ publishes[e] = publishes[f]
                 /\ phase[e] = "running" /\ phase[f] = "running"
                 => Doomed(e) \/ Doomed(f))
<1>1. IInv => \A e, f \in Entries:
                 /\ e # f /\ publishes[e] = publishes[f]
                 /\ phase[e] = "running" /\ phase[f] = "running"
                 => Doomed(e) \/ Doomed(f)
  BY DEF IInv, NoStraySupervisor
<1> QED BY <1>1, Invariance, PTL
=============================================================================
