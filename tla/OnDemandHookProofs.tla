------------------------- MODULE OnDemandHookProofs -------------------------
(***************************************************************************)
(* The helper's timing, for all intervals that satisfy the assumptions of  *)
(* OnDemandHook: a lease whose helper lives is not due for the sweep       *)
(* before three requests in a row have failed.                             *)
(***************************************************************************)
EXTENDS OnDemandHook, Integers, TLAPS

\* n times a, for the few n that matter.
Times(n, a) == IF n = 0 THEN 0 ELSE IF n = 1 THEN a ELSE a + a

\* How much older the lease may be than the helper's clock, after so many
\* misses.
Lead ==
    CASE pc = "acquire" -> Times(missed, Timeout + Retry)
      [] pc = "retry"   -> Times(missed, Timeout + Retry) - Retry
      [] pc = "ticking" -> Timeout + Times(missed, Heartbeat)
      [] OTHER          -> Timeout + Heartbeat + Times(missed, Heartbeat)

\* Only a failure leads to the sleep.
RetryIsAfterMiss == pc = "retry" => missed > 0

\* A success the helper has yet to see is as recent as its request.
OkIsFresh == Acquiring /\ reply = "ok" /\ Held => age <= clock

LeadIsKept == Living /\ Held /\ missed < 3 => age <= Lead + clock

IInv == TypeOK /\ RetryIsAfterMiss /\ OkIsFresh /\ LeadIsKept

LEMMA Numbers ==
    /\ Retry \in Nat /\ Retry > 0 /\ Heartbeat \in Nat /\ Heartbeat > 0
    /\ Timeout \in Nat /\ Timeout > 0 /\ TTL \in Nat
    /\ Timeout < Heartbeat /\ 2 * Timeout + 3 * Heartbeat < TTL
    /\ Retry + Timeout < Heartbeat
BY TimesArePositive, BeatsDoNotOverlap, ThreeBeatsMayFail, RetriesAreQuicker

\* What the backend's steps do to the lease.
LEMMA BackendStep ==
    ASSUME wanted \in [{path} -> SUBSET {lease}], up \in [{path} -> BOOLEAN],
           \/ Backend!Join(path, lease) \/ Backend!Refuse(path, lease)
           \/ \E gone \in [{path} -> SUBSET {lease}]: Backend!Leave(gone)
           \/ Backend!Evict(path) \/ Backend!SourceOver(path)
           \/ Backend!Crash \/ UNCHANGED <<wanted, up>>
    PROVE  /\ wanted' \in [{path} -> SUBSET {lease}]
           /\ up' \in [{path} -> BOOLEAN]
           /\ Backend!Join(path, lease) \/ (Held' => Held)
<1>1. CASE Backend!Join(path, lease)
  BY <1>1 DEF Backend!Join
<1>2. CASE Backend!Refuse(path, lease)
  BY <1>2 DEF Backend!Refuse, Held
<1>3. CASE \E gone \in [{path} -> SUBSET {lease}]: Backend!Leave(gone)
  BY <1>3 DEF Backend!Leave, Held
<1>4. CASE Backend!Evict(path)
  BY <1>4 DEF Backend!Evict, Held
<1>5. CASE Backend!SourceOver(path)
  BY <1>5 DEF Backend!SourceOver, Held
<1>6. CASE Backend!Crash
  BY <1>6 DEF Backend!Crash, Held
<1>7. CASE UNCHANGED <<wanted, up>>
  BY <1>7 DEF Held
<1> QED BY <1>1, <1>2, <1>3, <1>4, <1>5, <1>6, <1>7

\* What the whole state keeps when a backend step leaves the helper alone.
LEMMA ServedOnly ==
    ASSUME IInv, UNCHANGED <<pc, clock, missed>>,
           wanted' \in [{path} -> SUBSET {lease}], up' \in [{path} -> BOOLEAN],
           row' \in {"enabled", "disabled", "absent"},
           late' \subseteq {"acquire", "release"}, left' \in BOOLEAN,
           denied' \in BOOLEAN, reply' \in {"pending", "ok", "retry", "terminal"},
           age' = 0 \/ (age' = age /\ (Held' => Held)),
           reply' = "ok" => reply = "ok" \/ age' = 0 \/ ~Acquiring
    PROVE  IInv'
<1> USE Numbers
<1>1. TypeOK'
  <2>1. Limit' = Limit
    BY DEF Limit
  <2>2. clock' \in 0 .. Limit' /\ age' \in 0 .. TTL
    BY <2>1 DEF IInv, TypeOK
  <2> QED BY <2>2 DEF IInv, TypeOK
<1>2. RetryIsAfterMiss'
  BY DEF IInv, RetryIsAfterMiss
<1>3. OkIsFresh'
  BY DEF IInv, OkIsFresh, Acquiring, TypeOK
<1>4. LeadIsKept'
  <2>1. Lead' = Lead
    BY DEF Lead
  <2>2. CASE age' = 0
    <3>1. Living => Lead + clock >= 0
      BY DEF IInv, TypeOK, RetryIsAfterMiss, Lead, Times, Living
    <3> QED BY <2>1, <2>2, <3>1 DEF LeadIsKept, Living
  <2>3. CASE age' = age /\ (Held' => Held)
    BY <2>1, <2>3 DEF IInv, LeadIsKept, Living
  <2> QED BY <2>2, <2>3
<1> QED BY <1>1, <1>2, <1>3, <1>4 DEF IInv

LEMMA InitHolds == Init => IInv
<1> SUFFICES ASSUME Init PROVE IInv
  OBVIOUS
<1>1. TypeOK
  <2>1. wanted \in [{path} -> SUBSET {lease}] /\ up \in [{path} -> BOOLEAN]
    BY DEF Init, Backend!Init
  <2>2. Limit = Timeout
    BY DEF Init, Limit
  <2>3. clock \in 0 .. Limit /\ age \in 0 .. TTL /\ missed \in 0 .. 3
    BY <2>2, Numbers DEF Init
  <2> QED BY <2>1, <2>3 DEF Init, TypeOK
<1>2. RetryIsAfterMiss /\ ~Held
  BY DEF Init, Backend!Init, RetryIsAfterMiss, Held
<1> QED BY <1>1, <1>2 DEF IInv, OkIsFresh, LeadIsKept

\* The answers, the late requests, the sweep, and the administration.
LEMMA BackendKeeps == IInv /\ (Serve \/ Sweep \/ Administer) => IInv'
<1> SUFFICES ASSUME IInv, Serve \/ Sweep \/ Administer PROVE IInv'
  OBVIOUS
<1> USE Numbers
<1>t. /\ wanted \in [{path} -> SUBSET {lease}] /\ up \in [{path} -> BOOLEAN]
      /\ [p \in {path} |-> {lease}] \in [{path} -> SUBSET {lease}]
  BY DEF IInv, TypeOK
<1>1. CASE Accept
  BY <1>1, <1>t, BackendStep, ServedOnly DEF Accept, Recorded, IInv, TypeOK, history
<1>2. CASE Deny
  BY <1>2, ServedOnly DEF Deny, backend, Held, IInv, TypeOK
<1>3. CASE PutOff
  <2>1. Backend!Refuse(path, lease) \/ UNCHANGED <<wanted, up>>
    BY <1>3 DEF PutOff
  <2>2. /\ wanted' \in [{path} -> SUBSET {lease}] /\ up' \in [{path} -> BOOLEAN]
        /\ Held' => Held
    BY <2>1, <1>t DEF Backend!Refuse, Held
  <2> QED BY <1>3, <2>2, ServedOnly DEF PutOff, history, IInv, TypeOK
<1>4. ASSUME Released
      PROVE  /\ wanted' \in [{path} -> SUBSET {lease}] /\ up' \in [{path} -> BOOLEAN]
             /\ (Held' => Held) /\ UNCHANGED age
  <2>1. CASE Held
    <3>1. Backend!Leave([p \in {path} |-> {lease}])
      BY <1>4, <2>1 DEF Released
    <3>2. wanted' \in [{path} -> SUBSET {lease}] /\ up' \in [{path} -> BOOLEAN]
      BY <3>1, <1>t DEF Backend!Leave
    <3> QED BY <1>4, <2>1, <3>2 DEF Released
  <2>2. CASE ~Held
    BY <1>4, <2>2, <1>t DEF Released, Held
  <2> QED BY <2>1, <2>2
<1>5. CASE AcceptRelease
  <2>1. /\ wanted' \in [{path} -> SUBSET {lease}] /\ up' \in [{path} -> BOOLEAN]
        /\ (Held' => Held) /\ UNCHANGED age /\ ~Acquiring
    BY <1>4, <1>5 DEF AcceptRelease, Acquiring
  <2> QED BY <1>5, <2>1, ServedOnly DEF AcceptRelease, history, IInv, TypeOK
<1>6. CASE \E r \in {"acquire", "release"}: ServeLate(r)
  <2>1. PICK r \in {"acquire", "release"}: ServeLate(r)
    BY <1>6
  <2>2. /\ wanted' \in [{path} -> SUBSET {lease}] /\ up' \in [{path} -> BOOLEAN]
        /\ age' = 0 \/ (age' = age /\ (Held' => Held))
    <3>1. CASE Recorded
      BY <3>1, <1>t, BackendStep DEF Recorded
    <3>2. CASE Backend!Refuse(path, lease) /\ UNCHANGED age
      BY <3>2, <1>t DEF Backend!Refuse, Held
    <3>3. CASE Released
      BY <3>3, <1>4
    <3>4. CASE UNCHANGED backend
      BY <3>4, <1>t DEF backend, Held
    <3> QED BY <2>1, <3>1, <3>2, <3>3, <3>4 DEF ServeLate
  <2>3. late' \subseteq {"acquire", "release"} /\ UNCHANGED <<row, pc, clock, reply, missed, left, denied>>
    BY <2>1 DEF ServeLate, history, IInv, TypeOK
  <2> QED BY <2>2, <2>3, ServedOnly DEF IInv, TypeOK
<1>7. CASE Sweep
  <2>1. /\ wanted' \in [{path} -> SUBSET {lease}] /\ up' \in [{path} -> BOOLEAN]
        /\ Held' => Held
    BY <1>7, <1>t DEF Sweep, Backend!Leave, Held
  <2> QED BY <1>7, <2>1, ServedOnly DEF Sweep, helper, history, IInv, TypeOK
<1>8. CASE Administer
  <2>1. /\ wanted' \in [{path} -> SUBSET {lease}] /\ up' \in [{path} -> BOOLEAN]
        /\ Held' => Held
    BY <1>8, <1>t DEF Administer, Backend!Evict, Backend!SourceOver, Backend!Crash, Held
  <2>2. row' \in {"enabled", "disabled", "absent"}
    BY <1>8 DEF Administer, IInv, TypeOK
  <2> QED BY <1>8, <2>1, <2>2, ServedOnly DEF Administer, helper, history, IInv, TypeOK
<1> QED BY <1>1, <1>2, <1>3, <1>5, <1>6, <1>7, <1>8 DEF Serve

LEMMA AbandonedAreRequests ==
    IInv /\ Abandon => late' \subseteq {"acquire", "release"}
BY DEF IInv, TypeOK, Abandon

\* The helper's own steps.
LEMMA HelperKeeps == IInv /\ (Run \/ Signal \/ Killed) => IInv'
<1> SUFFICES ASSUME IInv, Run \/ Signal \/ Killed PROVE IInv'
  OBVIOUS
<1> USE Numbers DEF history, backend, IInv
<1>1. CASE Success
  <2>1. /\ Acquiring /\ reply = "ok" /\ pc' = "ticking" /\ missed' = 0
        /\ clock' = IF pc = "acquire" THEN 0 ELSE clock
        /\ UNCHANGED <<wanted, up, age, row, reply, late, left, denied>>
    BY <1>1 DEF Success
  <2>2. clock \in 0 .. Timeout /\ clock' \in 0 .. Timeout
    BY <2>1 DEF TypeOK, Limit, Acquiring
  <2>3. TypeOK'
    BY <2>1, <2>2 DEF TypeOK, Limit
  <2>4. Held' => age' <= Timeout + clock'
    BY <2>1, <2>2 DEF OkIsFresh, Held, TypeOK
  <2> QED BY <2>1, <2>3, <2>4 DEF RetryIsAfterMiss, OkIsFresh, Acquiring,
               LeadIsKept, Lead, Times
<1>2. CASE Terminal \/ Signal
  <2>1. /\ pc' = "release" /\ clock' = 0 /\ reply' = "pending"
        /\ UNCHANGED <<missed, wanted, up, age, row, denied>>
        /\ left' \in BOOLEAN /\ late' \subseteq {"acquire", "release"}
    BY <1>2, AbandonedAreRequests DEF Terminal, Signal, Leave, TypeOK
  <2>2. TypeOK'
    BY <2>1 DEF TypeOK, Limit
  <2> QED BY <2>1, <2>2 DEF RetryIsAfterMiss, OkIsFresh, Acquiring, LeadIsKept, Living
<1>3. CASE Gone \/ Killed
  <2>1. /\ pc' = "gone" /\ clock' = 0
        /\ UNCHANGED <<reply, missed, wanted, up, age, row, denied>>
        /\ left' \in BOOLEAN /\ late' \subseteq {"acquire", "release"}
    BY <1>3, AbandonedAreRequests DEF Gone, Killed, TypeOK
  <2>2. TypeOK'
    BY <2>1 DEF TypeOK, Limit
  <2> QED BY <2>1, <2>2 DEF RetryIsAfterMiss, OkIsFresh, Acquiring, LeadIsKept, Living
<1>4. CASE Failure
  <2>1. /\ Acquiring /\ late' \subseteq {"acquire", "release"}
        /\ IF pc = "acquire" THEN pc' = "retry" /\ clock' = 0
                             ELSE pc' = "ticking" /\ clock' = clock
        /\ missed' = IF missed = 3 THEN 3 ELSE missed + 1
        /\ UNCHANGED <<wanted, up, age, row, reply, left, denied>>
    BY <1>4, AbandonedAreRequests DEF Failure
  <2>2. clock \in 0 .. Timeout /\ missed \in 0 .. 3
    BY <2>1 DEF TypeOK, Limit, Acquiring
  <2>3. TypeOK'
    BY <2>1, <2>2 DEF TypeOK, Limit
  <2>4. LeadIsKept'
    BY <2>1, <2>2 DEF LeadIsKept, Lead, Times, Held, Living, Acquiring, TypeOK
  <2> QED BY <2>1, <2>2, <2>3, <2>4 DEF RetryIsAfterMiss, OkIsFresh, Acquiring
<1>5. CASE TryAgain
  <2>1. /\ pc = "retry" /\ clock = Retry /\ pc' = "acquire" /\ clock' = 0
        /\ reply' = "pending"
        /\ UNCHANGED <<wanted, up, age, row, late, missed, left, denied>>
    BY <1>5 DEF TryAgain
  <2>2. TypeOK'
    BY <2>1 DEF TypeOK, Limit
  <2>3. LeadIsKept'
    BY <2>1 DEF LeadIsKept, Lead, Times, Held, Living, TypeOK
  <2> QED BY <2>1, <2>2, <2>3 DEF RetryIsAfterMiss, OkIsFresh
<1>6. CASE Beat
  <2>1. /\ pc = "ticking" /\ clock = Heartbeat /\ pc' = "beat" /\ clock' = 0
        /\ reply' = "pending"
        /\ UNCHANGED <<wanted, up, age, row, late, missed, left, denied>>
    BY <1>6 DEF Beat
  <2>2. TypeOK'
    BY <2>1 DEF TypeOK, Limit
  <2>3. LeadIsKept'
    BY <2>1 DEF LeadIsKept, Lead, Times, Held, Living, TypeOK
  <2> QED BY <2>1, <2>2, <2>3 DEF RetryIsAfterMiss, OkIsFresh
<1> QED BY <1>1, <1>2, <1>3, <1>4, <1>5, <1>6 DEF Run

\* A second makes the clock and the lease older together.
LEMMA TickKeeps == IInv /\ Tick => IInv'
<1> SUFFICES ASSUME IInv, Tick PROVE IInv'
  OBVIOUS
<1> USE Numbers DEF IInv
<1>1. /\ pc # "gone" => clock < Limit
      /\ clock' = IF pc = "gone" THEN clock ELSE clock + 1
      /\ age' = IF Held /\ age < TTL THEN age + 1 ELSE age
      /\ UNCHANGED <<wanted, up, row, pc, reply, late, missed, left, denied>>
  BY DEF Tick, history
<1>2. Limit \in Nat /\ Limit' = Limit /\ Lead' = Lead /\ (Held' <=> Held)
  BY <1>1 DEF Limit, Lead, Held
<1>3. TypeOK'
  <2>1. clock' \in 0 .. Limit'
    BY <1>1, <1>2 DEF TypeOK
  <2>2. age' \in 0 .. TTL
    BY <1>1 DEF TypeOK
  <2> QED BY <1>1, <2>1, <2>2 DEF TypeOK
<1>4. OkIsFresh'
  BY <1>1, <1>2 DEF OkIsFresh, Acquiring, TypeOK
<1>5. LeadIsKept'
  <2>1. Lead \in Int /\ age' <= age + 1
    BY <1>1 DEF Lead, Times, TypeOK
  <2> QED BY <1>1, <1>2, <2>1 DEF LeadIsKept, Living, TypeOK
<1> QED BY <1>1, <1>3, <1>4, <1>5 DEF RetryIsAfterMiss

LEMMA StutterKeeps == IInv /\ UNCHANGED vars => IInv'
BY DEF vars, backend, helper, history, IInv, TypeOK, Limit, RetryIsAfterMiss,
       OkIsFresh, LeadIsKept, Lead, Held, Acquiring, Living

LEMMA Inductive == Spec => []IInv
<1>1. IInv /\ [Next]_vars => IInv'
  BY BackendKeeps, HelperKeeps, TickKeeps, StutterKeeps DEF Next
<1> QED BY InitHolds, <1>1, PTL DEF Spec

\* The helper's and the lease's state keep their types, and no timer of the
\* helper runs past its end.
THEOREM TypeCorrect == Spec => []TypeOK
<1>1. IInv => TypeOK
  BY DEF IInv
<1> QED BY <1>1, Inductive, PTL

\* Two lost heartbeats in a row never cost a living helper its lease, for
\* every choice of the intervals with 2 * Timeout + 3 * Heartbeat < TTL.
THEOREM LiveLeaseStaysFresh == Spec => []LiveLeaseIsFresh
<1>1. IInv => LiveLeaseIsFresh
  <2> SUFFICES ASSUME IInv, Living, Held, missed # 3
               PROVE  age < TTL
    BY Numbers DEF IInv, TypeOK, LiveLeaseIsFresh
  <2>1. missed \in {0, 1, 2} /\ age <= Lead + clock /\ clock \in 0 .. Limit
        /\ age \in Nat
    BY DEF IInv, TypeOK, LeadIsKept
  <2>2. Times(missed, Heartbeat) <= 2 * Heartbeat
    BY <2>1, Numbers DEF Times
  <2>3. Times(missed, Timeout + Retry) <= 2 * Heartbeat
    BY <2>1, Numbers DEF Times
  <2> QED BY <2>1, <2>2, <2>3, Numbers DEF Lead, Limit, Times, Living, IInv, TypeOK
<1> QED BY <1>1, Inductive, PTL
=============================================================================
