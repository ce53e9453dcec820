-------------------------- MODULE StatusViewProofs --------------------------
(***************************************************************************)
(* Proofs about StatusView: what is shown of a supervisor, for every kind  *)
(* of source and every retry budget.                                       *)
(***************************************************************************)
EXTENDS StatusView, SupervisorProofs

\* While a round goes on, a publisher does not come or go unseen.
PublisherIsSeen ==
    poll \in {"look", "ask", "off", "on"} /\ published => seen

\* An answer that is still to be stored was true in this round.
AnswerWasTrue == poll = "on" => seen

ViewInv ==
    IInv /\ ViewTypeOK /\ PublisherIsSeen /\ AnswerWasTrue /\ OnlineIsConfirmed

\* The poller starts with nothing cached, next to a new supervisor.
LEMMA ViewInitInv == ViewInit => ViewInv
<1> SUFFICES ASSUME ViewInit PROVE ViewInv
  OBVIOUS
<1>1. IInv
  BY InitInv DEF ViewInit, HistoryInit
<1>2. ViewTypeOK
  BY <1>1 DEF IInv, ViewInit, ViewTypeOK
<1>3. PublisherIsSeen /\ AnswerWasTrue /\ OnlineIsConfirmed
  BY DEF ViewInit, PublisherIsSeen, AnswerWasTrue, OnlineIsConfirmed
<1> QED BY <1>1, <1>2, <1>3 DEF ViewInv

\* A step of the supervisor does not touch what is cached of it, and a step of
\* the poller or of MediaMTX does not touch the supervisor.
LEMMA ViewStep ==
    ViewInv /\ [ViewNext]_<<vars, streak, view>> => ViewInv'
<1> SUFFICES ASSUME ViewInv, [ViewNext]_<<vars, streak, view>> PROVE ViewInv'
  OBVIOUS
<1>1. IInv'
  <2>1. [Next]_vars
    BY DEF ViewNext, HistoryNext
  <2> QED BY <2>1, InvStep DEF ViewInv
<1>2. TypeOK'
  BY <1>1 DEF IInv
<1> USE DEF ViewInv, ViewTypeOK, PublisherIsSeen, AnswerWasTrue,
           OnlineIsConfirmed
<1>3. CASE UNCHANGED view
  BY <1>1, <1>2, <1>3 DEF view
<1>4. CASE CopyEntries
  BY <1>1, <1>2, <1>4 DEF CopyEntries
<1>5. CASE Look
  BY <1>1, <1>2, <1>5 DEF Look
<1>6. CASE GetPath
  <2>1. poll' = "on" => published
    BY <1>6 DEF GetPath
  <2>2. published => seen
    BY <1>6 DEF GetPath
  <2> QED BY <1>1, <1>2, <1>6, <2>1, <2>2 DEF GetPath
<1>7. CASE GetPathFails
  BY <1>1, <1>2, <1>7 DEF GetPathFails
<1>8. CASE SetMediaMTX
  BY <1>1, <1>2, <1>8 DEF SetMediaMTX
<1>9. CASE Unregister
  BY <1>1, <1>2, <1>9 DEF Unregister
<1>10. CASE Publication
  BY <1>1, <1>2, <1>10 DEF Publication
<1> QED
  BY <1>3, <1>4, <1>5, <1>6, <1>7, <1>8, <1>9, <1>10 DEF ViewNext, PollOnce

\* The strengthened invariant holds in every reachable state.
LEMMA ViewInvariance == ViewSpec => []ViewInv
  BY ViewInitInv, ViewStep, PTL DEF ViewSpec

\* Type correctness of the supervisor and its view.
THEOREM ViewTypeCorrect == ViewSpec => []ViewTypeOK
<1>1. ViewInv => ViewTypeOK
  BY DEF ViewInv
<1> QED BY <1>1, ViewInvariance, PTL

\* The cached answer of MediaMTX is at most one successful round old, whatever
\* the supervisor does between the Snapshot, the request and the store.
THEOREM OnlineWasConfirmed == ViewSpec => []OnlineIsConfirmed
<1>1. ViewInv => OnlineIsConfirmed
  BY DEF ViewInv
<1> QED BY <1>1, ViewInvariance, PTL
=============================================================================
