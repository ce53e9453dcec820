--------------------------- MODULE VodCacheProofs ---------------------------
(***************************************************************************)
(* Proofs about VodCache, for every set of streams, handlers, preparations *)
(* and files, and any number of download slots.                            *)
(***************************************************************************)
EXTENDS VodCache, TLAPS

\* A call knows its stream, and the preparation it is about to cancel.
CallsKnow ==
    \A c \in Calls:
        /\ calls[c].pc # "idle" => calls[c].stream \in Streams
        /\ calls[c].pc \in {"check", "cancel", "await"} =>
              calls[c].ent \in Preps

\* A worker works for a stream, and an entry is the entry of one stream.
Owned ==
    /\ \A p \in Preps: worker[p] # "done" => owner[p] \in Streams
    /\ \A s \in Streams: prepares[s] \in Preps => owner[prepares[s]] = s

\* What a handler has taken from prepares is not there any more.
TakenIsOut ==
    \A c \in Calls, s \in Streams:
        calls[c].ent \in Preps => prepares[s] # calls[c].ent

\* A worker that copies has a file open.
CopiersHaveFiles == \A p \in Preps: worker[p] = "copy" => fd[p] \in Inodes

IInv ==
    /\ TypeOK
    /\ CallsKnow
    /\ Owned
    /\ TakenIsOut
    /\ CopiersHaveFiles
    /\ CancelIsThere

\* A manager that starts has no preparation yet, whatever files there are.
LEMMA InitInv == Init => IInv
  BY MarkersAreDistinct
  DEF Init, IInv, TypeOK, CallRecords, Idle, CallsKnow, Owned, TakenIsOut,
      CopiersHaveFiles, CancelIsThere

\* A step of a worker before its last: only its own place and the files change.
WorkerStep(p) ==
    \/ TakeSlot(p) \/ GiveUpSlot(p) \/ ResolvePage(p) \/ StatAgain(p)
    \/ OpenPart(p) \/ CopyEnds(p) \/ RenamePart(p) \/ RemovePart(p)

\* What all these steps have in common.
LEMMA WorkerFrame ==
    ASSUME TypeOK, NEW p \in Preps, WorkerStep(p)
    PROVE  /\ UNCHANGED <<stored, prepares, owner, cancelled, settled, cooling,
                          calls>>
           /\ worker[p] # "done"
           /\ \E to \in Working \cup {"done"}:
                worker' = [worker EXCEPT ![p] = to]
  BY DEF WorkerStep, TakeSlot, GiveUpSlot, ResolvePage, StatAgain, OpenPart,
         CopyEnds, RenamePart, RemovePart, Step, Working

\* Workers keep the types of the files, and whoever copies has opened one.
LEMMA FilesStep ==
    ASSUME TypeOK, Owned, CopiersHaveFiles, NEW p \in Preps, WorkerStep(p)
    PROVE  /\ fd' \in [Preps -> Inodes \cup {None}]
           /\ part' \in [Streams -> Inodes \cup {None}]
           /\ cache' \in [Streams -> Inodes \cup {None}]
           /\ writer' \in [Inodes -> Preps \cup {None}]
           /\ whole' \subseteq Inodes
           /\ CopiersHaveFiles'
<1> USE DEF TypeOK, Step
<1>1. CASE TakeSlot(p) \/ GiveUpSlot(p) \/ ResolvePage(p) \/ StatAgain(p)
  BY <1>1
  DEF TakeSlot, GiveUpSlot, ResolvePage, StatAgain, files, CopiersHaveFiles
<1>2. CASE OpenPart(p)
  BY <1>2 DEF OpenPart, files, CopiersHaveFiles
<1>3. CASE CopyEnds(p)
  <2>1. fd[p] \in Inodes
    BY <1>3 DEF CopyEnds, CopiersHaveFiles
  <2> QED BY <1>3, <2>1 DEF CopyEnds, CopiersHaveFiles
<1>4. CASE RenamePart(p)
  <2>1. owner[p] \in Streams
    BY <1>4 DEF RenamePart, Owned
  <2> QED BY <1>4, <2>1 DEF RenamePart, files, CopiersHaveFiles
<1>5. CASE RemovePart(p)
  BY <1>5 DEF RemovePart, CopiersHaveFiles
<1> QED BY <1>1, <1>2, <1>3, <1>4, <1>5 DEF WorkerStep

\* The records a handler puts into "calls".
LEMMA CallRecordsAreClosed ==
    /\ Idle \in CallRecords
    /\ \A s \in Streams:
          [Idle EXCEPT !.pc = "stat", !.stream = s] \in CallRecords
    /\ \A s \in Streams, delete \in BOOLEAN:
          [Idle EXCEPT !.pc = "take", !.stream = s, !.delete = delete]
              \in CallRecords
    /\ \A r \in CallRecords, pc \in {"install", "launch", "cancel", "await",
                                      "cleanpart"}:
          [r EXCEPT !.pc = pc] \in CallRecords
    /\ \A r \in CallRecords, p \in Preps:
          [r EXCEPT !.pc = "check", !.ent = p] \in CallRecords
    /\ \A r \in CallRecords:
          [r EXCEPT !.pc = "clean", !.ent = None] \in CallRecords
  BY DEF CallRecords, Idle

\* What a call may know when it is replaced by r.
Knows(r) ==
    /\ r \in CallRecords
    /\ r.pc # "idle" => r.stream \in Streams
    /\ r.pc \in {"check", "cancel", "await"} => r.ent \in Preps
    /\ r.ent \in Preps => \A s \in Streams: prepares[s] # r.ent
    /\ r.pc = "cancel" => r.ent \notin settled

\* A step of one handler that changes nothing else the invariant speaks of.
LEMMA CallOnlyStep ==
    ASSUME IInv, NEW c \in Calls, NEW r, Knows(r),
           calls' = [calls EXCEPT ![c] = r],
           stored' \subseteq Streams,
           UNCHANGED <<entries, files>>
    PROVE  IInv'
<1> USE DEF IInv, entries, files, Knows
<1>1. TypeOK'
  BY DEF TypeOK
<1>2. CallsKnow'
  BY DEF TypeOK, CallsKnow
<1>3. Owned'
  BY DEF Owned
<1>4. TakenIsOut'
  BY DEF TypeOK, TakenIsOut
<1>5. CopiersHaveFiles'
  BY DEF CopiersHaveFiles
<1>6. CancelIsThere'
  BY DEF TypeOK, CancelIsThere
<1> QED BY <1>1, <1>2, <1>3, <1>4, <1>5, <1>6

\* Where a call goes after the preparation.
LEMMA ProceedKnows ==
    ASSUME IInv, NEW c \in Calls, calls[c].pc # "idle"
    PROVE  Knows(Proceed(c))
<1> DEFINE r == Proceed(c)
<1> USE DEF Proceed
<1>1. calls[c] \in CallRecords /\ calls[c].stream \in Streams
  BY DEF IInv, TypeOK, CallsKnow
<1>2. r \in CallRecords
  BY <1>1, CallRecordsAreClosed
<1>3. r.ent = None /\ r.pc \in {"clean", "idle"}
  BY <1>1 DEF CallRecords, Idle
<1>4. r.pc # "idle" => r.stream \in Streams
  BY <1>1 DEF CallRecords, Idle
<1>5. None \notin Preps
  BY MarkersAreDistinct
<1> HIDE DEF r, Proceed
<1>6. Knows(r)
  BY <1>2, <1>3, <1>4, <1>5 DEF Knows
<1> QED BY <1>6 DEF r

\* Begin, Stop and every step of a call that leaves the entries and the files
\* alone.
LEMMA CallSteps ==
    ASSUME IInv, NEW c \in Calls,
           \/ \E s \in Streams:
                Begin(c, s) \/ \E delete \in BOOLEAN: Stop(c, s, delete)
           \/ StatCache(c) \/ AlreadyPreparing(c) \/ CheckCancel(c)
           \/ AwaitDone(c)
    PROVE  IInv'
<1> DEFINE r == calls'[c]
<1>1. calls[c] \in CallRecords /\ stored \subseteq Streams
  BY DEF IInv, TypeOK
<1>2. /\ UNCHANGED <<entries, files>>
      /\ calls' = [calls EXCEPT ![c] = r]
      /\ stored' \subseteq Streams
  BY <1>1
  DEF Begin, Stop, StatCache, AlreadyPreparing, CheckCancel, AwaitDone,
      IInv, TypeOK
<1> HIDE DEF r
<1>3. Idle.ent = None /\ Idle.pc = "idle" /\ None \notin Preps
  BY MarkersAreDistinct DEF Idle
<1>4. CASE \E s \in Streams: Begin(c, s)
  <2>1. PICK s \in Streams: Begin(c, s)
    BY <1>4
  <2>2. r = [Idle EXCEPT !.pc = "stat", !.stream = s]
    BY <2>1 DEF r, Begin, IInv, TypeOK
  <2>3. Knows(r)
    BY <2>2, <1>3, CallRecordsAreClosed DEF Knows, Idle
  <2> QED BY <1>2, <2>3, CallOnlyStep
<1>5. CASE \E s \in Streams, delete \in BOOLEAN: Stop(c, s, delete)
  <2>1. PICK s \in Streams, delete \in BOOLEAN: Stop(c, s, delete)
    BY <1>5
  <2>2. r = [Idle EXCEPT !.pc = "take", !.stream = s, !.delete = delete]
    BY <2>1 DEF r, Stop, IInv, TypeOK
  <2>3. Knows(r)
    BY <2>2, <1>3, CallRecordsAreClosed DEF Knows, Idle
  <2> QED BY <1>2, <2>3, CallOnlyStep
<1>6. CASE StatCache(c)
  <2>1. PICK pc \in {"install", "launch"}: r = [calls[c] EXCEPT !.pc = pc]
    BY <1>6 DEF r, StatCache, IInv, TypeOK
  <2>2. r \in CallRecords
    BY <2>1, <1>1, CallRecordsAreClosed
  <2>3. r.pc = pc /\ r.stream = calls[c].stream /\ r.ent = calls[c].ent
    BY <2>1, <1>1 DEF CallRecords
  <2>4. calls[c].pc # "idle"
    BY <1>6 DEF StatCache
  <2>5. Knows(r)
    BY <2>2, <2>3, <2>4 DEF Knows, IInv, CallsKnow, TakenIsOut
  <2> QED BY <1>2, <2>5, CallOnlyStep
<1>7. CASE AlreadyPreparing(c)
  <2>1. r = Idle
    BY <1>7 DEF r, AlreadyPreparing, IInv, TypeOK
  <2>2. Knows(r)
    BY <2>1, <1>3, CallRecordsAreClosed DEF Knows
  <2> QED BY <1>2, <2>2, CallOnlyStep
<1>8. CASE CheckCancel(c)
  <2>1. calls[c].pc = "check" /\ calls[c].ent \in Preps
    BY <1>8 DEF CheckCancel, IInv, CallsKnow
  <2>2. CASE calls[c].ent \in settled
    <3>1. r = Proceed(c)
      BY <1>8, <2>2 DEF r, CheckCancel, IInv, TypeOK
    <3>2. Knows(r)
      BY <2>1, <3>1, ProceedKnows
    <3> QED BY <1>2, <3>2, CallOnlyStep
  <2>3. CASE calls[c].ent \notin settled
    <3>1. r = [calls[c] EXCEPT !.pc = "cancel"]
      BY <1>8, <2>3 DEF r, CheckCancel, IInv, TypeOK
    <3>2. r \in CallRecords
      BY <3>1, <1>1, CallRecordsAreClosed
    <3>3. r.ent = calls[c].ent /\ r.stream = calls[c].stream
      BY <3>1, <1>1 DEF CallRecords
    <3>4. Knows(r)
      BY <2>1, <2>3, <3>2, <3>3 DEF Knows, IInv, CallsKnow, TakenIsOut
    <3> QED BY <1>2, <3>4, CallOnlyStep
  <2> QED BY <2>2, <2>3
<1>9. CASE AwaitDone(c)
  <2>1. calls[c].pc # "idle" /\ r = Proceed(c)
    BY <1>9 DEF r, AwaitDone, IInv, TypeOK
  <2>2. Knows(r)
    BY <2>1, ProceedKnows
  <2> QED BY <1>2, <2>2, CallOnlyStep
<1> QED BY <1>4, <1>5, <1>6, <1>7, <1>8, <1>9

\* The file is there: a Ready entry stands for no preparation.
LEMMA InstallReadyStep ==
    ASSUME IInv, NEW c \in Calls, InstallReady(c)
    PROVE  IInv'
<1> USE DEF IInv, InstallReady, files
<1>1. TypeOK'
  BY CallRecordsAreClosed DEF TypeOK
<1>2. calls' = [calls EXCEPT ![c] = Idle] /\ Idle.ent = None
      /\ Idle.pc = "idle" /\ Ready \notin Preps /\ None \notin Preps
  BY MarkersAreDistinct DEF Idle
<1>3. CallsKnow'
  BY <1>2 DEF TypeOK, CallsKnow
<1>4. Owned' /\ TakenIsOut'
  BY <1>2 DEF TypeOK, Owned, TakenIsOut
<1>5. CopiersHaveFiles' /\ CancelIsThere'
  BY <1>2 DEF TypeOK, CopiersHaveFiles, CancelIsThere
<1> QED BY <1>1, <1>3, <1>4, <1>5

\* A new preparation: nobody refers to p yet, so it is nobody's taken entry,
\* and that it is not settled any more can only help.
LEMMA LaunchStep ==
    ASSUME IInv, NEW c \in Calls, NEW p \in Preps, Launch(c, p)
    PROVE  IInv'
<1> DEFINE s == calls[c].stream
<1>1. s \in Streams
  BY DEF IInv, CallsKnow, Launch
<1>2. /\ calls' = [calls EXCEPT ![c] = Idle] /\ Idle.ent = None
      /\ Idle.pc = "idle" /\ None \notin Preps
      /\ prepares' = [prepares EXCEPT ![s] = p]
      /\ worker' = [worker EXCEPT ![p] = "slot"]
      /\ owner' = [owner EXCEPT ![p] = s]
      /\ UNCHANGED <<stored, files>>
  BY MarkersAreDistinct DEF Idle, Launch
<1>3. /\ \A t \in Streams \ {s}: prepares[t] # p
      /\ \A d \in Calls: calls[d].ent # p
  BY DEF Launch, Available
<1>4. /\ cancelled' = cancelled \ {p} /\ settled' = settled \ {p}
      /\ cooling' = cooling \ {p}
  BY DEF Launch
<1> HIDE DEF s
<1> USE DEF IInv, files
<1>5. TypeOK'
  BY <1>1, <1>2, <1>4, CallRecordsAreClosed DEF TypeOK
<1>6. CallsKnow'
  BY <1>2 DEF TypeOK, CallsKnow
<1>7. Owned'
  BY <1>1, <1>2, <1>3 DEF TypeOK, Owned
<1>8. TakenIsOut'
  BY <1>1, <1>2, <1>3 DEF TypeOK, TakenIsOut
<1>9. CopiersHaveFiles'
  BY <1>2 DEF TypeOK, CopiersHaveFiles
<1>10. CancelIsThere'
  BY <1>2, <1>4 DEF TypeOK, CancelIsThere
<1> QED BY <1>5, <1>6, <1>7, <1>8, <1>9, <1>10

\* cancelPreparation takes the entry of its stream out of prepares.  It was
\* the entry of that stream only, so it is in prepares no more.
LEMMA TakePreparationStep ==
    ASSUME IInv, NEW c \in Calls, TakePreparation(c)
    PROVE  IInv'
<1> DEFINE s == calls[c].stream
           p == prepares[s]
           r == calls'[c]
<1>1. /\ s \in Streams /\ calls[c] \in CallRecords /\ calls[c].pc = "take"
      /\ None \notin Preps /\ p \in Preps \cup {Ready, None}
  BY MarkersAreDistinct DEF IInv, TypeOK, CallsKnow, TakePreparation
<1>2. /\ prepares' = [prepares EXCEPT ![s] = None]
      /\ UNCHANGED <<stored, worker, owner, cancelled, settled, cooling, files>>
      /\ calls' = [calls EXCEPT ![c] = r]
  BY DEF TakePreparation, IInv, TypeOK
<1>3. /\ r \in CallRecords
      /\ r.pc # "idle" => r.stream \in Streams
      /\ r.pc \in {"check", "cancel", "await"} => r.ent \in Preps
      /\ r.pc # "cancel"
      /\ r.ent \in Preps => r.ent = p
  <2>1. CASE p \in Preps
    <3>1. r = [calls[c] EXCEPT !.pc = "check", !.ent = p]
      BY <2>1 DEF TakePreparation, IInv, TypeOK
    <3>2. [calls[c] EXCEPT !.pc = "check", !.ent = p] \in CallRecords
      BY <1>1, <2>1, CallRecordsAreClosed
    <3>3. r.pc = "check" /\ r.ent = p /\ r.stream = s
      BY <1>1, <3>1 DEF CallRecords
    <3> QED BY <1>1, <2>1, <3>1, <3>2, <3>3
  <2>2. CASE p \notin Preps
    <3>1. r = Proceed(c)
      BY <2>2 DEF TakePreparation, IInv, TypeOK
    <3>2. Knows(Proceed(c))
      BY <1>1, ProceedKnows
    <3>3. Proceed(c).ent = None /\ Proceed(c).pc # "cancel"
      BY <1>1 DEF Proceed, CallRecords, Idle
    <3> QED BY <1>1, <3>1, <3>2, <3>3 DEF Knows
  <2> QED BY <2>1, <2>2
<1>4. p \in Preps => \A t \in Streams \ {s}: prepares[t] # p
  BY <1>1 DEF IInv, Owned
<1>5. \A t \in Streams: prepares'[t] = IF t = s THEN None ELSE prepares[t]
  BY <1>1, <1>2 DEF IInv, TypeOK
<1>6. \A d \in Calls: calls'[d] = IF d = c THEN r ELSE calls[d]
  BY <1>2 DEF IInv, TypeOK
<1>7. /\ prepares' \in [Streams -> Preps \cup {Ready, None}]
      /\ calls' \in [Calls -> CallRecords]
  BY <1>1, <1>2, <1>3 DEF IInv, TypeOK
<1> HIDE DEF s, r
<1> USE DEF IInv, files
<1>8. TypeOK'
  BY <1>2, <1>7 DEF TypeOK
<1>9. CallsKnow'
  BY <1>3, <1>6 DEF CallsKnow
<1>10. Owned'
  BY <1>1, <1>2, <1>5 DEF Owned
<1>11. TakenIsOut'
  BY <1>1, <1>3, <1>4, <1>5, <1>6 DEF TakenIsOut
<1>12. CopiersHaveFiles'
  BY <1>2 DEF CopiersHaveFiles
<1>13. CancelIsThere'
  BY <1>2, <1>3, <1>6 DEF CancelIsThere
<1> QED BY <1>8, <1>9, <1>10, <1>11, <1>12, <1>13

\* The context of a taken preparation is cancelled.
LEMMA CancelPreparationStep ==
    ASSUME IInv, NEW c \in Calls, CancelPreparation(c)
    PROVE  IInv'
<1> DEFINE r == [calls[c] EXCEPT !.pc = "await"]
<1>1. /\ calls[c] \in CallRecords /\ calls[c].stream \in Streams
      /\ calls[c].ent \in Preps
  BY DEF IInv, TypeOK, CallsKnow, CancelPreparation
<1>2. /\ r \in CallRecords
      /\ r.pc = "await" /\ r.ent = calls[c].ent
      /\ r.stream = calls[c].stream
  BY <1>1 DEF CallRecords
<1>3. /\ calls' = [calls EXCEPT ![c] = r]
      /\ cancelled' = cancelled \cup {calls[c].ent}
      /\ UNCHANGED <<stored, prepares, worker, owner, settled, cooling, files>>
  BY DEF CancelPreparation, IInv, TypeOK
<1> HIDE DEF r
<1> USE DEF IInv, files
<1>4. TypeOK'
  BY <1>1, <1>2, <1>3 DEF TypeOK
<1>5. CallsKnow'
  BY <1>1, <1>2, <1>3 DEF TypeOK, CallsKnow
<1>6. Owned'
  BY <1>3 DEF Owned
<1>7. TakenIsOut'
  BY <1>2, <1>3 DEF TypeOK, TakenIsOut
<1>8. CopiersHaveFiles' /\ CancelIsThere'
  BY <1>2, <1>3 DEF TypeOK, CopiersHaveFiles, CancelIsThere
<1> QED BY <1>4, <1>5, <1>6, <1>7, <1>8

\* A delete removes the files last.
LEMMA CleanStep ==
    ASSUME IInv, NEW c \in Calls, CleanCache(c) \/ CleanPart(c)
    PROVE  IInv'
<1> DEFINE r == calls'[c]
<1>1. /\ calls[c] \in CallRecords /\ calls[c].stream \in Streams
      /\ None \notin Preps
  BY MarkersAreDistinct DEF IInv, TypeOK, CallsKnow, CleanCache, CleanPart
<1>2. Idle \in CallRecords /\ Idle.pc = "idle" /\ Idle.ent = None
  BY CallRecordsAreClosed DEF Idle
<1>3. /\ r \in CallRecords
      /\ r.pc \in {"idle", "cleanpart"}
      /\ r.pc # "idle" => r.stream \in Streams
      /\ r.ent \in Preps => r.ent = calls[c].ent
  <2>1. CASE CleanCache(c)
    <3>1. r = [calls[c] EXCEPT !.pc = "cleanpart"]
      BY <2>1 DEF CleanCache, IInv, TypeOK
    <3>2. r.pc = "cleanpart" /\ r.stream = calls[c].stream
          /\ r.ent = calls[c].ent
      BY <1>1, <3>1 DEF CallRecords
    <3> QED BY <1>1, <3>1, <3>2, CallRecordsAreClosed
  <2>2. CASE CleanPart(c)
    <3>1. r = Idle
      BY <2>2 DEF CleanPart, IInv, TypeOK
    <3> QED BY <1>1, <1>2, <3>1
  <2> QED BY <2>1, <2>2
<1>4. /\ calls' = [calls EXCEPT ![c] = r]
      /\ part' \in [Streams -> Inodes \cup {None}]
      /\ cache' \in [Streams -> Inodes \cup {None}]
      /\ UNCHANGED <<stored, entries, fd, writer, whole>>
  BY DEF CleanCache, CleanPart, IInv, TypeOK
<1> HIDE DEF r
<1> USE DEF IInv, entries
<1>5. TypeOK'
  BY <1>3, <1>4 DEF TypeOK
<1>6. CallsKnow' /\ Owned'
  BY <1>3, <1>4 DEF TypeOK, CallsKnow, Owned
<1>7. TakenIsOut'
  BY <1>3, <1>4 DEF TypeOK, TakenIsOut
<1>8. CopiersHaveFiles' /\ CancelIsThere'
  BY <1>3, <1>4 DEF TypeOK, CopiersHaveFiles, CancelIsThere
<1> QED BY <1>5, <1>6, <1>7, <1>8

\* A worker at work.
LEMMA WorkerStepKeeps ==
    ASSUME IInv, NEW p \in Preps, WorkerStep(p)
    PROVE  IInv'
<1> USE DEF IInv
<1>1. PICK to \in Working \cup {"done"}: worker' = [worker EXCEPT ![p] = to]
  BY WorkerFrame
<1>2. UNCHANGED <<stored, prepares, owner, cancelled, settled, cooling, calls>>
      /\ worker[p] # "done"
  BY WorkerFrame
<1>3. TypeOK'
  BY <1>1, <1>2, FilesStep DEF TypeOK
<1>4. CopiersHaveFiles'
  BY FilesStep
<1>5. CallsKnow' /\ TakenIsOut' /\ CancelIsThere'
  BY <1>2 DEF CallsKnow, TakenIsOut, CancelIsThere
<1>6. Owned'
  BY <1>1, <1>2 DEF TypeOK, Owned
<1> QED BY <1>3, <1>4, <1>5, <1>6

\* finishPreparation settles an entry only while it is in prepares, so never
\* one that a handler has taken and is about to cancel.
LEMMA FinishStep ==
    ASSUME IInv, NEW p \in Preps, Finish(p)
    PROVE  IInv'
<1> USE DEF IInv
<1>1. /\ worker[p] \in {"succeed", "fail"} /\ owner[p] \in Streams
      /\ worker' = [worker EXCEPT ![p] = "done"]
      /\ UNCHANGED <<stored, prepares, owner, cancelled, files, calls>>
  BY DEF Finish, Owned
<1>2. settled' = settled \/ (settled' = settled \cup {p}
                               /\ prepares[owner[p]] = p)
  BY DEF Finish
<1>3. TypeOK'
  BY <1>1 DEF TypeOK, Finish, files
<1>4. CallsKnow' /\ TakenIsOut'
  BY <1>1 DEF CallsKnow, TakenIsOut
<1>5. Owned' /\ CopiersHaveFiles'
  BY <1>1 DEF TypeOK, Owned, CopiersHaveFiles, files
<1>6. CancelIsThere'
  BY <1>1, <1>2 DEF CancelIsThere, TakenIsOut, CallsKnow
<1> QED BY <1>3, <1>4, <1>5, <1>6

\* A restart forgets the entries and the calls.
LEMMA RestartStep ==
    ASSUME IInv, Restart
    PROVE  IInv'
<1>1. Idle \in CallRecords /\ Idle.pc = "idle" /\ Idle.ent = None
      /\ None \notin Preps
  BY CallRecordsAreClosed, MarkersAreDistinct DEF Idle
<1>2. TypeOK'
  BY <1>1 DEF IInv, TypeOK, Restart
<1> QED
  BY <1>1, <1>2
  DEF IInv, Restart, CallsKnow, Owned, TakenIsOut, CopiersHaveFiles,
      CancelIsThere

\* Every step of the manager keeps the invariant.
LEMMA NextStep == IInv /\ [Next]_vars => IInv'
<1> SUFFICES ASSUME IInv, [Next]_vars PROVE IInv'
  OBVIOUS
<1>1. CASE \E c \in Calls, s \in Streams:
             Begin(c, s) \/ \E delete \in BOOLEAN: Stop(c, s, delete)
  BY <1>1, CallSteps
<1>2. CASE \E c \in Calls: CallStep(c)
  <2>1. PICK c \in Calls: CallStep(c)
    BY <1>2
  <2>2. CASE \/ StatCache(c) \/ AlreadyPreparing(c) \/ CheckCancel(c)
             \/ AwaitDone(c)
    BY <2>2, CallSteps
  <2>3. CASE InstallReady(c)
    BY <2>3, InstallReadyStep
  <2>4. CASE \E p \in Preps: Launch(c, p)
    BY <2>4, LaunchStep
  <2>5. CASE TakePreparation(c)
    BY <2>5, TakePreparationStep
  <2>6. CASE CancelPreparation(c)
    BY <2>6, CancelPreparationStep
  <2>7. CASE CleanCache(c) \/ CleanPart(c)
    BY <2>7, CleanStep
  <2> QED
    BY <2>1, <2>2, <2>3, <2>4, <2>5, <2>6, <2>7 DEF CallStep
<1>3. CASE \E p \in Preps: Work(p) \/ RetryDue(p)
  <2>1. PICK p \in Preps: Work(p) \/ RetryDue(p)
    BY <1>3
  <2>2. CASE WorkerStep(p)
    BY <2>2, WorkerStepKeeps
  <2>3. CASE Finish(p)
    BY <2>3, FinishStep
  <2>4. CASE RetryDue(p)
    BY <2>4
    DEF RetryDue, IInv, TypeOK, CallsKnow, Owned, TakenIsOut,
        CopiersHaveFiles, CancelIsThere, files
  <2> QED BY <2>1, <2>2, <2>3, <2>4 DEF Work, WorkerStep
<1>4. CASE Restart
  BY <1>4, RestartStep
<1>5. CASE UNCHANGED vars
  BY <1>5
  DEF IInv, TypeOK, CallsKnow, Owned, TakenIsOut, CopiersHaveFiles,
      CancelIsThere, vars, entries, files
<1> QED BY <1>1, <1>2, <1>3, <1>4, <1>5 DEF Next

\* The invariant holds in every reachable state.
THEOREM Invariance == Spec => []IInv
<1>1. Init => IInv
  BY InitInv
<1>2. IInv /\ [Next]_vars => IInv'
  BY NextStep
<1> QED BY <1>1, <1>2, PTL DEF Spec

\* Whatever prepares, the entries, the handlers and the files go through, each
\* keeps its type, and only a recorded failure is waited after.
THEOREM TypeCorrect == Spec => []TypeOK
<1>1. IInv => TypeOK
  BY DEF IInv
<1> QED BY <1>1, Invariance, PTL

\* The function that cancelPreparation calls after the unlock is never nil,
\* whichever worker records its result in between.
THEOREM CancelIsNeverCleared == Spec => []CancelIsThere
<1>1. IInv => CancelIsThere
  BY DEF IInv
<1> QED BY <1>1, Invariance, PTL

-----------------------------------------------------------------------------

\* A worker that is still at work has no result recorded yet.
ActiveIsOpen == \A p \in Preps: worker[p] # "done" => p \notin settled

\* Only finishPreparation records a result, in the worker's last step.
LEMMA OpenStep == IInv /\ ActiveIsOpen /\ [Next]_vars => ActiveIsOpen'
<1> SUFFICES ASSUME IInv, ActiveIsOpen, [Next]_vars PROVE ActiveIsOpen'
  OBVIOUS
<1> USE DEF ActiveIsOpen, IInv, TypeOK
<1>1. CASE UNCHANGED <<worker, settled>>
  BY <1>1
<1>2. CASE \E c \in Calls, p \in Preps: Launch(c, p)
  BY <1>2 DEF Launch
<1>3. CASE \E p \in Preps: WorkerStep(p)
  BY <1>3, WorkerFrame
<1>4. CASE \E p \in Preps: Finish(p)
  BY <1>4 DEF Finish
<1>5. CASE Restart
  BY <1>5 DEF Restart
<1> QED
  BY <1>1, <1>2, <1>3, <1>4, <1>5
  DEF Next, vars, entries, files, Begin, Stop, CallStep, StatCache,
      InstallReady, AlreadyPreparing, TakePreparation, CheckCancel,
      CancelPreparation, AwaitDone, CleanCache, CleanPart, Work, WorkerStep,
      RetryDue

\* A step that leaves a preparation where it is, and every handler that has
\* found it.
LEMMA StillStoppable ==
    ASSUME NEW p \in Preps, Stoppable(p),
           UNCHANGED <<prepares, owner>>, cancelled \subseteq cancelled',
           \A c \in Calls: calls[c].pc \in {"check", "cancel"} => calls'[c] = calls[c]
    PROVE  Stoppable(p)'
  BY DEF Stoppable

\* An active preparation leaves the reach of stops only when a ready entry
\* takes its place.
LEMMA DisplacedStep ==
    ASSUME IInv, ActiveIsOpen, [Next]_vars, NEW p \in Preps,
           worker[p] # "done", Stoppable(p)
    PROVE  \/ worker'[p] = "done" \/ Stoppable(p)'
           \/ prepares[owner[p]] = p /\ prepares'[owner[p]] = Ready
<1> USE DEF IInv, TypeOK
<1>1. p \notin settled /\ p \notin cooling /\ owner[p] \in Streams
  BY DEF ActiveIsOpen, Owned
<1>2. CASE UNCHANGED <<prepares, owner, cancelled, calls>>
  BY <1>2 DEF Stoppable
<1>3. ASSUME NEW c \in Calls, NEW s \in Streams,
             Begin(c, s) \/ \E delete \in BOOLEAN: Stop(c, s, delete)
      PROVE  Stoppable(p)'
  <2>1. calls[c] = Idle
    BY <1>3, Zenon DEF Begin, Stop
  <2>2. calls[c].pc = "idle"
    BY <2>1 DEF Idle
  <2> QED BY <1>3, <2>2, StillStoppable DEF Begin, Stop, entries
<1>4. ASSUME NEW c \in Calls,
             \/ StatCache(c) \/ AlreadyPreparing(c) \/ AwaitDone(c)
             \/ CleanCache(c) \/ CleanPart(c)
      PROVE  Stoppable(p)'
  BY <1>4, StillStoppable
  DEF StatCache, AlreadyPreparing, AwaitDone, CleanCache, CleanPart, entries
<1>5. ASSUME NEW c \in Calls, InstallReady(c)
      PROVE  \/ Stoppable(p)'
             \/ prepares[owner[p]] = p /\ prepares'[owner[p]] = Ready
  <2>1. CASE prepares[owner[p]] = p /\ calls[c].stream = owner[p]
    BY <1>1, <1>5, <2>1 DEF InstallReady
  <2>2. CASE ~(prepares[owner[p]] = p /\ calls[c].stream = owner[p])
    BY <1>1, <1>5, <2>2 DEF InstallReady, Stoppable
  <2> QED BY <2>1, <2>2
<1>6. ASSUME NEW c \in Calls, NEW q \in Preps, Launch(c, q)
      PROVE  Stoppable(p)'
  <2>1. q # p /\ prepares[calls[c].stream] # p /\ calls[c].stream \in Streams
    BY <1>1, <1>6 DEF Launch, Available, Holds, CallsKnow
  <2> QED BY <1>1, <1>6, <2>1 DEF Launch, Stoppable
<1>7. ASSUME NEW c \in Calls, TakePreparation(c)
      PROVE  Stoppable(p)'
  <2>1. calls[c].pc = "take" /\ calls[c].stream \in Streams
    BY <1>7 DEF TakePreparation, CallsKnow
  <2>2. CASE prepares[calls[c].stream] = p
    BY <1>7, <2>1, <2>2 DEF TakePreparation, Stoppable, CallRecords
  <2>3. CASE prepares[calls[c].stream] # p
    BY <1>7, <2>1, <2>3 DEF TakePreparation, Stoppable
  <2> QED BY <2>2, <2>3
<1>8. ASSUME NEW c \in Calls, CheckCancel(c)
      PROVE  Stoppable(p)'
  <2>1. CASE calls[c].ent = p
    BY <1>1, <1>8, <2>1 DEF CheckCancel, Stoppable, entries, CallRecords
  <2>2. CASE calls[c].ent # p
    BY <1>8, <2>2 DEF CheckCancel, Stoppable, entries
  <2> QED BY <2>1, <2>2
<1>9. ASSUME NEW c \in Calls, CancelPreparation(c)
      PROVE  Stoppable(p)'
  BY <1>9 DEF CancelPreparation, Stoppable
<1>10. ASSUME NEW q \in Preps, Work(q) \/ RetryDue(q)
       PROVE  Stoppable(p)'
  <2>1. UNCHANGED <<prepares, owner, cancelled, calls>>
    BY <1>10, WorkerFrame DEF Work, WorkerStep, Finish, RetryDue
  <2> QED BY <2>1, <1>2 DEF Stoppable
<1>11. CASE Restart
  BY <1>11 DEF Restart
<1> QED
  BY <1>2, <1>3, <1>4, <1>5, <1>6, <1>7, <1>8, <1>9, <1>10, <1>11
  DEF Next, CallStep, vars, entries

\* A stop of a stream reaches every download of it that is in progress, but
\* for those that a Prepare has declared unnecessary because the file is there.
THEOREM DisplacedByReadyOnly == Spec => OnlyReadyDisplaces
<1>1. Init => IInv /\ ActiveIsOpen
  BY InitInv DEF Init, ActiveIsOpen
<1>2. IInv /\ ActiveIsOpen /\ [Next]_vars => (IInv /\ ActiveIsOpen)'
  BY NextStep, OpenStep
<1>3. IInv /\ ActiveIsOpen /\ [Next]_vars =>
        [\A p \in Preps:
            worker[p] # "done" /\ Stoppable(p) =>
                \/ worker'[p] = "done" \/ Stoppable(p)'
                \/ prepares[owner[p]] = p /\ prepares'[owner[p]] = Ready]_vars
  BY DisplacedStep
<1> QED BY <1>1, <1>2, <1>3, PTL DEF Spec, OnlyReadyDisplaces

-----------------------------------------------------------------------------
(***************************************************************************)
(* What becomes of the files.                                              *)
(***************************************************************************)

\* A .part file is nobody else's .part file and has no other name.
NamesDiffer ==
    \A s, t \in Streams:
        part[s] # None => part[s] # cache[t] /\ (part[s] = part[t] => s = t)

\* The worker that truncated the .part file of s last is writing to it still,
\* or has failed and is about to remove it.
Written(s) ==
    \E q \in Preps:
        /\ owner[q] = s
        /\ \/ worker[q] = "remove"
           \/ worker[q] = "copy" /\ fd[q] = part[s] /\ writer[part[s]] = q

\* A .part file that is not whole is being written, or left over from a crash
\* and not yet opened by anybody, unless its server announces no length.
PartIsWritten ==
    \A s \in Streams \ Unsized, p \in Preps:
        /\ part[s] # None /\ part[s] \notin whole
        /\ owner[p] = s /\ worker[p] \in {"copy", "rename"}
        => Written(s)

\* ffmpeg could observe a partial file of s.
Partial(s) == cache[s] # None /\ cache[s] \notin whole

\* Two downloads of one stream meet at its .part file: one has come to the
\* rename while another writes the file or has failed and is to remove it.
Shared(s) ==
    \E p, q \in Preps:
        /\ owner[p] = s /\ worker[p] = "rename"
        /\ owner[q] = s
        /\ \/ worker[q] = "remove"
           \/ worker[q] = "copy" /\ fd[q] = part[s]

\* Where the server announces the length of a file, a partial one gets its
\* final name in one way only: by the rename of a .part file that another
\* download of the same stream has under its hands.
OnlySharedIsPartial ==
    [][\A s \in Streams \ Unsized: ~Partial(s) /\ Partial(s)' =>
           Shared(s) /\ cache'[s] = part[s]]_vars

\* A file is opened under the name it has, or is a new one.
LEMMA NamesStep ==
    ASSUME IInv, NamesDiffer, [Next]_vars
    PROVE  NamesDiffer'
<1> USE DEF IInv, TypeOK, NamesDiffer
<1>1. CASE UNCHANGED <<part, cache>>
  BY <1>1
<1>2. ASSUME NEW c \in Calls, CleanCache(c) \/ CleanPart(c)
      PROVE  NamesDiffer'
  BY <1>2 DEF CleanCache, CleanPart
<1>3. ASSUME NEW p \in Preps, OpenPart(p)
      PROVE  NamesDiffer'
  <2>1. CASE UNCHANGED files
    BY <1>1, <2>1 DEF files
  <2>2. ASSUME NEW i \in Inodes,
               part[owner[p]] # None => i = part[owner[p]],
               part[owner[p]] = None =>
                   \A s \in Streams: i \notin {part[s], cache[s]},
               part' = [part EXCEPT ![owner[p]] = i], UNCHANGED cache
        PROVE  NamesDiffer'
    <3>1. CASE part[owner[p]] # None
      <4>1. part' = part
        BY <2>2, <3>1
      <4> QED BY <1>1, <2>2, <4>1
    <3>2. CASE part[owner[p]] = None
      BY <2>2, <3>2
    <3> QED BY <3>1, <3>2
  <2> QED BY <1>3, <2>1, <2>2 DEF OpenPart
<1>4. ASSUME NEW p \in Preps, CopyEnds(p)
      PROVE  NamesDiffer'
  BY <1>4 DEF CopyEnds
<1>5. ASSUME NEW p \in Preps, RenamePart(p)
      PROVE  NamesDiffer'
  <2>1. CASE UNCHANGED files
    BY <1>1, <2>1 DEF files
  <2>2. CASE /\ part[owner[p]] # None
             /\ cache' = [cache EXCEPT ![owner[p]] = part[owner[p]]]
             /\ part' = [part EXCEPT ![owner[p]] = None]
    <3>1. owner[p] \in Streams
      BY <1>5 DEF RenamePart, Step, Owned
    <3> QED BY <2>2, <3>1
  <2> QED BY <1>5, <2>1, <2>2 DEF RenamePart
<1>6. ASSUME NEW p \in Preps, RemovePart(p)
      PROVE  NamesDiffer'
  BY <1>6 DEF RemovePart
<1> QED
  BY <1>1, <1>2, <1>3, <1>4, <1>5, <1>6
  DEF Next, vars, entries, files, Begin, Stop, CallStep, StatCache,
      InstallReady, AlreadyPreparing, Launch, TakePreparation, CheckCancel,
      CancelPreparation, AwaitDone, Work, TakeSlot, GiveUpSlot, ResolvePage,
      StatAgain, Finish, RetryDue, Restart

\* A step of a worker that touches no file and does not begin or end a copy.
LEMMA NoFileStep ==
    ASSUME IInv, PartIsWritten, NEW p \in Preps,
           worker[p] \notin {"copy", "remove"}, UNCHANGED <<owner, files>>,
           NEW to \in Working \cup {"slot", "done"},
           to \notin {"copy", "rename"}, worker' = [worker EXCEPT ![p] = to]
    PROVE  PartIsWritten'
  BY DEF IInv, TypeOK, PartIsWritten, Written, files

\* A worker that opens the .part file becomes its writer.
LEMMA OpenKeepsWritten ==
    ASSUME IInv, NamesDiffer, PartIsWritten, NEW p \in Preps, OpenPart(p)
    PROVE  PartIsWritten'
<1>1. CASE Step(p, "open", "fail") /\ UNCHANGED files
  BY <1>1, NoFileStep DEF Step, Working
<1>2. ASSUME NEW i \in Inodes, Step(p, "open", "copy"),
             part[owner[p]] # None => i = part[owner[p]],
             part[owner[p]] = None =>
                 /\ \A s \in Streams: i \notin {part[s], cache[s]}
                 /\ \A q \in Preps: fd[q] # i,
             part' = [part EXCEPT ![owner[p]] = i],
             fd' = [fd EXCEPT ![p] = i],
             writer' = [writer EXCEPT ![i] = p],
             whole' = whole \ {i}
      PROVE  PartIsWritten'
  <2>1. owner[p] \in Streams /\ TypeOK /\ UNCHANGED owner
    BY <1>2 DEF Step, IInv, Owned
  <2>2. ASSUME NEW t \in Streams \ Unsized, t = owner[p]
        PROVE  Written(t)'
    BY <1>2, <2>1, <2>2 DEF Written, TypeOK, Step
  <2>3. ASSUME NEW t \in Streams \ Unsized, NEW r \in Preps, t # owner[p],
               part'[t] # None, part'[t] \notin whole',
               owner'[r] = t, worker'[r] \in {"copy", "rename"}
        PROVE  Written(t)'
    <3>1. part'[t] = part[t] /\ part[t] # i
      BY <1>2, <2>1, <2>3 DEF TypeOK, NamesDiffer
    <3>2. part[t] \notin whole /\ r # p
      BY <1>2, <2>1, <2>3, <3>1
    <3>3. worker[r] \in {"copy", "rename"} /\ owner[r] = t
      BY <1>2, <2>1, <2>3, <3>2 DEF Step, TypeOK
    <3>4. Written(t)
      BY <2>3, <3>1, <3>2, <3>3 DEF PartIsWritten
    <3>5. PICK q \in Preps:
              /\ owner[q] = t
              /\ \/ worker[q] = "remove"
                 \/ worker[q] = "copy" /\ fd[q] = part[t] /\ writer[part[t]] = q
      BY <3>4 DEF Written
    <3>6. q # p
      BY <1>2, <3>5 DEF Step
    <3>7. /\ worker'[q] = worker[q] /\ fd'[q] = fd[q] /\ owner'[q] = t
          /\ writer'[part'[t]] = writer[part[t]]
      BY <1>2, <2>1, <2>3, <3>1, <3>5, <3>6 DEF TypeOK, Step
    <3> QED BY <3>1, <3>5, <3>7 DEF Written
  <2> QED BY <2>2, <2>3 DEF PartIsWritten
<1> QED BY <1>1, <1>2 DEF OpenPart

\* A copy that ends leaves a whole file, or somebody else writing, or a file
\* that is to be removed.
LEMMA CopyKeepsWritten ==
    ASSUME IInv, PartIsWritten, NEW p \in Preps, CopyEnds(p)
    PROVE  PartIsWritten'
<1> USE DEF IInv, TypeOK, Step
<1>1. /\ worker[p] = "copy" /\ owner[p] \in Streams /\ fd[p] \in Inodes
      /\ UNCHANGED <<owner, part>>
      /\ fd' = [fd EXCEPT ![p] = None]
      /\ writer' = [writer EXCEPT ![fd[p]] = IF @ = p THEN None ELSE @]
  BY DEF CopyEnds, Owned, CopiersHaveFiles
<1>2. SUFFICES ASSUME NEW t \in Streams \ Unsized, NEW r \in Preps,
                      part'[t] # None, part'[t] \notin whole',
                      owner'[r] = t, worker'[r] \in {"copy", "rename"}
               PROVE  Written(t)'
  BY DEF PartIsWritten
<1>3. /\ part'[t] = part[t] /\ part[t] \notin whole
      /\ owner[r] = t /\ worker[r] \in {"copy", "rename"}
  BY <1>1, <1>2 DEF CopyEnds
<1>4. Written(t) /\ part[t] \in Inodes
  BY <1>2, <1>3 DEF PartIsWritten
<1>5. PICK q \in Preps:
          /\ owner[q] = t
          /\ \/ worker[q] = "remove"
             \/ worker[q] = "copy" /\ fd[q] = part[t] /\ writer[part[t]] = q
  BY <1>4 DEF Written
<1>6. CASE q # p
  <2>1. worker'[q] = worker[q] /\ fd'[q] = fd[q] /\ owner'[q] = t
    BY <1>1, <1>5, <1>6 DEF CopyEnds
  <2>2. writer[part[t]] = q => writer'[part[t]] = q
    BY <1>1, <1>4, <1>6
  <2> QED BY <1>3, <1>5, <2>1, <2>2 DEF Written
<1>7. CASE q = p
  <2>1. owner[p] = t /\ fd[p] = part[t] /\ writer[fd[p]] = p
    BY <1>1, <1>5, <1>7
  <2>2. ~(whole' = IF writer[fd[p]] = p THEN whole \cup {fd[p]} ELSE whole)
    BY <1>2, <1>3, <2>1
  <2>3. worker'[p] = "remove" /\ owner'[p] = t
    BY <1>1, <1>2, <2>1, <2>2 DEF CopyEnds
  <2> QED BY <2>3 DEF Written
<1> QED BY <1>6, <1>7

\* Whoever removes the .part file of its stream leaves none.
LEMMA RemoveKeepsWritten ==
    ASSUME IInv, PartIsWritten, NEW p \in Preps, RemovePart(p)
    PROVE  PartIsWritten'
<1>1. /\ worker[p] = "remove" /\ owner[p] \in Streams
      /\ worker' = [worker EXCEPT ![p] = "fail"]
      /\ part' = [part EXCEPT ![owner[p]] = None]
      /\ UNCHANGED <<owner, fd, cache, writer, whole>>
  BY DEF RemovePart, Step, IInv, Owned
<1>2. SUFFICES ASSUME NEW t \in Streams \ Unsized, NEW r \in Preps,
                      part'[t] # None, part'[t] \notin whole',
                      owner'[r] = t, worker'[r] \in {"copy", "rename"}
               PROVE  Written(t)'
  BY DEF PartIsWritten
<1>3. t # owner[p] /\ part'[t] = part[t] /\ r # p
  BY <1>1, <1>2 DEF IInv, TypeOK
<1>4. Written(t)
  BY <1>1, <1>2, <1>3 DEF PartIsWritten, IInv, TypeOK
<1> QED BY <1>1, <1>3, <1>4 DEF Written, IInv, TypeOK

\* Every step keeps a .part file written or whole, once it has been opened.
LEMMA WrittenStep ==
    ASSUME IInv, NamesDiffer, PartIsWritten, [Next]_vars
    PROVE  PartIsWritten'
<1> USE DEF IInv, TypeOK
<1>1. CASE UNCHANGED <<worker, owner, files>>
  BY <1>1 DEF PartIsWritten, Written, files
<1>2. ASSUME NEW c \in Calls, NEW p \in Preps, Launch(c, p)
      PROVE  PartIsWritten'
  BY <1>2 DEF Launch, Available, PartIsWritten, Written, files
<1>3. ASSUME NEW c \in Calls, CleanCache(c) \/ CleanPart(c)
      PROVE  PartIsWritten'
  BY <1>3 DEF CleanCache, CleanPart, PartIsWritten, Written, entries
<1>4. ASSUME NEW p \in Preps,
             TakeSlot(p) \/ GiveUpSlot(p) \/ ResolvePage(p) \/ StatAgain(p)
      PROVE  PartIsWritten'
  BY <1>4, NoFileStep
  DEF TakeSlot, GiveUpSlot, ResolvePage, StatAgain, Step, Working
<1>5. ASSUME NEW p \in Preps, Finish(p)
      PROVE  PartIsWritten'
  BY <1>5, NoFileStep DEF Finish
<1>6. ASSUME NEW p \in Preps, RenamePart(p)
      PROVE  PartIsWritten'
  <2>1. CASE Step(p, "rename", "remove") /\ UNCHANGED files
    BY <2>1, NoFileStep DEF Step, Working
  <2>2. CASE /\ Step(p, "rename", "succeed")
             /\ part' = [part EXCEPT ![owner[p]] = None]
             /\ UNCHANGED <<fd, writer, whole>>
    BY <2>2 DEF Step, PartIsWritten, Written
  <2> QED BY <1>6, <2>1, <2>2 DEF RenamePart
<1>7. CASE Restart
  BY <1>7 DEF Restart, PartIsWritten
<1> QED
  BY <1>1, <1>2, <1>3, <1>4, <1>5, <1>6, <1>7, OpenKeepsWritten,
     CopyKeepsWritten, RemoveKeepsWritten
  DEF Next, vars, entries, Begin, Stop, CallStep, StatCache, InstallReady,
      AlreadyPreparing, TakePreparation, CheckCancel, CancelPreparation,
      AwaitDone, Work, RetryDue

\* A cached file is whole unless it was shared when it was renamed.
LEMMA PartialStep ==
    ASSUME IInv, NamesDiffer, PartIsWritten, [Next]_vars,
           NEW s \in Streams \ Unsized, ~Partial(s), Partial(s)'
    PROVE  Shared(s) /\ cache'[s] = part[s]
<1> USE DEF IInv, TypeOK
<1>1. cache'[s] # None /\ cache'[s] \notin whole'
  BY DEF Partial
<1>2. CASE UNCHANGED <<cache, whole>>
  BY <1>2 DEF Partial
<1>3. ASSUME NEW c \in Calls, CleanCache(c) \/ CleanPart(c)
      PROVE  FALSE
  BY <1>1, <1>3 DEF CleanCache, CleanPart, Partial
<1>4. ASSUME NEW p \in Preps, OpenPart(p)
      PROVE  FALSE
  <2>1. owner[p] \in Streams
    BY <1>4 DEF OpenPart, Step, Owned
  <2>2. CASE UNCHANGED files
    BY <1>2, <2>2 DEF files, Partial
  <2>3. ASSUME NEW i \in Inodes,
               part[owner[p]] # None => i = part[owner[p]],
               part[owner[p]] = None =>
                   \A t \in Streams: i \notin {part[t], cache[t]},
               whole' = whole \ {i}, UNCHANGED cache
        PROVE  FALSE
    <3>1. cache[s] # i
      BY <2>1, <2>3 DEF NamesDiffer
    <3> QED BY <1>1, <2>3, <3>1 DEF Partial
  <2> QED BY <1>4, <2>2, <2>3 DEF OpenPart
<1>5. ASSUME NEW p \in Preps, CopyEnds(p)
      PROVE  FALSE
  BY <1>1, <1>5 DEF CopyEnds, Partial
<1>6. ASSUME NEW p \in Preps, RenamePart(p)
      PROVE  Shared(s) /\ cache'[s] = part[s]
  <2>1. CASE UNCHANGED files
    BY <1>2, <2>1 DEF files, Partial
  <2>2. CASE /\ worker[p] = "rename" /\ part[owner[p]] # None
             /\ cache' = [cache EXCEPT ![owner[p]] = part[owner[p]]]
             /\ UNCHANGED whole
    <3>1. owner[p] = s /\ cache'[s] = part[s]
      BY <1>1, <2>2 DEF Partial
    <3>2. Written(s)
      BY <1>1, <2>2, <3>1 DEF PartIsWritten
    <3> QED BY <2>2, <3>1, <3>2 DEF Written, Shared
  <2> QED BY <1>6, <2>1, <2>2 DEF RenamePart, Step
<1>7. ASSUME NEW p \in Preps, RemovePart(p)
      PROVE  FALSE
  BY <1>7 DEF RemovePart, Partial
<1> QED
  BY <1>1, <1>2, <1>3, <1>4, <1>5, <1>6, <1>7
  DEF Next, vars, entries, files, Begin, Stop, CallStep, StatCache,
      InstallReady, AlreadyPreparing, Launch, TakePreparation, CheckCancel,
      CancelPreparation, AwaitDone, Work, TakeSlot, GiveUpSlot, ResolvePage,
      StatAgain, Finish, RetryDue, Restart

FilesInv == NamesDiffer /\ PartIsWritten

LEMMA FilesInvariance == Spec => []FilesInv
<1>1. Init => FilesInv
  BY DEF Init, FilesInv, NamesDiffer, PartIsWritten
<1>2. IInv /\ FilesInv /\ [Next]_vars => FilesInv'
  BY NamesStep, WrittenStep DEF FilesInv
<1> QED BY <1>1, <1>2, Invariance, PTL DEF Spec

\* However many downloads run at once, and whatever is cancelled, fails, is
\* deleted or left behind by a crash: where lengths are announced, only the
\* shared .part name lets a partial file through.
THEOREM OnlySharedPartIsPartial == Spec => OnlySharedIsPartial
<1>1. IInv /\ FilesInv /\ [Next]_vars =>
        [\A s \in Streams \ Unsized: ~Partial(s) /\ Partial(s)' =>
            Shared(s) /\ cache'[s] = part[s]]_vars
  BY PartialStep DEF FilesInv
<1> QED
  BY <1>1, Invariance, FilesInvariance, PTL DEF Spec, OnlySharedIsPartial
=============================================================================
