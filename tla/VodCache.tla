------------------------------ MODULE VodCache ------------------------------
(***************************************************************************)
(* internal/manager (Prepare, cancelPreparation) and provider/download.go: *)
(* the downloads of video-on-demand sources into the provider cache.       *)
(*                                                                         *)
(* A prepareEntry with its goroutine is an element of Preps; the entry     *)
(* that Prepare installs when it finds the file is Ready.  Files are names *)
(* bound to inodes: opening an existing ".part" truncates the inode that   *)
(* another goroutine may still write to, and renaming moves whatever inode *)
(* has the name.  A page resolves and a server answers or fails at will.   *)
(***************************************************************************)
EXTENDS Naturals, FiniteSets

CONSTANTS Streams,  \* stored streams with a source to download
          Calls,    \* handlers that may be at work at once
          Preps,    \* preparations that may exist at once
          Inodes,   \* files that may exist at once
          Slots,    \* prepareConcurrency
          Unsized,  \* streams whose server may not announce a length
          Ready,    \* the entry for a file that was already there
          None

ASSUME SlotsArePositive == Slots \in Nat \ {0}
ASSUME UnsizedAreStreams == Unsized \subseteq Streams
ASSUME MarkersAreDistinct ==
    Ready # None /\ {Ready, None} \cap (Preps \cup Inodes) = {}

VARIABLES
    stored,     \* the streams that have a row
    prepares,   \* Manager.prepares
    worker,     \* where a runPreparation goroutine is; "done" when closed
    owner,      \* the stream it works for
    cancelled,  \* preparations whose context is cancelled
    settled,    \* preparations whose result is recorded (cancel = nil)
    cooling,    \* those that failed, until retryAt
    fd,         \* the inode a worker has open
    part,       \* name.part of every stream
    cache,      \* name.media of every stream
    writer,     \* the worker that truncated an inode last, while it has it open
    whole,      \* inodes with the complete file
    calls       \* handlers in flight

entries == <<prepares, worker, owner, cancelled, settled, cooling>>
files == <<fd, part, cache, writer, whole>>
vars == <<stored, entries, files, calls>>

Idle == [pc |-> "idle", stream |-> None, delete |-> FALSE, ent |-> None]

Init ==
    /\ stored \in SUBSET Streams
    /\ prepares = [s \in Streams |-> None]
    /\ worker = [p \in Preps |-> "done"]
    /\ owner = [p \in Preps |-> None]
    /\ cancelled = {} /\ settled = {} /\ cooling = {}
    /\ fd = [p \in Preps |-> None]
    /\ part = [s \in Streams |-> None]
    /\ cache = [s \in Streams |-> None]
    /\ writer = [i \in Inodes |-> None]
    /\ whole = {}
    /\ calls = [c \in Calls |-> Idle]

(***************************************************************************)
(* Prepare: called by createStream, Enable, AcquireDemand and Start        *)
(***************************************************************************)

\* The row is created or enabled first, or has been found enabled.
Begin(c, s) ==
    /\ calls[c] = Idle
    /\ stored' = stored \cup {s}
    /\ calls' = [calls EXCEPT ![c] = [Idle EXCEPT !.pc = "stat", !.stream = s]]
    /\ UNCHANGED <<entries, files>>

\* What os.Stat may say of the cache file of s: a file that is not whole may
\* be empty still, which counts as missing.
Found(s) == IF cache[s] = None THEN {FALSE}
            ELSE IF cache[s] \in whole THEN {TRUE} ELSE BOOLEAN

\* os.Stat, with no lock held.
StatCache(c) ==
    /\ calls[c].pc = "stat"
    /\ \E found \in Found(calls[c].stream):
         calls' = [calls EXCEPT ![c].pc = IF found THEN "install" ELSE "launch"]
    /\ UNCHANGED <<stored, entries, files>>

InstallReady(c) ==
    /\ calls[c].pc = "install"
    /\ prepares' = [prepares EXCEPT ![calls[c].stream] = Ready]
    /\ calls' = [calls EXCEPT ![c] = Idle]
    /\ UNCHANGED <<stored, worker, owner, cancelled, settled, cooling, files>>

\* Fault: only a failed download is waited for.
FaultHoldsFailed(p) == p \in Preps /\ p \in cooling

\* An entry that keeps Prepare from starting another download.
Holds(p) == p \in Preps /\ (p \notin settled \/ p \in cooling)

AlreadyPreparing(c) ==
    /\ calls[c].pc = "launch" /\ Holds(prepares[calls[c].stream])
    /\ calls' = [calls EXCEPT ![c] = Idle]
    /\ UNCHANGED <<stored, entries, files>>

\* p can stand for the new entry of s: nothing refers to it, except s itself,
\* whose entry is replaced.
Available(p, s) ==
    /\ worker[p] = "done"
    /\ \A r \in Streams \ {s}: prepares[r] # p
    /\ \A c \in Calls: calls[c].ent # p

Launch(c, p) ==
    LET s == calls[c].stream IN
    /\ calls[c].pc = "launch" /\ ~Holds(prepares[s])
    /\ Available(p, s)
    /\ prepares' = [prepares EXCEPT ![s] = p]
    /\ worker' = [worker EXCEPT ![p] = "slot"]
    /\ owner' = [owner EXCEPT ![p] = s]
    /\ cancelled' = cancelled \ {p}
    /\ settled' = settled \ {p}
    /\ cooling' = cooling \ {p}
    /\ calls' = [calls EXCEPT ![c] = Idle]
    /\ UNCHANGED <<stored, files>>

(***************************************************************************)
(* EnsureStopped and Delete: cancelPreparation                             *)
(***************************************************************************)

Stop(c, s, delete) ==
    /\ calls[c] = Idle /\ s \in stored
    /\ stored' = IF delete THEN stored \ {s} ELSE stored
    /\ calls' = [calls EXCEPT ![c] =
           [Idle EXCEPT !.pc = "take", !.stream = s, !.delete = delete]]
    /\ UNCHANGED <<entries, files>>

\* What a call does once the preparation is out of the way.
Proceed(c) == IF calls[c].delete THEN [calls[c] EXCEPT !.pc = "clean", !.ent = None]
                                 ELSE Idle

TakePreparation(c) ==
    LET p == prepares[calls[c].stream] IN
    /\ calls[c].pc = "take"
    /\ prepares' = [prepares EXCEPT ![calls[c].stream] = None]
    /\ calls' = [calls EXCEPT ![c] =
           IF p \in Preps THEN [calls[c] EXCEPT !.pc = "check", !.ent = p]
                          ELSE Proceed(c)]
    /\ UNCHANGED <<stored, worker, owner, cancelled, settled, cooling, files>>

\* p.cancel == nil, read after the unlock.
CheckCancel(c) ==
    /\ calls[c].pc = "check"
    /\ calls' = [calls EXCEPT ![c] =
           IF calls[c].ent \in settled THEN Proceed(c)
                                       ELSE [calls[c] EXCEPT !.pc = "cancel"]]
    /\ UNCHANGED <<stored, entries, files>>

\* Fault: cancelPreparation waits without cancelling.
FaultWaitOnly(c) ==
    /\ calls[c].pc = "cancel"
    /\ calls' = [calls EXCEPT ![c].pc = "await"]
    /\ UNCHANGED <<stored, entries, files>>

CancelPreparation(c) ==
    /\ calls[c].pc = "cancel"
    /\ cancelled' = cancelled \cup {calls[c].ent}
    /\ calls' = [calls EXCEPT ![c].pc = "await"]
    /\ UNCHANGED <<stored, prepares, worker, owner, settled, cooling, files>>

AwaitDone(c) ==
    /\ calls[c].pc = "await" /\ worker[calls[c].ent] = "done"
    /\ calls' = [calls EXCEPT ![c] = Proceed(c)]
    /\ UNCHANGED <<stored, entries, files>>

\* The end of Delete: the cache file is removed, then the .part file.
CleanCache(c) ==
    /\ calls[c].pc = "clean"
    /\ cache' = [cache EXCEPT ![calls[c].stream] = None]
    /\ calls' = [calls EXCEPT ![c].pc = "cleanpart"]
    /\ UNCHANGED <<stored, entries, fd, part, writer, whole>>

CleanPart(c) ==
    /\ calls[c].pc = "cleanpart"
    /\ part' = [part EXCEPT ![calls[c].stream] = None]
    /\ calls' = [calls EXCEPT ![c] = Idle]
    /\ UNCHANGED <<stored, entries, fd, cache, writer, whole>>

(***************************************************************************)
(* runPreparation                                                          *)
(***************************************************************************)

Working == {"resolve", "stat", "open", "copy", "rename", "remove", "succeed",
            "fail"}

Step(p, from, to) ==
    /\ worker[p] = from
    /\ worker' = [worker EXCEPT ![p] = to]
    /\ UNCHANGED <<stored, prepares, owner, cancelled, settled, cooling, calls>>

TakeSlot(p) ==
    /\ Cardinality({q \in Preps: worker[q] \in Working}) < Slots
    /\ Step(p, "slot", "resolve")
    /\ UNCHANGED files

GiveUpSlot(p) ==
    /\ p \in cancelled
    /\ Step(p, "slot", "done")
    /\ UNCHANGED files

ResolvePage(p) ==
    /\ Step(p, "resolve", "stat") \/ Step(p, "resolve", "fail")
    /\ UNCHANGED files

\* cacheProviderVOD: the file may be there by now.
StatAgain(p) ==
    /\ worker[p] = "stat"
    /\ \E found \in Found(owner[p]):
         Step(p, "stat", IF found THEN "succeed" ELSE "open")
    /\ UNCHANGED files

\* DownloadToFile up to OpenFile with O_CREATE|O_TRUNC.
OpenPart(p) ==
    \/ Step(p, "open", "fail") /\ UNCHANGED files
    \/ \E i \in Inodes:
         /\ Step(p, "open", "copy")
         /\ part[owner[p]] # None => i = part[owner[p]]
         /\ part[owner[p]] = None =>
               /\ \A s \in Streams: i \notin {part[s], cache[s]}
               /\ \A q \in Preps: fd[q] # i
         /\ part' = [part EXCEPT ![owner[p]] = i]
         /\ fd' = [fd EXCEPT ![p] = i]
         /\ writer' = [writer EXCEPT ![i] = p]
         /\ whole' = whole \ {i}
         /\ UNCHANGED cache

\* io.Copy ends and the file is closed: complete, unless another writer has
\* truncated the file since; cut short, which only an announced length tells;
\* or with an error (of the network, or because of the context).
CopyEnds(p) ==
    /\ \/ /\ Step(p, "copy", "rename")
          /\ whole' = IF writer[fd[p]] = p THEN whole \cup {fd[p]} ELSE whole
       \/ /\ Step(p, "copy", "rename")
          /\ owner[p] \in Unsized
          /\ UNCHANGED whole
       \/ Step(p, "copy", "remove") /\ UNCHANGED whole
    /\ fd' = [fd EXCEPT ![p] = None]
    /\ writer' = [writer EXCEPT ![fd[p]] = IF @ = p THEN None ELSE @]
    /\ UNCHANGED <<part, cache>>

\* os.Rename: of whatever is called name.part now; fails if nothing is, and
\* may fail anyhow.
RenamePart(p) ==
    LET s == owner[p] IN
    \/ /\ Step(p, "rename", "succeed")
       /\ part[s] # None
       /\ cache' = [cache EXCEPT ![s] = part[s]]
       /\ part' = [part EXCEPT ![s] = None]
       /\ UNCHANGED <<fd, writer, whole>>
    \/ Step(p, "rename", "remove") /\ UNCHANGED files

\* The deferred os.Remove: again of whatever has the name by now.
RemovePart(p) ==
    /\ Step(p, "remove", "fail")
    /\ part' = [part EXCEPT ![owner[p]] = None]
    /\ UNCHANGED <<fd, cache, writer, whole>>

\* Fault: the result is recorded in an entry that has been taken away.
FaultSettleAny(p) ==
    /\ worker[p] \in {"succeed", "fail"}
    /\ worker' = [worker EXCEPT ![p] = "done"]
    /\ settled' = settled \cup {p}
    /\ cooling' = IF worker[p] = "fail" THEN cooling \cup {p} ELSE cooling
    /\ UNCHANGED <<stored, prepares, owner, cancelled, files, calls>>

\* Fault: retryAt is set before the entry is compared with the current one.
FaultRetryAny(p) ==
    /\ worker[p] \in {"succeed", "fail"}
    /\ worker' = [worker EXCEPT ![p] = "done"]
    /\ settled' = IF p \notin cancelled /\ prepares[owner[p]] = p
                  THEN settled \cup {p} ELSE settled
    /\ cooling' = IF p \notin cancelled /\ worker[p] = "fail"
                  THEN cooling \cup {p} ELSE cooling
    /\ UNCHANGED <<stored, prepares, owner, cancelled, files, calls>>

\* finishPreparation, only for an entry that is still the current one; then
\* the slot is given back and done is closed.
Finish(p) ==
    /\ worker[p] \in {"succeed", "fail"}
    /\ worker' = [worker EXCEPT ![p] = "done"]
    /\ IF p \notin cancelled /\ prepares[owner[p]] = p
       THEN /\ settled' = settled \cup {p}
            /\ cooling' = IF worker[p] = "fail" THEN cooling \cup {p}
                                                ELSE cooling
       ELSE UNCHANGED <<settled, cooling>>
    /\ UNCHANGED <<stored, prepares, owner, cancelled, files, calls>>

\* prepareRetryAfter passes.
RetryDue(p) ==
    /\ p \in cooling
    /\ cooling' = cooling \ {p}
    /\ UNCHANGED <<stored, prepares, worker, owner, cancelled, settled, files,
                   calls>>

\* The container restarts: rows and files survive.
Restart ==
    /\ prepares' = [s \in Streams |-> None]
    /\ worker' = [p \in Preps |-> "done"]
    /\ owner' = [p \in Preps |-> None]
    /\ writer' = [i \in Inodes |-> None]
    /\ cancelled' = {} /\ settled' = {} /\ cooling' = {}
    /\ fd' = [p \in Preps |-> None]
    /\ calls' = [c \in Calls |-> Idle]
    /\ UNCHANGED <<stored, part, cache, whole>>

-----------------------------------------------------------------------------

CallStep(c) ==
    \/ StatCache(c) \/ InstallReady(c) \/ AlreadyPreparing(c)
    \/ \E p \in Preps: Launch(c, p)
    \/ TakePreparation(c) \/ CheckCancel(c) \/ CancelPreparation(c)
    \/ AwaitDone(c) \/ CleanCache(c) \/ CleanPart(c)

Work(p) ==
    \/ TakeSlot(p) \/ GiveUpSlot(p) \/ ResolvePage(p) \/ StatAgain(p)
    \/ OpenPart(p) \/ CopyEnds(p) \/ RenamePart(p) \/ RemovePart(p)
    \/ Finish(p)

Next ==
    \/ \E c \in Calls, s \in Streams:
         Begin(c, s) \/ \E delete \in BOOLEAN: Stop(c, s, delete)
    \/ \E c \in Calls: CallStep(c)
    \/ \E p \in Preps: Work(p) \/ RetryDue(p)
    \/ Restart

\* Handlers and workers are scheduled, and a call to a page returns.  Only the
\* copy of a body need not end (the client has no timeout for it) unless the
\* context is cancelled.
Fairness ==
    /\ \A c \in Calls: WF_vars(CallStep(c))
    /\ \A p \in Preps:
         WF_vars((p \in cancelled \/ worker[p] # "copy") /\ Work(p))

Spec == Init /\ [][Next]_vars

FairSpec == Spec /\ Fairness

-----------------------------------------------------------------------------

CallRecords ==
    [pc: {"idle", "stat", "install", "launch", "take", "check", "cancel",
          "await", "clean", "cleanpart"},
     stream: Streams \cup {None}, delete: BOOLEAN, ent: Preps \cup {None}]

\* Type invariant; only a recorded failure is waited after.
TypeOK ==
    /\ stored \subseteq Streams
    /\ prepares \in [Streams -> Preps \cup {Ready, None}]
    /\ worker \in [Preps -> Working \cup {"slot", "done"}]
    /\ owner \in [Preps -> Streams \cup {None}]
    /\ cancelled \subseteq Preps /\ settled \subseteq Preps
    /\ cooling \subseteq settled
    /\ fd \in [Preps -> Inodes \cup {None}]
    /\ part \in [Streams -> Inodes \cup {None}]
    /\ cache \in [Streams -> Inodes \cup {None}]
    /\ writer \in [Inodes -> Preps \cup {None}]
    /\ whole \subseteq Inodes
    /\ calls \in [Calls -> CallRecords]

\* cancelPreparation reads and calls p.cancel after it has unlocked: the
\* function is still there, because a taken entry is never settled.
CancelIsThere ==
    \A c \in Calls: calls[c].pc = "cancel" => calls[c].ent \notin settled

\* A preparation that a stop of its stream would find and cancel, or that a
\* stop has already found.
Stoppable(p) ==
    \/ p \in cancelled
    \/ owner[p] \in Streams /\ prepares[owner[p]] = p
    \/ \E c \in Calls: calls[c].pc \in {"check", "cancel"} /\ calls[c].ent = p

\* A download in progress gets out of reach of a stop in one way only: its
\* file turns up meanwhile, and Prepare puts a ready entry in its place.
OnlyReadyDisplaces ==
    [][\A p \in Preps:
          worker[p] # "done" /\ Stoppable(p) =>
              \/ worker'[p] = "done" \/ Stoppable(p)'
              \/ prepares[owner[p]] = p /\ prepares'[owner[p]] = Ready]_vars

\* A stop or a delete does not hang on a download, not even on one that waits
\* for the slot of a download that never ends.  (Prepare waits for nothing.)
StopsReturn ==
    \A c \in Calls:
        (calls[c].pc \in {"take", "check", "cancel", "await", "clean",
                          "cleanpart"})
            ~> (calls[c].pc = "idle")

\* "ffmpeg can never observe a partial cache file" (DownloadToFile).
CacheIsWhole == \A s \in Streams: cache[s] # None => cache[s] \in whole

\* Nothing comes back of a deleted stream once its Delete has returned
\* (README: deleting cleans the cache).
DeletedLeavesNothing ==
    [][\A s \in Streams:
          /\ s \notin stored /\ cache[s] = None
          /\ \A c \in Calls: ~(calls[c].delete /\ calls[c].stream = s)
          => cache'[s] = None]_vars
=============================================================================
