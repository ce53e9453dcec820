# A TLA+ model of video-pipe

video-pipe turns any number of video sources (cameras, files, Bilibili and
Douyu pages) into paths of a MediaMTX server. It pulls a source only while
somebody watches it. This directory holds TLA+ modules of the parts where that
is hard to get right, TLC configurations that model-check them, and proofs that
TLAPS checks. Paths below are relative to the repository; line numbers refer to
the commit the modules were written from.

## 1. The system

    reader ──▶ MediaMTX ──runOnDemand──▶ helper (internal/ondemand)
                  ▲  ▲                     │  POST /acquire, /release
                  │  └── poll ──┐          ▼
               ffmpeg ◀── supervisor ◀── manager ──▶ store (SQLite)
                            (internal/ffmpeg)  │
                                               └──▶ preparations ──▶ cache files
    web page ──▶ management API (internal/server) ──▶ manager, store

| component | state it keeps | operations | correct if |
|---|---|---|---|
| on-demand manager, `internal/manager` | `handles` (supervisor per path), `demands` (leases per path with a heartbeat time), under one mutex | AcquireDemand, ReleaseDemand, Enable, EnsureStopped, Delete, lease loop, goroutine per supervisor, status poller | a path has a publisher exactly while it is wanted and allowed; no ffmpeg is forgotten; no handler hangs |
| ffmpeg supervisor, `internal/ffmpeg/process.go` | state, retry counter, one child process, time of last progress | Run: resolve, start, wait, retry, replay; watchdog; cancel | one child at a time, none after Run has returned; a hung child is killed; a hopeless source is given up; the shown state follows the process |
| VOD preparation, `internal/manager`, `provider/download.go` | `prepares`, two download slots, `.part` and `.media` files | Prepare, runPreparation, finishPreparation, cancelPreparation, DownloadToFile, clean-up | the cache file is complete or absent; stopping never hangs; nothing is left of a deleted stream |
| on-demand helper, `internal/ondemand` | one lease | acquire with retries, heartbeats, release on exit | the backend learns of every reader and, in time, of its going |
| store, `internal/store` | one row per stream with `desired_state` | Create, Get, List, SetDesired, Delete | single statements; the only state that survives a restart |
| management API, `internal/server` | none | create, start, stop, delete, list, status, random, upload | reports what is; uploads do not collide |
| ffmpeg command line, source rules | none (pure functions) | BuildArgs, DeriveSourceType, IsLive, backoff, stream choice of the providers | functions of their inputs |
| MediaMTX client, life cycle, configuration, web page | cached online state; start-up and shutdown; – ; poll timers | GetPath; main | |

The components interact by calls under `Manager.mu` and by what happens outside
it: every handler, supervisor, preparation and loop is a goroutine. A handler
takes something out of a map under the lock, unlocks, and then cancels it and
waits for a `done` channel; the store is read with no lock held at all. MediaMTX
starts one helper per path with readers, and the helper talks to the backend
over HTTP, where requests time out, are lost, and overtake each other. The
backend is PID 1 of its container: when it dies all ffmpegs die with it, while
MediaMTX and its helpers, in the other container, live on. `PROJECT.json` lists
every hazard that follows from this, at its line.

## 2. Modules

| module | what it is |
|---|---|
| `DemandContract` | abstract: who wants a path and whether it is up |
| `DemandManager` | the manager's demand side in full; implements `DemandContract` |
| `RandomRound` | `DemandManager` with a history variable: which stream the viewers of the `random` path were given |
| `OnDemandHook` | the helper, in seconds, over a lossy network; its backend is `DemandContract` |
| `SupervisorContract` | abstract: what the manager relies on in a supervisor |
| `Supervisor` | `Handle.Run`, ffmpeg and the watchdog; implements `SupervisorContract` |
| `SupervisorHistory` | `Supervisor` with a history variable: failures in a row |
| `StatusView` | `SupervisorHistory` next to the manager's status poller and MediaMTX: what the API shows |
| `VodCache` | preparations, download slots and cache files |
| `SourceRules` | from a request to ffmpeg's command line: validation, detection, resolvers, options |
| `DemandManagerProofs`, `OnDemandHookProofs`, `SupervisorProofs`, `StatusViewProofs`, `VodCacheProofs`, `SourceRulesProofs` | theorems |
| `MCDemandManager`, `MCRandomRound` | instances for TLC; the other modules are their own |

Operators whose name begins with `Fault` are not part of any specification.
Each is a plausible mistake in the operator of the same parameters that follows
it; the properties are tested by putting it in its place.

### DemandManager

`store`, `handles`, `demands` are the code's; `lapsed` replaces heartbeat times
by the one fact the sweep asks (older than `demandLeaseTTL` or not). An element
of `Entries` is an `*entry` with its goroutine: `phase` says whether `Run` is
going on, has returned, or the done channel is closed; `cancelled` is its
context. A handler that has to wait between two critical sections is a record
in `calls`: the program counter and its local variables. One action is one
critical section of `Manager.mu`, one SQL statement, or one blocking step:

- `AcquireDemand`: `AcquireHeld` (locked fast path), or `AcquireMiss`,
  `ResolveSource` (unlocked store read), `CheckPreparation`, and then the second
  critical section, `JoinRegistered`, `RollBack` or `Launch`.
- `ReleaseDemand`: `ReleaseOne`, `ReleaseLast`, then `CancelEntry`, `AwaitDone`.
- `EnsureStopped`, `Delete`: the SQL statement, `ClearDemand`, `CancelEntry`,
  `AwaitDone`. Their first step also stands for `cancelPreparation`, which only
  delays the rest.
- the lease loop: `Sweep` (all paths under one lock), `SweepCancel`,
  `SweepAwait` for one supervisor after the other.
- `launchLocked`'s goroutine: `RunReturns` (cancelled, or of its own accord at
  any time), `Reap` (identity check, done channel).
- `Restart`: the container dies and comes back; only the store survives.

Helpers may send any acquire, heartbeat or release at any time, any number of
times, or fall silent (`Lapse`), so every order that loss, retries and delays
can produce is covered. `MTX_PATH` fixes a helper's path, hence `LeasePath`.
Acquires and releases of unknown leases that change nothing are stuttering.

### Supervisor

`pc` follows `Run`; `proc` is the child, `silent` and `killed` the watchdog's
view of it, `long` whether the last run reached `healthyRunFor`. Spawning ffmpeg
(`Start`) and `setState(running)` (`ShowRunning`) are two steps: the poller and
the API may look in between, and `Cancel` may come. `StatusTellsTruth` says
where the shown state may differ from the process: from the spawn to
`setState(running)`, where a live ffmpeg is still `restarting`, and from an exit
through the backoff to the next attempt, where a dead one is still `running`;
nowhere else, so no ffmpeg lives behind `stopped` or `error`. Durations are
gone: a timer may fire at any time. After `cmd.Cancel`, `cmd.Wait` reports an
error whatever the exit status, hence `waited' = "fail"` for a terminated child.
A source kind says whether it is live and whether a resolver is asked (the
code's `live`, `resolved`); only a live page can fail to resolve, because the
resolver of a downloaded VOD returns a path.

### StatusView

`pollOnce` is a goroutine next to all supervisors: it copies the handles under
the lock (`CopyEntries`), reads the state of each (`Look`), asks MediaMTX only
about a running one (`GetPath`, `GetPathFails`), and stores the answer some time
later (`SetMediaMTX`), in a handle that may have stopped, started again or left
the map meanwhile. The module follows one handle through these steps and
interleaves them with every step of `Supervisor`. `published` is MediaMTX's side
and moves freely, because the publisher may be a predecessor or a successor.
`seen` remembers whether there was one in the current or last round.

### OnDemandHook

`Run` of the helper: `pc` is where it is, `clock` the timer it waits on, `reply`
the answer on its way to it. A request that times out, or whose sender is
signalled, goes to `late`: the backend may still serve it, at any time later or
never, even after the release (`ServeLate`). The backend is an instance of
`DemandContract`, so what is shown of the helper holds with any manager that
keeps the contract, as `DemandManager` does; `Accept`, `Deny`, `PutOff` are
its answers. That the row is read before the lock is taken is `DemandManager`'s
subject; here an acquire is one step. `age` is the lease's, in seconds, and
stands still at the TTL: from there on `Sweep` may drop the lease at any time,
because the lease loop waits for supervisors one by one, and it does so some
day. `Tick` is the only passing of time, and it waits for timers of the helper
that are due (the helper is never late); answers may take any time. What kills
the helper without a release (`Killed`) is outside the repository.

### SourceRules

A row goes from a request through `CreateStream` to the command line of each run
(`Prepare`, `Resolve`, `BuildArgs`, `RunEnds`). A URL is a record of what the
code asks of it: its scheme and host, which patterns match, whether a blank
precedes it (`padded`), whether `url.Parse` accepts it (`parses`), and whether
an address without a scheme has a `://` elsewhere (`embedded`: a page within a
text that ends in another URL, or with a URL in its query). `DetectFromURL` adds
`https://` only if there is no `://` anywhere and finds no provider when parsing
fails, and so does its model: such pages are stored as direct sources, which
`PageIsNeverPlayed` excepts and a hazard names.

An answer of a site is a record of the outcome of each endpoint; for bilibili's
rooms and videos it is a sequence of addresses, usable or not. An address of a
live room is HTTP or not: the resolvers do not look, and `BuildArgs` takes a
resolved address that is not HTTP for a downloaded file, which
`VodIsPlayedFromCache` says. `selectBiliLiveURL` is the code's loop over the
addresses: a function of the number of turns, each given by `ChoiceAfter`.
`BestAddress` says by minimum what it should find. ffmpeg's options are a set.
HTTP, signatures and JSON are not modelled.

### VodCache

An element of `Preps` is a `*prepareEntry` with its goroutine; `settled` means
`p.cancel == nil`, `cooling` that `retryAt` is still ahead. Files are names
bound to inodes, because the hazards are those of POSIX names: `O_TRUNC` empties
the inode another goroutine still writes to, `Rename` moves whatever has the
name. Contents are reduced to "complete or not" (`whole`). `os.Stat` counts an
empty file as missing; a file that is not whole may be empty, so both answers
are possible for it (`Found`). A handler is a record in `calls`, as in
`DemandManager`; Delete's removals are two steps (`CleanCache`, `CleanPart`).

A copy ends in one of three ways (`CopyEnds`): complete, unless another worker
has truncated the inode since (`writer` is who did so last, while it has the
file open); with an error or fewer bytes than announced; or cut short without
anybody's noticing. The last is possible only for streams in `Unsized`, whose
server announces no length, because download.go:78 compares it only then. A
download that fails after it opened the file removes whatever has the `.part`
name by then (`RemovePart`), which may be its successor's; a rename may fail for
want of the name or anyhow. A process that dies loses `writer` and all workers;
files and rows (`stored`) stay.

## 3. What TLC checks

| run (cfg) | question and bounds |
|---|---|
| `two_paths` (`DemandTwoPaths`) | A reader of a downloaded stream and one of `random`, next to a stream whose provider is not registered; two handlers, two supervisors, symmetry. Types; a supervisor is registered only with a lease (`HandleHasDemand`); a running ffmpeg is registered or about to be cancelled (`NoStraySupervisor`); a registered one is not about to be cancelled (`RegisteredIsNotDoomed`); the demand contract, through preparation, rollback, a sweep of both paths at once, and `random` drawing a stream that has a path of its own; a path that stays registered keeps its supervisor and its source (`PublisherIsKept`); a stopped stream comes up only by an acquire that had read the row before (`OnlyLateAcquireRevives`). |
| `demand_liveness` (`DemandLiveness`) | Two readers of one path, two handlers, two supervisors, with fairness: no reader loses its publisher to the other (`KeepsContract`), every handler returns, every withdrawn supervisor ends, every lapsed lease is swept. |
| `hook` (`OnDemandHook`) | One helper with the code's own figures in seconds (2, 10, 5, 45), and a lease loop that may be late: a healthy helper's lease is never due for the sweep (`LiveLeaseIsFresh`), a helper that is gone leaves nothing behind although its release is lost or overtaken (`GoneIsForgotten`), a path that goes down under its readers comes up again (`ReadersAreServed`). |
| `supervisor` (`Supervisor`, of module `StatusView`) | All four kinds of source, a budget of three, a poller and MediaMTX: types; the shown state differs from the process in two windows only (`StatusTellsTruth`); bounded failures, the supervisor contract, hung processes, hopeless sources; the online flag is at most one round old (`OnlineIsConfirmed`), goes when the publisher has gone and comes when it is there (`OfflineIsNoticed`, `OnlineIsNoticed`). Deadlock is off because `Run` returns. |
| `vod_one_stream` (`VodOneStream`) | One stream whose server may announce no length, two handlers, two downloads at once, one slot: types; `cancelPreparation` never calls a cleared cancel function (`CancelIsThere`); a download gets out of reach only when a ready entry displaces it (`OnlyReadyDisplaces`); stops and deletes return although a download may hold the slot for ever (`StopsReturn`). |
| `source_rules` (`SourceRules`) | Every request over the URLs that differ to the rules, every answer of the sites with up to three addresses: no page whose address is pasted alone is given to ffmpeg (`PageIsNeverPlayed`); the three places that tell what ends agree, and a live source is looped only if the site's address is not HTTP (`VodIsPlayedFromCache`, `FilesEnd`); the best address is taken (`BestAddressIsChosen`, against a definition by minimum). Deadlock is off because a stream may wait for its download for ever. |

Why the bounds suffice. The races are between a handler that took an entry out
of a map and has yet to cancel it and another that installs a successor; a third
that takes the successor out finds the first still waiting, and what it may
break is proved not to break for any number of handlers, supervisors and paths
(section 4), so two of each are enough here. Two paths are needed for what
couples paths, the sweep and `random`, and two readers of one path for what
couples readers. One slot makes a download wait for another that need not end,
which is what `StopsReturn` is about; the code's two slots matter where two
downloads share a `.part` name, and there, in `vod_partial` and `vod_leftover`,
the bound is two. What the safety properties say is proved for any number. A
retry budget of three separates the first, a middle and the last attempt;
`FailuresBounded` and `StatusTellsTruth` are proved for every budget. The
figures of the helper matter only through the three inequalities that
`OnDemandHookProofs` uses. Three addresses show a fallback, a later preferred
one and an unusable one in any order. `Calls`, `Entries`, `Preps` and `Inodes`
bound what may exist at once, not how often anything happens; an entry nothing
refers to is reused, so runs are unbounded.

These runs look for a disagreement between the code and what its comments or
documents say, and find one:

| run | what the code does | what is said |
|---|---|---|
| `one_ffmpeg` | a reader that acquires while a stop waits for the old supervisor starts a second ffmpeg on the path | one process per stream (README.md:5, :14) |
| `stopped_is_down` | `desired_state` is read before the lock and used after it: a stream stopped in between comes up and stays up | manager.go:34-35, :141-142 |
| `random_round` | when the drawn source ends, the next heartbeat draws again | same source until the last reader leaves (manager.go:176-178, README.md:61) |
| `supervisor_error_shown` | the deferred `setState(StateStopped)` overwrites `error` | process.go:176, README.md:193 |
| `vod_partial` | a cancelled worker renames the `.part` file its successor has truncated | ffmpeg never observes a partial file (download.go:21-23) |
| `vod_leftover` | a Prepare that began before a Delete downloads after it | deleting cleans the cache (README.md:69) |

Smaller ones were met and are listed as hazards only: the state stays
`running` during the backoff although manager.go:598-600 expects otherwise (the
shown online flag recovers all the same, `OfflineIsNoticed`); clean replays of a
VOD never reset a counter that process.go:47 calls consecutive failures; a type
is derived from the URL before it is trimmed (handlers.go:165), so that an rtsp
address pasted with a blank in front is stored as a file; a file that has
ended is launched again by the next heartbeat (model/stream.go:110-111); a page
within a text or with a URL in its query is not recognised (detect.go:17-23); a
live address that is not HTTP is looped and paced like a file (command.go:44,
douyu.go:122-125); and a body of no announced length that is cut short is cached
as complete (download.go:78).

### Fairness

Goroutines that can run do run (weak fairness of `CallStep`, `LeaseLoop`,
`Reap`, `Loop`, `Watchdog`, `Terminate`): Go's scheduler is fair, and tickers
keep firing. A cancelled `Run` returns and a terminated ffmpeg dies, because
`cmd.WaitDelay` escalates to SIGKILL; `Supervisor` shows the first from the
second (`KeepsContract`), and `DemandManager` uses it. Requests, the passing of
time, sources and the end of a download are not fair; a download ends when its
context is cancelled. `Launch` of `DemandManager` has strong fairness for a
reason of the model, not of the code: its struct comes from a finite set, and
the code never waits for one.

The helper's timers fire and the lease loop's ticker does (`OnDemandHook`). An
acquire that is asked again and again is answered some day: strong fairness of
`Accept` and `Deny`, because a request does not stay until it is answered.
`PutOff` has none, nor has the service of a request its sender gave up: a lease
recorded that late is what `GoneIsForgotten` is about. In `StatusView` the
ticker keeps the rounds going, and a MediaMTX that fails now and then answers
now and then (strong fairness of `GetPath`); a supervisor that has returned is
removed from the map, as `DemandManager` shows. Publication is not fair.

## 4. What is proved

For all values of the constants, from the assumptions named in the modules
(`random` is no stored name, helpers serve paths, `None` is nothing else, the
kinds of stream are disjoint; `MaxRestarts` is a natural number, `Kinds` are
kinds of source; `Ready` and `None` are neither preparations nor inodes; there
is a download slot, and the streams without announced lengths are streams; the
length of an answer is a natural number, and a failed resolution and `None` are
told from results; the helper's intervals are positive, a request times out
before the next heartbeat, a retry with its timeout is shorter than a heartbeat,
and two timeouts and three heartbeats fit into the TTL):

- `DemandManagerProofs`: `TypeOK`, `HandleHasDemand`, `NoStraySupervisor`,
  `RegisteredIsNotDoomed`, and that `DemandManager` implements `DemandContract`
  (`ManagerKeepsContract`). None of the four is inductive. The inductive
  invariant `IInv` adds that a call knows the path, lease, source or entry its
  program counter speaks of; that a registered supervisor is alive and nobody
  who stops supervisors refers to it (so that whoever takes one out of the map
  is alone with it, and its late exit cannot strike off a successor); and that
  lapsed leases are held. The heart is `SupervisorStep`: taking an entry out of
  `handles` makes the taker its only holder. The refinement then goes action by
  action: a recorded lease is a `Join`, dropped leases are a `Leave`
  (`JoinStep`, `LeaveStep`), the rest are evictions, ended sources, restarts, or
  stutters. On the same invariant rest three results that say how far the
  disagreements of section 3 go. `ReadersKeepTheirPicture` (`PublisherIsKept`):
  only `Launch` changes who is registered or what an entry reads, and it takes
  an entry nothing refers to and a path nobody is registered for; so `random`
  changes its picture under its readers only by way of an end of the source or a
  restart. `OnlyALateAcquireRevives` (`OnlyLateAcquireRevives`): a stop's first
  statement leaves a call that has yet to clear the path, whoever takes the
  supervisor out leaves nothing registered, and a call that has resolved a
  stored stream's path has resolved that stream (`CallsResolveOwn`); so what
  `stopped_is_down` shows is the only way. `OneOfTwoIsDoomed`: of two ffmpegs on
  a path one is about to be cancelled; `one_ffmpeg` shows that there may be two.
- `SupervisorProofs`: `TypeOK`, `StatusTellsTruth`, the safety half of
  `SupervisorContract`, and with the history variable `FailuresBounded`, for
  every retry budget. The strengthening is that an exhausted counter leaves the
  loop at once (`SpentIsLeft`), which states and processes go with the places
  of the loop (`LoopShows`), and that a failing streak is never longer than the
  counter.
- `VodCacheProofs`: `TypeOK` and `CancelIsThere`, for any number of streams,
  handlers, preparations, files and slots. What a worker settles while a
  handler is between the unlock and `p.cancel()` is the question, and `IInv`
  answers it: an entry is in `prepares` under its owner's name only (`Owned`),
  so what a handler has taken out is nowhere in `prepares` (`TakenIsOut`), and
  `finishPreparation` settles only what is (`FinishStep`). `CopiersHaveFiles`
  is there for the types of the files.
  `OnlyReadyDisplaces` is an action property over the same invariant and the
  fact that a worker at work is not settled (`ActiveIsOpen`): then a handler
  that looks whether a cancel function is there finds it, and `Launch` does not
  replace what is still held (`DisplacedStep`).
  `OnlySharedPartIsPartial` is the counterpart of `vod_partial`, for any number
  of slots: if the server of a stream announces lengths, a file of it that is
  not whole gets the name of a cached one only when one worker renames it while
  another of the same stream copies into it or, having failed, is about to
  remove it. `FilesInv` says that a `.part` file has no other name
  (`NamesDiffer`), and that one that is not whole, while a worker of its stream
  copies or is about to rename, is being written by the worker that truncated it
  last, or such a worker has failed and its removal is still to come
  (`PartIsWritten`). For streams in `Unsized` the statement is false of the code
  and is not made.
- `OnDemandHookProofs`: `TypeOK` and `LiveLeaseIsFresh`. How old a lease may be
  depends on where the helper is and how often in a row it failed: `Lead` says
  how much older it may be than the helper's own clock, and grows by a retry or
  a heartbeat with every miss. `LeadIsKept` is inductive with the facts that a
  success still on its way is as recent as its request (`OkIsFresh`) and that
  the sleep comes after a miss; three misses are what the TTL leaves room for.
- `StatusViewProofs`: `ViewTypeOK` and `OnlineIsConfirmed`. The supervisor's and
  the poller's steps leave each other's state alone, so `TypeOK` carries over
  from `SupervisorProofs`; the strengthening is that an answer still to be
  stored was true within the round.
- `SourceRulesProofs`: `TypeOK`, `PageIsNeverPlayed`, `VodIsPlayedFromCache`,
  `FilesEnd`, `BestAddressIsChosen`, for answers of any length. The invariant
  has a part for the stored row, one for what was resolved and one for the
  command line, each following from the one before. `SelectFindsTheBest` is
  about the loop alone: after every turn the choice is the best of the addresses
  seen (`TurnKeepsBest`). The library's induction rules take an operator, so the
  loop is followed by the least turn after which that fails (`LeastNumber`, from
  the well-foundedness of the naturals), and that it computes something at all
  is shown the same way (`ScanExists`). A row whose type is missing and whose
  URL belongs to no provider would have left two branches of `TypeOf` open; the
  proof asks for them to be disjoint.

Left to TLC: all liveness and fairness (`CallsReturn`, `StopsReturn`,
`WithdrawnIsStopped`, `LapsedLeaseIsSwept`, `GoneIsForgotten`,
`ReadersAreServed`, `HungIsKilled`, `FailingIsGivenUp`, `OfflineIsNoticed`,
`OnlineIsNoticed`, the fair half of the supervisor contract). Every invariant
and every action property that a passing run checks is proved.

## 5. What is not modelled

- Errors of the database: every handler returns them before it changes anything.
- The text of `lastError`, the displayed restart count and heartbeat, logging,
  HTTP framing, ffmpeg's media handling, the readers' addresses.
- The exchange with the providers' sites: signatures (WBI, douyu), HTTP, JSON.
  What they answer is modelled, not how it is asked or parsed.
- Upload: it writes a file under a name of clock and file name and keeps no
  state; two equal names within a millisecond are its one hazard.
- The orderly shutdown: the context is cancelled, handlers have 15 s, and the
  process waits for its ffmpegs. What it leaves behind is what `Restart` leaves.
- Configuration, the database's schema, the web page.
- When MediaMTX starts and signals helpers: it does so at any time
  (`OnDemandHook`: `Init`, `Signal`, `Killed`).

A stream's source does not change under its name (`VodCache` keys files by
stream; the code adds a hash of the URL).

## 6. Plan

1. done: `DemandManager` with contract and proofs; `Supervisor` with contract
   and proofs; `VodCache` with proofs; `OnDemandHook` on the demand contract,
   with proofs; `StatusView` and `SourceRules` with proofs.
2. `Gateway`: several readers and helpers of one path in MediaMTX, with
   `DemandContract` and `SupervisorContract`: what a terminal answer, the end of
   a finite file, and a stop followed by a start do to readers that stay.
3. `Lifecycle`: shutdown, with handlers that outlive their 15 s and the
   `WaitGroup`.
4. done: proofs of the choice of an address, of what may revive a stopped
   stream, and of how a partial file gets its name. Next: that the online flag
   shown is that of the registered supervisor when several of one path follow
   each other; that `Gateway`'s components keep their contracts.
