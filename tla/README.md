# Triagearr, verified

Triagearr watches the free space of a volume, ranks the torrents on it, and
reaps the worst: it deletes the files in Sonarr, Radarr and their like ("\*arr"),
then the torrent in qBittorrent, in that order and without touching bytes that
something else links to. It deletes user data on its own initiative, from three
triggers, against two services that fail and a SQLite store that others write
at the same time; what it deletes is decided on data that pollers keep rewriting.
This directory holds TLA+ models of the system, the TLC configurations that
check them, and proofs checked by TLAPS.

Paths below are relative to the repository's root. `tlc -config X.cfg M` runs
a configuration, `tlapm XProofs.tla` checks proofs.

## Inventory

| component | state | operations | interacts with | hard behaviour |
|---|---|---|---|---|
| **run lock** `internal/runlock` | channel of one slot, flock, stop registry (run id, cancel) | TryAcquire, Arm, RequestStop, Release | every trigger, the stop handler | two levels acquired in turn, processes that die, a late stop |
| **actor** `internal/actor`, `internal/x/retry` | none but its loop; writes actions, audit_log, runs.status | Execute, one candidate after the other | \*arr and qBittorrent clients, store, filesystem | lost answers, retries, partial failure, crash between deletions, TOCTOU of link counts |
| **run life cycle** `internal/server/handlers_runs.go`, `cmd/triagearr/run.go`, `daemon.go` | runs, run_items, engine pointer, contexts | POST runs, stop, `triagearr run`, reload, SIGTERM | lock, decider, actor, store | contexts cancelled between two writes; plan before lock; reload in mid-run |
| **disk watcher** `internal/triggers/disk_watcher.go` | firingNow, lastFire; throttle row | tick, fire, shortfall alert | disk_usage samples, lock, decider, actor, notifier | stale samples, what others free in between, grace against retries, state lost on reload |
| **decider** `internal/decider` | none | Plan: five reads and a walk | store | reads are not one transaction |
| **scorer** `internal/scorer` | scores | signalled passes, a rescore of one torrent | store, toggles of the API | drained signals; merged policies; vetoes and exclusions in a sum; clocks that fetches reset |
| **pollers** `internal/pollers` | none; signals to each other | torrent client, trackers, files, \*arr, disk, maintenance | clients, store, scorer | a list that is old when it is written; signals that coalesce; an import cursor |
| **store** `internal/store` | SQLite: one writer connection, snapshots, trackers, imports, media | upserts, cascades, downsampling, retention, migrations | all | two queries of one statistic; rows that outlive their subject; several processes at once |
| **health watcher** `internal/triggers/health_watcher.go`, `internal/notify` | throttle rows | tick, dispatch | instances' health, providers | dispatch and record are two steps |
| **authentication** `internal/auth`, `internal/server` | accounts, sessions, cached "enabled", buckets of addresses | enable, disable, login, password, requests | every handler, recovery commands | a cached check; a sliding session; a password shown once |
| **settings, connections** `internal/server`, `internal/config`, `cmd/triagearr/daemon.go` | overrides, connection rows, the running engine | PUT, DELETE, reload, seeding from the file | daemon, clients | several writes, then a reload that may fail; two validators |
| **clients** `internal/clients` | login flag and cookies of qBittorrent | reads, DELETE, history | network | which answers are transient; a session shared by callers |
| linker, preflight, read API, CLI reports, `web/`, devtools | – | – | the preflight: engine | no state of their own; the preflight may refuse an engine |

How they interact: pollers write the store and signal the scorer; the scorer
writes scores; a trigger asks the Decider for a plan from samples and scores,
takes the run lock, persists a run and hands it to the Actor; the Actor calls
\*arr and qBittorrent and writes actions and audit rows; the stop handler
reaches the Actor's context through the lock's registry. A change of a setting
or a connection is written and then loaded by the daemon's main loop, which cancels
the pollers' context (the watcher's run with it), waits, starts new ones, and
swaps the engine of the HTTP server.

What makes each correct:

* run lock: one live run over all processes; a stop reaches the run it names;
  nobody is left with half a lock.
* actor: \*arr before qBittorrent; nothing shared is deleted; success means gone;
  no deletion without a trace; a run ends.
* run life cycle: runs take turns; what is shown in progress is driven; only
  planned, persisted, live runs reap.
* disk watcher: no deletion above the target but for what others have freed since the
  sample; pressure is answered; alerts are spaced.
* decider: the shortest prefix of the ranking; never an excluded one.
* scorer: a veto, a policy and an exclusion hold whatever is added to them; what
  the countdown shows is what the score gets; new data is scored.
* store: aggregates do not change with the retention; an import is not skipped;
  a migration is applied once and wholly.
* the rest: a loss is announced once and its end once; disabled authentication
  is seen in time; a saved change is in force when the answer says so and passes
  the checks of every later start; a lost session costs one refusal.

`PROJECT.json` lists the hazards line by line with the properties aimed at each.

## Modules

| module | models | checked in |
|---|---|---|
| `RunSlot` | what the run lock promises: a slot, a stop for its occupant | refined by `RunLock` |
| `RunLock` | `internal/runlock`: channel, flock and registry, one step per call the code makes | `MCRunLock` |
| `RunLockProofs` | exclusion, the registry, the refinement | TLAPS |
| `Actor` | Execute and its candidates, with \*arr, qBittorrent, the volume and the store around it | `MCActorFaults`, `MCActorLive` |
| `ActorProofs` | types, success, single credit, order, traces, closed runs, the audit | TLAPS |
| `Runs` | all triggers of a run, the stop, reload, shutdown, the torrent poller's rows | `MCRunsFaults`, `MCRunsLive` |
| `RunsProofs` | turns, stops, live targets, driven runs | TLAPS |
| `DiskWatcher` | the watcher over time: samples, grace, alerts, what other runs and users free | `MCDiskWatcher` |
| `DiskWatcherProofs` | types, the spacing of the alerts, the bound on deletions | TLAPS |
| `Pipeline` | torrent poller, tracker poller and scorer loop joined by their signals, the toggles of the API | `MCPipeline` |
| `Decider` | Plan's reads and walk, with writers in between | `MCVerdicts` |
| `Sums` | the running total of a list and its filter, as recursive functions | `DiskWatcher`, `Decider`, `Scoring` |
| `SumsProofs` | induction over the numbers, greatest elements, and what follows for totals and filters | TLAPS |
| `Scoring` | the factors of a torrent over the life of its trackers, the countdown of the API | `MCVerdicts` |
| `TrackerPolicies` | the merge of the policies of a torrent's hosts, as operators | `Scoring`, `Policies` |
| `Policies` | the handlers that save policies, against a pass that reads them in two statements | `MCVerdicts` |
| `Exclusions` | tags of media: from the \*arr through three tables to the verdict | `MCVerdicts` |
| `Snapshots` | samples, downsampling, the retentions, and the statistics read from both tables | `MCVerdicts` |
| `Verdicts` | the sum of `Decider`, `Scoring`, `Policies`, `Exclusions` and `Snapshots` | `MCVerdicts` |
| `VerdictsProofs` | electable plans and the shortest prefix, the policies, the bonus, the veto, the two queries, the tags | TLAPS |
| `Settings` | overrides and connection tables, the requests that write them, the reload they wait for | `MCDaemon` |
| `Connections` | the form of a connection, its secret, the two validators, seeding | `MCDaemon` |
| `Auth` | enabled or not, cached; sessions that slide; requests statement by statement | `MCDaemon` |
| `Passwords` | accounts and passwords, chosen or generated, by requests and by commands | `MCDaemon` |
| `RateLimit` | token buckets of addresses, the least recently used evicted | `MCDaemon` |
| `Health` | health rows, the watcher's two lists, the dispatch to providers | `MCDaemon` |
| `Imports` | the history of an \*arr by pages, the cursor, the upsert | `MCDaemon` |
| `QbitSession` | one login shared by the callers of the client | `MCDaemon` |
| `Migrations` | processes that open and migrate the database together | `MCDaemon` |
| `Daemon` | the sum of `Auth` and the eight parts around it, from `Settings` to `Migrations` | `MCDaemon` |
| `MiddlewareProofs` | what a request passes first: types, the coherent cache, the sliding session, the rate limit | TLAPS |
| `DaemonProofs` | the other eight parts of `Daemon` | TLAPS |

`Verdicts` and `Daemon` are sums: each EXTENDS one module, INSTANCEs the
others, and its Init picks the one whose variables live; those of the rest keep one
value. The parts of a sum share no state in the code (a verdict is read by the
Decider as a score, a policy by the scorer as a record), so a behaviour of the sum
is a behaviour of one part, one run explores them all, and what is proved of the
sum is proved of each. The constants of the parts are those of the sum;
`MCVerdicts` and `MCDaemon` only give them values.

`Runs` takes the lock as one variable, which the refinement of `RunSlot` by
`RunLock` justifies, and a candidate as one or two steps, whose parts are in
`Actor`. `DiskWatcher` takes a run as a sequence of reaps, its own
as well as those of the triggers that have the slot in between. `Pipeline` keeps of a
verdict what it was computed from; how it is computed is in `Scoring`. `Settings` has the protocol of the reload
and `Connections` what it loads. Names are the code's.

### Correspondence

* `RunLock`. `ch[p]` is the channel of process p, `flock` the process that holds
  the file lock, `runID[p]` the registry of p (0: no cancel). TryAcquire is `TrySend`,
  `TryFlock`, and `RollBack` on refusal; Release is `ReleaseRegistry`,
  `ReleaseFlock`, `ReleaseSlot`. `Die` is the kernel's: descriptors of a dead
  process close. Two processes here; the lock of one without a file is the case
  of one process.
* `Actor`. `pc` is the position in processCandidate: `links` (LinksByHash and
  the first pass of fanoutArr), `arr` (one `ArrDelete` per attempt at one
  file), `nlink` and `stat` (checkNlink), `qbit` (an attempt at Client.Delete),
  `finish`, `forget`. `row`, `status`, `act`, `audit`, `mediaFiles` and `rows` are
  the tables; `arr`, `qbit`, `paths`, `peers` the world: what the services
  know, which torrent's path names which inode, and inodes with a link of
  somebody else. A link count is derived from them (`Shared`). File ids are in
  the order of the rows, so "the links after f" are the larger ids. The audit
  log is kept for the action at work.
* `Runs`. A thread is a request with the goroutine it detaches, the watcher, or
  a CLI process; `pc` is the call it makes next. `engine` is the pollers'
  engine, `httpEngine` the server's: they differ between `StartPollers` and
  `SwapEngine`, and a thread keeps in `mode` and `acts` what it read at first.
  The Decider's plan is here any list of torrents with a row in the order of their
  rank (`RankedPrefixes`); which prefix it is, is in `Decider`.
  `engineDown` and `term` are engineCtx and signalCtx. `Exit` ends every daemon
  thread where it stands. After SIGTERM the code closes the lock's file a moment before
  the process ends (`daemon.go:55`): what a detached run still does in that moment beside
  a CLI is left out. `asked`, `stale` and `cutShort` are history: the runs whose stop was
  asked for, the torrents whose row has outlived them, the runs that were cut short.
* `DiskWatcher`. Space is in units, the library a sequence of candidate sizes by
  rank. `age` is the time since lastFire, `tickAge` since the tick began,
  `sampleAge` since the sample; `marked` and `markAge` are the throttle row.
  `Advance` lets time pass within the poller's cadence (`SampleMax`) and a
  run's length (`RunMax`). A run of another trigger is `OtherTakes`, any number of
  `OtherReaps` and `OtherLeaves`; it and `UserFrees` move the volume and nothing the
  watcher looks at. `freed` adds up what they have freed since the sample that the
  watcher planned on or, between fires, the newest one. A sample is one step: `statfs` and
  the insert of the row. The daemon is live: a dry-run watcher deletes nothing.
  Dispatching an alert and marking it are one step. TickLoop ticks at once on
  start, so a reload starts with a transition.
* `Pipeline`. A signal is a channel of one slot with a non-blocking send. The
  torrent poller is `ListTorrents` to `Notify`, the tracker poller a select over the
  full timer, the debounce timer and the catchup signal, the loop `Wake`, `Drain`,
  and the statements of a pass. The handler of a toggle writes the flag, reads, and
  writes one verdict; a pass may come between. `Forget` is the Actor's.
* `Decider`. One action per read, then one per round of the walk; the writers
  move between any two. Sizes and free space are integers where the code has
  int64 and float64: a percentage is rounded down to whole bytes as in the code.
  Hashes are numbered in the order of torrent_hash. The ORDER BY of ListScores is
  the set of lists that are sorted (`Ranking`), which has one element; the candidates
  in the statement of `PlanIsShortestPrefix` are a filter of the ranking (`Filter`)
  that knows nothing of the walk's index, sums and stops.
* `Scoring`. Time is in days, scores in hundredths; the statistics of the swarm
  are any of `Stats`. `ReplaceTrackers` is the join of a fetch with the rows that
  carry first_seen_dead; a status is what a fetch may find of a URL, and the
  pseudo-trackers (`dht`) are filtered as in ListTrackers. The factors are
  evaluated from the rows at every instant, so that a property speaks of the verdict
  a pass at that instant would write. `deadSince` and `idleSince` are history.
* `Policies`, `TrackerPolicies`. A policy is a record of ratio, days and rare
  threshold; a threshold below 0 stands for what is absent or refused. A pass reads
  the defaults and then the overrides; `quiet` says that nothing was saved meanwhile.
* `Exclusions`. A medium is an instance and an id; its row carries tags, its file
  row the path, its import row the torrent. A tick of the poller is the health
  check, the list, one upsert per row, the files, the import sync, any of which may
  fail and leave the others. `Fold` is ToLower.
* `Snapshots`. A day is `DayLength` instants and the cron one of them. A mean of at
  most two samples is a whole number of halves (`Unit`); the two queries of the
  statistics are translated each on its own and compared, as are the grouping of
  the daily rows and the average over the stats.
* `Settings`. A request is `hpc`: validate, write each key, ask, wait. The channel
  of the main loop has one slot (`queue`), a SIGHUP another (`hup`); `mpc` is the loop
  at work, `loading` what it has read. Of the keys, the two that the schema relates
  are modelled; a table has one kind of connection.
* `Connections`. A record of the form, of the YAML and of the row: a URL that is
  absolute, bare or empty, a secret, enabled. `ValidInput` is the API's check,
  `Validate` the configuration's and `Builds` that of the clients' constructors. `Build`
  is buildEngine; its preflight looks at the services and the file system, so that it may
  refuse anything (`PreflightRefuses`).
* `Auth`. A request reads the cached state or the count of accounts, then its
  session, then serves; enabling, disabling, login, logout and the recovery command
  are the writers. Time is in the smallest unit that tells the TTLs apart.
* `Passwords`, `RateLimit`, `QbitSession`, `Migrations`, `Health`, `Imports`. One
  action per statement, request or transaction that another process, goroutine or
  failure may come after; a mutex that is held over a request makes it one step.

## Runs

| run | asks | states |
|---|---|---|
| `MCRunLock` | exclusion, registry, refinement of `RunSlot`; the slot is given back | 922 |
| `MCActorFaults` | two runs with failing, lost and retried writes, failing statements and crashes: order of deletion, traces, single credit, a truthful audit | 2.6 M |
| `MCActorLive` | a run of any mode, trigger and cap on a cross-seeded volume that others change meanwhile: nothing is half done at its end, and it ends | 263 k |
| `MCRunsFaults` | request, watcher, stops, polls, reloads, SIGTERM, crashes, failing statements: turns and stops | 2.8 M |
| `MCRunsLive` | request and CLI with a store that works: what is shown in progress settles, a plan made in the slot names no dead target | 191 k |
| `MCDiskWatcher` | no deletion above the target but for what others freed, alerts a reminder apart, pressure is answered | 969 k |
| `MCPipeline` | what is stored is scored, a new torrent gets its trackers without a sweep, ticks settle the verdicts | 431 k |
| `MCVerdicts` | plan, statistics, bonus, policies, veto, exclusions: what a deletion is decided on | 1.9 M |
| `MCDaemon` | login, settings, connections, health, imports, qBittorrent's session, passwords, rate limit, migrations | 1.8 M |

`DeletionsAreTraced` and `ReapedOnce` need the store and the process to fail,
`EndedRunsAreClosed` and `RunsEnd` say something only where they do not: this is
what divides the Actor's runs in two, and those of `Runs` in the same way.

What the properties of the two sums say of their parts:

| property | part | promise |
|---|---|---|
| `PlanIsShortestPrefix`, `PlannedWereCandidates` | `Decider` | the plan is the shortest prefix of the ranking that meets the need, of rows that were candidates while it was made |
| `StatsAgree` | `Snapshots` | the query over all torrents and the one over one agree, whatever the retention has moved |
| `BonusIsServedAsAnnounced` | `Scoring` | the dead-tracker bonus starts on the day the API counts down to, after a grace that only a live or vanished tracker restarts |
| `VetoIsAbsolute` | `Scoring` | in its hit-and-run window a private torrent stays negative, unless every tracker was found dead |
| `StrictestPolicyWins` | `Policies` | an undisturbed pass judges by the strictest saved policy of the torrent's hosts, in any order |
| `TagsReachVerdicts` | `Exclusions` | after a clean tick, an excluded tag of a medium excludes the torrent of its present file, and no other |
| `CacheIsCoherent`, `SessionsFollowUse` | `Auth` | a switch of authentication is seen at once or within the TTL; a session lives as long as it is used |
| `LoneWritesLoad`, `RepliesTellTheTruth` | `Settings` | overrides written alone always load; a 200 means that the change runs |
| `BlankKeepsSecret`, `StoredConnectionsPass` | `Connections` | a blank secret keeps a stored one; whatever the API accepts passes the checks of the configuration and of the constructors, at a reload and at a start |
| `AnnouncementsAlternate` | `Health` | a provider hears of a loss and of its end in turn |
| `NoImportIsSkipped` | `Imports` | the cursor passes no import by |
| `OneRefusalPerLoss` | `QbitSession` | a lost session costs a call one 403 |
| `PasswordsAreShown` | `Passwords` | a generated password in force has been shown |
| `LimitIsPerAddress` | `RateLimit` | nobody pays for the requests of others, nobody gets more than the bucket |
| `MigrationsAreWhole` | `Migrations` | each migration once, in order, recorded |

### Disagreements with what the repository says

Each of these runs checks one sentence of a comment or document of the
repository, and TLC finds a behaviour of the code against it.

| run | the sentence | what happens |
|---|---|---|
| `MCRunsDisconnect` | live runs are driven to a terminal state | a client that leaves between two inserts leaves a pending run |
| `MCSnapshotsDays` | DownsampleRange is safe to call repeatedly, a row per torrent and day | the cutoff is a time of day: a day is aggregated in two passes, and the second replaces the first |
| `MCDeciderVeto` | SCORING.md: negative scores are filtered out | they rank last and are planned when needed |

Others were met while modelling. The models contain the behaviour, the
properties are stated so that they hold with it, and no run is kept for them.

Runs and deletions:

* `internal/actor/actor.go:338`: a DELETE that was applied without an answer is
  retried, answered 404, and aborts the candidate; ADR-0027 (lines 54-55) calls
  it harmless. (`ArrDelete`, with a lost answer and a second attempt.)
* `internal/store/media_files_repos.go:33`: rows of files that \*arr has replaced are
  never removed, against the comment of LinksByHash (`arr_imports_repos.go:88-90`); the DELETE of such a
  file fails for ever. (`ArrDelete`, with "upgrade".)
* `actor.go:327`: a first pass of fanoutArr that gives up writes no audit row for
  the links before the refused one; ADR-0016 (63-65) says that the rows suffice
  to tell files apart. `AuditTellsFilesApart` therefore leaves that case out.
* `internal/triggers/disk_watcher.go:200`: a reload or a failing statement between
  InsertRun and InsertRunItems leaves a live row that is "completed" and never
  executed, against the comment at 159. (`InsertRunItems` with `CtxDown`.)
* `disk_watcher.go:143-145`: a skipped fire is said to be retried at the next tick; it
  waits out the grace of the fire before.
* `actor.go:149`: a reload or SIGTERM marks a run as stopped by its user, which
  `runs_repos.go:67` says of an operator. `StopsHitTheirRun` names the three causes.
* `handlers_runs.go:75`: a request plans before it takes the slot, so it can
  execute a plan that names a torrent reaped in between, which
  `retention_repos.go:137-140` wants to exclude. `NoDeadTargets` is a promise of
  the triggers that plan in the slot.
* `torrent_client_poller.go:68`: a poll that listed a torrent before it was reaped
  writes its row again after it was forgotten, and a late UpsertScore a scores row
  without a torrent (`ListTorrents`, `UpsertTorrents`).
* `handlers_runs.go:69`: a request keeps the engine it read, and may begin a live
  run after a reload to dry-run (`gate.go:14-15`).
* `disk_watcher.go:139`: a sample above the threshold makes the next one below it
  a transition, which fires at once whatever the grace (38-39).
* `disk_watcher.go:134`: the alert's throttle is cleared by a plan that reaches
  its target only, and not when free space climbs back (ADR-0032, 53-55).
* `disk_watcher.go:124`: a run of another trigger frees space that is in no sample yet,
  and touches neither lastFire nor the watcher's episode. A fire that was skipped
  while it ran, or the first one, plans on the sample from before and deletes beyond the
  target, by what that run has freed; what users delete counts the same.
  `DeletesBelowTarget` adds it to the target (`freed`).
* `disk_watcher.go:139`: a reload, or a run that could not be marked, loses
  lastFire; the next fire may plan on a sample older than the last deletions
  and delete above the target. `DeletesBelowTarget` suspends its promise (`lost`)
  from there to the next sample.

Scores:

* `internal/scorer/factors.go:243`: one fetch that finds every tracker dead lifts the
  hit-and-run veto, whereas SCORING.md (119-120, 133) and `types.go:9-12` speak of
  sustained death. `VetoIsAbsolute` promises the veto up to the first such fetch.
* The veto is -10000 in a sum whose other weights are not bounded by the
  configuration's Validate: a large enough one outweighs what SCORING.md (9, 133,
  179) calls not configurable. `VetoOutweighs` says which weights keep the promise;
  the defaults do, and `VetoIsAbsolute` is checked with weights like them and proved
  for all such.
* A weight of 0 is simulated as 0 (`simulate.go`), while applyDefaults
  (`config/load.go:184-200`) turns a stored 0 into the default.
* `torrents_repos.go:14-21` stores NULL for the zero time; the client passes
  time.Unix(0) for a missing activity, so the fall-through to completion_on does
  not happen with qBittorrent.
* `handlers_torrents.go:297`: a toggle may overwrite the verdict of a pass that read
  later. `TicksSettleVerdicts` says that the next pass mends it.
* `scorer.go:89-108`: a pass may take the old defaults and the new overrides;
  `StrictestPolicyWins` is about passes in which nothing is saved.
* A medium that \*arr no longer has keeps its rows, and goes on excluding.

Configuration, login and the rest:

* Two PUTs at once may store a pair of settings that does not load, and a DELETE
  is not validated at all; the next start of the daemon fails. `LoneWritesLoad`
  names the events.
* `engine.go:87-95`: a torrent client that the API has accepted may still fail the preflight
  (ADR-0023), at once or at a later start, when its save paths are not readable here: a reload
  keeps the old engine, a boot stops. `StoredConnectionsPass` is about all checks
  before that one.
* `docs/CONFIGURATION.md:95` seeds connections "once on first run"; deleting the last
  one seeds them again at the next reload.
* `connections_crud.go:82`: the read of the stored secret may fail, which the handler
  takes for "no secret": a save answered 200 has erased it. A blank save that meets
  a change of the key may restore the old one. A save's read-back may answer
  another client's row, or 500 after it has stored.
* `auth_repos.go:70-73` says that there is one account; two enables at once create two.
  The cookie's expiry is set at issue while `server.go:106` says that it slides.
  The comment of LookupAuthSession says that it refreshes last_seen.
* An enable whose issueSession fails has stored a password that nobody saw; the
  UPDATE of the password of an account that is gone answers 200.
* The comment of the rate limiter "allows burst calls per window": a full bucket
  admits nearly twice as many in one window, and an eviction gives a fresh one.
* A provider with an error floor hears of losses and never of recoveries.
* \*arr that drops history while its pages are read makes Fetch skip records. One that
  imports more than a page (500) between two requests for pages shows newer records
  on the next page than on the last: the older record of a file then overwrites the
  newer one, and the cursor may pass it. The second was met in the proof of
  `NoImportIsSkipped`, which excepts both (`shifted`).
* Two processes that start together on a new database: the loser's Migrate fails
  with "table exists" and the process has to be started again.
* A failed login in the retries of Delete is not transient: the deletion is given
  up although the \*arr files are gone.

### Bounds, and why they are enough

* Lock: three threads in two processes, three run ids: two contenders in a
  process, one across, and an id that is stale after two releases.
* Actor: two torrents, one with two \*arr files and two inodes, one qBit-only;
  two attempts. `MCActorFaults` has two runs, so that the second meets what the
  first left; `MCActorLive` has one, of five kinds, with a cross-seeded inode
  and a file of an instance without a deleter. A hazard needs a file before
  and after another, or a torrent that shares an inode; a third adds no new
  relation.
* Runs: two threads and two rows; request with watcher, request with CLI (two
  CLIs are two processes of `RunLock`, and a CLI and the watcher take the slot
  at the same point). One torrent in `MCRunsFaults`, two in `MCRunsLive`, where the
  engine may also be a dry-run one. A request that loses its client fails at
  any statement, which is what "store" does in `MCRunsFaults`. `Exit` and reloads
  repeat without bound. `nextRun` bounds triggers, so runs stop there:
  CHECK_DEADLOCK is off.
* DiskWatcher: Grace 3, SampleMax 1, RunMax 1: the smallest with
  Grace > SampleMax + RunMax, as with the defaults (an hour, five minutes, and a
  run of minutes). Four units of space, threshold 2, target 3, a reminder longer
  than the grace. One run of another trigger, which with users frees up to two units
  between two samples: enough for a whole plan to be beyond the target. Clocks saturate at the value they are compared with.
* Pipeline: one torrent that comes, goes and comes again, two changes or failures.
  Signals carry no payload and the actors treat torrents alike, so a second torrent
  adds nothing to the signals; that a poller or a pass is halfway through a list is
  kept by what it has read before it writes. Ticks are without bound.
* Decider: three hashes, one of them off the volume, ties in score and a tie
  with the need, link counts at and above the ceiling of an imported torrent (a
  torrent without a file sample stands for the counts below); one write at any
  point of a plan. `Plan` ends: CHECK_DEADLOCK is off.
* Scoring: two trackers of two hosts and a pseudo-tracker, a grace of two days, six
  days: a grace can be served, interrupted and served again. Statistics below and
  above each threshold, three sets of policies that disagree in every field.
* Policies: two hosts, lists of trackers in both orders, values at zero, absent and
  refused; three saves around a pass.
* Exclusions: two instances whose media have the same id, so that a join that forgets
  the instance shows; two torrents, so that a file can be replaced; two edits.
* Snapshots: three days of four instants, a retention of raw rows that ends in
  mid-day, one torrent always listed and one that comes and goes. `MCSnapshotsDays`
  keeps the raw rows longer, as the defaults do.
* Imports: two files, four records, pages of one record, so that a sync has several
  pages and more may come in between two requests than a page holds.
* MCDaemon: two clients, callers or calls at a time, which is what a race needs;
  two requests of each; one edit of the file; threshold and target that conflict
  unless written together; three addresses for two buckets; two processes of the
  next version and one of this. Time is bounded, accounts, sessions and starts are
  numbered: all parts may stop there, and CHECK_DEADLOCK is off.

A `Faults` constant says per run which failures may happen, because a property
of the shape "unless the store failed" is weaker than the property without
failing store. Every kind is on in some passing run or in the disagreement it
causes.

### Fairness

Weak fairness of each thread's next step: the Go scheduler runs runnable
goroutines, and every call of the pipeline has a deadline (25 s per request,
bounded retries, SQLite's busy timeout). Tickers tick (`Tick`, `Sample`,
`PollArr`, `Advance`), and `OtherLeaves` holds because a run ends (`RunsEnd`) and its
trigger then releases the slot. In `Runs`, a user asks for the stop of a run that
is shown in progress, which settles the one that nothing drives. Nothing is
assumed of faults, reloads or triggers. The lock's `SlotIsGivenBack`
assumes that a thread which holds it goes on.

In `Pipeline`, weak fairness of the steps of the poller, the sweep, the loop and
the handler; strong fairness of `Arm` and `Catchup`, because they are cases of a Go select,
which chooses uniformly among those that are ready, and a full sweep in between
makes them unready. No tick and no full sweep has to come: `NewDataIsScored` and
`NewTorrentsCatchUp` hold without, `TicksSettleVerdicts` assumes the ticks in its
statement.

## Proofs

`RunLockProofs` proves, for any sets of threads and processes and any number
of runs:

* `Invariance`: `IInv` is inductive. Mutual exclusion is not by itself: it needs
  that the channel of a process is full exactly when one of its threads is past
  the send (`SlotIsOwned`), that the flock belongs to the process of the one
  that holds it (`FlockIsHolder`), that a registry names the run of the holder
  (`RegistryIsHolder`) and that ids ahead are unused (`RunsAreFresh`).
* `Exclusion` and `StopReachesHolder` follow.
* `Refinement`: every step of `RunLock` is a step or a stutter of `RunSlot`, with
  the holders as the slot's occupants.

`ActorProofs` proves, for any torrents, files, hardlinks, plans, cap, number of
attempts and runs, and any faults:

* `TypeCorrect`; `Invariance` of `IInv`. Behind the properties are: no resolved
  link is left in \*arr after its phase (`ArrIsFirst`); a file seen as the last
  hardlink stays so but for links of others (`SeenIsUnshared`, which is what
  a stat that is old by the time of the deletion amounts to); a torrent that
  qBittorrent still lists was not credited before (`TargetIsFresh`); and a
  success about to be written is real (`SuccessIsReal`).
* `SuccessHolds`, `CreditedOnce`, `QbitIsLast` follow.
* `Traced`, from `TraceInv`. That a lost torrent has an action row is not inductive:
  the next write of that row may be a failed attempt's. It needs that rows beyond the
  loop's index are blank (`FutureIsBlank`), that the run at work has its row open
  (`RunIsOpen`), that what the candidate deletes is its own (`WorkIsOfCandidate`), and
  that the trace of a lost torrent is not one that this candidate is still to
  overwrite (`LossIsTraced`, `FilesAreTraced`).
* `RunsAreClosed` and `AuditTells`, from `ClosedInv`: an action that says "running" is
  the candidate's or was left by a death in a run that is still open
  (`RunningIsAtWork`), the loop does not pass the cap (`CapsHold`), and every file that
  is through has one audit row (`AuditOK`).

`RunsProofs` proves, for any number of requests, watchers and CLI processes, any
torrents and any bound on the runs:

* `TypeCorrect`, `Invariance` of `IInv`: only a live run takes the slot, and it holds
  it from `Lock` to `Release` (`SlotIsHeld`); a thread works on a row that it
  inserted, and alone (`RunsAreOwned`); what is stopped was asked for
  (`StopsAreAsked`).
* `TurnTaking` and `StopsHit` follow, whatever fails.
* `TargetsAreAlive`, whatever fails: a target of a run that planned in the slot is in
  qBittorrent or in `stale`, the torrents whose row outlived them. There are three ways
  into `stale`, each a disagreement listed above: a ForgetTorrent that fails, a death before
  it, and a poll that was under way. `AliveInv` has that a row without its torrent is
  stale or the one being forgotten. In `MCRunsLive` none of the three happens, `stale` is
  empty, and `NoDeadTargets` says that every target is there.
* `ShownAreDriven`, whatever fails: a run that is shown in progress is some thread's or
  was cut short (`OnlyCutShortAreUndriven`). A run gets into `cutShort` when its
  request is given up before its items are written, when the write of its end is
  refused, or when its daemon dies: `MCRunsDisconnect` shows the first. The invariant
  behind it has that a row that is shown before it is executed is a live request's
  (`ShownRunsWillAct`).

`DiskWatcherProofs` proves, for any volume, any candidates, threshold, target and
durations:

* `TypeCorrect`, with no assumption on the durations. The proof corrected the type: a
  fire that takes longer than the grace sets lastFire to a time that is longer ago
  than the grace, so `age` may be anything up to `RunMax`.
* `AlertsSpaced`, again for any durations, from `ThrottleOK`: the throttle row is no
  older than the last alert, or the next one is due, or excused.
* `NoOverDeletion`, where `GraceCoversRun`: the grace is longer than the interval of
  the samples and a run together. The defaults are an hour and five minutes, so it is
  about runs under 55 minutes; nothing in the code enforces it, and `FiresAlways`
  shows what happens without a grace. `SampleOK` has why it suffices: a sample that
  misses more than others have freed was taken before the end of the watcher's last run,
  and until it is replaced either the grace has not passed or the episode goes on.
  `SlotOK` has that others reap only while the watcher has no plan. `PlanOK` has that
  what is left of a plan does not reach the target, and what others have freed, without
  its last item, whatever was reaped, kept, downloaded or removed by users meanwhile.

`VerdictsProofs` proves, for any torrents, scores, sizes, samples, and any number of
writes between the statements of Plan:

* `TypeCorrect`, `Invariance` of `IInv`: what was ranked was electable at some time
  since Plan began, and is ranked once (`RankingOK`); the items are walked and kept
  ones in the order of the ranking (`WalkOK`), namely what a filter leaves of the part
  that was walked, and the estimate is their size (`ItemsOK`); the walk goes on while
  that is not enough (`EnoughOK`).
* `PlannedAreElectable` and `ShortestPrefix` follow: all that Plan promises.

And of the other parts of `Verdicts`:

* `StrictestWins`, for any hosts, lists of trackers, policies and number of saves. What
  the tables hold is what was asked for last (`StoredIsAsked`), and an undisturbed pass
  has read it (`PassIsCurrent`); the merge is an induction over the list of trackers.
* `BonusIsServed`, for any trackers, hosts, grace and length of history. A stored
  first_seen_dead is the activity from before the first fetch that found the tracker
  dead (`FirstSeenIsIdle`), through any fetches that come after.
* `VetoHolds`, for any weights with `VetoOutweighs`. The score is a sum of eight factors,
  each of which is bounded by its weight; the hypothesis says that the bounds of those
  that speak for a torrent stay below the veto together, and no more than that.
* `StatisticsAgree`, for any torrents, samples, retentions and windows. One query takes
  the newest row by ORDER BY and LIMIT 1, the other ranks the rows per torrent and takes
  the first: they agree because the points of a torrent have different instants, which
  is the invariant (`Sn!IInv`: the raw rows are keyed, and no sample is at a midnight,
  where the daily rows are). The grouping, the choice and the average of both are then
  the same, and a hash without rows gets the zeros that both have for it.
* `TagsProtect`, for any instances, media, tags and edits. The import rows are of the
  first files (`ImportsFromFirst`), the tables have what the \*arr had when they were
  written (`TablesFollow`), and a pass or a rescore has read them since
  (`ReadsFollow`).

`DaemonProofs` proves, of the parts of `Daemon` and for any values of their constants:

| theorem | states | with the inductive invariant that |
|---|---|---|
| `Session` | `OneRefusalPerLoss` | a call has been refused at most as often as sessions were lost (`CountsOK`), and less if it is about to be refused (`LossIsAhead`) |
| `MigrationsWhole` | `MigrationsAreWhole` | those below a recorded migration are recorded too (`InOrder`); what a process has passed is recorded, and what its transaction is about is not (`ProcessOK`) |
| `PasswordsShown` | `PasswordsAreShown` | a password about to be written was accepted, or generated for this call only (`CallOK`) |
| `ConnectionsPass`, `SecretsAreKept` | `StoredConnectionsPass`, `BlankKeepsSecret` | what is stored and what is being loaded pass Validate, and so does what a save is about to write, whose secret is one that was there during the request (`WriteOK`) |
| `RepliesAreTrue` | `RepliesTellTheTruth` | who waits is waited on, by the queue or by the reload at work (`TicketsOK`), which has seen that write, and has what is stored if nothing was written since (`LoadingOK`) |
| `WritesLoad` | `LoneWritesLoad` | what a lone writer has still to write loads with the rest (`WritersOK`) |
| `AnnouncedInTurn` | `AnnouncementsAlternate` | what a provider heard last is what the table says (`BalanceOK`), but for the announcement at work (`AnnouncingOK`) |
| `ImportsAreSeen` | `NoImportIsSkipped` | of every record on the pages so far, that one or a later one of its file is collected (`CollectedOK`), and nothing that came in meanwhile is on a page still to be read (`NewerAreBefore`) |

`MiddlewareProofs` proves, for any number of requests, accounts and sessions and any
durations:

* `TypeCorrect` and `Invariance` of `IInv`.
* `CacheCoherent`. A wrong answer in the cache, or on its way there, is from before the
  last switch (`CacheOK`), which holds only because no request outlives its timeout
  (`RequestsInTime`): the answer that a slow request stores is otherwise of any age.
* `SessionsSlide`, from `SessionsOK`: an extension writes both columns, and a touch
  that is on its way is of a use of that session.
* `LimitPerAddress`, for any addresses, burst and number of buckets. The list has the
  addresses in the order of their last requests, and one that was evicted is followed
  by as many others as there are buckets (`ListOK`); what a bucket lacks is exactly what was
  allowed since one of the requests of its address, less the time since, and no stretch
  during which it was kept took more (`BucketsOK`). The exact count gives both halves
  of the promise: nobody gets more, and nobody is refused for less.

`SumsProofs` is what these rest on. The library states induction with an
operator for a parameter, which the provers cannot instantiate; `Induction` states it
with a set of numbers and follows from the well-foundedness of Nat. With it the
recursive functions of `Sums` are shown to be defined (`RunningTotalDef`,
`RunningFilterDef`), totals to grow, to depend on the prefix only and to lose what is
removed from the list, the filter of a prefix to be a prefix of the filter, and a
bounded set of numbers to have a greatest element (`GreatestNat`).

Theorems of a sum are about the part at work: the definition that they state says
`which = "imports" => Im!NoImportIsSkipped`, and every step of another part leaves
that of no interest. Nothing else is assumed of the parts.

### Assumptions

The assumptions on constants, all of which TLC evaluates on the instances of the runs:

* the `ConstantsAssumption` of each component: types, file ids that are positive, a plan
  that names a torrent once, as the primary key of scores has it;
* `SessionAssumption`, `RateLimitAssumption`: at least one attempt, a default limit and a
  number of buckets above zero, which are constants of the code;
* `ImportsAssumption`: a page has a record; its size is a constant of the code;
* `MigrationsAssumption`: a version appends its migrations to those before it, which is
  how the files are numbered and embedded;
* `SettingsAssumption`: a body has an entry (an empty PUT is refused), and there is a
  table of connections;
* `HealthAssumption`: there is a provider, without which the watcher is not built, and
  none is there twice;
* `ConnectionsAssumption`: the configuration file has been validated before the daemon
  starts, a kind belongs to one of the two tables, and a backend is one of a
  torrent client;
* `ScoringAssumption`: a torrent was added in the past; statistics are numbers, and
  seeder counts are those where the logarithm of the bonus is whole;
* `SnapshotsAssumption`: midnight is an even instant. That no sample is taken at one
  is the model's: polls are at the odd instants, and ties of a sample with the
  midnight of its day are left out;
* `PoliciesAssumption`: the defaults that the migration inserts are valid ones;
* `ExclusionsAssumption`: there is a torrent, and a kind of instance.

Two hypotheses are not assumed but stated in the theorems that need them, because
the code does not ensure them: `GraceCoversRun` of `DiskWatcher` and `VetoOutweighs` of
`Scoring`. Each holds of the constants of the runs that check the property. `SucceededIsGone` and
`ReapedOnce` speak of torrents that nobody adds to qBittorrent again, as the models have no such action.

### Only model-checked

Every invariant and every action property of the passing runs is proved. What TLC
alone checks:

* liveness (`SlotIsGivenBack`, `RunsEnd`, `ShownRunsSettle`, `PressureIsAnswered`, and
  `NewDataIsScored`, `NewTorrentsCatchUp` and `TicksSettleVerdicts` of `Pipeline`): no
  prover here handles fairness and ENABLED;
* that the recursive functions and folds compute what the Go loops do: the proofs take
  them as their definitions say.

Every module with variables but `RunSlot`, whose state `RunLock` maps, has a type
invariant. All are proved but those of `Pipeline` and `Snapshots`; of the latter,
what the proofs need of its types is in `Sn!IInv`. `VerdictsTypeOK` and `DaemonTypeOK`
collect those of the sums. They hold on the instances of the runs; the configurations
spend their time on the properties, and `INVARIANT TypeOK` (or the one of the sum) in
their place checks them, as `INVARIANT IInv` does for the inductive invariants and
`INVARIANT OnlyCutShortAreUndriven` in `MCRunsFaults` for what `ShownAreDriven` states.

## Not modelled

* The read API and the CLI's reports, but for the countdown and the toggles; the web
  UI: queries and presentation, without state.
* `simulate.go`: the factors of `Scoring` with other weights.
* The parsing of the YAML, the tables of defaults and the wording of errors
  (`config.go`, `load.go`); of the settings, those whose checks do not depend on
  another key.
* What notifications look like, and their delivery; the report after a run of the
  watcher (`notifyRun`).
* The translation of \*arr's and qBittorrent's JSON; retries of reads: a read fails
  or not.
* The hash functions of passwords and tokens; cookies, API keys and headers.
* SQLite itself: a transaction is a step, and a statement that fails leaves no
  trace. The pruning of disk samples and of old runs: DELETEs by age which nobody
  modelled here reads.
* The linker, and what the preflight looks at: lookups of paths without state. That the
  preflight may refuse is in `Connections`. The rest of the construction of the engine,
  fakes and development tools.
* The moment between the closing of the lock's file and the end of the process, in which a
  detached run and a CLI may overlap (`daemon.go:55`).
* `LatestDiskUsage` of a volume whose path was changed.

## Plan

1. The refinement of a candidate of `Runs` by `Actor`, and of the verdict of `Pipeline`
   by `Scoring`.
2. The pruning of samples and runs, and the report of a run, in `DiskWatcher`.
