------------------------------ MODULE Snapshots ------------------------------
(***************************************************************************)
(* The samples of the torrents: the torrent client poller appends them to  *)
(* snapshots_raw, the nightly maintenance (internal/pollers/downsampler.go *)
(* over internal/store/retention_repos.go) folds old ones into one row of  *)
(* snapshots_daily per torrent and day, and the scorer reads both through  *)
(* ScoringSnapshotStats and ScoringSnapshotStatsAll.                       *)
(*                                                                         *)
(* An instant is a number; a day has DayLength of them and the first is    *)
(* midnight.  Polls happen at odd instants, so that, as in the code, no    *)
(* sample bears the timestamp of a midnight.  A torrent has a size of one, *)
(* so that its ratio is what it has uploaded.                              *)
(***************************************************************************)
EXTENDS Integers, Sequences, FiniteSets, FiniteSetsExt, SequencesExt

CONSTANTS Hashes,
          Values(_),     \* the samples a torrent may give: [seeders, upload]
          Leaving,       \* torrents that may be absent from a listing
          DayLength,
          CronAt,        \* the instant of the day of downsample_cron
          DownsampleAge, RawRetention, DailyRetention, TorrentRetention,
          SeedersWindow, \* the window of the seeders average: 7 days
          VelWindow,     \* velocityWindowDays
          MaxNow         \* bound on time

\* A mean of at most DayLength \div 2 samples is a whole number of 1 / Unit.
Unit == 2

VARIABLES
  now,
  seen,     \* torrents.last_seen, for the torrents that have a row
  counter,  \* what each torrent has uploaded so far
  raw,      \* snapshots_raw: [hash, ts, seeders, uploaded]
  daily,    \* snapshots_daily: <<hash, day>> to its aggregate
  pc,       \* the maintenance: "idle", "retention", "prune"
  polled, cronned,  \* what has happened at this instant
  history   \* every sample that was stored, of the torrents still known

vars == <<now, seen, counter, raw, daily, pc, polled, cronned, history>>

Day(t) == t \div DayLength
Midnight(d) == d * DayLength
Range2(f) == {f[x] : x \in DOMAIN f}

Init ==
  /\ now = 1
  /\ seen = <<>> /\ counter = [h \in Hashes |-> 0]
  /\ raw = {} /\ daily = <<>>
  /\ pc = "idle" /\ polled = FALSE /\ cronned = FALSE
  /\ history = {}
-----------------------------------------------------------------------------
\* TorrentClientPoller.tick: UpsertTorrents refreshes last_seen of what is
\* listed, InsertSnapshots adds a sample of each, or fails and is only logged.
Poll ==
  /\ now % 2 = 1 /\ ~polled
  /\ polled' = TRUE
  /\ \E away \in SUBSET Leaving :
       LET listed == Hashes \ away
       IN  /\ seen' = [h \in listed |-> now] @@ seen
           /\ \/ \E v \in [listed -> UNION {Values(h) : h \in listed}] :
                   /\ \A h \in listed : v[h] \in Values(h)
                   /\ counter' = [h \in Hashes |->
                        IF h \in listed THEN counter[h] + v[h].upload ELSE counter[h]]
                   /\ LET new == {[hash |-> h, ts |-> now, seeders |-> v[h].seeders,
                                   uploaded |-> counter'[h]] : h \in listed}
                      IN  raw' = raw \cup new /\ history' = history \cup new
              \/ UNCHANGED <<counter, raw, history>>
  /\ UNCHANGED <<now, daily, pc, cronned>>

\* One row of snapshots_daily, from the raw rows of its group.
Aggregate(rows) ==
  LET n == Cardinality(rows)
      Mean(Of(_)) == (Unit * MapThenSumSet(Of, rows)) \div n
  IN  [ratio |-> Mean(LAMBDA r : r.uploaded),
       seeders |-> Mean(LAMBDA r : r.seeders),
       seedersMin |-> Min({r.seeders : r \in rows}),
       seedersMax |-> Max({r.seeders : r \in rows}),
       uploaded |-> Max({r.uploaded : r \in rows}),
       samples |-> n]

\* The GROUP BY of the INSERT, over the rows that are old enough.
DailyRows(old) ==
  [k \in {<<r.hash, Day(r.ts)>> : r \in old} |->
     Aggregate({r \in old : <<r.hash, Day(r.ts)>> = k})]

CronTime == pc = "idle" /\ now % DayLength = CronAt /\ ~cronned

\* runOnce begins with DownsampleRange, a transaction: a new aggregate replaces
\* the row of its torrent and day, and the raw rows go.  An error is logged.
Downsample ==
  /\ CronTime
  /\ \/ LET old == {r \in raw : r.ts < now - DownsampleAge}
            new == DailyRows(old)
        IN  /\ daily' = [k \in DOMAIN new \cup DOMAIN daily |->
                           IF k \in DOMAIN new THEN new[k] ELSE daily[k]]
            /\ raw' = raw \ old
     \/ UNCHANGED <<daily, raw>>
  /\ pc' = "retention" /\ cronned' = TRUE
  /\ UNCHANGED <<now, seen, counter, polled, history>>

\* EnforceRetention: two statements; the second is not run when the first fails.
EnforceRetention ==
  /\ pc = "retention"
  /\ LET keptRaw == {r \in raw : r.ts >= now - RawRetention}
         keptDays == {k \in DOMAIN daily : k[2] >= Day(now - DailyRetention)}
     IN  \/ raw' = keptRaw /\ daily' = [k \in keptDays |-> daily[k]]
         \/ raw' = keptRaw /\ UNCHANGED daily
         \/ UNCHANGED <<raw, daily>>
  /\ pc' = "prune"
  /\ UNCHANGED <<now, seen, counter, polled, cronned, history>>

\* torrentCascadeTables: the rows of the torrents leave every table at once.
Evict(gone) ==
  /\ seen' = [h \in DOMAIN seen \ gone |-> seen[h]]
  /\ raw' = {r \in raw : r.hash \notin gone}
  /\ daily' = [k \in {k \in DOMAIN daily : k[1] \notin gone} |-> daily[k]]
  /\ history' = {r \in history : r.hash \notin gone}

\* PruneStaleTorrents, a transaction; the vacuum, the checkpoint and the
\* statistics that follow leave the rows alone.
PruneStaleTorrents ==
  /\ pc = "prune"
  /\ \/ Evict({h \in DOMAIN seen : seen[h] < now - TorrentRetention})
     \/ UNCHANGED <<seen, raw, daily, history>>
  /\ pc' = "idle"
  /\ UNCHANGED <<now, counter, polled, cronned>>

\* ForgetTorrent: the Actor reaps it.
ForgetTorrent(h) ==
  /\ h \in DOMAIN seen /\ h \in Leaving
  /\ Evict({h})
  /\ UNCHANGED <<now, counter, pc, polled, cronned>>

\* Time passes, whether or not the daemon was up to poll or to run its cron.
Tick ==
  /\ pc = "idle" /\ now < MaxNow
  /\ now' = now + 1 /\ polled' = FALSE /\ cronned' = FALSE
  /\ UNCHANGED <<seen, counter, raw, daily, pc, history>>

Next ==
  \/ Poll \/ Downsample \/ EnforceRetention \/ PruneStaleTorrents
  \/ \E h \in Hashes : ForgetTorrent(h)
  \/ Tick

Spec == Init /\ [][Next]_vars
-----------------------------------------------------------------------------
\* velPoint and velocityFromPoints: the uploaded bytes and the time between two
\* points; <<0, 1>> stands for the zero velocity of missing points.
NoPoint == {}
NoVelocity == <<0, 1>>

Velocity(newest, anchor) ==
  IF newest = NoPoint \/ anchor = NoPoint THEN NoVelocity
  ELSE LET n == CHOOSE p \in newest : TRUE
           a == CHOOSE p \in anchor : TRUE
           span == IF n.ts - a.ts > VelWindow THEN VelWindow ELSE n.ts - a.ts
           delta == IF n.uploaded > a.uploaded THEN n.uploaded - a.uploaded ELSE 0
       IN  IF span <= 0 \/ delta = 0 THEN NoVelocity ELSE <<delta, span>>

\* A mean as a sum of 1 / Unit and a count; no rows give a NULL, read as zero.
NoMean == <<0, 0>>

\* The day rows as velocity points: at midnight, and without the zeros that rows
\* of before the column carry.
DayPoints == {[hash |-> k[1], ts |-> Midnight(k[2]), uploaded |-> daily[k].uploaded] :
                k \in {j \in DOMAIN daily : daily[j].uploaded > 0}}
RawPoints == {[hash |-> r.hash, ts |-> r.ts, uploaded |-> r.uploaded] : r \in raw}

\* The rows of the seeders window: raw rows by instant, day rows by day.
RawInWindow == {r \in raw : r.ts >= now - SeedersWindow}
DaysInWindow == {k \in DOMAIN daily : k[2] >= Day(now - SeedersWindow)}

\* AVG over the raw and the day rows of the window, each row one value.
SeedersMean(h) ==
  LET r == {x \in RawInWindow : x.hash = h}
      d == {k \in DaysInWindow : k[1] = h}
  IN  <<MapThenSumSet(LAMBDA x : Unit * x.seeders, r) +
          MapThenSumSet(LAMBDA k : daily[k].seeders, d), Cardinality(r) + Cardinality(d)>>

\* ScoringSnapshotStats: four queries for one hash, ORDER BY ts LIMIT 1.
ScoringSnapshotStats(h) ==
  LET Mine(S) == {p \in S : p.hash = h}
      Latest(S) == IF S = {} THEN {} ELSE {CHOOSE p \in S : \A q \in S : q.ts <= p.ts}
      Earliest(S) == IF S = {} THEN {} ELSE {CHOOSE p \in S : \A q \in S : q.ts >= p.ts}
      raws == Latest(Mine(raw))
      days == {k[2] : k \in {k \in DOMAIN daily : k[1] = h}}
      anchors == {p \in Mine(RawPoints) : p.ts >= now - VelWindow} \cup
                 {p \in Mine(DayPoints) : Day(p.ts) >= Day(now - VelWindow)}
  IN  [seeders |-> SeedersMean(h),
       ratio |-> IF raws # {} THEN Unit * (CHOOSE r \in raws : TRUE).uploaded
                 ELSE IF days # {} THEN daily[<<h, Max(days)>>].ratio ELSE 0,
       velocity |-> Velocity(Latest(Mine(RawPoints \cup DayPoints)), Earliest(anchors))]

Newer(p, q) == p.ts > q.ts \/ (p.ts = q.ts /\ p.uploaded > q.uploaded)

\* ROW_NUMBER() OVER (PARTITION BY torrent_hash ORDER BY ...) = 1.
NewestOf(S) == {p \in S : \A q \in S \ {p} : q.hash = p.hash => Newer(p, q)}
OldestOf(S) == {p \in S : \A q \in S \ {p} : q.hash = p.hash => Newer(q, p)}

NewestPoints == NewestOf(RawPoints \cup DayPoints)

\* Mutant of AnchorPoints: the zero rows of snapshots_daily count as points.
AnchorPointsWithZeros ==
  OldestOf({p \in RawPoints : p.ts >= now - VelWindow} \cup
           {[hash |-> k[1], ts |-> Midnight(k[2]), uploaded |-> daily[k].uploaded] :
              k \in {j \in DOMAIN daily : j[2] >= Day(now - VelWindow)}})

AnchorPoints ==
  OldestOf({p \in RawPoints : p.ts >= now - VelWindow} \cup
           {p \in DayPoints : Day(p.ts) >= Day(now - VelWindow)})

\* ScoringSnapshotStatsAll: four queries for all the hashes, joined in a map.  A
\* hash with no row at all is absent from it, and read as the zero value.
ScoringSnapshotStatsAll ==
  LET Grouped(S) == [h \in {x.hash : x \in S} |-> {x \in S : x.hash = h}]
      days == {[hash |-> k[1], day |-> k[2]] : k \in DOMAIN daily}
      rawByHash == Grouped(raw)
      daysByHash == Grouped(days)
      newest == Grouped(NewestPoints)
      anchors == Grouped(AnchorPoints)
      Get(f, h) == IF h \in DOMAIN f THEN f[h] ELSE {}
      Latest(h) ==
        LET r == {x \in Get(rawByHash, h) : \A y \in rawByHash[h] : y.ts <= x.ts}
            d == {x \in Get(daysByHash, h) : \A y \in daysByHash[h] : y.day <= x.day}
        IN  IF r # {} THEN Unit * (CHOOSE x \in r : TRUE).uploaded
            ELSE LET x == CHOOSE x \in d : TRUE IN daily[<<x.hash, x.day>>].ratio
  IN  [h \in DOMAIN rawByHash \cup DOMAIN daysByHash |->
         [seeders |-> SeedersMean(h),
          ratio |-> Latest(h),
          velocity |-> Velocity(Get(newest, h), Get(anchors, h))]]

ZeroStats == [seeders |-> NoMean, ratio |-> 0, velocity |-> NoVelocity]

\* globalAvgFromStats: the mean of the velocities that are not zero, as their sum
\* (in a unit that makes it whole) and their number.
GlobalAvgFromStats(by) ==
  LET unit == ProductSet(1..VelWindow)
      moving == {h \in DOMAIN by : by[h].velocity # NoVelocity}
      velocity == [h \in moving |-> (unit * by[h].velocity[1]) \div by[h].velocity[2]]
  IN  <<SumFunction(velocity), Cardinality(moving)>>

\* computeGlobalAvgVelocity, of a rescore: what it has read of its torrent (the
\* seed) wins over the bulk read.
ComputeGlobalAvgVelocity(hash, seed, by) ==
  GlobalAvgFromStats([h \in {hash} \cup DOMAIN by |-> IF h = hash THEN seed ELSE by[h]])
-----------------------------------------------------------------------------
\* Every variable has its type, and (torrent_hash, ts) is a key of snapshots_raw.
TypeOK ==
  /\ now \in 1..MaxNow /\ counter \in [Hashes -> Nat]
  /\ DOMAIN seen \subseteq Hashes /\ Range2(seen) \subseteq 1..MaxNow
  /\ raw \subseteq history
  /\ \A r, s \in raw : r.hash = s.hash /\ r.ts = s.ts => r = s
  /\ DOMAIN daily \subseteq Hashes \X (0..Day(MaxNow))
  /\ \A k \in DOMAIN daily : daily[k].samples \in 1..DayLength
  /\ pc \in {"idle", "retention", "prune"}

\* The comment of ScoringSnapshotStatsAll: "Equivalence with the per-hash path is
\* intentional and load-bearing".  A rescore of one torrent and a pass over all
\* of them see the same aggregates at every instant, a hash that is absent from
\* the map included, and normalise the velocities by the same average.
StatsAgree ==
  LET all == ScoringSnapshotStatsAll
      average == GlobalAvgFromStats(all)
  IN  \A h \in Hashes :
        LET one == ScoringSnapshotStats(h)
        IN  /\ one = IF h \in DOMAIN all THEN all[h] ELSE ZeroStats
            /\ ComputeGlobalAvgVelocity(h, one, all) = average

\* The inductive invariant behind StatsAgree: the points of a torrent are of
\* different instants, raw rows of odd ones and day rows of midnights.
IInv ==
  /\ now \in Nat
  /\ \A r \in raw :
       r.hash \in Hashes /\ r.ts \in 0..now /\ r.ts % 2 = 1 /\ (r.ts = now => polled)
  /\ \A r, s \in raw : r.hash = s.hash /\ r.ts = s.ts => r = s
  /\ \A k \in DOMAIN daily : k \in Hashes \X Nat /\ Midnight(k[2]) <= now
-----------------------------------------------------------------------------
\* The comment of DownsampleRange: it "aggregates snapshots_raw rows older than
\* `before` into snapshots_daily (one row per torrent per day)" and is "Safe to
\* call repeatedly": the row of a day that has left snapshots_raw stands for all
\* the samples of that day.  (Until RawRetention: it drops rows that the
\* downsampling has failed to take.)
DayRowsAreWhole ==
  \A k \in DOMAIN daily :
    LET OfDay(S) == {r \in S : r.hash = k[1] /\ Day(r.ts) = k[2]}
    IN  now < Midnight(k[2]) + RawRetention =>
          daily[k].samples + Cardinality(OfDay(raw)) = Cardinality(OfDay(history))
=============================================================================
