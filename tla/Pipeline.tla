------------------------------- MODULE Pipeline -------------------------------
(***************************************************************************)
(* How data become verdicts.  The torrent client poller stores what it     *)
(* lists and wakes the scorer and the tracker poller; the tracker poller   *)
(* sweeps all torrents on a timer, catches up on those without trackers on *)
(* a signal, and wakes the scorer; the scorer loop waits for a signal,     *)
(* lets a burst pass, and scores everything from five statements and one   *)
(* write.  Meanwhile the API toggles flags and rescores one torrent,       *)
(* and the Actor forgets what it has reaped.                               *)
(*                                                                         *)
(* A signal is a channel of one slot, written without blocking.  Of the    *)
(* verdict, the model keeps what it was computed from.                     *)
(***************************************************************************)
EXTENDS Naturals, FiniteSets, SequencesExt

CONSTANTS Hashes,     \* the torrents
          MaxChanges  \* bound on what users and the client change, and on failures

VARIABLES
  \* the torrent client: what it holds; changes and failures so far
  client, changes,
  \* the store: torrents rows (the flag that is set: "protected", "boost" or
  \* none), torrent_trackers (whether there are rows), scores
  torrents, tracked, scores,
  \* the two channels
  scoreSignal, catchupSignal,
  \* the torrent client poller: where it is, what it listed
  tpc, listed,
  \* the tracker poller: where it is, what it still has to fetch, its timer
  kpc, todo, debouncing,
  \* the scorer loop: where it is, what its statements have returned
  spc, rows, trackerRows,
  \* the handler of a toggle: where it is, its torrent, what ScoreOne has read
  hpc, hash, verdict,
  \* history: something has failed, or a rescore has overwritten a later verdict
  disturbed

store == <<torrents, tracked, scores>>
signals == <<scoreSignal, catchupSignal>>
poller == <<tpc, listed>>
trackerPoller == <<kpc, todo, debouncing>>
loop == <<spc, rows, trackerRows>>
handler == <<hpc, hash, verdict>>
vars == <<client, changes, store, signals, poller, trackerPoller, loop, handler, disturbed>>

Nothing == <<>>
Drop(f, h) == [x \in DOMAIN f \ {h} |-> f[x]]

Init ==
  /\ client \in SUBSET Hashes /\ changes = 0
  /\ torrents = Nothing /\ tracked = {} /\ scores = Nothing
  /\ scoreSignal = FALSE /\ catchupSignal = FALSE
  /\ tpc = "idle" /\ listed = {}
  /\ kpc = "sweep" /\ todo = {} /\ debouncing = FALSE
  /\ spc = "wait" /\ rows = Nothing /\ trackerRows = {}
  /\ hpc = "idle" /\ verdict = Nothing /\ hash = (CHOOSE h \in Hashes : TRUE)
  /\ disturbed = FALSE

\* Something outside the pipeline changes; a step of it fails.
Change == changes < MaxChanges /\ changes' = changes + 1
Fail == Change /\ disturbed' = TRUE
-----------------------------------------------------------------------------
\* TorrentClientPoller.tick: the health probe leaves this state alone; an error
\* of the listing ends the tick.
ListTorrents ==
  /\ tpc = "idle"
  /\ \/ listed' = client /\ tpc' = "store" /\ UNCHANGED <<changes, disturbed>>
     \/ Fail /\ UNCHANGED poller
  /\ UNCHANGED <<client, store, signals, trackerPoller, loop, handler>>

\* UpsertTorrents, in one transaction, keeps the flags of the rows it finds.
UpsertTorrents ==
  /\ tpc = "store"
  /\ torrents' = torrents @@ [h \in listed |-> "none"]
  /\ tpc' = "notify" /\ listed' = {}
  /\ UNCHANGED <<client, changes, tracked, scores, signals, trackerPoller, loop,
                 handler, disturbed>>

\* notifyNonBlocking, twice: the tick ends.
NotifyBoth ==
  /\ tpc = "notify"
  /\ scoreSignal' = TRUE /\ catchupSignal' = TRUE
  /\ tpc' = "idle"
  /\ UNCHANGED <<client, changes, store, listed, trackerPoller, loop, handler, disturbed>>
-----------------------------------------------------------------------------
\* TrackerPoller.Run waits in its select; the sweep it begins with, or that the
\* full timer begins, lists every torrent.  When the query fails, the pass is over,
\* and wakes nobody.
ListTorrentHashes ==
  /\ kpc = "sweep"
  /\ \/ todo' = DOMAIN torrents /\ kpc' = "fetch" /\ UNCHANGED <<changes, disturbed>>
     \/ Fail /\ kpc' = "select" /\ UNCHANGED todo
  /\ UNCHANGED <<client, store, signals, poller, debouncing, loop, handler>>

FullTimer ==
  /\ kpc = "select"
  /\ kpc' = "sweep"
  /\ UNCHANGED <<client, changes, store, signals, poller, todo, debouncing, loop, handler,
                 disturbed>>

\* A signal arms the debounce timer once.
Arm ==
  /\ kpc = "select" /\ catchupSignal
  /\ catchupSignal' = FALSE /\ debouncing' = TRUE
  /\ UNCHANGED <<client, changes, store, scoreSignal, poller, kpc, todo, loop, handler, disturbed>>

\* Mutant of Catchup: the signals that came meanwhile are dropped after the query.
CatchupThenDrain ==
  /\ kpc = "select" /\ debouncing
  /\ debouncing' = FALSE /\ catchupSignal' = FALSE
  /\ todo' = {} /\ kpc' = "fetch"
  /\ UNCHANGED <<client, changes, store, scoreSignal, poller, loop, handler, disturbed>>

\* The debounce timer fires: catchup lists the torrents without a tracker row.  When
\* the query fails, so does the pass, which then wakes nobody.
Catchup ==
  /\ kpc = "select" /\ debouncing
  /\ debouncing' = FALSE
  /\ \/ todo' = DOMAIN torrents \ tracked /\ kpc' = "fetch" /\ UNCHANGED <<changes, disturbed>>
     \/ Fail /\ UNCHANGED <<kpc, todo>>
  /\ UNCHANGED <<client, store, signals, poller, loop, handler>>

\* fetchOne, ReplaceTrackers: also of a torrent that has been forgotten since.
\* One that fails is skipped until a later pass.
FetchOne ==
  /\ kpc = "fetch"
  /\ \E h \in todo :
       /\ todo' = todo \ {h}
       /\ \/ tracked' = tracked \cup {h} /\ UNCHANGED <<changes, disturbed>>
          \/ h \notin client /\ UNCHANGED <<tracked, changes, disturbed>>
          \/ Fail /\ UNCHANGED tracked
  /\ UNCHANGED <<client, torrents, scores, signals, poller, kpc, debouncing, loop,
                 handler>>

\* A pass that has ended wakes the scorer.
PassDone ==
  /\ kpc = "fetch" /\ todo = {}
  /\ kpc' = "select" /\ scoreSignal' = TRUE
  /\ UNCHANGED <<client, changes, store, catchupSignal, poller, todo, debouncing, loop,
                 handler, disturbed>>
-----------------------------------------------------------------------------
\* Loop.Run: receive, then sleep through the debounce window, then drain.
Wake ==
  /\ spc = "wait" /\ scoreSignal
  /\ scoreSignal' = FALSE /\ spc' = "debounce"
  /\ UNCHANGED <<client, changes, store, catchupSignal, poller, trackerPoller, rows,
                 trackerRows, handler, disturbed>>

Drain ==
  /\ spc = "debounce"
  /\ scoreSignal' = FALSE /\ spc' = "list"
  /\ UNCHANGED <<client, changes, store, catchupSignal, poller, trackerPoller, rows,
                 trackerRows, handler, disturbed>>

\* ScoreAll, statement by statement.
ListTorrentsForScoring ==
  /\ spc = "list"
  /\ rows' = torrents /\ spc' = "load"
  /\ UNCHANGED <<client, changes, store, signals, poller, trackerPoller, trackerRows,
                 handler, disturbed>>

\* ListTrackersAll; the policies, the statistics and the linked media are read
\* around it and concern no other step.
ListTrackersAll ==
  /\ spc = "load"
  /\ trackerRows' = tracked /\ spc' = "write"
  /\ UNCHANGED <<client, changes, store, signals, poller, trackerPoller, rows, handler, disturbed>>

\* What scoreWithPrefetched computes a verdict from.
Verdict(flag, hasTrackers) == [flag |-> flag, trackers |-> hasTrackers]

\* The verdict on what is stored now.
Current(h) == Verdict(torrents[h], h \in tracked)

PassVerdicts == [h \in DOMAIN rows |-> Verdict(rows[h], h \in trackerRows)]

\* The loop returns to its select, and its locals are gone.
EndPass == spc' = "wait" /\ rows' = Nothing /\ trackerRows' = {}

\* Mutants of UpsertScores: the burst is drained after the pass; rows that exist
\* are left alone.
UpsertScoresThenDrain ==
  /\ spc = "write"
  /\ scores' = PassVerdicts @@ scores /\ scoreSignal' = FALSE
  /\ EndPass
  /\ UNCHANGED <<client, changes, torrents, tracked, catchupSignal, poller,
                 trackerPoller, handler, disturbed>>
InsertScores ==
  /\ spc = "write"
  /\ scores' = scores @@ PassVerdicts
  /\ EndPass
  /\ UNCHANGED <<client, changes, torrents, tracked, signals, poller,
                 trackerPoller, handler, disturbed>>

\* UpsertScores: one transaction for the whole pass.
UpsertScores ==
  /\ spc = "write"
  /\ scores' = PassVerdicts @@ scores
  /\ EndPass
  /\ UNCHANGED <<client, changes, torrents, tracked, signals, poller,
                 trackerPoller, handler, disturbed>>

\* Any statement of a pass may fail: that is logged, and the next signal retries.
PassFails ==
  /\ Fail /\ spc \in {"list", "load", "write"}
  /\ EndPass
  /\ UNCHANGED <<client, store, signals, poller, trackerPoller, handler>>
-----------------------------------------------------------------------------
\* setExclusiveFlag: setting a flag clears the other; what is cleared may be
\* clear, or the other may be set.  A torrent without a row is a 404.
SetExclusiveFlag(h, flag, on) ==
  /\ hpc = "idle" /\ Change /\ h \in DOMAIN torrents
  /\ torrents' = [torrents EXCEPT ![h] = IF on THEN flag ELSE IF @ = flag THEN "none" ELSE @]
  /\ hpc' = "read" /\ hash' = h
  /\ UNCHANGED <<client, tracked, scores, signals, poller, trackerPoller, loop,
                 verdict, disturbed>>

\* handleSetTorrentProtected, handleSetTorrentCandidateBoost; both rescore.
SetTorrentProtected(h, on) == SetExclusiveFlag(h, "protected", on)
SetTorrentCandidateBoost(h, on) == SetExclusiveFlag(h, "boost", on)

\* GetTorrentForScoring finds a row.
HasRow(h) == h \in DOMAIN torrents

\* ScoreOne reads; without a row it returns an error, and the request is answered.
ScoreOneReads ==
  /\ hpc = "read"
  /\ IF HasRow(hash)
     THEN /\ verdict' = Current(hash)
          /\ hpc' = "write"
     ELSE hpc' = "idle" /\ UNCHANGED verdict
  /\ UNCHANGED <<client, changes, store, signals, poller, trackerPoller, loop, hash, disturbed>>

\* UpsertScore replaces the row, or brings back the row of a torrent that is gone.
UpsertScore(h, v) == scores' = (h :> v) @@ scores

\* ScoreOne writes, and the request is answered.
ScoreOneWrites ==
  /\ hpc = "write"
  /\ UpsertScore(hash, verdict)
  /\ disturbed' = (disturbed \/ (hash \in DOMAIN torrents /\ verdict # Current(hash)))
  /\ hpc' = "idle" /\ verdict' = Nothing
  /\ UNCHANGED <<client, changes, torrents, tracked, signals, poller, trackerPoller,
                 loop, hash>>

\* An error of ScoreOne is only logged.
ScoreOneFails ==
  /\ Fail /\ hpc \in {"read", "write"}
  /\ hpc' = "idle" /\ verdict' = Nothing
  /\ UNCHANGED <<client, store, signals, poller, trackerPoller, loop, hash>>

\* A torrent is added to the client.
Add(h) ==
  /\ Change /\ h \notin client
  /\ client' = client \cup {h}
  /\ UNCHANGED <<store, signals, poller, trackerPoller, loop, handler, disturbed>>

\* The Actor deletes a torrent there, and ForgetTorrent evicts its rows.
Forget(h) ==
  /\ Change /\ h \in client \cap DOMAIN torrents
  /\ client' = client \ {h}
  /\ torrents' = Drop(torrents, h) /\ tracked' = tracked \ {h} /\ scores' = Drop(scores, h)
  /\ UNCHANGED <<signals, poller, trackerPoller, loop, handler, disturbed>>

PollerStep == UpsertTorrents \/ NotifyBoth
TrackerStep == ListTorrentHashes \/ Arm \/ Catchup \/ FetchOne \/ PassDone
LoopStep ==
  \/ Wake \/ Drain \/ ListTorrentsForScoring \/ ListTrackersAll
  \/ UpsertScores \/ PassFails
HandlerStep == ScoreOneReads \/ ScoreOneWrites \/ ScoreOneFails

Next ==
  \/ ListTorrents \/ PollerStep \/ TrackerStep \/ FullTimer \/ LoopStep \/ HandlerStep
  \/ \E h \in Hashes, on \in BOOLEAN :
       SetTorrentProtected(h, on) \/ SetTorrentCandidateBoost(h, on)
  \/ \E h \in Hashes : Add(h) \/ Forget(h)

Spec == Init /\ [][Next]_vars

\* The goroutines run, and the select of the tracker poller, which chooses among
\* what is ready, neglects neither the signal nor the debounce timer.  Nothing is
\* promised of the cadences: no tick and no full sweep has to come.
FairSpec ==
  /\ Spec
  /\ WF_vars(PollerStep) /\ WF_vars(TrackerStep) /\ WF_vars(LoopStep) /\ WF_vars(HandlerStep)
  /\ SF_vars(Arm) /\ SF_vars(Catchup)
-----------------------------------------------------------------------------
Flags == {"none", "protected", "boost"}
Verdicts == [flag : Flags, trackers : BOOLEAN]

\* Every variable has its type; only a pass and a rescore under way have read.
TypeOK ==
  /\ client \subseteq Hashes /\ changes \in 0..MaxChanges
  /\ DOMAIN torrents \subseteq Hashes /\ \A h \in DOMAIN torrents : torrents[h] \in Flags
  /\ tracked \subseteq Hashes
  /\ DOMAIN scores \subseteq Hashes /\ \A h \in DOMAIN scores : scores[h] \in Verdicts
  /\ {scoreSignal, catchupSignal, debouncing, disturbed} \subseteq BOOLEAN
  /\ tpc \in {"idle", "store", "notify"} /\ listed \subseteq Hashes
  /\ kpc \in {"sweep", "fetch", "select"} /\ todo \subseteq Hashes
  /\ spc \in {"wait", "debounce", "list", "load", "write"}
  /\ DOMAIN rows \subseteq Hashes /\ trackerRows \subseteq Hashes
  /\ rows # Nothing => spc \in {"load", "write"}
  /\ hpc \in {"idle", "read", "write"} /\ hash \in Hashes
  /\ hpc # "write" <=> verdict = Nothing

\* No signal is lost: what is stored gets its verdict even if no tick ever
\* follows.  A torrent that is listed once is scored, and scored again once its
\* trackers are known, unless it leaves, a step fails or a rescore interferes.
NewDataIsScored ==
  \A h \in Hashes :
    h \in DOMAIN torrents ~>
      \/ h \in DOMAIN scores /\ (h \in tracked => scores[h].trackers)
      \/ h \notin DOMAIN torrents \/ disturbed

\* tracker_poller.go: the catchup "Resolves the cold-start race where a
\* freshly-seen torrent would otherwise wait one full Interval": a torrent that is
\* listed once gets its trackers although no full sweep has to come.
NewTorrentsCatchUp ==
  \A h \in Hashes :
    tpc = "notify" /\ h \in DOMAIN torrents \cap client ~>
      h \in tracked \/ h \notin DOMAIN torrents \cap client \/ disturbed

UpToDate(h) == h \in DOMAIN scores /\ scores[h] = Current(h)

\* Whatever failed or overtook something else, ticks put it right: as long as
\* they come, in the end every torrent has its trackers and a verdict on the
\* stored flags and trackers.
TicksSettleVerdicts ==
  []<>(tpc = "notify") =>
    <>[](\A h \in DOMAIN torrents : UpToDate(h) /\ (h \in client => h \in tracked))
=============================================================================
