------------------------------- MODULE Scoring -------------------------------
(***************************************************************************)
(* The verdict on one torrent over the life of its trackers:               *)
(* internal/scorer/factors.go evaluates the factors from the torrents row  *)
(* and the torrent_trackers rows, which the torrent client poller and the  *)
(* tracker poller (store/trackers_repos.go) keep rewriting.  The clock of  *)
(* the tracker_dead bonus, first_seen_dead, lives in those rows.           *)
(*                                                                         *)
(* Time is in days, scores are in hundredths.                              *)
(***************************************************************************)
EXTENDS TrackerPolicies, Sums

CONSTANTS Urls,          \* tracker_url
          Pseudo,        \* what qBittorrent lists for DHT, PEX and LSD
          Births,        \* the days a torrent may have been added on
          Grace,         \* tracker_dead_grace
          HnRWindow,     \* hnr_window_days
          Weights,       \* scoring.weights
          Stats,         \* snapshot statistics and global average a pass may see
          Policies,      \* pairs of defaults and of overrides by host
          Start, MaxNow  \* the days modelled

Never == -100            \* a NULL timestamp
NotWorking == "not_working"
Statuses == {NotWorking, "working", "disabled"}

HnRVetoWeight == -1000000
CandidateBoostWeight == 200000

VARIABLES
  now,
  torrent,   \* the torrents row, or NoTorrent
  trackers,  \* torrent_trackers by url: [status, first_seen_dead]
  deadSince, \* history, by url: since when no fetch has seen it alive, and
  idleSince  \* the activity of the torrent at that time

vars == <<now, torrent, trackers, deadSince, idleSince>>

NoTorrent == [hash |-> "none"]
Known == torrent # NoTorrent

Init ==
  /\ now = Start
  /\ \E added \in Births, done \in BOOLEAN, active \in BOOLEAN, private \in BOOLEAN :
       torrent = [added_on |-> added,
                  completion_on |-> IF done THEN added ELSE Never,
                  \* a row of before the column has none
                  last_activity |-> IF active THEN added ELSE Never,
                  private |-> private, protected |-> FALSE, candidate_boost |-> FALSE]
  /\ trackers = <<>> /\ deadSince = <<>> /\ idleSince = <<>>
-----------------------------------------------------------------------------
\* COALESCE(last_activity, completion_on, added_on), at most now; without a row
\* it is now.
Coalesce(a, b) == IF a # Never THEN a ELSE b
ActivityProxy ==
  IF Known
  THEN Min({now, Coalesce(torrent.last_activity,
                          Coalesce(torrent.completion_on, torrent.added_on))})
  ELSE now

\* Mutant of FirstSeenDead: every fetch stamps its own time.
FirstSeenDeadNow(url, status) == IF status = NotWorking THEN now ELSE Never

\* first_seen_dead is kept while the url stays not_working, seeded when it
\* becomes so, and cleared otherwise.
FirstSeenDead(url, status) ==
  IF status # NotWorking THEN Never
  ELSE IF url \in DOMAIN trackers /\ trackers[url].status = NotWorking
            /\ trackers[url].first_seen_dead # Never
       THEN trackers[url].first_seen_dead
       ELSE ActivityProxy

\* looksLikeURL
LooksLikeURL(u) == u \notin Pseudo

\* ListTrackers of the client: the entries that are no trackers are left out.
ListTrackers(entries) == [u \in {u \in DOMAIN entries : LooksLikeURL(u)} |-> entries[u]]

\* ReplaceTrackers, a transaction: what the client lists replaces the rows.  A
\* pseudo-tracker works.
ReplaceTrackers ==
  \E real \in SUBSET Urls : \E of \in [real -> Statuses] :
    LET status == ListTrackers([u \in real \cup Pseudo |-> IF u \in real THEN of[u] ELSE "working"])
        listed == DOMAIN status
        dead == {u \in listed : status[u] = NotWorking}
        kept == dead \cap DOMAIN deadSince
    IN  /\ trackers' = [u \in listed |->
             [status |-> status[u], first_seen_dead |-> FirstSeenDead(u, status[u])]]
        /\ deadSince' = [u \in dead |-> IF u \in kept THEN deadSince[u] ELSE now]
        /\ idleSince' = [u \in dead |-> IF u \in kept THEN idleSince[u] ELSE ActivityProxy]
        /\ UNCHANGED <<now, torrent>>

NotComplete == -1        \* completion_on of qBittorrent

\* ListTorrents of the client, as far as it changes: a completion that is not
\* positive is none, while the activity is a time whatever it says.
ListTorrents(completion, activity) ==
  [torrent EXCEPT !.completion_on = IF completion > 0 THEN completion ELSE Never,
                  !.last_activity = activity]

\* UpsertTorrents keeps the flags and replaces the rest of the row: the torrent
\* has been active today, is complete now, or is as it was.
UpsertTorrents ==
  /\ Known
  /\ LET before == IF torrent.completion_on = Never THEN NotComplete ELSE torrent.completion_on
         since == Coalesce(torrent.last_activity, torrent.added_on)
     IN  \/ \E activity \in {since, now} : torrent' = ListTorrents(before, activity)
         \/ before = NotComplete /\ torrent' = ListTorrents(now, now)
  /\ UNCHANGED <<now, trackers, deadSince, idleSince>>

\* setExclusiveFlag: setting one flag clears the other.
SetTorrentProtected(on) ==
  /\ Known
  /\ torrent' = [torrent EXCEPT !.protected = on,
                   !.candidate_boost = IF on THEN FALSE ELSE @]
  /\ UNCHANGED <<now, trackers, deadSince, idleSince>>

SetTorrentCandidateBoost(on) ==
  /\ Known
  /\ torrent' = [torrent EXCEPT !.candidate_boost = on,
                   !.protected = IF on THEN FALSE ELSE @]
  /\ UNCHANGED <<now, trackers, deadSince, idleSince>>

\* ForgetTorrent.  A fetch that was under way may still write its trackers.
Forget ==
  /\ Known
  /\ torrent' = NoTorrent /\ trackers' = <<>> /\ deadSince' = <<>> /\ idleSince' = <<>>
  /\ UNCHANGED now

Tick ==
  /\ now < MaxNow
  /\ now' = now + 1
  /\ UNCHANGED <<torrent, trackers, deadSince, idleSince>>

Next ==
  \/ ReplaceTrackers \/ UpsertTorrents \/ Forget \/ Tick
  \/ \E on \in BOOLEAN : SetTorrentProtected(on) \/ SetTorrentCandidateBoost(on)

Spec == Init /\ [][Next]_vars
-----------------------------------------------------------------------------
\* A torrent without tracker rows counts as alive.
AnyTrackerAlive ==
  trackers = <<>> \/ \E u \in DOMAIN trackers : trackers[u].status # NotWorking

AllTrackersDeadSustained ==
  /\ trackers # <<>>
  /\ \A u \in DOMAIN trackers :
       /\ trackers[u].status = NotWorking
       /\ trackers[u].first_seen_dead # Never
       /\ trackers[u].first_seen_dead <= now - Grace

\* trackerDeadEligibleAt, of the API: the day the bonus begins, while it is
\* pending; else nothing.
TrackerDeadEligibleAt ==
  LET since == {trackers[u].first_seen_dead : u \in DOMAIN trackers}
  IN  IF \/ trackers = <<>>
         \/ \E u \in DOMAIN trackers : trackers[u].status # NotWorking
         \/ Never \in since
      THEN Never
      ELSE IF Max(since) + Grace > now THEN Max(since) + Grace ELSE Never

SeedStart == Coalesce(torrent.completion_on, torrent.added_on)
SeedDays == now - SeedStart
InHnRWindow == SeedDays < HnRWindow

\* The factors, in hundredths.
RatioObligation(stats, policy) ==
  IF /\ torrent.private /\ AnyTrackerAlive
     /\ stats.ratio >= policy.min_ratio /\ SeedDays >= policy.min_seed_days
  THEN 100 * Weights.ratio_obligation_met ELSE 0

\* The share of the average velocity, within 0..100; inert without an average.
VelocityInv(stats) ==
  IF stats.average <= 0 THEN 0
  ELSE LET v == 100 - (100 * stats.velocity) \div stats.average
       IN  Max({0, Min({v, 100})}) * Weights.upload_velocity_inv

Age == Max({0, now - torrent.added_on}) * Weights.age_days_hundredths

SeedersGuard(stats, policy) ==
  IF AnyTrackerAlive /\ stats.seeders <= policy.rare_threshold
  THEN 100 * Weights.seeders_low_guard ELSE 0

\* log10(seeders + 1), at the counts where it is a whole number.
Log10 == [n \in {1, 10, 100} |-> CASE n = 1 -> 0 [] n = 10 -> 1 [] n = 100 -> 2]
SwarmBonus(stats) == 100 * Log10[stats.seeders + 1] * Weights.swarm_health_bonus

\* Mutant of HnRVeto: the user's boost lifts it.
HnRVetoUnlessBoosted ==
  IF torrent.private /\ InHnRWindow /\ AnyTrackerAlive /\ ~torrent.candidate_boost
  THEN HnRVetoWeight ELSE 0

HnRVeto ==
  IF torrent.private /\ InHnRWindow /\ AnyTrackerAlive THEN HnRVetoWeight ELSE 0

TrackerDead == IF AllTrackersDeadSustained THEN 100 * Weights.tracker_dead_bonus ELSE 0

CandidateBoost == IF torrent.candidate_boost THEN CandidateBoostWeight ELSE 0

\* trackerViewsFromRows
TrackerViews == SetToSeq(DOMAIN trackers)

\* evalFactors
EvalFactors(stats, policy) ==
  <<RatioObligation(stats, policy), VelocityInv(stats), Age, SeedersGuard(stats, policy),
    SwarmBonus(stats), HnRVeto, TrackerDead, CandidateBoost>>

\* scoreWithPrefetched: the sum of the contributions.
Score(stats, policies) ==
  LET policy == TrackerPolicyFor(TrackerViews, policies.defaults, policies.overrides)
  IN  SumOf(EvalFactors(stats, policy))
-----------------------------------------------------------------------------
Times == Births \cup (Start..now)

\* Every variable has its type; a row has a first_seen_dead when it is dead.
TypeOK ==
  /\ now \in Start..MaxNow
  /\ torrent # NoTorrent =>
       torrent \in [added_on : Births, completion_on : Times \cup {Never},
                   last_activity : Times \cup {Never},
                   private : BOOLEAN, protected : BOOLEAN, candidate_boost : BOOLEAN]
  /\ DOMAIN trackers \subseteq Urls
  /\ trackers \in [DOMAIN trackers -> [status : Statuses, first_seen_dead : Times \cup {Never}]]
  /\ \A u \in DOMAIN trackers :
       trackers[u].first_seen_dead # Never <=> trackers[u].status = NotWorking
  /\ DOMAIN deadSince = {u \in DOMAIN trackers : trackers[u].status = NotWorking}
  /\ DOMAIN idleSince = DOMAIN deadSince
  /\ \A u \in DOMAIN deadSince : deadSince[u] \in Start..now /\ idleSince[u] \in Times

\* The tracker_dead bonus is for torrents whose trackers have all been dead for
\* the grace, counted from the activity before the first fetch that saw them
\* dead; later fetches and later activity neither restart nor advance the clock,
\* one that saw a tracker alive or gone restarts it (ADR-0013).
BonusIsServed ==
  AllTrackersDeadSustained <=>
    /\ trackers # <<>>
    /\ \A u \in DOMAIN trackers :
         u \in DOMAIN deadSince /\ now >= Min({deadSince[u], idleSince[u]}) + Grace

\* The countdown of the API ends on the day the bonus begins: while all the
\* trackers are dead, either the bonus is there, or it is announced for a later
\* day, on which it is there unless something changes.
CountdownMirrorsGate ==
  LET at == TrackerDeadEligibleAt
  IN  /\ AllTrackersDeadSustained => at = Never
      /\ trackers # <<>> /\ ~AnyTrackerAlive /\ ~AllTrackersDeadSustained =>
           /\ at > now
           /\ \A u \in DOMAIN trackers : trackers[u].first_seen_dead <= at - Grace
           /\ \E u \in DOMAIN trackers : trackers[u].first_seen_dead > at - 1 - Grace

\* Both: the bonus begins on the day it was announced for, and not before it was
\* served.
BonusIsServedAsAnnounced == BonusIsServed /\ CountdownMirrorsGate

\* What is stored as first_seen_dead is the activity of before the first fetch that
\* found the tracker dead.
FirstSeenIsIdle ==
  \A u \in DOMAIN deadSince :
    trackers[u].first_seen_dead = idleSince[u] /\ idleSince[u] <= deadSince[u]

\* The inductive invariant behind BonusIsServedAsAnnounced.
IInv == TypeOK /\ FirstSeenIsIdle

\* What VetoIsAbsolute asks of the weights: all that speaks for a torrent, the boost
\* included, is less than the veto, and the boost is more than the rare-content
\* guard.  It is so of the defaults; Validate does not ask it of other weights.
VetoOutweighs ==
  LET w == Weights
      favour == w.ratio_obligation_met + w.upload_velocity_inv + 2 * w.swarm_health_bonus
  IN  /\ w \in [ratio_obligation_met : Nat, upload_velocity_inv : Nat,
                age_days_hundredths : Nat, seeders_low_guard : Int,
                swarm_health_bonus : Nat, tracker_dead_bonus : Nat]
      /\ w.seeders_low_guard <= 0
      /\ 100 * favour + MaxNow * w.age_days_hundredths + CandidateBoostWeight + HnRVetoWeight < 0
      /\ CandidateBoostWeight + 100 * w.seeders_low_guard > 0

\* SCORING.md, "The one inviolable veto": a private torrent in its hit-and-run
\* window has a negative score unless a fetch has found every one of its trackers
\* dead, whatever the swarm, the policies and the user's boost add to it; and
\* out of reach of that veto, the boost outweighs the rare-content guard.
VetoIsAbsolute ==
  Known =>
    \A stats \in Stats : \A p \in Policies :
      /\ torrent.private /\ InHnRWindow /\ ~(trackers # <<>> /\ DOMAIN trackers = DOMAIN deadSince)
           => Score(stats, p) < 0
      /\ torrent.candidate_boost /\ ~(torrent.private /\ InHnRWindow) => Score(stats, p) > 0
=============================================================================
