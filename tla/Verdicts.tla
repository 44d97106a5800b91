------------------------------- MODULE Verdicts -------------------------------
(***************************************************************************)
(* How a torrent comes to be deleted, in the modules that follow one       *)
(* another without sharing state: the policies and the exclusions it is    *)
(* judged by, the statistics of its samples, its verdict, and the plan.  A *)
(* behaviour is one of one part, which Init picks among the active ones;   *)
(* the variables of the others stay off.                                   *)
(***************************************************************************)
EXTENDS Decider

CONSTANTS
  Active,        \* the parts to explore
  \* of the snapshots
  Sampled, Values(_), Leaving, DayLength, CronAt, DownsampleAge, RawRetention, DailyRetention,
  TorrentRetention, SeedersWindow, VelWindow, LastInstant,
  \* of the factors
  Urls, Pseudo, Host(_), Births, Grace, HnRWindow, Weights, Stats, PolicySets, Start, LastDay,
  \* of the policies
  TrackerHosts, Lists, Defaults, FirstDefaults, Overrides, MaxSaves,
  \* of the exclusions
  Torrents, Types, Ids, Tags, TagsExclude, TorrentTags, QbitExclude, Fold, MaxEdits

\* Statistics are numbers, and seeder counts those where the factor's logarithm is
\* whole.  A torrent was added in the past.
ASSUME ScoringAssumption ==
  /\ Stats \subseteq [ratio : Int, velocity : Int, average : Int, seeders : {0, 9, 99}]
  /\ Births \subseteq 0..Start /\ Grace \in Int
  /\ Start \in Nat /\ LastDay \in Nat /\ Start <= LastDay

ASSUME ExclusionsAssumption ==
  Torrents # {} /\ Types # <<>> /\ Types \in Seq({Types[n] : n \in DOMAIN Types})

\* Midnight is an even instant, and no poll is at one.
ASSUME SnapshotsAssumption == DayLength \in Nat \ {0} /\ DayLength % 2 = 0

VARIABLES
  which, now,
  seen, counter, raw, daily, polled, cronned, history,
  torrent, trackers, deadSince, idleSince,
  defaults, overrides, passDefaults, passOverrides, judged, askedDefaults, asked, quiet, saves,
  library, onDisk, files, edits, media, mediaFiles, imports, xpc, inst, listed, left,
  spc, linked, rpc, hash, linkedOne, verdicts, clean, settled, passFresh, oneFresh, fresh

ofDecider == <<scored, score, excluded, rows, nlink, imported, writes, reads, walk, wasCandidate>>
ofSnapshots == <<seen, counter, raw, daily, polled, cronned, history>>
ofScoring == <<torrent, trackers, deadSince, idleSince>>
ofPolicies == <<defaults, overrides, passDefaults, passOverrides, judged, askedDefaults,
                asked, quiet, saves>>
ofExclusions == <<library, onDisk, files, edits, media, mediaFiles, imports, xpc, inst, listed,
                  left, spc, linked, rpc, hash, linkedOne, verdicts, clean, settled, passFresh,
                  oneFresh, fresh>>
allVars == <<which, now, pc, ofDecider, ofSnapshots, ofScoring, ofPolicies, ofExclusions>>
-----------------------------------------------------------------------------
\* The parts, which take constants and variables of the same name from here.
Sn == INSTANCE Snapshots WITH Hashes <- Sampled, MaxNow <- LastInstant
Sc == INSTANCE Scoring WITH Policies <- PolicySets, MaxNow <- LastDay
Po == INSTANCE Policies WITH Hosts <- TrackerHosts
Ex == INSTANCE Exclusions WITH
  Hashes <- Torrents, history <- files, pc <- xpc, items <- listed, todo <- left, hpc <- rpc

\* The defaults that the migration inserts are like those that can be posted.
ASSUME PoliciesAssumption ==
  /\ \A l \in Lists : l \in Seq({l[n] : n \in DOMAIN l})
  /\ Defaults \subseteq [min_ratio : Int, min_seed_days : Int, rare_threshold : Int]
  /\ Overrides \subseteq
       [min_ratio : Int, min_seed_days : Int, rare_threshold : Int, enabled : BOOLEAN]
  /\ FirstDefaults \in Defaults /\ Po!ValidDefaults(FirstDefaults) /\ MaxSaves \in Nat
-----------------------------------------------------------------------------
DeciderOff ==
  /\ scored = 0 /\ score = 0 /\ excluded = 0 /\ nlink = 0 /\ imported = 0
  /\ rows = 0 /\ writes = 0
  /\ need = 0 /\ ranked = 0 /\ basic = 0 /\ maxNlink = 0 /\ arrLinked = 0
  /\ i = 0 /\ items = <<>> /\ bytes = 0 /\ reason = 0 /\ wasCandidate = 0
SnapshotsOff ==
  /\ seen = 0 /\ counter = 0 /\ raw = 0 /\ daily = 0 /\ polled = 0 /\ cronned = 0
  /\ history = 0
ScoringOff == torrent = 0 /\ trackers = 0 /\ deadSince = 0 /\ idleSince = 0
PoliciesOff ==
  /\ defaults = 0 /\ overrides = 0 /\ passDefaults = 0 /\ passOverrides = 0 /\ judged = 0
  /\ askedDefaults = 0 /\ asked = 0 /\ quiet = 0 /\ saves = 0
ExclusionsOff ==
  /\ library = 0 /\ onDisk = 0 /\ files = 0 /\ edits = 0 /\ media = 0 /\ mediaFiles = 0
  /\ imports = 0 /\ xpc = 0 /\ inst = 0 /\ listed = 0 /\ left = 0 /\ spc = 0 /\ linked = 0
  /\ rpc = 0 /\ hash = 0 /\ linkedOne = 0 /\ verdicts = 0 /\ clean = 0 /\ settled = 0
  /\ passFresh = 0 /\ oneFresh = 0 /\ fresh = 0

VerdictsInit ==
  /\ which \in Active
  /\ IF which = "decider" THEN Init ELSE DeciderOff
  /\ IF which = "snapshots" THEN Sn!Init ELSE SnapshotsOff
  /\ IF which = "scoring" THEN Sc!Init ELSE ScoringOff
  /\ IF which = "policies" THEN Po!Init ELSE PoliciesOff
  /\ IF which = "exclusions" THEN Ex!Init ELSE ExclusionsOff
  /\ which \in {"decider", "policies", "exclusions"} => now = 0
  /\ which \in {"scoring", "exclusions"} => pc = "off"

VerdictsNext ==
  /\ UNCHANGED which
  /\ \/ which = "decider" /\ Next
        /\ UNCHANGED <<now, ofSnapshots, ofScoring, ofPolicies, ofExclusions>>
     \/ which = "snapshots" /\ Sn!Next
        /\ UNCHANGED <<ofDecider, ofScoring, ofPolicies, ofExclusions>>
     \/ which = "scoring" /\ Sc!Next
        /\ UNCHANGED <<pc, ofDecider, ofSnapshots, ofPolicies, ofExclusions>>
     \/ which = "policies" /\ Po!Next
        /\ UNCHANGED <<now, ofDecider, ofSnapshots, ofScoring, ofExclusions>>
     \/ which = "exclusions" /\ Ex!Next
        /\ UNCHANGED <<now, pc, ofDecider, ofSnapshots, ofScoring, ofPolicies>>

VerdictsSpec == VerdictsInit /\ [][VerdictsNext]_allVars
-----------------------------------------------------------------------------
\* The variables of the part at work have their types.
VerdictsTypeOK ==
  CASE which = "decider" -> TypeOK
    [] which = "snapshots" -> Sn!TypeOK
    [] which = "scoring" -> Sc!TypeOK
    [] which = "policies" -> Po!TypeOK
    [] which = "exclusions" -> Ex!TypeOK

\* The properties of the planner are those of Decider.tla; the others:

\* The comment of ScoringSnapshotStatsAll: "Equivalence with the per-hash path is
\* intentional and load-bearing".  A rescore of one torrent and a pass over all
\* of them see the same aggregates at every instant, a hash that is absent from
\* the map included, and normalise the velocities by the same average.
StatsAgree == which = "snapshots" => Sn!StatsAgree

\* The comment of DownsampleRange: it "aggregates snapshots_raw rows older than
\* `before` into snapshots_daily (one row per torrent per day)" and is "Safe to
\* call repeatedly": the row of a day that has left snapshots_raw stands for all
\* the samples of that day.  (Until RawRetention: it drops rows that the
\* downsampling has failed to take.)
DayRowsAreWhole == which = "snapshots" => Sn!DayRowsAreWhole

\* The tracker_dead bonus is for torrents whose trackers have all been dead for
\* the grace, counted from the activity before the first fetch that saw them
\* dead; later fetches and later activity neither restart nor advance the clock,
\* one that saw a tracker alive or gone restarts it (ADR-0013).  And the countdown
\* of the API ends on the day the bonus begins.
BonusIsServedAsAnnounced == which = "scoring" => Sc!BonusIsServedAsAnnounced

\* "The strictest policy wins", and "the next ScoreAll pass picks the new values
\* up": a pass during which nothing is saved judges every torrent, in whatever
\* order its trackers come, by the largest ratio and seed time and the smallest
\* threshold that users have asked for of its trackers.
StrictestPolicyWins == which = "policies" => Po!StrictestPolicyWins

\* SCORING.md, "The one inviolable veto": a private torrent in its hit-and-run
\* window has a negative score unless a fetch has found every one of its trackers
\* dead, whatever the swarm, the policies and the user's boost add to it; and
\* out of reach of that veto, the boost outweighs the rare-content guard.
VetoIsAbsolute == which = "scoring" => Sc!VetoIsAbsolute

\* docs/CONFIGURATION.md: "Media tagged with any of these is never deleted."  Once
\* a tick of the poller in which nothing failed has followed the last change in
\* an *arr, a scored torrent is excluded for every excluded tag of the medium
\* whose present file came from it, and for no tag of another medium.
TagsReachVerdicts == which = "exclusions" => Ex!TagsReachVerdicts
=============================================================================
