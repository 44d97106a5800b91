------------------------------- MODULE Policies -------------------------------
(***************************************************************************)
(* How the policies that users set reach the verdicts.  The API writes the *)
(* defaults and the override of a tracker host, one statement each, while  *)
(* a pass of the scorer reads the defaults and then the overrides and      *)
(* judges every torrent by what it has read.  Nothing is told of a change: *)
(* the next pass has to see it.                                            *)
(***************************************************************************)
EXTENDS TrackerPolicies

CONSTANTS Hosts,         \* the tracker hosts that are configured
          Lists,         \* the trackers that torrents may have: sequences of urls
          Defaults,      \* what may be posted as defaults, the first of them by
          FirstDefaults, \* the migration
          Overrides,     \* and as an override
          MaxSaves       \* bound on what is posted

VARIABLES
  defaults, overrides,   \* scoring_defaults; tracker_policies by host
  pc,                    \* a pass: "idle", "defaults", "policies", "judge", "judged"
  passDefaults, passOverrides,   \* what it has read
  judged,                \* the policy it has applied, by the trackers of a torrent
  \* history: the last that users were told is saved, whether nothing was posted
  \* since the pass began, and how much was
  askedDefaults, asked, quiet, saves

stored == <<defaults, overrides>>
pass == <<pc, passDefaults, passOverrides, judged>>
history == <<askedDefaults, asked, quiet, saves>>
vars == <<stored, pass, history>>

NoPolicy == [min_ratio |-> 0, min_seed_days |-> 0, rare_threshold |-> 0]

Init ==
  /\ defaults = FirstDefaults /\ overrides = <<>>
  /\ pc = "idle" /\ passDefaults = NoPolicy /\ passOverrides = <<>>
  /\ judged = [l \in Lists |-> NoPolicy]
  /\ askedDefaults = FirstDefaults /\ asked = <<>> /\ quiet = FALSE /\ saves = 0
-----------------------------------------------------------------------------
With(f, h, p) == [x \in DOMAIN f \cup {h} |-> IF x = h THEN p ELSE f[x]]
Without(f, h) == [x \in DOMAIN f \ {h} |-> f[x]]

Absent == -200   \* a null in the body

\* validateDefaults; validatePolicy, where the threshold may be absent.
ValidDefaults(d) == d.min_ratio >= 0 /\ d.min_seed_days >= 0 /\ d.rare_threshold >= 0
ValidPolicy(p) ==
  /\ p.min_ratio >= 0 /\ p.min_seed_days >= 0
  /\ p.rare_threshold = Absent \/ p.rare_threshold >= 0

Post == saves < MaxSaves /\ saves' = saves + 1 /\ quiet' = FALSE

\* handlePutScoringDefaults; what is not valid, or cannot be written, is reported
\* and changes nothing.
PutScoringDefaults ==
  /\ Post
  /\ \E d \in Defaults :
       ValidDefaults(d) /\ defaults' = d /\ askedDefaults' = d
  /\ UNCHANGED <<overrides, pass, asked>>

\* Mutant of RowOf: a threshold of zero is taken for one that is absent.
RowOfNonZero(p) ==
  [p EXCEPT !.rare_threshold = IF p.rare_threshold \in {Absent, 0} THEN Inherit ELSE @]

\* The row of an override: a threshold that is absent is a NULL.
RowOf(p) == [p EXCEPT !.rare_threshold = IF p.rare_threshold = Absent THEN Inherit ELSE @]

\* UpsertTrackerPolicy replaces the whole row of the host.
UpsertTrackerPolicy(h, p) == overrides' = With(overrides, h, RowOf(p))

\* handlePutTrackerPolicy
PutTrackerPolicy(h) ==
  /\ Post
  /\ \E p \in Overrides :
       /\ ValidPolicy(p)
       /\ UpsertTrackerPolicy(h, p)
       /\ asked' = With(asked, h, p)
  /\ UNCHANGED <<defaults, pass, askedDefaults>>

\* handleDeleteTrackerPolicy; without a row it is a 404.
DeleteTrackerPolicy(h) ==
  /\ Post
  /\ h \in DOMAIN overrides
  /\ overrides' = Without(overrides, h) /\ asked' = Without(asked, h)
  /\ UNCHANGED <<defaults, pass, askedDefaults>>

\* A pass, or a rescore of one torrent, begins.
BeginPass ==
  /\ pc \in {"idle", "judged"}
  /\ pc' = "defaults" /\ quiet' = TRUE
  /\ judged' = [l \in Lists |-> NoPolicy]
  /\ UNCHANGED <<stored, passDefaults, passOverrides, askedDefaults, asked, saves>>

\* loadScoringPolicies: two statements; of the second, the enabled rows.
GetScoringDefaults ==
  /\ pc = "defaults"
  /\ passDefaults' = defaults /\ pc' = "policies"
  /\ UNCHANGED <<stored, passOverrides, judged, history>>

\* The map that loadScoringPolicies builds.
Enabled(of) == [h \in {h \in DOMAIN of : of[h].enabled} |-> of[h]]

ListTrackerPolicies ==
  /\ pc = "policies"
  /\ passOverrides' = Enabled(overrides)
  /\ pc' = "judge"
  /\ UNCHANGED <<stored, passDefaults, judged, history>>

\* Mutant of Judge: the overrides alone count, where there are any.
JudgeByFirst ==
  /\ pc = "judge"
  /\ judged' = [l \in Lists |-> TrackerPolicyFor(IF l = <<>> THEN l ELSE <<Head(l)>>,
                                                 passDefaults, passOverrides)]
  /\ pc' = "judged" /\ passDefaults' = NoPolicy /\ passOverrides' = <<>>
  /\ UNCHANGED <<stored, history>>

\* scoreWithPrefetched, of every torrent.
Judge ==
  /\ pc = "judge"
  /\ judged' = [l \in Lists |-> TrackerPolicyFor(l, passDefaults, passOverrides)]
  /\ pc' = "judged" /\ passDefaults' = NoPolicy /\ passOverrides' = <<>>
  /\ UNCHANGED <<stored, history>>

\* A statement fails, and with it the pass.
PassFails ==
  /\ pc \in {"defaults", "policies"}
  /\ pc' = "idle" /\ passDefaults' = NoPolicy
  /\ UNCHANGED <<stored, passOverrides, judged, history>>

Next ==
  \/ PutScoringDefaults \/ (\E h \in Hosts : PutTrackerPolicy(h) \/ DeleteTrackerPolicy(h))
  \/ BeginPass \/ GetScoringDefaults \/ ListTrackerPolicies \/ Judge \/ PassFails

Spec == Init /\ [][Next]_vars
-----------------------------------------------------------------------------
\* Every variable has its type; what is stored has been validated.
TypeOK ==
  /\ {defaults, askedDefaults} \subseteq {d \in Defaults : ValidDefaults(d)}
  /\ DOMAIN overrides \subseteq Hosts /\ DOMAIN asked = DOMAIN overrides
  /\ \A h \in DOMAIN asked : asked[h] \in Overrides /\ ValidPolicy(asked[h])
  /\ pc \in {"idle", "defaults", "policies", "judge", "judged"}
  /\ DOMAIN passOverrides \subseteq Hosts /\ DOMAIN judged = Lists
  /\ quiet \in BOOLEAN /\ saves \in 0..MaxSaves

\* What a user has asked for of one tracker: the override, unless it is disabled,
\* with the default threshold if it has none, and else the defaults.
AskedOf(url) ==
  LET h == Host(url)
  IN  IF h \in DOMAIN asked /\ asked[h].enabled
      THEN [askedDefaults EXCEPT !.min_ratio = asked[h].min_ratio,
              !.min_seed_days = asked[h].min_seed_days,
              !.rare_threshold = IF asked[h].rare_threshold = Absent THEN @
                                 ELSE asked[h].rare_threshold]
      ELSE askedDefaults

\* "The strictest policy wins", and "the next ScoreAll pass picks the new values
\* up": a pass during which nothing is saved judges every torrent, in whatever
\* order its trackers come, by the largest ratio and seed time and the smallest
\* threshold that users have asked for of its trackers.
StrictestPolicyWins ==
  pc = "judged" /\ quiet =>
    \A l \in Lists :
      LET all == IF l = <<>> THEN {askedDefaults} ELSE {AskedOf(u) : u \in ToSet(l)}
      IN  /\ judged[l].min_ratio = Max({p.min_ratio : p \in all})
          /\ judged[l].min_seed_days = Max({p.min_seed_days : p \in all})
          /\ judged[l].rare_threshold = Min({p.rare_threshold : p \in all})
-----------------------------------------------------------------------------
\* The tables hold what users were told is saved.
StoredIsAsked ==
  defaults = askedDefaults /\ overrides = [h \in DOMAIN asked |-> RowOf(asked[h])]

\* An undisturbed pass has read what the tables hold.
PassIsCurrent ==
  quiet => /\ pc \in {"policies", "judge"} => passDefaults = defaults
           /\ pc = "judge" => passOverrides = Enabled(overrides)

\* The inductive invariant behind StrictestPolicyWins.
IInv == TypeOK /\ StoredIsAsked /\ PassIsCurrent /\ StrictestPolicyWins
=============================================================================
