---------------------------- MODULE TrackerPolicies ----------------------------
(***************************************************************************)
(* The policy that applies to a torrent (trackerPolicyFor of               *)
(* internal/scorer/factors.go): the defaults, and the overrides of the     *)
(* hosts of its trackers.                                                  *)
(***************************************************************************)
EXTENDS Integers, Sequences, FiniteSets, FiniteSetsExt, SequencesExt

CONSTANT Host(_)   \* tracker_host of a url

Inherit == -100    \* the rare_threshold of an override that has none

\* Mutant of MergePolicy: the rare threshold starts from the default.
MergePolicyFromDefault(out, p, first) ==
  [min_ratio |-> Max({out.min_ratio, p.min_ratio}),
   min_seed_days |-> Max({out.min_seed_days, p.min_seed_days}),
   rare_threshold |-> Min({out.rare_threshold, p.rare_threshold})]

\* One round of the loop of trackerPolicyFor.
MergePolicy(out, p, first) ==
  [min_ratio |-> Max({out.min_ratio, p.min_ratio}),
   min_seed_days |-> Max({out.min_seed_days, p.min_seed_days}),
   rare_threshold |-> IF first \/ p.rare_threshold < out.rare_threshold
                      THEN p.rare_threshold ELSE out.rare_threshold]

\* The policy of one tracker: its enabled override, or the defaults; an override
\* without a rare threshold has the default one.
PolicyOf(url, defaults, overrides) ==
  IF Host(url) \in DOMAIN overrides /\ overrides[Host(url)].enabled
  THEN LET p == overrides[Host(url)]
       IN  [min_ratio |-> p.min_ratio, min_seed_days |-> p.min_seed_days,
            rare_threshold |-> IF p.rare_threshold = Inherit THEN defaults.rare_threshold
                               ELSE p.rare_threshold]
  ELSE defaults

\* The loop, over the trackers in the order of the query: by the number of those it
\* has merged, what it has.
Merging(urls, defaults, overrides) ==
  LET zero == [min_ratio |-> 0, min_seed_days |-> 0, rare_threshold |-> defaults.rare_threshold]
      merged[n \in 0..Len(urls)] ==
        IF n = 0 THEN zero
        ELSE MergePolicy(merged[n - 1], PolicyOf(urls[n], defaults, overrides), n = 1)
  IN  merged

\* trackerPolicyFor
TrackerPolicyFor(urls, defaults, overrides) ==
  IF urls = <<>> THEN defaults ELSE Merging(urls, defaults, overrides)[Len(urls)]
=============================================================================
