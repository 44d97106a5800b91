------------------------------ MODULE MCVerdicts ------------------------------
EXTENDS Verdicts

\* The planner: three torrents, one of them off the volume.  The samples ask for
\* nothing, for less than a byte, for 2 bytes and for 10 (which is more than all
\* the torrents have).
MCHashes == {1, 2, 3}
MCSizes == [h \in Hashes |-> IF h = 2 THEN 1 ELSE 2]
MCSamples == {[total |-> 50, free |-> f] : f \in {0, 16, 20}} \cup {[total |-> 4, free |-> 0]}
MCVetoed == {-1, 5}   \* what a veto leaves of a score

\* The snapshots: one torrent that is always listed and one that comes and goes,
\* over three days of four instants.
MCValues(h) ==
  IF h = "steady" THEN {[seeders |-> 1, upload |-> 1]}
  ELSE {[seeders |-> 0, upload |-> 0], [seeders |-> 2, upload |-> 1]}

\* The factors: two trackers of two hosts, six days.
MCHost(u) == IF u = "a" THEN "A" ELSE "B"
MCWeights == [ratio_obligation_met |-> 50, upload_velocity_inv |-> 20, age_days_hundredths |-> 10,
              seeders_low_guard |-> -1000, swarm_health_bonus |-> 5, tracker_dead_bonus |-> 40]
MCStats == {s \in [ratio : {0, 3}, velocity : {0, 9}, average : {0, 3}, seeders : {0, 99}] :
              s.velocity = 0 <=> s.average = 3}
MCPolicy(ratio, days, rare) ==
  [min_ratio |-> ratio, min_seed_days |-> days, rare_threshold |-> rare]
MCOverride(ratio, days, rare, on) ==
  [min_ratio |-> ratio, min_seed_days |-> days, rare_threshold |-> rare, enabled |-> on]
MCPolicies ==
  {[defaults |-> MCPolicy(1, 2, 3), overrides |-> <<>>],
   [defaults |-> MCPolicy(1, 2, 3),
    overrides |-> [h \in {"A", "B"} |->
      IF h = "A" THEN MCOverride(2, 1, 5, TRUE) ELSE MCOverride(0, 4, 9, TRUE)]],
   [defaults |-> MCPolicy(1, 2, 3),
    overrides |-> [h \in {"A", "B"} |->
      IF h = "A" THEN MCOverride(2, 1, -100, TRUE) ELSE MCOverride(0, 4, 0, FALSE)]]}

\* The policies: what is posted has a threshold of zero, one that is absent (-200)
\* and values that are refused, too.
MCLists == {<<>>, <<"a">>, <<"b">>, <<"a", "b">>, <<"b", "a">>}
MCFirstDefaults == MCPolicy(1, 2, 3)
MCDefaults == {MCPolicy(1, 2, 3), MCPolicy(0, 0, 0), MCPolicy(1, -1, 0)}
MCOverrides == {MCOverride(2, 1, -200, TRUE), MCOverride(0, 4, 0, TRUE), MCOverride(0, 1, 5, TRUE),
                MCOverride(0, 4, 9, FALSE), MCOverride(1, 1, -1, TRUE)}

\* The exclusions: a movie and a series with the same id, whose tag only the first
\* instance excludes, in another case; one of two torrents has an excluded tag.
MCTypes == <<"radarr", "sonarr">>
MCExclude == ("radarr" :> {"Keep"}) @@ ("sonarr" :> {})
MCFold == ("Keep" :> "keep") @@ ("keep" :> "keep") @@ ("private" :> "private")
MCTorrentTags == ("h1" :> {"private"}) @@ ("h2" :> {})
-----------------------------------------------------------------------------
\* The torrent off the volume is like the others in all but its place.
MCInit ==
  /\ VerdictsInit
  /\ which = "decider" => 3 \in imported /\ \A n \in Nlinks : nlink[3] <= n

MCSpec == MCInit /\ [][VerdictsNext]_allVars
=============================================================================
