------------------------------- MODULE Decider -------------------------------
(***************************************************************************)
(* internal/decider: Plan turns the scores into the list of torrents whose *)
(* deletion brings the volume back to its target.  It reads five tables,   *)
(* one statement after the other and in no transaction, while the scorer,  *)
(* the pollers, the Actor and the API write them; then it walks the scores *)
(* in order and drops what is out of scope or cross-seeded.                *)
(***************************************************************************)
EXTENDS Integers, Sequences, FiniteSets, SequencesExt, Sums

CONSTANTS Hashes,     \* numbered in the order of torrent_hash
          Scores,     \* values of scores.score
          Sizes,      \* Sizes[h]: torrents.size
          OnVolume,   \* the torrents whose save_path is under the volume
          Nlinks,     \* values of MAX(torrent_files.nlink)
          Samples,    \* values of the last disk_usage row
          Target,     \* target_free_percent
          MaxWrites   \* bound on the writes that meet one Plan

ASSUME ConstantsAssumption ==
  /\ Hashes \subseteq Nat /\ IsFiniteSet(Hashes)
  /\ Scores \subseteq Int
  /\ Sizes \in [Hashes -> Nat \ {0}]
  /\ OnVolume \subseteq Hashes
  /\ Nlinks \subseteq Nat \ {0}
  /\ Samples \subseteq [total : Nat, free : 0..100]
  /\ Target \in 0..100
  /\ MaxWrites \in Nat

Unsampled == 0

VARIABLES
  \* the store: scores rows (which, score, excluded), torrents rows, MAX(nlink),
  \* hashes with an import
  scored, score, excluded, rows, nlink, imported, writes,
  \* Plan: where it is, needBytes, and what its statements returned
  pc, need, ranked, basic, maxNlink, arrLinked,
  \* the walk: next score, the items, their size, the stop reason
  i, items, bytes, reason,
  \* history: the torrents that have been electable since Plan began
  wasCandidate

store == <<scored, score, excluded, rows, nlink, imported, writes>>
reads == <<need, ranked, basic, maxNlink, arrLinked>>
walk == <<i, items, bytes, reason>>
vars == <<store, pc, reads, walk, wasCandidate>>

\* MaxAllowedNlink, and the stricter ceiling of a torrent without an import.
Ceiling(h, links) == IF h \in links THEN 2 ELSE 1

Init ==
  /\ scored = Hashes
  /\ score \in [Hashes -> Scores]
  /\ excluded \in SUBSET Hashes
  /\ rows = Hashes
  /\ nlink \in [Hashes -> Nlinks \cup {Unsampled}]
  /\ imported \in SUBSET Hashes
  /\ writes = 0
  /\ pc = "sample" /\ need = 0 /\ ranked = <<>> /\ basic = {}
  /\ maxNlink = nlink /\ arrLinked = {}
  /\ i = 1 /\ items = <<>> /\ bytes = 0 /\ reason = "none"
  /\ wasCandidate = Hashes \ excluded
-----------------------------------------------------------------------------
\* NeededBytes; the product is truncated to whole bytes.
NeededBytes(s) ==
  IF s.free >= Target THEN 0 ELSE (s.total * (Target - s.free)) \div 100

\* LatestDiskUsage.  Nothing is read, and nothing elected, when nothing is
\* needed.
ReadSample(s) ==
  /\ pc = "sample"
  /\ need' = NeededBytes(s)
  /\ IF need' = 0 THEN pc' = "done" /\ reason' = "target_reached"
                  ELSE pc' = "scores" /\ UNCHANGED reason
  /\ UNCHANGED <<store, ranked, basic, maxNlink, arrLinked, i, items, bytes, wasCandidate>>

\* ORDER BY score DESC, torrent_hash ASC.
Before(g, h) == score[g] > score[h] \/ (score[g] = score[h] /\ g < h)

Ranking(set) ==
  {s \in [1..Cardinality(set) -> set] : \A m, n \in DOMAIN s : m < n => Before(s[m], s[n])}

\* Mutant of ListScores: the exclusion is left to the score.
ListScoresUnfiltered ==
  /\ pc = "scores"
  /\ ranked' \in Ranking(scored)
  /\ pc' = "torrents"
  /\ UNCHANGED <<store, need, basic, maxNlink, arrLinked, walk, wasCandidate>>

\* ListScores: WHERE excluded = 0.
ListScores ==
  /\ pc = "scores"
  /\ ranked' \in Ranking(scored \ excluded)
  /\ pc' = "torrents"
  /\ UNCHANGED <<store, need, basic, maxNlink, arrLinked, walk, wasCandidate>>

\* ListTorrentsBasic.
ListTorrents ==
  /\ pc = "torrents"
  /\ basic' = rows
  /\ pc' = "nlink"
  /\ UNCHANGED <<store, need, ranked, maxNlink, arrLinked, walk, wasCandidate>>

\* A listed torrent is in scope by its row, when it still has one.
InScope(h) == h \in basic /\ h \in OnVolume

\* MaxNlinkByHashes, of the scores that are in scope.
ReadNlink ==
  /\ pc = "nlink"
  /\ maxNlink' = [h \in Hashes |-> IF InScope(h) THEN nlink[h] ELSE Unsampled]
  /\ pc' = "imports"
  /\ UNCHANGED <<store, need, ranked, basic, arrLinked, walk, wasCandidate>>

\* HashesWithArrImports.
ReadImports ==
  /\ pc = "imports"
  /\ arrLinked' = imported
  /\ pc' = "walk"
  /\ UNCHANGED <<store, need, ranked, basic, maxNlink, walk, wasCandidate>>

\* Not kept: rows that are gone or elsewhere, and cross-seeded torrents.  A
\* torrent that no file sample covers is kept.
Keeps(h) == InScope(h) /\ maxNlink[h] <= Ceiling(h, arrLinked)

\* Mutant of Reached: the target has to be exceeded.
Exceeded(n) == n > need

Reached(n) == n >= need

\* One round of the loop over the scores.
Walk ==
  /\ pc = "walk" /\ i <= Len(ranked)
  /\ i' = i + 1
  /\ IF Keeps(ranked[i])
     THEN /\ items' = Append(items, ranked[i])
          /\ bytes' = bytes + Sizes[ranked[i]]
     ELSE UNCHANGED <<items, bytes>>
  /\ IF Keeps(ranked[i]) /\ Reached(bytes')
     THEN pc' = "done" /\ reason' = "target_reached"
     ELSE UNCHANGED <<pc, reason>>
  /\ UNCHANGED <<store, reads, wasCandidate>>

Exhausted ==
  /\ pc = "walk" /\ i > Len(ranked)
  /\ pc' = "done" /\ reason' = "no_more_candidates"
  /\ UNCHANGED <<store, reads, i, items, bytes, wasCandidate>>
-----------------------------------------------------------------------------
\* A write while Plan is at work.
Write ==
  /\ pc # "done" /\ writes < MaxWrites
  /\ writes' = writes + 1
  /\ UNCHANGED <<pc, reads, walk>>

\* UpsertScores: a scoring pass or a protect toggle.
Rescore(h) ==
  /\ Write
  /\ \/ \E s \in Scores : score' = [score EXCEPT ![h] = s] /\ UNCHANGED excluded
     \/ excluded' = excluded \cup {h} /\ UNCHANGED score
     \/ excluded' = excluded \ {h} /\ UNCHANGED score
  /\ scored' = scored \cup {h}
  /\ wasCandidate' = wasCandidate \cup (scored' \ excluded')
  /\ UNCHANGED <<rows, nlink, imported>>

\* UpsertTorrents and ForgetTorrent.  The latter cascades to the scores and to the
\* sampled files.
Upsert(h) ==
  /\ Write
  /\ rows' = rows \cup {h}
  /\ UNCHANGED <<scored, score, excluded, nlink, imported, wasCandidate>>

Forget(h) ==
  /\ Write
  /\ rows' = rows \ {h} /\ scored' = scored \ {h}
  /\ nlink' = [nlink EXCEPT ![h] = Unsampled]
  /\ UNCHANGED <<score, excluded, imported, wasCandidate>>

\* The files poller and the *arr poller.
SampleFiles(h) ==
  /\ Write
  /\ \E n \in Nlinks : nlink' = [nlink EXCEPT ![h] = n]
  /\ UNCHANGED <<scored, score, excluded, rows, imported, wasCandidate>>

Import(h) ==
  /\ Write
  /\ imported' = imported \cup {h}
  /\ UNCHANGED <<scored, score, excluded, rows, nlink, wasCandidate>>

PlanStep ==
  \/ \E s \in Samples : ReadSample(s)
  \/ ListScores \/ ListTorrents \/ ReadNlink \/ ReadImports \/ Walk \/ Exhausted

Next ==
  \/ PlanStep
  \/ \E h \in Hashes :
       Rescore(h) \/ Upsert(h) \/ Forget(h) \/ SampleFiles(h) \/ Import(h)

Spec == Init /\ [][Next]_vars
-----------------------------------------------------------------------------
\* Every variable has its type.
TypeOK ==
  /\ score \in [Hashes -> Scores] /\ writes \in 0..MaxWrites
  /\ scored \cup excluded \cup rows \cup imported \cup basic \cup arrLinked \cup wasCandidate
       \subseteq Hashes
  /\ {nlink, maxNlink} \subseteq [Hashes -> Nlinks \cup {Unsampled}]
  /\ pc \in {"sample", "scores", "torrents", "nlink", "imports", "walk", "done"}
  /\ need \in Nat /\ ranked \in Seq(Hashes) /\ items \in Seq(Hashes)
  /\ i \in 1..(Len(ranked) + 1) /\ bytes \in Nat
  /\ reason \in {"none", "target_reached", "no_more_candidates"}

\* The torrents that the walk keeps when it meets them.
Kept == {h \in Hashes : Keeps(h)}

SizesOf(s) == [n \in DOMAIN s |-> Sizes[s[n]]]
Size(s) == SumOf(SizesOf(s))

\* What Plan promises of its result: in the order of the scores, the shortest
\* prefix of the candidates that frees what is needed, whose size is the
\* estimate; all of the candidates only when that is not enough; and none when
\* nothing is needed, which manual runs without pressure rely on.
PlanIsShortestPrefix ==
  pc = "done" =>
    LET candidates == IF need = 0 THEN <<>> ELSE Filter(ranked, Kept)
        Reaches(n) == Size(SubSeq(candidates, 1, n)) >= need
    IN  /\ bytes = Size(items)
        /\ IsPrefix(items, candidates)
        /\ reason = "target_reached" <=> Reaches(Len(items))
        /\ \A n \in 0..(Len(items) - 1) : ~Reaches(n)
        /\ reason = "no_more_candidates" => items = candidates

\* Whatever is written between the statements, a torrent is planned at most once,
\* and never when it was protected or out of the volume all the while.
PlannedWereCandidates ==
  /\ IsInjective(items)
  /\ \A n \in 1..Len(items) : items[n] \in wasCandidate \cap OnVolume
-----------------------------------------------------------------------------
\* The parts of the inductive invariant.  What has been read was electable, and is
\* ranked once.
RankingOK ==
  /\ scored \ excluded \subseteq wasCandidate
  /\ pc \in {"sample", "scores"} => ranked = <<>>
  /\ IsInjective(ranked)
  /\ \A n \in DOMAIN ranked : ranked[n] \in wasCandidate

\* What was walked of the ranking, and what of it was kept, in its order.
WalkOK ==
  /\ pc \notin {"walk", "done"} => i = 1
  /\ \A n \in DOMAIN items : \E k \in 1..(i - 1) : items[n] = ranked[k] /\ Keeps(ranked[k])
  /\ \A m, n \in DOMAIN items : m < n =>
       \A k, l \in DOMAIN ranked : items[m] = ranked[k] /\ items[n] = ranked[l] => k < l

\* The items are what a filter of the walked scores would leave, and the estimate is
\* their size.
ItemsOK ==
  /\ items = RunningFilter(ranked, Kept)[i - 1]
  /\ bytes = Size(items)

\* The walk goes on while what it has is not enough.
EnoughOK ==
  /\ pc = "sample" => bytes = 0
  /\ pc \notin {"sample", "done"} => bytes < need
  /\ pc = "done" =>
       \/ reason = "target_reached" /\ need = 0 /\ items = <<>>
       \/ /\ reason = "target_reached"
          /\ i > 1 /\ items # <<>> /\ items[Len(items)] = ranked[i - 1]
          /\ bytes >= need /\ bytes - Sizes[ranked[i - 1]] < need
       \/ reason = "no_more_candidates" /\ i > Len(ranked) /\ bytes < need

IInv == TypeOK /\ RankingOK /\ WalkOK /\ ItemsOK /\ EnoughOK
-----------------------------------------------------------------------------
\* SCORING.md: the Decider "Filters out anything with a *negative* score (veto
\* territory)".  (Without writes: the score is the one that Plan has read.)
NegativeScoresAreSafe ==
  \A n \in 1..Len(items) : score[items[n]] >= 0
=============================================================================
