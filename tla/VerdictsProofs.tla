----------------------------- MODULE VerdictsProofs -----------------------------
(***************************************************************************)
(* Proofs about the parts of Verdicts, for any values of their constants:  *)
(* of the Decider (type correctness, PlannedWereCandidates, and            *)
(* PlanIsShortestPrefix, what Plan promises of its result), the policies,  *)
(* the clock of the dead trackers, the veto, the two queries of the        *)
(* statistics, and the exclusions.                                         *)
(***************************************************************************)
EXTENDS Verdicts, SumsProofs, FiniteSetTheorems

\* What the proofs use of the constants.
LEMMA Consts ==
  /\ Hashes \subseteq Nat /\ IsFiniteSet(Hashes) /\ Scores \subseteq Int
  /\ Sizes \in [Hashes -> Nat] /\ Nlinks \subseteq Nat
  /\ MaxWrites \in Nat /\ Target \in 0..100
  BY ConstantsAssumption

\* NeededBytes is a size.
LEMMA NeededIsNat == ASSUME NEW s \in Samples PROVE NeededBytes(s) \in Nat
<1>1. s.total \in Nat /\ s.free \in 0..100
  BY ConstantsAssumption
<1>2. CASE s.free < Target
  <2>1. Target - s.free \in Nat
    BY <1>1, <1>2, Consts
  <2>2. s.total * (Target - s.free) \in Nat
    BY <1>1, <2>1
  <2> QED BY <1>1, <1>2, <2>2, Consts DEF NeededBytes
<1> QED BY <1>1, <1>2, Consts DEF NeededBytes

\* A ranking lists torrents of the set, each once.
LEMMA RankingFacts ==
  ASSUME TypeOK, NEW set \in SUBSET Hashes, NEW s \in Ranking(set)
  PROVE  s \in Seq(set) /\ IsInjective(s)
<1>1. IsFiniteSet(set)
  BY Consts, FS_Subset, Zenon
<1>2. Cardinality(set) \in Nat
  BY <1>1, FS_CardinalityType
<1>3. s \in [1..Cardinality(set) -> set]
  BY DEF Ranking
<1>4. s \in Seq(set)
  BY <1>2, <1>3
<1>5. ASSUME NEW m \in DOMAIN s, NEW n \in DOMAIN s, m < n PROVE s[m] # s[n]
  <2>1. Before(s[m], s[n])
    BY <1>5 DEF Ranking
  <2>2. s[m] \in Hashes /\ score[s[m]] \in Int /\ s[m] \in Nat
    BY <1>3, Consts, Zenon DEF TypeOK
  <2> QED BY <2>1, <2>2 DEF Before
<1>6. \A m, n \in DOMAIN s : s[m] = s[n] => m = n
  <2>1. DOMAIN s \subseteq Nat
    BY <1>2, <1>3
  <2> QED BY <1>5, <2>1
<1> QED BY <1>4, <1>6 DEF IsInjective

\* The sizes of a list of torrents are numbers, one for each.
LEMMA SizesOfSeq ==
  ASSUME NEW s \in Seq(Hashes)
  PROVE  /\ SizesOf(s) \in Seq(Nat) /\ Len(SizesOf(s)) = Len(s)
         /\ \A n \in 1..Len(s) : SizesOf(s)[n] = Sizes[s[n]] /\ Sizes[s[n]] \in Nat
<1>1. Len(s) \in Nat /\ DOMAIN s = 1..Len(s) /\ \A n \in 1..Len(s) : s[n] \in Hashes
  OBVIOUS
<1>2. \A n \in 1..Len(s) : Sizes[s[n]] \in Nat
  BY <1>1, Consts
<1>3. SizesOf(s) = [n \in 1..Len(s) |-> Sizes[s[n]]]
  BY <1>1 DEF SizesOf
<1> QED BY <1>1, <1>2, <1>3

\* Nothing has no size.
LEMMA EmptySize == Size(<<>>) = 0
<1>1. <<>> \in Seq(Hashes) /\ Len(<<>>) = 0
  OBVIOUS
<1>2. SizesOf(<<>>) \in Seq(Nat) /\ Len(SizesOf(<<>>)) = 0
  BY <1>1, SizesOfSeq, Zenon
<1> QED BY <1>2, TotalStep DEF Size, SumOf

\* A torrent more, its size more.
LEMMA SizeOfAppend ==
  ASSUME NEW s \in Seq(Hashes), NEW x \in Hashes
  PROVE  Size(Append(s, x)) = Size(s) + Sizes[x]
<1> DEFINE t == Append(s, x)
<1>1. /\ t \in Seq(Hashes) /\ Len(t) = Len(s) + 1 /\ t[Len(s) + 1] = x /\ Len(s) \in Nat
      /\ \A k \in 1..Len(s) : t[k] = s[k]
  OBVIOUS
<1> HIDE DEF t
<1>2. Sizes[x] \in Nat
  BY Consts
<1>3. /\ SizesOf(t) \in Seq(Nat) /\ Len(SizesOf(t)) = Len(s) + 1
      /\ \A k \in 1..Len(s) : SizesOf(t)[k] = Sizes[s[k]]
      /\ SizesOf(t)[Len(s) + 1] = Sizes[x]
  <2>1. /\ \A k \in 1..Len(s) : k \in 1..Len(t)
        /\ Len(s) + 1 \in 1..Len(t)
    BY <1>1
  <2> QED BY <1>1, <2>1, SizesOfSeq, Zenon
<1>4. /\ SizesOf(s) \in Seq(Nat) /\ Len(SizesOf(s)) = Len(s)
      /\ \A k \in 1..Len(s) : SizesOf(s)[k] = Sizes[s[k]]
  BY SizesOfSeq
<1>5. SizesOf(t) = Append(SizesOf(s), Sizes[x])
  BY <1>1, <1>2, <1>3, <1>4
<1>6. SumOf(Append(SizesOf(s), Sizes[x])) = SumOf(SizesOf(s)) + Sizes[x]
  BY <1>2, <1>4, TotalOfAppend
<1> QED BY <1>5, <1>6 DEF Size, t

\* The size of a prefix is a running total of any list that begins with it.
LEMMA SizeOfPrefix ==
  ASSUME NEW s \in Seq(Hashes), NEW t \in Seq(Hashes), Len(s) <= Len(t),
         \A k \in 1..Len(s) : t[k] = s[k], NEW n \in 0..Len(s)
  PROVE  Size(SubSeq(t, 1, n)) = RunningTotal(SizesOf(s))[n]
<1> DEFINE u == SubSeq(t, 1, n)
<1>1. /\ u \in Seq(Hashes) /\ Len(u) = n /\ n \in Nat /\ n <= Len(s) /\ Len(s) \in Nat
      /\ \A k \in 1..n : u[k] = s[k] /\ k \in 1..Len(s)
  OBVIOUS
<1> HIDE DEF u
<1>2. /\ SizesOf(u) \in Seq(Nat) /\ Len(SizesOf(u)) = n
      /\ SizesOf(s) \in Seq(Nat) /\ Len(SizesOf(s)) = Len(s)
      /\ \A k \in 1..n : SizesOf(u)[k] = SizesOf(s)[k]
  <2>1. /\ SizesOf(u) \in Seq(Nat) /\ Len(SizesOf(u)) = n
        /\ \A k \in 1..n : SizesOf(u)[k] = Sizes[u[k]]
    BY <1>1, SizesOfSeq, Zenon
  <2>2. /\ SizesOf(s) \in Seq(Nat) /\ Len(SizesOf(s)) = Len(s)
        /\ \A k \in 1..Len(s) : SizesOf(s)[k] = Sizes[s[k]]
    BY SizesOfSeq
  <2> QED BY <1>1, <2>1, <2>2
<1>3. \A k \in 0..n : RunningTotal(SizesOf(u))[k] = RunningTotal(SizesOf(s))[k]
  <2>1. n <= Len(SizesOf(u)) /\ n <= Len(SizesOf(s))
    BY <1>1, <1>2
  <2> QED BY <1>1, <1>2, <2>1, TotalOfPrefix, Zenon
<1>4. n \in 0..n
  BY <1>1
<1> QED BY <1>2, <1>3, <1>4 DEF Size, SumOf, u

\* Every variable has its type before the sample is read.
LEMMA InitTypeOK == Init => TypeOK
  BY Consts DEF Init, TypeOK, Unsampled

\* The statements, the walk and the writes keep the types.
LEMMA StepTypeOK == TypeOK /\ WalkOK /\ [Next]_vars => TypeOK'
<1> SUFFICES ASSUME TypeOK, WalkOK, [Next]_vars PROVE TypeOK'
  OBVIOUS
<1> USE Consts DEF TypeOK, store, reads, walk, Unsampled
<1>1. ASSUME NEW s \in Samples, ReadSample(s) PROVE TypeOK'
  BY <1>1, NeededIsNat DEF ReadSample
<1>2. CASE ListScores
  <2>1. ranked' \in Seq(Hashes)
    <3>1. scored \ excluded \in SUBSET Hashes
      OBVIOUS
    <3>2. ranked' \in Seq(scored \ excluded)
      BY <1>2, <3>1, RankingFacts, Zenon DEF ListScores
    <3> QED BY <3>1, <3>2
  <2>2. i' \in 1..(Len(ranked') + 1)
    <3>1. i' = 1
      BY <1>2 DEF ListScores, WalkOK
    <3> QED BY <2>1, <3>1
  <2> QED BY <1>2, <2>1, <2>2 DEF ListScores
<1>3. CASE ListTorrents \/ ReadImports
  BY <1>3, Zenon DEF ListTorrents, ReadImports
<1>4. CASE ReadNlink
  BY <1>4 DEF ReadNlink
<1>5. CASE Walk
  <2>1. i \in 1..Len(ranked)
    BY <1>5 DEF Walk
  <2>2. ranked[i] \in Hashes
    BY <2>1
  <2>3. Sizes[ranked[i]] \in Nat
    BY <2>2, Zenon
  <2>4. items' \in Seq(Hashes) /\ bytes' \in Nat
    <3>1. Append(items, ranked[i]) \in Seq(Hashes) /\ bytes + Sizes[ranked[i]] \in Nat
      BY <2>2, <2>3
    <3> QED BY <1>5, <3>1, Zenon DEF Walk
  <2>5. i' \in 1..(Len(ranked') + 1)
    BY <1>5, <2>1 DEF Walk
  <2> QED BY <1>5, <2>4, <2>5 DEF Walk
<1>6. CASE Exhausted
  BY <1>6 DEF Exhausted
<1>7. ASSUME Write, score' \in [Hashes -> Scores], nlink' \in [Hashes -> Nlinks \cup {Unsampled}],
             scored' \cup excluded' \cup rows' \cup imported' \cup wasCandidate' \subseteq Hashes
      PROVE  TypeOK'
  <2>1. writes' \in 0..MaxWrites /\ UNCHANGED <<pc, reads, walk>>
    BY <1>7 DEF Write
  <2>2. maxNlink' \in [Hashes -> Nlinks \cup {Unsampled}]
    BY <2>1
  <2>3. {nlink', maxNlink'} \subseteq [Hashes -> Nlinks \cup {Unsampled}]
    BY <1>7, <2>2
  <2>4. basic' \cup arrLinked' \subseteq Hashes
    BY <2>1
  <2> QED BY <1>7, <2>1, <2>3, <2>4
<1>8. ASSUME NEW h \in Hashes,
             Rescore(h) \/ Upsert(h) \/ Import(h) \/ Forget(h) \/ SampleFiles(h)
      PROVE  TypeOK'
  <2>1. /\ scored \cup excluded \cup rows \cup imported \cup wasCandidate \subseteq Hashes
        /\ score \in [Hashes -> Scores] /\ nlink \in [Hashes -> Nlinks \cup {Unsampled}]
    OBVIOUS
  <2>2. CASE Rescore(h)
    <3>1. Write /\ score' \in [Hashes -> Scores] /\ excluded' \subseteq Hashes
      BY <2>1, <2>2 DEF Rescore
    <3>2. scored' \subseteq Hashes /\ wasCandidate' \subseteq Hashes
      BY <2>1, <2>2, <3>1 DEF Rescore
    <3>3. UNCHANGED <<rows, nlink, imported>>
      BY <2>2 DEF Rescore
    <3> QED BY <1>7, <2>1, <3>1, <3>2, <3>3
  <2>3. CASE Upsert(h)
    BY <1>7, <2>1, <2>3 DEF Upsert
  <2>4. CASE Import(h)
    BY <1>7, <2>1, <2>4 DEF Import
  <2>5. CASE Forget(h)
    <3>1. nlink' \in [Hashes -> Nlinks \cup {Unsampled}]
      BY <2>1, <2>5 DEF Forget
    <3> QED BY <1>7, <2>1, <2>5, <3>1 DEF Forget
  <2>6. CASE SampleFiles(h)
    <3>1. nlink' \in [Hashes -> Nlinks \cup {Unsampled}]
      BY <2>1, <2>6 DEF SampleFiles
    <3> QED BY <1>7, <2>1, <2>6, <3>1 DEF SampleFiles
  <2> QED BY <1>8, <2>2, <2>3, <2>4, <2>5, <2>6
<1>9. CASE UNCHANGED vars
  BY <1>9 DEF vars
<1> QED
  BY <1>1, <1>2, <1>3, <1>4, <1>5, <1>6, <1>8, <1>9, Zenon DEF Next, PlanStep

\* Nothing is read and nothing planned yet.
LEMMA InitIInv == Init => IInv
<1> SUFFICES ASSUME Init PROVE IInv
  OBVIOUS
<1>1. RankingOK
  BY DEF Init, RankingOK, IsInjective
<1>2. WalkOK /\ EnoughOK
  BY DEF Init, WalkOK, EnoughOK
<1>3. ItemsOK
  <2>1. ranked \in Seq(Hashes) /\ i - 1 = 0 /\ items = <<>> /\ bytes = 0
    BY DEF Init
  <2> QED BY <2>1, FilterStep, EmptySize DEF ItemsOK
<1> QED BY <1>1, <1>2, <1>3, InitTypeOK DEF IInv

\* What is electable when it is read has been electable, and no write changes that.
LEMMA RankingOKStep == TypeOK /\ RankingOK /\ [Next]_vars => RankingOK'
<1> SUFFICES ASSUME TypeOK, RankingOK, [Next]_vars PROVE RankingOK'
  OBVIOUS
<1> USE DEF RankingOK, store, reads, walk
<1>1. CASE ListScores
  <2>1. scored \ excluded \in SUBSET Hashes
    BY DEF TypeOK
  <2>2. ranked' \in Seq(scored \ excluded) /\ IsInjective(ranked')
    BY <1>1, <2>1, RankingFacts DEF ListScores
  <2> QED BY <1>1, <2>2 DEF ListScores
<1>2. ASSUME UNCHANGED ranked, pc' \in {"sample", "scores"} => pc \in {"sample", "scores"},
             wasCandidate \subseteq wasCandidate', scored' \ excluded' \subseteq wasCandidate'
      PROVE  RankingOK'
  BY <1>2
<1>3. ASSUME NEW s \in Samples, ReadSample(s) PROVE RankingOK'
  BY <1>2, <1>3 DEF ReadSample
<1>4. CASE ListTorrents \/ ReadNlink \/ ReadImports \/ Walk \/ Exhausted
  BY <1>2, <1>4 DEF ListTorrents, ReadNlink, ReadImports, Walk, Exhausted
<1>5. ASSUME NEW h \in Hashes, Rescore(h) PROVE RankingOK'
  BY <1>2, <1>5 DEF Rescore, Write
<1>6. ASSUME NEW h \in Hashes, Upsert(h) \/ Forget(h) \/ SampleFiles(h) \/ Import(h)
      PROVE  RankingOK'
  BY <1>2, <1>6 DEF Upsert, Forget, SampleFiles, Import, Write
<1>7. CASE UNCHANGED vars
  BY <1>2, <1>7 DEF vars
<1> QED BY <1>1, <1>3, <1>4, <1>5, <1>6, <1>7 DEF Next, PlanStep

\* What Plan has read does not change under the walk.
LEMMA WalkReadsNothing ==
  ASSUME [Next]_vars, pc \in {"walk", "done"}
  PROVE  UNCHANGED <<need, ranked, basic, maxNlink, arrLinked>>
<1> USE DEF store, reads, walk
<1>1. CASE PlanStep
  BY <1>1
  DEF PlanStep, ReadSample, ListScores, ListTorrents, ReadNlink, ReadImports, Walk, Exhausted
<1>2. ASSUME NEW h \in Hashes,
             Rescore(h) \/ Upsert(h) \/ Forget(h) \/ SampleFiles(h) \/ Import(h)
      PROVE  UNCHANGED <<need, ranked, basic, maxNlink, arrLinked>>
  BY <1>2 DEF Rescore, Upsert, Forget, SampleFiles, Import, Write
<1> QED BY <1>1, <1>2 DEF Next, vars

\* One round of the walk, and the end of it.
LEMMA WalkOKWalk ==
  ASSUME TypeOK, RankingOK, WalkOK, Walk
  PROVE  WalkOK'
<1> DEFINE x == ranked[i]
<1>1. /\ i \in 1..Len(ranked) /\ i \in Nat /\ Len(ranked) \in Nat /\ DOMAIN ranked = 1..Len(ranked)
      /\ x \in Hashes /\ Len(items) \in Nat /\ DOMAIN items = 1..Len(items)
      /\ i' = i + 1 /\ pc' \in {"walk", "done"}
  BY DEF Walk, TypeOK
<1>2. /\ ranked' = ranked /\ basic' = basic /\ maxNlink' = maxNlink /\ arrLinked' = arrLinked
  BY DEF Walk, reads
<1>3. \A k \in 1..Len(ranked) : Keeps(ranked[k])' <=> Keeps(ranked[k])
  BY <1>2 DEF Keeps, InScope
<1>4. CASE ~Keeps(x)
  <2>1. items' = items
    BY <1>4 DEF Walk
  <2>3. \A n \in DOMAIN items' : \E k \in 1..(i' - 1) : items'[n] = ranked'[k] /\ Keeps(ranked[k])'
    BY <1>1, <1>2, <1>3, <2>1 DEF WalkOK
  <2> QED BY <1>1, <1>2, <2>1, <2>3 DEF WalkOK
<1>5. CASE Keeps(x)
  <2> DEFINE last == Len(items) + 1
  <2>1. items' = Append(items, x)
    BY <1>5 DEF Walk
  <2>2. /\ DOMAIN items' = 1..last /\ items'[last] = x
        /\ \A n \in DOMAIN items : items'[n] = items[n] /\ n \in DOMAIN items'
        /\ \A n \in DOMAIN items' : n = last \/ n \in DOMAIN items
    BY <1>1, <2>1 DEF TypeOK
  <2>3. \A n \in DOMAIN items' : \E k \in 1..(i' - 1) : items'[n] = ranked'[k] /\ Keeps(ranked[k])'
    <3>1. TAKE n \in DOMAIN items'
    <3>2. CASE n = last
      BY <1>1, <1>2, <1>3, <1>5, <2>2, <3>2
    <3>3. CASE n \in DOMAIN items
      <4>1. PICK k \in 1..(i - 1) : items[n] = ranked[k] /\ Keeps(ranked[k])
        BY <3>3 DEF WalkOK
      <4> QED BY <1>1, <1>2, <1>3, <2>2, <3>3, <4>1
    <3> QED BY <2>2, <3>2, <3>3
  <2>5. ASSUME NEW m \in DOMAIN items', NEW n \in DOMAIN items', m < n,
               NEW k \in DOMAIN ranked, NEW l \in DOMAIN ranked,
               items'[m] = ranked[k], items'[n] = ranked[l]
        PROVE  k < l
    <3>1. m \in DOMAIN items
      BY <1>1, <2>2, <2>5
    <3>2. CASE n \in DOMAIN items
      BY <2>2, <2>5, <3>1, <3>2 DEF WalkOK
    <3>3. CASE n = last
      <4>1. l = i
        BY <1>1, <2>2, <2>5, <3>3 DEF RankingOK, IsInjective
      <4>2. PICK j \in 1..(i - 1) : items[m] = ranked[j]
        BY <3>1 DEF WalkOK
      <4>3. k = j
        <5>1. j \in DOMAIN ranked
          BY <1>1, <4>2
        <5> QED BY <2>2, <2>5, <3>1, <4>2, <5>1 DEF RankingOK, IsInjective
      <4> QED BY <1>1, <4>1, <4>2, <4>3
    <3> QED BY <2>2, <3>2, <3>3
  <2> QED BY <1>1, <1>2, <2>3, <2>5 DEF WalkOK
<1> QED BY <1>4, <1>5

\* The items are the kept ones of what was walked, in its order.
LEMMA WalkOKStep == TypeOK /\ RankingOK /\ WalkOK /\ [Next]_vars => WalkOK'
<1> SUFFICES ASSUME TypeOK, RankingOK, WalkOK, [Next]_vars PROVE WalkOK'
  OBVIOUS
<1> USE DEF store, reads, walk
<1>1. ASSUME pc \notin {"walk", "done"}, UNCHANGED <<i, items>>, pc' # "done" \/ ranked' = <<>>
      PROVE  WalkOK'
  <2>1. i = 1 /\ DOMAIN items = {}
    <3>1. i = 1
      BY <1>1, Zenon DEF WalkOK
    <3>2. \A n \in DOMAIN items : \E k \in 1..(i - 1) : TRUE
      BY Zenon DEF WalkOK
    <3>3. 1..(i - 1) = {}
      BY <3>1
    <3> QED BY <3>1, <3>2, <3>3, Zenon
  <2> QED BY <1>1, <2>1 DEF WalkOK
<1>2. ASSUME UNCHANGED <<i, items, ranked, basic, maxNlink, arrLinked>>,
             pc' \notin {"walk", "done"} => pc \notin {"walk", "done"}
      PROVE  WalkOK'
  BY <1>2 DEF WalkOK, Keeps, InScope
<1>3. ASSUME NEW s \in Samples, ReadSample(s) PROVE WalkOK'
  BY <1>1, <1>3 DEF ReadSample, RankingOK
<1>4. CASE ListScores \/ ListTorrents \/ ReadNlink \/ ReadImports
  BY <1>1, <1>4 DEF ListScores, ListTorrents, ReadNlink, ReadImports
<1>5. CASE Walk
  BY <1>5, WalkOKWalk
<1>6. CASE Exhausted
  BY <1>2, <1>6 DEF Exhausted
<1>7. ASSUME NEW h \in Hashes,
             Rescore(h) \/ Upsert(h) \/ Forget(h) \/ SampleFiles(h) \/ Import(h)
      PROVE  WalkOK'
  BY <1>2, <1>7 DEF Rescore, Upsert, Forget, SampleFiles, Import, Write
<1>8. CASE UNCHANGED vars
  BY <1>2, <1>8 DEF vars
<1> QED BY <1>3, <1>4, <1>5, <1>6, <1>7, <1>8 DEF Next, PlanStep

\* The walk filters the scores, and adds up the sizes of what it keeps.
LEMMA ItemsOKStep == TypeOK /\ WalkOK /\ ItemsOK /\ [Next]_vars => ItemsOK'
<1> SUFFICES ASSUME TypeOK, WalkOK, ItemsOK, [Next]_vars PROVE ItemsOK'
  OBVIOUS
<1>0. ranked \in Seq(Hashes) /\ ranked' \in Seq(Hashes)
  BY StepTypeOK DEF TypeOK
<1> USE DEF store, reads, walk
<1>1. ASSUME i = 1, UNCHANGED walk \/ UNCHANGED <<i, items, bytes>> PROVE ItemsOK'
  <2>1. i - 1 = 0 /\ i' - 1 = 0 /\ items' = items /\ bytes' = bytes
    BY <1>1
  <2>2. items' = <<>> /\ bytes' = 0
    BY <1>0, <2>1, FilterStep, EmptySize DEF ItemsOK
  <2>3. RunningFilter(ranked', Kept')[0] = <<>>
    BY <1>0, FilterStep
  <2> QED BY <2>1, <2>2, <2>3, EmptySize DEF ItemsOK
<1>2. ASSUME UNCHANGED <<i, items, bytes, ranked, basic, maxNlink, arrLinked>> PROVE ItemsOK'
  <2>1. Kept' = Kept
    BY <1>2 DEF Kept, Keeps, InScope
  <2> QED BY <1>2, <2>1 DEF ItemsOK
<1>3. ASSUME NEW s \in Samples, ReadSample(s) PROVE ItemsOK'
  BY <1>1, <1>3 DEF ReadSample, WalkOK
<1>4. CASE ListScores \/ ListTorrents \/ ReadNlink \/ ReadImports
  BY <1>1, <1>4 DEF ListScores, ListTorrents, ReadNlink, ReadImports, WalkOK
<1>5. CASE Walk
  <2> DEFINE F == RunningFilter(ranked, Kept)
             x == ranked[i]
  <2>1. i \in 1..Len(ranked) /\ i' - 1 = i /\ x \in Hashes /\ items \in Seq(Hashes)
    BY <1>5 DEF Walk, TypeOK
  <2>2. ranked' = ranked /\ Kept' = Kept
    <3>1. UNCHANGED <<ranked, basic, maxNlink, arrLinked>>
      BY <1>5 DEF Walk
    <3> QED BY <3>1 DEF Kept, Keeps, InScope
  <2>3. F[i] = IF x \in Kept THEN Append(F[i - 1], x) ELSE F[i - 1]
    BY <1>0, <2>1, FilterStep
  <2>4. x \in Kept <=> Keeps(x)
    BY <2>1 DEF Kept
  <2>5. items = F[i - 1] /\ bytes = Size(items)
    BY DEF ItemsOK
  <2>6. CASE Keeps(x)
    <3>1. items' = Append(items, x) /\ bytes' = bytes + Sizes[x]
      BY <1>5, <2>6 DEF Walk
    <3>2. bytes' = Size(items')
      BY <2>1, <2>5, <3>1, SizeOfAppend
    <3>3. items' = F[i]
      BY <2>3, <2>4, <2>5, <2>6, <3>1
    <3> QED BY <2>1, <2>2, <3>2, <3>3 DEF ItemsOK
  <2>7. CASE ~Keeps(x)
    <3>1. items' = items /\ bytes' = bytes
      BY <1>5, <2>7 DEF Walk
    <3>2. items' = F[i]
      BY <2>3, <2>4, <2>5, <2>7, <3>1
    <3> QED BY <2>1, <2>2, <2>5, <3>1, <3>2 DEF ItemsOK
  <2> QED BY <2>6, <2>7
<1>6. CASE Exhausted
  BY <1>2, <1>6 DEF Exhausted
<1>7. ASSUME NEW h \in Hashes,
             Rescore(h) \/ Upsert(h) \/ Forget(h) \/ SampleFiles(h) \/ Import(h)
      PROVE  ItemsOK'
  BY <1>2, <1>7 DEF Rescore, Upsert, Forget, SampleFiles, Import, Write
<1>8. CASE UNCHANGED vars
  BY <1>2, <1>8 DEF vars
<1> QED BY <1>3, <1>4, <1>5, <1>6, <1>7, <1>8 DEF Next, PlanStep

\* The walk stops at the first item that brings the estimate to the target.
LEMMA EnoughOKStep == TypeOK /\ WalkOK /\ EnoughOK /\ [Next]_vars => EnoughOK'
<1> SUFFICES ASSUME TypeOK, WalkOK, EnoughOK, [Next]_vars PROVE EnoughOK'
  OBVIOUS
<1> USE DEF EnoughOK, store, reads, walk
<1>1. ASSUME NEW s \in Samples, ReadSample(s) PROVE EnoughOK'
  <2>1. NeededBytes(s) \in Nat /\ bytes = 0 /\ i = 1 /\ pc = "sample"
    BY <1>1, NeededIsNat DEF ReadSample, WalkOK
  <2>2. items = <<>>
    BY <2>1 DEF WalkOK, TypeOK
  <2> QED BY <1>1, <2>1, <2>2 DEF ReadSample
<1>2. CASE ListScores \/ ListTorrents \/ ReadNlink \/ ReadImports
  BY <1>2 DEF ListScores, ListTorrents, ReadNlink, ReadImports
<1>3. CASE Walk
  <2>1. /\ pc = "walk" /\ bytes < need /\ i \in Nat /\ i \in 1..Len(ranked) /\ i' = i + 1
        /\ UNCHANGED <<need, ranked>> /\ ranked[i] \in Hashes
    BY <1>3 DEF Walk, TypeOK
  <2>2. bytes \in Nat /\ need \in Nat /\ Sizes[ranked[i]] \in Nat /\ items \in Seq(Hashes)
    BY <2>1, Consts, Zenon DEF TypeOK
  <2>3. CASE Keeps(ranked[i]) /\ Reached(bytes')
    <3>1. /\ pc' = "done" /\ reason' = "target_reached"
          /\ items' = Append(items, ranked[i]) /\ bytes' = bytes + Sizes[ranked[i]]
          /\ bytes' >= need
      BY <1>3, <2>3 DEF Walk, Reached
    <3>2. items' # <<>> /\ items'[Len(items')] = ranked[i] /\ i' - 1 = i /\ i' > 1
      BY <2>1, <2>2, <3>1
    <3>3. bytes' - Sizes[ranked[i]] < need
      BY <2>1, <2>2, <3>1
    <3> QED BY <2>1, <3>1, <3>2, <3>3
  <2>4. CASE ~(Keeps(ranked[i]) /\ Reached(bytes'))
    <3>1. pc' = "walk" /\ bytes' \in Nat /\ (bytes' = bytes \/ ~Reached(bytes'))
      BY <1>3, <2>1, <2>2, <2>4 DEF Walk
    <3>2. bytes' < need
      BY <2>1, <2>2, <3>1 DEF Reached
    <3> QED BY <2>1, <3>1, <3>2
  <2> QED BY <2>3, <2>4
<1>4. CASE Exhausted
  BY <1>4 DEF Exhausted
<1>5. ASSUME NEW h \in Hashes,
             Rescore(h) \/ Upsert(h) \/ Forget(h) \/ SampleFiles(h) \/ Import(h)
      PROVE  EnoughOK'
  BY <1>5 DEF Rescore, Upsert, Forget, SampleFiles, Import, Write
<1>6. CASE UNCHANGED vars
  BY <1>6 DEF vars
<1> QED BY <1>1, <1>2, <1>3, <1>4, <1>5, <1>6 DEF Next, PlanStep

\* The inductive invariant of Plan.
THEOREM Invariance == Spec => []IInv
<1>1. IInv /\ [Next]_vars => IInv'
  BY StepTypeOK, RankingOKStep, WalkOKStep, ItemsOKStep, EnoughOKStep DEF IInv
<1> QED BY <1>1, InitIInv, PTL DEF Spec

\* Type correctness: whatever is written meanwhile, Plan reads torrents and sizes.
THEOREM TypeCorrect == Spec => []TypeOK
<1>1. IInv => TypeOK
  BY DEF IInv
<1> QED BY <1>1, Invariance, PTL

\* Whatever the scorer, the pollers, the Actor and the API write between the
\* statements: a torrent is planned at most once, and never when it was protected, or
\* off the volume, all the while.
THEOREM PlannedAreElectable == Spec => []PlannedWereCandidates
<1>1. IInv => PlannedWereCandidates
  <2>1. SUFFICES ASSUME IInv PROVE PlannedWereCandidates
    OBVIOUS
  <2> USE <2>1 DEF IInv
  <2>2. /\ DOMAIN items = 1..Len(items) /\ Len(items) \in Nat
        /\ DOMAIN ranked = 1..Len(ranked) /\ Len(ranked) \in Nat /\ i \in 1..(Len(ranked) + 1)
    BY DEF TypeOK
  <2>3. ASSUME NEW n \in DOMAIN items
        PROVE  /\ items[n] \in wasCandidate \cap OnVolume
               /\ \E k \in DOMAIN ranked : items[n] = ranked[k]
    <3>1. PICK k \in 1..(i - 1) : items[n] = ranked[k] /\ Keeps(ranked[k])
      BY DEF WalkOK
    <3>2. k \in DOMAIN ranked
      BY <2>2, <3>1
    <3> QED BY <3>1, <3>2 DEF RankingOK, Keeps, InScope
  <2>4. \A m, n \in DOMAIN items : m < n => items[m] # items[n]
    <3>1. SUFFICES ASSUME NEW m \in DOMAIN items, NEW n \in DOMAIN items, m < n,
                          items[m] = items[n]
                   PROVE  FALSE
      OBVIOUS
    <3>2. PICK k \in DOMAIN ranked : items[n] = ranked[k]
      BY <2>3
    <3>3. k < k
      BY <3>1, <3>2 DEF WalkOK
    <3> QED BY <2>2, <3>2, <3>3
  <2>5. IsInjective(items)
    BY <2>2, <2>4 DEF IsInjective
  <2> QED BY <2>2, <2>3, <2>5 DEF PlannedWereCandidates
<1> QED BY <1>1, Invariance, PTL

\* What the items weigh, each prefix of them, and without the last.
LEMMA PlanFacts ==
  ASSUME TypeOK, ItemsOK
  PROVE  LET total == RunningTotal(SizesOf(items))
             all == Filter(ranked, Kept)
         IN  /\ all \in Seq(Hashes) /\ IsPrefix(items, all)
             /\ i > Len(ranked) => items = all
             /\ bytes = total[Len(items)]
             /\ \A n \in 0..Len(items) : Size(SubSeq(all, 1, n)) = total[n] /\ total[n] <= bytes
             /\ items # <<>> =>
                  \A n \in 0..(Len(items) - 1) : total[n] <= bytes - Sizes[items[Len(items)]]
<1> DEFINE total == RunningTotal(SizesOf(items))
           all == Filter(ranked, Kept)
<1>1. /\ ranked \in Seq(Hashes) /\ items \in Seq(Hashes) /\ i \in 1..(Len(ranked) + 1)
      /\ Len(ranked) \in Nat /\ Len(items) \in Nat
      /\ i - 1 \in 0..Len(ranked) /\ Len(ranked) \in 0..Len(ranked) /\ i - 1 <= Len(ranked)
  BY DEF TypeOK
<1>2. all \in Seq(Hashes) /\ all = RunningFilter(ranked, Kept)[Len(ranked)]
  BY <1>1, FilterIsSeq DEF Filter
<1>3. items = RunningFilter(ranked, Kept)[i - 1] /\ bytes = Size(items)
  BY DEF ItemsOK
<1>4. IsPrefix(items, all)
  BY <1>1, <1>2, <1>3, FilterGrows
<1>5. i > Len(ranked) => items = all
  <2>1. i > Len(ranked) => i - 1 = Len(ranked)
    BY <1>1
  <2> QED BY <1>2, <1>3, <2>1
<1>6. /\ SizesOf(items) \in Seq(Nat) /\ Len(SizesOf(items)) = Len(items)
      /\ \A n \in 1..Len(items) : SizesOf(items)[n] = Sizes[items[n]] /\ Sizes[items[n]] \in Nat
  BY <1>1, SizesOfSeq
<1>7. bytes = total[Len(items)]
  BY <1>3, <1>6 DEF Size, SumOf
<1>8. \A n \in 0..Len(items) : total[n] \in Nat /\ total[n] <= bytes
  <2>1. \A n \in 0..Len(items) : total[n] <= total[Len(items)]
    <3>1. Len(items) \in 0..Len(items) /\ \A n \in 0..Len(items) : n <= Len(items)
      BY <1>1
    <3> QED BY <1>6, <3>1, TotalGrows
  <2> QED BY <1>6, <1>7, <2>1, TotalIsNat
<1>9. ASSUME items # <<>>, NEW n \in 0..(Len(items) - 1)
      PROVE  total[n] <= bytes - Sizes[items[Len(items)]]
  <2>1. /\ Len(items) \in 1..Len(items) /\ Len(items) - 1 \in 0..Len(items)
        /\ n \in 0..Len(items) /\ n <= Len(items) - 1
    BY <1>1, <1>9
  <2>2. total[Len(items)] = total[Len(items) - 1] + Sizes[items[Len(items)]]
    BY <1>6, <2>1, TotalStep
  <2>3. total[n] <= total[Len(items) - 1]
    BY <1>6, <2>1, TotalGrows
  <2>4. total[n] \in Nat /\ total[Len(items) - 1] \in Nat /\ Sizes[items[Len(items)]] \in Nat
    BY <1>6, <1>8, <2>1, Zenon
  <2> HIDE DEF total
  <2> QED BY <1>7, <2>2, <2>3, <2>4
<1>10. \A n \in 0..Len(items) : Size(SubSeq(all, 1, n)) = total[n]
  <2> HIDE DEF all
  <2>1. Len(items) <= Len(all) /\ SubSeq(items, 1, Len(items)) = SubSeq(all, 1, Len(items))
    BY <1>4 DEF IsPrefix
  <2>2. \A k \in 1..Len(items) : all[k] = items[k]
    <3>1. \A k \in 1..Len(items) : /\ SubSeq(items, 1, Len(items))[k] = items[k]
                                   /\ SubSeq(all, 1, Len(items))[k] = all[k]
      BY <1>1, <1>2, <2>1
    <3> QED BY <2>1, <3>1
  <2> QED BY <1>1, <1>2, <2>1, <2>2, SizeOfPrefix, Zenon
<1> HIDE DEF total, all
<1> QED BY <1>2, <1>4, <1>5, <1>7, <1>8, <1>9, <1>10 DEF total, all

\* Whatever is written between the statements, the plan is the shortest prefix of the
\* candidates, in the order of the scores, that frees what is needed; its estimate is
\* the size of its items; and it is all of the candidates when that is not enough.
THEOREM ShortestPrefix == Spec => []PlanIsShortestPrefix
<1>1. IInv => PlanIsShortestPrefix
  <2>1. SUFFICES ASSUME IInv, pc = "done" PROVE PlanIsShortestPrefix
    BY DEF PlanIsShortestPrefix
  <2> USE <2>1 DEF IInv
  <2> DEFINE total == RunningTotal(SizesOf(items))
             all == Filter(ranked, Kept)
             Reaches(n) == Size(SubSeq(all, 1, n)) >= need
  <2>2. /\ all \in Seq(Hashes) /\ IsPrefix(items, all)
        /\ i > Len(ranked) => items = all
        /\ bytes = total[Len(items)]
        /\ \A n \in 0..Len(items) : Size(SubSeq(all, 1, n)) = total[n] /\ total[n] <= bytes
        /\ items # <<>> =>
             \A n \in 0..(Len(items) - 1) : total[n] <= bytes - Sizes[items[Len(items)]]
    BY PlanFacts
  <2>3. bytes = Size(items)
    BY DEF ItemsOK
  <2>4. /\ Len(items) \in Nat /\ need \in Nat /\ bytes \in Nat /\ items \in Seq(Hashes)
        /\ \A n \in 0..Len(items) : total[n] \in Nat
    <3>1. SizesOf(items) \in Seq(Nat) /\ Len(SizesOf(items)) = Len(items)
      BY SizesOfSeq DEF TypeOK
    <3> QED BY <3>1, TotalIsNat DEF TypeOK
  <2>5. items # <<>> => /\ Sizes[items[Len(items)]] \in Nat
                        /\ 0 <= bytes - Sizes[items[Len(items)]]
    <3>1. SUFFICES ASSUME items # <<>>
                   PROVE  /\ Sizes[items[Len(items)]] \in Nat
                          /\ 0 <= bytes - Sizes[items[Len(items)]]
      OBVIOUS
    <3>2. 0 \in 0..(Len(items) - 1) /\ 0 \in 0..Len(items) /\ items[Len(items)] \in Hashes
      BY <2>4, <3>1
    <3>3. total[0] \in Nat /\ total[0] <= bytes - Sizes[items[Len(items)]]
      BY <2>2, <2>4, <3>1, <3>2
    <3>4. Sizes[items[Len(items)]] \in Nat
      BY <3>2, Consts
    <3> HIDE DEF total
    <3> QED BY <2>4, <3>3, <3>4
  <2> HIDE DEF total, all
  <2>6. CASE need = 0
    <3>1. reason = "target_reached" /\ items = <<>>
      BY <2>4, <2>5, <2>6 DEF EnoughOK
    <3>2. /\ SubSeq(<<>>, 1, 0) = <<>> /\ Len(items) = 0 /\ 0..(Len(items) - 1) = {}
          /\ IsPrefix(<<>>, <<>>)
      BY <3>1 DEF IsPrefix
    <3>3. Size(SubSeq(<<>>, 1, Len(items))) >= need
      <4>1. SubSeq(<<>>, 1, Len(items)) = items
        BY <3>1, <3>2
      <4>2. Size(items) >= need
        BY <2>3, <2>4, <2>6
      <4> HIDE DEF Size
      <4> QED BY <4>1, <4>2, Zenon
    <3> QED BY <2>3, <2>6, <3>1, <3>2, <3>3 DEF PlanIsShortestPrefix
  <2>7. CASE need # 0
    <3>1. \/ /\ reason = "target_reached" /\ items # <<>> /\ bytes >= need
             /\ bytes - Sizes[items[Len(items)]] < need
          \/ reason = "no_more_candidates" /\ i > Len(ranked) /\ bytes < need
      BY <2>7 DEF EnoughOK
    <3>2. Reaches(Len(items)) <=> bytes >= need
      <4>1. Len(items) \in 0..Len(items)
        BY <2>4
      <4> QED BY <2>2, <4>1
    <3>3. reason = "target_reached" <=> Reaches(Len(items))
      BY <2>4, <3>1, <3>2
    <3>4. \A n \in 0..(Len(items) - 1) : ~Reaches(n)
      <4>1. SUFFICES ASSUME NEW n \in 0..(Len(items) - 1) PROVE total[n] < need
        <5>1. \A n \in 0..(Len(items) - 1) : n \in 0..Len(items)
          BY <2>4
        <5> QED BY <2>2, <2>4, <5>1
      <4>2. n \in 0..Len(items) /\ total[n] \in Nat
        BY <2>4
      <4>3. CASE items # <<>> /\ bytes - Sizes[items[Len(items)]] < need
        BY <2>2, <2>4, <2>5, <4>2, <4>3
      <4>4. CASE bytes < need
        BY <2>2, <2>4, <4>2, <4>4
      <4> QED BY <3>1, <4>3, <4>4
    <3>5. reason = "no_more_candidates" => items = all
      BY <2>2, <3>1
    <3> QED BY <2>2, <2>3, <2>7, <3>3, <3>4, <3>5 DEF PlanIsShortestPrefix, all
  <2> QED BY <2>6, <2>7
<1> QED BY <1>1, Invariance, PTL

-----------------------------------------------------------------------------
\* The policies.

\* The recursion of the merge defines a function.
LEMMA MergingDef ==
  ASSUME NEW S, NEW l \in Seq(S), NEW d, NEW o
  PROVE  Po!Merging(l, d, o) =
           [n \in 0..Len(l) |->
              IF n = 0 THEN [min_ratio |-> 0, min_seed_days |-> 0,
                             rare_threshold |-> d.rare_threshold]
              ELSE Po!MergePolicy(Po!Merging(l, d, o)[n - 1], Po!PolicyOf(l[n], d, o), n = 1)]
<1> DEFINE zero == [min_ratio |-> 0, min_seed_days |-> 0, rare_threshold |-> d.rare_threshold]
           Next1(c, n) == Po!MergePolicy(c, Po!PolicyOf(l[n], d, o), n = 1)
           Is(c, m) == c = [n \in 0..m |-> IF n = 0 THEN zero ELSE Next1(c[n - 1], n)]
           G == {m \in Nat : m <= Len(l) => \E c : Is(c, m)}
<1>0. Po!Merging(l, d, o) =
        CHOOSE c : c = [n \in 0..Len(l) |-> IF n = 0 THEN zero ELSE Next1(c[n - 1], n)]
  BY DEF Po!Merging
<1> HIDE DEF zero, Next1
<1>1. 0 \in G
  <2>1. Is([n \in 0..0 |-> zero], 0)
    OBVIOUS
  <2> QED BY <2>1, Zenon
<1>2. ASSUME NEW m \in Nat, m \in G PROVE m + 1 \in G
  <2> SUFFICES ASSUME m + 1 <= Len(l) PROVE \E c : Is(c, m + 1)
    OBVIOUS
  <2>1. PICK c : Is(c, m)
    BY <1>2
  <2> DEFINE e == [n \in 0..(m + 1) |-> IF n <= m THEN c[n] ELSE Next1(c[m], m + 1)]
  <2>2. \A n \in 0..m : c[n] = IF n = 0 THEN zero ELSE Next1(c[n - 1], n)
    BY <2>1
  <2>3. \A n \in 0..(m + 1) : e[n] = IF n = 0 THEN zero ELSE Next1(e[n - 1], n)
    BY <2>2
  <2>4. Is(e, m + 1)
    BY <2>3
  <2> QED BY <2>4, Zenon
<1>3. Len(l) \in G
  <2> HIDE DEF G
  <2> QED BY <1>1, <1>2, Induction
<1>4. \E c : c = [n \in 0..Len(l) |-> IF n = 0 THEN zero ELSE Next1(c[n - 1], n)]
  BY <1>3
<1>5. Po!Merging(l, d, o) =
        [n \in 0..Len(l) |-> IF n = 0 THEN zero ELSE Next1(Po!Merging(l, d, o)[n - 1], n)]
  BY <1>0, <1>4
<1> QED BY <1>5 DEF zero, Next1

\* The largest and the smallest of some numbers.
LEMMA Extremes ==
  ASSUME NEW T \in SUBSET Int, NEW x \in T
  PROVE  /\ (\A y \in T : y <= x) => Po!Max(T) = x
         /\ (\A y \in T : x <= y) => Po!Min(T) = x
<1>1. ASSUME \A y \in T : y <= x PROVE Po!Max(T) = x
  <2>1. \E m \in T : \A y \in T : m >= y
    BY <1>1
  <2>2. Po!Max(T) \in T /\ \A y \in T : Po!Max(T) >= y
    BY <2>1, Zenon DEF Po!Max
  <2>3. Po!Max(T) >= x /\ Po!Max(T) <= x /\ Po!Max(T) \in Int /\ x \in Int
    BY <1>1, <2>2, Zenon
  <2> QED BY <2>3
<1>2. ASSUME \A y \in T : x <= y PROVE Po!Min(T) = x
  <2>1. \E m \in T : \A y \in T : m <= y
    BY <1>2
  <2>2. Po!Min(T) \in T /\ \A y \in T : Po!Min(T) <= y
    BY <2>1, Zenon DEF Po!Min
  <2>3. Po!Min(T) >= x /\ Po!Min(T) <= x /\ Po!Min(T) \in Int /\ x \in Int
    BY <1>2, <2>2, Zenon
  <2> QED BY <2>3
<1> QED BY <1>1, <1>2

\* The larger of two numbers.
LEMMA LargerOfTwo ==
  ASSUME NEW a \in Int, NEW b \in Int
  PROVE  /\ Po!Max({a, b}) \in Int /\ a <= Po!Max({a, b}) /\ b <= Po!Max({a, b})
         /\ Po!Max({a, b}) \in {a, b}
<1>1. {a, b} \in SUBSET Int /\ a \in {a, b} /\ b \in {a, b}
  OBVIOUS
<1>2. CASE a >= b
  <2>1. \A y \in {a, b} : y <= a
    BY <1>2
  <2>2. Po!Max({a, b}) = a
    BY <1>1, <2>1, Extremes
  <2> QED BY <1>2, <2>2
<1>3. CASE ~(a >= b)
  <2>1. \A y \in {a, b} : y <= b
    BY <1>3
  <2>2. Po!Max({a, b}) = b
    BY <1>1, <2>1, Extremes
  <2> QED BY <1>3, <2>2
<1> QED BY <1>2, <1>3

\* The first round of the merge: its threshold replaces the default.
LEMMA MergeFirst ==
  ASSUME NEW c \in [min_ratio : Int, min_seed_days : Int, rare_threshold : Int],
         NEW p \in [min_ratio : Int, min_seed_days : Int, rare_threshold : Int],
         NEW e, e = Po!MergePolicy(c, p, TRUE)
  PROVE  /\ e \in [min_ratio : Int, min_seed_days : Int, rare_threshold : Int]
         /\ c.min_ratio <= e.min_ratio /\ p.min_ratio <= e.min_ratio
         /\ e.min_ratio \in {c.min_ratio, p.min_ratio}
         /\ c.min_seed_days <= e.min_seed_days /\ p.min_seed_days <= e.min_seed_days
         /\ e.min_seed_days \in {c.min_seed_days, p.min_seed_days}
         /\ e.rare_threshold = p.rare_threshold
<1>1. /\ e.min_ratio = Po!Max({c.min_ratio, p.min_ratio})
      /\ e.min_seed_days = Po!Max({c.min_seed_days, p.min_seed_days})
      /\ e.rare_threshold = IF TRUE \/ p.rare_threshold < c.rare_threshold
                            THEN p.rare_threshold ELSE c.rare_threshold
      /\ e = [min_ratio |-> e.min_ratio, min_seed_days |-> e.min_seed_days,
              rare_threshold |-> e.rare_threshold]
  BY DEF Po!MergePolicy
<1>2. /\ c.min_ratio \in Int /\ c.min_seed_days \in Int /\ c.rare_threshold \in Int
      /\ p.min_ratio \in Int /\ p.min_seed_days \in Int /\ p.rare_threshold \in Int
  OBVIOUS
<1>3. /\ e.min_ratio \in Int /\ c.min_ratio <= e.min_ratio /\ p.min_ratio <= e.min_ratio
      /\ e.min_ratio \in {c.min_ratio, p.min_ratio}
  BY <1>1, <1>2, LargerOfTwo, Zenon
<1>4. /\ e.min_seed_days \in Int
      /\ c.min_seed_days <= e.min_seed_days /\ p.min_seed_days <= e.min_seed_days
      /\ e.min_seed_days \in {c.min_seed_days, p.min_seed_days}
  BY <1>1, <1>2, LargerOfTwo, Zenon
<1>5. /\ e.rare_threshold \in Int
      /\ e.rare_threshold = p.rare_threshold
  BY <1>1, <1>2, Zenon
<1>6. e \in [min_ratio : Int, min_seed_days : Int, rare_threshold : Int]
  BY <1>1, <1>3, <1>4, <1>5, Zenon
<1> QED BY <1>3, <1>4, <1>5, <1>6, Zenon

\* Every other round keeps the larger ratio and seed time and the smaller threshold.
LEMMA MergeNext ==
  ASSUME NEW c \in [min_ratio : Int, min_seed_days : Int, rare_threshold : Int],
         NEW p \in [min_ratio : Int, min_seed_days : Int, rare_threshold : Int],
         NEW e, e = Po!MergePolicy(c, p, FALSE)
  PROVE  /\ e \in [min_ratio : Int, min_seed_days : Int, rare_threshold : Int]
         /\ c.min_ratio <= e.min_ratio /\ p.min_ratio <= e.min_ratio
         /\ e.min_ratio \in {c.min_ratio, p.min_ratio}
         /\ c.min_seed_days <= e.min_seed_days /\ p.min_seed_days <= e.min_seed_days
         /\ e.min_seed_days \in {c.min_seed_days, p.min_seed_days}
         /\ e.rare_threshold <= c.rare_threshold /\ e.rare_threshold <= p.rare_threshold
         /\ e.rare_threshold \in {c.rare_threshold, p.rare_threshold}
<1>1. /\ e.min_ratio = Po!Max({c.min_ratio, p.min_ratio})
      /\ e.min_seed_days = Po!Max({c.min_seed_days, p.min_seed_days})
      /\ e.rare_threshold = IF FALSE \/ p.rare_threshold < c.rare_threshold
                            THEN p.rare_threshold ELSE c.rare_threshold
      /\ e = [min_ratio |-> e.min_ratio, min_seed_days |-> e.min_seed_days,
              rare_threshold |-> e.rare_threshold]
  BY DEF Po!MergePolicy
<1>2. /\ c.min_ratio \in Int /\ c.min_seed_days \in Int /\ c.rare_threshold \in Int
      /\ p.min_ratio \in Int /\ p.min_seed_days \in Int /\ p.rare_threshold \in Int
  OBVIOUS
<1>3. /\ e.min_ratio \in Int /\ c.min_ratio <= e.min_ratio /\ p.min_ratio <= e.min_ratio
      /\ e.min_ratio \in {c.min_ratio, p.min_ratio}
  BY <1>1, <1>2, LargerOfTwo, Zenon
<1>4. /\ e.min_seed_days \in Int
      /\ c.min_seed_days <= e.min_seed_days /\ p.min_seed_days <= e.min_seed_days
      /\ e.min_seed_days \in {c.min_seed_days, p.min_seed_days}
  BY <1>1, <1>2, LargerOfTwo, Zenon
<1>5. /\ e.rare_threshold \in Int
      /\ e.rare_threshold <= c.rare_threshold /\ e.rare_threshold <= p.rare_threshold
      /\ e.rare_threshold \in {c.rare_threshold, p.rare_threshold}
  <2>1. ASSUME NEW a \in Int, NEW b \in Int, NEW x, x = IF b < a THEN b ELSE a
        PROVE  x \in Int /\ x <= a /\ x <= b /\ x \in {a, b}
    BY <2>1
  <2>2. e.rare_threshold = IF p.rare_threshold < c.rare_threshold
                           THEN p.rare_threshold ELSE c.rare_threshold
    BY <1>1, Zenon
  <2> QED BY <1>2, <2>1, <2>2, Zenon
<1>6. e \in [min_ratio : Int, min_seed_days : Int, rare_threshold : Int]
  BY <1>1, <1>3, <1>4, <1>5, Zenon
<1> QED BY <1>3, <1>4, <1>5, <1>6, Zenon

\* trackerPolicyFor: of the policies of the trackers, in any order, the largest ratio
\* and seed time and the smallest threshold.
LEMMA Strictest ==
  ASSUME NEW S, NEW l \in Seq(S), l # <<>>, NEW d, NEW o, d.rare_threshold \in Int,
         \A u \in Po!ToSet(l) :
           /\ Po!PolicyOf(u, d, o) \in [min_ratio : Int, min_seed_days : Int, rare_threshold : Int]
           /\ Po!PolicyOf(u, d, o).min_ratio >= 0 /\ Po!PolicyOf(u, d, o).min_seed_days >= 0
  PROVE  LET all == {Po!PolicyOf(u, d, o) : u \in Po!ToSet(l)}
             policy == Po!TrackerPolicyFor(l, d, o)
         IN  /\ policy.min_ratio = Po!Max({p.min_ratio : p \in all})
             /\ policy.min_seed_days = Po!Max({p.min_seed_days : p \in all})
             /\ policy.rare_threshold = Po!Min({p.rare_threshold : p \in all})
<1> DEFINE Rec == [min_ratio : Int, min_seed_days : Int, rare_threshold : Int]
           P(n) == Po!PolicyOf(l[n], d, o)
           m == Po!Merging(l, d, o)
           Bounds(n) ==
             /\ m[n] \in Rec
             /\ \A k \in 1..n : /\ P(k).min_ratio <= m[n].min_ratio
                                /\ P(k).min_seed_days <= m[n].min_seed_days
                                /\ m[n].rare_threshold <= P(k).rare_threshold
             /\ \E k \in 1..n : P(k).min_ratio = m[n].min_ratio
             /\ \E k \in 1..n : P(k).min_seed_days = m[n].min_seed_days
             /\ \E k \in 1..n : P(k).rare_threshold = m[n].rare_threshold
           G == {n \in Nat : n + 1 <= Len(l) => Bounds(n + 1)}
<1>1. /\ Len(l) \in Nat \ {0} /\ DOMAIN l = 1..Len(l)
      /\ \A n \in 1..Len(l) : l[n] \in Po!ToSet(l)
      /\ \A u \in Po!ToSet(l) : \E n \in 1..Len(l) : l[n] = u
  BY DEF Po!ToSet
<1>2. \A n \in 1..Len(l) : P(n) \in Rec /\ P(n).min_ratio >= 0 /\ P(n).min_seed_days >= 0
  BY <1>1
<1>3. /\ m[0] = [min_ratio |-> 0, min_seed_days |-> 0, rare_threshold |-> d.rare_threshold]
      /\ \A n \in 1..Len(l) : m[n] = Po!MergePolicy(m[n - 1], P(n), n = 1)
  <2>1. m = [n \in 0..Len(l) |->
              IF n = 0 THEN [min_ratio |-> 0, min_seed_days |-> 0,
                             rare_threshold |-> d.rare_threshold]
              ELSE Po!MergePolicy(m[n - 1], P(n), n = 1)]
    BY MergingDef
  <2>2. 0 \in 0..Len(l) /\ \A n \in 1..Len(l) : n \in 0..Len(l) /\ n # 0
    BY <1>1
  <2> HIDE DEF m, P
  <2>3. m[0] = [min_ratio |-> 0, min_seed_days |-> 0, rare_threshold |-> d.rare_threshold]
    BY <2>1, <2>2
  <2>4. ASSUME NEW n \in 1..Len(l) PROVE m[n] = Po!MergePolicy(m[n - 1], P(n), n = 1)
    BY <2>1, <2>2
  <2> QED BY <2>3, <2>4
<1> HIDE DEF m, P
<1>4. 0 \in G
  <2>1. m[0] \in Rec /\ m[0].min_ratio = 0 /\ m[0].min_seed_days = 0
    BY <1>3
  <2>2. P(1) \in Rec /\ P(1).min_ratio >= 0 /\ P(1).min_seed_days >= 0
    BY <1>1, <1>2
  <2>3. m[1] = Po!MergePolicy(m[0], P(1), TRUE)
    <3>1. 1 \in 1..Len(l) /\ 1 - 1 = 0 /\ (1 = 1) = TRUE
      BY <1>1
    <3>2. m[1] = Po!MergePolicy(m[1 - 1], P(1), 1 = 1)
      BY <1>3, <3>1
    <3> QED BY <3>1, <3>2, Zenon
  <2>4. /\ m[1] \in Rec /\ m[1].min_ratio = P(1).min_ratio
        /\ m[1].min_seed_days = P(1).min_seed_days /\ m[1].rare_threshold = P(1).rare_threshold
    <3>1. /\ m[1] \in Rec /\ P(1).min_ratio <= m[1].min_ratio
          /\ m[1].min_ratio \in {m[0].min_ratio, P(1).min_ratio}
          /\ P(1).min_seed_days <= m[1].min_seed_days
          /\ m[1].min_seed_days \in {m[0].min_seed_days, P(1).min_seed_days}
          /\ m[1].rare_threshold = P(1).rare_threshold
      <4> DEFINE c == m[0]
                 e == m[1]
                 p == P(1)
      <4>1. c \in Rec /\ p \in Rec /\ e = Po!MergePolicy(c, p, TRUE)
        BY <2>1, <2>2, <2>3
      <4> HIDE DEF c, e, p
      <4>2. /\ e \in Rec /\ p.min_ratio <= e.min_ratio
            /\ e.min_ratio \in {c.min_ratio, p.min_ratio}
            /\ p.min_seed_days <= e.min_seed_days
            /\ e.min_seed_days \in {c.min_seed_days, p.min_seed_days}
            /\ e.rare_threshold = p.rare_threshold
        BY <4>1, MergeFirst, Zenon
      <4> QED BY <4>2 DEF c, e, p
    <3>2. P(1).min_ratio \in Int /\ P(1).min_seed_days \in Int
      BY <2>2
    <3> QED BY <2>1, <2>2, <3>1, <3>2
  <2>5. 1..1 = {1} /\ 0 + 1 = 1
    OBVIOUS
  <2>6. Bounds(1)
    BY <2>2, <2>4, <2>5
  <2> QED BY <2>5, <2>6
<1>5. ASSUME NEW n \in Nat, n \in G PROVE n + 1 \in G
  <2> SUFFICES ASSUME (n + 1) + 1 <= Len(l) PROVE Bounds((n + 1) + 1)
    OBVIOUS
  <2> DEFINE c == m[n + 1]
             e == m[(n + 1) + 1]
             p == P((n + 1) + 1)
  <2>1. Bounds(n + 1)
    BY <1>1, <1>5
  <2>2. c \in Rec /\ p \in Rec
    BY <1>2, <2>1
  <2>3. e = Po!MergePolicy(c, p, FALSE)
    <3>1. (n + 1) + 1 \in 1..Len(l) /\ ((n + 1) + 1) - 1 = n + 1 /\ ((n + 1) + 1 = 1) = FALSE
      OBVIOUS
    <3>2. e = Po!MergePolicy(m[((n + 1) + 1) - 1], p, (n + 1) + 1 = 1)
      BY <1>3, <3>1
    <3> QED BY <3>1, <3>2, Zenon
  <2>4. /\ e \in Rec
        /\ c.min_ratio <= e.min_ratio /\ p.min_ratio <= e.min_ratio
        /\ e.min_ratio \in {c.min_ratio, p.min_ratio}
        /\ c.min_seed_days <= e.min_seed_days /\ p.min_seed_days <= e.min_seed_days
        /\ e.min_seed_days \in {c.min_seed_days, p.min_seed_days}
        /\ e.rare_threshold <= c.rare_threshold /\ e.rare_threshold <= p.rare_threshold
        /\ e.rare_threshold \in {c.rare_threshold, p.rare_threshold}
    <3> HIDE DEF c, e, p
    <3> QED BY <2>2, <2>3, MergeNext, Zenon
  <2>5. /\ \A k \in 1..(n + 1) : k \in 1..((n + 1) + 1) /\ P(k) \in Rec
        /\ (n + 1) + 1 \in 1..((n + 1) + 1)
        /\ \A k \in 1..((n + 1) + 1) : k \in 1..(n + 1) \/ k = (n + 1) + 1
    BY <1>2
  <2>6. /\ c.min_ratio \in Int /\ c.min_seed_days \in Int /\ c.rare_threshold \in Int
        /\ p.min_ratio \in Int /\ p.min_seed_days \in Int /\ p.rare_threshold \in Int
        /\ e.min_ratio \in Int /\ e.min_seed_days \in Int /\ e.rare_threshold \in Int
    <3> HIDE DEF c, e, p
    <3> QED BY <2>2, <2>4
  <2>7. \A k \in 1..(n + 1) : /\ P(k).min_ratio <= c.min_ratio /\ P(k).min_ratio \in Int
                              /\ P(k).min_seed_days <= c.min_seed_days
                              /\ P(k).min_seed_days \in Int
                              /\ c.rare_threshold <= P(k).rare_threshold
                              /\ P(k).rare_threshold \in Int
    BY <2>1, <2>5, Zenon
  <2>8. /\ \E k \in 1..(n + 1) : P(k).min_ratio = c.min_ratio
        /\ \E k \in 1..(n + 1) : P(k).min_seed_days = c.min_seed_days
        /\ \E k \in 1..(n + 1) : P(k).rare_threshold = c.rare_threshold
    BY <2>1
  <2>9. \A k \in 1..((n + 1) + 1) : /\ P(k).min_ratio <= e.min_ratio
                                   /\ P(k).min_seed_days <= e.min_seed_days
                                   /\ e.rare_threshold <= P(k).rare_threshold
    <3>1. ASSUME NEW k \in 1..(n + 1)
          PROVE  /\ P(k).min_ratio <= e.min_ratio /\ P(k).min_seed_days <= e.min_seed_days
                 /\ e.rare_threshold <= P(k).rare_threshold
      <4> DEFINE q == P(k)
      <4>1. /\ q.min_ratio <= c.min_ratio /\ q.min_ratio \in Int
            /\ q.min_seed_days <= c.min_seed_days /\ q.min_seed_days \in Int
            /\ c.rare_threshold <= q.rare_threshold /\ q.rare_threshold \in Int
        BY <2>7
      <4> HIDE DEF c, e, p, q
      <4>2. \A x, y, z \in Int : x <= y /\ y <= z => x <= z
        OBVIOUS
      <4>4. q.min_ratio <= e.min_ratio
        <5>1. /\ q.min_ratio \in Int /\ c.min_ratio \in Int /\ e.min_ratio \in Int
              /\ q.min_ratio <= c.min_ratio /\ c.min_ratio <= e.min_ratio
          BY <2>4, <2>6, <4>1, Zenon
        <5> QED BY <4>2, <5>1, Zenon
      <4>5. q.min_seed_days <= e.min_seed_days
        <5>1. /\ q.min_seed_days \in Int /\ c.min_seed_days \in Int /\ e.min_seed_days \in Int
              /\ q.min_seed_days <= c.min_seed_days /\ c.min_seed_days <= e.min_seed_days
          BY <2>4, <2>6, <4>1, Zenon
        <5> QED BY <4>2, <5>1, Zenon
      <4>3. e.rare_threshold <= q.rare_threshold
        BY <2>4, <2>6, <4>1
      <4> QED BY <4>4, <4>5, <4>3 DEF q
    <3>2. /\ p.min_ratio <= e.min_ratio /\ p.min_seed_days <= e.min_seed_days
          /\ e.rare_threshold <= p.rare_threshold
      <4> HIDE DEF c, e, p
      <4> QED BY <2>4, <2>6
    <3> QED BY <2>5, <3>1, <3>2
  <2>10. /\ \E k \in 1..((n + 1) + 1) : P(k).min_ratio = e.min_ratio
         /\ \E k \in 1..((n + 1) + 1) : P(k).min_seed_days = e.min_seed_days
         /\ \E k \in 1..((n + 1) + 1) : P(k).rare_threshold = e.rare_threshold
    <3> HIDE DEF c, e
    <3> QED BY <2>4, <2>5, <2>8, Zenon
  <2> QED BY <2>4, <2>9, <2>10
<1>6. Bounds(Len(l))
  <2>1. Nat \subseteq G
    <3> HIDE DEF G
    <3> QED BY <1>4, <1>5, Induction, Zenon
  <2>2. Len(l) - 1 \in Nat /\ (Len(l) - 1) + 1 = Len(l) /\ Len(l) <= Len(l)
    BY <1>1
  <2>3. Len(l) - 1 \in G
    <3> HIDE DEF G
    <3> QED BY <2>1, <2>2
  <2> HIDE DEF Bounds
  <2>4. (Len(l) - 1) + 1 <= Len(l) => Bounds((Len(l) - 1) + 1)
    BY <2>3
  <2> QED BY <2>2, <2>4
<1> DEFINE all == {Po!PolicyOf(u, d, o) : u \in Po!ToSet(l)}
           policy == Po!TrackerPolicyFor(l, d, o)
<1>7. policy = m[Len(l)]
  BY DEF Po!TrackerPolicyFor, m
<1>8. \A p : p \in all <=> \E k \in 1..Len(l) : p = P(k)
  BY <1>1 DEF P
<1>9. policy.min_ratio = Po!Max({p.min_ratio : p \in all})
  <2>1. /\ {p.min_ratio : p \in all} \in SUBSET Int
        /\ policy.min_ratio \in {p.min_ratio : p \in all}
        /\ \A y \in {p.min_ratio : p \in all} : y <= policy.min_ratio
    <3> HIDE DEF all, policy
    <3> QED BY <1>2, <1>6, <1>7, <1>8
  <2> QED BY <2>1, Extremes, Zenon
<1>10. policy.min_seed_days = Po!Max({p.min_seed_days : p \in all})
  <2>1. /\ {p.min_seed_days : p \in all} \in SUBSET Int
        /\ policy.min_seed_days \in {p.min_seed_days : p \in all}
        /\ \A y \in {p.min_seed_days : p \in all} : y <= policy.min_seed_days
    <3> HIDE DEF all, policy
    <3> QED BY <1>2, <1>6, <1>7, <1>8
  <2> QED BY <2>1, Extremes, Zenon
<1>11. policy.rare_threshold = Po!Min({p.rare_threshold : p \in all})
  <2>1. /\ {p.rare_threshold : p \in all} \in SUBSET Int
        /\ policy.rare_threshold \in {p.rare_threshold : p \in all}
        /\ \A y \in {p.rare_threshold : p \in all} : policy.rare_threshold <= y
    <3> HIDE DEF all, policy
    <3> QED BY <1>2, <1>6, <1>7, <1>8
  <2> QED BY <2>1, Extremes, Zenon
<1> QED BY <1>9, <1>10, <1>11

\* What a user has asked for of a tracker is the policy that a pass finds for it.
LEMMA AskedIsRead ==
  ASSUME Po!TypeOK, Po!StoredIsAsked, NEW u
  PROVE  /\ Po!AskedOf(u) = Po!PolicyOf(u, defaults, Po!Enabled(overrides))
         /\ Po!AskedOf(u) \in [min_ratio : Int, min_seed_days : Int, rare_threshold : Int]
         /\ Po!AskedOf(u).min_ratio >= 0 /\ Po!AskedOf(u).min_seed_days >= 0
<1> DEFINE Rec == [min_ratio : Int, min_seed_days : Int, rare_threshold : Int]
           h == Host(u)
           d == askedDefaults
           en == Po!Enabled(overrides)
<1>1. /\ d = defaults /\ overrides = [g \in DOMAIN asked |-> Po!RowOf(asked[g])]
      /\ d \in Rec /\ d.min_ratio >= 0 /\ d.min_seed_days >= 0
  <2>1. d = defaults /\ overrides = [g \in DOMAIN asked |-> Po!RowOf(asked[g])]
    BY DEF Po!StoredIsAsked
  <2>2. d \in Defaults /\ Po!ValidDefaults(d)
    BY DEF Po!TypeOK
  <2> QED BY <2>1, <2>2, PoliciesAssumption DEF Po!ValidDefaults
<1>2. ASSUME NEW g \in DOMAIN asked
      PROVE  LET p == asked[g] IN
             /\ p \in [min_ratio : Int, min_seed_days : Int, rare_threshold : Int,
                       enabled : BOOLEAN]
             /\ p.min_ratio >= 0 /\ p.min_seed_days >= 0
             /\ p.rare_threshold = Po!Absent \/ p.rare_threshold >= 0
             /\ overrides[g].min_ratio = p.min_ratio
             /\ overrides[g].min_seed_days = p.min_seed_days
             /\ overrides[g].enabled = p.enabled
             /\ overrides[g].rare_threshold =
                  IF p.rare_threshold = Po!Absent THEN Po!Inherit ELSE p.rare_threshold
  <2>1. asked[g] \in Overrides /\ Po!ValidPolicy(asked[g])
    BY DEF Po!TypeOK
  <2>2. overrides[g] = Po!RowOf(asked[g])
    BY <1>1
  <2>3. asked[g] \in [min_ratio : Int, min_seed_days : Int, rare_threshold : Int,
                      enabled : BOOLEAN]
    BY <2>1, PoliciesAssumption
  <2> QED BY <2>1, <2>2, <2>3 DEF Po!ValidPolicy, Po!RowOf
<1>3. /\ DOMAIN overrides = DOMAIN asked
      /\ DOMAIN en = {g \in DOMAIN overrides : overrides[g].enabled}
      /\ \A g \in DOMAIN en : en[g] = overrides[g]
  BY <1>1 DEF Po!Enabled
<1>4. CASE h \in DOMAIN asked /\ asked[h].enabled
  <2> DEFINE p == asked[h]
             q == overrides[h]
             rare == IF p.rare_threshold = Po!Absent THEN d.rare_threshold
                     ELSE p.rare_threshold
  <2>1. /\ p.min_ratio \in Int /\ p.min_seed_days \in Int /\ p.rare_threshold \in Int
        /\ p.min_ratio >= 0 /\ p.min_seed_days >= 0
        /\ p.rare_threshold = Po!Absent \/ p.rare_threshold >= 0
        /\ q.min_ratio = p.min_ratio /\ q.min_seed_days = p.min_seed_days /\ q.enabled
        /\ q.rare_threshold = IF p.rare_threshold = Po!Absent THEN Po!Inherit
                              ELSE p.rare_threshold
    BY <1>2, <1>4
  <2>2. h \in DOMAIN en /\ en[h] = q
    BY <1>3, <1>4, <2>1
  <2>3. Po!AskedOf(u) = [min_ratio |-> p.min_ratio, min_seed_days |-> p.min_seed_days,
                         rare_threshold |-> rare]
    <3>1. Po!AskedOf(u) = [d EXCEPT !.min_ratio = p.min_ratio,
                             !.min_seed_days = p.min_seed_days,
                             !.rare_threshold = IF p.rare_threshold = Po!Absent THEN @
                                                ELSE p.rare_threshold]
      BY <1>4 DEF Po!AskedOf
    <3> QED BY <1>1, <3>1, Zenon
  <2>4. Po!PolicyOf(u, defaults, en) =
          [min_ratio |-> q.min_ratio, min_seed_days |-> q.min_seed_days,
           rare_threshold |-> IF q.rare_threshold = Po!Inherit THEN d.rare_threshold
                              ELSE q.rare_threshold]
    BY <1>1, <2>1, <2>2 DEF Po!PolicyOf
  <2>5. (IF q.rare_threshold = Po!Inherit THEN d.rare_threshold ELSE q.rare_threshold) = rare
    BY <2>1 DEF Po!Inherit, Po!Absent
  <2>6. rare \in Int
    BY <1>1, <2>1
  <2> HIDE DEF p, q, rare
  <2>7. Po!AskedOf(u) = Po!PolicyOf(u, defaults, en)
    BY <2>1, <2>3, <2>4, <2>5
  <2>8. Po!AskedOf(u) \in Rec
    BY <2>1, <2>3, <2>6
  <2> QED BY <2>1, <2>3, <2>7, <2>8
<1>5. CASE ~(h \in DOMAIN asked /\ asked[h].enabled)
  <2>1. Po!AskedOf(u) = d
    BY <1>5 DEF Po!AskedOf
  <2>2. h \notin DOMAIN en
    BY <1>2, <1>3, <1>5
  <2>3. Po!PolicyOf(u, defaults, en) = defaults
    BY <2>2 DEF Po!PolicyOf
  <2> QED BY <1>1, <2>1, <2>3
<1> QED BY <1>4, <1>5

\* Nothing is posted and no pass has begun.
LEMMA PoliciesInit == Po!Init => Po!IInv
<1> SUFFICES ASSUME Po!Init PROVE Po!IInv
  OBVIOUS
<1>1. Po!TypeOK
  <2>1. /\ defaults = FirstDefaults /\ askedDefaults = FirstDefaults
        /\ overrides = <<>> /\ asked = <<>> /\ passOverrides = <<>>
        /\ pc = "idle" /\ quiet = FALSE /\ saves = 0 /\ DOMAIN judged = Lists
    BY DEF Po!Init
  <2>2. DOMAIN overrides = {} /\ DOMAIN asked = {} /\ DOMAIN passOverrides = {}
    BY <2>1
  <2>3. FirstDefaults \in {d \in Defaults : Po!ValidDefaults(d)}
    BY PoliciesAssumption
  <2>4. {defaults, askedDefaults} \subseteq {d \in Defaults : Po!ValidDefaults(d)}
    BY <2>1, <2>3
  <2>5. saves \in 0..MaxSaves
    BY <2>1, PoliciesAssumption
  <2> QED BY <2>1, <2>2, <2>4, <2>5, Zenon DEF Po!TypeOK
<1>2. Po!StoredIsAsked
  <2>1. DOMAIN asked = {} /\ overrides = asked /\ defaults = askedDefaults
    BY DEF Po!Init
  <2>2. asked = [h \in DOMAIN asked |-> Po!RowOf(asked[h])]
    BY <2>1
  <2> QED BY <2>1, <2>2 DEF Po!StoredIsAsked
<1>3. Po!PassIsCurrent /\ Po!StrictestPolicyWins
  BY DEF Po!Init, Po!PassIsCurrent, Po!StrictestPolicyWins
<1> QED BY <1>1, <1>2, <1>3 DEF Po!IInv

\* What is posted is validated, and the tables hold it.
LEMMA PoliciesStepTables ==
  ASSUME Po!IInv, Po!Next
  PROVE  Po!TypeOK' /\ Po!StoredIsAsked'
<1>0. Po!TypeOK /\ Po!StoredIsAsked
  BY DEF Po!IInv
<1> USE PoliciesAssumption
<1>1. CASE Po!PutScoringDefaults
  <2>1. /\ saves' \in 0..MaxSaves /\ quiet' = FALSE
        /\ UNCHANGED <<overrides, asked, pc, passOverrides, judged>>
    BY <1>0, <1>1 DEF Po!PutScoringDefaults, Po!Post, Po!TypeOK, Po!pass
  <2>2. /\ defaults' = askedDefaults' /\ defaults' \in Defaults
        /\ Po!ValidDefaults(defaults)'
    <3>1. PICK d \in Defaults : Po!ValidDefaults(d) /\ defaults' = d /\ askedDefaults' = d
      BY <1>1 DEF Po!PutScoringDefaults
    <3> QED BY <3>1 DEF Po!ValidDefaults
  <2>3. Po!ValidDefaults(askedDefaults)'
    BY <2>2 DEF Po!ValidDefaults
  <2>4. Po!TypeOK'
    BY <1>0, <2>1, <2>2, <2>3, Zenon DEF Po!TypeOK, Po!ValidPolicy, Po!ValidDefaults
  <2> QED BY <1>0, <2>1, <2>2, <2>4 DEF Po!StoredIsAsked
<1>2. ASSUME NEW h \in TrackerHosts, Po!PutTrackerPolicy(h)
      PROVE  Po!TypeOK' /\ Po!StoredIsAsked'
  <2>1. /\ saves' \in 0..MaxSaves /\ quiet' = FALSE
        /\ UNCHANGED <<defaults, askedDefaults, pc, passOverrides, judged>>
    BY <1>0, <1>2 DEF Po!PutTrackerPolicy, Po!Post, Po!TypeOK, Po!pass
  <2>2. PICK p \in Overrides : /\ Po!ValidPolicy(p)
                               /\ overrides' = Po!With(overrides, h, Po!RowOf(p))
                               /\ asked' = Po!With(asked, h, p)
    BY <1>2 DEF Po!PutTrackerPolicy, Po!UpsertTrackerPolicy
  <2>3. /\ DOMAIN asked' = DOMAIN asked \cup {h} /\ DOMAIN overrides' = DOMAIN overrides \cup {h}
        /\ asked'[h] = p /\ \A g \in DOMAIN asked \ {h} : asked'[g] = asked[g]
    BY <2>2 DEF Po!With
  <2>4. \A g \in DOMAIN asked' : asked'[g] \in Overrides /\ Po!ValidPolicy(asked'[g])
    <3> SUFFICES ASSUME NEW g \in DOMAIN asked'
                 PROVE  asked'[g] \in Overrides /\ Po!ValidPolicy(asked'[g])
      OBVIOUS
    <3>1. CASE g = h
      BY <2>2, <2>3, <3>1
    <3>2. CASE g # h
      BY <1>0, <2>3, <3>2 DEF Po!TypeOK
    <3> QED BY <3>1, <3>2
  <2>5. /\ DOMAIN overrides \subseteq TrackerHosts /\ DOMAIN asked = DOMAIN overrides
        /\ defaults \in Defaults /\ Po!ValidDefaults(defaults) /\ askedDefaults = defaults
    BY <1>0 DEF Po!TypeOK, Po!StoredIsAsked
  <2>6. Po!TypeOK'
    <3>1. defaults' \in Defaults /\ Po!ValidDefaults(defaults)' /\ askedDefaults' = defaults'
      BY <2>1, <2>5 DEF Po!ValidDefaults
    <3>2. {defaults', askedDefaults'} \subseteq {d \in Defaults : Po!ValidDefaults(d)'}
      BY <3>1 DEF Po!ValidDefaults
    <3>3. \A g \in DOMAIN asked' : asked'[g] \in Overrides /\ Po!ValidPolicy(asked[g])'
      BY <2>4 DEF Po!ValidPolicy
    <3> QED BY <1>0, <2>1, <2>3, <2>5, <3>2, <3>3, Zenon DEF Po!TypeOK
  <2>7. overrides' = [g \in DOMAIN asked' |-> Po!RowOf(asked'[g])]
    <3>1. overrides = [g \in DOMAIN asked |-> Po!RowOf(asked[g])]
      BY <1>0 DEF Po!StoredIsAsked
    <3>2. overrides' = [g \in DOMAIN overrides \cup {h} |->
                          IF g = h THEN Po!RowOf(p) ELSE overrides[g]]
      BY <2>2 DEF Po!With
    <3> QED BY <2>3, <2>5, <3>1, <3>2
  <2>8. defaults' = askedDefaults'
    BY <2>1, <2>5
  <2> QED BY <2>6, <2>7, <2>8 DEF Po!StoredIsAsked, Po!RowOf
<1>3. ASSUME NEW h \in TrackerHosts, Po!DeleteTrackerPolicy(h)
      PROVE  Po!TypeOK' /\ Po!StoredIsAsked'
  <2>1. /\ saves' \in 0..MaxSaves /\ quiet' = FALSE
        /\ UNCHANGED <<defaults, askedDefaults, pc, passOverrides, judged>>
    BY <1>0, <1>3 DEF Po!DeleteTrackerPolicy, Po!Post, Po!TypeOK, Po!pass
  <2>2. /\ overrides' = [g \in DOMAIN overrides \ {h} |-> overrides[g]]
        /\ asked' = [g \in DOMAIN asked \ {h} |-> asked[g]]
    BY <1>3 DEF Po!DeleteTrackerPolicy, Po!Without
  <2>3. /\ DOMAIN overrides \subseteq TrackerHosts /\ DOMAIN asked = DOMAIN overrides
        /\ defaults \in Defaults /\ Po!ValidDefaults(defaults) /\ askedDefaults = defaults
        /\ overrides = [g \in DOMAIN asked |-> Po!RowOf(asked[g])]
        /\ \A g \in DOMAIN asked : asked[g] \in Overrides /\ Po!ValidPolicy(asked[g])
    BY <1>0 DEF Po!TypeOK, Po!StoredIsAsked
  <2>4. Po!TypeOK'
    <3>1. {defaults', askedDefaults'} \subseteq {d \in Defaults : Po!ValidDefaults(d)'}
      BY <2>1, <2>3 DEF Po!ValidDefaults
    <3>2. \A g \in DOMAIN asked' : asked'[g] \in Overrides /\ Po!ValidPolicy(asked[g])'
      BY <2>2, <2>3 DEF Po!ValidPolicy
    <3> QED BY <1>0, <2>1, <2>2, <2>3, <3>1, <3>2, Zenon DEF Po!TypeOK
  <2>5. overrides' = [g \in DOMAIN asked' |-> Po!RowOf(asked'[g])]
    BY <2>2, <2>3
  <2>6. defaults' = askedDefaults'
    BY <2>1, <2>3
  <2> QED BY <2>4, <2>5, <2>6 DEF Po!StoredIsAsked, Po!RowOf
<1>4. ASSUME UNCHANGED <<defaults, overrides, askedDefaults, asked, saves>>,
             quiet' \in BOOLEAN, DOMAIN passOverrides' \subseteq TrackerHosts,
             DOMAIN judged' = Lists,
             pc' \in {"idle", "defaults", "policies", "judge", "judged"}
      PROVE  Po!TypeOK' /\ Po!StoredIsAsked'
  <2>1. Po!StoredIsAsked'
    BY <1>0, <1>4 DEF Po!StoredIsAsked, Po!RowOf
  <2>2. Po!TypeOK'
    BY <1>0, <1>4 DEF Po!TypeOK, Po!ValidDefaults, Po!ValidPolicy
  <2> QED BY <2>1, <2>2
<1> USE DEF Po!stored, Po!pass, Po!history
<1>5. CASE Po!BeginPass
  <2>1. DOMAIN passOverrides \subseteq TrackerHosts
    BY <1>0 DEF Po!TypeOK
  <2> QED BY <1>4, <1>5, <2>1 DEF Po!BeginPass
<1>6. CASE Po!GetScoringDefaults \/ Po!PassFails
  <2>1. DOMAIN passOverrides \subseteq TrackerHosts /\ DOMAIN judged = Lists /\ quiet \in BOOLEAN
    BY <1>0 DEF Po!TypeOK
  <2> QED BY <1>4, <1>6, <2>1 DEF Po!GetScoringDefaults, Po!PassFails
<1>7. CASE Po!ListTrackerPolicies
  <2>1. DOMAIN overrides \subseteq TrackerHosts /\ DOMAIN judged = Lists /\ quiet \in BOOLEAN
    BY <1>0 DEF Po!TypeOK
  <2>2. DOMAIN passOverrides' \subseteq DOMAIN overrides
    BY <1>7 DEF Po!ListTrackerPolicies, Po!Enabled
  <2> QED BY <1>4, <1>7, <2>1, <2>2 DEF Po!ListTrackerPolicies
<1>8. CASE Po!Judge
  <2>1. quiet \in BOOLEAN
    BY <1>0 DEF Po!TypeOK
  <2> QED BY <1>4, <1>8, <2>1 DEF Po!Judge
<1> QED BY <1>1, <1>2, <1>3, <1>5, <1>6, <1>7, <1>8 DEF Po!Next

\* Until something is posted, a pass has what the tables hold.
LEMMA PoliciesStepPass ==
  ASSUME Po!IInv, Po!Next
  PROVE  Po!PassIsCurrent'
<1>0. Po!PassIsCurrent
  BY DEF Po!IInv
<1> USE DEF Po!PassIsCurrent, Po!stored, Po!pass, Po!history
<1>1. CASE Po!PutScoringDefaults
  BY <1>1 DEF Po!PutScoringDefaults, Po!Post
<1>2. ASSUME NEW h \in TrackerHosts, Po!PutTrackerPolicy(h) \/ Po!DeleteTrackerPolicy(h)
      PROVE  Po!PassIsCurrent'
  BY <1>2 DEF Po!PutTrackerPolicy, Po!DeleteTrackerPolicy, Po!Post
<1>3. CASE Po!BeginPass
  BY <1>3 DEF Po!BeginPass
<1>4. CASE Po!GetScoringDefaults
  BY <1>4 DEF Po!GetScoringDefaults
<1>5. CASE Po!ListTrackerPolicies
  <2>1. /\ pc = "policies" /\ pc' = "judge" /\ passOverrides' = Po!Enabled(overrides)
        /\ UNCHANGED <<defaults, overrides, passDefaults, quiet>>
    BY <1>5 DEF Po!ListTrackerPolicies
  <2>2. quiet' => passDefaults' = defaults'
    BY <1>0, <2>1
  <2>3. passOverrides' = Po!Enabled(overrides')
    BY <2>1
  <2> QED BY <2>1, <2>2, <2>3 DEF Po!Enabled
<1>6. CASE Po!Judge \/ Po!PassFails
  BY <1>6, Zenon DEF Po!Judge, Po!PassFails
<1> QED BY <1>1, <1>2, <1>3, <1>4, <1>5, <1>6 DEF Po!Next

\* What an undisturbed pass applies is the strictest that was asked for.
LEMMA PoliciesStepJudge ==
  ASSUME Po!IInv, Po!Next
  PROVE  Po!StrictestPolicyWins'
<1>0. Po!TypeOK /\ Po!StoredIsAsked /\ Po!PassIsCurrent
  BY DEF Po!IInv
<1>1. CASE Po!Judge /\ quiet'
  <2>1. /\ pc = "judge" /\ quiet /\ UNCHANGED <<askedDefaults, asked>>
        /\ judged' = [l \in Lists |-> Po!TrackerPolicyFor(l, passDefaults, passOverrides)]
    BY <1>1 DEF Po!Judge, Po!history
  <2>2. passDefaults = defaults /\ passOverrides = Po!Enabled(overrides)
    BY <1>0, <2>1 DEF Po!PassIsCurrent
  <2>3. \A u : (Po!AskedOf(u))' = Po!AskedOf(u)
    BY <2>1 DEF Po!AskedOf
  <2>4. askedDefaults = defaults /\ defaults.rare_threshold \in Int
        /\ defaults.min_ratio \in Int /\ defaults.min_seed_days \in Int
    <3>1. askedDefaults = defaults /\ defaults \in Defaults
      BY <1>0 DEF Po!TypeOK, Po!StoredIsAsked
    <3> QED BY <3>1, PoliciesAssumption
  <2>5. ASSUME NEW l \in Lists
        PROVE  LET all == IF l = <<>> THEN {askedDefaults} ELSE {Po!AskedOf(u) : u \in Po!ToSet(l)}
               IN  /\ judged'[l].min_ratio = Po!Max({p.min_ratio : p \in all})
                   /\ judged'[l].min_seed_days = Po!Max({p.min_seed_days : p \in all})
                   /\ judged'[l].rare_threshold = Po!Min({p.rare_threshold : p \in all})
    <3> DEFINE o == Po!Enabled(overrides)
               policy == Po!TrackerPolicyFor(l, defaults, o)
    <3>1. judged'[l] = policy
      BY <2>1, <2>2
    <3>2. CASE l = <<>>
      <4>1. policy = askedDefaults
        BY <2>4, <3>2 DEF Po!TrackerPolicyFor
      <4> DEFINE A == {p.min_ratio : p \in {askedDefaults}}
                 B == {p.min_seed_days : p \in {askedDefaults}}
                 C == {p.rare_threshold : p \in {askedDefaults}}
      <4>2. /\ A = {askedDefaults.min_ratio} /\ B = {askedDefaults.min_seed_days}
            /\ C = {askedDefaults.rare_threshold}
        OBVIOUS
      <4>3. ASSUME NEW x \in Int PROVE Po!Max({x}) = x /\ Po!Min({x}) = x
        <5>1. {x} \in SUBSET Int /\ x \in {x} /\ \A y \in {x} : y <= x /\ x <= y
          OBVIOUS
        <5> QED BY <5>1, Extremes
      <4>4. /\ askedDefaults.min_ratio = Po!Max(A)
            /\ askedDefaults.min_seed_days = Po!Max(B)
            /\ askedDefaults.rare_threshold = Po!Min(C)
        BY <2>4, <4>2, <4>3
      <4> QED BY <3>1, <3>2, <4>1, <4>4
    <3>3. CASE l # <<>>
      <4>1. l \in Seq({l[n] : n \in DOMAIN l})
        BY PoliciesAssumption
      <4>2. \A u \in Po!ToSet(l) :
              /\ Po!AskedOf(u) = Po!PolicyOf(u, defaults, o)
              /\ Po!PolicyOf(u, defaults, o) \in
                   [min_ratio : Int, min_seed_days : Int, rare_threshold : Int]
              /\ Po!PolicyOf(u, defaults, o).min_ratio >= 0
              /\ Po!PolicyOf(u, defaults, o).min_seed_days >= 0
        <5> TAKE u \in Po!ToSet(l)
        <5>1. /\ Po!AskedOf(u) = Po!PolicyOf(u, defaults, o)
              /\ Po!AskedOf(u) \in [min_ratio : Int, min_seed_days : Int, rare_threshold : Int]
              /\ Po!AskedOf(u).min_ratio >= 0 /\ Po!AskedOf(u).min_seed_days >= 0
          BY <1>0, AskedIsRead
        <5> QED BY <5>1
      <4> DEFINE read == {Po!PolicyOf(u, defaults, o) : u \in Po!ToSet(l)}
                 said == {Po!AskedOf(u) : u \in Po!ToSet(l)}
      <4>3. read = said
        BY <4>2
      <4> HIDE DEF o
      <4>4. /\ policy.min_ratio = Po!Max({p.min_ratio : p \in read})
            /\ policy.min_seed_days = Po!Max({p.min_seed_days : p \in read})
            /\ policy.rare_threshold = Po!Min({p.rare_threshold : p \in read})
        <5> DEFINE S == {l[n] : n \in DOMAIN l}
        <5>1. l \in Seq(S) /\ defaults.rare_threshold \in Int
          BY <2>4, <4>1
        <5>2. \A u \in Po!ToSet(l) :
                /\ Po!PolicyOf(u, defaults, o) \in
                     [min_ratio : Int, min_seed_days : Int, rare_threshold : Int]
                /\ Po!PolicyOf(u, defaults, o).min_ratio >= 0
                /\ Po!PolicyOf(u, defaults, o).min_seed_days >= 0
          BY <4>2
        <5> HIDE DEF S
        <5> QED BY ONLY <3>3, <5>1, <5>2, Strictest, ZenonT(60)
      <4> HIDE DEF read, said, policy
      <4>5. /\ judged'[l].min_ratio = Po!Max({p.min_ratio : p \in said})
            /\ judged'[l].min_seed_days = Po!Max({p.min_seed_days : p \in said})
            /\ judged'[l].rare_threshold = Po!Min({p.rare_threshold : p \in said})
        BY <3>1, <4>3, <4>4
      <4> QED BY <3>3, <4>5 DEF said
    <3> QED BY <3>2, <3>3
  <2>6. ASSUME NEW l \in Lists
        PROVE  LET all == IF l = <<>> THEN {askedDefaults'}
                          ELSE {(Po!AskedOf(u))' : u \in Po!ToSet(l)}
               IN  /\ judged'[l].min_ratio = Po!Max({p.min_ratio : p \in all})
                   /\ judged'[l].min_seed_days = Po!Max({p.min_seed_days : p \in all})
                   /\ judged'[l].rare_threshold = Po!Min({p.rare_threshold : p \in all})
    <3>1. askedDefaults' = askedDefaults
      BY <2>1
    <3>2. {(Po!AskedOf(u))' : u \in Po!ToSet(l)} = {Po!AskedOf(u) : u \in Po!ToSet(l)}
      BY <2>3
    <3> QED BY <2>5, <3>1, <3>2, Zenon
  <2> QED BY <2>6, Zenon DEF Po!StrictestPolicyWins
<1>2. CASE ~(pc' = "judged" /\ quiet')
  BY <1>2 DEF Po!StrictestPolicyWins
<1>3. CASE ~Po!Judge
  <2>1. ASSUME Po!PutScoringDefaults \/ \E h \in TrackerHosts : Po!PutTrackerPolicy(h)
                                                               \/ Po!DeleteTrackerPolicy(h)
        PROVE  quiet' = FALSE
    BY <2>1 DEF Po!PutScoringDefaults, Po!PutTrackerPolicy, Po!DeleteTrackerPolicy, Po!Post
  <2>2. ASSUME Po!BeginPass \/ Po!GetScoringDefaults \/ Po!ListTrackerPolicies \/ Po!PassFails
        PROVE  pc' # "judged"
    BY <2>2 DEF Po!BeginPass, Po!GetScoringDefaults, Po!ListTrackerPolicies, Po!PassFails
  <2> QED BY <1>2, <1>3, <2>1, <2>2 DEF Po!Next, Po!StrictestPolicyWins
<1> QED BY <1>1, <1>2, <1>3

\* The strictest policy wins: a pass during which nothing is posted judges every
\* torrent by the largest ratio and seed time and the smallest threshold that users
\* have asked for of its trackers.
THEOREM StrictestWins == VerdictsSpec => []StrictestPolicyWins
<1> DEFINE I == which = "policies" => Po!IInv
<1>1. VerdictsInit => I
  BY PoliciesInit DEF VerdictsInit
<1>2. I /\ [VerdictsNext]_allVars => I'
  <2> SUFFICES ASSUME I, [VerdictsNext]_allVars, which' = "policies" PROVE Po!IInv'
    OBVIOUS
  <2>1. which = "policies" /\ Po!IInv
    BY DEF VerdictsNext, allVars
  <2>2. CASE Po!Next
    BY <2>1, <2>2, PoliciesStepTables, PoliciesStepPass, PoliciesStepJudge DEF Po!IInv
  <2>3. CASE UNCHANGED allVars
    <3>1. UNCHANGED <<pc, defaults, overrides, passDefaults, passOverrides, judged,
                      askedDefaults, asked, quiet, saves>>
      BY <2>3 DEF allVars, ofPolicies
    <3>2. \A u : (Po!AskedOf(u))' = Po!AskedOf(u)
      BY <3>1 DEF Po!AskedOf
    <3>3. Po!TypeOK /\ Po!StoredIsAsked /\ Po!PassIsCurrent /\ Po!StrictestPolicyWins
      BY <2>1 DEF Po!IInv
    <3>4. Po!TypeOK'
      BY <3>1, <3>3 DEF Po!TypeOK, Po!ValidDefaults, Po!ValidPolicy
    <3>5. Po!StoredIsAsked'
      BY <3>1, <3>3 DEF Po!StoredIsAsked, Po!RowOf
    <3>6. Po!PassIsCurrent'
      <4>1. Po!Enabled(overrides)' = Po!Enabled(overrides)
        BY <3>1 DEF Po!Enabled
      <4> QED BY <3>1, <3>3, <4>1 DEF Po!PassIsCurrent
    <3>7. Po!StrictestPolicyWins'
      BY <3>1, <3>2, <3>3, Zenon DEF Po!StrictestPolicyWins
    <3> QED BY <3>4, <3>5, <3>6, <3>7 DEF Po!IInv
  <2> QED BY <2>1, <2>2, <2>3 DEF VerdictsNext
<1>3. I => StrictestPolicyWins
  BY DEF Po!IInv, StrictestPolicyWins
<1> HIDE DEF I
<1> QED BY <1>1, <1>2, <1>3, PTL DEF VerdictsSpec
-----------------------------------------------------------------------------
\* The dead trackers.

\* The smallest and the greatest of a set of numbers.
LEMMA Smallest ==
  ASSUME NEW T \in SUBSET Int, NEW x \in T, \A y \in T : x <= y
  PROVE  Sc!Min(T) = x
<1>1. \E m \in T : \A y \in T : m <= y
  OBVIOUS
<1>2. Sc!Min(T) \in T /\ \A y \in T : Sc!Min(T) <= y
  BY <1>1, Zenon DEF Sc!Min
<1>3. Sc!Min(T) >= x /\ Sc!Min(T) <= x /\ Sc!Min(T) \in Int /\ x \in Int
  BY <1>2, Zenon
<1> QED BY <1>3

\* The empty function.
LEMMA NoFunction ==
  ASSUME NEW S
  PROVE  /\ DOMAIN <<>> = {} /\ <<>> \in [{} -> S]
         /\ \A f : (f \in [{} -> S]) => f = <<>>
<1>1. DOMAIN <<>> = {} /\ <<>> \in [{} -> S]
  OBVIOUS
<1>2. ASSUME NEW f \in [{} -> S] PROVE f = <<>>
  BY <1>1, <1>2
<1> QED BY <1>1, <1>2

\* The days of a torrent are numbers up to now, and its activity is one of them.
LEMMA Activity ==
  ASSUME Sc!TypeOK
  PROVE  /\ Sc!Times \in SUBSET (0..now) /\ now \in Sc!Times /\ now \in Nat
         /\ Sc!ActivityProxy \in Sc!Times /\ Sc!ActivityProxy <= now
<1>1. now \in Nat /\ Start <= now /\ Start \in Nat
  BY ScoringAssumption DEF Sc!TypeOK
<1>2. Sc!Times \in SUBSET (0..now) /\ now \in Sc!Times
  BY <1>1, ScoringAssumption DEF Sc!Times
<1>3. CASE Sc!Known
  <2>1. /\ torrent.added_on \in Sc!Times
        /\ torrent.completion_on \in Sc!Times \cup {Sc!Never}
        /\ torrent.last_activity \in Sc!Times \cup {Sc!Never}
    BY <1>3 DEF Sc!Known, Sc!TypeOK, Sc!Times
  <2> DEFINE t == Sc!Coalesce(torrent.last_activity,
                              Sc!Coalesce(torrent.completion_on, torrent.added_on))
  <2>2. t \in Sc!Times
    BY <2>1 DEF Sc!Coalesce
  <2>3. Sc!ActivityProxy = Sc!Min({now, t})
    BY <1>3 DEF Sc!ActivityProxy
  <2> HIDE DEF t
  <2>4. t \in Nat /\ t <= now
    BY <1>1, <1>2, <2>2
  <2>5. Sc!Min({now, t}) = t
    BY <1>1, <2>4, Smallest
  <2> QED BY <1>1, <1>2, <2>2, <2>3, <2>4, <2>5
<1>4. CASE ~Sc!Known
  BY <1>1, <1>2, <1>4 DEF Sc!ActivityProxy
<1> QED BY <1>1, <1>2, <1>3, <1>4

\* A torrent that has just been added, without trackers.
LEMMA ScoringInit == Sc!Init => Sc!IInv
<1> SUFFICES ASSUME Sc!Init PROVE Sc!IInv
  OBVIOUS
<1>1. /\ now = Start /\ trackers = <<>> /\ deadSince = <<>> /\ idleSince = <<>>
      /\ now \in Start..LastDay
  BY ScoringAssumption DEF Sc!Init
<1>2. DOMAIN trackers = {} /\ DOMAIN deadSince = {} /\ DOMAIN idleSince = {}
  BY <1>1
<1>3. torrent \in [added_on : Births, completion_on : Sc!Times \cup {Sc!Never},
                   last_activity : Sc!Times \cup {Sc!Never},
                   private : BOOLEAN, protected : BOOLEAN, candidate_boost : BOOLEAN]
  BY DEF Sc!Init, Sc!Times
<1>4. trackers \in [DOMAIN trackers -> [status : Sc!Statuses,
                                        first_seen_dead : Sc!Times \cup {Sc!Never}]]
  BY <1>1, <1>2, NoFunction
<1>5. Sc!TypeOK
  BY <1>1, <1>2, <1>3, <1>4 DEF Sc!TypeOK
<1> QED BY <1>2, <1>5 DEF Sc!IInv, Sc!FirstSeenIsIdle

\* A fetch keeps the clock of a tracker that stays dead, and starts one from the
\* activity of the torrent for a tracker that was not dead.
LEMMA ScoringFetch ==
  ASSUME Sc!IInv, Sc!ReplaceTrackers
  PROVE  Sc!IInv'
<1> DEFINE Row == [status : Sc!Statuses, first_seen_dead : Sc!Times \cup {Sc!Never}]
<1>0. Sc!TypeOK /\ Sc!FirstSeenIsIdle
  BY DEF Sc!IInv
<1>1. PICK real \in SUBSET Urls : \E of \in [real -> Sc!Statuses] :
        LET status == Sc!ListTrackers([u \in real \cup Pseudo |->
                                         IF u \in real THEN of[u] ELSE "working"])
            seenNow == DOMAIN status
            dead == {u \in seenNow : status[u] = Sc!NotWorking}
            kept == dead \cap DOMAIN deadSince
        IN  /\ trackers' = [u \in seenNow |->
                 [status |-> status[u], first_seen_dead |-> Sc!FirstSeenDead(u, status[u])]]
            /\ deadSince' = [u \in dead |-> IF u \in kept THEN deadSince[u] ELSE now]
            /\ idleSince' = [u \in dead |-> IF u \in kept THEN idleSince[u]
                                            ELSE Sc!ActivityProxy]
            /\ UNCHANGED <<now, torrent>>
  BY Zenon DEF Sc!ReplaceTrackers
<1>2. PICK of \in [real -> Sc!Statuses] :
        LET status == Sc!ListTrackers([u \in real \cup Pseudo |->
                                         IF u \in real THEN of[u] ELSE "working"])
            seenNow == DOMAIN status
            dead == {u \in seenNow : status[u] = Sc!NotWorking}
            kept == dead \cap DOMAIN deadSince
        IN  /\ trackers' = [u \in seenNow |->
                 [status |-> status[u], first_seen_dead |-> Sc!FirstSeenDead(u, status[u])]]
            /\ deadSince' = [u \in dead |-> IF u \in kept THEN deadSince[u] ELSE now]
            /\ idleSince' = [u \in dead |-> IF u \in kept THEN idleSince[u]
                                            ELSE Sc!ActivityProxy]
            /\ UNCHANGED <<now, torrent>>
  BY <1>1, Zenon
<1> DEFINE status == Sc!ListTrackers([u \in real \cup Pseudo |->
                                        IF u \in real THEN of[u] ELSE "working"])
           seenNow == DOMAIN status
           dead == {u \in seenNow : status[u] = Sc!NotWorking}
           kept == dead \cap DOMAIN deadSince
<1>3. /\ trackers' = [u \in seenNow |->
           [status |-> status[u], first_seen_dead |-> Sc!FirstSeenDead(u, status[u])]]
      /\ deadSince' = [u \in dead |-> IF u \in kept THEN deadSince[u] ELSE now]
      /\ idleSince' = [u \in dead |-> IF u \in kept THEN idleSince[u] ELSE Sc!ActivityProxy]
      /\ UNCHANGED <<now, torrent>>
  BY <1>2
<1>4. seenNow \in SUBSET Urls /\ \A u \in seenNow : status[u] \in Sc!Statuses
  BY DEF Sc!ListTrackers, Sc!LooksLikeURL
<1> HIDE DEF status, Row
<1>5. /\ Sc!Times \in SUBSET (0..now) /\ now \in Sc!Times /\ now \in Nat
      /\ Sc!ActivityProxy \in Sc!Times /\ Sc!ActivityProxy <= now
  BY <1>0, Activity
<1>6. Sc!Never \notin Sc!Times
  BY <1>5 DEF Sc!Never
<1>7. /\ DOMAIN deadSince = {u \in DOMAIN trackers : trackers[u].status = Sc!NotWorking}
      /\ \A u \in DOMAIN deadSince :
           /\ trackers[u].first_seen_dead = idleSince[u] /\ idleSince[u] <= deadSince[u]
           /\ idleSince[u] \in Sc!Times /\ deadSince[u] \in Start..now
           /\ trackers[u].first_seen_dead # Sc!Never
  BY <1>0 DEF Sc!TypeOK, Sc!FirstSeenIsIdle
<1>8. \A u \in seenNow :
        Sc!FirstSeenDead(u, status[u]) =
          IF u \notin dead THEN Sc!Never
          ELSE IF u \in kept THEN idleSince[u] ELSE Sc!ActivityProxy
  BY <1>7 DEF Sc!FirstSeenDead
<1>9. \A u \in seenNow :
        /\ Sc!FirstSeenDead(u, status[u]) \in Sc!Times \cup {Sc!Never}
        /\ Sc!FirstSeenDead(u, status[u]) # Sc!Never <=> status[u] = Sc!NotWorking
  BY <1>5, <1>6, <1>7, <1>8
<1>10. Sc!Times' = Sc!Times
  BY <1>3 DEF Sc!Times
<1>11. /\ DOMAIN trackers' = seenNow /\ trackers' \in [seenNow -> Row]
       /\ \A u \in seenNow : trackers'[u].status = status[u]
                          /\ trackers'[u].first_seen_dead = Sc!FirstSeenDead(u, status[u])
  BY <1>3, <1>4, <1>9 DEF Row
<1>12. DOMAIN deadSince' = dead /\ DOMAIN idleSince' = dead
  BY <1>3
<1>13. \A u \in dead : /\ deadSince'[u] = IF u \in kept THEN deadSince[u] ELSE now
                       /\ idleSince'[u] = IF u \in kept THEN idleSince[u] ELSE Sc!ActivityProxy
  BY <1>3
<1>14. \A u \in dead : /\ deadSince'[u] \in Start..now /\ idleSince'[u] \in Sc!Times
                       /\ idleSince'[u] <= deadSince'[u]
  <2>1. now \in Start..now
    BY <1>0, <1>5, ScoringAssumption DEF Sc!TypeOK
  <2> QED BY <1>5, <1>7, <1>13, <2>1
<1>15. dead = {u \in DOMAIN trackers' : trackers'[u].status = Sc!NotWorking}
  BY <1>11
<1>16. Sc!TypeOK'
  <2>1. /\ now' \in Start..LastDay
        /\ torrent' # Sc!NoTorrent =>
             torrent' \in [added_on : Births, completion_on : Sc!Times' \cup {Sc!Never},
                           last_activity : Sc!Times' \cup {Sc!Never}, private : BOOLEAN,
                           protected : BOOLEAN, candidate_boost : BOOLEAN]
    BY <1>0, <1>3, <1>10 DEF Sc!TypeOK
  <2>2. \A u \in DOMAIN trackers' :
          trackers'[u].first_seen_dead # Sc!Never <=> trackers'[u].status = Sc!NotWorking
    BY <1>9, <1>11
  <2>3. trackers' \in [DOMAIN trackers' ->
                         [status : Sc!Statuses, first_seen_dead : Sc!Times' \cup {Sc!Never}]]
    BY <1>10, <1>11 DEF Row
  <2>4. \A u \in DOMAIN deadSince' : deadSince'[u] \in Start..now' /\ idleSince'[u] \in Sc!Times'
    BY <1>3, <1>10, <1>12, <1>14
  <2> HIDE DEF dead, kept, seenNow
  <2> QED BY <1>4, <1>11, <1>12, <1>15, <2>1, <2>2, <2>3, <2>4 DEF Sc!TypeOK
<1>17. Sc!FirstSeenIsIdle'
  <2>1. \A u \in dead : trackers'[u].first_seen_dead = idleSince'[u]
    BY <1>8, <1>11, <1>13
  <2> HIDE DEF dead, kept, seenNow
  <2> QED BY <1>12, <1>14, <2>1 DEF Sc!FirstSeenIsIdle
<1> QED BY <1>16, <1>17 DEF Sc!IInv

\* Every step keeps the clocks.
LEMMA ScoringStep ==
  ASSUME Sc!IInv, Sc!Next
  PROVE  Sc!IInv'
<1> DEFINE Row(T) == [added_on : Births, completion_on : T \cup {Sc!Never},
                      last_activity : T \cup {Sc!Never},
                      private : BOOLEAN, protected : BOOLEAN, candidate_boost : BOOLEAN]
<1>0. /\ Sc!TypeOK /\ Sc!FirstSeenIsIdle
      /\ Sc!Known => torrent \in Row(Sc!Times)
  BY DEF Sc!IInv, Sc!TypeOK, Sc!Known
<1>1. /\ Sc!Times \in SUBSET (0..now) /\ now \in Sc!Times /\ now \in Nat
  BY <1>0, Activity
<1>2. ASSUME UNCHANGED <<now, trackers, deadSince, idleSince>>, torrent' \in Row(Sc!Times)
      PROVE  Sc!IInv'
  <2>1. Sc!Times' = Sc!Times
    BY <1>2 DEF Sc!Times
  <2>2. Sc!TypeOK'
    BY <1>0, <1>2, <2>1 DEF Sc!TypeOK
  <2>3. Sc!FirstSeenIsIdle'
    BY <1>0, <1>2 DEF Sc!FirstSeenIsIdle
  <2> QED BY <2>2, <2>3 DEF Sc!IInv
<1>3. CASE Sc!ReplaceTrackers
  BY <1>3, ScoringFetch
<1>4. CASE Sc!UpsertTorrents
  <2> DEFINE before == IF torrent.completion_on = Sc!Never THEN Sc!NotComplete
                       ELSE torrent.completion_on
             since == Sc!Coalesce(torrent.last_activity, torrent.added_on)
  <2>1. torrent \in Row(Sc!Times) /\ UNCHANGED <<now, trackers, deadSince, idleSince>>
    BY <1>0, <1>4 DEF Sc!UpsertTorrents
  <2>2. \E completion \in {before, now}, activity \in {since, now} :
          torrent' = Sc!ListTorrents(completion, activity)
    BY <1>4 DEF Sc!UpsertTorrents
  <2>3. before \in Sc!Times \cup {-1} /\ since \in Sc!Times
    BY <2>1 DEF Sc!Coalesce, Sc!NotComplete, Sc!Times
  <2> HIDE DEF before, since
  <2>4. PICK completion \in Sc!Times \cup {-1}, activity \in Sc!Times :
          torrent' = Sc!ListTorrents(completion, activity)
    BY <1>1, <2>2, <2>3
  <2>5. (IF completion > 0 THEN completion ELSE Sc!Never) \in Sc!Times \cup {Sc!Never}
    BY <1>1
  <2>6. torrent' \in Row(Sc!Times)
    BY <2>1, <2>4, <2>5, Zenon DEF Sc!ListTorrents
  <2> QED BY <1>2, <2>1, <2>6
<1>5. ASSUME NEW on \in BOOLEAN, Sc!SetTorrentProtected(on) \/ Sc!SetTorrentCandidateBoost(on)
      PROVE  Sc!IInv'
  <2>1. torrent \in Row(Sc!Times) /\ UNCHANGED <<now, trackers, deadSince, idleSince>>
    BY <1>0, <1>5 DEF Sc!SetTorrentProtected, Sc!SetTorrentCandidateBoost
  <2>2. torrent' \in Row(Sc!Times)
    BY <1>5, <2>1, Zenon DEF Sc!SetTorrentProtected, Sc!SetTorrentCandidateBoost
  <2> QED BY <1>2, <2>1, <2>2
<1>6. CASE Sc!Forget
  <2>1. /\ torrent' = Sc!NoTorrent /\ trackers' = <<>> /\ deadSince' = <<>>
        /\ idleSince' = <<>> /\ now' = now
    BY <1>6 DEF Sc!Forget
  <2>2. DOMAIN trackers' = {} /\ DOMAIN deadSince' = {} /\ DOMAIN idleSince' = {}
    BY <2>1, NoFunction
  <2>3. trackers' \in [DOMAIN trackers' -> [status : Sc!Statuses,
                                            first_seen_dead : Sc!Times' \cup {Sc!Never}]]
    BY <2>1, <2>2, NoFunction
  <2>4. now' \in Start..LastDay
    BY <1>0, <2>1 DEF Sc!TypeOK
  <2>5. Sc!TypeOK'
    BY <2>1, <2>2, <2>3, <2>4 DEF Sc!TypeOK
  <2> QED BY <2>2, <2>5 DEF Sc!IInv, Sc!FirstSeenIsIdle
<1>7. CASE Sc!Tick
  <2>1. /\ now' = now + 1 /\ now' \in Start..LastDay
        /\ UNCHANGED <<torrent, trackers, deadSince, idleSince>>
    BY <1>0, <1>1, <1>7, ScoringAssumption DEF Sc!Tick, Sc!TypeOK
  <2>2. Sc!Times \subseteq Sc!Times' /\ \A d \in Start..now : d \in Start..now'
    BY <1>1, <2>1, ScoringAssumption DEF Sc!Times
  <2>3. torrent' # Sc!NoTorrent => torrent' \in Row(Sc!Times')
    <3>1. torrent' # Sc!NoTorrent => torrent' \in Row(Sc!Times)
      BY <1>0, <2>1 DEF Sc!Known
    <3>2. Row(Sc!Times) \subseteq Row(Sc!Times')
      BY <2>2
    <3> QED BY <3>1, <3>2
  <2>4. trackers' \in [DOMAIN trackers' -> [status : Sc!Statuses,
                                            first_seen_dead : Sc!Times' \cup {Sc!Never}]]
    <3>1. trackers \in [DOMAIN trackers -> [status : Sc!Statuses,
                                            first_seen_dead : Sc!Times \cup {Sc!Never}]]
      BY <1>0 DEF Sc!TypeOK
    <3>2. [status : Sc!Statuses, first_seen_dead : Sc!Times \cup {Sc!Never}]
            \subseteq [status : Sc!Statuses, first_seen_dead : Sc!Times' \cup {Sc!Never}]
      BY <2>2
    <3> QED BY <2>1, <3>1, <3>2
  <2>5. Sc!TypeOK'
    BY <1>0, <2>1, <2>2, <2>3, <2>4 DEF Sc!TypeOK
  <2> QED BY <1>0, <2>1, <2>5 DEF Sc!IInv, Sc!FirstSeenIsIdle
<1> QED BY <1>3, <1>4, <1>5, <1>6, <1>7 DEF Sc!Next

\* The bonus is there from the grace after the activity on.
LEMMA ScoringServed ==
  ASSUME Sc!IInv
  PROVE  Sc!BonusIsServed
<1>1. /\ DOMAIN deadSince = {u \in DOMAIN trackers : trackers[u].status = Sc!NotWorking}
      /\ \A u \in DOMAIN deadSince :
           /\ trackers[u].first_seen_dead = idleSince[u] /\ idleSince[u] <= deadSince[u]
           /\ idleSince[u] \in Sc!Times /\ deadSince[u] \in Start..now
           /\ trackers[u].first_seen_dead # Sc!Never
  BY DEF Sc!IInv, Sc!TypeOK, Sc!FirstSeenIsIdle
<1>2. now \in Nat /\ \A d \in Sc!Times : d \in Nat
  <2>1. Sc!Times \in SUBSET (0..now) /\ now \in Nat
    BY Activity DEF Sc!IInv
  <2> QED BY <2>1
<1>3. ASSUME NEW u \in DOMAIN trackers
      PROVE  /\ trackers[u].status = Sc!NotWorking
             /\ trackers[u].first_seen_dead # Sc!Never
             /\ trackers[u].first_seen_dead <= now - Grace
             <=> u \in DOMAIN deadSince
                 /\ now >= Sc!Min({deadSince[u], idleSince[u]}) + Grace
  <2>1. CASE u \in DOMAIN deadSince
    <3>1. idleSince[u] \in Nat /\ deadSince[u] \in Nat /\ idleSince[u] <= deadSince[u]
      BY <1>1, <1>2, <2>1, ScoringAssumption
    <3> DEFINE T == {deadSince[u], idleSince[u]}
    <3>2. T \in SUBSET Int /\ idleSince[u] \in T /\ \A y \in T : idleSince[u] <= y
      BY <3>1
    <3> HIDE DEF T
    <3>3. Sc!Min(T) = idleSince[u]
      BY <3>2, Smallest
    <3>4. \A a \in Nat : a <= now - Grace <=> now >= a + Grace
      BY <1>2, ScoringAssumption
    <3>5. idleSince[u] <= now - Grace <=> now >= idleSince[u] + Grace
      BY <3>1, <3>4
    <3> QED BY <1>1, <2>1, <3>5, <3>3 DEF T
  <2>2. CASE u \notin DOMAIN deadSince
    BY <1>1, <2>2
  <2> QED BY <2>1, <2>2
<1> QED BY <1>3, Zenon DEF Sc!BonusIsServed, Sc!AllTrackersDeadSustained

\* And it is announced for the day it begins.
LEMMA ScoringAnnounced ==
  ASSUME Sc!IInv
  PROVE  Sc!CountdownMirrorsGate
<1> DEFINE since == {trackers[u].first_seen_dead : u \in DOMAIN trackers}
           last == Sc!Max(since)
           at == Sc!TrackerDeadEligibleAt
<1>0. /\ Sc!Times \in SUBSET (0..now) /\ now \in Nat /\ Grace \in Int
      /\ Sc!Never \notin Sc!Times
  <2>1. Sc!Times \in SUBSET (0..now) /\ now \in Nat
    BY Activity DEF Sc!IInv
  <2> QED BY <2>1, ScoringAssumption DEF Sc!Never
<1>1. CASE trackers # <<>> /\ \A u \in DOMAIN trackers : trackers[u].status = Sc!NotWorking
  <2>1. \A u \in DOMAIN trackers : trackers[u].first_seen_dead \in Sc!Times
    BY <1>1 DEF Sc!IInv, Sc!TypeOK
  <2>2. DOMAIN trackers # {}
    <3>1. trackers \in [DOMAIN trackers -> [status : Sc!Statuses,
                                            first_seen_dead : Sc!Times \cup {Sc!Never}]]
      BY DEF Sc!IInv, Sc!TypeOK
    <3> QED BY <1>1, <3>1, NoFunction, Zenon
  <2>3. since \in SUBSET Nat /\ since # {} /\ \A d \in since : d <= now
    <3>1. \A d \in Sc!Times : d \in Nat /\ d <= now
      BY <1>0
    <3>2. \A d \in since : d \in Sc!Times
      BY <2>1
    <3>3. since # {}
      BY <2>2, Zenon
    <3> HIDE DEF since
    <3> QED BY <3>1, <3>2, <3>3
  <2>4. last \in since /\ \A d \in since : d <= last
    <3> HIDE DEF since
    <3>1. PICK m \in since : \A d \in since : d <= m
      BY <1>0, <2>3, GreatestNat, Zenon
    <3>2. \E n \in since : \A d \in since : n >= d
      BY <2>3, <3>1
    <3>3. last \in since /\ \A d \in since : last >= d
      BY <3>2 DEF Sc!Max
    <3> QED BY <2>3, <3>3
  <2>5. Sc!Never \notin since
    BY <1>0, <2>1
  <2>6. at = IF last + Grace > now THEN last + Grace ELSE Sc!Never
    BY <1>1, <2>5 DEF Sc!TrackerDeadEligibleAt
  <2>7. Sc!AllTrackersDeadSustained <=> \A d \in since : d <= now - Grace
    BY <1>1, <2>5 DEF Sc!AllTrackersDeadSustained
  <2>8. PICK w \in DOMAIN trackers : trackers[w].first_seen_dead = last
    BY <2>4, Zenon
  <2>9. last \in Nat
    BY <2>3, <2>4
  <2>10. \A u \in DOMAIN trackers : trackers[u].first_seen_dead <= last
    BY <2>4
  <2> HIDE DEF since, last, at
  <2>11. (\A d \in since : d <= now - Grace) <=> ~(last + Grace > now)
    <3>1. \A d \in since : d \in Nat /\ d <= last
      BY <2>3, <2>4
    <3>2. last <= now - Grace <=> ~(last + Grace > now)
      BY <1>0, <2>9
    <3>3. ASSUME last <= now - Grace, NEW d \in since PROVE d <= now - Grace
      BY <1>0, <2>9, <3>1, <3>3
    <3> QED BY <2>4, <3>2, <3>3
  <2>12. CASE last + Grace > now
    <3>1. at = last + Grace /\ ~Sc!AllTrackersDeadSustained
      BY <2>6, <2>7, <2>11, <2>12
    <3>2. /\ at > now /\ at - Grace = last /\ last > at - 1 - Grace
      BY <1>0, <2>9, <2>12, <3>1
    <3>3. \A u \in DOMAIN trackers : trackers[u].first_seen_dead <= at - Grace
      BY <2>10, <3>2
    <3>4. trackers[w].first_seen_dead > at - 1 - Grace
      BY <2>8, <3>2
    <3> QED BY <3>1, <3>2, <3>3, <3>4 DEF Sc!CountdownMirrorsGate, at
  <2>13. CASE ~(last + Grace > now)
    BY <2>6, <2>7, <2>11, <2>13 DEF Sc!CountdownMirrorsGate, at
  <2> QED BY <2>12, <2>13
<1>2. CASE ~(trackers # <<>> /\ \A u \in DOMAIN trackers : trackers[u].status = Sc!NotWorking)
  <2>1. ~Sc!AllTrackersDeadSustained /\ (trackers = <<>> \/ Sc!AnyTrackerAlive)
    BY <1>2 DEF Sc!AllTrackersDeadSustained, Sc!AnyTrackerAlive
  <2> QED BY <2>1 DEF Sc!CountdownMirrorsGate
<1> QED BY <1>1, <1>2

\* The rows and the history of the trackers keep their types and agree.
LEMMA ScoringInvariant == VerdictsSpec => [](which = "scoring" => Sc!IInv)
<1> DEFINE I == which = "scoring" => Sc!IInv
<1>1. VerdictsInit => I
  BY ScoringInit DEF VerdictsInit
<1>2. I /\ [VerdictsNext]_allVars => I'
  <2> SUFFICES ASSUME I, [VerdictsNext]_allVars, which' = "scoring" PROVE Sc!IInv'
    OBVIOUS
  <2>1. which = "scoring" /\ Sc!IInv
    BY DEF VerdictsNext, allVars
  <2>2. CASE Sc!Next
    BY <2>1, <2>2, ScoringStep
  <2>3. CASE UNCHANGED allVars
    <3>1. UNCHANGED <<now, torrent, trackers, deadSince, idleSince>>
      BY <2>3 DEF allVars, ofScoring
    <3>2. Sc!TypeOK /\ Sc!FirstSeenIsIdle /\ Sc!Times' = Sc!Times
      BY <2>1, <3>1 DEF Sc!IInv, Sc!Times
    <3>3. Sc!TypeOK'
      BY <3>1, <3>2 DEF Sc!TypeOK
    <3> QED BY <3>1, <3>2, <3>3 DEF Sc!IInv, Sc!FirstSeenIsIdle
  <2> QED BY <2>1, <2>2, <2>3 DEF VerdictsNext
<1> QED BY <1>1, <1>2, PTL DEF VerdictsSpec

\* The bonus for dead trackers is served for the grace, counted from the activity
\* before the first fetch that saw them dead, and begins on the day the API says.
THEOREM BonusIsServed == VerdictsSpec => []BonusIsServedAsAnnounced
<1>1. (which = "scoring" => Sc!IInv) => BonusIsServedAsAnnounced
  BY ScoringServed, ScoringAnnounced
  DEF BonusIsServedAsAnnounced, Sc!BonusIsServedAsAnnounced
<1> QED BY <1>1, ScoringInvariant, PTL
-----------------------------------------------------------------------------
\* The veto.

\* A score is the sum of the eight factors.
LEMMA ScoreIsSum ==
  ASSUME NEW f \in Seq(Int), Len(f) = 8
  PROVE  Sc!SumOf(f) = f[1] + f[2] + f[3] + f[4] + f[5] + f[6] + f[7] + f[8]
<1> DEFINE T == RunningTotal(f)
<1>1. Sc!SumOf(f) = T[8]
  BY DEF Sc!SumOf, Sc!RunningTotal, RunningTotal
<1>2. T = [n \in 0..8 |-> IF n = 0 THEN 0 ELSE T[n - 1] + f[n]]
  BY RunningTotalDef
<1> HIDE DEF T
<1>3. T[0] = 0 /\ \A n \in 1..8 : T[n] = T[n - 1] + f[n]
  BY <1>2
<1>4. \A n \in 1..8 : f[n] \in Int
  <2>1. f \in [1..Len(f) -> Int]
    BY ONLY f \in Seq(Int), SMT
  <2> QED BY <2>1
<1>5. T[1] = f[1] /\ T[2] = T[1] + f[2] /\ T[3] = T[2] + f[3] /\ T[4] = T[3] + f[4]
  BY <1>3, <1>4
<1>6. T[5] = T[4] + f[5] /\ T[6] = T[5] + f[6] /\ T[7] = T[6] + f[7] /\ T[8] = T[7] + f[8]
  BY <1>3
<1> QED BY <1>1, <1>4, <1>5, <1>6

\* A share of a hundred times a weight.
LEMMA Share ==
  ASSUME NEW v \in 0..100, NEW w \in Nat
  PROVE  v * w \in Nat /\ v * w <= 100 * w
<1>1. PICK d \in 0..100 : v + d = 100
  <2>1. 100 - v \in 0..100 /\ v + (100 - v) = 100
    OBVIOUS
  <2> QED BY <2>1
<1>2. v * w \in Nat /\ d * w \in Nat /\ (v + d) * w = v * w + d * w
  OBVIOUS
<1> QED BY <1>1, <1>2

\* Days times what a day is worth.
LEMMA DaysTimes ==
  ASSUME NEW n \in Nat, NEW last \in Nat, n <= last, NEW w \in Nat
  PROVE  n * w \in Nat /\ n * w <= last * w
<1>1. PICK d \in Nat : n + d = last
  <2>1. last - n \in Nat /\ n + (last - n) = last
    OBVIOUS
  <2> QED BY <2>1
<1>2. n * w \in Nat /\ d * w \in Nat /\ (n + d) * w = n * w + d * w
  OBVIOUS
<1> QED BY <1>1, <1>2

\* The greater and the smaller of two numbers.
LEMMA OfTwo ==
  ASSUME NEW a \in Int, NEW b \in Int
  PROVE  /\ Sc!Max({a, b}) = IF a <= b THEN b ELSE a
         /\ Sc!Min({a, b}) = IF a <= b THEN a ELSE b
<1>1. Sc!Min({a, b}) = IF a <= b THEN a ELSE b
  <2>1. {a, b} \in SUBSET Int
    OBVIOUS
  <2>2. CASE a <= b
    BY <2>1, <2>2, Smallest
  <2>3. CASE ~(a <= b)
    BY <2>1, <2>3, Smallest
  <2> QED BY <2>2, <2>3
<1>2. \E m \in {a, b} : \A y \in {a, b} : m >= y
  OBVIOUS
<1>3. Sc!Max({a, b}) \in {a, b} /\ \A y \in {a, b} : Sc!Max({a, b}) >= y
  BY <1>2, Zenon DEF Sc!Max
<1> QED BY <1>1, <1>3

\* How much each factor may weigh.  The torrent of a row was added in the past.
LEMMA FactorBounds ==
  ASSUME Sc!TypeOK, Sc!Known, Sc!VetoOutweighs, NEW stats \in Stats, NEW policy
  PROVE  LET w == Weights
         IN  /\ Sc!RatioObligation(stats, policy) \in 0..(100 * w.ratio_obligation_met)
             /\ Sc!VelocityInv(stats) \in 0..(100 * w.upload_velocity_inv)
             /\ Sc!Age \in 0..(LastDay * w.age_days_hundredths)
             /\ Sc!SeedersGuard(stats, policy) \in {0, 100 * w.seeders_low_guard}
             /\ Sc!SwarmBonus(stats) \in 0..(200 * w.swarm_health_bonus)
             /\ Sc!HnRVeto \in {0, Sc!HnRVetoWeight}
             /\ Sc!TrackerDead \in {0, 100 * w.tracker_dead_bonus}
             /\ Sc!CandidateBoost \in {0, Sc!CandidateBoostWeight}
<1> DEFINE w == Weights
<1>1. /\ w.ratio_obligation_met \in Nat /\ w.upload_velocity_inv \in Nat
      /\ w.age_days_hundredths \in Nat /\ w.seeders_low_guard \in Int
      /\ w.swarm_health_bonus \in Nat /\ w.tracker_dead_bonus \in Nat
  BY DEF Sc!VetoOutweighs
<1>2. /\ stats.velocity \in Int /\ stats.average \in Int /\ stats.seeders \in {0, 9, 99}
  BY ScoringAssumption
<1>3. now \in Nat /\ now <= LastDay /\ LastDay \in Nat /\ torrent.added_on \in Nat
  <2>1. torrent.added_on \in Births /\ now \in Start..LastDay
    BY DEF Sc!TypeOK, Sc!Known
  <2>2. Births \subseteq 0..Start /\ Start \in Nat /\ LastDay \in Nat
    BY ScoringAssumption
  <2>3. now \in Int /\ Start <= now /\ now <= LastDay
    BY <2>1, <2>2
  <2>4. torrent.added_on \in 0..Start
    BY <2>1, <2>2
  <2> QED BY <2>2, <2>3, <2>4
<1>4. Sc!RatioObligation(stats, policy) \in 0..(100 * w.ratio_obligation_met)
  <2>1. Sc!RatioObligation(stats, policy) \in {0, 100 * w.ratio_obligation_met}
    BY DEF Sc!RatioObligation
  <2> QED BY <1>1, <2>1
<1>5. Sc!VelocityInv(stats) \in 0..(100 * w.upload_velocity_inv)
  <2>1. CASE stats.average <= 0
    BY <1>1, <2>1 DEF Sc!VelocityInv
  <2>2. CASE ~(stats.average <= 0)
    <3> DEFINE v == 100 - (100 * stats.velocity) \div stats.average
    <3>1. Sc!VelocityInv(stats) = Sc!Max({0, Sc!Min({v, 100})}) * w.upload_velocity_inv
      BY <2>2 DEF Sc!VelocityInv
    <3>2. v \in Int
      BY <1>2, <2>2
    <3> HIDE DEF v
    <3>3. Sc!Min({v, 100}) = IF v <= 100 THEN v ELSE 100
      <4>1. 100 \in Int
        OBVIOUS
      <4> QED BY ONLY <3>2, <4>1, OfTwo, Zenon
    <3> DEFINE u == Sc!Min({v, 100})
    <3>4. u \in Int /\ u <= 100
      BY <3>2, <3>3
    <3> HIDE DEF u
    <3>5. Sc!Max({0, u}) = IF 0 <= u THEN u ELSE 0
      <4>1. 0 \in Int
        OBVIOUS
      <4> QED BY ONLY <3>4, <4>1, OfTwo, Zenon
    <3>6. Sc!Max({0, u}) \in 0..100
      BY <3>4, <3>5
    <3> QED BY <1>1, <3>1, <3>6, Share DEF u
  <2> QED BY <2>1, <2>2
<1>6. Sc!Age \in 0..(LastDay * w.age_days_hundredths)
  <2>1. /\ Sc!Max({0, now - torrent.added_on}) \in Nat
        /\ Sc!Max({0, now - torrent.added_on}) <= LastDay
    BY <1>3, OfTwo
  <2>2. Sc!Age = Sc!Max({0, now - torrent.added_on}) * w.age_days_hundredths
    BY DEF Sc!Age
  <2>3. Sc!Age \in Nat /\ Sc!Age <= LastDay * w.age_days_hundredths
    BY <1>1, <1>3, <2>1, <2>2, DaysTimes
  <2>4. LastDay * w.age_days_hundredths \in Nat
    BY <1>1, <1>3, DaysTimes
  <2> QED BY <2>3, <2>4
<1>7. Sc!SwarmBonus(stats) \in 0..(200 * w.swarm_health_bonus)
  <2>1. Sc!Log10[stats.seeders + 1] \in {0, 1, 2}
    BY <1>2 DEF Sc!Log10
  <2> QED BY <1>1, <2>1 DEF Sc!SwarmBonus
<1> QED BY <1>4, <1>5, <1>6, <1>7
        DEF Sc!SeedersGuard, Sc!HnRVeto, Sc!TrackerDead, Sc!CandidateBoost

\* Whatever the statistics and the policies, the score of a torrent in its
\* hit-and-run window is negative unless a fetch has found all its trackers dead,
\* and that of a boosted torrent out of the window is positive.
LEMMA VetoIsEnough ==
  ASSUME Sc!TypeOK, Sc!VetoOutweighs
  PROVE  Sc!VetoIsAbsolute
<1> SUFFICES ASSUME Sc!Known, NEW stats \in Stats, NEW p \in PolicySets
             PROVE  /\ torrent.private /\ Sc!InHnRWindow
                         /\ ~(trackers # <<>> /\ DOMAIN trackers = DOMAIN deadSince)
                         => Sc!Score(stats, p) < 0
                    /\ torrent.candidate_boost /\ ~(torrent.private /\ Sc!InHnRWindow)
                         => Sc!Score(stats, p) > 0
  BY DEF Sc!VetoIsAbsolute
<1> DEFINE w == Weights
           policy == Sc!TrackerPolicyFor(Sc!TrackerViews, p.defaults, p.overrides)
           f == Sc!EvalFactors(stats, policy)
<1>1. /\ w.ratio_obligation_met \in Nat /\ w.upload_velocity_inv \in Nat
      /\ w.age_days_hundredths \in Nat /\ w.seeders_low_guard \in Int
      /\ w.swarm_health_bonus \in Nat /\ w.tracker_dead_bonus \in Nat
      /\ w.seeders_low_guard <= 0 /\ Sc!CandidateBoostWeight + 100 * w.seeders_low_guard > 0
      /\ 100 * (w.ratio_obligation_met + w.upload_velocity_inv + 2 * w.swarm_health_bonus)
           + LastDay * w.age_days_hundredths + Sc!CandidateBoostWeight + Sc!HnRVetoWeight < 0
  BY DEF Sc!VetoOutweighs
<1>2. LastDay \in Nat /\ LastDay * w.age_days_hundredths \in Nat
  BY <1>1, ScoringAssumption, DaysTimes
<1>3. /\ Sc!RatioObligation(stats, policy) \in 0..(100 * w.ratio_obligation_met)
      /\ Sc!VelocityInv(stats) \in 0..(100 * w.upload_velocity_inv)
      /\ Sc!Age \in 0..(LastDay * w.age_days_hundredths)
      /\ Sc!SeedersGuard(stats, policy) \in {0, 100 * w.seeders_low_guard}
      /\ Sc!SwarmBonus(stats) \in 0..(200 * w.swarm_health_bonus)
      /\ Sc!HnRVeto \in {0, Sc!HnRVetoWeight}
      /\ Sc!TrackerDead \in {0, 100 * w.tracker_dead_bonus}
      /\ Sc!CandidateBoost \in {0, Sc!CandidateBoostWeight}
  BY FactorBounds
<1>4. f = <<Sc!RatioObligation(stats, policy), Sc!VelocityInv(stats), Sc!Age,
            Sc!SeedersGuard(stats, policy), Sc!SwarmBonus(stats), Sc!HnRVeto,
            Sc!TrackerDead, Sc!CandidateBoost>>
  BY DEF Sc!EvalFactors
<1>5. Sc!Score(stats, p) = Sc!SumOf(f)
  BY DEF Sc!Score
<1> HIDE DEF policy, f
<1> DEFINE ratio == Sc!RatioObligation(stats, policy)
           velocity == Sc!VelocityInv(stats)
           guard == Sc!SeedersGuard(stats, policy)
           swarm == Sc!SwarmBonus(stats)
<1>6. /\ ratio \in Int /\ velocity \in Int /\ Sc!Age \in Int /\ guard \in Int
      /\ swarm \in Int /\ Sc!HnRVeto \in Int /\ Sc!TrackerDead \in Int
      /\ Sc!CandidateBoost \in Int
  BY <1>1, <1>3 DEF Sc!HnRVetoWeight, Sc!CandidateBoostWeight
<1>7. Sc!Score(stats, p) = ratio + velocity + Sc!Age + guard + swarm + Sc!HnRVeto
                             + Sc!TrackerDead + Sc!CandidateBoost
  <2>1. f \in Seq(Int) /\ Len(f) = 8
    BY <1>4, <1>6
  <2>2. Sc!Score(stats, p) = f[1] + f[2] + f[3] + f[4] + f[5] + f[6] + f[7] + f[8]
    BY <1>5, <2>1, ScoreIsSum
  <2> QED BY <1>4, <2>2
<1>8. ASSUME torrent.private /\ Sc!InHnRWindow,
             ~(trackers # <<>> /\ DOMAIN trackers = DOMAIN deadSince)
      PROVE  Sc!Score(stats, p) < 0
  <2>1. Sc!AnyTrackerAlive
    BY <1>8 DEF Sc!AnyTrackerAlive, Sc!TypeOK
  <2>2. Sc!HnRVeto = Sc!HnRVetoWeight
    BY <1>8, <2>1 DEF Sc!HnRVeto
  <2>3. Sc!TrackerDead = 0
    BY <2>1 DEF Sc!TrackerDead, Sc!AllTrackersDeadSustained, Sc!AnyTrackerAlive
  <2> QED BY <1>1, <1>2, <1>3, <1>6, <1>7, <2>2, <2>3
          DEF Sc!HnRVetoWeight, Sc!CandidateBoostWeight
<1>9. ASSUME torrent.candidate_boost, ~(torrent.private /\ Sc!InHnRWindow)
      PROVE  Sc!Score(stats, p) > 0
  <2>1. Sc!CandidateBoost = Sc!CandidateBoostWeight /\ Sc!HnRVeto = 0
    BY <1>9 DEF Sc!CandidateBoost, Sc!HnRVeto
  <2> QED BY <1>1, <1>2, <1>3, <1>6, <1>7, <2>1 DEF Sc!CandidateBoostWeight
<1> QED BY <1>8, <1>9

\* The veto, for any torrent, trackers, policies and statistics: whether it holds is
\* a matter of the weights only.
THEOREM VetoHolds == Sc!VetoOutweighs => (VerdictsSpec => []VetoIsAbsolute)
<1> SUFFICES ASSUME Sc!VetoOutweighs PROVE VerdictsSpec => []VetoIsAbsolute
  OBVIOUS
<1>1. (which = "scoring" => Sc!IInv) => VetoIsAbsolute
  BY VetoIsEnough DEF VetoIsAbsolute, Sc!IInv
<1> QED BY <1>1, ScoringInvariant, PTL
-----------------------------------------------------------------------------
\* The statistics.

\* Midnights are even, in the order of their days, and not before them.
LEMMA Midnights ==
  ASSUME NEW d \in Nat
  PROVE  /\ Sn!Midnight(d) \in Nat /\ Sn!Midnight(d) % 2 = 0 /\ d <= Sn!Midnight(d)
         /\ \A e \in Nat : Sn!Midnight(e) = Sn!Midnight(d) => e = d
<1>1. DayLength \in Nat \ {0} /\ DayLength % 2 = 0
  BY SnapshotsAssumption
<1>2. PICK m \in Nat : DayLength = 2 * m
  <2>1. DayLength \div 2 \in Nat /\ DayLength = 2 * (DayLength \div 2)
    BY <1>1
  <2> QED BY <2>1
<1>3. Sn!Midnight(d) = d * DayLength
  BY DEF Sn!Midnight
<1>4. d * m \in Nat /\ d * DayLength = 2 * (d * m)
  BY <1>1, <1>2
<1>5. (d * DayLength) % 2 = 0
  <2> DEFINE n == d * m
  <2>1. n \in Nat /\ d * DayLength = 2 * n
    BY <1>4
  <2> HIDE DEF n
  <2> QED BY <2>1
<1>6. d <= d * DayLength
  <2>1. DayLength - 1 \in Nat /\ d * (DayLength - 1) \in Nat
    BY <1>1
  <2>2. d * DayLength = d * (DayLength - 1) + d
    BY <1>1
  <2> QED BY <2>1, <2>2
<1>7. ASSUME NEW e \in Nat, NEW c \in Nat, c < e PROVE c * DayLength < e * DayLength
  <2>1. PICK n \in Nat : e = c + n + 1
    <3>1. e - c - 1 \in Nat /\ e = c + (e - c - 1) + 1
      BY <1>7
    <3> QED BY <3>1
  <2>2. n * DayLength \in Nat /\ c * DayLength \in Nat
    BY <1>1
  <2>3. e * DayLength = c * DayLength + n * DayLength + DayLength
    BY <1>1, <2>1
  <2> QED BY <1>1, <2>2, <2>3
<1>8. ASSUME NEW e \in Nat, Sn!Midnight(e) = Sn!Midnight(d) PROVE e = d
  <2>1. e * DayLength = d * DayLength /\ e * DayLength \in Nat
    BY <1>1, <1>8 DEF Sn!Midnight
  <2>2. ~(e < d) /\ ~(d < e)
    BY <1>7, <2>1
  <2> QED BY <2>2
<1>9. d * DayLength \in Nat
  BY <1>1
<1> QED BY <1>3, <1>5, <1>6, <1>8, <1>9

\* The day of an instant began no later.
LEMMA DayOfInstant ==
  ASSUME NEW t \in Nat
  PROVE  Sn!Day(t) \in Nat /\ Sn!Midnight(Sn!Day(t)) <= t
<1>1. DayLength \in Nat \ {0}
  BY SnapshotsAssumption
<1>2. t \div DayLength \in Nat /\ (t \div DayLength) * DayLength <= t
  BY <1>1
<1> QED BY <1>2 DEF Sn!Day, Sn!Midnight

\* A row fewer disturbs no key.
LEMMA FewerRows ==
  ASSUME Sn!IInv, raw' \subseteq raw, DOMAIN daily' \subseteq DOMAIN daily,
         UNCHANGED <<now, polled>>
  PROVE  Sn!IInv'
  BY DEF Sn!IInv

\* The steps of the pollers and of the maintenance keep the keys.
LEMMA SnapshotsStep ==
  ASSUME Sn!IInv, Sn!Next
  PROVE  Sn!IInv'
<1>0. now \in Nat
  BY DEF Sn!IInv
<1>1. CASE Sn!Poll
  <2> DEFINE New(away, v) == {[hash |-> h, ts |-> now, seeders |-> v[h].seeders,
                               uploaded |-> counter'[h]] : h \in Sampled \ away}
  <2>1. now % 2 = 1 /\ ~polled /\ polled' = TRUE /\ now' = now /\ daily' = daily
    BY <1>1 DEF Sn!Poll
  <2>2. CASE raw' = raw
    BY <2>1, <2>2 DEF Sn!IInv
  <2>3. ASSUME NEW away, NEW v, raw' = raw \cup New(away, v)
        PROVE  Sn!IInv'
    <3> DEFINE new == New(away, v)
    <3>1. \A r \in new : r.hash \in Sampled /\ r.ts = now
      OBVIOUS
    <3>2. \A r, s \in new : r.hash = s.hash => r = s
      OBVIOUS
    <3>3. raw' = raw \cup new
      BY <2>3
    <3> HIDE DEF new
    <3>4. \A r \in raw : r.ts # now
      BY <2>1 DEF Sn!IInv
    <3>5. (\A r, s \in raw : r.hash = s.hash /\ r.ts = s.ts => r = s)'
      BY <3>1, <3>2, <3>3, <3>4 DEF Sn!IInv
    <3>6. (\A r \in raw : /\ r.hash \in Sampled /\ r.ts \in 0..now /\ r.ts % 2 = 1
                          /\ (r.ts = now => polled))'
      BY <1>0, <2>1, <3>1, <3>3 DEF Sn!IInv
    <3> QED BY <2>1, <3>5, <3>6 DEF Sn!IInv
  <2>4. PICK away \in SUBSET Leaving :
          \/ \E v \in [Sampled \ away -> UNION {Values(h) : h \in Sampled \ away}] :
               raw' = raw \cup New(away, v)
          \/ raw' = raw
    BY <1>1, Zenon DEF Sn!Poll
  <2> HIDE DEF New
  <2> QED BY <2>2, <2>3, <2>4
<1>2. CASE Sn!Downsample
  <2>1. /\ now' = now /\ polled' = polled /\ raw' \subseteq raw
        /\ \/ daily' = daily
           \/ DOMAIN daily' =
                {<<r.hash, Sn!Day(r.ts)>> : r \in {r \in raw : r.ts < now - DownsampleAge}}
                  \cup DOMAIN daily
    BY <1>2 DEF Sn!Downsample, Sn!DailyRows
  <2>2. \A k \in DOMAIN daily' : k \in Sampled \X Nat /\ Sn!Midnight(k[2]) <= now
    <3> SUFFICES ASSUME NEW r \in raw
                 PROVE  /\ <<r.hash, Sn!Day(r.ts)>> \in Sampled \X Nat
                        /\ Sn!Midnight(Sn!Day(r.ts)) <= now
      BY <2>1 DEF Sn!IInv
    <3>1. r.hash \in Sampled /\ r.ts \in Nat /\ r.ts <= now
      BY <1>0 DEF Sn!IInv
    <3>2. Sn!Day(r.ts) \in Nat /\ Sn!Midnight(Sn!Day(r.ts)) <= r.ts
      BY <3>1, DayOfInstant
    <3>3. Sn!Midnight(Sn!Day(r.ts)) \in Nat
      BY <3>2, Midnights
    <3> QED BY <1>0, <3>1, <3>2, <3>3
  <2> QED BY <2>1, <2>2 DEF Sn!IInv
<1>3. CASE Sn!EnforceRetention
  <2>1. /\ UNCHANGED <<now, polled>> /\ raw' \subseteq raw
        /\ DOMAIN daily' \subseteq DOMAIN daily
    BY <1>3 DEF Sn!EnforceRetention
  <2> QED BY <2>1, FewerRows
<1>4. ASSUME NEW gone, Sn!Evict(gone), UNCHANGED <<now, polled>>
      PROVE  Sn!IInv'
  <2>1. raw' \subseteq raw /\ DOMAIN daily' \subseteq DOMAIN daily
    BY <1>4 DEF Sn!Evict
  <2> QED BY <1>4, <2>1, FewerRows
<1>5. CASE Sn!PruneStaleTorrents
  <2>1. CASE UNCHANGED <<seen, raw, daily, history>>
    BY <1>5, <2>1, FewerRows DEF Sn!PruneStaleTorrents
  <2> QED BY <1>4, <1>5, <2>1 DEF Sn!PruneStaleTorrents
<1>6. ASSUME NEW h \in Sampled, Sn!ForgetTorrent(h) PROVE Sn!IInv'
  BY <1>4, <1>6 DEF Sn!ForgetTorrent
<1>7. CASE Sn!Tick
  <2>1. now' = now + 1 /\ polled' = FALSE /\ raw' = raw /\ daily' = daily
    BY <1>7 DEF Sn!Tick
  <2>2. \A k \in DOMAIN daily : Sn!Midnight(k[2]) \in Nat /\ Sn!Midnight(k[2]) <= now
    BY Midnights DEF Sn!IInv
  <2>3. (\A r \in raw : /\ r.hash \in Sampled /\ r.ts \in 0..now /\ r.ts % 2 = 1
                        /\ (r.ts = now => polled))'
    BY <1>0, <2>1 DEF Sn!IInv
  <2>4. (\A k \in DOMAIN daily : k \in Sampled \X Nat /\ Sn!Midnight(k[2]) <= now)'
    BY <1>0, <2>1, <2>2 DEF Sn!IInv
  <2> QED BY <1>0, <2>1, <2>3, <2>4 DEF Sn!IInv
<1> QED BY <1>1, <1>2, <1>3, <1>5, <1>6, <1>7 DEF Sn!Next

\* The rows of the samples have the keys that the schema gives them.
LEMMA SnapshotsInvariant == VerdictsSpec => [](which = "snapshots" => Sn!IInv)
<1> DEFINE I == which = "snapshots" => Sn!IInv
<1>1. VerdictsInit => I
  BY DEF VerdictsInit, Sn!Init, Sn!IInv
<1>2. I /\ [VerdictsNext]_allVars => I'
  <2> SUFFICES ASSUME I, [VerdictsNext]_allVars, which' = "snapshots" PROVE Sn!IInv'
    OBVIOUS
  <2>1. which = "snapshots" /\ Sn!IInv
    BY DEF VerdictsNext, allVars
  <2>2. CASE Sn!Next
    BY <2>1, <2>2, SnapshotsStep
  <2>3. CASE UNCHANGED allVars
    <3>1. UNCHANGED <<now, raw, daily, polled>>
      BY <2>3 DEF allVars, ofSnapshots
    <3> QED BY <2>1, <3>1, FewerRows
  <2> QED BY <2>1, <2>2, <2>3 DEF VerdictsNext
<1> QED BY <1>1, <1>2, PTL DEF VerdictsSpec

\* ORDER BY ts LIMIT 1; what bears a hash; rows with a key.
LatestOf(M) == CHOOSE p \in M : \A q \in M : q.ts <= p.ts
EarliestOf(M) == CHOOSE p \in M : \A q \in M : q.ts >= p.ts
OfHash(S, h) == {p \in S : p.hash = h}
Keyed(S, b) ==
  /\ \A p \in S : p.ts \in 0..b
  /\ \A p, q \in S : p.hash = q.hash /\ p.ts = q.ts => p = q

\* The latest of the points of a torrent, as the query of one torrent and as that of
\* all find it.
LEMMA LatestIsNewest ==
  ASSUME NEW b \in Nat, NEW S, Keyed(S, b), NEW h, OfHash(S, h) # {}
  PROVE  LET M == OfHash(S, h)
         IN  /\ LatestOf(M) \in M
             /\ {p \in M : \A q \in M : q.ts <= p.ts} = {LatestOf(M)}
             /\ OfHash(Sn!NewestOf(S), h) = {LatestOf(M)}
<1> DEFINE M == OfHash(S, h)
           T == {p.ts : p \in M}
<1>0. M = {p \in S : p.hash = h} /\ M # {}
  BY DEF OfHash
<1> HIDE DEF M
<1>1. T \in SUBSET Nat /\ T # {} /\ \A x \in T : x <= b
  BY <1>0 DEF Keyed
<1>2. PICK n \in T : \A x \in T : x <= n
  <2> HIDE DEF T
  <2> QED BY <1>1, GreatestNat
<1>3. PICK m \in M : m.ts = n
  BY <1>2
<1>4. \A q \in M : q.ts \in Nat /\ q.ts <= m.ts /\ m.ts \in Nat /\ (q.ts = m.ts => q = m)
  BY <1>0, <1>1, <1>2, <1>3 DEF Keyed
<1>5. \A p \in M : (\A q \in M : q.ts <= p.ts) <=> p = m
  BY <1>4
<1>6. LatestOf(M) = m
  BY <1>5 DEF LatestOf
<1>7. \A p \in M : (\A q \in S \ {p} : q.hash = p.hash => Sn!Newer(p, q)) <=> p = m
  <2> TAKE p \in M
  <2>1. ASSUME p = m, NEW q \in S \ {p}, q.hash = p.hash PROVE Sn!Newer(p, q)
    <3>1. q \in M
      BY <1>0, <2>1
    <3> QED BY <1>4, <2>1, <3>1 DEF Sn!Newer
  <2>2. ASSUME \A q \in S \ {p} : q.hash = p.hash => Sn!Newer(p, q), p # m PROVE FALSE
    <3>1. m \in S \ {p} /\ m.hash = p.hash
      BY <1>0, <2>2
    <3>2. p.ts <= m.ts /\ p.ts # m.ts
      BY <1>4, <2>2
    <3>3. m.ts <= p.ts
      BY <1>4, <2>2, <3>1 DEF Sn!Newer
    <3> QED BY <1>4, <3>2, <3>3
  <2> QED BY <2>1, <2>2
<1>8. OfHash(Sn!NewestOf(S), h) = {m}
  BY <1>0, <1>7 DEF OfHash, Sn!NewestOf
<1> QED BY <1>5, <1>6, <1>8 DEF M

\* And the earliest.
LEMMA EarliestIsOldest ==
  ASSUME NEW b \in Nat, NEW S, Keyed(S, b), NEW h, OfHash(S, h) # {}
  PROVE  LET M == OfHash(S, h)
         IN  /\ EarliestOf(M) \in M
             /\ OfHash(Sn!OldestOf(S), h) = {EarliestOf(M)}
<1> DEFINE M == OfHash(S, h)
           T == {p.ts : p \in M}
<1>0. M = {p \in S : p.hash = h} /\ M # {}
  BY DEF OfHash
<1> HIDE DEF M
<1>1. T \in SUBSET Nat /\ T # {}
  BY <1>0 DEF Keyed
<1>2. PICK n \in T : \A x \in T : n <= x
  <2> HIDE DEF T
  <2> QED BY <1>1, LeastNat
<1>3. PICK m \in M : m.ts = n
  BY <1>2
<1>4. \A q \in M : q.ts \in Nat /\ q.ts >= m.ts /\ m.ts \in Nat /\ (q.ts = m.ts => q = m)
  BY <1>0, <1>1, <1>2, <1>3 DEF Keyed
<1>5. \A p \in M : (\A q \in M : q.ts >= p.ts) <=> p = m
  BY <1>4
<1>6. EarliestOf(M) = m
  BY <1>5 DEF EarliestOf
<1>7. \A p \in M : (\A q \in S \ {p} : q.hash = p.hash => Sn!Newer(q, p)) <=> p = m
  <2> TAKE p \in M
  <2>1. ASSUME p = m, NEW q \in S \ {p}, q.hash = p.hash PROVE Sn!Newer(q, p)
    <3>1. q \in M
      BY <1>0, <2>1
    <3> QED BY <1>4, <2>1, <3>1 DEF Sn!Newer
  <2>2. ASSUME \A q \in S \ {p} : q.hash = p.hash => Sn!Newer(q, p), p # m PROVE FALSE
    <3>1. m \in S \ {p} /\ m.hash = p.hash
      BY <1>0, <2>2
    <3>2. p.ts >= m.ts /\ p.ts # m.ts
      BY <1>4, <2>2
    <3>3. m.ts >= p.ts
      BY <1>4, <2>2, <3>1 DEF Sn!Newer
    <3> QED BY <1>4, <3>2, <3>3
  <2> QED BY <2>1, <2>2
<1>8. OfHash(Sn!OldestOf(S), h) = {m}
  BY <1>0, <1>7 DEF OfHash, Sn!OldestOf
<1> QED BY <1>5, <1>6, <1>8 DEF M

\* Both, and no point where there is none.
LEMMA PointsByHash ==
  ASSUME NEW b \in Nat, NEW S, Keyed(S, b), NEW h
  PROVE  LET M == OfHash(S, h)
         IN  /\ OfHash(Sn!NewestOf(S), h) = IF M = {} THEN {} ELSE {LatestOf(M)}
             /\ OfHash(Sn!OldestOf(S), h) = IF M = {} THEN {} ELSE {EarliestOf(M)}
<1>1. CASE OfHash(S, h) = {}
  BY <1>1 DEF OfHash, Sn!NewestOf, Sn!OldestOf
<1>2. CASE OfHash(S, h) # {}
  BY <1>2, LatestIsNewest, EarliestIsOldest
<1> QED BY <1>1, <1>2

\* A point is known by its torrent and its instant.
LEMMA PointsAreKeyed ==
  ASSUME Sn!IInv
  PROVE  now \in Nat /\ Keyed(Sn!RawPoints \cup Sn!DayPoints, now)
<1>1. now \in Nat /\ \A r \in raw : r.ts \in 0..now /\ r.ts % 2 = 1
  BY DEF Sn!IInv
<1>2. \A k \in DOMAIN daily :
        /\ k = <<k[1], k[2]>> /\ k[2] \in Nat
        /\ Sn!Midnight(k[2]) \in 0..now /\ Sn!Midnight(k[2]) % 2 = 0
  <2> TAKE k \in DOMAIN daily
  <2>1. k \in Sampled \X Nat /\ Sn!Midnight(k[2]) <= now
    BY DEF Sn!IInv
  <2>2. k = <<k[1], k[2]>> /\ k[2] \in Nat
    BY <2>1
  <2>3. Sn!Midnight(k[2]) \in Nat /\ Sn!Midnight(k[2]) % 2 = 0
    BY <2>2, Midnights
  <2> QED BY <1>1, <2>1, <2>2, <2>3
<1> DEFINE OfRaw(r) == [hash |-> r.hash, ts |-> r.ts, uploaded |-> r.uploaded]
           OfDay(k) == [hash |-> k[1], ts |-> Sn!Midnight(k[2]), uploaded |-> daily[k].uploaded]
<1>3. \A p \in Sn!RawPoints : \E r \in raw : p = OfRaw(r)
  BY DEF Sn!RawPoints
<1>4. \A p \in Sn!DayPoints : \E k \in DOMAIN daily : p = OfDay(k)
  BY DEF Sn!DayPoints
<1>5. \A r \in raw : OfRaw(r).hash = r.hash /\ OfRaw(r).ts = r.ts
  OBVIOUS
<1>6. \A k \in DOMAIN daily : OfDay(k).hash = k[1] /\ OfDay(k).ts = Sn!Midnight(k[2])
  OBVIOUS
<1>7. \A r, s \in raw : r.hash = s.hash /\ r.ts = s.ts => OfRaw(r) = OfRaw(s)
  BY Zenon DEF Sn!IInv
<1>8. \A k, j \in DOMAIN daily :
        k[1] = j[1] /\ Sn!Midnight(k[2]) = Sn!Midnight(j[2]) => OfDay(k) = OfDay(j)
  <2> SUFFICES ASSUME NEW k \in DOMAIN daily, NEW j \in DOMAIN daily,
                      k[1] = j[1], Sn!Midnight(k[2]) = Sn!Midnight(j[2])
               PROVE  k = j
    OBVIOUS
  <2>1. k[2] = j[2]
    BY <1>2, Midnights
  <2> QED BY <1>2, <2>1
<1> HIDE DEF OfRaw, OfDay
<1>9. \A p \in Sn!RawPoints : p.ts \in 0..now /\ p.ts % 2 = 1
  BY <1>1, <1>3, <1>5
<1>10. \A p \in Sn!DayPoints : p.ts \in 0..now /\ p.ts % 2 = 0
  BY <1>2, <1>4, <1>6
<1>11. \A p, q \in Sn!RawPoints : p.hash = q.hash /\ p.ts = q.ts => p = q
  BY <1>3, <1>5, <1>7
<1>12. \A p, q \in Sn!DayPoints : p.hash = q.hash /\ p.ts = q.ts => p = q
  BY <1>4, <1>6, <1>8
<1>13. \A p \in Sn!RawPoints, q \in Sn!DayPoints : p.ts # q.ts
  <2> TAKE p \in Sn!RawPoints, q \in Sn!DayPoints
  <2>1. p.ts % 2 = 1 /\ q.ts % 2 = 0
    BY <1>9, <1>10
  <2> QED BY <2>1
<1> QED BY <1>1, <1>9, <1>10, <1>11, <1>12, <1>13 DEF Keyed

\* The two queries find the same points, so the same velocity.
LEMMA VelocitiesAgree ==
  ASSUME Sn!IInv, NEW h
  PROVE  LET points == OfHash(Sn!RawPoints \cup Sn!DayPoints, h)
             anchors == {p \in OfHash(Sn!RawPoints, h) : p.ts >= now - VelWindow} \cup
                        {p \in OfHash(Sn!DayPoints, h) : Sn!Day(p.ts) >= Sn!Day(now - VelWindow)}
         IN  /\ OfHash(Sn!NewestPoints, h) = IF points = {} THEN {} ELSE {LatestOf(points)}
             /\ OfHash(Sn!AnchorPoints, h) = IF anchors = {} THEN {} ELSE {EarliestOf(anchors)}
<1> DEFINE P == Sn!RawPoints \cup Sn!DayPoints
           A == {p \in Sn!RawPoints : p.ts >= now - VelWindow} \cup
                {p \in Sn!DayPoints : Sn!Day(p.ts) >= Sn!Day(now - VelWindow)}
           anchors == {p \in OfHash(Sn!RawPoints, h) : p.ts >= now - VelWindow} \cup
                      {p \in OfHash(Sn!DayPoints, h) : Sn!Day(p.ts) >= Sn!Day(now - VelWindow)}
<1>1. now \in Nat /\ Keyed(P, now)
  BY PointsAreKeyed
<1>2. A \subseteq P /\ anchors = OfHash(A, h)
  BY DEF OfHash
<1>3. Sn!NewestPoints = Sn!NewestOf(P) /\ Sn!AnchorPoints = Sn!OldestOf(A)
  BY DEF Sn!NewestPoints, Sn!AnchorPoints
<1> HIDE DEF P, A, anchors
<1>4. Keyed(A, now)
  BY <1>1, <1>2 DEF Keyed
<1>5. OfHash(Sn!NewestOf(P), h) = IF OfHash(P, h) = {} THEN {} ELSE {LatestOf(OfHash(P, h))}
  BY <1>1, PointsByHash
<1>6. OfHash(Sn!OldestOf(A), h) = IF anchors = {} THEN {} ELSE {EarliestOf(anchors)}
  BY <1>1, <1>2, <1>4, PointsByHash
<1> QED BY <1>3, <1>5, <1>6 DEF P, anchors

\* A choice among one.
LEMMA OnlyChoice == \A x : (CHOOSE y \in {x} : TRUE) = x
  OBVIOUS

\* What the query of one torrent answers.
LEMMA StatsOfOne ==
  ASSUME NEW h
  PROVE  LET R == OfHash(raw, h)
             D == {k[2] : k \in {k \in DOMAIN daily : k[1] = h}}
             points == OfHash(Sn!RawPoints \cup Sn!DayPoints, h)
             anchors == {p \in OfHash(Sn!RawPoints, h) : p.ts >= now - VelWindow} \cup
                        {p \in OfHash(Sn!DayPoints, h) : Sn!Day(p.ts) >= Sn!Day(now - VelWindow)}
         IN  Sn!ScoringSnapshotStats(h) =
               [seeders |-> Sn!SeedersMean(h),
                ratio |-> IF R # {} THEN Sn!Unit * LatestOf(R).uploaded
                          ELSE IF D # {} THEN daily[<<h, Sn!Max(D)>>].ratio ELSE 0,
                velocity |-> Sn!Velocity(
                  IF points = {} THEN {} ELSE {LatestOf(points)},
                  IF anchors = {} THEN {} ELSE {EarliestOf(anchors)})]
<1> DEFINE R == OfHash(raw, h)
           D == {k[2] : k \in {k \in DOMAIN daily : k[1] = h}}
           points == OfHash(Sn!RawPoints \cup Sn!DayPoints, h)
           anchors == {p \in OfHash(Sn!RawPoints, h) : p.ts >= now - VelWindow} \cup
                      {p \in OfHash(Sn!DayPoints, h) : Sn!Day(p.ts) >= Sn!Day(now - VelWindow)}
           raws == IF R = {} THEN {} ELSE {LatestOf(R)}
           velocity == Sn!Velocity(IF points = {} THEN {} ELSE {LatestOf(points)},
                                   IF anchors = {} THEN {} ELSE {EarliestOf(anchors)})
<1>1. Sn!ScoringSnapshotStats(h) =
        [seeders |-> Sn!SeedersMean(h),
         ratio |-> IF raws # {} THEN Sn!Unit * (CHOOSE r \in raws : TRUE).uploaded
                   ELSE IF D # {} THEN daily[<<h, Sn!Max(D)>>].ratio ELSE 0,
         velocity |-> velocity]
  BY Zenon DEF Sn!ScoringSnapshotStats, OfHash, LatestOf, EarliestOf
<1> HIDE DEF R, D, velocity
<1>2. (CHOOSE r \in {LatestOf(R)} : TRUE) = LatestOf(R)
  BY OnlyChoice
<1>3. CASE R = {}
  BY <1>1, <1>3 DEF velocity, R, D
<1>4. CASE R # {}
  <2>1. raws = {LatestOf(R)} /\ raws # {}
    BY <1>4
  <2> QED BY <1>1, <1>2, <1>4, <2>1 DEF velocity, R, D
<1> QED BY <1>3, <1>4

\* What the query of all the torrents answers of one of them.
LEMMA StatsOfAll ==
  LET days == {[hash |-> k[1], day |-> k[2]] : k \in DOMAIN daily}
      all == Sn!ScoringSnapshotStatsAll
  IN  /\ DOMAIN all = {x.hash : x \in raw} \cup {x.hash : x \in days}
      /\ \A h \in DOMAIN all :
           LET r == {x \in OfHash(raw, h) : \A y \in OfHash(raw, h) : y.ts <= x.ts}
               d == {x \in OfHash(days, h) : \A y \in OfHash(days, h) : y.day <= x.day}
           IN  all[h] =
                 [seeders |-> Sn!SeedersMean(h),
                  ratio |-> IF r # {} THEN Sn!Unit * (CHOOSE x \in r : TRUE).uploaded
                            ELSE daily[<<(CHOOSE x \in d : TRUE).hash,
                                         (CHOOSE x \in d : TRUE).day>>].ratio,
                  velocity |-> Sn!Velocity(OfHash(Sn!NewestPoints, h),
                                           OfHash(Sn!AnchorPoints, h))]
<1> DEFINE days == {[hash |-> k[1], day |-> k[2]] : k \in DOMAIN daily}
           Grouped(S) == [g \in {x.hash : x \in S} |-> {x \in S : x.hash = g}]
           Get(f, h) == IF h \in DOMAIN f THEN f[h] ELSE {}
           Rs(h) == {x \in Get(Grouped(raw), h) : \A y \in Grouped(raw)[h] : y.ts <= x.ts}
           Ds(h) == {x \in Get(Grouped(days), h) : \A y \in Grouped(days)[h] : y.day <= x.day}
           Stats1(h) ==
             [seeders |-> Sn!SeedersMean(h),
              ratio |-> IF Rs(h) # {} THEN Sn!Unit * (CHOOSE x \in Rs(h) : TRUE).uploaded
                        ELSE daily[<<(CHOOSE x \in Ds(h) : TRUE).hash,
                                     (CHOOSE x \in Ds(h) : TRUE).day>>].ratio,
              velocity |-> Sn!Velocity(Get(Grouped(Sn!NewestPoints), h),
                                       Get(Grouped(Sn!AnchorPoints), h))]
<1>1. Sn!ScoringSnapshotStatsAll =
        [h \in DOMAIN Grouped(raw) \cup DOMAIN Grouped(days) |-> Stats1(h)]
  BY Zenon DEF Sn!ScoringSnapshotStatsAll
<1>2. \A S : DOMAIN Grouped(S) = {x.hash : x \in S}
  OBVIOUS
<1>3. \A S, h : Get(Grouped(S), h) = OfHash(S, h)
  BY DEF OfHash
<1>4. \A S, h : h \in DOMAIN Grouped(S) => Grouped(S)[h] = OfHash(S, h)
  BY DEF OfHash
<1>5. \A S, h : OfHash(S, h) # {} => h \in DOMAIN Grouped(S)
  BY DEF OfHash
<1> HIDE DEF Grouped, Get
<1>6. \A h : Rs(h) = {x \in OfHash(raw, h) : \A y \in OfHash(raw, h) : y.ts <= x.ts}
  <2> TAKE h
  <2>1. CASE OfHash(raw, h) = {}
    BY <1>3, <2>1
  <2>2. CASE OfHash(raw, h) # {}
    BY <1>3, <1>4, <1>5, <2>2
  <2> QED BY <2>1, <2>2
<1>7. \A h : Ds(h) = {x \in OfHash(days, h) : \A y \in OfHash(days, h) : y.day <= x.day}
  <2> HIDE DEF days
  <2> TAKE h
  <2>1. CASE OfHash(days, h) = {}
    BY <1>3, <2>1
  <2>2. CASE OfHash(days, h) # {}
    BY <1>3, <1>4, <1>5, <2>2
  <2> QED BY <2>1, <2>2
<1>8. DOMAIN Sn!ScoringSnapshotStatsAll = {x.hash : x \in raw} \cup {x.hash : x \in days}
  <2>1. DOMAIN Sn!ScoringSnapshotStatsAll = DOMAIN Grouped(raw) \cup DOMAIN Grouped(days)
    BY <1>1
  <2> QED BY <1>2, <2>1
<1>9. ASSUME NEW h \in DOMAIN Sn!ScoringSnapshotStatsAll
      PROVE  Sn!ScoringSnapshotStatsAll[h] = Stats1(h)
  <2> HIDE DEF Stats1, days
  <2> QED BY <1>1, <1>9
<1>10. /\ \A h : Get(Grouped(Sn!NewestPoints), h) = OfHash(Sn!NewestPoints, h)
       /\ \A h : Get(Grouped(Sn!AnchorPoints), h) = OfHash(Sn!AnchorPoints, h)
  BY <1>3
<1> HIDE DEF Rs, Ds, days
<1> QED BY <1>6, <1>7, <1>8, <1>9, <1>10, Zenon DEF days

\* The latest ratio of a torrent that has rows is the same by both queries.
LEMMA RatiosAgree ==
  ASSUME Sn!IInv, NEW h
  PROVE  LET R == OfHash(raw, h)
             D == {k[2] : k \in {k \in DOMAIN daily : k[1] = h}}
             days == {[hash |-> k[1], day |-> k[2]] : k \in DOMAIN daily}
             r == {x \in R : \A y \in R : y.ts <= x.ts}
             d == {x \in OfHash(days, h) : \A y \in OfHash(days, h) : y.day <= x.day}
         IN  /\ R # {} => r = {LatestOf(R)}
             /\ R = {} => r = {}
             /\ OfHash(days, h) = {} <=> D = {}
             /\ D # {} => d = {[hash |-> h, day |-> Sn!Max(D)]}
<1> DEFINE R == OfHash(raw, h)
           D == {k[2] : k \in {k \in DOMAIN daily : k[1] = h}}
           days == {[hash |-> k[1], day |-> k[2]] : k \in DOMAIN daily}
<1>1. now \in Nat /\ Keyed(raw, now)
  BY DEF Sn!IInv, Keyed
<1>2. R # {} => {x \in R : \A y \in R : y.ts <= x.ts} = {LatestOf(R)}
  BY <1>1, LatestIsNewest
<1>3. \A k \in DOMAIN daily : k[2] \in Nat /\ k[2] <= now
  <2> TAKE k \in DOMAIN daily
  <2>1. k[2] \in Nat /\ Sn!Midnight(k[2]) <= now
    BY DEF Sn!IInv
  <2>2. Sn!Midnight(k[2]) \in Nat /\ k[2] <= Sn!Midnight(k[2])
    BY <2>1, Midnights
  <2> QED BY <1>1, <2>1, <2>2
<1>4. D \in SUBSET Nat /\ \A n \in D : n <= now
  BY <1>3
<1>5. OfHash(days, h) = {[hash |-> h, day |-> n] : n \in D}
  BY DEF OfHash
<1> HIDE DEF D, days, R
<1>6. ASSUME D # {}
      PROVE  {x \in OfHash(days, h) : \A y \in OfHash(days, h) : y.day <= x.day}
               = {[hash |-> h, day |-> Sn!Max(D)]}
  <2>1. \E n \in D : \A x \in D : x <= n
    BY <1>1, <1>4, <1>6, GreatestNat
  <2>2. \E n \in D : \A x \in D : n >= x
    BY <1>4, <2>1
  <2>3. Sn!Max(D) \in D /\ \A n \in D : Sn!Max(D) >= n
    BY <2>2, Zenon DEF Sn!Max
  <2> DEFINE last == Sn!Max(D)
             Row(n) == [hash |-> h, day |-> n]
  <2>4. last \in D /\ \A n \in D : last >= n
    BY <2>3
  <2> HIDE DEF last
  <2>8. \A n \in D : n <= last /\ (last <= n => n = last)
    BY <1>4, <2>4
  <2>5. \A n : Row(n).day = n
    OBVIOUS
  <2>6. OfHash(days, h) = {Row(n) : n \in D}
    BY <1>5
  <2> HIDE DEF Row
  <2>7. {x \in OfHash(days, h) : \A y \in OfHash(days, h) : y.day <= x.day} = {Row(last)}
    BY <2>4, <2>5, <2>6, <2>8
  <2> QED BY <2>7 DEF Row, last
<1>7. OfHash(days, h) = {} <=> D = {}
  BY <1>5
<1> QED BY <1>2, <1>6, <1>7, Zenon DEF R, D, days

\* A sum and a mean of nothing.
LEMMA NoRows ==
  ASSUME NEW h, OfHash(raw, h) = {}, {k \in DOMAIN daily : k[1] = h} = {}
  PROVE  Sn!SeedersMean(h) = Sn!NoMean
<1> DEFINE Of1(s) == Sn!Unit * (CHOOSE x \in s : TRUE).seeders
           Of2(s) == daily[CHOOSE k \in s : TRUE].seeders
           Is1(f) == f = [s \in SUBSET {} |-> IF s = {} THEN 0
                            ELSE Of1(s) + f[s \ {CHOOSE x \in s : TRUE}]]
           Is2(f) == f = [s \in SUBSET {} |-> IF s = {} THEN 0
                            ELSE Of2(s) + f[s \ {CHOOSE x \in s : TRUE}]]
           sum1 == CHOOSE f : Is1(f)
           sum2 == CHOOSE f : Is2(f)
           none == [s \in SUBSET {} |-> 0]
<1>1. Sn!MapThenSumSet(LAMBDA x : Sn!Unit * x.seeders, {}) = sum1[{}]
  BY Zenon DEF Sn!MapThenSumSet, Sn!MapThenFoldSet
<1>2. Sn!MapThenSumSet(LAMBDA k : daily[k].seeders, {}) = sum2[{}]
  BY Zenon DEF Sn!MapThenSumSet, Sn!MapThenFoldSet
<1>3. Is1(none) /\ Is2(none)
  OBVIOUS
<1>4. sum1[{}] = 0 /\ sum2[{}] = 0
  <2>1. \A f : Is1(f) \/ Is2(f) => f[{}] = 0
    OBVIOUS
  <2> HIDE DEF Is1, Is2, none
  <2>2. Is1(sum1) /\ Is2(sum2)
    BY <1>3, Zenon
  <2> QED BY <2>1, <2>2
<1>5. Sn!Cardinality({}) = 0
  BY FS_EmptySet DEF Sn!Cardinality
<1>6. Sn!SeedersMean(h) = <<Sn!MapThenSumSet(LAMBDA x : Sn!Unit * x.seeders, {}) +
                              Sn!MapThenSumSet(LAMBDA k : daily[k].seeders, {}),
                            Sn!Cardinality({}) + Sn!Cardinality({})>>
  <2>1. {x \in Sn!RawInWindow : x.hash = h} = {} /\ {k \in Sn!DaysInWindow : k[1] = h} = {}
    BY DEF OfHash, Sn!RawInWindow, Sn!DaysInWindow
  <2> QED BY <2>1, Zenon DEF Sn!SeedersMean
<1> HIDE DEF sum1, sum2
<1>7. Sn!SeedersMean(h) = <<sum1[{}] + sum2[{}], Sn!Cardinality({}) + Sn!Cardinality({})>>
  BY <1>1, <1>2, <1>6, Zenon
<1> QED BY <1>4, <1>5, <1>7 DEF Sn!NoMean

\* The answers about one torrent are the same, and none of all the queries is what a
\* hash without rows gets.
LEMMA AnswersAgree ==
  ASSUME Sn!IInv, NEW h
  PROVE  Sn!ScoringSnapshotStats(h) =
           IF h \in DOMAIN Sn!ScoringSnapshotStatsAll THEN Sn!ScoringSnapshotStatsAll[h]
           ELSE Sn!ZeroStats
<1> DEFINE R == OfHash(raw, h)
           D == {k[2] : k \in {k \in DOMAIN daily : k[1] = h}}
           days == {[hash |-> k[1], day |-> k[2]] : k \in DOMAIN daily}
           r == {x \in R : \A y \in R : y.ts <= x.ts}
           d == {x \in OfHash(days, h) : \A y \in OfHash(days, h) : y.day <= x.day}
           points == OfHash(Sn!RawPoints \cup Sn!DayPoints, h)
           anchors == {p \in OfHash(Sn!RawPoints, h) : p.ts >= now - VelWindow} \cup
                      {p \in OfHash(Sn!DayPoints, h) : Sn!Day(p.ts) >= Sn!Day(now - VelWindow)}
           newest == IF points = {} THEN {} ELSE {LatestOf(points)}
           anchor == IF anchors = {} THEN {} ELSE {EarliestOf(anchors)}
           all == Sn!ScoringSnapshotStatsAll
           ratio == IF R # {} THEN Sn!Unit * LatestOf(R).uploaded
                    ELSE IF D # {} THEN daily[<<h, Sn!Max(D)>>].ratio ELSE 0
<1>1. Sn!ScoringSnapshotStats(h) = [seeders |-> Sn!SeedersMean(h), ratio |-> ratio,
                                    velocity |-> Sn!Velocity(newest, anchor)]
  BY StatsOfOne
<1>2. /\ R # {} => r = {LatestOf(R)}
      /\ R = {} => r = {}
      /\ OfHash(days, h) = {} <=> D = {}
      /\ D # {} => d = {[hash |-> h, day |-> Sn!Max(D)]}
  BY RatiosAgree
<1>3. OfHash(Sn!NewestPoints, h) = newest /\ OfHash(Sn!AnchorPoints, h) = anchor
  BY VelocitiesAgree
<1>4. h \in DOMAIN all <=> R # {} \/ OfHash(days, h) # {}
  <2>1. DOMAIN all = {x.hash : x \in raw} \cup {x.hash : x \in days}
    BY StatsOfAll
  <2> HIDE DEF days, all
  <2> QED BY <2>1 DEF OfHash
<1>5. CASE h \in DOMAIN all
  <2>1. all[h] = [seeders |-> Sn!SeedersMean(h),
                  ratio |-> IF r # {} THEN Sn!Unit * (CHOOSE x \in r : TRUE).uploaded
                            ELSE daily[<<(CHOOSE x \in d : TRUE).hash,
                                         (CHOOSE x \in d : TRUE).day>>].ratio,
                  velocity |-> Sn!Velocity(newest, anchor)]
    BY <1>3, <1>5, StatsOfAll
  <2> HIDE DEF R, D, days, r, d, newest, anchor, all
  <2>2. CASE R # {}
    <3>1. r # {} /\ (CHOOSE x \in r : TRUE) = LatestOf(R)
      BY <1>2, <2>2, OnlyChoice
    <3> QED BY <1>1, <1>5, <2>1, <2>2, <3>1 DEF all
  <2>3. CASE R = {}
    <3>1. D # {} /\ r = {}
      BY <1>2, <1>4, <1>5, <2>3
    <3> DEFINE x0 == [hash |-> h, day |-> Sn!Max(D)]
    <3>2. (CHOOSE x \in d : TRUE) = x0
      <4> HIDE DEF x0
      <4>1. d = {x0}
        BY <1>2, <3>1 DEF x0
      <4> QED BY <4>1, OnlyChoice
    <3>3. x0.hash = h /\ x0.day = Sn!Max(D)
      OBVIOUS
    <3> HIDE DEF x0
    <3>4. all[h] = [seeders |-> Sn!SeedersMean(h),
                    ratio |-> daily[<<x0.hash, x0.day>>].ratio,
                    velocity |-> Sn!Velocity(newest, anchor)]
      BY <2>1, <3>1, <3>2
    <3>5. ratio = daily[<<h, Sn!Max(D)>>].ratio
      BY <2>3, <3>1
    <3> HIDE DEF ratio
    <3>6. all[h] = Sn!ScoringSnapshotStats(h)
      BY <1>1, <3>3, <3>4, <3>5
    <3> QED BY <1>5, <3>6 DEF all
  <2> QED BY <2>2, <2>3
<1>6. CASE h \notin DOMAIN all
  <2>1. R = {} /\ D = {}
    BY <1>2, <1>4, <1>6
  <2>2. {k \in DOMAIN daily : k[1] = h} = {}
    BY <2>1
  <2>3. points = {} /\ anchors = {}
    <3>1. OfHash(Sn!RawPoints, h) = {}
      BY <2>1 DEF OfHash, Sn!RawPoints
    <3>2. OfHash(Sn!DayPoints, h) = {}
      BY <2>2 DEF OfHash, Sn!DayPoints
    <3> QED BY <3>1, <3>2 DEF OfHash
  <2>4. Sn!SeedersMean(h) = Sn!NoMean
    BY <2>1, <2>2, NoRows
  <2>5. newest = {} /\ anchor = {}
    BY <2>3
  <2>6. Sn!Velocity({}, {}) = Sn!NoVelocity
    BY DEF Sn!Velocity, Sn!NoPoint
  <2>7. ratio = 0
    BY <2>1
  <2> HIDE DEF newest, anchor, ratio
  <2> QED BY <1>1, <1>6, <2>4, <2>5, <2>6, <2>7 DEF Sn!ZeroStats, all
<1> QED BY <1>5, <1>6

\* The average is not changed by what a rescore has read of its torrent.
LEMMA AveragesAgree ==
  ASSUME NEW by, NEW h, NEW one, by = [x \in DOMAIN by |-> by[x]],
         one = IF h \in DOMAIN by THEN by[h] ELSE Sn!ZeroStats
  PROVE  Sn!ComputeGlobalAvgVelocity(h, one, by) = Sn!GlobalAvgFromStats(by)
<1> DEFINE seen1 == [x \in {h} \cup DOMAIN by |-> IF x = h THEN one ELSE by[x]]
           Moving(f) == {x \in DOMAIN f : f[x].velocity # Sn!NoVelocity}
           unit == Sn!ProductSet(1..VelWindow)
           Of(f) == [x \in Moving(f) |-> (unit * f[x].velocity[1]) \div f[x].velocity[2]]
<1>1. /\ \A f : Sn!GlobalAvgFromStats(f) = <<Sn!SumFunction(Of(f)), Sn!Cardinality(Moving(f))>>
      /\ Sn!ComputeGlobalAvgVelocity(h, one, by) = Sn!GlobalAvgFromStats(seen1)
  BY DEF Sn!GlobalAvgFromStats, Sn!ComputeGlobalAvgVelocity
<1>2. CASE h \in DOMAIN by
  <2>1. seen1 = by
    BY <1>2
  <2> QED BY <1>1, <2>1
<1>3. CASE h \notin DOMAIN by
  <2>1. one.velocity = Sn!NoVelocity
    BY <1>3 DEF Sn!ZeroStats
  <2>2. DOMAIN seen1 = {h} \cup DOMAIN by /\ seen1[h] = one /\ \A x \in DOMAIN by : seen1[x] = by[x]
    BY <1>3
  <2> HIDE DEF seen1
  <2>3. Moving(seen1) = Moving(by)
    BY <2>1, <2>2
  <2>4. \A x \in Moving(by) : seen1[x] = by[x]
    BY <2>2
  <2> HIDE DEF Moving, unit
  <2>5. Of(seen1) = Of(by)
    BY <2>3, <2>4
  <2> HIDE DEF Of
  <2> QED BY <1>1, <2>3, <2>5
<1> QED BY <1>2, <1>3

\* The rescore of one torrent and the pass over all of them see the same statistics,
\* whatever the maintenance has moved from one table to the other.
THEOREM StatisticsAgree == VerdictsSpec => []StatsAgree
<1>1. Sn!IInv => Sn!StatsAgree
  <2> SUFFICES ASSUME Sn!IInv, NEW h \in Sampled
               PROVE  LET all == Sn!ScoringSnapshotStatsAll
                          one == Sn!ScoringSnapshotStats(h)
                      IN  /\ one = IF h \in DOMAIN all THEN all[h] ELSE Sn!ZeroStats
                          /\ Sn!ComputeGlobalAvgVelocity(h, one, all)
                               = Sn!GlobalAvgFromStats(all)
    BY DEF Sn!StatsAgree
  <2> DEFINE all == Sn!ScoringSnapshotStatsAll
             one == Sn!ScoringSnapshotStats(h)
  <2>1. one = IF h \in DOMAIN all THEN all[h] ELSE Sn!ZeroStats
    BY AnswersAgree
  <2>2. all = [x \in DOMAIN all |-> all[x]]
    BY DEF Sn!ScoringSnapshotStatsAll
  <2> HIDE DEF all, one
  <2>3. Sn!ComputeGlobalAvgVelocity(h, one, all) = Sn!GlobalAvgFromStats(all)
    BY <2>1, <2>2, AveragesAgree
  <2> QED BY <2>1, <2>3 DEF all, one
<1>2. (which = "snapshots" => Sn!IInv) => StatsAgree
  BY <1>1 DEF StatsAgree
<1> QED BY <1>2, SnapshotsInvariant, PTL
-----------------------------------------------------------------------------
\* The tags.

\* What the tables are compared with changes in the *arrs only.
LEMMA SameArrs ==
  ASSUME UNCHANGED <<library, onDisk, files>>
  PROVE  /\ \A f : (Ex!IsFile(f))' <=> Ex!IsFile(f)
         /\ \A h, found : (Ex!MediaAreIn(h, found))' <=> Ex!MediaAreIn(h, found)
         /\ \A h, reasons : (Ex!TagsAreIn(h, reasons))' <=> Ex!TagsAreIn(h, reasons)
<1>1. \A f : (Ex!IsFile(f))' <=> Ex!IsFile(f)
  BY DEF Ex!IsFile
<1>2. \A h, found : (Ex!MediaAreIn(h, found))' <=> Ex!MediaAreIn(h, found)
  BY DEF Ex!MediaAreIn
<1>3. \A h, reasons : (Ex!TagsAreIn(h, reasons))' <=> Ex!TagsAreIn(h, reasons)
  BY DEF Ex!TagsAreIn
<1> QED BY <1>1, <1>2, <1>3

\* When the tables have what the *arrs have, the join of a hash finds the media whose
\* present files came from it, with their tags.
LEMMA LinkedAreAll ==
  ASSUME Ex!TypeOK, \A t \in Ex!ToSet(Types) : Ex!Copied(t), NEW h
  PROVE  Ex!MediaAreIn(h, Ex!LinkedMedia(h))
<1> DEFINE came == {f \in DOMAIN imports \cap DOMAIN mediaFiles : imports[f] = h}
           keys == {<<f[1], mediaFiles[f]>> : f \in came} \cap DOMAIN media
<1>1. Ex!LinkedMedia(h) = {[type |-> m[1], tags |-> media[m]] : m \in keys}
  BY DEF Ex!LinkedMedia
<1>2. ASSUME NEW f \in DOMAIN onDisk, files[f[1]][f[2]].hash = h
      PROVE  [type |-> f[1], tags |-> library[<<f[1], onDisk[f]>>]] \in Ex!LinkedMedia(h)
  <2> DEFINE m == <<f[1], onDisk[f]>>
  <2>1. /\ f = <<f[1], f[2]>> /\ f[1] \in Ex!ToSet(Types) /\ f[2] \in 1..Len(files[f[1]])
        /\ onDisk[f] = files[f[1]][f[2]].media /\ m \in DOMAIN library
    BY DEF Ex!TypeOK, Ex!IsFile
  <2>2. f \in DOMAIN mediaFiles
    BY <2>1 DEF Ex!Copied, Ex!FilesCopied
  <2>3. f \in DOMAIN imports
    BY <2>1 DEF Ex!Copied, Ex!ImportsCopied
  <2>4. mediaFiles[f] = onDisk[f] /\ imports[f] = h
    BY <1>2, <2>1, <2>2, <2>3 DEF Ex!TypeOK
  <2>5. m \in DOMAIN media /\ media[m] = library[m]
    BY <2>1 DEF Ex!Copied, Ex!MediaCopied
  <2>6. m \in keys
    BY <2>2, <2>3, <2>4, <2>5
  <2>7. m[1] = f[1]
    OBVIOUS
  <2> HIDE DEF m, keys
  <2> QED BY <1>1, <2>5, <2>6, <2>7 DEF m
<1>3. ASSUME NEW r \in Ex!LinkedMedia(h)
      PROVE  \E n \in DOMAIN files[r.type] :
               LET m == <<r.type, files[r.type][n].media>> IN
               files[r.type][n].hash = h /\ (m \in DOMAIN library => r.tags = library[m])
  <2>1. PICK k \in keys : r = [type |-> k[1], tags |-> media[k]]
    BY <1>1
  <2>2. PICK f \in came : k = <<f[1], mediaFiles[f]>>
    OBVIOUS
  <2>3. /\ f[1] \in Ex!ToSet(Types) /\ f[2] \in 1..Len(files[f[1]])
        /\ mediaFiles[f] = files[f[1]][f[2]].media /\ imports[f] = files[f[1]][f[2]].hash
    BY DEF Ex!TypeOK, Ex!IsFile
  <2>4. r.type = f[1] /\ r.tags = media[k] /\ imports[f] = h
    BY <2>1, <2>2
  <2>5. DOMAIN files[f[1]] = 1..Len(files[f[1]])
    BY <2>3 DEF Ex!TypeOK
  <2>6. k \in DOMAIN library => media[k] = library[k]
    BY <2>2, <2>3 DEF Ex!Copied, Ex!MediaCopied
  <2> HIDE DEF came, keys
  <2> QED BY <2>2, <2>3, <2>4, <2>5, <2>6, Zenon
<1> QED BY <1>2, <1>3 DEF Ex!MediaAreIn

\* The reasons of a torrent whose media were found name the excluded tags.
LEMMA ReasonsNameTags ==
  ASSUME NEW h, NEW found, Ex!MediaAreIn(h, found)
  PROVE  Ex!TagsAreIn(h, Ex!EvaluateExclusions(h, found))
<1> DEFINE own == {<<"client", t>> :
                     t \in {t \in TorrentTags[h] : Ex!ContainsFold(QbitExclude, t)}}
           of(m) == {<<m.type, t>> :
                       t \in {t \in m.tags : Ex!ContainsFold(TagsExclude[m.type], t)}}
           reasons == Ex!EvaluateExclusions(h, found)
<1>1. reasons = own \cup UNION {of(m) : m \in found}
  BY DEF Ex!EvaluateExclusions
<1>2. ASSUME NEW f \in DOMAIN onDisk, files[f[1]][f[2]].hash = h,
             NEW tag \in library[<<f[1], onDisk[f]>>],
             Fold[tag] \in {Fold[x] : x \in TagsExclude[f[1]]}
      PROVE  <<f[1], tag>> \in reasons
  <2> DEFINE m == [type |-> f[1], tags |-> library[<<f[1], onDisk[f]>>]]
  <2>1. m \in found
    BY <1>2 DEF Ex!MediaAreIn
  <2>2. tag \in m.tags /\ m.type = f[1]
    OBVIOUS
  <2>3. Ex!ContainsFold(TagsExclude[f[1]], tag)
    BY <1>2 DEF Ex!ContainsFold
  <2>4. <<f[1], tag>> \in of(m)
    BY <2>2, <2>3
  <2> HIDE DEF m, of, own, reasons
  <2> QED BY <1>1, <2>1, <2>4
<1>3. ASSUME NEW r \in reasons, r[1] # "client"
      PROVE  \E n \in DOMAIN files[r[1]] :
               LET m == <<r[1], files[r[1]][n].media>> IN
               files[r[1]][n].hash = h /\ (m \in DOMAIN library => r[2] \in library[m])
  <2>1. r \notin own
    BY <1>3
  <2>2. PICK k \in found : r \in of(k)
    <3> HIDE DEF own, of, reasons
    <3> QED BY <1>1, <2>1
  <2>3. r[1] = k.type /\ r[2] \in k.tags
    BY <2>2
  <2>4. PICK n \in DOMAIN files[k.type] :
          LET m == <<k.type, files[k.type][n].media>> IN
          files[k.type][n].hash = h /\ (m \in DOMAIN library => k.tags = library[m])
    BY DEF Ex!MediaAreIn
  <2> HIDE DEF own, of, reasons
  <2> QED BY <2>3, <2>4
<1> HIDE DEF own, of, reasons
<1>4. Ex!TagsAreIn(h, reasons)
  BY <1>2, <1>3 DEF Ex!TagsAreIn
<1> QED BY <1>4 DEF reasons

\* Nothing is imported, and nothing has been read.
LEMMA ExclusionsInit == Ex!Init => Ex!IInv
<1> SUFFICES ASSUME Ex!Init PROVE Ex!IInv
  OBVIOUS
<1>1. /\ DOMAIN onDisk = {} /\ DOMAIN media = {} /\ DOMAIN mediaFiles = {}
      /\ DOMAIN imports = {} /\ DOMAIN listed = {} /\ DOMAIN library = Ex!Media
  BY NoFunction DEF Ex!Init
<1>2. files \in [Ex!ToSet(Types) -> Seq([media : Ids, hash : Torrents])]
  BY DEF Ex!Init
<1>3. hash \in Torrents /\ inst \in 0..Len(Types)
  BY ExclusionsAssumption DEF Ex!Init, Ex!NoHash
<1>4. /\ xpc = "idle" /\ inst = 0 /\ left = {} /\ spc = "idle" /\ rpc = "idle"
      /\ fresh = [h \in Torrents |-> FALSE] /\ clean = FALSE /\ settled = FALSE
      /\ passFresh = FALSE /\ oneFresh = FALSE /\ DOMAIN verdicts = Torrents
  BY DEF Ex!Init
<1>5. Ex!TypeOK
  BY <1>1, <1>2, <1>3, <1>4, Zenon DEF Ex!TypeOK
<1>6. Ex!ImportsFromFirst /\ Ex!TablesFollow /\ Ex!ReadsFollow /\ Ex!TagsReachVerdicts
  BY <1>1, <1>4
  DEF Ex!ImportsFromFirst, Ex!TablesFollow, Ex!ReadsFollow, Ex!TagsReachVerdicts
<1> QED BY <1>5, <1>6 DEF Ex!IInv

\* A change in an *arr ends what was settled, and the tables are still of files that
\* were imported.
LEMMA ExclusionsEdit ==
  ASSUME Ex!IInv, NEW m \in Ex!Media,
         Ex!SetTags(m) \/ Ex!Delete(m) \/ \E h \in Torrents : Ex!Import(m, h)
  PROVE  Ex!IInv'
<1>0. Ex!TypeOK /\ Ex!ImportsFromFirst
  BY DEF Ex!IInv
<1>1. /\ clean' = FALSE /\ settled' = FALSE /\ passFresh' = FALSE /\ oneFresh' = FALSE
      /\ fresh' = [h \in Torrents |-> FALSE]
      /\ UNCHANGED <<media, mediaFiles, imports, xpc, inst, listed, left, spc, linked, rpc, hash,
                     linkedOne, verdicts>>
      /\ m \in DOMAIN library
  BY Zenon DEF Ex!SetTags, Ex!Delete, Ex!Import, Ex!Edit, Ex!tables, Ex!tick
<1>2. Ex!ImportsFromFirst' /\ Ex!TablesFollow' /\ Ex!ReadsFollow' /\ Ex!TagsReachVerdicts'
  BY <1>0, <1>1
  DEF Ex!ImportsFromFirst, Ex!TablesFollow, Ex!ReadsFollow, Ex!TagsReachVerdicts
<1>3. m = <<m[1], m[2]>> /\ m[1] \in Ex!ToSet(Types) /\ m[2] \in Ids
  BY DEF Ex!Media
<1>4. /\ files \in [Ex!ToSet(Types) -> Seq([media : Ids, hash : Torrents])]
      /\ \A f \in DOMAIN onDisk :
           /\ Ex!IsFile(f) /\ onDisk[f] = files[f[1]][f[2]].media
           /\ <<f[1], onDisk[f]>> \in DOMAIN library
      /\ \A f \in DOMAIN mediaFiles :
           Ex!IsFile(f) /\ mediaFiles[f] = files[f[1]][f[2]].media
      /\ \A f \in DOMAIN imports : Ex!IsFile(f) /\ imports[f] = files[f[1]][f[2]].hash
  BY <1>0, Zenon DEF Ex!TypeOK
<1>5. ASSUME /\ files' \in [Ex!ToSet(Types) -> Seq([media : Ids, hash : Torrents])]
             /\ \A f : Ex!IsFile(f) =>
                         (Ex!IsFile(f))' /\ files'[f[1]][f[2]] = files[f[1]][f[2]],
             \A f \in DOMAIN onDisk' :
               /\ (Ex!IsFile(f))' /\ onDisk'[f] = files'[f[1]][f[2]].media
               /\ <<f[1], onDisk'[f]>> \in DOMAIN library',
             DOMAIN library' \subseteq Ex!Media
      PROVE  Ex!TypeOK'
  <2>1. \A f \in DOMAIN mediaFiles' :
           (Ex!IsFile(f))' /\ mediaFiles'[f] = files'[f[1]][f[2]].media
    BY <1>1, <1>4, <1>5
  <2>2. \A f \in DOMAIN imports' : (Ex!IsFile(f))' /\ imports'[f] = files'[f[1]][f[2]].hash
    BY <1>1, <1>4, <1>5
  <2>3. /\ DOMAIN media' \subseteq Ex!Media
        /\ xpc' \in {"idle", "list", "media", "files"} /\ inst' \in 0..Len(Types)
        /\ (xpc' = "idle" <=> inst' = 0)
        /\ (xpc' # "files" => left' = {}) /\ left' \subseteq DOMAIN listed'
        /\ DOMAIN listed' \subseteq Ex!Media
        /\ {spc', rpc'} \subseteq {"idle", "write"} /\ hash' \in Torrents
    BY <1>0, <1>1 DEF Ex!TypeOK
  <2>4. /\ fresh' \in [Torrents -> BOOLEAN] /\ clean' \in BOOLEAN /\ settled' \in BOOLEAN
        /\ passFresh' \in BOOLEAN /\ oneFresh' \in BOOLEAN
    BY <1>1, Zenon
  <2>5. DOMAIN verdicts' = Torrents
    BY <1>0, <1>1 DEF Ex!TypeOK
  <2> QED BY <1>5, <2>1, <2>2, <2>3, <2>4, <2>5, Zenon DEF Ex!TypeOK
<1>6. ASSUME files' = files
      PROVE  /\ files' \in [Ex!ToSet(Types) -> Seq([media : Ids, hash : Torrents])]
             /\ \A f : Ex!IsFile(f) =>
                         (Ex!IsFile(f))' /\ files'[f[1]][f[2]] = files[f[1]][f[2]]
  BY <1>4, <1>6, Zenon DEF Ex!IsFile
<1>7. CASE Ex!SetTags(m)
  <2>1. /\ UNCHANGED <<onDisk, files>> /\ DOMAIN library' = DOMAIN library
    BY <1>7 DEF Ex!SetTags
  <2>2. \A f \in DOMAIN onDisk' :
          /\ (Ex!IsFile(f))' /\ onDisk'[f] = files'[f[1]][f[2]].media
          /\ <<f[1], onDisk'[f]>> \in DOMAIN library'
    BY <1>4, <1>6, <2>1
  <2>3. DOMAIN library' \subseteq Ex!Media
    BY <1>0, <2>1 DEF Ex!TypeOK
  <2> QED BY <1>2, <1>5, <1>6, <2>1, <2>2, <2>3, Zenon DEF Ex!IInv
<1>8. CASE Ex!Delete(m)
  <2>1. /\ files' = files /\ DOMAIN library' = DOMAIN library \ {m}
        /\ onDisk' = [f \in {f \in DOMAIN onDisk : f[1] # m[1] \/ onDisk[f] # m[2]} |->
                        onDisk[f]]
    BY <1>8 DEF Ex!Delete
  <2>2. ASSUME NEW f \in DOMAIN onDisk'
        PROVE  /\ (Ex!IsFile(f))' /\ onDisk'[f] = files'[f[1]][f[2]].media
               /\ <<f[1], onDisk'[f]>> \in DOMAIN library'
    <3>1. /\ f \in DOMAIN onDisk /\ onDisk'[f] = onDisk[f]
          /\ f[1] # m[1] \/ onDisk[f] # m[2]
      BY <2>1
    <3>2. <<f[1], onDisk[f]>> # m
      BY <1>3, <3>1
    <3>3. Ex!IsFile(f) /\ onDisk[f] = files[f[1]][f[2]].media
          /\ <<f[1], onDisk[f]>> \in DOMAIN library
      BY <1>4, <3>1, Zenon
    <3>4. (Ex!IsFile(f))'
      BY <1>6, <2>1, <3>3
    <3> QED BY <2>1, <3>1, <3>2, <3>3, <3>4
  <2>3. DOMAIN library' \subseteq Ex!Media
    BY <1>0, <2>1 DEF Ex!TypeOK
  <2> QED BY <1>2, <1>5, <1>6, <2>1, <2>2, <2>3, Zenon DEF Ex!IInv
<1>9. ASSUME NEW h \in Torrents, Ex!Import(m, h)
      PROVE  Ex!IInv'
  <2> DEFINE t == m[1]
             k == Len(files[t]) + 1
             rec == [media |-> m[2], hash |-> h]
             its == {<<t, k>>}
             others == {f \in DOMAIN onDisk : f[1] # t \/ onDisk[f] # m[2]}
  <2>1. /\ files' = [files EXCEPT ![t] = Append(files[t], rec)] /\ library' = library
        /\ onDisk' = [f \in its \cup others |-> IF f \in its THEN m[2] ELSE onDisk[f]]
    BY <1>9 DEF Ex!Import
  <2>2. /\ t \in Ex!ToSet(Types) /\ rec \in [media : Ids, hash : Torrents]
        /\ files[t] \in Seq([media : Ids, hash : Torrents]) /\ k \in Nat \ {0}
        /\ rec.media = m[2] /\ m = <<t, m[2]>> /\ k = Len(files[t]) + 1
    <3>1. files[t] \in Seq([media : Ids, hash : Torrents])
      BY <1>3, <1>4, Zenon
    <3>2. k \in Nat \ {0} /\ k = Len(files[t]) + 1
      BY <3>1
    <3>3. rec \in [media : Ids, hash : Torrents] /\ rec.media = m[2]
      BY <1>3, <1>9
    <3>4. t \in Ex!ToSet(Types) /\ m = <<t, m[2]>>
      BY <1>3
    <3> QED BY <3>1, <3>2, <3>3, <3>4
  <2> HIDE DEF t, k, rec, others
  <2>3. /\ Append(files[t], rec) \in Seq([media : Ids, hash : Torrents])
        /\ Len(Append(files[t], rec)) = k /\ Append(files[t], rec)[k] = rec
        /\ \A n \in 1..Len(files[t]) : Append(files[t], rec)[n] = files[t][n]
    BY <2>2
  <2>4. /\ files' \in [Ex!ToSet(Types) -> Seq([media : Ids, hash : Torrents])]
        /\ files'[t] = Append(files[t], rec)
        /\ \A s \in Ex!ToSet(Types) : s # t => files'[s] = files[s]
    BY <1>4, <2>1, <2>2, <2>3, Zenon
  <2>5. ASSUME NEW f, Ex!IsFile(f)
        PROVE  (Ex!IsFile(f))' /\ files'[f[1]][f[2]] = files[f[1]][f[2]]
    <3>1. f = <<f[1], f[2]>> /\ f[1] \in Ex!ToSet(Types) /\ f[2] \in 1..Len(files[f[1]])
      BY <2>5 DEF Ex!IsFile
    <3>2. f[2] \in 1..Len(files'[f[1]]) /\ files'[f[1]][f[2]] = files[f[1]][f[2]]
      <4>1. CASE f[1] = t
        <5>1. f[2] \in 1..k
          BY <2>2, <3>1, <4>1
        <5> QED BY <2>3, <2>4, <3>1, <4>1, <5>1
      <4>2. CASE f[1] # t
        BY <2>4, <3>1, <4>2
      <4> QED BY <4>1, <4>2
    <3> QED BY <3>1, <3>2 DEF Ex!IsFile
  <2>6. ASSUME NEW f \in DOMAIN onDisk'
        PROVE  /\ (Ex!IsFile(f))' /\ onDisk'[f] = files'[f[1]][f[2]].media
               /\ <<f[1], onDisk'[f]>> \in DOMAIN library'
    <3>1. CASE f = <<t, k>>
      <4>1. onDisk'[f] = m[2] /\ f[1] = t /\ f[2] = k
        BY <2>1, <3>1
      <4>2. k \in 1..Len(files'[t]) /\ files'[t][k] = rec
        BY <2>2, <2>3, <2>4
      <4>3. (Ex!IsFile(f))'
        BY <2>2, <3>1, <4>1, <4>2 DEF Ex!IsFile
      <4> QED BY <1>1, <2>1, <2>2, <4>1, <4>2, <4>3, Zenon
    <3>2. CASE f # <<t, k>>
      <4>1. f \in DOMAIN onDisk /\ onDisk'[f] = onDisk[f]
        BY <2>1, <3>2 DEF others
      <4> QED BY <1>4, <2>1, <2>5, <4>1, Zenon
    <3> QED BY <3>1, <3>2
  <2>7. DOMAIN library' \subseteq Ex!Media
    BY <1>0, <2>1 DEF Ex!TypeOK
  <2>8. Ex!TypeOK'
    BY <1>5, <2>4, <2>5, <2>6, <2>7, Zenon
  <2> QED BY <1>2, <2>8 DEF Ex!IInv
<1> QED BY <1>7, <1>8, <1>9

\* A reader sees what a settled tick has copied, and judges by what it has read.
LEMMA ExclusionsRead ==
  ASSUME Ex!IInv,
         \/ Ex!LinkedMediaAll \/ Ex!UpsertScores \/ Ex!Persist
         \/ \E h \in Torrents : Ex!LinkedMediaForHash(h)
  PROVE  Ex!IInv'
<1>0. /\ Ex!TypeOK /\ Ex!ImportsFromFirst /\ Ex!TablesFollow /\ Ex!ReadsFollow
      /\ Ex!TagsReachVerdicts
  BY DEF Ex!IInv
<1>1. UNCHANGED <<library, onDisk, files, edits, media, mediaFiles, imports, xpc, inst, listed,
                  left, clean, settled>>
  BY DEF Ex!LinkedMediaAll, Ex!UpsertScores, Ex!Persist, Ex!LinkedMediaForHash, Ex!arrs,
         Ex!tables, Ex!tick
<1>2. /\ \A f : (Ex!IsFile(f))' <=> Ex!IsFile(f)
      /\ \A h, found : (Ex!MediaAreIn(h, found))' <=> Ex!MediaAreIn(h, found)
      /\ \A h, reasons : (Ex!TagsAreIn(h, reasons))' <=> Ex!TagsAreIn(h, reasons)
  BY <1>1, SameArrs
<1>3. Ex!ImportsFromFirst'
  BY <1>0, <1>1 DEF Ex!ImportsFromFirst
<1>4. Ex!TablesFollow'
  <2>1. /\ \A t : (Ex!Copied(t))' <=> Ex!Copied(t)
        /\ \A t : (Ex!MediaCopied(t))' <=> Ex!MediaCopied(t)
        /\ \A t, but : (Ex!FilesCopied(t, but))' <=> Ex!FilesCopied(t, but)
    BY <1>1 DEF Ex!Copied, Ex!MediaCopied, Ex!FilesCopied, Ex!ImportsCopied
  <2>2. /\ settled' => \A t \in Ex!ToSet(Types) : (Ex!Copied(t))'
        /\ (clean' \/ settled') /\ xpc' \in {"media", "files"} =>
             listed' = [m \in {m \in DOMAIN library' : m[1] = Types[inst']} |-> library'[m]]
        /\ clean' => xpc' # "idle" /\ \A k \in 1 .. inst' - 1 : (Ex!Copied(Types[k]))'
    BY <1>0, <1>1, <2>1 DEF Ex!TablesFollow
  <2>3. clean' /\ xpc' = "files" =>
          Ex!MediaCopied(Types[inst])' /\ Ex!FilesCopied(Types[inst], left)'
    BY <1>0, <1>1 DEF Ex!TablesFollow, Ex!MediaCopied, Ex!FilesCopied
  <2>4. \A k : (Ex!Copied(Types[k]))' <=> Ex!Copied(Types[k])
    BY <2>1
  <2> QED BY <2>2, <2>3 DEF Ex!TablesFollow
<1>5. ASSUME {spc', rpc'} \subseteq {"idle", "write"}, hash' \in Torrents,
             DOMAIN verdicts' = Torrents, fresh' \in [Torrents -> BOOLEAN],
             passFresh' \in BOOLEAN, oneFresh' \in BOOLEAN
      PROVE  Ex!TypeOK'
  BY <1>0, <1>1, <1>2, <1>5, Zenon DEF Ex!TypeOK
<1>6. /\ {spc, rpc} \subseteq {"idle", "write"} /\ hash \in Torrents
      /\ DOMAIN verdicts = Torrents /\ fresh \in [Torrents -> BOOLEAN]
      /\ settled \in BOOLEAN
      /\ passFresh \in BOOLEAN /\ oneFresh \in BOOLEAN
  BY <1>0 DEF Ex!TypeOK
<1>7. settled => \A h : Ex!MediaAreIn(h, Ex!LinkedMedia(h))
  BY <1>0, LinkedAreAll DEF Ex!TablesFollow
<1>8. CASE Ex!LinkedMediaAll
  <2>1. /\ spc' = "write" /\ passFresh' = settled
        /\ linked' = [h \in Torrents |-> Ex!LinkedMedia(h)]
        /\ UNCHANGED <<rpc, hash, linkedOne, oneFresh, verdicts, fresh>>
    BY <1>8 DEF Ex!LinkedMediaAll, Ex!rescore, Ex!verdict
  <2>2. Ex!TypeOK'
    BY <1>5, <1>6, <2>1
  <2>3. \A h \in Torrents : linked'[h] = Ex!LinkedMedia(h)
    BY <2>1
  <2>4. passFresh' => \A h \in Torrents : Ex!MediaAreIn(h, linked'[h])
    BY <1>7, <2>1, <2>3
  <2>5. passFresh' => spc' = "write" /\ \A h \in Torrents : (Ex!MediaAreIn(h, linked[h]))'
    BY <1>1, <2>1, <2>4 DEF Ex!MediaAreIn
  <2>6. oneFresh' => rpc' = "write" /\ (Ex!MediaAreIn(hash, linkedOne))'
    BY <1>0, <1>1, <2>1 DEF Ex!ReadsFollow, Ex!MediaAreIn
  <2>7. Ex!TagsReachVerdicts'
    BY <1>0, <1>1, <2>1 DEF Ex!TagsReachVerdicts, Ex!TagsAreIn
  <2> QED BY <1>3, <1>4, <2>2, <2>5, <2>6, <2>7 DEF Ex!IInv, Ex!ReadsFollow
<1>9. CASE Ex!UpsertScores
  <2>1. /\ spc' = "idle" /\ passFresh' = FALSE
        /\ UNCHANGED <<rpc, hash, linkedOne, oneFresh>>
        /\ \/ /\ verdicts' = [h \in Torrents |-> Ex!EvaluateExclusions(h, linked[h])]
              /\ fresh' = [h \in Torrents |-> passFresh]
           \/ UNCHANGED <<verdicts, fresh>>
    BY <1>9 DEF Ex!UpsertScores, Ex!rescore, Ex!verdict
  <2>2. Ex!TypeOK'
    BY <1>5, <1>6, <2>1, Zenon
  <2>3. Ex!ReadsFollow'
    BY <1>0, <1>1, <2>1 DEF Ex!ReadsFollow, Ex!MediaAreIn
  <2>4. ASSUME NEW h \in Torrents, fresh'[h]
        PROVE  Ex!TagsAreIn(h, verdicts'[h])
    <3>1. CASE UNCHANGED <<verdicts, fresh>>
      BY <1>0, <2>4, <3>1 DEF Ex!TagsReachVerdicts
    <3>2. CASE /\ verdicts' = [g \in Torrents |-> Ex!EvaluateExclusions(g, linked[g])]
               /\ fresh' = [g \in Torrents |-> passFresh]
      <4>1. passFresh /\ verdicts'[h] = Ex!EvaluateExclusions(h, linked[h])
        BY <2>4, <3>2
      <4>2. Ex!MediaAreIn(h, linked[h])
        BY <1>0, <4>1 DEF Ex!ReadsFollow
      <4>3. Ex!TagsAreIn(h, Ex!EvaluateExclusions(h, linked[h]))
        BY <4>2, ReasonsNameTags
      <4> QED BY <4>1, <4>3
    <3> QED BY <2>1, <3>1, <3>2
  <2>5. Ex!TagsReachVerdicts'
    BY <1>1, <2>4 DEF Ex!TagsReachVerdicts, Ex!TagsAreIn
  <2> QED BY <1>3, <1>4, <2>2, <2>3, <2>5 DEF Ex!IInv
<1>10. ASSUME NEW h \in Torrents, Ex!LinkedMediaForHash(h)
       PROVE  Ex!IInv'
  <2>1. /\ rpc' = "write" /\ oneFresh' = settled /\ hash' = h
        /\ linkedOne' = Ex!LinkedMedia(h)
        /\ UNCHANGED <<spc, linked, passFresh, verdicts, fresh>>
    BY <1>10 DEF Ex!LinkedMediaForHash, Ex!pass, Ex!verdict
  <2>2. Ex!TypeOK'
    BY <1>5, <1>6, <2>1
  <2>3. oneFresh' => Ex!MediaAreIn(hash', linkedOne')
    BY <1>7, <2>1
  <2>4. oneFresh' => rpc' = "write" /\ (Ex!MediaAreIn(hash, linkedOne))'
    BY <1>1, <2>1, <2>3 DEF Ex!MediaAreIn
  <2>5. passFresh' => spc' = "write" /\ \A g \in Torrents : (Ex!MediaAreIn(g, linked[g]))'
    BY <1>0, <1>1, <2>1 DEF Ex!ReadsFollow, Ex!MediaAreIn
  <2>6. Ex!TagsReachVerdicts'
    BY <1>0, <1>1, <2>1 DEF Ex!TagsReachVerdicts, Ex!TagsAreIn
  <2> QED BY <1>3, <1>4, <2>2, <2>4, <2>5, <2>6 DEF Ex!IInv, Ex!ReadsFollow
<1>11. CASE Ex!Persist
  <2>1. /\ rpc' = "idle" /\ oneFresh' = FALSE /\ hash' = Ex!NoHash
        /\ UNCHANGED <<spc, linked, passFresh>>
        /\ \/ /\ verdicts' = [verdicts EXCEPT ![hash] = Ex!EvaluateExclusions(hash, linkedOne)]
              /\ fresh' = [fresh EXCEPT ![hash] = oneFresh]
           \/ UNCHANGED <<verdicts, fresh>>
    BY <1>11 DEF Ex!Persist, Ex!pass, Ex!verdict
  <2>2. hash' \in Torrents
    BY <2>1, ExclusionsAssumption DEF Ex!NoHash
  <2>3. fresh' \in [Torrents -> BOOLEAN]
    BY <1>6, <2>1
  <2>4. Ex!TypeOK'
    BY <1>5, <1>6, <2>1, <2>2, <2>3, Zenon
  <2>5. Ex!ReadsFollow'
    BY <1>0, <1>1, <2>1 DEF Ex!ReadsFollow, Ex!MediaAreIn
  <2>6. ASSUME NEW h \in Torrents, fresh'[h]
        PROVE  Ex!TagsAreIn(h, verdicts'[h])
    <3>1. CASE fresh[h] /\ verdicts'[h] = verdicts[h]
      BY <1>0, <3>1 DEF Ex!TagsReachVerdicts
    <3>2. CASE oneFresh /\ h = hash /\ verdicts'[h] = Ex!EvaluateExclusions(hash, linkedOne)
      <4>1. Ex!MediaAreIn(hash, linkedOne)
        BY <1>0, <3>2 DEF Ex!ReadsFollow
      <4>2. Ex!TagsAreIn(hash, Ex!EvaluateExclusions(hash, linkedOne))
        BY <4>1, ReasonsNameTags
      <4> QED BY <3>2, <4>2
    <3>3. \/ fresh[h] /\ verdicts'[h] = verdicts[h]
          \/ oneFresh /\ h = hash /\ verdicts'[h] = Ex!EvaluateExclusions(hash, linkedOne)
      BY <1>0, <1>6, <2>1, <2>6 DEF Ex!TypeOK
    <3> QED BY <3>1, <3>2, <3>3
  <2>7. Ex!TagsReachVerdicts'
    BY <1>1, <2>6 DEF Ex!TagsReachVerdicts, Ex!TagsAreIn
  <2> QED BY <1>3, <1>4, <2>4, <2>5, <2>7 DEF Ex!IInv
<1> QED BY <1>8, <1>9, <1>10, <1>11

\* A tick copies instance by instance; what it has copied stays copied.
LEMMA ExclusionsTick ==
  ASSUME Ex!IInv,
         \/ Ex!Begin \/ Ex!ListMedia \/ Ex!UpsertMediaItems \/ Ex!SyncImports
         \/ \E m \in left : Ex!UpsertMediaFiles(m)
  PROVE  Ex!IInv'
<1>0. /\ Ex!TypeOK /\ Ex!ImportsFromFirst /\ Ex!TablesFollow /\ Ex!ReadsFollow
      /\ Ex!TagsReachVerdicts
  BY DEF Ex!IInv
<1>1. UNCHANGED <<library, onDisk, files, edits, spc, linked, passFresh, rpc, hash, linkedOne,
                  oneFresh, verdicts, fresh>>
  BY Zenon DEF Ex!Begin, Ex!ListMedia, Ex!UpsertMediaItems, Ex!SyncImports, Ex!UpsertMediaFiles,
         Ex!world, Ex!arrs, Ex!pass, Ex!rescore, Ex!verdict
<1>2. /\ \A f : (Ex!IsFile(f))' <=> Ex!IsFile(f)
      /\ \A h, found : (Ex!MediaAreIn(h, found))' <=> Ex!MediaAreIn(h, found)
      /\ \A h, reasons : (Ex!TagsAreIn(h, reasons))' <=> Ex!TagsAreIn(h, reasons)
  BY <1>1, SameArrs
<1>3. Ex!ReadsFollow' /\ Ex!TagsReachVerdicts'
  <2>1. Ex!ReadsFollow'
    BY <1>0, <1>1 DEF Ex!ReadsFollow, Ex!MediaAreIn
  <2>2. Ex!TagsReachVerdicts'
    BY <1>0, <1>1 DEF Ex!TagsReachVerdicts, Ex!TagsAreIn
  <2> QED BY <2>1, <2>2
\* What the tables have and where the tick is, as TypeOK has it.
<1> DEFINE Rows(mf, im) ==
             /\ \A f \in DOMAIN mf : Ex!IsFile(f) /\ mf[f] = files[f[1]][f[2]].media
             /\ \A f \in DOMAIN im : Ex!IsFile(f) /\ im[f] = files[f[1]][f[2]].hash
           At(p, n, l, d) ==
             /\ p \in {"idle", "list", "media", "files"} /\ n \in 0..Len(Types)
             /\ (p = "idle" <=> n = 0)
             /\ (p # "files" => l = {}) /\ l \subseteq d /\ d \subseteq Ex!Media
<1>4. /\ Rows(mediaFiles, imports) /\ At(xpc, inst, left, DOMAIN listed)
      /\ DOMAIN media \subseteq Ex!Media /\ DOMAIN library \subseteq Ex!Media
      /\ clean \in BOOLEAN /\ settled \in BOOLEAN
  BY <1>0 DEF Ex!TypeOK
<1>5. ASSUME Rows(mediaFiles', imports'), At(xpc', inst', left', DOMAIN listed'),
             DOMAIN media' \subseteq Ex!Media, clean' \in BOOLEAN, settled' \in BOOLEAN
      PROVE  Ex!TypeOK'
  <2>1. /\ files' \in [Ex!ToSet(Types) -> Seq([media : Ids, hash : Torrents])]
        /\ DOMAIN library' \subseteq Ex!Media
        /\ \A f \in DOMAIN onDisk' :
             /\ (Ex!IsFile(f))' /\ onDisk'[f] = files'[f[1]][f[2]].media
             /\ <<f[1], onDisk'[f]>> \in DOMAIN library'
        /\ {spc', rpc'} \subseteq {"idle", "write"} /\ hash' \in Torrents
        /\ DOMAIN verdicts' = Torrents /\ fresh' \in [Torrents -> BOOLEAN]
        /\ passFresh' \in BOOLEAN /\ oneFresh' \in BOOLEAN
    BY <1>0, <1>1, <1>2, Zenon DEF Ex!TypeOK
  <2>2. /\ \A f \in DOMAIN mediaFiles' :
             (Ex!IsFile(f))' /\ mediaFiles'[f] = files'[f[1]][f[2]].media
        /\ \A f \in DOMAIN imports' :
             (Ex!IsFile(f))' /\ imports'[f] = files'[f[1]][f[2]].hash
    BY <1>1, <1>2, <1>5
  <2> QED BY <1>5, <2>1, <2>2, Zenon DEF Ex!TypeOK
<1>7. xpc # "idle" => inst \in 1..Len(Types) /\ Types[inst] \in Ex!ToSet(Types)
  <2>1. Len(Types) \in Nat /\ DOMAIN Types = 1..Len(Types)
    BY ExclusionsAssumption
  <2> QED BY <1>4, <2>1 DEF Ex!ToSet
<1>8. ASSUME \A m \in DOMAIN library :
               m \in DOMAIN media /\ media[m] = library[m]
                 => m \in DOMAIN media' /\ media'[m] = library[m],
             DOMAIN mediaFiles \subseteq DOMAIN mediaFiles',
             DOMAIN imports \subseteq DOMAIN imports'
      PROVE  /\ \A t : Ex!MediaCopied(t) => (Ex!MediaCopied(t))'
             /\ \A t, but : Ex!FilesCopied(t, but) => (Ex!FilesCopied(t, but))'
             /\ \A t : Ex!ImportsCopied(t) => (Ex!ImportsCopied(t))'
             /\ \A t : Ex!Copied(t) => (Ex!Copied(t))'
  BY <1>1, <1>8 DEF Ex!Copied, Ex!MediaCopied, Ex!FilesCopied, Ex!ImportsCopied
<1>9. ASSUME UNCHANGED imports PROVE Ex!ImportsFromFirst'
  BY <1>0, <1>9 DEF Ex!ImportsFromFirst
<1>10. CASE Ex!Begin
  <2>1. /\ xpc' = "list" /\ inst' = 1 /\ clean' = TRUE /\ settled' = settled /\ xpc = "idle"
        /\ UNCHANGED <<listed, left, media, mediaFiles, imports>>
    BY <1>10 DEF Ex!Begin, Ex!tables
  <2>2. Ex!TypeOK'
    <3>1. Len(Types) \in Nat /\ Len(Types) # 0
      BY ExclusionsAssumption
    <3> QED BY <1>4, <1>5, <2>1, <3>1
  <2>3. Ex!TablesFollow'
    <3>1. settled' => \A t \in Ex!ToSet(Types) : (Ex!Copied(t))'
      BY <1>0, <1>8, <2>1 DEF Ex!TablesFollow
    <3>2. \A k \in 1 .. inst' - 1 : FALSE
      BY <2>1
    <3> QED BY <2>1, <3>1, <3>2 DEF Ex!TablesFollow
  <2> QED BY <1>3, <1>9, <2>1, <2>2, <2>3 DEF Ex!IInv
\* An instance that has failed ends what was clean.
<1>11. ASSUME Ex!EndInstance(FALSE), UNCHANGED <<media, mediaFiles, imports>>, xpc # "idle"
       PROVE  Ex!IInv'
  <2>1. /\ listed' = <<>> /\ left' = {} /\ clean' = FALSE /\ settled' = settled
        /\ \/ inst < Len(Types) /\ xpc' = "list" /\ inst' = inst + 1
           \/ xpc' = "idle" /\ inst' = 0
    BY <1>4, <1>11, Zenon DEF Ex!EndInstance
  <2>2. Ex!TypeOK'
    <3>1. DOMAIN listed' = {}
      BY <2>1, NoFunction
    <3>2. inst' \in 0..Len(Types) /\ (xpc' = "idle" <=> inst' = 0)
      BY <1>4, <2>1, ExclusionsAssumption
    <3> QED BY <1>4, <1>5, <1>11, <2>1, <3>1, <3>2, Zenon
  <2>3. Ex!TablesFollow'
    <3>1. settled' => \A t \in Ex!ToSet(Types) : (Ex!Copied(t))'
      BY <1>0, <1>8, <1>11, <2>1 DEF Ex!TablesFollow
    <3> QED BY <2>1, <3>1 DEF Ex!TablesFollow
  <2> QED BY <1>3, <1>9, <1>11, <2>2, <2>3 DEF Ex!IInv
<1>12. CASE Ex!ListMedia
  <2>1. xpc = "list" /\ UNCHANGED <<media, mediaFiles, imports>>
    BY <1>12 DEF Ex!ListMedia, Ex!tables
  <2>2. CASE Ex!EndInstance(FALSE)
    BY <1>11, <2>1, <2>2
  <2>3. CASE /\ listed' = [m \in {m \in DOMAIN library : m[1] = Types[inst]} |-> library[m]]
             /\ xpc' = "media" /\ UNCHANGED <<inst, left, clean, settled>>
    <3>1. Ex!TypeOK'
      <4>1. DOMAIN listed' \subseteq Ex!Media /\ left' = {}
        BY <1>4, <2>1, <2>3
      <4> QED BY <1>4, <1>5, <2>1, <2>3, <4>1
    <3>2. Ex!TablesFollow'
      <4>1. settled' => \A t \in Ex!ToSet(Types) : (Ex!Copied(t))'
        BY <1>0, <1>8, <2>1, <2>3 DEF Ex!TablesFollow
      <4>2. clean' => \A k \in 1 .. inst' - 1 : (Ex!Copied(Types[k]))'
        BY <1>0, <1>8, <2>1, <2>3 DEF Ex!TablesFollow
      <4>3. listed' = [m \in {m \in DOMAIN library' : m[1] = Types[inst']} |-> library'[m]]
        BY <1>1, <2>3
      <4> QED BY <2>3, <4>1, <4>2, <4>3 DEF Ex!TablesFollow, Ex!Copied, Ex!MediaCopied,
              Ex!FilesCopied, Ex!ImportsCopied
    <3> QED BY <1>3, <1>9, <2>1, <3>1, <3>2 DEF Ex!IInv
  <2> QED BY <1>12, <2>2, <2>3, Zenon DEF Ex!ListMedia
<1>13. CASE Ex!UpsertMediaItems
  <2>1. /\ xpc = "media" /\ xpc' = "files" /\ left' = DOMAIN listed
        /\ UNCHANGED <<mediaFiles, imports, inst, listed, settled>>
        /\ \/ media' = Ex!Over(listed, media) /\ clean' = clean
           \/ media' = media /\ clean' = FALSE
    BY <1>13 DEF Ex!UpsertMediaItems
  <2>2. DOMAIN media' \subseteq Ex!Media
    BY <1>4, <2>1 DEF Ex!Over
  <2>3. Ex!TypeOK'
    BY <1>4, <1>5, <2>1, <2>2, Zenon
  <2>4. CASE clean \/ settled
    <3>1. listed = [m \in {m \in DOMAIN library : m[1] = Types[inst]} |-> library[m]]
      BY <1>0, <2>1, <2>4 DEF Ex!TablesFollow
    <3>2. \A m \in DOMAIN library :
            m \in DOMAIN media /\ media[m] = library[m]
              => m \in DOMAIN media' /\ media'[m] = library[m]
      BY <2>1, <3>1 DEF Ex!Over
    <3>3. /\ \A t : Ex!MediaCopied(t) => (Ex!MediaCopied(t))'
          /\ \A t : Ex!Copied(t) => (Ex!Copied(t))'
      BY <1>8, <2>1, <3>2
    <3>4. settled' => \A t \in Ex!ToSet(Types) : (Ex!Copied(t))'
      BY <1>0, <2>1, <3>3 DEF Ex!TablesFollow
    <3>5. clean' => \A k \in 1 .. inst' - 1 : (Ex!Copied(Types[k]))'
      <4>1. clean' => \A k \in 1 .. inst' - 1 : Ex!Copied(Types[k])
        BY <1>0, <2>1, Zenon DEF Ex!TablesFollow
      <4>2. \A k : Ex!Copied(Types[k]) => (Ex!Copied(Types[k]))'
        BY <3>3
      <4> QED BY <4>1, <4>2
    <3>6. clean' => Ex!MediaCopied(Types[inst])'
      <4>1. clean' => \A m \in DOMAIN library : m[1] = Types[inst] =>
                        m \in DOMAIN media' /\ media'[m] = library[m]
        BY <2>1, <3>1 DEF Ex!Over
      <4> QED BY <1>1, <2>1, <4>1 DEF Ex!MediaCopied
    <3>7. Ex!FilesCopied(Types[inst], left)'
      <4>1. \A f \in DOMAIN onDisk : f[1] = Types[inst] =>
              <<Types[inst], onDisk[f]>> \in left'
        <5> TAKE f \in DOMAIN onDisk
        <5>1. <<f[1], onDisk[f]>> \in DOMAIN library
          BY <1>0 DEF Ex!TypeOK
        <5>2. <<f[1], onDisk[f]>>[1] = f[1]
          OBVIOUS
        <5> QED BY <2>1, <3>1, <5>1, <5>2
      <4> QED BY <1>1, <2>1, <4>1 DEF Ex!FilesCopied
    <3>8. listed' = [m \in {m \in DOMAIN library' : m[1] = Types[inst']} |-> library'[m]]
      BY <1>1, <2>1, <3>1
    <3>9. Ex!TablesFollow'
      BY <2>1, <3>4, <3>5, <3>6, <3>7, <3>8 DEF Ex!TablesFollow
    <3> QED BY <1>3, <1>9, <2>1, <2>3, <3>9 DEF Ex!IInv
  <2>5. CASE ~clean /\ ~settled
    <3>1. ~clean' /\ ~settled'
      BY <2>1, <2>5
    <3>2. Ex!TablesFollow'
      BY <3>1 DEF Ex!TablesFollow
    <3> QED BY <1>3, <1>9, <2>1, <2>3, <3>2 DEF Ex!IInv
  <2> QED BY <2>4, <2>5
<1>14. ASSUME NEW m \in left, Ex!UpsertMediaFiles(m) PROVE Ex!IInv'
  <2> DEFINE its == {f \in DOMAIN onDisk : f[1] = m[1] /\ onDisk[f] = m[2]}
             new == [f \in its |-> onDisk[f]]
  <2>1. /\ xpc = "files" /\ xpc' = "files" /\ left' = left \ {m}
        /\ UNCHANGED <<media, imports, inst, listed, settled>>
        /\ \/ mediaFiles' = Ex!Over(new, mediaFiles) /\ clean' = clean
           \/ mediaFiles' = mediaFiles /\ clean' = FALSE
    BY <1>14 DEF Ex!UpsertMediaFiles
  <2>2. Rows(mediaFiles', imports')
    <3>1. \A f \in its : Ex!IsFile(f) /\ onDisk[f] = files[f[1]][f[2]].media
      BY <1>0, Zenon DEF Ex!TypeOK
    <3>2. CASE mediaFiles' = Ex!Over(new, mediaFiles)
      <4>1. \A f \in DOMAIN mediaFiles' : Ex!IsFile(f)
                                       /\ mediaFiles'[f] = files[f[1]][f[2]].media
        <5> TAKE f \in DOMAIN mediaFiles'
        <5>1. CASE f \in its
          <6>1. mediaFiles'[f] = onDisk[f]
            BY <3>2, <5>1 DEF Ex!Over
          <6> QED BY <3>1, <5>1, <6>1
        <5>2. CASE f \notin its
          <6>1. f \in DOMAIN mediaFiles /\ mediaFiles'[f] = mediaFiles[f]
            BY <3>2, <5>2 DEF Ex!Over
          <6> QED BY <1>4, <6>1
        <5> QED BY <5>1, <5>2
      <4> QED BY <1>4, <2>1, <4>1
    <3>3. CASE mediaFiles' = mediaFiles
      BY <1>4, <2>1, <3>3
    <3> QED BY <2>1, <3>2, <3>3
  <2>3. Ex!TypeOK'
    <3>1. left' \subseteq DOMAIN listed'
      BY <1>4, <2>1
    <3> HIDE DEF Rows
    <3> QED BY <1>4, <1>5, <2>1, <2>2, <3>1, Zenon
  <2>4. DOMAIN mediaFiles \subseteq DOMAIN mediaFiles'
    BY <2>1 DEF Ex!Over
  <2>5. /\ \A t : Ex!MediaCopied(t) => (Ex!MediaCopied(t))'
        /\ \A t, but : Ex!FilesCopied(t, but) => (Ex!FilesCopied(t, but))'
        /\ \A t : Ex!Copied(t) => (Ex!Copied(t))'
    BY <1>8, <2>1, <2>4
  <2>6. Ex!TablesFollow'
    <3>1. settled' => \A t \in Ex!ToSet(Types) : (Ex!Copied(t))'
      BY <1>0, <2>1, <2>5 DEF Ex!TablesFollow
    <3>2. clean' => \A k \in 1 .. inst' - 1 : (Ex!Copied(Types[k]))'
      <4>1. clean' => \A k \in 1 .. inst' - 1 : Ex!Copied(Types[k])
        BY <1>0, <2>1, Zenon DEF Ex!TablesFollow
      <4>2. \A k : Ex!Copied(Types[k]) => (Ex!Copied(Types[k]))'
        BY <2>5
      <4> QED BY <4>1, <4>2
    <3>3. clean' => Ex!MediaCopied(Types[inst])'
      <4>1. clean' => Ex!MediaCopied(Types[inst])
        BY <1>0, <2>1, Zenon DEF Ex!TablesFollow
      <4>2. Ex!MediaCopied(Types[inst])' <=> Ex!MediaCopied(Types[inst])
        BY <1>1, <2>1 DEF Ex!MediaCopied
      <4> QED BY <4>1, <4>2
    <3>4. clean' => Ex!FilesCopied(Types[inst], left)'
      <4>1. clean' => \A f \in DOMAIN onDisk :
                        f[1] = Types[inst] /\ <<Types[inst], onDisk[f]>> \notin left \ {m}
                          => f \in DOMAIN mediaFiles'
        <5> SUFFICES ASSUME clean', NEW f \in DOMAIN onDisk, f[1] = Types[inst],
                            <<Types[inst], onDisk[f]>> \notin left \ {m}
                     PROVE  f \in DOMAIN mediaFiles'
          OBVIOUS
        <5>1. CASE <<Types[inst], onDisk[f]>> = m
          <6>1. m[1] = Types[inst] /\ m[2] = onDisk[f]
            BY <5>1
          <6>2. f \in its
            BY <6>1
          <6> QED BY <2>1, <6>2 DEF Ex!Over
        <5>2. CASE <<Types[inst], onDisk[f]>> # m
          <6>1. Ex!FilesCopied(Types[inst], left)
            BY <1>0, <2>1, Zenon DEF Ex!TablesFollow
          <6> QED BY <2>4, <5>2, <6>1 DEF Ex!FilesCopied
        <5> QED BY <5>1, <5>2
      <4> QED BY <1>1, <2>1, <4>1 DEF Ex!FilesCopied
    <3>5. clean' \/ settled' =>
            listed' = [n \in {n \in DOMAIN library' : n[1] = Types[inst']} |-> library'[n]]
      BY <1>0, <1>1, <2>1 DEF Ex!TablesFollow
    <3> QED BY <2>1, <3>1, <3>2, <3>3, <3>4, <3>5 DEF Ex!TablesFollow
  <2> QED BY <1>3, <1>9, <2>1, <2>3, <2>6 DEF Ex!IInv
<1>15. CASE Ex!SyncImports
  <2>0. PICK t : t = Types[inst]
    OBVIOUS
  <2> DEFINE stored == {0} \cup {f[2] : f \in {f \in DOMAIN imports : f[1] = t}}
             since == Ex!Max(stored)
             recs == {<<t, n>> : n \in since + 1 .. Len(files[t])}
             new == [f \in recs |-> files[t][f[2]].hash]
  <2>1. /\ xpc = "files" /\ left = {} /\ UNCHANGED <<media, mediaFiles>>
        /\ \/ imports' = Ex!Over(new, imports) /\ Ex!EndInstance(TRUE)
           \/ imports' = imports /\ Ex!EndInstance(FALSE)
    BY <1>15, <2>0, Zenon DEF Ex!SyncImports
  <2>2. /\ inst \in 1..Len(Types) /\ t \in Ex!ToSet(Types)
        /\ files[t] \in Seq([media : Ids, hash : Torrents]) /\ Len(files[t]) \in Nat
    <3>1. inst \in 1..Len(Types) /\ t \in Ex!ToSet(Types)
      BY <1>7, <2>0, <2>1
    <3>2. files \in [Ex!ToSet(Types) -> Seq([media : Ids, hash : Torrents])]
      BY <1>0, Zenon DEF Ex!TypeOK
    <3>3. files[t] \in Seq([media : Ids, hash : Torrents])
      BY <3>1, <3>2, Zenon
    <3> QED BY <3>1, <3>3
  <2>3. \A f \in DOMAIN imports : f[1] = t => f[2] \in 1..Len(files[t]) /\ f = <<t, f[2]>>
    BY <1>4 DEF Ex!IsFile
  <2>4. since \in Nat /\ (since = 0 \/ <<t, since>> \in DOMAIN imports)
    <3>1. stored \in SUBSET Nat /\ stored # {} /\ \A n \in stored : n <= Len(files[t])
      BY <2>2, <2>3
    <3>2. \A n \in stored : n = 0 \/ <<t, n>> \in DOMAIN imports
      BY <2>3
    <3> HIDE DEF stored
    <3>3. PICK n \in stored : \A k \in stored : k <= n
      BY <2>2, <3>1, GreatestNat, Zenon
    <3>4. \E x \in stored : \A k \in stored : x >= k
      BY <3>1, <3>3
    <3>5. since \in stored
      BY <3>4 DEF Ex!Max
    <3> QED BY <3>1, <3>2, <3>5
  <2> HIDE DEF since
  <2>5. CASE imports' = imports /\ Ex!EndInstance(FALSE)
    BY <1>11, <2>1, <2>5
  <2>6. CASE imports' = Ex!Over(new, imports) /\ Ex!EndInstance(TRUE)
    <3>1. /\ listed' = <<>> /\ left' = {}
          /\ clean' = (clean /\ inst < Len(Types))
          /\ settled' = (settled \/ (clean /\ inst = Len(Types)))
          /\ \/ inst < Len(Types) /\ xpc' = "list" /\ inst' = inst + 1
             \/ ~(inst < Len(Types)) /\ xpc' = "idle" /\ inst' = 0
      BY <2>6 DEF Ex!EndInstance
    <3>2. /\ DOMAIN imports' = recs \cup DOMAIN imports
          /\ \A f \in recs : imports'[f] = files[t][f[2]].hash
          /\ \A f \in DOMAIN imports \ recs : imports'[f] = imports[f]
      BY <2>6 DEF Ex!Over
    <3>3. \A f \in recs : /\ f = <<t, f[2]>> /\ f[1] = t
                          /\ f[2] \in since + 1 .. Len(files[t]) /\ f[2] \in 1..Len(files[t])
      BY <2>2, <2>4
    <3>4. \A n \in 1..Len(files[t]) : n > since => <<t, n>> \in recs
      BY <2>2, <2>4
    <3> HIDE DEF recs, new
    <3>5. Rows(mediaFiles', imports')
      <4>1. ASSUME NEW f \in DOMAIN imports'
            PROVE  Ex!IsFile(f) /\ imports'[f] = files[f[1]][f[2]].hash
        <5>1. CASE f \in recs
          <6>1. f[1] = t /\ f = <<f[1], f[2]>> /\ f[2] \in 1..Len(files[f[1]])
            BY <3>3, <5>1
          <6>2. Ex!IsFile(f)
            BY <2>2, <6>1 DEF Ex!IsFile
          <6> QED BY <3>2, <5>1, <6>1, <6>2
        <5>2. CASE f \notin recs
          BY <1>4, <3>2, <5>2
        <5> QED BY <5>1, <5>2
      <4>2. \A f \in DOMAIN mediaFiles' : Ex!IsFile(f)
                                       /\ mediaFiles'[f] = files[f[1]][f[2]].media
        BY <1>4, <2>1
      <4> QED BY <4>1, <4>2
    <3>6. Ex!TypeOK'
      <4>1. DOMAIN listed' = {}
        BY <3>1, NoFunction
      <4>2. inst' \in 0..Len(Types) /\ (xpc' = "idle" <=> inst' = 0)
        BY <2>2, <3>1
      <4> HIDE DEF Rows
      <4>3. DOMAIN media' \subseteq Ex!Media /\ clean' \in BOOLEAN /\ settled' \in BOOLEAN
        BY <1>4, <2>1, <3>1
      <4>4. At(xpc', inst', left', DOMAIN listed')
        BY <3>1, <4>1, <4>2
      <4> HIDE DEF At
      <4> QED BY <1>5, <3>5, <4>3, <4>4
    <3>7. ASSUME NEW n \in 1..Len(files[t])
          PROVE  <<t, n>> \in DOMAIN imports'
      <4>1. CASE n > since
        BY <3>2, <3>4, <4>1
      <4>2. CASE ~(n > since)
        <5>1. n \in 1..since /\ since # 0
          BY <2>2, <2>4, <4>2
        <5>2. <<t, since>> \in DOMAIN imports
          BY <2>4, <5>1
        <5>3. \A f \in DOMAIN imports : \A k \in 1..f[2] : <<f[1], k>> \in DOMAIN imports
          BY <1>0 DEF Ex!ImportsFromFirst
        <5>4. <<t, since>>[1] = t /\ <<t, since>>[2] = since
          OBVIOUS
        <5>5. <<t, n>> \in DOMAIN imports
          BY <5>1, <5>2, <5>3, <5>4
        <5> QED BY <3>2, <5>5
      <4> QED BY <4>1, <4>2
    <3>8. Ex!ImportsFromFirst'
      <4>1. ASSUME NEW f \in DOMAIN imports', NEW n \in 1..f[2]
            PROVE  <<f[1], n>> \in DOMAIN imports'
        <5>1. CASE f \in recs
          <6>1. n \in 1..Len(files[t]) /\ f[1] = t
            BY <2>2, <3>3, <5>1
          <6> QED BY <3>7, <6>1
        <5>2. CASE f \notin recs
          <6>1. f \in DOMAIN imports
            BY <3>2, <5>2
          <6>2. <<f[1], n>> \in DOMAIN imports
            BY <1>0, <6>1 DEF Ex!ImportsFromFirst
          <6> QED BY <3>2, <6>2
        <5> QED BY <5>1, <5>2
      <4> QED BY <4>1 DEF Ex!ImportsFromFirst
    <3>9. Ex!TablesFollow'
      <4>1. DOMAIN imports \subseteq DOMAIN imports'
        BY <3>2
      <4>2. \A s : Ex!Copied(s) => (Ex!Copied(s))'
        BY <1>8, <2>1, <4>1
      <4>3. clean => (Ex!Copied(t))'
        <5>1. clean => Ex!MediaCopied(t) /\ Ex!FilesCopied(t, {})
          BY <1>0, <2>0, <2>1 DEF Ex!TablesFollow
        <5>2. clean => (Ex!MediaCopied(t))' /\ (Ex!FilesCopied(t, {}))'
          BY <1>1, <2>1, <5>1 DEF Ex!MediaCopied, Ex!FilesCopied
        <5>3. (Ex!ImportsCopied(t))'
          BY <1>1, <3>7 DEF Ex!ImportsCopied
        <5> QED BY <5>2, <5>3 DEF Ex!Copied
      <4>4. clean => \A k \in 1..inst : (Ex!Copied(Types[k]))'
        <5> SUFFICES ASSUME clean, NEW k \in 1..inst PROVE (Ex!Copied(Types[k]))'
          OBVIOUS
        <5>1. CASE k = inst
          <6>1. Types[k] = t
            BY <2>0, <5>1
          <6> QED BY <4>3, <6>1
        <5>2. CASE k # inst
          <6>1. k \in 1 .. inst - 1
            BY <2>2, <5>2
          <6>2. Ex!Copied(Types[k])
            BY <1>0, <6>1 DEF Ex!TablesFollow
          <6> QED BY <4>2, <6>2
        <5> QED BY <5>1, <5>2
      <4>5. ASSUME settled' PROVE \A s \in Ex!ToSet(Types) : (Ex!Copied(s))'
        <5>1. CASE settled
          BY <1>0, <4>2, <5>1 DEF Ex!TablesFollow
        <5>2. CASE clean /\ inst = Len(Types)
          <6> TAKE s \in Ex!ToSet(Types)
          <6>1. PICK k \in 1..inst : s = Types[k]
            BY <5>2, ExclusionsAssumption DEF Ex!ToSet
          <6>2. (Ex!Copied(Types[k]))'
            BY <4>4, <5>2
          <6> QED BY <6>1, <6>2
        <5> QED BY <3>1, <4>5, <5>1, <5>2, Zenon
      <4>6. ASSUME clean'
            PROVE  xpc' # "idle" /\ \A k \in 1 .. inst' - 1 : (Ex!Copied(Types[k]))'
        <5>1. clean /\ inst' = inst + 1 /\ xpc' = "list"
          BY <3>1, <4>6, Zenon
        <5>2. inst' - 1 = inst
          BY <2>2, <5>1
        <5> QED BY <4>4, <5>1, <5>2
      <4>7. xpc' \in {"list", "idle"}
        BY <3>1
      <4> QED BY <4>5, <4>6, <4>7 DEF Ex!TablesFollow
    <3> QED BY <1>3, <3>6, <3>8, <3>9 DEF Ex!IInv
  <2> QED BY <2>1, <2>5, <2>6, Zenon
<1> QED BY <1>10, <1>12, <1>13, <1>14, <1>15

\* A tag protects: once a tick in which nothing failed has followed the last change in
\* an *arr, a torrent that is scored is excluded for every excluded tag of the media
\* whose present files came from it, and for no tag of others.
THEOREM TagsProtect == VerdictsSpec => []TagsReachVerdicts
<1> DEFINE I == which = "exclusions" => Ex!IInv
<1>1. VerdictsInit => I
  BY ExclusionsInit DEF VerdictsInit
<1>2. I /\ [VerdictsNext]_allVars => I'
  <2> SUFFICES ASSUME I, [VerdictsNext]_allVars, which' = "exclusions" PROVE Ex!IInv'
    OBVIOUS
  <2>1. which = "exclusions" /\ Ex!IInv
    BY DEF VerdictsNext, allVars
  <2>2. CASE Ex!Next
    BY <2>1, <2>2, ExclusionsEdit, ExclusionsTick, ExclusionsRead DEF Ex!Next
  <2>3. CASE UNCHANGED allVars
    <3>1. UNCHANGED <<library, onDisk, files, edits, media, mediaFiles, imports, xpc, inst,
                      listed, left, spc, linked, rpc, hash, linkedOne, verdicts, clean, settled,
                      passFresh, oneFresh, fresh>>
      BY <2>3 DEF allVars, ofExclusions
    <3>2. /\ Ex!TypeOK /\ Ex!ImportsFromFirst /\ Ex!TablesFollow /\ Ex!ReadsFollow
          /\ Ex!TagsReachVerdicts
      BY <2>1 DEF Ex!IInv
    <3>3. \A f : (Ex!IsFile(f))' <=> Ex!IsFile(f)
      BY <3>1, SameArrs
    <3>4. Ex!TypeOK'
      BY <3>1, <3>2, <3>3, Zenon DEF Ex!TypeOK
    <3>5. Ex!ImportsFromFirst'
      BY <3>1, <3>2 DEF Ex!ImportsFromFirst
    <3>6. Ex!TablesFollow'
      BY <3>1, <3>2 DEF Ex!TablesFollow, Ex!Copied, Ex!MediaCopied, Ex!FilesCopied,
                        Ex!ImportsCopied
    <3>7. Ex!ReadsFollow' /\ Ex!TagsReachVerdicts'
      <4>1. Ex!ReadsFollow'
        BY <3>1, <3>2 DEF Ex!ReadsFollow, Ex!MediaAreIn
      <4>2. Ex!TagsReachVerdicts'
        BY <3>1, <3>2 DEF Ex!TagsReachVerdicts, Ex!TagsAreIn
      <4> QED BY <4>1, <4>2
    <3> QED BY <3>4, <3>5, <3>6, <3>7 DEF Ex!IInv
  <2> QED BY <2>1, <2>2, <2>3 DEF VerdictsNext
<1>3. I => TagsReachVerdicts
  BY DEF Ex!IInv, TagsReachVerdicts
<1> HIDE DEF I
<1> QED BY <1>1, <1>2, <1>3, PTL DEF VerdictsSpec
=============================================================================
