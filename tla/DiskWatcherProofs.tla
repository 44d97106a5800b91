-------------------------- MODULE DiskWatcherProofs --------------------------
(***************************************************************************)
(* Proofs about DiskWatcher for any volume, library, threshold and target, *)
(* and any durations: type correctness, the spacing of the alerts, and,    *)
(* when the grace outlasts a sample and a run, that no run deletes beyond  *)
(* the target.                                                             *)
(***************************************************************************)
EXTENDS DiskWatcher, SumsProofs

\* What the proofs use of the constants.
LEMMA Consts ==
  /\ Total \in Nat /\ Threshold \in Nat /\ Target \in Nat /\ Grace \in Nat /\ Reminder \in Nat
  /\ SampleMax \in Nat /\ RunMax \in Nat /\ MaxOthers \in Nat /\ MaxFreed \in Nat
  /\ Grace > 0 /\ Reminder > 0 /\ Libraries \subseteq Seq(1..Total)
  BY ConstantsAssumption

\* The sizes of the candidates are numbers.
LEMMA LibraryFacts ==
  ASSUME TypeOK
  PROVE  /\ library \in Seq(1..Total) /\ library \in Seq(Nat) /\ Len(library) \in Nat
         /\ \A k \in 1..Len(library) : library[k] \in 1..Total /\ library[k] \in Nat
         /\ \A n \in 0..Len(library) : RunningTotal(library)[n] \in Nat
         /\ SumOf(library) \in Nat
<1>1. library \in Seq(1..Total) /\ 1..Total \subseteq Nat
  BY Consts DEF TypeOK
<1>2. /\ library \in Seq(Nat) /\ Len(library) \in Nat
      /\ \A k \in 1..Len(library) : library[k] \in 1..Total /\ library[k] \in Nat
  <2> DEFINE S == 1..Total
  <2>1. library \in Seq(S)
    BY <1>1
  <2> HIDE DEF S
  <2>2. Len(library) \in Nat /\ \A k \in 1..Len(library) : library[k] \in S
    BY <2>1
  <2>3. library = [k \in 1..Len(library) |-> library[k]]
    BY <2>1
  <2>4. \A k \in 1..Len(library) : library[k] \in Nat
    BY <1>1, <2>2 DEF S
  <2> QED BY <2>2, <2>3, <2>4 DEF S
<1>3. \A n \in 0..Len(library) : RunningTotal(library)[n] \in Nat
  BY <1>2, TotalIsNat
<1> QED BY <1>1, <1>2, <1>3 DEF SumOf

\* A candidate that is reaped becomes free space, and leaves the totals,
\* whichever it is.
LEMMA ReapFacts ==
  ASSUME TypeOK, NEW i \in 1..Len(library), library' = RemoveAt(library, i)
  PROVE  /\ library' \in Seq(1..Total) /\ Len(library') = Len(library) - 1
         /\ SumOf(library') = SumOf(library) - library[i]
         /\ \A n \in 0..(Len(library) - 1) :
              RunningTotal(library')[n] =
                IF n < i THEN RunningTotal(library)[n]
                ELSE RunningTotal(library)[n + 1] - library[i]
<1>1. i \in Nat /\ Len(library) \in Nat
  BY LibraryFacts
<1>2. library' \in Seq(1..Total) /\ Len(library') = Len(library) - 1
  BY <1>1, LibraryFacts, Removal
<1>3. \A n \in 0..(Len(library) - 1) :
        RunningTotal(library')[n] =
          IF n < i THEN RunningTotal(library)[n]
          ELSE RunningTotal(library)[n + 1] - library[i]
  BY <1>1, LibraryFacts, TotalOfRemoval
<1>4. SumOf(library') = SumOf(library) - library[i]
  <2>1. Len(library') \in 0..(Len(library) - 1) /\ Len(library') + 1 = Len(library)
    BY <1>1, <1>2, LibraryFacts
  <2>2. i \in Nat /\ Len(library) \in Nat
    BY <1>1, LibraryFacts
  <2>3. CASE Len(library') < i
    <3>1. i = Len(library)
      BY <1>1, <1>2, <2>3
    <3>2. RunningTotal(library)[Len(library)]
            = RunningTotal(library)[Len(library')] + library[i]
      <4>1. Len(library) \in 1..Len(library) /\ Len(library) - 1 = Len(library')
        BY <1>1, <1>2
      <4> QED BY <3>1, <4>1, LibraryFacts, TotalStep
    <3>3. RunningTotal(library)[Len(library')] \in Nat /\ library[i] \in Nat
      BY <1>1, <2>1, LibraryFacts
    <3> QED BY <1>3, <2>1, <2>3, <3>2, <3>3 DEF SumOf
  <2>4. CASE ~(Len(library') < i)
    BY <1>3, <2>1, <2>4 DEF SumOf
  <2> QED BY <2>3, <2>4
<1> QED BY <1>1, <1>2, <1>3, <1>4

\* What it gives to the free space is its own size: the volume stays of its size.
LEMMA VolumeKept ==
  ASSUME TypeOK, NEW i \in 1..Len(library),
         free' = free + library[i], library' = RemoveAt(library, i)
  PROVE  /\ library' \in Seq(1..Total) /\ Len(library') = Len(library) - 1
         /\ free' \in 0..Total /\ free' + SumOf(library') <= Total
<1>1. /\ library' \in Seq(1..Total) /\ Len(library') = Len(library) - 1
      /\ SumOf(library') = SumOf(library) - library[i]
  BY ReapFacts
<1>2. library[i] \in Nat /\ SumOf(library) \in Nat
  BY LibraryFacts
<1>3. SumOf(library') \in Nat
  <2>1. library' \in Seq(Nat) /\ Len(library') \in 0..Len(library')
    <3> DEFINE S == 1..Total
    <3>1. library' \in Seq(S) /\ S \subseteq Nat
      BY <1>1, Consts
    <3> HIDE DEF S
    <3>2. Len(library') \in Nat /\ \A k \in 1..Len(library') : library'[k] \in S
      BY <3>1
    <3>3. library' = [k \in 1..Len(library') |-> library'[k]]
      BY <3>1
    <3>4. \A k \in 1..Len(library') : library'[k] \in Nat
      BY <3>1, <3>2
    <3> QED BY <3>2, <3>3, <3>4
  <2> QED BY <2>1, TotalIsNat DEF SumOf
<1>4. free \in 0..Total /\ free + SumOf(library) <= Total /\ Total \in Nat
  BY Consts DEF TypeOK
<1>5. free' + SumOf(library') = free + SumOf(library) /\ free' \in Nat
  BY <1>1, <1>2, <1>4
<1> QED BY <1>1, <1>3, <1>4, <1>5

\* The plan: the fewest candidates that are enough, or all of them.
LEMMA PlanFacts ==
  ASSUME TypeOK, Plan, pc' = "execute"
  PROVE  /\ kept' = 0 /\ short' \in BOOLEAN
         /\ \E n \in 0..Len(library) :
              todo' = n /\ (n > 0 => RunningTotal(library)[n - 1] < NeededBytes(sample))
<1> DEFINE need == NeededBytes(sample)
           enough == {n \in 0..Len(library) : RunningTotal(library)[n] >= need}
<1>1. need \in Nat
  BY Consts DEF NeededBytes, TypeOK
<1>2. /\ short' = (enough = {}) /\ kept' = 0
      /\ todo' = IF enough = {} THEN Len(library)
                 ELSE CHOOSE n \in enough : \A m \in enough : n <= m
  BY DEF Plan
<1>3. \A n \in 0..Len(library) : n \in enough \/ RunningTotal(library)[n] < need
  BY <1>1, LibraryFacts
<1>4. enough \in SUBSET Nat /\ enough \subseteq 0..Len(library)
  BY LibraryFacts
<1> HIDE DEF enough, need
<1>5. PICK n \in 0..Len(library) : todo' = n /\ (n > 0 => n - 1 \notin enough)
  <2>1. CASE enough = {}
    <3>1. todo' = Len(library) /\ Len(library) \in 0..Len(library)
      BY <1>2, <2>1, LibraryFacts
    <3> QED BY <2>1, <3>1
  <2>2. CASE enough # {}
    <3>1. PICK n \in enough : \A m \in enough : n <= m
      BY <1>4, <2>2, LeastNat
    <3>2. todo' \in enough /\ \A m \in enough : todo' <= m
      BY <1>2, <2>2, <3>1
    <3>3. PICK k \in enough : k = todo'
      BY <3>2
    <3>4. k \in 0..Len(library) /\ \A m \in enough : k <= m
      BY <1>4, <3>2, <3>3
    <3>5. k - 1 \notin enough
      BY <1>4, <3>4
    <3> QED BY <3>3, <3>4, <3>5
  <2> QED BY <2>1, <2>2
<1>6. n > 0 => n - 1 \in 0..Len(library)
  BY LibraryFacts
<1> QED BY <1>2, <1>3, <1>5, <1>6 DEF need

\* The volume is of its size, and nothing has been sampled or planned.
LEMMA InitIInv == Init => IInv
<1> SUFFICES ASSUME Init PROVE IInv
  OBVIOUS
<1>1. TypeOK
  <2>1. /\ free \in 0..Total /\ library \in Libraries /\ free + SumOf(library) <= Total
    BY DEF Init
  <2>2. library \in Seq(1..Total)
    BY <2>1, Consts
  <2>3. 0 + 0 <= Len(library)
    BY <2>2
  <2>4. /\ sampled \in BOOLEAN /\ firing \in BOOLEAN /\ short \in BOOLEAN /\ busy \in BOOLEAN
        /\ marked \in BOOLEAN /\ {excused, lost} \subseteq BOOLEAN
    BY DEF Init
  <2>5. /\ sample \in 0..Total /\ sampleAge \in 0..SampleMax /\ tickAge \in 0..RunMax
        /\ others \in 0..MaxOthers /\ markAge \in 0..Reminder /\ quiet \in 0..Reminder
        /\ freed \in 0..MaxFreed
        /\ age \in 0..Grace \cup 0..RunMax
    BY Consts DEF Init
  <2>6. /\ todo \in Nat /\ kept \in Nat /\ kept + todo <= Len(library)
        /\ pc \in {"idle", "lock", "plan", "execute", "alert"}
    BY <2>3 DEF Init
  <2> QED BY <2>1, <2>2, <2>4, <2>5, <2>6 DEF TypeOK
<1>2. SlotOK /\ SampleOK /\ PlanOK
  BY DEF Init, SlotOK, SampleOK, PlanOK, Under
<1>3. ThrottleOK
  BY Consts DEF Init, ThrottleOK
<1> QED BY <1>1, <1>2, <1>3 DEF IInv

\* Every step keeps the types, and the size of the volume.
LEMMA StepTypeOK == TypeOK /\ SlotOK /\ [Next]_vars => TypeOK'
<1> SUFFICES ASSUME TypeOK, SlotOK, [Next]_vars PROVE TypeOK'
  OBVIOUS
<1> USE Consts DEF volume, disk, watcher, work, slot, throttle, history
<1>1. CASE Tick
  <2>1. firing' \in BOOLEAN /\ excused' \in BOOLEAN
    BY <1>1 DEF Tick, TypeOK, Under
  <2>2. tickAge' \in 0..RunMax /\ pc' \in {"idle", "lock"}
    BY <1>1 DEF Tick
  <2> QED BY <1>1, <2>1, <2>2 DEF Tick, TypeOK
<1>2. CASE Lock
  BY <1>2 DEF Lock, TypeOK
<1>3. CASE Plan
  <2>1. CASE pc' = "execute"
    <3>1. /\ kept' = 0 /\ short' \in BOOLEAN
          /\ \E n \in 0..Len(library) : todo' = n
      BY <1>3, <2>1, PlanFacts
    <3>2. todo' \in Nat /\ kept' \in Nat /\ kept' + todo' <= Len(library)
      BY <3>1, LibraryFacts
    <3>3. UNCHANGED <<volume, disk, firing, age, tickAge, slot, throttle, history>>
      BY <1>3 DEF Plan
    <3> QED BY <2>1, <3>1, <3>2, <3>3 DEF TypeOK
  <2>2. CASE pc' # "execute"
    BY <1>3, <2>2 DEF Plan, TypeOK
  <2> QED BY <2>1, <2>2
<1>4. CASE Reap
  <2>1. CASE /\ free' = free + library[kept + 1] /\ kept' = kept
             /\ library' = RemoveAt(library, kept + 1)
    <3>1. kept + 1 \in 1..Len(library)
      BY <1>4, LibraryFacts DEF Reap, TypeOK
    <3>2. /\ library' \in Seq(1..Total) /\ Len(library') = Len(library) - 1
          /\ free' \in 0..Total /\ free' + SumOf(library') <= Total
      BY <2>1, <3>1, VolumeKept
    <3>3. todo' \in Nat /\ kept' \in Nat /\ kept' + todo' <= Len(library')
      BY <1>4, <2>1, <3>2, LibraryFacts DEF Reap, TypeOK
    <3> QED BY <1>4, <3>2, <3>3 DEF Reap, TypeOK
  <2>2. CASE kept' = kept + 1 /\ UNCHANGED volume
    BY <1>4, <2>2 DEF Reap, TypeOK
  <2> QED BY <1>4, <2>1, <2>2 DEF Reap
<1>5. CASE ExecuteDone
  BY <1>5 DEF ExecuteDone, TypeOK
<1>6. CASE Alert
  <2>1. marked' \in BOOLEAN /\ excused' \in BOOLEAN
    BY <1>6 DEF Alert, TypeOK
  <2>2. markAge' \in 0..Reminder /\ quiet' \in 0..Reminder
    BY <1>6 DEF Alert, TypeOK
  <2>3. age' \in 0..RunMax
    BY <1>6 DEF Alert, TypeOK
  <2> QED BY <1>6, <2>1, <2>2 DEF Alert, TypeOK
<1>7. CASE Sample
  BY <1>7 DEF Sample, TypeOK
<1>8. CASE Download
  <2>1. /\ library' \in Seq(1..Total) /\ Len(library') = Len(library) + 1
        /\ SumOf(library') = SumOf(library) + 1
    <3>1. 1 \in 1..Total
      BY <1>8 DEF Download, TypeOK
    <3>2. library \in Seq(1..Total) /\ library \in Seq(Nat)
      BY LibraryFacts
    <3>3. SumOf(Append(library, 1)) = SumOf(library) + 1
      BY <3>2, TotalOfAppend
    <3> QED BY <1>8, <3>1, <3>2, <3>3 DEF Download
  <2>2. SumOf(library) \in Nat /\ Len(library) \in Nat
    BY LibraryFacts
  <2> QED BY <1>8, <2>1, <2>2 DEF Download, TypeOK
<1>9. CASE OtherTakes \/ OtherReaps \/ OtherLeaves \/ UserFrees
  <2>1. CASE OtherReaps
    <3>1. PICK n \in 1..Len(library) :
            /\ freed + library[n] <= MaxFreed /\ freed' = freed + library[n]
            /\ free' = free + library[n] /\ library' = RemoveAt(library, n)
      BY <2>1 DEF OtherReaps
    <3>2. /\ library' \in Seq(1..Total)
          /\ free' \in 0..Total /\ free' + SumOf(library') <= Total
      BY <3>1, VolumeKept
    <3>3. freed' \in 0..MaxFreed
      <4>1. library[n] \in Nat /\ freed \in Nat
        BY <3>1, LibraryFacts DEF TypeOK
      <4> QED BY <3>1, <4>1
    <3>4. pc' = pc /\ pc # "execute"
      BY <2>1 DEF OtherReaps, SlotOK
    <3> QED BY <2>1, <3>2, <3>3, <3>4 DEF OtherReaps, TypeOK
  <2>2. CASE UserFrees
    <3>1. free' = free + 1 /\ freed' = freed + 1 /\ library' = library
      BY <2>2 DEF UserFrees
    <3>2. SumOf(library) \in Nat /\ SumOf(library') = SumOf(library)
      BY <3>1, LibraryFacts
    <3>3. free' \in 0..Total /\ free' + SumOf(library') <= Total /\ freed' \in 0..MaxFreed
      BY <2>2, <3>1, <3>2 DEF UserFrees, TypeOK
    <3> QED BY <2>2, <3>1, <3>3 DEF UserFrees, TypeOK
  <2>3. CASE OtherTakes \/ OtherLeaves
    <3>1. others' \in 0..MaxOthers /\ busy' \in BOOLEAN
      <4>1. others \in 0..MaxOthers /\ (others < MaxOthers => others + 1 \in 0..MaxOthers)
        BY DEF TypeOK
      <4> QED BY <2>3, <4>1 DEF OtherTakes, OtherLeaves
    <3>2. UNCHANGED <<volume, disk, watcher, work, throttle, history>>
      BY <2>3 DEF OtherTakes, OtherLeaves
    <3> QED BY <3>1, <3>2 DEF TypeOK
  <2> QED BY <1>9, <2>1, <2>2, <2>3
<1>10. CASE Reload
  <2>1. /\ firing' \in BOOLEAN /\ lost' \in BOOLEAN /\ age' \in 0..Grace \cup 0..RunMax
    <3>1. firing' = FALSE /\ lost' = TRUE /\ age' = Grace
      BY <1>10 DEF Reload
    <3>2. Grace \in 0..Grace
      OBVIOUS
    <3> QED BY <3>1, <3>2
  <2>2. UNCHANGED <<volume, disk, pc, tickAge, work, slot, throttle, quiet, excused, freed>>
    BY <1>10 DEF Reload
  <2> QED BY <2>1, <2>2 DEF TypeOK
<1>11. CASE Advance
  <2>1. /\ sampled \in BOOLEAN /\ sampleAge \in 0..SampleMax /\ age \in 0..Grace \cup 0..RunMax
        /\ tickAge \in 0..RunMax /\ marked \in BOOLEAN /\ markAge \in 0..Reminder
        /\ quiet \in 0..Reminder
    BY DEF TypeOK
  <2>2. sampleAge' \in 0..SampleMax /\ tickAge' \in 0..RunMax
    BY <1>11, <2>1 DEF Advance
  <2>3. age' \in 0..Grace \cup 0..RunMax
    BY <1>11, <2>1 DEF Advance, Capped
  <2>4. markAge' \in 0..Reminder /\ quiet' \in 0..Reminder
    BY <1>11, <2>1 DEF Advance, Capped
  <2> QED BY <1>11, <2>2, <2>3, <2>4 DEF Advance, TypeOK
<1>12. CASE UNCHANGED vars
  BY <1>12 DEF vars, TypeOK
<1> QED
  BY <1>1, <1>2, <1>3, <1>4, <1>5, <1>6, <1>7, <1>8, <1>9, <1>10, <1>11, <1>12
  DEF Next, WatcherStep

\* Another run has the slot only while the watcher does not.
LEMMA SlotOKStep == SlotOK /\ [Next]_vars => SlotOK'
  BY DEF SlotOK, Next, WatcherStep, Tick, Lock, Plan, Reap, ExecuteDone, Alert, Sample, Download,
     OtherTakes, OtherReaps, OtherLeaves, UserFrees, Reload, Advance, vars, watcher, slot

\* A fire plans on a sample that no earlier fire has made out of date.
LEMMA SampleOKStep ==
  ASSUME GraceCoversRun
  PROVE  TypeOK /\ SampleOK /\ [Next]_vars => SampleOK'
<1> SUFFICES ASSUME TypeOK, SampleOK, [Next]_vars PROVE SampleOK'
  OBVIOUS
<1> USE DEF volume, disk, watcher, work, slot, throttle, history
<1> /\ free \in Nat /\ sample \in Nat /\ age \in Nat /\ sampleAge \in Nat /\ RunMax \in Nat
    /\ tickAge \in Nat /\ SampleMax \in Nat /\ Grace \in Nat /\ Threshold \in Nat
    /\ freed \in Nat /\ tickAge <= RunMax /\ sampleAge <= SampleMax
  BY Consts DEF TypeOK
<1>1. CASE Tick
  <2>1. CASE Fires
    <3>1. sampled /\ Under /\ pc = "idle" /\ (~firing \/ age >= Grace)
      BY <1>1, <2>1 DEF Tick, Fires, Under
    <3>2. free <= sample + freed \/ lost
      BY <3>1 DEF SampleOK, GraceCoversRun
    <3>3. /\ pc' = "lock" /\ firing' /\ sampled' /\ free' = free /\ sample' = sample /\ lost' = lost
          /\ freed' = freed
      BY <1>1, <2>1, <3>1 DEF Tick
    <3> QED BY <3>2, <3>3 DEF SampleOK
  <2>2. CASE ~Fires
    <3>1. pc' = "idle" /\ (Under' => firing')
      BY <1>1, <2>2 DEF Tick, Under
    <3> QED BY <1>1, <3>1 DEF Tick, SampleOK
  <2> QED BY <2>1, <2>2
<1>2. CASE Lock
  BY <1>2 DEF Lock, SampleOK
<1>3. CASE Plan
  BY <1>3 DEF Plan, SampleOK
<1>4. CASE Reap
  BY <1>4 DEF Reap, SampleOK
<1>5. CASE ExecuteDone
  BY <1>5 DEF ExecuteDone, SampleOK
<1>6. CASE Alert
  <2>1. /\ pc = "alert" /\ pc' = "idle" /\ age' = tickAge
        /\ UNCHANGED <<volume, disk, firing, lost, freed>>
    BY <1>6 DEF Alert
  <2> QED BY <2>1 DEF SampleOK
<1>7. CASE Sample
  BY <1>7 DEF Sample, SampleOK
<1>8. CASE Download
  BY <1>8 DEF Download, SampleOK, Under
<1>9. CASE OtherTakes \/ OtherReaps \/ OtherLeaves \/ UserFrees
  <2>1. CASE OtherTakes \/ OtherLeaves
    BY <2>1 DEF OtherTakes, OtherLeaves, SampleOK, Under
  <2>2. ASSUME NEW n \in Nat, free' = free + n, freed' = freed + n,
               UNCHANGED <<disk, watcher, lost>>
        PROVE  SampleOK'
    BY <2>2 DEF SampleOK, Under
  <2>3. CASE OtherReaps
    BY <2>2, <2>3, LibraryFacts DEF OtherReaps
  <2>4. CASE UserFrees
    BY <2>2, <2>4 DEF UserFrees
  <2> QED BY <1>9, <2>1, <2>3, <2>4
<1>10. CASE Reload
  BY <1>10 DEF Reload, SampleOK
<1>11. CASE Advance
  <2>1. /\ UNCHANGED <<volume, sampled, sample, pc, firing, lost, freed>>
        /\ sampled => sampleAge' = sampleAge + 1
        /\ age' <= age + 1 /\ age' \in Nat
    BY <1>11 DEF Advance, Capped
  <2> QED BY <2>1 DEF SampleOK, Under
<1>12. CASE UNCHANGED vars
  BY <1>12 DEF vars, SampleOK, Under
<1> QED
  BY <1>1, <1>2, <1>3, <1>4, <1>5, <1>6, <1>7, <1>8, <1>9, <1>10, <1>11, <1>12
  DEF Next, WatcherStep

\* The items that are left do not reach the target but for the last of them.
LEMMA PlanOKStep == TypeOK /\ SlotOK /\ SampleOK /\ PlanOK /\ [Next]_vars => PlanOK'
<1> SUFFICES ASSUME TypeOK, SlotOK, SampleOK, PlanOK, [Next]_vars,
                    pc' = "execute", todo' > 0, ~lost'
             PROVE  free' + RunningTotal(library')[kept' + todo' - 1]
                      < Target + freed' + RunningTotal(library')[kept']
  BY DEF PlanOK
<1> DEFINE total == RunningTotal(library)
<1> USE DEF volume, disk, watcher, work, slot, throttle, history
<1>0. /\ free \in Nat /\ freed \in Nat /\ Target \in Nat /\ todo \in Nat /\ kept \in Nat
      /\ pc = "execute" => kept + todo <= Len(library)
      /\ Len(library) \in Nat
      /\ \A n \in 0..Len(library) : total[n] \in Nat
  BY Consts, LibraryFacts DEF TypeOK
<1>1. CASE Plan
  <2>1. kept' = 0 /\ lost' = lost /\ freed' = freed /\ UNCHANGED volume
    BY <1>1, PlanFacts DEF Plan
  <2>2. PICK n \in 0..Len(library) : todo' = n /\ (n > 0 => total[n - 1] < NeededBytes(sample))
    BY <1>1, PlanFacts
  <2>3. free <= sample + freed /\ sample \in Nat
    BY <1>1, <2>1 DEF Plan, SampleOK, TypeOK
  <2>4. /\ n > 0 /\ n \in Nat /\ n - 1 \in 0..Len(library)
        /\ kept' + todo' - 1 = n - 1 /\ total[0] = 0
    <3>1. n > 0 /\ n \in Nat /\ n - 1 \in 0..Len(library)
      BY <1>0, <2>2
    <3>2. kept' + todo' - 1 = n - 1
      BY <2>1, <2>2, <3>1
    <3>3. total[0] = 0
      BY LibraryFacts, TotalStep
    <3> QED BY <3>1, <3>2, <3>3
  <2>5. total[n - 1] \in Nat
    BY <1>0, <2>4
  <2>6. free + total[n - 1] < Target + freed
    BY <1>0, <2>2, <2>3, <2>4, <2>5 DEF NeededBytes
  <2> QED BY <1>0, <2>1, <2>4, <2>6
<1>2. CASE Reap
  <2>0. /\ pc = "execute" /\ todo > 0 /\ todo' = todo - 1 /\ lost' = lost /\ freed' = freed
    BY <1>2 DEF Reap
  <2>1. free + total[kept + todo - 1] < Target + freed + total[kept]
    BY <2>0 DEF PlanOK
  <2>2. /\ kept + todo - 1 \in 0..Len(library) /\ kept \in 0..Len(library)
        /\ kept + todo - 2 \in 0..Len(library) /\ kept + 1 \in 0..Len(library)
        /\ kept + 1 \in 1..Len(library)
    BY <1>0, <2>0
  <2>3. /\ total[kept + todo - 1] \in Nat /\ total[kept] \in Nat
        /\ total[kept + todo - 2] \in Nat /\ total[kept + 1] \in Nat
    BY <1>0, <2>2
  <2>4. CASE /\ free' = free + library[kept + 1] /\ kept' = kept
             /\ library' = RemoveAt(library, kept + 1)
    <3>1. \A n \in 0..(Len(library) - 1) :
            RunningTotal(library')[n] =
              IF n < kept + 1 THEN total[n] ELSE total[n + 1] - library[kept + 1]
      BY <2>2, <2>4, ReapFacts
    <3>2. kept' = kept /\ kept' + todo' - 1 = kept + todo - 2 /\ todo > 1
      <4>1. kept' + todo' - 1 = kept + todo - 2
        BY <1>0, <2>0, <2>4
      <4>2. todo - 1 > 0
        BY <2>0
      <4> QED BY <1>0, <2>4, <4>1, <4>2
    <3>3. RunningTotal(library')[kept + todo - 2] = total[kept + todo - 1] - library[kept + 1]
      <4>1. CASE todo = 2
        <5>1. /\ kept + todo - 2 = kept /\ kept + todo - 1 = kept + 1 /\ kept + 1 - 1 = kept
              /\ kept \in 0..(Len(library) - 1) /\ kept < kept + 1
          BY <1>0, <2>0, <4>1
        <5>2. total[kept + 1] = total[kept] + library[kept + 1]
          BY <2>2, <5>1, LibraryFacts, TotalStep
        <5>3. RunningTotal(library')[kept] = total[kept]
          BY <3>1, <5>1
        <5> QED BY <2>2, <2>3, <5>1, <5>2, <5>3, LibraryFacts
      <4>2. CASE todo # 2
        <5>1. /\ kept + todo - 2 \in 0..(Len(library) - 1) /\ ~(kept + todo - 2 < kept + 1)
              /\ kept + todo - 2 + 1 = kept + todo - 1
          BY <1>0, <2>0, <3>2, <4>2
        <5> QED BY <3>1, <5>1
      <4> QED BY <4>1, <4>2
    <3>4. RunningTotal(library')[kept] = total[kept]
      <4>1. kept \in 0..(Len(library) - 1) /\ kept < kept + 1
        BY <1>0, <2>0
      <4> QED BY <3>1, <4>1
    <3>5. library[kept + 1] \in Nat
      BY <2>2, LibraryFacts
    <3>6. free + library[kept + 1] + RunningTotal(library')[kept + todo - 2]
            < Target + freed + RunningTotal(library')[kept]
      BY <1>0, <2>1, <2>3, <3>3, <3>4, <3>5
    <3> QED BY <2>0, <2>4, <3>2, <3>6
  <2>5. CASE kept' = kept + 1 /\ UNCHANGED volume
    <3>1. total[kept + 1] >= total[kept]
      <4>1. kept <= kept + 1
        BY <1>0
      <4> QED BY <2>2, <2>3, <4>1, LibraryFacts, TotalGrows
    <3>2. kept' + todo' - 1 = kept + todo - 1
      BY <1>0, <2>0, <2>5
    <3>3. library' = library /\ free' = free
      BY <2>5
    <3>4. free + total[kept + todo - 1] < Target + freed + total[kept + 1]
      BY <1>0, <2>1, <2>3, <3>1
    <3> QED BY <2>0, <2>5, <3>2, <3>3, <3>4
  <2> QED BY <1>2, <2>4, <2>5 DEF Reap
<1>3. CASE Download
  <2>1. /\ library' = Append(library, 1) /\ free' = free - 1 /\ pc = "execute" /\ lost' = lost
        /\ freed' = freed /\ kept' = kept /\ todo' = todo
    BY <1>3 DEF Download
  <2>2. \A n \in 0..Len(library) : RunningTotal(library')[n] = total[n]
    BY <2>1, LibraryFacts, TotalOfAppend
  <2>3. kept + todo - 1 \in 0..Len(library) /\ kept \in 0..Len(library)
    BY <1>0, <2>1
  <2>4. free + total[kept + todo - 1] < Target + freed + total[kept]
    BY <2>1 DEF PlanOK
  <2>5. free - 1 + total[kept + todo - 1] < Target + freed + total[kept]
    BY <1>0, <2>3, <2>4
  <2> QED BY <2>1, <2>2, <2>3, <2>5
<1>4. ASSUME UNCHANGED <<volume, work, freed>>, pc = "execute", ~lost
      PROVE  free' + RunningTotal(library')[kept' + todo' - 1]
               < Target + freed' + RunningTotal(library')[kept']
  BY <1>4 DEF PlanOK
<1>5. CASE Sample \/ Advance \/ OtherTakes \/ OtherLeaves \/ UNCHANGED vars
  <2>1. UNCHANGED <<volume, work>> /\ pc = "execute"
    BY <1>5 DEF Sample, Advance, OtherTakes, OtherLeaves, vars
  <2>2. lost' = lost /\ freed' = freed
    <3>1. CASE Sample
      <4>1. lost' = (lost /\ pc = "execute") /\ freed' = freed
        BY <2>1, <3>1 DEF Sample
      <4>2. lost \in BOOLEAN
        BY DEF TypeOK
      <4> QED BY <2>1, <4>1, <4>2
    <3>2. CASE ~Sample
      BY <1>5, <3>2 DEF Advance, OtherTakes, OtherLeaves, vars
    <3> QED BY <3>1, <3>2
  <2> QED BY <1>4, <2>1, <2>2
<1>6. CASE OtherReaps
  BY <1>6 DEF OtherReaps, SlotOK
<1>7. CASE UserFrees
  <2>1. /\ free' = free + 1 /\ freed' = freed + 1 /\ library' = library /\ lost' = lost
        /\ kept' = kept /\ todo' = todo /\ pc = "execute"
    BY <1>7 DEF UserFrees
  <2>2. free + total[kept + todo - 1] < Target + freed + total[kept]
    BY <2>1 DEF PlanOK
  <2>3. kept + todo - 1 \in 0..Len(library) /\ kept \in 0..Len(library)
    BY <1>0, <2>1
  <2>4. total[kept + todo - 1] \in Nat /\ total[kept] \in Nat
    BY <1>0, <2>3
  <2>5. free + 1 + total[kept + todo - 1] < Target + (freed + 1) + total[kept]
    BY <1>0, <2>2, <2>4
  <2> QED BY <2>1, <2>5
<1>8. CASE Tick \/ Lock \/ ExecuteDone \/ Alert \/ Reload
  BY <1>8 DEF Tick, Lock, ExecuteDone, Alert, Reload
<1> QED BY <1>1, <1>2, <1>3, <1>5, <1>6, <1>7, <1>8 DEF Next, WatcherStep

\* The throttle row tells when the last alert was, or that does not matter.
LEMMA ThrottleOKStep == TypeOK /\ ThrottleOK /\ [Next]_vars => ThrottleOK'
<1> SUFFICES ASSUME TypeOK, ThrottleOK, [Next]_vars PROVE ThrottleOK'
  OBVIOUS
<1> USE DEF throttle, history
<1>1. ASSUME UNCHANGED <<throttle, quiet>>, excused => excused' PROVE ThrottleOK'
  BY <1>1 DEF ThrottleOK
<1>2. CASE Alert
  BY <1>2 DEF Alert, ThrottleOK, TypeOK
<1>3. CASE Advance
  <2>1. /\ quiet \in Nat /\ markAge \in Nat /\ quiet <= Reminder /\ Reminder \in Nat
    BY Consts DEF TypeOK
  <2>2. /\ excused' = excused /\ marked' = marked /\ quiet' = Capped(quiet, Reminder)
        /\ marked => markAge' = Capped(markAge, Reminder)
    BY <1>3 DEF Advance
  <2>3. quiet >= Reminder => quiet' >= Reminder
    BY <2>1, <2>2 DEF Capped
  <2>4. markAge <= quiet => Capped(markAge, Reminder) <= Capped(quiet, Reminder)
    BY <2>1 DEF Capped
  <2> QED BY <2>2, <2>3, <2>4 DEF ThrottleOK
<1>4. CASE Tick \/ Lock \/ Plan \/ Reap \/ ExecuteDone \/ Sample \/ Download \/ OtherTakes
             \/ OtherReaps \/ OtherLeaves \/ UserFrees \/ Reload \/ UNCHANGED vars
  <2>1. CASE Tick
    <3>1. UNCHANGED <<throttle, quiet>> /\ (excused => excused')
      BY <2>1 DEF Tick
    <3> QED BY <1>1, <3>1
  <2>2. CASE Lock \/ Plan \/ Reap \/ ExecuteDone
    <3>1. UNCHANGED <<throttle, quiet, excused>>
      BY <2>2 DEF Lock, Plan, Reap, ExecuteDone
    <3> QED BY <1>1, <3>1
  <2>3. CASE Sample \/ Download \/ OtherTakes \/ OtherReaps \/ OtherLeaves \/ UserFrees
               \/ Reload \/ UNCHANGED vars
    <3>1. UNCHANGED <<throttle, quiet, excused>>
      BY <2>3 DEF Sample, Download, OtherTakes, OtherReaps, OtherLeaves, UserFrees, Reload, vars
    <3> QED BY <1>1, <3>1
  <2> QED BY <1>4, <2>1, <2>2, <2>3
<1> QED BY <1>2, <1>3, <1>4 DEF Next, WatcherStep

\* When the grace outlasts a sample and a run, the invariant is inductive.
THEOREM Invariance ==
  ASSUME GraceCoversRun
  PROVE  Spec => []IInv
<1>1. IInv /\ [Next]_vars => IInv'
  BY StepTypeOK, SlotOKStep, SampleOKStep, PlanOKStep, ThrottleOKStep DEF IInv
<1> QED BY InitIInv, <1>1, PTL DEF Spec

\* Every variable has its type, whatever the durations are.
THEOREM TypeCorrect == Spec => []TypeOK
<1>1. Init => TypeOK /\ SlotOK
  BY InitIInv DEF IInv
<1> QED BY <1>1, StepTypeOK, SlotOKStep, PTL DEF Spec

\* While a shortfall lasts two alerts are a reminder interval apart, across reloads
\* and restarts too (maybeAlertShortfall and its throttle row).
THEOREM AlertsSpaced == Spec => AlertsAreSpaced
<1>1. Init => TypeOK /\ SlotOK /\ ThrottleOK
  BY InitIInv DEF IInv
<1>2. TypeOK /\ SlotOK /\ ThrottleOK /\ [Next]_vars => TypeOK' /\ SlotOK' /\ ThrottleOK'
  BY StepTypeOK, SlotOKStep, ThrottleOKStep
<1>3. ASSUME TypeOK, ThrottleOK, [Next]_vars, quiet' = 0, quiet # 0
      PROVE  quiet >= Reminder \/ excused
  <2>1. CASE Alert
    <3>1. short /\ AlertDue
      BY <1>3, <2>1 DEF Alert, throttle
    <3>2. quiet \in Nat /\ markAge \in Nat /\ Reminder \in Nat
      BY <1>3, Consts DEF TypeOK
    <3> QED BY <1>3, <3>1, <3>2 DEF AlertDue, ThrottleOK
  <2>2. CASE Advance
    <3>1. quiet \in Nat /\ Reminder \in Nat
      BY <1>3, Consts DEF TypeOK
    <3>2. quiet' = Capped(quiet, Reminder)
      BY <2>2 DEF Advance
    <3>3. Capped(quiet, Reminder) # 0
      BY <1>3, <3>1 DEF Capped
    <3> QED BY <1>3, <3>2, <3>3
  <2>3. CASE ~Alert /\ ~Advance
    <3>1. quiet' = quiet
      BY <1>3, <2>3
      DEF Next, WatcherStep, Tick, Lock, Plan, Reap, ExecuteDone, Sample, Download, OtherTakes,
          OtherReaps, OtherLeaves, UserFrees, Reload, history, vars
    <3> QED BY <1>3, <3>1
  <2> QED BY <2>1, <2>2, <2>3
<1>4. TypeOK /\ ThrottleOK /\ [Next]_vars
        => [quiet' = 0 /\ quiet # 0 => quiet >= Reminder \/ excused]_vars
  BY <1>3
<1> QED BY <1>1, <1>2, <1>4, PTL DEF Spec, AlertsAreSpaced

\* A pressure run deletes beyond the target by no more than other runs and users have
\* freed since the sample it planned on, when the grace outlasts a sample and a run: no
\* fire plans on a sample that an earlier fire has made out of date.
THEOREM NoOverDeletion ==
  ASSUME GraceCoversRun
  PROVE  Spec => DeletesBelowTarget
<1>1. ASSUME IInv, [Next]_vars, pc = "execute", Len(library') < Len(library)
      PROVE  free < Target + freed \/ lost
  <2> USE <1>1 DEF IInv
  <2>1. Len(library) \in Nat /\ free \in Nat /\ freed \in Nat /\ Target \in Nat
    BY LibraryFacts, Consts DEF TypeOK
  <2>2. ~Download /\ ~OtherReaps
    <3>1. Download => Len(library') = Len(library) + 1
      BY LibraryFacts DEF Download
    <3>2. ~OtherReaps
      BY DEF OtherReaps, SlotOK
    <3> QED BY <2>1, <3>1, <3>2
  <2>3. library' # library
    BY <2>1
  <2>4. Reap
    BY <2>2, <2>3
    DEF Next, WatcherStep, Tick, Lock, Plan, ExecuteDone, Alert, Sample, OtherTakes,
        OtherLeaves, UserFrees, Reload, Advance, volume, vars
  <2>5. CASE ~lost
    <3>1. /\ todo > 0
          /\ free + RunningTotal(library)[kept + todo - 1]
               < Target + freed + RunningTotal(library)[kept]
      BY <2>4, <2>5 DEF Reap, PlanOK
    <3>2. /\ kept + todo - 1 \in 0..Len(library) /\ kept \in 0..Len(library)
          /\ kept <= kept + todo - 1
      BY <2>1, <3>1 DEF TypeOK
    <3>3. RunningTotal(library)[kept] <= RunningTotal(library)[kept + todo - 1]
      BY <3>2, LibraryFacts, TotalGrows
    <3>4. /\ RunningTotal(library)[kept] \in Nat
          /\ RunningTotal(library)[kept + todo - 1] \in Nat
      BY <3>2, LibraryFacts
    <3> QED BY <2>1, <3>1, <3>3, <3>4
  <2> QED BY <2>5
<1>2. IInv /\ [Next]_vars
        => [pc = "execute" /\ Len(library') < Len(library)
              => free < Target + freed \/ lost]_vars
  BY <1>1
<1> QED BY Invariance, <1>2, PTL DEF Spec, DeletesBelowTarget
=============================================================================
