----------------------------- MODULE DiskWatcher -----------------------------
(***************************************************************************)
(* internal/triggers/disk_watcher.go: the loop that starts pressure runs.  *)
(* Each tick compares the newest disk_usage sample with the threshold and, *)
(* on a transition or after a grace, fires: takes the run lock, plans on   *)
(* the newest sample, executes, and alerts when the target is out of reach.*)
(* The disk poller writes the samples on a cadence of its own, downloads   *)
(* fill the volume, other triggers take the slot in between, and what they *)
(* delete is in no sample until the next one: neither a refused fire nor   *)
(* their runs touch the time of the watcher's last fire.                   *)
(*                                                                         *)
(* Time is a count of units.  The code only ever asks whether an age has   *)
(* reached a bound, so ages stop growing there, and a time that was never  *)
(* set is an age at its bound.                                             *)
(***************************************************************************)
EXTENDS Naturals, Sequences, SequencesExt, Sums

CONSTANTS Total,      \* the volume's size, in the unit of free space
          Threshold,  \* ThresholdFreePercent
          Target,     \* TargetFreePercent
          Libraries,  \* initial candidates: their sizes, best score first
          Grace,      \* ReFireGrace
          Reminder,   \* TargetUnreachableReminder
          SampleMax,  \* the disk poller's interval
          RunMax,     \* how long a fire may take
          MaxOthers,  \* bound on the live runs of other triggers
          MaxFreed,   \* bound on what others free between two samples
          Faults      \* the kinds of trouble that may happen

\* candidate: a candidate is not reaped.  store: planning or persisting fails.
\* reload: the daemon rebuilds its watcher, or restarts.
ASSUME ConstantsAssumption ==
  /\ {Total, Threshold, Target, Grace, Reminder, SampleMax, RunMax, MaxOthers,
      MaxFreed} \subseteq Nat
  /\ Threshold <= Target /\ Target <= Total
  /\ Libraries \subseteq Seq(1..Total)
  /\ SampleMax > 0 /\ Grace > 0 /\ Reminder > 0
  /\ Faults \subseteq {"candidate", "store", "reload"}

VARIABLES
  \* the volume: free space, the candidates that are left
  free, library,
  \* the newest disk_usage row and its age
  sampled, sample, sampleAge,
  \* the watcher: where it is, firingNow, the ages of lastFire and of the tick
  pc, firing, age, tickAge,
  \* the fire at work: items to process, items that were not reaped, whether
  \* the plan stopped on no_more_candidates
  todo, kept, short,
  \* the run lock is held by another trigger; how often it was
  busy, others,
  \* the throttle row of the alert in the store, and its age
  marked, markAge,
  \* history: the age of the last alert, and whether a tick has seen the volume
  \* above the threshold since then or the alert could not be recorded; whether
  \* the time of the last fire was lost, and no sample has been taken since;
  \* what others have freed since the sample that the watcher last planned on, or
  \* since the newest one when it is not at work on a plan
  quiet, excused, lost, freed

volume == <<free, library>>
disk == <<sampled, sample, sampleAge>>
watcher == <<pc, firing, age, tickAge>>
work == <<todo, kept, short>>
slot == <<busy, others>>
throttle == <<marked, markAge>>
history == <<quiet, excused, lost, freed>>
vars == <<volume, disk, watcher, work, slot, throttle, history>>

May(k) == k \in Faults
Capped(n, bound) == IF n < bound THEN n + 1 ELSE n

Init ==
  /\ free \in 0..Total
  /\ library \in {l \in Libraries : free + SumOf(l) <= Total}
  /\ sampled = FALSE /\ sample = 0 /\ sampleAge = 0
  /\ pc = "idle" /\ firing = FALSE /\ age = Grace /\ tickAge = 0
  /\ todo = 0 /\ kept = 0 /\ short = FALSE
  /\ busy = FALSE /\ others = 0
  /\ marked = FALSE /\ markAge = 0
  /\ quiet = Reminder /\ excused = FALSE /\ lost = FALSE /\ freed = 0
-----------------------------------------------------------------------------
Under == sampled /\ sample < Threshold

\* Mutants of Fires: no grace between fires; one fire for an episode.
FiresAlways == Under
FiresOnTransition == Under /\ ~firing

Fires == Under /\ (~firing \/ age >= Grace)

\* tick: no sample, or enough space, and the watcher only takes note of it; on
\* a transition or after the grace, it fires.
Tick ==
  /\ pc = "idle"
  /\ firing' = IF sampled THEN Under ELSE firing
  /\ excused' = (excused \/ (sampled /\ ~Under))
  /\ tickAge' = 0
  /\ pc' = IF Fires THEN "lock" ELSE "idle"
  /\ UNCHANGED <<volume, disk, age, work, slot, throttle, quiet, lost, freed>>

\* fire, TryAcquire: a refusal leaves lastFire alone.
Lock ==
  /\ pc = "lock"
  /\ pc' = IF busy THEN "idle" ELSE "plan"
  /\ UNCHANGED <<volume, disk, firing, age, tickAge, work, slot, throttle, history>>

\* NeededBytes, from a sample of the free space.
NeededBytes(s) == IF s >= Target THEN 0 ELSE Target - s

\* Decider.Plan: the shortest prefix of the candidates that reaches the target,
\* or all of them; then InsertRun and InsertRunItems.
Plan ==
  /\ pc = "plan"
  /\ \/ LET need == NeededBytes(sample)
            enough == {n \in 0..Len(library) : RunningTotal(library)[n] >= need}
        IN  /\ short' = (enough = {})
            /\ todo' = IF enough = {} THEN Len(library)
                       ELSE CHOOSE n \in enough : \A m \in enough : n <= m
            /\ kept' = 0
            /\ pc' = "execute"
     \/ May("store") /\ pc' = "idle" /\ UNCHANGED work
  /\ UNCHANGED <<volume, disk, firing, age, tickAge, slot, throttle, history>>

\* Actor.Execute, one candidate.
Reap ==
  /\ pc = "execute" /\ todo > 0
  /\ todo' = todo - 1
  /\ \/ /\ free' = free + library[kept + 1]
        /\ library' = RemoveAt(library, kept + 1)
        /\ UNCHANGED kept
     \/ May("candidate") /\ kept' = kept + 1 /\ UNCHANGED volume
  /\ UNCHANGED <<disk, watcher, short, slot, throttle, history>>

\* Execute returns; when it could not mark the run, as an error, with which the
\* tick returns before it sets lastFire.
ExecuteDone ==
  /\ pc = "execute" /\ todo = 0
  /\ \/ pc' = "alert" /\ UNCHANGED <<short, lost>>
     \/ May("store") /\ pc' = "idle" /\ short' = FALSE /\ lost' = TRUE
  /\ kept' = 0
  /\ UNCHANGED <<volume, disk, firing, age, tickAge, todo, slot, throttle, quiet,
                 excused, freed>>

\* The throttle row lets an alert pass.
AlertDue == ~marked \/ markAge >= Reminder

\* maybeAlertShortfall, the end of fire, with a notifier: whatever it meets is
\* swallowed, and the tick sets lastFire to the time it began.
Alert ==
  /\ pc = "alert"
  /\ \/ /\ ~short
        /\ \/ marked' = FALSE /\ markAge' = 0
           \/ May("store") /\ UNCHANGED throttle
        /\ excused' = TRUE
        /\ UNCHANGED quiet
     \/ /\ short /\ AlertDue
        /\ \/ marked' = TRUE /\ markAge' = 0 /\ excused' = FALSE
           \/ May("store") /\ UNCHANGED throttle /\ excused' = TRUE
        /\ quiet' = 0
     \/ /\ short /\ (~AlertDue \/ May("store"))
        /\ UNCHANGED <<throttle, quiet, excused>>
  /\ pc' = "idle" /\ age' = tickAge /\ short' = FALSE
  /\ UNCHANGED <<volume, disk, firing, tickAge, todo, kept, slot, lost, freed>>
-----------------------------------------------------------------------------
\* DiskPoller.tick: statfs and the insert of the row are one step, and the age of a
\* sample counts from there.
Sample ==
  /\ sampled' = TRUE /\ sample' = free /\ sampleAge' = 0
  /\ lost' = (lost /\ pc = "execute")
  /\ freed' = IF pc = "execute" THEN freed ELSE 0
  /\ UNCHANGED <<volume, watcher, work, slot, throttle, quiet, excused>>

\* A torrent client fetches a torrent: a candidate of the lowest score.
Download ==
  /\ free > 0
  /\ free' = free - 1
  /\ library' = Append(library, 1)
  /\ UNCHANGED <<disk, watcher, work, slot, throttle, history>>

\* An HTTP or CLI run takes the slot, reaps candidates, and leaves it.
OtherTakes ==
  /\ pc \in {"idle", "lock"} /\ ~busy /\ others < MaxOthers
  /\ busy' = TRUE /\ others' = others + 1
  /\ UNCHANGED <<volume, disk, watcher, work, throttle, history>>

\* Its Actor, one candidate of its own plan; the newest sample stays as it is.
OtherReaps ==
  /\ busy
  /\ \E n \in 1..Len(library) :
       /\ freed + library[n] <= MaxFreed
       /\ free' = free + library[n]
       /\ library' = RemoveAt(library, n)
       /\ freed' = freed + library[n]
  /\ UNCHANGED <<disk, watcher, work, slot, throttle, quiet, excused, lost>>

\* A user deletes files that are no candidates.
UserFrees ==
  /\ free + SumOf(library) < Total /\ freed < MaxFreed
  /\ free' = free + 1 /\ freed' = freed + 1
  /\ UNCHANGED <<library, disk, watcher, work, slot, throttle, quiet, excused, lost>>

OtherLeaves ==
  /\ busy
  /\ busy' = FALSE
  /\ UNCHANGED <<volume, disk, watcher, work, others, throttle, history>>

\* Mutant of Reload: the alert throttle lives in the watcher.
ReloadForgets ==
  /\ May("reload") /\ pc = "idle"
  /\ firing' = FALSE /\ age' = Grace
  /\ marked' = FALSE /\ markAge' = 0
  /\ lost' = TRUE
  /\ UNCHANGED <<volume, disk, pc, tickAge, work, slot, quiet, excused, freed>>

\* A settings change, SIGHUP or restart drains the watcher and builds a new one.
\* A fire that meets it fails at its next statement, as with "store".
Reload ==
  /\ May("reload") /\ pc = "idle"
  /\ firing' = FALSE /\ age' = Grace
  /\ lost' = TRUE
  /\ UNCHANGED <<volume, disk, pc, tickAge, work, slot, throttle, quiet, excused,
                 freed>>

\* A unit of time passes.  The poller keeps its cadence, a fire its bound.
Advance ==
  /\ sampled => sampleAge < SampleMax
  /\ pc # "idle" => tickAge < RunMax
  /\ sampleAge' = IF sampled THEN sampleAge + 1 ELSE 0
  /\ age' = Capped(age, Grace)
  /\ tickAge' = IF pc = "idle" THEN tickAge ELSE tickAge + 1
  /\ markAge' = IF marked THEN Capped(markAge, Reminder) ELSE 0
  /\ quiet' = Capped(quiet, Reminder)
  /\ UNCHANGED <<volume, sampled, sample, pc, firing, work, slot, marked, excused, lost,
                 freed>>

WatcherStep == Lock \/ Plan \/ Reap \/ ExecuteDone \/ Alert

Next ==
  \/ Tick \/ WatcherStep \/ Sample \/ Download
  \/ OtherTakes \/ OtherReaps \/ OtherLeaves \/ UserFrees \/ Reload \/ Advance

Spec == Init /\ [][Next]_vars

\* Tickers tick, time passes, a run of another trigger ends.
FairSpec ==
  /\ Spec
  /\ WF_vars(Tick) /\ WF_vars(WatcherStep)
  /\ WF_vars(Sample) /\ WF_vars(Advance) /\ WF_vars(OtherLeaves)
-----------------------------------------------------------------------------
\* Every variable has its type; a plan has no more items than there are candidates.
TypeOK ==
  /\ free \in 0..Total /\ library \in Seq(1..Total) /\ free + SumOf(library) <= Total
  /\ sampled \in BOOLEAN /\ sample \in 0..Total /\ sampleAge \in 0..SampleMax
  /\ pc \in {"idle", "lock", "plan", "execute", "alert"}
  /\ firing \in BOOLEAN /\ age \in 0..Grace \cup 0..RunMax /\ tickAge \in 0..RunMax
  /\ todo \in Nat /\ kept \in Nat /\ short \in BOOLEAN
  /\ pc = "execute" => kept + todo <= Len(library)
  /\ busy \in BOOLEAN /\ others \in 0..MaxOthers
  /\ marked \in BOOLEAN /\ markAge \in 0..Reminder
  /\ {excused, lost} \subseteq BOOLEAN /\ quiet \in 0..Reminder /\ freed \in 0..MaxFreed

\* Pressure runs over-delete by what others have freed unsampled, and by no more:
\* the watcher reaps a candidate only while the free space is below the target and
\* what other runs and users have freed since the sample it planned on, as long as
\* Grace > SampleMax + RunMax.  What its own runs have freed is in that sample.  A
\* reload, and a run that could not be marked, lose the time of the last fire: until
\* the next sample the promise is suspended.
DeletesBelowTarget ==
  [][pc = "execute" /\ Len(library') < Len(library) => free < Target + freed \/ lost]_vars

\* ADR-0032, "Throttle state must be persisted": while a shortfall lasts, two
\* alerts are a reminder interval apart, over reloads and restarts as well,
\* unless the first one could not be recorded.
AlertsAreSpaced ==
  [][quiet' = 0 /\ quiet # 0 => quiet >= Reminder \/ excused]_vars

\* Sustained pressure is answered: while the samples stay under the threshold
\* the watcher gets to plan a run, whatever was skipped or failed before.
PressureIsAnswered == Under ~> ~Under \/ pc = "plan"
-----------------------------------------------------------------------------
\* What DeletesBelowTarget rests on: by the grace, the space that a run has freed
\* has been sampled.
GraceCoversRun == Grace > SampleMax + RunMax

\* The parts of the inductive invariant.  Another run has the slot only while the
\* watcher does not.
SlotOK == busy => pc \in {"idle", "lock"}

\* A sample that misses more than others have freed was taken before the last run
\* was over, and neither that run's grace nor, while it stays under the threshold,
\* the episode is.
SampleOK ==
  /\ pc # "idle" => sampled /\ firing
  /\ pc \in {"lock", "plan"} => free <= sample + freed \/ lost
  /\ pc = "idle" /\ sampled =>
       free <= sample + freed \/ lost \/ age <= sampleAge + RunMax
  /\ pc = "idle" /\ Under => free <= sample + freed \/ lost \/ firing

\* What is left of a plan does not reach the target, and what others have freed,
\* without its last item.
PlanOK ==
  pc = "execute" /\ todo > 0 =>
    \/ free + RunningTotal(library)[kept + todo - 1]
         < Target + freed + RunningTotal(library)[kept]
    \/ lost

\* The throttle row is as old as the alert, or the next alert is due or excused.
ThrottleOK == excused \/ quiet >= Reminder \/ (marked /\ markAge <= quiet)

IInv == TypeOK /\ SlotOK /\ SampleOK /\ PlanOK /\ ThrottleOK
=============================================================================
