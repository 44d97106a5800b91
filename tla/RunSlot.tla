------------------------------- MODULE RunSlot -------------------------------
(***************************************************************************)
(* What the single-run guard of internal/runlock promises, without saying  *)
(* how: over all goroutines of the daemon and all `triagearr run`          *)
(* processes there is one slot for a live (destructive) run, a run has a   *)
(* fresh id, and a stop reaches the run that is in the slot or no run.     *)
(***************************************************************************)
EXTENDS Naturals

CONSTANTS Threads,   \* goroutines and CLI mains that may start a live run
          MaxRuns    \* bound on the run ids handed out

VARIABLES holder,    \* the threads in the slot, at most one
          current,   \* the run id of the holder, 0 before it has one
          nextRun,   \* next run id of the runs table
          stopped    \* run ids whose context was cancelled by RequestStop

vars == <<holder, current, nextRun, stopped>>

Init ==
  /\ holder = {}
  /\ current = 0
  /\ nextRun = 1
  /\ stopped = {}

Acquire(t) ==
  /\ holder = {}
  /\ holder' = {t}
  /\ UNCHANGED <<current, nextRun, stopped>>

Begin ==
  /\ holder # {} /\ current = 0
  /\ nextRun <= MaxRuns
  /\ current' = nextRun
  /\ nextRun' = nextRun + 1
  /\ UNCHANGED <<holder, stopped>>

Stop ==
  /\ current # 0
  /\ stopped' = stopped \cup {current}
  /\ UNCHANGED <<holder, current, nextRun>>

\* The run is over, or its process died.
Free ==
  /\ holder # {}
  /\ holder' = {}
  /\ current' = 0
  /\ UNCHANGED <<nextRun, stopped>>

Next == Begin \/ Stop \/ Free \/ \E t \in Threads : Acquire(t)

Spec == Init /\ [][Next]_vars
=============================================================================
