------------------------------- MODULE RunLock -------------------------------
(***************************************************************************)
(* internal/runlock: the lock that keeps live runs apart.  A Lock is a     *)
(* capacity-1 channel (goroutines of one process), an flock(2) on a file   *)
(* of the data directory (processes) and, under a mutex, a registry of the *)
(* in-flight run and its cancel func.  TryAcquire and Release touch them   *)
(* one after the other, so each touch is a step of its own here.           *)
(*                                                                         *)
(* The users of the lock are the daemon's goroutines (the pressure watcher *)
(* and the HTTP run handlers), which arm the registry, and CLI processes,  *)
(* which do not.                                                           *)
(***************************************************************************)
EXTENDS Naturals

CONSTANTS Threads,   \* goroutines and CLI mains that may start a live run
          Procs,     \* operating-system processes
          ProcOf,    \* the process of a thread
          Daemon,    \* the process that runs `triagearr serve`
          NoProc,    \* nobody has the flock
          MaxRuns    \* bound on the run ids handed out

ASSUME ConstantsAssumption ==
  /\ ProcOf \in [Threads -> Procs]
  /\ Daemon \in Procs
  /\ NoProc \notin Procs
  /\ MaxRuns \in Nat

VARIABLES pc,        \* where each thread is between the calls it makes
          ch,        \* ch[p]: the channel of p's Lock is full
          flock,     \* the process whose open file has the flock, or NoProc
          runID,     \* runID/cancel of the daemon's Lock; 0 is "cancel == nil"
          run,       \* run[t]: the id of the run that t executes, or 0
          nextRun,   \* next id of the runs table
          cancelled  \* the runs whose context has been cancelled

vars == <<pc, ch, flock, runID, run, nextRun, cancelled>>

RunIds == 1..MaxRuns

\* TryAcquire has returned true and Release has not yet dropped the flock.
Holding == {"held", "running", "unflock"}

Locs == {"idle", "flock", "rollback", "drain"} \cup Holding

\* Every variable has its type; ids never run past those handed out.
TypeOK ==
  /\ pc \in [Threads -> Locs]
  /\ ch \in [Procs -> BOOLEAN]
  /\ flock \in Procs \cup {NoProc}
  /\ runID \in 0..MaxRuns
  /\ run \in [Threads -> 0..MaxRuns]
  /\ nextRun \in 1..(MaxRuns + 1)
  /\ cancelled \subseteq RunIds

Init ==
  /\ pc = [t \in Threads |-> "idle"]
  /\ ch = [p \in Procs |-> FALSE]
  /\ flock = NoProc
  /\ runID = 0
  /\ run = [t \in Threads |-> 0]
  /\ nextRun = 1
  /\ cancelled = {}
-----------------------------------------------------------------------------
Goto(t, l) == pc' = [pc EXCEPT ![t] = l]

\* TryAcquire, first select: the channel send; `default` leaves no trace.
TrySend(t) ==
  /\ pc[t] = "idle" /\ nextRun <= MaxRuns
  /\ ~ch[ProcOf[t]]
  /\ ch' = [ch EXCEPT ![ProcOf[t]] = TRUE]
  /\ Goto(t, "flock")
  /\ UNCHANGED <<flock, runID, run, nextRun, cancelled>>

\* Mutant of TryFlock: EWOULDBLOCK is not told from success.
TryFlockUnchecked(t) ==
  /\ pc[t] = "flock"
  /\ flock' = IF flock = NoProc THEN ProcOf[t] ELSE flock
  /\ Goto(t, "held")
  /\ UNCHANGED <<ch, runID, run, nextRun, cancelled>>

\* flock(LOCK_EX|LOCK_NB) belongs to the open file: it is refused when another
\* process has it, and granted again to the process that has it already.
TryFlock(t) ==
  /\ pc[t] = "flock"
  /\ \/ /\ flock \in {NoProc, ProcOf[t]}
        /\ flock' = ProcOf[t]
        /\ Goto(t, "held")
     \/ /\ flock \notin {NoProc, ProcOf[t]}
        /\ Goto(t, "rollback")
        /\ UNCHANGED flock
  /\ UNCHANGED <<ch, runID, run, nextRun, cancelled>>

\* The roll back of the in-process slot after a refused flock.
RollBack(t) ==
  /\ pc[t] = "rollback"
  /\ ch' = [ch EXCEPT ![ProcOf[t]] = FALSE]
  /\ Goto(t, "idle")
  /\ UNCHANGED <<flock, runID, run, nextRun, cancelled>>

\* The holder inserts its run row and, in the daemon, arms the registry.
Arm(t) ==
  /\ pc[t] = "held" /\ nextRun <= MaxRuns
  /\ run' = [run EXCEPT ![t] = nextRun]
  /\ nextRun' = nextRun + 1
  /\ runID' = IF ProcOf[t] = Daemon THEN nextRun ELSE runID
  /\ Goto(t, "running")
  /\ UNCHANGED <<ch, flock, cancelled>>

\* Mutant of RequestStop: whatever runs is stopped, under the id of the request.
RequestStopUnmatched(id) ==
  /\ runID # 0
  /\ cancelled' = cancelled \cup {id}
  /\ UNCHANGED <<pc, ch, flock, runID, run, nextRun>>

\* POST /runs/{id}/stop, in the daemon, for any id a client may know of.
RequestStop(id) ==
  /\ runID # 0 /\ runID = id
  /\ cancelled' = cancelled \cup {id}
  /\ UNCHANGED <<pc, ch, flock, runID, run, nextRun>>

\* Mutant of ReleaseRegistry: the registry keeps the run that is over.
ReleaseRegistryKept(t) ==
  /\ pc[t] \in {"held", "running"}
  /\ Goto(t, "unflock")
  /\ UNCHANGED <<ch, flock, runID, run, nextRun, cancelled>>

\* Release, first part: forget the run under the mutex.  Reached after the
\* run, or without one when planning or persisting it failed.
ReleaseRegistry(t) ==
  /\ pc[t] \in {"held", "running"}
  /\ runID' = IF ProcOf[t] = Daemon THEN 0 ELSE runID
  /\ Goto(t, "unflock")
  /\ UNCHANGED <<ch, flock, run, nextRun, cancelled>>

\* Mutant of ReleaseFlock: the file is not unlocked.
ReleaseFlockKept(t) ==
  /\ pc[t] = "unflock"
  /\ run' = [run EXCEPT ![t] = 0]
  /\ Goto(t, "drain")
  /\ UNCHANGED <<ch, flock, runID, nextRun, cancelled>>

ReleaseFlock(t) ==
  /\ pc[t] = "unflock"
  /\ flock' = NoProc
  /\ run' = [run EXCEPT ![t] = 0]
  /\ Goto(t, "drain")
  /\ UNCHANGED <<ch, runID, nextRun, cancelled>>

ReleaseSlot(t) ==
  /\ pc[t] = "drain"
  /\ ch' = [ch EXCEPT ![ProcOf[t]] = FALSE]
  /\ Goto(t, "idle")
  /\ UNCHANGED <<flock, runID, run, nextRun, cancelled>>

\* A process dies (SIGKILL, or exit without waiting for its run) and may be
\* started again: its memory is fresh and the kernel has dropped its flock.
Die(p) ==
  /\ pc' = [t \in Threads |-> IF ProcOf[t] = p THEN "idle" ELSE pc[t]]
  /\ run' = [t \in Threads |-> IF ProcOf[t] = p THEN 0 ELSE run[t]]
  /\ ch' = [ch EXCEPT ![p] = FALSE]
  /\ flock' = IF flock = p THEN NoProc ELSE flock
  /\ runID' = IF p = Daemon THEN 0 ELSE runID
  /\ UNCHANGED <<nextRun, cancelled>>

\* What a thread does by itself once TryAcquire has taken the channel.
Step(t) ==
  \/ TryFlock(t) \/ RollBack(t) \/ Arm(t)
  \/ ReleaseRegistry(t) \/ ReleaseFlock(t) \/ ReleaseSlot(t)

Next ==
  \/ \E t \in Threads : TrySend(t) \/ Step(t)
  \/ \E id \in RunIds : RequestStop(id)
  \/ \E p \in Procs : Die(p)

Spec == Init /\ [][Next]_vars

\* A goroutine that is runnable runs, and a run ends: every request of the
\* Actor has a deadline and a bounded number of attempts.
FairSpec == Spec /\ \A t \in Threads : WF_vars(Step(t))
-----------------------------------------------------------------------------
Holders == {t \in Threads : pc[t] \in Holding}

\* Two live runs never overlap, in one process or in two: "at most one live
\* run executes at a time" is what TryAcquire is for.
MutualExclusion == \A s, t \in Holders : s = t

\* While a daemon run executes, the registry names it and nobody else: a stop
\* for its id reaches it, and a stop for an earlier id does not.
RegistryIsHolder ==
  /\ \A t \in Threads :
       pc[t] = "running" /\ ProcOf[t] = Daemon => runID = run[t]
  /\ runID # 0 =>
       \E t \in Threads : pc[t] = "running" /\ ProcOf[t] = Daemon /\ run[t] = runID

\* A channel is full exactly while one thread of its process is between the
\* send and the receive of TryAcquire/Release: no refused attempt and no death
\* leaves the slot stuck.
SlotIsOwned ==
  \A p \in Procs :
    /\ ch[p] <=> \E t \in Threads : ProcOf[t] = p /\ pc[t] # "idle"
    /\ \A s, t \in Threads :
         (ProcOf[s] = p /\ ProcOf[t] = p /\ pc[s] # "idle" /\ pc[t] # "idle")
           => s = t

\* The flock is held by the process of the thread in the slot.
FlockIsHolder ==
  \A t \in Threads : pc[t] \in Holding => flock = ProcOf[t]

\* Run ids in use were handed out, each to one thread.
RunsAreFresh ==
  /\ \A t \in Threads :
       /\ pc[t] = "running" => run[t] # 0
       /\ run[t] # 0 => pc[t] \in {"running", "unflock"}
  /\ \A t \in Threads : run[t] < nextRun
  /\ \A id \in cancelled : id < nextRun

\* The inductive invariant behind the properties above.
IInv ==
  /\ TypeOK
  /\ SlotIsOwned
  /\ FlockIsHolder
  /\ RunsAreFresh
  /\ RegistryIsHolder

\* Whoever takes the channel or the flock gives it back: TryAcquire is paired
\* with Release on every path, also when the run is never started, so a later
\* trigger of this or another process is not refused for ever.
SlotIsGivenBack ==
  /\ \A p \in Procs : ch[p] ~> ~ch[p]
  /\ flock # NoProc ~> flock = NoProc

\* The run of the thread in the slot.
current == IF \E t \in Holders : run[t] # 0
           THEN run[CHOOSE t \in Holders : run[t] # 0] ELSE 0

Slot == INSTANCE RunSlot WITH
          holder <- Holders, current <- current, stopped <- cancelled

\* Every step of the lock is a step of the slot that RunSlot specifies, or none:
\* one holder at a time over all processes, a fresh id for each run, and a stop
\* that cancels the run in the slot or nothing.
ImplementsRunSlot == Slot!Spec
=============================================================================
