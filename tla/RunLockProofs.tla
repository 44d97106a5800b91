---------------------------- MODULE RunLockProofs ----------------------------
(***************************************************************************)
(* Proofs about RunLock: its inductive invariant, mutual exclusion of live *)
(* runs over any number of goroutines and processes, and that the lock     *)
(* implements RunSlot.                                                     *)
(***************************************************************************)
EXTENDS RunLock, TLAPS

\* The lock starts out empty.
LEMMA InitIInv == Init => IInv
  BY ConstantsAssumption
  DEF Init, IInv, TypeOK, SlotIsOwned, FlockIsHolder, RunsAreFresh,
      RegistryIsHolder, Locs, Holding, RunIds

\* No step of a thread, of the stop endpoint or of the kernel leaves IInv.
LEMMA StepIInv == IInv /\ [Next]_vars => IInv'
<1> SUFFICES ASSUME IInv, [Next]_vars PROVE IInv'
  OBVIOUS
<1> USE ConstantsAssumption DEF IInv, Locs, Holding, RunIds, Goto
<1>1. ASSUME NEW t \in Threads, TrySend(t) PROVE IInv'
  <2>1. TypeOK'
    BY <1>1 DEF TrySend, TypeOK
  <2>2. SlotIsOwned' /\ FlockIsHolder'
    BY <1>1 DEF TrySend, TypeOK, SlotIsOwned, FlockIsHolder
  <2>3. RunsAreFresh' /\ RegistryIsHolder'
    BY <1>1 DEF TrySend, TypeOK, RunsAreFresh, RegistryIsHolder
  <2> QED BY <2>1, <2>2, <2>3
<1>2. ASSUME NEW t \in Threads, TryFlock(t) PROVE IInv'
  <2>1. TypeOK'
    BY <1>2 DEF TryFlock, TypeOK
  <2>2. SlotIsOwned'
    BY <1>2 DEF TryFlock, TypeOK, SlotIsOwned
  <2>3. FlockIsHolder'
    BY <1>2 DEF TryFlock, TypeOK, SlotIsOwned, FlockIsHolder
  <2>4. RunsAreFresh' /\ RegistryIsHolder'
    BY <1>2 DEF TryFlock, TypeOK, RunsAreFresh, RegistryIsHolder
  <2> QED BY <2>1, <2>2, <2>3, <2>4
<1>3. ASSUME NEW t \in Threads, RollBack(t) PROVE IInv'
  <2>1. TypeOK'
    BY <1>3 DEF RollBack, TypeOK
  <2>2. SlotIsOwned' /\ FlockIsHolder'
    BY <1>3 DEF RollBack, TypeOK, SlotIsOwned, FlockIsHolder
  <2>3. RunsAreFresh' /\ RegistryIsHolder'
    BY <1>3 DEF RollBack, TypeOK, RunsAreFresh, RegistryIsHolder
  <2> QED BY <2>1, <2>2, <2>3
<1>4. ASSUME NEW t \in Threads, Arm(t) PROVE IInv'
  <2>1. TypeOK'
    BY <1>4 DEF Arm, TypeOK
  <2>2. SlotIsOwned' /\ FlockIsHolder'
    BY <1>4 DEF Arm, TypeOK, SlotIsOwned, FlockIsHolder
  <2>3. RunsAreFresh'
    BY <1>4 DEF Arm, TypeOK, RunsAreFresh
  \* The daemon's channel keeps its other threads out of the way.
  <2>4. RegistryIsHolder'
    BY <1>4 DEF Arm, TypeOK, SlotIsOwned, RunsAreFresh, RegistryIsHolder
  <2> QED BY <2>1, <2>2, <2>3, <2>4
<1>5. ASSUME NEW id \in RunIds, RequestStop(id) PROVE IInv'
  <2>1. TypeOK' /\ SlotIsOwned' /\ FlockIsHolder' /\ RegistryIsHolder'
    BY <1>5 DEF RequestStop, TypeOK, SlotIsOwned, FlockIsHolder, RegistryIsHolder
  <2>2. RunsAreFresh'
    BY <1>5 DEF RequestStop, TypeOK, RunsAreFresh, RegistryIsHolder
  <2> QED BY <2>1, <2>2
<1>6. ASSUME NEW t \in Threads, ReleaseRegistry(t) PROVE IInv'
  <2>1. TypeOK'
    BY <1>6 DEF ReleaseRegistry, TypeOK
  <2>2. SlotIsOwned' /\ FlockIsHolder'
    BY <1>6 DEF ReleaseRegistry, TypeOK, SlotIsOwned, FlockIsHolder
  <2>3. RunsAreFresh'
    BY <1>6 DEF ReleaseRegistry, TypeOK, RunsAreFresh
  <2>4. RegistryIsHolder'
    BY <1>6 DEF ReleaseRegistry, TypeOK, SlotIsOwned, RegistryIsHolder
  <2> QED BY <2>1, <2>2, <2>3, <2>4
<1>7. ASSUME NEW t \in Threads, ReleaseFlock(t) PROVE IInv'
  <2>1. TypeOK'
    BY <1>7 DEF ReleaseFlock, TypeOK
  <2>2. SlotIsOwned'
    BY <1>7 DEF ReleaseFlock, TypeOK, SlotIsOwned
  \* No other thread loses the flock: it would be of t's process, or of
  \* another process that has the flock too.
  <2>3. FlockIsHolder'
    BY <1>7 DEF ReleaseFlock, TypeOK, SlotIsOwned, FlockIsHolder
  <2>4. RunsAreFresh' /\ RegistryIsHolder'
    BY <1>7 DEF ReleaseFlock, TypeOK, RunsAreFresh, RegistryIsHolder
  <2> QED BY <2>1, <2>2, <2>3, <2>4
<1>8. ASSUME NEW t \in Threads, ReleaseSlot(t) PROVE IInv'
  <2>1. TypeOK'
    BY <1>8 DEF ReleaseSlot, TypeOK
  <2>2. SlotIsOwned' /\ FlockIsHolder'
    BY <1>8 DEF ReleaseSlot, TypeOK, SlotIsOwned, FlockIsHolder
  <2>3. RunsAreFresh' /\ RegistryIsHolder'
    BY <1>8 DEF ReleaseSlot, TypeOK, RunsAreFresh, RegistryIsHolder
  <2> QED BY <2>1, <2>2, <2>3
<1>9. ASSUME NEW p \in Procs, Die(p) PROVE IInv'
  <2>1. TypeOK'
    BY <1>9 DEF Die, TypeOK
  <2>2. SlotIsOwned'
    BY <1>9 DEF Die, TypeOK, SlotIsOwned
  <2>3. FlockIsHolder'
    BY <1>9 DEF Die, TypeOK, FlockIsHolder
  <2>4. RunsAreFresh'
    BY <1>9 DEF Die, TypeOK, RunsAreFresh
  <2>5. RegistryIsHolder'
    BY <1>9 DEF Die, TypeOK, RegistryIsHolder
  <2> QED BY <2>1, <2>2, <2>3, <2>4, <2>5
<1>10. CASE UNCHANGED vars
  BY <1>10 DEF vars, TypeOK, SlotIsOwned, FlockIsHolder, RunsAreFresh, RegistryIsHolder
<1> QED
  BY <1>1, <1>2, <1>3, <1>4, <1>5, <1>6, <1>7, <1>8, <1>9, <1>10 DEF Next, Step

\* The inductive invariant holds in every reachable state of the lock.
THEOREM Invariance == Spec => []IInv
<1> QED BY InitIInv, StepIInv, PTL DEF Spec

\* IInv is stronger than mutual exclusion: the flock tells processes apart,
\* the channel tells the goroutines of one process apart.
LEMMA IInvExcludes == IInv => MutualExclusion
<1> SUFFICES ASSUME IInv, NEW s \in Holders, NEW t \in Holders PROVE s = t
  BY DEF MutualExclusion
<1>1. flock = ProcOf[s] /\ flock = ProcOf[t]
  BY DEF IInv, FlockIsHolder, Holders
<1>2. pc[s] # "idle" /\ pc[t] # "idle" /\ ProcOf[s] \in Procs
  BY ConstantsAssumption DEF Holders, Holding
<1>3. s \in Threads /\ t \in Threads
  BY DEF Holders
<1>4. \A p \in Procs : \A a, b \in Threads :
        ProcOf[a] = p /\ ProcOf[b] = p /\ pc[a] # "idle" /\ pc[b] # "idle" => a = b
  BY Zenon DEF IInv, SlotIsOwned
<1> QED BY <1>1, <1>2, <1>3, <1>4

\* At most one live run is in flight over all goroutines of all processes that
\* use the lock file, whatever their number and whichever of them die.
THEOREM Exclusion == Spec => []MutualExclusion
<1> QED BY Invariance, IInvExcludes, PTL

\* The registry of the daemon names the run that executes there, so a stop
\* reaches the run it names or none.
THEOREM StopReachesHolder == Spec => []RegistryIsHolder
<1>1. IInv => RegistryIsHolder
  BY DEF IInv
<1> QED BY <1>1, Invariance, PTL
-----------------------------------------------------------------------------
\* The run of the slot is that of its only holder.
LEMMA CurrentOfHolder ==
  ASSUME IInv, NEW t \in Holders
  PROVE  Holders = {t} /\ current = run[t]
<1>1. Holders = {t}
  BY IInvExcludes DEF MutualExclusion
<1> QED BY <1>1 DEF current, Holders

\* Without a run in the slot there is no current run.
LEMMA CurrentOfNobody ==
  ASSUME Holders = {} PROVE current = 0
  BY DEF current

\* The empty lock is the empty slot.
LEMMA InitRefines == Init => Slot!Init
  BY DEF Init, Slot!Init, Holders, Holding, current

\* A step of the lock is a step of the slot or leaves the slot alone.
LEMMA StepRefines == IInv /\ IInv' /\ [Next]_vars => [Slot!Next]_(Slot!vars)
<1> SUFFICES ASSUME IInv, IInv', [Next]_vars PROVE [Slot!Next]_(Slot!vars)
  OBVIOUS
<1> USE DEF Slot!Next, Slot!vars, Goto
<1> DEFINE Quiet == Holders' = Holders /\ current' = current
                    /\ nextRun' = nextRun /\ cancelled' = cancelled
<1>q. Quiet => [Slot!Next]_(Slot!vars)
  OBVIOUS
<1>e. MutualExclusion'
  BY IInvExcludes, PTL
<1> HIDE DEF Quiet
<1>1. ASSUME NEW t \in Threads, TrySend(t) \/ RollBack(t) \/ ReleaseSlot(t)
      PROVE  Quiet
  <2>1. Holders' = Holders
    BY <1>1 DEF TrySend, RollBack, ReleaseSlot, Holders, Holding, IInv, TypeOK
  <2> QED BY <1>1, <2>1 DEF TrySend, RollBack, ReleaseSlot, current, Quiet
<1>2. ASSUME NEW t \in Threads, ReleaseRegistry(t) PROVE Quiet
  <2>1. Holders' = Holders
    BY <1>2 DEF ReleaseRegistry, Holders, Holding, IInv, TypeOK
  <2> QED BY <1>2, <2>1 DEF ReleaseRegistry, current, Quiet
<1>3. ASSUME NEW t \in Threads, TryFlock(t) PROVE Quiet \/ Slot!Acquire(t)
  <2>1. CASE pc'[t] = "rollback"
    <3>1. Holders' = Holders
      BY <1>3, <2>1 DEF TryFlock, Holders, Holding, IInv, TypeOK
    <3> QED BY <1>3, <3>1 DEF TryFlock, current, Quiet
  <2>2. CASE pc'[t] = "held"
    <3>1. Holders' = Holders \cup {t} /\ t \in Holders'
      BY <1>3, <2>2 DEF TryFlock, Holders, Holding, IInv, TypeOK
    <3>2. Holders' = {t}
      BY <1>e, <3>1 DEF MutualExclusion
    <3>3. t \notin Holders
      BY <1>3 DEF TryFlock, Holders, Holding
    <3>4. Holders = {}
      BY <3>1, <3>2, <3>3
    <3>5. run[t] = 0
      BY <1>3 DEF TryFlock, IInv, RunsAreFresh, TypeOK
    <3>6. current = 0 /\ current' = 0
      BY <1>3, <3>2, <3>4, <3>5 DEF current, TryFlock
    <3> QED BY <1>3, <3>2, <3>4, <3>6 DEF TryFlock, Slot!Acquire
  <2> QED BY <1>3, <2>1, <2>2 DEF TryFlock, IInv, TypeOK
<1>4. ASSUME NEW t \in Threads, Arm(t) PROVE Slot!Begin
  <2>1. t \in Holders /\ Holders' = Holders
    BY <1>4 DEF Arm, Holders, Holding, IInv, TypeOK
  <2>2. Holders = {t} /\ current = run[t]
    BY <2>1, CurrentOfHolder
  <2>3. run[t] = 0
    BY <1>4 DEF Arm, IInv, RunsAreFresh, TypeOK
  <2>4. run'[t] = nextRun /\ nextRun # 0
    BY <1>4 DEF Arm, IInv, TypeOK
  <2>5. current' = nextRun
    BY <2>1, <2>2, <2>4 DEF current
  <2> QED BY <1>4, <2>1, <2>2, <2>3, <2>5 DEF Arm, Slot!Begin
<1>5. ASSUME NEW id \in RunIds, RequestStop(id) PROVE Slot!Stop
  <2>1. PICK t \in Threads : pc[t] = "running" /\ run[t] = runID
    BY <1>5 DEF RequestStop, IInv, RegistryIsHolder
  <2>2. t \in Holders
    BY <2>1 DEF Holders, Holding
  <2>3. current = id /\ id # 0
    BY <1>5, <2>1, <2>2, CurrentOfHolder DEF RequestStop
  <2>4. Holders' = Holders /\ current' = current
    BY <1>5 DEF RequestStop, Holders, current
  <2> QED BY <1>5, <2>3, <2>4 DEF RequestStop, Slot!Stop
<1>6. ASSUME NEW t \in Threads, ReleaseFlock(t) PROVE Slot!Free
  <2>1. t \in Holders /\ Holders' = Holders \ {t}
    BY <1>6 DEF ReleaseFlock, Holders, Holding, IInv, TypeOK
  <2>2. Holders' = {}
    BY <2>1, CurrentOfHolder
  <2>3. current' = 0
    BY <2>2 DEF current
  <2> QED BY <1>6, <2>1, <2>2, <2>3 DEF ReleaseFlock, Slot!Free
<1>7. ASSUME NEW p \in Procs, Die(p) PROVE Quiet \/ Slot!Free
  <2>1. Holders' = {t \in Holders : ProcOf[t] # p}
    BY <1>7 DEF Die, Holders, Holding
  <2>2. CASE \E t \in Holders : ProcOf[t] = p
    <3>1. Holders # {} /\ Holders' = {}
      BY <2>1, <2>2, CurrentOfHolder
    <3>2. current' = 0
      BY <3>1 DEF current
    <3> QED BY <1>7, <3>1, <3>2 DEF Die, Slot!Free
  <2>3. CASE ~\E t \in Holders : ProcOf[t] = p
    <3>1. Holders' = Holders
      BY <2>1, <2>3
    <3>2. \A t \in Holders : run'[t] = run[t]
      BY <1>7, <2>3 DEF Die, Holders
    <3>3. current' = current
      <4>1. CASE Holders = {}
        BY <3>1, <4>1 DEF current
      <4>2. ASSUME NEW t \in Holders PROVE current' = current
        <5>1. Holders = {t}
          BY CurrentOfHolder
        <5> QED BY <3>1, <3>2, <5>1 DEF current
      <4> QED BY <4>1, <4>2
    <3> QED BY <1>7, <3>1, <3>3 DEF Die, Quiet
  <2> QED BY <2>2, <2>3
<1>8. CASE UNCHANGED vars
  BY <1>8 DEF vars, Holders, current
<1> QED
  BY <1>q, <1>1, <1>2, <1>3, <1>4, <1>5, <1>6, <1>7, <1>8 DEF Next, Step

\* The channel, the flock and the registry together implement the abstract
\* slot: one holder, fresh run ids, and stops that hit the run in the slot.
THEOREM Refinement == Spec => ImplementsRunSlot
<1> QED
  BY Invariance, InitRefines, StepRefines, PTL DEF Spec, Slot!Spec, ImplementsRunSlot
=============================================================================
