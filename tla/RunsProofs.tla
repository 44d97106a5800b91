----------------------------- MODULE RunsProofs ------------------------------
(***************************************************************************)
(* Proofs about Runs, for any number of requests, watchers and CLI         *)
(* processes, any torrents and any bound on the runs: live runs take turns *)
(* and a stop hits the run it was asked for whatever fails; a plan made in *)
(* the slot names no reaped torrent but those whose row outlived them; and *)
(* every run that is shown is driven but those that were cut short.        *)
(***************************************************************************)
EXTENDS Runs, TLAPS

\* A plan is a sequence of torrents that have a row, each once.
LEMMA PrefixFacts ==
  ASSUME NEW set, set \subseteq Torrents, NEW p \in RankedPrefixes(set)
  PROVE  p \in Seq(Torrents) /\ Distinct(p) /\ (\A i \in 1..Len(p) : p[i] \in set)
<1>1. PICK n \in 0..Cardinality(set) :
        p \in [1..n -> set] /\ (\A i, j \in 1..n : i < j => p[i] < p[j])
  BY DEF RankedPrefixes
<1>2. n \in Nat
  OBVIOUS
<1>3. p \in Seq(set) /\ Len(p) = n
  BY <1>1, <1>2
<1>4. p \in Seq(Torrents) /\ (\A i \in 1..Len(p) : p[i] \in set)
  BY <1>1, <1>2, <1>3
<1>5. ASSUME NEW i \in 1..n, NEW j \in 1..n, p[i] = p[j] PROVE i = j
  <2>1. i \in Nat /\ j \in Nat
    BY <1>2
  <2>2. p[i] \in set /\ p[j] \in set
    BY <1>1
  <2>3. p[i] \in Nat /\ p[j] \in Nat
    BY <2>2, ConstantsAssumption
  <2>4. ~(i < j) /\ ~(j < i)
    BY <1>1, <1>5, <2>3
  <2> QED BY <2>1, <2>4
<1> QED BY <1>3, <1>4, <1>5 DEF Distinct

\* What the proofs use of the constants.
LEMMA Consts ==
  /\ MaxRuns \in Nat /\ RunIds \subseteq Nat /\ NoThread \notin Threads
  /\ \A t \in Threads : Trigger[t] \in {"http", "disk_pressure", "cli"}
  /\ \A e \in Engines : e.live \in BOOLEAN /\ e.actor \in BOOLEAN
  BY ConstantsAssumption DEF RunIds

\* Nobody has triggered a run: every variable has its type.
LEMMA InitTypeOK == Init => TypeOK
<1> SUFFICES ASSUME Init PROVE TypeOK
  OBVIOUS
<1>1. ThreadsOK
  BY Consts DEF Init, ThreadsOK, Locs
<1>2. LockOK
  BY Consts DEF Init, LockOK
<1>3. StoreOK
  <2>1. NoRow \in RunRows
    BY DEF NoRow, RunRows, Statuses
  <2> QED BY <2>1, Consts DEF Init, StoreOK
<1>4. DaemonOK
  BY DEF Init, DaemonOK
<1>5. HistoryOK
  BY DEF Init, HistoryOK
<1> QED BY <1>1, <1>2, <1>3, <1>4, <1>5 DEF TypeOK

\* A row keeps its type under an UPDATE of its status and under new items.
LEMMA StatusUpdates ==
  ASSUME row \in [RunIds -> RunRows], NEW r \in RunIds, NEW s \in Statuses
  PROVE  /\ [row EXCEPT ![r].status = s] \in [RunIds -> RunRows]
         /\ \A q \in RunIds :
              /\ [row EXCEPT ![r].status = s][q].by = row[q].by
              /\ [row EXCEPT ![r].status = s][q].items = row[q].items
  BY DEF RunRows

\* Items in a row: the rows are rows, and their trigger stays.
LEMMA ItemsUpdates ==
  ASSUME row \in [RunIds -> RunRows], NEW r \in RunIds, NEW p \in Seq(Torrents)
  PROVE  /\ [row EXCEPT ![r].items = p] \in [RunIds -> RunRows]
         /\ \A q \in RunIds : [row EXCEPT ![r].items = p][q].by = row[q].by
  BY DEF RunRows

\* The row a thread works on is a row of the table.
LEMMA OwnRun ==
  ASSUME TypeOK, RunsAreOwned, NEW t \in Threads, pc[t] \in InFlight
  PROVE  id[t] \in RunIds /\ id[t] \in Nat /\ nextRun \in Nat /\ id[t] < nextRun
  BY Consts DEF TypeOK, StoreOK, RunsAreOwned, RunIds

\* The history names runs and torrents.
LEMMA StepHistoryOK == TypeOK /\ RunsAreOwned /\ [Next]_vars => HistoryOK'
<1> SUFFICES ASSUME TypeOK, RunsAreOwned, [Next]_vars PROVE HistoryOK'
  OBVIOUS
<1> USE DEF threads, lock, store, daemon, history
<1>0. stale \subseteq Torrents /\ cutShort \subseteq RunIds /\ rows \subseteq Torrents
      /\ polled \subseteq Torrents
  BY DEF TypeOK, StoreOK, HistoryOK
<1>1. ASSUME NEW t \in Threads, InsertRunItems(t) \/ Execute(t) \/ EndRun(t)
      PROVE  HistoryOK'
  <2>1. id[t] \in RunIds
    BY <1>1, OwnRun DEF InsertRunItems, Execute, EndRun, InFlight
  <2>2. stale' = stale /\ (cutShort' = cutShort \/ cutShort' = cutShort \cup {id[t]})
    BY <1>1 DEF InsertRunItems, Execute, EndRun, ExecuteFails, CutShort
  <2> QED BY <1>0, <2>1, <2>2 DEF HistoryOK
<1>2. ASSUME NEW t \in Threads, Forget(t) PROVE HistoryOK'
  BY <1>0, <1>2 DEF Forget, OutlivedBy, HistoryOK
<1>3. CASE UpsertTorrents
  BY <1>0, <1>3 DEF UpsertTorrents, OutlivedBy, HistoryOK
<1>4. CASE Exit
  <2>1. \A t \in Threads : pc[t] \in InFlight => id[t] \in RunIds
    BY OwnRun
  <2> QED BY <1>0, <1>4, <2>1 DEF Exit, CutShort, OutlivedBy, HistoryOK
<1>5. CASE UNCHANGED <<stale, cutShort>>
  BY <1>0, <1>5 DEF HistoryOK
<1>6. ASSUME NEW t \in Threads,
             \/ HttpTrig(t) \/ WatcherTrig(t) \/ CliTrig(t) \/ Plan(t) \/ Lock(t)
             \/ InsertRun(t) \/ Arm(t) \/ Candidate(t) \/ Release(t)
      PROVE  UNCHANGED <<stale, cutShort>>
  BY <1>6
  DEF HttpTrig, WatcherTrig, CliTrig, Trig, Plan, Lock, InsertRun, Arm, Candidate, Release
<1>7. ASSUME NEW r \in RunIds, StopCheck(r) \/ RequestStop(r)
      PROVE  UNCHANGED <<stale, cutShort>>
  BY <1>7 DEF StopCheck, RequestStop
<1>8. CASE \/ ListTorrents \/ Reload \/ StartPollers \/ SwapEngine \/ Terminate
           \/ UNCHANGED vars
  BY <1>5, <1>8 DEF ListTorrents, Reload, StartPollers, SwapEngine, Terminate, vars
<1> QED
  BY <1>1, <1>2, <1>3, <1>4, <1>5, <1>6, <1>7, <1>8 DEF Next, Step, Daemon

\* No step gives a variable a value of another type.
LEMMA StepTypeOK == TypeOK /\ RunsAreOwned /\ [Next]_vars => TypeOK'
<1> SUFFICES ASSUME TypeOK, RunsAreOwned, [Next]_vars
             PROVE  (ThreadsOK /\ LockOK /\ StoreOK /\ DaemonOK)'
  BY StepHistoryOK DEF TypeOK
<1> DEFINE Typed == ThreadsOK /\ LockOK /\ StoreOK /\ DaemonOK
<1> USE DEF TypeOK, threads, lock, store, daemon, history
<1>1. ASSUME NEW t \in Threads, NEW e \in Engines, NEW q \in BOOLEAN, Trig(t, e, q)
      PROVE  Typed'
  <2>1. ThreadsOK'
    BY <1>1, Consts DEF Trig, ThreadsOK, Goto, Locs, ResolveRunMode
  <2>2. LockOK' /\ StoreOK' /\ DaemonOK'
    BY <1>1 DEF Trig, LockOK, StoreOK, DaemonOK
  <2> QED BY <2>1, <2>2
<1>2. ASSUME NEW t \in Threads, Plan(t) PROVE Typed'
  <2>1. ThreadsOK'
    <3>1. plan' \in [Threads -> Seq(Torrents)]
      <4>1. \A p \in RankedPrefixes(rows) : p \in Seq(Torrents)
        BY PrefixFacts DEF StoreOK
      <4> QED BY <1>2, <4>1 DEF Plan, ThreadsOK
    <3> QED BY <1>2, <3>1 DEF Plan, ThreadsOK, Goto, Leave, Locs
  <2>2. LockOK' /\ StoreOK' /\ DaemonOK'
    BY <1>2 DEF Plan, LockOK, StoreOK, DaemonOK
  <2> QED BY <2>1, <2>2
<1>3. ASSUME NEW t \in Threads, Lock(t) PROVE Typed'
  <2>1. ThreadsOK'
    BY <1>3 DEF Lock, ThreadsOK, Goto, Leave, Locs
  <2>2. LockOK' /\ StoreOK' /\ DaemonOK'
    BY <1>3 DEF Lock, LockOK, StoreOK, DaemonOK
  <2> QED BY <2>1, <2>2
<1>4. ASSUME NEW t \in Threads, InsertRun(t) PROVE Typed'
  <2>1. ThreadsOK'
    <3>1. id' \in [Threads -> 0..MaxRuns]
      <4>1. nextRun <= MaxRuns => nextRun \in 0..MaxRuns
        BY Consts DEF StoreOK
      <4> QED BY <1>4, <4>1 DEF InsertRun, ThreadsOK
    <3> QED BY <1>4, <3>1 DEF InsertRun, ThreadsOK, Goto, Leave, Locs
  <2>2. StoreOK'
    <3>1. [by |-> Trigger[t], mode |-> mode[t], items |-> <<>>,
           status |-> InitialStatus(t)] \in RunRows
      BY Consts DEF RunRows, Statuses, InitialStatus, ThreadsOK
    <3>2. nextRun <= MaxRuns => nextRun \in RunIds /\ nextRun + 1 \in 1..(MaxRuns + 1)
      BY Consts DEF StoreOK, RunIds
    <3>3. row' \in [RunIds -> RunRows] /\ nextRun' \in 1..(MaxRuns + 1)
      BY <1>4, <3>1, <3>2 DEF InsertRun, StoreOK
    <3> QED BY <1>4, <3>3 DEF InsertRun, StoreOK
  <2>3. LockOK' /\ DaemonOK'
    BY <1>4 DEF InsertRun, LockOK, DaemonOK
  <2> QED BY <2>1, <2>2, <2>3
<1>5. ASSUME NEW t \in Threads, InsertRunItems(t) PROVE Typed'
  <2>1. ThreadsOK'
    <3>1. plan' \in [Threads -> Seq(Torrents)]
      BY <1>5 DEF InsertRunItems, ThreadsOK
    <3> QED BY <1>5, <3>1 DEF InsertRunItems, ThreadsOK, Goto, Leave, Locs
  <2>2. StoreOK'
    <3>1. id[t] \in RunIds
      BY <1>5, OwnRun DEF InsertRunItems, InFlight
    <3>2. plan[t] \in Seq(Torrents)
      BY DEF ThreadsOK
    <3>3. row' \in [RunIds -> RunRows]
      BY <1>5, <3>1, <3>2, ItemsUpdates DEF InsertRunItems, StoreOK
    <3> QED BY <1>5, <3>3 DEF InsertRunItems, StoreOK
  <2>3. LockOK' /\ DaemonOK'
    BY <1>5 DEF InsertRunItems, LockOK, DaemonOK
  <2> QED BY <2>1, <2>2, <2>3
<1>6. ASSUME NEW t \in Threads, Arm(t) PROVE Typed'
  <2>1. ThreadsOK'
    BY <1>6 DEF Arm, ThreadsOK, Goto, Leave, Locs
  <2>2. LockOK' /\ StoreOK' /\ DaemonOK'
    BY <1>6 DEF Arm, ThreadsOK, LockOK, StoreOK, DaemonOK
  <2> QED BY <2>1, <2>2
<1>7. ASSUME NEW t \in Threads, Execute(t) PROVE Typed'
  <2>1. id[t] \in RunIds
    BY <1>7, OwnRun DEF Execute, InFlight
  <2>2. ThreadsOK'
    BY <1>7 DEF Execute, ExecuteFails, ThreadsOK, Goto, Leave, Locs
  <2>3. row' \in [RunIds -> RunRows]
    <3>1. \A s \in Statuses : [row EXCEPT ![id[t]].status = s] \in [RunIds -> RunRows]
      BY <2>1, StatusUpdates DEF StoreOK
    <3> QED BY <1>7, <3>1 DEF Execute, ExecuteFails, SetStatus, StoreOK, Statuses
  <2>4. LockOK' /\ StoreOK' /\ DaemonOK'
    BY <1>7, <2>3 DEF Execute, LockOK, StoreOK, DaemonOK
  <2> QED BY <2>2, <2>4
<1>8. ASSUME NEW t \in Threads, Candidate(t) PROVE Typed'
  <2>1. ThreadsOK'
    <3>1. pc' \in [Threads -> Locs]
      BY <1>8 DEF Candidate, ThreadsOK, Goto, Locs
    <3>2. idx' \in [Threads -> Nat \ {0}]
      <4>1. idx[t] + 1 \in Nat \ {0}
        BY DEF ThreadsOK
      <4>2. idx' = idx \/ idx' = [idx EXCEPT ![t] = idx[t] + 1]
        BY <1>8 DEF Candidate, NextItem
      <4> QED BY <4>1, <4>2 DEF ThreadsOK
    <3> QED BY <1>8, <3>1, <3>2 DEF Candidate, ThreadsOK
  <2>2. LockOK' /\ StoreOK' /\ DaemonOK'
    BY <1>8 DEF Candidate, LockOK, StoreOK, DaemonOK
  <2> QED BY <2>1, <2>2
<1>9. ASSUME NEW t \in Threads, Forget(t) PROVE Typed'
  <2>1. ThreadsOK'
    BY <1>9 DEF Forget, NextItem, ThreadsOK, Goto, Locs
  <2>2. LockOK' /\ StoreOK' /\ DaemonOK'
    BY <1>9 DEF Forget, LockOK, StoreOK, DaemonOK
  <2> QED BY <2>1, <2>2
<1>10. ASSUME NEW t \in Threads, EndRun(t) PROVE Typed'
  <2>1. id[t] \in RunIds
    BY <1>10, OwnRun DEF EndRun, InFlight
  <2>2. ThreadsOK'
    BY <1>10 DEF EndRun, ExecuteFails, ThreadsOK, Goto, Leave, Locs
  <2>3. row' \in [RunIds -> RunRows]
    <3>1. \A s \in Statuses : [row EXCEPT ![id[t]].status = s] \in [RunIds -> RunRows]
      BY <2>1, StatusUpdates DEF StoreOK
    <3> QED BY <1>10, <3>1 DEF EndRun, ExecuteFails, SetStatus, StoreOK, Statuses
  <2>4. LockOK' /\ StoreOK' /\ DaemonOK'
    BY <1>10, <2>3 DEF EndRun, LockOK, StoreOK, DaemonOK
  <2> QED BY <2>2, <2>4
<1>11. ASSUME NEW t \in Threads, Release(t) PROVE Typed'
  <2>1. ThreadsOK'
    BY <1>11, Consts DEF Release, ThreadsOK, Goto, Locs
  <2>2. LockOK' /\ StoreOK' /\ DaemonOK'
    BY <1>11, Consts DEF Release, LockOK, StoreOK, DaemonOK
  <2> QED BY <2>1, <2>2
<1>12. ASSUME NEW r \in RunIds, StopCheck(r) \/ RequestStop(r) PROVE Typed'
  <2>1. LockOK'
    BY <1>12, Consts DEF StopCheck, RequestStop, LockOK, RunIds
  <2>2. ThreadsOK' /\ StoreOK' /\ DaemonOK'
    BY <1>12 DEF StopCheck, RequestStop, ThreadsOK, StoreOK, DaemonOK
  <2> QED BY <2>1, <2>2
<1>13. CASE ListTorrents \/ UpsertTorrents
  <2>1. StoreOK' /\ DaemonOK'
    BY <1>13 DEF ListTorrents, UpsertTorrents, StoreOK, DaemonOK
  <2>2. ThreadsOK' /\ LockOK'
    BY <1>13 DEF ListTorrents, UpsertTorrents, ThreadsOK, LockOK
  <2> QED BY <2>1, <2>2
<1>14. CASE Reload \/ StartPollers \/ SwapEngine \/ Terminate
  <2>1. DaemonOK'
    BY <1>14 DEF Reload, StartPollers, SwapEngine, Terminate, DaemonOK
  <2>2. ThreadsOK' /\ LockOK' /\ StoreOK'
    BY <1>14 DEF Reload, StartPollers, SwapEngine, Terminate, ThreadsOK, LockOK, StoreOK
  <2> QED BY <2>1, <2>2
<1>15. CASE Exit
  <2>1. ThreadsOK'
    <3>1. pc' \in [Threads -> Locs]
      BY <1>15 DEF Exit, ThreadsOK, Locs
    <3>2. mode' \in [Threads -> {"live", "dry-run"}] /\ acts' \in [Threads -> BOOLEAN]
      BY <1>15 DEF Exit, ThreadsOK
    <3>3. plan' \in [Threads -> Seq(Torrents)]
      BY <1>15 DEF Exit, ThreadsOK
    <3>4. id' \in [Threads -> 0..MaxRuns] /\ idx' \in [Threads -> Nat \ {0}]
      BY <1>15, Consts DEF Exit, ThreadsOK
    <3> QED BY <3>1, <3>2, <3>3, <3>4 DEF ThreadsOK
  <2>2. LockOK' /\ StoreOK' /\ DaemonOK'
    <3>1. LockOK'
      BY <1>15, Consts DEF Exit, LockOK
    <3>2. StoreOK' /\ DaemonOK'
      BY <1>15 DEF Exit, StoreOK, DaemonOK
    <3> QED BY <3>1, <3>2
  <2> QED BY <2>1, <2>2
<1>16. CASE UNCHANGED vars
  BY <1>16 DEF vars, ThreadsOK, LockOK, StoreOK, DaemonOK
<1> QED
  BY <1>1, <1>2, <1>3, <1>4, <1>5, <1>6, <1>7, <1>8, <1>9, <1>10, <1>11, <1>12, <1>13,
     <1>14, <1>15, <1>16
  DEF Next, Step, Daemon, HttpTrig, WatcherTrig, CliTrig, DaemonOK

\* Init satisfies the inductive invariant.
LEMMA InitIInv == Init => IInv
<1> SUFFICES ASSUME Init PROVE IInv
  OBVIOUS
<1>1. SlotIsHeld /\ RunsAreOwned /\ StopsAreAsked
  BY DEF Init, SlotIsHeld, RunsAreOwned, StopsAreAsked, SlotLocs, PlansFirst, InFlight
<1> QED BY <1>1, InitTypeOK DEF IInv

\* Only Lock gives the slot, to a thread that finds it free, and only the thread
\* that has it, or its death, gives it back.
LEMMA StepSlotIsHeld == TypeOK /\ SlotIsHeld /\ [Next]_vars => SlotIsHeld'
<1> SUFFICES ASSUME TypeOK, SlotIsHeld, [Next]_vars PROVE SlotIsHeld'
  OBVIOUS
<1> USE DEF TypeOK, ThreadsOK, SlotIsHeld, SlotLocs, PlansFirst, threads, lock, store, daemon
<1>1. ASSUME NEW t \in Threads, NEW e \in Engines, NEW q \in BOOLEAN, Trig(t, e, q)
      PROVE  SlotIsHeld'
  BY <1>1, Consts DEF Trig, Goto, ResolveRunMode
<1>2. ASSUME NEW t \in Threads, Plan(t) PROVE SlotIsHeld'
  BY <1>2 DEF Plan, Goto, Leave
<1>3. ASSUME NEW t \in Threads, Lock(t) PROVE SlotIsHeld'
  BY <1>3, Consts DEF Lock, Goto, Leave
<1>4. ASSUME NEW t \in Threads, InsertRun(t) \/ InsertRunItems(t) PROVE SlotIsHeld'
  BY <1>4 DEF InsertRun, InsertRunItems, Goto, Leave
<1>5. ASSUME NEW t \in Threads, Arm(t) \/ Execute(t) PROVE SlotIsHeld'
  BY <1>5 DEF Arm, Execute, ExecuteFails, Goto, Leave
<1>6. ASSUME NEW t \in Threads, Candidate(t) \/ Forget(t) \/ EndRun(t) PROVE SlotIsHeld'
  BY <1>6 DEF Candidate, Forget, EndRun, ExecuteFails, Goto, Leave
<1>7. ASSUME NEW t \in Threads, Release(t) PROVE SlotIsHeld'
  BY <1>7 DEF Release, Releases, Goto
<1>8. ASSUME NEW r \in RunIds, StopCheck(r) \/ RequestStop(r) PROVE SlotIsHeld'
  BY <1>8 DEF StopCheck, RequestStop
<1>9. CASE ListTorrents \/ UpsertTorrents \/ Reload \/ StartPollers \/ SwapEngine \/ Terminate
  BY <1>9 DEF ListTorrents, UpsertTorrents, Reload, StartPollers, SwapEngine, Terminate
\* A CLI process keeps the slot over the death of the daemon.
<1>10. CASE Exit
  BY <1>10, Consts DEF Exit
<1>11. CASE UNCHANGED vars
  BY <1>11 DEF vars
<1> QED
  BY <1>1, <1>2, <1>3, <1>4, <1>5, <1>6, <1>7, <1>8, <1>9, <1>10, <1>11
  DEF Next, Step, Daemon, HttpTrig, WatcherTrig, CliTrig, DaemonOK

\* A step that inserts no row keeps the owners.
LEMMA OwnersKept ==
  ASSUME TypeOK, RunsAreOwned, nextRun' = nextRun,
         \A r \in RunIds : row'[r].by = row[r].by,
         \A t \in Threads : pc'[t] \in InFlight => pc[t] \in InFlight /\ id'[t] = id[t]
  PROVE  RunsAreOwned'
<1>1. \A t \in Threads : pc[t] \in InFlight => id[t] \in RunIds
  BY OwnRun
<1> QED BY <1>1 DEF RunsAreOwned

\* A thread's row was inserted by it: the numbers of rows are not given twice.
LEMMA StepRunsAreOwned == TypeOK /\ RunsAreOwned /\ [Next]_vars => RunsAreOwned'
<1> SUFFICES ASSUME TypeOK, RunsAreOwned, [Next]_vars PROVE RunsAreOwned'
  OBVIOUS
<1> USE DEF TypeOK, ThreadsOK, InFlight, threads, lock, store, daemon
<1>1. ASSUME NEW t \in Threads, NEW e \in Engines, NEW q \in BOOLEAN, Trig(t, e, q)
      PROVE  RunsAreOwned'
  BY <1>1, OwnersKept DEF Trig, Goto
<1>2. ASSUME NEW t \in Threads, Plan(t) \/ Lock(t) PROVE RunsAreOwned'
  BY <1>2, OwnersKept DEF Plan, Lock, Goto, Leave
<1>3. ASSUME NEW t \in Threads, InsertRun(t) PROVE RunsAreOwned'
  <2>1. CASE UNCHANGED <<row, id, nextRun>>
    BY <1>3, <2>1, OwnersKept DEF InsertRun, Goto, Leave
  <2>2. CASE nextRun' = nextRun + 1
    <3>1. nextRun \in RunIds /\ nextRun \in Nat /\ nextRun' \in Nat
      BY <1>3, <2>2, Consts DEF InsertRun, RunIds, StoreOK
    <3>2. /\ id'[t] = nextRun /\ row'[nextRun].by = Trigger[t]
          /\ \A u \in Threads \ {t} : pc'[u] = pc[u] /\ id'[u] = id[u]
      BY <1>3, <2>2, <3>1 DEF InsertRun, StoreOK, Goto, Leave
    <3>3. ASSUME NEW u \in Threads \ {t}, pc[u] \in InFlight
          PROVE  id[u] \in 1..(nextRun' - 1) /\ id[u] # nextRun /\ row'[id[u]] = row[id[u]]
      <4>1. id[u] \in RunIds /\ id[u] \in Nat /\ id[u] < nextRun /\ id[u] >= 1
        BY <3>3, OwnRun DEF RunsAreOwned
      <4> QED BY <1>3, <2>2, <3>1, <4>1 DEF InsertRun, StoreOK
    <3>4. nextRun \in 1..(nextRun' - 1)
      BY <2>2, <3>1 DEF StoreOK
    <3>5. ASSUME NEW u \in Threads, pc'[u] \in InFlight
          PROVE  id'[u] \in 1..(nextRun' - 1) /\ row'[id'[u]].by = Trigger[u]
      <4>1. CASE u = t
        BY <3>2, <3>4, <4>1
      <4>2. CASE u # t
        <5>1. pc[u] \in InFlight /\ id'[u] = id[u]
          BY <3>2, <3>5, <4>2
        <5> QED BY <3>3, <4>2, <5>1 DEF RunsAreOwned
      <4> QED BY <4>1, <4>2
    <3>6. ASSUME NEW u \in Threads, NEW v \in Threads, pc'[u] \in InFlight,
                 pc'[v] \in InFlight, id'[u] = id'[v]
          PROVE  u = v
      <4>1. \A w \in {u, v} : w # t => pc[w] \in InFlight /\ id'[w] = id[w] /\ id[w] # nextRun
        BY <3>2, <3>3, <3>6
      <4>2. CASE u = t \/ v = t
        BY <3>2, <3>6, <4>1, <4>2
      <4>3. CASE u # t /\ v # t
        BY <3>6, <4>1, <4>3 DEF RunsAreOwned
      <4> QED BY <4>2, <4>3
    <3> QED BY <3>5, <3>6 DEF RunsAreOwned
  <2> QED BY <1>3, <2>1, <2>2 DEF InsertRun
<1>4. ASSUME NEW t \in Threads, InsertRunItems(t) PROVE RunsAreOwned'
  <2>1. \A q \in RunIds : row'[q].by = row[q].by
    <3>1. id[t] \in RunIds /\ plan[t] \in Seq(Torrents)
      BY <1>4, OwnRun DEF InsertRunItems
    <3>2. \A q \in RunIds : [row EXCEPT ![id[t]].items = plan[t]][q].by = row[q].by
      BY <3>1, ItemsUpdates DEF StoreOK
    <3> QED BY <1>4, <3>2 DEF InsertRunItems
  <2> QED BY <1>4, <2>1, OwnersKept DEF InsertRunItems, Goto, Leave
<1>5. ASSUME NEW t \in Threads, Arm(t) PROVE RunsAreOwned'
  BY <1>5, OwnersKept DEF Arm, Goto, Leave
<1>6. ASSUME NEW t \in Threads, Execute(t) PROVE RunsAreOwned'
  <2>1. \A q \in RunIds : row'[q].by = row[q].by
    <3>1. id[t] \in RunIds
      BY <1>6, OwnRun DEF Execute
    <3>2. \A s \in Statuses, q \in RunIds : [row EXCEPT ![id[t]].status = s][q].by = row[q].by
      BY <3>1, StatusUpdates DEF StoreOK
    <3> QED BY <1>6, <3>2 DEF Execute, ExecuteFails, SetStatus, Statuses
  <2> QED BY <1>6, <2>1, OwnersKept DEF Execute, ExecuteFails, Goto, Leave
<1>7. ASSUME NEW t \in Threads, Candidate(t) \/ Forget(t) PROVE RunsAreOwned'
  BY <1>7, OwnersKept DEF Candidate, Forget, Goto
<1>8. ASSUME NEW t \in Threads, EndRun(t) PROVE RunsAreOwned'
  <2>1. \A q \in RunIds : row'[q].by = row[q].by
    <3>1. id[t] \in RunIds
      BY <1>8, OwnRun DEF EndRun
    <3>2. \A s \in Statuses, q \in RunIds : [row EXCEPT ![id[t]].status = s][q].by = row[q].by
      BY <3>1, StatusUpdates DEF StoreOK
    <3> QED BY <1>8, <3>2 DEF EndRun, ExecuteFails, SetStatus, Statuses
  <2> QED BY <1>8, <2>1, OwnersKept DEF EndRun, ExecuteFails, Goto, Leave
<1>9. ASSUME NEW t \in Threads, Release(t) PROVE RunsAreOwned'
  BY <1>9, OwnersKept DEF Release, Goto
<1>10. ASSUME NEW r \in RunIds, StopCheck(r) \/ RequestStop(r) PROVE RunsAreOwned'
  BY <1>10, OwnersKept DEF StopCheck, RequestStop
<1>11. CASE ListTorrents \/ UpsertTorrents \/ Reload \/ StartPollers \/ SwapEngine \/ Terminate
  BY <1>11, OwnersKept
  DEF ListTorrents, UpsertTorrents, Reload, StartPollers, SwapEngine, Terminate
<1>12. CASE Exit
  BY <1>12, OwnersKept DEF Exit
<1>13. CASE UNCHANGED vars
  BY <1>13, OwnersKept DEF vars
<1> QED
  BY <1>1, <1>2, <1>3, <1>4, <1>5, <1>6, <1>7, <1>8, <1>9, <1>10, <1>11, <1>12, <1>13
  DEF Next, Step, Daemon, HttpTrig, WatcherTrig, CliTrig, DaemonOK

\* The stop endpoint compares the id before it cancels.
LEMMA StepStopsAreAsked == StopsAreAsked /\ [Next]_vars => StopsAreAsked'
<1> SUFFICES ASSUME StopsAreAsked, [Next]_vars PROVE StopsAreAsked'
  OBVIOUS
<1> USE DEF StopsAreAsked, threads, lock, store, daemon, history
<1>1. ASSUME NEW t \in Threads, HttpTrig(t) \/ WatcherTrig(t) \/ CliTrig(t)
      PROVE  StopsAreAsked'
  BY <1>1 DEF HttpTrig, WatcherTrig, CliTrig, Trig
<1>2. ASSUME NEW t \in Threads, Step(t) PROVE StopsAreAsked'
  BY <1>2
  DEF Step, Plan, Lock, InsertRun, InsertRunItems, Arm, Execute, Candidate, Forget, EndRun,
      Release
<1>3. ASSUME NEW r \in RunIds, StopCheck(r) \/ RequestStop(r) PROVE StopsAreAsked'
  BY <1>3 DEF StopCheck, RequestStop
<1>4. CASE ListTorrents \/ UpsertTorrents \/ Daemon
  BY <1>4
  DEF ListTorrents, UpsertTorrents, Daemon, Reload, StartPollers, SwapEngine, Terminate, Exit
<1>5. CASE UNCHANGED vars
  BY <1>5 DEF vars
<1> QED BY <1>1, <1>2, <1>3, <1>4, <1>5 DEF Next

\* No step leaves the inductive invariant.
LEMMA StepIInv == IInv /\ [Next]_vars => IInv'
  BY StepTypeOK, StepSlotIsHeld, StepRunsAreOwned, StepStopsAreAsked DEF IInv

\* Every variable of the life of a run keeps its type.
THEOREM TypeCorrect == Spec => []TypeOK
<1>1. IInv => TypeOK
  BY DEF IInv
<1> QED BY <1>1, InitIInv, StepIInv, PTL DEF Spec

\* The inductive invariant holds in every reachable state.
THEOREM Invariance == Spec => []IInv
<1> QED BY InitIInv, StepIInv, PTL DEF Spec

\* A thread that executes is in the slot, and the slot has one holder.
LEMMA IInvTakesTurns == IInv => LiveRunsTakeTurns
  BY DEF IInv, SlotIsHeld, SlotLocs, LiveRunsTakeTurns

\* Whatever fails, is cancelled or dies, and however many requests, watchers and
\* CLI processes there are, two live runs never both have a candidate to process.
THEOREM TurnTaking == Spec => []LiveRunsTakeTurns
<1> QED BY Invariance, IInvTakesTurns, PTL

\* The only step that marks a run stopped is the end of its own thread, when it
\* finds its own context cancelled.
LEMMA StepStops ==
  ASSUME IInv, [Next]_vars, NEW r \in RunIds,
         row'[r].status = "stopped", row[r].status # "stopped"
  PROVE  \/ r \in asked
         \/ row[r].by # "cli" /\ term
         \/ row[r].by = "disk_pressure" /\ engineDown
<1> USE DEF IInv, TypeOK, StoreOK, threads, lock, store, daemon, history
<1>1. ASSUME NEW t \in Threads, EndRun(t) PROVE r = id[t] /\ Cancelled(t)
  <2>1. id[t] \in RunIds
    BY <1>1, OwnRun DEF EndRun, InFlight
  <2>2. \/ row' = row
        \/ \E s \in {"stopped", "completed", "aborted"} :
             row' = [row EXCEPT ![id[t]].status = s] /\ (s = "stopped" => Cancelled(t))
    <3>1. CASE ExecuteFails(t)
      BY <3>1 DEF ExecuteFails, SetStatus
    <3>2. CASE SetStatus(id[t], "stopped") /\ idx[t] <= Len(Items(t))
      <4>1. Len(Items(t)) \in Nat /\ idx[t] \in Nat
        BY <2>1 DEF Items, RunRows, ThreadsOK
      <4>2. Cancelled(t)
        BY <1>1, <3>2, <4>1 DEF EndRun
      <4> QED BY <3>2, <4>2 DEF SetStatus
    <3>3. CASE SetStatus(id[t], "completed")
      BY <3>3 DEF SetStatus
    <3> QED BY <1>1, <3>1, <3>2, <3>3 DEF EndRun
  <2> QED BY <2>1, <2>2 DEF RunRows
<1>2. ASSUME NEW t \in Threads, EndRun(t) 
      PROVE  \/ r \in asked
             \/ row[r].by # "cli" /\ term
             \/ row[r].by = "disk_pressure" /\ engineDown
  <2>1. row[r].by = Trigger[t]
    BY <1>1, <1>2 DEF EndRun, RunsAreOwned, InFlight
  <2> QED BY <1>1, <1>2, <2>1 DEF Cancelled, InDaemon, StopsAreAsked
<1>3. ASSUME NEW t \in Threads, InsertRun(t) PROVE FALSE
  <2>1. \/ row' = row
        \/ \E x : x.status # "stopped" /\ row' = [row EXCEPT ![nextRun] = x]
    BY <1>3 DEF InsertRun, InitialStatus
  <2> QED BY <2>1
<1>4. ASSUME NEW t \in Threads, InsertRunItems(t) PROVE FALSE
  <2>1. row' = row \/ row' = [row EXCEPT ![id[t]].items = plan[t]]
    BY <1>4 DEF InsertRunItems
  <2>2. [row EXCEPT ![id[t]].items = plan[t]][r].status = row[r].status
    BY DEF RunRows
  <2> QED BY <2>1, <2>2
<1>5. ASSUME NEW t \in Threads, Execute(t) PROVE FALSE
  <2>1. id[t] \in RunIds
    BY <1>5, OwnRun DEF Execute, InFlight
  <2>2. row' = row \/ \E s \in {"running", "aborted"} : row' = [row EXCEPT ![id[t]].status = s]
    BY <1>5 DEF Execute, ExecuteFails, SetStatus
  <2> QED BY <2>1, <2>2 DEF RunRows
<1>6. CASE row' = row
  BY <1>6
<1>7. ASSUME NEW t \in Threads, Step(t), row' # row
      PROVE  InsertRun(t) \/ InsertRunItems(t) \/ Execute(t) \/ EndRun(t)
  BY <1>7 DEF Step, Plan, Lock, Arm, Candidate, Forget, Release
<1>8. CASE row' # row
  <2>1. \E t \in Threads : Step(t)
    BY <1>8
    DEF Next, vars, HttpTrig, WatcherTrig, CliTrig, Trig, StopCheck, RequestStop,
        ListTorrents, UpsertTorrents, Daemon, Reload, StartPollers, SwapEngine, Terminate, Exit
  <2> QED BY <1>2, <1>3, <1>4, <1>5, <1>7, <1>8, <2>1
<1> QED BY <1>6, <1>8

\* A run is marked stopped only when its own stop was asked for, or the daemon
\* cancelled it: a stop that comes late never halts the next run, for any number
\* of them and whatever fails.
THEOREM StopsHit == Spec => StopsHitTheirRun
<1>1. IInv /\ [Next]_vars =>
        [\A r \in RunIds : row'[r].status = "stopped" /\ row[r].status # "stopped" =>
           \/ r \in asked
           \/ row[r].by # "cli" /\ term
           \/ row[r].by = "disk_pressure" /\ engineDown]_vars
  BY StepStops
<1> QED BY <1>1, Invariance, PTL DEF Spec, StopsHitTheirRun

\* A step of the run of t, from its trigger to its end.
ThreadStep(t) == HttpTrig(t) \/ WatcherTrig(t) \/ CliTrig(t) \/ Step(t)

\* A step of t leaves the other threads alone, and the items of their runs.
LEMMA OthersKept ==
  ASSUME TypeOK, RunsAreOwned, NEW t \in Threads, ThreadStep(t), NEW u \in Threads, u # t
  PROVE  /\ pc'[u] = pc[u] /\ acts'[u] = acts[u] /\ plan'[u] = plan[u]
         /\ id'[u] = id[u] /\ idx'[u] = idx[u]
         /\ pc[u] \in InFlight => Items(u)' = Items(u)
<1> USE DEF TypeOK, ThreadsOK, threads, lock, store, daemon
<1>1. /\ pc'[u] = pc[u] /\ acts'[u] = acts[u] /\ plan'[u] = plan[u]
      /\ id'[u] = id[u] /\ idx'[u] = idx[u]
  <2>1. CASE HttpTrig(t) \/ WatcherTrig(t) \/ CliTrig(t)
    BY <2>1 DEF HttpTrig, WatcherTrig, CliTrig, Trig, Goto
  <2>2. CASE Plan(t) \/ Lock(t) \/ InsertRun(t) \/ InsertRunItems(t) \/ Arm(t)
    BY <2>2 DEF Plan, Lock, InsertRun, InsertRunItems, Arm, Goto, Leave
  <2>3. CASE Execute(t) \/ Candidate(t) \/ Forget(t) \/ EndRun(t) \/ Release(t)
    BY <2>3
    DEF Execute, ExecuteFails, Candidate, Forget, NextItem, EndRun, Release, Goto, Leave
  <2> QED BY <2>1, <2>2, <2>3 DEF ThreadStep, Step
<1>2. ASSUME pc[u] \in InFlight PROVE row'[id[u]].items = row[id[u]].items
  <2>1. id[u] \in RunIds /\ id[u] \in Nat /\ nextRun \in Nat /\ id[u] < nextRun
    BY <1>2, OwnRun
  <2>2. CASE InsertRun(t)
    BY <2>1, <2>2 DEF InsertRun, StoreOK
  <2>3. CASE InsertRunItems(t)
    <3>1. id[t] # id[u]
      BY <1>2, <2>3 DEF InsertRunItems, RunsAreOwned, InFlight
    <3> QED BY <2>1, <2>3, <3>1 DEF InsertRunItems, StoreOK
  <2>4. CASE Execute(t) \/ EndRun(t)
    <3>1. id[t] \in RunIds
      BY <2>4, OwnRun DEF Execute, EndRun, InFlight
    <3>2. \A s \in Statuses : [row EXCEPT ![id[t]].status = s][id[u]].items = row[id[u]].items
      BY <2>1, <3>1, StatusUpdates DEF StoreOK
    <3>3. row' = row \/ \E s \in Statuses : row' = [row EXCEPT ![id[t]].status = s]
      BY <2>4 DEF Execute, EndRun, ExecuteFails, SetStatus, Statuses
    <3> QED BY <3>2, <3>3
  <2>5. CASE row' = row
    BY <2>5
  <2> QED BY <2>2, <2>3, <2>4, <2>5
      DEF ThreadStep, HttpTrig, WatcherTrig, CliTrig, Trig, Step, Plan, Lock, Arm, Candidate,
          Forget, Release
<1> QED BY <1>1, <1>2 DEF Items

\* A candidate in progress is of the thread in the slot: nobody else plans there.
LEMMA ForgetsAlone ==
  ASSUME SlotIsHeld, NEW t \in Threads, pc[t] \in {"execute", "loop", "forget"},
         NEW u \in Threads, acts[u], pc[u] \in SlotLocs(u)
  PROVE  u = t
  BY DEF SlotIsHeld, SlotLocs

\* The history of the rows is not forgotten.
LEMMA StaleGrows ==
  ASSUME NEW t \in Threads, ThreadStep(t)
  PROVE  stale \subseteq stale' /\ (pc[t] # "forget" => stale' = stale)
  BY DEF ThreadStep, HttpTrig, WatcherTrig, CliTrig, Trig, Step, Plan, Lock, InsertRun,
         InsertRunItems, Arm, Execute, Candidate, Forget, EndRun, Release, OutlivedBy, history

\* Between the delete in qBittorrent and ForgetTorrent, and only there, a row comes
\* to be of a torrent that is gone.
LEMMA StepRowsAreAlive ==
  ASSUME IInv, RowsAreAlive, NEW t \in Threads, ThreadStep(t)
  PROVE  RowsAreAlive'
<1> USE DEF IInv, TypeOK, ThreadsOK, threads, lock, store, daemon, history
<1>2. ASSUME NEW u \in Threads \ {t}, pc[u] = "forget"
      PROVE  pc'[u] = "forget" /\ row'[id'[u]].items[idx'[u]] = row[id[u]].items[idx[u]]
  BY <1>2, OthersKept DEF InFlight, Items
<1>3. CASE Candidate(t)
  <2>1. pc[t] = "loop" /\ rows' = rows /\ stale' = stale /\ Items(t)' = Items(t)
    BY <1>3 DEF Candidate, Items
  <2>2. \/ qbit' = qbit
        \/ /\ qbit' = qbit \ {Items(t)[idx[t]]} /\ pc'[t] = "forget"
           /\ idx'[t] = idx[t]
    BY <1>3 DEF Candidate, Goto
  <2>3. ASSUME NEW h \in rows' \ (qbit' \cup stale')
        PROVE  \E u \in Threads : pc'[u] = "forget" /\ h = row'[id'[u]].items[idx'[u]]
    <3>1. CASE h \in qbit
      BY <2>1, <2>2, <2>3, <3>1 DEF Items
    <3>2. CASE h \notin qbit
      <4>1. PICK u \in Threads : pc[u] = "forget" /\ h = row[id[u]].items[idx[u]]
        BY <2>1, <2>3, <3>2 DEF RowsAreAlive, Items
      <4> QED BY <1>2, <2>1, <4>1
    <3> QED BY <3>1, <3>2
  <2> QED BY <2>3 DEF RowsAreAlive, Items
<1>4. CASE Forget(t)
  <2>1. /\ pc[t] = "forget" /\ qbit' = qbit /\ stale \subseteq stale' /\ rows' \subseteq rows
        /\ Items(t)[idx[t]] \notin rows' \/ Items(t)[idx[t]] \in stale'
    BY <1>4 DEF Forget, OutlivedBy
  <2>2. ASSUME NEW u \in Threads, pc[u] = "forget" PROVE u = t
    BY <2>1, <2>2 DEF SlotIsHeld, SlotLocs
  <2> QED BY <2>1, <2>2 DEF RowsAreAlive
<1>5. CASE pc[t] # "forget" /\ UNCHANGED <<rows, qbit, stale>>
  <2>1. ASSUME NEW h \in rows' \ (qbit' \cup stale')
        PROVE  \E u \in Threads : pc'[u] = "forget" /\ h = row'[id'[u]].items[idx'[u]]
    <3>1. PICK u \in Threads : pc[u] = "forget" /\ h = row[id[u]].items[idx[u]]
      BY <1>5, <2>1 DEF RowsAreAlive, Items
    <3> QED BY <1>2, <1>5, <3>1
  <2> QED BY <2>1 DEF RowsAreAlive, Items
<1> QED BY <1>3, <1>4, <1>5
    DEF ThreadStep, HttpTrig, WatcherTrig, CliTrig, Trig, Step, Plan, Lock, InsertRun,
        InsertRunItems, Arm, Execute, EndRun, Release

\* The index of a run is 1 until its first candidate.
LEMMA StepLoopsStartAtOne ==
  ASSUME TypeOK, LoopsStartAtOne, NEW t \in Threads, ThreadStep(t)
  PROVE  LoopsStartAtOne'
<1> USE DEF TypeOK, ThreadsOK, LoopsStartAtOne, threads
<1>1. CASE HttpTrig(t) \/ WatcherTrig(t) \/ CliTrig(t)
  BY <1>1 DEF HttpTrig, WatcherTrig, CliTrig, Trig, Goto
<1>2. CASE Plan(t) \/ Lock(t) \/ InsertRun(t) \/ InsertRunItems(t) \/ Arm(t)
  BY <1>2 DEF Plan, Lock, InsertRun, InsertRunItems, Arm, Goto, Leave
<1>3. CASE Execute(t) \/ Candidate(t) \/ Forget(t) \/ EndRun(t) \/ Release(t)
  BY <1>3
  DEF Execute, ExecuteFails, Candidate, Forget, NextItem, EndRun, Release, Goto, Leave
<1> QED BY <1>1, <1>2, <1>3 DEF ThreadStep, Step

\* What t has yet to delete stays there while t goes on.
LEMMA OwnPlanIsAlive ==
  ASSUME IInv, AliveInv, NEW t \in Threads, ThreadStep(t),
         ~PlansFirst(t), acts'[t]
  PROVE  PlanIsAlive(t)'
<1> USE DEF IInv, TypeOK, ThreadsOK, StoreOK, threads, lock, store, daemon, Goto, Leave
<1> DEFINE Here == pc'[t] \in {"insert", "items", "arm", "execute", "loop", "forget"}
           Known == qbit \cup stale
<1>0. stale \subseteq stale'
  BY StaleGrows
<1>1. CASE HttpTrig(t) \/ WatcherTrig(t) \/ CliTrig(t) \/ Lock(t) \/ Release(t)
  <2>1. ~Here
    <3>1. CASE HttpTrig(t) \/ WatcherTrig(t) \/ CliTrig(t)
      <4>1. ASSUME NEW e, NEW q, Trig(t, e, q) PROVE pc'[t] \in {"lock", "plan"}
        BY <4>1 DEF Trig
      <4> QED BY <3>1, <4>1 DEF HttpTrig, WatcherTrig, CliTrig
    <3>2. CASE Lock(t) \/ Release(t)
      BY <3>2 DEF Lock, Release
    <3> QED BY <1>1, <3>1, <3>2
  <2> QED BY <2>1 DEF PlanIsAlive
\* The rows that the plan is made from are in qBittorrent: t is in the slot.
<1>2. CASE Plan(t)
  <2>1. CASE pc'[t] = "release"
    BY <2>1 DEF PlanIsAlive
  <2>2. CASE pc'[t] # "release"
    <3>1. rows \subseteq Known
      <4>1. acts[t] /\ pc[t] \in SlotLocs(t) /\ pc[t] = "plan"
        BY <1>2 DEF Plan, SlotLocs
      <4>2. ~ \E u \in Threads : pc[u] = "forget"
        BY <4>1, ForgetsAlone
      <4> QED BY <4>2 DEF AliveInv, RowsAreAlive
    <3>2. PICK p \in RankedPrefixes(rows) : plan'[t] = p
      BY <1>2, <2>2 DEF Plan
    <3>3. Distinct(p) /\ \A i \in 1..Len(p) : p[i] \in rows
      BY <3>2, PrefixFacts
    <3> QED BY <1>0, <1>2, <2>2, <3>1, <3>2, <3>3 DEF Plan, PlanIsAlive, SlotLocs
  <2> QED BY <2>1, <2>2
<1>3. CASE InsertRun(t)
  <2>1. /\ pc[t] = "insert" /\ acts[t] /\ plan'[t] = plan[t] /\ qbit' = qbit
        /\ pc'[t] \in {"items", "release"}
    BY <1>3 DEF InsertRun
  <2> QED BY <1>0, <2>1 DEF AliveInv, PlansAreAlive, PlanIsAlive
<1>4. CASE InsertRunItems(t)
  <2>1. CASE pc'[t] = "release"
    BY <2>1 DEF PlanIsAlive
  <2>2. CASE pc'[t] # "release"
    <3>1. /\ pc[t] = "items" /\ acts[t] /\ pc'[t] = "arm" /\ qbit' = qbit
          /\ idx'[t] = 1 /\ id'[t] = id[t] /\ id[t] \in RunIds
      BY <1>4, <2>2, OwnRun DEF InsertRunItems, AliveInv, LoopsStartAtOne, InFlight
    <3>2. Items(t)' = plan[t]
      BY <1>4, <2>2, <3>1 DEF InsertRunItems, Items, RunRows
    <3> QED BY <1>0, <3>1, <3>2 DEF AliveInv, PlansAreAlive, PlanIsAlive
  <2> QED BY <2>1, <2>2
<1>5. CASE Arm(t) \/ Execute(t) \/ EndRun(t)
  <2>1. /\ pc[t] \in {"arm", "execute", "loop"} /\ acts[t] /\ qbit' = qbit
        /\ pc'[t] \in {"execute", "loop", "release"} /\ idx'[t] = idx[t]
    BY <1>5 DEF Arm, Execute, EndRun, ExecuteFails
  <2>2. Items(t)' = Items(t)
    <3>1. id[t] \in RunIds
      BY <2>1, OwnRun DEF InFlight
    <3>2. \A s \in Statuses : [row EXCEPT ![id[t]].status = s][id[t]].items = row[id[t]].items
      BY <3>1, StatusUpdates
    <3> QED BY <1>5, <3>2 DEF Arm, Execute, EndRun, ExecuteFails, SetStatus, Statuses, Items
  <2> QED BY <1>0, <2>1, <2>2 DEF AliveInv, PlansAreAlive, PlanIsAlive
\* The candidate occurs once in the plan: the rest of it is still there.
<1>6. CASE Candidate(t)
  <2>1. /\ pc[t] = "loop" /\ acts[t] /\ Items(t)' = Items(t)
        /\ idx[t] \in 1..Len(Items(t)) /\ Len(Items(t)) \in Nat
    <3>1. id[t] \in RunIds
      BY <1>6, OwnRun DEF Candidate, InFlight
    <3> QED BY <1>6, <3>1 DEF Candidate, Items, RunRows
  <2>2. Distinct(Items(t)) /\ \A i \in 1..Len(Items(t)) : i >= idx[t] => Items(t)[i] \in Known
    BY <2>1 DEF AliveInv, PlansAreAlive, PlanIsAlive
  <2>3. CASE pc'[t] = "forget"
    <3>1. idx'[t] = idx[t] /\ qbit' = qbit \ {Items(t)[idx[t]]}
      BY <1>6, <2>1, <2>3 DEF Candidate
    <3>2. ASSUME NEW i \in 1..Len(Items(t)), i > idx[t] PROVE Items(t)[i] \in Known'
      <4>1. Items(t)[i] # Items(t)[idx[t]] /\ Items(t)[i] \in Known
        BY <2>1, <2>2, <3>2 DEF Distinct
      <4> QED BY <1>0, <3>1, <4>1
    <3> QED BY <2>1, <2>2, <2>3, <3>1, <3>2 DEF PlanIsAlive
  <2>4. CASE pc'[t] # "forget"
    <3>1. idx'[t] = idx[t] + 1 /\ qbit' = qbit /\ pc'[t] = "loop"
      BY <1>6, <2>1, <2>4 DEF Candidate, NextItem
    <3>2. ASSUME NEW i \in 1..Len(Items(t)), i > idx'[t] \/ i = idx'[t]
          PROVE  Items(t)[i] \in Known'
      BY <1>0, <2>1, <2>2, <3>1, <3>2
    <3> QED BY <2>1, <2>2, <3>1, <3>2 DEF PlanIsAlive
  <2> QED BY <2>3, <2>4
<1>7. CASE Forget(t)
  <2>1. /\ pc[t] = "forget" /\ acts[t] /\ Items(t)' = Items(t) /\ qbit' = qbit
        /\ pc'[t] = "loop" /\ idx'[t] = idx[t] + 1 /\ idx[t] \in Nat
    BY <1>7 DEF Forget, Items, NextItem
  <2>2. Distinct(Items(t)) /\ \A i \in 1..Len(Items(t)) : i > idx[t] => Items(t)[i] \in Known
    BY <2>1 DEF AliveInv, PlansAreAlive, PlanIsAlive
  <2>3. ASSUME NEW i \in 1..Len(Items(t)), i > idx'[t] \/ i = idx'[t]
        PROVE  Items(t)[i] \in Known'
    BY <1>0, <2>1, <2>2, <2>3
  <2> QED BY <2>1, <2>2, <2>3 DEF PlanIsAlive
<1> QED BY <1>1, <1>2, <1>3, <1>4, <1>5, <1>6, <1>7 DEF ThreadStep, Step

\* No step of another thread takes away what t has yet to delete.
LEMMA OtherPlanIsAlive ==
  ASSUME IInv, AliveInv, NEW t \in Threads, ThreadStep(t), NEW u \in Threads, u # t,
         ~PlansFirst(u), acts[u]
  PROVE  PlanIsAlive(u)'
<1> USE DEF IInv
<1>0. stale \subseteq stale'
  BY StaleGrows
<1>1. /\ pc'[u] = pc[u] /\ plan'[u] = plan[u] /\ idx'[u] = idx[u]
      /\ pc[u] \in InFlight => Items(u)' = Items(u)
  BY OthersKept
<1>2. PlanIsAlive(u)
  BY DEF AliveInv, PlansAreAlive
<1>3. CASE qbit' = qbit
  <2>1. CASE pc[u] \in InFlight
    BY <1>0, <1>1, <1>2, <1>3, <2>1 DEF PlanIsAlive
  <2>2. CASE pc[u] \notin InFlight
    BY <1>0, <1>1, <1>2, <1>3, <2>2 DEF PlanIsAlive, InFlight
  <2> QED BY <2>1, <2>2
<1>4. CASE qbit' # qbit
  <2>1. pc[t] = "loop"
    BY <1>4
    DEF ThreadStep, HttpTrig, WatcherTrig, CliTrig, Trig, Step, Plan, Lock, InsertRun,
        InsertRunItems, Arm, Execute, Candidate, Forget, EndRun, Release, store
  <2>2. pc[u] \notin SlotLocs(u)
    BY <2>1, ForgetsAlone
  <2> QED BY <1>1, <2>2 DEF PlanIsAlive, SlotLocs
<1> QED BY <1>3, <1>4

\* A late poll writes rows of torrents that are gone, which is known.
LEMMA UpsertAliveInv == IInv /\ AliveInv /\ UpsertTorrents => AliveInv'
<1> SUFFICES ASSUME IInv, AliveInv, UpsertTorrents PROVE AliveInv'
  OBVIOUS
<1> USE DEF threads, lock, store, daemon, history
<1>1. /\ UNCHANGED <<pc, acts, plan, id, idx, row, qbit>>
      /\ stale \subseteq stale' /\ rows' \ (qbit \cup stale') \subseteq rows
  BY DEF UpsertTorrents, OutlivedBy
<1>2. RowsAreAlive'
  BY <1>1 DEF AliveInv, RowsAreAlive, Items
<1>3. LoopsStartAtOne'
  BY <1>1 DEF AliveInv, LoopsStartAtOne
<1>4. PlansAreAlive'
  BY <1>1 DEF AliveInv, PlansAreAlive, PlansFirst, PlanIsAlive, Items, Distinct
<1> QED BY <1>2, <1>3, <1>4 DEF AliveInv

\* The death of the daemon ends its threads; what one of them was about to forget is
\* known, and the others go on.
LEMMA ExitAliveInv == IInv /\ AliveInv /\ Exit => AliveInv'
<1> SUFFICES ASSUME IInv, AliveInv, Exit PROVE AliveInv'
  OBVIOUS
<1> USE DEF IInv, TypeOK, ThreadsOK, threads, lock, store, daemon, history
<1>1. /\ UNCHANGED <<row, rows, qbit>> /\ stale \subseteq stale'
      /\ \A t \in Threads :
           InDaemon(t) /\ pc[t] = "forget" /\ Items(t)[idx[t]] \in rows =>
             Items(t)[idx[t]] \in stale'
  BY DEF Exit, OutlivedBy
<1>2. \A t \in Threads :
        /\ InDaemon(t) => pc'[t] = "idle" /\ idx'[t] = 1 /\ acts'[t] = FALSE
        /\ ~InDaemon(t) => /\ pc'[t] = pc[t] /\ idx'[t] = idx[t] /\ acts'[t] = acts[t]
                           /\ plan'[t] = plan[t] /\ id'[t] = id[t]
  BY DEF Exit
<1>3. RowsAreAlive'
  <2> SUFFICES ASSUME NEW h \in rows \ (qbit \cup stale')
               PROVE  \E t \in Threads : pc'[t] = "forget" /\ h = row[id'[t]].items[idx'[t]]
    BY <1>1 DEF RowsAreAlive, Items
  <2>1. PICK t \in Threads : pc[t] = "forget" /\ h = Items(t)[idx[t]]
    BY <1>1 DEF AliveInv, RowsAreAlive
  <2>2. ~InDaemon(t)
    BY <1>1, <2>1
  <2> QED BY <1>2, <2>1, <2>2 DEF Items
<1>4. LoopsStartAtOne'
  BY <1>2 DEF AliveInv, LoopsStartAtOne
<1>5. ASSUME NEW t \in Threads, ~PlansFirst(t), acts'[t] PROVE PlanIsAlive(t)'
  <2>1. ~InDaemon(t)
    BY <1>2, <1>5
  <2>2. Items(t)' = Items(t)
    BY <1>1, <1>2, <2>1 DEF Items
  <2>3. /\ PlanIsAlive(t) /\ pc'[t] = pc[t] /\ plan'[t] = plan[t] /\ idx'[t] = idx[t]
        /\ qbit' = qbit
    BY <1>1, <1>2, <1>5, <2>1 DEF AliveInv, PlansAreAlive
  <2> HIDE DEF IInv, TypeOK
  <2> QED BY <1>1, <2>2, <2>3 DEF PlanIsAlive, Distinct
<1> QED BY <1>3, <1>4, <1>5 DEF AliveInv, PlansAreAlive, PlansFirst

\* Whatever fails, the rows and the plans stay alive but for what is known.
LEMMA StepAliveInv == IInv /\ AliveInv /\ [Next]_vars => AliveInv'
<1> SUFFICES ASSUME IInv, AliveInv, [Next]_vars PROVE AliveInv'
  OBVIOUS
<1>1. ASSUME NEW t \in Threads, ThreadStep(t) PROVE AliveInv'
  <2>1. RowsAreAlive' /\ LoopsStartAtOne'
    BY <1>1, StepRowsAreAlive, StepLoopsStartAtOne DEF IInv, AliveInv
  <2>2. ASSUME NEW u \in Threads, ~PlansFirst(u), acts'[u] PROVE PlanIsAlive(u)'
    <3>1. CASE u = t
      BY <1>1, <2>2, <3>1, OwnPlanIsAlive
    <3>2. CASE u # t
      <4>1. acts[u]
        BY <1>1, <2>2, <3>2, OthersKept DEF IInv
      <4> QED BY <1>1, <2>2, <3>2, <4>1, OtherPlanIsAlive
    <3> QED BY <3>1, <3>2
  <2> QED BY <2>1, <2>2 DEF AliveInv, PlansAreAlive, PlansFirst
<1>2. CASE UNCHANGED <<threads, row, rows, qbit, stale>>
  BY <1>2
  DEF threads, AliveInv, RowsAreAlive, LoopsStartAtOne, PlansAreAlive, PlanIsAlive, Items,
      Distinct, PlansFirst
<1>3. CASE UpsertTorrents \/ Exit
  BY <1>3, UpsertAliveInv, ExitAliveInv
<1>4. CASE ~(UpsertTorrents \/ Exit) /\ \A t \in Threads : ~ThreadStep(t)
  <2>1. UNCHANGED <<threads, row, rows, qbit, stale>>
    BY <1>4
    DEF Next, vars, ThreadStep, StopCheck, RequestStop, ListTorrents, Daemon, Reload,
        StartPollers, SwapEngine, Terminate, lock, store, daemon, history
  <2> QED BY <1>2, <2>1
<1> QED BY <1>1, <1>3, <1>4

\* No thread has planned yet.
LEMMA InitAliveInv == Init => AliveInv
  BY DEF Init, AliveInv, RowsAreAlive, LoopsStartAtOne, PlansAreAlive, PlansFirst

\* The candidate at which the watcher or the CLI has arrived is in qBittorrent, or is
\* known to have had a row that outlived it.
LEMMA AliveTargets ==
  ASSUME IInv, AliveInv, NEW t \in Threads, Trigger[t] # "http", pc[t] = "loop",
         idx[t] <= Len(Items(t))
  PROVE  Items(t)[idx[t]] \in qbit \cup stale
<1>1. acts[t] /\ ~PlansFirst(t)
  BY DEF IInv, SlotIsHeld, PlansFirst
<1>2. PlanIsAlive(t)
  BY <1>1 DEF AliveInv, PlansAreAlive
<1>3. idx[t] \in 1..Len(Items(t))
  <2>1. id[t] \in RunIds
    BY OwnRun DEF IInv, InFlight
  <2> QED BY <2>1 DEF IInv, TypeOK, ThreadsOK, StoreOK, Items, RunRows
<1> QED BY <1>2, <1>3 DEF PlanIsAlive

\* Whatever fails, dies or is late, and for any number of threads, torrents and runs,
\* taking the slot before planning keeps the plans of the watcher and of the CLI free
\* of reaped torrents: only one whose own row outlived it, because ForgetTorrent
\* failed or was never reached or a late poll wrote the row again, is a target twice.
THEOREM TargetsAreAlive == Spec => NoDeadTargets
<1>1. IInv /\ AliveInv /\ [Next]_vars =>
        [\A t \in Threads :
           (/\ Trigger[t] # "http" /\ pc[t] = "loop" /\ idx[t] <= Len(Items(t))
            /\ pc'[t] = "forget" \/ idx'[t] = idx[t] + 1)
             => Items(t)[idx[t]] \in qbit \cup stale]_vars
  BY AliveTargets
<1> QED BY <1>1, Invariance, InitAliveInv, StepAliveInv, PTL DEF Spec, NoDeadTargets

\* Only the thread that works on a run marks it, and the run is shown until its
\* thread ends it or is cut short: from InsertRun on by a request, from Execute on by
\* the others.
LEMMA StepDrivenInv == IInv /\ DrivenInv /\ [Next]_vars => DrivenInv'
<1> SUFFICES ASSUME IInv, DrivenInv, [Next]_vars PROVE DrivenInv'
  OBVIOUS
<1> USE DEF IInv, TypeOK, ThreadsOK, StoreOK, threads, lock, store, daemon, history, Shown
<1>0. \A t \in Threads : pc[t] \in InFlight => id[t] \in RunIds
  BY OwnRun
\* A step that changes no status and moves no thread out of its run.
<1>1. ASSUME \A r \in RunIds : row'[r].status = row[r].status, cutShort \subseteq cutShort',
             \A t \in Threads :
               /\ pc[t] \in InFlight => pc'[t] \in InFlight /\ id'[t] = id[t]
               /\ pc'[t] \in {"items", "arm"} =>
                    pc[t] \in {"items", "arm"} /\ acts'[t] = acts[t]
      PROVE  DrivenInv'
  <2>1. OnlyCutShortAreUndriven'
    <3>1. ASSUME NEW r \in RunIds, row'[r].status \in {"pending", "running"}, r \notin cutShort'
          PROVE  \E u \in Threads : id'[u] = r /\ pc'[u] \in InFlight
      <4>1. PICK u \in Threads : id[u] = r /\ pc[u] \in InFlight
        BY <1>1, <3>1 DEF DrivenInv, OnlyCutShortAreUndriven
      <4> QED BY <1>1, <4>1
    <3> QED BY <3>1 DEF OnlyCutShortAreUndriven
  <2>2. ASSUME NEW u \in Threads, pc'[u] \in {"items", "arm"},
               row'[id'[u]].status \in {"pending", "running"}
        PROVE  acts'[u] /\ Trigger[u] = "http"
    <3>1. pc[u] \in {"items", "arm"} /\ acts'[u] = acts[u]
      BY <1>1, <2>2
    <3>2. id'[u] = id[u] /\ row'[id[u]].status = row[id[u]].status
      BY <1>0, <1>1, <3>1 DEF InFlight
    <3> QED BY <2>2, <3>1, <3>2 DEF DrivenInv, ShownRunsWillAct
  <2> QED BY <2>1, <2>2 DEF DrivenInv, ShownRunsWillAct
\* A step of t that leaves its run, settled or cut short, or sets it running.
<1>2. ASSUME NEW t \in Threads, pc[t] \in InFlight, pc'[t] \notin {"items", "arm"},
             \A r \in RunIds \ {id[t]} : row'[r].status = row[r].status,
             \/ row'[id[t]].status \notin {"pending", "running"}
             \/ id[t] \in cutShort'
             \/ pc'[t] \in InFlight,
             UNCHANGED <<id, acts>>, \A u \in Threads \ {t} : pc'[u] = pc[u],
             cutShort \subseteq cutShort'
      PROVE  DrivenInv'
  <2>1. id[t] \in RunIds
    BY <1>0, <1>2
  <2>2. ASSUME NEW r \in RunIds, row'[r].status \in {"pending", "running"}, r \notin cutShort'
        PROVE  \E u \in Threads : id'[u] = r /\ pc'[u] \in InFlight
    <3>1. CASE r = id[t]
      BY <1>2, <2>2, <3>1
    <3>2. CASE r # id[t]
      <4>1. PICK u \in Threads : id[u] = r /\ pc[u] \in InFlight
        BY <1>2, <2>2, <3>2 DEF DrivenInv, OnlyCutShortAreUndriven
      <4>2. u # t
        BY <3>2, <4>1
      <4> QED BY <1>2, <4>1, <4>2
    <3> QED BY <3>1, <3>2
  <2>3. ASSUME NEW u \in Threads, pc'[u] \in {"items", "arm"}
        PROVE  pc[u] = pc'[u] /\ id[u] \in RunIds /\ row'[id[u]].status = row[id[u]].status
    <3>1. u # t /\ pc[u] = pc'[u]
      BY <1>2, <2>3
    <3>2. id[u] \in RunIds /\ id[u] # id[t]
      BY <1>0, <1>2, <2>3, <3>1 DEF RunsAreOwned, InFlight
    <3> QED BY <1>2, <3>1, <3>2
  <2>4. ShownRunsWillAct'
    BY <1>2, <2>3 DEF DrivenInv, ShownRunsWillAct
  <2> QED BY <2>2, <2>4 DEF DrivenInv, OnlyCutShortAreUndriven
\* Execute and EndRun, which set a status or have that write refused.
<1>3. ASSUME NEW t \in Threads, Execute(t) \/ EndRun(t) PROVE DrivenInv'
  <2>1. id[t] \in RunIds /\ pc[t] \in InFlight
    BY <1>0, <1>3 DEF Execute, EndRun, InFlight
  <2>2. \A s \in Statuses : /\ [row EXCEPT ![id[t]].status = s][id[t]].status = s
                            /\ \A r \in RunIds \ {id[t]} :
                                 [row EXCEPT ![id[t]].status = s][r].status = row[r].status
    BY <2>1 DEF RunRows
  <2>3. /\ \A r \in RunIds \ {id[t]} : row'[r].status = row[r].status
        /\ \/ row'[id[t]].status \notin {"pending", "running"}
           \/ id[t] \in cutShort'
           \/ pc'[t] \in InFlight
    <3>1. CASE ExecuteFails(t)
      BY <2>1, <2>2, <3>1 DEF ExecuteFails, SetStatus, CutShort, Statuses
    <3>2. CASE SetStatus(id[t], "running") /\ Goto(t, "loop")
      BY <2>2, <3>2 DEF SetStatus, Goto, Statuses, InFlight
    <3>3. CASE SetStatus(id[t], IF idx[t] <= Len(Items(t)) THEN "stopped" ELSE "completed")
      BY <2>2, <3>3 DEF SetStatus, Statuses
    <3> QED BY <1>3, <3>1, <3>2, <3>3 DEF Execute, EndRun
  <2>4. /\ pc'[t] \notin {"items", "arm"} /\ UNCHANGED <<id, acts>>
        /\ \A u \in Threads \ {t} : pc'[u] = pc[u]
        /\ cutShort \subseteq cutShort'
    BY <1>3 DEF Execute, EndRun, ExecuteFails, Goto, Leave, CutShort
  <2> QED BY <1>2, <2>1, <2>3, <2>4
<1>4. ASSUME NEW t \in Threads, NEW e, NEW q, Trig(t, e, q) PROVE DrivenInv'
  BY <1>1, <1>4 DEF Trig, Goto, InFlight
<1>5. ASSUME NEW t \in Threads, Plan(t) \/ Lock(t) PROVE DrivenInv'
  BY <1>1, <1>5 DEF Plan, Lock, Goto, Leave, InFlight
<1>6. ASSUME NEW t \in Threads, InsertRun(t) PROVE DrivenInv'
  <2>1. CASE UNCHANGED <<row, id, nextRun>>
    BY <1>1, <1>6, <2>1 DEF InsertRun, Goto, Leave, InFlight
  <2>2. CASE nextRun' = nextRun + 1
    <3>1. nextRun \in RunIds /\ nextRun \in Nat
      BY <1>6, <2>2, Consts DEF InsertRun, RunIds
    <3>2. /\ id'[t] = nextRun /\ pc'[t] = "items" /\ acts' = acts /\ cutShort' = cutShort
          /\ row'[nextRun].status = InitialStatus(t)
          /\ \A u \in Threads \ {t} : pc'[u] = pc[u] /\ id'[u] = id[u]
          /\ \A r \in RunIds \ {nextRun} : row'[r] = row[r]
          /\ pc[t] = "insert"
      BY <1>6, <2>2, <3>1 DEF InsertRun, Goto, Leave
    <3>3. OnlyCutShortAreUndriven'
      <4>1. ASSUME NEW r \in RunIds, r # nextRun, row'[r].status \in {"pending", "running"},
                   r \notin cutShort'
            PROVE  \E u \in Threads : id'[u] = r /\ pc'[u] \in InFlight
        <5>1. PICK u \in Threads : id[u] = r /\ pc[u] \in InFlight
          BY <3>2, <4>1 DEF DrivenInv, OnlyCutShortAreUndriven
        <5>2. u # t
          BY <3>2, <5>1 DEF InFlight
        <5> QED BY <3>2, <5>1, <5>2
      <4> QED BY <3>2, <4>1 DEF OnlyCutShortAreUndriven, InFlight
    <3>4. ASSUME NEW u \in Threads, pc'[u] \in {"items", "arm"},
                 row'[id'[u]].status \in {"pending", "running"}
          PROVE  acts'[u] /\ Trigger[u] = "http"
      <4>1. CASE u = t
        BY <3>2, <3>4, <4>1 DEF InitialStatus
      <4>2. CASE u # t
        <5>1. id[u] \in RunIds /\ id[u] # nextRun /\ pc[u] = pc'[u] /\ id'[u] = id[u]
          BY <3>1, <3>2, <3>4, <4>2, OwnRun DEF InFlight
        <5> QED BY <3>2, <3>4, <5>1 DEF DrivenInv, ShownRunsWillAct
      <4> QED BY <4>1, <4>2
    <3> QED BY <3>3, <3>4 DEF DrivenInv, ShownRunsWillAct
  <2> QED BY <1>6, <2>1, <2>2 DEF InsertRun
\* The items are written, or the run is cut short.
<1>7. ASSUME NEW t \in Threads, InsertRunItems(t) PROVE DrivenInv'
  <2>1. id[t] \in RunIds /\ pc[t] = "items" /\ id' = id /\ acts' = acts
        /\ cutShort \subseteq cutShort' /\ pc[t] \in InFlight
        /\ \A u \in Threads \ {t} : pc'[u] = pc[u]
    BY <1>0, <1>7 DEF InsertRunItems, InFlight, Goto, Leave, CutShort
  <2>2. \A r \in RunIds : row'[r].status = row[r].status
    <3>1. \A r \in RunIds : [row EXCEPT ![id[t]].items = plan[t]][r].status = row[r].status
      BY <2>1 DEF RunRows
    <3> QED BY <1>7, <3>1 DEF InsertRunItems
  <2>3. CASE pc'[t] = "arm"
    BY <1>1, <2>1, <2>2, <2>3 DEF InFlight
  <2>4. CASE pc'[t] # "arm" /\ ~acts[t]
    <3>1. pc'[t] = "release" /\ row[id[t]].status \notin {"pending", "running"}
      BY <1>7, <2>1, <2>4 DEF InsertRunItems, Goto, Leave, DrivenInv, ShownRunsWillAct
    <3> QED BY <1>2, <2>1, <2>2, <3>1
  <2>5. CASE pc'[t] # "arm" /\ acts[t]
    <3>1. pc'[t] = "release" /\ id[t] \in cutShort'
      BY <1>7, <2>5 DEF InsertRunItems, Goto, Leave, CutShort
    <3> QED BY <1>2, <2>1, <2>2, <3>1
  <2> QED BY <2>3, <2>4, <2>5
\* A CLI process that cannot build its Actor leaves a run that is not shown.
<1>8. ASSUME NEW t \in Threads, Arm(t) PROVE DrivenInv'
  <2>1. CASE pc'[t] = "execute"
    BY <1>1, <1>8, <2>1 DEF Arm, Goto, Leave, InFlight
  <2>2. CASE pc'[t] # "execute"
    <3>1. /\ pc[t] = "arm" /\ ~InDaemon(t) /\ UNCHANGED <<row, id, acts, cutShort>>
          /\ pc'[t] = "release" /\ \A u \in Threads \ {t} : pc'[u] = pc[u]
      BY <1>8, <2>2 DEF Arm, Goto, Leave
    <3>2. row[id[t]].status \notin {"pending", "running"}
      BY <3>1 DEF DrivenInv, ShownRunsWillAct, InDaemon
    <3> QED BY <1>2, <3>1, <3>2 DEF InFlight
  <2> QED BY <2>1, <2>2
<1>9. ASSUME NEW t \in Threads, Candidate(t) \/ Forget(t) PROVE DrivenInv'
  BY <1>1, <1>9 DEF Candidate, Forget, Goto, InFlight
<1>10. ASSUME NEW t \in Threads, Release(t) PROVE DrivenInv'
  BY <1>1, <1>10 DEF Release, Goto, InFlight
\* The runs of a daemon that dies are cut short; those of the CLI go on.
<1>11. CASE Exit
  <2>1. /\ row' = row /\ cutShort \subseteq cutShort'
        /\ \A t \in Threads : InDaemon(t) /\ pc[t] \in InFlight => id[t] \in cutShort'
    BY <1>11 DEF Exit, CutShort
  <2>2. \A t \in Threads :
          /\ InDaemon(t) => pc'[t] = "idle"
          /\ ~InDaemon(t) => pc'[t] = pc[t] /\ id'[t] = id[t] /\ acts'[t] = acts[t]
    BY <1>11 DEF Exit
  <2>3. ASSUME NEW r \in RunIds, row[r].status \in {"pending", "running"}, r \notin cutShort'
        PROVE  \E u \in Threads : id'[u] = r /\ pc'[u] \in InFlight
    <3>1. PICK u \in Threads : id[u] = r /\ pc[u] \in InFlight
      BY <2>1, <2>3 DEF DrivenInv, OnlyCutShortAreUndriven
    <3> QED BY <2>1, <2>2, <2>3, <3>1
  <2>4. ShownRunsWillAct'
    BY <2>1, <2>2 DEF DrivenInv, ShownRunsWillAct
  <2> QED BY <2>1, <2>3, <2>4 DEF DrivenInv, OnlyCutShortAreUndriven
<1>12. CASE UNCHANGED <<threads, row, cutShort>>
  BY <1>1, <1>12
<1>13. CASE ~Exit /\ \A t \in Threads : ~ThreadStep(t)
  <2>1. UNCHANGED <<threads, row, cutShort>>
    BY <1>13
    DEF Next, vars, ThreadStep, StopCheck, RequestStop, ListTorrents, UpsertTorrents, Daemon,
        Reload, StartPollers, SwapEngine, Terminate
  <2> QED BY <1>12, <2>1
<1> QED
  BY <1>3, <1>4, <1>5, <1>6, <1>7, <1>8, <1>9, <1>10, <1>11, <1>13
  DEF ThreadStep, Step, HttpTrig, WatcherTrig, CliTrig

\* There are no rows yet.
LEMMA InitDrivenInv == Init => DrivenInv
  BY DEF Init, DrivenInv, OnlyCutShortAreUndriven, ShownRunsWillAct, Shown, NoRow

\* Whatever happens, the only runs that the UI can show for ever are those whose
\* request was given up before their items were written, of which a write was
\* refused, or whose daemon died: any other that is shown as in progress is some
\* thread's, which is on its way to settle it.
THEOREM ShownAreDriven == Spec => []OnlyCutShortAreUndriven
<1>1. DrivenInv => OnlyCutShortAreUndriven
  BY DEF DrivenInv
<1> QED BY <1>1, Invariance, InitDrivenInv, StepDrivenInv, PTL DEF Spec
=============================================================================
