----------------------------- MODULE ActorProofs -----------------------------
(***************************************************************************)
(* Proofs about Actor for any set of torrents, files and runs, any cap,    *)
(* any number of attempts and any choice of faults: type correctness; the  *)
(* invariants SucceededIsGone and ReapedOnce, and the order of deletion    *)
(* QbitDeleteIsLast, from the inductive invariant IInv of Actor; and what  *)
(* the rows tell of it: DeletionsAreTraced from TraceInv, EndedRunsAre-    *)
(* Closed and AuditTellsFilesApart from ClosedInv and AuditOK.             *)
(***************************************************************************)
EXTENDS Actor, FiniteSetTheorems, TLAPS

\* What the proofs use of the constants.
LEMMA Consts ==
  /\ MaxRuns \in Nat /\ MaxAttempts \in Nat \ {0}
  /\ Content \in [Torrents -> SUBSET Inodes]
  /\ Imports \in [Torrents -> SUBSET Files]
  /\ \A r \in RunInputs : r.items \in Seq(Torrents)
  BY ConstantsAssumption

\* Execute has not been called: every variable has its type.
LEMMA InitTypeOK == Init => TypeOK
<1> SUFFICES ASSUME Init PROVE TypeOK
  OBVIOUS
<1>1. LoopOK
  BY Consts DEF Init, LoopOK, Steps
<1>2. cancel \in BOOLEAN
  BY DEF Init
<1>3. WorkOK
  BY Consts DEF Init, WorkOK
<1>4. StoreOK
  <2>1. arr \subseteq Files
    BY Consts DEF Init
  <2> QED
    BY <2>1 DEF Init, StoreOK, RunStatus, ActionStatus
<1>5. WorldOK
  BY Consts DEF Init, WorldOK
<1> QED
  BY <1>1, <1>2, <1>3, <1>4, <1>5 DEF TypeOK

\* Within the plan, the candidate at work is a torrent.
LEMMA Candidate ==
  ASSUME TypeOK, pc # "idle", idx \in 1..Len(row[run].items)
  PROVE  h \in Torrents /\ run \in Runs
<1>1. row[run].items \in Seq(Torrents)
  BY Consts DEF TypeOK, LoopOK
<1> QED
  BY <1>1 DEF TypeOK, LoopOK, h

\* The variables of a processCandidate that has returned have their types.
LEMMA Cleared == ClearWork => WorkOK'
  BY Consts DEF ClearWork, WorkOK, Terminal

\* Every step of the Actor and of its surroundings preserves the types.
LEMMA StepTypeOK == TypeOK /\ [Next]_vars => TypeOK'
<1> SUFFICES ASSUME TypeOK, [Next]_vars PROVE TypeOK'
  OBVIOUS
<1> USE DEF loop, work, store, world
<1>1. ASSUME ActorStep PROVE TypeOK'
  <2>1. LoopOK'
    <3> USE Consts DEF TypeOK, LoopOK, Steps
    <3>1. CASE StartCandidate
      BY <3>1 DEF StartCandidate, InsertAction, NextItem
    <3>2. CASE EndRun
      BY <3>2 DEF EndRun
    <3>3. CASE ResolveLinks
      BY <3>3 DEF ResolveLinks, FinishAs
    <3>4. CASE ArrDone
      BY <3>4 DEF ArrDone
    <3>5. CASE ListFiles
      BY <3>5 DEF ListFiles, FinishAs
    <3>6. CASE StatDone
      BY <3>6 DEF StatDone
    <3>7. CASE QbitDelete
      BY <3>7 DEF QbitDelete, FinishAs
    <3>8. CASE Finish
      BY <3>8 DEF Finish, FinishAction, NextItem
    <3>9. CASE Forget
      BY <3>9 DEF Forget, NextItem
    <3>10. CASE \E f \in Files : ArrDelete(f)
      BY <3>10 DEF ArrDelete, FinishAs
    <3>11. CASE \E c \in Inodes : StatFile(c)
      BY <3>11 DEF StatFile, FinishAs
    <3> QED
      BY <1>1, <3>1, <3>2, <3>3, <3>4, <3>5, <3>6, <3>7, <3>8, <3>9, <3>10, <3>11 DEF ActorStep
  <2>2. cancel' \in BOOLEAN
    BY <1>1 DEF TypeOK, ActorStep, StartCandidate, InsertAction, EndRun, ResolveLinks,
       ArrDone, ListFiles, StatDone, QbitDelete, Finish, FinishAction, Forget, ArrDelete, StatFile
  <2>3. WorkOK'
    <3> USE Consts DEF TypeOK, WorkOK, Terminal
    <3>1. CASE ResolveLinks
      <4>1. LinksByHash(h) \subseteq Files
        BY DEF LinksByHash, StoreOK
      <4>2. CASE pc' = "arr"
        BY <3>1, <4>1, <4>2 DEF ResolveLinks, FinishAs
      <4>3. CASE pc' = "finish"
        BY <3>1, <4>1, <4>3 DEF ResolveLinks, FinishAs
      <4> QED
        BY <3>1, <4>2, <4>3 DEF ResolveLinks, FinishAs
    <3>2. CASE ListFiles
      <4>1. Content[h] \subseteq Inodes
        BY <3>2, Candidate DEF ListFiles, LoopOK
      <4> QED
        BY <3>2, <4>1 DEF ListFiles, FinishAs
    <3>3. CASE \E f \in Files : ArrDelete(f)
      BY <3>3 DEF ArrDelete, FinishAs, MoreAttempts
    <3>4. CASE QbitDelete
      BY <3>4 DEF QbitDelete, FinishAs, MoreAttempts
    <3>5. CASE \E c \in Inodes : StatFile(c)
      BY <3>5 DEF StatFile, FinishAs
    <3>6. CASE EndRun \/ ArrDone \/ StatDone
      BY <3>6 DEF EndRun, ArrDone, StatDone
    <3>7. CASE StartCandidate \/ Finish \/ Forget
      <4>1. ClearWork \/ UNCHANGED work
        BY <3>7 DEF StartCandidate, InsertAction, Finish, FinishAction, Forget, NextItem
      <4> QED
        BY <4>1, Cleared
    <3> QED
      BY <1>1, <3>1, <3>2, <3>3, <3>4, <3>5, <3>6, <3>7 DEF ActorStep
  <2>4. StoreOK'
    <3>1. ASSUME StartCandidate \/ Finish PROVE h \in Torrents /\ run \in Runs
      BY <3>1, Candidate DEF StartCandidate, InsertAction, Finish, FinishAction, TypeOK, LoopOK
    <3>2. CASE StartCandidate
      BY <3>1, <3>2 DEF StartCandidate, InsertAction, TypeOK, StoreOK, ActionStatus
    <3>3. CASE Finish
      <4>1. res \in ActionStatus /\ act \in [Runs -> [Torrents -> ActionStatus]]
        BY DEF TypeOK, WorkOK, StoreOK, ActionStatus
      <4>2. act' = act \/ act' = [act EXCEPT ![run][h] = res]
        BY <3>3 DEF Finish, FinishAction
      <4>3. row' = row /\ status' = status /\ mediaFiles' = mediaFiles /\ rows' = rows
        BY <3>3 DEF Finish, FinishAction
      <4>4. act' \in [Runs -> [Torrents -> ActionStatus]]
        BY <3>1, <3>3, <4>1, <4>2
      <4> QED
        BY <4>3, <4>4 DEF TypeOK, StoreOK
    <3>4. CASE EndRun \/ Forget
      BY <3>4 DEF EndRun, Forget, TypeOK, StoreOK, RunStatus
    <3>5. CASE UNCHANGED store
      BY <3>5 DEF TypeOK, StoreOK
    <3> QED
      BY <1>1, <3>2, <3>3, <3>4, <3>5 DEF ActorStep, ResolveLinks, ArrDone, ListFiles,
         StatDone, QbitDelete, ArrDelete, StatFile
  <2>5. WorldOK'
    BY <1>1 DEF TypeOK, WorldOK, ActorStep, StartCandidate, InsertAction, EndRun, ResolveLinks,
       ArrDone, ListFiles, StatDone, QbitDelete, Finish, FinishAction, Forget, ArrDelete,
       StatFile, RemoveTorrent
  <2> QED
    BY <2>1, <2>2, <2>3, <2>4, <2>5 DEF TypeOK
<1>2. ASSUME Environment PROVE TypeOK'
  <2>1. LoopOK' /\ WorkOK'
    BY <1>2, Cleared DEF TypeOK, LoopOK, WorkOK, Steps, Environment, Cancel, Crash, PollArr,
       PollTorrents, AddPeer, Upgrade, RemovePath
  <2>2. cancel' \in BOOLEAN
    BY <1>2 DEF TypeOK, Environment, Cancel, Crash, PollArr, PollTorrents, AddPeer, Upgrade,
       RemovePath
  <2>3. StoreOK' /\ WorldOK'
    BY <1>2 DEF TypeOK, StoreOK, WorldOK, Environment, Cancel, Crash, PollArr, PollTorrents,
       AddPeer, Upgrade, RemovePath
  <2> QED
    BY <2>1, <2>2, <2>3 DEF TypeOK
<1>3. ASSUME NEW r \in RunInputs, Execute(r) PROVE TypeOK'
  <2>1. run + 1 \in Runs /\ row'[run + 1] = r
    BY <1>3, Consts DEF TypeOK, Execute, LoopOK, StoreOK, Runs
  <2>2. LoopOK'
    BY <1>3, <2>1 DEF TypeOK, Execute, MayExecute, LoopOK, Steps, Runs
  <2>3. StoreOK'
    BY <1>3, <2>1 DEF TypeOK, Execute, StoreOK, RunStatus
  <2> QED
    BY <1>3, <2>2, <2>3 DEF Execute, TypeOK, WorkOK, WorldOK
<1>4. CASE UNCHANGED vars
  BY <1>4 DEF TypeOK, vars, LoopOK, WorkOK, StoreOK, WorldOK
<1> QED
  BY <1>1, <1>2, <1>3, <1>4 DEF Next

\* Type correctness: Execute stays within its plan and only ever works on a
\* live run.
THEOREM TypeCorrect == Spec => []TypeOK
  BY InitTypeOK, StepTypeOK, PTL DEF Spec
-----------------------------------------------------------------------------
\* What the candidate at work is does not change before its row is finished.
LEMMA SameCandidate ==
  ASSUME [Next]_vars, pc' \notin {"idle", "loop", "links", "forget"}
  PROVE  h' = h /\ act' = act
<1> USE DEF h, loop, work, store, world
<1>1. ASSUME ActorStep PROVE h' = h /\ act' = act
  BY <1>1 DEF ActorStep, StartCandidate, InsertAction, EndRun, ResolveLinks, ArrDone, ListFiles,
     StatDone, QbitDelete, Finish, FinishAction, Forget, ArrDelete, StatFile, NextItem, FinishAs
<1>2. ASSUME Environment PROVE h' = h /\ act' = act
  BY <1>2 DEF Environment, Cancel, Crash, PollArr, PollTorrents, AddPeer, Upgrade, RemovePath
<1>3. ASSUME NEW r \in RunInputs, Execute(r) PROVE h' = h /\ act' = act
  BY <1>3 DEF Execute
<1>4. CASE UNCHANGED vars
  BY <1>4 DEF vars
<1> QED
  BY <1>1, <1>2, <1>3, <1>4 DEF Next

\* Nothing comes back: *arr's files, qBit's torrents and their paths only go,
\* and a new peer is the fault of that name.
LEMMA WorldShrinks ==
  ASSUME [Next]_vars
  PROVE  /\ arr' \subseteq arr /\ qbit' \subseteq qbit /\ paths' \subseteq paths
         /\ peers \subseteq peers' /\ (peers' # peers => May("peer"))
<1> DEFINE Shrinks ==
      /\ arr' \subseteq arr /\ qbit' \subseteq qbit /\ paths' \subseteq paths
      /\ peers \subseteq peers' /\ (peers' # peers => May("peer"))
<1> USE DEF loop, work, store, world
<1>1. ASSUME ActorStep PROVE Shrinks
  BY <1>1 DEF ActorStep, StartCandidate, InsertAction, EndRun, ResolveLinks, ArrDone, ListFiles,
     StatDone, QbitDelete, Finish, FinishAction, Forget, ArrDelete, StatFile, RemoveTorrent
<1>2. ASSUME Environment PROVE Shrinks
  BY <1>2 DEF Environment, Cancel, Crash, PollArr, PollTorrents, AddPeer, Upgrade, RemovePath
<1>3. ASSUME NEW r \in RunInputs, Execute(r) PROVE Shrinks
  BY <1>3 DEF Execute
<1>4. CASE UNCHANGED vars
  BY <1>4 DEF vars
<1> QED
  BY <1>1, <1>2, <1>3, <1>4 DEF Next

\* Only QbitDelete takes a torrent out of qBit: the candidate at work.
LEMMA OnlyTheCandidateLeaves ==
  ASSUME [Next]_vars, NEW t \in qbit \ qbit'
  PROVE  pc = "qbit" /\ t = h /\ QbitDelete
<1> USE DEF loop, work, store, world
<1>1. ASSUME ActorStep PROVE QbitDelete
  BY <1>1 DEF ActorStep, StartCandidate, InsertAction, EndRun, ResolveLinks, ArrDone, ListFiles,
     StatDone, Finish, FinishAction, Forget, ArrDelete, StatFile
<1>2. ASSUME Environment PROVE FALSE
  BY <1>2 DEF Environment, Cancel, Crash, PollArr, PollTorrents, AddPeer, Upgrade, RemovePath
<1>3. ASSUME NEW r \in RunInputs, Execute(r) PROVE FALSE
  BY <1>3 DEF Execute
<1>4. ASSUME UNCHANGED vars PROVE FALSE
  BY <1>4 DEF vars
<1>5. QbitDelete
  BY <1>1, <1>2, <1>3, <1>4 DEF Next
<1> QED
  BY <1>5 DEF QbitDelete, RemoveTorrent

\* No new hardlink appears but a peer's.
LEMMA SharedShrinks ==
  ASSUME [Next]_vars, NEW t, NEW c, Shared(t, c)'
  PROVE  Shared(t, c) \/ (c \in peers' /\ May("peer"))
  BY WorldShrinks DEF Shared

\* A file leaves todo when it was not seen as shared; the torrent is deleted
\* when none is left.
LEMMA SeenStep ==
  ASSUME [Next]_vars, pc' \in {"stat", "qbit"}
  PROVE  \/ pc' = "stat" /\ todo' = Content[h] /\ h \in qbit
         \/ /\ pc \in {"stat", "qbit"}
            /\ \A c \in todo \ todo' : ~(<<h, c>> \in paths /\ Shared(h, c))
            /\ pc' = "qbit" => pc = "qbit" \/ todo = {}
            /\ pc' = "stat" => pc = "stat"
<1> DEFINE Goal ==
      \/ pc' = "stat" /\ todo' = Content[h] /\ h \in qbit
      \/ /\ pc \in {"stat", "qbit"}
         /\ \A c \in todo \ todo' : ~(<<h, c>> \in paths /\ Shared(h, c))
         /\ pc' = "qbit" => pc = "qbit" \/ todo = {}
         /\ pc' = "stat" => pc = "stat"
<1> USE DEF loop, work, store, world, Listed
<1>1. ASSUME ActorStep PROVE Goal
  BY <1>1 DEF ActorStep, StartCandidate, InsertAction, EndRun, ResolveLinks, ArrDone, ListFiles,
     StatDone, QbitDelete, Finish, FinishAction, Forget, ArrDelete, StatFile, NextItem, FinishAs
<1>2. ASSUME Environment PROVE Goal
  BY <1>2 DEF Environment, Cancel, Crash, PollArr, PollTorrents, AddPeer, Upgrade, RemovePath
<1>3. ASSUME NEW r \in RunInputs, Execute(r) PROVE Goal
  BY <1>3 DEF Execute
<1>4. CASE UNCHANGED vars
  BY <1>4 DEF vars
<1> QED
  BY <1>1, <1>2, <1>3, <1>4 DEF Next

\* An action becomes "succeeded" only by the finish of a success.
LEMMA SuccessStep ==
  ASSUME TypeOK, [Next]_vars, NEW r \in Runs, NEW t \in Torrents,
         act'[r][t] = "succeeded", act[r][t] # "succeeded"
  PROVE  pc = "finish" /\ res = "succeeded" /\ t = h /\ r = run
<1> USE DEF loop, work, store, world
<1> act \in [Runs -> [Torrents -> ActionStatus]]
  BY DEF TypeOK, StoreOK
<1>1. ASSUME NEW s, NEW u, act' = [act EXCEPT ![run][u] = s]
      PROVE  s = "succeeded" /\ t = u /\ r = run
  BY <1>1
<1>2. ASSUME ActorStep PROVE act' = [act EXCEPT ![run][h] = res] /\ pc = "finish"
  <2>1. CASE StartCandidate
    BY <1>1, <2>1 DEF StartCandidate, InsertAction, NextItem
  <2> QED
    BY <1>2, <2>1 DEF ActorStep, EndRun, ResolveLinks, ArrDone, ListFiles,
       StatDone, QbitDelete, Finish, FinishAction, Forget, ArrDelete, StatFile, NextItem
<1>3. ASSUME Environment PROVE FALSE
  BY <1>3 DEF Environment, Cancel, Crash, PollArr, PollTorrents, AddPeer, Upgrade, RemovePath
<1>4. ASSUME NEW q \in RunInputs, Execute(q) PROVE FALSE
  BY <1>4 DEF Execute
<1>5. ASSUME UNCHANGED vars PROVE FALSE
  BY <1>5 DEF vars
<1> QED
  BY <1>1, <1>2, <1>3, <1>4, <1>5 DEF Next

\* A success is declared only when qBit answered that it deleted the candidate.
LEMMA SuccessAnswer ==
  ASSUME [Next]_vars, pc' = "finish", res' = "succeeded"
  PROVE  \/ pc = "finish" /\ res = "succeeded"
         \/ pc = "qbit" /\ RemoveTorrent(h)
<1> DEFINE Goal == \/ pc = "finish" /\ res = "succeeded"
                   \/ pc = "qbit" /\ RemoveTorrent(h)
<1> USE DEF loop, work, store, world
<1>1. ASSUME ActorStep PROVE Goal
  BY <1>1 DEF ActorStep, StartCandidate, InsertAction, EndRun, ResolveLinks, ArrDone, ListFiles,
     StatDone, QbitDelete, Finish, FinishAction, Forget, ArrDelete, StatFile, NextItem, FinishAs
<1>2. ASSUME Environment PROVE Goal
  BY <1>2 DEF Environment, Cancel, Crash, PollArr, PollTorrents, AddPeer, Upgrade, RemovePath
<1>3. ASSUME NEW r \in RunInputs, Execute(r) PROVE Goal
  BY <1>3 DEF Execute
<1>4. CASE UNCHANGED vars
  BY <1>4 DEF vars
<1> QED
  BY <1>1, <1>2, <1>3, <1>4 DEF Next
-----------------------------------------------------------------------------
\* The parts of the inductive invariant, one lemma each.  fanoutArr drops a
\* link only when *arr has confirmed its DELETE.
LEMMA ArrIsFirstStep == TypeOK /\ ArrIsFirst /\ [Next]_vars => ArrIsFirst'
<1> SUFFICES ASSUME TypeOK, ArrIsFirst, [Next]_vars PROVE ArrIsFirst'
  OBVIOUS
<1> USE DEF ArrIsFirst, loop, work, store, world
<1>1. ASSUME ActorStep PROVE ArrIsFirst'
  BY <1>1 DEF ActorStep, StartCandidate, InsertAction, EndRun, ResolveLinks, ArrDone, ListFiles,
     StatDone, QbitDelete, Finish, FinishAction, Forget, ArrDelete, StatFile, NextItem, FinishAs
<1>2. ASSUME Environment PROVE ArrIsFirst'
  BY <1>2 DEF Environment, Cancel, Crash, PollArr, PollTorrents, AddPeer, Upgrade, RemovePath
<1>3. ASSUME NEW r \in RunInputs, Execute(r) PROVE ArrIsFirst'
  BY <1>3 DEF Execute
<1>4. CASE UNCHANGED vars
  BY <1>4 DEF vars
<1> QED
  BY <1>1, <1>2, <1>3, <1>4 DEF Next

\* checkNlink: what was seen with one link has one link until a peer comes.
LEMMA SeenIsUnsharedStep == SeenIsUnshared /\ [Next]_vars => SeenIsUnshared'
<1> SUFFICES ASSUME SeenIsUnshared, [Next]_vars, pc' \in {"stat", "qbit"},
                    NEW c \in Content[h'], pc' = "qbit" \/ c \notin todo',
                    <<h', c>> \in paths', Shared(h, c)'
             PROVE  c \in peers' /\ May("peer")
  BY DEF SeenIsUnshared, May
<1>1. h' = h
  BY SameCandidate
<1>2. Shared(h, c) \/ (c \in peers' /\ May("peer"))
  BY SharedShrinks, <1>1 DEF Shared
<1>3. <<h, c>> \in paths /\ c \in Content[h]
  BY WorldShrinks, <1>1
<1>4. ASSUME pc \in {"stat", "qbit"}, pc = "qbit" \/ c \notin todo, Shared(h, c)
      PROVE  c \in peers' /\ May("peer")
  BY <1>3, <1>4, WorldShrinks DEF SeenIsUnshared
<1> QED
  BY <1>1, <1>2, <1>3, <1>4, SeenStep

\* A torrent that qBit still lists in checkNlink has no succeeded action.
LEMMA TargetIsFreshStep ==
  TypeOK /\ TargetIsFresh /\ SucceededIsGone /\ [Next]_vars => TargetIsFresh'
<1> SUFFICES ASSUME TypeOK, TargetIsFresh, SucceededIsGone, [Next]_vars,
                    pc' \in {"stat", "qbit"} \/ (pc' = "finish" /\ res' = "succeeded"),
                    NEW r \in Runs
             PROVE  act'[r][h'] # "succeeded"
  BY DEF TargetIsFresh
<1>1. h' = h /\ act' = act
  BY SameCandidate
<1>2. h \in qbit \/ pc \in {"stat", "qbit"} \/ (pc = "finish" /\ res = "succeeded")
  BY SeenStep, SuccessAnswer
<1> QED
  BY <1>1, <1>2 DEF TargetIsFresh, SucceededIsGone, TypeOK, WorldOK

\* Between qBit's answer and FinishAction the torrent stays gone.
LEMMA SuccessIsRealStep == SuccessIsReal /\ [Next]_vars => SuccessIsReal'
<1> SUFFICES ASSUME SuccessIsReal, [Next]_vars, pc' = "finish", res' = "succeeded"
             PROVE  Gone(h)'
  BY DEF SuccessIsReal
<1>1. h' = h
  BY SameCandidate
<1> QED
  BY <1>1, SuccessAnswer, WorldShrinks DEF SuccessIsReal, Gone, RemoveTorrent

\* finish() writes "succeeded" for a torrent that is gone, and it stays gone.
LEMMA SucceededIsGoneStep ==
  TypeOK /\ SuccessIsReal /\ SucceededIsGone /\ [Next]_vars => SucceededIsGone'
<1> SUFFICES ASSUME TypeOK, SuccessIsReal, SucceededIsGone, [Next]_vars,
                    NEW r \in Runs, NEW t \in Torrents, act'[r][t] = "succeeded"
             PROVE  t \notin qbit' /\ ~\E c \in Inodes : <<t, c>> \in paths'
  BY DEF SucceededIsGone
<1>1. t \notin qbit /\ ~\E c \in Inodes : <<t, c>> \in paths
  <2>1. CASE act[r][t] = "succeeded"
    BY <2>1 DEF SucceededIsGone
  <2>2. CASE act[r][t] # "succeeded"
    <3>1. pc = "finish" /\ res = "succeeded" /\ t = h
      BY <2>2, SuccessStep
    <3> QED
      BY <3>1 DEF SuccessIsReal, Gone
  <2> QED
    BY <2>1, <2>2
<1>2. qbit' \subseteq qbit /\ paths' \subseteq paths
  BY WorldShrinks
<1> QED
  BY <1>1, <1>2

\* finish() writes "succeeded" for a torrent with no earlier success.
LEMMA ReapedOnceStep ==
  TypeOK /\ TargetIsFresh /\ ReapedOnce /\ [Next]_vars => ReapedOnce'
<1> SUFFICES ASSUME TypeOK, TargetIsFresh, ReapedOnce, [Next]_vars,
                    NEW t \in Torrents, NEW r \in Runs, NEW s \in Runs,
                    act'[r][t] = "succeeded", act'[s][t] = "succeeded"
             PROVE  r = s
  BY DEF ReapedOnce
<1> QED
  BY SuccessStep DEF TargetIsFresh, ReapedOnce

\* The inductive invariant holds initially.
LEMMA InitIInv == Init => IInv
<1> SUFFICES ASSUME Init PROVE IInv
  OBVIOUS
<1>1. TypeOK
  BY InitTypeOK
<1>2. SucceededIsGone /\ ReapedOnce
  BY DEF Init, SucceededIsGone, ReapedOnce
<1> QED
  BY <1>1, <1>2 DEF Init, IInv, ArrIsFirst, SeenIsUnshared, TargetIsFresh, SuccessIsReal

\* The inductive invariant is preserved by every step.
LEMMA StepIInv == IInv /\ [Next]_vars => IInv'
  BY StepTypeOK, ArrIsFirstStep, SeenIsUnsharedStep, TargetIsFreshStep,
     SuccessIsRealStep, SucceededIsGoneStep, ReapedOnceStep DEF IInv

\* The inductive invariant holds of every reachable state.
THEOREM Invariance == Spec => []IInv
  BY InitIInv, StepIInv, PTL DEF Spec

\* A succeeded action is true: its torrent is gone from qBit and from the disk.
THEOREM SuccessHolds == Spec => []SucceededIsGone
<1>1. IInv => SucceededIsGone
  BY DEF IInv
<1> QED
  BY <1>1, Invariance, PTL

\* No torrent succeeds in two runs, so its bytes are credited once.
THEOREM CreditedOnce == Spec => []ReapedOnce
<1>1. IInv => ReapedOnce
  BY DEF IInv
<1> QED
  BY <1>1, Invariance, PTL

\* The order of deletion: *arr first, the last hardlink seen, qBittorrent last.
THEOREM QbitIsLast == Spec => QbitDeleteIsLast
<1> DEFINE A == \A t \in qbit \ qbit' :
                  /\ links \cap arr = {}
                  /\ \A c \in Content[t] :
                       <<t, c>> \in paths /\ Shared(t, c) => c \in peers /\ May("peer")
<1>1. IInv /\ [Next]_vars => A
  BY OnlyTheCandidateLeaves DEF IInv, ArrIsFirst, SeenIsUnshared
<1>2. IInv /\ [Next]_vars => [A]_vars
  BY <1>1
<1> QED
  BY <1>2, Invariance, PTL DEF Spec, QbitDeleteIsLast
-----------------------------------------------------------------------------
\* The plan of the run at work: torrents, each once.
LEMMA PlanFacts ==
  ASSUME TypeOK, pc # "idle"
  PROVE  /\ run \in Runs /\ run \in Nat /\ idx \in Nat \ {0}
         /\ row[run].items \in Seq(Torrents) /\ row[run].cap \in Nat
         /\ Len(row[run].items) \in Nat
         /\ \A i \in 1..Len(row[run].items) : row[run].items[i] \in Torrents
         /\ \A i, j \in 1..Len(row[run].items) :
              row[run].items[i] = row[run].items[j] => i = j
<1>1. row[run] \in RunInputs /\ run \in Runs /\ idx \in Nat \ {0} /\ run \in Nat
  BY Consts DEF TypeOK, LoopOK, Runs
<1>2. row[run].items \in Seq(Torrents) /\ row[run].cap \in Nat
  BY <1>1, ConstantsAssumption
<1> QED BY <1>1, <1>2, ConstantsAssumption

\* What the steps do to the actions: the action of the candidate at work is
\* inserted, or finished with its outcome.
LEMMA ActStep ==
  ASSUME TypeOK, [Next]_vars, act' # act
  PROVE  /\ pc \in {"loop", "finish"} /\ h \in Torrents /\ run \in Runs
         /\ idx \in 1..Len(row[run].items)
         /\ act' = [act EXCEPT ![run][h] = IF pc = "loop" THEN "running" ELSE res]
         /\ UNCHANGED <<run, row, status>>
         /\ pc = "loop" => pc' = "links" /\ UNCHANGED <<idx, work>> /\ ~AtCap
         /\ pc = "finish" => (pc' = "loop" /\ idx' = idx + 1) \/ (pc' = "forget" /\ idx' = idx)
<1> USE DEF loop, work, store, world
<1>1. CASE StartCandidate
  <2>1. idx \in 1..Len(row[run].items)
    BY <1>1, PlanFacts DEF StartCandidate
  <2>2. h \in Torrents /\ run \in Runs
    BY <1>1, <2>1, Candidate DEF StartCandidate
  <2> QED BY <1>1, <2>1, <2>2 DEF StartCandidate, InsertAction
<1>2. CASE Finish
  <2>1. idx \in 1..Len(row[run].items)
    BY <1>2 DEF Finish, TypeOK, LoopOK
  <2>2. h \in Torrents /\ run \in Runs
    BY <1>2, <2>1, Candidate DEF Finish
  <2> QED BY <1>2, <2>1, <2>2 DEF Finish, FinishAction, NextItem
<1>3. ActorStep => StartCandidate \/ Finish
  BY DEF ActorStep, EndRun, ResolveLinks, ArrDone, ListFiles, StatDone, QbitDelete, Forget,
     ArrDelete, StatFile
<1>4. ~Environment
  BY DEF Environment, Cancel, Crash, PollArr, PollTorrents, AddPeer, Upgrade, RemovePath
<1>5. ~ \E r \in RunInputs : Execute(r)
  BY DEF Execute
<1> QED BY <1>1, <1>2, <1>3, <1>4, <1>5 DEF Next, vars

\* The same, for one action: it stays, or is that of the candidate.
LEMMA OneAct ==
  ASSUME TypeOK, [Next]_vars, NEW r \in Runs, NEW t \in Torrents, act'[r][t] # act[r][t]
  PROVE  /\ r = run /\ t = h /\ act'[r][t] = (IF pc = "loop" THEN "running" ELSE res)
         /\ act' # act
<1>1. act' # act
  OBVIOUS
<1>2. act' = [act EXCEPT ![run][h] = IF pc = "loop" THEN "running" ELSE res]
  BY <1>1, ActStep
<1> QED BY <1>1, <1>2 DEF TypeOK, StoreOK

\* A run is begun with a row of its own, and until then its actions are blank.
LEMMA FutureIsBlankStep == TypeOK /\ FutureIsBlank /\ [Next]_vars => FutureIsBlank'
<1> SUFFICES ASSUME TypeOK, FutureIsBlank, [Next]_vars, NEW r \in Runs, r > run'
             PROVE  row'[r] = NoRun /\ \A t \in Torrents : act'[r][t] = "none"
  BY DEF FutureIsBlank
<1> run \in Nat /\ r \in Nat
  BY Consts DEF TypeOK, LoopOK, Runs
<1> USE DEF loop, work, store, world
<1>1. (run' = run /\ row' = row) \/ \E q \in RunInputs : Execute(q)
  <2>1. ActorStep => run' = run /\ row' = row
    BY DEF ActorStep, StartCandidate, InsertAction, EndRun, ResolveLinks, ArrDone, ListFiles,
       StatDone, QbitDelete, Finish, FinishAction, Forget, ArrDelete, StatFile
  <2>2. Environment => run' = run /\ row' = row
    BY DEF Environment, Cancel, Crash, PollArr, PollTorrents, AddPeer, Upgrade, RemovePath
  <2> QED BY <2>1, <2>2 DEF Next, vars
<1>2. run' >= run /\ row'[r] = row[r]
  BY <1>1 DEF Execute, TypeOK, StoreOK
<1>3. r > run
  BY <1>1, <1>2 DEF Execute
<1>4. ASSUME NEW t \in Torrents PROVE act'[r][t] = act[r][t]
  BY <1>3, OneAct
<1> QED BY <1>2, <1>3, <1>4 DEF FutureIsBlank

\* Each candidate of a run gets its action row when its turn comes, and keeps it
\* "running" until it is finished.
LEMMA RunIsOpenStep == TypeOK /\ FutureIsBlank /\ RunIsOpen /\ [Next]_vars => RunIsOpen'
<1> SUFFICES ASSUME TypeOK, FutureIsBlank, RunIsOpen, [Next]_vars PROVE RunIsOpen'
  OBVIOUS
<1> USE DEF loop, work, store, world
\* The index moves on, or the candidate is still the same.
<1>1. ASSUME pc # "idle", UNCHANGED <<run, row, status, act>>,
             \/ pc' = "loop" /\ idx' = idx + 1
             \/ /\ idx' = idx
                /\ pc' = "loop" => pc = "loop"
                /\ pc' \in AtWork => pc \in AtWork
      PROVE  RunIsOpen'
  <2>1. CASE pc' = "loop" /\ idx' = idx + 1
    <3>1. ASSUME NEW i \in 1..Len(row[run].items), i >= idx'
          PROVE  act[run][row[run].items[i]] = "none"
      BY <1>1, <2>1, <3>1, PlanFacts DEF RunIsOpen
    <3> QED BY <1>1, <2>1, <3>1, PlanFacts DEF RunIsOpen, AtWork
  <2>2. CASE idx' = idx
    <3>1. h' = h
      BY <1>1, <2>2 DEF h
    <3> QED BY <1>1, <2>2, <3>1, PlanFacts DEF RunIsOpen
  <2> QED BY <1>1, <2>1, <2>2
<1>2. CASE act' # act
  <2> DEFINE s == IF pc = "loop" THEN "running" ELSE res
  <2>1. /\ pc \in {"loop", "finish"} /\ h \in Torrents /\ run \in Runs
        /\ idx \in 1..Len(row[run].items)
        /\ act' = [act EXCEPT ![run][h] = s]
        /\ UNCHANGED <<run, row, status>>
    BY <1>2, ActStep
  <2>2. \A i \in 1..Len(row[run].items) : i > idx => act'[run][row[run].items[i]] = "none"
    <3>1. ASSUME NEW i \in 1..Len(row[run].items), i > idx
          PROVE  act'[run][row[run].items[i]] = act[run][row[run].items[i]]
      <4>1. row[run].items[i] # h /\ row[run].items[i] \in Torrents
        BY <2>1, <3>1, PlanFacts DEF h
      <4> QED BY <2>1, <4>1 DEF TypeOK, StoreOK
    <3> QED BY <2>1, <3>1 DEF RunIsOpen
  <2>3. act'[run][h] = s
    BY <2>1 DEF TypeOK, StoreOK
  <2>4. CASE pc = "loop"
    <3>1. pc' = "links" /\ idx' = idx /\ h' = h
      BY <1>2, <2>1, <2>4, ActStep DEF h
    <3> QED BY <2>1, <2>2, <2>3, <2>4, <3>1 DEF RunIsOpen
  <2>5. CASE pc = "finish"
    <3>1. (pc' = "loop" /\ idx' = idx + 1) \/ (pc' = "forget" /\ idx' = idx)
      BY <1>2, <2>5, ActStep
    <3>2. idx' \in Nat /\ idx \in Nat /\ pc' \notin AtWork /\ pc' # "idle"
      BY <2>5, <3>1, PlanFacts DEF AtWork
    <3>3. ASSUME NEW i \in 1..Len(row[run].items), i > idx' \/ (i = idx' /\ pc' = "loop")
          PROVE  act'[run][row[run].items[i]] = "none"
      BY <2>2, <3>1, <3>2, <3>3
    <3>4. status[run] = "running"
      BY <2>5 DEF RunIsOpen
    <3> QED BY <2>1, <3>2, <3>3, <3>4 DEF RunIsOpen
  <2> QED BY <2>1, <2>4, <2>5
<1>3. ASSUME ActorStep, act' = act PROVE RunIsOpen'
  <2>1. CASE EndRun
    BY <2>1 DEF EndRun, RunIsOpen
  <2>2. CASE StartCandidate
    <3>1. idx \in 1..Len(row[run].items) /\ pc = "loop"
      BY <2>2, PlanFacts DEF StartCandidate
    <3>2. act[run][h] = "none"
      BY <3>1 DEF RunIsOpen, h
    <3>3. ~InsertAction
      BY <1>3, <3>1, <3>2, Candidate DEF InsertAction, TypeOK, StoreOK
    <3> QED BY <1>1, <1>3, <2>2, <3>3 DEF StartCandidate, NextItem
  <2>3. CASE Finish \/ Forget
    BY <1>1, <1>3, <2>3 DEF Finish, Forget, NextItem, AtWork
  <2>4. CASE ResolveLinks \/ ArrDone \/ ListFiles \/ StatDone \/ QbitDelete
    BY <1>1, <2>4
    DEF ResolveLinks, ArrDone, ListFiles, StatDone, QbitDelete, FinishAs, AtWork
  <2>5. CASE (\E f \in Files : ArrDelete(f)) \/ (\E c \in Inodes : StatFile(c))
    BY <1>1, <2>5 DEF ArrDelete, StatFile, FinishAs, AtWork
  <2> QED BY <1>3, <2>1, <2>2, <2>3, <2>4, <2>5 DEF ActorStep
<1>4. ASSUME Environment PROVE RunIsOpen'
  <2>1. (pc' = "idle") \/ UNCHANGED <<pc, run, idx, row, status, act>>
    BY <1>4
    DEF Environment, Cancel, Crash, PollArr, PollTorrents, AddPeer, Upgrade, RemovePath
  <2> QED BY <2>1 DEF RunIsOpen, h
<1>5. ASSUME NEW r \in RunInputs, Execute(r) PROVE RunIsOpen'
  <2>1. run + 1 \in Runs /\ run \in Nat /\ act' = act /\ run' = run + 1
    BY <1>5, Consts DEF Execute, TypeOK, LoopOK, Runs
  <2>2. row'[run'].items \in Seq(Torrents)
    BY <1>5, <2>1, Consts DEF Execute, TypeOK, StoreOK
  <2>3. \A t \in Torrents : act[run + 1][t] = "none"
    BY <2>1 DEF FutureIsBlank
  <2>4. pc' = "loop" => status'[run + 1] = "running"
    BY <1>5, <2>1 DEF Execute, TypeOK, StoreOK
  <2> QED BY <1>5, <2>1, <2>2, <2>3, <2>4 DEF Execute, RunIsOpen, AtWork
<1>6. CASE UNCHANGED vars
  BY <1>6 DEF vars, RunIsOpen, h
<1> QED BY <1>2, <1>3, <1>4, <1>5, <1>6 DEF Next

\* fanoutArr works on links of the candidate, and finish gets a terminal status.
LEMMA WorkIsOfCandidateStep ==
  TypeOK /\ WorkIsOfCandidate /\ [Next]_vars => WorkIsOfCandidate'
<1> SUFFICES ASSUME TypeOK, WorkIsOfCandidate, [Next]_vars PROVE WorkIsOfCandidate'
  OBVIOUS
<1> USE DEF WorkIsOfCandidate, loop, work, store, world, FinishAs
<1>1. pc' \in {"arr", "nlink", "stat", "qbit"} => h' = h
  BY SameCandidate
<1>2. CASE StartCandidate \/ EndRun \/ Finish \/ Forget
  BY <1>2 DEF StartCandidate, EndRun, Finish, Forget, NextItem
<1>3. CASE ResolveLinks
  BY <1>1, <1>3 DEF ResolveLinks, LinksByHash, Terminal
<1>4. CASE ArrDone \/ ListFiles \/ StatDone \/ QbitDelete
  BY <1>1, <1>4 DEF ArrDone, ListFiles, StatDone, QbitDelete, Terminal
<1>5. CASE (\E f \in Files : ArrDelete(f)) \/ (\E c \in Inodes : StatFile(c))
  BY <1>1, <1>5 DEF ArrDelete, StatFile, Terminal
<1>6. CASE Environment
  BY <1>1, <1>6
  DEF Environment, Cancel, Crash, PollArr, PollTorrents, AddPeer, Upgrade, RemovePath
<1>7. ASSUME NEW r \in RunInputs, Execute(r) PROVE WorkIsOfCandidate'
  BY <1>7 DEF Execute
<1>8. CASE UNCHANGED vars
  BY <1>1, <1>8 DEF vars
<1> QED BY <1>2, <1>3, <1>4, <1>5, <1>6, <1>7, <1>8 DEF Next, ActorStep

\* Whether an action says nothing yet of a loss changes only for the candidate of
\* StartCandidate, and never back on the way to its finish.
LEMMA TooEarlyStep ==
  ASSUME [Next]_vars, NEW r \in Runs, NEW t \in Torrents, TooEarly(r, t)'
  PROVE  \/ TooEarly(r, t)
         \/ pc = "loop" /\ idx <= Len(row[run].items) /\ r = run /\ t = h
<1> DEFINE Goal == \/ TooEarly(r, t)
                   \/ pc = "loop" /\ idx <= Len(row[run].items) /\ r = run /\ t = h
<1> USE DEF TooEarly, Traces, loop, work, store, world, FinishAs, h
<1>1. CASE StartCandidate \/ EndRun \/ Finish \/ Forget
  BY <1>1 DEF StartCandidate, EndRun, Finish, Forget, NextItem
<1>2. CASE ResolveLinks \/ ArrDone \/ ListFiles \/ StatDone \/ QbitDelete
  BY <1>2 DEF ResolveLinks, ArrDone, ListFiles, StatDone, QbitDelete
<1>3. CASE (\E f \in Files : ArrDelete(f)) \/ (\E c \in Inodes : StatFile(c))
  BY <1>3 DEF ArrDelete, StatFile
<1>4. CASE Environment
  BY <1>4
  DEF Environment, Cancel, Crash, PollArr, PollTorrents, AddPeer, Upgrade, RemovePath
<1>5. ASSUME NEW q \in RunInputs, Execute(q) PROVE Goal
  BY <1>5 DEF Execute
<1>6. CASE UNCHANGED vars
  BY <1>6 DEF vars
<1> QED BY <1>1, <1>2, <1>3, <1>4, <1>5, <1>6 DEF Next, ActorStep

\* A torrent is lost in the qbit phase, where its action already says "running"
\* and ends as "succeeded" or "failed_qbit"; an earlier trace stays as it is.
LEMMA LossIsTracedStep ==
  TypeOK /\ RunIsOpen /\ LossIsTraced /\ [Next]_vars => LossIsTraced'
<1> SUFFICES ASSUME TypeOK, RunIsOpen, LossIsTraced, [Next]_vars, NEW t \in Torrents \ qbit'
             PROVE  \E r \in Runs : act'[r][t] \in Traces /\ ~TooEarly(r, t)'
  BY DEF LossIsTraced
<1>1. CASE t \in qbit
  <2>1. pc = "qbit" /\ t = h /\ QbitDelete
    BY <1>1, OnlyTheCandidateLeaves
  <2>2. act' = act /\ (pc' = "qbit" \/ (pc' = "finish" /\ res' \in Traces))
    BY <2>1 DEF QbitDelete, FinishAs, Traces, store
  <2>3. act[run][h] = "running" /\ run \in Runs
    BY <2>1, PlanFacts DEF RunIsOpen, AtWork
  <2> QED BY <2>1, <2>2, <2>3 DEF Traces, TooEarly
<1>2. CASE t \notin qbit
  <2>1. PICK r \in Runs : act[r][t] \in Traces /\ ~TooEarly(r, t)
    BY <1>2 DEF LossIsTraced
  <2>2. ~TooEarly(r, t)'
    <3>1. SUFFICES ASSUME pc = "loop", idx <= Len(row[run].items), r = run, t = h PROVE FALSE
      BY <2>1, TooEarlyStep
    <3>2. idx \in 1..Len(row[run].items)
      BY <3>1, PlanFacts
    <3>3. act[run][h] = "none"
      BY <3>1, <3>2 DEF RunIsOpen, h
    <3> QED BY <2>1, <3>1, <3>3 DEF Traces
  <2>3. CASE act'[r][t] # act[r][t]
    <3>1. /\ r = run /\ t = h /\ pc \in {"loop", "finish"}
          /\ act'[r][t] = (IF pc = "loop" THEN "running" ELSE res)
      BY <2>3, OneAct, ActStep
    <3> QED BY <2>1, <2>2, <3>1 DEF TooEarly, Traces
  <2> QED BY <2>1, <2>2, <2>3
<1> QED BY <1>1, <1>2

\* A file is lost in the *arr phase, to a link of the candidate, whose action row
\* is there; no action row is ever taken back.
LEMMA FilesAreTracedStep ==
  TypeOK /\ RunIsOpen /\ WorkIsOfCandidate /\ FilesAreTraced /\ [Next]_vars
    => FilesAreTraced'
<1> SUFFICES ASSUME TypeOK, RunIsOpen, WorkIsOfCandidate, FilesAreTraced, [Next]_vars,
                    ~May("upgrade"), NEW t \in Torrents, NEW f \in Imports[t] \ arr'
             PROVE  \E r \in Runs, u \in Torrents : f \in Imports[u] /\ act'[r][u] # "none"
  BY DEF FilesAreTraced
<1> f \in Files
  BY Consts
<1>1. CASE f \in arr
  <2>1. ArrDelete(f)
    <3>1. ActorStep => ArrDelete(f)
      BY <1>1
      DEF ActorStep, StartCandidate, InsertAction, EndRun, ResolveLinks, ArrDone, ListFiles,
          StatDone, QbitDelete, Finish, FinishAction, Forget, ArrDelete, StatFile,
          store, world
    <3>2. ~Environment
      BY <1>1
      DEF Environment, Cancel, Crash, PollArr, PollTorrents, AddPeer, Upgrade, RemovePath, world
    <3>3. ~ \E r \in RunInputs : Execute(r)
      BY <1>1 DEF Execute, world
    <3> QED BY <1>1, <3>1, <3>2, <3>3 DEF Next, vars, world
  <2>2. pc = "arr" /\ f \in Imports[h] /\ act' = act
    BY <2>1 DEF ArrDelete, WorkIsOfCandidate, store
  <2>3. act[run][h] = "running" /\ run \in Runs /\ h \in Torrents
    BY <2>2, PlanFacts, Candidate DEF RunIsOpen, AtWork, TypeOK, LoopOK
  <2> QED BY <2>2, <2>3
<1>2. CASE f \notin arr
  <2>1. PICK r \in Runs, u \in Torrents : f \in Imports[u] /\ act[r][u] # "none"
    BY <1>2 DEF FilesAreTraced
  <2>2. CASE act'[r][u] # act[r][u]
    <3>1. act'[r][u] = (IF pc = "loop" THEN "running" ELSE res)
      BY <2>2, OneAct
    <3>2. res # "none"
      BY DEF TypeOK, WorkOK, Terminal
    <3> QED BY <2>1, <3>1, <3>2
  <2> QED BY <2>1, <2>2
<1> QED BY <1>1, <1>2

\* Nothing is deleted yet.
LEMMA InitTraceInv == Init => TraceInv
<1> SUFFICES ASSUME Init PROVE TraceInv
  OBVIOUS
<1>1. FutureIsBlank /\ RunIsOpen /\ WorkIsOfCandidate
  BY DEF Init, FutureIsBlank, RunIsOpen, WorkIsOfCandidate
<1>2. LossIsTraced /\ FilesAreTraced
  BY DEF Init, LossIsTraced, FilesAreTraced
<1> QED BY <1>1, <1>2 DEF TraceInv

\* No step leaves a loss without a trace.
LEMMA StepTraceInv == TypeOK /\ TraceInv /\ [Next]_vars => TraceInv'
  BY FutureIsBlankStep, RunIsOpenStep, WorkIsOfCandidateStep, LossIsTracedStep,
     FilesAreTracedStep DEF TraceInv

\* Whatever fails and wherever the process dies, over any runs and any torrents:
\* every torrent that left qBittorrent has an action row that says so or that still
\* says "running", and every file that left *arr is of a torrent with an action row.
THEOREM Traced == Spec => []DeletionsAreTraced
<1>1. TraceInv => DeletionsAreTraced
  BY DEF TraceInv, LossIsTraced, DeletionsAreTraced
<1> QED BY <1>1, TypeCorrect, InitTraceInv, StepTraceInv, PTL DEF Spec
-----------------------------------------------------------------------------
\* Where the store answers, only the candidate at work says "running" in a run that
\* goes on, and it is finished before its run is.
LEMMA RunningIsAtWorkStep ==
  TypeOK /\ TraceInv /\ RunningIsAtWork /\ [Next]_vars => RunningIsAtWork'
<1> SUFFICES ASSUME TypeOK, TraceInv, RunningIsAtWork, [Next]_vars, ~May("store"),
                    NEW r \in Runs, NEW t \in Torrents, act'[r][t] = "running"
             PROVE  /\ status'[r] = "running"
                    /\ r = run' /\ pc' # "idle" => pc' \in AtWork /\ t = h'
  BY DEF RunningIsAtWork, May
<1> USE DEF loop, work, store, world, FinishAs
<1>1. CASE act' # act
  <2>1. /\ pc \in {"loop", "finish"} /\ UNCHANGED <<run, row, status>>
        /\ pc = "loop" => pc' = "links" /\ UNCHANGED idx
    BY <1>1, ActStep DEF work
  <2>2. status[run] = "running"
    BY <2>1 DEF TraceInv, RunIsOpen
  <2>3. CASE act'[r][t] = act[r][t]
    <3>1. status[r] = "running" /\ (r = run => pc \in AtWork /\ t = h)
      BY <2>1, <2>3 DEF RunningIsAtWork
    <3>2. r # run
      <4>1. SUFFICES ASSUME r = run, pc = "finish", t = h PROVE FALSE
        BY <2>1, <3>1 DEF AtWork
      <4>2. act'[run][h] = res
        <5>1. /\ h \in Torrents /\ run \in Runs
              /\ act' = [act EXCEPT ![run][h] = IF pc = "loop" THEN "running" ELSE res]
          BY <1>1, ActStep
        <5> QED BY <4>1, <5>1 DEF TypeOK, StoreOK
      <4> QED BY <4>1, <4>2 DEF TraceInv, WorkIsOfCandidate, Terminal
    <3> QED BY <2>1, <3>1, <3>2
  <2>4. CASE act'[r][t] # act[r][t]
    <3>1. r = run /\ t = h /\ act'[r][t] = (IF pc = "loop" THEN "running" ELSE res)
      BY <2>4, OneAct
    <3>2. pc = "loop"
      BY <2>1, <3>1 DEF TraceInv, WorkIsOfCandidate, Terminal
    <3> QED BY <2>1, <2>2, <3>1, <3>2 DEF AtWork, h
  <2> QED BY <2>3, <2>4
<1>2. ASSUME act' = act, UNCHANGED <<run, row, status>>,
             \/ pc' = "idle"
             \/ pc' # "idle" /\ pc \notin AtWork \cup {"idle"}
             \/ pc # "idle" /\ pc' \in AtWork /\ UNCHANGED idx
             \/ UNCHANGED <<pc, idx>>
      PROVE  /\ status'[r] = "running"
             /\ r = run' /\ pc' # "idle" => pc' \in AtWork /\ t = h'
  BY <1>2 DEF RunningIsAtWork, h
<1>3. CASE ActorStep /\ act' = act
  <2>1. CASE EndRun
    <3>1. pc = "loop" /\ pc' = "idle" /\ \A q \in Runs \ {run} : status'[q] = status[q]
      BY <2>1 DEF EndRun, TypeOK, StoreOK
    <3>2. r # run /\ status[r] = "running"
      BY <1>3, <3>1 DEF RunningIsAtWork, AtWork
    <3> QED BY <3>1, <3>2
  <2>2. CASE Forget
    BY <1>2, <1>3, <2>2 DEF Forget, NextItem, AtWork
  <2>3. CASE StartCandidate
    <3>1. ~InsertAction
      <4>1. idx \in 1..Len(row[run].items) /\ pc = "loop"
        BY <2>3, PlanFacts DEF StartCandidate
      <4>2. act[run][h] = "none"
        BY <4>1 DEF TraceInv, RunIsOpen, h
      <4> QED BY <1>3, <4>1, <4>2, Candidate DEF InsertAction, TypeOK, StoreOK
    <3> QED BY <2>3, <3>1 DEF StartCandidate
  \* finish() writes a terminal status over the candidate's "running".
  <2>4. CASE Finish
    <3>1. FinishAction(res) /\ pc = "finish"
      BY <2>4 DEF Finish
    <3>2. act[run][h] = "running" /\ res # "running"
      BY <3>1 DEF TraceInv, RunIsOpen, WorkIsOfCandidate, AtWork, Terminal
    <3>3. h \in Torrents /\ run \in Runs
      BY <3>1, Candidate DEF TypeOK, LoopOK
    <3> QED BY <1>3, <3>1, <3>2, <3>3 DEF FinishAction, TypeOK, StoreOK
  <2>5. CASE ResolveLinks \/ ArrDone \/ ListFiles \/ StatDone \/ QbitDelete
    BY <1>2, <1>3, <2>5
    DEF ResolveLinks, ArrDone, ListFiles, StatDone, QbitDelete, AtWork
  <2>6. CASE (\E f \in Files : ArrDelete(f)) \/ (\E c \in Inodes : StatFile(c))
    BY <1>2, <1>3, <2>6 DEF ArrDelete, StatFile, AtWork
  <2> QED BY <1>3, <2>1, <2>2, <2>3, <2>4, <2>5, <2>6 DEF ActorStep
<1>4. CASE Environment
  BY <1>2, <1>4
  DEF Environment, Cancel, Crash, PollArr, PollTorrents, AddPeer, Upgrade, RemovePath
<1>5. ASSUME NEW q \in RunInputs, Execute(q)
      PROVE  /\ status'[r] = "running"
             /\ r = run' /\ pc' # "idle" => pc' \in AtWork /\ t = h'
  <2>1. run + 1 \in Runs /\ run \in Nat /\ act' = act /\ run' = run + 1
    BY <1>5, Consts DEF Execute, TypeOK, LoopOK, Runs
  <2>2. r # run + 1
    BY <2>1 DEF TraceInv, FutureIsBlank
  <2>3. status'[r] = status[r]
    BY <1>5, <2>2 DEF Execute, TypeOK, StoreOK
  <2> QED BY <2>1, <2>2, <2>3 DEF RunningIsAtWork
<1>6. CASE UNCHANGED vars
  BY <1>2, <1>6 DEF vars
<1> QED BY <1>1, <1>3, <1>4, <1>5, <1>6 DEF Next

\* What a run was planned with: torrents, each once, and a cap.
LEMMA RowFacts ==
  ASSUME TypeOK, NEW r \in Runs
  PROVE  /\ row[r].cap \in Nat /\ Len(row[r].items) \in Nat
         /\ \A i \in 1..Len(row[r].items) : row[r].items[i] \in Torrents
         /\ \A i, j \in 1..Len(row[r].items) : row[r].items[i] = row[r].items[j] => i = j
<1>1. CASE row[r] = NoRun
  BY <1>1 DEF NoRun
<1>2. CASE row[r] \in RunInputs
  <2>1. row[r].items \in Seq(Torrents) /\ row[r].cap \in Nat
    BY <1>2, ConstantsAssumption
  <2> QED BY <1>2, <2>1, ConstantsAssumption
<1> QED BY <1>1, <1>2 DEF TypeOK, StoreOK

\* The cap is compared before a candidate is taken.
LEMMA CapsHoldStep == TypeOK /\ TraceInv /\ CapsHold /\ [Next]_vars => CapsHold'
<1> SUFFICES ASSUME TypeOK, TraceInv, CapsHold, [Next]_vars PROVE CapsHold'
  OBVIOUS
<1> USE DEF loop, work, store, world, FinishAs
<1>1. ASSUME pc' \in AtWork PROVE ~AtCap'
  <2>1. ASSUME UNCHANGED <<run, row, idx>>, pc \in AtWork PROVE ~AtCap'
    BY <2>1 DEF CapsHold, AtCap
  <2>2. CASE ActorStep
    BY <1>1, <2>1, <2>2
    DEF ActorStep, StartCandidate, InsertAction, EndRun, ResolveLinks, ArrDone, ListFiles,
        StatDone, QbitDelete, Finish, FinishAction, Forget, ArrDelete, StatFile, NextItem,
        AtWork, AtCap
  <2>3. CASE Environment
    BY <1>1, <2>1, <2>3
    DEF Environment, Cancel, Crash, PollArr, PollTorrents, AddPeer, Upgrade, RemovePath, AtWork
  <2>4. ~ \E q \in RunInputs : Execute(q)
    BY <1>1 DEF Execute, AtWork
  <2>5. CASE UNCHANGED vars
    BY <1>1, <2>1, <2>5 DEF vars
  <2> QED BY <2>2, <2>3, <2>4, <2>5 DEF Next
<1>2. ASSUME NEW r \in Runs, row'[r].cap > 0, NEW i \in 1..Len(row'[r].items),
             i > row'[r].cap
      PROVE  act'[r][row'[r].items[i]] = "none"
  <2>1. CASE row'[r] = row[r]
    <3> DEFINE t == row[r].items[i]
    <3>1. t \in Torrents /\ i \in 1..Len(row[r].items) /\ act[r][t] = "none"
      BY <1>2, <2>1, RowFacts DEF CapsHold
    <3>2. ASSUME act'[r][t] # act[r][t] PROVE FALSE
      <4>1. r = run /\ t = h /\ act' # act
        BY <3>1, <3>2, OneAct
      <4>2. idx \in 1..Len(row[run].items) /\ ~AtCap
        BY <4>1, ActStep DEF CapsHold, AtWork
      <4>3. i = idx
        BY <3>1, <4>1, <4>2, RowFacts DEF h
      <4> QED BY <1>2, <2>1, <4>1, <4>2, <4>3, RowFacts DEF AtCap
    <3> QED BY <2>1, <3>1, <3>2
  <2>2. CASE row'[r] # row[r]
    <3>1. PICK q \in RunInputs : Execute(q)
      <4>1. ActorStep => row' = row
        BY DEF ActorStep, StartCandidate, InsertAction, EndRun, ResolveLinks, ArrDone,
           ListFiles, StatDone, QbitDelete, Finish, FinishAction, Forget, ArrDelete, StatFile
      <4>2. Environment => row' = row
        BY DEF Environment, Cancel, Crash, PollArr, PollTorrents, AddPeer, Upgrade, RemovePath
      <4> QED BY <2>2, <4>1, <4>2 DEF Next, vars
    <3>2. /\ run + 1 \in Runs /\ run \in Nat /\ act' = act
          /\ row' = [row EXCEPT ![run + 1] = q]
      BY <3>1, Consts DEF Execute, TypeOK, LoopOK, Runs
    <3>3. r = run + 1 /\ row'[r] = q
      BY <2>2, <3>2 DEF TypeOK, StoreOK
    <3>4. q.items[i] \in Torrents
      <4>1. q.items \in Seq(Torrents)
        BY Consts
      <4> QED BY <1>2, <3>3, <4>1
    <3> QED BY <3>2, <3>3, <3>4 DEF TraceInv, FutureIsBlank
  <2> QED BY <2>1, <2>2
<1> QED BY <1>1, <1>2 DEF CapsHold

\* The rows that one append of the candidate leaves, and those it cannot.
LEMMA LogFacts ==
  ASSUME NEW entries, Log(entries)
  PROVE  /\ audit \subseteq audit' /\ audit' \subseteq audit \cup entries
         /\ May("store") \/ audit' = audit \cup entries
  BY DEF Log, AppendAudit

\* Outside of fanoutArr the rows of files do not change but with the candidate.
LEMMA NothingAudited ==
  ASSUME TypeOK, AuditOK, arr' \subseteq arr, UNCHANGED links,
         pc' \in {"idle", "loop", "links"} => audit' = {},
         pc' = "arr" => pc = "arr" /\ left' = left,
         pc = "arr" => pc' = "arr" \/ left = {},
         \A f \in Files, o \in ArrOutcomes :
           <<"arr", f, o>> \in audit' <=> <<"arr", f, o>> \in audit
  PROVE  AuditOK'
<1> left \subseteq Files /\ links \subseteq Files
  BY DEF TypeOK, WorkOK
<1> DEFINE Has(f, o) == <<"arr", f, o>> \in audit
           HasNow(f, o) == <<"arr", f, o>> \in audit'
<1>1. \A f \in Files, o \in ArrOutcomes : HasNow(f, o) <=> Has(f, o)
  OBVIOUS
<1>2. /\ pc = "arr" => \A f \in left, o \in ArrOutcomes : ~Has(f, o)
      /\ \A f \in Files, o, p \in ArrOutcomes : Has(f, o) /\ Has(f, p) => o = p
      /\ \A f \in Files : Has(f, "ok") => f \notin arr
      /\ May("store") \/ (\E f \in Files : Has(f, "skipped")) \/
           \A f \in links : (pc = "arr" => f \notin left) => \E o \in ArrOutcomes : Has(f, o)
  BY DEF AuditOK
<1>3. "ok" \in ArrOutcomes /\ "skipped" \in ArrOutcomes
  BY DEF ArrOutcomes
<1>4. /\ pc' = "arr" => \A f \in left', o \in ArrOutcomes : ~HasNow(f, o)
      /\ \A f \in Files, o, p \in ArrOutcomes : HasNow(f, o) /\ HasNow(f, p) => o = p
      /\ \A f \in Files : HasNow(f, "ok") => f \notin arr'
      /\ May("store") \/ (\E f \in Files : HasNow(f, "skipped")) \/
           \A f \in links' : (pc' = "arr" => f \notin left') => \E o \in ArrOutcomes : HasNow(f, o)
  <2> HIDE DEF Has, HasNow
  <2> QED BY <1>1, <1>2, <1>3
<1> QED BY <1>4 DEF AuditOK, May

\* fanoutArr before its DELETEs: at most one file is "skipped", the ones after it
\* are "not_attempted".
LEMMA AuditOKResolve ==
  TypeOK /\ AuditOK /\ ResolveLinks => AuditOK'
<1> SUFFICES ASSUME TypeOK, AuditOK, ResolveLinks PROVE AuditOK'
  OBVIOUS
<1> USE DEF world, FinishAs
<1>1. /\ audit = {} /\ arr' = arr /\ 0 \notin Files /\ Files \subseteq Nat
      /\ "skipped" \in ArrOutcomes
  BY ConstantsAssumption DEF ResolveLinks, AuditOK, ArrOutcomes
<1>2. CASE /\ pc' = "arr" /\ UNCHANGED audit
           /\ left' = links'
  BY <1>1, <1>2 DEF AuditOK
<1>3. ASSUME NEW f \in LinksByHash(h) \ Actable, FinishAs("aborted_arr_fail"),
             Log({<<"arr", f, "skipped">>} \cup MarkRemaining(f, LinksByHash(h)))
      PROVE  AuditOK'
  <2>1. /\ f \in Files
        /\ \A g \in Files, o \in ArrOutcomes : <<"arr", g, o>> \in audit' =>
             (g = f /\ o = "skipped") \/ (g > f /\ o = "not_attempted")
        /\ May("store") \/ <<"arr", f, "skipped">> \in audit'
    <3>1. f \in Files
      BY DEF LinksByHash, TypeOK, StoreOK
    <3> QED BY <1>1, <1>3, <3>1, LogFacts DEF MarkRemaining
  <2>2. \A g \in Files, o, p \in ArrOutcomes :
          <<"arr", g, o>> \in audit' /\ <<"arr", g, p>> \in audit' => o = p
    BY <1>1, <2>1
  <2>3. \A g \in Files : <<"arr", g, "ok">> \notin audit'
    BY <2>1 DEF ArrOutcomes
  <2>4. May("store") \/ \E g \in Files : <<"arr", g, "skipped">> \in audit'
    BY <2>1
  <2> QED BY <1>3, <2>2, <2>3, <2>4 DEF AuditOK, May
<1>4. CASE /\ May("store") /\ FinishAs("aborted_arr_fail")
           /\ Log({<<"arr", 0, "failed">>})
  <2>1. \A f \in Files, o \in ArrOutcomes : <<"arr", f, o>> \notin audit'
    BY <1>1, <1>4, LogFacts
  <2> QED BY <1>4, <2>1 DEF AuditOK, May, ArrOutcomes
<1> QED BY <1>2, <1>3, <1>4 DEF ResolveLinks

\* fanoutArr's DELETE of one file: its row is "ok" when the file left *arr, else
\* "failed", and the files after it are "not_attempted".
LEMMA AuditOKDelete ==
  ASSUME TypeOK, WorkIsOfCandidate, AuditOK, NEW f \in Files, ArrDelete(f)
  PROVE  AuditOK'
<1> USE DEF FinishAs
<1>1. /\ pc = "arr" /\ f \in left /\ links' = links /\ left \subseteq links
      /\ links \subseteq Files /\ Files \subseteq Nat /\ arr' \subseteq arr
      /\ \A g \in left : f <= g
      /\ {"ok", "failed", "not_attempted", "skipped"} = ArrOutcomes
  BY ConstantsAssumption
  DEF ArrDelete, WorkIsOfCandidate, TypeOK, WorkOK, ArrOutcomes
<1>2. CASE /\ arr' = arr \ {f} /\ left' = left \ {f} /\ pc' = pc
           /\ Log({<<"arr", f, "ok">>})
  <2>1. \A g \in Files, o \in ArrOutcomes : <<"arr", g, o>> \in audit' =>
          <<"arr", g, o>> \in audit \/ (g = f /\ o = "ok")
    BY <1>2, LogFacts
  <2>2. \A o \in ArrOutcomes : <<"arr", f, o>> \notin audit
    BY <1>1 DEF AuditOK
  <2>3. audit \subseteq audit' /\ (May("store") \/ <<"arr", f, "ok">> \in audit')
    BY <1>2, LogFacts
  <2>4. pc' = "arr" => \A g \in left', o \in ArrOutcomes : <<"arr", g, o>> \notin audit'
    BY <1>1, <1>2, <2>1 DEF AuditOK
  <2>5. \A g \in Files, o, p \in ArrOutcomes :
          <<"arr", g, o>> \in audit' /\ <<"arr", g, p>> \in audit' => o = p
    BY <2>1, <2>2 DEF AuditOK
  <2>6. \A g \in Files : <<"arr", g, "ok">> \in audit' => g \notin arr'
    BY <1>1, <1>2, <2>1 DEF AuditOK
  <2>7. May("store") \/ (\E g \in Files : <<"arr", g, "skipped">> \in audit') \/
          \A g \in links' : (pc' = "arr" => g \notin left') =>
            \E o \in ArrOutcomes : <<"arr", g, o>> \in audit'
    BY <1>1, <1>2, <2>3 DEF AuditOK
  <2> QED BY <1>1, <1>2, <2>4, <2>5, <2>6, <2>7 DEF AuditOK, May
<1>3. CASE /\ pc' = "finish"
           /\ Log({<<"arr", f, "failed">>} \cup MarkRemaining(f, left))
  <2>1. \A g \in Files, o \in ArrOutcomes : <<"arr", g, o>> \in audit' =>
          \/ <<"arr", g, o>> \in audit
          \/ g = f /\ o = "failed"
          \/ g \in left /\ g > f /\ o = "not_attempted"
    BY <1>3, LogFacts DEF MarkRemaining
  <2>2. \A g \in left, o \in ArrOutcomes : <<"arr", g, o>> \notin audit
    BY <1>1 DEF AuditOK
  <2>3. /\ audit \subseteq audit'
        /\ May("store") \/
             /\ <<"arr", f, "failed">> \in audit'
             /\ \A g \in left : g > f => <<"arr", g, "not_attempted">> \in audit'
    BY <1>3, LogFacts DEF MarkRemaining
  <2>4. \A g \in Files, o, p \in ArrOutcomes :
          <<"arr", g, o>> \in audit' /\ <<"arr", g, p>> \in audit' => o = p
    <3>1. TAKE g \in Files, o, p \in ArrOutcomes
    <3>2. HAVE <<"arr", g, o>> \in audit' /\ <<"arr", g, p>> \in audit'
    <3>3. CASE g \in left
      <4>1. \A q \in {o, p} :
              \/ g = f /\ q = "failed"
              \/ g > f /\ q = "not_attempted"
        BY <2>1, <2>2, <3>2, <3>3
      <4> QED BY <1>1, <3>3, <4>1
    <3>4. CASE g \notin left
      BY <1>1, <2>1, <3>2, <3>4 DEF AuditOK
    <3> QED BY <3>3, <3>4
  <2>5. \A g \in Files : <<"arr", g, "ok">> \in audit' => g \notin arr'
    BY <1>1, <2>1 DEF AuditOK
  <2>6. May("store") \/ (\E g \in Files : <<"arr", g, "skipped">> \in audit') \/
          \A g \in links' : \E o \in ArrOutcomes : <<"arr", g, o>> \in audit'
    <3>1. SUFFICES ASSUME ~May("store"), ~ \E g \in Files : <<"arr", g, "skipped">> \in audit',
                          NEW g \in links
                   PROVE  \E o \in ArrOutcomes : <<"arr", g, o>> \in audit'
      BY <1>1
    <3>2. CASE g \in left
      <4>1. g = f \/ g > f
        BY <1>1, <3>2
      <4> QED BY <1>1, <2>3, <3>1, <3>2, <4>1
    <3>3. CASE g \notin left
      BY <1>1, <2>3, <3>1, <3>3 DEF AuditOK
    <3> QED BY <3>2, <3>3
  <2> QED BY <1>3, <2>4, <2>5, <2>6 DEF AuditOK, May
<1>4. CASE UNCHANGED <<audit, pc, left>>
  BY <1>1, <1>4, NothingAudited
<1> QED BY <1>1, <1>2, <1>3, <1>4 DEF ArrDelete

\* One step tells the files apart if the last did.
LEMMA AuditOKStep ==
  TypeOK /\ WorkIsOfCandidate /\ AuditOK /\ [Next]_vars => AuditOK'
<1> SUFFICES ASSUME TypeOK, WorkIsOfCandidate, AuditOK, [Next]_vars PROVE AuditOK'
  OBVIOUS
<1> USE DEF loop, work, store, world, FinishAs
<1>1. arr' \subseteq arr
  BY WorldShrinks
<1>2. ClearWork => AuditOK'
  <2>1. SUFFICES ASSUME ClearWork PROVE AuditOK'
    OBVIOUS
  <2>2. audit' = {} /\ links' = {} /\ left' = {}
    BY <2>1 DEF ClearWork
  <2> QED BY <2>2 DEF AuditOK
<1>3. ASSUME UNCHANGED work, pc' \in {"idle", "loop", "links"} => pc' = pc \/ audit = {},
             pc = "arr" => pc' = "arr" \/ left = {}, pc' = "arr" => pc = "arr"
      PROVE  AuditOK'
  <2>1. pc \in {"idle", "loop", "links"} => audit = {}
    BY DEF AuditOK
  <2> QED BY <1>1, <1>3, <2>1, NothingAudited
<1>4. ASSUME UNCHANGED <<links, left>>, pc \in {"nlink", "stat", "qbit"},
             pc' \in {"nlink", "stat", "qbit", "finish"},
             \A f \in Files, o \in ArrOutcomes :
               <<"arr", f, o>> \in audit' <=> <<"arr", f, o>> \in audit
      PROVE  AuditOK'
  BY <1>1, <1>4, NothingAudited
<1>5. ASSUME NEW o, \/ UNCHANGED audit
                    \/ Log({<<"nlink", 0, o>>})
                    \/ Log({<<"qbit", 0, o>>})
      PROVE  \A f \in Files, p \in ArrOutcomes :
               <<"arr", f, p>> \in audit' <=> <<"arr", f, p>> \in audit
  BY <1>5, LogFacts
<1>6. CASE ActorStep
  <2>1. CASE StartCandidate
    <3>1. audit = {}
      BY <2>1 DEF StartCandidate, AuditOK
    <3> QED BY <1>2, <1>3, <2>1, <3>1 DEF StartCandidate, NextItem
  <2>2. CASE EndRun
    <3>1. audit = {}
      BY <2>2 DEF EndRun, AuditOK
    <3> QED BY <1>3, <2>2, <3>1 DEF EndRun
  <2>3. CASE ResolveLinks
    BY <2>3, AuditOKResolve
  <2>4. CASE ArrDone
    BY <1>3, <2>4 DEF ArrDone
  <2>5. CASE ListFiles
    BY <1>4, <1>5, <2>5 DEF ListFiles
  <2>6. CASE \E c \in Inodes : StatFile(c)
    BY <1>4, <1>5, <2>6 DEF StatFile
  <2>7. CASE StatDone
    BY <1>4, <1>5, <2>7 DEF StatDone
  <2>8. CASE QbitDelete
    BY <1>4, <1>5, <2>8 DEF QbitDelete
  <2>9. CASE Finish
    BY <1>2, <1>3, <2>9 DEF Finish, NextItem
  <2>10. CASE Forget
    BY <1>2, <2>10 DEF Forget, NextItem
  <2>11. CASE \E f \in Files : ArrDelete(f)
    BY <2>11, AuditOKDelete
  <2> QED
    BY <1>6, <2>1, <2>2, <2>3, <2>4, <2>5, <2>6, <2>7, <2>8, <2>9, <2>10, <2>11 DEF ActorStep
<1>7. CASE Environment
  BY <1>2, <1>3, <1>7
  DEF Environment, Cancel, Crash, PollArr, PollTorrents, AddPeer, Upgrade, RemovePath
<1>8. ASSUME NEW r \in RunInputs, Execute(r) PROVE AuditOK'
  <2>1. audit = {}
    BY <1>8 DEF Execute, AuditOK
  <2> QED BY <1>3, <1>8, <2>1 DEF Execute
<1>9. CASE UNCHANGED vars
  BY <1>3, <1>9 DEF vars
<1> QED BY <1>6, <1>7, <1>8, <1>9 DEF Next

\* Nothing has run: no action says "running" and nothing is audited.
LEMMA InitClosedInv == Init => ClosedInv
<1> SUFFICES ASSUME Init PROVE ClosedInv
  OBVIOUS
<1>1. RunningIsAtWork
  BY DEF Init, RunningIsAtWork
<1>2. CapsHold
  BY DEF Init, CapsHold, AtWork, NoRun
<1>3. AuditOK
  BY DEF Init, AuditOK
<1> QED BY <1>1, <1>2, <1>3 DEF ClosedInv

\* No step opens an ended run, passes its cap or mixes its files.
LEMMA StepClosedInv == TypeOK /\ TraceInv /\ ClosedInv /\ [Next]_vars => ClosedInv'
  BY RunningIsAtWorkStep, CapsHoldStep, AuditOKStep DEF ClosedInv, TraceInv

\* The invariant behind the two theorems below.
LEMMA Closed == Spec => [](TypeOK /\ TraceInv /\ ClosedInv)
  BY InitTypeOK, StepTypeOK, InitTraceInv, StepTraceInv, InitClosedInv, StepClosedInv, PTL DEF Spec

\* Whatever stops a run, and at any cap: a run that reached a terminal status has no
\* action left "running" unless the store refused a row, and touched no candidate
\* beyond its cap.
THEOREM RunsAreClosed == Spec => []EndedRunsAreClosed
<1>1. RunningIsAtWork /\ CapsHold => EndedRunsAreClosed
  BY DEF RunningIsAtWork, CapsHold, EndedRunsAreClosed
<1> QED BY <1>1, Closed, PTL DEF ClosedInv

\* However many files a candidate has and whichever DELETE fails, the audit rows
\* tell the deleted, the failed and the untried files apart.
THEOREM AuditTells == Spec => []AuditTellsFilesApart
<1>1. TypeOK /\ AuditOK => AuditTellsFilesApart
  <2>1. SUFFICES ASSUME TypeOK, AuditOK PROVE AuditTellsFilesApart
    OBVIOUS
  <2>2. ASSUME NEW f \in Files PROVE Cardinality(OutcomesOf(f)) <= 1
    <3>1. CASE OutcomesOf(f) = {}
      BY <3>1, FS_EmptySet
    <3>2. ASSUME NEW o \in OutcomesOf(f) PROVE Cardinality(OutcomesOf(f)) <= 1
      <4>1. OutcomesOf(f) = {o}
        BY <2>1, <3>2 DEF OutcomesOf, AuditOK
      <4> QED BY <4>1, FS_Singleton
    <3> QED BY <3>1, <3>2
  <2>3. \A f \in Files : "ok" \in OutcomesOf(f) => f \notin arr
    BY <2>1 DEF OutcomesOf, AuditOK
  <2>4. pc = "finish" /\ ~May("store") /\ (\A f \in Files : "skipped" \notin OutcomesOf(f))
          => \A f \in links : OutcomesOf(f) # {}
    BY <2>1 DEF OutcomesOf, AuditOK, ArrOutcomes
  <2> QED BY <2>2, <2>3, <2>4 DEF AuditTellsFilesApart
<1> QED BY <1>1, Closed, PTL DEF ClosedInv
=============================================================================
