-------------------------------- MODULE Runs ---------------------------------
(***************************************************************************)
(* The life of a run over all its triggers: HTTP handlers and the          *)
(* goroutines they detach (internal/server/handlers_runs.go), the pressure *)
(* watcher (internal/triggers/disk_watcher.go) and `triagearr run`         *)
(* (cmd/triagearr/run.go), the stop handler, the reload and the shutdown   *)
(* of the daemon (cmd/triagearr/daemon.go), and the torrent poller, which  *)
(* writes the rows that the Decider plans from.                            *)
(*                                                                         *)
(* The run lock is one variable here: RunLockProofs shows that the lock of *)
(* internal/runlock is such a slot.  A candidate is one step, or two when  *)
(* it is reaped: Actor.tla has its parts.                                  *)
(***************************************************************************)
EXTENDS Naturals, Sequences, FiniteSets

CONSTANTS Threads,   \* requests, the watcher's goroutine, CLI mains
          Trigger,   \* Trigger[t]: what thread t triggers runs as
          NoThread,  \* nobody is in the slot
          Torrents,  \* numbered in the order ListScores returns them
          Engines,   \* the configurations a reload may load
          MaxRuns,   \* bound on the rows of runs
          Faults     \* the kinds of failure that may happen

\* store: a statement fails.  disconnect: a request's context is cancelled.
\* candidate: a candidate is not reaped.  build: buildActor fails in the CLI.
\* The others let the environment act.
FaultKinds == {"store", "disconnect", "candidate", "build", "poll", "reload", "crash"}

ASSUME ConstantsAssumption ==
  /\ Trigger \in [Threads -> {"http", "disk_pressure", "cli"}]
  /\ NoThread \notin Threads
  /\ Torrents \subseteq Nat /\ IsFiniteSet(Torrents)
  /\ Engines \subseteq [live : BOOLEAN, actor : BOOLEAN]
  /\ MaxRuns \in Nat
  /\ Faults \subseteq FaultKinds

VARIABLES
  \* per thread: where it is, its resolved mode and whether it has an Actor,
  \* its plan, its run, the next item of the run
  pc, mode, acts, plan, id, idx,
  \* the run lock: its holder, the armed run, the runs whose cancel was called
  holder, armed, stopped,
  \* the store: runs and torrents; qBittorrent; whether the poller is between
  \* ListTorrents and UpsertTorrents, and what the former returned
  row, nextRun, rows, qbit, polling, polled,
  \* stop handlers past their status check
  stopping,
  \* the daemon: engine of the pollers and of the HTTP server, where a reload
  \* is, whether engineCtx and signalCtx are cancelled
  engine, httpEngine, reload, engineDown, term,
  \* history: the runs whose stop was asked for; the torrents whose row outlived
  \* them; the runs whose request was given up, that had a write refused, or whose
  \* daemon died
  asked, stale, cutShort

threads == <<pc, mode, acts, plan, id, idx>>
lock == <<holder, armed, stopped>>
store == <<row, nextRun, rows, qbit, polling, polled>>
daemon == <<engine, httpEngine, reload, engineDown, term>>
history == <<asked, stale, cutShort>>
vars == <<threads, lock, store, stopping, daemon, history>>

RunIds == 1..MaxRuns
Statuses == {"none", "pending", "running", "stopped", "completed", "aborted"}
NoRow == [by |-> "http", mode |-> "dry-run", status |-> "none", items |-> <<>>]

May(k) == k \in Faults
InDaemon(t) == Trigger[t] # "cli"

Init ==
  /\ pc = [t \in Threads |-> "idle"]
  /\ mode = [t \in Threads |-> "dry-run"]
  /\ acts = [t \in Threads |-> FALSE]
  /\ plan = [t \in Threads |-> <<>>]
  /\ id = [t \in Threads |-> 0]
  /\ idx = [t \in Threads |-> 1]
  /\ holder = NoThread /\ armed = 0 /\ stopped = {}
  /\ row = [r \in RunIds |-> NoRow] /\ nextRun = 1
  /\ rows = Torrents /\ qbit = Torrents /\ polling = FALSE /\ polled = {}
  /\ stopping = {}
  /\ engine \in Engines /\ httpEngine = engine
  /\ reload = "no" /\ engineDown = FALSE /\ term = FALSE
  /\ asked = {} /\ stale = {} /\ cutShort = {}
-----------------------------------------------------------------------------
Goto(t, l) == pc' = [pc EXCEPT ![t] = l]

\* History: these runs will not be settled; the rows of these torrents outlive them.
CutShort(runs) == cutShort' = cutShort \cup runs
OutlivedBy(set) == stale' = stale \cup set

\* An early return, through the deferred Release.
Leave(t) == Goto(t, "release")

\* gate.go.
ResolveRunMode(live, by, requested) ==
  IF live /\ (by = "disk_pressure" \/ (by \in {"http", "cli"} /\ requested))
  THEN "live" ELSE "dry-run"

\* The context under which t plans and persists is cancelled: a request's by
\* its client (which a step may find or not), the watcher's by the daemon.
Disconnected(t) == Trigger[t] = "http" /\ May("disconnect")
CtxDown(t) == Trigger[t] = "disk_pressure" /\ engineDown

\* A statement of t may fail, or may succeed.
CanFail(t) == May("store") \/ Disconnected(t) \/ CtxDown(t)

\* Mutant of PlansFirst: every trigger takes the slot as late as the request.
AllPlanFirst(t) == t \in Threads

\* The request plans before it takes the slot; the others plan in the slot.
PlansFirst(t) == Trigger[t] = "http"

\* POST /runs, a tick of the watcher that fires, `triagearr run`: the engine is
\* read once and the mode resolved from it.  The request plans at once; a live
\* run of the others first takes the slot.
Trig(t, eng, requested) ==
  LET m == ResolveRunMode(eng.live, Trigger[t], requested)
      act == m = "live" /\ (eng.actor \/ Trigger[t] = "cli")
  IN  /\ pc[t] = "idle" /\ nextRun <= MaxRuns
      /\ Trigger[t] = "disk_pressure" => ~engineDown
      /\ Trigger[t] = "cli" /\ requested => m = "live"
      /\ mode' = [mode EXCEPT ![t] = m]
      /\ acts' = [acts EXCEPT ![t] = act]
      /\ Goto(t, IF act /\ ~PlansFirst(t) THEN "lock" ELSE "plan")
      /\ UNCHANGED <<plan, id, idx, lock, store, stopping, daemon, history>>

HttpTrig(t) ==
  Trigger[t] = "http" /\ \E req \in BOOLEAN : Trig(t, httpEngine, req)
WatcherTrig(t) ==
  Trigger[t] = "disk_pressure" /\ Trig(t, engine, FALSE)
CliTrig(t) ==
  Trigger[t] = "cli" /\ \E e \in Engines, req \in BOOLEAN : Trig(t, e, req)

\* The prefixes of the ranking of set: in order, and without a gap.
RankedPrefixes(set) ==
  UNION {{p \in [1..n -> set] :
            /\ \A i, j \in 1..n : i < j => p[i] < p[j]
            /\ \A h \in set, i \in 1..n : h < p[i] => \E j \in 1..n : p[j] = h}
         : n \in 0..Cardinality(set)}

\* Decider.Plan: a prefix of the ranked torrents rows, as long as the last disk
\* sample asks for.
Plan(t) ==
  /\ pc[t] = "plan"
  /\ \/ /\ ~CtxDown(t)
        /\ \E p \in RankedPrefixes(rows) : plan' = [plan EXCEPT ![t] = p]
        /\ Goto(t, IF acts[t] /\ PlansFirst(t) THEN "lock" ELSE "insert")
     \/ CanFail(t) /\ Leave(t) /\ UNCHANGED plan
  /\ UNCHANGED <<mode, acts, id, idx, lock, store, stopping, daemon, history>>

\* Mutant of Lock: a refusal is taken for success.
LockUnchecked(t) ==
  /\ pc[t] = "lock"
  /\ holder' = IF holder = NoThread THEN t ELSE holder
  /\ Goto(t, IF PlansFirst(t) THEN "insert" ELSE "plan")
  /\ UNCHANGED <<mode, acts, plan, id, idx, armed, stopped, store, stopping, daemon, history>>

\* TryAcquire: 409, a skipped fire or an error when somebody is in the slot.
Lock(t) ==
  /\ pc[t] = "lock"
  /\ \/ /\ holder = NoThread
        /\ holder' = t
        /\ Goto(t, IF PlansFirst(t) THEN "insert" ELSE "plan")
     \/ holder # NoThread /\ Leave(t) /\ UNCHANGED holder
  /\ UNCHANGED <<mode, acts, plan, id, idx, armed, stopped, store, stopping, daemon, history>>

\* Only the request's row begins "pending".
InitialStatus(t) == IF acts[t] /\ Trigger[t] = "http" THEN "pending" ELSE "completed"

\* Store.InsertRun.
InsertRun(t) ==
  /\ pc[t] = "insert"
  /\ \/ /\ ~CtxDown(t) /\ nextRun <= MaxRuns
        /\ row' = [row EXCEPT ![nextRun] =
             [by |-> Trigger[t], mode |-> mode[t], items |-> <<>>,
              status |-> InitialStatus(t)]]
        /\ id' = [id EXCEPT ![t] = nextRun]
        /\ nextRun' = nextRun + 1
        /\ Goto(t, "items")
     \/ CanFail(t) /\ Leave(t) /\ UNCHANGED <<row, id, nextRun>>
     \/ nextRun > MaxRuns /\ Leave(t) /\ UNCHANGED <<row, id, nextRun>>
  /\ UNCHANGED <<mode, acts, plan, idx, lock, rows, qbit, polling, polled, stopping,
                 daemon, history>>

\* Store.InsertRunItems, one transaction; no statement for an empty plan.
InsertRunItems(t) ==
  /\ pc[t] = "items"
  /\ \/ /\ ~CtxDown(t) \/ plan[t] = <<>>
        /\ row' = [row EXCEPT ![id[t]].items = plan[t]]
        /\ Goto(t, IF acts[t] THEN "arm" ELSE "release")
        /\ UNCHANGED cutShort
     \/ /\ CanFail(t) /\ plan[t] # <<>>
        /\ Leave(t) /\ CutShort({id[t]})
        /\ UNCHANGED row
  /\ plan' = [plan EXCEPT ![t] = <<>>]
  /\ UNCHANGED <<mode, acts, id, idx, lock, nextRun, rows, qbit, polling, polled,
                 stopping, daemon, asked, stale>>

\* Mutant of Arm: the handler's deferred Release runs although its goroutine has
\* been started.
ArmReleased(t) ==
  /\ pc[t] = "arm"
  /\ Goto(t, "execute")
  /\ armed' = IF InDaemon(t) THEN id[t] ELSE armed
  /\ holder' = NoThread
  /\ UNCHANGED <<mode, acts, plan, id, idx, stopped, store, stopping, daemon, history>>

\* runLock.Arm, and `go executeRunAsync` in the handler.  The CLI arms nothing
\* and builds its Actor only now.
Arm(t) ==
  /\ pc[t] = "arm"
  /\ \/ Goto(t, "execute")
     \/ ~InDaemon(t) /\ May("build") /\ Leave(t)
  /\ armed' = IF InDaemon(t) THEN id[t] ELSE armed
  /\ UNCHANGED <<mode, acts, plan, id, idx, holder, stopped, store, stopping,
                 daemon, history>>

SetStatus(r, s) == row' = [row EXCEPT ![r].status = s]

\* An error of Execute.  Only the request's goroutine marks the run aborted,
\* unless that write is refused as well or baseCtx is cancelled.
ExecuteFails(t) ==
  /\ May("store")
  /\ \/ Trigger[t] = "http" /\ ~term /\ SetStatus(id[t], "aborted") /\ UNCHANGED cutShort
     \/ CutShort({id[t]}) /\ UNCHANGED row
  /\ Leave(t)

\* Actor.Execute, up to MarkRunStatus(running), shielded from cancellation.
Execute(t) ==
  /\ pc[t] = "execute"
  /\ \/ SetStatus(id[t], "running") /\ Goto(t, "loop") /\ UNCHANGED cutShort
     \/ ExecuteFails(t)
  /\ UNCHANGED <<mode, acts, plan, id, idx, lock, nextRun, rows, qbit, polling, polled,
                 stopping, daemon, asked, stale>>

\* The context that Execute was given: its own cancel, or the daemon's.
Cancelled(t) ==
  \/ id[t] \in stopped
  \/ Trigger[t] = "disk_pressure" /\ engineDown
  \/ InDaemon(t) /\ term

Items(t) == row[id[t]].items

\* Where a thread works on a row of runs.
InFlight == {"items", "arm", "execute", "loop", "forget"}

NextItem(t) == idx' = [idx EXCEPT ![t] = @ + 1]

\* processCandidate.  A torrent that qBit does not have is never reaped.
Candidate(t) ==
  /\ pc[t] = "loop" /\ idx[t] <= Len(Items(t)) /\ ~Cancelled(t)
  /\ LET h == Items(t)[idx[t]]
     IN  \/ /\ h \in qbit
            /\ qbit' = qbit \ {h}
            /\ Goto(t, "forget")
            /\ UNCHANGED idx
         \/ /\ h \notin qbit \/ May("candidate")
            /\ NextItem(t)
            /\ UNCHANGED <<pc, qbit>>
  /\ UNCHANGED <<mode, acts, plan, id, lock, row, nextRun, rows, polling, polled, stopping,
                 daemon, history>>

\* ForgetTorrent, the last call of processCandidate.
Forget(t) ==
  /\ pc[t] = "forget"
  /\ LET h == Items(t)[idx[t]]
     IN  \/ rows' = rows \ {h} /\ UNCHANGED stale
         \/ May("store") /\ OutlivedBy({h} \cap rows) /\ UNCHANGED rows
  /\ NextItem(t)
  /\ Goto(t, "loop")
  /\ UNCHANGED <<mode, acts, plan, id, lock, row, nextRun, qbit, polling, polled, stopping,
                 daemon, asked, cutShort>>

\* Mutant of EndRun: a run that was cut short is not marked.
EndRunUnmarked(t) ==
  /\ pc[t] = "loop"
  /\ idx[t] > Len(Items(t)) \/ Cancelled(t)
  /\ IF idx[t] <= Len(Items(t)) THEN UNCHANGED row ELSE SetStatus(id[t], "completed")
  /\ Leave(t)
  /\ UNCHANGED <<mode, acts, plan, id, idx, lock, nextRun, rows, qbit, polling, polled,
                 stopping, daemon, history>>

\* MarkRunStopped when the loop was cut short, else completed.
EndRun(t) ==
  /\ pc[t] = "loop"
  /\ idx[t] > Len(Items(t)) \/ Cancelled(t)
  /\ \/ /\ SetStatus(id[t], IF idx[t] <= Len(Items(t)) THEN "stopped" ELSE "completed")
        /\ Leave(t) /\ UNCHANGED cutShort
     \/ ExecuteFails(t)
  /\ UNCHANGED <<mode, acts, plan, id, idx, lock, nextRun, rows, qbit, polling, polled,
                 stopping, daemon, asked, stale>>

\* Mutant of Releases: a refused thread releases the slot as well.
ReleasesAlways(t) == holder # NoThread

Releases(t) == holder = t

\* runLock.Release when t is in the slot, and t's return with its variables.
Release(t) ==
  /\ pc[t] = "release"
  /\ IF Releases(t)
     THEN holder' = NoThread /\ armed' = IF InDaemon(t) THEN 0 ELSE armed
     ELSE UNCHANGED <<holder, armed>>
  /\ Goto(t, "idle")
  /\ mode' = [mode EXCEPT ![t] = "dry-run"]
  /\ acts' = [acts EXCEPT ![t] = FALSE]
  /\ plan' = [plan EXCEPT ![t] = <<>>]
  /\ id' = [id EXCEPT ![t] = 0]
  /\ idx' = [idx EXCEPT ![t] = 1]
  /\ UNCHANGED <<stopped, store, stopping, daemon, history>>

Step(t) ==
  \/ Plan(t) \/ Lock(t) \/ InsertRun(t) \/ InsertRunItems(t) \/ Arm(t)
  \/ Execute(t) \/ Candidate(t) \/ Forget(t) \/ EndRun(t) \/ Release(t)
-----------------------------------------------------------------------------
\* handleStopRun: the status check on a row that was read, then RequestStop.
StopCheck(r) ==
  /\ r \notin asked
  /\ row[r].status \in {"pending", "running"}
  /\ stopping' = stopping \cup {r}
  /\ asked' = asked \cup {r}
  /\ UNCHANGED <<threads, lock, store, daemon, stale, cutShort>>

\* Mutant of RequestStop: the id is not compared.
RequestStopAny(r) ==
  /\ r \in stopping
  /\ stopping' = stopping \ {r}
  /\ stopped' = IF armed # 0 THEN stopped \cup {armed} ELSE stopped
  /\ UNCHANGED <<threads, holder, armed, store, daemon, history>>

RequestStop(r) ==
  /\ r \in stopping
  /\ stopping' = stopping \ {r}
  /\ stopped' = IF armed # 0 /\ armed = r THEN stopped \cup {armed} ELSE stopped
  /\ UNCHANGED <<threads, holder, armed, store, daemon, history>>

\* The torrent poller's tick: ListTorrents, then UpsertTorrents, which brings back
\* the row of what was reaped in between.
ListTorrents ==
  /\ May("poll") /\ ~polling /\ ~engineDown
  /\ polling' = TRUE /\ polled' = qbit
  /\ UNCHANGED <<threads, lock, row, nextRun, rows, qbit, stopping, daemon, history>>

UpsertTorrents ==
  /\ polling
  /\ polling' = FALSE /\ polled' = {}
  /\ IF engineDown
     THEN UNCHANGED <<rows, stale>>
     ELSE rows' = rows \cup polled /\ OutlivedBy(polled \ qbit)
  /\ UNCHANGED <<threads, lock, row, nextRun, qbit, stopping, daemon, asked, cutShort>>

Watchers == {t \in Threads : Trigger[t] = "disk_pressure"}

\* reload: a new configuration is persisted, buildEngine, then engineCancel.
Reload ==
  /\ May("reload") /\ reload = "no" /\ ~term
  /\ reload' = "drain"
  /\ engineDown' = TRUE
  /\ UNCHANGED <<threads, lock, store, stopping, engine, httpEngine, term, history>>

\* waitPollers has returned: the pollers of the new engine start.
StartPollers ==
  /\ reload = "drain" /\ ~term
  /\ ~polling /\ \A t \in Watchers : pc[t] = "idle"
  /\ reload' = "swap"
  /\ engine' \in Engines
  /\ engineDown' = FALSE
  /\ UNCHANGED <<threads, lock, store, stopping, httpEngine, term, history>>

SwapEngine ==
  /\ reload = "swap"
  /\ reload' = "no"
  /\ httpEngine' = engine
  /\ UNCHANGED <<threads, lock, store, stopping, engine, engineDown, term, history>>

\* SIGTERM: signalCtx is the parent of engineCtx and of the server's baseCtx.
Terminate ==
  /\ May("crash") /\ ~term
  /\ term' = TRUE
  /\ engineDown' = TRUE
  /\ UNCHANGED <<threads, lock, store, stopping, engine, httpEngine, reload, history>>

\* The daemon dies, or exits after SIGTERM, which waits for the pollers but not
\* for a run that a request has detached; and it is started again.  An exit closes
\* the lock's file a moment before the process is gone: what a detached run still
\* does in that moment, beside a CLI process, is left out.
Exit ==
  /\ May("crash")
  /\ LET lost == {t \in Threads : InDaemon(t)}
     IN  /\ CutShort({id[t] : t \in {u \in lost : pc[u] \in InFlight}})
         /\ OutlivedBy(rows \cap {Items(t)[idx[t]] : t \in {u \in lost : pc[u] = "forget"}})
  /\ LET Lost(f, v) == [t \in Threads |-> IF InDaemon(t) THEN v ELSE f[t]]
     IN  /\ pc' = Lost(pc, "idle")
         /\ mode' = Lost(mode, "dry-run")
         /\ acts' = Lost(acts, FALSE)
         /\ plan' = Lost(plan, <<>>)
         /\ id' = Lost(id, 0)
         /\ idx' = Lost(idx, 1)
  /\ holder' = IF holder # NoThread /\ ~InDaemon(holder) THEN holder ELSE NoThread
  /\ armed' = 0 /\ stopping' = {} /\ polling' = FALSE /\ polled' = {}
  /\ engine' \in Engines /\ httpEngine' = engine'
  /\ reload' = "no" /\ engineDown' = FALSE /\ term' = FALSE
  /\ UNCHANGED <<stopped, row, nextRun, rows, qbit, asked>>

Daemon == Reload \/ StartPollers \/ SwapEngine \/ Terminate \/ Exit

Next ==
  \/ \E t \in Threads : HttpTrig(t) \/ WatcherTrig(t) \/ CliTrig(t) \/ Step(t)
  \/ \E r \in RunIds : StopCheck(r) \/ RequestStop(r)
  \/ ListTorrents \/ UpsertTorrents \/ Daemon

Spec == Init /\ [][Next]_vars

\* A runnable goroutine runs; each call of a candidate has a deadline.
FairSpec ==
  /\ Spec
  /\ \A t \in Threads : WF_vars(Step(t))
  /\ \A r \in RunIds : WF_vars(RequestStop(r))
-----------------------------------------------------------------------------
Locs == {"idle", "plan", "lock", "insert", "items", "arm", "execute", "loop",
         "forget", "release"}

RunRows == [by : {"http", "disk_pressure", "cli"}, mode : {"live", "dry-run"},
            status : Statuses, items : Seq(Torrents)]

ThreadsOK ==
  /\ pc \in [Threads -> Locs]
  /\ mode \in [Threads -> {"live", "dry-run"}]
  /\ acts \in [Threads -> BOOLEAN]
  /\ plan \in [Threads -> Seq(Torrents)]
  /\ id \in [Threads -> 0..MaxRuns]
  /\ idx \in [Threads -> Nat \ {0}]

LockOK ==
  /\ holder \in Threads \cup {NoThread} /\ armed \in 0..MaxRuns
  /\ stopped \cup stopping \cup asked \subseteq RunIds

StoreOK ==
  /\ row \in [RunIds -> RunRows]
  /\ nextRun \in 1..(MaxRuns + 1)
  /\ rows \cup qbit \cup polled \subseteq Torrents

DaemonOK ==
  /\ {engine, httpEngine} \subseteq Engines /\ reload \in {"no", "drain", "swap"}
  /\ {polling, engineDown, term} \subseteq BOOLEAN

HistoryOK == stale \subseteq Torrents /\ cutShort \subseteq RunIds

\* Every variable has its type.
TypeOK == ThreadsOK /\ LockOK /\ StoreOK /\ DaemonOK /\ HistoryOK

Shown(r) == row[r].status \in {"pending", "running"}

\* handlePostRun: "Live runs start "pending" and are driven to a terminal state
\* by the background goroutine": whenever the UI is shown a run as pending or
\* running, some thread is still on its way to settle it.
ShownRunsAreDriven ==
  \A r \in RunIds : Shown(r) => \E t \in Threads : id[t] = r /\ pc[t] \in InFlight

\* What ShownRunsAreDriven comes to: a run that is shown as in progress and that no
\* thread is on its way to settle is one whose request was given up before its items
\* were written, one of which a write was refused, or one whose daemon died.
OnlyCutShortAreUndriven ==
  \A r \in RunIds :
    Shown(r) => r \in cutShort \/ \E t \in Threads : id[t] = r /\ pc[t] \in InFlight

\* A run is marked stopped only when somebody stopped this run and no other:
\* the operator asked for it, or the daemon cancelled its context by a reload or
\* a shutdown.  A stop that comes late never halts the next run.
StopsHitTheirRun ==
  [][\A r \in RunIds : row'[r].status = "stopped" /\ row[r].status # "stopped" =>
       \/ r \in asked
       \/ row[r].by # "cli" /\ term
       \/ row[r].by = "disk_pressure" /\ engineDown]_vars

\* One row of a live run is acted on at a time: two runs of different triggers
\* never both have a candidate to process.
LiveRunsTakeTurns ==
  \A s, t \in Threads :
    pc[s] \in {"execute", "loop", "forget"} /\ pc[t] \in {"execute", "loop", "forget"}
      => s = t

\* disk_watcher.go, fire: taking the slot before planning is what keeps a plan
\* from naming torrents that the previous run has reaped, unless the row of one has
\* outlived it: ForgetTorrent failed, the daemon died before it, or a poll that was
\* under way has written the row again.  A request plans before it takes the slot,
\* and has no such promise.
NoDeadTargets ==
  [][\A t \in Threads :
     ( /\ Trigger[t] # "http" /\ pc[t] = "loop" /\ idx[t] <= Len(Items(t))
       /\ pc'[t] = "forget" \/ idx'[t] = idx[t] + 1 )
       => Items(t)[idx[t]] \in qbit \cup stale]_vars

-----------------------------------------------------------------------------
\* What the proofs of these properties rest on.

\* Where a thread that acts is in the slot: a request has planned before.
SlotLocs(t) ==
  {"insert", "items", "arm", "execute", "loop", "forget"}
    \cup (IF PlansFirst(t) THEN {} ELSE {"plan"})

\* Only a live run takes the slot and executes, and it is in the slot from Lock
\* to Release.
SlotIsHeld ==
  \A t \in Threads :
    /\ pc[t] \in {"lock", "arm", "execute", "loop", "forget"} => acts[t]
    /\ acts[t] /\ pc[t] \in SlotLocs(t) => holder = t

\* A thread works on a row that it inserted, and no other thread does.
RunsAreOwned ==
  /\ \A t \in Threads :
       pc[t] \in InFlight => id[t] \in 1..(nextRun - 1) /\ row[id[t]].by = Trigger[t]
  /\ \A s, t \in Threads :
       pc[s] \in InFlight /\ pc[t] \in InFlight /\ id[s] = id[t] => s = t

\* Only what was asked for is stopped.
StopsAreAsked == stopped \cup stopping \subseteq asked

IInv == TypeOK /\ SlotIsHeld /\ RunsAreOwned /\ StopsAreAsked

\* The rows are what qBittorrent has, but for those that are known to have outlived
\* their torrent and for one that is being forgotten.
RowsAreAlive ==
  \A h \in rows \ (qbit \cup stale) :
    \E t \in Threads : pc[t] = "forget" /\ h = Items(t)[idx[t]]

Distinct(s) == \A i, j \in 1..Len(s) : s[i] = s[j] => i = j

\* The candidates are taken from the first on.
LoopsStartAtOne ==
  \A t \in Threads : pc[t] \notin {"loop", "forget", "release"} => idx[t] = 1

\* What a thread that plans in the slot has yet to delete is there, or had a row
\* that outlived it.
PlanIsAlive(t) ==
  /\ pc[t] \in {"insert", "items"} =>
       Distinct(plan[t]) /\ (\A i \in 1..Len(plan[t]) : plan[t][i] \in qbit \cup stale)
  /\ pc[t] \in {"arm", "execute", "loop", "forget"} =>
       /\ Distinct(Items(t))
       /\ \A i \in 1..Len(Items(t)) :
            i > idx[t] \/ (i = idx[t] /\ pc[t] # "forget") => Items(t)[i] \in qbit \cup stale

PlansAreAlive == \A t \in Threads : ~PlansFirst(t) /\ acts[t] => PlanIsAlive(t)

AliveInv == RowsAreAlive /\ LoopsStartAtOne /\ PlansAreAlive

\* Only the row of a request that acts is shown before its execution.
ShownRunsWillAct ==
  \A t \in Threads :
    pc[t] \in {"items", "arm"} /\ Shown(id[t]) => acts[t] /\ Trigger[t] = "http"

DrivenInv == OnlyCutShortAreUndriven /\ ShownRunsWillAct
-----------------------------------------------------------------------------
\* A run whose stop was answered 202 settles, and so does every run that the UI
\* shows as in progress.
ShownRunsSettle ==
  \A r \in RunIds :
    row[r].status \in {"pending", "running"} ~>
      row[r].status \in {"stopped", "completed", "aborted"}
=============================================================================
