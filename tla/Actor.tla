-------------------------------- MODULE Actor --------------------------------
(***************************************************************************)
(* internal/actor: the pipeline that executes a run.  For each candidate   *)
(* torrent, in rank order: insert an action row, resolve the *arr files    *)
(* imported from it, DELETE each of them, stat the torrent's files, delete *)
(* the torrent in qBittorrent, finish the action row, forget the torrent.  *)
(*                                                                         *)
(* Around it, from how the code uses them: the *arr services, qBittorrent, *)
(* the hardlinks of the shared volume, and the rows of the SQLite store.   *)
(* A network write may be applied although its answer is lost, the store   *)
(* may refuse any statement, and the process may die between any two       *)
(* steps; runs follow each other, so that a later run meets what an        *)
(* earlier one left behind.                                                *)
(***************************************************************************)
EXTENDS Naturals, Sequences, FiniteSets

CONSTANTS Torrents,     \* info hashes
          Files,        \* *arr file ids; the store lists links by id
          Inodes,       \* data files on the volume
          Content,      \* Content[h]: the inodes of a torrent, as qBit lists them
          Imports,      \* Imports[h]: the file ids of h's arr_imports rows
          InodeOf,      \* InodeOf[f]: the inode an *arr file is a hardlink of
          Actable,      \* the files of instances with a deleter (act: true)
          MaxAttempts,  \* attempts of retry.Do
          RunInputs,    \* the runs rows that Execute may be called for, with the
                        \* Actor's max_deletions_per_run then (a reload replaces
                        \* it); a cap of 0 is none
          MaxRuns,      \* bound on the runs executed
          Faults        \* the kinds of failure that may happen

Modes == {"live", "dry-run"}
Triggers == {"disk_pressure", "http", "cli", "cron"}
FaultKinds == {"store", "arr", "qbit", "stat", "peer", "user", "upgrade", "crash"}

\* A torrent is planned at most once in a run: its items come from the primary
\* key of scores.
ASSUME ConstantsAssumption ==
  /\ Files \subseteq Nat \ {0}
  /\ Content \in [Torrents -> SUBSET Inodes]
  /\ Imports \in [Torrents -> SUBSET Files]
  /\ InodeOf \in [Files -> Inodes]
  /\ Actable \subseteq Files
  /\ MaxAttempts \in Nat \ {0}
  /\ MaxRuns \in Nat
  /\ RunInputs \subseteq [mode : Modes, by : Triggers, cap : Nat, items : Seq(Torrents)]
  /\ \A r \in RunInputs : \A i, j \in 1..Len(r.items) :
       r.items[i] = r.items[j] => i = j
  /\ Faults \subseteq FaultKinds

VARIABLES
  \* Execute: where it is, its run and item, and its context's cancellation
  pc, run, idx, cancel,
  \* processCandidate: links resolved, links still to delete, files still to
  \* stat, the attempt at a write, the outcome, the action's audit_log rows
  links, left, todo, attempt, res, audit,
  \* the store: runs, actions, media_files and torrents rows
  row, status, act, mediaFiles, rows,
  \* the world: files *arr knows, torrents in qBit, paths of torrents on disk,
  \* inodes with a hardlink of somebody else
  arr, qbit, paths, peers

loop == <<pc, run, idx, cancel>>
work == <<links, left, todo, attempt, res, audit>>
store == <<row, status, act, mediaFiles, rows>>
world == <<arr, qbit, paths, peers>>
vars == <<loop, work, store, world>>

Runs == 1..MaxRuns
Terminal == {"succeeded", "aborted_arr_fail", "aborted_nlink_check",
             "skipped_cross_seed", "failed_qbit"}
ActionStatus == {"none", "running"} \cup Terminal
RunStatus == {"planned", "running", "stopped", "completed"}
Steps == {"idle", "loop", "links", "arr", "nlink", "stat", "qbit", "finish", "forget"}

NoRun == [mode |-> "dry-run", by |-> "cron", cap |-> 0, items |-> <<>>]

h == row[run].items[idx]                     \* the candidate at work

\* Another name of inode c exists besides torrent t's own path.
Shared(t, c) ==
  \/ c \in peers
  \/ \E f \in arr : InodeOf[f] = c
  \/ \E u \in Torrents \ {t} : <<u, c>> \in paths

Init ==
  /\ pc = "idle" /\ run = 0 /\ idx = 1 /\ links = {} /\ left = {} /\ todo = {}
  /\ attempt = 1 /\ res = "running" /\ cancel = FALSE
  /\ row = [r \in Runs |-> NoRun]
  /\ status = [r \in Runs |-> "planned"]
  /\ act = [r \in Runs |-> [t \in Torrents |-> "none"]]
  /\ audit = {}
  /\ arr = UNION {Imports[t] : t \in Torrents}
  /\ mediaFiles \in SUBSET arr
  /\ rows = Torrents
  /\ qbit = Torrents
  /\ paths = {p \in Torrents \X Inodes : p[2] \in Content[p[1]]}
  /\ peers \in SUBSET Inodes
-----------------------------------------------------------------------------
May(k) == k \in Faults

\* The rows of actions and of audit_log.
InsertAction == act' = [act EXCEPT ![run][h] = "running"]
FinishAction(s) == act' = [act EXCEPT ![run][h] = s]
AppendAudit(entries) == audit' = audit \cup entries

\* audit: an append that fails is swallowed.
Log(entries) ==
  IF May("store") THEN \E kept \in SUBSET entries : AppendAudit(kept)
                  ELSE AppendAudit(entries)

\* The variables of a processCandidate that has returned.
ClearWork ==
  /\ links' = {} /\ left' = {} /\ todo' = {} /\ audit' = {}
  /\ attempt' = 1 /\ res' = "running"

\* Leave the pipeline for finish() with the terminal status s.
FinishAs(s) == pc' = "finish" /\ res' = s

NextItem == pc' = "loop" /\ idx' = idx + 1 /\ ClearWork

\* The gate of Execute: mode and triggeredBy.
MayExecute(r) == r.mode = "live" /\ r.by \in {"disk_pressure", "http", "cli"}

\* Execute, up to MarkRunStatus(running).  A run that is not live, or of a
\* trigger that may not execute, is left alone.
Execute(r) ==
  /\ pc = "idle" /\ run < MaxRuns
  /\ run' = run + 1
  /\ row' = [row EXCEPT ![run + 1] = r]
  /\ \/ /\ MayExecute(r)
        /\ status' = [status EXCEPT ![run + 1] = "running"]
        /\ pc' = "loop"
     \/ /\ ~MayExecute(r) \/ May("store")
        /\ UNCHANGED <<status, pc>>
  /\ UNCHANGED <<idx, cancel, work, act, mediaFiles, rows, world>>

\* Mutant of AtCap: the cap is compared after the candidate.
AtCapLate == row[run].cap > 0 /\ idx > row[run].cap + 1

AtCap == row[run].cap > 0 /\ idx > row[run].cap

\* Mutant of StartCandidate: the action row is left to finish().
StartUnrecorded ==
  /\ pc = "loop" /\ idx <= Len(row[run].items) /\ ~cancel /\ ~AtCap
  /\ pc' = "links"
  /\ UNCHANGED <<run, idx, cancel, work, store, world>>

\* The loop head and processCandidate's InsertAction.
StartCandidate ==
  /\ pc = "loop" /\ idx <= Len(row[run].items) /\ ~cancel /\ ~AtCap
  /\ \/ /\ InsertAction
        /\ pc' = "links"
        /\ UNCHANGED <<idx, work>>
     \/ May("store") /\ NextItem /\ UNCHANGED act
  /\ UNCHANGED <<run, cancel, row, status, mediaFiles, rows, world>>

\* Mutant of EndRun: a run that was stopped returns before it is marked.
EndRunUnmarked ==
  /\ pc = "loop"
  /\ idx > Len(row[run].items) \/ cancel \/ AtCap
  /\ pc' = "idle" /\ idx' = 1 /\ cancel' = FALSE
  /\ status' = IF cancel THEN status ELSE [status EXCEPT ![run] = "completed"]
  /\ UNCHANGED <<run, work, row, act, mediaFiles, rows, world>>

\* The end of Execute: MarkRunStopped or MarkRunStatus(completed).
EndRun ==
  /\ pc = "loop"
  /\ idx > Len(row[run].items) \/ cancel \/ AtCap
  /\ pc' = "idle" /\ idx' = 1 /\ cancel' = FALSE
  /\ LET final == IF idx <= Len(row[run].items) /\ cancel THEN "stopped" ELSE "completed"
     IN  \/ status' = [status EXCEPT ![run] = final]
         \/ May("store") /\ UNCHANGED status
  /\ UNCHANGED <<run, work, row, act, mediaFiles, rows, world>>

\* The store's JOIN of arr_imports and media_files.
LinksByHash(t) == Imports[t] \cap mediaFiles

\* Mutant of MarkRemaining: the links from f on.
MarkFrom(f, set) == {<<"arr", g, "not_attempted">> : g \in {e \in set : e >= f}}

\* The links after f in the order of the rows become not_attempted.
MarkRemaining(f, set) == {<<"arr", g, "not_attempted">> : g \in {e \in set : e > f}}

\* LinksByHash and the first pass of fanoutArr, which resolves the deleter of
\* every link before any DELETE and gives up at the first link without one.
ResolveLinks ==
  /\ pc = "links"
  /\ \/ /\ LinksByHash(h) \subseteq Actable
        /\ pc' = "arr" /\ attempt' = 1
        /\ links' = LinksByHash(h) /\ left' = LinksByHash(h)
        /\ UNCHANGED <<res, audit>>
     \/ \E f \in LinksByHash(h) \ Actable :
          /\ \A g \in LinksByHash(h) \ Actable : f <= g
          /\ Log({<<"arr", f, "skipped">>} \cup MarkRemaining(f, LinksByHash(h)))
          /\ FinishAs("aborted_arr_fail")
          /\ links' = LinksByHash(h)
          /\ UNCHANGED <<left, attempt>>
     \/ /\ May("store")
        /\ Log({<<"arr", 0, "failed">>})
        /\ FinishAs("aborted_arr_fail")
        /\ UNCHANGED <<links, left, attempt>>
  /\ UNCHANGED <<run, idx, cancel, todo, store, world>>

\* retry.Do goes on after a transient error.
MoreAttempts == attempt < MaxAttempts

\* DeleteFile's hard errors: *arr answers 404 for a file it does not know.
Refused(f) == f \notin arr \/ May("arr")

\* One attempt of DeleteMediaFile(f).  A 5xx or a transport failure is transient,
\* and the DELETE may have been applied all the same.
ArrDelete(f) ==
  /\ pc = "arr" /\ f \in left /\ \A g \in left : f <= g
  /\ \/ /\ f \in arr                                       \* 200, 204
        /\ arr' = arr \ {f}
        /\ left' = left \ {f} /\ attempt' = 1
        /\ Log({<<"arr", f, "ok">>})
        /\ UNCHANGED <<pc, res>>
     \/ /\ Refused(f)                                     \* 404, 401
        /\ Log({<<"arr", f, "failed">>} \cup MarkRemaining(f, left))
        /\ FinishAs("aborted_arr_fail")
        /\ UNCHANGED <<arr, left, attempt>>
     \/ /\ May("arr") /\ arr' \in {arr, arr \ {f}}         \* ErrTransient
        /\ IF MoreAttempts
           THEN attempt' = attempt + 1 /\ UNCHANGED <<pc, res, audit>>
           ELSE /\ Log({<<"arr", f, "failed">>} \cup MarkRemaining(f, left))
                /\ FinishAs("aborted_arr_fail")
                /\ UNCHANGED attempt
        /\ UNCHANGED left
  /\ UNCHANGED <<run, idx, cancel, links, todo, store, qbit, paths, peers>>

ArrDone ==
  /\ pc = "arr" /\ left = {}
  /\ pc' = "nlink"
  /\ UNCHANGED <<run, idx, cancel, work, store, world>>

\* Mutant of Listed: a torrent that qBit does not know has the files of its row.
ListedByRow(t) == t \in rows /\ Content[t] # {}

Listed(t) == t \in rows /\ t \in qbit /\ Content[t] # {}

\* checkNlink up to its loop: TorrentSavePath needs the torrents row, and
\* TorrentFiles a torrent that qBit knows and that has files.
ListFiles ==
  /\ pc = "nlink"
  /\ \/ /\ Listed(h)
        /\ todo' = Content[h]
        /\ pc' = "stat"
        /\ UNCHANGED <<res, audit>>
     \/ /\ ~Listed(h) \/ May("store") \/ May("qbit")
        /\ Log({<<"nlink", 0, "failed">>})
        /\ FinishAs("aborted_nlink_check")
        /\ UNCHANGED todo
  /\ UNCHANGED <<run, idx, cancel, links, left, attempt, store, world>>

\* One stat of checkNlink's loop.
StatFile(c) ==
  /\ pc = "stat" /\ c \in todo
  /\ \/ /\ <<h, c>> \notin paths \/ ~Shared(h, c)          \* ENOENT, or nlink = 1
        /\ todo' = todo \ {c}
        /\ UNCHANGED <<pc, res, audit>>
     \/ /\ <<h, c>> \in paths /\ Shared(h, c)              \* nlink > 1
        /\ Log({<<"nlink", 0, "skipped">>})
        /\ FinishAs("skipped_cross_seed")
        /\ UNCHANGED todo
     \/ /\ May("stat")
        /\ Log({<<"nlink", 0, "failed">>})
        /\ FinishAs("aborted_nlink_check")
        /\ UNCHANGED todo
  /\ UNCHANGED <<run, idx, cancel, links, left, attempt, store, world>>

\* Mutant of StatDone: the loop over the files is left early.
StatDoneEarly ==
  /\ pc = "stat"
  /\ Log({<<"nlink", 0, "ok">>})
  /\ pc' = "qbit" /\ attempt' = 1
  /\ UNCHANGED <<run, idx, cancel, links, left, todo, res, store, world>>

StatDone ==
  /\ pc = "stat" /\ todo = {}
  /\ Log({<<"nlink", 0, "ok">>})
  /\ pc' = "qbit" /\ attempt' = 1
  /\ UNCHANGED <<run, idx, cancel, links, left, todo, res, store, world>>

\* Mutant of RemoveTorrent: deleteFiles is not set.
RemoveKeepingFiles(t) == qbit' = qbit \ {t} /\ UNCHANGED paths

\* qBit drops the torrent and unlinks its files; it answers 200 for a hash it
\* does not know, too.
RemoveTorrent(t) ==
  /\ qbit' = qbit \ {t}
  /\ paths' = {p \in paths : p[1] # t}

\* One attempt of the Actor's Client.Delete.
QbitDelete ==
  /\ pc = "qbit"
  /\ \/ /\ RemoveTorrent(h)                                \* 200
        /\ Log({<<"qbit", 0, "ok">>})
        /\ FinishAs("succeeded")
        /\ UNCHANGED attempt
     \/ /\ May("qbit")                                     \* other 4xx
        /\ Log({<<"qbit", 0, "failed">>})
        /\ FinishAs("failed_qbit")
        /\ UNCHANGED <<attempt, qbit, paths>>
     \/ /\ May("qbit")                                     \* ErrTransient
        /\ RemoveTorrent(h) \/ UNCHANGED <<qbit, paths>>
        /\ IF MoreAttempts
           THEN attempt' = attempt + 1 /\ UNCHANGED <<pc, res, audit>>
           ELSE Log({<<"qbit", 0, "failed">>}) /\ FinishAs("failed_qbit") /\ UNCHANGED attempt
  /\ UNCHANGED <<run, idx, cancel, links, left, todo, store, arr, peers>>

\* finish.  When the row cannot be written the action stays "running" and, for
\* a success, the torrent is not forgotten.
Finish ==
  /\ pc = "finish"
  /\ \/ /\ FinishAction(res)
        /\ IF res = "succeeded" THEN pc' = "forget" /\ UNCHANGED <<idx, work>>
                                ELSE NextItem
     \/ May("store") /\ NextItem /\ UNCHANGED act
  /\ UNCHANGED <<run, cancel, row, status, mediaFiles, rows, world>>

\* ForgetTorrent; a failure is only logged.
Forget ==
  /\ pc = "forget"
  /\ rows' = rows \ {h} \/ (May("store") /\ UNCHANGED rows)
  /\ NextItem
  /\ UNCHANGED <<run, cancel, row, status, act, mediaFiles, world>>
-----------------------------------------------------------------------------
\* RequestStop, or the cancellation of the context Execute was given.
Cancel ==
  /\ pc # "idle" /\ ~cancel
  /\ cancel' = TRUE
  /\ UNCHANGED <<pc, run, idx, work, store, world>>

\* The process dies; nothing of the run is taken up again after a restart.
Crash ==
  /\ May("crash") /\ pc # "idle"
  /\ pc' = "idle" /\ idx' = 1 /\ cancel' = FALSE /\ ClearWork
  /\ UNCHANGED <<run, store, world>>

\* A cross-seed tool adds a hardlink to an inode.
AddPeer(c) ==
  /\ May("peer") /\ c \notin peers
  /\ \E t \in Torrents : <<t, c>> \in paths
  /\ peers' = peers \cup {c}
  /\ UNCHANGED <<loop, work, store, arr, qbit, paths>>

\* A user or a cleanup script removes a file under a torrent.
RemovePath(p) ==
  /\ May("user") /\ p \in paths
  /\ paths' = paths \ {p}
  /\ UNCHANGED <<loop, work, store, arr, qbit, peers>>

\* *arr replaces a file by a better release, or its user deletes it.
Upgrade(f) ==
  /\ May("upgrade") /\ f \in arr
  /\ arr' = arr \ {f}
  /\ UNCHANGED <<loop, work, store, qbit, paths, peers>>

\* The *arr poller upserts the files it sees, the torrent poller the torrents.
PollArr ==
  /\ mediaFiles' = mediaFiles \cup arr
  /\ UNCHANGED <<loop, work, row, status, act, rows, world>>

PollTorrents ==
  /\ rows' = rows \cup qbit
  /\ UNCHANGED <<loop, work, row, status, act, mediaFiles, world>>

ActorStep ==
  \/ StartCandidate \/ EndRun \/ ResolveLinks \/ ArrDone \/ ListFiles
  \/ StatDone \/ QbitDelete \/ Finish \/ Forget
  \/ \E f \in Files : ArrDelete(f)
  \/ \E c \in Inodes : StatFile(c)

Environment ==
  \/ Cancel \/ Crash \/ PollArr \/ PollTorrents
  \/ \E c \in Inodes : AddPeer(c)
  \/ \E f \in Files : Upgrade(f)
  \/ \E p \in Torrents \X Inodes : RemovePath(p)

Next == ActorStep \/ Environment \/ \E r \in RunInputs : Execute(r)

Spec == Init /\ [][Next]_vars

\* The Actor's goroutine runs, and each of its requests has a deadline, so it is
\* answered or fails; the *arr poller ticks for as long as the daemon lives.
FairSpec == Spec /\ WF_vars(ActorStep) /\ WF_vars(PollArr)
-----------------------------------------------------------------------------
LoopOK ==
  /\ pc \in Steps /\ run \in 0..MaxRuns /\ idx \in Nat \ {0}
  /\ pc # "idle" => run \in Runs /\ row[run] \in RunInputs /\ row[run].mode = "live"
  /\ pc \notin {"idle", "loop"} => idx \in 1..Len(row[run].items)

WorkOK ==
  /\ links \subseteq Files /\ left \subseteq Files /\ todo \subseteq Inodes
  /\ attempt \in 1..MaxAttempts
  /\ res \in Terminal \cup {"running"}

StoreOK ==
  /\ row \in [Runs -> RunInputs \cup {NoRun}]
  /\ status \in [Runs -> RunStatus]
  /\ act \in [Runs -> [Torrents -> ActionStatus]]
  /\ mediaFiles \subseteq Files /\ rows \subseteq Torrents

WorldOK ==
  /\ arr \subseteq Files /\ qbit \subseteq Torrents
  /\ paths \subseteq Torrents \X Inodes /\ peers \subseteq Inodes

\* Every variable has its type, and Execute stays within the plan of a live run.
TypeOK == LoopOK /\ cancel \in BOOLEAN /\ WorkOK /\ StoreOK /\ WorldOK

\* ADR-0003, the order of deletion: when a torrent leaves qBittorrent, every
\* *arr file that was resolved for it is gone from *arr, whatever answers were
\* lost and retried, and each of its files that is still on disk was seen as
\* the last hardlink: only a link made by somebody else after that stat can
\* keep the bytes.
QbitDeleteIsLast ==
  [][\A t \in qbit \ qbit' :
       /\ links \cap arr = {}
       /\ \A c \in Content[t] :
            <<t, c>> \in paths /\ Shared(t, c) => c \in peers /\ May("peer")]_vars

Traces == {"succeeded", "failed_qbit", "running"}

FilesAreTraced ==
  May("upgrade") \/
  \A t \in Torrents : \A f \in Imports[t] \ arr :
    \E r \in Runs, u \in Torrents : f \in Imports[u] /\ act[r][u] # "none"

\* Nothing is deleted without a trace: a torrent that left qBit has an action
\* row that says so or that still says "running" (a crash, a refused write),
\* and a file that left *arr belongs to a torrent with an action row.
DeletionsAreTraced ==
  /\ \A t \in Torrents \ qbit : \E r \in Runs : act[r][t] \in Traces
  /\ FilesAreTraced

\* freed_bytes is credited once: a torrent that stays planned after it was
\* reaped (a forget that failed, a stale plan) never succeeds a second time.
ReapedOnce ==
  \A t \in Torrents : \A r, s \in Runs :
    act[r][t] = "succeeded" /\ act[s][t] = "succeeded" => r = s

\* What a succeeded action claims is so: the torrent is gone from qBit, and
\* from the disk, for good.
SucceededIsGone ==
  \A r \in Runs, t \in Torrents :
    act[r][t] = "succeeded" => t \notin qbit /\ ~\E c \in Inodes : <<t, c>> \in paths

\* The parts of the inductive invariant behind QbitDeleteIsLast, ReapedOnce and
\* SucceededIsGone.  Of the links that were resolved, *arr has at most those
\* that are left; past the *arr phase, none.
ArrIsFirst ==
  pc \in {"arr", "nlink", "stat", "qbit"} =>
    links \cap arr \subseteq left /\ (pc # "arr" => left = {})

\* A file that was seen as the last hardlink stays so, but for new peers.
SeenIsUnshared ==
  pc \in {"stat", "qbit"} =>
    \A c \in Content[h] :
      (pc = "qbit" \/ c \notin todo) /\ <<h, c>> \in paths /\ Shared(h, c)
        => c \in peers /\ May("peer")

\* A torrent that qBit still listed was not reaped before.
TargetIsFresh ==
  pc \in {"stat", "qbit"} \/ (pc = "finish" /\ res = "succeeded") =>
    \A r \in Runs : act[r][h] # "succeeded"

Gone(t) == t \notin qbit /\ \A c \in Inodes : <<t, c>> \notin paths

SuccessIsReal == pc = "finish" /\ res = "succeeded" => Gone(h)

IInv ==
  /\ TypeOK
  /\ ArrIsFirst
  /\ SeenIsUnshared
  /\ TargetIsFresh
  /\ SuccessIsReal
  /\ SucceededIsGone
  /\ ReapedOnce

\* A stop or the rate cap never tears a candidate apart: a run that reached a
\* terminal status has no action left "running" (unless the store refused the
\* write), and no candidate beyond the cap was touched.
EndedRunsAreClosed ==
  \A r \in Runs : status[r] \in {"stopped", "completed"} =>
    /\ May("store") \/ \A t \in Torrents : act[r][t] # "running"
    /\ row[r].cap > 0 => \A i \in 1..Len(row[r].items) :
         i > row[r].cap => act[r][row[r].items[i]] = "none"

ArrOutcomes == {"ok", "failed", "skipped", "not_attempted"}

OutcomesOf(f) == {o \in ArrOutcomes : <<"arr", f, o>> \in audit}

\* ADR-0016: the audit rows of an action tell the files that were deleted, the
\* one that failed and those that were not tried apart.  No file has two
\* outcomes, one called deleted is not in *arr, and once the DELETEs are begun
\* no file is left without (but for rows that the store refused).
AuditTellsFilesApart ==
  /\ \A f \in Files :
       /\ Cardinality(OutcomesOf(f)) <= 1
       /\ "ok" \in OutcomesOf(f) => f \notin arr
  /\ pc = "finish" /\ ~May("store") /\ (\A f \in Files : "skipped" \notin OutcomesOf(f))
       => \A f \in links : OutcomesOf(f) # {}

-----------------------------------------------------------------------------
\* The parts of the inductive invariant behind DeletionsAreTraced,
\* EndedRunsAreClosed and AuditTellsFilesApart.

\* From the insert of a candidate's action row to its finish.
AtWork == {"links", "arr", "nlink", "stat", "qbit", "finish"}

\* Only the run at work and the runs before it have left anything.
FutureIsBlank ==
  \A r \in Runs : r > run => row[r] = NoRun /\ \A t \in Torrents : act[r][t] = "none"

\* The run at work is marked so, its candidate has a row, and the candidates that
\* it has yet to take have none.
RunIsOpen ==
  pc # "idle" =>
    /\ status[run] = "running"
    /\ pc \in AtWork => act[run][h] = "running"
    /\ \A i \in 1..Len(row[run].items) :
         i > idx \/ (i = idx /\ pc = "loop") => act[run][row[run].items[i]] = "none"

\* The links are imports of the candidate, and its outcome is terminal.
WorkIsOfCandidate ==
  /\ pc \in {"arr", "nlink", "stat", "qbit"} => left \subseteq links /\ links \subseteq Imports[h]
  /\ pc = "finish" => res \in Terminal

\* Whether the action of t in run r says nothing yet of a loss of t: the candidate
\* at work, before its DELETE in qBittorrent.
TooEarly(r, t) ==
  /\ pc \in {"links", "arr", "nlink", "stat"} \/ (pc = "finish" /\ res \notin Traces)
  /\ r = run /\ t = h

\* Every lost torrent has a trace that will not be overwritten.
LossIsTraced ==
  \A t \in Torrents \ qbit : \E r \in Runs : act[r][t] \in Traces /\ ~TooEarly(r, t)

TraceInv ==
  FutureIsBlank /\ RunIsOpen /\ WorkIsOfCandidate /\ LossIsTraced /\ FilesAreTraced

\* Where the store answers, an action that says "running" is the candidate's, or
\* was left by a death in a run that is not ended.
RunningIsAtWork ==
  May("store") \/
  \A r \in Runs, t \in Torrents :
    act[r][t] = "running" =>
      status[r] = "running" /\ (r = run /\ pc # "idle" => pc \in AtWork /\ t = h)

\* No run goes beyond its cap.
CapsHold ==
  /\ pc \in AtWork => ~AtCap
  /\ \A r \in Runs : row[r].cap > 0 =>
       \A i \in 1..Len(row[r].items) : i > row[r].cap => act[r][row[r].items[i]] = "none"

\* What is audited of the files: nothing before the DELETEs and nothing of a file
\* that is left, one outcome at most, and one at least of every link that is
\* through.
AuditOK ==
  /\ pc \in {"idle", "loop", "links"} => audit = {}
  /\ pc = "arr" => \A f \in left, o \in ArrOutcomes : <<"arr", f, o>> \notin audit
  /\ \A f \in Files, o, p \in ArrOutcomes :
       <<"arr", f, o>> \in audit /\ <<"arr", f, p>> \in audit => o = p
  /\ \A f \in Files : <<"arr", f, "ok">> \in audit => f \notin arr
  /\ May("store") \/ (\E f \in Files : <<"arr", f, "skipped">> \in audit) \/
       \A f \in links : (pc = "arr" => f \notin left) =>
         \E o \in ArrOutcomes : <<"arr", f, o>> \in audit

ClosedInv == RunningIsAtWork /\ CapsHold /\ AuditOK
-----------------------------------------------------------------------------
\* If neither the store nor the process fails, a live run reaches a terminal
\* status, with or without a stop.
RunsEnd ==
  \A r \in Runs : status[r] = "running" ~>
    status[r] \in {"stopped", "completed"} \/ May("store") \/ May("crash")
=============================================================================
