------------------------------- MODULE Migrations -------------------------------
(***************************************************************************)
(* The start of a process on the database (openStoreAndMigrate): the two   *)
(* pools of store.Open, then Migrate, which applies the migrations of the  *)
(* binary that the table schema_migrations does not name.  The daemon and  *)
(* the commands all do this, perhaps at once, perhaps of two versions of   *)
(* the program.  Which versions are applied is read outside of the         *)
(* transactions that apply them.                                           *)
(***************************************************************************)
EXTENDS Naturals, Sequences, SequencesExt

CONSTANTS Processes,
          Embedded,    \* by process, the versions in its binary
          MaxStarts    \* bound on the starts of a process

VARIABLES
  schema,     \* the versions whose SQL is in the database, as they came
  recorded,   \* schema_migrations
  writer,     \* the process whose transaction holds SQLite's write lock, or Nobody
  pc, starts,       \* per process: where it is; its starts
  applied, todo     \* what it has read; what it has still to look at

proc == <<pc, starts, applied, todo>>
vars == <<schema, recorded, writer, proc>>

Nobody == "nobody"

Init ==
  /\ schema = <<>> /\ recorded = {} /\ writer = Nobody
  /\ pc = [p \in Processes |-> "down"] /\ starts = [p \in Processes |-> 0]
  /\ applied = [p \in Processes |-> {}] /\ todo = [p \in Processes |-> {}]
-----------------------------------------------------------------------------
GoesTo(p, step) == pc' = [pc EXCEPT ![p] = step]

\* The process ends: the pools are closed, and an open transaction is rolled back.
Close(p) ==
  /\ GoesTo(p, "down")
  /\ applied' = [applied EXCEPT ![p] = {}] /\ todo' = [todo EXCEPT ![p] = {}]
  /\ writer' = IF writer = p THEN Nobody ELSE writer
  /\ UNCHANGED <<schema, recorded, starts>>

\* Open: the writer's pool of one connection, the readers', and Migrate's CREATE
\* TABLE IF NOT EXISTS.
Open(p) ==
  /\ pc[p] = "down" /\ starts[p] < MaxStarts
  /\ GoesTo(p, "read") /\ starts' = [starts EXCEPT ![p] = @ + 1]
  /\ UNCHANGED <<schema, recorded, writer, applied, todo>>

AppliedVersions(p) ==
  /\ pc[p] = "read" /\ GoesTo(p, "next")
  /\ applied' = [applied EXCEPT ![p] = recorded]
  /\ todo' = [todo EXCEPT ![p] = Embedded[p]]
  /\ UNCHANGED <<schema, recorded, writer, starts>>

\* loadMigrations sorts the embedded files by version: what is next is the least.
Upcoming(p) == CHOOSE v \in todo[p] : \A w \in todo[p] : v <= w

Done(p) == todo' = [todo EXCEPT ![p] = @ \ {Upcoming(p)}]

\* The loop: a version that was there when they were read is skipped.
NextMigration(p) ==
  /\ pc[p] = "next"
  /\ \/ todo[p] = {} /\ GoesTo(p, "ready") /\ UNCHANGED todo
     \/ todo[p] # {} /\ Upcoming(p) \in applied[p] /\ Done(p) /\ UNCHANGED pc
     \/ todo[p] # {} /\ Upcoming(p) \notin applied[p] /\ GoesTo(p, "begin") /\ UNCHANGED todo
  /\ UNCHANGED <<schema, recorded, writer, starts, applied>>

\* Mutant of ExecSql: outside of a transaction.
ExecSqlAtOnce(p) ==
  /\ pc[p] = "begin" /\ writer = Nobody
  /\ Upcoming(p) \notin ToSet(schema)
  /\ schema' = Append(schema, Upcoming(p))
  /\ writer' = p /\ GoesTo(p, "record")
  /\ UNCHANGED <<recorded, starts, applied, todo>>

\* applyMigration: the first statement takes the write lock, and waits for it; the
\* SQL creates what it creates, and fails when that is there.
ExecSql(p) ==
  /\ pc[p] = "begin" /\ writer = Nobody
  /\ Upcoming(p) \notin ToSet(schema)
  /\ writer' = p /\ GoesTo(p, "record")
  /\ UNCHANGED <<schema, recorded, starts, applied, todo>>

\* The INSERT of the version, in the same transaction, and its end.
Commit(p) ==
  /\ pc[p] = "record"
  /\ schema' = Append(schema, Upcoming(p)) /\ recorded' = recorded \cup {Upcoming(p)}
  /\ writer' = Nobody /\ GoesTo(p, "next") /\ Done(p)
  /\ UNCHANGED <<starts, applied>>

\* An error, of any step, the busy timeout among them, or the end of the process.
Stop(p) == pc[p] # "down" /\ Close(p)

Next ==
  \E p \in Processes :
    \/ Open(p) \/ AppliedVersions(p) \/ NextMigration(p)
    \/ ExecSql(p) \/ Commit(p) \/ Stop(p)

Spec == Init /\ [][Next]_vars
-----------------------------------------------------------------------------
\* Every variable has its type.
TypeOK ==
  /\ schema \in Seq(Nat) /\ recorded \in SUBSET Nat /\ writer \in Processes \cup {Nobody}
  /\ pc \in [Processes -> {"down", "read", "next", "begin", "record", "ready"}]
  /\ starts \in [Processes -> 0..MaxStarts]
  /\ applied \in [Processes -> SUBSET Nat] /\ todo \in [Processes -> SUBSET Nat]

\* "Each migration runs inside a transaction; partial failures roll back.  Safe to
\* call repeatedly".  Whatever processes start, fail and stop together, the
\* database has every migration once, in the order of the versions, and what it has
\* is what is recorded; and a process that has started has all of its own.
MigrationsAreWhole ==
  /\ IsInjective(schema) /\ ToSet(schema) = recorded
  /\ \A i, j \in DOMAIN schema : i < j => schema[i] < schema[j]
  /\ \A p \in Processes : pc[p] = "ready" => Embedded[p] \subseteq recorded
-----------------------------------------------------------------------------
\* The migrations of a database come in order: those below one that is recorded are
\* recorded too, whoever has them.
InOrder ==
  \A u \in recorded : \A p \in Processes : \A v \in Embedded[p] : v < u => v \in recorded

\* A process that has looked at a version finds it recorded, and one whose
\* transaction is open has the lock, for a version that nobody has recorded.
ProcessOK(p) ==
  /\ applied[p] \subseteq recorded /\ todo[p] \subseteq Embedded[p]
  /\ pc[p] \in {"next", "begin", "record", "ready"} => Embedded[p] \ todo[p] \subseteq recorded
  /\ pc[p] = "ready" => todo[p] = {}
  /\ pc[p] \in {"begin", "record"} => todo[p] # {}
  /\ pc[p] = "record" <=> writer = p
  /\ pc[p] = "record" => Upcoming(p) \notin recorded

\* The inductive invariant behind MigrationsAreWhole.
IInv == TypeOK /\ MigrationsAreWhole /\ InOrder /\ \A p \in Processes : ProcessOK(p)
=============================================================================
