------------------------------- MODULE Settings -------------------------------
(***************************************************************************)
(* How a change of the configuration gets into force.  The handlers of the *)
(* API write settings_overrides and the connection tables, then ask the    *)
(* main loop of the daemon (serveAction) for a reload over a channel of    *)
(* one slot and wait for its outcome.  The loop reads the YAML file and    *)
(* the overrides, promotes the connection tables, which an empty table     *)
(* has seeded from the YAML, and swaps in the engine it has built.         *)
(*                                                                         *)
(* Of the keys that can be edited, two are modelled, because the schema    *)
(* relates them: the threshold and the target of disk_pressure.  A table   *)
(* has one kind of connection.                                             *)
(***************************************************************************)
EXTENDS Naturals, FiniteSets, Sequences, SequencesExt

CONSTANTS Clients,      \* of the API
          Tables,       \* the connection tables, in the order they are resolved
          Files,        \* what the YAML may say: [limits, conns]
          Bodies,       \* the bodies of a PUT: sequences of [key, value]
          MaxRequests,  \* bound on the requests
          MaxEdits,     \* bound on the edits of the YAML
          Faults        \* the kinds of trouble that may happen

\* store: a statement fails.  build: preflight or the construction of a client
\* fails.  leave: a client goes away.  restart: the daemon stops, to boot again.

Keys == {"threshold", "target"}
Unset == 0     \* no value; an entry without a value deletes the override
NoRow == "none"

VARIABLES
  \* the YAML file, and how often it was edited; the tables of the store
  yaml, edits, overrides, rows,
  \* the requests so far; per client: where its handler is, the number of the
  \* request, the entries it still has to write, and what it was answered
  requests, hpc, ticket, body, reply,
  \* reloadCh (numbers of requests), a pending SIGHUP
  queue, hup,
  \* the main loop: where it is (or "down"), the request it serves, the tables it
  \* has still to resolve, the configuration it is loading, and the one in force
  mpc, serving, tables, loading, engine,
  \* history: the number of writes to the store; the last one of each request; an
  \* event that may leave overrides that do not load
  writes, wrote, spoiled

file == <<yaml, edits>>
store == <<overrides, rows>>
handlers == <<requests, hpc, ticket, body, reply>>
channels == <<queue, hup>>
main == <<mpc, serving, tables, loading, engine>>
history == <<writes, wrote, spoiled>>
vars == <<file, store, handlers, channels, main, history>>

May(k) == k \in Faults
NoConfig == [yaml |-> [limits |-> [k \in Keys |-> Unset], conns |-> {}],
             limits |-> [k \in Keys |-> Unset], rows |-> [t \in ToSet(Tables) |-> NoRow],
             seen |-> 0]

\* The check of Validate that relates two keys.
Valid(limits) == limits.threshold = Unset \/ limits.target > limits.threshold

\* LoadWithOverrides: the overrides go over the YAML.
Merged(limits, over) == over @@ limits

\* The first boot, with a file that loads.
Init ==
  /\ yaml \in Files /\ edits = 0
  /\ overrides = <<>> /\ Valid(Merged(yaml.limits, overrides))
  /\ rows = [t \in ToSet(Tables) |-> NoRow]
  /\ requests = 0 /\ hpc = [c \in Clients |-> "idle"] /\ ticket = [c \in Clients |-> 0]
  /\ body = [c \in Clients |-> <<>>] /\ reply = [c \in Clients |-> "none"]
  /\ queue = <<>> /\ hup = FALSE
  /\ mpc = "down" /\ serving = 0 /\ tables = <<>> /\ loading = NoConfig /\ engine = NoConfig
  /\ writes = 0 /\ wrote = [c \in Clients |-> 0] /\ spoiled = FALSE
-----------------------------------------------------------------------------
ApplyEntry(over, e) ==
  IF e.value = Unset THEN [k \in DOMAIN over \ {e.key} |-> over[k]]
  ELSE (e.key :> e.value) @@ over

\* By the number of entries that were applied, what the rows are.
Running(over, entries) ==
  LET rowsAt[n \in 0..Len(entries)] ==
        IF n = 0 THEN over ELSE ApplyEntry(rowsAt[n - 1], entries[n])
  IN  rowsAt
AfterAll(over, entries) == Running(over, entries)[Len(entries)]

\* Mutant of MergeOverrides: the entries of the request alone.
MergeOnlyIncoming(incoming) == AfterAll(<<>>, incoming)

\* mergeOverrides, on the rows that are there.
MergeOverrides(incoming) == AfterAll(overrides, incoming)

\* A request comes in; it has written nothing yet.
Begin(c) ==
  /\ mpc # "down" /\ hpc[c] = "idle" /\ requests < MaxRequests
  /\ requests' = requests + 1 /\ ticket' = [ticket EXCEPT ![c] = requests + 1]

Answer(c, r) == hpc' = [hpc EXCEPT ![c] = "idle"] /\ reply' = [reply EXCEPT ![c] = r]
GoesOn(c, to) == hpc' = [hpc EXCEPT ![c] = to] /\ reply' = [reply EXCEPT ![c] = "none"]

Overlapping(c) == \E d \in Clients \ {c} : hpc[d] = "write"

\* A statement of c has changed the store.
Wrote(c) == writes' = writes + 1 /\ wrote' = [wrote EXCEPT ![c] = writes + 1]

\* handlePutSettings up to its first write: what would be stored has to load.
PutSettings(c) ==
  /\ Begin(c)
  /\ \E b \in Bodies :
       IF Valid(Merged(yaml.limits, MergeOverrides(b)))
       THEN GoesOn(c, "write") /\ body' = [body EXCEPT ![c] = b]
       ELSE Answer(c, "refused") /\ UNCHANGED body
  /\ UNCHANGED <<file, store, channels, main, history>>

\* Its loop writes the entries one by one; an error, or a client that has gone,
\* leaves the others unwritten.
WriteEntry(c) ==
  /\ hpc[c] = "write"
  /\ \/ /\ overrides' = ApplyEntry(overrides, Head(body[c]))
        /\ body' = [body EXCEPT ![c] = Tail(@)]
        /\ IF Len(body[c]) = 1 THEN GoesOn(c, "ask") ELSE UNCHANGED <<hpc, reply>>
        /\ Wrote(c) /\ spoiled' = (spoiled \/ Overlapping(c))
     \/ /\ May("store")
        /\ Answer(c, "error") /\ body' = [body EXCEPT ![c] = <<>>]
        /\ spoiled' = TRUE /\ UNCHANGED <<overrides, writes, wrote>>
  /\ UNCHANGED <<file, rows, requests, ticket, channels, main>>

\* handleDeleteSetting validates nothing.
DeleteSetting(c) ==
  /\ Begin(c)
  /\ \E k \in Keys : overrides' = ApplyEntry(overrides, [key |-> k, value |-> Unset])
  /\ GoesOn(c, "ask") /\ Wrote(c)
  /\ spoiled' = (spoiled \/ Overlapping(c) \/ ~Valid(Merged(yaml.limits, overrides')))
  /\ UNCHANGED <<file, rows, body, channels, main>>

\* connectionCRUD.handleUpsert and handleDelete; a row that is not there is a 404.
UpsertConnection(c) ==
  /\ Begin(c)
  /\ \E t \in DOMAIN rows : rows' = [rows EXCEPT ![t] = "api"]
  /\ GoesOn(c, "ask") /\ Wrote(c)
  /\ UNCHANGED <<file, overrides, body, channels, main, spoiled>>

DeleteConnection(c) ==
  /\ Begin(c)
  /\ \E t \in DOMAIN rows :
       IF rows[t] = NoRow
       THEN Answer(c, "refused") /\ UNCHANGED <<rows, writes, wrote>>
       ELSE rows' = [rows EXCEPT ![t] = NoRow] /\ GoesOn(c, "ask") /\ Wrote(c)
  /\ UNCHANGED <<file, overrides, body, channels, main, spoiled>>

\* Mutant of Ask: a request that finds the slot taken relies on the reload that
\* is pending.
AskOrRely(c) ==
  /\ hpc[c] = "ask"
  /\ IF queue = <<>> THEN queue' = <<ticket[c]>> /\ GoesOn(c, "wait")
     ELSE Answer(c, "ok") /\ UNCHANGED queue
  /\ UNCHANGED <<file, store, requests, ticket, body, hup, main, history>>

\* The Reload hook: it waits for the slot of the channel, then for the outcome.
Ask(c) ==
  /\ hpc[c] = "ask" /\ queue = <<>>
  /\ queue' = <<ticket[c]>> /\ GoesOn(c, "wait")
  /\ UNCHANGED <<file, store, requests, ticket, body, hup, main, history>>

\* The request's context ends: the handler answers, if there is still someone to
\* read it, with an error; a reload it has asked for goes on.
Leave(c) ==
  /\ May("leave") /\ hpc[c] \in {"ask", "wait"}
  /\ Answer(c, "error")
  /\ UNCHANGED <<file, store, requests, ticket, body, channels, main, history>>
-----------------------------------------------------------------------------
\* The select of serveAction.
Take ==
  /\ mpc = "select"
  /\ \/ queue # <<>> /\ serving' = Head(queue) /\ queue' = <<>> /\ UNCHANGED hup
     \/ hup /\ hup' = FALSE /\ serving' = 0 /\ UNCHANGED queue
  /\ mpc' = "load"
  /\ UNCHANGED <<file, store, handlers, tables, loading, engine, history>>

\* The outcome goes to the handler that still waits for it; a failed reload keeps
\* the engine.
Done(r) ==
  /\ mpc' = "select" /\ serving' = 0 /\ tables' = <<>> /\ loading' = NoConfig
  /\ LET waiting == {c \in Clients : hpc[c] = "wait" /\ ticket[c] = serving}
     IN  /\ hpc' = [c \in Clients |-> IF c \in waiting THEN "idle" ELSE hpc[c]]
         /\ reply' = [c \in Clients |-> IF c \in waiting THEN r ELSE reply[c]]

Fails ==
  /\ Done("error")
  /\ UNCHANGED <<file, store, requests, ticket, body, channels, engine, history>>

\* ListSettingsOverrides and LoadWithOverrides.
LoadConfig ==
  /\ mpc = "load"
  /\ IF Valid(Merged(yaml.limits, overrides))
     THEN /\ loading' = [NoConfig EXCEPT !.yaml = yaml, !.seen = writes,
                           !.limits = Merged(yaml.limits, overrides)]
          /\ tables' = Tables /\ mpc' = "count"
          /\ UNCHANGED <<file, store, handlers, channels, serving, engine, history>>
     ELSE Fails

\* resolveConnections, per table: an empty table is seeded, an INSERT, from what
\* the YAML has.
CountConnections ==
  /\ mpc = "count"
  /\ mpc' = IF rows[Head(tables)] = NoRow /\ Head(tables) \in loading.yaml.conns
            THEN "seed" ELSE "list"
  /\ UNCHANGED <<file, store, handlers, channels, serving, tables, loading, engine, history>>

SeedConnections ==
  /\ mpc = "seed"
  /\ IF rows[Head(tables)] = NoRow
     THEN /\ rows' = [rows EXCEPT ![Head(tables)] = "yaml"] /\ mpc' = "list"
          /\ UNCHANGED <<file, overrides, handlers, channels, serving, tables, loading,
                         engine, history>>
     ELSE Fails

ListConnections ==
  /\ mpc = "list"
  /\ loading' = [loading EXCEPT !.rows[Head(tables)] = rows[Head(tables)]]
  /\ tables' = Tail(tables)
  /\ mpc' = IF Len(tables) = 1 THEN "build" ELSE "count"
  /\ UNCHANGED <<file, store, handlers, channels, serving, engine, history>>

\* buildEngine, then the pollers are drained, the new ones started and the
\* engine swapped.
SwapEngine ==
  /\ mpc = "build"
  /\ engine' = loading
  /\ Done("ok")
  /\ UNCHANGED <<file, store, requests, ticket, body, channels, history>>

ReloadFails ==
  /\ \/ May("store") /\ mpc \in {"load", "count", "seed", "list"}
     \/ May("build") /\ mpc = "build"
  /\ Fails

\* The daemon stops, in whatever it is doing.
Stop ==
  /\ May("restart") /\ mpc # "down"
  /\ mpc' = "down" /\ serving' = 0 /\ tables' = <<>> /\ loading' = NoConfig
  /\ engine' = NoConfig
  /\ hpc' = [c \in Clients |-> "idle"] /\ body' = [c \in Clients |-> <<>>]
  /\ reply' = [c \in Clients |-> "none"]
  /\ queue' = <<>> /\ hup' = FALSE
  /\ spoiled' = (spoiled \/ \E c \in Clients : hpc[c] = "write")
  /\ UNCHANGED <<file, store, requests, ticket, writes, wrote>>

\* It boots: the YAML has to load alone, to find the store, and with the
\* overrides.  Nothing else runs yet.
Boot ==
  /\ mpc = "down"
  /\ Valid(yaml.limits) /\ Valid(Merged(yaml.limits, overrides))
  /\ rows' = [t \in DOMAIN rows |->
                IF rows[t] = NoRow /\ t \in yaml.conns THEN "yaml" ELSE rows[t]]
  /\ engine' = [yaml |-> yaml, limits |-> Merged(yaml.limits, overrides), rows |-> rows',
                seen |-> writes]
  /\ mpc' = "select"
  /\ UNCHANGED <<file, overrides, handlers, channels, serving, tables, loading, history>>

\* The operator edits the YAML, and may send a SIGHUP.
EditYaml ==
  /\ edits < MaxEdits /\ edits' = edits + 1
  /\ yaml' \in Files
  /\ hup' \in {hup, mpc # "down"}
  /\ spoiled' = (spoiled \/ (\E c \in Clients : hpc[c] = "write")
                         \/ ~Valid(Merged(yaml'.limits, overrides)))
  /\ UNCHANGED <<store, handlers, queue, main, writes, wrote>>

MainStep ==
  \/ Take \/ LoadConfig \/ CountConnections \/ SeedConnections \/ ListConnections
  \/ SwapEngine \/ ReloadFails

Next ==
  \/ \E c \in Clients :
       \/ PutSettings(c) \/ WriteEntry(c) \/ DeleteSetting(c)
       \/ UpsertConnection(c) \/ DeleteConnection(c) \/ Ask(c) \/ Leave(c)
  \/ MainStep \/ Stop \/ Boot \/ EditYaml

Spec == Init /\ [][Next]_vars
-----------------------------------------------------------------------------
\* Every variable has its type.
TypeOK ==
  /\ yaml \in Files /\ edits \in 0..MaxEdits
  /\ rows \in [ToSet(Tables) -> {NoRow, "yaml", "api"}]
  /\ requests \in 0..MaxRequests /\ ticket \in [Clients -> 0..MaxRequests]
  /\ hpc \in [Clients -> {"idle", "write", "ask", "wait"}]
  /\ reply \in [Clients -> {"none", "ok", "refused", "error"}]
  /\ queue \in Seq(Nat) /\ Len(queue) <= 1 /\ hup \in BOOLEAN
  /\ mpc \in {"down", "select", "load", "count", "seed", "list", "build"}
  /\ serving \in Nat /\ tables \in Seq(ToSet(Tables))
  /\ mpc \in {"count", "seed", "list"} => tables # <<>>
  /\ mpc = "build" => tables = <<>>
  /\ DOMAIN loading = {"yaml", "limits", "rows", "seen"} /\ loading.seen \in Nat
  /\ loading.rows \in [ToSet(Tables) -> {NoRow, "yaml", "api"}]
  /\ writes \in Nat /\ wrote \in [Clients -> Nat] /\ spoiled \in BOOLEAN
  /\ body \in [Clients -> Seq([key : Keys, value : Nat])]
  /\ \A c \in Clients : hpc[c] = "write" <=> body[c] # <<>>

\* handlePutSettings: "This blocks until the new config is live, so a 200 means
\* the client can re-fetch immediately".  A change that is reported as done is in
\* force, whatever other clients, signals and reloads come in between: the engine
\* was loaded after it, and runs what is stored if nothing was written since.
\* (The action of the property [][RepliesTellTheTruth]_vars.)
RepliesTellTheTruth ==
  \A c \in Clients :
    reply[c] # "ok" /\ reply'[c] = "ok" =>
      /\ engine'.seen >= wrote[c]
      /\ wrote[c] = writes =>
           /\ engine'.limits = Merged(engine'.yaml.limits, overrides)
           /\ engine'.rows = rows

\* handlePutSettings: it "catches schema-validation failures BEFORE we mutate the
\* store".  What is stored loads, at a reload and at the next boot, unless one of
\* the events happened that the check cannot see: two writers at once, a write
\* that failed half-way, an override deleted or a file edited under the others.
LoneWritesLoad ==
  ~spoiled /\ (\A c \in Clients : hpc[c] # "write") =>
    Valid(Merged(yaml.limits, overrides))
-----------------------------------------------------------------------------
\* The numbers of the requests tell whom a reload is for: who waits is waited on.
TicketsOK ==
  /\ mpc \in {"down", "select"} => serving = 0
  /\ serving <= requests /\ \A i \in DOMAIN queue : queue[i] <= requests
  /\ \A c \in Clients :
       /\ ticket[c] <= requests
       /\ \A d \in Clients \ {c} : ticket[c] # 0 => ticket[c] # ticket[d]
       /\ hpc[c] # "idle" => ticket[c] # 0
       /\ hpc[c] = "wait" =>
            ticket[c] = serving \/ \E i \in DOMAIN queue : queue[i] = ticket[c]
       /\ hpc[c] \in {"write", "ask"} =>
            ticket[c] # serving /\ \A i \in DOMAIN queue : queue[i] # ticket[c]

\* A reload under way has seen the writes of the request it is for, and has what is
\* stored of the tables it has resolved, if nothing was written meanwhile.
Reloading == mpc \in {"count", "seed", "list", "build"}
LoadingOK ==
  /\ \A c \in Clients : wrote[c] <= writes
  /\ Reloading =>
       /\ loading.seen <= writes
       /\ \A c \in Clients :
            hpc[c] = "wait" /\ ticket[c] = serving => wrote[c] <= loading.seen
       /\ loading.seen = writes =>
            /\ loading.limits = Merged(loading.yaml.limits, overrides)
            /\ \A t \in ToSet(Tables) \ ToSet(tables) : loading.rows[t] = rows[t]

\* What a lone writer has still to write was checked.
WritersOK ==
  ~spoiled => \A c \in Clients :
    hpc[c] = "write" => Valid(Merged(yaml.limits, AfterAll(overrides, body[c])))

\* The inductive invariants behind RepliesTellTheTruth and LoneWritesLoad.
RepliesInv == TypeOK /\ TicketsOK /\ LoadingOK
WritesInv == TypeOK /\ WritersOK /\ LoneWritesLoad
=============================================================================
