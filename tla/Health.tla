-------------------------------- MODULE Health --------------------------------
(***************************************************************************)
(* Connection-health notifications.  The pollers of the *arrs and of the   *)
(* torrent client record the outcome of each health check in               *)
(* arr_instances and torrent_client_instances; HealthWatcher               *)
(* (internal/triggers/health_watcher.go) compares those rows with          *)
(* notification_state and has each transition announced by the Dispatcher  *)
(* of internal/notify, to the providers whose routing admits it.           *)
(***************************************************************************)
EXTENDS Integers, Sums, SequencesExt

CONSTANTS Lists,      \* the components of arr_instances and of
                      \* torrent_client_instances, in the order of the queries
          Providers,  \* the notifiers, in their order
          Routing     \* per provider: [min, mute]

Components == UNION {ToSet(Lists[i]) : i \in DOMAIN Lists}

\* kindSeverity.
Severity == [degraded |-> 2, recovered |-> 0]
Allows(p, kind) ==
  kind \notin Routing[p].mute /\ Severity[kind] >= Routing[p].min
AllowsBoth(p) == Allows(p, "degraded") /\ Allows(p, "recovered")

VARIABLES
  rows,      \* healthy, by component; "none" without a row
  alerted,   \* the components with a row in notification_state
  pc,        \* the watcher: "idle", "list", "read", "send", "record"
  phase,     \* the list it reads, or goes through
  todo,      \* the rows listed and not yet reconciled: <<component, healthy>>
  event,     \* what it announces of the first of them
  admit,     \* the providers it has still to go through
  \* history: what each provider that admits both events got of each component,
  \* losses less recoveries; the components whose state a failure has left unrecorded
  balance, unrecorded

watcher == <<pc, phase, todo, event, admit>>
vars == <<rows, alerted, watcher, balance, unrecorded>>

Init ==
  /\ rows = [c \in Components |-> "none"] /\ alerted = {}
  /\ pc = "idle" /\ phase = 0 /\ todo = <<>> /\ event = "none" /\ admit = <<>>
  /\ balance = [p \in ToSet(Providers) |-> [c \in Components |-> 0]]
  /\ unrecorded = {}
-----------------------------------------------------------------------------
\* pollOne and recordHealth: the outcome of the check replaces the row; an upsert
\* that fails is logged.
RecordHealth(c) ==
  /\ \E healthy \in {"up", "down"} : rows' = [rows EXCEPT ![c] = healthy]
  /\ UNCHANGED <<alerted, watcher, balance, unrecorded>>

\* HealthWatcher.tick.
Tick ==
  /\ pc = "idle"
  /\ pc' = "list" /\ phase' = 1
  /\ UNCHANGED <<rows, alerted, todo, event, admit, balance, unrecorded>>

EndOfList(i) ==
  /\ phase' = IF i < Len(Lists) THEN i + 1 ELSE 0
  /\ pc' = IF i < Len(Lists) THEN "list" ELSE "idle"

\* The components of the list that have a row.
Listed == Filter(Lists[phase], {c \in Components : rows[c] # "none"})

\* ListArrInstances, ListTorrentClientInstances; an error ends the tick.
ListInstances ==
  /\ pc = "list"
  /\ \/ /\ todo' = [i \in DOMAIN Listed |-> <<Listed[i], rows[Listed[i]]>>]
        /\ IF todo' = <<>> THEN EndOfList(phase) ELSE pc' = "read" /\ UNCHANGED phase
     \/ pc' = "idle" /\ phase' = 0 /\ UNCHANGED todo
  /\ UNCHANGED <<rows, alerted, event, admit, balance, unrecorded>>

\* reconcile is done with the first row.
NextRow ==
  /\ todo' = Tail(todo) /\ event' = "none" /\ admit' = <<>>
  /\ IF Len(todo) = 1 THEN EndOfList(phase) ELSE pc' = "read" /\ UNCHANGED phase

Component == todo[1][1]
Healthy == todo[1][2] = "up"

\* reconcile: GetNotificationState; when it says what the row says already, or
\* fails, the row is passed over.
ReadState ==
  /\ pc = "read"
  /\ \/ /\ Healthy = (Component \in alerted)
        /\ event' = IF Healthy THEN "recovered" ELSE "degraded"
        /\ admit' = Providers /\ pc' = "send" /\ UNCHANGED <<phase, todo>>
     \/ NextRow
  /\ UNCHANGED <<rows, alerted, balance, unrecorded>>

\* dispatch: one provider after the other; one that fails is logged, and counts
\* as told.
Send ==
  /\ pc = "send"
  /\ admit' = Tail(admit)
  /\ pc' = IF Len(admit) = 1 THEN "record" ELSE "send"
  /\ balance' =
       IF Allows(admit[1], event) /\ AllowsBoth(admit[1]) /\ Component \notin unrecorded
       THEN [balance EXCEPT ![admit[1]][Component] = @ + (IF event = "degraded" THEN 1 ELSE -1)]
       ELSE balance
  /\ UNCHANGED <<rows, alerted, phase, todo, event, unrecorded>>

\* Mutant of RecordState: the recovery leaves the row for its reminder window.
RecordDegradedOnly ==
  /\ pc = "record"
  /\ alerted' = IF event = "degraded" THEN alerted \cup {Component} ELSE alerted
  /\ NextRow
  /\ UNCHANGED <<rows, balance, unrecorded>>

\* MarkNotificationSent, ClearNotificationState; an error is logged.
RecordState ==
  /\ pc = "record"
  /\ \/ /\ alerted' = IF event = "degraded" THEN alerted \cup {Component}
                      ELSE alerted \ {Component}
        /\ UNCHANGED unrecorded
     \/ unrecorded' = unrecorded \cup {Component} /\ UNCHANGED alerted
  /\ NextRow
  /\ UNCHANGED <<rows, balance>>

\* The daemon restarts, or a reload drains its pollers.
Restart ==
  /\ pc # "idle"
  /\ pc' = "idle" /\ phase' = 0 /\ todo' = <<>> /\ event' = "none" /\ admit' = <<>>
  /\ unrecorded' = IF pc \in {"send", "record"} THEN unrecorded \cup {Component} ELSE unrecorded
  /\ UNCHANGED <<rows, alerted, balance>>

Next ==
  \/ \E c \in Components : RecordHealth(c)
  \/ Tick \/ ListInstances \/ ReadState \/ Send \/ RecordState \/ Restart

Spec == Init /\ [][Next]_vars
-----------------------------------------------------------------------------
\* Every variable has its type.
TypeOK ==
  /\ rows \in [Components -> {"none", "up", "down"}] /\ alerted \subseteq Components
  /\ pc \in {"idle", "list", "read", "send", "record"}
  /\ phase \in 0..Len(Lists) /\ (pc # "idle" => phase # 0)
  /\ todo \in Seq(Components \X {"up", "down"})
  /\ (pc \in {"read", "send", "record"}) <=> (todo # <<>>)
  /\ event \in {"none", "degraded", "recovered"}
  /\ (pc \in {"send", "record"}) <=> (event # "none")
  /\ admit \in Seq(ToSet(Providers)) /\ (pc = "send" <=> admit # <<>>)
  /\ balance \in [ToSet(Providers) -> [Components -> Int]]
  /\ unrecorded \subseteq Components

\* The comment of HealthStore: the state "detects degraded->recovered transitions
\* and de-dups reminders across restarts".  A provider that admits both events
\* gets, of one component, a loss and a recovery in turn, and the table tells
\* which of them it heard last, unless a failure or a stop came between the
\* announcement and its record.
AnnouncementsAlternate ==
  \A p \in ToSet(Providers) : \A c \in Components \ unrecorded :
    AllowsBoth(p) =>
      /\ balance[p][c] \in {0, 1}
      /\ \/ pc \in {"send", "record"} /\ Component = c
         \/ (balance[p][c] = 1) <=> (c \in alerted)
-----------------------------------------------------------------------------
\* The announcement under way is the one the table does not have yet; a provider is
\* told once, and is past it when it has been gone through.
AnnouncingOK ==
  pc \in {"send", "record"} =>
    /\ (event = "recovered") <=> (Component \in alerted)
    /\ \A i, j \in DOMAIN admit : admit[i] = admit[j] => i = j

\* What a provider heard last of a component.
BalanceOK ==
  \A p \in ToSet(Providers) : \A c \in Components \ unrecorded :
    AllowsBoth(p) =>
      balance[p][c] = IF /\ pc \in {"send", "record"} /\ Component = c
                         /\ \A i \in DOMAIN admit : admit[i] # p
                      THEN IF event = "degraded" THEN 1 ELSE 0
                      ELSE IF c \in alerted THEN 1 ELSE 0

\* The inductive invariant behind AnnouncementsAlternate.
IInv == TypeOK /\ AnnouncingOK /\ BalanceOK
=============================================================================
