------------------------------ MODULE Connections ------------------------------
(***************************************************************************)
(* The connections to the *arrs and the torrent clients, which the API     *)
(* edits and the daemon loads.  A kind has at most one row.  The form of   *)
(* the UI may leave the secret (an API key, a password) blank to keep the  *)
(* stored one; the handler reads it, checks the input and writes the row   *)
(* in separate statements, then has the daemon reload.  A reload seeds an  *)
(* empty table from the YAML, reads both, checks them again and builds an  *)
(* engine, with the code that also decides at boot whether the daemon may  *)
(* start.  The last word is the preflight's, which asks the torrent client *)
(* and the file system: it may refuse connections that pass every check.   *)
(*                                                                         *)
(* How requests wait for the reload and its outcome is in Settings; here   *)
(* a reload is asked for and comes.                                        *)
(***************************************************************************)
EXTENDS Naturals, Sequences

CONSTANTS Clients,       \* of the API
          ArrKinds, TorrentKinds,
          Implemented,   \* the torrent kinds that have a backend
          Yaml,          \* kind -> connection, of the kinds that the YAML has
          Inputs,        \* what may be posted: connections
          MaxRequests    \* bound on the requests

Kinds == ArrKinds \cup TorrentKinds
KindsOfTable == <<ArrKinds, TorrentKinds>>
Blank == "blank"

VARIABLES
  rows,       \* the two tables: kind -> [url, secret, enabled]
  requests,   \* how many there were
  req,        \* per client: [at, kind, conn, blank, blind, before]
  reloading,  \* a reload was asked for
  mpc, table, \* the main loop (idle, count, seed, list, build) and its table
  config,     \* the connections it is loading
  engine      \* the connections in force

vars == <<rows, requests, req, reloading, mpc, table, config, engine>>

\* blank: the secret was left blank.  blind: the stored one could not be read.
\* before: the secrets the kind has had since the request began (history).
NoRequest == [at |-> "idle", kind |-> Blank, conn |-> Blank, blank |-> FALSE,
              blind |-> FALSE, before |-> {}]

OfTable(t, conns) == [k \in DOMAIN conns \cap t |-> conns[k]]
Without(k, conns) == [j \in DOMAIN conns \ {k} |-> conns[j]]
Over(conns, others) ==
  [k \in DOMAIN conns \cup DOMAIN others |-> IF k \in DOMAIN conns THEN conns[k] ELSE others[k]]

\* Validate, of one connection: the URL parses and is there, an *arr has a key, a
\* torrent client a backend.
Loads(k, conn) ==
  conn.enabled =>
    /\ conn.url # Blank
    /\ k \in ArrKinds => conn.secret # Blank
    /\ k \in TorrentKinds => k \in Implemented

Validate(conns) == \A k \in DOMAIN conns : Loads(k, conns[k])

\* The registries' BuildFromConfig, whose constructors have checks of their own (that
\* of Lidarr, a stub, has none).  An enabled torrent client without a backend counts
\* when there is none with one.
Builds(conns) ==
  LET Enabled(kinds) == {k \in DOMAIN conns \cap kinds : conns[k].enabled}
  IN  /\ \A k \in Enabled(ArrKinds) : conns[k].url # Blank /\ conns[k].secret # Blank
      /\ \A k \in Enabled(Implemented) : conns[k].url # Blank
      /\ Enabled(Implemented) = {} => Enabled(TorrentKinds) = {}

\* flattenArrs, flattenTorrentClients: what of the YAML becomes a row.
IsSet(k) == Yaml[k].url # Blank \/ Yaml[k].enabled
FlattenArrs == [k \in {j \in DOMAIN Yaml \cap ArrKinds : IsSet(j)} |-> Yaml[k]]
FlattenTorrentClients == [k \in {j \in DOMAIN Yaml \cap TorrentKinds : IsSet(j)} |-> Yaml[k]]
Flatten(t) == IF t = ArrKinds THEN FlattenArrs ELSE FlattenTorrentClients

\* At boot nothing else runs.
Init ==
  /\ rows = Over(FlattenArrs, FlattenTorrentClients)
  /\ requests = 0 /\ req = [c \in Clients |-> NoRequest] /\ reloading = FALSE
  /\ mpc = "idle" /\ table = 0 /\ config = Yaml /\ engine = rows
-----------------------------------------------------------------------------
main == <<mpc, table, config, engine>>

\* Mutant of CheckKind: a kind without a backend passes.
KnownKind(k) == k \in Kinds

\* checkKind and implementedKind, which the *arrs do without.
CheckKind(k) == k \in ArrKinds \cup Implemented

Kept(k, conn) ==
  IF conn.secret = Blank /\ k \in DOMAIN rows
  THEN [conn EXCEPT !.secret = rows[k].secret] ELSE conn

\* Mutant of CarryForward: the secret of an *arr is not carried.
CarryPassword(k, conn) == IF k \in TorrentKinds THEN Kept(k, conn) ELSE conn

\* carryForwardInput
CarryForward(k, conn) == Kept(k, conn)

\* validateArrConnInput, validateTorrentClientConnInput: stricter than Validate
\* about the URL, which needs a host.
ValidArr(conn) == conn.enabled => conn.url = "absolute" /\ conn.secret # Blank
ValidTorrentClient(conn) == conn.enabled => conn.url = "absolute"

\* Mutant of ValidInput: the same for both resources.
ValidUrl(k, conn) == ValidTorrentClient(conn)

ValidInput(k, conn) == IF k \in ArrKinds THEN ValidArr(conn) ELSE ValidTorrentClient(conn)

SecretOf(k) == IF k \in DOMAIN rows THEN rows[k].secret ELSE Blank

Begin(c) == req[c].at = "idle" /\ requests < MaxRequests /\ requests' = requests + 1

\* handleUpsert up to its write.  A read that fails, for whatever reason, is taken
\* for a row that is not there.
Save(c) ==
  /\ Begin(c)
  /\ \E k \in Kinds, in \in Inputs, blind \in BOOLEAN :
       LET conn == IF blind THEN in ELSE CarryForward(k, in)
       IN  IF CheckKind(k) /\ ValidInput(k, conn)
           THEN req' = [req EXCEPT ![c] =
                  [at |-> "write", kind |-> k, conn |-> conn, blank |-> in.secret = Blank,
                   blind |-> blind, before |-> {SecretOf(k)}]]
           ELSE UNCHANGED req
  /\ UNCHANGED <<rows, reloading, main>>

\* The others see a row of theirs change under them.
Seen(k, secret) ==
  [d \in Clients |-> IF req[d].at = "write" /\ req[d].kind = k
                     THEN [req[d] EXCEPT !.before = @ \cup {secret}] ELSE req[d]]

\* The upsert; it may fail.
Upsert(c) ==
  /\ req[c].at = "write"
  /\ \/ /\ rows' = Over([k \in {req[c].kind} |-> req[c].conn], rows)
        /\ req' = [Seen(req[c].kind, req[c].conn.secret) EXCEPT ![c].at = "readback"]
     \/ req' = [req EXCEPT ![c] = NoRequest] /\ UNCHANGED rows
  /\ UNCHANGED <<requests, reloading, main>>

\* The row is read again; if it is gone, or the read fails, the request fails and
\* no reload is asked for.
ReadBack(c) ==
  /\ req[c].at = "readback"
  /\ req' = [req EXCEPT ![c] = NoRequest]
  /\ reloading' \in {reloading, reloading \/ req[c].kind \in DOMAIN rows}
  /\ UNCHANGED <<rows, requests, main>>

\* handleDelete, of any known kind; the client may leave before the reload.
Delete(c) ==
  /\ Begin(c)
  /\ \E k \in DOMAIN rows : rows' = Without(k, rows) /\ req' = Seen(k, Blank)
  /\ reloading' \in {reloading, TRUE}
  /\ UNCHANGED main
-----------------------------------------------------------------------------
\* loadWithOverrides: the YAML, then the tables in turn.
StartReload ==
  /\ mpc = "idle" /\ reloading
  /\ reloading' = FALSE /\ config' = Yaml /\ mpc' = "count" /\ table' = 1
  /\ UNCHANGED <<rows, requests, req, engine>>

Count ==
  /\ mpc = "count"
  /\ mpc' = IF /\ DOMAIN OfTable(KindsOfTable[table], rows) = {}
               /\ DOMAIN Flatten(KindsOfTable[table]) # {}
            THEN "seed" ELSE "list"
  /\ UNCHANGED <<rows, requests, req, reloading, table, config, engine>>

\* The engine stays as it is.
Abandon == mpc' = "idle" /\ table' = 0 /\ UNCHANGED <<config, engine>>

\* One transaction of INSERTs: a row that has come meanwhile makes all of it fail.
Seed ==
  /\ mpc = "seed"
  /\ LET new == Flatten(KindsOfTable[table])
     IN  IF DOMAIN new \cap DOMAIN rows = {}
         THEN /\ rows' = Over(rows, new)
              /\ req' = [c \in Clients |->
                   IF req[c].at = "write" /\ req[c].kind \in DOMAIN new
                   THEN [req[c] EXCEPT !.before = @ \cup {new[req[c].kind].secret}]
                   ELSE req[c]]
              /\ mpc' = "list" /\ UNCHANGED <<table, config, engine>>
         ELSE Abandon /\ UNCHANGED <<rows, req>>
  /\ UNCHANGED <<requests, reloading>>

\* The list replaces what the configuration has of the table.
Merged ==
  LET kinds == KindsOfTable[table]
  IN  Over([k \in DOMAIN config \ kinds |-> config[k]], OfTable(kinds, rows))

\* The whole is checked, after either table.
List ==
  /\ mpc = "list"
  /\ IF ~Validate(Merged) THEN Abandon
     ELSE /\ config' = Merged
          /\ IF table = 1 THEN mpc' = "count" /\ table' = 2
             ELSE mpc' = "build" /\ UNCHANGED table
          /\ UNCHANGED engine
  /\ UNCHANGED <<rows, requests, req, reloading>>

\* buildEngine, and the swap.
Build ==
  /\ mpc = "build"
  /\ IF ~Builds(config) THEN Abandon
     ELSE engine' = config /\ mpc' = "idle" /\ table' = 0 /\ UNCHANGED config
  /\ UNCHANGED <<rows, requests, req, reloading>>

\* Its preflight: the path of the volume, which every configuration has, or the save
\* paths that the torrent client reports are not there, or not readable.
PreflightRefuses ==
  /\ mpc = "build" /\ Abandon
  /\ UNCHANGED <<rows, requests, req, reloading>>

\* A statement of the reload fails, or the daemon is told to reload (SIGHUP).
ReloadFails ==
  /\ mpc \in {"count", "seed", "list"} /\ Abandon
  /\ UNCHANGED <<rows, requests, req, reloading>>

Sighup ==
  /\ ~reloading /\ reloading' = TRUE
  /\ UNCHANGED <<rows, requests, req, main>>

Next ==
  \/ \E c \in Clients : Save(c) \/ Upsert(c) \/ ReadBack(c) \/ Delete(c)
  \/ StartReload \/ Count \/ Seed \/ List \/ Build \/ PreflightRefuses
  \/ ReloadFails \/ Sighup

Spec == Init /\ [][Next]_vars
-----------------------------------------------------------------------------
IsConnection(conn) == DOMAIN conn = {"url", "secret", "enabled"}
IsConnections(f) == DOMAIN f \subseteq Kinds /\ \A k \in DOMAIN f : IsConnection(f[k])

\* Every variable has its type.
TypeOK ==
  /\ IsConnections(rows) /\ IsConnections(config) /\ IsConnections(engine)
  /\ requests \in 0..MaxRequests /\ reloading \in BOOLEAN
  /\ mpc \in {"idle", "count", "seed", "list", "build"} /\ table \in 0..2
  /\ mpc = "idle" <=> table = 0
  /\ DOMAIN req = Clients
  /\ \A c \in Clients :
       /\ DOMAIN req[c] = {"at", "kind", "conn", "blank", "blind", "before"}
       /\ req[c].at \in {"idle", "write", "readback"}
       /\ req[c].at = "write" => req[c].kind \in Kinds /\ IsConnection(req[c].conn)

\* "carryForwardInput preserves a stored secret when the input's secret field is
\* empty".  A save that leaves the secret blank stores one that the kind has had
\* while the request was under way, and none only if it had none, unless the read
\* of it failed.  (The action of the property [][BlankKeepsSecret]_vars.)
BlankKeepsSecret ==
  \A c \in Clients :
    /\ req[c].at = "write" /\ req'[c].at = "readback" /\ req[c].blank /\ ~req[c].blind
    => rows'[req[c].kind].secret \in req[c].before

\* The API, the configuration and the constructors of the clients check connections
\* with three pieces of code.  Whatever was saved, by whatever requests, passes all of
\* them at the next start, and so does what a reload makes of the tables and the YAML,
\* whatever was written between its reads: no connection that the API accepts has the
\* daemon fail before its preflight.  (The preflight may refuse it still.)
StoredConnectionsPass ==
  /\ Validate(rows) /\ Builds(rows)
  /\ mpc = "list" => Validate(Merged)
  /\ mpc = "build" => Builds(config)
-----------------------------------------------------------------------------
\* A connection that is about to be written has passed the checks, and its secret,
\* when it was carried forward, is one that its kind has had.
WriteOK(c) ==
  req[c].at = "write" =>
    /\ Loads(req[c].kind, req[c].conn)
    /\ req[c].blank /\ ~req[c].blind => req[c].conn.secret \in req[c].before

\* The inductive invariant behind StoredConnectionsPass and BlankKeepsSecret: what is
\* stored and what is being loaded pass the checks of the configuration.
IInv ==
  TypeOK /\ Validate(rows) /\ Validate(config) /\ \A c \in Clients : WriteOK(c)
=============================================================================
