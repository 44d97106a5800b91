-------------------------------- MODULE Daemon --------------------------------
(***************************************************************************)
(* Nine parts around the pollers that share no state: the login, the       *)
(* settings, the connections, the health notifications, the sync of the    *)
(* imports, the session of the qBittorrent client, the operator's          *)
(* password, the rate limits and the migrations.  A behaviour is one of    *)
(* one part, which Init picks; the variables of the others stay idle.      *)
(***************************************************************************)
EXTENDS Auth, Sequences, TLC

CONSTANTS
  \* of the settings and of the connections
  Clients, MaxRequests,
  Tables, YamlFiles, Bodies, MaxEdits, Faults,
  ArrKinds, TorrentKinds, Implemented, Yaml, Inputs,
  \* of the health notifications
  Lists, Providers, Routing,
  \* of the imports
  Files, PageSize, MaxHistory,
  \* of the session of the qBittorrent client
  Callers, MaxAttempts, MaxExpiries,
  \* of the passwords
  Calls, Names, Chosen, Generated,
  \* of the rate limits
  IPs, Caps, Default, MaxIPs, MaxCalls,
  \* of the migrations
  Processes, Embedded, MaxStarts

ASSUME SessionAssumption == MaxAttempts \in Nat \ {0} /\ MaxExpiries \in Nat

ASSUME ImportsAssumption == PageSize \in Nat \ {0} /\ MaxHistory \in Nat

\* A version of the program appends its migrations to those before it.
ASSUME MigrationsAssumption ==
  /\ MaxStarts \in Nat /\ "nobody" \notin Processes
  /\ \A p, q \in Processes : \A v \in Embedded[p], w \in Embedded[q] :
       v \in Nat /\ (v < w => v \in Embedded[q])

ASSUME RateLimitAssumption ==
  /\ Caps \subseteq Int /\ Default \in Nat \ {0} /\ MaxIPs \in Nat \ {0}
  /\ MaxCalls \in Nat /\ MaxNow \in Nat

VARIABLES
  which,
  yaml, edits, overrides, rows, requests, hpc, ticket, body, reply, queue, hup, mpc,
  serving, tables, loading, engine, writes, wrote, spoiled,
  saves, reloading, at, config,
  pc, alerted, phase, todo, event, admit, balance, unrecorded,
  records, listed, imports, ipc, since, pageNum, collected, top, came, shifted,
  live, loggedIn, qpc, op, attempt, sent, answer, refused, lost, expiries,
  accounts, lastAccount, call, taken, shown, unseen,
  perMinute, clock, lru, bucket, calls,
  schema, recorded, writer, mig, starts, applied, pending

ofAuth == <<now, table, authState, req, past>>
ofSettings == <<yaml, edits, overrides, hpc, ticket, body, reply, queue, hup,
                serving, tables, loading, writes, wrote, spoiled>>
ofConnections == <<saves, reloading, at, config>>
shared == <<rows, requests, mpc, engine>>   \* by the settings, the connections, the health
ofHealth == <<pc, alerted, phase, todo, event, admit, balance, unrecorded>>
ofImports == <<records, listed, imports, ipc, since, pageNum, collected, top, came, shifted>>
ofSession == <<live, loggedIn, qpc, op, attempt, sent, answer, refused, lost, expiries>>
ofPasswords == <<accounts, lastAccount, call, taken, shown, unseen>>
ofRateLimit == <<perMinute, clock, lru, bucket, calls>>
ofMigrations == <<schema, recorded, writer, mig, starts, applied, pending>>
allVars == <<which, shared, ofAuth, ofSettings, ofConnections, ofHealth, ofImports,
             ofSession, ofPasswords, ofRateLimit, ofMigrations>>
-----------------------------------------------------------------------------
\* The parts, which take constants and variables of the same name from here.
St == INSTANCE Settings WITH Files <- YamlFiles
Co == INSTANCE Connections WITH req <- saves, table <- at
He == INSTANCE Health
Im == INSTANCE Imports WITH pc <- ipc
Se == INSTANCE QbitSession WITH pc <- qpc
Pw == INSTANCE Passwords WITH lastUser <- lastAccount, lost <- unseen
Rl == INSTANCE RateLimit WITH now <- clock
Mi == INSTANCE Migrations WITH pc <- mig, todo <- pending

\* A body has an entry at least.  There is a table.
ASSUME SettingsAssumption ==
  /\ MaxRequests \in Nat /\ MaxEdits \in Nat
  /\ \A b \in Bodies : b \in Seq([key : St!Keys, value : Nat]) /\ b # <<>>
  /\ Tables \in Seq({Tables[i] : i \in DOMAIN Tables}) /\ Tables # <<>>

\* There is a list, and a provider, which is not there twice.
ASSUME HealthAssumption ==
  /\ Lists # <<>> /\ Lists \in Seq(Seq(He!Components))
  /\ Providers # <<>> /\ Providers \in Seq(He!ToSet(Providers))
  /\ \A i, j \in DOMAIN Providers : Providers[i] = Providers[j] => i = j

\* A kind belongs to one table.  The YAML has been checked before the daemon starts.
ASSUME ConnectionsAssumption ==
  /\ MaxRequests \in Nat /\ ArrKinds \cap TorrentKinds = {}
  /\ Implemented \subseteq TorrentKinds
  /\ Co!IsConnections(Yaml) /\ Co!Validate(Yaml) /\ \A in \in Inputs : Co!IsConnection(in)
-----------------------------------------------------------------------------
SettingsOff ==
  /\ yaml = 0 /\ edits = 0 /\ overrides = 0 /\ hpc = 0 /\ ticket = 0
  /\ body = 0 /\ reply = 0 /\ queue = 0 /\ hup = 0 /\ serving = 0 /\ tables = 0
  /\ loading = 0 /\ writes = 0 /\ wrote = 0 /\ spoiled = 0
ConnectionsOff == saves = 0 /\ reloading = 0 /\ at = 0 /\ config = 0
HealthOff ==
  /\ pc = 0 /\ alerted = 0 /\ phase = 0 /\ todo = 0 /\ event = 0 /\ admit = 0 /\ balance = 0
  /\ unrecorded = 0
ImportsOff ==
  /\ records = 0 /\ listed = 0 /\ imports = 0 /\ ipc = 0 /\ since = 0 /\ pageNum = 0
  /\ collected = 0 /\ top = 0 /\ came = 0 /\ shifted = 0
SessionOff ==
  /\ live = 0 /\ loggedIn = 0 /\ qpc = 0 /\ op = 0 /\ attempt = 0 /\ sent = 0 /\ answer = 0
  /\ refused = 0 /\ lost = 0 /\ expiries = 0
PasswordsOff ==
  accounts = 0 /\ lastAccount = 0 /\ call = 0 /\ taken = 0 /\ shown = 0 /\ unseen = 0
RateLimitOff == perMinute = 0 /\ clock = 0 /\ lru = 0 /\ bucket = 0 /\ calls = 0
MigrationsOff ==
  /\ schema = 0 /\ recorded = 0 /\ writer = 0 /\ mig = 0 /\ starts = 0
  /\ applied = 0 /\ pending = 0

DaemonInit ==
  /\ which \in {"auth", "settings", "connections", "health", "imports", "session",
               "passwords", "rateLimit", "migrations"}
  /\ Init
  /\ IF which = "settings" THEN St!Init ELSE SettingsOff
  /\ IF which = "connections" THEN Co!Init ELSE ConnectionsOff
  /\ IF which = "health" THEN He!Init ELSE HealthOff
  /\ IF which = "imports" THEN Im!Init ELSE ImportsOff
  /\ IF which = "session" THEN Se!Init ELSE SessionOff
  /\ IF which = "passwords" THEN Pw!Init ELSE PasswordsOff
  /\ IF which = "rateLimit" THEN Rl!Init ELSE RateLimitOff
  /\ IF which = "migrations" THEN Mi!Init ELSE MigrationsOff
  /\ which \notin {"settings", "connections"} => requests = 0 /\ mpc = 0 /\ engine = 0
  /\ which \notin {"settings", "connections", "health"} => rows = 0

early == <<ofAuth, ofSettings, ofConnections, ofHealth, ofImports>>
late == <<ofSession, ofPasswords, ofRateLimit, ofMigrations>>

DaemonNext ==
  /\ UNCHANGED which
  /\ \/ which = "auth" /\ Next
        /\ UNCHANGED <<shared, ofSettings, ofConnections, ofHealth, ofImports, late>>
     \/ which = "settings" /\ St!Next
        /\ UNCHANGED <<ofAuth, ofConnections, ofHealth, ofImports, late>>
     \/ which = "connections" /\ Co!Next
        /\ UNCHANGED <<ofAuth, ofSettings, ofHealth, ofImports, late>>
     \/ which = "health" /\ He!Next
        /\ UNCHANGED <<requests, mpc, engine, ofAuth, ofSettings, ofConnections, ofImports, late>>
     \/ which = "imports" /\ Im!Next
        /\ UNCHANGED <<shared, ofAuth, ofSettings, ofConnections, ofHealth, late>>
     \/ which = "session" /\ Se!Next
        /\ UNCHANGED <<shared, early, ofPasswords, ofRateLimit, ofMigrations>>
     \/ which = "passwords" /\ Pw!Next
        /\ UNCHANGED <<shared, early, ofSession, ofRateLimit, ofMigrations>>
     \/ which = "rateLimit" /\ Rl!Next
        /\ UNCHANGED <<shared, early, ofSession, ofPasswords, ofMigrations>>
     \/ which = "migrations" /\ Mi!Next
        /\ UNCHANGED <<shared, early, ofSession, ofPasswords, ofRateLimit>>

DaemonSpec == DaemonInit /\ [][DaemonNext]_allVars
-----------------------------------------------------------------------------
\* The variables of the part at work have their types.
DaemonTypeOK ==
  CASE which = "auth" -> TypeOK
    [] which = "settings" -> St!TypeOK
    [] which = "connections" -> Co!TypeOK
    [] which = "health" -> He!TypeOK
    [] which = "imports" -> Im!TypeOK
    [] which = "session" -> Se!TypeOK
    [] which = "passwords" -> Pw!TypeOK
    [] which = "rateLimit" -> Rl!TypeOK
    [] which = "migrations" -> Mi!TypeOK

\* The properties of the login are those of Auth.tla; the others:

\* handlePutSettings: "This blocks until the new config is live, so a 200 means
\* the client can re-fetch immediately".  A change that is reported as done is in
\* force, whatever other clients, signals and reloads come in between: the engine
\* was loaded after it, and runs what is stored if nothing was written since.
RepliesTellTheTruth == [][which = "settings" => St!RepliesTellTheTruth]_allVars

\* handlePutSettings: it "catches schema-validation failures BEFORE we mutate the
\* store".  What is stored loads, at a reload and at the next boot, unless one of
\* the events happened that the check cannot see: two writers at once, a write
\* that failed half-way, an override deleted or a file edited under the others.
LoneWritesLoad == which = "settings" => St!LoneWritesLoad

\* "carryForwardInput preserves a stored secret when the input's secret field is
\* empty".  A save that leaves the secret blank stores one that the kind has had
\* while the request was under way, and none only if it had none, unless the read
\* of it failed.
BlankKeepsSecret == [][which = "connections" => Co!BlankKeepsSecret]_allVars

\* The API, the configuration and the constructors of the clients check connections
\* with three pieces of code.  Whatever was saved, by whatever requests, passes all of
\* them at the next start, and so does what a reload makes of the tables and the YAML:
\* no connection that the API accepts has the daemon fail before its preflight, which
\* asks whether the torrent client's paths are there and may refuse it still.
StoredConnectionsPass == which = "connections" => Co!StoredConnectionsPass

\* The comment of HealthStore: the state "detects degraded->recovered transitions
\* and de-dups reminders across restarts".  A provider that admits both events
\* gets, of one component, a loss and a recovery in turn, and the table tells
\* which of them it heard last, unless a failure or a stop came between the
\* announcement and its record.
AnnouncementsAlternate == which = "health" => He!AnnouncementsAlternate

\* The cursor passes no import by: of every usable record up to the highest id
\* that is stored, the file has a row, of that import or of a later one, whatever
\* pages or writes failed, and whatever was imported while they were read, unless
\* the *arr dropped history meanwhile, or imported between two pages more than one
\* of them has.
NoImportIsSkipped == which = "imports" => Im!NoImportIsSkipped

\* "Session expired - force re-login next call."  A lost session costs a call one
\* 403 at most, however late the callers that share the client notice it.
OneRefusalPerLoss == which = "session" => Se!OneRefusalPerLoss

\* "shown to the operator exactly once".  A generated password that is in force has
\* been shown, or its answer is under way, whatever requests, commands and failures
\* come together; the exceptions are answers that were lost and the failure, in an
\* enable, to issue the session.
PasswordsAreShown == which = "passwords" => Pw!PasswordsAreShown

\* newIPRateLimiter "allows `burst` calls per `window` per IP", and the list evicts
\* "the least recently used".  An address gets the burst and what time brings,
\* while its bucket is not among the least recently used, and is refused only for
\* its own requests.
LimitIsPerAddress == which = "rateLimit" => Rl!LimitIsPerAddress

\* Migrate: "Each migration runs inside a transaction; partial failures roll back.
\* Safe to call repeatedly".  Processes that start together, fail and stop leave
\* every migration in the database once, in order, and recorded; one that has
\* started has all of its own.
MigrationsAreWhole == which = "migrations" => Mi!MigrationsAreWhole
=============================================================================
