----------------------------- MODULE DaemonProofs -----------------------------
(***************************************************************************)
(* Proofs about the parts of Daemon, for any values of their constants.    *)
(***************************************************************************)
EXTENDS Daemon, SumsProofs, FiniteSetTheorems

-----------------------------------------------------------------------------
\* The session of the qBittorrent client.

\* At first nothing is logged in and no call is under way.
LEMMA SessionInit == Se!Init => Se!IInv
<1> SUFFICES ASSUME Se!Init PROVE Se!IInv
  OBVIOUS
<1>1. Se!TypeOK
  <2>1. MaxAttempts \in Nat /\ MaxExpiries \in Nat
    BY SessionAssumption
  <2>2. 0 \in 0..MaxAttempts /\ 0 \in 0..MaxExpiries /\ 0 \in 0..MaxExpiries + 1
    BY <2>1
  <2>3. live \in BOOLEAN /\ loggedIn \in BOOLEAN
    BY Zenon DEF Se!Init
  <2> QED BY <2>2, <2>3 DEF Se!Init, Se!TypeOK, Se!Ops
<1>2. ASSUME NEW c \in Callers PROVE Se!CountsOK(c) /\ Se!LossIsAhead(c)
  BY DEF Se!Init, Se!CountsOK, Se!LossIsAhead
<1> QED BY <1>1, <1>2 DEF Se!IInv

\* The steps of the callers and of qBittorrent preserve the types.
LEMMA SessionStepTypeOK ==
  ASSUME Se!IInv, Se!Next
  PROVE  Se!TypeOK'
<1> USE SessionAssumption DEF Se!TypeOK, Se!Ops
<1>0. Se!TypeOK /\ \A c \in Callers : Se!CountsOK(c) /\ Se!LossIsAhead(c)
  BY DEF Se!IInv
<1>1. ASSUME NEW c \in Callers, Se!Call(c) PROVE Se!TypeOK'
  BY <1>0, <1>1 DEF Se!Call
<1>2. ASSUME NEW c \in Callers, Se!EnsureLogin(c) PROVE Se!TypeOK'
  <2>1. 0 \in 0..MaxAttempts /\ 0 \in 0..MaxExpiries + 1
    OBVIOUS
  <2>2. live' \in BOOLEAN /\ loggedIn' \in BOOLEAN
    BY <1>0, <1>2, Zenon DEF Se!EnsureLogin
  <2>3. /\ qpc' \in [Callers -> {"idle", "login", "send", "wait", "answered"}]
        /\ op' \in [Callers -> Se!Ops] /\ attempt' \in [Callers -> 0..MaxAttempts]
        /\ refused' \in [Callers -> 0..MaxAttempts]
        /\ lost' \in [Callers -> 0..MaxExpiries + 1]
    BY <1>0, <1>2, <2>1 DEF Se!EnsureLogin, Se!Return
  <2> QED BY <1>0, <1>2, <2>2, <2>3 DEF Se!EnsureLogin
<1>3. ASSUME NEW c \in Callers, Se!Send(c) PROVE Se!TypeOK'
  BY <1>0, <1>3 DEF Se!Send
<1>4. ASSUME NEW c \in Callers, Se!Serve(c) PROVE Se!TypeOK'
  BY <1>0, <1>4 DEF Se!Serve
<1>5. ASSUME NEW c \in Callers, Se!Succeed(c) PROVE Se!TypeOK'
  BY <1>0, <1>5 DEF Se!Succeed, Se!Answered, Se!Return
<1>6. ASSUME NEW c \in Callers, Se!Fail(c) PROVE Se!TypeOK'
  <2>1. 0 \in 0..MaxAttempts /\ 0 \in 0..MaxExpiries + 1
    OBVIOUS
  <2>2. attempt[c] < MaxAttempts => attempt[c] + 1 \in 0..MaxAttempts
    BY <1>0
  <2>3. /\ qpc' \in [Callers -> {"idle", "login", "send", "wait", "answered"}]
        /\ op' \in [Callers -> Se!Ops] /\ attempt' \in [Callers -> 0..MaxAttempts]
        /\ refused' \in [Callers -> 0..MaxAttempts]
        /\ lost' \in [Callers -> 0..MaxExpiries + 1]
    BY <1>0, <1>6, <2>1, <2>2 DEF Se!Fail, Se!Return, Se!Again
  <2> QED BY <1>0, <1>6, <2>3, Zenon DEF Se!Fail, Se!Answered
<1>7. ASSUME NEW c \in Callers, Se!Forbidden(c) PROVE Se!TypeOK'
  <2>1. 0 \in 0..MaxAttempts /\ 0 \in 0..MaxExpiries + 1
    OBVIOUS
  <2>2. attempt[c] < MaxAttempts => attempt[c] + 1 \in 0..MaxAttempts
    BY <1>0
  <2>3. refused[c] + 1 \in 0..MaxAttempts
    <3>1. qpc[c] # "idle"
      BY <1>7 DEF Se!Forbidden, Se!Answered
    <3>2. refused[c] < attempt[c] /\ refused[c] \in Nat /\ attempt[c] \in 0..MaxAttempts
      BY <1>0, <3>1 DEF Se!CountsOK
    <3> QED BY <3>2
  <2>4. /\ qpc' \in [Callers -> {"idle", "login", "send", "wait", "answered"}]
        /\ op' \in [Callers -> Se!Ops] /\ attempt' \in [Callers -> 0..MaxAttempts]
        /\ refused' \in [Callers -> 0..MaxAttempts]
        /\ lost' \in [Callers -> 0..MaxExpiries + 1]
    BY <1>0, <1>7, <2>1, <2>2, <2>3 DEF Se!Forbidden, Se!Return, Se!Again
  <2>5. loggedIn' \in BOOLEAN
    BY <1>7, Zenon DEF Se!Forbidden
  <2> QED BY <1>0, <1>7, <2>4, <2>5, Zenon DEF Se!Forbidden, Se!Answered
<1>8. CASE Se!Expire
  <2>1. expiries + 1 \in 0..MaxExpiries
    BY <1>0, <1>8 DEF Se!Expire
  <2>2. \A c \in Callers : lost[c] + 1 \in 0..MaxExpiries + 1
    BY <1>0, <2>1 DEF Se!CountsOK
  <2>3. 0 \in 0..MaxExpiries + 1
    OBVIOUS
  <2>6. live' \in BOOLEAN
    BY <1>8, Zenon DEF Se!Expire
  <2>4. lost' \in [Callers -> 0..MaxExpiries + 1]
    BY <1>8, <2>2, <2>3 DEF Se!Expire
  <2>5. sent' \in [Callers -> {"none", "live", "dead"}]
    BY <1>0, <1>8 DEF Se!Expire
  <2> QED BY <1>0, <1>8, <2>1, <2>6, <2>4, <2>5 DEF Se!Expire
<1> QED
  BY <1>1, <1>2, <1>3, <1>4, <1>5, <1>6, <1>7, <1>8 DEF Se!Next

\* What a call was refused and what was lost: a caller's own steps, and another's.
LEMMA SessionStepCounts ==
  ASSUME Se!IInv, Se!Next
  PROVE  \A c \in Callers : Se!CountsOK(c)' /\ Se!LossIsAhead(c)'
<1> USE SessionAssumption
<1> SUFFICES ASSUME NEW c \in Callers PROVE Se!CountsOK(c)' /\ Se!LossIsAhead(c)'
  OBVIOUS
<1>0. /\ Se!CountsOK(c) /\ Se!LossIsAhead(c)
      /\ live \in BOOLEAN /\ loggedIn \in BOOLEAN /\ expiries \in Nat
      /\ refused[c] \in Nat /\ lost[c] \in Nat /\ attempt[c] \in Nat
  BY DEF Se!IInv, Se!TypeOK
<1>f. /\ DOMAIN qpc = Callers /\ DOMAIN op = Callers /\ DOMAIN attempt = Callers
      /\ DOMAIN sent = Callers /\ DOMAIN answer = Callers /\ DOMAIN refused = Callers
      /\ DOMAIN lost = Callers
      /\ qpc[c] \in {"idle", "login", "send", "wait", "answered"}
      /\ sent[c] \in {"none", "live", "dead"}
      /\ answer[c] \in {"none", "ok", "error", "forbidden"}
  BY DEF Se!IInv, Se!TypeOK
<1>1. ASSUME NEW d \in Callers, d # c,
             \/ Se!Call(d) \/ Se!EnsureLogin(d) \/ Se!Send(d) \/ Se!Serve(d)
             \/ Se!Succeed(d) \/ Se!Fail(d) \/ Se!Forbidden(d)
      PROVE Se!CountsOK(c)' /\ Se!LossIsAhead(c)'
  <2>1. /\ qpc'[c] = qpc[c] /\ attempt'[c] = attempt[c] /\ sent'[c] = sent[c]
        /\ answer'[c] = answer[c] /\ refused'[c] = refused[c] /\ lost'[c] = lost[c]
        /\ expiries' = expiries
    BY <1>f, <1>1
       DEF Se!Call, Se!EnsureLogin, Se!Send, Se!Serve, Se!Succeed, Se!Fail, Se!Forbidden,
           Se!Answered, Se!Return, Se!Again
  <2>2. (~live' => ~live) /\ (loggedIn' /\ ~live' => loggedIn)
    <3>1. CASE Se!EnsureLogin(d)
      <4>1. CASE live' = (live \/ ~loggedIn)
        BY <1>0, <4>1, Zenon
      <4>2. CASE UNCHANGED <<live, loggedIn>>
        BY <4>2
      <4> QED BY <3>1, <4>1, <4>2 DEF Se!EnsureLogin
    <3>2. CASE Se!Forbidden(d)
      BY <3>2 DEF Se!Forbidden, Se!Answered
    <3>3. CASE ~Se!EnsureLogin(d) /\ ~Se!Forbidden(d)
      BY <1>1, <3>3 DEF Se!Call, Se!Send, Se!Serve, Se!Succeed, Se!Fail, Se!Answered
    <3> QED BY <3>1, <3>2, <3>3
  <2> QED BY <1>0, <2>1, <2>2 DEF Se!CountsOK, Se!LossIsAhead
<1>2. CASE Se!Call(c)
  <2>1. /\ qpc[c] = "idle" /\ qpc'[c] = "login" /\ attempt'[c] = 1
        /\ lost'[c] = (IF loggedIn /\ ~live THEN 1 ELSE 0)
        /\ sent'[c] = sent[c] /\ answer'[c] = answer[c] /\ refused'[c] = refused[c]
        /\ expiries' = expiries
    BY <1>f, <1>2 DEF Se!Call
  <2>2. (live' <=> live) /\ (loggedIn' <=> loggedIn)
    BY <1>2 DEF Se!Call
  <2>3. refused[c] = 0 /\ sent[c] = "none" /\ answer[c] = "none"
    BY <1>0, <1>f, <2>1 DEF Se!CountsOK, Se!LossIsAhead
  <2> QED BY <1>0, <2>1, <2>2, <2>3 DEF Se!CountsOK, Se!LossIsAhead
<1>3. CASE Se!EnsureLogin(c)
  <2>1. qpc[c] = "login" /\ sent[c] = "none" /\ answer[c] = "none" /\ refused[c] < attempt[c]
    BY <1>0, <1>f, <1>3 DEF Se!EnsureLogin, Se!CountsOK, Se!LossIsAhead
  <2>2. sent'[c] = sent[c] /\ answer'[c] = answer[c] /\ expiries' = expiries
    BY <1>3 DEF Se!EnsureLogin
  <2>3. CASE ~loggedIn /\ Se!Return(c) /\ UNCHANGED <<live, loggedIn>>
    BY <1>0, <1>f, <2>1, <2>2, <2>3 DEF Se!Return, Se!CountsOK, Se!LossIsAhead
  <2>4. CASE /\ live' = (live \/ ~loggedIn) /\ loggedIn' = TRUE
             /\ qpc' = [qpc EXCEPT ![c] = "send"] /\ UNCHANGED <<op, attempt, refused, lost>>
    <3>1. /\ qpc'[c] = "send" /\ attempt'[c] = attempt[c] /\ refused'[c] = refused[c]
          /\ lost'[c] = lost[c]
      BY <1>f, <2>4
    <3>2. ~live' => loggedIn /\ ~live
      BY <1>0, <2>4, Zenon
    <3> QED BY <1>0, <2>1, <2>2, <3>1, <3>2 DEF Se!CountsOK, Se!LossIsAhead
  <2> QED BY <1>3, <2>3, <2>4, Zenon DEF Se!EnsureLogin
<1>4. CASE Se!Send(c)
  BY <1>0, <1>f, <1>4 DEF Se!Send, Se!CountsOK, Se!LossIsAhead
<1>5. CASE Se!Serve(c)
  <2>1. /\ qpc[c] = "wait" /\ qpc'[c] = "answered" /\ sent'[c] = "none"
        /\ \E a \in {"error", IF sent[c] = "live" THEN "ok" ELSE "forbidden"} : answer'[c] = a
        /\ UNCHANGED <<live, loggedIn, attempt, refused, lost, expiries>>
    BY <1>f, <1>5 DEF Se!Serve
  <2>2. answer'[c] # "none" /\ (answer'[c] = "forbidden" => sent[c] # "live")
    BY <2>1
  <2>3. sent[c] \in {"live", "dead"}
    BY <1>0, <1>f, <2>1 DEF Se!LossIsAhead
  <2> QED BY <1>0, <2>1, <2>2, <2>3 DEF Se!CountsOK, Se!LossIsAhead
<1>6. CASE Se!Succeed(c)
  BY <1>0, <1>f, <1>6 DEF Se!Succeed, Se!Answered, Se!Return, Se!CountsOK, Se!LossIsAhead
<1>7. CASE Se!Fail(c)
  BY <1>0, <1>f, <1>7
     DEF Se!Fail, Se!Answered, Se!Return, Se!Again, Se!CountsOK, Se!LossIsAhead
<1>8. CASE Se!Forbidden(c)
  BY <1>0, <1>f, <1>8
     DEF Se!Forbidden, Se!Answered, Se!Return, Se!Again, Se!CountsOK, Se!LossIsAhead
<1>9. CASE Se!Expire
  BY <1>0, <1>f, <1>9 DEF Se!Expire, Se!CountsOK, Se!LossIsAhead
<1> QED
  BY <1>1, <1>2, <1>3, <1>4, <1>5, <1>6, <1>7, <1>8, <1>9 DEF Se!Next

\* OneRefusalPerLoss follows from the invariant.
LEMMA SessionSafe == Se!IInv => Se!OneRefusalPerLoss
  BY DEF Se!IInv, Se!LossIsAhead, Se!OneRefusalPerLoss

\* A lost session costs a call one 403 at most, for any number of callers that
\* share the client, any retries and any losses.
THEOREM Session == DaemonSpec => []OneRefusalPerLoss
<1> DEFINE I == which = "session" => Se!IInv
<1>1. DaemonInit => I
  BY SessionInit DEF DaemonInit
<1>2. I /\ [DaemonNext]_allVars => I'
  <2> SUFFICES ASSUME I, [DaemonNext]_allVars, which' = "session" PROVE Se!IInv'
    OBVIOUS
  <2>1. CASE UNCHANGED allVars
    BY <2>1 DEF allVars, ofSession, Se!IInv, Se!TypeOK, Se!CountsOK, Se!LossIsAhead
  <2>2. CASE DaemonNext
    <3>1. Se!IInv /\ Se!Next
      BY <2>2 DEF DaemonNext
    <3> QED BY <3>1, SessionStepTypeOK, SessionStepCounts DEF Se!IInv
  <2> QED BY <2>1, <2>2
<1>3. I => OneRefusalPerLoss
  BY SessionSafe DEF OneRefusalPerLoss
<1> QED BY <1>1, <1>2, <1>3, PTL DEF DaemonSpec

-----------------------------------------------------------------------------
\* The migrations.

\* The next version is the least of those that are left.
LEMMA UpcomingIsLeast ==
  ASSUME NEW p, pending[p] \in SUBSET Nat, pending[p] # {}
  PROVE  Mi!Upcoming(p) \in pending[p] /\ \A w \in pending[p] : Mi!Upcoming(p) <= w
<1>1. \E v \in pending[p] : \A w \in pending[p] : v <= w
  BY LeastNat
<1> QED BY <1>1 DEF Mi!Upcoming

\* A database without any, and nobody at work.
LEMMA MigrationsInit == Mi!Init => Mi!IInv
<1> SUFFICES ASSUME Mi!Init PROVE Mi!IInv
  OBVIOUS
<1>1. Mi!TypeOK
  <2>1. 0 \in 0..MaxStarts
    BY MigrationsAssumption
  <2>2. schema \in Seq(Nat) /\ recorded \in SUBSET Nat
    BY DEF Mi!Init
  <2> QED BY <2>1, <2>2 DEF Mi!Init, Mi!TypeOK, Mi!Nobody
<1>2. Mi!MigrationsAreWhole
  BY DEF Mi!Init, Mi!MigrationsAreWhole, IsInjective, ToSet, Mi!IsInjective, Mi!ToSet
<1>3. Mi!InOrder
  BY DEF Mi!Init, Mi!InOrder
<1>4. ASSUME NEW p \in Processes PROVE Mi!ProcessOK(p)
  BY MigrationsAssumption DEF Mi!Init, Mi!ProcessOK, Mi!Nobody
<1> QED BY <1>1, <1>2, <1>3, <1>4 DEF Mi!IInv

\* The steps that leave the database as it is: their types, and the process itself.
LEMMA MigrationsQuietStep ==
  ASSUME Mi!IInv, NEW p \in Processes,
         \/ Mi!Open(p) \/ Mi!AppliedVersions(p) \/ Mi!NextMigration(p) \/ Mi!ExecSql(p)
         \/ Mi!Stop(p)
  PROVE  Mi!IInv'
<1>0. /\ Mi!TypeOK /\ Mi!MigrationsAreWhole /\ Mi!InOrder
      /\ \A q \in Processes : Mi!ProcessOK(q)
  BY DEF Mi!IInv
<1>1. recorded' = recorded /\ schema' = schema
  BY DEF Mi!Open, Mi!AppliedVersions, Mi!NextMigration, Mi!ExecSql, Mi!Stop, Mi!Close
<1>2. /\ DOMAIN mig = Processes /\ DOMAIN starts = Processes /\ DOMAIN applied = Processes
      /\ DOMAIN pending = Processes
      /\ Embedded[p] \in SUBSET Nat
  BY <1>0, MigrationsAssumption DEF Mi!TypeOK
<1>3. Mi!TypeOK'
  <2> USE <1>0, <1>1 DEF Mi!TypeOK, Mi!GoesTo
  <2>1. CASE Mi!Open(p)
    <3>1. starts[p] + 1 \in 0..MaxStarts
      BY <2>1, MigrationsAssumption DEF Mi!Open
    <3> QED BY <2>1, <3>1 DEF Mi!Open
  <2>2. CASE Mi!AppliedVersions(p)
    BY <1>2, <2>2 DEF Mi!AppliedVersions
  <2>3. CASE Mi!NextMigration(p)
    <3>1. pending' \in [Processes -> SUBSET Nat]
      BY <2>3, Zenon DEF Mi!NextMigration, Mi!Done
    <3>2. mig' \in [Processes -> {"down", "read", "next", "begin", "record", "ready"}]
      BY <2>3, Zenon DEF Mi!NextMigration
    <3> QED BY <2>3, <3>1, <3>2 DEF Mi!NextMigration
  <2>4. CASE Mi!ExecSql(p)
    BY <2>4 DEF Mi!ExecSql
  <2>5. CASE Mi!Stop(p)
    BY <2>5 DEF Mi!Stop, Mi!Close
  <2> QED BY <2>1, <2>2, <2>3, <2>4, <2>5
<1>4. ASSUME NEW q \in Processes, q # p PROVE Mi!ProcessOK(q)'
  <2>1. applied'[q] = applied[q] /\ pending'[q] = pending[q] /\ mig'[q] = mig[q]
    BY <1>2, <1>4 DEF Mi!Open, Mi!AppliedVersions, Mi!NextMigration, Mi!ExecSql, Mi!Stop,
       Mi!Close, Mi!GoesTo, Mi!Done
  <2>2. (writer' = q) <=> (writer = q)
    BY <1>0, <1>4, MigrationsAssumption
       DEF Mi!Open, Mi!AppliedVersions, Mi!NextMigration, Mi!ExecSql, Mi!Stop, Mi!Close,
           Mi!Nobody
  <2> QED BY <1>0, <1>1, <2>1, <2>2 DEF Mi!ProcessOK, Mi!Upcoming
<1>5. Mi!ProcessOK(p)'
  <2>0. Mi!ProcessOK(p) /\ p # "nobody" /\ pending[p] \in SUBSET Nat
    BY <1>0, MigrationsAssumption DEF Mi!TypeOK
  <2> USE <1>1, <1>2 DEF Mi!GoesTo
  <2>1. CASE Mi!Open(p)
    BY <2>0, <2>1 DEF Mi!Open, Mi!ProcessOK
  <2>2. CASE Mi!AppliedVersions(p)
    <3>1. applied'[p] = recorded /\ pending'[p] = Embedded[p] /\ mig'[p] = "next"
          /\ mig[p] = "read" /\ writer' = writer
      BY <2>2 DEF Mi!AppliedVersions
    <3> QED BY <2>0, <3>1 DEF Mi!ProcessOK
  <2>3. CASE Mi!NextMigration(p)
    <3>1. applied'[p] = applied[p] /\ writer' = writer /\ mig[p] = "next"
      BY <2>3 DEF Mi!NextMigration
    <3>2. CASE pending[p] = {} /\ mig'[p] = "ready" /\ UNCHANGED pending
      BY <2>0, <3>1, <3>2 DEF Mi!ProcessOK
    <3>3. CASE /\ pending[p] # {} /\ Mi!Upcoming(p) \in applied[p]
               /\ pending'[p] = pending[p] \ {Mi!Upcoming(p)} /\ UNCHANGED mig
      BY <2>0, <3>1, <3>3 DEF Mi!ProcessOK
    <3>4. CASE pending[p] # {} /\ mig'[p] = "begin" /\ UNCHANGED pending
      BY <2>0, <3>1, <3>4 DEF Mi!ProcessOK
    <3> QED BY <2>3, <3>2, <3>3, <3>4 DEF Mi!NextMigration, Mi!Done
  <2>4. CASE Mi!ExecSql(p)
    <3>1. /\ applied'[p] = applied[p] /\ pending'[p] = pending[p] /\ mig'[p] = "record"
          /\ mig[p] = "begin" /\ writer' = p /\ Mi!Upcoming(p)' = Mi!Upcoming(p)
      BY <2>4 DEF Mi!ExecSql, Mi!Upcoming
    <3>2. Mi!Upcoming(p) \notin recorded
      BY <1>0, <2>4 DEF Mi!ExecSql, Mi!MigrationsAreWhole
    <3> QED BY <2>0, <3>1, <3>2 DEF Mi!ProcessOK
  <2>5. CASE Mi!Stop(p)
    BY <2>0, <2>5 DEF Mi!Stop, Mi!Close, Mi!ProcessOK, Mi!Nobody
  <2> QED BY <2>1, <2>2, <2>3, <2>4, <2>5
<1>6. Mi!InOrder'
  BY <1>0, <1>1 DEF Mi!InOrder
<1>7. Mi!MigrationsAreWhole'
  <2>1. ASSUME NEW q \in Processes, mig'[q] = "ready" PROVE Embedded[q] \subseteq recorded'
    BY <1>4, <1>5, <2>1 DEF Mi!ProcessOK
  <2> QED BY <1>0, <1>1, <2>1 DEF Mi!MigrationsAreWhole
<1> QED BY <1>3, <1>4, <1>5, <1>6, <1>7 DEF Mi!IInv

\* The commit, which adds a version above all that are there.
LEMMA MigrationsCommit ==
  ASSUME Mi!IInv, NEW p \in Processes, Mi!Commit(p)
  PROVE  Mi!IInv'
<1> DEFINE v == Mi!Upcoming(p)
<1>0. /\ Mi!TypeOK /\ Mi!MigrationsAreWhole /\ Mi!InOrder
      /\ \A q \in Processes : Mi!ProcessOK(q)
  BY DEF Mi!IInv
<1>1. /\ schema' = Append(schema, v) /\ recorded' = recorded \cup {v}
      /\ writer' = "nobody" /\ mig' = [mig EXCEPT ![p] = "next"]
      /\ pending' = [pending EXCEPT ![p] = @ \ {v}]
      /\ UNCHANGED <<starts, applied>> /\ mig[p] = "record"
  BY DEF Mi!Commit, Mi!GoesTo, Mi!Done, Mi!Nobody
<1>2. /\ writer = p /\ v \notin recorded /\ v \in pending[p] /\ v \in Embedded[p] /\ v \in Nat
      /\ \A w \in pending[p] : v <= w
  <2>1. Mi!ProcessOK(p) /\ pending[p] \in SUBSET Nat
    BY <1>0 DEF Mi!TypeOK
  <2>2. pending[p] # {} /\ pending[p] \subseteq Embedded[p] /\ writer = p /\ v \notin recorded
    BY <1>1, <2>1 DEF Mi!ProcessOK
  <2> QED BY <2>1, <2>2, UpcomingIsLeast
<1> HIDE DEF v
<1>3. \A u \in recorded : u < v
  <2>1. \A u \in recorded : u \in Nat /\ u # v /\ ~(v < u)
    BY <1>0, <1>2 DEF Mi!InOrder, Mi!TypeOK
  <2> QED BY <1>2, <2>1
<1>4. Mi!TypeOK'
  BY <1>0, <1>1, <1>2 DEF Mi!TypeOK, Mi!Nobody
<1>5. ASSUME NEW q \in Processes PROVE Mi!ProcessOK(q)'
  <2>0. Mi!ProcessOK(q) /\ Mi!ProcessOK(p) /\ q # "nobody"
        /\ DOMAIN mig = Processes /\ DOMAIN pending = Processes
    BY <1>0, MigrationsAssumption DEF Mi!TypeOK
  <2>1. CASE q = p
    BY <1>1, <1>2, <2>0, <2>1 DEF Mi!ProcessOK
  <2>2. CASE q # p
    <3>1. mig'[q] = mig[q] /\ pending'[q] = pending[q] /\ applied'[q] = applied[q]
      BY <1>1, <2>0, <2>2
    <3>2. mig[q] # "record"
      BY <1>2, <2>0, <2>2 DEF Mi!ProcessOK
    <3> QED BY <1>1, <2>0, <3>1, <3>2 DEF Mi!ProcessOK
  <2> QED BY <2>1, <2>2
<1>6. Mi!InOrder'
  <2> SUFFICES ASSUME NEW u \in recorded', NEW q \in Processes, NEW w \in Embedded[q], w < u
               PROVE  w \in recorded'
    BY DEF Mi!InOrder
  <2>1. CASE u \in recorded
    BY <1>0, <1>1, <2>1 DEF Mi!InOrder
  <2>2. CASE u = v
    <3>1. w \in Nat /\ w \in Embedded[p]
      BY <1>2, <2>2, MigrationsAssumption
    <3>2. w \notin pending[p]
      BY <1>2, <2>2, <3>1
    <3>3. w \in recorded
      BY <1>0, <1>1, <3>1, <3>2 DEF Mi!ProcessOK
    <3> QED BY <1>1, <3>3
  <2> QED BY <1>1, <2>1, <2>2
<1>7. Mi!MigrationsAreWhole'
  <2>1. /\ schema \in Seq(Nat)
        /\ {schema[i] : i \in DOMAIN schema} = recorded
        /\ \A i, j \in DOMAIN schema : i < j => schema[i] < schema[j]
    BY <1>0 DEF Mi!TypeOK, Mi!MigrationsAreWhole, Mi!ToSet
  <2>2. /\ schema' \in Seq(Nat) /\ Len(schema') = Len(schema) + 1
        /\ schema'[Len(schema) + 1] = v /\ \A i \in 1..Len(schema) : schema'[i] = schema[i]
        /\ DOMAIN schema = 1..Len(schema) /\ DOMAIN schema' = 1..(Len(schema) + 1)
        /\ Len(schema) \in Nat
    BY <1>1, <1>2, <2>1
  <2>3. ASSUME NEW i \in DOMAIN schema', NEW j \in DOMAIN schema', i < j
        PROVE  schema'[i] < schema'[j]
    <3>1. i \in 1..Len(schema) /\ (j \in 1..Len(schema) \/ j = Len(schema) + 1)
      BY <2>2, <2>3
    <3>2. schema[i] \in recorded
      BY <2>1, <2>2, <3>1
    <3> QED BY <1>3, <2>1, <2>2, <2>3, <3>1, <3>2, Zenon
  <2>4. ASSUME NEW i \in DOMAIN schema', NEW j \in DOMAIN schema', schema'[i] = schema'[j]
        PROVE  i = j
    <3>1. i \in Nat /\ j \in Nat /\ schema'[i] \in Nat /\ schema'[j] \in Nat
      BY <2>2
    <3>2. ~(i < j) /\ ~(j < i)
      BY <2>3, <2>4, <3>1
    <3> QED BY <3>1, <3>2
  <2>5. {schema'[i] : i \in DOMAIN schema'} = recorded'
    BY <1>1, <2>1, <2>2
  <2>6. \A q \in Processes : mig'[q] = "ready" => Embedded[q] \subseteq recorded'
    BY <1>5 DEF Mi!ProcessOK
  <2> QED BY <2>3, <2>4, <2>5, <2>6 DEF Mi!MigrationsAreWhole, Mi!ToSet, Mi!IsInjective
<1> QED BY <1>4, <1>5, <1>6, <1>7 DEF Mi!IInv

\* Whatever processes start, fail and stop together, and whatever versions of the
\* program they are, the database has every migration once, in order, recorded.
THEOREM MigrationsWhole == DaemonSpec => []MigrationsAreWhole
<1> DEFINE I == which = "migrations" => Mi!IInv
<1>1. DaemonInit => I
  BY MigrationsInit DEF DaemonInit
<1>2. I /\ [DaemonNext]_allVars => I'
  <2> SUFFICES ASSUME I, [DaemonNext]_allVars, which' = "migrations" PROVE Mi!IInv'
    OBVIOUS
  <2>1. CASE UNCHANGED allVars
    <3>1. Mi!IInv /\ UNCHANGED <<schema, recorded, writer, mig, applied, pending, starts>>
      BY <2>1 DEF allVars, ofMigrations
    <3>2. ASSUME NEW p \in Processes PROVE Mi!ProcessOK(p)'
      <4>1. Mi!Upcoming(p)' = Mi!Upcoming(p)
        BY <3>1 DEF Mi!Upcoming
      <4> QED BY <3>1, <4>1 DEF Mi!IInv, Mi!ProcessOK
    <3>3. Mi!TypeOK' /\ Mi!MigrationsAreWhole' /\ Mi!InOrder'
      BY <3>1 DEF Mi!IInv, Mi!TypeOK, Mi!MigrationsAreWhole, Mi!InOrder
    <3> QED BY <3>2, <3>3 DEF Mi!IInv
  <2>2. CASE DaemonNext
    <3>1. Mi!IInv /\ Mi!Next
      BY <2>2 DEF DaemonNext
    <3>2. PICK p \in Processes :
            \/ Mi!Open(p) \/ Mi!AppliedVersions(p) \/ Mi!NextMigration(p)
            \/ Mi!ExecSql(p) \/ Mi!Commit(p) \/ Mi!Stop(p)
      BY <3>1 DEF Mi!Next
    <3>3. CASE Mi!Commit(p)
      BY <3>1, <3>3, MigrationsCommit
    <3> QED BY <3>1, <3>2, <3>3, MigrationsQuietStep
  <2> QED BY <2>1, <2>2
<1>3. I => MigrationsAreWhole
  BY DEF MigrationsAreWhole, Mi!IInv
<1> QED BY <1>1, <1>2, <1>3, PTL DEF DaemonSpec

-----------------------------------------------------------------------------
\* The passwords.

\* At first there is no account and no call.
LEMMA PasswordsInit == Pw!Init => Pw!IInv
<1> SUFFICES ASSUME Pw!Init PROVE Pw!IInv
  OBVIOUS
<1>1. DOMAIN accounts = {} /\ lastAccount = 0 /\ taken = {} /\ shown = {} /\ unseen = {}
      /\ accounts = [u \in {} |-> 0]
  BY DEF Pw!Init
<1>2. 0 \in 0..MaxUsers
  BY ConstantsAssumption
<1>3. Pw!TypeOK
  BY <1>1, <1>2 DEF Pw!Init, Pw!TypeOK, Pw!NoCall
<1>4. \A c \in Calls : Pw!CallOK(c)
  BY DEF Pw!Init, Pw!CallOK, Pw!NoCall
<1> QED BY <1>1, <1>3, <1>4 DEF Pw!IInv, Pw!PasswordsAreShown

\* What the account is and the answers that are under way say about a password.
LEMMA PasswordsBegin ==
  ASSUME Pw!IInv, NEW c \in Calls, call[c] = Pw!NoCall,
         NEW o \in {"change", "disable", "enable", "set"},
         NEW s \in {"update", "delete", "insert"}, NEW u \in 0..MaxUsers,
         NEW n \in Chosen \cup Generated \cup {Pw!Empty},
         s = "delete" \/ n \in Chosen \cup Generated,
         Pw!Begin(c, o, s, u, n)
  PROVE  Pw!IInv'
<1>0. Pw!TypeOK /\ Pw!PasswordsAreShown /\ \A d \in Calls : Pw!CallOK(d)
  BY DEF Pw!IInv
<1>1. /\ call' = [call EXCEPT ![c] = [op |-> o, step |-> s, user |-> u, new |-> n]]
      /\ taken' = taken \cup ({n} \cap Generated)
      /\ UNCHANGED <<accounts, lastAccount, shown, unseen>>
  BY DEF Pw!Begin
<1>2. DOMAIN call = Calls
  BY <1>0 DEF Pw!TypeOK
<1>3. Pw!TypeOK'
  <2>1. [op |-> o, step |-> s, user |-> u, new |-> n] \in
          [op : {"none", "change", "disable", "enable", "set"},
           step : {"none", "update", "delete", "insert", "session", "answer"},
           user : 0..MaxUsers, new : Chosen \cup Generated \cup {Pw!Empty}]
    OBVIOUS
  <2> QED BY <1>0, <1>1, <2>1 DEF Pw!TypeOK
<1>4. \A d \in Calls : Pw!CallOK(d)'
  BY <1>0, <1>1, <1>2 DEF Pw!CallOK
<1>5. Pw!PasswordsAreShown'
  <2>0. call[c] = [op |-> "none", step |-> "none", user |-> 0, new |-> Pw!Empty]
    BY DEF Pw!NoCall
  <2>1. call[c].step = "none"
    BY <2>0
  <2>2. \A d \in Calls : call[d].step \in {"session", "answer"} => call'[d] = call[d]
    BY <1>1, <1>2, <2>1
  <2>3. ASSUME NEW v \in DOMAIN accounts, accounts[v].password \in Generated
        PROVE  \/ accounts[v].password \in shown \cup unseen
               \/ \E d \in Calls :
                    /\ call'[d].step \in {"session", "answer"} /\ call'[d].user = v
                    /\ call'[d].new = accounts[v].password
    BY <1>0, <2>2, <2>3 DEF Pw!PasswordsAreShown
  <2> QED BY <1>1, <2>3 DEF Pw!PasswordsAreShown
<1> QED BY <1>3, <1>4, <1>5 DEF Pw!IInv

\* A call of a handler or of a command begins.
LEMMA PasswordsCall ==
  ASSUME Pw!IInv, NEW c \in Calls,
         Pw!ChangePassword(c) \/ Pw!Disable(c) \/ Pw!Enable(c) \/ Pw!SetPassword(c)
  PROVE  Pw!IInv'
<1>0. /\ DOMAIN accounts \subseteq 0..MaxUsers
      /\ \A s : Pw!Resolve(s) \subseteq Chosen \cup Generated
      /\ 0 \in 0..MaxUsers
  <2>1. DOMAIN accounts \subseteq 1..lastAccount /\ lastAccount \in 0..MaxUsers
    BY DEF Pw!IInv, Pw!TypeOK
  <2>2. MaxUsers \in Nat
    BY ConstantsAssumption
  <2>3. \A s : Pw!Resolve(s) \subseteq Chosen \cup Generated
    BY DEF Pw!Resolve, Pw!Generate
  <2> QED BY <2>1, <2>2, <2>3
<1>1. CASE Pw!ChangePassword(c)
  <2>1. PICK u \in DOMAIN accounts, new \in Chosen \cup Generated :
          Pw!Begin(c, "change", "update", u, new)
    BY <1>0, <1>1 DEF Pw!ChangePassword
  <2> QED BY <1>0, <1>1, <2>1, PasswordsBegin DEF Pw!ChangePassword
<1>2. CASE Pw!Disable(c)
  <2>1. PICK u \in DOMAIN accounts : Pw!Begin(c, "disable", "delete", u, Pw!Empty)
    BY <1>2 DEF Pw!Disable
  <2> QED BY <1>0, <1>2, <2>1, PasswordsBegin DEF Pw!Disable
<1>3. CASE Pw!Enable(c)
  <2>1. PICK new \in Chosen \cup Generated : Pw!Begin(c, "enable", "insert", 0, new)
    BY <1>0, <1>3 DEF Pw!Enable
  <2> QED BY <1>0, <1>3, <2>1, PasswordsBegin DEF Pw!Enable
<1>4. CASE Pw!SetPassword(c)
  <2>1. PICK u \in DOMAIN accounts, new \in Chosen \cup Generated :
          Pw!Begin(c, "set", "update", u, new)
    BY <1>0, <1>4 DEF Pw!SetPassword
  <2> QED BY <1>0, <1>4, <2>1, PasswordsBegin DEF Pw!SetPassword
<1> QED BY <1>1, <1>2, <1>3, <1>4

\* Its later steps, of which each moves what is known of its password along.
LEMMA PasswordsStep ==
  ASSUME Pw!IInv, NEW c \in Calls,
         \/ Pw!UpdateAuthPassword(c) \/ Pw!DeleteAuthUser(c) \/ Pw!InsertAuthUser(c)
         \/ Pw!IssueSession(c) \/ Pw!Answer(c)
  PROVE  Pw!IInv'
<1> DEFINE Call == [op : {"none", "change", "disable", "enable", "set"},
                    step : {"none", "update", "delete", "insert", "session", "answer"},
                    user : 0..MaxUsers, new : Chosen \cup Generated \cup {Pw!Empty}]
           Account == [name : Names, password : Chosen \cup Generated]
           p == call[c].new
<1>0. Pw!TypeOK /\ Pw!PasswordsAreShown /\ \A d \in Calls : Pw!CallOK(d)
  BY DEF Pw!IInv
<1>1. /\ call \in [Calls -> Call] /\ accounts \in [DOMAIN accounts -> Account]
      /\ lastAccount \in 0..MaxUsers /\ DOMAIN accounts \subseteq 1..lastAccount
      /\ taken \subseteq Generated /\ shown \cup unseen \subseteq taken
      /\ MaxUsers \in Nat
  BY <1>0, ConstantsAssumption DEF Pw!TypeOK
<1>2. ASSUME NEW d \in Calls, d # c PROVE call'[d] = call[d]
  BY <1>1, <1>2 DEF Pw!UpdateAuthPassword, Pw!DeleteAuthUser, Pw!InsertAuthUser,
     Pw!IssueSession, Pw!Answer, Pw!Ends, Pw!GoesTo
<1>3. Pw!CallOK(c)
  BY <1>0
<1> DEFINE Known(a, sh, un, cs, u) ==
             a[u].password \in Generated =>
               \/ a[u].password \in sh \cup un
               \/ \E d \in Calls : /\ cs[d].step \in {"session", "answer"} /\ cs[d].user = u
                                   /\ cs[d].new = a[u].password
<1>9. \A u \in DOMAIN accounts : Known(accounts, shown, unseen, call, u)
  BY <1>0 DEF Pw!PasswordsAreShown
<1> SUFFICES
      /\ lastAccount' \in 0..MaxUsers /\ DOMAIN accounts' \subseteq 1..lastAccount'
      /\ accounts' \in [DOMAIN accounts' -> Account]
      /\ call' \in [Calls -> Call] /\ taken' = taken
      /\ shown' \cup unseen' \subseteq taken
      /\ Pw!CallOK(c)'
      /\ \A u \in DOMAIN accounts' : Known(accounts', shown', unseen', call', u)
  <2>1. ASSUME NEW d \in Calls, d # c, taken' = taken PROVE Pw!CallOK(d)'
    BY <1>0, <1>2, <2>1 DEF Pw!CallOK
  <2> QED BY <1>1, <2>1 DEF Pw!IInv, Pw!TypeOK, Pw!PasswordsAreShown
<1>4. CASE Pw!UpdateAuthPassword(c)
  <2>1. call[c].step = "update" /\ UNCHANGED <<lastAccount, taken, shown, unseen>>
    BY <1>4 DEF Pw!UpdateAuthPassword
  <2>2. CASE UNCHANGED accounts /\ Pw!Ends(c)
    <3>1. call' \in [Calls -> Call] /\ Pw!CallOK(c)'
      BY <1>1, <2>1, <2>2 DEF Pw!Ends, Pw!NoCall, Pw!CallOK
    <3>2. \A d \in Calls : call[d].step \in {"session", "answer"} => call'[d] = call[d]
      BY <1>2, <2>1
    <3>3. ASSUME NEW u \in DOMAIN accounts
          PROVE  Known(accounts', shown', unseen', call', u)
      BY <1>9, <2>1, <2>2, <3>2
    <3> HIDE DEF Known
    <3> QED BY <1>1, <2>1, <2>2, <3>1, <3>3
  <2>3. CASE /\ accounts' = [u \in DOMAIN accounts |->
                  IF u = call[c].user THEN [accounts[u] EXCEPT !.password = call[c].new]
                  ELSE accounts[u]]
             /\ Pw!GoesTo(c, "answer")
    <3>1. /\ call' = [call EXCEPT ![c].step = "answer"] /\ call' \in [Calls -> Call]
          /\ call'[c].step = "answer" /\ call'[c].new = call[c].new
          /\ call'[c].user = call[c].user
      BY <1>1, <2>3 DEF Pw!GoesTo
    <3>2. call[c].new \in Chosen \cup Generated
      BY <1>3, <2>1 DEF Pw!CallOK
    <3>3. Pw!CallOK(c)'
      BY <1>3, <2>1, <3>1 DEF Pw!CallOK
    <3>4. DOMAIN accounts' = DOMAIN accounts /\ accounts' \in [DOMAIN accounts -> Account]
      BY <1>1, <2>3, <3>2
    <3>5. \A d \in Calls : call[d].step \in {"session", "answer"} => call'[d] = call[d]
      BY <1>2, <2>1
    <3>6. ASSUME NEW u \in DOMAIN accounts
          PROVE  Known(accounts', shown', unseen', call', u)
      <4>1. CASE u = call[c].user
        <5>1. accounts'[u].password = call[c].new
          BY <1>1, <2>3, <4>1
        <5> QED BY <3>1, <4>1, <5>1
      <4>2. CASE u # call[c].user
        <5>1. accounts'[u] = accounts[u]
          BY <2>3, <4>2
        <5> QED BY <1>9, <2>1, <3>5, <5>1
      <4> QED BY <4>1, <4>2
    <3> HIDE DEF Known
    <3> QED BY <1>1, <2>1, <3>1, <3>3, <3>4, <3>6, Zenon
  <2> QED BY <1>4, <2>2, <2>3 DEF Pw!UpdateAuthPassword
<1>5. CASE Pw!DeleteAuthUser(c)
  <2>1. /\ call[c].step = "delete" /\ UNCHANGED <<lastAccount, taken, shown, unseen>>
        /\ call' = [call EXCEPT ![c] = Pw!NoCall]
    BY <1>5 DEF Pw!DeleteAuthUser, Pw!Ends
  <2>2. /\ DOMAIN accounts' \subseteq DOMAIN accounts
        /\ accounts' \in [DOMAIN accounts' -> Account]
        /\ \A u \in DOMAIN accounts' : accounts'[u] = accounts[u]
    <3>1. CASE accounts' = accounts
      BY <1>1, <3>1
    <3>2. CASE accounts' = Restrict(accounts, DOMAIN accounts \ {call[c].user})
      BY <1>1, <3>2 DEF Restrict
    <3>3. accounts' = accounts \/ accounts' = Restrict(accounts, DOMAIN accounts \ {call[c].user})
      BY <1>5 DEF Pw!DeleteAuthUser, Pw!Restrict, Restrict
    <3> QED BY <3>1, <3>2, <3>3
  <2>3. call' \in [Calls -> Call] /\ Pw!CallOK(c)'
    BY <1>1, <2>1 DEF Pw!NoCall, Pw!CallOK
  <2>4. \A d \in Calls : call[d].step \in {"session", "answer"} => call'[d] = call[d]
    BY <1>2, <2>1
  <2>5. ASSUME NEW u \in DOMAIN accounts'
        PROVE  Known(accounts', shown', unseen', call', u)
    BY <1>9, <2>1, <2>2, <2>4
  <2> HIDE DEF Known
  <2> QED BY <1>1, <2>1, <2>2, <2>3, <2>5, Zenon
<1>6. CASE Pw!InsertAuthUser(c)
  <2>1. call[c].step = "insert" /\ UNCHANGED <<taken, shown, unseen>>
    BY <1>6 DEF Pw!InsertAuthUser
  <2>2. \A d \in Calls : call[d].step \in {"session", "answer"} => call'[d] = call[d]
    BY <1>2, <2>1
  <2>3. CASE Pw!Ends(c) /\ UNCHANGED <<accounts, lastAccount>>
    <3>1. call' \in [Calls -> Call] /\ Pw!CallOK(c)'
      BY <1>1, <2>1, <2>3 DEF Pw!Ends, Pw!NoCall, Pw!CallOK
    <3>2. ASSUME NEW u \in DOMAIN accounts
          PROVE  Known(accounts', shown', unseen', call', u)
      BY <1>9, <2>1, <2>2, <2>3
    <3> HIDE DEF Known
    <3> QED BY <1>1, <2>1, <2>3, <3>1, <3>2
  <2>4. ASSUME NEW n \in Names, lastAccount < MaxUsers, lastAccount' = lastAccount + 1,
               accounts' = [u \in DOMAIN accounts \cup {lastAccount + 1} |->
                              IF u \in DOMAIN accounts THEN accounts[u]
                              ELSE [name |-> n, password |-> call[c].new]],
               call' = [call EXCEPT ![c].step = "session", ![c].user = lastAccount + 1]
        PROVE  /\ lastAccount' \in 0..MaxUsers /\ DOMAIN accounts' \subseteq 1..lastAccount'
               /\ accounts' \in [DOMAIN accounts' -> Account]
               /\ call' \in [Calls -> Call] /\ Pw!CallOK(c)'
               /\ \A u \in DOMAIN accounts' : Known(accounts', shown', unseen', call', u)
    <3>1. lastAccount + 1 \in 0..MaxUsers /\ lastAccount + 1 \notin DOMAIN accounts
      BY <1>1, <2>4
    <3>2. /\ call' \in [Calls -> Call] /\ call'[c].step = "session"
          /\ call'[c].user = lastAccount + 1 /\ call'[c].new = call[c].new
      BY <1>1, <2>4, <3>1, Zenon
    <3>3. call[c].new \in Chosen \cup Generated
      BY <1>3, <2>1 DEF Pw!CallOK
    <3>4. Pw!CallOK(c)'
      BY <1>3, <2>1, <3>2 DEF Pw!CallOK
    <3>5. DOMAIN accounts' \subseteq 1..lastAccount'
      BY <1>1, <2>4
    <3>6. accounts' \in [DOMAIN accounts' -> Account]
      BY <1>1, <2>4, <3>3
    <3>7. ASSUME NEW u \in DOMAIN accounts'
          PROVE  Known(accounts', shown', unseen', call', u)
      <4>1. CASE u \in DOMAIN accounts
        <5>1. accounts'[u] = accounts[u]
          BY <2>4, <4>1
        <5> QED BY <1>9, <2>1, <2>2, <4>1, <5>1
      <4>2. CASE u \notin DOMAIN accounts
        <5>1. u = lastAccount + 1 /\ accounts'[u].password = call[c].new
          BY <2>4, <4>2
        <5> QED BY <3>2, <5>1
      <4> QED BY <4>1, <4>2
    <3> HIDE DEF Known
    <3> QED BY <2>4, <3>1, <3>2, <3>4, <3>5, <3>6, <3>7, Zenon
  <2> HIDE DEF Known
  <2>5. CASE \E n \in Names :
               /\ lastAccount < MaxUsers /\ lastAccount' = lastAccount + 1
               /\ accounts' = [u \in DOMAIN accounts \cup {lastAccount + 1} |->
                                 IF u \in DOMAIN accounts THEN accounts[u]
                                 ELSE [name |-> n, password |-> call[c].new]]
               /\ call' = [call EXCEPT ![c].step = "session", ![c].user = lastAccount + 1]
    BY <1>1, <2>1, <2>4, <2>5, Zenon
  <2> QED BY <1>6, <2>3, <2>5, Zenon DEF Pw!InsertAuthUser
<1>7. CASE Pw!IssueSession(c)
  <2>1. call[c].step = "session" /\ UNCHANGED <<accounts, lastAccount, taken, shown>>
    BY <1>7 DEF Pw!IssueSession
  <2>2. CASE Pw!GoesTo(c, "answer") /\ UNCHANGED unseen
    <3>1. /\ call' \in [Calls -> Call] /\ call'[c].step = "answer"
          /\ call'[c].new = call[c].new /\ call'[c].user = call[c].user
      BY <1>1, <2>2 DEF Pw!GoesTo
    <3>2. Pw!CallOK(c)'
      BY <1>3, <2>1, <3>1 DEF Pw!CallOK
    <3>3. ASSUME NEW u \in DOMAIN accounts
          PROVE  Known(accounts', shown', unseen', call', u)
      BY <1>2, <1>9, <2>1, <2>2, <3>1
    <3> HIDE DEF Known
    <3> QED BY <1>1, <2>1, <2>2, <3>1, <3>2, <3>3
  <2>3. CASE Pw!Ends(c) /\ unseen' = unseen \cup ({call[c].new} \cap Generated)
    <3>1. call' \in [Calls -> Call] /\ Pw!CallOK(c)'
      BY <1>1, <2>1, <2>3 DEF Pw!Ends, Pw!NoCall, Pw!CallOK
    <3>2. {call[c].new} \cap Generated \subseteq taken
      BY <1>3, <2>1 DEF Pw!CallOK
    <3>3. ASSUME NEW u \in DOMAIN accounts
          PROVE  Known(accounts', shown', unseen', call', u)
      BY <1>2, <1>9, <2>1, <2>3
    <3> HIDE DEF Known
    <3> QED BY <1>1, <2>1, <2>3, <3>1, <3>2, <3>3, Zenon
  <2> QED BY <1>7, <2>2, <2>3 DEF Pw!IssueSession
<1>8. CASE Pw!Answer(c)
  <2>1. /\ call[c].step = "answer" /\ UNCHANGED <<accounts, lastAccount, taken>>
        /\ Pw!Ends(c)
        /\ \/ shown' = shown \cup ({call[c].new} \cap Generated) /\ UNCHANGED unseen
           \/ unseen' = unseen \cup ({call[c].new} \cap Generated) /\ UNCHANGED shown
    BY <1>8 DEF Pw!Answer
  <2>2. call' \in [Calls -> Call] /\ Pw!CallOK(c)'
    BY <1>1, <2>1 DEF Pw!Ends, Pw!NoCall, Pw!CallOK
  <2>3. {call[c].new} \cap Generated \subseteq taken
    BY <1>3, <2>1 DEF Pw!CallOK
  <2>4. shown' \cup unseen' = shown \cup unseen \cup ({call[c].new} \cap Generated)
    BY <2>1
  <2>5. ASSUME NEW u \in DOMAIN accounts
        PROVE  Known(accounts', shown', unseen', call', u)
    BY <1>2, <1>9, <2>1, <2>4
  <2> HIDE DEF Known
  <2> QED BY <1>1, <2>1, <2>2, <2>3, <2>4, <2>5
<1> QED BY <1>4, <1>5, <1>6, <1>7, <1>8

\* The accounts are cleared by a command, or the calls are cut.
LEMMA PasswordsOthers ==
  ASSUME Pw!IInv, Pw!DisableCommand \/ Pw!Stop
  PROVE  Pw!IInv'
<1>0. Pw!TypeOK /\ Pw!PasswordsAreShown /\ \A d \in Calls : Pw!CallOK(d)
  BY DEF Pw!IInv
<1>1. CASE Pw!DisableCommand
  <2>1. /\ DOMAIN accounts' = {} /\ accounts' = [u \in {} |-> 0]
        /\ UNCHANGED <<lastAccount, call, taken, shown, unseen>>
    BY <1>1 DEF Pw!DisableCommand
  <2>2. Pw!TypeOK'
    BY <1>0, <2>1 DEF Pw!TypeOK
  <2>3. \A d \in Calls : Pw!CallOK(d)'
    BY <1>0, <2>1 DEF Pw!CallOK
  <2> QED BY <2>1, <2>2, <2>3 DEF Pw!IInv, Pw!PasswordsAreShown
<1>2. CASE Pw!Stop
  <2>1. PICK cut \in SUBSET Calls :
          /\ call' = [c \in Calls |-> IF c \in cut THEN Pw!NoCall ELSE call[c]]
          /\ unseen' = unseen \cup ({call[c].new : c \in
                         {c \in cut : call[c].step \in {"session", "answer"}}} \cap Generated)
    <3>1. PICK ops : LET cut == {c \in Calls : call[c].op \in ops} IN
            /\ call' = [c \in Calls |-> IF c \in cut THEN Pw!NoCall ELSE call[c]]
            /\ unseen' = unseen \cup ({call[c].new : c \in
                         {c \in cut : call[c].step \in {"session", "answer"}}} \cap Generated)
      BY <1>2 DEF Pw!Stop
    <3> QED BY <3>1, Zenon
  <2>2. UNCHANGED <<accounts, lastAccount, taken, shown>>
    BY <1>2 DEF Pw!Stop
  <2>3. \A d \in Calls : Pw!CallOK(d)'
    BY <1>0, <2>1, <2>2 DEF Pw!CallOK, Pw!NoCall
  <2>4. unseen' \subseteq taken
    BY <1>0, <2>1 DEF Pw!CallOK, Pw!TypeOK
  <2>5. Pw!TypeOK'
    <3>1. 0 \in 0..MaxUsers
      BY ConstantsAssumption
    <3> QED BY <1>0, <2>1, <2>2, <2>4, <3>1 DEF Pw!TypeOK, Pw!NoCall
  <2>6. Pw!PasswordsAreShown'
    <3> SUFFICES ASSUME NEW u \in DOMAIN accounts, accounts[u].password \in Generated
                 PROVE  \/ accounts[u].password \in shown \cup unseen'
                        \/ \E c \in Calls :
                             /\ call'[c].step \in {"session", "answer"}
                             /\ call'[c].user = u /\ call'[c].new = accounts[u].password
      BY <2>2 DEF Pw!PasswordsAreShown
    <3>1. CASE accounts[u].password \in shown \cup unseen
      BY <2>1, <3>1
    <3>2. CASE accounts[u].password \notin shown \cup unseen
      <4>1. PICK c \in Calls : /\ call[c].step \in {"session", "answer"}
                               /\ call[c].user = u /\ call[c].new = accounts[u].password
        BY <1>0, <3>2 DEF Pw!PasswordsAreShown
      <4>2. CASE c \in cut
        BY <2>1, <4>1, <4>2
      <4>3. CASE c \notin cut
        BY <2>1, <4>1, <4>3
      <4> QED BY <4>2, <4>3
    <3> QED BY <3>1, <3>2
  <2> QED BY <2>3, <2>5, <2>6 DEF Pw!IInv
<1> QED BY <1>1, <1>2

\* Whatever requests, commands and failures come together, a generated password
\* that is in force has been shown, or its answer is under way or was lost.
THEOREM PasswordsShown == DaemonSpec => []PasswordsAreShown
<1> DEFINE I == which = "passwords" => Pw!IInv
<1>1. DaemonInit => I
  BY PasswordsInit DEF DaemonInit
<1>2. I /\ [DaemonNext]_allVars => I'
  <2> SUFFICES ASSUME I, [DaemonNext]_allVars, which' = "passwords" PROVE Pw!IInv'
    OBVIOUS
  <2>1. CASE UNCHANGED allVars
    <3>1. Pw!IInv /\ UNCHANGED <<accounts, lastAccount, call, taken, shown, unseen>>
      BY <2>1 DEF allVars, ofPasswords
    <3> QED BY <3>1 DEF Pw!IInv, Pw!TypeOK, Pw!PasswordsAreShown, Pw!CallOK
  <2>2. CASE DaemonNext
    <3>1. Pw!IInv /\ Pw!Next
      BY <2>2 DEF DaemonNext
    <3> QED BY <3>1, PasswordsCall, PasswordsStep, PasswordsOthers DEF Pw!Next
  <2> QED BY <2>1, <2>2
<1>3. I => PasswordsAreShown
  BY DEF PasswordsAreShown, Pw!IInv
<1> QED BY <1>1, <1>2, <1>3, PTL DEF DaemonSpec

-----------------------------------------------------------------------------
\* The connections.

\* What a table holds when it is read, seeded or edited are connections that load.
LEMMA OverLoads ==
  ASSUME NEW f, NEW g, Co!IsConnections(f), Co!IsConnections(g)
  PROVE  /\ Co!IsConnections(Co!Over(f, g))
         /\ Co!Validate(f) /\ Co!Validate(g) => Co!Validate(Co!Over(f, g))
  BY DEF Co!IsConnections, Co!Over, Co!Validate

\* The rows of the YAML load, as the YAML does.
LEMMA FlattenLoads ==
  /\ Co!IsConnections(Co!FlattenArrs) /\ Co!Validate(Co!FlattenArrs)
  /\ Co!IsConnections(Co!FlattenTorrentClients) /\ Co!Validate(Co!FlattenTorrentClients)
  /\ \A t : Co!IsConnections(Co!Flatten(t)) /\ Co!Validate(Co!Flatten(t))
<1>1. /\ Co!IsConnections(Co!FlattenArrs) /\ Co!Validate(Co!FlattenArrs)
      /\ Co!IsConnections(Co!FlattenTorrentClients) /\ Co!Validate(Co!FlattenTorrentClients)
  BY ConnectionsAssumption
     DEF Co!IsConnections, Co!Validate, Co!FlattenArrs, Co!FlattenTorrentClients
<1> QED BY <1>1 DEF Co!Flatten

\* What passes the checks of the configuration passes those of the constructors.
LEMMA ValidBuilds ==
  ASSUME NEW f, Co!IsConnections(f), Co!Validate(f)
  PROVE  Co!Builds(f)
<1>1. /\ \A k \in DOMAIN f : Co!Loads(k, f[k])
      /\ DOMAIN f \subseteq ArrKinds \cup TorrentKinds
  BY DEF Co!IsConnections, Co!Validate, Co!Kinds
<1>2. \A k \in DOMAIN f \cap ArrKinds :
        f[k].enabled => f[k].url # Co!Blank /\ f[k].secret # Co!Blank
  BY <1>1 DEF Co!Loads
<1>3. \A k \in DOMAIN f \cap TorrentKinds :
        f[k].enabled => f[k].url # Co!Blank /\ k \in Implemented
  BY <1>1 DEF Co!Loads
<1>4. Implemented \subseteq TorrentKinds
  BY ConnectionsAssumption
<1> QED BY <1>2, <1>3, <1>4 DEF Co!Builds

\* What a reload makes of connections that pass the checks passes them.
LEMMA MergedLoads ==
  ASSUME Co!IsConnections(rows), Co!Validate(rows), Co!IsConnections(config), Co!Validate(config)
  PROVE  Co!IsConnections(Co!Merged) /\ Co!Validate(Co!Merged)
<1> DEFINE kinds == Co!KindsOfTable[at]
           other == [k \in DOMAIN config \ kinds |-> config[k]]
<1>1. /\ Co!IsConnections(other) /\ Co!Validate(other)
      /\ Co!IsConnections(Co!OfTable(kinds, rows)) /\ Co!Validate(Co!OfTable(kinds, rows))
  BY DEF Co!IsConnections, Co!Validate, Co!OfTable
<1>2. Co!Merged = Co!Over(other, Co!OfTable(kinds, rows))
  BY DEF Co!Merged
<1> HIDE DEF other, kinds
<1> QED BY <1>1, <1>2, OverLoads

\* The tables have the rows of the YAML, and nobody is at work.
LEMMA ConnectionsInit == Co!Init => Co!IInv
<1> SUFFICES ASSUME Co!Init PROVE Co!IInv
  OBVIOUS
<1>1. Co!IsConnections(rows) /\ Co!Validate(rows)
  BY OverLoads, FlattenLoads DEF Co!Init
<1>2. Co!TypeOK
  <2>1. 0 \in 0..MaxRequests /\ 0 \in 0..2
    BY ConnectionsAssumption
  <2>2. reloading \in BOOLEAN
    BY Zenon DEF Co!Init
  <2> QED BY <1>1, <2>1, <2>2, ConnectionsAssumption DEF Co!Init, Co!TypeOK, Co!NoRequest
<1>3. \A c \in Clients : Co!WriteOK(c)
  BY DEF Co!Init, Co!WriteOK, Co!NoRequest
<1>4. Co!Validate(config)
  BY ConnectionsAssumption DEF Co!Init
<1> QED BY <1>1, <1>2, <1>3, <1>4 DEF Co!IInv

\* What the API accepts loads.
LEMMA AcceptedLoads ==
  ASSUME NEW k \in Co!Kinds, NEW conn, Co!CheckKind(k), Co!ValidInput(k, conn)
  PROVE  Co!Loads(k, conn)
  BY ConnectionsAssumption
     DEF Co!Kinds, Co!CheckKind, Co!ValidInput, Co!ValidArr, Co!ValidTorrentClient, Co!Loads,
         Co!Blank

\* The first step of a save.
LEMMA ConnectionsSave ==
  ASSUME Co!IInv, NEW c \in Clients, Co!Save(c)
  PROVE  Co!IInv'
<1>0. /\ Co!TypeOK /\ Co!Validate(rows) /\ Co!Validate(config)
      /\ \A d \in Clients : Co!WriteOK(d)
  BY DEF Co!IInv
<1>1. /\ UNCHANGED <<rows, reloading, mpc, at, config, engine>>
      /\ saves[c].at = "idle" /\ requests < MaxRequests /\ requests' = requests + 1
  BY DEF Co!Save, Co!Begin, Co!main
<1>2. requests' \in 0..MaxRequests
  BY <1>0, <1>1, ConnectionsAssumption DEF Co!TypeOK
<1>3. PICK k \in Co!Kinds, in \in Inputs, blind \in BOOLEAN :
        LET conn == IF blind THEN in ELSE Co!CarryForward(k, in)
        IN  IF Co!CheckKind(k) /\ Co!ValidInput(k, conn)
            THEN saves' = [saves EXCEPT ![c] =
                   [at |-> "write", kind |-> k, conn |-> conn,
                    blank |-> in.secret = Co!Blank,
                    blind |-> blind, before |-> {Co!SecretOf(k)}]]
            ELSE UNCHANGED saves
  BY DEF Co!Save
<1> DEFINE conn == IF blind THEN in ELSE Co!CarryForward(k, in)
           new == [at |-> "write", kind |-> k, conn |-> conn, blank |-> in.secret = Co!Blank,
                   blind |-> blind, before |-> {Co!SecretOf(k)}]
<1>4. CASE UNCHANGED saves
  BY <1>0, <1>1, <1>2, <1>4
     DEF Co!IInv, Co!TypeOK, Co!Validate, Co!WriteOK
<1>5. CASE Co!CheckKind(k) /\ Co!ValidInput(k, conn) /\ saves' = [saves EXCEPT ![c] = new]
  <2>1. Co!IsConnection(conn)
    BY ConnectionsAssumption DEF Co!CarryForward, Co!Kept, Co!IsConnection
  <2>2. ~blind /\ in.secret = Co!Blank => conn.secret \in {Co!SecretOf(k)}
    BY ConnectionsAssumption DEF Co!CarryForward, Co!Kept, Co!SecretOf, Co!IsConnection
  <2>3. Co!Loads(k, conn)
    BY <1>5, AcceptedLoads
  <2> HIDE DEF conn
  <2>4. /\ DOMAIN new = {"at", "kind", "conn", "blank", "blind", "before"}
        /\ new.at = "write" /\ new.kind = k /\ new.conn = conn
        /\ new.before = {Co!SecretOf(k)}
    OBVIOUS
  <2>5. new.blank /\ ~new.blind => ~blind /\ in.secret = Co!Blank
    OBVIOUS
  <2> HIDE DEF new
  <2>6. /\ DOMAIN saves' = Clients /\ saves'[c] = new
        /\ \A d \in Clients : d # c => saves'[d] = saves[d]
    BY <1>0, <1>5 DEF Co!TypeOK
  <2>7. ASSUME NEW d \in Clients
        PROVE  /\ DOMAIN saves'[d] = {"at", "kind", "conn", "blank", "blind", "before"}
               /\ saves'[d].at \in {"idle", "write", "readback"}
               /\ saves'[d].at = "write" =>
                    saves'[d].kind \in Co!Kinds /\ Co!IsConnection(saves'[d].conn)
               /\ Co!WriteOK(d)'
    <3>1. CASE d = c
      BY <2>1, <2>2, <2>3, <2>4, <2>5, <2>6, <3>1 DEF Co!WriteOK
    <3>2. CASE d # c
      BY <1>0, <2>6, <3>2 DEF Co!WriteOK, Co!TypeOK
    <3> QED BY <3>1, <3>2
  <2>8. Co!TypeOK'
    BY <1>0, <1>1, <1>2, <2>6, <2>7 DEF Co!TypeOK
  <2> QED BY <1>0, <1>1, <2>7, <2>8 DEF Co!IInv, Co!Validate
<1> QED BY <1>3, <1>4, <1>5

\* The requests: one ends or goes on, or learns of a secret more.
LEMMA ConnectionsRequests ==
  ASSUME Co!TypeOK, \A c \in Clients : Co!WriteOK(c), DOMAIN saves' = Clients,
         \A c \in Clients :
           \/ saves'[c] = saves[c] \/ saves'[c] = Co!NoRequest
           \/ DOMAIN saves'[c] = DOMAIN saves[c] /\ saves'[c].at = "readback"
           \/ \E secret : saves'[c] = [saves[c] EXCEPT !.before = @ \cup {secret}]
  PROVE  /\ \A c \in Clients :
              /\ DOMAIN saves'[c] = {"at", "kind", "conn", "blank", "blind", "before"}
              /\ saves'[c].at \in {"idle", "write", "readback"}
              /\ saves'[c].at = "write" =>
                   saves'[c].kind \in Co!Kinds /\ Co!IsConnection(saves'[c].conn)
         /\ \A c \in Clients : Co!WriteOK(c)'
<1> SUFFICES ASSUME NEW c \in Clients
             PROVE  /\ DOMAIN saves'[c] = {"at", "kind", "conn", "blank", "blind", "before"}
                    /\ saves'[c].at \in {"idle", "write", "readback"}
                    /\ saves'[c].at = "write" =>
                         saves'[c].kind \in Co!Kinds /\ Co!IsConnection(saves'[c].conn)
                    /\ Co!WriteOK(c)'
  OBVIOUS
<1>0. /\ DOMAIN saves[c] = {"at", "kind", "conn", "blank", "blind", "before"}
      /\ saves[c].at \in {"idle", "write", "readback"}
      /\ saves[c].at = "write" =>
           saves[c].kind \in Co!Kinds /\ Co!IsConnection(saves[c].conn)
      /\ Co!WriteOK(c)
  BY DEF Co!TypeOK
<1>1. CASE saves'[c] = saves[c]
  BY <1>0, <1>1 DEF Co!WriteOK
<1>2. CASE saves'[c] = Co!NoRequest
  BY <1>2 DEF Co!WriteOK, Co!NoRequest
<1>3. CASE DOMAIN saves'[c] = DOMAIN saves[c] /\ saves'[c].at = "readback"
  BY <1>0, <1>3 DEF Co!WriteOK
<1>4. CASE \E secret : saves'[c] = [saves[c] EXCEPT !.before = @ \cup {secret}]
  <2>1. /\ DOMAIN saves'[c] = DOMAIN saves[c] /\ saves'[c].at = saves[c].at
        /\ saves'[c].kind = saves[c].kind /\ saves'[c].conn = saves[c].conn
        /\ saves'[c].blank = saves[c].blank /\ saves'[c].blind = saves[c].blind
        /\ saves[c].before \subseteq saves'[c].before
    BY <1>0, <1>4
  <2> QED BY <1>0, <2>1 DEF Co!WriteOK
<1> QED BY <1>1, <1>2, <1>3, <1>4, Zenon

\* The write, the answer and the deletion.
LEMMA ConnectionsClientStep ==
  ASSUME Co!IInv, NEW c \in Clients, Co!Upsert(c) \/ Co!ReadBack(c) \/ Co!Delete(c)
  PROVE  Co!IInv'
<1>0. /\ Co!TypeOK /\ Co!Validate(rows) /\ Co!Validate(config)
      /\ \A d \in Clients : Co!WriteOK(d)
  BY DEF Co!IInv
<1>1. UNCHANGED <<mpc, at, config, engine>>
  BY Zenon DEF Co!Upsert, Co!ReadBack, Co!Delete, Co!main
<1>2. requests' \in 0..MaxRequests
  <2>1. UNCHANGED requests \/ (requests < MaxRequests /\ requests' = requests + 1)
    BY Zenon DEF Co!Upsert, Co!ReadBack, Co!Delete, Co!Begin
  <2>2. requests \in 0..MaxRequests /\ MaxRequests \in Nat
    BY <1>0, ConnectionsAssumption DEF Co!TypeOK
  <2> QED BY <2>1, <2>2
<1>3. reloading' \in BOOLEAN
  <2>1. CASE UNCHANGED reloading
    BY <1>0, <2>1 DEF Co!TypeOK
  <2>2. CASE Co!ReadBack(c)
    BY <1>0, <2>2, Zenon DEF Co!ReadBack, Co!TypeOK
  <2>3. CASE Co!Delete(c)
    BY <1>0, <2>3, Zenon DEF Co!Delete, Co!TypeOK
  <2> QED BY <2>1, <2>2, <2>3 DEF Co!Upsert
<1>4. /\ DOMAIN saves = Clients
      /\ \A d \in Clients :
           DOMAIN saves[d] = {"at", "kind", "conn", "blank", "blind", "before"}
  BY <1>0 DEF Co!TypeOK
<1>5. /\ Co!IsConnections(rows') /\ Co!Validate(rows')
      /\ DOMAIN saves' = Clients
      /\ \A d \in Clients :
           \/ saves'[d] = saves[d] \/ saves'[d] = Co!NoRequest
           \/ DOMAIN saves'[d] = DOMAIN saves[d] /\ saves'[d].at = "readback"
           \/ \E secret : saves'[d] = [saves[d] EXCEPT !.before = @ \cup {secret}]
  <2>0. Co!IsConnections(rows) /\ Co!Validate(rows)
    BY <1>0 DEF Co!TypeOK
  <2>1. CASE Co!Upsert(c)
    <3>1. CASE saves' = [saves EXCEPT ![c] = Co!NoRequest] /\ UNCHANGED rows
      BY <1>4, <2>0, <3>1
    <3>2. CASE /\ rows' = Co!Over([k \in {saves[c].kind} |-> saves[c].conn], rows)
               /\ saves' = [Co!Seen(saves[c].kind, saves[c].conn.secret)
                              EXCEPT ![c].at = "readback"]
      <4> DEFINE k == saves[c].kind
                 secret == saves[c].conn.secret
                 seen == Co!Seen(k, secret)
      <4>1. saves[c].at = "write"
        BY <2>1 DEF Co!Upsert
      <4>2. /\ Co!IsConnection(saves[c].conn) /\ k \in Co!Kinds /\ Co!Loads(k, saves[c].conn)
        BY <1>0, <4>1 DEF Co!TypeOK, Co!WriteOK
      <4>3. /\ Co!IsConnections([j \in {k} |-> saves[c].conn])
            /\ Co!Validate([j \in {k} |-> saves[c].conn])
        BY <4>2 DEF Co!IsConnections, Co!Validate
      <4>4. Co!IsConnections(rows') /\ Co!Validate(rows')
        BY <2>0, <3>2, <4>3, OverLoads
      <4>5. /\ DOMAIN seen = Clients
            /\ \A d \in Clients :
                 \/ seen[d] = saves[d]
                 \/ seen[d] = [saves[d] EXCEPT !.before = @ \cup {secret}]
        BY DEF Co!Seen
      <4>6. \A d \in Clients : DOMAIN seen[d] = DOMAIN saves[d]
        BY <4>5, Zenon
      <4> HIDE DEF seen, secret
      <4>7. saves' = [seen EXCEPT ![c].at = "readback"]
        BY <3>2 DEF seen, secret
      <4>8. /\ DOMAIN saves' = Clients
            /\ DOMAIN saves'[c] = DOMAIN saves[c] /\ saves'[c].at = "readback"
            /\ \A d \in Clients : d # c => saves'[d] = seen[d]
        BY <1>4, <4>5, <4>6, <4>7
      <4> QED BY <4>4, <4>5, <4>8, Zenon
    <3> QED BY <2>1, <3>1, <3>2 DEF Co!Upsert
  <2>2. CASE Co!ReadBack(c)
    BY <1>4, <2>0, <2>2 DEF Co!ReadBack
  <2>3. CASE Co!Delete(c)
    <3>1. PICK k \in DOMAIN rows : rows' = Co!Without(k, rows) /\ saves' = Co!Seen(k, Co!Blank)
      BY <2>3 DEF Co!Delete
    <3>2. Co!IsConnections(rows') /\ Co!Validate(rows')
      BY <2>0, <3>1 DEF Co!Without, Co!IsConnections, Co!Validate
    <3> QED BY <3>1, <3>2, Zenon DEF Co!Seen
  <2> QED BY <2>1, <2>2, <2>3, Zenon
<1>6. Co!TypeOK' /\ \A d \in Clients : Co!WriteOK(d)'
  <2>1. /\ \A d \in Clients :
              /\ DOMAIN saves'[d] = {"at", "kind", "conn", "blank", "blind", "before"}
              /\ saves'[d].at \in {"idle", "write", "readback"}
              /\ saves'[d].at = "write" =>
                   saves'[d].kind \in Co!Kinds /\ Co!IsConnection(saves'[d].conn)
        /\ \A d \in Clients : Co!WriteOK(d)'
    BY <1>0, <1>5, ConnectionsRequests, Zenon
  <2> QED BY <1>0, <1>1, <1>2, <1>3, <1>5, <2>1 DEF Co!TypeOK
<1>7. Co!Validate(config')
  BY <1>0, <1>1
<1> QED BY <1>5, <1>6, <1>7 DEF Co!IInv

\* The reload, of which only the seed writes; its rows load as the YAML does.
LEMMA ConnectionsMainStep ==
  ASSUME Co!IInv,
         \/ Co!StartReload \/ Co!Count \/ Co!Seed \/ Co!List \/ Co!Build
         \/ Co!PreflightRefuses \/ Co!ReloadFails \/ Co!Sighup
  PROVE  Co!IInv'
<1>0. /\ Co!TypeOK /\ Co!Validate(rows) /\ Co!Validate(config)
      /\ \A d \in Clients : Co!WriteOK(d)
  BY DEF Co!IInv
<1>1. /\ DOMAIN saves = Clients /\ Co!IsConnections(rows) /\ Co!Validate(rows)
      /\ Co!IsConnections(config) /\ Co!IsConnections(engine)
      /\ Co!Validate(config)
      /\ requests \in 0..MaxRequests /\ mpc \in {"idle", "count", "seed", "list", "build"}
      /\ at \in 0..2 /\ (mpc = "idle" <=> at = 0)
  BY <1>0 DEF Co!TypeOK
<1>2. UNCHANGED requests
  BY DEF Co!StartReload, Co!Count, Co!Seed, Co!List, Co!Build, Co!PreflightRefuses,
         Co!ReloadFails, Co!Sighup
<1>3. reloading' \in BOOLEAN
  <2>1. reloading' = reloading \/ reloading' = TRUE \/ reloading' = FALSE
    BY DEF Co!StartReload, Co!Count, Co!Seed, Co!List, Co!Build, Co!PreflightRefuses,
           Co!ReloadFails, Co!Sighup
  <2> QED BY <1>0, <2>1, Zenon DEF Co!TypeOK
<1>4. /\ mpc' \in {"idle", "count", "seed", "list", "build"} /\ at' \in 0..2
      /\ (mpc' = "idle" <=> at' = 0)
  <2>1. CASE Co!List
    <3>1. \/ mpc' = "idle" /\ at' = 0
          \/ mpc' = "count" /\ at' = 2
          \/ mpc' = "build" /\ at' = at /\ mpc = "list"
      BY <2>1 DEF Co!List, Co!Abandon
    <3> QED BY <1>1, <3>1
  <2>2. CASE Co!Seed
    BY <1>1, <2>2 DEF Co!Seed, Co!Abandon
  <2>3. CASE \/ Co!StartReload \/ Co!Count \/ Co!Build \/ Co!PreflightRefuses
             \/ Co!ReloadFails \/ Co!Sighup
    BY <1>1, <2>3
       DEF Co!StartReload, Co!Count, Co!Build, Co!PreflightRefuses, Co!ReloadFails, Co!Sighup,
           Co!Abandon, Co!main
  <2> QED BY <2>1, <2>2, <2>3
<1>5. Co!IsConnections(config') /\ Co!Validate(config') /\ Co!IsConnections(engine')
  <2>1. \/ config' = config \/ config' = Yaml
        \/ config' = Co!Merged
    BY DEF Co!StartReload, Co!Count, Co!Seed, Co!List, Co!Build, Co!PreflightRefuses,
           Co!ReloadFails, Co!Sighup, Co!Abandon, Co!main
  <2>2. engine' = engine \/ engine' = config
    BY DEF Co!StartReload, Co!Count, Co!Seed, Co!List, Co!Build, Co!PreflightRefuses,
           Co!ReloadFails, Co!Sighup, Co!Abandon, Co!main
  <2>3. Co!IsConnections(Co!Merged) /\ Co!Validate(Co!Merged)
    BY <1>1, MergedLoads
  <2> QED BY <1>1, <2>1, <2>2, <2>3, ConnectionsAssumption, Zenon
<1>6. /\ Co!IsConnections(rows') /\ Co!Validate(rows')
      /\ DOMAIN saves' = Clients
      /\ \A d \in Clients :
           \/ saves'[d] = saves[d] \/ saves'[d] = Co!NoRequest
           \/ DOMAIN saves'[d] = DOMAIN saves[d] /\ saves'[d].at = "readback"
           \/ \E secret : saves'[d] = [saves[d] EXCEPT !.before = @ \cup {secret}]
  <2>1. CASE UNCHANGED <<rows, saves>>
    BY <1>1, <2>1
  <2>2. CASE \E new : /\ new = Co!Flatten(Co!KindsOfTable[at])
                      /\ rows' = Co!Over(rows, new)
                      /\ saves' = [c \in Clients |->
                           IF saves[c].at = "write" /\ saves[c].kind \in DOMAIN new
                           THEN [saves[c] EXCEPT !.before = @ \cup {new[saves[c].kind].secret}]
                           ELSE saves[c]]
    <3>1. Co!IsConnections(rows') /\ Co!Validate(rows')
      BY <1>1, <2>2, OverLoads, FlattenLoads
    <3> QED BY <2>2, <3>1, Zenon
  <2> QED
    BY <2>1, <2>2, Zenon
       DEF Co!StartReload, Co!Count, Co!Seed, Co!List, Co!Build, Co!PreflightRefuses,
           Co!ReloadFails, Co!Sighup
<1>7. Co!TypeOK' /\ \A d \in Clients : Co!WriteOK(d)'
  <2>1. /\ \A d \in Clients :
              /\ DOMAIN saves'[d] = {"at", "kind", "conn", "blank", "blind", "before"}
              /\ saves'[d].at \in {"idle", "write", "readback"}
              /\ saves'[d].at = "write" =>
                   saves'[d].kind \in Co!Kinds /\ Co!IsConnection(saves'[d].conn)
        /\ \A d \in Clients : Co!WriteOK(d)'
    BY <1>0, <1>6, ConnectionsRequests, Zenon
  <2> QED BY <1>1, <1>2, <1>3, <1>4, <1>5, <1>6, <2>1 DEF Co!TypeOK
<1> QED BY <1>5, <1>6, <1>7 DEF Co!IInv

\* The invariant of the connections holds.
LEMMA ConnectionsInvariant == DaemonSpec => [](which = "connections" => Co!IInv)
<1> DEFINE I == which = "connections" => Co!IInv
<1>1. DaemonInit => I
  BY ConnectionsInit DEF DaemonInit
<1>2. I /\ [DaemonNext]_allVars => I'
  <2> SUFFICES ASSUME I, [DaemonNext]_allVars, which' = "connections" PROVE Co!IInv'
    OBVIOUS
  <2>1. CASE UNCHANGED allVars
    <3>1. Co!IInv /\ UNCHANGED <<rows, requests, saves, reloading, mpc, at, config, engine>>
      BY <2>1 DEF allVars, shared, ofConnections
    <3> QED
      BY <3>1 DEF Co!IInv, Co!TypeOK, Co!WriteOK, Co!Validate,
         Co!IsConnections
  <2>2. CASE DaemonNext
    <3>1. Co!IInv /\ Co!Next
      BY <2>2 DEF DaemonNext
    <3>2. CASE \E c \in Clients :
                 Co!Save(c) \/ Co!Upsert(c) \/ Co!ReadBack(c) \/ Co!Delete(c)
      BY <3>1, <3>2, ConnectionsSave, ConnectionsClientStep
    <3> QED BY <3>1, <3>2, ConnectionsMainStep DEF Co!Next
  <2> QED BY <2>1, <2>2
<1> QED BY <1>1, <1>2, PTL DEF DaemonSpec

\* What the API has accepted, and what a reload makes of it, passes the checks of the
\* configuration and of the clients' constructors: before its preflight, nothing but a
\* failing statement keeps the daemon from reloading or from its next start.
THEOREM ConnectionsPass == DaemonSpec => []StoredConnectionsPass
<1>1. Co!IInv => Co!StoredConnectionsPass
  <2> SUFFICES ASSUME Co!IInv PROVE Co!StoredConnectionsPass
    OBVIOUS
  <2>1. /\ Co!IsConnections(rows) /\ Co!Validate(rows)
        /\ Co!IsConnections(config) /\ Co!Validate(config)
    BY DEF Co!IInv, Co!TypeOK
  <2>2. Co!Builds(rows) /\ Co!Builds(config) /\ Co!Validate(Co!Merged)
    BY <2>1, ValidBuilds, MergedLoads
  <2> QED BY <2>1, <2>2 DEF Co!StoredConnectionsPass
<1>2. (which = "connections" => Co!IInv) => StoredConnectionsPass
  BY <1>1 DEF StoredConnectionsPass
<1> QED BY <1>2, ConnectionsInvariant, PTL

\* A save that leaves the secret blank stores one that the kind has had while the
\* request was under way, whatever other requests and reloads come in between.
THEOREM SecretsAreKept == DaemonSpec => BlankKeepsSecret
<1> DEFINE I == which = "connections" => Co!IInv
<1>1. I /\ [DaemonNext]_allVars => [which = "connections" => Co!BlankKeepsSecret]_allVars
  <2> SUFFICES ASSUME I, DaemonNext, which = "connections" PROVE Co!BlankKeepsSecret
    OBVIOUS
  <2>1. Co!IInv /\ Co!Next
    BY DEF DaemonNext
  <2>2. Co!TypeOK /\ \A c \in Clients : Co!WriteOK(c)
    BY <2>1 DEF Co!IInv
  <2> SUFFICES ASSUME NEW c \in Clients, saves[c].at = "write", saves'[c].at = "readback",
                      saves[c].blank, ~saves[c].blind
               PROVE  rows'[saves[c].kind].secret \in saves[c].before
    BY DEF Co!BlankKeepsSecret
  <2>3. CASE Co!Upsert(c)
    <3>1. CASE rows' = Co!Over([k \in {saves[c].kind} |-> saves[c].conn], rows)
      <4>1. rows'[saves[c].kind] = saves[c].conn
        BY <3>1 DEF Co!Over
      <4> QED BY <2>2, <4>1 DEF Co!WriteOK
    <3>2. CASE saves' = [saves EXCEPT ![c] = Co!NoRequest]
      BY <2>2, <3>2 DEF Co!NoRequest, Co!TypeOK
    <3> QED BY <2>3, <3>1, <3>2 DEF Co!Upsert
  <2>4. CASE ~Co!Upsert(c)
    <3>1. DOMAIN saves = Clients
      BY <2>2 DEF Co!TypeOK
    <3>2. ASSUME NEW d \in Clients, d # c, Co!Save(d) \/ Co!Upsert(d) \/ Co!ReadBack(d)
          PROVE  saves'[c].at = saves[c].at
      <4>1. \A e \in Clients : DOMAIN saves[e] = {"at", "kind", "conn", "blank", "blind", "before"}
        BY <2>2 DEF Co!TypeOK
      <4>2. CASE Co!Upsert(d)
        <5> DEFINE seen == Co!Seen(saves[d].kind, saves[d].conn.secret)
        <5>1. DOMAIN seen = Clients /\ seen[c].at = saves[c].at
          BY <4>1 DEF Co!Seen
        <5> HIDE DEF seen
        <5>2. \/ saves' = [seen EXCEPT ![d].at = "readback"]
              \/ saves' = [saves EXCEPT ![d] = Co!NoRequest]
          BY <4>2 DEF Co!Upsert, seen
        <5> QED BY <3>1, <3>2, <5>1, <5>2
      <4>3. CASE Co!Save(d)
        BY <3>1, <3>2, <4>3 DEF Co!Save
      <4>4. CASE Co!ReadBack(d)
        BY <3>1, <3>2, <4>4 DEF Co!ReadBack
      <4> QED BY <3>2, <4>2, <4>3, <4>4
    <3>3. ~Co!Save(c) /\ ~Co!ReadBack(c)
      BY DEF Co!Save, Co!Begin, Co!ReadBack
    <3>4. CASE \E d \in Clients : Co!Delete(d)
      <4>1. \A e \in Clients : DOMAIN saves[e] = {"at", "kind", "conn", "blank", "blind", "before"}
        BY <2>2 DEF Co!TypeOK
      <4> QED BY <3>4, <4>1 DEF Co!Delete, Co!Seen
    <3>5. CASE \/ Co!StartReload \/ Co!Count \/ Co!Seed \/ Co!List \/ Co!Build
               \/ Co!PreflightRefuses \/ Co!ReloadFails \/ Co!Sighup
      <4>1. \A e \in Clients : DOMAIN saves[e] = {"at", "kind", "conn", "blank", "blind", "before"}
        BY <2>2 DEF Co!TypeOK
      <4>2. CASE Co!Seed
        BY <4>1, <4>2 DEF Co!Seed
      <4> QED
        BY <3>5, <4>2
           DEF Co!StartReload, Co!Count, Co!List, Co!Build, Co!PreflightRefuses,
               Co!ReloadFails, Co!Sighup
    <3> QED BY <2>1, <2>4, <3>2, <3>3, <3>4, <3>5 DEF Co!Next
  <2> QED BY <2>3, <2>4
<1> QED BY <1>1, ConnectionsInvariant, PTL DEF DaemonSpec, BlankKeepsSecret

-----------------------------------------------------------------------------
\* The settings.

\* What is left of a list that is not empty.
LEMMA TailOfList ==
  ASSUME NEW S, NEW s \in Seq(S), s # <<>>
  PROVE  /\ <<>> \in Seq(S) /\ Tail(s) \in Seq(S) /\ Head(s) \in S
         /\ Len(s) = 1 <=> Tail(s) = <<>>
<1>1. /\ Tail(s) \in Seq(S) /\ Head(s) \in S /\ Len(Tail(s)) = Len(s) - 1 /\ Len(s) \in Nat
  BY HeadTailProperties, LenProperties
<1>2. Tail(s) = <<>> => Len(s) = 1
  BY <1>1
<1>3. Tail(s) # <<>> => Len(Tail(s)) # 0
  BY <1>1, EmptySeq
<1> QED BY <1>1, <1>2, <1>3, EmptySeq

\* The requests and the steps of their handlers preserve the types.
LEMMA SettingsHandlersTypeOK ==
  ASSUME St!TypeOK, NEW c \in Clients,
         \/ St!PutSettings(c) \/ St!WriteEntry(c) \/ St!DeleteSetting(c)
         \/ St!UpsertConnection(c) \/ St!DeleteConnection(c) \/ St!Ask(c) \/ St!Leave(c)
  PROVE  St!TypeOK'
<1> DEFINE Entry == [key : St!Keys, value : Nat]
           Hpc == {"idle", "write", "ask", "wait"}
           Reply == {"none", "ok", "refused", "error"}
           Rows == [St!ToSet(Tables) -> {St!NoRow, "yaml", "api"}]
<1>1. UNCHANGED <<yaml, edits, hup, mpc, serving, tables, loading, engine>>
  BY DEF St!PutSettings, St!WriteEntry, St!DeleteSetting, St!UpsertConnection,
     St!DeleteConnection, St!Ask, St!Leave, St!file, St!main, St!channels
<1>2. /\ requests' \in 0..MaxRequests /\ ticket' \in [Clients -> 0..MaxRequests]
  <2>1. \/ UNCHANGED <<requests, ticket>>
        \/ /\ requests < MaxRequests /\ requests' = requests + 1
           /\ ticket' = [ticket EXCEPT ![c] = requests + 1]
    BY DEF St!PutSettings, St!WriteEntry, St!DeleteSetting, St!UpsertConnection,
       St!DeleteConnection, St!Ask, St!Leave, St!Begin
  <2>2. requests \in 0..MaxRequests /\ MaxRequests \in Nat /\ ticket \in [Clients -> 0..MaxRequests]
    BY SettingsAssumption DEF St!TypeOK
  <2>3. requests < MaxRequests => requests + 1 \in 0..MaxRequests
    BY <2>2
  <2> QED BY <2>1, <2>2, <2>3
<1>3. /\ writes' \in Nat /\ wrote' \in [Clients -> Nat]
  <2>1. \/ UNCHANGED <<writes, wrote>>
        \/ writes' = writes + 1 /\ wrote' = [wrote EXCEPT ![c] = writes + 1]
    BY DEF St!PutSettings, St!WriteEntry, St!DeleteSetting, St!UpsertConnection,
       St!DeleteConnection, St!Ask, St!Leave, St!Wrote, St!history
  <2>2. writes \in Nat /\ wrote \in [Clients -> Nat] /\ writes + 1 \in Nat
    BY DEF St!TypeOK
  <2> QED BY <2>1, <2>2
<1>4. spoiled' \in BOOLEAN
  <2>1. spoiled' = spoiled \/ spoiled' = TRUE \/ spoiled' = FALSE
    BY DEF St!PutSettings, St!WriteEntry, St!DeleteSetting, St!UpsertConnection,
       St!DeleteConnection, St!Ask, St!Leave, St!history
  <2> QED BY <2>1, Zenon DEF St!TypeOK
<1>5. rows' \in Rows
  <2>1. rows \in Rows
    BY DEF St!TypeOK
  <2>2. CASE St!UpsertConnection(c)
    BY <2>1, <2>2 DEF St!UpsertConnection
  <2>3. CASE St!DeleteConnection(c)
    BY <2>1, <2>3 DEF St!DeleteConnection
  <2> QED
    BY <2>1, <2>2, <2>3 DEF St!PutSettings, St!WriteEntry, St!DeleteSetting, St!Ask, St!Leave,
       St!store
<1>6. queue' \in Seq(Nat) /\ Len(queue') <= 1
  <2>1. queue' = queue \/ queue' = <<ticket[c]>>
    BY DEF St!PutSettings, St!WriteEntry, St!DeleteSetting, St!UpsertConnection,
       St!DeleteConnection, St!Ask, St!Leave, St!channels
  <2>2. /\ queue \in Seq(Nat) /\ Len(queue) <= 1 /\ ticket[c] \in Nat
    BY SettingsAssumption DEF St!TypeOK
  <2>3. <<ticket[c]>> \in Seq(Nat) /\ Len(<<ticket[c]>>) <= 1
    BY <2>2
  <2> QED BY <2>1, <2>2, <2>3, Zenon
<1>7. /\ hpc' \in [Clients -> Hpc] /\ reply' \in [Clients -> Reply]
      /\ body' \in [Clients -> Seq(Entry)]
      /\ \A d \in Clients : hpc'[d] = "write" <=> body'[d] # <<>>
  <2>0. /\ hpc \in [Clients -> Hpc] /\ reply \in [Clients -> Reply]
        /\ body \in [Clients -> Seq(Entry)]
        /\ \A d \in Clients : hpc[d] = "write" <=> body[d] # <<>>
    BY Zenon DEF St!TypeOK
  <2> HIDE DEF Entry
  <2>1. CASE St!PutSettings(c)
    <3>1. PICK b \in Bodies :
            \/ St!GoesOn(c, "write") /\ body' = [body EXCEPT ![c] = b]
            \/ St!Answer(c, "refused") /\ UNCHANGED body
      BY <2>1 DEF St!PutSettings
    <3>2. b \in Seq(Entry) /\ b # <<>>
      BY SettingsAssumption, Zenon DEF Entry
    <3>3. hpc[c] = "idle"
      BY <2>1 DEF St!PutSettings, St!Begin
    <3> QED BY <2>0, <3>1, <3>2, <3>3, Zenon DEF St!GoesOn, St!Answer
  <2>2. CASE St!WriteEntry(c)
    <3>0. hpc[c] = "write" /\ body[c] # <<>> /\ body[c] \in Seq(Entry)
      BY <2>0, <2>2 DEF St!WriteEntry
    <3>1. /\ Tail(body[c]) \in Seq(Entry) /\ (Len(body[c]) = 1 <=> Tail(body[c]) = <<>>)
          /\ <<>> \in Seq(Entry)
      BY <3>0, TailOfList
    <3>2. CASE /\ body' = [body EXCEPT ![c] = Tail(@)]
               /\ IF Len(body[c]) = 1 THEN St!GoesOn(c, "ask") ELSE UNCHANGED <<hpc, reply>>
      BY <2>0, <3>0, <3>1, <3>2, Zenon DEF St!GoesOn
    <3>3. CASE St!Answer(c, "error") /\ body' = [body EXCEPT ![c] = <<>>]
      BY <2>0, <3>0, <3>1, <3>3 DEF St!Answer
    <3> QED BY <2>2, <3>2, <3>3 DEF St!WriteEntry
  <2>3. CASE ~St!PutSettings(c) /\ ~St!WriteEntry(c)
    <3>1. /\ UNCHANGED body /\ hpc[c] # "write"
          /\ \/ St!GoesOn(c, "ask") \/ St!GoesOn(c, "wait")
             \/ St!Answer(c, "refused") \/ St!Answer(c, "error")
      BY <2>3 DEF St!DeleteSetting, St!UpsertConnection,
         St!DeleteConnection, St!Ask, St!Leave, St!Begin
    <3> QED BY <2>0, <3>1, Zenon DEF St!GoesOn, St!Answer
  <2> QED BY <2>1, <2>2, <2>3
<1> HIDE DEF Hpc, Reply, Entry, Rows
<1> QED
  BY <1>1, <1>2, <1>3, <1>4, <1>5, <1>6, <1>7, Zenon DEF St!TypeOK, Hpc, Reply, Entry, Rows

\* The outcome of a reload ends the waiting of a handler.
LEMMA SettingsDone ==
  ASSUME St!TypeOK, NEW r \in {"none", "ok", "refused", "error"}, St!Done(r)
  PROVE  /\ mpc' = "select" /\ serving' = 0 /\ tables' = <<>> /\ loading' = St!NoConfig
         /\ hpc' \in [Clients -> {"idle", "write", "ask", "wait"}]
         /\ reply' \in [Clients -> {"none", "ok", "refused", "error"}]
         /\ \A c \in Clients :
              \/ /\ hpc'[c] = hpc[c] /\ reply'[c] = reply[c]
                 /\ ~(hpc[c] = "wait" /\ ticket[c] = serving)
              \/ /\ hpc[c] = "wait" /\ ticket[c] = serving /\ hpc'[c] = "idle" /\ reply'[c] = r
  BY DEF St!Done, St!TypeOK

\* Nothing is loaded.
LEMMA NoConfigOK ==
  /\ DOMAIN St!NoConfig = {"yaml", "limits", "rows", "seen"} /\ St!NoConfig.seen \in Nat
  /\ St!NoConfig.rows \in [St!ToSet(Tables) -> {St!NoRow, "yaml", "api"}]
  BY DEF St!NoConfig

\* The steps of the daemon preserve the types.
LEMMA SettingsMainTypeOK ==
  ASSUME St!TypeOK, St!MainStep \/ St!Stop \/ St!Boot \/ St!EditYaml
  PROVE  St!TypeOK'
<1> DEFINE Rows == [St!ToSet(Tables) -> {St!NoRow, "yaml", "api"}]
           Loading(l) == /\ DOMAIN l = {"yaml", "limits", "rows", "seen"} /\ l.seen \in Nat
                         /\ l.rows \in Rows
<1>0. Loading(loading) /\ rows \in Rows /\ tables \in Seq(St!ToSet(Tables))
  BY DEF St!TypeOK
<1>1. CASE St!Take
  <2>1. queue' \in Seq(Nat) /\ Len(queue') <= 1 /\ serving' \in Nat
    <3>0. queue \in Seq(Nat) /\ Len(queue) <= 1
      BY DEF St!TypeOK
    <3>1. <<>> \in Seq(Nat) /\ Len(<<>>) <= 1 /\ (queue # <<>> => Head(queue) \in Nat)
      BY <3>0
    <3>2. \/ queue # <<>> /\ serving' = Head(queue) /\ queue' = <<>>
          \/ serving' = 0 /\ queue' = queue
      BY <1>1 DEF St!Take
    <3>3. CASE queue # <<>> /\ serving' = Head(queue) /\ queue' = <<>>
      BY <3>1, <3>3
    <3>4. CASE serving' = 0 /\ queue' = queue
      BY <3>0, <3>4
    <3> QED BY <3>2, <3>3, <3>4
  <2>2. hup' \in BOOLEAN
    BY <1>1, Zenon DEF St!Take, St!TypeOK
  <2> QED
    BY <1>1, <2>1, <2>2, Zenon DEF St!Take, St!TypeOK, St!file, St!store, St!handlers, St!history
<1>2. CASE St!Fails
  <2>1. St!Done("error")
        /\ UNCHANGED <<yaml, edits, rows, requests, ticket, body, queue, hup, engine,
                       writes, wrote, spoiled>>
    BY <1>2 DEF St!Fails, St!file, St!store, St!channels, St!history
  <2>2. \A c \in Clients : hpc'[c] = "write" <=> body'[c] # <<>>
    BY <2>1, SettingsDone, Zenon DEF St!TypeOK
  <2>3. <<>> \in Seq(St!ToSet(Tables)) /\ 0 \in Nat
    OBVIOUS
  <2>4. /\ mpc' = "select" /\ serving' = 0 /\ tables' = <<>> /\ loading' = St!NoConfig
        /\ hpc' \in [Clients -> {"idle", "write", "ask", "wait"}]
        /\ reply' \in [Clients -> {"none", "ok", "refused", "error"}]
    BY <2>1, SettingsDone
  <2>5. Loading(loading')
    BY <2>4, NoConfigOK
  <2> QED BY <2>1, <2>2, <2>3, <2>4, <2>5, Zenon DEF St!TypeOK
<1>3. CASE St!LoadConfig
  <2>1. CASE St!Fails
    BY <1>2, <2>1
  <2>2. CASE /\ loading' = [St!NoConfig EXCEPT !.yaml = yaml, !.seen = writes,
                             !.limits = St!Merged(yaml.limits, overrides)]
             /\ tables' = Tables /\ mpc' = "count"
             /\ UNCHANGED <<yaml, edits, rows, requests, ticket, body, hpc, reply, queue, hup,
                            serving, engine, writes, wrote, spoiled>>
    <3>1. Loading(loading')
      BY <2>2, NoConfigOK DEF St!TypeOK
    <3>2. tables' \in Seq(St!ToSet(Tables))
      BY <2>2, SettingsAssumption DEF St!ToSet
    <3>3. tables' # <<>>
      BY <2>2, SettingsAssumption
    <3> HIDE DEF Loading
    <3>4. /\ mpc' \in {"count", "seed", "list"} => tables' # <<>>
          /\ mpc' = "build" => tables' = <<>>
      BY <2>2, <3>3
    <3> QED BY <2>2, <3>1, <3>2, <3>4, Zenon DEF St!TypeOK, Loading, Rows
  <2> QED
    BY <1>3, <2>1, <2>2
       DEF St!LoadConfig, St!file, St!store, St!handlers, St!channels, St!history
<1>4. CASE St!CountConnections
  BY <1>4, Zenon DEF St!CountConnections, St!file, St!store, St!handlers, St!channels, St!history,
     St!TypeOK
<1>5. CASE St!SeedConnections
  <2>1. CASE St!Fails
    BY <1>2, <2>1
  <2>2. CASE ~St!Fails
    <3>1. /\ rows' = [rows EXCEPT ![Head(tables)] = "yaml"] /\ mpc' = "list"
          /\ UNCHANGED <<yaml, edits, requests, ticket, body, hpc, reply, queue, hup,
                            serving, tables, loading, engine, writes, wrote, spoiled>>
      BY <1>5, <2>2 DEF St!SeedConnections, St!file, St!handlers, St!channels, St!history
    <3>2. rows' \in Rows
      BY <1>0, <3>1, Zenon
    <3>3. tables' # <<>>
      BY <1>5, <3>1 DEF St!SeedConnections, St!TypeOK
    <3> QED BY <3>1, <3>2, <3>3, Zenon DEF St!TypeOK
  <2> QED BY <2>1, <2>2
<1>6. CASE St!ListConnections
  <2>1. /\ loading' = [loading EXCEPT !.rows[Head(tables)] = rows[Head(tables)]]
        /\ tables' = Tail(tables) /\ mpc' = IF Len(tables) = 1 THEN "build" ELSE "count"
        /\ mpc = "list"
        /\ UNCHANGED <<yaml, edits, rows, requests, ticket, body, hpc, reply, queue, hup,
                       serving, engine, writes, wrote, spoiled>>
    BY <1>6 DEF St!ListConnections, St!file, St!store, St!handlers, St!channels, St!history
  <2>2. Loading(loading')
    BY <1>0, <2>1, Zenon
  <2>3. /\ tables' \in Seq(St!ToSet(Tables))
        /\ tables' = <<>> <=> Len(tables) = 1
    <3>1. tables # <<>>
      BY <2>1 DEF St!TypeOK
    <3>2. Tail(tables) \in Seq(St!ToSet(Tables)) /\ (Len(tables) = 1 <=> Tail(tables) = <<>>)
      BY <1>0, <3>1, TailOfList
    <3> QED BY <2>1, <3>2
  <2>4. /\ mpc' \in {"count", "seed", "list"} => tables' # <<>>
        /\ mpc' = "build" => tables' = <<>>
    BY <2>1, <2>3
  <2> QED BY <2>1, <2>2, <2>3, <2>4, Zenon DEF St!TypeOK
<1>7. CASE St!SwapEngine
  <2>1. St!Done("ok")
        /\ UNCHANGED <<yaml, edits, rows, requests, ticket, body, queue, hup,
                       writes, wrote, spoiled>>
    BY <1>7 DEF St!SwapEngine, St!file, St!store, St!channels, St!history
  <2>2. \A c \in Clients : hpc'[c] = "write" <=> body'[c] # <<>>
    BY <2>1, SettingsDone, Zenon DEF St!TypeOK
  <2>3. <<>> \in Seq(St!ToSet(Tables)) /\ 0 \in Nat
    OBVIOUS
  <2>4. /\ mpc' = "select" /\ serving' = 0 /\ tables' = <<>> /\ loading' = St!NoConfig
        /\ hpc' \in [Clients -> {"idle", "write", "ask", "wait"}]
        /\ reply' \in [Clients -> {"none", "ok", "refused", "error"}]
    BY <2>1, SettingsDone
  <2>5. Loading(loading')
    BY <2>4, NoConfigOK
  <2> QED BY <2>1, <2>2, <2>3, <2>4, <2>5, Zenon DEF St!TypeOK
<1>8. CASE St!ReloadFails
  BY <1>2, <1>8 DEF St!ReloadFails
<1>9. CASE St!Stop
  <2>1. /\ mpc' = "down" /\ serving' = 0 /\ tables' = <<>> /\ loading' = St!NoConfig
        /\ hpc' = [c \in Clients |-> "idle"] /\ body' = [c \in Clients |-> <<>>]
        /\ reply' = [c \in Clients |-> "none"] /\ queue' = <<>> /\ hup' = FALSE
        /\ UNCHANGED <<yaml, edits, rows, requests, ticket, writes, wrote>>
    BY <1>9 DEF St!Stop, St!file, St!store
  <2>2. spoiled' \in BOOLEAN
    <3>1. spoiled' = TRUE \/ spoiled' = FALSE \/ spoiled' = spoiled
      BY <1>9 DEF St!Stop
    <3> QED BY <3>1, Zenon DEF St!TypeOK
  <2>3. hup' \in BOOLEAN
    BY <2>1, Zenon
  <2> QED BY <2>1, <2>2, <2>3, NoConfigOK DEF St!TypeOK
<1>10. CASE St!Boot
  <2>1. /\ rows' = [t \in DOMAIN rows |->
                      IF rows[t] = St!NoRow /\ t \in yaml.conns THEN "yaml" ELSE rows[t]]
        /\ mpc' = "select"
        /\ UNCHANGED <<yaml, edits, requests, ticket, body, hpc, reply, queue, hup,
                       serving, tables, loading, writes, wrote, spoiled>>
    BY <1>10 DEF St!Boot, St!file, St!handlers, St!channels, St!history
  <2>2. rows' \in Rows
    BY <1>0, <2>1
  <2> QED BY <2>1, <2>2, Zenon DEF St!TypeOK
<1>11. CASE St!EditYaml
  <2>1. /\ edits < MaxEdits /\ edits' = edits + 1 /\ yaml' \in YamlFiles
        /\ UNCHANGED <<rows, requests, ticket, body, hpc, reply, queue, mpc, serving, tables,
                       loading, writes, wrote>>
    BY <1>11 DEF St!EditYaml, St!store, St!handlers, St!main
  <2>2. edits' \in 0..MaxEdits
    BY <2>1, SettingsAssumption DEF St!TypeOK
  <2>3. hup' \in BOOLEAN /\ spoiled' \in BOOLEAN
    <3>1. /\ hup' = TRUE \/ hup' = FALSE \/ hup' = hup
          /\ spoiled' = TRUE \/ spoiled' = FALSE \/ spoiled' = spoiled
      BY <1>11 DEF St!EditYaml
    <3> QED BY <3>1, Zenon DEF St!TypeOK
  <2> QED BY <2>1, <2>2, <2>3, Zenon DEF St!TypeOK
<1> QED
  BY <1>1, <1>3, <1>4, <1>5, <1>6, <1>7, <1>8, <1>9, <1>10, <1>11 DEF St!MainStep

\* At first the daemon is down, and no request has come.
LEMMA SettingsInit == St!Init => St!RepliesInv
<1> SUFFICES ASSUME St!Init PROVE St!RepliesInv
  OBVIOUS
<1>1. /\ 0 \in 0..MaxRequests /\ 0 \in 0..MaxEdits /\ 0 \in Nat
      /\ <<>> \in Seq(Nat) /\ Len(<<>>) <= 1 /\ <<>> \in Seq(St!ToSet(Tables))
      /\ <<>> \in Seq([key : St!Keys, value : Nat])
  BY SettingsAssumption
<1>2. hup \in BOOLEAN /\ spoiled \in BOOLEAN
  BY Zenon DEF St!Init
<1>3. St!TypeOK
  BY <1>1, <1>2, NoConfigOK DEF St!Init, St!TypeOK
<1>4. St!TicketsOK
  BY <1>1 DEF St!Init, St!TicketsOK
<1>5. St!LoadingOK
  BY <1>1 DEF St!Init, St!LoadingOK, St!Reloading
<1> QED BY <1>3, <1>4, <1>5 DEF St!RepliesInv

\* The steps preserve the types.
LEMMA SettingsTypeOK ==
  ASSUME St!TypeOK, St!Next
  PROVE  St!TypeOK'
  BY SettingsHandlersTypeOK, SettingsMainTypeOK DEF St!Next

\* A new request has a number of its own; who asks puts it into an empty channel.
LEMMA SettingsHandlersTickets ==
  ASSUME St!TypeOK, St!TicketsOK, NEW c \in Clients,
         \/ St!PutSettings(c) \/ St!WriteEntry(c) \/ St!DeleteSetting(c)
         \/ St!UpsertConnection(c) \/ St!DeleteConnection(c) \/ St!Ask(c) \/ St!Leave(c)
  PROVE  St!TicketsOK'
<1>0. /\ requests \in Nat /\ serving \in Nat /\ queue \in Seq(Nat)
      /\ DOMAIN ticket = Clients /\ DOMAIN hpc = Clients
      /\ \A d \in Clients : ticket[d] \in Nat
      /\ \A d \in Clients : hpc[d] \in {"idle", "write", "ask", "wait"}
      /\ DOMAIN queue = 1..Len(queue) /\ \A i \in DOMAIN queue : queue[i] \in Nat
  BY SettingsAssumption DEF St!TypeOK
<1>1. UNCHANGED <<mpc, serving>>
  BY DEF St!PutSettings, St!WriteEntry, St!DeleteSetting, St!UpsertConnection,
     St!DeleteConnection, St!Ask, St!Leave, St!main
<1>2. CASE St!Begin(c)
  <2>1. /\ hpc[c] = "idle" /\ requests' = requests + 1
        /\ ticket' = [ticket EXCEPT ![c] = requests + 1] /\ UNCHANGED queue
        /\ \A d \in Clients : d # c => hpc'[d] = hpc[d]
        /\ hpc'[c] \in {"write", "ask", "idle"}
    BY <1>0, <1>2
       DEF St!PutSettings, St!WriteEntry, St!DeleteSetting, St!UpsertConnection,
           St!DeleteConnection, St!Ask, St!Leave, St!Begin, St!channels, St!GoesOn, St!Answer
  <2>2. ticket'[c] = requests + 1 /\ \A d \in Clients : d # c => ticket'[d] = ticket[d]
    BY <1>0, <2>1
  <2>3. /\ serving < requests + 1 /\ \A i \in DOMAIN queue : queue[i] < requests + 1
        /\ \A d \in Clients : ticket[d] < requests + 1
    BY <1>0 DEF St!TicketsOK
  <2>4. /\ mpc \in {"down", "select"} => serving = 0
        /\ \A d \in Clients :
             /\ \A e \in Clients \ {d} : ticket[d] # 0 => ticket[d] # ticket[e]
             /\ hpc[d] # "idle" => ticket[d] # 0
             /\ hpc[d] = "wait" =>
                  ticket[d] = serving \/ \E i \in DOMAIN queue : queue[i] = ticket[d]
             /\ hpc[d] \in {"write", "ask"} =>
                  ticket[d] # serving /\ \A i \in DOMAIN queue : queue[i] # ticket[d]
    BY DEF St!TicketsOK
  <2>5. ASSUME NEW d \in Clients
        PROVE  /\ ticket'[d] <= requests + 1
               /\ \A e \in Clients \ {d} : ticket'[d] # 0 => ticket'[d] # ticket'[e]
               /\ hpc'[d] # "idle" => ticket'[d] # 0
               /\ hpc'[d] = "wait" =>
                    ticket'[d] = serving \/ \E i \in DOMAIN queue : queue[i] = ticket'[d]
               /\ hpc'[d] \in {"write", "ask"} =>
                    ticket'[d] # serving /\ \A i \in DOMAIN queue : queue[i] # ticket'[d]
    <3>1. CASE d = c
      BY <1>0, <2>1, <2>2, <2>3, <3>1
    <3>2. CASE d # c
      BY <1>0, <2>1, <2>2, <2>3, <2>4, <3>2
    <3> QED BY <3>1, <3>2
  <2>6. serving <= requests + 1 /\ \A i \in DOMAIN queue : queue[i] <= requests + 1
    BY <1>0, <2>3
  <2> QED BY <1>1, <2>1, <2>4, <2>5, <2>6 DEF St!TicketsOK
<1>3. CASE St!Ask(c)
  <2>1. /\ hpc[c] = "ask" /\ queue = <<>> /\ queue' = <<ticket[c]>>
        /\ hpc' = [hpc EXCEPT ![c] = "wait"] /\ UNCHANGED <<requests, ticket>>
    BY <1>3 DEF St!Ask, St!GoesOn
  <2>2. DOMAIN queue' = {1} /\ queue'[1] = ticket[c]
    BY <2>1
  <2>3. \A d \in Clients : d # c => hpc'[d] = hpc[d]
    BY <1>0, <2>1
  <2>4. hpc'[c] = "wait"
    BY <1>0, <2>1
  <2>5. /\ serving <= requests /\ (mpc \in {"down", "select"} => serving = 0)
        /\ \A d \in Clients :
             /\ ticket[d] <= requests
             /\ \A e \in Clients \ {d} : ticket[d] # 0 => ticket[d] # ticket[e]
             /\ hpc[d] # "idle" => ticket[d] # 0
             /\ hpc[d] = "wait" => ticket[d] = serving
             /\ hpc[d] \in {"write", "ask"} => ticket[d] # serving
    BY <2>1 DEF St!TicketsOK
  <2>6. \A i \in DOMAIN queue' : queue'[i] <= requests
    BY <2>2, <2>5
  <2>7. ASSUME NEW d \in Clients
        PROVE  /\ ticket[d] <= requests
               /\ \A e \in Clients \ {d} : ticket[d] # 0 => ticket[d] # ticket[e]
               /\ hpc'[d] # "idle" => ticket[d] # 0
               /\ hpc'[d] = "wait" =>
                    ticket[d] = serving \/ \E i \in DOMAIN queue' : queue'[i] = ticket[d]
               /\ hpc'[d] \in {"write", "ask"} =>
                    ticket[d] # serving /\ \A i \in DOMAIN queue' : queue'[i] # ticket[d]
    <3>1. CASE d = c
      BY <2>1, <2>2, <2>4, <2>5, <3>1
    <3>2. CASE d # c
      <4>1. hpc[d] # "idle" => ticket[d] # ticket[c]
        BY <2>5, <3>2
      <4> QED BY <2>2, <2>3, <2>5, <3>2, <4>1
    <3> QED BY <3>1, <3>2
  <2> QED BY <1>1, <2>1, <2>5, <2>6, <2>7 DEF St!TicketsOK
<1>4. CASE St!WriteEntry(c) \/ St!Leave(c)
  <2>1. /\ UNCHANGED <<requests, ticket, queue>>
        /\ \A d \in Clients : d # c => hpc'[d] = hpc[d]
        /\ \/ hpc'[c] = hpc[c] \/ hpc'[c] = "idle"
           \/ hpc[c] = "write" /\ hpc'[c] = "ask"
    BY <1>0, <1>4 DEF St!WriteEntry, St!Leave, St!channels, St!GoesOn, St!Answer
  <2>2. \A d \in Clients :
          \/ hpc'[d] = hpc[d] \/ hpc'[d] = "idle"
          \/ hpc[d] = "write" /\ hpc'[d] = "ask"
    BY <2>1
  <2> QED BY <1>0, <1>1, <2>1, <2>2 DEF St!TicketsOK
<1> QED
  BY <1>2, <1>3, <1>4
     DEF St!PutSettings, St!DeleteSetting, St!UpsertConnection, St!DeleteConnection

\* Who waits is served, or is in the channel.
LEMMA SettingsMainTickets ==
  ASSUME St!TypeOK, St!TicketsOK, St!MainStep \/ St!Stop \/ St!Boot \/ St!EditYaml
  PROVE  St!TicketsOK'
<1>0. /\ requests \in Nat /\ serving \in Nat /\ queue \in Seq(Nat) /\ Len(queue) <= 1
      /\ \A d \in Clients : ticket[d] \in Nat
      /\ \A d \in Clients : hpc[d] \in {"idle", "write", "ask", "wait"}
  BY SettingsAssumption DEF St!TypeOK
<1>1. /\ serving <= requests /\ (\A i \in DOMAIN queue : queue[i] <= requests)
      /\ (mpc \in {"down", "select"} => serving = 0)
      /\ \A d \in Clients :
           /\ ticket[d] <= requests
           /\ \A e \in Clients \ {d} : ticket[d] # 0 => ticket[d] # ticket[e]
           /\ hpc[d] # "idle" => ticket[d] # 0
           /\ hpc[d] = "wait" =>
                ticket[d] = serving \/ \E i \in DOMAIN queue : queue[i] = ticket[d]
           /\ hpc[d] \in {"write", "ask"} =>
                ticket[d] # serving /\ \A i \in DOMAIN queue : queue[i] # ticket[d]
  BY DEF St!TicketsOK
<1>2. UNCHANGED <<requests, ticket>>
  BY DEF St!MainStep, St!Take, St!LoadConfig, St!CountConnections, St!SeedConnections,
     St!ListConnections, St!SwapEngine, St!ReloadFails, St!Fails, St!Stop, St!Boot,
     St!EditYaml, St!handlers
<1>3. CASE St!Take
  <2>1. /\ mpc = "select" /\ mpc' = "load" /\ UNCHANGED hpc
        /\ \/ queue # <<>> /\ serving' = Head(queue) /\ queue' = <<>>
           \/ serving' = 0 /\ queue' = queue
    BY <1>3 DEF St!Take, St!handlers
  <2>2. CASE queue # <<>> /\ serving' = Head(queue) /\ queue' = <<>>
    <3>0. Len(queue) = 1
      <4>1. Len(queue) \in Nat \ {0}
        BY <1>0, <2>2, EmptySeq
      <4>2. Len(queue) <= 1
        BY <1>0
      <4> DEFINE n == Len(queue)
      <4>3. n \in Nat \ {0} /\ n <= 1
        BY <4>1, <4>2
      <4> HIDE DEF n
      <4>4. n = 1
        BY <4>3
      <4> QED BY <4>4 DEF n
    <3>1. DOMAIN queue = {1} /\ queue[1] = serving' /\ DOMAIN queue' = {}
      BY <1>0, <2>2, <3>0
    <3>2. serving = 0
      BY <1>1, <2>1
    <3> QED BY <1>1, <1>2, <2>1, <3>1, <3>2 DEF St!TicketsOK
  <2>3. CASE serving' = 0 /\ queue' = queue
    <3>1. serving = 0
      BY <1>1, <2>1
    <3> QED BY <1>1, <1>2, <2>1, <2>3, <3>1 DEF St!TicketsOK
  <2> QED BY <2>1, <2>2, <2>3
<1>4. CASE \E r \in {"ok", "error"} : St!Done(r) /\ UNCHANGED queue
  <2>1. /\ serving' = 0 /\ UNCHANGED queue
        /\ \A d \in Clients :
             \/ hpc'[d] = hpc[d] /\ ~(hpc[d] = "wait" /\ ticket[d] = serving)
             \/ hpc'[d] = "idle"
    BY <1>4, SettingsDone
  <2>2. serving' <= requests
    BY <1>0, <2>1
  <2> QED BY <1>1, <1>2, <2>1, <2>2 DEF St!TicketsOK
<1>5. CASE St!Stop
  <2>1. serving' = 0 /\ queue' = <<>> /\ hpc' = [d \in Clients |-> "idle"]
    BY <1>5 DEF St!Stop
  <2>2. DOMAIN queue' = {} /\ 0 <= requests
    BY <1>0, <2>1
  <2>3. \A d \in Clients : hpc'[d] = "idle"
    BY <2>1
  <2> QED BY <1>1, <1>2, <2>1, <2>2, <2>3 DEF St!TicketsOK
<1>6. CASE UNCHANGED <<hpc, queue, serving>> /\ (mpc' \in {"down", "select"} => serving = 0)
  BY <1>1, <1>2, <1>6 DEF St!TicketsOK
<1>7. CASE St!LoadConfig \/ St!CountConnections \/ St!SeedConnections \/ St!ListConnections
           \/ St!Boot \/ St!EditYaml
  <2>1. CASE St!Fails
    BY <1>4, <2>1 DEF St!Fails, St!channels
  <2>2. CASE ~St!Fails
    <3>1. UNCHANGED <<hpc, queue, serving>>
      BY <1>7, <2>2 DEF St!LoadConfig, St!CountConnections, St!SeedConnections,
         St!ListConnections, St!Boot, St!EditYaml, St!handlers, St!channels, St!main
    <3>2. mpc' \in {"down", "select"} => serving = 0
      BY <1>1, <1>7, <2>2 DEF St!LoadConfig, St!CountConnections, St!SeedConnections,
         St!ListConnections, St!Boot, St!EditYaml, St!main
    <3> QED BY <1>6, <3>1, <3>2
  <2> QED BY <2>1, <2>2
<1>8. CASE St!SwapEngine \/ St!ReloadFails
  BY <1>4, <1>8 DEF St!SwapEngine, St!ReloadFails, St!Fails, St!channels
<1> QED BY <1>3, <1>5, <1>7, <1>8 DEF St!MainStep

\* A handler that writes is ahead of any reload; one that waits does not write.
LEMMA SettingsHandlersLoading ==
  ASSUME St!TypeOK, St!TicketsOK, St!LoadingOK, NEW c \in Clients,
         \/ St!PutSettings(c) \/ St!WriteEntry(c) \/ St!DeleteSetting(c)
         \/ St!UpsertConnection(c) \/ St!DeleteConnection(c) \/ St!Ask(c) \/ St!Leave(c)
  PROVE  St!LoadingOK'
<1>0. /\ writes \in Nat /\ \A d \in Clients : wrote[d] \in Nat
      /\ loading.seen \in Nat
      /\ DOMAIN ticket = Clients /\ DOMAIN hpc = Clients /\ DOMAIN wrote = Clients
      /\ requests \in Nat /\ serving \in Nat
  BY SettingsAssumption DEF St!TypeOK
<1>1. UNCHANGED <<mpc, serving, tables, loading>>
  BY DEF St!PutSettings, St!WriteEntry, St!DeleteSetting, St!UpsertConnection,
     St!DeleteConnection, St!Ask, St!Leave, St!main
<1>2. /\ \A d \in Clients : wrote[d] <= writes
      /\ St!Reloading =>
           /\ loading.seen <= writes
           /\ \A d \in Clients :
                hpc[d] = "wait" /\ ticket[d] = serving => wrote[d] <= loading.seen
           /\ loading.seen = writes =>
                /\ loading.limits = St!Merged(loading.yaml.limits, overrides)
                /\ \A t \in St!ToSet(Tables) \ St!ToSet(tables) : loading.rows[t] = rows[t]
  BY DEF St!LoadingOK
<1>3. \A d \in Clients : d # c => hpc'[d] = hpc[d] /\ ticket'[d] = ticket[d]
  BY <1>0 DEF St!PutSettings, St!WriteEntry, St!DeleteSetting, St!UpsertConnection,
     St!DeleteConnection, St!Ask, St!Leave, St!Begin, St!GoesOn, St!Answer
<1>4. hpc'[c] = "wait" => ticket'[c] # serving
  <2>1. CASE St!Ask(c)
    BY <2>1 DEF St!Ask, St!TicketsOK
  <2>2. CASE ~St!Ask(c)
    <3>1. hpc'[c] # "wait"
      BY <1>0, <2>2 DEF St!PutSettings, St!WriteEntry, St!DeleteSetting, St!UpsertConnection,
         St!DeleteConnection, St!Leave, St!Begin, St!GoesOn, St!Answer
    <3> QED BY <3>1
  <2> QED BY <2>1, <2>2
<1>5. CASE /\ writes' = writes + 1 /\ wrote' = [wrote EXCEPT ![c] = writes + 1]
  <2>1. \A d \in Clients : wrote'[d] <= writes' /\ (d # c => wrote'[d] = wrote[d])
    BY <1>0, <1>2, <1>5
  <2>2. St!Reloading => loading.seen < writes'
    BY <1>0, <1>2, <1>5
  <2>3. loading.seen < writes' => loading.seen <= writes' /\ loading.seen # writes'
    BY <1>0, <1>5
  <2>4. St!Reloading' <=> St!Reloading
    BY <1>1 DEF St!Reloading
  <2> QED BY <1>1, <1>2, <1>3, <1>4, <2>1, <2>2, <2>3, <2>4 DEF St!LoadingOK
<1>6. CASE UNCHANGED <<writes, wrote, overrides, rows>>
  <2>1. St!Reloading' <=> St!Reloading
    BY <1>1 DEF St!Reloading
  <2> QED BY <1>1, <1>2, <1>3, <1>4, <1>6, <2>1 DEF St!LoadingOK
<1> QED
  BY <1>5, <1>6 DEF St!PutSettings, St!WriteEntry, St!DeleteSetting, St!UpsertConnection,
     St!DeleteConnection, St!Ask, St!Leave, St!Wrote, St!store, St!history

\* A reload sees all that was written before it, and table by table what is stored.
LEMMA SettingsMainLoading ==
  ASSUME St!TypeOK, St!TicketsOK, St!LoadingOK,
         St!MainStep \/ St!Stop \/ St!Boot \/ St!EditYaml
  PROVE  St!LoadingOK'
<1>0. /\ writes \in Nat /\ \A d \in Clients : wrote[d] \in Nat
      /\ DOMAIN loading = {"yaml", "limits", "rows", "seen"} /\ loading.seen \in Nat
      /\ loading.rows \in [St!ToSet(Tables) -> {St!NoRow, "yaml", "api"}]
      /\ rows \in [St!ToSet(Tables) -> {St!NoRow, "yaml", "api"}]
      /\ tables \in Seq(St!ToSet(Tables))
      /\ (mpc \in {"count", "seed", "list"} => tables # <<>>)
  BY DEF St!TypeOK
<1>1. /\ \A d \in Clients : wrote[d] <= writes
      /\ St!Reloading =>
           /\ loading.seen <= writes
           /\ \A d \in Clients :
                hpc[d] = "wait" /\ ticket[d] = serving => wrote[d] <= loading.seen
           /\ loading.seen = writes =>
                /\ loading.limits = St!Merged(loading.yaml.limits, overrides)
                /\ \A t \in St!ToSet(Tables) \ St!ToSet(tables) : loading.rows[t] = rows[t]
  BY DEF St!LoadingOK
<1>2. UNCHANGED <<writes, wrote, overrides>>
  BY DEF St!MainStep, St!Take, St!LoadConfig, St!CountConnections, St!SeedConnections,
     St!ListConnections, St!SwapEngine, St!ReloadFails, St!Fails, St!Stop, St!Boot,
     St!EditYaml, St!history, St!store
<1>3. CASE ~St!Reloading'
  BY <1>1, <1>2, <1>3 DEF St!LoadingOK
<1>4. CASE St!Fails
  BY <1>3, <1>4, SettingsDone DEF St!Fails, St!Reloading
<1>5. CASE St!LoadConfig /\ ~St!Fails
  <2>1. /\ loading' = [St!NoConfig EXCEPT !.yaml = yaml, !.seen = writes,
                         !.limits = St!Merged(yaml.limits, overrides)]
        /\ tables' = Tables /\ UNCHANGED <<hpc, ticket, serving, rows>>
    BY <1>5 DEF St!LoadConfig, St!handlers, St!store
  <2>2. /\ loading'.yaml = yaml /\ loading'.seen = writes
        /\ loading'.limits = St!Merged(yaml.limits, overrides)
    BY <2>1, NoConfigOK
  <2>3. St!ToSet(Tables) \ St!ToSet(tables') = {} /\ writes <= writes
    BY <1>0, <2>1
  <2> QED BY <1>1, <1>2, <2>1, <2>2, <2>3 DEF St!LoadingOK
<1>6. CASE St!CountConnections
  <2>1. UNCHANGED <<hpc, ticket, serving, tables, loading, rows>> /\ St!Reloading
    BY <1>6 DEF St!CountConnections, St!handlers, St!store, St!Reloading
  <2> QED BY <1>1, <1>2, <2>1 DEF St!LoadingOK
<1>7. CASE St!SeedConnections /\ ~St!Fails
  <2>1. /\ UNCHANGED <<hpc, ticket, serving, tables, loading>> /\ St!Reloading
        /\ rows' = [rows EXCEPT ![Head(tables)] = "yaml"]
    BY <1>7 DEF St!SeedConnections, St!handlers, St!Reloading
  <2>2. Head(tables) \in St!ToSet(tables)
    <3>1. tables # <<>>
      BY <1>0, <1>7 DEF St!SeedConnections
    <3>2. Head(tables) = tables[1] /\ 1 \in DOMAIN tables
      <4>1. Len(tables) \in Nat \ {0}
        BY <1>0, <3>1, EmptySeq
      <4> QED BY <1>0, <4>1
    <3> QED BY <3>2 DEF St!ToSet
  <2>3. \A t \in St!ToSet(Tables) \ St!ToSet(tables) : rows'[t] = rows[t]
    BY <1>0, <2>1, <2>2
  <2> QED BY <1>1, <1>2, <2>1, <2>3 DEF St!LoadingOK
<1>8. CASE St!ListConnections
  <2>1. /\ loading' = [loading EXCEPT !.rows[Head(tables)] = rows[Head(tables)]]
        /\ tables' = Tail(tables) /\ UNCHANGED <<hpc, ticket, serving, rows>>
        /\ St!Reloading /\ tables # <<>>
    BY <1>0, <1>8 DEF St!ListConnections, St!handlers, St!store, St!Reloading
  <2>2. /\ loading'.yaml = loading.yaml /\ loading'.seen = loading.seen
        /\ loading'.limits = loading.limits
        /\ loading'.rows = [loading.rows EXCEPT ![Head(tables)] = rows[Head(tables)]]
    BY <1>0, <2>1
  <2>3. ASSUME NEW t \in St!ToSet(Tables) \ St!ToSet(Tail(tables)), t # Head(tables)
        PROVE  t \notin St!ToSet(tables)
    <3>1. /\ Len(tables) \in Nat \ {0} /\ DOMAIN tables = 1..Len(tables)
          /\ Head(tables) = tables[1]
      BY <1>0, <2>1, EmptySeq
    <3>2. /\ Tail(tables) \in Seq(St!ToSet(Tables)) /\ Len(Tail(tables)) = Len(tables) - 1
          /\ \A i \in 1..Len(Tail(tables)) : Tail(tables)[i] = tables[i + 1]
      BY <1>0, <2>1, HeadTailProperties
    <3>3. ASSUME NEW i \in 1..Len(tables), tables[i] = t PROVE FALSE
      <4>1. i # 1
        BY <2>3, <3>1, <3>3
      <4>2. i - 1 \in 1..Len(Tail(tables)) /\ (i - 1) + 1 = i
        BY <3>1, <3>2, <4>1
      <4>3. Tail(tables)[i - 1] = t /\ i - 1 \in DOMAIN Tail(tables)
        BY <3>2, <3>3, <4>2
      <4> QED BY <2>3, <4>3, Zenon DEF St!ToSet
    <3> QED BY <3>1, <3>3 DEF St!ToSet
  <2>4. loading.seen = writes =>
          \A t \in St!ToSet(Tables) \ St!ToSet(Tail(tables)) : loading'.rows[t] = rows[t]
    BY <1>0, <1>1, <2>1, <2>2, <2>3
  <2> QED BY <1>1, <1>2, <2>1, <2>2, <2>4 DEF St!LoadingOK
<1>9. CASE St!EditYaml
  <2>1. UNCHANGED <<hpc, ticket, serving, tables, loading, rows, mpc>>
    BY <1>9 DEF St!EditYaml, St!handlers, St!store, St!main
  <2>2. St!Reloading' <=> St!Reloading
    BY <2>1 DEF St!Reloading
  <2> QED BY <1>1, <1>2, <2>1, <2>2 DEF St!LoadingOK
<1>10. CASE St!Take \/ St!Stop \/ St!Boot
  BY <1>3, <1>10 DEF St!Take, St!Stop, St!Boot, St!Reloading
<1>11. CASE St!SwapEngine
  BY <1>3, <1>11, SettingsDone DEF St!SwapEngine, St!Reloading
<1> QED
  BY <1>4, <1>5, <1>6, <1>7, <1>8, <1>9, <1>10, <1>11 DEF St!MainStep, St!ReloadFails

\* The invariant of the reloads holds.
LEMMA SettingsInvariant == DaemonSpec => [](which = "settings" => St!RepliesInv)
<1> DEFINE I == which = "settings" => St!RepliesInv
<1>1. DaemonInit => I
  BY SettingsInit DEF DaemonInit
<1>2. I /\ [DaemonNext]_allVars => I'
  <2> SUFFICES ASSUME I, [DaemonNext]_allVars, which' = "settings" PROVE St!RepliesInv'
    OBVIOUS
  <2>1. CASE UNCHANGED allVars
    <3>1. /\ St!RepliesInv
          /\ UNCHANGED <<yaml, edits, overrides, rows, requests, hpc, ticket, body, reply, queue,
                         hup, mpc, serving, tables, loading, engine, writes, wrote, spoiled>>
      BY <2>1 DEF allVars, shared, ofSettings
    <3>2. St!TypeOK'
      BY <3>1, Zenon DEF St!RepliesInv, St!TypeOK
    <3>3. St!TicketsOK'
      BY <3>1 DEF St!RepliesInv, St!TicketsOK
    <3>4. St!LoadingOK'
      BY <3>1 DEF St!RepliesInv, St!LoadingOK, St!Reloading
    <3> QED BY <3>2, <3>3, <3>4 DEF St!RepliesInv
  <2>2. CASE DaemonNext
    <3>1. St!TypeOK /\ St!TicketsOK /\ St!LoadingOK /\ St!Next
      BY <2>2 DEF DaemonNext, St!RepliesInv
    <3>2. St!TypeOK'
      BY <3>1, SettingsTypeOK
    <3>3. St!TicketsOK'
      BY <3>1, SettingsHandlersTickets, SettingsMainTickets DEF St!Next
    <3>4. St!LoadingOK'
      BY <3>1, SettingsHandlersLoading, SettingsMainLoading DEF St!Next
    <3> QED BY <3>2, <3>3, <3>4 DEF St!RepliesInv
  <2> QED BY <2>1, <2>2
<1> QED BY <1>1, <1>2, PTL DEF DaemonSpec

\* A change that is reported as done is in force, whatever other clients, signals
\* and reloads come in between.
THEOREM RepliesAreTrue == DaemonSpec => RepliesTellTheTruth
<1> DEFINE I == which = "settings" => St!RepliesInv
<1>1. I /\ [DaemonNext]_allVars => [which = "settings" => St!RepliesTellTheTruth]_allVars
  <2> SUFFICES ASSUME I, DaemonNext, which = "settings" PROVE St!RepliesTellTheTruth
    OBVIOUS
  <2>1. St!TypeOK /\ St!LoadingOK /\ St!Next
    BY DEF DaemonNext, St!RepliesInv
  <2>2. DOMAIN reply = Clients
    BY <2>1 DEF St!TypeOK
  <2> SUFFICES ASSUME NEW c \in Clients, reply[c] # "ok", reply'[c] = "ok"
               PROVE  /\ engine'.seen >= wrote[c]
                      /\ wrote[c] = writes =>
                           /\ engine'.limits = St!Merged(engine'.yaml.limits, overrides)
                           /\ engine'.rows = rows
    BY DEF St!RepliesTellTheTruth
  <2>3. ~\E d \in Clients :
           \/ St!PutSettings(d) \/ St!WriteEntry(d) \/ St!DeleteSetting(d)
           \/ St!UpsertConnection(d) \/ St!DeleteConnection(d) \/ St!Ask(d) \/ St!Leave(d)
    <3>1. ASSUME NEW d \in Clients,
                 \/ St!PutSettings(d) \/ St!WriteEntry(d) \/ St!DeleteSetting(d)
                 \/ St!UpsertConnection(d) \/ St!DeleteConnection(d) \/ St!Ask(d) \/ St!Leave(d)
          PROVE  FALSE
      <4>1. \/ UNCHANGED reply
            \/ \E r \in {"none", "refused", "error"} : reply' = [reply EXCEPT ![d] = r]
        BY <3>1 DEF St!PutSettings, St!WriteEntry, St!DeleteSetting, St!UpsertConnection,
           St!DeleteConnection, St!Ask, St!Leave, St!GoesOn, St!Answer
      <4> QED BY <2>2, <4>1
    <3> QED BY <3>1
  <2>4. ~St!Fails
    BY <2>1, SettingsDone DEF St!Fails
  <2>5. St!SwapEngine
    <3>1. ~St!Stop
      BY DEF St!Stop
    <3> QED
      BY <2>1, <2>3, <2>4, <3>1
         DEF St!Next, St!MainStep, St!Take, St!LoadConfig, St!CountConnections,
             St!SeedConnections, St!ListConnections, St!ReloadFails, St!Boot, St!EditYaml,
             St!handlers
  <2>6. hpc[c] = "wait" /\ ticket[c] = serving /\ engine' = loading /\ mpc = "build"
    BY <2>1, <2>5, SettingsDone DEF St!SwapEngine
  <2>7. /\ wrote[c] <= loading.seen /\ loading.seen <= writes
        /\ loading.seen = writes =>
             /\ loading.limits = St!Merged(loading.yaml.limits, overrides)
             /\ \A t \in St!ToSet(Tables) \ St!ToSet(tables) : loading.rows[t] = rows[t]
    BY <2>1, <2>6 DEF St!LoadingOK, St!Reloading
  <2>8. /\ loading.seen \in Nat /\ writes \in Nat /\ wrote[c] \in Nat /\ tables = <<>>
        /\ loading.rows \in [St!ToSet(Tables) -> {St!NoRow, "yaml", "api"}]
        /\ rows \in [St!ToSet(Tables) -> {St!NoRow, "yaml", "api"}]
    BY <2>1, <2>6 DEF St!TypeOK
  <2>9. St!ToSet(tables) = {}
    BY <2>8 DEF St!ToSet
  <2>10. wrote[c] = writes => loading.seen = writes
    BY <2>7, <2>8
  <2>11. loading.seen = writes => loading.rows = rows
    BY <2>7, <2>8, <2>9
  <2>12. loading.seen >= wrote[c]
    BY <2>7, <2>8
  <2> QED BY <2>6, <2>7, <2>10, <2>11, <2>12
<1> QED BY <1>1, SettingsInvariant, PTL DEF DaemonSpec, RepliesTellTheTruth
-----------------------------------------------------------------------------
\* The rows after a number of the entries: those after one less, and one entry.
LEMMA RunningDef ==
  ASSUME NEW S, NEW b \in Seq(S), NEW o
  PROVE  St!Running(o, b) =
           [n \in 0..Len(b) |->
              IF n = 0 THEN o ELSE St!ApplyEntry(St!Running(o, b)[n - 1], b[n])]
<1> DEFINE Is(c, m) == c = [n \in 0..m |-> IF n = 0 THEN o ELSE St!ApplyEntry(c[n - 1], b[n])]
           G == {m \in Nat : m <= Len(b) => \E c : Is(c, m)}
<1>1. 0 \in G
  <2>1. Is([n \in 0..0 |-> o], 0)
    OBVIOUS
  <2> QED BY <2>1, Zenon
<1>2. ASSUME NEW m \in Nat, m \in G PROVE m + 1 \in G
  <2> SUFFICES ASSUME m + 1 <= Len(b) PROVE \E c : Is(c, m + 1)
    OBVIOUS
  <2>1. PICK c : Is(c, m)
    BY <1>2
  <2> DEFINE d == [n \in 0..(m + 1) |->
                     IF n <= m THEN c[n] ELSE St!ApplyEntry(c[m], b[m + 1])]
  <2>2. \A n \in 0..m : c[n] = IF n = 0 THEN o ELSE St!ApplyEntry(c[n - 1], b[n])
    BY <2>1
  <2>3. \A n \in 0..(m + 1) : d[n] = IF n = 0 THEN o ELSE St!ApplyEntry(d[n - 1], b[n])
    BY <2>2
  <2>4. Is(d, m + 1)
    BY <2>3
  <2> QED BY <2>4, Zenon
<1>3. Len(b) \in G
  <2> HIDE DEF G
  <2> QED BY <1>1, <1>2, Induction
<1>4. \E c : c = [n \in 0..Len(b) |-> IF n = 0 THEN o ELSE St!ApplyEntry(c[n - 1], b[n])]
  BY <1>3
<1>5. St!Running(o, b) =
        CHOOSE c : c = [n \in 0..Len(b) |->
                          IF n = 0 THEN o ELSE St!ApplyEntry(c[n - 1], b[n])]
  BY DEF St!Running
<1> QED BY <1>4, <1>5, Zenon

\* After the first entry, the others are still to come; after the last, none.
LEMMA AfterFirst ==
  ASSUME NEW S, NEW b \in Seq(S), NEW o, b # <<>>
  PROVE  /\ Len(b) = 1 => St!AfterAll(o, b) = St!ApplyEntry(o, Head(b))
         /\ St!AfterAll(St!ApplyEntry(o, Head(b)), Tail(b)) = St!AfterAll(o, b)
<1> DEFINE t == Tail(b)
           p == St!ApplyEntry(o, Head(b))
<1>1. /\ t \in Seq(S) /\ Len(b) \in Nat \ {0} /\ Len(t) = Len(b) - 1 /\ Head(b) = b[1]
      /\ \A i \in 1..Len(t) : t[i] = b[i + 1]
  BY EmptySeq, HeadTailProperties
<1>2. /\ St!Running(o, b)[0] = o
      /\ \A n \in 1..Len(b) :
           St!Running(o, b)[n] = St!ApplyEntry(St!Running(o, b)[n - 1], b[n])
  BY RunningDef
<1>3. /\ St!Running(p, t)[0] = p
      /\ \A n \in 1..Len(t) :
           St!Running(p, t)[n] = St!ApplyEntry(St!Running(p, t)[n - 1], t[n])
  <2>1. St!Running(p, t) =
          [n \in 0..Len(t) |->
             IF n = 0 THEN p ELSE St!ApplyEntry(St!Running(p, t)[n - 1], t[n])]
    BY <1>1, RunningDef, Zenon
  <2>2. Len(t) \in Nat
    BY <1>1
  <2> HIDE DEF t, p
  <2> QED BY <2>1, <2>2
<1> HIDE DEF t
<1>4. St!Running(o, b)[1] = p
  <2>1. 1 \in 1..Len(b) /\ 1 - 1 = 0
    BY <1>1
  <2> QED BY <1>1, <1>2, <2>1
<1> HIDE DEF p
<1> DEFINE G == {n \in Nat : n <= Len(t) => St!Running(p, t)[n] = St!Running(o, b)[n + 1]}
<1>5. 0 \in G
  BY <1>3, <1>4
<1>6. ASSUME NEW n \in Nat, n \in G PROVE n + 1 \in G
  <2> SUFFICES ASSUME n + 1 <= Len(t)
               PROVE  St!Running(p, t)[n + 1] = St!Running(o, b)[(n + 1) + 1]
    OBVIOUS
  <2>1. /\ n + 1 \in 1..Len(t) /\ (n + 1) + 1 \in 1..Len(b)
        /\ (n + 1) - 1 = n /\ ((n + 1) + 1) - 1 = n + 1 /\ n <= Len(t)
    BY <1>1
  <2>2. St!Running(p, t)[n] = St!Running(o, b)[n + 1]
    BY <1>6, <2>1
  <2>3. t[n + 1] = b[(n + 1) + 1]
    BY <1>1, <2>1
  <2>4. St!Running(p, t)[n + 1] = St!ApplyEntry(St!Running(p, t)[n], t[n + 1])
    BY <1>3, <2>1
  <2>5. St!Running(o, b)[(n + 1) + 1] = St!ApplyEntry(St!Running(o, b)[n + 1], b[(n + 1) + 1])
    BY <1>2, <2>1
  <2> QED BY <2>2, <2>3, <2>4, <2>5
<1>7. Len(t) \in G
  <2>1. Len(t) \in Nat
    BY <1>1
  <2> HIDE DEF G
  <2> QED BY <1>5, <1>6, <2>1, Induction
<1>8. St!Running(p, t)[Len(t)] = St!Running(o, b)[Len(b)]
  <2>1. Len(t) <= Len(t) /\ Len(t) + 1 = Len(b)
    BY <1>1
  <2> QED BY <1>7, <2>1
<1>9. Len(b) = 1 => St!Running(o, b)[Len(b)] = p
  BY <1>4
<1> QED BY <1>8, <1>9 DEF St!AfterAll, p, t

\* A client's step keeps what is stored, or is still to be written, loadable.
LEMMA SettingsHandlersWrites ==
  ASSUME St!TypeOK, St!WritersOK, St!LoneWritesLoad, NEW c \in Clients,
         \/ St!PutSettings(c) \/ St!WriteEntry(c) \/ St!DeleteSetting(c)
         \/ St!UpsertConnection(c) \/ St!DeleteConnection(c) \/ St!Ask(c) \/ St!Leave(c)
  PROVE  St!WritersOK' /\ St!LoneWritesLoad'
<1>0. /\ DOMAIN hpc = Clients /\ DOMAIN body = Clients
      /\ hpc[c] = "write" <=> body[c] # <<>>
      /\ spoiled \in BOOLEAN
  BY DEF St!TypeOK
<1>1. ASSUME spoiled' = FALSE PROVE spoiled = FALSE /\ UNCHANGED yaml
  BY <1>0, <1>1
     DEF St!PutSettings, St!WriteEntry, St!DeleteSetting, St!UpsertConnection,
         St!DeleteConnection, St!Ask, St!Leave, St!file, St!history
<1>2. CASE St!PutSettings(c)
  <2>1. UNCHANGED <<yaml, overrides, spoiled>> /\ hpc[c] = "idle"
    BY <1>2 DEF St!PutSettings, St!Begin, St!file, St!store, St!history
  <2>2. PICK b \in Bodies :
          IF St!Valid(St!Merged(yaml.limits, St!AfterAll(overrides, b)))
          THEN hpc' = [hpc EXCEPT ![c] = "write"] /\ body' = [body EXCEPT ![c] = b]
          ELSE hpc' = [hpc EXCEPT ![c] = "idle"] /\ body' = body
    BY <1>2 DEF St!PutSettings, St!MergeOverrides, St!GoesOn, St!Answer
  <2> QED BY <1>0, <2>1, <2>2 DEF St!WritersOK, St!LoneWritesLoad
<1>3. CASE St!WriteEntry(c)
  <2> SUFFICES ASSUME spoiled' = FALSE PROVE St!WritersOK' /\ St!LoneWritesLoad'
    <3>1. spoiled' = TRUE \/ spoiled' = FALSE
      BY <1>0, <1>3 DEF St!WriteEntry
    <3> QED BY <3>1, Zenon DEF St!WritersOK, St!LoneWritesLoad
  <2>1. /\ hpc[c] = "write" /\ overrides' = St!ApplyEntry(overrides, Head(body[c]))
        /\ body' = [body EXCEPT ![c] = Tail(body[c])]
        /\ IF Len(body[c]) = 1 THEN hpc' = [hpc EXCEPT ![c] = "ask"] ELSE hpc' = hpc
        /\ ~St!Overlapping(c)
    BY <1>3, Zenon DEF St!WriteEntry, St!GoesOn
  <2>2. \A d \in Clients \ {c} : hpc'[d] # "write"
    BY <1>0, <2>1 DEF St!Overlapping
  <2>3. St!Valid(St!Merged(yaml.limits, St!AfterAll(overrides, body[c])))
    BY <1>1, <2>1, Zenon DEF St!WritersOK
  <2>4. /\ Len(body[c]) = 1 =>
             St!AfterAll(overrides, body[c]) = St!ApplyEntry(overrides, Head(body[c]))
        /\ St!AfterAll(St!ApplyEntry(overrides, Head(body[c])), Tail(body[c])) =
             St!AfterAll(overrides, body[c])
    <3>1. body[c] \in Seq([key : St!Keys, value : Nat]) /\ body[c] # <<>>
      BY <1>0, <2>1, Zenon DEF St!TypeOK
    <3> QED BY <3>1, AfterFirst
  <2>5. UNCHANGED yaml
    BY <1>1, Zenon
  <2>6. St!WritersOK'
    <3> SUFFICES ASSUME NEW d \in Clients, hpc'[d] = "write"
                 PROVE  St!Valid(St!Merged(yaml.limits, St!AfterAll(overrides', body'[d])))
      BY <2>5 DEF St!WritersOK
    <3>1. d = c
      BY <2>2
    <3>2. body'[c] = Tail(body[c])
      BY <1>0, <2>1
    <3> QED BY <2>1, <2>3, <2>4, <3>1, <3>2
  <2>7. St!LoneWritesLoad'
    <3> SUFFICES ASSUME hpc'[c] # "write"
                 PROVE  St!Valid(St!Merged(yaml.limits, overrides'))
      BY <2>5 DEF St!LoneWritesLoad
    <3>1. Len(body[c]) = 1
      BY <1>0, <2>1
    <3> QED BY <2>1, <2>3, <2>4, <3>1
  <2> QED BY <2>6, <2>7
<1>4. CASE St!DeleteSetting(c)
  <2> SUFFICES ASSUME spoiled' = FALSE PROVE St!WritersOK' /\ St!LoneWritesLoad'
    <3>1. spoiled' = TRUE \/ spoiled' = FALSE
      BY <1>0, <1>4 DEF St!DeleteSetting
    <3> QED BY <3>1 DEF St!WritersOK, St!LoneWritesLoad
  <2>1. /\ hpc' = [hpc EXCEPT ![c] = "ask"] /\ ~St!Overlapping(c)
        /\ St!Valid(St!Merged(yaml.limits, overrides')) /\ UNCHANGED yaml
    BY <1>1, <1>4, Zenon DEF St!DeleteSetting, St!GoesOn
  <2>2. \A d \in Clients : hpc'[d] # "write"
    BY <1>0, <2>1 DEF St!Overlapping
  <2> QED BY <2>1, <2>2 DEF St!WritersOK, St!LoneWritesLoad
<1>5. CASE \/ St!UpsertConnection(c) \/ St!DeleteConnection(c) \/ St!Ask(c) \/ St!Leave(c)
  <2>1. /\ UNCHANGED <<yaml, overrides, spoiled, body>> /\ hpc[c] # "write"
        /\ \E to \in {"idle", "ask", "wait"} : hpc' = [hpc EXCEPT ![c] = to]
    BY <1>5 DEF St!UpsertConnection, St!DeleteConnection, St!Ask, St!Leave, St!Begin, St!file,
       St!store, St!history, St!GoesOn, St!Answer
  <2>2. \A d \in Clients : hpc'[d] = "write" <=> hpc[d] = "write"
    BY <1>0, <2>1
  <2> QED BY <2>1, <2>2 DEF St!WritersOK, St!LoneWritesLoad
<1> QED BY <1>2, <1>3, <1>4, <1>5

\* The loop, a stop, a boot and an edit of the file keep it.
LEMMA SettingsMainWrites ==
  ASSUME St!TypeOK, St!WritersOK, St!LoneWritesLoad,
         St!MainStep \/ St!Stop \/ St!Boot \/ St!EditYaml
  PROVE  St!WritersOK' /\ St!LoneWritesLoad'
<1>0. spoiled \in BOOLEAN
  BY DEF St!TypeOK
<1>1. CASE St!MainStep \/ St!Boot
  <2>1. UNCHANGED <<yaml, overrides, spoiled, body>>
    BY <1>1 DEF St!MainStep, St!Take, St!LoadConfig, St!CountConnections, St!SeedConnections,
       St!ListConnections, St!SwapEngine, St!ReloadFails, St!Fails, St!Boot, St!file,
       St!store, St!handlers, St!history
  <2>2. \A d \in Clients : hpc'[d] = "write" <=> hpc[d] = "write"
    <3>1. \/ hpc' = hpc
          \/ hpc' = [d \in Clients |->
                       IF d \in {e \in Clients : hpc[e] = "wait" /\ ticket[e] = serving}
                       THEN "idle" ELSE hpc[d]]
      BY <1>1 DEF St!MainStep, St!Take, St!LoadConfig, St!CountConnections, St!SeedConnections,
         St!ListConnections, St!SwapEngine, St!ReloadFails, St!Fails, St!Done, St!Boot,
         St!handlers
    <3> QED BY <3>1
  <2> QED BY <2>1, <2>2 DEF St!WritersOK, St!LoneWritesLoad
<1>2. CASE St!Stop
  <2>1. /\ UNCHANGED <<yaml, overrides>> /\ (\A d \in Clients : hpc'[d] # "write")
        /\ spoiled' = (spoiled \/ \E d \in Clients : hpc[d] = "write")
    BY <1>2 DEF St!Stop, St!file, St!store
  <2> QED BY <1>0, <2>1, Zenon DEF St!WritersOK, St!LoneWritesLoad
<1>3. CASE St!EditYaml
  <2>1. /\ UNCHANGED <<overrides, hpc>>
        /\ spoiled' = (spoiled \/ (\E d \in Clients : hpc[d] = "write")
                               \/ ~St!Valid(St!Merged(yaml'.limits, overrides)))
    BY <1>3 DEF St!EditYaml, St!store, St!handlers
  <2> QED BY <1>0, <2>1, Zenon DEF St!WritersOK, St!LoneWritesLoad
<1> QED BY <1>1, <1>2, <1>3

\* What is stored loads, at a reload and at the next boot, unless one of the events
\* happened that the check before a write cannot see.
THEOREM WritesLoad == DaemonSpec => []LoneWritesLoad
<1> DEFINE I == which = "settings" => St!WritesInv
<1>1. DaemonInit => I
  <2> SUFFICES ASSUME St!Init PROVE St!WritesInv
    BY DEF DaemonInit
  <2>1. St!TypeOK
    BY SettingsInit DEF St!RepliesInv
  <2>2. St!WritersOK /\ St!LoneWritesLoad
    BY DEF St!Init, St!WritersOK, St!LoneWritesLoad
  <2> QED BY <2>1, <2>2 DEF St!WritesInv
<1>2. I /\ [DaemonNext]_allVars => I'
  <2> SUFFICES ASSUME I, [DaemonNext]_allVars, which' = "settings" PROVE St!WritesInv'
    OBVIOUS
  <2>1. CASE UNCHANGED allVars
    <3>1. /\ St!WritesInv
          /\ UNCHANGED <<yaml, edits, overrides, rows, requests, hpc, ticket, body, reply, queue,
                         hup, mpc, serving, tables, loading, engine, writes, wrote, spoiled>>
      BY <2>1 DEF allVars, shared, ofSettings
    <3>2. St!TypeOK'
      BY <3>1, Zenon DEF St!WritesInv, St!TypeOK
    <3>3. St!WritersOK' /\ St!LoneWritesLoad'
      BY <3>1 DEF St!WritesInv, St!WritersOK, St!LoneWritesLoad
    <3> QED BY <3>2, <3>3 DEF St!WritesInv
  <2>2. CASE DaemonNext
    <3>1. St!TypeOK /\ St!WritersOK /\ St!LoneWritesLoad /\ St!Next
      BY <2>2 DEF DaemonNext, St!WritesInv
    <3>2. St!TypeOK'
      BY <3>1, SettingsTypeOK
    <3>3. St!WritersOK' /\ St!LoneWritesLoad'
      BY <3>1, SettingsHandlersWrites, SettingsMainWrites DEF St!Next
    <3> QED BY <3>2, <3>3 DEF St!WritesInv
  <2> QED BY <2>1, <2>2
<1>3. I => LoneWritesLoad
  BY DEF LoneWritesLoad, St!WritesInv
<1> QED BY <1>1, <1>2, <1>3, PTL DEF DaemonSpec
-----------------------------------------------------------------------------
\* What a filter keeps is in its set.
LEMMA FilterKeeps ==
  ASSUME NEW S, NEW s \in Seq(S), NEW K
  PROVE  Filter(s, K) \in Seq(K \cap S)
<1> DEFINE G == {n \in Nat : n <= Len(s) => RunningFilter(s, K)[n] \in Seq(K \cap S)}
<1>1. 0 \in G
  <2>1. RunningFilter(s, K)[0] = <<>> /\ <<>> \in Seq(K \cap S)
    BY FilterStep
  <2> QED BY <2>1, Zenon
<1>2. ASSUME NEW n \in Nat, n \in G PROVE n + 1 \in G
  <2> SUFFICES ASSUME n + 1 <= Len(s) PROVE RunningFilter(s, K)[n + 1] \in Seq(K \cap S)
    OBVIOUS
  <2>1. n + 1 \in 1..Len(s) /\ (n + 1) - 1 = n /\ s[n + 1] \in S
    OBVIOUS
  <2>2. RunningFilter(s, K)[n] \in Seq(K \cap S)
    BY <1>2
  <2>3. RunningFilter(s, K)[n + 1] = IF s[n + 1] \in K THEN Append(RunningFilter(s, K)[n], s[n + 1])
                                     ELSE RunningFilter(s, K)[n]
    BY <2>1, FilterStep
  <2> QED BY <2>1, <2>2, <2>3
<1>3. Nat \subseteq G
  <2> HIDE DEF G
  <2> QED BY <1>1, <1>2, Induction
<1>4. RunningFilter(s, K)[Len(s)] \in Seq(K \cap S)
  BY <1>3
<1> QED BY <1>4 DEF Filter

\* The rows that a query returns.
LEMMA HealthListed ==
  ASSUME He!TypeOK, phase # 0
  PROVE  /\ phase \in DOMAIN Lists
         /\ [i \in DOMAIN He!Listed |-> <<He!Listed[i], rows[He!Listed[i]]>>]
              \in Seq(He!Components \X {"up", "down"})
<1> DEFINE K == {c \in He!Components : rows[c] # "none"}
<1>1. phase \in 1..Len(Lists) /\ Lists \in Seq(Seq(He!Components))
  BY HealthAssumption DEF He!TypeOK
<1>2. phase \in DOMAIN Lists /\ Lists[phase] \in Seq(He!Components)
  BY <1>1
<1>3. He!Listed = Filter(Lists[phase], K)
  BY DEF He!Listed, He!Filter, He!RunningFilter, Filter, RunningFilter
<1>4. He!Listed \in Seq(K \cap He!Components)
  BY <1>2, <1>3, FilterKeeps
<1>5. \A c \in K : rows[c] \in {"up", "down"}
  BY DEF He!TypeOK
<1> HIDE DEF K
<1>6. /\ Len(He!Listed) \in Nat /\ DOMAIN He!Listed = 1..Len(He!Listed)
      /\ \A i \in DOMAIN He!Listed : He!Listed[i] \in K /\ He!Listed[i] \in He!Components
  BY <1>4
<1>7. \A i \in DOMAIN He!Listed :
        <<He!Listed[i], rows[He!Listed[i]]>> \in He!Components \X {"up", "down"}
  BY <1>5, <1>6
<1> QED BY <1>2, <1>6, <1>7

\* The first of the rows that are still to be reconciled.
LEMMA HealthFirst ==
  ASSUME He!TypeOK, todo # <<>>
  PROVE  He!Component \in He!Components /\ todo[1][2] \in {"up", "down"}
<1>1. Len(todo) \in Nat \ {0} /\ todo \in Seq(He!Components \X {"up", "down"})
  BY EmptySeq DEF He!TypeOK
<1>2. todo[1] \in He!Components \X {"up", "down"}
  BY <1>1
<1> QED BY <1>2 DEF He!Component

\* The row is done with: the next one, the next list, or the end of the tick.
LEMMA HealthNextRow ==
  ASSUME He!TypeOK, todo # <<>>, He!NextRow
  PROVE  /\ todo' \in Seq(He!Components \X {"up", "down"})
         /\ event' = "none" /\ admit' = <<>>
         /\ pc' \in {"idle", "list", "read"} /\ (pc' = "read" <=> todo' # <<>>)
         /\ phase' \in 0..Len(Lists) /\ (pc' # "idle" => phase' # 0)
<1>1. /\ todo' = Tail(todo) /\ event' = "none" /\ admit' = <<>>
      /\ \/ Len(todo) = 1 /\ He!EndOfList(phase)
         \/ Len(todo) # 1 /\ pc' = "read" /\ phase' = phase
  BY DEF He!NextRow
<1>2. todo' \in Seq(He!Components \X {"up", "down"}) /\ (Len(todo) = 1 <=> todo' = <<>>)
  <2>1. todo \in Seq(He!Components \X {"up", "down"})
    BY DEF He!TypeOK
  <2> QED BY <1>1, <2>1, TailOfList
<1>3. phase \in 1..Len(Lists)
  BY HealthAssumption DEF He!TypeOK
<1>4. CASE Len(todo) = 1 /\ He!EndOfList(phase)
  <2>1. pc' \in {"idle", "list"} /\ phase' \in 0..Len(Lists) /\ (pc' # "idle" => phase' # 0)
    BY <1>3, <1>4, HealthAssumption DEF He!EndOfList
  <2> QED BY <1>1, <1>2, <1>4, <2>1
<1>5. CASE Len(todo) # 1 /\ pc' = "read" /\ phase' = phase
  BY <1>1, <1>2, <1>3, <1>5
<1> QED BY <1>1, <1>4, <1>5

\* Every step preserves the types.
LEMMA HealthTypeOK ==
  ASSUME He!TypeOK, He!Next
  PROVE  He!TypeOK'
<1> DEFINE P == He!ToSet(Providers)
           Row == He!Components \X {"up", "down"}
           Watch == /\ pc \in {"idle", "list", "read", "send", "record"}
                    /\ phase \in 0..Len(Lists) /\ (pc # "idle" => phase # 0)
                    /\ todo \in Seq(Row)
                    /\ (pc \in {"read", "send", "record"}) <=> (todo # <<>>)
                    /\ event \in {"none", "degraded", "recovered"}
                    /\ (pc \in {"send", "record"}) <=> (event # "none")
                    /\ admit \in Seq(P) /\ (pc = "send" <=> admit # <<>>)
<1>0. <<>> \in Seq(Row) /\ <<>> \in Seq(P)
  OBVIOUS
<1>1. rows' \in [He!Components -> {"none", "up", "down"}]
  <2>1. \/ rows' = rows
        \/ \E c \in He!Components, h \in {"up", "down"} : rows' = [rows EXCEPT ![c] = h]
    BY DEF He!Next, He!RecordHealth, He!Tick, He!ListInstances, He!ReadState, He!Send,
       He!RecordState, He!Restart
  <2>2. rows \in [He!Components -> {"none", "up", "down"}]
    BY DEF He!TypeOK
  <2> QED BY <2>1, <2>2
<1>2. alerted' \subseteq He!Components /\ unrecorded' \subseteq He!Components
  <2>1. alerted \subseteq He!Components /\ unrecorded \subseteq He!Components
    BY DEF He!TypeOK
  <2>2. CASE He!RecordState
    <3>1. He!Component \in He!Components
      BY <2>2, HealthFirst DEF He!RecordState, He!TypeOK
    <3> QED BY <2>1, <2>2, <3>1 DEF He!RecordState
  <2>3. CASE He!Restart
    <3>1. pc \in {"send", "record"} => He!Component \in He!Components
      BY HealthFirst DEF He!TypeOK
    <3> QED BY <2>1, <2>3, <3>1 DEF He!Restart
  <2>4. CASE ~He!RecordState /\ ~He!Restart
    <3>1. alerted' = alerted /\ unrecorded' = unrecorded
      BY <2>4 DEF He!Next, He!RecordHealth, He!Tick, He!ListInstances, He!ReadState, He!Send
    <3> QED BY <2>1, <3>1
  <2> QED BY <2>2, <2>3, <2>4
<1>3. balance' \in [P -> [He!Components -> Int]]
  <2>1. balance \in [P -> [He!Components -> Int]]
    BY DEF He!TypeOK
  <2>2. CASE He!Send
    <3>1. admit \in Seq(P) /\ admit # <<>>
      BY <2>2 DEF He!Send, He!TypeOK
    <3>2. admit[1] \in P
      BY <3>1, EmptySeq
    <3>3. \/ balance' = balance
          \/ \E d \in Int : balance' = [balance EXCEPT ![admit[1]][He!Component] = @ + d]
      <4>1. (IF event = "degraded" THEN 1 ELSE -1) \in Int
        OBVIOUS
      <4> QED BY <2>2, <4>1, Zenon DEF He!Send
    <3>4. He!Component \in He!Components
      BY <2>2, HealthFirst DEF He!Send, He!TypeOK
    <3> DEFINE c == He!Component
    <3>5. \A d \in Int : balance[admit[1]][c] + d \in Int
      BY <2>1, <3>2, <3>4
    <3> HIDE DEF c, P
    <3>6. c \in He!Components
      BY <3>4 DEF c
    <3>7. ASSUME NEW d \in Int, balance' = [balance EXCEPT ![admit[1]][c] = @ + d]
          PROVE  balance' \in [P -> [He!Components -> Int]]
      <4> DEFINE row == [balance[admit[1]] EXCEPT ![c] = balance[admit[1]][c] + d]
      <4>1. row \in [He!Components -> Int]
        BY <2>1, <3>2, <3>5, <3>6
      <4>2. balance' = [balance EXCEPT ![admit[1]] = row]
        BY <3>7
      <4> HIDE DEF row
      <4> QED BY <2>1, <4>1, <4>2, Zenon
    <3> QED BY <2>1, <3>3, <3>7, Zenon DEF c
  <2>3. CASE ~He!Send
    <3>1. balance' = balance
      BY <2>3 DEF He!Next, He!RecordHealth, He!Tick, He!ListInstances, He!ReadState,
         He!RecordState, He!Restart
    <3> QED BY <2>1, <3>1
  <2> QED BY <2>2, <2>3
<1>4. Watch'
  <2>0. Watch
    BY DEF He!TypeOK
  <2>1. CASE \E c \in He!Components : He!RecordHealth(c)
    <3>1. UNCHANGED <<pc, phase, todo, event, admit>>
      BY <2>1 DEF He!RecordHealth, He!watcher
    <3> QED BY <2>0, <3>1
  <2>2. CASE He!Tick
    <3>1. 1 \in 0..Len(Lists)
      BY HealthAssumption, EmptySeq
    <3> QED BY <2>0, <2>2, <3>1 DEF He!Tick
  <2>3. CASE He!ListInstances
    <3>1. /\ pc = "list" /\ todo = <<>> /\ UNCHANGED <<event, admit>>
          /\ \/ /\ todo' = [i \in DOMAIN He!Listed |-> <<He!Listed[i], rows[He!Listed[i]]>>]
                /\ \/ todo' = <<>> /\ He!EndOfList(phase)
                   \/ todo' # <<>> /\ pc' = "read" /\ phase' = phase
             \/ pc' = "idle" /\ phase' = 0 /\ todo' = todo
      BY <2>0, <2>3 DEF He!ListInstances
    <3>2. todo' \in Seq(Row)
      BY <2>0, <3>1, HealthListed, Zenon
    <3>3. phase \in 1..Len(Lists) /\ 0 \in 0..Len(Lists)
      BY <2>0, <3>1, HealthAssumption
    <3>4. CASE todo' = <<>> /\ He!EndOfList(phase)
      <4>1. pc' \in {"idle", "list"} /\ phase' \in 0..Len(Lists) /\ (pc' # "idle" => phase' # 0)
        BY <3>3, <3>4, HealthAssumption DEF He!EndOfList
      <4> QED BY <2>0, <3>1, <3>2, <3>4, <4>1
    <3>5. CASE ~(todo' = <<>> /\ He!EndOfList(phase))
      BY <2>0, <3>1, <3>2, <3>3, <3>5
    <3> QED BY <3>4, <3>5
  <2>4. CASE He!ReadState
    <3>1. /\ pc = "read" /\ todo # <<>>
          /\ \/ /\ event' \in {"degraded", "recovered"} /\ admit' = Providers /\ pc' = "send"
                /\ UNCHANGED <<phase, todo>>
             \/ He!NextRow
      BY <2>0, <2>4 DEF He!ReadState
    <3>2. CASE He!NextRow
      BY <1>0, <3>1, <3>2, HealthNextRow
    <3>3. CASE ~He!NextRow
      BY <2>0, <3>1, <3>3, HealthAssumption
    <3> QED BY <3>2, <3>3
  <2>5. CASE He!Send
    <3>1. /\ pc = "send" /\ admit \in Seq(P) /\ admit # <<>> /\ admit' = Tail(admit)
          /\ pc' = (IF Len(admit) = 1 THEN "record" ELSE "send")
          /\ UNCHANGED <<phase, todo, event>>
      BY <2>0, <2>5 DEF He!Send
    <3>2. admit' \in Seq(P) /\ (Len(admit) = 1 <=> admit' = <<>>)
      BY <3>1, TailOfList
    <3> HIDE DEF P
    <3> QED BY <2>0, <3>1, <3>2
  <2>6. CASE He!RecordState
    <3>1. pc = "record" /\ todo # <<>> /\ He!NextRow
      BY <2>0, <2>6 DEF He!RecordState
    <3> QED BY <1>0, <3>1, HealthNextRow
  <2>7. CASE He!Restart
    BY <1>0, <2>0, <2>7, HealthAssumption DEF He!Restart
  <2> QED BY <2>1, <2>2, <2>3, <2>4, <2>5, <2>6, <2>7 DEF He!Next
<1> QED BY <1>1, <1>2, <1>3, <1>4, Zenon DEF He!TypeOK

\* The provider that was told is gone through, and no other.
LEMMA HealthTold ==
  ASSUME He!TypeOK, He!AnnouncingOK, He!Send
  PROVE  /\ admit[1] \in He!ToSet(Providers)
         /\ \A i, j \in DOMAIN admit' : admit'[i] = admit'[j] => i = j
         /\ \A i \in DOMAIN admit' : admit'[i] # admit[1]
         /\ \A p : p # admit[1] =>
              ((\A i \in DOMAIN admit' : admit'[i] # p) <=> (\A i \in DOMAIN admit : admit[i] # p))
<1> DEFINE P == He!ToSet(Providers)
<1>1. /\ admit \in Seq(P) /\ Len(admit) \in Nat \ {0} /\ admit' = Tail(admit)
      /\ \A i, j \in DOMAIN admit : admit[i] = admit[j] => i = j
  <2>1. admit \in Seq(P) /\ admit # <<>> /\ admit' = Tail(admit)
    BY DEF He!TypeOK, He!Send
  <2>2. \A i, j \in DOMAIN admit : admit[i] = admit[j] => i = j
    BY DEF He!Send, He!AnnouncingOK
  <2> QED BY <2>1, <2>2, EmptySeq
<1> HIDE DEF P
<1>2. /\ DOMAIN admit = 1..Len(admit) /\ DOMAIN admit' = 1..(Len(admit) - 1)
      /\ \A i \in DOMAIN admit' : admit'[i] = admit[i + 1]
  BY <1>1
<1>3. admit[1] \in P
  BY <1>1
<1>4. \A i \in DOMAIN admit' : i + 1 \in DOMAIN admit /\ i + 1 # 1
  BY <1>1, <1>2
<1>5. 1 \in DOMAIN admit /\ \A i \in DOMAIN admit \ {1} : i - 1 \in DOMAIN admit' /\ (i - 1) + 1 = i
  BY <1>1, <1>2
<1>6. \A i, j \in DOMAIN admit' : admit'[i] = admit'[j] => i = j
  <2> TAKE i, j \in DOMAIN admit'
  <2>1. admit'[i] = admit'[j] => i + 1 = j + 1
    BY <1>1, <1>2, <1>4
  <2>2. i \in Nat /\ j \in Nat
    BY <1>1, <1>2
  <2> QED BY <2>1, <2>2
<1>7. \A i \in DOMAIN admit' : admit'[i] # admit[1]
  BY <1>1, <1>2, <1>4, <1>5
<1>8. ASSUME NEW p, p # admit[1]
      PROVE  (\A i \in DOMAIN admit' : admit'[i] # p) <=> (\A i \in DOMAIN admit : admit[i] # p)
  <2>1. ASSUME \A i \in DOMAIN admit : admit[i] # p, NEW i \in DOMAIN admit' PROVE admit'[i] # p
    BY <1>2, <1>4, <2>1
  <2>2. ASSUME \A i \in DOMAIN admit' : admit'[i] # p, NEW i \in DOMAIN admit PROVE admit[i] # p
    <3>1. CASE i = 1
      BY <1>8, <3>1
    <3>2. CASE i # 1
      BY <1>2, <1>5, <2>2, <3>2
    <3> QED BY <3>1, <3>2
  <2> QED BY <2>1, <2>2
<1> QED BY <1>3, <1>6, <1>7, <1>8 DEF P

\* What is announced is what the table does not have, to each provider once.
LEMMA HealthAnnouncing ==
  ASSUME He!TypeOK, He!AnnouncingOK, He!Next
  PROVE  He!AnnouncingOK'
<1>1. CASE \E c \in He!Components : He!RecordHealth(c)
  <2>1. UNCHANGED <<pc, todo, event, admit, alerted>>
    BY <1>1 DEF He!RecordHealth, He!watcher
  <2> QED BY <2>1 DEF He!AnnouncingOK, He!Component
<1>2. CASE He!Tick \/ He!ListInstances \/ He!RecordState \/ He!Restart
  <2>1. pc' \in {"idle", "list", "read"}
    BY <1>2, HealthNextRow DEF He!Tick, He!ListInstances, He!RecordState, He!Restart,
       He!EndOfList, He!TypeOK
  <2> QED BY <2>1 DEF He!AnnouncingOK
<1>3. CASE He!ReadState
  <2>1. CASE He!NextRow
    <3>1. pc' \in {"idle", "list", "read"}
      BY <1>3, <2>1, HealthNextRow DEF He!ReadState, He!TypeOK
    <3> QED BY <3>1 DEF He!AnnouncingOK
  <2>2. CASE ~He!NextRow
    <3>1. /\ He!Healthy = (He!Component \in alerted) /\ UNCHANGED <<todo, alerted>>
          /\ event' = (IF He!Healthy THEN "recovered" ELSE "degraded") /\ admit' = Providers
      BY <1>3, <2>2 DEF He!ReadState
    <3>2. (event' = "recovered") <=> (He!Component \in alerted)
      BY <3>1, Zenon
    <3>3. He!Component' = He!Component
      BY <3>1 DEF He!Component
    <3> QED BY <3>1, <3>2, <3>3, HealthAssumption DEF He!AnnouncingOK
  <2> QED BY <2>1, <2>2
<1>4. CASE He!Send
  <2>1. pc = "send" /\ UNCHANGED <<alerted, todo, event>>
    BY <1>4 DEF He!Send
  <2>2. He!Component' = He!Component
    BY <2>1 DEF He!Component
  <2>3. (event = "recovered") <=> (He!Component \in alerted)
    BY <2>1 DEF He!AnnouncingOK
  <2>4. \A i, j \in DOMAIN admit' : admit'[i] = admit'[j] => i = j
    BY <1>4, HealthTold
  <2> QED BY <2>1, <2>2, <2>3, <2>4 DEF He!AnnouncingOK
<1> QED BY <1>1, <1>2, <1>3, <1>4 DEF He!Next

\* The balance is of what was announced and recorded.
LEMMA HealthBalance ==
  ASSUME He!TypeOK, He!AnnouncingOK, He!BalanceOK, He!Next
  PROVE  He!BalanceOK'
<1> DEFINE P == He!ToSet(Providers)
           Speaks == pc \in {"send", "record"}
           Past(p) == \A i \in DOMAIN admit : admit[i] # p
           Heard(p, c) == IF Speaks /\ He!Component = c /\ Past(p)
                          THEN IF event = "degraded" THEN 1 ELSE 0
                          ELSE IF c \in alerted THEN 1 ELSE 0
<1>0. \A p \in P : \A c \in He!Components \ unrecorded :
        He!AllowsBoth(p) => balance[p][c] = Heard(p, c)
  BY DEF He!BalanceOK
<1> SUFFICES ASSUME NEW p \in P, NEW c \in He!Components \ unrecorded', He!AllowsBoth(p)
             PROVE  balance'[p][c] = Heard(p, c)'
  BY DEF He!BalanceOK
<1>1. CASE \E d \in He!Components : He!RecordHealth(d)
  <2>1. UNCHANGED <<pc, todo, event, admit, alerted, balance, unrecorded>>
    BY <1>1 DEF He!RecordHealth, He!watcher
  <2>2. He!Component' = He!Component
    BY <2>1 DEF He!Component
  <2> QED BY <1>0, <2>1, <2>2
<1>2. CASE He!Tick \/ He!ListInstances
  <2>1. ~Speaks /\ ~Speaks' /\ UNCHANGED <<alerted, balance, unrecorded>>
    BY <1>2 DEF He!Tick, He!ListInstances, He!EndOfList
  <2> QED BY <1>0, <2>1
<1>3. CASE He!ReadState
  <2>1. ~Speaks /\ UNCHANGED <<alerted, balance, unrecorded>>
    BY <1>3 DEF He!ReadState
  <2>2. ~Speaks' \/ ~Past(p)'
    <3>1. CASE He!NextRow
      BY <1>3, <3>1, HealthNextRow, Zenon DEF He!ReadState, He!TypeOK
    <3>2. CASE admit' = Providers
      <4>1. PICK i \in DOMAIN Providers : Providers[i] = p
        BY DEF He!ToSet
      <4> QED BY <3>2, <4>1
    <3> QED BY <1>3, <3>1, <3>2 DEF He!ReadState
  <2> QED BY <1>0, <2>1, <2>2
<1>4. CASE He!Send
  <2>1. /\ pc = "send" /\ pc' \in {"send", "record"}
        /\ UNCHANGED <<alerted, todo, event, unrecorded>>
    BY <1>4 DEF He!Send
  <2>2. He!Component' = He!Component /\ Speaks /\ Speaks'
    BY <2>1 DEF He!Component
  <2>3. /\ balance \in [P -> [He!Components -> Int]] /\ admit[1] \in P /\ admit # <<>>
        /\ He!Component \in He!Components /\ event \in {"degraded", "recovered"}
    BY <1>4, <2>1, HealthTold, HealthFirst, Zenon DEF He!TypeOK
  <2>4. CASE p = admit[1] /\ c = He!Component
    <3>1. He!Allows(admit[1], event) /\ c \notin unrecorded
      BY <2>1, <2>3, <2>4 DEF He!AllowsBoth
    <3>2. balance' = [balance EXCEPT ![admit[1]][He!Component] =
                        @ + (IF event = "degraded" THEN 1 ELSE -1)]
      BY <1>4, <2>4, <3>1 DEF He!Send
    <3>3. balance'[p][c] = balance[p][c] + (IF event = "degraded" THEN 1 ELSE -1)
      BY <2>3, <2>4, <3>2
    <3>4. ~Past(p) /\ Past(p)'
      <4>1. 1 \in DOMAIN admit
        <5>1. admit \in Seq(P) /\ Len(admit) \in Nat \ {0}
          BY <2>3, EmptySeq DEF He!TypeOK
        <5> QED BY <5>1
      <4> QED BY <1>4, <2>4, <4>1, HealthTold
    <3>5. balance[p][c] = IF c \in alerted THEN 1 ELSE 0
      BY <1>0, <3>1, <3>4
    <3>6. event = "recovered" <=> c \in alerted
      BY <2>1, <2>4 DEF He!AnnouncingOK
    <3>7. balance'[p][c] = IF event = "degraded" THEN 1 ELSE 0
      BY <2>3, <3>3, <3>5, <3>6
    <3> QED BY <2>1, <2>2, <2>4, <3>4, <3>7
  <2>5. CASE ~(p = admit[1] /\ c = He!Component)
    <3>1. balance'[p][c] = balance[p][c]
      <4>1. \/ balance' = balance
            \/ balance' = [balance EXCEPT ![admit[1]][He!Component] =
                             @ + (IF event = "degraded" THEN 1 ELSE -1)]
        BY <1>4 DEF He!Send
      <4> QED BY <2>3, <2>5, <4>1
    <3>2. He!Component = c => (Past(p)' <=> Past(p))
      BY <1>4, <2>5, HealthTold
    <3> QED BY <1>0, <2>1, <2>2, <3>1, <3>2
  <2> QED BY <2>4, <2>5
<1>5. CASE He!RecordState
  <2>1. /\ pc = "record" /\ UNCHANGED balance
        /\ \/ /\ alerted' = (IF event = "degraded" THEN alerted \cup {He!Component}
                             ELSE alerted \ {He!Component})
              /\ UNCHANGED unrecorded
           \/ unrecorded' = unrecorded \cup {He!Component} /\ UNCHANGED alerted
    BY <1>5 DEF He!RecordState
  <2>2. ~Speaks'
    BY <1>5, HealthNextRow, Zenon DEF He!RecordState, He!TypeOK
  <2>3. Past(p)
    <3>1. admit = <<>>
      BY <2>1 DEF He!TypeOK
    <3> QED BY <3>1
  <2>4. balance[p][c] = Heard(p, c)
    BY <1>0, <2>1
  <2> QED BY <2>1, <2>2, <2>3, <2>4
<1>6. CASE He!Restart
  <2>1. /\ ~Speaks' /\ UNCHANGED <<alerted, balance>>
        /\ unrecorded' = (IF Speaks THEN unrecorded \cup {He!Component} ELSE unrecorded)
    BY <1>6 DEF He!Restart
  <2> QED BY <1>0, <2>1
<1> QED BY <1>1, <1>2, <1>3, <1>4, <1>5, <1>6 DEF He!Next

\* A provider that admits both events gets, of one component, a loss and a recovery
\* in turn, and the table tells which of them it heard last.
THEOREM AnnouncedInTurn == DaemonSpec => []AnnouncementsAlternate
<1> DEFINE I == which = "health" => He!IInv
<1>1. DaemonInit => I
  <2> SUFFICES ASSUME He!Init PROVE He!IInv
    BY DEF DaemonInit
  <2> DEFINE P == He!ToSet(Providers)
  <2>1. <<>> \in Seq(He!Components \X {"up", "down"}) /\ <<>> \in Seq(P) /\ Len(Lists) \in Nat
    BY HealthAssumption
  <2>2. balance = [p \in P |-> [c \in He!Components |-> 0]]
    BY DEF He!Init
  <2>3. balance \in [P -> [He!Components -> Int]]
    BY <2>2
  <2>4. He!TypeOK
    BY <2>1, <2>3 DEF He!Init, He!TypeOK
  <2>5. He!AnnouncingOK /\ He!BalanceOK
    BY <2>2 DEF He!Init, He!AnnouncingOK, He!BalanceOK
  <2> QED BY <2>4, <2>5 DEF He!IInv
<1>2. I /\ [DaemonNext]_allVars => I'
  <2> SUFFICES ASSUME I, [DaemonNext]_allVars, which' = "health" PROVE He!IInv'
    OBVIOUS
  <2>1. CASE UNCHANGED allVars
    <3>1. /\ He!IInv
          /\ UNCHANGED <<rows, pc, alerted, phase, todo, event, admit, balance, unrecorded>>
      BY <2>1 DEF allVars, shared, ofHealth
    <3>2. He!TypeOK'
      BY <3>1 DEF He!IInv, He!TypeOK
    <3>3. He!AnnouncingOK' /\ He!BalanceOK'
      BY <3>1 DEF He!IInv, He!AnnouncingOK, He!BalanceOK, He!Component
    <3> QED BY <3>2, <3>3 DEF He!IInv
  <2>2. CASE DaemonNext
    <3>1. He!TypeOK /\ He!AnnouncingOK /\ He!BalanceOK /\ He!Next
      BY <2>2 DEF DaemonNext, He!IInv
    <3> QED BY <3>1, HealthTypeOK, HealthAnnouncing, HealthBalance DEF He!IInv
  <2> QED BY <2>1, <2>2
<1>3. I => AnnouncementsAlternate
  <2> SUFFICES ASSUME He!BalanceOK PROVE He!AnnouncementsAlternate
    BY DEF AnnouncementsAlternate, He!IInv
  <2> QED BY DEF He!BalanceOK, He!AnnouncementsAlternate
<1> QED BY <1>1, <1>2, <1>3, PTL DEF DaemonSpec
-----------------------------------------------------------------------------
\* The imports.

\* Imports counts as the library does.
LEMMA ImportsCount == \A S : Im!Cardinality(S) = Cardinality(S)
BY DEF Im!Cardinality, Cardinality

\* A set of numbers with a bound has a greatest one.
LEMMA GreatestOf ==
  ASSUME NEW T \in SUBSET Nat, T # {}, NEW b \in Nat, \A x \in T : x <= b
  PROVE  Im!Max(T) \in T /\ \A x \in T : x <= Im!Max(T)
<1>1. \E m \in T : \A y \in T : m >= y
  <2>1. PICK m \in T : \A y \in T : y <= m
    BY GreatestNat, Zenon
  <2> QED BY <2>1
<1> QED BY <1>1, Zenon DEF Im!Max

\* The numbers of the pages.
LEMMA Offsets ==
  ASSUME NEW p \in Nat \ {0}
  PROVE  /\ (p - 1) * PageSize \in Nat
         /\ p * PageSize = (p - 1) * PageSize + PageSize
         /\ (p - 2) * PageSize = (p - 1) * PageSize - PageSize
         /\ ((p + 1) - 1) * PageSize = (p - 1) * PageSize + PageSize
         /\ ((p + 1) - 2) * PageSize = (p - 1) * PageSize
         /\ p = 1 => (p - 1) * PageSize = 0
<1>1. PageSize \in Nat /\ p - 1 \in Nat
  BY ImportsAssumption
<1>2. (p - 1) * PageSize \in Nat
  BY <1>1
<1>3. p * PageSize = (p - 1) * PageSize + PageSize
  BY <1>1
<1>4. (p - 2) * PageSize = (p - 1) * PageSize - PageSize
  BY <1>1
<1>5. (p + 1) - 1 = p /\ (p + 1) - 2 = p - 1
  BY <1>1
<1>6. p = 1 => (p - 1) * PageSize = 0
  BY <1>1
<1> QED BY <1>2, <1>3, <1>4, <1>5, <1>6

\* A record has the more before it the older it is.
LEMMA Ranks ==
  ASSUME Im!TypeOK
  PROVE  /\ listed \subseteq 1..Len(records) /\ Len(records) \in Nat
         /\ Cardinality(listed) \in Nat
         /\ \A n \in Nat : Im!Rank(n) \in Nat /\ Im!Rank(n) <= Cardinality(listed)
         /\ \A m, n \in Nat : m <= n => Im!Rank(n) <= Im!Rank(m)
         /\ \A m \in Nat, n \in listed : m < n => Im!Rank(n) + 1 <= Im!Rank(m)
         /\ Im!Rank(Len(records)) = 0
<1> DEFINE After(n) == {m \in listed : m > n}
<1>1. /\ listed \subseteq 1..Len(records) /\ Len(records) \in Nat
      /\ \A x \in listed : x \in Nat /\ x <= Len(records)
  BY DEF Im!TypeOK
<1>2. IsFiniteSet(listed)
  <2>1. IsFiniteSet(1..Len(records))
    BY <1>1, FS_Interval
  <2> QED BY <1>1, <2>1, FS_Subset, Zenon
<1>3. \A n : IsFiniteSet(After(n)) /\ Cardinality(After(n)) <= Cardinality(listed)
  <2> TAKE n
  <2>1. After(n) \in SUBSET listed
    OBVIOUS
  <2> HIDE DEF After
  <2> QED BY <1>2, <2>1, FS_Subset
<1>4. Cardinality(listed) \in Nat /\ \A n : Cardinality(After(n)) \in Nat
  BY <1>2, <1>3, FS_CardinalityType
<1>5. ASSUME NEW m \in Nat, NEW n \in Nat, m <= n
      PROVE  Cardinality(After(n)) <= Cardinality(After(m))
  <2>1. \A x \in listed : x > n => x > m
    BY <1>1, <1>5
  <2>2. After(n) \in SUBSET After(m)
    BY <2>1
  <2> HIDE DEF After
  <2> QED BY <1>3, <2>2, FS_Subset
<1>6. ASSUME NEW m \in Nat, NEW n \in listed, m < n
      PROVE  Cardinality(After(n)) + 1 <= Cardinality(After(m))
  <2>0. n > m /\ ~(n > n) /\ \A x \in listed : x > n => x > m
    BY <1>1, <1>6
  <2>1. After(n) \cup {n} \in SUBSET After(m) /\ n \notin After(n)
    BY <2>0
  <2> HIDE DEF After
  <2>2. Cardinality(After(n) \cup {n}) = Cardinality(After(n)) + 1
    BY <1>3, <2>1, FS_AddElement, Zenon
  <2>3. Cardinality(After(n) \cup {n}) <= Cardinality(After(m))
    BY <1>3, <2>1, FS_Subset
  <2> QED BY <2>2, <2>3
<1>7. Cardinality(After(Len(records))) = 0
  <2>1. \A x \in listed : ~(x > Len(records))
    BY <1>1
  <2>2. After(Len(records)) = {}
    BY <2>1
  <2> QED BY <2>2, FS_EmptySet, Zenon
<1>8. \A n : Im!Rank(n) = Cardinality(After(n))
  BY ImportsCount DEF Im!Rank
<1> HIDE DEF After
<1> QED BY <1>1, <1>3, <1>4, <1>5, <1>6, <1>7, <1>8, Zenon

\* A record more is before all the others.
LEMMA RankGrows ==
  ASSUME Im!TypeOK, listed' = listed \cup {Len(records) + 1}
  PROVE  \A n \in 0..Len(records) : (Im!Rank(n))' = Im!Rank(n) + 1
<1> TAKE n \in 0..Len(records)
<1> DEFINE After == {m \in listed : m > n}
           L == Len(records) + 1
<1>1. listed \subseteq 1..Len(records) /\ Len(records) \in Nat
  BY Ranks
<1>2. {m \in listed' : m > n} = After \cup {L} /\ L \notin After
  BY <1>1
<1>3. IsFiniteSet(After)
  <2>1. IsFiniteSet(1..Len(records))
    BY <1>1, FS_Interval
  <2>2. After \in SUBSET (1..Len(records))
    BY <1>1, Zenon
  <2> QED BY <2>1, <2>2, FS_Subset
<1> HIDE DEF After, L
<1>4. Cardinality(After \cup {L}) = Cardinality(After) + 1
  BY <1>2, <1>3, FS_AddElement
<1>5. Im!Rank(n) = Cardinality(After) /\ (Im!Rank(n))' = Cardinality({m \in listed' : m > n})
  BY ImportsCount DEF Im!Rank, After
<1> QED BY <1>2, <1>4, <1>5, Zenon

\* The cursor is the highest of the rows.
LEMMA ImportsCursor ==
  ASSUME Im!TypeOK
  PROVE  /\ Im!Cursor \in 0..Len(records)
         /\ \A f \in Files : imports[f] \in 0..Len(records) /\ imports[f] <= Im!Cursor
         /\ Im!Cursor = 0 \/ \E f \in Files : imports[f] = Im!Cursor
<1> DEFINE T == {imports[f] : f \in Files} \cup {0}
<1>1. Len(records) \in Nat /\ DOMAIN records = 1..Len(records)
  BY DEF Im!TypeOK
<1>2. \A f \in Files : imports[f] \in Nat /\ imports[f] \in 0..Len(records)
  <2>1. \A f \in Files : imports[f] \in Nat /\ (imports[f] # 0 => imports[f] \in DOMAIN records)
    BY Zenon DEF Im!TypeOK, Im!OfTheirFiles
  <2> QED BY <1>1, <2>1
<1>3. T \in SUBSET Nat /\ T # {} /\ \A x \in T : x <= Len(records)
  BY <1>1, <1>2
<1> HIDE DEF T
<1>4. Im!Max(T) \in T /\ \A x \in T : x <= Im!Max(T)
  BY <1>1, <1>3, GreatestOf, Zenon
<1>5. Im!Cursor = Im!Max(T)
  BY DEF Im!Cursor, T
<1>6. Im!Cursor \in T /\ \A x \in T : x <= Im!Cursor
  BY <1>4, <1>5
<1> QED BY <1>1, <1>2, <1>6 DEF T

\* Of a page, the newest record of a file is collected, unless the file has one.
LEMMA ImportsPage ==
  ASSUME Im!TypeOK, Im!FetchPage, NEW f \in Files
  PROVE  LET row == [file |-> f, usable |-> TRUE] IN
         /\ collected[f] # 0 => collected'[f] = collected[f]
         /\ collected[f] = 0 =>
              /\ collected'[f] # 0 =>
                   /\ collected'[f] \in Im!Page /\ collected'[f] > since
                   /\ records[collected'[f]] = row
              /\ \A n \in Im!Page : n > since /\ records[n] = row => n <= collected'[f]
<1> DEFINE Recent == {n \in Im!Page : n > since /\ records[n] = [file |-> f, usable |-> TRUE]}
<1>1. collected'[f] = IF collected[f] # 0 \/ Recent = {} THEN collected[f] ELSE Im!Max(Recent)
  BY DEF Im!FetchPage
<1>2. CASE Recent # {}
  <2>1. Recent \in SUBSET Nat /\ Len(records) \in Nat /\ \A x \in Recent : x <= Len(records)
    BY Ranks DEF Im!Page
  <2> HIDE DEF Recent
  <2>2. Im!Max(Recent) \in Recent /\ \A x \in Recent : x <= Im!Max(Recent)
    BY <1>2, <2>1, GreatestOf, Zenon
  <2>3. collected[f] = 0 => collected'[f] \in Recent /\ \A x \in Recent : x <= collected'[f]
    BY <1>1, <1>2, <2>2
  <2>4. collected[f] # 0 => collected'[f] = collected[f]
    BY <1>1
  <2> QED BY <2>3, <2>4, Zenon DEF Recent
<1>3. CASE Recent = {}
  BY <1>1, <1>3, Zenon
<1> QED BY <1>2, <1>3, Zenon

\* Every step preserves the types, and that a row is of a record of its file.
LEMMA ImportsTypeOK ==
  ASSUME Im!TypeOK, Im!Next
  PROVE  Im!TypeOK'
<1> DEFINE Record == [file : Files, usable : BOOLEAN]
           Of(rs, row) == \A f \in Files : row[f] # 0 =>
             row[f] \in DOMAIN rs /\ rs[row[f]] = [file |-> f, usable |-> TRUE]
<1>0. /\ records \in Seq(Record) /\ listed \subseteq DOMAIN records
      /\ imports \in [Files -> Nat] /\ collected \in [Files -> Nat]
      /\ Of(records, imports) /\ Of(records, collected)
      /\ Im!Nothing \in [Files -> Nat] /\ \A rs : Of(rs, Im!Nothing)
  BY DEF Im!TypeOK, Im!OfTheirFiles, Im!Nothing
<1>1. \/ UNCHANGED records
      \/ \E r \in Record : records' = Append(records, r)
  BY Zenon DEF Im!Next, Im!Import, Im!DropHistory, Im!MaxHistoryID, Im!FetchPage, Im!PageFails,
     Im!UpsertArrImports, Im!arr
<1>2. /\ records' \in Seq(Record) /\ Len(records') >= Len(records)
      /\ Len(records) \in Nat /\ Len(records') \in Nat
      /\ \A i \in DOMAIN records : i \in DOMAIN records' /\ records'[i] = records[i]
  <2>1. CASE UNCHANGED records
    <3> HIDE DEF Record
    <3> QED BY <1>0, <2>1
  <2>2. ASSUME NEW r \in Record, records' = Append(records, r)
        PROVE  /\ records' \in Seq(Record) /\ Len(records') = Len(records) + 1
               /\ \A i \in DOMAIN records : i \in DOMAIN records' /\ records'[i] = records[i]
    <3> HIDE DEF Record
    <3> QED BY <1>0, <2>2
  <2>3. Len(records) \in Nat
    BY <1>0
  <2>4. /\ records' \in Seq(Record)
        /\ (Len(records') = Len(records) \/ Len(records') = Len(records) + 1)
        /\ \A i \in DOMAIN records : i \in DOMAIN records' /\ records'[i] = records[i]
    <3> HIDE DEF Record
    <3> QED BY <1>0, <1>1, <2>1, <2>2
  <2> QED BY <2>3, <2>4
<1>3. Of(records', imports) /\ Of(records', collected)
  BY <1>0, <1>2, Zenon
<1> HIDE DEF Of, Record
<1>4. listed' \subseteq DOMAIN records'
  <2>1. CASE Im!Import
    <3>1. listed' = listed \cup {Len(records) + 1}
      BY <2>1 DEF Im!Import
    <3>2. Len(records) + 1 \in DOMAIN records'
      <4>1. PICK r : records' = Append(records, r)
        BY <2>1 DEF Im!Import
      <4> QED BY <1>0, <4>1
    <3> QED BY <1>0, <1>2, <3>1, <3>2
  <2>2. CASE ~Im!Import
    <3>1. listed' \subseteq listed
      BY <2>2 DEF Im!Next, Im!DropHistory, Im!MaxHistoryID, Im!FetchPage, Im!PageFails,
         Im!UpsertArrImports, Im!arr
    <3> QED BY <1>0, <1>2, <3>1
  <2> QED BY <2>1, <2>2
<1>5. collected' \in [Files -> Nat] /\ Of(records', collected')
  <2>1. CASE Im!FetchPage
    <3>1. /\ UNCHANGED records /\ DOMAIN collected' = Files
          /\ collected' = [f \in Files |-> collected'[f]]
      BY <2>1 DEF Im!FetchPage, Im!arr
    <3>2. \A f \in Files : \/ collected'[f] = collected[f] \/ collected'[f] = 0
                           \/ /\ collected'[f] \in listed
                              /\ records[collected'[f]] = [file |-> f, usable |-> TRUE]
      BY <2>1, ImportsPage DEF Im!Page
    <3>3. \A n \in listed : n \in Nat /\ n \in DOMAIN records
      BY <1>0
    <3>4. \A f \in Files : collected'[f] \in Nat
      <4> TAKE f \in Files
      <4>1. collected[f] \in Nat /\ 0 \in Nat
        BY <1>0
      <4>2. CASE collected'[f] \in listed
        BY <3>3, <4>2
      <4>3. CASE collected'[f] = collected[f] \/ collected'[f] = 0
        BY <4>1, <4>3
      <4> QED BY <3>2, <4>2, <4>3, Zenon
    <3>5. collected' \in [Files -> Nat]
      BY <3>1, <3>4
    <3>6. Of(records, collected')
      BY <1>0, <3>2, <3>3, Zenon DEF Of
    <3> QED BY <3>1, <3>5, <3>6
  <2>2. CASE ~Im!FetchPage
    <3>1. collected' = collected \/ collected' = Im!Nothing
      BY <2>2 DEF Im!Next, Im!Import, Im!DropHistory, Im!MaxHistoryID, Im!PageFails,
         Im!UpsertArrImports, Im!EndSync, Im!sync
    <3> QED BY <1>0, <1>3, <3>1
  <2> QED BY <2>1, <2>2
<1>6. imports' \in [Files -> Nat] /\ Of(records', imports')
  <2>1. CASE imports' = imports
    BY <1>0, <1>3, <2>1
  <2>2. CASE imports' = [f \in Files |-> IF collected[f] # 0 THEN collected[f] ELSE imports[f]]
    <3>1. imports' \in [Files -> Nat]
      BY <1>0, <2>2
    <3>2. Of(records', imports')
      BY <1>3, <2>2 DEF Of
    <3> QED BY <3>1, <3>2
  <2> QED BY <2>1, <2>2 DEF Im!Next, Im!Import, Im!DropHistory, Im!MaxHistoryID, Im!FetchPage,
      Im!PageFails, Im!UpsertArrImports
<1> DEFINE Sync == /\ ipc \in {"idle", "fetch", "store"} /\ since \in Nat /\ pageNum \in Nat
                   /\ ipc # "idle" => pageNum > 0 /\ since = Im!Cursor
                   /\ ~Im!BetweenPages => came = 0
                   /\ ipc = "idle" \/ (ipc = "fetch" /\ pageNum = 1) =>
                        collected = Im!Nothing /\ top = 0
                   /\ top \in 0..Len(records) /\ came \in Nat
<1>7. Sync'
  <2>0. Sync /\ Im!Cursor \in Nat
    BY ImportsCursor DEF Im!TypeOK
  <2>1. CASE Im!Import \/ \E f \in Files : Im!DropHistory(f)
    <3>1. /\ UNCHANGED <<imports, ipc, since, pageNum, collected, top>>
          /\ came' = came \/ (Im!BetweenPages /\ came' = came + 1)
      BY <2>1 DEF Im!Import, Im!DropHistory, Im!sync
    <3>2. Im!Cursor' = Im!Cursor
      BY <3>1 DEF Im!Cursor
    <3>3. Im!BetweenPages' <=> Im!BetweenPages
      BY <3>1 DEF Im!BetweenPages
    <3>4. came' \in Nat /\ top' \in 0..Len(records')
      BY <1>2, <2>0, <3>1
    <3> QED BY <2>0, <3>1, <3>2, <3>3, <3>4
  <2>2. CASE Im!MaxHistoryID
    <3>1. /\ ipc = "idle" /\ ipc' = "fetch" /\ since' = Im!Cursor /\ pageNum' = 1
          /\ UNCHANGED <<records, imports, collected, top, came>>
      BY <2>2 DEF Im!MaxHistoryID, Im!arr, Im!history
    <3>2. Im!Cursor' = Im!Cursor
      BY <3>1 DEF Im!Cursor
    <3>3. came = 0
      BY <2>0, <3>1 DEF Im!BetweenPages
    <3> QED BY <2>0, <3>1, <3>2, <3>3
  <2>3. CASE Im!FetchPage
    <3>1. /\ ipc = "fetch" /\ UNCHANGED <<records, imports, since>> /\ came' = 0
          /\ top' = (IF pageNum = 1 THEN Len(records) ELSE top)
          /\ \/ ipc' = "store" /\ pageNum' = pageNum
             \/ ipc' = "fetch" /\ pageNum' = pageNum + 1
      BY <2>3 DEF Im!FetchPage, Im!arr
    <3>2. Im!Cursor' = Im!Cursor
      BY <3>1 DEF Im!Cursor
    <3>3. top' \in 0..Len(records')
      BY <1>2, <2>0, <3>1
    <3>4. pageNum \in Nat \ {0} /\ pageNum + 1 # 1 /\ pageNum + 1 > 0
      BY <2>0, <3>1
    <3> QED BY <2>0, <3>1, <3>2, <3>3, <3>4
  <2>4. CASE Im!PageFails \/ Im!UpsertArrImports
    <3>1. /\ ipc' = "idle" /\ since' = 0 /\ pageNum' = 0 /\ collected' = Im!Nothing
          /\ top' = 0 /\ came' = 0
      BY <2>4 DEF Im!PageFails, Im!UpsertArrImports, Im!EndSync
    <3>2. Im!Nothing' = Im!Nothing
      BY DEF Im!Nothing
    <3> QED BY <1>2, <3>1, <3>2
  <2> QED BY <2>1, <2>2, <2>3, <2>4 DEF Im!Next
<1>8. shifted' \in BOOLEAN
  <2>1. shifted' = shifted \/ shifted' = TRUE \/ shifted' = FALSE
    BY DEF Im!Next, Im!Import, Im!DropHistory, Im!MaxHistoryID, Im!FetchPage, Im!PageFails,
       Im!UpsertArrImports, Im!history
  <2> QED BY <2>1, Zenon DEF Im!TypeOK
<1> QED BY <1>2, <1>4, <1>5, <1>6, <1>7, <1>8, Zenon DEF Im!TypeOK, Im!OfTheirFiles, Of, Record

\* While pages are read, what was shown is collected.
LEMMA ImportsCollected ==
  ASSUME Im!TypeOK, Im!Next, ~shifted', ipc' # "idle",
         ipc # "idle" => Im!CollectedOK /\ Im!NewerAreBefore
  PROVE  Im!CollectedOK' /\ Im!NewerAreBefore'
<1> DEFINE k == (pageNum - 1) * PageSize
<1>0. /\ PageSize \in Nat \ {0} /\ top \in 0..Len(records) /\ came \in Nat /\ pageNum \in Nat
      /\ since \in Nat /\ records \in Seq([file : Files, usable : BOOLEAN])
      /\ listed \subseteq 1..Len(records) /\ Len(records) \in Nat
      /\ \A n \in listed :
           /\ n \in 1..Len(records) /\ n \in Nat /\ records[n].file \in Files
           /\ records[n] = [file |-> records[n].file, usable |-> records[n].usable]
           /\ records[n].usable \in BOOLEAN
      /\ \A n \in Nat : Im!Rank(n) \in Nat
      /\ \A f \in Files : collected[f] \in Nat
  <2>1. records \in Seq([file : Files, usable : BOOLEAN]) /\ listed \subseteq DOMAIN records
    BY DEF Im!TypeOK
  <2>2. \A n \in listed : records[n] \in [file : Files, usable : BOOLEAN]
    <3> DEFINE R == [file : Files, usable : BOOLEAN]
    <3>1. records \in Seq(R) /\ listed \subseteq DOMAIN records
      BY <2>1
    <3> HIDE DEF R
    <3>2. \A n \in DOMAIN records : records[n] \in R
      BY <3>1
    <3> QED BY <3>1, <3>2 DEF R
  <2>3. \A n \in listed :
          /\ n \in 1..Len(records) /\ n \in Nat /\ records[n].file \in Files
          /\ records[n] = [file |-> records[n].file, usable |-> records[n].usable]
          /\ records[n].usable \in BOOLEAN
    <3> TAKE n \in listed
    <3>1. n \in 1..Len(records) /\ n \in Nat
      BY Ranks
    <3> QED BY <2>2, <3>1
  <2>4. /\ PageSize \in Nat \ {0} /\ top \in 0..Len(records) /\ came \in Nat /\ pageNum \in Nat
        /\ since \in Nat /\ collected \in [Files -> Nat]
    BY ImportsAssumption DEF Im!TypeOK
  <2>5. \A f \in Files : collected[f] \in Nat
    BY <2>4
  <2> QED BY <2>1, <2>3, <2>4, <2>5, Ranks, Zenon
<1>1. CASE Im!MaxHistoryID
  <2>1. /\ ipc = "idle" /\ ipc' = "fetch" /\ pageNum' = 1 /\ UNCHANGED <<listed, collected, came>>
    BY <1>1 DEF Im!MaxHistoryID, Im!arr, Im!history
  <2>2. came' = 0 /\ collected' = Im!Nothing /\ ~Im!BetweenPages'
    BY <2>1 DEF Im!TypeOK, Im!BetweenPages
  <2>3. \A n : (Im!Rank(n))' = Im!Rank(n)
    BY <2>1 DEF Im!Rank
  <2>4. \A n \in listed : ~(Im!Shown(n))'
    <3>1. (1 - 1) * PageSize + 0 = 0
      BY <1>0
    <3>2. \A n \in listed : ~(Im!Rank(n) < 0)
      BY <1>0
    <3> QED BY <2>1, <2>2, <2>3, <3>1, <3>2 DEF Im!Shown
  <2>5. Im!CollectedOK'
    BY <2>1, <2>2, <2>4 DEF Im!CollectedOK, Im!Nothing
  <2> QED BY <1>0, <2>2, <2>5 DEF Im!NewerAreBefore
<1>2. CASE Im!FetchPage
  <2>1. /\ ipc = "fetch" /\ came' = 0 /\ UNCHANGED <<records, listed, since>>
        /\ top' = (IF pageNum = 1 THEN Len(records) ELSE top)
        /\ \/ /\ ipc' = "store" /\ pageNum' = pageNum
              /\ Im!ShortPage \/ \E n \in Im!Page : n <= since
           \/ ipc' = "fetch" /\ pageNum' = pageNum + 1
    BY <1>2 DEF Im!FetchPage, Im!arr
  <2>2. /\ pageNum \in Nat \ {0} /\ (pageNum = 1 => top = 0 /\ collected = Im!Nothing /\ came = 0)
        /\ Im!CollectedOK /\ Im!NewerAreBefore
    BY <2>1 DEF Im!TypeOK, Im!BetweenPages
  <2>3. /\ k \in Nat /\ pageNum * PageSize = k + PageSize
        /\ (pageNum - 2) * PageSize = k - PageSize
        /\ ((pageNum + 1) - 1) * PageSize = k + PageSize /\ ((pageNum + 1) - 2) * PageSize = k
        /\ (pageNum = 1 => k = 0)
    BY <2>2, Offsets
  <2> HIDE DEF k
  <2>4. /\ came <= PageSize
        /\ (pageNum # 1 => Im!Rank(top) <= (k - PageSize) + came)
    <3>1. pageNum # 1 => Im!BetweenPages
      BY <2>1, <2>2 DEF Im!BetweenPages
    <3> QED BY <2>2, <2>3, <3>1 DEF Im!NewerAreBefore
  <2>5. \A n \in listed : n \in Im!Page <=> k <= Im!Rank(n) /\ Im!Rank(n) < k + PageSize
    BY <2>3 DEF Im!Page, k
  <2>6. \A n : Im!Shown(n) <=> n <= top /\ Im!Rank(n) < k + came
    BY <2>1 DEF Im!Shown, k
  <2>7. \A n : (Im!Rank(n))' = Im!Rank(n)
    BY <2>1 DEF Im!Rank
  <2>8. \A n \in listed : n > since /\ (Im!Shown(n))' => n <= top' /\ Im!Rank(n) < k + PageSize
    <3>1. CASE ipc' = "fetch" /\ pageNum' = pageNum + 1
      BY <2>1, <2>3, <2>7, <3>1, <1>0 DEF Im!Shown
    <3>2. CASE ipc' = "store" /\ Im!ShortPage
      <4>1. Cardinality(listed) < k + PageSize
        BY <2>3, <3>2, ImportsCount DEF Im!ShortPage
      <4>2. \A n \in listed : Im!Rank(n) <= Cardinality(listed) /\ Im!Rank(n) \in Nat
        BY <1>0, Ranks
      <4>3. \A n \in listed : Im!Rank(n) < k + PageSize
        <5> TAKE n \in listed
        <5>1. Im!Rank(n) <= Cardinality(listed) /\ Im!Rank(n) \in Nat /\ k + PageSize \in Nat
          BY <1>0, <2>3, <4>2
        <5>2. Cardinality(listed) \in Nat
          BY Ranks
        <5> QED BY <4>1, <5>1, <5>2
      <4> QED BY <4>3 DEF Im!Shown
    <3>3. ASSUME ipc' = "store", NEW m \in Im!Page, m <= since, NEW n \in listed, n > since
          PROVE  Im!Rank(n) < k + PageSize
      <4>1. m \in listed /\ Im!Rank(m) < k + PageSize
        BY <2>5 DEF Im!Page
      <4>2. m <= n /\ m \in Nat /\ n \in Nat
        <5>1. m \in Nat /\ n \in Nat /\ since \in Nat
          BY <1>0, <4>1
        <5> QED BY <3>3, <5>1
      <4>3. Im!Rank(n) <= Im!Rank(m)
        BY <4>2, Ranks
      <4> QED BY <1>0, <2>3, <4>1, <4>2, <4>3
    <3>4. ipc' = "store" => \A n : (Im!Shown(n))' => n <= top'
      BY DEF Im!Shown
    <3> QED BY <2>1, <3>1, <3>2, <3>3, <3>4
  <2>9. ASSUME NEW f \in Files, collected[f] # 0
        PROVE  /\ pageNum # 1 /\ collected'[f] = collected[f] /\ top' = top
               /\ collected[f] \in listed /\ Im!Rank(collected[f]) < k + came
               /\ since < collected[f] /\ collected[f] <= top
    <3>1. collected'[f] = collected[f]
      BY <1>2, <2>9, ImportsPage, Zenon
    <3>2. pageNum # 1
      BY <2>2, <2>9 DEF Im!Nothing
    <3> QED BY <2>1, <2>2, <2>6, <2>9, <3>1, <3>2 DEF Im!CollectedOK
  <2>10. ASSUME NEW n \in listed, records[n].usable, n > since, (Im!Shown(n))'
         PROVE  collected'[records[n].file] >= n
    <3> DEFINE f == records[n].file
    <3>1. f \in Files /\ n \in Nat /\ n <= top' /\ Im!Rank(n) < k + PageSize /\ Im!Rank(n) \in Nat
      BY <1>0, <2>8, <2>10, Zenon
    <3>2. records[n] = [file |-> f, usable |-> TRUE]
      <4>1. records[n].usable = TRUE
        <5>1. records[n].usable \in BOOLEAN
          BY <1>0, Zenon
        <5> QED BY <2>10, <5>1
      <4> QED BY <1>0, <4>1, Zenon
    <3> HIDE DEF f
    <3>3. CASE collected[f] # 0 /\ Im!Rank(n) < k + came
      <4>1. n <= top /\ Im!Shown(n)
        BY <2>6, <2>9, <3>1, <3>3
      <4>2. collected[f] >= n
        BY <2>2, <2>10, <4>1 DEF Im!CollectedOK, f
      <4> QED BY <2>9, <3>1, <3>3, <4>2 DEF f
    <3>4. CASE collected[f] # 0 /\ ~(Im!Rank(n) < k + came)
      <4>1. collected[f] \in Nat /\ Im!Rank(collected[f]) \in Nat
        BY <1>0, <3>1, Zenon
      <4>2. Im!Rank(collected[f]) < k + came
        BY <2>9, <3>1, <3>4
      <4>3. ~(collected[f] <= n)
        <5>1. collected[f] <= n => Im!Rank(n) <= Im!Rank(collected[f])
          BY <3>1, <4>1, Ranks, Zenon
        <5>2. k + came \in Nat
          BY <1>0, <2>3
        <5>3. k + came <= Im!Rank(n)
          BY <3>1, <3>4, <5>2
        <5> QED BY <3>1, <4>1, <4>2, <5>1, <5>2, <5>3
      <4>4. collected'[f] = collected[f]
        BY <2>9, <3>1, <3>4
      <4>5. collected[f] >= n
        BY <3>1, <4>1, <4>3
      <4> QED BY <4>4, <4>5 DEF f
    <3>5. CASE collected[f] = 0
      <4>1. k <= Im!Rank(n)
        <5>1. CASE pageNum = 1
          BY <2>3, <3>1, <5>1
        <5>2. CASE pageNum # 1
          <6>1. top' = top
            BY <2>1, <5>2
          <6>2. Im!Rank(n) < k + came => Im!Shown(n)
            BY <2>6, <3>1, <6>1
          <6>3. Im!Shown(n) => collected[f] >= n
            BY <2>2, <2>10 DEF Im!CollectedOK, f
          <6>4. n > 0
            BY <1>0, <2>10
          <6>5. ~(Im!Rank(n) < k + came)
            BY <3>1, <3>5, <6>2, <6>3, <6>4
          <6>6. came \in Nat
            BY <1>0
          <6>7. \A a, b, c \in Nat : ~(c < a + b) => a <= c
            OBVIOUS
          <6> QED BY <2>3, <3>1, <6>5, <6>6, <6>7, Zenon
        <5> QED BY <5>1, <5>2
      <4>2. n \in Im!Page
        BY <2>5, <3>1, <4>1
      <4>3. n <= collected'[f]
        BY <1>2, <2>10, <3>1, <3>2, <3>5, <4>2, ImportsPage
      <4>4. collected'[f] \in Nat
        <5>1. Im!TypeOK'
          BY ImportsTypeOK
        <5> QED BY <3>1, <5>1 DEF Im!TypeOK
      <4> QED BY <3>1, <4>3, <4>4 DEF f
    <3> QED BY <3>3, <3>4, <3>5
  <2>11. ASSUME NEW f \in Files, collected'[f] # 0
         PROVE  /\ since < collected'[f] /\ collected'[f] <= top' /\ collected'[f] \in listed
                /\ Im!Rank(collected'[f]) < k + PageSize
    <3>1. CASE collected[f] # 0
      <4>1. /\ collected'[f] = collected[f] /\ top' = top /\ collected[f] \in listed
            /\ Im!Rank(collected[f]) < k + came /\ since < collected[f] /\ collected[f] <= top
        BY <2>9, <3>1
      <4>2. Im!Rank(collected[f]) \in Nat
        BY <1>0, Zenon
      <4>3. Im!Rank(collected[f]) < k + PageSize
        BY <1>0, <2>3, <2>4, <4>1, <4>2
      <4> QED BY <4>1, <4>3
    <3>2. CASE collected[f] = 0
      <4> DEFINE m == collected'[f]
      <4>1. m \in Im!Page /\ m > since
        BY <1>2, <2>11, <3>2, ImportsPage, Zenon
      <4> HIDE DEF m
      <4>2. /\ m \in listed /\ k <= Im!Rank(m) /\ Im!Rank(m) < k + PageSize
            /\ m \in Nat /\ m <= Len(records) /\ Im!Rank(m) \in Nat
        BY <1>0, <2>5, <4>1 DEF Im!Page
      <4>3. m <= top'
        <5>1. CASE pageNum = 1
          BY <2>1, <4>2, <5>1
        <5>2. CASE pageNum # 1
          <6>1. top < m => Im!Rank(m) + 1 <= Im!Rank(top)
            BY <1>0, <4>2, Ranks
          <6>2. Im!Rank(top) \in Nat
            BY <1>0
          <6>3. ~(top < m)
            BY <1>0, <2>3, <2>4, <4>2, <5>2, <6>1, <6>2
          <6> QED BY <1>0, <2>1, <4>2, <5>2, <6>3
        <5> QED BY <5>1, <5>2
      <4> QED BY <1>0, <4>1, <4>2, <4>3, Zenon DEF m
    <3> QED BY <3>1, <3>2
  <2>12. Im!CollectedOK'
    <3>1. ASSUME NEW f \in Files, collected'[f] # 0, ipc' = "fetch"
          PROVE  (Im!Shown(collected[f]))'
      <4>1. pageNum' = pageNum + 1
        BY <2>1, <3>1
      <4>2. (k + PageSize) + 0 = k + PageSize
        BY <1>0, <2>3
      <4>3. collected'[f] <= top' /\ Im!Rank(collected'[f]) < ((pageNum + 1) - 1) * PageSize + 0
        BY <2>3, <2>11, <3>1, <4>2
      <4> QED BY <2>1, <2>7, <4>1, <4>3 DEF Im!Shown
    <3> QED BY <2>1, <2>10, <2>11, <3>1 DEF Im!CollectedOK
  <2>13. Im!NewerAreBefore'
    <3>1. 0 <= PageSize
      BY <1>0
    <3>2. ipc' = "fetch" => Im!Rank(top') <= k
      <4>1. CASE pageNum = 1
        <5>1. Im!Rank(Len(records)) = 0
          BY Ranks
        <5> QED BY <2>1, <2>3, <4>1, <5>1
      <4>2. CASE pageNum # 1
        <5>1. Im!Rank(top) \in Nat /\ top' = top
          BY <1>0, <2>1, <4>2
        <5> QED BY <1>0, <2>3, <2>4, <4>2, <5>1
      <4> QED BY <4>1, <4>2
    <3>3. (Im!Rank(top))' = Im!Rank(top')
      BY <2>1 DEF Im!Rank
    <3>4. ipc' = "fetch" => (pageNum' - 2) * PageSize + came' = k
      <4>1. k + 0 = k
        BY <2>3
      <4> QED BY <2>1, <2>3, <4>1
    <3> QED BY <2>1, <3>1, <3>2, <3>3, <3>4 DEF Im!NewerAreBefore, Im!BetweenPages
  <2> QED BY <2>12, <2>13
<1>3. CASE Im!Import
  <2>1. /\ listed' = listed \cup {Len(records) + 1}
        /\ UNCHANGED <<ipc, since, pageNum, collected, top>>
        /\ came' = (IF Im!BetweenPages THEN came + 1 ELSE came)
        /\ came' <= PageSize \/ ~Im!BetweenPages
        /\ \E r : records' = Append(records, r)
    <3>1. came' = (IF Im!BetweenPages THEN came + 1 ELSE came) /\ ~(came' > PageSize)
      BY <1>3, Zenon DEF Im!Import
    <3>2. came' <= PageSize
      <4>1. came' \in Nat
        <5>1. came' = came + 1 \/ came' = came
          BY <3>1
        <5>2. came \in Nat /\ came + 1 \in Nat
          BY <1>0
        <5> QED BY <5>1, <5>2
      <4>2. PageSize \in Nat
        BY <1>0
      <4>3. \A a, b \in Nat : ~(a > b) => a <= b
        OBVIOUS
      <4> QED BY <3>1, <4>1, <4>2, <4>3, Zenon
    <3> QED BY <1>3, <3>1, <3>2 DEF Im!Import, Im!sync
  <2>2. Im!CollectedOK /\ Im!NewerAreBefore
    BY <2>1
  <2>3. \A n \in 1..Len(records) : records'[n] = records[n]
    BY <1>0, <2>1
  <2>4. \A n \in 0..Len(records) : (Im!Rank(n))' = Im!Rank(n) + 1
    BY <2>1, RankGrows
  <2>5. \A n \in listed : n \in 0..Len(records)
    BY <1>0
  <2>6. ~Im!BetweenPages => came = 0
    BY DEF Im!TypeOK
  <2>7. ipc = "fetch" /\ ~Im!BetweenPages => k = 0 /\ collected = Im!Nothing /\ top = 0
    <3>1. ipc = "fetch" /\ ~Im!BetweenPages => pageNum = 1
      BY <1>0 DEF Im!TypeOK, Im!BetweenPages
    <3>2. pageNum = 1 => k = 0
      BY Offsets
    <3> QED BY <3>1, <3>2 DEF Im!TypeOK
  <2>8. k \in Int
    BY <1>0
  <2> HIDE DEF k
  <2>9. \A n \in listed : n > since => ((Im!Shown(n))' <=> Im!Shown(n))
    <3> TAKE n \in listed
    <3>0. n \in Nat /\ n > 0 /\ Im!Rank(n) \in Nat /\ (Im!Rank(n))' = Im!Rank(n) + 1
      BY <1>0, <2>4, <2>5
    <3>1. CASE Im!BetweenPages
      <4>1. Im!Rank(n) + 1 < k + (came + 1) <=> Im!Rank(n) < k + came
        <5> DEFINE r == Im!Rank(n)
        <5>1. r \in Nat /\ k \in Int /\ came \in Nat
          BY <1>0, <2>8, <3>0
        <5> HIDE DEF r
        <5>2. r + 1 < k + (came + 1) <=> r < k + came
          BY <5>1
        <5> QED BY <5>2 DEF r
      <4> QED BY <2>1, <3>0, <3>1, <4>1 DEF Im!Shown, k, Im!BetweenPages
    <3>2. CASE ipc = "fetch" /\ ~Im!BetweenPages
      BY <2>1, <2>7, <3>0, <3>2 DEF Im!Shown
    <3>3. CASE ipc # "fetch"
      BY <2>1, <3>3 DEF Im!Shown
    <3> QED BY <3>1, <3>2, <3>3
  <2>10. \A n : n = Len(records) + 1 => ~(Im!Shown(n))'
    <3>1. ~(Len(records) + 1 <= top)
      BY <1>0
    <3> QED BY <2>1, <3>1 DEF Im!Shown
  <2>11. Im!CollectedOK'
    <3>1. ASSUME NEW n \in listed', records'[n].usable, n > since', (Im!Shown(n))'
          PROVE  collected'[records'[n].file] >= n
      <4>1. n \in listed
        <5>1. n # Len(records) + 1
          BY <2>10, <3>1
        <5> QED BY <2>1, <3>1, <5>1
      <4>2. records'[n] = records[n]
        BY <1>0, <2>3, <4>1
      <4> QED BY <2>1, <2>2, <2>9, <3>1, <4>1, <4>2 DEF Im!CollectedOK
    <3>2. ASSUME NEW f \in Files, collected[f] # 0
          PROVE  /\ since < collected[f] /\ collected[f] <= top
                 /\ ipc = "fetch" => collected[f] \in listed' /\ (Im!Shown(collected[f]))'
      <4>1. /\ since < collected[f] /\ collected[f] <= top
            /\ ipc = "fetch" => collected[f] \in listed /\ Im!Shown(collected[f])
        BY <2>2, <3>2 DEF Im!CollectedOK
      <4>2. ASSUME ipc = "fetch" PROVE (Im!Shown(collected[f]))'
        <5> DEFINE m == collected[f]
        <5>1. m \in listed /\ m > since /\ Im!Shown(m) /\ collected' = collected
          BY <1>0, <2>1, <4>1, <4>2, Zenon
        <5> HIDE DEF m
        <5>2. m' = m
          BY <5>1 DEF m
        <5>3. (Im!Shown(m))'
          <6>1. PICK x : x = m
            OBVIOUS
          <6>2. (Im!Shown(x))'
            BY <2>9, <5>1, <6>1
          <6> QED BY <5>2, <6>1, <6>2 DEF Im!Shown, Im!Rank
        <5> QED BY <5>3 DEF m
      <4> QED BY <2>1, <4>1, <4>2
    <3> QED BY <2>1, <3>1, <3>2, Zenon DEF Im!CollectedOK
  <2>12. Im!NewerAreBefore'
    <3>1. came' <= PageSize
      BY <1>0, <2>1, <2>6
    <3>2. Im!BetweenPages' <=> Im!BetweenPages
      BY <2>1 DEF Im!BetweenPages
    <3>3. ASSUME Im!BetweenPages PROVE (Im!Rank(top))' <= (pageNum' - 2) * PageSize + came'
      <4>1. Im!Rank(top) <= (pageNum - 2) * PageSize + came
        BY <2>2, <3>3 DEF Im!NewerAreBefore
      <4>2. (Im!Rank(top))' = Im!Rank(top) + 1
        <5>1. PICK x : x = top
          OBVIOUS
        <5>2. (Im!Rank(x))' = Im!Rank(x) + 1
          BY <1>0, <2>4, <5>1
        <5> QED BY <2>1, <5>1, <5>2 DEF Im!Rank
      <4>3. (pageNum - 2) * PageSize \in Int /\ Im!Rank(top) \in Nat
        BY <1>0
      <4> DEFINE j == (pageNum - 2) * PageSize
      <4>4. Im!Rank(top) <= j + came => Im!Rank(top) + 1 <= j + (came + 1)
        <5>1. j \in Int
          BY <4>3
        <5> HIDE DEF j
        <5> QED BY <1>0, <4>3, <5>1
      <4> QED BY <2>1, <3>3, <4>1, <4>2, <4>4
    <3> QED BY <3>1, <3>2, <3>3 DEF Im!NewerAreBefore
  <2> QED BY <2>11, <2>12
<1>4. CASE \E f \in Files : Im!DropHistory(f)
  <2>1. /\ listed' \subseteq listed /\ ~Im!BetweenPages
        /\ UNCHANGED <<records, ipc, since, pageNum, collected, top, came>>
    BY <1>4, Zenon DEF Im!DropHistory, Im!sync
  <2>2. Im!CollectedOK /\ Im!NewerAreBefore
    BY <2>1
  <2>3. CASE ipc = "fetch"
    <3>1. pageNum = 1 /\ top = 0 /\ collected = Im!Nothing
      BY <1>0, <2>1, <2>3 DEF Im!TypeOK, Im!BetweenPages
    <3>2. \A n \in listed : ~(n <= top)
      BY <1>0, <3>1
    <3> QED BY <2>1, <2>2, <3>1, <3>2
        DEF Im!CollectedOK, Im!Shown, Im!Nothing, Im!NewerAreBefore, Im!BetweenPages
  <2>4. CASE ipc = "store"
    BY <2>1, <2>2, <2>4 DEF Im!CollectedOK, Im!Shown, Im!NewerAreBefore, Im!BetweenPages
  <2> QED BY <2>1, <2>3, <2>4 DEF Im!TypeOK
<1>5. ~Im!PageFails /\ ~Im!UpsertArrImports
  BY DEF Im!PageFails, Im!UpsertArrImports, Im!EndSync
<1> QED BY <1>1, <1>2, <1>3, <1>4, <1>5 DEF Im!Next

\* What is stored passes nothing by.
LEMMA ImportsUpsert ==
  ASSUME Im!TypeOK, Im!NoImportIsSkipped, Im!CollectedOK, Im!UpsertArrImports, ~shifted
  PROVE  Im!NoImportIsSkipped'
<1>0. /\ ipc = "store" /\ since = Im!Cursor /\ since \in Nat
      /\ UNCHANGED <<records, listed>>
      /\ imports \in [Files -> Nat] /\ collected \in [Files -> Nat] /\ Len(records) \in Nat
      /\ top \in 0..Len(records)
  BY DEF Im!UpsertArrImports, Im!arr, Im!TypeOK
<1>1. CASE imports' = imports
  <2>1. Im!Cursor' = Im!Cursor
    BY <1>1 DEF Im!Cursor
  <2> QED BY <1>0, <1>1, <2>1 DEF Im!NoImportIsSkipped
<1>2. CASE imports' = [f \in Files |-> IF collected[f] # 0 THEN collected[f] ELSE imports[f]]
  <2>1. \A f \in Files :
          /\ imports'[f] = IF collected[f] # 0 THEN collected[f] ELSE imports[f]
          /\ imports[f] \in Nat /\ collected[f] \in Nat /\ imports[f] <= since
          /\ imports[f] <= Len(records)
    BY <1>0, <1>2, ImportsCursor
  <2>2. \A f \in Files : collected[f] # 0 => since < collected[f] /\ collected[f] <= top
    BY DEF Im!CollectedOK
  <2>3. Im!Cursor' = 0 \/ \E g \in Files : Im!Cursor' = imports'[g]
    <3> DEFINE T == {imports'[f] : f \in Files} \cup {0}
    <3>1. \A f \in Files : imports'[f] \in Nat /\ imports'[f] <= Len(records)
      <4> TAKE f \in Files
      <4>1. collected[f] # 0 => collected[f] <= Len(records)
        <5>1. collected[f] # 0 => collected[f] <= top
          BY <2>2
        <5> QED BY <1>0, <2>1, <5>1
      <4> QED BY <2>1, <4>1
    <3>2. T \in SUBSET Nat /\ T # {} /\ \A x \in T : x <= Len(records)
      BY <1>0, <3>1
    <3> HIDE DEF T
    <3>3. Im!Max(T) \in T
      BY <1>0, <3>2, GreatestOf, Zenon
    <3>4. Im!Cursor' = Im!Max(T)
      BY DEF Im!Cursor, T, Im!Max
    <3> QED BY <3>3, <3>4 DEF T
  <2> SUFFICES ASSUME NEW n \in listed, records[n].usable, n <= Im!Cursor'
               PROVE  imports'[records[n].file] >= n
    BY <1>0 DEF Im!NoImportIsSkipped
  <2> DEFINE f == records[n].file
  <2>4. n \in Nat \ {0} /\ f \in Files
    <3>1. n \in 1..Len(records)
      BY Ranks
    <3>2. records \in Seq([file : Files, usable : BOOLEAN])
      BY DEF Im!TypeOK
    <3>3. records[n] \in [file : Files, usable : BOOLEAN]
      <4> DEFINE R == [file : Files, usable : BOOLEAN]
      <4> HIDE DEF R
      <4>1. records \in Seq(R)
        BY <3>2 DEF R
      <4>2. records[n] \in R
        BY <3>1, <4>1
      <4> QED BY <4>2 DEF R
    <3> QED BY <3>1, <3>3
  <2>5. CASE n <= since
    <3>1. imports[f] >= n
      BY <1>0, <2>5 DEF Im!NoImportIsSkipped
    <3>2. collected[f] # 0 => since < collected[f]
      BY <2>2, <2>4
    <3>3. imports[f] \in Nat /\ collected[f] \in Nat
          /\ imports'[f] = (IF collected[f] # 0 THEN collected[f] ELSE imports[f])
      BY <2>1, <2>4
    <3>4. collected[f] # 0 => collected[f] >= n
      BY <1>0, <2>4, <2>5, <3>2, <3>3
    <3> HIDE DEF f
    <3>5. imports'[f] >= n
      BY <3>1, <3>3, <3>4
    <3> QED BY <3>5 DEF f
  <2>6. CASE ~(n <= since)
    <3>1. PICK g \in Files : Im!Cursor' = imports'[g]
      BY <2>3, <2>4
    <3>2. collected[g] # 0
      <4>1. collected[g] = 0 => imports'[g] <= since /\ imports'[g] \in Nat
        BY <2>1
      <4> QED BY <1>0, <2>4, <2>6, <3>1, <4>1
    <3>3. n <= collected[g] /\ collected[g] <= top
      BY <2>1, <2>2, <3>1, <3>2
    <3>4. n <= top /\ n > since
      <4>1. collected[g] \in Nat
        BY <2>1
      <4>2. top \in Nat
        BY <1>0
      <4> QED BY <1>0, <2>4, <2>6, <3>3, <4>1, <4>2
    <3>5. collected[f] >= n
      BY <1>0, <3>4 DEF Im!CollectedOK, Im!Shown
    <3>6. collected[f] # 0
      BY <2>1, <2>4, <3>5
    <3>7. imports'[f] = collected[f]
      BY <2>1, <2>4, <3>6
    <3> QED BY <3>5, <3>7
  <2> QED BY <2>5, <2>6
<1> QED BY <1>1, <1>2 DEF Im!UpsertArrImports

\* Every step preserves that the cursor passes nothing by.
LEMMA ImportsSkip ==
  ASSUME Im!TypeOK, Im!NoImportIsSkipped, Im!Next,
         ~shifted /\ ipc # "idle" => Im!CollectedOK
  PROVE  Im!NoImportIsSkipped'
<1> SUFFICES ASSUME ~shifted' PROVE Im!NoImportIsSkipped'
  BY DEF Im!NoImportIsSkipped
<1>1. ~shifted
  BY Zenon DEF Im!Next, Im!Import, Im!DropHistory, Im!MaxHistoryID, Im!FetchPage, Im!PageFails,
     Im!UpsertArrImports, Im!history
<1>2. CASE Im!UpsertArrImports
  <2>1. ipc = "store"
    BY <1>2 DEF Im!UpsertArrImports
  <2> QED BY <1>1, <1>2, <2>1, ImportsUpsert
<1>3. CASE Im!Import
  <2>1. /\ listed' = listed \cup {Len(records) + 1} /\ UNCHANGED imports
        /\ \E r : records' = Append(records, r)
    BY <1>3 DEF Im!Import
  <2>2. Im!Cursor' = Im!Cursor
    BY <2>1 DEF Im!Cursor
  <2>3. Im!Cursor \in Nat /\ Im!Cursor <= Len(records) /\ Len(records) \in Nat
    BY ImportsCursor, Ranks
  <2>4. \A n \in listed : records'[n] = records[n]
    <3>1. \A n \in listed : n \in 1..Len(records)
      BY Ranks
    <3>2. records \in Seq([file : Files, usable : BOOLEAN])
      BY DEF Im!TypeOK
    <3> DEFINE R == [file : Files, usable : BOOLEAN]
    <3> HIDE DEF R
    <3>3. records \in Seq(R)
      BY <3>2 DEF R
    <3> QED BY <2>1, <3>1, <3>3
  <2>5. ~(Len(records) + 1 <= Im!Cursor)
    BY <2>3
  <2> QED BY <1>1, <2>1, <2>2, <2>4, <2>5, Zenon DEF Im!NoImportIsSkipped
<1>4. CASE ~Im!UpsertArrImports /\ ~Im!Import
  <2>1. listed' \subseteq listed /\ UNCHANGED <<imports, records>>
    BY <1>4 DEF Im!Next, Im!DropHistory, Im!MaxHistoryID, Im!FetchPage, Im!PageFails, Im!arr
  <2>2. Im!Cursor' = Im!Cursor
    BY <2>1 DEF Im!Cursor
  <2> QED BY <1>1, <2>1, <2>2 DEF Im!NoImportIsSkipped
<1> QED BY <1>2, <1>3, <1>4

\* The cursor passes no import by, whatever pages or writes failed, and whatever was
\* imported while they were read, unless the pages were shifted.
THEOREM ImportsAreSeen == DaemonSpec => []NoImportIsSkipped
<1> DEFINE I == which = "imports" => Im!IInv
<1>1. DaemonInit => I
  <2> SUFFICES ASSUME Im!Init PROVE Im!IInv
    BY DEF DaemonInit
  <2> USE DEF Im!Init
  <2>1. /\ records = <<>> /\ records \in Seq([file : Files, usable : BOOLEAN]) /\ Len(records) = 0
        /\ Im!Nothing \in [Files -> Nat]
    BY DEF Im!Nothing
  <2>2. Im!TypeOK
    <3>1. Im!OfTheirFiles(imports) /\ Im!OfTheirFiles(collected)
      BY DEF Im!OfTheirFiles, Im!Nothing
    <3>2. listed \subseteq DOMAIN records
      OBVIOUS
    <3>3. top \in 0..Len(records)
      BY <2>1
    <3>4. ~Im!BetweenPages
      BY DEF Im!BetweenPages
    <3> QED BY <2>1, <3>1, <3>2, <3>3, <3>4, Zenon DEF Im!TypeOK
  <2>3. Im!NoImportIsSkipped
    BY DEF Im!NoImportIsSkipped
  <2> QED BY <2>2, <2>3 DEF Im!IInv
<1>2. I /\ [DaemonNext]_allVars => I'
  <2> SUFFICES ASSUME I, [DaemonNext]_allVars, which' = "imports" PROVE Im!IInv'
    OBVIOUS
  <2>1. CASE UNCHANGED allVars
    <3>1. /\ Im!IInv
          /\ UNCHANGED <<records, listed, imports, ipc, since, pageNum>>
          /\ UNCHANGED <<collected, top, came, shifted>>
      BY <2>1 DEF allVars, shared, ofImports
    <3>2. Im!Cursor' = Im!Cursor /\ Im!Nothing' = Im!Nothing /\ \A n : (Im!Rank(n))' = Im!Rank(n)
      BY <3>1 DEF Im!Cursor, Im!Nothing, Im!Rank
    <3>3. (Im!Rank(top))' = Im!Rank(top)
      BY <3>1 DEF Im!Rank
    <3>4. Im!TypeOK'
      BY <3>1, <3>2 DEF Im!IInv, Im!TypeOK, Im!OfTheirFiles, Im!BetweenPages
    <3>5. Im!NoImportIsSkipped'
      BY <3>1, <3>2 DEF Im!IInv, Im!NoImportIsSkipped
    <3>6. ~shifted /\ ipc # "idle" => Im!CollectedOK' /\ Im!NewerAreBefore'
      BY <3>1, <3>2, <3>3
         DEF Im!IInv, Im!CollectedOK, Im!Shown, Im!Rank, Im!NewerAreBefore, Im!BetweenPages
    <3> QED BY <3>1, <3>4, <3>5, <3>6 DEF Im!IInv
  <2>2. CASE DaemonNext
    <3>1. /\ Im!TypeOK /\ Im!NoImportIsSkipped /\ Im!Next
          /\ ~shifted /\ ipc # "idle" => Im!CollectedOK /\ Im!NewerAreBefore
      BY <2>2 DEF DaemonNext, Im!IInv
    <3>2. Im!TypeOK'
      BY <3>1, ImportsTypeOK
    <3>3. Im!NoImportIsSkipped'
      BY <3>1, ImportsSkip
    <3>4. ~shifted' => ~shifted
      BY <3>1, Zenon DEF Im!Next, Im!Import, Im!DropHistory, Im!MaxHistoryID, Im!FetchPage,
         Im!PageFails, Im!UpsertArrImports, Im!history
    <3>5. ~shifted' /\ ipc' # "idle" => Im!CollectedOK' /\ Im!NewerAreBefore'
      BY <3>1, <3>4, ImportsCollected
    <3> QED BY <3>2, <3>3, <3>5 DEF Im!IInv
  <2> QED BY <2>1, <2>2
<1>3. I => NoImportIsSkipped
  BY DEF NoImportIsSkipped, Im!IInv
<1> QED BY <1>1, <1>2, <1>3, PTL DEF DaemonSpec
=============================================================================
