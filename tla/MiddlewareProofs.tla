--------------------------- MODULE MiddlewareProofs ---------------------------
(***************************************************************************)
(* Proofs about what every request passes before its handler: the check of *)
(* the login, for any number of requests, accounts, sessions and any       *)
(* durations, from the inductive invariant IInv of Auth; and the limit on  *)
(* the requests of an address, for any addresses, limits and requests,     *)
(* from the inductive invariant of RateLimit.                              *)
(***************************************************************************)
EXTENDS Daemon, SumsProofs, FiniteSetTheorems

-----------------------------------------------------------------------------
\* The login.

\* What the proofs use of the constants.
LEMMA Consts ==
  /\ CacheTTL \in Nat /\ SessionTTL \in Nat /\ Timeout \in Nat /\ TouchInterval \in Nat
  /\ TouchInterval > 0 /\ MaxUsers \in Nat /\ MaxTokens \in Nat /\ MaxNow \in Nat
  BY ConstantsAssumption

\* No request is a request of its own.
LEMMA NoRequestType == NoRequest \in RequestType /\ NoRequest.token = 0
  BY DEF NoRequest, RequestType

\* The requests that come in begin now.
LEMMA IncomingType ==
  ASSUME TypeOK, NEW q \in Incoming
  PROVE  /\ q.op \in {"get", "enable", "disable", "login"} /\ q.token \in 0..lastToken
         /\ q.user = 0 /\ q.enabled = FALSE /\ q.began = now
         /\ q = [op |-> q.op, step |-> q.step, token |-> q.token, user |-> q.user,
                 enabled |-> q.enabled, began |-> q.began]
  BY DEF Incoming

\* The sessions ts stay as they are, the others end.
LEMMA KeepFacts ==
  ASSUME TypeOK, NEW ts \in SUBSET DOMAIN sessions, KeepSessions(ts)
  PROVE  /\ DOMAIN sessions' = ts /\ DOMAIN used' = ts
         /\ \A t \in ts : sessions'[t] = sessions[t] /\ used'[t] = used[t]
         /\ ended' = ended \cup (DOMAIN sessions \ ts) /\ missed' = missed \cap ts
  BY DEF KeepSessions, Restrict

\* The sessions of the accounts that stay, stay.
LEMMA SetUsersFacts ==
  ASSUME TypeOK, NEW us, NEW by, SetUsers(us, by)
  PROVE  \E ts \in SUBSET DOMAIN sessions :
           /\ users' = us /\ \A t \in ts : sessions[t].user \in us
           /\ DOMAIN sessions' = ts /\ DOMAIN used' = ts
           /\ \A t \in ts : sessions'[t] = sessions[t] /\ used'[t] = used[t]
           /\ ended' = ended \cup (DOMAIN sessions \ ts) /\ missed' = missed \cap ts
<1> DEFINE ts == {t \in DOMAIN sessions : sessions[t].user \in us}
<1>1. ts \in SUBSET DOMAIN sessions
  OBVIOUS
<1>2. users' = us /\ KeepSessions(ts) /\ \A t \in ts : sessions[t].user \in us
  BY DEF SetUsers
<1> HIDE DEF ts
<1> QED BY <1>1, <1>2, KeepFacts

\* Accounts and tokens are numbers.
LEMMA Numbers ==
  ASSUME TypeOK
  PROVE  /\ now \in Nat /\ lastUser \in Nat /\ lastToken \in Nat /\ switched \in Nat
         /\ \A u \in users : u \in Nat
         /\ \A t \in DOMAIN sessions : t \in Nat /\ sessions[t].user \in users
<1>1. /\ now \in Nat /\ lastUser \in Nat /\ lastToken \in Nat
  BY Consts DEF TypeOK
<1>2. users \subseteq 1..lastUser /\ DOMAIN sessions \subseteq 1..lastToken /\ switched \in 0..now
  BY DEF TypeOK
<1>3. \A u \in users : u \in Nat
  <2>1. 1..lastUser \subseteq Nat
    BY <1>1
  <2> QED BY <1>2, <2>1
<1>4. \A t \in DOMAIN sessions : t \in Nat
  <2>1. 1..lastToken \subseteq Nat
    BY <1>1
  <2> QED BY <1>2, <2>1
<1>5. \A t \in DOMAIN sessions : sessions[t].user \in users
  BY DEF TypeOK
<1> QED BY <1>1, <1>2, <1>3, <1>4, <1>5

\* A request that is updated in place, or comes in, or is answered, is a request.
LEMMA RequestUpdate ==
  ASSUME TypeOK, NEW r \in Requests, NEW q \in RequestType, q.token <= lastToken',
         lastToken <= lastToken', lastToken' \in Nat, req' = [req EXCEPT ![r] = q]
  PROVE  req' \in [Requests -> RequestType] /\ \A s \in Requests : req'[s].token <= lastToken'
<1>1. \A s \in Requests : req'[s] = IF s = r THEN q ELSE req[s]
  BY DEF TypeOK
<1>2. \A s \in Requests : req[s] \in RequestType /\ req[s].token <= lastToken
  BY DEF TypeOK
<1>3. \A s \in Requests : req[s].token \in Nat
  BY <1>2 DEF RequestType
<1>4. lastToken \in Nat
  BY Consts DEF TypeOK
<1>5. \A s \in Requests : req'[s].token <= lastToken'
  BY <1>1, <1>2, <1>3, <1>4
<1> QED BY <1>1, <1>2, <1>5 DEF TypeOK

\* The statements a request may be at.
Steps == {"none", "store", "resolve", "touch", "insert", "delete", "invalidate", "user", "issue"}

\* The statements keep the requests well-formed.
LEMMA RequestsType ==
  ASSUME TypeOK, [Next]_vars, lastToken <= lastToken', lastToken' \in Nat
  PROVE  req' \in [Requests -> RequestType] /\ \A r \in Requests : req'[r].token <= lastToken'
<1> DEFINE Goal == /\ req' \in [Requests -> RequestType]
                   /\ \A r \in Requests : req'[r].token <= lastToken'
<1> lastToken \in Nat /\ now \in Nat /\ MaxUsers \in Nat /\ lastUser \in Nat
  BY Consts DEF TypeOK
<1>1. ASSUME NEW r \in Requests, req' = [req EXCEPT ![r] = NoRequest] PROVE Goal
  <2>1. NoRequest \in RequestType /\ NoRequest.token <= lastToken'
    BY NoRequestType
  <2> QED BY <1>1, <2>1, RequestUpdate
<1>2. ASSUME NEW r \in Requests, NEW step \in Steps, NEW user \in Nat,
             \/ req' = [req EXCEPT ![r].step = step]
             \/ req' = [req EXCEPT ![r].step = step, ![r].user = user]
      PROVE  Goal
  <2>1. req[r] \in RequestType /\ req[r].token <= lastToken /\ req[r].token \in Nat
    BY DEF TypeOK, RequestType
  <2>2. PICK q \in RequestType : q.token = req[r].token /\ req' = [req EXCEPT ![r] = q]
    <3>1. CASE req' = [req EXCEPT ![r].step = step]
      <4>1. req' = [req EXCEPT ![r] = [req[r] EXCEPT !.step = step]]
        BY <3>1
      <4> QED BY <2>1, <4>1 DEF RequestType, Steps
    <3>2. CASE req' = [req EXCEPT ![r].step = step, ![r].user = user]
      <4>1. req' = [req EXCEPT ![r] = [req[r] EXCEPT !.step = step, !.user = user]]
        BY <3>2 DEF TypeOK
      <4> QED BY <2>1, <4>1 DEF RequestType, Steps
    <3> QED BY <1>2, <3>1, <3>2
  <2>3. q.token <= lastToken'
    BY <2>1, <2>2
  <2> QED BY <2>2, <2>3, RequestUpdate
<1>3. ASSUME NEW r \in Requests, NEW q, NEW enabled, Proceed(r, q, enabled),
             q \in Incoming \/ q = req[r]
      PROVE  Goal
  <2>1. /\ q.op \in {"none", "get", "enable", "disable", "login"} /\ q.token \in Nat
        /\ q.token <= lastToken /\ q.user \in Nat /\ q.began \in Nat
        /\ q = [op |-> q.op, step |-> q.step, token |-> q.token, user |-> q.user,
                enabled |-> q.enabled, began |-> q.began]
    <3>1. CASE q \in Incoming
      <4>1. /\ q.op \in {"get", "enable", "disable", "login"} /\ q.token \in 0..lastToken
            /\ q.user = 0 /\ q.began = now
            /\ q = [op |-> q.op, step |-> q.step, token |-> q.token, user |-> q.user,
                    enabled |-> q.enabled, began |-> q.began]
        BY <3>1, IncomingType
      <4> QED BY <4>1
    <3>2. CASE q = req[r]
      <4>1. q \in RequestType /\ q.token <= lastToken
        BY <3>2 DEF TypeOK
      <4> QED BY <4>1 DEF RequestType
    <3> QED BY <1>3, <3>1, <3>2
  <2>2. ASSUME NEW step \in Steps,
               req' = [req EXCEPT ![r] = [q EXCEPT !.step = step, !.enabled = FALSE]]
        PROVE  Goal
    <3>1. [q EXCEPT !.step = step, !.enabled = FALSE] \in RequestType
      BY <2>1 DEF RequestType, Steps
    <3>2. [q EXCEPT !.step = step, !.enabled = FALSE].token <= lastToken'
      BY <2>1
    <3> QED BY <2>2, <3>1, <3>2, RequestUpdate
  <2> QED BY <1>1, <1>3, <2>2 DEF Proceed, Answered, Steps
<1>4. ASSUME NEW r \in Requests, CacheHit(r) PROVE Goal
  BY <1>3, <1>4 DEF CacheHit
<1>5. ASSUME NEW r \in Requests, HasAuthUser(r) PROVE Goal
  <2> DEFINE e == Enabled
  <2>1. e \in BOOLEAN
    BY DEF Enabled
  <2>2. PICK q \in Incoming : req' = [req EXCEPT ![r] = [q EXCEPT !.step = "store", !.enabled = e]]
    BY <1>5 DEF HasAuthUser
  <2> HIDE DEF e
  <2>3. /\ q.op \in {"get", "enable", "disable", "login"} /\ q.token \in 0..lastToken
        /\ q.user = 0 /\ q.began = now
        /\ q = [op |-> q.op, step |-> q.step, token |-> q.token, user |-> q.user,
                enabled |-> q.enabled, began |-> q.began]
    BY IncomingType
  <2> DEFINE p == [q EXCEPT !.step = "store", !.enabled = e]
  <2>4. p.token <= lastToken'
    BY <2>3
  <2>5. p \in RequestType
    <3>1. q.token \in Nat /\ q.user \in Nat /\ q.began \in Nat
      BY <2>3
    <3>2. [q EXCEPT !.step = "store", !.enabled = TRUE] \in RequestType
      BY <2>3, <3>1 DEF RequestType
    <3>3. [q EXCEPT !.step = "store", !.enabled = FALSE] \in RequestType
      BY <2>3, <3>1 DEF RequestType
    <3>4. CASE e = TRUE
      BY <3>2, <3>4
    <3>5. CASE e = FALSE
      BY <3>3, <3>5
    <3> QED BY <2>1, <3>4, <3>5
  <2> QED BY <2>2, <2>4, <2>5, RequestUpdate
<1>6. ASSUME NEW r \in Requests, StoreAuthState(r) PROVE Goal
  BY <1>3, <1>6 DEF StoreAuthState
<1>7. ASSUME NEW r \in Requests, LookupSession(r) PROVE Goal
  <2>1. \A t \in DOMAIN sessions : sessions[t].user \in Nat
    BY Numbers
  <2>2. \/ req' = [req EXCEPT ![r] = NoRequest]
        \/ \E step \in Steps, user \in Nat :
             \/ req' = [req EXCEPT ![r].step = step]
             \/ req' = [req EXCEPT ![r].step = step, ![r].user = user]
    BY <1>7, <2>1 DEF LookupSession, Answered, Steps
  <2> QED BY <1>1, <1>2, <2>2
<1>8. ASSUME NEW r \in Requests, TouchAuthSession(r) PROVE Goal
  <2>1. \/ req' = [req EXCEPT ![r] = NoRequest]
        \/ req' = [req EXCEPT ![r].step = "delete"]
    BY <1>8 DEF TouchAuthSession, Resolved, GoesTo, Answered
  <2> QED BY <1>1, <1>2, <2>1 DEF Steps
<1>9. ASSUME NEW r \in Requests, InsertAuthUser(r) PROVE Goal
  <2>1. \/ req' = [req EXCEPT ![r] = NoRequest]
        \/ req' = [req EXCEPT ![r].step = "invalidate", ![r].user = lastUser + 1]
    BY <1>9 DEF InsertAuthUser, Answered
  <2>2. lastUser + 1 \in Nat /\ "invalidate" \in Steps
    BY DEF Steps
  <2> QED BY <1>1, <1>2, <2>1, <2>2
<1>10. ASSUME NEW r \in Requests, DeleteAuthUser(r) \/ Invalidate(r) PROVE Goal
  BY <1>1, <1>2, <1>10 DEF DeleteAuthUser, Invalidate, GoesTo, Answered, Steps
<1>11. ASSUME NEW r \in Requests, FindUser(r) PROVE Goal
  <2>1. users \subseteq Nat
    BY Numbers
  <2> QED BY <1>1, <1>2, <1>11, <2>1 DEF FindUser, Answered, Steps
<1>12. ASSUME NEW r \in Requests, IssueSession(r) PROVE Goal
  BY <1>1, <1>12 DEF IssueSession, Answered
<1>13. ASSUME UNCHANGED req PROVE Goal
  BY <1>13 DEF TypeOK, RequestType
<1>14. CASE Restart
  <2>1. req' = [r \in Requests |-> NoRequest]
    BY <1>14 DEF Restart
  <2> QED BY <2>1, NoRequestType
<1> QED
  BY <1>4, <1>5, <1>6, <1>7, <1>8, <1>9, <1>10, <1>11, <1>12, <1>13, <1>14
  DEF Next, Logout, ClearAuthUsers, Tick, vars

\* The part of TypeOK about sessions.
SessionTypes ==
  /\ DOMAIN sessions \subseteq 1..lastToken
  /\ \A t \in DOMAIN sessions : sessions[t] \in [user : users, expires : Nat, seen : 0..now]
  /\ DOMAIN used = DOMAIN sessions /\ \A t \in DOMAIN used : used[t] \in 0..now
  /\ missed \subseteq DOMAIN sessions /\ ended \subseteq 1..lastToken

\* When accounts come or go, the sessions that stay are of accounts that are there.
LEMMA SetUsersTypes ==
  ASSUME TypeOK, NEW us \in SUBSET (1..lastUser'), NEW by \in {"handler", "cli"},
         SetUsers(us, by), UNCHANGED <<now, lastToken>>
  PROVE  /\ SessionTypes' /\ users' \subseteq 1..lastUser'
         /\ switched' \in 0..now' /\ clean' \in BOOLEAN
<1>1. PICK ts \in SUBSET DOMAIN sessions :
        /\ users' = us /\ \A t \in ts : sessions[t].user \in us
        /\ DOMAIN sessions' = ts /\ DOMAIN used' = ts
        /\ \A t \in ts : sessions'[t] = sessions[t] /\ used'[t] = used[t]
        /\ ended' = ended \cup (DOMAIN sessions \ ts) /\ missed' = missed \cap ts
  BY SetUsersFacts
<1>2. \A t \in ts : sessions'[t] \in [user : users', expires : Nat, seen : 0..now']
  BY <1>1 DEF TypeOK
<1>3. switched' \in 0..now'
  BY Numbers DEF TypeOK, SetUsers
<1>4. clean' \in BOOLEAN
  <2>1. clean \in BOOLEAN
    BY DEF TypeOK
  <2>2. CASE clean' = clean
    BY <2>1, <2>2
  <2>3. CASE clean' = (by = "handler" /\ \A r \in Requests : req[r].step # "store")
    BY <2>3
  <2> QED BY <2>2, <2>3 DEF SetUsers
<1> QED BY <1>1, <1>2, <1>3, <1>4 DEF SessionTypes, TypeOK

\* What is not of a request keeps its type.
LEMMA TableTypes ==
  ASSUME TypeOK, [Next]_vars
  PROVE  /\ now' \in 0..MaxNow /\ now <= now'
         /\ users' \subseteq 1..lastUser' /\ lastUser' \in 0..MaxUsers
         /\ lastToken' \in 0..MaxTokens /\ lastToken <= lastToken'
         /\ authState' \in [enabled : BOOLEAN, at : Int]
         /\ switched' \in 0..now' /\ clean' \in BOOLEAN /\ SessionTypes'
<1> DEFINE Goal == /\ now' \in 0..MaxNow /\ now <= now'
                   /\ users' \subseteq 1..lastUser' /\ lastUser' \in 0..MaxUsers
                   /\ lastToken' \in 0..MaxTokens /\ lastToken <= lastToken'
                   /\ authState' \in [enabled : BOOLEAN, at : Int]
                   /\ switched' \in 0..now' /\ clean' \in BOOLEAN /\ SessionTypes'
<1> USE Consts, Numbers DEF table, past
<1>1. TypeOK => SessionTypes
  BY DEF TypeOK, SessionTypes
<1>2. ASSUME UNCHANGED <<now, table, past>>, authState' \in [enabled : BOOLEAN, at : Int] PROVE Goal
  BY <1>1, <1>2 DEF TypeOK, SessionTypes
<1>3. NoCache \in [enabled : BOOLEAN, at : Int]
  BY DEF NoCache
<1>4. authState \in [enabled : BOOLEAN, at : Int]
  BY DEF TypeOK
<1>5. ASSUME NEW r \in Requests, CacheHit(r) \/ HasAuthUser(r) \/ FindUser(r) PROVE Goal
  BY <1>2, <1>4, <1>5 DEF CacheHit, HasAuthUser, FindUser
<1>6. ASSUME NEW r \in Requests, StoreAuthState(r) PROVE Goal
  <2>1. req[r].enabled \in BOOLEAN
    BY DEF TypeOK, RequestType
  <2> QED BY <1>2, <1>6, <2>1 DEF StoreAuthState
<1>7. ASSUME NEW r \in Requests, Invalidate(r) PROVE Goal
  BY <1>2, <1>3, <1>7 DEF Invalidate
<1>8. ASSUME NEW r \in Requests, LookupSession(r) PROVE Goal
  <2>1. DOMAIN used' = DOMAIN used /\ \A t \in DOMAIN used : used'[t] = used[t] \/ used'[t] = now
    BY <1>8 DEF LookupSession
  <2>2. /\ UNCHANGED <<now, table, authState, switched, clean, missed, ended>>
        /\ now \in 0..now
    BY <1>8 DEF LookupSession
  <2>3. SessionTypes'
    BY <2>1, <2>2 DEF TypeOK, SessionTypes
  <2> QED BY <2>2, <2>3 DEF TypeOK
<1>9. ASSUME NEW r \in Requests, TouchAuthSession(r) PROVE Goal
  <2>1. /\ UNCHANGED <<now, users, lastUser, lastToken, authState, switched, clean, used, ended>>
        /\ DOMAIN sessions' = DOMAIN sessions /\ missed' \subseteq DOMAIN sessions
    BY <1>9 DEF TouchAuthSession, TypeOK
  <2>2. ASSUME NEW t \in DOMAIN sessions
        PROVE  sessions'[t] \in [user : users, expires : Nat, seen : 0..now]
    <3>1. sessions[t] \in [user : users, expires : Nat, seen : 0..now]
      BY DEF TypeOK
    <3>2. now + SessionTTL \in Nat /\ now \in 0..now
      OBVIOUS
    <3>3. [sessions[t] EXCEPT !.seen = now, !.expires = now + SessionTTL]
            \in [user : users, expires : Nat, seen : 0..now]
      BY <3>1, <3>2
    <3>4. \/ sessions'[t] = sessions[t]
          \/ sessions'[t] = [sessions[t] EXCEPT !.seen = now, !.expires = now + SessionTTL]
      BY <1>9 DEF TouchAuthSession
    <3> QED BY <3>1, <3>3, <3>4
  <2>3. SessionTypes'
    BY <2>1, <2>2 DEF TypeOK, SessionTypes
  <2> QED BY <2>1, <2>3 DEF TypeOK
<1>10. ASSUME NEW r \in Requests, InsertAuthUser(r) PROVE Goal
  <2>1. CASE /\ lastUser < MaxUsers /\ lastUser' = lastUser + 1
             /\ SetUsers(users \cup {lastUser + 1}, "handler")
    <3>1. users \cup {lastUser + 1} \in SUBSET (1..lastUser')
      <4>1. users \subseteq 1..lastUser /\ lastUser \in Nat
        BY DEF TypeOK
      <4>2. 1..lastUser \subseteq 1..(lastUser + 1) /\ lastUser + 1 \in 1..(lastUser + 1)
        BY <4>1
      <4> QED BY <2>1, <4>1, <4>2
    <3>2. UNCHANGED <<now, lastToken, authState>>
      BY <1>10 DEF InsertAuthUser
    <3> QED BY <2>1, <3>1, <3>2, SetUsersTypes DEF TypeOK
  <2>2. CASE UNCHANGED <<users, lastUser, sessions, past>>
    BY <1>2, <1>4, <1>10, <2>2 DEF InsertAuthUser
  <2> QED BY <1>10, <2>1, <2>2 DEF InsertAuthUser
<1>11. ASSUME NEW r \in Requests, DeleteAuthUser(r) PROVE Goal
  <2>1. UNCHANGED <<now, lastUser, lastToken, authState>>
    BY <1>11 DEF DeleteAuthUser
  <2>2. CASE SetUsers(users \ {req[r].user}, "handler")
    <3>1. users \ {req[r].user} \in SUBSET (1..lastUser')
      BY <2>1 DEF TypeOK
    <3> QED BY <2>1, <2>2, <3>1, SetUsersTypes DEF TypeOK
  <2>3. CASE UNCHANGED <<users, sessions, past>>
    BY <1>2, <1>4, <2>1, <2>3
  <2> QED BY <1>11, <2>2, <2>3 DEF DeleteAuthUser
<1>12. CASE ClearAuthUsers
  <2>1. UNCHANGED <<now, lastUser, lastToken, authState>> /\ SetUsers({}, "cli")
    BY <1>12 DEF ClearAuthUsers
  <2> QED BY <2>1, SetUsersTypes DEF TypeOK
<1>13. ASSUME NEW ts \in SUBSET DOMAIN sessions, DOMAIN sessions' = ts, DOMAIN used' = ts,
              \A t \in ts : sessions'[t] = sessions[t] /\ used'[t] = used[t],
              ended' = ended \cup (DOMAIN sessions \ ts), missed' \subseteq ts,
              UNCHANGED <<now, users, lastUser, lastToken, switched, clean>>,
              authState' \in [enabled : BOOLEAN, at : Int]
       PROVE  Goal
  <2>1. SessionTypes'
    BY <1>13 DEF TypeOK, SessionTypes
  <2> QED BY <1>13, <2>1 DEF TypeOK
<1>14. ASSUME NEW t \in 1..lastToken, Logout(t) PROVE Goal
  <2> DEFINE ts == DOMAIN sessions \ {t}
  <2>1. /\ KeepSessions(ts)
        /\ UNCHANGED <<now, users, lastUser, lastToken, authState, switched, clean>>
    BY <1>14 DEF Logout
  <2>2. /\ DOMAIN sessions' = ts /\ DOMAIN used' = ts
        /\ \A s \in ts : sessions'[s] = sessions[s] /\ used'[s] = used[s]
        /\ ended' = ended \cup (DOMAIN sessions \ ts) /\ missed' = missed \cap ts
    BY <2>1, KeepFacts
  <2> QED BY <1>4, <1>13, <2>1, <2>2
<1>15. CASE Restart
  <2> DEFINE ts == {t \in DOMAIN sessions : sessions[t].expires >= now}
  <2>1. /\ DOMAIN sessions' = ts /\ DOMAIN used' = ts
        /\ \A s \in ts : sessions'[s] = sessions[s] /\ used'[s] = used[s]
        /\ ended' = ended \cup (DOMAIN sessions \ ts) /\ missed' \subseteq ts
        /\ UNCHANGED <<now, users, lastUser, lastToken, switched, clean>> /\ authState' = NoCache
    BY <1>15 DEF Restart, Restrict
  <2>2. ts \in SUBSET DOMAIN sessions
    OBVIOUS
  <2> HIDE DEF ts
  <2> QED BY <1>3, <1>13, <2>1, <2>2
<1>16. ASSUME NEW r \in Requests, IssueSession(r) PROVE Goal
  <2>1. CASE UNCHANGED <<lastToken, sessions, used>>
    BY <1>2, <1>4, <1>16, <2>1 DEF IssueSession
  <2>2. CASE req[r].user \in users /\ lastToken < MaxTokens /\ lastToken' = lastToken + 1
    <3> DEFINE new == [user |-> req[r].user, expires |-> now + SessionTTL, seen |-> now]
    <3>1. /\ DOMAIN sessions' = DOMAIN sessions \cup {lastToken'}
          /\ DOMAIN used' = DOMAIN sessions \cup {lastToken'}
          /\ \A t \in DOMAIN sessions : sessions'[t] = sessions[t] /\ used'[t] = used[t]
          /\ sessions'[lastToken'] = new /\ used'[lastToken'] = now
          /\ UNCHANGED <<now, users, lastUser, authState, switched, clean, missed, ended>>
      <4>1. lastToken' \notin DOMAIN sessions
        BY <2>2 DEF TypeOK
      <4> QED BY <1>16, <2>2, <4>1 DEF IssueSession
    <3>2. new \in [user : users, expires : Nat, seen : 0..now]
      BY <2>2
    <3> HIDE DEF new
    <3>3. SessionTypes'
      BY <2>2, <3>1, <3>2 DEF TypeOK, SessionTypes
    <3> QED BY <2>2, <3>1, <3>3 DEF TypeOK
  <2> QED BY <1>16, <2>1, <2>2 DEF IssueSession
<1>17. CASE Tick
  <2>1. now' = now + 1 /\ now' \in 0..MaxNow /\ UNCHANGED <<table, authState, req, past>>
    BY <1>17 DEF Tick
  <2>2. \A s, e : s \in [user : users, expires : Nat, seen : 0..now] =>
                    s \in [user : users, expires : Nat, seen : 0..now']
    BY <2>1
  <2>3. SessionTypes'
    BY <2>1, <2>2 DEF TypeOK, SessionTypes
  <2> QED BY <2>1, <2>3 DEF TypeOK
<1>18. CASE UNCHANGED vars
  BY <1>2, <1>4, <1>18 DEF vars
<1> QED
  BY <1>5, <1>6, <1>7, <1>8, <1>9, <1>10, <1>11, <1>12, <1>14, <1>15, <1>16, <1>17, <1>18
  DEF Next

\* Every step preserves the types.
LEMMA StepTypeOK == TypeOK /\ [Next]_vars => TypeOK'
<1> SUFFICES ASSUME TypeOK, [Next]_vars PROVE TypeOK'
  OBVIOUS
<1>1. lastToken' \in Nat
  BY TableTypes, Consts
<1> QED BY <1>1, TableTypes, RequestsType DEF TypeOK, SessionTypes

\* No account, no session, no answer yet.
LEMMA InitIInv == Init => IInv
<1> SUFFICES ASSUME Init PROVE IInv
  OBVIOUS
<1>1. /\ now = 0 /\ users = {} /\ lastUser = 0 /\ DOMAIN sessions = {} /\ lastToken = 0
      /\ authState = NoCache /\ switched = 0 /\ clean = TRUE /\ DOMAIN used = {}
      /\ missed = {} /\ ended = {} /\ req = [r \in Requests |-> NoRequest]
  BY DEF Init
<1>2. TypeOK
  <2>1. req \in [Requests -> RequestType] /\ \A r \in Requests : req[r].token <= lastToken
    BY <1>1, NoRequestType
  <2>2. authState \in [enabled : BOOLEAN, at : Int]
    BY <1>1, Consts DEF NoCache
  <2> QED BY <1>1, <2>1, <2>2, Consts DEF TypeOK
<1>3. \A r \in Requests : req[r] = NoRequest /\ req[r].step = "none" /\ req[r].began = 0
  BY <1>1 DEF NoRequest
<1>4. RequestsInTime
  BY <1>1, <1>3 DEF RequestsInTime
<1>5. CacheOK
  <2>1. authState.enabled = FALSE /\ authState.at <= now
    BY <1>1, Consts DEF NoCache
  <2>2. authState.enabled = Enabled
    <3>1. Enabled = FALSE
      BY <1>1 DEF Enabled
    <3> QED BY <2>1, <3>1
  <2> QED BY <1>3, <2>1, <2>2 DEF CacheOK
<1>6. SessionsOK
  BY <1>1, <1>3 DEF SessionsOK, SessionsFollowUse
<1> QED BY <1>2, <1>4, <1>5, <1>6 DEF IInv

\* A request comes in now, goes on, or is over; time passes only while none is late.
LEMMA BeganStep ==
  ASSUME TypeOK, [Next]_vars, NEW s \in Requests
  PROVE  \/ req'[s] = NoRequest
         \/ req'[s].began = now /\ now' = now
         \/ req'[s].began = req[s].began /\ req[s] # NoRequest /\ now' = now
         \/ req'[s] = req[s] /\ req[s] # NoRequest /\ now' = now + 1 /\ now < req[s].began + Timeout
<1> DEFINE Goal == \/ req'[s] = NoRequest
                   \/ req'[s].began = now /\ now' = now
                   \/ req'[s].began = req[s].began /\ req[s] # NoRequest /\ now' = now
                   \/ /\ req'[s] = req[s] /\ req[s] # NoRequest
                      /\ now' = now + 1 /\ now < req[s].began + Timeout
<1> USE DEF table, past
<1> req \in [Requests -> RequestType]
  BY DEF TypeOK
<1>1. ASSUME NEW r \in Requests, req' = [req EXCEPT ![r] = NoRequest], now' = now PROVE Goal
  BY <1>1
<1>2. ASSUME NEW r \in Requests, NEW step, NEW user, now' = now, req[r] # NoRequest,
             \/ req' = [req EXCEPT ![r].step = step]
             \/ req' = [req EXCEPT ![r].step = step, ![r].user = user]
      PROVE  Goal
  <2>1. req'[r].began = req[r].began /\ \A q \in Requests \ {r} : req'[q] = req[q]
    BY <1>2 DEF RequestType
  <2> QED BY <1>2, <2>1
<1>3. \A q \in Requests : req[q].step # "none" => req[q] # NoRequest
  BY DEF NoRequest
<1>4. ASSUME NEW r \in Requests, NEW q, NEW enabled, Proceed(r, q, enabled), now' = now,
             q \in Incoming \/ (q = req[r] /\ req[r] # NoRequest)
      PROVE  Goal
  <2>1. \/ req' = [req EXCEPT ![r] = NoRequest]
        \/ \E step : req' = [req EXCEPT ![r] = [q EXCEPT !.step = step, !.enabled = FALSE]]
    BY <1>4 DEF Proceed, Answered
  <2>2. ASSUME NEW step, req' = [req EXCEPT ![r] = [q EXCEPT !.step = step, !.enabled = FALSE]]
        PROVE  Goal
    <3>1. CASE q \in Incoming
      <4>1. q.began = now /\ [q EXCEPT !.step = step, !.enabled = FALSE].began = now
        BY <3>1 DEF Incoming
      <4> QED BY <1>4, <2>2, <4>1
    <3>2. CASE q = req[r] /\ req[r] # NoRequest
      <4>1. [q EXCEPT !.step = step, !.enabled = FALSE].began = req[r].began
        BY <3>2 DEF RequestType
      <4> QED BY <1>4, <2>2, <3>2, <4>1
    <3> QED BY <1>4, <3>1, <3>2
  <2> QED BY <1>1, <1>4, <2>1, <2>2
<1>5. ASSUME NEW r \in Requests, CacheHit(r) \/ StoreAuthState(r) PROVE Goal
  BY <1>3, <1>4, <1>5 DEF CacheHit, StoreAuthState
<1>6. ASSUME NEW r \in Requests, HasAuthUser(r) PROVE Goal
  <2>1. PICK q \in Incoming :
          req' = [req EXCEPT ![r] = [q EXCEPT !.step = "store", !.enabled = Enabled]]
    BY <1>6 DEF HasAuthUser
  <2>2. [q EXCEPT !.step = "store", !.enabled = Enabled].began = now
    BY DEF Incoming
  <2>3. req[r] = NoRequest /\ now' = now
    BY <1>6 DEF HasAuthUser
  <2> QED BY <2>1, <2>2, <2>3
<1>7. ASSUME NEW r \in Requests,
             LookupSession(r) \/ TouchAuthSession(r) \/ InsertAuthUser(r) \/ DeleteAuthUser(r)
               \/ Invalidate(r) \/ FindUser(r) \/ IssueSession(r)
      PROVE  Goal
  <2>1. now' = now /\ req[r] # NoRequest
    BY <1>3, <1>7
    DEF LookupSession, TouchAuthSession, InsertAuthUser, DeleteAuthUser, Invalidate, FindUser,
        IssueSession
  <2>2. \/ req' = [req EXCEPT ![r] = NoRequest]
        \/ \E step, user : \/ req' = [req EXCEPT ![r].step = step]
                           \/ req' = [req EXCEPT ![r].step = step, ![r].user = user]
    BY <1>7
    DEF LookupSession, TouchAuthSession, InsertAuthUser, DeleteAuthUser, Invalidate, FindUser,
        IssueSession, Answered, GoesTo, Resolved
  <2> QED BY <1>1, <1>2, <2>1, <2>2
<1>8. CASE Restart
  BY <1>8 DEF Restart
<1>9. CASE UNCHANGED <<now, req>>
  BY <1>9
<1>10. CASE Tick
  BY <1>10 DEF Tick
<1> QED
  BY <1>5, <1>6, <1>7, <1>8, <1>9, <1>10 DEF Next, Logout, ClearAuthUsers, vars

\* handlerTimeout: a request that is under way has not begun too long ago.
LEMMA RequestsInTimeStep == TypeOK /\ RequestsInTime /\ [Next]_vars => RequestsInTime'
<1> SUFFICES ASSUME TypeOK, RequestsInTime, [Next]_vars, NEW s \in Requests
             PROVE  /\ req'[s].began <= now'
                    /\ req'[s] = NoRequest \/ now' <= req'[s].began + Timeout
  BY DEF RequestsInTime
<1>1. now \in Nat /\ now' \in Nat /\ Timeout \in Nat /\ req[s].began \in Nat
  BY Numbers, Consts, TableTypes DEF TypeOK, RequestType
<1>2. req[s].began <= now /\ (req[s] = NoRequest \/ now <= req[s].began + Timeout)
  BY DEF RequestsInTime
<1>3. CASE req'[s] = NoRequest
  BY <1>1, <1>3 DEF NoRequest
<1>4. CASE req'[s] # NoRequest
  BY <1>1, <1>2, <1>4, BeganStep
<1> QED BY <1>3, <1>4

\* A request at one step is what the action of another step leaves alone.
LEMMA OthersStay ==
  ASSUME TypeOK, NEW r \in Requests, NEW q, req' = [req EXCEPT ![r] = q]
  PROVE  req'[r] = q /\ \A s \in Requests \ {r} : req'[s] = req[s]
  BY DEF TypeOK

\* Where the table, the cache and the clock stay as they are.
LEMMA CacheOKQuiet ==
  ASSUME CacheOK, UNCHANGED <<now, users, authState, switched, clean>>,
         NEW r \in Requests, \A s \in Requests \ {r} : req'[s] = req[s],
         req[r].step # "invalidate", req'[r].step = "store" => req'[r].enabled = Enabled
  PROVE  CacheOK'
<1> Enabled' = Enabled /\ Fresh' = Fresh
  BY DEF Enabled, Fresh
<1>1. \A s \in Requests : req'[s].step = "store" /\ req'[s].enabled # Enabled =>
        ~clean /\ req'[s].began <= switched
  BY DEF CacheOK
<1>2. \A s \in Requests : req[s].step = "invalidate" => req'[s].step = "invalidate"
  OBVIOUS
<1> QED BY <1>1, <1>2 DEF CacheOK

\* An empty cache is never wrong for long.
LEMMA CacheOKEmpty ==
  ASSUME TypeOK, CacheOK, authState' = NoCache, UNCHANGED <<now, users, switched, clean>>,
         \A s \in Requests : req'[s].step = "store" => req'[s] = req[s]
  PROVE  CacheOK'
<1>1. authState'.at = -CacheTTL /\ now \in Nat /\ CacheTTL \in Nat /\ Timeout \in Nat
      /\ switched \in Nat
  BY Consts, Numbers DEF NoCache
<1>2. ~Fresh' /\ authState'.at <= now /\ authState'.at <= switched + Timeout
  BY <1>1 DEF Fresh
<1>3. Enabled' = Enabled
  BY DEF Enabled
<1>4. \A s \in Requests : req'[s].step = "store" /\ req'[s].enabled # Enabled =>
        ~clean /\ req'[s].began <= switched
  BY DEF CacheOK
<1> QED BY <1>2, <1>3, <1>4 DEF CacheOK

\* A switch: what was read before it is flagged, and the cache is older than it.
LEMMA CacheOKSwitch ==
  ASSUME TypeOK, RequestsInTime, CacheOK, NEW us, NEW by \in {"handler", "cli"},
         SetUsers(us, by), UNCHANGED <<now, authState>>,
         \A s \in Requests : req'[s].step = "store" => req'[s] = req[s],
         \A s \in Requests : req[s].step = "invalidate" => req'[s].step = "invalidate",
         by = "handler" => \E s \in Requests : req'[s].step = "invalidate"
  PROVE  CacheOK'
<1>0. /\ now \in Nat /\ Timeout \in Nat /\ switched \in Nat /\ authState.at \in Int
      /\ authState.at <= now
  BY Consts, Numbers DEF CacheOK, TypeOK
<1>1. Fresh' = Fresh
  BY DEF Fresh
<1>2. CASE (us # {}) = Enabled
  <2>1. Enabled' = Enabled /\ UNCHANGED <<switched, clean>>
    BY <1>2 DEF SetUsers, Enabled
  <2> QED BY <1>1, <2>1 DEF CacheOK
<1>3. CASE (us # {}) # Enabled
  <2>1. /\ switched' = now
        /\ clean' = (by = "handler" /\ \A r \in Requests : req[r].step # "store")
    BY <1>3 DEF SetUsers
  <2>2. ASSUME NEW s \in Requests, req'[s].step = "store"
        PROVE  ~clean' /\ req'[s].began <= switched'
    <3>1. req[s].step = "store" /\ req'[s].began = req[s].began
      BY <2>2
    <3> QED BY <2>1, <3>1 DEF RequestsInTime
  <2>3. authState'.at <= now' /\ authState'.at <= switched' + Timeout
    BY <1>0, <2>1
  <2>4. clean' => \E s \in Requests : req'[s].step = "invalidate"
    BY <2>1
  <2> QED BY <2>2, <2>3, <2>4 DEF CacheOK
<1> QED BY <1>2, <1>3

\* What a handler goes on to after authEnabled neither stores, touches nor invalidates.
LEMMA ProceedFacts ==
  ASSUME TypeOK, NEW r \in Requests, NEW q, NEW enabled, Proceed(r, q, enabled),
         q \in Incoming \/ q = req[r]
  PROVE  /\ req'[r].step \notin {"store", "touch", "invalidate"}
         /\ \A s \in Requests \ {r} : req'[s] = req[s]
<1>1. CASE req' = [req EXCEPT ![r] = NoRequest]
  BY <1>1 DEF TypeOK, NoRequest
<1>2. ASSUME NEW step \in {"insert", "user", "resolve"},
             req' = [req EXCEPT ![r] = [q EXCEPT !.step = step, !.enabled = FALSE]]
      PROVE  /\ req'[r].step \notin {"store", "touch", "invalidate"}
             /\ \A s \in Requests \ {r} : req'[s] = req[s]
  <2>1. [q EXCEPT !.step = step, !.enabled = FALSE].step = step
    BY DEF TypeOK, RequestType, Incoming
  <2>2. req'[r].step = step /\ \A s \in Requests \ {r} : req'[s] = req[s]
    BY <1>2, <2>1 DEF TypeOK
  <2> QED BY <2>2
<1> QED BY <1>1, <1>2 DEF Proceed, Answered

\* A request is answered or goes to another step; the others stay.
LEMMA MoveFacts ==
  ASSUME TypeOK, NEW r \in Requests, NEW step, NEW user,
         \/ req' = [req EXCEPT ![r] = NoRequest] /\ step = "none"
         \/ req' = [req EXCEPT ![r].step = step]
         \/ req' = [req EXCEPT ![r].step = step, ![r].user = user]
  PROVE  /\ req'[r].step = step /\ \A s \in Requests \ {r} : req'[s] = req[s]
         /\ step # "none" => req'[r].began = req[r].began /\ req'[r].token = req[r].token
  BY DEF TypeOK, RequestType, NoRequest

\* The cache is wrong only as CacheOK allows, after every step.
LEMMA CacheOKStep == TypeOK /\ RequestsInTime /\ CacheOK /\ [Next]_vars => CacheOK'
<1> SUFFICES ASSUME TypeOK, RequestsInTime, CacheOK, [Next]_vars PROVE CacheOK'
  OBVIOUS
<1> USE DEF table, past
<1>1. ASSUME UNCHANGED <<now, users, authState, switched, clean, req>> PROVE CacheOK'
  BY <1>1 DEF CacheOK, Fresh, Enabled
<1>2. ASSUME NEW r \in Requests, CacheHit(r) PROVE CacheOK'
  <2>1. /\ UNCHANGED <<now, users, authState, switched, clean>> /\ req[r].step # "invalidate"
        /\ \E q \in Incoming : Proceed(r, q, authState.enabled)
    BY <1>2 DEF CacheHit, NoRequest
  <2> QED BY <2>1, ProceedFacts, CacheOKQuiet
<1>3. ASSUME NEW r \in Requests, HasAuthUser(r) PROVE CacheOK'
  <2>1. PICK q \in Incoming :
          req' = [req EXCEPT ![r] = [q EXCEPT !.step = "store", !.enabled = Enabled]]
    BY <1>3 DEF HasAuthUser
  <2>2. [q EXCEPT !.step = "store", !.enabled = Enabled].enabled = Enabled
    BY DEF Incoming
  <2>3. req'[r].enabled = Enabled /\ \A s \in Requests \ {r} : req'[s] = req[s]
    BY <2>1, <2>2, OthersStay
  <2>4. UNCHANGED <<now, users, authState, switched, clean>> /\ req[r].step # "invalidate"
    BY <1>3 DEF HasAuthUser, NoRequest
  <2> QED BY <2>3, <2>4, CacheOKQuiet
<1>4. ASSUME NEW r \in Requests, StoreAuthState(r) PROVE CacheOK'
  <2>1. /\ req[r].step = "store" /\ authState' = [enabled |-> req[r].enabled, at |-> now]
        /\ Proceed(r, req[r], req[r].enabled) /\ UNCHANGED <<now, users, switched, clean>>
    BY <1>4 DEF StoreAuthState
  <2>2. req'[r].step # "store" /\ \A s \in Requests \ {r} : req'[s] = req[s]
    BY <2>1, ProceedFacts
  <2>3. Enabled' = Enabled
    BY <2>1 DEF Enabled
  <2>4. req[r].enabled # Enabled => ~clean /\ req[r].began <= switched
    BY <2>1 DEF CacheOK
  <2>5. req[r].enabled # Enabled => now <= switched + Timeout
    <3>1. req[r] # NoRequest
      BY <2>1 DEF NoRequest
    <3>2. /\ now \in Nat /\ Timeout \in Nat /\ switched \in Nat /\ req[r].began \in Nat
          /\ now <= req[r].began + Timeout
      BY <3>1, Numbers, Consts DEF TypeOK, RequestType, RequestsInTime
    <3> QED BY <2>4, <3>2
  <2>6. authState'.at = now /\ authState'.enabled = req[r].enabled /\ now <= now
    BY <2>1, Numbers
  <2>7. \A s \in Requests : req'[s].step = "store" /\ req'[s].enabled # Enabled =>
          ~clean /\ req'[s].began <= switched
    BY <2>2 DEF CacheOK
  <2>8. CASE req[r].enabled = Enabled
    <3>1. authState'.enabled = Enabled' /\ authState'.at <= now'
      BY <2>1, <2>3, <2>6, <2>8
    <3> QED BY <2>1, <2>3, <2>7, <3>1 DEF CacheOK
  <2>9. CASE req[r].enabled # Enabled
    <3>1. authState'.at <= now' /\ authState'.at <= switched' + Timeout /\ ~clean'
      BY <2>1, <2>4, <2>5, <2>6, <2>9
    <3> QED BY <2>1, <2>3, <2>7, <3>1 DEF CacheOK
  <2> QED BY <2>8, <2>9
<1>5. ASSUME NEW r \in Requests,
             LookupSession(r) \/ TouchAuthSession(r) \/ FindUser(r) \/ IssueSession(r)
      PROVE  CacheOK'
  <2>1. UNCHANGED <<now, users, authState, switched, clean>> /\ req[r].step # "invalidate"
    BY <1>5 DEF LookupSession, TouchAuthSession, FindUser, IssueSession
  <2>2. \E step, user : /\ step # "store"
                        /\ \/ req' = [req EXCEPT ![r] = NoRequest] /\ step = "none"
                           \/ req' = [req EXCEPT ![r].step = step]
                           \/ req' = [req EXCEPT ![r].step = step, ![r].user = user]
    BY <1>5 DEF LookupSession, TouchAuthSession, FindUser, IssueSession, Answered, GoesTo, Resolved
  <2>3. req'[r].step # "store" /\ \A s \in Requests \ {r} : req'[s] = req[s]
    BY <2>2, MoveFacts
  <2> QED BY <2>1, <2>3, CacheOKQuiet
<1>6. ASSUME NEW r \in Requests, InsertAuthUser(r) PROVE CacheOK'
  <2>1. UNCHANGED <<now, authState>> /\ req[r].step = "insert"
    BY <1>6 DEF InsertAuthUser
  <2>2. CASE /\ SetUsers(users \cup {lastUser + 1}, "handler")
             /\ req' = [req EXCEPT ![r].step = "invalidate", ![r].user = lastUser + 1]
    <3>1. req'[r].step = "invalidate" /\ \A s \in Requests \ {r} : req'[s] = req[s]
      BY <2>2, MoveFacts
    <3> QED BY <2>1, <2>2, <3>1, CacheOKSwitch
  <2>3. CASE Answered(r) /\ UNCHANGED <<users, lastUser, sessions, past>>
    <3>1. req'[r].step = "none" /\ \A s \in Requests \ {r} : req'[s] = req[s]
      BY <2>3, MoveFacts DEF Answered
    <3> QED BY <2>1, <2>3, <3>1, CacheOKQuiet
  <2> QED BY <1>6, <2>2, <2>3 DEF InsertAuthUser
<1>7. ASSUME NEW r \in Requests, DeleteAuthUser(r) PROVE CacheOK'
  <2>1. UNCHANGED <<now, authState>> /\ req[r].step = "delete"
    BY <1>7 DEF DeleteAuthUser
  <2>2. CASE SetUsers(users \ {req[r].user}, "handler") /\ GoesTo(r, "invalidate")
    <3>1. req'[r].step = "invalidate" /\ \A s \in Requests \ {r} : req'[s] = req[s]
      BY <2>2, MoveFacts DEF GoesTo
    <3> QED BY <2>1, <2>2, <3>1, CacheOKSwitch
  <2>3. CASE Answered(r) /\ UNCHANGED <<users, sessions, past>>
    <3>1. req'[r].step = "none" /\ \A s \in Requests \ {r} : req'[s] = req[s]
      BY <2>3, MoveFacts DEF Answered
    <3> QED BY <2>1, <2>3, <3>1, CacheOKQuiet
  <2> QED BY <1>7, <2>2, <2>3 DEF DeleteAuthUser
<1>8. ASSUME NEW r \in Requests, Invalidate(r) PROVE CacheOK'
  <2>1. authState' = NoCache /\ UNCHANGED <<now, users, switched, clean>>
    BY <1>8 DEF Invalidate
  <2>2. \E step \in {"none", "issue"} : \/ req' = [req EXCEPT ![r] = NoRequest] /\ step = "none"
                                        \/ req' = [req EXCEPT ![r].step = step]
    BY <1>8 DEF Invalidate, GoesTo, Answered
  <2>3. req'[r].step # "store" /\ \A s \in Requests \ {r} : req'[s] = req[s]
    BY <2>2, MoveFacts
  <2> QED BY <2>1, <2>3, CacheOKEmpty
<1>9. CASE ClearAuthUsers
  BY <1>9, CacheOKSwitch DEF ClearAuthUsers
<1>10. CASE Restart
  <2>1. authState' = NoCache /\ UNCHANGED <<now, users, switched, clean>>
        /\ req' = [r \in Requests |-> NoRequest]
    BY <1>10 DEF Restart
  <2>2. \A s \in Requests : req'[s].step # "store"
    BY <2>1 DEF NoRequest
  <2> QED BY <2>1, <2>2, CacheOKEmpty
<1>11. CASE Tick
  <2>1. now' = now + 1 /\ UNCHANGED <<users, authState, switched, clean, req>>
    BY <1>11 DEF Tick
  <2>2. now \in Nat /\ CacheTTL \in Nat /\ authState.at \in Int
    BY Numbers, Consts DEF TypeOK
  <2>3. (Fresh' => Fresh) /\ (authState.at <= now => authState'.at <= now')
    BY <2>1, <2>2 DEF Fresh
  <2>4. Enabled' = Enabled
    BY <2>1 DEF Enabled
  <2> QED BY <2>1, <2>3, <2>4 DEF CacheOK
<1> QED
  BY <1>1, <1>2, <1>3, <1>4, <1>5, <1>6, <1>7, <1>8, <1>9, <1>10, <1>11 DEF Next, Logout, vars

\* Where the sessions ts are left as they are, and no touch is forgotten.
LEMMA SessionsKept ==
  ASSUME TypeOK, SessionsOK, NEW ts \in SUBSET DOMAIN sessions,
         DOMAIN sessions' = ts, \A t \in ts : sessions'[t] = sessions[t] /\ used'[t] = used[t],
         ended' = ended \cup (DOMAIN sessions \ ts), missed \cap ts \subseteq missed',
         \A s \in Requests : req'[s].step = "touch" => req'[s] = req[s],
         \A s \in Requests : req[s].step = "touch" /\ req[s].token \in ts =>
                               req'[s] = req[s] \/ req[s].token \in missed'
  PROVE  SessionsOK'
<1>1. \A t \in ts : sessions'[t].expires = sessions'[t].seen + SessionTTL
  BY DEF SessionsOK
<1>2. \A s \in Requests : req'[s].step = "touch" /\ req'[s].token \in DOMAIN sessions' =>
                            req'[s].began <= used'[req'[s].token]
  BY DEF SessionsOK
<1>3. DOMAIN sessions' \cap ended' = {}
  BY DEF SessionsOK, SessionsFollowUse
<1>4. ASSUME NEW t \in ts
      PROVE  /\ sessions'[t].expires <= used'[t] + Timeout + SessionTTL
             /\ \/ sessions'[t].expires > used'[t] + SessionTTL - TouchInterval
                \/ t \in missed'
                \/ \E s \in Requests : req'[s].step = "touch" /\ req'[s].token = t
  <2>1. /\ sessions[t].expires <= used[t] + Timeout + SessionTTL
        /\ \/ sessions[t].expires > used[t] + SessionTTL - TouchInterval
           \/ t \in missed
           \/ \E s \in Requests : req[s].step = "touch" /\ req[s].token = t
    BY DEF SessionsOK, SessionsFollowUse
  <2>2. sessions'[t] = sessions[t] /\ used'[t] = used[t] /\ (t \in missed => t \in missed')
    OBVIOUS
  <2>3. ASSUME NEW s \in Requests, req[s].step = "touch", req[s].token = t
        PROVE  t \in missed' \/ \E q \in Requests : req'[q].step = "touch" /\ req'[q].token = t
    BY <2>3
  <2> QED BY <2>1, <2>2, <2>3
<1> QED BY <1>1, <1>2, <1>3, <1>4 DEF SessionsOK, SessionsFollowUse

\* The times of a session are numbers; it was seen, and used, in the past.
LEMMA SessionTimes ==
  ASSUME TypeOK, NEW t \in DOMAIN sessions
  PROVE  /\ sessions[t].expires \in Nat /\ sessions[t].seen \in Nat /\ sessions[t].seen <= now
         /\ used[t] \in Nat /\ used[t] <= now
  BY Numbers DEF TypeOK

\* A session is used: it will last, or a touch is on its way.
LEMMA SessionsUsed ==
  ASSUME TypeOK, RequestsInTime, SessionsOK, NEW r \in Requests, LookupSession(r)
  PROVE  SessionsOK'
<1> DEFINE t == req[r].token
<1>0. UNCHANGED <<now, sessions, missed, ended>> /\ req[r].step = "resolve"
  BY DEF LookupSession, table
<1>1. CASE Answered(r) /\ UNCHANGED used
  <2>1. req'[r].step = "none" /\ \A s \in Requests \ {r} : req'[s] = req[s]
    BY <1>1, MoveFacts DEF Answered
  <2> QED BY <1>0, <1>1, <2>1, SessionsKept
<1>2. CASE /\ t \in DOMAIN sessions /\ used' = [used EXCEPT ![t] = now]
           /\ IF now - sessions[t].seen >= TouchInterval
              THEN req' = [req EXCEPT ![r].step = "touch", ![r].user = sessions[t].user]
              ELSE IF req[r].op = "disable"
              THEN req' = [req EXCEPT ![r].step = "delete", ![r].user = sessions[t].user]
              ELSE Answered(r)
  <2>1. /\ \A s \in Requests \ {r} : req'[s] = req[s]
        /\ \/ req'[r].step = "touch" /\ req'[r].token = t /\ req'[r].began = req[r].began
           \/ now - sessions[t].seen < TouchInterval /\ req'[r].step # "touch"
    <3>1. CASE now - sessions[t].seen >= TouchInterval
      BY <1>2, <3>1, MoveFacts
    <3>2. CASE ~(now - sessions[t].seen >= TouchInterval)
      <4>1. now \in Nat /\ sessions[t].seen \in Nat /\ TouchInterval \in Nat
        BY <1>2, Numbers, SessionTimes, Consts
      <4>2. now - sessions[t].seen < TouchInterval
        BY <3>2, <4>1
      <4>3. \E step \in {"none", "delete"} : \E user :
              \/ req' = [req EXCEPT ![r] = NoRequest] /\ step = "none"
              \/ req' = [req EXCEPT ![r].step = step, ![r].user = user]
        BY <1>2, <3>2 DEF Answered
      <4> QED BY <4>2, <4>3, MoveFacts
    <3> QED BY <3>1, <3>2
  <2>2. /\ used'[t] = now /\ DOMAIN used' = DOMAIN sessions
        /\ \A s \in DOMAIN sessions \ {t} : used'[s] = used[s]
    BY <1>2 DEF TypeOK
  <2>3. \A s \in Requests : req'[s].began <= now \/ req'[s].step # "touch"
    BY <2>1 DEF RequestsInTime
  <2>4. \A s \in Requests : req'[s].step = "touch" /\ req'[s].token \in DOMAIN sessions =>
                              req'[s].began <= used'[req'[s].token]
    <3> SUFFICES ASSUME NEW s \in Requests, req'[s].step = "touch",
                        req'[s].token \in DOMAIN sessions
                 PROVE  req'[s].began <= used'[req'[s].token]
      OBVIOUS
    <3>1. CASE req'[s].token = t
      BY <2>2, <2>3, <3>1
    <3>2. CASE req'[s].token # t
      <4>1. req'[s] = req[s]
        BY <2>1, <3>2
      <4> QED BY <2>2, <3>2, <4>1 DEF SessionsOK
    <3> QED BY <3>1, <3>2
  <2>5. /\ sessions[t].expires <= now + Timeout + SessionTTL
        /\ \/ sessions[t].expires > now + SessionTTL - TouchInterval
           \/ req'[r].step = "touch" /\ req'[r].token = t
    <3>1. sessions[t].expires = sessions[t].seen + SessionTTL
      BY <1>2 DEF SessionsOK
    <3>2. /\ sessions[t].seen \in Nat /\ sessions[t].seen <= now /\ now \in Nat
          /\ SessionTTL \in Nat /\ TouchInterval \in Nat /\ Timeout \in Nat
      BY <1>2, Numbers, SessionTimes, Consts
    <3> QED BY <2>1, <3>1, <3>2
  <2>6. ASSUME NEW s \in DOMAIN sessions
        PROVE  /\ sessions[s].expires <= used'[s] + Timeout + SessionTTL
               /\ \/ sessions[s].expires > used'[s] + SessionTTL - TouchInterval
                  \/ s \in missed
                  \/ \E q \in Requests : req'[q].step = "touch" /\ req'[q].token = s
    <3>1. CASE s = t
      BY <2>2, <2>5, <3>1
    <3>2. CASE s # t
      <4>1. \A q \in Requests : req[q].step = "touch" => req'[q] = req[q]
        BY <1>0, <2>1
      <4>2. /\ sessions[s].expires <= used[s] + Timeout + SessionTTL
            /\ \/ sessions[s].expires > used[s] + SessionTTL - TouchInterval
               \/ s \in missed
               \/ \E q \in Requests : req[q].step = "touch" /\ req[q].token = s
        BY DEF SessionsOK, SessionsFollowUse
      <4> QED BY <2>2, <3>2, <4>1, <4>2
    <3> QED BY <3>1, <3>2
  <2> QED BY <1>0, <2>4, <2>6 DEF SessionsOK, SessionsFollowUse
<1> QED BY <1>1, <1>2 DEF LookupSession

\* A session is extended, whole, within the time of the request that used it.
LEMMA SessionsTouched ==
  ASSUME TypeOK, RequestsInTime, SessionsOK, NEW r \in Requests, TouchAuthSession(r)
  PROVE  SessionsOK'
<1> DEFINE t == req[r].token
<1>1. /\ UNCHANGED <<now, used, ended>> /\ req[r].step = "touch"
      /\ req'[r].step # "touch" /\ \A s \in Requests \ {r} : req'[s] = req[s]
  <2>1. \E step \in {"none", "delete"} : \/ req' = [req EXCEPT ![r] = NoRequest] /\ step = "none"
                                         \/ req' = [req EXCEPT ![r].step = step]
    BY DEF TouchAuthSession, Resolved, GoesTo, Answered
  <2>2. req'[r].step # "touch" /\ \A s \in Requests \ {r} : req'[s] = req[s]
    BY <2>1, MoveFacts
  <2> QED BY <2>2 DEF TouchAuthSession
<1>2. CASE missed' = (missed \cup {t}) \cap DOMAIN sessions /\ UNCHANGED sessions
  BY <1>1, <1>2, SessionsKept
<1>3. CASE /\ sessions' = [s \in DOMAIN sessions |->
                IF s = t THEN [sessions[s] EXCEPT !.seen = now, !.expires = now + SessionTTL]
                ELSE sessions[s]]
           /\ missed' = missed \ {t}
  <2>1. /\ DOMAIN sessions' = DOMAIN sessions
        /\ \A s \in DOMAIN sessions \ {t} : sessions'[s] = sessions[s]
    BY <1>3
  <2>2. ASSUME t \in DOMAIN sessions
        PROVE  /\ sessions'[t].expires = now + SessionTTL /\ sessions'[t].seen = now
               /\ sessions'[t].expires <= used[t] + Timeout + SessionTTL
               /\ sessions'[t].expires > used[t] + SessionTTL - TouchInterval
    <3>1. sessions'[t].expires = now + SessionTTL /\ sessions'[t].seen = now
      <4>1. sessions[t] \in [user : users, expires : Nat, seen : 0..now]
        BY <2>2 DEF TypeOK
      <4> QED BY <1>3, <2>2, <4>1
    <3>2. req[r].began <= used[t] /\ used[t] <= now /\ used[t] \in Nat
      BY <1>1, <2>2, SessionTimes DEF SessionsOK
    <3>3. now <= req[r].began + Timeout /\ req[r].began \in Nat
      <4>1. req[r] # NoRequest
        BY <1>1 DEF NoRequest
      <4> QED BY <4>1 DEF RequestsInTime, TypeOK, RequestType
    <3>4. /\ now \in Nat /\ Timeout \in Nat /\ SessionTTL \in Nat /\ TouchInterval \in Nat
          /\ TouchInterval > 0
      BY Numbers, Consts
    <3> QED BY <3>1, <3>2, <3>3, <3>4
  <2>3. \A s \in DOMAIN sessions : sessions'[s].expires = sessions'[s].seen + SessionTTL
    BY <2>1, <2>2 DEF SessionsOK
  <2>4. \A s \in Requests : req'[s].step = "touch" /\ req'[s].token \in DOMAIN sessions' =>
                              req'[s].began <= used'[req'[s].token]
    BY <1>1, <2>1 DEF SessionsOK
  <2>5. ASSUME NEW s \in DOMAIN sessions
        PROVE  /\ sessions'[s].expires <= used'[s] + Timeout + SessionTTL
               /\ \/ sessions'[s].expires > used'[s] + SessionTTL - TouchInterval
                  \/ s \in missed'
                  \/ \E q \in Requests : req'[q].step = "touch" /\ req'[q].token = s
    <3>1. CASE s = t
      BY <1>1, <2>2, <3>1
    <3>2. CASE s # t
      <4>1. sessions'[s] = sessions[s] /\ used'[s] = used[s] /\ (s \in missed => s \in missed')
        BY <1>1, <1>3, <2>1, <3>2
      <4>2. \A q \in Requests : req[q].step = "touch" /\ req[q].token = s => req'[q] = req[q]
        BY <1>1, <3>2
      <4>3. /\ sessions[s].expires <= used[s] + Timeout + SessionTTL
            /\ \/ sessions[s].expires > used[s] + SessionTTL - TouchInterval
               \/ s \in missed
               \/ \E q \in Requests : req[q].step = "touch" /\ req[q].token = s
        BY DEF SessionsOK, SessionsFollowUse
      <4> QED BY <4>1, <4>2, <4>3
    <3> QED BY <3>1, <3>2
  <2>6. DOMAIN sessions' \cap ended' = {}
    BY <1>1, <2>1 DEF SessionsOK, SessionsFollowUse
  <2> QED BY <2>1, <2>3, <2>4, <2>5, <2>6 DEF SessionsOK, SessionsFollowUse
<1> QED BY <1>2, <1>3 DEF TouchAuthSession

\* A session is issued under a token that no session has had.
LEMMA SessionsIssued ==
  ASSUME TypeOK, SessionsOK, NEW r \in Requests, IssueSession(r)
  PROVE  SessionsOK'
<1>1. /\ UNCHANGED <<now, missed, ended>> /\ req[r].step = "issue"
      /\ req'[r].step = "none" /\ \A s \in Requests \ {r} : req'[s] = req[s]
  <2>1. req'[r].step = "none" /\ \A s \in Requests \ {r} : req'[s] = req[s]
    BY MoveFacts DEF IssueSession, Answered
  <2> QED BY <2>1 DEF IssueSession
<1>2. CASE UNCHANGED <<lastToken, sessions, used>>
  BY <1>1, <1>2, SessionsKept
<1>3. CASE /\ sessions' = [t \in DOMAIN sessions \cup {lastToken + 1} |->
                IF t \in DOMAIN sessions THEN sessions[t]
                ELSE [user |-> req[r].user, expires |-> now + SessionTTL, seen |-> now]]
           /\ used' = [t \in DOMAIN sessions' |-> IF t \in DOMAIN sessions THEN used[t] ELSE now]
  <2> DEFINE new == lastToken + 1
  <2>1. new \notin DOMAIN sessions /\ new \notin ended /\ \A s \in Requests : req[s].token # new
    <3>1. \A s \in Requests : req[s].token <= lastToken /\ req[s].token \in Nat
      BY DEF TypeOK, RequestType
    <3>2. /\ lastToken \in Nat
          /\ DOMAIN sessions \subseteq 1..lastToken /\ ended \subseteq 1..lastToken
      BY Numbers DEF TypeOK
    <3> QED BY <3>1, <3>2
  <2>2. /\ DOMAIN sessions' = DOMAIN sessions \cup {new}
        /\ \A t \in DOMAIN sessions : sessions'[t] = sessions[t] /\ used'[t] = used[t]
        /\ sessions'[new].expires = now + SessionTTL /\ sessions'[new].seen = now
        /\ used'[new] = now
    BY <1>3, <2>1
  <2> HIDE DEF new
  <2>3. /\ now + SessionTTL <= now + Timeout + SessionTTL
        /\ now + SessionTTL > now + SessionTTL - TouchInterval
    BY Numbers, Consts
  <2>4. \A t \in DOMAIN sessions' : sessions'[t].expires = sessions'[t].seen + SessionTTL
    BY <2>2 DEF SessionsOK
  <2>5. \A s \in Requests : req'[s].step = "touch" /\ req'[s].token \in DOMAIN sessions' =>
                              req'[s].began <= used'[req'[s].token]
    BY <1>1, <2>1, <2>2 DEF SessionsOK
  <2>6. ASSUME NEW t \in DOMAIN sessions
        PROVE  /\ sessions[t].expires <= used[t] + Timeout + SessionTTL
               /\ \/ sessions[t].expires > used[t] + SessionTTL - TouchInterval
                  \/ t \in missed
                  \/ \E s \in Requests : req'[s].step = "touch" /\ req'[s].token = t
    BY <1>1 DEF SessionsOK, SessionsFollowUse
  <2>7. DOMAIN sessions' \cap ended' = {}
    BY <1>1, <2>1, <2>2 DEF SessionsOK, SessionsFollowUse
  <2>8. \A t \in DOMAIN sessions' :
          /\ sessions'[t].expires <= used'[t] + Timeout + SessionTTL
          /\ \/ sessions'[t].expires > used'[t] + SessionTTL - TouchInterval
             \/ t \in missed'
             \/ \E s \in Requests : req'[s].step = "touch" /\ req'[s].token = t
    BY <1>1, <2>2, <2>3, <2>6
  <2> QED BY <2>4, <2>5, <2>7, <2>8 DEF SessionsOK, SessionsFollowUse
<1> QED BY <1>2, <1>3 DEF IssueSession

\* A session follows its use, through every step.
LEMMA SessionsOKStep == TypeOK /\ RequestsInTime /\ SessionsOK /\ [Next]_vars => SessionsOK'
<1> SUFFICES ASSUME TypeOK, RequestsInTime, SessionsOK, [Next]_vars PROVE SessionsOK'
  OBVIOUS
<1> USE DEF table, past
<1>1. ASSUME NEW r \in Requests, UNCHANGED <<sessions, used, missed, ended>>,
             \A s \in Requests \ {r} : req'[s] = req[s],
             req[r].step # "touch", req'[r].step # "touch"
      PROVE  SessionsOK'
  BY <1>1, SessionsKept
<1>2. ASSUME NEW r \in Requests, CacheHit(r) PROVE SessionsOK'
  <2>1. /\ UNCHANGED <<sessions, used, missed, ended>> /\ req[r].step # "touch"
        /\ \E q \in Incoming : Proceed(r, q, authState.enabled)
    BY <1>2 DEF CacheHit, NoRequest
  <2> QED BY <1>1, <2>1, ProceedFacts
<1>3. ASSUME NEW r \in Requests, HasAuthUser(r) PROVE SessionsOK'
  <2>1. PICK q \in Incoming :
          req' = [req EXCEPT ![r] = [q EXCEPT !.step = "store", !.enabled = Enabled]]
    BY <1>3 DEF HasAuthUser
  <2>2. [q EXCEPT !.step = "store", !.enabled = Enabled].step = "store"
    BY DEF Incoming
  <2>3. req'[r].step = "store" /\ \A s \in Requests \ {r} : req'[s] = req[s]
    BY <2>1, <2>2, OthersStay
  <2>4. UNCHANGED <<sessions, used, missed, ended>> /\ req[r].step # "touch"
    BY <1>3 DEF HasAuthUser, NoRequest
  <2> QED BY <1>1, <2>3, <2>4
<1>4. ASSUME NEW r \in Requests, StoreAuthState(r) PROVE SessionsOK'
  <2>1. /\ req[r].step = "store" /\ Proceed(r, req[r], req[r].enabled)
        /\ UNCHANGED <<sessions, used, missed, ended>>
    BY <1>4 DEF StoreAuthState
  <2>2. req'[r].step # "touch" /\ \A s \in Requests \ {r} : req'[s] = req[s]
    BY <2>1, ProceedFacts
  <2> QED BY <1>1, <2>1, <2>2
<1>5. ASSUME NEW r \in Requests, Invalidate(r) \/ FindUser(r) PROVE SessionsOK'
  <2>1. UNCHANGED <<sessions, used, missed, ended>> /\ req[r].step # "touch"
    BY <1>5 DEF Invalidate, FindUser
  <2>2. \E step \in {"none", "issue"} : \E user :
          \/ req' = [req EXCEPT ![r] = NoRequest] /\ step = "none"
          \/ req' = [req EXCEPT ![r].step = step]
          \/ req' = [req EXCEPT ![r].step = step, ![r].user = user]
    BY <1>5 DEF Invalidate, FindUser, GoesTo, Answered
  <2>3. req'[r].step # "touch" /\ \A s \in Requests \ {r} : req'[s] = req[s]
    BY <2>2, MoveFacts
  <2> QED BY <1>1, <2>1, <2>3
<1>6. ASSUME NEW us, NEW by, NEW r \in Requests, SetUsers(us, by),
             \A s \in Requests \ {r} : req'[s] = req[s],
             req[r].step # "touch", req'[r].step # "touch"
      PROVE  SessionsOK'
  <2>1. PICK ts \in SUBSET DOMAIN sessions :
          /\ DOMAIN sessions' = ts
          /\ \A t \in ts : sessions'[t] = sessions[t] /\ used'[t] = used[t]
          /\ ended' = ended \cup (DOMAIN sessions \ ts) /\ missed' = missed \cap ts
    BY <1>6, SetUsersFacts
  <2>2. missed \cap ts \subseteq missed'
    BY <2>1
  <2>3. \A s \in Requests : /\ req'[s].step = "touch" => req'[s] = req[s]
                            /\ req[s].step = "touch" => req'[s] = req[s]
    BY <1>6
  <2> QED BY <2>1, <2>2, <2>3, SessionsKept
<1>7. ASSUME NEW r \in Requests, InsertAuthUser(r) PROVE SessionsOK'
  <2>1. req[r].step = "insert"
    BY <1>7 DEF InsertAuthUser
  <2>2. CASE /\ SetUsers(users \cup {lastUser + 1}, "handler")
             /\ req' = [req EXCEPT ![r].step = "invalidate", ![r].user = lastUser + 1]
    <3>1. req'[r].step = "invalidate" /\ \A s \in Requests \ {r} : req'[s] = req[s]
      BY <2>2, MoveFacts
    <3> QED BY <1>6, <2>1, <2>2, <3>1
  <2>3. CASE Answered(r) /\ UNCHANGED <<users, lastUser, sessions, past>>
    <3>1. req'[r].step = "none" /\ \A s \in Requests \ {r} : req'[s] = req[s]
      BY <2>3, MoveFacts DEF Answered
    <3> QED BY <1>1, <2>1, <2>3, <3>1
  <2> QED BY <1>7, <2>2, <2>3 DEF InsertAuthUser
<1>8. ASSUME NEW r \in Requests, DeleteAuthUser(r) PROVE SessionsOK'
  <2>1. req[r].step = "delete"
    BY <1>8 DEF DeleteAuthUser
  <2>2. CASE SetUsers(users \ {req[r].user}, "handler") /\ GoesTo(r, "invalidate")
    <3>1. req'[r].step = "invalidate" /\ \A s \in Requests \ {r} : req'[s] = req[s]
      BY <2>2, MoveFacts DEF GoesTo
    <3> QED BY <1>6, <2>1, <2>2, <3>1
  <2>3. CASE Answered(r) /\ UNCHANGED <<users, sessions, past>>
    <3>1. req'[r].step = "none" /\ \A s \in Requests \ {r} : req'[s] = req[s]
      BY <2>3, MoveFacts DEF Answered
    <3> QED BY <1>1, <2>1, <2>3, <3>1
  <2> QED BY <1>8, <2>2, <2>3 DEF DeleteAuthUser
<1>9. CASE ClearAuthUsers
  <2>1. PICK ts \in SUBSET DOMAIN sessions :
          /\ DOMAIN sessions' = ts
          /\ \A t \in ts : sessions'[t] = sessions[t] /\ used'[t] = used[t]
          /\ ended' = ended \cup (DOMAIN sessions \ ts) /\ missed' = missed \cap ts
    BY <1>9, SetUsersFacts DEF ClearAuthUsers
  <2>2. req' = req
    BY <1>9 DEF ClearAuthUsers
  <2> QED BY <2>1, <2>2, SessionsKept
<1>10. ASSUME NEW t \in 1..lastToken, Logout(t) PROVE SessionsOK'
  <2> DEFINE ts == DOMAIN sessions \ {t}
  <2>1. ts \in SUBSET DOMAIN sessions /\ KeepSessions(ts) /\ req' = req
    BY <1>10 DEF Logout
  <2> HIDE DEF ts
  <2>2. /\ DOMAIN sessions' = ts
        /\ \A s \in ts : sessions'[s] = sessions[s] /\ used'[s] = used[s]
        /\ ended' = ended \cup (DOMAIN sessions \ ts) /\ missed' = missed \cap ts
    BY <2>1, KeepFacts
  <2> QED BY <2>1, <2>2, SessionsKept
<1>11. CASE Restart
  <2> DEFINE ts == {t \in DOMAIN sessions : sessions[t].expires >= now}
             cut == {req[r].token : r \in {q \in Requests : req[q].step = "touch"}}
  <2>1. ts \in SUBSET DOMAIN sessions
    OBVIOUS
  <2>2. \A s \in Requests : req[s].step = "touch" => req[s].token \in cut
    OBVIOUS
  <2>3. /\ DOMAIN sessions' = ts
        /\ \A s \in ts : sessions'[s] = sessions[s] /\ used'[s] = used[s]
        /\ ended' = ended \cup (DOMAIN sessions \ ts) /\ missed' = (missed \cup cut) \cap ts
        /\ req' = [r \in Requests |-> NoRequest]
    BY <1>11 DEF Restart, Restrict, TypeOK
  <2>4. \A s \in Requests : req'[s].step # "touch"
    BY <2>3 DEF NoRequest
  <2> HIDE DEF ts, cut
  <2> QED BY <2>1, <2>2, <2>3, <2>4, SessionsKept
<1>12. CASE UNCHANGED <<sessions, used, missed, ended, req>>
  BY <1>12, SessionsKept
<1> QED
  BY <1>2, <1>3, <1>4, <1>5, <1>7, <1>8, <1>9, <1>10, <1>11, <1>12,
     SessionsUsed, SessionsTouched, SessionsIssued DEF Next, Tick, vars

\* The inductive invariant holds throughout.
THEOREM Invariance == Spec => []IInv
<1>1. IInv /\ [Next]_vars => IInv'
  BY StepTypeOK, RequestsInTimeStep, CacheOKStep, SessionsOKStep DEF IInv
<1> QED BY InitIInv, <1>1, PTL DEF Spec

\* Every variable has its type, and a session an account: deleting an account takes its
\* sessions along (ON DELETE CASCADE), and one is issued only to an account that is there.
THEOREM TypeCorrect == Spec => []TypeOK
<1>1. IInv => TypeOK
  BY DEF IInv
<1> QED BY Invariance, <1>1, PTL

\* authEnabledTTL: a trusted answer is wrong for no longer than the TTL and the time of a
\* request, and never once a switch that no refresh overlapped has invalidated the cache.
THEOREM CacheCoherent == Spec => []CacheIsCoherent
<1>1. IInv => CacheIsCoherent
  <2> SUFFICES ASSUME TypeOK, CacheOK, Fresh, authState.enabled # Enabled
               PROVE  /\ now < switched + CacheTTL + Timeout
                      /\ clean => \E r \in Requests : req[r].step = "invalidate"
    BY DEF IInv, CacheIsCoherent
  <2>1. authState.at <= switched + Timeout /\ now - authState.at < CacheTTL
    BY DEF CacheOK, Fresh
  <2>2. /\ now \in Nat /\ switched \in Nat /\ authState.at \in Int
        /\ CacheTTL \in Nat /\ Timeout \in Nat
    BY Numbers, Consts DEF TypeOK
  <2>3. now < switched + CacheTTL + Timeout
    BY <2>1, <2>2
  <2> QED BY <2>3 DEF CacheOK
<1> QED BY Invariance, <1>1, PTL

\* sessionTTL, "sliding window applied on every authenticated hit": a session expires a TTL
\* after its last use, up to the touch interval and the time of a request, or its extension
\* failed; one that has ended is gone for good.
THEOREM SessionsSlide == Spec => []SessionsFollowUse
<1>1. IInv => SessionsFollowUse
  BY DEF IInv, SessionsOK
<1> QED BY Invariance, <1>1, PTL
-----------------------------------------------------------------------------
\* The limit on the requests of an address.

\* At first nobody has come.
LEMMA RateInit == Rl!Init => Rl!IInv
<1> SUFFICES ASSUME Rl!Init PROVE Rl!IInv
  OBVIOUS
<1>1. /\ perMinute \in Caps /\ clock = 0 /\ lru = <<>> /\ bucket = <<>> /\ calls = <<>>
      /\ DOMAIN lru = {} /\ DOMAIN calls = {} /\ Len(lru) = 0 /\ Len(calls) = 0
  BY DEF Rl!Init
<1>2. MaxNow \in Nat /\ MaxIPs \in Nat
  BY RateLimitAssumption
<1>3. Rl!ToSet(lru) = {}
  BY <1>1 DEF Rl!ToSet
<1>4. Rl!TypeOK
  <2>1. clock \in 0..MaxNow /\ Len(lru) <= MaxIPs
    BY <1>1, <1>2
  <2>2. lru \in Seq(IPs) /\ Rl!IsInjective(lru)
    BY <1>1 DEF Rl!IsInjective
  <2>3. bucket \in [Rl!ToSet(lru) -> [tokens : 0..Rl!Burst, at : 0..clock]]
    <3>1. DOMAIN bucket = {} /\ bucket = [x \in {} |-> bucket[x]]
      BY <1>1
    <3> QED BY <1>3, <3>1
  <2>4. calls \in Seq([ip : IPs, at : 0..clock, ok : BOOLEAN])
    BY <1>1
  <2> QED BY <1>1, <2>1, <2>2, <2>3, <2>4 DEF Rl!TypeOK
<1>5. Rl!LimitIsPerAddress
  BY <1>1, Zenon DEF Rl!LimitIsPerAddress
<1>6. Rl!ListOK
  BY <1>1, Zenon DEF Rl!ListOK
<1>7. Rl!BucketsOK
  BY <1>3, Zenon DEF Rl!BucketsOK
<1> QED BY <1>4, <1>5, <1>6, <1>7, Zenon DEF Rl!IInv

\* The instance counts as the library does.
LEMMA RateCount == \A S : Rl!Cardinality(S) = Cardinality(S)
BY DEF Rl!Cardinality, Cardinality

\* What a request adds to the requests before it, and that it leaves them as they were.
LEMMA RateAppended ==
  ASSUME NEW T, calls \in Seq(T), NEW c, calls' = Append(calls, c)
  PROVE  /\ Len(calls)' = Len(calls) + 1 /\ DOMAIN calls = 1..Len(calls)
         /\ DOMAIN calls' = 1 .. Len(calls) + 1 /\ Len(calls) \in Nat
         /\ \A k \in 1..Len(calls) : calls'[k] = calls[k]
         /\ calls'[Len(calls) + 1] = c
  OBVIOUS

\* A count of requests before the last one stays; the last one counts if it is allowed.
LEMMA RateCounts ==
  ASSUME NEW T, calls \in Seq(T), NEW c, calls' = Append(calls, c),
         NEW x, NEW i \in DOMAIN calls, NEW j \in DOMAIN calls
  PROVE  /\ Rl!Allowed(x, i, j)' = Rl!Allowed(x, i, j)
         /\ Rl!Kept(x, i, j)' = Rl!Kept(x, i, j)
<1>1. \A k \in i..j : k \in DOMAIN calls /\ calls'[k] = calls[k]
  <2>1. i \in 1..Len(calls) /\ j \in 1..Len(calls) /\ Len(calls) \in Nat
    BY RateAppended
  <2>2. \A k \in i..j : k \in 1..Len(calls)
    BY <2>1
  <2> QED BY <2>2, RateAppended
<1>2. {k \in i..j : calls'[k].ip = x /\ calls'[k].ok}
        = {k \in i..j : calls[k].ip = x /\ calls[k].ok}
  BY <1>1, Zenon
<1>3. Rl!Allowed(x, i, j)' = Rl!Allowed(x, i, j)
  BY <1>2, Zenon DEF Rl!Allowed
<1>4. \A k \in i..j : \A l \in k + 1 .. j :
        /\ l \in i..j
        /\ \A m \in k + 1 .. l - 1 : m \in i..j
  <2>1. i \in Int /\ j \in Int
    BY RateAppended
  <2> QED BY <2>1
<1>5. \A k \in i..j : \A l \in k + 1 .. j :
        {calls'[m].ip : m \in k + 1 .. l - 1} = {calls[m].ip : m \in k + 1 .. l - 1}
  BY <1>1, <1>4, Zenon
<1>6. Rl!Kept(x, i, j)' = Rl!Kept(x, i, j)
  <2>1. ASSUME Rl!Kept(x, i, j) PROVE Rl!Kept(x, i, j)'
    BY <1>1, <1>4, <1>5, <2>1, Zenon DEF Rl!Kept
  <2>2. ASSUME Rl!Kept(x, i, j)' PROVE Rl!Kept(x, i, j)
    BY <1>1, <1>4, <1>5, <2>2, Zenon DEF Rl!Kept
  <2>3. Rl!Kept(x, i, j) \in BOOLEAN /\ Rl!Kept(x, i, j)' \in BOOLEAN
    BY Zenon DEF Rl!Kept
  <2> QED BY <2>1, <2>2, <2>3, Zenon
<1> QED BY <1>3, <1>6, Zenon

\* The same, up to the last request.
LEMMA RateCountsLast ==
  ASSUME NEW T, calls \in Seq(T), NEW c, calls' = Append(calls, c),
         NEW x, NEW i \in DOMAIN calls, NEW n, n = Len(calls)
  PROVE  /\ Rl!Allowed(x, i, n) \in Nat
         /\ Rl!Allowed(x, i, n + 1)' =
              Rl!Allowed(x, i, n) + (IF c.ip = x /\ c.ok THEN 1 ELSE 0)
         /\ Rl!Kept(x, i, n + 1)' => Rl!Kept(x, i, n)
<1> DEFINE A == {k \in i..n : calls[k].ip = x /\ calls[k].ok}
           B == {k \in i .. n + 1 : calls'[k].ip = x /\ calls'[k].ok}
<1>1. /\ i \in 1..n /\ n \in Nat /\ i \in DOMAIN calls /\ n \in DOMAIN calls
      /\ calls'[n + 1] = c /\ \A k \in 1..n : calls'[k] = calls[k]
  BY RateAppended
<1>2. IsFiniteSet(A) /\ Cardinality(A) \in Nat
  <2>1. IsFiniteSet(i..n)
    BY <1>1, FS_Interval
  <2>2. A \subseteq i..n
    OBVIOUS
  <2> QED BY <2>1, <2>2, FS_Subset, FS_CardinalityType
<1>3. B = IF c.ip = x /\ c.ok THEN A \cup {n + 1} ELSE A
  <2>1. \A k \in i..n : k \in 1..n /\ calls'[k] = calls[k]
    BY <1>1
  <2>2. i .. n + 1 = (i..n) \cup {n + 1}
    BY <1>1
  <2> QED BY <1>1, <2>1, <2>2
<1>4. n + 1 \notin A
  <2>1. n + 1 \notin i..n
    BY <1>1
  <2> QED BY <2>1
<1>5. Cardinality(B) = Cardinality(A) + (IF c.ip = x /\ c.ok THEN 1 ELSE 0)
  <2> HIDE DEF A, B
  <2>1. CASE c.ip = x /\ c.ok
    BY <1>2, <1>3, <1>4, <2>1, FS_AddElement
  <2>2. CASE ~(c.ip = x /\ c.ok)
    BY <1>2, <1>3, <2>2
  <2> QED BY <2>1, <2>2
<1>6. Rl!Allowed(x, i, n) = Cardinality(A) /\ Rl!Allowed(x, i, n + 1)' = Cardinality(B)
  BY RateCount, Zenon DEF Rl!Allowed
<1>7. Rl!Kept(x, i, n + 1)' => Rl!Kept(x, i, n)'
  <2>1. \A k \in i..n : k \in i .. n + 1 /\ \A l \in k + 1 .. n : l \in k + 1 .. n + 1
    BY <1>1
  <2> QED BY <2>1, Zenon DEF Rl!Kept
<1>8. Rl!Kept(x, i, n)' = Rl!Kept(x, i, n)
  BY <1>1, RateCounts
<1> HIDE DEF A, B
<1> QED BY <1>2, <1>5, <1>6, <1>7, <1>8

\* Of the last request by itself.
LEMMA RateCountsOne ==
  ASSUME NEW T, calls \in Seq(T), NEW c, calls' = Append(calls, c), NEW x,
         NEW n, n = Len(calls)
  PROVE  Rl!Allowed(x, n + 1, n + 1)' = IF c.ip = x /\ c.ok THEN 1 ELSE 0
<1> DEFINE B == {k \in n + 1 .. n + 1 : calls'[k].ip = x /\ calls'[k].ok}
<1>1. n \in Nat /\ calls'[n + 1] = c
  BY RateAppended
<1>2. B = IF c.ip = x /\ c.ok THEN {n + 1} ELSE {}
  <2>1. n + 1 .. n + 1 = {n + 1}
    BY <1>1
  <2> QED BY <1>1, <2>1
<1>3. Rl!Allowed(x, n + 1, n + 1)' = Cardinality(B)
  BY RateCount, Zenon DEF Rl!Allowed
<1> HIDE DEF B
<1>4. Cardinality(B) = IF c.ip = x /\ c.ok THEN 1 ELSE 0
  BY <1>2, FS_Singleton, FS_EmptySet
<1> QED BY <1>3, <1>4

\* Whoever makes a request has come since the last one of everybody else.
LEMMA RateSince ==
  ASSUME NEW T, calls \in Seq(T), NEW c, calls' = Append(calls, c), NEW x
  PROVE  Rl!Since(x)' = IF c.ip = x THEN {} ELSE Rl!Since(x) \cup {c.ip}
<1> SUFFICES ASSUME NEW n, n = Len(calls)
             PROVE  Rl!Since(x)' = IF c.ip = x THEN {} ELSE Rl!Since(x) \cup {c.ip}
  OBVIOUS
<1> DEFINE M == {m \in 1..n : \A k \in m..n : calls[k].ip # x}
           N == {m \in 1 .. n + 1 : \A k \in m .. n + 1 : calls'[k].ip # x}
<1>1. /\ n \in Nat /\ DOMAIN calls = 1..n /\ DOMAIN calls' = 1 .. n + 1 /\ Len(calls)' = n + 1
      /\ calls'[n + 1] = c /\ \A k \in 1..n : calls'[k] = calls[k]
  BY RateAppended
<1>2. Rl!Since(x) = {calls[m].ip : m \in M} /\ Rl!Since(x)' = {calls'[m].ip : m \in N}
  BY <1>1, Zenon DEF Rl!Since
<1>3. CASE c.ip = x
  <2>1. \A m \in 1 .. n + 1 : n + 1 \in m .. n + 1
    BY <1>1
  <2>2. N = {}
    BY <1>1, <1>3, <2>1
  <2> QED BY <1>2, <1>3, <2>2
<1>4. CASE c.ip # x
  <2>1. \A m \in 1..n : \A k \in m .. n + 1 : k = n + 1 \/ (k \in m..n /\ k \in 1..n)
    BY <1>1
  <2>2. \A m \in 1..n : \A k \in m..n : k \in m .. n + 1 /\ k \in 1..n
    BY <1>1
  <2>3. \A m \in 1 .. n + 1 : m \in 1..n \/ m = n + 1
    BY <1>1
  <2>4. \A k \in n + 1 .. n + 1 : k = n + 1
    BY <1>1
  <2>5. \A m \in 1..n : m \in 1 .. n + 1
    BY <1>1
  <2>6. n + 1 \in 1 .. n + 1
    BY <1>1
  <2>7. N = M \cup {n + 1}
    <3>1. \A m \in N : m \in M \cup {n + 1}
      BY <1>1, <2>2, <2>3, Zenon
    <3>2. n + 1 \in N
      BY <1>1, <1>4, <2>4, <2>6, Zenon
    <3>3. \A m \in M : m \in N
      BY <1>1, <1>4, <2>1, <2>5, Zenon
    <3> HIDE DEF M, N
    <3> QED BY <3>1, <3>2, <3>3
  <2>8. \A m \in M : calls'[m] = calls[m]
    BY <1>1
  <2> HIDE DEF M, N
  <2>9. {calls'[m].ip : m \in N} = {calls'[m].ip : m \in M} \cup {c.ip}
    BY <1>1, <2>7
  <2>10. {calls'[m].ip : m \in M} = {calls[m].ip : m \in M}
    BY <2>8, Zenon
  <2> QED BY <1>2, <1>4, <2>9, <2>10
<1> QED BY <1>3, <1>4

\* Where the list has the addresses after a request: its own is in front, those that
\* were before it have moved by one, and to make room the last one may have gone.
LEMMA RateOrder ==
  ASSUME Rl!TypeOK, NEW ip \in IPs, Rl!Take(ip)
  PROVE  \E L \in 1..MaxIPs, P \in Nat :
           /\ P \in 1..L /\ L \in Nat
           /\ lru' = [p \in 1..L |-> IF p = 1 THEN ip ELSE IF p <= P THEN lru[p - 1] ELSE lru[p]]
           /\ IF ip \in Rl!ToSet(lru) THEN L = Len(lru) /\ lru[P] = ip
              ELSE P = L /\ (L = Len(lru) + 1 \/ (L = Len(lru) /\ L = MaxIPs))
<1> DEFINE n == Len(lru)
<1>1. n \in Nat /\ DOMAIN lru = 1..n /\ n <= MaxIPs /\ lru \in Seq(IPs) /\ MaxIPs \in Nat \ {0}
  BY RateLimitAssumption DEF Rl!TypeOK
<1>2. lru' = IF ip \in Rl!ToSet(lru) THEN Rl!MovedToFront(ip) ELSE <<ip>> \o Rl!Evicted
  BY Zenon DEF Rl!Take
<1>3. CASE ip \in Rl!ToSet(lru)
  <2>1. \E p \in DOMAIN lru : lru[p] = ip
    BY <1>3 DEF Rl!ToSet
  <2>2. PICK P \in DOMAIN lru : lru[P] = ip /\ P = CHOOSE p \in DOMAIN lru : lru[p] = ip
    BY <2>1
  <2>3. lru' = [p \in 1..n |-> IF p = 1 THEN ip ELSE IF p <= P THEN lru[p - 1] ELSE lru[p]]
    BY <1>1, <1>2, <1>3, <2>2, Zenon DEF Rl!MovedToFront
  <2> HIDE DEF n
  <2>4. P \in Nat /\ P \in 1..n /\ n \in 1..MaxIPs
    BY <1>1, <2>2
  <2> QED BY <1>1, <1>3, <2>2, <2>3, <2>4, Zenon DEF n
<1>4. CASE ip \notin Rl!ToSet(lru)
  <2> DEFINE e == Rl!Evicted
             L == Len(e) + 1
  <2>1. /\ e \in Seq(IPs) /\ Len(e) = (IF n = MaxIPs THEN n - 1 ELSE n)
        /\ \A p \in 1..Len(e) : e[p] = lru[p]
    <3>1. CASE n = MaxIPs
      <4>1. e = [p \in 1 .. n - 1 |-> lru[p]]
        BY <1>1, <3>1 DEF Rl!Evicted, Rl!Front
      <4> HIDE DEF e
      <4>2. n - 1 \in Nat /\ \A p \in 1 .. n - 1 : lru[p] \in IPs
        BY <1>1, <3>1
      <4> QED BY <3>1, <4>1, <4>2
    <3>2. CASE n # MaxIPs
      <4>0. n \in Nat /\ MaxIPs \in Nat /\ n <= MaxIPs
        BY <1>1
      <4>3. ~(n >= MaxIPs)
        <5> HIDE DEF n
        <5> QED BY <3>2, <4>0
      <4>1. ~(Len(lru) >= MaxIPs)
        BY <4>3
      <4>2. e = lru
        BY <4>1, Zenon DEF Rl!Evicted
      <4> QED BY <1>1, <3>2, <4>2
    <3> QED BY <3>1, <3>2
  <2>2. lru' = <<ip>> \o e
    BY <1>2, <1>4, Zenon
  <2> HIDE DEF e
  <2>3. Len(e) \in Nat
    BY <2>1
  <2>4. /\ DOMAIN (<<ip>> \o e) = 1..L
        /\ \A p \in 1..L : (<<ip>> \o e)[p] = IF p = 1 THEN ip ELSE e[p - 1]
    BY <2>1, <2>3
  <2>5. <<ip>> \o e = [p \in 1..L |-> (<<ip>> \o e)[p]]
    BY <2>1, <2>3
  <2>6. \A p \in 1..L : p # 1 => e[p - 1] = lru[p - 1]
    BY <2>1, <2>3
  <2>7. lru' = [p \in 1..L |-> IF p = 1 THEN ip ELSE IF p <= L THEN lru[p - 1] ELSE lru[p]]
    <3> HIDE DEF L
    <3>1. \A p \in 1..L : p <= L
      BY <2>3 DEF L
    <3> QED BY <2>2, <2>4, <2>5, <2>6, <3>1
  <2>8. L \in 1..MaxIPs /\ L \in Nat /\ L \in 1..L /\ (L = n + 1 \/ (L = n /\ L = MaxIPs))
    <3> HIDE DEF n
    <3> QED BY <1>1, <2>1, <2>3
  <2> HIDE DEF L
  <2> QED BY <1>4, <2>7, <2>8, Zenon
<1> QED BY <1>3, <1>4, Zenon

\* The list after a request: an address once, and which addresses.
LEMMA RateListed ==
  ASSUME Rl!TypeOK, NEW ip \in IPs, Rl!Take(ip)
  PROVE  /\ lru' \in Seq(IPs) /\ Rl!IsInjective(lru)' /\ Len(lru)' <= MaxIPs
         /\ ip \in Rl!ToSet(lru)' /\ Rl!ToSet(lru)' \subseteq Rl!ToSet(lru) \cup {ip}
         /\ \A x \in Rl!ToSet(lru) : x \notin Rl!ToSet(lru)' =>
              /\ ip \notin Rl!ToSet(lru) /\ Len(lru) = MaxIPs /\ x = lru[MaxIPs]
<1>1. PICK L \in 1..MaxIPs, P \in Nat :
           /\ P \in 1..L /\ L \in Nat
           /\ lru' = [p \in 1..L |-> IF p = 1 THEN ip ELSE IF p <= P THEN lru[p - 1] ELSE lru[p]]
           /\ IF ip \in Rl!ToSet(lru) THEN L = Len(lru) /\ lru[P] = ip
              ELSE P = L /\ (L = Len(lru) + 1 \/ (L = Len(lru) /\ L = MaxIPs))
  BY RateOrder, Zenon
<1>2. /\ lru \in Seq(IPs) /\ DOMAIN lru = 1..Len(lru) /\ Len(lru) \in Nat /\ MaxIPs \in Nat \ {0}
      /\ \A p, q \in 1..Len(lru) : lru[p] = lru[q] => p = q
      /\ Rl!ToSet(lru) = {lru[p] : p \in 1..Len(lru)}
  BY RateLimitAssumption DEF Rl!TypeOK, Rl!IsInjective, Rl!ToSet
<1>3. L \in Nat /\ P \in Nat /\ 1 <= P /\ P <= L /\ 1 \in 1..L /\ L <= MaxIPs
  <2>1. L \in 1..MaxIPs /\ P \in 1..L /\ L \in Nat /\ P \in Nat /\ MaxIPs \in Nat
    BY <1>1, <1>2, Zenon
  <2> QED BY <2>1
<1>4. ip \in Rl!ToSet(lru) => L = Len(lru) /\ lru[P] = ip /\ P \in 1..Len(lru)
  BY <1>1, Zenon
<1>5. ip \notin Rl!ToSet(lru) =>
        P = L /\ (L = Len(lru) + 1 \/ (L = Len(lru) /\ Len(lru) = MaxIPs))
  BY <1>1, Zenon
<1>6. /\ L \in Nat /\ P \in Nat /\ 1 <= P /\ P <= L /\ 1 \in 1..L
      /\ ip \in Rl!ToSet(lru) => L = Len(lru) /\ lru[P] = ip /\ P \in 1..Len(lru)
      /\ ip \notin Rl!ToSet(lru) =>
           P = L /\ L <= Len(lru) + 1 /\ (L <= Len(lru) => Len(lru) = MaxIPs)
      /\ ip \notin Rl!ToSet(lru) => Len(lru) <= L
  <2> DEFINE n == Len(lru)
  <2>1. n \in Nat
    BY <1>2
  <2>2. L = n + 1 => L <= n + 1 /\ n <= L /\ ~(L <= n)
    <3> HIDE DEF n
    <3> QED BY <1>3, <2>1
  <2>3. L = n => L <= n + 1 /\ n <= L
    <3> HIDE DEF n
    <3> QED BY <1>3, <2>1
  <2> QED BY <1>3, <1>4, <1>5, <2>2, <2>3, Zenon
<1>7. \A p \in 1..L : /\ p \in Nat
                      /\ p # 1 /\ p <= P => p - 1 \in 1..Len(lru)
                      /\ ~(p <= P) => p \in 1..Len(lru)
  <2> SUFFICES ASSUME NEW p \in 1..L
               PROVE  /\ p \in Nat
                      /\ p # 1 /\ p <= P => p - 1 \in 1..Len(lru)
                      /\ ~(p <= P) => p \in 1..Len(lru)
    OBVIOUS
  <2> DEFINE n == Len(lru)
  <2>1. n \in Nat /\ p \in Nat /\ 1 <= p /\ p <= L
    BY <1>2, <1>3
  <2>2. L <= n + 1 /\ (L = n \/ P = L)
    <3>1. L = n => L <= n + 1
      <4> HIDE DEF n
      <4> QED BY <1>3, <2>1
    <3> QED BY <1>6, <1>4, <3>1, Zenon
  <2>3. p # 1 /\ p <= P => p - 1 \in 1..n
    <3> HIDE DEF n
    <3> QED BY <1>3, <2>1, <2>2
  <2>4. ~(p <= P) => p \in 1..n
    <3> HIDE DEF n
    <3> QED BY <1>3, <2>1, <2>2
  <2> QED BY <2>1, <2>3, <2>4, Zenon
<1>8. \A p \in 1..L : lru'[p] = IF p = 1 THEN ip ELSE IF p <= P THEN lru[p - 1] ELSE lru[p]
  BY <1>1, Zenon
<1>9. /\ lru'[1] = ip /\ 1 \in 1..L
      /\ \A p \in 1..L :
           /\ p # 1 /\ p <= P => lru'[p] = lru[p - 1] /\ p - 1 \in 1..Len(lru)
           /\ p # 1 /\ ~(p <= P) => lru'[p] = lru[p] /\ p \in 1..Len(lru)
  BY <1>6, <1>7, <1>8, Zenon
<1>10. \A p \in 1..Len(lru) : lru[p] = ip => ip \in Rl!ToSet(lru) /\ p = P
  BY <1>1, <1>2
<1>11. lru' \in Seq(IPs) /\ Len(lru') = L /\ DOMAIN lru' = 1..L
  <2>1. \A p \in 1..Len(lru) : lru[p] \in IPs
    BY <1>2
  <2>2. \A p \in 1..L : lru'[p] \in IPs
    BY <1>9, <2>1, Zenon
  <2>3. lru' = [p \in 1..L |-> lru'[p]]
    BY <1>1
  <2> QED BY <1>6, <2>2, <2>3
<1>12. \A p, q \in 1..L : lru'[p] = lru'[q] => p = q
  <2> SUFFICES ASSUME NEW p \in 1..L, NEW q \in 1..L, lru'[p] = lru'[q], p < q PROVE FALSE
    BY <1>1
  <2>0. p \in Nat /\ q \in Nat /\ q # 1
    BY <1>6
  <2>1. CASE p = 1
    <3>1. CASE q <= P
      <4>1. lru[q - 1] = ip /\ q - 1 \in 1..Len(lru)
        BY <1>9, <2>0, <2>1, <3>1, Zenon
      <4>2. q - 1 = P
        BY <1>10, <4>1, Zenon
      <4> QED BY <1>6, <2>0, <3>1, <4>2
    <3>2. CASE ~(q <= P)
      <4>1. lru[q] = ip /\ q \in 1..Len(lru)
        BY <1>9, <2>0, <2>1, <3>2, Zenon
      <4>2. q = P
        BY <1>10, <4>1, Zenon
      <4> QED BY <1>6, <2>0, <3>2, <4>2
    <3> QED BY <3>1, <3>2
  <2>2. CASE p # 1 /\ q <= P
    <3>1. p <= P
      BY <1>6, <2>0, <2>2
    <3>2. lru[p - 1] = lru[q - 1] /\ p - 1 \in 1..Len(lru) /\ q - 1 \in 1..Len(lru)
      BY <1>9, <2>0, <2>2, <3>1, Zenon
    <3>3. p - 1 = q - 1
      BY <1>2, <3>2, Zenon
    <3> QED BY <2>0, <3>3
  <2>3. CASE p # 1 /\ ~(q <= P) /\ p <= P
    <3>1. lru[p - 1] = lru[q] /\ p - 1 \in 1..Len(lru) /\ q \in 1..Len(lru)
      BY <1>9, <2>0, <2>3, Zenon
    <3>2. p - 1 = q
      BY <1>2, <3>1, Zenon
    <3> QED BY <2>0, <3>2
  <2>4. CASE p # 1 /\ ~(q <= P) /\ ~(p <= P)
    <3>1. lru[p] = lru[q] /\ p \in 1..Len(lru) /\ q \in 1..Len(lru)
      BY <1>9, <2>0, <2>4, Zenon
    <3>2. p = q
      BY <1>2, <3>1, Zenon
    <3> QED BY <2>0, <3>2
  <2> QED BY <2>1, <2>2, <2>3, <2>4, Zenon
<1>13. Rl!ToSet(lru)' = {lru'[p] : p \in 1..L}
  BY <1>11, Zenon DEF Rl!ToSet
<1>14. ip \in Rl!ToSet(lru)' /\ Rl!ToSet(lru)' \subseteq Rl!ToSet(lru) \cup {ip}
  <2>1. \A p \in 1..L : lru'[p] = ip \/ \E q \in 1..Len(lru) : lru'[p] = lru[q]
    BY <1>9, Zenon
  <2> QED BY <1>2, <1>9, <1>13, <2>1
<1>15. ASSUME NEW x \in Rl!ToSet(lru), x \notin Rl!ToSet(lru)'
      PROVE  ip \notin Rl!ToSet(lru) /\ Len(lru) = MaxIPs /\ x = lru[MaxIPs]
  <2>1. PICK q \in 1..Len(lru) : lru[q] = x
    BY <1>2, <1>15
  <2>2. x # ip /\ \A p \in 1..L : lru'[p] # x
    BY <1>13, <1>14, <1>15
  <2>3. ~(q < P)
    <3>1. q < P => q + 1 \in 1..L /\ q + 1 # 1 /\ q + 1 <= P /\ (q + 1) - 1 = q
      BY <1>1
    <3> QED BY <1>9, <2>1, <2>2, <3>1
  <2>4. ~(P < q /\ q <= L)
    BY <1>1, <1>9, <2>1, <2>2
  <2>5. q = P \/ L < q
    BY <1>1, <2>3, <2>4
  <2>6. ip \notin Rl!ToSet(lru)
    <3> SUFFICES ASSUME ip \in Rl!ToSet(lru) PROVE FALSE
      OBVIOUS
    <3>1. lru[P] = ip /\ L = Len(lru)
      BY <1>6
    <3>2. q = P
      BY <1>2, <2>5, <3>1
    <3> QED BY <2>1, <2>2, <3>1, <3>2
  <2>7. P = L /\ L <= Len(lru) + 1 /\ (L <= Len(lru) => Len(lru) = MaxIPs) /\ Len(lru) <= L
    BY <1>6, <2>6
  <2>8. q <= Len(lru) /\ q \in Nat
    BY <1>2
  <2>9. Len(lru) = MaxIPs /\ q = MaxIPs
    <3> DEFINE n == Len(lru)
    <3>1. n \in Nat /\ q <= n /\ L <= n + 1 /\ (L <= n => n = MaxIPs) /\ n <= L /\ (q = L \/ L < q)
      BY <1>2, <2>5, <2>7, <2>8
    <3>2. n = MaxIPs /\ q = MaxIPs
      <4> HIDE DEF n
      <4> QED BY <1>3, <2>8, <3>1
    <3> QED BY <3>2
  <2> QED BY <2>1, <2>6, <2>9
<1> QED BY <1>11, <1>12, <1>13, <1>14, <1>15 DEF Rl!IsInjective

\* The first places of the list are as many addresses.
LEMMA RatePrefix ==
  ASSUME Rl!TypeOK, NEW m \in Nat, m <= Len(lru)
  PROVE  /\ IsFiniteSet({lru[q] : q \in 1..m}) /\ Cardinality({lru[q] : q \in 1..m}) = m
         /\ {lru[q] : q \in 1..m} \subseteq Rl!ToSet(lru)
<1> DEFINE T == {lru[q] : q \in 1..m}
           f == [q \in 1..m |-> lru[q]]
<1>1. /\ \A q \in 1..m : q \in DOMAIN lru
      /\ \A p, q \in 1..m : lru[p] = lru[q] => p = q
  <2>1. DOMAIN lru = 1..Len(lru) /\ Len(lru) \in Nat
    BY DEF Rl!TypeOK
  <2>2. \A q \in 1..m : q \in DOMAIN lru
    BY <2>1
  <2> QED BY <2>2, Zenon DEF Rl!TypeOK, Rl!IsInjective
<1>2. f \in Surjection(1..m, T) /\ f \in Injection(1..m, T)
  <2>1. f \in [1..m -> T]
    OBVIOUS
  <2>2. \A t \in T : \E q \in 1..m : f[q] = t
    OBVIOUS
  <2>3. \A p, q \in 1..m : f[p] = f[q] => p = q
    BY <1>1
  <2> HIDE DEF T, f
  <2> QED BY <2>1, <2>2, <2>3 DEF Surjection, Injection, IsInjective
<1>3. IsFiniteSet(1..m) /\ Cardinality(1..m) = m
  BY FS_Interval
<1>4. T \subseteq Rl!ToSet(lru)
  BY <1>1, Zenon DEF Rl!ToSet
<1>5. IsFiniteSet(T) /\ Cardinality(T) = m
  <2> HIDE DEF T, f
  <2> QED BY <1>2, <1>3, FS_Surjection
<1> QED BY <1>4, <1>5

\* Finitely many have come.
LEMMA RateSinceFinite ==
  ASSUME NEW T, calls \in Seq(T), NEW x
  PROVE  IsFiniteSet(Rl!Since(x))
<1> DEFINE M == {m \in DOMAIN calls : \A k \in m..Len(calls) : calls[k].ip # x}
           S == {calls[m].ip : m \in M}
           f == [m \in M |-> calls[m].ip]
<1>1. IsFiniteSet(M)
  <2>1. DOMAIN calls = 1..Len(calls) /\ Len(calls) \in Nat
    OBVIOUS
  <2>2. IsFiniteSet(DOMAIN calls)
    BY <2>1, FS_Interval
  <2>3. M \subseteq DOMAIN calls
    OBVIOUS
  <2> HIDE DEF M
  <2> QED BY <2>2, <2>3, FS_Subset
<1>2. f \in Surjection(M, S)
  <2> HIDE DEF M
  <2>1. f \in [M -> S]
    OBVIOUS
  <2>2. \A t \in S : \E m \in M : f[m] = t
    OBVIOUS
  <2> HIDE DEF S, f
  <2> QED BY <2>1, <2>2 DEF Surjection
<1>3. IsFiniteSet(S)
  <2> HIDE DEF M, S, f
  <2> QED BY <1>1, <1>2, FS_Surjection
<1> QED BY <1>3, Zenon DEF Rl!Since

\* The list stays in the order of the last requests.
LEMMA RateStepList ==
  ASSUME Rl!TypeOK, Rl!ListOK, NEW ip \in IPs, Rl!Take(ip)
  PROVE  Rl!ListOK'
<1> DEFINE T == [ip : IPs, at : 0..clock, ok : BOOLEAN]
           n == Len(calls)
<1>1. PICK c : calls' = Append(calls, c) /\ c.ip = ip
  BY DEF Rl!Take
<1>2. calls \in Seq(T)
  BY DEF Rl!TypeOK
<1> HIDE DEF T
<1>3. /\ n \in Nat /\ DOMAIN calls = 1..n /\ DOMAIN calls' = 1 .. n + 1
      /\ calls'[n + 1] = c /\ \A k \in 1..n : calls'[k] = calls[k]
  BY <1>1, <1>2, RateAppended
<1>4. \A x : Rl!Since(x)' = IF x = ip THEN {} ELSE Rl!Since(x) \cup {ip}
  BY <1>1, <1>2, RateSince
<1> HIDE DEF n
<1>5. n + 1 \in 1 .. n + 1 /\ \A k \in 1..n : k \in 1 .. n + 1
  BY <1>3
<1>6. /\ lru' \in Seq(IPs) /\ ip \in Rl!ToSet(lru)'
      /\ Rl!ToSet(lru)' \subseteq Rl!ToSet(lru) \cup {ip}
      /\ \A x \in Rl!ToSet(lru) : x \notin Rl!ToSet(lru)' =>
           /\ ip \notin Rl!ToSet(lru) /\ Len(lru) = MaxIPs /\ x = lru[MaxIPs]
  BY RateListed, Zenon
<1>7. \A x \in Rl!ToSet(lru)' : \E k \in DOMAIN calls' : calls'[k].ip = x
  <2>1. ASSUME NEW x \in Rl!ToSet(lru) PROVE \E k \in DOMAIN calls' : calls'[k].ip = x
    <3>1. PICK k \in 1..n : calls[k].ip = x
      BY <1>3, Zenon DEF Rl!ListOK, Rl!ToSet
    <3> QED BY <1>3, <1>5, <3>1
  <2>2. \E k \in DOMAIN calls' : calls'[k].ip = ip
    BY <1>1, <1>3, <1>5
  <2> QED BY <1>6, <2>1, <2>2
<1>8. ASSUME NEW p \in DOMAIN lru', NEW x, x = lru'[p]
      PROVE  Rl!Since(x)' = {lru'[q] : q \in 1 .. p - 1}
  <2>1. PICK L \in 1..MaxIPs, P \in Nat :
           /\ P \in 1..L /\ L \in Nat
           /\ lru' = [r \in 1..L |-> IF r = 1 THEN ip ELSE IF r <= P THEN lru[r - 1] ELSE lru[r]]
           /\ IF ip \in Rl!ToSet(lru) THEN L = Len(lru) /\ lru[P] = ip
              ELSE P = L /\ (L = Len(lru) + 1 \/ (L = Len(lru) /\ L = MaxIPs))
    BY RateOrder, Zenon
  <2>2. /\ DOMAIN lru = 1..Len(lru) /\ Len(lru) \in Nat /\ MaxIPs \in Nat \ {0}
        /\ DOMAIN lru' = 1..L /\ L \in Nat /\ P \in Nat /\ 1 <= P /\ P <= L
    BY <2>1, RateLimitAssumption DEF Rl!TypeOK
  <2>3. \A r \in 1..L : lru'[r] = IF r = 1 THEN ip ELSE IF r <= P THEN lru[r - 1] ELSE lru[r]
    BY <2>1, Zenon
  <2>4. \A r \in 1..Len(lru) : Rl!Since(lru[r]) = {lru[q] : q \in 1 .. r - 1}
    BY <2>2, Zenon DEF Rl!ListOK
  <2>5. p \in 1..L /\ p \in Nat
    BY <2>2
  <2>6. L <= Len(lru) + 1 /\ (P = L \/ (L = Len(lru) /\ P \in 1..Len(lru) /\ lru[P] = ip))
    <3>1. L = Len(lru) + 1 => L <= Len(lru) + 1
      BY <2>2
    <3>2. L = Len(lru) => L <= Len(lru) + 1
      BY <2>2
    <3> QED BY <2>1, <3>1, <3>2, Zenon
  <2>7. \A r \in 1..Len(lru) : lru[r] = ip => r = P /\ ip \in Rl!ToSet(lru)
    <3>1. ASSUME NEW r \in 1..Len(lru), lru[r] = ip PROVE ip \in Rl!ToSet(lru)
      BY <2>2, <3>1 DEF Rl!ToSet
    <3>2. ip \in Rl!ToSet(lru) => lru[P] = ip /\ P \in DOMAIN lru
      BY <2>1, <2>2
    <3>3. \A r \in 1..Len(lru) : lru[r] = lru[P] /\ P \in DOMAIN lru => r = P
      BY <2>2, Zenon DEF Rl!TypeOK, Rl!IsInjective
    <3> QED BY <3>1, <3>2, <3>3, Zenon
  <2>8. CASE p = 1
    <3>1. x = ip
      BY <1>8, <2>3, <2>5, <2>8, Zenon
    <3>2. 1 .. p - 1 = {}
      BY <2>8
    <3> QED BY <1>4, <3>1, <3>2
  <2>9. CASE p # 1 /\ p <= P
    <3>1. x = lru[p - 1]
      BY <1>8, <2>3, <2>5, <2>9, Zenon
    <3>2. p - 1 \in 1..Len(lru) /\ p - 1 # P
      <4>1. L <= Len(lru) + 1 /\ Len(lru) \in Nat
        BY <2>2, <2>6
      <4> QED BY <2>2, <2>5, <2>9, <4>1
    <3>3. x # ip
      BY <2>7, <3>1, <3>2
    <3>4. Rl!Since(x)' = {lru[q] : q \in 1 .. (p - 1) - 1} \cup {ip}
      BY <1>4, <2>4, <3>1, <3>2, <3>3
    <3>5. \A q \in 1 .. p - 1 :
            /\ q \in 1..L /\ (q # 1 => q <= P /\ q - 1 \in 1 .. (p - 1) - 1)
            /\ 1 \in 1 .. p - 1 /\ 1 \in 1..L
      BY <2>2, <2>5, <2>9
    <3>6. \A q \in 1 .. (p - 1) - 1 :
            q + 1 \in 1 .. p - 1 /\ q + 1 # 1 /\ q + 1 <= P /\ q + 1 \in 1..L /\ (q + 1) - 1 = q
      BY <2>2, <2>5, <2>9
    <3>7. 1 \in 1 .. p - 1 /\ 1 \in 1..L
      BY <2>2, <2>5, <2>9
    <3>8. \A q \in 1 .. p - 1 : lru'[q] \in {lru[r] : r \in 1 .. (p - 1) - 1} \cup {ip}
      BY <2>3, <3>5
    <3>9. \A q \in 1 .. (p - 1) - 1 : lru'[q + 1] = lru[q]
      BY <2>3, <3>6
    <3>10. lru'[1] = ip
      BY <2>3, <3>7
    <3>11. {lru[q] : q \in 1 .. (p - 1) - 1} \cup {ip} \subseteq {lru'[q] : q \in 1 .. p - 1}
      BY <3>6, <3>7, <3>9, <3>10
    <3> QED BY <3>4, <3>8, <3>11
  <2>10. CASE p # 1 /\ ~(p <= P)
    <3>0. L = Len(lru) /\ P \in 1..Len(lru) /\ lru[P] = ip
      <4>1. P # L
        BY <2>2, <2>5, <2>10
      <4> QED BY <2>6, <4>1, Zenon
    <3>1. x = lru[p] /\ p \in 1..Len(lru) /\ p # P
      BY <1>8, <2>2, <2>3, <2>5, <2>10, <3>0
    <3>3. x # ip
      BY <2>7, <3>1
    <3>4. Rl!Since(x)' = {lru[q] : q \in 1 .. p - 1} \cup {ip}
      BY <1>4, <2>4, <3>1, <3>3
    <3>5. \A q \in 1 .. p - 1 : q \in 1..L /\ (q # 1 /\ q <= P => q - 1 \in 1 .. p - 1)
      BY <2>2, <2>5
    <3>6. \A q \in 1 .. p - 1 : q # P => \/ q < P /\ q + 1 \in 1 .. p - 1 /\ q + 1 # 1 /\ q + 1 <= P
                                            /\ q + 1 \in 1..L /\ (q + 1) - 1 = q
                                         \/ ~(q <= P) /\ q # 1 /\ q \in 1..L
      BY <2>2, <2>5, <2>10
    <3>7. 1 \in 1 .. p - 1 /\ 1 \in 1..L
      BY <2>2, <2>5, <2>10
    <3>8. \A q \in 1 .. p - 1 : lru'[q] \in {lru[r] : r \in 1 .. p - 1} \cup {ip}
      BY <2>3, <3>5
    <3>9. lru'[1] = ip
      BY <2>3, <3>7
    <3>10. \A q \in 1 .. p - 1 : \E r \in 1 .. p - 1 : lru'[r] = lru[q]
      <4> TAKE q \in 1 .. p - 1
      <4>1. CASE q = P
        BY <3>0, <3>7, <3>9, <4>1
      <4>2. CASE q # P
        BY <2>3, <3>6, <4>2
      <4> QED BY <4>1, <4>2
    <3> QED BY <3>4, <3>7, <3>8, <3>9, <3>10
  <2> QED BY <2>8, <2>9, <2>10
<1>9. ASSUME NEW k \in DOMAIN calls', NEW x, x = calls'[k].ip, x \notin Rl!ToSet(lru)'
      PROVE  Cardinality(Rl!Since(x)') >= MaxIPs
  <2>1. x # ip /\ k \in 1..n /\ x = calls[k].ip
    <3>1. x # ip
      BY <1>6, <1>9
    <3>2. k # n + 1
      BY <1>1, <1>3, <1>9, <3>1
    <3>3. k \in 1..n
      BY <1>3, <3>2
    <3> QED BY <1>3, <1>9, <3>1, <3>3
  <2>2. Rl!Since(x)' = Rl!Since(x) \cup {ip} /\ IsFiniteSet(Rl!Since(x))
    BY <1>2, <1>4, <2>1, RateSinceFinite
  <2>3. /\ IsFiniteSet(Rl!Since(x) \cup {ip}) /\ Cardinality(Rl!Since(x)) \in Nat
        /\ Cardinality(Rl!Since(x) \cup {ip}) =
             IF ip \in Rl!Since(x) THEN Cardinality(Rl!Since(x)) ELSE Cardinality(Rl!Since(x)) + 1
    BY <2>2, FS_AddElement, FS_CardinalityType
  <2>4. MaxIPs \in Nat \ {0}
    BY RateLimitAssumption
  <2>5. CASE x \notin Rl!ToSet(lru)
    <3>1. Cardinality(Rl!Since(x)) >= MaxIPs
      BY <1>3, <2>1, <2>5, RateCount, Zenon DEF Rl!ListOK
    <3> QED BY <2>2, <2>3, <2>4, <3>1
  <2>6. CASE x \in Rl!ToSet(lru)
    <3>1. ip \notin Rl!ToSet(lru) /\ Len(lru) = MaxIPs /\ x = lru[MaxIPs]
      BY <1>6, <1>9, <2>6
    <3>2. MaxIPs \in DOMAIN lru /\ MaxIPs - 1 \in Nat /\ MaxIPs - 1 <= Len(lru)
      <4>1. DOMAIN lru = 1..Len(lru)
        BY DEF Rl!TypeOK
      <4> QED BY <2>4, <3>1, <4>1
    <3>3. Rl!Since(x) = {lru[q] : q \in 1 .. MaxIPs - 1}
      BY <3>1, <3>2, Zenon DEF Rl!ListOK
    <3>4. Cardinality(Rl!Since(x)) = MaxIPs - 1 /\ ip \notin Rl!Since(x)
      BY <3>1, <3>2, <3>3, RatePrefix
    <3> QED BY <2>2, <2>3, <2>4, <3>4
  <2> QED BY <2>5, <2>6
<1>10. \A p \in DOMAIN lru' : /\ \E k \in DOMAIN calls' : calls'[k].ip = lru'[p]
                              /\ Rl!Since(lru[p])' = {lru'[q] : q \in 1 .. p - 1}
  <2> TAKE p \in DOMAIN lru'
  <2>1. lru'[p] \in Rl!ToSet(lru)'
    BY Zenon DEF Rl!ToSet
  <2>2. Rl!Since(lru[p])' = {lru'[q] : q \in 1 .. p - 1}
    <3>1. PICK x : x = lru'[p]
      OBVIOUS
    <3>2. Rl!Since(x)' = {lru'[q] : q \in 1 .. p - 1}
      BY <1>8, <3>1
    <3> QED BY <3>1, <3>2, Zenon DEF Rl!Since
  <2> QED BY <1>7, <2>1, <2>2
<1>11. \A k \in DOMAIN calls' :
         calls'[k].ip \notin Rl!ToSet(lru)' => Rl!Cardinality(Rl!Since(calls[k].ip)') >= MaxIPs
  <2> SUFFICES ASSUME NEW k \in DOMAIN calls', calls'[k].ip \notin Rl!ToSet(lru)'
               PROVE  Rl!Cardinality(Rl!Since(calls[k].ip)') >= MaxIPs
    OBVIOUS
  <2>1. PICK x : x = calls'[k].ip
    OBVIOUS
  <2>2. Cardinality(Rl!Since(x)') >= MaxIPs
    BY <1>9, <2>1
  <2>3. Rl!Since(x)' = Rl!Since(calls[k].ip)'
    BY <2>1, Zenon DEF Rl!Since
  <2> QED BY <2>2, <2>3, RateCount, Zenon
<1> QED BY <1>10, <1>11, Zenon DEF Rl!ListOK

\* Where there is a limit, it is one request at least.
LEMMA RateBurst ==
  ASSUME Rl!TypeOK, ~Rl!Unlimited
  PROVE  Rl!Burst \in Nat \ {0} /\ clock \in Nat
<1>1. perMinute \in Int /\ Default \in Nat \ {0} /\ MaxNow \in Nat /\ clock \in 0..MaxNow
  BY RateLimitAssumption DEF Rl!TypeOK
<1> QED BY <1>1 DEF Rl!Unlimited, Rl!Burst

\* What a request takes: the bucket of its address, or a full one, is filled up to now
\* and has one token less, if it has one.
LEMMA RateTaken ==
  ASSUME Rl!TypeOK, ~Rl!Unlimited, NEW ip \in IPs, Rl!Take(ip)
  PROVE  \E t \in 0..Rl!Burst, a \in 0..clock, level \in 0..Rl!Burst :
           /\ ip \in Rl!ToSet(lru) => bucket[ip] = [tokens |-> t, at |-> a]
           /\ ip \notin Rl!ToSet(lru) => t = Rl!Burst /\ a = clock
           /\ level = IF t + (clock - a) > Rl!Burst THEN Rl!Burst ELSE t + (clock - a)
           /\ calls' = Append(calls, [ip |-> ip, at |-> clock, ok |-> level > 0])
           /\ bucket' = [x \in Rl!ToSet(lru)' |->
                IF x = ip THEN IF level > 0 THEN [tokens |-> level - 1, at |-> clock]
                               ELSE [tokens |-> t, at |-> a]
                ELSE bucket[x]]
<1> DEFINE b == IF ip \in Rl!ToSet(lru) THEN bucket[ip] ELSE Rl!NewLimiter
<1>1. Rl!Burst \in Nat \ {0} /\ clock \in Nat
  BY RateBurst
<1>2. b \in [tokens : 0..Rl!Burst, at : 0..clock]
  <2>1. Rl!NewLimiter \in [tokens : 0..Rl!Burst, at : 0..clock]
    BY <1>1 DEF Rl!NewLimiter
  <2>2. ip \in Rl!ToSet(lru) => bucket[ip] \in [tokens : 0..Rl!Burst, at : 0..clock]
    BY DEF Rl!TypeOK
  <2> QED BY <2>1, <2>2, Zenon
<1>3. /\ calls' = Append(calls, [ip |-> ip, at |-> clock, ok |-> Rl!Allow(b)])
      /\ bucket' = [x \in Rl!ToSet(lru)' |-> IF x = ip THEN Rl!After(b) ELSE bucket[x]]
  BY Zenon DEF Rl!Take, Rl!ToSet
<1>4. PICK t \in 0..Rl!Burst, a \in 0..clock : b = [tokens |-> t, at |-> a]
  <2> HIDE DEF b
  <2> QED BY <1>2
<1>5. /\ ip \in Rl!ToSet(lru) => bucket[ip] = [tokens |-> t, at |-> a]
      /\ ip \notin Rl!ToSet(lru) => t = Rl!Burst /\ a = clock
  BY <1>4 DEF Rl!NewLimiter
<1> DEFINE level == Rl!Level(b)
<1> HIDE DEF b
<1>6. level = IF t + (clock - a) > Rl!Burst THEN Rl!Burst ELSE t + (clock - a)
  BY <1>4 DEF Rl!Level
<1>7. level \in 0..Rl!Burst
  <2> HIDE DEF level
  <2> QED BY <1>1, <1>6
<1>8. Rl!Allow(b) = (level > 0)
  BY Zenon DEF Rl!Allow
<1>9. Rl!After(b) = IF level > 0 THEN [tokens |-> level - 1, at |-> clock]
                    ELSE [tokens |-> t, at |-> a]
  BY <1>4, <1>8, Zenon DEF Rl!After
<1>10. PICK l \in 0..Rl!Burst : l = level
  <2> HIDE DEF level
  <2> QED BY <1>7
<1>11. /\ l = IF t + (clock - a) > Rl!Burst THEN Rl!Burst ELSE t + (clock - a)
       /\ calls' = Append(calls, [ip |-> ip, at |-> clock, ok |-> l > 0])
       /\ bucket' = [x \in Rl!ToSet(lru)' |->
             IF x = ip THEN IF l > 0 THEN [tokens |-> l - 1, at |-> clock]
                            ELSE [tokens |-> t, at |-> a]
             ELSE bucket[x]]
  <2>1. Rl!After(b) = IF l > 0 THEN [tokens |-> l - 1, at |-> clock] ELSE [tokens |-> t, at |-> a]
    BY <1>9, <1>10
  <2>2. Rl!Allow(b) = (l > 0)
    BY <1>8, <1>10
  <2> HIDE DEF level
  <2> QED BY <1>3, <1>6, <1>10, <2>1, <2>2, Zenon
<1> QED
  <2> WITNESS t \in 0..Rl!Burst, a \in 0..clock, l \in 0..Rl!Burst
  <2> QED BY <1>5, <1>11, Zenon

\* A request keeps the types.
LEMMA RateTypeTake ==
  ASSUME Rl!TypeOK, ~Rl!Unlimited, NEW ip \in IPs, Rl!Take(ip), UNCHANGED <<perMinute, clock>>
  PROVE  Rl!TypeOK'
<1>1. PICK t \in 0..Rl!Burst, a \in 0..clock, level \in 0..Rl!Burst :
           /\ ip \in Rl!ToSet(lru) => bucket[ip] = [tokens |-> t, at |-> a]
           /\ ip \notin Rl!ToSet(lru) => t = Rl!Burst /\ a = clock
           /\ level = IF t + (clock - a) > Rl!Burst THEN Rl!Burst ELSE t + (clock - a)
           /\ calls' = Append(calls, [ip |-> ip, at |-> clock, ok |-> level > 0])
           /\ bucket' = [x \in Rl!ToSet(lru)' |->
                IF x = ip THEN IF level > 0 THEN [tokens |-> level - 1, at |-> clock]
                               ELSE [tokens |-> t, at |-> a]
                ELSE bucket[x]]
  BY RateTaken, Zenon
<1>2. Rl!Burst \in Nat \ {0} /\ clock \in Nat /\ Rl!Burst' = Rl!Burst
  BY RateBurst DEF Rl!Burst
<1>3. /\ lru' \in Seq(IPs) /\ Rl!IsInjective(lru)' /\ Len(lru)' <= MaxIPs
      /\ Rl!ToSet(lru)' \subseteq Rl!ToSet(lru) \cup {ip}
  BY RateListed, Zenon
<1>4. perMinute' \in Caps /\ clock' \in 0..MaxNow
  BY DEF Rl!TypeOK
<1>5. calls' \in Seq([ip : IPs, at : 0..clock, ok : BOOLEAN])
  <2> DEFINE T == [ip : IPs, at : 0..clock, ok : BOOLEAN]
  <2>1. [ip |-> ip, at |-> clock, ok |-> level > 0] \in T
    BY <1>2
  <2>2. calls \in Seq(T)
    BY DEF Rl!TypeOK
  <2> HIDE DEF T
  <2>3. calls' \in Seq(T)
    BY <1>1, <2>1, <2>2
  <2> QED BY <2>3 DEF T
<1>6. bucket' \in [Rl!ToSet(lru)' -> [tokens : 0..Rl!Burst, at : 0..clock]]
  <2> DEFINE R == [tokens : 0..Rl!Burst, at : 0..clock]
             D == Rl!ToSet(lru)'
             g(x) == IF x = ip THEN IF level > 0 THEN [tokens |-> level - 1, at |-> clock]
                                    ELSE [tokens |-> t, at |-> a]
                     ELSE bucket[x]
  <2>1. [tokens |-> t, at |-> a] \in R /\ (level > 0 => [tokens |-> level - 1, at |-> clock] \in R)
    BY <1>2
  <2>2. \A x \in Rl!ToSet(lru) : bucket[x] \in R
    BY DEF Rl!TypeOK
  <2> HIDE DEF R
  <2>3. \A x \in D : g(x) \in R
    BY <1>3, <2>1, <2>2
  <2>4. bucket' = [x \in D |-> g(x)]
    BY <1>1
  <2> HIDE DEF D, g
  <2>5. bucket' \in [D -> R]
    BY <2>3, <2>4
  <2> QED BY <2>5 DEF D, R
<1> QED BY <1>2, <1>3, <1>4, <1>5, <1>6 DEF Rl!TypeOK

\* A request that is not limited, and time, keep the types.
LEMMA RateTypeRest ==
  ASSUME Rl!TypeOK, UNCHANGED <<perMinute, lru, bucket>>,
         \/ /\ clock' = clock
            /\ \E ip \in IPs : calls' = Append(calls, [ip |-> ip, at |-> clock, ok |-> TRUE])
         \/ clock < MaxNow /\ clock' = clock + 1 /\ calls' = calls
  PROVE  Rl!TypeOK'
<1>1. clock \in 0..MaxNow /\ MaxNow \in Nat /\ clock' \in 0..MaxNow
  BY RateLimitAssumption DEF Rl!TypeOK
<1>2. 0..clock \subseteq 0..clock' /\ clock \in 0..clock'
  BY <1>1
<1>3. Rl!Burst' = Rl!Burst /\ Rl!ToSet(lru)' = Rl!ToSet(lru)
  BY Zenon DEF Rl!Burst, Rl!ToSet
<1>4. bucket' \in [Rl!ToSet(lru)' -> [tokens : 0..Rl!Burst', at : 0..clock']]
  <2> DEFINE R == [tokens : 0..Rl!Burst, at : 0..clock]
             S == [tokens : 0..Rl!Burst, at : 0..clock']
  <2>1. bucket \in [Rl!ToSet(lru) -> R]
    BY DEF Rl!TypeOK
  <2>2. R \subseteq S
    BY <1>2
  <2> HIDE DEF R, S
  <2>3. bucket' \in [Rl!ToSet(lru) -> S]
    BY <2>1, <2>2
  <2> QED BY <1>3, <2>3 DEF S
<1>5. calls' \in Seq([ip : IPs, at : 0..clock', ok : BOOLEAN])
  <2> DEFINE R == [ip : IPs, at : 0..clock, ok : BOOLEAN]
             S == [ip : IPs, at : 0..clock', ok : BOOLEAN]
  <2>1. calls \in Seq(R)
    BY DEF Rl!TypeOK
  <2>2. R \subseteq S /\ \A ip \in IPs : [ip |-> ip, at |-> clock, ok |-> TRUE] \in S
    BY <1>2
  <2> HIDE DEF R, S
  <2>3. calls \in Seq(S)
    BY <2>1, <2>2
  <2>4. calls' \in Seq(S)
    <3>1. ASSUME NEW ip \in IPs, calls' = Append(calls, [ip |-> ip, at |-> clock, ok |-> TRUE])
          PROVE  calls' \in Seq(S)
      BY <2>2, <2>3, <3>1
    <3> QED BY <2>3, <3>1
  <2> QED BY <2>4 DEF S
<1> QED BY <1>1, <1>3, <1>4, <1>5 DEF Rl!TypeOK, Rl!IsInjective

\* A stretch from before to after the return of an address that had left the list had
\* too many others in it.
LEMMA RateReturn ==
  ASSUME Rl!TypeOK, Rl!ListOK, NEW ip \in IPs, ip \notin Rl!ToSet(lru),
         NEW c, calls' = Append(calls, c), c.ip = ip,
         NEW n, n = Len(calls), NEW i \in 1..n, calls[i].ip = ip
  PROVE  ~Rl!Kept(ip, i, n + 1)'
<1> DEFINE T == [ip : IPs, at : 0..clock, ok : BOOLEAN]
           K == {k \in i..n : calls[k].ip = ip}
<1>1. calls \in Seq(T)
  BY DEF Rl!TypeOK
<1> HIDE DEF T
<1>2. /\ n \in Nat /\ DOMAIN calls = 1..n /\ calls'[n + 1] = c
      /\ \A k \in 1..n : calls'[k] = calls[k]
  BY <1>1, RateAppended
<1>3. PICK k \in K : \A l \in K : l <= k
  <2>1. K \in SUBSET Nat /\ i \in K /\ \A l \in K : l <= n
    BY <1>2
  <2> HIDE DEF K
  <2> QED BY <1>2, <2>1, GreatestNat
<1>4. /\ k \in 1..n /\ k \in i .. n + 1 /\ n + 1 \in k + 1 .. n + 1 /\ calls[k].ip = ip
      /\ (n + 1) - 1 = n
  BY <1>2, <1>3
<1>5. \A m \in k + 1 .. n : m \in 1..n /\ calls[m].ip # ip
  <2>1. \A m \in k + 1 .. n : m \in 1..n /\ m \in i..n /\ ~(m <= k)
    BY <1>2, <1>4
  <2> QED BY <1>3, <2>1
<1>13. Rl!Since(ip) = {calls[m].ip : m \in {m \in 1..n : \A l \in m..n : calls[l].ip # ip}}
  BY <1>2, Zenon DEF Rl!Since
<1>6. Rl!Since(ip) \subseteq {calls[m].ip : m \in k + 1 .. n}
  <2>1. ASSUME NEW m \in 1..n, \A l \in m..n : calls[l].ip # ip PROVE m \in k + 1 .. n
    <3>1. ~(k \in m..n)
      BY <1>4, <2>1
    <3> QED BY <1>2, <1>4, <3>1
  <2> QED BY <1>13, <2>1
<1>7. {calls[m].ip : m \in k + 1 .. n} \subseteq Rl!Since(ip)
  <2>1. \A m \in k + 1 .. n : \A l \in m..n : l \in k + 1 .. n
    BY <1>2, <1>4
  <2> QED BY <1>13, <1>5, <2>1
<1>8. {calls'[m].ip : m \in k + 1 .. (n + 1) - 1} = Rl!Since(ip)
  <2>2. \A m \in k + 1 .. n : calls'[m] = calls[m]
    BY <1>2, <1>5
  <2>1. {calls'[m].ip : m \in k + 1 .. n} = {calls[m].ip : m \in k + 1 .. n}
    BY <2>2, Zenon
  <2> QED BY <1>4, <1>6, <1>7, <2>1
<1>9. Cardinality(Rl!Since(ip)) >= MaxIPs
  BY <1>2, <1>4, RateCount, Zenon DEF Rl!ListOK
<1>10. Cardinality(Rl!Since(ip)) \in Nat /\ MaxIPs \in Nat
  BY <1>1, RateSinceFinite, FS_CardinalityType, RateLimitAssumption
<1>11. ~(Rl!Cardinality({calls'[m].ip : m \in k + 1 .. (n + 1) - 1}) < MaxIPs)
  <2>1. ~(Cardinality(Rl!Since(ip)) < MaxIPs)
    BY <1>9, <1>10
  <2> QED BY <1>8, <2>1, RateCount, Zenon
<1>12. calls'[k].ip = ip /\ calls'[n + 1].ip = ip
       /\ \A m \in k + 1 .. (n + 1) - 1 : calls'[m].ip # ip
  BY <1>2, <1>4, <1>5
<1> QED BY <1>4, <1>11, <1>12, Zenon DEF Rl!Kept

\* The buckets account for the requests that were allowed.
LEMMA RateStepBuckets ==
  ASSUME Rl!TypeOK, ~Rl!Unlimited, Rl!ListOK, Rl!BucketsOK, NEW ip \in IPs, Rl!Take(ip),
         UNCHANGED <<perMinute, clock>>
  PROVE  Rl!BucketsOK'
<1> DEFINE T == [ip : IPs, at : 0..clock, ok : BOOLEAN]
           B == Rl!Burst
<1>1. PICK t \in 0..Rl!Burst, a \in 0..clock, level \in 0..Rl!Burst :
           /\ ip \in Rl!ToSet(lru) => bucket[ip] = [tokens |-> t, at |-> a]
           /\ ip \notin Rl!ToSet(lru) => t = Rl!Burst /\ a = clock
           /\ level = IF t + (clock - a) > Rl!Burst THEN Rl!Burst ELSE t + (clock - a)
           /\ calls' = Append(calls, [ip |-> ip, at |-> clock, ok |-> level > 0])
           /\ bucket' = [x \in Rl!ToSet(lru)' |->
                IF x = ip THEN IF level > 0 THEN [tokens |-> level - 1, at |-> clock]
                               ELSE [tokens |-> t, at |-> a]
                ELSE bucket[x]]
  BY RateTaken, Zenon
<1>2. B \in Nat \ {0} /\ clock \in Nat /\ Rl!Burst' = B
  BY RateBurst DEF Rl!Burst
<1>3. PICK c : c = [ip |-> ip, at |-> clock, ok |-> level > 0]
  OBVIOUS
<1>4. PICK n : n = Len(calls)
  OBVIOUS
<1>5. /\ calls \in Seq(T) /\ calls' = Append(calls, c)
      /\ c.ip = ip /\ c.at = clock /\ c.ok = (level > 0)
  BY <1>1, <1>3 DEF Rl!TypeOK
<1>6. /\ n \in Nat /\ DOMAIN calls = 1..n /\ DOMAIN calls' = 1 .. n + 1 /\ Len(calls)' = n + 1
      /\ calls'[n + 1] = c /\ \A k \in 1..n : calls'[k] = calls[k]
  BY <1>4, <1>5, RateAppended
<1>7. \A k \in 1..n : calls[k].at \in Nat
  <2>1. \A k \in 1..n : calls[k] \in T
    <3> HIDE DEF T
    <3> QED BY <1>5, <1>6
  <2> QED BY <1>2, <2>1
<1>8. /\ ip \in Rl!ToSet(lru)' /\ Rl!ToSet(lru)' \subseteq Rl!ToSet(lru) \cup {ip}
      /\ \A x \in Rl!ToSet(lru) : bucket[x].tokens \in Nat /\ bucket[x].at \in Nat
  BY RateListed DEF Rl!TypeOK
<1> HIDE DEF T, B
<1>9. \A x, i : /\ Rl!Lacks(x, i) = B + bucket[x].at - calls[i].at - bucket[x].tokens
                /\ Rl!Lacks(x, i)' = B + bucket'[x].at - calls'[i].at - bucket'[x].tokens
  BY <1>2 DEF Rl!Lacks, B
<1>10. \A x, i : i \in 1..n =>
         /\ Rl!Allowed(x, i, n) \in Nat
         /\ Rl!Allowed(x, i, n + 1)' =
              Rl!Allowed(x, i, n) + (IF ip = x /\ level > 0 THEN 1 ELSE 0)
         /\ Rl!Kept(x, i, n + 1)' => Rl!Kept(x, i, n)
  <2> TAKE x, i
  <2> HAVE i \in 1..n
  <2>1. i \in DOMAIN calls
    BY <1>6
  <2>2. /\ Rl!Allowed(x, i, n) \in Nat
        /\ Rl!Allowed(x, i, n + 1)' = Rl!Allowed(x, i, n) + (IF c.ip = x /\ c.ok THEN 1 ELSE 0)
        /\ Rl!Kept(x, i, n + 1)' => Rl!Kept(x, i, n)
    BY <1>4, <1>5, <2>1, RateCountsLast, Zenon
  <2> QED BY <1>5, <2>2, Zenon
<1>11. \A x : Rl!Allowed(x, n + 1, n + 1)' = IF ip = x /\ level > 0 THEN 1 ELSE 0
  BY <1>4, <1>5, RateCountsOne
<1>12. \A x \in Rl!ToSet(lru) :
         /\ \E i \in 1..n : calls[i].ip = x /\ Rl!Allowed(x, i, n) = Rl!Lacks(x, i)
         /\ \A i \in 1..n : calls[i].ip = x /\ Rl!Kept(x, i, n) =>
              Rl!Allowed(x, i, n) <= Rl!Lacks(x, i)
  BY <1>4, <1>6, Zenon DEF Rl!BucketsOK
<1>13. n + 1 \in 1 .. n + 1 /\ \A i \in 1 .. n + 1 : i \in 1..n \/ i = n + 1
  BY <1>6
<1>14. \A i \in 1..n : i \in 1 .. n + 1
  BY <1>6
<1>15. bucket'[ip] = IF level > 0 THEN [tokens |-> level - 1, at |-> clock]
                     ELSE [tokens |-> t, at |-> a]
  BY <1>1, <1>8
<1>16. t \in Nat /\ a \in Nat /\ level \in Nat /\ level <= B /\ t <= B /\ a <= clock
       /\ level = IF t + (clock - a) > B THEN B ELSE t + (clock - a)
  BY <1>1, <1>2 DEF B
<1>17. level = 0 => t = 0 /\ a = clock
  BY <1>2, <1>16
<1>18. \A i \in 1 .. n + 1 :
         /\ calls'[i].at \in Nat
         /\ level > 0 => Rl!Lacks(ip, i)' = B + clock - calls'[i].at - (level - 1)
         /\ ~(level > 0) => Rl!Lacks(ip, i)' = B + clock - calls'[i].at
  <2> TAKE i \in 1 .. n + 1
  <2>1. calls'[i].at \in Nat
    BY <1>2, <1>5, <1>6, <1>7, <1>13
  <2>2. /\ level > 0 => bucket'[ip].at = clock /\ bucket'[ip].tokens = level - 1
        /\ ~(level > 0) => bucket'[ip].at = clock /\ bucket'[ip].tokens = 0
    BY <1>15, <1>16, <1>17
  <2>3. Rl!Lacks(ip, i)' = B + bucket'[ip].at - calls'[i].at - bucket'[ip].tokens
    BY <1>9
  <2> QED BY <1>2, <1>16, <2>1, <2>2, <2>3
\* Others than the address of the request.
<1>19. ASSUME NEW x \in Rl!ToSet(lru)', x # ip
       PROVE  /\ \E i \in 1 .. n + 1 :
                   calls'[i].ip = x /\ Rl!Allowed(x, i, n + 1)' = Rl!Lacks(x, i)'
              /\ \A i \in 1 .. n + 1 : calls'[i].ip = x /\ Rl!Kept(x, i, n + 1)' =>
                   Rl!Allowed(x, i, n + 1)' <= Rl!Lacks(x, i)'
  <2>1. x \in Rl!ToSet(lru) /\ bucket'[x] = bucket[x]
    BY <1>1, <1>8, <1>19
  <2>2. \A i \in 1..n : /\ Rl!Lacks(x, i)' = Rl!Lacks(x, i)
                        /\ Rl!Allowed(x, i, n + 1)' = Rl!Allowed(x, i, n)
                        /\ calls'[i].ip = calls[i].ip
    <3> TAKE i \in 1..n
    <3>1. Rl!Lacks(x, i)' = Rl!Lacks(x, i) /\ calls'[i].ip = calls[i].ip
      BY <1>6, <1>9, <2>1, Zenon
    <3>2. Rl!Allowed(x, i, n + 1)' = Rl!Allowed(x, i, n) + 0 /\ Rl!Allowed(x, i, n) \in Nat
      BY <1>10, <1>19
    <3> QED BY <3>1, <3>2
  <2>3. calls'[n + 1].ip # x
    BY <1>5, <1>6, <1>19
  <2>4. \E i \in 1 .. n + 1 :
          calls'[i].ip = x /\ Rl!Allowed(x, i, n + 1)' = Rl!Lacks(x, i)'
    <3>1. PICK i \in 1..n : calls[i].ip = x /\ Rl!Allowed(x, i, n) = Rl!Lacks(x, i)
      BY <1>12, <2>1, Zenon
    <3> QED BY <1>14, <2>2, <3>1
  <2>5. ASSUME NEW i \in 1 .. n + 1, calls'[i].ip = x, Rl!Kept(x, i, n + 1)'
        PROVE  Rl!Allowed(x, i, n + 1)' <= Rl!Lacks(x, i)'
    <3>1. i \in 1..n
      BY <1>13, <2>3, <2>5, Zenon
    <3>2. calls[i].ip = x /\ Rl!Kept(x, i, n)
      BY <1>10, <2>2, <2>5, <3>1, Zenon
    <3>3. Rl!Allowed(x, i, n) <= Rl!Lacks(x, i)
      BY <1>12, <2>1, <3>1, <3>2, Zenon
    <3> QED BY <2>2, <3>1, <3>3
  <2> QED BY <2>4, <2>5
\* The address of the request, from that request on.
<1>20. calls'[n + 1].ip = ip /\ calls'[n + 1].at = clock
  BY <1>5, <1>6
<1>21. Rl!Allowed(ip, n + 1, n + 1)' <= Rl!Lacks(ip, n + 1)'
  <2>1. CASE level > 0
    <3>1. /\ Rl!Allowed(ip, n + 1, n + 1)' = 1
          /\ Rl!Lacks(ip, n + 1)' = B + clock - clock - (level - 1)
      BY <1>11, <1>13, <1>18, <1>20, <2>1
    <3> QED BY <1>2, <1>16, <3>1
  <2>2. CASE ~(level > 0)
    <3>1. Rl!Allowed(ip, n + 1, n + 1)' = 0 /\ Rl!Lacks(ip, n + 1)' = B + clock - clock
      BY <1>11, <1>13, <1>18, <1>20, <2>2
    <3> QED BY <1>2, <3>1
  <2> QED BY <2>1, <2>2
<1>22. level = B => Rl!Allowed(ip, n + 1, n + 1)' = Rl!Lacks(ip, n + 1)'
  <2> HAVE level = B
  <2>1. level > 0
    BY <1>2
  <2>2. Rl!Allowed(ip, n + 1, n + 1)' = 1 /\ Rl!Lacks(ip, n + 1)' = B + clock - clock - (level - 1)
    BY <1>11, <1>13, <1>18, <1>20, <2>1
  <2> QED BY <1>2, <2>2
\* A stretch from before: its count and what the bucket lacks grow together.
<1>23. ASSUME NEW i \in 1..n, calls[i].ip = ip, ip \in Rl!ToSet(lru)
       PROVE  /\ Rl!Allowed(ip, i, n) <= Rl!Lacks(ip, i) =>
                   Rl!Allowed(ip, i, n + 1)' <= Rl!Lacks(ip, i)'
              /\ Rl!Allowed(ip, i, n) = Rl!Lacks(ip, i) /\ level # B =>
                   Rl!Allowed(ip, i, n + 1)' = Rl!Lacks(ip, i)'
  <2> DEFINE q == calls[i].at
             A == Rl!Allowed(ip, i, n)
             Z == Rl!Allowed(ip, i, n + 1)'
  <2>1. Rl!Lacks(ip, i) = B + a - q - t
    BY <1>1, <1>9, <1>23
  <2>2. /\ level > 0 => Rl!Lacks(ip, i)' = B + clock - q - (level - 1) /\ Z = A + 1
        /\ ~(level > 0) => Rl!Lacks(ip, i)' = B + clock - q /\ Z = A + 0
    BY <1>6, <1>10, <1>14, <1>18
  <2>3. A \in Nat /\ q \in Nat
    BY <1>7, <1>10
  <2>4. /\ A <= B + a - q - t =>
             /\ level > 0 => A + 1 <= B + clock - q - (level - 1)
             /\ ~(level > 0) => A + 0 <= B + clock - q
        /\ A = B + a - q - t /\ level # B =>
             /\ level > 0 => A + 1 = B + clock - q - (level - 1)
             /\ ~(level > 0) => A + 0 = B + clock - q
    <3> HIDE DEF A, q, B
    <3> QED BY <1>2, <1>16, <2>3
  <2> HIDE DEF A, q, Z
  <2> QED BY <2>1, <2>2, <2>4, Zenon DEF A, Z
<1>24. ASSUME ip \in Rl!ToSet(lru)
       PROVE  /\ \E i \in 1 .. n + 1 :
                   calls'[i].ip = ip /\ Rl!Allowed(ip, i, n + 1)' = Rl!Lacks(ip, i)'
              /\ \A i \in 1 .. n + 1 : calls'[i].ip = ip /\ Rl!Kept(ip, i, n + 1)' =>
                   Rl!Allowed(ip, i, n + 1)' <= Rl!Lacks(ip, i)'
  <2>1. \E i \in 1 .. n + 1 :
          calls'[i].ip = ip /\ Rl!Allowed(ip, i, n + 1)' = Rl!Lacks(ip, i)'
    <3>1. CASE level = B
      BY <1>13, <1>20, <1>22, <3>1, Zenon
    <3>2. CASE level # B
      BY <1>6, <1>12, <1>14, <1>23, <1>24, <3>2, Zenon
    <3> QED BY <3>1, <3>2, Zenon
  <2>2. \A i \in 1 .. n + 1 : calls'[i].ip = ip /\ Rl!Kept(ip, i, n + 1)' =>
          Rl!Allowed(ip, i, n + 1)' <= Rl!Lacks(ip, i)'
    BY <1>6, <1>10, <1>12, <1>13, <1>21, <1>23, <1>24, Zenon
  <2> QED BY <2>1, <2>2, Zenon
<1>25. ASSUME ip \notin Rl!ToSet(lru)
       PROVE  /\ \E i \in 1 .. n + 1 :
                   calls'[i].ip = ip /\ Rl!Allowed(ip, i, n + 1)' = Rl!Lacks(ip, i)'
              /\ \A i \in 1 .. n + 1 : calls'[i].ip = ip /\ Rl!Kept(ip, i, n + 1)' =>
                   Rl!Allowed(ip, i, n + 1)' <= Rl!Lacks(ip, i)'
  <2>1. level = B
    BY <1>1, <1>2, <1>25 DEF B
  <2>2. \A i \in 1..n : calls[i].ip = ip => ~Rl!Kept(ip, i, n + 1)'
    BY <1>4, <1>5, <1>25, RateReturn
  <2>3. \A i \in 1 .. n + 1 : calls'[i].ip = ip /\ Rl!Kept(ip, i, n + 1)' =>
          Rl!Allowed(ip, i, n + 1)' <= Rl!Lacks(ip, i)'
    BY <1>6, <1>13, <1>21, <2>2, Zenon
  <2> QED BY <1>13, <1>20, <1>22, <2>1, <2>3, Zenon
<1>26. \A x \in Rl!ToSet(lru)' :
         /\ \E i \in 1 .. n + 1 :
              calls'[i].ip = x /\ Rl!Allowed(x, i, n + 1)' = Rl!Lacks(x, i)'
         /\ \A i \in 1 .. n + 1 : calls'[i].ip = x /\ Rl!Kept(x, i, n + 1)' =>
              Rl!Allowed(x, i, n + 1)' <= Rl!Lacks(x, i)'
  BY <1>19, <1>24, <1>25, Zenon
<1>27. \A x, i : /\ Rl!Allowed(x, i, n + 1)' = Rl!Allowed(x, i, Len(calls))'
                 /\ Rl!Kept(x, i, n + 1)' = Rl!Kept(x, i, Len(calls))'
  BY <1>6, Zenon DEF Rl!Allowed, Rl!Kept
<1> QED BY <1>6, <1>26, <1>27, Zenon DEF Rl!BucketsOK

\* What has been promised of the requests so far stays, and the new one is within the
\* limit, or refused for what its address has used.
LEMMA RateStepLimit ==
  ASSUME Rl!TypeOK, ~Rl!Unlimited, Rl!LimitIsPerAddress, Rl!BucketsOK, Rl!BucketsOK',
         NEW ip \in IPs, Rl!Take(ip), UNCHANGED <<perMinute, clock>>
  PROVE  Rl!LimitIsPerAddress'
<1> DEFINE T == [ip : IPs, at : 0..clock, ok : BOOLEAN]
           B == Rl!Burst
<1>1. PICK t \in 0..Rl!Burst, a \in 0..clock, level \in 0..Rl!Burst :
           /\ ip \in Rl!ToSet(lru) => bucket[ip] = [tokens |-> t, at |-> a]
           /\ ip \notin Rl!ToSet(lru) => t = Rl!Burst /\ a = clock
           /\ level = IF t + (clock - a) > Rl!Burst THEN Rl!Burst ELSE t + (clock - a)
           /\ calls' = Append(calls, [ip |-> ip, at |-> clock, ok |-> level > 0])
           /\ bucket' = [x \in Rl!ToSet(lru)' |->
                IF x = ip THEN IF level > 0 THEN [tokens |-> level - 1, at |-> clock]
                               ELSE [tokens |-> t, at |-> a]
                ELSE bucket[x]]
  BY RateTaken, Zenon
<1>2. B \in Nat \ {0} /\ clock \in Nat /\ Rl!Burst' = B
  BY RateBurst DEF Rl!Burst
<1>3. PICK c : c = [ip |-> ip, at |-> clock, ok |-> level > 0]
  OBVIOUS
<1>4. PICK n : n = Len(calls)
  OBVIOUS
<1>5. /\ calls \in Seq(T) /\ calls' = Append(calls, c)
      /\ c.ip = ip /\ c.at = clock /\ c.ok = (level > 0)
  BY <1>1, <1>3 DEF Rl!TypeOK
<1>6. /\ n \in Nat /\ DOMAIN calls = 1..n /\ DOMAIN calls' = 1 .. n + 1 /\ Len(calls)' = n + 1
      /\ calls'[n + 1] = c /\ \A k \in 1..n : calls'[k] = calls[k]
  BY <1>4, <1>5, RateAppended
<1>7. \A k \in 1..n : calls[k].at \in Nat
  <2>1. \A k \in 1..n : calls[k] \in T
    <3> HIDE DEF T
    <3> QED BY <1>5, <1>6
  <2> QED BY <1>2, <2>1
<1> HIDE DEF T, B
<1>8. ip \in Rl!ToSet(lru)'
  BY RateListed, Zenon
<1>9. t \in Nat /\ a \in Nat /\ level \in Nat /\ level <= B /\ t <= B /\ a <= clock
      /\ level = IF t + (clock - a) > B THEN B ELSE t + (clock - a)
  BY <1>1, <1>2 DEF B
<1>10. n + 1 \in 1 .. n + 1 /\ \A i \in 1 .. n + 1 : i \in 1..n \/ i = n + 1
  BY <1>6
<1>11. \A x : \A i, j \in 1..n : /\ Rl!Allowed(x, i, j)' = Rl!Allowed(x, i, j)
                                 /\ Rl!Kept(x, i, j)' = Rl!Kept(x, i, j)
  BY <1>5, <1>6, RateCounts
\* The requests before.
<1>12. ASSUME NEW j \in 1..n, NEW x, x = calls'[j].ip
       PROVE  IF calls'[j].ok
              THEN \A i \in 1..j : calls'[i].ip = x /\ Rl!Kept(x, i, j)' =>
                     Rl!Allowed(x, i, j)' <= B + calls'[j].at - calls'[i].at
              ELSE \E i \in 1 .. j - 1 : calls'[i].ip = x /\
                     Rl!Allowed(x, i, j)' >= B + calls'[j].at - calls'[i].at
  <2>1. calls'[j] = calls[j] /\ x = calls[j].ip
    BY <1>6, <1>12
  <2>2. /\ \A i \in 1..j : i \in 1..n /\ calls'[i] = calls[i]
        /\ \A i \in 1 .. j - 1 : i \in 1..n /\ calls'[i] = calls[i]
    <3>1. (\A i \in 1..j : i \in 1..n) /\ (\A i \in 1 .. j - 1 : i \in 1..n)
      BY <1>6
    <3> QED BY <1>6, <3>1
  <2>3. IF calls[j].ok
        THEN \A i \in 1..j : calls[i].ip = x /\ Rl!Kept(x, i, j) =>
               Rl!Allowed(x, i, j) <= B + calls[j].at - calls[i].at
        ELSE \E i \in 1 .. j - 1 : calls[i].ip = x /\
               Rl!Allowed(x, i, j) >= B + calls[j].at - calls[i].at
    BY <1>6, <2>1, Zenon DEF Rl!LimitIsPerAddress, B
  <2> QED BY <1>11, <2>1, <2>2, <2>3, Zenon
\* The new one.
<1>13. \A i \in 1 .. n + 1 :
         Rl!Lacks(ip, i)' = B + bucket'[ip].at - calls'[i].at - bucket'[ip].tokens
  BY <1>2, Zenon DEF Rl!Lacks, B
<1>14. bucket'[ip] = IF level > 0 THEN [tokens |-> level - 1, at |-> clock]
                     ELSE [tokens |-> t, at |-> a]
  BY <1>1, <1>8
<1>15. \A i : /\ Rl!Allowed(ip, i, n + 1)' = Rl!Allowed(ip, i, Len(calls))'
              /\ Rl!Kept(ip, i, n + 1)' = Rl!Kept(ip, i, Len(calls))'
  BY <1>6, Zenon DEF Rl!Allowed, Rl!Kept
<1>16. ASSUME level > 0, NEW i \in 1 .. n + 1, calls'[i].ip = ip, Rl!Kept(ip, i, n + 1)'
       PROVE  Rl!Allowed(ip, i, n + 1)' <= B + clock - calls'[i].at
  <2>1. Rl!Allowed(ip, i, n + 1)' <= Rl!Lacks(ip, i)'
    BY <1>6, <1>8, <1>15, <1>16, Zenon DEF Rl!BucketsOK
  <2>2. Rl!Lacks(ip, i)' = B + clock - calls'[i].at - (level - 1)
    BY <1>13, <1>14, <1>16
  <2>3. calls'[i].at \in Nat
    BY <1>2, <1>5, <1>6, <1>7, <1>10
  <2>4. Rl!Allowed(ip, i, n + 1)' \in Int
    <3>1. i \in 1..n => Rl!Allowed(ip, i, n) \in Nat
      BY <1>4, <1>5, <1>6, RateCountsLast
    <3>2. i \in 1..n => Rl!Allowed(ip, i, n + 1)' =
                           Rl!Allowed(ip, i, n) + (IF c.ip = ip /\ c.ok THEN 1 ELSE 0)
      BY <1>4, <1>5, <1>6, RateCountsLast
    <3>3. i = n + 1 => Rl!Allowed(ip, i, n + 1)' = IF c.ip = ip /\ c.ok THEN 1 ELSE 0
      BY <1>4, <1>5, RateCountsOne
    <3> QED BY <1>10, <3>1, <3>2, <3>3
  <2> DEFINE Z == Rl!Allowed(ip, i, n + 1)'
             q == calls'[i].at
  <2>5. Z <= B + clock - q - (level - 1) => Z <= B + clock - q
    <3>1. Z \in Int /\ q \in Nat
      BY <2>3, <2>4
    <3> HIDE DEF Z, q
    <3> QED BY <1>2, <1>9, <1>16, <3>1
  <2> QED BY <2>1, <2>2, <2>5
<1>17. ASSUME ~(level > 0)
       PROVE  \E i \in 1..n : calls'[i].ip = ip /\
                Rl!Allowed(ip, i, n + 1)' >= B + clock - calls'[i].at
  <2>1. t = 0 /\ a = clock /\ ip \in Rl!ToSet(lru)
    <3>1. t = 0 /\ a = clock
      BY <1>2, <1>9, <1>17
    <3>2. t # B
      BY <1>2, <3>1
    <3> QED BY <1>1, <3>1, <3>2 DEF B
  <2>2. PICK i \in 1..n : calls[i].ip = ip /\ Rl!Allowed(ip, i, n) = Rl!Lacks(ip, i)
    BY <1>4, <1>6, <2>1, Zenon DEF Rl!BucketsOK
  <2>3. Rl!Lacks(ip, i) = B + clock - calls[i].at - 0
    <3>1. bucket[ip] = [tokens |-> 0, at |-> clock]
      BY <1>1, <2>1, Zenon
    <3>2. bucket[ip].at = clock /\ bucket[ip].tokens = 0
      BY <3>1
    <3> QED BY <3>2, Zenon DEF Rl!Lacks, B
  <2>4. Rl!Allowed(ip, i, n + 1)' = Rl!Allowed(ip, i, n) + 0 /\ Rl!Allowed(ip, i, n) \in Nat
    <3>1. i \in DOMAIN calls
      BY <1>6
    <3>2. Rl!Allowed(ip, i, n + 1)' = Rl!Allowed(ip, i, n) + (IF c.ip = ip /\ c.ok THEN 1 ELSE 0)
          /\ Rl!Allowed(ip, i, n) \in Nat
      BY <1>4, <1>5, <3>1, RateCountsLast
    <3>3. ~(c.ip = ip /\ c.ok)
      BY <1>5, <1>17
    <3> QED BY <3>2, <3>3, Zenon
  <2>5. calls'[i] = calls[i] /\ calls[i].at \in Nat
    BY <1>6, <1>7
  <2> QED BY <1>2, <2>2, <2>3, <2>4, <2>5
<1>18. \A j \in 1 .. n + 1 : \A x : x = calls'[j].ip =>
         IF calls'[j].ok
         THEN \A i \in 1..j : calls'[i].ip = x /\ Rl!Kept(x, i, j)' =>
                Rl!Allowed(x, i, j)' <= B + calls'[j].at - calls'[i].at
         ELSE \E i \in 1 .. j - 1 : calls'[i].ip = x /\
                Rl!Allowed(x, i, j)' >= B + calls'[j].at - calls'[i].at
  <2> SUFFICES ASSUME NEW j \in 1 .. n + 1, NEW x, x = calls'[j].ip
               PROVE  IF calls'[j].ok
                      THEN \A i \in 1..j : calls'[i].ip = x /\ Rl!Kept(x, i, j)' =>
                             Rl!Allowed(x, i, j)' <= B + calls'[j].at - calls'[i].at
                      ELSE \E i \in 1 .. j - 1 : calls'[i].ip = x /\
                             Rl!Allowed(x, i, j)' >= B + calls'[j].at - calls'[i].at
    BY Zenon
  <2>1. CASE j \in 1..n
    BY <1>12, <2>1
  <2>2. CASE j = n + 1
    <3>1. x = ip /\ calls'[j].ok = (level > 0) /\ calls'[j].at = clock /\ j - 1 = n
      BY <1>5, <1>6, <2>2
    <3>2. CASE level > 0
      BY <1>16, <2>2, <3>1, <3>2, Zenon
    <3>3. CASE ~(level > 0)
      BY <1>17, <2>2, <3>1, <3>3, Zenon
    <3> QED BY <3>2, <3>3
  <2> QED BY <1>10, <2>1, <2>2
<1> QED
  <2>1. \A j \in DOMAIN calls' :
          IF calls'[j].ok
          THEN \A i \in 1..j : calls'[i].ip = calls'[j].ip /\ Rl!Kept(calls[j].ip, i, j)' =>
                 Rl!Allowed(calls[j].ip, i, j)' <= Rl!Burst' + calls'[j].at - calls'[i].at
          ELSE \E i \in 1 .. j - 1 : calls'[i].ip = calls'[j].ip /\
                 Rl!Allowed(calls[j].ip, i, j)' >= Rl!Burst' + calls'[j].at - calls'[i].at
    <3> TAKE j \in DOMAIN calls'
    <3>1. PICK x : x = calls'[j].ip
      OBVIOUS
    <3>2. \A i : /\ Rl!Kept(calls[j].ip, i, j)' = Rl!Kept(x, i, j)'
                 /\ Rl!Allowed(calls[j].ip, i, j)' = Rl!Allowed(x, i, j)'
      BY <3>1, Zenon DEF Rl!Kept, Rl!Allowed
    <3> QED BY <1>2, <1>6, <1>18, <3>1, <3>2, Zenon
  <2> QED BY <2>1, Zenon DEF Rl!LimitIsPerAddress

\* Nothing that the invariant speaks of changes with time, but the types.
LEMMA RateStill ==
  ASSUME UNCHANGED <<perMinute, lru, bucket, calls>>
  PROVE  /\ Rl!Unlimited' = Rl!Unlimited
         /\ Rl!LimitIsPerAddress => Rl!LimitIsPerAddress'
         /\ Rl!ListOK => Rl!ListOK'
         /\ Rl!BucketsOK => Rl!BucketsOK'
<1>1. Rl!Unlimited' = Rl!Unlimited /\ Rl!Burst' = Rl!Burst /\ Rl!ToSet(lru)' = Rl!ToSet(lru)
  BY Zenon DEF Rl!Unlimited, Rl!Burst, Rl!ToSet
<1>2. \A x : Rl!Since(x)' = Rl!Since(x)
  <2> TAKE x
  <2> DEFINE M == {m \in DOMAIN calls : \A k \in m..Len(calls) : calls[k].ip # x}
             N == {m \in DOMAIN calls' : \A k \in m..Len(calls') : calls'[k].ip # x}
  <2>1. N = M
    OBVIOUS
  <2>2. \A m : calls'[m].ip = calls[m].ip
    OBVIOUS
  <2>3. {calls'[m].ip : m \in M} = {calls[m].ip : m \in M}
    <3> HIDE DEF M
    <3> QED BY <2>2, Zenon
  <2>4. Rl!Since(x)' = {calls'[m].ip : m \in N} /\ Rl!Since(x) = {calls[m].ip : m \in M}
    BY Zenon DEF Rl!Since
  <2> HIDE DEF M, N
  <2> QED BY <2>1, <2>3, <2>4
<1>3. \A x, i, j : Rl!Allowed(x, i, j)' = Rl!Allowed(x, i, j)
  <2> TAKE x, i, j
  <2>1. {k \in i..j : calls'[k].ip = x /\ calls'[k].ok}
          = {k \in i..j : calls[k].ip = x /\ calls[k].ok}
    OBVIOUS
  <2> QED BY <2>1, Zenon DEF Rl!Allowed
<1>4. \A x, i, j : Rl!Kept(x, i, j)' => Rl!Kept(x, i, j)
  <2> TAKE x, i, j
  <2>1. \A m : calls'[m].ip = calls[m].ip
    OBVIOUS
  <2>2. \A k, l : {calls'[m].ip : m \in k + 1 .. l - 1} = {calls[m].ip : m \in k + 1 .. l - 1}
    BY <2>1, Zenon
  <2> QED BY <2>1, <2>2, Zenon DEF Rl!Kept
<1>5. ASSUME Rl!ListOK PROVE Rl!ListOK'
  <2>1. ASSUME NEW p \in DOMAIN lru'
        PROVE  /\ \E k \in DOMAIN calls' : calls'[k].ip = lru'[p]
               /\ Rl!Since(lru[p])' = {lru'[q] : q \in 1 .. p - 1}
    <3>1. PICK x : x = lru[p]
      OBVIOUS
    <3>2. \E k \in DOMAIN calls : calls[k].ip = x
      BY <1>5, <3>1, Zenon DEF Rl!ListOK
    <3>3. Rl!Since(x) = {lru[q] : q \in 1 .. p - 1}
      BY <1>5, <3>1, Zenon DEF Rl!ListOK
    <3>4. {lru'[q] : q \in 1 .. p - 1} = {lru[q] : q \in 1 .. p - 1}
      OBVIOUS
    <3>5. Rl!Since(lru[p])' = Rl!Since(x)'
      <4>1. x = lru'[p]
        BY <3>1
      <4> QED BY <4>1, Zenon DEF Rl!Since
    <3> QED BY <1>2, <3>1, <3>2, <3>3, <3>4, <3>5
  <2>2. ASSUME NEW k \in DOMAIN calls', calls'[k].ip \notin Rl!ToSet(lru)'
        PROVE  Rl!Cardinality(Rl!Since(calls[k].ip)') >= MaxIPs
    <3>1. PICK x : x = calls[k].ip
      OBVIOUS
    <3>2. Rl!Cardinality(Rl!Since(x)) >= MaxIPs
      <4>1. k \in DOMAIN calls /\ calls[k].ip \notin Rl!ToSet(lru)
        BY <1>1, <2>2, Zenon
      <4> QED BY <1>5, <3>1, <4>1, Zenon DEF Rl!ListOK
    <3>3. Rl!Since(calls[k].ip)' = Rl!Since(x)'
      <4>1. x = calls'[k].ip
        BY <3>1
      <4> QED BY <4>1, Zenon DEF Rl!Since
    <3> QED BY <1>2, <3>2, <3>3, Zenon
  <2> QED BY <2>1, <2>2, Zenon DEF Rl!ListOK
<1>6. \A x, i : Rl!Lacks(x, i)' = Rl!Lacks(x, i)
  BY <1>1, Zenon DEF Rl!Lacks
<1>7. Rl!BucketsOK => Rl!BucketsOK'
  <2>1. \A x, i : /\ Rl!Allowed(x, i, Len(calls))' = Rl!Allowed(x, i, Len(calls))
                  /\ Rl!Kept(x, i, Len(calls))' => Rl!Kept(x, i, Len(calls))
    <3> TAKE x, i
    <3>1. PICK n : n = Len(calls) /\ n = Len(calls')
      OBVIOUS
    <3>2. /\ Rl!Allowed(x, i, Len(calls))' = Rl!Allowed(x, i, n)'
          /\ Rl!Kept(x, i, Len(calls))' => Rl!Kept(x, i, n)'
      BY <3>1, Zenon DEF Rl!Allowed, Rl!Kept
    <3> QED BY <1>3, <1>4, <3>1, <3>2, Zenon
  <2>2. ASSUME Rl!BucketsOK, NEW x \in Rl!ToSet(lru)
        PROVE  /\ \E i \in DOMAIN calls' :
                    calls'[i].ip = x /\ Rl!Allowed(x, i, Len(calls))' = Rl!Lacks(x, i)'
               /\ \A i \in DOMAIN calls' : calls'[i].ip = x /\ Rl!Kept(x, i, Len(calls))' =>
                    Rl!Allowed(x, i, Len(calls))' <= Rl!Lacks(x, i)'
    <3>1. /\ \E i \in DOMAIN calls :
               calls[i].ip = x /\ Rl!Allowed(x, i, Len(calls)) = Rl!Lacks(x, i)
          /\ \A i \in DOMAIN calls : calls[i].ip = x /\ Rl!Kept(x, i, Len(calls)) =>
               Rl!Allowed(x, i, Len(calls)) <= Rl!Lacks(x, i)
      BY <2>2, Zenon DEF Rl!BucketsOK
    <3>2. DOMAIN calls' = DOMAIN calls /\ \A i : calls'[i].ip = calls[i].ip
      OBVIOUS
    <3> QED BY <1>6, <2>1, <3>1, <3>2, Zenon
  <2> QED BY <1>1, <2>2, Zenon DEF Rl!BucketsOK
<1>8. ASSUME Rl!LimitIsPerAddress PROVE Rl!LimitIsPerAddress'
  <2> SUFFICES ASSUME ~Rl!Unlimited, NEW j \in DOMAIN calls'
               PROVE  IF calls'[j].ok
               THEN \A i \in 1..j :
                      calls'[i].ip = calls'[j].ip /\ Rl!Kept(calls[j].ip, i, j)' =>
                        Rl!Allowed(calls[j].ip, i, j)' <= Rl!Burst' + calls'[j].at - calls'[i].at
               ELSE \E i \in 1 .. j - 1 :
                      /\ calls'[i].ip = calls'[j].ip
                      /\ Rl!Allowed(calls[j].ip, i, j)' >= Rl!Burst' + calls'[j].at - calls'[i].at
    BY <1>1, Zenon DEF Rl!LimitIsPerAddress
  <2>1. PICK x : x = calls[j].ip /\ x = calls'[j].ip
    OBVIOUS
  <2>2. \A i : /\ Rl!Kept(calls[j].ip, i, j)' => Rl!Kept(x, i, j)'
               /\ Rl!Allowed(calls[j].ip, i, j)' = Rl!Allowed(x, i, j)'
    BY <2>1, Zenon DEF Rl!Kept, Rl!Allowed
  <2>3. IF calls[j].ok
        THEN \A i \in 1..j : calls[i].ip = x /\ Rl!Kept(x, i, j) =>
               Rl!Allowed(x, i, j) <= Rl!Burst + calls[j].at - calls[i].at
        ELSE \E i \in 1 .. j - 1 : calls[i].ip = x /\
               Rl!Allowed(x, i, j) >= Rl!Burst + calls[j].at - calls[i].at
    BY <1>8, <2>1, Zenon DEF Rl!LimitIsPerAddress
  <2> QED BY <1>1, <1>3, <1>4, <2>1, <2>2, <2>3, Zenon
<1> QED BY <1>1, <1>5, <1>7, <1>8, Zenon

\* A request, limited or not, and time preserve the invariant.
LEMMA RateStep ==
  ASSUME Rl!IInv, Rl!Next
  PROVE  Rl!IInv'
<1>1. Rl!TypeOK /\ Rl!LimitIsPerAddress /\ (~Rl!Unlimited => Rl!ListOK /\ Rl!BucketsOK)
  BY Zenon DEF Rl!IInv
<1>2. CASE Rl!Tick
  <2>1. UNCHANGED <<perMinute, lru, bucket, calls>> /\ clock < MaxNow /\ clock' = clock + 1
    BY <1>2, Zenon DEF Rl!Tick
  <2>2. Rl!TypeOK'
    BY <1>1, <2>1, RateTypeRest, Zenon
  <2> QED BY <1>1, <2>1, <2>2, RateStill, Zenon DEF Rl!IInv
<1>3. ASSUME NEW ip \in IPs, Rl!Request(ip) PROVE Rl!IInv'
  <2>1. UNCHANGED <<perMinute, clock>> /\ Rl!Unlimited' = Rl!Unlimited
    BY <1>3, Zenon DEF Rl!Request, Rl!Unlimited
  <2>2. CASE ~Rl!Unlimited /\ Rl!Take(ip)
    <3>1. Rl!TypeOK' /\ Rl!ListOK'
      BY <1>1, <2>1, <2>2, RateTypeTake, RateStepList
    <3>2. Rl!BucketsOK'
      BY <1>1, <2>1, <2>2, RateStepBuckets
    <3>3. Rl!LimitIsPerAddress'
      BY <1>1, <2>1, <2>2, <3>2, RateStepLimit
    <3> QED BY <3>1, <3>2, <3>3, Zenon DEF Rl!IInv
  <2>3. CASE /\ Rl!Unlimited /\ UNCHANGED <<lru, bucket>>
             /\ calls' = Append(calls, [ip |-> ip, at |-> clock, ok |-> TRUE])
    <3>1. Rl!TypeOK'
      BY <1>1, <2>1, <2>3, RateTypeRest, Zenon
    <3> QED BY <2>1, <2>3, <3>1, Zenon DEF Rl!IInv, Rl!LimitIsPerAddress
  <2> QED BY <1>3, <2>2, <2>3, Zenon DEF Rl!Request
<1> QED BY <1>2, <1>3, Zenon DEF Rl!Next

\* LimitIsPerAddress: while fewer than maxIPs others come between its requests, an address
\* gets the burst and what time brings, and it is refused only for requests of its own,
\* for any number of addresses, any limits and any requests.
THEOREM LimitPerAddress == DaemonSpec => []LimitIsPerAddress
<1> DEFINE Inv == which = "rateLimit" => Rl!IInv
<1>1. DaemonInit => Inv
  BY RateInit, Zenon DEF DaemonInit
<1>2. Inv /\ [DaemonNext]_allVars => Inv'
  <2> SUFFICES ASSUME Inv, [DaemonNext]_allVars, which' = "rateLimit" PROVE Rl!IInv'
    OBVIOUS
  <2>1. CASE UNCHANGED allVars
    <3>1. which = "rateLimit" /\ UNCHANGED <<perMinute, clock, lru, bucket, calls>>
      BY <2>1, Zenon DEF allVars, ofRateLimit
    <3>2. Rl!IInv
      BY <3>1
    <3>3. Rl!TypeOK'
      BY <3>1, <3>2, Zenon DEF Rl!IInv, Rl!TypeOK, Rl!IsInjective, Rl!ToSet, Rl!Burst
    <3> QED BY <3>1, <3>2, <3>3, RateStill, Zenon DEF Rl!IInv
  <2>2. CASE DaemonNext
    <3>1. which = "rateLimit" /\ Rl!Next
      BY <2>2, Zenon DEF DaemonNext
    <3> QED BY <3>1, RateStep, Zenon
  <2> QED BY <2>1, <2>2
<1>3. Inv => LimitIsPerAddress
  BY Zenon DEF LimitIsPerAddress, Rl!IInv
<1> QED BY <1>1, <1>2, <1>3, PTL DEF DaemonSpec
=============================================================================
