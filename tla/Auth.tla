--------------------------------- MODULE Auth ---------------------------------
(***************************************************************************)
(* The optional login of the dashboard: internal/server/middleware.go and  *)
(* handlers_auth.go over internal/store/auth_repos.go, and the command     *)
(* `triagearr auth disable`.  Authentication is enabled while auth_users   *)
(* has a row; the answer of that query is cached for authEnabledTTL.  A    *)
(* session slides: a request that uses it extends it, at most once per     *)
(* touchInterval.                                                          *)
(*                                                                         *)
(* Requests are served concurrently; each of their statements is a step,   *)
(* and none of them lives longer than handlerTimeout.  What a password     *)
(* does is left out: the credentials that arrive are good or refused.      *)
(***************************************************************************)
EXTENDS Integers, FiniteSets, Functions

CONSTANTS Requests,       \* the requests that may be under way together
          CacheTTL,       \* authEnabledTTL
          SessionTTL, TouchInterval,
          Timeout,        \* handlerTimeout
          MaxUsers,       \* bound on the accounts ever created
          MaxTokens,      \* bound on the sessions ever issued
          MaxNow          \* bound on time

ASSUME ConstantsAssumption ==
  /\ {CacheTTL, SessionTTL, Timeout} \subseteq Nat
  /\ TouchInterval \in Nat \ {0}
  /\ {MaxUsers, MaxTokens, MaxNow} \subseteq Nat

VARIABLES
  now,
  users, lastUser,  \* auth_users (ids; AUTOINCREMENT)
  sessions,         \* auth_sessions: token to [user, expires, seen]
  lastToken,
  authState,        \* the cache: NoCache or [enabled, at]
  req,              \* the requests: NoRequest or [op, step, token, user, enabled, began]
  \* history: when authentication was last switched, and whether by the API and
  \* with no refresh under way; per session, when it was last used; the sessions
  \* whose extension has failed; the tokens that ended
  switched, clean, used, missed, ended

table == <<users, lastUser, sessions, lastToken>>
past == <<switched, clean, used, missed, ended>>
vars == <<now, table, authState, req, past>>

NoCache == [enabled |-> FALSE, at |-> -CacheTTL]
NoRequest == [op |-> "none", step |-> "none", token |-> 0, user |-> 0,
              enabled |-> FALSE, began |-> 0]

Init ==
  /\ now = 0
  /\ users = {} /\ lastUser = 0 /\ sessions = <<>> /\ lastToken = 0
  /\ authState = NoCache /\ req = [r \in Requests |-> NoRequest]
  /\ switched = 0 /\ clean = TRUE /\ used = <<>> /\ missed = {} /\ ended = {}
-----------------------------------------------------------------------------
GoesTo(r, step) == req' = [req EXCEPT ![r].step = step]
Answered(r) == req' = [req EXCEPT ![r] = NoRequest]

Enabled == users # {}

\* Of the sessions, those in ts are left.
KeepSessions(ts) ==
  /\ sessions' = Restrict(sessions, ts)
  /\ ended' = ended \cup (DOMAIN sessions \ ts)
  /\ used' = Restrict(used, ts) /\ missed' = missed \cap ts

\* The rows of auth_users become us; the sessions of the others cascade.  A
\* refresh of the cache that has read the table and not yet stored overlaps.
SetUsers(us, by) ==
  /\ users' = us
  /\ KeepSessions({t \in DOMAIN sessions : sessions[t].user \in us})
  /\ IF (us # {}) = Enabled THEN UNCHANGED <<switched, clean>>
     ELSE /\ switched' = now
          /\ clean' = (by = "handler" /\ \A r \in Requests : req[r].step # "store")

\* The requests that come in: a gated call, with a session's token or none, an
\* attempt to enable, or to log in, or a call to disable.
Incoming ==
  {q \in [op : {"get", "enable", "disable", "login"}, step : {"check"}, token : 0..lastToken,
          user : {0}, enabled : {FALSE}, began : {now}] :
     /\ q.op \in {"enable", "login"} => q.token = 0
     /\ q.op = "disable" => q.token # 0}

\* What a handler does with the answer of authEnabled.
Proceed(r, q, enabled) ==
  LET next == CASE q.op = "enable" -> IF enabled THEN "none" ELSE "insert"
                [] q.op = "login"  -> IF enabled THEN "user" ELSE "none"
                [] OTHER           -> IF enabled THEN "resolve" ELSE "none"
  IN  IF next = "none" THEN Answered(r)
      ELSE req' = [req EXCEPT ![r] = [q EXCEPT !.step = next, !.enabled = FALSE]]

Fresh == now - authState.at < CacheTTL

\* Mutant of CacheHit: a hit renews the entry.
CacheHitRenewing(r) ==
  /\ req[r] = NoRequest /\ Fresh
  /\ \E q \in Incoming : Proceed(r, q, authState.enabled)
  /\ authState' = [authState EXCEPT !.at = now]
  /\ UNCHANGED <<now, table, past>>

\* authEnabled comes first in every handler; when the cache answers:
CacheHit(r) ==
  /\ req[r] = NoRequest /\ Fresh
  /\ \E q \in Incoming : Proceed(r, q, authState.enabled)
  /\ UNCHANGED <<now, table, authState, past>>

\* Otherwise HasAuthUser, and then the store of its answer, with the time of that.
HasAuthUser(r) ==
  /\ req[r] = NoRequest /\ ~Fresh
  /\ \E q \in Incoming :
       req' = [req EXCEPT ![r] = [q EXCEPT !.step = "store", !.enabled = Enabled]]
  /\ UNCHANGED <<now, table, authState, past>>

StoreAuthState(r) ==
  /\ req[r].step = "store"
  /\ authState' = [enabled |-> req[r].enabled, at |-> now]
  /\ Proceed(r, req[r], req[r].enabled)
  /\ UNCHANGED <<now, table, past>>

Resolved(r) == IF req[r].op = "disable" THEN GoesTo(r, "delete") ELSE Answered(r)

\* LookupAuthSession; a session that is not there, or expired, is a 401.
LookupSession(r) ==
  LET t == req[r].token
  IN  /\ req[r].step = "resolve"
      /\ \/ /\ t \in DOMAIN sessions /\ now <= sessions[t].expires
            /\ used' = [used EXCEPT ![t] = now]
            /\ IF now - sessions[t].seen >= TouchInterval
               THEN req' = [req EXCEPT ![r].step = "touch", ![r].user = sessions[t].user]
               ELSE IF req[r].op = "disable"
               THEN req' = [req EXCEPT ![r].step = "delete", ![r].user = sessions[t].user]
               ELSE Answered(r)
         \/ Answered(r) /\ UNCHANGED used
      /\ UNCHANGED <<now, table, authState, switched, clean, missed, ended>>

\* Mutant of TouchAuthSession: it leaves expires_at alone.
TouchLastSeenOnly(r) ==
  /\ req[r].step = "touch" /\ Resolved(r)
  /\ sessions' = [t \in DOMAIN sessions |->
       IF t = req[r].token THEN [sessions[t] EXCEPT !.seen = now] ELSE sessions[t]]
  /\ UNCHANGED <<now, users, lastUser, lastToken, authState, past>>

\* TouchAuthSession, an UPDATE; its error is ignored.
TouchAuthSession(r) ==
  LET t == req[r].token
  IN  /\ req[r].step = "touch" /\ Resolved(r)
      /\ \/ /\ sessions' = [s \in DOMAIN sessions |->
                 IF s = t THEN [sessions[s] EXCEPT !.seen = now, !.expires = now + SessionTTL]
                 ELSE sessions[s]]
            /\ missed' = missed \ {t}
         \/ missed' = (missed \cup {t}) \cap DOMAIN sessions /\ UNCHANGED sessions
      /\ UNCHANGED <<now, users, lastUser, lastToken, authState, switched, clean, used, ended>>

\* handleAuthEnable: InsertAuthUser.  A name that is taken, or an error, fails.
InsertAuthUser(r) ==
  /\ req[r].step = "insert"
  /\ \/ /\ lastUser < MaxUsers /\ lastUser' = lastUser + 1
        /\ SetUsers(users \cup {lastUser + 1}, "handler")
        /\ req' = [req EXCEPT ![r].step = "invalidate", ![r].user = lastUser + 1]
     \/ Answered(r) /\ UNCHANGED <<users, lastUser, sessions, past>>
  /\ UNCHANGED <<now, lastToken, authState>>

\* handleAuthDisable: the user of the session is loaded, and deleted.
DeleteAuthUser(r) ==
  /\ req[r].step = "delete"
  /\ \/ SetUsers(users \ {req[r].user}, "handler") /\ GoesTo(r, "invalidate")
     \/ Answered(r) /\ UNCHANGED <<users, sessions, past>>
  /\ UNCHANGED <<now, lastUser, lastToken, authState>>

\* invalidateAuthState; enabling goes on with a session.
Invalidate(r) ==
  /\ req[r].step = "invalidate"
  /\ authState' = NoCache
  /\ IF req[r].op = "enable" THEN GoesTo(r, "issue") ELSE Answered(r)
  /\ UNCHANGED <<now, table, past>>

\* handleSessionLogin: the account is read and its password compared.
FindUser(r) ==
  /\ req[r].step = "user"
  /\ \/ \E u \in users : req' = [req EXCEPT ![r].step = "issue", ![r].user = u]
     \/ Answered(r)
  /\ UNCHANGED <<now, table, authState, past>>

\* issueSession; the foreign key refuses a user who is gone.
IssueSession(r) ==
  /\ req[r].step = "issue" /\ Answered(r)
  /\ \/ /\ req[r].user \in users /\ lastToken < MaxTokens
        /\ lastToken' = lastToken + 1
        /\ sessions' = [t \in DOMAIN sessions \cup {lastToken + 1} |->
             IF t \in DOMAIN sessions THEN sessions[t]
             ELSE [user |-> req[r].user, expires |-> now + SessionTTL, seen |-> now]]
        /\ used' = [t \in DOMAIN sessions' |-> IF t \in DOMAIN sessions THEN used[t] ELSE now]
     \/ UNCHANGED <<lastToken, sessions, used>>
  /\ UNCHANGED <<now, users, lastUser, authState, switched, clean, missed, ended>>

\* handleSessionLogout is not gated.
Logout(t) ==
  /\ t \in DOMAIN sessions
  /\ KeepSessions(DOMAIN sessions \ {t})
  /\ UNCHANGED <<now, users, lastUser, lastToken, authState, req, switched, clean>>

\* `triagearr auth disable`, another process.
ClearAuthUsers ==
  /\ Enabled
  /\ SetUsers({}, "cli")
  /\ UNCHANGED <<now, lastUser, lastToken, authState, req>>

\* The daemon restarts: the cache is empty, and expired sessions are swept.
Restart ==
  /\ authState' = NoCache /\ req' = [r \in Requests |-> NoRequest]
  /\ LET kept == {t \in DOMAIN sessions : sessions[t].expires >= now}
         cut == {req[r].token : r \in {q \in Requests : req[q].step = "touch"}}
     IN  /\ sessions' = Restrict(sessions, kept) /\ used' = Restrict(used, kept)
         /\ ended' = ended \cup (DOMAIN sessions \ kept)
         /\ missed' = (missed \cup cut) \cap kept
  /\ UNCHANGED <<now, users, lastUser, lastToken, switched, clean>>

Tick ==
  /\ now < MaxNow /\ now' = now + 1
  /\ \A r \in Requests : req[r] = NoRequest \/ now < req[r].began + Timeout
  /\ UNCHANGED <<table, authState, req, past>>

Next ==
  \/ \E r \in Requests :
       \/ CacheHit(r) \/ HasAuthUser(r) \/ StoreAuthState(r)
       \/ LookupSession(r) \/ TouchAuthSession(r) \/ InsertAuthUser(r)
       \/ DeleteAuthUser(r) \/ Invalidate(r) \/ FindUser(r) \/ IssueSession(r)
  \/ \E t \in 1..lastToken : Logout(t)
  \/ ClearAuthUsers \/ Restart \/ Tick

Spec == Init /\ [][Next]_vars
-----------------------------------------------------------------------------
RequestType ==
  [op : {"none", "get", "enable", "disable", "login"},
   step : {"none", "store", "resolve", "touch", "insert", "delete", "invalidate", "user", "issue"},
   token : Nat, user : Nat, enabled : BOOLEAN, began : Nat]

\* Every variable has its type; a session has an account.
TypeOK ==
  /\ now \in 0..MaxNow
  /\ users \subseteq 1..lastUser /\ lastUser \in 0..MaxUsers
  /\ DOMAIN sessions \subseteq 1..lastToken /\ lastToken \in 0..MaxTokens
  /\ \A t \in DOMAIN sessions : sessions[t] \in [user : users, expires : Nat, seen : 0..now]
  /\ authState \in [enabled : BOOLEAN, at : Int]
  /\ req \in [Requests -> RequestType] /\ \A r \in Requests : req[r].token <= lastToken
  /\ switched \in 0..now /\ clean \in BOOLEAN
  /\ DOMAIN used = DOMAIN sessions /\ \A t \in DOMAIN used : used[t] \in 0..now
  /\ missed \subseteq DOMAIN sessions /\ ended \subseteq 1..lastToken

\* The comment of authEnabledTTL: "a fresh deployment should pick up the change
\* within a few seconds".  A cached answer that is trusted and wrong is so for at
\* most the TTL and the time a request may take to store what it has read, and
\* never after a switch through the API that no refresh of the cache overlapped,
\* from its invalidation on.
CacheIsCoherent ==
  Fresh /\ authState.enabled # Enabled =>
    /\ now < switched + CacheTTL + Timeout
    /\ clean => \E r \in Requests : req[r].step = "invalidate"

\* The comment of sessionTTL: a "sliding window applied on every authenticated
\* hit".  A session lasts for the TTL from its last use, less at most the touch
\* interval and more at most the time a request takes, unless its extension
\* failed; one that has ended never comes back, whatever was under way.
SessionsFollowUse ==
  /\ DOMAIN sessions \cap ended = {}
  /\ \A t \in DOMAIN sessions :
       /\ sessions[t].expires <= used[t] + Timeout + SessionTTL
       /\ \/ sessions[t].expires > used[t] + SessionTTL - TouchInterval
          \/ t \in missed
          \/ \E r \in Requests : req[r].step = "touch" /\ req[r].token = t
-----------------------------------------------------------------------------
\* The parts of the inductive invariant.  No request outlives its timeout.
RequestsInTime ==
  \A r \in Requests :
    req[r].began <= now /\ (req[r] = NoRequest \/ now <= req[r].began + Timeout)

\* A wrong answer, in the cache or on its way there, is from before the last switch;
\* one on its way has overlapped the switch, and a switch that none overlapped is on
\* its way to invalidate the cache.
CacheOK ==
  /\ authState.at <= now
  /\ authState.enabled # Enabled => authState.at <= switched + Timeout
  /\ \A r \in Requests :
       req[r].step = "store" /\ req[r].enabled # Enabled => ~clean /\ req[r].began <= switched
  /\ Fresh /\ authState.enabled # Enabled /\ clean =>
       \E r \in Requests : req[r].step = "invalidate"

\* A session is extended whole; a touch on its way is of a use of the session.
SessionsOK ==
  /\ \A t \in DOMAIN sessions : sessions[t].expires = sessions[t].seen + SessionTTL
  /\ \A r \in Requests :
       req[r].step = "touch" /\ req[r].token \in DOMAIN sessions =>
         req[r].began <= used[req[r].token]
  /\ SessionsFollowUse

IInv == TypeOK /\ RequestsInTime /\ CacheOK /\ SessionsOK
=============================================================================
