------------------------------- MODULE QbitSession -------------------------------
(***************************************************************************)
(* The login of the qBittorrent client (internal/clients/torrent/qbit).    *)
(* All goroutines share one client: one cookie jar, and one flag that says *)
(* whether it is logged in.  qBittorrent forgets sessions, when it         *)
(* restarts or when they are idle; a caller finds out from a 403, perhaps  *)
(* of a request that was sent before another caller logged in again.       *)
(*                                                                         *)
(* ensureLogin holds the mutex over its request, so it is one step.  With  *)
(* an empty username there is no login and no session to lose.             *)
(***************************************************************************)
EXTENDS Naturals

CONSTANTS Callers,       \* the goroutines: pollers, the Actor, the handlers
          MaxAttempts,   \* of retry.Do
          MaxExpiries    \* bound on the sessions that are lost

VARIABLES
  live,       \* qBittorrent knows the session of the jar's cookie
  loggedIn,   \* the flag
  pc, op, attempt,   \* a call: where it is, what it does, its attempt
  sent,       \* the session of its request: "none", "live" or "dead"
  answer,     \* "none", "ok", "error" (no answer, or any other one) or "forbidden"
  \* history: the 403s of the call, and the sessions lost since it began; how many
  \* were lost in all
  refused, lost, expiries

call == <<pc, op, attempt, sent, answer, refused, lost>>
vars == <<live, loggedIn, call, expiries>>

Ops == {"get", "health", "delete"}

Init ==
  /\ live = FALSE /\ loggedIn = FALSE /\ expiries = 0
  /\ pc = [c \in Callers |-> "idle"] /\ op = [c \in Callers |-> "get"]
  /\ attempt = [c \in Callers |-> 0] /\ sent = [c \in Callers |-> "none"]
  /\ answer = [c \in Callers |-> "none"]
  /\ refused = [c \in Callers |-> 0] /\ lost = [c \in Callers |-> 0]
-----------------------------------------------------------------------------
\* getJSON, HealthCheck, and Delete as the Actor calls it, in retry.Do.
Call(c) ==
  /\ pc[c] = "idle"
  /\ \E o \in Ops : op' = [op EXCEPT ![c] = o]
  /\ pc' = [pc EXCEPT ![c] = "login"] /\ attempt' = [attempt EXCEPT ![c] = 1]
  /\ lost' = [lost EXCEPT ![c] = IF loggedIn /\ ~live THEN 1 ELSE 0]
  /\ UNCHANGED <<live, loggedIn, sent, answer, refused, expiries>>

Return(c) ==
  /\ pc' = [pc EXCEPT ![c] = "idle"] /\ op' = [op EXCEPT ![c] = "get"]
  /\ attempt' = [attempt EXCEPT ![c] = 0] /\ refused' = [refused EXCEPT ![c] = 0]
  /\ lost' = [lost EXCEPT ![c] = 0]

\* ensureLogin; when the login fails, for whatever reason, so does the call.
EnsureLogin(c) ==
  /\ pc[c] = "login"
  /\ \/ /\ live' = (live \/ ~loggedIn) /\ loggedIn' = TRUE
        /\ pc' = [pc EXCEPT ![c] = "send"] /\ UNCHANGED <<op, attempt, refused, lost>>
     \/ ~loggedIn /\ Return(c) /\ UNCHANGED <<live, loggedIn>>
  /\ UNCHANGED <<sent, answer, expiries>>

Send(c) ==
  /\ pc[c] = "send"
  /\ pc' = [pc EXCEPT ![c] = "wait"]
  /\ sent' = [sent EXCEPT ![c] = IF live THEN "live" ELSE "dead"]
  /\ UNCHANGED <<live, loggedIn, op, attempt, answer, refused, lost, expiries>>

\* The server takes the request up, or it is lost.
Serve(c) ==
  /\ pc[c] = "wait" /\ pc' = [pc EXCEPT ![c] = "answered"]
  /\ \E a \in {"error", IF sent[c] = "live" THEN "ok" ELSE "forbidden"} :
       answer' = [answer EXCEPT ![c] = a]
  /\ sent' = [sent EXCEPT ![c] = "none"]
  /\ UNCHANGED <<live, loggedIn, op, attempt, refused, lost, expiries>>

\* What retry.Do does after a transient error: a GET sends its request again, a
\* delete begins with ensureLogin.
Again(c) ==
  /\ attempt[c] < MaxAttempts /\ attempt' = [attempt EXCEPT ![c] = @ + 1]
  /\ pc' = [pc EXCEPT ![c] = IF op[c] = "get" THEN "send" ELSE "login"]
  /\ UNCHANGED <<op, lost>>

Answered(c, a) ==
  /\ pc[c] = "answered" /\ answer[c] = a /\ answer' = [answer EXCEPT ![c] = "none"]
  /\ UNCHANGED <<live, sent, expiries>>

Succeed(c) == Answered(c, "ok") /\ Return(c) /\ UNCHANGED loggedIn

\* retry.Do goes on after a transient error: no answer, a 5xx, of a GET a 429.  Any
\* other, such as a 404 or a body that does not decode, ends the call at once, and
\* so does the end of its context.
Fail(c) ==
  /\ Answered(c, "error") /\ UNCHANGED loggedIn
  /\ \/ op[c] # "health" /\ Again(c) /\ UNCHANGED refused
     \/ Return(c)

\* Mutant of Forbidden: the flag stays, as if the 403 had another reason.
ForbiddenLoggedIn(c) ==
  /\ Answered(c, "forbidden") /\ UNCHANGED loggedIn
  /\ \/ op[c] = "delete" /\ Again(c) /\ refused' = [refused EXCEPT ![c] = @ + 1]
     \/ Return(c)

\* A 403: the next call logs in again.  Only a delete is tried again, for whose
\* next attempt ensureLogin runs.
Forbidden(c) ==
  /\ Answered(c, "forbidden") /\ loggedIn' = FALSE
  /\ \/ op[c] = "delete" /\ Again(c) /\ refused' = [refused EXCEPT ![c] = @ + 1]
     \/ Return(c)

\* qBittorrent forgets the session.
Expire ==
  /\ live /\ expiries < MaxExpiries
  /\ live' = FALSE /\ expiries' = expiries + 1
  /\ sent' = [c \in Callers |-> IF sent[c] = "live" THEN "dead" ELSE sent[c]]
  /\ lost' = [c \in Callers |-> IF pc[c] = "idle" THEN 0 ELSE lost[c] + 1]
  /\ UNCHANGED <<loggedIn, pc, op, attempt, answer, refused>>

Next ==
  \/ \E c \in Callers :
       \/ Call(c) \/ EnsureLogin(c) \/ Send(c) \/ Serve(c)
       \/ Succeed(c) \/ Fail(c) \/ Forbidden(c)
  \/ Expire

Spec == Init /\ [][Next]_vars
-----------------------------------------------------------------------------
\* Every variable has its type.
TypeOK ==
  /\ live \in BOOLEAN /\ loggedIn \in BOOLEAN /\ expiries \in 0..MaxExpiries
  /\ pc \in [Callers -> {"idle", "login", "send", "wait", "answered"}]
  /\ op \in [Callers -> Ops] /\ attempt \in [Callers -> 0..MaxAttempts]
  /\ sent \in [Callers -> {"none", "live", "dead"}]
  /\ answer \in [Callers -> {"none", "ok", "error", "forbidden"}]
  /\ refused \in [Callers -> 0..MaxAttempts] /\ lost \in [Callers -> 0..MaxExpiries + 1]

\* "Session expired - force re-login next call."  A lost session costs a call one
\* 403 and no more, whoever notices it first and however late: a delete, which
\* comes when the *arr files are already gone, is refused as many times as
\* sessions were lost since it began, and so outlives fewer losses than attempts.
OneRefusalPerLoss ==
  \A c \in Callers : answer[c] = "forbidden" => refused[c] < lost[c]
-----------------------------------------------------------------------------
\* What a call has been refused and what was lost since it began.
CountsOK(c) ==
  /\ refused[c] <= lost[c] /\ lost[c] <= expiries + 1
  /\ pc[c] = "idle" => refused[c] = 0 /\ attempt[c] = 0
  /\ pc[c] # "idle" => refused[c] < attempt[c]

\* A call that is about to be refused is a loss behind: at its login, when the flag
\* says that there is a session which is lost, and after it whenever there is none.
LossIsAhead(c) ==
  /\ pc[c] = "login" /\ loggedIn /\ ~live => refused[c] < lost[c]
  /\ pc[c] \in {"send", "wait", "answered"} /\ ~live => refused[c] < lost[c]
  /\ sent[c] = "dead" \/ answer[c] = "forbidden" => refused[c] < lost[c]
  /\ sent[c] # "none" <=> pc[c] = "wait"
  /\ answer[c] # "none" <=> pc[c] = "answered"

\* The inductive invariant behind OneRefusalPerLoss.
IInv == TypeOK /\ \A c \in Callers : CountsOK(c) /\ LossIsAhead(c)
=============================================================================
