------------------------------- MODULE Passwords -------------------------------
(***************************************************************************)
(* The operator's password: how internal/server/handlers_auth.go and the   *)
(* recovery commands `triagearr auth set-password` and `auth disable`      *)
(* (cmd/triagearr/auth.go, another process) write it.  A password that is  *)
(* left empty is generated, and shown once, in the answer: only its hash   *)
(* is stored.                                                              *)
(*                                                                         *)
(* Whether authentication is on, and the sessions, are in Auth; here a     *)
(* request comes with the account of its session.                          *)
(***************************************************************************)
EXTENDS Naturals, Functions

CONSTANTS Calls,      \* requests and commands that may be under way together
          Names,      \* of accounts
          Chosen,     \* passwords that users type, of a length that is accepted
          Generated,  \* what auth.Generate may return
          MaxUsers    \* bound on the accounts ever created

VARIABLES
  accounts,   \* auth_users: id to [name, password]
  lastUser,   \* (AUTOINCREMENT)
  call,       \* NoCall or [op, step, user, new]
  \* history: the generated passwords that are taken, that answers have shown, and
  \* whose answers were lost
  taken, shown, lost

vars == <<accounts, lastUser, call, taken, shown, lost>>

Empty == "empty"
NoCall == [op |-> "none", step |-> "none", user |-> 0, new |-> Empty]

\* What a body or a flag holds; it may be nothing, or too short.
Supplied == Chosen \cup {Empty, "short"}

Init ==
  /\ accounts = <<>> /\ lastUser = 0
  /\ call = [c \in Calls |-> NoCall]
  /\ taken = {} /\ shown = {} /\ lost = {}
-----------------------------------------------------------------------------
Ends(c) == call' = [call EXCEPT ![c] = NoCall]
GoesTo(c, step) == call' = [call EXCEPT ![c].step = step]

\* Generate, when nothing is supplied, and the check of the length.
Generate == Generated \ taken
Resolve(s) == IF s = Empty THEN Generate ELSE {s} \cap Chosen

\* The call of an operation on an account goes on with a password of Resolve; when
\* there is none, it ends with an error and has done nothing.
Begin(c, op, step, u, new) ==
  /\ call' = [call EXCEPT ![c] = [op |-> op, step |-> step, user |-> u, new |-> new]]
  /\ taken' = taken \cup ({new} \cap Generated)
  /\ UNCHANGED <<accounts, lastUser, shown, lost>>

\* GetAuthUserByID, of the session's account, and the comparison of what is presented.
Compare(u, current) == u \in DOMAIN accounts /\ accounts[u].password = current

\* handleAuthChangePassword; the new password must differ.
ChangePassword(c) ==
  /\ call[c] = NoCall
  /\ \E u \in DOMAIN accounts, p \in Chosen \cup shown, s \in Supplied :
       /\ Compare(u, p)
       /\ \E new \in Resolve(s) \ {p} : Begin(c, "change", "update", u, new)

\* handleAuthDisable
Disable(c) ==
  /\ call[c] = NoCall
  /\ \E u \in DOMAIN accounts, p \in Chosen \cup shown :
       Compare(u, p) /\ Begin(c, "disable", "delete", u, Empty)

\* Mutant of UpdateAuthPassword: the answer leaves a generated password out.
UpdateUnshown(c) ==
  /\ call[c].step = "update" /\ Ends(c)
  /\ accounts' = [u \in DOMAIN accounts |->
       IF u = call[c].user THEN [accounts[u] EXCEPT !.password = call[c].new] ELSE accounts[u]]
  /\ UNCHANGED <<lastUser, taken, shown, lost>>

\* UpdateAuthPassword: an account that is gone is no error.  The write may fail.
UpdateAuthPassword(c) ==
  /\ call[c].step = "update"
  /\ \/ /\ accounts' = [u \in DOMAIN accounts |->
             IF u = call[c].user THEN [accounts[u] EXCEPT !.password = call[c].new]
             ELSE accounts[u]]
        /\ GoesTo(c, "answer")
     \/ UNCHANGED accounts /\ Ends(c)
  /\ UNCHANGED <<lastUser, taken, shown, lost>>

DeleteAuthUser(c) ==
  /\ call[c].step = "delete" /\ Ends(c)
  /\ accounts' \in {accounts, Restrict(accounts, DOMAIN accounts \ {call[c].user})}
  /\ UNCHANGED <<lastUser, taken, shown, lost>>

\* handleAuthEnable, past the check that there is no account: another enable may
\* come in between.
Enable(c) ==
  /\ call[c] = NoCall /\ accounts = <<>>
  /\ \E s \in Supplied : \E new \in Resolve(s) : Begin(c, "enable", "insert", 0, new)

\* InsertAuthUser; a name that is taken is an error.
InsertAuthUser(c) ==
  /\ call[c].step = "insert"
  /\ \/ \E n \in Names :
          /\ lastUser < MaxUsers /\ \A u \in DOMAIN accounts : accounts[u].name # n
          /\ lastUser' = lastUser + 1
          /\ accounts' = [u \in DOMAIN accounts \cup {lastUser + 1} |->
               IF u \in DOMAIN accounts THEN accounts[u]
               ELSE [name |-> n, password |-> call[c].new]]
          /\ call' = [call EXCEPT ![c].step = "session", ![c].user = lastUser + 1]
     \/ Ends(c) /\ UNCHANGED <<accounts, lastUser>>
  /\ UNCHANGED <<taken, shown, lost>>

\* issueSession: when it fails, the answer is an error, without the password.
IssueSession(c) ==
  /\ call[c].step = "session"
  /\ \/ GoesTo(c, "answer") /\ UNCHANGED lost
     \/ Ends(c) /\ lost' = lost \cup ({call[c].new} \cap Generated)
  /\ UNCHANGED <<accounts, lastUser, taken, shown>>

\* The answer shows a generated password; it may be lost.
Answer(c) ==
  /\ call[c].step = "answer" /\ Ends(c)
  /\ \/ shown' = shown \cup ({call[c].new} \cap Generated) /\ UNCHANGED lost
     \/ lost' = lost \cup ({call[c].new} \cap Generated) /\ UNCHANGED shown
  /\ UNCHANGED <<accounts, lastUser, taken>>

\* readSecret: asked twice at a terminal, and refused when the two differ.
ReadSecret == Supplied

\* `auth set-password`, with a name (GetAuthUserByName) or without one
\* (GetSoleAuthUser: the first account).  It asks for no current password.
SetPassword(c) ==
  /\ call[c] = NoCall
  /\ \E u \in DOMAIN accounts, s \in ReadSecret : \E new \in Resolve(s) :
       Begin(c, "set", "update", u, new)

\* `auth disable`, once confirmed: ClearAuthUsers.
DisableCommand ==
  /\ accounts # <<>> /\ accounts' = <<>>
  /\ UNCHANGED <<lastUser, call, taken, shown, lost>>

\* The daemon restarts, or the commands are stopped: what they wrote stays.
Stop ==
  /\ \E ops \in {{"set"}, {"change", "disable", "enable"}} :
       LET cut == {c \in Calls : call[c].op \in ops}
           answers == {call[c].new : c \in {c \in cut : call[c].step \in {"session", "answer"}}}
       IN  /\ cut # {}
           /\ call' = [c \in Calls |-> IF c \in cut THEN NoCall ELSE call[c]]
           /\ lost' = lost \cup (answers \cap Generated)
  /\ UNCHANGED <<accounts, lastUser, taken, shown>>

Next ==
  \/ \E c \in Calls :
       \/ ChangePassword(c) \/ Disable(c) \/ Enable(c) \/ SetPassword(c)
       \/ UpdateAuthPassword(c) \/ DeleteAuthUser(c) \/ InsertAuthUser(c)
       \/ IssueSession(c) \/ Answer(c)
  \/ DisableCommand \/ Stop

Spec == Init /\ [][Next]_vars
-----------------------------------------------------------------------------
\* Every variable has its type.
TypeOK ==
  /\ lastUser \in 0..MaxUsers /\ DOMAIN accounts \subseteq 1..lastUser
  /\ accounts \in [DOMAIN accounts -> [name : Names, password : Chosen \cup Generated]]
  /\ call \in [Calls -> [op : {"none", "change", "disable", "enable", "set"},
                        step : {"none", "update", "delete", "insert", "session", "answer"},
                        user : 0..MaxUsers, new : Chosen \cup Generated \cup {Empty}]]
  /\ taken \subseteq Generated /\ shown \cup lost \subseteq taken

\* "shown to the operator exactly once": no account has a password that nobody
\* knows.  Whatever requests, commands and failures come together, one that was
\* generated has been shown, or its answer is under way; the exceptions are answers
\* that were lost and, of an enable, the failure to issue the session.
PasswordsAreShown ==
  \A u \in DOMAIN accounts :
    LET p == accounts[u].password IN
    p \in Generated =>
      \/ p \in shown \cup lost
      \/ \E c \in Calls :
           call[c].step \in {"session", "answer"} /\ call[c].user = u /\ call[c].new = p
-----------------------------------------------------------------------------
\* The password that a call writes was accepted, or generated and so taken.
CallOK(c) ==
  /\ call[c].step \in {"update", "insert"} => call[c].new \in Chosen \cup Generated
  /\ call[c].step # "none" => {call[c].new} \cap Generated \subseteq taken

\* The inductive invariant behind PasswordsAreShown.
IInv == TypeOK /\ PasswordsAreShown /\ \A c \in Calls : CallOK(c)
=============================================================================
