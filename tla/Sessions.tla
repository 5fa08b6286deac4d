------------------------------ MODULE Sessions ------------------------------
(***************************************************************************)
(* internal/auth/session.go, the handlers of internal/api/auth.go that use *)
(* it (login, logout, the session end point) and the clean-up goroutine of *)
(* cmd/server/main.go.  The store is a sync.Map: each Load, Store and      *)
(* Delete is atomic, what is done with their results is not, and Range is  *)
(* no snapshot.                                                            *)
(*                                                                         *)
(* A token is the number of its session in the order they were created.    *)
(* All sessions live equally long, so they expire in that order, and one   *)
(* number, lapsed, tells how far the clock has come.                       *)
(***************************************************************************)
EXTENDS Integers

CONSTANTS
  Users,       \* the registered accounts
  NoUser,      \* no account
  Slots,       \* slots for requests in flight
  MaxTokens    \* bound: sessions created in a behaviour

ASSUME SessionsAssumption ==
  NoUser \notin Users /\ MaxTokens \in Nat

VARIABLES
  verified,      \* accounts with email_verified
  deactivated,   \* accounts with deactivated_at
  issued,        \* the last token generated
  owner,         \* Session.UserID of each token
  lapsed,        \* the last token whose ExpiresAt has passed
  sessions,      \* the tokens in the map
  sweep,         \* the clean-up goroutine
  pc, call,      \* each request's next step and input
  token,         \* the session a login has created and not stored yet
  reply,         \* its answer
  dead           \* history: the call could not succeed when it came in

accountVars == <<verified, deactivated>>
storeVars   == <<issued, owner, lapsed, sessions>>
slotVars    == <<pc, call, token, reply, dead>>
sessionVars == <<accountVars, storeVars, sweep, slotVars>>

TokenOps == {"logout", "current", "act"}

(* A login names an account and a password, right or wrong (an e-mail that *)
(* no account has is refused like a wrong password); every other call      *)
(* carries a cookie, 0 for none.                                           *)
CallType ==
  [op : {"login"}, user : Users, password : BOOLEAN, cookie : {0}]
    \cup [op : TokenOps, user : {NoUser}, password : {TRUE},
       cookie : 0 .. MaxTokens]

NoRequest == [op |-> "none", user |-> NoUser, password |-> TRUE, cookie |-> 0]

Expired(t) == t <= lapsed          \* Session.IsExpired

Waiting == [at |-> "wait", left |-> {}, collected |-> {}]

-----------------------------------------------------------------------------
Goto(r, step) == pc' = [pc EXCEPT ![r] = step]

Answer(r, code) ==
  /\ Goto(r, "done")
  /\ reply' = [reply EXCEPT ![r] = code]
  /\ call'  = [call EXCEPT ![r] = NoRequest]
  /\ token' = [token EXCEPT ![r] = 0]
  /\ UNCHANGED dead

Continue(r, step) == Goto(r, step) /\ UNCHANGED <<call, token, reply, dead>>

(* A client knows a token from the answer of its login on.                 *)
Unanswered == {token[q] : q \in {q \in Slots : pc[q] = "store"}}
Known      == (1 .. issued) \ Unanswered

(* What is certain to be refused: a deactivated account or a wrong         *)
(* password; a cookie whose session has ended or expired; for the session  *)
(* end point also one of a deactivated account.                            *)
DeadCall(c) ==
  IF c.op = "login" THEN c.user \in deactivated \/ ~c.password
  ELSE \/ c.cookie \notin sessions \/ Expired(c.cookie)
       \/ c.op = "current" /\ owner[c.cookie] \in deactivated

Receive(r) ==
  /\ pc[r] = "idle"
  /\ \E c \in CallType :
       /\ c.cookie \in Known \cup {0}
       /\ call' = [call EXCEPT ![r] = c]
       /\ dead' = [dead EXCEPT ![r] = DeadCall(c)]
       /\ Goto(r, IF c.op = "login" THEN "account" ELSE "load")
  /\ UNCHANGED <<accountVars, storeVars, sweep, token, reply>>

Finish(r) ==
  /\ pc[r] = "done"
  /\ Goto(r, "idle")
  /\ reply' = [reply EXCEPT ![r] = "none"]
  /\ dead'  = [dead EXCEPT ![r] = FALSE]
  /\ UNCHANGED <<accountVars, storeVars, sweep, call, token>>

-----------------------------------------------------------------------------
(* handleLogin: GetUserByEmail, then every condition on the row it read,   *)
(* with one answer for all of them.  Hashing the password takes its time   *)
(* before the session is created; nothing is read again.                   *)
LookUpAccount(r) ==
  /\ pc[r] = "account"
  /\ IF /\ call[r].user \in verified \ deactivated
        /\ call[r].password
     THEN Continue(r, "issue")
     ELSE Answer(r, "401")
  /\ UNCHANGED <<accountVars, storeVars, sweep>>

(* SessionStore.Create: a fresh token and its expiry, then the Store.      *)
IssueSession(r) ==
  /\ pc[r] = "issue" /\ issued < MaxTokens
  /\ issued' = issued + 1
  /\ owner' = [owner EXCEPT ![issued + 1] = call[r].user]
  /\ token' = [token EXCEPT ![r] = issued + 1]
  /\ Goto(r, "store")
  /\ UNCHANGED <<accountVars, lapsed, sessions, sweep, call, reply, dead>>

StoreSession(r) ==
  /\ pc[r] = "store"
  /\ sessions' = sessions \cup {token[r]}
  /\ Answer(r, "ok")
  /\ UNCHANGED <<accountVars, issued, owner, lapsed, sweep>>

-----------------------------------------------------------------------------
(* SessionStore.Get, with which every other handler begins: the Load, and  *)
(* later the look at the clock, which removes an expired session.          *)
LoadSession(r) ==
  /\ pc[r] = "load"
  /\ IF call[r].cookie \in sessions
     THEN Continue(r, "expiry")
     ELSE Answer(r, "401")
  /\ UNCHANGED <<accountVars, storeVars, sweep>>

AfterGet(op) ==
  CASE op = "logout"  -> "delete"
    [] op = "current" -> "user"
    [] op = "act"     -> "act"

(* Mutant: a Get that leaves expired sessions to the clean-up.             *)
CheckExpiryLeftToSweep(r) ==
  /\ pc[r] = "expiry"
  /\ Continue(r, AfterGet(call[r].op))
  /\ UNCHANGED <<accountVars, storeVars, sweep>>

CheckExpiry(r) ==
  /\ pc[r] = "expiry"
  /\ \/ /\ Expired(call[r].cookie)
        /\ sessions' = sessions \ {call[r].cookie}
        /\ Answer(r, "401")
     \/ /\ ~Expired(call[r].cookie)
        /\ UNCHANGED sessions
        /\ Continue(r, AfterGet(call[r].op))
  /\ UNCHANGED <<accountVars, issued, owner, lapsed, sweep>>

(* handleLogout. *)
DeleteSession(r) ==
  /\ pc[r] = "delete"
  /\ sessions' = sessions \ {call[r].cookie}
  /\ Answer(r, "ok")
  /\ UNCHANGED <<accountVars, issued, owner, lapsed, sweep>>

(* handleGetCurrentSession: GetUserByID.  An account is deactivated but    *)
(* never deleted, so the row is always found.                              *)
LookUpOwner(r) ==
  /\ pc[r] = "user"
  /\ \/ /\ owner[call[r].cookie] \in deactivated
        /\ sessions' = sessions \ {call[r].cookie}
        /\ Answer(r, "401")
     \/ /\ owner[call[r].cookie] \notin deactivated
        /\ UNCHANGED sessions
        /\ Answer(r, "ok")
  /\ UNCHANGED <<accountVars, issued, owner, lapsed, sweep>>

(* Any handler of groups or memberships: it goes on in the name of the     *)
(* session's user and looks neither at the session nor the account again.  *)
Act(r) ==
  /\ pc[r] = "act"
  /\ Answer(r, "ok")
  /\ UNCHANGED <<accountVars, storeVars, sweep>>

(* A query fails, or the random numbers for a token. *)
Fail(r) ==
  /\ pc[r] \in {"account", "issue", "user", "act"}
  /\ Answer(r, "500")
  /\ UNCHANGED <<accountVars, storeVars, sweep>>

-----------------------------------------------------------------------------
(* startSessionCleanup and CleanupExpired: on a tick, Range collects the   *)
(* expired tokens, then they are deleted one by one.  Range misses no key  *)
(* that is there throughout (left are those of them it still has to        *)
(* visit); one that is stored or deleted meanwhile it may visit or not.    *)
Tick ==
  /\ sweep.at = "wait"
  /\ sweep' = [Waiting EXCEPT !.at = "range", !.left = sessions]
  /\ UNCHANGED <<accountVars, storeVars, slotVars>>

(* Mutant: every session visited is collected. *)
VisitCollectingAll(t) ==
  /\ sweep.at = "range" /\ t \in sessions \cup sweep.left
  /\ sweep' = [sweep EXCEPT !.left = @ \ {t}, !.collected = @ \cup {t}]
  /\ UNCHANGED <<accountVars, storeVars, slotVars>>

Visit(t) ==
  /\ sweep.at = "range" /\ t \in sessions \cup sweep.left
  /\ sweep' = [sweep EXCEPT !.left = @ \ {t},
                            !.collected = @ \cup {u \in {t} : Expired(u)}]
  /\ UNCHANGED <<accountVars, storeVars, slotVars>>

EndRange ==
  /\ sweep.at = "range" /\ sweep.left \cap sessions = {}
  /\ sweep' = [sweep EXCEPT !.at = "delete", !.left = {}]
  /\ UNCHANGED <<accountVars, storeVars, slotVars>>

(* Mutant: the collected tokens are counted and not deleted. *)
DeleteCollectedCountingOnly(t) ==
  /\ sweep.at = "delete" /\ t \in sweep.collected
  /\ sweep' = [sweep EXCEPT !.collected = @ \ {t}]
  /\ UNCHANGED <<accountVars, storeVars, slotVars>>

DeleteCollected(t) ==
  /\ sweep.at = "delete" /\ t \in sweep.collected
  /\ sessions' = sessions \ {t}
  /\ sweep' = [sweep EXCEPT !.collected = @ \ {t}]
  /\ UNCHANGED <<accountVars, issued, owner, lapsed, slotVars>>

Rest ==
  /\ sweep.at = "delete" /\ sweep.collected = {}
  /\ sweep' = Waiting
  /\ UNCHANGED <<accountVars, storeVars, slotVars>>

SweepStep ==
  \/ Tick \/ EndRange \/ Rest
  \/ \E t \in 1 .. MaxTokens : Visit(t) \/ DeleteCollected(t)

-----------------------------------------------------------------------------
(* The clock; the two statements on accounts, which no handler issues but  *)
(* whoever runs the server may; a restart, which forgets all sessions and  *)
(* breaks off what is in flight.                                           *)
Lapse ==
  /\ lapsed < issued
  /\ lapsed' = lapsed + 1
  /\ UNCHANGED <<accountVars, issued, owner, sessions, sweep, slotVars>>

UpdateUserEmailVerified(u) ==
  /\ verified' \in {verified \cup {u}, verified \ {u}}
  /\ UNCHANGED <<deactivated, storeVars, sweep, slotVars>>

DeactivateUser(u) ==
  /\ deactivated' = deactivated \cup {u}
  /\ UNCHANGED <<verified, storeVars, sweep, slotVars>>

AllIdle == [r \in Slots |-> "idle"]

Restart ==
  /\ sessions' = {}
  /\ sweep' = Waiting
  /\ pc'    = AllIdle
  /\ call'  = [r \in Slots |-> NoRequest]
  /\ token' = [r \in Slots |-> 0]
  /\ reply' = [r \in Slots |-> "none"]
  /\ dead'  = [r \in Slots |-> FALSE]
  /\ UNCHANGED <<accountVars, issued, owner, lapsed>>

-----------------------------------------------------------------------------
Init ==
  /\ verified \in SUBSET Users /\ deactivated = {}
  /\ issued = 0 /\ lapsed = 0 /\ sessions = {}
  /\ owner = [t \in 1 .. MaxTokens |-> NoUser]
  /\ sweep = Waiting
  /\ pc    = AllIdle
  /\ call  = [r \in Slots |-> NoRequest]
  /\ token = [r \in Slots |-> 0]
  /\ reply = [r \in Slots |-> "none"]
  /\ dead  = [r \in Slots |-> FALSE]

HandlerStep(r) ==
  \/ LookUpAccount(r) \/ IssueSession(r) \/ StoreSession(r)
  \/ LoadSession(r) \/ CheckExpiry(r)
  \/ DeleteSession(r) \/ LookUpOwner(r) \/ Act(r)

Next ==
  \/ \E r \in Slots : Receive(r) \/ HandlerStep(r) \/ Fail(r) \/ Finish(r)
  \/ SweepStep
  \/ Lapse \/ Restart
  \/ \E u \in Users : UpdateUserEmailVerified(u) \/ DeactivateUser(u)

Spec == Init /\ [][Next]_sessionVars

(* The ticker fires again and again, and the goroutine keeps running.      *)
FairSpec == Spec /\ WF_sessionVars(SweepStep)

-----------------------------------------------------------------------------
(* Types.  What the clean-up has collected has expired; a token on its way *)
(* into the map is in no cookie yet.                                       *)
TypeOK ==
  /\ verified \subseteq Users /\ deactivated \subseteq Users
  /\ issued \in 0 .. MaxTokens /\ lapsed \in 0 .. issued
  /\ owner \in [1 .. MaxTokens -> Users \cup {NoUser}]
  /\ sessions \subseteq Known
  /\ sweep \in [at : {"wait", "range", "delete"}, left : SUBSET (1 .. issued),
                collected : SUBSET (1 .. lapsed)]
  /\ pc \in [Slots -> {"idle", "account", "issue", "store", "load", "expiry",
                       "delete", "user", "act", "done"}]
  /\ call \in [Slots -> CallType \cup {NoRequest}]
  /\ token \in [Slots -> 0 .. issued]
  /\ reply \in [Slots -> {"none", "ok", "401", "500"}]
  /\ dead \in [Slots -> BOOLEAN]
  /\ \A r \in Slots : call[r].cookie \in Known \cup {0}

(* A call that could not succeed when it came in never does: no race       *)
(* between Get, logout, expiry, deactivation and the clean-up lets an      *)
(* ended session act, or a deactivated account log in.                     *)
DeadOnArrival ==
  \A r \in Slots :
    dead[r] => reply[r] # "ok" /\ pc[r] \notin {"issue", "store", "delete", "act"}

(* Who is logged in stays so: a session ends only by its own expiry, its   *)
(* own logout, the end point finding its account deactivated, or a restart *)
(* - never by another user's logout, or by a clean-up that raced with it.  *)
SessionsEndForCause ==
  [][\A t \in sessions \ sessions' :
       \/ Expired(t)
       \/ owner[t] \in deactivated
       \/ \E r \in Slots : pc[r] = "delete" /\ call[r].cookie = t
       \/ pc' = AllIdle /\ sweep' = Waiting]_sessionVars

(* An expired session does not stay in memory, whatever Range misses while *)
(* others log in and out.                                                  *)
ExpiredSessionsSwept ==
  \A t \in 1 .. MaxTokens : (t \in sessions /\ Expired(t)) ~> (t \notin sessions)
=============================================================================
