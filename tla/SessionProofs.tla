--------------------------- MODULE SessionProofs ---------------------------
(***************************************************************************)
(* Theorems about Sessions, for any numbers of accounts, requests and      *)
(* tokens.                                                                 *)
(***************************************************************************)
EXTENDS Sessions, TLAPS

Steps == {"idle", "account", "issue", "store", "load", "expiry",
          "delete", "user", "act", "done"}

SweepType ==
  [at : {"wait", "range", "delete"}, left : SUBSET (1 .. issued),
   collected : SUBSET (1 .. lapsed)]

(* TypeOK without what it says of tokens and cookies: the store and the    *)
(* clean-up, the requests, and the operation a request is at a step of.    *)
StoreTyped ==
  /\ verified \subseteq Users /\ deactivated \subseteq Users
  /\ issued \in 0 .. MaxTokens /\ lapsed \in 0 .. issued
  /\ owner \in [1 .. MaxTokens -> Users \cup {NoUser}]
  /\ sweep \in SweepType

SlotTyped ==
  /\ pc \in [Slots -> Steps]
  /\ call \in [Slots -> CallType \cup {NoRequest}]
  /\ token \in [Slots -> 0 .. issued]
  /\ reply \in [Slots -> {"none", "ok", "401", "500"}]
  /\ dead \in [Slots -> BOOLEAN]

StepFits(r) ==
  /\ pc[r] = "account" => call[r].op = "login"
  /\ pc[r] \in {"load", "expiry"} => call[r].op \in TokenOps
  /\ pc[r] = "user" => call[r].op = "current"

Typed == StoreTyped /\ SlotTyped /\ \A r \in Slots : StepFits(r)

(* And what TypeOK says of them: the tokens on their way into the map are  *)
(* issued and pairwise different, and neither the map nor a cookie has one *)
(* of them.                                                                *)
Storing(q) == pc[q] = "store"

TokensApart ==
  /\ sessions \subseteq 1 .. issued
  /\ \A r \in Slots : call[r].cookie \in 0 .. issued
  /\ \A q \in Slots : Storing(q) =>
       /\ token[q] \in 1 .. issued
       /\ token[q] \notin sessions
       /\ \A r \in Slots : call[r].cookie # token[q]
       /\ \A r \in Slots \ {q} : Storing(r) => token[r] # token[q]

(* Together they are what TypeOK says. *)
LEMMA TypedImpliesTypeOK == Typed /\ TokensApart => TypeOK
BY DEF Typed, StoreTyped, SlotTyped, TokensApart, TypeOK, Known, Unanswered, Storing, Steps, SweepType

(* The step of the clean-up keeps its types. *)
LEMMA SweepTyped ==
  ASSUME Typed, TokensApart, SweepStep
  PROVE  /\ sweep' \in SweepType
         /\ sessions' \subseteq sessions
         /\ UNCHANGED <<accountVars, issued, owner, lapsed, slotVars>>
<1> USE SessionsAssumption DEF Typed, StoreTyped, TokensApart, SweepType, storeVars
<1>1. CASE Tick
  BY <1>1 DEF Tick, Waiting
<1>2. ASSUME NEW t \in 1 .. MaxTokens, Visit(t)
      PROVE  /\ sweep' \in SweepType
             /\ UNCHANGED <<accountVars, storeVars, slotVars>>
  <2>1. {u \in {t} : Expired(u)} \subseteq 1 .. lapsed
    BY DEF Expired
  <2> QED
    BY <1>2, <2>1 DEF Visit
<1>3. CASE EndRange
  BY <1>3 DEF EndRange
<1>4. ASSUME NEW t \in 1 .. MaxTokens, DeleteCollected(t)
      PROVE  /\ sweep' \in SweepType
             /\ sessions' \subseteq sessions
             /\ UNCHANGED <<accountVars, issued, owner, lapsed, slotVars>>
  BY <1>4 DEF DeleteCollected
<1>5. CASE Rest
  BY <1>5 DEF Rest, Waiting
<1> QED
  BY <1>1, <1>2, <1>3, <1>4, <1>5 DEF SweepStep

(* A request that is answered, goes on, or is done keeps its types. *)
LEMMA SlotStep ==
  ASSUME StoreTyped, SlotTyped, NEW r \in Slots, UNCHANGED issued,
         \/ \E code \in {"ok", "401", "500"} : Answer(r, code)
         \/ \E step \in Steps : Continue(r, step)
  PROVE  SlotTyped' /\ \A q \in Slots \ {r} : call'[q] = call[q]
<1> USE DEF SlotTyped, Goto
<1>1. ASSUME NEW code \in {"ok", "401", "500"}, Answer(r, code)
      PROVE  SlotTyped' /\ \A q \in Slots \ {r} : call'[q] = call[q]
  <2>1. 0 \in 0 .. issued
    BY SessionsAssumption DEF StoreTyped
  <2> QED
    BY <1>1, <2>1 DEF Answer, Steps
<1>2. ASSUME NEW step \in Steps, Continue(r, step)
      PROVE  SlotTyped' /\ \A q \in Slots \ {r} : call'[q] = call[q]
  BY <1>2 DEF Continue
<1> QED
  BY <1>1, <1>2
(* A call belongs to the operations, and its user to the accounts if it    *)
(* names one.                                                              *)
LEMMA CallTypes ==
  /\ \A c \in CallType : /\ c.op \in {"login"} \cup TokenOps
                         /\ c.op = "login" => c.user \in Users /\ c.cookie = 0
                         /\ c.user \in Users \cup {NoUser}
  /\ NoRequest.op = "none" /\ NoRequest.user = NoUser /\ NoRequest.cookie = 0
BY DEF CallType, TokenOps, NoRequest

(* Issuing a token widens the ranges the tokens are in. *)
LEMMA IssueStep ==
  ASSUME Typed, NEW r \in Slots, IssueSession(r)
  PROVE  Typed'
<1> USE SessionsAssumption
<1>1. /\ issued + 1 \in 1 .. MaxTokens /\ lapsed \in 0 .. issued + 1
      /\ \A t \in 0 .. issued : t \in 0 .. issued + 1
      /\ \A T \in SUBSET (1 .. issued) : T \in SUBSET (1 .. issued + 1)
  BY DEF IssueSession, Typed, StoreTyped
<1>2. sweep \in [at : {"wait", "range", "delete"}, left : SUBSET (1 .. issued + 1),
                 collected : SUBSET (1 .. lapsed)]
  BY <1>1 DEF SweepType, Typed, StoreTyped
<1>3. call[r].user \in Users \cup {NoUser}
  BY CallTypes DEF Typed, SlotTyped
<1>4. StoreTyped'
  BY <1>1, <1>2, <1>3 DEF IssueSession, Typed, StoreTyped, SweepType, accountVars
<1>5. SlotTyped'
  BY <1>1 DEF IssueSession, Typed, SlotTyped, Goto, Steps
<1>6. \A q \in Slots : StepFits(q)'
  BY DEF IssueSession, Typed, SlotTyped, StepFits, Goto
<1> QED
  BY <1>4, <1>5, <1>6 DEF Typed

(* Every step keeps the types of the variables. *)
LEMMA TypedStep == Typed /\ TokensApart /\ [Next]_sessionVars => Typed'
<1> SUFFICES ASSUME Typed, TokensApart, [Next]_sessionVars PROVE Typed'
    OBVIOUS
<1> USE DEF Typed, accountVars, storeVars, slotVars
<1>1. ASSUME StoreTyped', NEW r \in Slots, UNCHANGED issued,
             \/ \E code \in {"ok", "401", "500"} : Answer(r, code)
             \/ \E step \in Steps :
                  /\ Continue(r, step)
                  /\ step \notin {"account", "load"}
                  /\ step = "expiry" => call[r].op \in TokenOps
                  /\ step = "user" => call[r].op = "current"
      PROVE  Typed'
  <2>1. SlotTyped' /\ \A q \in Slots \ {r} : call'[q] = call[q]
    BY <1>1, SlotStep
  <2>2. \A q \in Slots : StepFits(q)'
    BY <1>1, <2>1 DEF StepFits, SlotTyped, Answer, Continue, Goto
  <2> QED
    BY <1>1, <2>1, <2>2
<1>2. UNCHANGED <<issued, lapsed, owner, sweep, accountVars>> => StoreTyped'
  BY DEF StoreTyped, SweepType
<1>3. CASE UNCHANGED sessionVars
  BY <1>3 DEF sessionVars, StoreTyped, SlotTyped, SweepType, StepFits
<1>4. ASSUME NEW r \in Slots, Receive(r) PROVE Typed'
  <2>1. PICK c \in CallType :
          /\ call' = [call EXCEPT ![r] = c]
          /\ dead' = [dead EXCEPT ![r] = DeadCall(c)]
          /\ pc' = [pc EXCEPT ![r] = IF c.op = "login" THEN "account" ELSE "load"]
    BY <1>4 DEF Receive, Goto
  <2>2. DeadCall(c) \in BOOLEAN
    BY DEF DeadCall
  <2>3. SlotTyped'
    BY <1>4, <2>1, <2>2 DEF Receive, SlotTyped, Steps
  <2>4. \A q \in Slots : StepFits(q)'
    BY <2>1, CallTypes DEF StepFits, SlotTyped
  <2> QED
    BY <1>2, <1>4, <2>3, <2>4 DEF Receive
<1>5. ASSUME NEW r \in Slots, LookUpAccount(r) PROVE Typed'
  BY <1>1, <1>2, <1>5 DEF LookUpAccount, Steps
<1>6. ASSUME NEW r \in Slots, IssueSession(r) PROVE Typed'
  BY <1>6, IssueStep
<1>7. ASSUME NEW r \in Slots, StoreSession(r) PROVE Typed'
  BY <1>1, <1>2, <1>7 DEF StoreSession
<1>8. ASSUME NEW r \in Slots, LoadSession(r) PROVE Typed'
  <2>1. call[r].op \in TokenOps
    BY <1>8 DEF LoadSession, StepFits
  <2> QED
    BY <1>1, <1>2, <1>8, <2>1 DEF LoadSession, Steps
<1>9. ASSUME NEW r \in Slots, CheckExpiry(r) PROVE Typed'
  <2>1. /\ AfterGet(call[r].op) \in {"delete", "user", "act"}
        /\ AfterGet(call[r].op) = "user" => call[r].op = "current"
    BY <1>9 DEF CheckExpiry, StepFits, AfterGet, TokenOps
  <2> QED
    BY <1>1, <1>2, <1>9, <2>1 DEF CheckExpiry, Steps
<1>10. ASSUME NEW r \in Slots, DeleteSession(r) PROVE Typed'
  BY <1>1, <1>2, <1>10 DEF DeleteSession
<1>11. ASSUME NEW r \in Slots, LookUpOwner(r) PROVE Typed'
  BY <1>1, <1>2, <1>11 DEF LookUpOwner
<1>12. ASSUME NEW r \in Slots, Act(r) \/ Fail(r) PROVE Typed'
  BY <1>1, <1>2, <1>12 DEF Act, Fail
<1>13. ASSUME NEW r \in Slots, Finish(r) PROVE Typed'
  <2>1. SlotTyped'
    BY <1>13 DEF Finish, SlotTyped, Goto, Steps
  <2>2. \A q \in Slots : StepFits(q)'
    BY <1>13 DEF Finish, StepFits, SlotTyped, Goto
  <2> QED
    BY <1>2, <1>13, <2>1, <2>2 DEF Finish
<1>14. CASE SweepStep
  <2>1. sweep' \in SweepType /\ UNCHANGED <<accountVars, issued, owner, lapsed, slotVars>>
    BY <1>14, SweepTyped
  <2> QED
    BY <2>1 DEF StoreTyped, SlotTyped, StepFits, SweepType
<1>15. CASE Lapse
  <2>1. lapsed + 1 \in 0 .. issued
    BY <1>15 DEF Lapse, StoreTyped
  <2>2. sweep \in [at : {"wait", "range", "delete"}, left : SUBSET (1 .. issued),
                   collected : SUBSET (1 .. lapsed + 1)]
    BY <2>1 DEF StoreTyped, SweepType
  <2> QED
    BY <1>15, <2>1, <2>2 DEF Lapse, StoreTyped, SlotTyped, StepFits, SweepType
<1>16. CASE Restart
  <2>1. sweep' \in SweepType'
    BY <1>16 DEF Restart, SweepType, Waiting
  <2> QED
    BY <1>16, <2>1, SessionsAssumption
       DEF Restart, StoreTyped, SlotTyped, StepFits, AllIdle, Steps
<1>17. ASSUME NEW u \in Users, UpdateUserEmailVerified(u) \/ DeactivateUser(u) PROVE Typed'
  BY <1>17 DEF UpdateUserEmailVerified, DeactivateUser, StoreTyped, SlotTyped, StepFits, SweepType
<1> QED
  BY <1>3, <1>4, <1>5, <1>6, <1>7, <1>8, <1>9, <1>10, <1>11, <1>12, <1>13, <1>14,
     <1>15, <1>16, <1>17 DEF Next, HandlerStep
-----------------------------------------------------------------------------
(* What a step may do to the tokens: nothing, but for a login's own token, *)
(* a cookie that comes in, and the restart.                                *)
LEMMA TokenStep ==
  ASSUME Typed, TokensApart, NEW r \in Slots, UNCHANGED issued,
         sessions' \subseteq sessions,
         pc[r] # "store", pc'[r] # "store",
         call'[r].cookie \in Known \cup {0} \/ call'[r] \in {call[r], NoRequest},
         \A q \in Slots \ {r} : /\ pc'[q] = pc[q]
                                /\ call'[q] = call[q]
                                /\ token'[q] = token[q]
  PROVE  TokensApart'
<1>1. \A q \in Slots : Storing(q)' => Storing(q) /\ q # r /\ token'[q] = token[q]
  BY DEF Storing
<1>2. \A q \in Slots : call'[q].cookie \in 0 .. issued
  BY SessionsAssumption, CallTypes DEF TokensApart, Known, Typed, StoreTyped
<1>3. \A q \in Slots : Storing(q) => call'[r].cookie # token[q]
  BY SessionsAssumption, CallTypes
     DEF TokensApart, Known, Unanswered, Storing, Typed, StoreTyped
<1> QED
  BY <1>1, <1>2, <1>3 DEF TokensApart

(* Every step keeps the tokens apart. *)
LEMMA TokensApartStep == Typed /\ TokensApart /\ [Next]_sessionVars => TokensApart'
<1> SUFFICES ASSUME Typed, TokensApart, [Next]_sessionVars PROVE TokensApart'
    OBVIOUS
<1> USE DEF accountVars, storeVars, slotVars, Goto, Answer, Continue
<1>1. CASE UNCHANGED <<issued, pc, call, token>> /\ sessions' \subseteq sessions
  BY <1>1 DEF TokensApart, Storing
<1>2. ASSUME NEW r \in Slots, Receive(r) PROVE TokensApart'
  <2>1. call'[r].cookie \in Known \cup {0} /\ pc'[r] # "store"
    BY <1>2 DEF Receive, Typed, SlotTyped
  <2> QED
    BY <1>2, <2>1, TokenStep DEF Receive, Typed, SlotTyped
<1>3. ASSUME NEW r \in Slots, LookUpAccount(r) PROVE TokensApart'
  BY <1>3, TokenStep DEF LookUpAccount, Typed, SlotTyped
<1>4. ASSUME NEW r \in Slots, IssueSession(r) PROVE TokensApart'
  <2>1. /\ issued' = issued + 1 /\ token'[r] = issued + 1
        /\ issued \in Nat
        /\ \A q \in Slots \ {r} : pc'[q] = pc[q] /\ token'[q] = token[q]
        /\ UNCHANGED <<sessions, call>>
    BY <1>4, SessionsAssumption DEF IssueSession, Typed, StoreTyped, SlotTyped
  <2> QED
    BY <2>1 DEF TokensApart, Storing
<1>5. ASSUME NEW r \in Slots, StoreSession(r) PROVE TokensApart'
  <2>1. /\ sessions' = sessions \cup {token[r]} /\ Storing(r) /\ pc'[r] = "done"
        /\ \A q \in Slots \ {r} : pc'[q] = pc[q] /\ token'[q] = token[q]
        /\ \A q \in Slots : call'[q] \in {call[q], NoRequest}
        /\ UNCHANGED issued
    BY <1>5 DEF StoreSession, Storing, Typed, SlotTyped
  <2>2. \A q \in Slots : call'[q].cookie \in {call[q].cookie, 0}
    BY <2>1, CallTypes
  <2>3. /\ sessions' \subseteq 1 .. issued
        /\ \A q \in Slots : call'[q].cookie \in 0 .. issued
    <3>1. issued \in Nat /\ 0 \in 0 .. issued
      BY SessionsAssumption DEF Typed, StoreTyped
    <3>2. \A q \in Slots : call'[q].cookie \in 0 .. issued
      BY <2>2, <3>1 DEF TokensApart
    <3>3. sessions' \subseteq 1 .. issued
      BY <2>1 DEF TokensApart
    <3> QED
      BY <3>2, <3>3
  <2>4. \A q \in Slots : Storing(q)' => Storing(q) /\ q # r /\ token'[q] = token[q]
    BY <2>1 DEF Storing
  <2>5. ASSUME NEW q \in Slots, Storing(q)
        PROVE  token[q] # 0 /\ \A p \in Slots : call'[p].cookie # token[q]
    BY <2>2, <2>5, SessionsAssumption DEF TokensApart, Typed, StoreTyped
  <2> QED
    BY <2>1, <2>3, <2>4, <2>5 DEF TokensApart
<1>6. ASSUME NEW r \in Slots, LoadSession(r) PROVE TokensApart'
  BY <1>6, TokenStep DEF LoadSession, Typed, SlotTyped
<1>7. ASSUME NEW r \in Slots, CheckExpiry(r) PROVE TokensApart'
  <2>1. AfterGet(call[r].op) \in {"delete", "user", "act"}
    BY <1>7 DEF CheckExpiry, Typed, StepFits, AfterGet, TokenOps
  <2> QED
    BY <1>7, <2>1, TokenStep DEF CheckExpiry, Typed, SlotTyped
<1>8. ASSUME NEW r \in Slots, DeleteSession(r) PROVE TokensApart'
  BY <1>8, TokenStep DEF DeleteSession, Typed, SlotTyped
<1>9. ASSUME NEW r \in Slots, LookUpOwner(r) PROVE TokensApart'
  BY <1>9, TokenStep DEF LookUpOwner, Typed, SlotTyped
<1>10. ASSUME NEW r \in Slots, Act(r) \/ Fail(r) PROVE TokensApart'
  BY <1>10, TokenStep DEF Act, Fail, Typed, SlotTyped
<1>11. ASSUME NEW r \in Slots, Finish(r) PROVE TokensApart'
  BY <1>11, TokenStep DEF Finish, Typed, SlotTyped
<1>12. CASE SweepStep
  BY <1>1, <1>12, SweepTyped
<1>13. CASE Restart
  <2>1. \A q \in Slots : ~Storing(q)' /\ call'[q].cookie = 0
    BY <1>13, CallTypes DEF Restart, Storing, AllIdle
  <2> QED
    BY <1>13, <2>1, SessionsAssumption DEF Restart, TokensApart, Typed, StoreTyped
<1> QED
  BY <1>1, <1>2, <1>3, <1>4, <1>5, <1>6, <1>7, <1>8, <1>9, <1>10, <1>11, <1>12,
     <1>13 DEF Next, HandlerStep, sessionVars, Lapse, UpdateUserEmailVerified, DeactivateUser

(* Every variable keeps its type; in particular no client ever holds a     *)
(* token before its session is in the map, and no two logins share one.    *)
THEOREM SessionTypes == Spec => []TypeOK
<1>1. Init => Typed /\ TokensApart
  BY SessionsAssumption, CallTypes
     DEF Init, Typed, StoreTyped, SlotTyped, StepFits, TokensApart, Storing, Steps,
         SweepType, Waiting, AllIdle
<1>2. Typed /\ TokensApart /\ [Next]_sessionVars => (Typed /\ TokensApart)'
  BY TypedStep, TokensApartStep
<1> QED
  BY <1>1, <1>2, TypedImpliesTypeOK, PTL DEF Spec
-----------------------------------------------------------------------------
(* What cannot be undone: accounts stay deactivated, the clock does not    *)
(* run back, a token keeps its owner, and only a login's own token comes   *)
(* into the map.                                                           *)
Onward ==
  /\ deactivated \subseteq deactivated'
  /\ \A t \in 0 .. issued : Expired(t) => Expired(t)'
  /\ issued <= issued'
  /\ \A t \in 1 .. issued : owner'[t] = owner[t]
  /\ \A t \in sessions' \ sessions : \E q \in Slots : Storing(q) /\ token[q] = t

(* Every step goes that way. *)
LEMMA StepsGoOnward == Typed /\ TokensApart /\ [Next]_sessionVars => Onward
<1> SUFFICES ASSUME Typed, TokensApart, [Next]_sessionVars PROVE Onward
    OBVIOUS
<1> USE SessionsAssumption DEF Typed, StoreTyped, Onward, Expired, accountVars, storeVars
<1>1. CASE UNCHANGED <<accountVars, issued, owner, lapsed>> /\ sessions' \subseteq sessions
  BY <1>1
<1>2. ASSUME NEW r \in Slots, IssueSession(r) PROVE Onward
  BY <1>2 DEF IssueSession
<1>3. ASSUME NEW r \in Slots, StoreSession(r) PROVE Onward
  BY <1>3 DEF StoreSession, Storing
<1>4. CASE Lapse
  BY <1>4 DEF Lapse
<1>5. CASE SweepStep
  BY <1>1, <1>5, SweepTyped
<1>6. ASSUME NEW u \in Users, UpdateUserEmailVerified(u) \/ DeactivateUser(u) PROVE Onward
  BY <1>6 DEF UpdateUserEmailVerified, DeactivateUser
<1> QED
  BY <1>1, <1>2, <1>3, <1>4, <1>5, <1>6
     DEF Next, HandlerStep, sessionVars, Receive, Finish, Fail, LookUpAccount, LoadSession,
         CheckExpiry, DeleteSession, LookUpOwner, Act, Restart

(* A dead call is stopped at the step its condition is looked at.          *)
DeadStopped(r) ==
  dead[r] =>
    /\ reply[r] # "ok" /\ pc[r] \notin {"issue", "store", "delete", "act"}
    /\ pc[r] \in {"account", "load"} => DeadCall(call[r])
    /\ pc[r] = "expiry" =>
         \/ Expired(call[r].cookie)
         \/ call[r].op = "current" /\ owner[call[r].cookie] \in deactivated
    /\ pc[r] = "user" => owner[call[r].cookie] \in deactivated

(* Behind the Load stands a token that was issued, and no answer is given  *)
(* before the end.                                                         *)
CookieHeld(r) ==
  /\ pc[r] \in {"expiry", "delete", "user", "act"} => call[r].cookie \in 1 .. issued
  /\ pc[r] # "done" => reply[r] = "none"

DeadInv ==
  /\ Typed /\ TokensApart
  /\ \A r \in Slots : CookieHeld(r) /\ DeadStopped(r)

(* What others do leaves a request's dead call stopped. *)
LEMMA OthersStep ==
  ASSUME DeadInv, Typed', Onward, NEW q \in Slots,
         pc'[q] = pc[q], call'[q] = call[q], reply'[q] = reply[q], dead'[q] = dead[q]
  PROVE  CookieHeld(q)' /\ DeadStopped(q)'
<1> USE SessionsAssumption
<1>1. CookieHeld(q)'
  BY DEF CookieHeld, DeadInv, Onward, Typed, StoreTyped
<1>2. ASSUME dead[q], pc[q] \in {"account", "load"} PROVE DeadCall(call[q])'
  <2>1. DeadCall(call[q]) /\ Typed /\ TokensApart
    BY <1>2 DEF DeadInv, DeadStopped
  <2>2. CASE call[q].op = "login"
    BY <2>1, <2>2 DEF DeadCall, Onward
  <2>3. CASE call[q].op # "login" /\ call[q].cookie \notin sessions
    BY <2>1, <2>3 DEF DeadCall, Onward, TokensApart
  <2>4. CASE call[q].op # "login" /\ call[q].cookie \in sessions
    <3>1. call[q].cookie \in 1 .. issued
      BY <2>1, <2>4 DEF TokensApart
    <3>2. /\ owner'[call[q].cookie] = owner[call[q].cookie]
          /\ Expired(call[q].cookie) => Expired(call[q].cookie)'
      BY <2>1, <3>1 DEF Onward, Typed, StoreTyped
    <3> QED
      BY <2>1, <2>4, <3>2 DEF DeadCall, Onward
  <2> QED
    BY <2>2, <2>3, <2>4
<1>3. ASSUME dead[q], pc[q] \in {"expiry", "user"}
      PROVE  /\ owner'[call[q].cookie] = owner[call[q].cookie]
             /\ Expired(call[q].cookie) => Expired(call[q].cookie)'
  BY <1>3 DEF DeadInv, CookieHeld, Onward, Typed, StoreTyped
<1> QED
  BY <1>1, <1>2, <1>3 DEF DeadStopped, DeadInv, Onward

(* Every step keeps the dead calls stopped. *)
LEMMA DeadStep == DeadInv /\ [Next]_sessionVars => DeadInv'
<1> SUFFICES ASSUME DeadInv, [Next]_sessionVars PROVE DeadInv'
    OBVIOUS
<1>1. Typed /\ TokensApart /\ Typed' /\ TokensApart' /\ Onward
  BY TypedStep, TokensApartStep, StepsGoOnward DEF DeadInv
<1> DEFINE Kept(q) == /\ pc'[q] = pc[q] /\ call'[q] = call[q]
                      /\ reply'[q] = reply[q] /\ dead'[q] = dead[q]
           Held(q) == CookieHeld(q)' /\ DeadStopped(q)'
<1>2. ASSUME NEW q \in Slots, Kept(q) PROVE Held(q)
  BY <1>1, <1>2, OthersStep
<1>3. ASSUME NEW r \in Slots, \A q \in Slots \ {r} : Kept(q), Held(r) PROVE DeadInv'
  BY <1>1, <1>2, <1>3 DEF DeadInv
<1> HIDE DEF Held
<1> USE DEF Goto, Answer, Continue
<1>4. CASE UNCHANGED slotVars
  BY <1>1, <1>2, <1>4 DEF DeadInv, slotVars, Held
<1>5. ASSUME NEW r \in Slots, Receive(r) PROVE DeadInv'
  <2>1. PICK c \in CallType :
          /\ call' = [call EXCEPT ![r] = c]
          /\ dead' = [dead EXCEPT ![r] = DeadCall(c)]
          /\ pc' = [pc EXCEPT ![r] = IF c.op = "login" THEN "account" ELSE "load"]
    BY <1>5 DEF Receive
  <2>2. Held(r)
    <3>1. /\ reply'[r] = "none" /\ pc'[r] \in {"account", "load"}
          /\ call'[r] = c /\ dead'[r] = DeadCall(c)
      BY <1>1, <1>5, <2>1 DEF Receive, DeadInv, CookieHeld, Typed, SlotTyped
    <3>2. DeadCall(call[r])' <=> DeadCall(c)
      BY <1>5, <3>1 DEF Receive, DeadCall, Expired, accountVars, storeVars
    <3> QED
      BY <3>1, <3>2 DEF Held, CookieHeld, DeadStopped
  <2> QED
    BY <1>1, <1>3, <1>5, <2>1, <2>2 DEF Receive, Typed, SlotTyped
<1>6. ASSUME NEW r \in Slots, LookUpAccount(r) PROVE DeadInv'
  <2>1. dead[r] => call[r].user \in deactivated \/ ~call[r].password
    BY <1>1, <1>6 DEF LookUpAccount, DeadInv, DeadStopped, DeadCall, Typed, StepFits
  <2>2. CASE Answer(r, "401")
    <3>1. Held(r)
      BY <1>1, <2>2 DEF Held, CookieHeld, DeadStopped, Typed, SlotTyped
    <3> QED
      BY <1>1, <1>3, <2>2, <3>1 DEF Typed, SlotTyped
  <2>3. CASE Continue(r, "issue") /\ call[r].user \notin deactivated /\ call[r].password
    <3>1. ~dead[r] /\ UNCHANGED <<dead, reply>> /\ reply[r] = "none" /\ pc'[r] = "issue"
      BY <1>1, <1>6, <2>1, <2>3
         DEF LookUpAccount, DeadInv, CookieHeld, Typed, SlotTyped
    <3>2. Held(r)
      BY <3>1 DEF Held, CookieHeld, DeadStopped
    <3> QED
      BY <1>1, <1>3, <2>3, <3>2 DEF Typed, SlotTyped
  <2> QED
    BY <1>6, <2>2, <2>3 DEF LookUpAccount
<1>7. ASSUME NEW r \in Slots, IssueSession(r) \/ StoreSession(r) PROVE DeadInv'
  <2>1. /\ ~dead[r] /\ UNCHANGED dead
        /\ pc'[r] \in {"store", "done"}
        /\ pc'[r] # "done" => reply'[r] = "none"
    <3>1. ~dead[r]
      BY <1>7 DEF IssueSession, StoreSession, DeadInv, DeadStopped
    <3>2. CASE IssueSession(r)
      <4>1. reply[r] = "none"
        BY <3>2 DEF IssueSession, DeadInv, CookieHeld
      <4>2. UNCHANGED <<dead, reply>> /\ pc'[r] = "store"
        BY <1>1, <3>2 DEF IssueSession, Typed, SlotTyped
      <4> QED
        BY <3>1, <4>1, <4>2
    <3>3. CASE StoreSession(r)
      <4>1. UNCHANGED dead /\ pc'[r] = "done"
        BY <1>1, <3>3 DEF StoreSession, Typed, SlotTyped
      <4> QED
        BY <3>1, <4>1
    <3> QED
      BY <1>7, <3>2, <3>3
  <2>2. Held(r)
    BY <2>1 DEF Held, CookieHeld, DeadStopped
  <2> QED
    BY <1>1, <1>3, <1>7, <2>2 DEF IssueSession, StoreSession, Typed, SlotTyped
<1>8. ASSUME NEW r \in Slots, LoadSession(r) PROVE DeadInv'
  <2>1. call[r].op # "login" /\ UNCHANGED <<accountVars, storeVars, dead>>
    BY <1>1, <1>8 DEF LoadSession, Typed, StepFits, TokenOps
  <2>2. CASE Answer(r, "401")
    <3>1. Held(r)
      BY <1>1, <2>2 DEF Held, CookieHeld, DeadStopped, Typed, SlotTyped
    <3> QED
      BY <1>1, <1>3, <2>2, <3>1 DEF Typed, SlotTyped
  <2>3. CASE Continue(r, "expiry") /\ call[r].cookie \in sessions
    <3>1. /\ pc'[r] = "expiry" /\ reply'[r] = "none"
          /\ call[r].cookie \in 1 .. issued
      BY <1>1, <1>8, <2>3 DEF LoadSession, DeadInv, CookieHeld, TokensApart, Typed, SlotTyped
    <3>2. dead[r] => \/ Expired(call[r].cookie)
                     \/ call[r].op = "current" /\ owner[call[r].cookie] \in deactivated
      BY <1>8, <2>1, <2>3 DEF LoadSession, DeadInv, DeadStopped, DeadCall
    <3>3. Held(r)
      BY <2>1, <2>3, <3>1, <3>2
         DEF Held, CookieHeld, DeadStopped, Expired, accountVars, storeVars
    <3> QED
      BY <1>1, <1>3, <2>3, <3>3 DEF Typed, SlotTyped
  <2> QED
    BY <1>8, <2>2, <2>3 DEF LoadSession
<1>9. ASSUME NEW r \in Slots, CheckExpiry(r) PROVE DeadInv'
  <2>1. CASE Answer(r, "401")
    <3>1. Held(r)
      BY <1>1, <2>1 DEF Held, CookieHeld, DeadStopped, Typed, SlotTyped
    <3> QED
      BY <1>1, <1>3, <2>1, <3>1 DEF Typed, SlotTyped
  <2>2. CASE ~Expired(call[r].cookie) /\ Continue(r, AfterGet(call[r].op))
    <3>1. /\ dead[r] => call[r].op = "current" /\ owner[call[r].cookie] \in deactivated
          /\ call[r].cookie \in 1 .. issued
          /\ reply[r] = "none"
      BY <1>9, <2>2 DEF CheckExpiry, DeadInv, DeadStopped, CookieHeld
    <3>2. /\ AfterGet(call[r].op) \in {"delete", "user", "act"}
          /\ call[r].op = "current" => AfterGet(call[r].op) = "user"
      BY <1>1, <1>9 DEF CheckExpiry, Typed, StepFits, AfterGet, TokenOps
    <3>3. /\ pc'[r] = AfterGet(call[r].op)
          /\ UNCHANGED <<reply, dead, call, owner, issued, deactivated>>
      BY <1>1, <1>9, <2>2 DEF CheckExpiry, Typed, SlotTyped, accountVars
    <3>4. Held(r)
      BY <3>1, <3>2, <3>3 DEF Held, CookieHeld, DeadStopped
    <3> QED
      BY <1>1, <1>3, <2>2, <3>4 DEF Typed, SlotTyped
  <2> QED
    BY <1>9, <2>1, <2>2 DEF CheckExpiry
<1>10. ASSUME NEW r \in Slots, LookUpOwner(r) PROVE DeadInv'
  <2>1. /\ pc'[r] = "done" /\ UNCHANGED dead
        /\ dead[r] => reply'[r] # "ok"
    BY <1>1, <1>10 DEF LookUpOwner, DeadInv, DeadStopped, Typed, SlotTyped
  <2>2. Held(r)
    BY <2>1 DEF Held, CookieHeld, DeadStopped
  <2> QED
    BY <1>1, <1>3, <1>10, <2>2 DEF LookUpOwner, Typed, SlotTyped
<1>11. ASSUME NEW r \in Slots, DeleteSession(r) \/ Act(r) \/ Fail(r) PROVE DeadInv'
  <2>1. /\ pc'[r] = "done" /\ UNCHANGED dead
        /\ dead[r] => reply'[r] # "ok"
    BY <1>1, <1>11
       DEF DeleteSession, Act, Fail, DeadInv, DeadStopped, Typed, SlotTyped
  <2>2. Held(r)
    BY <2>1 DEF Held, CookieHeld, DeadStopped
  <2> QED
    BY <1>1, <1>3, <1>11, <2>2 DEF DeleteSession, Act, Fail, Typed, SlotTyped
<1>12. ASSUME NEW r \in Slots, Finish(r) PROVE DeadInv'
  <2>1. pc'[r] = "idle" /\ reply'[r] = "none" /\ ~dead'[r]
    BY <1>1, <1>12 DEF Finish, Typed, SlotTyped
  <2>2. Held(r)
    BY <2>1 DEF Held, CookieHeld, DeadStopped
  <2> QED
    BY <1>1, <1>3, <1>12, <2>2 DEF Finish, Typed, SlotTyped
<1>13. CASE Restart
  BY <1>1, <1>13 DEF Restart, DeadInv, CookieHeld, DeadStopped, AllIdle
<1>14. ASSUME SweepStep PROVE DeadInv'
  BY <1>1, <1>4, <1>14, SweepTyped
<1> QED
  BY <1>4, <1>5, <1>6, <1>7, <1>8, <1>9, <1>10, <1>11, <1>12, <1>13, <1>14
     DEF Next, HandlerStep, sessionVars, Lapse, UpdateUserEmailVerified, DeactivateUser

(* A call that could not succeed when it came in never does, whatever      *)
(* races it: no ended session acts and no deactivated account logs in.     *)
THEOREM DeadCallsStayDead == Spec => []DeadOnArrival
<1>1. Init => DeadInv
  BY SessionsAssumption, CallTypes
     DEF Init, DeadInv, CookieHeld, DeadStopped, Typed, StoreTyped, SlotTyped, StepFits,
         TokensApart, Storing, Steps, SweepType, Waiting, AllIdle
<1>2. DeadInv => DeadOnArrival
  BY DEF DeadInv, DeadStopped, DeadOnArrival
<1> QED
  BY <1>1, <1>2, DeadStep, PTL DEF Spec
-----------------------------------------------------------------------------
(* Every step that takes a session out of the map has a cause for it.      *)
Cause(t) ==
  \/ Expired(t)
  \/ owner[t] \in deactivated
  \/ \E r \in Slots : pc[r] = "delete" /\ call[r].cookie = t
  \/ pc' = AllIdle /\ sweep' = Waiting

(* What the clean-up deletes it collected when it had expired.             *)
LEMMA SweepHasCause ==
  ASSUME Typed, SweepStep, NEW t \in sessions \ sessions'
  PROVE  Expired(t)
<1>1. PICK u \in 1 .. MaxTokens : Visit(u) \/ DeleteCollected(u)
  BY DEF SweepStep, Tick, EndRange, Rest, storeVars
<1>2. DeleteCollected(u) /\ t = u
  BY <1>1 DEF Visit, DeleteCollected, storeVars
<1>3. t \in 1 .. lapsed
  BY <1>2 DEF DeleteCollected, Typed, StoreTyped, SweepType
<1> QED
  BY <1>3 DEF Expired

(* A request deletes the session of its cookie, for one of three reasons.  *)
LEMMA HandlerHasCause ==
  ASSUME NEW r \in Slots,
         Receive(r) \/ HandlerStep(r) \/ Fail(r) \/ Finish(r),
         NEW t \in sessions \ sessions'
  PROVE  Cause(t)
<1>1. CheckExpiry(r) \/ DeleteSession(r) \/ LookUpOwner(r)
  BY DEF HandlerStep, Receive, Fail, Finish, LookUpAccount, IssueSession,
         StoreSession, LoadSession, Act, storeVars
<1>2. CASE CheckExpiry(r)
  BY <1>2 DEF CheckExpiry, Cause
<1>3. CASE DeleteSession(r)
  BY <1>3 DEF DeleteSession, Cause
<1>4. CASE LookUpOwner(r)
  BY <1>4 DEF LookUpOwner, Cause
<1> QED
  BY <1>1, <1>2, <1>3, <1>4

(* Whoever is logged in stays so until the session expires, is logged out, *)
(* belongs to a deactivated account or the server restarts: no clean-up    *)
(* and no other request ends it, however they interleave.                  *)
THEOREM SessionsKept == Spec => SessionsEndForCause
<1>1. Init => Typed /\ TokensApart
  BY SessionsAssumption, CallTypes
     DEF Init, Typed, StoreTyped, SlotTyped, StepFits, TokensApart, Storing, Steps,
         SweepType, Waiting, AllIdle
<1>2. Typed /\ TokensApart /\ [Next]_sessionVars => (Typed /\ TokensApart)'
  BY TypedStep, TokensApartStep
<1>3. ASSUME Typed, Next, NEW t \in sessions \ sessions'
      PROVE  Cause(t)
  <2>1. CASE SweepStep
    BY <1>3, <2>1, SweepHasCause DEF Cause
  <2>2. ASSUME NEW r \in Slots,
               Receive(r) \/ HandlerStep(r) \/ Fail(r) \/ Finish(r)
        PROVE  Cause(t)
    BY <1>3, <2>2, HandlerHasCause
  <2>3. CASE Restart
    BY <2>3 DEF Restart, Cause
  <2>4. ~(Lapse \/ \E u \in Users : UpdateUserEmailVerified(u) \/ DeactivateUser(u))
    BY <1>3 DEF Lapse, UpdateUserEmailVerified, DeactivateUser, storeVars
  <2> QED
    BY <1>3, <2>1, <2>2, <2>3, <2>4 DEF Next
<1>4. Typed /\ [Next]_sessionVars =>
        [\A t \in sessions \ sessions' :
           \/ Expired(t)
           \/ owner[t] \in deactivated
           \/ \E r \in Slots : pc[r] = "delete" /\ call[r].cookie = t
           \/ pc' = AllIdle /\ sweep' = Waiting]_sessionVars
  BY <1>3 DEF Cause
<1> QED
  BY <1>1, <1>2, <1>4, PTL DEF Spec, SessionsEndForCause
=============================================================================
