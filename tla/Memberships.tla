---------------------------- MODULE Memberships ----------------------------
(***************************************************************************)
(* internal/api/memberships.go: the handlers that change the roster of a   *)
(* group, each from its lookup to the write inside its transaction.  The   *)
(* checks run outside the transaction, on rows read one query at a time,   *)
(* so every row they looked at may have changed when the write runs; only  *)
(* the unique key and the last-admin trigger look again.                   *)
(***************************************************************************)
EXTENDS Store

(* GetMembershipByID, then the checks that need only that row.  Accepting  *)
(* is for the invited user, once; it never looks at the group.             *)
AcceptCheck(c, m) ==
  IF m.user # c.user THEN "403"
  ELSE IF m.accepted THEN "409"
  ELSE "begin"

LoadInvitation(r) ==
  /\ At(r, "row", {"accept"}) /\ ConnFree
  /\ \/ MemberById(call[r].mid) = {} /\ Answer(r, "404")
     \/ \E m \in MemberById(call[r].mid) : Decide(r, AcceptCheck(call[r], m))

LoadMembership(r) ==
  /\ At(r, "row", {"promote", "demote", "remove"}) /\ ConnFree
  /\ \/ MemberById(call[r].mid) = {} /\ Answer(r, "404")
     \/ \E m \in MemberById(call[r].mid) :
          /\ seen' = [seen EXCEPT ![r].gid = m.group, ![r].role = m.role]
          /\ Goto(r, "group")
          /\ TablesUnchanged /\ UNCHANGED <<tx, call, reply>>

(* The early returns after the authorization context, in their order; the  *)
(* last value is the next step.                                            *)
InviteCheck(c, ac) ==
  IF ~CanInviteMembers(ac) THEN "403"
  ELSE IF ac.archived THEN "409"
  ELSE IF c.role = "admin" /\ ~ac.admin THEN "403"
  ELSE IF c.who \notin Users THEN "404"
  ELSE "begin"

PromoteCheck(role, ac) ==
  IF ~CanManageMembers(ac) THEN "403"
  ELSE IF ac.archived THEN "409"
  ELSE IF role = "admin" THEN "409"
  ELSE "begin"

DemoteCheck(role, ac) ==
  IF ~CanManageMembers(ac) THEN "403"
  ELSE IF ac.archived THEN "409"
  ELSE IF role = "member" THEN "409"
  ELSE "count"

RemoveCheck(role, ac) ==
  IF ~CanManageMembers(ac) THEN "403"
  ELSE IF ac.archived THEN "409"
  ELSE IF role = "admin" THEN "count"
  ELSE "begin"

AuthorizeInvite(r) ==
  /\ At(r, "member", {"invite"}) /\ ConnFree
  /\ Decide(r, InviteCheck(call[r], ContextOf(r)))

AuthorizePromote(r) ==
  /\ At(r, "member", {"promote"}) /\ ConnFree
  /\ Decide(r, PromoteCheck(seen[r].role, ContextOf(r)))

AuthorizeDemote(r) ==
  /\ At(r, "member", {"demote"}) /\ ConnFree
  /\ Decide(r, DemoteCheck(seen[r].role, ContextOf(r)))

AuthorizeRemove(r) ==
  /\ At(r, "member", {"remove"}) /\ ConnFree
  /\ Decide(r, RemoveCheck(seen[r].role, ContextOf(r)))

(* CountAdminsByGroup: refuse when no other admin would be left.  The row  *)
(* to demote is not asked whether it is one of the counted.                *)
CountAdmins(r) ==
  /\ At(r, "count", {"demote", "remove"}) /\ ConnFree
  /\ \/ AdminCount(seen[r].gid) <= 1 /\ Answer(r, "lastadmin")
     \/ AdminCount(seen[r].gid) > 1 /\ Proceed(r, "begin")

-----------------------------------------------------------------------------
(* The statements inside the transaction.  Each runs on the latest         *)
(* committed row, after waiting for a transaction that has written it.     *)

(* Mutant: the trigger's count without "id != OLD.id". *)
LastAdminTriggerCountingItself(old) ==
  /\ ActiveAdmin(old)
  /\ ~\E m \in members : m.group = old.group /\ ActiveAdmin(m)

(* prevent_last_admin_removal: stops a row from ceasing to be an active    *)
(* admin when the committed rows hold no other one of its group.           *)
LastAdminTrigger(old) ==
  /\ ActiveAdmin(old)
  /\ ~\E m \in members :
        m.group = old.group /\ ActiveAdmin(m) /\ m.id # old.id

(* CreateMembership: the identifier is drawn before the unique index is    *)
(* checked, so a refused INSERT uses one up too.                           *)
Invitation(c, id) ==
  [id |-> id, group |-> c.gid, user |-> c.who, role |-> c.role,
   accepted |-> FALSE, inviter |-> c.user]

(* Mutant: without the unique key, only a look at the committed rows.      *)
InsertInvitationUnkeyed(r) ==
  /\ At(r, "exec", {"invite"})
  /\ memberSeq' = memberSeq + 1
  /\ \/ /\ MembersOf(call[r].gid, call[r].who) # {}
        /\ End(r, "409") /\ UNCHANGED groupSeq
     \/ /\ MembersOf(call[r].gid, call[r].who) = {}
        /\ WriteMember(r, {}, {Invitation(call[r], memberSeq + 1)})

InsertInvitation(r) ==
  /\ At(r, "exec", {"invite"})
  /\ ~MemberKeyLocked(r, call[r].gid, call[r].who)
  /\ memberSeq' = memberSeq + 1
  /\ \/ /\ MembersOf(call[r].gid, call[r].who) # {}
        /\ End(r, "409") /\ UNCHANGED groupSeq
     \/ /\ MembersOf(call[r].gid, call[r].who) = {}
        /\ WriteMember(r, {}, {Invitation(call[r], memberSeq + 1)})

(* Mutant: promoting an invited user also accepts for them. *)
UpdatedAcceptingOnPromote(op, m) ==
  CASE op = "accept"  -> [m EXCEPT !.accepted = TRUE]
    [] op = "promote" -> [m EXCEPT !.role = "admin", !.accepted = TRUE]
    [] op = "demote"  -> [m EXCEPT !.role = "member"]

(* AcceptMembership and UpdateMembershipRole; an UPDATE of a row that is   *)
(* gone returns no row, which the handlers answer with 500.                *)
Updated(op, m) ==
  CASE op = "accept"  -> [m EXCEPT !.accepted = TRUE]
    [] op = "promote" -> [m EXCEPT !.role = "admin"]
    [] op = "demote"  -> [m EXCEPT !.role = "member"]

(* Mutant: a row written back as it was looked up, without an UPDATE that  *)
(* waits for the transaction that has written it.                          *)
UpdateMembershipUnlocked(r) ==
  /\ At(r, "exec", {"accept", "promote", "demote"})
  /\ \E m \in MemberById(call[r].mid) :
       WriteMember(r, {m}, {Updated(call[r].op, m)})
  /\ UNCHANGED memberSeq

UpdateMembership(r) ==
  /\ At(r, "exec", {"accept", "promote", "demote"})
  /\ ~MemberLocked(r, call[r].mid)
  /\ \/ MemberById(call[r].mid) = {} /\ Answer(r, "500")
     \/ \E m \in MemberById(call[r].mid) :
          \/ /\ call[r].op = "demote" /\ LastAdminTrigger(m)
             /\ Answer(r, "lastadmin")
          \/ /\ ~(call[r].op = "demote" /\ LastAdminTrigger(m))
             /\ WriteMember(r, {m}, {Updated(call[r].op, m)})
             /\ UNCHANGED memberSeq

(* DeleteMembership: deleting a row that is gone succeeds. *)
DeleteMembership(r) ==
  /\ At(r, "exec", {"remove"})
  /\ ~MemberLocked(r, call[r].mid)
  /\ \/ /\ MemberById(call[r].mid) = {}
        /\ WriteMember(r, {}, {}) /\ UNCHANGED memberSeq
     \/ \E m \in MemberById(call[r].mid) :
          \/ LastAdminTrigger(m) /\ Answer(r, "lastadmin")
          \/ /\ ~LastAdminTrigger(m)
             /\ WriteMember(r, {m}, {}) /\ UNCHANGED memberSeq

MembershipStep(r) ==
  \/ LoadInvitation(r) \/ LoadMembership(r)
  \/ AuthorizeInvite(r) \/ AuthorizePromote(r)
  \/ AuthorizeDemote(r) \/ AuthorizeRemove(r)
  \/ CountAdmins(r)
  \/ InsertInvitation(r) \/ UpdateMembership(r) \/ DeleteMembership(r)
=============================================================================
