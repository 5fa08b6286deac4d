------------------------------- MODULE Groups -------------------------------
(***************************************************************************)
(* internal/api/groups.go: the handlers that create groups and subgroups,  *)
(* change their settings, archive and restore them.  As in Memberships the *)
(* checks and the probing for a free handle run before the transaction.    *)
(***************************************************************************)
EXTENDS Store

(* The early returns after the authorization context, in their order.      *)
SubgroupCheck(ac) ==
  IF ~CanCreateSubgroups(ac) THEN "403"
  ELSE IF ac.archived THEN "409"
  ELSE "name"

(* Mutant: settings that any member may change. *)
UpdateCheckForMembers(c, ac) ==
  IF ~ac.member THEN "403"
  ELSE IF ac.archived THEN "409"
  ELSE IF ~c.valid THEN "422"
  ELSE "begin"

UpdateCheck(c, ac) ==
  IF ~CanUpdateGroup(ac) THEN "403"
  ELSE IF ac.archived THEN "409"
  ELSE IF ~c.valid THEN "422"
  ELSE "begin"

(* Archiving an archived group, or restoring one that is not, is allowed.  *)
ArchiveCheck(ac) == IF ~CanArchiveGroup(ac) THEN "403" ELSE "begin"

AuthorizeSubgroup(r) ==
  /\ At(r, "member", {"subgroup"}) /\ ConnFree
  /\ Decide(r, SubgroupCheck(ContextOf(r)))

AuthorizeUpdate(r) ==
  /\ At(r, "member", {"update"}) /\ ConnFree
  /\ Decide(r, UpdateCheck(call[r], ContextOf(r)))

AuthorizeArchive(r) ==
  /\ At(r, "member", {"archive", "unarchive"}) /\ ConnFree
  /\ Decide(r, ArchiveCheck(ContextOf(r)))

(* The name and the handle of a new group: refused, taken as given, or to  *)
(* be generated from the name.                                             *)
ValidateName(r) ==
  /\ At(r, "name", {"create", "subgroup"})
  /\ \/ ~call[r].valid /\ Answer(r, "422")
     \/ call[r].valid /\ call[r].handle = NoHandle /\ Proceed(r, "probe")
     \/ /\ call[r].valid /\ call[r].handle # NoHandle
        /\ seen' = [seen EXCEPT ![r].handle = call[r].handle]
        /\ Goto(r, "begin")
        /\ TablesUnchanged /\ UNCHANGED <<tx, call, reply>>

(* GenerateUniqueHandle: one HandleExists query per candidate, the base    *)
(* first, then its suffixes in order until one is free or none is left.    *)
Taken(h) == \E g \in groups : g.handle = h

(* Mutant: a search that gives up before the last suffix. *)
ProbeHandleShort(r) ==
  /\ At(r, "probe", {"create", "subgroup"}) /\ ConnFree
  /\ \/ ~Taken(seen[r].handle) /\ Proceed(r, "begin")
     \/ /\ Taken(seen[r].handle) /\ seen[r].handle + 1 < MaxSuffix
        /\ seen' = [seen EXCEPT ![r].handle = @ + 1]
        /\ TablesUnchanged /\ UNCHANGED <<tx, pc, call, reply>>
     \/ /\ Taken(seen[r].handle) /\ seen[r].handle + 1 >= MaxSuffix
        /\ Answer(r, "422")

ProbeHandle(r) ==
  /\ At(r, "probe", {"create", "subgroup"}) /\ ConnFree
  /\ \/ ~Taken(seen[r].handle) /\ Proceed(r, "begin")
     \/ /\ Taken(seen[r].handle) /\ seen[r].handle < MaxSuffix
        /\ seen' = [seen EXCEPT ![r].handle = @ + 1]
        /\ TablesUnchanged /\ UNCHANGED <<tx, pc, call, reply>>
     \/ /\ Taken(seen[r].handle) /\ seen[r].handle >= MaxSuffix
        /\ Answer(r, "422")

-----------------------------------------------------------------------------
(* The statements inside the transaction.                                  *)

(* Mutant: an inherited flag that is off is passed on as NULL, so that the *)
(* COALESCE puts the default in its place.                                 *)
NewGroupOffAsNull(r, id) ==
  [id |-> id, handle |-> seen[r].handle, archived |-> FALSE,
   parent |-> IF call[r].op = "subgroup" THEN call[r].gid ELSE 0,
   flags  |-> IF call[r].op = "subgroup" /\ call[r].inherit
              THEN seen[r].flags \cup DefaultFlags ELSE DefaultFlags]

(* CreateGroup: a subgroup that inherits takes the flags its parent had    *)
(* when the caller was authorized, any other group the defaults.           *)
NewGroup(r, id) ==
  [id |-> id, handle |-> seen[r].handle, archived |-> FALSE,
   parent |-> IF call[r].op = "subgroup" THEN call[r].gid ELSE 0,
   flags  |-> IF call[r].op = "subgroup" /\ call[r].inherit
              THEN seen[r].flags ELSE DefaultFlags]

(* Mutant: without the unique key, the INSERT relies on the search.        *)
InsertGroupUnkeyed(r) ==
  /\ At(r, "exec", {"create", "subgroup"})
  /\ groupSeq' = groupSeq + 1
  /\ WriteGroup(r, {}, {NewGroup(r, groupSeq + 1)}, "enroll")

InsertGroup(r) ==
  /\ At(r, "exec", {"create", "subgroup"})
  /\ ~HandleLocked(r, seen[r].handle)
  /\ groupSeq' = groupSeq + 1
  /\ \/ /\ Taken(seen[r].handle)
        /\ End(r, "409") /\ UNCHANGED memberSeq
     \/ /\ ~Taken(seen[r].handle)
        /\ WriteGroup(r, {}, {NewGroup(r, groupSeq + 1)}, "enroll")

(* Mutant: a creator enrolled like an invited user. *)
CreatorRowPending(u, g, id) ==
  [id |-> id, group |-> g.id, user |-> u, role |-> "admin",
   accepted |-> FALSE, inviter |-> u]

(* CreateMembership in the same transaction: the creator, already          *)
(* accepted, as admin and own inviter.                                     *)
CreatorRow(u, g, id) ==
  [id |-> id, group |-> g.id, user |-> u, role |-> "admin",
   accepted |-> TRUE, inviter |-> u]

EnrollCreator(r) ==
  /\ At(r, "enroll", {"create", "subgroup"})
  /\ memberSeq' = memberSeq + 1
  /\ WriteMember(r, {}, {CreatorRow(call[r].user, g, memberSeq + 1) :
                           g \in tx[r].gIns})

(* UpdateGroup, ArchiveGroup and UnarchiveGroup, on the latest committed   *)
(* row: COALESCE keeps every flag the PATCH omits.                         *)
Changed(c, g) ==
  CASE c.op = "update"    -> [g EXCEPT !.flags = (@ \ c.off) \cup c.on]
    [] c.op = "archive"   -> [g EXCEPT !.archived = TRUE]
    [] c.op = "unarchive" -> [g EXCEPT !.archived = FALSE]

(* Mutant: an UPDATE that writes back every flag it read before the        *)
(* transaction.                                                            *)
UpdateGroupFromSnapshot(r) ==
  /\ At(r, "exec", {"update", "archive", "unarchive"})
  /\ ~GroupLocked(r, call[r].gid)
  /\ \E g \in GroupById(call[r].gid) :
       WriteGroup(r, {g}, {Changed(call[r], [g EXCEPT !.flags = seen[r].flags])},
                  "commit")
  /\ UNCHANGED groupSeq

UpdateGroup(r) ==
  /\ At(r, "exec", {"update", "archive", "unarchive"})
  /\ ~GroupLocked(r, call[r].gid)
  /\ \E g \in GroupById(call[r].gid) :
       WriteGroup(r, {g}, {Changed(call[r], g)}, "commit")
  /\ UNCHANGED groupSeq

(* The two counts in the answer of an update, each a query of its own,     *)
(* after the commit.                                                       *)
CountAfterUpdate(r) ==
  /\ ConnFree
  /\ \/ At(r, "countMembers", {"update"}) /\ Proceed(r, "countAdmins")
     \/ At(r, "countAdmins", {"update"}) /\ Answer(r, "ok")

GroupStep(r) ==
  \/ AuthorizeSubgroup(r) \/ AuthorizeUpdate(r) \/ AuthorizeArchive(r)
  \/ ValidateName(r) \/ ProbeHandle(r)
  \/ InsertGroup(r) \/ EnrollCreator(r) \/ UpdateGroup(r)
  \/ CountAfterUpdate(r)
=============================================================================
