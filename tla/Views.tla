------------------------------- MODULE Views -------------------------------
(***************************************************************************)
(* The handlers that only read: handleGetGroup, handleGetGroupByHandle,    *)
(* handleListGroups and handleListSubgroups of internal/api/groups.go,     *)
(* handleGetMembership, handleListMemberships and handleListMyInvitations  *)
(* of internal/api/memberships.go.  Each asks up to five queries without a *)
(* transaction, so the parts of its answer come from as many states of the *)
(* database.  Readers interleave with the requests of Llmio and wait for   *)
(* the same connections.                                                   *)
(***************************************************************************)
EXTENDS Llmio

CONSTANTS
  Readers,       \* slots for read-only requests in flight
  ViewCalls      \* the views clients may ask for in the instance

VARIABLES
  vpc,           \* the next query of each reader's handler
  view,          \* what each reader asks for
  page,          \* what its handler has put together so far
  during         \* history: the committed tables at each instant of the call

viewVars == <<vpc, view, page, during>>

ViewOps == {"group", "handle", "groups", "subgroups", "membership",
            "memberships", "invitations"}

ViewRecord ==
  [op : ViewOps, user : Users, gid : Nat, mid : Nat, handle : Nat,
   all : BOOLEAN, status : {"all", "active", "pending"}]

ASSUME ViewAssumption == IsFiniteSet(Readers) /\ ViewCalls \subseteq ViewRecord

NoView ==
  [op |-> "none", user |-> NoUser, gid |-> 0, mid |-> 0, handle |-> 0,
   all |-> FALSE, status |-> "all"]

(* GroupDetailDTO, MembershipDTO with its GroupDTO, or a list of rows: the *)
(* group rows shown, the membership rows shown, the viewer's role, the two *)
(* counts, and whether the parent is archived ("none" without a parent).   *)
EmptyPage ==
  [code |-> "none", gid |-> 0, groups |-> {}, rows |-> {}, role |-> "none",
   members |-> 0, admins |-> 0, parent |-> "none"]

-----------------------------------------------------------------------------
(* The queries, over the committed rows.                                   *)

GroupByHandle(h) == {g \in groups : g.handle = h}

(* Mutant: a count that takes in pending invitations. *)
CountGroupMembersAndInvited(g) == Cardinality({m \in members : m.group = g})

CountGroupMembers(g) == Cardinality({m \in members : m.group = g /\ m.accepted})

ListGroupsByUser(u, all) ==
  {g \in groups : (all \/ ~g.archived) /\ \E m \in MembersOf(g.id, u) : m.accepted}

ListSubgroupsByParent(p, all) ==
  {g \in groups : g.parent = p /\ (all \/ ~g.archived)}

ListMemberships(g, status) ==
  {m \in members : m.group = g /\ (status = "active"  => m.accepted)
                               /\ (status = "pending" => ~m.accepted)}

ListInvitations(u) == {m \in members : m.user = u /\ ~m.accepted}

-----------------------------------------------------------------------------
(* The handlers, one query a step.                                         *)

FirstQuery(op) ==
  CASE op = "handle"     -> "byHandle"
    [] op = "membership" -> "byId"
    [] op \in {"groups", "invitations"} -> "rows"
    [] op \in {"group", "subgroups", "memberships"} -> "group"

AtQuery(q, step) == vpc[q] = step /\ ConnFree

Show(q, next, shown) ==
  /\ vpc' = [vpc EXCEPT ![q] = next]
  /\ page' = [page EXCEPT ![q] = shown]
  /\ UNCHANGED view

Refuse(q, code) == Show(q, "done", [EmptyPage EXCEPT !.code = code])

Ready(q, shown) == Show(q, "done", [shown EXCEPT !.code = "ok"])

Ask(q) ==
  /\ vpc[q] = "idle"
  /\ \E c \in ViewCalls :
       /\ view' = [view EXCEPT ![q] = c]
       /\ vpc' = [vpc EXCEPT ![q] = FirstQuery(c.op)]
       /\ page' = [page EXCEPT ![q].gid = c.gid]

(* GetGroupByHandle; the answer shows this row, not the later one of the   *)
(* authorization context.                                                  *)
FindByHandle(q) ==
  /\ AtQuery(q, "byHandle")
  /\ \/ GroupByHandle(view[q].handle) = {} /\ Refuse(q, "404")
     \/ \E g \in GroupByHandle(view[q].handle) :
          Show(q, "group", [page[q] EXCEPT !.gid = g.id, !.groups = {g}])

(* GetMembershipWithUser; its group is the one to authorize for. *)
FindById(q) ==
  /\ AtQuery(q, "byId")
  /\ \/ MemberById(view[q].mid) = {} /\ Refuse(q, "404")
     \/ \E m \in MemberById(view[q].mid) :
          Show(q, "group", [page[q] EXCEPT !.gid = m.group, !.rows = {m}])

(* NewAuthorizationContext. *)
ViewGroup(q) ==
  /\ AtQuery(q, "group")
  /\ \/ /\ GroupById(page[q].gid) = {}
        /\ Refuse(q, IF view[q].op = "handle" THEN "500" ELSE "404")
     \/ \E g \in GroupById(page[q].gid) :
          Show(q, "member",
               IF view[q].op = "group" THEN [page[q] EXCEPT !.groups = {g}]
               ELSE page[q])

AuthorizeView(q) ==
  /\ AtQuery(q, "member")
  /\ LET found == MembersOf(page[q].gid, view[q].user)
         ac    == AuthContext(FALSE, {}, found)
     IN  \/ ~CanViewGroup(ac) /\ Refuse(q, "403")
         \/ /\ CanViewGroup(ac)
            /\ \E m \in found :
                 Show(q, "rows", [page[q] EXCEPT !.role = m.role])

(* The parent of the group shown, fetched only if it has one. *)
OnToParent(q, shown) ==
  \/ (\A g \in shown.groups : g.parent = 0) /\ Ready(q, shown)
  \/ (\E g \in shown.groups : g.parent # 0) /\ Show(q, "parent", shown)

(* The end of each handler. *)
Collects(q, op) == AtQuery(q, "rows") /\ view[q].op = op

(* handleGetGroup: CountGroupMembershipStats counts both in one query. *)
ShowGroup(q) ==
  /\ Collects(q, "group")
  /\ OnToParent(q, [page[q] EXCEPT !.members = CountGroupMembers(page[q].gid),
                                   !.admins  = AdminCount(page[q].gid)])

(* handleGetGroupByHandle: two queries. *)
CountMembers(q) ==
  /\ Collects(q, "handle")
  /\ Show(q, "admins",
          [page[q] EXCEPT !.members = CountGroupMembers(page[q].gid)])

ShowSubgroups(q) ==
  /\ Collects(q, "subgroups")
  /\ Ready(q, [page[q] EXCEPT !.groups =
                 ListSubgroupsByParent(page[q].gid, view[q].all)])

ShowMemberships(q) ==
  /\ Collects(q, "memberships")
  /\ Ready(q, [page[q] EXCEPT !.rows =
                 ListMemberships(page[q].gid, view[q].status)])

(* The group of a membership is read again, and is there: no handler       *)
(* deletes a group.                                                        *)
ShowMembership(q) ==
  /\ Collects(q, "membership")
  /\ Ready(q, [page[q] EXCEPT !.groups = GroupById(page[q].gid)])

ShowGroups(q) ==
  /\ Collects(q, "groups")
  /\ Ready(q, [page[q] EXCEPT !.groups =
                 ListGroupsByUser(view[q].user, view[q].all)])

ShowInvitations(q) ==
  /\ Collects(q, "invitations")
  /\ Ready(q, [page[q] EXCEPT !.rows = ListInvitations(view[q].user)])

CollectAdmins(q) ==
  /\ AtQuery(q, "admins")
  /\ OnToParent(q, [page[q] EXCEPT !.admins = AdminCount(page[q].gid)])

(* The parent is extra: when its query fails the answer says so. *)
CollectParent(q) ==
  /\ AtQuery(q, "parent")
  /\ \E g \in page[q].groups :
       \/ \E p \in GroupById(g.parent) :
            Ready(q, [page[q] EXCEPT !.parent =
                        IF p.archived THEN "archived" ELSE "open"])
       \/ Ready(q, [page[q] EXCEPT !.parent = "unknown"])

(* Any other query that fails is answered 500. *)
ViewFails(q) ==
  /\ vpc[q] \notin {"idle", "done", "parent"}
  /\ Refuse(q, "500")

Read(q) ==
  /\ vpc[q] = "done"
  /\ vpc' = [vpc EXCEPT ![q] = "idle"]
  /\ view' = [view EXCEPT ![q] = NoView]
  /\ page' = [page EXCEPT ![q] = EmptyPage]

ViewStep(q) ==
  \/ FindByHandle(q) \/ FindById(q) \/ ViewGroup(q) \/ AuthorizeView(q)
  \/ ShowGroup(q) \/ CountMembers(q) \/ CollectAdmins(q) \/ CollectParent(q)
  \/ ShowSubgroups(q) \/ ShowMemberships(q) \/ ShowMembership(q)
  \/ ShowGroups(q) \/ ShowInvitations(q) \/ Read(q)

ReaderNext == \E q \in Readers : Ask(q) \/ ViewStep(q) \/ ViewFails(q)

(* The tables after a step join the history of every view in flight. *)
Snapshot == [groups |-> groups, members |-> members]

Witness ==
  during' = [q \in Readers |->
               IF vpc'[q] = "idle" THEN {} ELSE during[q] \cup {Snapshot'}]

ViewInit ==
  /\ Init
  /\ vpc    = [q \in Readers |-> "idle"]
  /\ view   = [q \in Readers |-> NoView]
  /\ page   = [q \in Readers |-> EmptyPage]
  /\ during = [q \in Readers |-> {}]

ViewNext ==
  /\ \/ Next /\ UNCHANGED <<vpc, view, page>>
     \/ ReaderNext /\ UNCHANGED vars
  /\ Witness

ViewSpec == ViewInit /\ [][ViewNext]_<<vars, viewVars>>

(* The pool hands a connection to its longest waiter, whether it reads or  *)
(* writes, and PostgreSQL a row lock to the first in its queue, so a       *)
(* handler that can go on again and again does go on.  Clients and         *)
(* failures are not fair.                                                  *)
FairViewSpec ==
  /\ ViewSpec
  /\ \A r \in Requests : SF_<<vars, viewVars>>(
       HandlerStep(r) /\ UNCHANGED <<vpc, view, page>> /\ Witness)
  /\ \A q \in Readers : SF_<<vars, viewVars>>(
       ViewStep(q) /\ UNCHANGED vars /\ Witness)

-----------------------------------------------------------------------------
(* What an answer may say.                                                 *)

Shown(q) == vpc[q] = "done" /\ page[q].code = "ok"

Active(s, g, u) ==
  \E m \in s.members : m.group = g /\ m.user = u /\ m.accepted

(* Nobody is shown anything of a group they were not an active member of   *)
(* at some instant of the call: an invitation, a membership that ended     *)
(* before the call, or one in another group opens nothing.  The group and  *)
(* membership of their own invitations are the exception.                  *)
ViewerWasMember ==
  \A q \in Readers : Shown(q) =>
    /\ \A g \in page[q].groups :
         \E s \in during[q] :
           \/ Active(s, g.id, view[q].user)
           \/ view[q].op = "subgroups" /\ Active(s, g.parent, view[q].user)
    /\ \A m \in page[q].rows :
         \/ view[q].op = "invitations" /\ m.user = view[q].user
         \/ \E s \in during[q] : Active(s, m.group, view[q].user)

(* The counts of one query were true together; those of two queries each   *)
(* at an instant of its own.  A role, a row or the mark of the parent was  *)
(* true at some instant, whatever committed between the queries.           *)
ActiveOf(s, g) == {m \in s.members : m.group = g /\ m.accepted}

MembersTrue(s, p) == p.members = Cardinality(ActiveOf(s, p.gid))

AdminsTrue(s, p) ==
  p.admins = Cardinality({m \in ActiveOf(s, p.gid) : m.role = "admin"})

CountsTrue(q) ==
  CASE view[q].op = "group" ->
         \E s \in during[q] : MembersTrue(s, page[q]) /\ AdminsTrue(s, page[q])
    [] view[q].op = "handle" ->
         /\ \E s \in during[q] : MembersTrue(s, page[q])
         /\ \E s \in during[q] : AdminsTrue(s, page[q])
    [] OTHER -> TRUE

ParentTrue(q) ==
  view[q].op \in {"group", "handle"} =>
    \A g \in page[q].groups :
      CASE page[q].parent = "none" -> g.parent = 0
        [] page[q].parent = "unknown" -> g.parent # 0
        [] OTHER -> \E s \in during[q] : \E p \in s.groups :
                      p.id = g.parent /\ (page[q].parent = "archived" <=> p.archived)

(* And a refusal is deserved: a viewer who was an active member of an      *)
(* existing group all the time is never told 403 or 404.                   *)
RefusalDeserved(q) ==
  LET c == view[q]
      named(s) == {g \in s.groups :
                     CASE c.op = "handle" -> g.handle = c.handle
                       [] c.op = "membership" ->
                            \E m \in s.members : m.id = c.mid /\ m.group = g.id
                       [] OTHER -> g.id = c.gid}
  IN  \E s \in during[q] : \A g \in named(s) : ~Active(s, g.id, c.user)

AnsweredTruly ==
  \A q \in Readers : vpc[q] = "done" =>
    CASE page[q].code = "ok" ->
           /\ CountsTrue(q) /\ ParentTrue(q)
           /\ \A g \in page[q].groups : \E s \in during[q] : g \in s.groups
           /\ \A m \in page[q].rows : \E s \in during[q] : m \in s.members
           /\ page[q].role # "none" =>
                \E s \in during[q] : \E m \in s.members :
                  /\ m.group = page[q].gid /\ m.user = view[q].user
                  /\ m.accepted /\ m.role = page[q].role
      [] page[q].code \in {"403", "404"} -> RefusalDeserved(q)
      [] OTHER -> TRUE

(* Every view is answered, however many writers keep the connections busy. *)
EveryViewAnswered == \A q \in Readers : vpc[q] # "idle" ~> vpc[q] = "idle"
=============================================================================
