------------------------------- MODULE Store -------------------------------
(***************************************************************************)
(* The database as the request handlers use it: two tables of committed    *)
(* rows, a pool of connections, and one READ COMMITTED transaction per     *)
(* writing request (pgx.BeginTxFunc with default options), whose writes    *)
(* other connections see only after the commit.  The module also holds the *)
(* steps every handler shares: taking a request, reading for it, opening,  *)
(* committing or abandoning its transaction, answering it.                 *)
(*                                                                         *)
(* Each Request is one slot of the HTTP server; a slot serves one call at  *)
(* a time and is used again once its answer has been received.             *)
(***************************************************************************)
EXTENDS Authorization, FiniteSets

CONSTANTS
  Requests,      \* slots for requests in flight
  MaxConns,      \* pg.max_conns, the size of the connection pool
  NoUser,        \* a user id no account has
  Calls,         \* the calls clients may make in the instance
  MaxMembers,    \* bound: identifiers the memberships sequence may reach
  MaxGroups,     \* bound: identifiers the groups sequence may reach
  MaxSuffix,     \* the last suffix GenerateUniqueHandle tries (1000)
  SeedGroups,    \* the groups the server finds in the database
  SeedMembers    \* the memberships the server finds in the database

VARIABLES
  groups,        \* committed rows of groups
  members,       \* committed rows of memberships
  groupSeq,      \* last value of groups_id_seq
  memberSeq,     \* last value of memberships_id_seq
  tx,            \* the transaction each request has open, with its writes
  pc,            \* the next step of each request's handler
  call,          \* what each request asks for
  seen,          \* what each handler has read and still uses
  reply          \* the answer of each request

vars == <<groups, members, groupSeq, memberSeq, tx, pc, call, seen, reply>>

-----------------------------------------------------------------------------
(* Calls and answers.                                                      *)

MemberOps == {"invite", "accept", "promote", "demote", "remove"}
GroupOps  == {"create", "subgroup", "update", "archive", "unarchive"}
Ops       == MemberOps \cup GroupOps

(* The handle a client leaves empty, for the server to generate. *)
NoHandle == -1

(* One call with every input a handler may use: the session's user, the    *)
(* ids in the path, the invited user and role, the flags a PATCH turns on  *)
(* or off (a flag in neither was omitted), the handle, inherit_permissions *)
(* and whether name and handle pass validation.                            *)
CallRecord ==
  [op : Ops, user : Users, gid : Nat, mid : Nat, who : Users \cup {NoUser},
   role : Roles, on : SUBSET Flags, off : SUBSET Flags,
   handle : Nat \cup {NoHandle},
   inherit : BOOLEAN, valid : BOOLEAN]

NoCall ==
  [op |-> "none", user |-> NoUser, gid |-> 0, mid |-> 0, who |-> NoUser,
   role |-> "member", on |-> {}, off |-> {}, handle |-> 0,
   inherit |-> FALSE, valid |-> TRUE]

(* "ok" is 200, 201 or 204.  The last-admin refusal is a 409 like the      *)
(* others; the model keeps it apart because it has its own message.        *)
Codes == {"ok", "403", "404", "409", "lastadmin", "422", "500"}

-----------------------------------------------------------------------------
(* What the instance must satisfy.  The database the server starts on was  *)
(* left by earlier runs of it: unique, administered, its parents existing. *)

ASSUME CallsAssumption ==
  /\ NoUser \notin Users
  /\ Calls \subseteq CallRecord
  /\ \A c \in Calls : c.on \cap c.off = {}

(* pg.max_conns is validated to be at least 1. *)
ASSUME PoolAssumption == MaxConns \in Nat \ {0} /\ IsFiniteSet(Requests)

ASSUME BoundsAssumption ==
  MaxMembers \in Nat /\ MaxGroups \in Nat /\ MaxSuffix \in Nat

ASSUME SeedAssumption ==
  /\ SeedGroups \subseteq GroupRow
  /\ SeedMembers \subseteq MembershipRow
  /\ IsFiniteSet(SeedGroups) /\ IsFiniteSet(SeedMembers)
  /\ UniqueGroups(SeedGroups)
  /\ UniqueMemberships(SeedMembers)
  /\ Administered(SeedGroups, SeedMembers)
  /\ \A g \in SeedGroups : g.id <= Cardinality(SeedGroups)
  /\ \A m \in SeedMembers : m.id <= Cardinality(SeedMembers)
  /\ \A m \in SeedMembers : \E g \in SeedGroups : g.id = m.group

-----------------------------------------------------------------------------
(* Transactions and connections.                                           *)

(* A transaction replaces the rows in gDel and mDel by those in gIns and   *)
(* mIns: an INSERT only adds, a DELETE only removes, an UPDATE does both.  *)
NoTx == [open |-> FALSE, mDel |-> {}, mIns |-> {}, gDel |-> {}, gIns |-> {}]

InTx(r) == tx[r].open

(* Every query and every transaction needs a connection of the pool; a     *)
(* query gives it back with its result, a transaction when it ends.        *)
ConnFree == Cardinality({r \in Requests : InTx(r)}) < MaxConns

(* The row locks of other transactions.  An UPDATE or DELETE waits for the *)
(* transaction that has written the row, an INSERT for the one that has    *)
(* written a row with the same unique key.                                 *)
MemberLocked(r, id) ==
  \E q \in Requests \ {r} : \E m \in tx[q].mDel : m.id = id

MemberKeyLocked(r, g, u) ==
  \E q \in Requests \ {r} :
    \E m \in tx[q].mDel \cup tx[q].mIns : m.group = g /\ m.user = u

GroupLocked(r, id) ==
  \E q \in Requests \ {r} : \E g \in tx[q].gDel : g.id = id

HandleLocked(r, h) ==
  \E q \in Requests \ {r} :
    \E g \in tx[q].gDel \cup tx[q].gIns : g.handle = h

(* GetMembershipByID, GetMembershipByGroupAndUser, GetGroupByID.           *)
MemberById(id)    == {m \in members : m.id = id}
MembersOf(g, u)   == {m \in members : m.group = g /\ m.user = u}
GroupById(id)     == {g \in groups : g.id = id}

(* CountAdminsByGroup and CountGroupAdmins. *)
AdminCount(g) == Cardinality({m \in members : m.group = g /\ ActiveAdmin(m)})

-----------------------------------------------------------------------------
(* The steps every handler is made of.                                     *)

(* What a handler keeps of its reads until it writes: the group and role   *)
(* of the membership row it looked up, the archived mark and the flags of  *)
(* the group row, and the handle it has chosen.                            *)
Unread == [gid |-> 0, role |-> "member", archived |-> FALSE, flags |-> {},
           handle |-> 0]

Steps == {"row", "group", "member", "count", "name", "probe", "begin", "exec",
          "enroll", "commit", "countMembers", "countAdmins"}

At(r, step, ops) == pc[r] = step /\ call[r].op \in ops

Goto(r, step) == pc' = [pc EXCEPT ![r] = step]

TablesUnchanged == UNCHANGED <<groups, members, groupSeq, memberSeq>>

(* A read that only moves the handler on. *)
Proceed(r, step) ==
  /\ Goto(r, step)
  /\ TablesUnchanged /\ UNCHANGED <<tx, call, seen, reply>>

(* Mutant: an error path that returns without rolling back. *)
EndWithoutRollback(r, code) ==
  /\ Goto(r, "done")
  /\ reply' = [reply EXCEPT ![r] = code]
  /\ seen'  = [seen EXCEPT ![r] = Unread]
  /\ UNCHANGED <<tx, groups, members, call>>

(* Answering ends the handler.  An error answered from inside BeginTxFunc  *)
(* rolls the transaction back, which drops its writes, releases its locks  *)
(* and returns its connection.  Identifiers drawn from a sequence are not  *)
(* given back (that part is in the actions that draw them).                *)
End(r, code) ==
  /\ Goto(r, "done")
  /\ reply' = [reply EXCEPT ![r] = code]
  /\ seen'  = [seen EXCEPT ![r] = Unread]
  /\ tx'    = [tx EXCEPT ![r] = NoTx]
  /\ UNCHANGED <<groups, members, call>>

Answer(r, code) == End(r, code) /\ UNCHANGED <<groupSeq, memberSeq>>

(* Room below the bounds for the rows the calls in flight may insert.      *)
Inserting == {q \in Requests : call[q].op \in {"invite", "create", "subgroup"}}
Founding  == {q \in Requests : call[q].op \in {"create", "subgroup"}}

WithinBounds(c) ==
  /\ c.op \in {"invite", "create", "subgroup"} =>
       memberSeq + Cardinality(Inserting) < MaxMembers
  /\ c.op \in {"create", "subgroup"} =>
       groupSeq + Cardinality(Founding) < MaxGroups

(* The first step of each handler once the session has been looked up.     *)
FirstStep(op) ==
  CASE op \in {"accept", "promote", "demote", "remove"} -> "row"
    [] op \in {"invite", "subgroup", "update", "archive", "unarchive"} -> "group"
    [] op = "create" -> "name"

(* A client with a valid session calls; the slot is free. *)
Receive(r) ==
  /\ pc[r] = "idle"
  /\ \E c \in Calls :
       /\ WithinBounds(c)
       /\ call' = [call EXCEPT ![r] = c]
       /\ Goto(r, FirstStep(c.op))
  /\ TablesUnchanged /\ UNCHANGED <<tx, seen, reply>>

(* The answer has left; the slot is free again. *)
Finish(r) ==
  /\ pc[r] = "done"
  /\ Goto(r, "idle")
  /\ call'  = [call EXCEPT ![r] = NoCall]
  /\ reply' = [reply EXCEPT ![r] = "none"]
  /\ TablesUnchanged /\ UNCHANGED <<tx, seen>>

(* NewAuthorizationContext, first query: the group row, 404 without one.   *)
TargetGroup(r) == IF seen[r].gid # 0 THEN seen[r].gid ELSE call[r].gid

ReadGroup(r) ==
  /\ pc[r] = "group" /\ ConnFree
  /\ \/ /\ GroupById(TargetGroup(r)) = {}
        /\ Answer(r, "404")
     \/ \E g \in GroupById(TargetGroup(r)) :
          /\ seen' = [seen EXCEPT ![r].archived = g.archived,
                                  ![r].flags = g.flags]
          /\ Goto(r, "member")
          /\ TablesUnchanged /\ UNCHANGED <<tx, call, reply>>

(* Its second query, in a later snapshot: the caller's membership.         *)
ContextOf(r) ==
  AuthContext(seen[r].archived, seen[r].flags,
              MembersOf(TargetGroup(r), call[r].user))

(* The checks after the second query either refuse or let the handler go   *)
(* on; verdict is the refusal's code or the next step.                     *)
Decide(r, verdict) ==
  \/ verdict \in Codes /\ Answer(r, verdict)
  \/ verdict \in Steps /\ Proceed(r, verdict)

(* pgx.BeginTxFunc acquires a connection and begins; SetAuditContext sets  *)
(* the actor for this transaction only.                                    *)
Begin(r) ==
  /\ pc[r] = "begin" /\ ConnFree
  /\ tx' = [tx EXCEPT ![r].open = TRUE]
  /\ Goto(r, "exec")
  /\ TablesUnchanged /\ UNCHANGED <<call, seen, reply>>

(* The writes of the handler's statement; after it the transaction commits *)
(* or, for a new group, goes on to enroll the creator.                     *)
WriteMember(r, del, ins) ==
  /\ tx' = [tx EXCEPT ![r].mDel = del, ![r].mIns = ins]
  /\ Goto(r, "commit")
  /\ UNCHANGED <<groups, members, groupSeq, call, seen, reply>>

WriteGroup(r, del, ins, next) ==
  /\ tx' = [tx EXCEPT ![r].gDel = del, ![r].gIns = ins]
  /\ Goto(r, next)
  /\ UNCHANGED <<groups, members, memberSeq, call, seen, reply>>

(* COMMIT.  The connection may be lost after the server has committed and  *)
(* before it says so: the handler then answers 500 for what was done.      *)
(* handleUpdateGroup still reads the two counts of its answer.             *)
Commit(r) ==
  /\ pc[r] = "commit"
  /\ members' = (members \ tx[r].mDel) \cup tx[r].mIns
  /\ groups'  = (groups \ tx[r].gDel) \cup tx[r].gIns
  /\ tx' = [tx EXCEPT ![r] = NoTx]
  /\ seen' = [seen EXCEPT ![r] = Unread]
  /\ \/ /\ call[r].op = "update"
        /\ Goto(r, "countMembers")
        /\ UNCHANGED reply
     \/ /\ call[r].op # "update"
        /\ Goto(r, "done")
        /\ reply' = [reply EXCEPT ![r] = "ok"]
     \/ /\ Goto(r, "done")
        /\ reply' = [reply EXCEPT ![r] = "500"]
  /\ UNCHANGED <<groupSeq, memberSeq, call>>

(* A query fails, the client goes away (its context is cancelled) or the   *)
(* connection breaks: whatever transaction was open is rolled back.  Only  *)
(* "name" asks nothing of the database.                                    *)
Fail(r) ==
  /\ pc[r] \in Steps \ {"name"}
  /\ Answer(r, "500")

-----------------------------------------------------------------------------
StoreInit ==
  /\ groups = SeedGroups
  /\ members = SeedMembers
  /\ groupSeq = Cardinality(SeedGroups)
  /\ memberSeq = Cardinality(SeedMembers)
  /\ tx    = [r \in Requests |-> NoTx]
  /\ pc    = [r \in Requests |-> "idle"]
  /\ call  = [r \in Requests |-> NoCall]
  /\ seen  = [r \in Requests |-> Unread]
  /\ reply = [r \in Requests |-> "none"]
=============================================================================
