----------------------------- MODULE AuditTrail -----------------------------
(***************************************************************************)
(* The audit trail of groups and memberships: the row triggers of          *)
(* migrations/002_create_audit_schema.sql and 005_enable_auditing.sql, and *)
(* the actor that db.SetAuditContext gives each transaction.  The triggers *)
(* fire inside the statements of the handlers, so every action here is an  *)
(* action of Llmio together with what it does to the trail.                *)
(***************************************************************************)
EXTENDS Authority

CONSTANT MaxAudit      \* bound: identifiers record_version_id_seq may reach

ASSUME AuditAssumption == MaxAudit \in Nat

VARIABLES
  trail,         \* committed rows of audit.record_version
  pending,       \* the rows each open transaction has added to it
  auditSeq,      \* last value of record_version_id_seq
  conn,          \* the pooled connection of each open transaction, or 0
  setting        \* app.current_user_id in each connection's session

auditVars == <<trail, pending, auditSeq, conn, setting>>

(* One row: old and new are the record before and after the statement, the *)
(* empty set for NULL.  A transaction draws its number when it first       *)
(* writes; here it is the id of its first audit row.                       *)
AuditRow ==
  [id : Ids, xact : Ids, table : {"groups", "memberships"},
   op : {"INSERT", "UPDATE", "DELETE"},
   old : SUBSET (GroupRow \cup MembershipRow),
   new : SUBSET (GroupRow \cup MembershipRow),
   actor : Users \cup {NoUser}]

-----------------------------------------------------------------------------
(* The connections of the pool, which outlive the transactions on them.    *)

Connections == 1 .. MaxConns

IdleConnections == Connections \ {conn[r] : r \in Requests}

(* The actor a statement of r runs under. *)
ActorSet(r) == IF conn[r] = 0 THEN NoUser ELSE setting[conn[r]]

(* Mutant: a transaction for the archive that sets no actor. *)
ActorOfButArchiving(c) == IF c.op = "archive" THEN NoUser ELSE c.user

ActorOf(c) == c.user

(* The transaction gets any idle connection and sets its actor there. *)
SetAuditContext(r) ==
  /\ \E k \in IdleConnections :
       /\ conn' = [conn EXCEPT ![r] = k]
       /\ setting' = [setting EXCEPT ![k] = ActorOf(call[r])]
  /\ UNCHANGED <<trail, pending, auditSeq>>

(* What the end of r's transaction leaves of the settings.  A rollback     *)
(* undoes set_config in any case; a commit because is_local, its third     *)
(* argument, is true.                                                      *)
Cleared(r) ==
  [k \in Connections |-> IF k = conn[r] THEN NoUser ELSE setting[k]]

(* Mutant: is_local is false. *)
SettingKept(r) == setting

SettingAfterCommit(r) == Cleared(r)

(* Mutant: triggers AFTER INSERT OR UPDATE, without DELETE. *)
ChangeButDeletions(t) ==
  {c \in {[table |-> "groups", old |-> t.gDel, new |-> t.gIns],
          [table |-> "memberships", old |-> t.mDel, new |-> t.mIns]} :
     c.new # {}}

(* What a transaction has done to each table; a statement of this server   *)
(* writes one row, and a transaction at most one row of each table.        *)
Change(t) ==
  {c \in {[table |-> "groups", old |-> t.gDel, new |-> t.gIns],
          [table |-> "memberships", old |-> t.mDel, new |-> t.mIns]} :
     c.old \cup c.new # {}}

Operation(c) ==
  CASE c.old = {} -> "INSERT"
    [] c.new = {} -> "DELETE"
    [] OTHER      -> "UPDATE"

(* audit.insert_update_delete_trigger for the change c of r's statement. *)
TriggerRow(r, c) ==
  [id |-> auditSeq + 1,
   xact |-> IF pending[r] = {} THEN auditSeq + 1
            ELSE (CHOOSE a \in pending[r] : TRUE).xact,
   table |-> c.table, op |-> Operation(c), old |-> c.old, new |-> c.new,
   actor |-> ActorSet(r)]

(* A rollback takes the rows with it, not the identifiers drawn for them.  *)
Discard(r) ==
  /\ pending' = [pending EXCEPT ![r] = {}]
  /\ setting' = Cleared(r)
  /\ conn'    = [conn EXCEPT ![r] = 0]
  /\ UNCHANGED <<trail, auditSeq>>

(* The AFTER ROW triggers of the statement r has just run, if it succeeded *)
(* and met a row.                                                          *)
Fired(r) ==
  {c \in Change(tx'[r]) : \A a \in pending[r] : a.table # c.table}

Trigger(r) ==
  \/ tx'[r] = NoTx /\ Discard(r)
  \/ /\ tx'[r] # NoTx
     /\ pending' = [pending EXCEPT ![r] =
                      @ \cup {TriggerRow(r, c) : c \in Fired(r)}]
     /\ auditSeq' = auditSeq + Cardinality(Fired(r))
     /\ UNCHANGED <<trail, conn, setting>>

(* COMMIT publishes the audit rows together with the rows they describe. *)
Publish(r) ==
  /\ trail' = trail \cup pending[r]
  /\ pending' = [pending EXCEPT ![r] = {}]
  /\ setting' = SettingAfterCommit(r)
  /\ conn'    = [conn EXCEPT ![r] = 0]
  /\ UNCHANGED auditSeq

(* Room below the bound for the rows of the calls in flight: two for a     *)
(* founding, one for any other call, none for one whose input is refused.  *)
AuditRoom(calls) ==
  LET writing == {q \in Requests : calls[q].op \in Ops /\ calls[q].valid}
  IN  auditSeq + Cardinality(writing)
        + Cardinality({q \in writing : calls[q].op \in {"create", "subgroup"}})
      <= MaxAudit

AuditStep(r) ==
  \/ Receive(r) /\ (call'[r].valid => AuditRoom(call')) /\ UNCHANGED auditVars
  \/ (ReadGroup(r) \/ Finish(r)) /\ UNCHANGED auditVars
  \/ Begin(r) /\ SetAuditContext(r)
  \/ (MembershipStep(r) \/ GroupStep(r)) /\ Trigger(r)
  \/ Commit(r) /\ Publish(r)
  \/ Fail(r) /\ Discard(r)

AuditInit ==
  /\ AuthorityInit
  /\ trail    = {}
  /\ pending  = [r \in Requests |-> {}]
  /\ auditSeq = 0
  /\ conn     = [r \in Requests |-> 0]
  /\ setting  = [k \in Connections |-> NoUser]

AuditNext == (\E r \in Requests : AuditStep(r)) /\ Remember

AuditSpec == AuditInit /\ [][AuditNext]_<<vars, held, offered, auditVars>>

-----------------------------------------------------------------------------
(* Reading the trail.                                                      *)

(* The rows of as about one record, and what the last of them left of it;  *)
(* a record the trail has never met is as the server found it.             *)
About(as, table, id) ==
  {a \in as : a.table = table /\ \E x \in a.old \cup a.new : x.id = id}

Found(table, id) ==
  {x \in IF table = "groups" THEN SeedGroups ELSE SeedMembers : x.id = id}

Version(as, table, id) ==
  LET about == About(as, table, id)
  IN  IF about = {} THEN Found(table, id)
      ELSE (CHOOSE a \in about : \A b \in about : b.id <= a.id).new

Before(a) == {b \in trail : b.id < a.id}

(* The trail replays to the tables: in the order of their identifiers, the *)
(* rows about each record start from what its predecessor left, and the    *)
(* last one left what is committed now.  Identifiers are drawn while other *)
(* transactions are open and some are rolled back; yet no change is        *)
(* missing, extra, or out of order.                                        *)
AuditReplays ==
  /\ \A a \in trail : \A x \in a.old \cup a.new :
       a.old = Version(Before(a), a.table, x.id)
  /\ \A id \in 1 .. groupSeq :
       Version(trail, "groups", id) = GroupById(id)
  /\ \A id \in 1 .. memberSeq :
       Version(trail, "memberships", id) = MemberById(id)

(* The versions of memberships that the server found or as has recorded.   *)
MembersIn(as) ==
  SeedMembers \cup UNION {b.new : b \in {c \in as : c.table = "memberships"}}

(* Those that made u a member of a group, with one of the roles.           *)
Backing(as, u, group, roles) ==
  {m \in MembersIn(as) :
     m.user = u /\ m.group = group /\ m.accepted /\ m.role \in roles}

(* What as has recorded shows why the change in a was allowed.             *)
Entitled(a, as) ==
  \A x \in a.old \cup a.new :
    CASE a.table = "groups" /\ a.op = "INSERT" ->
           x.parent # 0 => Backing(as, a.actor, x.parent, Roles) # {}
      [] a.table = "groups" /\ a.op = "UPDATE" ->
           Backing(as, a.actor, x.id, {"admin"}) # {}
      [] a.table = "memberships" /\ a.op = "INSERT" ->
           \/ Backing(as, a.actor, x.group, Roles) # {}
           \/ x.user = a.actor /\ \E b \in as :
                /\ b.xact = a.xact /\ b.table = "groups" /\ b.op = "INSERT"
                /\ \E g \in b.new : g.id = x.group
      [] OTHER ->
           \/ Backing(as, a.actor, x.group, {"admin"}) # {}
           \/ a.op = "UPDATE" /\ \A y \in a.new : x.user = a.actor /\ y.role = x.role

(* The trail alone shows why each change was allowed: by its actor's own   *)
(* membership in some version recorded before it, or as the founder's.     *)
ActorsEntitled == \A a \in trail : Entitled(a, Before(a))

(* Every founding shows in the trail as one transaction that also enrolled *)
(* its actor as the group's active admin.                                  *)
FoundedWithAdmin ==
  \A a \in trail : (a.table = "groups" /\ a.op = "INSERT") =>
    \E b \in trail : /\ b.xact = a.xact /\ b.op = "INSERT"
                     /\ b.table = "memberships"
                     /\ \E g \in a.new, m \in b.new :
                          /\ m.group = g.id /\ m.user = a.actor
                          /\ ActiveAdmin(m)

(* No actor stays behind on a pooled connection: one that has an actor     *)
(* belongs to an open transaction, and the actor is that transaction's     *)
(* caller (SetAuditContext, whose setting ends with the transaction).      *)
NoActorLeftBehind ==
  \A k \in Connections : setting[k] # NoUser =>
    \E r \in Requests : InTx(r) /\ conn[r] = k /\ setting[k] = call[r].user

(* The trail only grows, by the rows of one committing request at a time,  *)
(* each signed with the user of that request.                              *)
CommitsSigned ==
  [][/\ trail \subseteq trail'
     /\ trail' # trail =>
          \E r \in Requests :
            /\ pc[r] = "commit"
            /\ \A a \in trail' \ trail : a.actor = call[r].user]_trail
=============================================================================
