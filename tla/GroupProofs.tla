---------------------------- MODULE GroupProofs ----------------------------
(***************************************************************************)
(* What the handlers promise of groups and their rosters: with one         *)
(* connection every group keeps an active admin; a PATCH changes only the  *)
(* flags it names; the search for a handle is exact; rosters change only   *)
(* as MembershipLifecycle allows.                                          *)
(***************************************************************************)
EXTENDS LlmioProofs

-----------------------------------------------------------------------------
(* Every group keeps an active admin when the pool has one connection.     *)
(* With more, it need not (the run last_admin_race): the last-admin        *)
(* trigger counts committed rows, and two transactions that each remove    *)
(* another administrator do not see each other.  One connection lets one   *)
(* transaction be open at a time, and then the trigger suffices.  The      *)
(* proof shows what protecting the last admin depends on: transactions     *)
(* that write rosters being serial, and nothing else.                      *)

(* The inductive invariant.  EveryGroupHasAdmin alone is not inductive: a  *)
(* commit replaces rows written earlier, so what an open transaction will  *)
(* leave behind has to be administered too, and that is only known while   *)
(* no other transaction can commit in between.                             *)

(* The tables as the commit of r would leave them. *)
AdministeredAfter(r) ==
  Administered((groups \ tx[r].gDel) \cup tx[r].gIns,
               (members \ tx[r].mDel) \cup tx[r].mIns)

SerialInv ==
  /\ EveryGroupHasAdmin
  /\ \A q, r \in Requests : InTx(q) /\ InTx(r) => q = r
  /\ \A r \in Requests :
       /\ pc[r] = "exec" => tx[r] = [NoTx EXCEPT !.open = TRUE]
       /\ pc[r] = "enroll" => tx[r].gDel = {} /\ tx[r].mDel = {}
       /\ pc[r] = "commit" => AdministeredAfter(r)

(* A quiet step disturbs no other transaction and commits nothing.         *)
LEMMA QuietSerial ==
  ASSUME TypeOK, SerialInv, NEW r \in Requests, Quiet(r)
  PROVE  SerialInv'
  <1>1. PICK s : s \notin InsideTx /\ pc' = [pc EXCEPT ![r] = s]
    BY DEF Quiet, Goto
  <1>2. /\ UNCHANGED <<groups, members>>
        /\ \A q \in Requests \ {r} : tx'[q] = tx[q] /\ pc'[q] = pc[q]
        /\ pc'[r] \notin InsideTx
        /\ tx'[r].open => tx[r].open
    BY <1>1, EmptyTyping DEF Quiet, TypeOK
  <1>3. \A q \in Requests : tx'[q].open => tx[q].open
    BY <1>2
  <1> QED
    BY <1>2, <1>3
       DEF SerialInv, EveryGroupHasAdmin, AdministeredAfter, InTx, InsideTx

(* A write inside the transaction of r; nothing else moves. *)
LEMMA WriteSerial ==
  ASSUME TypeOK, SerialInv, NEW r \in Requests, tx[r].open,
         NEW t \in TxType, NEW s \in {"exec", "enroll", "commit"},
         UNCHANGED <<groups, members>>,
         tx' = [tx EXCEPT ![r] = t], pc' = [pc EXCEPT ![r] = s],
         s = "exec" => t = [NoTx EXCEPT !.open = TRUE],
         s = "enroll" => t.gDel = {} /\ t.mDel = {},
         s = "commit" => Administered((groups \ t.gDel) \cup t.gIns,
                                      (members \ t.mDel) \cup t.mIns)
  PROVE  SerialInv'
  <1>1. /\ \A q \in Requests \ {r} : tx'[q] = tx[q] /\ pc'[q] = pc[q]
        /\ tx'[r] = t /\ pc'[r] = s
    BY DEF TypeOK
  <1>2. \A q \in Requests : tx'[q].open => tx[q].open
    BY <1>1
  <1>3. EveryGroupHasAdmin'
    BY DEF SerialInv, EveryGroupHasAdmin
  <1>4. ASSUME NEW q \in Requests
        PROVE  /\ pc'[q] = "exec" => tx'[q] = [NoTx EXCEPT !.open = TRUE]
               /\ pc'[q] = "enroll" => tx'[q].gDel = {} /\ tx'[q].mDel = {}
               /\ pc'[q] = "commit" => AdministeredAfter(q)'
    <2>1. CASE q = r
      BY <1>1, <2>1 DEF AdministeredAfter
    <2>2. CASE q # r
      BY <1>1, <2>2 DEF SerialInv, AdministeredAfter
    <2> QED
      BY <2>1, <2>2
  <1> QED
    BY <1>2, <1>3, <1>4 DEF SerialInv, InTx

(* One connection: a transaction opens only when no other is open. *)
LEMMA BeginSerial ==
  ASSUME MaxConns = 1, TypeOK, SerialInv, NEW r \in Requests, Begin(r)
  PROVE  SerialInv'
  <1> DEFINE open == {q \in Requests : InTx(q)}
  <1>1. open = {}
    <2>1. IsFiniteSet(open)
      BY PoolAssumption, FS_Subset
    <2>2. Cardinality(open) \in Nat /\ Cardinality(open) < 1
      BY <2>1, FS_CardinalityType DEF Begin, ConnFree
    <2> QED
      BY <2>1, <2>2, FS_EmptySet
  <1>2. tx[r] = NoTx
    BY <1>1 DEF TypeOK
  <1>3. tx' = [tx EXCEPT ![r] = [NoTx EXCEPT !.open = TRUE]]
    BY <1>2 DEF Begin
  <1>4. \A q \in Requests \ {r} : tx'[q] = tx[q] /\ pc'[q] = pc[q]
    BY DEF Begin, Goto, TypeOK
  <1>5. tx'[r] = [NoTx EXCEPT !.open = TRUE] /\ pc'[r] = "exec"
    BY <1>3 DEF Begin, Goto, TypeOK
  <1>6. \A q \in Requests \ {r} : ~tx'[q].open
    BY <1>1, <1>4 DEF InTx
  <1> QED
    BY <1>4, <1>5, <1>6
       DEF SerialInv, EveryGroupHasAdmin, AdministeredAfter, InTx, Begin,
           TablesUnchanged

(* The commit puts in place what AdministeredAfter promised, and no other  *)
(* transaction is open whose outcome it could spoil.                       *)
LEMMA CommitSerial ==
  ASSUME TypeOK, SerialInv, NEW r \in Requests, Commit(r)
  PROVE  SerialInv'
  <1>1. tx[r].open
    BY DEF Commit, TypeOK, InTx, InsideTx
  <1>2. \A q \in Requests : ~tx'[q].open
    BY <1>1, EmptyTyping DEF SerialInv, Commit, TypeOK, InTx
  <1>3. TypeOK'
    BY CommitType
  <1>4. \A q \in Requests : pc'[q] \notin InsideTx
    BY <1>2, <1>3 DEF TypeOK, InTx
  <1>5. EveryGroupHasAdmin'
    BY DEF SerialInv, AdministeredAfter, Commit, EveryGroupHasAdmin
  <1>6. \A q \in Requests : pc'[q] \notin {"exec", "enroll", "commit"}
    BY <1>4 DEF InsideTx
  <1> QED
    BY <1>2, <1>5, <1>6 DEF SerialInv, InTx

-----------------------------------------------------------------------------
(* The statements.                                                         *)

(* WriteMember and WriteGroup of a transaction that has not written yet.   *)
LEMMA MemberWriteSerial ==
  ASSUME TypeOK, SerialInv, NEW r \in Requests,
         pc[r] \in {"exec", "enroll"},
         NEW del \in SUBSET MembershipRow, NEW ins \in SUBSET MembershipRow,
         WriteMember(r, del, ins),
         Administered(groups \cup tx[r].gIns, (members \ del) \cup ins)
  PROVE  SerialInv'
  <1> DEFINE t == [tx[r] EXCEPT !.mDel = del, !.mIns = ins]
  <1>1. tx[r].open /\ tx[r] \in TxType
    BY Unmoved DEF TypeOK, InTx, InsideTx
  <1>2. t \in TxType /\ tx' = [tx EXCEPT ![r] = t]
    BY <1>1 DEF TxType, WriteMember, TypeOK
  <1>3. t.gDel = {} /\ t.gIns = tx[r].gIns /\ t.mDel = del /\ t.mIns = ins
    BY <1>1 DEF SerialInv, NoTx, TxType
  <1>4. Administered((groups \ t.gDel) \cup t.gIns, (members \ t.mDel) \cup t.mIns)
    <2>1. (groups \ t.gDel) \cup t.gIns = groups \cup tx[r].gIns
      BY <1>3
    <2> QED
      BY <1>3, <2>1
  <1>5. UNCHANGED <<groups, members>> /\ pc' = [pc EXCEPT ![r] = "commit"]
    BY DEF WriteMember, Goto
  <1> HIDE DEF t
  <1> QED
    BY <1>1, <1>2, <1>4, <1>5, WriteSerial

(* A group without its row old still has an admin, when old was none or    *)
(* the trigger has found another.                                          *)
LEMMA RemovalAdministered ==
  ASSUME NEW gs, NEW old \in members, ~LastAdminTrigger(old),
         Administered(gs, members), NEW ins
  PROVE  Administered(gs, (members \ {old}) \cup ins)
  BY DEF Administered, LastAdminTrigger

(* Replacing a row without taking its admin role or its acceptance away.   *)
LEMMA ReplacementAdministered ==
  ASSUME NEW gs, NEW old \in members, NEW new, new.group = old.group,
         ActiveAdmin(old) => ActiveAdmin(new), Administered(gs, members)
  PROVE  Administered(gs, (members \ {old}) \cup {new})
  BY DEF Administered

(* An invitation only adds a row.                                          *)
LEMMA InvitationSerial ==
  ASSUME TypeOK, SerialInv, NEW r \in Requests, InsertInvitation(r)
  PROVE  SerialInv'
  <1>1. CASE End(r, "409") /\ UNCHANGED groupSeq
    <2>1. memberSeq' = memberSeq + 1
      BY DEF InsertInvitation
    <2>2. Quiet(r)
      BY <1>1, <2>1, EndQuiet
    <2> QED
      BY <2>2, QuietSerial
  <1>2. CASE WriteMember(r, {}, {Invitation(call[r], memberSeq + 1)})
    <2> DEFINE row == Invitation(call[r], memberSeq + 1)
    <2>1. /\ pc[r] = "exec" /\ call[r].op = "invite" /\ call[r].who \in Users
          /\ call[r] \in CallRecord
      BY CallTyping, EmptyTyping DEF InsertInvitation, At, TypeOK
    <2>2. row \in MembershipRow
      BY <2>1, Unmoved DEF Invitation, MembershipRow, CallRecord, Ids
    <2>3. tx[r].gIns = {}
      BY <2>1 DEF SerialInv, NoTx
    <2>4. Administered(groups \cup tx[r].gIns, (members \ {}) \cup {row})
      BY <2>3 DEF SerialInv, EveryGroupHasAdmin, Administered
    <2> HIDE DEF row
    <2>5. {row} \in SUBSET MembershipRow /\ {} \in SUBSET MembershipRow
      BY <2>2
    <2>6. WriteMember(r, {}, {row})
      BY <1>2 DEF row
    <2> QED
      BY <2>1, <2>4, <2>5, <2>6, MemberWriteSerial
  <1> QED
    BY <1>1, <1>2 DEF InsertInvitation

(* An UPDATE takes an admin away only past the trigger.                    *)
LEMMA UpdateSerial ==
  ASSUME TypeOK, SerialInv, NEW r \in Requests, UpdateMembership(r)
  PROVE  SerialInv'
  <1>1. /\ pc[r] = "exec" /\ call[r].op \in {"accept", "promote", "demote"}
        /\ tx[r].gIns = {}
    BY DEF UpdateMembership, At, SerialInv, NoTx
  <1>2. CASE Answer(r, "500") \/ Answer(r, "lastadmin")
    BY <1>2, AnswerQuiet, QuietSerial
  <1>3. ASSUME NEW m \in MemberById(call[r].mid),
               ~(call[r].op = "demote" /\ LastAdminTrigger(m)),
               WriteMember(r, {m}, {Updated(call[r].op, m)})
        PROVE  SerialInv'
    <2> DEFINE new == Updated(call[r].op, m)
    <2>1. m \in members /\ m \in MembershipRow /\ new \in MembershipRow
      BY <1>1, UpdatedType, Unmoved DEF MemberById
    <2>2. /\ new.group = m.group
          /\ (ActiveAdmin(m) /\ call[r].op # "demote") => ActiveAdmin(new)
      BY <1>1, <2>1, UpdatedType
    <2>3. Administered(groups, members)
      BY DEF SerialInv, EveryGroupHasAdmin
    <2> HIDE DEF new
    <2>4. Administered(groups, (members \ {m}) \cup {new})
      <3>1. CASE LastAdminTrigger(m)
        BY <1>3, <2>1, <2>2, <2>3, <3>1, ReplacementAdministered
      <3>2. CASE ~LastAdminTrigger(m)
        BY <2>1, <2>3, <3>2, RemovalAdministered
      <3> QED
        BY <3>1, <3>2
    <2>5. Administered(groups \cup tx[r].gIns, (members \ {m}) \cup {new})
      BY <1>1, <2>4
    <2>6. {m} \in SUBSET MembershipRow /\ {new} \in SUBSET MembershipRow
          /\ WriteMember(r, {m}, {new})
      BY <1>3, <2>1 DEF new
    <2> QED
      BY <1>1, <2>5, <2>6, MemberWriteSerial
  <1> QED
    BY <1>2, <1>3 DEF UpdateMembership

(* A DELETE takes an admin away only past the trigger.                     *)
LEMMA DeleteSerial ==
  ASSUME TypeOK, SerialInv, NEW r \in Requests, DeleteMembership(r)
  PROVE  SerialInv'
  <1>1. /\ pc[r] = "exec" /\ tx[r].gIns = {}
        /\ Administered(groups \cup tx[r].gIns, members)
    BY DEF DeleteMembership, At, SerialInv, NoTx, EveryGroupHasAdmin
  <1>2. CASE Answer(r, "lastadmin")
    BY <1>2, AnswerQuiet, QuietSerial
  <1>3. CASE WriteMember(r, {}, {})
    <2>1. (members \ {}) \cup {} = members
      OBVIOUS
    <2>2. Administered(groups \cup tx[r].gIns, (members \ {}) \cup {})
      BY <1>1, <2>1
    <2> QED
      BY <1>1, <1>3, <2>2, MemberWriteSerial
  <1>4. ASSUME NEW m \in MemberById(call[r].mid), ~LastAdminTrigger(m),
               WriteMember(r, {m}, {})
        PROVE  SerialInv'
    <2>1. m \in members /\ {m} \in SUBSET MembershipRow
      BY Unmoved DEF MemberById
    <2>2. Administered(groups \cup tx[r].gIns, (members \ {m}) \cup {})
      BY <1>1, <1>4, <2>1, RemovalAdministered
    <2> QED
      BY <1>1, <1>4, <2>1, <2>2, MemberWriteSerial
  <1> QED
    BY <1>2, <1>3, <1>4 DEF DeleteMembership

(* A write of groups is a founding to be completed or leaves every group   *)
(* administered.                                                           *)
LEMMA GroupWriteSerial ==
  ASSUME TypeOK, SerialInv, NEW r \in Requests, pc[r] = "exec",
         NEW del \in SUBSET GroupRow, NEW ins \in SUBSET GroupRow,
         NEW next \in {"enroll", "commit"}, WriteGroup(r, del, ins, next),
         next = "enroll" => del = {},
         next = "commit" => Administered((groups \ del) \cup ins, members)
  PROVE  SerialInv'
  <1> DEFINE t == [tx[r] EXCEPT !.gDel = del, !.gIns = ins]
  <1>1. tx[r].open /\ tx[r] \in TxType
    BY Unmoved DEF TypeOK, InTx, InsideTx
  <1>2. t \in TxType /\ tx' = [tx EXCEPT ![r] = t]
    BY <1>1 DEF TxType, WriteGroup, TypeOK
  <1>3. t.gDel = del /\ t.gIns = ins /\ t.mDel = {} /\ t.mIns = {}
    BY <1>1 DEF SerialInv, NoTx, TxType
  <1>4. (members \ t.mDel) \cup t.mIns = members
    BY <1>3
  <1>5. UNCHANGED <<groups, members>> /\ pc' = [pc EXCEPT ![r] = next]
    BY DEF WriteGroup, Goto
  <1> HIDE DEF t
  <1> QED
    BY <1>1, <1>2, <1>3, <1>4, <1>5, WriteSerial

(* A new group is pending until its creator is enrolled.                   *)
LEMMA InsertGroupSerial ==
  ASSUME TypeOK, SerialInv, NEW r \in Requests, InsertGroup(r)
  PROVE  SerialInv'
  <1>1. CASE End(r, "409") /\ UNCHANGED memberSeq
    <2>1. groupSeq' = groupSeq + 1
      BY DEF InsertGroup
    <2>2. Quiet(r)
      BY <1>1, <2>1, EndQuiet
    <2> QED
      BY <2>2, QuietSerial
  <1>2. CASE WriteGroup(r, {}, {NewGroup(r, groupSeq + 1)}, "enroll")
    <2>1. pc[r] = "exec" /\ call[r] \in CallRecord
      BY Unmoved, CallTyping DEF InsertGroup, At, NoCall
    <2>2. NewGroup(r, groupSeq + 1) \in GroupRow
      BY <2>1, Unmoved
         DEF NewGroup, GroupRow, SeenType, CallRecord, DefaultFlags, Ids
    <2> QED
      BY <1>2, <2>1, <2>2, GroupWriteSerial
  <1> QED
    BY <1>1, <1>2 DEF InsertGroup

(* The new group comes with its creator, whose row is an active admin's.   *)
LEMMA EnrollSerial ==
  ASSUME TypeOK, SerialInv, NEW r \in Requests, EnrollCreator(r)
  PROVE  SerialInv'
  <1> DEFINE rows == {CreatorRow(call[r].user, g, memberSeq + 1) : g \in tx[r].gIns}
  <1>1. pc[r] = "enroll" /\ call[r] \in CallRecord /\ WriteMember(r, {}, rows)
    BY Unmoved, CallTyping DEF EnrollCreator, At, NoCall
  <1>2. rows \in SUBSET MembershipRow
    <2>1. \A g \in tx[r].gIns : g.id \in Nat
      BY Unmoved DEF TxType, GroupRow, Ids
    <2>2. call[r].user \in Users /\ memberSeq + 1 \in Ids
      BY <1>1, Unmoved DEF CallRecord, Ids
    <2>3. ASSUME NEW g \in tx[r].gIns
          PROVE  CreatorRow(call[r].user, g, memberSeq + 1) \in MembershipRow
      BY <2>1, <2>2 DEF CreatorRow, MembershipRow, Roles
    <2> QED
      BY <2>3
  <1>3. \A g \in tx[r].gIns : \E m \in rows : m.group = g.id /\ ActiveAdmin(m)
    <2> SUFFICES ASSUME NEW g \in tx[r].gIns
                 PROVE  \E m \in rows : m.group = g.id /\ ActiveAdmin(m)
      OBVIOUS
    <2>1. CreatorRow(call[r].user, g, memberSeq + 1) \in rows
      OBVIOUS
    <2> QED
      BY <2>1 DEF CreatorRow, ActiveAdmin
  <1> HIDE DEF rows
  <1>4. Administered(groups \cup tx[r].gIns, (members \ {}) \cup rows)
    BY <1>3 DEF SerialInv, EveryGroupHasAdmin, Administered
  <1> QED
    BY <1>1, <1>2, <1>4, MemberWriteSerial

(* Settings and archiving keep the identifier of the group.                *)
LEMMA UpdateGroupSerial ==
  ASSUME TypeOK, SerialInv, NEW r \in Requests, UpdateGroup(r)
  PROVE  SerialInv'
  <1>1. /\ pc[r] = "exec" /\ call[r].op \in {"update", "archive", "unarchive"}
        /\ call[r] \in CallRecord
    BY Unmoved, CallTyping DEF UpdateGroup, At, NoCall
  <1>2. PICK g \in GroupById(call[r].gid) :
          WriteGroup(r, {g}, {Changed(call[r], g)}, "commit")
    BY DEF UpdateGroup
  <1>3. g \in groups /\ g \in GroupRow
    BY Unmoved DEF GroupById
  <1>4. Changed(call[r], g) \in GroupRow /\ Changed(call[r], g).id = g.id
    BY <1>1, <1>3, ChangedType
  <1>5. Administered((groups \ {g}) \cup {Changed(call[r], g)}, members)
    BY <1>3, <1>4 DEF SerialInv, EveryGroupHasAdmin, Administered
  <1> QED
    BY <1>1, <1>2, <1>3, <1>4, <1>5, GroupWriteSerial

-----------------------------------------------------------------------------
(* The seeded database is administered.                                    *)
LEMMA InitSerial == Init => SerialInv
  <1> SUFFICES ASSUME Init PROVE SerialInv
    OBVIOUS
  <1>1. Administered(groups, members)
    BY SeedAssumption DEF Init, StoreInit
  <1>2. \A r \in Requests : ~tx[r].open /\ pc[r] = "idle"
    BY EmptyTyping DEF Init, StoreInit
  <1> QED
    BY <1>1, <1>2 DEF SerialInv, EveryGroupHasAdmin, InTx

(* Every step keeps the invariant when the pool has one connection.        *)
LEMMA NextSerial ==
  ASSUME MaxConns = 1, TypeOK, SerialInv, [Next]_vars
  PROVE  SerialInv'
  <1>1. CASE UNCHANGED vars
    BY <1>1 DEF vars, SerialInv, EveryGroupHasAdmin, AdministeredAfter, InTx
  <1>2. CASE Next
    BY <1>2, NextShape, QuietSerial, BeginSerial, CommitSerial,
       InvitationSerial, UpdateSerial, DeleteSerial, InsertGroupSerial,
       EnrollSerial, UpdateGroupSerial
  <1> QED
    BY <1>1, <1>2

(* With one connection in the pool, whatever is called and whatever fails, *)
(* every group has an active admin: prevent_last_admin_removal keeps its   *)
(* promise as soon as transactions do not overlap.                         *)
THEOREM SerialAdmin ==
  ASSUME MaxConns = 1
  PROVE  Spec => []EveryGroupHasAdmin
  <1>1. Init => TypeOK /\ SerialInv
    BY InitType, InitSerial
  <1>2. (TypeOK /\ SerialInv) /\ [Next]_vars => (TypeOK /\ SerialInv)'
    BY NextType, NextSerial
  <1>3. SerialInv => EveryGroupHasAdmin
    BY DEF SerialInv
  <1> QED
    BY <1>1, <1>2, <1>3, PTL DEF Spec

-----------------------------------------------------------------------------
(* A transaction that replaces a group keeps its handle and, of its flags, *)
(* touches only those its PATCH names.                                     *)
GroupWriteInv(r) ==
  /\ \A g \in tx[r].gDel : \E h \in tx[r].gIns : h.handle = g.handle
  /\ \A g \in tx[r].gDel, h \in tx[r].gIns :
       \A f \in (g.flags \ h.flags) \cup (h.flags \ g.flags) :
         call[r].op = "update" /\ f \in call[r].on \cup call[r].off

(* What an UPDATE of a group does to its flags.                            *)
LEMMA ChangedFlags ==
  ASSUME NEW g \in GroupRow, NEW c \in CallRecord,
         c.op \in {"update", "archive", "unarchive"}, NEW f
  PROVE  (f \in g.flags \ Changed(c, g).flags \/ f \in Changed(c, g).flags \ g.flags)
           => c.op = "update" /\ f \in c.on \cup c.off
  <1>1. CASE c.op = "update"
    BY <1>1 DEF Changed, GroupRow
  <1>2. CASE c.op = "archive"
    BY <1>2 DEF Changed, GroupRow
  <1>3. CASE c.op = "unarchive"
    BY <1>3 DEF Changed, GroupRow
  <1> QED
    BY <1>1, <1>2, <1>3

(* Every step keeps that of every transaction.                             *)
LEMMA GroupWriteStep ==
  ASSUME TypeOK, RowInv, TypeOK', NEW r \in Requests,
         Receive(r) \/ HandlerStep(r) \/ Fail(r),
         \A q \in Requests : GroupWriteInv(q)
  PROVE  \A q \in Requests : GroupWriteInv(q)'
  <1> SUFFICES ASSUME NEW q \in Requests PROVE GroupWriteInv(q)'
    OBVIOUS
  <1>1. CASE q # r
    <2>1. tx'[q] = tx[q] /\ call'[q] = call[q] /\ GroupWriteInv(q)
      BY <1>1, OthersStay
    <2> QED
      BY <2>1 DEF GroupWriteInv
  <1>2. CASE q = r
    <2>1. CASE tx'[r].gDel = {}
      BY <1>2, <2>1 DEF GroupWriteInv
    <2>2. CASE Alters(r) /\ UNCHANGED call
      <3>1. /\ call[r].op \in {"update", "archive", "unarchive"}
            /\ call[r] \in CallRecord
        BY <2>2, Unmoved, CallTyping DEF Alters, At, NoCall
      <3>2. PICK g \in GroupById(call[r].gid) :
              tx'[r].gDel = {g} /\ tx'[r].gIns = {Changed(call[r], g)}
        BY <2>2 DEF Alters
      <3>3. g \in GroupRow
        BY Unmoved DEF GroupById
      <3>4. Changed(call[r], g).handle = g.handle
        BY <3>1, <3>3, ChangedType
      <3> QED
        BY <1>2, <2>2, <3>1, <3>2, <3>3, <3>4, ChangedFlags DEF GroupWriteInv
    <2> QED
      BY <2>1, <2>2, StatementShape
         DEF Clean, Statement, Invites, Updates, Deletes, Founds, Enrolls
  <1> QED
    BY <1>1, <1>2

(* A commit changes one group, and of its flags only those its call names. *)
LEMMA FlagsStep ==
  ASSUME TypeOK, RowInv, RowInv', NEW r \in Requests, GroupWriteInv(r),
         Receive(r) \/ HandlerStep(r) \/ Fail(r),
         NEW g \in groups, NEW h \in groups', g.id = h.id,
         NEW f \in (g.flags \ h.flags) \cup (h.flags \ g.flags)
  PROVE  At(r, "commit", {"update"}) /\ f \in call[r].on \cup call[r].off
  <1>1. UniqueGroups(groups) /\ UniqueGroups(groups')
    BY DEF RowInv, RowsInv, TableInv
  <1>2. g # h
    OBVIOUS
  <1>3. h \notin groups /\ g \notin groups'
    BY <1>1, <1>2 DEF UniqueGroups, GroupClash
  <1>4. Commit(r)
    BY <1>3, TablesStay
  <1>5. h \in tx[r].gIns /\ g \in tx[r].gDel
    BY <1>3, <1>4 DEF Commit
  <1> QED
    BY <1>4, <1>5 DEF GroupWriteInv, At, Commit

(* A PATCH changes the flags it names and no other, and nothing else       *)
(* changes a flag: two administrators who set different flags at the same  *)
(* time do not undo each other, for every set of calls and interleaving.   *)
THEOREM PatchesKeepToTheirFlags == Spec => OnlyNamedFlagsChange
  <1> DEFINE Inv == TypeOK /\ RowInv /\ \A r \in Requests : GroupWriteInv(r)
  <1>1. Init => Inv
    <2>1. Init => \A r \in Requests : GroupWriteInv(r)
      BY DEF Init, StoreInit, NoTx, GroupWriteInv
    <2> QED
      BY <2>1, InitType, InitRows
  <1>2. Inv /\ [Next]_vars => Inv'
    <2> SUFFICES ASSUME Inv, [Next]_vars PROVE Inv'
      OBVIOUS
    <2>1. TypeOK' /\ RowInv'
      BY NextType, NextRows
    <2>2. CASE UNCHANGED vars
      BY <2>1, <2>2 DEF vars, GroupWriteInv
    <2>3. CASE Next
      BY <2>1, <2>3, GroupWriteStep DEF Next
    <2> QED
      BY <2>1, <2>2, <2>3
  <1>3. Inv /\ Inv' /\ [Next]_vars =>
          [\A g \in groups, h \in groups' :
             g.id = h.id =>
               \A f \in (g.flags \ h.flags) \cup (h.flags \ g.flags) :
                 \E r \in Requests : At(r, "commit", {"update"})
                                    /\ f \in call[r].on \cup call[r].off]_vars
    BY FlagsStep DEF Next
  <1> QED
    BY <1>1, <1>2, <1>3, PTL DEF Spec, OnlyNamedFlagsChange

-----------------------------------------------------------------------------
(* The search for a handle.  What is known of a request serving c at step  *)
(* s that has read v and answered a: nothing is chosen before the search,  *)
(* nothing answered before the end, and every candidate passed over is     *)
(* taken.                                                                  *)
Generated(c) == c.op \in {"create", "subgroup"} /\ c.handle = NoHandle

Searching(c, s, v, a) ==
  /\ s \notin {"probe", "begin", "exec", "enroll", "commit"} => v.handle = 0
  /\ s # "done" => a = "none"
  /\ (Generated(c) /\ s \in {"probe", "begin", "exec"})
       => \A h \in 0 .. v.handle - 1 : Taken(h)
  /\ (Generated(c) /\ c.valid /\ a = "422") => \A h \in 0 .. MaxSuffix : Taken(h)

SearchInv(r) == Searching(call[r], pc[r], seen[r], reply[r])

(* A handle once taken stays taken: groups are replaced by rows with their *)
(* handle and never removed.                                               *)
LEMMA TakenStays ==
  ASSUME TypeOK, RowInv, NEW r \in Requests, GroupWriteInv(r),
         Receive(r) \/ HandlerStep(r) \/ Fail(r), NEW h, Taken(h)
  PROVE  Taken(h)'
  <1>1. CASE UNCHANGED groups
    BY <1>1 DEF Taken
  <1>2. CASE Commit(r)
    <2>1. PICK g \in groups : g.handle = h
      BY DEF Taken
    <2>2. CASE g \in tx[r].gDel
      BY <1>2, <2>1, <2>2 DEF GroupWriteInv, Commit, Taken
    <2>3. CASE g \notin tx[r].gDel
      BY <1>2, <2>1, <2>3 DEF Commit, Taken
    <2> QED
      BY <2>2, <2>3
  <1> QED
    BY <1>1, <1>2, TablesStay

(* One request moves to what is known of it.                               *)
LEMMA SearchStep ==
  ASSUME TypeOK, \A q \in Requests : SearchInv(q), NEW r \in Requests,
         Receive(r) \/ HandlerStep(r) \/ Fail(r),
         \A h : Taken(h) => Taken(h)',
         Searching(call'[r], pc'[r], seen'[r], reply'[r])
  PROVE  \A q \in Requests : SearchInv(q)'
  <1> SUFFICES ASSUME NEW q \in Requests PROVE SearchInv(q)'
    OBVIOUS
  <1>1. Searching(call'[q], pc'[q], seen'[q], reply'[q])
    <2>1. CASE q = r
      BY <2>1
    <2>2. CASE q # r
      <3>1. SearchInv(q)
        OBVIOUS
      <3> QED
        BY <2>2, <3>1, OthersStay DEF SearchInv
    <2> QED
      BY <2>1, <2>2
  <1> QED
    BY <1>1 DEF Searching, SearchInv

(* An answer that does not say the search has failed.                      *)
LEMMA SearchEnd ==
  ASSUME TypeOK, NEW r \in Requests, NEW code, End(r, code),
         (Generated(call[r]) /\ call[r].valid /\ code = "422")
           => \A h \in 0 .. MaxSuffix : Taken(h)
  PROVE  Searching(call'[r], pc'[r], seen'[r], reply'[r])
  BY EndTx DEF Searching, Unread

(* A handler reads on before it has a handle.                              *)
LEMMA SearchRead ==
  ASSUME TypeOK, NEW r \in Requests, SearchInv(r),
         pc[r] \notin {"probe", "begin", "exec", "enroll", "commit", "done"},
         pc'[r] # "done", seen'[r].handle = seen[r].handle, reply'[r] = reply[r]
  PROVE  Searching(call'[r], pc'[r], seen'[r], reply'[r])
  BY DEF SearchInv, Searching

(* A write inside a transaction ends the need for the search.              *)
LEMMA SearchWrite ==
  ASSUME NEW r \in Requests, SearchInv(r), pc[r] # "done",
         pc'[r] \in {"enroll", "commit"}, call'[r] = call[r],
         reply'[r] = reply[r]
  PROVE  Searching(call'[r], pc'[r], seen'[r], reply'[r])
  BY DEF SearchInv, Searching

(* What Proceed leaves. *)
LEMMA ProceedTo ==
  ASSUME TypeOK, NEW r \in Requests, NEW s, Proceed(r, s)
  PROVE  /\ pc'[r] = s /\ call'[r] = call[r] /\ seen'[r] = seen[r]
         /\ reply'[r] = reply[r]
  BY DEF Proceed, Goto, TypeOK

(* A decision before the handle is chosen.                                 *)
LEMMA SearchDecide ==
  ASSUME TypeOK, NEW r \in Requests, SearchInv(r), NEW verdict, Decide(r, verdict),
         pc[r] \notin {"probe", "begin", "exec", "enroll", "commit", "done"},
         Generated(call[r]) => verdict # "422"
  PROVE  Searching(call'[r], pc'[r], seen'[r], reply'[r])
  <1>1. CASE verdict \in Codes /\ Answer(r, verdict)
    BY <1>1, SearchEnd DEF Answer
  <1>2. CASE verdict \in Steps /\ Proceed(r, verdict)
    <2>1. verdict # "done"
      BY <1>2 DEF Steps
    <2> QED
      BY <1>2, <2>1, ProceedTo, SearchRead
  <1> QED
    BY <1>1, <1>2 DEF Decide

(* The steps all handlers share.                                           *)
LEMMA SearchShared ==
  ASSUME TypeOK, NEW r \in Requests, SearchInv(r),
         Receive(r) \/ Finish(r) \/ Fail(r) \/ ReadGroup(r) \/ Begin(r) \/ Commit(r)
  PROVE  Searching(call'[r], pc'[r], seen'[r], reply'[r])
  <1>1. CASE Receive(r)
    <2>1. PICK c \in Calls : Goto(r, FirstStep(c.op))
      BY <1>1 DEF Receive
    <2>2. FirstStep(c.op) \in {"row", "group", "name"}
      <3>1. c.op \in Ops
        BY CallTyping
      <3> QED
        BY <3>1 DEF FirstStep, Ops, MemberOps, GroupOps
    <2>3. pc'[r] = FirstStep(c.op)
      BY <2>1 DEF Goto, TypeOK
    <2> QED
      BY <1>1, <2>2, <2>3 DEF Receive, SearchInv, Searching
  <1>2. CASE Finish(r)
    <2>1. pc'[r] = "idle" /\ reply'[r] = "none" /\ seen'[r] = seen[r]
      BY <1>2 DEF Finish, Goto, TypeOK
    <2> QED
      BY <1>2, <2>1 DEF Finish, SearchInv, Searching
  <1>3. CASE Fail(r)
    BY <1>3, SearchEnd DEF Fail, Answer
  <1>4. CASE ReadGroup(r)
    <2>1. CASE Answer(r, "404")
      BY <2>1, SearchEnd DEF Answer
    <2>2. CASE \E g : seen' = [seen EXCEPT ![r].archived = g.archived,
                                          ![r].flags = g.flags]
                    /\ Goto(r, "member") /\ UNCHANGED <<call, reply>>
      <3>1. seen'[r].handle = seen[r].handle
        BY <2>2 DEF TypeOK, SeenType
      <3>2. pc'[r] = "member" /\ pc[r] = "group"
        BY <1>4, <2>2 DEF ReadGroup, Goto, TypeOK
      <3> QED
        BY <2>2, <3>1, <3>2, SearchRead
    <2> QED
      BY <1>4, <2>1, <2>2 DEF ReadGroup
  <1>5. CASE Begin(r)
    <2>1. pc'[r] = "exec" /\ pc[r] = "begin"
      BY <1>5 DEF Begin, Goto, TypeOK
    <2> QED
      BY <1>5, <2>1 DEF Begin, SearchInv, Searching
  <1>6. CASE Commit(r)
    <2>1. seen'[r] = Unread /\ call'[r] = call[r]
      BY <1>6 DEF Commit, TypeOK
    <2>2. \/ pc'[r] = "countMembers" /\ reply'[r] = reply[r]
          \/ pc'[r] = "done" /\ reply'[r] \in {"ok", "500"}
      BY <1>6 DEF Commit, Goto, TypeOK
    <2> QED
      BY <1>6, <2>1, <2>2 DEF Commit, SearchInv, Searching, Unread
  <1> QED
    BY <1>1, <1>2, <1>3, <1>4, <1>5, <1>6

(* The membership handlers choose no handle.                               *)
LEMMA SearchMember ==
  ASSUME TypeOK, NEW r \in Requests, SearchInv(r), MembershipStep(r)
  PROVE  Searching(call'[r], pc'[r], seen'[r], reply'[r])
  <1> DEFINE OK == Searching(call'[r], pc'[r], seen'[r], reply'[r])
  <1>1. ~Generated(call[r])
    BY DEF MembershipStep, LoadInvitation, LoadMembership, AuthorizeInvite,
           AuthorizePromote, AuthorizeDemote, AuthorizeRemove, CountAdmins,
           InsertInvitation, UpdateMembership, DeleteMembership, At, Generated
  <1>2. \A code : Answer(r, code) \/ End(r, code) => OK
    BY <1>1, SearchEnd DEF Answer
  <1>3. CASE \/ LoadInvitation(r) \/ AuthorizeInvite(r) \/ AuthorizePromote(r)
             \/ AuthorizeDemote(r) \/ AuthorizeRemove(r)
    <2>1. pc[r] \in {"row", "member"}
      BY <1>3 DEF LoadInvitation, AuthorizeInvite, AuthorizePromote, AuthorizeDemote,
                  AuthorizeRemove, At
    <2>2. Answer(r, "404") \/ \E verdict : Decide(r, verdict)
      BY <1>3 DEF LoadInvitation, AuthorizeInvite, AuthorizePromote,
                  AuthorizeDemote, AuthorizeRemove
    <2> QED
      BY <1>1, <1>2, <2>1, <2>2, SearchDecide
  <1>4. CASE LoadMembership(r)
    <2>1. CASE \E m : /\ seen' = [seen EXCEPT ![r].gid = m.group, ![r].role = m.role]
                      /\ Goto(r, "group") /\ UNCHANGED <<call, reply>>
      <3>1. seen'[r].handle = seen[r].handle
        BY <2>1 DEF TypeOK, SeenType
      <3>2. pc'[r] = "group" /\ pc[r] = "row"
        BY <1>4, <2>1 DEF LoadMembership, At, Goto, TypeOK
      <3> QED
        BY <2>1, <3>1, <3>2, SearchRead
    <2> QED
      BY <1>2, <1>4, <2>1 DEF LoadMembership
  <1>5. CASE CountAdmins(r)
    <2>1. pc[r] = "count"
      BY <1>5 DEF CountAdmins, At
    <2>2. CASE Proceed(r, "begin")
      BY <2>1, <2>2, ProceedTo, SearchRead
    <2> QED
      BY <1>2, <1>5, <2>2 DEF CountAdmins
  <1>6. CASE InsertInvitation(r) \/ UpdateMembership(r) \/ DeleteMembership(r)
    <2>1. pc[r] = "exec"
      BY <1>6 DEF InsertInvitation, UpdateMembership, DeleteMembership, At
    <2>2. \/ \E code : Answer(r, code) \/ End(r, code)
          \/ \E del, ins : WriteMember(r, del, ins)
      BY <1>6 DEF InsertInvitation, UpdateMembership, DeleteMembership
    <2> QED
      BY <1>2, <2>1, <2>2, MemberWriteTx, SearchWrite
  <1> QED
    BY <1>3, <1>4, <1>5, <1>6 DEF MembershipStep

(* The group handlers: a candidate is passed over when it is taken, and    *)
(* the search is given up after the last one.                              *)
LEMMA SearchGroup ==
  ASSUME TypeOK, NEW r \in Requests, SearchInv(r), GroupStep(r)
  PROVE  Searching(call'[r], pc'[r], seen'[r], reply'[r])
  <1>1. CASE AuthorizeSubgroup(r) \/ AuthorizeUpdate(r) \/ AuthorizeArchive(r)
    <2>1. pc[r] = "member"
      BY <1>1 DEF AuthorizeSubgroup, AuthorizeUpdate, AuthorizeArchive, At
    <2>2. \E verdict : Decide(r, verdict) /\ (Generated(call[r]) => verdict # "422")
      BY <1>1 DEF AuthorizeSubgroup, AuthorizeUpdate, AuthorizeArchive, At,
                  SubgroupCheck, Generated
    <2> QED
      BY <2>1, <2>2, SearchDecide
  <1>2. CASE ValidateName(r)
    <2>1. pc[r] = "name" /\ reply[r] = "none"
      BY <1>2 DEF ValidateName, At, SearchInv, Searching
    <2>2. CASE ~call[r].valid /\ Answer(r, "422")
      BY <2>2, SearchEnd DEF Answer
    <2>3. CASE Proceed(r, "probe")
      BY <2>1, <2>3, ProceedTo, SearchRead
    <2>4. CASE call[r].handle # NoHandle /\ Goto(r, "begin") /\ UNCHANGED <<call, reply>>
      <3>1. pc'[r] = "begin"
        BY <2>4 DEF Goto, TypeOK
      <3> QED
        BY <2>1, <2>4, <3>1 DEF Searching, Generated
    <2> QED
      BY <1>2, <2>2, <2>3, <2>4 DEF ValidateName
  <1>3. CASE ProbeHandle(r)
    <2> DEFINE n == seen[r].handle
    <2>1. /\ pc[r] = "probe" /\ reply[r] = "none" /\ n \in Nat
          /\ Generated(call[r]) => \A h \in 0 .. n - 1 : Taken(h)
      BY <1>3, Unmoved DEF ProbeHandle, At, SearchInv, Searching, SeenType
    <2>2. CASE Proceed(r, "begin")
      BY <2>1, <2>2, ProceedTo DEF Searching
    <2>3. Generated(call[r]) /\ Taken(n) => \A h \in 0 .. n : Taken(h)
      <3>1. \A h \in 0 .. n : h \in 0 .. n - 1 \/ h = n
        BY <2>1
      <3> QED
        BY <2>1, <3>1
    <2>4. CASE /\ Taken(n) /\ seen' = [seen EXCEPT ![r].handle = @ + 1]
               /\ UNCHANGED <<pc, call, reply>>
      <3>1. seen'[r].handle = n + 1
        BY <2>4 DEF TypeOK, SeenType
      <3>2. \A h \in 0 .. (n + 1) - 1 : h \in 0 .. n
        BY <2>1
      <3> QED
        BY <2>1, <2>3, <2>4, <3>1, <3>2 DEF Searching
    <2>5. CASE Taken(n) /\ n >= MaxSuffix /\ Answer(r, "422")
      <3>1. \A h \in 0 .. MaxSuffix : h \in 0 .. n
        BY <2>1, <2>5, BoundsAssumption
      <3> QED
        BY <2>3, <2>5, <3>1, SearchEnd DEF Answer
    <2> HIDE DEF n
    <2> QED
      BY <1>3, <2>2, <2>4, <2>5 DEF ProbeHandle, n
  <1>4. CASE InsertGroup(r) \/ EnrollCreator(r) \/ UpdateGroup(r)
    <2>1. pc[r] \in {"exec", "enroll"}
      BY <1>4 DEF InsertGroup, EnrollCreator, UpdateGroup, At
    <2>2. \/ End(r, "409")
          \/ \E del, ins : WriteMember(r, del, ins)
          \/ \E del, ins : \E next \in {"enroll", "commit"} :
               WriteGroup(r, del, ins, next)
      BY <1>4 DEF InsertGroup, EnrollCreator, UpdateGroup
    <2> QED
      BY <2>1, <2>2, SearchEnd, MemberWriteTx, GroupWriteTx, SearchWrite
  <1>5. CASE CountAfterUpdate(r)
    <2>1. pc[r] \in {"countMembers", "countAdmins"}
      BY <1>5 DEF CountAfterUpdate, At
    <2>2. Proceed(r, "countAdmins") \/ Answer(r, "ok")
      BY <1>5 DEF CountAfterUpdate
    <2> QED
      BY <2>1, <2>2, ProceedTo, SearchRead, SearchEnd DEF Answer
  <1> QED
    BY <1>1, <1>2, <1>3, <1>4, <1>5 DEF GroupStep

(* The search takes the first free handle of its series and is given up    *)
(* only when all are taken, though it looks at one candidate per snapshot  *)
(* and other requests found groups in between.                             *)
THEOREM SearchIsExact == Spec => []HandleSearchExact
  <1> DEFINE Inv == /\ TypeOK /\ RowInv
                    /\ \A r \in Requests : GroupWriteInv(r)
                    /\ \A r \in Requests : SearchInv(r)
  <1>1. Init => Inv
    <2>1. Init => \A r \in Requests : GroupWriteInv(r) /\ SearchInv(r)
      BY DEF Init, StoreInit, NoTx, GroupWriteInv, SearchInv, Searching, Unread
    <2> QED
      BY <2>1, InitType, InitRows
  <1>2. Inv /\ [Next]_vars => Inv'
    <2> SUFFICES ASSUME Inv, [Next]_vars PROVE Inv'
      OBVIOUS
    <2>1. TypeOK' /\ RowInv'
      BY NextType, NextRows
    <2>2. CASE UNCHANGED vars
      BY <2>1, <2>2 DEF vars, GroupWriteInv, SearchInv, Searching, Taken
    <2>3. CASE Next
      <3>1. PICK r \in Requests : Receive(r) \/ HandlerStep(r) \/ Fail(r)
        BY <2>3 DEF Next
      <3>2. \A q \in Requests : GroupWriteInv(q)'
        BY <2>1, <3>1, GroupWriteStep
      <3>3. \A h : Taken(h) => Taken(h)'
        BY <3>1, TakenStays
      <3>4. Searching(call'[r], pc'[r], seen'[r], reply'[r])
        BY <3>1, SearchShared, SearchMember, SearchGroup DEF HandlerStep
      <3>5. \A q \in Requests : SearchInv(q)'
        BY <3>1, <3>3, <3>4, SearchStep
      <3> QED
        BY <2>1, <3>2, <3>5
    <2> QED
      BY <2>1, <2>2, <2>3
  <1>3. Inv => HandleSearchExact
    BY DEF HandleSearchExact, SearchInv, Searching, Generated
  <1> QED
    BY <1>1, <1>2, <1>3, PTL DEF Spec

-----------------------------------------------------------------------------
(* The API implements MembershipLifecycle.  A commit is the only step that *)
(* moves the roster, and it moves it as the lifecycle allows because of    *)
(* what its transaction has written: one row at most, or a group together  *)
(* with its first member.                                                  *)

(* What a transaction that is about to commit does to the roster: nothing, *)
(* one row of an existing group, or a founding.                            *)
Keeps(t) ==
  t.mDel = {} /\ t.mIns = {} /\ \A h \in t.gIns : \E g \in t.gDel : g.id = h.id

MovesOne(t) ==
  /\ t.gDel = {} /\ t.gIns = {}
  /\ \/ \E m \in t.mIns : t.mDel = {} /\ t.mIns = {m} /\ ~m.accepted
     \/ \E m \in t.mDel : \E op \in {"accept", "promote", "demote"} :
          t.mDel = {m} /\ t.mIns = {Updated(op, m)}
     \/ \E m \in t.mDel : t.mDel = {m} /\ t.mIns = {}

FoundsOne(t) ==
  /\ t.gDel = {} /\ t.mDel = {}
  /\ \E g \in t.gIns : \E m \in t.mIns :
       t.gIns = {g} /\ t.mIns = {m} /\ m.group = g.id /\ ActiveAdmin(m)

RosterWriteInv(r) ==
  pc[r] = "commit" => Keeps(tx[r]) \/ MovesOne(tx[r]) \/ FoundsOne(tx[r])

(* The groups the calls in flight may still found fit below the bound of   *)
(* the identifiers the refinement maps.                                    *)
Drawing ==
  {q \in Requests : /\ call[q].op \in {"create", "subgroup"}
                    /\ pc[q] \notin {"enroll", "commit", "done"}}

RoomInv ==
  groupSeq + Cardinality(Drawing) \in 0 .. Cardinality(SeedGroups) + MaxGroups

(* A step that does not commit writes what the invariant allows.           *)
LEMMA RosterWriteStep ==
  ASSUME TypeOK, RowInv, TypeOK', NEW r \in Requests,
         Receive(r) \/ HandlerStep(r) \/ Fail(r),
         \A q \in Requests : RosterWriteInv(q)
  PROVE  \A q \in Requests : RosterWriteInv(q)'
  <1> SUFFICES ASSUME NEW q \in Requests, pc'[q] = "commit"
               PROVE  Keeps(tx'[q]) \/ MovesOne(tx'[q]) \/ FoundsOne(tx'[q])
    BY DEF RosterWriteInv, Keeps, MovesOne, FoundsOne
  <1>1. CASE q # r
    BY <1>1, OthersStay DEF RosterWriteInv
  <1>2. CASE q = r
    <2>1. CASE Clean(r)
      BY <1>2, <2>1 DEF Clean, Keeps
    <2>2. CASE Invites(r)
      <3>1. ~Invitation(call[r], memberSeq + 1).accepted
        BY DEF Invitation
      <3> QED
        BY <1>2, <2>2, <3>1 DEF Invites, MovesOne
    <2>3. CASE Updates(r)
      BY <1>2, <2>3 DEF Updates, At, MovesOne
    <2>4. CASE Deletes(r)
      <3>1. \A m, n \in MemberById(call[r].mid) : m = n
        BY DEF RowInv, RowsInv, TableInv, UniqueMemberships, Clash, MemberById
      <3>2. tx'[r].mDel = {} \/ \E m \in tx'[r].mDel : tx'[r].mDel = {m}
        BY <2>4, <3>1 DEF Deletes
      <3> QED
        BY <1>2, <2>4, <3>2 DEF Deletes, Keeps, MovesOne
    <2>5. CASE Enrolls(r)
      <3>1. PICK g \in tx[r].gIns :
              /\ tx[r].gIns = {g}
              /\ tx'[r].mIns = {CreatorRow(call[r].user, g, memberSeq + 1)}
        BY <2>5 DEF Enrolls
      <3> DEFINE m == CreatorRow(call[r].user, g, memberSeq + 1)
      <3>2. m.group = g.id /\ ActiveAdmin(m)
        BY DEF CreatorRow, ActiveAdmin
      <3>3. /\ tx'[r].gDel = {} /\ tx'[r].mDel = {}
            /\ tx'[r].gIns = {g} /\ tx'[r].mIns = {m}
        BY <2>5, <3>1 DEF Enrolls
      <3> HIDE DEF m
      <3> QED
        BY <1>2, <3>2, <3>3 DEF FoundsOne
    <2>6. CASE Alters(r)
      <3>1. PICK g \in GroupById(call[r].gid) :
              tx'[r].gDel = {g} /\ tx'[r].gIns = {Changed(call[r], g)}
        BY <2>6 DEF Alters
      <3>2. g \in GroupRow /\ call[r] \in CallRecord
        BY <2>6, Unmoved, CallTyping DEF Alters, At, NoCall, GroupById
      <3>3. Changed(call[r], g).id = g.id
        BY <2>6, <3>2, ChangedType DEF Alters, At
      <3> QED
        BY <1>2, <2>6, <3>1, <3>3 DEF Alters, Keeps
    <2>7. ~Founds(r)
      BY <1>2 DEF Founds
    <2> QED
      BY <2>1, <2>2, <2>3, <2>4, <2>5, <2>6, <2>7, StatementShape DEF Statement
  <1> QED
    BY <1>1, <1>2

(* What neither takes a call nor inserts a group draws no identifier, and  *)
(* brings no call back to where it may.                                    *)
LEMMA DrawingStays ==
  ASSUME TypeOK, NEW r \in Requests, HandlerStep(r) \/ Fail(r), ~InsertGroup(r)
  PROVE  groupSeq' = groupSeq /\ (r \in Drawing' => r \in Drawing)
  <1> DEFINE Kept == groupSeq' = groupSeq /\ call'[r] = call[r]
             Moves == Kept /\ (pc[r] \in {"enroll", "commit", "done"}
                                 => pc'[r] \in {"commit", "done"})
  <1> USE DEF TypeOK, Goto
  <1>1. \A code : Answer(r, code) => Moves
    BY DEF Answer, End
  <1>2. \A step : Proceed(r, step) => Kept
    BY DEF Proceed, TablesUnchanged
  <1>3. \A verdict : Decide(r, verdict) => Kept
    BY <1>1, <1>2 DEF Decide
  <1>4. \A del, ins : WriteMember(r, del, ins) => Moves
    BY DEF WriteMember
  <1>5. CASE Finish(r)
    <2>1. groupSeq' = groupSeq /\ call'[r] = NoCall
      BY <1>5 DEF Finish, TablesUnchanged
    <2> QED
      BY <2>1 DEF Drawing, NoCall
  <1>6. CASE Commit(r)
    <2>1. Kept /\ pc[r] = "commit"
          /\ (call[r].op # "update" => pc'[r] = "done")
      BY <1>6 DEF Commit
    <2> QED
      BY <2>1 DEF Drawing
  <1>7. CASE Fail(r)
    BY <1>1, <1>7 DEF Fail, Drawing
  <1>8. CASE ReadGroup(r) \/ Begin(r)
    <2>1. Kept /\ pc[r] \in {"group", "begin"}
      BY <1>1, <1>8 DEF ReadGroup, Begin, TablesUnchanged
    <2> QED
      BY <2>1 DEF Drawing
  <1>9. CASE MembershipStep(r)
    <2>1. Kept /\ call[r].op \notin {"create", "subgroup"}
      BY <1>1, <1>2, <1>3, <1>4, <1>9
         DEF MembershipStep, LoadInvitation, LoadMembership, AuthorizeInvite,
             AuthorizePromote, AuthorizeDemote, AuthorizeRemove, CountAdmins,
             InsertInvitation, UpdateMembership, DeleteMembership, At, End,
             TablesUnchanged
    <2> QED
      BY <2>1 DEF Drawing
  <1>10. CASE EnrollCreator(r)
    BY <1>4, <1>10 DEF EnrollCreator, Drawing
  <1>11. CASE /\ GroupStep(r) /\ ~EnrollCreator(r)
    <2>1. Kept /\ pc[r] \notin {"enroll", "commit", "done"}
      BY <1>1, <1>2, <1>3, <1>11
         DEF GroupStep, AuthorizeSubgroup, AuthorizeUpdate, AuthorizeArchive,
             ValidateName, ProbeHandle, UpdateGroup, CountAfterUpdate, At,
             WriteGroup, TablesUnchanged
    <2> QED
      BY <2>1 DEF Drawing
  <1> QED
    BY <1>5, <1>6, <1>7, <1>8, <1>9, <1>10, <1>11 DEF HandlerStep

(* An identifier is drawn only by a call that was counted when it came in. *)
LEMMA RoomStep ==
  ASSUME TypeOK, TypeOK', RoomInv, NEW r \in Requests,
         Receive(r) \/ HandlerStep(r) \/ Fail(r)
  PROVE  RoomInv'
  <1> DEFINE bound == Cardinality(SeedGroups) + MaxGroups
  <1>1. bound \in Nat /\ MaxGroups \in Nat /\ MaxGroups <= bound
    BY SeedAssumption, BoundsAssumption, FS_CardinalityType
  <1>2. /\ IsFiniteSet(Drawing) /\ IsFiniteSet(Drawing') /\ IsFiniteSet(Founding)
        /\ Cardinality(Drawing) \in Nat /\ Cardinality(Drawing') \in Nat
        /\ Cardinality(Founding) \in Nat
    <2>1. Drawing \in SUBSET Requests /\ Drawing' \in SUBSET Requests
          /\ Founding \in SUBSET Requests
      BY DEF Drawing, Founding
    <2> QED
      BY <2>1, PoolAssumption, FS_Subset, FS_CardinalityType
  <1>3. groupSeq \in Nat /\ groupSeq' \in Nat
    BY DEF TypeOK
  <1>4. \A q \in Requests \ {r} : q \in Drawing' <=> q \in Drawing
    BY OthersStay DEF Drawing
  <1>5. CASE Receive(r)
    <2>1. PICK c \in Calls : WithinBounds(c) /\ call' = [call EXCEPT ![r] = c]
      BY <1>5 DEF Receive
    <2>2. groupSeq' = groupSeq /\ call'[r] = c
      BY <1>5, <2>1 DEF Receive, TablesUnchanged, TypeOK
    <2>3. CASE c.op \in {"create", "subgroup"}
      <3>1. groupSeq + Cardinality(Founding) < MaxGroups
        BY <2>1, <2>3 DEF WithinBounds
      <3>2. Drawing' \subseteq Founding \cup {r}
        BY <1>4 DEF Drawing, Founding
      <3>3. /\ IsFiniteSet(Founding \cup {r})
            /\ Cardinality(Founding \cup {r}) \in Nat
            /\ Cardinality(Founding \cup {r}) <= Cardinality(Founding) + 1
        <4>1. /\ IsFiniteSet(Founding \cup {r})
              /\ Cardinality(Founding \cup {r})
                   = IF r \in Founding THEN Cardinality(Founding)
                     ELSE Cardinality(Founding) + 1
          BY <1>2, FS_AddElement, Zenon
        <4> QED
          BY <1>2, <4>1
      <3>4. Cardinality(Drawing') <= Cardinality(Founding \cup {r})
        BY <3>2, <3>3, FS_Subset
      <3>5. groupSeq' + Cardinality(Drawing') \in 0 .. bound
        BY <1>1, <1>2, <1>3, <2>2, <3>1, <3>3, <3>4
      <3> QED
        BY <3>5 DEF RoomInv
    <2>4. CASE c.op \notin {"create", "subgroup"}
      <3>1. Drawing' \subseteq Drawing
        BY <1>4, <2>2, <2>4 DEF Drawing
      <3>2. Cardinality(Drawing') <= Cardinality(Drawing)
        BY <1>2, <3>1, FS_Subset
      <3>3. groupSeq' + Cardinality(Drawing') \in 0 .. bound
        BY <1>1, <1>2, <1>3, <2>2, <3>2 DEF RoomInv
      <3> QED
        BY <3>3 DEF RoomInv
    <2> QED
      BY <2>3, <2>4
  <1>6. CASE InsertGroup(r)
    <2>1. groupSeq' = groupSeq + 1 /\ r \in Drawing /\ r \notin Drawing'
      <3>1. pc'[r] \in {"enroll", "done"}
        BY <1>6 DEF InsertGroup, End, WriteGroup, Goto, TypeOK
      <3> QED
        BY <1>6, <3>1 DEF InsertGroup, At, Drawing
    <2>2. Drawing' = Drawing \ {r}
      BY <1>4, <2>1 DEF Drawing
    <2>3. Cardinality(Drawing') = Cardinality(Drawing) - 1
      BY <1>2, <2>1, <2>2, FS_RemoveElement
    <2>4. groupSeq' + Cardinality(Drawing') \in 0 .. bound
      BY <1>1, <1>2, <1>3, <2>1, <2>3 DEF RoomInv
    <2> QED
      BY <2>4 DEF RoomInv
  <1>7. CASE ~Receive(r) /\ ~InsertGroup(r)
    <2>1. groupSeq' = groupSeq /\ (r \in Drawing' => r \in Drawing)
      BY <1>7, DrawingStays
    <2>2. Drawing' \subseteq Drawing
      BY <1>4, <2>1 DEF Drawing
    <2>3. Cardinality(Drawing') <= Cardinality(Drawing)
      BY <1>2, <2>2, FS_Subset
    <2>4. groupSeq' + Cardinality(Drawing') \in 0 .. bound
      BY <1>1, <1>2, <1>3, <2>1, <2>3 DEF RoomInv
    <2> QED
      BY <2>4 DEF RoomInv
  <1> QED
    BY <1>5, <1>6, <1>7

-----------------------------------------------------------------------------
(* A roster as the table of its standings.                                 *)

StandingIn(ms, g, u) ==
  LET own == {m \in ms : m.group = g /\ m.user = u}
  IN  IF own = {} THEN [status |-> "none", role |-> "member"]
      ELSE LET m == CHOOSE m \in own : TRUE
           IN  [status |-> IF m.accepted THEN "active" ELSE "invited",
                role |-> m.role]

Standing(m) ==
  [status |-> IF m.accepted THEN "active" ELSE "invited", role |-> m.role]

TableOf(ms) ==
  [g \in GroupIdBound |-> [u \in Users |-> StandingIn(ms, g, u)]]

(* The row of a user in a group, when there is one, is their standing.     *)
LEMMA StandingOfRow ==
  ASSUME NEW ms, UniqueMemberships(ms), NEW m \in ms
  PROVE  StandingIn(ms, m.group, m.user) = Standing(m)
  <1> DEFINE own == {n \in ms : n.group = m.group /\ n.user = m.user}
  <1>1. own = {m}
    BY DEF UniqueMemberships, Clash
  <1>2. own # {} /\ (CHOOSE n \in own : TRUE) = m
    BY <1>1
  <1> HIDE DEF own
  <1>3. StandingIn(ms, m.group, m.user)
          = LET n == CHOOSE n \in own : TRUE
            IN  [status |-> IF n.accepted THEN "active" ELSE "invited",
                 role |-> n.role]
    BY <1>2 DEF StandingIn, own
  <1> QED
    BY <1>2, <1>3 DEF Standing

(* A user without a row in a group has no standing there.                  *)
LEMMA StandingOfNone ==
  ASSUME NEW ms, NEW g, NEW u, ~\E m \in ms : m.group = g /\ m.user = u
  PROVE  StandingIn(ms, g, u) = [status |-> "none", role |-> "member"]
  BY DEF StandingIn

(* ms and ns have the same rows but for those of w in k. *)
SameBut(ms, ns, k, w) ==
  \A m : ~(m.group = k /\ m.user = w) => (m \in ms <=> m \in ns)

(* From ms to ns one standing moves, that of w in k. *)
MovesAt(ms, ns, k, w) ==
  TableOf(ns) = [TableOf(ms) EXCEPT ![k][w] = StandingIn(ns, k, w)]

(* Tables that agree but for one user's rows in one group agree but for    *)
(* one standing.                                                           *)
LEMMA OneStandingMoves ==
  ASSUME NEW ms, NEW ns, NEW k \in GroupIdBound, NEW w \in Users,
         SameBut(ms, ns, k, w)
  PROVE  MovesAt(ms, ns, k, w)
  <1>1. ASSUME NEW g, NEW u, ~(g = k /\ u = w)
        PROVE  StandingIn(ns, g, u) = StandingIn(ms, g, u)
    <2>1. {m \in ms : m.group = g /\ m.user = u}
            = {m \in ns : m.group = g /\ m.user = u}
      BY <1>1 DEF SameBut
    <2> QED
      BY <2>1 DEF StandingIn
  <1>2. ASSUME NEW g \in GroupIdBound
        PROVE  TableOf(ns)[g]
                 = [TableOf(ms) EXCEPT ![k][w] = StandingIn(ns, k, w)][g]
    <2>1. CASE g = k
      BY <1>1, <2>1 DEF TableOf
    <2>2. CASE g # k
      BY <1>1, <2>2 DEF TableOf
    <2> QED
      BY <2>1, <2>2
  <1> QED
    BY <1>2 DEF TableOf, MovesAt

-----------------------------------------------------------------------------
(* The steps of the lifecycle, by what they do to one standing.            *)
Advances(old, new) ==
  \/ /\ old.status = "none"
     /\ \E role \in Roles : new = [status |-> "invited", role |-> role]
  \/ old.status = "invited" /\ new = [old EXCEPT !.status = "active"]
  \/ /\ old.status # "none"
     /\ \/ old.role = "member" /\ new = [old EXCEPT !.role = "admin"]
        \/ old.role = "admin" /\ new = [old EXCEPT !.role = "member"]
        \/ new = [status |-> "none", role |-> "member"]

Founded == {g.id : g \in groups}

(* The refinement maps the standings to the table of the committed rows.   *)
LEMMA StandingMap ==
  /\ [g \in GroupIdBound |-> [u \in Users |-> StandingOf(g, u)]] = TableOf(members)
  /\ [g \in GroupIdBound |-> [u \in Users |-> StandingOf(g, u)]]' = TableOf(members')
  BY DEF StandingOf, MembersOf, TableOf, StandingIn

(* A step of one standing of an existing group is one of the lifecycle.    *)
LEMMA RosterMoves ==
  ASSUME NEW k \in GroupIdBound, NEW w \in Users, k \in Founded, UNCHANGED Founded,
         Advances(StandingIn(members, k, w), StandingIn(members', k, w)),
         MovesAt(members, members', k, w)
  PROVE  Roster!Next
  <1> DEFINE old == StandingIn(members, k, w)
             new == StandingIn(members', k, w)
  <1>1. TableOf(members)[k][w] = old
    BY DEF TableOf
  <1> HIDE DEF old
  <1>2. Roster!RosterStep(k, w)
    BY <1>1, StandingMap
       DEF MovesAt, Advances, Founded, old, Roles, Roster!RosterStep,
           Roster!Invite, Roster!Accept, Roster!ChangeRole, Roster!Remove,
           Roster!Becomes, Roster!NoStanding
  <1> QED
    BY <1>2 DEF Roster!Next

(* The founding of a group with its first member is one, too.              *)
LEMMA RosterFounds ==
  ASSUME NEW k \in GroupIdBound, NEW w \in Users, k \notin Founded,
         Founded' = Founded \cup {k},
         StandingIn(members', k, w) = [status |-> "active", role |-> "admin"],
         MovesAt(members, members', k, w)
  PROVE  Roster!Next
  <1>1. Roster!Found(k, w)
    BY StandingMap DEF MovesAt, Founded, Roster!Found, Roster!Becomes
  <1> QED
    BY <1>1 DEF Roster!Next

(* A step that moves neither the rosters nor the set of groups stutters.   *)
LEMMA RosterStutters ==
  ASSUME UNCHANGED <<Founded, members>>
  PROVE  UNCHANGED Roster!lifecycleVars
  BY StandingMap DEF Founded, Roster!lifecycleVars

(* Every identifier the committed and the pending rows use is mapped.      *)
LEMMA BoundedIds ==
  ASSUME TypeOK, RowInv, RoomInv, NEW r \in Requests,
         NEW g \in groups \cup tx[r].gIns
  PROVE  g.id \in GroupIdBound
  <1>1. g.id \in Ids
    BY Unmoved DEF TxType, GroupRow
  <1>2. g.id <= groupSeq
    BY DEF RowInv, RowsInv, TableInv, PendingInv
  <1>3. /\ Cardinality(SeedGroups) + MaxGroups \in Nat
        /\ Drawing \in SUBSET Requests
    BY SeedAssumption, BoundsAssumption, FS_CardinalityType DEF Drawing
  <1>4. Cardinality(Drawing) \in Nat
    BY <1>3, PoolAssumption, FS_Subset, FS_CardinalityType
  <1> QED
    BY <1>1, <1>2, <1>3, <1>4, Unmoved DEF RoomInv, GroupIdBound, Ids

(* A commit moves the roster as its writes say.                            *)
LEMMA CommitMoves ==
  ASSUME TypeOK, RowInv, RoomInv, TypeOK', RowInv',
         NEW r \in Requests, RosterWriteInv(r), Commit(r)
  PROVE  Roster!Next \/ UNCHANGED Roster!lifecycleVars
  <1> DEFINE t == tx[r]
  <1>1. /\ members' = (members \ t.mDel) \cup t.mIns
        /\ groups' = (groups \ t.gDel) \cup t.gIns
        /\ Keeps(t) \/ MovesOne(t) \/ FoundsOne(t)
    BY DEF Commit, RosterWriteInv
  <1>2. /\ UniqueMemberships(members) /\ UniqueMemberships(members')
        /\ UniqueGroups(groups')
    BY DEF RowInv, RowsInv, TableInv
  <1>3. /\ t.mDel \subseteq members /\ t.gDel \subseteq groups
        /\ t.mIns \cap members \subseteq t.mDel
        /\ t.gIns \cap groups \subseteq t.gDel
        /\ \A m \in t.mIns : \E g \in groups \cup t.gIns : g.id = m.group
        /\ \A m \in members : \E g \in groups : g.id = m.group
        /\ \A g \in t.gDel : \E h \in t.gIns : h.id = g.id
    BY DEF RowInv, RowsInv, TableInv, PendingInv
  <1>4. members \subseteq MembershipRow /\ t.mIns \subseteq MembershipRow
    BY Unmoved DEF TxType
  <1>5. \A g \in groups \cup t.gIns : g.id \in GroupIdBound
    BY BoundedIds
  <1> HIDE DEF t
  <1>6. CASE Keeps(t)
    <2>1. members' = members
      BY <1>1, <1>6 DEF Keeps
    <2>2. UNCHANGED Founded
      BY <1>1, <1>3, <1>6 DEF Keeps, Founded
    <2> QED
      BY <2>1, <2>2, RosterStutters
  <1>7. CASE MovesOne(t)
    <2>1. groups' = groups /\ UNCHANGED Founded
      BY <1>1, <1>7 DEF MovesOne, Founded
    <2>2. \A m \in members \cup t.mIns :
            m.group \in Founded /\ m.group \in GroupIdBound /\ m.user \in Users
      BY <1>3, <1>4, <1>5, <1>7 DEF MovesOne, Founded, MembershipRow
    <2>3. ASSUME NEW m \in t.mIns, t.mDel = {}, t.mIns = {m}, ~m.accepted
          PROVE  Roster!Next
      <3>1. members' = members \cup {m} /\ m \notin members /\ m \in members'
        BY <1>1, <1>3, <2>3
      <3>2. ~\E n \in members : n.group = m.group /\ n.user = m.user
        BY <1>2, <3>1 DEF UniqueMemberships, Clash
      <3>3. StandingIn(members, m.group, m.user)
              = [status |-> "none", role |-> "member"]
        BY <3>2, StandingOfNone
      <3>4. StandingIn(members', m.group, m.user)
              = [status |-> "invited", role |-> m.role]
        BY <1>2, <2>3, <3>1, StandingOfRow DEF Standing
      <3>5. Advances(StandingIn(members, m.group, m.user),
                     StandingIn(members', m.group, m.user))
        BY <1>4, <3>3, <3>4 DEF Advances, MembershipRow
      <3>6. SameBut(members, members', m.group, m.user)
        BY <3>1 DEF SameBut
      <3>7. MovesAt(members, members', m.group, m.user)
        BY <2>2, <3>6, OneStandingMoves
      <3> QED
        BY <2>1, <2>2, <3>5, <3>7, RosterMoves
    <2>4. ASSUME NEW m \in t.mDel, NEW op \in {"accept", "promote", "demote"},
                 t.mDel = {m}, t.mIns = {Updated(op, m)}
          PROVE  Roster!Next \/ UNCHANGED Roster!lifecycleVars
      <3> DEFINE n == Updated(op, m)
      <3>1. m \in members /\ m \in MembershipRow
        BY <1>3, <1>4
      <3>2. n.group = m.group /\ n.user = m.user
        BY <3>1, UpdatedType
      <3>3. n = m \/ Advances(Standing(m), Standing(n))
        BY <3>1 DEF Updated, Advances, Standing, MembershipRow, Roles
      <3>4. members' = (members \ {m}) \cup {n} /\ n \in members'
        BY <1>1, <2>4
      <3> HIDE DEF n
      <3>5. CASE n = m
        <4>1. members' = members
          BY <3>1, <3>4, <3>5
        <4> QED
          BY <2>1, <4>1, RosterStutters
      <3>6. CASE Advances(Standing(m), Standing(n))
        <4>1. StandingIn(members, m.group, m.user) = Standing(m)
          BY <1>2, <3>1, StandingOfRow
        <4>2. StandingIn(members', n.group, n.user) = Standing(n)
          BY <1>2, <3>4, StandingOfRow
        <4>3. Advances(StandingIn(members, m.group, m.user),
                       StandingIn(members', m.group, m.user))
          BY <3>2, <3>6, <4>1, <4>2
        <4>4. SameBut(members, members', m.group, m.user)
          BY <3>2, <3>4 DEF SameBut
        <4>5. MovesAt(members, members', m.group, m.user)
          BY <2>2, <3>1, <4>4, OneStandingMoves
        <4> QED
          BY <2>1, <2>2, <3>1, <4>3, <4>5, RosterMoves
      <3> QED
        BY <3>3, <3>5, <3>6
    <2>5. ASSUME NEW m \in t.mDel, t.mDel = {m}, t.mIns = {}
          PROVE  Roster!Next
      <3>1. m \in members /\ members' = members \ {m}
        BY <1>1, <1>3, <2>5
      <3>2. ~\E n \in members' : n.group = m.group /\ n.user = m.user
        BY <1>2, <3>1 DEF UniqueMemberships, Clash
      <3>3. StandingIn(members, m.group, m.user) = Standing(m)
        BY <1>2, <3>1, StandingOfRow
      <3>4. StandingIn(members', m.group, m.user)
              = [status |-> "none", role |-> "member"]
        BY <3>2, StandingOfNone
      <3>5. Advances(StandingIn(members, m.group, m.user),
                     StandingIn(members', m.group, m.user))
        BY <3>3, <3>4 DEF Advances, Standing
      <3>6. SameBut(members, members', m.group, m.user)
        BY <3>1 DEF SameBut
      <3>7. MovesAt(members, members', m.group, m.user)
        BY <2>2, <3>1, <3>6, OneStandingMoves
      <3> QED
        BY <2>1, <2>2, <3>1, <3>5, <3>7, RosterMoves
    <2> QED
      BY <1>7, <2>3, <2>4, <2>5 DEF MovesOne
  <1>8. CASE FoundsOne(t)
    <2>1. PICK g \in t.gIns : \E m \in t.mIns :
            t.gIns = {g} /\ t.mIns = {m} /\ m.group = g.id /\ ActiveAdmin(m)
      BY <1>8 DEF FoundsOne
    <2>2. PICK m \in t.mIns :
            t.gIns = {g} /\ t.mIns = {m} /\ m.group = g.id /\ ActiveAdmin(m)
      BY <2>1
    <2>3. /\ groups' = groups \cup {g} /\ g \notin groups
          /\ members' = members \cup {m} /\ m \in members'
      BY <1>1, <1>3, <1>8, <2>2 DEF FoundsOne
    <2>4. g.id \notin Founded /\ Founded' = Founded \cup {g.id}
      BY <1>2, <2>3 DEF UniqueGroups, GroupClash, Founded
    <2>5. g.id \in GroupIdBound /\ m.user \in Users
      BY <1>4, <1>5 DEF MembershipRow
    <2>6. StandingIn(members', g.id, m.user) = [status |-> "active", role |-> "admin"]
      <3>1. StandingIn(members', m.group, m.user) = Standing(m)
        BY <1>2, <2>3, StandingOfRow
      <3> QED
        BY <2>2, <3>1 DEF Standing, ActiveAdmin
    <2>7. SameBut(members, members', g.id, m.user)
      BY <2>2, <2>3 DEF SameBut
    <2>8. MovesAt(members, members', g.id, m.user)
      BY <2>5, <2>7, OneStandingMoves
    <2> QED
      BY <2>4, <2>5, <2>6, <2>8, RosterFounds
  <1> QED
    BY <1>1, <1>6, <1>7, <1>8

(* The database the server starts on is a roster of the lifecycle.         *)
LEMMA RosterInit ==
  ASSUME Init
  PROVE  Roster!Init
  <1>1. groups = SeedGroups /\ members = SeedMembers
    BY DEF Init, StoreInit
  <1>2. Cardinality(SeedGroups) \in Nat /\ MaxGroups \in Nat
    BY SeedAssumption, BoundsAssumption, FS_CardinalityType
  <1>3. Founded \subseteq GroupIdBound
    BY <1>1, <1>2, SeedAssumption DEF Founded, GroupIdBound, GroupRow, Ids
  <1>4. ASSUME NEW g, NEW u
        PROVE  StandingIn(members, g, u) \in Roster!Standings
    <2>1. CASE \E m \in members : m.group = g /\ m.user = u
      <3>1. PICK m \in members : m.group = g /\ m.user = u
        BY <2>1
      <3>2. StandingIn(members, g, u) = Standing(m)
        BY <1>1, <3>1, SeedAssumption, StandingOfRow
      <3>3. m.role \in Roles /\ m.accepted \in BOOLEAN
        BY <1>1, SeedAssumption DEF MembershipRow
      <3> QED
        BY <3>2, <3>3 DEF Standing, Roster!Standings, Roles
    <2>2. CASE ~\E m \in members : m.group = g /\ m.user = u
      BY <2>2, StandingOfNone DEF Roster!Standings, Roster!NoStanding
    <2> QED
      BY <2>1, <2>2
  <1>5. TableOf(members) \in [GroupIdBound -> [Users -> Roster!Standings]]
    BY <1>4 DEF TableOf
  <1>6. ASSUME NEW g \in GroupIdBound \ Founded, NEW u \in Users
        PROVE  TableOf(members)[g][u] = Roster!NoStanding
    <2>1. ~\E m \in members : m.group = g /\ m.user = u
      BY <1>1, SeedAssumption DEF Founded
    <2>2. StandingIn(members, g, u) = [status |-> "none", role |-> "member"]
      BY <2>1, StandingOfNone
    <2> QED
      BY <2>2 DEF TableOf, Roster!NoStanding
  <1> QED
    BY <1>3, <1>5, <1>6, StandingMap DEF Roster!Init, Founded

(* Every behaviour of the API is one of MembershipLifecycle: in whatever   *)
(* order handlers read, write and commit, and whatever fails, the roster   *)
(* changes by one step of one user's standing at a time, or by a founding, *)
(* and only as the lifecycle allows.                                       *)
THEOREM LifecycleImplemented == Spec => ImplementsLifecycle
  <1> DEFINE Inv == /\ TypeOK /\ RowInv /\ RoomInv
                    /\ \A r \in Requests : RosterWriteInv(r)
  <1>1. Init => Inv /\ Roster!Init
    <2> SUFFICES ASSUME Init PROVE Inv /\ Roster!Init
      OBVIOUS
    <2>1. \A r \in Requests : RosterWriteInv(r)
      BY DEF Init, StoreInit, RosterWriteInv
    <2>2. RoomInv
      <3>1. Drawing = {}
        BY DEF Init, StoreInit, NoCall, Drawing
      <3>2. Cardinality(Drawing) = 0
        BY <3>1, FS_EmptySet
      <3>3. groupSeq = Cardinality(SeedGroups) /\ Cardinality(SeedGroups) \in Nat
        BY SeedAssumption, FS_CardinalityType DEF Init, StoreInit
      <3> QED
        BY <3>2, <3>3, BoundsAssumption DEF RoomInv
    <2> QED
      BY <2>1, <2>2, InitType, InitRows, RosterInit
  <1>2. Inv /\ [Next]_vars => Inv' /\ [Roster!Next]_(Roster!lifecycleVars)
    <2> SUFFICES ASSUME Inv, [Next]_vars
                 PROVE  Inv' /\ (Roster!Next \/ UNCHANGED Roster!lifecycleVars)
      OBVIOUS
    <2>1. TypeOK' /\ RowInv'
      BY NextType, NextRows
    <2>2. CASE UNCHANGED vars
      <3>1. UNCHANGED <<Founded, members>>
        BY <2>2 DEF vars, Founded
      <3>2. RoomInv' /\ \A r \in Requests : RosterWriteInv(r)'
        BY <2>2 DEF vars, RoomInv, Drawing, RosterWriteInv
      <3> QED
        BY <2>1, <3>1, <3>2, RosterStutters
    <2>3. CASE Next
      <3>1. PICK r \in Requests : Receive(r) \/ HandlerStep(r) \/ Fail(r)
        BY <2>3 DEF Next
      <3>2. RoomInv' /\ \A q \in Requests : RosterWriteInv(q)'
        BY <2>1, <3>1, RosterWriteStep, RoomStep
      <3>3. CASE Commit(r)
        BY <2>1, <3>2, <3>3, CommitMoves
      <3>4. CASE ~Commit(r)
        <4>1. UNCHANGED <<groups, members>>
          BY <3>1, <3>4, TablesStay
        <4>2. UNCHANGED <<Founded, members>>
          BY <4>1 DEF Founded
        <4> QED
          BY <2>1, <3>2, <4>2, RosterStutters
      <3> QED
        BY <3>3, <3>4
    <2> QED
      BY <2>2, <2>3
  <1> QED
    BY <1>1, <1>2, PTL DEF Spec, ImplementsLifecycle, Roster!Lifecycle
=============================================================================
