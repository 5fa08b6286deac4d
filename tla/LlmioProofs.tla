---------------------------- MODULE LlmioProofs ----------------------------
(***************************************************************************)
(* Theorems about Llmio for every set of users, requests and calls, every  *)
(* pool size and every database to start from: its types, the shape of its *)
(* steps, and the rows that transactions write and commit.                 *)
(***************************************************************************)
EXTENDS Llmio, TLAPS, FiniteSetTheorems

-----------------------------------------------------------------------------
(* Type correctness.  First the steps that handlers are made of.           *)

(* Every call of the instance is a call record, and none is NoCall.        *)
LEMMA CallTyping ==
  \A c \in Calls : c # NoCall /\ c \in CallRecord /\ c.op \in Ops
  BY CallsAssumption DEF CallRecord, NoCall, Ops, MemberOps, GroupOps

(* The empty transaction and the empty reads have their types.             *)
LEMMA EmptyTyping ==
  /\ NoTx \in TxType /\ ~NoTx.open
  /\ Unread \in SeenType
  /\ NoCall.op = "none"
  BY DEF NoTx, Unread, TxType, SeenType, Roles, NoCall

(* One request moves, leaving the tables typed: TypeOK needs checking only *)
(* for it.                                                                 *)
LEMMA StepType ==
  ASSUME TypeOK, NEW r \in Requests,
         NEW t \in TxType, NEW s \in Steps \cup {"idle", "done"},
         NEW c \in Calls \cup {NoCall}, NEW v \in SeenType,
         NEW a \in Codes \cup {"none"},
         groups' \subseteq GroupRow, members' \subseteq MembershipRow,
         groupSeq' \in Nat, memberSeq' \in Nat,
         tx' = [tx EXCEPT ![r] = t], pc' = [pc EXCEPT ![r] = s],
         call' = [call EXCEPT ![r] = c], seen' = [seen EXCEPT ![r] = v],
         reply' = [reply EXCEPT ![r] = a],
         t.open <=> s \in InsideTx, ~t.open => t = NoTx,
         s = "idle" <=> c = NoCall,
         (c.op = "invite" /\ s \in {"begin", "exec"}) => c.who \in Users
  PROVE  TypeOK'
  <1>1. ASSUME NEW q \in Requests
        PROVE  /\ tx'[q].open <=> pc'[q] \in InsideTx
               /\ ~tx'[q].open => tx'[q] = NoTx
               /\ pc'[q] = "idle" <=> call'[q] = NoCall
               /\ (call'[q].op = "invite" /\ pc'[q] \in {"begin", "exec"})
                    => call'[q].who \in Users
    BY DEF TypeOK, InTx
  <1>2. /\ tx' \in [Requests -> TxType]
        /\ pc' \in [Requests -> Steps \cup {"idle", "done"}]
        /\ call' \in [Requests -> Calls \cup {NoCall}]
        /\ seen' \in [Requests -> SeenType]
        /\ reply' \in [Requests -> Codes \cup {"none"}]
    BY DEF TypeOK
  <1> QED
    BY <1>1, <1>2 DEF TypeOK, InTx

(* What TypeOK says of one request, in the form a step that moves it needs. *)
LEMMA Unmoved ==
  ASSUME TypeOK, NEW r \in Requests
  PROVE  /\ tx = [tx EXCEPT ![r] = tx[r]] /\ tx[r] \in TxType
         /\ pc = [pc EXCEPT ![r] = pc[r]]
         /\ pc[r] \in Steps \cup {"idle", "done"}
         /\ call = [call EXCEPT ![r] = call[r]]
         /\ call[r] \in Calls \cup {NoCall}
         /\ seen = [seen EXCEPT ![r] = seen[r]] /\ seen[r] \in SeenType
         /\ reply = [reply EXCEPT ![r] = reply[r]]
         /\ reply[r] \in Codes \cup {"none"}
         /\ groups \subseteq GroupRow /\ members \subseteq MembershipRow
         /\ groupSeq \in Nat /\ memberSeq \in Nat
  BY DEF TypeOK

(* Ending a handler keeps the types, inside a transaction or outside.      *)
LEMMA EndType ==
  ASSUME TypeOK, NEW r \in Requests, NEW code \in Codes, pc[r] # "idle",
         End(r, code), groupSeq' \in Nat, memberSeq' \in Nat
  PROVE  TypeOK'
  <1>1. call[r] # NoCall
    BY DEF TypeOK
  <1>2. "done" \notin InsideTx
    BY DEF InsideTx
  <1> QED
    BY <1>1, <1>2, Unmoved, EmptyTyping,
       StepType DEF End, Goto

(* So does an answer, which leaves the sequences alone too.                *)
LEMMA AnswerType ==
  ASSUME TypeOK, NEW r \in Requests, NEW code \in Codes, pc[r] # "idle",
         Answer(r, code)
  PROVE  TypeOK'
  BY EndType, Unmoved DEF Answer

(* Reads move on from a step outside any transaction to another one.       *)
LEMMA ReadType ==
  ASSUME TypeOK, NEW r \in Requests, NEW v \in SeenType,
         NEW step \in Steps \ InsideTx, pc[r] \in Steps \ InsideTx,
         (call[r].op = "invite" /\ step = "begin") => call[r].who \in Users,
         seen' = [seen EXCEPT ![r] = v], Goto(r, step), TablesUnchanged,
         UNCHANGED <<tx, call, reply>>
  PROVE  TypeOK'
  <1>1. call[r] # NoCall /\ ~tx[r].open /\ tx[r] = NoTx
    BY DEF TypeOK, Steps, InTx
  <1>2. step \notin InsideTx /\ step # "idle" /\ step # "exec"
    BY DEF InsideTx, Steps
  <1>3. /\ groups' \subseteq GroupRow /\ members' \subseteq MembershipRow
        /\ groupSeq' \in Nat /\ memberSeq' \in Nat
        /\ tx' = [tx EXCEPT ![r] = tx[r]] /\ call' = [call EXCEPT ![r] = call[r]]
        /\ reply' = [reply EXCEPT ![r] = reply[r]]
        /\ pc' = [pc EXCEPT ![r] = step]
    BY Unmoved DEF TablesUnchanged, Goto
  <1>4. /\ tx[r] \in TxType /\ step \in Steps \cup {"idle", "done"}
        /\ call[r] \in Calls \cup {NoCall} /\ reply[r] \in Codes \cup {"none"}
        /\ tx[r].open <=> step \in InsideTx
        /\ step = "idle" <=> call[r] = NoCall
        /\ (call[r].op = "invite" /\ step \in {"begin", "exec"})
             => call[r].who \in Users
    BY <1>1, <1>2, Unmoved
  <1> QED
    BY <1>1, <1>3, <1>4, StepType

(* Moving on after a read keeps the types.                                 *)
LEMMA ProceedType ==
  ASSUME TypeOK, NEW r \in Requests,
         NEW step \in Steps \ InsideTx, pc[r] \in Steps \ InsideTx,
         (call[r].op = "invite" /\ step = "begin") => call[r].who \in Users,
         Proceed(r, step)
  PROVE  TypeOK'
  BY Unmoved, ReadType DEF Proceed

(* A decision is a refusal or a step; both keep the types.                 *)
LEMMA DecideType ==
  ASSUME TypeOK, NEW r \in Requests, NEW verdict \in Codes \cup (Steps \ InsideTx),
         pc[r] \in Steps \ InsideTx,
         (call[r].op = "invite" /\ verdict = "begin") => call[r].who \in Users,
         Decide(r, verdict)
  PROVE  TypeOK'
  <1>1. Codes \cap Steps = {} /\ pc[r] # "idle"
    BY DEF Codes, Steps
  <1> QED
    BY <1>1, AnswerType, ProceedType DEF Decide

(* Writing rows of memberships in a transaction keeps the types.           *)
LEMMA WriteMemberType ==
  ASSUME TypeOK, NEW r \in Requests, pc[r] \in {"exec", "enroll"},
         NEW del \in SUBSET MembershipRow, NEW ins \in SUBSET MembershipRow,
         WriteMember(r, del, ins), memberSeq' \in Nat
  PROVE  TypeOK'
  <1> DEFINE t == [tx[r] EXCEPT !.mDel = del, !.mIns = ins]
  <1>1. tx[r].open /\ call[r] # NoCall /\ "commit" \in InsideTx
    BY DEF TypeOK, InTx, InsideTx
  <1>2. t \in TxType /\ t.open
    BY <1>1, Unmoved DEF TxType
  <1>3. tx' = [tx EXCEPT ![r] = t]
    BY Unmoved DEF WriteMember, TxType
  <1>4. /\ groups' \subseteq GroupRow /\ members' \subseteq MembershipRow
        /\ groupSeq' \in Nat
        /\ pc' = [pc EXCEPT ![r] = "commit"]
        /\ call' = [call EXCEPT ![r] = call[r]]
        /\ seen' = [seen EXCEPT ![r] = seen[r]]
        /\ reply' = [reply EXCEPT ![r] = reply[r]]
    BY Unmoved DEF WriteMember, Goto
  <1> HIDE DEF t
  <1> QED
    BY <1>1, <1>2, <1>3, <1>4, Unmoved, StepType DEF Steps

(* Writing rows of groups in a transaction keeps the types.                *)
LEMMA WriteGroupType ==
  ASSUME TypeOK, NEW r \in Requests, pc[r] = "exec",
         NEW del \in SUBSET GroupRow, NEW ins \in SUBSET GroupRow,
         NEW next \in {"enroll", "commit"}, call[r].op # "invite",
         WriteGroup(r, del, ins, next), groupSeq' \in Nat
  PROVE  TypeOK'
  <1> DEFINE t == [tx[r] EXCEPT !.gDel = del, !.gIns = ins]
  <1>1. tx[r].open /\ call[r] # NoCall /\ next \in InsideTx
    BY DEF TypeOK, InTx, InsideTx
  <1>2. t \in TxType /\ t.open
    BY <1>1, Unmoved DEF TxType
  <1>3. tx' = [tx EXCEPT ![r] = t]
    BY Unmoved DEF WriteGroup, TxType
  <1>4. /\ groups' \subseteq GroupRow /\ members' \subseteq MembershipRow
        /\ memberSeq' \in Nat
        /\ pc' = [pc EXCEPT ![r] = next]
        /\ call' = [call EXCEPT ![r] = call[r]]
        /\ seen' = [seen EXCEPT ![r] = seen[r]]
        /\ reply' = [reply EXCEPT ![r] = reply[r]]
    BY Unmoved DEF WriteGroup, Goto
  <1> HIDE DEF t
  <1> QED
    BY <1>1, <1>2, <1>3, <1>4, Unmoved, StepType DEF Steps

-----------------------------------------------------------------------------
(* The shared steps.                                                       *)

(* Taking a call keeps the types.                                          *)
LEMMA ReceiveType ==
  ASSUME TypeOK, NEW r \in Requests, Receive(r)
  PROVE  TypeOK'
  <1>1. PICK c \in Calls : call' = [call EXCEPT ![r] = c] /\ Goto(r, FirstStep(c.op))
    BY DEF Receive
  <1>2. c # NoCall /\ c.op \in Ops
    BY CallTyping
  <1>3. FirstStep(c.op) \in {"row", "group", "name"}
    BY <1>2 DEF FirstStep, Ops, MemberOps, GroupOps
  <1>4. ~tx[r].open /\ tx[r] = NoTx
    BY DEF Receive, TypeOK, InTx, InsideTx
  <1>5. FirstStep(c.op) \in Steps /\ FirstStep(c.op) \notin InsideTx
        /\ FirstStep(c.op) \notin {"idle", "begin", "exec"}
    BY <1>3 DEF Steps, InsideTx
  <1>6. /\ groups' \subseteq GroupRow /\ members' \subseteq MembershipRow
        /\ groupSeq' \in Nat /\ memberSeq' \in Nat
        /\ tx' = [tx EXCEPT ![r] = tx[r]]
        /\ pc' = [pc EXCEPT ![r] = FirstStep(c.op)]
        /\ seen' = [seen EXCEPT ![r] = seen[r]]
        /\ reply' = [reply EXCEPT ![r] = reply[r]]
    BY <1>1, Unmoved DEF Receive, TablesUnchanged, Goto
  <1> QED
    BY <1>1, <1>2, <1>4, <1>5, <1>6, Unmoved, StepType

(* Freeing a slot keeps the types.                                         *)
LEMMA FinishType ==
  ASSUME TypeOK, NEW r \in Requests, Finish(r)
  PROVE  TypeOK'
  <1>1. ~tx[r].open /\ tx[r] = NoTx /\ "idle" \notin InsideTx
    BY DEF Finish, TypeOK, InTx, InsideTx
  <1>2. /\ groups' \subseteq GroupRow /\ members' \subseteq MembershipRow
        /\ groupSeq' \in Nat /\ memberSeq' \in Nat
        /\ tx' = [tx EXCEPT ![r] = tx[r]]
        /\ pc' = [pc EXCEPT ![r] = "idle"]
        /\ call' = [call EXCEPT ![r] = NoCall]
        /\ seen' = [seen EXCEPT ![r] = seen[r]]
        /\ reply' = [reply EXCEPT ![r] = "none"]
    BY Unmoved DEF Finish, TablesUnchanged, Goto
  <1> QED
    BY <1>1, <1>2, Unmoved, EmptyTyping, StepType

(* Reading the group of the authorization context keeps the types.         *)
LEMMA ReadGroupType ==
  ASSUME TypeOK, NEW r \in Requests, ReadGroup(r)
  PROVE  TypeOK'
  <1>1. pc[r] \in Steps \ InsideTx /\ pc[r] # "idle"
    BY DEF ReadGroup, Steps, InsideTx
  <1>2. CASE Answer(r, "404")
    BY <1>1, <1>2, AnswerType DEF Codes
  <1>3. ASSUME NEW g \in GroupById(TargetGroup(r)),
               seen' = [seen EXCEPT ![r].archived = g.archived,
                                    ![r].flags = g.flags],
               Goto(r, "member"), TablesUnchanged, UNCHANGED <<tx, call, reply>>
        PROVE  TypeOK'
    <2> DEFINE v == [seen[r] EXCEPT !.archived = g.archived, !.flags = g.flags]
    <2>1. g \in GroupRow
      BY Unmoved DEF GroupById
    <2>2. v \in SeenType
      <3>1. g.archived \in BOOLEAN /\ g.flags \in SUBSET Flags
        BY <2>1 DEF GroupRow
      <3>2. seen[r] \in SeenType
        BY Unmoved
      <3> QED
        BY <3>1, <3>2 DEF SeenType
    <2>3. seen' = [seen EXCEPT ![r] = v]
      BY <1>3, Unmoved DEF SeenType
    <2>4. "member" \in Steps \ InsideTx
      BY DEF Steps, InsideTx
    <2> HIDE DEF v
    <2> QED
      BY <1>1, <1>3, <2>2, <2>3, <2>4, ReadType
  <1> QED
    BY <1>2, <1>3 DEF ReadGroup

(* Opening a transaction keeps the types.                                  *)
LEMMA BeginType ==
  ASSUME TypeOK, NEW r \in Requests, Begin(r)
  PROVE  TypeOK'
  <1> DEFINE t == [tx[r] EXCEPT !.open = TRUE]
  <1>1. /\ call[r] # NoCall /\ "exec" \in InsideTx /\ "exec" \in Steps
        /\ call[r].op = "invite" => call[r].who \in Users
    BY DEF Begin, TypeOK, InsideTx, Steps
  <1>2. t \in TxType /\ t.open /\ tx' = [tx EXCEPT ![r] = t]
    BY Unmoved DEF Begin, TxType
  <1>3. /\ groups' \subseteq GroupRow /\ members' \subseteq MembershipRow
        /\ groupSeq' \in Nat /\ memberSeq' \in Nat
        /\ pc' = [pc EXCEPT ![r] = "exec"]
        /\ call' = [call EXCEPT ![r] = call[r]]
        /\ seen' = [seen EXCEPT ![r] = seen[r]]
        /\ reply' = [reply EXCEPT ![r] = reply[r]]
    BY Unmoved DEF Begin, TablesUnchanged, Goto
  <1> HIDE DEF t
  <1> QED
    BY <1>1, <1>2, <1>3, Unmoved, StepType

(* A commit puts typed rows in the tables and closes its transaction.      *)
LEMMA CommitType ==
  ASSUME TypeOK, NEW r \in Requests, Commit(r)
  PROVE  TypeOK'
  <1>1. call[r] # NoCall
    BY DEF Commit, TypeOK
  <1>2. /\ groups' \subseteq GroupRow /\ members' \subseteq MembershipRow
        /\ groupSeq' \in Nat /\ memberSeq' \in Nat
        /\ tx' = [tx EXCEPT ![r] = NoTx]
        /\ call' = [call EXCEPT ![r] = call[r]]
        /\ seen' = [seen EXCEPT ![r] = Unread]
    BY Unmoved DEF Commit, TxType
  <1>3. PICK s \in {"countMembers", "done"}, a \in Codes \cup {"none"} :
          pc' = [pc EXCEPT ![r] = s] /\ reply' = [reply EXCEPT ![r] = a]
    BY Unmoved DEF Commit, Goto, Codes
  <1>4. s \in Steps \cup {"idle", "done"} /\ s \notin InsideTx
        /\ s \notin {"idle", "begin", "exec"}
    BY DEF Steps, InsideTx
  <1> QED
    BY <1>1, <1>2, <1>3, <1>4, Unmoved, EmptyTyping, StepType

(* A failure ends its handler and its transaction.                         *)
LEMMA FailType ==
  ASSUME TypeOK, NEW r \in Requests, Fail(r)
  PROVE  TypeOK'
  BY AnswerType DEF Fail, Codes, Steps

-----------------------------------------------------------------------------
(* The membership handlers.                                                *)

(* handleAcceptInvitation, its lookup.                                     *)
LEMMA LoadInvitationType ==
  ASSUME TypeOK, NEW r \in Requests, LoadInvitation(r)
  PROVE  TypeOK'
  <1>1. pc[r] \in Steps \ InsideTx /\ pc[r] # "idle" /\ call[r].op = "accept"
    BY DEF LoadInvitation, At, Steps, InsideTx
  <1>2. \A m : AcceptCheck(call[r], m) \in Codes \cup (Steps \ InsideTx)
    BY DEF AcceptCheck, Codes, Steps, InsideTx
  <1> QED
    BY <1>1, <1>2, AnswerType, DecideType DEF LoadInvitation, Codes

(* The lookup of promote, demote and remove.                               *)
LEMMA LoadMembershipType ==
  ASSUME TypeOK, NEW r \in Requests, LoadMembership(r)
  PROVE  TypeOK'
  <1>1. pc[r] \in Steps \ InsideTx /\ pc[r] # "idle"
    BY DEF LoadMembership, At, Steps, InsideTx
  <1>2. CASE Answer(r, "404")
    BY <1>1, <1>2, AnswerType DEF Codes
  <1>3. ASSUME NEW m \in MemberById(call[r].mid),
               seen' = [seen EXCEPT ![r].gid = m.group, ![r].role = m.role],
               Goto(r, "group"), TablesUnchanged, UNCHANGED <<tx, call, reply>>
        PROVE  TypeOK'
    <2> DEFINE v == [seen[r] EXCEPT !.gid = m.group, !.role = m.role]
    <2>1. m.group \in Nat /\ m.role \in Roles /\ seen[r] \in SeenType
      BY Unmoved DEF MemberById, MembershipRow
    <2>2. v \in SeenType
      BY <2>1 DEF SeenType
    <2>3. seen' = [seen EXCEPT ![r] = v]
      BY <1>3, Unmoved DEF SeenType
    <2>4. "group" \in Steps \ InsideTx
      BY DEF Steps, InsideTx
    <2> HIDE DEF v
    <2> QED
      BY <1>1, <1>3, <2>2, <2>3, <2>4, ReadType
  <1> QED
    BY <1>2, <1>3 DEF LoadMembership

(* The authorization of the membership handlers, with the invitee found.   *)
LEMMA AuthorizeMemberType ==
  ASSUME TypeOK, NEW r \in Requests,
         AuthorizeInvite(r) \/ AuthorizePromote(r) \/ AuthorizeDemote(r)
           \/ AuthorizeRemove(r)
  PROVE  TypeOK'
  <1> DEFINE Verdicts == Codes \cup (Steps \ InsideTx)
  <1>1. /\ pc[r] \in Steps \ InsideTx
        /\ call[r].op = "invite" => AuthorizeInvite(r)
    BY DEF AuthorizeInvite, AuthorizePromote, AuthorizeDemote, AuthorizeRemove,
           At, Steps, InsideTx
  <1>2. \A role, ac : /\ PromoteCheck(role, ac) \in Verdicts
                      /\ DemoteCheck(role, ac) \in Verdicts
                      /\ RemoveCheck(role, ac) \in Verdicts
    BY DEF PromoteCheck, DemoteCheck, RemoveCheck, Codes, Steps, InsideTx
  <1>3. \A ac : /\ InviteCheck(call[r], ac) \in Verdicts
                /\ InviteCheck(call[r], ac) = "begin" => call[r].who \in Users
    BY DEF InviteCheck, Codes, Steps, InsideTx
  <1> HIDE DEF Verdicts
  <1>4. CASE AuthorizeInvite(r)
    BY <1>1, <1>3, <1>4, DecideType DEF AuthorizeInvite, Verdicts
  <1>5. CASE ~AuthorizeInvite(r)
    <2>1. PICK verdict \in Verdicts : Decide(r, verdict)
      BY <1>2, <1>5 DEF AuthorizePromote, AuthorizeDemote, AuthorizeRemove
    <2> QED
      BY <1>1, <1>5, <2>1, DecideType DEF Verdicts
  <1> QED
    BY <1>4, <1>5

(* The count of admins before a demotion or removal.                       *)
LEMMA CountAdminsType ==
  ASSUME TypeOK, NEW r \in Requests, CountAdmins(r)
  PROVE  TypeOK'
  <1>1. /\ pc[r] \in Steps \ InsideTx /\ pc[r] # "idle" /\ call[r].op # "invite"
        /\ "begin" \in Steps \ InsideTx /\ "lastadmin" \in Codes
    BY DEF CountAdmins, At, Steps, InsideTx, Codes
  <1> QED
    BY <1>1, AnswerType, ProceedType DEF CountAdmins

(* The INSERT of an invitation: its invitee is an account.                 *)
LEMMA InsertInvitationType ==
  ASSUME TypeOK, NEW r \in Requests, InsertInvitation(r)
  PROVE  TypeOK'
  <1>1. /\ pc[r] = "exec" /\ call[r].op = "invite" /\ call[r].who \in Users
        /\ call[r] # NoCall
    BY DEF InsertInvitation, At, TypeOK
  <1>2. call[r].gid \in Nat /\ call[r].role \in Roles /\ call[r].user \in Users
    BY <1>1, CallTyping, Unmoved DEF CallRecord
  <1>3. memberSeq + 1 \in Ids /\ memberSeq' \in Nat
    BY Unmoved DEF InsertInvitation, Ids
  <1>4. CASE End(r, "409") /\ UNCHANGED groupSeq
    BY <1>1, <1>3, <1>4, EndType, Unmoved DEF Codes
  <1>5. CASE WriteMember(r, {}, {Invitation(call[r], memberSeq + 1)})
    <2>1. Invitation(call[r], memberSeq + 1) \in MembershipRow
      BY <1>1, <1>2, <1>3 DEF Invitation, MembershipRow
    <2> QED
      BY <1>1, <1>3, <1>5, <2>1, WriteMemberType
  <1> QED
    BY <1>4, <1>5 DEF InsertInvitation

(* An updated membership is a membership.                                  *)
LEMMA UpdatedType ==
  ASSUME NEW m \in MembershipRow, NEW op \in {"accept", "promote", "demote"}
  PROVE  /\ Updated(op, m) \in MembershipRow
         /\ Updated(op, m).id = m.id
         /\ Updated(op, m).group = m.group
         /\ Updated(op, m).user = m.user
         /\ (ActiveAdmin(m) /\ op # "demote") => ActiveAdmin(Updated(op, m))
  BY DEF Updated, MembershipRow, Roles, ActiveAdmin

(* The UPDATE of accept, promote and demote.                               *)
LEMMA UpdateMembershipType ==
  ASSUME TypeOK, NEW r \in Requests, UpdateMembership(r)
  PROVE  TypeOK'
  <1>1. pc[r] = "exec" /\ call[r].op \in {"accept", "promote", "demote"}
    BY DEF UpdateMembership, At
  <1>2. CASE Answer(r, "500") \/ Answer(r, "lastadmin")
    BY <1>1, <1>2, AnswerType DEF Codes
  <1>3. ASSUME NEW m \in MemberById(call[r].mid), UNCHANGED memberSeq,
               WriteMember(r, {m}, {Updated(call[r].op, m)})
        PROVE  TypeOK'
    <2>1. m \in MembershipRow /\ memberSeq' \in Nat
      BY <1>3, Unmoved DEF MemberById
    <2>2. Updated(call[r].op, m) \in MembershipRow
      BY <1>1, <2>1, UpdatedType
    <2> QED
      BY <1>1, <1>3, <2>1, <2>2, WriteMemberType
  <1> QED
    BY <1>2, <1>3 DEF UpdateMembership

(* The DELETE of a membership.                                             *)
LEMMA DeleteMembershipType ==
  ASSUME TypeOK, NEW r \in Requests, DeleteMembership(r)
  PROVE  TypeOK'
  <1>1. pc[r] = "exec" /\ "lastadmin" \in Codes
    BY DEF DeleteMembership, At, Codes
  <1>2. CASE Answer(r, "lastadmin")
    BY <1>1, <1>2, AnswerType
  <1>3. ASSUME NEW del \in SUBSET MemberById(call[r].mid),
               WriteMember(r, del, {}), UNCHANGED memberSeq
        PROVE  TypeOK'
    <2>1. del \in SUBSET MembershipRow /\ memberSeq' \in Nat
      BY <1>3, Unmoved DEF MemberById
    <2> QED
      BY <1>1, <1>3, <2>1, WriteMemberType
  <1>4. \/ Answer(r, "lastadmin")
        \/ \E del \in SUBSET MemberById(call[r].mid) :
             WriteMember(r, del, {}) /\ UNCHANGED memberSeq
    BY DEF DeleteMembership
  <1> QED
    BY <1>2, <1>3, <1>4

-----------------------------------------------------------------------------
(* The group handlers.                                                     *)

(* The authorization of the group handlers.                                *)
LEMMA AuthorizeGroupType ==
  ASSUME TypeOK, NEW r \in Requests,
         AuthorizeSubgroup(r) \/ AuthorizeUpdate(r) \/ AuthorizeArchive(r)
  PROVE  TypeOK'
  <1> DEFINE Verdicts == Codes \cup (Steps \ InsideTx)
  <1>1. pc[r] \in Steps \ InsideTx /\ call[r].op # "invite"
    BY DEF AuthorizeSubgroup, AuthorizeUpdate, AuthorizeArchive, At, Steps,
           InsideTx
  <1>2. \A c, ac : /\ SubgroupCheck(ac) \in Verdicts
                   /\ UpdateCheck(c, ac) \in Verdicts
                   /\ ArchiveCheck(ac) \in Verdicts
    BY DEF SubgroupCheck, UpdateCheck, ArchiveCheck, Codes, Steps, InsideTx
  <1> HIDE DEF Verdicts
  <1>3. PICK verdict \in Verdicts : Decide(r, verdict)
    BY <1>2 DEF AuthorizeSubgroup, AuthorizeUpdate, AuthorizeArchive
  <1> QED
    BY <1>1, <1>3, DecideType DEF Verdicts

(* The choice of a name and a handle.                                      *)
LEMMA ValidateNameType ==
  ASSUME TypeOK, NEW r \in Requests, ValidateName(r)
  PROVE  TypeOK'
  <1>1. /\ pc[r] \in Steps \ InsideTx /\ pc[r] # "idle" /\ call[r].op # "invite"
        /\ {"probe", "begin"} \subseteq Steps \ InsideTx /\ "422" \in Codes
    BY DEF ValidateName, At, Steps, InsideTx, Codes
  <1>2. CASE Answer(r, "422") \/ Proceed(r, "probe")
    BY <1>1, <1>2, AnswerType, ProceedType
  <1>3. CASE /\ call[r].handle # NoHandle
             /\ seen' = [seen EXCEPT ![r].handle = call[r].handle]
             /\ Goto(r, "begin")
             /\ TablesUnchanged /\ UNCHANGED <<tx, call, reply>>
    <2> DEFINE v == [seen[r] EXCEPT !.handle = call[r].handle]
    <2>1. call[r] \in Calls
      BY <1>1, Unmoved DEF TypeOK, NoCall, Steps
    <2>2. call[r].handle \in Nat
      <3>1. call[r] \in CallRecord
        BY <2>1, CallTyping
      <3>2. call[r].handle \in Nat \cup {NoHandle}
        BY <3>1 DEF CallRecord
      <3> QED
        BY <1>3, <3>2
    <2>3. v \in SeenType /\ seen' = [seen EXCEPT ![r] = v]
      BY <1>3, <2>2, Unmoved DEF SeenType
    <2> HIDE DEF v
    <2> QED
      BY <1>1, <1>3, <2>3, ReadType
  <1> QED
    BY <1>2, <1>3 DEF ValidateName

(* One probe of the search for a free handle.                              *)
LEMMA ProbeHandleType ==
  ASSUME TypeOK, NEW r \in Requests, ProbeHandle(r)
  PROVE  TypeOK'
  <1>1. /\ pc[r] = "probe" /\ call[r].op # "invite"
        /\ {"probe", "begin"} \subseteq Steps \ InsideTx /\ "422" \in Codes
    BY DEF ProbeHandle, At, Steps, InsideTx, Codes
  <1>2. CASE Answer(r, "422") \/ Proceed(r, "begin")
    BY <1>1, <1>2, AnswerType, ProceedType
  <1>3. CASE /\ seen' = [seen EXCEPT ![r].handle = @ + 1]
             /\ TablesUnchanged /\ UNCHANGED <<tx, pc, call, reply>>
    <2> DEFINE v == [seen[r] EXCEPT !.handle = @ + 1]
    <2>1. v \in SeenType /\ seen' = [seen EXCEPT ![r] = v]
      BY <1>3, Unmoved DEF SeenType
    <2>2. Goto(r, "probe")
      BY <1>1, <1>3, Unmoved DEF Goto
    <2> HIDE DEF v
    <2> QED
      BY <1>1, <1>3, <2>1, <2>2, ReadType
  <1> QED
    BY <1>2, <1>3 DEF ProbeHandle

(* The INSERT of a group: its handle and its flags have been read.         *)
LEMMA InsertGroupType ==
  ASSUME TypeOK, NEW r \in Requests, InsertGroup(r)
  PROVE  TypeOK'
  <1>1. pc[r] = "exec" /\ call[r].op # "invite" /\ call[r] \in Calls
    BY Unmoved DEF InsertGroup, At, NoCall
  <1>2. groupSeq + 1 \in Ids /\ groupSeq' \in Nat
    BY Unmoved DEF InsertGroup, Ids
  <1>3. CASE End(r, "409") /\ UNCHANGED memberSeq
    BY <1>1, <1>2, <1>3, EndType, Unmoved DEF Codes
  <1>4. CASE WriteGroup(r, {}, {NewGroup(r, groupSeq + 1)}, "enroll")
    <2>1. call[r].gid \in Nat
      BY <1>1, CallTyping DEF CallRecord
    <2>2. seen[r].handle \in Nat /\ seen[r].flags \subseteq Flags
          /\ DefaultFlags \subseteq Flags
      BY Unmoved DEF SeenType, DefaultFlags
    <2>3. NewGroup(r, groupSeq + 1) \in GroupRow
      BY <1>2, <2>1, <2>2 DEF NewGroup, GroupRow
    <2> QED
      BY <1>1, <1>2, <1>4, <2>3, WriteGroupType
  <1> QED
    BY <1>3, <1>4 DEF InsertGroup

(* The INSERT of the creator's membership.                                 *)
LEMMA EnrollCreatorType ==
  ASSUME TypeOK, NEW r \in Requests, EnrollCreator(r)
  PROVE  TypeOK'
  <1> DEFINE rows == {CreatorRow(call[r].user, g, memberSeq + 1) : g \in tx[r].gIns}
  <1>1. pc[r] = "enroll" /\ call[r] \in Calls
    BY Unmoved DEF EnrollCreator, At, NoCall
  <1>2. call[r].user \in Users
    BY <1>1, CallTyping DEF CallRecord
  <1>3. memberSeq + 1 \in Ids /\ memberSeq' \in Nat
    BY Unmoved DEF EnrollCreator, Ids
  <1>4. \A g \in tx[r].gIns : g.id \in Nat
    BY Unmoved DEF TxType, GroupRow, Ids
  <1>5. rows \subseteq MembershipRow
    <2> SUFFICES ASSUME NEW g \in tx[r].gIns
                 PROVE  CreatorRow(call[r].user, g, memberSeq + 1) \in MembershipRow
      OBVIOUS
    <2> QED
      BY <1>2, <1>3, <1>4 DEF CreatorRow, MembershipRow, Roles
  <1>6. WriteMember(r, {}, rows)
    BY DEF EnrollCreator
  <1> HIDE DEF rows
  <1> QED
    BY <1>1, <1>3, <1>5, <1>6, WriteMemberType

(* A changed group is a group.                                             *)
LEMMA ChangedType ==
  ASSUME NEW g \in GroupRow, NEW c \in CallRecord,
         c.op \in {"update", "archive", "unarchive"}
  PROVE  /\ Changed(c, g) \in GroupRow
         /\ Changed(c, g).id = g.id
         /\ Changed(c, g).handle = g.handle
  <1>1. (g.flags \ c.off) \cup c.on \subseteq Flags
    BY DEF GroupRow, CallRecord
  <1> QED
    BY <1>1 DEF Changed, GroupRow

(* The UPDATE of a group.                                                  *)
LEMMA UpdateGroupType ==
  ASSUME TypeOK, NEW r \in Requests, UpdateGroup(r)
  PROVE  TypeOK'
  <1>1. /\ pc[r] = "exec" /\ call[r].op \in {"update", "archive", "unarchive"}
        /\ call[r] \in CallRecord
    BY Unmoved, CallTyping DEF UpdateGroup, At, NoCall
  <1>2. PICK g \in GroupById(call[r].gid) :
          WriteGroup(r, {g}, {Changed(call[r], g)}, "commit")
    BY DEF UpdateGroup
  <1>3. g \in GroupRow /\ groupSeq' \in Nat
    BY Unmoved DEF GroupById, UpdateGroup
  <1>4. Changed(call[r], g) \in GroupRow
    BY <1>1, <1>3, ChangedType
  <1> QED
    BY <1>1, <1>2, <1>3, <1>4, WriteGroupType

(* The two counts after an update.                                         *)
LEMMA CountAfterUpdateType ==
  ASSUME TypeOK, NEW r \in Requests, CountAfterUpdate(r)
  PROVE  TypeOK'
  <1>1. /\ pc[r] \in Steps \ InsideTx /\ pc[r] # "idle" /\ call[r].op # "invite"
        /\ "countAdmins" \in Steps \ InsideTx /\ "ok" \in Codes
    BY DEF CountAfterUpdate, At, Steps, InsideTx, Codes
  <1> QED
    BY <1>1, AnswerType, ProceedType DEF CountAfterUpdate

-----------------------------------------------------------------------------
(* The seeded database is typed.                                           *)
LEMMA InitType == Init => TypeOK
  <1> SUFFICES ASSUME Init PROVE TypeOK
    OBVIOUS
  <1>1. /\ groups \subseteq GroupRow /\ members \subseteq MembershipRow
        /\ groupSeq \in Nat /\ memberSeq \in Nat
    BY SeedAssumption, FS_CardinalityType DEF Init, StoreInit
  <1>2. /\ tx \in [Requests -> TxType]
        /\ pc \in [Requests -> Steps \cup {"idle", "done"}]
        /\ call \in [Requests -> Calls \cup {NoCall}]
        /\ seen \in [Requests -> SeenType]
        /\ reply \in [Requests -> Codes \cup {"none"}]
    BY EmptyTyping DEF Init, StoreInit
  <1>3. \A r \in Requests :
          /\ tx[r] = NoTx /\ pc[r] = "idle" /\ call[r] = NoCall
    BY DEF Init, StoreInit
  <1> QED
    BY <1>1, <1>2, <1>3, EmptyTyping DEF TypeOK, InTx, InsideTx

(* Every step of the API keeps the types.                                  *)
LEMMA NextType == TypeOK /\ [Next]_vars => TypeOK'
  <1> SUFFICES ASSUME TypeOK, [Next]_vars PROVE TypeOK'
    OBVIOUS
  <1>1. CASE UNCHANGED vars
    BY <1>1 DEF vars, TypeOK, InTx
  <1>2. ASSUME NEW r \in Requests, MembershipStep(r)
        PROVE  TypeOK'
    BY <1>2, LoadInvitationType, LoadMembershipType, AuthorizeMemberType,
       CountAdminsType, InsertInvitationType, UpdateMembershipType,
       DeleteMembershipType DEF MembershipStep
  <1>3. ASSUME NEW r \in Requests, GroupStep(r)
        PROVE  TypeOK'
    BY <1>3, AuthorizeGroupType, ValidateNameType, ProbeHandleType,
       InsertGroupType, EnrollCreatorType, UpdateGroupType,
       CountAfterUpdateType DEF GroupStep
  <1> QED
    BY <1>1, <1>2, <1>3, ReceiveType, FinishType, ReadGroupType, BeginType,
       CommitType, FailType DEF Next, HandlerStep

(* Every value keeps its type, and a transaction is open exactly while its *)
(* handler is inside BeginTxFunc: no path out of one, whatever it answers, *)
(* keeps a connection or a lock.                                           *)
THEOREM TypeCorrect == Spec => []TypeOK
  <1>1. Init => TypeOK
    BY InitType
  <1>2. TypeOK /\ [Next]_vars => TypeOK'
    BY NextType
  <1> QED
    BY <1>1, <1>2, PTL DEF Spec

-----------------------------------------------------------------------------
(* The shape of a step.  Most steps neither open a transaction nor write   *)
(* in one; what they do with a transaction is to abandon it.               *)
Quiet(r) ==
  /\ UNCHANGED <<groups, members>>
  /\ groupSeq' \in {groupSeq, groupSeq + 1}
  /\ memberSeq' \in {memberSeq, memberSeq + 1}
  /\ \E s \in (Steps \cup {"idle", "done"}) \ InsideTx : Goto(r, s)
  /\ tx' = tx \/ tx' = [tx EXCEPT ![r] = NoTx]

(* Ending a handler is quiet.                                              *)
LEMMA EndQuiet ==
  \A r, code :
    (/\ End(r, code)
     /\ groupSeq' \in {groupSeq, groupSeq + 1}
     /\ memberSeq' \in {memberSeq, memberSeq + 1}) => Quiet(r)
  BY DEF End, Goto, Quiet, InsideTx

(* An answer is quiet.                                                     *)
LEMMA AnswerQuiet ==
  \A r, code : Answer(r, code) => Quiet(r)
  BY EndQuiet DEF Answer

(* Moving on after a read is quiet.                                        *)
LEMMA ProceedQuiet ==
  \A r : \A step \in Steps \ InsideTx : Proceed(r, step) => Quiet(r)
  BY DEF Proceed, TablesUnchanged, Quiet

(* A decision is quiet.                                                    *)
LEMMA DecideQuiet ==
  \A r : \A verdict \in Codes \cup (Steps \ InsideTx) :
    Decide(r, verdict) => Quiet(r)
  <1>1. Codes \cap Steps = {}
    BY DEF Codes, Steps
  <1> QED
    BY <1>1, AnswerQuiet, ProceedQuiet DEF Decide

(* The reads of the handlers are quiet.                                    *)
LEMMA ReadQuiet ==
  ASSUME NEW r \in Requests,
         \/ LoadInvitation(r) \/ LoadMembership(r) \/ CountAdmins(r)
         \/ AuthorizeInvite(r) \/ AuthorizePromote(r) \/ AuthorizeDemote(r)
         \/ AuthorizeRemove(r) \/ AuthorizeSubgroup(r) \/ AuthorizeUpdate(r)
         \/ AuthorizeArchive(r) \/ CountAfterUpdate(r) \/ ReadGroup(r)
  PROVE  Quiet(r)
  <1> DEFINE Verdicts == Codes \cup (Steps \ InsideTx)
  <1>1. \A c, m, role, ac :
          /\ AcceptCheck(c, m) \in Verdicts /\ InviteCheck(c, ac) \in Verdicts
          /\ PromoteCheck(role, ac) \in Verdicts
          /\ DemoteCheck(role, ac) \in Verdicts
          /\ RemoveCheck(role, ac) \in Verdicts
          /\ SubgroupCheck(ac) \in Verdicts /\ UpdateCheck(c, ac) \in Verdicts
          /\ ArchiveCheck(ac) \in Verdicts
    BY DEF AcceptCheck, InviteCheck, PromoteCheck, DemoteCheck, RemoveCheck,
           SubgroupCheck, UpdateCheck, ArchiveCheck, Codes, Steps, InsideTx
  <1>2. {"group", "member", "begin", "countAdmins"} \subseteq Steps \ InsideTx
    BY DEF Steps, InsideTx
  <1> HIDE DEF Verdicts
  <1>3. CASE \E verdict \in Verdicts : Decide(r, verdict)
    BY <1>3, DecideQuiet DEF Verdicts
  <1>4. CASE \/ AuthorizeInvite(r) \/ AuthorizePromote(r) \/ AuthorizeDemote(r)
             \/ AuthorizeRemove(r) \/ AuthorizeSubgroup(r) \/ AuthorizeUpdate(r)
             \/ AuthorizeArchive(r)
    BY <1>1, <1>3, <1>4
       DEF AuthorizeInvite, AuthorizePromote, AuthorizeDemote, AuthorizeRemove,
           AuthorizeSubgroup, AuthorizeUpdate, AuthorizeArchive
  <1>5. CASE LoadInvitation(r)
    BY <1>1, <1>3, <1>5, AnswerQuiet DEF LoadInvitation
  <1>6. CASE LoadMembership(r) \/ ReadGroup(r)
    BY <1>2, <1>6, AnswerQuiet
       DEF LoadMembership, ReadGroup, TablesUnchanged, Quiet
  <1>7. CASE CountAdmins(r) \/ CountAfterUpdate(r)
    BY <1>2, <1>7, AnswerQuiet, ProceedQuiet DEF CountAdmins, CountAfterUpdate
  <1> QED
    BY <1>4, <1>5, <1>6, <1>7

(* Choosing a name and probing for a handle are quiet.                     *)
LEMMA NameQuiet ==
  ASSUME TypeOK, NEW r \in Requests, ValidateName(r) \/ ProbeHandle(r)
  PROVE  Quiet(r)
  <1>1. {"probe", "begin"} \subseteq Steps \ InsideTx
    BY DEF Steps, InsideTx
  <1>2. CASE ValidateName(r)
    BY <1>1, <1>2, AnswerQuiet, ProceedQuiet
       DEF ValidateName, TablesUnchanged, Quiet
  <1>3. CASE ProbeHandle(r)
    <2>1. CASE UNCHANGED <<tx, pc>> /\ TablesUnchanged
      <3>1. Goto(r, "probe")
        BY <1>3, <2>1, Unmoved DEF ProbeHandle, At, Goto
      <3> QED
        BY <1>1, <2>1, <3>1 DEF TablesUnchanged, Quiet
    <2> QED
      BY <1>1, <1>3, <2>1, AnswerQuiet, ProceedQuiet DEF ProbeHandle
  <1> QED
    BY <1>2, <1>3

(* Taking a call, freeing a slot and failing are quiet.                    *)
LEMMA OuterQuiet ==
  ASSUME TypeOK, NEW r \in Requests, Receive(r) \/ Finish(r) \/ Fail(r)
  PROVE  Quiet(r)
  <1>1. CASE Receive(r)
    <2>1. PICK c \in Calls : Goto(r, FirstStep(c.op))
      BY <1>1 DEF Receive
    <2>2. c.op \in Ops
      BY CallTyping
    <2>3. FirstStep(c.op) \in {"row", "group", "name"}
      BY <2>2 DEF FirstStep, Ops, MemberOps, GroupOps
    <2>4. {"row", "group", "name"} \subseteq Steps \ InsideTx
      BY DEF Steps, InsideTx
    <2> QED
      BY <1>1, <2>1, <2>3, <2>4 DEF Receive, TablesUnchanged, Quiet
  <1>2. CASE Finish(r)
    BY <1>2 DEF Finish, TablesUnchanged, Quiet, InsideTx
  <1>3. CASE Fail(r)
    BY <1>3, AnswerQuiet DEF Fail
  <1> QED
    BY <1>1, <1>2, <1>3

(* Every step is one of these, or opens a transaction, writes in it or     *)
(* commits it.                                                             *)
LEMMA NextShape ==
  ASSUME TypeOK, Next
  PROVE  \E r \in Requests :
           \/ Quiet(r) \/ Begin(r) \/ Commit(r)
           \/ InsertInvitation(r) \/ UpdateMembership(r) \/ DeleteMembership(r)
           \/ InsertGroup(r) \/ EnrollCreator(r) \/ UpdateGroup(r)
  BY ReadQuiet, NameQuiet, OuterQuiet
     DEF Next, HandlerStep, MembershipStep, GroupStep

-----------------------------------------------------------------------------
(* One request moves at a time, and only a commit changes the tables.      *)
LEMMA OthersStay ==
  ASSUME TypeOK, NEW r \in Requests,
         Receive(r) \/ HandlerStep(r) \/ Fail(r), NEW q \in Requests \ {r}
  PROVE  /\ tx'[q] = tx[q] /\ pc'[q] = pc[q] /\ call'[q] = call[q]
         /\ seen'[q] = seen[q] /\ reply'[q] = reply[q]
  <1> DEFINE Stays == /\ tx'[q] = tx[q] /\ pc'[q] = pc[q] /\ call'[q] = call[q]
                      /\ seen'[q] = seen[q] /\ reply'[q] = reply[q]
  <1> USE DEF TypeOK, Goto
  <1>1. \A code : End(r, code) => Stays
    BY DEF End
  <1>2. \A code : Answer(r, code) => Stays
    BY <1>1 DEF Answer
  <1>3. \A step : Proceed(r, step) => Stays
    BY DEF Proceed
  <1>4. \A verdict : Decide(r, verdict) => Stays
    BY <1>2, <1>3 DEF Decide
  <1>5. \A del, ins : WriteMember(r, del, ins) => Stays
    BY DEF WriteMember
  <1>6. \A del, ins, next : WriteGroup(r, del, ins, next) => Stays
    BY DEF WriteGroup
  <1>7. CASE Receive(r) \/ Finish(r) \/ Begin(r) \/ Commit(r)
    BY <1>7 DEF Receive, Finish, Begin, Commit
  <1>8. CASE Fail(r) \/ ReadGroup(r)
    BY <1>2, <1>8 DEF Fail, ReadGroup
  <1>9. CASE MembershipStep(r)
    BY <1>1, <1>2, <1>3, <1>4, <1>5, <1>9
       DEF MembershipStep, LoadInvitation, LoadMembership, AuthorizeInvite,
           AuthorizePromote, AuthorizeDemote, AuthorizeRemove, CountAdmins,
           InsertInvitation, UpdateMembership, DeleteMembership
  <1>10. CASE GroupStep(r)
    BY <1>1, <1>2, <1>3, <1>4, <1>5, <1>6, <1>10
       DEF GroupStep, AuthorizeSubgroup, AuthorizeUpdate, AuthorizeArchive,
           ValidateName, ProbeHandle, InsertGroup, EnrollCreator, UpdateGroup,
           CountAfterUpdate
  <1> QED
    BY <1>7, <1>8, <1>9, <1>10 DEF HandlerStep

(* What is not a commit leaves the committed rows alone.                   *)
LEMMA TablesStay ==
  ASSUME TypeOK, NEW r \in Requests,
         Receive(r) \/ HandlerStep(r) \/ Fail(r), ~Commit(r)
  PROVE  UNCHANGED <<groups, members>>
  <1>1. \/ Quiet(r) \/ Begin(r) \/ InsertInvitation(r) \/ UpdateMembership(r)
        \/ DeleteMembership(r) \/ InsertGroup(r) \/ EnrollCreator(r)
        \/ UpdateGroup(r)
    BY ReadQuiet, NameQuiet, OuterQuiet
       DEF HandlerStep, MembershipStep, GroupStep
  <1> QED
    BY <1>1
       DEF Quiet, Begin, TablesUnchanged, InsertInvitation, UpdateMembership,
           DeleteMembership, InsertGroup, EnrollCreator, UpdateGroup, Answer,
           End, WriteMember, WriteGroup

(* What the writes of a transaction and its end leave of it.               *)
LEMMA MemberWriteTx ==
  ASSUME TypeOK, NEW r \in Requests, NEW del, NEW ins, WriteMember(r, del, ins)
  PROVE  /\ tx'[r].mDel = del /\ tx'[r].mIns = ins /\ tx'[r].open = tx[r].open
         /\ tx'[r].gDel = tx[r].gDel /\ tx'[r].gIns = tx[r].gIns
         /\ pc'[r] = "commit" /\ call'[r] = call[r] /\ seen'[r] = seen[r]
         /\ reply'[r] = reply[r]
  <1>1. tx[r] \in TxType /\ r \in DOMAIN tx /\ r \in DOMAIN pc
    BY DEF TypeOK
  <1> QED
    BY <1>1 DEF WriteMember, Goto, TxType

(* So with the rows of groups.                                             *)
LEMMA GroupWriteTx ==
  ASSUME TypeOK, NEW r \in Requests, NEW del, NEW ins, NEW next,
         WriteGroup(r, del, ins, next)
  PROVE  /\ tx'[r].gDel = del /\ tx'[r].gIns = ins /\ tx'[r].open = tx[r].open
         /\ tx'[r].mDel = tx[r].mDel /\ tx'[r].mIns = tx[r].mIns
         /\ pc'[r] = next /\ call'[r] = call[r] /\ seen'[r] = seen[r]
         /\ reply'[r] = reply[r]
  <1>1. tx[r] \in TxType /\ r \in DOMAIN tx /\ r \in DOMAIN pc
    BY DEF TypeOK
  <1> QED
    BY <1>1 DEF WriteGroup, Goto, TxType

(* An end leaves no transaction and nothing read.                          *)
LEMMA EndTx ==
  ASSUME TypeOK, NEW r \in Requests, NEW code, End(r, code)
  PROVE  /\ tx'[r] = NoTx /\ tx'[r].mDel = {} /\ tx'[r].mIns = {}
         /\ tx'[r].gDel = {} /\ tx'[r].gIns = {}
         /\ pc'[r] = "done" /\ call'[r] = call[r] /\ seen'[r] = Unread
         /\ reply'[r] = code
  <1>1. tx'[r] = NoTx
    BY DEF End, TypeOK
  <1>2. /\ tx'[r].mDel = {} /\ tx'[r].mIns = {}
        /\ tx'[r].gDel = {} /\ tx'[r].gIns = {}
    BY <1>1 DEF NoTx
  <1> QED
    BY <1>1, <1>2 DEF End, Goto, TypeOK

(* Outside a transaction nothing is pending.                               *)
LEMMA OutsideTx ==
  ASSUME TypeOK, NEW r \in Requests, pc[r] \notin InsideTx
  PROVE  /\ tx[r] = NoTx /\ tx[r].mDel = {} /\ tx[r].mIns = {}
         /\ tx[r].gDel = {} /\ tx[r].gIns = {}
  BY DEF TypeOK, InTx, NoTx

-----------------------------------------------------------------------------
(* The unique keys hold and no committed write is lost, for every pool     *)
(* size, every set of calls and every interleaving of their transactions.  *)
(* The argument is about the rows that open transactions have written and  *)
(* not yet committed: row locks keep the rows two transactions replace     *)
(* apart, the locks of the unique indexes keep the rows they insert from   *)
(* clashing, and every commit therefore finds the table its writes were    *)
(* checked against, up to rows that do not concern it.                     *)

(* The inductive invariant.                                                *)

(* The committed rows: no duplicate, no identifier ahead of its sequence,  *)
(* no membership without its group (the foreign key).                      *)
TableInv ==
  /\ UniqueMemberships(members) /\ UniqueGroups(groups)
  /\ \A m \in members : m.id <= memberSeq
  /\ \A g \in groups : g.id <= groupSeq
  /\ \A m \in members : \E g \in groups : g.id = m.group

(* What r has written and not committed: it replaces rows that are still   *)
(* there, by rows that fit in with all the others; groups are replaced but *)
(* never removed.                                                          *)
PendingInv(r) ==
  /\ tx[r].mDel \subseteq members /\ tx[r].gDel \subseteq groups
  /\ UniqueMemberships((members \ tx[r].mDel) \cup tx[r].mIns)
  /\ UniqueGroups((groups \ tx[r].gDel) \cup tx[r].gIns)
  /\ tx[r].mIns \cap members \subseteq tx[r].mDel
  /\ tx[r].gIns \cap groups \subseteq tx[r].gDel
  /\ \A m \in tx[r].mIns : m.id <= memberSeq
  /\ \A g \in tx[r].gIns : g.id <= groupSeq
  /\ \A m \in tx[r].mIns : \E g \in groups \cup tx[r].gIns : g.id = m.group
  /\ \A g \in tx[r].gDel : \E h \in tx[r].gIns : h.id = g.id

(* A transaction that has not written yet, and one that has inserted its   *)
(* group and not yet its creator.                                          *)
StageInv(r) ==
  /\ pc[r] = "exec" => tx[r] = [NoTx EXCEPT !.open = TRUE]
  /\ pc[r] = "enroll" =>
       /\ tx[r].gDel = {}
       /\ \E g \in tx[r].gIns : /\ tx[r].gIns = {g}
                                 /\ \A h \in groups : h.id # g.id

(* Two transactions replace different rows and insert rows that do not     *)
(* clash.                                                                  *)
ApartInv(q, r) ==
  /\ tx[q].mDel \cap tx[r].mDel = {} /\ tx[q].gDel \cap tx[r].gDel = {}
  /\ \A m \in tx[q].mIns, n \in tx[r].mIns : ~Clash(m, n)
  /\ \A g \in tx[q].gIns, h \in tx[r].gIns : ~GroupClash(g, h)

(* The group an invitation names has been found, and groups stay.          *)
TargetInv(r) ==
  /\ pc[r] \in {"idle", "done"} => seen[r].gid = 0
  /\ call[r].op = "invite" => seen[r].gid = 0
  /\ (call[r].op = "invite" /\ pc[r] \in {"member", "begin", "exec"})
       => \E g \in groups : g.id = call[r].gid

RowsInv ==
  /\ TableInv
  /\ \A r \in Requests : PendingInv(r) /\ StageInv(r)
  /\ \A q, r \in Requests : q # r => ApartInv(q, r)

RowInv == RowsInv /\ \A r \in Requests : TargetInv(r)

-----------------------------------------------------------------------------
(* Facts about rows.                                                       *)

(* A second transaction still fits in after the first has committed.       *)
LEMMA UniqueAfterCommit ==
  ASSUME NEW S, NEW D1, NEW I1, NEW D2, NEW I2,
         UniqueMemberships((S \ D1) \cup I1),
         UniqueMemberships((S \ D2) \cup I2),
         \A m \in I1, n \in I2 : ~Clash(m, n)
  PROVE  UniqueMemberships((((S \ D1) \cup I1) \ D2) \cup I2)
  <1>1. \A m, n : Clash(m, n) <=> Clash(n, m)
    BY DEF Clash
  <1> QED
    BY <1>1 DEF UniqueMemberships

(* A table stays unique under two writes that each keep it so and do not   *)
(* clash with each other.                                                  *)
LEMMA UniqueGroupsAfterCommit ==
  ASSUME NEW S, NEW D1, NEW I1, NEW D2, NEW I2,
         UniqueGroups((S \ D1) \cup I1),
         UniqueGroups((S \ D2) \cup I2),
         \A g \in I1, h \in I2 : ~GroupClash(g, h)
  PROVE  UniqueGroups((((S \ D1) \cup I1) \ D2) \cup I2)
  <1>1. \A g, h : GroupClash(g, h) <=> GroupClash(h, g)
    BY DEF GroupClash
  <1> QED
    BY <1>1 DEF UniqueGroups

(* A row with the key of the row it replaces clashes with what that did.   *)
LEMMA UniqueReplacement ==
  ASSUME NEW S, NEW old \in S, NEW new, UniqueMemberships(S),
         new.id = old.id, new.group = old.group, new.user = old.user
  PROVE  UniqueMemberships((S \ {old}) \cup {new})
  <1>1. \A m \in S \ {old} : ~Clash(m, new) /\ ~Clash(new, m)
    BY DEF UniqueMemberships, Clash
  <1> QED
    BY <1>1 DEF UniqueMemberships

(* Replacing a group by one with its identifier and handle keeps the table *)
(* unique.                                                                 *)
LEMMA UniqueGroupReplacement ==
  ASSUME NEW S, NEW old \in S, NEW new, UniqueGroups(S),
         new.id = old.id, new.handle = old.handle
  PROVE  UniqueGroups((S \ {old}) \cup {new})
  <1>1. \A g \in S \ {old} : ~GroupClash(g, new) /\ ~GroupClash(new, g)
    BY DEF UniqueGroups, GroupClash
  <1> QED
    BY <1>1 DEF UniqueGroups

(* What r has pending meets the committed rows only in those it replaces.  *)
LEMMA PendingMeetsReplaced ==
  ASSUME RowsInv, NEW q \in Requests,
         NEW n \in tx[q].mIns, NEW m \in members, Clash(n, m)
  PROVE  m \in tx[q].mDel
  BY DEF RowsInv, PendingInv, UniqueMemberships

(* A committed group that a pending one clashes with is being replaced by  *)
(* the same transaction.                                                   *)
LEMMA PendingGroupMeetsReplaced ==
  ASSUME RowsInv, NEW q \in Requests,
         NEW h \in tx[q].gIns, NEW g \in groups, GroupClash(h, g)
  PROVE  g \in tx[q].gDel
  BY DEF RowsInv, PendingInv, UniqueGroups

-----------------------------------------------------------------------------
(* Steps that leave the tables alone.                                      *)

(* A transaction that does not move stays fit while the tables stay put.   *)
LEMMA PendingKept ==
  ASSUME TypeOK, NEW q \in Requests, PendingInv(q), tx'[q] = tx[q],
         UNCHANGED <<groups, members>>,
         groupSeq' \in {groupSeq, groupSeq + 1},
         memberSeq' \in {memberSeq, memberSeq + 1}
  PROVE  PendingInv(q)'
  <1>1. /\ \A m \in tx[q].mIns : m.id \in Int
        /\ \A g \in tx[q].gIns : g.id \in Int
    BY DEF TypeOK, TxType, MembershipRow, GroupRow, Ids
  <1>2. memberSeq \in Nat /\ groupSeq \in Nat
    BY DEF TypeOK
  <1>3. /\ \A m \in tx[q].mIns : m.id <= memberSeq'
        /\ \A g \in tx[q].gIns : g.id <= groupSeq'
    BY <1>1, <1>2 DEF PendingInv
  <1> QED
    BY <1>3 DEF PendingInv

(* A request that does not move keeps its stage while no group changes.    *)
LEMMA StageKept ==
  ASSUME NEW q \in Requests, StageInv(q), tx'[q] = tx[q], pc'[q] = pc[q],
         UNCHANGED groups
  PROVE  StageInv(q)'
  BY DEF StageInv

(* r starts, abandons or has no transaction.                               *)
LEMMA EmptyRows ==
  ASSUME TypeOK, RowsInv, NEW r \in Requests,
         NEW t \in {NoTx, [NoTx EXCEPT !.open = TRUE]},
         NEW s \in (Steps \cup {"idle", "done"}) \ {"enroll"},
         s = "exec" => t = [NoTx EXCEPT !.open = TRUE],
         UNCHANGED <<groups, members>>,
         groupSeq' \in {groupSeq, groupSeq + 1},
         memberSeq' \in {memberSeq, memberSeq + 1},
         tx' = [tx EXCEPT ![r] = t], pc' = [pc EXCEPT ![r] = s]
  PROVE  RowsInv'
  <1>1. /\ \A q \in Requests \ {r} : tx'[q] = tx[q] /\ pc'[q] = pc[q]
        /\ tx'[r] = t /\ pc'[r] = s
        /\ t.mDel = {} /\ t.mIns = {} /\ t.gDel = {} /\ t.gIns = {}
    BY DEF TypeOK, NoTx
  <1>2. /\ \A m \in MembershipRow : m.id <= memberSeq => m.id <= memberSeq'
        /\ \A g \in GroupRow : g.id <= groupSeq => g.id <= groupSeq'
    BY DEF TypeOK, MembershipRow, GroupRow, Ids
  <1>3. TableInv'
    BY <1>2 DEF RowsInv, TableInv, TypeOK
  <1>4. ASSUME NEW q \in Requests
        PROVE  PendingInv(q)' /\ StageInv(q)'
    <2>1. CASE q = r
      <3>1. /\ (members' \ tx'[r].mDel) \cup tx'[r].mIns = members
            /\ (groups' \ tx'[r].gDel) \cup tx'[r].gIns = groups
        BY <1>1
      <3>2. PendingInv(r)'
        BY <1>1, <3>1 DEF RowsInv, TableInv, PendingInv
      <3>3. StageInv(r)'
        BY <1>1 DEF StageInv
      <3> QED
        BY <2>1, <3>2, <3>3
    <2>2. CASE q # r
      <3>1. PendingInv(q)'
        BY <1>1, <2>2, PendingKept DEF RowsInv
      <3>2. StageInv(q)'
        BY <1>1, <2>2, StageKept DEF RowsInv
      <3> QED
        BY <3>1, <3>2
    <2> QED
      BY <2>1, <2>2
  <1>5. ASSUME NEW p \in Requests, NEW q \in Requests, p # q
        PROVE  ApartInv(p, q)'
    BY <1>1, <1>5 DEF RowsInv, ApartInv
  <1> QED
    BY <1>3, <1>4, <1>5 DEF RowsInv

(* A quiet step keeps every part of the invariant.                         *)
LEMMA QuietRows ==
  ASSUME TypeOK, RowsInv, NEW r \in Requests, Quiet(r), TypeOK'
  PROVE  RowsInv'
  <1>1. PICK s \in (Steps \cup {"idle", "done"}) \ InsideTx :
          pc' = [pc EXCEPT ![r] = s]
    BY DEF Quiet, Goto
  <1>2. tx'[r] = NoTx
    BY <1>1 DEF TypeOK, InTx
  <1>3. tx' = [tx EXCEPT ![r] = NoTx]
    BY <1>2 DEF Quiet, TypeOK
  <1>4. s \notin {"exec", "enroll"}
    BY <1>1 DEF InsideTx
  <1> QED
    BY <1>1, <1>3, <1>4, EmptyRows DEF Quiet

(* A transaction opens empty.                                              *)
LEMMA BeginRows ==
  ASSUME TypeOK, RowsInv, NEW r \in Requests, Begin(r)
  PROVE  RowsInv'
  <1>1. tx[r] = NoTx
    BY DEF Begin, TypeOK, InsideTx, InTx
  <1>2. tx' = [tx EXCEPT ![r] = [NoTx EXCEPT !.open = TRUE]]
    BY <1>1 DEF Begin
  <1>3. "exec" \in (Steps \cup {"idle", "done"}) \ {"enroll"}
    BY DEF Steps
  <1> QED
    BY <1>2, <1>3, EmptyRows DEF Begin, Goto, TablesUnchanged

(* The transaction of r writes.                                            *)
LEMMA WriteRows ==
  ASSUME TypeOK, RowsInv, NEW r \in Requests,
         NEW t \in TxType, NEW s \in {"enroll", "commit"},
         UNCHANGED <<groups, members>>,
         groupSeq' \in {groupSeq, groupSeq + 1},
         memberSeq' \in {memberSeq, memberSeq + 1},
         tx' = [tx EXCEPT ![r] = t], pc' = [pc EXCEPT ![r] = s],
         PendingInv(r)',
         s = "enroll" => (t.gDel = {} /\ \E g \in t.gIns :
                            t.gIns = {g} /\ \A h \in groups : h.id # g.id),
         \A q \in Requests \ {r} :
           /\ t.mDel \cap tx[q].mDel = {} /\ t.gDel \cap tx[q].gDel = {}
           /\ \A m \in t.mIns, n \in tx[q].mIns : ~Clash(m, n)
           /\ \A g \in t.gIns, h \in tx[q].gIns : ~GroupClash(g, h)
  PROVE  RowsInv'
  <1>1. /\ \A q \in Requests \ {r} : tx'[q] = tx[q] /\ pc'[q] = pc[q]
        /\ tx'[r] = t /\ pc'[r] = s
    BY DEF TypeOK
  <1>2. /\ \A m \in MembershipRow : m.id <= memberSeq => m.id <= memberSeq'
        /\ \A g \in GroupRow : g.id <= groupSeq => g.id <= groupSeq'
    BY DEF TypeOK, MembershipRow, GroupRow, Ids
  <1>3. TableInv'
    BY <1>2 DEF RowsInv, TableInv, TypeOK
  <1>4. ASSUME NEW q \in Requests
        PROVE  PendingInv(q)' /\ StageInv(q)'
    <2>1. CASE q = r
      <3>1. StageInv(r)'
        BY <1>1 DEF StageInv
      <3> QED
        BY <2>1, <3>1
    <2>2. CASE q # r
      <3>1. PendingInv(q)'
        BY <1>1, <2>2, PendingKept DEF RowsInv
      <3>2. StageInv(q)'
        BY <1>1, <2>2, StageKept DEF RowsInv
      <3> QED
        BY <3>1, <3>2
    <2> QED
      BY <2>1, <2>2
  <1>5. ASSUME NEW p \in Requests, NEW q \in Requests, p # q
        PROVE  ApartInv(p, q)'
    <2>1. CASE p # r /\ q # r
      BY <1>1, <1>5, <2>1 DEF RowsInv, ApartInv
    <2>2. CASE p = r
      BY <1>1, <1>5, <2>2 DEF ApartInv
    <2>3. CASE q = r
      BY <1>1, <1>5, <2>3 DEF ApartInv, Clash, GroupClash
    <2> QED
      BY <2>1, <2>2, <2>3
  <1> QED
    BY <1>3, <1>4, <1>5 DEF RowsInv

-----------------------------------------------------------------------------
(* The statements on memberships.                                          *)

(* What WriteMember needs: the rows are locked or new, and fit in.         *)
LEMMA MemberWriteRows ==
  ASSUME TypeOK, RowsInv, NEW r \in Requests, pc[r] \in {"exec", "enroll"},
         NEW del \in SUBSET members, NEW ins \in SUBSET MembershipRow,
         WriteMember(r, del, ins),
         memberSeq' \in {memberSeq, memberSeq + 1},
         \A m \in ins : m.id <= memberSeq',
         \A m \in ins : \E g \in groups \cup tx[r].gIns : g.id = m.group,
         UniqueMemberships((members \ del) \cup ins), ins \cap members \subseteq del,
         \A q \in Requests \ {r} :
           /\ del \cap tx[q].mDel = {}
           /\ \A m \in ins, n \in tx[q].mIns : ~Clash(m, n)
  PROVE  RowsInv'
  <1> DEFINE t == [tx[r] EXCEPT !.mDel = del, !.mIns = ins]
  <1>1. tx[r] \in TxType /\ del \subseteq MembershipRow
    BY DEF TypeOK
  <1>2. t \in TxType /\ tx' = [tx EXCEPT ![r] = t] /\ tx'[r] = t
    BY <1>1 DEF TxType, WriteMember, TypeOK
  <1>3. /\ t.mDel = del /\ t.mIns = ins
        /\ t.gDel = tx[r].gDel /\ t.gIns = tx[r].gIns
    BY <1>1 DEF TxType
  <1>4. /\ UNCHANGED <<groups, members, groupSeq>>
        /\ pc' = [pc EXCEPT ![r] = "commit"]
    BY DEF WriteMember, Goto
  <1> HIDE DEF t
  <1>5. PendingInv(r)'
    <2>1. PendingInv(r)
      BY DEF RowsInv
    <2> QED
      BY <1>2, <1>3, <1>4, <2>1 DEF PendingInv
  <1>6. \A q \in Requests \ {r} :
          /\ t.mDel \cap tx[q].mDel = {} /\ t.gDel \cap tx[q].gDel = {}
          /\ \A m \in t.mIns, n \in tx[q].mIns : ~Clash(m, n)
          /\ \A g \in t.gIns, h \in tx[q].gIns : ~GroupClash(g, h)
    BY <1>3 DEF RowsInv, ApartInv
  <1> QED
    BY <1>2, <1>4, <1>5, <1>6, WriteRows

(* The unique index lets an INSERT through when no committed and no        *)
(* pending row has its key; its identifier is ahead of all.                *)
LEMMA InvitationRows ==
  ASSUME TypeOK, RowsInv, NEW r \in Requests, TargetInv(r),
         InsertInvitation(r), TypeOK'
  PROVE  RowsInv'
  <1>1. memberSeq' = memberSeq + 1 /\ memberSeq \in Nat
    BY DEF InsertInvitation, TypeOK
  <1>2. CASE End(r, "409") /\ UNCHANGED groupSeq
    <2>1. Quiet(r)
      BY <1>1, <1>2, EndQuiet
    <2> QED
      BY <2>1, QuietRows
  <1>3. CASE /\ MembersOf(call[r].gid, call[r].who) = {}
             /\ WriteMember(r, {}, {Invitation(call[r], memberSeq + 1)})
    <2> DEFINE row == Invitation(call[r], memberSeq + 1)
    <2>1. /\ pc[r] = "exec" /\ call[r].op = "invite" /\ call[r].who \in Users
          /\ call[r] \in CallRecord
      BY CallTyping, EmptyTyping DEF InsertInvitation, At, TypeOK
    <2>2. row \in MembershipRow
      BY <2>1, Unmoved DEF Invitation, MembershipRow, CallRecord, Ids
    <2>3. /\ row.id = memberSeq + 1 /\ row.group = call[r].gid
          /\ row.user = call[r].who
      BY DEF Invitation
    <2>4. \E g \in groups : g.id = row.group
      BY <2>1, <2>3 DEF TargetInv
    <2>5. \A m \in MembershipRow : m.id <= memberSeq => m.id # memberSeq + 1
      BY <1>1 DEF MembershipRow, Ids
    <2>6. \A m \in members : ~Clash(m, row) /\ ~Clash(row, m)
      <3>1. \A m \in members : m.id # memberSeq + 1
        BY <2>5 DEF RowsInv, TableInv, TypeOK
      <3> QED
        BY <1>3, <2>3, <3>1 DEF Clash, MembersOf
    <2>7. ASSUME NEW q \in Requests \ {r}, NEW n \in tx[q].mIns
          PROVE  ~Clash(row, n)
      <3>1. n \in MembershipRow /\ n.id <= memberSeq
        BY DEF RowsInv, PendingInv, TypeOK, TxType
      <3>2. ~(n.group = call[r].gid /\ n.user = call[r].who)
        BY DEF InsertInvitation, MemberKeyLocked
      <3> QED
        BY <2>3, <2>5, <3>1, <3>2 DEF Clash
    <2> HIDE DEF row
    <2>8. UniqueMemberships((members \ {}) \cup {row})
      BY <2>6 DEF UniqueMemberships, RowsInv, TableInv
    <2>9. row.id <= memberSeq' /\ {row} \cap members = {}
      BY <1>1, <2>3, <2>6 DEF Clash
    <2>10. WriteMember(r, {}, {row})
      BY <1>3 DEF row
    <2> QED
      BY <1>1, <2>1, <2>2, <2>4, <2>7, <2>8, <2>9, <2>10, MemberWriteRows
  <1> QED
    BY <1>2, <1>3 DEF InsertInvitation

(* An UPDATE waits for the transaction that has written its row, and keeps *)
(* the row's keys.                                                         *)
LEMMA UpdateRows ==
  ASSUME TypeOK, RowsInv, NEW r \in Requests, UpdateMembership(r), TypeOK'
  PROVE  RowsInv'
  <1>1. pc[r] = "exec" /\ call[r].op \in {"accept", "promote", "demote"}
    BY DEF UpdateMembership, At
  <1>2. CASE Answer(r, "500") \/ Answer(r, "lastadmin")
    BY <1>2, AnswerQuiet, QuietRows
  <1>3. ASSUME NEW m \in MemberById(call[r].mid), UNCHANGED memberSeq,
               WriteMember(r, {m}, {Updated(call[r].op, m)})
        PROVE  RowsInv'
    <2> DEFINE new == Updated(call[r].op, m)
    <2>1. m \in members /\ m \in MembershipRow /\ m.id = call[r].mid
      BY Unmoved DEF MemberById
    <2>2. /\ new \in MembershipRow
          /\ new.id = m.id /\ new.group = m.group /\ new.user = m.user
      BY <1>1, <2>1, UpdatedType
    <2> HIDE DEF new
    <2>3. UniqueMemberships((members \ {m}) \cup {new})
      BY <2>1, <2>2, UniqueReplacement DEF RowsInv, TableInv
    <2>4. \A q \in Requests \ {r} : m \notin tx[q].mDel
      BY <2>1 DEF UpdateMembership, MemberLocked
    <2>5. ASSUME NEW q \in Requests \ {r}, NEW n \in tx[q].mIns, Clash(new, n)
          PROVE  FALSE
      <3>1. Clash(n, m)
        BY <2>2, <2>5 DEF Clash
      <3> QED
        BY <2>1, <2>4, <3>1, PendingMeetsReplaced
    <2>8. {new} \cap members \subseteq {m}
      BY <2>1, <2>2 DEF RowsInv, TableInv, UniqueMemberships, Clash
    <2>6. new.id <= memberSeq' /\ \E g \in groups : g.id = new.group
      BY <1>3, <2>1, <2>2 DEF RowsInv, TableInv
    <2>7. WriteMember(r, {m}, {new})
      BY <1>3 DEF new
    <2> QED
      BY <1>1, <1>3, <2>1, <2>2, <2>3, <2>4, <2>5, <2>6, <2>7, <2>8,
         MemberWriteRows
  <1> QED
    BY <1>2, <1>3 DEF UpdateMembership

(* A DELETE pends behind the lock of its row.                              *)
LEMMA DeleteRows ==
  ASSUME TypeOK, RowsInv, NEW r \in Requests, DeleteMembership(r), TypeOK'
  PROVE  RowsInv'
  <1>1. pc[r] = "exec"
    BY DEF DeleteMembership, At
  <1>2. CASE Answer(r, "lastadmin")
    BY <1>2, AnswerQuiet, QuietRows
  <1>3. ASSUME NEW del \in SUBSET MemberById(call[r].mid), UNCHANGED memberSeq,
               WriteMember(r, del, {})
        PROVE  RowsInv'
    <2>1. del \in SUBSET members /\ \A m \in del : m.id = call[r].mid
      BY DEF MemberById
    <2>2. UniqueMemberships((members \ del) \cup {})
      BY DEF RowsInv, TableInv, UniqueMemberships
    <2>3. \A q \in Requests \ {r} : del \cap tx[q].mDel = {}
      BY <2>1 DEF DeleteMembership, MemberLocked
    <2> QED
      BY <1>1, <1>3, <2>1, <2>2, <2>3, MemberWriteRows
  <1>4. \/ Answer(r, "lastadmin")
        \/ \E del \in SUBSET MemberById(call[r].mid) :
             WriteMember(r, del, {}) /\ UNCHANGED memberSeq
    BY DEF DeleteMembership
  <1> QED
    BY <1>2, <1>3, <1>4

(* The creator's row: nobody can be in a group that is not committed, and  *)
(* no other transaction has inserted a group with its identifier.          *)
LEMMA EnrollRows ==
  ASSUME TypeOK, RowsInv, NEW r \in Requests, EnrollCreator(r)
  PROVE  RowsInv'
  <1>1. /\ pc[r] = "enroll" /\ call[r] \in CallRecord
        /\ memberSeq \in Nat /\ memberSeq' = memberSeq + 1
    BY Unmoved, CallTyping DEF EnrollCreator, At, NoCall
  <1>2. PICK g \in tx[r].gIns : /\ tx[r].gIns = {g}
                                /\ \A h \in groups : h.id # g.id
    BY <1>1 DEF RowsInv, StageInv
  <1> DEFINE row == CreatorRow(call[r].user, g, memberSeq + 1)
  <1>3. WriteMember(r, {}, {row})
    <2>1. {CreatorRow(call[r].user, h, memberSeq + 1) : h \in tx[r].gIns} = {row}
      BY <1>2
    <2> QED
      BY <2>1 DEF EnrollCreator
  <1>4. row \in MembershipRow /\ row.id = memberSeq + 1 /\ row.group = g.id
    <2>1. g.id \in Nat
      BY <1>2, Unmoved DEF TxType, GroupRow, Ids
    <2> QED
      BY <1>1, <2>1 DEF CreatorRow, MembershipRow, CallRecord, Ids, Roles
  <1>5. \A m \in MembershipRow : m.id <= memberSeq => m.id # memberSeq + 1
    BY <1>1 DEF MembershipRow, Ids
  <1>6. \A m \in members : ~Clash(m, row) /\ ~Clash(row, m)
    <2>1. \A m \in members : m.id # memberSeq + 1 /\ m.group # g.id
      BY <1>2, <1>5 DEF RowsInv, TableInv, TypeOK
    <2> QED
      BY <1>4, <2>1 DEF Clash
  <1>7. ASSUME NEW q \in Requests \ {r}, NEW n \in tx[q].mIns
        PROVE  ~Clash(row, n)
    <2>1. n \in MembershipRow /\ n.id <= memberSeq
      BY DEF RowsInv, PendingInv, TypeOK, TxType
    <2>2. PICK h \in groups \cup tx[q].gIns : h.id = n.group
      BY DEF RowsInv, PendingInv
    <2>3. ASSUME h \in tx[q].gIns PROVE h.id # g.id
      BY <1>2, <2>3 DEF RowsInv, ApartInv, GroupClash
    <2>4. n.group # g.id
      BY <1>2, <2>2, <2>3
    <2> QED
      BY <1>4, <1>5, <2>1, <2>4 DEF Clash
  <1> HIDE DEF row
  <1>8. /\ UniqueMemberships((members \ {}) \cup {row})
        /\ {row} \cap members = {}
    <2>1. Clash(row, row)
      BY DEF Clash
    <2>2. {row} \cap members = {}
      BY <1>6, <2>1
    <2> QED
      BY <1>6, <2>2 DEF UniqueMemberships, RowsInv, TableInv
  <1>9. row.id <= memberSeq'
    BY <1>1, <1>4
  <1> QED
    BY <1>1, <1>2, <1>3, <1>4, <1>7, <1>8, <1>9, MemberWriteRows

-----------------------------------------------------------------------------
(* The statements on groups.                                               *)

(* A write of groups that clashes with no pending one keeps the invariant. *)
LEMMA GroupWriteRows ==
  ASSUME TypeOK, RowsInv, NEW r \in Requests, pc[r] = "exec",
         NEW del \in SUBSET groups, NEW ins \in SUBSET GroupRow,
         NEW next \in {"enroll", "commit"}, WriteGroup(r, del, ins, next),
         groupSeq' \in {groupSeq, groupSeq + 1},
         \A g \in ins : g.id <= groupSeq',
         \A g \in del : \E h \in ins : h.id = g.id,
         UniqueGroups((groups \ del) \cup ins), ins \cap groups \subseteq del,
         next = "enroll" => (del = {} /\ \E g \in ins :
                               ins = {g} /\ \A h \in groups : h.id # g.id),
         \A q \in Requests \ {r} :
           /\ del \cap tx[q].gDel = {}
           /\ \A g \in ins, h \in tx[q].gIns : ~GroupClash(g, h)
  PROVE  RowsInv'
  <1> DEFINE t == [tx[r] EXCEPT !.gDel = del, !.gIns = ins]
  <1>1. tx[r] \in TxType /\ del \subseteq GroupRow
    BY DEF TypeOK
  <1>2. t \in TxType /\ tx' = [tx EXCEPT ![r] = t] /\ tx'[r] = t
    BY <1>1 DEF TxType, WriteGroup, TypeOK
  <1>3. /\ t.gDel = del /\ t.gIns = ins /\ t.mDel = {} /\ t.mIns = {}
    BY <1>1 DEF TxType, RowsInv, StageInv, NoTx
  <1>4. /\ UNCHANGED <<groups, members, memberSeq>>
        /\ pc' = [pc EXCEPT ![r] = next]
    BY DEF WriteGroup, Goto
  <1> HIDE DEF t
  <1>5. PendingInv(r)'
    <2>1. (members \ t.mDel) \cup t.mIns = members /\ UniqueMemberships(members)
      BY <1>3 DEF RowsInv, TableInv
    <2> QED
      BY <1>2, <1>3, <1>4, <2>1 DEF PendingInv
  <1>6. \A q \in Requests \ {r} :
          /\ t.mDel \cap tx[q].mDel = {} /\ t.gDel \cap tx[q].gDel = {}
          /\ \A m \in t.mIns, n \in tx[q].mIns : ~Clash(m, n)
          /\ \A g \in t.gIns, h \in tx[q].gIns : ~GroupClash(g, h)
    BY <1>3
  <1> QED
    BY <1>2, <1>3, <1>4, <1>5, <1>6, WriteRows

(* The INSERT of a group: the handle is neither taken nor pending.         *)
LEMMA InsertGroupRows ==
  ASSUME TypeOK, RowsInv, NEW r \in Requests, InsertGroup(r), TypeOK'
  PROVE  RowsInv'
  <1>1. groupSeq' = groupSeq + 1 /\ groupSeq \in Nat
    BY DEF InsertGroup, TypeOK
  <1>2. CASE End(r, "409") /\ UNCHANGED memberSeq
    <2>1. Quiet(r)
      BY <1>1, <1>2, EndQuiet
    <2> QED
      BY <2>1, QuietRows
  <1>3. CASE /\ ~Taken(seen[r].handle)
             /\ WriteGroup(r, {}, {NewGroup(r, groupSeq + 1)}, "enroll")
    <2> DEFINE row == NewGroup(r, groupSeq + 1)
    <2>1. pc[r] = "exec" /\ call[r] \in CallRecord
      BY Unmoved, CallTyping DEF InsertGroup, At, NoCall
    <2>2. row \in GroupRow
      BY <2>1, Unmoved
         DEF NewGroup, GroupRow, SeenType, CallRecord, DefaultFlags, Ids
    <2>3. row.id = groupSeq + 1 /\ row.handle = seen[r].handle
      BY DEF NewGroup
    <2>4. \A g \in GroupRow : g.id <= groupSeq => g.id # groupSeq + 1
      BY <1>1 DEF GroupRow, Ids
    <2>5. \A g \in groups : g.id # row.id /\ g.handle # row.handle
      BY <1>3, <2>3, <2>4 DEF RowsInv, TableInv, TypeOK, Taken
    <2>6. ASSUME NEW q \in Requests \ {r}, NEW h \in tx[q].gIns
          PROVE  ~GroupClash(row, h)
      <3>1. h \in GroupRow /\ h.id <= groupSeq
        BY DEF RowsInv, PendingInv, TypeOK, TxType
      <3>2. h.handle # seen[r].handle
        BY DEF InsertGroup, HandleLocked
      <3> QED
        BY <2>3, <2>4, <3>1, <3>2 DEF GroupClash
    <2> HIDE DEF row
    <2>7. UniqueGroups((groups \ {}) \cup {row}) /\ {row} \cap groups = {}
      BY <2>5 DEF UniqueGroups, GroupClash, RowsInv, TableInv
    <2>8. row.id <= groupSeq'
      BY <1>1, <2>3
    <2>9. WriteGroup(r, {}, {row}, "enroll")
      BY <1>3 DEF row
    <2>10. \E g \in {row} : {row} = {g} /\ \A h \in groups : h.id # g.id
      BY <2>5
    <2>11. /\ {} \in SUBSET groups /\ {row} \in SUBSET GroupRow
           /\ \A q \in Requests \ {r} :
                \A g \in {row}, h \in tx[q].gIns : ~GroupClash(g, h)
      BY <2>2, <2>6
    <2> QED
      BY <1>1, <2>1, <2>7, <2>8, <2>9, <2>10, <2>11, GroupWriteRows
  <1> QED
    BY <1>2, <1>3 DEF InsertGroup

(* The UPDATE of a group: the row is not being replaced by another.        *)
LEMMA UpdateGroupRows ==
  ASSUME TypeOK, RowsInv, NEW r \in Requests, UpdateGroup(r)
  PROVE  RowsInv'
  <1>1. /\ pc[r] = "exec" /\ call[r].op \in {"update", "archive", "unarchive"}
        /\ call[r] \in CallRecord
    BY Unmoved, CallTyping DEF UpdateGroup, At, NoCall
  <1>2. PICK g \in GroupById(call[r].gid) :
          WriteGroup(r, {g}, {Changed(call[r], g)}, "commit")
    BY DEF UpdateGroup
  <1> DEFINE new == Changed(call[r], g)
  <1>3. g \in groups /\ g \in GroupRow /\ g.id = call[r].gid
    BY Unmoved DEF GroupById
  <1>4. new \in GroupRow /\ new.id = g.id /\ new.handle = g.handle
    BY <1>1, <1>3, ChangedType
  <1> HIDE DEF new
  <1>5. UniqueGroups((groups \ {g}) \cup {new}) /\ {new} \cap groups \subseteq {g}
    <2>1. UniqueGroups(groups)
      BY DEF RowsInv, TableInv
    <2> QED
      BY <1>3, <1>4, <2>1, UniqueGroupReplacement DEF UniqueGroups, GroupClash
  <1>6. \A q \in Requests \ {r} : g \notin tx[q].gDel
    BY <1>3 DEF UpdateGroup, GroupLocked
  <1>7. ASSUME NEW q \in Requests \ {r}, NEW h \in tx[q].gIns, GroupClash(new, h)
        PROVE  FALSE
    <2>1. GroupClash(h, g)
      BY <1>4, <1>7 DEF GroupClash
    <2> QED
      BY <1>3, <1>6, <2>1, PendingGroupMeetsReplaced
  <1>8. UNCHANGED groupSeq /\ new.id <= groupSeq'
    BY <1>3, <1>4 DEF UpdateGroup, RowsInv, TableInv
  <1>9. WriteGroup(r, {g}, {new}, "commit")
    BY <1>2 DEF new
  <1> QED
    BY <1>1, <1>3, <1>4, <1>5, <1>6, <1>7, <1>8, <1>9, GroupWriteRows

-----------------------------------------------------------------------------
(* COMMIT.                                                                 *)

(* A commit keeps the tables unique and every other transaction valid.     *)
LEMMA CommitRows ==
  ASSUME TypeOK, RowsInv, NEW r \in Requests, Commit(r)
  PROVE  RowsInv'
  <1>1. /\ members' = (members \ tx[r].mDel) \cup tx[r].mIns
        /\ groups' = (groups \ tx[r].gDel) \cup tx[r].gIns
        /\ UNCHANGED <<groupSeq, memberSeq>>
        /\ tx' = [tx EXCEPT ![r] = NoTx]
    BY DEF Commit
  <1>2. /\ \A q \in Requests \ {r} : tx'[q] = tx[q] /\ pc'[q] = pc[q]
        /\ tx'[r].mDel = {} /\ tx'[r].mIns = {}
        /\ tx'[r].gDel = {} /\ tx'[r].gIns = {}
        /\ pc'[r] \notin {"exec", "enroll"}
    BY <1>1 DEF Commit, Goto, TypeOK, NoTx
  <1>3. PendingInv(r) /\ TableInv
    BY DEF RowsInv
  <1>4. \A g \in groups \cup tx[r].gIns : \E h \in groups' : h.id = g.id
    BY <1>1, <1>3 DEF PendingInv
  <1>5. TableInv'
    <2>1. UniqueMemberships(members') /\ UniqueGroups(groups')
      BY <1>1, <1>3 DEF PendingInv
    <2>2. /\ \A m \in members' : m.id <= memberSeq'
          /\ \A g \in groups' : g.id <= groupSeq'
      BY <1>1, <1>3 DEF PendingInv, TableInv
    <2>3. \A m \in members' : \E g \in groups' : g.id = m.group
      BY <1>1, <1>3, <1>4 DEF PendingInv, TableInv
    <2> QED
      BY <2>1, <2>2, <2>3 DEF TableInv
  <1>6. PendingInv(r)' /\ StageInv(r)'
    <2>1. /\ (members' \ tx'[r].mDel) \cup tx'[r].mIns = members'
          /\ (groups' \ tx'[r].gDel) \cup tx'[r].gIns = groups'
      BY <1>2
    <2> QED
      BY <1>2, <1>5, <2>1 DEF TableInv, PendingInv, StageInv
  <1>7. ASSUME NEW q \in Requests, q # r
        PROVE  PendingInv(q)' /\ StageInv(q)'
    <2>1. PendingInv(q) /\ StageInv(q) /\ ApartInv(r, q)
      BY <1>7 DEF RowsInv
    <2>2. tx'[q] = tx[q] /\ pc'[q] = pc[q]
      BY <1>2, <1>7
    <2>3. tx'[q].mDel \subseteq members' /\ tx'[q].gDel \subseteq groups'
      BY <1>1, <2>1, <2>2 DEF PendingInv, ApartInv
    <2>4. /\ UniqueMemberships((members' \ tx'[q].mDel) \cup tx'[q].mIns)
          /\ UniqueGroups((groups' \ tx'[q].gDel) \cup tx'[q].gIns)
      BY <1>1, <1>3, <2>1, <2>2, UniqueAfterCommit, UniqueGroupsAfterCommit
         DEF PendingInv, ApartInv
    <2>5. /\ tx'[q].mIns \cap members' \subseteq tx'[q].mDel
          /\ tx'[q].gIns \cap groups' \subseteq tx'[q].gDel
      BY <1>1, <2>1, <2>2 DEF PendingInv, ApartInv, Clash, GroupClash
    <2>6. /\ \A m \in tx'[q].mIns : m.id <= memberSeq'
          /\ \A g \in tx'[q].gIns : g.id <= groupSeq'
          /\ \A g \in tx'[q].gDel : \E h \in tx'[q].gIns : h.id = g.id
      BY <1>1, <2>1, <2>2 DEF PendingInv
    <2>7. \A m \in tx'[q].mIns : \E g \in groups' \cup tx'[q].gIns : g.id = m.group
      BY <1>4, <2>1, <2>2 DEF PendingInv
    <2>8. StageInv(q)'
      BY <1>1, <2>1, <2>2 DEF StageInv, ApartInv, GroupClash
    <2> QED
      BY <2>3, <2>4, <2>5, <2>6, <2>7, <2>8 DEF PendingInv
  <1>8. ASSUME NEW p \in Requests, NEW q \in Requests, p # q
        PROVE  ApartInv(p, q)'
    BY <1>2, <1>8 DEF RowsInv, ApartInv
  <1> QED
    BY <1>5, <1>6, <1>7, <1>8 DEF RowsInv

-----------------------------------------------------------------------------
(* The target of an invitation.  One handler moves and groups only grow.   *)

(* A step that keeps what a request has found out about its group.         *)
LEMMA TargetStep ==
  ASSUME TypeOK, \A q \in Requests : TargetInv(q), NEW r \in Requests,
         NEW v, NEW s, NEW c,
         seen' = [seen EXCEPT ![r] = v], pc' = [pc EXCEPT ![r] = s],
         call' = [call EXCEPT ![r] = c],
         \A g \in groups : \E h \in groups' : h.id = g.id,
         s \in {"idle", "done"} => v.gid = 0,
         c.op = "invite" => v.gid = 0,
         (c.op = "invite" /\ s \in {"member", "begin", "exec"})
           => \E g \in groups : g.id = c.gid
  PROVE  \A q \in Requests : TargetInv(q)'
  <1> SUFFICES ASSUME NEW q \in Requests PROVE TargetInv(q)'
    OBVIOUS
  <1>1. CASE q = r
    <2>1. seen'[r] = v /\ pc'[r] = s /\ call'[r] = c
      BY DEF TypeOK
    <2> QED
      BY <1>1, <2>1 DEF TargetInv
  <1>2. CASE q # r
    <2>1. seen'[q] = seen[q] /\ pc'[q] = pc[q] /\ call'[q] = call[q]
      BY <1>2 DEF TypeOK
    <2>2. TargetInv(q)
      OBVIOUS
    <2> QED
      BY <2>1, <2>2 DEF TargetInv
  <1> QED
    BY <1>1, <1>2

(* The end of a handler forgets the group.                                 *)
LEMMA TargetEnd ==
  ASSUME TypeOK, \A q \in Requests : TargetInv(q), NEW r \in Requests,
         NEW code, End(r, code)
  PROVE  \A q \in Requests : TargetInv(q)'
  <1>1. call' = [call EXCEPT ![r] = call[r]] /\ groups' = groups
    BY Unmoved DEF End
  <1> QED
    BY <1>1, TargetStep DEF End, Goto, Unread

(* So does an answer.                                                      *)
LEMMA TargetAnswer ==
  ASSUME TypeOK, \A q \in Requests : TargetInv(q), NEW r \in Requests,
         NEW code, Answer(r, code)
  PROVE  \A q \in Requests : TargetInv(q)'
  BY TargetEnd DEF Answer

(* A handler that serves no invitation reads on.                           *)
LEMMA TargetRead ==
  ASSUME TypeOK, \A q \in Requests : TargetInv(q), NEW r \in Requests,
         call[r].op # "invite", NEW s \in Steps, NEW v,
         Goto(r, s), seen' = [seen EXCEPT ![r] = v], UNCHANGED <<groups, call>>
  PROVE  \A q \in Requests : TargetInv(q)'
  <1>1. s \notin {"idle", "done"}
    BY DEF Steps
  <1>2. call' = [call EXCEPT ![r] = call[r]]
    BY Unmoved
  <1> QED
    BY <1>1, <1>2, TargetStep DEF Goto

(* Moving on forgets nothing.                                              *)
LEMMA TargetProceed ==
  ASSUME TypeOK, \A q \in Requests : TargetInv(q), NEW r \in Requests,
         call[r].op # "invite", NEW s \in Steps, Proceed(r, s)
  PROVE  \A q \in Requests : TargetInv(q)'
  BY Unmoved, TargetRead DEF Proceed, TablesUnchanged

(* Taking a call, freeing a slot and failing.                              *)
LEMMA TargetOuter ==
  ASSUME TypeOK, \A q \in Requests : TargetInv(q), NEW r \in Requests,
         Receive(r) \/ Finish(r) \/ Fail(r)
  PROVE  \A q \in Requests : TargetInv(q)'
  <1>1. CASE Receive(r)
    <2>1. PICK c \in Calls :
            call' = [call EXCEPT ![r] = c] /\ Goto(r, FirstStep(c.op))
      BY <1>1 DEF Receive
    <2>2. c.op \in Ops
      BY CallTyping
    <2>3. FirstStep(c.op) \in {"row", "group", "name"}
      BY <2>2 DEF FirstStep, Ops, MemberOps, GroupOps
    <2>4. seen[r].gid = 0
      BY <1>1 DEF Receive, TargetInv
    <2>5. seen' = [seen EXCEPT ![r] = seen[r]] /\ groups' = groups
      BY <1>1, Unmoved DEF Receive, TablesUnchanged
    <2> QED
      BY <2>1, <2>3, <2>4, <2>5, TargetStep DEF Goto
  <1>2. CASE Finish(r)
    <2>1. seen[r].gid = 0
      BY <1>2 DEF Finish, TargetInv
    <2>2. seen' = [seen EXCEPT ![r] = seen[r]] /\ groups' = groups
      BY <1>2, Unmoved DEF Finish, TablesUnchanged
    <2> QED
      BY <1>2, <2>1, <2>2, EmptyTyping, TargetStep DEF Finish, Goto
  <1>3. CASE Fail(r)
    BY <1>3, TargetAnswer DEF Fail
  <1> QED
    BY <1>1, <1>2, <1>3

(* The steps all handlers share; reading the group finds it.               *)
LEMMA TargetShared ==
  ASSUME TypeOK, RowsInv, \A q \in Requests : TargetInv(q), NEW r \in Requests,
         ReadGroup(r) \/ Begin(r) \/ Commit(r)
  PROVE  \A q \in Requests : TargetInv(q)'
  <1>1. CASE ReadGroup(r)
    <2>1. CASE Answer(r, "404")
      BY <2>1, TargetAnswer
    <2>2. ASSUME NEW g \in GroupById(TargetGroup(r)),
                 seen' = [seen EXCEPT ![r].archived = g.archived,
                                      ![r].flags = g.flags],
                 Goto(r, "member"), TablesUnchanged, UNCHANGED <<tx, call, reply>>
          PROVE  \A q \in Requests : TargetInv(q)'
      <3> DEFINE v == [seen[r] EXCEPT !.archived = g.archived, !.flags = g.flags]
      <3>1. seen' = [seen EXCEPT ![r] = v] /\ v.gid = seen[r].gid
        BY <2>2, Unmoved DEF SeenType
      <3>2. call[r].op = "invite" => seen[r].gid = 0
        BY DEF TargetInv
      <3>3. call[r].op = "invite" => g \in groups /\ g.id = call[r].gid
        BY <3>2 DEF GroupById, TargetGroup
      <3>4. call' = [call EXCEPT ![r] = call[r]] /\ groups' = groups
        BY <2>2, Unmoved DEF TablesUnchanged
      <3>5. pc' = [pc EXCEPT ![r] = "member"]
        BY <2>2 DEF Goto
      <3>6. /\ \A x \in groups : \E h \in groups' : h.id = x.id
            /\ call[r].op = "invite" => v.gid = 0
            /\ call[r].op = "invite" => \E x \in groups : x.id = call[r].gid
        BY <3>1, <3>2, <3>3, <3>4
      <3> HIDE DEF v
      <3> QED
        BY <3>1, <3>4, <3>5, <3>6, TargetStep
    <2> QED
      BY <1>1, <2>1, <2>2 DEF ReadGroup
  <1>2. CASE Begin(r)
    <2>1. TargetInv(r) /\ pc[r] = "begin"
      BY <1>2 DEF Begin
    <2>2. /\ call' = [call EXCEPT ![r] = call[r]] /\ groups' = groups
          /\ seen' = [seen EXCEPT ![r] = seen[r]]
          /\ pc' = [pc EXCEPT ![r] = "exec"]
      BY <1>2, Unmoved DEF Begin, TablesUnchanged, Goto
    <2>3. /\ call[r].op = "invite" => seen[r].gid = 0
          /\ call[r].op = "invite" => \E g \in groups : g.id = call[r].gid
      BY <2>1 DEF TargetInv
    <2> QED
      BY <2>2, <2>3, TargetStep
  <1>3. CASE Commit(r)
    <2>1. \A g \in groups : \E h \in groups' : h.id = g.id
      <3>1. PendingInv(r) /\ groups' = (groups \ tx[r].gDel) \cup tx[r].gIns
        BY <1>3 DEF RowsInv, Commit
      <3> QED
        BY <3>1 DEF PendingInv
    <2>2. PICK s \in {"countMembers", "done"} : pc' = [pc EXCEPT ![r] = s]
      BY <1>3 DEF Commit, Goto
    <2>3. /\ seen' = [seen EXCEPT ![r] = Unread] /\ Unread.gid = 0
          /\ call' = [call EXCEPT ![r] = call[r]]
      BY <1>3, Unmoved DEF Commit, Unread
    <2> QED
      BY <2>1, <2>2, <2>3, TargetStep
  <1> QED
    BY <1>1, <1>2, <1>3

(* A write inside a transaction forgets nothing.                           *)
LEMMA TargetWrite ==
  ASSUME TypeOK, \A q \in Requests : TargetInv(q), NEW r \in Requests,
         NEW s \in {"enroll", "commit"}, Goto(r, s),
         UNCHANGED <<groups, call, seen>>
  PROVE  \A q \in Requests : TargetInv(q)'
  <1>1. /\ call' = [call EXCEPT ![r] = call[r]]
        /\ seen' = [seen EXCEPT ![r] = seen[r]]
    BY Unmoved
  <1>2. call[r].op = "invite" => seen[r].gid = 0
    BY DEF TargetInv
  <1> QED
    BY <1>1, <1>2, TargetStep DEF Goto

(* The steps of the membership handlers.                                   *)
LEMMA TargetMember ==
  ASSUME TypeOK, \A q \in Requests : TargetInv(q), NEW r \in Requests,
         MembershipStep(r)
  PROVE  \A q \in Requests : TargetInv(q)'
  <1> DEFINE OK == \A q \in Requests : TargetInv(q)'
  <1>1. Codes \cap Steps = {}
    BY DEF Codes, Steps
  <1>2. CASE LoadInvitation(r)
    BY <1>1, <1>2, TargetAnswer, TargetProceed DEF LoadInvitation, At, Decide
  <1>3. CASE LoadMembership(r)
    <2>1. call[r].op # "invite" /\ "group" \in Steps
      BY <1>3 DEF LoadMembership, At, Steps
    <2>2. CASE Answer(r, "404")
      BY <2>2, TargetAnswer
    <2>3. ASSUME NEW m,
                 seen' = [seen EXCEPT ![r].gid = m.group, ![r].role = m.role],
                 Goto(r, "group"), TablesUnchanged, UNCHANGED call
          PROVE  OK
      <3>1. seen' = [seen EXCEPT ![r] = [seen[r] EXCEPT !.gid = m.group,
                                                        !.role = m.role]]
        BY <2>3, Unmoved DEF SeenType
      <3> QED
        BY <2>1, <2>3, <3>1, TargetRead DEF TablesUnchanged
    <2> QED
      BY <1>3, <2>2, <2>3 DEF LoadMembership
  <1>4. CASE AuthorizeInvite(r)
    <2>1. pc[r] = "member" /\ call[r].op = "invite" /\ TargetInv(r)
      BY <1>4 DEF AuthorizeInvite, At
    <2>2. CASE Proceed(r, "begin")
      <3>1. /\ call' = [call EXCEPT ![r] = call[r]] /\ groups' = groups
            /\ seen' = [seen EXCEPT ![r] = seen[r]]
            /\ pc' = [pc EXCEPT ![r] = "begin"]
        BY <2>2, Unmoved DEF Proceed, TablesUnchanged, Goto
      <3>2. seen[r].gid = 0 /\ \E g \in groups : g.id = call[r].gid
        BY <2>1 DEF TargetInv
      <3> QED
        BY <3>1, <3>2, TargetStep
    <2>3. \/ \E code : Answer(r, code)
          \/ Proceed(r, "begin")
      BY <1>1, <1>4 DEF AuthorizeInvite, InviteCheck, Decide, Codes, Steps
    <2> QED
      BY <2>2, <2>3, TargetAnswer
  <1>5. CASE AuthorizePromote(r) \/ AuthorizeDemote(r) \/ AuthorizeRemove(r)
    BY <1>1, <1>5, TargetAnswer, TargetProceed
       DEF AuthorizePromote, AuthorizeDemote, AuthorizeRemove, At, Decide
  <1>6. CASE CountAdmins(r)
    BY <1>6, TargetAnswer, TargetProceed DEF CountAdmins, At, Steps
  <1>7. CASE InsertInvitation(r)
    BY <1>7, TargetEnd, TargetWrite DEF InsertInvitation, WriteMember
  <1>8. CASE UpdateMembership(r)
    BY <1>8, TargetAnswer, TargetWrite DEF UpdateMembership, WriteMember
  <1>9. CASE DeleteMembership(r)
    BY <1>9, TargetAnswer, TargetWrite DEF DeleteMembership, WriteMember
  <1> QED
    BY <1>2, <1>3, <1>4, <1>5, <1>6, <1>7, <1>8, <1>9 DEF MembershipStep

(* The steps of the group handlers.                                        *)
LEMMA TargetGroups ==
  ASSUME TypeOK, \A q \in Requests : TargetInv(q), NEW r \in Requests,
         GroupStep(r)
  PROVE  \A q \in Requests : TargetInv(q)'
  <1>1. {"probe", "begin", "countAdmins"} \subseteq Steps
    BY DEF Steps
  <1>2. CASE AuthorizeSubgroup(r) \/ AuthorizeUpdate(r) \/ AuthorizeArchive(r)
    BY <1>2, TargetAnswer, TargetProceed
       DEF AuthorizeSubgroup, AuthorizeUpdate, AuthorizeArchive, At, Decide
  <1>3. ASSUME NEW h, NEW s \in Steps, call[r].op # "invite",
               seen' = [seen EXCEPT ![r].handle = h],
               Goto(r, s), TablesUnchanged, UNCHANGED call
        PROVE  \A q \in Requests : TargetInv(q)'
    <2>1. seen' = [seen EXCEPT ![r] = [seen[r] EXCEPT !.handle = h]]
      BY <1>3, Unmoved DEF SeenType
    <2> QED
      BY <1>3, <2>1, TargetRead DEF TablesUnchanged
  <1>4. CASE ValidateName(r)
    BY <1>1, <1>3, <1>4, TargetAnswer, TargetProceed DEF ValidateName, At
  <1>5. CASE ProbeHandle(r)
    <2>1. UNCHANGED pc => Goto(r, "probe")
      BY <1>5, Unmoved DEF ProbeHandle, At, Goto
    <2> QED
      BY <1>1, <1>3, <1>5, <2>1, TargetAnswer, TargetProceed
         DEF ProbeHandle, At
  <1>6. CASE InsertGroup(r)
    BY <1>6, TargetEnd, TargetWrite DEF InsertGroup, WriteGroup
  <1>7. CASE EnrollCreator(r)
    BY <1>7, TargetWrite DEF EnrollCreator, WriteMember
  <1>8. CASE UpdateGroup(r)
    BY <1>8, TargetWrite DEF UpdateGroup, WriteGroup
  <1>9. CASE CountAfterUpdate(r)
    BY <1>1, <1>9, TargetAnswer, TargetProceed DEF CountAfterUpdate, At
  <1> QED
    BY <1>2, <1>4, <1>5, <1>6, <1>7, <1>8, <1>9 DEF GroupStep

-----------------------------------------------------------------------------
(* The seeded database satisfies the invariant.                            *)
LEMMA InitRows == Init => RowInv
  <1> SUFFICES ASSUME Init PROVE RowInv
    OBVIOUS
  <1>1. TableInv
    BY SeedAssumption DEF Init, StoreInit, TableInv
  <1>2. ASSUME NEW r \in Requests
        PROVE  /\ tx[r].mDel = {} /\ tx[r].mIns = {}
               /\ tx[r].gDel = {} /\ tx[r].gIns = {}
               /\ pc[r] = "idle" /\ seen[r].gid = 0 /\ call[r].op = "none"
    BY DEF Init, StoreInit, NoTx, Unread, NoCall
  <1>3. ASSUME NEW r \in Requests
        PROVE  PendingInv(r) /\ StageInv(r) /\ TargetInv(r)
    <2>1. /\ (members \ tx[r].mDel) \cup tx[r].mIns = members
          /\ (groups \ tx[r].gDel) \cup tx[r].gIns = groups
      BY <1>2
    <2>2. PendingInv(r)
      BY <1>1, <1>2, <2>1 DEF TableInv, PendingInv
    <2> QED
      BY <1>2, <2>2 DEF StageInv, TargetInv
  <1>4. \A q, r \in Requests : ApartInv(q, r)
    BY <1>2 DEF ApartInv
  <1> QED
    BY <1>1, <1>3, <1>4 DEF RowInv, RowsInv

(* Every step keeps the invariant.                                         *)
LEMMA NextRows ==
  ASSUME TypeOK, RowInv, [Next]_vars
  PROVE  RowInv'
  <1>1. CASE UNCHANGED vars
    <2>1. UNCHANGED <<groups, members, groupSeq, memberSeq, tx, pc, call, seen>>
      BY <1>1 DEF vars
    <2>2. TableInv'
      BY <2>1 DEF RowInv, RowsInv, TableInv
    <2>3. ASSUME NEW r \in Requests
          PROVE  (PendingInv(r) /\ StageInv(r) /\ TargetInv(r))'
      <3>1. PendingInv(r) /\ StageInv(r) /\ TargetInv(r)
        BY DEF RowInv, RowsInv
      <3>2. PendingInv(r)'
        BY <2>1, <3>1 DEF PendingInv
      <3>3. StageInv(r)' /\ TargetInv(r)'
        BY <2>1, <3>1 DEF StageInv, TargetInv
      <3> QED
        BY <3>2, <3>3
    <2>4. ASSUME NEW q \in Requests, NEW r \in Requests, q # r
          PROVE  ApartInv(q, r)'
      BY <2>1, <2>4 DEF RowInv, RowsInv, ApartInv
    <2> QED
      BY <2>2, <2>3, <2>4 DEF RowInv, RowsInv
  <1>2. CASE Next
    <2>1. TypeOK'
      BY NextType
    <2>2. RowsInv'
      BY <1>2, <2>1, NextShape, QuietRows, BeginRows, CommitRows,
         InvitationRows, UpdateRows, DeleteRows, InsertGroupRows, EnrollRows,
         UpdateGroupRows DEF RowInv
    <2>3. \A q \in Requests : TargetInv(q)'
      BY <1>2, TargetOuter, TargetShared, TargetMember, TargetGroups
         DEF RowInv, Next, HandlerStep
    <2> QED
      BY <2>2, <2>3 DEF RowInv
  <1> QED
    BY <1>1, <1>2

(* Unique keys, sequences and pending writes fit together in every state.  *)
THEOREM RowsCorrect == Spec => []RowInv
  <1>1. Init => TypeOK /\ RowInv
    BY InitType, InitRows
  <1>2. (TypeOK /\ RowInv) /\ [Next]_vars => (TypeOK /\ RowInv)'
    BY NextType, NextRows
  <1> QED
    BY <1>1, <1>2, PTL DEF Spec

(* No user is ever in a group twice, whatever the handlers that invite,    *)
(* update and remove do at the same time.                                  *)
THEOREM OneMembership == Spec => []OneMembershipPerUser
  <1>1. RowInv => OneMembershipPerUser
    BY DEF RowInv, RowsInv, TableInv, OneMembershipPerUser
  <1> QED
    BY <1>1, RowsCorrect, PTL

(* No two groups ever have the same handle, though the search for a free   *)
(* one runs before the transaction that takes it.                          *)
THEOREM UniqueHandles == Spec => []HandlesUnique
  <1>1. RowInv => HandlesUnique
    BY DEF RowInv, RowsInv, TableInv, HandlesUnique
  <1> QED
    BY <1>1, RowsCorrect, PTL

(* A transaction that commits replaces the versions it has read: no UPDATE *)
(* or DELETE overwrites a change committed since.                          *)
THEOREM LostUpdatesExcluded == Spec => []NoLostUpdate
  <1>1. RowInv => NoLostUpdate
    BY DEF RowInv, RowsInv, PendingInv, NoLostUpdate
  <1> QED
    BY <1>1, RowsCorrect, PTL

-----------------------------------------------------------------------------
(* What a request has pending after its step: nothing, or what one of the  *)
(* statements has written.                                                 *)
Invites(r) ==
  /\ At(r, "exec", {"invite"}) /\ pc'[r] = "commit"
  /\ MembersOf(call[r].gid, call[r].who) = {} /\ memberSeq' = memberSeq + 1
  /\ tx'[r].mDel = {} /\ tx'[r].mIns = {Invitation(call[r], memberSeq + 1)}
  /\ tx'[r].gDel = {} /\ tx'[r].gIns = {}

Updates(r) ==
  /\ At(r, "exec", {"accept", "promote", "demote"}) /\ pc'[r] = "commit"
  /\ UNCHANGED memberSeq
  /\ \E m \in MemberById(call[r].mid) :
       tx'[r].mDel = {m} /\ tx'[r].mIns = {Updated(call[r].op, m)}
  /\ tx'[r].gDel = {} /\ tx'[r].gIns = {}

Deletes(r) ==
  /\ At(r, "exec", {"remove"}) /\ pc'[r] = "commit"
  /\ UNCHANGED memberSeq
  /\ tx'[r].mDel \subseteq MemberById(call[r].mid) /\ tx'[r].mIns = {}
  /\ tx'[r].gDel = {} /\ tx'[r].gIns = {}

Founds(r) ==
  /\ At(r, "exec", {"create", "subgroup"}) /\ pc'[r] = "enroll"
  /\ groupSeq' = groupSeq + 1 /\ UNCHANGED memberSeq
  /\ tx'[r].mDel = {} /\ tx'[r].mIns = {}
  /\ tx'[r].gDel = {} /\ tx'[r].gIns = {NewGroup(r, groupSeq + 1)}

Enrolls(r) ==
  /\ At(r, "enroll", {"create", "subgroup"}) /\ pc'[r] = "commit"
  /\ memberSeq' = memberSeq + 1
  /\ tx[r].gDel = {} /\ tx'[r].gDel = {} /\ tx'[r].gIns = tx[r].gIns
  /\ tx'[r].mDel = {}
  /\ \E g \in tx[r].gIns :
       /\ tx[r].gIns = {g}
       /\ tx'[r].mIns = {CreatorRow(call[r].user, g, memberSeq + 1)}

Alters(r) ==
  /\ At(r, "exec", {"update", "archive", "unarchive"}) /\ pc'[r] = "commit"
  /\ UNCHANGED memberSeq
  /\ tx'[r].mDel = {} /\ tx'[r].mIns = {}
  /\ \E g \in GroupById(call[r].gid) :
       tx'[r].gDel = {g} /\ tx'[r].gIns = {Changed(call[r], g)}

Clean(r) ==
  /\ tx'[r].mDel = {} /\ tx'[r].mIns = {} /\ tx'[r].gDel = {} /\ tx'[r].gIns = {}
  /\ memberSeq' \in {memberSeq, memberSeq + 1}

Statement(r) ==
  /\ \/ Invites(r) \/ Updates(r) \/ Deletes(r) \/ Founds(r) \/ Enrolls(r)
     \/ Alters(r)
  /\ UNCHANGED <<groups, members, call, seen, reply>>

(* Every step leaves nothing pending or has run a statement.               *)
LEMMA StatementShape ==
  ASSUME TypeOK, RowInv, TypeOK', NEW r \in Requests,
         Receive(r) \/ HandlerStep(r) \/ Fail(r)
  PROVE  Clean(r) \/ Statement(r)
  <1>1. CASE Quiet(r)
    <2>1. pc'[r] \notin InsideTx
      BY <1>1 DEF Quiet, Goto, TypeOK
    <2>2. tx'[r] = NoTx
      BY <2>1 DEF TypeOK, InTx
    <2> QED
      BY <1>1, <2>2 DEF Clean, Quiet, NoTx
  <1>2. CASE Begin(r)
    <2>1. tx[r] = NoTx
      BY <1>2, OutsideTx DEF Begin, InsideTx
    <2>2. tx'[r] = [NoTx EXCEPT !.open = TRUE]
      BY <1>2, <2>1 DEF Begin, TypeOK
    <2> QED
      BY <1>2, <2>2 DEF Clean, NoTx, Begin, TablesUnchanged
  <1>3. CASE Commit(r)
    <2>1. tx'[r] = NoTx
      BY <1>3 DEF Commit, TypeOK
    <2> QED
      BY <1>3, <2>1 DEF Clean, NoTx, Commit
  <1>4. CASE \E code : Answer(r, code)
    BY <1>4, EndTx DEF Answer, Clean
  <1>5. \A del, ins : WriteMember(r, del, ins)
          => UNCHANGED <<groups, members, call, seen, reply>>
    BY DEF WriteMember
  <1>6. \A del, ins, next : WriteGroup(r, del, ins, next)
          => UNCHANGED <<groups, members, memberSeq, call, seen, reply>>
    BY DEF WriteGroup
  <1>7. pc[r] = "exec" => /\ tx[r].mDel = {} /\ tx[r].mIns = {}
                          /\ tx[r].gDel = {} /\ tx[r].gIns = {}
    BY DEF RowInv, RowsInv, StageInv, NoTx
  <1>8. CASE InsertInvitation(r)
    <2>1. At(r, "exec", {"invite"}) /\ memberSeq' = memberSeq + 1
      BY <1>8 DEF InsertInvitation
    <2>2. CASE End(r, "409")
      BY <2>1, <2>2, EndTx DEF Clean
    <2>3. CASE /\ MembersOf(call[r].gid, call[r].who) = {}
               /\ WriteMember(r, {}, {Invitation(call[r], memberSeq + 1)})
      <3>1. Invites(r)
        BY <1>7, <2>1, <2>3, MemberWriteTx DEF Invites, At
      <3> QED
        BY <1>5, <2>3, <3>1 DEF Statement
    <2> QED
      BY <1>8, <2>2, <2>3 DEF InsertInvitation
  <1>9. CASE UpdateMembership(r)
    <2>1. At(r, "exec", {"accept", "promote", "demote"})
      BY <1>9 DEF UpdateMembership
    <2>2. ASSUME NEW m \in MemberById(call[r].mid),
                 WriteMember(r, {m}, {Updated(call[r].op, m)}), UNCHANGED memberSeq
          PROVE  Statement(r)
      <3>1. Updates(r)
        BY <1>7, <2>1, <2>2, MemberWriteTx DEF Updates, At
      <3> QED
        BY <1>5, <2>2, <3>1 DEF Statement
    <2> QED
      BY <1>4, <1>9, <2>2 DEF UpdateMembership
  <1>10. CASE DeleteMembership(r)
    <2>1. At(r, "exec", {"remove"})
      BY <1>10 DEF DeleteMembership
    <2>2. ASSUME NEW del \in SUBSET MemberById(call[r].mid),
                 WriteMember(r, del, {}), UNCHANGED memberSeq
          PROVE  Statement(r)
      <3>1. Deletes(r)
        BY <1>7, <2>1, <2>2, MemberWriteTx DEF Deletes, At
      <3> QED
        BY <1>5, <2>2, <3>1 DEF Statement
    <2>3. \/ Answer(r, "lastadmin")
          \/ \E del \in SUBSET MemberById(call[r].mid) :
               WriteMember(r, del, {}) /\ UNCHANGED memberSeq
      BY <1>10 DEF DeleteMembership
    <2> QED
      BY <1>4, <2>2, <2>3
  <1>11. CASE InsertGroup(r)
    <2>1. At(r, "exec", {"create", "subgroup"}) /\ groupSeq' = groupSeq + 1
      BY <1>11 DEF InsertGroup
    <2>2. CASE End(r, "409") /\ UNCHANGED memberSeq
      BY <2>2, EndTx DEF Clean
    <2>3. CASE WriteGroup(r, {}, {NewGroup(r, groupSeq + 1)}, "enroll")
      <3>1. UNCHANGED memberSeq
        BY <1>6, <2>3
      <3>2. Founds(r)
        BY <1>7, <2>1, <2>3, <3>1, GroupWriteTx DEF Founds, At
      <3> QED
        BY <1>6, <2>3, <3>2 DEF Statement
    <2> QED
      BY <1>11, <2>2, <2>3 DEF InsertGroup
  <1>12. CASE EnrollCreator(r)
    <2>1. At(r, "enroll", {"create", "subgroup"}) /\ memberSeq' = memberSeq + 1
      BY <1>12 DEF EnrollCreator
    <2>2. tx[r].gDel = {} /\ \E g \in tx[r].gIns : tx[r].gIns = {g}
      BY <2>1 DEF At, RowInv, RowsInv, StageInv
    <2>3. PICK g \in tx[r].gIns : tx[r].gIns = {g}
      BY <2>2
    <2>4. {CreatorRow(call[r].user, h, memberSeq + 1) : h \in tx[r].gIns}
            = {CreatorRow(call[r].user, g, memberSeq + 1)}
      BY <2>3
    <2>5. WriteMember(r, {}, {CreatorRow(call[r].user, g, memberSeq + 1)})
      BY <1>12, <2>4 DEF EnrollCreator
    <2>6. Enrolls(r)
      BY <2>1, <2>2, <2>3, <2>5, MemberWriteTx DEF Enrolls
    <2> QED
      BY <1>5, <2>5, <2>6 DEF Statement
  <1>13. CASE UpdateGroup(r)
    <2>1. At(r, "exec", {"update", "archive", "unarchive"})
      BY <1>13 DEF UpdateGroup
    <2>2. PICK g \in GroupById(call[r].gid) :
            WriteGroup(r, {g}, {Changed(call[r], g)}, "commit")
      BY <1>13 DEF UpdateGroup
    <2>3. Alters(r)
      BY <1>6, <1>7, <2>1, <2>2, GroupWriteTx DEF Alters, At
    <2> QED
      BY <1>6, <2>2, <2>3 DEF Statement
  <1> QED
    BY <1>1, <1>2, <1>3, <1>8, <1>9, <1>10, <1>11, <1>12, <1>13,
       ReadQuiet, NameQuiet, OuterQuiet
       DEF HandlerStep, MembershipStep, GroupStep
-----------------------------------------------------------------------------
(* What stays true whatever step is taken.                                 *)

StepOf(r) == Receive(r) \/ HandlerStep(r) \/ Fail(r)

(* A membership is there, or its identifier has been used and names none.  *)
Present(id, gid) == \E m \in members : m.id = id /\ m.group = gid

Gone(id) ==
  /\ id <= memberSeq
  /\ \A m \in members : m.id # id
  /\ \A q \in Requests : \A m \in tx[q].mIns : m.id # id

(* An UPDATE keeps the keys of the row it replaces.                        *)
SameKeys(r) ==
  /\ \A m \in tx[r].mDel, n \in tx[r].mIns :
       n.id = m.id /\ n.group = m.group /\ n.user = m.user
  /\ \A g \in tx[r].gDel, h \in tx[r].gIns :
       h.id = g.id /\ h.handle = g.handle

(* An UPDATE is the only statement that both removes and inserts.          *)
LEMMA SameKeysStep ==
  ASSUME TypeOK, RowInv, TypeOK', NEW r \in Requests, StepOf(r),
         \A q \in Requests : SameKeys(q)
  PROVE  \A q \in Requests : SameKeys(q)'
  <1> SUFFICES ASSUME NEW q \in Requests PROVE SameKeys(q)'
    OBVIOUS
  <1>1. CASE q # r
    <2>1. tx'[q] = tx[q] /\ SameKeys(q)
      BY <1>1, OthersStay DEF StepOf
    <2> QED
      BY <2>1 DEF SameKeys
  <1>2. CASE q = r
    <2>1. CASE /\ tx'[r].mDel = {} \/ tx'[r].mIns = {}
               /\ tx'[r].gDel = {} \/ tx'[r].gIns = {}
      BY <1>2, <2>1 DEF SameKeys
    <2>2. CASE Updates(r)
      <3>1. PICK m \in MemberById(call[r].mid) :
              tx'[r].mDel = {m} /\ tx'[r].mIns = {Updated(call[r].op, m)}
        BY <2>2 DEF Updates
      <3>2. m \in MembershipRow /\ call[r].op \in {"accept", "promote", "demote"}
        BY <2>2, Unmoved DEF MemberById, Updates, At
      <3>3. tx'[r].gDel = {}
        BY <2>2 DEF Updates
      <3> QED
        BY <1>2, <3>1, <3>2, <3>3, UpdatedType DEF SameKeys
    <2>3. CASE Alters(r)
      <3>1. PICK g \in GroupById(call[r].gid) :
              tx'[r].gDel = {g} /\ tx'[r].gIns = {Changed(call[r], g)}
        BY <2>3 DEF Alters
      <3>2. /\ g \in GroupRow /\ call[r] \in CallRecord
            /\ call[r].op \in {"update", "archive", "unarchive"}
        BY <2>3, Unmoved, CallTyping DEF Alters, At, NoCall, GroupById
      <3>3. tx'[r].mDel = {}
        BY <2>3 DEF Alters
      <3> QED
        BY <1>2, <3>1, <3>2, <3>3, ChangedType DEF SameKeys
    <2> QED
      BY <2>1, <2>2, <2>3, StatementShape
         DEF StepOf, Clean, Statement, Invites, Deletes, Founds, Enrolls
  <1> QED
    BY <1>1, <1>2

(* The rows a step adds to what is pending are new versions of committed   *)
(* ones or carry the next identifier.                                      *)
LEMMA PendingIds ==
  ASSUME TypeOK, RowInv, TypeOK', NEW r \in Requests, StepOf(r),
         NEW q \in Requests, NEW n \in tx'[q].mIns
  PROVE  \/ n \in tx[q].mIns
         \/ \E m \in members : n.id = m.id
         \/ n.id = memberSeq + 1 /\ memberSeq' = memberSeq + 1
  <1>1. CASE q # r
    BY <1>1, OthersStay DEF StepOf
  <1>2. CASE q = r
    <2>1. tx'[r].mIns # {}
      BY <1>2
    <2>2. CASE Updates(r)
      <3>1. PICK m \in MemberById(call[r].mid) : tx'[r].mIns = {Updated(call[r].op, m)}
        BY <2>2 DEF Updates
      <3>2. m \in MembershipRow /\ call[r].op \in {"accept", "promote", "demote"}
        BY <2>2, Unmoved DEF MemberById, Updates, At
      <3> QED
        BY <1>2, <3>1, <3>2, UpdatedType DEF MemberById
    <2>3. CASE Invites(r) \/ Enrolls(r)
      BY <1>2, <2>3 DEF Invites, Enrolls, Invitation, CreatorRow
    <2> QED
      BY <2>1, <2>2, <2>3, StatementShape
         DEF StepOf, Clean, Statement, Deletes, Founds, Alters
  <1> QED
    BY <1>1, <1>2

(* The sequence of memberships only advances.                              *)
LEMMA SequenceAdvances ==
  ASSUME TypeOK, RowInv, TypeOK', NEW r \in Requests, StepOf(r)
  PROVE  memberSeq' \in {memberSeq, memberSeq + 1}
  BY StatementShape DEF StepOf, Clean, Statement, Invites, Updates, Deletes,
                        Founds, Enrolls, Alters

(* A row that is gone does not come back.                                  *)
LEMMA GoneStays ==
  ASSUME TypeOK, RowInv, TypeOK', NEW r \in Requests, StepOf(r),
         NEW id \in Nat, Gone(id)
  PROVE  Gone(id)'
  <1>1. memberSeq' \in {memberSeq, memberSeq + 1} /\ memberSeq \in Nat
    BY SequenceAdvances, Unmoved
  <1>2. id <= memberSeq /\ id # memberSeq + 1 /\ id <= memberSeq'
    BY <1>1 DEF Gone
  <1>3. ASSUME NEW m \in members' PROVE m.id # id
    <2>1. m \in members \/ m \in tx[r].mIns
      BY TablesStay DEF StepOf, Commit
    <2> QED
      BY <2>1 DEF Gone
  <1>4. ASSUME NEW q \in Requests, NEW n \in tx'[q].mIns PROVE n.id # id
    BY <1>2, PendingIds DEF Gone
  <1> QED
    BY <1>2, <1>3, <1>4 DEF Gone

(* A membership stays its user's in its group until it is gone.            *)
LEMMA RowStays ==
  ASSUME TypeOK, RowInv, TypeOK', NEW r \in Requests, StepOf(r), SameKeys(r),
         NEW m \in members
  PROVE  \/ \E n \in members' : n.id = m.id /\ n.group = m.group /\ n.user = m.user
         \/ Gone(m.id)'
  <1>1. CASE UNCHANGED members
    BY <1>1
  <1>2. CASE Commit(r)
    <2>1. CASE m \notin tx[r].mDel
      BY <1>2, <2>1 DEF Commit
    <2>2. CASE m \in tx[r].mDel /\ tx[r].mIns # {}
      BY <1>2, <2>2 DEF Commit, SameKeys
    <2>3. CASE m \in tx[r].mDel /\ tx[r].mIns = {}
      <3>1. m.id <= memberSeq /\ memberSeq' = memberSeq
        BY <1>2 DEF RowInv, RowsInv, TableInv, Commit
      <3>2. ASSUME NEW n \in members' PROVE n.id # m.id
        BY <1>2, <2>3 DEF Commit, RowInv, RowsInv, TableInv, UniqueMemberships, Clash
      <3>3. ASSUME NEW q \in Requests, NEW n \in tx'[q].mIns PROVE n.id # m.id
        <4>1. q # r /\ n \in tx[q].mIns
          BY <1>2, OthersStay DEF StepOf, Commit, TypeOK, NoTx
        <4>2. m \notin tx[q].mDel
          BY <2>3, <4>1 DEF RowInv, RowsInv, ApartInv
        <4> QED
          BY <4>1, <4>2, PendingMeetsReplaced DEF RowInv, Clash
      <3> QED
        BY <3>1, <3>2, <3>3 DEF Gone
    <2> QED
      BY <2>1, <2>2, <2>3
  <1> QED
    BY <1>1, <1>2, TablesStay DEF StepOf

(* So an identifier that names a membership of a group goes on to do so.   *)
LEMMA PresentOrGone ==
  ASSUME TypeOK, RowInv, TypeOK', NEW r \in Requests, StepOf(r), SameKeys(r),
         NEW id, NEW gid, Present(id, gid)
  PROVE  Present(id, gid)' \/ Gone(id)'
  <1>1. PICK m \in members : m.id = id /\ m.group = gid
    BY DEF Present
  <1>2. Gone(m.id)' => Gone(id)'
    BY <1>1 DEF Gone
  <1> QED
    BY <1>1, <1>2, RowStays DEF Present

(* Groups stay, under their handles.                                       *)
LEMMA GroupStays ==
  ASSUME TypeOK, RowInv, NEW r \in Requests, StepOf(r), SameKeys(r),
         NEW g \in groups
  PROVE  \E h \in groups' : h.id = g.id /\ h.handle = g.handle
  <1>1. CASE Commit(r)
    <2>1. CASE g \in tx[r].gDel
      BY <1>1, <2>1 DEF Commit, RowInv, RowsInv, PendingInv, SameKeys
    <2>2. CASE g \notin tx[r].gDel
      BY <1>1, <2>2 DEF Commit
    <2> QED
      BY <2>1, <2>2
  <1> QED
    BY <1>1, TablesStay DEF StepOf
=============================================================================
