---------------------------- MODULE AuditProofs ----------------------------
(***************************************************************************)
(* Two results about who did what.  Every write rests on rights its caller *)
(* really had: the handlers decide on rows of up to three snapshots; the   *)
(* argument shows, step by step, that what they have read was true while   *)
(* the call was being served, and that what has been true then is what the *)
(* write needs.  And the audit trail tells the truth: what the triggers    *)
(* record is what the transactions did, in the order in which they did it, *)
(* under the name of the user who asked for it.                            *)
(***************************************************************************)
EXTENDS AuditTrail, LlmioProofs

-----------------------------------------------------------------------------
(* The rights: the inductive invariant.  The difficult calls name a        *)
(* membership: after the handler has looked its row up, the row may be     *)
(* removed, and then nothing says that the caller's rights in its group    *)
(* still count.  But an identifier is never used again, so the statement   *)
(* then finds no row and writes nothing.                                   *)
RowOps   == {"promote", "demote", "remove"}
NamedOps == {"invite", "subgroup", "update", "archive", "unarchive"}

Void(c) == c.op \in RowOps /\ Gone(c.mid)

(* What ReadGroup has read was so while the call was being served. *)
ReadTruly(v, h) ==
  /\ ~v.archived => "open" \in h
  /\ "members_can_add_members" \in v.flags => "invites" \in h
  /\ "members_can_create_subgroups" \in v.flags => "subgroups" \in h

(* What is known of a request that serves c, is at step s, has read v and  *)
(* has w pending, when h and o are what its history has kept.              *)
Known(c, s, v, h, o, w) ==
  /\ c.op \notin RowOps => v.gid = 0
  /\ (c.op \in RowOps /\ s \in {"group", "member"})
       => Present(c.mid, v.gid) \/ Gone(c.mid)
  /\ (c.op \in NamedOps /\ s = "member") => \E g \in groups : g.id = c.gid
  /\ (s = "member" /\ ~Void(c)) => ReadTruly(v, h)
  /\ s \in {"count", "name", "probe", "begin", "exec", "enroll"}
       => Suffices(c, h) \/ Void(c)
  /\ (s = "commit" /\ w.mDel \cup w.mIns \cup w.gDel \cup w.gIns # {})
       => Suffices(c, h)
  /\ (Inherits(c) /\ s = "member" /\ ~v.archived) => v.flags \in o
  /\ (Inherits(c) /\ s \in {"name", "probe", "begin", "exec"}) => v.flags \in o
  /\ Inherits(c) => \A g \in w.gIns : g.flags \in o

KnownInv(r) == Known(call[r], pc[r], seen[r], held[r], offered[r], tx[r])

(* The history is up to date with the tables. *)
Fresh(r) ==
  pc[r] # "idle" =>
    /\ RightsOf(call[r], groups, members) \subseteq held[r]
    /\ Offer(call[r], groups) \subseteq offered[r]

AuthorityInv ==
  \A r \in Requests : KnownInv(r) /\ SameKeys(r) /\ Fresh(r)

-----------------------------------------------------------------------------
(* Facts about rights.                                                     *)

(* More rights suffice for all that fewer do.                              *)
LEMMA MoreSuffices ==
  ASSUME NEW c, c.op \in Ops, NEW h, NEW k, h \subseteq k, Suffices(c, h)
  PROVE  Suffices(c, k)
  <1>1. CASE c.op \in {"promote", "demote", "remove", "update"}
    BY <1>1 DEF Suffices
  <1>2. CASE c.op \in {"archive", "unarchive"}
    BY <1>2 DEF Suffices
  <1>3. CASE c.op = "invite"
    BY <1>3 DEF Suffices
  <1>4. CASE c.op = "subgroup"
    BY <1>4 DEF Suffices
  <1>5. CASE c.op = "accept"
    BY <1>5 DEF Suffices
  <1>6. CASE c.op = "create"
    BY <1>6 DEF Suffices
  <1> QED
    BY <1>1, <1>2, <1>3, <1>4, <1>5, <1>6 DEF Ops, MemberOps, GroupOps

(* A group that a call is about gives the rights read from its row.        *)
LEMMA GroupRights ==
  ASSUME NEW c, NEW g \in TargetOf(c, groups, members)
  PROVE  /\ ~g.archived => "open" \in RightsOf(c, groups, members)
         /\ "members_can_add_members" \in g.flags
              => "invites" \in RightsOf(c, groups, members)
         /\ "members_can_create_subgroups" \in g.flags
              => "subgroups" \in RightsOf(c, groups, members)
  BY DEF RightsOf, Rights

(* The caller's own membership there gives the others.                     *)
LEMMA MemberRights ==
  ASSUME NEW c, NEW g \in TargetOf(c, groups, members),
         NEW m \in members, m.user = c.user, m.group = g.id
  PROVE  /\ ActiveAdmin(m) => "admin" \in RightsOf(c, groups, members)
         /\ m.accepted => "member" \in RightsOf(c, groups, members)
         /\ (m.id = c.mid /\ ~m.accepted)
              => "invitation" \in RightsOf(c, groups, members)
  BY DEF RightsOf, Rights

(* One request moves to what is known of it; the others, and what was      *)
(* known, stay: rights once held are kept, rows that are gone stay gone.   *)
LEMMA KnownStep ==
  ASSUME TypeOK, RowInv, TypeOK', AuthorityInv, Remember,
         NEW r \in Requests, StepOf(r),
         Known(call'[r], pc'[r], seen'[r], held[r], offered[r], tx'[r])
  PROVE  \A q \in Requests : KnownInv(q)'
  <1> SUFFICES ASSUME NEW q \in Requests PROVE KnownInv(q)'
    OBVIOUS
  <1> DEFINE c == call'[q]
             s == pc'[q]
             v == seen'[q]
             h == held[q]
             o == offered[q]
             w == tx'[q]
  <1>1. Known(c, s, v, h, o, w)
    <2>1. CASE q = r
      BY <2>1
    <2>2. CASE q # r
      <3>1. KnownInv(q)
        BY DEF AuthorityInv
      <3>2. c = call[q] /\ s = pc[q] /\ v = seen[q] /\ w = tx[q]
        BY <2>2, OthersStay DEF StepOf
      <3> QED
        BY <3>1, <3>2 DEF KnownInv
    <2> QED
      BY <2>1, <2>2
  <1>2. /\ s = "idle" <=> c = NoCall
        /\ c # NoCall => c.op \in Ops
        /\ c.mid \in Nat /\ NoCall.op = "none"
    <2>1. c \in Calls \cup {NoCall} /\ (s = "idle" <=> c = NoCall)
      BY DEF TypeOK
    <2>2. NoCall.mid = 0 /\ NoCall.op = "none"
      BY DEF NoCall
    <2> HIDE DEF c
    <2> QED
      BY <2>1, <2>2, CallTyping DEF CallRecord
  <1>3. s # "idle" => h \subseteq held'[q] /\ o \subseteq offered'[q]
    BY DEF Remember
  <1>4. \A id \in Nat : Gone(id) => Gone(id)'
    BY GoneStays
  <1>5. \A id \in Nat : \A gid : Present(id, gid) => Present(id, gid)' \/ Gone(id)'
    BY PresentOrGone DEF AuthorityInv
  <1>6. \A g \in groups : \E k \in groups' : k.id = g.id
    BY GroupStays DEF AuthorityInv
  <1>7. \A id \in Nat : \A gid :
          (/\ c.op \in RowOps /\ s \in {"group", "member"}
           /\ id = c.mid /\ gid = v.gid)
            => Present(id, gid)' \/ Gone(id)'
    BY <1>1, <1>4, <1>5 DEF Known
  <1>8. (c.op \in NamedOps /\ s = "member") => \E g \in groups' : g.id = c.gid
    BY <1>1, <1>6 DEF Known
  <1> DEFINE NowVoid == c.op \in RowOps /\ \E id \in Nat : id = c.mid /\ Gone(id)'
  <1>9. Void(c) => NowVoid
    BY <1>2, <1>4 DEF Void
  <1>10. CASE s = "idle"
    BY <1>1, <1>2, <1>10 DEF KnownInv, Known, RowOps, NamedOps, Inherits
  <1>11. CASE s # "idle"
    <2>1. c.op \in Ops /\ h \subseteq held'[q] /\ o \subseteq offered'[q]
      BY <1>2, <1>3, <1>11
    <2>2. (s = "member" /\ ~NowVoid) => ReadTruly(v, held'[q])
      BY <1>1, <1>9, <2>1 DEF Known, ReadTruly
    <2>3. Suffices(c, h) => Suffices(c, held'[q])
      BY <2>1, MoreSuffices
    <2>4. /\ s \in {"count", "name", "probe", "begin", "exec", "enroll"}
               => Suffices(c, held'[q]) \/ NowVoid
          /\ (s = "commit" /\ w.mDel \cup w.mIns \cup w.gDel \cup w.gIns # {})
               => Suffices(c, held'[q])
      BY <1>1, <1>9, <2>3 DEF Known
    <2>5. /\ (Inherits(c) /\ s = "member" /\ ~v.archived) => v.flags \in offered'[q]
          /\ (Inherits(c) /\ s \in {"name", "probe", "begin", "exec"})
               => v.flags \in offered'[q]
          /\ Inherits(c) => \A g \in w.gIns : g.flags \in offered'[q]
      BY <1>1, <2>1 DEF Known
    <2>6. c.op \notin RowOps => v.gid = 0
      BY <1>1 DEF Known
    <2>7. (c.op \in RowOps /\ s \in {"group", "member"})
             => \/ \E m \in members' : m.id = c.mid /\ m.group = v.gid
                \/ NowVoid
      BY <1>2, <1>7 DEF Present
    <2>8. NowVoid => Void(call[q])'
      BY DEF Void, Gone
    <2>9. NowVoid => Gone(call[q].mid)'
      BY DEF Gone
    <2> HIDE DEF NowVoid
    <2> QED
      BY <1>8, <2>2, <2>4, <2>5, <2>6, <2>7, <2>8, <2>9
         DEF KnownInv, Known, Present
  <1> QED
    BY <1>10, <1>11

-----------------------------------------------------------------------------
(* What is known of a request after a step of its own.                     *)
Served(r) == Known(call'[r], pc'[r], seen'[r], held[r], offered[r], tx'[r])

(* Of a call that has been answered nothing need be known.                 *)
LEMMA KnownEnd ==
  ASSUME TypeOK, NEW r \in Requests, NEW code, End(r, code)
  PROVE  Served(r)
  BY EndTx DEF Served, Known, Unread

(* The group a call is about, once its membership is known to be there.    *)
LEMMA TargetFound ==
  ASSUME TypeOK, RowInv, NEW r \in Requests, call[r].op \in RowOps,
         Present(call[r].mid, seen[r].gid)
  PROVE  /\ TargetGroup(r) = seen[r].gid
         /\ \E g \in groups : g.id = seen[r].gid
         /\ \A g \in groups : g.id = seen[r].gid
              => g \in TargetOf(call[r], groups, members)
  <1>1. PICK m \in members : m.id = call[r].mid /\ m.group = seen[r].gid
    BY DEF Present
  <1>2. \E g \in groups : g.id = seen[r].gid
    BY <1>1 DEF RowInv, RowsInv, TableInv
  <1>3. \A g \in groups : g.id # 0
    BY DEF TypeOK, GroupRow, Ids
  <1> QED
    BY <1>1, <1>2, <1>3 DEF TargetGroup, TargetOf

(* What ReadGroup reads is true: the group of the row, or the one named.   *)
LEMMA KnownReadGroup ==
  ASSUME TypeOK, RowInv, AuthorityInv, NEW r \in Requests, ReadGroup(r)
  PROVE  Served(r)
  <1>1. CASE Answer(r, "404")
    BY <1>1, KnownEnd DEF Answer
  <1>2. CASE ~Answer(r, "404")
    <2> DEFINE c == call[r]
    <2>1. PICK g \in GroupById(TargetGroup(r)) :
            /\ seen' = [seen EXCEPT ![r].archived = g.archived,
                                    ![r].flags = g.flags]
            /\ Goto(r, "member") /\ UNCHANGED <<tx, call>>
      BY <1>2 DEF ReadGroup
    <2>2. /\ seen'[r].gid = seen[r].gid /\ seen'[r].archived = g.archived
          /\ seen'[r].flags = g.flags /\ pc'[r] = "member"
      BY <2>1 DEF TypeOK, SeenType, Goto
    <2>3. /\ pc[r] = "group" /\ g \in groups /\ g.id = TargetGroup(r)
          /\ call'[r] = c /\ tx'[r] = tx[r]
      BY <2>1 DEF ReadGroup, GroupById
    <2>4. tx[r].gIns = {}
      BY <2>3, OutsideTx DEF InsideTx
    <2>5. /\ RightsOf(c, groups, members) \subseteq held[r]
          /\ Offer(c, groups) \subseteq offered[r] /\ KnownInv(r)
      BY <2>3 DEF AuthorityInv, Fresh
    <2>6. CASE c.op \notin RowOps
      <3>1. seen[r].gid = 0 /\ g.id = c.gid
        BY <2>3, <2>5, <2>6 DEF KnownInv, Known, TargetGroup
      <3>2. ReadTruly(seen'[r], held[r])
        BY <2>2, <2>3, <2>5, <3>1, GroupRights DEF ReadTruly, TargetOf
      <3>3. Inherits(c) /\ ~g.archived => g.flags \in offered[r]
        BY <2>3, <2>5, <3>1 DEF Offer
      <3> QED
        BY <2>2, <2>3, <2>4, <2>6, <3>1, <3>2, <3>3 DEF Served, Known
    <2>7. CASE c.op \in RowOps
      <3>1. Present(c.mid, seen[r].gid) \/ Gone(c.mid)
        BY <2>3, <2>5, <2>7 DEF KnownInv, Known
      <3>2. ~Inherits(c) /\ c.op \notin NamedOps
        BY <2>7 DEF Inherits, RowOps, NamedOps
      <3>3. ~Void(c) => ReadTruly(seen'[r], held[r])
        BY <2>2, <2>3, <2>5, <2>7, <3>1, TargetFound, GroupRights
           DEF ReadTruly, Void
      <3> QED
        BY <2>2, <2>3, <2>7, <3>1, <3>2, <3>3 DEF Served, Known
    <2> QED
      BY <2>6, <2>7
  <1> QED
    BY <1>1, <1>2

(* The other steps that all handlers share.                                *)
LEMMA KnownShared ==
  ASSUME TypeOK, RowInv, AuthorityInv, NEW r \in Requests,
         Receive(r) \/ Finish(r) \/ Fail(r) \/ Begin(r) \/ Commit(r)
  PROVE  Served(r)
  <1>1. CASE Receive(r)
    <2>1. PICK c \in Calls : /\ call' = [call EXCEPT ![r] = c]
                             /\ Goto(r, FirstStep(c.op))
      BY <1>1 DEF Receive
    <2>2. \/ c.op \in RowOps \cup {"accept"} /\ FirstStep(c.op) = "row"
          \/ c.op \in NamedOps /\ FirstStep(c.op) = "group"
          \/ c.op = "create" /\ FirstStep(c.op) = "name"
      <3>1. c.op \in Ops
        BY CallTyping
      <3> QED
        BY <3>1 DEF FirstStep, Ops, MemberOps, GroupOps, RowOps, NamedOps
    <2>3. /\ call'[r] = c /\ pc'[r] = FirstStep(c.op)
          /\ pc[r] = "idle" /\ seen'[r] = seen[r] /\ tx'[r] = tx[r]
      BY <1>1, <2>1 DEF Receive, Goto, TypeOK
    <2>4. seen[r].gid = 0 /\ tx[r].gIns = {}
      BY <2>3, OutsideTx DEF RowInv, TargetInv, InsideTx
    <2> QED
      BY <2>2, <2>3, <2>4
         DEF Served, Known, RowOps, NamedOps, Inherits, Suffices
  <1>2. CASE Finish(r)
    <2>1. /\ pc[r] = "done" /\ pc'[r] = "idle" /\ call'[r] = NoCall
          /\ seen'[r] = seen[r]
      BY <1>2 DEF Finish, Goto, TypeOK
    <2>2. seen[r].gid = 0 /\ NoCall.op = "none"
      BY <2>1 DEF RowInv, TargetInv, NoCall
    <2> QED
      BY <2>1, <2>2 DEF Served, Known, Inherits
  <1>3. CASE Fail(r)
    BY <1>3, KnownEnd DEF Fail, Answer
  <1>4. CASE Begin(r)
    <2>1. /\ pc[r] = "begin" /\ pc'[r] = "exec" /\ call'[r] = call[r]
          /\ seen'[r] = seen[r] /\ tx'[r].gIns = tx[r].gIns
      BY <1>4 DEF Begin, Goto, TypeOK, TxType
    <2>2. tx[r].gIns = {} /\ KnownInv(r)
      BY <2>1, OutsideTx DEF InsideTx, AuthorityInv
    <2> QED
      BY <2>1, <2>2 DEF Served, KnownInv, Known
  <1>5. CASE Commit(r)
    <2>1. /\ pc'[r] \in {"countMembers", "done"} /\ seen'[r] = Unread
          /\ tx'[r] = NoTx
      BY <1>5 DEF Commit, Goto, TypeOK
    <2> QED
      BY <2>1 DEF Served, Known, Unread, NoTx
  <1> QED
    BY <1>1, <1>2, <1>3, <1>4, <1>5

(* The authorization context says what has been so during the call.        *)
LEMMA ContextHeld ==
  ASSUME TypeOK, RowInv, AuthorityInv, NEW r \in Requests,
         pc[r] = "member", call[r].op \in RowOps \cup NamedOps, ~Void(call[r])
  PROVE  /\ ContextOf(r).admin => "admin" \in held[r]
         /\ ContextOf(r).member => "member" \in held[r]
         /\ ~ContextOf(r).archived => "open" \in held[r]
         /\ "members_can_add_members" \in ContextOf(r).flags
              => "invites" \in held[r]
         /\ "members_can_create_subgroups" \in ContextOf(r).flags
              => "subgroups" \in held[r]
         /\ ContextOf(r).archived = seen[r].archived
  <1> DEFINE c == call[r]
  <1>1. /\ RightsOf(c, groups, members) \subseteq held[r] /\ KnownInv(r)
    BY DEF AuthorityInv, Fresh
  <1>2. ReadTruly(seen[r], held[r])
    BY <1>1 DEF KnownInv, Known
  <1>3. PICK g \in TargetOf(c, groups, members) : g.id = TargetGroup(r)
    <2>1. CASE c.op \in RowOps
      <3>1. Present(c.mid, seen[r].gid)
        BY <1>1, <2>1 DEF KnownInv, Known, Void
      <3> QED
        BY <2>1, <3>1, TargetFound
    <2>2. CASE c.op \in NamedOps /\ c.op \notin RowOps
      <3>1. seen[r].gid = 0 /\ \E g \in groups : g.id = c.gid
        BY <1>1, <2>2 DEF KnownInv, Known
      <3> QED
        BY <3>1 DEF TargetGroup, TargetOf
    <2> QED
      BY <2>1, <2>2
  <1>4. ASSUME NEW m \in MembersOf(TargetGroup(r), c.user)
        PROVE  /\ ActiveAdmin(m) => "admin" \in held[r]
               /\ m.accepted => "member" \in held[r]
    <2>1. m \in members /\ m.user = c.user /\ m.group = g.id
      BY <1>3 DEF MembersOf
    <2> QED
      BY <1>1, <1>3, <2>1, MemberRights
  <1> QED
    BY <1>2, <1>4 DEF ContextOf, AuthContext, ReadTruly

(* The decisions of the membership handlers.                               *)
LEMMA KnownDecision ==
  ASSUME TypeOK, RowInv, AuthorityInv, NEW r \in Requests, NEW s,
         pc[r] \in Steps \ InsideTx, Proceed(r, s),
         s \in {"count", "name", "probe", "begin"},
         Suffices(call[r], held[r]) \/ Void(call[r]),
         Inherits(call[r]) => seen[r].flags \in offered[r]
  PROVE  Served(r)
  <1>1. /\ pc'[r] = s /\ call'[r] = call[r] /\ seen'[r] = seen[r]
        /\ tx'[r] = tx[r]
    BY DEF Proceed, Goto, TypeOK
  <1>2. tx[r].gIns = {} /\ KnownInv(r)
    BY OutsideTx DEF AuthorityInv
  <1> QED
    BY <1>1, <1>2 DEF Served, KnownInv, Known

(* The checks of the handlers let through only those whose rights suffice. *)
LEMMA ChecksSuffice ==
  ASSUME NEW c, NEW ac, NEW role, NEW h,
         ac.admin => "admin" \in h, ac.member => "member" \in h,
         ~ac.archived => "open" \in h,
         "members_can_add_members" \in ac.flags => "invites" \in h,
         "members_can_create_subgroups" \in ac.flags => "subgroups" \in h,
         c.op \in Ops => c.role \in Roles
  PROVE  /\ (c.op = "invite" /\ InviteCheck(c, ac) \in Steps) => Suffices(c, h)
         /\ (c.op = "promote" /\ PromoteCheck(role, ac) \in Steps) => Suffices(c, h)
         /\ (c.op = "demote" /\ DemoteCheck(role, ac) \in Steps) => Suffices(c, h)
         /\ (c.op = "remove" /\ RemoveCheck(role, ac) \in Steps) => Suffices(c, h)
         /\ (c.op = "update" /\ UpdateCheck(c, ac) \in Steps) => Suffices(c, h)
         /\ (c.op \in {"archive", "unarchive"} /\ ArchiveCheck(ac) \in Steps)
              => Suffices(c, h)
         /\ (c.op = "subgroup" /\ SubgroupCheck(ac) \in Steps)
              => Suffices(c, h) /\ ~ac.archived
  <1>1. "403" \notin Steps /\ "409" \notin Steps /\ "404" \notin Steps
    BY DEF Steps
  <1>2. c.op = "invite" /\ InviteCheck(c, ac) \in Steps => Suffices(c, h)
    BY <1>1 DEF InviteCheck, CanInviteMembers, Suffices, Ops, MemberOps, Roles
  <1>3. c.op = "promote" /\ PromoteCheck(role, ac) \in Steps => Suffices(c, h)
    BY <1>1 DEF PromoteCheck, CanManageMembers, Suffices
  <1>4. c.op = "demote" /\ DemoteCheck(role, ac) \in Steps => Suffices(c, h)
    BY <1>1 DEF DemoteCheck, CanManageMembers, Suffices
  <1>5. c.op = "remove" /\ RemoveCheck(role, ac) \in Steps => Suffices(c, h)
    BY <1>1 DEF RemoveCheck, CanManageMembers, Suffices
  <1>6. c.op = "update" /\ UpdateCheck(c, ac) \in Steps => Suffices(c, h)
    BY <1>1 DEF UpdateCheck, CanUpdateGroup, Suffices
  <1>7. c.op \in {"archive", "unarchive"} /\ ArchiveCheck(ac) \in Steps
          => Suffices(c, h)
    BY <1>1 DEF ArchiveCheck, CanArchiveGroup, Suffices
  <1>8. c.op = "subgroup" /\ SubgroupCheck(ac) \in Steps
          => Suffices(c, h) /\ ~ac.archived
    BY <1>1 DEF SubgroupCheck, CanCreateSubgroups, Suffices
  <1> QED
    BY <1>2, <1>3, <1>4, <1>5, <1>6, <1>7, <1>8

(* The steps Authorize of all handlers.                                    *)
LEMMA KnownAuthorize ==
  ASSUME TypeOK, RowInv, AuthorityInv, NEW r \in Requests,
         \/ AuthorizeInvite(r) \/ AuthorizePromote(r) \/ AuthorizeDemote(r)
         \/ AuthorizeRemove(r) \/ AuthorizeSubgroup(r) \/ AuthorizeUpdate(r)
         \/ AuthorizeArchive(r)
  PROVE  Served(r)
  <1> DEFINE c  == call[r]
             ac == ContextOf(r)
  <1>1. pc[r] = "member" /\ c.op \in RowOps \cup NamedOps
    BY DEF AuthorizeInvite, AuthorizePromote, AuthorizeDemote, AuthorizeRemove,
           AuthorizeSubgroup, AuthorizeUpdate, AuthorizeArchive, At, RowOps,
           NamedOps
  <1>2. c.op \in Ops => c.role \in Roles
    <2>1. c \in Calls \cup {NoCall}
      BY DEF TypeOK
    <2> HIDE DEF c
    <2> QED
      BY <2>1, CallTyping DEF CallRecord, NoCall, Roles
  <1>3. PICK verdict :
          /\ Decide(r, verdict)
          /\ \/ c.op = "invite" /\ verdict = InviteCheck(c, ac)
             \/ c.op = "promote" /\ verdict = PromoteCheck(seen[r].role, ac)
             \/ c.op = "demote" /\ verdict = DemoteCheck(seen[r].role, ac)
             \/ c.op = "remove" /\ verdict = RemoveCheck(seen[r].role, ac)
             \/ c.op = "update" /\ verdict = UpdateCheck(c, ac)
             \/ c.op \in {"archive", "unarchive"} /\ verdict = ArchiveCheck(ac)
             \/ c.op = "subgroup" /\ verdict = SubgroupCheck(ac)
    BY DEF AuthorizeInvite, AuthorizePromote, AuthorizeDemote, AuthorizeRemove,
           AuthorizeSubgroup, AuthorizeUpdate, AuthorizeArchive, At
  <1>4. CASE verdict \in Codes /\ Answer(r, verdict)
    BY <1>4, KnownEnd DEF Answer
  <1>5. CASE verdict \in Steps /\ Proceed(r, verdict)
    <2>1. verdict \in {"count", "name", "begin"}
      BY <1>3, <1>5 DEF InviteCheck, PromoteCheck, DemoteCheck, RemoveCheck,
                        UpdateCheck, ArchiveCheck, SubgroupCheck, Steps
    <2>2. Suffices(c, held[r]) \/ Void(c)
      <3> SUFFICES ASSUME ~Void(c) PROVE Suffices(c, held[r])
        OBVIOUS
      <3> HIDE DEF c, ac
      <3> QED
        BY <1>1, <1>2, <1>3, <1>5, ContextHeld, ChecksSuffice DEF c, ac
    <2>3. Inherits(c) => seen[r].flags \in offered[r]
      <3> SUFFICES ASSUME Inherits(c) PROVE seen[r].flags \in offered[r]
        OBVIOUS
      <3>1. c.op = "subgroup" /\ ~Void(c)
        BY DEF Inherits, Void, RowOps
      <3>2. ~ac.archived
        BY <1>3, <1>5, <3>1 DEF SubgroupCheck, Steps
      <3>3. ~seen[r].archived
        BY <1>1, <3>1, <3>2, ContextHeld
      <3> QED
        BY <1>1, <3>3 DEF AuthorityInv, KnownInv, Known
    <2>4. pc[r] \in Steps \ InsideTx
      BY <1>1 DEF Steps, InsideTx
    <2> QED
      BY <1>5, <2>1, <2>2, <2>3, <2>4, KnownDecision
  <1> QED
    BY <1>3, <1>4, <1>5 DEF Decide

(* The lookup of an invitation: it is the caller's and still open.         *)
LEMMA KnownLoadInvitation ==
  ASSUME TypeOK, RowInv, AuthorityInv, NEW r \in Requests, LoadInvitation(r)
  PROVE  Served(r)
  <1> DEFINE c == call[r]
  <1>1. /\ pc[r] = "row" /\ c.op = "accept" /\ Codes \cap Steps = {}
        /\ pc[r] \in Steps \ InsideTx
    BY DEF LoadInvitation, At, Codes, Steps, InsideTx
  <1>2. CASE \E code : Answer(r, code)
    BY <1>2, KnownEnd DEF Answer
  <1>3. ASSUME NEW m \in MemberById(c.mid), AcceptCheck(c, m) \in Steps,
               Proceed(r, AcceptCheck(c, m))
        PROVE  Served(r)
    <2>1. /\ m \in members /\ m.id = c.mid /\ m.user = c.user /\ ~m.accepted
          /\ AcceptCheck(c, m) = "begin"
      BY <1>3 DEF AcceptCheck, MemberById, Steps
    <2>2. PICK g \in groups : g.id = m.group
      BY <2>1 DEF RowInv, RowsInv, TableInv
    <2>3. g \in TargetOf(c, groups, members)
      BY <2>1, <2>2 DEF TargetOf
    <2>4. "invitation" \in RightsOf(c, groups, members)
      BY <2>1, <2>2, <2>3, MemberRights
    <2>5. Suffices(c, held[r])
      BY <1>1, <2>4 DEF Suffices, AuthorityInv, Fresh
    <2> QED
      BY <1>1, <1>3, <2>1, <2>5, KnownDecision DEF Inherits
  <1> QED
    BY <1>2, <1>3 DEF LoadInvitation, Decide

(* The lookup of a membership: its group stays its group.                  *)
LEMMA KnownLoadMembership ==
  ASSUME TypeOK, NEW r \in Requests, LoadMembership(r)
  PROVE  Served(r)
  <1> DEFINE c == call[r]
  <1>1. CASE Answer(r, "404")
    BY <1>1, KnownEnd DEF Answer
  <1>2. CASE ~Answer(r, "404")
    <2>1. PICK m \in MemberById(c.mid) :
            /\ seen' = [seen EXCEPT ![r].gid = m.group, ![r].role = m.role]
            /\ Goto(r, "group") /\ UNCHANGED <<tx, call>>
      BY <1>2 DEF LoadMembership
    <2>2. seen'[r].gid = m.group /\ pc'[r] = "group"
      BY <2>1 DEF TypeOK, SeenType, Goto
    <2>3. Present(c.mid, m.group)
      BY <2>1 DEF MemberById, Present
    <2>4. c.op \in RowOps /\ ~Inherits(c)
      BY DEF LoadMembership, At, RowOps, Inherits
    <2> QED
      BY <2>1, <2>2, <2>3, <2>4 DEF Served, Known
  <1> QED
    BY <1>1, <1>2

(* A statement writes rows its caller may write: a row that is found is    *)
(* not one that has gone.                                                  *)
LEMMA KnownStatement ==
  ASSUME TypeOK, RowInv, AuthorityInv, NEW r \in Requests, Statement(r)
  PROVE  Served(r)
  <1> DEFINE c == call[r]
             w == tx'[r]
  <1>1. /\ pc[r] \in {"exec", "enroll"} /\ pc'[r] \in {"enroll", "commit"}
        /\ pc'[r] = "enroll" => pc[r] = "exec"
        /\ call'[r] = c /\ seen'[r] = seen[r] /\ KnownInv(r)
    BY DEF Statement, Invites, Updates, Deletes, Founds, Enrolls, Alters, At,
           AuthorityInv
  <1>2. c.op \notin RowOps => seen[r].gid = 0
    BY <1>1 DEF KnownInv, Known
  <1>3. Suffices(c, held[r]) \/ Void(c)
    BY <1>1 DEF KnownInv, Known
  <1>4. w.mDel \cup w.mIns \cup w.gDel \cup w.gIns # {} => ~Void(c)
    <2>1. CASE c.op \notin RowOps
      BY <2>1 DEF Void
    <2>2. CASE c.op \in RowOps
      <3>1. Updates(r) \/ Deletes(r)
        BY <2>2 DEF Statement, Invites, Founds, Enrolls, Alters, At, RowOps
      <3>2. w.mDel \cup w.mIns \cup w.gDel \cup w.gIns # {}
              => \E m \in members : m.id = c.mid
        BY <3>1 DEF Updates, Deletes, MemberById
      <3> QED
        BY <3>2 DEF Void, Gone
    <2> QED
      BY <2>1, <2>2
  <1>5. ASSUME Inherits(c), NEW g \in w.gIns
        PROVE  g.flags \in offered[r]
    <2>1. Founds(r) \/ Enrolls(r)
      BY <1>5 DEF Statement, Invites, Updates, Deletes, Alters, At, Inherits
    <2>2. CASE Founds(r)
      <3>1. pc[r] = "exec" /\ g = NewGroup(r, groupSeq + 1)
        BY <1>5, <2>2 DEF Founds, At
      <3>2. g.flags = seen[r].flags
        BY <1>5, <3>1 DEF NewGroup, Inherits
      <3> QED
        BY <1>1, <1>5, <3>1, <3>2 DEF KnownInv, Known
    <2>3. CASE Enrolls(r)
      BY <1>1, <1>5, <2>3 DEF Enrolls, KnownInv, Known
    <2> QED
      BY <2>1, <2>2, <2>3
  <1> HIDE DEF c, w
  <1> QED
    BY <1>1, <1>2, <1>3, <1>4, <1>5 DEF Served, Known, c, w

(* A DELETE that finds no row writes nothing, whatever its caller may do.  *)
LEMMA KnownNothing ==
  ASSUME TypeOK, RowInv, AuthorityInv, NEW r \in Requests, Clean(r),
         \/ InsertInvitation(r) \/ UpdateMembership(r) \/ DeleteMembership(r)
         \/ InsertGroup(r) \/ EnrollCreator(r) \/ UpdateGroup(r),
         \/ \E del, ins : WriteMember(r, del, ins)
         \/ \E del, ins : \E next \in {"enroll", "commit"} :
              WriteGroup(r, del, ins, next)
  PROVE  Served(r)
  <1>1. /\ pc[r] \in {"exec", "enroll"} /\ KnownInv(r)
        /\ pc'[r] \in {"enroll", "commit"}
        /\ call'[r] = call[r] /\ seen'[r] = seen[r]
    BY MemberWriteTx, GroupWriteTx
       DEF InsertInvitation, UpdateMembership, DeleteMembership, InsertGroup,
           EnrollCreator, UpdateGroup, At, AuthorityInv
  <1>2. /\ call[r].op \notin RowOps => seen[r].gid = 0
        /\ Suffices(call[r], held[r]) \/ Void(call[r])
    BY <1>1 DEF KnownInv, Known
  <1> QED
    BY <1>1, <1>2 DEF Served, Known, Clean

(* The steps of the handlers that neither write nor authorize.             *)
LEMMA KnownRead ==
  ASSUME TypeOK, RowInv, AuthorityInv, NEW r \in Requests,
         CountAdmins(r) \/ ValidateName(r) \/ ProbeHandle(r) \/ CountAfterUpdate(r)
  PROVE  Served(r)
  <1> DEFINE c == call[r]
  <1>1. CASE \E code : Answer(r, code)
    BY <1>1, KnownEnd DEF Answer
  <1>2. CASE CountAfterUpdate(r) /\ ~\E code : Answer(r, code)
    <2>1. Proceed(r, "countAdmins") /\ c.op = "update" /\ pc[r] = "countMembers"
      BY <1>2 DEF CountAfterUpdate, At
    <2>2. /\ pc'[r] = "countAdmins" /\ call'[r] = c /\ seen'[r] = seen[r]
          /\ tx'[r] = tx[r]
      BY <2>1 DEF Proceed, Goto, TypeOK
    <2> QED
      BY <2>1, <2>2 DEF Served, Known, AuthorityInv, KnownInv, Inherits
  <1>3. CASE ~CountAfterUpdate(r) /\ ~\E code : Answer(r, code)
    <2>1. /\ pc[r] \in {"count", "name", "probe"} /\ KnownInv(r)
          /\ pc[r] \in Steps \ InsideTx
      BY <1>3 DEF CountAdmins, ValidateName, ProbeHandle, At, AuthorityInv,
                  Steps, InsideTx
    <2>2. tx[r].gIns = {}
      BY <2>1, OutsideTx
    <2>3. /\ c.op \notin RowOps => seen[r].gid = 0
          /\ Suffices(c, held[r]) \/ Void(c)
          /\ Inherits(c) => seen[r].flags \in offered[r]
      <3>1. pc[r] = "count" => ~Inherits(c)
        BY <1>3 DEF CountAdmins, ValidateName, ProbeHandle, At, Inherits
      <3> QED
        BY <2>1, <3>1 DEF KnownInv, Known
    <2>4. /\ pc'[r] \in {"probe", "begin"} /\ call'[r] = c /\ tx'[r] = tx[r]
          /\ seen'[r].gid = seen[r].gid /\ seen'[r].flags = seen[r].flags
      BY <1>3 DEF CountAdmins, ValidateName, ProbeHandle, Proceed, Goto, At,
                  TypeOK, SeenType
    <2> QED
      BY <2>2, <2>3, <2>4 DEF Served, Known
  <1> QED
    BY <1>1, <1>2, <1>3

-----------------------------------------------------------------------------
(* At the start nothing is known and nothing is claimed.                   *)
LEMMA InitAuthority == AuthorityInit => AuthorityInv
  <1> SUFFICES ASSUME AuthorityInit, NEW r \in Requests
               PROVE  KnownInv(r) /\ SameKeys(r) /\ Fresh(r)
    BY DEF AuthorityInv
  <1>1. /\ pc[r] = "idle" /\ call[r].op = "none" /\ seen[r].gid = 0
        /\ tx[r].mDel = {} /\ tx[r].gDel = {}
    BY DEF AuthorityInit, Init, StoreInit, NoCall, NoTx, Unread
  <1> QED
    BY <1>1 DEF KnownInv, Known, SameKeys, Fresh, RowOps, NamedOps, Inherits

(* Every step keeps the invariant.                                         *)
LEMMA NextAuthority ==
  ASSUME TypeOK, RowInv, TypeOK', AuthorityInv,
         [AuthorityNext]_<<vars, held, offered>>
  PROVE  AuthorityInv'
  <1>1. CASE UNCHANGED <<vars, held, offered>>
    BY <1>1 DEF vars, AuthorityInv, KnownInv, Known, Void, Present, Gone,
                SameKeys, Fresh
  <1>2. CASE AuthorityNext
    <2>1. PICK r \in Requests : StepOf(r)
      BY <1>2 DEF AuthorityNext, Next, StepOf
    <2>2. Remember
      BY <1>2 DEF AuthorityNext
    <2>3. Served(r)
      <3>1. CASE \/ InsertInvitation(r) \/ UpdateMembership(r)
                 \/ DeleteMembership(r) \/ InsertGroup(r) \/ EnrollCreator(r)
                 \/ UpdateGroup(r)
        <4>1. \/ \E code : End(r, code)
              \/ \E del, ins : WriteMember(r, del, ins)
              \/ \E del, ins : \E next \in {"enroll", "commit"} :
                   WriteGroup(r, del, ins, next)
          BY <3>1 DEF InsertInvitation, UpdateMembership, DeleteMembership,
                      InsertGroup, EnrollCreator, UpdateGroup, Answer
        <4>2. CASE \E code : End(r, code)
          BY <4>2, KnownEnd
        <4>3. CASE Statement(r)
          BY <4>3, KnownStatement
        <4>4. CASE Clean(r) /\ ~\E code : End(r, code)
          BY <3>1, <4>1, <4>4, KnownNothing
        <4> QED
          BY <2>1, <4>2, <4>3, <4>4, StatementShape DEF StepOf
      <3> QED
        BY <2>1, <3>1, KnownReadGroup, KnownShared, KnownAuthorize,
           KnownLoadInvitation, KnownLoadMembership, KnownRead
           DEF StepOf, HandlerStep, MembershipStep, GroupStep
    <2>4. \A q \in Requests : KnownInv(q)'
      BY <2>1, <2>2, <2>3, KnownStep DEF Served
    <2>5. \A q \in Requests : SameKeys(q)'
      BY <2>1, SameKeysStep DEF AuthorityInv
    <2>6. \A q \in Requests : Fresh(q)'
      BY <2>2 DEF Remember, Fresh
    <2> QED
      BY <2>4, <2>5, <2>6 DEF AuthorityInv
  <1> QED
    BY <1>1, <1>2

(* What the handlers know is so in every state.                            *)
THEOREM AuthorityInvariance == AuthoritySpec => [](TypeOK /\ RowInv /\ AuthorityInv)
  <1>1. AuthorityInit => TypeOK /\ RowInv /\ AuthorityInv
    BY InitType, InitRows, InitAuthority DEF AuthorityInit
  <1>2. (TypeOK /\ RowInv /\ AuthorityInv) /\ [AuthorityNext]_<<vars, held, offered>>
          => (TypeOK /\ RowInv /\ AuthorityInv)'
    <2> SUFFICES ASSUME TypeOK, RowInv, AuthorityInv,
                        [AuthorityNext]_<<vars, held, offered>>
                 PROVE  TypeOK' /\ RowInv' /\ AuthorityInv'
      OBVIOUS
    <2>1. [Next]_vars
      BY DEF AuthorityNext
    <2> QED
      BY <2>1, NextType, NextRows, NextAuthority
  <1> QED
    BY <1>1, <1>2, PTL DEF AuthoritySpec

(* Whatever is about to be committed, its caller was entitled to while the *)
(* call was being served, though the rights were read in other snapshots   *)
(* than the rows they protect.                                             *)
THEOREM WritesWereEntitled == AuthoritySpec => []AuthorityWasHeld
  <1>1. AuthorityInv => AuthorityWasHeld
    BY DEF AuthorityInv, KnownInv, Known, AuthorityWasHeld, Writes
  <1> QED
    BY <1>1, AuthorityInvariance, PTL

(* A subgroup that inherits takes the flags of one committed version of    *)
(* its parent.                                                             *)
THEOREM InheritedFromOneVersion == AuthoritySpec => []InheritedFlagsWereOffered
  <1>1. AuthorityInv => InheritedFlagsWereOffered
    BY DEF AuthorityInv, KnownInv, Known, InheritedFlagsWereOffered
  <1> QED
    BY <1>1, AuthorityInvariance, PTL

-----------------------------------------------------------------------------
(* The trail.  Every behaviour of AuditTrail is one of Authority, so all   *)
(* that is known there is known here.                                      *)

(* What a step does to the tables and to the trail is one request's.       *)
LEMMA AuditStepOf ==
  ASSUME NEW r \in Requests, AuditStep(r)
  PROVE  StepOf(r)
  BY DEF AuditStep, StepOf, HandlerStep

(* Every step here is one of Authority's.                                  *)
LEMMA AuditRefines == AuditSpec => AuthoritySpec
  <1>1. AuditInit => AuthorityInit
    BY DEF AuditInit
  <1>2. [AuditNext]_<<vars, held, offered, auditVars>>
          => [AuthorityNext]_<<vars, held, offered>>
    BY AuditStepOf DEF AuditNext, AuthorityNext, Next, StepOf
  <1> QED
    BY <1>1, <1>2, PTL DEF AuditSpec, AuthoritySpec

-----------------------------------------------------------------------------
(* What the triggers have recorded for an open transaction.  An audit row  *)
(* describes the change its transaction has pending in one table, every    *)
(* change has its row, and all are signed with the caller.                 *)
AuditTypeOK ==
  /\ trail \subseteq AuditRow
  /\ pending \in [Requests -> SUBSET AuditRow]
  /\ auditSeq \in Nat
  /\ conn \in [Requests -> 0 .. MaxConns]
  /\ setting \in [Connections -> Users \cup {NoUser}]

(* A connection serves one transaction, and only one in use has an actor.  *)
ConnInv ==
  /\ \A r \in Requests : conn[r] # 0 <=> InTx(r)
  /\ \A r, q \in Requests : conn[r] # 0 /\ conn[r] = conn[q] => r = q
  /\ \A k \in Connections : setting[k] # NoUser => \E r \in Requests : conn[r] = k

Describes(a, w) ==
  /\ a.op = Operation(a) /\ a.old \cup a.new # {}
  /\ \/ a.table = "groups" /\ a.old = w.gDel /\ a.new = w.gIns
     \/ a.table = "memberships" /\ a.old = w.mDel /\ a.new = w.mIns

(* What is known of a request that serves c, is at step s, has w pending,  *)
(* as recorded and u as the actor of its transaction.                      *)
Recorded(c, s, w, as, u) ==
  /\ s \in InsideTx => u = c.user
  /\ s \notin {"enroll", "commit"} => as = {}
  /\ s = "enroll" => w.mDel = {} /\ w.mIns = {}
  /\ \A a \in as : a.actor = c.user /\ Describes(a, w)
  /\ w.gDel \cup w.gIns # {} => \E a \in as : a.table = "groups"
  /\ w.mDel \cup w.mIns # {} => \E a \in as : a.table = "memberships"
  /\ \A a, b \in as : a.xact = b.xact /\ (a.table = b.table => a = b)
  /\ (w.gDel = {} /\ w.gIns # {} /\ s = "commit") =>
       \E g \in w.gIns, id \in Ids : /\ w.gIns = {g} /\ w.mDel = {}
                                     /\ w.mIns = {CreatorRow(c.user, g, id)}

RecordInv ==
  AuditTypeOK /\ ConnInv /\ \A r \in Requests :
    Recorded(call[r], pc[r], tx[r], pending[r], ActorSet(r))

GroupChange(w)  == [table |-> "groups", old |-> w.gDel, new |-> w.gIns]
MemberChange(w) == [table |-> "memberships", old |-> w.mDel, new |-> w.mIns]

(* One trigger fires for c.                                                *)
Fires(r, c) ==
  /\ pending' = [pending EXCEPT ![r] = @ \cup {TriggerRow(r, c)}]
  /\ auditSeq' = auditSeq + 1
  /\ UNCHANGED <<trail, conn, setting>>

(* Of every statement one trigger fires, or none if it has met no row.     *)
LEMMA TriggerShape ==
  ASSUME TypeOK, RowInv, TypeOK', RecordInv, NEW r \in Requests, StepOf(r),
         tx'[r] # NoTx, pc[r] \in {"exec", "enroll"}, Trigger(r)
  PROVE  \/ Clean(r) /\ UNCHANGED auditVars
         \/ /\ Statement(r) /\ ~Founds(r) /\ ~Alters(r)
            /\ tx'[r].mDel \cup tx'[r].mIns # {}
            /\ Fires(r, MemberChange(tx'[r]))
         \/ /\ Founds(r) \/ Alters(r)
            /\ Statement(r)
            /\ Fires(r, GroupChange(tx'[r]))
  <1> DEFINE w == tx'[r]
  <1>1. Recorded(call[r], pc[r], tx[r], pending[r], ActorSet(r))
    BY DEF RecordInv
  <1>2. /\ pending' = [pending EXCEPT ![r] = @ \cup {TriggerRow(r, c) : c \in Fired(r)}]
        /\ auditSeq' = auditSeq + Cardinality(Fired(r))
        /\ UNCHANGED <<trail, conn, setting>>
    BY DEF Trigger
  <1>3. Fired(r) = {c \in {GroupChange(w), MemberChange(w)} :
                      /\ c.old \cup c.new # {}
                      /\ \A a \in pending[r] : a.table # c.table}
    BY DEF Fired, Change, GroupChange, MemberChange
  <1>4. /\ GroupChange(w).table = "groups" /\ GroupChange(w).old = w.gDel
        /\ GroupChange(w).new = w.gIns
        /\ MemberChange(w).table = "memberships" /\ MemberChange(w).old = w.mDel
        /\ MemberChange(w).new = w.mIns
    BY DEF GroupChange, MemberChange
  <1>5. ASSUME NEW c, Fired(r) = {c} PROVE Fires(r, c)
    <2>1. Cardinality(Fired(r)) = 1
      BY <1>5, FS_Singleton
    <2> QED
      BY <1>2, <1>5, <2>1 DEF Fires
  <1>6. CASE Clean(r)
    <2>1. Fired(r) = {}
      BY <1>3, <1>4, <1>6 DEF Clean
    <2>2. Cardinality(Fired(r)) = 0
      BY <2>1, FS_EmptySet
    <2>3. pending' = pending /\ auditSeq' = auditSeq
      BY <1>2, <2>1, <2>2 DEF RecordInv, AuditTypeOK
    <2> QED
      BY <1>2, <1>6, <2>3 DEF auditVars
  <1>7. CASE Statement(r) /\ (Founds(r) \/ Alters(r))
    <2>1. pc[r] = "exec" /\ w.mDel = {} /\ w.mIns = {} /\ w.gIns # {}
      BY <1>7 DEF Founds, Alters, At
    <2>2. pending[r] = {}
      BY <1>1, <2>1 DEF Recorded
    <2>3. Fired(r) = {GroupChange(w)}
      BY <1>3, <1>4, <2>1, <2>2
    <2> QED
      BY <1>5, <1>7, <2>3
  <1>8. CASE Statement(r) /\ ~Founds(r) /\ ~Alters(r) /\ ~Clean(r)
    <2>1. /\ w.mDel \cup w.mIns # {}
          /\ \A a \in pending[r] : a.table = "groups"
          /\ w.gDel \cup w.gIns # {} => \E a \in pending[r] : a.table = "groups"
      <3>1. CASE Enrolls(r)
        <4>1. tx[r].mDel = {} /\ tx[r].mIns = {}
          BY <1>1, <3>1 DEF Enrolls, At, Recorded
        <4> QED
          BY <1>1, <3>1 DEF Enrolls, Recorded, Describes
      <3>2. CASE Invites(r) \/ Updates(r) \/ Deletes(r)
        <4>1. /\ pc[r] = "exec" /\ w.gDel = {} /\ w.gIns = {}
              /\ w.mDel \cup w.mIns # {}
          BY <1>8, <3>2 DEF Invites, Updates, Deletes, At, Clean
        <4> QED
          BY <1>1, <4>1 DEF Recorded
      <3> QED
        BY <1>8, <3>1, <3>2 DEF Statement
    <2>2. Fired(r) = {MemberChange(w)}
      BY <1>3, <1>4, <2>1
    <2> QED
      BY <1>5, <1>8, <2>1, <2>2
  <1> QED
    BY <1>6, <1>7, <1>8, StatementShape DEF StepOf

(* A trigger writes an audit row that describes its change, signed with    *)
(* the setting of its transaction.                                         *)
LEMMA TriggerRowType ==
  ASSUME TypeOK', RecordInv, NEW r \in Requests, NEW w, w = tx'[r],
         NEW c \in {GroupChange(w), MemberChange(w)}, c.old \cup c.new # {}
  PROVE  /\ TriggerRow(r, c) \in AuditRow
         /\ Describes(TriggerRow(r, c), w)
         /\ TriggerRow(r, c).id = auditSeq + 1
         /\ TriggerRow(r, c).table = c.table
         /\ TriggerRow(r, c).actor = ActorSet(r)
         /\ \A a \in pending[r] : TriggerRow(r, c).xact = a.xact
  <1> DEFINE t == TriggerRow(r, c)
  <1>1. /\ pending[r] \subseteq AuditRow /\ ActorSet(r) \in Users \cup {NoUser}
        /\ auditSeq \in Nat /\ \A a, b \in pending[r] : a.xact = b.xact
    BY DEF RecordInv, AuditTypeOK, Recorded, ActorSet, Connections
  <1>2. w \in TxType
    BY DEF TypeOK
  <1>3. /\ c.table \in {"groups", "memberships"}
        /\ c.old \in SUBSET (GroupRow \cup MembershipRow)
        /\ c.new \in SUBSET (GroupRow \cup MembershipRow)
    BY <1>2 DEF GroupChange, MemberChange, TxType
  <1>4. Operation(c) \in {"INSERT", "UPDATE", "DELETE"}
    BY DEF Operation
  <1>5. /\ t.id = auditSeq + 1 /\ t.table = c.table /\ t.op = Operation(c)
        /\ t.old = c.old /\ t.new = c.new /\ t.actor = ActorSet(r)
        /\ t.xact = IF pending[r] = {} THEN auditSeq + 1
                    ELSE (CHOOSE a \in pending[r] : TRUE).xact
    BY DEF TriggerRow
  <1>6. \A a \in pending[r] : t.xact = a.xact
    BY <1>1, <1>5
  <1>7. auditSeq + 1 \in Ids /\ t.xact \in Ids
    <2>1. auditSeq + 1 \in Ids
      BY <1>1 DEF Ids
    <2>2. CASE pending[r] # {}
      <3>1. PICK a \in pending[r] : TRUE
        BY <2>2
      <3>2. a.xact \in Ids
        BY <1>1, <3>1 DEF AuditRow
      <3> QED
        BY <1>6, <2>1, <3>1, <3>2
    <2> QED
      BY <1>5, <2>1, <2>2
  <1>8. t \in AuditRow
    BY <1>1, <1>3, <1>4, <1>5, <1>7 DEF TriggerRow, AuditRow
  <1>9. Operation(t) = Operation(c)
    BY <1>5 DEF Operation
  <1>10. Describes(t, w)
    BY <1>5, <1>9 DEF Describes, GroupChange, MemberChange
  <1> QED
    BY <1>5, <1>6, <1>8, <1>10

(* What a step of one request does to the trail, the audit rows that are   *)
(* pending, and the settings.                                              *)
Records(r) ==
  \/ /\ Statement(r) /\ ~Founds(r) /\ ~Alters(r)
     /\ tx'[r].mDel \cup tx'[r].mIns # {}
     /\ Fires(r, MemberChange(tx'[r]))
  \/ /\ Founds(r) \/ Alters(r)
     /\ Statement(r)
     /\ Fires(r, GroupChange(tx'[r]))

(* What a step of AuditTrail does to the trail: nothing, sets the actor,   *)
(* publishes or discards what is pending, or fires the row trigger.        *)
LEMMA AuditShape ==
  ASSUME TypeOK, RowInv, TypeOK', RecordInv, NEW r \in Requests, AuditStep(r)
  PROVE  \/ tx[r] = NoTx /\ tx'[r] = NoTx /\ UNCHANGED auditVars
         \/ Begin(r) /\ SetAuditContext(r)
         \/ tx'[r] = NoTx /\ Discard(r)
         \/ Commit(r) /\ Publish(r)
         \/ /\ pc[r] = "exec" /\ pc'[r] = "commit" /\ call'[r] = call[r]
            /\ Clean(r) /\ UNCHANGED auditVars
         \/ Records(r)
  <1>1. CASE (Receive(r) \/ ReadGroup(r) \/ Finish(r)) /\ UNCHANGED auditVars
    <2>1. pc[r] \notin InsideTx
      BY <1>1 DEF Receive, Finish, ReadGroup, InsideTx
    <2>2. tx[r] = NoTx
      BY <2>1, OutsideTx
    <2>3. tx'[r] \in {tx[r], NoTx}
      BY <1>1, EndTx DEF Receive, Finish, ReadGroup, Answer
    <2> QED
      BY <1>1, <2>2, <2>3
  <1>2. CASE Fail(r) /\ Discard(r)
    BY <1>2, EndTx DEF Fail, Answer
  <1>3. CASE (MembershipStep(r) \/ GroupStep(r)) /\ Trigger(r) /\ tx'[r] # NoTx
    <2>1. pc'[r] \in InsideTx
      BY <1>3 DEF TypeOK, InTx
    <2>2. ~Quiet(r)
      BY <2>1 DEF Quiet, Goto, TypeOK
    <2>3. \/ InsertInvitation(r) \/ UpdateMembership(r) \/ DeleteMembership(r)
          \/ InsertGroup(r) \/ EnrollCreator(r) \/ UpdateGroup(r)
      BY <1>3, <2>2, ReadQuiet, NameQuiet DEF MembershipStep, GroupStep
    <2>4. /\ pc[r] \in {"exec", "enroll"}
          /\ pc[r] = "enroll" => EnrollCreator(r)
      BY <2>3 DEF InsertInvitation, UpdateMembership, DeleteMembership,
                  InsertGroup, EnrollCreator, UpdateGroup, At
    <2>5. StepOf(r)
      BY AuditStepOf
    <2>6. Records(r) \/ (Clean(r) /\ UNCHANGED auditVars)
      BY <1>3, <2>4, <2>5, TriggerShape DEF Records
    <2>7. CASE Clean(r) /\ UNCHANGED auditVars
      <3>1. ~EnrollCreator(r)
        <4> SUFFICES ASSUME EnrollCreator(r) PROVE FALSE
          OBVIOUS
        <4>1. PICK g : g \in tx[r].gIns
          BY DEF EnrollCreator, At, RowInv, RowsInv, StageInv
        <4>2. tx'[r].mIns = {CreatorRow(call[r].user, h, memberSeq + 1) :
                               h \in tx[r].gIns}
          BY MemberWriteTx DEF EnrollCreator
        <4> QED
          BY <2>7, <4>1, <4>2 DEF Clean
      <3>2. ~InsertGroup(r) /\ ~UpdateGroup(r)
        <4>1. \A code : ~End(r, code)
          BY <2>1, EndTx DEF InsideTx
        <4>2. \A del, ins, next : WriteGroup(r, del, ins, next) => ins = {}
          BY <2>7, GroupWriteTx DEF Clean
        <4> QED
          BY <4>1, <4>2 DEF InsertGroup, UpdateGroup
      <3>3. \E del, ins : WriteMember(r, del, ins)
        <4>1. \A code : ~End(r, code) /\ ~Answer(r, code)
          BY <2>1, EndTx DEF InsideTx, Answer
        <4> QED
          BY <2>3, <3>1, <3>2, <4>1
             DEF InsertInvitation, UpdateMembership, DeleteMembership
      <3>4. pc'[r] = "commit" /\ call'[r] = call[r]
        BY <3>3, MemberWriteTx
      <3> QED
        BY <2>4, <2>7, <3>1, <3>4
    <2> QED
      BY <2>6, <2>7
  <1> QED
    BY <1>1, <1>2, <1>3 DEF AuditStep, Trigger

(* What a step does to the connections: nothing, a transaction takes an    *)
(* idle one and sets its actor there, or it ends and leaves no actor.      *)
LEMMA ConnShape ==
  ASSUME TypeOK, RowInv, TypeOK', RecordInv, NEW r \in Requests, AuditStep(r)
  PROVE  \/ /\ UNCHANGED <<conn, setting>> /\ (InTx(r)' <=> InTx(r))
         \/ /\ ~InTx(r) /\ InTx(r)'
            /\ \E k \in IdleConnections :
                 /\ conn' = [conn EXCEPT ![r] = k]
                 /\ setting' = [setting EXCEPT ![k] = call[r].user]
         \/ /\ ~InTx(r)' /\ conn' = [conn EXCEPT ![r] = 0]
            /\ setting' = Cleared(r)
  <1>1. NoTx.open = FALSE
    BY DEF NoTx
  <1>2. CASE tx[r] = NoTx /\ tx'[r] = NoTx /\ UNCHANGED auditVars
    BY <1>2 DEF auditVars, InTx
  <1>3. CASE Begin(r) /\ SetAuditContext(r)
    <2>1. pc[r] = "begin" /\ tx' = [tx EXCEPT ![r].open = TRUE]
      BY <1>3 DEF Begin
    <2>2. tx[r] = NoTx
      BY <2>1, OutsideTx DEF InsideTx
    <2>3. ~InTx(r) /\ InTx(r)'
      BY <1>1, <2>1, <2>2 DEF InTx, TypeOK, NoTx, TxType
    <2> QED
      BY <1>3, <2>3 DEF SetAuditContext, ActorOf
  <1>4. CASE tx'[r] = NoTx /\ Discard(r)
    BY <1>1, <1>4 DEF Discard, InTx
  <1>5. CASE Commit(r) /\ Publish(r)
    BY <1>1, <1>5 DEF Commit, Publish, SettingAfterCommit, InTx, TypeOK
  <1>6. CASE /\ pc[r] = "exec" /\ pc'[r] = "commit" /\ UNCHANGED auditVars
    BY <1>6 DEF InTx, InsideTx, TypeOK, auditVars
  <1>7. CASE Records(r)
    <2>1. UNCHANGED <<conn, setting>>
      BY <1>7 DEF Records, Fires
    <2>2. pc[r] \in InsideTx /\ pc'[r] \in InsideTx
      BY <1>7 DEF Records, Statement, Invites, Updates, Deletes, Founds, Alters,
                  Enrolls, At, InsideTx
    <2> QED
      BY <2>1, <2>2 DEF InTx, TypeOK
  <1> QED
    BY <1>2, <1>3, <1>4, <1>5, <1>6, <1>7, AuditShape

(* Connections stay typed, each with one transaction.                      *)
LEMMA ConnStep ==
  ASSUME TypeOK, RowInv, TypeOK', RecordInv, NEW r \in Requests, AuditStep(r)
  PROVE  /\ conn' \in [Requests -> 0 .. MaxConns]
         /\ setting' \in [Connections -> Users \cup {NoUser}]
         /\ ConnInv'
         /\ \A q \in Requests \ {r} : ActorSet(q)' = ActorSet(q)
  <1>1. /\ conn \in [Requests -> 0 .. MaxConns]
        /\ setting \in [Connections -> Users \cup {NoUser}] /\ ConnInv
        /\ 0 \notin Connections /\ 0 \in 0 .. MaxConns
        /\ Connections \subseteq 0 .. MaxConns
    BY PoolAssumption DEF RecordInv, AuditTypeOK, Connections
  <1>2. \A q \in Requests \ {r} : InTx(q)' <=> InTx(q)
    BY OthersStay, AuditStepOf DEF InTx, StepOf
  <1>3. CASE UNCHANGED <<conn, setting>> /\ (InTx(r)' <=> InTx(r))
    BY <1>1, <1>2, <1>3 DEF ConnInv, ActorSet
  <1>4. ASSUME ~InTx(r), InTx(r)', NEW k \in IdleConnections,
               conn' = [conn EXCEPT ![r] = k],
               setting' = [setting EXCEPT ![k] = call[r].user]
        PROVE  /\ conn' \in [Requests -> 0 .. MaxConns]
               /\ setting' \in [Connections -> Users \cup {NoUser}]
               /\ ConnInv'
               /\ \A q \in Requests \ {r} : ActorSet(q)' = ActorSet(q)
    <2>1. k \in Connections /\ \A q \in Requests : conn[q] # k
      BY <1>4 DEF IdleConnections
    <2>2. call[r].user \in Users \cup {NoUser}
      BY CallTyping DEF TypeOK, CallRecord, NoCall
    <2>3. ConnInv'
      BY <1>1, <1>2, <1>4, <2>1 DEF ConnInv
    <2>4. \A q \in Requests \ {r} : ActorSet(q)' = ActorSet(q)
      BY <1>1, <1>4, <2>1 DEF ActorSet
    <2> QED
      BY <1>1, <1>4, <2>1, <2>2, <2>3, <2>4
  <1>5. CASE /\ ~InTx(r)' /\ conn' = [conn EXCEPT ![r] = 0]
             /\ setting' = Cleared(r)
    <2>1. ConnInv'
      BY <1>1, <1>2, <1>5 DEF ConnInv, Cleared
    <2>2. \A q \in Requests \ {r} : conn[q] # 0 => conn[q] \in Connections /\ conn[q] # conn[r]
      BY <1>1 DEF ConnInv, Connections
    <2>3. \A q \in Requests \ {r} : ActorSet(q)' = ActorSet(q)
      BY <1>1, <1>5, <2>2 DEF ActorSet, Cleared
    <2> QED
      BY <1>1, <1>5, <2>1, <2>3 DEF Cleared
  <1> QED
    BY <1>3, <1>4, <1>5, ConnShape

(* What has been recorded for one request follows its steps.               *)
LEMMA RecordedStep ==
  ASSUME TypeOK, RowInv, TypeOK', RecordInv, NEW r \in Requests, AuditStep(r)
  PROVE  /\ AuditTypeOK'
         /\ Recorded(call'[r], pc'[r], tx'[r], pending'[r], ActorSet(r)')
  <1> DEFINE OK == /\ AuditTypeOK'
                   /\ Recorded(call'[r], pc'[r], tx'[r], pending'[r], ActorSet(r)')
  <1>1. /\ AuditTypeOK
        /\ Recorded(call[r], pc[r], tx[r], pending[r], ActorSet(r))
        /\ call'[r].op # "none" => call'[r].user \in Users
    BY CallTyping DEF RecordInv, TypeOK, CallRecord, NoCall
  <1>2. NoTx.mDel = {} /\ NoTx.mIns = {} /\ NoTx.gDel = {} /\ NoTx.gIns = {}
    BY DEF NoTx
  <1>3. tx'[r] = NoTx => pc'[r] \notin InsideTx
    BY EmptyTyping DEF TypeOK, InTx
  <1>4. CASE tx[r] = NoTx /\ tx'[r] = NoTx /\ UNCHANGED auditVars
    <2>1. pc[r] \notin InsideTx /\ pc'[r] \notin InsideTx
      BY <1>3, <1>4, EmptyTyping DEF TypeOK, InTx
    <2>2. pending[r] = {}
      BY <1>1, <2>1 DEF Recorded, InsideTx
    <2> QED
      BY <1>1, <1>2, <1>4, <2>1, <2>2 DEF AuditTypeOK, Recorded, auditVars, InsideTx
  <1>5. CASE tx'[r] = NoTx /\ Discard(r)
    BY <1>1, <1>2, <1>3, <1>5, ConnStep DEF AuditTypeOK, Recorded, Discard, InsideTx
  <1>6. CASE Begin(r) /\ SetAuditContext(r)
    <2>1. /\ pc[r] = "begin" /\ pc'[r] = "exec" /\ call'[r] = call[r]
          /\ tx'[r] = [tx[r] EXCEPT !.open = TRUE]
      BY <1>6 DEF Begin, Goto, TypeOK
    <2>2. /\ tx'[r].mDel = {} /\ tx'[r].mIns = {}
          /\ tx'[r].gDel = {} /\ tx'[r].gIns = {}
      BY <2>1, OutsideTx, Unmoved DEF InsideTx, TxType
    <2>3. call[r].user \in Users /\ pending[r] = {}
      <3>1. call[r] \in Calls
        BY <2>1 DEF TypeOK
      <3> QED
        BY <1>1, <2>1, <3>1, CallTyping DEF CallRecord, Recorded
    <2>4. AuditTypeOK' /\ pending' = pending
      BY <1>1, <1>6, ConnStep DEF AuditTypeOK, SetAuditContext
    <2>5. ActorSet(r)' = call[r].user
      BY <1>1, <1>6
         DEF AuditTypeOK, SetAuditContext, ActorOf, ActorSet, IdleConnections, Connections
    <2> QED
      BY <1>1, <2>1, <2>2, <2>3, <2>4, <2>5 DEF Recorded
  <1>7. CASE Commit(r) /\ Publish(r)
    <2>1. tx'[r] = NoTx
      BY <1>7 DEF Commit, TypeOK
    <2> QED
      BY <1>1, <1>2, <1>3, <1>7, <2>1, ConnStep
         DEF AuditTypeOK, Recorded, Publish, InsideTx
  <1>8. CASE /\ pc[r] = "exec" /\ pc'[r] = "commit" /\ call'[r] = call[r]
             /\ Clean(r) /\ UNCHANGED auditVars
    <2>1. pending[r] = {} /\ ActorSet(r) = call[r].user
      BY <1>1, <1>8 DEF Recorded, InsideTx
    <2>2. ActorSet(r)' = ActorSet(r)
      BY <1>8 DEF auditVars, ActorSet
    <2> QED
      BY <1>1, <1>8, <2>1, <2>2 DEF AuditTypeOK, Recorded, auditVars, Clean
  <1>9. CASE Records(r)
    <2> DEFINE w == tx'[r]
    <2>1. PICK c \in {GroupChange(w), MemberChange(w)} :
            /\ Fires(r, c) /\ c.old \cup c.new # {} /\ Statement(r)
            /\ c = MemberChange(w) => /\ Invites(r) \/ Updates(r) \/ Deletes(r)
                                           \/ Enrolls(r)
                                      /\ c.table = "memberships"
            /\ c = GroupChange(w) => Founds(r) \/ Alters(r)
      BY <1>9 DEF Records, Statement, GroupChange, MemberChange, Founds, Alters
    <2> DEFINE t == TriggerRow(r, c)
    <2>2. /\ t \in AuditRow /\ Describes(t, w) /\ t.id = auditSeq + 1
          /\ t.table = c.table /\ t.actor = ActorSet(r)
          /\ \A a \in pending[r] : t.xact = a.xact
      BY <2>1, TriggerRowType
    <2>3. /\ pending' = [pending EXCEPT ![r] = @ \cup {t}]
          /\ auditSeq' = auditSeq + 1 /\ UNCHANGED <<trail, conn, setting>>
      BY <2>1 DEF Fires
    <2>4. AuditTypeOK'
      BY <1>1, <2>2, <2>3 DEF AuditTypeOK
    <2>5. pending'[r] = pending[r] \cup {t}
      BY <1>1, <2>3 DEF AuditTypeOK
    <2> HIDE DEF t
    <2>6. ActorSet(r) = call[r].user /\ call'[r] = call[r] /\ ActorSet(r)' = ActorSet(r)
      <3>1. ActorSet(r)' = ActorSet(r)
        BY <2>3 DEF ActorSet
      <3> QED
        BY <1>1, <2>1, <3>1 DEF Recorded, Statement, Invites, Updates, Deletes,
                                Founds, Enrolls, Alters, At, InsideTx
    <2>7. CASE Invites(r) \/ Updates(r) \/ Deletes(r)
      <3>1. /\ pending[r] = {} /\ w.gDel = {} /\ w.gIns = {} /\ pc'[r] = "commit"
        BY <1>1, <2>7 DEF Recorded, Invites, Updates, Deletes, At
      <3>2. c = MemberChange(w)
        BY <2>1, <2>7, <3>1 DEF GroupChange
      <3> QED
        BY <2>1, <2>2, <2>4, <2>5, <2>6, <3>1, <3>2 DEF Recorded
    <2>8. CASE Founds(r) \/ Alters(r)
      <3>1. /\ pending[r] = {} /\ w.mDel = {} /\ w.mIns = {}
            /\ pc'[r] \in {"enroll", "commit"}
            /\ pc'[r] = "commit" => w.gDel # {}
        BY <1>1, <2>8 DEF Recorded, Founds, Alters, At
      <3>2. c = GroupChange(w) /\ c.table = "groups"
        BY <2>1, <2>8, <3>1 DEF GroupChange, MemberChange
      <3> QED
        BY <2>1, <2>2, <2>4, <2>5, <2>6, <3>1, <3>2 DEF Recorded
    <2>9. CASE Enrolls(r)
      <3>1. /\ pc[r] = "enroll" /\ pc'[r] = "commit" /\ w.mDel = {}
            /\ w.gDel = tx[r].gDel /\ w.gIns = tx[r].gIns
            /\ memberSeq + 1 \in Ids
        BY <2>9, Unmoved DEF Enrolls, At, Ids
      <3>2. PICK g \in w.gIns : /\ w.gIns = {g}
                                /\ w.mIns = {CreatorRow(call[r].user, g, memberSeq + 1)}
        BY <2>9 DEF Enrolls
      <3>3. \A a \in pending[r] : /\ a.table = "groups" /\ Describes(a, w)
                                  /\ a.actor = call[r].user
        BY <1>1, <3>1 DEF Recorded, Describes
      <3>4. t.table = "memberships"
        BY <2>1, <2>2, <2>9 DEF Enrolls, Founds, Alters, At
      <3> QED
        BY <1>1, <2>2, <2>4, <2>5, <2>6, <3>1, <3>2, <3>3, <3>4 DEF Recorded
    <2> QED
      BY <2>1, <2>7, <2>8, <2>9
  <1> QED
    BY <1>4, <1>5, <1>6, <1>7, <1>8, <1>9, AuditShape

(* The others' stays.                                                      *)
LEMMA OthersRecorded ==
  ASSUME TypeOK, RowInv, TypeOK', RecordInv, NEW r \in Requests, AuditStep(r),
         NEW q \in Requests \ {r}
  PROVE  pending'[q] = pending[q] /\ ActorSet(q)' = ActorSet(q)
  <1>1. pending'[q] = pending[q]
    BY AuditShape
       DEF RecordInv, AuditTypeOK, SetAuditContext, Discard, Publish, Records,
           Fires, auditVars
  <1> QED
    BY <1>1, ConnStep

(* What is recorded follows the steps of all requests.                     *)
LEMMA NextRecords ==
  ASSUME TypeOK, RowInv, TypeOK', RecordInv,
         [AuditNext]_<<vars, held, offered, auditVars>>
  PROVE  RecordInv'
  <1>1. CASE UNCHANGED <<vars, held, offered, auditVars>>
    <2>1. ConnInv' /\ \A q \in Requests : ActorSet(q)' = ActorSet(q)
      BY <1>1 DEF vars, auditVars, RecordInv, ConnInv, ActorSet, InTx
    <2> QED
      BY <1>1, <2>1 DEF vars, auditVars, RecordInv, AuditTypeOK
  <1>2. CASE AuditNext
    <2>1. PICK r \in Requests : AuditStep(r)
      BY <1>2 DEF AuditNext
    <2>2. ASSUME NEW q \in Requests
          PROVE  Recorded(call'[q], pc'[q], tx'[q], pending'[q], ActorSet(q)')
      <3>1. CASE q = r
        BY <2>1, <3>1, RecordedStep
      <3>2. CASE q # r
        BY <2>1, <3>2, OthersStay, OthersRecorded, AuditStepOf
           DEF RecordInv, StepOf
      <3> QED
        BY <3>1, <3>2
    <2> QED
      BY <2>1, <2>2, RecordedStep, ConnStep DEF RecordInv
  <1> QED
    BY <1>1, <1>2

(* The invariant holds from the start and is kept.                         *)
THEOREM AuditRecords == AuditSpec => [](TypeOK /\ RowInv /\ AuthorityInv /\ RecordInv)
  <1>1. AuditInit => RecordInv
    <2>1. AuditInit => AuditTypeOK /\ ConnInv
      BY PoolAssumption
         DEF AuditInit, AuthorityInit, Init, StoreInit, AuditTypeOK, ConnInv,
             InTx, NoTx
    <2> QED
      BY <2>1, EmptyTyping
         DEF AuditInit, AuthorityInit, Init, StoreInit, RecordInv, Recorded,
             InsideTx, NoTx
  <1>2. TypeOK /\ RowInv /\ TypeOK' /\ RecordInv
          /\ [AuditNext]_<<vars, held, offered, auditVars>> => RecordInv'
    BY NextRecords
  <1>3. AuditSpec => [](TypeOK /\ RowInv /\ AuthorityInv)
    BY AuditRefines, AuthorityInvariance, PTL
  <1> QED
    BY <1>1, <1>2, <1>3, PTL DEF AuditSpec

(* No actor stays behind on a pooled connection, whichever transactions    *)
(* have run on it and however they ended (SetAuditContext).                *)
THEOREM ActorsLeaveWithTheirTransaction == AuditSpec => []NoActorLeftBehind
  <1>1. TypeOK /\ RecordInv => NoActorLeftBehind
    <2> SUFFICES ASSUME TypeOK, RecordInv,
                        NEW k \in Connections, setting[k] # NoUser
                 PROVE  \E r \in Requests : /\ InTx(r) /\ conn[r] = k
                                            /\ setting[k] = call[r].user
      BY DEF NoActorLeftBehind
    <2>1. PICK r \in Requests : conn[r] = k
      BY DEF RecordInv, ConnInv
    <2>2. conn[r] # 0 /\ InTx(r)
      BY <2>1 DEF RecordInv, ConnInv, Connections
    <2>3. pc[r] \in InsideTx
      BY <2>2 DEF TypeOK, InTx
    <2>4. ActorSet(r) = call[r].user
      BY <2>3 DEF RecordInv, Recorded
    <2> QED
      BY <2>1, <2>2, <2>4 DEF ActorSet
  <1> QED
    BY <1>1, AuditRecords, PTL

(* What a step adds to the trail is what one committing request has had    *)
(* recorded.                                                               *)
LEMMA TrailStep ==
  ASSUME TypeOK, RowInv, TypeOK', RecordInv,
         [AuditNext]_<<vars, held, offered, auditVars>>
  PROVE  \/ trail' = trail
         \/ \E r \in Requests : /\ AuditStep(r) /\ Commit(r) /\ Publish(r)
                                /\ pc[r] = "commit" /\ trail' = trail \cup pending[r]
  <1>1. CASE UNCHANGED <<vars, held, offered, auditVars>>
    BY <1>1 DEF auditVars
  <1>2. CASE AuditNext
    <2>1. PICK r \in Requests : AuditStep(r)
      BY <1>2 DEF AuditNext
    <2> QED
      BY <2>1, AuditShape
         DEF auditVars, SetAuditContext, Discard, Publish, Records, Fires, Commit
  <1> QED
    BY <1>1, <1>2

(* The trail only grows, with each commit by rows signed with the user who *)
(* asked for what has been committed, on whichever connection it ran.      *)
THEOREM TrailIsSigned == AuditSpec => CommitsSigned
  <1> DEFINE Signed ==
        /\ trail \subseteq trail'
        /\ trail' # trail =>
             \E r \in Requests : /\ pc[r] = "commit"
                                 /\ \A a \in trail' \ trail : a.actor = call[r].user
  <1>1. TypeOK /\ RowInv /\ TypeOK' /\ RecordInv
          /\ [AuditNext]_<<vars, held, offered, auditVars>> => [Signed]_trail
    <2> SUFFICES ASSUME TypeOK, RowInv, TypeOK', RecordInv,
                        [AuditNext]_<<vars, held, offered, auditVars>>,
                        trail' # trail
                 PROVE  Signed
      OBVIOUS
    <2>1. PICK r \in Requests : pc[r] = "commit" /\ trail' = trail \cup pending[r]
      BY TrailStep
    <2>2. \A a \in pending[r] : a.actor = call[r].user
      BY DEF RecordInv, Recorded
    <2> QED
      BY <2>1, <2>2
  <1> QED
    BY <1>1, AuditRecords, PTL DEF AuditSpec, CommitsSigned

(* A founding is recorded together with the admin it enrolls: both rows    *)
(* are published by one commit.                                            *)
THEOREM FoundingsRecorded == AuditSpec => []FoundedWithAdmin
  <1>1. AuditInit => FoundedWithAdmin
    BY DEF AuditInit, FoundedWithAdmin
  <1>2. FoundedWithAdmin /\ TypeOK /\ RowInv /\ TypeOK' /\ RecordInv
          /\ [AuditNext]_<<vars, held, offered, auditVars>> => FoundedWithAdmin'
    <2> SUFFICES ASSUME FoundedWithAdmin, TypeOK, RowInv, TypeOK', RecordInv,
                        [AuditNext]_<<vars, held, offered, auditVars>>
                 PROVE  FoundedWithAdmin'
      OBVIOUS
    <2>1. CASE trail' = trail
      BY <2>1 DEF FoundedWithAdmin
    <2>2. ASSUME NEW r \in Requests, pc[r] = "commit",
                 trail' = trail \cup pending[r]
          PROVE  FoundedWithAdmin'
      <3> SUFFICES ASSUME NEW a \in pending[r], a.table = "groups", a.op = "INSERT"
                   PROVE  \E b \in pending[r] :
                            /\ b.xact = a.xact /\ b.op = "INSERT"
                            /\ b.table = "memberships"
                            /\ \E g \in a.new, m \in b.new :
                                 /\ m.group = g.id /\ m.user = a.actor
                                 /\ ActiveAdmin(m)
        BY <2>2 DEF FoundedWithAdmin
      <3>1. Recorded(call[r], pc[r], tx[r], pending[r], ActorSet(r))
        BY DEF RecordInv
      <3>2. a.old = {} /\ a.new = tx[r].gIns /\ a.old = tx[r].gDel
            /\ a.new # {} /\ a.actor = call[r].user
        BY <3>1 DEF Recorded, Describes, Operation
      <3>3. PICK g \in tx[r].gIns, id \in Ids :
              /\ tx[r].mDel = {}
              /\ tx[r].mIns = {CreatorRow(call[r].user, g, id)}
        BY <2>2, <3>1, <3>2 DEF Recorded
      <3>4. PICK b \in pending[r] : b.table = "memberships"
        BY <3>1, <3>3 DEF Recorded
      <3>5. /\ b.xact = a.xact /\ b.new = {CreatorRow(call[r].user, g, id)}
            /\ b.op = "INSERT"
        BY <3>1, <3>3, <3>4 DEF Recorded, Describes, Operation
      <3> DEFINE m == CreatorRow(call[r].user, g, id)
      <3>6. g \in a.new /\ m \in b.new
        BY <3>2, <3>5
      <3>7. m.group = g.id /\ m.user = a.actor /\ ActiveAdmin(m)
        BY <3>2 DEF CreatorRow, ActiveAdmin
      <3> HIDE DEF m
      <3> QED
        BY <3>4, <3>5, <3>6, <3>7
    <2> QED
      BY <2>1, <2>2, TrailStep
  <1> QED
    BY <1>1, <1>2, AuditRecords, PTL DEF AuditSpec

-----------------------------------------------------------------------------
(* The trail replays.  A row is locked from the moment a trigger numbers   *)
(* its change until the commit publishes it, so of two audit rows about    *)
(* the same record the one published later has the higher identifier.      *)

(* The changes of one transaction to one table are about one record.       *)
OneRecord(r) ==
  /\ \A x, y \in tx[r].gDel \cup tx[r].gIns : x.id = y.id
  /\ \A x, y \in tx[r].mDel \cup tx[r].mIns : x.id = y.id

Same(a, b) ==
  a.table = b.table /\ \E x \in a.old \cup a.new, y \in b.old \cup b.new : x.id = y.id

Numbered ==
  /\ \A a \in trail : a.id <= auditSeq
  /\ \A a, b \in trail : a.id = b.id => a = b
  /\ \A r \in Requests : \A a \in pending[r] :
       /\ a.id <= auditSeq
       /\ \A b \in trail : a.id # b.id /\ (Same(a, b) => b.id < a.id)
       /\ \A q \in Requests : \A b \in pending[q] :
            a.id = b.id => q = r /\ a = b

CommittedRow(table, id) == IF table = "groups" THEN GroupById(id) ELSE MemberById(id)

(* The last audit row about a record has left what is committed.           *)
Current(table, id) ==
  \/ About(trail, table, id) = {} /\ CommittedRow(table, id) = Found(table, id)
  \/ \E a \in About(trail, table, id) :
       /\ \A b \in About(trail, table, id) : b.id <= a.id
       /\ a.new = CommittedRow(table, id)

Replays(a) ==
  \A x \in a.old \cup a.new : a.old = Version(Before(a), a.table, x.id)

ReplayInv ==
  /\ \A r \in Requests : OneRecord(r)
  /\ Numbered
  /\ \A table \in {"groups", "memberships"} : \A id : Current(table, id)
  /\ \A a \in trail : Replays(a)

(* Two open transactions are never about the same record.                  *)
LEMMA RecordsApart ==
  ASSUME RowInv, NEW q \in Requests, NEW r \in Requests, q # r
  PROVE  /\ \A x \in tx[q].mDel \cup tx[q].mIns, y \in tx[r].mDel \cup tx[r].mIns :
              x.id # y.id
         /\ \A x \in tx[q].gDel \cup tx[q].gIns, y \in tx[r].gDel \cup tx[r].gIns :
              x.id # y.id
  <1>1. RowsInv /\ ApartInv(q, r) /\ ApartInv(r, q) /\ TableInv
        /\ PendingInv(q) /\ PendingInv(r)
    BY DEF RowInv, RowsInv
  <1>2. ASSUME NEW x \in tx[q].mDel \cup tx[q].mIns,
               NEW y \in tx[r].mDel \cup tx[r].mIns, x.id = y.id
        PROVE  FALSE
    <2>1. Clash(x, y) /\ Clash(y, x)
      BY <1>2 DEF Clash
    <2>2. CASE x \in tx[q].mDel /\ y \in tx[r].mDel
      BY <1>1, <2>1, <2>2 DEF PendingInv, TableInv, UniqueMemberships, ApartInv
    <2>3. CASE x \in tx[q].mDel /\ y \in tx[r].mIns
      <3>1. x \in tx[r].mDel
        BY <1>1, <2>1, <2>3, PendingMeetsReplaced DEF PendingInv
      <3> QED
        BY <1>1, <2>3, <3>1 DEF ApartInv
    <2>4. CASE x \in tx[q].mIns /\ y \in tx[r].mDel
      <3>1. y \in tx[q].mDel
        BY <1>1, <2>1, <2>4, PendingMeetsReplaced DEF PendingInv
      <3> QED
        BY <1>1, <2>4, <3>1 DEF ApartInv
    <2>5. CASE x \in tx[q].mIns /\ y \in tx[r].mIns
      BY <1>1, <2>1, <2>5 DEF ApartInv
    <2> QED
      BY <1>2, <2>2, <2>3, <2>4, <2>5
  <1>3. ASSUME NEW x \in tx[q].gDel \cup tx[q].gIns,
               NEW y \in tx[r].gDel \cup tx[r].gIns, x.id = y.id
        PROVE  FALSE
    <2>1. GroupClash(x, y) /\ GroupClash(y, x)
      BY <1>3 DEF GroupClash
    <2>2. CASE x \in tx[q].gDel /\ y \in tx[r].gDel
      BY <1>1, <2>1, <2>2 DEF PendingInv, TableInv, UniqueGroups, ApartInv
    <2>3. CASE x \in tx[q].gDel /\ y \in tx[r].gIns
      <3>1. x \in tx[r].gDel
        BY <1>1, <2>1, <2>3, PendingGroupMeetsReplaced DEF PendingInv
      <3> QED
        BY <1>1, <2>3, <3>1 DEF ApartInv
    <2>4. CASE x \in tx[q].gIns /\ y \in tx[r].gDel
      <3>1. y \in tx[q].gDel
        BY <1>1, <2>1, <2>4, PendingGroupMeetsReplaced DEF PendingInv
      <3> QED
        BY <1>1, <2>4, <3>1 DEF ApartInv
    <2>5. CASE x \in tx[q].gIns /\ y \in tx[r].gIns
      BY <1>1, <2>1, <2>5 DEF ApartInv
    <2> QED
      BY <1>3, <2>2, <2>3, <2>4, <2>5
  <1> QED
    BY <1>2, <1>3

(* What a commit does to the record it is about: the rows replaced are all *)
(* there was of it, the rows inserted all there is.                        *)
LEMMA CommittedChange ==
  ASSUME RowInv, NEW r \in Requests, OneRecord(r), Commit(r)
  PROVE  /\ \A x \in tx[r].mDel \cup tx[r].mIns :
              MemberById(x.id) = tx[r].mDel /\ MemberById(x.id)' = tx[r].mIns
         /\ \A x \in tx[r].gDel \cup tx[r].gIns :
              GroupById(x.id) = tx[r].gDel /\ GroupById(x.id)' = tx[r].gIns
         /\ \A id : (\A x \in tx[r].mDel \cup tx[r].mIns : x.id # id)
                       => MemberById(id)' = MemberById(id)
         /\ \A id : (\A x \in tx[r].gDel \cup tx[r].gIns : x.id # id)
                       => GroupById(id)' = GroupById(id)
  <1>1. /\ RowsInv /\ TableInv /\ PendingInv(r)
        /\ members' = (members \ tx[r].mDel) \cup tx[r].mIns
        /\ groups' = (groups \ tx[r].gDel) \cup tx[r].gIns
    BY DEF RowInv, RowsInv, Commit
  <1>2. ASSUME NEW x \in tx[r].mDel \cup tx[r].mIns, NEW m \in members, m.id = x.id
        PROVE  m \in tx[r].mDel
    <2>1. CASE x \in tx[r].mIns
      BY <1>1, <1>2, <2>1, PendingMeetsReplaced DEF Clash
    <2>2. CASE x \in tx[r].mDel
      BY <1>1, <1>2, <2>2 DEF PendingInv, TableInv, UniqueMemberships, Clash
    <2> QED
      BY <2>1, <2>2
  <1>3. ASSUME NEW x \in tx[r].gDel \cup tx[r].gIns, NEW g \in groups, g.id = x.id
        PROVE  g \in tx[r].gDel
    <2>1. CASE x \in tx[r].gIns
      BY <1>1, <1>3, <2>1, PendingGroupMeetsReplaced DEF GroupClash
    <2>2. CASE x \in tx[r].gDel
      BY <1>1, <1>3, <2>2 DEF PendingInv, TableInv, UniqueGroups, GroupClash
    <2> QED
      BY <2>1, <2>2
  <1>4. ASSUME NEW x \in tx[r].mDel \cup tx[r].mIns
        PROVE  /\ {m \in members : m.id = x.id} = tx[r].mDel
               /\ {m \in members' : m.id = x.id} = tx[r].mIns
    BY <1>1, <1>2 DEF OneRecord, PendingInv
  <1>5. ASSUME NEW x \in tx[r].gDel \cup tx[r].gIns
        PROVE  /\ {g \in groups : g.id = x.id} = tx[r].gDel
               /\ {g \in groups' : g.id = x.id} = tx[r].gIns
    BY <1>1, <1>3 DEF OneRecord, PendingInv
  <1> QED
    BY <1>1, <1>4, <1>5 DEF MemberById, GroupById

(* Only a commit that publishes changes the tables.                        *)
LEMMA TablesKept ==
  ASSUME TypeOK, NEW r \in Requests, AuditStep(r), ~(Commit(r) /\ Publish(r))
  PROVE  UNCHANGED <<groups, members>>
  <1>1. CASE Fail(r)
    BY <1>1 DEF Fail, Answer, End
  <1>2. CASE ~Fail(r) /\ Commit(r)
    BY <1>2 DEF AuditStep, Commit, Receive, ReadGroup, Finish, Begin, MembershipStep,
                GroupStep, LoadInvitation, LoadMembership, AuthorizeInvite,
                AuthorizePromote, AuthorizeDemote, AuthorizeRemove, CountAdmins,
                InsertInvitation, UpdateMembership, DeleteMembership,
                AuthorizeSubgroup, AuthorizeUpdate, AuthorizeArchive,
                ValidateName, ProbeHandle, InsertGroup, EnrollCreator,
                UpdateGroup, CountAfterUpdate, At
  <1> QED
    BY <1>1, <1>2, AuditStepOf, TablesStay DEF StepOf

(* A transaction goes on about one record in each table.                   *)
LEMMA OneRecordStep ==
  ASSUME TypeOK, RowInv, TypeOK', NEW r \in Requests, StepOf(r),
         \A q \in Requests : OneRecord(q)
  PROVE  \A q \in Requests : OneRecord(q)'
  <1> SUFFICES ASSUME NEW q \in Requests PROVE OneRecord(q)'
    OBVIOUS
  <1>1. CASE q # r
    <2>1. tx'[q] = tx[q] /\ OneRecord(q)
      BY <1>1, OthersStay DEF StepOf
    <2> QED
      BY <2>1 DEF OneRecord
  <1>2. CASE q = r
    <2>1. CASE Updates(r)
      <3>1. PICK m \in MemberById(call[r].mid) :
              tx'[r].mDel = {m} /\ tx'[r].mIns = {Updated(call[r].op, m)}
        BY <2>1 DEF Updates
      <3>2. m \in MembershipRow /\ call[r].op \in {"accept", "promote", "demote"}
        BY <2>1, Unmoved DEF MemberById, Updates, At
      <3>3. Updated(call[r].op, m).id = m.id
        BY <3>2, UpdatedType
      <3> QED
        BY <1>2, <2>1, <3>1, <3>3 DEF OneRecord, Updates
    <2>2. CASE Alters(r)
      <3>1. PICK g \in GroupById(call[r].gid) :
              tx'[r].gDel = {g} /\ tx'[r].gIns = {Changed(call[r], g)}
        BY <2>2 DEF Alters
      <3>2. g \in GroupRow /\ call[r].op \in {"update", "archive", "unarchive"}
        BY <2>2, Unmoved DEF GroupById, Alters, At
      <3>3. Changed(call[r], g).id = g.id
        BY <3>2 DEF Changed, GroupRow
      <3> QED
        BY <1>2, <2>2, <3>1, <3>3 DEF OneRecord, Alters
    <2>3. CASE Clean(r)
      BY <1>2, <2>3 DEF Clean, OneRecord
    <2>4. CASE Invites(r) \/ Deletes(r) \/ Founds(r)
      BY <1>2, <2>4 DEF Invites, Deletes, Founds, MemberById, OneRecord
    <2>5. CASE Enrolls(r)
      BY <1>2, <2>5 DEF Enrolls, OneRecord
    <2> QED
      BY <2>1, <2>2, <2>3, <2>4, <2>5, StatementShape DEF StepOf, Statement
  <1> QED
    BY <1>1, <1>2

(* The last of the rows about a record gives its version.                  *)
LEMMA VersionOf ==
  ASSUME NEW as, as \subseteq AuditRow, \A a, b \in as : a.id = b.id => a = b,
         NEW table, NEW id, NEW a \in About(as, table, id),
         \A b \in About(as, table, id) : b.id <= a.id
  PROVE  Version(as, table, id) = a.new
  <1> DEFINE about == About(as, table, id)
             c     == CHOOSE z \in about : \A b \in about : b.id <= z.id
  <1>1. c \in about /\ \A b \in about : b.id <= c.id
    OBVIOUS
  <1>2. about \subseteq as /\ a \in about
    BY DEF About
  <1>3. a.id \in Int /\ c.id \in Int
    <2> HIDE DEF about, c
    <2>1. a \in AuditRow /\ c \in AuditRow
      BY <1>1, <1>2
    <2> QED
      BY <2>1 DEF AuditRow, Ids
  <1>4. c = a
    <2> HIDE DEF about, c
    <2>1. a.id <= c.id /\ c.id <= a.id
      BY <1>1, <1>2 DEF about
    <2>2. a.id = c.id
      BY <1>3, <2>1
    <2> QED
      BY <1>1, <1>2, <2>2
  <1> QED
    BY <1>2, <1>4 DEF Version

(* Two open transactions have recorded nothing about the same record.      *)
LEMMA NeverSame ==
  ASSUME RowInv, RecordInv, NEW q \in Requests, NEW r \in Requests, q # r,
         NEW a \in pending[q], NEW b \in pending[r]
  PROVE  ~Same(a, b)
  <1>1. Describes(a, tx[q]) /\ Describes(b, tx[r])
    BY DEF RecordInv, Recorded
  <1> QED
    BY <1>1, RecordsApart DEF Describes, Same

(* Identifiers stay in the order of the changes.                           *)
LEMMA NumberedStep ==
  ASSUME TypeOK, RowInv, TypeOK', RecordInv, Numbered, NEW r \in Requests,
         AuditStep(r)
  PROVE  Numbered'
  <1>0. AuditTypeOK
    BY DEF RecordInv
  <1>1. CASE UNCHANGED <<trail, pending, auditSeq>>
    BY <1>1 DEF Numbered, Same
  <1>2. CASE Discard(r)
    <2>1. \A q \in Requests : pending'[q] \subseteq pending[q]
      BY <1>0, <1>2 DEF AuditTypeOK, Discard
    <2> QED
      BY <1>2, <2>1 DEF Numbered, Discard, Same
  <1>3. CASE Publish(r)
    <2>1. /\ trail' = trail \cup pending[r] /\ auditSeq' = auditSeq
          /\ pending'[r] = {}
          /\ \A q \in Requests : q # r => pending'[q] = pending[q]
      BY <1>0, <1>3 DEF AuditTypeOK, Publish
    <2>2. ASSUME NEW q \in Requests, NEW a \in pending'[q], NEW b \in trail'
          PROVE  a.id # b.id /\ (Same(a, b) => b.id < a.id)
      <3>1. q # r /\ a \in pending[q]
        BY <2>1
      <3>2. b \in pending[r] => ~Same(a, b) /\ a.id # b.id
        BY <3>1, NeverSame DEF Numbered
      <3> QED
        BY <2>1, <3>1, <3>2 DEF Numbered
    <2>3. \A a \in trail' : a.id <= auditSeq'
      BY <2>1 DEF Numbered
    <2>4. \A a, b \in trail' : a.id = b.id => a = b
      BY <2>1 DEF Numbered
    <2>5. ASSUME NEW q \in Requests, NEW a \in pending'[q]
          PROVE  /\ a.id <= auditSeq'
                 /\ \A p \in Requests : \A b \in pending'[p] :
                      a.id = b.id => p = q /\ a = b
      BY <2>1 DEF Numbered
    <2> QED
      BY <2>2, <2>3, <2>4, <2>5 DEF Numbered, Same
  <1>4. CASE \E t : /\ pending' = [pending EXCEPT ![r] = @ \cup {t}]
                    /\ t.id = auditSeq + 1
                    /\ auditSeq' = auditSeq + 1 /\ UNCHANGED trail
    <2>1. PICK t : /\ pending' = [pending EXCEPT ![r] = @ \cup {t}]
                   /\ t.id = auditSeq + 1
                   /\ auditSeq' = auditSeq + 1 /\ UNCHANGED trail
      BY <1>4
    <2>2. \A q \in Requests : \A a \in pending'[q] :
            a \in pending[q] \/ (q = r /\ a = t)
      BY <1>0, <2>1 DEF AuditTypeOK
    <2>3. /\ auditSeq \in Nat /\ \A a \in trail : a.id \in Nat
          /\ \A q \in Requests : \A a \in pending[q] : a.id \in Nat
      BY <1>0 DEF AuditTypeOK, AuditRow, Ids
    <2>4. /\ \A a \in trail : a.id < t.id /\ a.id <= auditSeq'
          /\ \A q \in Requests : \A a \in pending[q] : a.id < t.id /\ a.id <= auditSeq'
          /\ t.id <= auditSeq' /\ t.id \in Nat
      BY <2>1, <2>3 DEF Numbered
    <2>5. ASSUME NEW q \in Requests, NEW a \in pending'[q]
          PROVE  /\ a.id <= auditSeq'
                 /\ \A b \in trail : a.id # b.id /\ (Same(a, b) => b.id < a.id)
                 /\ \A p \in Requests : \A b \in pending'[p] :
                      a.id = b.id => p = q /\ a = b
      <3>1. a.id <= auditSeq'
        BY <2>2, <2>4
      <3>2. ASSUME NEW b \in trail
            PROVE  a.id # b.id /\ (Same(a, b) => b.id < a.id)
        BY <2>2, <2>3, <2>4 DEF Numbered
      <3>3. ASSUME NEW p \in Requests, NEW b \in pending'[p], a.id = b.id
            PROVE  p = q /\ a = b
        BY <2>2, <2>3, <2>4, <3>3 DEF Numbered
      <3> QED
        BY <3>1, <3>2, <3>3
    <2>6. /\ \A a \in trail' : a.id <= auditSeq'
          /\ \A a, b \in trail' : a.id = b.id => a = b
      BY <2>1, <2>4 DEF Numbered
    <2> QED
      BY <2>1, <2>5, <2>6 DEF Numbered, Same
  <1>5. Records(r) => \E t : /\ pending' = [pending EXCEPT ![r] = @ \cup {t}]
                             /\ t.id = auditSeq + 1
                             /\ auditSeq' = auditSeq + 1 /\ UNCHANGED trail
    <2> SUFFICES ASSUME NEW c, Fires(r, c)
                 PROVE  \E t : /\ pending' = [pending EXCEPT ![r] = @ \cup {t}]
                               /\ t.id = auditSeq + 1
                               /\ auditSeq' = auditSeq + 1 /\ UNCHANGED trail
      BY DEF Records
    <2>1. TriggerRow(r, c).id = auditSeq + 1
      BY DEF TriggerRow
    <2> QED
      BY <2>1 DEF Fires
  <1> QED
    BY <1>1, <1>2, <1>3, <1>4, <1>5, AuditShape DEF auditVars, SetAuditContext

(* What a commit publishes is what becomes of the record, and no record is *)
(* changed of which it publishes nothing.                                  *)
LEMMA PublishedChange ==
  ASSUME RowInv, RecordInv, NEW r \in Requests, OneRecord(r), Commit(r)
  PROVE  /\ \A a \in pending[r] : \A x \in a.old \cup a.new :
              /\ CommittedRow(a.table, x.id) = a.old
              /\ CommittedRow(a.table, x.id)' = a.new
              /\ a.table \in {"groups", "memberships"}
              /\ \A b \in About(pending[r], a.table, x.id) : b = a
         /\ \A table \in {"groups", "memberships"} : \A id :
              About(pending[r], table, id) = {} =>
                CommittedRow(table, id)' = CommittedRow(table, id)
  <1>1. Recorded(call[r], pc[r], tx[r], pending[r], ActorSet(r))
    BY DEF RecordInv
  <1>2. ASSUME NEW a \in pending[r], NEW x \in a.old \cup a.new
        PROVE  /\ CommittedRow(a.table, x.id) = a.old
               /\ CommittedRow(a.table, x.id)' = a.new
               /\ a.table \in {"groups", "memberships"}
               /\ \A b \in About(pending[r], a.table, x.id) : b = a
    <2>1. Describes(a, tx[r]) /\ \A b \in pending[r] : a.table = b.table => a = b
      BY <1>1 DEF Recorded
    <2>2. \A b \in About(pending[r], a.table, x.id) : b = a
      BY <2>1 DEF About
    <2>3. CASE a.table = "groups" /\ a.old = tx[r].gDel /\ a.new = tx[r].gIns
      BY <2>2, <2>3, CommittedChange DEF CommittedRow
    <2>4. CASE a.table = "memberships" /\ a.old = tx[r].mDel /\ a.new = tx[r].mIns
      BY <2>2, <2>4, CommittedChange DEF CommittedRow
    <2> QED
      BY <2>1, <2>3, <2>4 DEF Describes
  <1>3. ASSUME NEW id, About(pending[r], "groups", id) = {}
        PROVE  CommittedRow("groups", id)' = CommittedRow("groups", id)
    <2>1. \A x \in tx[r].gDel \cup tx[r].gIns : x.id # id
      <3> SUFFICES ASSUME NEW x \in tx[r].gDel \cup tx[r].gIns, x.id = id
                   PROVE  FALSE
        OBVIOUS
      <3>1. PICK a \in pending[r] : a.table = "groups" /\ Describes(a, tx[r])
        BY <1>1 DEF Recorded
      <3>2. a \in About(pending[r], "groups", id)
        BY <3>1 DEF Describes, About
      <3> QED
        BY <1>3, <3>2
    <2> QED
      BY <2>1, CommittedChange DEF CommittedRow
  <1>4. ASSUME NEW id, About(pending[r], "memberships", id) = {}
        PROVE  CommittedRow("memberships", id)' = CommittedRow("memberships", id)
    <2>1. \A x \in tx[r].mDel \cup tx[r].mIns : x.id # id
      <3> SUFFICES ASSUME NEW x \in tx[r].mDel \cup tx[r].mIns, x.id = id
                   PROVE  FALSE
        OBVIOUS
      <3>1. PICK a \in pending[r] : a.table = "memberships" /\ Describes(a, tx[r])
        BY <1>1 DEF Recorded
      <3>2. a \in About(pending[r], "memberships", id)
        BY <3>1 DEF Describes, About
      <3> QED
        BY <1>4, <3>2
    <2> QED
      BY <2>1, CommittedChange DEF CommittedRow
  <1> QED
    BY <1>2, <1>3, <1>4

(* A step publishes, or leaves the trail and the tables as they are.       *)
LEMMA TrailAndTables ==
  ASSUME TypeOK, RowInv, TypeOK', RecordInv, NEW r \in Requests, AuditStep(r)
  PROVE  \/ UNCHANGED <<trail, groups, members>>
         \/ Commit(r) /\ Publish(r) /\ trail' = trail \cup pending[r]
  <1>1. Publish(r) => trail' = trail \cup pending[r]
    BY DEF Publish
  <1>2. trail' = trail \/ (Commit(r) /\ Publish(r))
    BY AuditShape DEF auditVars, SetAuditContext, Discard, Records, Fires
  <1> QED
    BY <1>1, <1>2, TablesKept

(* The last audit row about a record stays what is committed of it.        *)
LEMMA CurrentStep ==
  ASSUME TypeOK, RowInv, TypeOK', RecordInv, ReplayInv, NEW r \in Requests,
         AuditStep(r), NEW table \in {"groups", "memberships"}, NEW id
  PROVE  Current(table, id)'
  <1>1. CASE UNCHANGED <<trail, groups, members>>
    <2>1. Current(table, id)
      BY DEF ReplayInv
    <2>2. CommittedRow(table, id)' = CommittedRow(table, id)
      BY <1>1 DEF CommittedRow, GroupById, MemberById
    <2> QED
      BY <1>1, <2>1, <2>2 DEF Current
  <1>2. CASE Commit(r) /\ Publish(r) /\ trail' = trail \cup pending[r]
    <2>1. About(trail', table, id) = About(trail, table, id)
                                       \cup About(pending[r], table, id)
      BY <1>2 DEF About
    <2>2. Current(table, id) /\ OneRecord(r) /\ Numbered
      BY DEF ReplayInv
    <2>3. CASE About(pending[r], table, id) = {}
      <3>1. /\ About(trail', table, id) = About(trail, table, id)
            /\ CommittedRow(table, id)' = CommittedRow(table, id)
        BY <1>2, <2>1, <2>2, <2>3, PublishedChange
      <3> QED
        BY <2>2, <3>1 DEF Current
    <2>4. ASSUME NEW a \in About(pending[r], table, id)
          PROVE  Current(table, id)'
      <3>1. PICK x \in a.old \cup a.new : x.id = id
        BY DEF About
      <3>2. a \in pending[r] /\ a.table = table
        BY DEF About
      <3>3. /\ a.new = CommittedRow(table, id)'
            /\ \A b \in About(pending[r], table, id) : b = a
        BY <1>2, <2>2, <3>1, <3>2, PublishedChange
      <3>4. \A b \in About(trail, table, id) : b.id < a.id
        BY <2>2, <3>1, <3>2 DEF About, Numbered, Same
      <3>5. a.id \in Nat /\ \A b \in trail : b.id \in Nat
        BY <3>2 DEF RecordInv, AuditTypeOK, AuditRow, Ids
      <3>6. \A b \in About(trail', table, id) : b.id <= a.id
        BY <2>1, <3>3, <3>4, <3>5 DEF About
      <3> QED
        BY <2>1, <3>3, <3>6 DEF Current
    <2> QED
      BY <2>3, <2>4
  <1> QED
    BY <1>1, <1>2, TrailAndTables

(* A version is a matter of the rows about the record alone.               *)
LEMMA SameVersion ==
  ASSUME NEW s, NEW t, NEW table, NEW id, About(s, table, id) = About(t, table, id)
  PROVE  Version(s, table, id) = Version(t, table, id)
  BY DEF Version

(* The trail's last version of a record is what is committed of it.        *)
LEMMA CurrentVersion ==
  ASSUME AuditTypeOK, Numbered, NEW table, NEW id, Current(table, id)
  PROVE  Version(trail, table, id) = CommittedRow(table, id)
  <1>1. trail \subseteq AuditRow /\ \A a, b \in trail : a.id = b.id => a = b
    BY DEF AuditTypeOK, Numbered
  <1>2. CASE About(trail, table, id) = {} /\ CommittedRow(table, id) = Found(table, id)
    BY <1>2 DEF Version
  <1>3. CASE \E a \in About(trail, table, id) :
               /\ \A b \in About(trail, table, id) : b.id <= a.id
               /\ a.new = CommittedRow(table, id)
    BY <1>1, <1>3, VersionOf
  <1> QED
    BY <1>2, <1>3 DEF Current

(* Every row of the trail goes on from what its predecessor has left.      *)
LEMMA ReplaysStep ==
  ASSUME TypeOK, RowInv, TypeOK', RecordInv, ReplayInv, NEW r \in Requests,
         AuditStep(r), NEW a \in trail', NEW x \in a.old \cup a.new
  PROVE  a.old = Version(Before(a)', a.table, x.id)
  <1>1. CASE UNCHANGED <<trail, groups, members>>
    BY <1>1 DEF ReplayInv, Replays, Before
  <1>2. CASE Commit(r) /\ Publish(r) /\ trail' = trail \cup pending[r]
    <2>1. OneRecord(r) /\ Numbered /\ AuditTypeOK
      BY DEF ReplayInv, RecordInv
    <2>2. /\ \A b \in trail : b.id \in Nat
          /\ \A b \in pending[r] : b.id \in Nat
      BY <2>1 DEF AuditTypeOK, AuditRow, Ids
    <2>3. \A b \in pending[r], c \in trail : Same(b, c) => c.id < b.id
      BY <2>1 DEF Numbered
    <2>4. CASE a \in trail
      <3>1. ASSUME NEW b \in pending[r], b.table = a.table,
                   \E y \in b.old \cup b.new : y.id = x.id
            PROVE  ~(b.id < a.id)
        BY <2>2, <2>3, <2>4, <3>1 DEF Same
      <3>2. About(Before(a)', a.table, x.id) = About(Before(a), a.table, x.id)
        BY <1>2, <3>1 DEF About, Before
      <3>3. a.old = Version(Before(a), a.table, x.id)
        BY <2>4 DEF ReplayInv, Replays
      <3> QED
        BY <3>2, <3>3, SameVersion
    <2>5. CASE a \in pending[r]
      <3>1. /\ CommittedRow(a.table, x.id) = a.old
            /\ a.table \in {"groups", "memberships"}
            /\ \A b \in About(pending[r], a.table, x.id) : b = a
        BY <1>2, <2>1, <2>5, PublishedChange
      <3>2. \A b \in About(trail, a.table, x.id) : b.id < a.id
        BY <2>3, <2>5 DEF About, Same
      <3>3. ~(a.id < a.id)
        BY <2>2, <2>5
      <3>4. About(Before(a)', a.table, x.id) = About(trail, a.table, x.id)
        BY <1>2, <3>1, <3>2, <3>3 DEF About, Before
      <3>5. Version(trail, a.table, x.id) = a.old
        BY <2>1, <3>1, CurrentVersion DEF ReplayInv
      <3> QED
        BY <3>4, <3>5, SameVersion
    <2> QED
      BY <1>2, <2>4, <2>5
  <1> QED
    BY <1>1, <1>2, TrailAndTables

(* All of it is kept by every step.                                        *)
LEMMA NextReplays ==
  ASSUME TypeOK, RowInv, TypeOK', RecordInv, ReplayInv,
         [AuditNext]_<<vars, held, offered, auditVars>>
  PROVE  ReplayInv'
  <1>1. CASE UNCHANGED <<vars, held, offered, auditVars>>
    <2>1. UNCHANGED <<tx, trail, pending, auditSeq, groups, members>>
      BY <1>1 DEF vars, auditVars
    <2>2. \A r \in Requests : OneRecord(r)'
      BY <2>1 DEF ReplayInv, OneRecord
    <2>3. Numbered'
      BY <2>1 DEF ReplayInv, Numbered, Same
    <2>4. ASSUME NEW table \in {"groups", "memberships"}, NEW id
          PROVE  Current(table, id)'
      <3>1. CommittedRow(table, id)' = CommittedRow(table, id)
        BY <2>1 DEF CommittedRow, GroupById, MemberById
      <3>2. Current(table, id)
        BY DEF ReplayInv
      <3> QED
        BY <2>1, <3>1, <3>2 DEF Current
    <2>5. \A a \in trail' : Replays(a)'
      BY <2>1 DEF ReplayInv, Replays, Before
    <2> QED
      BY <2>2, <2>3, <2>4, <2>5 DEF ReplayInv
  <1>2. CASE AuditNext
    <2>1. PICK r \in Requests : AuditStep(r)
      BY <1>2 DEF AuditNext
    <2>2. \A q \in Requests : OneRecord(q)'
      BY <2>1, OneRecordStep, AuditStepOf DEF ReplayInv
    <2>3. Numbered'
      BY <2>1, NumberedStep DEF ReplayInv
    <2>4. \A table \in {"groups", "memberships"} : \A id : Current(table, id)'
      BY <2>1, CurrentStep
    <2>5. \A a \in trail' : Replays(a)'
      BY <2>1, ReplaysStep DEF Replays
    <2> QED
      BY <2>2, <2>3, <2>4, <2>5 DEF ReplayInv
  <1> QED
    BY <1>1, <1>2

(* Numbers, versions and tables fit together in every state.               *)
THEOREM TrailInvariance == AuditSpec => []ReplayInv
  <1>1. AuditInit => ReplayInv
    <2> SUFFICES ASSUME AuditInit PROVE ReplayInv
      OBVIOUS
    <2>1. /\ \A r \in Requests : tx[r] = NoTx /\ pending[r] = {}
          /\ trail = {} /\ groups = SeedGroups /\ members = SeedMembers
      BY DEF AuditInit, AuthorityInit, Init, StoreInit
    <2>2. \A r \in Requests : OneRecord(r)
      BY <2>1 DEF OneRecord, NoTx
    <2>3. \A table \in {"groups", "memberships"} : \A id : Current(table, id)
      BY <2>1 DEF Current, About, CommittedRow, Found, GroupById, MemberById
    <2> QED
      BY <2>1, <2>2, <2>3 DEF ReplayInv, Numbered
  <1>2. TypeOK /\ RowInv /\ TypeOK' /\ RecordInv /\ ReplayInv
          /\ [AuditNext]_<<vars, held, offered, auditVars>> => ReplayInv'
    BY NextReplays
  <1> QED
    BY <1>1, <1>2, AuditRecords, PTL DEF AuditSpec

(* The trail replays to the tables: each row starts from what the one      *)
(* before it about the same record left, and the last left what is         *)
(* committed, whatever was numbered meanwhile and rolled back.             *)
THEOREM TrailReplays == AuditSpec => []AuditReplays
  <1>1. RecordInv /\ ReplayInv => AuditReplays
    <2> SUFFICES ASSUME RecordInv, ReplayInv PROVE AuditReplays
      OBVIOUS
    <2>1. \A table \in {"groups", "memberships"} : \A id :
            Version(trail, table, id) = CommittedRow(table, id)
      BY CurrentVersion DEF RecordInv, ReplayInv
    <2> QED
      BY <2>1 DEF AuditReplays, ReplayInv, Replays, CommittedRow
  <1> QED
    BY <1>1, AuditRecords, TrailInvariance, PTL

-----------------------------------------------------------------------------
(* The trail shows why each change was allowed.  A version that gave a     *)
(* right may be gone from the table when the change it allowed is made;    *)
(* but it was committed, hence recorded, before the trigger numbered that  *)
(* change, because the handler had read it.                                *)
Deciding == {"count", "name", "probe", "begin", "exec"}

Lost == {id \in Nat : Gone(id)}

(* as shows what c was allowed for, when the memberships are ms and those  *)
(* with an identifier in lost have gone.                                   *)
Backed(c, as, ms, lost) ==
  /\ c.op \in {"invite", "subgroup"} => Backing(as, c.user, c.gid, Roles) # {}
  /\ c.op \in {"update", "archive", "unarchive"} =>
       Backing(as, c.user, c.gid, {"admin"}) # {}
  /\ c.op \in RowOps =>
       \/ c.mid \in lost
       \/ \E m \in ms : m.id = c.mid /\ Backing(as, c.user, m.group, {"admin"}) # {}
  /\ c.op = "accept" =>
       c.mid \in lost \/ \E m \in ms : m.id = c.mid /\ m.user = c.user

Preceding(a, as) == {b \in as : b.id < a.id}

EntitledInv ==
  /\ \A r \in Requests : pc[r] \in Deciding => Backed(call[r], trail, members, Lost)
  /\ \A r \in Requests : \A a \in pending[r] :
       Entitled(a, Preceding(a, trail \cup pending[r]))
  /\ \A a \in trail : Entitled(a, Preceding(a, trail))

(* More versions back no less.                                             *)
LEMMA BackingGrows ==
  ASSUME NEW as, NEW bs, as \subseteq bs
  PROVE  \A u, g, roles : Backing(as, u, g, roles) \subseteq Backing(bs, u, g, roles)
  <1>1. MembersIn(as) \subseteq MembersIn(bs)
    BY DEF MembersIn
  <1> QED
    BY <1>1 DEF Backing

(* A change once shown to be allowed stays so as the trail grows.          *)
LEMMA EntitledGrows ==
  ASSUME NEW as, NEW bs, as \subseteq bs, NEW a, Entitled(a, as)
  PROVE  Entitled(a, bs)
  <1> SUFFICES ASSUME NEW x \in a.old \cup a.new
               PROVE  CASE a.table = "groups" /\ a.op = "INSERT" ->
                             x.parent # 0 => Backing(bs, a.actor, x.parent, Roles) # {}
                        [] a.table = "groups" /\ a.op = "UPDATE" ->
                             Backing(bs, a.actor, x.id, {"admin"}) # {}
                        [] a.table = "memberships" /\ a.op = "INSERT" ->
                             \/ Backing(bs, a.actor, x.group, Roles) # {}
                             \/ x.user = a.actor /\ \E b \in bs :
                                  /\ b.xact = a.xact /\ b.table = "groups"
                                  /\ b.op = "INSERT"
                                  /\ \E g \in b.new : g.id = x.group
                        [] OTHER ->
                             \/ Backing(bs, a.actor, x.group, {"admin"}) # {}
                             \/ /\ a.op = "UPDATE"
                                /\ \A y \in a.new : x.user = a.actor /\ y.role = x.role
    BY DEF Entitled
  <1>0. \A u, g, roles : Backing(as, u, g, roles) # {} => Backing(bs, u, g, roles) # {}
    BY BackingGrows
  <1>1. CASE a.table = "groups" /\ a.op = "INSERT"
    BY <1>0, <1>1 DEF Entitled
  <1>2. CASE a.table = "groups" /\ a.op = "UPDATE"
    <2>1. Backing(as, a.actor, x.id, {"admin"}) # {}
      BY <1>2 DEF Entitled
    <2>2. Backing(bs, a.actor, x.id, {"admin"}) # {}
      BY <1>0, <2>1
    <2> QED
      BY <1>2, <2>2
  <1>3. CASE a.table = "memberships" /\ a.op = "INSERT"
    <2>1. \/ Backing(as, a.actor, x.group, Roles) # {}
          \/ x.user = a.actor /\ \E b \in as :
               /\ b.xact = a.xact /\ b.table = "groups" /\ b.op = "INSERT"
               /\ \E g \in b.new : g.id = x.group
      BY <1>3 DEF Entitled
    <2>2. Backing(as, a.actor, x.group, Roles) # {}
            => Backing(bs, a.actor, x.group, Roles) # {}
      BY <1>0
    <2> QED
      BY <1>3, <2>1, <2>2
  <1>4. CASE /\ ~(a.table = "groups" /\ a.op \in {"INSERT", "UPDATE"})
             /\ ~(a.table = "memberships" /\ a.op = "INSERT")
    BY <1>0, <1>4 DEF Entitled
  <1> QED
    BY <1>1, <1>2, <1>3, <1>4

(* So does a call that is being served, as memberships change and go.      *)
LEMMA BackedGrows ==
  ASSUME NEW as, NEW bs, as \subseteq bs, NEW lost, NEW gone, lost \subseteq gone,
         NEW ms, NEW ns,
         \A m \in ms : \/ \E n \in ns : /\ n.id = m.id /\ n.group = m.group
                                        /\ n.user = m.user
                       \/ m.id \in gone,
         NEW c, Backed(c, as, ms, lost)
  PROVE  Backed(c, bs, ns, gone)
  <1>0. \A u, g, roles : Backing(as, u, g, roles) # {} => Backing(bs, u, g, roles) # {}
    BY BackingGrows
  <1>1. CASE c.op \notin RowOps \cup {"accept"}
    BY <1>0, <1>1 DEF Backed
  <1>2. CASE c.op \in RowOps
    <2>1. CASE c.mid \in lost
      BY <1>2, <2>1 DEF Backed, RowOps
    <2>2. ASSUME NEW m \in ms, m.id = c.mid,
                 Backing(as, c.user, m.group, {"admin"}) # {}
          PROVE  Backed(c, bs, ns, gone)
      <3>1. Backing(bs, c.user, m.group, {"admin"}) # {}
        BY <1>0, <2>2
      <3>2. CASE m.id \in gone
        BY <1>2, <2>2, <3>2 DEF Backed, RowOps
      <3>3. ASSUME NEW n \in ns, n.id = m.id, n.group = m.group
            PROVE  Backed(c, bs, ns, gone)
        BY <1>2, <2>2, <3>1, <3>3 DEF Backed, RowOps
      <3> QED
        BY <3>2, <3>3
    <2> QED
      BY <1>2, <2>1, <2>2 DEF Backed
  <1>3. CASE c.op = "accept"
    BY <1>3 DEF Backed, RowOps
  <1> QED
    BY <1>1, <1>2, <1>3

(* What is committed has been found or recorded.                           *)
LEMMA MembersRecorded ==
  ASSUME ReplayInv
  PROVE  members \subseteq MembersIn(trail)
  <1> SUFFICES ASSUME NEW m \in members PROVE m \in MembersIn(trail)
    OBVIOUS
  <1>1. Current("memberships", m.id) /\ m \in CommittedRow("memberships", m.id)
    BY DEF ReplayInv, CommittedRow, MemberById
  <1>2. CASE CommittedRow("memberships", m.id) = Found("memberships", m.id)
    BY <1>1, <1>2 DEF Found, MembersIn
  <1>3. ASSUME NEW a \in About(trail, "memberships", m.id),
               a.new = CommittedRow("memberships", m.id)
        PROVE  m \in MembersIn(trail)
    BY <1>1, <1>3 DEF About, MembersIn
  <1> QED
    BY <1>1, <1>2, <1>3 DEF Current

(* An authorization context rests on a recorded version.                   *)
LEMMA ContextBacked ==
  ASSUME TypeOK, ReplayInv, NEW r \in Requests
  PROVE  /\ ContextOf(r).member \/ ContextOf(r).admin
              => Backing(trail, call[r].user, TargetGroup(r), Roles) # {}
         /\ ContextOf(r).admin
              => Backing(trail, call[r].user, TargetGroup(r), {"admin"}) # {}
  <1>1. /\ members \subseteq MembersIn(trail)
        /\ \A m \in members : m.role \in Roles
    BY MembersRecorded DEF TypeOK, MembershipRow
  <1> QED
    BY <1>1 DEF ContextOf, AuthContext, MembersOf, Backing, ActiveAdmin

(* Rows that are gone stay so.                                             *)
LEMMA LostGrows ==
  ASSUME TypeOK, RowInv, TypeOK', NEW r \in Requests, StepOf(r)
  PROVE  Lost \subseteq Lost'
  BY GoneStays DEF Lost

(* How a handler comes to a step after its checks.                         *)
LEMMA DecidingShape ==
  ASSUME TypeOK, NEW r \in Requests, StepOf(r), pc'[r] \in Deciding
  PROVE  \/ pc[r] \in Deciding /\ call'[r] = call[r]
         \/ call'[r].op = "create"
         \/ LoadInvitation(r) /\ ~(\E code : Answer(r, code)) /\ call'[r] = call[r]
         \/ /\ pc[r] = "member" /\ call'[r] = call[r] /\ ~(\E code : Answer(r, code))
            /\ \/ AuthorizeInvite(r) \/ AuthorizePromote(r) \/ AuthorizeDemote(r)
               \/ AuthorizeRemove(r) \/ AuthorizeSubgroup(r) \/ AuthorizeUpdate(r)
               \/ AuthorizeArchive(r)
  <1>1. \A code : ~End(r, code) /\ ~Answer(r, code)
    BY EndTx DEF Answer, Deciding
  <1>2. \A del, ins, next : /\ ~WriteMember(r, del, ins)
                            /\ next \in {"enroll", "commit"}
                                 => ~WriteGroup(r, del, ins, next)
    BY MemberWriteTx, GroupWriteTx DEF Deciding
  <1>3. \A s : Proceed(r, s) => call'[r] = call[r]
    BY DEF Proceed
  <1>4. CASE Receive(r)
    <2>1. PICK c \in Calls : call' = [call EXCEPT ![r] = c] /\ Goto(r, FirstStep(c.op))
      BY <1>4 DEF Receive
    <2>2. call'[r] = c /\ pc'[r] = FirstStep(c.op) /\ c.op \in Ops
      BY <2>1, CallTyping DEF TypeOK, Goto
    <2> QED
      BY <2>2 DEF Deciding, FirstStep, Ops, MemberOps, GroupOps
  <1>5. CASE Finish(r) \/ Fail(r) \/ Commit(r) \/ ReadGroup(r) \/ LoadMembership(r)
               \/ CountAfterUpdate(r)
    BY <1>1, <1>5 DEF Finish, Fail, Commit, ReadGroup, LoadMembership,
                      CountAfterUpdate, Proceed, Goto, TypeOK, Deciding
  <1>6. CASE Begin(r) \/ CountAdmins(r) \/ ValidateName(r) \/ ProbeHandle(r)
    BY <1>1, <1>3, <1>6 DEF Begin, CountAdmins, ValidateName, ProbeHandle, At, Deciding
  <1>7. CASE LoadInvitation(r)
    BY <1>1, <1>3, <1>7 DEF LoadInvitation, Decide
  <1>8. CASE \/ AuthorizeInvite(r) \/ AuthorizePromote(r) \/ AuthorizeDemote(r)
             \/ AuthorizeRemove(r) \/ AuthorizeSubgroup(r) \/ AuthorizeUpdate(r)
             \/ AuthorizeArchive(r)
    <2>1. pc[r] = "member"
      BY <1>8 DEF AuthorizeInvite, AuthorizePromote, AuthorizeDemote,
                  AuthorizeRemove, AuthorizeSubgroup, AuthorizeUpdate,
                  AuthorizeArchive, At
    <2>2. \E s : Decide(r, s)
      BY <1>8 DEF AuthorizeInvite, AuthorizePromote, AuthorizeDemote,
                  AuthorizeRemove, AuthorizeSubgroup, AuthorizeUpdate,
                  AuthorizeArchive
    <2> QED
      BY <1>1, <1>3, <1>8, <2>1, <2>2 DEF Decide
  <1>9. CASE \/ InsertInvitation(r) \/ UpdateMembership(r) \/ DeleteMembership(r)
             \/ InsertGroup(r) \/ EnrollCreator(r) \/ UpdateGroup(r)
    BY <1>1, <1>2, <1>9 DEF InsertInvitation, UpdateMembership, DeleteMembership,
                            InsertGroup, EnrollCreator, UpdateGroup
  <1> QED
    BY <1>4, <1>5, <1>6, <1>7, <1>8, <1>9
       DEF StepOf, HandlerStep, MembershipStep, GroupStep

(* Whatever decided for a call was on record then.                         *)
LEMMA BackedOwn ==
  ASSUME TypeOK, RowInv, TypeOK', AuthorityInv, ReplayInv, EntitledInv,
         NEW r \in Requests, StepOf(r), pc'[r] \in Deciding
  PROVE  Backed(call'[r], trail, members, Lost)
  <1> DEFINE c  == call[r]
             ac == ContextOf(r)
  <1>1. CASE pc[r] \in Deciding /\ call'[r] = c
    BY <1>1 DEF EntitledInv
  <1>2. CASE call'[r].op = "create"
    BY <1>2 DEF Backed, RowOps
  <1>3. CASE LoadInvitation(r) /\ ~(\E code : Answer(r, code)) /\ call'[r] = c
    <2>1. PICK m \in MemberById(c.mid) : Decide(r, AcceptCheck(c, m))
      BY <1>3 DEF LoadInvitation
    <2>2. m.user = c.user
      BY <1>3, <2>1 DEF Decide, AcceptCheck, Steps
    <2>3. c.op = "accept"
      BY <1>3 DEF LoadInvitation, At
    <2> QED
      BY <1>3, <2>1, <2>2, <2>3 DEF Backed, RowOps, MemberById
  <1>4. CASE /\ pc[r] = "member" /\ call'[r] = c /\ ~(\E code : Answer(r, code))
             /\ \/ AuthorizeInvite(r) \/ AuthorizePromote(r) \/ AuthorizeDemote(r)
                \/ AuthorizeRemove(r) \/ AuthorizeSubgroup(r) \/ AuthorizeUpdate(r)
                \/ AuthorizeArchive(r)
    <2>1. \A s : Decide(r, s) => s \in Steps
      BY <1>4 DEF Decide
    <2>2. "403" \notin Steps
      BY DEF Steps
    <2>3. KnownInv(r)
      BY DEF AuthorityInv
    <2>4. c.op \in NamedOps => TargetGroup(r) = c.gid
      BY <2>3 DEF KnownInv, Known, NamedOps, RowOps, TargetGroup
    <2>5. CASE AuthorizeInvite(r) \/ AuthorizeSubgroup(r)
      <3>1. c.op \in {"invite", "subgroup"} /\ (ac.admin \/ ac.member)
        BY <2>1, <2>2, <2>5
           DEF AuthorizeInvite, AuthorizeSubgroup, InviteCheck, SubgroupCheck,
               CanInviteMembers, CanCreateSubgroups, At
      <3>2. Backing(trail, c.user, c.gid, Roles) # {}
        BY <2>4, <3>1, ContextBacked DEF NamedOps
      <3> QED
        BY <1>4, <3>1, <3>2 DEF Backed, RowOps
    <2>6. CASE AuthorizeUpdate(r) \/ AuthorizeArchive(r)
      <3>1. c.op \in {"update", "archive", "unarchive"} /\ ac.admin
        BY <2>1, <2>2, <2>6
           DEF AuthorizeUpdate, AuthorizeArchive, UpdateCheck, ArchiveCheck,
               CanUpdateGroup, CanArchiveGroup, At
      <3>2. Backing(trail, c.user, c.gid, {"admin"}) # {}
        BY <2>4, <3>1, ContextBacked DEF NamedOps
      <3> QED
        BY <1>4, <3>1, <3>2 DEF Backed, RowOps
    <2>7. CASE AuthorizePromote(r) \/ AuthorizeDemote(r) \/ AuthorizeRemove(r)
      <3>1. c.op \in RowOps /\ ac.admin
        BY <2>1, <2>2, <2>7
           DEF AuthorizePromote, AuthorizeDemote, AuthorizeRemove, PromoteCheck,
               DemoteCheck, RemoveCheck, CanManageMembers, At, RowOps
      <3>2. Backing(trail, c.user, TargetGroup(r), {"admin"}) # {}
        BY <3>1, ContextBacked
      <3>3. Present(c.mid, seen[r].gid) \/ Gone(c.mid)
        BY <1>4, <2>3, <3>1 DEF KnownInv, Known
      <3>4. CASE Present(c.mid, seen[r].gid)
        <4>1. PICK m \in members : m.id = c.mid /\ m.group = seen[r].gid
          BY <3>4 DEF Present
        <4>2. TargetGroup(r) = m.group
          BY <3>1, <3>4, <4>1, TargetFound
        <4> QED
          BY <1>4, <3>1, <3>2, <4>1, <4>2 DEF Backed, RowOps
      <3>5. CASE Gone(c.mid)
        <4>1. c.mid \in Nat
          <5>1. c \in Calls \cup {NoCall}
            BY DEF TypeOK
          <5>2. NoCall.mid = 0
            BY DEF NoCall
          <5> HIDE DEF c
          <5> QED
            BY <5>1, <5>2, CallTyping DEF CallRecord
        <4>2. c.mid \in Lost
          BY <3>5, <4>1 DEF Lost
        <4> QED
          BY <1>4, <3>1, <4>2 DEF Backed, RowOps
      <3> QED
        BY <3>3, <3>4, <3>5
    <2> QED
      BY <1>4, <2>5, <2>6, <2>7
  <1> QED
    BY <1>1, <1>2, <1>3, <1>4, DecidingShape

(* And is on record as long as it is served.                               *)
LEMMA BackedStep ==
  ASSUME TypeOK, RowInv, TypeOK', AuthorityInv, ReplayInv, EntitledInv,
         NEW r \in Requests, StepOf(r), trail \subseteq trail',
         NEW q \in Requests, pc'[q] \in Deciding
  PROVE  Backed(call'[q], trail', members', Lost')
  <1>1. Backed(call'[q], trail, members, Lost)
    <2>1. CASE q = r
      BY <2>1, BackedOwn
    <2>2. CASE q # r
      BY <2>2, OthersStay DEF StepOf, EntitledInv
    <2> QED
      BY <2>1, <2>2
  <1>2. \A m \in members : \/ \E n \in members' : /\ n.id = m.id /\ n.group = m.group
                                                  /\ n.user = m.user
                           \/ m.id \in Lost'
    <2> SUFFICES ASSUME NEW m \in members, Gone(m.id)'
                 PROVE  m.id \in Lost'
      BY RowStays DEF AuthorityInv
    <2>1. m.id \in Nat
      BY DEF TypeOK, MembershipRow, Ids
    <2> QED
      BY <2>1 DEF Lost
  <1>3. Lost \subseteq Lost'
    BY LostGrows
  <1> QED
    BY <1>1, <1>2, <1>3, BackedGrows

(* What a trigger numbers is allowed by what has been recorded before.     *)
LEMMA RowEntitled ==
  ASSUME TypeOK, RowInv, TypeOK', RecordInv, EntitledInv,
         NEW r \in Requests, Statement(r), NEW w, w = tx'[r],
         NEW c \in {GroupChange(w), MemberChange(w)}, c.old \cup c.new # {},
         c = MemberChange(w) => ~Founds(r) /\ ~Alters(r),
         c = GroupChange(w) => Founds(r) \/ Alters(r)
  PROVE  Entitled(TriggerRow(r, c), trail \cup pending[r])
  <1> DEFINE t == TriggerRow(r, c)
             S == trail \cup pending[r]
             u == call[r].user
  <1>1. /\ t.table = c.table /\ t.old = c.old /\ t.new = c.new
        /\ t.op = Operation(c) /\ t.actor = ActorSet(r)
        /\ \A a \in pending[r] : t.xact = a.xact
    <2>1. \A a \in pending[r] : t.xact = a.xact
      BY TriggerRowType
    <2> QED
      BY <2>1 DEF TriggerRow
  <1>2. /\ Recorded(call[r], pc[r], tx[r], pending[r], ActorSet(r))
        /\ pc[r] \in InsideTx
    BY DEF RecordInv, Statement, Invites, Updates, Deletes, Founds, Enrolls,
           Alters, At, InsideTx
  <1>3. t.actor = u
    BY <1>1, <1>2 DEF Recorded
  <1>4. pc[r] = "exec" => Backed(call[r], trail, members, Lost)
    BY DEF EntitledInv, Deciding
  <1>5. \A g, roles : Backing(trail, u, g, roles) # {} => Backing(S, u, g, roles) # {}
    BY BackingGrows
  <1> HIDE DEF t, S, u
  <1>6. CASE Invites(r)
    <2>1. /\ t.table = "memberships" /\ t.op = "INSERT" /\ t.old = {}
          /\ t.new = {Invitation(call[r], memberSeq + 1)}
      BY <1>1, <1>6 DEF Invites, MemberChange, GroupChange, Operation
    <2>2. Backing(S, u, call[r].gid, Roles) # {}
      BY <1>4, <1>5, <1>6 DEF Invites, At, Backed, u
    <2>3. Invitation(call[r], memberSeq + 1).group = call[r].gid
      BY DEF Invitation
    <2> QED
      BY <1>3, <2>1, <2>2, <2>3 DEF Entitled, t, S
  <1>7. CASE Updates(r) \/ Deletes(r)
    <2>1. /\ t.table = "memberships" /\ t.op # "INSERT"
          /\ t.old = w.mDel /\ t.new = w.mIns
      BY <1>1, <1>7 DEF Updates, Deletes, MemberChange, GroupChange, Operation
    <2>2. PICK m \in MemberById(call[r].mid) : t.old = {m}
      <3>1. CASE Updates(r)
        BY <2>1, <3>1 DEF Updates
      <3>2. CASE Deletes(r)
        <4>1. w.mDel # {} /\ w.mDel \subseteq MemberById(call[r].mid)
          BY <1>1, <2>1, <3>2 DEF Deletes
        <4>2. \A m, n \in MemberById(call[r].mid) : m = n
          BY DEF MemberById, RowInv, RowsInv, TableInv, UniqueMemberships, Clash
        <4> QED
          BY <2>1, <4>1, <4>2
      <3> QED
        BY <1>7, <3>1, <3>2
    <2>3. /\ m \in members /\ m.id = call[r].mid /\ m \in MembershipRow
          /\ \A n \in members : n.id = call[r].mid => n = m
      BY DEF MemberById, RowInv, RowsInv, TableInv, UniqueMemberships, Clash, TypeOK
    <2>4. call[r].mid \notin Lost
      BY <2>3 DEF Lost, Gone
    <2>5. CASE call[r].op \in RowOps
      <3>1. pc[r] = "exec"
        BY <1>7 DEF Updates, Deletes, At
      <3>2. Backing(S, u, m.group, {"admin"}) # {}
        BY <1>4, <1>5, <2>3, <2>4, <2>5, <3>1 DEF Backed, u
      <3>3. \A x \in t.old \cup t.new : x.group = m.group
        <4>1. CASE Updates(r)
          <5>1. t.new = {Updated(call[r].op, m)}
            BY <2>1, <2>2, <4>1 DEF Updates
          <5>2. call[r].op \in {"accept", "promote", "demote"}
            BY <4>1 DEF Updates, At
          <5>3. Updated(call[r].op, m).group = m.group
            BY <2>3, <5>2, UpdatedType
          <5> QED
            BY <2>2, <5>1, <5>3
        <4>2. CASE Deletes(r)
          BY <2>1, <2>2, <4>2 DEF Deletes
        <4> QED
          BY <1>7, <4>1, <4>2
      <3> QED
        BY <1>3, <2>1, <3>2, <3>3 DEF Entitled, t, S
    <2>6. CASE call[r].op \notin RowOps
      <3>1. Updates(r) /\ call[r].op = "accept"
        BY <1>7, <2>6 DEF Updates, Deletes, At, RowOps
      <3>2. t.new = {Updated("accept", m)}
        BY <2>1, <2>2, <3>1 DEF Updates
      <3>3. m.user = u
        BY <1>4, <2>3, <2>4, <3>1 DEF Updates, At, Backed, u
      <3>4. /\ Updated("accept", m).user = m.user
            /\ Updated("accept", m).role = m.role
        BY <2>3 DEF Updated, MembershipRow
      <3>5. t.op = "UPDATE"
        BY <1>1, <2>2, <3>2 DEF Operation
      <3> QED
        BY <1>3, <2>1, <2>2, <3>2, <3>3, <3>4, <3>5 DEF Entitled, t, S
    <2> QED
      BY <2>5, <2>6
  <1>8. CASE Founds(r)
    <2>1. /\ t.table = "groups" /\ t.op = "INSERT" /\ t.old = {}
          /\ t.new = {NewGroup(r, groupSeq + 1)}
      BY <1>1, <1>8 DEF Founds, MemberChange, GroupChange, Operation
    <2>2. call[r].op = "subgroup" => Backing(S, u, call[r].gid, Roles) # {}
      BY <1>4, <1>5, <1>8 DEF Founds, At, Backed, u
    <2>3. NewGroup(r, groupSeq + 1).parent
            = IF call[r].op = "subgroup" THEN call[r].gid ELSE 0
      BY DEF NewGroup
    <2> QED
      BY <1>3, <2>1, <2>2, <2>3 DEF Entitled, t, S
  <1>9. CASE Alters(r)
    <2>1. PICK g \in GroupById(call[r].gid) :
            w.gDel = {g} /\ w.gIns = {Changed(call[r], g)}
      BY <1>9 DEF Alters
    <2>2. /\ t.table = "groups" /\ t.op = "UPDATE" /\ t.old = {g}
          /\ t.new = {Changed(call[r], g)}
      BY <1>1, <1>9, <2>1 DEF Alters, MemberChange, GroupChange, Operation
    <2>3. g.id = call[r].gid /\ Changed(call[r], g).id = call[r].gid
      <3>1. g \in GroupRow /\ g.id = call[r].gid
        BY <2>1 DEF GroupById, TypeOK
      <3> QED
        BY <1>9, <3>1 DEF Alters, At, Changed, GroupRow
    <2>4. Backing(S, u, call[r].gid, {"admin"}) # {}
      BY <1>4, <1>5, <1>9 DEF Alters, At, Backed, u
    <2> QED
      BY <1>3, <2>2, <2>3, <2>4 DEF Entitled, t, S
  <1>10. CASE Enrolls(r)
    <2>1. PICK g \in tx[r].gIns :
            /\ tx[r].gIns = {g} /\ tx[r].gDel = {} /\ w.mDel = {}
            /\ w.mIns = {CreatorRow(u, g, memberSeq + 1)}
      BY <1>10 DEF Enrolls, u
    <2>2. /\ t.table = "memberships" /\ t.op = "INSERT" /\ t.old = {}
          /\ t.new = {CreatorRow(u, g, memberSeq + 1)}
      BY <1>1, <1>10, <2>1
         DEF Enrolls, Founds, Alters, At, MemberChange, GroupChange, Operation
    <2>3. PICK b \in pending[r] : b.table = "groups"
      BY <1>2, <2>1 DEF Recorded
    <2>4. b.op = "INSERT" /\ b.new = {g} /\ b.xact = t.xact /\ b \in S
      BY <1>1, <1>2, <2>1, <2>3 DEF Recorded, Describes, Operation, S
    <2>5. /\ CreatorRow(u, g, memberSeq + 1).group = g.id
          /\ CreatorRow(u, g, memberSeq + 1).user = u
      BY DEF CreatorRow
    <2> QED
      BY <1>3, <2>2, <2>3, <2>4, <2>5 DEF Entitled, t, S
  <1> QED
    BY <1>6, <1>7, <1>8, <1>9, <1>10 DEF Statement, t, S

(* What has been shown to be allowed stays so, and what is added is.       *)
LEMMA EntitledRows ==
  ASSUME TypeOK, RowInv, TypeOK', RecordInv, ReplayInv, EntitledInv,
         NEW r \in Requests, AuditStep(r)
  PROVE  /\ \A q \in Requests : \A a \in pending'[q] :
              Entitled(a, Preceding(a, trail' \cup pending'[q]))
         /\ \A a \in trail' : Entitled(a, Preceding(a, trail'))
  <1> DEFINE Fits(q, a) == Entitled(a, Preceding(a, trail' \cup pending'[q]))
             After(a)   == Entitled(a, Preceding(a, trail'))
  <1> SUFFICES /\ \A q \in Requests : \A a \in pending'[q] : Fits(q, a)
               /\ \A a \in trail' : After(a)
    OBVIOUS
  <1>1. /\ \A q \in Requests : \A a \in pending[q] :
             Entitled(a, Preceding(a, trail \cup pending[q]))
        /\ \A a \in trail : Entitled(a, Preceding(a, trail))
        /\ AuditTypeOK /\ Numbered
    BY DEF EntitledInv, RecordInv, ReplayInv
  <1>2. ASSUME NEW S, NEW T, S \subseteq T, NEW a, Entitled(a, Preceding(a, S))
        PROVE  Entitled(a, Preceding(a, T))
    <2>1. Preceding(a, S) \subseteq Preceding(a, T)
      BY <1>2 DEF Preceding
    <2> QED
      BY <1>2, <2>1, EntitledGrows
  <1>3. CASE UNCHANGED <<trail, pending>>
    BY <1>1, <1>3
  <1>4. CASE Discard(r)
    <2>1. /\ trail' = trail /\ pending'[r] = {}
          /\ \A q \in Requests : q # r => pending'[q] = pending[q]
      BY <1>1, <1>4 DEF AuditTypeOK, Discard
    <2> QED
      BY <1>1, <2>1
  <1>5. CASE Publish(r)
    <2>1. /\ trail' = trail \cup pending[r] /\ pending'[r] = {}
          /\ \A q \in Requests : q # r => pending'[q] = pending[q]
      BY <1>1, <1>5 DEF AuditTypeOK, Publish
    <2>2. ASSUME NEW q \in Requests, NEW a \in pending'[q] PROVE Fits(q, a)
      <3>1. q # r /\ a \in pending[q] /\ pending'[q] = pending[q]
        BY <2>1
      <3>2. Entitled(a, Preceding(a, trail \cup pending[q]))
        BY <1>1, <3>1
      <3>3. trail \cup pending[q] \subseteq trail' \cup pending'[q]
        BY <2>1, <3>1
      <3> QED
        BY <1>2, <3>2, <3>3
    <2>3. ASSUME NEW a \in trail' PROVE After(a)
      <3>1. CASE a \in trail
        BY <1>1, <1>2, <2>1, <3>1
      <3>2. CASE a \in pending[r]
        BY <1>1, <2>1, <3>2
      <3> QED
        BY <2>1, <3>1, <3>2
    <2> QED
      BY <2>2, <2>3
  <1>6. CASE Records(r)
    <2>1. PICK c \in {GroupChange(tx'[r]), MemberChange(tx'[r])} :
            /\ Fires(r, c) /\ c.old \cup c.new # {} /\ Statement(r)
            /\ c = MemberChange(tx'[r]) => ~Founds(r) /\ ~Alters(r)
            /\ c = GroupChange(tx'[r]) => Founds(r) \/ Alters(r)
      <3>1. GroupChange(tx'[r]) # MemberChange(tx'[r])
        BY DEF GroupChange, MemberChange
      <3> QED
        BY <1>6, <3>1 DEF Records, GroupChange, MemberChange, Founds, Alters
    <2> DEFINE t == TriggerRow(r, c)
    <2>2. Entitled(t, trail \cup pending[r])
      BY <2>1, RowEntitled
    <2>3. /\ trail' = trail /\ pending'[r] = pending[r] \cup {t}
          /\ \A q \in Requests : q # r => pending'[q] = pending[q]
      BY <1>1, <2>1 DEF Fires, AuditTypeOK
    <2>4. t.id = auditSeq + 1
      BY DEF TriggerRow
    <2> HIDE DEF t
    <2>5. Fits(r, t)
      <3>1. /\ auditSeq \in Nat
            /\ \A b \in trail \cup pending[r] : b.id \in Nat /\ b.id <= auditSeq
        BY <1>1 DEF AuditTypeOK, Numbered, AuditRow, Ids
      <3>2. trail \cup pending[r] \subseteq Preceding(t, trail' \cup pending'[r])
        BY <2>3, <2>4, <3>1 DEF Preceding
      <3> QED
        BY <2>2, <3>2, EntitledGrows
    <2>6. ASSUME NEW q \in Requests, NEW a \in pending[q] PROVE Fits(q, a)
      <3>1. trail \cup pending[q] \subseteq trail' \cup pending'[q]
        BY <2>3
      <3> QED
        BY <1>1, <1>2, <3>1
    <2>7. \A a \in trail' : After(a)
      BY <1>1, <2>3
    <2> HIDE DEF Fits, After
    <2> QED
      BY <2>3, <2>5, <2>6, <2>7
  <1> QED
    BY <1>3, <1>4, <1>5, <1>6, AuditShape DEF auditVars, SetAuditContext

(* Every step keeps all this.                                              *)
LEMMA NextEntitled ==
  ASSUME TypeOK, RowInv, TypeOK', AuthorityInv, RecordInv, ReplayInv, EntitledInv,
         [AuditNext]_<<vars, held, offered, auditVars>>
  PROVE  EntitledInv'
  <1>1. CASE UNCHANGED <<vars, held, offered, auditVars>>
    <2>1. /\ UNCHANGED <<members, memberSeq, tx, pc, call, trail, pending>>
          /\ Lost' = Lost
      BY <1>1 DEF vars, auditVars, Lost, Gone
    <2> QED
      BY <2>1 DEF EntitledInv
  <1>2. CASE AuditNext
    <2>1. PICK r \in Requests : AuditStep(r)
      BY <1>2 DEF AuditNext
    <2>2. trail \subseteq trail'
      BY TrailStep
    <2>3. \A q \in Requests : pc'[q] \in Deciding
                              => Backed(call'[q], trail', members', Lost')
      BY <2>1, <2>2, BackedStep, AuditStepOf
    <2>4. /\ \A q \in Requests : \A a \in pending'[q] :
               Entitled(a, Preceding(a, trail' \cup pending'[q]))
          /\ \A a \in trail' : Entitled(a, Preceding(a, trail'))
      BY <2>1, EntitledRows
    <2> QED
      BY <2>3, <2>4 DEF EntitledInv
  <1> QED
    BY <1>1, <1>2

(* The trail alone shows why each change was allowed: some version of its  *)
(* actor's own membership, recorded earlier, gave the right to make it.    *)
THEOREM TrailEntitles == AuditSpec => []ActorsEntitled
  <1>1. AuditInit => EntitledInv
    BY DEF AuditInit, AuthorityInit, Init, StoreInit, EntitledInv, Deciding
  <1>2. TypeOK /\ RowInv /\ AuthorityInv /\ TypeOK' /\ RecordInv /\ ReplayInv
          /\ EntitledInv /\ [AuditNext]_<<vars, held, offered, auditVars>>
          => EntitledInv'
    BY NextEntitled
  <1>3. EntitledInv => ActorsEntitled
    BY DEF EntitledInv, ActorsEntitled, Preceding, Before
  <1> QED
    BY <1>1, <1>2, <1>3, AuditRecords, TrailInvariance, PTL DEF AuditSpec
=============================================================================
