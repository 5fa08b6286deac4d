----------------------------- MODULE Authority -----------------------------
(***************************************************************************)
(* Were the rights a write was made with ever real?  The handlers decide   *)
(* on rows read in up to three different snapshots and write in a fourth.  *)
(* This module adds to Llmio the history variable held: the rights each    *)
(* request's caller has had in its target group, and what the group and    *)
(* the invitation allowed, at any instant since the call was received.     *)
(* A second one, offered, keeps the flags the parent of a subgroup to be   *)
(* founded has had in that time while it was not archived.                 *)
(***************************************************************************)
EXTENDS Llmio

VARIABLES
  held,      \* [Requests -> SUBSET Rights]
  offered    \* [Requests -> SUBSET SUBSET Flags]

Rights == {"admin", "member", "open", "invites", "subgroups", "invitation"}

(* The groups a call is about: the one it names, or that of the membership *)
(* it names.                                                               *)
TargetOf(c, gs, ms) ==
  {g \in gs : \/ c.gid = g.id
              \/ \E m \in ms : m.id = c.mid /\ m.group = g.id}

(* The rights of a call in one state of the tables. *)
RightsOf(c, gs, ms) ==
  LET target == TargetOf(c, gs, ms)
      own    == {m \in ms : m.user = c.user /\ \E g \in target : g.id = m.group}
  IN  {right \in Rights :
         CASE right = "admin"  -> \E m \in own : ActiveAdmin(m)
           [] right = "member" -> \E m \in own : m.accepted
           [] right = "open"   -> \E g \in target : ~g.archived
           [] right = "invites" ->
                \E g \in target : "members_can_add_members" \in g.flags
           [] right = "subgroups" ->
                \E g \in target : "members_can_create_subgroups" \in g.flags
           [] right = "invitation" ->
                \E m \in own : m.id = c.mid /\ ~m.accepted}

Inherits(c) == c.op = "subgroup" /\ c.inherit

Offer(c, gs) ==
  {g.flags : g \in {h \in gs : Inherits(c) /\ h.id = c.gid /\ ~h.archived}}

HistoryInit ==
  /\ held    = [r \in Requests |-> {}]
  /\ offered = [r \in Requests |-> {}]

Remember ==
  /\ held' = [r \in Requests |->
                IF pc'[r] = "idle" THEN {}
                ELSE held[r] \cup RightsOf(call'[r], groups', members')]
  /\ offered' = [r \in Requests |->
                   IF pc'[r] = "idle" THEN {}
                   ELSE offered[r] \cup Offer(call'[r], groups')]

AuthorityInit == Init /\ HistoryInit

AuthorityNext == Next /\ Remember

AuthoritySpec == AuthorityInit /\ [][AuthorityNext]_<<vars, held, offered>>

-----------------------------------------------------------------------------
(* What the API requires for each kind of write.                           *)
Suffices(c, rights) ==
  CASE c.op \in {"promote", "demote", "remove", "update"} ->
         {"admin", "open"} \subseteq rights
    [] c.op \in {"archive", "unarchive"} -> "admin" \in rights
    [] c.op = "invite" ->
         /\ "open" \in rights
         /\ "admin" \in rights
              \/ (c.role = "member" /\ {"member", "invites"} \subseteq rights)
    [] c.op = "subgroup" ->
         /\ "open" \in rights
         /\ "admin" \in rights \/ {"member", "subgroups"} \subseteq rights
    [] c.op = "accept" -> "invitation" \in rights
    [] c.op = "create" -> TRUE

Writes(r) == tx[r].mDel \cup tx[r].mIns # {} \/ tx[r].gDel \cup tx[r].gIns # {}

(* A write that is about to commit is one its caller was entitled to while *)
(* the call was being served: every right it needs was held at some        *)
(* instant after the call came in, so no decision rests on rights lost     *)
(* before it or never had (those of an invitation not yet accepted).       *)
AuthorityWasHeld ==
  \A r \in Requests :
    pc[r] = "commit" /\ Writes(r) => Suffices(call[r], held[r])

(* A subgroup that inherits is founded with the flags of one version of    *)
(* its parent, which was committed and open at some instant of the call;   *)
(* they may be stale when it commits, but are never a mixture of versions  *)
(* or of the parent's flags and the defaults.                              *)
InheritedFlagsWereOffered ==
  \A r \in Requests :
    Inherits(call[r]) => \A g \in tx[r].gIns : g.flags \in offered[r]
=============================================================================
