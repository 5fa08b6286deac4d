------------------------------ MODULE MCViews ------------------------------
(* Views on a group with a parent, whose roster and parent change. *)
EXTENDS Views, MCLlmio

ParentAndChild ==
  {[OpenGroup EXCEPT !.parent = 2], [OpenGroup EXCEPT !.id = 2, !.handle = 1]}

Rosters ==
  AdminMember \cup {[Row(3, ann, "admin", TRUE) EXCEPT !.group = 2]}

(* The viewer is promoted, removed, invited again and accepts, while the   *)
(* group's parent is archived.                                             *)
ViewedCalls ==
  OnMembers({"promote", "remove"}, {ann}, {2})
    \cup OnMembers({"accept"}, {bob}, {4})
    \cup Invites({ann}, {bob}, {"member"})
    \cup {[c EXCEPT !.gid = 2] : c \in CallsOf({"archive"}, {ann})}

ViewOf(op) == [NoView EXCEPT !.op = op, !.user = bob, !.gid = 1]

ViewsAsked ==
  {ViewOf(op) : op \in {"group", "handle", "groups", "invitations"}}
    \cup {[ViewOf("membership") EXCEPT !.gid = 0, !.mid = i] : i \in {2, 4}}
    \cup {[ViewOf("subgroups") EXCEPT !.gid = 2, !.user = ann],
          [ViewOf("group") EXCEPT !.gid = 2, !.user = ann],
          [ViewOf("handle") EXCEPT !.handle = 1, !.user = ann],
          [ViewOf("group") EXCEPT !.gid = 9],
          [ViewOf("handle") EXCEPT !.handle = 9],
          [ViewOf("memberships") EXCEPT !.status = "pending"]}

(* A view of three queries, while three writers want one row, one key and  *)
(* two connections.                                                        *)
QueuingView == {ViewOf("group")}
=============================================================================
