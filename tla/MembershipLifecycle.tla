------------------------ MODULE MembershipLifecycle ------------------------
(***************************************************************************)
(* What the API promises about a roster, without requests, transactions or *)
(* rows: each user has one standing in each group, and the roster changes  *)
(* by one step of one user's standing at a time.                           *)
(*                                                                         *)
(*      none --invite--> invited --accept--> active --remove--> none       *)
(*                                                                         *)
(* with promote and demote changing the role of an invited or active user, *)
(* and remove also withdrawing an invitation.  An acceptance is never      *)
(* undone except by removal, a removal never except by a new invitation.   *)
(***************************************************************************)
CONSTANTS Users, GroupIds

VARIABLES
  founded,     \* the groups that exist
  standing     \* [GroupIds -> [Users -> Standings]]

lifecycleVars == <<founded, standing>>

NoStanding == [status |-> "none", role |-> "member"]

Standings ==
  {NoStanding} \cup [status : {"invited", "active"}, role : {"admin", "member"}]

Init ==
  /\ founded \subseteq GroupIds
  /\ standing \in [GroupIds -> [Users -> Standings]]
  /\ \A g \in GroupIds \ founded : \A u \in Users : standing[g][u] = NoStanding

Becomes(g, u, s) == standing' = [standing EXCEPT ![g][u] = s]

(* A group is founded together with its first member, an admin. *)
Found(g, u) ==
  /\ g \in GroupIds \ founded
  /\ founded' = founded \cup {g}
  /\ Becomes(g, u, [status |-> "active", role |-> "admin"])

Invite(g, u) ==
  /\ standing[g][u].status = "none"
  /\ \E role \in {"admin", "member"} :
       Becomes(g, u, [status |-> "invited", role |-> role])

Accept(g, u) ==
  /\ standing[g][u].status = "invited"
  /\ Becomes(g, u, [standing[g][u] EXCEPT !.status = "active"])

ChangeRole(g, u, from, to) ==
  /\ standing[g][u].status # "none"
  /\ standing[g][u].role = from
  /\ Becomes(g, u, [standing[g][u] EXCEPT !.role = to])

Remove(g, u) ==
  /\ standing[g][u].status # "none"
  /\ Becomes(g, u, NoStanding)

RosterStep(g, u) ==
  /\ g \in founded
  /\ \/ Invite(g, u) \/ Accept(g, u) \/ Remove(g, u)
     \/ ChangeRole(g, u, "member", "admin")
     \/ ChangeRole(g, u, "admin", "member")
  /\ UNCHANGED founded

Next == \E g \in GroupIds, u \in Users : Found(g, u) \/ RosterStep(g, u)

Lifecycle == Init /\ [][Next]_lifecycleVars
=============================================================================
