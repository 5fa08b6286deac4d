--------------------------- MODULE Authorization ---------------------------
(***************************************************************************)
(* internal/api/authorization.go: what the AuthorizationContext of a user  *)
(* in a group contains and which operations it allows.  The context is     *)
(* built from two separate queries, the group first and the membership     *)
(* later, so its two halves may come from different states of the          *)
(* database; AuthContext takes them as they were read.                     *)
(***************************************************************************)
EXTENDS Schema

(* Mutant: a context built without looking at accepted_at, so that an      *)
(* invitation never accepted carries its role's rights.                    *)
AuthContextIgnoringAcceptance(archived, flags, found) ==
  [archived |-> archived,
   flags    |-> flags,
   member   |-> found # {},
   admin    |-> \E m \in found : m.role = "admin"]

(* What a handler keeps of the group row: whether it was archived and the  *)
(* flags that were on.  found is the set of membership rows the second     *)
(* query returned, at most one.  A pending row makes no member.            *)
AuthContext(archived, flags, found) ==
  [archived |-> archived,
   flags    |-> flags,
   member   |-> \E m \in found : m.accepted,
   admin    |-> \E m \in found : ActiveAdmin(m)]

(* A pending invitation opens nothing. *)
CanViewGroup(ac) == ac.member

CanUpdateGroup(ac) == ac.admin

CanArchiveGroup(ac) == ac.admin

CanManageMembers(ac) == ac.admin

(* Admins bypass the permission flags, members are bound by them. *)
CanInviteMembers(ac) ==
  \/ ac.admin
  \/ ac.member /\ "members_can_add_members" \in ac.flags

CanCreateSubgroups(ac) ==
  \/ ac.admin
  \/ ac.member /\ "members_can_create_subgroups" \in ac.flags
=============================================================================
