------------------------------- MODULE Schema -------------------------------
(***************************************************************************)
(* The rows of the two tables every authorization decision reads: groups   *)
(* (migrations/003_create_groups.sql) and memberships                      *)
(* (migrations/004_create_memberships.sql).  A name, a description and a   *)
(* timestamp are left out; a nullable timestamp is the Boolean "is set".   *)
(***************************************************************************)
EXTENDS Integers

CONSTANTS
  Users,        \* the registered accounts; the code never deletes one
  Flags         \* the permission flags the instance tells apart

(* The eleven permission columns of a group, and those whose default is    *)
(* FALSE in the table and in the COALESCE of the INSERT.                   *)
AllFlags ==
  {"members_can_add_members", "members_can_add_guests",
   "members_can_start_discussions", "members_can_raise_motions",
   "members_can_edit_discussions", "members_can_edit_comments",
   "members_can_delete_comments", "members_can_announce",
   "members_can_create_subgroups", "admins_can_edit_user_content",
   "parent_members_can_see_discussions"}

OffByDefault ==
  {"members_can_edit_discussions", "members_can_announce",
   "members_can_create_subgroups", "admins_can_edit_user_content",
   "parent_members_can_see_discussions"}

ASSUME FlagsAssumption ==
  /\ Flags \subseteq AllFlags
  /\ {"members_can_add_members", "members_can_create_subgroups"} \subseteq Flags

(* The flags of a group whose INSERT names none. *)
DefaultFlags == Flags \ OffByDefault

(* CHECK memberships_role_valid; Role in authorization.go. *)
Roles == {"admin", "member"}

(* BIGSERIAL identifiers start at 1; 0 stands for NULL. *)
Ids == Nat \ {0}

(* One row of memberships: accepted is "accepted_at IS NOT NULL", so a row *)
(* with accepted = FALSE is a pending invitation.                          *)
MembershipRow ==
  [id : Ids, group : Nat, user : Users, role : Roles, accepted : BOOLEAN,
   inviter : Users]

(* One row of groups: parent 0 is NULL, archived is "archived_at IS NOT    *)
(* NULL", flags holds the permission columns that are TRUE.  A handle is   *)
(* the number of its suffix: n stands for "base-n", 0 for "base".          *)
GroupRow ==
  [id : Ids, handle : Nat, parent : Nat, archived : BOOLEAN,
   flags : SUBSET Flags]

(* "role = 'admin' AND accepted_at IS NOT NULL": what the admin counts,    *)
(* the trigger and authCtx.IsAdmin all test.                               *)
ActiveAdmin(m) == m.accepted /\ m.role = "admin"

(* Every group of gs is administered by some row of ms. *)
Administered(gs, ms) ==
  \A g \in gs : \E m \in ms : m.group = g.id /\ ActiveAdmin(m)

(* memberships_unique_user_group and the primary key, as one condition on  *)
(* two rows that are both live.                                            *)
Clash(m, n) == m.id = n.id \/ (m.group = n.group /\ m.user = n.user)

UniqueMemberships(ms) == \A m, n \in ms : Clash(m, n) => m = n

(* groups_handle_key and the primary key of groups. *)
GroupClash(g, h) == g.id = h.id \/ g.handle = h.handle

UniqueGroups(gs) == \A g, h \in gs : GroupClash(g, h) => g = h
=============================================================================
