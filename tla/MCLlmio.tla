------------------------------ MODULE MCLlmio ------------------------------
(***************************************************************************)
(* Instances of Llmio for TLC: the databases the runs start from and the   *)
(* calls their clients make.                                               *)
(***************************************************************************)
EXTENDS Llmio, TLC

CONSTANTS ann, bob, cyd     \* the accounts

AllUsers == {ann, bob, cyd}
TwoUsers == {ann, bob}

GateFlags == {"members_can_add_members", "members_can_create_subgroups"}

-----------------------------------------------------------------------------
(* Databases. *)

OpenGroup == [id |-> 1, handle |-> 0, parent |-> 0, archived |-> FALSE,
              flags |-> {"members_can_add_members"}]

OneGroup == {OpenGroup}

Row(id, user, role, accepted) ==
  [id |-> id, group |-> 1, user |-> user, role |-> role,
   accepted |-> accepted, inviter |-> ann]

OneAdmin    == {Row(1, ann, "admin", TRUE)}
TwoAdmins   == OneAdmin \cup {Row(2, bob, "admin", TRUE)}
AdminMember == OneAdmin \cup {Row(2, bob, "member", TRUE)}
Invited     == OneAdmin \cup {Row(2, bob, "admin", FALSE)}

-----------------------------------------------------------------------------
(* Calls.                                                                  *)

CallsOf(ops, users) ==
  {[NoCall EXCEPT !.op = o, !.user = u, !.gid = 1] : o \in ops, u \in users}

OnMembers(ops, users, ids) ==
  {[c EXCEPT !.mid = i, !.gid = 0] : c \in CallsOf(ops, users), i \in ids}

Invites(users, whom, roles) ==
  {[c EXCEPT !.who = w, !.role = ro] :
     c \in CallsOf({"invite"}, users), w \in whom, ro \in roles}

(* The roster of a group while who may change it changes: a member who may *)
(* invite until the flag is cleared, an admin who changes the role of the  *)
(* invited user or removes them, so that they are invited again under      *)
(* another id, and that user, who may update the group once an admin.      *)
RosterCalls ==
  OnMembers({"promote", "demote", "remove"}, {ann}, {3})
    \cup OnMembers({"accept"}, {cyd}, {3, 4})
    \cup Invites({bob}, {cyd}, {"member"})
    \cup Invites({ann}, {cyd}, {"admin"})
    \cup CallsOf({"archive"}, {ann})
    \cup {[c EXCEPT !.off = {"members_can_add_members"}] :
            c \in CallsOf({"update"}, {cyd})}

(* Founding groups whose handles collide, given or generated, and setting  *)
(* the flags of the parent and archiving it meanwhile.                     *)
Foundations ==
  {[c EXCEPT !.gid = 0, !.handle = h] :
     c \in CallsOf({"create"}, {ann}), h \in {NoHandle, 1}}
    \cup {[c EXCEPT !.handle = NoHandle, !.inherit = i] :
            c \in CallsOf({"subgroup"}, {bob}), i \in BOOLEAN}
    \cup {[c EXCEPT !.gid = 0, !.valid = FALSE] :
            c \in CallsOf({"create"}, {ann})}

Settings ==
  {[c EXCEPT !.off = {"members_can_add_members"}] :
     c \in CallsOf({"update"}, {ann})}
    \cup {[c EXCEPT !.on = {"members_can_create_subgroups"}] :
            c \in CallsOf({"update"}, {bob})}
    \cup {[c EXCEPT !.valid = FALSE] : c \in CallsOf({"update"}, {ann})}
    \cup CallsOf({"archive", "unarchive"}, {ann})

(* What else leaves rows in the audit trail: a role that changes and a     *)
(* membership that goes while its owner acts.                              *)
GroupCalls ==
  Foundations \cup Settings
    \cup OnMembers({"promote", "remove"}, {ann}, {2})

(* Everything that can take a group its last admin, founding, and writes   *)
(* of the group meanwhile (a PATCH that names nothing, the restoring of a  *)
(* group that is not archived), which leave the row as it was.             *)
SerialCalls ==
  OnMembers({"demote", "remove"}, {ann, bob}, {1, 2})
    \cup OnMembers({"promote"}, {ann}, {2, 3})
    \cup OnMembers({"accept"}, {bob}, {3})
    \cup Invites({ann}, {bob, NoUser}, Roles)
    \cup Foundations
    \cup CallsOf({"update", "unarchive"}, {ann})
    \cup {[c EXCEPT !.gid = 9] : c \in CallsOf({"archive"}, {ann})}

(* Calls that queue on one row, one key and the pool.                      *)
QueueCalls ==
  OnMembers({"remove"}, {ann}, {2}) \cup Invites({ann}, {bob}, {"member"})

(* Two administrators who step down or leave at the same time.             *)
LeavingCalls == OnMembers({"demote", "remove"}, {ann, bob}, {1, 2})

(* An invited user who accepts, an administrator who archives.             *)
ArchiveCalls ==
  OnMembers({"accept"}, {bob}, {2}) \cup CallsOf({"archive"}, {ann})

PendingAdminCalls == OnMembers({"demote"}, {ann}, {2})

RequestSymmetry == Permutations(Requests)
=============================================================================
