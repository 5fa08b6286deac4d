------------------------------- MODULE Llmio -------------------------------
(***************************************************************************)
(* The groups and memberships API as a whole: any number of requests at    *)
(* any step of their handlers over one database.                           *)
(***************************************************************************)
EXTENDS Memberships, Groups

Init == StoreInit

(* One step of the handler serving r. *)
HandlerStep(r) ==
  \/ ReadGroup(r) \/ Begin(r) \/ Commit(r) \/ Finish(r)
  \/ MembershipStep(r) \/ GroupStep(r)

Next == \E r \in Requests : Receive(r) \/ HandlerStep(r) \/ Fail(r)

Spec == Init /\ [][Next]_vars

-----------------------------------------------------------------------------
(* Types.  A transaction is open, and holds a connection, exactly while    *)
(* its handler is between Begin and its end: whatever the handler answers  *)
(* on the way out, nothing stays locked and no connection is lost.         *)

TxType ==
  [open : BOOLEAN, mDel : SUBSET MembershipRow, mIns : SUBSET MembershipRow,
   gDel : SUBSET GroupRow, gIns : SUBSET GroupRow]

SeenType ==
  [gid : Nat, role : Roles, archived : BOOLEAN, flags : SUBSET Flags,
   handle : Nat]

InsideTx == {"exec", "enroll", "commit"}

TypeOK ==
  /\ groups \subseteq GroupRow /\ members \subseteq MembershipRow
  /\ groupSeq \in Nat /\ memberSeq \in Nat
  /\ tx \in [Requests -> TxType]
  /\ pc \in [Requests -> Steps \cup {"idle", "done"}]
  /\ call \in [Requests -> Calls \cup {NoCall}]
  /\ seen \in [Requests -> SeenType]
  /\ reply \in [Requests -> Codes \cup {"none"}]
  /\ \A r \in Requests :
       /\ InTx(r) <=> pc[r] \in InsideTx
       /\ ~InTx(r) => tx[r] = NoTx
       /\ pc[r] = "idle" <=> call[r] = NoCall
       /\ (call[r].op = "invite" /\ pc[r] \in {"begin", "exec"})
            => call[r].who \in Users

-----------------------------------------------------------------------------
(* Safety.                                                                 *)

(* No user has two memberships in a group and no identifier names two rows, *)
(* however the INSERTs of concurrent invitations interleave with each other *)
(* and with the updates and deletions of the rows they collide with.        *)
OneMembershipPerUser == UniqueMemberships(members)

(* No two groups share a handle, though every handler that creates one      *)
(* looked for a free handle before its transaction.                         *)
HandlesUnique == UniqueGroups(groups)

(* A generated handle is the first of its series that is free, and the      *)
(* search gives up only when the whole series is taken, whatever other      *)
(* requests found groups while it probes.                                   *)
HandleSearchExact ==
  \A r \in Requests :
    (call[r].op \in {"create", "subgroup"} /\ call[r].handle = NoHandle) =>
      /\ pc[r] \in {"begin", "exec"} => \A h \in 0 .. seen[r].handle - 1 : Taken(h)
      /\ (reply[r] = "422" /\ call[r].valid) => \A h \in 0 .. MaxSuffix : Taken(h)

(* A PATCH changes the flags it names and no other: two administrators who  *)
(* set different flags at the same time do not undo each other.             *)
OnlyNamedFlagsChange ==
  [][\A g \in groups, h \in groups' :
       g.id = h.id =>
         \A f \in (g.flags \ h.flags) \cup (h.flags \ g.flags) :
           \E r \in Requests : At(r, "commit", {"update"})
                              /\ f \in call[r].on \cup call[r].off]_vars

(* Every group keeps an active admin. *)
EveryGroupHasAdmin == Administered(groups, members)

(* An open transaction never holds a stale row: what it replaces is still  *)
(* the committed version when it commits, so no committed change is lost.  *)
NoLostUpdate ==
  \A r \in Requests :
    tx[r].mDel \subseteq members /\ tx[r].gDel \subseteq groups

(* No pending invitation of an archived group becomes a membership.        *)
ArchivedInvitationsWait ==
  [][\A m \in members, n \in members' :
       (m.id = n.id /\ ~m.accepted /\ n.accepted)
         => \A g \in GroupById(m.group) : ~g.archived]_vars

(* Only an active admin is refused a demotion for being the last one.      *)
PendingAdminDemotable ==
  [][\A r \in Requests :
       (pc[r] = "count" /\ call[r].op = "demote" /\ reply'[r] = "lastadmin")
         => \E m \in MemberById(call[r].mid) : m.accepted]_vars

(* Every call is answered: no handler waits forever for a connection, a    *)
(* row or a unique key.                                                    *)
EveryCallAnswered == \A r \in Requests : pc[r] # "idle" ~> pc[r] = "idle"

-----------------------------------------------------------------------------
(* The committed rows as the standings of MembershipLifecycle.             *)

StandingOf(g, u) ==
  IF MembersOf(g, u) = {}
  THEN [status |-> "none", role |-> "member"]
  ELSE LET m == CHOOSE m \in MembersOf(g, u) : TRUE
       IN  [status |-> IF m.accepted THEN "active" ELSE "invited",
            role |-> m.role]

GroupIdBound == 1 .. (Cardinality(SeedGroups) + MaxGroups)

Roster == INSTANCE MembershipLifecycle
  WITH GroupIds <- GroupIdBound,
       founded  <- {g.id : g \in groups},
       standing <- [g \in GroupIdBound |-> [u \in Users |-> StandingOf(g, u)]]

(* Every behaviour of the API is one of MembershipLifecycle.               *)
ImplementsLifecycle == Roster!Lifecycle
=============================================================================
