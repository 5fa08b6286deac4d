----------------------------- MODULE ViewProofs -----------------------------
(***************************************************************************)
(* Readers are shown nothing they were not entitled to, and nothing that   *)
(* was never true.  A reader's handler asks one query at a time, and the   *)
(* tables may change between any two; the argument carries along, query by *)
(* query, at which instants of the call what has been put together so far  *)
(* was true.                                                               *)
(***************************************************************************)
EXTENDS Views, LlmioProofs

-----------------------------------------------------------------------------
(* The inductive invariant.                                                *)

ViewSteps == {"byHandle", "byId", "group", "member", "rows", "admins", "parent"}

PageFields ==
  {"code", "gid", "groups", "rows", "role", "members", "admins", "parent"}

ViewTypeOK ==
  /\ vpc \in [Readers -> ViewSteps \cup {"idle", "done"}]
  /\ view \in [Readers -> ViewCalls \cup {NoView}]
  /\ page = [q \in Readers |-> page[q]]
  /\ \A q \in Readers : DOMAIN page[q] = PageFields
  /\ during = [q \in Readers |-> during[q]]

(* Lists that need no authorization: a user's own groups and invitations.  *)
OwnLists == {"groups", "invitations"}

(* The viewer was an active member, with the role shown, at some instant.  *)
Authorized(c, p, d) ==
  \E s \in d : \E m \in s.members :
    m.group = p.gid /\ m.user = c.user /\ m.accepted /\ m.role = p.role

(* Every row in p was there at some instant of d.                          *)
FromPast(p, d) ==
  /\ \A g \in p.groups : \E s \in d : g \in s.groups
  /\ \A m \in p.rows : \E s \in d : m \in s.members

(* What p shows belongs to the one group the view is about.                *)
OfOneGroup(p) ==
  /\ \A g \in p.groups : g.id = p.gid /\ p.groups = {g}
  /\ \A m \in p.rows : m.group = p.gid

Counted(c, p, d) ==
  /\ c.op = "group" => \E s \in d : MembersTrue(s, p) /\ AdminsTrue(s, p)
  /\ c.op = "handle" => (\E s \in d : MembersTrue(s, p))
                        /\ \E s \in d : AdminsTrue(s, p)

Parented(c, p, d) ==
  c.op \in {"group", "handle"} =>
    \A g \in p.groups :
      CASE p.parent = "none" -> g.parent = 0
        [] p.parent = "unknown" -> g.parent # 0
        [] OTHER -> \E s \in d : \E h \in s.groups :
                      h.id = g.parent /\ (p.parent = "archived" <=> h.archived)

(* An answer that shows something shows what the viewer may see and what   *)
(* was true.                                                               *)
Entitled(c, p, d) ==
  /\ \A g \in p.groups : \E s \in d :
       \/ Active(s, g.id, c.user)
       \/ c.op = "subgroups" /\ Active(s, g.parent, c.user)
  /\ \A m \in p.rows :
       \/ c.op = "invitations" /\ m.user = c.user
       \/ \E s \in d : Active(s, m.group, c.user)

Truthful(c, p, d) ==
  /\ Counted(c, p, d) /\ Parented(c, p, d) /\ FromPast(p, d)
  /\ p.role # "none" => Authorized(c, p, d)

(* The groups c is about in the tables s.                                  *)
NamedIn(c, s) ==
  {g \in s.groups : CASE c.op = "handle" -> g.handle = c.handle
                      [] c.op = "membership" ->
                           \E m \in s.members : m.id = c.mid /\ m.group = g.id
                      [] OTHER -> g.id = c.gid}

Deserved(c, d) == \E s \in d : \A g \in NamedIn(c, s) : ~Active(s, g.id, c.user)

(* The step s fits the view c.                                             *)
StepFits(c, s) ==
  /\ s = "byHandle" => c.op = "handle"
  /\ s = "byId" => c.op = "membership"
  /\ s \in {"group", "member"} => c.op \notin OwnLists
  /\ s = "admins" => c.op = "handle"
  /\ s = "parent" => c.op \in {"group", "handle"}

(* What a handler at step s has put together for c is p, and d are the     *)
(* tables at the instants of the call.                                     *)
Gathered(c, s, p, d) ==
  /\ StepFits(c, s)
  /\ s = "idle" => p = EmptyPage
  /\ s \in ViewSteps =>
       /\ OfOneGroup(p) /\ FromPast(p, d) /\ p.parent = "none"
       /\ s \notin {"rows", "admins", "parent"} => p.role = "none"
       /\ (s \in {"rows", "admins", "parent"} /\ c.op \notin OwnLists)
            => Authorized(c, p, d)
       /\ c.op \in OwnLists => p.groups = {} /\ p.rows = {} /\ p.role = "none"
       /\ s \in {"byHandle", "byId"} => p.groups = {} /\ p.rows = {}
       /\ s = "admins" => \E x \in d : MembersTrue(x, p)
       /\ s = "parent" => Counted(c, p, d) /\ \A g \in p.groups : g.parent # 0
  /\ s = "done" =>
       /\ p.code = "ok" => Entitled(c, p, d) /\ Truthful(c, p, d)
       /\ p.code \in {"403", "404"} => Deserved(c, d)

(* The group that will be authorized for is the one the view names, even   *)
(* though the rows that led to it may have changed since.                  *)
StillNamed(c, s, p) ==
  s \in {"group", "member"} =>
    /\ c.op = "handle" => \E g \in groups : g.id = p.gid /\ g.handle = c.handle
    /\ c.op = "membership" =>
         /\ \E g \in groups : g.id = p.gid
         /\ Present(c.mid, p.gid) \/ Gone(c.mid)
    /\ c.op \notin {"handle", "membership"} => p.gid = c.gid

ViewInv ==
  /\ ViewTypeOK
  /\ \A q \in Readers : Gathered(view[q], vpc[q], page[q], during[q])
  /\ \A q \in Readers : StillNamed(view[q], vpc[q], page[q])

-----------------------------------------------------------------------------
(* What was true at some instant of a call stays so as the call goes on.   *)
LEMMA PastGrows ==
  ASSUME NEW c, NEW s, NEW p, NEW d, NEW e, d \subseteq e, Gathered(c, s, p, d)
  PROVE  Gathered(c, s, p, e)
  <1>1. /\ Authorized(c, p, d) => Authorized(c, p, e)
        /\ FromPast(p, d) => FromPast(p, e)
        /\ Deserved(c, d) => Deserved(c, e)
    BY DEF Authorized, FromPast, Deserved
  <1>2. Counted(c, p, d) => Counted(c, p, e)
    BY DEF Counted
  <1>3. Parented(c, p, d) => Parented(c, p, e)
    <2> SUFFICES ASSUME Parented(c, p, d), c.op \in {"group", "handle"},
                        NEW g \in p.groups
                 PROVE  CASE p.parent = "none" -> g.parent = 0
                          [] p.parent = "unknown" -> g.parent # 0
                          [] OTHER -> \E x \in e : \E h \in x.groups :
                               h.id = g.parent /\ (p.parent = "archived" <=> h.archived)
      BY DEF Parented
    <2>1. CASE p.parent \in {"none", "unknown"}
      BY <2>1 DEF Parented
    <2>2. CASE p.parent \notin {"none", "unknown"}
      <3>1. \E x \in d : \E h \in x.groups :
              h.id = g.parent /\ (p.parent = "archived" <=> h.archived)
        BY <2>2 DEF Parented
      <3> QED
        BY <2>2, <3>1
    <2> QED
      BY <2>1, <2>2
  <1>4. Entitled(c, p, d) => Entitled(c, p, e)
    BY DEF Entitled
  <1>5. (\E x \in d : MembersTrue(x, p)) => \E x \in e : MembersTrue(x, p)
    OBVIOUS
  <1> QED
    BY <1>1, <1>2, <1>3, <1>4, <1>5 DEF Gathered, Truthful

(* A view goes on naming its group while the tables change.                *)
LEMMA NameStays ==
  ASSUME TypeOK, RowInv, TypeOK', NEW r \in Requests, StepOf(r), SameKeys(r),
         NEW c \in ViewRecord \cup {NoView}, NEW s, NEW p, StillNamed(c, s, p)
  PROVE  StillNamed(c, s, p)'
  <1>1. \A g \in groups : \E h \in groups' : h.id = g.id /\ h.handle = g.handle
    BY GroupStays
  <1>2. c.mid \in Nat
    BY DEF ViewRecord, NoView
  <1>3. Present(c.mid, p.gid) \/ Gone(c.mid)
          => Present(c.mid, p.gid)' \/ Gone(c.mid)'
    BY <1>2, PresentOrGone, GoneStays
  <1> QED
    BY <1>1, <1>3 DEF StillNamed

-----------------------------------------------------------------------------
(* The steps of one reader.  Each shows a page; the page is good if what   *)
(* it says was true and authorized at the instants of the call so far, now *)
(* included.                                                               *)
SoFar(q) == during[q] \cup {Snapshot}

Good(q, s, p) ==
  /\ s \in ViewSteps \cup {"done"} /\ DOMAIN p = PageFields
  /\ Gathered(view[q], s, p, SoFar(q)) /\ StillNamed(view[q], s, p)

ShowsGood(q) == \E s, p : Show(q, s, p) /\ Good(q, s, p)

(* The reader q is where the invariant says.                               *)
Reading(q) ==
  /\ vpc[q] \in ViewSteps /\ DOMAIN page[q] = PageFields
  /\ Gathered(view[q], vpc[q], page[q], SoFar(q))
  /\ StillNamed(view[q], vpc[q], page[q])

(* The tables as they are belong to the history of the call.               *)
LEMMA NowIsPast ==
  ASSUME NEW q
  PROVE  Snapshot \in SoFar(q) /\ Snapshot.groups = groups /\ Snapshot.members = members
  BY DEF SoFar, Snapshot

(* A refusal is good if it is a failure, or if it is deserved now.         *)
LEMMA RefusalIsGood ==
  ASSUME NEW q, NEW code, Refuse(q, code),
         \/ code = "500"
         \/ /\ code \in {"403", "404"}
            /\ \A g \in NamedIn(view[q], Snapshot) : ~Active(Snapshot, g.id, view[q].user)
  PROVE  ShowsGood(q)
  <1> DEFINE p == [EmptyPage EXCEPT !.code = code]
  <1>1. DOMAIN p = PageFields /\ p.code = code /\ code # "ok"
    BY DEF EmptyPage, PageFields
  <1>2. code # "500" => Deserved(view[q], SoFar(q))
    BY NowIsPast DEF Deserved
  <1>3. Show(q, "done", p)
    BY DEF Refuse
  <1> HIDE DEF p
  <1>4. Gathered(view[q], "done", p, SoFar(q))
    BY <1>1, <1>2 DEF Gathered, StepFits, ViewSteps
  <1>5. StillNamed(view[q], "done", p)
    BY DEF StillNamed
  <1> QED
    BY <1>1, <1>3, <1>4, <1>5 DEF ShowsGood, Good

(* An answer is good if what it shows was true and authorized.             *)
LEMMA AnswerIsGood ==
  ASSUME NEW q, NEW shown, DOMAIN shown = PageFields, Ready(q, shown),
         Entitled(view[q], shown, SoFar(q)), Truthful(view[q], shown, SoFar(q))
  PROVE  ShowsGood(q)
  <1> DEFINE p == [shown EXCEPT !.code = "ok"]
  <1>1. /\ DOMAIN p = PageFields /\ p.code = "ok" /\ p.gid = shown.gid
        /\ p.groups = shown.groups /\ p.rows = shown.rows /\ p.role = shown.role
        /\ p.members = shown.members /\ p.admins = shown.admins
        /\ p.parent = shown.parent
    BY DEF PageFields
  <1>2. Show(q, "done", p)
    BY DEF Ready
  <1> HIDE DEF p
  <1>3. Entitled(view[q], p, SoFar(q))
    BY <1>1 DEF Entitled
  <1>4. Counted(view[q], p, SoFar(q)) /\ Parented(view[q], p, SoFar(q))
    BY <1>1 DEF Truthful, Counted, MembersTrue, AdminsTrue, Parented
  <1>5. Truthful(view[q], p, SoFar(q))
    BY <1>1, <1>4 DEF Truthful, FromPast, Authorized
  <1>6. Gathered(view[q], "done", p, SoFar(q))
    BY <1>1, <1>3, <1>5 DEF Gathered, StepFits, ViewSteps
  <1>7. StillNamed(view[q], "done", p)
    BY DEF StillNamed
  <1> QED
    BY <1>1, <1>2, <1>6, <1>7 DEF ShowsGood, Good

(* handleGetGroupByHandle finds the group, or there is none to find.       *)
LEMMA FindByHandleGood ==
  ASSUME NEW q, Reading(q), FindByHandle(q)
  PROVE  ShowsGood(q)
  <1> DEFINE c == view[q]
  <1>1. vpc[q] = "byHandle" /\ c.op = "handle"
    BY DEF FindByHandle, AtQuery, Reading, Gathered, StepFits
  <1>2. CASE GroupByHandle(c.handle) = {} /\ Refuse(q, "404")
    <2>1. NamedIn(c, Snapshot) = {}
      BY <1>1, <1>2, NowIsPast DEF NamedIn, GroupByHandle
    <2> QED
      BY <1>2, <2>1, RefusalIsGood
  <1>3. ASSUME NEW g \in GroupByHandle(c.handle),
               Show(q, "group", [page[q] EXCEPT !.gid = g.id, !.groups = {g}])
        PROVE  ShowsGood(q)
    <2> DEFINE p == [page[q] EXCEPT !.gid = g.id, !.groups = {g}]
    <2>1. /\ DOMAIN p = PageFields /\ p.gid = g.id /\ p.groups = {g}
          /\ p.rows = page[q].rows /\ p.role = page[q].role
          /\ p.parent = page[q].parent
      BY DEF Reading, PageFields
    <2>2. page[q].rows = {} /\ page[q].role = "none" /\ page[q].parent = "none"
      BY <1>1 DEF Reading, Gathered, ViewSteps
    <2>3. g \in groups /\ g.handle = c.handle
      BY DEF GroupByHandle
    <2>4. Show(q, "group", p)
      BY <1>3
    <2> HIDE DEF p
    <2>5. OfOneGroup(p) /\ FromPast(p, SoFar(q))
      BY <2>1, <2>2, <2>3, NowIsPast DEF OfOneGroup, FromPast
    <2>6. Gathered(c, "group", p, SoFar(q))
      BY <1>1, <2>1, <2>2, <2>5 DEF Gathered, StepFits, OwnLists
    <2>7. StillNamed(c, "group", p)
      BY <1>1, <2>1, <2>3 DEF StillNamed
    <2> QED
      BY <2>1, <2>4, <2>6, <2>7 DEF ShowsGood, Good, ViewSteps
  <1> QED
    BY <1>2, <1>3 DEF FindByHandle

(* handleGetMembership finds the row, which names a group that is there.   *)
LEMMA FindByIdGood ==
  ASSUME RowInv, NEW q, Reading(q), FindById(q)
  PROVE  ShowsGood(q)
  <1> DEFINE c == view[q]
  <1>1. vpc[q] = "byId" /\ c.op = "membership"
    BY DEF FindById, AtQuery, Reading, Gathered, StepFits
  <1>2. CASE MemberById(c.mid) = {} /\ Refuse(q, "404")
    <2>1. NamedIn(c, Snapshot) = {}
      BY <1>1, <1>2, NowIsPast DEF NamedIn, MemberById
    <2> QED
      BY <1>2, <2>1, RefusalIsGood
  <1>3. ASSUME NEW m \in MemberById(c.mid),
               Show(q, "group", [page[q] EXCEPT !.gid = m.group, !.rows = {m}])
        PROVE  ShowsGood(q)
    <2> DEFINE p == [page[q] EXCEPT !.gid = m.group, !.rows = {m}]
    <2>1. /\ DOMAIN p = PageFields /\ p.gid = m.group /\ p.rows = {m}
          /\ p.groups = page[q].groups /\ p.role = page[q].role
          /\ p.parent = page[q].parent
      BY DEF Reading, PageFields
    <2>2. page[q].groups = {} /\ page[q].role = "none" /\ page[q].parent = "none"
      BY <1>1 DEF Reading, Gathered, ViewSteps
    <2>3. m \in members /\ m.id = c.mid /\ \E g \in groups : g.id = m.group
      BY DEF MemberById, RowInv, RowsInv, TableInv
    <2>4. Show(q, "group", p)
      BY <1>3
    <2> HIDE DEF p
    <2>5. OfOneGroup(p) /\ FromPast(p, SoFar(q))
      BY <2>1, <2>2, <2>3, NowIsPast DEF OfOneGroup, FromPast
    <2>6. Gathered(c, "group", p, SoFar(q))
      BY <1>1, <2>1, <2>2, <2>5 DEF Gathered, StepFits, OwnLists
    <2>7. StillNamed(c, "group", p)
      BY <1>1, <2>1, <2>3 DEF StillNamed, Present
    <2> QED
      BY <2>1, <2>4, <2>6, <2>7 DEF ShowsGood, Good, ViewSteps
  <1> QED
    BY <1>2, <1>3 DEF FindById

(* NewAuthorizationContext finds the group, or refuses a view of a group   *)
(* that is not there; a membership whose group is gone there is none of.   *)
LEMMA ViewGroupGood ==
  ASSUME NEW q, Reading(q), ViewGroup(q)
  PROVE  ShowsGood(q)
  <1> DEFINE c == view[q]
  <1>1. vpc[q] = "group" /\ c.op \notin OwnLists /\ StillNamed(c, "group", page[q])
    BY DEF ViewGroup, AtQuery, Reading, Gathered, StepFits
  <1>2. CASE /\ GroupById(page[q].gid) = {}
             /\ Refuse(q, IF c.op = "handle" THEN "500" ELSE "404")
    <2>1. CASE c.op = "handle"
      BY <1>2, <2>1, RefusalIsGood
    <2>2. CASE c.op # "handle"
      <3>1. c.op # "membership" /\ page[q].gid = c.gid
        BY <1>1, <1>2, <2>2 DEF StillNamed, GroupById
      <3>2. NamedIn(c, Snapshot) = {}
        BY <1>2, <2>2, <3>1, NowIsPast DEF NamedIn, GroupById
      <3> QED
        BY <1>2, <2>2, <3>2, RefusalIsGood
    <2> QED
      BY <2>1, <2>2
  <1>3. ASSUME NEW g \in GroupById(page[q].gid),
               Show(q, "member", IF c.op = "group" THEN [page[q] EXCEPT !.groups = {g}]
                                 ELSE page[q])
        PROVE  ShowsGood(q)
    <2> DEFINE p == IF c.op = "group" THEN [page[q] EXCEPT !.groups = {g}] ELSE page[q]
    <2>1. /\ DOMAIN p = PageFields /\ p.gid = page[q].gid
          /\ p.groups \in {{g}, page[q].groups}
          /\ p.rows = page[q].rows /\ p.role = page[q].role
          /\ p.parent = page[q].parent
      BY DEF Reading, PageFields
    <2>2. /\ OfOneGroup(page[q]) /\ FromPast(page[q], SoFar(q))
          /\ page[q].role = "none" /\ page[q].parent = "none"
      BY <1>1 DEF Reading, Gathered, ViewSteps
    <2>3. g \in groups /\ g.id = page[q].gid
      BY DEF GroupById
    <2>4. Show(q, "member", p)
      BY <1>3
    <2> HIDE DEF p
    <2>5. OfOneGroup(p) /\ FromPast(p, SoFar(q))
      BY <2>1, <2>2, <2>3, NowIsPast DEF OfOneGroup, FromPast
    <2>6. Gathered(c, "member", p, SoFar(q))
      BY <1>1, <2>1, <2>2, <2>5 DEF Gathered, StepFits
    <2>7. StillNamed(c, "member", p)
      BY <1>1, <2>1 DEF StillNamed
    <2> QED
      BY <2>1, <2>4, <2>6, <2>7 DEF ShowsGood, Good, ViewSteps
  <1> QED
    BY <1>2, <1>3 DEF ViewGroup

(* Whoever is refused is no active member now of the group the view names. *)
LEMMA RefusedNow ==
  ASSUME RowInv, NEW q, Reading(q), vpc[q] = "member",
         \A m \in MembersOf(page[q].gid, view[q].user) : ~m.accepted,
         NEW g \in NamedIn(view[q], Snapshot)
  PROVE  ~Active(Snapshot, g.id, view[q].user)
  <1> DEFINE c == view[q]
  <1>1. StillNamed(c, "member", page[q]) /\ g \in groups
    BY NowIsPast DEF Reading, NamedIn
  <1>2. g.id = page[q].gid
    <2>1. CASE c.op = "handle"
      <3>1. g.handle = c.handle
        BY <2>1 DEF NamedIn
      <3>2. PICK h \in groups : h.id = page[q].gid /\ h.handle = c.handle
        BY <1>1, <2>1 DEF StillNamed
      <3> QED
        BY <1>1, <3>1, <3>2 DEF RowInv, RowsInv, TableInv, UniqueGroups, GroupClash
    <2>2. CASE c.op = "membership"
      <3>1. PICK m \in members : m.id = c.mid /\ m.group = g.id
        BY <2>2, NowIsPast DEF NamedIn
      <3>2. Present(c.mid, page[q].gid)
        BY <1>1, <2>2, <3>1 DEF StillNamed, Gone
      <3>3. PICK n \in members : n.id = c.mid /\ n.group = page[q].gid
        BY <3>2 DEF Present
      <3> QED
        BY <3>1, <3>3 DEF RowInv, RowsInv, TableInv, UniqueMemberships, Clash
    <2>3. CASE c.op \notin {"handle", "membership"}
      BY <1>1, <2>3 DEF StillNamed, NamedIn
    <2> QED
      BY <2>1, <2>2, <2>3
  <1> QED
    BY <1>2, NowIsPast DEF Active, MembersOf

(* The authorization context lets in active members and nobody else.       *)
LEMMA AuthorizeViewGood ==
  ASSUME RowInv, NEW q, Reading(q), AuthorizeView(q)
  PROVE  ShowsGood(q)
  <1> DEFINE c == view[q]
             found == MembersOf(page[q].gid, c.user)
  <1>1. vpc[q] = "member"
    BY DEF AuthorizeView, AtQuery
  <1>2. CASE Refuse(q, "403") /\ \A m \in found : ~m.accepted
    BY <1>1, <1>2, RefusedNow, RefusalIsGood
  <1>3. ASSUME NEW m \in found, \E n \in found : n.accepted,
               Show(q, "rows", [page[q] EXCEPT !.role = m.role])
        PROVE  ShowsGood(q)
    <2> DEFINE p == [page[q] EXCEPT !.role = m.role]
    <2>1. /\ DOMAIN p = PageFields /\ p.gid = page[q].gid /\ p.role = m.role
          /\ p.groups = page[q].groups /\ p.rows = page[q].rows
          /\ p.parent = page[q].parent
      BY DEF Reading, PageFields
    <2>2. /\ OfOneGroup(page[q]) /\ FromPast(page[q], SoFar(q))
          /\ page[q].parent = "none" /\ c.op \notin OwnLists
      BY <1>1 DEF Reading, Gathered, ViewSteps, StepFits
    <2>3. m \in members /\ m.group = page[q].gid /\ m.user = c.user
      BY DEF MembersOf
    <2>4. m.accepted
      BY <1>3 DEF MembersOf, RowInv, RowsInv, TableInv, UniqueMemberships, Clash
    <2>5. Show(q, "rows", p)
      BY <1>3
    <2> HIDE DEF p
    <2>6. Authorized(c, p, SoFar(q))
      BY <2>1, <2>3, <2>4, NowIsPast DEF Authorized
    <2>7. OfOneGroup(p) /\ FromPast(p, SoFar(q))
      BY <2>1, <2>2 DEF OfOneGroup, FromPast
    <2>8. Gathered(c, "rows", p, SoFar(q))
      BY <2>1, <2>2, <2>6, <2>7 DEF Gathered, StepFits
    <2>9. StillNamed(c, "rows", p)
      BY DEF StillNamed
    <2> QED
      BY <2>1, <2>5, <2>8, <2>9 DEF ShowsGood, Good, ViewSteps
  <1> QED
    BY <1>2, <1>3 DEF AuthorizeView, CanViewGroup, AuthContext

(* What is shown of the one group a viewer is authorized for, they may see. *)
LEMMA AuthorizedIsEntitled ==
  ASSUME NEW c, NEW p, NEW d, OfOneGroup(p), Authorized(c, p, d)
  PROVE  Entitled(c, p, d)
  BY DEF OfOneGroup, Authorized, Entitled, Active

(* A group shown without a parent is answered as it is, one with a parent  *)
(* once that has been asked for.                                           *)
LEMMA OnToParentGood ==
  ASSUME NEW q, NEW p, DOMAIN p = PageFields,
         view[q].op \in {"group", "handle"}, OfOneGroup(p),
         FromPast(p, SoFar(q)), p.parent = "none",
         Authorized(view[q], p, SoFar(q)), Counted(view[q], p, SoFar(q)),
         OnToParent(q, p)
  PROVE  ShowsGood(q)
  <1>1. CASE (\A g \in p.groups : g.parent = 0) /\ Ready(q, p)
    <2>1. Parented(view[q], p, SoFar(q))
      BY <1>1 DEF Parented
    <2> QED
      BY <1>1, <2>1, AuthorizedIsEntitled, AnswerIsGood DEF Truthful
  <1>2. CASE (\E g \in p.groups : g.parent # 0) /\ Show(q, "parent", p)
    <2>1. \A g \in p.groups : g.parent # 0
      BY <1>2 DEF OfOneGroup
    <2>2. view[q].op \notin OwnLists
      BY DEF OwnLists
    <2>3. Gathered(view[q], "parent", p, SoFar(q))
      BY <2>1, <2>2 DEF Gathered, StepFits
    <2>4. StillNamed(view[q], "parent", p)
      BY DEF StillNamed
    <2> QED
      BY <1>2, <2>3, <2>4 DEF ShowsGood, Good, ViewSteps
  <1> QED
    BY <1>1, <1>2 DEF OnToParent

(* The counts are those of the tables as they are.                         *)
LEMMA CountsNow ==
  ASSUME NEW p
  PROVE  /\ p.members = CountGroupMembers(p.gid) => MembersTrue(Snapshot, p)
         /\ p.admins = AdminCount(p.gid) => AdminsTrue(Snapshot, p)
  <1>1. ActiveOf(Snapshot, p.gid) = {m \in members : m.group = p.gid /\ m.accepted}
    BY NowIsPast DEF ActiveOf
  <1>2. {m \in ActiveOf(Snapshot, p.gid) : m.role = "admin"}
          = {m \in members : m.group = p.gid /\ ActiveAdmin(m)}
    BY <1>1 DEF ActiveAdmin
  <1> QED
    BY <1>1, <1>2 DEF MembersTrue, AdminsTrue, CountGroupMembers, AdminCount

(* handleGetGroup counts members and administrators in one query.          *)
LEMMA ShowGroupGood ==
  ASSUME NEW q, Reading(q), ShowGroup(q)
  PROVE  ShowsGood(q)
  <1> DEFINE c == view[q]
             p == [page[q] EXCEPT !.members = CountGroupMembers(page[q].gid),
                                  !.admins  = AdminCount(page[q].gid)]
  <1>1. vpc[q] = "rows" /\ c.op = "group" /\ OnToParent(q, p)
    BY DEF ShowGroup, Collects, AtQuery
  <1>2. /\ OfOneGroup(page[q]) /\ FromPast(page[q], SoFar(q))
        /\ page[q].parent = "none" /\ Authorized(c, page[q], SoFar(q))
    BY <1>1 DEF Reading, Gathered, ViewSteps, OwnLists
  <1>3. /\ DOMAIN p = PageFields /\ p.gid = page[q].gid /\ p.role = page[q].role
        /\ p.groups = page[q].groups /\ p.rows = page[q].rows
        /\ p.parent = page[q].parent
        /\ p.members = CountGroupMembers(p.gid) /\ p.admins = AdminCount(p.gid)
    BY DEF Reading, PageFields
  <1> HIDE DEF p
  <1>4. OfOneGroup(p) /\ FromPast(p, SoFar(q)) /\ Authorized(c, p, SoFar(q))
    BY <1>2, <1>3 DEF OfOneGroup, FromPast, Authorized
  <1>5. Counted(c, p, SoFar(q))
    BY <1>1, <1>3, CountsNow, NowIsPast DEF Counted
  <1> QED
    BY <1>1, <1>2, <1>3, <1>4, <1>5, OnToParentGood

(* handleGetGroupByHandle counts the members first.                        *)
LEMMA CountMembersGood ==
  ASSUME NEW q, Reading(q), CountMembers(q)
  PROVE  ShowsGood(q)
  <1> DEFINE c == view[q]
             p == [page[q] EXCEPT !.members = CountGroupMembers(page[q].gid)]
  <1>1. vpc[q] = "rows" /\ c.op = "handle" /\ Show(q, "admins", p)
    BY DEF CountMembers, Collects, AtQuery
  <1>2. /\ OfOneGroup(page[q]) /\ FromPast(page[q], SoFar(q))
        /\ page[q].parent = "none" /\ Authorized(c, page[q], SoFar(q))
    BY <1>1 DEF Reading, Gathered, ViewSteps, OwnLists
  <1>3. /\ DOMAIN p = PageFields /\ p.gid = page[q].gid /\ p.role = page[q].role
        /\ p.groups = page[q].groups /\ p.rows = page[q].rows
        /\ p.parent = page[q].parent /\ p.members = CountGroupMembers(p.gid)
    BY DEF Reading, PageFields
  <1> HIDE DEF p
  <1>4. OfOneGroup(p) /\ FromPast(p, SoFar(q)) /\ Authorized(c, p, SoFar(q))
    BY <1>2, <1>3 DEF OfOneGroup, FromPast, Authorized
  <1>5. \E x \in SoFar(q) : MembersTrue(x, p)
    BY <1>3, CountsNow, NowIsPast
  <1>6. Gathered(c, "admins", p, SoFar(q))
    BY <1>1, <1>2, <1>3, <1>4, <1>5 DEF Gathered, StepFits, OwnLists
  <1>7. StillNamed(c, "admins", p)
    BY DEF StillNamed
  <1> QED
    BY <1>1, <1>3, <1>6, <1>7 DEF ShowsGood, Good, ViewSteps

(* And the administrators in a second query, maybe of other tables.        *)
LEMMA CollectAdminsGood ==
  ASSUME NEW q, Reading(q), CollectAdmins(q)
  PROVE  ShowsGood(q)
  <1> DEFINE c == view[q]
             p == [page[q] EXCEPT !.admins = AdminCount(page[q].gid)]
  <1>1. vpc[q] = "admins" /\ c.op = "handle" /\ OnToParent(q, p)
    BY DEF CollectAdmins, AtQuery, Reading, Gathered, StepFits
  <1>2. /\ OfOneGroup(page[q]) /\ FromPast(page[q], SoFar(q))
        /\ page[q].parent = "none" /\ Authorized(c, page[q], SoFar(q))
        /\ \E x \in SoFar(q) : MembersTrue(x, page[q])
    BY <1>1 DEF Reading, Gathered, ViewSteps, OwnLists
  <1>3. /\ DOMAIN p = PageFields /\ p.gid = page[q].gid /\ p.role = page[q].role
        /\ p.groups = page[q].groups /\ p.rows = page[q].rows
        /\ p.parent = page[q].parent /\ p.members = page[q].members
        /\ p.admins = AdminCount(p.gid)
    BY DEF Reading, PageFields
  <1> HIDE DEF p
  <1>4. OfOneGroup(p) /\ FromPast(p, SoFar(q)) /\ Authorized(c, p, SoFar(q))
    BY <1>2, <1>3 DEF OfOneGroup, FromPast, Authorized
  <1>5. \E x \in SoFar(q) : MembersTrue(x, p)
    BY <1>2, <1>3 DEF MembersTrue
  <1>6. Counted(c, p, SoFar(q))
    BY <1>1, <1>3, <1>5, CountsNow, NowIsPast DEF Counted
  <1> QED
    BY <1>1, <1>2, <1>3, <1>4, <1>6, OnToParentGood

(* The mark of the parent is the one it has now, or is left open.          *)
LEMMA CollectParentGood ==
  ASSUME NEW q, Reading(q), CollectParent(q)
  PROVE  ShowsGood(q)
  <1> DEFINE c == view[q]
             marked(mark) == [page[q] EXCEPT !.parent = mark]
  <1>1. vpc[q] = "parent" /\ c.op \in {"group", "handle"}
    BY DEF CollectParent, AtQuery, Reading, Gathered, StepFits
  <1>2. /\ OfOneGroup(page[q]) /\ FromPast(page[q], SoFar(q))
        /\ Authorized(c, page[q], SoFar(q)) /\ Counted(c, page[q], SoFar(q))
        /\ \A g \in page[q].groups : g.parent # 0
    BY <1>1 DEF Reading, Gathered, ViewSteps, OwnLists
  <1>3. ASSUME NEW mark \in {"archived", "open", "unknown"}, Ready(q, marked(mark)),
               \A g \in page[q].groups : mark # "unknown" =>
                 \E h \in groups : h.id = g.parent /\ (mark = "archived" <=> h.archived)
        PROVE  ShowsGood(q)
    <2> DEFINE p == marked(mark)
    <2>1. /\ DOMAIN p = PageFields /\ p.gid = page[q].gid /\ p.role = page[q].role
          /\ p.groups = page[q].groups /\ p.rows = page[q].rows
          /\ p.members = page[q].members /\ p.admins = page[q].admins
          /\ p.parent = mark
      BY DEF Reading, PageFields
    <2>2. Ready(q, p)
      BY <1>3
    <2> HIDE DEF p
    <2>3. OfOneGroup(p) /\ FromPast(p, SoFar(q)) /\ Authorized(c, p, SoFar(q))
      BY <1>2, <2>1 DEF OfOneGroup, FromPast, Authorized
    <2>4. Counted(c, p, SoFar(q))
      BY <1>2, <2>1 DEF Counted, MembersTrue, AdminsTrue
    <2>5. ASSUME NEW g \in p.groups
          PROVE  CASE p.parent = "none" -> g.parent = 0
                   [] p.parent = "unknown" -> g.parent # 0
                   [] OTHER -> \E s \in SoFar(q) : \E h \in s.groups :
                        h.id = g.parent /\ (p.parent = "archived" <=> h.archived)
      <3>1. CASE mark = "unknown"
        BY <1>2, <2>1, <3>1
      <3>2. CASE mark # "unknown"
        <4>1. \E h \in Snapshot.groups :
                h.id = g.parent /\ (p.parent = "archived" <=> h.archived)
          BY <1>3, <2>1, <3>2, NowIsPast
        <4> QED
          BY <1>3, <2>1, <3>2, <4>1, NowIsPast
      <3> QED
        BY <3>1, <3>2
    <2>6. Parented(c, p, SoFar(q))
      BY <2>5 DEF Parented
    <2> QED
      BY <2>1, <2>2, <2>3, <2>4, <2>6, AuthorizedIsEntitled, AnswerIsGood DEF Truthful
  <1>4. PICK g \in page[q].groups :
          \/ \E h \in GroupById(g.parent) :
               Ready(q, marked(IF h.archived THEN "archived" ELSE "open"))
          \/ Ready(q, marked("unknown"))
    BY DEF CollectParent
  <1>5. ASSUME NEW h \in GroupById(g.parent),
               Ready(q, marked(IF h.archived THEN "archived" ELSE "open"))
        PROVE  ShowsGood(q)
    <2>1. h \in groups /\ h.id = g.parent /\ page[q].groups = {g}
      BY <1>2 DEF GroupById, OfOneGroup
    <2> HIDE DEF marked
    <2>2. CASE h.archived
      BY <1>3, <1>5, <2>1, <2>2
    <2>3. CASE ~h.archived
      BY <1>3, <1>5, <2>1, <2>3
    <2> QED
      BY <2>2, <2>3
  <1> HIDE DEF marked
  <1> QED
    BY <1>3, <1>4, <1>5

(* A list of groups or rows as they are now, of the group the viewer is    *)
(* authorized for, is a good answer; op names the list.                    *)
LEMMA ListGood ==
  ASSUME NEW q, Reading(q), vpc[q] = "rows", NEW p, DOMAIN p = PageFields,
         view[q].op \in {"subgroups", "memberships", "membership"},
         Ready(q, p), p.gid = page[q].gid, p.role = page[q].role,
         \A g \in p.groups : \/ g \in page[q].groups
                             \/ g \in groups /\ g.id = page[q].gid
                             \/ /\ view[q].op = "subgroups"
                                /\ g \in groups /\ g.parent = page[q].gid,
         \A m \in p.rows : \/ m \in page[q].rows
                           \/ m \in members /\ m.group = page[q].gid
  PROVE  ShowsGood(q)
  <1> DEFINE c == view[q]
  <1>1. /\ OfOneGroup(page[q]) /\ FromPast(page[q], SoFar(q))
        /\ Authorized(c, page[q], SoFar(q))
    BY DEF Reading, Gathered, ViewSteps, OwnLists
  <1>2. Authorized(c, p, SoFar(q)) /\ FromPast(p, SoFar(q))
    BY <1>1, NowIsPast DEF Authorized, FromPast
  <1>3. PICK s \in SoFar(q) : Active(s, page[q].gid, c.user)
    BY <1>1 DEF Authorized, Active
  <1>4. Entitled(c, p, SoFar(q))
    BY <1>1, <1>3 DEF Entitled, OfOneGroup
  <1>5. Counted(c, p, SoFar(q)) /\ Parented(c, p, SoFar(q))
    BY DEF Counted, Parented
  <1> QED
    BY <1>2, <1>4, <1>5, AnswerIsGood DEF Truthful

(* handleListSubgroups.                                                    *)
LEMMA ShowSubgroupsGood ==
  ASSUME NEW q, Reading(q), ShowSubgroups(q)
  PROVE  ShowsGood(q)
  <1> DEFINE gs == ListSubgroupsByParent(page[q].gid, view[q].all)
             p == [page[q] EXCEPT !.groups = gs]
  <1>1. vpc[q] = "rows" /\ view[q].op = "subgroups" /\ Ready(q, p)
    BY DEF ShowSubgroups, Collects, AtQuery
  <1>2. /\ DOMAIN p = PageFields /\ p.gid = page[q].gid /\ p.role = page[q].role
        /\ p.groups = gs /\ p.rows = page[q].rows
    BY DEF Reading, PageFields
  <1>3. \A g \in gs : g \in groups /\ g.parent = page[q].gid
    BY DEF ListSubgroupsByParent
  <1> HIDE DEF gs, p
  <1> QED
    BY <1>1, <1>2, <1>3, ListGood

(* handleListMemberships.                                                  *)
LEMMA ShowMembershipsGood ==
  ASSUME NEW q, Reading(q), ShowMemberships(q)
  PROVE  ShowsGood(q)
  <1> DEFINE ms == ListMemberships(page[q].gid, view[q].status)
             p == [page[q] EXCEPT !.rows = ms]
  <1>1. vpc[q] = "rows" /\ view[q].op = "memberships" /\ Ready(q, p)
    BY DEF ShowMemberships, Collects, AtQuery
  <1>2. /\ DOMAIN p = PageFields /\ p.gid = page[q].gid /\ p.role = page[q].role
        /\ p.groups = page[q].groups /\ p.rows = ms
    BY DEF Reading, PageFields
  <1>3. \A m \in ms : m \in members /\ m.group = page[q].gid
    BY DEF ListMemberships
  <1> HIDE DEF ms, p
  <1> QED
    BY <1>1, <1>2, <1>3, ListGood

(* handleGetMembership, at its end.                                        *)
LEMMA ShowMembershipGood ==
  ASSUME NEW q, Reading(q), ShowMembership(q)
  PROVE  ShowsGood(q)
  <1> DEFINE gs == GroupById(page[q].gid)
             p == [page[q] EXCEPT !.groups = gs]
  <1>1. vpc[q] = "rows" /\ view[q].op = "membership" /\ Ready(q, p)
    BY DEF ShowMembership, Collects, AtQuery
  <1>2. /\ DOMAIN p = PageFields /\ p.gid = page[q].gid /\ p.role = page[q].role
        /\ p.groups = gs /\ p.rows = page[q].rows
    BY DEF Reading, PageFields
  <1>3. \A g \in gs : g \in groups /\ g.id = page[q].gid
    BY DEF GroupById
  <1> HIDE DEF gs, p
  <1> QED
    BY <1>1, <1>2, <1>3, ListGood

(* A user's own groups or invitations, as they are now, are a good answer. *)
LEMMA OwnListGood ==
  ASSUME NEW q, Reading(q), vpc[q] = "rows", view[q].op \in OwnLists,
         NEW p, DOMAIN p = PageFields, Ready(q, p), p.role = page[q].role,
         \A g \in p.groups : g \in groups /\ Active(Snapshot, g.id, view[q].user),
         \A m \in p.rows : /\ m \in members /\ view[q].op = "invitations"
                           /\ m.user = view[q].user
  PROVE  ShowsGood(q)
  <1> DEFINE c == view[q]
  <1>1. p.role = "none"
    BY DEF Reading, Gathered, ViewSteps
  <1>2. FromPast(p, SoFar(q)) /\ Entitled(c, p, SoFar(q))
    BY NowIsPast DEF FromPast, Entitled
  <1>3. Counted(c, p, SoFar(q)) /\ Parented(c, p, SoFar(q))
    BY DEF Counted, Parented, OwnLists
  <1> QED
    BY <1>1, <1>2, <1>3, AnswerIsGood DEF Truthful

(* handleListGroups.                                                       *)
LEMMA ShowGroupsGood ==
  ASSUME NEW q, Reading(q), ShowGroups(q)
  PROVE  ShowsGood(q)
  <1> DEFINE gs == ListGroupsByUser(view[q].user, view[q].all)
             p == [page[q] EXCEPT !.groups = gs]
  <1>1. vpc[q] = "rows" /\ view[q].op = "groups" /\ Ready(q, p)
    BY DEF ShowGroups, Collects, AtQuery
  <1>2. page[q].rows = {}
    BY <1>1 DEF Reading, Gathered, ViewSteps, OwnLists
  <1>3. /\ DOMAIN p = PageFields /\ p.role = page[q].role
        /\ p.groups = gs /\ p.rows = page[q].rows
    BY DEF Reading, PageFields
  <1>4. \A g \in gs : g \in groups /\ Active(Snapshot, g.id, view[q].user)
    BY NowIsPast DEF ListGroupsByUser, MembersOf, Active
  <1> HIDE DEF gs, p
  <1> QED
    BY <1>1, <1>2, <1>3, <1>4, OwnListGood DEF OwnLists

(* handleListMyInvitations.                                                *)
LEMMA ShowInvitationsGood ==
  ASSUME NEW q, Reading(q), ShowInvitations(q)
  PROVE  ShowsGood(q)
  <1> DEFINE ms == ListInvitations(view[q].user)
             p == [page[q] EXCEPT !.rows = ms]
  <1>1. vpc[q] = "rows" /\ view[q].op = "invitations" /\ Ready(q, p)
    BY DEF ShowInvitations, Collects, AtQuery
  <1>2. page[q].groups = {}
    BY <1>1 DEF Reading, Gathered, ViewSteps, OwnLists
  <1>3. /\ DOMAIN p = PageFields /\ p.role = page[q].role
        /\ p.groups = page[q].groups /\ p.rows = ms
    BY DEF Reading, PageFields
  <1>4. \A m \in ms : m \in members /\ m.user = view[q].user
    BY DEF ListInvitations
  <1> HIDE DEF ms, p
  <1> QED
    BY <1>1, <1>2, <1>3, <1>4, OwnListGood DEF OwnLists

(* Whatever a reader that has not been answered yet does, it shows a page  *)
(* that is good.                                                           *)
LEMMA ReadingGood ==
  ASSUME RowInv, NEW q, Reading(q), ViewStep(q) \/ ViewFails(q)
  PROVE  ShowsGood(q)
  <1>1. CASE ViewFails(q)
    BY <1>1, RefusalIsGood DEF ViewFails
  <1>2. ~Read(q)
    BY DEF Read, Reading, ViewSteps
  <1> QED
    BY <1>1, <1>2, FindByHandleGood, FindByIdGood, ViewGroupGood,
       AuthorizeViewGood, ShowGroupGood, CountMembersGood, CollectAdminsGood,
       CollectParentGood, ShowSubgroupsGood, ShowMembershipsGood,
       ShowMembershipGood, ShowGroupsGood, ShowInvitationsGood
       DEF ViewStep

-----------------------------------------------------------------------------
(* The invariant.                                                          *)

(* The calls a reader may be serving are views.                            *)
LEMMA ViewTyping == ViewCalls \cup {NoView} \subseteq ViewRecord \cup {NoView}
  BY ViewAssumption

(* The history of a call grows by the tables after each step.              *)
LEMMA HistoryGrows ==
  ASSUME Witness, NEW q \in Readers, vpc'[q] # "idle"
  PROVE  during'[q] = during[q] \cup {Snapshot'} /\ during[q] \subseteq during'[q]
  BY DEF Witness

(* Nothing is asked of an idle reader's history.                           *)
LEMMA IdleGathered ==
  ASSUME NEW c, NEW p, NEW d, NEW e, Gathered(c, "idle", p, d)
  PROVE  Gathered(c, "idle", p, e)
  BY DEF Gathered, ViewSteps

(* One reader moves on to a good page, and the others wait.                *)
LEMMA ReaderMoves ==
  ASSUME ViewInv, NEW q \in Readers, NEW c \in ViewCalls \cup {NoView},
         NEW s \in ViewSteps \cup {"idle", "done"}, NEW p, DOMAIN p = PageFields,
         view' = [view EXCEPT ![q] = c], vpc' = [vpc EXCEPT ![q] = s],
         page' = [page EXCEPT ![q] = p],
         Gathered(c, s, p, SoFar(q)), StillNamed(c, s, p),
         UNCHANGED vars, Witness
  PROVE  ViewInv'
  <1>1. Snapshot' = Snapshot
    BY DEF vars, Snapshot
  <1>2. ViewTypeOK'
    <2>1. /\ vpc' \in [Readers -> ViewSteps \cup {"idle", "done"}]
          /\ view' \in [Readers -> ViewCalls \cup {NoView}]
      BY DEF ViewInv, ViewTypeOK
    <2>2. /\ page' = [z \in Readers |-> page'[z]]
          /\ \A z \in Readers : DOMAIN page'[z] = PageFields
      BY DEF ViewInv, ViewTypeOK
    <2>3. during' = [z \in Readers |-> during'[z]]
      BY DEF Witness
    <2> QED
      BY <2>1, <2>2, <2>3 DEF ViewTypeOK
  <1>3. /\ view'[q] = c /\ vpc'[q] = s /\ page'[q] = p
        /\ \A z \in Readers \ {q} :
             view'[z] = view[z] /\ vpc'[z] = vpc[z] /\ page'[z] = page[z]
    BY DEF ViewInv, ViewTypeOK
  <1>4. ASSUME NEW z \in Readers
        PROVE  Gathered(view'[z], vpc'[z], page'[z], during'[z])
    <2>1. CASE z # q
      <3>1. Gathered(view[z], vpc[z], page[z], during[z])
        BY DEF ViewInv
      <3>2. CASE vpc[z] = "idle"
        BY <1>3, <2>1, <3>1, <3>2, IdleGathered
      <3>3. CASE vpc[z] # "idle"
        BY <1>3, <2>1, <3>1, <3>3, HistoryGrows, PastGrows
      <3> QED
        BY <3>2, <3>3
    <2>2. CASE z = q
      <3>1. CASE s = "idle"
        BY <1>3, <2>2, <3>1, IdleGathered
      <3>2. CASE s # "idle"
        BY <1>1, <1>3, <2>2, <3>2, HistoryGrows DEF SoFar
      <3> QED
        BY <3>1, <3>2
    <2> QED
      BY <2>1, <2>2
  <1>5. ASSUME NEW z \in Readers
        PROVE  StillNamed(view'[z], vpc'[z], page'[z])
    <2>1. StillNamed(view[z], vpc[z], page[z])
      BY DEF ViewInv
    <2> QED
      BY <1>3, <2>1
  <1>6. ASSUME NEW z \in Readers
        PROVE  StillNamed(view[z], vpc[z], page[z])'
    BY <1>5 DEF StillNamed, Present, Gone, vars
  <1> QED
    BY <1>2, <1>4, <1>6 DEF ViewInv

(* A step of a reader keeps the invariant.                                 *)
LEMMA ReaderStep ==
  ASSUME RowInv, ViewInv, NEW q \in Readers,
         Ask(q) \/ ViewStep(q) \/ ViewFails(q), UNCHANGED vars, Witness
  PROVE  ViewInv'
  <1>1. /\ view[q] \in ViewCalls \cup {NoView}
        /\ vpc[q] \in ViewSteps \cup {"idle", "done"}
        /\ DOMAIN page[q] = PageFields
        /\ Gathered(view[q], vpc[q], page[q], during[q])
        /\ StillNamed(view[q], vpc[q], page[q])
    BY DEF ViewInv, ViewTypeOK
  <1>2. CASE vpc[q] \in ViewSteps
    <2>1. Reading(q)
      BY <1>1, <1>2, PastGrows DEF Reading, SoFar
    <2>2. ~Ask(q)
      BY <1>2 DEF Ask, ViewSteps
    <2>3. PICK s, p : Show(q, s, p) /\ Good(q, s, p)
      BY <2>1, <2>2, ReadingGood DEF ShowsGood
    <2>4. view' = [view EXCEPT ![q] = view[q]]
      BY <2>3 DEF Show, ViewInv, ViewTypeOK
    <2> QED
      BY <1>1, <2>3, <2>4, ReaderMoves DEF Show, Good
  <1>3. CASE vpc[q] = "idle"
    <2>1. PICK c \in ViewCalls : /\ view' = [view EXCEPT ![q] = c]
                                 /\ vpc' = [vpc EXCEPT ![q] = FirstQuery(c.op)]
                                 /\ page' = [page EXCEPT ![q].gid = c.gid]
      BY <1>3 DEF Ask, ViewStep, ViewFails, FindByHandle, FindById, ViewGroup,
                  AuthorizeView, ShowGroup, CountMembers, CollectAdmins,
                  CollectParent, ShowSubgroups, ShowMemberships, ShowMembership,
                  ShowGroups, ShowInvitations, Read, Collects, AtQuery
    <2> DEFINE p == [EmptyPage EXCEPT !.gid = c.gid]
    <2>2. page[q] = EmptyPage
      BY <1>1, <1>3 DEF Gathered
    <2>3. page' = [page EXCEPT ![q] = p]
      BY <2>1, <2>2 DEF ViewInv, ViewTypeOK
    <2>4. /\ DOMAIN p = PageFields /\ p.gid = c.gid /\ p.groups = {} /\ p.rows = {}
          /\ p.role = "none" /\ p.parent = "none"
      BY DEF EmptyPage, PageFields
    <2> HIDE DEF p
    <2>5. c.op \in ViewOps
      BY ViewAssumption DEF ViewRecord
    <2>6. /\ FirstQuery(c.op) \in {"byHandle", "byId", "rows", "group"}
          /\ FirstQuery(c.op) = "byHandle" => c.op = "handle"
          /\ FirstQuery(c.op) = "byId" => c.op = "membership"
          /\ FirstQuery(c.op) = "rows" => c.op \in OwnLists
          /\ FirstQuery(c.op) = "group" => c.op \in {"group", "subgroups", "memberships"}
      BY <2>5 DEF ViewOps, FirstQuery, OwnLists
    <2>7. OfOneGroup(p) /\ FromPast(p, SoFar(q))
      BY <2>4 DEF OfOneGroup, FromPast
    <2>8. Gathered(c, FirstQuery(c.op), p, SoFar(q))
      BY <2>4, <2>6, <2>7 DEF Gathered, StepFits, OwnLists
    <2>9. StillNamed(c, FirstQuery(c.op), p)
      BY <2>4, <2>6 DEF StillNamed
    <2> QED
      BY <2>1, <2>3, <2>4, <2>6, <2>8, <2>9, ReaderMoves DEF ViewSteps
  <1>4. CASE vpc[q] = "done"
    <2>1. Read(q)
      BY <1>4 DEF Ask, ViewStep, ViewFails, FindByHandle, FindById, ViewGroup,
                  AuthorizeView, ShowGroup, CountMembers, CollectAdmins,
                  CollectParent, ShowSubgroups, ShowMemberships, ShowMembership,
                  ShowGroups, ShowInvitations, Collects, AtQuery
    <2>2. Gathered(NoView, "idle", EmptyPage, SoFar(q)) /\ StillNamed(NoView, "idle", EmptyPage)
      BY DEF Gathered, StepFits, ViewSteps, StillNamed
    <2>3. DOMAIN EmptyPage = PageFields
      BY DEF EmptyPage, PageFields
    <2> QED
      BY <2>1, <2>2, <2>3, ReaderMoves DEF Read
  <1> QED
    BY <1>1, <1>2, <1>3, <1>4

(* So does a step of a request: no page changes, and what the views name   *)
(* stays named.                                                            *)
LEMMA WriterStep ==
  ASSUME TypeOK, RowInv, TypeOK', ViewInv, NEW r \in Requests, StepOf(r),
         SameKeys(r), UNCHANGED <<vpc, view, page>>, Witness
  PROVE  ViewInv'
  <1>1. ViewTypeOK'
    BY DEF ViewInv, ViewTypeOK, Witness
  <1>2. ASSUME NEW q \in Readers
        PROVE  Gathered(view'[q], vpc'[q], page'[q], during'[q])
    <2>1. Gathered(view[q], vpc[q], page[q], during[q])
      BY DEF ViewInv
    <2>2. CASE vpc[q] = "idle"
      BY <2>1, <2>2, IdleGathered
    <2>3. CASE vpc[q] # "idle"
      BY <2>1, <2>3, HistoryGrows, PastGrows
    <2> QED
      BY <2>2, <2>3
  <1>3. ASSUME NEW q \in Readers
        PROVE  StillNamed(view[q], vpc[q], page[q])'
    <2>1. StillNamed(view[q], vpc[q], page[q]) /\ view[q] \in ViewRecord \cup {NoView}
      BY ViewTyping DEF ViewInv, ViewTypeOK
    <2> QED
      BY <2>1, NameStays
  <1> QED
    BY <1>1, <1>2, <1>3 DEF ViewInv

(* Before anything happens, all readers are idle.                          *)
LEMMA InitViews == ViewInit => ViewInv
  <1> SUFFICES ASSUME ViewInit PROVE ViewInv
    OBVIOUS
  <1>1. /\ \A q \in Readers : Gathered(NoView, "idle", EmptyPage, {})
        /\ \A q \in Readers : StillNamed(NoView, "idle", EmptyPage)
    BY DEF Gathered, StepFits, ViewSteps, StillNamed
  <1>2. DOMAIN EmptyPage = PageFields
    BY DEF EmptyPage, PageFields
  <1>3. ViewTypeOK
    BY <1>2 DEF ViewInit, ViewTypeOK
  <1> QED
    BY <1>1, <1>3 DEF ViewInit, ViewInv

(* While readers and requests interleave, the tables keep what holds of    *)
(* them, updates keep their keys, and what readers have put together was   *)
(* true and authorized during their calls.                                 *)
ReadersInv ==
  /\ TypeOK /\ RowInv /\ ViewInv
  /\ \A r \in Requests : SameKeys(r)

(* The invariant holds in every state of readers and requests together.    *)
THEOREM ViewInvariance == ViewSpec => []ReadersInv
  <1>1. ViewInit => ReadersInv
    <2>1. Init => \A r \in Requests : SameKeys(r)
      BY DEF Init, StoreInit, NoTx, SameKeys
    <2> QED
      BY <2>1, InitType, InitRows, InitViews DEF ViewInit, ReadersInv
  <1>2. ReadersInv /\ [ViewNext]_<<vars, viewVars>> => ReadersInv'
    <2> SUFFICES ASSUME ReadersInv, [ViewNext]_<<vars, viewVars>> PROVE ReadersInv'
      OBVIOUS
    <2>1. TypeOK' /\ RowInv'
      <3>1. [Next]_vars
        BY DEF ViewNext
      <3> QED
        BY <3>1, NextType, NextRows DEF ReadersInv
    <2>2. CASE UNCHANGED vars
      <3>1. \A r \in Requests : SameKeys(r)'
        BY <2>2 DEF ReadersInv, SameKeys, vars
      <3>2. CASE UNCHANGED viewVars
        <4>1. /\ Snapshot' = Snapshot /\ UNCHANGED <<vpc, view, page, during>>
              /\ groups' = groups /\ members' = members
              /\ memberSeq' = memberSeq /\ tx' = tx
          BY <2>2, <3>2 DEF vars, viewVars, Snapshot
        <4>2. ViewTypeOK'
          BY <4>1 DEF ReadersInv, ViewInv, ViewTypeOK
        <4>3. \A q \in Readers : Gathered(view[q], vpc[q], page[q], during[q])'
          BY <4>1 DEF ReadersInv, ViewInv
        <4>4. \A q \in Readers : StillNamed(view[q], vpc[q], page[q])'
          BY <4>1 DEF ReadersInv, ViewInv, StillNamed, Present, Gone
        <4> QED
          BY <2>1, <3>1, <4>2, <4>3, <4>4 DEF ReadersInv, ViewInv
      <3>3. CASE ReaderNext /\ Witness
        BY <2>1, <2>2, <3>1, <3>3, ReaderStep DEF ReadersInv, ReaderNext
      <3>4. CASE Next /\ UNCHANGED <<vpc, view, page>> /\ Witness
        BY <2>1, <3>1, <3>4, WriterStep DEF ReadersInv, Next, StepOf
      <3> QED
        BY <3>2, <3>3, <3>4 DEF ViewNext
    <2>3. CASE Next /\ UNCHANGED <<vpc, view, page>> /\ Witness
      <3>1. PICK r \in Requests : StepOf(r)
        BY <2>3 DEF Next, StepOf
      <3>2. \A q \in Requests : SameKeys(q)'
        BY <2>1, <3>1, SameKeysStep DEF ReadersInv
      <3>3. ViewInv'
        BY <2>1, <2>3, <3>1, WriterStep DEF ReadersInv
      <3> QED
        BY <2>1, <3>2, <3>3 DEF ReadersInv
    <2> QED
      BY <2>2, <2>3 DEF ViewNext
  <1> QED
    BY <1>1, <1>2, PTL DEF ViewSpec

-----------------------------------------------------------------------------
(* Nobody is shown anything of a group they were not an active member of   *)
(* at some instant of the call, apart from their own invitations.          *)
THEOREM ViewersWereMembers == ViewSpec => []ViewerWasMember
  <1>1. ReadersInv => ViewerWasMember
    <2> SUFFICES ASSUME ReadersInv, NEW q \in Readers, Shown(q)
                 PROVE  Entitled(view[q], page[q], during[q])
      BY DEF ViewerWasMember, Entitled
    <2> QED
      BY DEF ReadersInv, ViewInv, Gathered, Shown
  <1> QED
    BY <1>1, ViewInvariance, PTL

(* Whatever an answer says was true at an instant of the call, and whoever *)
(* is told 403 or 404 was, at one, no active member of the group named.    *)
THEOREM AnswersAreTrue == ViewSpec => []AnsweredTruly
  <1>1. ReadersInv => AnsweredTruly
    <2> SUFFICES ASSUME ReadersInv, NEW q \in Readers, vpc[q] = "done"
                 PROVE  CASE page[q].code = "ok" ->
                          /\ CountsTrue(q) /\ ParentTrue(q)
                          /\ \A g \in page[q].groups :
                               \E s \in during[q] : g \in s.groups
                          /\ \A m \in page[q].rows :
                               \E s \in during[q] : m \in s.members
                          /\ page[q].role # "none" =>
                               \E s \in during[q] : \E m \in s.members :
                                 /\ m.group = page[q].gid /\ m.user = view[q].user
                                 /\ m.accepted /\ m.role = page[q].role
                        [] page[q].code \in {"403", "404"} -> RefusalDeserved(q)
                        [] OTHER -> TRUE
      BY DEF AnsweredTruly
    <2>1. Gathered(view[q], "done", page[q], during[q])
      BY DEF ReadersInv, ViewInv
    <2>2. CASE page[q].code = "ok"
      <3>1. Truthful(view[q], page[q], during[q])
        BY <2>1, <2>2 DEF Gathered
      <3>2. CountsTrue(q)
        BY <3>1 DEF Truthful, Counted, CountsTrue
      <3>3. ParentTrue(q)
        BY <3>1 DEF Truthful, Parented, ParentTrue
      <3> QED
        BY <2>2, <3>1, <3>2, <3>3 DEF Truthful, FromPast, Authorized
    <2>3. CASE page[q].code \in {"403", "404"}
      <3>1. Deserved(view[q], during[q])
        BY <2>1, <2>3 DEF Gathered
      <3>2. RefusalDeserved(q)
        BY <3>1 DEF Deserved, NamedIn, RefusalDeserved
      <3> QED
        BY <2>3, <3>2
    <2> QED
      BY <2>2, <2>3
  <1> QED
    BY <1>1, ViewInvariance, PTL
=============================================================================
