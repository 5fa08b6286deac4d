------------------------- MODULE RegistrationProofs -------------------------
(***************************************************************************)
(* Theorems about Registration, for any numbers of requests, addresses,    *)
(* usernames, keys and tries.                                              *)
(***************************************************************************)
EXTENDS Registration, TLAPS

(* A row has the fields written and belongs to the types of its values. *)
LEMMA RowFields ==
  ASSUME NEW e, NEW u, NEW k
  PROVE  /\ Row(e, u, k).email = e
         /\ Row(e, u, k).username = u
         /\ Row(e, u, k).key = k
         /\ e \in Emails /\ u \in Usernames /\ k \in Keys \cup {None} =>
              Row(e, u, k) \in DraftType
         /\ e \in Emails /\ u \in Usernames /\ k \in Keys =>
              Row(e, u, k) \in UserType
BY DEF Row, DraftType, UserType

(* A row ready for the table has its three values. *)
LEMMA UserFields ==
  ASSUME NEW d \in UserType
  PROVE  d.email \in Emails /\ d.username \in Usernames /\ d.key \in Keys
BY DEF UserType

(* The input a request holds is an e-mail and a base username. *)
LEMMA AskedFields ==
  ASSUME NEW a \in AskedType PROVE a.email \in Emails /\ a.base \in Usernames
BY DEF AskedType

(* Writing a request's row changes that row only. *)
LEMMA WriteRow ==
  ASSUME TypeOK, NEW r \in Slots, NEW e \in Emails, NEW u \in Usernames,
         NEW k \in Keys \cup {None}, Write(r, e, u, k)
  PROVE  /\ draft' \in [Slots -> DraftType]
         /\ draft'[r] = Row(e, u, k)
         /\ draft'[r].email = e /\ draft'[r].username = u /\ draft'[r].key = k
         /\ k \in Keys => draft'[r] \in UserType
         /\ \A q \in Slots \ {r} : draft'[q] = draft[q]
<1>1. Row(e, u, k) \in DraftType /\ (k \in Keys => Row(e, u, k) \in UserType)
  BY RowFields
<1>2. draft' = [draft EXCEPT ![r] = Row(e, u, k)] /\ draft \in [Slots -> DraftType]
  BY DEF Write, TypeOK
<1>3. /\ draft' \in [Slots -> DraftType]
      /\ draft'[r] = Row(e, u, k)
      /\ \A q \in Slots \ {r} : draft'[q] = draft[q]
  BY <1>1, <1>2
<1> QED
  BY <1>1, <1>3, RowFields

(* Every step keeps the types. *)
LEMMA TypeStep == TypeOK /\ [Next]_regVars => TypeOK'
<1> SUFFICES ASSUME TypeOK, [Next]_regVars PROVE TypeOK'
    OBVIOUS
<1> USE RegistrationAssumption DEF TypeOK
<1>1. CASE UNCHANGED regVars
  BY <1>1 DEF regVars, slotVars
<1>2. ASSUME NEW r \in Slots, Receive(r) PROVE TypeOK'
  BY <1>2 DEF Receive, Goto
<1>3. ASSUME NEW r \in Slots, Validate(r) PROVE TypeOK'
  BY <1>3 DEF Validate, Goto, Answer
<1>4. ASSUME NEW r \in Slots, CheckEmail(r) PROVE TypeOK'
  <2>1. asked[r].email \in Emails /\ asked[r].base \in Usernames
    BY <1>4, AskedFields DEF CheckEmail
  <2>2. CASE Answer(r, "409")
    BY <1>4, <2>2 DEF CheckEmail, Answer, Goto
  <2>3. CASE Write(r, asked[r].email, asked[r].base, None)
    <3>1. /\ draft' \in [Slots -> DraftType]
          /\ draft'[r].email \in Emails /\ draft'[r].username \in Usernames
          /\ \A q \in Slots \ {r} : draft'[q] = draft[q]
      BY <2>1, <2>3, WriteRow
    <3> QED
      BY <1>4, <2>3, <3>1 DEF CheckEmail, Answer, Goto
  <2> QED
    BY <1>4, <2>2, <2>3 DEF CheckEmail
<1>5. ASSUME NEW r \in Slots, ProbeUsername(r) PROVE TypeOK'
  <2>1. draft[r].email \in Emails /\ draft[r].username \in Usernames
    BY <1>5 DEF ProbeUsername
  <2>2. /\ draft' \in [Slots -> DraftType]
        /\ draft'[r].email \in Emails /\ draft'[r].username \in Usernames
        /\ \A q \in Slots \ {r} : draft'[q] = draft[q]
    BY <1>5, <2>1, WriteRow DEF ProbeUsername
  <2>3. \/ pc' = pc /\ pc[r] = "username"
        \/ pc' = [pc EXCEPT ![r] = "key"] /\ draft'[r] \in UserType
    BY <1>5, <2>1, WriteRow DEF ProbeUsername, Found, TryAgain, Goto
  <2>4. pc' \in [Slots -> {"idle", "validate", "email", "username", "key",
                          "insert", "done"}]
    BY <2>3
  <2>5. tries' \in [Slots -> 0 .. MaxTries - 1]
    BY <1>5 DEF ProbeUsername, Found, TryAgain
  <2>6. unprobed' \in [Slots -> BOOLEAN]
    BY <1>5 DEF ProbeUsername
  <2>7. UNCHANGED <<users, asked, reply, met>> /\ asked[r] \in AskedType
    BY <1>5 DEF ProbeUsername
  <2> QED
    <3>1. CASE pc' = pc /\ pc[r] = "username"
      BY <2>2, <2>4, <2>5, <2>6, <2>7, <3>1
    <3>2. CASE pc' = [pc EXCEPT ![r] = "key"] /\ draft'[r] \in UserType
      BY <2>2, <2>4, <2>5, <2>6, <2>7, <3>2
    <3> QED
      BY <2>3, <3>1, <3>2
<1>6. ASSUME NEW r \in Slots, ProbeKey(r) PROVE TypeOK'
  <2>1. draft[r] \in UserType
    BY <1>6 DEF ProbeKey
  <2>2. UNCHANGED draft \/ NextKey(r)
    BY <1>6 DEF ProbeKey, Answer
  <2>3. /\ draft' \in [Slots -> DraftType]
        /\ draft'[r] \in UserType
        /\ \A q \in Slots \ {r} : draft'[q] = draft[q]
    BY <2>1, <2>2, UserFields, WriteRow DEF NextKey
  <2> QED
    BY <1>6, <2>3 DEF ProbeKey, Found, TryAgain, OutOfTries, Goto, Answer
<1>7. ASSUME NEW r \in Slots, CreateUser(r) PROVE TypeOK'
  <2>1. draft[r] \in UserType
    BY <1>7 DEF CreateUser
  <2>2. users' \subseteq UserType /\ users \subseteq users'
    BY <1>7, <2>1 DEF CreateUser
  <2> QED
    BY <1>7, <2>2 DEF CreateUser, Goto, Answer
<1>8. ASSUME NEW r \in Slots, Fail(r) PROVE TypeOK'
  BY <1>8 DEF Fail, Goto, Answer
<1>9. ASSUME NEW r \in Slots, Finish(r) PROVE TypeOK'
  BY <1>9 DEF Finish, Goto, NoDraft, Row, DraftType
<1> QED
  BY <1>1, <1>2, <1>3, <1>4, <1>5, <1>6, <1>7, <1>8, <1>9 DEF Next, HandlerStep

(* Every variable keeps its type: a row reaches the INSERT complete, and   *)
(* the users a call met are users still.                                   *)
THEOREM RegistrationTypes == Spec => []TypeOK
<1>1. Init => TypeOK
  BY RegistrationAssumption DEF Init, TypeOK, UserType, DraftType, AskedType,
     NotAsked, NoDraft, Row
<1> QED
  BY <1>1, TypeStep, PTL DEF Spec

-----------------------------------------------------------------------------
(* The table changes only by an INSERT nothing refused. *)
LEMMA TableStep ==
  ASSUME [Next]_regVars
  PROVE  \/ UNCHANGED users
         \/ \E r \in Slots : /\ pc[r] = "insert"
                             /\ ~Refused(draft[r])
                             /\ users' = users \cup {draft[r]}
BY DEF Next, HandlerStep, Receive, Validate, CheckEmail, ProbeUsername, ProbeKey,
   CreateUser, Fail, Finish, regVars

(* No two accounts share an e-mail, a username or a key: the INSERT alone  *)
(* sees to it, whatever the searches found before.                         *)
THEOREM UniqueUsers == Spec => []UsersUnique
<1>1. Init => UsersUnique
  BY DEF Init, UsersUnique
<1>2. UsersUnique /\ [Next]_regVars => UsersUnique'
  <2> SUFFICES ASSUME UsersUnique, [Next]_regVars PROVE UsersUnique'
      OBVIOUS
  <2>1. CASE UNCHANGED users
    BY <2>1 DEF UsersUnique
  <2>2. ASSUME NEW r \in Slots, ~Refused(draft[r]), users' = users \cup {draft[r]}
        PROVE  UsersUnique'
    <3>1. \A u \in users : /\ u.email # draft[r].email
                           /\ u.username # draft[r].username
                           /\ u.key # draft[r].key
      BY <2>2 DEF Refused, Taken
    <3> QED
      BY <2>2, <3>1 DEF UsersUnique
  <2> QED
    BY <2>1, <2>2, TableStep
<1> QED
  BY <1>1, <1>2, PTL DEF Spec

-----------------------------------------------------------------------------
(* What a search has settled clashes with no user the call met.  It holds  *)
(* of an address from its query on, of a username from its probe on unless *)
(* it is the fallback, and of a key from its probe on.                     *)
Settled(r) ==
  \A u \in met[r] :
    /\ pc[r] \in {"username", "key", "insert"} => u.email # draft[r].email
    /\ pc[r] \in {"key", "insert"} /\ u.username = draft[r].username => unprobed[r]
    /\ pc[r] = "insert" => u.key # draft[r].key

SearchesSettled == TypeOK /\ \A r \in Slots : Settled(r)

(* Every step keeps what is settled, the step's own request's and others'. *)
LEMMA SettledStep ==
  ASSUME TypeOK, NEW q \in Slots, Settled(q), [Next]_regVars
  PROVE  Settled(q)'
<1> USE DEF TypeOK, Settled
<1>1. CASE UNCHANGED regVars
  BY <1>1 DEF regVars, slotVars
<1>2. ASSUME NEW r \in Slots, Receive(r) PROVE Settled(q)'
  BY <1>2 DEF Receive, Goto
<1>3. ASSUME NEW r \in Slots, Validate(r) PROVE Settled(q)'
  BY <1>3 DEF Validate, Goto, Answer
<1>4. ASSUME NEW r \in Slots, CheckEmail(r) PROVE Settled(q)'
  <2>1. asked[r].email \in Emails /\ asked[r].base \in Usernames
    BY <1>4, AskedFields DEF CheckEmail
  <2>2. CASE Answer(r, "409")
    BY <1>4, <2>2 DEF CheckEmail, Answer, Goto
  <2>3. CASE Write(r, asked[r].email, asked[r].base, None) /\ ~Taken("email", asked[r].email)
    <3>1. draft'[r].email = asked[r].email /\ \A p \in Slots \ {r} : draft'[p] = draft[p]
      BY <2>1, <2>3, WriteRow
    <3>2. \A u \in met[r] : u.email # asked[r].email
      BY <2>3 DEF Taken
    <3> QED
      BY <1>4, <2>3, <3>1, <3>2 DEF CheckEmail, Answer, Goto
  <2> QED
    BY <1>4, <2>2, <2>3 DEF CheckEmail
<1>5. ASSUME NEW r \in Slots, ProbeUsername(r) PROVE Settled(q)'
  <2>1. draft[r].email \in Emails /\ draft[r].username \in Usernames
    BY <1>5 DEF ProbeUsername
  <2>2. /\ draft'[r].email = draft[r].email
        /\ \A p \in Slots \ {r} : draft'[p] = draft[p]
    BY <1>5, <2>1, WriteRow DEF ProbeUsername
  <2>3. Goto(r, "key") =>
          \/ unprobed'[r]
          \/ \A u \in met[r] : u.username # draft'[r].username
    BY <1>5, <2>1, WriteRow DEF ProbeUsername, TryAgain, Goto, Taken
  <2>4. Goto(r, "key") \/ UNCHANGED pc
    BY <1>5 DEF ProbeUsername, Found, TryAgain
  <2> QED
    BY <1>5, <2>2, <2>3, <2>4 DEF ProbeUsername, Goto
<1>6. ASSUME NEW r \in Slots, ProbeKey(r) PROVE Settled(q)'
  <2>1. draft[r].email \in Emails /\ draft[r].username \in Usernames
    BY <1>6, UserFields DEF ProbeKey
  <2>2. CASE UNCHANGED draft /\ ~Taken("key", draft[r].key)
    BY <1>6, <2>2 DEF ProbeKey, Found, TryAgain, Goto, Answer, Taken
  <2>3. CASE Answer(r, "500")
    BY <1>6, <2>3 DEF ProbeKey, Answer, Goto
  <2>4. CASE NextKey(r) /\ UNCHANGED pc
    <3>1. /\ draft'[r].email = draft[r].email
          /\ draft'[r].username = draft[r].username
          /\ \A p \in Slots \ {r} : draft'[p] = draft[p]
      BY <2>1, <2>4, WriteRow DEF NextKey
    <3> QED
      BY <1>6, <2>4, <3>1 DEF ProbeKey, TryAgain, Answer
  <2> QED
    BY <1>6, <2>2, <2>3, <2>4 DEF ProbeKey, TryAgain
<1>7. ASSUME NEW r \in Slots, CreateUser(r) PROVE Settled(q)'
  BY <1>7 DEF CreateUser, Goto, Answer
<1>8. ASSUME NEW r \in Slots, Fail(r) PROVE Settled(q)'
  BY <1>8 DEF Fail, Goto, Answer
<1>9. ASSUME NEW r \in Slots, Finish(r) PROVE Settled(q)'
  BY <1>9 DEF Finish, Goto
<1> QED
  BY <1>1, <1>2, <1>3, <1>4, <1>5, <1>6, <1>7, <1>8, <1>9 DEF Next, HandlerStep

(* An INSERT can be refused only because of somebody registered while the  *)
(* call was running, or because of the one username nobody probes.         *)
THEOREM ClashesAreNew == Spec => []OnlyNewcomersClash
<1>1. Init => SearchesSettled
  BY RegistrationAssumption DEF Init, SearchesSettled, Settled, TypeOK, UserType,
     DraftType, AskedType, NotAsked, NoDraft, Row
<1>2. SearchesSettled /\ [Next]_regVars => SearchesSettled'
  BY SettledStep, TypeStep DEF SearchesSettled
<1>3. SearchesSettled => OnlyNewcomersClash
  BY DEF SearchesSettled, Settled, OnlyNewcomersClash
<1> QED
  BY <1>1, <1>2, <1>3, PTL DEF Spec
=============================================================================
