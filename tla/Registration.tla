---------------------------- MODULE Registration ----------------------------
(***************************************************************************)
(* handleRegistration of internal/api/auth.go with the searches of         *)
(* internal/auth/username.go and key.go.  The handler opens no             *)
(* transaction: whether an e-mail, a username or a key is free is one      *)
(* query each, the user row a later INSERT, and only the table's UNIQUE    *)
(* columns hold between them.                                              *)
(***************************************************************************)
EXTENDS Integers

CONSTANTS
  Emails,       \* normalized addresses that pass the input's format
  Unstorable,   \* those among them that users_email_format refuses
  Usernames,    \* what GenerateUsername and randomSlug can yield
  Keys,         \* what GeneratePublicKey can yield
  MaxTries,     \* probes of each search, 100 in the code
  Slots,        \* slots for requests in flight
  None          \* no value

ASSUME RegistrationAssumption ==
  /\ Unstorable \subseteq Emails
  /\ MaxTries \in Nat \ {0}
  /\ None \notin Emails \cup Usernames \cup Keys

VARIABLES
  users,     \* rows of the table users; nothing deletes one
  pc,        \* each request's next step
  asked,     \* its input: an e-mail, a name's base username, or a bad form
  draft,     \* the row it is putting together
  tries,     \* probes of the current search so far
  reply,     \* its answer
  met,       \* history: the users there when the call came in
  unprobed   \* history: the username comes from the fallback

slotVars == <<pc, asked, draft, tries, reply, met, unprobed>>
regVars  == <<users, slotVars>>

UserType  == [email : Emails, username : Usernames, key : Keys]
DraftType == [email : Emails \cup {None}, username : Usernames \cup {None},
              key : Keys \cup {None}]
Row(e, u, k) == [email |-> e, username |-> u, key |-> k]
NoDraft      == Row(None, None, None)

AskedType == [email : Emails, base : Usernames, valid : BOOLEAN]
NotAsked  == [email |-> None, base |-> None, valid |-> FALSE]

Taken(column, v) == \E u \in users : u[column] = v

-----------------------------------------------------------------------------
Goto(r, step) == pc' = [pc EXCEPT ![r] = step]

Answer(r, code) ==
  /\ Goto(r, "done")
  /\ reply' = [reply EXCEPT ![r] = code]
  /\ UNCHANGED <<asked, draft, tries, met, unprobed>>

Write(r, e, u, k) == draft' = [draft EXCEPT ![r] = Row(e, u, k)]

Receive(r) ==
  /\ pc[r] = "idle"
  /\ \E a \in AskedType : asked' = [asked EXCEPT ![r] = a]
  /\ met' = [met EXCEPT ![r] = users]
  /\ Goto(r, "validate")
  /\ UNCHANGED <<users, draft, tries, reply, unprobed>>

Finish(r) ==
  /\ pc[r] = "done"
  /\ Goto(r, "idle")
  /\ asked'    = [asked EXCEPT ![r] = NotAsked]
  /\ draft'    = [draft EXCEPT ![r] = NoDraft]
  /\ tries'    = [tries EXCEPT ![r] = 0]
  /\ reply'    = [reply EXCEPT ![r] = "none"]
  /\ met'      = [met EXCEPT ![r] = {}]
  /\ unprobed' = [unprobed EXCEPT ![r] = FALSE]
  /\ UNCHANGED users

-----------------------------------------------------------------------------
(* The name and the password with its confirmation. *)
Validate(r) ==
  /\ pc[r] = "validate"
  /\ \/ /\ ~asked[r].valid
        /\ Answer(r, "422")
     \/ /\ asked[r].valid
        /\ Goto(r, "email")
        /\ UNCHANGED <<asked, draft, tries, reply, met, unprobed>>
  /\ UNCHANGED users

(* EmailExists; then the password is hashed and a first username made of   *)
(* the name.                                                               *)
CheckEmail(r) ==
  /\ pc[r] = "email"
  /\ \/ /\ Taken("email", asked[r].email)
        /\ Answer(r, "409")
     \/ /\ ~Taken("email", asked[r].email)
        /\ Write(r, asked[r].email, asked[r].base, None)
        /\ Goto(r, "username")
        /\ UNCHANGED <<asked, tries, reply, met, unprobed>>
  /\ UNCHANGED users

(* One probe of a search, and the value to go on with: the one probed if   *)
(* it is free; else one more, as long as tries are left.                   *)
Found(r, next) ==
  /\ tries' = [tries EXCEPT ![r] = 0]
  /\ Goto(r, next)

(* Mutant: one probe too many. *)
TryAgainOnceMore(r) ==
  /\ tries[r] < MaxTries
  /\ tries' = [tries EXCEPT ![r] = @ + 1]
  /\ UNCHANGED pc

TryAgain(r) ==
  /\ tries[r] < MaxTries - 1
  /\ tries' = [tries EXCEPT ![r] = @ + 1]
  /\ UNCHANGED pc

OutOfTries(r) == tries[r] = MaxTries - 1

(* MakeUsernameUnique: the base, then the base with random suffixes, and   *)
(* at last a random name that is not probed.  The first key is drawn when  *)
(* the username is settled.                                                *)
ProbeUsername(r) ==
  /\ pc[r] = "username"
  /\ \/ /\ ~Taken("username", draft[r].username)
        /\ \E k \in Keys : Write(r, draft[r].email, draft[r].username, k)
        /\ Found(r, "key")
        /\ UNCHANGED unprobed
     \/ /\ Taken("username", draft[r].username)
        /\ TryAgain(r)
        /\ \E u \in Usernames \ {asked[r].base} :
             Write(r, draft[r].email, u, None)
        /\ UNCHANGED unprobed
     \/ /\ Taken("username", draft[r].username)
        /\ OutOfTries(r)
        /\ \E u \in Usernames, k \in Keys : Write(r, draft[r].email, u, k)
        /\ Found(r, "key")
        /\ unprobed' = [unprobed EXCEPT ![r] = TRUE]
  /\ UNCHANGED <<users, asked, reply, met>>

NextKey(r) ==
  \E k \in Keys : Write(r, draft[r].email, draft[r].username, k)

(* Mutant: the search never counts its probes. *)
ProbeKeyForever(r) ==
  /\ pc[r] = "key"
  /\ IF Taken("key", draft[r].key)
     THEN /\ NextKey(r)
          /\ UNCHANGED <<pc, tries>>
     ELSE Found(r, "insert") /\ UNCHANGED draft
  /\ UNCHANGED <<users, asked, reply, met, unprobed>>

(* Mutant: the key of the last try is taken without a probe. *)
ProbeKeyButTheLast(r) ==
  /\ pc[r] = "key"
  /\ IF Taken("key", draft[r].key) /\ ~OutOfTries(r)
     THEN TryAgain(r) /\ NextKey(r)
     ELSE Found(r, "insert") /\ UNCHANGED draft
  /\ UNCHANGED <<users, asked, reply, met, unprobed>>

(* MakePublicKeyUnique, which gives up instead. *)
ProbeKey(r) ==
  /\ pc[r] = "key"
  /\ \/ /\ ~Taken("key", draft[r].key)
        /\ Found(r, "insert")
        /\ UNCHANGED <<asked, draft, reply, met, unprobed>>
     \/ /\ Taken("key", draft[r].key)
        /\ TryAgain(r)
        /\ NextKey(r)
        /\ UNCHANGED <<asked, reply, met, unprobed>>
     \/ /\ Taken("key", draft[r].key)
        /\ OutOfTries(r)
        /\ Answer(r, "500")
  /\ UNCHANGED users

(* The UNIQUE columns and users_email_format. *)
Refused(d) ==
  \/ \E column \in {"email", "username", "key"} : Taken(column, d[column])
  \/ d.email \in Unstorable

(* Mutant: the table has its UNIQUE on the e-mail only. *)
CreateUserUnkeyed(r) ==
  /\ pc[r] = "insert"
  /\ draft[r].email \notin Unstorable /\ ~Taken("email", draft[r].email)
  /\ users' = users \cup {draft[r]}
  /\ Answer(r, "201")

(* CreateUser, an INSERT on its own.  Whatever refuses it is answered 500. *)
CreateUser(r) ==
  /\ pc[r] = "insert"
  /\ \/ /\ Refused(draft[r])
        /\ UNCHANGED users
        /\ Answer(r, "500")
     \/ /\ ~Refused(draft[r])
        /\ users' = users \cup {draft[r]}
        /\ Answer(r, "201")

(* A query or the hashing fails.  (The searches take a failed query for a  *)
(* taken value, go on, and answer 500 at their end.)                       *)
Fail(r) ==
  /\ pc[r] \in {"email", "username", "key", "insert"}
  /\ Answer(r, "500")
  /\ UNCHANGED users

-----------------------------------------------------------------------------
Init ==
  /\ users    = {}
  /\ pc       = [r \in Slots |-> "idle"]
  /\ asked    = [r \in Slots |-> NotAsked]
  /\ draft    = [r \in Slots |-> NoDraft]
  /\ tries    = [r \in Slots |-> 0]
  /\ reply    = [r \in Slots |-> "none"]
  /\ met      = [r \in Slots |-> {}]
  /\ unprobed = [r \in Slots |-> FALSE]

HandlerStep(r) ==
  \/ Validate(r) \/ CheckEmail(r)
  \/ ProbeUsername(r) \/ ProbeKey(r) \/ CreateUser(r)

Next == \E r \in Slots : Receive(r) \/ HandlerStep(r) \/ Fail(r) \/ Finish(r)

Spec == Init /\ [][Next]_regVars

(* The server runs every request it has begun; neither clients nor         *)
(* failures are fair.                                                      *)
FairSpec == Spec /\ \A r \in Slots : WF_regVars(HandlerStep(r))

-----------------------------------------------------------------------------
(* Types. *)
TypeOK ==
  /\ users \subseteq UserType
  /\ pc \in [Slots -> {"idle", "validate", "email", "username", "key",
                       "insert", "done"}]
  /\ asked \in [Slots -> AskedType \cup {NotAsked}]
  /\ draft \in [Slots -> DraftType]
  /\ tries \in [Slots -> 0 .. MaxTries - 1]
  /\ reply \in [Slots -> {"none", "201", "409", "422", "500"}]
  /\ met \in [Slots -> SUBSET users]
  /\ unprobed \in [Slots -> BOOLEAN]
  /\ \A r \in Slots :
       /\ pc[r] \notin {"idle", "done"} => asked[r] \in AskedType
       /\ pc[r] = "username" =>
            draft[r].email \in Emails /\ draft[r].username \in Usernames
       /\ pc[r] \in {"key", "insert"} => draft[r] \in UserType

(* No two accounts share an e-mail, a username or a key, however many      *)
(* registrations found the same one free.                                  *)
UsersUnique ==
  \A u, v \in users :
    u # v => u.email # v.email /\ u.username # v.username /\ u.key # v.key

(* The searches do their part: what the INSERT can stumble over is only a  *)
(* user registered while the call was running - or the one username that   *)
(* is not probed.                                                          *)
OnlyNewcomersClash ==
  \A r \in Slots :
    pc[r] = "insert" =>
      \A u \in met[r] :
        /\ u.email # draft[r].email
        /\ u.key # draft[r].key
        /\ u.username = draft[r].username => unprobed[r]

(* The searches end: each registration the server has received is          *)
(* answered, whatever others register meanwhile.                           *)
RegistrationAnswered ==
  \A r \in Slots : pc[r] = "validate" ~> pc[r] = "done"

=============================================================================
