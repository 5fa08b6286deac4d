# A verification project for llmio

llmio is a Go server (huma, pgx, PostgreSQL) for groups whose members decide
together.  Its core logic is the groups and memberships API: who may change
what, and that what several requests do to one database at the same time adds
up.  This directory models that API in TLA+, and with it the audit trail, the
accounts and sessions, the names and the server process it relies on; TLC checks
the models and TLAPS proves their invariants, their action properties and that
the API implements its abstract specification.

Paths below are relative to the repository root (`src/`).

## Inventory

| Component | State it keeps | Operations | What is hard |
|---|---|---|---|
| Membership handlers `internal/api/memberships.go` | none of their own; rows of `memberships` | invite, accept, promote, demote, remove; three reads | checks on rows read one query at a time, outside the transaction that writes; answers put together from several queries |
| Group handlers `internal/api/groups.go` | rows of `groups` (and the creator's membership) | create, create subgroup, update, archive, unarchive; four reads | search for a free handle before the transaction; two inserts in one transaction |
| Authorization `internal/api/authorization.go` | an `AuthorizationContext` per request | two queries, six `Can...` predicates | the two halves come from different snapshots |
| Tables, keys, triggers `migrations/003`, `004` | the rows | unique keys, last-admin trigger | READ COMMITTED: the trigger sees committed rows only |
| Connection pool `internal/db/pool.go` | free connections | acquire, release | exhaustion; waiting for a lock while holding one |
| Sessions and login `internal/auth/session.go`, `internal/api/auth.go` | an in-memory `sync.Map` | create, get, delete, clean-up goroutine | expiry against use, deactivated accounts |
| Registration `internal/api/auth.go`, `internal/auth/username.go`, `key.go`, `migrations/001` | rows of `users` | register | existence checks that race with the INSERT |
| Audit trail `migrations/002`, `005`, `internal/db/audit.go` | `audit.record_version` | trigger per row, actor per transaction | actor of a pooled connection; identifiers drawn while transactions overlap; rollbacks |
| Server life cycle `cmd/server/main.go` | goroutines, signal, error channel | start, serve, shut down | shutdown racing with requests, a second signal, the deadline and a listener that fails |
| Configuration `internal/config`, `internal/validation` | one `Config` | load defaults, file, environment, flags | rules that relate values of different layers |
| Names: handles, usernames, the password in the DSN | none | generate, probe, escape | cuts, trims and suffixes against a format another part checks |
| Migration command, password hashing, logging, DTOs, test support | - | - | no state that others read |

How they interact: every handler looks up its session once, in memory; then
asks the database with single queries, each on a connection of the pool and on
its own snapshot; decides; and, if it writes, does so in one
`pgx.BeginTxFunc` with default options (READ COMMITTED), whose first statement
sets the actor for the audit triggers.  Nothing read before the transaction is
locked or read again in it.  What stands between concurrent handlers is
PostgreSQL: row locks, unique indexes and the trigger `prevent_last_admin_removal`.

What makes each part correct:

- Memberships: one row per user and group; a roster that changes only by
  invite, accept, role change and removal; no committed change lost; an active
  admin in every group; invitations accepted once and not in archived groups.
- Groups: unique handles; a generated handle that is the first free one; a
  PATCH that changes what it names; a group founded together with its admin.
- Authorization: a write was allowed at some moment of the call.
- Pool and transactions: whatever a handler answers, its transaction, locks
  and connection end with it; every call is answered.
- Sessions: an ended or expired session authorizes nothing; a session ends for
  a cause; expired ones leave memory.  Registration: unique e-mail, username
  and key, and searches that end.
- Audit: the trail replays to the tables, and each change is signed by a user
  the trail itself shows to be entitled to it.
- Views: nothing is shown to a user who was no member during the call, and every
  part of an answer was true at some instant of it.
- Server: sound values only reach the pool and the ticker; the end of the
  process cuts no transaction, unless a signal comes before the server listens to
  signals, and, when it is orderly, owes nobody an answer; and it comes.
- Names: what is made of a name is what the CHECK or the parser accepts.

## Modules

| Module | Models | Uses |
|---|---|---|
| `Schema` | rows, keys and defaults of the two tables | |
| `Authorization` | `AuthorizationContext` and its predicates | `Schema` |
| `Store` | tables, identifier sequences, pool, transactions, locks; the steps every handler shares (`Receive`, `ReadGroup`, `Decide`, `Begin`, `WriteMember`, `WriteGroup`, `Commit`, `Answer`, `Fail`, `Finish`) | `Authorization` |
| `Memberships` | the five handlers that change a roster, and the trigger | `Store` |
| `Groups` | the five handlers that change groups | `Store` |
| `Llmio` | the composition: `Init`, `Next`, fairness, the properties | `Memberships`, `Groups` |
| `MembershipLifecycle` | what the API promises about a roster, abstractly | |
| `Authority` | `Llmio` with a history of the rights each caller has had | `Llmio` |
| `AuditTrail` | `Authority` with the connection of each transaction, the actor set on it and the rows of `audit.record_version` | `Authority` |
| `Views` | the seven handlers that only read, interleaved with `Llmio` | `Llmio` |
| `MCLlmio`, `MCAuthority`, `MCAudit`, `MCViews` | databases and calls for TLC | |
| `LlmioProofs` | theorems: types, rows, the shape of every step | `Llmio` |
| `GroupProofs` | theorems: admins, flags, handles, the refinement | `LlmioProofs` |
| `AuditProofs` | theorems: the rights behind every write, and the trail | `AuditTrail`, `LlmioProofs` |
| `ViewProofs` | theorems: what readers are shown | `Views`, `LlmioProofs` |
| `Sessions`, `SessionProofs` | the session store, login, logout, the session end point, the clean-up goroutine | |
| `Registration`, `RegistrationProofs` | the registration handler, its two searches and its INSERT | |
| `Configuration` | the layers, their precedence and the validation | |
| `Server`, `MCServer`, `ServerProofs` | `main` and `runServer`, their goroutines, and the requests as far as the end of the process concerns them | `Configuration` |
| `Naming`, `MCNaming`, `NamingProofs` | handles, usernames and the quoted password, as text | |

`Sessions` and `Registration` stand apart from `Llmio` because nothing they do
touches the tables of groups and memberships, and nothing `Llmio` does touches
accounts or sessions: a handler looks its session up once, in memory, before
its first query, and the set of accounts only grows.  `Server` keeps of a request
only its connection, its change, its line in the log and its answer, because it
is about the process and not about the rows; `Naming` is the text that `Groups`
and `Registration` reduce to a number and a base.

### State

`groups`, `members` are the committed rows; `groupSeq`, `memberSeq` the
sequences behind BIGSERIAL, which a rollback does not turn back.  For each
request slot: `pc` is the next query or statement of its handler, `call` its
input, `seen` the local variables it still needs (the looked-up group id and
role, the archived mark and flags of the group row, the handle chosen), `tx`
its open transaction with the rows it replaces (`mDel`, `gDel`) and the rows it
puts there (`mIns`, `gIns`), and `reply` the answer's code.

`AuditTrail` adds the committed rows of the trail, the rows each open transaction
has `pending`, the sequence behind their identifiers, the pooled connection each
transaction runs on (`conn`) and the `setting` of each connection's session, which
outlives the transaction unless something clears it.  `Views` adds for each reader slot the next query (`vpc`), the input
(`view`), the answer so far (`page`) and a history, `during`, of the committed
tables at each instant of the call.  In `Server`, `main` is the next step of
`main` and `runServer`, `deferred` its stack of deferred calls; `logger`, `pool`,
`sweeper` and `listener` are the parts it starts, `serverErr` and `quit` the
channels, and `at` where the goroutine of each client connection is.  `debt` is
what its client does not know yet and `harm` what requests met that they should
not; these two are histories.

### Steps

One action is one query or one statement; between two of them any other
request may run.  For `handleDemoteMember`, for example:

    Receive          session lookup, decoding of the input
    LoadMembership   GetMembershipByID                    -> 404, or
    ReadGroup        GetGroupByID                         -> 404, or
    AuthorizeDemote  GetMembershipByGroupAndUser, checks  -> 403, 409, or
    CountAdmins      CountAdminsByGroup                   -> last admin, or
    Begin            BEGIN, set_config
    UpdateMembership UPDATE with its trigger              -> last admin, 500, or
    Commit           COMMIT                               -> 200 (or 500, see below)

`Fail` ends any of these steps but the pure one with 500 and a rollback: a
failed query, a broken connection, a client that went away.  The third
disjunct of `Commit` is a COMMIT that happened and whose acknowledgement was
lost.  A statement waits (its action is disabled) while another transaction
has written the row it changes, or a row with the unique key it inserts
(`MemberLocked`, `MemberKeyLocked`, `GroupLocked`, `HandleLocked`); afterwards
it works on the version then committed, as READ COMMITTED does.  Every query
and every `Begin` needs a free connection (`ConnFree`).

In `Sessions` the steps are the accesses to the `sync.Map` and the queries:
`LoadSession` and `CheckExpiry` are the two halves of `SessionStore.Get`;
`IssueSession` and `StoreSession` those of `Create`; `Visit`, `EndRange` and
`DeleteCollected` are `CleanupExpired`.  A token is the number of its session.
As all sessions live equally long they expire in the order they were created,
so the clock is one number, `lapsed`.  `Act` is any handler of the other two
APIs, which goes on once `Get` has returned; `Restart` empties the map.  The two
statements on accounts (`UpdateUserEmailVerified`, `DeactivateUser`) have no
caller in the server; they may happen at any moment.

In `Registration` every probe of `MakeUsernameUnique` and
`MakePublicKeyUnique` is a query of its own, and so is the INSERT.  The base
username of a call is part of its input; what is drawn at random is any member
of `Usernames` or `Keys`.  `Unstorable` are addresses that the input's format
admits and the table's CHECK does not (`ann@localhost`).  A query of a search
that fails makes the code probe on and answer 500 at the end; the model answers
at once, since probes only read.

In `AuditTrail` each action is one of `Llmio` joined with its part of the trail:
`Begin` takes an idle connection and sets the actor there, a statement that succeeds fires the trigger of the row it
wrote, `Commit` publishes the rows and every other end discards them (but not the
identifiers drawn).  What the end of a transaction leaves on its connection is
`SettingAfterCommit`: a rollback undoes `set_config` in any case, a commit because the
code passes `is_local`.  In `Views`, `handleGetGroupByHandle` for example is

    Ask            session lookup
    FindByHandle   GetGroupByHandle                      -> 404, or
    ViewGroup      GetGroupByID                          -> 500, or
    AuthorizeView  GetMembershipByGroupAndUser, check    -> 403, or
    CountMembers   CountGroupMembers
    CollectAdmins  CountGroupAdmins
    CollectParent  GetGroupByID of the parent, if any    -> 200

In `Server`, `LoadConfig` to `Notify` are the start, each step with its failure;
`Select` is the receive from one of the two channels, `CallShutdown` the call of
`server.Shutdown` and `Shutdown` its return, `Unwind` one deferred call and `Exit` the exit code of `main`.
`pool.Close` is two steps, because pgx first refuses further `Acquire`s and then
waits for the connections in use.  A signal before `Notify` kills the process; one
that finds `quit` full is dropped.  The listener is `"binding"` between the two looks
`ListenAndServe` takes at a shutdown, before and after `net.Listen`; while it binds it
can fail and send its error, also when `main` has left its select.  In `Naming`, a text is a sequence of kinds of
characters; `MakeHandle` and `ProbeHandle` are `GenerateUniqueHandle`,
`MakeUsername` and `ProbeUsername` the two functions of `username.go`, `MakeDSN`
what `DSN` writes and the driver reads back.  What is taken is chosen as it is
asked for, and stays taken.  A loop over a text is a `Fold` of a function of the
result so far and the next character, and `itoa` a recursive function, so that
lemmas can be stated about them.

### What is abstracted

- Text, except in `Naming`.  A handle is the number of its suffix (0 the base, n
  for `base-n`); whether name and handle pass the validation is one Boolean of
  the call.  `Naming` has one letter, one capital, one accented letter, one letter
  of another script and the ten digits; a random slug is one repeated character.
  That the longest base can give way to its suffix without two suffixes meeting
  is checked and proved there (`GivesUpOnlyWhenAllTaken`).
- A timestamp that may be NULL is the Boolean "is set".
- Accounts are never deleted by this code, so the lookup of the invited user
  reads a constant and is part of `AuthorizeInvite`; that it may fail is `Fail`.
- A query for a free handle that fails lets the search go on and then answers
  500; the model answers 500 at once (the further probes only read).
- The inviter fetched for the answer of an invitation, after its commit, cannot
  change anything and is left out.
- The order of a list and the names of users joined to its rows.
- An update is answered with two counts read after its commit; in `Groups` that
  is one step without content, since `Views` has the same two queries.
- A server timeout while a handler runs does not stop the handler: in `Server`
  it only makes the flush of its answer fail.
- Of the configuration, the keys that another part depends on; `Malformed` is
  any text that does not parse.
- The session is looked up at the start of a handler only; a call starts with
  a valid one.
- Requests are slots that are used again, so runs are unbounded; what bounds
  them are the identifiers (below).

## Runs

The runs over `Llmio` have one group in the database at the start (`views` a
parent and a child) and two requests at a time (three and a reader in
`liveness`, one and a reader in `views`).  Two requests are what every pairwise race needs: the locks,
the unique keys and the stale checks each relate two handlers.  Three in
`liveness` let two of them queue behind the third.

| Run | Shows |
|---|---|
| `roster` | types; a transaction is open exactly between `Begin` and its end; one membership per user; no lost update; every right a committed write needed was held at some instant of its call; the committed rows implement `MembershipLifecycle` |
| `groups` | unique handles; the handle search is exact; a PATCH changes only the flags it names; a subgroup inherits flags its parent had, open, at some instant of the call; the audit trail replays to the tables, record by record; every audit row is signed with the user of the committing request, whose right to the change the earlier rows show; a pooled connection has an actor only while a transaction of that user runs on it; a founding is one transaction that enrols its actor as admin |
| `serial` | with one connection every group, subgroups included, keeps an active admin, also while its row is written |
| `liveness` | every call is answered, and so is a view, though it needs a connection again and again while three writers hold connections and wait for one row and one key |
| `sessions` | no call that was hopeless when it came in succeeds (ended or expired session, deactivated account, wrong password); a session ends only for a cause of its own; every expired session leaves the map, though Range is no snapshot |
| `registration` | the table of accounts stays unique; an INSERT clashes only with a user registered while the call ran, or through the one username that is not probed; both searches end |
| `views` | nothing of a group is shown to a user who was no active member of it at any instant of the call (but their own invitations); every row, role, count and mark of an answer was true at some instant, the two counts of one query together; a 403 or 404 is deserved |
| `server` | the layers are joined before they are validated, so that the pool and the ticker get sound values; a step that ends the process cuts transactions in one case only, a signal between the start of the listener and `Notify`; exit code 0 means nobody was refused a connection, no request is missing in the log and no client is owed an answer; after a signal or a failed listener the process ends, though handlers may hang |
| `naming` | every handle, with any suffix, and every username satisfies the CHECK of its column; the search gives up only after 1000 different taken handles; the password read back is the one configured |

and the runs that end in a counterexample, because the code does otherwise than
a document or test of the repository says:

| Run | Found |
|---|---|
| `last_admin_race` | two admins step down at the same time, each transaction's trigger still sees the other, and the group is left with no admin; the migration and the specification say the trigger excludes this |
| `archived_accept` | an invitation to an archived group is accepted |
| `pending_admin` | a pending admin beside one active admin cannot be demoted through the API, which the trigger and its test allow: the pre-check counts admins but never asks whether the row is one |

Three more such races are in the models, as behaviour and not as a failed run:
two acceptances of one invitation both answer 200 (`accepted_at` is checked before
the transaction); a removal or promotion authorized before the group was
archived commits after it; of two registrations of one address the second is
answered 500 and not that the e-mail is taken.  `AuthorityWasHeld` and
`OnlyNewcomersClash` state what does hold of them: the right was there at some
instant of the call, and the clash is with a user who came in during it; they do
not forbid the late write.  To `MembershipLifecycle` the second acceptance is a
stutter.

So is the one way in which the end of the process cuts a transaction: `runServer`
starts the listener before it calls `signal.Notify`, and a signal in between kills the
process with the requests it has taken.  `CutOnlyBeforeNotify` states that there is no
other.

Bounds, all named in `Store`: `MaxMembers` and `MaxGroups` bound the
identifiers drawn, so that a removed member can be invited again at least once
and two groups can collide on a handle; `MaxSuffix` is the 1000 of
`GenerateUniqueHandle`, set to 1 so that a search runs out.  `Receive` takes a
call only if its inserts fit; nothing else is cut off.  `MaxAudit` in `AuditTrail`
bounds the identifiers of audit rows in the same way: four of them are a founding
(two rows) beside two other changes, or four changes of one record.  `Flags` has the two
flags that gate an operation; the other nine are handled by the same
assignments.  Sets of calls are chosen per run so that every pair of handlers
meets on one row, key or group (see the comments in `MCLlmio`).  Symmetry is
over requests, in runs of safety properties only; the runs that check liveness too are without it.

`roster` starts from an admin and a member, with two identifiers of memberships
left: two invitations of one user can race, and a removed user can be invited
again under another id while a request still names the old one.

In `Sessions`, `MaxTokens` bounds the sessions created: with two of them and two
requests a login, a logout, an expiry and the clean-up can all meet on one
session while the other must not be touched, and one can be stored during the
Range that collects the other.  One account is enough, since the map is keyed by
the token alone.  In `Registration`, `MaxTries` is the 100 of the code, set to 2:
the base, one suffix, the fallback.  Two usernames and keys for three addresses
make both a search that succeeds late and one that runs out possible; the table
can fill up.

In `views` one reader suffices, as readers do not affect each other; it meets one
request at a time out of a promotion, a removal, an invitation, an acceptance and
the archiving of the parent, as many as fit between two of its queries.  `liveness` has
the other side: three requests that want one row and one key, and a reader whose three
queries need one of the two connections each.

In `Server`, two client connections are one that holds the only database
connection (`max_conns` is 1 in some of the inputs) and one that waits for it; two
signals (`MaxSignals`) are one that is taken and one that comes too early, late or
finds the channel full.  The inputs (`Starts` in `MCServer`) set each key in the
layers where the order of joining and validating shows.

In `Naming`, `MaxHandle` is the 100 of the code, set to 6, and `LastSuffix` the
1000, set to 10: six characters leave the base three beside the longest suffix
(`RoomAssumption`, which 100 and 1000 satisfy too), ten suffixes include the
change from one digit to two, and the texts go up to eight characters, so that
every place of a hyphen around the cut occurs.  `LastTry` is the 99, set to 2.  The
last state of a text is the end of its run, hence `CHECK_DEADLOCK FALSE`.

Fairness (`FairViewSpec`, used by `liveness`): strong fairness of the steps of each
handler, readers included.  The code justifies it by the queues it relies on: a pgx pool gives a
connection to its longest waiter, PostgreSQL a lock to the first in its queue,
so a handler that is enabled again and again does move.  `Receive` (clients)
and `Fail` are not fair.  `Sessions` has weak fairness of the clean-up's steps
only: the ticker fires again and again, and a goroutine that can run does.
`Registration` has weak fairness of each handler; it waits for nobody.
The queries of a reader stand in the same queue of the pool as those of the requests.  `Server` has weak fairness of `main`,
of the listener, of the deadline and of `Release`: a query ends, but a handler may
hang outside the database, and neither clients nor signals are fair.  The server
run checks for deadlock: what ends is `Done`, everything else must go on.

## Proofs

Checked by `tlapm` for every value of the constants, from the assumptions
named in `Schema` and `Store` (`FlagsAssumption`, `CallsAssumption`,
`PoolAssumption`, `BoundsAssumption`, `SeedAssumption`: the database at the start was left
by the same server, so it is unique, administered and without dangling rows).

- `LlmioProofs`: `TypeCorrect == Spec => []TypeOK`.  `TypeOK` is inductive: next
  to the types it says that a transaction is open exactly inside `InsideTx`,
  and that the invitee of an invitation past its check is an account.
  `NextShape` sorts the steps of `Next`: each is quiet (no table and no pending
  write changes), or one of the seven that open, fill or commit a transaction.
  Then `OneMembership`, `UniqueHandles`, `LostUpdatesExcluded`.  None of these is
  inductive by itself: a commit keeps the keys unique only because of what the
  pending writes of all transactions look like.  `RowInv` says it: the
  tables are unique and behind their sequences (`TableInv`); what one
  transaction has pending still replaces committed rows, and fits in with the
  rest of the table (`PendingInv`); what two have pending is disjoint and does
  not clash (`ApartInv`); and a group that a handler has found stays
  (`TargetInv`), which makes the inserted membership refer to a group.  The last
  section holds what the other modules keep needing: an UPDATE keeps the keys of
  its row (`SameKeys`), a group stays under its id and handle (`GroupStays`), and
  an identifier that names a membership of a group goes on to do so until it
  names none for ever (`PresentOrGone`, `GoneStays`).
- `GroupProofs`, four results.
  `SerialAdmin`: if `MaxConns = 1`, then `Spec => []EveryGroupHasAdmin`.  `SerialInv`
  adds that at most one transaction is open and that the tables as its commit
  would leave them are administered.  The hypothesis is needed: `last_admin_race`
  is the counterexample with two connections.
  `PatchesKeepToTheirFlags` (`OnlyNamedFlagsChange`): `GroupWriteInv` says which flags
  may differ between the row a transaction replaces and the one it puts there;
  that the former is still the committed one is `RowInv`.
  `SearchIsExact` (`HandleSearchExact`): `SearchInv` follows the search probe by probe;
  what it has found taken stays taken, since no group goes and none changes its
  handle.
  `LifecycleImplemented`: `Spec => ImplementsLifecycle`, the refinement of
  `MembershipLifecycle`.  Only a commit moves the mapped state.  It does so by one
  abstract step or stutters because of what its transaction has pending
  (`RosterWriteInv`: nothing of the roster, one row, or a group with its first
  member), and `RoomInv` keeps the identifiers founded below the bound that the
  mapping is a function on.
- `AuditProofs`, first part, about `Authority`: `WritesWereEntitled`
  (`AuthorityWasHeld`) and `InheritedFromOneVersion` (`InheritedFlagsWereOffered`), from `AuthorityInvariance`.
  `Known` says, per step of a handler, that what it has read lies in the history
  of its call.  The difficult calls name a membership: once its row is removed,
  nothing says that the caller's rights in that group still count; but the
  identifier is never used again, so the statement finds no row (`Void`).
- `AuditProofs`, second part: an audited system is one of `Authority` (`AuditRefines`), so the
  invariants above hold in it.  `RecordInv` (theorem `AuditRecords`) says what the
  triggers have recorded for an open transaction, and that a connection serves one
  transaction and has no actor without it (`ConnInv`); with it
  `ActorsLeaveWithTheirTransaction` (`NoActorLeftBehind`), `TrailIsSigned`
  (`CommitsSigned`) and `FoundingsRecorded` (`FoundedWithAdmin`).  `ReplayInv` (theorem
  `TrailInvariance`, then `TrailReplays`): identifiers are drawn before the commit
  and transactions overlap, but a row is locked from the moment its change is
  numbered until that is published, so of two rows about one record the one
  published later has the higher identifier.  `EntitledInv` (theorem `TrailEntitles`,
  for `ActorsEntitled`): the version of the actor's membership that gave the right
  may be gone when the change is made, but it was committed, hence recorded,
  before the change was numbered, because the handler had read it.
- `ViewProofs`: `ViewersWereMembers` (`ViewerWasMember`) and `AnswersAreTrue`
  (`AnsweredTruly`), from `ViewInvariance`.  `Gathered` says of each step of a reader at
  which instants of the call what it has put together was true and authorized;
  it survives the steps of others because the history only grows (`PastGrows`).
  That a refusal is deserved needs `StillNamed` too: between the query that finds
  the group of a handle or a membership and the one that authorizes, the tables
  change, but the view goes on naming that group (`NameStays`, from `GroupStays` and
  `PresentOrGone`).

- `SessionProofs`: `SessionTypes` (`TypeOK` of `Sessions`),
  `DeadCallsStayDead` (`DeadOnArrival`) and `SessionsKept` (`SessionsEndForCause`).  `Typed` and `TokensApart` are inductive
  together: tokens on their way into the map are issued, pairwise different,
  and in no cookie.  `DeadInv` adds, for each step of a handler, what makes a
  hopeless call fail there; it survives other requests because of `Onward`:
  accounts stay deactivated, the clock does not run back, and only a login's
  own new token enters the map.  `SessionsKept` rests on the types alone, which say
  that the clean-up has collected nothing but expired tokens, and tokens never
  become unexpired.
- `ServerProofs`: `ServerTypes`, `ServerStartsSound`, `ServerCutsOnlyBeforeNotify`,
  `ServerExitsOrderly`.  `IInv` is what one goroutine may rely on about the
  others: the step of `main` fixes the stack of deferred calls, and the stack says
  whether the pool is open (`StackMatches`); past `LoadConfig` the configuration
  is a validated one (`Loaded`); without an open pool nobody holds a connection
  (`InUse`), and pool and log are closed by the return of `main` alone
  (`ClosedLast`).  Before the goroutines start
  nobody is connected (`Unserved`).  `CutOnlyBeforeNotify` goes through the steps that
  end the process: with a connection in use they are none but a signal at `notify`.  `OrderlyExit`
  needs `Emptied` and `Harmless`: on the way to exit code 0 `Shutdown` has left no
  connection behind, so nobody is there to be refused or to go unlogged.
- `RegistrationProofs`: `RegistrationTypes`, `UniqueUsers`, `ClashesAreNew`.
  Uniqueness rests on the INSERT alone (`TableStep`); the third on `Settled`,
  what each search has established about the users the call met.
- `NamingProofs`: `HandlesAreStorable` (`HandleStorable`), `UsernamesAreStorable`
  (`UsernameStorable`), `SearchIsExhaustive` (`GivesUpOnlyWhenAllTaken`) and
  `PasswordsSurvive` (`PasswordSurvives`), for texts of every length and for every
  `MaxHandle` and `LastSuffix` that leave the base three characters, from
  `NamingAssumption` and `RoomAssumption`.
  Induction: the library's rules take a predicate as an operator, which the
  provers do not instantiate; `FromZero` and `FromEmpty` are about sets of numbers
  and of texts instead, and follow from the least element of the rest (`WFMin`).
  `FoldRuns` shows that the recursive function in `Fold` exists and is unique, and
  from it come `FoldEmpty`, `FoldAppend` and `FoldType`; `ItoaUnfolds` is the same for
  `itoa`.
  Handles: trimming a text of plain characters leaves nothing or one that begins
  and ends with a letter or a digit (`TrimmedIsSlug`), and the trim after the cut
  makes that true again.  The decimals do not shrink and are different for
  different numbers, so a candidate is a valid handle (`CandidateValid`) and two
  suffixes never give the same one (`CandidatesApart`: the last hyphen of both
  shows where the number begins, however much of the base was cut).
  `NamingInv`, the inductive invariant, adds that the base is empty or valid, and
  that what was found taken is the base and its suffixes up to `count`; the
  candidates being different, the search has seen as many handles as it asked for.
  Passwords: `EscapedReads`, by induction on the text, says that a reader who is
  past the escaped form of a text has read that text and is still inside the
  quotes.

Every invariant and action property of a passing run is thus a theorem, and so is
the refinement.  What is model-checked only are the five liveness properties
`EveryCallAnswered`, `EveryViewAnswered`, `ExpiredSessionsSwept`, `RegistrationAnswered`
and `ProcessEnds`: liveness under fairness and ENABLED are out of the prover's reach.

The three runs that end in a counterexample state what the code does not do, and
have nothing to prove; `SerialAdmin` is what remains true of the first.

## Plan

1. Done: `Schema`, `Authorization`, `Store`, `Memberships`, `Groups`, `Llmio`,
   `MembershipLifecycle`, `Authority`, the runs and proofs above.
2. Done: `Sessions` with its runs and proofs.
3. Done: `Registration` with its runs and proofs.
4. Done: `AuditTrail`, `Views`, `Configuration`, `Server` and `Naming` with their
   runs, and the proofs of `Server`.
5. Done: the proofs about `Llmio`, `Authority`, `AuditTrail`, `Views` and `Sessions`
   listed above.
6. Done: the proofs about `Naming`, after its folds became recursive functions.

## Not modelled

- `GetByUserID` and `DeleteByUserID` of the session store and the queries of
  `internal/db` that no handler calls: no caller outside the tests.
- Password hashing and the migration command: calls of a library, without shared
  state.  Levels and formats of the log and the fields of response bodies: output.
- The keys of the configuration that no other part modelled here depends on; they
  pass through the same layers and each has a rule of its own only.
- `internal/testutil`: test containers and a runner, not part of the program.  The
  documents under `discovery/` describe another application.
