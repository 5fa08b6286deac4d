------------------------------- MODULE Naming -------------------------------
(***************************************************************************)
(* The texts the server makes and another part must accept: handles of     *)
(* groups (GenerateHandle and GenerateUniqueHandle of internal/api/        *)
(* groups.go), usernames (internal/auth/username.go) and the password in   *)
(* the connection string (DatabaseConfig.DSN of internal/config).  Groups  *)
(* and Registration model who else writes meanwhile; this module the text. *)
(*                                                                         *)
(* A text is a sequence of characters.  Each kind of character the code    *)
(* tells apart is one member of Chars: a letter, the same letter as a      *)
(* capital or with an accent, a letter of another script, a digit, the     *)
(* hyphen, a blank, and the two characters a quoted password escapes.      *)
(***************************************************************************)
EXTENDS SequencesExt, Integers

CONSTANTS
  Texts,         \* the names and passwords of the instance
  MaxHandle,     \* the longest handle (100)
  LastSuffix,    \* the last suffix tried after a taken handle (1000)
  LastTry,       \* the last random suffix tried after a taken username (99)
  Slugs          \* random characters, one standing for a whole slug of them

Digit == <<"0", "1", "2", "3", "4", "5", "6", "7", "8", "9">>
Lower == {"a"} \cup ToSet(Digit)
Chars == Lower \cup {"A", "a'", "kana", "-", " ", "quote", "backslash"}

ASSUME NamingAssumption ==
  /\ Texts \subseteq Seq(Chars) /\ Slugs \subseteq Lower
  /\ MaxHandle \in Nat /\ LastSuffix \in Nat /\ LastTry \in Nat

VARIABLES
  kind,          \* "handle", "username" or "password"
  text,          \* the name or the password
  step,          \* "start", "probe" or "done"
  base,          \* the generated text before any suffix
  count,         \* the suffixes tried
  taken,         \* the candidates reported as taken
  made           \* the result

vars == <<kind, text, step, base, count, taken, made>>

-----------------------------------------------------------------------------
(* Shared by all the texts.  What a loop does with the next character is a *)
(* function here, of the result so far and the character, and no operator  *)
(* (FoldLeft takes one): so lemmas can speak of every such function.       *)
Fold(f, zero, s) ==
  LET upTo[n \in 0 .. Len(s)] == IF n = 0 THEN zero ELSE f[upTo[n - 1]][s[n]]
  IN upTo[Len(s)]

Mapped(f, s) == Fold([r \in Seq(Chars) |-> [c \in Chars |-> r \o f[c]]], <<>>, s)

(* The runs of hyphens, one hyphen each. *)
Collapse(s) ==
  Fold([r \in Seq(Chars) |-> [c \in Chars |->
          IF c = "-" /\ r # <<>> /\ r[Len(r)] = "-" THEN r ELSE Append(r, c)]],
       <<>>, s)

(* strings.Trim(s, "-"). *)
Trim(s) ==
  LET kept == {i \in DOMAIN s : s[i] # "-"}
  IN IF kept = {} THEN <<>> ELSE SubSeq(s, Min(kept), Max(kept))

Prefix(s, n) == SubSeq(s, 1, n)

(* The numbers the search counts with, in decimal. *)
itoa[n \in 0 .. LastSuffix] ==
  IF n < 10 THEN <<Digit[n + 1]>>
            ELSE Append(itoa[n \div 10], Digit[(n % 10) + 1])

-----------------------------------------------------------------------------
(* Handles.                                                                *)

(* NFD without its marks, lower case, and a hyphen for what is left over.  *)
HandleChar[c \in Chars] ==
  IF c \in {"A", "a'"} THEN <<"a">>
  ELSE IF c \in Lower \cup {"-"} THEN <<c>>
  ELSE <<"-">>

(* Mutant: the cut handle is not trimmed again. *)
GenerateHandleUntrimmed(name) ==
  LET slug == Trim(Collapse(Mapped(HandleChar, name)))
      cut  == IF Len(slug) > MaxHandle THEN Prefix(slug, MaxHandle) ELSE slug
  IN IF Len(cut) < 3 THEN <<>> ELSE cut

GenerateHandle(name) ==
  LET slug == Trim(Collapse(Mapped(HandleChar, name)))
      cut  == IF Len(slug) > MaxHandle THEN Trim(Prefix(slug, MaxHandle))
                                       ELSE slug
  IN IF Len(cut) < 3 THEN <<>> ELSE cut

(* Mutant: the suffixed handle is cut, and not its base. *)
CandidateCut(i) ==
  LET whole == base \o <<"-">> \o itoa[i]
  IN Trim(Prefix(whole, Min({Len(whole), MaxHandle})))

(* The candidate with suffix i; the base gives way when both are too long. *)
Candidate(i) ==
  LET suffix == <<"-">> \o itoa[i]
      room   == MaxHandle - Len(suffix)
  IN Prefix(base, Min({Len(base), room})) \o suffix

(* The code gives up when room < 3, which its constants never come to. *)
ASSUME RoomAssumption == MaxHandle - Len(itoa[LastSuffix]) - 1 >= 3

(* The regular expression isValidHandle and groups_handle_format share. *)
Slug(s) ==
  /\ s # <<>> /\ s[1] \in Lower /\ s[Len(s)] \in Lower
  /\ ToSet(s) \subseteq Lower \cup {"-"}

IsValidHandle(h) == Len(h) \in 3 .. MaxHandle /\ Slug(h)

-----------------------------------------------------------------------------
(* Usernames.                                                              *)

(* NFKD, lower case, ASCII only - a letter of another script leaves        *)
(* nothing, not even a hyphen - and a hyphen for the rest.                 *)
UsernameChar[c \in Chars] ==
  IF c \in {"A", "a'"} THEN <<"a">>
  ELSE IF c = "kana" THEN <<>>
  ELSE IF c \in Lower THEN <<c>>
  ELSE <<"-">>

RandomSlug(n) == {[i \in 1 .. n |-> c] : c \in Slugs}

(* Mutant: the short slug is looked for before the hyphens are trimmed. *)
UsernamesMeasuredEarly(name) ==
  LET slug == Collapse(Mapped(UsernameChar, name))
  IN IF Len(slug) < 2 THEN RandomSlug(8) ELSE {Trim(slug)}

(* What GenerateUsername may return; ensureAlphanumericEnds finds nothing  *)
(* left to trim.                                                           *)
GenerateUsername(name) ==
  LET slug == Trim(Collapse(Mapped(UsernameChar, name)))
  IN IF Len(slug) < 2 THEN RandomSlug(8) ELSE {slug}

UsernameFormat(u) == Len(u) >= 2 /\ Slug(u)

-----------------------------------------------------------------------------
(* Passwords.                                                              *)

Replaced(s, c) ==
  Mapped([d \in Chars |-> IF d = c THEN <<"backslash", c>> ELSE <<d>>], s)

(* Mutant: the quotes are escaped first. *)
EscapeQuotesFirst(s) == Replaced(Replaced(s, "quote"), "backslash")

EscapePassword(s) == Replaced(Replaced(s, "backslash"), "quote")

(* How a quoted value of a connection string is read: a backslash stands   *)
(* for the character after it and the first bare quote ends the value.     *)
Reading == [value : Seq(Chars), escaped : BOOLEAN, ended : BOOLEAN]

Read[r \in Reading] ==
  [c \in Chars |->
     IF r.ended THEN r
     ELSE IF r.escaped
       THEN [r EXCEPT !.value = Append(@, c), !.escaped = FALSE]
     ELSE IF c = "backslash" THEN [r EXCEPT !.escaped = TRUE]
     ELSE IF c = "quote" THEN [r EXCEPT !.ended = TRUE]
     ELSE [r EXCEPT !.value = Append(@, c)]]

ReadQuoted(s) ==
  Fold(Read, [value |-> <<>>, escaped |-> FALSE, ended |-> FALSE], s)

-----------------------------------------------------------------------------
Done(result) == step' = "done" /\ made' = result

MakeHandle ==
  /\ kind = "handle" /\ step = "start"
  /\ base' = GenerateHandle(text)
  /\ IF base' = <<>> THEN Done(<<>>) ELSE step' = "probe" /\ UNCHANGED made
  /\ UNCHANGED <<kind, text, count, taken>>

Asked == IF count = 0 THEN base ELSE Candidate(count)

(* One call of checkExists; what is taken stays taken.  A query that fails *)
(* counts as taken, and the request is refused after the search.           *)
ProbeHandle ==
  /\ kind = "handle" /\ step = "probe"
  /\ \/ count > LastSuffix /\ Done(<<>>) /\ UNCHANGED <<count, taken>>
     \/ /\ count <= LastSuffix /\ Asked \notin taken
        /\ Done(Asked) /\ UNCHANGED <<count, taken>>
     \/ /\ count <= LastSuffix
        /\ taken' = taken \cup {Asked} /\ count' = count + 1
        /\ UNCHANGED <<step, made>>
  /\ UNCHANGED <<kind, text, base>>

MakeUsername ==
  /\ kind = "username" /\ step = "start"
  /\ base' \in GenerateUsername(text)
  /\ step' = "probe"
  /\ UNCHANGED <<kind, text, count, taken, made>>

(* MakeUsernameUnique: the base, a random suffix each time it is taken,    *)
(* and in the end a random username nobody looks for.                      *)
ProbeUsername ==
  /\ kind = "username" /\ step = "probe"
  /\ \/ count = 0 /\ Done(base) /\ UNCHANGED count
     \/ /\ count \in 1 .. LastTry
        /\ \E s \in RandomSlug(4) : Done(base \o s)
        /\ UNCHANGED count
     \/ count <= LastTry /\ count' = count + 1 /\ UNCHANGED <<step, made>>
     \/ /\ count > LastTry
        /\ \E s \in RandomSlug(12) : Done(s)
        /\ UNCHANGED count
  /\ UNCHANGED <<kind, text, base, taken>>

(* The pool is opened with the password read back from the DSN, which      *)
(* leaves an empty one out.                                                *)
MakeDSN ==
  /\ kind = "password" /\ step = "start" /\ text # <<>>
  /\ base' = EscapePassword(text)
  /\ Done(ReadQuoted(base' \o <<"quote", " ">>).value)
  /\ UNCHANGED <<kind, text, count, taken>>

Init ==
  /\ kind \in {"handle", "username", "password"}
  /\ text \in Texts
  /\ step = "start" /\ base = <<>> /\ count = 0 /\ taken = {} /\ made = <<>>

Next == MakeHandle \/ ProbeHandle \/ MakeUsername \/ ProbeUsername \/ MakeDSN

Spec == Init /\ [][Next]_vars

-----------------------------------------------------------------------------
(* Whatever the name, and with any suffix, groups_handle_format and        *)
(* isValidHandle accept the handle the server came up with: neither the    *)
(* cut at MaxHandle nor the one before the suffix breaks its form.         *)
HandleStorable ==
  kind = "handle" =>
    \A h \in taken \cup {made} : h = <<>> \/ IsValidHandle(h)

(* users_username_format accepts every username made of a name, also of    *)
(* one in which no character is left.                                      *)
UsernameStorable ==
  kind = "username" /\ step = "done" => UsernameFormat(made)

(* The search for a free handle never asks twice for one suffix in the     *)
(* clothes of another, so one that gives up on a usable name has found     *)
(* LastSuffix different handles taken.  (Only the base itself may come up  *)
(* again: cut to make room, a base that ends in -1 is its own candidate.)  *)
GivesUpOnlyWhenAllTaken ==
  kind = "handle" /\ step = "done" /\ made = <<>> /\ base # <<>> =>
    Cardinality(taken) >= LastSuffix

(* The server logs in with the password it was configured with, whatever   *)
(* quotes and backslashes are in it.                                       *)
PasswordSurvives == kind = "password" /\ step = "done" => made = text
=============================================================================
