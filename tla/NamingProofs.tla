---------------------------- MODULE NamingProofs ----------------------------
(***************************************************************************)
(* The texts the server makes are what the other side accepts, for texts   *)
(* of every length and every bound.  What a loop over a text or a number   *)
(* computes is shown by induction; as the induction is on sets of texts    *)
(* and numbers and not on predicates, its lemmas have no operator among    *)
(* their parameters.                                                       *)
(***************************************************************************)
EXTENDS Naming, SequenceTheorems, FiniteSetTheorems, WellFoundedInduction,
        TLAPS

-----------------------------------------------------------------------------
(* Induction.                                                              *)

(* The numbers by their order, and the order as a relation to cite.        *)
Below == {p \in Nat \X Nat : p[1] < p[2]}
Under(x, y) == <<x, y>> \in Below

(* There is no endless descent of numbers: every set of them has a least.  *)
LEMMA BelowWellFounded == IsWellFoundedOn(Below, Nat)
  <1>1. Below = OpToRel(<, Nat)
    BY DEF Below, OpToRel
  <1> QED
    BY <1>1, NatLessThanWellFounded

(* The order of the numbers is the relation, in the direction it is used.  *)
LEMMA BelowIff == \A x, y \in Nat : x < y => Under(x, y)
  <1> SUFFICES ASSUME NEW x \in Nat, NEW y \in Nat, x < y
               PROVE  Under(x, y)
    OBVIOUS
  <1>1. <<x, y>> \in Nat \X Nat /\ <<x, y>>[1] = x /\ <<x, y>>[2] = y
    OBVIOUS
  <1> QED
    BY <1>1 DEF Below, Under

(* Every set of naturals that is not empty has a least element.            *)
LEMMA Least ==
  ASSUME NEW S \in SUBSET Nat, S # {}
  PROVE  \E n \in S : \A m \in S : n <= m
  <1>1. PICK x \in S : \A y \in S : ~Under(y, x)
    BY BelowWellFounded, WFMin, Zenon DEF Under
  <1> QED
    BY <1>1, BelowIff

(* A set with 0 and every successor has all the naturals, *)
LEMMA FromZero ==
  ASSUME NEW S, 0 \in S, \A n \in Nat : n \in S => n + 1 \in S
  PROVE  Nat \subseteq S
  <1> SUFFICES ASSUME Nat \ S # {}
               PROVE  FALSE
    OBVIOUS
  <1>1. PICK n \in Nat \ S : \A m \in Nat \ S : n <= m
    BY Least
  <1>2. n # 0 /\ n - 1 \in Nat
    BY <1>1
  <1>3. n - 1 \in S
    BY <1>1, <1>2
  <1> QED
    BY <1>1, <1>2, <1>3

(* and so has one with every number whose predecessors are all in it.      *)
LEMMA FromAllBelow ==
  ASSUME NEW S,
         \A n \in Nat : (\A m \in Nat : m < n => m \in S) => n \in S
  PROVE  Nat \subseteq S
  <1> SUFFICES ASSUME Nat \ S # {}
               PROVE  FALSE
    OBVIOUS
  <1>1. PICK n \in Nat \ S : \A m \in Nat \ S : n <= m
    BY Least
  <1>2. \A m \in Nat : m < n => m \in S
    BY <1>1
  <1> QED
    BY <1>1, <1>2

(* A set of texts with the empty one and every longer one has them all.    *)
LEMMA FromEmpty ==
  ASSUME NEW C, NEW S, <<>> \in S,
         \A s \in Seq(C), c \in C : s \in S => Append(s, c) \in S
  PROVE  Seq(C) \subseteq S
  <1> DEFINE L == {n \in Nat : \A s \in Seq(C) : Len(s) = n => s \in S}
  <1>1. 0 \in L
    <2>1. \A s \in Seq(C) : Len(s) = 0 => s = <<>>
      BY EmptySeq
    <2> QED
      BY <2>1
  <1>2. ASSUME NEW n \in Nat, n \in L
        PROVE  n + 1 \in L
    <2> SUFFICES ASSUME NEW s \in Seq(C), Len(s) = n + 1
                 PROVE  s \in S
      OBVIOUS
    <2>1. s # <<>>
      BY EmptySeq
    <2>2. PICK t \in Seq(C), c \in C : s = Append(t, c)
      BY <2>1, SequenceEmptyOrAppend
    <2>3. Len(t) \in Nat /\ Len(s) = Len(t) + 1
      BY <2>2, AppendProperties, LenProperties
    <2>4. Len(t) = n
      BY <2>3
    <2> QED
      BY <1>2, <2>2, <2>4
  <1>3. Nat \subseteq L
    <2> HIDE DEF L
    <2> QED
      BY <1>1, <1>2, FromZero
  <1> QED
    BY <1>3, LenProperties

-----------------------------------------------------------------------------
(* Folds.                                                                  *)

(* One step of a fold.                                                     *)
Then(f, r, c) == f[r][c]

(* g is a function on D.                                                   *)
On(D, g) == g = [n \in D |-> g[n]]

(* The results so far, one for each of the first N places of a text.       *)
Run(f, zero, s, N, g) ==
  /\ On(0 .. N, g)
  /\ g[0] = zero
  /\ \A n \in 1 .. N : g[n] = Then(f, g[n - 1], s[n])

(* As TLA+ defines them. *)
Defines(f, zero, s, N, g) ==
  g = [n \in 0 .. N |-> IF n = 0 THEN zero ELSE f[g[n - 1]][s[n]]]

(* A run is what the recursive definition of Fold asks for.                *)
LEMMA RunIff ==
  ASSUME NEW f, NEW zero, NEW s, NEW N \in Nat, NEW g
  PROVE  Run(f, zero, s, N, g) <=> Defines(f, zero, s, N, g)
  <1> DEFINE V(n) == IF n = 0 THEN zero ELSE Then(f, g[n - 1], s[n])
  <1>1. ASSUME Run(f, zero, s, N, g)
        PROVE  g = [n \in 0 .. N |-> V(n)]
    <2>1. \A n \in 0 .. N : g[n] = V(n)
      BY <1>1 DEF Run
    <2>2. g = [n \in 0 .. N |-> g[n]]
      BY <1>1, Zenon DEF Run, On
    <2> HIDE DEF V
    <2> QED
      BY <2>1, <2>2, Zenon
  <1>2. ASSUME g = [n \in 0 .. N |-> V(n)]
        PROVE  Run(f, zero, s, N, g)
    <2>1. \A n \in 0 .. N : g[n] = V(n)
      <3> HIDE DEF V
      <3> QED
        BY <1>2, Zenon
    <2>2. On(0 .. N, g)
      <3> HIDE DEF V
      <3> QED
        BY <1>2, Zenon DEF On
    <2> QED
      BY <2>1, <2>2 DEF Run
  <1> QED
    BY <1>1, <1>2, Zenon DEF Then, Defines

(* They exist, *)
LEMMA RunExists ==
  ASSUME NEW f, NEW zero, NEW s, NEW N \in Nat
  PROVE  \E g : Run(f, zero, s, N, g)
  <1> DEFINE Runs == {k \in Nat : \E g : Run(f, zero, s, k, g)}
  <1>1. 0 \in Runs
    <2> DEFINE g == [n \in 0 .. 0 |-> zero]
    <2>1. On(0 .. 0, g) /\ g[0] = zero
      BY DEF On
    <2>2. Run(f, zero, s, 0, g)
      BY <2>1 DEF Run
    <2> QED
      BY <2>2
  <1>2. ASSUME NEW k \in Nat, k \in Runs
        PROVE  k + 1 \in Runs
    <2>1. PICK g : Run(f, zero, s, k, g)
      BY <1>2
    <2> DEFINE last == Then(f, g[k], s[k + 1])
    <2> DEFINE h == [n \in 0 .. k + 1 |-> IF n = k + 1 THEN last ELSE g[n]]
    <2> HIDE DEF last
    <2>2. On(0 .. k + 1, h) /\ h[k + 1] = last
      BY DEF On
    <2>3. \A n \in 0 .. k : h[n] = g[n]
      OBVIOUS
    <2> HIDE DEF h
    <2>4. \A n \in 1 .. k : g[n] = Then(f, g[n - 1], s[n])
      BY <2>1 DEF Run
    <2>5. ASSUME NEW n \in 1 .. k + 1
          PROVE  h[n] = Then(f, h[n - 1], s[n])
      <3>1. CASE n = k + 1
        BY <2>2, <2>3, <3>1 DEF last
      <3>2. CASE n # k + 1
        BY <2>3, <2>4, <3>2
      <3> QED
        BY <3>1, <3>2
    <2>6. h[0] = zero
      BY <2>1, <2>3 DEF Run
    <2>7. Run(f, zero, s, k + 1, h)
      BY <2>2, <2>5, <2>6 DEF Run
    <2> QED
      BY <2>7
  <1>3. Nat \subseteq Runs
    <2> HIDE DEF Runs
    <2> QED
      BY <1>1, <1>2, FromZero
  <1> QED
    BY <1>3

(* and are determined by what is read so far.                              *)
LEMMA RunUnique ==
  ASSUME NEW f, NEW zero, NEW s, NEW t, NEW N \in Nat, NEW M \in Nat, N <= M,
         \A n \in 1 .. N : s[n] = t[n],
         NEW g, Run(f, zero, s, N, g), NEW h, Run(f, zero, t, M, h)
  PROVE  \A n \in 0 .. N : g[n] = h[n]
  <1> DEFINE Same == {n \in Nat : n <= N => g[n] = h[n]}
  <1>1. 0 \in Same
    BY DEF Run
  <1>2. ASSUME NEW n \in Nat, n \in Same
        PROVE  n + 1 \in Same
    <2> SUFFICES ASSUME n + 1 <= N
                 PROVE  g[n + 1] = h[n + 1]
      OBVIOUS
    <2>1. g[n] = h[n] /\ s[n + 1] = t[n + 1] /\ (n + 1) - 1 = n
      BY <1>2
    <2>2. n + 1 \in 1 .. N /\ n + 1 \in 1 .. M
      OBVIOUS
    <2> QED
      BY <2>1, <2>2 DEF Run
  <1>3. Nat \subseteq Same
    <2> HIDE DEF Same
    <2> QED
      BY <1>1, <1>2, FromZero
  <1> QED
    BY <1>3

(* The last of them is what Fold computes.                                 *)
LEMMA FoldRuns ==
  ASSUME NEW f, NEW zero, NEW s, Len(s) \in Nat
  PROVE  \E g : Run(f, zero, s, Len(s), g) /\ Fold(f, zero, s) = g[Len(s)]
  <1> DEFINE upTo == CHOOSE g : Defines(f, zero, s, Len(s), g)
  <1>1. \E g : Defines(f, zero, s, Len(s), g)
    BY RunExists, RunIff
  <1>2. Defines(f, zero, s, Len(s), upTo)
    BY <1>1, Zenon
  <1>3. Fold(f, zero, s) = upTo[Len(s)]
    BY Zenon DEF Fold, Defines
  <1>4. Run(f, zero, s, Len(s), upTo)
    <2> HIDE DEF upTo
    <2> QED
      BY <1>2, RunIff
  <1> QED
    BY <1>3, <1>4, Zenon

(* It is nothing on the empty text, and one step more on a text that is    *)
(* one character longer.                                                   *)
LEMMA FoldEmpty == \A f, zero : Fold(f, zero, <<>>) = zero
  <1> SUFFICES ASSUME NEW f, NEW zero
               PROVE  Fold(f, zero, <<>>) = zero
    OBVIOUS
  <1>1. Len(<<>>) = 0
    OBVIOUS
  <1> QED
    BY <1>1, FoldRuns DEF Run

(* A loop over a text that grows by a character takes one step more.       *)
LEMMA FoldAppend ==
  ASSUME NEW f, NEW zero, NEW C, NEW s \in Seq(C), NEW c \in C
  PROVE  Fold(f, zero, Append(s, c)) = f[Fold(f, zero, s)][c]
  <1> DEFINE t == Append(s, c)
  <1>1. /\ Len(s) \in Nat /\ Len(t) = Len(s) + 1 /\ t[Len(t)] = c
        /\ \A n \in 1 .. Len(s) : s[n] = t[n]
    BY AppendProperties, LenProperties
  <1> HIDE DEF t
  <1>2. PICK g : Run(f, zero, s, Len(s), g) /\ Fold(f, zero, s) = g[Len(s)]
    BY <1>1, FoldRuns
  <1>3. PICK h : Run(f, zero, t, Len(t), h) /\ Fold(f, zero, t) = h[Len(t)]
    BY <1>1, FoldRuns
  <1>4. g[Len(s)] = h[Len(s)]
    <2> DEFINE N == Len(s)
    <2> DEFINE M == Len(t)
    <2>1. N \in Nat /\ M \in Nat /\ N <= M /\ N \in 0 .. N
      BY <1>1
    <2>2. \A n \in 1 .. N : s[n] = t[n]
      BY <1>1
    <2>3. Run(f, zero, s, N, g) /\ Run(f, zero, t, M, h)
      BY <1>2, <1>3
    <2> HIDE DEF N, M
    <2>4. \A n \in 0 .. N : g[n] = h[n]
      BY <2>1, <2>2, <2>3, RunUnique
    <2>5. g[N] = h[N]
      BY <2>1, <2>4
    <2> QED
      BY <2>5 DEF N
  <1>5. h[Len(t)] = Then(f, h[Len(s)], c)
    BY <1>1, <1>3 DEF Run
  <1>6. Fold(f, zero, t) = Then(f, Fold(f, zero, s), c)
    BY <1>2, <1>3, <1>4, <1>5
  <1> QED
    BY <1>6, Zenon DEF Then, t

(* The result stays where every step stays.                                *)
LEMMA FoldType ==
  ASSUME NEW R, NEW C, NEW zero \in R, NEW f,
         \A r \in R, c \in C : f[r][c] \in R,
         NEW s \in Seq(C)
  PROVE  Fold(f, zero, s) \in R
  <1> DEFINE S == {u \in Seq(C) : Fold(f, zero, u) \in R}
  <1>1. <<>> \in S
    BY FoldEmpty, EmptySeq
  <1>2. ASSUME NEW u \in Seq(C), NEW c \in C, u \in S
        PROVE  Append(u, c) \in S
    <2>1. Fold(f, zero, Append(u, c)) = f[Fold(f, zero, u)][c]
      BY FoldAppend
    <2>2. f[Fold(f, zero, u)][c] \in R
      BY <1>2
    <2>3. Append(u, c) \in Seq(C)
      BY AppendProperties
    <2> QED
      BY <2>1, <2>2, <2>3, Zenon
  <1>3. Seq(C) \subseteq S
    <2> HIDE DEF S
    <2> QED
      BY <1>1, <1>2, FromEmpty
  <1> QED
    BY <1>3
-----------------------------------------------------------------------------
(* Slugs.                                                                  *)

(* What a handle and a username are written with, as MakeSlug leaves it.   *)
Plain == Lower \cup {"-"}

(* The ten digits are lower case for the CHECKs, and all different.        *)
LEMMA DigitFacts ==
  /\ \A d \in 0 .. 9 : Digit[d + 1] \in Lower
  /\ \A d, e \in 0 .. 9 : Digit[d + 1] = Digit[e + 1] => d = e
  <1>1. DOMAIN Digit = 1 .. 10
    BY DEF Digit
  <1>2. \A d \in 0 .. 9 : Digit[d + 1] \in ToSet(Digit)
    BY <1>1 DEF ToSet
  <1>3. \A d, e \in 0 .. 9 : Digit[d + 1] = Digit[e + 1] => d = e
    BY DEF Digit
  <1> QED
    BY <1>2, <1>3 DEF Lower

(* What is needed of the alphabet: no letter or digit is a hyphen.         *)
LEMMA CharFacts ==
  /\ Lower \subseteq Plain /\ Plain \subseteq Chars
  /\ "-" \in Plain /\ "-" \notin Lower
  /\ {"A", "a'", "kana", " ", "quote", "backslash"} \subseteq Chars
  /\ "a" \in Lower
  <1>1. \A i \in DOMAIN Digit : Digit[i] # "-"
    BY DEF Digit
  <1>2. "-" \notin ToSet(Digit)
    BY <1>1 DEF ToSet
  <1> QED
    BY <1>2 DEF Plain, Lower, Chars

(* The first and the last of some places in a text. *)
LEMMA Ends ==
  ASSUME NEW N \in Nat, NEW S \in SUBSET (1 .. N), S # {}
  PROVE  /\ Min(S) \in S /\ Max(S) \in S
         /\ \A y \in S : Min(S) <= y /\ y <= Max(S)
  <1>1. \E x \in S : \A y \in S : x <= y
    BY Least
  <1>2. \E x \in S : \A y \in S : x >= y
    <2> DEFINE T == {n \in Nat : \E x \in S : n = N - x}
    <2>1. T # {}
      <3>1. PICK z \in S : TRUE
        OBVIOUS
      <3>2. N - z \in T
        OBVIOUS
      <3> QED
        BY <3>2
    <2>2. PICK n \in T : \A m \in T : n <= m
      BY <2>1, Least
    <2>3. PICK x \in S : n = N - x
      BY <2>2
    <2>4. ASSUME NEW y \in S
          PROVE  x >= y
      <3>1. N - y \in T
        OBVIOUS
      <3> QED
        BY <2>2, <2>3, <3>1
    <2> QED
      BY <2>4
  <1>3. Min(S) \in S /\ \A y \in S : Min(S) <= y
    BY <1>1, Zenon DEF Min
  <1>4. Max(S) \in S /\ \A y \in S : Max(S) >= y
    BY <1>2, Zenon DEF Max
  <1> QED
    BY <1>3, <1>4

(* A text of letters, digits and hyphens that is trimmed has the form the  *)
(* regular expressions ask for, or nothing of it is left.                  *)
LEMMA TrimmedIsSlug ==
  ASSUME NEW s \in Seq(Plain)
  PROVE  /\ Trim(s) \in Seq(Plain)
         /\ Len(Trim(s)) <= Len(s)
         /\ Trim(s) = <<>> \/ Slug(Trim(s))
  <1> DEFINE kept == {i \in DOMAIN s : s[i] # "-"}
  <1>1. Len(s) \in Nat /\ DOMAIN s = 1 .. Len(s)
        /\ \A i \in 1 .. Len(s) : s[i] \in Plain
    BY LenProperties
  <1>2. CASE kept = {}
    <2>1. Trim(s) = <<>>
      BY <1>2 DEF Trim
    <2> QED
      BY <1>1, <2>1, EmptySeq
  <1>3. CASE kept # {}
    <2> DEFINE first == Min(kept)
    <2> DEFINE last == Max(kept)
    <2> DEFINE t == SubSeq(s, first, last)
    <2>1. kept \in SUBSET (1 .. Len(s))
      BY <1>1
    <2>2. first \in kept /\ last \in kept /\ first <= last
      <3> HIDE DEF kept
      <3> QED
        BY <1>1, <1>3, <2>1, Ends
    <2>3. /\ first \in 1 .. Len(s) /\ last \in 1 .. Len(s)
          /\ s[first] # "-" /\ s[last] # "-"
      BY <1>1, <2>2
    <2>4. Trim(s) = t
      BY <1>3 DEF Trim
    <2> HIDE DEF first, last
    <2>5. /\ t \in Seq(Plain) /\ Len(t) = last - first + 1
          /\ \A i \in 1 .. last - first + 1 : t[i] = s[first + i - 1]
      <3>1. first \in Int /\ last \in Int /\ \A i \in first .. last : s[i] \in Plain
        BY <1>1, <2>3
      <3> QED
        BY <2>2, <3>1, SubSeqProperties
    <2> HIDE DEF t
    <2>6. t[1] = s[first] /\ t[Len(t)] = s[last]
      BY <2>2, <2>3, <2>5
    <2>7. t[1] \in Lower /\ t[Len(t)] \in Lower
      BY <1>1, <2>3, <2>6 DEF Plain
    <2>8. t # <<>>
      BY <2>2, <2>3, <2>5, EmptySeq
    <2>9. ToSet(t) \subseteq Plain
      BY <2>5, LenProperties DEF ToSet
    <2> QED
      BY <1>1, <2>2, <2>3, <2>4, <2>5, <2>7, <2>8, <2>9 DEF Slug, Plain
  <1> QED
    BY <1>2, <1>3

(* What is mapped to plain characters is a text of them, *)
LEMMA MappedType ==
  ASSUME NEW f, NEW D \in SUBSET Chars, \A c \in Chars : f[c] \in Seq(D),
         NEW s \in Seq(Chars)
  PROVE  Mapped(f, s) \in Seq(D)
  <1> DEFINE g == [r \in Seq(Chars) |-> [c \in Chars |-> r \o f[c]]]
  <1>1. ASSUME NEW r \in Seq(D), NEW c \in Chars
        PROVE  g[r][c] \in Seq(D)
    <2>1. r \in Seq(Chars)
      BY SeqMonotonic
    <2>2. g[r][c] = r \o f[c]
      BY <2>1
    <2>3. r \o f[c] \in Seq(D)
      BY ConcatProperties
    <2> QED
      BY <2>2, <2>3
  <1>2. Mapped(f, s) = Fold(g, <<>>, s)
    BY DEF Mapped
  <1>3. <<>> \in Seq(D)
    BY EmptySeq
  <1> HIDE DEF g
  <1>4. Fold(g, <<>>, s) \in Seq(D)
    BY <1>1, <1>3, FoldType
  <1> QED
    BY <1>2, <1>4

(* and stays one when its hyphens are collapsed.                           *)
LEMMA CollapseType ==
  ASSUME NEW s \in Seq(Plain)
  PROVE  Collapse(s) \in Seq(Plain)
  <1> DEFINE g == [r \in Seq(Chars) |-> [c \in Chars |->
                     IF c = "-" /\ r # <<>> /\ r[Len(r)] = "-" THEN r
                                                         ELSE Append(r, c)]]
  <1>1. ASSUME NEW r \in Seq(Plain), NEW c \in Plain
        PROVE  g[r][c] \in Seq(Plain)
    <2>1. r \in Seq(Chars) /\ c \in Chars
      BY CharFacts, SeqMonotonic
    <2>2. g[r][c] = r \/ g[r][c] = Append(r, c)
      BY <2>1
    <2>3. Append(r, c) \in Seq(Plain)
      BY AppendProperties
    <2> QED
      BY <2>2, <2>3
  <1>2. Collapse(s) = Fold(g, <<>>, s)
    BY DEF Collapse
  <1>3. <<>> \in Seq(Plain)
    BY EmptySeq
  <1> HIDE DEF g
  <1>4. Fold(g, <<>>, s) \in Seq(Plain)
    BY <1>1, <1>3, FoldType
  <1> QED
    BY <1>2, <1>4

(* MakeSlug turns every character into plain ones.                         *)
LEMMA HandleCharType == \A c \in Chars : HandleChar[c] \in Seq(Plain)
  <1> SUFFICES ASSUME NEW c \in Chars
               PROVE  HandleChar[c] \in Seq(Plain)
    OBVIOUS
  <1>1. HandleChar[c] \in {<<d>> : d \in Plain}
    BY CharFacts DEF HandleChar, Plain
  <1>2. \A d \in Plain : <<d>> \in Seq(Plain)
    OBVIOUS
  <1> QED
    BY <1>1, <1>2

(* GenerateUsername turns every character into plain ones, or none.        *)
LEMMA UsernameCharType == \A c \in Chars : UsernameChar[c] \in Seq(Plain)
  <1> SUFFICES ASSUME NEW c \in Chars
               PROVE  UsernameChar[c] \in Seq(Plain)
    OBVIOUS
  <1>1. UsernameChar[c] \in {<<d>> : d \in Plain} \cup {<<>>}
    BY CharFacts DEF UsernameChar, Plain
  <1>2. \A d \in Plain : <<d>> \in Seq(Plain)
    OBVIOUS
  <1> QED
    BY <1>1, <1>2, EmptySeq

-----------------------------------------------------------------------------
(* Decimals.                                                               *)

(* Dividing by ten: quotient and digit, smaller from ten on, and in order. *)
LEMMA Decimal ==
  /\ \A n \in Nat : /\ n % 10 \in 0 .. 9 /\ n \div 10 \in Nat
                    /\ n = 10 * (n \div 10) + (n % 10)
  /\ \A n \in Nat : n >= 10 => n \div 10 < n
  /\ \A n, m \in Nat : n <= m => n \div 10 <= m \div 10
  <1>1. ASSUME NEW n \in Nat
        PROVE  /\ n % 10 \in 0 .. 9 /\ n \div 10 \in Nat
               /\ n = 10 * (n \div 10) + (n % 10)
    <2> DEFINE q == n \div 10
    <2> DEFINE d == n % 10
    <2>1. d \in 0 .. 9 /\ q \in Nat
      OBVIOUS
    <2>2. d = n - q * 10
      OBVIOUS
    <2> HIDE DEF q, d
    <2>3. n = 10 * q + d
      BY <2>1, <2>2
    <2> QED
      BY <2>1, <2>3 DEF q, d
  <1>2. \A n, m, q, t, d, e \in Nat :
          n <= m /\ n = 10 * q + d /\ m = 10 * t + e /\ d <= 9 /\ e <= 9 => q <= t
    OBVIOUS
  <1>3. \A n, m \in Nat : n <= m => n \div 10 <= m \div 10
    BY <1>1, <1>2
  <1>4. \A n \in Nat : n >= 10 => n \div 10 < n
    BY <1>1
  <1> QED
    BY <1>1, <1>3, <1>4

(* The decimals up to N, by way of g. *)
Numeral(g, n) ==
  IF n < 10 THEN <<Digit[n + 1]>>
            ELSE Append(g[n \div 10], Digit[(n % 10) + 1])

Numerals(N, g) == On(0 .. N, g) /\ \A n \in 0 .. N : g[n] = Numeral(g, n)

(* The decimals of a number depend on those of smaller numbers only.       *)
LEMMA NumeralDepends ==
  ASSUME NEW n \in Nat, NEW g, NEW h, \A m \in 0 .. n - 1 : g[m] = h[m]
  PROVE  Numeral(g, n) = Numeral(h, n)
  <1>1. CASE n < 10
    BY <1>1 DEF Numeral
  <1>2. CASE n >= 10
    <2>1. n \div 10 \in 0 .. n - 1
      BY <1>2, Decimal
    <2>2. g[n \div 10] = h[n \div 10]
      BY <2>1
    <2> QED
      BY <1>2, <2>2 DEF Numeral
  <1> QED
    BY <1>1, <1>2

(* There are decimals up to every number, by induction.                    *)
LEMMA NumeralsExist == \A N \in Nat : \E g : Numerals(N, g)
  <1> DEFINE S == {N \in Nat : \E g : Numerals(N, g)}
  <1>1. 0 \in S
    <2> DEFINE g == [n \in 0 .. 0 |-> <<Digit[n + 1]>>]
    <2>1. On(0 .. 0, g) /\ g[0] = <<Digit[0 + 1]>>
      BY DEF On
    <2>2. Numerals(0, g)
      BY <2>1 DEF Numerals, Numeral
    <2> QED
      BY <2>2
  <1>2. ASSUME NEW N \in Nat, N \in S
        PROVE  N + 1 \in S
    <2>1. PICK g : Numerals(N, g)
      BY <1>2
    <2> DEFINE last == Numeral(g, N + 1)
    <2> DEFINE h == [n \in 0 .. N + 1 |-> IF n = N + 1 THEN last ELSE g[n]]
    <2> HIDE DEF last
    <2>2. On(0 .. N + 1, h) /\ h[N + 1] = last
      BY DEF On
    <2>3. \A n \in 0 .. N : h[n] = g[n]
      OBVIOUS
    <2> HIDE DEF h
    <2>4. ASSUME NEW n \in 0 .. N + 1
          PROVE  h[n] = Numeral(h, n)
      <3>1. \A m \in 0 .. n - 1 : g[m] = h[m]
        BY <2>3
      <3>2. Numeral(g, n) = Numeral(h, n)
        BY <3>1, NumeralDepends
      <3>3. CASE n = N + 1
        BY <2>2, <3>2, <3>3 DEF last
      <3>4. CASE n # N + 1
        <4>1. n \in 0 .. N
          BY <3>4
        <4>2. g[n] = Numeral(g, n)
          BY <2>1, <4>1 DEF Numerals
        <4> QED
          BY <2>3, <3>2, <4>1, <4>2
      <3> QED
        BY <3>3, <3>4
    <2>5. Numerals(N + 1, h)
      BY <2>2, <2>4 DEF Numerals
    <2> QED
      BY <2>5
  <1>3. Nat \subseteq S
    <2> HIDE DEF S
    <2> QED
      BY <1>1, <1>2, FromZero
  <1> QED
    BY <1>3

(* Hence the recursive definition of itoa has a solution: itoa is it.      *)
LEMMA ItoaDefined == Numerals(LastSuffix, itoa)
  <1> DEFINE Eq(g) == g = [n \in 0 .. LastSuffix |->
                             IF n < 10 THEN <<Digit[n + 1]>>
                             ELSE Append(g[n \div 10], Digit[(n % 10) + 1])]
  <1>1. LastSuffix \in Nat
    BY NamingAssumption
  <1>2. \A g : Numerals(LastSuffix, g) => Eq(g)
    <2> SUFFICES ASSUME NEW g, Numerals(LastSuffix, g)
                 PROVE  Eq(g)
      BY Zenon
    <2> DEFINE V(n) == Numeral(g, n)
    <2>1. g = [n \in 0 .. LastSuffix |-> g[n]]
      BY Zenon DEF Numerals, On
    <2>2. \A n \in 0 .. LastSuffix : g[n] = V(n)
      BY Zenon DEF Numerals
    <2>3. g = [n \in 0 .. LastSuffix |-> V(n)]
      <3> HIDE DEF V
      <3> QED
        BY <2>1, <2>2, Zenon
    <2> QED
      BY <2>3, Zenon DEF Numeral
  <1>3. \E g : Eq(g)
    <2>1. PICK g : Numerals(LastSuffix, g)
      BY <1>1, NumeralsExist
    <2>2. Eq(g)
      BY <1>2, <2>1, Zenon
    <2> QED
      BY <2>2, Zenon
  <1>4. Eq(itoa)
    <2>1. itoa = CHOOSE g : Eq(g)
      BY Zenon DEF itoa
    <2> QED
      BY <1>3, <2>1, Zenon
  <1> DEFINE V(n) == Numeral(itoa, n)
  <1>5. itoa = [n \in 0 .. LastSuffix |-> V(n)]
    BY <1>4, Zenon DEF Numeral
  <1>6. \A n \in 0 .. LastSuffix : itoa[n] = V(n)
    <2> HIDE DEF V
    <2> QED
      BY <1>5, Zenon
  <1>7. On(0 .. LastSuffix, itoa)
    <2> HIDE DEF V
    <2> QED
      BY <1>5, Zenon DEF On
  <1> QED
    BY <1>6, <1>7, Zenon DEF Numerals

(* The decimals of n: a digit, or those of n / 10 and a digit behind.      *)
LEMMA ItoaUnfolds ==
  ASSUME NEW n \in 0 .. LastSuffix
  PROVE  /\ n < 10 => itoa[n] = <<Digit[n + 1]>>
         /\ n >= 10 => /\ n \div 10 \in 0 .. LastSuffix /\ n \div 10 < n
                       /\ itoa[n] = Append(itoa[n \div 10], Digit[(n % 10) + 1])
  <1>1. LastSuffix \in Nat
    BY NamingAssumption
  <1>2. itoa[n] = Numeral(itoa, n)
    BY ItoaDefined DEF Numerals
  <1>3. n >= 10 => n \div 10 \in 0 .. LastSuffix /\ n \div 10 < n
    BY <1>1, Decimal
  <1> QED
    BY <1>1, <1>2, <1>3 DEF Numeral

(* A decimal has at least one digit and no hyphen. *)
LEMMA ItoaType ==
  \A n \in 0 .. LastSuffix : itoa[n] \in Seq(Lower) /\ Len(itoa[n]) >= 1
  <1> DEFINE S == {n \in Nat : n <= LastSuffix =>
                     itoa[n] \in Seq(Lower) /\ Len(itoa[n]) >= 1}
  <1>1. ASSUME NEW n \in Nat, \A m \in Nat : m < n => m \in S
        PROVE  n \in S
    <2> SUFFICES ASSUME n <= LastSuffix
                 PROVE  itoa[n] \in Seq(Lower) /\ Len(itoa[n]) >= 1
      OBVIOUS
    <2>1. n \in 0 .. LastSuffix
      BY NamingAssumption
    <2>2. CASE n < 10
      <3>1. itoa[n] = <<Digit[n + 1]>> /\ Digit[n + 1] \in Lower
        BY <2>1, <2>2, ItoaUnfolds, DigitFacts
      <3> QED
        BY <3>1
    <2>3. CASE n >= 10
      <3> DEFINE m == n \div 10
      <3> DEFINE d == Digit[(n % 10) + 1]
      <3>1. m \in 0 .. LastSuffix /\ m < n /\ itoa[n] = Append(itoa[m], d)
        BY <2>1, <2>3, ItoaUnfolds
      <3>2. d \in Lower
        BY Decimal, DigitFacts
      <3> HIDE DEF m, d
      <3>3. itoa[m] \in Seq(Lower)
        BY <1>1, <3>1
      <3>4. /\ Append(itoa[m], d) \in Seq(Lower)
            /\ Len(Append(itoa[m], d)) = Len(itoa[m]) + 1
            /\ Len(itoa[m]) \in Nat
        BY <3>2, <3>3, AppendProperties, LenProperties
      <3> QED
        BY <3>1, <3>4
    <2> QED
      BY <2>2, <2>3
  <1>2. Nat \subseteq S
    <2> HIDE DEF S
    <2> QED
      BY <1>1, FromAllBelow
  <1> QED
    BY <1>2

(* A larger number is not shorter, *)
LEMMA ItoaGrows ==
  \A n, m \in 0 .. LastSuffix : n <= m => Len(itoa[n]) <= Len(itoa[m])
  <1> DEFINE S == {m \in Nat : m <= LastSuffix =>
                     \A n \in 0 .. m : Len(itoa[n]) <= Len(itoa[m])}
  <1>1. ASSUME NEW m \in Nat, \A k \in Nat : k < m => k \in S
        PROVE  m \in S
    <2> SUFFICES ASSUME m <= LastSuffix, NEW n \in 0 .. m
                 PROVE  Len(itoa[n]) <= Len(itoa[m])
      OBVIOUS
    <2>1. m \in 0 .. LastSuffix /\ n \in 0 .. LastSuffix
      BY NamingAssumption
    <2>2. Len(itoa[m]) \in Nat /\ Len(itoa[m]) >= 1
      BY <2>1, ItoaType, LenProperties
    <2>3. CASE n < 10
      <3>1. itoa[n] = <<Digit[n + 1]>>
        BY <2>1, <2>3, ItoaUnfolds
      <3>2. Len(itoa[n]) = 1
        BY <3>1
      <3> QED
        BY <2>2, <3>2
    <2>4. CASE n >= 10
      <3>1. m >= 10
        BY <2>4
      <3>2. /\ n \div 10 \in 0 .. LastSuffix /\ m \div 10 \in 0 .. LastSuffix
            /\ n \div 10 <= m \div 10 /\ m \div 10 < m
        BY <2>1, <2>4, <3>1, ItoaUnfolds, Decimal
      <3>3. Len(itoa[n \div 10]) <= Len(itoa[m \div 10])
        BY <1>1, <3>2
      <3>4. /\ Len(itoa[n]) = Len(itoa[n \div 10]) + 1
            /\ Len(itoa[m]) = Len(itoa[m \div 10]) + 1
        <4>1. ASSUME NEW k \in 0 .. LastSuffix, k >= 10
              PROVE  Len(itoa[k]) = Len(itoa[k \div 10]) + 1
          <5>1. /\ itoa[k] = Append(itoa[k \div 10], Digit[(k % 10) + 1])
                /\ k \div 10 \in 0 .. LastSuffix
            BY <4>1, ItoaUnfolds
          <5>2. Digit[(k % 10) + 1] \in Lower /\ itoa[k \div 10] \in Seq(Lower)
            <6>1. k % 10 \in 0 .. 9
              BY Decimal
            <6>2. Digit[(k % 10) + 1] \in Lower
              BY <6>1, DigitFacts
            <6> QED
              BY <5>1, <6>2, ItoaType
          <5> QED
            BY <5>1, <5>2, AppendProperties
        <4> QED
          BY <2>1, <2>4, <3>1, <4>1
      <3>5. Len(itoa[n \div 10]) \in Nat /\ Len(itoa[m \div 10]) \in Nat
        BY <3>2, ItoaType, LenProperties
      <3> QED
        BY <3>3, <3>4, <3>5
    <2> QED
      BY <2>3, <2>4
  <1>2. Nat \subseteq S
    <2> HIDE DEF S
    <2> QED
      BY <1>1, FromAllBelow
  <1> QED
    BY <1>2

(* and a different number is another decimal.                              *)
LEMMA ItoaInjective ==
  \A n, m \in 0 .. LastSuffix : itoa[n] = itoa[m] => n = m
  <1> DEFINE S == {m \in Nat : m <= LastSuffix =>
                     \A n \in 0 .. LastSuffix : itoa[n] = itoa[m] => n = m}
  <1>1. ASSUME NEW m \in Nat, \A k \in Nat : k < m => k \in S
        PROVE  m \in S
    <2> SUFFICES ASSUME m <= LastSuffix, NEW n \in 0 .. LastSuffix,
                        itoa[n] = itoa[m]
                 PROVE  n = m
      OBVIOUS
    <2>1. m \in 0 .. LastSuffix
      BY NamingAssumption
    <2>2. ASSUME NEW k \in 0 .. LastSuffix, k < 10
          PROVE  itoa[k] = <<Digit[k + 1]>> /\ Len(itoa[k]) = 1
      <3>1. itoa[k] = <<Digit[k + 1]>>
        BY <2>2, ItoaUnfolds
      <3> QED
        BY <3>1
    <2>3. ASSUME NEW k \in 0 .. LastSuffix, k >= 10
          PROVE  /\ k \div 10 \in 0 .. LastSuffix /\ k \div 10 < k
                 /\ itoa[k \div 10] \in Seq(Lower)
                 /\ Digit[(k % 10) + 1] \in Lower
                 /\ itoa[k] = Append(itoa[k \div 10], Digit[(k % 10) + 1])
                 /\ Len(itoa[k]) >= 2
      <3>1. /\ k \div 10 \in 0 .. LastSuffix /\ k \div 10 < k
            /\ itoa[k] = Append(itoa[k \div 10], Digit[(k % 10) + 1])
        BY <2>3, ItoaUnfolds
      <3>2. itoa[k \div 10] \in Seq(Lower) /\ Len(itoa[k \div 10]) >= 1
        BY <3>1, ItoaType
      <3>3. Digit[(k % 10) + 1] \in Lower
        BY Decimal, DigitFacts
      <3>4. Len(itoa[k]) = Len(itoa[k \div 10]) + 1 /\ Len(itoa[k \div 10]) \in Nat
        BY <3>1, <3>2, <3>3, AppendProperties, LenProperties
      <3> QED
        BY <3>1, <3>2, <3>3, <3>4
    <2>4. CASE n < 10 /\ m < 10
      <3>1. Digit[n + 1] = Digit[m + 1]
        BY <2>1, <2>2, <2>4
      <3> QED
        BY <2>4, <3>1, DigitFacts
    <2>5. CASE n >= 10 /\ m >= 10
      <3>1. /\ itoa[n \div 10] = itoa[m \div 10]
            /\ Digit[(n % 10) + 1] = Digit[(m % 10) + 1]
        <4> DEFINE s == itoa[n \div 10]
        <4> DEFINE t == itoa[m \div 10]
        <4> DEFINE d == Digit[(n % 10) + 1]
        <4> DEFINE e == Digit[(m % 10) + 1]
        <4>1. /\ s \in Seq(Lower) /\ t \in Seq(Lower)
              /\ d \in Lower /\ e \in Lower
          BY <2>1, <2>3, <2>5
        <4>2. Append(s, d) = Append(t, e)
          BY <2>1, <2>3, <2>5
        <4> HIDE DEF s, t, d, e
        <4>3. s = t /\ d = e
          BY <4>1, <4>2, AppendInjective
        <4> QED
          BY <4>3 DEF s, t, d, e
      <3>2. n \div 10 = m \div 10
        BY <1>1, <2>1, <2>3, <2>5, <3>1
      <3>3. n % 10 \in 0 .. 9 /\ m % 10 \in 0 .. 9
        BY <2>1, Decimal
      <3>4. n % 10 = m % 10
        BY <3>1, <3>3, DigitFacts
      <3>5. n = 10 * (n \div 10) + (n % 10) /\ m = 10 * (m \div 10) + (m % 10)
        BY <2>1, Decimal
      <3> QED
        BY <3>2, <3>4, <3>5, Zenon
    <2>6. CASE n < 10 /\ m >= 10
      <3>1. Len(itoa[n]) = 1
        BY <2>2, <2>6
      <3>2. Len(itoa[m]) >= 2
        BY <2>1, <2>3, <2>6
      <3> QED
        BY <3>1, <3>2
    <2>7. CASE n >= 10 /\ m < 10
      <3>1. Len(itoa[n]) >= 2
        BY <2>3, <2>7
      <3>2. Len(itoa[m]) = 1
        BY <2>1, <2>2, <2>7
      <3> QED
        BY <3>1, <3>2
    <2> QED
      BY <2>4, <2>5, <2>6, <2>7
  <1>2. Nat \subseteq S
    <2> HIDE DEF S
    <2> QED
      BY <1>1, FromAllBelow
  <1> QED
    BY <1>2, NamingAssumption

-----------------------------------------------------------------------------
(* Handles.                                                                *)

(* The first n characters of a text.                                       *)
LEMMA PrefixProperties ==
  ASSUME NEW S, NEW s \in Seq(S), NEW n \in 0 .. Len(s)
  PROVE  /\ Prefix(s, n) \in Seq(S) /\ Len(Prefix(s, n)) = n
         /\ \A i \in 1 .. n : Prefix(s, n)[i] = s[i]
  <1> DEFINE t == SubSeq(s, 1, n)
  <1>1. n \in Nat /\ n <= Len(s)
    BY LenProperties
  <1>2. \A i \in 1 .. n : s[i] \in S
    BY <1>1, ElementOfSeq
  <1>3. /\ t \in Seq(S) /\ Len(t) = IF 1 <= n THEN n - 1 + 1 ELSE 0
        /\ \A i \in 1 .. n - 1 + 1 : t[i] = s[1 + i - 1]
    BY <1>1, <1>2, SubSeqProperties
  <1> HIDE DEF t
  <1>4. t \in Seq(S) /\ Len(t) = n /\ \A i \in 1 .. n : t[i] = s[i]
    BY <1>1, <1>3
  <1> QED
    BY <1>4 DEF t, Prefix

(* What the server makes of any name is nothing or a valid handle. *)
LEMMA HandleMade ==
  ASSUME NEW name \in Seq(Chars)
  PROVE  /\ GenerateHandle(name) \in Seq(Plain)
         /\ GenerateHandle(name) = <<>> \/ IsValidHandle(GenerateHandle(name))
  <1> DEFINE slug == Trim(Collapse(Mapped(HandleChar, name)))
  <1> DEFINE cut == IF Len(slug) > MaxHandle THEN Trim(Prefix(slug, MaxHandle))
                                             ELSE slug
  <1>1. slug \in Seq(Plain) /\ (slug = <<>> \/ Slug(slug))
    <2>1. Mapped(HandleChar, name) \in Seq(Plain)
      BY CharFacts, HandleCharType, MappedType
    <2>2. Collapse(Mapped(HandleChar, name)) \in Seq(Plain)
      BY <2>1, CollapseType
    <2> QED
      BY <2>2, TrimmedIsSlug
  <1>2. GenerateHandle(name) = IF Len(cut) < 3 THEN <<>> ELSE cut
    BY DEF GenerateHandle
  <1> HIDE DEF slug
  <1>3. Len(slug) \in Nat /\ MaxHandle \in Nat
    BY <1>1, LenProperties, NamingAssumption
  <1>4. /\ cut \in Seq(Plain) /\ Len(cut) <= MaxHandle
        /\ cut = <<>> \/ Slug(cut)
    <2>1. CASE Len(slug) > MaxHandle
      <3> DEFINE t == Prefix(slug, MaxHandle)
      <3>1. t \in Seq(Plain) /\ Len(t) = MaxHandle
        <4>1. MaxHandle \in 0 .. Len(slug)
          BY <1>3, <2>1
        <4> QED
          BY <1>1, <4>1, PrefixProperties
      <3> HIDE DEF t
      <3>2. /\ Trim(t) \in Seq(Plain) /\ Len(Trim(t)) <= MaxHandle
            /\ Trim(t) = <<>> \/ Slug(Trim(t))
        BY <3>1, TrimmedIsSlug
      <3> QED
        BY <2>1, <3>2 DEF t
    <2>2. CASE ~(Len(slug) > MaxHandle)
      <3>1. cut = slug /\ Len(slug) <= MaxHandle
        BY <1>3, <2>2
      <3> HIDE DEF cut
      <3> QED
        BY <1>1, <3>1
    <2> QED
      BY <2>1, <2>2
  <1> HIDE DEF cut
  <1>5. CASE Len(cut) < 3
    BY <1>2, <1>5, EmptySeq
  <1>6. CASE ~(Len(cut) < 3)
    <2>1. Len(cut) \in 3 .. MaxHandle
      BY <1>3, <1>4, <1>6, LenProperties
    <2>2. Slug(cut)
      BY <1>4, <2>1, EmptySeq
    <2> QED
      BY <1>2, <1>4, <1>6, <2>1, <2>2 DEF IsValidHandle
  <1> QED
    BY <1>5, <1>6

(* A candidate is the first characters of the base, a hyphen and a number. *)
LEMMA CandidateShape ==
  ASSUME base \in Seq(Plain), IsValidHandle(base), NEW i \in 1 .. LastSuffix
  PROVE  /\ Candidate(i) \in Seq(Plain)
         /\ Len(Candidate(i)) <= MaxHandle
         /\ \E k \in 3 .. Len(base) :
              /\ Len(Candidate(i)) = k + 1 + Len(itoa[i])
              /\ \A n \in 1 .. k : Candidate(i)[n] = base[n]
              /\ Candidate(i)[k + 1] = "-"
              /\ \A n \in 1 .. Len(itoa[i]) :
                   Candidate(i)[k + 1 + n] = itoa[i][n]
  <1> DEFINE number == itoa[i]
  <1> DEFINE suffix == <<"-">> \o number
  <1> DEFINE room == MaxHandle - Len(suffix)
  <1> DEFINE k == Min({Len(base), room})
  <1> DEFINE p == Prefix(base, k)
  <1>1. /\ MaxHandle \in Nat /\ i \in 0 .. LastSuffix
        /\ LastSuffix \in 0 .. LastSuffix /\ i <= LastSuffix
    BY NamingAssumption
  <1>2. /\ number \in Seq(Lower) /\ number \in Seq(Plain)
        /\ Len(number) \in Nat
    BY <1>1, ItoaType, CharFacts, SeqMonotonic, LenProperties
  <1>3. Len(number) <= Len(itoa[LastSuffix]) /\ Len(itoa[LastSuffix]) \in Nat
    BY <1>1, ItoaGrows, ItoaType, LenProperties
  <1>4. Candidate(i) = p \o suffix
    BY DEF Candidate
  <1> HIDE DEF number
  <1>5. /\ suffix \in Seq(Plain) /\ Len(suffix) = 1 + Len(number)
        /\ suffix[1] = "-" /\ \A n \in 1 .. Len(number) : suffix[1 + n] = number[n]
    <2> DEFINE dash == <<"-">>
    <2>1. dash \in Seq(Plain) /\ Len(dash) = 1 /\ dash[1] = "-"
      <3>1. \A d \in Plain : <<d>> \in Seq(Plain) /\ Len(<<d>>) = 1 /\ <<d>>[1] = d
        OBVIOUS
      <3> QED
        BY <3>1, CharFacts
    <2> DEFINE whole == dash \o number
    <2>2. suffix = whole
      OBVIOUS
    <2> HIDE DEF dash, suffix
    <2>3. /\ whole \in Seq(Plain)
          /\ Len(whole) = Len(dash) + Len(number)
          /\ \A n \in 1 .. Len(dash) + Len(number) : whole[n] =
                        IF n <= Len(dash) THEN dash[n] ELSE number[n - Len(dash)]
      BY <1>2, <2>1, ConcatProperties
    <2> HIDE DEF whole
    <2>4. whole[1] = "-"
      BY <1>2, <2>1, <2>3
    <2>5. ASSUME NEW n \in 1 .. Len(number)
          PROVE  whole[1 + n] = number[n]
      <3>1. 1 + n \in 1 .. Len(dash) + Len(number) /\ ~(1 + n <= Len(dash))
            /\ (1 + n) - Len(dash) = n
        BY <1>2, <2>1
      <3> QED
        BY <2>3, <3>1
    <2> QED
      BY <2>1, <2>2, <2>3, <2>4, <2>5
  <1> HIDE DEF suffix
  <1>6. room \in Nat /\ room >= 3
    BY <1>1, <1>2, <1>3, <1>5, RoomAssumption DEF number
  <1>7. Len(base) \in 3 .. MaxHandle
    BY DEF IsValidHandle
  <1>8. k \in 3 .. Len(base) /\ k <= room
    <2> DEFINE S == {Len(base), room}
    <2> HIDE DEF room
    <2>1. S \in SUBSET (1 .. MaxHandle + room) /\ S # {} /\ MaxHandle + room \in Nat
      BY <1>1, <1>6, <1>7
    <2>2. Min(S) \in S /\ \A y \in S : Min(S) <= y
      <3> HIDE DEF S
      <3> QED
        BY <2>1, Ends
    <2> QED
      BY <1>6, <1>7, <2>2
  <1> HIDE DEF k
  <1>9. /\ p \in Seq(Plain) /\ Len(p) = k /\ \A n \in 1 .. k : p[n] = base[n]
    BY <1>7, <1>8, PrefixProperties
  <1> HIDE DEF p
  <1>10. /\ p \o suffix \in Seq(Plain)
         /\ Len(p \o suffix) = k + (1 + Len(number))
         /\ \A n \in 1 .. k + (1 + Len(number)) : (p \o suffix)[n] =
                      IF n <= k THEN p[n] ELSE suffix[n - k]
    BY <1>5, <1>9, ConcatProperties
  <1>11. /\ Candidate(i) \in Seq(Plain)
         /\ Len(Candidate(i)) = k + (1 + Len(number))
         /\ \A n \in 1 .. k + (1 + Len(number)) : Candidate(i)[n] =
                      IF n <= k THEN p[n] ELSE suffix[n - k]
    BY <1>4, <1>10
  <1>12. Len(Candidate(i)) <= MaxHandle
    BY <1>1, <1>2, <1>5, <1>8, <1>11
  <1>13. \A n \in 1 .. k : Candidate(i)[n] = base[n]
    BY <1>2, <1>8, <1>9, <1>11
  <1>14. Candidate(i)[k + 1] = "-"
    <2>1. k + 1 \in 1 .. k + (1 + Len(number)) /\ ~(k + 1 <= k) /\ (k + 1) - k = 1
      BY <1>2, <1>7, <1>8
    <2>2. Candidate(i)[k + 1] = suffix[1]
      BY <1>11, <2>1
    <2> QED
      BY <1>5, <2>2
  <1>15. \A n \in 1 .. Len(number) : Candidate(i)[k + 1 + n] = number[n]
    <2> SUFFICES ASSUME NEW n \in 1 .. Len(number)
                 PROVE  Candidate(i)[k + 1 + n] = number[n]
      OBVIOUS
    <2>1. /\ k + 1 + n \in 1 .. k + (1 + Len(number)) /\ ~(k + 1 + n <= k)
          /\ (k + 1 + n) - k = 1 + n
      BY <1>2, <1>8
    <2>2. Candidate(i)[k + 1 + n] = suffix[1 + n]
      BY <1>11, <2>1
    <2> QED
      BY <1>5, <2>2
  <1>16. Len(Candidate(i)) = k + 1 + Len(number)
    BY <1>2, <1>8, <1>11
  <1> QED
    BY <1>8, <1>11, <1>12, <1>13, <1>14, <1>15, <1>16 DEF number

(* It is valid like the base, *)
LEMMA CandidateValid ==
  ASSUME base \in Seq(Plain), IsValidHandle(base), NEW i \in 1 .. LastSuffix
  PROVE  IsValidHandle(Candidate(i))
  <1> DEFINE c == Candidate(i)
  <1>1. c \in Seq(Plain) /\ Len(c) <= MaxHandle
    BY CandidateShape
  <1>2. PICK k \in 3 .. Len(base) :
              /\ Len(c) = k + 1 + Len(itoa[i])
              /\ \A n \in 1 .. k : c[n] = base[n]
              /\ c[k + 1] = "-"
              /\ \A n \in 1 .. Len(itoa[i]) : c[k + 1 + n] = itoa[i][n]
    BY CandidateShape
  <1> HIDE DEF c
  <1>3. itoa[i] \in Seq(Lower) /\ Len(itoa[i]) \in Nat /\ Len(itoa[i]) >= 1
    BY ItoaType, LenProperties, NamingAssumption
  <1>4. Len(base) \in Nat /\ MaxHandle \in Nat /\ base[1] \in Lower
    BY LenProperties, NamingAssumption DEF IsValidHandle, Slug
  <1>5. c[1] \in Lower
    <2>1. 1 \in 1 .. k
      BY <1>4
    <2>2. c[1] = base[1]
      BY <1>2, <2>1
    <2> QED
      BY <1>4, <2>2
  <1>6. c[Len(c)] \in Lower
    <2> DEFINE n == Len(itoa[i])
    <2>1. n \in 1 .. n /\ itoa[i][n] \in Lower
      BY <1>3, ElementOfSeq
    <2>2. c[k + 1 + n] = itoa[i][n]
      BY <1>2, <2>1
    <2> QED
      BY <1>2, <2>1, <2>2
  <1>7. Len(c) \in 3 .. MaxHandle
    <2> DEFINE n == Len(itoa[i])
    <2> DEFINE l == Len(c)
    <2>1. l = k + 1 + n /\ l <= MaxHandle
      BY <1>1, <1>2
    <2>2. k \in Nat /\ k >= 3 /\ n \in Nat /\ MaxHandle \in Nat
      BY <1>3, <1>4
    <2> HIDE DEF n, l
    <2>3. l \in 3 .. MaxHandle
      BY <2>1, <2>2
    <2> QED
      BY <2>3 DEF l
  <1>8. c # <<>>
    BY <1>1, <1>7, EmptySeq
  <1>9. ToSet(c) \subseteq Plain
    BY <1>1, LenProperties DEF ToSet
  <1> QED
    BY <1>5, <1>6, <1>7, <1>8, <1>9 DEF IsValidHandle, Slug, Plain, c

(* and another suffix makes another candidate: the last hyphen shows where *)
(* the number begins.                                                      *)
LEMMA CandidatesApart ==
  ASSUME base \in Seq(Plain), IsValidHandle(base),
         NEW i \in 1 .. LastSuffix, NEW j \in 1 .. LastSuffix,
         Candidate(i) = Candidate(j)
  PROVE  i = j
  <1> DEFINE c == Candidate(i)
  <1> DEFINE s == itoa[i]
  <1> DEFINE t == itoa[j]
  <1>1. PICK k \in 3 .. Len(base) :
              /\ Len(c) = k + 1 + Len(s) /\ c[k + 1] = "-"
              /\ \A n \in 1 .. Len(s) : c[k + 1 + n] = s[n]
    BY CandidateShape
  <1>2. PICK m \in 3 .. Len(base) :
              /\ Len(c) = m + 1 + Len(t) /\ c[m + 1] = "-"
              /\ \A n \in 1 .. Len(t) : c[m + 1 + n] = t[n]
    <2>1. PICK m \in 3 .. Len(base) :
              /\ Len(Candidate(j)) = m + 1 + Len(t) /\ Candidate(j)[m + 1] = "-"
              /\ \A n \in 1 .. Len(t) : Candidate(j)[m + 1 + n] = t[n]
      BY CandidateShape
    <2>2. c = Candidate(j)
      OBVIOUS
    <2> HIDE DEF c, t
    <2> QED
      BY <2>1, <2>2
  <1>3. s \in Seq(Lower) /\ t \in Seq(Lower)
    BY ItoaType, NamingAssumption
  <1>4. s = t => i = j
    BY ItoaInjective, NamingAssumption
  <1> HIDE DEF c, s, t
  <1>5. /\ Len(s) \in Nat /\ Len(t) \in Nat /\ Len(base) \in Nat
        /\ \A n \in 1 .. Len(s) : s[n] # "-"
        /\ \A n \in 1 .. Len(t) : t[n] # "-"
    <2>1. Len(s) \in Nat /\ Len(t) \in Nat /\ Len(base) \in Nat
      BY <1>3, LenProperties
    <2>2. ASSUME NEW u \in Seq(Lower)
          PROVE  \A n \in 1 .. Len(u) : u[n] # "-"
      BY <2>2, ElementOfSeq, CharFacts
    <2> QED
      BY <1>3, <2>1, <2>2
  <1>6. ~(k < m)
    <2> SUFFICES ASSUME k < m
                 PROVE  FALSE
      OBVIOUS
    <2>1. m - k \in 1 .. Len(s) /\ k + 1 + (m - k) = m + 1
      BY <1>1, <1>2, <1>5
    <2>2. c[k + 1 + (m - k)] = s[m - k] /\ s[m - k] # "-"
      BY <1>1, <1>5, <2>1
    <2> QED
      BY <1>2, <2>1, <2>2
  <1>7. ~(m < k)
    <2> SUFFICES ASSUME m < k
                 PROVE  FALSE
      OBVIOUS
    <2>1. k - m \in 1 .. Len(t) /\ m + 1 + (k - m) = k + 1
      BY <1>1, <1>2, <1>5
    <2>2. c[m + 1 + (k - m)] = t[k - m] /\ t[k - m] # "-"
      BY <1>2, <1>5, <2>1
    <2> QED
      BY <1>1, <2>1, <2>2
  <1>8. k = m /\ Len(s) = Len(t)
    BY <1>1, <1>2, <1>5, <1>6, <1>7
  <1>9. \A n \in 1 .. Len(s) : s[n] = t[n]
    BY <1>1, <1>2, <1>8
  <1>10. s = t
    BY <1>3, <1>8, <1>9, SeqEqual
  <1> QED
    BY <1>4, <1>10

-----------------------------------------------------------------------------
(* Usernames.                                                              *)

(* A generated username satisfies the CHECK of its column.                 *)
LEMMA RandomSlugType ==
  ASSUME NEW n \in Nat, n >= 2, NEW u \in RandomSlug(n)
  PROVE  /\ u \in Seq(Plain) /\ Len(u) = n
         /\ u[1] \in Lower /\ u[n] \in Lower /\ UsernameFormat(u)
  <1>1. PICK c \in Slugs : u = [i \in 1 .. n |-> c]
    BY DEF RandomSlug
  <1>2. c \in Lower /\ c \in Plain
    BY NamingAssumption, CharFacts
  <1>3. u \in [1 .. n -> Plain] /\ u[1] \in Lower /\ u[n] \in Lower
    BY <1>1, <1>2
  <1>4. u \in Seq(Plain) /\ Len(u) = n
    BY <1>3
  <1>5. u # <<>>
    BY <1>4, EmptySeq
  <1>6. ToSet(u) \subseteq Plain
    BY <1>4, LenProperties DEF ToSet
  <1> QED
    BY <1>3, <1>4, <1>5, <1>6 DEF UsernameFormat, Slug, Plain

(* Whatever is in a name, the username made of it is accepted, *)
LEMMA UsernameMade ==
  ASSUME NEW name \in Seq(Chars), NEW u \in GenerateUsername(name)
  PROVE  u \in Seq(Plain) /\ UsernameFormat(u)
  <1> DEFINE slug == Trim(Collapse(Mapped(UsernameChar, name)))
  <1>1. slug \in Seq(Plain) /\ (slug = <<>> \/ Slug(slug))
    <2>1. Mapped(UsernameChar, name) \in Seq(Plain)
      BY CharFacts, UsernameCharType, MappedType
    <2>2. Collapse(Mapped(UsernameChar, name)) \in Seq(Plain)
      BY <2>1, CollapseType
    <2> QED
      BY <2>2, TrimmedIsSlug
  <1>2. u \in IF Len(slug) < 2 THEN RandomSlug(8) ELSE {slug}
    BY DEF GenerateUsername
  <1> HIDE DEF slug
  <1>3. CASE u \in RandomSlug(8)
    BY <1>3, RandomSlugType
  <1>4. CASE u = slug /\ ~(Len(slug) < 2)
    <2>1. Len(slug) >= 2
      BY <1>1, <1>4, LenProperties
    <2>2. slug # <<>>
      BY <2>1, EmptySeq
    <2> QED
      BY <1>1, <1>4, <2>1, <2>2 DEF UsernameFormat
  <1> QED
    BY <1>2, <1>3, <1>4

(* and so it is with a random suffix.                                      *)
LEMMA SuffixedUsername ==
  ASSUME NEW b \in Seq(Plain), UsernameFormat(b), NEW r \in RandomSlug(4)
  PROVE  UsernameFormat(b \o r)
  <1> DEFINE u == b \o r
  <1>1. r \in Seq(Plain) /\ Len(r) = 4 /\ r[4] \in Lower
    <2> DEFINE n == 4
    <2>1. n \in Nat /\ n >= 2 /\ r \in RandomSlug(n)
      OBVIOUS
    <2> HIDE DEF n
    <2>2. r \in Seq(Plain) /\ Len(r) = n /\ r[n] \in Lower
      BY <2>1, RandomSlugType
    <2> QED
      BY <2>2 DEF n
  <1>2. Len(b) \in Nat /\ Len(b) >= 2 /\ b[1] \in Lower
    BY LenProperties DEF UsernameFormat, Slug
  <1>3. /\ u \in Seq(Plain) /\ Len(u) = Len(b) + Len(r)
        /\ \A i \in 1 .. Len(b) + Len(r) :
             u[i] = IF i <= Len(b) THEN b[i] ELSE r[i - Len(b)]
    BY <1>1, ConcatProperties
  <1> HIDE DEF u
  <1>4. u[1] \in Lower
    BY <1>1, <1>2, <1>3
  <1>5. u[Len(u)] \in Lower
    <2> DEFINE n == Len(b)
    <2>1. n \in Nat /\ Len(u) = n + 4
      BY <1>1, <1>2, <1>3
    <2>2. n + 4 \in 1 .. Len(b) + Len(r) /\ ~(n + 4 <= n) /\ (n + 4) - n = 4
      BY <1>1, <2>1
    <2>3. u[n + 4] = r[4]
      BY <1>3, <2>2
    <2> QED
      BY <1>1, <2>1, <2>3
  <1>6. Len(u) >= 2 /\ u # <<>>
    <2>1. Len(u) >= 2
      BY <1>1, <1>2, <1>3
    <2> QED
      BY <2>1, EmptySeq
  <1>7. ToSet(u) \subseteq Plain
    BY <1>3, LenProperties DEF ToSet
  <1> QED
    BY <1>4, <1>5, <1>6, <1>7 DEF UsernameFormat, Slug, Plain, u

-----------------------------------------------------------------------------
(* Passwords.                                                              *)

(* Two characters behind a text are one, and then the other.               *)
LEMMA Two ==
  ASSUME NEW C, NEW a \in C, NEW b \in C
  PROVE  /\ <<a, b>> \in Seq(C)
         /\ \A r \in Seq(C) : r \o <<a, b>> = Append(Append(r, a), b)
  <1>1. <<a, b>> \in Seq(C) /\ <<a>> \in Seq(C) /\ <<b>> \in Seq(C)
    OBVIOUS
  <1>2. <<a, b>> = Append(<<a>>, b)
    OBVIOUS
  <1> DEFINE p == <<a>>
  <1> DEFINE q == <<b>>
  <1>3. <<a, b>> = p \o q
    BY <1>1, <1>2, AppendIsConcat
  <1> SUFFICES ASSUME NEW r \in Seq(C)
               PROVE  r \o <<a, b>> = Append(Append(r, a), b)
    BY <1>1
  <1>4. Append(r, a) \in Seq(C)
    BY AppendProperties
  <1>5. Append(r, a) = r \o p /\ Append(Append(r, a), b) = Append(r, a) \o q
    BY <1>4, AppendIsConcat
  <1>6. p \in Seq(C) /\ q \in Seq(C)
    BY <1>1
  <1> HIDE DEF p, q
  <1>7. r \o (p \o q) = (r \o p) \o q
    BY <1>6, ConcatAssociative
  <1> QED
    BY <1>3, <1>5, <1>7

(* Nothing to replace in no text.                                          *)
LEMMA ReplacedEmpty == \A c : Replaced(<<>>, c) = <<>>
  BY FoldEmpty DEF Replaced, Mapped

(* One character more: it follows as it is, or behind a backslash.         *)
LEMMA ReplacedAppend ==
  ASSUME NEW c \in Chars, NEW s \in Seq(Chars), NEW d \in Chars
  PROVE  /\ Replaced(s, c) \in Seq(Chars)
         /\ Replaced(Append(s, d), c) =
              IF d = c THEN Append(Append(Replaced(s, c), "backslash"), c)
                       ELSE Append(Replaced(s, c), d)
  <1> DEFINE f == [e \in Chars |-> IF e = c THEN <<"backslash", c>> ELSE <<e>>]
  <1> DEFINE g == [r \in Seq(Chars) |-> [e \in Chars |-> r \o f[e]]]
  <1>1. \A u : Replaced(u, c) = Mapped(f, u)
    BY Zenon DEF Replaced
  <1>2. \A u : Mapped(f, u) = Fold(g, <<>>, u)
    BY Zenon DEF Mapped
  <1>3. \A e \in Chars : f[e] \in Seq(Chars)
    <2>1. \A e \in Chars : f[e] \in {<<"backslash", c>>, <<e>>}
      OBVIOUS
    <2> HIDE DEF f
    <2>2. \A e \in Chars : <<e>> \in Seq(Chars)
      OBVIOUS
    <2>3. <<"backslash", c>> \in Seq(Chars)
      <3> DEFINE b == "backslash"
      <3>1. b \in Chars
        BY CharFacts
      <3> HIDE DEF b
      <3>2. <<b, c>> \in Seq(Chars)
        BY <3>1, Two
      <3> QED
        BY <3>2 DEF b
    <2> QED
      BY <2>1, <2>2, <2>3
  <1>4. /\ f[d] = IF d = c THEN <<"backslash", c>> ELSE <<d>>
    OBVIOUS
  <1> HIDE DEF f
  <1>5. Mapped(f, s) \in Seq(Chars)
    BY <1>3, MappedType
  <1>6. \A r \in Seq(Chars) : g[r][d] = r \o f[d]
    OBVIOUS
  <1> HIDE DEF g
  <1>7. Fold(g, <<>>, Append(s, d)) = g[Fold(g, <<>>, s)][d]
    BY FoldAppend
  <1> DEFINE r == Replaced(s, c)
  <1>8. r \in Seq(Chars) /\ Replaced(Append(s, d), c) = r \o f[d]
    BY <1>1, <1>2, <1>5, <1>6, <1>7
  <1> HIDE DEF r
  <1>9. r \o <<d>> = Append(r, d)
    BY <1>8, AppendIsConcat
  <1>10. r \o <<"backslash", c>> = Append(Append(r, "backslash"), c)
    <2> DEFINE b == "backslash"
    <2>1. b \in Chars
      BY CharFacts
    <2> HIDE DEF b
    <2>2. r \o <<b, c>> = Append(Append(r, b), c)
      BY <1>8, <2>1, Two
    <2> QED
      BY <2>2 DEF b
  <1> QED
    BY <1>4, <1>8, <1>9, <1>10 DEF r

(* Reading a character leaves the reader in one of its states.             *)
LEMMA ReadType ==
  \A r \in Reading, c \in Chars : Read[r][c] \in Reading
  BY AppendProperties DEF Read, Reading

(* Reading a text that grows by a character takes one step more.           *)
LEMMA ReadAppend ==
  ASSUME NEW s \in Seq(Chars), NEW c \in Chars
  PROVE  /\ ReadQuoted(s) \in Reading
         /\ ReadQuoted(Append(s, c)) = Read[ReadQuoted(s)][c]
  <1> DEFINE zero == [value |-> <<>>, escaped |-> FALSE, ended |-> FALSE]
  <1>1. \A u : ReadQuoted(u) = Fold(Read, zero, u)
    BY Zenon DEF ReadQuoted
  <1>2. zero \in Reading
    BY EmptySeq DEF Reading
  <1> HIDE DEF zero
  <1>3. Fold(Read, zero, s) \in Reading
    BY <1>2, ReadType, FoldType
  <1>4. Fold(Read, zero, Append(s, c)) = Read[Fold(Read, zero, s)][c]
    BY FoldAppend
  <1> QED
    BY <1>1, <1>3, <1>4

(* What has been read when the value is v and the quotes are still open.   *)
Open(v) == [value |-> v, escaped |-> FALSE, ended |-> FALSE]

(* An open value grows by a plain or an escaped character; a quote ends    *)
(* it.                                                                     *)
LEMMA ReadSteps ==
  ASSUME NEW v \in Seq(Chars), NEW c \in Chars
  PROVE  /\ c \notin {"backslash", "quote"} => Read[Open(v)][c] = Open(Append(v, c))
         /\ Read[Read[Open(v)]["backslash"]][c] = Open(Append(v, c))
         /\ Read[Read[Open(v)]["quote"]][c].value = v
  <1>1. Open(v) \in Reading /\ "backslash" \in Chars /\ "quote" \in Chars
    BY CharFacts DEF Open, Reading
  <1>2. ASSUME c \notin {"backslash", "quote"}
        PROVE  Read[Open(v)][c] = Open(Append(v, c))
    BY <1>1, <1>2 DEF Read, Open
  <1> DEFINE esc == [value |-> v, escaped |-> TRUE, ended |-> FALSE]
  <1>3. Read[Open(v)]["backslash"] = esc
    BY <1>1 DEF Read, Open
  <1>4. Read[esc][c] = Open(Append(v, c))
    BY <1>1 DEF Read, Open, Reading
  <1> DEFINE end == [value |-> v, escaped |-> FALSE, ended |-> TRUE]
  <1>5. Read[Open(v)]["quote"] = end
    BY <1>1 DEF Read, Open
  <1>6. Read[end][c] = end
    BY <1>1 DEF Read, Reading
  <1> QED
    BY <1>2, <1>3, <1>4, <1>5, <1>6

(* An escaped text is read as the text, and its end is not found in it.    *)
LEMMA EscapedReads ==
  \A s \in Seq(Chars) : /\ EscapePassword(s) \in Seq(Chars)
                        /\ ReadQuoted(EscapePassword(s)) = Open(s)
  <1> DEFINE S == {s \in Seq(Chars) : /\ EscapePassword(s) \in Seq(Chars)
                                      /\ ReadQuoted(EscapePassword(s)) = Open(s)}
  <1>1. <<>> \in S
    <2>1. EscapePassword(<<>>) = <<>>
      BY ReplacedEmpty DEF EscapePassword
    <2>2. ReadQuoted(<<>>) = Open(<<>>)
      BY FoldEmpty DEF ReadQuoted, Open
    <2> QED
      BY <2>1, <2>2, EmptySeq
  <1>2. ASSUME NEW s \in Seq(Chars), NEW c \in Chars, s \in S
        PROVE  Append(s, c) \in S
    <2> DEFINE once == Replaced(s, "backslash")
    <2> DEFINE twice == Replaced(once, "quote")
    <2> DEFINE b == "backslash"
    <2> DEFINE q == "quote"
    <2>1. b \in Chars /\ q \in Chars /\ b # q
      BY CharFacts
    <2>2. /\ EscapePassword(s) = twice
          /\ EscapePassword(Append(s, c)) =
               Replaced(Replaced(Append(s, c), b), q)
      BY DEF EscapePassword
    <2>3. /\ once \in Seq(Chars)
          /\ Replaced(Append(s, c), b) =
               IF c = b THEN Append(Append(once, b), b) ELSE Append(once, c)
      BY <2>1, ReplacedAppend
    <2>4. twice \in Seq(Chars)
      BY <2>1, <2>3, ReplacedAppend
    <2>5. ReadQuoted(twice) = Open(s)
      BY <1>2, <2>2
    <2>6. ASSUME NEW u \in Seq(Chars), NEW d \in Chars
          PROVE  /\ Append(u, d) \in Seq(Chars)
                 /\ ReadQuoted(Append(u, d)) = Read[ReadQuoted(u)][d]
      BY ReadAppend, AppendProperties
    <2>7. ASSUME NEW u \in Seq(Chars), NEW d \in Chars
          PROVE  Replaced(Append(u, d), q) =
                   IF d = q THEN Append(Append(Replaced(u, q), b), q)
                            ELSE Append(Replaced(u, q), d)
      BY <2>1, ReplacedAppend
    <2>8. twice = Replaced(once, q)
      OBVIOUS
    <2> HIDE DEF once, twice, b, q
    <2>9. CASE c = b
      <3>1. Replaced(Replaced(Append(s, c), b), q) = Append(Append(twice, b), b)
        <4> DEFINE u == Append(once, b)
        <4>1. Replaced(Append(s, c), b) = Append(u, b) /\ u \in Seq(Chars)
          BY <2>1, <2>3, <2>6, <2>9
        <4>2. Replaced(u, q) = Append(twice, b)
          BY <2>1, <2>3, <2>7, <2>8
        <4> HIDE DEF u
        <4>3. Replaced(Append(u, b), q) = Append(Replaced(u, q), b)
          BY <2>1, <2>7, <4>1
        <4> QED
          BY <4>1, <4>2, <4>3
      <3>2. /\ Append(Append(twice, b), b) \in Seq(Chars)
            /\ ReadQuoted(Append(Append(twice, b), b)) = Read[Read[Open(s)][b]][b]
        <4> DEFINE u == Append(twice, b)
        <4>1. u \in Seq(Chars) /\ ReadQuoted(u) = Read[Open(s)][b]
          BY <2>1, <2>4, <2>5, <2>6
        <4> HIDE DEF u
        <4>2. /\ Append(u, b) \in Seq(Chars)
              /\ ReadQuoted(Append(u, b)) = Read[ReadQuoted(u)][b]
          BY <2>1, <2>6, <4>1
        <4> QED
          BY <4>1, <4>2 DEF u
      <3>3. Read[Read[Open(s)][b]][b] = Open(Append(s, c))
        BY <2>1, <2>9, ReadSteps DEF b
      <3> QED
        BY <2>2, <2>6, <3>1, <3>2, <3>3
    <2>10. CASE c = q
      <3>1. Replaced(Replaced(Append(s, c), b), q) = Append(Append(twice, b), q)
        BY <2>1, <2>3, <2>10, <2>7, <2>8
      <3>2. /\ Append(Append(twice, b), q) \in Seq(Chars)
            /\ ReadQuoted(Append(Append(twice, b), q)) = Read[Read[Open(s)][b]][q]
        <4> DEFINE u == Append(twice, b)
        <4>1. u \in Seq(Chars) /\ ReadQuoted(u) = Read[Open(s)][b]
          BY <2>1, <2>4, <2>5, <2>6
        <4> HIDE DEF u
        <4>2. /\ Append(u, q) \in Seq(Chars)
              /\ ReadQuoted(Append(u, q)) = Read[ReadQuoted(u)][q]
          BY <2>1, <2>6, <4>1
        <4> QED
          BY <4>1, <4>2 DEF u
      <3>3. Read[Read[Open(s)][b]][q] = Open(Append(s, c))
        BY <2>1, <2>10, ReadSteps DEF b
      <3> QED
        BY <2>2, <2>6, <3>1, <3>2, <3>3
    <2>11. CASE c # b /\ c # q
      <3>1. Replaced(Replaced(Append(s, c), b), q) = Append(twice, c)
        BY <2>3, <2>11, <2>7, <2>8
      <3>2. /\ Append(twice, c) \in Seq(Chars)
            /\ ReadQuoted(Append(twice, c)) = Read[Open(s)][c]
        BY <2>4, <2>5, <2>6
      <3>3. Read[Open(s)][c] = Open(Append(s, c))
        BY <2>11, ReadSteps DEF b, q
      <3> QED
        BY <2>2, <2>6, <3>1, <3>2, <3>3
    <2> QED
      BY <2>9, <2>10, <2>11
  <1>3. Seq(Chars) \subseteq S
    <2> HIDE DEF S
    <2> QED
      BY <1>1, <1>2, FromEmpty
  <1> QED
    BY <1>3

(* So the password comes out of its quotes as it went in.                  *)
LEMMA PasswordRead ==
  ASSUME NEW s \in Seq(Chars)
  PROVE  ReadQuoted(EscapePassword(s) \o <<"quote", " ">>).value = s
  <1> DEFINE e == EscapePassword(s)
  <1> DEFINE u == Append(e, "quote")
  <1>1. e \in Seq(Chars) /\ ReadQuoted(e) = Open(s)
    BY EscapedReads
  <1>2. "quote" \in Chars /\ " " \in Chars
    BY CharFacts
  <1> HIDE DEF e
  <1>3. u \in Seq(Chars) /\ ReadQuoted(u) = Read[Open(s)]["quote"]
    <2> DEFINE q == "quote"
    <2>1. q \in Chars
      BY <1>2
    <2> HIDE DEF q
    <2>2. /\ Append(e, q) \in Seq(Chars)
          /\ ReadQuoted(Append(e, q)) = Read[ReadQuoted(e)][q]
      BY <1>1, <2>1, ReadAppend, AppendProperties
    <2> QED
      BY <1>1, <2>2 DEF q
  <1>4. e \o <<"quote", " ">> = Append(u, " ")
    BY <1>1, <1>2, Two
  <1> HIDE DEF u
  <1>5. ReadQuoted(Append(u, " ")) = Read[Read[Open(s)]["quote"]][" "]
    BY <1>2, <1>3, ReadAppend
  <1>6. Read[Read[Open(s)]["quote"]][" "].value = s
    BY <1>2, ReadSteps
  <1> QED
    BY <1>4, <1>5, <1>6 DEF e

-----------------------------------------------------------------------------
(* The inductive invariant.  A name that has become a handle is a valid    *)
(* one; what was found taken is what was asked for, suffix by suffix; and  *)
(* the answer is the next of these, or there was none left to ask for.     *)
Tried(n) == IF n = 0 THEN base ELSE Candidate(n)

HandleInv ==
  kind = "handle" =>
    /\ count \in 0 .. LastSuffix + 1
    /\ base \in Seq(Plain) /\ (base = <<>> \/ IsValidHandle(base))
    /\ base = <<>> => count = 0
    /\ taken = {Tried(n) : n \in 0 .. count - 1}
    /\ step = "start" => count = 0 /\ made = <<>>
    /\ step = "probe" => base # <<>> /\ made = <<>>
    /\ step = "done" => \/ made = <<>> /\ (base = <<>> \/ count > LastSuffix)
                        \/ made = Asked /\ base # <<>> /\ count <= LastSuffix

UsernameInv ==
  kind = "username" =>
    /\ step = "probe" => base \in Seq(Plain) /\ UsernameFormat(base)
    /\ step = "done" => UsernameFormat(made)

NamingInv ==
  /\ kind \in {"handle", "username", "password"} /\ text \in Seq(Chars)
  /\ step \in {"start", "probe", "done"}
  /\ HandleInv /\ UsernameInv /\ PasswordSurvives

(* The invariant holds before the first step.                              *)
LEMMA InitNaming == Init => NamingInv
  <1> SUFFICES ASSUME Init
               PROVE  NamingInv
    OBVIOUS
  <1>1. text \in Seq(Chars) /\ LastSuffix \in Nat
    BY NamingAssumption DEF Init
  <1>2. HandleInv
    <2>1. base = <<>> /\ count = 0 /\ taken = {} /\ made = <<>> /\ step = "start"
      BY DEF Init
    <2>2. {Tried(n) : n \in 0 .. count - 1} = {}
      BY <2>1
    <2> QED
      BY <1>1, <2>1, <2>2, EmptySeq DEF HandleInv
  <1>3. UsernameInv /\ PasswordSurvives
    BY DEF Init, UsernameInv, PasswordSurvives
  <1> QED
    BY <1>1, <1>2, <1>3 DEF Init, NamingInv

(* GenerateHandle makes a valid base or none, and nothing is tried yet.    *)
LEMMA MakeHandleKeeps == NamingInv /\ MakeHandle => NamingInv'
  <1> SUFFICES ASSUME NamingInv, MakeHandle
               PROVE  NamingInv'
    OBVIOUS
  <1>1. /\ kind = "handle" /\ step = "start" /\ base' = GenerateHandle(text)
        /\ UNCHANGED <<kind, text, count, taken>>
        /\ base' = <<>> => step' = "done" /\ made' = <<>>
        /\ base' # <<>> => step' = "probe" /\ made' = made
    BY DEF MakeHandle, Done
  <1>2. text \in Seq(Chars) /\ HandleInv
    BY DEF NamingInv
  <1>3. base' \in Seq(Plain) /\ (base' = <<>> \/ IsValidHandle(base'))
    BY <1>1, <1>2, HandleMade
  <1>4. count = 0 /\ made = <<>> /\ taken = {Tried(n) : n \in 0 .. count - 1}
    BY <1>1, <1>2 DEF HandleInv
  <1>5. taken' = {} /\ count' = 0 /\ {Tried(n)' : n \in 0 .. count' - 1} = {}
    BY <1>1, <1>4
  <1>6. HandleInv'
    BY <1>1, <1>3, <1>4, <1>5, NamingAssumption DEF HandleInv
  <1>7. UsernameInv' /\ PasswordSurvives'
    BY <1>1 DEF UsernameInv, PasswordSurvives
  <1> QED
    BY <1>1, <1>2, <1>6, <1>7 DEF NamingInv

(* A suffix more has been tried, or the search ends with the next or none. *)
LEMMA ProbeHandleKeeps == NamingInv /\ ProbeHandle => NamingInv'
  <1> SUFFICES ASSUME NamingInv, ProbeHandle
               PROVE  NamingInv'
    OBVIOUS
  <1>1. /\ kind = "handle" /\ step = "probe"
        /\ UNCHANGED <<kind, text, base>>
    BY DEF ProbeHandle
  <1>2. text \in Seq(Chars) /\ HandleInv
    BY DEF NamingInv
  <1>3. /\ count \in 0 .. LastSuffix + 1 /\ base # <<>> /\ made = <<>>
        /\ base \in Seq(Plain) /\ IsValidHandle(base)
        /\ taken = {Tried(n) : n \in 0 .. count - 1}
    BY <1>1, <1>2 DEF HandleInv
  <1>4. \A n : Tried(n)' = Tried(n)
    BY <1>1 DEF Tried, Candidate
  <1>5. Asked = Tried(count) /\ Asked' = Tried(count')
    BY <1>1 DEF Asked, Tried, Candidate
  <1>6. ASSUME UNCHANGED <<count, taken>>, step' = "done",
               \/ count > LastSuffix /\ made' = <<>>
               \/ count <= LastSuffix /\ made' = Asked
        PROVE  HandleInv'
    <2>1. taken' = {Tried(n)' : n \in 0 .. count' - 1}
      BY <1>3, <1>4, <1>6
    <2>2. Asked' = Asked
      BY <1>5, <1>6
    <2> QED
      BY <1>1, <1>3, <1>6, <2>1, <2>2 DEF HandleInv
  <1>7. ASSUME count <= LastSuffix, count' = count + 1,
               taken' = taken \cup {Asked}, UNCHANGED <<step, made>>
        PROVE  HandleInv'
    <2>1. count' \in 0 .. LastSuffix + 1 /\ 0 .. count' - 1 = (0 .. count - 1) \cup {count}
      BY <1>3, <1>7, NamingAssumption
    <2>2. taken' = {Tried(n) : n \in 0 .. count' - 1}
      BY <1>3, <1>5, <1>7, <2>1
    <2>3. taken' = {Tried(n)' : n \in 0 .. count' - 1}
      BY <1>4, <2>2
    <2> QED
      BY <1>1, <1>3, <1>7, <2>1, <2>3 DEF HandleInv
  <1>8. HandleInv'
    BY <1>6, <1>7 DEF ProbeHandle, Done
  <1>9. UsernameInv' /\ PasswordSurvives'
    BY <1>1 DEF UsernameInv, PasswordSurvives
  <1>10. step' \in {"start", "probe", "done"}
    BY <1>1 DEF ProbeHandle, Done
  <1> QED
    BY <1>1, <1>2, <1>8, <1>9, <1>10 DEF NamingInv

(* GenerateUsername and its search make names the column accepts.          *)
LEMMA UsernameKeeps == NamingInv /\ (MakeUsername \/ ProbeUsername) => NamingInv'
  <1> SUFFICES ASSUME NamingInv, MakeUsername \/ ProbeUsername
               PROVE  NamingInv'
    OBVIOUS
  <1>1. kind = "username" /\ UNCHANGED <<kind, text>>
    BY DEF MakeUsername, ProbeUsername
  <1>2. text \in Seq(Chars) /\ UsernameInv
    BY DEF NamingInv
  <1>3. ASSUME MakeUsername
        PROVE  UsernameInv'
    <2>1. step' = "probe" /\ base' \in GenerateUsername(text)
      BY <1>3 DEF MakeUsername
    <2>2. base' \in Seq(Plain) /\ UsernameFormat(base')
      BY <1>2, <2>1, UsernameMade
    <2> QED
      BY <2>1, <2>2 DEF UsernameInv
  <1>4. ASSUME ProbeUsername
        PROVE  UsernameInv'
    <2>1. step = "probe" /\ base' = base
      BY <1>4 DEF ProbeUsername
    <2>2. base \in Seq(Plain) /\ UsernameFormat(base)
      BY <1>1, <1>2, <2>1 DEF UsernameInv
    <2>3. CASE UNCHANGED <<step, made>>
      BY <2>1, <2>2, <2>3 DEF UsernameInv
    <2>4. CASE step' = "done" /\ made' = base
      BY <2>2, <2>4 DEF UsernameInv
    <2>5. CASE step' = "done" /\ \E s \in RandomSlug(4) : made' = base \o s
      <3>1. UsernameFormat(made')
        BY <2>2, <2>5, SuffixedUsername
      <3> QED
        BY <2>5, <3>1 DEF UsernameInv
    <2>6. CASE step' = "done" /\ \E s \in RandomSlug(12) : made' = s
      <3>1. UsernameFormat(made')
        BY <2>6, RandomSlugType
      <3> QED
        BY <2>6, <3>1 DEF UsernameInv
    <2> QED
      BY <1>4, <2>3, <2>4, <2>5, <2>6 DEF ProbeUsername, Done
  <1>5. HandleInv' /\ PasswordSurvives'
    BY <1>1 DEF HandleInv, PasswordSurvives
  <1>6. step' \in {"start", "probe", "done"}
    BY DEF NamingInv, MakeUsername, ProbeUsername, Done
  <1> QED
    BY <1>1, <1>2, <1>3, <1>4, <1>5, <1>6 DEF NamingInv

(* The password read back from the connection string is the configured     *)
(* one.                                                                    *)
LEMMA MakeDSNKeeps == NamingInv /\ MakeDSN => NamingInv'
  <1> SUFFICES ASSUME NamingInv, MakeDSN
               PROVE  NamingInv'
    OBVIOUS
  <1>1. /\ kind = "password" /\ UNCHANGED <<kind, text>> /\ step' = "done"
        /\ made' = ReadQuoted(EscapePassword(text) \o <<"quote", " ">>).value
    BY DEF MakeDSN, Done
  <1>2. text \in Seq(Chars)
    BY DEF NamingInv
  <1>3. made' = text
    BY <1>1, <1>2, PasswordRead
  <1>4. HandleInv' /\ UsernameInv' /\ PasswordSurvives'
    BY <1>1, <1>3 DEF HandleInv, UsernameInv, PasswordSurvives
  <1> QED
    BY <1>1, <1>2, <1>4 DEF NamingInv

(* The invariant holds in every behaviour: of MakeHandle and MakeUsername  *)
(* by what is shown above of the text they make, of the two searches probe *)
(* by probe, and of MakeDSN in its one step.                               *)
THEOREM NamingInvariance == Spec => []NamingInv
  <1>1. NamingInv /\ UNCHANGED vars => NamingInv'
    BY DEF vars, NamingInv, HandleInv, UsernameInv, PasswordSurvives, Tried,
           Candidate, Asked
  <1>2. NamingInv /\ [Next]_vars => NamingInv'
    BY <1>1, MakeHandleKeeps, ProbeHandleKeeps, UsernameKeeps, MakeDSNKeeps
    DEF Next
  <1> QED
    BY InitNaming, <1>2, PTL DEF Spec

-----------------------------------------------------------------------------
(* Every handle the server makes of a name or asks the database for, with  *)
(* any suffix, is one that isValidHandle and groups_handle_format accept.  *)
THEOREM HandlesAreStorable == Spec => []HandleStorable
  <1>1. NamingInv => HandleStorable
    <2> SUFFICES ASSUME NamingInv, kind = "handle", NEW h \in taken \cup {made}
                 PROVE  h = <<>> \/ IsValidHandle(h)
      BY DEF HandleStorable
    <2>1. HandleInv /\ step \in {"start", "probe", "done"}
      BY DEF NamingInv
    <2>2. /\ count \in 0 .. LastSuffix + 1 /\ LastSuffix \in Nat
          /\ base \in Seq(Plain) /\ (base = <<>> \/ IsValidHandle(base))
          /\ base = <<>> => count = 0
          /\ taken = {Tried(n) : n \in 0 .. count - 1}
      BY <2>1, NamingAssumption DEF HandleInv
    <2>3. ASSUME base # <<>>, NEW n \in 0 .. LastSuffix
          PROVE  IsValidHandle(Tried(n))
      <3>1. CASE n = 0
        BY <2>2, <2>3, <3>1 DEF Tried
      <3>2. CASE n # 0
        <4>1. n \in 1 .. LastSuffix
          BY <2>2, <3>2
        <4> QED
          BY <2>2, <2>3, <3>2, <4>1, CandidateValid DEF Tried
      <3> QED
        BY <3>1, <3>2
    <2>4. CASE h \in taken
      <3>1. PICK n \in 0 .. count - 1 : h = Tried(n)
        BY <2>2, <2>4
      <3>2. base # <<>> /\ n \in 0 .. LastSuffix
        BY <2>2
      <3> QED
        BY <2>3, <3>1, <3>2
    <2>5. CASE h = made
      <3>1. \/ made = <<>>
            \/ made = Tried(count) /\ base # <<>> /\ count <= LastSuffix
        BY <2>1 DEF HandleInv, Asked, Tried
      <3>2. count <= LastSuffix => count \in 0 .. LastSuffix
        BY <2>2
      <3> QED
        BY <2>3, <2>5, <3>1, <3>2
    <2> QED
      BY <2>4, <2>5
  <1> QED
    BY <1>1, NamingInvariance, PTL

(* Every username the server makes, of a name or at random, is one that    *)
(* users_username_format accepts.                                          *)
THEOREM UsernamesAreStorable == Spec => []UsernameStorable
  <1>1. NamingInv => UsernameStorable
    BY DEF NamingInv, UsernameInv, UsernameStorable
  <1> QED
    BY <1>1, NamingInvariance, PTL

(* A search that gives up on a usable name has found as many different     *)
(* handles taken as there are suffixes.                                    *)
THEOREM SearchIsExhaustive == Spec => []GivesUpOnlyWhenAllTaken
  <1>1. NamingInv => GivesUpOnlyWhenAllTaken
    <2> SUFFICES ASSUME NamingInv, kind = "handle", step = "done",
                        made = <<>>, base # <<>>
                 PROVE  Cardinality(taken) >= LastSuffix
      BY DEF GivesUpOnlyWhenAllTaken
    <2>1. /\ HandleInv /\ LastSuffix \in Nat
      BY NamingAssumption DEF NamingInv
    <2>2. /\ count \in 0 .. LastSuffix + 1
          /\ base \in Seq(Plain) /\ IsValidHandle(base)
          /\ taken = {Tried(n) : n \in 0 .. count - 1}
          /\ count > LastSuffix \/ made = Asked
      BY <2>1 DEF HandleInv
    <2>3. Asked = <<>> /\ count <= LastSuffix => FALSE
      <3> SUFFICES ASSUME Asked = <<>>, count <= LastSuffix
                   PROVE  FALSE
        OBVIOUS
      <3>1. CASE count = 0
        BY <3>1 DEF Asked
      <3>2. CASE count # 0
        <4>1. count \in 1 .. LastSuffix
          BY <2>1, <2>2, <3>2
        <4>2. IsValidHandle(Candidate(count))
          BY <2>2, <4>1, CandidateValid
        <4> QED
          BY <3>2, <4>2 DEF Asked, IsValidHandle, Slug
      <3> QED
        BY <3>1, <3>2
    <2>4. count = LastSuffix + 1
      BY <2>1, <2>2, <2>3
    <2>5. taken = {Tried(n) : n \in 0 .. LastSuffix}
      BY <2>1, <2>2, <2>4
    <2>6. IsFiniteSet(taken)
      <3> DEFINE f == [n \in 0 .. LastSuffix |-> Tried(n)]
      <3>1. f \in Surjection(0 .. LastSuffix, taken)
        BY <2>5 DEF Surjection
      <3>2. IsFiniteSet(0 .. LastSuffix)
        BY <2>1, FS_Interval
      <3> HIDE DEF f
      <3> QED
        BY <3>1, <3>2, FS_Surjection
    <2> DEFINE g == [n \in 1 .. LastSuffix |-> Candidate(n)]
    <2>7. g \in Injection(1 .. LastSuffix, taken)
      <3>1. ASSUME NEW n \in 1 .. LastSuffix
            PROVE  g[n] \in taken
        <4>1. n \in 0 .. LastSuffix /\ n # 0
          BY <2>1
        <4> QED
          BY <2>5, <4>1 DEF Tried
      <3>2. ASSUME NEW n \in 1 .. LastSuffix, NEW m \in 1 .. LastSuffix, g[n] = g[m]
            PROVE  n = m
        BY <2>2, <3>2, CandidatesApart
      <3> QED
        BY <3>1, <3>2 DEF Injection, IsInjective
    <2> HIDE DEF g
    <2>8. Cardinality(1 .. LastSuffix) <= Cardinality(taken)
      BY <2>6, <2>7, FS_Injection
    <2>9. Cardinality(1 .. LastSuffix) = LastSuffix
      BY <2>1, FS_Interval
    <2>10. Cardinality(taken) \in Nat
      BY <2>6, FS_CardinalityType
    <2> QED
      BY <2>1, <2>8, <2>9, <2>10
  <1> QED
    BY <1>1, NamingInvariance, PTL

(* The server logs in with the password it was configured with: the DSN    *)
(* quotes and escapes any text so that it is read back unchanged.          *)
THEOREM PasswordsSurvive == Spec => []PasswordSurvives
  <1>1. NamingInv => PasswordSurvives
    BY DEF NamingInv
  <1> QED
    BY <1>1, NamingInvariance, PTL
=============================================================================
