------------------------------ MODULE MCNaming ------------------------------
(* Naming on every short text over the characters a rule looks at. *)
EXTENDS Naming

TextsOver(chars, n) == UNION {[1 .. k -> chars] : k \in 0 .. n}

(* Hyphens and digits at every place of names longer than a handle may be, *)
(* and shorter names with every kind of character.                         *)
ShortTexts ==
  TextsOver({"a", "1", "-"}, 8)
    \cup TextsOver(Chars \ (ToSet(Digit) \ {"1"}), 4)
=============================================================================
