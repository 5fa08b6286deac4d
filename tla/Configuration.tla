--------------------------- MODULE Configuration ---------------------------
(***************************************************************************)
(* internal/config/config.go: a key takes its value from the highest layer *)
(* that sets it, and only then is the whole configuration validated.       *)
(* The keys kept are those another part of the system depends on, and the  *)
(* two whose rules look at each other.  A layer is a function on the keys  *)
(* it sets; an empty environment variable sets nothing.                    *)
(***************************************************************************)
EXTENDS Integers, TLC

CONSTANTS
  Malformed      \* a text that does not parse as the key's type

ASSUME MalformedAssumption == Malformed \notin Int

Keys == {"max_conns", "min_conns", "cleanup_interval"}

(* setDefaults; the flags repeat these values, the interval is in minutes. *)
Defaults == [max_conns |-> 25, min_conns |-> 2, cleanup_interval |-> 10]

(* Flags count only when given on the command line (viper's Changed). *)
Effective(in) == in.flags @@ in.env @@ in.file.sets @@ Defaults

(* --config names a file that must exist; config.yaml is looked for where  *)
(* there is no --config, and may be missing.  Neither may be broken.       *)
FileReadable(in) ==
  in.file.state = "absent" => ~in.file.named

Parses(c) == Malformed \notin {c[k] : k \in Keys}

(* The validate tags: required and min on max_conns, min and ltefield on   *)
(* min_conns, required and gt on the interval.                             *)
Validate(c) ==
  /\ c.max_conns >= 1
  /\ c.min_conns \in 0 .. c.max_conns
  /\ c.cleanup_interval > 0

(* Mutant: the file and the defaults are validated before the environment *)
(* and the flags are laid over them.                                       *)
LoadsValidatingFile(in) ==
  LET c == in.file.sets @@ Defaults
  IN FileReadable(in) /\ Parses(Effective(in)) /\ Parses(c) /\ Validate(c)

(* LoadWithViper returns a configuration, and not an error. *)
Loads(in) ==
  /\ FileReadable(in) /\ in.file.state # "broken"
  /\ Parses(Effective(in))
  /\ Validate(Effective(in))
=============================================================================
