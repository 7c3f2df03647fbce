---------------------------- MODULE LavaTristate ----------------------------
(* The truth values domains answer a branch with.                          *)
EXTENDS Integers

Tristates == {"false", "true", "maybe"}

TriOf(b) == IF b THEN "true" ELSE "false"

TriNot(t) == CASE t = "false" -> "true" [] t = "true" -> "false" [] OTHER -> "maybe"

\* lower: what the program may go on with; a choice of two for maybe.
TriLower(t) == IF t = "maybe" THEN BOOLEAN ELSE {t = "true"}
=============================================================================
