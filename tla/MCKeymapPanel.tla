----------------------------- MODULE MCKeymapPanel -----------------------------
(* The shortcuts panel alone, for a question of its own.                     *)
EXTENDS Naturals, Sequences, FiniteSets

CONSTANT None

VARIABLES
  stored, overrides, status, broken, calls, made, brought, tookBack, crossed, blank

\* Two global commands and one of a page; documents that rebind the first one, also to
\* the chord of the second.
Commands == {"g1", "g2", "s"}
Chords == 1..3
ShippedChord == [x \in Commands |-> CASE x = "g1" -> 1 [] x = "g2" -> 2 [] OTHER -> 3]
Scope == [x \in Commands |-> IF x = "s" THEN "feed" ELSE "global"]
Backups == {[x \in Commands |-> IF x = "g1" THEN y ELSE None] : y \in {None, 2, 3}}

INSTANCE KeymapPanel WITH ScopeOf <- Scope, Shipped <- ShippedChord, MaxCalls <- 3

=============================================================================
