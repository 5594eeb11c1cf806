--------------------------- MODULE ConfirmedChange ---------------------------
(* What the page of an anime promises: it shows versions of the anime on the *)
(* route that were really stored, and Repeat or Restore changes a stored     *)
(* anime only while it is the version the user was shown on confirming.      *)
EXTENDS Naturals

CONSTANTS Animes, Nothing

VARIABLES
  stored,   \* [Animes -> Nat]: the version each anime is at
  route,    \* the anime of the page
  shown,    \* the version the page shows, or Nothing
  promised  \* confirmed changes the store has not decided: [anime, base, ...]

vars == <<stored, route, shown, promised>>

Init == stored \in [Animes -> {1}] /\ route \in Animes /\ shown = Nothing /\ promised = {}

\* A version that was stored; a page left and visited again may show an old one.
WasStored(a, v) == v = Nothing \/ v \in 1..stored[a]

Visit == \E a \in Animes : route' = a /\ WasStored(a, shown') /\ UNCHANGED <<stored, promised>>

Show == WasStored(route, shown') /\ UNCHANGED <<stored, route, promised>>

\* The change is confirmed against what is shown.
Confirm ==
  /\ shown # Nothing
  /\ \E p \in promised' \ promised : promised' = promised \cup {p} /\ p.anime = route /\ p.base = shown
  /\ UNCHANGED <<stored, route, shown>>

\* The store decides it: it may refuse, and must when the anime has moved on.
Decide ==
  /\ \E p \in promised :
       /\ promised' = promised \ {p}
       /\ \/ stored[p.anime] = p.base /\ stored' = [stored EXCEPT ![p.anime] = @ + 1]
          \/ UNCHANGED stored
  /\ UNCHANGED <<route, shown>>

\* Somebody else writes.
OtherWrite == \E a \in Animes : stored' = [stored EXCEPT ![a] = @ + 1] /\ UNCHANGED <<route, shown, promised>>

Next == Visit \/ Show \/ Confirm \/ Decide \/ OtherWrite

Spec == Init /\ [][Next]_vars

=============================================================================
