---------------------------- MODULE MCAnimeSave ----------------------------
(* Small instances of AnimeSave for TLC. *)
EXTENDS AnimeSave, TLC

\* Animes and names are interchangeable.
Symmetry == Permutations(Names) \cup Permutations(Animes)

Written == {v \in versions : v.snapshot # NoSnapshot}

\* Two slices of one instance: every change of one anime with one name, and the
\* renames and batches of all animes while none is watched or moved.
Slices ==
  \/ /\ Cardinality({v.anime : v \in Written}) <= 1
     /\ Cardinality({v.snapshot.name : v \in Written}) <= 1
  \/ \A v \in Written : v.snapshot.episodesWatched = 0 /\ v.snapshot.days = VerHoy

=============================================================================
