---------------------------- MODULE MCActivityFeed ----------------------------
(* The activity feed alone, for a question of its own.                       *)
EXTENDS Naturals, Sequences, FiniteSets

CONSTANT None

VARIABLES
  lines, query, status, shown, cursor, requestId, loadingMore, due, calls, made,
  source, torn, taken, behind, inserted, regrouped, seams

\* Five places, two of one millisecond; three lines at first.
PlaceMs == <<1, 2, 3, 3, 4>>

INSTANCE ActivityFeed WITH
  PageSize <- 2, Seeded <- {1, 3, 4}, MaxRecords <- 5, MaxCalls <- 3, AtMs <- PlaceMs,
  Grouped <- {1, 5}

=============================================================================
