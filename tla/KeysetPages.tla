----------------------------- MODULE KeysetPages -----------------------------
(* The paging protocol of the window's episode lists: pages of one log are   *)
(* asked for by a cursor and accumulated, answers arrive in any order, and a *)
(* generation tells which of them still count.  The lists that use it differ *)
(* in what starts a generation (WatchEpisodes, HistoryTimeline).             *)
EXTENDS Naturals, Sequences, FiniteSets

CONSTANTS
  Scopes,         \* what a list can be asked to show
  Log,            \* [Scopes -> Seq(rows)]: the rows the backend holds
  PageSize,
  MaxGenerations, \* bound: changes of what is shown
  MaxRequests     \* bound: requests in flight at once

VARIABLES
  scope,      \* what the list is showing
  generation, \* generationRef
  inflight,   \* how many of each request are not answered yet
  rows,       \* entries
  cursor,     \* nextCursorRef: rows the last page reached, or NoCursor
  fetching,   \* isFetchingRef
  hasMore,
  loading,
  failed,     \* the error state
  overtaken   \* history: a superseded answer released the guard of this generation

pageVars == <<generation, inflight, rows, cursor, fetching, hasMore, loading, failed, overtaken>>

\* A cursor that is not there; 0 asks for the first page.
NoCursor == 0

\* The rows a list shows are the newest of the log it shows, in their order and
\* each once, and the cursor stands after them.  The one exception: an answer
\* that came after its generation was superseded let a second request for the
\* same page out, and that page is then shown twice.
ShownIsPrefix ==
  /\ \A i \in 1..Len(rows) : \E j \in 1..Len(Log[scope]) : rows[i] = Log[scope][j]
  /\ ~overtaken => /\ Len(rows) <= Len(Log[scope]) /\ rows = SubSeq(Log[scope], 1, Len(rows))
                   /\ hasMore => cursor = Len(rows)

Requests == [generation : 0..MaxGenerations, scope : Scopes, after : Nat]
InFlight == DOMAIN inflight
Copies(r) == IF r \in InFlight THEN inflight[r] ELSE 0
OfThisGeneration == {r \in InFlight : r.generation = generation}

\* What the backend answers to a cursor, and the cursor that follows it.
Page(s, after) == SubSeq(Log[s], after + 1, IF after + PageSize > Len(Log[s]) THEN Len(Log[s]) ELSE after + PageSize)
CursorPast(s, after) == IF after + PageSize < Len(Log[s]) THEN after + PageSize ELSE NoCursor

PageTypes ==
  /\ scope \in Scopes
  /\ generation \in 0..MaxGenerations
  /\ \A r \in InFlight : r \in Requests /\ r.generation <= generation
  /\ \A i \in 1..Len(rows) : \E s \in Scopes : \E j \in 1..Len(Log[s]) : rows[i] = Log[s][j]
  /\ cursor \in Nat
  /\ {fetching, hasMore, loading, failed, overtaken} \subseteq BOOLEAN

PagesEmpty ==
  /\ generation = 0 /\ inflight = <<>> /\ rows = <<>> /\ cursor = NoCursor
  /\ fetching = FALSE /\ hasMore = FALSE /\ failed = FALSE /\ overtaken = FALSE

Ask(s, after, g) ==
  /\ Cardinality({p \in InFlight \X (1..MaxRequests) : p[2] <= Copies(p[1])}) < MaxRequests
  /\ LET r == [generation |-> g, scope |-> s, after |-> after]
     IN inflight' = [q \in InFlight \cup {r} |-> IF q = r THEN Copies(r) + 1 ELSE inflight[q]]
  /\ fetching' = TRUE

\* A new generation starts with nothing shown.
Forget ==
  /\ generation < MaxGenerations
  /\ generation' = generation + 1
  /\ rows' = <<>> /\ cursor' = NoCursor /\ hasMore' = FALSE /\ overtaken' = FALSE

\* The scroll reaches the end of the list.
FetchNextPage ==
  /\ ~fetching /\ hasMore /\ cursor # NoCursor
  /\ Ask(scope, cursor, generation)
  /\ UNCHANGED <<scope, generation, rows, cursor, hasMore, loading, failed, overtaken>>

Taken(r) ==
  /\ inflight' = [q \in InFlight \ (IF Copies(r) = 1 THEN {r} ELSE {}) |->
                    IF q = r THEN Copies(r) - 1 ELSE inflight[q]]
  /\ fetching' = FALSE

\* An answer of an older generation is dropped; it still lowers the guard that
\* the newer generation's request has raised.
SupersededAnswer(r) ==
  /\ r.generation # generation
  /\ Taken(r)
  /\ overtaken' = (overtaken \/ OfThisGeneration # {})
  /\ UNCHANGED <<scope, generation, rows, cursor, hasMore, loading, failed>>

FailedAnswer(r) ==
  /\ r.generation = generation
  /\ Taken(r)
  /\ hasMore' = FALSE /\ loading' = FALSE
  /\ failed' = (failed \/ r.after = 0)
  /\ UNCHANGED <<scope, generation, rows, cursor, overtaken>>

\* Mutant: an answer is shown without a look at its generation.
PageAnswerOfAny(r) ==
  /\ Taken(r)
  /\ rows' = (IF r.after = 0 THEN <<>> ELSE rows) \o Page(r.scope, r.after)
  /\ cursor' = CursorPast(r.scope, r.after)
  /\ hasMore' = (CursorPast(r.scope, r.after) # NoCursor)
  /\ loading' = FALSE /\ failed' = (failed /\ r.after # 0)
  /\ UNCHANGED <<scope, generation, overtaken>>

PageAnswer(r) ==
  /\ r.generation = generation
  /\ Taken(r)
  /\ rows' = (IF r.after = 0 THEN <<>> ELSE rows) \o Page(r.scope, r.after)
  /\ cursor' = CursorPast(r.scope, r.after)
  /\ hasMore' = (CursorPast(r.scope, r.after) # NoCursor)
  /\ loading' = FALSE
  /\ failed' = (failed /\ r.after # 0)
  /\ UNCHANGED <<scope, generation, overtaken>>

=============================================================================
