--------------------------- MODULE HistoryTimeline ---------------------------
(* The History list: one log for every combination of filters, asked for     *)
(* once the anime catalogue has told which animes the filters name, grouped  *)
(* by local day.                                                             *)
EXTENDS KeysetPages

CONSTANTS
  Unmatched, \* the filters no anime of the catalogue matches
  Day(_)     \* the local day of a row

VARIABLE catalog \* "asked", "loaded" or "refused" (useHistoryAnimeScope)

vars == <<scope, pageVars, catalog>>

TypeOK == PageTypes /\ catalog \in {"asked", "loaded", "refused"}

Init == scope \in Scopes /\ PagesEmpty /\ loading = TRUE /\ catalog = "asked"

\* The effect that follows a change of the request: filters nothing matches are
\* answered without a call.
StartOver(s) ==
  /\ Forget
  /\ failed' = FALSE
  /\ loading' = (s \notin Unmatched)
  /\ IF s \in Unmatched THEN UNCHANGED <<inflight, fetching>> ELSE Ask(s, 0, generation')

CatalogLoads == catalog = "asked" /\ catalog' = "loaded" /\ StartOver(scope) /\ UNCHANGED scope

CatalogFails ==
  /\ catalog = "asked" /\ catalog' = "refused"
  /\ Forget
  /\ failed' = TRUE /\ loading' = FALSE
  /\ UNCHANGED <<scope, inflight, fetching>>

\* A filter is set, or Back restores one.
ChangeFilters(s) ==
  /\ s # scope /\ scope' = s
  /\ UNCHANGED catalog
  /\ IF catalog = "loaded" THEN StartOver(s)
     ELSE UNCHANGED pageVars

Scroll == catalog = "loaded" /\ FetchNextPage /\ UNCHANGED catalog

Answer ==
  \E r \in InFlight :
    /\ SupersededAnswer(r) \/ FailedAnswer(r) \/ PageAnswer(r)
    /\ UNCHANGED catalog

Next ==
  \/ CatalogLoads
  \/ CatalogFails
  \/ \E s \in Scopes : ChangeFilters(s)
  \/ Scroll
  \/ Answer

CatalogAnswers == CatalogLoads \/ CatalogFails

Fairness == WF_vars(Answer) /\ WF_vars(CatalogAnswers)
Spec == Init /\ [][Next]_vars /\ Fairness

\* The day buckets: consecutive rows of one day, the last one still partial.
StartsDay(i) == i = 1 \/ Day(rows[i]) # Day(rows[i - 1])
DayGroups == {g \in (1..Len(rows)) \X (1..Len(rows)) :
                /\ g[1] <= g[2] /\ StartsDay(g[1])
                /\ g[2] = Len(rows) \/ StartsDay(g[2] + 1)
                /\ \A k \in g[1] + 1 .. g[2] : ~StartsDay(k)}
\* Mutant: the only day of a list is taken for complete.
IsPartialOfMany(g) == g[2] = Len(rows) /\ g[1] > 1

IsPartial(g) == g[2] = Len(rows)

\* A day shown as complete counts every row of that day in the log, and no row of
\* another, for the filters on the screen (a page shown twice excepted).
DaysAreComplete ==
  ~overtaken =>
    \A g \in DayGroups :
      ~IsPartial(g) =>
        g[2] - g[1] + 1 = Cardinality({j \in 1..Len(Log[scope]) : Day(Log[scope][j]) = Day(rows[g[1]])})

=============================================================================
