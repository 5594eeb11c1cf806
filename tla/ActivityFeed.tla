---------------------------- MODULE ActivityFeed ----------------------------
(* The activity feed: a first page per query, older pages through a cursor,  *)
(* and a live refresh that merges a fresh first page over the loaded lines.  *)
EXTENDS Naturals, Sequences, FiniteSets, Functions, Subsequences

CONSTANTS
  None,     \* no query: no type is selected
  PageSize,
  Seeded, MaxRecords, MaxCalls, \* bounds: the lines at first, their places, reads
  AtMs,     \* the millisecond of each place, shared by neighbours
  Grouped   \* the places of lines of System groups

VARIABLES
  lines,     \* the places the backend lists a line at, a higher one being newer
  query, status,
  shown,     \* the lines of days, newest first
  cursor,    \* the line older pages start below, or 0
  requestId, loadingMore,
  due,       \* the recorder reported activity, the debounce is running
  calls, made,
  source,    \* history: the queries the lines on screen were read for
  torn,      \* history: pages that do not meet were put together
  taken,     \* history: the latest read whose answer was shown
  behind,    \* history: a later read was overtaken, or a refresh failed
  inserted,  \* history: lines added below one that a page had passed
  regrouped, \* history: places a System group moved on from
  seams      \* history: the last lines of the pages merged over older ones

reads == <<calls, made>>
feed == <<status, shown, cursor, loadingMore>>
history == <<source, torn, taken, behind, seams>>
added == <<inserted, regrouped>>
vars == <<lines, added, query, feed, requestId, due, reads, history>>

\* A query of every type, and one of System lines only.
Queries == {"all", "system"}
OfQuery(q, r) == q = "all" \/ r \in Grouped
Matching(q) == {r \in lines : OfQuery(q, r)}

TypeOK ==
  /\ lines \cup inserted \cup regrouped \cup seams \subseteq 1..MaxRecords /\ query \in Queries \cup {None}
  /\ status \in {"loading", "ready", "failed"} /\ {loadingMore, due, torn, behind} \subseteq BOOLEAN
  /\ Range(shown) \subseteq lines \cup regrouped /\ cursor \in 0..MaxRecords
  /\ \A c \in calls : c.kind \in {"first", "older", "live"} /\ c.requestId <= requestId

Call(kind, cur) ==
  [kind |-> kind, ticket |-> made', requestId |-> requestId', query |-> query', cursor |-> cur,
   served |-> FALSE, ok |-> FALSE, lines |-> <<>>, next |-> 0]

Ask(remaining, kind, cur) == made' = made + 1 /\ calls' = remaining \cup {Call(kind, cur)}

Init ==
  /\ lines = Seeded /\ query = "all" /\ status = "loading"
  /\ shown = <<>> /\ cursor = 0 /\ requestId = 1 /\ loadingMore = FALSE /\ due = FALSE
  /\ made = 1
  /\ calls = {[kind |-> "first", ticket |-> 1, requestId |-> 1, query |-> query, cursor |-> 0,
               served |-> FALSE, ok |-> FALSE, lines |-> <<>>, next |-> 0]}
  /\ source = {} /\ torn = FALSE /\ taken = 0 /\ behind = FALSE
  /\ inserted = {} /\ regrouped = {} /\ seams = {}

\* A new query, or a retry: the lines stay until the answer.
LoadFirstPage(q) ==
  /\ q # query \/ status = "failed"
  /\ query' = q /\ requestId' = requestId + 1 /\ loadingMore' = FALSE
  /\ IF q = None
     THEN /\ shown' = <<>> /\ cursor' = 0 /\ status' = "ready" /\ source' = {} /\ torn' = FALSE /\ behind' = FALSE
          /\ seams' = {} /\ UNCHANGED <<reads, taken>>
     ELSE /\ made < MaxCalls /\ status' = "loading" /\ Ask(calls, "first", 0)
          /\ UNCHANGED <<shown, cursor, history>>
  /\ UNCHANGED <<lines, added, due>>

LoadOlderPage ==
  /\ cursor # 0 /\ ~loadingMore /\ query # None /\ made < MaxCalls
  /\ loadingMore' = TRUE /\ UNCHANGED <<lines, added, query, status, shown, cursor, requestId, due, history>>
  /\ Ask(calls, "older", cursor)

\* Lines that a page on screen or on its way has passed: a line at p is below one.
Passed(p) ==
  \/ \E x \in Range(shown) : p < x
  \/ \E c \in calls : p < c.cursor \/ \E x \in Range(c.lines) : p < x

\* A line of its own; an hour's is dated at the hour's start.
OwnLine(p) == lines' = lines \cup {p} /\ UNCHANGED regrouped

\* An event moves its System group to its own place.
GroupMoves(p) ==
  \E g \in lines : /\ g < p /\ {g, p} \subseteq Grouped
                  /\ lines' = (lines \ {g}) \cup {p} /\ regrouped' = regrouped \cup {g}

\* Something is recorded, and the feed hears of it; it may only count in a line there is.
Record ==
  /\ due' = TRUE
  /\ \/ UNCHANGED <<lines, added>>
     \/ \E p \in 1..MaxRecords \ (lines \cup regrouped) :
          /\ inserted' = IF Passed(p) THEN inserted \cup {p} ELSE inserted
          /\ OwnLine(p) \/ GroupMoves(p)
  /\ UNCHANGED <<query, feed, requestId, reads, history>>

\* Mutant: activity reported while older lines load is let go.
RefreshLiveWhenIdle ==
  /\ due /\ due' = FALSE
  /\ UNCHANGED <<lines, added, query, feed, requestId, history>>
  /\ IF query = None \/ loadingMore THEN UNCHANGED reads ELSE made < MaxCalls /\ Ask(calls, "live", 0)

RefreshLive ==
  /\ due /\ due' = FALSE
  /\ UNCHANGED <<lines, added, query, feed, requestId, history>>
  /\ IF query = None THEN UNCHANGED reads ELSE made < MaxCalls /\ Ask(calls, "live", 0)

Serve(c, ok) ==
  /\ ~c.served
  /\ LET rest == {r \in Matching(c.query) : c.cursor # 0 => r < c.cursor}
         page == Newest(rest, PageSize) IN
       calls' = (calls \ {c}) \cup {[c EXCEPT !.served = TRUE, !.ok = ok,
         !.lines = IF ok THEN page ELSE <<>>,
         !.next = IF ok /\ Cardinality(rest) > PageSize THEN page[PageSize] ELSE 0]}
  /\ UNCHANGED <<lines, added, query, feed, requestId, due, made, history>>

-----------------------------------------------------------------------------
(* The answers                                                             *)

Merge(upper, lower) == upper \o Without(lower, Range(upper))
IsLatest(c) == c.requestId = requestId

Took(c) ==
  /\ taken' = IF c.ticket > taken THEN c.ticket ELSE taken
  /\ behind' = IF c.ok THEN c.ticket < taken ELSE behind \/ c.ticket > taken

FirstPageShown(c) ==
  /\ c.kind = "first" /\ c.served /\ calls' = calls \ {c}
  /\ UNCHANGED <<lines, added, query, requestId, loadingMore, due, made>>
  /\ CASE ~IsLatest(c) -> UNCHANGED <<status, shown, cursor, history>>
       [] IsLatest(c) /\ ~c.ok -> status' = "failed" /\ UNCHANGED <<shown, cursor, history>>
       [] OTHER -> /\ status' = "ready" /\ shown' = c.lines /\ cursor' = c.next
                   /\ source' = {c.query} /\ torn' = FALSE /\ seams' = {} /\ Took(c)

OlderPageShown(c) ==
  /\ c.kind = "older" /\ c.served /\ calls' = calls \ {c}
  /\ UNCHANGED <<lines, added, query, status, requestId, due, made, taken, behind, seams>>
  /\ IF ~IsLatest(c) THEN UNCHANGED <<shown, cursor, loadingMore, source, torn>>
     ELSE /\ loadingMore' = FALSE
          /\ IF ~c.ok THEN UNCHANGED <<shown, cursor, source, torn>>
             ELSE /\ shown' = Merge(shown, c.lines) /\ cursor' = c.next
                  /\ source' = source \cup {c.query} /\ torn' = (torn \/ c.cursor # cursor)

\* The fresh page replaces the lines it covers; those of an earlier millisecond than
\* its last line's stay below it with the cursor they had.
LivePageShown(c) ==
  /\ c.kind = "live" /\ c.served /\ calls' = calls \ {c}
  /\ UNCHANGED <<lines, added, query, requestId, loadingMore, due, made>>
  /\ CASE ~IsLatest(c) -> UNCHANGED <<status, shown, cursor, history>>
       [] IsLatest(c) /\ ~c.ok -> Took(c) /\ UNCHANGED <<status, shown, cursor, source, torn, seams>>
       [] OTHER ->
            LET older == IF c.next = 0 THEN <<>> ELSE Without(shown, {r \in Range(shown) : AtMs[r] >= AtMs[c.next]}) IN
              /\ status' = "ready" /\ Took(c)
              /\ shown' = Merge(c.lines, older)
              /\ cursor' = IF older = <<>> THEN c.next ELSE cursor
              /\ source' = IF older = <<>> THEN {c.query} ELSE source \cup {c.query}
              /\ seams' = IF older = <<>> THEN {} ELSE seams \cup {c.next}
              /\ torn' = (older # <<>> /\ (torn \/ Range(shown) \cap Range(c.lines) = {}))

Answer == \E c \in calls :
  \/ \E ok \in BOOLEAN : Serve(c, ok)
  \/ FirstPageShown(c) \/ OlderPageShown(c) \/ LivePageShown(c)

Next ==
  \/ \E q \in Queries \cup {None} : LoadFirstPage(q)
  \/ LoadOlderPage \/ Record \/ RefreshLive \/ Answer

Fairness == WF_vars(Answer) /\ WF_vars(RefreshLive)
Spec == Init /\ [][Next]_vars /\ Fairness

-----------------------------------------------------------------------------
\* A line of the query that the page read last, or those loaded below it, have passed.
Covered(r) ==
  r \in Matching(query) /\ shown # <<>> /\ r < shown[1] /\ (cursor = 0 \/ r > shown[Len(shown)])
Cut(r) == \E s \in seams : r < s /\ AtMs[r] = AtMs[s]

\* The feed on screen is in order, none twice, of the query's lines and of places their
\* groups moved on from.  None is missing in between but those recorded late and those
\* of the millisecond a merged page ended in; bursts longer than a page, and lines of
\* another query whose replacement had not come, are apart.
ShownIsPrefix ==
  status = "ready" /\ ~torn /\ source \subseteq {query} =>
    /\ Range(shown) \subseteq Matching(query) \cup regrouped
    /\ \A i, j \in DOMAIN shown : i < j => shown[i] > shown[j]
    /\ \A r \in lines : Covered(r) => r \in Range(shown) \cup inserted \/ Cut(r)

\* A line that was there when its neighbours were read is on screen between them,
\* also when it shares its millisecond with one of them.
NoLineIsSkipped ==
  status = "ready" /\ ~torn /\ source \subseteq {query} =>
    \A r \in lines : Covered(r) => r \in Range(shown) \cup inserted

\* Once the recorder is quiet and its refreshes came in order, the feed begins with
\* the page of the newest lines, and is empty when there are none.
FeedSettles ==
  status = "ready" /\ query # None /\ calls = {} /\ ~due /\ ~behind =>
    LET n == Newest(Matching(query), PageSize) IN
      /\ Len(n) <= Len(shown) /\ SubSeq(shown, 1, Len(n)) = n
      /\ n = <<>> => shown = <<>>

=============================================================================
