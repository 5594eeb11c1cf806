--------------------------- MODULE NotificationList --------------------------
(* The master list of the notification centre: keyset pages over the record  *)
(* store, the live refresh a push asks for, the archive events, and the bulk *)
(* actions of the selection bar.  A binding call is asked for, served by the *)
(* store some time later and answered some time after that.                  *)
EXTENDS Naturals, Sequences, FiniteSets, Functions, Subsequences

CONSTANTS
  Seeded,   \* records stored when the panel opens
  PageSize,
  MaxRecords, MaxCalls \* bounds: records ever stored, binding calls made

VARIABLES
  archived,  \* the store: archived[id] for every record ever written
  changes,   \* the store's commits so far
  events,    \* pushes and archive events not delivered yet, in order
  calls,     \* binding calls in flight
  made,      \* calls made so far
  view,      \* "active" or "archived"
  rows, cursor, more, fetching, loading,
  seen,      \* history: the latest commit anything on the screen knows of
  crossed,   \* history: an answer older than what the screen knew was applied
  overlapped,\* history: the first page was asked for while another fetch was in
             \* flight, or a refreshed page reached past the cursor
  misplaced, \* history: an answer about the other view was applied
  gapped     \* history: a refreshed page did not reach down to the rows it was put on

store == <<archived, changes>>
list == <<rows, cursor, more, fetching, loading>>
history == <<seen, crossed, overlapped, misplaced, gapped>>
vars == <<store, events, calls, made, view, list, history>>

Views == {"active", "archived"}
Pages == {"replace", "append", "refresh"}
Ids == 1..Len(archived)

\* The records of a view that are older than a cursor, 0 for all of them.
Matching(v, before) == {i \in Ids : archived[i] = (v = "archived") /\ (before = 0 \/ i < before)}

TypeOK ==
  /\ archived \in UNION {[1..n -> BOOLEAN] : n \in Seeded..MaxRecords}
  /\ view \in Views
  /\ \A i \in 1..Len(rows) : rows[i] \in Ids
  /\ cursor \in 0..Len(archived)
  /\ \A c \in calls : c.kind \in Pages \cup {"archive", "restore"} /\ c.view \in Views /\ c.ticket \in 1..made
  /\ {more, fetching, loading, crossed, overlapped, misplaced, gapped} \subseteq BOOLEAN
  /\ seen \in 0..changes

Call(kind, v, before, ids) ==
  [ticket |-> made + 1, kind |-> kind, view |-> v, before |-> before, ids |-> ids,
   served |-> FALSE, page |-> <<>>, next |-> 0, at |-> 0]

Init ==
  /\ archived = [i \in 1..Seeded |-> FALSE] /\ changes = 0 /\ events = <<>>
  /\ view = "active" /\ rows = <<>> /\ cursor = 0 /\ more = FALSE
  /\ made = 1 /\ fetching = TRUE /\ loading = TRUE
  /\ calls = {[ticket |-> 1, kind |-> "replace", view |-> "active", before |-> 0, ids |-> {},
               served |-> FALSE, page |-> <<>>, next |-> 0, at |-> 0]}
  /\ seen = 0 /\ crossed = FALSE /\ overlapped = FALSE /\ misplaced = FALSE /\ gapped = FALSE

\* fetchPage: the guard is raised and the skeleton shown.
Fetch(remaining, kind, v, before) ==
  /\ made < MaxCalls /\ made' = made + 1
  /\ calls' = remaining \cup {Call(kind, v, before, {})}
  /\ fetching' = TRUE /\ loading' = TRUE
  /\ overlapped' = (overlapped \/ (kind = "replace" /\ \E c \in remaining : c.kind \in {"replace", "append"}))

\* A record is written: stored and announced in one go.
Record ==
  /\ Len(archived) < MaxRecords
  /\ archived' = Append(archived, FALSE) /\ changes' = changes + 1
  /\ events' = Append(events, [kind |-> "push", ids |-> {}, at |-> changes + 1])
  /\ UNCHANGED <<calls, made, view, list, history>>

\* The detail pane archives a record on the list: the panel learns it by the event.
ArchiveFromPane(id) ==
  /\ ~archived[id]
  /\ archived' = [archived EXCEPT ![id] = TRUE] /\ changes' = changes + 1
  /\ events' = Append(events, [kind |-> "archived", ids |-> {id}, at |-> changes + 1])
  /\ UNCHANGED <<calls, made, view, list, history>>

ServePage(c) ==
  LET all == Matching(c.view, c.before)
      page == Newest(all, PageSize)
  IN /\ c.kind \in Pages /\ ~c.served
     /\ calls' = (calls \ {c}) \cup {[c EXCEPT !.served = TRUE, !.page = page, !.at = changes,
                                      !.next = IF Cardinality(all) > PageSize THEN page[PageSize] ELSE 0]}
     /\ UNCHANGED <<store, events, made, view, list, history>>

ServeMutation(c) ==
  /\ c.kind \in {"archive", "restore"} /\ ~c.served
  /\ archived' = [i \in Ids |-> IF i \in c.ids THEN c.kind = "archive" ELSE archived[i]]
  /\ changes' = changes + 1
  /\ events' = IF c.kind = "archive"
               THEN Append(events, [kind |-> "archived", ids |-> c.ids, at |-> changes + 1]) ELSE events
  /\ calls' = (calls \ {c}) \cup {[c EXCEPT !.served = TRUE, !.at = changes + 1]}
  /\ UNCHANGED <<made, view, list, history>>

\* What the screen learns from an answer or an event.
Learn(at, v) ==
  /\ seen' = IF at > seen THEN at ELSE seen
  /\ crossed' = (crossed \/ at < seen)
  /\ misplaced' = (misplaced \/ v # view)

\* A fetched page replaces the rows or follows them, whatever the filters are by
\* now, and lowers the guard.
FetchedPage(c) ==
  /\ c.kind \in {"replace", "append"} /\ c.served
  /\ calls' = calls \ {c}
  /\ rows' = (IF c.kind = "replace" THEN <<>> ELSE rows) \o c.page
  /\ cursor' = c.next /\ more' = (c.next # 0)
  /\ fetching' = FALSE /\ loading' = FALSE
  /\ Learn(c.at, c.view)
  /\ gapped' = (gapped /\ c.kind # "replace")
  /\ UNCHANGED <<store, events, made, view, overlapped>>

\* Mutant: the fresh page is put before the rows it repeats.
RefreshedPageOnTop(c) ==
  /\ c.kind = "refresh" /\ c.served
  /\ calls' = calls \ {c}
  /\ rows' = c.page \o rows
  /\ Learn(c.at, c.view)
  /\ overlapped' = (overlapped \/ (more /\ \E id \in Range(c.page) : id < cursor)
                               \/ \E d \in calls : d.kind \in {"replace", "append"})
  /\ gapped' = (gapped \/ \E id \in Matching(c.view, c.next) :
                             c.next # 0 /\ id >= cursor /\ \A k \in 1..Len(rows) : id > rows[k])
  /\ UNCHANGED <<store, events, made, view, cursor, more, fetching, loading>>

\* refreshTopPage: the newest page is laid over the rows; the cursor stays.
RefreshedPage(c) ==
  /\ c.kind = "refresh" /\ c.served
  /\ calls' = calls \ {c}
  /\ rows' = c.page \o Without(rows, Range(c.page))
  /\ Learn(c.at, c.view)
  /\ overlapped' = (overlapped \/ (more /\ \E id \in Range(c.page) : id < cursor)
                               \/ \E d \in calls : d.kind \in {"replace", "append"})
  /\ gapped' = (gapped \/ \E id \in Matching(c.view, c.next) :
                             c.next # 0 /\ id >= cursor /\ \A k \in 1..Len(rows) : id > rows[k])
  /\ UNCHANGED <<store, events, made, view, cursor, more, fetching, loading>>

\* Mutant: every event is answered by a refresh.
EventRefreshes ==
  /\ events # <<>> /\ events' = Tail(events)
  /\ made < MaxCalls /\ made' = made + 1
  /\ calls' = calls \cup {Call("refresh", view, 0, {})}
  /\ UNCHANGED <<rows, seen, crossed, misplaced, store, view, cursor, more, fetching, loading, overlapped, gapped>>

\* An event reaches the panel.  A push, and an archive seen from the archive, are
\* answered by a refresh; an archive seen from the inbox drops its rows.
EventArrives ==
  /\ events # <<>> /\ events' = Tail(events)
  /\ LET e == Head(events)
     IN IF e.kind = "archived" /\ view = "active"
        THEN /\ rows' = Without(rows, e.ids)
             /\ Learn(e.at, view)
             /\ UNCHANGED <<calls, made>>
        ELSE /\ made < MaxCalls /\ made' = made + 1
             /\ calls' = calls \cup {Call("refresh", view, 0, {})}
             /\ UNCHANGED <<rows, seen, crossed, misplaced>>
  /\ UNCHANGED <<store, view, cursor, more, fetching, loading, overlapped, gapped>>

LoadMore ==
  /\ ~fetching /\ more
  /\ Fetch(calls, "append", view, cursor)
  /\ UNCHANGED <<store, events, view, rows, cursor, more, seen, crossed, misplaced, gapped>>

SwitchView(v) ==
  /\ v # view /\ view' = v
  /\ Fetch(calls, "replace", v, 0)
  /\ UNCHANGED <<store, events, rows, cursor, more, seen, crossed, misplaced, gapped>>

\* The bulk action of the view, on selected rows: one of them or all that are loaded.
Bulk(ids) ==
  /\ made < MaxCalls /\ made' = made + 1
  /\ calls' = calls \cup {Call(IF view = "active" THEN "archive" ELSE "restore", view, 0, ids)}
  /\ UNCHANGED <<store, events, view, list, history>>

\* Its answer fetches the first page of the view it was
\* pressed in: refetch is the one of that render.
BulkDone(c) ==
  /\ c.kind \in {"archive", "restore"} /\ c.served
  /\ Fetch(calls \ {c}, "replace", c.view, 0)
  /\ UNCHANGED <<store, events, view, rows, cursor, more, seen, crossed, misplaced, gapped>>

Next ==
  \/ Record \/ LoadMore \/ EventArrives
  \/ \E id \in Range(rows) : ArchiveFromPane(id)
  \/ \E v \in Views : SwitchView(v)
  \/ \E ids \in {{id} : id \in Range(rows)} \cup ({Range(rows)} \ {{}}) : Bulk(ids)
  \/ \E c \in calls : ServePage(c) \/ ServeMutation(c) \/ FetchedPage(c) \/ RefreshedPage(c) \/ BulkDone(c)

\* Calls are served and pages answered.
Answer == \E c \in calls : ServePage(c) \/ ServeMutation(c) \/ FetchedPage(c) \/ RefreshedPage(c)

Fairness == WF_vars(Answer)
Spec == Init /\ [][Next]_vars /\ Fairness

Quiet == calls = {} /\ events = <<>>

\* A record is never on the list twice, unless two fetches overlapped or a
\* refreshed page reached past the cursor.
RowsOnce == ~overlapped => IsInjective(rows)

\* When everything asked and announced has arrived, the inbox holds exactly the
\* records not older than its cursor and not archived, newest first, unless more
\* came at once than a page has, and the archive only archived records, its newest
\* page among them; but for an answer out of order or for the other view.
ListSettles ==
  Quiet /\ ~crossed /\ ~overlapped /\ ~misplaced =>
    IF view = "active"
    THEN gapped \/ LET owed == {id \in Matching(view, 0) : id >= cursor}
                   IN  rows = Newest(owed, Cardinality(owed))
    ELSE Range(Newest(Matching(view, 0), PageSize)) \subseteq Range(rows)
         /\ Range(rows) \subseteq Matching(view, 0)

=============================================================================
