--------------------------- MODULE NotificationPane --------------------------
(* The record open beside the master list, its archive and mark-unread       *)
(* buttons, the unread dots of the rows and the badge of the rail: four      *)
(* views of one read state, moved by pushes and by mutation answers that     *)
(* carry the count of the moment they were served.                           *)
EXTENDS Naturals, Sequences, FiniteSets

CONSTANTS
  None,
  Seeded,               \* records stored when the window opens
  MaxRecords, MaxCalls  \* bounds: records ever stored, binding calls made

VARIABLES
  read,      \* the store: read[id]
  gone,      \* the store: archived ids
  changes,   \* commits so far
  pushes,    \* pushes not delivered yet, by commit
  calls, made,
  badge,     \* unreadCount of the notification store
  dots,      \* the rows shown as unread
  opened,    \* openedIdRef
  shown,     \* openRecord
  settled,   \* settledId: the record whose archive button is down
  archiving, \* isArchiveInFlightRef
  unmarking, \* isMarkUnreadInFlightRef
  seen, crossed, \* history: the latest commit known; something applied after a later commit,
                 \* or a push of a record the badge had counted already
  counted,   \* history: the latest commit a count applied to the badge was of
  uncounted  \* history: the latest archive of the pane that read an unread record

store == <<read, gone, changes>>
pane == <<opened, shown, settled, archiving, unmarking>>
vars == <<store, pushes, calls, made, badge, dots, pane, seen, crossed, counted, uncounted>>

Ids == 1..Len(read)
UnreadCount(r) == Cardinality({i \in 1..Len(r) : ~r[i]})
Mutations == {"markRead", "markUnread", "archive"}

TypeOK ==
  /\ Len(read) \in Seeded..MaxRecords /\ gone \subseteq Ids
  /\ badge \in 0..2 * MaxRecords /\ dots \subseteq Ids
  /\ {opened, shown, settled} \subseteq Ids \cup {None}
  /\ {archiving, unmarking, crossed} \subseteq BOOLEAN
  /\ \A c \in calls : c.kind \in Mutations \cup {"count", "get"} /\ c.ticket \in 1..made
  /\ {seen, counted, uncounted} \subseteq 0..changes

\* The read of a record carries no count: when it is served does not matter.
Call(n, kind, id) ==
  [ticket |-> n, kind |-> kind, id |-> id, served |-> kind = "get", degraded |-> FALSE, count |-> 0, at |-> 0]

Init ==
  /\ read = [i \in 1..Seeded |-> FALSE] /\ gone = {} /\ changes = 0 /\ pushes = <<>>
  /\ calls = {Call(1, "count", None)} /\ made = 1
  /\ badge = 0 /\ dots = 1..Seeded
  /\ opened = None /\ shown = None /\ settled = None /\ archiving = FALSE /\ unmarking = FALSE
  /\ seen = 0 /\ crossed = FALSE /\ counted = 0 /\ uncounted = 0

Ask(kinds, id) ==
  /\ made + Len(kinds) <= MaxCalls /\ made' = made + Len(kinds)
  /\ calls' = calls \cup {Call(made + i, kinds[i], id) : i \in 1..Len(kinds)}

Learn(at) ==
  /\ seen' = IF at > seen THEN at ELSE seen
  /\ crossed' = (crossed \/ at < seen)

Record ==
  /\ Len(read) < MaxRecords
  /\ read' = Append(read, FALSE) /\ changes' = changes + 1
  /\ pushes' = Append(pushes, changes')
  /\ dots' = dots \cup {Len(read')}
  /\ UNCHANGED <<gone, calls, made, badge, pane, seen, crossed, counted, uncounted>>

\* A push adds one to the badge, whatever the badge has counted by then.
PushArrives ==
  /\ pushes # <<>> /\ pushes' = Tail(pushes)
  /\ badge' = badge + 1
  /\ seen' = IF Head(pushes) > seen THEN Head(pushes) ELSE seen
  /\ crossed' = (crossed \/ Head(pushes) < seen \/ Head(pushes) <= counted)
  /\ UNCHANGED <<store, calls, made, dots, pane, counted, uncounted>>

\* The store serves a mutation, and counts.
ServeMutation(c, ok) ==
  /\ c.kind \in Mutations /\ ~c.served
  /\ changes' = IF ok THEN changes + 1 ELSE changes
  /\ read' = IF ok THEN [read EXCEPT ![c.id] = c.kind # "markUnread"] ELSE read
  /\ gone' = IF ok /\ c.kind = "archive" THEN gone \cup {c.id} ELSE gone
  /\ uncounted' = IF ok /\ c.kind = "archive" /\ ~read[c.id] THEN changes' ELSE uncounted
  /\ calls' = (calls \ {c}) \cup {[c EXCEPT !.served = TRUE, !.degraded = ~ok, !.at = changes', !.count = UnreadCount(read')]}
  /\ UNCHANGED <<pushes, made, badge, dots, pane, seen, crossed, counted>>

ServeCount(c) ==
  /\ c.kind = "count" /\ ~c.served
  /\ calls' = (calls \ {c}) \cup {[c EXCEPT !.served = TRUE, !.at = changes, !.count = UnreadCount(read)]}
  /\ UNCHANGED <<store, pushes, made, badge, dots, pane, seen, crossed, counted, uncounted>>

\* The count an answer carries is taken as it is; a degraded answer is ignored.
TakeCount(c) ==
  IF c.degraded THEN UNCHANGED <<badge, seen, crossed, counted>>
  ELSE /\ badge' = c.count
       /\ counted' = IF c.at > counted THEN c.at ELSE counted
       /\ Learn(c.at)

BadgeSeeded(c) ==
  /\ c.kind = "count" /\ c.served /\ calls' = calls \ {c}
  /\ TakeCount(c)
  /\ UNCHANGED <<store, pushes, made, dots, pane, uncounted>>

\* A row is pressed: its record is read and marked read at once.
OpenRecord(id) ==
  /\ opened' = id
  /\ Ask(<<"get", "markRead">>, id)
  /\ UNCHANGED <<store, pushes, badge, dots, shown, settled, archiving, unmarking, seen, crossed, counted, uncounted>>

\* Mutant: the record answered last is shown.
RecordReadLast(c) ==
  /\ c.kind = "get" /\ c.served /\ calls' = calls \ {c}
  /\ shown' = c.id
  /\ UNCHANGED <<store, pushes, made, badge, dots, opened, settled, archiving, unmarking, seen, crossed, counted, uncounted>>

\* Only the record pressed last is shown.
RecordRead(c) ==
  /\ c.kind = "get" /\ c.served /\ calls' = calls \ {c}
  /\ shown' = IF opened = c.id THEN c.id ELSE shown
  /\ UNCHANGED <<store, pushes, made, badge, dots, opened, settled, archiving, unmarking, seen, crossed, counted, uncounted>>

\* Mutant: the answer clears the dot and leaves the badge.
MarkedReadDotOnly(c) ==
  /\ c.kind = "markRead" /\ c.served /\ calls' = calls \ {c}
  /\ dots' = IF c.degraded THEN dots ELSE dots \ {c.id}
  /\ UNCHANGED <<store, pushes, made, badge, pane, seen, crossed, counted, uncounted>>

MarkedRead(c) ==
  /\ c.kind = "markRead" /\ c.served /\ calls' = calls \ {c}
  /\ TakeCount(c)
  /\ dots' = IF c.degraded THEN dots ELSE dots \ {c.id}
  /\ UNCHANGED <<store, pushes, made, pane, uncounted>>

MarkUnread ==
  /\ shown # None /\ ~unmarking
  /\ unmarking' = TRUE
  /\ Ask(<<"markUnread">>, shown)
  /\ UNCHANGED <<store, pushes, badge, dots, opened, shown, settled, archiving, seen, crossed, counted, uncounted>>

MarkedUnread(c) ==
  /\ c.kind = "markUnread" /\ c.served /\ calls' = calls \ {c}
  /\ unmarking' = FALSE
  /\ TakeCount(c)
  /\ dots' = IF c.degraded THEN dots ELSE dots \cup {c.id}
  /\ UNCHANGED <<store, pushes, made, opened, shown, settled, archiving, uncounted>>

\* The pane's archive button: down for the record it was pressed on.
Archive ==
  /\ shown # None /\ settled # shown /\ ~archiving
  /\ archiving' = TRUE /\ settled' = shown
  /\ Ask(<<"archive">>, shown)
  /\ UNCHANGED <<store, pushes, badge, dots, opened, shown, unmarking, seen, crossed, counted, uncounted>>

\* Its answer moves the button and nothing else: the count it carries is not taken.
Archived(c) ==
  /\ c.kind = "archive" /\ c.served /\ calls' = calls \ {c}
  /\ archiving' = FALSE
  /\ settled' = IF c.degraded THEN None ELSE c.id
  /\ UNCHANGED <<store, pushes, made, badge, dots, opened, shown, unmarking, seen, crossed, counted, uncounted>>

Next ==
  \/ Record \/ PushArrives \/ MarkUnread \/ Archive
  \/ \E id \in Ids \ gone : OpenRecord(id)
  \/ \E c \in calls, ok \in BOOLEAN : ServeMutation(c, ok)
  \/ \E c \in calls : ServeCount(c) \/ BadgeSeeded(c) \/ RecordRead(c) \/ MarkedRead(c) \/ MarkedUnread(c) \/ Archived(c)

Spec == Init /\ [][Next]_vars

Quiet == calls = {} /\ pushes = <<>>

\* When every answer and push has arrived, the badge is the number of unread
\* records, unless answers and pushes crossed, or the last count is older than an
\* archive of the pane that read an unread record.
BadgeIsTheCount == Quiet /\ ~crossed /\ uncounted <= counted => badge = UnreadCount(read)

\* When every answer has arrived, the pane shows the record pressed last and the
\* rows carry the dots of the store, unless answers crossed.
PaneSettles ==
  Quiet => /\ shown = opened
           /\ ~archiving /\ ~unmarking
           /\ ~crossed => dots \ gone = {i \in Ids \ gone : ~read[i]}

=============================================================================
