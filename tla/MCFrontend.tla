------------------------------ MODULE MCFrontend ------------------------------
(* Small instances of the window's screens for TLC.  A behaviour is that of  *)
(* one screen, chosen at the start; variables of two screens with one name   *)
(* are one variable here, and those of the screens not chosen are Off.       *)
EXTENDS Naturals, Sequences, FiniteSets

CONSTANTS Animes, Fields, Episodes, Pasts, Rows, Grades, None, Off

VARIABLES
  screen,
  scope, generation, inflight, rows, cursor, fetching, hasMore, loading, failed, overtaken,
  expanded,
  catalog,
  selected, snapshot, recents, cover, asked, visits,
  archived, changes, events, calls, made, view, more, seen, crossed, overlapped, misplaced, gapped,
  read, gone, pushes, badge, dots, opened, shown, settled, archiving, unmarking, counted,
  uncounted,
  stored, route, mutation, outcome,
  grade, matched, matching, queue, season, ensured, viewing, busy, run, panel,
  record, draft, retains, saving, sequence, pending, typed, late, warned, strayed, droppedBy,
  overwrote,
  placed, active, modified, board, order, applying, command, result,
  anime, edits, load, running, review, analysis, cancelled, abandoned, lost,
  lines, query, status, requestId, loadingMore, due, source, torn, taken, behind,
  inserted, regrouped, seams,
  schedule, row, state, hasEdits, armed, visit, wanted, applied, moved, spoiled,
  runs, current, queued, steps, notices, runHistory, loaded, unheard, problemsOnly,
  visibleCount, entry, reading, kept, stopping,
  config, page, hidden, alert, resolving, alerted, blank,
  overrides, broken, brought, tookBack,
  open, seeded, timer, cache, highlighted, confirming, filled, pressed, unseen, hung,
  root, folder, version, baseline, writes, left, unread, doubled, stranded,
  probing, lens, items, shownBy

-----------------------------------------------------------------------------
(* The screens                                                             *)

WatchScopes == {"s1", "s2"}
WatchLog == [s \in WatchScopes |-> IF s = "s1" THEN <<11, 12, 23>> ELSE <<34, 45>>]
HistoryScopes == {"s1", "s2", "none"}
HistoryLog == [s \in HistoryScopes |-> IF s = "none" THEN <<>> ELSE WatchLog[s]]
DayOf(w) == w \div 10

\* Boards of three animes: a duplicated one, columns with gaps, a column of ties.
ScheduleAnimes == 1..3
P(a, d, o) == [anime |-> a, day |-> d, order |-> o]
Boards == {{P(1, 1, 1), P(2, 1, 2), P(3, 2, 1), P(1, 2, 2)},
           {P(1, 1, 3), P(2, 2, 1), P(3, 2, 2)},
           {P(1, 1, 1), P(2, 1, 1), P(3, 2, 1)}}

\* A running anime and a new one; a day that both lenses of Today have.
OrderedAnimes == 1..2
Lenses == [daily |-> {1, 2}, season |-> {2}]

\* Two global commands and one of a page; documents that rebind the first one, also to
\* the chord of the second.
Commands == {"g1", "g2", "s"}
Chords == 1..3
ShippedChord == [x \in Commands |-> CASE x = "g1" -> 1 [] x = "g2" -> 2 [] OTHER -> 3]
Documents == {[x \in Commands |-> IF x = "g1" THEN y ELSE None] : y \in {None, 2, 3}}

\* Five places of the feed, two of one millisecond; three lines at first.
PlaceMs == <<1, 2, 3, 3, 4>>

\* The form's name, another query and one too short to search for.
Queries == {"a", "b", "s"}
MovedAnimes == {CHOOSE a \in Animes : TRUE}

Watch == INSTANCE WatchEpisodes WITH
  Scopes <- WatchScopes, Log <- WatchLog, PageSize <- 1, MaxGenerations <- 3, MaxRequests <- 3
History == INSTANCE HistoryTimeline WITH
  Scopes <- HistoryScopes, Log <- HistoryLog, Unmatched <- {"none"}, Day <- DayOf,
  PageSize <- 1, MaxGenerations <- 3, MaxRequests <- 3
Inspector == INSTANCE HistoryInspector WITH Covered <- {CHOOSE a \in Animes : TRUE}, MaxVisits <- 4
List == INSTANCE NotificationList WITH Seeded <- 2, PageSize <- 1, MaxRecords <- 4, MaxCalls <- 3
Pane == INSTANCE NotificationPane WITH Seeded <- 1, MaxRecords <- 2, MaxCalls <- 4
Records == INSTANCE NotificationPane WITH Seeded <- 2, MaxRecords <- 2, MaxCalls <- 5
Detail == INSTANCE AnimeDetail WITH Nothing <- None, MaxVisits <- 2, MaxCalls <- 4, MaxVersion <- 2
Season == INSTANCE SeasonStore WITH MaxCalls <- 2
Editor == INSTANCE EditorRecord WITH MaxVersion <- 2, MaxCalls <- 2
Schedule == INSTANCE ScheduleDraft WITH
  Animes <- ScheduleAnimes, Days <- {1, 2}, MaxCards <- 4, MaxMoves <- 3, MaxWrites <- 1
Durations == INSTANCE EpisodeCard WITH MaxCalls <- 3
Feed == INSTANCE ActivityFeed WITH
  PageSize <- 2, Seeded <- {1, 3, 4}, MaxRecords <- 5, MaxCalls <- 3, AtMs <- PlaceMs,
  Grouped <- {1, 5}
Ordering == INSTANCE OrderingBoard WITH
  Animes <- OrderedAnimes, Days <- {1}, Starts <- {<<1, 0>>}, MaxCalls <- 3
Today == INSTANCE TodayBoard WITH
  Animes <- {CHOOSE a \in Animes : TRUE}, Options <- Lenses, MaxCalls <- 3, MaxPresses <- 2, MaxVersion <- 1
Downloads == INSTANCE DownloadStore WITH MaxCalls <- 2
Runs == INSTANCE RunHistory WITH
  Past <- <<"problem">>, PageSize <- 1, MaxRuns <- 2, MaxCalls <- 1
Keymap == INSTANCE KeymapPanel WITH
  ScopeOf <- [x \in Commands |-> IF x = "s" THEN "feed" ELSE "global"], Shipped <- ShippedChord,
  Backups <- Documents, MaxCalls <- 2
Lookup == INSTANCE MetadataLookup WITH
  Short <- {"s"}, Name <- "a", MaxTyped <- 3, MaxConfirms <- 1
Library == INSTANCE LibraryRoot WITH
  Animes <- MovedAnimes, Roots <- {"d", "e"}, MaxCalls <- 1, MaxTyped <- 2, MaxWrites <- 1

\* No value of the program is the absent one, there is an anime to show and a setting to
\* choose, and a season has finitely many rows.
ASSUME FrontendAssumption ==
  /\ Animes # {} /\ Grades # {} /\ IsFiniteSet(Rows)
  /\ None \notin Animes \cup Pasts \cup {1, 2, 3}
  /\ None \notin Editor!Records /\ None \notin Feed!Queries /\ None \notin Queries /\ None \notin Nat
  /\ None \notin [answer : {"none", "ok"}, rows : Seq(Runs!Statuses)]
  /\ None \notin [run : Nat, answer : {"none", "ok"}, steps : Nat]

\* The variables of the screens not chosen: their value, and that they keep it.
AllOff ==
  /\ IF screen \in {"watch", "history"} THEN TRUE ELSE scope = Off /\ inflight = Off /\
        hasMore = Off
  /\ IF screen \in {"watch", "history", "detail"} THEN TRUE ELSE generation = Off
  /\ IF screen \in {"watch", "history", "list", "season"} THEN TRUE ELSE rows = Off
  /\ IF screen \in {"watch", "history", "list", "feed"} THEN TRUE ELSE cursor = Off
  /\ IF screen \in {"watch", "history", "list"} THEN TRUE ELSE fetching = Off
  /\ IF screen \in {"watch", "history", "list", "editor", "today"} THEN TRUE ELSE loading = Off
  /\ IF screen \in {"watch", "history", "runs", "downloads", "today"} THEN TRUE ELSE
        failed = Off
  /\ IF screen \in {"watch", "history", "lookup"} THEN TRUE ELSE overtaken = Off
  /\ IF screen = "watch" THEN TRUE ELSE expanded = Off
  /\ IF screen = "history" THEN TRUE ELSE catalog = Off
  /\ IF screen \in {"inspector", "editor", "runs", "today"} THEN TRUE ELSE selected = Off
  /\ IF screen \in {"inspector", "detail", "lookup"} THEN TRUE ELSE snapshot = Off
  /\ IF screen = "inspector" THEN TRUE ELSE recents = Off /\ cover = Off /\ asked = Off /\
        visits = Off
  /\ IF screen = "list" THEN TRUE ELSE archived = Off /\ view = Off /\ more = Off /\
        overlapped = Off /\ gapped = Off
  /\ IF screen \in {"list", "pane", "records"} THEN TRUE ELSE changes = Off /\ seen = Off
  /\ IF screen \in {"list", "runs", "downloads"} THEN TRUE ELSE events = Off
  /\ IF screen \notin {"watch", "history", "inspector", "schedule"} THEN TRUE ELSE calls = Off
  /\ IF screen \notin {"watch", "history", "inspector", "lookup"} THEN TRUE ELSE made = Off
  /\ IF screen \in {"list", "pane", "records", "season", "keymap", "root"} THEN TRUE ELSE
        crossed = Off
  /\ IF screen \in {"list", "season"} THEN TRUE ELSE misplaced = Off
  /\ IF screen \in {"pane", "records", "runs"} THEN TRUE ELSE read = Off
  /\ IF screen \in {"pane", "records"} THEN TRUE ELSE gone = Off /\ badge = Off /\
        dots = Off /\ opened = Off /\ settled = Off /\ archiving = Off /\ unmarking = Off /\
        counted = Off /\ uncounted = Off
  /\ IF screen \in {"pane", "records", "today"} THEN TRUE ELSE pushes = Off
  /\ IF screen \in {"pane", "records", "feed"} THEN TRUE ELSE shown = Off
  /\ IF screen \in {"detail", "editor", "episodes", "downloads", "keymap", "today"} THEN TRUE ELSE
        stored = Off
  /\ IF screen = "detail" THEN TRUE ELSE route = Off /\ mutation = Off /\ outcome = Off
  /\ IF screen = "season" THEN TRUE ELSE grade = Off /\ matched = Off /\ matching = Off /\
        queue = Off /\ season = Off /\ ensured = Off /\ viewing = Off /\ busy = Off /\
        run = Off /\ panel = Off
  /\ IF screen = "editor" THEN TRUE ELSE record = Off /\ draft = Off /\ retains = Off /\
        sequence = Off /\ warned = Off /\ droppedBy = Off
  /\ IF screen \in {"editor", "episodes", "downloads", "root"} THEN TRUE ELSE saving = Off
  /\ IF screen \in {"editor", "root"} THEN TRUE ELSE pending = Off /\ strayed = Off
  /\ IF screen \in {"editor", "lookup", "root"} THEN TRUE ELSE typed = Off
  /\ IF screen \in {"editor", "episodes"} THEN TRUE ELSE late = Off
  /\ IF screen \in {"editor", "downloads", "today"} THEN TRUE ELSE overwrote = Off
  /\ IF screen = "schedule" THEN TRUE ELSE placed = Off /\ active = Off /\ modified = Off /\
        order = Off /\ applying = Off /\ command = Off /\ result = Off
  /\ IF screen \in {"schedule", "ordering"} THEN TRUE ELSE board = Off
  /\ IF screen = "episodes" THEN TRUE ELSE anime = Off /\ load = Off /\ running = Off /\
        review = Off /\ analysis = Off /\ abandoned = Off /\ lost = Off
  /\ IF screen \in {"episodes", "root"} THEN TRUE ELSE edits = Off
  /\ IF screen \in {"episodes", "runs"} THEN TRUE ELSE cancelled = Off
  /\ IF screen = "feed" THEN TRUE ELSE lines = Off /\ requestId = Off /\ loadingMore = Off /\
        due = Off /\ source = Off /\ torn = Off /\ taken = Off /\ inserted = Off /\
        regrouped = Off /\ seams = Off
  /\ IF screen \in {"feed", "lookup"} THEN TRUE ELSE query = Off
  /\ IF screen \in {"feed", "keymap"} THEN TRUE ELSE status = Off
  /\ IF screen \in {"feed", "downloads"} THEN TRUE ELSE behind = Off
  /\ IF screen = "ordering" THEN TRUE ELSE schedule = Off /\ row = Off /\ state = Off /\
        hasEdits = Off /\ armed = Off /\ visit = Off /\ wanted = Off /\ applied = Off /\
        spoiled = Off
  /\ IF screen \in {"ordering", "root"} THEN TRUE ELSE moved = Off
  /\ IF screen = "runs" THEN TRUE ELSE runs = Off /\ current = Off /\ queued = Off /\
        steps = Off /\ notices = Off /\ runHistory = Off /\ problemsOnly = Off /\
        visibleCount = Off /\ entry = Off /\ reading = Off /\ kept = Off /\ stopping = Off
  /\ IF screen \in {"runs", "downloads"} THEN TRUE ELSE loaded = Off /\ unheard = Off
  /\ IF screen = "downloads" THEN TRUE ELSE config = Off /\ page = Off /\ hidden = Off /\
        alert = Off /\ resolving = Off /\ alerted = Off
  /\ IF screen \in {"downloads", "keymap"} THEN TRUE ELSE blank = Off
  /\ IF screen = "keymap" THEN TRUE ELSE overrides = Off /\ broken = Off /\ brought = Off /\
        tookBack = Off
  /\ IF screen = "lookup" THEN TRUE ELSE open = Off /\ seeded = Off /\ timer = Off /\
        cache = Off /\ highlighted = Off /\ confirming = Off /\ filled = Off /\ unseen = Off /\
        hung = Off
  /\ IF screen \in {"lookup", "today"} THEN TRUE ELSE pressed = Off
  /\ IF screen = "root" THEN TRUE ELSE root = Off /\ folder = Off /\ baseline = Off /\
        writes = Off /\ left = Off /\ unread = Off /\ doubled = Off /\ stranded = Off
  /\ IF screen \in {"root", "today"} THEN TRUE ELSE version = Off
  /\ IF screen = "today" THEN TRUE ELSE probing = Off /\ lens = Off /\ items = Off /\
        shownBy = Off

Held ==
  /\ UNCHANGED screen
  /\ IF screen \in {"watch", "history"} THEN TRUE ELSE UNCHANGED <<scope, inflight, hasMore>>
  /\ IF screen \in {"watch", "history", "detail"} THEN TRUE ELSE UNCHANGED generation
  /\ IF screen \in {"watch", "history", "list", "season"} THEN TRUE ELSE UNCHANGED rows
  /\ IF screen \in {"watch", "history", "list", "feed"} THEN TRUE ELSE UNCHANGED cursor
  /\ IF screen \in {"watch", "history", "list"} THEN TRUE ELSE UNCHANGED fetching
  /\ IF screen \in {"watch", "history", "list", "editor", "today"} THEN TRUE ELSE UNCHANGED
        loading
  /\ IF screen \in {"watch", "history", "runs", "downloads", "today"} THEN TRUE ELSE UNCHANGED
        failed
  /\ IF screen \in {"watch", "history", "lookup"} THEN TRUE ELSE UNCHANGED overtaken
  /\ IF screen = "watch" THEN TRUE ELSE UNCHANGED expanded
  /\ IF screen = "history" THEN TRUE ELSE UNCHANGED catalog
  /\ IF screen \in {"inspector", "editor", "runs", "today"} THEN TRUE ELSE UNCHANGED selected
  /\ IF screen \in {"inspector", "detail", "lookup"} THEN TRUE ELSE UNCHANGED snapshot
  /\ IF screen = "inspector" THEN TRUE ELSE UNCHANGED <<recents, cover, asked, visits>>
  /\ IF screen = "list" THEN TRUE ELSE UNCHANGED <<archived, view, more, overlapped, gapped>>
  /\ IF screen \in {"list", "pane", "records"} THEN TRUE ELSE UNCHANGED <<changes, seen>>
  /\ IF screen \in {"list", "runs", "downloads"} THEN TRUE ELSE UNCHANGED events
  /\ IF screen \notin {"watch", "history", "inspector", "schedule"} THEN TRUE ELSE UNCHANGED
        calls
  /\ IF screen \notin {"watch", "history", "inspector", "lookup"} THEN TRUE ELSE UNCHANGED made
  /\ IF screen \in {"list", "pane", "records", "season", "keymap", "root"} THEN TRUE ELSE UNCHANGED
        crossed
  /\ IF screen \in {"list", "season"} THEN TRUE ELSE UNCHANGED misplaced
  /\ IF screen \in {"pane", "records", "runs"} THEN TRUE ELSE UNCHANGED read
  /\ IF screen \in {"pane", "records"} THEN TRUE ELSE UNCHANGED <<gone, badge, dots, opened,
        settled, archiving, unmarking, counted, uncounted>>
  /\ IF screen \in {"pane", "records", "today"} THEN TRUE ELSE UNCHANGED pushes
  /\ IF screen \in {"pane", "records", "feed"} THEN TRUE ELSE UNCHANGED shown
  /\ IF screen \in {"detail", "editor", "episodes", "downloads", "keymap", "today"} THEN TRUE ELSE UNCHANGED
        stored
  /\ IF screen = "detail" THEN TRUE ELSE UNCHANGED <<route, mutation, outcome>>
  /\ IF screen = "season" THEN TRUE ELSE UNCHANGED <<grade, matched, matching, queue, season,
        ensured, viewing, busy, run, panel>>
  /\ IF screen = "editor" THEN TRUE ELSE UNCHANGED <<record, draft, retains, sequence, warned,
        droppedBy>>
  /\ IF screen \in {"editor", "episodes", "downloads", "root"} THEN TRUE ELSE UNCHANGED saving
  /\ IF screen \in {"editor", "root"} THEN TRUE ELSE UNCHANGED <<pending, strayed>>
  /\ IF screen \in {"editor", "lookup", "root"} THEN TRUE ELSE UNCHANGED typed
  /\ IF screen \in {"editor", "episodes"} THEN TRUE ELSE UNCHANGED late
  /\ IF screen \in {"editor", "downloads", "today"} THEN TRUE ELSE UNCHANGED overwrote
  /\ IF screen = "schedule" THEN TRUE ELSE UNCHANGED <<placed, active, modified, order,
        applying, command, result>>
  /\ IF screen \in {"schedule", "ordering"} THEN TRUE ELSE UNCHANGED board
  /\ IF screen = "episodes" THEN TRUE ELSE UNCHANGED <<anime, load, running, review, analysis,
        abandoned, lost>>
  /\ IF screen \in {"episodes", "root"} THEN TRUE ELSE UNCHANGED edits
  /\ IF screen \in {"episodes", "runs"} THEN TRUE ELSE UNCHANGED cancelled
  /\ IF screen = "feed" THEN TRUE ELSE UNCHANGED <<lines, requestId, loadingMore, due, source,
        torn, taken, inserted, regrouped, seams>>
  /\ IF screen \in {"feed", "lookup"} THEN TRUE ELSE UNCHANGED query
  /\ IF screen \in {"feed", "keymap"} THEN TRUE ELSE UNCHANGED status
  /\ IF screen \in {"feed", "downloads"} THEN TRUE ELSE UNCHANGED behind
  /\ IF screen = "ordering" THEN TRUE ELSE UNCHANGED <<schedule, row, state, hasEdits, armed,
        visit, wanted, applied, spoiled>>
  /\ IF screen \in {"ordering", "root"} THEN TRUE ELSE UNCHANGED moved
  /\ IF screen = "runs" THEN TRUE ELSE UNCHANGED <<runs, current, queued, steps, notices,
        runHistory, problemsOnly, visibleCount, entry, reading, kept, stopping>>
  /\ IF screen \in {"runs", "downloads"} THEN TRUE ELSE UNCHANGED <<loaded, unheard>>
  /\ IF screen = "downloads" THEN TRUE ELSE UNCHANGED <<config, page, hidden, alert, resolving,
        alerted>>
  /\ IF screen \in {"downloads", "keymap"} THEN TRUE ELSE UNCHANGED blank
  /\ IF screen = "keymap" THEN TRUE ELSE UNCHANGED <<overrides, broken, brought, tookBack>>
  /\ IF screen = "lookup" THEN TRUE ELSE UNCHANGED <<open, seeded, timer, cache, highlighted,
        confirming, filled, unseen, hung>>
  /\ IF screen \in {"lookup", "today"} THEN TRUE ELSE UNCHANGED pressed
  /\ IF screen = "root" THEN TRUE ELSE UNCHANGED <<root, folder, baseline, writes, left,
        unread, doubled, stranded>>
  /\ IF screen \in {"root", "today"} THEN TRUE ELSE UNCHANGED version
  /\ IF screen = "today" THEN TRUE ELSE UNCHANGED <<probing, lens, items, shownBy>>

Init ==
  /\ \/ screen = "watch" /\ Watch!Init
     \/ screen = "history" /\ History!Init
     \/ screen = "inspector" /\ Inspector!Init
     \/ screen = "list" /\ List!Init
     \/ screen = "pane" /\ Pane!Init
     \/ screen = "records" /\ Records!Init
     \/ screen = "detail" /\ Detail!Init
     \/ screen = "season" /\ Season!Init
     \/ screen = "editor" /\ Editor!Init
     \/ screen = "schedule" /\ Schedule!Init
     \/ screen = "episodes" /\ Durations!Init
     \/ screen = "feed" /\ Feed!Init
     \/ screen = "ordering" /\ Ordering!Init
     \/ screen = "runs" /\ Runs!Init
     \/ screen = "downloads" /\ Downloads!Init
     \/ screen = "keymap" /\ Keymap!Init
     \/ screen = "lookup" /\ Lookup!Init
     \/ screen = "root" /\ Library!Init
     \/ screen = "today" /\ Today!Init
  /\ AllOff

Next ==
  \/ screen = "watch" /\ Watch!Next /\ Held
  \/ screen = "history" /\ History!Next /\ Held
  \/ screen = "inspector" /\ Inspector!Next /\ Held
  \/ screen = "list" /\ List!Next /\ Held
  \/ screen = "pane" /\ Pane!Next /\ Held
  \/ screen = "records" /\ Records!Next /\ Held
  \/ screen = "detail" /\ Detail!Next /\ Held
  \/ screen = "season" /\ Season!Next /\ Held
  \/ screen = "editor" /\ Editor!Next /\ Held
  \/ screen = "schedule" /\ Schedule!Next /\ Held
  \/ screen = "episodes" /\ Durations!Next /\ Held
  \/ screen = "feed" /\ Feed!Next /\ Held
  \/ screen = "ordering" /\ Ordering!Next /\ Held
  \/ screen = "runs" /\ Runs!Next /\ Held
  \/ screen = "downloads" /\ Downloads!Next /\ Held
  \/ screen = "keymap" /\ Keymap!Next /\ Held
  \/ screen = "lookup" /\ Lookup!Next /\ Held
  \/ screen = "root" /\ Library!Next /\ Held
  \/ screen = "today" /\ Today!Next /\ Held

\* What is on its way arrives: calls are served and answered, events are heard,
\* commands time out, a run ends.
Arrives ==
  \/ screen = "watch" /\ Watch!Answer
  \/ screen = "history" /\ (History!Answer \/ History!CatalogAnswers)
  \/ screen = "inspector" /\ Inspector!Answer
  \/ screen = "list" /\ List!Answer
  \/ screen = "detail" /\ Detail!Answer
  \/ screen = "season" /\ (Season!Answer \/ Season!Hear \/ Season!RunIsOver)
  \/ screen = "editor" /\ (Editor!LoadAnswers \/ Editor!CommandEnds)
  \/ screen = "schedule" /\ Schedule!Answered
  \/ screen = "episodes" /\ Durations!Answer
  \/ screen = "feed" /\ (Feed!Answer \/ Feed!RefreshLive)
  \/ screen = "today" /\ Today!Answer
  \/ screen = "downloads" /\ Downloads!Answer
  \/ screen = "runs" /\ (Runs!Arrives \/ Runs!Unwinds)
  \/ screen = "keymap" /\ Keymap!Answer
  \/ screen = "lookup" /\ Lookup!Answer
  \/ screen = "root" /\ Library!Answer

vars == <<screen, scope, generation, inflight, rows, cursor, fetching, hasMore, loading, failed, overtaken,
  expanded,
  catalog,
  selected, snapshot, recents, cover, asked, visits,
  archived, changes, events, calls, made, view, more, seen, crossed, overlapped, misplaced, gapped,
  read, gone, pushes, badge, dots, opened, shown, settled, archiving, unmarking, counted,
  uncounted,
  stored, route, mutation, outcome,
  grade, matched, matching, queue, season, ensured, viewing, busy, run, panel,
  record, draft, retains, saving, sequence, pending, typed, late, warned, strayed, droppedBy,
  overwrote,
  placed, active, modified, board, order, applying, command, result,
  anime, edits, load, running, review, analysis, cancelled, abandoned, lost,
  lines, query, status, requestId, loadingMore, due, source, torn, taken, behind,
  inserted, regrouped, seams,
  schedule, row, state, hasEdits, armed, visit, wanted, applied, moved, spoiled,
  runs, current, queued, steps, notices, runHistory, loaded, unheard, problemsOnly,
  visibleCount, entry, reading, kept, stopping,
  config, page, hidden, alert, resolving, alerted, blank,
  overrides, broken, brought, tookBack,
  open, seeded, timer, cache, highlighted, confirming, filled, pressed, unseen, hung,
  root, folder, version, baseline, writes, left, unread, doubled, stranded,
  probing, lens, items, shownBy>>

\* The variables of the screen chosen: the others keep their value.
View ==
  CASE screen = "watch" -> Watch!vars
    [] screen = "history" -> History!vars
    [] screen = "inspector" -> Inspector!vars
    [] screen = "list" -> List!vars
    [] screen = "pane" -> Pane!vars
    [] screen = "records" -> Records!vars
    [] screen = "detail" -> Detail!vars
    [] screen = "season" -> Season!vars
    [] screen = "editor" -> Editor!vars
    [] screen = "schedule" -> Schedule!vars
    [] screen = "episodes" -> Durations!vars
    [] screen = "feed" -> Feed!vars
    [] screen = "ordering" -> Ordering!vars
    [] screen = "runs" -> Runs!vars
    [] screen = "downloads" -> Downloads!vars
    [] screen = "keymap" -> Keymap!vars
    [] screen = "lookup" -> Lookup!vars
    [] screen = "root" -> Library!vars
    [] screen = "today" -> Today!vars

\* A behaviour has one screen: one condition serves all, and asks less than the
\* conditions of each module together.
Fairness == WF_View(Arrives /\ UNCHANGED screen)

Spec == Init /\ [][Next]_vars /\ Fairness

-----------------------------------------------------------------------------
(* The properties of the screens                                           *)

\* Every screen's state is of its types.
TypeOK ==
  /\ screen = "watch" => Watch!TypeOK
  /\ screen = "history" => History!TypeOK
  /\ screen = "inspector" => Inspector!TypeOK
  /\ screen = "list" => List!TypeOK
  /\ screen = "pane" => Pane!TypeOK
  /\ screen = "records" => Records!TypeOK
  /\ screen = "detail" => Detail!TypeOK
  /\ screen = "season" => Season!TypeOK
  /\ screen = "editor" => Editor!TypeOK
  /\ screen = "schedule" => Schedule!TypeOK
  /\ screen = "episodes" => Durations!TypeOK
  /\ screen = "feed" => Feed!TypeOK
  /\ screen = "ordering" => Ordering!TypeOK
  /\ screen = "runs" => Runs!TypeOK
  /\ screen = "downloads" => Downloads!TypeOK
  /\ screen = "keymap" => Keymap!TypeOK
  /\ screen = "lookup" => Lookup!TypeOK
  /\ screen = "root" => Library!TypeOK
  /\ screen = "today" => Today!TypeOK

\* A list of watched episodes shows the newest rows of what it is asked to show, in
\* order and each once, whatever pages overtook others (use-anime-watch-episodes,
\* use-history-timeline).  So does the activity feed (use-activity-feed-pages), lines
\* recorded below a page already read and those cut off at a merged page's last
\* millisecond apart.  A day of the History list that is not the last one loaded has
\* all of its rows, so its count is not partial (groupEpisodesByDay).
ShownIsPrefix ==
  /\ screen = "watch" => Watch!ShownIsPrefix
  /\ screen = "history" => History!ShownIsPrefix /\ History!DaysAreComplete
  /\ screen = "feed" => Feed!ShownIsPrefix

\* The History inspector never puts one anime's cover or episodes under another's
\* detail, however its three reads are answered (useHistoryInspector).
PaneIsOfOneAnime == screen = "inspector" => Inspector!PaneIsOfOneAnime

\* No notification is on the list twice, live refreshes and pages together
\* (mergeRefreshedTopPage, fetchPage).
RowsOnce == screen = "list" => List!RowsOnce

\* Once pushes, archives and pages have arrived, the list is the store's
\* (useNotificationsListSync).
ListSettles == screen = "list" => List!ListSettles

\* Once pushes and answers have arrived, the pane shows the record pressed last, the
\* rows the read state of the store, and the badge of the rail its number of unread
\* records (useNotificationOpenRecord, the notification store).
PaneSettles ==
  /\ screen = "pane" => Pane!PaneSettles /\ Pane!BadgeIsTheCount
  /\ screen = "records" => Records!PaneSettles /\ Records!BadgeIsTheCount

\* The alert after Repeat or Restore tells what the store decided on the change of
\* this visit, never of the page visited before (useAnimeDetailMutation).
FeedbackIsHonest == screen = "detail" => Detail!FeedbackIsHonest

\* The page of an anime implements ConfirmedChange: what it shows was stored, and
\* a change is applied only to the version the user confirmed it on.
KeepsItsPromise ==
  /\ screen = "detail" => Detail!Promise!Init
  /\ [][screen = "detail" => Detail!Promise!Next]_(Detail!Promise!vars)

\* The season and rows on the screen are of the season viewed (the season store), the
\* editor's form is of the anime selected (useAnimeEditorRecord's sequence), and the
\* run whose detail is shown is among the rows revealed (reconcileVisibleRunCount).
ShowsWhatIsViewed ==
  /\ screen = "season" => Season!ShowsWhatIsViewed
  /\ screen = "editor" => Editor!FormIsOfSelection
  /\ screen = "runs" => Runs!SelectedIsVisible

\* Once everything is answered and heard, the store shows what the backend holds:
\* optimistic settings, intake rows and the matches of a run.
SeasonSettles == screen = "season" => Season!SeasonSettles

\* Typed edits, and edited durations, leave their card only when the user drops
\* them or the code knowingly replaces them (the guard, the save, the review); and
\* no save of the download schedule undoes an earlier one (toScheduleSaveRequest).
EditsSurvive ==
  /\ screen = "editor" => Editor!EditsSurvive
  /\ screen = "episodes" => Durations!EditsSurvive
  /\ screen = "downloads" => Downloads!EditsSurvive

\* A save, and a press on a card of the Today board, never writes over another
\* device's change the screen has not shown (baseModifiedAt, the changed fields of
\* the save command, the row's token of a progress command).
OthersSurvive ==
  /\ screen = "editor" => Editor!OthersSurvive
  /\ screen = "today" => Today!OthersSurvive

\* An applied schedule is the board the user saw, parked cards apart: the payload,
\* the merge into stored columns and the answer agree on places.  So is a season's
\* ordering, whatever draft its timer saved last (ApplySchedule).
AppliedIsTheDraft ==
  /\ screen = "schedule" => Schedule!AppliedIsTheDraft
  /\ screen = "ordering" => Ordering!AppliedIsSeen

\* With nothing on its way the ordering board has each anime where the user left
\* it, through saved drafts, visits, applies and reopenings (useOrderingBoard).
DraftKept == screen = "ordering" => Ordering!DraftKept

\* A draft of the current board is not refused, unless a card is parked or a
\* stored column has gaps.
DraftsAreTaken == screen = "schedule" => Schedule!DraftsAreTaken

\* No measured reading replaces a duration set by hand, whenever its analysis ran
\* (toReviewContent, mergeEpisodeEdits, the store's save).
HandValuesStay ==
  [][screen = "episodes" =>
       \A a \in Animes, e \in Episodes :
         stored[a][e] = "manual" => stored'[a][e] \in {"manual", "none"}]_vars

\* Every chord the shortcut panel lists runs the command it is listed for, through
\* rebinds, resets, backups and failed writes; a second command runs with it only when
\* a document read from outside the panel, or a revert, gave both the chord
\* (findCollidingBinding, resolveCommand).
CommandsAnswer == screen = "keymap" => Keymap!CommandsAnswer

\* What a confirm carries out is what its dialog showed: the highlighted candidate
\* and its cover (the metadata lookup), the animes that follow a new library root.
ConfirmedIsShown ==
  /\ screen = "lookup" => Lookup!HighlightedIsShown
  /\ screen = "root" => Library!MovesAreConfirmed

\* A new library root is not stored while an active anime lies under the old one,
\* as one change is carried out at a time (rebaseActiveFolders, SetLibraryRoot).
NobodyIsStranded == screen = "root" => Library!NobodyIsStranded

\* With nothing on its way the Episodes card shows the stored durations, the Today
\* board the rows of the filter picked, the activity feed its newest page, the
\* Downloads page the stored schedule with the notice of a day still missed, its run
\* history the stored runs and every step of the run shown, and the lookup the
\* results of the text typed; the dispatcher answers to the stored shortcuts, and the
\* Options panel compares with the stored library root.
RowsSettle ==
  /\ screen = "episodes" => Durations!RowsSettle
  /\ screen = "today" => Today!RowsSettle
  /\ screen = "feed" => Feed!FeedSettles
  /\ screen = "downloads" => Downloads!RowsSettle
  /\ screen = "runs" => Runs!RowsSettle
  /\ screen = "keymap" => Keymap!RowsSettle
  /\ screen = "lookup" => Lookup!ResultsSettle
  /\ screen = "root" => Library!RowsSettle

\* What a screen waits for, and the second thing some wait for.
Waits ==
  CASE screen \in {"watch", "history", "list"} -> loading
    [] screen = "inspector" -> Inspector!Status = "loading"
    [] screen \in {"pane", "records"} -> FALSE
    [] screen = "detail" -> Detail!Mutating
    [] screen = "season" -> run # None
    [] screen = "editor" -> saving
    [] screen = "schedule" -> applying
    [] screen = "episodes" -> running
    [] screen = "feed" -> status = "loading"
    [] screen = "ordering" -> FALSE
    [] screen = "today" -> loading
    [] screen = "downloads" -> resolving
    [] screen = "runs" -> Runs!IsLoading
    [] screen = "keymap" -> status = "pending"
    [] screen = "lookup" -> Lookup!Searching
    [] screen = "root" -> saving
AlsoWaits ==
  CASE screen = "season" -> busy
    [] screen = "editor" -> loading
    [] screen = "downloads" -> saving
    [] screen = "runs" -> Runs!Stopping
    [] screen = "lookup" -> Lookup!Fetching
    [] screen = "episodes" -> saving
    [] screen = "feed" -> loadingMore
    [] OTHER -> FALSE

\* No screen waits for ever: every skeleton, spinner and disabled button ends,
\* whatever is pressed meanwhile, when calls are answered.
WaitsEnd == (Waits ~> ~Waits) /\ (AlsoWaits ~> ~AlsoWaits)

=============================================================================
