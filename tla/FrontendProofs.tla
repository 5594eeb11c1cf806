--------------------------- MODULE FrontendProofs ---------------------------
(***************************************************************************)
(* The proofs of the components carried over to the window of MCFrontend,  *)
(* for any animes, fields, episodes and rows.  A behaviour of the window   *)
(* is one of the screen chosen at its start: a screen's inductive          *)
(* invariant holds while it is the one chosen, since its steps are those   *)
(* of the component and the steps of the others keep what screen it is.    *)
(***************************************************************************)
EXTENDS MCFrontend, FiniteSetTheorems, TLAPS

\* The notification pane and the lists of episodes are there twice.
Panels == INSTANCE WindowPanelProofs WITH
  LibraryAnimes <- MovedAnimes, Roots <- {"d", "e"}, LibraryCalls <- 1, LibraryTyped <- 2, LibraryWrites <- 1,
  Short <- {"s"}, LookupName <- "a", LookupTyped <- 3, LookupConfirms <- 1,
  ScopeOf <- [x \in Commands |-> IF x = "s" THEN "feed" ELSE "global"], Shipped <- ShippedChord,
  Backups <- Documents, KeymapCalls <- 2,
  Covered <- {CHOOSE a \in Animes : TRUE}, InspectorVisits <- 4,
  PaneSeeded <- 1, PaneRecords <- 2, PaneCalls <- 4,
  Scopes <- WatchScopes, Log <- WatchLog, PageSize <- 1, MaxGenerations <- 3, MaxRequests <- 3,
  Unmatched <- {"none"}, Day <- DayOf
OtherPanels == INSTANCE WindowPanelProofs WITH
  LibraryAnimes <- MovedAnimes, Roots <- {"d", "e"}, LibraryCalls <- 1, LibraryTyped <- 2, LibraryWrites <- 1,
  Short <- {"s"}, LookupName <- "a", LookupTyped <- 3, LookupConfirms <- 1,
  ScopeOf <- [x \in Commands |-> IF x = "s" THEN "feed" ELSE "global"], Shipped <- ShippedChord,
  Backups <- Documents, KeymapCalls <- 2,
  Covered <- {CHOOSE a \in Animes : TRUE}, InspectorVisits <- 4,
  PaneSeeded <- 2, PaneRecords <- 2, PaneCalls <- 5,
  Scopes <- HistoryScopes, Log <- HistoryLog, PageSize <- 1, MaxGenerations <- 3, MaxRequests <- 3,
  Unmatched <- {"none"}, Day <- DayOf
Lists == INSTANCE WindowListProofs WITH
  ListSeeded <- 2, ListPage <- 1, ListRecords <- 4, ListCalls <- 3,
  FeedSeeded <- {1, 3, 4}, FeedPage <- 2, FeedRecords <- 5, FeedReads <- 3,
  AtMs <- PlaceMs, Grouped <- {1, 5},
  ScheduleDays <- {1, 2}, MaxCards <- 4, MaxMoves <- 3, MaxWrites <- 1
DetailProofs == INSTANCE AnimeDetailProofs WITH
  Nothing <- None, MaxVisits <- 2, MaxCalls <- 4, MaxVersion <- 2
BoardProofs == INSTANCE WindowBoardProofs WITH
  SeasonCalls <- 2, CardCalls <- 3, ScheduleCalls <- 2,
  TodayAnimes <- {CHOOSE a \in Animes : TRUE}, TodayOptions <- Lenses, TodayCalls <- 3,
  TodayPresses <- 2, TodayVersion <- 1,
  RunPage <- 1, RunsPast <- <<"problem">>, RunsMost <- 2, RunsCalls <- 1,
  OrderAnimes <- OrderedAnimes, OrderDays <- {1}, OrderStarts <- {<<1, 0>>}, OrderCalls <- 3,
  EditorVersion <- 2, EditorCalls <- 2

\* The screen chosen starts and steps as its component does, and no step changes which it is.
LEMMA ScreenRuns ==
  /\ Init =>
       /\ screen = "inspector" => Inspector!Init
       /\ screen = "pane" => Pane!Init
       /\ screen = "records" => Records!Init
       /\ screen = "list" => List!Init
       /\ screen = "feed" => Feed!Init
       /\ screen = "schedule" => Schedule!Init
       /\ screen = "watch" => Watch!Init
       /\ screen = "history" => History!Init
       /\ screen = "detail" => Detail!Init
       /\ screen = "keymap" => Keymap!Init
       /\ screen = "root" => Library!Init
       /\ screen = "lookup" => Lookup!Init
       /\ screen = "season" => Season!Init
       /\ screen = "episodes" => Durations!Init
       /\ screen = "downloads" => Downloads!Init
       /\ screen = "today" => Today!Init
       /\ screen = "runs" => Runs!Init
       /\ screen = "editor" => Editor!Init
       /\ screen = "ordering" => Ordering!Init
  /\ Next =>
       /\ screen' = screen
       /\ screen = "inspector" => Inspector!Next
       /\ screen = "pane" => Pane!Next
       /\ screen = "records" => Records!Next
       /\ screen = "list" => List!Next
       /\ screen = "feed" => Feed!Next
       /\ screen = "schedule" => Schedule!Next
       /\ screen = "watch" => Watch!Next
       /\ screen = "history" => History!Next
       /\ screen = "detail" => Detail!Next
       /\ screen = "keymap" => Keymap!Next
       /\ screen = "root" => Library!Next
       /\ screen = "lookup" => Lookup!Next
       /\ screen = "season" => Season!Next
       /\ screen = "episodes" => Durations!Next
       /\ screen = "downloads" => Downloads!Next
       /\ screen = "today" => Today!Next
       /\ screen = "runs" => Runs!Next
       /\ screen = "editor" => Editor!Next
       /\ screen = "ordering" => Ordering!Next
  /\ UNCHANGED vars =>
       /\ screen' = screen
       /\ UNCHANGED Panels!Inspector!vars
       /\ UNCHANGED Panels!Pane!vars
       /\ UNCHANGED OtherPanels!Pane!vars
       /\ UNCHANGED Lists!List!vars
       /\ UNCHANGED Lists!Feed!vars
       /\ UNCHANGED Lists!Schedule!vars
       /\ UNCHANGED Panels!Watch!vars
       /\ UNCHANGED OtherPanels!History!vars
       /\ UNCHANGED DetailProofs!vars
       /\ UNCHANGED Panels!Keymap!vars
       /\ UNCHANGED Panels!Library!vars
       /\ UNCHANGED Panels!Lookup!vars
       /\ UNCHANGED BoardProofs!Season!vars
       /\ UNCHANGED BoardProofs!Durations!vars
       /\ UNCHANGED BoardProofs!Downloads!vars
       /\ UNCHANGED BoardProofs!Today!vars
       /\ UNCHANGED BoardProofs!Runs!vars
       /\ UNCHANGED BoardProofs!Editor!vars
       /\ UNCHANGED BoardProofs!Ordering!vars
BY DEF
  Init, Next, Held, vars, Panels!Inspector!vars, Panels!Pane!store, Panels!Pane!pane,
  Panels!Pane!vars, OtherPanels!Pane!store, OtherPanels!Pane!pane, OtherPanels!Pane!vars,
  Lists!List!store, Lists!List!list, Lists!List!history, Lists!List!vars, Lists!Feed!reads,
  Lists!Feed!feed, Lists!Feed!history, Lists!Feed!added, Lists!Feed!vars, Lists!Schedule!vars,
  Panels!Watch!pageVars, Panels!Watch!vars, OtherPanels!History!pageVars,
  OtherPanels!History!vars, DetailProofs!vars, Panels!Keymap!past, Panels!Keymap!vars,
  Panels!Library!stores, Panels!Library!panel, Panels!Library!past, Panels!Library!vars,
  Panels!Lookup!past, Panels!Lookup!vars, BoardProofs!Season!backend, BoardProofs!Season!shown,
  BoardProofs!Season!vars, BoardProofs!Durations!backend, BoardProofs!Durations!card,
  BoardProofs!Durations!history, BoardProofs!Durations!vars, BoardProofs!Downloads!store,
  BoardProofs!Downloads!panel, BoardProofs!Downloads!notice, BoardProofs!Downloads!past,
  BoardProofs!Downloads!vars, BoardProofs!Today!store, BoardProofs!Today!picked,
  BoardProofs!Today!vars, BoardProofs!Runs!backend, BoardProofs!Runs!store,
  BoardProofs!Runs!panel, BoardProofs!Runs!story, BoardProofs!Runs!stop, BoardProofs!Runs!vars,
  BoardProofs!Editor!form, BoardProofs!Editor!history, BoardProofs!Editor!vars,
  BoardProofs!Ordering!vars

-----------------------------------------------------------------------------
(* The History inspector                                                   *)

InspectorInv == screen = "inspector" => Panels!InspectorInv

LEMMA InspectorConstants == Panels!InspectorAssumptions
BY FrontendAssumption DEF Panels!InspectorAssumptions

LEMMA InspectorMatches ==
  /\ Inspector!Init <=> Panels!Inspector!Init
  /\ Inspector!Next <=> Panels!Inspector!Next
BY DEF
  Inspector!Placeholder, Panels!Inspector!Placeholder, Inspector!Init, Panels!Inspector!Init,
  Inspector!DetailOf, Panels!Inspector!DetailOf, Inspector!HasStoredCover,
  Panels!Inspector!HasStoredCover, Inspector!Retire, Panels!Inspector!Retire,
  Inspector!Request, Panels!Inspector!Request, Inspector!CoverEffect,
  Panels!Inspector!CoverEffect, Inspector!Select, Panels!Inspector!Select,
  Inspector!DetailAnswers, Panels!Inspector!DetailAnswers, Inspector!EpisodesAnswer,
  Panels!Inspector!EpisodesAnswer, Inspector!CoverAnswers, Panels!Inspector!CoverAnswers,
  Inspector!Answer, Panels!Inspector!Answer, Inspector!Next, Panels!Inspector!Next

LEMMA InspectorKept == (Init => InspectorInv) /\ (InspectorInv /\ [Next]_vars => InspectorInv')
BY InspectorConstants, ScreenRuns, InspectorMatches, Panels!InspectorInit,
  Panels!InspectorStepKeepsInv DEF InspectorInv

LEMMA InspectorPromises == Panels!Inspector!PaneIsOfOneAnime => Inspector!PaneIsOfOneAnime
BY DEF
  Inspector!DetailOf, Panels!Inspector!DetailOf, Inspector!Status, Panels!Inspector!Status,
  Inspector!PaneIsOfOneAnime, Panels!Inspector!PaneIsOfOneAnime

-----------------------------------------------------------------------------
(* The notification pane and the badge                                     *)

PaneInv == screen = "pane" => Panels!PaneInv

LEMMA PaneConstants == Panels!PaneAssumptions
BY FrontendAssumption DEF Panels!PaneAssumptions

LEMMA PaneMatches ==
  /\ Pane!Init <=> Panels!Pane!Init
  /\ Pane!Next <=> Panels!Pane!Next
BY DEF
  Pane!store, Panels!Pane!store, Pane!pane, Panels!Pane!pane, Pane!Ids, Panels!Pane!Ids,
  Pane!UnreadCount, Panels!Pane!UnreadCount, Pane!Mutations, Panels!Pane!Mutations, Pane!Call,
  Panels!Pane!Call, Pane!Init, Panels!Pane!Init, Pane!Ask, Panels!Pane!Ask, Pane!Learn,
  Panels!Pane!Learn, Pane!Record, Panels!Pane!Record, Pane!PushArrives,
  Panels!Pane!PushArrives, Pane!ServeMutation, Panels!Pane!ServeMutation, Pane!ServeCount,
  Panels!Pane!ServeCount, Pane!TakeCount, Panels!Pane!TakeCount, Pane!BadgeSeeded,
  Panels!Pane!BadgeSeeded, Pane!OpenRecord, Panels!Pane!OpenRecord, Pane!RecordRead,
  Panels!Pane!RecordRead, Pane!MarkedRead, Panels!Pane!MarkedRead, Pane!MarkUnread,
  Panels!Pane!MarkUnread, Pane!MarkedUnread, Panels!Pane!MarkedUnread, Pane!Archive,
  Panels!Pane!Archive, Pane!Archived, Panels!Pane!Archived, Pane!Next, Panels!Pane!Next,
  Pane!Cardinality, Panels!Pane!Cardinality

LEMMA PaneKept == (Init => PaneInv) /\ (PaneInv /\ [Next]_vars => PaneInv')
BY PaneConstants, ScreenRuns, PaneMatches, Panels!PaneInit, Panels!PaneStepKeepsInv DEF PaneInv

LEMMA PanePromises ==
  Panels!Pane!PaneSettles /\ Panels!Pane!BadgeIsTheCount
  => Pane!PaneSettles /\ Pane!BadgeIsTheCount
BY DEF
  Pane!Ids, Panels!Pane!Ids, Pane!UnreadCount, Panels!Pane!UnreadCount, Pane!Quiet,
  Panels!Pane!Quiet, Pane!BadgeIsTheCount, Panels!Pane!BadgeIsTheCount, Pane!PaneSettles,
  Panels!Pane!PaneSettles, Pane!Cardinality, Panels!Pane!Cardinality

RecordsInv == screen = "records" => OtherPanels!PaneInv

LEMMA RecordsConstants == OtherPanels!PaneAssumptions
BY FrontendAssumption DEF OtherPanels!PaneAssumptions

LEMMA RecordsMatches ==
  /\ Records!Init <=> OtherPanels!Pane!Init
  /\ Records!Next <=> OtherPanels!Pane!Next
BY DEF
  Records!store, OtherPanels!Pane!store, Records!pane, OtherPanels!Pane!pane, Records!Ids,
  OtherPanels!Pane!Ids, Records!UnreadCount, OtherPanels!Pane!UnreadCount, Records!Mutations,
  OtherPanels!Pane!Mutations, Records!Call, OtherPanels!Pane!Call, Records!Init,
  OtherPanels!Pane!Init, Records!Ask, OtherPanels!Pane!Ask, Records!Learn,
  OtherPanels!Pane!Learn, Records!Record, OtherPanels!Pane!Record, Records!PushArrives,
  OtherPanels!Pane!PushArrives, Records!ServeMutation, OtherPanels!Pane!ServeMutation,
  Records!ServeCount, OtherPanels!Pane!ServeCount, Records!TakeCount,
  OtherPanels!Pane!TakeCount, Records!BadgeSeeded, OtherPanels!Pane!BadgeSeeded,
  Records!OpenRecord, OtherPanels!Pane!OpenRecord, Records!RecordRead,
  OtherPanels!Pane!RecordRead, Records!MarkedRead, OtherPanels!Pane!MarkedRead,
  Records!MarkUnread, OtherPanels!Pane!MarkUnread, Records!MarkedUnread,
  OtherPanels!Pane!MarkedUnread, Records!Archive, OtherPanels!Pane!Archive, Records!Archived,
  OtherPanels!Pane!Archived, Records!Next, OtherPanels!Pane!Next, Records!Cardinality,
  OtherPanels!Pane!Cardinality

LEMMA RecordsKept == (Init => RecordsInv) /\ (RecordsInv /\ [Next]_vars => RecordsInv')
BY RecordsConstants, ScreenRuns, RecordsMatches, OtherPanels!PaneInit,
  OtherPanels!PaneStepKeepsInv DEF RecordsInv

LEMMA RecordsPromises ==
  OtherPanels!Pane!PaneSettles /\ OtherPanels!Pane!BadgeIsTheCount
  => Records!PaneSettles /\ Records!BadgeIsTheCount
BY DEF
  Records!Ids, OtherPanels!Pane!Ids, Records!UnreadCount, OtherPanels!Pane!UnreadCount,
  Records!Quiet, OtherPanels!Pane!Quiet, Records!BadgeIsTheCount,
  OtherPanels!Pane!BadgeIsTheCount, Records!PaneSettles, OtherPanels!Pane!PaneSettles,
  Records!Cardinality, OtherPanels!Pane!Cardinality

-----------------------------------------------------------------------------
(* The list of notifications                                               *)

ListInv == screen = "list" => Lists!ListInv

LEMMA ListConstants == Lists!ListAssumptions
BY DEF Lists!ListAssumptions

LEMMA ListMatches ==
  /\ List!Init <=> Lists!List!Init
  /\ List!Next <=> Lists!List!Next
BY DEF
  List!store, Lists!List!store, List!list, Lists!List!list, List!history, Lists!List!history,
  List!Views, Lists!List!Views, List!Pages, Lists!List!Pages, List!Ids, Lists!List!Ids,
  List!Matching, Lists!List!Matching, List!Call, Lists!List!Call, List!Init, Lists!List!Init,
  List!Fetch, Lists!List!Fetch, List!Record, Lists!List!Record, List!ArchiveFromPane,
  Lists!List!ArchiveFromPane, List!ServePage, Lists!List!ServePage, List!ServeMutation,
  Lists!List!ServeMutation, List!Learn, Lists!List!Learn, List!FetchedPage,
  Lists!List!FetchedPage, List!RefreshedPage, Lists!List!RefreshedPage, List!EventArrives,
  Lists!List!EventArrives, List!LoadMore, Lists!List!LoadMore, List!SwitchView,
  Lists!List!SwitchView, List!Bulk, Lists!List!Bulk, List!BulkDone, Lists!List!BulkDone,
  List!Next, Lists!List!Next, List!Cardinality, Lists!List!Cardinality, List!Newest,
  Lists!List!Newest, List!Without, Lists!List!Without, List!Range, Lists!List!Range,
  List!IsInjective, Lists!List!IsInjective

LEMMA ListKept == (Init => ListInv) /\ (ListInv /\ [Next]_vars => ListInv')
BY ListConstants, ScreenRuns, ListMatches, Lists!ListInit, Lists!ListStepKeepsInv DEF ListInv

LEMMA ListPromises ==
  Lists!List!RowsOnce /\ Lists!List!ListSettles
  => List!RowsOnce /\ List!ListSettles
BY DEF
  List!Ids, Lists!List!Ids, List!Matching, Lists!List!Matching, List!Quiet, Lists!List!Quiet,
  List!RowsOnce, Lists!List!RowsOnce, List!ListSettles, Lists!List!ListSettles,
  List!Cardinality, Lists!List!Cardinality, List!Newest, Lists!List!Newest, List!Without,
  Lists!List!Without, List!Range, Lists!List!Range, List!IsInjective, Lists!List!IsInjective

-----------------------------------------------------------------------------
(* The schedule modal                                                      *)

ScheduleInv == screen = "schedule" => Lists!ScheduleInv

LEMMA ScheduleConstants == Lists!ScheduleAssumptions
<1>1. \A S : Lists!IsFiniteSet(S) <=> IsFiniteSet(S)
  BY DEF Lists!IsFiniteSet, IsFiniteSet
<1>2. IsFiniteSet(ScheduleAnimes)
  <2>1. 1 \in Int /\ 3 \in Int
    OBVIOUS
  <2> QED
    BY <2>1, FS_Interval DEF ScheduleAnimes
<1>3. \A x, y, z, w : IsFiniteSet({x, y, z, w})
  <2> TAKE x, y, z, w
  <2>1. IsFiniteSet({x}) /\ IsFiniteSet({x} \cup {y}) /\ IsFiniteSet({x} \cup {y} \cup {z})
    BY FS_Singleton, FS_AddElement
  <2>2. IsFiniteSet({x} \cup {y} \cup {z} \cup {w})
    BY <2>1, FS_AddElement
  <2>3. {x} \cup {y} \cup {z} \cup {w} = {x, y, z, w}
    OBVIOUS
  <2> QED
    BY <2>2, <2>3
<1>4. IsFiniteSet({1, 2})
  <2>1. {1, 2} = {1, 2, 2, 2}
    OBVIOUS
  <2> QED
    BY <1>3, <2>1
<1>5. ASSUME NEW b \in Boards PROVE b \subseteq Lists!Schedule!Placements /\ IsFiniteSet(b)
  <2>1. \A a \in 1..3, d \in {1, 2}, o \in {1, 2, 3} : P(a, d, o) \in Lists!Schedule!Placements
    BY DEF P, Lists!Schedule!Placements, ScheduleAnimes
  <2>2. /\ P(1, 1, 1) \in Lists!Schedule!Placements /\ P(2, 1, 2) \in Lists!Schedule!Placements
        /\ P(3, 2, 1) \in Lists!Schedule!Placements /\ P(1, 2, 2) \in Lists!Schedule!Placements
        /\ P(1, 1, 3) \in Lists!Schedule!Placements /\ P(2, 2, 1) \in Lists!Schedule!Placements
        /\ P(3, 2, 2) \in Lists!Schedule!Placements /\ P(2, 1, 1) \in Lists!Schedule!Placements
    BY <2>1
  <2>3. \E x, y, z, w \in Lists!Schedule!Placements : b = {x, y, z, w}
    <3>1. CASE b = {P(1, 1, 1), P(2, 1, 2), P(3, 2, 1), P(1, 2, 2)}
      BY <2>2, <3>1
    <3>2. CASE b = {P(1, 1, 3), P(2, 2, 1), P(3, 2, 2)}
      <4>1. b = {P(1, 1, 3), P(2, 2, 1), P(3, 2, 2), P(3, 2, 2)}
        BY <3>2
      <4> QED
        BY <2>2, <4>1
    <3>3. CASE b = {P(1, 1, 1), P(2, 1, 1), P(3, 2, 1)}
      <4>1. b = {P(1, 1, 1), P(2, 1, 1), P(3, 2, 1), P(3, 2, 1)}
        BY <3>3
      <4> QED
        BY <2>2, <4>1
    <3> QED
      BY <3>1, <3>2, <3>3 DEF Boards
  <2>4. PICK x, y, z, w \in Lists!Schedule!Placements : b = {x, y, z, w}
    BY <2>3
  <2>5. IsFiniteSet({x, y, z, w})
    BY <1>3
  <2> QED
    BY <2>4, <2>5
<1>6. ScheduleAnimes \subseteq Nat /\ ScheduleAnimes # {} /\ {1, 2} \subseteq Nat \ {0} /\ 4 \in Nat
  BY DEF ScheduleAnimes
<1> QED
  BY <1>1, <1>2, <1>4, <1>5, <1>6 DEF Lists!ScheduleAssumptions

LEMMA ScheduleMatches ==
  /\ Schedule!Init <=> Lists!Schedule!Init
  /\ Schedule!Next <=> Lists!Schedule!Next
<1>1. \A s, ks : Schedule!Without(s, ks) = Lists!Schedule!Without(s, ks)
  BY DEF
    Schedule!Without, Lists!Schedule!Without, Schedule!Newest, Lists!Schedule!Newest,
    Schedule!Cardinality, Lists!Schedule!Cardinality
<1>2. \A m, ks : Schedule!Removed(m, ks) = Lists!Schedule!Removed(m, ks)
  BY <1>1 DEF
    Schedule!Staging, Lists!Schedule!Staging, Schedule!Containers, Lists!Schedule!Containers,
    Schedule!Removed, Lists!Schedule!Removed
<1>3. \A r : Schedule!DraftOf(r) = Lists!Schedule!DraftOf(r)
  BY DEF
    Schedule!Staging, Lists!Schedule!Staging, Schedule!Containers, Lists!Schedule!Containers,
    Schedule!KeyAt, Lists!Schedule!KeyAt, Schedule!DraftOf, Lists!Schedule!DraftOf,
    Schedule!Cardinality, Lists!Schedule!Cardinality
<1>4. \A m, a : Schedule!PlacesIn(m, a) = Lists!Schedule!PlacesIn(m, a)
  BY DEF
    Schedule!PlacesIn, Lists!Schedule!PlacesIn
<1>5. Schedule!ApplyEntries = Lists!Schedule!ApplyEntries
  <2>1. Schedule!Staged = Lists!Schedule!Staged /\ Schedule!StagedAnimes = Lists!Schedule!StagedAnimes
    BY DEF Schedule!Staging, Lists!Schedule!Staging, Schedule!Staged, Lists!Schedule!Staged,
      Schedule!StagedAnimes,
      Lists!Schedule!StagedAnimes, Schedule!Range, Lists!Schedule!Range
  <2>2. PICK before : before = Schedule!Removed(Schedule!DraftOf(board), Schedule!Staged)
    OBVIOUS
  <2>3. before = Lists!Schedule!Removed(Lists!Schedule!DraftOf(board), Lists!Schedule!Staged)
    BY <1>2, <1>3, <2>1, <2>2
  <2>4. PICK changed : changed = {x \in DOMAIN board.entries :
                                    /\ Schedule!PlacesIn(before, x) # Schedule!PlacesIn(order, x)
                                    /\ Schedule!PlacesIn(order, x) = {}
                                          => x \notin Schedule!StagedAnimes}
    OBVIOUS
  <2>5. changed = {x \in DOMAIN board.entries :
                     /\ Lists!Schedule!PlacesIn(before, x) # Lists!Schedule!PlacesIn(order, x)
                     /\ Lists!Schedule!PlacesIn(order, x) = {} => x \notin Lists!Schedule!StagedAnimes}
    BY <1>4, <2>1, <2>4
  <2>6. PICK places : places = UNION {{[anime |-> x, day |-> q[1], order |-> q[2]] :
            q \in Schedule!PlacesIn(order, x)} : x \in changed}
    OBVIOUS
  <2>7. places = UNION {{[anime |-> x, day |-> q[1], order |-> q[2]] :
            q \in Lists!Schedule!PlacesIn(order, x)} : x \in changed}
    BY <1>4, <2>6
  <2>8. Schedule!ApplyEntries = [entries |-> [x \in changed |-> board.entries[x]],
            places |-> places, modifiedAt |-> board.modifiedAt, draft |-> order]
    BY <2>2, <2>4, <2>6 DEF Schedule!ApplyEntries
  <2>9. Lists!Schedule!ApplyEntries = [entries |-> [x \in changed |-> board.entries[x]],
            places |-> places, modifiedAt |-> board.modifiedAt, draft |-> order]
    BY <2>3, <2>5, <2>7 DEF Lists!Schedule!ApplyEntries
  <2> QED
    BY <2>8, <2>9
<1>6. \A s : Schedule!HasAnimeTwice(s) = Lists!Schedule!HasAnimeTwice(s)
  BY DEF
    Schedule!HasAnimeTwice, Lists!Schedule!HasAnimeTwice
<1>7. \A s, i, k : Schedule!InsertedAt(s, i, k) = Lists!Schedule!InsertedAt(s, i, k)
  BY DEF
    Schedule!InsertedAt, Lists!Schedule!InsertedAt
<1>8. Schedule!Init <=> Lists!Schedule!Init
  BY DEF
    Schedule!Staging, Lists!Schedule!Staging, Schedule!Containers, Lists!Schedule!Containers,
    Schedule!MaxOf, Lists!Schedule!MaxOf, Schedule!BoardModifiedAt,
    Lists!Schedule!BoardModifiedAt, Schedule!Precedes, Lists!Schedule!Precedes, Schedule!Column,
    Lists!Schedule!Column, Schedule!AnimesOf, Lists!Schedule!AnimesOf, Schedule!Active,
    Lists!Schedule!Active, Schedule!BoardRead, Lists!Schedule!BoardRead, Schedule!KeyAt,
    Lists!Schedule!KeyAt, Schedule!DraftOf, Lists!Schedule!DraftOf, Schedule!Init,
    Lists!Schedule!Init, Schedule!Cardinality, Lists!Schedule!Cardinality
<1>9. \A k, c, i : Schedule!Drag(k, c, i) <=> Lists!Schedule!Drag(k, c, i)
  BY <1>2, <1>6, <1>7 DEF
    Schedule!Staging, Lists!Schedule!Staging, Schedule!Settled, Lists!Schedule!Settled,
    Schedule!Drag, Lists!Schedule!Drag
<1>10. \A k : Schedule!RemoveCard(k) <=> Lists!Schedule!RemoveCard(k)
  BY DEF
    Schedule!Staging, Lists!Schedule!Staging, Schedule!Containers, Lists!Schedule!Containers,
    Schedule!Cards, Lists!Schedule!Cards, Schedule!CardsOf, Lists!Schedule!CardsOf,
    Schedule!Removed, Lists!Schedule!Removed, Schedule!Settled, Lists!Schedule!Settled,
    Schedule!RemoveCard, Lists!Schedule!RemoveCard, Schedule!Cardinality,
    Lists!Schedule!Cardinality, Schedule!Newest, Lists!Schedule!Newest, Schedule!Without,
    Lists!Schedule!Without, Schedule!Range, Lists!Schedule!Range
<1>11. \A a : Schedule!Duplicate(a) <=> Lists!Schedule!Duplicate(a)
  BY DEF
    Schedule!Staging, Lists!Schedule!Staging, Schedule!Containers, Lists!Schedule!Containers,
    Schedule!Cards, Lists!Schedule!Cards, Schedule!CardsOf, Lists!Schedule!CardsOf,
    Schedule!Settled, Lists!Schedule!Settled, Schedule!Duplicate, Lists!Schedule!Duplicate,
    Schedule!Cardinality, Lists!Schedule!Cardinality, Schedule!Range, Lists!Schedule!Range
<1>12. \A a : Schedule!Toggle(a) <=> Lists!Schedule!Toggle(a)
  BY DEF
    Schedule!MaxOf, Lists!Schedule!MaxOf, Schedule!Stamp, Lists!Schedule!Stamp, Schedule!Toggle,
    Lists!Schedule!Toggle
<1>13. Schedule!OpenSchedule <=> Lists!Schedule!OpenSchedule
  BY <1>3 DEF
    Schedule!MaxOf, Lists!Schedule!MaxOf, Schedule!BoardModifiedAt,
    Lists!Schedule!BoardModifiedAt, Schedule!Precedes, Lists!Schedule!Precedes, Schedule!Column,
    Lists!Schedule!Column, Schedule!AnimesOf, Lists!Schedule!AnimesOf, Schedule!Active,
    Lists!Schedule!Active, Schedule!BoardRead, Lists!Schedule!BoardRead, Schedule!OpenSchedule,
    Lists!Schedule!OpenSchedule, Schedule!Cardinality, Lists!Schedule!Cardinality
<1>14. Schedule!Apply <=> Lists!Schedule!Apply
  BY <1>5 DEF
    Schedule!Apply, Lists!Schedule!Apply
<1>15. Schedule!AnswerThrown <=> Lists!Schedule!AnswerThrown
  BY DEF
    Schedule!AnswerThrown, Lists!Schedule!AnswerThrown
<1>16. Schedule!Answer <=> Lists!Schedule!Answer
  BY DEF
    Schedule!Staging, Lists!Schedule!Staging, Schedule!Containers, Lists!Schedule!Containers,
    Schedule!MaxOf, Lists!Schedule!MaxOf, Schedule!Stamp, Lists!Schedule!Stamp,
    Schedule!BoardModifiedAt, Lists!Schedule!BoardModifiedAt, Schedule!Precedes,
    Lists!Schedule!Precedes, Schedule!Column, Lists!Schedule!Column, Schedule!AnimesOf,
    Lists!Schedule!AnimesOf, Schedule!Active, Lists!Schedule!Active, Schedule!BoardRead,
    Lists!Schedule!BoardRead, Schedule!KeyAt, Lists!Schedule!KeyAt, Schedule!DraftOf,
    Lists!Schedule!DraftOf, Schedule!Changed, Lists!Schedule!Changed, Schedule!Desired,
    Lists!Schedule!Desired, Schedule!Submitted, Lists!Schedule!Submitted, Schedule!Affected,
    Lists!Schedule!Affected, Schedule!Collides, Lists!Schedule!Collides, Schedule!Reflowed,
    Lists!Schedule!Reflowed, Schedule!Insertions, Lists!Schedule!Insertions, Schedule!Merged,
    Lists!Schedule!Merged, Schedule!Normalized, Lists!Schedule!Normalized, Schedule!IsContiguous,
    Lists!Schedule!IsContiguous, Schedule!Refused, Lists!Schedule!Refused, Schedule!IsStale,
    Lists!Schedule!IsStale, Schedule!Answer, Lists!Schedule!Answer, Schedule!Cardinality,
    Lists!Schedule!Cardinality, Schedule!InsertedAt, Lists!Schedule!InsertedAt
<1> QED
  BY <1>8, <1>9, <1>10, <1>11, <1>12, <1>13, <1>14, <1>15, <1>16 DEF
    Schedule!Staging, Lists!Schedule!Staging, Schedule!Cards, Lists!Schedule!Cards,
    Schedule!Containers, Lists!Schedule!Containers, Schedule!Range, Lists!Schedule!Range,
    Schedule!Answered, Lists!Schedule!Answered, Schedule!Next, Lists!Schedule!Next

LEMMA ScheduleKept == (Init => ScheduleInv) /\ (ScheduleInv /\ [Next]_vars => ScheduleInv')
BY ScheduleConstants, ScreenRuns, ScheduleMatches, Lists!ScheduleInit, Lists!ScheduleStep
  DEF ScheduleInv

LEMMA SchedulePromises ==
  Lists!Schedule!AppliedIsTheDraft /\ Lists!Schedule!DraftsAreTaken
  => Schedule!AppliedIsTheDraft /\ Schedule!DraftsAreTaken
BY DEF
  Schedule!Staging, Lists!Schedule!Staging, Schedule!Applied, Lists!Schedule!Applied,
  Schedule!NothingParked, Lists!Schedule!NothingParked, Schedule!Seen, Lists!Schedule!Seen,
  Schedule!KeptParked, Lists!Schedule!KeptParked, Schedule!AppliedIsTheDraft,
  Lists!Schedule!AppliedIsTheDraft, Schedule!DraftsAreTaken, Lists!Schedule!DraftsAreTaken,
  Schedule!Cardinality, Lists!Schedule!Cardinality, Schedule!Newest, Lists!Schedule!Newest,
  Schedule!Without, Lists!Schedule!Without, Schedule!Range, Lists!Schedule!Range,
  Schedule!InsertedAt, Lists!Schedule!InsertedAt

-----------------------------------------------------------------------------
(* The page of an anime                                                    *)

DetailInv == screen = "detail" => DetailProofs!PageInv

LEMMA DetailConstants == DetailProofs!BoundsAssumption
BY DEF DetailProofs!BoundsAssumption

LEMMA DetailMatches ==
  /\ Detail!Init <=> DetailProofs!Init
  /\ Detail!Next <=> DetailProofs!Next
BY DEF
  Detail!Outcomes, DetailProofs!Outcomes, Detail!Feedbacks, DetailProofs!Feedbacks,
  Detail!NoMutation, DetailProofs!NoMutation, Detail!Call, DetailProofs!Call, Detail!Init,
  DetailProofs!Init, Detail!VisibleVersion, DetailProofs!VisibleVersion, Detail!OfThisVisit,
  DetailProofs!OfThisVisit, Detail!Confirming, DetailProofs!Confirming, Detail!Mutating,
  DetailProofs!Mutating, Detail!IsActive, DetailProofs!IsActive, Detail!Ask, DetailProofs!Ask,
  Detail!Visit, DetailProofs!Visit, Detail!RequestAction, DetailProofs!RequestAction,
  Detail!CancelAction, DetailProofs!CancelAction, Detail!ConfirmAction,
  DetailProofs!ConfirmAction, Detail!ServeRead, DetailProofs!ServeRead, Detail!ServeMutation,
  DetailProofs!ServeMutation, Detail!OtherWrite, DetailProofs!OtherWrite, Detail!Loaded,
  DetailProofs!Loaded, Detail!Mutated, DetailProofs!Mutated, Detail!Refreshed,
  DetailProofs!Refreshed, Detail!Answer, DetailProofs!Answer, Detail!Next, DetailProofs!Next

LEMMA DetailKept == (Init => DetailInv) /\ (DetailInv /\ [Next]_vars => DetailInv')
BY DetailConstants, ScreenRuns, DetailMatches, DetailProofs!PageInit, DetailProofs!PageStep
  DEF DetailInv

LEMMA DetailPromises == DetailProofs!FeedbackIsHonest => Detail!FeedbackIsHonest
BY DEF
  Detail!Feedbacks, DetailProofs!Feedbacks, Detail!OfThisVisit, DetailProofs!OfThisVisit,
  Detail!Mutating, DetailProofs!Mutating, Detail!Feedback, DetailProofs!Feedback,
  Detail!FeedbackIsHonest, DetailProofs!FeedbackIsHonest

LEMMA PromiseInits == Detail!Promise!Init <=> DetailProofs!Promise!Init
BY DEF Detail!Promise!Init, DetailProofs!Promise!Init, Detail!VisibleVersion, DetailProofs!VisibleVersion

LEMMA PromiseSteps == Detail!Promise!Next <=> DetailProofs!Promise!Next
BY DEF
  Detail!Promise!WasStored, DetailProofs!Promise!WasStored, Detail!Promise!Visit,
  DetailProofs!Promise!Visit, Detail!Promise!Show, DetailProofs!Promise!Show,
  Detail!Promise!Confirm, DetailProofs!Promise!Confirm, Detail!Promise!Decide,
  DetailProofs!Promise!Decide, Detail!Promise!OtherWrite, DetailProofs!Promise!OtherWrite,
  Detail!Promise!Next, DetailProofs!Promise!Next, Detail!VisibleVersion,
  DetailProofs!VisibleVersion

-----------------------------------------------------------------------------
(* The lists of watched episodes                                           *)

WatchInv == screen = "watch" => Panels!WatchInv

\* A log is a sequence of its rows.
LEMMA LogsAreSequences ==
  ASSUME NEW t, NEW R, R = {t[j] : j \in 1..Len(t)}, t = <<>> \/ t = <<34, 45>> \/ t = <<11, 12, 23>>
  PROVE  t \in Seq(R)
<1>1. CASE t = <<>>
  BY <1>1
<1>2. CASE t = <<34, 45>>
  <2>1. Len(t) = 2 /\ t[1] = 34 /\ t[2] = 45
    BY <1>2
  <2>2. 34 \in R /\ 45 \in R
    BY <2>1
  <2> QED
    BY <1>2, <2>2
<1>3. CASE t = <<11, 12, 23>>
  <2>1. Len(t) = 3 /\ t[1] = 11 /\ t[2] = 12 /\ t[3] = 23
    BY <1>3
  <2>2. 11 \in R /\ 12 \in R /\ 23 \in R
    BY <2>1
  <2> QED
    BY <1>3, <2>2
<1> QED
  BY <1>1, <1>2, <1>3

LEMMA WatchConstants == Panels!PagesAssumptions
<1>1. ASSUME NEW s \in WatchScopes PROVE WatchLog[s] \in Seq(Panels!RowsOf(s))
  BY LogsAreSequences DEF WatchScopes, WatchLog, Panels!RowsOf
<1> QED
  BY <1>1 DEF Panels!PagesAssumptions

LEMMA WatchMatches ==
  /\ Watch!Init <=> Panels!Watch!Init
  /\ Watch!Next <=> Panels!Watch!Next
BY DEF
  Watch!pageVars, Panels!Watch!pageVars, Watch!NoCursor, Panels!Watch!NoCursor, Watch!InFlight,
  Panels!Watch!InFlight, Watch!Copies, Panels!Watch!Copies, Watch!OfThisGeneration,
  Panels!Watch!OfThisGeneration, Watch!Page, Panels!Watch!Page, Watch!CursorPast,
  Panels!Watch!CursorPast, Watch!PagesEmpty, Panels!Watch!PagesEmpty, Watch!Ask,
  Panels!Watch!Ask, Watch!Forget, Panels!Watch!Forget, Watch!FetchNextPage,
  Panels!Watch!FetchNextPage, Watch!Taken, Panels!Watch!Taken, Watch!SupersededAnswer,
  Panels!Watch!SupersededAnswer, Watch!FailedAnswer, Panels!Watch!FailedAnswer,
  Watch!PageAnswer, Panels!Watch!PageAnswer, Watch!Init, Panels!Watch!Init, Watch!StartOver,
  Panels!Watch!StartOver, Watch!Expand, Panels!Watch!Expand, Watch!Collapse,
  Panels!Watch!Collapse, Watch!ChangeScope, Panels!Watch!ChangeScope, Watch!Scroll,
  Panels!Watch!Scroll, Watch!Answer, Panels!Watch!Answer, Watch!Next, Panels!Watch!Next,
  Watch!Cardinality, Panels!Watch!Cardinality

LEMMA WatchKept == (Init => WatchInv) /\ (WatchInv /\ [Next]_vars => WatchInv')
BY WatchConstants, ScreenRuns, WatchMatches, Panels!WatchInit, Panels!WatchStepKeepsInv DEF WatchInv

LEMMA WatchPromises == Panels!Watch!ShownIsPrefix => Watch!ShownIsPrefix
BY DEF
  Watch!ShownIsPrefix, Panels!Watch!ShownIsPrefix, Watch!Cardinality, Panels!Watch!Cardinality

HistoryInv == screen = "history" => OtherPanels!HistoryInv

LEMMA HistoryConstants == OtherPanels!PagesAssumptions /\ OtherPanels!DaysFollow
<1>1. ASSUME NEW s \in HistoryScopes PROVE HistoryLog[s] \in Seq(OtherPanels!RowsOf(s))
  BY LogsAreSequences DEF HistoryScopes, HistoryLog, WatchScopes, WatchLog, OtherPanels!RowsOf
<1>2. OtherPanels!DaysFollow
  BY DEF HistoryScopes, HistoryLog, WatchScopes, WatchLog, OtherPanels!DaysFollow, DayOf
<1> QED
  BY <1>1, <1>2 DEF OtherPanels!PagesAssumptions

LEMMA HistoryMatches ==
  /\ History!Init <=> OtherPanels!History!Init
  /\ History!Next <=> OtherPanels!History!Next
BY DEF
  History!pageVars, OtherPanels!History!pageVars, History!NoCursor,
  OtherPanels!History!NoCursor, History!InFlight, OtherPanels!History!InFlight, History!Copies,
  OtherPanels!History!Copies, History!OfThisGeneration, OtherPanels!History!OfThisGeneration,
  History!Page, OtherPanels!History!Page, History!CursorPast, OtherPanels!History!CursorPast,
  History!PagesEmpty, OtherPanels!History!PagesEmpty, History!Ask, OtherPanels!History!Ask,
  History!Forget, OtherPanels!History!Forget, History!FetchNextPage,
  OtherPanels!History!FetchNextPage, History!Taken, OtherPanels!History!Taken,
  History!SupersededAnswer, OtherPanels!History!SupersededAnswer, History!FailedAnswer,
  OtherPanels!History!FailedAnswer, History!PageAnswer, OtherPanels!History!PageAnswer,
  History!Init, OtherPanels!History!Init, History!StartOver, OtherPanels!History!StartOver,
  History!CatalogLoads, OtherPanels!History!CatalogLoads, History!CatalogFails,
  OtherPanels!History!CatalogFails, History!ChangeFilters, OtherPanels!History!ChangeFilters,
  History!Scroll, OtherPanels!History!Scroll, History!Answer, OtherPanels!History!Answer,
  History!Next, OtherPanels!History!Next, History!Cardinality, OtherPanels!History!Cardinality

LEMMA HistoryKept == (Init => HistoryInv) /\ (HistoryInv /\ [Next]_vars => HistoryInv')
BY HistoryConstants, ScreenRuns, HistoryMatches, OtherPanels!HistoryInit,
  OtherPanels!HistoryStepKeepsInv DEF HistoryInv

LEMMA HistoryPromises ==
  OtherPanels!History!ShownIsPrefix /\ OtherPanels!History!DaysAreComplete
  => History!ShownIsPrefix /\ History!DaysAreComplete
BY DEF
  History!ShownIsPrefix, OtherPanels!History!ShownIsPrefix, History!StartsDay,
  OtherPanels!History!StartsDay, History!DayGroups, OtherPanels!History!DayGroups,
  History!IsPartial, OtherPanels!History!IsPartial, History!DaysAreComplete,
  OtherPanels!History!DaysAreComplete, History!Cardinality, OtherPanels!History!Cardinality

-----------------------------------------------------------------------------
(* The activity feed                                                       *)

FeedInv == screen = "feed" => Lists!FeedInv

LEMMA FeedConstants == Lists!FeedAssumptions
<1>1. Lists!Feed!Queries = Feed!Queries
  BY DEF Lists!Feed!Queries, Feed!Queries
<1>2. PlaceMs[1] = 1 /\ PlaceMs[2] = 2 /\ PlaceMs[3] = 3 /\ PlaceMs[4] = 3 /\ PlaceMs[5] = 4
  BY DEF PlaceMs
<1>3. \A p \in 1..5 : p = 1 \/ p = 2 \/ p = 3 \/ p = 4 \/ p = 5
  OBVIOUS
<1>4. \A p \in 1..5 : PlaceMs[p] \in Nat
  BY <1>2, <1>3
<1>5. \A p, r \in 1..5 : p <= r => PlaceMs[p] <= PlaceMs[r]
  BY <1>2, <1>3
<1> QED
  BY <1>1, <1>4, <1>5, FrontendAssumption DEF Lists!FeedAssumptions

LEMMA FeedMatches ==
  /\ Feed!Init <=> Lists!Feed!Init
  /\ Feed!Next <=> Lists!Feed!Next
<1>1. Feed!Init <=> Lists!Feed!Init
  BY DEF
    Feed!Init, Lists!Feed!Init
<1>2. \A q : Feed!LoadFirstPage(q) <=> Lists!Feed!LoadFirstPage(q)
  BY DEF
    Feed!reads, Lists!Feed!reads, Feed!history, Lists!Feed!history, Feed!added,
    Lists!Feed!added, Feed!Call, Lists!Feed!Call, Feed!Ask, Lists!Feed!Ask,
    Feed!LoadFirstPage, Lists!Feed!LoadFirstPage
<1>3. Feed!LoadOlderPage <=> Lists!Feed!LoadOlderPage
  BY DEF
    Feed!history, Lists!Feed!history, Feed!added, Lists!Feed!added, Feed!Call,
    Lists!Feed!Call, Feed!Ask, Lists!Feed!Ask, Feed!LoadOlderPage, Lists!Feed!LoadOlderPage
<1>4. Feed!Record <=> Lists!Feed!Record
  BY DEF
    Feed!reads, Lists!Feed!reads, Feed!feed, Lists!Feed!feed, Feed!history,
    Lists!Feed!history, Feed!added, Lists!Feed!added, Feed!Range, Lists!Feed!Range,
    Feed!Passed, Lists!Feed!Passed, Feed!OwnLine, Lists!Feed!OwnLine, Feed!GroupMoves,
    Lists!Feed!GroupMoves, Feed!Record, Lists!Feed!Record
<1>5. Feed!RefreshLive <=> Lists!Feed!RefreshLive
  BY DEF
    Feed!reads, Lists!Feed!reads, Feed!feed, Lists!Feed!feed, Feed!history,
    Lists!Feed!history, Feed!added, Lists!Feed!added, Feed!Call, Lists!Feed!Call, Feed!Ask,
    Lists!Feed!Ask, Feed!RefreshLive, Lists!Feed!RefreshLive
<1>6. \A c, ok : Feed!Serve(c, ok) <=> Lists!Feed!Serve(c, ok)
  BY DEF
    Feed!feed, Lists!Feed!feed, Feed!history, Lists!Feed!history, Feed!added,
    Lists!Feed!added, Feed!OfQuery, Lists!Feed!OfQuery, Feed!Matching, Lists!Feed!Matching,
    Feed!Cardinality, Lists!Feed!Cardinality, Feed!Newest, Lists!Feed!Newest, Feed!Serve,
    Lists!Feed!Serve
<1>7. \A c : Feed!FirstPageShown(c) <=> Lists!Feed!FirstPageShown(c)
  BY DEF
    Feed!history, Lists!Feed!history, Feed!added, Lists!Feed!added, Feed!IsLatest,
    Lists!Feed!IsLatest, Feed!Took, Lists!Feed!Took, Feed!FirstPageShown,
    Lists!Feed!FirstPageShown
<1>8. \A c : Feed!OlderPageShown(c) <=> Lists!Feed!OlderPageShown(c)
  BY DEF
    Feed!added, Lists!Feed!added, Feed!Merge, Lists!Feed!Merge, Feed!IsLatest,
    Lists!Feed!IsLatest, Feed!OlderPageShown, Lists!Feed!OlderPageShown, Feed!Cardinality,
    Lists!Feed!Cardinality, Feed!Newest, Lists!Feed!Newest, Feed!Without,
    Lists!Feed!Without, Feed!Range, Lists!Feed!Range
<1>9. \A s, ks : Feed!Without(s, ks) = Lists!Feed!Without(s, ks)
  BY DEF
    Feed!Without, Lists!Feed!Without, Feed!Newest, Lists!Feed!Newest, Feed!Cardinality,
    Lists!Feed!Cardinality
<1>10. \A s : Feed!Range(s) = Lists!Feed!Range(s)
  BY DEF Feed!Range, Lists!Feed!Range
<1>11. \A u, l : Feed!Merge(u, l) = Lists!Feed!Merge(u, l)
  BY <1>9, <1>10 DEF Feed!Merge, Lists!Feed!Merge
<1>12. \A c : Feed!Took(c) <=> Lists!Feed!Took(c)
  BY DEF Feed!Took, Lists!Feed!Took
<1>13. \A c : Feed!IsLatest(c) <=> Lists!Feed!IsLatest(c)
  BY DEF Feed!IsLatest, Lists!Feed!IsLatest
<1>14. \A c : Feed!LivePageShown(c) <=> Lists!Feed!LivePageShown(c)
  BY SMTT(60), <1>9, <1>11, <1>12, <1>13 DEF
    Feed!history, Lists!Feed!history, Feed!added, Lists!Feed!added, Feed!Range,
    Lists!Feed!Range, Feed!LivePageShown, Lists!Feed!LivePageShown
<1> QED
  BY <1>1, <1>2, <1>3, <1>4, <1>5, <1>6, <1>7, <1>8, <1>14 DEF
    Feed!Queries, Lists!Feed!Queries, Feed!Answer, Lists!Feed!Answer, Feed!Next, Lists!Feed!Next

LEMMA FeedKept == (Init => FeedInv) /\ (FeedInv /\ [Next]_vars => FeedInv')
BY FeedConstants, ScreenRuns, FeedMatches, Lists!FeedInit, Lists!FeedStepKeepsInv DEF FeedInv

LEMMA FeedPromises ==
  Lists!Feed!ShownIsPrefix /\ Lists!Feed!FeedSettles
  => Feed!ShownIsPrefix /\ Feed!FeedSettles
BY DEF
  Feed!Matching, Lists!Feed!Matching, Feed!OfQuery, Lists!Feed!OfQuery, Feed!Covered,
  Lists!Feed!Covered, Feed!Cut, Lists!Feed!Cut, Feed!ShownIsPrefix, Lists!Feed!ShownIsPrefix,
  Feed!FeedSettles, Lists!Feed!FeedSettles, Feed!Cardinality, Lists!Feed!Cardinality,
  Feed!Newest, Lists!Feed!Newest, Feed!Without, Lists!Feed!Without, Feed!Range, Lists!Feed!Range

-----------------------------------------------------------------------------
(* The shortcuts                                                           *)

KeymapInv == screen = "keymap" => Panels!KeymapWhole

LEMMA KeymapConstants == Panels!KeymapAssumptions
<1>1. Panels!Keymap!Scopes = {"feed"}
  BY DEF Panels!Keymap!Scopes, Commands
<1>2. Panels!IsFiniteSet(Panels!Keymap!Scopes)
  BY <1>1, FS_Singleton, Zenon DEF IsFiniteSet, Panels!IsFiniteSet
<1>3. \A c, d \in Commands : ~Panels!Shares(Panels!Keymap!Nothing, c, d)
  BY DEF Panels!Shares, Panels!Keymap!Nothing, Panels!Keymap!Effective, Commands, ShippedChord
<1>4. ASSUME NEW o \in Documents PROVE o \in Panels!Keymap!Documents
  BY DEF Documents, Panels!Keymap!Documents, Commands, Chords
<1> QED
  BY <1>2, <1>3, <1>4 DEF Panels!KeymapAssumptions

LEMMA KeymapMatches ==
  /\ Keymap!Init <=> Panels!Keymap!Init
  /\ Keymap!Next <=> Panels!Keymap!Next
BY DEF
  Keymap!past, Panels!Keymap!past, Keymap!Nothing, Panels!Keymap!Nothing, Keymap!Effective,
  Panels!Keymap!Effective, Keymap!Collides, Panels!Keymap!Collides, Keymap!Clashes,
  Panels!Keymap!Clashes, Keymap!Prune,
  Panels!Keymap!Prune, Keymap!Call, Panels!Keymap!Call, Keymap!Send, Panels!Keymap!Send,
  Keymap!Init, Panels!Keymap!Init, Keymap!Usable, Panels!Keymap!Usable, Keymap!Rebind,
  Panels!Keymap!Rebind, Keymap!Revert, Panels!Keymap!Revert, Keymap!Reset, Panels!Keymap!Reset,
  Keymap!Reopen, Panels!Keymap!Reopen, Keymap!Import, Panels!Keymap!Import, Keymap!Step,
  Panels!Keymap!Step, Keymap!ServeLoad, Panels!Keymap!ServeLoad, Keymap!ServeWrite,
  Panels!Keymap!ServeWrite, Keymap!Loaded, Panels!Keymap!Loaded, Keymap!Saved,
  Panels!Keymap!Saved, Keymap!Imported, Panels!Keymap!Imported, Keymap!Next, Panels!Keymap!Next

LEMMA KeymapKept == (Init => KeymapInv) /\ (KeymapInv /\ [Next]_vars => KeymapInv')
BY KeymapConstants, ScreenRuns, KeymapMatches, Panels!KeymapWholeInit,
  Panels!KeymapStepKeepsWhole DEF KeymapInv

LEMMA KeymapPromises == Panels!Keymap!CommandsAnswer => Keymap!CommandsAnswer
BY DEF
  Keymap!Scopes, Panels!Keymap!Scopes, Keymap!Stacks, Panels!Keymap!Stacks, Keymap!Effective,
  Panels!Keymap!Effective, Keymap!Resolve, Panels!Keymap!Resolve, Keymap!CommandsAnswer,
  Panels!Keymap!CommandsAnswer,
  Keymap!Cardinality, Panels!Keymap!Cardinality, Keymap!IsInjective, Panels!Keymap!IsInjective

-----------------------------------------------------------------------------
(* The library root and the metadata lookup                                *)

LibraryInv == screen = "root" => Panels!LibraryWhole

LEMMA LibraryConstants == Panels!LibraryAssumptions
BY DEF Panels!LibraryAssumptions

LEMMA LibraryMatches ==
  /\ Library!Init <=> Panels!Library!Init
  /\ Library!Next <=> Panels!Library!Next
BY DEF
  Library!stores, Panels!Library!stores, Library!panel, Panels!Library!panel, Library!past,
  Panels!Library!past, Library!Texts, Panels!Library!Texts, Library!Call, Panels!Library!Call,
  Library!Send, Panels!Library!Send, Library!Step, Panels!Library!Step, Library!Init,
  Panels!Library!Init, Library!Moves, Panels!Library!Moves, Library!Type, Panels!Library!Type,
  Library!Save, Panels!Library!Save, Library!Confirm, Panels!Library!Confirm, Library!Cancel,
  Panels!Library!Cancel, Library!Reopen, Panels!Library!Reopen, Library!OtherWrite,
  Panels!Library!OtherWrite, Library!ServeRead, Panels!Library!ServeRead, Library!Plan,
  Panels!Library!Plan, Library!MoveOne, Panels!Library!MoveOne, Library!Store,
  Panels!Library!Store, Library!Gone, Panels!Library!Gone, Library!LoadArrives,
  Panels!Library!LoadArrives, Library!PreviewArrives, Panels!Library!PreviewArrives,
  Library!SetArrives, Panels!Library!SetArrives, Library!Next, Panels!Library!Next

LEMMA LibraryKept == (Init => LibraryInv) /\ (LibraryInv /\ [Next]_vars => LibraryInv')
BY LibraryConstants, ScreenRuns, LibraryMatches, Panels!LibraryWholeInit,
  Panels!LibraryStepKeepsWhole DEF LibraryInv

LEMMA LibraryPromises ==
  Panels!Library!MovesAreConfirmed /\ Panels!Library!NobodyIsStranded
  => Library!MovesAreConfirmed /\ Library!NobodyIsStranded
BY DEF
  Library!MovesAreConfirmed, Panels!Library!MovesAreConfirmed, Library!NobodyIsStranded,
  Panels!Library!NobodyIsStranded

LookupInv == screen = "lookup" => Panels!LookupWhole

LEMMA LookupConstants == Panels!LookupAssumptions
BY FrontendAssumption DEF Panels!LookupAssumptions, Queries

LEMMA LookupMatches ==
  /\ Lookup!Init <=> Panels!Lookup!Init
  /\ Lookup!Next <=> Panels!Lookup!Next
BY DEF
  Lookup!past, Panels!Lookup!past, Lookup!Idle, Panels!Lookup!Idle, Lookup!Results,
  Panels!Lookup!Results, Lookup!Init, Panels!Lookup!Init, Lookup!Open, Panels!Lookup!Open,
  Lookup!Close, Panels!Lookup!Close, Lookup!Type, Panels!Lookup!Type, Lookup!Highlight,
  Panels!Lookup!Highlight, Lookup!Confirm, Panels!Lookup!Confirm, Lookup!SearchFor,
  Panels!Lookup!SearchFor, Lookup!TimerFires, Panels!Lookup!TimerFires, Lookup!SearchAnswers,
  Panels!Lookup!SearchAnswers, Lookup!DetailAnswers, Panels!Lookup!DetailAnswers,
  Lookup!Outcomes, Panels!Lookup!Outcomes, Lookup!Next, Panels!Lookup!Next

LEMMA LookupKept == (Init => LookupInv) /\ (LookupInv /\ [Next]_vars => LookupInv')
BY LookupConstants, ScreenRuns, LookupMatches, Panels!LookupWholeInit,
  Panels!LookupStepKeepsWhole DEF LookupInv

LEMMA LookupPromises == Panels!Lookup!HighlightedIsShown => Lookup!HighlightedIsShown
BY DEF
  Lookup!Results, Panels!Lookup!Results, Lookup!HighlightedIsShown,
  Panels!Lookup!HighlightedIsShown

-----------------------------------------------------------------------------
(* The season, the runs and the editor                                     *)

SeasonInv == screen = "season" => BoardProofs!SeasonInv

LEMMA SeasonConstants == BoardProofs!SeasonAssumptions
<1>1. BoardProofs!IsFiniteSet(Rows) = IsFiniteSet(Rows)
  BY DEF IsFiniteSet, BoardProofs!IsFiniteSet
<1> QED
  BY <1>1, FrontendAssumption DEF BoardProofs!SeasonAssumptions

LEMMA SeasonMatches ==
  /\ Season!Init <=> BoardProofs!Season!Init
  /\ Season!Next <=> BoardProofs!Season!Next
BY DEF
  Season!backend, BoardProofs!Season!backend, Season!shown, BoardProofs!Season!shown,
  Season!SeasonOf, BoardProofs!Season!SeasonOf, Season!RowsOf, BoardProofs!Season!RowsOf,
  Season!OldGrade, BoardProofs!Season!OldGrade, Season!Init, BoardProofs!Season!Init,
  Season!Call, BoardProofs!Season!Call, Season!Ask, BoardProofs!Season!Ask, Season!UserAsks,
  BoardProofs!Season!UserAsks, Season!Refresh, BoardProofs!Season!Refresh, Season!EnsureAnimes,
  BoardProofs!Season!EnsureAnimes, Season!RefreshAnimes, BoardProofs!Season!RefreshAnimes,
  Season!ViewPast, BoardProofs!Season!ViewPast, Season!ExitPast, BoardProofs!Season!ExitPast,
  Season!SetGrade, BoardProofs!Season!SetGrade, Season!ResolveMatch,
  BoardProofs!Season!ResolveMatch, Season!Serve, BoardProofs!Season!Serve, Season!Overlaps,
  BoardProofs!Season!Overlaps, Season!SeasonArrives, BoardProofs!Season!SeasonArrives,
  Season!PastArrives, BoardProofs!Season!PastArrives, Season!GradeSet,
  BoardProofs!Season!GradeSet, Season!AnimesArrive, BoardProofs!Season!AnimesArrive,
  Season!Resolved, BoardProofs!Season!Resolved, Season!RunMatching,
  BoardProofs!Season!RunMatching, Season!MatchRow, BoardProofs!Season!MatchRow,
  Season!MatchingOver, BoardProofs!Season!MatchingOver, Season!Hear, BoardProofs!Season!Hear,
  Season!ClosePanel, BoardProofs!Season!ClosePanel, Season!OpenPanel,
  BoardProofs!Season!OpenPanel, Season!Answer, BoardProofs!Season!Answer, Season!Next,
  BoardProofs!Season!Next, Season!Cardinality, BoardProofs!Season!Cardinality

LEMMA SeasonKept == (Init => SeasonInv) /\ (SeasonInv /\ [Next]_vars => SeasonInv')
BY SeasonConstants, ScreenRuns, SeasonMatches, BoardProofs!SeasonInit,
  BoardProofs!SeasonStepKeepsInv DEF SeasonInv

LEMMA SeasonPromises ==
  BoardProofs!Season!ShowsWhatIsViewed /\ BoardProofs!Season!SeasonSettles
  => Season!ShowsWhatIsViewed /\ Season!SeasonSettles
BY DEF
  Season!ShowsWhatIsViewed, BoardProofs!Season!ShowsWhatIsViewed, Season!SeasonSettles,
  BoardProofs!Season!SeasonSettles, Season!Cardinality, BoardProofs!Season!Cardinality

RunsInv == screen = "runs" => BoardProofs!RunsSettled

LEMMA RunsConstants == BoardProofs!RunsAssumptions
<1>1. <<"problem">> \in Seq(BoardProofs!Runs!Statuses) /\ Len(<<"problem">>) = 1
  BY DEF BoardProofs!Runs!Statuses
<1>2. BoardProofs!Runs!Statuses = Runs!Statuses
  BY DEF BoardProofs!Runs!Statuses, Runs!Statuses
<1> QED
  BY <1>1, <1>2, FrontendAssumption DEF BoardProofs!RunsAssumptions, BoardProofs!ListReads,
    BoardProofs!StoryReads

LEMMA RunsMatches ==
  /\ Runs!Init <=> BoardProofs!Runs!Init
  /\ Runs!Next <=> BoardProofs!Runs!Next
BY DEF
  Runs!backend, BoardProofs!Runs!backend, Runs!store, BoardProofs!Runs!store, Runs!panel,
  BoardProofs!Runs!panel, Runs!story, BoardProofs!Runs!story, Runs!stop, BoardProofs!Runs!stop,
  Runs!Newest, BoardProofs!Runs!Newest, Runs!Listed, BoardProofs!Runs!Listed, Runs!RunningIn,
  BoardProofs!Runs!RunningIn, Runs!SelectedIn, BoardProofs!Runs!SelectedIn, Runs!Shown,
  BoardProofs!Runs!Shown, Runs!IsStopping, BoardProofs!Runs!IsStopping, Runs!Entry,
  BoardProofs!Runs!Entry, Runs!Story, BoardProofs!Runs!Story, Runs!ListRead,
  BoardProofs!Runs!ListRead, Runs!Init, BoardProofs!Runs!Init, Runs!ReconciledAlone,
  BoardProofs!Runs!ReconciledAlone, Runs!Reconciled, BoardProofs!Runs!Reconciled,
  Runs!ListEffect, BoardProofs!Runs!ListEffect, Runs!StoryEffect, BoardProofs!Runs!StoryEffect,
  Runs!Log, BoardProofs!Runs!Log, Runs!RunStarts, BoardProofs!Runs!RunStarts,
  Runs!RunProgresses, BoardProofs!Runs!RunProgresses, Runs!RunFinishes,
  BoardProofs!Runs!RunFinishes, Runs!Persist, BoardProofs!Runs!Persist, Runs!ServeStop,
  BoardProofs!Runs!ServeStop, Runs!ServeList, BoardProofs!Runs!ServeList, Runs!ServeStory,
  BoardProofs!Runs!ServeStory, Runs!EventHeard, BoardProofs!Runs!EventHeard, Runs!ListArrives,
  BoardProofs!Runs!ListArrives, Runs!NoticeHeard, BoardProofs!Runs!NoticeHeard,
  Runs!StoryArrives, BoardProofs!Runs!StoryArrives, Runs!SelectRun, BoardProofs!Runs!SelectRun,
  Runs!ToggleProblems, BoardProofs!Runs!ToggleProblems, Runs!LoadMore,
  BoardProofs!Runs!LoadMore, Runs!CancelRun, BoardProofs!Runs!CancelRun, Runs!StopAnswered,
  BoardProofs!Runs!StopAnswered, Runs!Arrives, BoardProofs!Runs!Arrives, Runs!Next,
  BoardProofs!Runs!Next, Runs!Max, BoardProofs!Runs!Max, Runs!Min, BoardProofs!Runs!Min,
  Runs!Cardinality, BoardProofs!Runs!Cardinality

LEMMA RunsKept == (Init => RunsInv) /\ (RunsInv /\ [Next]_vars => RunsInv')
BY RunsConstants, ScreenRuns, RunsMatches, BoardProofs!RunsSettledInit,
  BoardProofs!RunsStepKeepsSettled DEF RunsInv

LEMMA RunsPromises == BoardProofs!Runs!SelectedIsVisible => Runs!SelectedIsVisible
BY DEF
  Runs!Newest, BoardProofs!Runs!Newest, Runs!Listed, BoardProofs!Runs!Listed, Runs!SelectedIn,
  BoardProofs!Runs!SelectedIn, Runs!Shown, BoardProofs!Runs!Shown, Runs!SelectedIsVisible,
  BoardProofs!Runs!SelectedIsVisible, Runs!Max, BoardProofs!Runs!Max, Runs!Min,
  BoardProofs!Runs!Min, Runs!Cardinality, BoardProofs!Runs!Cardinality

EditorInv == screen = "editor" => BoardProofs!EditorInv

LEMMA EditorConstants == BoardProofs!EditorAssumptions
<1>1. BoardProofs!Editor!Records = Editor!Records
  BY DEF Editor!Records, BoardProofs!Editor!Records, Editor!Contents, BoardProofs!Editor!Contents,
    Editor!Values, BoardProofs!Editor!Values
<1> QED
  BY <1>1, FrontendAssumption DEF BoardProofs!EditorAssumptions

LEMMA EditorMatches ==
  /\ Editor!Init <=> BoardProofs!Editor!Init
  /\ Editor!Next <=> BoardProofs!Editor!Next
BY DEF
  Editor!form, BoardProofs!Editor!form, Editor!history, BoardProofs!Editor!history,
  Editor!Commands, BoardProofs!Editor!Commands, Editor!IsDirty, BoardProofs!Editor!IsDirty,
  Editor!RecordOf, BoardProofs!Editor!RecordOf, Editor!Load, BoardProofs!Editor!Load,
  Editor!Command, BoardProofs!Editor!Command, Editor!StartLoad, BoardProofs!Editor!StartLoad,
  Editor!Init, BoardProofs!Editor!Init, Editor!Select, BoardProofs!Editor!Select, Editor!Type,
  BoardProofs!Editor!Type, Editor!ShowAuthority, BoardProofs!Editor!ShowAuthority,
  Editor!Discard, BoardProofs!Editor!Discard, Editor!Run, BoardProofs!Editor!Run, Editor!Save,
  BoardProofs!Editor!Save, Editor!Deactivate, BoardProofs!Editor!Deactivate, Editor!Repeat,
  BoardProofs!Editor!Repeat, Editor!Stay, BoardProofs!Editor!Stay, Editor!DiscardAndContinue,
  BoardProofs!Editor!DiscardAndContinue, Editor!SaveAndContinue,
  BoardProofs!Editor!SaveAndContinue, Editor!ChangedElsewhere,
  BoardProofs!Editor!ChangedElsewhere, Editor!Answered, BoardProofs!Editor!Answered,
  Editor!ServeLoad, BoardProofs!Editor!ServeLoad, Editor!Refuse, BoardProofs!Editor!Refuse,
  Editor!Apply, BoardProofs!Editor!Apply, Editor!Drop, BoardProofs!Editor!Drop,
  Editor!LoadArrives, BoardProofs!Editor!LoadArrives, Editor!Rejected,
  BoardProofs!Editor!Rejected, Editor!Applied, BoardProofs!Editor!Applied, Editor!Conflicted,
  BoardProofs!Editor!Conflicted, Editor!Repeated, BoardProofs!Editor!Repeated, Editor!TimesOut,
  BoardProofs!Editor!TimesOut, Editor!Next, BoardProofs!Editor!Next

LEMMA EditorKept == (Init => EditorInv) /\ (EditorInv /\ [Next]_vars => EditorInv')
BY EditorConstants, ScreenRuns, EditorMatches, BoardProofs!EditorInit,
  BoardProofs!EditorStepKeepsInv DEF EditorInv

LEMMA EditorPromises ==
  BoardProofs!Editor!FormIsOfSelection /\ BoardProofs!Editor!EditsSurvive /\ BoardProofs!Editor!OthersSurvive
  => Editor!FormIsOfSelection /\ Editor!EditsSurvive /\ Editor!OthersSurvive
BY DEF
  Editor!FormIsOfSelection, BoardProofs!Editor!FormIsOfSelection, Editor!EditsSurvive,
  BoardProofs!Editor!EditsSurvive, Editor!OthersSurvive, BoardProofs!Editor!OthersSurvive

-----------------------------------------------------------------------------
(* The episodes' card, the schedule and Today                              *)

DurationsInv == screen = "episodes" => BoardProofs!CardWhole

LEMMA DurationsConstants == BoardProofs!CardAssumptions
BY FrontendAssumption DEF BoardProofs!CardAssumptions

LEMMA DurationsMatches ==
  /\ Durations!Init <=> BoardProofs!Durations!Init
  /\ Durations!Next <=> BoardProofs!Durations!Next
BY DEF
  Durations!backend, BoardProofs!Durations!backend, Durations!card, BoardProofs!Durations!card,
  Durations!history, BoardProofs!Durations!history, Durations!Clean,
  BoardProofs!Durations!Clean, Durations!IsDirty, BoardProofs!Durations!IsDirty,
  Durations!Closed, BoardProofs!Durations!Closed, Durations!Review,
  BoardProofs!Durations!Review, Durations!Loading, BoardProofs!Durations!Loading,
  Durations!Call, BoardProofs!Durations!Call, Durations!Superseded,
  BoardProofs!Durations!Superseded, Durations!ReadAgain, BoardProofs!Durations!ReadAgain,
  Durations!Init, BoardProofs!Durations!Init, Durations!Move, BoardProofs!Durations!Move,
  Durations!Edit, BoardProofs!Durations!Edit, Durations!Discard, BoardProofs!Durations!Discard,
  Durations!Save, BoardProofs!Durations!Save, Durations!Reanalyze,
  BoardProofs!Durations!Reanalyze, Durations!CancelAnalysis,
  BoardProofs!Durations!CancelAnalysis, Durations!ConfirmReview,
  BoardProofs!Durations!ConfirmReview, Durations!CloseReview,
  BoardProofs!Durations!CloseReview, Durations!Serve, BoardProofs!Durations!Serve,
  Durations!ServeLoad, BoardProofs!Durations!ServeLoad, Durations!Saved,
  BoardProofs!Durations!Saved, Durations!ServeSave, BoardProofs!Durations!ServeSave,
  Durations!StartAnalysis, BoardProofs!Durations!StartAnalysis, Durations!FinishAnalysis,
  BoardProofs!Durations!FinishAnalysis, Durations!ServeCancel,
  BoardProofs!Durations!ServeCancel, Durations!Take, BoardProofs!Durations!Take,
  Durations!Loaded, BoardProofs!Durations!Loaded, Durations!SaveAnswered,
  BoardProofs!Durations!SaveAnswered, Durations!AnalysisAnswered,
  BoardProofs!Durations!AnalysisAnswered, Durations!Answer, BoardProofs!Durations!Answer,
  Durations!Next, BoardProofs!Durations!Next

LEMMA DurationsKept == (Init => DurationsInv) /\ (DurationsInv /\ [Next]_vars => DurationsInv')
BY DurationsConstants, ScreenRuns, DurationsMatches, BoardProofs!CardWholeInit,
  BoardProofs!CardStepKeepsWhole DEF DurationsInv

LEMMA CardPromises == BoardProofs!Durations!EditsSurvive => Durations!EditsSurvive
BY DEF
  Durations!EditsSurvive, BoardProofs!Durations!EditsSurvive

DownloadsInv == screen = "downloads" => BoardProofs!ScheduleWhole

LEMMA DownloadsConstants == BoardProofs!ScheduleAssumptions
BY DEF BoardProofs!ScheduleAssumptions

LEMMA DownloadsMatches ==
  /\ Downloads!Init <=> BoardProofs!Downloads!Init
  /\ Downloads!Next <=> BoardProofs!Downloads!Next
BY DEF
  Downloads!store, BoardProofs!Downloads!store, Downloads!panel, BoardProofs!Downloads!panel,
  Downloads!notice, BoardProofs!Downloads!notice, Downloads!past, BoardProofs!Downloads!past,
  Downloads!Actions, BoardProofs!Downloads!Actions, Downloads!ScheduleFields,
  BoardProofs!Downloads!ScheduleFields, Downloads!Blank, BoardProofs!Downloads!Blank,
  Downloads!Shown, BoardProofs!Downloads!Shown, Downloads!Call, BoardProofs!Downloads!Call,
  Downloads!Init, BoardProofs!Downloads!Init, Downloads!ReadAgain,
  BoardProofs!Downloads!ReadAgain, Downloads!Send, BoardProofs!Downloads!Send, Downloads!Step,
  BoardProofs!Downloads!Step, Downloads!Settle, BoardProofs!Downloads!Settle, Downloads!Save,
  BoardProofs!Downloads!Save, Downloads!Reenter, BoardProofs!Downloads!Reenter,
  Downloads!RunNow, BoardProofs!Downloads!RunNow, Downloads!Ignore,
  BoardProofs!Downloads!Ignore, Downloads!Elsewhere, BoardProofs!Downloads!Elsewhere,
  Downloads!ServeRead, BoardProofs!Downloads!ServeRead, Downloads!ServeSave,
  BoardProofs!Downloads!ServeSave, Downloads!Claim, BoardProofs!Downloads!Claim,
  Downloads!Finish, BoardProofs!Downloads!Finish, Downloads!EventHeard,
  BoardProofs!Downloads!EventHeard, Downloads!Resumed, BoardProofs!Downloads!Resumed,
  Downloads!Superseded, BoardProofs!Downloads!Superseded, Downloads!ScheduleArrives,
  BoardProofs!Downloads!ScheduleArrives, Downloads!SaveAnswered,
  BoardProofs!Downloads!SaveAnswered, Downloads!ActionAnswered,
  BoardProofs!Downloads!ActionAnswered, Downloads!Next, BoardProofs!Downloads!Next

LEMMA DownloadsKept == (Init => DownloadsInv) /\ (DownloadsInv /\ [Next]_vars => DownloadsInv')
BY DownloadsConstants, ScreenRuns, DownloadsMatches, BoardProofs!ScheduleWholeInit,
  BoardProofs!ScheduleStepKeepsWhole DEF DownloadsInv

LEMMA DownloadsPromises == BoardProofs!Downloads!EditsSurvive => Downloads!EditsSurvive
BY DEF
  Downloads!EditsSurvive, BoardProofs!Downloads!EditsSurvive

TodayInv == screen = "today" => BoardProofs!TodayWhole

LEMMA TodayConstants == BoardProofs!TodayAssumptions
BY DEF BoardProofs!TodayAssumptions, Lenses

LEMMA TodayMatches ==
  /\ Today!Init <=> BoardProofs!Today!Init
  /\ Today!Next <=> BoardProofs!Today!Next
BY DEF
  Today!store, BoardProofs!Today!store, Today!picked, BoardProofs!Today!picked, Today!Filters,
  BoardProofs!Today!Filters, Today!Landing, BoardProofs!Today!Landing, Today!Row,
  BoardProofs!Today!Row, Today!RowsOf, BoardProofs!Today!RowsOf, Today!Writes,
  BoardProofs!Today!Writes, Today!Call, BoardProofs!Today!Call, Today!Sent,
  BoardProofs!Today!Sent, Today!Init, BoardProofs!Today!Init, Today!Refresh,
  BoardProofs!Today!Refresh, Today!Pick, BoardProofs!Today!Pick, Today!Press,
  BoardProofs!Today!Press, Today!SelectDay, BoardProofs!Today!SelectDay, Today!SelectLens,
  BoardProofs!Today!SelectLens, Today!Command, BoardProofs!Today!Command, Today!Store,
  BoardProofs!Today!Store, Today!Written, BoardProofs!Today!Written, Today!OtherWrite,
  BoardProofs!Today!OtherWrite, Today!Served, BoardProofs!Today!Served, Today!ServeRead,
  BoardProofs!Today!ServeRead, Today!Refused, BoardProofs!Today!Refused, Today!Applied,
  BoardProofs!Today!Applied, Today!ProbeAnswers, BoardProofs!Today!ProbeAnswers,
  Today!RowsArrive, BoardProofs!Today!RowsArrive, Today!ReadFails, BoardProofs!Today!ReadFails,
  Today!CommandAnswered, BoardProofs!Today!CommandAnswered, Today!PushArrives,
  BoardProofs!Today!PushArrives, Today!Next, BoardProofs!Today!Next

LEMMA TodayKept == (Init => TodayInv) /\ (TodayInv /\ [Next]_vars => TodayInv')
BY TodayConstants, ScreenRuns, TodayMatches, BoardProofs!TodayWholeInit,
  BoardProofs!TodayStepKeepsWhole DEF TodayInv

LEMMA TodayPromises == BoardProofs!Today!OthersSurvive => Today!OthersSurvive
BY DEF
  Today!OthersSurvive, BoardProofs!Today!OthersSurvive

-----------------------------------------------------------------------------
(* The ordering board                                                      *)

OrderingInv == screen = "ordering" => BoardProofs!OrderInv

LEMMA OrderingConstants == BoardProofs!OrderAssumptions
<1>1. OrderedAnimes = 1..2 /\ <<1, 0>> \in [1..2 -> {0, 1}]
  BY DEF OrderedAnimes
<1> QED
  BY <1>1 DEF BoardProofs!OrderAssumptions, BoardProofs!Ordering!Places, BoardProofs!Ordering!Rail

LEMMA OrderingMatches ==
  /\ Ordering!Init <=> BoardProofs!Ordering!Init
  /\ Ordering!Next <=> BoardProofs!Ordering!Next
BY DEF
  Ordering!Rail, BoardProofs!Ordering!Rail, Ordering!Places, BoardProofs!Ordering!Places,
  Ordering!NoDraft, BoardProofs!Ordering!NoDraft, Ordering!Loaded, BoardProofs!Ordering!Loaded,
  Ordering!ReadOnly, BoardProofs!Ordering!ReadOnly, Ordering!DraftOf,
  BoardProofs!Ordering!DraftOf, Ordering!Restored, BoardProofs!Ordering!Restored,
  Ordering!Season, BoardProofs!Ordering!Season, Ordering!Call, BoardProofs!Ordering!Call,
  Ordering!Writes, BoardProofs!Ordering!Writes, Ordering!Goes, BoardProofs!Ordering!Goes,
  Ordering!Counted, BoardProofs!Ordering!Counted, Ordering!Init, BoardProofs!Ordering!Init,
  Ordering!Edit, BoardProofs!Ordering!Edit, Ordering!Send, BoardProofs!Ordering!Send,
  Ordering!Autosave, BoardProofs!Ordering!Autosave, Ordering!HasChanges,
  BoardProofs!Ordering!HasChanges, Ordering!Reset, BoardProofs!Ordering!Reset, Ordering!Apply,
  BoardProofs!Ordering!Apply, Ordering!Reopen, BoardProofs!Ordering!Reopen, Ordering!Reenter,
  BoardProofs!Ordering!Reenter, Ordering!ScheduledElsewhere,
  BoardProofs!Ordering!ScheduledElsewhere, Ordering!ReadRow, BoardProofs!Ordering!ReadRow,
  Ordering!After, BoardProofs!Ordering!After, Ordering!ClearEdits,
  BoardProofs!Ordering!ClearEdits, Ordering!WriteRow, BoardProofs!Ordering!WriteRow,
  Ordering!Plan, BoardProofs!Ordering!Plan, Ordering!Ended, BoardProofs!Ordering!Ended,
  Ordering!Commit, BoardProofs!Ordering!Commit, Ordering!CommitFails,
  BoardProofs!Ordering!CommitFails, Ordering!ReadBoard, BoardProofs!Ordering!ReadBoard,
  Ordering!BoardArrives, BoardProofs!Ordering!BoardArrives, Ordering!Next,
  BoardProofs!Ordering!Next

LEMMA OrderingKept == (Init => OrderingInv) /\ (OrderingInv /\ [Next]_vars => OrderingInv')
BY OrderingConstants, ScreenRuns, OrderingMatches, BoardProofs!OrderInit,
  BoardProofs!OrderStepKeepsInv DEF OrderingInv

LEMMA OrderPromises ==
  BoardProofs!Ordering!DraftKept /\ BoardProofs!Ordering!AppliedIsSeen
  => Ordering!DraftKept /\ Ordering!AppliedIsSeen
BY DEF
  Ordering!Rail, BoardProofs!Ordering!Rail, Ordering!Kept, BoardProofs!Ordering!Kept,
  Ordering!DraftKept, BoardProofs!Ordering!DraftKept, Ordering!AppliedIsSeen,
  BoardProofs!Ordering!AppliedIsSeen

-----------------------------------------------------------------------------
(* The rows once everything has answered                                   *)

LEMMA DurationsRows == BoardProofs!Durations!RowsSettle => Durations!RowsSettle
BY DEF
  Durations!RowsSettle, BoardProofs!Durations!RowsSettle

LEMMA TodayRows == BoardProofs!Today!RowsSettle => Today!RowsSettle
BY DEF
  Today!Row, BoardProofs!Today!Row, Today!RowsOf, BoardProofs!Today!RowsOf, Today!RowsSettle,
  BoardProofs!Today!RowsSettle

LEMMA DownloadsRows == BoardProofs!Downloads!RowsSettle => Downloads!RowsSettle
BY DEF
  Downloads!Shown, BoardProofs!Downloads!Shown, Downloads!Quiet, BoardProofs!Downloads!Quiet,
  Downloads!RowsSettle, BoardProofs!Downloads!RowsSettle

LEMMA RunsRows == BoardProofs!Runs!RowsSettle => Runs!RowsSettle
BY DEF
  Runs!Newest, BoardProofs!Runs!Newest, Runs!Listed, BoardProofs!Runs!Listed, Runs!SelectedIn,
  BoardProofs!Runs!SelectedIn, Runs!Shown, BoardProofs!Runs!Shown, Runs!RowsSettle,
  BoardProofs!Runs!RowsSettle, Runs!Max, BoardProofs!Runs!Max, Runs!Min, BoardProofs!Runs!Min,
  Runs!Cardinality, BoardProofs!Runs!Cardinality

LEMMA KeymapRows == Panels!Keymap!RowsSettle => Keymap!RowsSettle
BY DEF
  Keymap!RowsSettle, Panels!Keymap!RowsSettle

LEMMA LookupRows == Panels!Lookup!ResultsSettle => Lookup!ResultsSettle
BY DEF
  Lookup!Idle, Panels!Lookup!Idle, Lookup!Results, Panels!Lookup!Results, Lookup!ResultsSettle,
  Panels!Lookup!ResultsSettle

LEMMA LibraryRows == Panels!Library!RowsSettle => Library!RowsSettle
BY DEF
  Library!RowsSettle, Panels!Library!RowsSettle

-----------------------------------------------------------------------------
(* The types                                                               *)

LEMMA WatchTypes == WatchInv => (screen = "watch" => Watch!TypeOK)
<1>1. Panels!Watch!TypeOK => Watch!TypeOK
  BY DEF
  Watch!Requests, Panels!Watch!Requests, Watch!InFlight, Panels!Watch!InFlight,
  Watch!PageTypes, Panels!Watch!PageTypes, Watch!TypeOK, Panels!Watch!TypeOK,
  Watch!Cardinality, Panels!Watch!Cardinality
<1> QED
  BY <1>1, WatchConstants, Panels!WatchPromises DEF WatchInv

LEMMA HistoryTypes == HistoryInv => (screen = "history" => History!TypeOK)
<1>1. OtherPanels!History!TypeOK => History!TypeOK
  BY DEF
  History!Requests, OtherPanels!History!Requests, History!InFlight,
  OtherPanels!History!InFlight, History!PageTypes, OtherPanels!History!PageTypes,
  History!TypeOK, OtherPanels!History!TypeOK, History!Cardinality,
  OtherPanels!History!Cardinality
<1> QED
  BY <1>1, HistoryConstants, OtherPanels!HistoryPromises DEF HistoryInv

LEMMA InspectorTypes == InspectorInv => (screen = "inspector" => Inspector!TypeOK)
<1>1. Panels!Inspector!TypeOK => Inspector!TypeOK
  BY DEF
  Inspector!Kinds, Panels!Inspector!Kinds, Inspector!TypeOK, Panels!Inspector!TypeOK
<1> QED
  BY <1>1, Panels!InspectorPromises DEF InspectorInv

LEMMA ListTypes == ListInv => (screen = "list" => List!TypeOK)
<1>1. Lists!List!TypeOK => List!TypeOK
  BY DEF
  List!Views, Lists!List!Views, List!Pages, Lists!List!Pages, List!Ids, Lists!List!Ids,
  List!TypeOK, Lists!List!TypeOK, List!Cardinality, Lists!List!Cardinality, List!Newest,
  Lists!List!Newest, List!Without, Lists!List!Without, List!Range, Lists!List!Range,
  List!IsInjective, Lists!List!IsInjective
<1> QED
  BY <1>1, ListConstants, Lists!ListPromises DEF ListInv

LEMMA PaneTypes == PaneInv => (screen = "pane" => Pane!TypeOK)
<1>1. Panels!Pane!TypeOK => Pane!TypeOK
  BY DEF
  Pane!Ids, Panels!Pane!Ids, Pane!Mutations, Panels!Pane!Mutations, Pane!TypeOK,
  Panels!Pane!TypeOK, Pane!Cardinality, Panels!Pane!Cardinality
<1> QED
  BY <1>1, PaneConstants, Panels!PanePromises DEF PaneInv

LEMMA RecordsTypes == RecordsInv => (screen = "records" => Records!TypeOK)
<1>1. OtherPanels!Pane!TypeOK => Records!TypeOK
  BY DEF
  Records!Ids, OtherPanels!Pane!Ids, Records!Mutations, OtherPanels!Pane!Mutations,
  Records!TypeOK, OtherPanels!Pane!TypeOK, Records!Cardinality, OtherPanels!Pane!Cardinality
<1> QED
  BY <1>1, RecordsConstants, OtherPanels!PanePromises DEF RecordsInv

LEMMA DetailTypes == DetailInv => (screen = "detail" => Detail!TypeOK)
<1>1. DetailProofs!TypeOK => Detail!TypeOK
  BY DEF
  Detail!Outcomes, DetailProofs!Outcomes, Detail!Versions, DetailProofs!Versions,
  Detail!TypeOK, DetailProofs!TypeOK
<1> QED
  BY <1>1, DetailConstants, DetailProofs!PageTypes DEF DetailInv

LEMMA SeasonTypes == SeasonInv => (screen = "season" => Season!TypeOK)
<1>1. BoardProofs!Season!TypeOK => Season!TypeOK
  BY DEF
  Season!TypeOK, BoardProofs!Season!TypeOK, Season!Cardinality, BoardProofs!Season!Cardinality
<1> QED
  BY <1>1, SeasonConstants, BoardProofs!SeasonPromises DEF SeasonInv

LEMMA EditorTypes == EditorInv => (screen = "editor" => Editor!TypeOK)
<1>1. BoardProofs!Editor!TypeOK => Editor!TypeOK
  BY DEF
  Editor!Values, BoardProofs!Editor!Values, Editor!Contents, BoardProofs!Editor!Contents,
  Editor!Records, BoardProofs!Editor!Records, Editor!Commands, BoardProofs!Editor!Commands,
  Editor!TypeOK, BoardProofs!Editor!TypeOK
<1> QED
  BY <1>1, BoardProofs!EditorPromises DEF EditorInv

LEMMA ScheduleTypes == ScheduleInv => (screen = "schedule" => Schedule!TypeOK)
<1>1. Lists!Schedule!TypeOK => Schedule!TypeOK
  BY DEF
  Schedule!Staging, Lists!Schedule!Staging, Schedule!Containers, Lists!Schedule!Containers,
  Schedule!Placements, Lists!Schedule!Placements, Schedule!Keys, Lists!Schedule!Keys,
  Schedule!TypeOK, Lists!Schedule!TypeOK, Schedule!Cardinality, Lists!Schedule!Cardinality,
  Schedule!Newest, Lists!Schedule!Newest, Schedule!Without, Lists!Schedule!Without,
  Schedule!Range, Lists!Schedule!Range, Schedule!InsertedAt, Lists!Schedule!InsertedAt
<1> QED
  BY <1>1, ScheduleConstants, Lists!ScheduleInvFits DEF ScheduleInv

LEMMA DurationsTypes == DurationsInv => (screen = "episodes" => Durations!TypeOK)
<1>1. BoardProofs!Durations!TypeOK => Durations!TypeOK
  BY DEF
  Durations!Durations, BoardProofs!Durations!Durations, Durations!Edits,
  BoardProofs!Durations!Edits, Durations!TypeOK, BoardProofs!Durations!TypeOK
<1> QED
  BY <1>1, BoardProofs!CardPromises DEF DurationsInv, BoardProofs!CardWhole

LEMMA FeedTypes == FeedInv => (screen = "feed" => Feed!TypeOK)
<1>1. Lists!Feed!TypeOK => Feed!TypeOK
  BY DEF
  Feed!Queries, Lists!Feed!Queries, Feed!TypeOK, Lists!Feed!TypeOK, Feed!Cardinality,
  Lists!Feed!Cardinality, Feed!Newest, Lists!Feed!Newest, Feed!Without, Lists!Feed!Without,
  Feed!Range, Lists!Feed!Range
<1> QED
  BY <1>1, FeedConstants, Lists!FeedPromises DEF FeedInv

LEMMA OrderingTypes == OrderingInv => (screen = "ordering" => Ordering!TypeOK)
<1>1. BoardProofs!Ordering!TypeOK => Ordering!TypeOK
  BY DEF
  Ordering!Rail, BoardProofs!Ordering!Rail, Ordering!Places, BoardProofs!Ordering!Places,
  Ordering!Drafts, BoardProofs!Ordering!Drafts, Ordering!Loaded, BoardProofs!Ordering!Loaded,
  Ordering!ReadOnly, BoardProofs!Ordering!ReadOnly, Ordering!Kinds, BoardProofs!Ordering!Kinds,
  Ordering!Steps, BoardProofs!Ordering!Steps, Ordering!TypeOK, BoardProofs!Ordering!TypeOK
<1> QED
  BY <1>1, BoardProofs!OrderPromises DEF OrderingInv

LEMMA RunsTypes == RunsInv => (screen = "runs" => Runs!TypeOK)
<1>1. BoardProofs!Runs!TypeOK => Runs!TypeOK
  BY DEF
  Runs!Statuses, BoardProofs!Runs!Statuses, Runs!TypeOK, BoardProofs!Runs!TypeOK, Runs!Max,
  BoardProofs!Runs!Max, Runs!Min, BoardProofs!Runs!Min, Runs!Cardinality,
  BoardProofs!Runs!Cardinality
<1> QED
  BY <1>1, RunsConstants, BoardProofs!RunsPromises DEF RunsInv, BoardProofs!RunsSettled

LEMMA DownloadsTypes == DownloadsInv => (screen = "downloads" => Downloads!TypeOK)
<1>1. BoardProofs!Downloads!TypeOK => Downloads!TypeOK
  BY DEF
  Downloads!Actions, BoardProofs!Downloads!Actions, Downloads!Schedules,
  BoardProofs!Downloads!Schedules, Downloads!TypeOK, BoardProofs!Downloads!TypeOK
<1> QED
  BY <1>1, BoardProofs!SchedulePromises DEF DownloadsInv, BoardProofs!ScheduleWhole

LEMMA KeymapTypes == KeymapInv => (screen = "keymap" => Keymap!TypeOK)
<1>1. Panels!Keymap!TypeOK => Keymap!TypeOK
  BY DEF
  Keymap!Documents, Panels!Keymap!Documents, Keymap!TypeOK, Panels!Keymap!TypeOK
<1> QED
  BY <1>1, KeymapConstants, Panels!KeymapPromises DEF KeymapInv, Panels!KeymapWhole

LEMMA LookupTypes == LookupInv => (screen = "lookup" => Lookup!TypeOK)
<1>1. Panels!Lookup!TypeOK => Lookup!TypeOK
  BY DEF
  Lookup!TypeOK, Panels!Lookup!TypeOK
<1> QED
  BY <1>1, Panels!LookupPromises DEF LookupInv, Panels!LookupWhole

LEMMA LibraryTypes == LibraryInv => (screen = "root" => Library!TypeOK)
<1>1. Panels!Library!TypeOK => Library!TypeOK
  BY DEF
  Library!Texts, Panels!Library!Texts, Library!TypeOK, Panels!Library!TypeOK
<1> QED
  BY <1>1, Panels!LibraryPromises DEF LibraryInv, Panels!LibraryWhole

LEMMA TodayTypes == TodayInv => (screen = "today" => Today!TypeOK)
<1>1. BoardProofs!Today!TypeOK => Today!TypeOK
  BY DEF
  Today!Filters, BoardProofs!Today!Filters, Today!Writes, BoardProofs!Today!Writes,
  Today!TypeOK, BoardProofs!Today!TypeOK
<1> QED
  BY <1>1, BoardProofs!TodayPromises DEF TodayInv, BoardProofs!TodayWhole

-----------------------------------------------------------------------------
(* The window                                                              *)

\* Each screen's invariant holds while it is the one chosen.
LEMMA WindowHolds ==
  Spec => [](InspectorInv /\ PaneInv /\ RecordsInv /\ ListInv /\ FeedInv /\ ScheduleInv /\ WatchInv
      /\ HistoryInv /\ DetailInv /\ KeymapInv /\ LibraryInv /\ LookupInv /\ SeasonInv
      /\ DurationsInv /\ DownloadsInv /\ TodayInv /\ RunsInv /\ EditorInv /\ OrderingInv)
BY InspectorKept, PaneKept, RecordsKept, ListKept, FeedKept, ScheduleKept, WatchKept, HistoryKept,
  DetailKept, KeymapKept, LibraryKept, LookupKept, SeasonKept, DurationsKept, DownloadsKept,
  TodayKept, RunsKept, EditorKept, OrderingKept, PTL DEF Spec

\* The inspector puts the cover and the episodes of no anime under the detail of
\* another, for any animes.
THEOREM PaneKeepsOneAnime == Spec => []PaneIsOfOneAnime
<1>1. InspectorInv => PaneIsOfOneAnime
  BY Panels!InspectorPromises, InspectorPromises DEF InspectorInv, PaneIsOfOneAnime
<1> QED
  BY <1>1, WindowHolds, PTL

\* With everything arrived, the pane shows the record pressed last, the rows the read state
\* of the store and the badge the number of its unread records.
THEOREM PaneIsSettled == Spec => []PaneSettles
<1>1. PaneInv => (screen = "pane" => Pane!PaneSettles /\ Pane!BadgeIsTheCount)
  BY PaneConstants, Panels!PanePromises, PanePromises DEF PaneInv
<1>2. RecordsInv => (screen = "records" => Records!PaneSettles /\ Records!BadgeIsTheCount)
  BY RecordsConstants, OtherPanels!PanePromises, RecordsPromises DEF RecordsInv
<1>3. PaneInv /\ RecordsInv => PaneSettles
  BY <1>1, <1>2 DEF PaneSettles
<1> QED
  BY <1>3, WindowHolds, PTL

\* No notification is on the list twice, live refreshes and pages together, but as the
\* property says.
THEOREM RowsAreOnce == Spec => []RowsOnce
<1>1. ListInv => RowsOnce
  BY ListConstants, Lists!ListPromises, ListPromises DEF ListInv, RowsOnce
<1> QED
  BY <1>1, WindowHolds, PTL

\* Once pushes, archives and pages have arrived, the list is the store's.
THEOREM ListIsSettled == Spec => []ListSettles
<1>1. ListInv => ListSettles
  BY ListConstants, Lists!ListPromises, ListPromises DEF ListInv, ListSettles
<1> QED
  BY <1>1, WindowHolds, PTL

\* A draft of the board as it is gets applied, for any draft that the user can make.
THEOREM DraftsAreApplied == Spec => []DraftsAreTaken
<1>1. ScheduleInv => DraftsAreTaken
  BY ScheduleConstants, Lists!ScheduleInvFits, SchedulePromises DEF ScheduleInv, DraftsAreTaken
<1> QED
  BY <1>1, WindowHolds, PTL

\* The alert after Repeat or Restore is of this visit's change, for any animes.
THEOREM AlertIsHonest == Spec => []FeedbackIsHonest
<1>1. DetailInv => FeedbackIsHonest
  BY DetailPromises DEF DetailInv, DetailProofs!PageInv, DetailProofs!FeedbackInv,
    DetailProofs!FeedbackIsHonest, FeedbackIsHonest
<1> QED
  BY <1>1, WindowHolds, PTL

\* The page shows what was stored, and a change is applied only to the version it was
\* confirmed on: the page of MCFrontend implements ConfirmedChange.
THEOREM PageIsTrue == Spec => KeepsItsPromise
<1>1. Init => (screen = "detail" => Detail!Promise!Init)
  BY ScreenRuns, DetailMatches, PromiseInits, DetailProofs!InitMaps
<1>2. DetailInv /\ DetailInv' /\ [Next]_vars => [screen = "detail" => Detail!Promise!Next]_(Detail!Promise!vars)
  <2>1. ASSUME DetailInv, DetailInv', screen = "detail", Next PROVE Detail!Promise!Next
    <3>1. DetailProofs!Inv /\ DetailProofs!Inv'
      BY <2>1, ScreenRuns DEF DetailInv, DetailProofs!PageInv, DetailProofs!FeedbackInv
    <3>2. DetailProofs!Next
      BY <2>1, ScreenRuns, DetailMatches
    <3> QED
      BY <3>1, <3>2, PromiseSteps, DetailProofs!NextMaps
  <2>2. UNCHANGED vars => UNCHANGED Detail!Promise!vars
    BY DEF vars, Detail!Promise!vars, Detail!VisibleVersion
  <2> QED
    BY <2>1, <2>2
<1> QED
  BY <1>1, <1>2, WindowHolds, PTL DEF Spec, KeepsItsPromise

\* The episodes of an anime's page and of the History list are the newest of what is asked
\* for, in order and each once, with the days of the latter that are not the last whole; and
\* the feed is in order, each place once, with every line in between but those recorded late
\* and those of the millisecond that a merged page ended in.
THEOREM ShownAreInOrder == Spec => []ShownIsPrefix
<1>1. WatchInv => (screen = "watch" => Watch!ShownIsPrefix)
  BY WatchConstants, Panels!WatchPromises, WatchPromises DEF WatchInv
<1>2. HistoryInv => (screen = "history" => History!ShownIsPrefix /\ History!DaysAreComplete)
  BY HistoryConstants, OtherPanels!HistoryPromises, HistoryPromises DEF HistoryInv
<1>3. FeedInv => (screen = "feed" => Feed!ShownIsPrefix)
  BY FeedConstants, Lists!FeedPromises, FeedPromises DEF FeedInv
<1>4. WatchInv /\ HistoryInv /\ FeedInv => ShownIsPrefix
  BY <1>1, <1>2, <1>3 DEF ShownIsPrefix
<1> QED
  BY <1>4, WindowHolds, PTL

\* Every chord that is listed runs its command, and no other but one that a stored or
\* imported document, or a revert, gave the same, for the commands, scopes and documents
\* of MCFrontend.
THEOREM ShortcutsAnswer == Spec => []CommandsAnswer
<1>1. KeymapInv => CommandsAnswer
  BY KeymapConstants, Panels!KeymapPromises, KeymapPromises DEF KeymapInv, Panels!KeymapWhole, CommandsAnswer
<1> QED
  BY <1>1, WindowHolds, PTL

\* What a confirm carries out is what its dialog showed.
THEOREM DialogsAreHonest == Spec => []ConfirmedIsShown
<1>1. LibraryInv /\ LookupInv => ConfirmedIsShown
  BY Panels!LibraryPromises, LibraryPromises, Panels!LookupPromises, LookupPromises
    DEF LibraryInv, LookupInv, Panels!LibraryWhole, Panels!LookupWhole, ConfirmedIsShown
<1> QED
  BY <1>1, WindowHolds, PTL

\* One change of the library root at a time leaves no anime under the old one.
THEOREM RootLeavesNobody == Spec => []NobodyIsStranded
<1>1. LibraryInv => NobodyIsStranded
  BY Panels!LibraryPromises, LibraryPromises DEF LibraryInv, Panels!LibraryWhole, NobodyIsStranded
<1> QED
  BY <1>1, WindowHolds, PTL

\* With everything answered and heard, the open season on screen has the setting and the
\* rows of the backend, for any closed seasons, rows and settings.
THEOREM SeasonIsSettled == Spec => []SeasonSettles
<1>1. SeasonInv => SeasonSettles
  BY SeasonConstants, BoardProofs!SeasonPromises, SeasonPromises DEF SeasonInv, SeasonSettles
<1> QED
  BY <1>1, WindowHolds, PTL

\* What is shown is what is viewed: the season, the anime of the form, the run.
THEOREM ViewedIsShown == Spec => []ShowsWhatIsViewed
<1>1. SeasonInv => (screen = "season" => Season!ShowsWhatIsViewed)
  BY SeasonConstants, BoardProofs!SeasonPromises, SeasonPromises DEF SeasonInv
<1>2. RunsInv => (screen = "runs" => Runs!SelectedIsVisible)
  BY RunsConstants, BoardProofs!RunsPromises, RunsPromises DEF RunsInv, BoardProofs!RunsSettled
<1>3. EditorInv => (screen = "editor" => Editor!FormIsOfSelection)
  BY BoardProofs!EditorPromises, EditorPromises DEF EditorInv
<1>4. SeasonInv /\ RunsInv /\ EditorInv => ShowsWhatIsViewed
  BY <1>1, <1>2, <1>3 DEF ShowsWhatIsViewed
<1> QED
  BY <1>4, WindowHolds, PTL

\* Nothing edited is lost but as the property says: a form, a card's durations and the
\* schedule of the downloads.
THEOREM NothingEditedIsLost == Spec => []EditsSurvive
<1>1. EditorInv => (screen = "editor" => Editor!EditsSurvive)
  BY BoardProofs!EditorPromises, EditorPromises DEF EditorInv
<1>2. DurationsInv => (screen = "episodes" => Durations!EditsSurvive)
  BY BoardProofs!CardPromises, CardPromises DEF DurationsInv, BoardProofs!CardWhole
<1>3. DownloadsInv => (screen = "downloads" => Downloads!EditsSurvive)
  BY BoardProofs!SchedulePromises, DownloadsPromises DEF DownloadsInv, BoardProofs!ScheduleWhole
<1>4. EditorInv /\ DurationsInv /\ DownloadsInv => EditsSurvive
  BY <1>1, <1>2, <1>3 DEF EditsSurvive
<1> QED
  BY <1>4, WindowHolds, PTL

\* No form and no card writes over a change it has not shown.
THEOREM NobodyIsOverwritten == Spec => []OthersSurvive
<1>1. EditorInv => (screen = "editor" => Editor!OthersSurvive)
  BY BoardProofs!EditorPromises, EditorPromises DEF EditorInv
<1>2. TodayInv => (screen = "today" => Today!OthersSurvive)
  BY BoardProofs!TodayPromises, TodayPromises DEF TodayInv, BoardProofs!TodayWhole
<1>3. EditorInv /\ TodayInv => OthersSurvive
  BY <1>1, <1>2 DEF OthersSurvive
<1> QED
  BY <1>3, WindowHolds, PTL

\* No reading takes the place of a duration set by hand.
THEOREM HandValuesAreKept == Spec => HandValuesStay
<1>1. DurationsInv /\ DurationsInv' /\ [Next]_vars =>
        (screen = "episodes" =>
           \A a \in Animes, e \in Episodes :
             stored[a][e] = "manual" => stored'[a][e] \in {"manual", "none"})
  <2>1. ASSUME DurationsInv, screen = "episodes", Next
        PROVE  \A a \in Animes, e \in Episodes :
                 stored[a][e] = "manual" => stored'[a][e] \in {"manual", "none"}
    BY <2>1, ScreenRuns, DurationsMatches, BoardProofs!CardKeepsHandValues
      DEF DurationsInv, BoardProofs!CardWhole
  <2> QED
    BY <2>1 DEF vars
<1> QED
  BY <1>1, WindowHolds, PTL DEF Spec, HandValuesStay

\* With nothing on its way the ordering board has each anime where the user left it.
THEOREM DraftIsKept == Spec => []DraftKept
<1>1. OrderingInv => DraftKept
  BY BoardProofs!OrderPromises, OrderPromises DEF OrderingInv, DraftKept
<1> QED
  BY <1>1, WindowHolds, PTL

\* An applied schedule, and a season's applied ordering, is what the user saw, but as the
\* properties say.
THEOREM AppliedIsWhatWasSeen == Spec => []AppliedIsTheDraft
<1>1. ScheduleInv => (screen = "schedule" => Schedule!AppliedIsTheDraft)
  BY ScheduleConstants, Lists!ScheduleInvFits, SchedulePromises DEF ScheduleInv
<1>2. OrderingInv => (screen = "ordering" => Ordering!AppliedIsSeen)
  BY BoardProofs!OrderPromises, OrderPromises DEF OrderingInv
<1>3. ScheduleInv /\ OrderingInv => AppliedIsTheDraft
  BY <1>1, <1>2 DEF AppliedIsTheDraft
<1> QED
  BY <1>3, WindowHolds, PTL

\* With nothing under way the screens show what is stored, but as the properties say: the
\* durations and the rows of Today, the feed, the schedule of the downloads, the runs, the
\* shortcuts, the metadata found and the library root.
THEOREM RowsAreSettled == Spec => []RowsSettle
<1>1. DurationsInv /\ TodayInv /\ DownloadsInv /\ RunsInv /\ KeymapInv /\ LookupInv /\ LibraryInv
          /\ FeedInv => RowsSettle
  BY BoardProofs!CardRowsSettle, DurationsRows, BoardProofs!TodayRowsSettle, TodayRows,
    BoardProofs!ScheduleRowsSettle, DownloadsRows, BoardProofs!RunsRowsSettle, RunsRows,
    Panels!KeymapRowsSettle, KeymapRows, Panels!LookupRowsSettle, LookupRows,
    Panels!LibraryRowsSettle, LibraryRows, FeedConstants, Lists!FeedPromises, FeedPromises
    DEF DurationsInv, TodayInv, DownloadsInv, RunsInv, KeymapInv, LookupInv, LibraryInv, FeedInv,
    RowsSettle
<1> QED
  BY <1>1, WindowHolds, PTL

\* Every screen's state is of its types.
THEOREM EverythingIsTyped == Spec => []TypeOK
<1>1. WatchInv /\ HistoryInv /\ InspectorInv /\ ListInv /\ PaneInv /\ RecordsInv /\ DetailInv
          /\ SeasonInv /\ EditorInv /\ ScheduleInv /\ DurationsInv /\ FeedInv /\ OrderingInv
          /\ RunsInv /\ DownloadsInv /\ KeymapInv /\ LookupInv /\ LibraryInv /\ TodayInv => TypeOK
  BY WatchTypes, HistoryTypes, InspectorTypes, ListTypes, PaneTypes, RecordsTypes, DetailTypes,
    SeasonTypes, EditorTypes, ScheduleTypes, DurationsTypes, FeedTypes, OrderingTypes, RunsTypes,
    DownloadsTypes, KeymapTypes, LookupTypes, LibraryTypes, TodayTypes DEF TypeOK
<1> QED
  BY <1>1, WindowHolds, PTL

=============================================================================
