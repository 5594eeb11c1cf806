# Autoreas Bridge in TLA+

Autoreas Bridge is a Windows desktop program (Go behind a Wails window, React in
front of it) that keeps a personal anime library in SQLite, lets paired phones
read and change it over a local HTTP/WebSocket API, and downloads new episodes on
a weekly schedule.  This directory models the parts of it where the order of
events decides whether data is lost: the save transaction and the changes feed it
leaves (`AnimeSave`), the devices that are given that feed and hold back its
pruning (`DeviceSync`), the download scheduler (`Scheduler`), and the screens of
the window that keep state of their own between a call and its answer (nineteen
small instances, composed by `MCFrontend`).

`PROJECT.json` lists, for each module, the source lines every definition stands
for.  Line numbers below are in `src/internal/` unless a path says otherwise;
paths of screens are in `src/frontend/src/`.

## 1. Inventory

### The anime write path (modelled: `AnimeSave`)
*State*: one row per anime in `anime_snapshots` (the JSON snapshot, its folded
name under a unique index, and `modified_at`, the token of optimistic
concurrency).
*Operations*: `Gateway.Create`, `Update`/`UpdateRaw`, `ApplyBatch`
(`anime/store/gateway.go`), all of which end in `AnimeSaveStore.CommitSave`
(`sync/anime_save_store.go`): one transaction that decides (is the base's token
still the stored one?), runs the season rule, upserts every snapshot, and inserts
one changelog row per snapshot that changed in some field.  After the commit the
caller publishes `anime.changed` and, for a refused write, stores a conflict row.
*Hard*: bases read long ago; clocks that repeat a millisecond or step back;
batches of which one item is stale; a rule that changes the snapshot between the
decision and the row.
*Correct when*: no write replaces a version its writer had not read; tokens only
grow; rows describe the save they belong to.

### The changelog feed (modelled: `AnimeSave`, `DeviceSync`)
*State*: the `changelog` table (autoincrement id, anime, fields, snapshot,
`changed_at`), its AUTOINCREMENT sequence, and the `device_sync_state` rows.
*Operations*: insert with a timestamp raised past the anime's last row
(`changelog_store.go:86-130`), rows written late by the recorder and by the
season projection, prune, acknowledge, list after an id, last id.
*Interacts with*: saves insert in their own transaction; reconciles list and
prune; the prune's limit comes from the devices.
*Correct when*: ids and timestamps of an anime grow together, the last row of an
anime carries its stored snapshot, and a phone that applies its feed arrives at
what is stored.

### Devices, reconcile and retention (modelled: `DeviceSync`)
*State*: `devices`, `device_sync_state` (ack, status, last seen), requests in
flight, open websockets, and the cursor each phone holds.
*Operations*: pair, authenticate, revoke, acknowledge (every reconcile and every
websocket message), prune, list, answer, the start-up evaluation that warns after
53 days and gives a device up after 60, and the import of a backup.
*Hard*: none of these handlers holds a transaction, so each SQL statement
interleaves with those of other requests; answers are lost or late; a process
ends in the middle.
*Correct when*: a device that is not given up gets every row it has not
acknowledged, and cursors and acks never go back.

### The download scheduler (modelled: `Scheduler`)
*State*: the schedule and its ledger (`download_schedule_config`: last run,
settled local date, missed attempt), the loop goroutine and its wake channel, the
guard `running`, the stored cancel function, the runs in progress.
*Operations*: save the schedule, tick, manual run, cancel, resolve a
startup-missed day (run now or ignore), deadline, stop, restart.
*Interacts with*: the download pipeline, which is its callback.
*Hard*: three triggers race for one guard; a cancel stored by one run is called
by another; a schedule saved between a read and a wait; midnights inside a run;
statements that fail because Stop has cancelled their context.
*Correct when*: one run at a time, changes are heard, days are settled only by
runs of that day, and the ledger only moves forward.

### The window (modelled: one module per screen)
The window is React over Wails bindings.  A binding call is a promise: calls are
answered in any order, some are refused, and what they return was read when the
backend served them.  Pushes (`anime.changed`, a new notification, a matching
event, the end of a run) arrive between an answer and the next.  A hook's closure
holds what it saw when it rendered; an effect's clean-up marks a call as no longer
wanted; a ref holds what is current.  Which of the three a handler reads decides
whether an answer lands on the wrong anime, a row appears twice, or an edit is
lost, and a test that awaits one call after the other sees none of it.

| Screen | State | Operations | Correct when |
|---|---|---|---|
| watched-episode lists, History list | rows, cursor, generation, requests in flight | expand, next page, filter, retry | the rows are a prefix of the log asked for, each once |
| History inspector | selection, three reads with an active flag | select, answers | one anime on the pane |
| notification list | rows, filter, refresh, bulk marks, archive | push, refresh, page, bulk | each record once; settles on the store |
| open notification | open record, dots, badge | open, archive, unread, pushes | the three agree with the store |
| anime page | visit, snapshot, dialog, mutation, feedback | visit, Repeat/Restore, answers | a change applies to the version confirmed |
| season store | current and past season, rows, run events | load, view past, settings, run | shows the season viewed; settles |
| anime editor | record, draft, saves, guard | edit, save, lifecycle, leave, push | edits and other devices' changes survive |
| schedule modal | draft board, moves, payload, merge | drag, park, duplicate, apply | what is applied is what was seen |
| episode durations | stored, edits, analysis, review | edit, save, analyse, cancel | edits survive, measured never beats typed |
| activity feed | lines, cursor, query | page, live refresh | in order, none twice, no line skipped but by name |
| ordering board | board, draft, autosave timer | drag, autosave, reset, apply, leave | the draft is kept; the apply is what was seen |
| Today board | filter, lens, rows, writes | pick, push, write, probe | the filter's rows; no write over unseen changes |
| downloads | schedule, its panel, missed-day notice | load, save, resolve, events | no save undoes another |
| run history | list, selected run, its story, rows revealed, Stop | run events, stored steps, select, filter, stop | the shown run is visible, its story complete |
| shortcuts | overrides, stored document | rebind, revert, reset, import | every listed chord runs its command, and only it but by name |
| metadata lookup | query, cache, candidate, cover | type, highlight, confirm | what is confirmed was shown |
| library root | root, folders, preview | type, preview, confirm | only shown moves, nobody stranded |

### Components not modelled

| Component | State and operations | What is hard, and what would make it correct |
|---|---|---|
| Pairing tokens (`device/`) | `pairing_tokens`: create, expire, consume | a token presented twice or at its expiry is accepted at most once |
| Realtime hub, event bus (`realtime/`, `events/`) | clients per connection, one broadcast channel, a bounded queue per client; register, unregister, broadcast | full queues drop, a slow client is cut, a reconnect overlaps the old connection; an old unregister never removes the new connection |
| Download pipeline, hoster watch, JDownloader gate (`download/`) | run rows, counters under a mutex, one gate per run | workers finishing in any order, cancellation, a hoster given up while its file lands |
| Season commands (`season/`) | seasons and season animes; phases, matching, intake, closing | read-modify-write of a whole row without a token; only the draft and its apply are modelled (`OrderingBoard`) |
| Season projection (`sync/season_projection.go`, `desktop/app_season_projection.go`) | the projection last published; a debounced comparison | its row never announces a projection older than the stored one |
| Notification purges, one-shot actions, deliveries (`notification/`) | records, actions, toasts | an action taken twice, a delivery after it was read |
| Watch history table (`watchhistory/`) | a table derived from saves | restored in an order that keeps it consistent with the animes |
| Backup (`backup/`) | a bundle; export, verify, import | an import brings back old tokens: a base read before it may equal a token stored after it |
| Capture queues (`observability/`) | bounded queues, retention sweeps | drops counted, shutdown drains |
| Cloudflare clearance (`cfclearance/`) | one cached clearance | one solver at a time, expiry |
| Persistence, other settings, activity log, identity, backfill, covers, desktop shell, MyAnimeList, MCP, the remaining views, tools | single statements, wiring, parsing, network, layout | little that depends on an order; see the notes in `PROJECT.json` |

## 2. The modules

| Module | Models | Used by |
|---|---|---|
| `AnimeSave` | the save transaction and the feed's rows | `MCAnimeSave`, `AnimeSaveProofs` |
| `DeviceSync` | pairing, acks, prune, list, answers, start-up | `MCDeviceSync`, `DeviceSyncProofs` |
| `Scheduler` | the scheduler's goroutines and its ledger | `MCScheduler`, `SchedulerProofs` |
| `KeysetPages` | the paging protocol of the episode lists | `WatchEpisodes`, `HistoryTimeline` |
| `WatchEpisodes`, `HistoryTimeline` | the episode lists of an anime's page; the History list | `MCFrontend` |
| `HistoryInspector` | the pane beside the History list | `MCFrontend` |
| `Subsequences` | the newest of a set, a list without some rows or with one more | `NotificationList`, `ActivityFeed`, `ScheduleDraft` |
| `NotificationList`, `NotificationPane` | the notification list; the open record, dots and badge | `MCFrontend` |
| `ConfirmedChange` | what the anime page promises (abstract) | `AnimeDetail` |
| `AnimeDetail` | the anime page | `MCFrontend`, `AnimeDetailProofs` |
| `SeasonStore` | the window's store of the season | `MCFrontend` |
| `EditorRecord`, `ScheduleDraft`, `EpisodeCard` | the editor's data card, schedule modal and durations card | `MCFrontend` |
| `ActivityFeed` | the activity feed's pages | `MCFrontend`, `MCActivityFeed` |
| `OrderingBoard` | the season's ordering board, its draft and its apply | `MCFrontend` |
| `TodayBoard` | the Today board | `MCFrontend` |
| `DownloadStore` | the download schedule's panel and missed-day notice | `MCFrontend` |
| `RunHistory` | the Downloads page's run history, a run's story and Stop | `MCFrontend` |
| `KeymapPanel` | keyboard shortcuts | `MCFrontend`, `MCKeymapPanel` |
| `MetadataLookup` | the metadata dialog | `MCFrontend` |
| `LibraryRoot` | the library root and the folders under it | `MCFrontend` |
| `MCFrontend` | the screens side by side, one per behaviour | `Frontend.cfg` |
| `MCActivityFeed`, `MCKeymapPanel` | one screen alone, each for a claim that does not hold | `FeedTies.cfg`, `KeymapReverts.cfg` |
| `AnimeSaveProofs`, `DeviceSyncProofs`, `SchedulerProofs`, `AnimeDetailProofs` | theorems of one module each | |
| `WindowPanelProofs` | theorems of `KeymapPanel`, `LibraryRoot`, `MetadataLookup`, `HistoryInspector`, `NotificationPane`, `WatchEpisodes` and `HistoryTimeline` | `FrontendProofs` |
| `WindowListProofs` | theorems of `NotificationList`, `ActivityFeed` and `ScheduleDraft` | `FrontendProofs` |
| `WindowBoardProofs` | theorems of `SeasonStore`, `EpisodeCard`, `DownloadStore`, `TodayBoard`, `RunHistory`, `OrderingBoard` and `EditorRecord` | `FrontendProofs` |
| `FrontendProofs` | theorems of `MCFrontend` | |

Definitions named after a *mutant* in a comment are deliberately wrong variants
of the operator that follows them; nothing uses them.  Each shows that one
property would catch that mistake.

### `AnimeSave`
A save is one action because `CommitSave` is one transaction; a crash leaves it
whole or undone.  What interleaves is everything outside it.  A *base* is any
version the anime ever had (`versions`), since a client may hold one for as long
as it likes; `SaveOne` compares its token with the stored one as
`decide` does, `ApplyBatch` does so for every item before anything is stored.  A
write without a base is allowed and is not checked, as in the code.  Clock
readings are drawn per transaction from `1..MaxNow` in no order: they repeat and
step back.  Names are folded names, and the unique index is checked after every
upsert of a batch in its order, as SQLite does.  The season rule reads the open
season inside the transaction; which animes it created may change between saves,
so it is any subset.  `LateRow` is a row written after the transaction it
announces (new episode durations, a changed season projection): it carries the
snapshot stored by then.  `Prune(k)` takes any `k`; which one it is belongs to
`DeviceSync`.
`shown`, `head` and `versions` are history variables no guard of the code reads,
except that the version of a base stands for the token the client sends.

### `DeviceSync`
Every SQL statement is an action.  A reconcile goes through
`AcknowledgeCursor`, `ReadAcks`, `PruneAcknowledged`, `ListRows`, `ReadLastId`,
`Respond`; a websocket message ends after the prune.  Any step may fail, be
cancelled with the phone's connection, or end with the process (`Cancel`,
`Restart`).  A phone that sends a new request no longer waits for an older one,
whose answer is then dropped, but the older one keeps running.  Pairing and
revoking are two statements each and the second may fail.  `WriteRow` is the
whole of `AnimeSave` as this module needs it: an anime gets a row with the next
id.  An import replaces the set of existing animes and leaves the changelog.
Time is abstracted to what the evaluation makes of a device: any status its
thresholds allow, and never an earlier one.
`lastRow` and `owed` are history variables.

### `Scheduler`
Goroutines interleave between the statements of `executeRun`: `Acquire`,
`StoreCancel`, the callback (`Returns`), `ReleaseGuard`, `DeferredCancel`, then
the statements on the store.  The callback is external: it returns ok or error
at any time, or never.  The loop reads (`ReadConfig`), plans (`Plan`), waits
(`EndWait`, without a due instant) or sleeps (`EndSleep`), fires, and waits for
its run.  `sleepUntil` selects among ready channels, so any ready one may win.
The wake channel has one slot: `wake`.  Days are blocks of `DayLength` instants
and weeks of `WeekLength` days; daylight saving and time zones are left out.
`succeeded` is a history variable.  Stop cancels the loop's context: a scheduled
run's context is derived from it and its store statements then fail; a manual or
missed run is cancelled only if its cancel is the stored one.

### The screens: conventions
A binding call is a record in a set: made by an action of the user or an effect,
*served* by the backend at some later moment, when what it answers is read or
written, and *answered* some time after that, in any order.  Where a handler
checks a ref, a generation or an active flag, the record carries what the closure
captured.  `stored` (or the like) is the backend's side, and another device, a run
or an analysis may write it between any two steps.  An effect that runs after
every change of its dependencies is part of the action that changes them.  Sets of
calls, visits, versions and pushes are bounded by the `Max...` constants.

* `KeysetPages`, `WatchEpisodes`, `HistoryTimeline`: `fetchPage`'s generation,
  `isFetchingRef`, the cursor, retries; expanding and collapsing an accordion item
  (`use-anime-watch-episodes.ts`), or changing filters that wait for the catalogue
  (`use-history-timeline.ts`).  `overtaken` remembers that a superseded answer
  lowered the fetching ref: a page may then arrive twice (see 3).
* `HistoryInspector`: three effects with a clean-up each.  Commit and effects of
  one render are one step.
* `NotificationList`: `useNotificationsListSync`: a push only asks for a refresh of
  the top page, which is merged (`mergeRefreshedTopPage`) below the rows loaded;
  bulk marks and archives re-fetch; the archive event removes a row.  `gapped`
  remembers a burst longer than a page, of which the refresh leaves a hole.
* `NotificationPane`: the pressed record, its read mark, archive and unread
  buttons; every mutation answers with the unread count of the moment it was
  served, and a push raises the badge by one.
* `AnimeDetail`: `useAnimeDetail` and `useAnimeDetailMutation`: a visit starts a
  load with an active flag and cleans up the last one; the dialog captures the
  version; a mutation carries the generation of its visit, and its answer reloads.
* `SeasonStore`: `load`, `viewPastSeason`, `exitPastSeason`, optimistic settings
  that roll back or reload, `ensureAnimes`, matching events in the order they were
  sent, the panel that listens only while it is open.
* `EditorRecord`: `useAnimeEditorRecord`: `requestSequence` guards loads; save and
  lifecycle commands race a timeout; a conflict shows the authority and keeps the
  draft; the guard over unsaved edits (stay, discard, save and continue).
  `typed`, `late`, `warned`, `strayed`, `droppedBy`, `overwrote` are history.
* `ScheduleDraft`: the modal's board (`placed`, staged cards without a day), its
  moves with reindexed columns, the payload (placements of the animes that
  changed), and the backend's validation, staleness check, merge and reflow
  (`anime/schedule_board_service.go`) as one action: they are one call.
* `EpisodeCard`: per-anime loads and saves under a sequence, the one analysis at a
  time, its cancel, the review that turns measured values into edits.
* `ActivityFeed`: request ids, the first page, older pages by the cursor, the
  live refresh.  A line has a place in the order of the feed (time, source, id), and
  `AtMs` gives the millisecond of each place, which neighbours may share: pages and
  cursors go by place, `mergeLivePage` by millisecond.  What is recorded is listed
  anywhere: an hour's line of traffic is dated at the hour's start
  (`feed_sources.go:108`), and an event moves its System group to its own time
  (`feed_system.go:84-92`), so that the place the group had is nobody's.  `inserted`,
  `regrouped` and `seams` are history: lines recorded below one a page had passed,
  places groups moved on from, and the last lines of pages merged over older ones.
* `OrderingBoard`: drag and autosave timer (600 ms is "some time"), the reset, the
  apply, which applies the draft *stored*, and the backend's commands that read
  the season's row and write it back whole in two steps.
* `TodayBoard`: the filter, the two lenses (daily, season), the probe for a season,
  reads that replace whatever is shown, and the two writes of a card, each with the
  token of the row it was pressed on.
* `DownloadStore`: the shared store's `refresh` with a request id, the panel that
  saves the whole schedule with one field edited, the missed-day notice and its
  resolution, run and settle events.
* `RunHistory`: the run's row, its events, and the queue that stores its steps
  after they were announced and announces them again; the list that each event
  reads again, the rows revealed of it, the story of the run shown, and Stop.
* `KeymapPanel`: overrides over shipped chords, the collision check, the store's
  document, publication after a write's answer, resets and imported backups, and
  `resolveCommand` over global and page scopes.  Documents of a former session or a
  backup are any: nothing that reads or stores one compares its chords
  (`keymap-load.helpers.ts:24-31`, `keymap.helpers.ts:52-78`, `app_preferences.go:157`).
  `brought` and `tookBack` are history: the pairs that such a document, or a revert,
  gave one chord.
* `MetadataLookup`: debounce, cache, `reqSeq`, highlighting, the cover read and
  the confirm that fetches a page.
* `LibraryRoot`: the panel, its preview and its dialog, and `SetLibraryRoot`, which
  rewrites one folder at a time and stores the root only if all went well.

`AnimeDetail` implements `ConfirmedChange`: a page that shows stored versions and
confirmed changes, each decided once, applied only if the stored version is the
one confirmed.  The refinement maps the page's snapshot, if it is of the route, to
`shown`, and calls not yet served to `promised`.

### `MCFrontend`
The screens do not share state in the code: they meet in the backend, which each
module carries the part of it needs.  So they are composed as a choice: `screen`
is picked at the start, that screen's `Next` is the step, and variables of other
screens are `Off`.  Variables of two screens with one name are one variable, which
keeps a state small; properties are prefixed by the screen they are about.  One
run then asks all screens the same questions, and costs the sum of their states.

## 3. What is checked

Sizes are TLC's distinct states.

| Run | Question | Result |
|---|---|---|
| `anime_saves` | two animes, two names, three saves, three rows, a two-valued clock: are versions chained, tokens growing, the feed ordered, complete and convergent? | holds (54k) |
| `devices` | two devices with one anime and one request at a time, and one phone with two requests in flight and two animes; two rows: is a row an active device lacks ever deleted, is an ack ever ahead of the phone, do acks, cursors or lists go back? | holds (0.93M) |
| `scheduler` | two run goroutines over two days, and three schedules (every day, no day, disabled) around one run: one run at a time, days settled rightly and finally, changes heard, Stop reaching a starting run? | holds (2.8M) |
| `frontend` | nineteen screens: does each end up showing what is selected and stored, keep edits made by hand, apply only what was confirmed, and stop waiting? | holds (0.48M) |
| `scheduler_empty_week` | "Empty weekday set ... never fire" | violated |
| `scheduler_unwind` | a run that unwinds leaves a later run alone | violated |
| `scheduler_wedged` | a wedged run frees the guard at its deadline | violated |
| `device_skipped_row` | an answer holds every row up to the cursor it hands out | violated |
| `device_warned` | a warned device's rows are still kept | violated |
| `device_revoked` | a revoked device stays revoked | violated |
| `feed_ties` | a live refresh keeps every loaded line below the fresh page | violated |
| `keymap_reverts` | a revert leads back to shortcuts free of conflicts | violated |

### The properties
* `NoLostUpdate`: a write that carried a base replaced exactly the version it
  was read from.  It relates what a client read to what the save overwrote, any
  number of saves later.
* `FeedInOrder`, `RowsPassWhatPhonesSaw`: a phone drops a row whose timestamp
  does not pass the last it applied, so rows of one anime must pass every earlier
  one, also rows that are pruned.  This is why the prune keeps the last row of
  every anime (`PruneAll` and `PruneKeepsOne` break it several saves later).
* `FeedConverges`: the last row of an anime carries what is stored; a late row
  that carried the snapshot its writer had read would not.
* `RowsDescribeSaves`: a row names every field of the change, those the season
  rule moved included.
* `TokensGrow`: no snapshot changes under the token a client read it with.
* `OwedRowsKept`: the lowest ack is read in one statement and used by the next;
  acks, pairings, saves and revokes in between delete no row an active device
  lacks.
* `AcksAreHeld`: the bridge acknowledges what the phone *sent*, so a lost answer
  costs a repetition and never a row.
* `AcksNeverGoBack`, `CursorsNeverGoBack`, `ListsCatchUp`: late requests, an
  empty changelog after a restore, and pruned rows never take a phone back, and
  every list says where each changed anime ended up.
* `OneRunAtATime`, `SettledDaysSucceeded`, `SettlementsAreFinal`,
  `ChangesAreHeard`, `StopReachesScheduledRuns`: see the comments in `Scheduler`.
* `ShownIsPrefix`, `RowsOnce`, `PaneIsOfOneAnime`, `ShowsWhatIsViewed`,
  `FeedbackIsHonest`: whatever overtakes what, a screen never mixes two questions'
  answers.
* `ListSettles`, `PaneSettles`, `SeasonSettles`, `RowsSettle`: with nothing on its
  way, a screen shows what is stored.  These catch an event nobody listens to, an
  optimistic change nobody rolls back, a refresh that is dropped.
* `EditsSurvive`, `HandValuesStay`, `DraftKept`: what the user typed or dragged
  leaves only when the user, or the code knowingly, drops it.
* `OthersSurvive`, `KeepsItsPromise`, `AppliedIsTheDraft`, `ConfirmedIsShown`: a
  command applies what its screen showed, and never over a version it had not.
* `DraftsAreTaken`: the backend refuses no draft of the board it answered.
* `CommandsAnswer`: the check on rebinding, the resets and the backups together
  leave no listed chord that runs another command, and none that runs a second one
  but for the pairs a revert or a document from outside the panel gave it.
* `NobodyIsStranded`: the root is kept back while a folder under it could not move,
  as long as one change is carried out at a time.
* `WaitsEnd`: every spinner and disabled button ends.

A property whose screen has an exception names it, as a history variable or a
condition (`overtaken`, `strayed`, `torn`, `tookBack`, `hung` and so on); the
exceptions are listed below.

### The violations
Each quotes the line it contradicts in `PROJECT.json`.
1. *An enabled schedule without a weekday fires.*  `nextScheduledBoundary`
   returns the zero time and the idle wait's `true`; the loop then sleeps until a
   time long past and fires.  The existing test misses it because its fake timer
   does not elapse at a zero duration.
2. *A run's deferred cancel may cancel the next run.*  It runs after the guard is
   released and calls whatever cancel is stored by then.
3. *A callback that never returns keeps the guard*, although the comments and the
   specification say the deadline frees it.  Checked under `FairSpec`.
4. *A row may be skipped.*  It is written between the list and the read of the
   last id: not listed, but below the cursor handed out.
5. *A warned device no longer holds rows back*, although the warning says "if it
   does not reconnect soon".
6. *A revoked device may become active again* through a request authenticated
   before the revoke or a websocket still open.
7. *The activity feed loses a line that shares a millisecond.*  The backend orders
   lines by time, source and id so that pages never "repeat or skip a row, even when
   rows share a millisecond" (`cursor.go:11-14`), but `mergeLivePage` keeps only loaded
   lines of an earlier millisecond than the fresh page's last one, and the old cursor.
   A loaded line of that millisecond just below it is dropped and never read again,
   unless the query is chosen anew.
8. *Reverting a shortcut may give two commands one chord.*  Rebind A from x to y,
   B to x, revert A, and both answer x, although `use-keymap-panel.ts:143-146` says
   that removing an override "can only ever narrow the candidate back toward the
   shipped registry", which is "conflict-free".

Other differences met while modelling, which no run of its own shows:
* A manual run stores nothing of its result (`scheduler_contracts.go:63`), while
  `openspec/specs/download/scheduler.md:36-40` wants `last_run_at` and
  `last_run_status` to reflect "a scheduled or manual run".
* A save that the season rule turns back into the stored snapshot is applied,
  stamped and published but leaves no row, while `docs/openapi.yaml:438` says
  "each anime save still leaves exactly one changes-feed row".  The feed still
  converges: the row would have carried the snapshot the last one carries.
* `docs/openapi.yaml:771` lists the sync statuses without `warning`.
* A scheduled run is marked after its guard is free, so its older start time may
  overwrite a later `last_run_at`.

Differences on the screens, which the `frontend` run's properties except by name:
* *Episode lists*: a superseded answer lowers `isFetchingRef`, so the page a newer
  generation is reading can be asked for twice; re-expanding reads again, though
  the comment (`use-anime-watch-episodes.ts:127-129`) says it is instant "and
  spends no binding call".
* *Notification list*: the answer of a filter left replaces the rows of the one
  chosen; a bulk action refreshes the view it was pressed in; a refreshed page that
  passes the cursor repeats rows; the archived view's refresh misses an older
  record just archived; a burst longer than a page leaves a hole below the refreshed
  one (`use-notification-center-page.ts:88-94`).  *Badge*: archiving an open unread
  record leaves the count; the count read at the start and a push may both count one
  record; counts are applied in the order they arrive.
* *Season store*: a run aborted while the panel is closed, and a failed reload,
  leave stale rows; overlapping settings roll back to each other's value.
* *Editor*: a lifecycle answer after the selection moved shows the other anime; an
  answer drops what was typed since; a load that throws leaves the last form; the
  draft kept after a conflict writes untouched fields back; "Stay" during save and
  continue does not stop it.
* *Schedule modal*: a parked card with a drop in its column stores another order
  or is refused; an anime with one card parked and one moved loses the parked one;
  when an anime left since the board was read and its column has gaps or two cards of
  one place, the order applied is not the draft's (`anime/schedule_service.go:140-150`);
  a stored gap refuses a drop at the end; an answer with a board replaces the draft.
* *Durations card*: a review confirmed while a save is out is wiped; a late cancel
  may stop the next anime's analysis; leaving during a save leaves old rows.
* *Activity feed*: a burst longer than a page leaves a hole; an older page may
  answer a moved cursor; a failed change of filter followed by a live refresh mixes
  two queries; a failed refresh leaves the head stale.  A line recorded below a page
  already read, such as the first of an hour's traffic, is shown only when a first page
  reaches that far; a System group that moved is shown at its old place too until one
  does.
* *Ordering board*: after a draft save failed, Apply applies the draft stored
  before; an autosave that overlaps an apply restores the draft and unsets
  `applied_at`; an edit within 600 ms of leaving, or made during a load, is lost;
  boards answered out of order replace newer ones; Apply undoes schedule edits made
  elsewhere.
* *Today board*: a write's answer refreshes the filter it was pressed in; older
  answers replace newer ones; the probe overrides a day picked before it; a refused
  write's message replaces the board, though `use-episode-progress-commands.ts`
  says it "changes nothing else"; a write whose activity record fails is answered
  as failed though stored.
* *Downloads*: a failing read answers an empty schedule, which the next save
  stores; `await refresh()` also resolves when its answer was superseded, so the
  panel may save an older schedule back; events before the first load are dropped.
* *Run history*: Stop ends whichever run is in progress, not the one shown; a
  refusal that arrives late releases a later stop; `use-run-history-stop.ts:8-10`
  sees "no way to get stuck", but a run whose row could not be finalized stays
  "running" and keeps the control busy; a failed read shows as an empty history
  (`app_download.go:345-348`); the effect moves `previousRunCountRef` before React
  may run the updater that reads it, so a list revealed whole need not stay so; a
  failed read of a story keeps the one before; events before the first load are
  dropped.
* *Shortcuts*: a document that gives two commands of a scope one chord is taken as it
  is, and the first of them in the registry answers; after a failed save the panel, its
  Reset too, gives way to the alert; a failed read answers no overrides and the next
  save drops the stored ones; overlapping saves lose one.
* *Metadata lookup*: a cached or short query does not supersede the read before it;
  a candidate stays highlighted while its results are replaced; a confirm answered
  after Cancel still fills the form; a search or a page that throws leaves the
  dialog waiting.
* *Library root*: Confirm saves the text in the field, which may have changed since
  the preview; a save that fails halfway leaves some animes under the new root; a
  load answered late overwrites what was typed; a panel left during a save and
  opened again starts a second change while the first moves animes, nothing keeps
  the two apart (`app_preferences.go:61-71` holds no lock), and the one that ends
  last may leave animes under the other's root.
* Not modelled, seen beside them: `HosterPriority` keeps an order the store refused
  (its doc: "rolled back … if persistence fails"); `AutoStart` reports an error for
  a value that was stored; `CreateForm`'s Undo may be stale.

### Bounds, symmetry and views
* `AnimeSave`: `MaxEvents` saves, `MaxRows` rows, clock readings `1..MaxNow`.
  Three saves are enough for a base two versions old and a stamp raised twice;
  `MaxNow = 2` gives a repeated millisecond and a step back.  `Slices` keeps the
  run to two slices of one instance: every change of one anime with one name, and
  the renames and batches of both animes while none is watched or moved; what the
  second adds is order, floors and the unique index across animes.
* `DeviceSync`: `MaxRows` ids.  Two rows suffice for a row to be pruned and
  another kept; two devices for the minimum of two acks; two slots for two
  requests of one phone out of order.  `Slices` keeps the run to two slices of one
  instance: two devices with one anime and one request at a time, where the other
  device interferes by pairing, revoking, acknowledging between requests and
  restarts, and all that one device does with two animes and two requests, its
  websocket included.  What a websocket's message does for retention is the first half
  of a request over HTTP, which the first slice has; a request under way when its
  device is revoked stands for an open socket there.
* `Scheduler`: `Runs` goroutines alive at once, the clock `0..MaxTime`, one save
  of the schedule waiting to notify.  Two run goroutines are the runs that can
  overlap: one before and one after the release of the guard.  `Slices` keeps the run
  to two slices: days, with the schedule left alone, and the schedule saved, heard
  and stopped around one run up to the first due instant, since a signal concerns
  the loop and one run.  Days of three
  instants have one before, at and after the due one; five instants cross a
  midnight and reach the next day's due instant.
* The screens (`MCFrontend`): 1 or 2 rows per page and 2 to 6 rows, so that there
  are a page before, at and after the cursor; 2 or 3 calls in flight, the smallest
  number at which one overtakes another and a third depends on it; two animes,
  fields, seasons, since a wrong answer is one about the other; three animes on the
  schedule board, for a column that is reindexed around a card; five places in the
  activity feed, two of one millisecond and two of System groups, with three lines at
  first and pages of two, so that a page may end inside the millisecond; shortcut
  documents that leave the first command alone, give it the second one's chord or that
  of a page's command; one anime on the
  Today board and under the library root, where what interferes is another read or
  write of it; two runs in the run history, with one press, failed read or report
  of progress at any moment.  Versions, pushes and foreign writes are 1 or 2.
  Larger instances, run once and not part of `PROJECT.json`, hold as well: watch (24k states),
  History (4.7k), pane with six calls (0.85M), season store (0.65M), schedule
  (0.61M), durations (0.36M), Today with five calls (0.15M),
  downloads with three (1.9M), run history with two (0.22M), library root with two
  calls (0.17M) and with two animes (77k); list and anime page were cut off at 6M and 2.7M states without a
  violation.
* Symmetry permutes names, animes, devices, slots and run goroutines, which no
  definition tells apart; no run with symmetry checks liveness.
* `scheduler` uses the view `WithoutRecords`.  Who cancelled a run is read by no
  guard except to be kept, and by that run's properties only as whether anyone did; the
  recorded missed attempt is read by none but `TypeOK`.  States that differ only there
  have the same futures for them.
* Deadlock is checked in every run but `frontend`, `feed_ties` and `keymap_reverts`: a
  restart, a send or a save is always possible.  A screen whose calls are bounded and
  answered really stops.

### Fairness
`Scheduler!FairSpec`, used by `scheduler_wedged`: weak fairness of each run's own
steps, which the Go scheduler gives every ready goroutine and
`context.WithTimeout` gives the deadline.  Nothing is assumed of the callback, the
user or the clock.
Each screen's `Spec` has weak fairness of its answers: a Wails promise is settled
by the backend, pushes that were sent are delivered in the same process, a command
raced against a timer is timed out, and a matching run ends.  Nothing is assumed
of the user, of other devices, or of an answer being a success.  `MCFrontend`
states one condition for the chosen screen, since only that screen takes steps.
The other runs check safety and action properties, which need none.

## 4. What is proved

`AnimeSaveProofs` proves, for every value of the constants that satisfies the
assumptions of `AnimeSave` (bounds are naturals, `NoSnapshot` is no snapshot,
`NoBase` is no event, progress is a set of naturals with 0, `Animes` is finite):

| Theorem | Property |
|---|---|
| `TypeCorrect` | `TypeOK` |
| `NoSaveIsLost` | `NoLostUpdate` |
| `FeedStaysInOrder` | `FeedInOrder` |
| `FeedAgreesWithStore` | `FeedConverges` |
| `RowsAlwaysPass` | `RowsPassWhatPhonesSaw` |
| `TokensAlwaysGrow` | `TokensGrow` |
| `RowsSayWhatChanged` | `RowsDescribeSaves` |

The argument.  None of these is inductive alone.  That an equal token means an
equal version (`EqualTokenIsHead`), which the whole of optimistic concurrency
rests on, needs that the versions of an anime carry strictly growing tokens
(`VersionsInOrder`) up to the stored one (`HeadIsStored`), which in turn needs
that every stamp passes the token it replaces (`StampsPassToken`).  That a new
row passes all earlier ones, pruned ones too, needs that the last row an anime was
given is still stored when any is (`ShownIsKept`, `LastRowExists`), which is what
the prune's second clause is for.  That the last row carries the stored snapshot
needs that no row is about a version newer than the stored one (`RowsNotAhead`)
and that a save without a row stores what was stored (`NoFieldSameSnapshot`).
`Inv` is the conjunction; `SavesAreGood` reduces create, update and batch to one
`CommitSave` with good items, and the step proofs have one step per conjunct.

`SchedulerProofs` proves, for any number of run goroutines, any schedules and any
length of clock, days and weeks (`ScheduleConstants`: the lengths are positive,
a due instant lies within its day; `FreeIsNoRun`):

| Theorem | Property |
|---|---|
| `TypeCorrect` | `TypeOK` |
| `OneRun` | `OneRunAtATime` |
| `ChangesHeard` | `ChangesAreHeard` |
| `SettledDays` | `SettledDaysSucceeded` |
| `StopReaches` | `StopReachesScheduledRuns` |
| `SettlementsFinal` | `SettlementsAreFinal` |

The argument.  `TypeOK` needs that the instant the loop sleeps for is one: a set
of days that is not empty has a first (`FirstDay`, from the well-foundedness of
`<`), so the next boundary is a due instant or 0.  It also needs that a stored
cancel belongs to a run in progress (`CurrentInProgress`), or cancelling it would
write where no run is.  `OneRunAtATime` rests on `GuardHeld`, a run in progress
implies the guard: the guard is freed by the run that holds it and taken only
when it is free.  `RunLife` states once what any step does to any run: it starts,
with the guard taken, or goes on by one place.  Exclusion, `StopReaches` and
`SuccessesAreRecorded` (a run to be settled has its day among the successes) are
read off it, and `SettledDays` from the last.  `ChangesAreHeard` needs
`PlansAreHeard`, the same fact for a loop that has read and not yet planned, and
`RetryWithoutInstant`: a wait without a due instant goes on to a sleep until 0,
which swallows no wake-up because it ends at once.

`DeviceSyncProofs` proves, for any finite set of devices, any animes and request
slots and any number of rows (`DevicesFinite`, `DeviceSyncBounds`):

| Theorem | Property |
|---|---|
| `TypeCorrect` | `TypeOK` |
| `OwedRowsStay` | `OwedRowsKept` |
| `AcksHeld` | `AcksAreHeld` |
| `AcksGrow` | `AcksNeverGoBack` |
| `CursorsGrowOnly` | `CursorsNeverGoBack` |
| `ListsAreComplete` | `ListsCatchUp` |

The argument.  `Inv` is the conjunction of five parts.  `Within`: no ack, cursor or
row id is past the last id given.  `LastRowsStored`: the last row of an anime that
exists is stored, which both the list's completeness and an empty answer's cursor
need.  `RequestsAreHeld`: a request carries at most its phone's cursor, and exactly
that while the phone waits for it; `OneAwaited`: a phone waits for one request, so
the answer that moves the cursor moves it from where that request read it.
`AcksAreHeld` follows, and that cursors do not go back, since an answer is at least
what its request carried.  `PrunesAreOwedNothing` closes the gap between the two
statements of a prune: a limit read from the acks stays under every row owed to an
active device, whatever is acknowledged, paired, saved or revoked in between,
because acks only grow and a device that becomes active owes itself nothing old.

`AnimeDetailProofs` proves `PageKeepsItsPromise`: `AnimeDetail` implements
`ConfirmedChange` (`KeepsItsPromise`), for any animes, visits, calls and versions.
Steps are mapped to steps with the help of three facts: calls have tickets of
their own (`OwnTickets`), so that deciding one takes one promise away; whatever
version a call carries or the page shows was stored (`HeldWasStored`); versions
start at one (`StoredFromOne`).

The same module proves `PageFeedbackIsHonest` (`FeedbackIsHonest`): an alert is of
this visit's change, because what a mutation's answer finds under way is the one it
answers or a later visit's, which it leaves alone.  `PageIsTyped` (`TypeOK`) rests on the same invariant.

`WindowPanelProofs`, `WindowListProofs` and `WindowBoardProofs` prove the safety of
the other screens, each for any values of its constants under the assumptions at the
head of its part (`KeymapAssumptions`, `ListAssumptions` and so on):

| Theorem | Component | Properties |
|---|---|---|
| `KeymapIsSafe` | `KeymapPanel` | `TypeOK`, `CommandsAnswer`, `RowsSettle` |
| `LibraryRootIsSafe` | `LibraryRoot` | `TypeOK`, `MovesAreConfirmed`, `NobodyIsStranded`, `RowsSettle` |
| `LookupIsSafe` | `MetadataLookup` | `TypeOK`, `HighlightedIsShown`, `ResultsSettle` |
| `InspectorIsSafe` | `HistoryInspector` | `TypeOK`, `PaneIsOfOneAnime` |
| `PaneIsSafe` | `NotificationPane` | `TypeOK`, `PaneSettles`, `BadgeIsTheCount` |
| `WatchIsSafe` | `WatchEpisodes` | `TypeOK`, `ShownIsPrefix` |
| `HistoryIsSafe` | `HistoryTimeline` | `TypeOK`, `ShownIsPrefix`, `DaysAreComplete` |
| `ListIsSafe` | `NotificationList` | `TypeOK`, `RowsOnce`, `ListSettles` |
| `FeedIsSafe` | `ActivityFeed` | `TypeOK`, `ShownIsPrefix`, `FeedSettles` |
| `ScheduleIsSafe` (`WindowListProofs`) | `ScheduleDraft` | `TypeOK`, `AppliedIsTheDraft`, `DraftsAreTaken` |
| `SeasonIsSafe` | `SeasonStore` | `TypeOK`, `ShowsWhatIsViewed`, `SeasonSettles` |
| `CardIsSafe`, `HandValuesAreKept` | `EpisodeCard` | `TypeOK`, `EditsSurvive`, `RowsSettle`; `HandValuesStay` |
| `ScheduleIsSafe` (`WindowBoardProofs`) | `DownloadStore` | `TypeOK`, `EditsSurvive`, `RowsSettle` |
| `TodayIsSafe` | `TodayBoard` | `TypeOK`, `OthersSurvive`, `RowsSettle` |
| `RunsAreSafe` | `RunHistory` | `TypeOK`, `SelectedIsVisible`, `RowsSettle` |
| `OrderingIsSafe` | `OrderingBoard` | `TypeOK`, `DraftKept`, `AppliedIsSeen` |
| `EditorIsSafe` | `EditorRecord` | `TypeOK`, `FormIsOfSelection`, `EditsSurvive`, `OthersSurvive` |

The arguments, each an inductive invariant of its own.
- Shortcuts: the commands of a scope that share a chord in what is stored, published or
  on its way to be saved did so in a document from outside the panel or after a revert
  (`Known`, `AllKnown`), as one override changed by a rebind shares no more than before
  (`KeymapOneChanged`).  Of the documents nothing is assumed, of the shipped chords that
  no two of a scope are one.  Calls that have not crossed are one at a time, and
  what that one will publish is the stored document or the one in force (`Telling`).
- Library root: of calls that are not reads there is one at a time until the panel is
  left (`OneChange`); a change under way is on the screen (`ChangeOnScreen`), and whoever moves folders knows every anime under the old root
  (`MoversKnowAll`).  An anime whose folder was changed twice by others in between is
  named by the history variable `doubled`, and excepted.  The call under way leaves the
  panel with the stored root, whatever its answer (`Keeps`).
- Lookup: a candidate is highlighted only while its results cannot change
  (`ResultsAreStill`).  The newest search is of the query in the field; without one the
  query has been answered (`SearchIsOfQuery`).
- Inspector: a request whose effect is still active asks about the selected anime
  (`ActiveAsksSelected`), so only its answer shows; the rows and the cover are cleared
  or of the selection (`RecentsOfSelected`, `CoverOfSelected`).
- Pane and badge: unless calls have crossed or a read is known to come too late, what is
  shown, with the pushes and answers still to be delivered applied in their order, is
  what is stored (`PaneTold`); a mutation and the push of one record are counted by
  cardinalities of the records not read (`UnreadIsCounted`).
- Lists of episodes: until a superseded answer lowers the fetching ref, there is at most
  one request of the current generation, it asks for what follows the last row
  (`OneRequest`), and the rows are the first ones of the log (`InOrder`).  That the days
  of the History list are whole needs in addition that the log is in the order of its
  days (`DaysFollow`), which the query's `ORDER BY watched_at_ms` gives it
  (`watchhistory/store_page.go:202`).
- Notification list: one page that replaces or follows the rows is fetched at a time
  (`OneFetch`).  A page served holds records of its view, or ones whose archiving is still
  to be heard, and lacks only older ones and newer ones still to be asked for (`Sound`),
  unless what is shown is, or will be, of a later commit (`Outdone`); so are the rows
  (`RowsSound`).
- Activity feed: shown lines and every page read go downwards through the lines of their
  query and leave out, above their last line or the cursor, only those recorded late and,
  on the screen, those of a millisecond that a merged page ended in (`Run`, `Bottom`,
  `LinesRun`); a page read below a cursor begins right under it (`Under`), and a merge
  joins runs that overlap (`LiveCovers`, `OlderFollows`).  The list begins with the page
  of the newest lines, or a call or a notice that will make it so is on its way (`Tops`,
  `Owed`, `NewestOwed`).  The milliseconds of places may be any that do not fall.
- Schedule modal: a column is its seats, 0, 1, 2 and so on (`SlotsFit`); the draft's
  columns hold each card once, of the animes on the board (`DraftFits`), whose columns
  are those of the store (`BoardIsRead`); an anime the board lacks was modified after it
  (`JoinedIsLater`), so the staleness check refuses the board.  What an apply leaves
  (`ApplyIsOfTheDraft`) is compared with the draft by column: one that was reflowed, one
  written from the payload as it is, and one that nobody touched.
- Season: while no closed season is viewed, the season and rows shown are the open
  one's whatever came late, since a setting is pressed on the open season only and
  leaving a closed one leaves nothing of it.  Without a setting on its way the grade is
  the stored one, and one alone leaves it so (`GradeOwed`); a matched row not shown is
  being read or told by an event on its way (`RowsOwed`).
- Episodes card: while the save that would empty the draft is out, the draft is what it
  carries but for late readings (`CarriesTheDraft`); one analysis at a time is the
  current one (`OneAnalysis`).  A save of an anime not left meanwhile is the one whose
  answer empties the draft (`SavesAreOfThis`), and unless it was stored and waits for that
  answer, the rows and the read that brings others are the stored ones (`RowsKept`).
- Downloads: unless it is known to be left behind, the panel shows what is stored or what
  the one save under way will store (`PanelKeepsUp`).  Once every event is heard and
  no stored save waits for its answer, the one read that is applied brings the stored
  schedule, and without it the panel has it (`ShowsStored`); so for the alert of a day
  already settled (`AlertsPending`).
- Today: a row on the screen, in an answer or in a card's command was the store's, so
  with the token of the stored row it is that row (`TodayInv`).  With no push to be heard,
  the read under way of the highest ticket brings the stored rows, and without one above
  what is shown, the board has them (`BoardSettled`).
- Runs: every change of the list or of the selection reveals the rows down to the one
  selected (`RunsReconciled`), and in between they only grow.  The types need that the
  steps logged are bounded: a run logs one when it starts and one when it is over
  (`RunsLogged`), and only runs that exist are shown, asked for and announced
  (`RunsListed`, `RunsAsked`).  The list being read, or else the one held, is the stored
  one unless an event waits or was dropped (`RunsCaughtUp`), and the story being read, or
  else the one held, is of the run shown with all its steps but those announced since
  (`RunsTold`).
- Ordering board: unless an exception has spoiled it, one call that may write or replace
  the board is out at a time (`OneCall`), in the order the buttons allow (`InTurn`), and
  carries the draft the user sees (`Carries`); with none out but a save, the board shown
  is the stored one (`AtRest`).
- Editor: the form is held by at most one command or the read it waits for
  (`OneHolds`), reads are numbered (`ReadsInOrder`), a form that is not dirty has
  nothing typed on it (`CleanIsUntyped`), a save carries what was typed
  (`SaveCarries`), and a version of an anime has one content (`HeldIsOfStore`).

`FrontendProofs` carries these over to the composition, `MCFrontend`, with what its
constants may be in `FrontendAssumption` (there is an anime; the absent value is
none of the program's), which TLC evaluates:

| Theorem | Property |
|---|---|
| `EverythingIsTyped` | `TypeOK` |
| `PaneKeepsOneAnime` | `PaneIsOfOneAnime` |
| `PaneIsSettled` | `PaneSettles` |
| `ShownAreInOrder` | `ShownIsPrefix` |
| `RowsAreOnce` | `RowsOnce` |
| `ListIsSettled` | `ListSettles` |
| `AlertIsHonest` | `FeedbackIsHonest` |
| `PageIsTrue` | `KeepsItsPromise` |
| `ShortcutsAnswer` | `CommandsAnswer` |
| `DialogsAreHonest` | `ConfirmedIsShown` |
| `RootLeavesNobody` | `NobodyIsStranded` |
| `ViewedIsShown` | `ShowsWhatIsViewed` |
| `SeasonIsSettled` | `SeasonSettles` |
| `RowsAreSettled` | `RowsSettle` |
| `DraftIsKept` | `DraftKept` |
| `DraftsAreApplied` | `DraftsAreTaken` |
| `AppliedIsWhatWasSeen` | `AppliedIsTheDraft` |
| `NothingEditedIsLost` | `EditsSurvive` |
| `NobodyIsOverwritten` | `OthersSurvive` |
| `HandValuesAreKept` | `HandValuesStay` |

The screen never changes, and while it is a component's, a step is that component's or
leaves its variables alone (`ScreenRuns`): it keeps the component's invariant, and for
another screen there is nothing to keep (`WindowHolds`).  There the bounds of the runs
apply, and animes, fields, episodes, rows and settings are any.

Three operators were first written with cases that overlap (`ReconciledAlone` of
`RunHistory`, `Status` of `HistoryInspector`, the run in `Hear` of `SeasonStore`).
TLC takes the first case; TLA+ leaves the value open, and nothing could be proved of
it.  They are now written in the order in which the code tests.  The lists
(`NotificationList`, `ActivityFeed`, `ScheduleDraft`) were first written with folds and
selections of the community modules; these are recursive functions over sequences, of
which a fact for every length would need an induction, and the lists are now functions
of positions (`Subsequences`), of which facts follow from cardinalities and the
well-foundedness of `<`.

So every invariant and every action property of a passing run is stated by a theorem.
Only model-checked are the violations, and liveness, which is out of the prover's reach
(`WaitsEnd`, and among the violations `DeadlineFreesGuard`).

## 5. Not modelled

The map covers about 5% of the TypeScript under `src/`, and could not honestly
cover 30%: of its 835 files most are React components (layout, styles, wording),
types, constants, formatting, parsing of files and pages, and tools that lint and
build the repository.  They keep no state between two events, or one that is
written and read within one handler; a module of them would restate an assignment
or a string operation.  Modelled are the hooks and stores that hold state across
an `await`, and, in Go, the handlers and stores where statements of several actors
interleave.  Left out of the modelled parts:

* `AnimeSave`: conflict rows (two of one anime in one millisecond share an id),
  the notices published after the commit (possibly in another order than the
  commits, or not at all after a crash), the import of a backup (which deletes
  rows and brings back old tokens), the content of a snapshot beyond one name,
  one section and one counter.  A save the season rule turns back into what was
  stored drops its row but not its notice or its token.
* `DeviceSync`: the operations a reconcile carries, which are saves, and their
  retry after a lost answer; the presence a device shows; the wording of warnings;
  pairing tokens.
* `Scheduler`: `next_run_at` (nothing of the control reads it), notices, time
  zones, what a run downloads.
* Episode and History lists: views, filter bar.  Inspector: commit and effects are
  one step.
* Notifications: facets, the tabs by read state, degraded pages, toasts,
  one-shot actions, purges; a mutation and the count it answers with are one step,
  and a new record's dot is put on the list at once.
* Anime page: formatting, the detail's fields.
* Season store: starts after the workspace was loaded; failing reads of past
  seasons are left out.  Season commands other than the draft and its apply.
* Editor: covers, the catalogue list, guarded actions other than selecting another
  anime; schedule modal: create mode, locked columns, dragging while an apply is
  out.
* Durations: parsing of typed values, probing of files, the background backfill.
* Activity feed: filters but for the type, chart, drawer; lines that grow older than the
  period shown, which leave the feed, and a clock set back, by which new lines would be
  dated below older ones (`Record` lists them anywhere already).
* Ordering board: an apply's writes to each anime are one step; an anime has one
  place, so order and duplicate cards are `ScheduleDraft`'s; past seasons and read
  failures.
* Today board: day counts, covers, desktop actions.
* Downloads: one missed day per process start; the weekday mask and the time are
  one field; readiness.
* Run history: how steps are grouped and worded, names and covers, the limit on
  stored runs, steps whose insert failed, leaving the page.
* Shortcuts: normalising of chords, the guard on typing, shadow warnings.
* Metadata lookup: ranking, formatting.  Library root: inactive animes, the folder
  picker.
* Forms without an interleaving of their own or with no more than the ones above
  (hosters, renaming, autostart, creation form, covers, JDownloader account,
  connected devices, intake panel).
* Season rows (Go): every row command reads and writes the whole row without a
  token, and matching and rechecks hold rows listed at their start, so that they
  may write over a grade or a discard made meanwhile, contrary to
  `season/service_recheck.go:14-18`.  This is the next module of the plan.

## 6. Plan

In this order; each module is parameterised by constants and has no recursive
operator, so that it can be proved about.
1. `SeasonRows`: the read-modify-write commands of a season row, matching and
   rechecks in several statements, creation of the season's animes.
2. `FeedRetention`: the abstract promise, a set of rows owed to each device and
   deletions that touch none of them; `DeviceSync` shown to implement it, in TLC
   and then by proof.
3. `Reconcile`: `AnimeSave` and `DeviceSync` composed with a phone that applies
   its feed and retries operations whose answer was lost; the phone ends with what
   is stored.
4. `SaveHandlers`: notices and conflict rows after the transaction; order of
   notices against order of commits.  `RealtimeHub`: bounded queues, reconnects.
5. `BackupRestore`: imports and tokens that come back.  `Pairing`: one-time
   tokens.
6. The season's projection publisher, the download run (workers, gate, counters),
   one-shot notification actions, capture queues; the remaining panels of the
   window (hosters, intake).

Runs are few by intent: small questions that fit an existing instance join it
rather than get one of their own.
