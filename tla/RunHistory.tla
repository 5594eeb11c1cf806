----------------------------- MODULE RunHistory -----------------------------
(* The Downloads page's run history: the list of runs, read again on every   *)
(* event of a run; the one selected, whose stored steps are its story; the   *)
(* part of the list revealed so far; and Stop.  A run's steps are stored     *)
(* after the events that announce them, and announced again once stored.     *)
(* An answer no longer wanted (a superseded read of the list, a story whose  *)
(* effect was cleaned up) changes nothing, so only the wanted read is kept.  *)
EXTENDS Naturals, Sequences, FiniteSetsExt

CONSTANTS
  None,      \* no run, no read
  PageSize,  \* RUN_HISTORY_PAGE_SIZE
  Past,      \* the statuses of the runs already over
  MaxRuns,   \* bound: runs, those included
  MaxCalls   \* bound: selections, filter changes, stops, failed reads and reports of progress

VARIABLES
  runs,         \* the runs' rows, oldest first: their status
  current,      \* the run in progress, or None
  cancelled,    \* its context was cancelled
  queued,       \* [runs -> Nat]: steps logged and not stored
  steps,        \* [runs -> Nat]: steps stored
  events,       \* download events not heard, which are heard as one
  notices,      \* runs whose stored steps are announced, not heard
  runHistory, loaded, failed, \* the store's list; it was read once; the last read failed
  read,         \* the latest read of the list under way
  selected, problemsOnly,     \* the run selected; the Problems filter is on
  visibleCount, \* rows revealed
  entry,        \* the story held and its run
  reading,      \* the read of a story under way
  stopping,     \* the run a stop was requested for
  calls,        \* stops under way
  made,         \* what MaxCalls bounds
  unheard,      \* history: an event found no list loaded yet and was dropped
  kept          \* history: a read of the story failed and the one before is shown

backend == <<runs, current, cancelled, queued, steps>>
store == <<runHistory, loaded, failed, read, unheard>>
panel == <<selected, problemsOnly, visibleCount>>
story == <<entry, reading, kept>>
stop == <<stopping, calls>>
vars == <<backend, events, notices, store, panel, story, stop, made>>

Statuses == {"running", "ok", "problem"}
Newest(S) == IF S = {} THEN None ELSE Max(S)
Listed(list, problems) == {r \in DOMAIN list : problems => list[r] = "problem"}
RunningIn(list) == Newest({r \in DOMAIN list : list[r] = "running"})

\* The run whose detail is shown: the one selected if it is listed, or the newest.
SelectedIn(list, run, problems) ==
  IF run \in Listed(list, problems) THEN run ELSE Newest(Listed(list, problems))
Shown == SelectedIn(runHistory, selected, problemsOnly)

\* The control of the run a stop was requested for is busy until that run ends.
IsStopping == stopping # None /\ stopping = RunningIn(runHistory)

Entry(run, status, n) == [run |-> run, status |-> status, steps |-> n]
Story(run) == [run |-> run, answer |-> "none", steps |-> 0]
ListRead == [answer |-> "none", rows |-> <<>>]

TypeOK ==
  /\ runs \in Seq(Statuses) /\ Len(runs) <= MaxRuns /\ runHistory \in Seq(Statuses)
  /\ current \in 1..MaxRuns \cup {None} /\ selected \in 1..MaxRuns \cup {None}
  /\ queued \in [1..MaxRuns -> 0..2] /\ steps \in [1..MaxRuns -> 0..2]
  /\ events \in BOOLEAN /\ notices \subseteq 1..MaxRuns /\ made <= MaxCalls
  /\ visibleCount \in 1..MaxRuns \cup {PageSize} /\ (failed => loaded /\ runHistory = <<>>)
  /\ reading # None => reading.run \in DOMAIN runs
  /\ \A c \in calls : c.n <= made /\ c.answer \in {"none", "ok", "refused"}
  /\ {cancelled, loaded, failed, problemsOnly, unheard, kept} \subseteq BOOLEAN

Init ==
  /\ runs = Past /\ current = None /\ cancelled = FALSE
  /\ queued = [r \in 1..MaxRuns |-> 0] /\ steps = [r \in 1..MaxRuns |-> IF r <= Len(Past) THEN 1 ELSE 0]
  /\ events = FALSE /\ notices = {} /\ made = 0
  /\ runHistory = <<>> /\ loaded = FALSE /\ failed = FALSE /\ read = ListRead /\ unheard = FALSE
  /\ selected = None /\ problemsOnly = FALSE /\ visibleCount = PageSize
  /\ entry = Entry(None, "loading", 0) /\ reading = None /\ kept = FALSE
  /\ stopping = None /\ calls = {}

-----------------------------------------------------------------------------
(* Effects                                                                 *)

\* The rows to show, from those shown before: at least a page, all of them if all
\* of them were, and down to the selected one.
ReconciledAlone(count, before, list, run) ==
  LET least == Max({Min({Len(list), PageSize}), Min({count, Len(list)})})
  IN IF list = <<>> THEN PageSize
     ELSE IF before > 0 /\ count >= before THEN Len(list)
     ELSE least
Reconciled(count, before, list, run) ==
  LET rest == ReconciledAlone(count, before, list, run)
  IN IF run \in DOMAIN list THEN Max({rest, Len(list) - run + 1}) ELSE rest

\* React may run the update at once or in the next render, after the effect has
\* already moved its reference to the new length.
ListEffect ==
  IF runHistory' = runHistory /\ selected' = selected
  THEN UNCHANGED visibleCount
  ELSE \E before \in {Len(runHistory), Len(runHistory')} :
         visibleCount' = Reconciled(visibleCount, before, runHistory', selected')

\* The story is read when another run is shown, when its status changes, when a
\* running one's record is replaced, and when more of its steps were announced.
StoryEffect(replaced, announced) ==
  LET run == SelectedIn(runHistory', selected', problemsOnly')
      other == run # Shown
      changed == /\ run # None
                 /\ \/ other \/ announced
                    \/ runHistory'[run] # runHistory[run]
                    \/ replaced /\ runHistory'[run] = "running"
  IN /\ reading' = CASE run = None -> None [] changed -> Story(run) [] OTHER -> reading
     /\ UNCHANGED <<entry, kept>>

-----------------------------------------------------------------------------
(* The backend                                                             *)

Log(r) == queued' = [queued EXCEPT ![r] = @ + 1]

\* The row is opened, the step logged, the event published.
RunStarts ==
  /\ current = None /\ Len(runs) < MaxRuns
  /\ runs' = Append(runs, "running")
  /\ current' = Len(runs) + 1
  /\ Log(current')
  /\ events' = TRUE
  /\ UNCHANGED <<cancelled, steps, notices, store, panel, story, stop, made>>

\* Counters are stored and announced; no step is logged with them.
RunProgresses ==
  /\ made < MaxCalls /\ made' = made + 1
  /\ current # None
  /\ events' = TRUE
  /\ UNCHANGED <<backend, notices, store, panel, story, stop>>

\* The row is finalized before the event, or fails to be: it stays running then.
RunFinishes ==
  /\ current # None
  /\ \/ \E status \in {"ok", "problem"} : runs' = [runs EXCEPT ![current] = status]
     \/ UNCHANGED runs
  /\ Log(current)
  /\ current' = None /\ cancelled' = FALSE
  /\ events' = TRUE
  /\ UNCHANGED <<steps, notices, store, panel, story, stop, made>>

\* The queue's drain stores a step and announces it.
Persist(r) ==
  /\ queued[r] > 0 /\ \A q \in 1..(r - 1) : queued[q] = 0
  /\ queued' = [queued EXCEPT ![r] = @ - 1]
  /\ steps' = [steps EXCEPT ![r] = @ + 1]
  /\ notices' = notices \cup {r}
  /\ UNCHANGED <<runs, current, cancelled, events, store, panel, story, stop, made>>

\* Whichever run is in progress by now is cancelled.
ServeStop(c) ==
  /\ c.answer = "none"
  /\ cancelled' = (current # None)
  /\ calls' = (calls \ {c}) \cup {[c EXCEPT !.answer = IF current # None THEN "ok" ELSE "refused"]}
  /\ UNCHANGED <<runs, current, queued, steps, events, notices, store, panel, story, stopping, made>>

ServeList ==
  /\ read = ListRead
  /\ read' = [answer |-> "ok", rows |-> runs]
  /\ UNCHANGED <<backend, events, notices, runHistory, loaded, failed, unheard, panel, story, stop, made>>

ServeStory ==
  /\ reading # None /\ reading.answer = "none"
  /\ reading' = [reading EXCEPT !.answer = "ok", !.steps = steps[reading.run]]
  /\ UNCHANGED <<backend, events, notices, store, panel, entry, kept, stop, made>>

-----------------------------------------------------------------------------
(* The panel                                                               *)

\* A list that is being read for the first time is not read again.
EventHeard ==
  /\ events /\ events' = FALSE
  /\ read' = IF loaded THEN ListRead ELSE read
  /\ unheard' = (unheard \/ ~loaded)
  /\ UNCHANGED <<backend, notices, runHistory, loaded, failed, panel, story, stop, made>>

\* A read that fails in the store is answered with an empty list, and a rejected call
\* empties it too.
ListArrives ==
  /\ read # None
  /\ runHistory' = read.rows /\ loaded' = TRUE /\ failed' = (read = ListRead)
  /\ read' = None
  /\ failed' => made < MaxCalls
  /\ made' = IF failed' THEN made + 1 ELSE made
  /\ UNCHANGED <<backend, events, notices, unheard, selected, problemsOnly, stop>>
  /\ ListEffect /\ StoryEffect(TRUE, FALSE)

\* A burst of the shown run's steps is waited out, then its story is read again;
\* steps of another run are not this story's.
NoticeHeard(r) ==
  /\ r \in notices /\ notices' = notices \ {r}
  /\ UNCHANGED <<backend, events, store, panel, stop, made>>
  /\ StoryEffect(FALSE, r = Shown)

\* A failed refresh keeps the story of the same run.
StoryArrives ==
  /\ reading # None
  /\ LET again == entry.run = reading.run /\ entry.status = "ready"
         ok == reading.answer = "ok"
     IN /\ entry' = CASE ok -> Entry(reading.run, "ready", reading.steps)
                      [] ~ok /\ again -> entry
                      [] OTHER -> Entry(reading.run, "error", 0)
        /\ kept' = (~ok /\ again)
  /\ reading' = None
  /\ reading.answer = "none" => made < MaxCalls
  /\ made' = IF reading.answer = "none" THEN made + 1 ELSE made
  /\ UNCHANGED <<backend, events, notices, store, panel, stop>>

\* A row pressed, or a run named by the route.
SelectRun(r) ==
  /\ made < MaxCalls /\ made' = made + 1
  /\ r \in DOMAIN runs /\ r # selected
  /\ selected' = r
  /\ UNCHANGED <<backend, events, notices, store, problemsOnly, stop>>
  /\ ListEffect /\ StoryEffect(FALSE, FALSE)

ToggleProblems ==
  /\ made < MaxCalls /\ made' = made + 1
  /\ \E r \in DOMAIN runHistory : runHistory[r] = "problem"
  /\ problemsOnly' = ~problemsOnly
  /\ UNCHANGED <<backend, events, notices, store, selected, visibleCount, stop>>
  /\ StoryEffect(FALSE, FALSE)

LoadMore ==
  /\ visibleCount' = Min({Len(runHistory), visibleCount + PageSize})
  /\ runHistory # <<>>
  /\ UNCHANGED <<backend, events, notices, store, selected, problemsOnly, story, stop, made>>

CancelRun ==
  /\ made < MaxCalls /\ made' = made + 1
  /\ RunningIn(runHistory) # None /\ ~IsStopping
  /\ stopping' = RunningIn(runHistory)
  /\ calls' = calls \cup {[n |-> made', answer |-> "none"]}
  /\ UNCHANGED <<backend, events, notices, store, panel, story>>

StopAnswered(c) ==
  /\ c.answer # "none"
  /\ calls' = calls \ {c}
  /\ stopping' = IF c.answer = "refused" THEN None ELSE stopping
  /\ UNCHANGED <<backend, events, notices, store, panel, story, made>>

-----------------------------------------------------------------------------
Arrives ==
  \/ EventHeard \/ ServeList \/ ListArrives \/ ServeStory \/ StoryArrives
  \/ \E r \in DOMAIN runs : NoticeHeard(r) \/ Persist(r)
  \/ \E c \in calls : ServeStop(c) \/ StopAnswered(c)

\* A run that was cancelled unwinds.
Unwinds == cancelled /\ RunFinishes

Next ==
  \/ Arrives \/ RunStarts \/ RunProgresses \/ RunFinishes
  \/ ToggleProblems \/ LoadMore \/ CancelRun
  \/ \E r \in DOMAIN runs : SelectRun(r)

Fairness == WF_vars(Arrives \/ Unwinds)
Spec == Init /\ [][Next]_vars /\ Fairness

-----------------------------------------------------------------------------
\* However runs come in and the list is read, filtered or emptied by a failure, the
\* row of the run whose detail is shown is among those revealed
\* (reconcileVisibleRunCount).
SelectedIsVisible ==
  Shown # None =>
    Cardinality({r \in Listed(runHistory, problemsOnly) : r >= Shown}) <= visibleCount

\* With nothing on its way the list is the stored one and the story that of the run
\* shown, up to its last stored step (useRunHistoryStory), unless the last read of
\* either failed or an event came before the list was loaded.
RowsSettle ==
  /\ loaded /\ ~failed /\ read = None /\ reading = None /\ events = FALSE /\ notices = {}
  => /\ unheard \/ runHistory = runs
     /\ Shown # None => /\ entry.run = Shown
                        /\ entry.status = "ready" /\ ~kept => entry.steps = steps[Shown]

\* What the panel waits for: the list, the story of the run shown; and the end of a
\* run being stopped, unless its row could not be finalized.
IsLoading == ~loaded \/ (Shown # None /\ entry.run # Shown)
Stopping == IsStopping /\ ~(runs[stopping] = "running" /\ current # stopping)

=============================================================================
