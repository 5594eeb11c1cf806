---------------------------- MODULE DownloadStore ----------------------------
(* The Downloads screens' shared schedule and the notice of a day missed     *)
(* before the program started.  Events of runs and of a settled day read it  *)
(* again and only the latest read's answer is applied; the panel saves the   *)
(* whole schedule it shows with one field edited.  A process start has at    *)
(* most one missed day; the run history, read beside the schedule in the     *)
(* same way, is left out.                                                    *)
EXTENDS Naturals

CONSTANT MaxCalls \* bound: saves and actions made here, and runs ended elsewhere

VARIABLES
  stored,    \* the schedule's row: [enabled, time, missed]
  events,    \* events not heard: a run ended, a missed day was settled
  calls,     \* reads, saves and actions on the notice under way
  made,      \* saves and actions, and runs elsewhere
  config,    \* the schedule shown, with the notice the backend derived
  loaded, failed, \* it was read once; its last read failed
  saving, page,   \* the Schedule panel: a save is under way; its mounts
  hidden, alert, resolving, \* the notice is hidden by Run now; the failure alert; an action is under way
  alerted,   \* the day's failure has been alerted of, which is done once
  unheard,   \* history: an event found nothing loaded yet and was dropped
  blank,     \* history: the empty schedule is shown, of a read that failed in the backend
  behind,    \* history: a save ended, or the panel was left, before the schedule it
             \* wrote was shown, or the empty schedule was saved
  overwrote  \* history: a save changed a field that was not edited

store == <<stored, events>>
panel == <<saving, page>>
notice == <<hidden, alert, resolving, alerted>>
past == <<unheard, blank, behind, overwrote>>
vars == <<store, calls, made, config, loaded, failed, panel, notice, past>>

Actions == {"runNow", "ignore"}
ScheduleFields == {"enabled", "time"}
Blank == [enabled |-> FALSE, time |-> 0, missed |-> FALSE]
\* A disabled schedule misses nothing.
Shown(s) == [s EXCEPT !.missed = s.missed /\ s.enabled]

Schedules == [enabled : BOOLEAN, time : 0..1, missed : BOOLEAN]
TypeOK ==
  /\ stored \in Schedules /\ config \in Schedules
  /\ events \in Nat /\ made <= MaxCalls
  /\ \A c \in calls : c.kind \in Actions \cup {"schedule", "save"} /\ c.id <= made /\ c.page <= page
  /\ failed => loaded
  /\ {loaded, failed, saving, hidden, alert, alerted, resolving, unheard, blank, behind, overwrote} \subseteq BOOLEAN

\* Only the latest read is live: its answer is applied.  A read may be
\* what a save or an action waits for, its "then".
Call(kind, id, then, value) ==
  [kind |-> kind, id |-> id, then |-> then, value |-> value, field |-> "none",
   live |-> TRUE, page |-> page, step |-> "sent", answer |-> "none"]

Init ==
  /\ stored = [enabled |-> TRUE, time |-> 0, missed |-> TRUE] /\ events = 0
  /\ made = 0 /\ page = 1
  /\ calls = {[kind |-> "schedule", id |-> 0, then |-> "none", value |-> Blank, field |-> "none",
               live |-> TRUE, page |-> 1, step |-> "sent", answer |-> "none"]}
  /\ config = Blank /\ loaded = FALSE /\ failed = FALSE /\ saving = FALSE
  /\ hidden = FALSE /\ alert = FALSE /\ resolving = FALSE /\ alerted = FALSE
  /\ unheard = FALSE /\ blank = FALSE /\ behind = FALSE /\ overwrote = FALSE

\* The schedule is read, for the call in gone if there is one.  Of the reads this
\* supersedes only those something waits for still matter.
ReadAgain(then, gone) ==
  LET old == {c \in calls : c.kind = "schedule"}
      id == IF then = "none" THEN 0 ELSE (CHOOSE c \in gone : TRUE).id
  IN calls' = (calls \ (gone \cup old)) \cup {Call("schedule", id, then, Blank)}
              \cup {[c EXCEPT !.live = FALSE, !.step = "sent", !.answer = "none", !.value = Blank] :
                      c \in {d \in old : d.then # "none"}}

Send(c) == made < MaxCalls /\ made' = made + 1 /\ calls' = calls \cup {c}
Step(c, to) == calls' = (calls \ {c}) \cup {to}

\* With no day missed there is nothing to hide and nothing to alert about.
Settle(missed, h, a) == hidden' = (h /\ missed) /\ alert' = (a /\ missed)

-----------------------------------------------------------------------------
(* The user                                                                *)

Save(f) ==
  /\ loaded /\ ~failed /\ ~saving /\ (f = "time" => config.enabled)
  /\ Send([Call("save", made + 1, "none",
                [config EXCEPT !.enabled = IF f = "enabled" THEN ~@ ELSE @, !.time = IF f = "time" THEN 1 - @ ELSE @])
           EXCEPT !.field = f])
  /\ saving' = TRUE /\ behind' = (behind \/ blank)
  /\ UNCHANGED <<store, config, loaded, failed, page, notice, unheard, blank, overwrote>>

\* The Downloads page is left and opened again while the shared model stays.
Reenter ==
  /\ saving /\ saving' = FALSE /\ page' = page + 1 /\ behind' = TRUE
  /\ UNCHANGED <<store, calls, made, config, loaded, failed, notice, unheard, blank, overwrote>>

RunNow ==
  /\ config.missed /\ ~hidden
  /\ Send(Call("runNow", made + 1, "none", Blank)) /\ resolving' = TRUE /\ hidden' = TRUE
  /\ UNCHANGED <<store, config, loaded, failed, panel, alert, alerted, past>>

\* From the notice or from the failure's alert.
Ignore ==
  /\ config.missed /\ (~hidden \/ alert)
  /\ Send(Call("ignore", made + 1, "none", Blank)) /\ resolving' = TRUE
  /\ UNCHANGED <<store, config, loaded, failed, panel, hidden, alert, alerted, past>>

-----------------------------------------------------------------------------
(* The backend                                                             *)

\* A scheduled or manual run ends and may settle the day; a record of the
\* notification centre is pressed.
Elsewhere(settles) ==
  /\ made < MaxCalls /\ made' = made + 1 /\ events' = events + 1
  /\ stored' = [stored EXCEPT !.missed = @ /\ ~settles]
  /\ UNCHANGED <<calls, config, loaded, failed, panel, notice, past>>

\* A read may throw, or fail in the backend and answer the empty schedule; what a
\* superseded one answers does not matter.
ServeRead(c, answer) ==
  /\ c.kind = "schedule" /\ c.step = "sent" /\ c.live
  /\ Step(c, [c EXCEPT !.step = "served", !.answer = answer, !.value = IF answer = "ok" THEN Shown(stored) ELSE Blank])
  /\ UNCHANGED <<store, made, config, loaded, failed, panel, notice, past>>

ServeSave(c, ok) ==
  /\ c.kind = "save" /\ c.step = "sent"
  /\ stored' = IF ok THEN [stored EXCEPT !.enabled = c.value.enabled, !.time = c.value.time] ELSE stored
  /\ Step(c, [c EXCEPT !.step = "served", !.answer = IF ok THEN "ok" ELSE "refused"])
  /\ overwrote' = (overwrote \/ \E f \in ScheduleFields \ {c.field} : stored'[f] # stored[f])
  /\ UNCHANGED <<events, made, config, loaded, failed, panel, notice, unheard, blank, behind>>

\* One action on the day at a time, and only while it is missed.
Claim(c) ==
  /\ c.kind \in Actions /\ c.step = "sent"
  /\ Step(c, IF \E d \in calls : d.step = "claimed" THEN [c EXCEPT !.step = "served", !.answer = "busy"]
             ELSE IF Shown(stored).missed THEN [c EXCEPT !.step = "claimed"]
             ELSE [c EXCEPT !.step = "served", !.answer = "resolved"])
  /\ UNCHANGED <<store, made, config, loaded, failed, panel, notice, past>>

\* The day is settled; or the run ends badly or finds another one under way, or the
\* settlement fails.  A run of the schedule may have settled the day meanwhile.
Finish(c, outcome) ==
  /\ c.step = "claimed" /\ (outcome \in {"unresolved", "busy"} => c.kind = "runNow")
  /\ LET answer == IF outcome = "settled" /\ ~stored.missed THEN "resolved" ELSE outcome
     IN /\ events' = events + (IF (c.kind = "runNow" /\ outcome # "busy") \/ answer = "settled" THEN 1 ELSE 0)
        /\ Step(c, [c EXCEPT !.step = "served", !.answer = answer])
  /\ stored' = [stored EXCEPT !.missed = @ /\ outcome # "settled"]
  /\ UNCHANGED <<made, config, loaded, failed, panel, notice, past>>

-----------------------------------------------------------------------------
(* What arrives                                                            *)

\* Before the first answer an event reads nothing.
EventHeard ==
  /\ events > 0 /\ events' = events - 1
  /\ IF loaded THEN ReadAgain("none", {}) ELSE UNCHANGED calls
  /\ unheard' = ~loaded
  /\ UNCHANGED <<stored, made, config, loaded, failed, panel, notice, blank, behind, overwrote>>

\* What waited for the read goes on even if its answer is dropped.
Resumed(c) ==
  /\ saving' = (saving /\ ~(c.then = "save" /\ c.page = page))
  /\ resolving' = (resolving /\ c.then # "action")
  /\ behind' = (behind \/ (c.then = "save" /\ (~c.live \/ c.answer # "ok")))

\* The answer of a read that is no longer the latest.
Superseded(c) ==
  /\ c.kind = "schedule" /\ ~c.live /\ calls' = calls \ {c}
  /\ Resumed(c)
  /\ UNCHANGED <<store, made, config, loaded, failed, page, hidden, alert, alerted, unheard, blank, overwrote>>

ScheduleArrives(c) ==
  /\ c.kind = "schedule" /\ c.step = "served" /\ c.live /\ calls' = calls \ {c}
  /\ Resumed(c)
  /\ loaded' = TRUE
  /\ IF c.answer = "throws" THEN failed' = TRUE /\ UNCHANGED <<config, blank, hidden, alert>>
     ELSE /\ config' = c.value /\ failed' = FALSE /\ blank' = (c.answer = "blank")
          /\ Settle(c.value.missed, hidden, alert)
  /\ UNCHANGED <<store, made, page, alerted, unheard, overwrote>>

\* Mutant: a save that went well is believed and nothing is read again.
SaveAnsweredOnly(c) ==
  /\ c.kind = "save" /\ c.step = "served"
  /\ calls' = calls \ {c} /\ saving' = (saving /\ c.page # page)
  /\ UNCHANGED <<store, made, config, loaded, failed, page, notice, past>>

SaveAnswered(c) ==
  /\ c.kind = "save" /\ c.step = "served"
  /\ IF c.answer = "ok"
     THEN ReadAgain("save", {c}) /\ UNCHANGED saving
     ELSE calls' = calls \ {c} /\ saving' = (saving /\ c.page # page)
  /\ UNCHANGED <<store, made, config, loaded, failed, page, notice, past>>

\* Unless the day was settled the notice is shown again, with its alert if the run
\* ended badly.
ActionAnswered(c) ==
  /\ c.kind \in Actions /\ c.step = "served"
  /\ Settle(config.missed, hidden /\ (c.kind = "ignore" \/ c.answer = "settled"),
            c.answer # "settled" /\ (alert \/ (c.answer = "unresolved" /\ ~alerted)))
  /\ alerted' = (alerted \/ c.answer = "unresolved")
  /\ IF c.answer \in {"settled", "unresolved", "resolved"}
     THEN ReadAgain("action", {c}) /\ UNCHANGED resolving
     ELSE calls' = calls \ {c} /\ resolving' = FALSE
  /\ UNCHANGED <<store, made, config, loaded, failed, panel, past>>

Next ==
  \/ \E f \in ScheduleFields : Save(f)
  \/ Reenter \/ RunNow \/ Ignore
  \/ \E settles \in BOOLEAN : Elsewhere(settles)
  \/ \E c \in calls, answer \in {"ok", "throws", "blank"} : ServeRead(c, answer)
  \/ \E c \in calls, ok \in BOOLEAN : ServeSave(c, ok)
  \/ \E c \in calls, outcome \in {"settled", "unresolved", "busy", "error"} : Finish(c, outcome)
  \/ \E c \in calls : Claim(c) \/ Superseded(c) \/ ScheduleArrives(c) \/ SaveAnswered(c) \/ ActionAnswered(c)
  \/ EventHeard

\* What is on its way arrives.
Answer ==
  \/ \E c \in calls : ServeRead(c, "ok") \/ ServeSave(c, TRUE) \/ Claim(c) \/ Finish(c, "settled") \/ Finish(c, "error")
                      \/ Superseded(c) \/ ScheduleArrives(c) \/ SaveAnswered(c) \/ ActionAnswered(c)
  \/ EventHeard

Spec == Init /\ [][Next]_vars /\ WF_vars(Answer)

-----------------------------------------------------------------------------
Quiet == calls = {} /\ events = 0

\* With nothing under way the screens show the stored schedule, and the
\* notice is hidden, or alerts, as the day is pending; an event dropped before the
\* first answer and a read that failed apart.
RowsSettle ==
  Quiet =>
    /\ ~unheard /\ ~blank /\ ~failed => config = Shown(stored)
    /\ hidden => ~stored.missed
    /\ alert /\ ~unheard /\ ~failed => stored.missed

\* A save changes the field edited only: no earlier save is undone, unless the
\* schedule shown was the empty one or not yet the one saved.
EditsSurvive == overwrote => behind

\* Saving and resolving end.
WaitsEnd == (saving ~> ~saving) /\ (resolving ~> ~resolving)

===============================================================================
