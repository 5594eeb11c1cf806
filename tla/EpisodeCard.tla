----------------------------- MODULE EpisodeCard -----------------------------
(* The editor's Episodes card: the durations of the selected anime are read, *)
(* edited into a draft of their own, saved apart from the anime, and measured*)
(* again from the files, one analysis at a time, into a review the user      *)
(* confirms into the draft.                                                  *)
EXTENDS Naturals, FiniteSets

CONSTANTS Animes, Episodes, MaxCalls \* bound: moves and commands

VARIABLES
  stored,    \* the backend's durations: [Animes -> [Episodes -> Durations]]
  anime,     \* the editor's anime
  edits,     \* the draft: [Episodes -> Edits]
  saving,    \* isSaving
  load,      \* the section that was read: [ready, rows]
  running,   \* an analysis runs, on the card
  review,    \* openReview, and the episodes it would change
  analysis,  \* the backend's lock: the ticket of the analysis it runs, or 0
  cancelled, \* its context was cancelled
  calls, made,
  late,      \* history: readings confirmed into the draft while a save was out
  abandoned, \* history: animes left while a save of theirs was out
  lost       \* history: edits a save's answer took off the draft without carrying them

backend == <<stored, analysis, cancelled>>
card == <<edits, saving, load, running, review>>
history == <<late, abandoned, lost>>
vars == <<backend, anime, card, calls, made, history>>

\* No duration, one measured before, the file's real one, one set by hand.
Durations == {"none", "measured", "reading", "manual"}
Edits == {"none", "clear", "manual", "reading"}
Clean == [e \in Episodes |-> "none"]
IsDirty == edits # Clean
Closed == [open |-> FALSE, changes |-> {}]
Review(changes) == [open |-> TRUE, changes |-> changes]
Loading == [ready |-> FALSE, rows |-> Clean]

TypeOK ==
  /\ stored \in [Animes -> [Episodes -> Durations]] /\ anime \in Animes
  /\ edits \in [Episodes -> Edits]
  /\ load \in [ready : BOOLEAN, rows : [Episodes -> Durations]]
  /\ {saving, running, cancelled} \subseteq BOOLEAN
  /\ review \in [open : BOOLEAN, changes : SUBSET Episodes]
  /\ \A c \in calls : c.kind \in {"load", "save", "analyze", "cancel"} /\ c.ticket <= made
  /\ analysis # 0 => \E c \in calls : c.ticket = analysis /\ c.kind = "analyze"

Call(kind, n, a) ==
  [kind |-> kind, ticket |-> n, anime |-> a, edits |-> edits, latest |-> TRUE,
   served |-> FALSE, outcome |-> "none", rows |-> Clean]

\* A newer read, save or analysis of the card takes over from the ones before.
Superseded(kinds) == {[c EXCEPT !.latest = @ /\ c.kind \notin kinds] : c \in calls}
ReadAgain(remaining, cause, a) == remaining \cup {Call("load", cause, a)}

Init ==
  /\ stored \in {[a \in Animes |-> d] : d \in [Episodes -> {"none", "measured", "manual"}]}
  /\ anime = CHOOSE a \in Animes : TRUE
  /\ edits = Clean /\ saving = FALSE /\ running = FALSE /\ review = Closed
  /\ load = [ready |-> TRUE, rows |-> stored[anime]]
  /\ analysis = 0 /\ cancelled = FALSE /\ calls = {} /\ made = 0
  /\ late = {} /\ abandoned = {} /\ lost = {}

-----------------------------------------------------------------------------
(* The user                                                                *)

\* Another anime: the draft, the review and the calls of this one are dropped,
\* and a running analysis is told to stop.
Move(a) ==
  /\ a # anime /\ made < MaxCalls /\ made' = made + 1
  /\ anime' = a /\ edits' = Clean /\ saving' = FALSE /\ review' = Closed /\ running' = FALSE
  /\ load' = Loading
  /\ calls' = ReadAgain(Superseded({"load", "save", "analyze"}), made', a)
                \cup (IF running THEN {Call("cancel", made', anime)} ELSE {})
  /\ late' = {}
  /\ abandoned' = IF saving THEN abandoned \cup {anime} ELSE abandoned
  /\ UNCHANGED <<backend, lost>>

\* Apply, Add and Clear; a value never stored is dropped from the draft.
Edit(e, edit) ==
  /\ load.ready /\ ~running /\ ~saving /\ ~review.open
  /\ edits' = [edits EXCEPT ![e] = IF edit = "clear" /\ load.rows[e] = "none" THEN "none" ELSE edit]
  /\ edits' # edits /\ late' = late \ {e}
  /\ UNCHANGED <<backend, anime, saving, load, running, review, calls, made, abandoned, lost>>

Discard ==
  /\ IsDirty /\ ~saving /\ ~review.open
  /\ edits' = Clean /\ late' = {}
  /\ UNCHANGED <<backend, anime, saving, load, running, review, calls, made, abandoned, lost>>

Save ==
  /\ IsDirty /\ ~running /\ ~saving /\ ~review.open /\ made < MaxCalls /\ made' = made + 1
  /\ saving' = TRUE /\ late' = {}
  /\ calls' = Superseded({"save"}) \cup {Call("save", made', anime)}
  /\ UNCHANGED <<backend, anime, edits, load, running, review, abandoned, lost>>

\* Nothing holds it back while a save is out.
Reanalyze ==
  /\ load.ready /\ ~running /\ ~review.open /\ made < MaxCalls /\ made' = made + 1
  /\ running' = TRUE
  /\ calls' = Superseded({"analyze"}) \cup {Call("analyze", made', anime)}
  /\ UNCHANGED <<backend, anime, edits, saving, load, review, history>>

CancelAnalysis ==
  /\ running /\ made < MaxCalls /\ made' = made + 1
  /\ calls' = calls \cup {Call("cancel", made', anime)}
  /\ UNCHANGED <<backend, anime, card, history>>

\* Readings go into the draft, but never over a value typed there by hand.
ConfirmReview ==
  /\ review.changes # {}
  /\ edits' = [e \in Episodes |-> IF e \in review.changes /\ edits[e] # "manual" THEN "reading" ELSE edits[e]]
  /\ late' = IF saving THEN late \cup {e \in Episodes : edits'[e] # edits[e]} ELSE late
  /\ review' = Closed
  /\ UNCHANGED <<backend, anime, saving, load, running, calls, made, abandoned, lost>>

CloseReview ==
  /\ review.open /\ review' = Closed
  /\ UNCHANGED <<backend, anime, edits, saving, load, running, calls, made, history>>

-----------------------------------------------------------------------------
(* The backend                                                             *)

Serve(c, outcome, rows) ==
  /\ ~c.served /\ calls' = (calls \ {c}) \cup {[c EXCEPT !.served = TRUE, !.outcome = outcome, !.rows = rows]}
  /\ UNCHANGED <<anime, card, made, history>>

ServeLoad(c, ok) ==
  /\ c.kind = "load" /\ Serve(c, IF ok THEN "ok" ELSE "error", stored[c.anime])
  /\ UNCHANGED backend

\* Mutant: a confirmed reading is stored over anything.
SavedOverHand(row, edit) ==
  CASE edit = "clear" -> "none"
    [] edit \in {"manual", "reading"} -> edit
    [] OTHER -> row

\* A confirmed reading is never stored over a value set by hand.
Saved(row, edit) ==
  CASE edit = "clear" -> "none"
    [] edit = "manual" -> "manual"
    [] edit = "reading" /\ row # "manual" -> "reading"
    [] OTHER -> row

ServeSave(c, ok) ==
  /\ c.kind = "save" /\ Serve(c, IF ok THEN "ok" ELSE "error", Clean)
  /\ stored' = IF ok THEN [stored EXCEPT ![c.anime] = [e \in Episodes |-> Saved(@[e], c.edits[e])]] ELSE stored
  /\ UNCHANGED <<analysis, cancelled>>

\* One analysis at a time; it compares with what is stored as it starts.
StartAnalysis(c) ==
  /\ c.kind = "analyze" /\ c.ticket # analysis
  /\ IF analysis # 0
     THEN Serve(c, "busy", Clean) /\ UNCHANGED backend
     ELSE /\ ~c.served /\ analysis' = c.ticket /\ cancelled' = FALSE
          /\ calls' = (calls \ {c}) \cup {[c EXCEPT !.rows = stored[c.anime]]}
          /\ UNCHANGED <<stored, anime, card, made, history>>

FinishAnalysis(c) ==
  /\ c.kind = "analyze" /\ c.ticket = analysis /\ analysis' = 0
  /\ Serve(c, IF cancelled THEN "cancelled" ELSE "ok", c.rows)
  /\ UNCHANGED <<stored, cancelled>>

\* The cancel stops whatever analysis it finds.
ServeCancel(c) ==
  /\ c.kind = "cancel" /\ calls' = calls \ {c}
  /\ cancelled' = (analysis # 0 \/ cancelled)
  /\ UNCHANGED <<stored, analysis, anime, card, made, history>>

-----------------------------------------------------------------------------
(* The answers                                                             *)

Take(c, kind) == c.kind = kind /\ c.served

\* Mutant: a read is shown though a newer one was asked for.
LoadedInAnyOrder(c) ==
  /\ Take(c, "load") /\ calls' = calls \ {c}
  /\ load' = [ready |-> c.outcome = "ok", rows |-> IF c.outcome = "ok" THEN c.rows ELSE Clean]
  /\ UNCHANGED <<backend, anime, edits, saving, running, review, made, history>>

Loaded(c) ==
  /\ Take(c, "load") /\ calls' = calls \ {c}
  /\ load' = IF ~c.latest THEN load ELSE [ready |-> c.outcome = "ok", rows |-> IF c.outcome = "ok" THEN c.rows ELSE Clean]
  /\ UNCHANGED <<backend, anime, edits, saving, running, review, made, history>>

\* A save that was stored empties the draft and reads the rows again.
SaveAnswered(c) ==
  /\ Take(c, "save")
  /\ UNCHANGED <<backend, anime, running, review, made, abandoned>>
  /\ CASE ~c.latest -> calls' = calls \ {c} /\ UNCHANGED <<edits, saving, load, late, lost>>
       [] c.latest /\ c.outcome = "error" ->
            calls' = calls \ {c} /\ saving' = FALSE /\ UNCHANGED <<edits, load, late, lost>>
       [] OTHER ->
            /\ edits' = Clean /\ saving' = FALSE /\ load' = Loading
            /\ calls' = ReadAgain({[d EXCEPT !.latest = @ /\ d.kind # "load"] : d \in calls \ {c}}, c.ticket, anime)
            /\ lost' = lost \cup ({e \in Episodes : edits[e] # "none" /\ edits[e] # c.edits[e]} \ late)
            /\ late' = {}

\* Mutant: a cancelled analysis closes without freeing the card.
AnalysisAnsweredQuietly(c) ==
  /\ Take(c, "analyze") /\ calls' = calls \ {c}
  /\ UNCHANGED <<backend, anime, edits, saving, load, made, history>>
  /\ IF ~c.latest THEN UNCHANGED <<running, review>>
     ELSE /\ running' = (c.outcome = "cancelled")
          /\ review' = CASE c.outcome = "ok" -> Review({e \in Episodes : c.rows[e] \in {"none", "measured"}})
                         [] c.outcome = "busy" -> Review({})
                         [] OTHER -> Closed

\* A cancelled analysis closes quietly; every other opens its review.
AnalysisAnswered(c) ==
  /\ Take(c, "analyze") /\ calls' = calls \ {c}
  /\ UNCHANGED <<backend, anime, edits, saving, load, made, history>>
  /\ IF ~c.latest THEN UNCHANGED <<running, review>>
     ELSE /\ running' = FALSE
          /\ review' = CASE c.outcome = "ok" -> Review({e \in Episodes : c.rows[e] \in {"none", "measured"}})
                         [] c.outcome = "busy" -> Review({})
                         [] OTHER -> Closed

Answer == \E c \in calls :
  \/ \E ok \in BOOLEAN : ServeLoad(c, ok) \/ ServeSave(c, ok)
  \/ StartAnalysis(c) \/ FinishAnalysis(c) \/ ServeCancel(c)
  \/ Loaded(c) \/ SaveAnswered(c) \/ AnalysisAnswered(c)

Next ==
  \/ \E a \in Animes : Move(a)
  \/ \E e \in Episodes, edit \in {"clear", "manual"} : Edit(e, edit)
  \/ Discard \/ Save \/ Reanalyze \/ CancelAnalysis \/ ConfirmReview \/ CloseReview
  \/ Answer

Fairness == WF_vars(Answer)
Spec == Init /\ [][Next]_vars /\ Fairness

\* What a save's answer takes off the draft is what the save stored, but for
\* readings confirmed while it was out.
EditsSurvive == lost = {}

\* A duration set by hand is only taken away by hand: no reading replaces it,
\* whenever its analysis ran and whatever was saved meanwhile.
HandValuesStay ==
  [][\A a \in Animes, e \in Episodes :
       stored[a][e] = "manual" => stored'[a][e] \in {"manual", "none"}]_vars

\* With nothing on its way the rows are those stored, unless the anime was left
\* during a save and visited again before the save was stored.
RowsSettle ==
  calls = {} /\ load.ready /\ anime \notin abandoned => load.rows = stored[anime]

=============================================================================
