---------------------------- MODULE OrderingBoard ----------------------------
(* The season's ordering board: newcomers and running animes are dragged on  *)
(* to weekdays, the draft is saved some time after each edit, and applied to *)
(* the schedule on demand.  Every season command reads the season's row and  *)
(* writes the whole of it back.  Order within a day, and an anime's further  *)
(* cards, are in ScheduleDraft: here an anime has one place.                 *)
EXTENDS Naturals

CONSTANTS
  Animes, Days, \* numbers: a schedule is applied in the order of the animes' ids
  Starts,       \* the schedules the board may open on
  MaxCalls      \* bound on edits, commands, visits and changes made elsewhere

VARIABLES
  schedule, \* each anime's stored place; Rail is its section of new animes
  row,      \* the open season: [draft, applied]
  board,    \* the board as loaded: [places, applied], <<>> before the first load
  state,    \* the working state: each anime's place
  hasEdits, \* the user has edited since the last load
  armed,    \* the autosave timer runs
  visit,    \* mounts of the board; answers to an earlier one are dropped
  calls,    \* commands and reads under way
  made,     \* calls, edits and visits made
  wanted,   \* history: where the user last left each anime, <<>> if reset
  applied,  \* history: the apply that ended last, [seen, base, clean]
  moved,    \* history: an anime was moved elsewhere
  spoiled   \* history: writes overlapped, one failed, or an answer met newer edits

vars == <<schedule, row, board, state, hasEdits, armed, visit, calls, made, wanted, applied, moved, spoiled>>

Rail == 0
Places == Days \cup {Rail}
NoDraft == <<>>
Drafts == UNION {[S -> Places] : S \in SUBSET Animes}
Loaded == board # <<>>
ReadOnly == Loaded /\ board.applied

\* What is saved: a running anime dragged to the rail has no section to name there.
DraftOf(places, base) == [a \in {b \in Animes : places[b] # Rail \/ base[b] = Rail} |-> places[a]]

\* Mutant: a loaded board forgets its draft.
RestoredWithout(places, r) == places

\* A board that is not applied opens with its saved draft over the schedule.
Restored(places, r) ==
  IF r.applied THEN places ELSE [a \in Animes |-> IF a \in DOMAIN r.draft THEN r.draft[a] ELSE places[a]]

\* What a read of the season gives: its row, and where its animes are.
Season == [draft |-> row.draft, applied |-> row.applied, places |-> schedule]

Kinds == {"save", "reset", "apply", "reopen", "load"}
Steps == {"read", "write", "plan", "commit", "load", "arrive"}
TypeOK ==
  /\ schedule \in [Animes -> Places]
  /\ row.draft \in Drafts /\ row.applied \in BOOLEAN
  /\ Loaded => board.places \in [Animes -> Places] /\ board.applied \in BOOLEAN
  /\ Loaded => state \in [Animes -> Places]
  /\ armed => hasEdits /\ ~ReadOnly
  /\ \A c \in calls : c.kind \in Kinds /\ c.step \in Steps /\ c.draft \in Drafts /\ c.visit <= visit

Call(kind, step, draft) ==
  [kind |-> kind, step |-> step, draft |-> draft, held |-> <<>>, visit |-> visit, id |-> made,
   seen |-> IF kind = "apply" THEN [places |-> state, base |-> board.places] ELSE <<>>]
Writes(c) == c.step \in {"read", "write", "plan", "commit"}
Goes(c, to) == calls' = (calls \ {c}) \cup {to}
Counted == made < MaxCalls /\ made' = made + 1

Init ==
  /\ schedule \in Starts /\ row = [draft |-> NoDraft, applied |-> FALSE]
  /\ board = <<>> /\ state = <<>> /\ hasEdits = FALSE /\ armed = FALSE /\ visit = 1 /\ made = 0
  /\ calls = {[kind |-> "load", step |-> "load", draft |-> NoDraft, held |-> <<>>, visit |-> 1, id |-> 0, seen |-> <<>>]}
  /\ wanted = <<>> /\ applied = <<>> /\ moved = FALSE /\ spoiled = FALSE

-----------------------------------------------------------------------------
(* The user                                                                *)

Edit(a, p) ==
  /\ Loaded /\ ~ReadOnly /\ p # state[a] /\ Counted
  /\ state' = [state EXCEPT ![a] = p] /\ wanted' = state'
  /\ hasEdits' = TRUE /\ armed' = TRUE
  /\ spoiled' = (spoiled \/ \E c \in calls : c.visit = visit /\ c.kind # "save")
  /\ UNCHANGED <<schedule, row, board, visit, calls, applied, moved>>

\* A command is sent; it may meet another that has not finished writing, or be
\* answered before a board that was read earlier.
Send(c) ==
  /\ calls' = calls \cup {c}
  /\ spoiled' = (spoiled \/ \E d \in calls : Writes(d) \/ (d.kind # "save" /\ d.visit = visit))

Autosave ==
  /\ armed /\ armed' = FALSE
  /\ Send(Call("save", "read", DraftOf(state, board.places)))
  /\ UNCHANGED <<schedule, row, board, state, hasEdits, visit, made, wanted, applied, moved>>

HasChanges == Loaded /\ ~ReadOnly /\ DraftOf(state, board.places) # DraftOf(board.places, board.places)

Reset ==
  /\ HasChanges /\ Counted
  /\ Send(Call("reset", "read", NoDraft))
  /\ hasEdits' = FALSE /\ armed' = FALSE /\ wanted' = <<>>
  /\ UNCHANGED <<schedule, row, board, state, visit, applied, moved>>

\* Mutant: what is applied is the draft that the timer saved last.
ApplySaved ==
  /\ HasChanges /\ Counted
  /\ Send(Call("apply", "plan", NoDraft))
  /\ UNCHANGED <<schedule, row, board, state, hasEdits, armed, visit, wanted, applied, moved>>

\* The draft is saved first; the timer of the last edit still runs.
Apply ==
  /\ HasChanges /\ Counted
  /\ Send(Call("apply", "read", DraftOf(state, board.places)))
  /\ UNCHANGED <<schedule, row, board, state, hasEdits, armed, visit, wanted, applied, moved>>

Reopen ==
  /\ ReadOnly /\ Counted
  /\ Send(Call("reopen", "read", NoDraft))
  /\ UNCHANGED <<schedule, row, board, state, hasEdits, armed, visit, wanted, applied, moved>>

\* The tab is left and opened again: the timer is cleared, so an edit it had not
\* saved is gone, and what was under way goes on unheard.
Reenter ==
  /\ Counted /\ visit' = visit + 1
  /\ board' = <<>> /\ state' = <<>> /\ hasEdits' = FALSE /\ armed' = FALSE
  /\ calls' = calls \cup {[Call("load", "load", NoDraft) EXCEPT !.visit = visit']}
  /\ spoiled' = (spoiled \/ armed \/ \E c \in calls : Writes(c))
  /\ UNCHANGED <<schedule, row, wanted, applied, moved>>

\* The Editor or a phone moves an anime that the board may hold a draft of.
ScheduledElsewhere(a, p) ==
  /\ Counted /\ p # schedule[a] /\ schedule' = [schedule EXCEPT ![a] = p]
  /\ moved' = TRUE /\ applied' = <<>>
  /\ spoiled' = (spoiled \/ \E c \in calls : c.step = "commit")
  /\ UNCHANGED <<row, board, state, hasEdits, armed, visit, calls, wanted>>

-----------------------------------------------------------------------------
(* The backend                                                             *)

ReadRow(c) ==
  /\ c \in calls /\ c.step = "read"
  /\ Goes(c, [c EXCEPT !.step = "write", !.held = row])
  /\ UNCHANGED <<schedule, row, board, state, hasEdits, armed, visit, made, wanted, applied, moved, spoiled>>

\* After a save comes nothing, after a reset's a load, after an apply's the apply,
\* whether or not the save was stored.
After(c) ==
  IF c.kind = "save" THEN calls' = calls \ {c}
  ELSE Goes(c, [c EXCEPT !.step = IF c.kind = "apply" THEN "plan" ELSE "load"])

\* The edits of a visit that is over are no longer this component's.
ClearEdits(c) ==
  IF c.visit = visit THEN hasEdits' = FALSE /\ armed' = FALSE ELSE UNCHANGED <<hasEdits, armed>>

WriteRow(c, ok) ==
  /\ c \in calls /\ c.step = "write"
  /\ row' = IF ~ok THEN row
            ELSE IF c.kind = "reopen" THEN [c.held EXCEPT !.applied = FALSE] ELSE [c.held EXCEPT !.draft = c.draft]
  /\ spoiled' = (spoiled \/ ~ok)
  /\ After(c)
  /\ IF c.kind = "reopen" THEN ClearEdits(c) ELSE UNCHANGED <<hasEdits, armed>>
  /\ UNCHANGED <<schedule, board, state, visit, made, wanted, applied, moved>>

\* ApplySchedule reads the season, its draft and where its animes are.
Plan(c) ==
  /\ c \in calls /\ c.step = "plan"
  /\ Goes(c, [c EXCEPT !.step = "commit", !.held = Season])
  /\ UNCHANGED <<schedule, row, board, state, hasEdits, armed, visit, made, wanted, applied, moved, spoiled>>

\* Only what differed when it was read is written.  The window clears its edits and
\* loads the board, whatever the answer was.
Ended(c, done) ==
  /\ schedule' = [a \in Animes |-> IF a \in done /\ c.held.draft[a] # c.held.places[a] THEN c.held.draft[a]
                                   ELSE schedule[a]]
  /\ applied' = [seen |-> c.seen.places, base |-> c.seen.base, clean |-> done = DOMAIN c.held.draft]
  /\ ClearEdits(c) /\ Goes(c, [c EXCEPT !.step = "load"])
  /\ UNCHANGED <<board, state, visit, made, wanted, moved>>

\* A clean run marks the season and clears its draft, in the row it had read; an
\* empty draft applies nothing.
Commit(c) ==
  /\ c \in calls /\ c.step = "commit"
  /\ row' = IF c.held.draft = NoDraft THEN row ELSE [draft |-> NoDraft, applied |-> TRUE]
  /\ Ended(c, DOMAIN c.held.draft)
  /\ UNCHANGED spoiled

\* The first anime that fails ends the run: those before it stay written.
CommitFails(c, k) ==
  /\ c \in calls /\ c.step = "commit" /\ c.held.draft # NoDraft
  /\ Ended(c, {a \in DOMAIN c.held.draft : a <= k})
  /\ spoiled' = TRUE
  /\ UNCHANGED row

ReadBoard(c) ==
  /\ c \in calls /\ c.step = "load"
  /\ Goes(c, [c EXCEPT !.step = "arrive", !.held = Season])
  /\ UNCHANGED <<schedule, row, board, state, hasEdits, armed, visit, made, wanted, applied, moved, spoiled>>

\* The board and the working state are replaced; edits made meanwhile stay armed
\* and would save what was loaded.
BoardArrives(c) ==
  /\ c \in calls /\ c.step = "arrive" /\ calls' = calls \ {c}
  /\ IF c.visit = visit
     THEN /\ board' = [places |-> c.held.places, applied |-> c.held.applied]
          /\ state' = Restored(c.held.places, c.held)
          /\ armed' = (hasEdits /\ ~c.held.applied)
     ELSE UNCHANGED <<board, state, armed>>
  /\ UNCHANGED <<schedule, row, hasEdits, visit, made, wanted, applied, moved, spoiled>>

Next ==
  \/ \E a \in Animes, p \in Places : Edit(a, p) \/ ScheduledElsewhere(a, p)
  \/ Autosave \/ Reset \/ Apply \/ Reopen \/ Reenter
  \/ \E c \in calls, ok \in BOOLEAN : WriteRow(c, ok)
  \/ \E c \in calls : ReadRow(c) \/ Plan(c) \/ Commit(c) \/ ReadBoard(c) \/ BoardArrives(c)
  \/ \E c \in calls, k \in {0} \cup Animes : CommitFails(c, k)

Spec == Init /\ [][Next]_vars

-----------------------------------------------------------------------------
\* The board never takes a running anime off its day.
Kept(a, place, base) == place = Rail /\ base # Rail

\* With nothing under way the board shows where the user left each anime, or the
\* schedule after a Reset, through autosaves, visits, applies and reopenings.
DraftKept ==
  calls = {} /\ ~armed /\ ~spoiled /\ ~moved =>
    IF wanted = <<>> THEN state = schedule
    ELSE \A a \in Animes : state[a] = wanted[a] \/ Kept(a, wanted[a], schedule[a])

\* A clean apply stores what the user saw when it was pressed.
AppliedIsSeen ==
  applied # <<>> /\ applied.clean /\ ~spoiled =>
    \A a \in Animes : schedule[a] = applied.seen[a] \/ Kept(a, applied.seen[a], applied.base[a])

=============================================================================
