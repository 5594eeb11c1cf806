------------------------------ MODULE TodayBoard ------------------------------
(* The Today board: the animes of the day or season section picked, and the  *)
(* two writes a card makes.  Every read replaces what is shown when it       *)
(* arrives, nothing tells an older read from a newer one, and a write, once  *)
(* answered, reads again the filter it was pressed in.                       *)
EXTENDS Naturals

CONSTANTS
  Animes, None,
  Options,                         \* Options[lens]: the filters of a lens, numbers; it lands on the least
  MaxCalls, MaxPresses, MaxVersion \* bounds: calls made, presses, writes to the store

VARIABLES
  stored,   \* each anime's row: [day, count, blocked, at]
  version,  \* the newest token
  pushes,   \* changes the window has not heard of
  calls,    \* reads of rows and writes under way
  made, pressed,
  probing,  \* the season mode has not answered
  lens, selected, \* the filter; None until the probe answers
  items,    \* the rows shown
  loading, failed,
  shownBy,  \* history: the filter the rows are of, whether a newer read was answered before, the newest
  overwrote \* history: a write met a row its card had not shown

store == <<stored, version, pushes>>
picked == <<probing, lens, selected>>
vars == <<store, calls, made, pressed, picked, items, loading, failed, shownBy, overwrote>>

Filters == UNION {Options[l] : l \in DOMAIN Options}
Landing(l) == CHOOSE f \in Options[l] : \A g \in Options[l] : f <= g
Row(a) == [anime |-> a, count |-> stored[a].count, blocked |-> stored[a].blocked, at |-> stored[a].at]
RowsOf(f) == {Row(a) : a \in {b \in Animes : stored[b].day = f}}

Writes == {"adjust", "state"}
TypeOK ==
  /\ \A a \in Animes : stored[a].day \in Filters /\ stored[a].at <= version
  /\ selected = None \/ selected \in Options[lens]
  /\ \A c \in calls : c.kind \in {"rows"} \cup Writes /\ c.ticket \in 1..made
  /\ {probing, loading, failed, overwrote} \subseteq BOOLEAN

Call(kind, day, row) == [ticket |-> made + 1, kind |-> kind, day |-> day, row |-> row, served |-> FALSE, ok |-> TRUE, answer |-> {}]
Sent(c, rest) == made < MaxCalls /\ made' = made + 1 /\ calls' = rest \cup {c}

Init ==
  /\ \E f \in [Animes -> Filters] :
       stored = [a \in Animes |-> [day |-> f[a], count |-> 0, blocked |-> FALSE, at |-> 0]]
  /\ version = 0 /\ pushes = 0 /\ calls = {} /\ made = 0 /\ pressed = 0
  /\ probing = TRUE /\ lens = "daily" /\ selected = None
  /\ items = {} /\ loading = TRUE /\ failed = FALSE
  /\ shownBy = [day |-> None, overtaken |-> FALSE, newest |-> 0] /\ overwrote = FALSE

\* Mutant: what is shown already is not read again.
RefreshShown(f, rest) ==
  IF f = None \/ f = shownBy.day THEN calls' = rest /\ UNCHANGED <<made, loading, failed>>
  ELSE Sent(Call("rows", f, None), rest) /\ loading' = TRUE /\ failed' = FALSE

\* refresh, for the filter it was made with; before the probe there is none.
Refresh(f, rest) ==
  IF f = None THEN calls' = rest /\ UNCHANGED <<made, loading, failed>>
  ELSE Sent(Call("rows", f, None), rest) /\ loading' = TRUE /\ failed' = FALSE

\* A filter other than the one selected is read; the same one is not.
Pick(l, f) ==
  /\ lens' = l /\ selected' = f
  /\ Refresh(IF f = selected THEN None ELSE f, calls)

-----------------------------------------------------------------------------
(* The user.  A board that failed shows its message and nothing to press.  *)

Press == pressed < MaxPresses /\ pressed' = pressed + 1 /\ ~failed

SelectDay(f) ==
  /\ Press /\ f \in Options[lens]
  /\ Pick(lens, f)
  /\ UNCHANGED <<store, probing, items, shownBy, overwrote>>

SelectLens(l) ==
  /\ Press
  /\ Pick(l, Landing(l))
  /\ UNCHANGED <<store, probing, items, shownBy, overwrote>>

\* A card's button carries the token of its row, and may be pressed again meanwhile.
Command(r, kind) ==
  /\ Press /\ ~loading /\ (kind = "adjust" => ~r.blocked)
  /\ Sent(Call(kind, selected, r), calls)
  /\ UNCHANGED <<store, picked, items, loading, failed, shownBy, overwrote>>

-----------------------------------------------------------------------------
(* The backend                                                             *)

Store(a, row) ==
  /\ version < MaxVersion /\ version' = version + 1 /\ pushes' = pushes + 1
  /\ stored' = [stored EXCEPT ![a] = [row EXCEPT !.at = version']]
Written(row, kind) ==
  IF kind = "adjust" THEN [row EXCEPT !.count = @ + 1] ELSE [row EXCEPT !.blocked = ~@]

\* A phone writes progress, or the Editor moves the anime.
OtherWrite(a, row) ==
  /\ row \in {Written(stored[a], "adjust")} \cup {[stored[a] EXCEPT !.day = f] : f \in Filters \ {stored[a].day}}
  /\ Store(a, row)
  /\ UNCHANGED <<calls, made, pressed, picked, items, loading, failed, shownBy, overwrote>>

Served(c, ok, answer) == calls' = (calls \ {c}) \cup {[c EXCEPT !.served = TRUE, !.ok = ok, !.answer = answer]}

ServeRead(c) ==
  /\ c.kind = "rows" /\ ~c.served
  /\ Served(c, TRUE, RowsOf(c.day))
  /\ UNCHANGED <<store, made, pressed, picked, items, loading, failed, shownBy, overwrote>>

\* A write that fails, or whose row has changed since its token, is refused.
Refused(c) ==
  /\ c.kind \in Writes /\ ~c.served
  /\ Served(c, FALSE, {})
  /\ UNCHANGED <<store, made, pressed, picked, items, loading, failed, shownBy, overwrote>>

\* A stored write is still answered as failed when its activity cannot be recorded.
Applied(c, ok) ==
  /\ c.kind \in Writes /\ ~c.served /\ stored[c.row.anime].at = c.row.at
  /\ Store(c.row.anime, Written(stored[c.row.anime], c.kind))
  /\ Served(c, ok, {})
  /\ overwrote' = (overwrote \/ Row(c.row.anime) # c.row)
  /\ UNCHANGED <<made, pressed, picked, items, loading, failed, shownBy>>

-----------------------------------------------------------------------------
(* What arrives                                                            *)

\* The season mode chooses the lens and its landing filter, whatever is picked; one
\* that cannot be read is daily.
ProbeAnswers(l) ==
  /\ probing /\ probing' = FALSE
  /\ Pick(l, Landing(l))
  /\ UNCHANGED <<store, pressed, items, shownBy, overwrote>>

RowsArrive(c) ==
  /\ c.kind = "rows" /\ c.served /\ calls' = calls \ {c}
  /\ items' = c.answer /\ loading' = FALSE
  /\ shownBy' = [day |-> c.day, overtaken |-> c.ticket < shownBy.newest,
                 newest |-> IF c.ticket > shownBy.newest THEN c.ticket ELSE shownBy.newest]
  /\ UNCHANGED <<store, made, pressed, picked, failed, overwrote>>

ReadFails(c) ==
  /\ c.kind = "rows" /\ calls' = calls \ {c}
  /\ failed' = TRUE /\ loading' = FALSE
  /\ UNCHANGED <<store, made, pressed, picked, items, shownBy, overwrote>>

\* A refusal puts its message in the board's place.
CommandAnswered(c) ==
  /\ c.kind \in Writes /\ c.served
  /\ IF c.ok THEN Refresh(c.day, calls \ {c})
     ELSE calls' = calls \ {c} /\ failed' = TRUE /\ UNCHANGED <<made, loading>>
  /\ UNCHANGED <<store, pressed, picked, items, shownBy, overwrote>>

PushArrives ==
  /\ pushes > 0 /\ pushes' = pushes - 1
  /\ Refresh(selected, calls)
  /\ UNCHANGED <<stored, version, pressed, picked, items, shownBy, overwrote>>

Next ==
  \/ \E f \in Filters : SelectDay(f)
  \/ \E l \in DOMAIN Options : SelectLens(l) \/ ProbeAnswers(l)
  \/ \E r \in items, kind \in Writes : Command(r, kind)
  \/ \E a \in Animes, f \in Filters : OtherWrite(a, [stored[a] EXCEPT !.day = f]) \/ OtherWrite(a, Written(stored[a], "adjust"))
  \/ \E c \in calls : ServeRead(c) \/ Refused(c) \/ RowsArrive(c) \/ ReadFails(c) \/ CommandAnswered(c)
  \/ \E c \in calls, ok \in BOOLEAN : Applied(c, ok)
  \/ PushArrives

\* What is on its way arrives.
Answer ==
  \/ \E c \in calls : ServeRead(c) \/ Refused(c) \/ RowsArrive(c) \/ CommandAnswered(c)
  \/ \E l \in DOMAIN Options : ProbeAnswers(l)
  \/ PushArrives

Spec == Init /\ [][Next]_vars /\ WF_vars(Answer)

-----------------------------------------------------------------------------
\* With nothing under way the rows are the store's rows of the filter picked,
\* unless an older answer was applied after a newer one, or the last read was of
\* the filter a write had been pressed in.
RowsSettle ==
  calls = {} /\ pushes = 0 /\ ~failed /\ ~shownBy.overtaken /\ shownBy.day = selected =>
    items = IF selected = None THEN {} ELSE RowsOf(selected)

\* A card's write never meets a row its card has not shown.
OthersSurvive == ~overwrote

\* The skeleton ends.
Loads == loading ~> ~loading

===============================================================================
