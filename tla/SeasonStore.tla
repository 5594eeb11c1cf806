----------------------------- MODULE SeasonStore -----------------------------
(* The window's shared store of the season: the open season and its intake   *)
(* rows, a closed season while the user reads one, optimistic settings, the  *)
(* intake commands, and a live matching run told by events.                  *)
EXTENDS Naturals, Sequences, FiniteSets

CONSTANTS
  Pasts,     \* closed seasons
  Rows,      \* intake rows of the open season
  Grades, None,
  MaxCalls   \* bound: calls the user starts

VARIABLES
  grade, matched,  \* the backend: minimum grade of the open season, rows with a match
  matching,        \* the backend's matching run: "idle", "running", "over"
  queue,           \* what the run told and the window has not heard, its result last
  calls, made,
  season,          \* season: [of, grade], of = "live" or a closed season; or None
  rows,            \* seasonAnimes: [of, matched]; None when there are none
  ensured,         \* hasLoadedAnimes
  viewing,         \* viewSeasonId; readOnly is viewing # None
  busy,            \* busyMessage is set
  run,             \* matchingRun: the rows resolved so far, or None
  panel,           \* the intake panel is open
  misplaced,       \* history: an answer about one season came while another was viewed
  crossed          \* history: calls overlapped and an older answer won, or a reload failed

backend == <<grade, matched, matching>>
shown == <<season, rows, ensured, viewing>>
vars == <<backend, queue, calls, made, shown, busy, run, panel, misplaced, crossed>>

SeasonOf(of, g) == [of |-> of, grade |-> g]
RowsOf(of, m) == [of |-> of, matched |-> m]
OldGrade == CHOOSE g \in Grades : TRUE

TypeOK ==
  /\ grade \in Grades /\ matched \subseteq Rows /\ matching \in {"idle", "running", "over"}
  /\ season = None \/ season \in [of : Pasts \cup {"live"}, grade : Grades]
  /\ rows = None \/ rows \in [of : Pasts \cup {"live"}, matched : SUBSET Rows]
  /\ viewing \in Pasts \cup {None}
  /\ run = None \/ run \in 0..Cardinality(Rows)
  /\ {ensured, busy, panel, misplaced, crossed} \subseteq BOOLEAN
  /\ \A c \in calls : c.kind \in {"season", "past", "grade", "animes", "ensure", "resolve"}

Init ==
  /\ grade = OldGrade /\ matched = {} /\ matching = "idle" /\ queue = <<>>
  /\ calls = {} /\ made = 0
  /\ season = SeasonOf("live", grade) /\ viewing = None
  /\ ensured \in BOOLEAN /\ rows = IF ensured THEN RowsOf("live", {}) ELSE None
  /\ busy = FALSE /\ run = None /\ panel = TRUE
  /\ misplaced = FALSE /\ crossed = FALSE

Call(kind, arg, before) ==
  [ticket |-> made + 1, kind |-> kind, arg |-> arg, before |-> before, served |-> FALSE, ok |-> TRUE, answer |-> None]

Ask(remaining, c) == made' = made + 1 /\ calls' = remaining \cup {c}
UserAsks(c) == made < MaxCalls /\ Ask(calls, c)

\* refresh and refreshAnimes look at the viewed season when they ask, and never again.
Refresh ==
  /\ viewing = None
  /\ UserAsks(Call("season", None, None))
  /\ UNCHANGED <<backend, queue, shown, busy, run, panel, misplaced, crossed>>

EnsureAnimes ==
  /\ ~ensured /\ viewing = None
  /\ ensured' = TRUE
  /\ UserAsks(Call("ensure", None, None))
  /\ UNCHANGED <<backend, queue, season, rows, viewing, busy, run, panel, misplaced, crossed>>

RefreshAnimes(remaining) ==
  IF viewing = None THEN Ask(remaining, Call("animes", None, None))
  ELSE calls' = remaining /\ UNCHANGED made

ViewPast(p) ==
  /\ UserAsks(Call("past", p, None))
  /\ UNCHANGED <<backend, queue, shown, busy, run, panel, misplaced, crossed>>

\* Mutant: leaving a closed season keeps its rows.
ExitPastKeepsRows ==
  /\ viewing # None
  /\ viewing' = None /\ season' = None /\ ensured' = FALSE
  /\ UserAsks(Call("season", None, None))
  /\ misplaced' = (\E c \in calls : c.kind = "past")
  /\ UNCHANGED <<backend, queue, rows, busy, run, panel, crossed>>

ExitPast ==
  /\ viewing # None
  /\ viewing' = None /\ season' = None /\ rows' = None /\ ensured' = FALSE
  /\ UserAsks(Call("season", None, None))
  /\ misplaced' = (\E c \in calls : c.kind = "past")
  /\ UNCHANGED <<backend, queue, busy, run, panel, crossed>>

\* setMinApprovalGrade and setSlots: shown at once, the call remembers the season before.
SetGrade(g) ==
  /\ viewing = None
  /\ season' = IF season = None THEN None ELSE [season EXCEPT !.grade = g]
  /\ UserAsks(Call("grade", g, season))
  /\ UNCHANGED <<backend, queue, rows, ensured, viewing, busy, run, panel, misplaced, crossed>>

\* An intake command, here the resolution of one row's match.
ResolveMatch(r) ==
  /\ viewing = None
  /\ UserAsks(Call("resolve", r, None))
  /\ UNCHANGED <<backend, queue, shown, busy, run, panel, misplaced, crossed>>

\* The backend carries a call out, or fails and changes nothing.
Serve(c, ok) ==
  /\ ~c.served /\ c.kind # "past" /\ (ok \/ c.kind # "season")
  /\ grade' = IF ok /\ c.kind = "grade" THEN c.arg ELSE grade
  /\ matched' = IF ok /\ c.kind = "resolve" THEN matched \cup {c.arg} ELSE matched
  /\ calls' = (calls \ {c}) \cup {[c EXCEPT !.served = TRUE, !.ok = ok,
        !.answer = CASE c.kind = "season" -> SeasonOf("live", grade)
                     [] c.kind \in {"animes", "ensure"} -> RowsOf("live", matched)
                     [] OTHER -> None]}
  /\ UNCHANGED <<matching, queue, made, shown, busy, run, panel, misplaced, crossed>>

Overlaps(c) == \E d \in calls \ {c} : d.kind \in {"grade", "season"}

\* A read of the season answers, into whatever is viewed by now.
SeasonArrives(c) ==
  /\ c.kind = "season" /\ c.served /\ calls' = calls \ {c}
  /\ season' = c.answer
  /\ misplaced' = (misplaced \/ viewing # None)
  /\ crossed' = (crossed \/ c.answer.grade # grade \/ Overlaps(c))
  /\ UNCHANGED <<backend, queue, made, rows, ensured, viewing, busy, run, panel>>

PastArrives(c) ==
  /\ c.kind = "past" /\ calls' = calls \ {c}
  /\ season' = SeasonOf(c.arg, OldGrade) /\ rows' = RowsOf(c.arg, {})
  /\ viewing' = c.arg /\ ensured' = TRUE /\ run' = None /\ misplaced' = FALSE
  /\ UNCHANGED <<backend, queue, made, busy, panel, crossed>>

\* A setting that fails puts the whole season of the press back.
GradeSet(c) ==
  /\ c.kind = "grade" /\ c.served /\ calls' = calls \ {c}
  /\ season' = IF c.ok THEN season ELSE c.before
  /\ misplaced' = (misplaced \/ (~c.ok /\ viewing # None))
  /\ crossed' = (crossed \/ Overlaps(c))
  /\ UNCHANGED <<backend, queue, made, rows, ensured, viewing, busy, run, panel>>

AnimesArrive(c) ==
  /\ c.kind \in {"animes", "ensure"} /\ c.served /\ calls' = calls \ {c}
  /\ rows' = IF c.ok THEN c.answer ELSE rows
  /\ ensured' = IF ~c.ok /\ c.kind = "ensure" THEN FALSE ELSE ensured
  /\ misplaced' = (misplaced \/ (c.ok /\ viewing # None))
  /\ crossed' = (crossed \/ ~c.ok \/ c.answer.matched # matched)
  /\ UNCHANGED <<backend, queue, made, season, viewing, busy, run, panel>>

\* Mutant: a resolved match does not read the rows again.
ResolvedOnly(c) ==
  /\ c.kind = "resolve" /\ c.served
  /\ calls' = calls \ {c}
  /\ UNCHANGED <<backend, queue, made, shown, busy, run, panel, misplaced, crossed>>

Resolved(c) ==
  /\ c.kind = "resolve" /\ c.served
  /\ IF c.ok THEN RefreshAnimes(calls \ {c}) ELSE calls' = calls \ {c} /\ UNCHANGED made
  /\ UNCHANGED <<backend, queue, shown, busy, run, panel, misplaced, crossed>>

\* The matching run: started, one event per row, then finished, or an abort that
\* tells nothing; the result of the command follows its events.
RunMatching ==
  /\ viewing = None /\ matching = "idle"
  /\ made < MaxCalls /\ made' = made + 1
  /\ matching' = "running" /\ busy' = TRUE
  /\ queue' = <<[kind |-> "started", row |-> None]>>
  /\ UNCHANGED <<grade, matched, calls, shown, run, panel, misplaced, crossed>>

MatchRow(r) ==
  /\ matching = "running" /\ r \notin matched
  /\ matched' = matched \cup {r}
  /\ queue' = Append(queue, [kind |-> "progress", row |-> r])
  /\ UNCHANGED <<grade, matching, calls, made, shown, busy, run, panel, misplaced, crossed>>

MatchingOver(ok) ==
  /\ matching = "running" /\ matching' = "over"
  /\ queue' = queue \o (IF ok THEN <<[kind |-> "finished", row |-> None], [kind |-> "ok", row |-> None]>>
                        ELSE <<[kind |-> "aborted", row |-> None]>>)
  /\ UNCHANGED <<grade, matched, calls, made, shown, busy, run, panel, misplaced, crossed>>

\* An event of the run is heard, when the panel shows the open season; the result always is.
Hear ==
  /\ queue # <<>> /\ queue' = Tail(queue)
  /\ LET e == Head(queue)
         heard == (panel /\ viewing = None) \/ e.kind \in {"ok", "aborted"}
     IN /\ run' = IF ~heard \/ e.kind = "ok" THEN run
                  ELSE CASE e.kind = "started" -> 0
                         [] e.kind = "progress" -> IF run = None THEN None ELSE run + 1
                         [] OTHER -> None
        /\ rows' = IF heard /\ e.kind = "progress" /\ rows # None /\ rows.of = "live"
                   THEN [rows EXCEPT !.matched = @ \cup {e.row}] ELSE rows
        /\ busy' = (busy /\ e.kind \notin {"ok", "aborted"})
        /\ IF heard /\ (e.kind = "finished" \/ (e.kind = "ok" /\ run = None))
           THEN RefreshAnimes(calls) ELSE UNCHANGED <<calls, made>>
  /\ UNCHANGED <<backend, season, ensured, viewing, panel, misplaced, crossed>>

\* The panel is left, which forgets the run, and opened again, which reads the rows.
ClosePanel ==
  /\ panel /\ panel' = FALSE /\ run' = None
  /\ UNCHANGED <<backend, queue, calls, made, shown, busy, misplaced, crossed>>

OpenPanel ==
  /\ ~panel /\ made < MaxCalls /\ panel' = TRUE
  /\ RefreshAnimes(calls)
  /\ UNCHANGED <<backend, queue, shown, busy, run, misplaced, crossed>>

Answer ==
  \E c \in calls :
    \/ \E ok \in BOOLEAN : Serve(c, ok)
    \/ SeasonArrives(c) \/ PastArrives(c) \/ GradeSet(c) \/ AnimesArrive(c) \/ Resolved(c)

Next ==
  \/ Answer \/ Hear
  \/ Refresh \/ EnsureAnimes \/ ExitPast \/ RunMatching \/ ClosePanel \/ OpenPanel
  \/ \E p \in Pasts : ViewPast(p)
  \/ \E g \in Grades : SetGrade(g)
  \/ \E r \in Rows : ResolveMatch(r) \/ MatchRow(r)
  \/ \E ok \in BOOLEAN : MatchingOver(ok)

RunIsOver == \E ok \in BOOLEAN : MatchingOver(ok)

Fairness == WF_vars(Answer) /\ WF_vars(Hear) /\ WF_vars(RunIsOver)
Spec == Init /\ [][Next]_vars /\ Fairness

\* The season and the rows on the screen are those of the season viewed, unless
\* an answer about another one arrived late.
ShowsWhatIsViewed ==
  ~misplaced =>
    LET of == IF viewing = None THEN "live" ELSE viewing
    IN /\ season # None => season.of = of
       /\ rows # None => rows.of = of

\* When everything has been answered and heard, what is shown of the open season
\* is what the backend holds, unless an answer was older than what was shown.
SeasonSettles ==
  calls = {} /\ queue = <<>> /\ matching # "running" /\ panel /\ viewing = None /\ ~misplaced /\ ~crossed =>
    /\ season # None => season.grade = grade
    /\ rows # None => rows.matched = matched

=============================================================================
