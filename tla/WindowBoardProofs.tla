-------------------------- MODULE WindowBoardProofs --------------------------
(***************************************************************************)
(* Proofs about the screens of the window that show what a store keeps and *)
(* let it be changed: the season, the card of an anime's episodes, the     *)
(* schedule of the downloads, Today, the runs, the ordering board and the  *)
(* editor.  They hold for any values of the constants that each part's     *)
(* assumptions allow.                                                      *)
(*                                                                         *)
(* Each part has the component's inductive invariant, the lemma that each  *)
(* of its actions keeps it, and what it says of the component's promises.  *)
(* FrontendProofs carries the results over to the window as a whole.       *)
(***************************************************************************)
EXTENDS Naturals, Sequences, FiniteSets, FiniteSetTheorems, WellFoundedInduction, TLAPS

CONSTANTS
  None,
  Pasts, Rows, Grades, SeasonCalls,
  Animes, Episodes, CardCalls,
  ScheduleCalls,
  TodayAnimes, TodayOptions, TodayCalls, TodayPresses, TodayVersion,
  RunPage, RunsPast, RunsMost, RunsCalls,
  OrderAnimes, OrderDays, OrderStarts, OrderCalls,
  Fields, EditorVersion, EditorCalls

VARIABLES
  grade, matched, matching, queue, calls, made, season, rows, ensured, viewing, busy, run, panel,
  misplaced, crossed,
  stored, anime, edits, saving, load, running, review, analysis, cancelled, late, abandoned, lost,
  events, config, loaded, failed, page, hidden, alert, resolving, alerted, unheard, blank, behind,
  overwrote,
  version, pushes, pressed, probing, lens, selected, items, loading, shownBy,
  runs, current, queued, steps, notices, runHistory, read, problemsOnly, visibleCount, entry,
  reading, stopping, kept,
  schedule, row, board, state, hasEdits, armed, visit, wanted, applied, moved, spoiled,
  record, draft, retains, sequence, pending, typed, warned, strayed, droppedBy

Season == INSTANCE SeasonStore WITH MaxCalls <- SeasonCalls
Durations == INSTANCE EpisodeCard WITH MaxCalls <- CardCalls
Downloads == INSTANCE DownloadStore WITH MaxCalls <- ScheduleCalls
Today == INSTANCE TodayBoard WITH
  Animes <- TodayAnimes, Options <- TodayOptions, MaxCalls <- TodayCalls,
  MaxPresses <- TodayPresses, MaxVersion <- TodayVersion
Runs == INSTANCE RunHistory WITH
  PageSize <- RunPage, Past <- RunsPast, MaxRuns <- RunsMost, MaxCalls <- RunsCalls
Ordering == INSTANCE OrderingBoard WITH
  Animes <- OrderAnimes, Days <- OrderDays, Starts <- OrderStarts, MaxCalls <- OrderCalls
Editor == INSTANCE EditorRecord WITH MaxVersion <- EditorVersion, MaxCalls <- EditorCalls

-----------------------------------------------------------------------------
(* The season store.  A setting is pressed on the open season only, so the   *)
(* season it would put back is the open one, and leaving a closed season     *)
(* leaves nothing of it: what is shown while none is viewed is the open      *)
(* season's, whatever came late.                                             *)

SeasonAssumptions == None \notin Pasts /\ Grades # {} /\ IsFiniteSet(Rows)

\* Nothing, or a season or rows of the one named.
SeasonIs(s, of) == s = None \/ s = [of |-> of, grade |-> s.grade]
RowsAre(s, of) == s = None \/ s = [of |-> of, matched |-> s.matched]

SoundCalls(calling) ==
  \A c \in calling :
    /\ c.kind = "past" => c.arg \in Pasts
    /\ c.kind = "grade" => SeasonIs(c.before, "live")
    /\ c.served /\ c.kind = "season" => SeasonIs(c.answer, "live")
    /\ c.served /\ c.kind \in {"animes", "ensure"} => RowsAre(c.answer, "live")

SeasonViewed ==
  /\ viewing \in Pasts \cup {None} /\ SoundCalls(calls)
  /\ viewing = None => SeasonIs(season, "live") /\ RowsAre(rows, "live")
  /\ viewing # None /\ ~misplaced => SeasonIs(season, viewing) /\ RowsAre(rows, viewing)

LEMMA SeasonViewedInit ==
  ASSUME SeasonAssumptions, Season!Init PROVE SeasonViewed
<1>1. viewing = None /\ calls = {} /\ season = [of |-> "live", grade |-> grade]
      /\ (rows = None \/ rows = [of |-> "live", matched |-> {}])
  BY DEF Season!Init, Season!SeasonOf, Season!RowsOf
<1> QED
  BY <1>1 DEF SeasonViewed, SoundCalls, SeasonIs, RowsAre

LEMMA SeasonSame ==
  ASSUME SeasonViewed, SoundCalls(calls'), UNCHANGED <<season, rows, viewing, misplaced>>
         PROVE SeasonViewed'
BY DEF SeasonViewed, SeasonIs, RowsAre, SoundCalls

LEMMA SeasonFewer ==
  ASSUME SeasonViewed, NEW S \in SUBSET calls PROVE SoundCalls(S)
BY DEF SeasonViewed, SoundCalls

\* A call asked for holds nothing yet but the season a setting was pressed on.
LEMMA SeasonAsks ==
  ASSUME SeasonViewed, NEW S \in SUBSET calls, NEW kind, NEW arg, NEW before,
         Season!Ask(S, Season!Call(kind, arg, before)),
         kind = "past" => arg \in Pasts, kind = "grade" => SeasonIs(before, "live")
  PROVE  SoundCalls(calls')
<1> DEFINE n == Season!Call(kind, arg, before)
<1>1. n = [ticket |-> made + 1, kind |-> kind, arg |-> arg, before |-> before, served |-> FALSE,
          ok |-> TRUE, answer |-> None]
  BY DEF Season!Call
<1>2. calls' = S \cup {n}
  BY DEF Season!Ask
<1> HIDE DEF n
<1>3. n.kind = kind /\ n.arg = arg /\ n.before = before /\ n.served = FALSE
  BY <1>1
<1> QED
  BY <1>2, <1>3 DEF SeasonViewed, SoundCalls

LEMMA SeasonReads ==
  ASSUME SeasonViewed, NEW S \in SUBSET calls, Season!RefreshAnimes(S) PROVE SoundCalls(calls')
BY SeasonAsks, SeasonFewer DEF Season!RefreshAnimes

\* The user's calls and the backend change nothing on the screen.
LEMMA SeasonPresses ==
  ASSUME SeasonViewed,
         \/ Season!Refresh \/ Season!EnsureAnimes \/ Season!RunMatching \/ Season!ClosePanel
               \/ Season!OpenPanel
         \/ \E p \in Pasts : Season!ViewPast(p)
         \/ \E r \in Rows : Season!ResolveMatch(r) \/ Season!MatchRow(r)
         \/ \E ok \in BOOLEAN : Season!MatchingOver(ok)
  PROVE  SeasonViewed'
<1>1. UNCHANGED <<season, rows, viewing, misplaced>>
  BY DEF Season!Refresh, Season!EnsureAnimes, Season!RunMatching, Season!ClosePanel,
    Season!OpenPanel, Season!ViewPast,
    Season!ResolveMatch, Season!MatchRow, Season!MatchingOver, Season!shown
<1>2. CASE Season!RunMatching \/ Season!ClosePanel \/ (\E r \in Rows : Season!MatchRow(r))
           \/ \E ok \in BOOLEAN : Season!MatchingOver(ok)
  <2>1. calls' = calls
    BY <1>2 DEF Season!RunMatching, Season!ClosePanel, Season!MatchRow, Season!MatchingOver
  <2> QED
    BY <1>1, <2>1, SeasonSame DEF SeasonViewed
<1>3. CASE Season!OpenPanel
  BY <1>1, <1>3, SeasonReads, SeasonSame DEF Season!OpenPanel
<1>4. CASE Season!Refresh \/ Season!EnsureAnimes
  <2>1. PICK kind \in {"season", "ensure"} : Season!Ask(calls, Season!Call(kind, None, None))
    BY <1>4 DEF Season!Refresh, Season!EnsureAnimes, Season!UserAsks
  <2>2. kind # "past" /\ kind # "grade"
    OBVIOUS
  <2> QED
    BY <1>1, <2>1, <2>2, SeasonAsks, SeasonSame
<1>5. ASSUME NEW p \in Pasts, Season!ViewPast(p) PROVE SeasonViewed'
  <2>1. Season!Ask(calls, Season!Call("past", p, None))
    BY <1>5 DEF Season!ViewPast, Season!UserAsks
  <2> QED
    BY <1>1, <2>1, SeasonAsks, SeasonSame
<1>6. ASSUME NEW r \in Rows, Season!ResolveMatch(r) PROVE SeasonViewed'
  <2>1. Season!Ask(calls, Season!Call("resolve", r, None))
    BY <1>6 DEF Season!ResolveMatch, Season!UserAsks
  <2> QED
    BY <1>1, <2>1, SeasonAsks, SeasonSame
<1> QED
  BY <1>2, <1>3, <1>4, <1>5, <1>6

LEMMA SeasonServes ==
  ASSUME SeasonViewed, NEW c \in calls, NEW ok \in BOOLEAN, Season!Serve(c, ok) PROVE SeasonViewed'
<1>1. PICK answer : answer = CASE c.kind = "season" -> Season!SeasonOf("live", grade)
                              [] c.kind \in {"animes", "ensure"} -> Season!RowsOf("live", matched)
                              [] OTHER -> None
  OBVIOUS
<1>2. PICK d : d = [c EXCEPT !.served = TRUE, !.ok = ok, !.answer = answer]
  OBVIOUS
<1>3. calls' = (calls \ {c}) \cup {d} /\ UNCHANGED <<season, rows, viewing, misplaced>>
  BY <1>1, <1>2 DEF Season!Serve, Season!shown
<1>4. c.kind = "season" => SeasonIs(answer, "live")
  BY <1>1 DEF SeasonIs, Season!SeasonOf
<1>5. c.kind \in {"animes", "ensure"} => RowsAre(answer, "live")
  BY <1>1 DEF RowsAre, Season!RowsOf
<1>6. d.kind = c.kind /\ d.arg = c.arg /\ d.before = c.before /\ d.answer = answer
  BY <1>2
<1>7. SoundCalls(calls')
  BY <1>3, <1>4, <1>5, <1>6 DEF SeasonViewed, SoundCalls
<1> QED
  BY <1>3, <1>7, SeasonSame

\* Viewing another season, or a new setting of the open one.
LEMMA SeasonTurns ==
  ASSUME SeasonAssumptions, SeasonViewed,
         Season!ExitPast \/ (\E g \in Grades : Season!SetGrade(g)) \/ \E c \in calls :
             Season!PastArrives(c)
  PROVE  SeasonViewed'
<1>1. CASE Season!ExitPast
  <2>1. viewing' = None /\ season' = None /\ rows' = None
            /\ Season!Ask(calls, Season!Call("season", None, None))
    BY <1>1 DEF Season!ExitPast, Season!UserAsks
  <2>2. SoundCalls(calls')
    BY <2>1, SeasonAsks
  <2> QED
    BY <2>1, <2>2 DEF SeasonViewed, SeasonIs, RowsAre, SoundCalls
<1>2. ASSUME NEW g \in Grades, Season!SetGrade(g) PROVE SeasonViewed'
  <2>1. /\ viewing = None /\ UNCHANGED <<viewing, rows>> /\ season' = IF season = None THEN None
              ELSE [season EXCEPT !.grade = g]
        /\ Season!Ask(calls, Season!Call("grade", g, season))
    BY <1>2 DEF Season!SetGrade, Season!UserAsks
  <2>2. SeasonIs(season, "live") /\ RowsAre(rows, "live")
    BY <2>1 DEF SeasonViewed
  <2>3. SoundCalls(calls')
    BY <2>1, <2>2, SeasonAsks
  <2>4. SeasonIs(season', "live")
    BY <2>1, <2>2 DEF SeasonIs
  <2> QED
    BY <2>1, <2>2, <2>3, <2>4 DEF SeasonViewed, SoundCalls, SeasonIs, RowsAre
<1>3. ASSUME NEW c \in calls, Season!PastArrives(c) PROVE SeasonViewed'
  <2>1. /\ c.kind = "past" /\ calls' = calls \ {c} /\ season' = Season!SeasonOf(c.arg, Season!OldGrade)
        /\ rows' = Season!RowsOf(c.arg, {}) /\ viewing' = c.arg
    BY <1>3 DEF Season!PastArrives
  <2>2. c.arg \in Pasts /\ c.arg # None /\ SoundCalls(calls')
    BY <2>1, SeasonFewer DEF SeasonViewed, SoundCalls, SeasonAssumptions
  <2>3. SeasonIs(season', c.arg) /\ RowsAre(rows', c.arg)
    BY <2>1 DEF SeasonIs, RowsAre, Season!SeasonOf, Season!RowsOf
  <2> QED
    BY <2>1, <2>2, <2>3 DEF SeasonViewed, SoundCalls, SeasonIs, RowsAre
<1> QED
  BY <1>1, <1>2, <1>3

\* What comes late while a closed season is viewed is noted.
LEMMA SeasonAnswers ==
  ASSUME SeasonViewed, NEW c \in calls,
         Season!SeasonArrives(c) \/ Season!GradeSet(c) \/ Season!AnimesArrive(c) \/ Season!Resolved(c)
  PROVE  SeasonViewed'
<1>1. CASE Season!Resolved(c)
  <2>1. UNCHANGED <<season, rows, viewing, misplaced>>
    BY <1>1 DEF Season!Resolved, Season!shown
  <2>2. PICK S \in SUBSET calls : S = calls \ {c}
    OBVIOUS
  <2>3. SoundCalls(calls')
    BY <1>1, <2>2, SeasonReads, SeasonFewer DEF Season!Resolved
  <2> QED
    BY <2>1, <2>3, SeasonSame
<1>2. CASE Season!SeasonArrives(c) \/ Season!GradeSet(c)
  <2>1. calls' = calls \ {c} /\ UNCHANGED <<rows, viewing>>
    BY <1>2 DEF Season!SeasonArrives, Season!GradeSet
  <2>2. \/ SeasonIs(season', "live") /\ (viewing = None \/ misplaced')
        \/ UNCHANGED season
    BY <1>2 DEF Season!SeasonArrives, Season!GradeSet, SeasonViewed, SoundCalls
  <2>3. misplaced => misplaced'
    BY <1>2 DEF Season!SeasonArrives, Season!GradeSet
  <2>4. SoundCalls(calls')
    BY <2>1, SeasonFewer
  <2> QED
    BY <2>1, <2>2, <2>3, <2>4 DEF SeasonViewed, SoundCalls, SeasonIs, RowsAre
<1>3. CASE Season!AnimesArrive(c)
  <2>1. calls' = calls \ {c} /\ UNCHANGED <<season, viewing>>
    BY <1>3 DEF Season!AnimesArrive
  <2>2. \/ RowsAre(rows', "live") /\ (viewing = None \/ misplaced')
        \/ UNCHANGED rows
    BY <1>3 DEF Season!AnimesArrive, SeasonViewed, SoundCalls
  <2>3. misplaced => misplaced'
    BY <1>3 DEF Season!AnimesArrive
  <2>4. SoundCalls(calls')
    BY <2>1, SeasonFewer
  <2> QED
    BY <2>1, <2>2, <2>3, <2>4 DEF SeasonViewed, SoundCalls, SeasonIs, RowsAre
<1> QED
  BY <1>1, <1>2, <1>3

LEMMA SeasonHears ==
  ASSUME SeasonViewed, Season!Hear PROVE SeasonViewed'
<1>1. UNCHANGED <<season, viewing, misplaced>>
  BY DEF Season!Hear
<1>2. rows' = rows \/ \E m : rows # None /\ rows' = [rows EXCEPT !.matched = m]
  BY DEF Season!Hear
<1>3. SoundCalls(calls')
  <2>1. Season!RefreshAnimes(calls) \/ calls' = calls
    BY DEF Season!Hear
  <2> QED
    BY <2>1, SeasonReads, SeasonFewer
<1>4. \A of : RowsAre(rows, of) => RowsAre(rows', of)
  BY <1>2 DEF RowsAre
<1> QED
  BY <1>1, <1>3, <1>4 DEF SeasonViewed, SeasonIs, SoundCalls, RowsAre

LEMMA SeasonViewedStep ==
  ASSUME SeasonAssumptions, SeasonViewed, [Season!Next]_(Season!vars) PROVE SeasonViewed'
<1>1. CASE Season!Next
  BY <1>1, SeasonPresses, SeasonServes, SeasonTurns, SeasonAnswers, SeasonHears DEF Season!Next,
    Season!Answer
<1>2. CASE UNCHANGED Season!vars
  BY <1>2, SeasonSame, SeasonFewer DEF Season!vars, Season!shown
<1> QED
  BY <1>1, <1>2

-----------------------------------------------------------------------------
(* That the store settles.  While one setting or read of the season is out,  *)
(* what its answer will leave is known, and two of them cross.  Of the rows, *)
(* what the backend matched and the screen does not show is about to be read *)
(* or still to be heard.                                                     *)

SeasonRecords == [of : Pasts \cup {"live"}, grade : Grades]
RowRecords == [of : Pasts \cup {"live"}, matched : SUBSET Rows]
RunEvents == [kind : {"started", "progress", "finished", "ok", "aborted"}, row : Rows \cup {None}]

\* The rows a sequence of events tells of.
Progress(q) == {j \in 1..Len(q) : q[j].kind = "progress"}
Told(q) == {q[j].row : j \in Progress(q)}
TellsOnce(q) == \A i, j \in Progress(q) : q[i].row = q[j].row => i = j

SeasonTypes ==
  /\ grade \in Grades /\ matched \in SUBSET Rows /\ matching \in {"idle", "running", "over"}
  /\ season = None \/ season \in SeasonRecords
  /\ rows = None \/ (rows \in RowRecords /\ rows.matched \subseteq matched)
  /\ ensured \in BOOLEAN /\ busy \in BOOLEAN /\ panel \in BOOLEAN /\ misplaced \in BOOLEAN
        /\ crossed \in BOOLEAN

SeasonCallTypes ==
  /\ made \in Nat
  /\ \A c, d \in calls : c.ticket = d.ticket => c = d
  /\ \A c \in calls :
       /\ c.ticket \in Nat /\ c.ticket <= made /\ c.served \in BOOLEAN /\ c.ok \in BOOLEAN
       /\ c.kind \in {"season", "past", "grade", "animes", "ensure", "resolve"}
       /\ c.kind = "past" => c.arg \in Pasts
       /\ c.kind = "grade" => c.arg \in Grades /\ (c.before = None \/ c.before \in SeasonRecords)
       /\ c.kind = "resolve" => c.arg \in Rows
       /\ c.served /\ c.kind = "season" => c.answer \in SeasonRecords
       /\ c.served /\ c.kind \in {"animes", "ensure"} => c.answer \in RowRecords
             /\ c.answer.matched \subseteq matched

RunTypes ==
  /\ queue \in Seq(RunEvents) /\ Told(queue) \subseteq matched /\ TellsOnce(queue)
  /\ matching = "idle" => queue = <<>>
  /\ run = None \/ (run \in Nat /\ run + Cardinality(Told(queue)) <= Cardinality(matched))

Setting(c) == c.kind \in {"grade", "season"}
HasGrade(s, g) == s # None => s.grade = g

\* What the one setting or read of the season leaves.
LeavesGrade(c) ==
  /\ c.kind = "season" => HasGrade(season, grade)
  /\ c.kind = "grade" =>
       /\ ~c.served => HasGrade(season, c.arg) /\ HasGrade(c.before, grade)
       /\ c.served /\ c.ok => HasGrade(season, grade)
       /\ c.served /\ ~c.ok => HasGrade(c.before, grade)

GradeOwed ==
  viewing = None /\ ~misplaced /\ ~crossed =>
    /\ (\A c \in calls : ~Setting(c)) => HasGrade(season, grade)
    /\ \A c \in calls : Setting(c) /\ (\A d \in calls : Setting(d) => d = c) => LeavesGrade(c)

ReadsRows(c) == c.kind \in {"animes", "ensure"} \/ (c.kind = "resolve" /\ c.served /\ c.ok)
RowsOwed ==
  panel /\ viewing = None /\ ~misplaced /\ ~crossed /\ rows # None =>
    (\E c \in calls : ReadsRows(c)) \/ matched \subseteq rows.matched \cup Told(queue)

\* What is told by a sequence without its first event, or with one more.
LEMMA ToldTail ==
  ASSUME NEW q \in Seq(RunEvents), q # <<>>, TellsOnce(q)
  PROVE  /\ Tail(q) \in Seq(RunEvents) /\ Head(q) \in RunEvents /\ TellsOnce(Tail(q))
         /\ Head(q).kind = "progress" =>
              Head(q).row \in Told(q) /\ Told(Tail(q)) = Told(q) \ {Head(q).row}
         /\ Head(q).kind # "progress" => Told(Tail(q)) = Told(q)
<1>1. PICK t : t = Tail(q)
  OBVIOUS
<1>2. /\ Len(q) \in Nat /\ Len(q) >= 1 /\ t \in Seq(RunEvents) /\ Len(t) = Len(q) - 1 /\ Head(q) = q[1]
      /\ \A i \in 1..Len(t) : i + 1 \in 1..Len(q) /\ t[i] = q[i + 1]
  BY <1>1
<1>3. \A j \in 1..Len(q) : j = 1 \/ (j - 1 \in 1..Len(t) /\ t[j - 1] = q[j] /\ (j - 1) + 1 = j)
  BY <1>2
<1>4. \A i \in Progress(t) : i + 1 \in Progress(q) /\ i + 1 # 1 /\ t[i] = q[i + 1]
  BY <1>2 DEF Progress
<1>5. \A j \in Progress(q) : j = 1 \/ (j - 1 \in Progress(t) /\ t[j - 1] = q[j])
  BY <1>3 DEF Progress
<1>6. TellsOnce(t)
  <2> SUFFICES ASSUME NEW i \in Progress(t), NEW j \in Progress(t), t[i].row = t[j].row PROVE i = j
    BY DEF TellsOnce
  <2>1. i + 1 = j + 1
    BY <1>4 DEF TellsOnce
  <2>2. i \in Nat /\ j \in Nat
    BY <1>2 DEF Progress
  <2> QED
    BY <2>1, <2>2
<1>7. Head(q).kind = "progress" => 1 \in Progress(q)
  BY <1>2 DEF Progress
<1>8. Told(t) = {q[j].row : j \in Progress(q) \ {1}}
  <2>1. \A i \in Progress(t) : \E j \in Progress(q) \ {1} : t[i].row = q[j].row
    BY <1>4
  <2>2. \A j \in Progress(q) \ {1} : \E i \in Progress(t) : t[i].row = q[j].row
    BY <1>5
  <2> QED
    BY <2>1, <2>2 DEF Told
<1>9. PICK T, D, e : T = Told(t) /\ D = Told(q) /\ e = q[1]
  OBVIOUS
<1>10. e \in RunEvents /\ e = Head(q)
  BY <1>2, <1>9
<1>11. e.kind = "progress" => e.row \in D /\ T = D \ {e.row}
  <2> SUFFICES ASSUME e.kind = "progress" PROVE e.row \in D /\ T = D \ {e.row}
    OBVIOUS
  <2>1. 1 \in Progress(q)
    BY <1>7, <1>10
  <2>2. \A j \in Progress(q) \ {1} : q[j].row # e.row
    BY <2>1, <1>9 DEF TellsOnce
  <2>3. D = {q[j].row : j \in Progress(q)} /\ T = {q[j].row : j \in Progress(q) \ {1}}
    BY <1>8, <1>9 DEF Told
  <2> QED
    BY <2>1, <2>2, <2>3, <1>9
<1>12. e.kind # "progress" => T = D
  <2>1. e.kind # "progress" => Progress(q) \ {1} = Progress(q)
    BY <1>9 DEF Progress
  <2> QED
    BY <1>8, <1>9, <2>1 DEF Told
<1> QED
  BY <1>1, <1>2, <1>6, <1>9, <1>10, <1>11, <1>12, Zenon

LEMMA ToldAppend ==
  ASSUME NEW q \in Seq(RunEvents), TellsOnce(q), NEW e \in RunEvents, e.kind = "progress"
         => e.row \notin Told(q)
  PROVE  /\ Append(q, e) \in Seq(RunEvents) /\ TellsOnce(Append(q, e))
         /\ Told(Append(q, e)) = Told(q) \cup (IF e.kind = "progress" THEN {e.row} ELSE {})
<1>1. PICK t, n : t = Append(q, e) /\ n = Len(q)
  OBVIOUS
<1>2. /\ n \in Nat /\ t \in Seq(RunEvents) /\ Len(t) = n + 1 /\ t[n + 1] = e
      /\ \A i \in 1..n : t[i] = q[i]
  BY <1>1
<1>3. Progress(t) = Progress(q) \cup (IF e.kind = "progress" THEN {n + 1} ELSE {})
          /\ n + 1 \notin Progress(q)
  <2>1. \A i \in 1..(n + 1) : i \in 1..n \/ i = n + 1
    BY <1>2
  <2>2. \A i \in 1..n : i \in 1..(n + 1) /\ i # n + 1
    BY <1>2
  <2>3. n + 1 \in 1..(n + 1) /\ n + 1 \notin 1..n
    BY <1>2
  <2> QED
    BY <2>1, <2>2, <2>3, <1>1, <1>2 DEF Progress
<1>4. \A i \in Progress(q) : t[i] = q[i]
  BY <1>1, <1>2 DEF Progress
<1>5. Told(t) = Told(q) \cup (IF e.kind = "progress" THEN {e.row} ELSE {})
  BY <1>2, <1>3, <1>4 DEF Told
<1>6. TellsOnce(t)
  BY <1>2, <1>3, <1>4 DEF Told, TellsOnce
<1> QED
  BY <1>1, <1>2, <1>5, <1>6

LEMMA EventsAppended ==
  ASSUME NEW E, NEW q \in Seq(E), NEW a \in E, NEW b \in E
  PROVE  q \o <<a>> = Append(q, a) /\ q \o <<a, b>> = Append(Append(q, a), b)
<1>1. q \o <<a>> = Append(q, a)
  OBVIOUS
<1>2. PICK t, n : t = <<a, b>> /\ n = Len(q)
  OBVIOUS
<1>3. t \in Seq(E) /\ Len(t) = 2 /\ t[1] = a /\ t[2] = b /\ n \in Nat
  BY <1>2
<1>4. PICK u, v : u = q \o t /\ v = Append(Append(q, a), b)
  OBVIOUS
<1>5. /\ u \in Seq(E) /\ Len(u) = n + 2
      /\ \A i \in 1..(n + 2) : u[i] = IF i <= n THEN q[i] ELSE t[i - n]
  BY <1>2, <1>3, <1>4
<1>6. /\ v \in Seq(E) /\ Len(v) = n + 2 /\ v[n + 1] = a /\ v[n + 2] = b
      /\ \A i \in 1..n : v[i] = q[i]
  BY <1>2, <1>4
<1>7. ASSUME NEW i \in 1..(n + 2) PROVE u[i] = v[i]
  <2>1. CASE i \in 1..n
    BY <2>1, <1>3, <1>5, <1>6
  <2>2. CASE i = n + 1
    BY <2>2, <1>3, <1>5, <1>6
  <2>3. CASE i = n + 2
    BY <2>3, <1>3, <1>5, <1>6
  <2> QED
    BY <1>3, <2>1, <2>2, <2>3
<1>8. u = v
  BY <1>3, <1>5, <1>6, <1>7
<1> QED
  BY <1>1, <1>2, <1>4, <1>8

LEMMA SeasonSizes ==
  ASSUME SeasonAssumptions, NEW S \in SUBSET Rows, NEW T \in SUBSET S
  PROVE  IsFiniteSet(S) /\ IsFiniteSet(T) /\ Cardinality(S) \in Nat /\ Cardinality(T) \in Nat
         /\ Cardinality(T) <= Cardinality(S)
<1>1. IsFiniteSet(Rows)
  BY DEF SeasonAssumptions
<1>2. IsFiniteSet(S)
  BY <1>1, FS_Subset
<1> QED
  BY <1>2, FS_Subset, FS_CardinalityType

LEMMA RunSame ==
  ASSUME SeasonAssumptions, RunTypes, SeasonTypes, matched \subseteq matched',
         matched' \in SUBSET Rows, UNCHANGED queue,
         run' \in {run, None}, matching' = matching \/ matching' # "idle"
  PROVE  RunTypes'
<1>1. PICK T, M, N : T = Told(queue) /\ M = matched /\ N = matched'
  OBVIOUS
<1>2. T \subseteq M /\ M \subseteq N /\ N \in SUBSET Rows
  BY <1>1 DEF RunTypes
<1>3. Cardinality(T) \in Nat /\ Cardinality(M) \in Nat /\ Cardinality(N) \in Nat
          /\ Cardinality(M) <= Cardinality(N)
  BY <1>2, SeasonSizes
<1>4. Told(queue)' = T /\ TellsOnce(queue)'
  BY <1>1 DEF RunTypes, Told, TellsOnce, Progress
<1>5. run' = None \/ (run' \in Nat /\ run' + Cardinality(T) <= Cardinality(N))
  BY <1>1, <1>3 DEF RunTypes
<1> QED
  BY <1>1, <1>2, <1>4, <1>5 DEF RunTypes

\* A call joins those in S.
Joins(n, S, kind, arg, before) ==
  /\ calls' = S \cup {n} /\ n \notin calls
  /\ n.kind = kind /\ n.arg = arg /\ n.before = before /\ n.served = FALSE

LEMMA SeasonNewCall ==
  ASSUME SeasonCallTypes, UNCHANGED matched, NEW S \in SUBSET calls, NEW kind, NEW arg, NEW before,
         Season!Ask(S, Season!Call(kind, arg, before)),
             kind \in {"season", "past", "grade", "animes", "ensure", "resolve"},
         kind = "past" => arg \in Pasts,
         kind = "grade" => arg \in Grades /\ (before = None \/ before \in SeasonRecords),
             kind = "resolve" => arg \in Rows
  PROVE  /\ SeasonCallTypes'
         /\ \E n : Joins(n, S, kind, arg, before)
<1>1. PICK n : n = [ticket |-> made + 1, kind |-> kind, arg |-> arg, before |-> before,
          served |-> FALSE, ok |-> TRUE, answer |-> None]
  OBVIOUS
<1>2. calls' = S \cup {n} /\ made' = made + 1
  BY <1>1 DEF Season!Ask, Season!Call
<1>3. n.ticket = made + 1 /\ n.kind = kind /\ n.arg = arg /\ n.before = before /\ n.served = FALSE
          /\ n.ok = TRUE
  BY <1>1
<1>4. made \in Nat /\ \A c \in calls : c.ticket \in Nat /\ c.ticket <= made
  BY DEF SeasonCallTypes
<1>5. n \notin calls
  BY <1>3, <1>4
<1>6. \A c, d \in calls' : c.ticket = d.ticket => c = d
  BY <1>2, <1>3, <1>4 DEF SeasonCallTypes
<1>7. made' \in Nat /\ \A c \in calls' : c.ticket \in Nat /\ c.ticket <= made'
  BY <1>2, <1>3, <1>4
<1>8. SeasonCallTypes'
  BY <1>2, <1>3, <1>6, <1>7 DEF SeasonCallTypes, SeasonRecords, RowRecords
<1> QED
  BY <1>2, <1>3, <1>5, <1>8 DEF Joins

LEMMA SeasonFewerCalls ==
  ASSUME SeasonCallTypes, calls' \in SUBSET calls, UNCHANGED made, matched \subseteq matched'
  PROVE  SeasonCallTypes'
BY DEF SeasonCallTypes, SeasonRecords, RowRecords

\* The rows are read again, unless a closed season is viewed.
LEMMA RowsRead ==
  ASSUME SeasonCallTypes, UNCHANGED matched, NEW S \in SUBSET calls, Season!RefreshAnimes(S)
  PROVE  /\ SeasonCallTypes'
         /\ S \subseteq calls' /\ \A c \in calls' : c \in S \/ ~Setting(c)
         /\ viewing = None => \E c \in calls' : ReadsRows(c)
<1>1. CASE viewing = None
  <2>1. Season!Ask(S, Season!Call("animes", None, None))
    BY <1>1 DEF Season!RefreshAnimes
  <2>2. SeasonCallTypes'
    BY <2>1, SeasonNewCall
  <2>3. PICK n : Joins(n, S, "animes", None, None)
    BY <2>1, SeasonNewCall
  <2> QED
    BY <2>2, <2>3 DEF ReadsRows, Setting, Joins
<1>2. CASE viewing # None
  BY <1>2, SeasonFewerCalls DEF Season!RefreshAnimes
<1> QED
  BY <1>1, <1>2

LEMMA GradeSame ==
  ASSUME GradeOwed, UNCHANGED <<grade, season, viewing>>, misplaced => misplaced', crossed => crossed',
         \A c \in calls : Setting(c) => c \in calls', \A c \in calls' : Setting(c) => c \in calls
  PROVE  GradeOwed'
BY DEF GradeOwed, HasGrade, LeavesGrade, Setting

LEMMA RowsSame ==
  ASSUME RowsOwed, UNCHANGED <<rows, viewing>>, panel' => panel, misplaced => misplaced', crossed
         => crossed',
         \A c \in calls : ReadsRows(c) => c \in calls' \/ \E d \in calls' : ReadsRows(d),
         matched' \subseteq matched \cup Told(queue'), Told(queue) \subseteq Told(queue')
  PROVE  RowsOwed'
<1>1. PICK T : T = Told(queue')
  OBVIOUS
<1> QED
  BY <1>1 DEF RowsOwed, ReadsRows, Told, Progress

LEMMA PlainSame ==
  ASSUME SeasonTypes, UNCHANGED <<grade, matched, matching, season, rows>>, ensured' \in BOOLEAN,
         busy' \in BOOLEAN,
         panel' \in BOOLEAN, misplaced' \in BOOLEAN, crossed' \in BOOLEAN
  PROVE  SeasonTypes'
BY DEF SeasonTypes, SeasonRecords, RowRecords

SeasonSettlesInv == SeasonTypes /\ SeasonCallTypes /\ RunTypes /\ GradeOwed /\ RowsOwed

LEMMA SeasonSettlesInit ==
  ASSUME SeasonAssumptions, Season!Init
  PROVE  SeasonSettlesInv
<1>1. grade \in Grades
  BY DEF Season!Init, Season!OldGrade, SeasonAssumptions
<1>2. /\ matched = {} /\ matching = "idle" /\ queue = <<>> /\ calls = {} /\ made = 0 /\ viewing = None
      /\ season = [of |-> "live", grade |-> grade] /\ ensured \in BOOLEAN /\ busy = FALSE
            /\ run = None /\ panel = TRUE
      /\ misplaced = FALSE /\ crossed = FALSE /\ rows \in {None, [of |-> "live", matched |-> {}]}
  BY DEF Season!Init, Season!SeasonOf, Season!RowsOf
<1>3. rows = None \/ (rows \in RowRecords /\ rows.matched = {})
  BY <1>2 DEF RowRecords
<1>4. SeasonTypes
  BY <1>1, <1>2, <1>3 DEF SeasonTypes, SeasonRecords
<1>5. Told(queue) = {} /\ TellsOnce(queue) /\ queue \in Seq(RunEvents)
  BY <1>2 DEF Told, TellsOnce, Progress
<1>6. SeasonCallTypes /\ RunTypes
  BY <1>2, <1>5 DEF SeasonCallTypes, RunTypes
<1>7. GradeOwed
  BY <1>2 DEF GradeOwed, HasGrade
<1>8. RowsOwed
  BY <1>2 DEF RowsOwed
<1> QED
  BY <1>4, <1>6, <1>7, <1>8 DEF SeasonSettlesInv

\* The calls that change nothing of the backend or the screen.
LEMMA CallsSettle ==
  ASSUME SeasonAssumptions, SeasonSettlesInv, Season!Refresh \/ Season!EnsureAnimes
         \/ (\E p \in Pasts : Season!ViewPast(p)) \/ \E r \in Rows : Season!ResolveMatch(r)
  PROVE  SeasonSettlesInv'
<1> USE DEF SeasonSettlesInv
<1>1. PICK kind, arg :
        /\ kind \in {"season", "ensure", "past", "resolve"}
        /\ Season!Ask(calls, Season!Call(kind, arg, None))
        /\ kind = "past" => arg \in Pasts
        /\ kind = "resolve" => arg \in Rows
        /\ kind = "season" => viewing = None
  BY DEF Season!Refresh, Season!EnsureAnimes, Season!ViewPast, Season!ResolveMatch, Season!UserAsks
<1>2. UNCHANGED <<grade, matched, matching, queue, season, rows, viewing, busy, run, panel,
          misplaced, crossed>> /\ ensured' \in BOOLEAN
  BY DEF Season!Refresh, Season!EnsureAnimes, Season!ViewPast, Season!ResolveMatch, Season!backend,
    Season!shown, SeasonTypes
<1>3. PICK n : calls' = calls \cup {n} /\ n.kind = kind /\ n.served = FALSE
  <2>1. PICK n : Joins(n, calls, kind, arg, None)
    BY <1>1, <1>2, SeasonNewCall
  <2> QED
    BY <2>1 DEF Joins
<1>4. SeasonCallTypes'
  BY <1>1, <1>2, SeasonNewCall
<1>5. SeasonTypes'
  BY <1>2, PlainSame DEF SeasonTypes
<1>6. RunTypes'
  BY <1>2, RunSame DEF SeasonTypes
<1>7. RowsOwed'
  BY <1>2, <1>3, RowsSame
<1>8. GradeOwed'
  <2>1. CASE kind = "season"
    <3> SUFFICES ASSUME viewing' = None, ~misplaced', ~crossed',
                        NEW c \in calls', Setting(c), \A d \in calls' : Setting(d) => d = c
                 PROVE  LeavesGrade(c)'
      BY <1>3, <2>1 DEF GradeOwed, Setting
    <3>1. c = n /\ \A d \in calls : Setting(d) => d = n
      BY <1>3, <2>1 DEF Setting
    <3>2. HasGrade(season, grade)
      BY <3>1, <1>2, <1>3, <2>1 DEF GradeOwed, LeavesGrade
    <3> QED
      BY <3>1, <3>2, <1>2, <1>3, <2>1 DEF LeavesGrade, HasGrade
  <2>2. CASE kind # "season"
    <3>1. kind # "grade"
      BY <1>1
    <3> QED
      BY <1>2, <1>3, <2>2, <3>1, GradeSame DEF Setting
  <2> QED
    BY <2>1, <2>2
<1> QED
  BY <1>4, <1>5, <1>6, <1>7, <1>8

\* A matching run is started, goes on and ends; the panel is closed and opened.
LEMMA RunSettles ==
  ASSUME SeasonAssumptions, SeasonSettlesInv,
         \/ Season!RunMatching \/ Season!ClosePanel \/ Season!OpenPanel
         \/ (\E r \in Rows : Season!MatchRow(r)) \/ \E ok \in BOOLEAN : Season!MatchingOver(ok)
  PROVE  SeasonSettlesInv'
<1> USE DEF SeasonSettlesInv
<1>1. CASE Season!RunMatching
  <2>1. /\ queue = <<>> /\ queue' = <<[kind |-> "started", row |-> None]>> /\ matching' = "running"
              /\ busy' = TRUE
        /\ made' = made + 1 /\ UNCHANGED <<grade, matched, calls, season, rows, ensured, viewing,
              run, panel, misplaced, crossed>>
    BY <1>1 DEF Season!RunMatching, Season!shown, RunTypes
  <2>2. SeasonTypes'
    BY <2>1 DEF SeasonTypes, SeasonRecords, RowRecords
  <2>3. SeasonCallTypes'
    BY <2>1 DEF SeasonCallTypes, SeasonRecords, RowRecords
  <2>4. Told(queue) = {} /\ Told(queue') = {} /\ TellsOnce(queue') /\ queue' \in Seq(RunEvents)
    BY <2>1 DEF Told, TellsOnce, Progress, RunEvents
  <2>5. RunTypes'
    BY <2>1, <2>4 DEF RunTypes, Told, TellsOnce, Progress
  <2>6. GradeOwed'
    BY <2>1, GradeSame
  <2>7. RowsOwed'
    BY <2>1, <2>4, RowsSame
  <2> QED
    BY <2>2, <2>3, <2>5, <2>6, <2>7
<1>2. CASE Season!ClosePanel
  <2>1. /\ panel' = FALSE /\ run' = None
        /\ UNCHANGED <<grade, matched, matching, queue, calls, made, season, rows, ensured, viewing,
              busy, misplaced, crossed>>
    BY <1>2 DEF Season!ClosePanel, Season!shown, Season!backend
  <2>2. SeasonTypes'
    BY <2>1, PlainSame DEF SeasonTypes
  <2>3. SeasonCallTypes'
    BY <2>1, SeasonFewerCalls
  <2>4. RunTypes'
    BY <2>1, RunSame DEF SeasonTypes
  <2>5. GradeOwed'
    BY <2>1, GradeSame
  <2>6. RowsOwed'
    BY <2>1 DEF RowsOwed
  <2> QED
    BY <2>2, <2>3, <2>4, <2>5, <2>6
<1>3. CASE Season!OpenPanel
  <2>1. /\ panel' = TRUE /\ Season!RefreshAnimes(calls)
        /\ UNCHANGED <<grade, matched, matching, queue, season, rows, ensured, viewing, busy, run,
              misplaced, crossed>>
    BY <1>3 DEF Season!OpenPanel, Season!shown, Season!backend
  <2>2. SeasonTypes'
    BY <2>1, PlainSame DEF SeasonTypes
  <2>3. /\ SeasonCallTypes' /\ calls \subseteq calls' /\ \A c \in calls' : c \in calls \/ ~Setting(c)
        /\ viewing = None => \E c \in calls' : ReadsRows(c)
    <3>1. PICK S \in SUBSET calls : S = calls
      OBVIOUS
    <3> QED
      BY <2>1, <3>1, RowsRead
  <2>4. RunTypes'
    BY <2>1, RunSame DEF SeasonTypes
  <2>5. GradeOwed'
    BY <2>1, <2>3, GradeSame
  <2>6. RowsOwed'
    BY <2>1, <2>3 DEF RowsOwed, ReadsRows
  <2> QED
    BY <2>2, <2>3, <2>4, <2>5, <2>6
<1>4. ASSUME NEW r \in Rows, Season!MatchRow(r) PROVE SeasonSettlesInv'
  <2>1. PICK e : e = [kind |-> "progress", row |-> r]
    OBVIOUS
  <2>2. /\ matching = "running" /\ r \notin matched /\ matched' = matched \cup {r}
              /\ queue' = Append(queue, e)
        /\ UNCHANGED <<grade, matching, calls, made, season, rows, ensured, viewing, busy, run,
              panel, misplaced, crossed>>
    BY <1>4, <2>1 DEF Season!MatchRow, Season!shown
  <2>3. e \in RunEvents /\ e.kind = "progress" /\ e.row = r
    BY <2>1 DEF RunEvents
  <2>4. r \notin Told(queue)
    BY <2>2 DEF RunTypes
  <2>5. queue' \in Seq(RunEvents) /\ TellsOnce(queue') /\ Told(queue') = Told(queue) \cup {r}
    <3>1. queue \in Seq(RunEvents) /\ TellsOnce(queue)
      BY DEF RunTypes
    <3> QED
      BY <2>2, <2>3, <2>4, <3>1, ToldAppend
  <2>6. SeasonTypes'
    BY <2>2 DEF SeasonTypes, SeasonRecords, RowRecords
  <2>7. SeasonCallTypes'
    BY <2>2, SeasonFewerCalls
  <2>8. RunTypes'
    <3>1. PICK T, U, M, N : T = Told(queue) /\ U = T \cup {r} /\ M = matched /\ N = M \cup {r}
      OBVIOUS
    <3>2. M \in SUBSET Rows /\ T \in SUBSET M /\ r \notin M /\ r \notin T
      BY <3>1, <2>2, <2>4 DEF SeasonTypes, RunTypes
    <3>3. IsFiniteSet(M) /\ IsFiniteSet(T) /\ Cardinality(M) \in Nat /\ Cardinality(T) \in Nat
      BY <3>2, SeasonSizes
    <3>4. Cardinality(N) = Cardinality(M) + 1 /\ Cardinality(U) = Cardinality(T) + 1
      BY <3>1, <3>2, <3>3, FS_AddElement
    <3>5. Told(queue') = U /\ matched' = N
      BY <2>2, <2>5, <3>1
    <3>6. run' = None \/ (run' \in Nat /\ run' + Cardinality(U) <= Cardinality(N))
      BY <2>2, <3>1, <3>3, <3>4 DEF RunTypes
    <3>7. Told(queue)' = U /\ TellsOnce(queue)' /\ U \subseteq N
      BY <2>5, <3>1, <3>2, <3>5 DEF Told, TellsOnce, Progress
    <3> QED
      BY <2>2, <2>5, <3>5, <3>6, <3>7 DEF RunTypes
  <2>9. GradeOwed'
    BY <2>2, GradeSame
  <2>10. RowsOwed'
    BY <2>2, <2>5, RowsSame
  <2> QED
    BY <2>6, <2>7, <2>8, <2>9, <2>10
<1>5. ASSUME NEW ok \in BOOLEAN, Season!MatchingOver(ok) PROVE SeasonSettlesInv'
  <2>1. PICK a, b, z : /\ a = [kind |-> "finished", row |-> None] /\ b = [kind |-> "ok", row |-> None]
                       /\ z = [kind |-> "aborted", row |-> None]
    OBVIOUS
  <2>2. /\ matching' = "over" /\ queue' = queue \o (IF ok THEN <<a, b>> ELSE <<z>>)
        /\ UNCHANGED <<grade, matched, calls, made, season, rows, ensured, viewing, busy, run,
              panel, misplaced, crossed>>
    BY <1>5, <2>1 DEF Season!MatchingOver, Season!shown
  <2>3. /\ a \in RunEvents /\ b \in RunEvents /\ z \in RunEvents
        /\ a.kind # "progress" /\ b.kind # "progress" /\ z.kind # "progress"
    BY <2>1 DEF RunEvents
  <2>4. queue \in Seq(RunEvents) /\ TellsOnce(queue)
    BY DEF RunTypes
  <2>5. queue' = IF ok THEN Append(Append(queue, a), b) ELSE Append(queue, z)
    BY <2>2, <2>3, <2>4, EventsAppended
  <2>6. queue' \in Seq(RunEvents) /\ TellsOnce(queue') /\ Told(queue') = Told(queue)
    <3>1. CASE ~ok
      BY <3>1, <2>3, <2>4, <2>5, ToldAppend
    <3>2. CASE ok
      <4>1. PICK q : q = Append(queue, a)
        OBVIOUS
      <4>2. q \in Seq(RunEvents) /\ TellsOnce(q) /\ Told(q) = Told(queue)
        BY <4>1, <2>3, <2>4, ToldAppend
      <4>3. queue' = Append(q, b)
        BY <4>1, <3>2, <2>5
      <4> QED
        BY <4>2, <4>3, <2>3, ToldAppend
    <3> QED
      BY <3>1, <3>2
  <2>7. SeasonTypes'
    BY <2>2 DEF SeasonTypes, SeasonRecords, RowRecords
  <2>8. SeasonCallTypes'
    BY <2>2, SeasonFewerCalls
  <2>9. RunTypes'
    <3>1. Told(queue)' = Told(queue) /\ TellsOnce(queue)'
      BY <2>6 DEF Told, TellsOnce, Progress
    <3> QED
      BY <2>2, <2>6, <3>1 DEF RunTypes
  <2>10. GradeOwed'
    BY <2>2, GradeSame
  <2>11. RowsOwed'
    BY <2>2, <2>6, RowsSame
  <2> QED
    BY <2>7, <2>8, <2>9, <2>10, <2>11
<1> QED
  BY <1>1, <1>2, <1>3, <1>4, <1>5

\* An event of the run is heard.  A row it tells of is put on the list, unless it
\* is not of the open season, or the list is read again.
LEMMA HeardSettles ==
  ASSUME SeasonAssumptions, SeasonSettlesInv, SeasonViewed, Season!Hear
  PROVE  SeasonSettlesInv'
<1> USE DEF SeasonSettlesInv
<1>1. PICK e, heard : e = Head(queue) /\ heard
          = ((panel /\ viewing = None) \/ e.kind \in {"ok", "aborted"})
  OBVIOUS
<1>2. /\ queue # <<>> /\ queue' = Tail(queue)
      /\ run' = IF ~heard \/ e.kind = "ok" THEN run
                ELSE CASE e.kind = "started" -> 0
                       [] e.kind = "progress" -> IF run = None THEN None ELSE run + 1
                       [] OTHER -> None
      /\ rows' = IF heard /\ e.kind = "progress" /\ rows # None /\ rows.of = "live"
                 THEN [rows EXCEPT !.matched = @ \cup {e.row}] ELSE rows
      /\ busy' = (busy /\ e.kind \notin {"ok", "aborted"})
      /\ Season!RefreshAnimes(calls) \/ UNCHANGED <<calls, made>>
      /\ UNCHANGED <<grade, matched, matching, season, ensured, viewing, panel, misplaced, crossed>>
  BY <1>1 DEF Season!Hear, Season!backend
<1>3. queue \in Seq(RunEvents) /\ TellsOnce(queue) /\ Told(queue) \subseteq matched
          /\ matched \in SUBSET Rows
  BY DEF RunTypes, SeasonTypes
<1>4. /\ queue' \in Seq(RunEvents) /\ e \in RunEvents /\ TellsOnce(queue')
      /\ e.kind = "progress" => e.row \in Told(queue) /\ Told(queue') = Told(queue) \ {e.row}
      /\ e.kind # "progress" => Told(queue') = Told(queue)
  BY <1>1, <1>2, <1>3, ToldTail
<1>5. SeasonTypes'
  <2>1. rows' = None \/ (rows' \in RowRecords /\ rows'.matched \subseteq matched)
    BY <1>2, <1>3, <1>4 DEF SeasonTypes, RowRecords
  <2> QED
    BY <1>2, <2>1 DEF SeasonTypes, SeasonRecords, RowRecords
<1>6. SeasonCallTypes' /\ calls \subseteq calls' /\ \A c \in calls' : c \in calls \/ ~Setting(c)
  <2>1. PICK S \in SUBSET calls : S = calls
    OBVIOUS
  <2>2. CASE Season!RefreshAnimes(calls)
    BY <1>2, <2>1, <2>2, RowsRead
  <2>3. CASE UNCHANGED <<calls, made>>
    BY <1>2, <2>3, SeasonFewerCalls
  <2> QED
    BY <1>2, <2>2, <2>3
<1>7. RunTypes'
  <2>1. PICK T, U, M : T = Told(queue) /\ U = Told(queue') /\ M = matched
    OBVIOUS
  <2>2. /\ T \in SUBSET M /\ U \in SUBSET T /\ U \in SUBSET M /\ M \in SUBSET Rows
        /\ e.kind = "progress" => e.row \in T /\ U = T \ {e.row}
    BY <2>1, <1>3, <1>4
  <2>3. /\ IsFiniteSet(T) /\ Cardinality(T) \in Nat /\ Cardinality(U) \in Nat /\ Cardinality(M) \in Nat
        /\ Cardinality(U) <= Cardinality(T) /\ Cardinality(U) <= Cardinality(M)
    <3>1. T \in SUBSET Rows
      BY <2>2
    <3> QED
      BY <2>2, <3>1, SeasonSizes
  <2>4. e.kind = "progress" => Cardinality(T) = Cardinality(U) + 1
    BY <2>2, <2>3, FS_RemoveElement
  <2>5. run = None \/ (run \in Nat /\ run + Cardinality(T) <= Cardinality(M))
    BY <2>1 DEF RunTypes
  <2>6. run' = None \/ (run' \in Nat /\ run' + Cardinality(U) <= Cardinality(M))
    BY <1>2, <2>3, <2>4, <2>5
  <2>7. Told(queue)' = U /\ TellsOnce(queue)' /\ matched' = M
    BY <1>2, <1>4, <2>1 DEF Told, TellsOnce, Progress
  <2>8. matching' # "idle"
    BY <1>2 DEF RunTypes
  <2> QED
    BY <1>4, <2>2, <2>6, <2>7, <2>8 DEF RunTypes
<1>8. GradeOwed'
  BY <1>2, <1>6, GradeSame
<1>9. RowsOwed'
  <2> SUFFICES ASSUME panel', viewing' = None, ~misplaced', ~crossed', rows' # None
               PROVE  (\E c \in calls' : ReadsRows(c)) \/ matched \subseteq rows'.matched
                      \cup Told(queue')
    BY <1>2 DEF RowsOwed, Told, Progress, ReadsRows
  <2>1. heard /\ rows # None
    BY <1>1, <1>2
  <2>2. rows = [of |-> "live", matched |-> rows.matched]
    BY <1>2, <2>1 DEF SeasonViewed, RowsAre
  <2>3. rows.of = "live"
    BY <2>2
  <2>4. (\E c \in calls : ReadsRows(c)) \/ matched \subseteq rows.matched \cup Told(queue)
    BY <1>2, <2>1 DEF RowsOwed
  <2>5. CASE e.kind = "progress"
    <3>1. rows'.matched = rows.matched \cup {e.row}
      BY <1>2, <2>1, <2>2, <2>3, <2>5
    <3> QED
      BY <1>4, <1>6, <2>4, <2>5, <3>1
  <2>6. CASE e.kind # "progress"
    BY <1>2, <1>4, <1>6, <2>4, <2>6
  <2> QED
    BY <2>5, <2>6
<1> QED
  BY <1>5, <1>6, <1>7, <1>8, <1>9

\* A call is carried out: the one that is, is the one it was in what is owed.
LEMMA ServeSettles ==
  ASSUME SeasonAssumptions, SeasonSettlesInv, NEW c \in calls, NEW ok \in BOOLEAN, Season!Serve(c, ok)
  PROVE  SeasonSettlesInv'
<1> USE DEF SeasonSettlesInv
<1>1. PICK answer : answer = CASE c.kind = "season" -> Season!SeasonOf("live", grade)
                              [] c.kind \in {"animes", "ensure"} -> Season!RowsOf("live", matched)
                              [] OTHER -> None
  OBVIOUS
<1>2. PICK d : d = [c EXCEPT !.served = TRUE, !.ok = ok, !.answer = answer]
  OBVIOUS
<1>3. /\ c.served = FALSE /\ c.kind # "past" /\ (ok \/ c.kind # "season")
      /\ grade' = IF ok /\ c.kind = "grade" THEN c.arg ELSE grade
      /\ matched' = IF ok /\ c.kind = "resolve" THEN matched \cup {c.arg} ELSE matched
      /\ calls' = (calls \ {c}) \cup {d}
      /\ UNCHANGED <<matching, queue, made, season, rows, ensured, viewing, busy, run, panel,
            misplaced, crossed>>
  BY <1>1, <1>2 DEF Season!Serve, Season!shown, SeasonCallTypes
<1>4. /\ d.kind = c.kind /\ d.arg = c.arg /\ d.before = c.before /\ d.ticket = c.ticket
      /\ (d.served = TRUE /\ d.ok = ok /\ d.answer = answer)
  <2>1. c.served = FALSE /\ c.kind \in {"season", "past", "grade", "animes", "ensure", "resolve"}
    BY <1>3 DEF SeasonCallTypes
  <2>2. d.kind = c.kind /\ d.arg = c.arg /\ d.before = c.before /\ d.ticket = c.ticket
    BY <1>2
  <2> QED
    BY <2>2, <1>2
<1>5. grade' \in Grades /\ matched' \in SUBSET Rows /\ matched \subseteq matched'
  BY <1>3 DEF SeasonTypes, SeasonCallTypes
<1>6. SeasonTypes'
  BY <1>3, <1>5 DEF SeasonTypes, SeasonRecords, RowRecords
<1>7. SeasonCallTypes'
  <2>1. c.kind = "season" => answer \in SeasonRecords
    BY <1>1 DEF Season!SeasonOf, SeasonRecords, SeasonTypes
  <2>2. c.kind \in {"animes", "ensure"} => answer \in RowRecords /\ answer.matched \subseteq matched'
    BY <1>1, <1>5 DEF Season!RowsOf, RowRecords, SeasonTypes
  <2>3. \A p, q \in calls' : p.ticket = q.ticket => p = q
    BY <1>3, <1>4 DEF SeasonCallTypes
  <2> QED
    BY <1>3, <1>4, <1>5, <2>1, <2>2, <2>3 DEF SeasonCallTypes, SeasonRecords, RowRecords
<1>8. RunTypes'
  BY <1>3, <1>5, RunSame
<1>9. d \notin calls
  BY <1>3, <1>4 DEF SeasonCallTypes
<1>10. GradeOwed'
  <2> SUFFICES ASSUME viewing = None, ~misplaced, ~crossed
               PROVE  /\ (\A p \in calls' : ~Setting(p)) => HasGrade(season, grade')
                      /\ \A p \in calls' : Setting(p) /\ (\A q \in calls' : Setting(q) => q = p)
                            => LeavesGrade(p)'
    BY <1>3 DEF GradeOwed, HasGrade, LeavesGrade, Setting
  <2>1. CASE ~Setting(c)
    <3>1. grade' = grade /\ ~Setting(d)
      BY <2>1, <1>3, <1>4 DEF Setting
    <3> QED
      BY <2>1, <3>1, <1>3 DEF GradeOwed, HasGrade, LeavesGrade
  <2>2. CASE Setting(c)
    <3>1. Setting(d) /\ d \in calls'
      BY <2>2, <1>3, <1>4 DEF Setting
    <3> SUFFICES ASSUME \A q \in calls' : Setting(q) => q = d PROVE LeavesGrade(d)'
      BY <3>1
    <3>2. \A q \in calls : Setting(q) => q = c
      BY <1>3, <1>9
    <3>3. LeavesGrade(c)
      BY <3>2, <2>2 DEF GradeOwed
    <3> QED
      BY <3>3, <1>3, <1>4 DEF LeavesGrade, HasGrade
  <2> QED
    BY <2>1, <2>2
<1>11. RowsOwed'
  <2> SUFFICES ASSUME panel, viewing = None, ~misplaced, ~crossed, rows # None
               PROVE  (\E p \in calls' : ReadsRows(p)) \/ matched' \subseteq rows.matched
                      \cup Told(queue)
    BY <1>3 DEF RowsOwed, ReadsRows, Told, Progress
  <2>1. (\E p \in calls : ReadsRows(p)) \/ matched \subseteq rows.matched \cup Told(queue)
    BY DEF RowsOwed
  <2>2. ReadsRows(c) => ReadsRows(d)
    BY <1>3, <1>4 DEF ReadsRows
  <2>3. matched' # matched => ReadsRows(d)
    BY <1>3, <1>4 DEF ReadsRows
  <2> QED
    BY <1>3, <2>1, <2>2, <2>3
<1> QED
  BY <1>6, <1>7, <1>8, <1>10, <1>11

\* A closed season is viewed, or left, or a setting is pressed.
LEMMA TurnsSettle ==
  ASSUME SeasonAssumptions, SeasonSettlesInv,
         Season!ExitPast \/ (\E g \in Grades : Season!SetGrade(g)) \/ \E c \in calls :
             Season!PastArrives(c)
  PROVE  SeasonSettlesInv'
<1> USE DEF SeasonSettlesInv
<1>1. CASE Season!ExitPast
  <2>1. /\ viewing' = None /\ season' = None /\ rows' = None /\ ensured' = FALSE
              /\ misplaced' \in BOOLEAN
        /\ Season!Ask(calls, Season!Call("season", None, None))
        /\ UNCHANGED <<grade, matched, matching, queue, busy, run, panel, crossed>>
    BY <1>1 DEF Season!ExitPast, Season!UserAsks, Season!backend
  <2>2. PICK n : Joins(n, calls, "season", None, None)
    BY <2>1, SeasonNewCall
  <2>3. SeasonCallTypes'
    BY <2>1, SeasonNewCall
  <2>4. SeasonTypes'
    BY <2>1 DEF SeasonTypes, SeasonRecords, RowRecords
  <2>5. RunTypes'
    BY <2>1, RunSame DEF SeasonTypes
  <2>6. GradeOwed'
    <3>1. n \in calls' /\ n.kind = "season"
      BY <2>2 DEF Joins
    <3> QED
      BY <2>1, <3>1 DEF GradeOwed, HasGrade, LeavesGrade, Setting
  <2>7. RowsOwed'
    BY <2>1 DEF RowsOwed
  <2> QED
    BY <2>3, <2>4, <2>5, <2>6, <2>7
<1>2. ASSUME NEW g \in Grades, Season!SetGrade(g) PROVE SeasonSettlesInv'
  <2>1. /\ viewing = None /\ season' = IF season = None THEN None ELSE [season EXCEPT !.grade = g]
        /\ Season!Ask(calls, Season!Call("grade", g, season))
        /\ UNCHANGED <<grade, matched, matching, queue, rows, ensured, viewing, busy, run, panel,
              misplaced, crossed>>
    BY <1>2 DEF Season!SetGrade, Season!UserAsks, Season!backend
  <2>2. season = None \/ season \in SeasonRecords
    BY DEF SeasonTypes
  <2>3. PICK n : Joins(n, calls, "grade", g, season)
    BY <2>1, <2>2, SeasonNewCall
  <2>4. SeasonCallTypes'
    BY <2>1, <2>2, SeasonNewCall
  <2>5. season' = None \/ (season' \in SeasonRecords /\ season'.grade = g)
    BY <2>1, <2>2 DEF SeasonRecords
  <2>6. SeasonTypes'
    BY <2>1, <2>5 DEF SeasonTypes, SeasonRecords, RowRecords
  <2>7. RunTypes'
    BY <2>1, RunSame DEF SeasonTypes
  <2>8. GradeOwed'
    <3> SUFFICES ASSUME ~misplaced, ~crossed, NEW c \in calls', Setting(c), \A d \in calls' :
            Setting(d) => d = c
                 PROVE  LeavesGrade(c)'
      BY <2>1, <2>3 DEF GradeOwed, Setting, Joins
    <3>1. c = n /\ (\A d \in calls : ~Setting(d)) /\ n.kind = "grade" /\ n.arg = g
              /\ n.before = season /\ n.served = FALSE
      BY <2>3 DEF Setting, Joins
    <3>2. HasGrade(season, grade)
      BY <3>1, <2>1 DEF GradeOwed
    <3> QED
      BY <3>1, <3>2, <2>1, <2>5 DEF LeavesGrade, HasGrade
  <2>9. RowsOwed'
    BY <2>1, <2>3, RowsSame DEF Joins
  <2> QED
    BY <2>4, <2>6, <2>7, <2>8, <2>9
<1>3. ASSUME NEW c \in calls, Season!PastArrives(c) PROVE SeasonSettlesInv'
  <2>1. /\ c.kind = "past" /\ calls' = calls \ {c} /\ season' = Season!SeasonOf(c.arg, Season!OldGrade)
        /\ rows' = Season!RowsOf(c.arg, {}) /\ viewing' = c.arg /\ ensured' = TRUE /\ run' = None
              /\ misplaced' = FALSE
        /\ UNCHANGED <<grade, matched, matching, queue, made, busy, panel, crossed>>
    BY <1>3 DEF Season!PastArrives, Season!backend
  <2>2. c.arg \in Pasts /\ viewing' # None
    BY <2>1 DEF SeasonCallTypes, SeasonAssumptions
  <2>3. Season!OldGrade \in Grades
    BY DEF Season!OldGrade, SeasonAssumptions
  <2>4. season' \in SeasonRecords /\ rows' \in RowRecords /\ rows'.matched = {}
    BY <2>1, <2>2, <2>3 DEF SeasonRecords, RowRecords, Season!SeasonOf, Season!RowsOf
  <2>5. SeasonTypes'
    BY <2>1, <2>4 DEF SeasonTypes, SeasonRecords, RowRecords
  <2>6. SeasonCallTypes'
    BY <2>1, SeasonFewerCalls
  <2>7. RunTypes'
    BY <2>1, RunSame DEF SeasonTypes
  <2>8. GradeOwed' /\ RowsOwed'
    BY <2>2 DEF GradeOwed, RowsOwed
  <2> QED
    BY <2>5, <2>6, <2>7, <2>8
<1> QED
  BY <1>1, <1>2, <1>3

\* An answer comes.
LEMMA AnswersSettle ==
  ASSUME SeasonAssumptions, SeasonSettlesInv, NEW c \in calls,
         Season!SeasonArrives(c) \/ Season!GradeSet(c) \/ Season!AnimesArrive(c) \/ Season!Resolved(c)
  PROVE  SeasonSettlesInv'
<1> USE DEF SeasonSettlesInv
<1>1. CASE Season!SeasonArrives(c) \/ Season!GradeSet(c)
  <2>1. /\ calls' = calls \ {c} /\ c.served /\ Setting(c)
        /\ crossed' = (crossed \/ (c.kind = "season" /\ c.answer.grade # grade) \/ Season!Overlaps(c))
        /\ season' = IF c.kind = "season" THEN c.answer ELSE IF c.ok THEN season ELSE c.before
        /\ misplaced' \in BOOLEAN /\ (misplaced => misplaced')
        /\ UNCHANGED <<grade, matched, matching, queue, made, rows, ensured, viewing, busy, run, panel>>
    BY <1>1 DEF Season!SeasonArrives, Season!GradeSet, Season!backend, Setting, SeasonTypes
  <2>2. season' = None \/ season' \in SeasonRecords
    BY <2>1 DEF SeasonTypes, SeasonCallTypes, Setting
  <2>3. SeasonTypes'
    BY <2>1, <2>2 DEF SeasonTypes, SeasonRecords, RowRecords
  <2>4. SeasonCallTypes'
    BY <2>1, SeasonFewerCalls
  <2>5. RunTypes'
    BY <2>1, RunSame DEF SeasonTypes
  <2>6. GradeOwed'
    <3> SUFFICES ASSUME viewing = None, ~misplaced', ~crossed'
            PROVE (\A p \in calls' : ~Setting(p)) /\ HasGrade(season', grade)
      BY <2>1 DEF GradeOwed, HasGrade
    <3>1. ~misplaced /\ ~crossed /\ (c.kind = "season" => c.answer.grade = grade) /\ ~Season!Overlaps(c)
      BY <2>1
    <3>2. \A p \in calls' : ~Setting(p)
      BY <3>1, <2>1 DEF Season!Overlaps, Setting
    <3>3. LeavesGrade(c)
      BY <3>1, <3>2, <2>1 DEF GradeOwed
    <3> QED
      BY <3>1, <3>2, <3>3, <2>1 DEF LeavesGrade, HasGrade, Setting
  <2>7. RowsOwed'
    <3>1. ~ReadsRows(c) /\ (crossed => crossed')
      BY <2>1 DEF ReadsRows, Setting
    <3> QED
      BY <2>1, <3>1, RowsSame
  <2> QED
    BY <2>3, <2>4, <2>5, <2>6, <2>7
<1>2. CASE Season!AnimesArrive(c)
  <2>1. /\ calls' = calls \ {c} /\ c.served /\ c.kind \in {"animes", "ensure"}
        /\ rows' = (IF c.ok THEN c.answer ELSE rows) /\ ensured' \in BOOLEAN
        /\ crossed' = (crossed \/ ~c.ok \/ c.answer.matched # matched)
        /\ misplaced' \in BOOLEAN /\ (misplaced => misplaced')
        /\ UNCHANGED <<grade, matched, matching, queue, made, season, viewing, busy, run, panel>>
    BY <1>2 DEF Season!AnimesArrive, Season!backend, SeasonTypes
  <2>2. rows' = None \/ (rows' \in RowRecords /\ rows'.matched \subseteq matched)
    BY <2>1 DEF SeasonTypes, SeasonCallTypes
  <2>3. SeasonTypes'
    BY <2>1, <2>2 DEF SeasonTypes, SeasonRecords, RowRecords
  <2>4. SeasonCallTypes'
    BY <2>1, SeasonFewerCalls
  <2>5. RunTypes'
    BY <2>1, RunSame DEF SeasonTypes
  <2>6. GradeOwed'
    BY <2>1, GradeSame DEF Setting
  <2>7. RowsOwed'
    BY <2>1 DEF RowsOwed
  <2> QED
    BY <2>3, <2>4, <2>5, <2>6, <2>7
<1>3. CASE Season!Resolved(c)
  <2>1. /\ c.kind = "resolve" /\ c.served
        /\ IF c.ok THEN Season!RefreshAnimes(calls \ {c}) ELSE calls' = calls \ {c} /\ UNCHANGED made
        /\ UNCHANGED <<grade, matched, matching, queue, season, rows, ensured, viewing, busy, run,
              panel, misplaced, crossed>>
    BY <1>3 DEF Season!Resolved, Season!backend, Season!shown
  <2>2. PICK S \in SUBSET calls : S = calls \ {c}
    OBVIOUS
  <2>3. SeasonCallTypes' /\ S \subseteq calls' /\ (\A p \in calls' : p \in S \/ ~Setting(p))
        /\ (c.ok /\ viewing = None => \E p \in calls' : ReadsRows(p))
    <3>1. CASE c.ok
      BY <2>1, <2>2, <3>1, RowsRead
    <3>2. CASE ~c.ok
      BY <2>1, <2>2, <3>2, SeasonFewerCalls
    <3> QED
      BY <3>1, <3>2
  <2>4. SeasonTypes'
    BY <2>1, PlainSame DEF SeasonTypes
  <2>5. RunTypes'
    BY <2>1, RunSame DEF SeasonTypes
  <2>6. GradeOwed'
    BY <2>1, <2>2, <2>3, GradeSame DEF Setting
  <2>7. RowsOwed'
    <3>1. CASE viewing = None /\ c.ok
      BY <2>1, <2>3, <3>1 DEF RowsOwed, ReadsRows
    <3>2. CASE viewing # None
      BY <2>1, <3>2 DEF RowsOwed
    <3>3. CASE ~c.ok
      <4>1. ~ReadsRows(c)
        BY <2>1, <3>3 DEF ReadsRows
      <4> QED
        BY <2>1, <2>2, <2>3, <4>1, RowsSame
    <3> QED
      BY <3>1, <3>2, <3>3
  <2> QED
    BY <2>3, <2>4, <2>5, <2>6, <2>7
<1> QED
  BY <1>1, <1>2, <1>3

SeasonInv == SeasonViewed /\ SeasonSettlesInv

LEMMA SeasonInit ==
  ASSUME SeasonAssumptions, Season!Init
  PROVE  SeasonInv
BY SeasonViewedInit, SeasonSettlesInit DEF SeasonInv

LEMMA SeasonStepKeepsInv ==
  ASSUME SeasonAssumptions, SeasonInv, [Season!Next]_(Season!vars)
  PROVE  SeasonInv'
<1>1. SeasonViewed'
  BY SeasonViewedStep DEF SeasonInv
<1>2. CASE Season!Next
  <2>1. SeasonSettlesInv'
    BY <1>2, CallsSettle, RunSettles, HeardSettles, ServeSettles, TurnsSettle, AnswersSettle
      DEF SeasonInv, Season!Next, Season!Answer
  <2> QED
    BY <1>1, <2>1 DEF SeasonInv
<1>3. CASE UNCHANGED Season!vars
  <2>1. UNCHANGED <<grade, matched, matching, queue, calls, made, season, rows, ensured, viewing,
            busy, run, panel, misplaced, crossed>>
    BY <1>3 DEF Season!vars, Season!backend, Season!shown
  <2>2. SeasonTypes' /\ SeasonCallTypes'
    BY <2>1, PlainSame, SeasonFewerCalls DEF SeasonInv, SeasonSettlesInv, SeasonTypes
  <2>3. RunTypes'
    BY <2>1, RunSame DEF SeasonInv, SeasonSettlesInv, SeasonTypes
  <2>4. GradeOwed' /\ RowsOwed'
    BY <2>1, GradeSame, RowsSame DEF SeasonInv, SeasonSettlesInv
  <2> QED
    BY <1>1, <2>2, <2>3, <2>4 DEF SeasonInv, SeasonSettlesInv
<1> QED
  BY <1>2, <1>3

LEMMA SeasonPromises ==
  ASSUME SeasonAssumptions, SeasonInv
  PROVE  Season!TypeOK /\ Season!ShowsWhatIsViewed /\ Season!SeasonSettles
<1> USE DEF SeasonInv
<1>1. Season!ShowsWhatIsViewed
  BY DEF SeasonViewed, SeasonIs, RowsAre, Season!ShowsWhatIsViewed
<1>2. Season!SeasonSettles
  <2> SUFFICES ASSUME calls = {}, queue = <<>>, panel, viewing = None, ~misplaced, ~crossed
               PROVE  HasGrade(season, grade) /\ (rows # None => rows.matched = matched)
    BY DEF Season!SeasonSettles, HasGrade
  <2>1. HasGrade(season, grade)
    BY DEF SeasonSettlesInv, GradeOwed
  <2>2. Told(queue) = {}
    BY DEF Told, Progress
  <2> QED
    BY <2>1, <2>2 DEF SeasonSettlesInv, RowsOwed, SeasonTypes
<1>3. Season!TypeOK
  <2>1. PICK T, M : T = Told(queue) /\ M = matched
    OBVIOUS
  <2>2. T \in SUBSET M /\ M \in SUBSET Rows /\ Rows \in SUBSET Rows
    BY <2>1 DEF SeasonSettlesInv, SeasonTypes, RunTypes
  <2>3. /\ Cardinality(T) \in Nat /\ Cardinality(M) \in Nat /\ Cardinality(Rows) \in Nat
        /\ Cardinality(M) <= Cardinality(Rows)
    BY <2>2, SeasonSizes
  <2>4. run = None \/ run \in 0..Cardinality(Rows)
    BY <2>1, <2>3 DEF SeasonSettlesInv, RunTypes
  <2>5. Season!Cardinality(Rows) = Cardinality(Rows)
    BY DEF Season!Cardinality, Cardinality
  <2>6. \A c \in calls : c.kind \in {"season", "past", "grade", "animes", "ensure", "resolve"}
    BY DEF SeasonSettlesInv, SeasonCallTypes
  <2> QED
    BY <2>4, <2>5, <2>6 DEF SeasonSettlesInv, SeasonViewed, SeasonTypes, SeasonRecords, RowRecords,
      Season!TypeOK
<1> QED
  BY <1>1, <1>2, <1>3

\* For any closed seasons, rows and settings: what is shown while none is viewed is of the
\* open season, whatever came late, and what is shown of a viewed one is its own unless an
\* answer about another came late (useSeasonStore, loadSeason, viewPastSeason).  With
\* everything answered and heard it has the setting and the rows of the backend, unless one
\* came late or two that wrote the setting crossed (setMinApprovalGrade, connectSeasonMatchingStore).
THEOREM SeasonIsSafe ==
  ASSUME SeasonAssumptions
  PROVE  Season!Spec => [](Season!TypeOK /\ Season!ShowsWhatIsViewed /\ Season!SeasonSettles)
<1>1. Season!Init => SeasonInv
  BY SeasonInit
<1>2. SeasonInv /\ [Season!Next]_(Season!vars) => SeasonInv'
  BY SeasonStepKeepsInv
<1> QED
  BY <1>1, <1>2, SeasonPromises, PTL DEF Season!Spec

-----------------------------------------------------------------------------
(* The Episodes card.  While the save whose answer would empty the draft is  *)
(* out, the draft is what it carries but for late readings; it is one save.  *)

CardAssumptions == Animes # {}

CardCall == [kind : {"load", "save", "analyze", "cancel"}, ticket : Nat, anime : Animes,
             edits : [Episodes -> Durations!Edits], latest : BOOLEAN, served : BOOLEAN,
             outcome : {"none", "ok", "error", "busy", "cancelled"}, rows :
                 [Episodes -> Durations!Durations]]

CardTypes ==
  /\ stored \in [Animes -> [Episodes -> Durations!Durations]] /\ anime \in Animes
  /\ edits \in [Episodes -> Durations!Edits]
  /\ load \in [ready : BOOLEAN, rows : [Episodes -> Durations!Durations]]
  /\ saving \in BOOLEAN /\ running \in BOOLEAN /\ cancelled \in BOOLEAN
  /\ review \in [open : BOOLEAN, changes : SUBSET Episodes]
  /\ calls \subseteq CardCall /\ made \in Nat

\* The call whose answer will empty the draft.
Empties(c) == c.kind = "save" /\ c.latest

CarriesTheDraft ==
  /\ \A c, d \in calls : Empties(c) /\ Empties(d) => c = d
  /\ \A c \in calls : Empties(c) =>
       /\ saving
       /\ \A e \in Episodes : edits[e] \notin {"none", c.edits[e]} => e \in late
  /\ lost = {}

\* Tickets m and below; n is the ticket of the analysis that runs, or 0.
Ticketed(S, m, n) ==
  /\ \A c \in S : c.ticket <= m
  /\ \A c, d \in S : c.kind = "analyze" /\ d.kind = "analyze" /\ c.ticket = d.ticket => c = d
  /\ \A c \in S : c.kind = "analyze" => c.ticket # 0 /\ (c.ticket = n => ~c.served)
  /\ n # 0 => \E c \in S : c.ticket = n /\ c.kind = "analyze"

OneAnalysis == analysis \in Nat /\ Ticketed(calls, made, analysis)

CardInv == CardTypes /\ CarriesTheDraft /\ OneAnalysis

LEMMA CardClean ==
  Durations!Clean \in [Episodes -> Durations!Edits]
      /\ Durations!Clean \in [Episodes -> Durations!Durations]
BY DEF Durations!Clean, Durations!Edits, Durations!Durations

LEMMA CardInit ==
  ASSUME CardAssumptions, Durations!Init PROVE CardInv
<1>1. /\ edits = Durations!Clean /\ saving = FALSE /\ running = FALSE /\ cancelled = FALSE
            /\ calls = {} /\ made = 0
      /\ analysis = 0 /\ lost = {} /\ anime = CHOOSE a \in Animes : TRUE
      /\ review = [open |-> FALSE, changes |-> {}] /\ load = [ready |-> TRUE, rows |-> stored[anime]]
  BY DEF Durations!Init, Durations!Closed
<1>2. stored \in [Animes -> [Episodes -> Durations!Durations]]
  BY DEF Durations!Init, Durations!Durations
<1>3. anime \in Animes
  BY <1>1 DEF CardAssumptions
<1>4. CardTypes
  BY <1>1, <1>2, <1>3, CardClean DEF CardTypes
<1> QED
  BY <1>1, <1>4 DEF CardInv, CarriesTheDraft, OneAnalysis, Ticketed

LEMMA TicketAdded ==
  ASSUME NEW S \in SUBSET CardCall, NEW m \in Nat, NEW n \in Nat, NEW k \in Nat, NEW x \in CardCall,
         Ticketed(S, m, n), m <= k, x.ticket = k, x.kind = "analyze" => m < k /\ ~x.served
  PROVE  Ticketed(S \cup {x}, k, n)
BY DEF Ticketed, CardCall

LEMMA TicketGone ==
  ASSUME NEW S \in SUBSET CardCall, NEW m \in Nat, NEW n \in Nat, NEW c \in S,
         Ticketed(S, m, n), c.kind # "analyze" \/ c.ticket # n
  PROVE  Ticketed(S \ {c}, m, n)
BY DEF Ticketed

LEMMA TicketServed ==
  ASSUME NEW S \in SUBSET CardCall, NEW m \in Nat, NEW n \in Nat, NEW c \in S, NEW d \in CardCall,
         Ticketed(S, m, n), d.kind = c.kind, d.ticket = c.ticket, c.kind = "analyze"
             /\ c.ticket = n => ~d.served
  PROVE  Ticketed((S \ {c}) \cup {d}, m, n)
BY DEF Ticketed, CardCall

\* A call made for the card as it is.
LEMMA CardNew ==
  ASSUME CardTypes, NEW k \in {"load", "save", "analyze", "cancel"}, NEW n \in Nat, NEW a \in Animes
  PROVE  LET c == Durations!Call(k, n, a)
         IN c \in CardCall /\ c.kind = k /\ c.ticket = n /\ c.edits = edits /\ ~c.served /\ c.latest
<1> DEFINE c == Durations!Call(k, n, a)
<1>1. c = [kind |-> k, ticket |-> n, anime |-> a, edits |-> edits, latest |-> TRUE,
          served |-> FALSE, outcome |-> "none",
           rows |-> Durations!Clean]
  BY DEF Durations!Call
<1> HIDE DEF c
<1>2. c \in CardCall /\ c.kind = k /\ c.ticket = n /\ c.edits = edits /\ ~c.served /\ c.latest
  BY <1>1, CardClean DEF CardCall, CardTypes
<1> QED
  BY <1>2 DEF c

\* What a newer call supersedes keeps its content.
LEMMA CardSuperseded ==
  ASSUME CardTypes, NEW kinds
  PROVE  LET S == Durations!Superseded(kinds)
         IN /\ S \subseteq CardCall
            /\ \A d \in S : Empties(d) => d \in calls /\ d.kind \notin kinds
            /\ \A m, n \in Nat : Ticketed(calls, m, n) => Ticketed(S, m, n)
<1> DEFINE f(c) == [c EXCEPT !.latest = @ /\ c.kind \notin kinds]
           S == Durations!Superseded(kinds)
<1>1. S = {f(c) : c \in calls}
  BY DEF Durations!Superseded
<1>2. \A c \in calls : /\ f(c) \in CardCall /\ f(c).kind = c.kind /\ f(c).ticket = c.ticket
                          /\ f(c).served = c.served
                       /\ f(c).latest = (c.latest /\ c.kind \notin kinds)
                       /\ f(c).latest => f(c) = c
  <2> SUFFICES ASSUME NEW c \in calls
               PROVE  /\ f(c) \in CardCall /\ f(c).kind = c.kind /\ f(c).ticket = c.ticket
                         /\ f(c).served = c.served
                      /\ f(c).latest = (c.latest /\ c.kind \notin kinds)
                      /\ f(c).latest => f(c) = c
    OBVIOUS
  <2>1. c \in CardCall /\ (c.latest /\ c.kind \notin kinds) \in BOOLEAN
    BY DEF CardTypes, CardCall
  <2> QED
    BY <2>1 DEF CardCall
<1> HIDE DEF f, S
<1>3. \A d \in S : Empties(d) => d \in calls /\ d.kind \notin kinds
  BY <1>1, <1>2 DEF Empties
<1>4. ASSUME NEW m \in Nat, NEW n \in Nat, Ticketed(calls, m, n) PROVE Ticketed(S, m, n)
  <2>1. n # 0 => \E c \in S : c.ticket = n /\ c.kind = "analyze"
    BY <1>1, <1>2, <1>4 DEF Ticketed
  <2>2. \A c, d \in S : c.kind = "analyze" /\ d.kind = "analyze" /\ c.ticket = d.ticket => c = d
    BY <1>1, <1>2, <1>4 DEF Ticketed
  <2> QED
    BY <1>1, <1>2, <1>4, <2>1, <2>2 DEF Ticketed
<1> QED
  BY <1>1, <1>2, <1>3, <1>4 DEF S

LEMMA CardMove ==
  ASSUME CardInv, NEW a \in Animes, Durations!Move(a) PROVE CardInv'
<1> DEFINE S == Durations!Superseded({"load", "save", "analyze"})
           l == Durations!Call("load", made + 1, a)
           x == Durations!Call("cancel", made + 1, anime)
<1>1. /\ made' = made + 1 /\ anime' = a /\ edits' = Durations!Clean /\ saving' = FALSE
            /\ running' = FALSE
      /\ review' = [open |-> FALSE, changes |-> {}]
            /\ load' = [ready |-> FALSE, rows |-> Durations!Clean]
      /\ UNCHANGED <<stored, analysis, cancelled, lost>>
      /\ calls' = (S \cup {l}) \cup (IF running THEN {x} ELSE {})
  BY DEF Durations!Move, Durations!backend, Durations!Closed, Durations!Loading, Durations!ReadAgain
<1>2. made \in Nat /\ made + 1 \in Nat /\ anime \in Animes /\ analysis \in Nat
  BY DEF CardInv, CardTypes, OneAnalysis
<1>3. /\ l \in CardCall /\ l.kind = "load" /\ l.ticket = made + 1
      /\ x \in CardCall /\ x.kind = "cancel" /\ x.ticket = made + 1
  BY <1>2, CardNew DEF CardInv
<1>4. S \subseteq CardCall /\ (\A d \in S : ~Empties(d)) /\ Ticketed(S, made, analysis)
  BY <1>2, CardSuperseded DEF CardInv, OneAnalysis, Empties
<1> HIDE DEF l, x, S
<1>5. CardTypes'
  BY <1>1, <1>2, <1>3, <1>4, CardClean DEF CardInv, CardTypes
<1>6. CarriesTheDraft'
  BY <1>1, <1>3, <1>4 DEF CardInv, CarriesTheDraft, Empties
<1>7. Ticketed(S \cup {l}, made + 1, analysis)
  BY <1>2, <1>3, <1>4, TicketAdded
<1>8. OneAnalysis'
  BY <1>1, <1>2, <1>3, <1>4, <1>7, TicketAdded DEF OneAnalysis
<1> QED
  BY <1>5, <1>6, <1>8 DEF CardInv

\* The form's edits, outside any call.
LEMMA CardForm ==
  ASSUME CardInv,
         \/ \E e \in Episodes, edit \in {"clear", "manual"} : Durations!Edit(e, edit)
         \/ Durations!Discard
         \/ Durations!CloseReview
  PROVE  CardInv'
<1>1. CASE \E e \in Episodes, edit \in {"clear", "manual"} : Durations!Edit(e, edit)
  <2> PICK e \in Episodes, edit \in {"clear", "manual"} : Durations!Edit(e, edit)
    BY <1>1
  <2>1. /\ ~saving
        /\ UNCHANGED <<stored, analysis, cancelled, anime, saving, load, running, review, calls,
              made, lost>>
    BY DEF Durations!Edit, Durations!backend
  <2>2. edits' \in [Episodes -> Durations!Edits]
    BY DEF Durations!Edit, CardInv, CardTypes, Durations!Edits
  <2>3. CardTypes' /\ OneAnalysis'
    BY <2>1, <2>2 DEF CardInv, CardTypes, OneAnalysis
  <2>4. CarriesTheDraft'
    BY <2>1 DEF CardInv, CarriesTheDraft
  <2> QED
    BY <2>3, <2>4 DEF CardInv
<1>2. CASE Durations!Discard
  BY <1>2, CardClean DEF Durations!Discard, Durations!backend, CardInv, CardTypes, CarriesTheDraft,
    OneAnalysis
<1>3. CASE Durations!CloseReview
  <2>1. review' \in [open : BOOLEAN, changes : SUBSET Episodes]
    BY <1>3 DEF Durations!CloseReview, Durations!Closed
  <2> QED
    BY <1>3, <2>1 DEF Durations!CloseReview, Durations!backend, Durations!history, CardInv,
      CardTypes, CarriesTheDraft, OneAnalysis
<1> QED
  BY <1>1, <1>2, <1>3

\* Readings confirmed while a save is out are late.
LEMMA CardConfirm ==
  ASSUME CardInv, Durations!ConfirmReview PROVE CardInv'
<1>1. /\ UNCHANGED <<stored, analysis, cancelled, anime, saving, load, running, calls, made, lost>>
      /\ edits' = [e \in Episodes |-> IF e \in review.changes /\ edits[e] # "manual" THEN "reading"
            ELSE edits[e]]
      /\ saving => late' = late \cup {e \in Episodes : edits'[e] # edits[e]}
      /\ review' = [open |-> FALSE, changes |-> {}]
  BY DEF Durations!ConfirmReview, Durations!backend, Durations!Closed
<1>2. CardTypes' /\ OneAnalysis'
  BY <1>1 DEF CardInv, CardTypes, OneAnalysis, Durations!Edits
<1>3. CarriesTheDraft'
  BY <1>1 DEF CardInv, CarriesTheDraft
<1> QED
  BY <1>2, <1>3 DEF CardInv

LEMMA CardCommand ==
  ASSUME CardInv, Durations!Save \/ Durations!Reanalyze \/ Durations!CancelAnalysis PROVE CardInv'
<1> DEFINE W == Durations!Superseded({"save"})
           A == Durations!Superseded({"analyze"})
           w == Durations!Call("save", made + 1, anime)
           a == Durations!Call("analyze", made + 1, anime)
           x == Durations!Call("cancel", made + 1, anime)
<1>1. made \in Nat /\ made + 1 \in Nat /\ made < made + 1 /\ anime \in Animes /\ analysis \in Nat
          /\ calls \subseteq CardCall
      /\ Ticketed(calls, made, analysis)
  BY DEF CardInv, CardTypes, OneAnalysis
<1>2. \A c \in {w, a, x} : c \in CardCall /\ c.ticket = made + 1 /\ c.edits = edits /\ ~c.served
  BY <1>1, CardNew DEF CardInv
<1>3. w.kind = "save" /\ a.kind = "analyze" /\ x.kind = "cancel"
  BY <1>1, CardNew DEF CardInv
<1>4. /\ W \subseteq CardCall /\ (\A d \in W : ~Empties(d)) /\ Ticketed(W, made, analysis)
      /\ A \subseteq CardCall /\ (\A d \in A : Empties(d) => d \in calls) /\ Ticketed(A, made, analysis)
  BY <1>1, CardSuperseded DEF CardInv, Empties
<1>5. /\ made' = made + 1 /\ UNCHANGED <<stored, analysis, cancelled, anime, edits, load, review, lost>>
      /\ saving' \in BOOLEAN /\ running' \in BOOLEAN
      /\ \/ ~saving /\ saving' /\ calls' = W \cup {w}
         \/ UNCHANGED <<saving, late>> /\ calls' = A \cup {a}
         \/ UNCHANGED <<saving, late>> /\ calls' = calls \cup {x}
  BY DEF Durations!Save, Durations!Reanalyze, Durations!CancelAnalysis, Durations!backend,
    Durations!history, Durations!card,
    CardInv, CardTypes
<1> HIDE DEF W, A, w, a, x
<1>6. CardTypes'
  BY <1>1, <1>2, <1>4, <1>5 DEF CardInv, CardTypes
<1>7. OneAnalysis'
  <2>1. /\ Ticketed(W \cup {w}, made + 1, analysis) /\ Ticketed(A \cup {a}, made + 1, analysis)
        /\ Ticketed(calls \cup {x}, made + 1, analysis)
    BY <1>1, <1>2, <1>3, <1>4, TicketAdded
  <2> QED
    BY <1>1, <1>5, <2>1 DEF OneAnalysis
<1>8. CarriesTheDraft'
  <2>1. CASE ~saving /\ saving' /\ calls' = W \cup {w}
    BY <1>2, <1>4, <1>5, <2>1 DEF CardInv, CarriesTheDraft
  <2>2. CASE UNCHANGED <<saving, late>> /\ calls' = A \cup {a}
    BY <1>3, <1>4, <1>5, <2>2 DEF CardInv, CarriesTheDraft, Empties
  <2>3. CASE UNCHANGED <<saving, late>> /\ calls' = calls \cup {x}
    BY <1>3, <1>5, <2>3 DEF CardInv, CarriesTheDraft, Empties
  <2> QED
    BY <1>5, <2>1, <2>2, <2>3
<1> QED
  BY <1>6, <1>7, <1>8 DEF CardInv

\* A call that is served keeps what it is and what it carries.
LEMMA CardServed ==
  ASSUME CardInv, NEW c \in calls, NEW d \in CardCall,
         d.kind = c.kind, d.ticket = c.ticket, d.edits = c.edits, d.latest = c.latest,
         calls' = (calls \ {c}) \cup {d},
         stored' \in [Animes -> [Episodes -> Durations!Durations]], cancelled' \in BOOLEAN,
         UNCHANGED <<anime, edits, saving, load, running, review, made, late, lost>>
  PROVE  CardTypes' /\ CarriesTheDraft'
<1>1. CardTypes'
  BY DEF CardInv, CardTypes
<1>2. Empties(d) <=> Empties(c)
  BY DEF Empties
<1>3. CarriesTheDraft'
  <2>1. \A x, y \in calls' : Empties(x) /\ Empties(y) => x = y
    BY <1>2 DEF CardInv, CarriesTheDraft
  <2>2. \A x \in calls' : Empties(x) => saving /\ \A e \in Episodes :
            edits[e] \notin {"none", x.edits[e]} => e \in late
    BY <1>2 DEF CardInv, CarriesTheDraft
  <2> QED
    BY <2>1, <2>2 DEF CardInv, CarriesTheDraft, Empties
<1> QED
  BY <1>1, <1>3

LEMMA CardBackend ==
  ASSUME CardInv, NEW c \in calls,
         \/ \E ok \in BOOLEAN : Durations!ServeLoad(c, ok) \/ Durations!ServeSave(c, ok)
         \/ Durations!StartAnalysis(c) \/ Durations!FinishAnalysis(c) \/ Durations!ServeCancel(c)
  PROVE  CardInv'
<1> USE DEF Durations!backend, Durations!card, Durations!history
<1>1. c \in CardCall /\ c.anime \in Animes /\ c.ticket \in Nat /\ analysis \in Nat /\ made \in Nat
          /\ calls \in SUBSET CardCall
      /\ c.rows \in [Episodes -> Durations!Durations]
            /\ stored[c.anime] \in [Episodes -> Durations!Durations]
      /\ stored \in [Animes -> [Episodes -> Durations!Durations]] /\ cancelled \in BOOLEAN
  BY DEF CardInv, CardTypes, CardCall, OneAnalysis
<1>2. ASSUME NEW outcome \in {"none", "ok", "error", "busy", "cancelled"},
             NEW found \in [Episodes -> Durations!Durations],
             Durations!Serve(c, outcome, found), UNCHANGED analysis, c.kind = "analyze"
                 => c.ticket # analysis,
             stored' \in [Animes -> [Episodes -> Durations!Durations]], cancelled' \in BOOLEAN
      PROVE  CardInv'
  <2> DEFINE d == [c EXCEPT !.served = TRUE, !.outcome = outcome, !.rows = found]
  <2>1. calls' = (calls \ {c}) \cup {d} /\ UNCHANGED <<anime, edits, saving, load, running, review,
            made, late, lost>>
    BY <1>2 DEF Durations!Serve
  <2>2. d \in CardCall /\ d.kind = c.kind /\ d.ticket = c.ticket /\ d.edits = c.edits
            /\ d.latest = c.latest
    BY <1>1 DEF CardCall
  <2> HIDE DEF d
  <2>3. CardTypes' /\ CarriesTheDraft'
    BY <1>2, <2>1, <2>2, CardServed
  <2>4. Ticketed((calls \ {c}) \cup {d}, made, analysis)
    BY <1>1, <1>2, <2>2, TicketServed DEF CardInv, OneAnalysis
  <2> QED
    BY <1>1, <1>2, <2>1, <2>3, <2>4 DEF CardInv, OneAnalysis
<1>3. ASSUME NEW ok \in BOOLEAN, Durations!ServeLoad(c, ok) PROVE CardInv'
  BY <1>1, <1>2, <1>3 DEF Durations!ServeLoad
<1>4. ASSUME NEW ok \in BOOLEAN, Durations!ServeSave(c, ok) PROVE CardInv'
  <2>1. \A line \in Durations!Durations, edit \in Durations!Edits :
            Durations!Saved(line, edit) \in Durations!Durations
    BY DEF Durations!Saved, Durations!Durations, Durations!Edits
  <2>2. [e \in Episodes |-> Durations!Saved(stored[c.anime][e],
            c.edits[e])] \in [Episodes -> Durations!Durations]
    BY <1>1, <2>1 DEF CardCall
  <2>3. stored' \in [Animes -> [Episodes -> Durations!Durations]]
    BY <1>1, <1>4, <2>2 DEF Durations!ServeSave
  <2> QED
    BY <1>1, <1>2, <1>4, <2>3, CardClean DEF Durations!ServeSave
<1>5. CASE Durations!StartAnalysis(c)
  <2>1. CASE analysis # 0
    BY <1>1, <1>2, <1>5, <2>1, CardClean DEF Durations!StartAnalysis
  <2>2. CASE analysis = 0
    <3> DEFINE d == [c EXCEPT !.rows = stored[c.anime]]
    <3>1. /\ c.kind = "analyze" /\ ~c.served /\ analysis' = c.ticket /\ cancelled' \in BOOLEAN
          /\ calls' = (calls \ {c}) \cup {d}
          /\ UNCHANGED <<stored, anime, edits, saving, load, running, review, made, late, lost>>
      BY <1>5, <2>2 DEF Durations!StartAnalysis
    <3>2. d \in CardCall /\ d.kind = c.kind /\ d.ticket = c.ticket /\ d.edits = c.edits
              /\ d.latest = c.latest /\ ~d.served
      BY <1>1, <3>1 DEF CardCall
    <3> HIDE DEF d
    <3>3. CardTypes' /\ CarriesTheDraft'
      BY <1>1, <3>1, <3>2, CardServed
    <3>4. Ticketed(calls', made, c.ticket)
      BY <1>1, <3>1, <3>2 DEF Ticketed, CardInv, OneAnalysis
    <3> QED
      BY <1>1, <3>1, <3>3, <3>4 DEF CardInv, OneAnalysis
  <2> QED
    BY <2>1, <2>2
<1>6. CASE Durations!FinishAnalysis(c)
  <2> DEFINE d == [c EXCEPT !.served = TRUE, !.outcome = (IF cancelled THEN "cancelled" ELSE "ok"),
          !.rows = c.rows]
  <2>1. /\ c.kind = "analyze" /\ ~c.served /\ analysis' = 0 /\ c.ticket = analysis
        /\ calls' = (calls \ {c}) \cup {d}
        /\ UNCHANGED <<stored, cancelled, anime, edits, saving, load, running, review, made, late,
              lost>>
    BY <1>6 DEF Durations!FinishAnalysis, Durations!Serve
  <2>2. d \in CardCall /\ d.kind = c.kind /\ d.ticket = c.ticket /\ d.edits = c.edits
            /\ d.latest = c.latest
    BY <1>1 DEF CardCall
  <2> HIDE DEF d
  <2>3. CardTypes' /\ CarriesTheDraft'
    BY <1>1, <2>1, <2>2, CardServed
  <2>4. Ticketed(calls', made, 0)
    BY <1>1, <2>1, <2>2 DEF Ticketed, CardInv, OneAnalysis
  <2> QED
    BY <1>1, <2>1, <2>3, <2>4 DEF CardInv, OneAnalysis
<1>7. CASE Durations!ServeCancel(c)
  <2>1. /\ c.kind = "cancel" /\ calls' = calls \ {c}
        /\ UNCHANGED <<stored, analysis, anime, edits, saving, load, running, review, made, late, lost>>
    BY <1>7 DEF Durations!ServeCancel
  <2>2. cancelled' \in BOOLEAN
    BY <1>1, <1>7 DEF Durations!ServeCancel
  <2>3. Ticketed(calls', made, analysis)
    BY <1>1, <2>1, TicketGone DEF CardInv, OneAnalysis
  <2>4. CardTypes'
    BY <2>1, <2>2 DEF CardInv, CardTypes
  <2>5. CarriesTheDraft'
    BY <2>1 DEF CardInv, CarriesTheDraft
  <2> QED
    BY <1>1, <2>1, <2>3, <2>4, <2>5 DEF CardInv, OneAnalysis
<1> QED
  BY <1>3, <1>4, <1>5, <1>6, <1>7

\* A call that is answered is gone; what it leaves of the form is of its types.
LEMMA CardAnswered ==
  ASSUME CardInv, NEW c \in calls, c.served, calls' = calls \ {c},
         UNCHANGED <<stored, analysis, cancelled, anime, edits, made, late, lost>>,
         Empties(c) \/ UNCHANGED saving, saving' \in BOOLEAN, running' \in BOOLEAN,
         load' \in [ready : BOOLEAN, rows : [Episodes -> Durations!Durations]],
         review' \in [open : BOOLEAN, changes : SUBSET Episodes]
  PROVE  CardInv'
<1>1. made \in Nat /\ analysis \in Nat /\ calls \in SUBSET CardCall
  BY DEF CardInv, CardTypes, OneAnalysis
<1>2. CardTypes'
  BY DEF CardInv, CardTypes
<1>3. CarriesTheDraft'
  BY DEF CardInv, CarriesTheDraft
<1>4. Ticketed(calls', made, analysis)
  <2>1. c.kind # "analyze" \/ c.ticket # analysis
    BY DEF CardInv, OneAnalysis, Ticketed
  <2> QED
    BY <1>1, <2>1, TicketGone DEF CardInv, OneAnalysis
<1> QED
  BY <1>1, <1>2, <1>3, <1>4 DEF CardInv, OneAnalysis

\* The answer of the latest save empties the draft and asks for the rows again.
LEMMA CardSaved ==
  ASSUME CardInv, NEW c \in calls, Durations!SaveAnswered(c) PROVE CardInv'
<1> USE DEF Durations!backend
<1>1. c.kind = "save" /\ c.served /\ UNCHANGED <<stored, analysis, cancelled, anime, running,
          review, made>>
  BY DEF Durations!SaveAnswered, Durations!Take
<1>2. CASE ~c.latest
  BY <1>1, <1>2, CardAnswered DEF Durations!SaveAnswered, CardInv, CardTypes
<1>3. CASE c.latest /\ c.outcome = "error"
  BY <1>1, <1>3, CardAnswered DEF Durations!SaveAnswered, CardInv, CardTypes, Empties
<1>4. CASE c.latest /\ c.outcome # "error"
  <2> DEFINE f(d) == [d EXCEPT !.latest = @ /\ d.kind # "load"]
             S == {f(d) : d \in calls \ {c}}
             l == Durations!Call("load", c.ticket, anime)
  <2>1. /\ edits' = Durations!Clean /\ saving' = FALSE
              /\ load' = [ready |-> FALSE, rows |-> Durations!Clean]
        /\ calls' = S \cup {l}
        /\ lost' = lost \cup ({e \in Episodes : edits[e] # "none" /\ edits[e] # c.edits[e]} \ late)
    BY <1>4 DEF Durations!SaveAnswered, Durations!Loading, Durations!ReadAgain
  <2>2. made \in Nat /\ analysis \in Nat /\ calls \in SUBSET CardCall /\ c.ticket \in Nat
            /\ anime \in Animes /\ c.ticket <= made
        /\ Ticketed(calls, made, analysis)
    BY DEF CardInv, CardTypes, CardCall, OneAnalysis, Ticketed
  <2>3. l \in CardCall /\ l.kind = "load" /\ l.ticket = c.ticket
    BY <2>2, CardNew DEF CardInv
  <2>4. \A d \in calls : /\ f(d) \in CardCall /\ f(d).kind = d.kind /\ f(d).ticket = d.ticket
                            /\ f(d).served = d.served
                         /\ f(d).latest => f(d) = d
    <3> SUFFICES ASSUME NEW d \in calls
                 PROVE  /\ f(d) \in CardCall /\ f(d).kind = d.kind /\ f(d).ticket = d.ticket
                           /\ f(d).served = d.served
                        /\ f(d).latest => f(d) = d
      OBVIOUS
    <3>1. d \in CardCall /\ (d.latest /\ d.kind # "load") \in BOOLEAN
      BY <2>2 DEF CardCall
    <3> QED
      BY <3>1 DEF CardCall
  <2> HIDE DEF f, l
  <2>5. \A d \in S : ~Empties(d)
    <3> SUFFICES ASSUME NEW d \in calls, d # c, Empties(f(d)) PROVE FALSE
      BY DEF S
    <3>1. Empties(d)
      BY <2>4 DEF Empties
    <3> QED
      BY <1>1, <1>4, <3>1 DEF CardInv, CarriesTheDraft, Empties
  <2>6. lost' = {}
    BY <1>1, <1>4, <2>1 DEF CardInv, CarriesTheDraft, Empties
  <2>7. CardTypes'
    <3>1. calls' \subseteq CardCall
      BY <2>1, <2>3, <2>4
    <3> QED
      BY <1>1, <2>1, <3>1, CardClean DEF CardInv, CardTypes
  <2>8. CarriesTheDraft'
    BY <2>1, <2>3, <2>5, <2>6 DEF CarriesTheDraft, Empties
  <2>9. Ticketed(S \cup {l}, made, analysis)
    <3>1. analysis # 0 => \E d \in S : d.ticket = analysis /\ d.kind = "analyze"
      BY <1>1, <2>2, <2>4 DEF Ticketed
    <3>2. \A x, y \in S : x.kind = "analyze" /\ y.kind = "analyze" /\ x.ticket = y.ticket => x = y
      BY <2>2, <2>4 DEF Ticketed
    <3>3. \A x \in S : x.ticket <= made /\ (x.kind = "analyze" => x.ticket # 0
              /\ (x.ticket = analysis => ~x.served))
      BY <2>2, <2>4 DEF Ticketed
    <3> QED
      BY <2>2, <2>3, <3>1, <3>2, <3>3 DEF Ticketed
  <2> QED
    BY <1>1, <2>1, <2>2, <2>7, <2>8, <2>9 DEF CardInv, OneAnalysis
<1> QED
  BY <1>2, <1>3, <1>4

LEMMA CardAnswers ==
  ASSUME CardInv, NEW c \in calls,
         Durations!Loaded(c) \/ Durations!SaveAnswered(c) \/ Durations!AnalysisAnswered(c)
  PROVE  CardInv'
<1> USE DEF Durations!backend, Durations!history, Durations!Take
<1>1. CASE Durations!Loaded(c)
  <2>1. load' \in [ready : BOOLEAN, rows : [Episodes -> Durations!Durations]]
    BY <1>1, CardClean DEF Durations!Loaded, CardInv, CardTypes, CardCall
  <2> QED
    BY <1>1, <2>1, CardAnswered DEF Durations!Loaded, CardInv, CardTypes
<1>2. CASE Durations!AnalysisAnswered(c)
  <2>1. review' \in [open : BOOLEAN, changes : SUBSET Episodes]
    <3>1. \A s \in SUBSET Episodes : Durations!Review(s) \in [open : BOOLEAN, changes : SUBSET Episodes]
      BY DEF Durations!Review
    <3>2. Durations!Closed \in [open : BOOLEAN, changes : SUBSET Episodes]
              /\ review \in [open : BOOLEAN, changes : SUBSET Episodes]
      BY DEF Durations!Closed, CardInv, CardTypes
    <3>3. \/ review' = review \/ review' = Durations!Closed
          \/ review' = Durations!Review({})
          \/ review' = Durations!Review({e \in Episodes : c.rows[e] \in {"none", "measured"}})
      BY <1>2 DEF Durations!AnalysisAnswered
    <3> QED
      BY <3>1, <3>2, <3>3
  <2>2. running' \in BOOLEAN
    BY <1>2 DEF Durations!AnalysisAnswered, CardInv, CardTypes
  <2> QED
    BY <1>2, <2>1, <2>2, CardAnswered DEF Durations!AnalysisAnswered, CardInv, CardTypes
<1> QED
  BY <1>1, <1>2, CardSaved

LEMMA CardStepKeepsInv ==
  ASSUME CardInv, Durations!Next \/ UNCHANGED Durations!vars PROVE CardInv'
<1>1. ASSUME UNCHANGED Durations!vars PROVE CardInv'
  BY <1>1 DEF Durations!vars, Durations!backend, Durations!card, Durations!history, CardInv,
    CardTypes, CarriesTheDraft, OneAnalysis
<1> QED
  BY <1>1, CardMove, CardForm, CardConfirm, CardCommand, CardBackend, CardAnswers
    DEF Durations!Next, Durations!Answer

LEMMA CardPromises == CardInv => Durations!TypeOK /\ Durations!EditsSurvive
BY DEF CardInv, CardTypes, CarriesTheDraft, OneAnalysis, Ticketed, CardCall, Durations!TypeOK,
  Durations!EditsSurvive

\* No step puts a reading over a duration set by hand: the one that stores keeps it,
\* but for a Clear.
LEMMA CardKeepsHandValues ==
  ASSUME CardInv, Durations!Next \/ UNCHANGED Durations!vars
  PROVE  \A a \in Animes, e \in Episodes : stored[a][e] = "manual"
         => stored'[a][e] \in {"manual", "none"}
<1> USE DEF Durations!backend, Durations!card, Durations!history
<1>1. ASSUME NEW c \in calls, NEW ok \in BOOLEAN, Durations!ServeSave(c, ok)
      PROVE  \A a \in Animes, e \in Episodes : stored[a][e] = "manual"
             => stored'[a][e] \in {"manual", "none"}
  <2>1. stored \in [Animes -> [Episodes -> Durations!Durations]] /\ c.anime \in Animes
    BY DEF CardInv, CardTypes, CardCall
  <2>2. \A edit \in Durations!Edits : Durations!Saved("manual", edit) \in {"manual", "none"}
    BY DEF Durations!Saved, Durations!Edits
  <2>3. \A e \in Episodes : c.edits[e] \in Durations!Edits
    BY DEF CardInv, CardTypes, CardCall
  <2>4. \A a \in Animes, e \in Episodes :
          stored'[a][e] = stored[a][e] \/ stored'[a][e] = Durations!Saved(stored[a][e], c.edits[e])
    BY <1>1, <2>1 DEF Durations!ServeSave
  <2> QED
    BY <2>2, <2>3, <2>4
<1>2. CASE UNCHANGED stored
  BY <1>2
<1>3. ASSUME Durations!Next PROVE UNCHANGED stored \/ \E c \in calls, ok \in BOOLEAN :
             Durations!ServeSave(c, ok)
  BY <1>3 DEF Durations!Next, Durations!Answer, Durations!Move, Durations!Edit, Durations!Discard,
    Durations!Save,
    Durations!Reanalyze, Durations!CancelAnalysis, Durations!ConfirmReview, Durations!CloseReview,
    Durations!ServeLoad,
    Durations!StartAnalysis, Durations!FinishAnalysis, Durations!ServeCancel, Durations!Loaded,
    Durations!SaveAnswered,
    Durations!AnalysisAnswered
<1> QED
  BY <1>1, <1>2, <1>3 DEF Durations!vars

\* What the rows shown need: a save on its way is of this anime, and the one whose answer
\* empties the draft, or it is of an anime left meanwhile; and unless such a save was stored
\* and is still to be answered, the rows, and the read that will show some, have what is stored.
SavesAreOfThis ==
  \A c \in calls : c.kind = "save" => (saving /\ c.latest /\ c.anime = anime) \/ c.anime \in abandoned
Wanted(c) == c.kind = "load" /\ c.latest
StoredBy(c, a) == c.kind = "save" /\ c.served /\ c.outcome = "ok" /\ c.anime = a
LoadsAreOfThis ==
  /\ \A c \in calls : Wanted(c) => c.anime = anime
  /\ \A c \in calls : c.kind = "save" /\ c.served => c.outcome \in {"ok", "error"}
RowsKept ==
  anime \notin abandoned =>
    \/ \E c \in calls : StoredBy(c, anime)
    \/ /\ load.ready => load.rows = stored[anime]
       /\ \A c \in calls : Wanted(c) /\ c.served /\ c.outcome = "ok" => c.rows = stored[anime]
CardSettled == SavesAreOfThis /\ LoadsAreOfThis /\ RowsKept

\* A call as it was but for being the latest.
Alike(c, d) ==
  c.kind = d.kind /\ c.anime = d.anime /\ c.served = d.served /\ c.outcome = d.outcome
      /\ (c.latest => c = d)

LEMMA CardMade ==
  ASSUME CardTypes, NEW k \in {"load", "save", "analyze", "cancel"}, NEW n \in Nat, NEW a \in Animes
  PROVE  LET c == Durations!Call(k, n, a)
         IN c.kind = k /\ c.anime = a /\ ~c.served /\ c.latest
BY DEF Durations!Call

LEMMA CardAlike ==
  ASSUME CardTypes, NEW kinds, NEW c \in calls
  PROVE  LET d == [c EXCEPT !.latest = @ /\ c.kind \notin kinds]
         IN Alike(d, c) /\ (d.latest <=> c.latest /\ c.kind \notin kinds)
<1> DEFINE d == [c EXCEPT !.latest = @ /\ c.kind \notin kinds]
<1>1. c \in CardCall /\ (c.latest /\ c.kind \notin kinds) \in BOOLEAN
  BY DEF CardTypes, CardCall
<1>2. d.latest => d = c
  BY <1>1 DEF CardCall
<1> QED
  BY <1>1, <1>2 DEF Alike, CardCall

LEMMA CardAlikes ==
  ASSUME CardTypes, NEW kinds
  PROVE  LET S == Durations!Superseded(kinds)
         IN /\ \A d \in S : \E c \in calls : Alike(d, c)
               /\ (d.latest <=> c.latest /\ c.kind \notin kinds)
            /\ \A c \in calls : \E d \in S : Alike(d, c)
                  /\ (d.latest <=> c.latest /\ c.kind \notin kinds)
<1> DEFINE f(c) == [c EXCEPT !.latest = @ /\ c.kind \notin kinds]
<1>1. Durations!Superseded(kinds) = {f(c) : c \in calls}
  BY DEF Durations!Superseded
<1>2. \A c \in calls : Alike(f(c), c) /\ (f(c).latest <=> c.latest /\ c.kind \notin kinds)
  BY CardAlike
<1> HIDE DEF f
<1> QED
  BY <1>1, <1>2

\* Calls are added that are not served yet, and none is of another anime.
LEMMA CardAdds ==
  ASSUME CardTypes, CardSettled, NEW kinds, NEW X, "load" \notin kinds,
         \A x \in X : ~x.served /\ x.kind # "load"
             /\ (x.kind = "save" => saving' /\ x.latest /\ x.anime = anime),
         calls' = Durations!Superseded(kinds) \cup X,
         saving => saving', "save" \in kinds => ~saving,
         UNCHANGED <<stored, anime, load, abandoned>>
  PROVE  CardSettled'
<1> DEFINE S == Durations!Superseded(kinds)
<1>1. /\ \A d \in S : \E c \in calls : Alike(d, c) /\ (d.latest <=> c.latest /\ c.kind \notin kinds)
      /\ \A c \in calls : \E d \in S : Alike(d, c) /\ (d.latest <=> c.latest /\ c.kind \notin kinds)
  BY CardAlikes
<1> HIDE DEF S
<1>2. SavesAreOfThis'
  BY <1>1 DEF SavesAreOfThis, CardSettled, Alike, S
<1>3. LoadsAreOfThis'
  BY <1>1 DEF LoadsAreOfThis, CardSettled, Alike, Wanted, S
<1>4. RowsKept'
  <2>1. \A c \in calls : StoredBy(c, anime) => \E d \in S : StoredBy(d, anime)
    BY <1>1 DEF StoredBy, Alike
  <2>2. \A d \in S : Wanted(d) => d \in calls
    BY <1>1 DEF Wanted, Alike
  <2> QED
    BY <2>1, <2>2 DEF RowsKept, CardSettled, Wanted, S
<1> QED
  BY <1>2, <1>3, <1>4 DEF CardSettled

LEMMA CardMoveSettles ==
  ASSUME CardInv, CardSettled, NEW a \in Animes, Durations!Move(a) PROVE CardSettled'
<1> DEFINE S == Durations!Superseded({"load", "save", "analyze"})
           l == Durations!Call("load", made + 1, a)
           x == Durations!Call("cancel", made + 1, anime)
<1>1. /\ anime' = a /\ a # anime /\ load'.ready = FALSE /\ UNCHANGED stored
      /\ calls' = (S \cup {l}) \cup (IF running THEN {x} ELSE {})
      /\ abandoned' = IF saving THEN abandoned \cup {anime} ELSE abandoned
  BY DEF Durations!Move, Durations!backend, Durations!Loading, Durations!ReadAgain
<1>2. made + 1 \in Nat /\ anime \in Animes /\ CardTypes
  BY DEF CardInv, CardTypes
<1>3. /\ l.kind = "load" /\ l.anime = a /\ ~l.served
      /\ x.kind = "cancel"
  BY <1>2, CardMade
<1>4. \A d \in S : \E c \in calls : Alike(d, c)
          /\ (d.latest <=> c.latest /\ c.kind \notin {"load", "save", "analyze"})
  BY <1>2, CardAlikes
<1> HIDE DEF S, l, x
<1>5. \A d \in calls' : d = l \/ d = x \/ \E c \in calls : Alike(d, c)
          /\ (d.latest <=> c.latest /\ c.kind \notin {"load", "save", "analyze"})
  BY <1>1, <1>4
<1>6. \A d \in calls' : d.kind = "save" => d.anime \in abandoned'
  BY <1>1, <1>3, <1>5 DEF CardSettled, SavesAreOfThis, Alike
<1>7. \A d \in calls' : Wanted(d) => d = l
  BY <1>3, <1>5 DEF Wanted, Alike
<1>8. SavesAreOfThis' /\ LoadsAreOfThis'
  <2>1. \A d \in calls' : d.kind = "save" /\ d.served => d.outcome \in {"ok", "error"}
    BY <1>3, <1>5 DEF CardSettled, LoadsAreOfThis, Alike
  <2> QED
    BY <1>1, <1>3, <1>6, <1>7, <2>1 DEF SavesAreOfThis, LoadsAreOfThis, Wanted
<1>9. RowsKept'
  BY <1>1, <1>3, <1>7 DEF RowsKept, Wanted
<1> QED
  BY <1>8, <1>9 DEF CardSettled

\* A call served, and answered.
LEMMA CardServes ==
  ASSUME CardInv, CardSettled, NEW c \in calls,
         \/ \E ok \in BOOLEAN : Durations!ServeLoad(c, ok) \/ Durations!ServeSave(c, ok)
         \/ Durations!StartAnalysis(c) \/ Durations!FinishAnalysis(c) \/ Durations!ServeCancel(c)
  PROVE  CardSettled'
<1> USE DEF Durations!backend, Durations!card, Durations!history
<1>1. c \in CardCall /\ stored \in [Animes -> [Episodes -> Durations!Durations]]
          /\ c.anime \in Animes /\ anime \in Animes
      /\ calls \in SUBSET CardCall
  BY DEF CardInv, CardTypes, CardCall
<1>2. ASSUME NEW d, calls' = (calls \ {c}) \cup {d}, d.kind = c.kind, d.anime = c.anime,
             d.latest = c.latest,
             c.kind # "save", c.kind = "load" => d.rows = stored[c.anime],
             UNCHANGED <<stored, anime, saving, load, abandoned>>
      PROVE  CardSettled'
  <2>1. SavesAreOfThis'
    BY <1>2 DEF CardSettled, SavesAreOfThis
  <2>2. LoadsAreOfThis'
    BY <1>2 DEF CardSettled, LoadsAreOfThis, Wanted
  <2>3. \A b \in calls : StoredBy(b, anime) => b \in calls'
    BY <1>2 DEF StoredBy
  <2>4. Wanted(d) => d.kind = "load" /\ d.anime = anime
    BY <1>2 DEF CardSettled, LoadsAreOfThis, Wanted
  <2>5. RowsKept'
    BY <1>2, <2>3, <2>4 DEF CardSettled, RowsKept, Wanted
  <2> QED
    BY <2>1, <2>2, <2>5 DEF CardSettled
<1>3. ASSUME NEW ok \in BOOLEAN, Durations!ServeLoad(c, ok) PROVE CardSettled'
  <2> DEFINE d == [c EXCEPT !.served = TRUE, !.outcome = (IF ok THEN "ok" ELSE "error"),
          !.rows = stored[c.anime]]
  <2>1. /\ c.kind = "load" /\ calls' = (calls \ {c}) \cup {d}
        /\ UNCHANGED <<stored, anime, saving, load, abandoned>>
    BY <1>3 DEF Durations!ServeLoad, Durations!Serve
  <2>2. d.kind = c.kind /\ d.anime = c.anime /\ d.latest = c.latest /\ d.rows = stored[c.anime]
    BY <1>1 DEF CardCall
  <2> QED
    BY <1>2, <2>1, <2>2
<1>4. ASSUME NEW ok \in BOOLEAN, Durations!ServeSave(c, ok) PROVE CardSettled'
  <2> DEFINE d == [c EXCEPT !.served = TRUE, !.outcome = (IF ok THEN "ok" ELSE "error"),
          !.rows = Durations!Clean]
  <2>1. /\ c.kind = "save" /\ ~c.served /\ calls' = (calls \ {c}) \cup {d}
        /\ UNCHANGED <<anime, saving, load, abandoned>>
        /\ IF ok THEN \A a \in Animes \ {c.anime} : stored'[a] = stored[a] ELSE stored' = stored
    BY <1>1, <1>4 DEF Durations!ServeSave, Durations!Serve
  <2>2. d.kind = "save" /\ d.anime = c.anime /\ d.latest = c.latest /\ d.served = TRUE
        /\ d.outcome = (IF ok THEN "ok" ELSE "error")
    BY <1>1, <2>1 DEF CardCall
  <2> HIDE DEF d
  <2>3. SavesAreOfThis' /\ LoadsAreOfThis'
    BY <2>1, <2>2 DEF CardSettled, SavesAreOfThis, LoadsAreOfThis, Wanted
  <2>4. \A b \in calls : StoredBy(b, anime) => b \in calls'
    BY <2>1 DEF StoredBy
  <2>5. ok /\ c.anime = anime => StoredBy(d, anime)
    BY <2>2 DEF StoredBy
  <2>6. ~(ok /\ c.anime = anime) => stored'[anime] = stored[anime]
    BY <1>1, <2>1
  <2>7. \A b \in calls' : Wanted(b) => b \in calls
    BY <2>1, <2>2 DEF Wanted
  <2>8. RowsKept'
    BY <2>1, <2>4, <2>5, <2>6, <2>7 DEF CardSettled, RowsKept
  <2> QED
    BY <2>3, <2>8 DEF CardSettled
<1>5. CASE Durations!StartAnalysis(c) \/ Durations!FinishAnalysis(c)
  <2>1. PICK d : /\ calls' = (calls \ {c}) \cup {d}
                 /\ \/ d = [c EXCEPT !.served = TRUE, !.outcome = "busy", !.rows = Durations!Clean]
                    \/ d = [c EXCEPT !.rows = stored[c.anime]]
                    \/ d = [c EXCEPT !.served = TRUE, !.outcome = (IF cancelled THEN "cancelled"
                          ELSE "ok"), !.rows = c.rows]
    BY <1>5 DEF Durations!StartAnalysis, Durations!FinishAnalysis, Durations!Serve
  <2>2. c.kind = "analyze" /\ UNCHANGED <<stored, anime, saving, load, abandoned>>
    BY <1>5 DEF Durations!StartAnalysis, Durations!FinishAnalysis, Durations!Serve
  <2>3. d.kind = c.kind /\ d.anime = c.anime /\ d.latest = c.latest
    BY <1>1, <2>1 DEF CardCall
  <2> QED
    BY <1>2, <2>1, <2>2, <2>3
<1>6. CASE Durations!ServeCancel(c)
  <2>1. c.kind = "cancel" /\ calls' = calls \ {c}
            /\ UNCHANGED <<stored, anime, saving, load, abandoned>>
    BY <1>6 DEF Durations!ServeCancel
  <2> QED
    BY <2>1 DEF CardSettled, SavesAreOfThis, LoadsAreOfThis, RowsKept, Wanted, StoredBy
<1> QED
  BY <1>3, <1>4, <1>5, <1>6

LEMMA CardAnswersSettle ==
  ASSUME CardInv, CardSettled, NEW c \in calls,
         Durations!Loaded(c) \/ Durations!SaveAnswered(c) \/ Durations!AnalysisAnswered(c)
  PROVE  CardSettled'
<1> USE DEF Durations!backend, Durations!history, Durations!Take
<1>1. c \in CardCall /\ anime \in Animes /\ calls \in SUBSET CardCall /\ CardTypes /\ c.ticket \in Nat
  BY DEF CardInv, CardTypes, CardCall
<1>2. CASE Durations!Loaded(c)
  <2>1. /\ c.kind = "load" /\ c.served /\ calls' = calls \ {c}
              /\ UNCHANGED <<stored, anime, saving, abandoned>>
        /\ ~c.latest => load' = load
        /\ c.latest => load'.ready = (c.outcome = "ok") /\ (c.outcome = "ok" => load'.rows = c.rows)
    BY <1>2 DEF Durations!Loaded
  <2>2. SavesAreOfThis' /\ LoadsAreOfThis'
    BY <2>1 DEF CardSettled, SavesAreOfThis, LoadsAreOfThis, Wanted
  <2>3. \A b \in calls : StoredBy(b, anime) => b \in calls'
    BY <2>1 DEF StoredBy
  <2>4. RowsKept'
    BY <2>1, <2>3 DEF CardSettled, RowsKept, Wanted
  <2> QED
    BY <2>2, <2>4 DEF CardSettled
<1>3. CASE Durations!AnalysisAnswered(c)
  <2>1. c.kind = "analyze" /\ calls' = calls \ {c}
            /\ UNCHANGED <<stored, anime, saving, load, abandoned>>
    BY <1>3 DEF Durations!AnalysisAnswered
  <2> QED
    BY <2>1 DEF CardSettled, SavesAreOfThis, LoadsAreOfThis, RowsKept, Wanted, StoredBy
<1>4. CASE Durations!SaveAnswered(c) /\ ~(c.latest /\ c.outcome # "error")
  <2>1. /\ c.kind = "save" /\ c.served /\ calls' = calls \ {c}
              /\ UNCHANGED <<stored, anime, load, abandoned>>
        /\ ~c.latest => saving' = saving
    BY <1>4 DEF Durations!SaveAnswered
  <2>2. \A d \in calls' : d.kind = "save" => (saving' /\ d.latest /\ d.anime = anime)
            \/ d.anime \in abandoned
    BY <1>4, <2>1 DEF CardSettled, SavesAreOfThis, CardInv, CarriesTheDraft, Empties
  <2>3. SavesAreOfThis' /\ LoadsAreOfThis'
    BY <2>1, <2>2 DEF CardSettled, SavesAreOfThis, LoadsAreOfThis, Wanted
  <2>4. anime \notin abandoned => \A b \in calls : StoredBy(b, anime) => b \in calls'
    BY <1>4, <2>1 DEF StoredBy, CardSettled, SavesAreOfThis
  <2>5. RowsKept'
    BY <2>1, <2>4 DEF CardSettled, RowsKept, Wanted
  <2> QED
    BY <2>3, <2>5 DEF CardSettled
<1>5. CASE Durations!SaveAnswered(c) /\ c.latest /\ c.outcome # "error"
  <2> DEFINE f(d) == [d EXCEPT !.latest = @ /\ d.kind # "load"]
             l == Durations!Call("load", c.ticket, anime)
  <2>1. /\ c.kind = "save" /\ load'.ready = FALSE /\ UNCHANGED <<stored, anime, abandoned>>
        /\ calls' = {f(d) : d \in calls \ {c}} \cup {l}
    BY <1>5 DEF Durations!SaveAnswered, Durations!Loading, Durations!ReadAgain
  <2>2. \A d \in calls : Alike(f(d), d) /\ (f(d).latest <=> d.latest /\ d.kind # "load")
    <3> SUFFICES ASSUME NEW d \in calls PROVE Alike(f(d), d)
            /\ (f(d).latest <=> d.latest /\ d.kind # "load")
      OBVIOUS
    <3>1. d \in CardCall /\ (d.latest /\ d.kind # "load") \in BOOLEAN
      BY <1>1 DEF CardCall
    <3>2. f(d).latest => f(d) = d
      BY <3>1 DEF CardCall
    <3> QED
      BY <3>1, <3>2 DEF Alike, CardCall
  <2>3. l.kind = "load" /\ l.anime = anime /\ ~l.served
    BY <1>1, CardMade
  <2> HIDE DEF f, l
  <2>4. \A x \in calls' : x = l \/ \E d \in calls \ {c} : Alike(x, d)
            /\ (x.latest <=> d.latest /\ d.kind # "load")
    BY <2>1, <2>2
  <2>5. \A x \in calls' : x.kind = "save" => x.anime \in abandoned
    BY <1>5, <2>1, <2>3, <2>4 DEF CardSettled, SavesAreOfThis, CardInv, CarriesTheDraft, Empties,
      Alike
  <2>6. \A x \in calls' : Wanted(x) => x = l
    BY <2>3, <2>4 DEF Wanted, Alike
  <2>7. \A x \in calls' : x.kind = "save" /\ x.served => x.outcome \in {"ok", "error"}
    BY <2>3, <2>4 DEF CardSettled, LoadsAreOfThis, Alike
  <2>8. SavesAreOfThis' /\ LoadsAreOfThis'
    BY <2>1, <2>3, <2>5, <2>6, <2>7 DEF SavesAreOfThis, LoadsAreOfThis, Wanted
  <2>9. RowsKept'
    BY <2>1, <2>3, <2>6 DEF RowsKept, Wanted
  <2> QED
    BY <2>8, <2>9 DEF CardSettled
<1> QED
  BY <1>2, <1>3, <1>4, <1>5

LEMMA CardCommandSettles ==
  ASSUME CardInv, CardSettled, Durations!Save \/ Durations!Reanalyze \/ Durations!CancelAnalysis
         PROVE CardSettled'
<1> DEFINE w == Durations!Call("save", made + 1, anime)
           a == Durations!Call("analyze", made + 1, anime)
           x == Durations!Call("cancel", made + 1, anime)
<1>1. made + 1 \in Nat /\ anime \in Animes /\ CardTypes
  BY DEF CardInv, CardTypes
<1>2. /\ w.kind = "save" /\ a.kind = "analyze" /\ x.kind = "cancel" /\ ~w.served /\ ~a.served
            /\ ~x.served
      /\ w.latest /\ w.anime = anime
  BY <1>1, CardMade
<1> HIDE DEF w, a, x
<1>3. CASE Durations!Save
  <2>1. /\ ~saving /\ saving' /\ calls' = Durations!Superseded({"save"}) \cup {w}
        /\ UNCHANGED <<stored, anime, load, abandoned>>
    BY <1>3 DEF Durations!Save, Durations!backend, w
  <2>2. \A q \in {w} : ~q.served /\ q.kind # "load"
            /\ (q.kind = "save" => saving' /\ q.latest /\ q.anime = anime)
    BY <1>2, <2>1
  <2>3. "load" \notin {"save"} /\ (saving => saving') /\ ("save" \in {"save"} => ~saving)
    BY <2>1
  <2> QED
    BY <1>1, <2>1, <2>2, <2>3, CardAdds
<1>4. CASE Durations!Reanalyze
  <2>1. /\ calls' = Durations!Superseded({"analyze"}) \cup {a}
        /\ UNCHANGED <<stored, anime, saving, load, abandoned>>
    BY <1>4 DEF Durations!Reanalyze, Durations!backend, Durations!history, a
  <2>2. \A q \in {a} : ~q.served /\ q.kind # "load"
            /\ (q.kind = "save" => saving' /\ q.latest /\ q.anime = anime)
    BY <1>2
  <2>3. "load" \notin {"analyze"} /\ (saving => saving') /\ ("save" \in {"analyze"} => ~saving)
    BY <2>1
  <2> QED
    BY <1>1, <2>1, <2>2, <2>3, CardAdds
<1>5. CASE Durations!CancelAnalysis
  <2>1. calls' = calls \cup {x} /\ UNCHANGED <<stored, anime, saving, load, abandoned>>
    BY <1>5 DEF Durations!CancelAnalysis, Durations!backend, Durations!card, Durations!history, x
  <2>2. SavesAreOfThis' /\ LoadsAreOfThis'
    BY <1>2, <2>1 DEF CardSettled, SavesAreOfThis, LoadsAreOfThis, Wanted
  <2>3. RowsKept'
    BY <1>2, <2>1 DEF CardSettled, RowsKept, Wanted
  <2> QED
    BY <2>2, <2>3 DEF CardSettled
<1> QED
  BY <1>3, <1>4, <1>5

CardWhole == CardInv /\ CardSettled

LEMMA CardWholeInit ==
  ASSUME CardAssumptions, Durations!Init PROVE CardWhole
<1>1. CardInv
  BY CardInit
<1>2. calls = {} /\ load = [ready |-> TRUE, rows |-> stored[anime]]
  BY DEF Durations!Init
<1> QED
  BY <1>1, <1>2 DEF CardWhole, CardSettled, SavesAreOfThis, LoadsAreOfThis, RowsKept

LEMMA CardStepKeepsWhole ==
  ASSUME CardWhole, Durations!Next \/ UNCHANGED Durations!vars PROVE CardWhole'
<1>1. CardInv'
  BY CardStepKeepsInv DEF CardWhole
<1>2. UNCHANGED <<stored, anime, saving, load, calls, abandoned>> => CardSettled'
  BY DEF CardWhole, CardSettled, SavesAreOfThis, LoadsAreOfThis, RowsKept, Wanted, StoredBy
<1>3. CASE UNCHANGED Durations!vars
  <2>1. UNCHANGED <<stored, anime, saving, load, calls, abandoned>>
    BY <1>3 DEF Durations!vars, Durations!backend, Durations!card, Durations!history
  <2> QED
    BY <1>1, <1>2, <2>1 DEF CardWhole
<1>4. CASE Durations!Discard \/ Durations!CloseReview \/ Durations!ConfirmReview
           \/ \E e \in Episodes, edit \in {"clear", "manual"} : Durations!Edit(e, edit)
  <2>1. UNCHANGED <<stored, anime, saving, load, calls, abandoned>>
    BY <1>4 DEF Durations!Discard, Durations!CloseReview, Durations!ConfirmReview, Durations!Edit,
      Durations!backend, Durations!history
  <2> QED
    BY <1>1, <1>2, <2>1 DEF CardWhole
<1> QED
  BY <1>1, <1>3, <1>4, CardMoveSettles, CardCommandSettles, CardServes, CardAnswersSettle
    DEF CardWhole, Durations!Next, Durations!Answer

LEMMA CardRowsSettle == CardWhole => Durations!RowsSettle
BY DEF CardWhole, CardSettled, RowsKept, Durations!RowsSettle

\* For any animes and episodes: a save's answer takes off the draft what the save stored,
\* but for readings confirmed while it was out; and with nothing under way the card has the
\* stored durations, but as the property says (useEpisodeDurationsController).
THEOREM CardIsSafe ==
  ASSUME CardAssumptions
  PROVE  Durations!Spec => [](Durations!TypeOK /\ Durations!EditsSurvive /\ Durations!RowsSettle)
<1>1. Durations!Init => CardWhole
  BY CardWholeInit
<1>2. CardWhole /\ [Durations!Next]_(Durations!vars) => CardWhole'
  BY CardStepKeepsWhole
<1>3. CardWhole => (Durations!TypeOK /\ Durations!EditsSurvive /\ Durations!RowsSettle)
  BY CardPromises, CardRowsSettle DEF CardWhole
<1> QED
  BY <1>1, <1>2, <1>3, PTL DEF Durations!Spec

\* No reading replaces a duration set by hand, whenever its analysis ran.
THEOREM HandValuesAreKept ==
  ASSUME CardAssumptions
  PROVE  Durations!Spec => Durations!HandValuesStay
<1>1. Durations!Init => CardInv
  BY CardInit
<1>2. CardInv /\ [Durations!Next]_(Durations!vars) => CardInv'
  BY CardStepKeepsInv
<1>3. CardInv /\ [Durations!Next]_(Durations!vars) =>
        \A a \in Animes, e \in Episodes :
          stored[a][e] = "manual" => stored'[a][e] \in {"manual", "none"}
  BY CardKeepsHandValues
<1> QED
  BY <1>1, <1>2, <1>3, PTL DEF Durations!Spec, Durations!HandValuesStay

-----------------------------------------------------------------------------
(* The download schedule's panel.  Unless it was left behind, one save at a  *)
(* time is on its way or waits for its read, and the schedule it is made of  *)
(* is the stored one but for the field edited.                               *)

ScheduleAssumptions == ScheduleCalls \in Nat

ScheduleCall ==
  [kind : Downloads!Actions \cup {"schedule", "save"}, id : Nat, then : {"none", "save", "action"},
   value : Downloads!Schedules, field : {"none", "enabled", "time"}, live : BOOLEAN, page : Nat,
   step : {"sent", "served", "claimed"},
   answer : {"none", "ok", "throws", "blank", "refused", "busy", "resolved", "settled",
       "unresolved", "error"}]

\* Only a read is waited for, only an action on the day is claimed; what reads answer.
WellMade(c) ==
  /\ c.then # "none" => c.kind = "schedule"
  /\ c.step = "claimed" => c.kind \in Downloads!Actions
  /\ c.kind = "schedule" /\ c.step = "served" => c.answer \in {"ok", "throws", "blank"}

ScheduleTypes ==
  /\ stored \in Downloads!Schedules /\ config \in Downloads!Schedules
  /\ events \in Nat /\ made \in Nat /\ made <= ScheduleCalls /\ page \in Nat
  /\ calls \subseteq ScheduleCall /\ (\A c \in calls : c.id <= made /\ c.page <= page)
  /\ \A c \in calls : WellMade(c)
  /\ failed => loaded
  /\ loaded \in BOOLEAN /\ failed \in BOOLEAN /\ saving \in BOOLEAN /\ hidden \in BOOLEAN
        /\ alert \in BOOLEAN
  /\ alerted \in BOOLEAN /\ resolving \in BOOLEAN /\ unheard \in BOOLEAN /\ blank \in BOOLEAN
        /\ behind \in BOOLEAN
  /\ overwrote \in BOOLEAN

Agrees(x, y) == x.enabled = y.enabled /\ x.time = y.time

\* A save, or the read it waits for; a save that was stored; what the panel does not
\* show yet.
Saves(c) == c.kind = "save" \/ c.then = "save"
WasStored(c) == c.kind = "save" /\ c.step = "served" /\ c.answer = "ok"
Unshown(c) == WasStored(c) \/ c.then = "save"
Brings(c) == c.kind = "schedule" /\ c.live /\ c.step = "served" /\ c.answer = "ok"

\* Of a set of calls S, when the panel has not fallen behind.
PanelKeepsUp(S) ==
  /\ \A c \in S : Saves(c) => saving
  /\ \A c, d \in S : Saves(c) /\ Saves(d) => c = d
  /\ \A c \in S : c.kind = "save" /\ c.step = "sent" =>
       (c.field # "enabled" => c.value.enabled = stored.enabled)
           /\ (c.field # "time" => c.value.time = stored.time)
  /\ \A c \in S : Brings(c) => Agrees(c.value, stored) \/ \E d \in S : WasStored(d)
  /\ loaded /\ ~failed /\ ~blank => Agrees(config, stored) \/ \E d \in S : Unshown(d)

SavesOneField == (overwrote => behind) /\ (~behind => PanelKeepsUp(calls))

ScheduleInv == ScheduleTypes /\ SavesOneField

LEMMA ScheduleBlank == Downloads!Blank \in Downloads!Schedules
BY DEF Downloads!Blank, Downloads!Schedules

LEMMA ScheduleInit ==
  ASSUME ScheduleAssumptions, Downloads!Init PROVE ScheduleInv
<1> DEFINE n == [kind |-> "schedule", id |-> 0, then |-> "none", value |-> Downloads!Blank,
        field |-> "none",
                 live |-> TRUE, page |-> 1, step |-> "sent", answer |-> "none"]
<1>1. n \in ScheduleCall /\ n.id = 0 /\ n.page = 1 /\ n.kind = "schedule" /\ n.then = "none"
          /\ n.step = "sent"
  BY ScheduleBlank DEF ScheduleCall
<1>2. /\ stored = [enabled |-> TRUE, time |-> 0, missed |-> TRUE] /\ events = 0 /\ made = 0
            /\ page = 1 /\ calls = {n}
      /\ config = Downloads!Blank /\ loaded = FALSE /\ failed = FALSE /\ saving = FALSE
      /\ hidden = FALSE /\ alert = FALSE /\ resolving = FALSE /\ alerted = FALSE
      /\ unheard = FALSE /\ blank = FALSE /\ behind = FALSE /\ overwrote = FALSE
  BY DEF Downloads!Init
<1> HIDE DEF n
<1>3. stored \in Downloads!Schedules
  BY <1>2 DEF Downloads!Schedules
<1>4. ScheduleTypes
  <2>1. calls \subseteq ScheduleCall /\ \A c \in calls : c.id <= made /\ c.page <= page
    BY <1>1, <1>2
  <2>2. made \in Nat /\ made <= ScheduleCalls /\ page \in Nat /\ events \in Nat
    BY <1>2 DEF ScheduleAssumptions
  <2> QED
    BY <1>1, <1>2, <1>3, <2>1, <2>2, ScheduleBlank DEF ScheduleTypes, WellMade
<1>5. SavesOneField
  BY <1>1, <1>2 DEF SavesOneField, PanelKeepsUp, Saves, Brings, WasStored
<1> QED
  BY <1>4, <1>5 DEF ScheduleInv

LEMMA ScheduleNew ==
  ASSUME ScheduleTypes, NEW kind \in Downloads!Actions \cup {"schedule", "save"}, NEW id \in Nat,
         NEW then \in {"none", "save", "action"}, NEW value \in Downloads!Schedules
  PROVE  LET c == Downloads!Call(kind, id, then, value)
         IN /\ c \in ScheduleCall /\ c.kind = kind /\ c.id = id /\ c.then = then /\ c.value = value
               /\ c.page = page
            /\ c.step = "sent" /\ c.answer = "none"
<1> DEFINE c == Downloads!Call(kind, id, then, value)
<1>1. c = [kind |-> kind, id |-> id, then |-> then, value |-> value, field |-> "none",
           live |-> TRUE, page |-> page, step |-> "sent", answer |-> "none"]
  BY DEF Downloads!Call
<1> HIDE DEF c
<1>2. /\ c \in ScheduleCall /\ c.kind = kind /\ c.id = id /\ c.then = then /\ c.value = value
            /\ c.page = page
      /\ c.step = "sent" /\ c.answer = "none"
  BY <1>1 DEF ScheduleCall, ScheduleTypes
<1> QED
  BY <1>2 DEF c

LEMMA ScheduleSave ==
  ASSUME ScheduleInv, ScheduleAssumptions, NEW f \in Downloads!ScheduleFields, Downloads!Save(f)
         PROVE ScheduleInv'
<1> DEFINE v == [config EXCEPT !.enabled = IF f = "enabled" THEN ~@
        ELSE @, !.time = IF f = "time" THEN 1 - @ ELSE @]
           m == Downloads!Call("save", made + 1, "none", v)
           n == [m EXCEPT !.field = f]
<1>1. /\ loaded /\ ~failed /\ ~saving /\ made < ScheduleCalls /\ made' = made + 1 /\ calls' = calls
            \cup {n}
      /\ saving' = TRUE /\ behind' = (behind \/ blank)
      /\ UNCHANGED <<stored, events, config, loaded, failed, page, hidden, alert, resolving,
            alerted, unheard, blank, overwrote>>
  BY DEF Downloads!Save, Downloads!Send, Downloads!store, Downloads!notice
<1>2. /\ v \in Downloads!Schedules /\ f \in {"enabled", "time"}
      /\ (f # "enabled" => v.enabled = config.enabled) /\ (f # "time" => v.time = config.time)
  <2> DEFINE e == IF f = "enabled" THEN ~config.enabled ELSE config.enabled
             t == IF f = "time" THEN 1 - config.time ELSE config.time
  <2>1. config \in Downloads!Schedules /\ config.enabled \in BOOLEAN /\ config.time \in 0..1
    BY DEF ScheduleInv, ScheduleTypes, Downloads!Schedules
  <2>2. e \in BOOLEAN /\ (f # "enabled" => e = config.enabled)
    BY <2>1
  <2>3. t \in 0..1 /\ (f # "time" => t = config.time)
    BY <2>1
  <2>4. v = [config EXCEPT !.enabled = e, !.time = t]
    OBVIOUS
  <2> HIDE DEF v, e, t
  <2> QED
    BY <2>1, <2>2, <2>3, <2>4 DEF Downloads!Schedules, Downloads!ScheduleFields
<1> HIDE DEF v
<1>3. /\ m \in ScheduleCall /\ m.kind = "save" /\ m.id = made + 1 /\ m.then = "none" /\ m.value = v
            /\ m.page = page
      /\ m.step = "sent"
  BY <1>2, ScheduleNew DEF ScheduleInv, ScheduleTypes, Downloads!Actions
<1> HIDE DEF m
<1>4. /\ n \in ScheduleCall /\ n.kind = "save" /\ n.id = made + 1 /\ n.then = "none" /\ n.value = v
            /\ n.page = page
      /\ n.step = "sent" /\ n.field = f
  BY <1>2, <1>3 DEF ScheduleCall
<1> HIDE DEF n
<1>5. ScheduleTypes'
  <2>1. made' \in Nat /\ made' <= ScheduleCalls /\ calls' \subseteq ScheduleCall /\ \A c \in calls' :
            c.id <= made' /\ c.page <= page
    <3>1. made \in Nat /\ calls \subseteq ScheduleCall /\ page \in Nat /\ \A c \in calls :
              c.id <= made /\ c.page <= page
      BY DEF ScheduleInv, ScheduleTypes
    <3>2. \A c \in calls : c.id \in Nat
      BY <3>1 DEF ScheduleCall
    <3> QED
      BY <1>1, <1>4, <3>1, <3>2 DEF ScheduleAssumptions
  <2>2. behind' \in BOOLEAN
    BY <1>1 DEF ScheduleInv, ScheduleTypes
  <2> QED
    BY <1>1, <1>4, <2>1, <2>2 DEF ScheduleInv, ScheduleTypes, WellMade
<1>6. SavesOneField'
  <2>1. ASSUME ~behind, ~blank PROVE PanelKeepsUp(calls)'
    <3>1. PanelKeepsUp(calls) /\ (\A c \in calls : ~Saves(c))
      BY <1>1, <2>1 DEF ScheduleInv, SavesOneField, PanelKeepsUp
    <3>2. Agrees(config, stored)
      BY <1>1, <2>1, <3>1 DEF PanelKeepsUp, Unshown, WasStored, Saves
    <3>3. \A c \in calls' : Saves(c) => c = n
      BY <1>1, <3>1
    <3>4. \A c \in calls' : c.kind = "save" /\ c.step = "sent" =>
            (c.field # "enabled" => c.value.enabled = stored.enabled)
                /\ (c.field # "time" => c.value.time = stored.time)
      BY <1>2, <1>4, <3>2, <3>3 DEF Agrees, Saves
    <3>5. \A c \in calls' : Brings(c) => Agrees(c.value, stored)
      BY <1>1, <1>4, <3>1 DEF PanelKeepsUp, Brings, WasStored, Saves
    <3> QED
      BY <1>1, <3>2, <3>3, <3>4, <3>5 DEF PanelKeepsUp
  <2> QED
    BY <1>1, <2>1 DEF ScheduleInv, SavesOneField, ScheduleTypes
<1> QED
  BY <1>5, <1>6 DEF ScheduleInv

\* A superseded read that something waits for.
Dropped(c) == [c EXCEPT !.live = FALSE, !.step = "sent", !.answer = "none", !.value = Downloads!Blank]

LEMMA ScheduleDropped ==
  ASSUME ScheduleTypes, NEW c \in calls
  PROVE  /\ Dropped(c) \in ScheduleCall /\ Dropped(c).kind = c.kind /\ Dropped(c).then = c.then
            /\ Dropped(c).id = c.id
         /\ Dropped(c).page = c.page /\ Dropped(c).step = "sent" /\ ~Dropped(c).live
BY ScheduleBlank DEF Dropped, ScheduleTypes, ScheduleCall

\* Reading again leaves the writes, one live read and the reads something waits for.
LEMMA ScheduleReadAgain ==
  ASSUME ScheduleTypes, NEW then \in {"none", "save", "action"}, NEW gone \in SUBSET calls,
         then # "none" => \E c \in calls : gone = {c}, Downloads!ReadAgain(then, gone),
             UNCHANGED <<made, page>>
  PROVE  /\ calls' \subseteq ScheduleCall /\ (\A c \in calls' : c.id <= made /\ c.page <= page)
         /\ \A c \in calls' : WellMade(c)
         /\ \A c \in calls \ gone : c.kind # "schedule" => c \in calls'
         /\ \A c \in calls : c.kind = "schedule" /\ c.then # "none" => Dropped(c) \in calls'
         /\ \E n \in calls' : /\ n.kind = "schedule" /\ n.then = then /\ n.step = "sent"
                              /\ \A c \in calls' : \/ c = n
                                                   \/ c \in calls \ gone /\ c.kind # "schedule"
                                                   \/ \E d \in calls : d.kind = "schedule"
                                                         /\ d.then # "none" /\ c = Dropped(d)
<1> DEFINE old == {c \in calls : c.kind = "schedule"}
           id == IF then = "none" THEN 0 ELSE (CHOOSE c \in gone : TRUE).id
           n == Downloads!Call("schedule", id, then, Downloads!Blank)
<1>1. calls' = (calls \ (gone \cup old)) \cup {n}
          \cup {Dropped(c) : c \in {d \in old : d.then # "none"}}
  BY DEF Downloads!ReadAgain, Dropped
<1>2. id \in Nat /\ id <= made
  <2>1. CASE then = "none"
    BY <2>1 DEF ScheduleTypes
  <2>2. CASE then # "none"
    <3> PICK c \in calls : gone = {c}
      BY <2>2
    <3>1. (CHOOSE x \in gone : TRUE) = c
      OBVIOUS
    <3> QED
      BY <2>2, <3>1 DEF ScheduleTypes, ScheduleCall
  <2> QED
    BY <2>1, <2>2
<1> HIDE DEF id
<1>3. n \in ScheduleCall /\ n.kind = "schedule" /\ n.id = id /\ n.then = then /\ n.page = page
          /\ n.step = "sent"
  BY <1>2, ScheduleBlank, ScheduleNew
<1> HIDE DEF n
<1>4. \A c \in calls' : \/ c = n
                        \/ c \in calls \ gone /\ c.kind # "schedule"
                        \/ \E d \in calls : d.kind = "schedule" /\ d.then # "none" /\ c = Dropped(d)
  BY <1>1
<1>5. calls' \subseteq ScheduleCall /\ (\A c \in calls' : c.id <= made /\ c.page <= page)
  BY <1>2, <1>3, <1>4, ScheduleDropped DEF ScheduleTypes
<1>6. \A c \in calls' : WellMade(c)
  BY <1>3, <1>4, ScheduleDropped DEF ScheduleTypes, WellMade
<1>7. /\ \A c \in calls \ gone : c.kind # "schedule" => c \in calls'
      /\ \A c \in calls : c.kind = "schedule" /\ c.then # "none" => Dropped(c) \in calls'
  BY <1>1
<1>8. n \in calls'
  BY <1>1
<1> QED
  BY <1>3, <1>4, <1>5, <1>6, <1>7, <1>8

\* What reading again for an event or an action leaves as it was.
LEMMA ScheduleReadForOthers ==
  ASSUME ScheduleTypes, PanelKeepsUp(calls), NEW then \in {"none", "action"}, NEW gone \in SUBSET calls,
         then # "none" => \E c \in calls : gone = {c}, \A c \in gone : c.kind \in Downloads!Actions,
         Downloads!ReadAgain(then, gone), UNCHANGED <<made, page, saving, stored, loaded, failed,
             blank, config>>
  PROVE  PanelKeepsUp(calls)'
<1>1. /\ \A c \in calls \ gone : c.kind # "schedule" => c \in calls'
      /\ \A c \in calls : c.kind = "schedule" /\ c.then # "none" => Dropped(c) \in calls'
  BY ScheduleReadAgain
<1>2. PICK n \in calls' :
        /\ n.kind = "schedule" /\ n.then = then /\ n.step = "sent"
        /\ \A c \in calls' : \/ c = n
                             \/ c \in calls \ gone /\ c.kind # "schedule"
                             \/ \E d \in calls : d.kind = "schedule" /\ d.then # "none"
                                   /\ c = Dropped(d)
  BY ScheduleReadAgain
<1>3. \A c \in calls' : ~Brings(c)
  BY <1>2, ScheduleDropped DEF Brings
<1>4. \A c \in calls' : Saves(c) => \/ c \in calls
                                    \/ \E d \in calls : d.kind = "schedule" /\ Saves(d)
                                          /\ c = Dropped(d)
  BY <1>2, ScheduleDropped DEF Saves
<1>5. \A c \in calls : Unshown(c) => \E d \in calls' : Unshown(d)
  BY <1>1, ScheduleDropped DEF Unshown, WasStored, ScheduleTypes, WellMade, Downloads!Actions
<1>6. \A c, d \in calls' : Saves(c) /\ Saves(d) => c = d
  BY <1>2, <1>4, ScheduleDropped DEF PanelKeepsUp, Saves
<1>7. \A c \in calls' : c.kind = "save" => c \in calls
  BY <1>2, ScheduleDropped
<1>8. \A c \in calls' : Saves(c) => saving
  BY <1>4 DEF PanelKeepsUp
<1> QED
  BY <1>3, <1>5, <1>6, <1>7, <1>8 DEF PanelKeepsUp

LEMMA ScheduleButtons ==
  ASSUME ScheduleInv, ScheduleAssumptions, Downloads!Reenter \/ Downloads!RunNow
         \/ Downloads!Ignore PROVE ScheduleInv'
<1> USE DEF Downloads!store, Downloads!panel, Downloads!past, Downloads!notice
<1>1. CASE Downloads!Reenter
  <2>1. /\ page' = page + 1 /\ behind' = TRUE /\ saving' = FALSE
        /\ UNCHANGED <<stored, events, calls, made, config, loaded, failed, hidden, alert,
              resolving, alerted, unheard, blank, overwrote>>
    BY <1>1 DEF Downloads!Reenter
  <2>2. \A c \in calls : c.page \in Nat
    BY DEF ScheduleInv, ScheduleTypes, ScheduleCall
  <2>3. page' \in Nat /\ \A c \in calls : c.page <= page'
    BY <2>1, <2>2 DEF ScheduleInv, ScheduleTypes
  <2>4. ScheduleTypes'
    BY <2>1, <2>3 DEF ScheduleInv, ScheduleTypes
  <2> QED
    BY <2>1, <2>4 DEF ScheduleInv, SavesOneField
<1>2. ASSUME NEW kind \in Downloads!Actions, Downloads!Send(Downloads!Call(kind, made + 1, "none",
             Downloads!Blank)),
             hidden' \in BOOLEAN, resolving' \in BOOLEAN,
             UNCHANGED <<stored, events, config, loaded, failed, saving, page, alert, alerted,
                 unheard, blank, behind, overwrote>>
      PROVE  ScheduleInv'
  <2> DEFINE n == Downloads!Call(kind, made + 1, "none", Downloads!Blank)
  <2>1. n \in ScheduleCall /\ n.kind = kind /\ n.id = made + 1 /\ n.then = "none" /\ n.page = page
            /\ WellMade(n)
    BY ScheduleBlank, ScheduleNew DEF ScheduleInv, ScheduleTypes, WellMade
  <2>2. made < ScheduleCalls /\ made' = made + 1 /\ calls' = calls \cup {n}
    BY <1>2 DEF Downloads!Send
  <2> HIDE DEF n
  <2>3. made \in Nat /\ calls \subseteq ScheduleCall /\ page \in Nat
            /\ (\A c \in calls : c.id <= made /\ c.page <= page)
        /\ \A c \in calls : c.id \in Nat
    BY DEF ScheduleInv, ScheduleTypes, ScheduleCall
  <2>4. made' \in Nat /\ made' <= ScheduleCalls /\ \A c \in calls' : c.id <= made' /\ c.page <= page
    BY <2>1, <2>2, <2>3 DEF ScheduleAssumptions
  <2>5. ScheduleTypes'
    BY <1>2, <2>1, <2>2, <2>4 DEF ScheduleInv, ScheduleTypes
  <2>6. ~Saves(n) /\ ~Brings(n) /\ ~Unshown(n) /\ n.kind # "save"
    BY <2>1 DEF Saves, Brings, Unshown, WasStored, Downloads!Actions
  <2>7. SavesOneField'
    BY <1>2, <2>2, <2>6 DEF ScheduleInv, SavesOneField, PanelKeepsUp
  <2> QED
    BY <2>5, <2>7 DEF ScheduleInv
<1>3. CASE Downloads!RunNow
  BY <1>2, <1>3 DEF Downloads!RunNow, Downloads!Actions, ScheduleInv, ScheduleTypes
<1>4. CASE Downloads!Ignore
  BY <1>2, <1>4 DEF Downloads!Ignore, Downloads!Actions, ScheduleInv, ScheduleTypes
<1> QED
  BY <1>1, <1>3, <1>4

\* A call that goes on a step stays what it is.
LEMMA ScheduleStep ==
  ASSUME ScheduleTypes, NEW c \in calls, NEW to \in ScheduleCall,
         to.kind = c.kind, to.id = c.id, to.then = c.then, to.page = c.page, to.step = "claimed"
             => c.kind \in Downloads!Actions,
         to.kind = "schedule" /\ to.step = "served" => to.answer \in {"ok", "throws", "blank"},
         calls' = (calls \ {c}) \cup {to}, stored' \in Downloads!Schedules, events' \in Nat,
             overwrote' \in BOOLEAN,
         UNCHANGED <<made, config, loaded, failed, saving, page, hidden, alert, resolving, alerted,
             unheard, blank, behind>>
  PROVE  ScheduleTypes'
BY DEF ScheduleTypes, WellMade

LEMMA ScheduleBackend ==
  ASSUME ScheduleInv, NEW c \in calls,
         \/ \E answer \in {"ok", "throws", "blank"} : Downloads!ServeRead(c, answer)
         \/ Downloads!Claim(c)
         \/ \E outcome \in {"settled", "unresolved", "busy", "error"} : Downloads!Finish(c, outcome)
  PROVE  ScheduleInv'
<1> USE DEF Downloads!store, Downloads!panel, Downloads!past, Downloads!notice
<1>1. c \in ScheduleCall /\ stored \in Downloads!Schedules /\ events \in Nat
  BY DEF ScheduleInv, ScheduleTypes
<1>2. ASSUME NEW answer \in {"ok", "throws", "blank"}, Downloads!ServeRead(c, answer) PROVE ScheduleInv'
  <2> DEFINE v == IF answer = "ok" THEN Downloads!Shown(stored) ELSE Downloads!Blank
             to == [c EXCEPT !.step = "served", !.answer = answer, !.value = v]
  <2>1. /\ c.kind = "schedule" /\ calls' = (calls \ {c}) \cup {to}
        /\ UNCHANGED <<stored, events, made, config, loaded, failed, saving, page, hidden, alert,
              resolving, alerted,
                       unheard, blank, behind, overwrote>>
    BY <1>2 DEF Downloads!ServeRead, Downloads!Step
  <2>2. v \in Downloads!Schedules /\ (answer = "ok" => Agrees(v, stored))
    <3>1. (stored.missed /\ stored.enabled) \in BOOLEAN
      BY <1>1 DEF Downloads!Schedules
    <3>2. Downloads!Shown(stored) \in Downloads!Schedules /\ Agrees(Downloads!Shown(stored), stored)
      BY <1>1, <3>1 DEF Downloads!Shown, Downloads!Schedules, Agrees
    <3> QED
      BY <3>2, ScheduleBlank
  <2> HIDE DEF v
  <2>3. /\ to \in ScheduleCall /\ to.kind = c.kind /\ to.id = c.id /\ to.then = c.then
              /\ to.page = c.page
        /\ to.value = v /\ to.answer = answer /\ to.step = "served"
    BY <1>1, <2>2 DEF ScheduleCall
  <2> HIDE DEF to
  <2>4. ScheduleTypes'
    BY <1>1, <2>1, <2>3, ScheduleStep DEF ScheduleInv, ScheduleTypes
  <2>5. /\ Saves(to) <=> Saves(c)
        /\ Unshown(to) <=> Unshown(c)
        /\ ~WasStored(to) /\ ~WasStored(c) /\ to.kind # "save"
        /\ Brings(to) => Agrees(to.value, stored)
    BY <2>1, <2>2, <2>3 DEF Saves, Unshown, WasStored, Brings
  <2>6. PanelKeepsUp(calls) => PanelKeepsUp(calls)'
    BY <2>1, <2>5 DEF PanelKeepsUp
  <2> QED
    BY <2>1, <2>4, <2>6 DEF ScheduleInv, SavesOneField
<1>3. ASSUME NEW to \in ScheduleCall, c.kind \in Downloads!Actions, to.kind = c.kind, to.id = c.id,
             to.then = c.then, to.page = c.page,
             calls' = (calls \ {c}) \cup {to}, events' \in Nat, stored' \in Downloads!Schedules,
                 Agrees(stored', stored),
             UNCHANGED <<made, config, loaded, failed, saving, page, hidden, alert, resolving, alerted,
                         unheard, blank, behind, overwrote>>
      PROVE  ScheduleInv'
  <2>1. ScheduleTypes'
    BY <1>3, ScheduleStep DEF ScheduleInv, ScheduleTypes, Downloads!Actions
  <2>2. \A x \in {c, to} : ~Saves(x) /\ ~Unshown(x) /\ ~WasStored(x) /\ ~Brings(x) /\ x.kind # "save"
    BY <1>3 DEF Saves, Unshown, WasStored, Brings, Downloads!Actions, ScheduleInv, ScheduleTypes,
      WellMade
  <2>3. PanelKeepsUp(calls) => PanelKeepsUp(calls)'
    BY <1>3, <2>2 DEF PanelKeepsUp, Agrees
  <2> QED
    BY <1>3, <2>1, <2>3 DEF ScheduleInv, SavesOneField
<1>4. ASSUME NEW step \in {"served", "claimed"}, NEW answer \in {"none", "busy", "resolved",
             "settled", "unresolved", "error"}
      PROVE  LET to == [c EXCEPT !.step = step, !.answer = answer]
             IN to \in ScheduleCall /\ to.kind = c.kind /\ to.id = c.id /\ to.then = c.then
                 /\ to.page = c.page
  BY <1>1 DEF ScheduleCall
<1>5. CASE Downloads!Claim(c)
  <2>1. /\ c.kind \in Downloads!Actions
        /\ UNCHANGED <<stored, events, made, config, loaded, failed, saving, page, hidden, alert,
              resolving, alerted,
                       unheard, blank, behind, overwrote>>
    BY <1>5 DEF Downloads!Claim
  <2>2. PICK to \in ScheduleCall : /\ to.kind = c.kind /\ to.id = c.id /\ to.then = c.then
                                      /\ to.page = c.page
                                   /\ calls' = (calls \ {c}) \cup {to}
    <3>1. CASE \E d \in calls : d.step = "claimed"
      BY <1>4, <1>5, <3>1 DEF Downloads!Claim, Downloads!Step
    <3>2. CASE ~(\E d \in calls : d.step = "claimed") /\ Downloads!Shown(stored).missed
      <4>1. calls' = (calls \ {c}) \cup {[c EXCEPT !.step = "claimed"]}
        BY <1>5, <3>2 DEF Downloads!Claim, Downloads!Step
      <4>2. LET to == [c EXCEPT !.step = "claimed"]
            IN to \in ScheduleCall /\ to.kind = c.kind /\ to.id = c.id /\ to.then = c.then
                /\ to.page = c.page
        BY <1>1 DEF ScheduleCall
      <4> QED
        BY <4>1, <4>2
    <3>3. CASE ~(\E d \in calls : d.step = "claimed") /\ ~Downloads!Shown(stored).missed
      BY <1>4, <1>5, <3>3 DEF Downloads!Claim, Downloads!Step
    <3> QED
      BY <3>1, <3>2, <3>3
  <2> QED
    BY <1>1, <1>3, <2>1, <2>2 DEF Agrees
<1>6. ASSUME NEW outcome \in {"settled", "unresolved", "busy", "error"},
             Downloads!Finish(c, outcome) PROVE ScheduleInv'
  <2> DEFINE answer == IF outcome = "settled" /\ ~stored.missed THEN "resolved" ELSE outcome
  <2>1. /\ c.kind \in Downloads!Actions
        /\ calls' = (calls \ {c}) \cup {[c EXCEPT !.step = "served", !.answer = answer]}
        /\ stored' = [stored EXCEPT !.missed = @ /\ outcome # "settled"] /\ events' \in Nat
        /\ UNCHANGED <<made, config, loaded, failed, saving, page, hidden, alert, resolving, alerted,
                       unheard, blank, behind, overwrote>>
    BY <1>1, <1>6 DEF Downloads!Finish, Downloads!Step, ScheduleInv, ScheduleTypes, WellMade
  <2>2. (stored.missed /\ outcome # "settled") \in BOOLEAN
    BY <1>1 DEF Downloads!Schedules
  <2>3. stored' \in Downloads!Schedules /\ Agrees(stored', stored)
    BY <1>1, <2>1, <2>2 DEF Downloads!Schedules, Agrees
  <2> QED
    BY <1>3, <1>4, <2>1, <2>3
<1> QED
  BY <1>2, <1>5, <1>6

LEMMA ScheduleElsewhere ==
  ASSUME ScheduleAssumptions, ScheduleInv, NEW settles \in BOOLEAN, Downloads!Elsewhere(settles)
         PROVE ScheduleInv'
<1>1. /\ made < ScheduleCalls /\ made' = made + 1 /\ events' = events + 1
            /\ stored' = [stored EXCEPT !.missed = @ /\ ~settles]
      /\ UNCHANGED <<calls, config, loaded, failed, saving, page, hidden, alert, resolving, alerted,
            unheard, blank, behind, overwrote>>
  BY DEF Downloads!Elsewhere, Downloads!panel, Downloads!notice, Downloads!past
<1>2. /\ made \in Nat /\ events \in Nat /\ stored \in Downloads!Schedules
            /\ (stored.missed /\ ~settles) \in BOOLEAN
      /\ \A c \in calls : c.id \in Nat /\ c.id <= made
  BY DEF ScheduleInv, ScheduleTypes, ScheduleCall, Downloads!Schedules
<1>3. stored' \in Downloads!Schedules /\ Agrees(stored', stored)
  BY <1>1, <1>2 DEF Downloads!Schedules, Agrees
<1>4. made' \in Nat /\ made' <= ScheduleCalls /\ events' \in Nat /\ \A c \in calls : c.id <= made'
  BY <1>1, <1>2 DEF ScheduleAssumptions
<1>5. ScheduleTypes'
  BY <1>1, <1>3, <1>4 DEF ScheduleInv, ScheduleTypes
<1>6. PanelKeepsUp(calls) => PanelKeepsUp(calls)'
  BY <1>1, <1>3 DEF PanelKeepsUp, Agrees
<1> QED
  BY <1>1, <1>5, <1>6 DEF ScheduleInv, SavesOneField

\* A save writes the field edited and finds the others as they are.
LEMMA ScheduleServeSave ==
  ASSUME ScheduleInv, NEW c \in calls, NEW ok \in BOOLEAN, Downloads!ServeSave(c, ok) PROVE ScheduleInv'
<1> DEFINE to == [c EXCEPT !.step = "served", !.answer = IF ok THEN "ok" ELSE "refused"]
<1>1. /\ c.kind = "save" /\ c.step = "sent" /\ calls' = (calls \ {c}) \cup {to}
      /\ stored' = IF ok THEN [stored EXCEPT !.enabled = c.value.enabled, !.time = c.value.time]
            ELSE stored
      /\ overwrote' = (overwrote \/ \E f \in Downloads!ScheduleFields \ {c.field} :
            stored'[f] # stored[f])
      /\ UNCHANGED <<events, made, config, loaded, failed, saving, page, hidden, alert, resolving,
            alerted,
                     unheard, blank, behind>>
  BY DEF Downloads!ServeSave, Downloads!Step, Downloads!panel, Downloads!notice
<1>2. c \in ScheduleCall /\ stored \in Downloads!Schedules /\ c.value \in Downloads!Schedules
          /\ events \in Nat
  BY DEF ScheduleInv, ScheduleTypes, ScheduleCall
<1>3. stored' \in Downloads!Schedules
  BY <1>1, <1>2 DEF Downloads!Schedules
<1>4. /\ to \in ScheduleCall /\ to.kind = "save" /\ to.id = c.id /\ to.then = c.then
            /\ to.page = c.page /\ to.step = "served"
      /\ to.answer = IF ok THEN "ok" ELSE "refused"
  BY <1>1, <1>2 DEF ScheduleCall
<1> HIDE DEF to
<1>5. overwrote' \in BOOLEAN
  BY <1>1 DEF ScheduleInv, ScheduleTypes
<1>6. ScheduleTypes'
  BY <1>1, <1>2, <1>3, <1>4, <1>5, ScheduleStep DEF ScheduleInv
<1>7. ASSUME ~behind PROVE ~overwrote' /\ PanelKeepsUp(calls)'
  <2>1. PanelKeepsUp(calls) /\ ~overwrote
    BY <1>7 DEF ScheduleInv, SavesOneField
  <2>2. /\ c.field # "enabled" => stored'.enabled = stored.enabled
        /\ c.field # "time" => stored'.time = stored.time
    BY <1>1, <1>2, <2>1 DEF PanelKeepsUp, Downloads!Schedules
  <2>3. \A f \in Downloads!ScheduleFields \ {c.field} : stored'[f] = stored[f]
    BY <2>2 DEF Downloads!ScheduleFields
  <2>4. \A x \in calls' : Saves(x) => x = to
    BY <1>1, <1>4, <2>1 DEF PanelKeepsUp, Saves
  <2>5. saving /\ (c.then = "none")
    BY <1>1, <2>1 DEF PanelKeepsUp, Saves, ScheduleInv, ScheduleTypes, WellMade
  <2>6. CASE ok
    <3>1. WasStored(to) /\ Unshown(to) /\ to \in calls'
      BY <1>1, <1>4, <2>6 DEF WasStored, Unshown
    <3>2. \A x \in calls' : x.kind = "save" => x.step # "sent"
      BY <1>4, <2>4 DEF Saves
    <3> QED
      BY <1>1, <2>1, <2>3, <2>4, <2>5, <3>1, <3>2 DEF PanelKeepsUp
  <2>7. CASE ~ok
    <3>1. stored' = stored /\ ~WasStored(to) /\ ~Brings(to) /\ ~Unshown(c) /\ ~WasStored(c)
              /\ to.step # "sent"
      BY <1>1, <1>4, <2>5, <2>7 DEF WasStored, Unshown, Brings
    <3>2. \A x \in calls : WasStored(x) \/ Unshown(x) => x \in calls'
      BY <1>1, <3>1
    <3> QED
      BY <1>1, <2>1, <2>3, <2>4, <2>5, <3>1, <3>2 DEF PanelKeepsUp
  <2> QED
    BY <2>6, <2>7
<1> QED
  BY <1>1, <1>6, <1>7 DEF ScheduleInv, SavesOneField, ScheduleTypes

LEMMA ScheduleGone ==
  ASSUME ScheduleTypes, NEW c \in calls, calls' = calls \ {c}, stored' = stored,
         config' \in Downloads!Schedules,
         events' \in Nat, loaded' \in BOOLEAN, failed' \in BOOLEAN, saving' \in BOOLEAN,
             hidden' \in BOOLEAN,
         alert' \in BOOLEAN, alerted' \in BOOLEAN, resolving' \in BOOLEAN, unheard' \in BOOLEAN,
             blank' \in BOOLEAN,
         behind' \in BOOLEAN, overwrote' \in BOOLEAN, failed' => loaded', UNCHANGED <<made, page>>
  PROVE  ScheduleTypes'
BY DEF ScheduleTypes

LEMMA ScheduleEvents ==
  ASSUME ScheduleInv, Downloads!EventHeard PROVE ScheduleInv'
<1>1. /\ events' = events - 1 /\ events > 0 /\ unheard' = ~loaded
      /\ UNCHANGED <<stored, made, config, loaded, failed, saving, page, hidden, alert, resolving,
            alerted, blank, behind, overwrote>>
      /\ \/ Downloads!ReadAgain("none", {})
         \/ UNCHANGED calls
  BY DEF Downloads!EventHeard, Downloads!panel, Downloads!notice
<1>2. events' \in Nat /\ unheard' \in BOOLEAN
  BY <1>1 DEF ScheduleInv, ScheduleTypes
<1>3. CASE UNCHANGED calls
  <2>1. ScheduleTypes'
    BY <1>1, <1>2, <1>3 DEF ScheduleInv, ScheduleTypes
  <2>2. PanelKeepsUp(calls) => PanelKeepsUp(calls)'
    BY <1>1, <1>3 DEF PanelKeepsUp
  <2> QED
    BY <1>1, <2>1, <2>2 DEF ScheduleInv, SavesOneField
<1>4. CASE Downloads!ReadAgain("none", {})
  <2>1. calls' \subseteq ScheduleCall /\ (\A c \in calls' : c.id <= made /\ c.page <= page)
            /\ \A c \in calls' : WellMade(c)
    BY <1>1, <1>4, ScheduleReadAgain DEF ScheduleInv
  <2>2. ScheduleTypes'
    BY <1>1, <1>2, <2>1 DEF ScheduleInv, ScheduleTypes
  <2>3. PanelKeepsUp(calls) => PanelKeepsUp(calls)'
    BY <1>1, <1>4, ScheduleReadForOthers DEF ScheduleInv
  <2> QED
    BY <1>1, <2>2, <2>3 DEF ScheduleInv, SavesOneField
<1> QED
  BY <1>1, <1>3, <1>4

\* A read's answer, live or not.  What it brings is stored; a save that waited for
\* another one has fallen behind.
LEMMA ScheduleReadArrives ==
  ASSUME ScheduleInv, NEW c \in calls, Downloads!Superseded(c) \/ Downloads!ScheduleArrives(c)
         PROVE ScheduleInv'
<1> USE DEF Downloads!store, Downloads!notice, Downloads!Settle, Downloads!Resumed
<1>1. /\ c.kind = "schedule" /\ calls' = calls \ {c}
      /\ saving' = (saving /\ ~(c.then = "save" /\ c.page = page))
            /\ resolving' = (resolving /\ c.then # "action")
      /\ behind' = (behind \/ (c.then = "save" /\ (~c.live \/ c.answer # "ok")))
      /\ UNCHANGED <<stored, events, made, page, alerted, unheard, overwrote>>
  BY DEF Downloads!Superseded, Downloads!ScheduleArrives
<1>2. \/ UNCHANGED <<config, loaded, failed, hidden, alert, blank>> /\ ~c.live
      \/ loaded' = TRUE /\ failed' = TRUE /\ UNCHANGED <<config, blank, hidden, alert>>
            /\ c.answer = "throws"
      \/ /\ loaded' = TRUE /\ config' = c.value /\ failed' = FALSE /\ blank' = (c.answer = "blank")
         /\ hidden' = (hidden /\ c.value.missed) /\ alert' = (alert /\ c.value.missed)
         /\ c.live /\ c.step = "served" /\ c.answer # "throws"
  BY DEF Downloads!Superseded, Downloads!ScheduleArrives
<1>3. c.value \in Downloads!Schedules /\ c.value.missed \in BOOLEAN
  BY DEF ScheduleInv, ScheduleTypes, ScheduleCall, Downloads!Schedules
<1>4. saving' \in BOOLEAN /\ resolving' \in BOOLEAN /\ behind' \in BOOLEAN
  BY <1>1 DEF ScheduleInv, ScheduleTypes
<1>5. hidden' \in BOOLEAN /\ alert' \in BOOLEAN /\ blank' \in BOOLEAN
  BY <1>2, <1>3 DEF ScheduleInv, ScheduleTypes
<1>6. loaded' \in BOOLEAN /\ failed' \in BOOLEAN /\ (failed' => loaded')
          /\ config' \in Downloads!Schedules
  <2>1. config \in Downloads!Schedules /\ loaded \in BOOLEAN /\ failed \in BOOLEAN /\ (failed => loaded)
    BY DEF ScheduleInv, ScheduleTypes
  <2>2. loaded' \in BOOLEAN /\ config' \in Downloads!Schedules
    BY <1>2, <1>3, <2>1
  <2>3. failed' \in BOOLEAN /\ (failed' => loaded')
    <3>1. CASE UNCHANGED <<config, loaded, failed, hidden, alert, blank>>
      BY <2>1, <3>1
    <3>2. CASE loaded' = TRUE /\ failed' = TRUE
      BY <3>2
    <3>3. CASE loaded' = TRUE /\ failed' = FALSE
      BY <3>3
    <3> QED
      BY <1>2, <3>1, <3>2, <3>3
  <2> QED
    BY <2>2, <2>3
<1>7. ScheduleTypes'
  <2>1. events' \in Nat /\ alerted' \in BOOLEAN /\ unheard' \in BOOLEAN /\ overwrote' \in BOOLEAN
    BY <1>1 DEF ScheduleInv, ScheduleTypes
  <2> QED
    BY <1>1, <1>4, <1>5, <1>6, <2>1, ScheduleGone DEF ScheduleInv
<1>8. ASSUME ~behind' PROVE PanelKeepsUp(calls)'
  <2>1. PanelKeepsUp(calls) /\ (c.then = "save" => c.live /\ c.answer = "ok")
    BY <1>1, <1>8 DEF ScheduleInv, SavesOneField, ScheduleTypes
  <2>2. \A x \in calls' : x \in calls /\ (Saves(x) => saving')
    BY <1>1, <2>1 DEF PanelKeepsUp, Saves
  <2>3. \A x \in calls : WasStored(x) => x \in calls'
    BY <1>1 DEF WasStored
  <2>4. (c.then = "save" \/ Brings(c)) /\ (\E d \in calls : WasStored(d)) => c.then # "save"
    BY <1>1, <2>1 DEF PanelKeepsUp, Saves, WasStored
  <2>5. loaded' /\ ~failed' /\ ~blank' => Agrees(config', stored) \/ \E d \in calls' : Unshown(d)
    <3>1. CASE UNCHANGED <<config, loaded, failed, hidden, alert, blank>> /\ ~c.live
      <4>1. ~Unshown(c)
        BY <1>1, <2>1, <3>1 DEF Unshown, WasStored
      <4> QED
        BY <1>1, <2>1, <3>1, <4>1 DEF PanelKeepsUp, Agrees
    <3>2. CASE config' = c.value /\ blank' = (c.answer = "blank") /\ c.live /\ c.step = "served"
               /\ c.answer # "throws"
      <4>1. ASSUME c.answer = "ok" PROVE Agrees(config', stored) \/ \E d \in calls' : Unshown(d)
        BY <1>1, <2>1, <2>3, <3>2, <4>1 DEF PanelKeepsUp, Brings, Agrees, Unshown
      <4>2. c.answer \in {"ok", "blank"}
        BY <1>1, <3>2 DEF ScheduleInv, ScheduleTypes, WellMade
      <4> QED
        BY <3>2, <4>1, <4>2
    <3> QED
      BY <1>2, <3>1, <3>2
  <2> QED
    BY <1>1, <2>1, <2>2, <2>3, <2>5 DEF PanelKeepsUp, Agrees
<1> QED
  BY <1>1, <1>7, <1>8 DEF ScheduleInv, SavesOneField, ScheduleTypes

\* A save that was stored reads the schedule again, and the panel waits for it.
LEMMA ScheduleSaveAnswered ==
  ASSUME ScheduleInv, NEW c \in calls, Downloads!SaveAnswered(c) PROVE ScheduleInv'
<1>1. /\ c.kind = "save" /\ c.step = "served"
      /\ UNCHANGED <<stored, events, made, config, loaded, failed, page, hidden, alert, resolving,
            alerted, unheard, blank,
                     behind, overwrote>>
      /\ \/ c.answer = "ok" /\ Downloads!ReadAgain("save", {c}) /\ UNCHANGED saving
         \/ c.answer # "ok" /\ calls' = calls \ {c} /\ saving' = (saving /\ c.page # page)
  BY DEF Downloads!SaveAnswered, Downloads!store, Downloads!notice, Downloads!past
<1>2. CASE c.answer # "ok" /\ calls' = calls \ {c} /\ saving' = (saving /\ c.page # page)
  <2>1. saving' \in BOOLEAN
    BY <1>2 DEF ScheduleInv, ScheduleTypes
  <2>2. ScheduleTypes'
    BY <1>1, <1>2, <2>1 DEF ScheduleInv, ScheduleTypes
  <2>3. ASSUME PanelKeepsUp(calls) PROVE PanelKeepsUp(calls)'
    <3>1. \A x \in calls' : ~Saves(x) /\ x \in calls
      BY <1>1, <1>2, <2>3 DEF PanelKeepsUp, Saves
    <3>2. ~WasStored(c) /\ ~Unshown(c)
      BY <1>1, <1>2 DEF WasStored, Unshown, ScheduleInv, ScheduleTypes, WellMade
    <3>3. \A x \in calls : WasStored(x) \/ Unshown(x) => x \in calls'
      BY <1>2, <3>2
    <3> QED
      BY <1>1, <2>3, <3>1, <3>3 DEF PanelKeepsUp, Agrees, Saves
  <2> QED
    BY <1>1, <2>2, <2>3 DEF ScheduleInv, SavesOneField
<1>3. CASE c.answer = "ok" /\ Downloads!ReadAgain("save", {c}) /\ UNCHANGED saving
  <2>1. /\ calls' \subseteq ScheduleCall /\ (\A x \in calls' : x.id <= made /\ x.page <= page)
              /\ (\A x \in calls' : WellMade(x))
    BY <1>1, <1>3, ScheduleReadAgain DEF ScheduleInv
  <2>2. ScheduleTypes'
    BY <1>1, <1>3, <2>1 DEF ScheduleInv, ScheduleTypes
  <2>3. ASSUME PanelKeepsUp(calls) PROVE PanelKeepsUp(calls)'
    <3>1. PICK n \in calls' :
            /\ n.kind = "schedule" /\ n.then = "save" /\ n.step = "sent"
            /\ \A x \in calls' : \/ x = n
                                 \/ x \in calls \ {c} /\ x.kind # "schedule"
                                 \/ \E d \in calls : d.kind = "schedule" /\ d.then # "none"
                                       /\ x = Dropped(d)
      BY <1>1, <1>3, ScheduleReadAgain DEF ScheduleInv
    <3>2. saving /\ \A x \in calls : Saves(x) => x = c
      BY <1>1, <2>3 DEF PanelKeepsUp, Saves
    <3>3. \A x \in calls' : Saves(x) => x = n
      BY <1>1, <3>1, <3>2, ScheduleDropped DEF Saves, ScheduleInv
    <3>4. \A x \in calls' : ~Brings(x) /\ x.kind # "save"
      BY <3>1, <3>3, ScheduleDropped DEF Brings, Saves, ScheduleInv
    <3>5. Unshown(n)
      BY <3>1 DEF Unshown
    <3> QED
      BY <1>1, <1>3, <3>2, <3>3, <3>4, <3>5 DEF PanelKeepsUp
  <2> QED
    BY <1>1, <2>2, <2>3 DEF ScheduleInv, SavesOneField
<1> QED
  BY <1>1, <1>2, <1>3

LEMMA ScheduleActionAnswered ==
  ASSUME ScheduleInv, NEW c \in calls, Downloads!ActionAnswered(c) PROVE ScheduleInv'
<1>1. /\ c.kind \in Downloads!Actions /\ c.step = "served"
      /\ UNCHANGED <<stored, events, made, config, loaded, failed, saving, page, unheard, blank,
            behind, overwrote>>
      /\ hidden' = (hidden /\ (c.kind = "ignore" \/ c.answer = "settled") /\ config.missed)
      /\ alert' = (c.answer # "settled" /\ (alert \/ (c.answer = "unresolved" /\ ~alerted))
            /\ config.missed)
      /\ alerted' = (alerted \/ c.answer = "unresolved")
      /\ \/ Downloads!ReadAgain("action", {c}) /\ UNCHANGED resolving
         \/ calls' = calls \ {c} /\ resolving' = FALSE
  BY DEF Downloads!ActionAnswered, Downloads!store, Downloads!panel, Downloads!past,
    Downloads!Settle
<1>2. hidden' \in BOOLEAN /\ alert' \in BOOLEAN /\ alerted' \in BOOLEAN /\ resolving' \in BOOLEAN
  BY <1>1 DEF ScheduleInv, ScheduleTypes
<1>3. CASE calls' = calls \ {c}
  <2>1. ScheduleTypes'
    BY <1>1, <1>2, <1>3 DEF ScheduleInv, ScheduleTypes
  <2>2. ~WasStored(c) /\ ~Unshown(c)
    BY <1>1 DEF WasStored, Unshown, ScheduleInv, ScheduleTypes, WellMade, Downloads!Actions
  <2>3. PanelKeepsUp(calls) => PanelKeepsUp(calls)'
    BY <1>1, <1>3, <2>2 DEF PanelKeepsUp
  <2> QED
    BY <1>1, <2>1, <2>3 DEF ScheduleInv, SavesOneField
<1>4. CASE Downloads!ReadAgain("action", {c})
  <2>1. /\ calls' \subseteq ScheduleCall /\ (\A x \in calls' : x.id <= made /\ x.page <= page)
              /\ (\A x \in calls' : WellMade(x))
    BY <1>1, <1>4, ScheduleReadAgain DEF ScheduleInv
  <2>2. ScheduleTypes'
    BY <1>1, <1>2, <2>1 DEF ScheduleInv, ScheduleTypes
  <2>3. PanelKeepsUp(calls) => PanelKeepsUp(calls)'
    BY <1>1, <1>4, ScheduleReadForOthers DEF ScheduleInv
  <2> QED
    BY <1>1, <2>2, <2>3 DEF ScheduleInv, SavesOneField
<1> QED
  BY <1>1, <1>3, <1>4

LEMMA ScheduleStepKeepsInv ==
  ASSUME ScheduleAssumptions, ScheduleInv, Downloads!Next \/ UNCHANGED Downloads!vars PROVE ScheduleInv'
<1>1. ASSUME UNCHANGED Downloads!vars PROVE ScheduleInv'
  BY <1>1 DEF Downloads!vars, Downloads!store, Downloads!panel, Downloads!notice, Downloads!past,
    ScheduleInv, ScheduleTypes,
    SavesOneField, PanelKeepsUp, Agrees
<1> QED
  BY <1>1, ScheduleSave, ScheduleButtons, ScheduleElsewhere, ScheduleBackend, ScheduleServeSave,
    ScheduleEvents,
    ScheduleReadArrives, ScheduleSaveAnswered, ScheduleActionAnswered DEF Downloads!Next

LEMMA SchedulePromises == ScheduleInv => Downloads!TypeOK /\ Downloads!EditsSurvive
BY DEF ScheduleInv, ScheduleTypes, SavesOneField, ScheduleCall, Downloads!TypeOK,
  Downloads!EditsSurvive

\* A read whose answer is applied; whether every event was heard.
AppliedRead(c) == c.kind = "schedule" /\ c.live
ScheduleHeard == ~unheard /\ events = 0

\* What the live read brings is the stored schedule, unless a save was stored since;
\* without one, what is shown is.
ShowsStored ==
  ScheduleHeard /\ (\A c \in calls : ~WasStored(c)) =>
    /\ \A c \in calls : Brings(c) => c.value = Downloads!Shown(stored)
    /\ (\A c \in calls : ~AppliedRead(c)) /\ ~blank /\ ~failed => config = Downloads!Shown(stored)
\* The notice is hidden by a Run now under way, or the day is settled.
HidesSettled ==
  /\ hidden => ~stored.missed \/ \E c \in calls : c.kind = "runNow"
  /\ \A c \in calls : c.kind = "runNow" /\ c.step = "served" /\ c.answer = "settled" => ~stored.missed
\* Of a settled day no read brings a notice, and without one there is no alert.
AlertsPending ==
  ScheduleHeard /\ ~stored.missed =>
    /\ \A c \in calls : AppliedRead(c) /\ c.step = "served" => ~c.value.missed
    /\ (\A c \in calls : ~AppliedRead(c)) /\ ~failed => ~alert
ScheduleWhole == ScheduleInv /\ ShowsStored /\ HidesSettled /\ AlertsPending

LEMMA ScheduleWholeInit ==
  ASSUME ScheduleAssumptions, Downloads!Init PROVE ScheduleWhole
<1>1. PICK n : n = [kind |-> "schedule", id |-> 0, then |-> "none", value |-> Downloads!Blank,
          field |-> "none",
                    live |-> TRUE, page |-> 1, step |-> "sent", answer |-> "none"]
  OBVIOUS
<1>2. n.kind = "schedule" /\ n.step = "sent" /\ n.live
  BY <1>1
<1>3. calls = {n} /\ hidden = FALSE
  BY <1>1 DEF Downloads!Init
<1> QED
  BY <1>2, <1>3, ScheduleInit DEF ScheduleWhole, ShowsStored, HidesSettled, AlertsPending, Brings,
    AppliedRead, Downloads!Actions

\* Reading again drops what other reads would bring, and leaves the writes.
LEMMA ScheduleReadsAfresh ==
  ASSUME ScheduleTypes, NEW then, NEW gone \in SUBSET calls, Downloads!ReadAgain(then, gone)
  PROVE  /\ \E c \in calls' : AppliedRead(c)
         /\ \A c \in calls' : AppliedRead(c) => c.step = "sent"
         /\ \A c \in calls' : c.kind # "schedule" => c \in calls
         /\ \A c \in calls \ gone : c.kind # "schedule" => c \in calls'
<1>1. PICK old : old = {c \in calls : c.kind = "schedule"}
  OBVIOUS
<1>2. PICK n, id : n = Downloads!Call("schedule", id, then, Downloads!Blank)
                   /\ calls' = (calls \ (gone \cup old)) \cup {n}
                         \cup {Dropped(c) : c \in {d \in old : d.then # "none"}}
  BY <1>1 DEF Downloads!ReadAgain, Dropped
<1>3. n.kind = "schedule" /\ n.step = "sent" /\ n.live
  BY <1>2 DEF Downloads!Call
<1>4. \A c \in old : Dropped(c).kind = "schedule" /\ ~Dropped(c).live
  BY <1>1, ScheduleDropped
<1> QED
  BY <1>1, <1>2, <1>3, <1>4 DEF AppliedRead

\* A step after which a read is on its way.
LEMMA ScheduleAsksAgain ==
  ASSUME ScheduleTypes, NEW then, NEW gone \in SUBSET calls, Downloads!ReadAgain(then, gone)
  PROVE  ShowsStored' /\ AlertsPending'
BY ScheduleReadsAfresh DEF ShowsStored, AlertsPending, Brings, AppliedRead

\* A step the reads and what they may bring are not touched by.
LEMMA ScheduleLeavesReads ==
  ASSUME ShowsStored, AlertsPending, UNCHANGED <<stored, config, blank, failed, unheard>>,
         events' = 0 => events = 0, alert' => alert,
         \A c \in calls : AppliedRead(c) => c \in calls', \A c \in calls' : AppliedRead(c)
             => c \in calls,
         \A c \in calls : WasStored(c) => c \in calls'
  PROVE  ShowsStored' /\ AlertsPending'
<1>1. ScheduleHeard' => ScheduleHeard
  BY DEF ScheduleHeard
<1>2. \A c : Brings(c) => AppliedRead(c)
  BY DEF Brings, AppliedRead
<1>3. ShowsStored'
  BY <1>1, <1>2 DEF ShowsStored
<1>4. AlertsPending'
  BY <1>1 DEF AlertsPending
<1> QED
  BY <1>3, <1>4

\* A step that hides nothing and ends no Run now.
LEMMA ScheduleHidesNothing ==
  ASSUME HidesSettled, hidden' => hidden, stored'.missed => stored.missed,
         \A c \in calls : c.kind = "runNow" => \E d \in calls' : d.kind = "runNow",
         \A d \in calls' : d.kind = "runNow" /\ d.step = "served" /\ d.answer = "settled"
             => d \in calls \/ ~stored'.missed
  PROVE  HidesSettled'
BY DEF HidesSettled

LEMMA ScheduleUserWhole ==
  ASSUME ScheduleWhole,
         Downloads!Reenter \/ Downloads!RunNow \/ Downloads!Ignore
             \/ \E f \in Downloads!ScheduleFields : Downloads!Save(f)
  PROVE  ShowsStored' /\ HidesSettled' /\ AlertsPending'
<1> USE DEF Downloads!store, Downloads!panel, Downloads!past, Downloads!notice
<1>1. UNCHANGED <<stored, events, config, loaded, failed, alert, unheard, blank>>
  BY DEF Downloads!Reenter, Downloads!RunNow, Downloads!Ignore, Downloads!Save
<1>2. CASE Downloads!Reenter
  <2>1. calls' = calls /\ hidden' = hidden
    BY <1>2 DEF Downloads!Reenter
  <2>2. ShowsStored' /\ AlertsPending'
    BY <1>1, <2>1, ScheduleLeavesReads DEF ScheduleWhole
  <2>3. HidesSettled'
    BY <1>1, <2>1 DEF ScheduleWhole, HidesSettled
  <2> QED
    BY <2>2, <2>3
<1>3. ASSUME NEW n, n.kind # "schedule", n.step = "sent", calls' = calls \cup {n}, hidden'
             => hidden \/ n.kind = "runNow"
      PROVE  ShowsStored' /\ HidesSettled' /\ AlertsPending'
  <2>1. ~AppliedRead(n)
    BY <1>3 DEF AppliedRead
  <2>2. ShowsStored' /\ AlertsPending'
    BY <1>1, <1>3, <2>1, ScheduleLeavesReads DEF ScheduleWhole
  <2>3. HidesSettled'
    BY <1>1, <1>3 DEF ScheduleWhole, HidesSettled
  <2> QED
    BY <2>2, <2>3
<1>4. \A kind, id, then, value : LET c == Downloads!Call(kind, id, then, value) IN c.kind = kind
          /\ c.step = "sent"
  BY DEF Downloads!Call
<1>5. CASE Downloads!RunNow
  BY <1>3, <1>4, <1>5 DEF Downloads!RunNow, Downloads!Send
<1>6. CASE Downloads!Ignore
  BY <1>3, <1>4, <1>6 DEF Downloads!Ignore, Downloads!Send
<1>7. ASSUME NEW f \in Downloads!ScheduleFields, Downloads!Save(f)
             PROVE ShowsStored' /\ HidesSettled' /\ AlertsPending'
  <2>1. PICK v : calls' = calls \cup {[Downloads!Call("save", made + 1, "none", v) EXCEPT !.field = f]}
    BY <1>7 DEF Downloads!Save, Downloads!Send
  <2>2. PICK n : n = [Downloads!Call("save", made + 1, "none", v) EXCEPT !.field = f]
    OBVIOUS
  <2>3. n.kind = "save" /\ n.step = "sent"
    BY <2>2 DEF Downloads!Call
  <2>4. hidden' = hidden
    BY <1>7 DEF Downloads!Save
  <2> QED
    BY <1>3, <2>1, <2>2, <2>3, <2>4
<1> QED
  BY <1>2, <1>5, <1>6, <1>7

LEMMA ScheduleElsewhereWhole ==
  ASSUME ScheduleWhole, NEW settles \in BOOLEAN, Downloads!Elsewhere(settles)
  PROVE  ShowsStored' /\ HidesSettled' /\ AlertsPending'
<1>1. events' = events + 1 /\ events \in Nat /\ UNCHANGED <<calls, hidden>>
  BY DEF Downloads!Elsewhere, Downloads!notice, ScheduleWhole, ScheduleInv, ScheduleTypes
<1>2. stored'.missed => stored.missed
  BY DEF Downloads!Elsewhere, ScheduleWhole, ScheduleInv, ScheduleTypes, Downloads!Schedules
<1>3. ~ScheduleHeard'
  BY <1>1 DEF ScheduleHeard
<1> QED
  BY <1>1, <1>2, <1>3, ScheduleHidesNothing DEF ScheduleWhole, ShowsStored, AlertsPending

LEMMA ScheduleServedWhole ==
  ASSUME ScheduleWhole, NEW c \in calls, NEW answer \in {"ok", "throws", "blank"},
         Downloads!ServeRead(c, answer)
  PROVE  ShowsStored' /\ HidesSettled' /\ AlertsPending'
<1>1. PICK v : v = IF answer = "ok" THEN Downloads!Shown(stored) ELSE Downloads!Blank
  OBVIOUS
<1>2. PICK to : to = [c EXCEPT !.step = "served", !.answer = answer, !.value = v]
  OBVIOUS
<1>3. /\ c.kind = "schedule" /\ c.live /\ calls' = (calls \ {c}) \cup {to}
      /\ UNCHANGED <<stored, events, config, failed, hidden, alert, unheard, blank>>
  BY <1>1, <1>2 DEF Downloads!ServeRead, Downloads!Step, Downloads!store, Downloads!notice,
    Downloads!past
<1>4. to.kind = "schedule" /\ to.live /\ to.value = v /\ to.answer = answer
  BY <1>2, <1>3 DEF ScheduleWhole, ScheduleInv, ScheduleTypes, ScheduleCall
<1>5. ~stored.missed => ~v.missed
  BY <1>1 DEF Downloads!Shown, Downloads!Blank, ScheduleWhole, ScheduleInv, ScheduleTypes,
    Downloads!Schedules
<1>6. ShowsStored'
  BY <1>1, <1>3, <1>4 DEF ScheduleWhole, ShowsStored, ScheduleHeard, WasStored, Brings, AppliedRead
<1>7. AlertsPending'
  BY <1>3, <1>4, <1>5 DEF ScheduleWhole, AlertsPending, ScheduleHeard, AppliedRead
<1>8. HidesSettled'
  BY <1>3, <1>4, ScheduleHidesNothing DEF ScheduleWhole
<1> QED
  BY <1>6, <1>7, <1>8

LEMMA ScheduleStoredWhole ==
  ASSUME ScheduleWhole, NEW c \in calls, NEW ok \in BOOLEAN, Downloads!ServeSave(c, ok)
  PROVE  ShowsStored' /\ HidesSettled' /\ AlertsPending'
<1>1. PICK to : to = [c EXCEPT !.step = "served", !.answer = IF ok THEN "ok" ELSE "refused"]
  OBVIOUS
<1>2. /\ c.kind = "save" /\ c.step = "sent" /\ calls' = (calls \ {c}) \cup {to}
      /\ UNCHANGED <<events, config, failed, hidden, alert, unheard, blank>>
  BY <1>1 DEF Downloads!ServeSave, Downloads!Step, Downloads!notice
<1>3. to.kind = "save" /\ (ok => WasStored(to)) /\ ~WasStored(c) /\ ~AppliedRead(to) /\ ~AppliedRead(c)
  BY <1>1, <1>2 DEF WasStored, AppliedRead, ScheduleWhole, ScheduleInv, ScheduleTypes, ScheduleCall
<1>4. stored'.missed = stored.missed
  BY DEF Downloads!ServeSave, ScheduleWhole, ScheduleInv, ScheduleTypes, Downloads!Schedules
<1>5. HidesSettled'
  BY <1>2, <1>3, <1>4, ScheduleHidesNothing DEF ScheduleWhole
<1>6. CASE ~ok
  <2>1. stored' = stored
    BY <1>6 DEF Downloads!ServeSave
  <2> QED
    BY <1>2, <1>3, <1>5, <2>1, ScheduleLeavesReads DEF ScheduleWhole
<1>7. CASE ok
  <2>1. ShowsStored'
    BY <1>2, <1>3, <1>7 DEF ShowsStored
  <2>2. AlertsPending'
    BY <1>2, <1>3, <1>4 DEF ScheduleWhole, AlertsPending, ScheduleHeard
  <2> QED
    BY <1>5, <2>1, <2>2
<1> QED
  BY <1>6, <1>7

\* An action on the day goes on; only Finish may settle it.
LEMMA ScheduleActsWhole ==
  ASSUME ScheduleWhole, NEW c \in calls,
         Downloads!Claim(c) \/ \E outcome \in {"settled", "unresolved", "busy", "error"} :
             Downloads!Finish(c, outcome)
  PROVE  ShowsStored' /\ HidesSettled' /\ AlertsPending'
<1> USE DEF Downloads!store, Downloads!panel, Downloads!past, Downloads!notice
<1>1. c \in ScheduleCall /\ stored \in Downloads!Schedules /\ events \in Nat /\ WellMade(c)
  BY DEF ScheduleWhole, ScheduleInv, ScheduleTypes
<1>2. UNCHANGED <<config, failed, hidden, alert, unheard, blank>> /\ c.kind \in Downloads!Actions
  BY <1>1 DEF Downloads!Claim, Downloads!Finish, WellMade
<1>3. ASSUME NEW to, to.kind = c.kind, calls' = (calls \ {c}) \cup {to}, to.step = "served"
             /\ to.answer = "settled" => ~stored'.missed,
             events' = 0 => events = 0 /\ stored' = stored, stored'.missed => stored.missed
      PROVE  ShowsStored' /\ HidesSettled' /\ AlertsPending'
  <2>1. ~AppliedRead(to) /\ ~AppliedRead(c) /\ ~WasStored(c)
    BY <1>2, <1>3 DEF AppliedRead, WasStored, Downloads!Actions
  <2>2. HidesSettled'
    BY <1>2, <1>3, ScheduleHidesNothing DEF ScheduleWhole
  <2>3. CASE events' = 0
    BY <1>2, <1>3, <2>1, <2>2, <2>3, ScheduleLeavesReads DEF ScheduleWhole
  <2>4. CASE events' # 0
    BY <2>2, <2>4 DEF ShowsStored, AlertsPending, ScheduleHeard
  <2> QED
    BY <2>3, <2>4
<1>4. \A step, answer : LET to == [c EXCEPT !.step = step, !.answer = answer] IN to.kind = c.kind
          /\ to.answer = answer
  BY <1>1 DEF ScheduleCall
<1>5. CASE Downloads!Claim(c)
  <2>1. UNCHANGED <<stored, events>>
    BY <1>5 DEF Downloads!Claim
  <2>2. CASE \E d \in calls : d.step = "claimed"
    <3>1. PICK to : to = [c EXCEPT !.step = "served", !.answer = "busy"]
      OBVIOUS
    <3>2. to.kind = c.kind /\ to.answer = "busy"
      BY <1>4, <3>1
    <3>3. calls' = (calls \ {c}) \cup {to}
      BY <1>5, <2>2, <3>1 DEF Downloads!Claim, Downloads!Step
    <3> QED
      BY <1>3, <2>1, <3>2, <3>3
  <2>3. CASE ~(\E d \in calls : d.step = "claimed") /\ Downloads!Shown(stored).missed
    <3>1. PICK to : to = [c EXCEPT !.step = "claimed"]
      OBVIOUS
    <3>2. to.kind = c.kind /\ to.step = "claimed"
      BY <1>1, <3>1 DEF ScheduleCall
    <3>3. calls' = (calls \ {c}) \cup {to}
      BY <1>5, <2>3, <3>1 DEF Downloads!Claim, Downloads!Step
    <3> QED
      BY <1>3, <2>1, <3>2, <3>3
  <2>4. CASE ~(\E d \in calls : d.step = "claimed") /\ ~Downloads!Shown(stored).missed
    <3>1. PICK to : to = [c EXCEPT !.step = "served", !.answer = "resolved"]
      OBVIOUS
    <3>2. to.kind = c.kind /\ to.answer = "resolved"
      BY <1>4, <3>1
    <3>3. calls' = (calls \ {c}) \cup {to}
      BY <1>5, <2>4, <3>1 DEF Downloads!Claim, Downloads!Step
    <3> QED
      BY <1>3, <2>1, <3>2, <3>3
  <2> QED
    BY <2>2, <2>3, <2>4
<1>6. ASSUME NEW outcome \in {"settled", "unresolved", "busy", "error"}, Downloads!Finish(c, outcome)
      PROVE  ShowsStored' /\ HidesSettled' /\ AlertsPending'
  <2>1. PICK answer : answer = IF outcome = "settled" /\ ~stored.missed THEN "resolved" ELSE outcome
    OBVIOUS
  <2>2. /\ calls' = (calls \ {c}) \cup {[c EXCEPT !.step = "served", !.answer = answer]}
        /\ events' = events + (IF (c.kind = "runNow" /\ outcome # "busy")
              \/ answer = "settled" THEN 1 ELSE 0)
        /\ stored' = [stored EXCEPT !.missed = @ /\ outcome # "settled"]
    BY <1>6, <2>1 DEF Downloads!Finish, Downloads!Step
  <2>3. (stored'.missed <=> stored.missed /\ outcome # "settled")
            /\ stored'.enabled = stored.enabled /\ stored'.time = stored.time
        /\ stored' \in Downloads!Schedules
    <3>1. PICK b \in BOOLEAN : b <=> stored.missed /\ outcome # "settled"
      BY <1>1 DEF Downloads!Schedules
    <3>2. b = (stored.missed /\ outcome # "settled")
      BY <1>1, <3>1 DEF Downloads!Schedules
    <3>3. stored' = [stored EXCEPT !.missed = b]
      BY <2>2, <3>2
    <3> QED
      BY <1>1, <3>1, <3>3 DEF Downloads!Schedules
  <2>4. answer = "settled" => outcome = "settled" /\ events' # 0
    BY <1>1, <2>1, <2>2
  <2>5. events' = 0 => events = 0 /\ answer # "settled"
    BY <1>1, <2>2
  <2>6. answer # "settled" => stored' = stored
    BY <1>1, <2>1, <2>3 DEF Downloads!Schedules
  <2>7. PICK to : to = [c EXCEPT !.step = "served", !.answer = answer]
    OBVIOUS
  <2>8. to.kind = c.kind /\ to.answer = answer
    BY <1>4, <2>7
  <2>9. calls' = (calls \ {c}) \cup {to}
    BY <2>2, <2>7
  <2> QED
    BY <1>3, <2>3, <2>4, <2>5, <2>6, <2>8, <2>9
<1> QED
  BY <1>5, <1>6

LEMMA ScheduleHearsWhole ==
  ASSUME ScheduleWhole, Downloads!EventHeard \/ \E c \in calls : Downloads!Superseded(c)
  PROVE  ShowsStored' /\ HidesSettled' /\ AlertsPending'
<1> USE DEF Downloads!store, Downloads!panel, Downloads!past, Downloads!notice
<1>1. CASE Downloads!EventHeard
  <2>1. UNCHANGED <<stored, hidden>> /\ (unheard' <=> ~loaded) /\ loaded \in BOOLEAN
    BY <1>1 DEF Downloads!EventHeard, ScheduleWhole, ScheduleInv, ScheduleTypes
  <2>2. CASE loaded
    <3>1. Downloads!ReadAgain("none", {})
      BY <1>1, <2>2 DEF Downloads!EventHeard
    <3>2. ScheduleTypes /\ {} \in SUBSET calls
      BY DEF ScheduleWhole, ScheduleInv
    <3>3. ShowsStored' /\ AlertsPending'
      BY <3>1, <3>2, ScheduleAsksAgain
    <3>4. HidesSettled'
      BY <2>1, <3>1, <3>2, ScheduleReadsAfresh, ScheduleHidesNothing DEF ScheduleWhole
    <3> QED
      BY <3>3, <3>4
  <2>3. CASE ~loaded
    <3>1. calls' = calls
      BY <1>1, <2>3 DEF Downloads!EventHeard
    <3> QED
      BY <2>1, <2>3, <3>1 DEF ScheduleWhole, ShowsStored, HidesSettled, AlertsPending, ScheduleHeard
  <2> QED
    BY <2>2, <2>3
<1>2. ASSUME NEW c \in calls, Downloads!Superseded(c)
             PROVE ShowsStored' /\ HidesSettled' /\ AlertsPending'
  <2>1. /\ c.kind = "schedule" /\ ~c.live /\ calls' = calls \ {c}
        /\ UNCHANGED <<stored, events, config, failed, hidden, alert, unheard, blank>>
    BY <1>2 DEF Downloads!Superseded
  <2>2. ShowsStored' /\ AlertsPending'
    BY <2>1, ScheduleLeavesReads DEF ScheduleWhole, AppliedRead, WasStored
  <2>3. HidesSettled'
    BY <2>1, ScheduleHidesNothing DEF ScheduleWhole
  <2> QED
    BY <2>2, <2>3
<1> QED
  BY <1>1, <1>2

LEMMA ScheduleArrivesWhole ==
  ASSUME ScheduleWhole, NEW c \in calls, Downloads!ScheduleArrives(c)
  PROVE  ShowsStored' /\ HidesSettled' /\ AlertsPending'
<1>1. /\ c.kind = "schedule" /\ c.step = "served" /\ c.live /\ calls' = calls \ {c}
            /\ UNCHANGED <<stored, events, unheard>>
      /\ c.answer \in {"ok", "throws", "blank"}
  BY DEF Downloads!ScheduleArrives, Downloads!store, ScheduleWhole, ScheduleInv, ScheduleTypes,
    WellMade
<1>2. \/ c.answer = "throws" /\ failed' = TRUE /\ hidden' = hidden
      \/ /\ c.answer # "throws" /\ config' = c.value /\ (blank' <=> c.answer = "blank")
         /\ (hidden' => hidden) /\ (alert' => alert /\ c.value.missed)
  BY DEF Downloads!ScheduleArrives, Downloads!Settle
<1>3. HidesSettled'
  BY <1>1, <1>2, ScheduleHidesNothing DEF ScheduleWhole
<1>4. ShowsStored'
  BY <1>1, <1>2 DEF ScheduleWhole, ShowsStored, ScheduleHeard, WasStored, Brings
<1>5. AlertsPending'
  BY <1>1, <1>2 DEF ScheduleWhole, AlertsPending, ScheduleHeard, AppliedRead
<1> QED
  BY <1>3, <1>4, <1>5

LEMMA ScheduleSavedWhole ==
  ASSUME ScheduleWhole, NEW c \in calls, Downloads!SaveAnswered(c)
  PROVE  ShowsStored' /\ HidesSettled' /\ AlertsPending'
<1>1. /\ c.kind = "save" /\ c.step = "served" /\ UNCHANGED <<stored, events, config, failed, hidden,
            alert, unheard, blank>>
      /\ \/ Downloads!ReadAgain("save", {c})
         \/ c.answer # "ok" /\ calls' = calls \ {c}
  BY DEF Downloads!SaveAnswered, Downloads!store, Downloads!notice, Downloads!past
<1>2. ScheduleTypes /\ {c} \in SUBSET calls
  BY DEF ScheduleWhole, ScheduleInv
<1>3. CASE Downloads!ReadAgain("save", {c})
  <2>1. HidesSettled'
    BY <1>1, <1>2, <1>3, ScheduleReadsAfresh, ScheduleHidesNothing DEF ScheduleWhole
  <2> QED
    BY <1>2, <1>3, <2>1, ScheduleAsksAgain
<1>4. CASE c.answer # "ok" /\ calls' = calls \ {c}
  <2>1. HidesSettled'
    BY <1>1, <1>4, ScheduleHidesNothing DEF ScheduleWhole
  <2>2. ShowsStored' /\ AlertsPending'
    BY <1>1, <1>4, ScheduleLeavesReads DEF ScheduleWhole, AppliedRead, WasStored
  <2> QED
    BY <2>1, <2>2
<1> QED
  BY <1>1, <1>3, <1>4

\* An answer to Run now hides the notice only if it settled the day.
LEMMA ScheduleActedWhole ==
  ASSUME ScheduleWhole, NEW c \in calls, Downloads!ActionAnswered(c)
  PROVE  ShowsStored' /\ HidesSettled' /\ AlertsPending'
<1>1. /\ c.kind \in {"runNow", "ignore"} /\ c.step = "served"
      /\ UNCHANGED <<stored, events, config, failed, unheard, blank>>
      /\ hidden' = (hidden /\ (c.kind = "ignore" \/ c.answer = "settled") /\ config.missed)
      /\ alert' = (c.answer # "settled" /\ (alert \/ (c.answer = "unresolved" /\ ~alerted))
            /\ config.missed)
      /\ \/ Downloads!ReadAgain("action", {c})
         \/ c.answer \notin {"settled", "unresolved", "resolved"} /\ calls' = calls \ {c}
  BY DEF Downloads!ActionAnswered, Downloads!store, Downloads!panel, Downloads!past,
    Downloads!Settle, Downloads!Actions
<1>2. ScheduleTypes /\ {c} \in SUBSET calls
  BY DEF ScheduleWhole, ScheduleInv
<1>3. /\ \A x \in calls \ {c} : x.kind # "schedule" => x \in calls'
      /\ \A x \in calls' : x.kind # "schedule" => x \in calls
  BY <1>1, <1>2, ScheduleReadsAfresh
<1>4. HidesSettled'
  <2>1. HidesSettled
    BY DEF ScheduleWhole
  <2>2. \A x \in calls' : x.kind = "runNow" /\ x.step = "served" /\ x.answer = "settled"
            => ~stored'.missed
    BY <1>1, <1>3, <2>1 DEF HidesSettled
  <2>3. CASE c.kind = "ignore"
    BY <1>1, <1>3, <2>1, <2>2, <2>3 DEF HidesSettled
  <2>4. CASE c.kind = "runNow"
    BY <1>1, <2>1, <2>2, <2>4 DEF HidesSettled
  <2> QED
    BY <1>1, <2>3, <2>4
<1>5. CASE Downloads!ReadAgain("action", {c})
  BY <1>2, <1>4, <1>5, ScheduleAsksAgain
<1>6. CASE c.answer \notin {"settled", "unresolved", "resolved"} /\ calls' = calls \ {c}
  <2>1. ShowsStored' /\ AlertsPending'
    BY <1>1, <1>6, ScheduleLeavesReads DEF ScheduleWhole, AppliedRead, WasStored
  <2> QED
    BY <1>4, <2>1
<1> QED
  BY <1>1, <1>5, <1>6

LEMMA ScheduleStepKeepsWhole ==
  ASSUME ScheduleAssumptions, ScheduleWhole, Downloads!Next \/ UNCHANGED Downloads!vars
         PROVE ScheduleWhole'
<1>1. ScheduleInv'
  BY ScheduleStepKeepsInv DEF ScheduleWhole
<1>2. ASSUME UNCHANGED Downloads!vars PROVE ShowsStored' /\ HidesSettled' /\ AlertsPending'
  BY <1>2 DEF Downloads!vars, Downloads!store, Downloads!panel, Downloads!notice, Downloads!past,
    ScheduleWhole, ShowsStored,
    HidesSettled, AlertsPending, ScheduleHeard
<1>3. ASSUME Downloads!Next PROVE ShowsStored' /\ HidesSettled' /\ AlertsPending'
  BY <1>3, ScheduleUserWhole, ScheduleElsewhereWhole, ScheduleServedWhole, ScheduleStoredWhole,
    ScheduleActsWhole,
    ScheduleHearsWhole, ScheduleArrivesWhole, ScheduleSavedWhole, ScheduleActedWhole
    DEF Downloads!Next
<1> QED
  BY <1>1, <1>2, <1>3 DEF ScheduleWhole

\* With nothing under way the screens show the stored schedule.
LEMMA ScheduleRowsSettle == ScheduleWhole => Downloads!RowsSettle
BY DEF ScheduleWhole, ShowsStored, HidesSettled, AlertsPending, ScheduleHeard,
  Downloads!RowsSettle, Downloads!Quiet

\* For any number of calls: a save of the schedule undoes no earlier one, unless what was
\* shown was the empty schedule or not yet the one saved (toScheduleSaveRequest); and with
\* nothing under way the panel has the stored schedule and the stored alert, but as the
\* property says (useDownloadStore).
THEOREM ScheduleIsSafe ==
  ASSUME ScheduleAssumptions
  PROVE  Downloads!Spec => [](Downloads!TypeOK /\ Downloads!EditsSurvive /\ Downloads!RowsSettle)
<1>1. Downloads!Init => ScheduleWhole
  BY ScheduleWholeInit
<1>2. ScheduleWhole /\ [Downloads!Next]_(Downloads!vars) => ScheduleWhole'
  BY ScheduleStepKeepsWhole
<1>3. ScheduleWhole => (Downloads!TypeOK /\ Downloads!EditsSurvive /\ Downloads!RowsSettle)
  BY SchedulePromises, ScheduleRowsSettle DEF ScheduleWhole
<1> QED
  BY <1>1, <1>2, <1>3, PTL DEF Downloads!Spec

-----------------------------------------------------------------------------
(* The Today board.  A row under way, shown or carried by a card's command   *)
(* is one the store had: with the token of the stored row it is that row.    *)

TodayAssumptions ==
  /\ "daily" \in DOMAIN TodayOptions
  /\ \A l \in DOMAIN TodayOptions : \E f \in TodayOptions[l] : \A g \in TodayOptions[l] : f <= g

TodayRows == [anime : TodayAnimes, count : Nat, blocked : BOOLEAN, at : Nat]
TodayStored == [day : Today!Filters, count : Nat, blocked : BOOLEAN, at : Nat]

TodayCall == [ticket : Nat, kind : {"rows"} \cup Today!Writes, day : Today!Filters \cup {None}, row :
    TodayRows \cup {None},
              served : BOOLEAN, ok : BOOLEAN, answer : SUBSET TodayRows]

TodayTypes ==
  /\ stored \in [TodayAnimes -> TodayStored] /\ version \in Nat
  /\ \A a \in TodayAnimes : stored[a].at <= version
  /\ lens \in DOMAIN TodayOptions /\ (selected = None \/ selected \in TodayOptions[lens])
  /\ calls \subseteq TodayCall /\ made \in Nat /\ items \subseteq TodayRows
  /\ \A c \in calls : c.ticket \in 1..made /\ (c.kind \in Today!Writes => c.row \in TodayRows)
  /\ probing \in BOOLEAN /\ loading \in BOOLEAN /\ failed \in BOOLEAN

\* The row was the store's: as new as its token.
RowWasStored(r) ==
  /\ r.at <= stored[r.anime].at
  /\ r.at = stored[r.anime].at => r = Today!Row(r.anime)

TodayInv ==
  /\ TodayTypes
  /\ \A r \in items : RowWasStored(r)
  /\ \A c \in calls : (\A r \in c.answer : RowWasStored(r))
        /\ (c.kind \in Today!Writes => RowWasStored(c.row))
  /\ overwrote = FALSE

LEMMA TodayInit ==
  ASSUME TodayAssumptions, Today!Init PROVE TodayInv
<1>1. PICK f \in [TodayAnimes -> Today!Filters] :
        stored = [a \in TodayAnimes |-> [day |-> f[a], count |-> 0, blocked |-> FALSE, at |-> 0]]
  BY DEF Today!Init
<1>2. stored \in [TodayAnimes -> TodayStored] /\ \A a \in TodayAnimes : stored[a].at = 0
  BY <1>1 DEF TodayStored
<1>3. /\ version = 0 /\ calls = {} /\ made = 0 /\ probing = TRUE /\ lens = "daily"
            /\ selected = None /\ items = {} /\ loading = TRUE
      /\ failed = FALSE /\ overwrote = FALSE
  BY DEF Today!Init
<1>4. TodayTypes
  <2>1. version \in Nat /\ \A a \in TodayAnimes : stored[a].at <= version
    BY <1>2, <1>3
  <2>2. lens \in DOMAIN TodayOptions /\ (selected = None \/ selected \in TodayOptions[lens])
    BY <1>3 DEF TodayAssumptions
  <2>3. calls \subseteq TodayCall /\ made \in Nat /\ items \subseteq TodayRows
        /\ \A c \in calls : c.ticket \in 1..made /\ (c.kind \in Today!Writes => c.row \in TodayRows)
    BY <1>3
  <2>4. probing \in BOOLEAN /\ loading \in BOOLEAN /\ failed \in BOOLEAN
    BY <1>3
  <2> QED
    BY <1>2, <2>1, <2>2, <2>3, <2>4 DEF TodayTypes
<1>5. \A r \in items : RowWasStored(r)
  BY <1>3
<1>6. \A c \in calls : (\A r \in c.answer : RowWasStored(r))
          /\ (c.kind \in Today!Writes => RowWasStored(c.row))
  BY <1>3
<1> QED
  BY <1>3, <1>4, <1>5, <1>6 DEF TodayInv

\* What does not touch the store, and adds no call but a read.
LEMMA TodayReads ==
  ASSUME TodayInv, UNCHANGED <<stored, version, items, overwrote>>, made' \in Nat, made <= made',
         \A c \in calls' : \/ c \in calls
                           \/ c \in TodayCall /\ c.kind = "rows" /\ c.answer = {}
                                 /\ c.ticket \in 1..made',
         lens' \in DOMAIN TodayOptions, selected' = None \/ selected' \in TodayOptions[lens'],
         probing' \in BOOLEAN, loading' \in BOOLEAN, failed' \in BOOLEAN
  PROVE  TodayInv'
<1>1. "rows" \notin Today!Writes
  BY DEF Today!Writes
<1>2. \A c \in calls : c.ticket \in 1..made'
  BY DEF TodayInv, TodayTypes
<1>3. \A c \in calls' : (\A r \in c.answer : RowWasStored(r)')
          /\ (c.kind \in Today!Writes => RowWasStored(c.row)')
  BY <1>1 DEF TodayInv, RowWasStored, Today!Row
<1>4. \A r \in items' : RowWasStored(r)'
  BY DEF TodayInv, RowWasStored, Today!Row
<1>5. TodayTypes'
  BY <1>1, <1>2 DEF TodayInv, TodayTypes
<1> QED
  BY <1>3, <1>4, <1>5 DEF TodayInv

LEMMA TodayRefreshes ==
  ASSUME TodayInv, NEW f \in Today!Filters \cup {None}, NEW S \in SUBSET calls, Today!Refresh(f, S)
  PROVE  /\ made' \in Nat /\ made <= made' /\ loading' \in BOOLEAN /\ failed' \in BOOLEAN
         /\ \A c \in calls' : \/ c \in calls
                              \/ c \in TodayCall /\ c.kind = "rows" /\ c.answer = {}
                                    /\ c.ticket \in 1..made'
<1> DEFINE n == Today!Call("rows", f, None)
<1>1. made \in Nat /\ made + 1 \in Nat /\ made <= made + 1 /\ made + 1 \in 1..(made + 1)
  BY DEF TodayInv, TodayTypes
<1>2. n = [ticket |-> made + 1, kind |-> "rows", day |-> f, row |-> None, served |-> FALSE,
          ok |-> TRUE, answer |-> {}]
  BY DEF Today!Call
<1>3. CASE f = None
  BY <1>1, <1>3 DEF Today!Refresh, TodayInv, TodayTypes
<1>4. CASE f # None
  <2>1. made' = made + 1 /\ calls' = S \cup {n} /\ loading' = TRUE /\ failed' = FALSE
    BY <1>4 DEF Today!Refresh, Today!Sent
  <2> HIDE DEF n
  <2>2. n \in TodayCall /\ n.kind = "rows" /\ n.answer = {} /\ n.ticket = made + 1
    BY <1>1, <1>2 DEF TodayCall
  <2> QED
    BY <1>1, <2>1, <2>2
<1> QED
  BY <1>3, <1>4

LEMMA TodayFilters ==
  ASSUME TodayAssumptions, NEW l \in DOMAIN TodayOptions
  PROVE  Today!Landing(l) \in TodayOptions[l] /\ TodayOptions[l] \subseteq Today!Filters
<1>1. \E f \in TodayOptions[l] : \A g \in TodayOptions[l] : f <= g
  BY DEF TodayAssumptions
<1> QED
  BY <1>1 DEF Today!Landing, Today!Filters

\* Picking a filter, a push, an answer: what is shown stays what it was.
LEMMA TodayPicks ==
  ASSUME TodayAssumptions, TodayInv, NEW l \in DOMAIN TodayOptions, NEW f \in TodayOptions[l],
         Today!Pick(l, f),
         UNCHANGED <<stored, version, items, overwrote>>, probing' \in BOOLEAN
  PROVE  TodayInv'
<1>1. f \in Today!Filters
  BY TodayFilters
<1>2. PICK g \in Today!Filters \cup {None} : g = IF f = selected THEN None ELSE f
  BY <1>1
<1>3. lens' = l /\ selected' = f /\ Today!Refresh(g, calls)
  BY <1>2 DEF Today!Pick
<1>4. /\ made' \in Nat /\ made <= made' /\ loading' \in BOOLEAN /\ failed' \in BOOLEAN
      /\ \A c \in calls' : \/ c \in calls
                           \/ c \in TodayCall /\ c.kind = "rows" /\ c.answer = {}
                                 /\ c.ticket \in 1..made'
  BY <1>3, TodayRefreshes
<1> QED
  BY <1>3, <1>4, TodayReads

LEMMA TodaySelects ==
  ASSUME TodayAssumptions, TodayInv,
         \/ \E f \in Today!Filters : Today!SelectDay(f)
         \/ \E l \in DOMAIN TodayOptions : Today!SelectLens(l) \/ Today!ProbeAnswers(l)
  PROVE  TodayInv'
<1>0. probing \in BOOLEAN
  BY DEF TodayInv, TodayTypes
<1>1. ASSUME NEW f \in Today!Filters, Today!SelectDay(f) PROVE TodayInv'
  <2>1. f \in TodayOptions[lens] /\ Today!Pick(lens, f)
            /\ UNCHANGED <<stored, version, items, overwrote, probing>>
    BY <1>1 DEF Today!SelectDay, Today!store
  <2>2. lens \in DOMAIN TodayOptions
    BY DEF TodayInv, TodayTypes
  <2> QED
    BY <1>0, <2>1, <2>2, TodayPicks
<1>2. ASSUME NEW l \in DOMAIN TodayOptions, Today!SelectLens(l) \/ Today!ProbeAnswers(l) PROVE TodayInv'
  <2>1. Today!Pick(l, Today!Landing(l)) /\ UNCHANGED <<stored, version, items, overwrote>>
            /\ probing' \in BOOLEAN
    BY <1>0, <1>2 DEF Today!SelectLens, Today!ProbeAnswers, Today!store
  <2> QED
    BY <2>1, TodayFilters, TodayPicks
<1> QED
  BY <1>1, <1>2

\* A card's command carries its row.
LEMMA TodayCommand ==
  ASSUME TodayAssumptions, TodayInv, NEW r \in items, NEW kind \in Today!Writes,
         Today!Command(r, kind) PROVE TodayInv'
<1> DEFINE n == Today!Call(kind, selected, r)
<1>1. n = [ticket |-> made + 1, kind |-> kind, day |-> selected, row |-> r, served |-> FALSE,
          ok |-> TRUE, answer |-> {}]
  BY DEF Today!Call
<1>2. /\ made' = made + 1 /\ calls' = calls \cup {n}
      /\ UNCHANGED <<stored, version, probing, lens, selected, items, loading, failed, overwrote>>
  BY DEF Today!Command, Today!Sent, Today!store, Today!picked
<1> HIDE DEF n
<1>3. made \in Nat /\ made + 1 \in Nat /\ made + 1 \in 1..(made + 1) /\ \A t \in 1..made :
          t \in 1..(made + 1)
  BY DEF TodayInv, TodayTypes
<1>4. r \in TodayRows /\ RowWasStored(r)
  BY DEF TodayInv, TodayTypes
<1>5. selected \in Today!Filters \cup {None}
  BY TodayFilters DEF TodayInv, TodayTypes
<1>6. n \in TodayCall /\ n.kind = kind /\ n.row = r /\ n.answer = {} /\ n.ticket = made + 1
  BY <1>1, <1>3, <1>4, <1>5 DEF TodayCall
<1>7. TodayTypes'
  BY <1>2, <1>3, <1>4, <1>6 DEF TodayInv, TodayTypes
<1>8. \A c \in calls' : (\A x \in c.answer : RowWasStored(x)')
          /\ (c.kind \in Today!Writes => RowWasStored(c.row)')
  BY <1>2, <1>4, <1>6 DEF TodayInv, RowWasStored, Today!Row
<1>9. \A x \in items' : RowWasStored(x)'
  BY <1>2 DEF TodayInv, RowWasStored, Today!Row
<1> QED
  BY <1>2, <1>7, <1>8, <1>9 DEF TodayInv

\* A token is new: no row held has it.
LEMMA TodayStores ==
  ASSUME TodayInv, NEW a \in TodayAnimes, NEW line \in TodayStored, Today!Store(a, line)
  PROVE  /\ stored' \in [TodayAnimes -> TodayStored] /\ version' \in Nat /\ \A b \in TodayAnimes :
            stored'[b].at <= version'
         /\ \A r \in TodayRows : RowWasStored(r) => RowWasStored(r)'
<1>1. PICK new : new = [line EXCEPT !.at = version']
  OBVIOUS
<1>2. version' = version + 1 /\ stored' = [stored EXCEPT ![a] = new]
  BY <1>1 DEF Today!Store
<1>3. version \in Nat /\ version' \in Nat /\ version < version'
          /\ stored \in [TodayAnimes -> TodayStored]
  BY <1>2 DEF TodayInv, TodayTypes
<1>4. new \in TodayStored /\ new.at = version'
  BY <1>1, <1>3 DEF TodayStored
<1>5. \A b \in TodayAnimes : stored'[b] = IF b = a THEN new ELSE stored[b]
  BY <1>2, <1>3
<1>6. \A b \in TodayAnimes : stored[b].at \in Nat /\ stored[b].at <= version
  BY <1>3 DEF TodayInv, TodayTypes, TodayStored
<1>7. stored' \in [TodayAnimes -> TodayStored]
  BY <1>2, <1>3, <1>4
<1>8. \A b \in TodayAnimes : stored'[b].at <= version'
  BY <1>3, <1>4, <1>5, <1>6
<1>9. ASSUME NEW r \in TodayRows, RowWasStored(r) PROVE RowWasStored(r)'
  <2>1. r.anime \in TodayAnimes /\ r.at \in Nat
    BY DEF TodayRows
  <2>2. CASE r.anime = a
    BY <1>3, <1>4, <1>5, <1>6, <1>9, <2>1, <2>2 DEF RowWasStored
  <2>3. CASE r.anime # a
    BY <1>5, <1>9, <2>1, <2>3 DEF RowWasStored, Today!Row
  <2> QED
    BY <2>2, <2>3
<1> QED
  BY <1>3, <1>7, <1>8, <1>9

LEMMA TodayWritten ==
  ASSUME TodayTypes, NEW a \in TodayAnimes, NEW kind
  PROVE  Today!Written(stored[a], kind) \in TodayStored
<1>1. stored[a] \in TodayStored /\ stored[a].count + 1 \in Nat
  BY DEF TodayTypes, TodayStored
<1> QED
  BY <1>1 DEF TodayStored, Today!Written

LEMMA TodayOther ==
  ASSUME TodayInv, NEW a \in TodayAnimes, NEW line, Today!OtherWrite(a, line) PROVE TodayInv'
<1>1. /\ line \in {Today!Written(stored[a], "adjust")}
            \cup {[stored[a] EXCEPT !.day = g] : g \in Today!Filters \ {stored[a].day}}
      /\ Today!Store(a, line)
      /\ UNCHANGED <<calls, made, probing, lens, selected, items, loading, failed, overwrote>>
  BY DEF Today!OtherWrite, Today!picked
<1>2. line \in TodayStored
  <2>1. stored[a] \in TodayStored
    BY DEF TodayInv, TodayTypes
  <2>2. \A g \in Today!Filters : [stored[a] EXCEPT !.day = g] \in TodayStored
    BY <2>1 DEF TodayStored
  <2> QED
    BY <1>1, <2>2, TodayWritten DEF TodayInv
<1>3. /\ stored' \in [TodayAnimes -> TodayStored] /\ version' \in Nat /\ \A b \in TodayAnimes :
            stored'[b].at <= version'
      /\ \A r \in TodayRows : RowWasStored(r) => RowWasStored(r)'
  BY <1>1, <1>2, TodayStores
<1>4. TodayTypes'
  BY <1>1, <1>3 DEF TodayInv, TodayTypes
<1>5. \A c \in calls' : (\A r \in c.answer : RowWasStored(r)')
          /\ (c.kind \in Today!Writes => RowWasStored(c.row)')
  BY <1>1, <1>3 DEF TodayInv, TodayTypes, TodayCall
<1>6. \A r \in items' : RowWasStored(r)'
  BY <1>1, <1>3 DEF TodayInv, TodayTypes
<1> QED
  BY <1>1, <1>4, <1>5, <1>6 DEF TodayInv

\* A call answered: a read with the store's rows.
LEMMA TodayServes ==
  ASSUME TodayInv, NEW c \in calls, Today!ServeRead(c) \/ Today!Refused(c) PROVE TodayInv'
<1>1. UNCHANGED <<stored, version, made, probing, lens, selected, items, loading, failed, overwrote>>
  BY DEF Today!ServeRead, Today!Refused, Today!store, Today!picked
<1>2. PICK ok \in BOOLEAN, answer \in SUBSET TodayRows : Today!Served(c, ok, answer)
          /\ \A r \in answer : RowWasStored(r)
  <2>1. CASE Today!Refused(c)
    <3>1. Today!Served(c, FALSE, {}) /\ {} \in SUBSET TodayRows /\ FALSE \in BOOLEAN
      BY <2>1 DEF Today!Refused
    <3>2. \A r \in {} : RowWasStored(r)
      OBVIOUS
    <3> QED
      BY <3>1, <3>2
  <2>2. CASE Today!ServeRead(c)
    <3>1. Today!RowsOf(c.day) \subseteq TodayRows /\ \A r \in Today!RowsOf(c.day) : RowWasStored(r)
      <4>1. \A a \in TodayAnimes : Today!Row(a) \in TodayRows /\ Today!Row(a).anime = a
                /\ Today!Row(a).at = stored[a].at /\ stored[a].at \in Nat
        BY DEF Today!Row, TodayRows, TodayInv, TodayTypes, TodayStored
      <4> QED
        BY <4>1 DEF Today!RowsOf, RowWasStored
    <3> QED
      BY <2>2, <3>1 DEF Today!ServeRead
  <2> QED
    BY <2>1, <2>2
<1>3. PICK d : d = [c EXCEPT !.served = TRUE, !.ok = ok, !.answer = answer]
  OBVIOUS
<1>4. calls' = (calls \ {c}) \cup {d}
  BY <1>2, <1>3 DEF Today!Served
<1>5. d \in TodayCall /\ d.kind = c.kind /\ d.row = c.row /\ d.ticket = c.ticket /\ d.answer = answer
  BY <1>3 DEF TodayInv, TodayTypes, TodayCall
<1>6. TodayTypes'
  BY <1>1, <1>4, <1>5 DEF TodayInv, TodayTypes
<1>7. \A x \in calls' : (\A r \in x.answer : RowWasStored(r)')
          /\ (x.kind \in Today!Writes => RowWasStored(x.row)')
  BY <1>1, <1>2, <1>4, <1>5 DEF TodayInv, RowWasStored, Today!Row
<1>8. \A r \in items' : RowWasStored(r)'
  BY <1>1 DEF TodayInv, RowWasStored, Today!Row
<1> QED
  BY <1>1, <1>6, <1>7, <1>8 DEF TodayInv

\* A write is carried out on the row its card showed.
LEMMA TodayApplied ==
  ASSUME TodayInv, NEW c \in calls, NEW ok \in BOOLEAN, Today!Applied(c, ok) PROVE TodayInv'
<1>1. c.row \in TodayRows /\ RowWasStored(c.row) /\ c.row.anime \in TodayAnimes
  BY DEF Today!Applied, TodayInv, TodayTypes, TodayRows
<1>2. PICK a \in TodayAnimes : a = c.row.anime
  BY <1>1
<1>3. PICK line \in TodayStored : line = Today!Written(stored[a], c.kind)
  BY TodayWritten DEF TodayInv
<1>4. PICK d : d = [c EXCEPT !.served = TRUE, !.ok = ok, !.answer = {}]
  OBVIOUS
<1>5. /\ stored[a].at = c.row.at /\ Today!Store(a, line) /\ calls' = (calls \ {c}) \cup {d}
      /\ overwrote' = (overwrote \/ Today!Row(a) # c.row)
      /\ UNCHANGED <<made, probing, lens, selected, items, loading, failed>>
  BY <1>2, <1>3, <1>4 DEF Today!Applied, Today!Served, Today!picked
<1>6. d \in TodayCall /\ d.kind = c.kind /\ d.row = c.row /\ d.ticket = c.ticket /\ d.answer = {}
  BY <1>4 DEF TodayInv, TodayTypes, TodayCall
<1>7. /\ stored' \in [TodayAnimes -> TodayStored] /\ version' \in Nat /\ \A b \in TodayAnimes :
            stored'[b].at <= version'
      /\ \A r \in TodayRows : RowWasStored(r) => RowWasStored(r)'
  BY <1>5, TodayStores
<1>8. overwrote' = FALSE
  BY <1>1, <1>2, <1>5 DEF TodayInv, RowWasStored
<1>9. TodayTypes'
  BY <1>5, <1>6, <1>7 DEF TodayInv, TodayTypes
<1>10. \A x \in calls' : (\A r \in x.answer : RowWasStored(r)')
           /\ (x.kind \in Today!Writes => RowWasStored(x.row)')
  BY <1>5, <1>6, <1>7 DEF TodayInv, TodayTypes, TodayCall
<1>11. \A r \in items' : RowWasStored(r)'
  BY <1>5, <1>7 DEF TodayInv, TodayTypes
<1> QED
  BY <1>8, <1>9, <1>10, <1>11 DEF TodayInv

LEMMA TodayArrives ==
  ASSUME TodayInv, NEW c \in calls, Today!RowsArrive(c) PROVE TodayInv'
<1>1. /\ calls' = calls \ {c} /\ items' = c.answer /\ loading' = FALSE
      /\ UNCHANGED <<stored, version, made, probing, lens, selected, failed, overwrote>>
  BY DEF Today!RowsArrive, Today!store, Today!picked
<1>2. c.answer \subseteq TodayRows
  BY DEF TodayInv, TodayTypes, TodayCall
<1>3. TodayTypes'
  BY <1>1, <1>2 DEF TodayInv, TodayTypes
<1>4. \A x \in calls' : (\A r \in x.answer : RowWasStored(r)')
          /\ (x.kind \in Today!Writes => RowWasStored(x.row)')
  BY <1>1 DEF TodayInv, RowWasStored, Today!Row
<1>5. \A r \in items' : RowWasStored(r)'
  BY <1>1 DEF TodayInv, RowWasStored, Today!Row
<1> QED
  BY <1>1, <1>3, <1>4, <1>5 DEF TodayInv

\* A failed read, a command's answer and a push at most read again.
LEMMA TodayHears ==
  ASSUME TodayAssumptions, TodayInv, Today!PushArrives \/ \E c \in calls : Today!ReadFails(c)
         \/ Today!CommandAnswered(c)
  PROVE  TodayInv'
<1>1. /\ lens \in DOMAIN TodayOptions /\ (selected = None \/ selected \in TodayOptions[lens])
            /\ made \in Nat /\ made <= made
      /\ probing \in BOOLEAN /\ loading \in BOOLEAN /\ failed \in BOOLEAN
            /\ selected \in Today!Filters \cup {None}
  BY TodayFilters DEF TodayInv, TodayTypes
<1>2. CASE Today!PushArrives
  <2>1. Today!Refresh(selected, calls) /\ UNCHANGED <<stored, version, probing, lens, selected,
            items, overwrote>>
    BY <1>2 DEF Today!PushArrives, Today!picked
  <2>2. /\ made' \in Nat /\ made <= made' /\ loading' \in BOOLEAN /\ failed' \in BOOLEAN
        /\ \A c \in calls' : \/ c \in calls
                             \/ c \in TodayCall /\ c.kind = "rows" /\ c.answer = {}
                                   /\ c.ticket \in 1..made'
    BY <1>1, <2>1, TodayRefreshes
  <2> QED
    BY <1>1, <2>1, <2>2, TodayReads
<1>3. ASSUME NEW c \in calls, Today!ReadFails(c) PROVE TodayInv'
  BY <1>1, <1>3, TodayReads DEF Today!ReadFails, Today!store, Today!picked
<1>4. ASSUME NEW c \in calls, Today!CommandAnswered(c) PROVE TodayInv'
  <2>1. UNCHANGED <<stored, version, probing, lens, selected, items, overwrote>>
    BY <1>4 DEF Today!CommandAnswered, Today!store, Today!picked
  <2>2. CASE c.ok
    <3>1. PICK S \in SUBSET calls, f \in Today!Filters \cup {None} : S = calls \ {c} /\ f = c.day
      BY DEF TodayInv, TodayTypes, TodayCall
    <3>2. /\ made' \in Nat /\ made <= made' /\ loading' \in BOOLEAN /\ failed' \in BOOLEAN
          /\ \A x \in calls' : \/ x \in calls
                               \/ x \in TodayCall /\ x.kind = "rows" /\ x.answer = {}
                                     /\ x.ticket \in 1..made'
      BY <1>4, <2>2, <3>1, TodayRefreshes DEF Today!CommandAnswered
    <3> QED
      BY <1>1, <2>1, <3>2, TodayReads
  <2>3. CASE ~c.ok
    BY <1>1, <1>4, <2>1, <2>3, TodayReads DEF Today!CommandAnswered
  <2> QED
    BY <2>2, <2>3
<1> QED
  BY <1>2, <1>3, <1>4

LEMMA TodayStepKeepsInv ==
  ASSUME TodayAssumptions, TodayInv, [Today!Next]_(Today!vars) PROVE TodayInv'
<1>1. CASE Today!Next
  BY <1>1, TodaySelects, TodayCommand, TodayOther, TodayServes, TodayApplied, TodayArrives,
    TodayHears DEF Today!Next
<1>2. CASE UNCHANGED Today!vars
  <2>1. made \in Nat /\ made <= made
    BY DEF TodayInv, TodayTypes
  <2> QED
    BY <1>2, <2>1, TodayReads DEF Today!vars, Today!store, Today!picked, TodayInv, TodayTypes
<1> QED
  BY <1>1, <1>2

LEMMA TodayPromises ==
  ASSUME TodayInv PROVE Today!TypeOK /\ Today!OthersSurvive
<1>1. \A a \in TodayAnimes : stored[a].day \in Today!Filters /\ stored[a].at <= version
  BY DEF TodayInv, TodayTypes, TodayStored
<1>2. \A c \in calls : c.kind \in {"rows"} \cup Today!Writes /\ c.ticket \in 1..made
  BY DEF TodayInv, TodayTypes, TodayCall
<1>3. {probing, loading, failed, overwrote} \subseteq BOOLEAN
  BY DEF TodayInv, TodayTypes
<1> QED
  BY <1>1, <1>2, <1>3 DEF Today!TypeOK, Today!OthersSurvive, TodayInv, TodayTypes

\* The latest read under way, of those newer than any answered: what it will show is the
\* store's, once nothing else is pending; without one, what is shown is.
BoardLatest(c) ==
  c.kind = "rows" /\ c.ticket > shownBy.newest /\ \A d \in calls : d.kind = "rows"
      => d.ticket <= c.ticket
BoardTickets ==
  /\ shownBy.newest \in 0..made /\ shownBy.overtaken \in BOOLEAN
  /\ shownBy.day = None => items = {}
  /\ \A c, d \in calls : c.ticket = d.ticket => c = d
  /\ \A c \in calls : c.kind = "rows" => c.ticket # shownBy.newest /\ c.day # None
BoardShows ==
  ~shownBy.overtaken /\ shownBy.day = selected /\ selected # None => items = Today!RowsOf(selected)
BoardSettled ==
  ~failed /\ pushes = 0 =>
    /\ \A c \in calls : BoardLatest(c) /\ c.served /\ c.day = selected
          => c.answer = Today!RowsOf(selected)
    /\ (\A c \in calls : c.kind = "rows" => c.ticket < shownBy.newest) => BoardShows
TodayWhole == TodayInv /\ pushes \in Nat /\ BoardTickets /\ BoardSettled

LEMMA TodayWholeInit ==
  ASSUME TodayAssumptions, Today!Init PROVE TodayWhole
<1>1. /\ pushes = 0 /\ calls = {} /\ made = 0 /\ selected = None /\ items = {} /\ failed = FALSE
      /\ shownBy.day = None /\ shownBy.newest = 0 /\ shownBy.overtaken = FALSE
  BY DEF Today!Init
<1>2. 0 \in 0..0 /\ 0 \in Nat /\ FALSE \in BOOLEAN
  OBVIOUS
<1>3. BoardTickets
  BY <1>1, <1>2 DEF BoardTickets
<1>4. BoardSettled
  BY <1>1 DEF BoardSettled, BoardShows
<1> QED
  BY <1>1, <1>2, <1>3, <1>4, TodayInit DEF TodayWhole

\* The calls under way before a step, with their tickets, as it finds them.
LEMMA TodayCallsUsed ==
  ASSUME TodayWhole
  PROVE  /\ made \in Nat /\ shownBy.newest \in Nat /\ shownBy.newest <= made
         /\ \A c \in calls : c \in TodayCall /\ c.ticket \in Nat /\ c.ticket <= made
  BY DEF TodayWhole, TodayInv, TodayTypes, TodayCall, BoardTickets

\* A read that is sent is the latest.
LEMMA TodayAsks ==
  ASSUME TodayWhole, NEW f, f # None, NEW S \in SUBSET calls, Today!Refresh(f, S),
         UNCHANGED <<items, shownBy>>
  PROVE  BoardTickets' /\ BoardSettled'
<1>0. PICK n : n = Today!Call("rows", f, None)
  OBVIOUS
<1>1. n.ticket = made + 1 /\ n.kind = "rows" /\ n.day = f /\ n.served = FALSE
  BY <1>0 DEF Today!Call
<1>2. made' = made + 1 /\ calls' = S \cup {n}
  BY <1>0 DEF Today!Refresh, Today!Sent
<1>3. BoardTickets'
  BY <1>1, <1>2, TodayCallsUsed DEF TodayWhole, BoardTickets
<1>4. \A c \in calls' : (c.kind = "rows" /\ \A d \in calls' : d.kind = "rows"
          => d.ticket <= c.ticket) => c = n
  BY <1>1, <1>2, TodayCallsUsed
<1>5. ~(\A c \in calls' : c.kind = "rows" => c.ticket < shownBy'.newest)
  BY <1>1, <1>2, TodayCallsUsed
<1>6. \A c \in calls' : BoardLatest(c)' => c = n
  BY <1>4 DEF BoardLatest
<1> QED
  BY <1>1, <1>3, <1>5, <1>6 DEF BoardSettled

\* A write is sent or ends, or nothing is.
LEMMA TodayKeepsReads ==
  ASSUME TodayWhole, UNCHANGED <<stored, pushes, items, shownBy, selected>>, failed' = failed
         \/ failed' = TRUE,
         made' \in Nat, made <= made',
         \A c \in calls : c.kind = "rows" => c \in calls',
         \A c \in calls' : c \in calls \/ (c.kind # "rows" /\ \A d \in calls' \ {c} :
             d.ticket # c.ticket)
  PROVE  BoardTickets' /\ BoardSettled'
<1>1. BoardTickets'
  BY TodayCallsUsed DEF TodayWhole, BoardTickets
<1>2. \A c \in calls' : BoardLatest(c)' => c \in calls /\ BoardLatest(c)
  BY DEF BoardLatest
<1>3. (\A c \in calls' : c.kind = "rows" => c.ticket < shownBy'.newest) => \A c \in calls :
          c.kind = "rows" => c.ticket < shownBy.newest
  OBVIOUS
<1> QED
  BY <1>1, <1>2, <1>3 DEF TodayWhole, BoardSettled, BoardShows, Today!RowsOf, Today!Row

LEMMA TodayPicksWhole ==
  ASSUME TodayAssumptions, TodayWhole, NEW l \in DOMAIN TodayOptions, NEW f \in TodayOptions[l],
         Today!Pick(l, f),
         UNCHANGED <<stored, pushes, items, shownBy>>
  PROVE  BoardTickets' /\ BoardSettled'
<1>1. selected' = f /\ Today!Refresh(IF f = selected THEN None ELSE f, calls)
  BY DEF Today!Pick
<1>2. CASE f = selected \/ f = None
  <2>1. Today!Refresh(None, calls)
    BY <1>1, <1>2
  <2>2. calls' = calls /\ UNCHANGED <<made, failed>>
    BY <2>1 DEF Today!Refresh
  <2>3. made' \in Nat /\ made <= made'
    BY <2>2, TodayCallsUsed
  <2>4. CASE f = selected
    BY <1>1, <2>2, <2>3, <2>4, TodayKeepsReads
  <2>5. CASE f = None
    <3>1. BoardTickets'
      BY <2>2 DEF TodayWhole, BoardTickets
    <3>2. BoardSettled'
      BY <1>1, <2>2, <2>5, <3>1 DEF BoardSettled, BoardShows, BoardLatest, BoardTickets
    <3> QED
      BY <3>1, <3>2
  <2> QED
    BY <1>2, <2>4, <2>5
<1>3. CASE f # selected /\ f # None
  BY <1>1, <1>3, TodayAsks
<1> QED
  BY <1>2, <1>3

\* The store changes: the window is told.
LEMMA TodayStoresWhole ==
  ASSUME TodayWhole, NEW a, NEW line, Today!Store(a, line), UNCHANGED <<made, items, shownBy>>,
         \A x \in calls' : \E y \in calls : x.ticket = y.ticket /\ x.kind = y.kind /\ x.day = y.day,
         \A x, y \in calls' : x.ticket = y.ticket => x = y
  PROVE  pushes' \in Nat /\ BoardTickets' /\ BoardSettled'
<1>1. pushes' = pushes + 1 /\ pushes \in Nat
  BY DEF Today!Store, TodayWhole
<1>2. BoardTickets'
  BY DEF TodayWhole, BoardTickets
<1> QED
  BY <1>1, <1>2 DEF BoardSettled

\* A call served keeps its ticket.
LEMMA TodayServedWhole ==
  ASSUME TodayWhole, NEW c \in calls, NEW ok \in BOOLEAN, NEW answer, Today!Served(c, ok, answer),
         ~c.served
  PROVE  /\ \A x \in calls' : \E y \in calls : x.ticket = y.ticket /\ x.kind = y.kind /\ x.day = y.day
         /\ \A y \in calls : \E x \in calls' : x.ticket = y.ticket /\ x.kind = y.kind
         /\ \A x, y \in calls' : x.ticket = y.ticket => x = y
         /\ \A x \in calls' : x \in calls \/ (x.kind = c.kind /\ x.day = c.day /\ x.answer = answer)
<1>0. PICK d : d = [c EXCEPT !.served = TRUE, !.ok = ok, !.answer = answer]
  OBVIOUS
<1>1. calls' = (calls \ {c}) \cup {d}
  BY <1>0 DEF Today!Served
<1>2. d.ticket = c.ticket /\ d.kind = c.kind /\ d.day = c.day /\ d.answer = answer
  BY <1>0, TodayCallsUsed DEF TodayCall
<1>3. \A x, y \in calls : x.ticket = y.ticket => x = y
  BY DEF TodayWhole, BoardTickets
<1> QED
  BY <1>1, <1>2, <1>3

LEMMA TodayServesWhole ==
  ASSUME TodayWhole, NEW c \in calls, Today!ServeRead(c) \/ Today!Refused(c)
  PROVE  BoardTickets' /\ BoardSettled'
<1>1. UNCHANGED <<stored, pushes, made, selected, items, shownBy, failed>> /\ ~c.served
  BY DEF Today!ServeRead, Today!Refused, Today!store, Today!picked
<1>2. PICK ok, answer : ok \in BOOLEAN /\ Today!Served(c, ok, answer)
          /\ (c.kind = "rows" => answer = Today!RowsOf(c.day))
  BY DEF Today!ServeRead, Today!Refused, Today!Writes
<1>3. /\ \A x \in calls' : \E y \in calls : x.ticket = y.ticket /\ x.kind = y.kind /\ x.day = y.day
      /\ \A y \in calls : \E x \in calls' : x.ticket = y.ticket /\ x.kind = y.kind
      /\ \A x, y \in calls' : x.ticket = y.ticket => x = y
      /\ \A x \in calls' : x \in calls \/ (x.kind = c.kind /\ x.day = c.day /\ x.answer = answer)
  BY <1>1, <1>2, TodayServedWhole
<1>4. BoardTickets'
  BY <1>1, <1>3 DEF TodayWhole, BoardTickets
<1>5. \A x \in calls : BoardLatest(x)' => BoardLatest(x)
  BY <1>1, <1>3 DEF BoardLatest
<1>6. (\A x \in calls' : x.kind = "rows" => x.ticket < shownBy'.newest) => \A x \in calls :
          x.kind = "rows" => x.ticket < shownBy.newest
  BY <1>1, <1>3
<1>7. UNCHANGED Today!RowsOf(selected) /\ UNCHANGED Today!RowsOf(c.day)
  BY <1>1 DEF Today!RowsOf, Today!Row
<1>8. ASSUME ~failed', pushes' = 0, NEW x \in calls', BoardLatest(x)', x.served, x.day = selected'
      PROVE  x.answer = Today!RowsOf(selected)'
  <2>1. CASE x \in calls
    BY <1>1, <1>5, <1>7, <1>8, <2>1 DEF TodayWhole, BoardSettled
  <2>2. CASE x.kind = c.kind /\ x.day = c.day /\ x.answer = answer
    BY <1>1, <1>2, <1>7, <1>8, <2>2 DEF BoardLatest
  <2> QED
    BY <1>3, <2>1, <2>2
<1>9. BoardShows => BoardShows'
  BY <1>1, <1>7 DEF BoardShows
<1> QED
  BY <1>1, <1>4, <1>6, <1>8, <1>9 DEF TodayWhole, BoardSettled

\* Rows arrive: of the latest read, or after a newer one.
LEMMA TodayArrivesWhole ==
  ASSUME TodayWhole, NEW c \in calls, Today!RowsArrive(c)
  PROVE  BoardTickets' /\ BoardSettled'
<1>1. /\ c.kind = "rows" /\ c.served /\ calls' = calls \ {c} /\ items' = c.answer
      /\ UNCHANGED <<stored, pushes, made, selected, failed>>
  BY DEF Today!RowsArrive, Today!store, Today!picked
<1>2. /\ shownBy'.day = c.day /\ (shownBy'.overtaken <=> c.ticket < shownBy.newest)
            /\ shownBy'.overtaken \in BOOLEAN
      /\ shownBy'.newest = IF c.ticket > shownBy.newest THEN c.ticket ELSE shownBy.newest
  <2>1. PICK b \in BOOLEAN : b <=> c.ticket < shownBy.newest
    OBVIOUS
  <2>2. b = (c.ticket < shownBy.newest)
    BY <2>1
  <2>3. shownBy' = [day |-> c.day, overtaken |-> b,
            newest |-> IF c.ticket > shownBy.newest THEN c.ticket ELSE shownBy.newest]
    BY <2>2 DEF Today!RowsArrive
  <2>4. shownBy'.day = c.day /\ shownBy'.overtaken = b
        /\ shownBy'.newest = IF c.ticket > shownBy.newest THEN c.ticket ELSE shownBy.newest
    BY <2>3
  <2> QED
    BY <2>1, <2>4
<1>3. c.ticket # shownBy.newest /\ c.day # None /\ \A x, y \in calls : x.ticket = y.ticket => x = y
  BY <1>1 DEF TodayWhole, BoardTickets
<1>4. BoardTickets'
  <2>1. shownBy'.newest \in 0..made'
    BY <1>1, <1>2, TodayCallsUsed
  <2>2. \A x \in calls' : x.kind = "rows" => x.ticket # shownBy'.newest /\ x.day # None
    BY <1>1, <1>2, <1>3 DEF TodayWhole, BoardTickets
  <2> QED
    BY <1>1, <1>2, <1>3, <2>1, <2>2 DEF BoardTickets
<1>5. UNCHANGED Today!RowsOf(selected)
  BY <1>1 DEF Today!RowsOf, Today!Row
<1>6. \A x \in calls' : BoardLatest(x)' => BoardLatest(x)
  <2> SUFFICES ASSUME NEW x \in calls', BoardLatest(x)' PROVE BoardLatest(x)
    OBVIOUS
  <2>1. /\ x.kind = "rows" /\ x.ticket > shownBy'.newest /\ x \in calls
        /\ \A d \in calls' : d.kind = "rows" => d.ticket <= x.ticket
    BY <1>1 DEF BoardLatest
  <2>2. x.ticket > shownBy.newest /\ c.ticket <= x.ticket
    BY <1>2, <2>1, TodayCallsUsed
  <2> QED
    BY <1>1, <2>1, <2>2 DEF BoardLatest
<1>7. ASSUME ~failed', pushes' = 0, \A x \in calls' : x.kind = "rows" => x.ticket < shownBy'.newest
             PROVE BoardShows'
  <2> SUFFICES ASSUME ~shownBy'.overtaken, c.day = selected PROVE c.answer = Today!RowsOf(selected)
    BY <1>1, <1>2, <1>5 DEF BoardShows
  <2>1. c.ticket > shownBy.newest /\ shownBy'.newest = c.ticket
    BY <1>2, <1>3, TodayCallsUsed
  <2>2. \A x \in calls : x.kind = "rows" => x.ticket <= c.ticket
    BY <1>1, <1>7, <2>1, TodayCallsUsed
  <2> QED
    BY <1>1, <1>7, <2>1, <2>2 DEF TodayWhole, BoardSettled, BoardLatest
<1> QED
  BY <1>1, <1>4, <1>5, <1>6, <1>7 DEF TodayWhole, BoardSettled

LEMMA TodayHearsWhole ==
  ASSUME TodayAssumptions, TodayWhole, Today!PushArrives \/ \E c \in calls : Today!ReadFails(c)
         \/ Today!CommandAnswered(c)
  PROVE  pushes' \in Nat /\ BoardTickets' /\ BoardSettled'
<1>0. made \in Nat /\ made <= made /\ pushes \in Nat /\ BoardTickets
  BY TodayCallsUsed DEF TodayWhole
<1>1. CASE Today!PushArrives
  <2>1. pushes > 0 /\ pushes' = pushes - 1 /\ Today!Refresh(selected, calls)
            /\ UNCHANGED <<items, shownBy, selected>>
    BY <1>1 DEF Today!PushArrives, Today!picked
  <2>2. pushes' \in Nat
    BY <1>0, <2>1
  <2>3. CASE selected # None
    BY <2>1, <2>2, <2>3, TodayAsks
  <2>4. CASE selected = None
    <3>1. calls' = calls /\ UNCHANGED <<made, failed>>
      BY <2>1, <2>4 DEF Today!Refresh
    <3>2. BoardTickets'
      BY <1>0, <2>1, <3>1 DEF BoardTickets
    <3>3. BoardSettled'
      BY <2>1, <2>4, <3>1, <3>2 DEF BoardSettled, BoardShows, BoardLatest, BoardTickets
    <3> QED
      BY <2>2, <3>2, <3>3
  <2> QED
    BY <2>3, <2>4
<1>2. ASSUME NEW c \in calls, Today!ReadFails(c) PROVE pushes' \in Nat /\ BoardTickets' /\ BoardSettled'
  <2>1. calls' = calls \ {c} /\ failed' = TRUE /\ UNCHANGED <<pushes, made, items, shownBy>>
    BY <1>2 DEF Today!ReadFails, Today!store
  <2> QED
    BY <1>0, <2>1 DEF BoardTickets, BoardSettled
<1>3. ASSUME NEW c \in calls, Today!CommandAnswered(c)
             PROVE pushes' \in Nat /\ BoardTickets' /\ BoardSettled'
  <2>1. c.kind # "rows" /\ UNCHANGED <<stored, pushes, selected, items, shownBy>>
    BY <1>3 DEF Today!CommandAnswered, Today!store, Today!picked, Today!Writes
  <2>2. CASE c.ok /\ c.day # None
    <3>1. PICK S \in SUBSET calls : S = calls \ {c}
      OBVIOUS
    <3> QED
      BY <1>0, <1>3, <2>1, <2>2, <3>1, TodayAsks DEF Today!CommandAnswered
  <2>3. CASE ~c.ok \/ c.day = None
    <3>1. calls' = calls \ {c} /\ made' = made /\ (failed' = failed \/ failed' = TRUE)
      BY <1>3, <2>3 DEF Today!CommandAnswered, Today!Refresh
    <3> QED
      BY <1>0, <2>1, <3>1, TodayKeepsReads
  <2> QED
    BY <2>2, <2>3
<1> QED
  BY <1>1, <1>2, <1>3

LEMMA TodayStepKeepsWhole ==
  ASSUME TodayAssumptions, TodayWhole, [Today!Next]_(Today!vars)
  PROVE  TodayWhole'
<1>a. TodayInv' /\ pushes \in Nat
  BY TodayStepKeepsInv DEF TodayWhole
<1>b. made \in Nat /\ made <= made /\ lens \in DOMAIN TodayOptions
  BY TodayCallsUsed DEF TodayWhole, TodayInv, TodayTypes
<1>0. /\ TodayInv' /\ pushes \in Nat /\ made \in Nat /\ made <= made /\ lens \in DOMAIN TodayOptions
      /\ \A l \in DOMAIN TodayOptions : Today!Landing(l) \in TodayOptions[l]
  BY <1>a, <1>b, TodayFilters
<1> SUFFICES pushes' \in Nat /\ BoardTickets' /\ BoardSettled'
  BY <1>0 DEF TodayWhole
<1>1. CASE UNCHANGED Today!vars
  BY <1>0, <1>1, TodayKeepsReads DEF Today!vars, Today!store, Today!picked
<1>2. ASSUME NEW f \in Today!Filters, Today!SelectDay(f)
             PROVE pushes' \in Nat /\ BoardTickets' /\ BoardSettled'
  BY <1>0, <1>2, TodayPicksWhole DEF Today!SelectDay, Today!store
<1>3. ASSUME NEW l \in DOMAIN TodayOptions, Today!SelectLens(l) \/ Today!ProbeAnswers(l)
             PROVE pushes' \in Nat /\ BoardTickets' /\ BoardSettled'
  BY <1>0, <1>3, TodayPicksWhole DEF Today!SelectLens, Today!ProbeAnswers, Today!store
<1>4. ASSUME NEW r \in items, NEW kind \in Today!Writes, Today!Command(r, kind)
             PROVE pushes' \in Nat /\ BoardTickets' /\ BoardSettled'
  <2>0. PICK n : n = Today!Call(kind, selected, r)
    OBVIOUS
  <2>1. n.ticket = made + 1 /\ n.kind # "rows"
    BY <2>0 DEF Today!Call, Today!Writes
  <2>2. calls' = calls \cup {n} /\ made' = made + 1
            /\ UNCHANGED <<stored, pushes, items, shownBy, selected, failed>>
    BY <1>4, <2>0 DEF Today!Command, Today!Sent, Today!store, Today!picked
  <2>3. \A d \in calls' \ {n} : d.ticket # n.ticket
    BY <2>1, <2>2, TodayCallsUsed
  <2> QED
    BY <1>0, <2>1, <2>2, <2>3, TodayKeepsReads
<1>5. ASSUME NEW a \in TodayAnimes, NEW line, Today!OtherWrite(a, line)
             PROVE pushes' \in Nat /\ BoardTickets' /\ BoardSettled'
  <2>1. Today!Store(a, line) /\ UNCHANGED <<calls, made, items, shownBy>>
    BY <1>5 DEF Today!OtherWrite
  <2>2. \A x, y \in calls : x.ticket = y.ticket => x = y
    BY DEF TodayWhole, BoardTickets
  <2> QED
    BY <2>1, <2>2, TodayStoresWhole
<1>6. ASSUME NEW c \in calls, NEW ok \in BOOLEAN, Today!Applied(c, ok)
             PROVE pushes' \in Nat /\ BoardTickets' /\ BoardSettled'
  <2>1. PICK to : /\ Today!Store(c.row.anime, to) /\ Today!Served(c, ok, {}) /\ ~c.served
                     /\ UNCHANGED <<made, items, shownBy>>
    BY <1>6 DEF Today!Applied
  <2> QED
    BY <2>1, TodayServedWhole, TodayStoresWhole
<1>7. ASSUME NEW c \in calls, Today!ServeRead(c) \/ Today!Refused(c) \/ Today!RowsArrive(c)
             PROVE pushes' \in Nat /\ BoardTickets' /\ BoardSettled'
  <2>1. pushes' = pushes
    BY <1>7 DEF Today!ServeRead, Today!Refused, Today!RowsArrive, Today!store
  <2> QED
    BY <1>0, <1>7, <2>1, TodayServesWhole, TodayArrivesWhole
<1> QED
  BY <1>1, <1>2, <1>3, <1>4, <1>5, <1>6, <1>7, TodayHearsWhole DEF Today!Next

LEMMA TodayRowsSettle == TodayWhole => Today!RowsSettle
<1> SUFFICES ASSUME TodayWhole, calls = {}, pushes = 0, ~failed, ~shownBy.overtaken,
        shownBy.day = selected
             PROVE  items = IF selected = None THEN {} ELSE Today!RowsOf(selected)
  BY DEF Today!RowsSettle
<1> QED
  BY DEF TodayWhole, BoardSettled, BoardShows, BoardTickets

\* For any animes, lenses and filters: a press on a card writes over no change its card
\* has not shown, since the row it names is refused once its token is old; and with every
\* read answered and every notice heard the board has the stored rows of its day.
THEOREM TodayIsSafe ==
  ASSUME TodayAssumptions
  PROVE  Today!Spec => [](Today!TypeOK /\ Today!OthersSurvive /\ Today!RowsSettle)
<1>1. Today!Init => TodayWhole
  BY TodayWholeInit
<1>2. TodayWhole /\ [Today!Next]_(Today!vars) => TodayWhole'
  BY TodayStepKeepsWhole
<1>3. TodayWhole => (Today!TypeOK /\ Today!OthersSurvive /\ Today!RowsSettle)
  BY TodayPromises, TodayRowsSettle DEF TodayWhole
<1> QED
  BY <1>1, <1>2, <1>3, PTL DEF Today!Spec

-----------------------------------------------------------------------------
(* The run history.  Whenever the list or the selection changes, the rows    *)
(* revealed are made to reach the run selected, and they only grow between.  *)

\* The reads of the list and of a story.
ListReads == [answer : {"none", "ok"}, rows : Seq(Runs!Statuses)]
StoryReads == [run : Nat, answer : {"none", "ok"}, steps : Nat]

RunsAssumptions ==
  /\ RunPage \in Nat \ {0} /\ RunsMost \in Nat /\ RunsCalls \in Nat
  /\ RunsPast \in Seq(Runs!Statuses) /\ Len(RunsPast) <= RunsMost
  /\ None \notin Nat /\ None \notin ListReads /\ None \notin StoryReads

RunsInv ==
  /\ runs \in Seq(Runs!Statuses) /\ runHistory \in Seq(Runs!Statuses)
  /\ read # None => read.rows \in Seq(Runs!Statuses)
  /\ visibleCount \in Nat \ {0}
  /\ selected \in DOMAIN runHistory => Len(runHistory) - selected + 1 <= visibleCount

LEMMA RunsLeast ==
  ASSUME NEW S \in SUBSET Nat, S # {} PROVE \E n \in S : \A m \in S : n <= m
<1>1. PICK R : R = {ss \in Nat \X Nat : ss[1] < ss[2]}
  OBVIOUS
<1>2. IsWellFoundedOn(R, Nat)
  BY <1>1, NatLessThanWellFounded, Zenon DEF OpToRel
<1>3. \E n \in S : \A m \in S : <<m, n>> \notin R
  BY <1>2, WFMin
<1>4. \A m, n \in Nat : <<m, n>> \in R <=> m < n
  BY <1>1
<1>5. PICK n \in S : \A m \in S : <<m, n>> \notin R
  BY <1>3
<1>6. ASSUME NEW m \in S PROVE n <= m
  <2>1. m \in Nat /\ n \in Nat /\ <<m, n>> \notin R
    BY <1>5
  <2>2. ~(m < n)
    BY <1>4, <2>1
  <2> QED
    BY <2>1, <2>2
<1> QED
  BY <1>6

LEMMA RunsOfTwo ==
  ASSUME NEW a \in Nat, NEW b \in Nat
  PROVE  /\ Runs!Max({a, b}) \in {a, b} /\ a <= Runs!Max({a, b}) /\ b <= Runs!Max({a, b})
         /\ Runs!Min({a, b}) \in {a, b} /\ Runs!Min({a, b}) <= a /\ Runs!Min({a, b}) <= b
<1>1. \E x \in {a, b} : \A y \in {a, b} : x >= y
  OBVIOUS
<1>2. \E x \in {a, b} : \A y \in {a, b} : x =< y
  OBVIOUS
<1>3. Runs!Max({a, b}) \in {a, b} /\ \A y \in {a, b} : Runs!Max({a, b}) >= y
  BY <1>1 DEF Runs!Max
<1>4. Runs!Min({a, b}) \in {a, b} /\ \A y \in {a, b} : Runs!Min({a, b}) =< y
  BY <1>2 DEF Runs!Min
<1> QED
  BY <1>3, <1>4

\* The rows to show reach down to the run selected.
LEMMA RunsReconciled ==
  ASSUME RunsAssumptions, NEW count \in Nat \ {0}, NEW before \in Nat,
         NEW list \in Seq(Runs!Statuses), NEW at
  PROVE  /\ Runs!Reconciled(count, before, list, at) \in Nat \ {0}
         /\ at \in DOMAIN list => Len(list) - at + 1 <= Runs!Reconciled(count, before, list, at)
<1>1. Len(list) \in Nat /\ DOMAIN list = 1..Len(list) /\ RunPage \in Nat \ {0}
  BY DEF RunsAssumptions
<1> DEFINE rest == Runs!ReconciledAlone(count, before, list, at)
<1>2. rest \in Nat \ {0}
  <2>1. CASE list = <<>>
    <3>2. rest = RunPage
      BY <2>1 DEF Runs!ReconciledAlone
    <3> QED
      BY <1>1, <3>2
  <2>2. CASE list # <<>>
    <3> DEFINE first == Runs!Min({Len(list), RunPage})
               had == Runs!Min({count, Len(list)})
               reached == Runs!Max({first, had})
    <3>1. Len(list) \in Nat \ {0}
      BY <1>1, <2>2
    <3>2. first \in Nat \ {0} /\ had \in Nat \ {0}
      BY <1>1, <3>1, RunsOfTwo
    <3>3. reached \in Nat \ {0}
      <4> HIDE DEF first, had
      <4> QED
        BY <3>2, RunsOfTwo
    <3>4. rest = Len(list) \/ rest = reached
      <4> HIDE DEF first, had
      <4>1. rest = IF list = <<>> THEN RunPage ELSE IF before > 0 /\ count >= before THEN Len(list)
                ELSE reached
        BY DEF Runs!ReconciledAlone, first, had
      <4> HIDE DEF rest, reached
      <4> QED
        BY <2>2, <4>1
    <3> QED
      BY <3>1, <3>3, <3>4
  <2> QED
    BY <2>1, <2>2
<1> HIDE DEF rest
<1>3. CASE at \in DOMAIN list
  <2> DEFINE reach == Len(list) - at + 1
  <2>1. reach \in Nat
    BY <1>1, <1>3
  <2>2. Runs!Reconciled(count, before, list, at) = Runs!Max({rest, reach})
    BY <1>3 DEF Runs!Reconciled, rest
  <2> HIDE DEF reach
  <2>3. Runs!Max({rest, reach}) \in {rest, reach} /\ rest <= Runs!Max({rest, reach})
            /\ reach <= Runs!Max({rest, reach})
    BY <1>2, <2>1, RunsOfTwo
  <2>4. Runs!Max({rest, reach}) \in Nat \ {0} /\ reach <= Runs!Max({rest, reach})
    BY <1>2, <2>1, <2>3
  <2> QED
    BY <2>2, <2>4 DEF reach
<1>4. CASE at \notin DOMAIN list
  BY <1>2, <1>4 DEF Runs!Reconciled, rest
<1> QED
  BY <1>3, <1>4

LEMMA RunsInit ==
  ASSUME RunsAssumptions, Runs!Init PROVE RunsInv
<1>1. runs = RunsPast /\ runHistory = <<>> /\ read = [answer |-> "none", rows |-> <<>>]
          /\ visibleCount = RunPage
  BY DEF Runs!Init, Runs!ListRead
<1>2. <<>> \in Seq(Runs!Statuses) /\ DOMAIN <<>> = {}
  OBVIOUS
<1> QED
  BY <1>1, <1>2 DEF RunsInv, RunsAssumptions

LEMMA RunsSame ==
  ASSUME RunsInv, runs' \in Seq(Runs!Statuses), read' # None => read'.rows \in Seq(Runs!Statuses),
         UNCHANGED <<runHistory, visibleCount, selected>>
  PROVE  RunsInv'
BY DEF RunsInv

LEMMA RunsEffect ==
  ASSUME RunsAssumptions, RunsInv, Runs!ListEffect, runs' = runs, runHistory' \in Seq(Runs!Statuses),
         read' # None => read'.rows \in Seq(Runs!Statuses)
  PROVE  RunsInv'
<1>1. CASE runHistory' = runHistory /\ selected' = selected
  BY <1>1, RunsSame DEF Runs!ListEffect, RunsInv
<1>2. CASE ~(runHistory' = runHistory /\ selected' = selected)
  <2>1. PICK before \in {Len(runHistory), Len(runHistory')} :
          visibleCount' = Runs!Reconciled(visibleCount, before, runHistory', selected')
    BY <1>2 DEF Runs!ListEffect
  <2>2. before \in Nat
    BY DEF RunsInv
  <2>3. PICK list, at : list \in Seq(Runs!Statuses) /\ list = runHistory' /\ at = selected'
    OBVIOUS
  <2>4. visibleCount' \in Nat \ {0} /\ (at \in DOMAIN list => Len(list) - at + 1 <= visibleCount')
    BY <2>1, <2>2, <2>3, RunsReconciled DEF RunsInv
  <2> QED
    BY <2>3, <2>4 DEF RunsInv
<1> QED
  BY <1>1, <1>2

LEMMA RunsBackend ==
  ASSUME RunsInv,
         \/ Runs!RunStarts \/ Runs!RunProgresses \/ Runs!RunFinishes \/ Runs!ServeList
               \/ Runs!ServeStory \/ Runs!EventHeard
         \/ Runs!StoryArrives \/ Runs!ToggleProblems \/ Runs!CancelRun
         \/ \E r \in DOMAIN runs : Runs!NoticeHeard(r) \/ Runs!Persist(r)
         \/ \E c \in calls : Runs!ServeStop(c) \/ Runs!StopAnswered(c)
  PROVE  RunsInv'
<1>1. UNCHANGED <<runHistory, visibleCount, selected>>
  BY DEF Runs!RunStarts, Runs!RunProgresses, Runs!RunFinishes, Runs!ServeList, Runs!ServeStory,
    Runs!EventHeard,
    Runs!StoryArrives, Runs!ToggleProblems, Runs!CancelRun, Runs!NoticeHeard, Runs!Persist,
    Runs!ServeStop, Runs!StopAnswered,
    Runs!store, Runs!panel
<1>2. runs' \in Seq(Runs!Statuses)
  <2>1. CASE Runs!RunStarts
    <3>1. runs' = Append(runs, "running") /\ "running" \in Runs!Statuses
      BY <2>1 DEF Runs!RunStarts, Runs!Statuses
    <3> QED
      BY <3>1 DEF RunsInv
  <2>2. CASE Runs!RunFinishes
    <3>1. runs' = runs \/ \E status \in Runs!Statuses : runs' = [runs EXCEPT ![current] = status]
      BY <2>2 DEF Runs!RunFinishes, Runs!Statuses
    <3> QED
      BY <3>1 DEF RunsInv
  <2>3. CASE runs' = runs
    BY <2>3 DEF RunsInv
  <2>4. Runs!RunStarts \/ Runs!RunFinishes \/ runs' = runs
    BY DEF Runs!RunProgresses, Runs!ServeList, Runs!ServeStory, Runs!EventHeard,
      Runs!StoryArrives, Runs!ToggleProblems, Runs!CancelRun, Runs!NoticeHeard, Runs!Persist,
      Runs!ServeStop, Runs!StopAnswered,
      Runs!backend
  <2> QED
    BY <2>1, <2>2, <2>3, <2>4
<1>3. read' # None => read'.rows \in Seq(Runs!Statuses)
  <2>1. read' = read \/ read' = [answer |-> "none", rows |-> <<>>]
            \/ read' = [answer |-> "ok", rows |-> runs]
    BY DEF Runs!RunStarts, Runs!RunProgresses, Runs!RunFinishes, Runs!ServeList, Runs!ServeStory,
      Runs!EventHeard,
      Runs!StoryArrives, Runs!ToggleProblems, Runs!CancelRun, Runs!NoticeHeard, Runs!Persist,
      Runs!ServeStop, Runs!StopAnswered,
      Runs!store, Runs!ListRead
  <2>2. <<>> \in Seq(Runs!Statuses) /\ runs \in Seq(Runs!Statuses)
    BY DEF RunsInv
  <2>3. CASE read' = read
    BY <2>3 DEF RunsInv
  <2>4. CASE read' = [answer |-> "none", rows |-> <<>>]
    BY <2>2, <2>4
  <2>5. CASE read' = [answer |-> "ok", rows |-> runs]
    BY <2>2, <2>5
  <2> QED
    BY <2>1, <2>3, <2>4, <2>5
<1> QED
  BY <1>1, <1>2, <1>3, RunsSame

LEMMA RunsPanel ==
  ASSUME RunsAssumptions, RunsInv, Runs!ListArrives \/ Runs!LoadMore \/ \E r \in DOMAIN runs :
         Runs!SelectRun(r)
  PROVE  RunsInv'
<1>1. CASE Runs!ListArrives
  <2>1. runs' = runs /\ runHistory' = read.rows /\ read # None /\ read' = None /\ Runs!ListEffect
    BY <1>1 DEF Runs!ListArrives, Runs!backend
  <2> QED
    BY <2>1, RunsEffect DEF RunsInv
<1>2. CASE \E r \in DOMAIN runs : Runs!SelectRun(r)
  <2>1. runs' = runs /\ runHistory' = runHistory /\ read' = read /\ Runs!ListEffect
    BY <1>2 DEF Runs!SelectRun, Runs!backend, Runs!store
  <2> QED
    BY <2>1, RunsEffect DEF RunsInv
<1>3. CASE Runs!LoadMore
  <2>1. /\ visibleCount' = Runs!Min({Len(runHistory), visibleCount + RunPage}) /\ runHistory # <<>>
        /\ UNCHANGED <<runs, runHistory, read, selected>>
    BY <1>3 DEF Runs!LoadMore, Runs!backend, Runs!store
  <2>2. Len(runHistory) \in Nat \ {0} /\ DOMAIN runHistory = 1..Len(runHistory)
            /\ visibleCount + RunPage \in Nat \ {0}
        /\ visibleCount <= visibleCount + RunPage
    BY <2>1 DEF RunsInv, RunsAssumptions
  <2>3. visibleCount' \in {Len(runHistory), visibleCount + RunPage}
    BY <2>1, <2>2, RunsOfTwo
  <2>4. visibleCount' \in Nat \ {0}
    BY <2>2, <2>3
  <2>5. selected \in DOMAIN runHistory => Len(runHistory) - selected + 1 <= visibleCount'
    BY <2>2, <2>3 DEF RunsInv
  <2> QED
    BY <2>1, <2>4, <2>5 DEF RunsInv
<1> QED
  BY <1>1, <1>2, <1>3

LEMMA RunsStepKeepsInv ==
  ASSUME RunsAssumptions, RunsInv, [Runs!Next]_(Runs!vars) PROVE RunsInv'
<1>1. CASE Runs!Next
  BY <1>1, RunsBackend, RunsPanel DEF Runs!Next, Runs!Arrives
<1>2. CASE UNCHANGED Runs!vars
  BY <1>2, RunsSame DEF Runs!vars, Runs!backend, Runs!store, Runs!panel, RunsInv
<1> QED
  BY <1>1, <1>2

\* A run logs a step when it starts and one when it is over.
RunsLogged ==
  /\ Len(runs) <= RunsMost /\ (current = None \/ current \in DOMAIN runs)
  /\ queued \in [1..RunsMost -> Nat] /\ steps \in [1..RunsMost -> Nat]
  /\ \A r \in 1..RunsMost :
       queued[r] + steps[r] <= IF r > Len(runs) THEN 0 ELSE IF current # None /\ r = current THEN 1
           ELSE 2
  /\ notices \subseteq DOMAIN runs /\ events \in BOOLEAN /\ cancelled \in BOOLEAN

\* What is shown and read is of the runs there are.
RunsListed ==
  /\ Len(runHistory) <= Len(runs) /\ (read # None => Len(read.rows) <= Len(runs))
  /\ selected = None \/ selected \in DOMAIN runs
  /\ visibleCount \in 1..Len(runs) \cup {RunPage}
  /\ reading # None => "run" \in DOMAIN reading /\ reading.run \in DOMAIN runs
  /\ failed => loaded /\ runHistory = <<>>
  /\ loaded \in BOOLEAN /\ failed \in BOOLEAN /\ problemsOnly \in BOOLEAN /\ unheard \in BOOLEAN
  /\ kept \in BOOLEAN

RunsAsked ==
  /\ made \in Nat /\ made <= RunsCalls
  /\ calls \subseteq [n : Nat, answer : {"none", "ok", "refused"}] /\ \A c \in calls : c.n <= made

RunsWhole == RunsInv /\ RunsLogged /\ RunsListed /\ RunsAsked

\* The list of runs only grows.
LEMMA RunsGrow ==
  ASSUME RunsInv, RunsLogged, [Runs!Next]_(Runs!vars)
  PROVE  /\ runs' \in Seq(Runs!Statuses) /\ DOMAIN runs = 1..Len(runs) /\ DOMAIN runs' = 1..Len(runs')
         /\ Len(runs) \in Nat /\ Len(runs') \in Nat /\ Len(runs) <= Len(runs')
         /\ Runs!RunStarts => Len(runs') = Len(runs) + 1
         /\ ~Runs!RunStarts => Len(runs') = Len(runs)
<1>1. runs \in Seq(Runs!Statuses)
  BY DEF RunsInv
<1>2. CASE Runs!RunStarts
  <2>1. runs' = Append(runs, "running") /\ "running" \in Runs!Statuses
    BY <1>2 DEF Runs!RunStarts, Runs!Statuses
  <2> QED
    BY <1>1, <1>2, <2>1
<1>3. CASE Runs!RunFinishes /\ ~Runs!RunStarts
  <2>1. runs' = runs \/ \E status \in Runs!Statuses : runs' = [runs EXCEPT ![current] = status]
    BY <1>3 DEF Runs!RunFinishes, Runs!Statuses
  <2> QED
    BY <1>1, <1>3, <2>1
<1>4. CASE ~Runs!RunFinishes /\ ~Runs!RunStarts
  <2>1. runs' = runs
    BY <1>4 DEF Runs!Next, Runs!Arrives, Runs!RunProgresses, Runs!ServeList, Runs!ServeStory,
      Runs!EventHeard,
      Runs!ListArrives, Runs!LoadMore, Runs!SelectRun, Runs!StoryArrives, Runs!ToggleProblems,
      Runs!CancelRun,
      Runs!NoticeHeard, Runs!Persist, Runs!ServeStop, Runs!StopAnswered, Runs!backend, Runs!vars
  <2> QED
    BY <1>1, <1>4, <2>1
<1> QED
  BY <1>2, <1>3, <1>4

LEMMA RunsLoggedStep ==
  ASSUME RunsAssumptions, RunsWhole, [Runs!Next]_(Runs!vars)
  PROVE  RunsLogged'
<1>0. /\ Len(runs) \in Nat /\ Len(runs') \in Nat /\ DOMAIN runs = 1..Len(runs)
            /\ DOMAIN runs' = 1..Len(runs')
      /\ RunsMost \in Nat /\ Len(runs) <= RunsMost
      /\ Runs!RunStarts => Len(runs') = Len(runs) + 1
      /\ ~Runs!RunStarts => Len(runs') = Len(runs)
  BY RunsGrow DEF RunsWhole, RunsAssumptions, RunsLogged
<1>a. PICK l, k : l = Len(runs) /\ k = Len(runs') /\ l \in Nat /\ k \in Nat /\ l <= RunsMost
    /\ RunsMost \in Nat
  BY <1>0
<1>b. \A r \in 1..RunsMost : r \in Nat /\ queued[r] \in Nat /\ steps[r] \in Nat
  <2>1. queued \in [1..RunsMost -> Nat] /\ steps \in [1..RunsMost -> Nat]
    BY DEF RunsWhole, RunsLogged
  <2>2. \A r \in 1..RunsMost : queued[r] \in Nat /\ steps[r] \in Nat
    BY <2>1
  <2>3. \A r \in 1..RunsMost : r \in Nat
    BY <1>a
  <2> QED
    BY <2>2, <2>3
<1>c. \A r \in 1..l : r \in 1..RunsMost
  BY <1>a
<1>d. \A r \in 1..RunsMost : queued[r] + steps[r] <= IF r > l THEN 0
    ELSE IF current # None /\ r = current THEN 1 ELSE 2
  BY <1>a DEF RunsWhole, RunsLogged
<1>1. CASE Runs!RunStarts
  <2>1. /\ current = None /\ Len(runs) < RunsMost /\ current' = Len(runs) + 1
        /\ queued' = [queued EXCEPT ![Len(runs) + 1] = queued[Len(runs) + 1] + 1]
        /\ events' = TRUE /\ UNCHANGED <<cancelled, steps, notices>>
    BY <1>1 DEF Runs!RunStarts, Runs!Log
  <2>2. PICK n \in Nat : n = Len(runs) + 1 /\ n = l + 1 /\ n = k
    BY <1>0, <1>1, <1>a
  <2>3. n \in 1..RunsMost /\ queued' = [queued EXCEPT ![n] = queued[n] + 1] /\ current' = n
            /\ Len(runs') = n
    BY <1>0, <1>1, <2>1, <2>2
  <2>4. queued' \in [1..RunsMost -> Nat] /\ \A r \in 1..RunsMost :
            queued'[r] = IF r = n THEN queued[n] + 1 ELSE queued[r]
    BY <2>3 DEF RunsWhole, RunsLogged
  <2>5. ASSUME NEW r \in 1..RunsMost
        PROVE  queued'[r] + steps'[r] <= IF r > Len(runs') THEN 0
               ELSE IF current' # None /\ r = current' THEN 1 ELSE 2
    <3>1. PICK x, y \in Nat : x = queued[r] /\ y = steps[r]
      BY <1>b
    <3>2. r \in Nat /\ x + y <= IF r > l THEN 0 ELSE 2
      BY <1>b, <1>d, <2>1, <3>1
    <3>3. CASE r = n
      <4>1. queued'[r] = x + 1 /\ steps'[r] = y
        BY <2>1, <2>4, <3>1, <3>3
      <4>2. x + y <= 0 /\ ~(r > k)
        BY <1>a, <2>2, <3>2, <3>3
      <4>3. x + 1 + y <= 1 /\ x + 1 + y <= 2
        BY <3>1, <4>2
      <4> QED
        BY <1>a, <4>1, <4>2, <4>3
    <3>4. CASE r # n
      <4>1. queued'[r] = x /\ steps'[r] = y /\ r # current'
        BY <2>1, <2>3, <2>4, <3>1, <3>4
      <4>2. r > k => r > l
        BY <1>a, <2>2, <3>2
      <4>3. x + y <= 2 /\ (r > k => x + y <= 0)
        <5>1. CASE r > l
          <6>1. x + y <= 0
            BY <3>2, <5>1
          <6> QED
            BY <3>1, <6>1
        <5>2. CASE ~(r > l)
          BY <3>2, <4>2, <5>2
        <5> QED
          BY <5>1, <5>2
      <4> QED
        BY <1>a, <4>1, <4>3
    <3> QED
      BY <3>3, <3>4
  <2>6. current' \in DOMAIN runs' /\ Len(runs') <= RunsMost /\ DOMAIN runs \subseteq DOMAIN runs'
    <3>1. DOMAIN runs = 1..l /\ DOMAIN runs' = 1..n
      BY <1>0, <1>a, <2>2
    <3>2. n \in 1..n /\ 1..l \subseteq 1..n /\ n <= RunsMost
      BY <1>a, <2>2, <2>3
    <3> QED
      BY <2>3, <3>1, <3>2
  <2> QED
    BY <2>1, <2>4, <2>5, <2>6 DEF RunsWhole, RunsLogged
<1>2. CASE Runs!RunFinishes /\ ~Runs!RunStarts
  <2>1. /\ current # None /\ current' = None /\ queued'
              = [queued EXCEPT ![current] = queued[current] + 1]
        /\ cancelled' = FALSE /\ events' = TRUE /\ UNCHANGED <<steps, notices>>
    BY <1>2 DEF Runs!RunFinishes, Runs!Log
  <2>2. current \in 1..RunsMost /\ current \in 1..l
    <3>1. current \in 1..l
      BY <1>0, <1>a, <2>1 DEF RunsWhole, RunsLogged
    <3> QED
      BY <1>c, <3>1
  <2>3. queued' \in [1..RunsMost -> Nat]
        /\ \A r \in 1..RunsMost : queued'[r] = IF r = current THEN queued[current] + 1 ELSE queued[r]
    BY <2>1, <2>2 DEF RunsWhole, RunsLogged
  <2>4. ASSUME NEW r \in 1..RunsMost
        PROVE  queued'[r] + steps'[r] <= IF r > Len(runs') THEN 0 ELSE 2
    <3>1. PICK x, y \in Nat : x = queued[r] /\ y = steps[r]
      BY <1>b
    <3>2. x + y <= IF r > l THEN 0 ELSE IF r = current THEN 1 ELSE 2
      BY <1>d, <2>1, <3>1
    <3>3. Len(runs') = l
      BY <1>0, <1>2, <1>a
    <3>4. CASE r = current
      <4>1. queued'[r] = x + 1 /\ steps'[r] = y
        BY <2>1, <2>2, <2>3, <3>1, <3>4
      <4>2. ~(r > l) /\ r \in Nat
        BY <1>a, <2>2, <3>4
      <4> QED
        BY <3>1, <3>2, <3>3, <3>4, <4>1, <4>2
    <3>5. CASE r # current
      <4>1. queued'[r] = x /\ steps'[r] = y
        BY <2>1, <2>3, <3>1, <3>5
      <4> QED
        BY <3>2, <3>3, <3>5, <4>1
    <3> QED
      BY <3>4, <3>5
  <2> QED
    BY <1>0, <1>2, <2>1, <2>3, <2>4 DEF RunsWhole, RunsLogged
<1>3. ASSUME NEW q \in DOMAIN runs, Runs!Persist(q), ~Runs!RunStarts PROVE RunsLogged'
  <2>1. /\ queued[q] > 0 /\ queued' = [queued EXCEPT ![q] = queued[q] - 1]
        /\ steps' = [steps EXCEPT ![q] = steps[q] + 1]
        /\ notices' = notices \cup {q} /\ UNCHANGED <<runs, current, cancelled, events>>
    BY <1>3 DEF Runs!Persist
  <2>2. q \in 1..RunsMost /\ queued[q] \in Nat /\ steps[q] \in Nat
    BY <1>0, <1>a, <1>b, <1>c
  <2>3. /\ queued' \in [1..RunsMost -> Nat] /\ steps' \in [1..RunsMost -> Nat]
        /\ \A r \in 1..RunsMost : /\ queued'[r] = IF r = q THEN queued[q] - 1 ELSE queued[r]
                                  /\ steps'[r] = IF r = q THEN steps[q] + 1 ELSE steps[r]
    BY <2>1, <2>2 DEF RunsWhole, RunsLogged
  <2>4. \A r \in 1..RunsMost : queued'[r] + steps'[r] = queued[r] + steps[r]
    <3> TAKE r \in 1..RunsMost
    <3>1. queued[r] \in Nat /\ steps[r] \in Nat
      BY DEF RunsWhole, RunsLogged
    <3> QED
      BY <2>2, <2>3, <3>1
  <2> QED
    BY <2>1, <2>3, <2>4 DEF RunsWhole, RunsLogged
<1>4. CASE UNCHANGED <<runs, current, queued, steps>> /\ cancelled' \in BOOLEAN
           /\ events' \in BOOLEAN /\ notices' \subseteq notices
  BY <1>4 DEF RunsWhole, RunsLogged
<1>5. CASE ~Runs!RunStarts /\ ~Runs!RunFinishes /\ ~\E q \in DOMAIN runs : Runs!Persist(q)
  <2>1. UNCHANGED <<runs, current, queued, steps>>
    BY <1>5 DEF Runs!Next, Runs!Arrives, Runs!RunProgresses, Runs!ServeList, Runs!ServeStory,
      Runs!EventHeard,
      Runs!ListArrives, Runs!LoadMore, Runs!SelectRun, Runs!StoryArrives, Runs!ToggleProblems,
      Runs!CancelRun,
      Runs!NoticeHeard, Runs!ServeStop, Runs!StopAnswered, Runs!backend, Runs!vars
  <2>2. cancelled' = cancelled \/ cancelled' = (current # None)
    BY <1>5 DEF Runs!Next, Runs!Arrives, Runs!RunProgresses, Runs!ServeList, Runs!ServeStory,
      Runs!EventHeard,
      Runs!ListArrives, Runs!LoadMore, Runs!SelectRun, Runs!StoryArrives, Runs!ToggleProblems,
      Runs!CancelRun,
      Runs!NoticeHeard, Runs!ServeStop, Runs!StopAnswered, Runs!backend, Runs!vars
  <2>3. events' = events \/ events' = TRUE \/ events' = FALSE
    BY <1>5 DEF Runs!Next, Runs!Arrives, Runs!RunProgresses, Runs!ServeList, Runs!ServeStory,
      Runs!EventHeard,
      Runs!ListArrives, Runs!LoadMore, Runs!SelectRun, Runs!StoryArrives, Runs!ToggleProblems,
      Runs!CancelRun,
      Runs!NoticeHeard, Runs!ServeStop, Runs!StopAnswered, Runs!vars
  <2>4. notices' = notices \/ \E r \in DOMAIN runs : notices' = notices \ {r}
    BY <1>5 DEF Runs!Next, Runs!Arrives, Runs!RunProgresses, Runs!ServeList, Runs!ServeStory,
      Runs!EventHeard,
      Runs!ListArrives, Runs!LoadMore, Runs!SelectRun, Runs!StoryArrives, Runs!ToggleProblems,
      Runs!CancelRun,
      Runs!NoticeHeard, Runs!ServeStop, Runs!StopAnswered, Runs!vars
  <2>5. cancelled' \in BOOLEAN
    <3>1. cancelled \in BOOLEAN /\ (current # None) \in BOOLEAN
      BY DEF RunsWhole, RunsLogged
    <3> QED
      BY <2>2, <3>1
  <2>6. events' \in BOOLEAN
    BY <2>3 DEF RunsWhole, RunsLogged
  <2> QED
    BY <1>4, <2>1, <2>4, <2>5, <2>6
<1> QED
  BY <1>1, <1>2, <1>3, <1>5

LEMMA RunsTop ==
  ASSUME NEW n \in Nat, NEW S \in SUBSET (1..n), S # {}
  PROVE  Runs!Max(S) \in S /\ \A y \in S : Runs!Max(S) >= y
<1> DEFINE below == {m \in Nat : \E r \in S : m = n - r}
<1>1. \A r \in S : n - r \in below
  OBVIOUS
<1>2. below \in SUBSET Nat /\ below # {}
  BY <1>1
<1>3. PICK least \in below : \A m \in below : least <= m
  BY <1>2, RunsLeast
<1>4. PICK x \in S : least = n - x
  BY <1>3
<1>5. \A y \in S : n - x <= n - y
  BY <1>1, <1>3, <1>4
<1>6. \A y \in S : x >= y
  BY <1>5
<1> QED
  BY <1>6 DEF Runs!Max

\* The run shown is one of the list.
LEMMA RunsShownIsListed ==
  ASSUME NEW list \in Seq(Runs!Statuses), NEW at, NEW problems,
         Runs!SelectedIn(list, at, problems) # None
  PROVE  Runs!SelectedIn(list, at, problems) \in DOMAIN list
<1>1. Len(list) \in Nat /\ DOMAIN list = 1..Len(list)
  OBVIOUS
<1> DEFINE listed == Runs!Listed(list, problems)
<1>2. listed \subseteq 1..Len(list)
  BY <1>1 DEF Runs!Listed
<1>3. CASE at \in listed
  BY <1>1, <1>2, <1>3 DEF Runs!SelectedIn
<1>4. CASE at \notin listed
  <2>1. Runs!SelectedIn(list, at, problems) = Runs!Newest(listed)
    BY <1>4 DEF Runs!SelectedIn
  <2>2. listed # {} /\ Runs!Newest(listed) = Runs!Max(listed)
    BY <2>1 DEF Runs!Newest
  <2> HIDE DEF listed
  <2>3. Runs!Max(listed) \in listed
    BY <1>1, <1>2, <2>2, RunsTop
  <2> QED
    BY <1>1, <1>2, <2>1, <2>2, <2>3
<1> QED
  BY <1>3, <1>4

\* No more rows are revealed than there are, or a page of an empty list.
LEMMA RunsReconciledFits ==
  ASSUME RunsAssumptions, NEW count \in Nat \ {0}, NEW before \in Nat,
         NEW list \in Seq(Runs!Statuses), NEW at
  PROVE  Runs!Reconciled(count, before, list, at) \in 1..Len(list) \cup {RunPage}
<1>1. Len(list) \in Nat /\ DOMAIN list = 1..Len(list) /\ RunPage \in Nat \ {0}
  BY DEF RunsAssumptions
<1> DEFINE rest == Runs!ReconciledAlone(count, before, list, at)
<1>2. (rest = RunPage /\ list = <<>>) \/ rest \in 1..Len(list)
  <2>1. CASE list = <<>>
    BY <2>1 DEF Runs!ReconciledAlone
  <2>2. CASE list # <<>>
    <3> DEFINE first == Runs!Min({Len(list), RunPage})
               had == Runs!Min({count, Len(list)})
               reached == Runs!Max({first, had})
    <3>1. Len(list) \in Nat \ {0}
      BY <1>1, <2>2
    <3>2. first \in 1..Len(list) /\ had \in 1..Len(list)
      <4>1. first \in {Len(list), RunPage} /\ first <= Len(list)
        BY <1>1, RunsOfTwo
      <4>2. had \in {count, Len(list)} /\ had <= Len(list)
        BY <1>1, RunsOfTwo
      <4> HIDE DEF first, had
      <4>3. first \in Nat \ {0}
        <5>1. first = Len(list) \/ first = RunPage
          BY <4>1
        <5> QED
          BY <1>1, <3>1, <5>1
      <4>4. had \in Nat \ {0}
        <5>1. had = Len(list) \/ had = count
          BY <4>2
        <5> QED
          BY <3>1, <5>1
      <4> QED
        BY <3>1, <4>1, <4>2, <4>3, <4>4
    <3>3. reached \in 1..Len(list)
      <4> HIDE DEF first, had
      <4>1. first \in Nat /\ had \in Nat
        BY <3>2
      <4>2. reached \in {first, had}
        BY <4>1, RunsOfTwo
      <4> QED
        BY <3>2, <4>2
    <3>4. rest = Len(list) \/ rest = reached
      <4> HIDE DEF first, had
      <4>1. rest = IF list = <<>> THEN RunPage ELSE IF before > 0 /\ count >= before THEN Len(list)
                ELSE reached
        BY DEF Runs!ReconciledAlone, first, had
      <4> HIDE DEF rest, reached
      <4> QED
        BY <2>2, <4>1
    <3> HIDE DEF rest, reached
    <3> QED
      BY <3>1, <3>3, <3>4
  <2> QED
    BY <2>1, <2>2
<1> HIDE DEF rest
<1>3. CASE at \in DOMAIN list
  <2> DEFINE reach == Len(list) - at + 1
  <2>1. reach \in 1..Len(list) /\ rest \in 1..Len(list)
    <3>1. at \in 1..Len(list) /\ list # <<>>
      BY <1>1, <1>3
    <3> QED
      BY <1>1, <1>2, <3>1
  <2>2. Runs!Reconciled(count, before, list, at) = Runs!Max({rest, reach})
    BY <1>3 DEF Runs!Reconciled, rest
  <2> HIDE DEF reach
  <2>3. rest \in Nat /\ reach \in Nat
    BY <2>1
  <2>4. Runs!Max({rest, reach}) \in {rest, reach}
    BY <2>3, RunsOfTwo
  <2> QED
    BY <2>1, <2>2, <2>4
<1>4. CASE at \notin DOMAIN list
  BY <1>2, <1>4 DEF Runs!Reconciled, rest
<1> QED
  BY <1>3, <1>4

\* A list that is read or a run that is selected leaves as many rows as there are.
LEMMA RunsRevealed ==
  ASSUME RunsAssumptions, RunsWhole, Runs!ListEffect, runHistory' \in Seq(Runs!Statuses),
         Len(runHistory') <= Len(runs)
  PROVE  visibleCount' \in 1..Len(runs) \cup {RunPage}
<1>1. CASE visibleCount' = visibleCount
  BY <1>1 DEF RunsWhole, RunsListed
<1>2. CASE visibleCount' # visibleCount
  <2>1. PICK before \in {Len(runHistory), Len(runHistory')} :
          visibleCount' = Runs!Reconciled(visibleCount, before, runHistory', selected')
    BY <1>2 DEF Runs!ListEffect
  <2>2. before \in Nat /\ visibleCount \in Nat \ {0} /\ Len(runs) \in Nat
    BY DEF RunsWhole, RunsInv
  <2>3. PICK list, at : list \in Seq(Runs!Statuses) /\ list = runHistory' /\ at = selected'
            /\ Len(list) <= Len(runs)
    OBVIOUS
  <2>4. visibleCount' \in 1..Len(list) \cup {RunPage}
    BY <2>1, <2>2, <2>3, RunsReconciledFits
  <2>5. PICK l, k \in Nat : l = Len(list) /\ k = Len(runs) /\ l <= k
    BY <2>2, <2>3
  <2> QED
    BY <2>4, <2>5
<1> QED
  BY <1>1, <1>2

\* The story that is read is of a run of the list.
LEMMA RunsToldOf ==
  ASSUME RunsWhole, NEW a, NEW b, Runs!StoryEffect(a, b), runHistory' \in Seq(Runs!Statuses),
         Len(runHistory') <= Len(runs)
  PROVE  (reading' # None => "run" \in DOMAIN reading' /\ reading'.run \in DOMAIN runs) /\ kept' = kept
<1>1. PICK list, at, problems : list = runHistory' /\ at = selected' /\ problems = problemsOnly'
  OBVIOUS
<1>2. PICK shown : shown = Runs!SelectedIn(list, at, problems)
  OBVIOUS
<1>3. /\ reading' = None \/ reading' = reading \/ (shown # None /\ reading' = Runs!Story(shown))
      /\ kept' = kept
  BY <1>1, <1>2 DEF Runs!StoryEffect
<1>4. list \in Seq(Runs!Statuses) /\ Len(list) <= Len(runs) /\ Len(list) \in Nat /\ Len(runs) \in Nat
      /\ DOMAIN list = 1..Len(list) /\ DOMAIN runs = 1..Len(runs)
  BY <1>1 DEF RunsWhole, RunsInv
<1>5. shown # None => shown \in DOMAIN runs
  <2>1. shown # None => shown \in DOMAIN list
    BY <1>2, <1>4, RunsShownIsListed
  <2> QED
    BY <1>4, <2>1
<1>6. Runs!Story(shown).run = shown /\ "run" \in DOMAIN Runs!Story(shown)
  BY DEF Runs!Story
<1>7. CASE reading' = None \/ reading' = reading
  BY <1>3, <1>7 DEF RunsWhole, RunsListed
<1>8. CASE shown # None /\ reading' = Runs!Story(shown)
  BY <1>3, <1>5, <1>6, <1>8
<1> QED
  BY <1>3, <1>7, <1>8

\* What a step leaves alone still fits when runs are added.
LEMMA RunsListKept ==
  ASSUME RunsWhole, UNCHANGED <<runHistory, selected, visibleCount, reading, read, loaded, failed,
         problemsOnly, unheard, kept>>,
         Len(runs') \in Nat, Len(runs) <= Len(runs'), DOMAIN runs' = 1..Len(runs')
  PROVE  RunsListed'
<1>1. PICK l, k \in Nat : l = Len(runs) /\ k = Len(runs') /\ l <= k /\ DOMAIN runs = 1..l
          /\ DOMAIN runs' = 1..k
  <2>1. runs \in Seq(Runs!Statuses)
    BY DEF RunsWhole, RunsInv
  <2>2. Len(runs) \in Nat /\ DOMAIN runs = 1..Len(runs)
    BY <2>1
  <2> QED
    BY <2>2
<1>2. 1..l \subseteq 1..k
  BY <1>1
<1>3. Len(runHistory) \in Nat /\ Len(runHistory) <= k
  BY <1>1 DEF RunsWhole, RunsInv, RunsListed
<1>4. read # None => Len(read.rows) <= k
  BY <1>1 DEF RunsWhole, RunsInv, RunsListed
<1>5. (selected = None \/ selected \in 1..k) /\ visibleCount \in 1..k \cup {RunPage}
          /\ (reading # None => "run" \in DOMAIN reading /\ reading.run \in 1..k)
  BY <1>1, <1>2 DEF RunsWhole, RunsListed
<1>6. (failed => loaded /\ runHistory = <<>>) /\ loaded \in BOOLEAN /\ failed \in BOOLEAN
          /\ problemsOnly \in BOOLEAN
      /\ unheard \in BOOLEAN /\ kept \in BOOLEAN
  BY DEF RunsWhole, RunsListed
<1> QED
  BY <1>1, <1>3, <1>4, <1>5, <1>6 DEF RunsListed

LEMMA RunsListedStep ==
  ASSUME RunsAssumptions, RunsWhole, [Runs!Next]_(Runs!vars)
  PROVE  RunsListed'
<1>0. /\ Len(runs) \in Nat /\ Len(runs') \in Nat /\ DOMAIN runs = 1..Len(runs)
            /\ DOMAIN runs' = 1..Len(runs')
      /\ Len(runs) <= Len(runs')
  BY RunsGrow DEF RunsWhole
<1>a. /\ runHistory \in Seq(Runs!Statuses) /\ Len(runHistory) <= Len(runs)
      /\ read # None => read.rows \in Seq(Runs!Statuses) /\ Len(read.rows) <= Len(runs)
  BY DEF RunsWhole, RunsInv, RunsListed
<1>1. CASE \/ Runs!RunStarts \/ Runs!RunProgresses \/ Runs!RunFinishes \/ Runs!CancelRun
           \/ \E r \in DOMAIN runs : Runs!Persist(r)
           \/ \E c \in calls : Runs!ServeStop(c) \/ Runs!StopAnswered(c)
           \/ UNCHANGED Runs!vars
  <2>1. UNCHANGED <<runHistory, selected, visibleCount, reading, read, loaded, failed, problemsOnly,
            unheard, kept>>
    BY <1>1 DEF Runs!RunStarts, Runs!RunProgresses, Runs!RunFinishes, Runs!CancelRun, Runs!Persist,
      Runs!ServeStop,
      Runs!StopAnswered, Runs!vars, Runs!store, Runs!panel, Runs!story
  <2> QED
    BY <1>0, <2>1, RunsListKept
<1>2. CASE Runs!ServeList \/ Runs!EventHeard
  <2>1. /\ UNCHANGED <<runHistory, selected, visibleCount, reading, loaded, failed, problemsOnly,
              kept, runs>>
        /\ unheard' = unheard \/ unheard' = (unheard \/ ~loaded)
        /\ read' = read \/ read' = [answer |-> "ok", rows |-> runs]
              \/ read' = [answer |-> "none", rows |-> <<>>]
    BY <1>2 DEF Runs!ServeList, Runs!EventHeard, Runs!ListRead, Runs!backend, Runs!panel, Runs!story
  <2>2. read' # None => Len(read'.rows) <= Len(runs)
    <3>1. CASE read' = read
      BY <1>a, <3>1
    <3>2. CASE read' = [answer |-> "ok", rows |-> runs]
      BY <1>0, <3>2
    <3>3. CASE read' = [answer |-> "none", rows |-> <<>>]
      BY <1>0, <3>3
    <3> QED
      BY <2>1, <3>1, <3>2, <3>3
  <2>3. unheard' \in BOOLEAN
    <3>1. unheard \in BOOLEAN /\ loaded \in BOOLEAN
      BY DEF RunsWhole, RunsListed
    <3> QED
      BY <2>1, <3>1
  <2> QED
    BY <2>1, <2>2, <2>3 DEF RunsWhole, RunsListed
<1>3. CASE Runs!ListArrives
  <2>1. /\ read # None /\ runHistory' = read.rows /\ loaded' = TRUE
              /\ failed' = (read = Runs!ListRead) /\ read' = None
        /\ UNCHANGED <<runs, unheard, selected, problemsOnly>> /\ Runs!ListEffect
              /\ Runs!StoryEffect(TRUE, FALSE)
    BY <1>3 DEF Runs!ListArrives, Runs!backend
  <2>2. runHistory' \in Seq(Runs!Statuses) /\ Len(runHistory') <= Len(runs)
    BY <1>a, <2>1
  <2>3. visibleCount' \in 1..Len(runs) \cup {RunPage}
    BY <2>1, <2>2, RunsRevealed
  <2>4. (reading' # None => "run" \in DOMAIN reading' /\ reading'.run \in DOMAIN runs) /\ kept' = kept
    BY <2>1, <2>2, RunsToldOf
  <2>5. (failed' => loaded' /\ runHistory' = <<>>) /\ failed' \in BOOLEAN /\ loaded' \in BOOLEAN
    <3>1. CASE read = Runs!ListRead
      <4>1. runHistory' = <<>>
        BY <2>1, <3>1 DEF Runs!ListRead
      <4> QED
        BY <2>1, <4>1
    <3>2. CASE read # Runs!ListRead
      BY <2>1, <3>2
    <3> QED
      BY <3>1, <3>2
  <2> QED
    BY <2>1, <2>2, <2>3, <2>4, <2>5 DEF RunsWhole, RunsListed
<1>4. CASE Runs!ServeStory
  <2>1. /\ reading # None /\ reading' = [reading EXCEPT !.answer = "ok", !.steps = steps[reading.run]]
        /\ UNCHANGED <<runs, runHistory, selected, visibleCount, read, loaded, failed, problemsOnly,
              unheard, kept>>
    BY <1>4 DEF Runs!ServeStory, Runs!backend, Runs!store, Runs!panel
  <2>2. "run" \in DOMAIN reading' /\ reading'.run \in DOMAIN runs
    <3>1. reading.run \in DOMAIN runs
      BY <2>1 DEF RunsWhole, RunsListed
    <3>2. "run" \in DOMAIN reading
      BY <2>1 DEF RunsWhole, RunsListed
    <3>3. "run" \in DOMAIN reading' /\ reading'.run = reading.run
      BY <2>1, <3>2
    <3> QED
      BY <3>1, <3>3
  <2> QED
    BY <2>1, <2>2 DEF RunsWhole, RunsListed
<1>5. CASE Runs!StoryArrives
  <2>1. /\ reading' = None /\ UNCHANGED <<runs, runHistory, selected, visibleCount, read, loaded,
              failed, problemsOnly, unheard>>
    BY <1>5 DEF Runs!StoryArrives, Runs!backend, Runs!store, Runs!panel
  <2>2. kept' \in BOOLEAN
    BY <1>5 DEF Runs!StoryArrives
  <2> QED
    BY <2>1, <2>2 DEF RunsWhole, RunsListed
<1>6. CASE \E r \in DOMAIN runs : Runs!NoticeHeard(r)
  <2>1. /\ UNCHANGED <<runs, runHistory, selected, visibleCount, read, loaded, failed, problemsOnly,
              unheard>>
        /\ \E a, b \in BOOLEAN : Runs!StoryEffect(a, b)
    BY <1>6 DEF Runs!NoticeHeard, Runs!backend, Runs!store, Runs!panel
  <2>2. (reading' # None => "run" \in DOMAIN reading' /\ reading'.run \in DOMAIN runs) /\ kept' = kept
    BY <1>a, <2>1, RunsToldOf
  <2> QED
    BY <2>1, <2>2 DEF RunsWhole, RunsListed
<1>7. CASE \E r \in DOMAIN runs : Runs!SelectRun(r)
  <2>1. /\ UNCHANGED <<runs, runHistory, read, loaded, failed, problemsOnly, unheard>>
        /\ Runs!StoryEffect(FALSE, FALSE) /\ Runs!ListEffect /\ selected' \in DOMAIN runs
    BY <1>7 DEF Runs!SelectRun, Runs!backend, Runs!store
  <2>2. (reading' # None => "run" \in DOMAIN reading' /\ reading'.run \in DOMAIN runs) /\ kept' = kept
    BY <1>a, <2>1, RunsToldOf
  <2>3. visibleCount' \in 1..Len(runs) \cup {RunPage}
    BY <1>a, <2>1, RunsRevealed
  <2> QED
    BY <2>1, <2>2, <2>3 DEF RunsWhole, RunsListed
<1>8. CASE Runs!ToggleProblems
  <2>1. /\ UNCHANGED <<runs, runHistory, selected, visibleCount, read, loaded, failed, unheard>>
        /\ Runs!StoryEffect(FALSE, FALSE) /\ problemsOnly' = ~problemsOnly
    BY <1>8 DEF Runs!ToggleProblems, Runs!backend, Runs!store
  <2>2. (reading' # None => "run" \in DOMAIN reading' /\ reading'.run \in DOMAIN runs) /\ kept' = kept
    BY <1>a, <2>1, RunsToldOf
  <2>3. problemsOnly' \in BOOLEAN
    BY <2>1
  <2> QED
    BY <2>1, <2>2, <2>3 DEF RunsWhole, RunsListed
<1>9. CASE Runs!LoadMore
  <2>1. /\ visibleCount' = Runs!Min({Len(runHistory), visibleCount + RunPage}) /\ runHistory # <<>>
        /\ UNCHANGED <<runs, runHistory, selected, reading, read, loaded, failed, problemsOnly,
              unheard, kept>>
    BY <1>9 DEF Runs!LoadMore, Runs!backend, Runs!store, Runs!story
  <2>2. PICK h, v, k \in Nat : h = Len(runHistory) /\ v = visibleCount + RunPage /\ k = Len(runs)
            /\ h > 0 /\ v > 0 /\ h <= k
    <3>1. runHistory \in Seq(Runs!Statuses) /\ Len(runHistory) \in Nat /\ Len(runHistory) > 0
      BY <1>a, <2>1
    <3>2. visibleCount \in Nat \ {0} /\ RunPage \in Nat \ {0}
      BY DEF RunsWhole, RunsInv, RunsAssumptions
    <3>3. visibleCount + RunPage \in Nat /\ visibleCount + RunPage > 0
      BY <3>2
    <3> QED
      BY <1>0, <1>a, <3>1, <3>3
  <2>3. Runs!Min({h, v}) \in {h, v} /\ Runs!Min({h, v}) <= h
    BY RunsOfTwo
  <2>4. visibleCount' \in 1..k
    BY <2>1, <2>2, <2>3
  <2> QED
    BY <2>1, <2>2, <2>4 DEF RunsWhole, RunsListed
<1> QED
  BY <1>1, <1>2, <1>3, <1>4, <1>5, <1>6, <1>7, <1>8, <1>9 DEF Runs!Next, Runs!Arrives

\* A stop that was asked for is refused or obeyed, and its number is no later than the last asked.
LEMMA RunsAskedStep ==
  ASSUME RunsAssumptions, RunsWhole, [Runs!Next]_(Runs!vars)
  PROVE  RunsAsked'
<1>0. made \in Nat /\ RunsCalls \in Nat /\ made <= RunsCalls
      /\ calls \subseteq [n : Nat, answer : {"none", "ok", "refused"}] /\ \A c \in calls : c.n <= made
  BY DEF RunsAssumptions, RunsWhole, RunsAsked
<1>1. made' \in Nat /\ made <= made' /\ made' <= RunsCalls
  <2>1. made' = made \/ (made < RunsCalls /\ made' = made + 1)
    BY DEF Runs!Next, Runs!Arrives, Runs!RunStarts, Runs!RunProgresses, Runs!RunFinishes,
      Runs!EventHeard, Runs!ServeList,
      Runs!ListArrives, Runs!ServeStory, Runs!StoryArrives, Runs!NoticeHeard, Runs!Persist,
      Runs!ServeStop, Runs!StopAnswered,
      Runs!ToggleProblems, Runs!LoadMore, Runs!CancelRun, Runs!SelectRun, Runs!vars
  <2> QED
    BY <1>0, <2>1
<1>2. CASE Runs!CancelRun
  <2>1. calls' = calls \cup {[n |-> made', answer |-> "none"]}
    BY <1>2 DEF Runs!CancelRun
  <2> QED
    BY <1>0, <1>1, <2>1 DEF RunsAsked
<1>3. ASSUME NEW c \in calls, Runs!ServeStop(c) PROVE RunsAsked'
  <2>1. PICK given \in {"ok", "refused"} : calls' = (calls \ {c}) \cup {[c EXCEPT !.answer = given]}
    BY <1>3 DEF Runs!ServeStop
  <2>2. [c EXCEPT !.answer = given] \in [n : Nat, answer : {"none", "ok", "refused"}]
            /\ [c EXCEPT !.answer = given].n = c.n
    BY <1>0
  <2>3. \A d \in calls' : d.n <= made
    BY <1>0, <2>1, <2>2
  <2>4. calls' \subseteq [n : Nat, answer : {"none", "ok", "refused"}]
    BY <1>0, <2>1, <2>2
  <2>5. \A d \in calls' : d.n <= made'
    BY <1>0, <1>1, <2>3, <2>4
  <2> QED
    BY <1>1, <2>4, <2>5 DEF RunsAsked
<1>4. CASE ~Runs!CancelRun /\ ~\E c \in calls : Runs!ServeStop(c)
  <2>1. calls' \subseteq calls
    BY <1>4 DEF Runs!Next, Runs!Arrives, Runs!RunStarts, Runs!RunProgresses, Runs!RunFinishes,
      Runs!EventHeard, Runs!ServeList,
      Runs!ListArrives, Runs!ServeStory, Runs!StoryArrives, Runs!NoticeHeard, Runs!Persist,
      Runs!StopAnswered,
      Runs!ToggleProblems, Runs!LoadMore, Runs!SelectRun, Runs!vars, Runs!stop
  <2> QED
    BY <1>0, <1>1, <2>1 DEF RunsAsked
<1> QED
  BY <1>2, <1>3, <1>4

LEMMA RunsWholeInit ==
  ASSUME RunsAssumptions, Runs!Init PROVE RunsWhole
<1>1. RunsInv
  BY RunsInit
<1>0. Len(RunsPast) \in Nat /\ DOMAIN RunsPast = 1..Len(RunsPast) /\ Len(RunsPast) <= RunsMost
          /\ RunsMost \in Nat /\ RunsCalls \in Nat
  BY DEF RunsAssumptions
<1>2. /\ runs = RunsPast /\ current = None /\ cancelled = FALSE /\ queued = [r \in 1..RunsMost |-> 0]
      /\ steps = [r \in 1..RunsMost |-> IF r <= Len(RunsPast) THEN 1 ELSE 0]
      /\ events = FALSE /\ notices = {} /\ made = 0
      /\ runHistory = <<>> /\ loaded = FALSE /\ failed = FALSE
            /\ read = [answer |-> "none", rows |-> <<>>] /\ unheard = FALSE
      /\ selected = None /\ problemsOnly = FALSE /\ visibleCount = RunPage /\ reading = None
            /\ kept = FALSE /\ calls = {}
  BY DEF Runs!Init, Runs!ListRead
<1>3. RunsLogged
  <2>1. ASSUME NEW r \in 1..RunsMost
        PROVE  queued[r] + steps[r] <= IF r > Len(runs) THEN 0
               ELSE IF current # None /\ r = current THEN 1 ELSE 2
    <3>1. r \in Nat /\ queued[r] = 0 /\ steps[r] = IF r <= Len(RunsPast) THEN 1 ELSE 0
      BY <1>0, <1>2
    <3> QED
      BY <1>0, <1>2, <3>1
  <2>2. queued \in [1..RunsMost -> Nat] /\ steps \in [1..RunsMost -> Nat]
    BY <1>2
  <2> QED
    BY <1>0, <1>2, <2>1, <2>2 DEF RunsLogged
<1>4. RunsListed
  <2>1. Len(<<>>) = 0
    OBVIOUS
  <2>2. Len(runHistory) <= Len(runs) /\ (read # None => Len(read.rows) <= Len(runs))
    BY <1>0, <1>2, <2>1
  <2>3. visibleCount \in 1..Len(runs) \cup {RunPage}
    BY <1>2
  <2>4. (failed => loaded /\ runHistory = <<>>) /\ loaded \in BOOLEAN /\ failed \in BOOLEAN
            /\ problemsOnly \in BOOLEAN
        /\ unheard \in BOOLEAN /\ kept \in BOOLEAN
    BY <1>2
  <2> QED
    BY <1>2, <2>2, <2>3, <2>4 DEF RunsListed
<1>5. RunsAsked
  BY <1>0, <1>2 DEF RunsAsked
<1> QED
  BY <1>1, <1>3, <1>4, <1>5 DEF RunsWhole

LEMMA RunsWholeStep ==
  ASSUME RunsAssumptions, RunsWhole, [Runs!Next]_(Runs!vars) PROVE RunsWhole'
<1>1. RunsInv'
  BY RunsStepKeepsInv DEF RunsWhole
<1> QED
  BY <1>1, RunsLoggedStep, RunsListedStep, RunsAskedStep DEF RunsWhole

\* Unless an event is waiting or was dropped, the list being read, and once it is
\* there the one shown, is the stored one.
RunsCaughtUp ==
  /\ read = None \/ read = Runs!ListRead \/ read.answer = "ok"
  /\ ~events /\ ~unheard =>
       /\ read # None /\ read.answer = "ok" => read.rows = runs
       /\ read = None /\ loaded /\ ~failed => runHistory = runs

\* The story being read, or else the one held, is of the run shown; unless steps of it
\* were announced since, it has all that are stored.
RunsTold ==
  /\ reading # None => reading \in StoryReads /\ reading.run = Runs!Shown
  /\ Runs!Shown # None =>
       /\ reading = None => entry.run = Runs!Shown
       /\ Runs!Shown \notin notices =>
            /\ reading # None /\ reading.answer = "ok" => reading.steps = steps[Runs!Shown]
            /\ reading = None /\ entry.status = "ready" /\ ~kept => entry.steps = steps[Runs!Shown]

RunsSettled == RunsWhole /\ RunsCaughtUp /\ RunsTold

LEMMA RunsShownIsRun ==
  ASSUME RunsAssumptions, RunsWhole, Runs!Shown # None
         PROVE Runs!Shown \in 1..RunsMost /\ Runs!Shown \in DOMAIN runs
<1>1. PICK list, r, problems : list = runHistory /\ r = selected /\ problems = problemsOnly
  OBVIOUS
<1>2. list \in Seq(Runs!Statuses) /\ Len(list) <= Len(runs) /\ Len(list) \in Nat
          /\ Len(runs) \in Nat /\ Len(runs) <= RunsMost
      /\ DOMAIN list = 1..Len(list) /\ DOMAIN runs = 1..Len(runs)
  BY <1>1 DEF RunsWhole, RunsInv, RunsListed, RunsLogged
<1>3. Runs!Shown = Runs!SelectedIn(list, r, problems)
  BY <1>1 DEF Runs!Shown
<1>4. Runs!Shown \in DOMAIN list
  BY <1>2, <1>3, RunsShownIsListed
<1>5. PICK n \in 1..Len(list) : n = Runs!Shown
  BY <1>2, <1>4
<1>6. n \in DOMAIN runs
  BY <1>2, <1>5
<1>7. n \in 1..RunsMost
  BY <1>2, <1>5 DEF RunsAssumptions
<1> QED
  BY <1>5, <1>6, <1>7

LEMMA RunsSettledInit ==
  ASSUME RunsAssumptions, Runs!Init PROVE RunsSettled
<1>1. /\ runHistory = <<>> /\ read = Runs!ListRead /\ selected = None /\ problemsOnly = FALSE
            /\ reading = None
  BY DEF Runs!Init
<1>2. read.answer = "none" /\ read # None
  <2>1. <<>> \in Seq(Runs!Statuses)
    OBVIOUS
  <2>2. Runs!ListRead \in ListReads /\ Runs!ListRead.answer = "none"
    BY <2>1 DEF Runs!ListRead, ListReads
  <2> QED
    BY <1>1, <2>2 DEF RunsAssumptions
<1>3. Runs!Shown = None
  <2>1. Runs!Listed(<<>>, FALSE) = {}
    BY DEF Runs!Listed
  <2> QED
    BY <1>1, <2>1 DEF Runs!Shown, Runs!SelectedIn, Runs!Newest
<1> QED
  BY <1>1, <1>2, <1>3, RunsWholeInit DEF RunsSettled, RunsCaughtUp, RunsTold

\* The run shown may change, or its story may be announced or read again.
LEMMA RunsTellsAgain ==
  ASSUME RunsAssumptions, RunsSettled, NEW a, NEW b \in BOOLEAN, Runs!StoryEffect(a, b),
         steps' = steps, notices' \subseteq notices,
         Runs!Shown' = Runs!Shown /\ Runs!Shown \in notices \ notices' => b,
         Runs!Shown' # None => Runs!Shown' \in Nat
  PROVE  RunsTold'
<1>1. PICK is : is = Runs!Shown'
  OBVIOUS
<1>2. PICK was : was = Runs!Shown
  OBVIOUS
<1>3. is = Runs!SelectedIn(runHistory', selected', problemsOnly')
  BY <1>1 DEF Runs!Shown
<1>4. /\ is = None => reading' = None
      /\ is # None => reading' = Runs!Story(is) \/ (is = was /\ ~b /\ reading' = reading)
      /\ UNCHANGED <<entry, kept>>
  BY <1>2, <1>3 DEF Runs!StoryEffect
<1>5. CASE is = None
  BY <1>1, <1>4, <1>5 DEF RunsTold
<1>6. CASE is # None /\ reading' = Runs!Story(is)
  <2>1. PICK n : n = Runs!Story(is)
    OBVIOUS
  <2>2. n \in StoryReads /\ n.run = is /\ n.answer = "none"
    BY <1>1, <1>6, <2>1 DEF Runs!Story, StoryReads
  <2>3. n # None
    BY <2>2 DEF RunsAssumptions
  <2>4. reading' = n
    BY <1>6, <2>1
  <2> QED
    BY <1>1, <1>6, <2>2, <2>3, <2>4 DEF RunsTold
<1>7. CASE is # None /\ is = was /\ ~b /\ reading' = reading
  <2>1. is \notin notices' => is \notin notices
    BY <1>1, <1>2, <1>7
  <2>2. Runs!Shown' = Runs!Shown
    BY <1>1, <1>2, <1>7
  <2> QED
    BY <1>1, <1>2, <1>4, <1>7, <2>1, <2>2 DEF RunsSettled, RunsTold
<1> QED
  BY <1>4, <1>5, <1>6, <1>7

LEMMA RunsKeepsShown ==
  ASSUME UNCHANGED <<runHistory, selected, problemsOnly>> PROVE Runs!Shown' = Runs!Shown
BY DEF Runs!Shown

\* Steps of a run are stored and announced.
LEMMA RunsKeepsTold ==
  ASSUME RunsSettled, UNCHANGED <<runHistory, selected, problemsOnly, reading, entry, kept>>,
         notices \subseteq notices',
         Runs!Shown # None /\ Runs!Shown \notin notices' => steps'[Runs!Shown] = steps[Runs!Shown]
  PROVE  RunsTold'
<1>1. Runs!Shown' = Runs!Shown
  BY RunsKeepsShown
<1> QED
  BY <1>1 DEF RunsSettled, RunsTold

LEMMA RunsBackendSettles ==
  ASSUME RunsAssumptions, RunsSettled,
         \/ Runs!RunStarts \/ Runs!RunProgresses \/ Runs!RunFinishes \/ Runs!CancelRun \/ Runs!LoadMore
         \/ \E r \in DOMAIN runs : Runs!Persist(r)
         \/ \E c \in calls : Runs!ServeStop(c) \/ Runs!StopAnswered(c)
         \/ UNCHANGED Runs!vars
  PROVE  RunsCaughtUp' /\ RunsTold'
<1> USE DEF Runs!backend, Runs!store, Runs!panel, Runs!story
<1>1. /\ UNCHANGED <<runHistory, selected, problemsOnly, reading, entry, kept, read, loaded, failed,
            unheard>>
      /\ events' = TRUE \/ UNCHANGED <<events, runs>>
  BY DEF Runs!RunStarts, Runs!RunProgresses, Runs!RunFinishes, Runs!CancelRun, Runs!LoadMore,
    Runs!Persist, Runs!ServeStop,
    Runs!StopAnswered, Runs!vars
<1>2. RunsCaughtUp'
  BY <1>1 DEF RunsSettled, RunsCaughtUp
<1>3. ASSUME NEW r \in DOMAIN runs, Runs!Persist(r) PROVE RunsTold'
  <2>1. steps' = [steps EXCEPT ![r] = @ + 1] /\ notices' = notices \cup {r}
    BY <1>3 DEF Runs!Persist
  <2>2. Runs!Shown # None => Runs!Shown \in 1..RunsMost
    BY RunsShownIsRun DEF RunsSettled
  <2>3. steps \in [1..RunsMost -> Nat]
    BY DEF RunsSettled, RunsWhole, RunsLogged
  <2>4. Runs!Shown # None /\ Runs!Shown \notin notices' => steps'[Runs!Shown] = steps[Runs!Shown]
    BY <2>1, <2>2, <2>3
  <2> QED
    BY <1>1, <2>1, <2>4, RunsKeepsTold
<1>4. CASE ~\E r \in DOMAIN runs : Runs!Persist(r)
  <2>1. UNCHANGED <<steps, notices>>
    BY <1>4 DEF Runs!RunStarts, Runs!RunProgresses, Runs!RunFinishes, Runs!CancelRun,
      Runs!LoadMore, Runs!ServeStop,
      Runs!StopAnswered, Runs!vars
  <2> QED
    BY <1>1, <1>2, <2>1, RunsKeepsTold
<1> QED
  BY <1>2, <1>3, <1>4

LEMMA RunsServeSettles ==
  ASSUME RunsAssumptions, RunsSettled, Runs!ServeList \/ Runs!EventHeard \/ Runs!ServeStory
  PROVE  RunsCaughtUp' /\ RunsTold'
<1> USE DEF Runs!backend, Runs!store, Runs!panel, Runs!story
<1>1. CASE Runs!ServeList \/ Runs!EventHeard
  <2>1. UNCHANGED <<runHistory, selected, problemsOnly, reading, entry, kept, loaded, failed, steps,
            notices, runs>>
    BY <1>1 DEF Runs!ServeList, Runs!EventHeard
  <2>2. RunsTold'
    BY <2>1, RunsKeepsTold
  <2>3. CASE Runs!ServeList
    <3>1. PICK l : l = [answer |-> "ok", rows |-> runs]
      OBVIOUS
    <3>2. l \in ListReads /\ l.answer = "ok" /\ l.rows = runs
      BY <3>1 DEF ListReads, RunsSettled, RunsWhole, RunsInv
    <3>3. l # None /\ read' = l
      BY <2>3, <3>1, <3>2 DEF RunsAssumptions, Runs!ServeList
    <3> QED
      BY <2>1, <2>2, <3>2, <3>3 DEF RunsCaughtUp
  <2>4. CASE Runs!EventHeard
    <3>1. PICK l : l = Runs!ListRead
      OBVIOUS
    <3>2. l \in ListReads /\ l.answer = "none"
      BY <3>1 DEF ListReads, Runs!ListRead
    <3>3. l # None /\ (loaded => read' = l) /\ (~loaded => unheard' /\ read' = read)
      BY <2>4, <3>1, <3>2 DEF RunsAssumptions, Runs!EventHeard
    <3> QED
      BY <2>1, <2>2, <3>1, <3>2, <3>3 DEF RunsCaughtUp, RunsSettled, RunsWhole, RunsListed
  <2> QED
    BY <1>1, <2>3, <2>4
<1>2. CASE Runs!ServeStory
  <2>1. /\ reading # None
        /\ UNCHANGED <<runs, events, notices, runHistory, loaded, failed, read, unheard, selected,
              problemsOnly, steps, entry, kept>>
    BY <1>2 DEF Runs!ServeStory
  <2>2. PICK n : n = [reading EXCEPT !.answer = "ok", !.steps = steps[reading.run]]
    OBVIOUS
  <2>3. reading \in StoryReads /\ reading.run = Runs!Shown /\ reading.run \in DOMAIN runs
    BY <2>1 DEF RunsSettled, RunsTold, RunsWhole, RunsListed
  <2>4. Runs!Shown # None
    BY <2>3 DEF StoryReads, RunsAssumptions
  <2>5. steps[reading.run] \in Nat
    <3>1. steps \in [1..RunsMost -> Nat] /\ reading.run \in 1..RunsMost
      BY <2>3, <2>4, RunsShownIsRun DEF RunsSettled, RunsWhole, RunsLogged
    <3> QED
      BY <3>1
  <2>6. n \in StoryReads /\ n.run = reading.run /\ n.answer = "ok" /\ n.steps = steps[Runs!Shown]
    BY <2>2, <2>3, <2>5 DEF StoryReads
  <2>7. n # None /\ reading' = n
    BY <1>2, <2>2, <2>6 DEF RunsAssumptions, Runs!ServeStory
  <2>8. Runs!Shown' = Runs!Shown
    BY <2>1, RunsKeepsShown
  <2>9. RunsTold'
    BY <2>1, <2>3, <2>6, <2>7, <2>8 DEF RunsTold
  <2> QED
    BY <2>1, <2>9 DEF RunsSettled, RunsCaughtUp
<1> QED
  BY <1>1, <1>2

LEMMA RunsListSettles ==
  ASSUME RunsAssumptions, RunsSettled, Runs!ListArrives PROVE RunsCaughtUp' /\ RunsTold'
<1>1. /\ read # None /\ runHistory' = read.rows /\ loaded' = TRUE
            /\ (failed' <=> read = Runs!ListRead) /\ read' = None
      /\ UNCHANGED <<runs, events, unheard, steps, notices>> /\ Runs!StoryEffect(TRUE, FALSE)
  BY DEF Runs!ListArrives, Runs!backend
<1>2. RunsCaughtUp'
  BY <1>1 DEF RunsSettled, RunsCaughtUp
<1>3. RunsWhole'
  BY RunsWholeStep DEF RunsSettled, Runs!Next, Runs!Arrives
<1>4. Runs!Shown' # None => Runs!Shown' \in Nat
  <2>1. PICK list, r, problems : list = runHistory' /\ r = selected' /\ problems = problemsOnly'
    OBVIOUS
  <2>2. list \in Seq(Runs!Statuses)
    BY <1>3, <2>1 DEF RunsWhole, RunsInv
  <2>3. Runs!Shown' = Runs!SelectedIn(list, r, problems)
    BY <2>1 DEF Runs!Shown
  <2> QED
    BY <2>2, <2>3, RunsShownIsListed
<1>5. RunsTold'
  BY <1>1, <1>4, RunsTellsAgain
<1> QED
  BY <1>2, <1>5

LEMMA RunsPanelSettles ==
  ASSUME RunsAssumptions, RunsSettled,
         Runs!ToggleProblems \/ \E r \in DOMAIN runs : Runs!SelectRun(r) \/ Runs!NoticeHeard(r)
  PROVE  RunsCaughtUp' /\ RunsTold'
<1> USE DEF Runs!backend, Runs!store, Runs!panel, Runs!story
<1>1. UNCHANGED <<runs, events, runHistory, loaded, failed, read, unheard, steps>>
  BY DEF Runs!ToggleProblems, Runs!SelectRun, Runs!NoticeHeard
<1>2. RunsCaughtUp'
  BY <1>1 DEF RunsSettled, RunsCaughtUp
<1>3. Runs!Shown' # None => Runs!Shown' \in Nat
  <2>1. PICK list, r, problems : list = runHistory' /\ r = selected' /\ problems = problemsOnly'
    OBVIOUS
  <2>2. list \in Seq(Runs!Statuses)
    BY <1>1, <2>1 DEF RunsSettled, RunsWhole, RunsInv
  <2>3. Runs!Shown' = Runs!SelectedIn(list, r, problems)
    BY <2>1 DEF Runs!Shown
  <2> QED
    BY <2>2, <2>3, RunsShownIsListed
<1>4. CASE Runs!ToggleProblems \/ \E r \in DOMAIN runs : Runs!SelectRun(r)
  <2>1. notices' = notices /\ Runs!StoryEffect(FALSE, FALSE)
    BY <1>4 DEF Runs!ToggleProblems, Runs!SelectRun
  <2> QED
    BY <1>1, <1>2, <1>3, <2>1, RunsTellsAgain
<1>5. ASSUME NEW r \in DOMAIN runs, Runs!NoticeHeard(r) PROVE RunsTold'
  <2>1. PICK b \in BOOLEAN : b <=> r = Runs!Shown
    OBVIOUS
  <2>2. b = (r = Runs!Shown)
    BY <2>1
  <2>3. notices' = notices \ {r} /\ Runs!StoryEffect(FALSE, b)
    BY <1>5, <2>2 DEF Runs!NoticeHeard
  <2> QED
    BY <1>1, <1>3, <2>1, <2>3, RunsTellsAgain
<1> QED
  BY <1>2, <1>4, <1>5

LEMMA RunsArrivesSettles ==
  ASSUME RunsAssumptions, RunsSettled, Runs!StoryArrives PROVE RunsCaughtUp' /\ RunsTold'
<1> USE DEF Runs!backend, Runs!store, Runs!panel
<1>1. reading # None /\ reading' = None
      /\ UNCHANGED <<runs, events, notices, runHistory, loaded, failed, read, unheard, selected,
            problemsOnly, steps>>
  BY DEF Runs!StoryArrives
<1>2. RunsCaughtUp'
  BY <1>1 DEF RunsSettled, RunsCaughtUp
<1>3. reading \in StoryReads /\ reading.run = Runs!Shown
  BY <1>1 DEF RunsSettled, RunsTold
<1>4. Runs!Shown' = Runs!Shown
  BY <1>1, RunsKeepsShown
<1>5. \A r, status, n : LET e == Runs!Entry(r, status, n) IN e.run = r /\ e.status = status
          /\ e.steps = n
  BY DEF Runs!Entry
<1>6. CASE reading.answer = "ok"
  <2>1. entry' = Runs!Entry(reading.run, "ready", reading.steps)
    BY <1>6 DEF Runs!StoryArrives
  <2> QED
    BY <1>1, <1>2, <1>3, <1>4, <1>5, <1>6, <2>1 DEF RunsSettled, RunsTold
<1>7. CASE reading.answer # "ok" /\ entry.run = reading.run /\ entry.status = "ready"
  <2>1. entry' = entry /\ kept'
    BY <1>7 DEF Runs!StoryArrives
  <2> QED
    BY <1>1, <1>2, <1>3, <1>4, <1>7, <2>1 DEF RunsTold
<1>8. CASE reading.answer # "ok" /\ ~(entry.run = reading.run /\ entry.status = "ready")
  <2>1. entry' = Runs!Entry(reading.run, "error", 0)
    BY <1>8 DEF Runs!StoryArrives
  <2> QED
    BY <1>1, <1>2, <1>3, <1>4, <1>5, <2>1 DEF RunsTold
<1> QED
  BY <1>6, <1>7, <1>8

LEMMA RunsStepKeepsSettled ==
  ASSUME RunsAssumptions, RunsSettled, [Runs!Next]_(Runs!vars) PROVE RunsSettled'
<1>1. RunsWhole'
  BY RunsWholeStep DEF RunsSettled
<1>2. CASE Runs!Next
  BY <1>1, <1>2, RunsBackendSettles, RunsServeSettles, RunsListSettles, RunsPanelSettles,
    RunsArrivesSettles
    DEF RunsSettled, Runs!Next, Runs!Arrives
<1>3. CASE UNCHANGED Runs!vars
  BY <1>1, <1>3, RunsBackendSettles DEF RunsSettled
<1> QED
  BY <1>2, <1>3

\* With nothing on its way the list is the stored one and the story all there is of the run.
LEMMA RunsRowsSettle == RunsSettled => Runs!RowsSettle
<1>1. RunsSettled /\ notices = {} => Runs!Shown \notin notices
  OBVIOUS
<1> QED
  BY <1>1 DEF RunsSettled, RunsCaughtUp, RunsTold, Runs!RowsSettle, RunsWhole, RunsListed

\* Above the run shown there are no more rows than were revealed.
LEMMA RunsReveals ==
  ASSUME RunsInv PROVE Runs!SelectedIsVisible
<1>1. Len(runHistory) \in Nat /\ DOMAIN runHistory = 1..Len(runHistory)
  BY DEF RunsInv
<1> DEFINE listed == Runs!Listed(runHistory, problemsOnly)
           above == {r \in listed : r >= Runs!Shown}
<1>2. listed \subseteq 1..Len(runHistory)
  BY <1>1 DEF Runs!Listed
<1>3. ASSUME Runs!Shown # None PROVE Cardinality(above) <= visibleCount
  <2>1. CASE selected \in listed
    <3>1. Runs!Shown = selected
      BY <2>1 DEF Runs!Shown, Runs!SelectedIn
    <3>2. above \subseteq selected..Len(runHistory) /\ selected \in 1..Len(runHistory)
      BY <1>2, <2>1, <3>1
    <3>3. IsFiniteSet(selected..Len(runHistory)) /\ Cardinality(selected..Len(runHistory))
              = Len(runHistory) - selected + 1
      BY <1>1, <3>2, FS_Interval
    <3>4. Cardinality(above) <= Len(runHistory) - selected + 1 /\ IsFiniteSet(above)
      BY <3>2, <3>3, FS_Subset
    <3>5. Cardinality(above) \in Nat /\ Len(runHistory) - selected + 1 <= visibleCount
              /\ visibleCount \in Nat
      BY <1>1, <3>2, <3>4, FS_CardinalityType DEF RunsInv
    <3> QED
      BY <1>1, <3>2, <3>4, <3>5
  <2>2. CASE selected \notin listed
    <3>1. Runs!Shown = Runs!Newest(listed)
      BY <2>2 DEF Runs!Shown, Runs!SelectedIn
    <3>2. listed # {} /\ Runs!Shown = Runs!Max(listed)
      BY <1>3, <3>1 DEF Runs!Newest
    <3>4. Runs!Shown \in listed /\ \A y \in listed : Runs!Shown >= y
      <4> HIDE DEF listed
      <4> QED
        BY <1>1, <1>2, <3>2, RunsTop
    <3>5. above = {Runs!Shown}
      BY <1>2, <3>4
    <3>6. Cardinality(above) = 1
      BY <3>5, FS_Singleton
    <3> QED
      BY <3>6 DEF RunsInv
  <2> QED
    BY <2>1, <2>2
<1> QED
  BY <1>3 DEF Runs!SelectedIsVisible, Cardinality, Runs!Cardinality

LEMMA RunsTyped ==
  ASSUME RunsAssumptions, RunsWhole PROVE Runs!TypeOK
<1>0. RunsMost \in Nat /\ Len(runs) \in Nat /\ DOMAIN runs = 1..Len(runs) /\ Len(runs) <= RunsMost
  BY DEF RunsAssumptions, RunsWhole, RunsInv, RunsLogged
<1>1. 1..Len(runs) \subseteq 1..RunsMost
  BY <1>0
<1>2. queued \in [1..RunsMost -> 0..2] /\ steps \in [1..RunsMost -> 0..2]
  <2>1. queued \in [1..RunsMost -> Nat] /\ steps \in [1..RunsMost -> Nat]
    BY DEF RunsWhole, RunsLogged
  <2>2. ASSUME NEW r \in 1..RunsMost PROVE queued[r] \in 0..2 /\ steps[r] \in 0..2
    <3>1. PICK x, y \in Nat : x = queued[r] /\ y = steps[r]
      BY <2>1
    <3>2. x + y <= IF r > Len(runs) THEN 0 ELSE IF current # None /\ r = current THEN 1 ELSE 2
      BY <3>1 DEF RunsWhole, RunsLogged
    <3>3. x + y <= 2
      <4>1. x + y <= 0 \/ x + y <= 1 \/ x + y <= 2
        BY <3>2
      <4> QED
        BY <3>1, <4>1
    <3> QED
      BY <3>1, <3>3
  <2> QED
    BY <2>1, <2>2
<1>3. current \in 1..RunsMost \cup {None} /\ selected \in 1..RunsMost \cup {None}
          /\ notices \subseteq 1..RunsMost
      /\ visibleCount \in 1..RunsMost \cup {RunPage}
  BY <1>0, <1>1 DEF RunsWhole, RunsLogged, RunsListed
<1>4. \A c \in calls : c.n <= made /\ c.answer \in {"none", "ok", "refused"}
  BY DEF RunsWhole, RunsAsked
<1>5. {cancelled, loaded, failed, problemsOnly, unheard, kept} \subseteq BOOLEAN /\ events \in BOOLEAN
  BY DEF RunsWhole, RunsLogged, RunsListed
<1>6. /\ runs \in Seq(Runs!Statuses) /\ Len(runs) <= RunsMost /\ runHistory \in Seq(Runs!Statuses)
            /\ made <= RunsCalls
      /\ (failed => loaded /\ runHistory = <<>>) /\ (reading # None => reading.run \in DOMAIN runs)
  BY DEF RunsWhole, RunsInv, RunsLogged, RunsListed, RunsAsked
<1> QED
  BY <1>2, <1>3, <1>4, <1>5, <1>6 DEF Runs!TypeOK

LEMMA RunsPromises ==
  ASSUME RunsAssumptions, RunsWhole PROVE Runs!TypeOK /\ Runs!SelectedIsVisible
BY RunsTyped, RunsReveals DEF RunsWhole

\* For any history and any length of a page of it: the row of the run shown is among those
\* revealed (reconcileVisibleRunCount); and with everything heard and read the list is the
\* stored one and the story has all the steps of its run, but as the property says.
THEOREM RunsAreSafe ==
  ASSUME RunsAssumptions
  PROVE  Runs!Spec => [](Runs!TypeOK /\ Runs!SelectedIsVisible /\ Runs!RowsSettle)
<1>1. Runs!Init => RunsSettled
  BY RunsSettledInit
<1>2. RunsSettled /\ [Runs!Next]_(Runs!vars) => RunsSettled'
  BY RunsStepKeepsSettled
<1>3. RunsSettled => (Runs!TypeOK /\ Runs!SelectedIsVisible /\ Runs!RowsSettle)
  BY RunsPromises, RunsRowsSettle DEF RunsSettled
<1> QED
  BY <1>1, <1>2, <1>3, PTL DEF Runs!Spec

-----------------------------------------------------------------------------
(* The ordering board.  Unless it was spoiled, one command or read at a time *)
(* is on its way: while it is, what the user wants is in the draft it        *)
(* carries, and when none is, in the row.                                    *)

OrderAssumptions == OrderStarts \subseteq [OrderAnimes -> Ordering!Places]

OrderBoards == [OrderAnimes -> Ordering!Places]
OrderRows == [draft : Ordering!Drafts, applied : BOOLEAN]
OrderSeasons == [draft : Ordering!Drafts, applied : BOOLEAN, places : OrderBoards]
OrderSeen == [places : OrderBoards, base : OrderBoards]
OrderCall ==
  [kind : Ordering!Kinds, step : Ordering!Steps, draft : Ordering!Drafts,
   held : {<<>>} \cup OrderRows \cup OrderSeasons, visit : Nat, id : Nat, seen : {<<>>} \cup OrderSeen]

\* Which steps a call goes through, and what it holds there.
WellPlaced(c) ==
  /\ c.visit <= visit
  /\ c.kind = "save" => c.step \in {"read", "write"}
  /\ c.kind = "load" => c.step \in {"load", "arrive"}
  /\ c.step \in {"plan", "commit"} => c.kind = "apply"
  /\ c.kind = "apply" => c.seen \in OrderSeen
  /\ c.step = "write" => c.held \in OrderRows
  /\ c.step \in {"commit", "arrive"} => c.held \in OrderSeasons

OrderTypes ==
  /\ schedule \in OrderBoards /\ row \in OrderRows
  /\ Ordering!Loaded => board \in [places : OrderBoards, applied : BOOLEAN] /\ state \in OrderBoards
  /\ visit \in Nat /\ made \in Nat
  /\ hasEdits \in BOOLEAN /\ armed \in BOOLEAN /\ moved \in BOOLEAN /\ spoiled \in BOOLEAN
  /\ armed => hasEdits /\ Ordering!Loaded /\ ~board.applied
  /\ calls \subseteq OrderCall /\ \A c \in calls : WellPlaced(c)
  /\ ~Ordering!Loaded => \E c \in calls : c.kind = "load" /\ c.visit = visit

\* A board or a draft over the schedule that has each anime where the user left it.
Agree(s) ==
  IF wanted = <<>> THEN \A a \in OrderAnimes : s[a] = schedule[a]
  ELSE \A a \in OrderAnimes : s[a] = wanted[a] \/ Ordering!Kept(a, wanted[a], schedule[a])
Over(moves) == [a \in OrderAnimes |-> IF a \in DOMAIN moves THEN moves[a] ELSE schedule[a]]

\* A call that may still write, or replace the board shown.
Live(c) == Ordering!Writes(c) \/ (c.kind # "save" /\ c.visit = visit)
Reads(c) == c.step \in {"load", "arrive"}

InTurn(c) ==
  /\ Ordering!Writes(c) => c.visit = visit /\ Ordering!Loaded
  /\ Ordering!Writes(c) /\ c.kind # "reopen" => row.applied = FALSE
  /\ Reads(c) \/ c.kind = "reset" => hasEdits = FALSE
  /\ c.kind = "reset" => c.draft = <<>>
  /\ c.kind = "apply" /\ Ordering!Writes(c) => c.draft = Ordering!DraftOf(c.seen.places, c.seen.base)
  /\ c.step \in {"plan", "commit"} => row.draft = c.draft
  /\ c.step = "write" => c.held = row
  /\ c.step = "commit" => c.held = Ordering!Season
  /\ c.step = "arrive" => c.held.draft = row.draft /\ c.held.applied = row.applied

Carries(c) ==
  /\ c.kind = "save" /\ ~armed => Agree(Over(c.draft))
  /\ c.kind = "reset" /\ Ordering!Writes(c) => wanted = <<>>
  /\ c.kind = "apply" /\ Ordering!Writes(c) => c.seen.base = schedule /\ Agree(c.seen.places)
  /\ c.kind = "reopen" \/ Reads(c) => Agree(Over(row.draft))
  /\ c.step = "arrive" => c.held.places = schedule

\* While nothing but a save is on its way, the board is the one stored.
AtRest ==
  (\A c \in calls : Live(c) => c.kind = "save") =>
    /\ board.applied = row.applied
    /\ ~moved => board.places = schedule /\ Agree(state)
    /\ ~moved /\ ~armed /\ (\A c \in calls : ~Live(c)) => Agree(Over(row.draft))

OneCall ==
  /\ row.applied => row.draft = <<>>
  /\ \A c, d \in calls : Live(c) /\ Live(d) => c = d
  /\ \A c \in calls : Live(c) => InTurn(c) /\ (~moved => Carries(c))
  /\ AtRest

OrderSafe == Ordering!AppliedIsSeen

OrderInv == OrderTypes /\ (~spoiled => OneCall) /\ OrderSafe

LEMMA OrderNoDraft == <<>> \in Ordering!Drafts /\ DOMAIN <<>> = {}
<1>1. <<>> \in [{} -> Ordering!Places] /\ {} \in SUBSET OrderAnimes
  OBVIOUS
<1> QED
  BY <1>1 DEF Ordering!Drafts

LEMMA OrderDraft ==
  ASSUME NEW p \in OrderBoards, NEW b \in OrderBoards
  PROVE  /\ Ordering!DraftOf(p, b) \in Ordering!Drafts
         /\ DOMAIN Ordering!DraftOf(p, b) = {a \in OrderAnimes : p[a] # 0 \/ b[a] = 0}
         /\ \A a \in DOMAIN Ordering!DraftOf(p, b) : Ordering!DraftOf(p, b)[a] = p[a]
<1> DEFINE S == {a \in OrderAnimes : p[a] # 0 \/ b[a] = 0}
           d == [a \in S |-> p[a]]
<1>1. Ordering!DraftOf(p, b) = d
  BY DEF Ordering!DraftOf, Ordering!Rail
<1>2. S \in SUBSET OrderAnimes /\ d \in [S -> Ordering!Places] /\ DOMAIN d = S /\ \A a \in S :
          d[a] = p[a]
  BY DEF OrderBoards
<1>3. d \in Ordering!Drafts
  BY <1>2 DEF Ordering!Drafts
<1> QED
  BY <1>1, <1>2, <1>3

LEMMA OrderDrafts ==
  ASSUME NEW d \in Ordering!Drafts
  PROVE  DOMAIN d \subseteq OrderAnimes /\ \A a \in DOMAIN d : d[a] \in Ordering!Places
BY DEF Ordering!Drafts

\* A draft of a board that agrees agrees, once it is over the schedule.
LEMMA OrderDraftAgrees ==
  ASSUME NEW p \in OrderBoards, schedule \in OrderBoards, Agree(p)
  PROVE  Agree(Over(Ordering!DraftOf(p, schedule)))
BY OrderDraft DEF Agree, Over, Ordering!Kept, Ordering!Rail, OrderBoards

LEMMA OrderOver == ASSUME NEW p, NEW r, r.applied => r.draft = <<>>, schedule = p PROVE
  \A a \in OrderAnimes : Ordering!Restored(p, r)[a] = Over(r.draft)[a]
BY OrderNoDraft DEF Ordering!Restored, Over

LEMMA OrderRestored ==
  ASSUME NEW p \in OrderBoards, NEW r, r.draft \in Ordering!Drafts
  PROVE  Ordering!Restored(p, r) \in OrderBoards
BY OrderDrafts DEF Ordering!Restored, OrderBoards

LEMMA OrderInit ==
  ASSUME OrderAssumptions, Ordering!Init PROVE OrderInv
<1> DEFINE c == [kind |-> "load", step |-> "load", draft |-> <<>>, held |-> <<>>, visit |-> 1,
        id |-> 0, seen |-> <<>>]
<1>1. calls = {c} /\ row = [draft |-> <<>>, applied |-> FALSE]
  BY DEF Ordering!Init, Ordering!NoDraft
<1>2. /\ schedule \in OrderBoards /\ ~Ordering!Loaded /\ hasEdits = FALSE /\ armed = FALSE
            /\ visit = 1 /\ made = 0
      /\ wanted = <<>> /\ applied = <<>> /\ moved = FALSE /\ spoiled = FALSE
  BY DEF Ordering!Init, OrderAssumptions, OrderBoards, Ordering!Loaded
<1>3. c \in OrderCall /\ row \in OrderRows
  BY <1>1, OrderNoDraft DEF OrderCall, OrderRows, Ordering!Kinds, Ordering!Steps
<1>4. /\ c.kind = "load" /\ c.step = "load" /\ c.visit = 1 /\ row.draft = <<>> /\ row.applied = FALSE
  BY <1>1
<1> HIDE DEF c
<1>5. OrderTypes
  <2>1. WellPlaced(c)
    BY <1>2, <1>4 DEF WellPlaced
  <2>2. calls \subseteq OrderCall /\ \A x \in calls : WellPlaced(x)
    BY <1>1, <1>3, <2>1
  <2>3. c \in calls
    BY <1>1
  <2> QED
    BY <1>2, <1>3, <1>4, <2>2, <2>3 DEF OrderTypes
<1>6. Live(c) /\ InTurn(c) /\ Agree(Over(row.draft))
  BY <1>2, <1>4, OrderNoDraft DEF Live, InTurn, Ordering!Writes, Reads, Agree, Over
<1>7. OneCall
  BY <1>1, <1>2, <1>4, <1>6 DEF OneCall, AtRest, Carries, Ordering!Writes
<1> QED
  BY <1>2, <1>5, <1>7 DEF OrderInv, OrderSafe, Ordering!AppliedIsSeen

\* Nothing on its way is live when a command is sent that spoils nothing.
LEMMA OrderSends ==
  ASSUME OrderInv, NEW c, Ordering!Send(c), ~spoiled'
  PROVE  /\ ~spoiled /\ OneCall /\ calls' = calls \cup {c} /\ \A d \in calls : ~Live(d)
         /\ Ordering!Loaded /\ board.applied = row.applied
         /\ ~moved => board.places = schedule /\ Agree(state) /\ (~armed => Agree(Over(row.draft)))
<1>1. ~spoiled /\ OneCall /\ calls' = calls \cup {c} /\ \A d \in calls : ~Live(d)
  BY DEF OrderInv, Ordering!Send, Live
<1>2. Ordering!Loaded
  BY <1>1 DEF OrderInv, OrderTypes, Live
<1> QED
  BY <1>1, <1>2 DEF OneCall, AtRest

LEMMA OrderSent ==
  ASSUME OrderInv, NEW c \in OrderCall, WellPlaced(c), Ordering!Send(c), Ordering!Writes(c),
         c.visit = visit,
         UNCHANGED <<schedule, row, board, state, visit, applied, moved>>, made' \in Nat,
         hasEdits' \in BOOLEAN, armed' \in BOOLEAN, armed' => armed /\ hasEdits',
         c.kind = "save" => UNCHANGED wanted,
         ~spoiled' => InTurn(c)' /\ (~moved => Carries(c)')
  PROVE  OrderInv'
<1>1. OrderTypes'
  <2>1. calls' = calls \cup {c} /\ spoiled' \in BOOLEAN /\ (Ordering!Loaded' <=> Ordering!Loaded)
    BY DEF Ordering!Send, Ordering!Loaded
  <2>2. \A x \in calls' : WellPlaced(x)'
    BY <2>1 DEF OrderInv, OrderTypes, WellPlaced
  <2> QED
    BY <2>1, <2>2 DEF OrderInv, OrderTypes
<1>2. ASSUME ~spoiled' PROVE OneCall'
  <2>1. /\ ~spoiled /\ OneCall /\ calls' = calls \cup {c} /\ \A d \in calls : ~Live(d)
        /\ board.applied = row.applied /\ (~moved => board.places = schedule /\ Agree(state))
    BY <1>2, OrderSends
  <2>2. \A d \in calls' : Live(d)' => d = c
    BY <2>1 DEF Live
  <2>3. Live(c)'
    BY DEF Live
  <2>4. c.kind = "save" /\ Agree(state) => Agree(state)'
    BY DEF Agree
  <2>5. AtRest'
    BY <2>1, <2>3, <2>4 DEF AtRest
  <2> QED
    BY <1>2, <2>1, <2>2, <2>5 DEF OneCall
<1>3. OrderSafe'
  BY DEF OrderInv, OrderSafe, Ordering!AppliedIsSeen, Ordering!Send
<1> QED
  BY <1>1, <1>2, <1>3 DEF OrderInv

\* A command of the board on the screen.
LEMMA OrderCommand ==
  ASSUME OrderInv, NEW kind \in Ordering!Kinds \ {"load"}, NEW step \in {"read", "plan"},
         NEW moves \in Ordering!Drafts, NEW c, c = Ordering!Call(kind, step, moves), Ordering!Loaded,
         step = "plan" => kind = "apply"
  PROVE  /\ c \in OrderCall /\ WellPlaced(c) /\ Ordering!Writes(c) /\ c.visit = visit
         /\ c.kind = kind /\ c.step = step /\ c.draft = moves
         /\ kind = "apply" => c.seen = [places |-> state, base |-> board.places]
<1>1. /\ visit \in Nat /\ visit <= visit /\ made \in Nat /\ state \in OrderBoards
            /\ board.places \in OrderBoards
  BY DEF OrderInv, OrderTypes
<1>2. c = [kind |-> kind, step |-> step, draft |-> moves, held |-> <<>>, visit |-> visit, id |-> made,
           seen |-> IF kind = "apply" THEN [places |-> state, base |-> board.places] ELSE <<>>]
  BY DEF Ordering!Call
<1>3. c.seen \in {<<>>} \cup OrderSeen /\ (kind = "apply" => c.seen \in OrderSeen)
  BY <1>1, <1>2 DEF OrderSeen
<1>4. c \in OrderCall
  BY <1>1, <1>2, <1>3 DEF OrderCall, Ordering!Kinds, Ordering!Steps
<1> QED
  BY <1>1, <1>2, <1>3, <1>4 DEF WellPlaced, Ordering!Writes, Ordering!Kinds

LEMMA OrderAutosaves ==
  ASSUME OrderInv, Ordering!Autosave PROVE OrderInv'
<1>1. Ordering!Loaded /\ state \in OrderBoards /\ board.places \in OrderBoards /\ armed
          /\ armed' = FALSE /\ ~board.applied
  BY DEF OrderInv, OrderTypes, Ordering!Autosave
<1>2. PICK d : d = Ordering!DraftOf(state, board.places)
  OBVIOUS
<1>3. PICK c : c = Ordering!Call("save", "read", d)
  OBVIOUS
<1>4. d \in Ordering!Drafts
  BY <1>1, <1>2, OrderDraft
<1>5. /\ c \in OrderCall /\ WellPlaced(c) /\ Ordering!Writes(c) /\ c.visit = visit
      /\ c.kind = "save" /\ c.step = "read" /\ c.draft = d
  BY <1>1, <1>3, <1>4, OrderCommand DEF Ordering!Kinds
<1>6. Ordering!Send(c)
  BY <1>2, <1>3 DEF Ordering!Autosave
<1>7. ASSUME ~spoiled' PROVE InTurn(c)' /\ (~moved => Carries(c)')
  <2>1. board.applied = row.applied /\ (~moved => board.places = schedule /\ Agree(state))
    BY <1>6, <1>7, OrderSends
  <2>2. ~moved => Agree(Over(d))
    BY <1>1, <1>2, <2>1, OrderDraftAgrees DEF OrderInv, OrderTypes
  <2>3. Agree(Over(d)) => Agree(Over(d))'
    BY DEF Agree, Over, Ordering!Autosave
  <2>4. (row.applied = FALSE)'
    BY <1>1, <2>1 DEF OrderInv, OrderTypes, OrderRows, Ordering!Autosave
  <2>5. InTurn(c)'
    BY <1>1, <1>5, <2>4 DEF InTurn, Reads, Ordering!Writes, Ordering!Autosave, Ordering!Loaded
  <2> QED
    BY <1>5, <2>2, <2>3, <2>5 DEF Carries, Reads
<1> QED
  BY <1>1, <1>5, <1>6, <1>7, OrderSent DEF Ordering!Autosave, OrderInv, OrderTypes

LEMMA OrderChanges ==
  ASSUME OrderInv, Ordering!HasChanges
  PROVE  Ordering!Loaded /\ board.applied = FALSE /\ state \in OrderBoards
         /\ board.places \in OrderBoards
BY DEF OrderInv, OrderTypes, Ordering!HasChanges, Ordering!ReadOnly

LEMMA OrderResets ==
  ASSUME OrderInv, Ordering!Reset PROVE OrderInv'
<1>1. Ordering!Loaded /\ board.applied = FALSE
  BY OrderChanges DEF Ordering!Reset
<1>2. PICK c : c = Ordering!Call("reset", "read", <<>>)
  OBVIOUS
<1>3. /\ c \in OrderCall /\ WellPlaced(c) /\ Ordering!Writes(c) /\ c.visit = visit
      /\ c.kind = "reset" /\ c.step = "read" /\ c.draft = <<>>
  BY <1>1, <1>2, OrderCommand, OrderNoDraft DEF Ordering!Kinds
<1>4. Ordering!Send(c)
  BY <1>2 DEF Ordering!Reset, Ordering!NoDraft
<1>5. ASSUME ~spoiled' PROVE InTurn(c)' /\ (~moved => Carries(c)')
  <2>1. board.applied = row.applied
    BY <1>4, <1>5, OrderSends
  <2>2. InTurn(c)'
    BY <1>1, <1>3, <2>1 DEF InTurn, Reads, Ordering!Writes, Ordering!Reset, Ordering!Loaded
  <2> QED
    BY <1>3, <2>2 DEF Carries, Reads, Ordering!Reset
<1>6. /\ UNCHANGED <<schedule, row, board, state, visit, applied, moved>> /\ made' \in Nat
      /\ hasEdits' = FALSE /\ armed' = FALSE
  BY DEF Ordering!Reset, Ordering!Counted, OrderInv, OrderTypes
<1> QED
  BY <1>3, <1>4, <1>5, <1>6, OrderSent

LEMMA OrderApplies ==
  ASSUME OrderInv, Ordering!Apply PROVE OrderInv'
<1>1. Ordering!Loaded /\ board.applied = FALSE /\ state \in OrderBoards /\ board.places \in OrderBoards
  BY OrderChanges DEF Ordering!Apply
<1>2. PICK d : d = Ordering!DraftOf(state, board.places)
  OBVIOUS
<1>3. PICK c : c = Ordering!Call("apply", "read", d)
  OBVIOUS
<1>4. d \in Ordering!Drafts
  BY <1>1, <1>2, OrderDraft
<1>5. /\ c \in OrderCall /\ WellPlaced(c) /\ Ordering!Writes(c) /\ c.visit = visit
      /\ c.kind = "apply" /\ c.step = "read" /\ c.draft = d /\ c.seen.places = state
            /\ c.seen.base = board.places
  BY <1>1, <1>3, <1>4, OrderCommand DEF Ordering!Kinds
<1>6. Ordering!Send(c)
  BY <1>2, <1>3 DEF Ordering!Apply
<1>7. ASSUME ~spoiled' PROVE InTurn(c)' /\ (~moved => Carries(c)')
  <2>1. board.applied = row.applied /\ (~moved => board.places = schedule /\ Agree(state))
    BY <1>6, <1>7, OrderSends
  <2>2. c.draft = Ordering!DraftOf(c.seen.places, c.seen.base)
    BY <1>2, <1>5
  <2>3. InTurn(c)'
    BY <1>1, <1>5, <2>1, <2>2 DEF InTurn, Reads, Ordering!Writes, Ordering!Apply, Ordering!Loaded
  <2>4. ~moved => c.seen.base = schedule /\ Agree(c.seen.places)
    BY <1>5, <2>1
  <2> QED
    BY <1>5, <2>3, <2>4 DEF Carries, Reads, Ordering!Apply, Agree
<1> QED
  BY <1>5, <1>6, <1>7, OrderSent DEF Ordering!Apply, Ordering!Counted, OrderInv, OrderTypes

LEMMA OrderReopens ==
  ASSUME OrderInv, Ordering!Reopen PROVE OrderInv'
<1>1. Ordering!Loaded /\ board.applied /\ ~armed
  BY DEF OrderInv, OrderTypes, Ordering!Reopen, Ordering!ReadOnly
<1>2. PICK c : c = Ordering!Call("reopen", "read", <<>>)
  OBVIOUS
<1>3. /\ c \in OrderCall /\ WellPlaced(c) /\ Ordering!Writes(c) /\ c.visit = visit
      /\ c.kind = "reopen" /\ c.step = "read"
  BY <1>1, <1>2, OrderCommand, OrderNoDraft DEF Ordering!Kinds
<1>4. Ordering!Send(c)
  BY <1>2 DEF Ordering!Reopen, Ordering!NoDraft
<1>5. ASSUME ~spoiled' PROVE InTurn(c)' /\ (~moved => Carries(c)')
  <2>1. ~moved => Agree(Over(row.draft))
    BY <1>1, <1>4, <1>5, OrderSends
  <2>2. Agree(Over(row.draft)) => Agree(Over(row.draft))'
    BY DEF Agree, Over, Ordering!Reopen
  <2>3. InTurn(c)'
    BY <1>1, <1>3 DEF InTurn, Reads, Ordering!Writes, Ordering!Reopen, Ordering!Loaded
  <2> QED
    BY <1>3, <2>1, <2>2, <2>3 DEF Carries, Reads
<1> QED
  BY <1>3, <1>4, <1>5, OrderSent DEF Ordering!Reopen, Ordering!Counted, OrderInv, OrderTypes

LEMMA OrderEdits ==
  ASSUME OrderInv, NEW a \in OrderAnimes, NEW p \in Ordering!Places, Ordering!Edit(a, p) PROVE OrderInv'
<1> USE DEF Ordering!Edit
<1>1. /\ Ordering!Loaded /\ board.applied = FALSE /\ state' \in OrderBoards /\ made' \in Nat
            /\ spoiled' \in BOOLEAN
      /\ wanted' = state' /\ hasEdits' = TRUE /\ armed' = TRUE
  BY DEF OrderInv, OrderTypes, OrderBoards, Ordering!ReadOnly, Ordering!Counted
<1>2. wanted' # <<>>
  BY <1>1, OrderNoDraft DEF OrderBoards
<1>3. OrderTypes'
  BY <1>1 DEF OrderInv, OrderTypes, WellPlaced, Ordering!Loaded
<1>4. ASSUME ~spoiled' PROVE OneCall'
  <2>1. ~spoiled /\ OneCall /\ \A c \in calls : Live(c) => c.kind = "save"
    BY <1>4 DEF OrderInv, OneCall, InTurn, Live
  <2>2. board.applied = row.applied /\ (~moved => board.places = schedule)
    BY <2>1 DEF OneCall, AtRest
  <2>3. Agree(state)'
    BY <1>1, <1>2 DEF Agree
  <2>4. AtRest'
    BY <1>1, <2>2, <2>3 DEF AtRest
  <2>5. \A c \in calls : Live(c)' <=> Live(c)
    BY DEF Live
  <2>6. ASSUME NEW c \in calls, Live(c) PROVE InTurn(c)' /\ Carries(c)'
    <3>1. c.kind = "save" /\ c.step \in {"read", "write"} /\ InTurn(c)
      BY <2>1, <2>6 DEF OneCall, OrderInv, OrderTypes, WellPlaced
    <3> QED
      BY <1>1, <3>1 DEF InTurn, Carries, Reads, Ordering!Loaded
  <2> QED
    BY <2>1, <2>4, <2>5, <2>6 DEF OneCall
<1>5. OrderSafe'
  BY DEF OrderInv, OrderSafe, Ordering!AppliedIsSeen
<1> QED
  BY <1>3, <1>4, <1>5 DEF OrderInv

LEMMA OrderReenters ==
  ASSUME OrderInv, Ordering!Reenter PROVE OrderInv'
<1> USE DEF Ordering!Reenter
<1> DEFINE n == [kind |-> "load", step |-> "load", draft |-> <<>>, held |-> <<>>,
        visit |-> visit + 1, id |-> made, seen |-> <<>>]
<1>1. [Ordering!Call("load", "load", Ordering!NoDraft) EXCEPT !.visit = visit'] = n
  BY DEF Ordering!Call, Ordering!NoDraft
<1>2. PICK c : c = n
  OBVIOUS
<1>3. /\ calls' = calls \cup {c} /\ c.kind = "load" /\ c.step = "load" /\ c.visit = visit + 1
  BY <1>1, <1>2
<1>4. c \in OrderCall /\ visit \in Nat /\ made' \in Nat
  BY <1>2, OrderNoDraft DEF OrderCall, OrderInv, OrderTypes, Ordering!Kinds, Ordering!Steps,
    Ordering!Counted
<1> HIDE DEF n
<1>5. /\ hasEdits' = FALSE /\ armed' = FALSE /\ ~Ordering!Loaded' /\ spoiled' \in BOOLEAN
      /\ visit' = visit + 1 /\ UNCHANGED <<schedule, row, wanted, applied, moved>>
  BY DEF Ordering!Loaded
<1>6. OrderTypes'
  <2>1. \A x \in calls' : WellPlaced(x)'
    BY <1>3, <1>4, <1>5 DEF WellPlaced, OrderInv, OrderTypes, OrderCall
  <2>2. calls' \subseteq OrderCall
    BY <1>3, <1>4 DEF OrderInv, OrderTypes
  <2>3. c \in calls' /\ c.kind = "load" /\ c.visit = visit' /\ visit' \in Nat
    BY <1>3, <1>4, <1>5
  <2> QED
    BY <1>4, <1>5, <2>1, <2>2, <2>3 DEF OrderInv, OrderTypes
<1>7. ASSUME ~spoiled' PROVE OneCall'
  <2>1. ~spoiled /\ OneCall /\ ~armed /\ \A d \in calls : ~Ordering!Writes(d)
    BY <1>7 DEF OrderInv
  <2>2. \A d \in calls' : Live(d)' => d = c
    BY <1>3, <1>4, <1>5, <2>1 DEF Live, OrderInv, OrderTypes, WellPlaced, OrderCall
  <2>3. Live(c)' /\ c.kind # "save" /\ c \in calls'
    BY <1>3, <1>5 DEF Live
  <2>4. ~moved => Agree(Over(row.draft))
    <3>1. CASE \A d \in calls : ~Live(d)
      BY <2>1, <3>1 DEF OneCall, AtRest
    <3>2. ASSUME NEW d \in calls, Live(d) PROVE ~moved => Agree(Over(row.draft))
      <4>1. Reads(d)
        BY <2>1 DEF Reads, Ordering!Writes, OrderInv, OrderTypes, OrderCall, Ordering!Steps
      <4> QED
        BY <2>1, <3>2, <4>1 DEF OneCall, Carries
    <3> QED
      BY <3>1, <3>2
  <2>5. Agree(Over(row.draft)) => Agree(Over(row.draft))'
    BY <1>5 DEF Agree, Over
  <2>6. InTurn(c)' /\ (~moved => Carries(c)')
    BY <1>3, <1>5, <2>4, <2>5 DEF InTurn, Carries, Reads, Ordering!Writes
  <2>7. AtRest'
    BY <2>3 DEF AtRest
  <2> QED
    BY <1>5, <2>1, <2>2, <2>6, <2>7 DEF OneCall
<1>8. OrderSafe'
  BY <1>5 DEF OrderInv, OrderSafe, Ordering!AppliedIsSeen
<1> QED
  BY <1>6, <1>7, <1>8 DEF OrderInv

\* Once an anime was moved elsewhere, nothing is said of where the animes are.
LEMMA OrderMoves ==
  ASSUME OrderInv, NEW a \in OrderAnimes, NEW p \in Ordering!Places,
         Ordering!ScheduledElsewhere(a, p) PROVE OrderInv'
<1> USE DEF Ordering!ScheduledElsewhere
<1>1. /\ schedule' \in OrderBoards /\ moved' = TRUE /\ applied' = <<>> /\ spoiled' \in BOOLEAN
            /\ made' \in Nat
      /\ UNCHANGED <<row, board, state, hasEdits, armed, visit, calls, wanted>>
  BY DEF OrderInv, OrderTypes, OrderBoards, Ordering!Counted
<1>2. OrderTypes'
  BY <1>1 DEF OrderInv, OrderTypes, WellPlaced, Ordering!Loaded
<1>3. ASSUME ~spoiled' PROVE OneCall'
  <2>1. ~spoiled /\ OneCall /\ \A c \in calls : c.step # "commit"
    BY <1>3 DEF OrderInv
  <2>2. \A c \in calls : Live(c)' <=> Live(c)
    BY <1>1 DEF Live
  <2>3. \A c \in calls : Live(c) => InTurn(c)'
    BY <1>1, <2>1 DEF OneCall, InTurn, Ordering!Loaded
  <2>4. AtRest'
    BY <1>1, <2>1, <2>2 DEF OneCall, AtRest
  <2> QED
    BY <1>1, <2>1, <2>2, <2>3, <2>4 DEF OneCall
<1>4. OrderSafe'
  BY <1>1 DEF OrderSafe, Ordering!AppliedIsSeen
<1> QED
  BY <1>2, <1>3, <1>4 DEF OrderInv

\* A call goes on to its next step.
LEMMA OrderGoesTypes ==
  ASSUME OrderTypes, NEW c \in calls, NEW to \in OrderCall, calls' = (calls \ {c}) \cup {to},
         to.kind = c.kind, to.visit = c.visit, WellPlaced(to), UNCHANGED <<visit, board>>
  PROVE  /\ calls' \subseteq OrderCall /\ \A x \in calls' : WellPlaced(x)'
         /\ ~Ordering!Loaded' => \E x \in calls' : x.kind = "load" /\ x.visit = visit'
<1>1. \A x \in calls' : WellPlaced(x)'
  BY DEF OrderTypes, WellPlaced
<1>2. ~Ordering!Loaded' => \E x \in calls' : x.kind = "load" /\ x.visit = visit'
  <2>1. SUFFICES ASSUME NEW x \in calls, x.kind = "load", x.visit = visit
                 PROVE  \E y \in calls' : y.kind = "load" /\ y.visit = visit'
    BY DEF OrderTypes, Ordering!Loaded
  <2>2. to \in calls' /\ (x # c => x \in calls')
    OBVIOUS
  <2> QED
    BY <2>1, <2>2
<1> QED
  BY <1>1, <1>2 DEF OrderTypes

LEMMA OrderGoes ==
  ASSUME OneCall, NEW c \in calls, Live(c), NEW to, calls' = (calls \ {c}) \cup {to}, visit' = visit
  PROVE  \A d \in calls' : Live(d)' => d = to
BY DEF OneCall, Live

LEMMA OrderGone ==
  ASSUME OneCall, NEW c \in calls, Live(c), calls' = calls \ {c}, visit' = visit
  PROVE  \A d \in calls' : ~Live(d)'
BY DEF OneCall, Live

\* A call reads the season and its schedule: nothing but the call changes.
LEMMA OrderReads ==
  ASSUME OrderInv, NEW c \in calls, NEW step \in {"write", "commit", "arrive"}, NEW held,
         Ordering!Goes(c, [c EXCEPT !.step = step, !.held = held]),
         step = "write" => c.step = "read" /\ held = row,
         step = "commit" => c.step = "plan" /\ held = Ordering!Season,
         step = "arrive" => c.step = "load" /\ held = Ordering!Season,
         UNCHANGED <<schedule, row, board, state, hasEdits, armed, visit, made, wanted, applied,
             moved, spoiled>>
  PROVE  OrderInv'
<1>1. PICK to : to = [c EXCEPT !.step = step, !.held = held]
  OBVIOUS
<1>2. c \in OrderCall /\ WellPlaced(c) /\ row \in OrderRows /\ Ordering!Season \in OrderSeasons
  BY DEF OrderInv, OrderTypes, OrderRows, OrderSeasons, Ordering!Season
<1>3. /\ to \in OrderCall /\ to.kind = c.kind /\ to.visit = c.visit /\ to.draft = c.draft
            /\ to.seen = c.seen
      /\ to.step = step /\ to.held = held
  <2>1. held \in OrderRows \cup OrderSeasons
    BY <1>2
  <2> QED
    BY <1>1, <1>2, <2>1 DEF OrderCall, Ordering!Steps
<1>4. calls' = (calls \ {c}) \cup {to}
  BY <1>1 DEF Ordering!Goes
<1>5. WellPlaced(to)
  BY <1>2, <1>3 DEF WellPlaced
<1>6. OrderTypes'
  BY <1>3, <1>4, <1>5, OrderGoesTypes DEF OrderInv, OrderTypes, Ordering!Loaded
<1>7. OrderSafe'
  BY DEF OrderInv, OrderSafe, Ordering!AppliedIsSeen
<1>8. ASSUME ~spoiled' PROVE OneCall'
  <2>1. ~spoiled /\ OneCall
    BY <1>8 DEF OrderInv
  <2>2. (Live(to)' <=> Live(c)) /\ to \in calls'
    BY <1>3, <1>4 DEF Live, Ordering!Writes
  <2>3. \A d \in calls : Live(d)' <=> Live(d)
    BY DEF Live
  <2>4. \A d \in calls' : Live(d)' => (Live(c) /\ d = to) \/ (d \in calls /\ Live(d) /\ d # c)
    BY <1>4, <2>2, <2>3
  <2>5. \A d, e \in calls' : Live(d)' /\ Live(e)' => d = e
    BY <2>1, <2>4 DEF OneCall
  <2>6. /\ ~moved => held = row \/ held.places = schedule
        /\ held = row \/ (held.draft = row.draft /\ held.applied = row.applied)
    BY DEF Ordering!Season
  <2>7. ASSUME Live(c) PROVE InTurn(to)' /\ (~moved => Carries(to)')
    <3>1. InTurn(c) /\ (~moved => Carries(c))
      BY <2>1, <2>7 DEF OneCall
    <3>2. InTurn(to)'
      BY <1>3, <3>1, <2>6 DEF InTurn, Reads, Ordering!Writes, Ordering!Loaded, Ordering!Season
    <3>3. \A s : Agree(s) => Agree(s)'
      BY DEF Agree
    <3>4. /\ Agree(Over(row.draft)) => Agree(Over(row.draft))'
          /\ Agree(Over(c.draft)) => Agree(Over(c.draft))'
          /\ Agree(c.seen.places) => Agree(c.seen.places)'
      BY <3>3 DEF Over, Agree
    <3>5. step = "arrive" => held.places = schedule
      BY DEF Ordering!Season
    <3>6. ~moved => Carries(to)'
      BY <1>3, <3>1, <3>4, <3>5 DEF Carries, Reads, Ordering!Writes
    <3> QED
      BY <3>2, <3>6
  <2>8. ASSUME NEW d \in calls, Live(d) PROVE InTurn(d)' /\ (~moved => Carries(d)')
    BY <2>1, <2>8 DEF OneCall, InTurn, Carries, Reads, Agree, Over, Ordering!Loaded, Ordering!Season
  <2>9. AtRest'
    <3>1. (\A d \in calls' : Live(d)' => d.kind = "save") => \A d \in calls : Live(d) => d.kind = "save"
      BY <1>3, <1>4, <2>2, <2>3
    <3>2. (\A d \in calls' : ~Live(d)') => \A d \in calls : ~Live(d)
      BY <1>4, <2>2, <2>3
    <3> QED
      BY <2>1, <3>1, <3>2 DEF OneCall, AtRest, Agree, Over
  <2> QED
    BY <2>1, <2>4, <2>5, <2>7, <2>8, <2>9 DEF OneCall
<1> QED
  BY <1>6, <1>7, <1>8 DEF OrderInv

LEMMA OrderReadRow == ASSUME OrderInv, NEW c \in calls, Ordering!ReadRow(c) PROVE OrderInv'
<1>1. PICK held : held = row
  OBVIOUS
<1> QED
  BY <1>1, OrderReads DEF Ordering!ReadRow

LEMMA OrderPlans == ASSUME OrderInv, NEW c \in calls, Ordering!Plan(c) PROVE OrderInv'
<1>1. PICK held : held = Ordering!Season
  OBVIOUS
<1> QED
  BY <1>1, OrderReads DEF Ordering!Plan

LEMMA OrderReadBoard == ASSUME OrderInv, NEW c \in calls, Ordering!ReadBoard(c) PROVE OrderInv'
<1>1. PICK held : held = Ordering!Season
  OBVIOUS
<1> QED
  BY <1>1, OrderReads DEF Ordering!ReadBoard

\* The row is written: a save is over, the others go on.
LEMMA OrderWrites == ASSUME OrderInv, NEW c \in calls, NEW ok \in BOOLEAN, Ordering!WriteRow(c, ok)
    PROVE OrderInv'
<1> USE DEF Ordering!WriteRow
<1>1. /\ c \in OrderCall /\ WellPlaced(c) /\ c.step = "write" /\ c.held \in OrderRows
            /\ c.kind \in {"save", "reset", "apply", "reopen"}
  BY DEF OrderInv, OrderTypes, OrderCall, WellPlaced, Ordering!Kinds
<1>2. row' \in OrderRows
  BY <1>1 DEF OrderRows, OrderCall, OrderInv, OrderTypes
<1>3. /\ UNCHANGED <<schedule, board, state, visit, made, wanted, applied, moved>>
      /\ c.kind # "reopen" => UNCHANGED <<hasEdits, armed>>
      /\ hasEdits' \in BOOLEAN /\ armed' \in BOOLEAN /\ (armed' => armed /\ hasEdits')
            /\ spoiled' \in BOOLEAN
  BY DEF OrderInv, OrderTypes, Ordering!ClearEdits
<1>4. PICK to : to = [c EXCEPT !.step = IF c.kind = "apply" THEN "plan" ELSE "load"]
  OBVIOUS
<1>5. /\ to \in OrderCall /\ to.kind = c.kind /\ to.visit = c.visit /\ to.draft = c.draft
            /\ to.seen = c.seen
      /\ to.step = IF c.kind = "apply" THEN "plan" ELSE "load"
  BY <1>1, <1>4 DEF OrderCall, Ordering!Steps
<1>6. c.kind # "save" => WellPlaced(to)
  BY <1>1, <1>5 DEF WellPlaced
<1>7. calls' = IF c.kind = "save" THEN calls \ {c} ELSE (calls \ {c}) \cup {to}
  BY <1>4 DEF Ordering!After, Ordering!Goes
<1>8. OrderTypes'
  <2>1. CASE c.kind = "save"
    <3>1. calls' \subseteq calls /\ \A x \in calls : x.kind = "load" => x \in calls'
      BY <1>7, <2>1
    <3> QED
      BY <1>2, <1>3, <3>1 DEF OrderInv, OrderTypes, WellPlaced, Ordering!Loaded
  <2>2. CASE c.kind # "save"
    BY <1>2, <1>3, <1>5, <1>6, <1>7, <2>2, OrderGoesTypes DEF OrderInv, OrderTypes, Ordering!Loaded
  <2> QED
    BY <2>1, <2>2
<1>9. OrderSafe'
  BY <1>3 DEF OrderInv, OrderSafe, Ordering!AppliedIsSeen
<1>10. ASSUME ~spoiled' PROVE OneCall'
  <2>1. ~spoiled /\ OneCall /\ ok = TRUE /\ Live(c) /\ InTurn(c) /\ (~moved => Carries(c))
    BY <1>1, <1>10 DEF OrderInv, OneCall, Live, Ordering!Writes
  <2>2. /\ c.held = row /\ c.visit = visit /\ Ordering!Loaded
              /\ (c.kind # "reopen" => row.applied = FALSE)
        /\ c.kind = "reset" => hasEdits = FALSE /\ c.draft = <<>>
    BY <1>1, <2>1 DEF InTurn, Ordering!Writes
  <2>3. /\ row'.applied = FALSE
        /\ row'.draft = IF c.kind = "reopen" THEN row.draft ELSE c.draft
    BY <1>1, <2>1, <2>2 DEF OrderRows
  <2>4. Agree(Over(c.draft)) => Agree(Over(c.draft))'
    BY <1>3 DEF Agree, Over
  <2>5. CASE c.kind = "save"
    <3>1. \A d \in calls' : ~Live(d)'
      BY <1>3, <1>7, <2>1, <2>5, OrderGone
    <3>2. \A d \in calls : Live(d) => d.kind = "save"
      BY <2>1, <2>5 DEF OneCall
    <3>3. board.applied = row.applied /\ (~moved => board.places = schedule /\ Agree(state))
      BY <2>1, <3>2 DEF OneCall, AtRest
    <3>4. ~moved /\ ~armed => Agree(Over(row.draft))'
      BY <1>3, <2>1, <2>3, <2>5 DEF Carries, Agree, Over
    <3>5. AtRest'
      BY <1>3, <2>2, <2>3, <2>5, <3>3, <3>4 DEF AtRest, Agree, Over
    <3> QED
      BY <2>3, <3>1, <3>5 DEF OneCall
  <2>6. CASE c.kind # "save"
    <3>1. \A d \in calls' : Live(d)' => d = to
      BY <1>3, <1>7, <2>1, <2>6, OrderGoes
    <3>2. to \in calls' /\ Live(to)' /\ to.kind # "save"
      BY <1>3, <1>5, <1>7, <2>2, <2>6 DEF Live
    <3>3. AtRest'
      BY <3>2 DEF AtRest
    <3>4. InTurn(to)'
      <4>1. c.kind = "reopen" => hasEdits' = FALSE
        BY <2>2 DEF Ordering!ClearEdits
      <4>2. c.kind = "apply" => c.draft = Ordering!DraftOf(c.seen.places, c.seen.base)
        BY <1>1, <2>1 DEF InTurn, Ordering!Writes
      <4> QED
        BY <1>1, <1>3, <1>5, <2>2, <2>3, <2>6, <4>1, <4>2 DEF InTurn, Reads, Ordering!Writes,
          Ordering!Loaded
    <3>5. ~moved => Carries(to)'
      <4>1. ASSUME ~moved, c.kind = "reset" PROVE Agree(Over(row.draft))'
        BY <1>1, <1>3, <2>1, <2>2, <2>3, <4>1, OrderNoDraft DEF Carries, Ordering!Writes, Agree,
          Over
      <4>2. ASSUME ~moved, c.kind = "reopen" PROVE Agree(Over(row.draft))'
        BY <1>3, <2>1, <2>3, <4>2 DEF Carries, Agree, Over
      <4>3. ASSUME ~moved, c.kind = "apply" PROVE c.seen.base = schedule' /\ Agree(c.seen.places)'
        BY <1>1, <1>3, <2>1, <4>3 DEF Carries, Ordering!Writes, Agree
      <4> QED
        BY <1>1, <1>5, <2>6, <4>1, <4>2, <4>3 DEF Carries, Reads, Ordering!Writes
    <3> QED
      BY <1>3, <2>3, <3>1, <3>3, <3>4, <3>5 DEF OneCall
  <2> QED
    BY <2>5, <2>6
<1> QED
  BY <1>8, <1>9, <1>10 DEF OrderInv

\* The board arrives; that of an earlier visit is dropped.
LEMMA OrderArrives == ASSUME OrderInv, NEW c \in calls, Ordering!BoardArrives(c) PROVE OrderInv'
<1> USE DEF Ordering!BoardArrives
<1>1. /\ c \in OrderCall /\ WellPlaced(c) /\ c.step = "arrive" /\ c.kind # "save"
            /\ c.held \in OrderSeasons /\ calls' = calls \ {c}
  BY DEF OrderInv, OrderTypes, OrderCall, WellPlaced
<1>2. OrderSafe'
  BY DEF OrderInv, OrderSafe, Ordering!AppliedIsSeen
<1>3. CASE c.visit = visit
  <2>1. /\ board' = [places |-> c.held.places, applied |-> c.held.applied]
        /\ state' = Ordering!Restored(c.held.places, c.held) /\ armed' = (hasEdits /\ ~c.held.applied)
        /\ UNCHANGED <<schedule, row, hasEdits, visit, made, wanted, applied, moved, spoiled>>
    BY <1>3
  <2>2. board' \in [places : OrderBoards, applied : BOOLEAN] /\ state' \in OrderBoards
    BY <1>1, <2>1, OrderRestored DEF OrderSeasons
  <2>3. Ordering!Loaded'
    BY <2>1 DEF Ordering!Loaded
  <2>4. board'.places = c.held.places /\ board'.applied = c.held.applied
    BY <2>1
  <2>5. OrderTypes'
    BY <1>1, <2>1, <2>2, <2>3, <2>4 DEF OrderInv, OrderTypes, WellPlaced, OrderSeasons
  <2>6. ASSUME ~spoiled' PROVE OneCall'
    <3>1. ~spoiled /\ OneCall /\ Live(c) /\ InTurn(c) /\ (~moved => Carries(c))
      BY <1>1, <1>3, <2>1, <2>6 DEF OrderInv, OneCall, Live
    <3>2. /\ c.held.draft = row.draft /\ c.held.applied = row.applied
          /\ ~moved => c.held.places = schedule /\ Agree(Over(row.draft))
      BY <1>1, <3>1 DEF InTurn, Carries, Reads
    <3>3. \A d \in calls' : ~Live(d)'
      BY <1>1, <2>1, <3>1, OrderGone
    <3>4. ~moved => Agree(state)' /\ Agree(Over(row.draft))'
      <4>1. ~moved => \A a \in OrderAnimes : state'[a] = Over(row.draft)[a]
        BY <2>1, <3>1, <3>2, OrderOver DEF OneCall
      <4> QED
        BY <2>1, <3>2, <4>1 DEF Agree, Over
    <3>5. AtRest'
      BY <2>1, <2>4, <3>2, <3>4 DEF AtRest
    <3> QED
      BY <2>1, <3>1, <3>3, <3>5 DEF OneCall
  <2> QED
    BY <1>2, <2>5, <2>6 DEF OrderInv
<1>4. CASE c.visit # visit
  <2>1. UNCHANGED <<schedule, row, board, state, hasEdits, armed, visit, made, wanted, applied,
            moved, spoiled>>
    BY <1>4
  <2>2. \A d \in calls : Live(d) => d \in calls'
    BY <1>1, <1>4 DEF Live, Ordering!Writes
  <2>3. \A d \in calls : d.kind = "load" /\ d.visit = visit => d \in calls'
    BY <1>1, <1>4
  <2>4. OrderTypes'
    BY <1>1, <2>1, <2>3 DEF OrderInv, OrderTypes, WellPlaced, Ordering!Loaded
  <2>5. ASSUME ~spoiled' PROVE OneCall'
    <3>1. ~spoiled /\ OneCall
      BY <2>1, <2>5 DEF OrderInv
    <3>2. \A d \in calls : Live(d)' <=> Live(d)
      BY <2>1 DEF Live
    <3>3. AtRest'
      BY <1>1, <2>1, <2>2, <3>1, <3>2 DEF OneCall, AtRest, Agree, Over
    <3>4. ASSUME NEW d \in calls', Live(d) PROVE InTurn(d)' /\ (~moved => Carries(d)')
      BY <1>1, <2>1, <3>1, <3>4 DEF OneCall, InTurn, Carries, Reads, Agree, Over, Ordering!Loaded,
        Ordering!Season
    <3> QED
      BY <1>1, <2>1, <3>1, <3>2, <3>3, <3>4 DEF OneCall
  <2> QED
    BY <1>2, <2>4, <2>5 DEF OrderInv
<1> QED
  BY <1>3, <1>4

\* The apply ends and the board is loaded again.  What it wrote is what was seen when
\* it was pressed.
LEMMA OrderEnds ==
  ASSUME OrderInv, NEW c \in calls, NEW done \in SUBSET OrderAnimes, c.step = "commit",
         done \subseteq DOMAIN c.held.draft, Ordering!Ended(c, done), row' \in OrderRows,
             spoiled' \in BOOLEAN,
         ~spoiled' => /\ ~spoiled /\ done = DOMAIN c.held.draft
                      /\ row' = IF c.held.draft = <<>> THEN row ELSE [draft |-> <<>>, applied |-> TRUE]
  PROVE  OrderInv'
<1> USE DEF Ordering!Ended
<1>1. c \in OrderCall /\ WellPlaced(c) /\ c.held \in OrderSeasons /\ c.kind = "apply"
          /\ c.seen \in OrderSeen
  BY DEF OrderInv, OrderTypes, WellPlaced
<1>2. PICK to : to = [c EXCEPT !.step = "load"]
  OBVIOUS
<1>3. /\ to \in OrderCall /\ to.kind = "apply" /\ to.visit = c.visit /\ to.step = "load"
            /\ to.seen = c.seen
      /\ calls' = (calls \ {c}) \cup {to}
  BY <1>1, <1>2 DEF OrderCall, Ordering!Steps, Ordering!Goes
<1>4. WellPlaced(to)
  BY <1>1, <1>3 DEF WellPlaced
<1>5. /\ UNCHANGED <<board, state, visit, made, wanted, moved>>
      /\ hasEdits' \in BOOLEAN /\ armed' \in BOOLEAN /\ (armed' => armed /\ hasEdits')
  BY DEF OrderInv, OrderTypes, Ordering!ClearEdits
<1>6. schedule' \in OrderBoards
  <2>1. \A a \in done : c.held.draft[a] \in Ordering!Places
    BY <1>1, OrderDrafts DEF OrderSeasons
  <2>2. schedule \in OrderBoards
    BY DEF OrderInv, OrderTypes
  <2> QED
    BY <2>1, <2>2 DEF OrderBoards
<1>7. OrderTypes'
  BY <1>1, <1>3, <1>4, <1>5, <1>6, OrderGoesTypes DEF OrderInv, OrderTypes, Ordering!Loaded
<1>8. ASSUME ~spoiled'
      PROVE  /\ OneCall /\ Live(c) /\ InTurn(c) /\ (~moved => Carries(c))
             /\ row.draft = c.draft /\ row.applied = FALSE
             /\ c.draft = Ordering!DraftOf(c.seen.places, c.seen.base)
             /\ done = DOMAIN c.draft
             /\ done = {a \in OrderAnimes : c.seen.places[a] # 0 \/ c.seen.base[a] = 0}
             /\ \A a \in OrderAnimes : schedule'[a] = IF a \in done THEN c.seen.places[a]
                   ELSE schedule[a]
  <2>1. OneCall /\ Live(c) /\ InTurn(c) /\ (~moved => Carries(c))
    BY <1>8 DEF OrderInv, OneCall, Live, Ordering!Writes
  <2>2. /\ row.draft = c.draft /\ row.applied = FALSE /\ c.held = Ordering!Season
        /\ c.draft = Ordering!DraftOf(c.seen.places, c.seen.base)
    BY <1>1, <2>1 DEF InTurn, Ordering!Writes
  <2>3. c.held.draft = c.draft /\ c.held.places = schedule
    BY <2>2 DEF Ordering!Season
  <2>4. c.seen.places \in OrderBoards /\ c.seen.base \in OrderBoards
    BY <1>1 DEF OrderSeen
  <2>5. /\ done = {a \in OrderAnimes : c.seen.places[a] # 0 \/ c.seen.base[a] = 0}
        /\ \A a \in done : c.held.draft[a] = c.seen.places[a]
    <3>1. /\ DOMAIN c.draft = {a \in OrderAnimes : c.seen.places[a] # 0 \/ c.seen.base[a] = 0}
          /\ \A a \in DOMAIN c.draft : c.draft[a] = c.seen.places[a]
      <4>1. PICK p \in OrderBoards, b \in OrderBoards : p = c.seen.places /\ b = c.seen.base
        BY <2>4
      <4>2. c.draft = Ordering!DraftOf(p, b)
        BY <2>2, <4>1
      <4>3. PICK d : d = Ordering!DraftOf(p, b)
        OBVIOUS
      <4>4. DOMAIN d = {a \in OrderAnimes : p[a] # 0 \/ b[a] = 0}
        BY <4>3, OrderDraft, Zenon
      <4>5. \A a \in DOMAIN d : d[a] = p[a]
        BY <4>3, OrderDraft, Zenon
      <4> QED
        BY <4>1, <4>2, <4>3, <4>4, <4>5
    <3> QED
      BY <1>8, <2>3, <3>1
  <2>6. \A a \in OrderAnimes : schedule'[a] = IF a \in done THEN c.seen.places[a] ELSE schedule[a]
    BY <2>3, <2>5
  <2> QED
    BY <1>8, <2>1, <2>2, <2>3, <2>5, <2>6
<1>9. OrderSafe'
  <2>1. applied'.seen = c.seen.places /\ applied'.base = c.seen.base
    OBVIOUS
  <2>2. ASSUME ~spoiled', NEW a \in OrderAnimes
        PROVE  schedule'[a] = c.seen.places[a] \/ Ordering!Kept(a, c.seen.places[a], c.seen.base[a])
    BY <1>8, <2>2 DEF Ordering!Kept, Ordering!Rail
  <2> QED
    BY <2>1, <2>2 DEF OrderSafe, Ordering!AppliedIsSeen, Ordering!Kept
<1>10. ASSUME ~spoiled' PROVE OneCall'
  <2>1. /\ OneCall /\ Live(c) /\ InTurn(c) /\ (~moved => Carries(c)) /\ row.draft = c.draft
              /\ row.applied = FALSE
        /\ done = {a \in OrderAnimes : c.seen.places[a] # 0 \/ c.seen.base[a] = 0}
        /\ \A a \in OrderAnimes : schedule'[a] = IF a \in done THEN c.seen.places[a] ELSE schedule[a]
    BY <1>8, <1>10
  <2>2. c.visit = visit
    BY <2>1 DEF InTurn, Ordering!Writes
  <2>3. hasEdits' = FALSE
    BY <2>2 DEF Ordering!ClearEdits
  <2>4. \A d \in calls' : Live(d)' => d = to
    BY <1>3, <1>5, <2>1, OrderGoes
  <2>5. to \in calls' /\ Live(to)' /\ to.kind # "save"
    BY <1>3, <1>5, <2>2 DEF Live
  <2>6. AtRest'
    BY <2>5 DEF AtRest
  <2>7. InTurn(to)'
    BY <1>3, <2>3 DEF InTurn, Ordering!Writes, Reads
  <2>8. (row'.applied => row'.draft = <<>>) /\ (done # {} => row'.draft = <<>>)
    <3>1. c.held.draft = <<>> => done = {}
      BY <1>10, OrderNoDraft
    <3> QED
      BY <1>10, <2>1, <3>1
  <2>9. ASSUME ~moved PROVE Carries(to)'
    <3>1. c.seen.base = schedule /\ Agree(c.seen.places)
      BY <1>1, <2>1, <2>9 DEF Carries, Ordering!Writes
    <3>2. \A a \in OrderAnimes : Over(row.draft)'[a] = schedule'[a]
      <4>1. CASE row'.draft = <<>>
        BY <4>1, OrderNoDraft DEF Over
      <4>2. CASE row'.draft # <<>>
        <5>1. c.held.draft = <<>> /\ row' = row /\ done = {}
          BY <1>10, <2>8, <4>2
        <5>2. DOMAIN row.draft = done
          BY <1>8, <1>10
        <5> QED
          BY <5>1, <5>2 DEF Over
      <4> QED
        BY <4>1, <4>2
    <3>3. Agree(schedule)'
      BY <1>5, <2>1, <3>1 DEF Agree, Ordering!Kept, Ordering!Rail
    <3>4. Agree(Over(row.draft))'
      BY <3>2, <3>3 DEF Agree
    <3> QED
      BY <1>3, <3>4 DEF Carries, Reads, Ordering!Writes
  <2> QED
    BY <1>5, <2>4, <2>6, <2>7, <2>8, <2>9 DEF OneCall
<1> QED
  BY <1>7, <1>9, <1>10 DEF OrderInv

LEMMA OrderCommits == ASSUME OrderInv, NEW c \in calls, Ordering!Commit(c) PROVE OrderInv'
<1> USE DEF Ordering!Commit
<1>1. c.held \in OrderSeasons /\ spoiled \in BOOLEAN /\ row \in OrderRows
  BY DEF OrderInv, OrderTypes, WellPlaced
<1>2. PICK done : done = DOMAIN c.held.draft
  OBVIOUS
<1>3. done \in SUBSET OrderAnimes
  BY <1>1, <1>2, OrderDrafts DEF OrderSeasons
<1>4. row' = IF c.held.draft = <<>> THEN row ELSE [draft |-> <<>>, applied |-> TRUE]
  BY DEF Ordering!NoDraft
<1>5. row' \in OrderRows
  BY <1>1, <1>4, OrderNoDraft DEF OrderRows
<1> QED
  BY <1>1, <1>2, <1>3, <1>4, <1>5, OrderEnds

LEMMA OrderCommitFails == ASSUME OrderInv, NEW c \in calls, NEW k, Ordering!CommitFails(c, k)
    PROVE OrderInv'
<1> USE DEF Ordering!CommitFails
<1>1. c.held \in OrderSeasons /\ row \in OrderRows
  BY DEF OrderInv, OrderTypes, WellPlaced
<1>2. PICK done : done = {a \in DOMAIN c.held.draft : a <= k}
  OBVIOUS
<1>3. done \in SUBSET OrderAnimes
  BY <1>1, <1>2, OrderDrafts DEF OrderSeasons
<1> QED
  BY <1>1, <1>2, <1>3, OrderEnds

LEMMA OrderStepKeepsInv ==
  ASSUME OrderInv, [Ordering!Next]_(Ordering!vars) PROVE OrderInv'
<1>1. CASE Ordering!Next
  BY <1>1, OrderEdits, OrderMoves, OrderAutosaves, OrderResets, OrderApplies, OrderReopens,
    OrderReenters,
    OrderWrites, OrderReadRow, OrderPlans, OrderCommits, OrderReadBoard, OrderArrives,
    OrderCommitFails DEF Ordering!Next
<1>2. CASE UNCHANGED Ordering!vars
  BY <1>2 DEF Ordering!vars, OrderInv, OrderTypes, WellPlaced, OneCall, AtRest, Live, InTurn,
    Carries, Reads, Agree, Over,
    Ordering!Loaded, Ordering!Season, OrderSafe, Ordering!AppliedIsSeen
<1> QED
  BY <1>1, <1>2

LEMMA OrderPromises ==
  ASSUME OrderInv PROVE Ordering!TypeOK /\ Ordering!DraftKept /\ Ordering!AppliedIsSeen
<1>1. Ordering!TypeOK
  BY DEF OrderInv, OrderTypes, OrderBoards, OrderRows, OrderCall, WellPlaced, Ordering!TypeOK,
    Ordering!ReadOnly
<1>2. Ordering!DraftKept
  <2>1. SUFFICES ASSUME calls = {}, ~armed, ~spoiled, ~moved
                 PROVE  IF wanted = <<>> THEN state = schedule
                        ELSE \A a \in OrderAnimes : state[a] = wanted[a]
                            \/ Ordering!Kept(a, wanted[a], schedule[a])
    BY DEF Ordering!DraftKept
  <2>2. Ordering!Loaded /\ state \in OrderBoards /\ schedule \in OrderBoards
    BY <2>1 DEF OrderInv, OrderTypes
  <2>3. Agree(state)
    BY <2>1 DEF OrderInv, OneCall, AtRest
  <2> QED
    BY <2>2, <2>3 DEF Agree, OrderBoards
<1> QED
  BY <1>1, <1>2 DEF OrderInv, OrderSafe

\* For any animes and days: with nothing on its way the ordering board has each anime where
\* the user left it, and an apply stores what was seen when it was pressed, unless writes
\* overlapped, one failed or the schedule moved elsewhere (useOrderingBoard).
THEOREM OrderingIsSafe ==
  ASSUME OrderAssumptions
  PROVE  Ordering!Spec => [](Ordering!TypeOK /\ Ordering!DraftKept /\ Ordering!AppliedIsSeen)
<1>1. Ordering!Init => OrderInv
  BY OrderInit
<1>2. OrderInv /\ [Ordering!Next]_(Ordering!vars) => OrderInv'
  BY OrderStepKeepsInv
<1> QED
  BY <1>1, <1>2, OrderPromises, PTL DEF Ordering!Spec

-----------------------------------------------------------------------------
(* The anime editor's data card.  The form is held by at most one command or *)
(* the read it waits for, and a command given up on is not answered; a form  *)
(* that is not dirty has nothing typed on it; a version of an anime has one  *)
(* content.                                                                  *)

EditorAssumptions == Animes # {} /\ EditorVersion \in Nat /\ None \notin Editor!Records

EditorLoad == [kind : {"load"}, anime : Animes, sequence : Nat, releases : BOOLEAN, served : BOOLEAN,
               answer : Editor!Records \cup {None}]
EditorCommand ==
  [kind : Editor!Commands, anime : Animes, ticket : Nat, base : 0..EditorVersion, values :
      Editor!Contents,
   changes : SUBSET Fields, blind : SUBSET Fields, next : Animes \cup {None}, served : BOOLEAN,
       over : BOOLEAN,
   outcome : {None, "applied", "conflict"}, answer : Editor!Records \cup {None}]

EditorTypes ==
  /\ stored \in [Animes -> [version : 0..EditorVersion, field : Editor!Contents]]
  /\ selected \in Animes /\ record \in Editor!Records /\ draft \in Editor!Contents
        /\ pending \in Animes \cup {None}
  /\ retains \in BOOLEAN /\ saving \in BOOLEAN /\ loading \in BOOLEAN /\ warned \in BOOLEAN
        /\ strayed \in BOOLEAN
  /\ late \subseteq typed /\ typed \subseteq Fields /\ sequence \in Nat /\ made \in Nat
  /\ calls \subseteq EditorLoad \cup EditorCommand

\* What the window holds of an anime: nothing newer than the stored one, and the
\* content of its version.
IsOf(r) ==
  /\ r.version <= stored[r.anime].version
  /\ r.version = stored[r.anime].version => r.field = stored[r.anime].field

HeldIsOfStore ==
  /\ IsOf(record)
  /\ \A c \in calls : c.served => c.answer \in Editor!Records /\ c.answer.anime = c.anime
        /\ IsOf(c.answer)
  /\ \A c \in calls : c.kind \in Editor!Commands =>
       /\ c.base <= stored[c.anime].version
       /\ c.base = stored[c.anime].version => \A f \in c.blind : stored[c.anime].field[f] # "theirs"
  /\ overwrote = FALSE

\* The call that keeps the form busy.
Holds(c) == IF c.kind = "load" THEN c.releases ELSE ~c.over

OneHolds ==
  /\ \A c \in calls : Holds(c) => saving
  /\ \A c, d \in calls : Holds(c) /\ Holds(d) => c = d
  /\ \A c \in calls : c.kind # "load" /\ c.served => ~c.over

\* Of two reads one is newer; until the newest is answered nothing is typed.
ReadsInOrder ==
  /\ \A c \in calls : c.kind = "load" => c.sequence <= sequence /\ (c.sequence = sequence => loading)
  /\ \A c, d \in calls : c.kind = "load" /\ d.kind = "load" /\ c.sequence = d.sequence => c = d
  /\ \A c \in calls : c.kind = "load" /\ c.sequence = sequence /\ ~c.releases => typed = {}

CleanIsUntyped ==
  ~retains => \A f \in Fields : IF f \in typed THEN draft[f] = "mine" /\ record.field[f] # "mine"
                                ELSE draft[f] = record.field[f]

\* A save under way carries every edit but the late ones.
SaveCarries ==
  \A c \in calls : c.kind = "save" /\ ~c.over =>
    /\ \A f \in typed \ late : draft[f] = c.values[f] /\ (f \in c.changes \/ draft[f] = record.field[f])
    /\ c.served /\ c.outcome = "applied" => \A f \in c.changes : c.answer.field[f] = c.values[f]

EditorSafe == Editor!FormIsOfSelection /\ Editor!EditsSurvive

EditorInv ==
  /\ EditorTypes /\ HeldIsOfStore /\ OneHolds /\ ReadsInOrder /\ CleanIsUntyped /\ SaveCarries
        /\ EditorSafe

USE DEF Editor!form, Editor!history

LEMMA EditorInit ==
  ASSUME EditorAssumptions, Editor!Init PROVE EditorInv
<1>1. selected \in Animes
  BY DEF Editor!Init, EditorAssumptions
<1>2. stored \in [Animes -> [version : 0..EditorVersion, field : Editor!Contents]]
  <2>1. [version |-> 0, field |-> [f \in Fields |-> "old"]] \in [version : 0..EditorVersion, field :
            Editor!Contents]
    BY DEF EditorAssumptions, Editor!Contents, Editor!Values
  <2> QED
    BY <2>1 DEF Editor!Init
<1>3. /\ record = [anime |-> selected, version |-> stored[selected].version,
            field |-> stored[selected].field]
      /\ draft = record.field /\ retains = FALSE /\ saving = FALSE /\ loading = FALSE
            /\ sequence = 0 /\ pending = None
      /\ calls = {} /\ made = 0 /\ typed = {} /\ late = {} /\ warned = FALSE /\ strayed = FALSE
            /\ droppedBy = {}
      /\ overwrote = FALSE
  BY DEF Editor!Init, Editor!RecordOf
<1>4. record \in Editor!Records /\ record.anime = selected /\ IsOf(record) /\ draft \in Editor!Contents
  BY <1>1, <1>2, <1>3 DEF Editor!Records, IsOf
<1>5. EditorTypes
  BY <1>1, <1>2, <1>3, <1>4 DEF EditorTypes
<1> QED
  BY <1>3, <1>4, <1>5 DEF EditorInv, HeldIsOfStore, OneHolds, ReadsInOrder, CleanIsUntyped,
    SaveCarries, EditorSafe,
    Editor!FormIsOfSelection, Editor!EditsSurvive, Editor!Contents

LEMMA EditorClean ==
  ASSUME EditorAssumptions, EditorTypes, CleanIsUntyped, ~Editor!IsDirty PROVE typed = {}
<1>1. ~retains /\ draft = record.field
  BY DEF EditorAssumptions, EditorTypes, Editor!IsDirty
<1> QED
  BY <1>1 DEF EditorTypes, CleanIsUntyped

LEMMA EditorSame ==
  ASSUME EditorInv, made' \in Nat, pending' \in Animes \cup {None},
         UNCHANGED <<stored, selected, record, draft, retains, saving, loading, sequence, calls,
             typed, late, warned, strayed,
                     droppedBy, overwrote>>
  PROVE  EditorInv'
<1>1. EditorTypes'
  BY DEF EditorInv, EditorTypes
<1>2. HeldIsOfStore' /\ OneHolds'
  BY DEF EditorInv, HeldIsOfStore, IsOf, OneHolds
<1>3. ReadsInOrder' /\ CleanIsUntyped' /\ SaveCarries'
  BY DEF EditorInv, ReadsInOrder, CleanIsUntyped, SaveCarries
<1>4. EditorSafe'
  BY DEF EditorInv, EditorSafe, Editor!FormIsOfSelection, Editor!EditsSurvive
<1> QED
  BY <1>1, <1>2, <1>3, <1>4 DEF EditorInv

\* What reading an anime again does to the calls that remain.
LEMMA EditorStartsLoad ==
  ASSUME EditorTypes, OneHolds, ReadsInOrder, NEW S \in SUBSET calls, NEW a \in Animes,
         NEW releases \in BOOLEAN,
         Editor!StartLoad(S, a, releases), releases => saving' /\ (\A c \in S : ~Holds(c)),
         releases \/ typed' = {}, \A c \in S : Holds(c) => saving'
  PROVE  /\ loading' = TRUE /\ sequence' \in Nat
         /\ calls' \subseteq EditorLoad \cup EditorCommand
         /\ \A c \in calls' : c \in S \/ (c.kind = "load" /\ ~c.served)
         /\ OneHolds' /\ ReadsInOrder'
<1> DEFINE n == Editor!Load(a, releases)
<1>1. n = [kind |-> "load", anime |-> a, sequence |-> sequence + 1, releases |-> releases,
          served |-> FALSE, answer |-> None]
  BY DEF Editor!Load
<1>2. sequence \in Nat /\ sequence + 1 \in Nat
  BY DEF EditorTypes
<1>3. sequence' = sequence + 1 /\ loading' = TRUE /\ calls' = S \cup {n}
  BY DEF Editor!StartLoad
<1> HIDE DEF n
<1>4. n \in EditorLoad /\ n.kind = "load" /\ n.sequence = sequence + 1 /\ n.releases = releases
          /\ ~n.served
  BY <1>1, <1>2 DEF EditorLoad
<1>5. calls' \subseteq EditorLoad \cup EditorCommand
  BY <1>3, <1>4 DEF EditorTypes
<1>6. \A c \in S : c.kind = "load" => c.sequence \in Nat /\ c.sequence < sequence + 1
  BY <1>2 DEF ReadsInOrder, EditorTypes, EditorLoad, EditorCommand, Editor!Commands
<1>7. OneHolds'
  BY <1>3, <1>4 DEF OneHolds, Holds
<1>8. ReadsInOrder'
  BY <1>2, <1>3, <1>4, <1>6 DEF ReadsInOrder
<1> QED
  BY <1>2, <1>3, <1>4, <1>5, <1>7, <1>8

\* Another selection, kept back by the guard when the form is dirty.
LEMMA EditorSelect ==
  ASSUME EditorAssumptions, EditorInv, NEW a \in Animes, Editor!Select(a) PROVE EditorInv'
<1>1. /\ UNCHANGED <<stored, record, draft, retains, saving, typed, late, warned, strayed,
            droppedBy, overwrote>>
      /\ made' = made + 1 /\ pending = None
  BY DEF Editor!Select
<1>2. CASE Editor!IsDirty
  <2>1. pending' = a /\ UNCHANGED <<selected, loading, sequence, calls>>
    BY <1>2 DEF Editor!Select
  <2>2. made' \in Nat
    BY <1>1 DEF EditorInv, EditorTypes
  <2> QED
    BY <1>1, <2>1, <2>2, EditorSame
<1>3. CASE ~Editor!IsDirty
  <2>1. selected' = a /\ Editor!StartLoad(calls, a, FALSE) /\ UNCHANGED pending
    BY <1>3 DEF Editor!Select
  <2>2. typed = {}
    BY <1>3, EditorClean DEF EditorInv
  <2>3. /\ loading' = TRUE /\ sequence' \in Nat /\ calls' \subseteq EditorLoad \cup EditorCommand
        /\ \A c \in calls' : c \in calls \/ (c.kind = "load" /\ ~c.served)
        /\ OneHolds' /\ ReadsInOrder'
    <3>1. \A c \in calls : Holds(c) => saving'
      BY <1>1 DEF EditorInv, OneHolds
    <3> QED
      BY <1>1, <2>1, <2>2, <3>1, EditorStartsLoad DEF EditorInv
  <2>4. EditorTypes'
    BY <1>1, <2>1, <2>3 DEF EditorInv, EditorTypes
  <2>5. HeldIsOfStore' /\ CleanIsUntyped'
    BY <1>1, <2>3 DEF EditorInv, HeldIsOfStore, IsOf, CleanIsUntyped, Editor!Commands
  <2>6. SaveCarries' /\ EditorSafe'
    BY <1>1, <2>3 DEF EditorInv, SaveCarries, EditorSafe, Editor!FormIsOfSelection,
      Editor!EditsSurvive
  <2> QED
    BY <2>3, <2>4, <2>5, <2>6 DEF EditorInv
<1> QED
  BY <1>2, <1>3

\* What is typed while a command is out is late.
LEMMA EditorType ==
  ASSUME EditorInv, NEW f \in Fields, Editor!Type(f) PROVE EditorInv'
<1>1. /\ ~loading /\ draft[f] # "mine" /\ draft' = [draft EXCEPT ![f] = "mine"] /\ typed' = typed
            \cup {f}
      /\ late' = IF saving THEN late \cup {f} ELSE late
      /\ UNCHANGED <<stored, selected, record, retains, saving, loading, sequence, pending, calls,
            made, warned, strayed,
                     droppedBy, overwrote>>
  BY DEF Editor!Type
<1>2. EditorTypes'
  BY <1>1 DEF EditorInv, EditorTypes, Editor!Contents, Editor!Values
<1>3. HeldIsOfStore' /\ OneHolds' /\ EditorSafe'
  BY <1>1 DEF EditorInv, HeldIsOfStore, IsOf, OneHolds, EditorSafe, Editor!FormIsOfSelection,
    Editor!EditsSurvive
<1>4. ReadsInOrder'
  BY <1>1 DEF EditorInv, ReadsInOrder
<1>5. CleanIsUntyped'
  BY <1>1 DEF EditorInv, EditorTypes, CleanIsUntyped, Editor!Contents
<1>6. SaveCarries'
  <2>1. \A c \in calls : c.kind = "save" /\ ~c.over => saving
    BY DEF EditorInv, OneHolds, Holds
  <2> QED
    BY <1>1, <2>1 DEF EditorInv, EditorTypes, SaveCarries, Editor!Contents
<1> QED
  BY <1>2, <1>3, <1>4, <1>5, <1>6 DEF EditorInv

\* The form shows authority again: nothing typed is on it.
LEMMA EditorShows ==
  ASSUME EditorAssumptions, EditorInv, NEW r \in Editor!Records, Editor!ShowAuthority(r), record' = r
  PROVE  /\ draft' = r.field /\ draft' \in Editor!Contents /\ retains' = FALSE /\ typed' = {}
            /\ late' = {} /\ warned' = FALSE
         /\ CleanIsUntyped'
<1>1. draft' = r.field /\ retains' = FALSE /\ typed' = {} /\ late' = {} /\ warned' = FALSE
  BY DEF Editor!ShowAuthority, EditorAssumptions
<1> QED
  BY <1>1 DEF CleanIsUntyped, Editor!Records

LEMMA EditorDiscard ==
  ASSUME EditorAssumptions, EditorInv, Editor!Discard \/ Editor!Stay \/ Editor!DiscardAndContinue
         PROVE EditorInv'
<1>0. record \in Editor!Records /\ pending \in Animes \cup {None}
  BY DEF EditorInv, EditorTypes
<1>1. CASE Editor!Stay
  <2>1. pending' \in Animes \cup {None} /\ made' \in Nat
    BY <1>1 DEF Editor!Stay, EditorInv, EditorTypes
  <2> QED
    BY <1>1, <2>1, EditorSame DEF Editor!Stay
<1>2. CASE Editor!Discard
  <2>1. /\ Editor!ShowAuthority(record) /\ record' = record
        /\ UNCHANGED <<stored, selected, record, saving, loading, sequence, pending, calls, made,
              strayed, droppedBy, overwrote>>
    BY <1>2 DEF Editor!Discard
  <2>2. /\ draft' \in Editor!Contents /\ retains' = FALSE /\ typed' = {} /\ late' = {}
              /\ warned' = FALSE /\ CleanIsUntyped'
    BY <1>0, <2>1, EditorShows
  <2>3. EditorTypes'
    BY <2>1, <2>2 DEF EditorInv, EditorTypes
  <2>4. HeldIsOfStore' /\ OneHolds' /\ ReadsInOrder'
    BY <2>1, <2>2 DEF EditorInv, HeldIsOfStore, IsOf, OneHolds, ReadsInOrder
  <2>5. SaveCarries' /\ EditorSafe'
    BY <2>1, <2>2 DEF EditorInv, SaveCarries, EditorSafe, Editor!FormIsOfSelection,
      Editor!EditsSurvive
  <2> QED
    BY <2>2, <2>3, <2>4, <2>5 DEF EditorInv
<1>3. CASE Editor!DiscardAndContinue
  <2>1. /\ pending # None /\ ~saving /\ Editor!ShowAuthority(record) /\ record' = record
        /\ pending' = None /\ selected' = pending /\ Editor!StartLoad(calls, pending, FALSE)
        /\ UNCHANGED <<stored, record, saving, made, strayed, droppedBy, overwrote>>
    BY <1>3 DEF Editor!DiscardAndContinue
  <2>2. /\ draft' \in Editor!Contents /\ retains' = FALSE /\ typed' = {} /\ late' = {}
              /\ warned' = FALSE /\ CleanIsUntyped'
    BY <1>0, <2>1, EditorShows
  <2>3. pending \in Animes /\ \A c \in calls : Holds(c) => saving'
    BY <1>0, <2>1 DEF EditorInv, OneHolds
  <2>4. /\ loading' = TRUE /\ sequence' \in Nat /\ calls' \subseteq EditorLoad \cup EditorCommand
        /\ \A c \in calls' : c \in calls \/ (c.kind = "load" /\ ~c.served)
        /\ OneHolds' /\ ReadsInOrder'
    BY <2>1, <2>2, <2>3, EditorStartsLoad DEF EditorInv
  <2>5. EditorTypes'
    BY <2>1, <2>2, <2>3, <2>4 DEF EditorInv, EditorTypes
  <2>6. HeldIsOfStore'
    BY <2>1, <2>4 DEF EditorInv, HeldIsOfStore, IsOf, Editor!Commands
  <2>7. SaveCarries' /\ EditorSafe'
    BY <2>1, <2>2, <2>4 DEF EditorInv, SaveCarries, EditorSafe, Editor!FormIsOfSelection,
      Editor!EditsSurvive
  <2> QED
    BY <2>2, <2>4, <2>5, <2>6, <2>7 DEF EditorInv
<1> QED
  BY <1>1, <1>2, <1>3

\* A command: nothing held the form, and it takes the draft as it is.
LEMMA EditorRun ==
  ASSUME EditorInv, NEW kind \in Editor!Commands, NEW next \in Animes \cup {None},
         Editor!Run(kind, next), UNCHANGED pending
  PROVE  EditorInv'
<1> DEFINE n == Editor!Command(kind, next)
<1>1. /\ ~saving /\ saving' = TRUE /\ late' = {} /\ made' = made + 1 /\ calls' = calls \cup {n}
      /\ UNCHANGED <<stored, selected, record, draft, retains, loading, sequence, pending, typed,
            warned, strayed, droppedBy, overwrote>>
  BY DEF Editor!Run
<1>2. n = [kind |-> kind, anime |-> record.anime, ticket |-> made + 1, base |-> record.version,
           values |-> draft, changes |-> {f \in Fields : kind = "save" /\ draft[f] # record.field[f]},
           blind |-> {f \in Fields : ~warned /\ record.field[f] # "theirs"},
           next |-> next, served |-> FALSE, over |-> FALSE, outcome |-> None, answer |-> None]
  BY DEF Editor!Command
<1> HIDE DEF n
<1>3. record \in Editor!Records /\ draft \in Editor!Contents /\ made \in Nat /\ made + 1 \in Nat
  BY DEF EditorInv, EditorTypes
<1>4. n \in EditorCommand
  BY <1>2, <1>3 DEF EditorCommand, Editor!Records
<1>5. /\ n.kind = kind /\ n.kind # "load" /\ n.kind \in Editor!Commands /\ ~n.served /\ ~n.over
            /\ n.anime = record.anime
      /\ n.base = record.version /\ n.values = draft
      /\ n.blind \subseteq {f \in Fields : record.field[f] # "theirs"}
      /\ kind = "save" => \A f \in Fields : f \in n.changes \/ draft[f] = record.field[f]
  BY <1>2 DEF Editor!Commands
<1>6. EditorTypes'
  BY <1>1, <1>3, <1>4 DEF EditorInv, EditorTypes
<1>7. HeldIsOfStore'
  <2>1. /\ n.base <= stored[n.anime].version
        /\ n.base = stored[n.anime].version => \A f \in n.blind : stored[n.anime].field[f] # "theirs"
    BY <1>5 DEF EditorInv, HeldIsOfStore, IsOf
  <2> QED
    BY <1>1, <1>5, <2>1 DEF EditorInv, HeldIsOfStore, IsOf
<1>8. OneHolds'
  BY <1>1, <1>5 DEF EditorInv, OneHolds, Holds
<1>9. ReadsInOrder' /\ CleanIsUntyped'
  BY <1>1, <1>5 DEF EditorInv, ReadsInOrder, CleanIsUntyped
<1>10. SaveCarries'
  <2>1. \A c \in calls : ~(c.kind = "save" /\ ~c.over)
    BY <1>1 DEF EditorInv, OneHolds, Holds
  <2>2. typed \subseteq Fields
    BY DEF EditorInv, EditorTypes
  <2> QED
    BY <1>1, <1>5, <2>1, <2>2 DEF SaveCarries
<1>11. EditorSafe'
  BY <1>1 DEF EditorInv, EditorSafe, Editor!FormIsOfSelection, Editor!EditsSurvive
<1> QED
  BY <1>6, <1>7, <1>8, <1>9, <1>10, <1>11 DEF EditorInv

LEMMA EditorCommands ==
  ASSUME EditorInv, Editor!Save \/ Editor!Deactivate \/ Editor!Repeat \/ Editor!SaveAndContinue
         PROVE EditorInv'
<1>1. pending \in Animes \cup {None}
  BY DEF EditorInv, EditorTypes
<1> QED
  BY <1>1, EditorRun DEF Editor!Save, Editor!Deactivate, Editor!Repeat, Editor!SaveAndContinue,
    Editor!Run, Editor!Commands

\* A version stored anew passes the one it replaces: what is held stays of the store.
LEMMA EditorStored ==
  ASSUME EditorInv, NEW a \in Animes, NEW new \in [version : 0..EditorVersion, field : Editor!Contents],
         stored' = [stored EXCEPT ![a] = new], new = stored[a] \/ stored[a].version < new.version,
             record' = record
  PROVE  /\ stored' \in [Animes -> [version : 0..EditorVersion, field : Editor!Contents]]
         /\ IsOf(record)'
         /\ \A r \in Editor!Records : IsOf(r) => IsOf(r)'
         /\ \A c \in calls : c.kind \in Editor!Commands =>
              /\ c.base <= stored'[c.anime].version
              /\ c.base = stored'[c.anime].version => \A f \in c.blind :
                    stored'[c.anime].field[f] # "theirs"
<1>1. stored \in [Animes -> [version : 0..EditorVersion, field : Editor!Contents]]
  BY DEF EditorInv, EditorTypes
<1>2. stored' \in [Animes -> [version : 0..EditorVersion, field : Editor!Contents]]
  BY <1>1
<1>3. \A b \in Animes : stored'[b] = IF b = a THEN new ELSE stored[b]
  BY <1>1
<1>4. \A b \in Animes : stored[b].version \in Nat /\ stored'[b].version \in Nat
  BY <1>1, <1>2
<1>5. ASSUME NEW r \in Editor!Records, IsOf(r) PROVE IsOf(r)'
  <2>1. r.anime \in Animes /\ r.version \in Nat
    BY DEF Editor!Records
  <2> QED
    BY <1>3, <1>4, <1>5, <2>1 DEF IsOf
<1>6. ASSUME NEW c \in calls, c.kind \in Editor!Commands
      PROVE  /\ c.base <= stored'[c.anime].version
             /\ c.base = stored'[c.anime].version => \A f \in c.blind :
                   stored'[c.anime].field[f] # "theirs"
  <2>1. c.anime \in Animes /\ c.base \in Nat
    BY <1>6 DEF EditorInv, EditorTypes, EditorLoad, EditorCommand, Editor!Commands
  <2>2. /\ c.base <= stored[c.anime].version
        /\ c.base = stored[c.anime].version => \A f \in c.blind : stored[c.anime].field[f] # "theirs"
    BY <1>6 DEF EditorInv, HeldIsOfStore
  <2> QED
    BY <1>3, <1>4, <2>1, <2>2
<1>7. IsOf(record)'
  <2>1. record \in Editor!Records /\ IsOf(record)
    BY DEF EditorInv, EditorTypes, HeldIsOfStore
  <2>2. PICK r \in Editor!Records : r = record
    BY <2>1
  <2> QED
    BY <1>5, <2>1, <2>2 DEF IsOf
<1> QED
  BY <1>2, <1>5, <1>6, <1>7

LEMMA EditorElsewhere ==
  ASSUME EditorAssumptions, EditorInv, NEW a \in Animes, NEW f \in Fields,
         Editor!ChangedElsewhere(a, f) PROVE EditorInv'
<1> DEFINE new == [stored[a] EXCEPT !.version = @ + 1, !.field[f] = "theirs"]
<1>1. /\ stored[a].version < EditorVersion /\ stored'
            = [stored EXCEPT ![a].version = @ + 1, ![a].field[f] = "theirs"]
      /\ UNCHANGED <<selected, record, draft, retains, saving, loading, sequence, pending, calls,
            made, typed, late, warned,
                     strayed, droppedBy, overwrote>>
  BY DEF Editor!ChangedElsewhere
<1>2. stored[a] \in [version : 0..EditorVersion, field : Editor!Contents]
          /\ stored[a].version \in 0..EditorVersion
  BY DEF EditorInv, EditorTypes
<1>3. new \in [version : 0..EditorVersion, field : Editor!Contents]
          /\ new.version = stored[a].version + 1
  <2>1. stored[a].version + 1 \in 0..EditorVersion
    BY <1>1, <1>2 DEF EditorAssumptions
  <2>2. [stored[a].field EXCEPT ![f] = "theirs"] \in Editor!Contents
    BY <1>2 DEF Editor!Contents, Editor!Values
  <2> QED
    BY <1>2, <2>1, <2>2
<1>4. stored' = [stored EXCEPT ![a] = new]
  BY <1>1
<1> HIDE DEF new
<1>5. /\ stored' \in [Animes -> [version : 0..EditorVersion, field : Editor!Contents]]
      /\ IsOf(record)'
      /\ \A r \in Editor!Records : IsOf(r) => IsOf(r)'
      /\ \A c \in calls : c.kind \in Editor!Commands =>
           /\ c.base <= stored'[c.anime].version
           /\ c.base = stored'[c.anime].version => \A g \in c.blind :
                 stored'[c.anime].field[g] # "theirs"
  <2>1. stored[a].version < new.version
    BY <1>2, <1>3
  <2> QED
    BY <1>1, <1>3, <1>4, <2>1, EditorStored
<1>6. EditorTypes'
  BY <1>1, <1>5 DEF EditorInv, EditorTypes
<1>7. HeldIsOfStore'
  <2>1. \A c \in calls' : c.served => c.answer \in Editor!Records /\ c.answer.anime = c.anime
            /\ IsOf(c.answer)'
    BY <1>1, <1>5 DEF EditorInv, HeldIsOfStore
  <2> QED
    BY <1>1, <1>5, <2>1 DEF EditorInv, HeldIsOfStore
<1>8. OneHolds' /\ ReadsInOrder' /\ CleanIsUntyped' /\ SaveCarries'
  BY <1>1 DEF EditorInv, OneHolds, ReadsInOrder, CleanIsUntyped, SaveCarries
<1>9. EditorSafe'
  BY <1>1 DEF EditorInv, EditorSafe, Editor!FormIsOfSelection, Editor!EditsSurvive
<1> QED
  BY <1>6, <1>7, <1>8, <1>9 DEF EditorInv

\* A call that is served, its answer a record of the store; D is what is left of it.
LEMMA EditorServed ==
  ASSUME EditorInv, NEW c \in calls, NEW d \in EditorLoad \cup EditorCommand, NEW D \in SUBSET {d},
         d.kind = c.kind, d.anime = c.anime, d.served, d.answer \in Editor!Records,
             d.answer.anime = c.anime, IsOf(d.answer)',
         c.kind = "load" => d.sequence = c.sequence /\ d.releases = c.releases,
         c.kind \in Editor!Commands => /\ d.base = c.base /\ d.values = c.values
                                          /\ d.changes = c.changes /\ d.blind = c.blind
                                       /\ d.over = c.over,
         c.kind = "save" /\ d.outcome = "applied" => \A f \in c.changes :
             d.answer.field[f] = c.values[f],
         calls' = (calls \ {c}) \cup D, overwrote' = FALSE, c.kind = "load" \/ ~c.over \/ D = {},
         NEW a \in Animes, NEW new \in [version : 0..EditorVersion, field : Editor!Contents],
         stored' = [stored EXCEPT ![a] = new], new = stored[a] \/ stored[a].version < new.version,
         UNCHANGED <<selected, record, draft, retains, saving, loading, sequence, pending, made,
             typed, late, warned, strayed,
                     droppedBy>>
  PROVE  EditorInv'
<1>1. c.kind = "load" \/ c.kind \in Editor!Commands
  BY DEF EditorInv, EditorTypes, EditorLoad, EditorCommand
<1>2. /\ stored' \in [Animes -> [version : 0..EditorVersion, field : Editor!Contents]]
      /\ IsOf(record)'
      /\ \A r \in Editor!Records : IsOf(r) => IsOf(r)'
      /\ \A x \in calls : x.kind \in Editor!Commands =>
           /\ x.base <= stored'[x.anime].version
           /\ x.base = stored'[x.anime].version => \A g \in x.blind :
                 stored'[x.anime].field[g] # "theirs"
  BY EditorStored
<1>3. EditorTypes'
  BY <1>2 DEF EditorInv, EditorTypes
<1>4. HeldIsOfStore'
  <2>1. \A x \in calls' : x.served => x.answer \in Editor!Records /\ x.answer.anime = x.anime
            /\ IsOf(x.answer)'
    BY <1>2 DEF EditorInv, HeldIsOfStore
  <2>2. \A x \in calls' : x.kind \in Editor!Commands =>
           /\ x.base <= stored'[x.anime].version
           /\ x.base = stored'[x.anime].version => \A g \in x.blind :
                 stored'[x.anime].field[g] # "theirs"
    BY <1>2
  <2> QED
    BY <1>2, <2>1, <2>2 DEF HeldIsOfStore
<1>5. Holds(d) <=> Holds(c)
  BY <1>1 DEF Holds, Editor!Commands
<1>6. OneHolds'
  BY <1>1, <1>5 DEF EditorInv, OneHolds, Editor!Commands
<1>7. ReadsInOrder'
  BY DEF EditorInv, ReadsInOrder
<1>8. CleanIsUntyped' /\ EditorSafe'
  BY DEF EditorInv, CleanIsUntyped, EditorSafe, Editor!FormIsOfSelection, Editor!EditsSurvive
<1>9. SaveCarries'
  BY <1>1 DEF EditorInv, SaveCarries, Editor!Commands
<1> QED
  BY <1>3, <1>4, <1>6, <1>7, <1>8, <1>9 DEF EditorInv

LEMMA EditorRecordOf ==
  ASSUME EditorTypes, NEW a \in Animes
  PROVE  Editor!RecordOf(a) \in Editor!Records /\ Editor!RecordOf(a).anime = a
         /\ IsOf(Editor!RecordOf(a))
         /\ stored[a] \in [version : 0..EditorVersion, field : Editor!Contents]
         /\ stored = [stored EXCEPT ![a] = stored[a]]
BY DEF EditorTypes, Editor!RecordOf, Editor!Records, IsOf

LEMMA EditorServes ==
  ASSUME EditorInv, NEW c \in calls, Editor!ServeLoad(c) \/ Editor!Refuse(c) PROVE EditorInv'
<1>1. c.anime \in Animes /\ c \in EditorLoad \cup EditorCommand
  BY DEF EditorInv, EditorTypes, EditorLoad, EditorCommand
<1>2. /\ Editor!RecordOf(c.anime) \in Editor!Records /\ Editor!RecordOf(c.anime).anime = c.anime
            /\ IsOf(Editor!RecordOf(c.anime))
      /\ stored[c.anime] \in [version : 0..EditorVersion, field : Editor!Contents]
      /\ stored = [stored EXCEPT ![c.anime] = stored[c.anime]]
  BY <1>1, EditorRecordOf DEF EditorInv
<1>3. PICK r \in Editor!Records : r = Editor!RecordOf(c.anime)
  BY <1>2
<1>4. PICK new \in [version : 0..EditorVersion, field : Editor!Contents] : new = stored[c.anime]
  BY <1>2
<1>5. /\ UNCHANGED <<stored, selected, record, draft, retains, saving, loading, sequence, pending,
            made, typed, late, warned, strayed,
                     droppedBy, overwrote>>
      /\ overwrote' = FALSE
  BY DEF Editor!ServeLoad, Editor!Refuse, EditorInv, HeldIsOfStore
<1>6. stored' = [stored EXCEPT ![c.anime] = new]
  BY <1>2, <1>4, <1>5
<1>7. r.anime = c.anime /\ IsOf(r)'
  BY <1>2, <1>3, <1>5 DEF IsOf
<1>8. CASE Editor!ServeLoad(c)
  <2>1. c.kind = "load" /\ c \in EditorLoad /\ c.kind \notin Editor!Commands /\ c.kind # "save"
    BY <1>1, <1>8 DEF Editor!ServeLoad, EditorCommand, Editor!Commands
  <2>2. PICK d : d = [c EXCEPT !.served = TRUE, !.answer = r]
    OBVIOUS
  <2>3. calls' = (calls \ {c}) \cup {d}
    BY <1>3, <1>8, <2>2 DEF Editor!ServeLoad
  <2>4. /\ d \in EditorLoad \cup EditorCommand /\ d.kind = c.kind /\ d.anime = c.anime /\ d.served
              /\ d.answer = r
        /\ d.sequence = c.sequence /\ d.releases = c.releases
    BY <2>1, <2>2 DEF EditorLoad
  <2>5. PICK D \in SUBSET {d} : D = {d}
    OBVIOUS
  <2> QED
    BY <1>1, <1>4, <1>5, <1>6, <1>7, <2>1, <2>3, <2>4, <2>5, EditorServed
<1>9. CASE Editor!Refuse(c)
  <2>1. c.kind \in Editor!Commands /\ c \in EditorCommand /\ c.kind # "load"
    BY <1>1, <1>9 DEF Editor!Refuse, EditorLoad, Editor!Commands
  <2>2. PICK d : d = [c EXCEPT !.served = TRUE, !.outcome = "conflict", !.answer = r]
    OBVIOUS
  <2>3. calls' = (calls \ {c}) \cup (IF c.over THEN {} ELSE {d})
    BY <1>3, <1>9, <2>2 DEF Editor!Refuse, Editor!Answered
  <2>4. /\ d \in EditorLoad \cup EditorCommand /\ d.kind = c.kind /\ d.anime = c.anime /\ d.served
              /\ d.answer = r
        /\ d.outcome = "conflict" /\ d.base = c.base /\ d.values = c.values
              /\ d.changes = c.changes /\ d.blind = c.blind
        /\ d.over = c.over
    BY <2>1, <2>2 DEF EditorCommand
  <2>5. PICK D \in SUBSET {d} : calls' = (calls \ {c}) \cup D /\ (~c.over \/ D = {})
    BY <2>3
  <2> QED
    BY <1>1, <1>4, <1>5, <1>6, <1>7, <2>1, <2>4, <2>5, EditorServed
<1> QED
  BY <1>8, <1>9

\* A command carried out: what it was based on is what was stored.
LEMMA EditorApply ==
  ASSUME EditorAssumptions, EditorInv, NEW c \in calls, Editor!Apply(c) PROVE EditorInv'
<1>1. PICK old : old = stored[c.anime]
  OBVIOUS
<1>2. PICK field : field = [f \in Fields |-> IF f \in c.changes THEN c.values[f] ELSE old.field[f]]
  OBVIOUS
<1>3. PICK new : new = IF c.kind = "save" /\ c.changes = {} THEN old
          ELSE [version |-> old.version + 1, field |-> field]
  OBVIOUS
<1>4. PICK r : r = [anime |-> c.anime, version |-> new.version, field |-> new.field]
  OBVIOUS
<1>5. PICK d : d = [c EXCEPT !.served = TRUE, !.outcome = "applied", !.answer = r]
  OBVIOUS
<1>6. /\ c.kind \in Editor!Commands /\ c.base = old.version
      /\ new.version <= EditorVersion
      /\ stored' = [stored EXCEPT ![c.anime] = new]
      /\ calls' = (calls \ {c}) \cup (IF c.over THEN {} ELSE {d})
      /\ overwrote' = (overwrote \/ \E f \in c.changes \cap c.blind : old.field[f] = "theirs")
      /\ UNCHANGED <<selected, record, draft, retains, saving, loading, sequence, pending, made,
            typed, late, warned, strayed,
                     droppedBy>>
  BY <1>1, <1>2, <1>3, <1>4, <1>5 DEF Editor!Apply, Editor!Answered
<1>7. c \in EditorCommand /\ c.anime \in Animes /\ c.kind # "load"
  BY <1>6 DEF EditorInv, EditorTypes, EditorLoad, EditorCommand, Editor!Commands
<1>8. /\ old \in [version : 0..EditorVersion, field : Editor!Contents]
            /\ old.version \in 0..EditorVersion
      /\ old.field \in Editor!Contents
  BY <1>1, <1>7 DEF EditorInv, EditorTypes
<1>9. field \in Editor!Contents /\ \A f \in c.changes : field[f] = c.values[f]
  BY <1>2, <1>7, <1>8 DEF EditorCommand, Editor!Contents
<1>10. /\ new \in [version : 0..EditorVersion, field : Editor!Contents]
       /\ new = old \/ old.version < new.version
       /\ c.kind = "save" => \A f \in c.changes : new.field[f] = c.values[f]
  <2>1. CASE c.kind = "save" /\ c.changes = {}
    BY <1>3, <1>8, <2>1
  <2>2. CASE ~(c.kind = "save" /\ c.changes = {})
    <3>1. new = [version |-> old.version + 1, field |-> field] /\ new.version = old.version + 1
              /\ new.field = field
      BY <1>3, <2>2
    <3>2. old.version + 1 \in 0..EditorVersion /\ old.version < old.version + 1
      BY <1>6, <1>8, <3>1 DEF EditorAssumptions
    <3> QED
      BY <1>9, <3>1, <3>2
  <2> QED
    BY <2>1, <2>2
<1>11. r \in Editor!Records /\ r.anime = c.anime /\ r.version = new.version /\ r.field = new.field
  BY <1>4, <1>7, <1>10 DEF Editor!Records
<1>12. stored'[c.anime] = new
  BY <1>6, <1>7 DEF EditorInv, EditorTypes
<1>13. IsOf(r)'
  <2>1. new.version \in Nat
    BY <1>10
  <2> QED
    BY <1>11, <1>12, <2>1 DEF IsOf
<1>14. overwrote' = FALSE
  BY <1>1, <1>6 DEF EditorInv, HeldIsOfStore
<1>15. /\ d \in EditorLoad \cup EditorCommand /\ d.kind = c.kind /\ d.anime = c.anime /\ d.served
             /\ d.answer = r
       /\ d.outcome = "applied" /\ d.base = c.base /\ d.values = c.values /\ d.changes = c.changes
             /\ d.blind = c.blind
       /\ d.over = c.over
  BY <1>5, <1>7, <1>11 DEF EditorCommand
<1>16. PICK D \in SUBSET {d} : calls' = (calls \ {c}) \cup D /\ (~c.over \/ D = {})
  BY <1>6
<1>17. new = stored[c.anime] \/ stored[c.anime].version < new.version
  BY <1>1, <1>10
<1>18. /\ c.kind = "load" => d.sequence = c.sequence /\ d.releases = c.releases
       /\ c.kind = "save" /\ d.outcome = "applied" => \A f \in c.changes :
             d.answer.field[f] = c.values[f]
  BY <1>7, <1>10, <1>11, <1>15
<1>19. UNCHANGED <<selected, record, draft, retains, saving, loading, sequence, pending, made,
           typed, late, warned, strayed,
                   droppedBy>>
  BY <1>6
<1>20. stored' = [stored EXCEPT ![c.anime] = new]
           /\ new \in [version : 0..EditorVersion, field : Editor!Contents]
  BY <1>6, <1>10
<1> QED
  BY <1>7, <1>11, <1>13, <1>14, <1>15, <1>16, <1>17, <1>18, <1>19, <1>20, EditorServed

\* What is left on the form's account when the record r comes onto it: by a save's
\* own answer only what was typed late.
LEMMA EditorDrops ==
  ASSUME EditorInv, NEW r \in Editor!Records, NEW lateOnly \in BOOLEAN, NEW why,
         Editor!Drop(r, lateOnly, why),
         \/ typed = {}
         \/ why = "lifecycle" /\ ~lateOnly
         \/ \A f \in typed \ late : draft[f] \in {record.field[f], r.field[f]}
  PROVE  Editor!EditsSurvive'
<1> DEFINE gone == {f \in typed : draft[f] \notin {record.field[f], r.field[f]}}
<1>1. droppedBy' = droppedBy \cup (IF gone = {} THEN {} ELSE IF gone \subseteq late THEN {"typed late"}
                                   ELSE IF lateOnly THEN {"save"} ELSE {why})
  BY DEF Editor!Drop
<1>2. gone \subseteq late \/ (why = "lifecycle" /\ ~lateOnly)
  OBVIOUS
<1> HIDE DEF gone
<1> QED
  BY <1>1, <1>2 DEF EditorInv, EditorSafe, Editor!EditsSurvive

\* A call answered with a record: what it says is of the store.
LEMMA EditorAnswer ==
  ASSUME EditorInv, NEW c \in calls, c.served
  PROVE  /\ c.answer \in Editor!Records /\ c.answer.anime = c.anime /\ IsOf(c.answer)
         /\ c.anime \in Animes
         /\ c.kind = "load" => c.releases \in BOOLEAN
         /\ c.kind \in Editor!Commands => c.next \in Animes \cup {None}
BY DEF EditorInv, HeldIsOfStore, EditorTypes, EditorLoad, EditorCommand, Editor!Commands

\* The newest read is shown, an older one is not.
LEMMA EditorLoadArrives ==
  ASSUME EditorAssumptions, EditorInv, NEW c \in calls, NEW ok \in BOOLEAN,
         Editor!LoadArrives(c, ok) PROVE EditorInv'
<1>1. /\ c.kind = "load" /\ c.served /\ calls' = calls \ {c} /\ saving' = (saving /\ ~c.releases)
      /\ UNCHANGED <<stored, selected, sequence, pending, made, overwrote>>
  BY DEF Editor!LoadArrives
<1>2. PICK r \in Editor!Records : r = c.answer
  BY <1>1, EditorAnswer
<1>3. r.anime = c.anime /\ IsOf(r) /\ IsOf(r)' /\ c.anime \in Animes /\ c.releases \in BOOLEAN
  BY <1>1, <1>2, EditorAnswer DEF IsOf
<1>4. saving' \in BOOLEAN
  BY <1>1
<1>5. OneHolds'
  BY <1>1, <1>3 DEF EditorInv, OneHolds, Holds
<1>6. ASSUME record' \in Editor!Records, IsOf(record)' PROVE HeldIsOfStore'
  BY <1>1, <1>6 DEF EditorInv, HeldIsOfStore, IsOf
<1>7. CASE c.sequence # sequence
  <2>1. UNCHANGED <<loading, record, draft, retains, typed, late, warned, droppedBy, strayed>>
    BY <1>7 DEF Editor!LoadArrives
  <2>2. EditorTypes'
    BY <1>1, <1>4, <2>1 DEF EditorInv, EditorTypes
  <2>3. HeldIsOfStore'
    BY <1>1, <2>1 DEF EditorInv, HeldIsOfStore, IsOf
  <2>4. ReadsInOrder' /\ CleanIsUntyped' /\ SaveCarries'
    BY <1>1, <2>1 DEF EditorInv, ReadsInOrder, CleanIsUntyped, SaveCarries
  <2>5. EditorSafe'
    BY <1>1, <2>1 DEF EditorInv, EditorSafe, Editor!FormIsOfSelection, Editor!EditsSurvive
  <2> QED
    BY <1>5, <2>2, <2>3, <2>4, <2>5 DEF EditorInv
<1>8. CASE c.sequence = sequence /\ ~ok
  <2>1. /\ loading' = FALSE /\ UNCHANGED <<record, draft, retains, typed, late, warned, droppedBy>>
        /\ strayed' = (strayed \/ c.anime # selected \/ ~ok)
    BY <1>8 DEF Editor!LoadArrives
  <2>2. strayed' = TRUE
    BY <1>8, <2>1
  <2>3. EditorTypes'
    BY <1>1, <1>4, <2>1, <2>2 DEF EditorInv, EditorTypes
  <2>4. HeldIsOfStore'
    BY <1>1, <2>1 DEF EditorInv, HeldIsOfStore, IsOf
  <2>5. ReadsInOrder'
    BY <1>1, <1>8, <2>1 DEF EditorInv, ReadsInOrder
  <2>6. CleanIsUntyped' /\ SaveCarries'
    BY <1>1, <2>1 DEF EditorInv, CleanIsUntyped, SaveCarries
  <2>7. EditorSafe'
    BY <2>1, <2>2 DEF EditorInv, EditorSafe, Editor!FormIsOfSelection, Editor!EditsSurvive
  <2> QED
    BY <1>5, <2>3, <2>4, <2>5, <2>6, <2>7 DEF EditorInv
<1>9. CASE c.sequence = sequence /\ ok
  <2>1. /\ loading' = FALSE /\ record' = r /\ Editor!ShowAuthority(r)
        /\ Editor!Drop(r, FALSE, IF c.releases THEN "lifecycle" ELSE "load")
        /\ strayed' = (strayed \/ c.anime # selected \/ ~ok)
    BY <1>2, <1>9 DEF Editor!LoadArrives
  <2>2. strayed' \in BOOLEAN /\ (strayed' \/ c.anime = selected)
    BY <2>1
  <2>3. /\ draft' \in Editor!Contents /\ retains' = FALSE /\ typed' = {} /\ late' = {}
              /\ warned' = FALSE /\ CleanIsUntyped'
    BY <2>1, EditorShows
  <2>4. EditorTypes'
    BY <1>1, <1>4, <2>1, <2>2, <2>3 DEF EditorInv, EditorTypes
  <2>5. HeldIsOfStore'
    BY <1>3, <1>6, <2>1 DEF IsOf
  <2>6. ReadsInOrder'
    BY <1>1, <1>9, <2>1, <2>3 DEF EditorInv, ReadsInOrder
  <2>7. SaveCarries'
    BY <1>1, <2>3 DEF EditorInv, SaveCarries
  <2>8. Editor!EditsSurvive'
    <3>1. c.releases \/ typed = {}
      BY <1>1, <1>9 DEF EditorInv, ReadsInOrder
    <3>2. PICK why : why = IF c.releases THEN "lifecycle" ELSE "load"
      OBVIOUS
    <3>3. typed = {} \/ why = "lifecycle"
      BY <3>1, <3>2
    <3> QED
      BY <2>1, <3>2, <3>3, EditorDrops
  <2>9. Editor!FormIsOfSelection'
    BY <1>1, <1>3, <2>1, <2>2 DEF Editor!FormIsOfSelection
  <2> QED
    BY <1>5, <2>3, <2>4, <2>5, <2>6, <2>7, <2>8, <2>9 DEF EditorInv, EditorSafe
<1> QED
  BY <1>7, <1>8, <1>9

\* A command that ends without its change: the draft stays, over the authority an
\* answer carries.
LEMMA EditorRejected ==
  ASSUME EditorAssumptions, EditorInv, NEW c \in calls, c.kind \in Editor!Commands, ~c.over,
         NEW D, calls' = (calls \ {c}) \cup D,
         \A d \in D : d \in EditorCommand /\ ~d.served /\ d.over /\ d.anime = c.anime
             /\ d.base = c.base /\ d.blind = c.blind,
         saving' = FALSE, record' \in Editor!Records, IsOf(record)', strayed' \in BOOLEAN,
             warned' \in BOOLEAN,
         \/ UNCHANGED <<record, retains, strayed>>
         \/ retains' = TRUE /\ UNCHANGED <<record, strayed>>
         \/ retains' = TRUE /\ (strayed' \/ record'.anime = selected),
         UNCHANGED <<stored, selected, draft, loading, sequence, pending, made, typed, late,
             droppedBy, overwrote>>
  PROVE  EditorInv'
<1>1. \A d \in D : d.kind \in Editor!Commands /\ d.kind # "load"
  BY DEF EditorCommand, Editor!Commands
<1>2. \A x \in calls : Holds(x) => x = c
  BY DEF EditorInv, OneHolds, Holds, Editor!Commands
<1>3. \A x \in calls' : ~Holds(x)
  BY <1>1, <1>2 DEF Holds
<1>4. EditorTypes'
  <2>1. retains' \in BOOLEAN
    BY DEF EditorInv, EditorTypes
  <2> QED
    BY <2>1 DEF EditorInv, EditorTypes
<1>5. HeldIsOfStore'
  <2>1. \A x \in calls' : x.served => x.answer \in Editor!Records /\ x.answer.anime = x.anime
            /\ IsOf(x.answer)'
    BY DEF EditorInv, HeldIsOfStore, IsOf
  <2>2. \A x \in calls' : x.kind \in Editor!Commands =>
          /\ x.base <= stored[x.anime].version
          /\ x.base = stored[x.anime].version => \A f \in x.blind : stored[x.anime].field[f] # "theirs"
    BY DEF EditorInv, HeldIsOfStore
  <2> QED
    BY <2>1, <2>2 DEF EditorInv, HeldIsOfStore
<1>6. OneHolds'
  BY <1>3 DEF EditorInv, OneHolds
<1>7. ReadsInOrder'
  BY <1>1 DEF EditorInv, ReadsInOrder
<1>8. CleanIsUntyped'
  BY DEF EditorInv, CleanIsUntyped
<1>9. SaveCarries'
  BY <1>3 DEF SaveCarries, Holds
<1>10. EditorSafe'
  BY DEF EditorInv, EditorSafe, Editor!FormIsOfSelection, Editor!EditsSurvive
<1> QED
  BY <1>4, <1>5, <1>6, <1>7, <1>8, <1>9, <1>10 DEF EditorInv

LEMMA EditorConflicted ==
  ASSUME EditorAssumptions, EditorInv, NEW c \in calls, Editor!Conflicted(c) PROVE EditorInv'
<1>1. /\ c.kind \in Editor!Commands /\ c.kind # "load" /\ c.served /\ calls' = calls \ {c}
            /\ Editor!Rejected(c)
  BY DEF Editor!Conflicted, Editor!Commands
<1>2. ~c.over
  BY <1>1 DEF EditorInv, OneHolds
<1>3. c.answer \in Editor!Records /\ c.answer.anime = c.anime /\ IsOf(c.answer) /\ c.answer # None
  BY <1>1, EditorAnswer DEF EditorAssumptions
<1>4. /\ retains' = TRUE /\ saving' = FALSE /\ record' = c.answer /\ warned' = TRUE
      /\ strayed' = (strayed \/ c.anime # selected)
      /\ UNCHANGED <<stored, selected, draft, loading, sequence, pending, made, typed, late,
            droppedBy, overwrote>>
  BY <1>1, <1>3 DEF Editor!Rejected
<1>5. strayed' \in BOOLEAN /\ (strayed' \/ record'.anime = selected) /\ IsOf(record)'
  BY <1>3, <1>4 DEF IsOf
<1>9. PICK D : D = {}
  OBVIOUS
<1>6. D = {} /\ calls' = (calls \ {c}) \cup D
  BY <1>1, <1>9
<1>7. UNCHANGED <<stored, selected, draft, loading, sequence, pending, made, typed, late, droppedBy,
          overwrote>> /\ warned' \in BOOLEAN
  BY <1>4
<1>8. record' \in Editor!Records /\ \A d \in D : FALSE
  BY <1>3, <1>4, <1>6
<1> QED
  BY <1>1, <1>2, <1>4, <1>5, <1>6, <1>7, <1>8, EditorRejected

LEMMA EditorTimesOut ==
  ASSUME EditorAssumptions, EditorInv, NEW c \in calls, Editor!TimesOut(c) PROVE EditorInv'
<1>1. PICK d : d = [c EXCEPT !.over = TRUE]
  OBVIOUS
<1>2. PICK e : e = [c EXCEPT !.answer = None]
  OBVIOUS
<1>3. PICK D : D = IF c.served THEN {} ELSE {d}
  OBVIOUS
<1>4. /\ c.kind \in Editor!Commands /\ ~c.over /\ calls' = (calls \ {c}) \cup D
      /\ IF c.kind = "repeat"
         THEN saving' = FALSE /\ UNCHANGED <<stored, selected, record, draft, retains, loading,
             sequence, pending, made,
                                            typed, late, warned, strayed, droppedBy, overwrote>>
         ELSE Editor!Rejected(e)
  BY <1>1, <1>2, <1>3 DEF Editor!TimesOut
<1>5. c \in EditorCommand
  BY <1>4 DEF EditorInv, EditorTypes, EditorLoad, Editor!Commands
<1>6. e.answer = None
  BY <1>2, <1>5 DEF EditorCommand
<1>7. \A x \in D : x \in EditorCommand /\ ~x.served /\ x.over /\ x.anime = c.anime
          /\ x.base = c.base /\ x.blind = c.blind
  BY <1>1, <1>3, <1>5 DEF EditorCommand
<1>8. /\ saving' = FALSE /\ (UNCHANGED retains \/ retains' = TRUE)
      /\ UNCHANGED <<stored, selected, record, draft, loading, sequence, pending, made, typed, late,
            warned, strayed,
                     droppedBy, overwrote>>
  BY <1>4, <1>6 DEF Editor!Rejected
<1>9. record' \in Editor!Records /\ IsOf(record)' /\ strayed' \in BOOLEAN /\ warned' \in BOOLEAN
  BY <1>8 DEF EditorInv, EditorTypes, HeldIsOfStore, IsOf
<1> QED
  BY <1>4, <1>7, <1>8, <1>9, EditorRejected

\* A command carried out for the form: what leaves it was typed late, or a lifecycle
\* command was pressed over it.
LEMMA EditorApplied ==
  ASSUME EditorAssumptions, EditorInv, NEW c \in calls, Editor!Applied(c) PROVE EditorInv'
<1>1. /\ c.kind \in {"save", "deactivate"} /\ c.kind \in Editor!Commands /\ c.kind # "load"
            /\ c.served /\ c.outcome = "applied"
      /\ saving' = FALSE /\ strayed' = (strayed \/ c.anime # selected)
      /\ UNCHANGED <<stored, made, overwrote>>
  BY DEF Editor!Applied, Editor!Commands
<1>2. PICK r \in Editor!Records : r = c.answer
  BY <1>1, EditorAnswer
<1>3. r.anime = c.anime /\ IsOf(r) /\ IsOf(r)' /\ c.next \in Animes \cup {None}
  BY <1>1, <1>2, EditorAnswer DEF IsOf
<1>4. record' = r /\ Editor!ShowAuthority(r) /\ Editor!Drop(r, c.kind = "save", "lifecycle")
  BY <1>2 DEF Editor!Applied
<1>5. ~c.over /\ \A x \in calls : Holds(x) => x = c
  BY <1>1 DEF EditorInv, OneHolds, Holds
<1>6. \A x \in calls \ {c} : ~Holds(x)
  BY <1>5
<1>7. /\ draft' \in Editor!Contents /\ retains' = FALSE /\ typed' = {} /\ late' = {}
            /\ warned' = FALSE /\ CleanIsUntyped'
  BY <1>4, EditorShows
<1>8. strayed' \in BOOLEAN /\ (strayed' \/ c.anime = selected)
  BY <1>1
<1>9. Editor!EditsSurvive'
  <2>1. CASE c.kind = "save"
    <3>1. \A f \in typed \ late : draft[f] \in {record.field[f], r.field[f]}
      BY <1>1, <1>2, <1>5, <2>1 DEF EditorInv, SaveCarries
    <3> QED
      BY <1>4, <2>1, <3>1, EditorDrops
  <2>2. CASE c.kind # "save"
    <3>1. PICK lateOnly \in BOOLEAN : lateOnly = (c.kind = "save")
      OBVIOUS
    <3> QED
      BY <1>4, <2>2, <3>1, EditorDrops
  <2> QED
    BY <2>1, <2>2
<1>10. /\ calls' \subseteq EditorLoad \cup EditorCommand
       /\ \A x \in calls' : x \in calls \ {c} \/ (x.kind = "load" /\ ~x.served)
       /\ OneHolds' /\ ReadsInOrder'
       /\ selected' \in Animes /\ pending' \in Animes \cup {None} /\ loading' \in BOOLEAN
             /\ sequence' \in Nat
       /\ loading' \/ UNCHANGED selected
  <2>1. CASE c.next = None
    <3>1. calls' = calls \ {c} /\ UNCHANGED <<selected, loading, sequence, pending>>
      BY <2>1 DEF Editor!Applied
    <3>2. OneHolds' /\ ReadsInOrder'
      BY <1>6, <1>7, <3>1 DEF EditorInv, OneHolds, Holds, ReadsInOrder
    <3> QED
      BY <3>1, <3>2 DEF EditorInv, EditorTypes
  <2>2. CASE c.next # None
    <3>1. pending' = None /\ selected' = c.next /\ Editor!StartLoad(calls \ {c}, c.next, FALSE)
              /\ c.next \in Animes
      BY <1>3, <2>2 DEF Editor!Applied
    <3>2. PICK S \in SUBSET calls : S = calls \ {c}
      OBVIOUS
    <3>3. /\ loading' = TRUE /\ sequence' \in Nat /\ calls' \subseteq EditorLoad \cup EditorCommand
          /\ \A x \in calls' : x \in S \/ (x.kind = "load" /\ ~x.served)
          /\ OneHolds' /\ ReadsInOrder'
      BY <1>6, <1>7, <3>1, <3>2, EditorStartsLoad DEF EditorInv
    <3> QED
      BY <3>1, <3>2, <3>3
  <2> QED
    BY <2>1, <2>2
<1>11. EditorTypes'
  BY <1>1, <1>4, <1>7, <1>8, <1>10 DEF EditorInv, EditorTypes
<1>12. HeldIsOfStore'
  BY <1>1, <1>3, <1>4, <1>10 DEF EditorInv, HeldIsOfStore, IsOf, Editor!Commands
<1>13. SaveCarries'
  BY <1>6, <1>10 DEF SaveCarries, Holds
<1>14. Editor!FormIsOfSelection'
  BY <1>3, <1>4, <1>8, <1>10 DEF Editor!FormIsOfSelection
<1> QED
  BY <1>7, <1>9, <1>10, <1>11, <1>12, <1>13, <1>14 DEF EditorInv, EditorSafe

\* A repeat carried out hands the form to the read it waits for.
LEMMA EditorRepeated ==
  ASSUME EditorAssumptions, EditorInv, NEW c \in calls, Editor!Repeated(c) PROVE EditorInv'
<1>1. /\ c.kind = "repeat" /\ c.kind \in Editor!Commands /\ c.kind # "load" /\ c.served
      /\ UNCHANGED <<stored, selected, record, draft, retains, pending, made, typed, late, warned,
            strayed, droppedBy, overwrote>>
  BY DEF Editor!Repeated, Editor!Commands
<1>2. ~c.over /\ saving /\ (\A x \in calls \ {c} : ~Holds(x)) /\ c.anime \in Animes
  <2>1. c.anime \in Animes /\ ~c.over
    BY <1>1, EditorAnswer DEF EditorInv, OneHolds
  <2> QED
    BY <1>1, <2>1 DEF EditorInv, OneHolds, Holds
<1>3. CASE c.outcome = "applied"
  <2>1. PICK S \in SUBSET calls : S = calls \ {c}
    OBVIOUS
  <2>2. Editor!StartLoad(S, c.anime, TRUE) /\ saving' = saving
    BY <1>3, <2>1 DEF Editor!Repeated
  <2>3. /\ loading' = TRUE /\ sequence' \in Nat /\ calls' \subseteq EditorLoad \cup EditorCommand
        /\ \A x \in calls' : x \in S \/ (x.kind = "load" /\ ~x.served)
        /\ OneHolds' /\ ReadsInOrder'
    BY <1>2, <2>1, <2>2, EditorStartsLoad DEF EditorInv
  <2>4. EditorTypes'
    BY <1>1, <2>2, <2>3 DEF EditorInv, EditorTypes
  <2>5. HeldIsOfStore' /\ CleanIsUntyped'
    BY <1>1, <2>1, <2>3 DEF EditorInv, HeldIsOfStore, IsOf, CleanIsUntyped, Editor!Commands
  <2>6. SaveCarries' /\ EditorSafe'
    BY <1>1, <2>1, <2>3 DEF EditorInv, SaveCarries, EditorSafe, Editor!FormIsOfSelection,
      Editor!EditsSurvive
  <2> QED
    BY <2>3, <2>4, <2>5, <2>6 DEF EditorInv
<1>4. CASE c.outcome # "applied"
  <2>1. calls' = calls \ {c} /\ saving' = FALSE /\ UNCHANGED <<loading, sequence>>
    BY <1>4 DEF Editor!Repeated
  <2>5. PICK D : D = {}
    OBVIOUS
  <2>3. D = {} /\ calls' = (calls \ {c}) \cup D
    BY <2>1, <2>5
  <2>4. (\A d \in D : FALSE) /\ UNCHANGED <<record, retains, strayed>>
    BY <1>1, <2>3
  <2>2. record' \in Editor!Records /\ IsOf(record)' /\ strayed' \in BOOLEAN /\ warned' \in BOOLEAN
    BY <1>1 DEF EditorInv, EditorTypes, HeldIsOfStore, IsOf
  <2> QED
    BY <1>1, <1>2, <2>1, <2>2, <2>3, <2>4, EditorRejected
<1> QED
  BY <1>3, <1>4

LEMMA EditorStepKeepsInv ==
  ASSUME EditorAssumptions, EditorInv, [Editor!Next]_(Editor!vars) PROVE EditorInv'
<1>1. CASE Editor!Next
  BY <1>1, EditorSelect, EditorType, EditorDiscard, EditorCommands, EditorElsewhere, EditorServes,
    EditorApply, EditorApplied,
     EditorConflicted, EditorRepeated, EditorTimesOut, EditorLoadArrives DEF Editor!Next
<1>2. CASE UNCHANGED Editor!vars
  <2>1. made' \in Nat /\ pending' \in Animes \cup {None}
    BY <1>2 DEF Editor!vars, EditorInv, EditorTypes
  <2> QED
    BY <1>2, <2>1, EditorSame DEF Editor!vars
<1> QED
  BY <1>1, <1>2

LEMMA EditorPromises ==
  ASSUME EditorInv
  PROVE  Editor!TypeOK /\ Editor!FormIsOfSelection /\ Editor!EditsSurvive /\ Editor!OthersSurvive
<1>1. Editor!FormIsOfSelection /\ Editor!EditsSurvive /\ Editor!OthersSurvive
  BY DEF EditorInv, EditorSafe, HeldIsOfStore, Editor!OthersSurvive
<1>2. \A c \in calls : c.kind \in Editor!Commands \cup {"load"} /\ c.anime \in Animes
  BY DEF EditorInv, EditorTypes, EditorLoad, EditorCommand
<1>3. {retains, saving, loading, warned, strayed, overwrote} \subseteq BOOLEAN
  BY DEF EditorInv, EditorTypes, HeldIsOfStore
<1> QED
  BY <1>1, <1>2, <1>3 DEF Editor!TypeOK, EditorInv, EditorTypes

\* For any animes and fields: the form is of the anime selected, what is typed leaves it
\* only as the property names, and a save writes over no change the form has not shown
\* (useAnimeEditorRecord, useAnimeEditorCommands).
THEOREM EditorIsSafe ==
  ASSUME EditorAssumptions
  PROVE  Editor!Spec => [](Editor!TypeOK /\ Editor!FormIsOfSelection /\ Editor!EditsSurvive
         /\ Editor!OthersSurvive)
<1>1. Editor!Init => EditorInv
  BY EditorInit
<1>2. EditorInv /\ [Editor!Next]_(Editor!vars) => EditorInv'
  BY EditorStepKeepsInv
<1> QED
  BY <1>1, <1>2, EditorPromises, PTL DEF Editor!Spec

==============================================================================
