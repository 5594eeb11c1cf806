---------------------------- MODULE MetadataLookup ----------------------------
(* The "Fetch metadata" dialog: a delayed search whose newest answer wins,   *)
(* with a cache of what was found; a candidate highlighted; and the confirm  *)
(* that fetches its page and fills the form.  A query finds one candidate    *)
(* of its own, so a candidate is named by the query.                         *)
EXTENDS Naturals

CONSTANTS Queries, Short, None,
          Name,          \* the form's name, the first query
          MaxTyped, MaxConfirms \* bounds: queries typed, confirms pressed

VARIABLES
  open, seeded,  \* the dialog is open; it was once
  query, timer,  \* the text, and the query whose search is due, or None
  snapshot,      \* [state, of]: what the results area shows
  cache,         \* queries found before
  calls,         \* searches, of which one at most is the newest, and a confirm
  highlighted, confirming,
  filled,        \* what the form was last filled with: [of, cover], or None
  typed, pressed,
  overtaken,     \* history: a query was answered without a search while one was under way
  unseen,        \* history: results were replaced under a highlighted candidate
  hung           \* history: a call threw: the spinner stays

past == <<overtaken, unseen, hung>>
vars == <<open, seeded, query, timer, snapshot, cache, calls, highlighted, confirming, filled, typed, pressed, past>>

Idle == [state |-> "idle", of |-> None]
Results(q) == [state |-> "resolved", of |-> q]

TypeOK ==
  /\ query \in Queries \cup {None} /\ {timer, highlighted} \subseteq Queries \cup {None}
  /\ snapshot.state \in {"idle", "loading", "resolved", "failed"} /\ snapshot.of \in Queries \cup {None}
  /\ cache \subseteq Queries \ Short /\ typed <= MaxTyped /\ pressed <= MaxConfirms
  /\ \A c \in calls : c.kind \in {"search", "detail"} /\ c.of \in Queries
  /\ {open, seeded, confirming, overtaken, unseen, hung} \subseteq BOOLEAN

Init ==
  /\ open = FALSE /\ seeded = FALSE /\ query = None /\ timer = None /\ snapshot = Idle /\ cache = {}
  /\ calls = {} /\ highlighted = None /\ confirming = FALSE /\ filled = None /\ typed = 0 /\ pressed = 0
  /\ overtaken = FALSE /\ unseen = FALSE /\ hung = FALSE

-----------------------------------------------------------------------------
(* The user                                                                *)

\* The name is searched for on the first opening only.
Open ==
  /\ ~open /\ open' = TRUE /\ seeded' = TRUE
  /\ IF seeded THEN UNCHANGED <<query, timer>> ELSE query' = Name /\ timer' = Name
  /\ UNCHANGED <<snapshot, cache, calls, highlighted, confirming, filled, typed, pressed, past>>

Close ==
  /\ open /\ open' = FALSE
  /\ UNCHANGED <<seeded, query, timer, snapshot, cache, calls, highlighted, confirming, filled, typed, pressed, past>>

\* Mutant: a candidate stays highlighted when the query changes.
TypeKeeps(q) ==
  /\ open /\ q # query /\ typed < MaxTyped /\ typed' = typed + 1
  /\ query' = q /\ timer' = q
  /\ UNCHANGED <<open, seeded, snapshot, cache, calls, highlighted, confirming, filled, pressed, past>>

Type(q) ==
  /\ open /\ q # query /\ typed < MaxTyped /\ typed' = typed + 1
  /\ query' = q /\ timer' = q /\ highlighted' = None
  /\ UNCHANGED <<open, seeded, snapshot, cache, calls, confirming, filled, pressed, past>>

\* The results shown may still be those of the query before.
Highlight ==
  /\ open /\ snapshot.state = "resolved" /\ highlighted' = snapshot.of
  /\ unseen' = (unseen \/ timer # None \/ \E c \in calls : c.kind = "search" /\ c.newest)
  /\ UNCHANGED <<open, seeded, query, timer, snapshot, cache, calls, confirming, filled, typed, pressed, overtaken, hung>>

\* The cover comes from the results shown, the rest from the candidate's page.
Confirm ==
  /\ open /\ highlighted # None /\ ~confirming /\ confirming' = TRUE
  /\ pressed < MaxConfirms /\ pressed' = pressed + 1
  /\ calls' = calls \cup {[kind |-> "detail", of |-> highlighted, newest |-> TRUE,
                           cover |-> snapshot = Results(highlighted)]}
  /\ UNCHANGED <<open, seeded, query, timer, snapshot, cache, highlighted, filled, typed, past>>

-----------------------------------------------------------------------------
(* The timer and the answers                                               *)

\* Mutant: a search does not make those before it stale.
SearchKeepsOlder(q) ==
  /\ snapshot' = [state |-> "loading", of |-> None]
  /\ calls' = calls \cup {[kind |-> "search", of |-> q, newest |-> TRUE, cover |-> FALSE]}

SearchFor(q) ==
  /\ snapshot' = [state |-> "loading", of |-> None]
  /\ calls' = {IF c.kind = "search" THEN [c EXCEPT !.newest = FALSE] ELSE c : c \in calls}
              \cup {[kind |-> "search", of |-> q, newest |-> TRUE, cover |-> FALSE]}

\* A short query and a cached one are answered without a search, and leave the
\* newest search current.
TimerFires ==
  /\ timer # None /\ timer' = None
  /\ IF timer \in Short THEN snapshot' = Idle /\ UNCHANGED calls
     ELSE IF timer \in cache THEN snapshot' = Results(timer) /\ UNCHANGED calls
     ELSE SearchFor(timer)
  /\ overtaken' = (overtaken \/ (timer \in Short \cup cache /\ \E c \in calls : c.kind = "search" /\ c.newest))
  /\ UNCHANGED <<open, seeded, query, cache, highlighted, confirming, filled, typed, pressed, unseen, hung>>

\* A search's answer: its candidate, an error, or an exception nobody catches.
SearchAnswers(c, outcome) ==
  /\ c.kind = "search" /\ calls' = calls \ {c}
  /\ hung' = (hung \/ (c.newest /\ outcome = "throws"))
  /\ IF ~c.newest \/ outcome = "throws" THEN UNCHANGED <<snapshot, cache>>
     ELSE /\ snapshot' = IF outcome = "ok" THEN Results(c.of) ELSE [state |-> "failed", of |-> None]
          /\ cache' = IF outcome = "ok" THEN cache \cup {c.of} ELSE cache
  /\ UNCHANGED <<open, seeded, query, timer, highlighted, confirming, filled, typed, pressed, overtaken, unseen>>

\* A page fetched fills the form and closes the dialog, whatever it shows by then.
DetailAnswers(c, outcome) ==
  /\ c.kind = "detail" /\ calls' = calls \ {c}
  /\ confirming' = (outcome = "throws")
  /\ IF outcome = "ok" THEN filled' = [of |-> c.of, cover |-> c.cover] /\ open' = FALSE
     ELSE UNCHANGED <<filled, open>>
  /\ hung' = (hung \/ outcome = "throws")
  /\ UNCHANGED <<seeded, query, timer, snapshot, cache, highlighted, typed, pressed, overtaken, unseen>>

Outcomes == {"ok", "error", "throws"}
Next ==
  \/ Open \/ Close \/ Highlight \/ Confirm \/ TimerFires
  \/ \E q \in Queries : Type(q)
  \/ \E c \in calls, outcome \in Outcomes : SearchAnswers(c, outcome) \/ DetailAnswers(c, outcome)

\* The timer fires and what is on its way arrives.
Answer == TimerFires \/ \E c \in calls : SearchAnswers(c, "ok") \/ DetailAnswers(c, "ok")

Spec == Init /\ [][Next]_vars /\ WF_vars(Answer)

-----------------------------------------------------------------------------
\* Once answered, the results are those of the query in the field, unless a short or
\* cached query left an older search to answer after it, or a call threw.
ResultsSettle ==
  seeded /\ timer = None /\ ~overtaken /\ ~hung /\ (\A c \in calls : c.kind # "search") =>
    IF query \in Short THEN snapshot = Idle ELSE snapshot = Results(query) \/ snapshot.state = "failed"

\* The candidate that Confirm would fetch is one of those shown, and what filled the
\* form came with its cover, unless the results were due to be replaced when it was
\* highlighted.
HighlightedIsShown ==
  ~unseen => /\ highlighted # None => snapshot = Results(highlighted)
             /\ filled # None => filled.cover

\* The spinner of the results, and that of the confirm button, end.
Searching == snapshot.state = "loading" /\ ~hung
Fetching == confirming /\ ~hung
WaitsEnd == (Searching ~> ~Searching) /\ (Fetching ~> ~Fetching)

===============================================================================
