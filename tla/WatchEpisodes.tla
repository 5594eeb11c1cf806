---------------------------- MODULE WatchEpisodes ----------------------------
(* The episode lists of an anime's page: one log per anime and watch cycle,  *)
(* inside an accordion item that may be collapsed at any time.               *)
EXTENDS KeysetPages

VARIABLE expanded \* the accordion item is open (enabled)

vars == <<scope, pageVars, expanded>>

TypeOK == PageTypes /\ expanded \in BOOLEAN

\* Mounted collapsed: nothing is asked for until the item is opened.
Init == scope \in Scopes /\ PagesEmpty /\ loading = FALSE /\ expanded = FALSE

\* The effect, when it starts over.
StartOver(s, open) ==
  /\ Forget
  /\ scope' = s /\ expanded' = open
  /\ failed' = FALSE /\ loading' = open
  /\ IF open THEN Ask(s, 0, generation') ELSE UNCHANGED <<inflight, fetching>>

\* Opening always starts over, the second time too.
Expand == ~expanded /\ StartOver(scope, TRUE)

\* Collapsing keeps the rows.
Collapse == expanded /\ expanded' = FALSE /\ UNCHANGED <<scope, pageVars>>

ChangeScope(s) == s # scope /\ StartOver(s, expanded)

Scroll == expanded /\ FetchNextPage /\ UNCHANGED expanded

Answer ==
  \E r \in InFlight :
    /\ SupersededAnswer(r) \/ FailedAnswer(r) \/ PageAnswer(r)
    /\ UNCHANGED expanded

Next ==
  \/ Expand
  \/ Collapse
  \/ \E s \in Scopes : ChangeScope(s)
  \/ Scroll
  \/ Answer

Fairness == WF_vars(Answer)
Spec == Init /\ [][Next]_vars /\ Fairness

=============================================================================
