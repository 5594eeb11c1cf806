--------------------------- MODULE HistoryInspector --------------------------
(* The pane beside the History list: the detail, the latest episodes and the *)
(* cover of the anime the URL selects, each read by its own effect and       *)
(* answered in any order.                                                    *)
EXTENDS Naturals

CONSTANTS
  Animes,
  Covered,   \* the animes whose stored detail has a cover path
  None,
  MaxVisits  \* bound: selections

VARIABLES
  selected, \* props.animeId, or None
  snapshot, \* [anime, ok]: the last detail answered, ok = FALSE for null; or None
  recents,  \* the anime whose latest episodes are held, or None for no rows
  cover,    \* [status, anime] of useAnimeCover
  asked,    \* requests in flight; a request whose effect was cleaned up is not active
  visits

vars == <<selected, snapshot, recents, cover, asked, visits>>

Kinds == {"detail", "episodes", "cover"}
Placeholder == [status |-> "placeholder", anime |-> None]

TypeOK ==
  /\ selected \in Animes \cup {None}
  /\ snapshot = None \/ snapshot \in [anime : Animes, ok : BOOLEAN]
  /\ recents \in Animes \cup {None}
  /\ cover \in [status : {"placeholder", "loading", "cover"}, anime : Animes \cup {None}]
  /\ asked \subseteq [kind : Kinds, anime : Animes, visit : 1..MaxVisits, active : BOOLEAN]
  /\ visits \in 0..MaxVisits

Init ==
  /\ selected = None /\ snapshot = None /\ recents = None
  /\ cover = Placeholder /\ asked = {} /\ visits = 0

\* Mutant: the held detail is shown for whatever anime is selected.
DetailOfAny(s, a) == s

\* A snapshot of another anime reads as none at all.
DetailOf(s, a) == IF s # None /\ s.anime = a THEN s ELSE None
HasStoredCover(s, a) == DetailOf(s, a) # None /\ s.ok /\ a \in Covered

Status ==
  CASE selected = None -> "prompt"
    [] selected # None /\ DetailOf(snapshot, selected) = None -> "loading"
    [] OTHER -> IF snapshot.ok THEN "content" ELSE "error"

Retire(requests, kinds) ==
  {[r EXCEPT !.active = @ /\ r.kind \notin kinds] : r \in requests}

Request(k, a, n) == [kind |-> k, anime |-> a, visit |-> n, active |-> TRUE]

\* useAnimeCover: its effect runs when the anime or the stored flag changes.
CoverEffect(requests, s, a, n) ==
  IF HasStoredCover(s, a)
  THEN /\ cover' = [status |-> "loading", anime |-> a]
       /\ asked' = Retire(requests, {"cover"}) \cup {Request("cover", a, n)}
  ELSE /\ cover' = Placeholder
       /\ asked' = Retire(requests, {"cover"})

\* Another row is selected, or none: the effects of the old one are cleaned up.
Select(a) ==
  /\ a # selected /\ visits < MaxVisits
  /\ visits' = visits + 1
  /\ selected' = a
  /\ recents' = IF a = None THEN recents ELSE None
  /\ LET kept == Retire(asked, {"detail", "episodes"})
         started == IF a = None THEN {} ELSE {Request(k, a, visits + 1) : k \in {"detail", "episodes"}}
     IN CoverEffect(kept \cup started, snapshot, a, visits + 1)
  /\ UNCHANGED snapshot

DetailAnswers(r, ok) ==
  /\ r.kind = "detail"
  /\ UNCHANGED <<selected, recents, visits>>
  /\ IF r.active
     THEN /\ snapshot' = [anime |-> r.anime, ok |-> ok]
          /\ IF HasStoredCover(snapshot', selected) # HasStoredCover(snapshot, selected)
             THEN CoverEffect(asked \ {r}, snapshot', selected, visits)
             ELSE asked' = asked \ {r} /\ UNCHANGED cover
     ELSE asked' = asked \ {r} /\ UNCHANGED <<snapshot, cover>>

\* The page is supplementary: a failure leaves no rows.
EpisodesAnswer(r, ok) ==
  /\ r.kind = "episodes"
  /\ asked' = asked \ {r}
  /\ recents' = IF r.active /\ ok THEN r.anime ELSE recents
  /\ UNCHANGED <<selected, snapshot, cover, visits>>

CoverAnswers(r, ok) ==
  /\ r.kind = "cover"
  /\ asked' = asked \ {r}
  /\ cover' = CASE ~r.active -> cover
                [] r.active /\ ok -> [status |-> "cover", anime |-> r.anime]
                [] OTHER -> Placeholder
  /\ UNCHANGED <<selected, snapshot, recents, visits>>

Answer == \E r \in asked, ok \in BOOLEAN : DetailAnswers(r, ok) \/ EpisodesAnswer(r, ok) \/ CoverAnswers(r, ok)

Next == Answer \/ \E a \in Animes \cup {None} : Select(a)

Fairness == WF_vars(Answer)
Spec == Init /\ [][Next]_vars /\ Fairness

\* However the answers to a burst of selections arrive, a pane with content shows
\* the detail, the episodes and the cover of the one anime selected.
PaneIsOfOneAnime ==
  Status = "content" =>
    /\ snapshot.anime = selected
    /\ recents \in {selected, None}
    /\ cover.status # "placeholder" => cover.anime = selected

=============================================================================
