----------------------------- MODULE AnimeDetail -----------------------------
(* The page of one anime: its detail is loaded on every visit, Repeat and    *)
(* Restore are confirmed in a dialog, executed with the version on the page, *)
(* and followed by a reload.  The route may change between any two steps.    *)
EXTENDS Naturals, FiniteSets

CONSTANTS
  Animes, Nothing,
  MaxVisits, MaxCalls, MaxVersion \* bounds: route changes, calls the user starts, versions of an anime

VARIABLES
  stored,     \* the store: the version of each anime
  route,      \* props.animeId
  generation, \* routeGenerationRef
  snapshot,   \* detailSnapshot: [anime, version], version Nothing for null; or Nothing
  mutation,   \* mutationState
  calls, made,
  outcome     \* history: what the store decided on the change confirmed last in this visit

vars == <<stored, route, generation, snapshot, mutation, calls, made, outcome>>

Outcomes == {"applied", "no_op", "conflict", "failed"}
Feedbacks == [applied |-> "success", no_op |-> "accent", conflict |-> "warning", failed |-> "danger"]

NoMutation(a, g) == [anime |-> a, generation |-> g, confirming |-> FALSE, feedback |-> "none", mutating |-> FALSE]

Call(n, kind, base) ==
  [ticket |-> n, kind |-> kind, anime |-> route', generation |-> generation', base |-> base,
   active |-> TRUE, served |-> FALSE, outcome |-> "failed", version |-> Nothing]

Versions == 1..MaxVersion

TypeOK ==
  /\ stored \in [Animes -> Versions]
  /\ route \in Animes /\ generation \in 0..MaxVisits
  /\ snapshot = Nothing \/ snapshot \in [anime : Animes, version : Versions \cup {Nothing}]
  /\ mutation \in [anime : Animes, generation : 0..MaxVisits, confirming : BOOLEAN, mutating : BOOLEAN,
                   feedback : {"none", "success", "accent", "warning", "danger"}]
  /\ \A c \in calls : c.kind \in {"load", "mutate", "refresh"} /\ c.ticket \in 1..made /\ c.generation <= generation
  /\ outcome \in Outcomes \cup {"none"}

Init ==
  /\ stored = [a \in Animes |-> 1]
  /\ route \in Animes /\ generation = 0
  /\ snapshot = Nothing /\ mutation = NoMutation(route, 0) /\ outcome = "none"
  /\ made = 1
  /\ calls = {[ticket |-> 1, kind |-> "load", anime |-> route, generation |-> 0, base |-> Nothing,
               active |-> TRUE, served |-> FALSE, outcome |-> "failed", version |-> Nothing]}

\* Mutant: the held detail counts on every route.
HeldVersion == IF snapshot # Nothing THEN snapshot.version ELSE Nothing

\* A snapshot and a mutation state of another visit read as none.
VisibleVersion == IF snapshot # Nothing /\ snapshot.anime = route THEN snapshot.version ELSE Nothing
\* Mutant: a visit is known by its anime alone.
OfThisAnime == mutation.anime = route

OfThisVisit == mutation.anime = route /\ mutation.generation = generation
Confirming == OfThisVisit /\ mutation.confirming
Mutating == OfThisVisit /\ mutation.mutating
Feedback == IF OfThisVisit THEN mutation.feedback ELSE "none"
IsActive(c) == c.anime = route /\ c.generation = generation

Ask(remaining, kind, base) ==
  /\ made' = made + 1
  /\ calls' = remaining \cup {Call(made + 1, kind, base)}

\* The route changes: the load of the old visit is cleaned up, a new one starts.
Visit(a) ==
  /\ a # route /\ generation < MaxVisits /\ made < MaxCalls
  /\ route' = a /\ generation' = generation + 1
  /\ Ask({[c EXCEPT !.active = @ /\ c.kind # "load"] : c \in calls}, "load", Nothing)
  /\ outcome' = "none"
  /\ UNCHANGED <<stored, snapshot, mutation>>

\* The toolbar's Repeat or Restore, which a running mutation disables.
RequestAction ==
  /\ VisibleVersion # Nothing /\ ~Mutating /\ ~Confirming
  /\ mutation' = [NoMutation(route, generation) EXCEPT !.confirming = TRUE]
  /\ UNCHANGED <<stored, route, generation, snapshot, calls, made, outcome>>

CancelAction ==
  /\ Confirming /\ ~Mutating
  /\ mutation' = [mutation EXCEPT !.confirming = FALSE]
  /\ UNCHANGED <<stored, route, generation, snapshot, calls, made, outcome>>

ConfirmAction ==
  /\ Confirming /\ VisibleVersion # Nothing /\ ~Mutating /\ made < MaxCalls
  /\ UNCHANGED <<stored, route, generation, snapshot, outcome>>
  /\ mutation' = [mutation EXCEPT !.feedback = "none", !.mutating = TRUE]
  /\ Ask(calls, "mutate", VisibleVersion)

\* The store answers a read, or cannot.
ServeRead(c, ok) ==
  /\ c.kind # "mutate" /\ ~c.served
  /\ calls' = (calls \ {c}) \cup {[c EXCEPT !.served = TRUE, !.version = IF ok THEN stored[c.anime] ELSE Nothing]}
  /\ UNCHANGED <<stored, route, generation, snapshot, mutation, made, outcome>>

\* The store decides a change from its base.
ServeMutation(c, o) ==
  /\ c.kind = "mutate" /\ ~c.served
  /\ CASE o = "applied" -> stored[c.anime] = c.base /\ c.base < MaxVersion
       [] o = "conflict" -> stored[c.anime] # c.base
       [] OTHER -> TRUE
  /\ stored' = IF o = "applied" THEN [stored EXCEPT ![c.anime] = @ + 1] ELSE stored
  /\ calls' = (calls \ {c}) \cup {[c EXCEPT !.served = TRUE, !.outcome = o]}
  /\ outcome' = IF IsActive(c) THEN o ELSE outcome
  /\ UNCHANGED <<route, generation, snapshot, mutation, made>>

OtherWrite(a) ==
  /\ stored[a] < MaxVersion
  /\ stored' = [stored EXCEPT ![a] = @ + 1]
  /\ UNCHANGED <<route, generation, snapshot, mutation, calls, made, outcome>>

Loaded(c) ==
  /\ c.kind = "load" /\ c.served /\ calls' = calls \ {c}
  /\ snapshot' = IF c.active THEN [anime |-> c.anime, version |-> c.version] ELSE snapshot
  /\ UNCHANGED <<stored, route, generation, mutation, made, outcome>>

\* A decided change is told to the visit that asked for it, and reloads the page.
Mutated(c) ==
  /\ c.kind = "mutate" /\ c.served
  /\ UNCHANGED <<stored, route, generation, snapshot, outcome>>
  /\ IF ~IsActive(c) THEN calls' = calls \ {c} /\ UNCHANGED <<mutation, made>>
     ELSE /\ mutation' = [mutation EXCEPT !.confirming = FALSE, !.feedback = Feedbacks[c.outcome],
                                          !.mutating = c.outcome # "failed"]
          /\ IF c.outcome = "failed" THEN calls' = calls \ {c} /\ UNCHANGED made
             ELSE Ask(calls \ {c}, "refresh", Nothing)

\* The reload: when it fails the page keeps its detail and says so.
Refreshed(c) ==
  /\ c.kind = "refresh" /\ c.served /\ calls' = calls \ {c}
  /\ IF ~IsActive(c) THEN UNCHANGED <<snapshot, mutation>>
     ELSE /\ snapshot' = IF c.version = Nothing THEN snapshot ELSE [anime |-> c.anime, version |-> c.version]
          /\ mutation' = [mutation EXCEPT !.mutating = FALSE,
                                          !.feedback = IF c.version = Nothing THEN "warning" ELSE @]
  /\ UNCHANGED <<stored, route, generation, made, outcome>>

Answer == \E c \in calls :
  \/ \E ok \in BOOLEAN : ServeRead(c, ok)
  \/ \E o \in Outcomes : ServeMutation(c, o)
  \/ Loaded(c) \/ Mutated(c) \/ Refreshed(c)

Next ==
  \/ Answer
  \/ RequestAction \/ CancelAction \/ ConfirmAction
  \/ \E a \in Animes : Visit(a) \/ OtherWrite(a)

Fairness == WF_vars(Answer)
Spec == Init /\ [][Next]_vars /\ Fairness

\* The alert is about this visit: what it says is what the store decided on the
\* change confirmed last on this page, a failed reload making it a warning.
FeedbackIsHonest ==
  Feedback # "none" /\ ~Mutating =>
    /\ outcome # "none"
    /\ Feedback \in {Feedbacks[outcome], "warning"}
    /\ outcome = "failed" => Feedback = "danger"

\* The page implements what it promises.
Promise == INSTANCE ConfirmedChange WITH
  shown <- VisibleVersion,
  promised <- {[ticket |-> c.ticket, anime |-> c.anime, base |-> c.base] : c \in {d \in calls : d.kind = "mutate" /\ ~d.served}}

KeepsItsPromise == Promise!Spec

=============================================================================
