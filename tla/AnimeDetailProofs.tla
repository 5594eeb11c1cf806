-------------------------- MODULE AnimeDetailProofs --------------------------
(***************************************************************************)
(* The page of an anime implements ConfirmedChange, for any animes, visits,*)
(* calls and versions.                                                     *)
(*                                                                         *)
(* Inv: every call has a ticket of its own, and whatever version a call    *)
(* carries or the page holds was stored.                                   *)
(***************************************************************************)
EXTENDS AnimeDetail, TLAPS

Versioned == Nat \cup {Nothing}
Kinds == {"load", "mutate", "refresh"}
CallRecord ==
  [ticket : Nat, kind : Kinds, anime : Animes, generation : Nat, base : Versioned,
   active : BOOLEAN, served : BOOLEAN, outcome : Outcomes, version : Versioned]
Snapshot == [anime : Animes, version : Versioned]

Typed ==
  /\ stored \in [Animes -> Nat] /\ route \in Animes /\ generation \in Nat
  /\ snapshot = Nothing \/ snapshot \in Snapshot
  /\ calls \subseteq CallRecord /\ made \in Nat

OwnTickets ==
  /\ \A c \in calls : c.ticket <= made
  /\ \A c, d \in calls : c.ticket = d.ticket => c = d

Stored(a, v) == v = Nothing \/ v \in 1..stored[a]
HeldWasStored ==
  /\ \A c \in calls : Stored(c.anime, c.version)
  /\ snapshot # Nothing => Stored(snapshot.anime, snapshot.version)

StoredFromOne == \A a \in Animes : 1 <= stored[a]

Inv == Typed /\ OwnTickets /\ HeldWasStored /\ StoredFromOne

\* The changes the store has not decided, as ConfirmedChange sees them.
Change(c) == [ticket |-> c.ticket, anime |-> c.anime, base |-> c.base]
Open(c) == c.kind = "mutate" /\ ~c.served
Promised(S) == {Change(c) : c \in {d \in S : Open(d)}}

-----------------------------------------------------------------------------
(* Calls                                                                   *)

LEMMA ChangesDiffer ==
  ASSUME Inv, NEW c \in calls, NEW d \in calls, Change(c) = Change(d)
  PROVE  c = d
<1>1. Change(c).ticket = c.ticket /\ Change(d).ticket = d.ticket
  BY DEF Change
<1> QED
  BY <1>1 DEF Inv, OwnTickets

\* What an answer does to a call.
Answered(c, v) == [c EXCEPT !.served = TRUE, !.version = v]
Decided(c, o) == [c EXCEPT !.served = TRUE, !.outcome = o]
Cleaned(c) == [c EXCEPT !.active = c.active /\ c.kind # "load"]

LEMMA AnsweredCall ==
  ASSUME NEW c \in CallRecord, NEW v \in Versioned
  PROVE  /\ Answered(c, v) \in CallRecord /\ Answered(c, v).ticket = c.ticket
         /\ Answered(c, v).kind = c.kind /\ Answered(c, v).anime = c.anime /\ Answered(c, v).version = v
         /\ Answered(c, v).served /\ Answered(c, v).generation = c.generation
BY DEF CallRecord, Answered

LEMMA DecidedCall ==
  ASSUME NEW c \in CallRecord, NEW o \in Outcomes
  PROVE  /\ Decided(c, o) \in CallRecord /\ Decided(c, o).ticket = c.ticket /\ Decided(c, o).served = TRUE
         /\ Decided(c, o).anime = c.anime /\ Decided(c, o).version = c.version
         /\ Decided(c, o).kind = c.kind /\ Decided(c, o).generation = c.generation /\ Decided(c, o).outcome = o
BY DEF CallRecord, Decided

LEMMA CleanedCall ==
  ASSUME NEW c \in CallRecord
  PROVE  /\ Cleaned(c) \in CallRecord /\ Change(Cleaned(c)) = Change(c)
         /\ Cleaned(c).ticket = c.ticket /\ Cleaned(c).kind = c.kind /\ Cleaned(c).served = c.served
         /\ Cleaned(c).anime = c.anime /\ Cleaned(c).version = c.version /\ Cleaned(c).generation = c.generation
<1>1. (c.active /\ c.kind # "load") \in BOOLEAN
  OBVIOUS
<1>2. /\ Cleaned(c) \in CallRecord
      /\ Cleaned(c).ticket = c.ticket /\ Cleaned(c).kind = c.kind /\ Cleaned(c).served = c.served
      /\ Cleaned(c).anime = c.anime /\ Cleaned(c).version = c.version /\ Cleaned(c).base = c.base
      /\ Cleaned(c).generation = c.generation
  BY <1>1 DEF CallRecord, Cleaned
<1> QED
  BY <1>2 DEF Change

NewRecord(n, kind, base, a, g) ==
  [ticket |-> n, kind |-> kind, anime |-> a, generation |-> g, base |-> base,
   active |-> TRUE, served |-> FALSE, outcome |-> "failed", version |-> Nothing]

LEMMA NewCall ==
  ASSUME NEW n \in Nat, NEW kind \in Kinds, NEW base \in Versioned, NEW a \in Animes, NEW g \in Nat
  PROVE  /\ NewRecord(n, kind, base, a, g) \in CallRecord
         /\ NewRecord(n, kind, base, a, g).ticket = n /\ NewRecord(n, kind, base, a, g).kind = kind
         /\ ~NewRecord(n, kind, base, a, g).served /\ NewRecord(n, kind, base, a, g).version = Nothing
         /\ NewRecord(n, kind, base, a, g).anime = a /\ NewRecord(n, kind, base, a, g).base = base
         /\ NewRecord(n, kind, base, a, g).generation = g
BY DEF NewRecord, CallRecord, Outcomes, Versioned

LEMMA Asked ==
  ASSUME Typed, NEW kind \in Kinds, NEW base \in Versioned, NEW R, Ask(R, kind, base),
         route' \in Animes, generation' \in Nat
  PROVE  \E n \in CallRecord :
           /\ calls' = R \cup {n} /\ made' = made + 1
           /\ n.ticket = made + 1 /\ n.kind = kind /\ ~n.served
           /\ n.version = Nothing /\ n.anime = route' /\ n.base = base /\ n.generation = generation'
<1>1. made + 1 \in Nat
  BY DEF Typed
<1>2. PICK a \in Animes, g \in Nat, m \in Nat : a = route' /\ g = generation' /\ m = made + 1
  BY <1>1
<1> DEFINE n == NewRecord(m, kind, base, a, g)
<1>3. /\ n \in CallRecord /\ n.ticket = m /\ n.kind = kind /\ ~n.served
      /\ n.version = Nothing /\ n.anime = a /\ n.base = base /\ n.generation = g
  BY NewCall
<1>4. calls' = R \cup {n} /\ made' = made + 1
  BY <1>2 DEF Ask, Call, NewRecord
<1> HIDE DEF n
<1> QED
  BY <1>2, <1>3, <1>4

\* A new version is still one that was stored when the store only grows.
LEMMA StillStored ==
  ASSUME NEW a \in Animes, NEW v, Typed, stored' \in [Animes -> Nat], stored[a] <= stored'[a], Stored(a, v)
  PROVE  v = Nothing \/ v \in 1..stored'[a]
<1>1. stored[a] \in Nat /\ stored'[a] \in Nat
  BY DEF Typed
<1> QED
  BY <1>1 DEF Stored

-----------------------------------------------------------------------------
(* Each step keeps Inv                                                     *)

\* One call is replaced by its answered self, or goes.
LEMMA ReplaceInv ==
  ASSUME Inv, NEW c \in calls, NEW d \in CallRecord, d.ticket = c.ticket, Stored(d.anime, d.version),
         calls' = (calls \ {c}) \cup {d} \/ calls' = calls \ {c},
         UNCHANGED <<stored, route, generation, snapshot, made>>
  PROVE  Inv'
<1>1. Typed'
  BY DEF Inv, Typed
<1>2. OwnTickets'
  BY DEF Inv, OwnTickets
<1>3. HeldWasStored' /\ StoredFromOne'
  BY DEF Inv, HeldWasStored, StoredFromOne, Stored
<1> QED
  BY <1>1, <1>2, <1>3 DEF Inv

\* A call is asked on top of some of the calls.
LEMMA AskInv ==
  ASSUME Inv, NEW R \in SUBSET calls, NEW kind \in Kinds, NEW base \in Versioned,
         Ask(R, kind, base), UNCHANGED <<stored, route, generation, snapshot>>
  PROVE  Inv'
<1>1. PICK n \in CallRecord :
        /\ calls' = R \cup {n} /\ made' = made + 1
        /\ n.ticket = made + 1 /\ n.version = Nothing
  BY Asked DEF Inv, Typed
<1>2. made \in Nat
  BY DEF Inv, Typed
<1>3. Typed'
  BY <1>1, <1>2 DEF Inv, Typed
<1>4. \A c \in R : c.ticket \in Nat /\ c.ticket <= made
  BY DEF Inv, Typed, OwnTickets, CallRecord
<1>5. OwnTickets'
  BY <1>1, <1>2, <1>4 DEF Inv, OwnTickets
<1>6. HeldWasStored' /\ StoredFromOne'
  BY <1>1, <1>2 DEF Inv, HeldWasStored, StoredFromOne, Stored
<1> QED
  BY <1>3, <1>5, <1>6 DEF Inv

\* The store grows and nothing that was held changes.
LEMMA GrowInv ==
  ASSUME Inv, stored' \in [Animes -> Nat], \A a \in Animes : stored[a] <= stored'[a],
         UNCHANGED <<route, generation, snapshot, calls, made>>
  PROVE  Inv'
<1>1. Typed' /\ OwnTickets'
  BY DEF Inv, Typed, OwnTickets
<1>2. \A c \in calls : c.anime \in Animes
  BY DEF Inv, Typed, CallRecord
<1>3. snapshot # Nothing => snapshot.anime \in Animes
  BY DEF Inv, Typed, Snapshot
<1>4. HeldWasStored'
  BY <1>2, <1>3, StillStored DEF Inv, HeldWasStored, Stored
<1>5. StoredFromOne'
  BY DEF Inv, Typed, StoredFromOne
<1> QED
  BY <1>1, <1>4, <1>5 DEF Inv

LEMMA VisitInv ==
  ASSUME Inv, NEW a \in Animes, Visit(a)
  PROVE  Inv'
<1> DEFINE R == {Cleaned(c) : c \in calls}
<1>1. /\ Ask(R, "load", Nothing) /\ route' = a /\ generation' = generation + 1
      /\ UNCHANGED <<stored, snapshot>>
  BY DEF Visit, Cleaned
<1>2. PICK n \in CallRecord : /\ calls' = R \cup {n} /\ made' = made + 1
                             /\ n.ticket = made + 1 /\ n.version = Nothing
  <2>1. route' \in Animes /\ generation' \in Nat /\ "load" \in Kinds /\ Nothing \in Versioned
    BY <1>1 DEF Inv, Typed, Kinds, Versioned
  <2> HIDE DEF R
  <2> QED
    BY <1>1, <2>1, Asked DEF Inv
<1>3. \A c \in calls : c \in CallRecord
  BY DEF Inv, Typed
<1>4. \A r \in R : r \in CallRecord /\ \E c \in calls : r = Cleaned(c) /\ r.ticket = c.ticket /\ r.anime = c.anime /\ r.version = c.version
  BY <1>3, CleanedCall
<1> HIDE DEF R
<1>5. made \in Nat /\ \A r \in R : r.ticket \in Nat /\ r.ticket <= made
  BY <1>4 DEF Inv, Typed, OwnTickets, CallRecord
<1>6. \A q, r \in R : q.ticket = r.ticket => q = r
  BY <1>4 DEF Inv, OwnTickets
<1>7. Typed'
  BY <1>1, <1>2, <1>4 DEF Inv, Typed
<1>8. OwnTickets'
  BY <1>2, <1>5, <1>6 DEF OwnTickets
<1>9. \A c \in calls' : Stored(c.anime, c.version)
  BY <1>2, <1>4 DEF Inv, HeldWasStored, Stored
<1>10. HeldWasStored' /\ StoredFromOne'
  BY <1>1, <1>9 DEF Inv, HeldWasStored, StoredFromOne, Stored
<1> QED
  BY <1>7, <1>8, <1>10 DEF Inv

LEMMA ServeReadInv ==
  ASSUME Inv, NEW c \in calls, NEW ok \in BOOLEAN, ServeRead(c, ok)
  PROVE  Inv'
<1>1. PICK v \in Versioned : /\ Stored(c.anime, v)
                            /\ calls' = (calls \ {c}) \cup {Answered(c, v)}
  <2>1. c.anime \in Animes
    BY DEF Inv, Typed, CallRecord
  <2>2. stored[c.anime] \in Nat /\ 1 <= stored[c.anime]
    BY <2>1 DEF Inv, Typed, StoredFromOne
  <2>3. Stored(c.anime, stored[c.anime]) /\ Stored(c.anime, Nothing)
    BY <2>2 DEF Stored
  <2>4. stored[c.anime] \in Versioned /\ Nothing \in Versioned
    BY <2>2 DEF Versioned
  <2>5. CASE ok
    <3>1. calls' = (calls \ {c}) \cup {Answered(c, stored[c.anime])}
      BY <2>5 DEF ServeRead, Answered
    <3> QED
      BY <2>3, <2>4, <3>1
  <2>6. CASE ~ok
    <3>1. calls' = (calls \ {c}) \cup {Answered(c, Nothing)}
      BY <2>6 DEF ServeRead, Answered
    <3> QED
      BY <2>3, <2>4, <3>1
  <2> QED
    BY <2>5, <2>6
<1>2. c \in CallRecord
  BY DEF Inv, Typed
<1>3. /\ Answered(c, v) \in CallRecord /\ Answered(c, v).ticket = c.ticket
      /\ Answered(c, v).anime = c.anime /\ Answered(c, v).version = v
  BY <1>2, AnsweredCall
<1>4. UNCHANGED <<stored, route, generation, snapshot, made>>
  BY DEF ServeRead
<1> QED
  BY <1>1, <1>3, <1>4, ReplaceInv

LEMMA ServeMutationInv ==
  ASSUME Inv, NEW c \in calls, NEW o \in Outcomes, ServeMutation(c, o)
  PROVE  Inv'
<1> DEFINE d == Decided(c, o)
<1>1. c \in CallRecord /\ c.anime \in Animes
  BY DEF Inv, Typed, CallRecord
<1>2. d \in CallRecord /\ d.ticket = c.ticket /\ d.anime = c.anime /\ d.version = c.version
  BY <1>1, DecidedCall
<1>3. /\ calls' = (calls \ {c}) \cup {d} /\ UNCHANGED <<route, generation, snapshot, made>>
  BY DEF ServeMutation, Decided
<1>4. stored' \in [Animes -> Nat] /\ \A a \in Animes : stored[a] <= stored'[a]
  <2>1. stored \in [Animes -> Nat]
    BY DEF Inv, Typed
  <2>2. stored' = stored \/ stored' = [stored EXCEPT ![c.anime] = stored[c.anime] + 1]
    BY DEF ServeMutation
  <2> QED
    BY <1>1, <2>1, <2>2
<1> HIDE DEF d
<1>5. Typed'
  BY <1>2, <1>3, <1>4 DEF Inv, Typed
<1>6. OwnTickets'
  BY <1>2, <1>3 DEF Inv, OwnTickets
<1>7. ASSUME NEW e \in calls'
      PROVE  e.version = Nothing \/ e.version \in 1..stored'[e.anime]
  <2>1. e.anime \in Animes /\ Stored(e.anime, e.version)
    BY <1>2, <1>3 DEF Inv, Typed, CallRecord, HeldWasStored
  <2> QED
    BY <1>4, <2>1, StillStored DEF Inv
<1>8. snapshot # Nothing => snapshot.version = Nothing \/ snapshot.version \in 1..stored'[snapshot.anime]
  <2>1. snapshot # Nothing => snapshot.anime \in Animes /\ Stored(snapshot.anime, snapshot.version)
    BY DEF Inv, Typed, Snapshot, HeldWasStored
  <2> QED
    BY <1>4, <2>1, StillStored DEF Inv
<1>9. HeldWasStored'
  BY <1>3, <1>7, <1>8 DEF HeldWasStored, Stored
<1>10. StoredFromOne'
  BY <1>4 DEF Inv, Typed, StoredFromOne
<1> QED
  BY <1>5, <1>6, <1>9, <1>10 DEF Inv

\* A served read is shown, or is not, and goes.
LEMMA ShownInv ==
  ASSUME Inv, NEW c \in calls, calls' = calls \ {c},
         snapshot' = snapshot \/ snapshot' = [anime |-> c.anime, version |-> c.version],
         UNCHANGED <<stored, route, generation, made>>
  PROVE  Inv'
<1>1. c.anime \in Animes /\ c.version \in Versioned /\ Stored(c.anime, c.version)
  BY DEF Inv, Typed, CallRecord, HeldWasStored
<1>2. snapshot' = Nothing \/ snapshot' \in Snapshot
  BY <1>1 DEF Inv, Typed, Snapshot
<1>3. Typed'
  BY <1>2 DEF Inv, Typed
<1>4. OwnTickets' /\ StoredFromOne'
  BY DEF Inv, OwnTickets, StoredFromOne
<1>5. snapshot' # Nothing => Stored(snapshot'.anime, snapshot'.version)
  BY <1>1 DEF Inv, HeldWasStored
<1>6. HeldWasStored'
  BY <1>5 DEF Inv, HeldWasStored, Stored
<1> QED
  BY <1>3, <1>4, <1>6 DEF Inv

LEMMA AnswerInv ==
  ASSUME Inv, Answer
  PROVE  Inv'
<1>1. PICK c \in calls :
        \/ \E ok \in BOOLEAN : ServeRead(c, ok)
        \/ \E o \in Outcomes : ServeMutation(c, o)
        \/ Loaded(c) \/ Mutated(c) \/ Refreshed(c)
  BY DEF Answer
<1>2. CASE \E ok \in BOOLEAN : ServeRead(c, ok)
  BY <1>2, ServeReadInv
<1>3. CASE \E o \in Outcomes : ServeMutation(c, o)
  BY <1>3, ServeMutationInv
<1>4. CASE Loaded(c)
  BY <1>4, ShownInv DEF Loaded
<1>5. CASE Mutated(c)
  <2>1. CASE calls' = calls \ {c} /\ UNCHANGED made
    BY <1>5, <2>1, ShownInv DEF Mutated
  <2>2. CASE Ask(calls \ {c}, "refresh", Nothing)
    <3>1. "refresh" \in Kinds /\ Nothing \in Versioned /\ calls \ {c} \in SUBSET calls
      BY DEF Kinds, Versioned
    <3> QED
      BY <1>5, <2>2, <3>1, AskInv DEF Mutated
  <2> QED
    BY <1>5, <2>1, <2>2 DEF Mutated
<1>6. CASE Refreshed(c)
  BY <1>6, ShownInv DEF Refreshed
<1> QED
  BY <1>1, <1>2, <1>3, <1>4, <1>5, <1>6

LEMMA ConfirmInv ==
  ASSUME Inv, ConfirmAction
  PROVE  Inv'
<1>1. VisibleVersion \in Versioned
  BY DEF Inv, Typed, Snapshot, VisibleVersion, Versioned
<1>2. "mutate" \in Kinds
  BY DEF Kinds
<1> QED
  BY <1>1, <1>2, AskInv DEF ConfirmAction

LEMMA InitInv == Init => Inv
<1> SUFFICES ASSUME Init PROVE Inv
  OBVIOUS
<1> DEFINE c == [ticket |-> 1, kind |-> "load", anime |-> route, generation |-> 0, base |-> Nothing,
                 active |-> TRUE, served |-> FALSE, outcome |-> "failed", version |-> Nothing]
<1>1. calls = {c} /\ made = 1 /\ stored = [a \in Animes |-> 1] /\ route \in Animes /\ snapshot = Nothing /\ generation = 0
  BY DEF Init
<1>2. c \in CallRecord /\ c.ticket = 1 /\ c.version = Nothing
  BY <1>1 DEF CallRecord, Kinds, Versioned, Outcomes
<1> HIDE DEF c
<1>3. Typed /\ OwnTickets
  BY <1>1, <1>2 DEF Typed, OwnTickets
<1>4. HeldWasStored /\ StoredFromOne
  BY <1>1, <1>2 DEF HeldWasStored, StoredFromOne, Stored
<1> QED
  BY <1>3, <1>4 DEF Inv

LEMMA NextInv == Inv /\ Next => Inv'
<1> SUFFICES ASSUME Inv, Next PROVE Inv'
  OBVIOUS
<1>1. CASE Answer
  BY <1>1, AnswerInv
<1>2. CASE ConfirmAction
  BY <1>2, ConfirmInv
<1>3. CASE \E a \in Animes : Visit(a)
  BY <1>3, VisitInv
<1>4. CASE \E a \in Animes : OtherWrite(a)
  <2>1. PICK a \in Animes : OtherWrite(a)
    BY <1>4
  <2>2. stored' \in [Animes -> Nat] /\ \A b \in Animes : stored[b] <= stored'[b]
    BY <2>1 DEF OtherWrite, Inv, Typed
  <2> QED
    BY <2>1, <2>2, GrowInv DEF OtherWrite
<1>5. CASE RequestAction \/ CancelAction
  <2>1. UNCHANGED <<stored, route, generation, snapshot, calls, made>>
    BY <1>5 DEF RequestAction, CancelAction
  <2> QED
    BY <2>1 DEF Inv, Typed, OwnTickets, HeldWasStored, StoredFromOne, Stored
<1> QED
  BY <1>1, <1>2, <1>3, <1>4, <1>5 DEF Next

LEMMA StepInv == Inv /\ [Next]_vars => Inv'
<1>1. Inv /\ UNCHANGED vars => Inv'
  BY DEF Inv, vars, Typed, OwnTickets, HeldWasStored, StoredFromOne, Stored
<1> QED
  BY <1>1, NextInv

-----------------------------------------------------------------------------
(* The alert.  A visit has one change under way at a time, its toolbar is    *)
(* then disabled, and what was decided on it is what the alert will tell.    *)

MutationRecord ==
  [anime : Animes, generation : Nat, confirming : BOOLEAN, mutating : BOOLEAN,
   feedback : {"none", "success", "accent", "warning", "danger"}]

Changing(c) == c.kind # "load" /\ c.generation = generation

OfVisits ==
  /\ mutation \in MutationRecord /\ outcome \in Outcomes \cup {"none"}
  /\ mutation.generation = generation => mutation.anime = route
  /\ mutation.generation <= generation
  /\ \A c \in calls : c.generation <= generation /\ (c.generation = generation => c.anime = route)

OneChange ==
  /\ \A c, d \in calls : Changing(c) /\ Changing(d) => c = d
  /\ \A c \in calls : Changing(c) =>
       /\ mutation.generation = generation /\ mutation.mutating
       /\ c.kind = "mutate" /\ c.served => c.outcome = outcome
       /\ c.kind = "refresh" => outcome \in Outcomes \ {"failed"} /\ mutation.feedback = Feedbacks[outcome]

FeedbackInv == Inv /\ OfVisits /\ OneChange /\ FeedbackIsHonest

LEMMA FeedbackInit == Init => FeedbackInv
<1> SUFFICES ASSUME Init PROVE FeedbackInv
  OBVIOUS
<1> DEFINE m == NoMutation(route, 0)
<1>1. m \in MutationRecord /\ m.generation = 0 /\ m.anime = route /\ m.feedback = "none"
  BY DEF Init, NoMutation, MutationRecord
<1>2. mutation = m /\ generation = 0 /\ outcome = "none" /\ \A c \in calls : c.kind = "load" /\ c.generation = 0 /\ c.anime = route
  BY DEF Init
<1> HIDE DEF m
<1>3. OfVisits
  BY <1>1, <1>2 DEF OfVisits
<1>4. OneChange /\ FeedbackIsHonest
  BY <1>1, <1>2 DEF OneChange, Changing, FeedbackIsHonest, Feedback
<1> QED
  BY <1>3, <1>4, InitInv DEF FeedbackInv

\* The alert depends on these alone.
LEMMA FeedbackSame ==
  ASSUME FeedbackIsHonest, UNCHANGED <<route, generation, mutation, outcome>>
  PROVE  FeedbackIsHonest'
BY DEF FeedbackIsHonest, Feedback, Mutating, OfThisVisit

\* One call goes or is replaced, and it is no change of this visit or tells its outcome.
LEMMA FeedbackReplace ==
  ASSUME FeedbackInv, NEW c \in calls, NEW n, n.kind = c.kind, n.generation = c.generation, n.anime = c.anime,
         calls' = calls \ {c} \/ calls' = (calls \ {c}) \cup {n},
         UNCHANGED <<route, generation, mutation>>, outcome' \in Outcomes \cup {"none"},
         ~(Changing(c) /\ c.kind = "mutate") => outcome' = outcome,
         Changing(c) /\ c.kind = "mutate" /\ n.served => n.outcome = outcome'
  PROVE  OfVisits' /\ OneChange' /\ FeedbackIsHonest'
<1>1. OfVisits'
  BY DEF FeedbackInv, OfVisits
<1>2. OneChange'
  BY DEF FeedbackInv, OneChange, Changing
<1>3. FeedbackIsHonest'
  <2>1. CASE Changing(c)
    <3>1. Mutating
      BY <2>1 DEF FeedbackInv, OfVisits, OneChange, Mutating, OfThisVisit
    <3> QED
      BY <3>1 DEF FeedbackIsHonest, Mutating, OfThisVisit
  <2>2. CASE ~Changing(c)
    BY <2>2, FeedbackSame DEF FeedbackInv
  <2> QED
    BY <2>1, <2>2
<1> QED
  BY <1>1, <1>2, <1>3

LEMMA FeedbackServe ==
  ASSUME FeedbackInv, NEW c \in calls,
         (\E ok \in BOOLEAN : ServeRead(c, ok)) \/ (\E o \in Outcomes : ServeMutation(c, o)) \/ Loaded(c)
  PROVE  OfVisits' /\ OneChange' /\ FeedbackIsHonest'
<1>0. c \in CallRecord /\ outcome \in Outcomes \cup {"none"}
  BY DEF FeedbackInv, OfVisits, Inv, Typed
<1>1. ASSUME NEW ok \in BOOLEAN, ServeRead(c, ok) PROVE OfVisits' /\ OneChange' /\ FeedbackIsHonest'
  <2>0. c.anime \in Animes /\ stored[c.anime] \in Nat
    BY <1>0 DEF FeedbackInv, Inv, Typed, CallRecord
  <2>1. PICK v \in Versioned : v = IF ok THEN stored[c.anime] ELSE Nothing
    BY <2>0 DEF Versioned
  <2>2. calls' = (calls \ {c}) \cup {Answered(c, v)} /\ UNCHANGED <<route, generation, mutation, outcome>> /\ c.kind # "mutate"
    BY <1>1, <2>1 DEF ServeRead, Answered
  <2>3. Answered(c, v).kind = c.kind /\ Answered(c, v).generation = c.generation /\ Answered(c, v).anime = c.anime
    BY <1>0, AnsweredCall
  <2> QED
    BY <1>0, <2>2, <2>3, FeedbackReplace
<1>2. ASSUME NEW o \in Outcomes, ServeMutation(c, o) PROVE OfVisits' /\ OneChange' /\ FeedbackIsHonest'
  <2>1. /\ calls' = (calls \ {c}) \cup {Decided(c, o)} /\ UNCHANGED <<route, generation, mutation>> /\ c.kind = "mutate"
        /\ outcome' = IF IsActive(c) THEN o ELSE outcome
    BY <1>2 DEF ServeMutation, Decided
  <2>2. /\ Decided(c, o).kind = c.kind /\ Decided(c, o).generation = c.generation /\ Decided(c, o).anime = c.anime
        /\ Decided(c, o).outcome = o
    BY <1>0, DecidedCall
  <2>3. IsActive(c) <=> Changing(c)
    BY <2>1 DEF IsActive, Changing, FeedbackInv, OfVisits
  <2> QED
    BY <1>0, <2>1, <2>2, <2>3, FeedbackReplace
<1>3. CASE Loaded(c)
  <2>1. calls' = calls \ {c} /\ UNCHANGED <<route, generation, mutation, outcome>> /\ c.kind = "load"
    BY <1>3 DEF Loaded
  <2> QED
    BY <1>0, <2>1, FeedbackReplace
<1> QED
  BY <1>1, <1>2, <1>3

LEMMA FeedbackMutated ==
  ASSUME FeedbackInv, NEW c \in calls, Mutated(c)
  PROVE  OfVisits' /\ OneChange' /\ FeedbackIsHonest'
<1>0. /\ c \in CallRecord /\ c.kind = "mutate" /\ c.served /\ outcome \in Outcomes \cup {"none"}
      /\ UNCHANGED <<route, generation, outcome>> /\ mutation \in MutationRecord
      /\ IsActive(c) <=> Changing(c)
  BY DEF FeedbackInv, OfVisits, Inv, Typed, Mutated, IsActive, Changing
<1>1. CASE ~IsActive(c)
  BY <1>0, <1>1, FeedbackReplace DEF Mutated
<1>2. CASE IsActive(c)
  <2> DEFINE m == [mutation EXCEPT !.confirming = FALSE, !.feedback = Feedbacks[c.outcome], !.mutating = c.outcome # "failed"]
  <2>1. c.outcome = outcome /\ outcome \in Outcomes /\ mutation.generation = generation /\ mutation.anime = route
    BY <1>0, <1>2 DEF FeedbackInv, OneChange, OfVisits, CallRecord
  <2>2. Feedbacks[outcome] \in {"success", "accent", "warning", "danger"} /\ (outcome = "failed" => Feedbacks[outcome] = "danger")
    BY <2>1 DEF Feedbacks, Outcomes
  <2>3. /\ m \in MutationRecord /\ m.generation = generation /\ m.anime = route /\ m.feedback = Feedbacks[outcome]
        /\ m.mutating = (outcome # "failed")
    BY <1>0, <2>1, <2>2 DEF MutationRecord
  <2>4. mutation' = m
    BY <1>2 DEF Mutated
  <2> HIDE DEF m
  <2>5. \A d \in calls \ {c} : ~Changing(d)
    BY <1>0, <1>2 DEF FeedbackInv, OneChange
  <2>6. FeedbackIsHonest'
    BY <1>0, <2>1, <2>2, <2>3, <2>4 DEF FeedbackIsHonest, Feedback, Mutating, OfThisVisit
  <2>7. CASE c.outcome = "failed"
    <3>1. calls' = calls \ {c}
      BY <1>2, <2>7 DEF Mutated
    <3> QED
      <4>1. OfVisits'
        BY <1>0, <2>3, <2>4, <3>1 DEF FeedbackInv, OfVisits, Inv, Typed
      <4>2. OneChange'
        BY <1>0, <2>5, <3>1 DEF OneChange, Changing
      <4> QED
        BY <2>6, <4>1, <4>2
  <2>8. CASE c.outcome # "failed"
    <3>1. Ask(calls \ {c}, "refresh", Nothing) /\ "refresh" \in Kinds /\ Nothing \in Versioned /\ route' \in Animes /\ generation' \in Nat
      BY <1>0, <1>2, <2>8 DEF Mutated, Kinds, Versioned, FeedbackInv, Inv, Typed
    <3>2. PICK n \in CallRecord : /\ calls' = (calls \ {c}) \cup {n} /\ n.kind = "refresh" /\ ~n.served
                                 /\ n.anime = route' /\ n.generation = generation'
      BY <3>1, Asked DEF FeedbackInv, Inv
    <3>3. OfVisits'
      BY <1>0, <2>3, <2>4, <3>1, <3>2 DEF FeedbackInv, OfVisits
    <3>4. OneChange'
      BY <1>0, <2>1, <2>3, <2>4, <2>5, <2>8, <3>2 DEF OneChange, Changing
    <3> QED
      BY <2>6, <3>3, <3>4
  <2> QED
    BY <2>7, <2>8
<1> QED
  BY <1>1, <1>2

LEMMA FeedbackRefreshed ==
  ASSUME FeedbackInv, NEW c \in calls, Refreshed(c)
  PROVE  OfVisits' /\ OneChange' /\ FeedbackIsHonest'
<1>0. /\ c.kind = "refresh" /\ outcome \in Outcomes \cup {"none"} /\ calls' = calls \ {c}
      /\ UNCHANGED <<route, generation, outcome>> /\ mutation \in MutationRecord
      /\ IsActive(c) <=> Changing(c)
  BY DEF FeedbackInv, OfVisits, Refreshed, IsActive, Changing
<1>1. CASE ~IsActive(c)
  BY <1>0, <1>1, FeedbackReplace DEF Refreshed
<1>2. CASE IsActive(c)
  <2> DEFINE m == [mutation EXCEPT !.mutating = FALSE, !.feedback = IF c.version = Nothing THEN "warning" ELSE @]
  <2>1. /\ m \in MutationRecord /\ m.generation = mutation.generation /\ m.anime = mutation.anime
        /\ m.feedback \in {"warning", mutation.feedback}
    BY <1>0 DEF MutationRecord
  <2>2. mutation' = m
    BY <1>2 DEF Refreshed
  <2> HIDE DEF m
  <2>3. outcome \in Outcomes \ {"failed"} /\ mutation.feedback = Feedbacks[outcome]
    BY <1>0, <1>2 DEF FeedbackInv, OneChange
  <2>4. OfVisits'
    BY <1>0, <2>1, <2>2 DEF FeedbackInv, OfVisits
  <2>5. \A d \in calls \ {c} : ~Changing(d)
    BY <1>0, <1>2 DEF FeedbackInv, OneChange
  <2>6. OneChange'
    BY <1>0, <2>5 DEF OneChange, Changing
  <2>7. FeedbackIsHonest'
    BY <1>0, <2>1, <2>2, <2>3 DEF FeedbackIsHonest, Feedback, OfThisVisit, Outcomes
  <2> QED
    BY <2>4, <2>6, <2>7
<1> QED
  BY <1>1, <1>2

LEMMA FeedbackVisit ==
  ASSUME FeedbackInv, NEW a \in Animes, Visit(a)
  PROVE  OfVisits' /\ OneChange' /\ FeedbackIsHonest'
<1> DEFINE R == {Cleaned(c) : c \in calls}
<1>1. /\ Ask(R, "load", Nothing) /\ route' = a /\ generation' = generation + 1 /\ outcome' = "none" /\ UNCHANGED mutation
  BY DEF Visit, Cleaned
<1>2. generation \in Nat /\ route' \in Animes /\ generation' \in Nat /\ "load" \in Kinds /\ Nothing \in Versioned
  BY <1>1 DEF FeedbackInv, Inv, Typed, Kinds, Versioned
<1>3. \A r \in R : r.generation \in Nat /\ r.generation <= generation
  BY CleanedCall DEF FeedbackInv, Inv, Typed, OfVisits, CallRecord
<1> HIDE DEF R
<1>4. PICK n \in CallRecord : calls' = R \cup {n} /\ n.kind = "load" /\ n.anime = route' /\ n.generation = generation'
  BY <1>1, <1>2, Asked DEF FeedbackInv, Inv
<1>5. mutation.generation \in Nat /\ mutation.generation <= generation /\ mutation \in MutationRecord
  BY DEF FeedbackInv, OfVisits, MutationRecord
<1>6. OfVisits'
  BY <1>1, <1>2, <1>3, <1>4, <1>5 DEF OfVisits
<1>7. OneChange'
  BY <1>1, <1>2, <1>3, <1>4 DEF OneChange, Changing
<1>8. FeedbackIsHonest'
  BY <1>1, <1>2, <1>5 DEF FeedbackIsHonest, Feedback, OfThisVisit
<1> QED
  BY <1>6, <1>7, <1>8

LEMMA FeedbackConfirm ==
  ASSUME FeedbackInv, ConfirmAction
  PROVE  OfVisits' /\ OneChange' /\ FeedbackIsHonest'
<1> DEFINE m == [mutation EXCEPT !.feedback = "none", !.mutating = TRUE]
<1>1. VisibleVersion \in Versioned /\ "mutate" \in Kinds /\ mutation \in MutationRecord /\ generation \in Nat /\ route \in Animes
  BY DEF FeedbackInv, OfVisits, Inv, Typed, Snapshot, VisibleVersion, Versioned, Kinds
<1>2. m \in MutationRecord /\ m.generation = mutation.generation /\ m.anime = mutation.anime /\ m.mutating = TRUE /\ m.feedback = "none"
  BY <1>1 DEF MutationRecord
<1>3. mutation' = m /\ OfThisVisit /\ ~Mutating /\ UNCHANGED <<route, generation, outcome>> /\ Ask(calls, "mutate", VisibleVersion)
  BY DEF ConfirmAction, Confirming
<1> HIDE DEF m
<1>4. PICK n \in CallRecord : calls' = calls \cup {n} /\ n.kind = "mutate" /\ ~n.served /\ n.anime = route' /\ n.generation = generation'
  BY <1>1, <1>3, Asked DEF FeedbackInv, Inv
<1>5. OfVisits'
  BY <1>1, <1>2, <1>3, <1>4 DEF FeedbackInv, OfVisits
<1>6. \A c \in calls : ~Changing(c)
  BY <1>3 DEF FeedbackInv, OneChange, Mutating, OfThisVisit
<1>7. OneChange'
  BY <1>2, <1>3, <1>4, <1>6 DEF OneChange, Changing, OfThisVisit
<1>8. FeedbackIsHonest'
  BY <1>2, <1>3 DEF FeedbackIsHonest, Feedback
<1> QED
  BY <1>5, <1>7, <1>8

LEMMA FeedbackDialog ==
  ASSUME FeedbackInv, RequestAction \/ CancelAction
  PROVE  OfVisits' /\ OneChange' /\ FeedbackIsHonest'
<1>0. /\ UNCHANGED <<route, generation, outcome, calls>> /\ mutation \in MutationRecord /\ generation \in Nat /\ route \in Animes
      /\ ~Mutating
  BY DEF RequestAction, CancelAction, FeedbackInv, OfVisits, Inv, Typed
<1>1. \A c \in calls : ~Changing(c)
  BY <1>0 DEF FeedbackInv, OfVisits, OneChange, Mutating, OfThisVisit
<1>2. /\ mutation' \in MutationRecord /\ mutation'.generation <= generation
      /\ mutation'.generation = generation => mutation'.anime = route
      /\ mutation'.feedback = "none" \/ (mutation'.feedback = mutation.feedback /\ OfThisVisit)
  <2> DEFINE m == [NoMutation(route, generation) EXCEPT !.confirming = TRUE]
             k == [mutation EXCEPT !.confirming = FALSE]
  <2>1. m \in MutationRecord /\ m.generation = generation /\ m.anime = route /\ m.feedback = "none"
    BY <1>0 DEF NoMutation, MutationRecord
  <2>2. k \in MutationRecord /\ k.generation = mutation.generation /\ k.anime = mutation.anime /\ k.feedback = mutation.feedback
    BY <1>0 DEF MutationRecord
  <2>3. mutation' = m \/ (mutation' = k /\ OfThisVisit)
    BY DEF RequestAction, CancelAction, Confirming
  <2> HIDE DEF m, k
  <2> QED
    BY <1>0, <2>1, <2>2, <2>3 DEF FeedbackInv, OfVisits
<1>3. OfVisits'
  BY <1>0, <1>2 DEF FeedbackInv, OfVisits
<1>4. OneChange'
  BY <1>0, <1>1 DEF OneChange, Changing
<1>5. FeedbackIsHonest'
  BY <1>0, <1>2 DEF FeedbackInv, FeedbackIsHonest, Feedback, Mutating, OfThisVisit
<1> QED
  BY <1>3, <1>4, <1>5

LEMMA FeedbackStep == FeedbackInv /\ [Next]_vars => FeedbackInv'
<1> SUFFICES ASSUME FeedbackInv, [Next]_vars PROVE OfVisits' /\ OneChange' /\ FeedbackIsHonest'
  BY StepInv DEF FeedbackInv
<1>1. CASE UNCHANGED <<route, generation, mutation, outcome, calls>>
  BY <1>1, FeedbackSame DEF FeedbackInv, OfVisits, OneChange, Changing
<1>2. CASE Answer
  BY <1>2, FeedbackServe, FeedbackMutated, FeedbackRefreshed DEF Answer
<1>3. CASE ConfirmAction
  BY <1>3, FeedbackConfirm
<1>4. CASE RequestAction \/ CancelAction
  BY <1>4, FeedbackDialog
<1>5. ASSUME NEW a \in Animes, Visit(a) PROVE OfVisits' /\ OneChange' /\ FeedbackIsHonest'
  BY <1>5, FeedbackVisit
<1>6. ASSUME NEW a \in Animes, OtherWrite(a) PROVE OfVisits' /\ OneChange' /\ FeedbackIsHonest'
  BY <1>1, <1>6 DEF OtherWrite
<1> QED
  BY <1>1, <1>2, <1>3, <1>4, <1>5, <1>6 DEF Next, vars

\* The alert after Repeat or Restore tells what the store decided on the change this
\* visit confirmed last, however visits, answers and reloads cross
\* (useAnimeDetailMutation's route generation).
THEOREM PageFeedbackIsHonest == Spec => []FeedbackIsHonest
<1>1. FeedbackInv => FeedbackIsHonest
  BY DEF FeedbackInv
<1> QED
  BY <1>1, FeedbackInit, FeedbackStep, PTL DEF Spec

-----------------------------------------------------------------------------
(* The bounds of the page's types: versions and visits stay below theirs,    *)
(* and tickets count from one.                                               *)

BoundsAssumption == MaxVisits \in Nat /\ MaxVersion \in Nat \ {0}

WithinBounds ==
  /\ generation <= MaxVisits /\ \A a \in Animes : stored[a] <= MaxVersion
  /\ \A c \in calls : 1 <= c.ticket

PageInv == FeedbackInv /\ WithinBounds

LEMMA PageInit == BoundsAssumption /\ Init => PageInv
<1> SUFFICES ASSUME BoundsAssumption, Init PROVE WithinBounds
  BY FeedbackInit DEF PageInv
<1>1. generation = 0 /\ \A a \in Animes : stored[a] = 1
  BY DEF Init
<1>2. \A c \in calls : c.ticket = 1
  BY DEF Init
<1> QED
  BY <1>1, <1>2 DEF WithinBounds, BoundsAssumption

\* A call keeps its ticket, and a new one has the next.
LEMMA TicketsCount ==
  ASSUME FeedbackInv, WithinBounds, Next
  PROVE  \A c \in calls' : 1 <= c.ticket
<1>1. /\ made \in Nat /\ generation \in Nat /\ route \in Animes /\ "refresh" \in Kinds /\ "load" \in Kinds
      /\ "mutate" \in Kinds /\ Nothing \in Versioned /\ VisibleVersion \in Versioned /\ Typed
  BY DEF FeedbackInv, Inv, Typed, Kinds, Versioned, VisibleVersion, Snapshot
<1>2. \A c \in calls : c \in CallRecord
  BY <1>1 DEF Typed
<1>3. ASSUME NEW R, NEW kind \in Kinds, NEW base \in Versioned, Ask(R, kind, base), route' \in Animes,
             generation' \in Nat, \A r \in R : 1 <= r.ticket
      PROVE  \A c \in calls' : 1 <= c.ticket
  <2>1. PICK n \in CallRecord : calls' = R \cup {n} /\ n.ticket = made + 1
    BY <1>1, <1>3, Asked
  <2> QED
    BY <1>1, <1>3, <2>1
<1>4. ASSUME NEW c \in calls, NEW n, n.ticket = c.ticket, calls' = (calls \ {c}) \cup {n}
      PROVE  \A d \in calls' : 1 <= d.ticket
  BY <1>4 DEF WithinBounds
<1>5. ASSUME NEW c \in calls, NEW ok \in BOOLEAN, ServeRead(c, ok) PROVE \A d \in calls' : 1 <= d.ticket
  <2>1. PICK v : v = IF ok THEN stored[c.anime] ELSE Nothing
    OBVIOUS
  <2>2. calls' = (calls \ {c}) \cup {Answered(c, v)}
    BY <1>5, <2>1 DEF ServeRead, Answered
  <2>3. Answered(c, v).ticket = c.ticket
    BY <1>2 DEF Answered, CallRecord
  <2> QED
    BY <1>4, <2>2, <2>3
<1>6. ASSUME NEW c \in calls, NEW o \in Outcomes, ServeMutation(c, o) PROVE \A d \in calls' : 1 <= d.ticket
  <2>1. calls' = (calls \ {c}) \cup {Decided(c, o)}
    BY <1>6 DEF ServeMutation, Decided
  <2>2. Decided(c, o).ticket = c.ticket
    BY <1>2 DEF Decided, CallRecord
  <2> QED
    BY <1>4, <2>1, <2>2
<1>7. ASSUME NEW c \in calls, Loaded(c) \/ Mutated(c) \/ Refreshed(c) PROVE \A d \in calls' : 1 <= d.ticket
  <2>1. \A d \in calls \ {c} : 1 <= d.ticket
    BY DEF WithinBounds
  <2>2. CASE calls' = calls \ {c}
    BY <2>1, <2>2
  <2>3. CASE Ask(calls \ {c}, "refresh", Nothing) /\ UNCHANGED <<route, generation>>
    BY <1>1, <1>3, <2>1, <2>3
  <2> QED
    BY <1>7, <2>2, <2>3 DEF Loaded, Mutated, Refreshed
<1>8. ASSUME NEW a \in Animes, Visit(a) PROVE \A d \in calls' : 1 <= d.ticket
  <2>1. PICK R : R = {Cleaned(c) : c \in calls}
    OBVIOUS
  <2>2. \A r \in R : 1 <= r.ticket
    BY <1>2, <2>1 DEF Cleaned, CallRecord, WithinBounds
  <2>3. Ask(R, "load", Nothing) /\ route' \in Animes /\ generation' \in Nat
    BY <1>1, <1>8, <2>1 DEF Visit, Cleaned
  <2> QED
    BY <1>1, <1>3, <2>2, <2>3
<1>9. CASE ConfirmAction
  <2>1. Ask(calls, "mutate", VisibleVersion) /\ UNCHANGED <<route, generation>>
    BY <1>9 DEF ConfirmAction
  <2> QED
    BY <1>1, <1>3, <2>1 DEF WithinBounds
<1>10. CASE calls' = calls
  BY <1>10 DEF WithinBounds
<1>11. RequestAction \/ CancelAction \/ (\E a \in Animes : OtherWrite(a)) => calls' = calls
  BY DEF RequestAction, CancelAction, OtherWrite
<1> QED
  BY <1>5, <1>6, <1>7, <1>8, <1>9, <1>10, <1>11 DEF Next, Answer

LEMMA PageStep == BoundsAssumption /\ PageInv /\ [Next]_vars => PageInv'
<1> SUFFICES ASSUME BoundsAssumption, FeedbackInv, WithinBounds, [Next]_vars PROVE WithinBounds'
  BY FeedbackStep DEF PageInv
<1>1. MaxVisits \in Nat /\ MaxVersion \in Nat /\ generation \in Nat /\ stored \in [Animes -> Nat]
  BY DEF BoundsAssumption, FeedbackInv, Inv, Typed
<1>2. CASE UNCHANGED vars
  BY <1>2 DEF vars, WithinBounds
<1>3. CASE Next
  <2>1. generation' <= MaxVisits
    <3>1. ASSUME NEW a \in Animes, Visit(a) PROVE generation' = generation + 1 /\ generation < MaxVisits
      BY <3>1 DEF Visit
    <3>2. CASE UNCHANGED generation
      BY <3>2 DEF WithinBounds
    <3>3. UNCHANGED generation \/ \E a \in Animes : Visit(a)
      BY <1>3 DEF Next, Answer, ServeRead, ServeMutation, Loaded, Mutated, Refreshed, RequestAction,
        CancelAction, ConfirmAction, OtherWrite
    <3> QED
      BY <1>1, <3>1, <3>2, <3>3
  <2>2. \/ UNCHANGED stored
        \/ \E a \in Animes : stored[a] < MaxVersion /\ stored' = [stored EXCEPT ![a] = stored[a] + 1]
    <3>1. ASSUME NEW c \in calls, NEW o \in Outcomes, ServeMutation(c, o), ~(UNCHANGED stored)
          PROVE  \E a \in Animes : stored[a] < MaxVersion /\ stored' = [stored EXCEPT ![a] = stored[a] + 1]
      <4>1. c.anime \in Animes
        BY DEF FeedbackInv, Inv, Typed, CallRecord
      <4> QED
        BY <3>1, <4>1 DEF ServeMutation
    <3>2. ASSUME NEW a \in Animes, OtherWrite(a) PROVE stored[a] < MaxVersion /\ stored' = [stored EXCEPT ![a] = stored[a] + 1]
      BY <3>2 DEF OtherWrite
    <3> QED
      BY <1>3, <3>1, <3>2 DEF Next, Answer, ServeRead, Loaded, Mutated, Refreshed, RequestAction, CancelAction,
        ConfirmAction, Visit
  <2>3. \A a \in Animes : stored'[a] <= MaxVersion
    BY <1>1, <2>2 DEF WithinBounds
  <2> QED
    BY <1>3, <2>1, <2>3, TicketsCount DEF WithinBounds
<1> QED
  BY <1>2, <1>3

LEMMA PageTypes == BoundsAssumption /\ PageInv => TypeOK
<1> SUFFICES ASSUME BoundsAssumption, FeedbackInv, WithinBounds PROVE TypeOK
  BY DEF PageInv
<1>1. /\ MaxVisits \in Nat /\ MaxVersion \in Nat /\ generation \in Nat /\ generation <= MaxVisits
      /\ stored \in [Animes -> Nat] /\ route \in Animes /\ made \in Nat /\ outcome \in Outcomes \cup {"none"}
  BY DEF BoundsAssumption, FeedbackInv, Inv, Typed, OfVisits, WithinBounds
<1>2. \A a \in Animes : stored[a] \in 1..MaxVersion
  BY <1>1 DEF FeedbackInv, Inv, StoredFromOne, WithinBounds
<1>3. snapshot = Nothing \/ snapshot \in [anime : Animes, version : Versions \cup {Nothing}]
  <2>1. ASSUME snapshot # Nothing PROVE snapshot.version \in Versions \cup {Nothing}
    <3>1. snapshot.anime \in Animes /\ (snapshot.version = Nothing \/ snapshot.version \in 1..stored[snapshot.anime])
      BY <2>1 DEF FeedbackInv, Inv, Typed, HeldWasStored, Stored, Snapshot
    <3>2. stored[snapshot.anime] \in 1..MaxVersion
      BY <1>2, <3>1
    <3> QED
      BY <1>1, <3>1, <3>2 DEF Versions
  <2> QED
    BY <2>1 DEF FeedbackInv, Inv, Typed, Snapshot
<1>4. mutation \in [anime : Animes, generation : 0..MaxVisits, confirming : BOOLEAN, mutating : BOOLEAN,
                    feedback : {"none", "success", "accent", "warning", "danger"}]
  <2>1. mutation \in MutationRecord /\ mutation.generation <= generation
    BY DEF FeedbackInv, OfVisits
  <2>2. mutation.generation \in 0..MaxVisits
    BY <1>1, <2>1 DEF MutationRecord
  <2> QED
    BY <2>1, <2>2 DEF MutationRecord
<1>5. ASSUME NEW c \in calls
      PROVE  c.kind \in {"load", "mutate", "refresh"} /\ c.ticket \in 1..made /\ c.generation <= generation
  BY <1>1 DEF FeedbackInv, Inv, Typed, OwnTickets, OfVisits, CallRecord, Kinds, WithinBounds
<1> QED
  BY <1>1, <1>2, <1>3, <1>4, <1>5 DEF TypeOK, Versions

\* The page's state is of its types: versions and visits within their bounds, and every
\* call with a ticket that was given out, of a visit that took place.
THEOREM PageIsTyped == ASSUME BoundsAssumption PROVE Spec => []TypeOK
BY PageInit, PageStep, PageTypes, PTL DEF Spec

-----------------------------------------------------------------------------
(* Each step is one that ConfirmedChange allows, or changes nothing it sees *)

LEMMA PromisedIs ==
  /\ Promised(calls) = {[ticket |-> c.ticket, anime |-> c.anime, base |-> c.base] : c \in {d \in calls : d.kind = "mutate" /\ ~d.served}}
  /\ Promised(calls') = {[ticket |-> c.ticket, anime |-> c.anime, base |-> c.base] : c \in {d \in calls' : d.kind = "mutate" /\ ~d.served}}
BY DEF Promised, Change, Open

LEMMA InPromised ==
  ASSUME NEW S, NEW p
  PROVE  p \in Promised(S) <=> \E c \in S : Open(c) /\ p = Change(c)
BY DEF Promised

\* What is shown was stored.
LEMMA VisibleWasStored ==
  ASSUME Inv
  PROVE  Stored(route, VisibleVersion)
BY DEF Inv, HeldWasStored, VisibleVersion, Stored

LEMMA VisibleWasStoredNext ==
  ASSUME Inv'
  PROVE  VisibleVersion' = Nothing \/ VisibleVersion' \in 1..stored'[route']
BY DEF Inv, HeldWasStored, VisibleVersion, Stored

\* The calls that are left or added are not changes that wait for the store.
LEMMA SamePromises ==
  ASSUME NEW S, NEW T, \A c \in S : Open(c) => \E d \in T : Open(d) /\ Change(d) = Change(c),
         \A d \in T : Open(d) => \E c \in S : Open(c) /\ Change(c) = Change(d)
  PROVE  Promised(S) = Promised(T)
<1>1. ASSUME NEW p PROVE p \in Promised(S) <=> p \in Promised(T)
  BY InPromised
<1> QED
  BY <1>1

LEMMA GonePromises ==
  ASSUME Inv, NEW c \in calls, ~Open(c), calls' = calls \ {c}
  PROVE  Promised(calls') = Promised(calls)
BY SamePromises

LEMMA AskedPromises ==
  ASSUME Inv, NEW R, NEW kind \in Kinds, kind # "mutate", Ask(R, kind, Nothing),
         route' \in Animes, generation' \in Nat
  PROVE  Promised(calls') = Promised(R)
<1>1. PICK n \in CallRecord : calls' = R \cup {n} /\ n.kind = kind
  <2>1. Nothing \in Versioned
    BY DEF Versioned
  <2> QED
    BY <2>1, Asked DEF Inv
<1>2. ~Open(n)
  BY <1>1 DEF Open
<1> QED
  BY <1>1, <1>2, SamePromises

LEMMA VisitKeeps ==
  ASSUME Inv, Inv', NEW a \in Animes, Visit(a)
  PROVE  Promise!Visit
<1> DEFINE R == {Cleaned(c) : c \in calls}
<1>1. /\ Ask(R, "load", Nothing) /\ route' = a /\ generation' = generation + 1 /\ UNCHANGED stored
  BY DEF Visit, Cleaned
<1>2. \A c \in calls : c \in CallRecord
  BY DEF Inv, Typed
<1>3. \A c \in calls : Change(Cleaned(c)) = Change(c) /\ (Open(Cleaned(c)) <=> Open(c))
  BY <1>2, CleanedCall DEF Open
<1>4. Promised(R) = Promised(calls)
  BY <1>3, SamePromises
<1> HIDE DEF R
<1>5. Promised(calls') = Promised(R)
  <2>1. "load" \in Kinds /\ route' \in Animes /\ generation' \in Nat
    BY <1>1 DEF Kinds, Inv, Typed
  <2> QED
    BY <1>1, <2>1, AskedPromises
<1>6. Promised(calls') = Promised(calls)
  BY <1>4, <1>5
<1>7. VisibleVersion' = Nothing \/ VisibleVersion' \in 1..stored[a]
  BY <1>1, VisibleWasStoredNext
<1> QED
  BY <1>1, <1>6, <1>7, PromisedIs DEF Promise!Visit, Promise!WasStored

\* A step that shows something else, or nothing else.
LEMMA ShowKeeps ==
  ASSUME Inv, Inv', UNCHANGED <<stored, route>>, Promised(calls') = Promised(calls)
  PROVE  Promise!Show
<1>1. VisibleVersion' = Nothing \/ VisibleVersion' \in 1..stored[route]
  BY VisibleWasStoredNext
<1> QED
  BY <1>1, PromisedIs DEF Promise!Show, Promise!WasStored

LEMMA ConfirmKeeps ==
  ASSUME Inv, Inv', ConfirmAction
  PROVE  Promise!Confirm
<1>1. VisibleVersion \in Versioned /\ VisibleVersion # Nothing
  BY DEF Inv, Typed, Snapshot, VisibleVersion, Versioned, ConfirmAction
<1>2. PICK n \in CallRecord :
        /\ calls' = calls \cup {n} /\ n.ticket = made + 1 /\ n.kind = "mutate" /\ ~n.served
        /\ n.anime = route' /\ n.base = VisibleVersion
  <2>1. "mutate" \in Kinds /\ Ask(calls, "mutate", VisibleVersion) /\ route' \in Animes /\ generation' \in Nat
    BY DEF Kinds, ConfirmAction, Inv, Typed
  <2> QED
    BY <1>1, <2>1, Asked DEF Inv
<1>3. UNCHANGED <<stored, route, VisibleVersion>>
  BY DEF ConfirmAction, VisibleVersion
<1>4. Open(n) /\ Change(n).anime = route /\ Change(n).base = VisibleVersion /\ Change(n).ticket = made + 1
  BY <1>2, <1>3 DEF Open, Change
<1>5. Change(n) \notin Promised(calls)
  <2> SUFFICES ASSUME NEW c \in calls, Change(n) = Change(c) PROVE FALSE
    BY InPromised
  <2>1. c.ticket = made + 1
    BY <1>4 DEF Change
  <2>2. c.ticket \in Nat /\ c.ticket <= made /\ made \in Nat
    BY DEF Inv, Typed, OwnTickets, CallRecord
  <2> QED
    BY <2>1, <2>2
<1>6. Promised(calls') = Promised(calls) \cup {Change(n)}
  <2>1. ASSUME NEW p PROVE p \in Promised(calls') <=> p \in Promised(calls) \cup {Change(n)}
    BY <1>2, <1>4, InPromised
  <2> QED
    BY <2>1
<1>7. Change(n) \in Promised(calls') \ Promised(calls)
  BY <1>5, <1>6
<1> QED
  BY <1>1, <1>3, <1>4, <1>6, <1>7, PromisedIs DEF Promise!Confirm

LEMMA DecideKeeps ==
  ASSUME Inv, NEW c \in calls, NEW o \in Outcomes, ServeMutation(c, o)
  PROVE  Promise!Decide
<1> DEFINE d == Decided(c, o)
<1>1. c \in CallRecord /\ Open(c)
  BY DEF Inv, Typed, ServeMutation, Open
<1>2. calls' = (calls \ {c}) \cup {d}
  BY DEF ServeMutation, Decided
<1>3. ~Open(d)
  BY <1>1, DecidedCall DEF Open
<1> HIDE DEF d
<1>4. Promised(calls') = Promised(calls) \ {Change(c)}
  <2>1. ASSUME NEW p PROVE p \in Promised(calls') <=> p \in Promised(calls) \ {Change(c)}
    <3>1. p \in Promised(calls') <=> \E e \in calls \ {c} : Open(e) /\ p = Change(e)
      BY <1>2, <1>3, InPromised
    <3>2. \A e \in calls : Change(e) = Change(c) => e = c
      BY ChangesDiffer
    <3> QED
      BY <1>1, <3>1, <3>2, InPromised
  <2> QED
    BY <2>1
<1>5. Change(c) \in Promised(calls) /\ Change(c).anime = c.anime /\ Change(c).base = c.base
  BY <1>1, InPromised DEF Change
<1>6. UNCHANGED <<route, VisibleVersion>>
  BY DEF ServeMutation, VisibleVersion
<1>7. \/ stored[c.anime] = c.base /\ stored' = [stored EXCEPT ![c.anime] = stored[c.anime] + 1]
      \/ UNCHANGED stored
  BY DEF ServeMutation
<1>8. PICK p \in Promised(calls) : p = Change(c)
  BY <1>5
<1>9. \/ stored[p.anime] = p.base /\ stored' = [stored EXCEPT ![p.anime] = stored[p.anime] + 1]
      \/ UNCHANGED stored
  BY <1>5, <1>7, <1>8
<1>10. Promised(calls') = Promised(calls) \ {p}
  BY <1>4, <1>8
<1> QED
  BY <1>6, <1>9, <1>10, PromisedIs DEF Promise!Decide

LEMMA InitMaps == Init => Promise!Init
<1> SUFFICES ASSUME Init PROVE Promise!Init
  OBVIOUS
<1>1. \A c \in calls : ~Open(c)
  BY DEF Init, Open
<1>2. Promised(calls) = {}
  BY <1>1, InPromised
<1>3. VisibleVersion = Nothing /\ route \in Animes /\ stored \in [Animes -> {1}]
  BY DEF Init, VisibleVersion
<1> QED
  BY <1>2, <1>3, PromisedIs DEF Promise!Init

LEMMA AnswerMaps ==
  ASSUME Inv, Inv', Answer
  PROVE  Promise!Show \/ Promise!Decide
<1>1. PICK c \in calls :
        \/ \E ok \in BOOLEAN : ServeRead(c, ok)
        \/ \E o \in Outcomes : ServeMutation(c, o)
        \/ Loaded(c) \/ Mutated(c) \/ Refreshed(c)
  BY DEF Answer
<1>2. c \in CallRecord
  BY DEF Inv, Typed
<1>3. CASE \E o \in Outcomes : ServeMutation(c, o)
  BY <1>3, DecideKeeps
<1>4. CASE \E ok \in BOOLEAN : ServeRead(c, ok)
  <2>1. PICK ok \in BOOLEAN : ServeRead(c, ok)
    BY <1>4
  <2>2. ~Open(c) /\ UNCHANGED <<stored, route>>
    BY <2>1 DEF ServeRead, Open
  <2>3. PICK v \in Versioned : calls' = (calls \ {c}) \cup {Answered(c, v)}
    <3>1. stored[c.anime] \in Nat
      BY <1>2 DEF CallRecord, Inv, Typed
    <3> DEFINE v == IF ok THEN stored[c.anime] ELSE Nothing
    <3>2. v \in Versioned
      BY <3>1 DEF Versioned
    <3>3. calls' = (calls \ {c}) \cup {Answered(c, v)}
      BY <2>1 DEF ServeRead, Answered
    <3> QED
      BY <3>2, <3>3
  <2>4. ~Open(Answered(c, v))
    BY <1>2, <2>2, AnsweredCall DEF Open
  <2>5. Promised(calls') = Promised(calls)
    BY <2>2, <2>3, <2>4, SamePromises
  <2> QED
    BY <2>2, <2>5, ShowKeeps
<1>5. CASE Loaded(c) \/ Refreshed(c)
  <2>1. ~Open(c) /\ calls' = calls \ {c} /\ UNCHANGED <<stored, route>>
    BY <1>5 DEF Loaded, Refreshed, Open
  <2> QED
    BY <2>1, GonePromises, ShowKeeps
<1>6. CASE Mutated(c)
  <2>1. ~Open(c) /\ UNCHANGED <<stored, route, generation>>
    BY <1>6 DEF Mutated, Open
  <2>2. Promised(calls \ {c}) = Promised(calls)
    BY <2>1, SamePromises
  <2>3. CASE calls' = calls \ {c}
    BY <2>1, <2>2, <2>3, ShowKeeps
  <2>4. CASE Ask(calls \ {c}, "refresh", Nothing)
    <3>1. "refresh" \in Kinds /\ route' \in Animes /\ generation' \in Nat
      BY <2>1 DEF Kinds, Inv, Typed
    <3>2. Promised(calls') = Promised(calls \ {c})
      BY <2>4, <3>1, AskedPromises
    <3> QED
      BY <2>1, <2>2, <3>2, ShowKeeps
  <2> QED
    BY <1>6, <2>3, <2>4 DEF Mutated
<1> QED
  BY <1>1, <1>3, <1>4, <1>5, <1>6

LEMMA NextMaps ==
  ASSUME Inv, Inv', Next
  PROVE  Promise!Next
<1>1. CASE Answer
  BY <1>1, AnswerMaps DEF Promise!Next
<1>2. CASE ConfirmAction
  BY <1>2, ConfirmKeeps DEF Promise!Next
<1>3. CASE \E a \in Animes : Visit(a)
  BY <1>3, VisitKeeps DEF Promise!Next
<1>4. CASE \E a \in Animes : OtherWrite(a)
  <2>1. PICK a \in Animes : OtherWrite(a)
    BY <1>4
  <2>2. /\ stored' = [stored EXCEPT ![a] = stored[a] + 1] /\ UNCHANGED <<route, VisibleVersion>>
        /\ Promised(calls') = Promised(calls)
    BY <2>1 DEF OtherWrite, VisibleVersion
  <2>3. Promise!OtherWrite
    BY <2>2, PromisedIs DEF Promise!OtherWrite
  <2> QED
    BY <2>3 DEF Promise!Next
<1>5. CASE RequestAction \/ CancelAction
  <2>1. UNCHANGED <<stored, route>> /\ Promised(calls') = Promised(calls)
    BY <1>5 DEF RequestAction, CancelAction
  <2>2. Promise!Show
    BY <2>1, ShowKeeps
  <2> QED
    BY <2>2 DEF Promise!Next
<1> QED
  BY <1>1, <1>2, <1>3, <1>4, <1>5 DEF Next

LEMMA StepMaps == Inv /\ Inv' /\ [Next]_vars => [Promise!Next]_(Promise!vars)
<1>1. UNCHANGED vars => UNCHANGED Promise!vars
  BY PromisedIs DEF vars, Promise!vars, VisibleVersion
<1> QED
  BY <1>1, NextMaps

\* For any number of animes, visits, calls and writers, the page of an anime
\* implements ConfirmedChange: it shows versions of the anime on the route that
\* were stored, and Repeat or Restore changes an anime only while it is the version
\* shown on confirming (useAnimeDetailMutation, RepeatAnimeWithResult).
THEOREM PageKeepsItsPromise == Spec => KeepsItsPromise
<1>1. Spec => Init /\ [][Next]_vars
  BY PTL DEF Spec
<1> QED
  BY <1>1, InitInv, StepInv, InitMaps, StepMaps, PTL DEF KeepsItsPromise, Promise!Spec

=============================================================================
