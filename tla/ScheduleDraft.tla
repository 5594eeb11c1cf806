---------------------------- MODULE ScheduleDraft ----------------------------
(* The schedule modal: a board of columns is read, its cards are dragged,    *)
(* duplicated, removed or parked in a staging area, and the draft is applied *)
(* as the placements of the animes that changed, which the backend merges    *)
(* into the stored columns.                                                  *)
EXTENDS Naturals, Sequences, FiniteSets, Functions, Subsequences

CONSTANTS
  Animes, Days, \* numbers: animes sort by id, days by their rank on the board
  Boards,       \* the stored placements a session starts from
  MaxCards, MaxMoves, MaxWrites \* bounds: cards on the draft, moves and applies, writes made elsewhere

VARIABLES
  placed,   \* the backend's placements: [anime, day, order]
  active,   \* animes on the board
  modified, \* modifiedAt of each anime
  board,    \* scheduleBoard: [columns, entries, modifiedAt]
  order,    \* the draft: the card keys of every container, staging included
  applying, \* isApplyingSchedule
  command,  \* the apply on its way
  made,     \* moves and applies of the user
  result    \* history: what the apply answered last made of its draft

vars == <<placed, active, modified, board, order, applying, command, made, result>>

Staging == 0
Containers == Days \cup {Staging}
Placements == [anime : Animes, day : Days, order : Nat \ {0}]
Keys == Animes \X Nat

MaxOf(S) == CHOOSE x \in S : \A y \in S : y <= x
Stamp == MaxOf({modified[a] : a \in Animes}) + 1
BoardModifiedAt == IF active = {} THEN 0 ELSE MaxOf({modified[a] : a \in active})

Precedes(r, s) == r.order < s.order \/ (r.order = s.order /\ r.anime < s.anime)
Column(slots, d) == LET column == {s \in slots : s.day = d} IN
  [i \in 1..Cardinality(column) |-> CHOOSE s \in column : Cardinality({r \in column : Precedes(r, s)}) = i - 1]
AnimesOf(slots) == [i \in DOMAIN slots |-> slots[i].anime]
Active(slots) == {s \in slots : s.anime \in active}

\* What the backend answers a read with: columns renumbered from 1.
BoardRead ==
  [columns |-> [d \in Days |-> AnimesOf(Column(Active(placed), d))],
   entries |-> [a \in active |-> modified[a]], modifiedAt |-> BoardModifiedAt]

\* The n-th card of an anime is its n-th placement, by order and then by day.
KeyAt(columns, d, i) ==
  LET a == columns[d][i]
      slots == UNION {{e} \X DOMAIN columns[e] : e \in Days}
  IN  <<a, Cardinality({p \in slots : columns[p[1]][p[2]] = a /\ (p[2] < i \/ (p[2] = i /\ p[1] < d))})>>

DraftOf(b) == [c \in Containers |->
  IF c = Staging THEN <<>> ELSE [i \in DOMAIN b.columns[c] |-> KeyAt(b.columns, c, i)]]

Cards == UNION {Range(order[c]) : c \in Containers}
CardsOf(a) == {k \in Cards : k[1] = a}
Removed(draft, keys) == [c \in Containers |-> Without(draft[c], keys)]
HasAnimeTwice(keys) == \E i, j \in DOMAIN keys : i # j /\ keys[i][1] = keys[j][1]

TypeOK ==
  /\ placed \subseteq Placements /\ active \subseteq Animes
  /\ order \in [Containers -> Seq(Keys)]
  /\ \A c, e \in Containers : \A i \in DOMAIN order[c], j \in DOMAIN order[e] :
       order[c][i] = order[e][j] => c = e /\ i = j
  /\ applying = (command # <<>>)

Init ==
  /\ placed \in Boards /\ active = Animes /\ modified = [a \in Animes |-> 0]
  /\ board = BoardRead /\ order = DraftOf(board)
  /\ applying = FALSE /\ command = <<>> /\ made = 0 /\ result = <<>>

-----------------------------------------------------------------------------
(* The draft                                                               *)

Settled ==
  /\ ~applying /\ made < MaxMoves /\ made' = made + 1
  /\ UNCHANGED <<placed, active, modified, board, applying, command, result>>

\* A projection that puts an anime twice in a column is refused as a whole.
Drag(k, c, i) ==
  /\ Settled
  /\ LET rest == Removed(order, {k})
         column == rest[c]
     IN /\ i <= Len(column) + 1
        /\ c # Staging => ~HasAnimeTwice(InsertedAt(column, i, k))
        /\ order' = [rest EXCEPT ![c] = InsertedAt(column, i, k)]

\* Mutant: the new card's key counts the anime's cards.
DuplicateByCount(a) ==
  /\ CardsOf(a) # {} /\ Cardinality(Cards) < MaxCards
  /\ order' = [order EXCEPT ![Staging] = Append(@, <<a, Cardinality(CardsOf(a))>>)]
  /\ Settled

Duplicate(a) ==
  /\ Settled /\ CardsOf(a) # {} /\ Cardinality(Cards) < MaxCards
  /\ \E n \in 0..MaxCards :
       /\ <<a, n>> \notin Cards /\ \A m \in 0..MaxCards : m < n => <<a, m>> \in Cards
       /\ order' = [order EXCEPT ![Staging] = Append(@, <<a, n>>)]

RemoveCard(k) ==
  /\ Settled /\ Cardinality(CardsOf(k[1])) > 1
  /\ order' = Removed(order, {k})

\* The modal is opened: the board is read and the draft rebuilt from it.
OpenSchedule ==
  /\ ~applying /\ board' = BoardRead /\ order' = DraftOf(board')
  /\ UNCHANGED <<placed, active, modified, applying, command, made, result>>

\* An anime leaves the board or comes back to its old place, elsewhere.
Toggle(a) ==
  /\ Stamp <= MaxWrites
  /\ active' = IF a \in active THEN active \ {a} ELSE active \cup {a}
  /\ modified' = [modified EXCEPT ![a] = Stamp]
  /\ UNCHANGED <<placed, board, order, applying, command, made, result>>

-----------------------------------------------------------------------------
(* The payload                                                             *)

\* Mutant: places count from zero.
PlacesFromZero(draft, a) ==
  {<<q[1], q[2] - 1>> : q \in {p \in Days \X (1..MaxCards) : p[2] \in DOMAIN draft[p[1]] /\ draft[p[1]][p[2]][1] = a}}

\* A card's place is its index in its column, whoever else is on it.
PlacesIn(draft, a) ==
  UNION {LET keys == draft[d] IN {<<d, i>> : i \in {j \in DOMAIN keys : keys[j][1] = a}} : d \in Days}
Staged == Range(order[Staging])
StagedAnimes == {k[1] : k \in Staged}

ApplyEntries ==
  LET before == Removed(DraftOf(board), Staged)
      changed == {a \in DOMAIN board.entries :
                    /\ PlacesIn(before, a) # PlacesIn(order, a)
                    /\ PlacesIn(order, a) = {} => a \notin StagedAnimes}
  IN  [entries |-> [a \in changed |-> board.entries[a]],
       places |-> UNION {{[anime |-> a, day |-> p[1], order |-> p[2]] : p \in PlacesIn(order, a)} : a \in changed},
       modifiedAt |-> board.modifiedAt, draft |-> order]

Apply ==
  /\ ~applying /\ made <= MaxMoves /\ made' = made + 1
  /\ LET entries == ApplyEntries IN DOMAIN entries.entries # {} /\ command' = entries
  /\ applying' = TRUE
  /\ UNCHANGED <<placed, active, modified, board, order, result>>

-----------------------------------------------------------------------------
(* The backend                                                             *)

Changed(c) == DOMAIN c.entries
Desired(c) == {s \in Active(placed) : s.anime \notin Changed(c)} \cup c.places
Submitted(c) == {s.day : s \in c.places}
Affected(c) == Submitted(c) \cup {s.day : s \in {t \in Active(placed) : t.anime \in Changed(c)}}
Collides(slots, d) == \E r, s \in {t \in slots : t.day = d} : r # s /\ r.order = s.order
Reflowed(c) == LET desired == Desired(c) IN {d \in Affected(c) : d \notin Submitted(c) \/ Collides(desired, d)}

\* Mutant: moved cards go in one place too low.
InsertionsBelow(stay, moved) ==
  LET merged[n \in 0..Len(moved)] ==
        IF n = 0 THEN stay
        ELSE LET last == Len(merged[n - 1]) + 1
             IN  InsertedAt(merged[n - 1], IF moved[n].order < last THEN moved[n].order + 1 ELSE last, moved[n])
  IN  merged

\* The column after each insertion of a moved card at its index, or at the end.
Insertions(stay, moved) ==
  LET merged[n \in 0..Len(moved)] ==
        IF n = 0 THEN stay
        ELSE LET last == Len(merged[n - 1]) + 1
             IN  InsertedAt(merged[n - 1], IF moved[n].order < last THEN moved[n].order ELSE last, moved[n])
  IN  merged

\* Cards that stay keep their relative order.
Merged(c, d) ==
  LET stay == Column({s \in Desired(c) : s.anime \notin Changed(c)}, d)
      moved == Column(c.places, d)
  IN  Insertions(stay, moved)[Len(moved)]

Normalized(c) ==
  LET reflowed == Reflowed(c)
      Of(column, d) == {[anime |-> column[i].anime, day |-> d, order |-> i] : i \in DOMAIN column}
  IN {s \in Desired(c) : s.day \notin reflowed} \cup UNION {Of(Merged(c, d), d) : d \in reflowed}

IsContiguous(slots) == {s.order : s \in slots} = 1..Cardinality(slots)

\* after: the board the command would make.
Refused(c, after) ==
  \/ ~(Changed(c) \subseteq active)
  \/ \E d \in Affected(c) : ~IsContiguous({s \in after : s.day = d})

IsStale(c) == c.modifiedAt # BoardModifiedAt \/ \E a \in Changed(c) : c.entries[a] # modified[a]

\* Every answer brings the board as it is now, and the draft starts again from it.
Answer ==
  /\ applying /\ applying' = FALSE /\ command' = <<>> /\ UNCHANGED <<active, made>>
  /\ LET after == Normalized(command)
         touched == {a \in active : {s \in after : s.anime = a} # {s \in placed : s.anime = a}}
         outcome == IF Refused(command, after) THEN "error" ELSE IF IsStale(command) THEN "conflict" ELSE "applied"
     IN /\ IF outcome = "applied"
           THEN /\ placed' = after \cup {s \in placed : s.anime \notin active}
                /\ modified' = [a \in Animes |-> IF a \in touched THEN Stamp ELSE modified[a]]
           ELSE UNCHANGED <<placed, modified>>
        /\ board' = BoardRead' /\ order' = DraftOf(board')
        /\ result' = [outcome |-> outcome, draft |-> command.draft, before |-> board, entries |-> Changed(command),
                      fresh |-> ~IsStale(command) /\ DOMAIN board.entries = active,
                      gaps |-> \E d \in Days : ~IsContiguous({s \in Active(placed) : s.day = d}),
                      active |-> active, after |-> board'.columns]

\* The binding fails: the draft stays.
AnswerThrown ==
  /\ applying /\ applying' = FALSE /\ command' = <<>>
  /\ UNCHANGED <<placed, active, modified, board, order, made, result>>

Answered == AnswerThrown \/ Answer

Next ==
  \/ \E k \in Cards, c \in Containers, i \in 1..MaxCards : Drag(k, c, i)
  \/ \E k \in Cards : RemoveCard(k)
  \/ \E a \in Animes : Duplicate(a) \/ Toggle(a)
  \/ OpenSchedule \/ Apply \/ Answered

Fairness == WF_vars(Answered)
Spec == Init /\ [][Next]_vars /\ Fairness

-----------------------------------------------------------------------------
Applied == result # <<>> /\ result.outcome = "applied"
NothingParked == result.draft[Staging] = <<>>
\* What the draft showed of a column, but for animes that left the board since.
Seen(d) == Without([i \in DOMAIN result.draft[d] |-> result.draft[d][i][1]], Animes \ result.active)
KeptParked(d) == {a \in Range(result.before.columns[d]) \cap result.active :
                    a \notin result.entries /\ a \in {k[1] : k \in Range(result.draft[Staging])}}

\* What is stored is what the user saw: the columns, and their order when no card
\* was parked and no anime left the board since it was read (the stamp of the board
\* is of its active animes, so the apply is not stale, and where orders had gaps or ties
\* cards that stay may end on the other side of the moved ones).  A parked card
\* keeps its old column unless another placement of its anime changed, which
\* replaces all of them.
AppliedIsTheDraft ==
  Applied =>
    /\ NothingParked /\ result.fresh => \A d \in Days : result.after[d] = Seen(d)
    /\ \A d \in Days : Range(result.after[d]) = Range(Seen(d)) \cup KeptParked(d)

\* A draft of the board as it is gets applied, unless a card is parked or a stored
\* column had gaps, which a read does not show.
DraftsAreTaken ==
  result # <<>> /\ result.fresh /\ ~result.gaps /\ NothingParked => result.outcome = "applied"

=============================================================================
