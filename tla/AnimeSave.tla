----------------------------- MODULE AnimeSave -----------------------------
(***************************************************************************)
(* The anime save: every write of an anime is one SQLite write transaction *)
(* (AnimeSaveStore.CommitSave) that decides each item against the stored   *)
(* snapshot, applies the season rule, upserts the snapshot under a new     *)
(* modified_at token and inserts the changelog row phones read.            *)
(*                                                                         *)
(* The bridge database has one connection and a save takes the write lock  *)
(* with BEGIN IMMEDIATE, so a transaction is one action here, and a crash  *)
(* leaves it whole or undone.  What interleaves is the rest: the base a    *)
(* client read any number of saves ago, a wall clock that may repeat a     *)
(* millisecond or step back, rows written later than the change they       *)
(* announce, and prunes.  What a handler does once the transaction is      *)
(* closed (events, conflict rows) is not in this module.                   *)
(***************************************************************************)
EXTENDS Integers, FiniteSets

CONSTANTS
  Animes,       \* anime ids
  Names,        \* folded names: two names with one name_key are one name
  Progress,     \* numbers of watched episodes
  NoSnapshot,   \* no row in anime_snapshots; also the bare {"id":...} base
  NoBase,       \* a write that carries no OCC base
  MaxNow,       \* bound: wall-clock readings are 1..MaxNow
  MaxEvents,    \* bound: applied changes in one behaviour
  MaxRows       \* bound: changelog ids handed out in one behaviour

VerHoy == "Ver hoy"
Visto  == "Visto"

Snapshots  == [name: Names, days: {VerHoy, Visto}, episodesWatched: Progress]
SavedFields == {"name", "days", "episodesWatched"}
LateFields  == {"episodes", "season"}
Times       == 1..MaxNow

ASSUME BoundsAssumption == MaxNow \in Nat /\ MaxEvents \in Nat /\ MaxRows \in Nat
ASSUME SentinelAssumption == NoSnapshot \notin Snapshots /\ NoBase \notin Nat
ASSUME ProgressAssumption == Progress \subseteq Nat /\ 0 \in Progress
ASSUME AnimesFinite == IsFiniteSet(Animes)

VARIABLES
  stored,     \* anime_snapshots.snapshot_json
  token,      \* anime_snapshots.modified_at; 0 when there is no row
  changelog,  \* the changelog rows still stored
  lastRowId,  \* the AUTOINCREMENT sequence of the changelog
  shown,      \* history: the timestamp of the last row each anime was given
  events,     \* event ids handed out
  head,       \* history: the event whose save wrote the stored snapshot
  versions    \* history: every version an anime has had, and what it replaced

vars == <<stored, token, changelog, lastRowId, shown, events, head, versions>>

-----------------------------------------------------------------------------
(* Records                                                                 *)

Content   == Snapshots \cup {NoSnapshot}

\* A changelog row.  event is the source_event_id, 0 for a row no save wrote;
\* asOf is history: the event whose save wrote the snapshot the row carries.
Row == [id: Nat, anime: Animes, changeType: {"create", "update"},
        fields: SUBSET (SavedFields \cup LateFields), snapshot: Snapshots,
        event: Nat, changedAt: Nat, asOf: Nat]

\* over is the version this one replaced, basedOn the one its writer had read.
Version == [anime: Animes, event: Nat, token: Nat, snapshot: Content,
            over: Nat, basedOn: Nat \cup {NoBase}]

RowsOf(a) == {r \in changelog : r.anime = a}
IsLastRow(r) == \A q \in RowsOf(r.anime) : q.id <= r.id
VersionsOf(a) == {v \in versions : v.anime = a}

-----------------------------------------------------------------------------
(* What a save computes                                                    *)

\* The season rule: an anime the open season created leaves "Ver hoy" once an
\* episode is watched.
WatchedSection(seasonCreated, a, s) ==
  IF s.days = VerHoy /\ s.episodesWatched >= 1 /\ a \in seasonCreated
  THEN [s EXCEPT !.days = Visto]
  ELSE s

\* The top-level fields in which two snapshots differ; against a bare base
\* that is every field.
ChangedFields(base, desired) ==
  {f \in SavedFields : base = NoSnapshot \/ base[f] # desired[f]}

\* Mutants: the stamps without the raise past the held token.
StampSingleWallClock(now, held) == now
StampBatchWallClock(now, held, index) == now + index

StampSingle(now, held) == IF now <= held THEN held + 1 ELSE now

StampBatch(now, held, index) ==
  IF now + index <= held THEN held + index ELSE now + index

\* Mutant: the timestamp is not raised past the anime's last row.
StampAsRead(a, at, stamp) == stamp = at

\* stamp is at, raised to one past the anime's last stored row when at does
\* not pass it.
PastLastRow(a, at, stamp) ==
  \/ /\ \A r \in RowsOf(a) : r.changedAt < at
     /\ stamp = at
  \/ \E r \in RowsOf(a) :
       /\ \A q \in RowsOf(a) : q.changedAt <= r.changedAt
       /\ at <= r.changedAt
       /\ stamp = r.changedAt + 1

Stamps(at) == {at} \cup {r.changedAt + 1 : r \in changelog}

\* The unique index on name_key holds after every upsert of the batch, in the
\* order of its items; final is what each item stores.
NamesStayUnique(item, final) ==
  \A i \in 1..Cardinality(DOMAIN item) :
    LET held(a) == IF a \in DOMAIN item /\ item[a].rank <= i
                   THEN final[a] ELSE stored[a]
    IN  \A a, b \in Animes :
          a # b /\ held(a) # NoSnapshot /\ held(b) # NoSnapshot
            => held(a).name # held(b).name

\* The positions of a batch's items.
Ranks(S) == {f \in [S -> 1..Cardinality(S)] : \A a, b \in S : a # b => f[a] # f[b]}

-----------------------------------------------------------------------------
(* The save transaction                                                    *)

\* item[a] is one item of the save: the position of a in the batch, the base its
\* decision read, the version that base is, the snapshot it wants and the token
\* it stamped.  final[a] is what the save stores, after the rule.
EventOf(item, a) == events + item[a].rank

Logged(item, final) ==
  {a \in DOMAIN item : ChangedFields(item[a].base, final[a]) # {}}

\* Mutant: the changed fields are derived before the season rule runs.
RowBeforeRule(item, final, a, id, stamp) ==
  [id |-> id, anime |-> a,
   changeType |-> IF stored[a] = NoSnapshot THEN "create" ELSE "update",
   fields |-> ChangedFields(item[a].base, item[a].desired), snapshot |-> final[a],
   event |-> EventOf(item, a), changedAt |-> stamp, asOf |-> EventOf(item, a)]

RowFor(item, final, a, id, stamp) ==
  [id |-> id, anime |-> a,
   changeType |-> IF stored[a] = NoSnapshot THEN "create" ELSE "update",
   fields |-> ChangedFields(item[a].base, final[a]), snapshot |-> final[a],
   event |-> EventOf(item, a), changedAt |-> stamp, asOf |-> EventOf(item, a)]

VersionFor(item, final, a) ==
  [anime |-> a, event |-> EventOf(item, a), token |-> item[a].token,
   snapshot |-> final[a], over |-> head[a], basedOn |-> item[a].basedOn]

\* One row per item that changed a field, in the order of the batch.
InsertRows(item, final) ==
  LET logged == Logged(item, final)
  IN  /\ lastRowId' = lastRowId + Cardinality(logged)
      /\ \E id \in [logged -> (lastRowId + 1)..lastRowId'], at \in Times :
           /\ \A a, b \in logged : item[a].rank < item[b].rank => id[a] < id[b]
           /\ \E stamp \in [logged -> Stamps(at)] :
                /\ \A a \in logged : PastLastRow(a, at, stamp[a])
                /\ changelog' = changelog \cup
                     {RowFor(item, final, a, id[a], stamp[a]) : a \in logged}
                /\ shown' = [a \in Animes |-> IF a \in logged THEN stamp[a] ELSE shown[a]]

UpsertAll(item, final) ==
  /\ stored' = [a \in Animes |-> IF a \in DOMAIN item THEN final[a] ELSE stored[a]]
  /\ token'  = [a \in Animes |-> IF a \in DOMAIN item THEN item[a].token ELSE token[a]]
  /\ head'   = [a \in Animes |-> IF a \in DOMAIN item THEN EventOf(item, a) ELSE head[a]]
  /\ versions' = versions \cup {VersionFor(item, final, a) : a \in DOMAIN item}
  /\ events' = events + Cardinality(DOMAIN item)

\* CommitSave with every item decided "applied".  The rule reads the season
\* inside the transaction; seasons change freely between saves, so it reads any.
CommitSave(item) ==
  \E seasonCreated \in SUBSET DOMAIN item :
    LET final == [a \in DOMAIN item |->
                   WatchedSection(seasonCreated, a, item[a].desired)]
    IN  /\ events + Cardinality(DOMAIN item) <= MaxEvents
        /\ lastRowId + Cardinality(Logged(item, final)) <= MaxRows
        /\ NamesStayUnique(item, final)
        /\ UpsertAll(item, final)
        /\ InsertRows(item, final)

One(a, base, basedOn, desired, tok) ==
  [b \in {a} |-> [rank |-> 1, base |-> base, basedOn |-> basedOn,
                  desired |-> desired, token |-> tok]]

\* Mutant: the base is not compared with the stored token.
SaveOverAnyBase(a, desired) ==
  /\ desired # stored[a]
  /\ \E now \in Times, v \in VersionsOf(a) :
       CommitSave(One(a, stored[a], v.event, desired, StampSingle(now, token[a])))

\* Gateway.Update and UpdateRaw (patch, editor save, deactivation): the base is
\* the token of a version the client once read, or absent.  A desired snapshot
\* equal to the stored one is a no-op and changes nothing.
SaveOne(a, desired) ==
  /\ desired # stored[a]
  /\ \E now \in Times, v \in VersionsOf(a), carriesBase \in BOOLEAN :
       /\ carriesBase => v.token = token[a]
       /\ ~carriesBase => v.event = head[a]
       /\ CommitSave(One(a, stored[a], IF carriesBase THEN v.event ELSE NoBase,
                            desired, StampSingle(now, token[a])))

\* Gateway.Create: nothing may hold a token yet; the base is bare.
Create(a, desired) ==
  /\ token[a] = 0
  /\ \E now \in Times :
       CommitSave(One(a, NoSnapshot, NoBase, desired, StampSingle(now, 0)))

\* Mutant: a batch checks the base of its first item only.
BatchChecksFirst(S) ==
  \E base \in [S -> versions], now \in Times, rank \in Ranks(S), desired \in [S -> Snapshots] :
    /\ \A a \in S : /\ base[a].anime = a
                    /\ rank[a] = 1 => base[a].token = token[a]
    /\ CommitSave([a \in S |->
         [rank |-> rank[a], base |-> base[a].snapshot, basedOn |-> base[a].event,
          desired |-> desired[a],
          token |-> StampBatch(now, token[a], rank[a])]])

\* Gateway.ApplyBatch: every item's base must still hold the stored token, or
\* the whole batch fails.
ApplyBatch(S) ==
  \E base \in [S -> {v \in versions : v.token = token[v.anime]}] :
    /\ \A a \in S : base[a].anime = a
    /\ \E now \in Times, rank \in Ranks(S), desired \in [S -> Snapshots] :
         /\ \A a \in S : desired[a] # base[a].snapshot
         /\ CommitSave([a \in S |->
              [rank |-> rank[a], base |-> base[a].snapshot, basedOn |-> base[a].event,
               desired |-> desired[a],
               token |-> StampBatch(now, base[a].token, rank[a])]])

-----------------------------------------------------------------------------
(* What happens around it                                                  *)

\* insertPendingTx for a row no save writes.
InsertLate(a, field, snapshot) ==
  /\ lastRowId < MaxRows
  /\ lastRowId' = lastRowId + 1
  /\ \E at \in Times : \E stamp \in Stamps(at) :
       /\ PastLastRow(a, at, stamp)
       /\ changelog' = changelog \cup
            {[id |-> lastRowId + 1, anime |-> a, changeType |-> "update",
              fields |-> {field}, snapshot |-> snapshot, event |-> 0,
              changedAt |-> stamp, asOf |-> head[a]]}
       /\ shown' = [shown EXCEPT ![a] = stamp]
  /\ UNCHANGED <<stored, token, events, head, versions>>

\* Mutants: a late row of an anime that is gone, and one that carries the
\* snapshot its writer had read.
LateRowOfGoneAnime(a, field) == InsertLate(a, field, stored[a])
LateRowAsRead(a, field) ==
  /\ stored[a] # NoSnapshot
  /\ \E v \in VersionsOf(a) :
       v.snapshot # NoSnapshot /\ InsertLate(a, field, v.snapshot)

\* A row written later than the change it announces (new episode durations, a
\* changed season projection): it carries the snapshot stored by then, and an
\* anime that is gone gets none.
LateRow(a, field) ==
  /\ stored[a] # NoSnapshot
  /\ InsertLate(a, field, stored[a])

\* Mutants: the prune keeps no last row, or one last row in all.
PruneAll(k) ==
  /\ changelog' = {r \in changelog : r.id > k}
  /\ UNCHANGED <<stored, token, lastRowId, shown, events, head, versions>>
PruneKeepsOne(k) ==
  /\ changelog' = {r \in changelog : r.id > k \/ \A q \in changelog : q.id <= r.id}
  /\ UNCHANGED <<stored, token, lastRowId, shown, events, head, versions>>

\* The prune keeps the last row of each anime that still exists.  Which id it
\* prunes up to is the devices' business (module DeviceSync).
Prune(k) ==
  /\ changelog' = {r \in changelog :
                     r.id > k \/ (IsLastRow(r) /\ stored[r.anime] # NoSnapshot)}
  /\ UNCHANGED <<stored, token, lastRowId, shown, events, head, versions>>

-----------------------------------------------------------------------------
(* Specification                                                           *)

\* Rows a migration gave the modified_at column hold token 0, so does an anime
\* that has no row.
Init ==
  /\ stored \in [Animes -> Content]
  /\ \A a \in Animes : stored[a] # NoSnapshot =>
       stored[a].days = VerHoy /\ stored[a].episodesWatched = 0
  /\ \A a, b \in Animes :
       a # b /\ stored[a] # NoSnapshot /\ stored[b] # NoSnapshot
         => stored[a].name # stored[b].name
  /\ token = [a \in Animes |-> 0]
  /\ changelog = {} /\ lastRowId = 0
  /\ shown = [a \in Animes |-> 0]
  /\ events = 0
  /\ head = [a \in Animes |-> 0]
  /\ versions = {[anime |-> a, event |-> 0, token |-> 0, snapshot |-> stored[a],
                  over |-> 0, basedOn |-> NoBase] : a \in Animes}

Next ==
  \/ \E a \in Animes, desired \in Snapshots :
       SaveOne(a, desired) \/ Create(a, desired)
  \/ \E S \in (SUBSET Animes) \ {{}} : ApplyBatch(S)
  \/ \E a \in Animes, field \in LateFields : LateRow(a, field)
  \/ \E k \in 1..lastRowId : Prune(k)

Spec == Init /\ [][Next]_vars

-----------------------------------------------------------------------------
(* Properties                                                              *)

TypeOK ==
  /\ stored \in [Animes -> Content]
  /\ token \in [Animes -> Nat]
  /\ changelog \subseteq Row
  /\ lastRowId \in Nat
  /\ shown \in [Animes -> Nat]
  /\ events \in Nat
  /\ head \in [Animes -> Nat]
  /\ versions \subseteq Version

\* Optimistic concurrency: a write that carried a base replaced exactly the
\* version its writer had read, so no save in between is ever overwritten
\* unseen (Gateway.decide and decideBatchOperation compare tokens only).
NoLostUpdate ==
  \A v \in versions : v.basedOn # NoBase => v.basedOn = v.over

\* The feed of one anime is monotone: a higher id carries a higher timestamp and
\* a snapshot no older.  A phone drops a row whose timestamp does not pass the
\* last it applied, so a tie or a step back would lose the change.
FeedInOrder ==
  \A q, r \in changelog : q.anime = r.anime /\ q.id < r.id
    => q.changedAt < r.changedAt /\ q.asOf <= r.asOf

\* A new row passes the timestamp of every row its anime ever had, the pruned
\* ones included: a phone may have applied any of them, and would drop it.
RowsPassWhatPhonesSaw ==
  [][\A r \in changelog' \ changelog : shown[r.anime] < r.changedAt]_vars

\* A phone that applies an anime's whole feed holds the stored anime: the last
\* row carries the stored snapshot, also after a prune.
FeedConverges ==
  \A r \in changelog : IsLastRow(r) => r.snapshot = stored[r.anime]

\* A row names every field its save changed with respect to the version it
\* replaced, the ones the season rule moved included, and carries the snapshot
\* of the version it is about.
RowsDescribeSaves ==
  \A r \in changelog : \E v \in VersionsOf(r.anime) :
    /\ v.event = r.asOf /\ v.snapshot = r.snapshot
    /\ r.event # 0 => \A w \in VersionsOf(r.anime) : w.event = v.over =>
         /\ ChangedFields(w.snapshot, v.snapshot) \subseteq r.fields
         /\ (r.changeType = "create" <=> w.snapshot = NoSnapshot)

\* A snapshot never changes under the token a client read it with, and tokens
\* never go back, even when the clock does.
TokensGrow ==
  [][\A a \in Animes :
       /\ token[a] <= token'[a]
       /\ stored'[a] # stored[a] => token[a] < token'[a]]_vars

=============================================================================
