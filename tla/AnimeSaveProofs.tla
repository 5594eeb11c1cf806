-------------------------- MODULE AnimeSaveProofs --------------------------
(***************************************************************************)
(* Proofs about AnimeSave, for any number of animes, names, saves, rows    *)
(* and clock readings.                                                     *)
(*                                                                         *)
(* The feed's order and its agreement with the stored anime are not        *)
(* inductive alone.  Inv adds what they rest on: ids are handed out once   *)
(* and grow, a row is never about a version newer than the stored one, a   *)
(* non-empty feed has a last row (which the prune keeps), and the versions *)
(* of an anime carry strictly growing tokens up to the stored one, so an   *)
(* equal token is an equal version.                                        *)
(***************************************************************************)
EXTENDS AnimeSave, FiniteSetTheorems, TLAPS

IdsUnique ==
  /\ \A r \in changelog : r.id <= lastRowId
  /\ \A q, r \in changelog : q.id = r.id => q = r

RowsNotAhead == \A r \in changelog : r.asOf <= head[r.anime]

LastRowExists == \A r \in changelog : \E q \in RowsOf(r.anime) : IsLastRow(q)

\* The last row an anime was given is still there when any row is.
ShownIsKept ==
  \A a \in Animes :
    /\ \A r \in RowsOf(a) : r.changedAt <= shown[a]
    /\ shown[a] = 0 \/ \E r \in RowsOf(a) : r.changedAt = shown[a]

RowsHaveAnime == \A r \in changelog : stored[r.anime] # NoSnapshot

HeadIsStored ==
  \A a \in Animes :
    /\ head[a] <= events
    /\ \E v \in versions : /\ v.anime = a /\ v.event = head[a]
                           /\ v.token = token[a] /\ v.snapshot = stored[a]

VersionsInOrder ==
  /\ \A v \in versions : v.event <= head[v.anime]
  /\ \A v, w \in versions : v.anime = w.anime /\ v.event < w.event => v.token < w.token
  /\ \A v, w \in versions : v.anime = w.anime /\ v.event = w.event => v = w

Inv == /\ TypeOK
       /\ IdsUnique /\ RowsNotAhead /\ LastRowExists
       /\ ShownIsKept /\ RowsHaveAnime
       /\ HeadIsStored /\ VersionsInOrder
       /\ NoLostUpdate /\ FeedInOrder /\ FeedConverges

-----------------------------------------------------------------------------
(* The operators of a save                                                 *)

\* Two whole snapshots that differ in no field are one snapshot, so a save that
\* logs no row against a whole base stores what was stored.
LEMMA NoFieldSameSnapshot ==
  ASSUME NEW base \in Snapshots, NEW desired \in Snapshots,
         ChangedFields(base, desired) = {}
  PROVE  base = desired
<1>1. base # NoSnapshot
  BY SentinelAssumption
<1>2. base["name"] = desired["name"] /\ base["days"] = desired["days"]
      /\ base["episodesWatched"] = desired["episodesWatched"]
  BY <1>1 DEF ChangedFields, SavedFields
<1> QED
  BY <1>2 DEF Snapshots

\* Against a bare base every field changed, so a create always logs a row.
LEMMA BareBaseChangesAll ==
  ASSUME NEW desired
  PROVE  ChangedFields(NoSnapshot, desired) = SavedFields
BY DEF ChangedFields

\* The season rule stores a snapshot.
LEMMA RuleStoresSnapshot ==
  ASSUME NEW seasonCreated, NEW a, NEW s \in Snapshots
  PROVE  WatchedSection(seasonCreated, a, s) \in Snapshots
BY DEF WatchedSection, Snapshots, Visto

\* A stamp passes every row the anime already has.
LEMMA StampPassesRows ==
  ASSUME TypeOK, NEW a \in Animes, NEW at \in Times, NEW stamp \in Stamps(at),
         PastLastRow(a, at, stamp)
  PROVE  /\ stamp \in Nat /\ 0 < stamp
         /\ \A r \in RowsOf(a) : r.changedAt < stamp
<1>1. \A r \in changelog : r.changedAt \in Nat
  BY DEF TypeOK, Row
<1>2. at \in Nat /\ 0 < at
  BY BoundsAssumption DEF Times
<1> QED
  BY <1>1, <1>2 DEF Stamps, PastLastRow, RowsOf

\* A stamp passes the last row the anime was given, also when that row is gone.
LEMMA StampPassesShown ==
  ASSUME Inv, NEW a \in Animes, NEW at \in Times, NEW stamp \in Stamps(at),
         PastLastRow(a, at, stamp)
  PROVE  shown[a] < stamp
<1>1. /\ stamp \in Nat /\ 0 < stamp
      /\ \A r \in RowsOf(a) : r.changedAt < stamp
  BY StampPassesRows DEF Inv
<1>2. shown[a] = 0 \/ \E r \in RowsOf(a) : r.changedAt = shown[a]
  BY DEF Inv, ShownIsKept
<1> QED
  BY <1>1, <1>2

\* Both stamps pass the token they replace, whatever the clock says.
LEMMA StampsPassToken ==
  ASSUME NEW now \in Times, NEW held \in Nat
  PROVE  /\ StampSingle(now, held) \in Nat /\ StampSingle(now, held) > held
         /\ \A i \in Nat \ {0} : StampBatch(now, held, i) \in Nat
                                /\ StampBatch(now, held, i) > held
BY BoundsAssumption DEF Times, StampSingle, StampBatch

-----------------------------------------------------------------------------
(* What every save hands to CommitSave                                     *)

GoodItem(item) ==
  /\ DOMAIN item \subseteq Animes
  /\ \A a, b \in DOMAIN item : item[a].rank = item[b].rank => a = b
  /\ \A a \in DOMAIN item :
       /\ item[a].rank \in 1..Cardinality(DOMAIN item)
       /\ item[a].desired \in Snapshots
       /\ item[a].token \in Nat /\ item[a].token > token[a]
       /\ item[a].base \in {stored[a], NoSnapshot}
       /\ item[a].basedOn \in {head[a], NoBase}

\* An equal token is the stored version.
LEMMA EqualTokenIsHead ==
  ASSUME Inv, NEW v \in versions, v.token = token[v.anime]
  PROVE  v.event = head[v.anime] /\ v.snapshot = stored[v.anime]
<1>1. v \in Version /\ v.anime \in Animes
  BY DEF Inv, TypeOK, Version
<1>2. PICK w \in versions : /\ w.anime = v.anime /\ w.event = head[v.anime]
                            /\ w.token = token[v.anime] /\ w.snapshot = stored[v.anime]
  BY <1>1 DEF Inv, HeadIsStored
<1>3. v.event \in Nat /\ w.event \in Nat /\ v.token \in Nat
  BY <1>1 DEF Inv, TypeOK, Version
<1>4. ~(v.event < w.event) /\ v.event <= w.event
  BY <1>2, <1>3 DEF Inv, VersionsInOrder
<1> QED
  BY <1>2, <1>3, <1>4 DEF Inv, VersionsInOrder

LEMMA OneIsGood ==
  ASSUME TypeOK, NEW a \in Animes, NEW base \in {stored[a], NoSnapshot},
         NEW basedOn \in {head[a], NoBase}, NEW desired \in Snapshots,
         NEW tok \in Nat, tok > token[a]
  PROVE  GoodItem(One(a, base, basedOn, desired, tok))
<1>1. Cardinality({a}) = 1
  BY FS_Singleton
<1> QED
  BY <1>1 DEF GoodItem, One

LEMMA SavesAreGood ==
  ASSUME Inv
  PROVE  /\ \A a \in Animes, desired \in Snapshots :
              SaveOne(a, desired) \/ Create(a, desired)
                => \E item : GoodItem(item) /\ CommitSave(item)
         /\ \A S \in SUBSET Animes :
              ApplyBatch(S) => \E item : GoodItem(item) /\ CommitSave(item)
<1>1. ASSUME NEW a \in Animes, NEW desired \in Snapshots, SaveOne(a, desired)
      PROVE  \E item : GoodItem(item) /\ CommitSave(item)
  <2>1. PICK now \in Times, v \in VersionsOf(a), carriesBase \in BOOLEAN :
          /\ carriesBase => v.token = token[a]
          /\ CommitSave(One(a, stored[a], IF carriesBase THEN v.event ELSE NoBase,
                               desired, StampSingle(now, token[a])))
    BY <1>1 DEF SaveOne
  <2>2. token[a] \in Nat /\ TypeOK
    BY DEF Inv, TypeOK
  <2>3. carriesBase => v.event = head[a]
    BY <2>1, EqualTokenIsHead DEF VersionsOf
  <2>4. (IF carriesBase THEN v.event ELSE NoBase) \in {head[a], NoBase}
    BY <2>3
  <2> QED
    BY <2>1, <2>2, <2>4, OneIsGood, StampsPassToken
<1>2. ASSUME NEW a \in Animes, NEW desired \in Snapshots, Create(a, desired)
      PROVE  \E item : GoodItem(item) /\ CommitSave(item)
  <2>1. PICK now \in Times :
          CommitSave(One(a, NoSnapshot, NoBase, desired, StampSingle(now, 0)))
    BY <1>2 DEF Create
  <2>2. token[a] = 0 /\ TypeOK
    BY <1>2 DEF Inv, Create
  <2> QED
    BY <2>1, <2>2, OneIsGood, StampsPassToken
<1>3. ASSUME NEW S \in SUBSET Animes, ApplyBatch(S)
      PROVE  \E item : GoodItem(item) /\ CommitSave(item)
  <2>1. PICK base \in [S -> {v \in versions : v.token = token[v.anime]}],
             now \in Times, rank \in Ranks(S), desired \in [S -> Snapshots] :
          /\ \A a \in S : base[a].anime = a
          /\ CommitSave([a \in S |->
               [rank |-> rank[a], base |-> base[a].snapshot,
                basedOn |-> base[a].event, desired |-> desired[a],
                token |-> StampBatch(now, base[a].token, rank[a])]])
    BY <1>3 DEF ApplyBatch
  <2> DEFINE item == [a \in S |->
               [rank |-> rank[a], base |-> base[a].snapshot,
                basedOn |-> base[a].event, desired |-> desired[a],
                token |-> StampBatch(now, base[a].token, rank[a])]]
  <2>2. ASSUME NEW a \in S
        PROVE  /\ rank[a] \in 1..Cardinality(S)
               /\ base[a].snapshot = stored[a] /\ base[a].event = head[a]
               /\ StampBatch(now, base[a].token, rank[a]) \in Nat
               /\ StampBatch(now, base[a].token, rank[a]) > token[a]
    <3>1. rank[a] \in 1..Cardinality(S)
      BY DEF Ranks
    <3>2. base[a] \in versions /\ base[a].anime = a /\ base[a].token = token[a]
      BY <2>1
    <3>3. token[a] \in Nat
      BY DEF Inv, TypeOK
    <3>4. base[a].snapshot = stored[a] /\ base[a].event = head[a]
      BY <3>2, EqualTokenIsHead
    <3>5. IsFiniteSet(S) /\ Cardinality(S) \in Nat
      BY AnimesFinite, FS_Subset, FS_CardinalityType
    <3>6. rank[a] \in Nat \ {0}
      BY <3>1, <3>5
    <3> QED
      BY <3>1, <3>2, <3>3, <3>4, <3>6, StampsPassToken
  <2>3. GoodItem(item)
    BY <2>2 DEF GoodItem, Ranks
  <2> QED
    BY <2>1, <2>3
<1> QED
  BY <1>1, <1>2, <1>3

-----------------------------------------------------------------------------
(* The save transaction preserves the invariant                            *)

\* What a save does to every anime and to the feed, with the choices inside the
\* transaction made: rows holds the new rows, one per logged item.
Saved(item, final, id, stamp) ==
  LET logged == Logged(item, final)
  IN  /\ final \in [DOMAIN item -> Snapshots]
      /\ UpsertAll(item, final)
      /\ Cardinality(DOMAIN item) \in Nat
      /\ lastRowId' \in Nat /\ lastRowId <= lastRowId'
      /\ id \in [logged -> (lastRowId + 1)..lastRowId']
      /\ \A a, b \in logged : id[a] = id[b] => a = b
      /\ \A a \in logged : /\ stamp[a] \in Nat /\ shown[a] < stamp[a]
                            /\ \A r \in RowsOf(a) : r.changedAt < stamp[a]
      /\ changelog' = changelog \cup
           {RowFor(item, final, a, id[a], stamp[a]) : a \in logged}
      /\ shown' = [a \in Animes |-> IF a \in logged THEN stamp[a] ELSE shown[a]]

LEMMA CommitIsSaved ==
  ASSUME Inv, NEW item, GoodItem(item), CommitSave(item)
  PROVE  \E final, id, stamp : Saved(item, final, id, stamp)
<1>1. PICK seasonCreated \in SUBSET DOMAIN item :
        LET final == [a \in DOMAIN item |->
                       WatchedSection(seasonCreated, a, item[a].desired)]
        IN  UpsertAll(item, final) /\ InsertRows(item, final)
  BY DEF CommitSave
<1> DEFINE final == [a \in DOMAIN item |->
                      WatchedSection(seasonCreated, a, item[a].desired)]
           logged == Logged(item, final)
<1>2. final \in [DOMAIN item -> Snapshots]
  BY RuleStoresSnapshot DEF GoodItem
<1>3. DOMAIN item \in SUBSET Animes /\ logged \in SUBSET Animes
  BY DEF GoodItem, Logged
<1>4. Cardinality(DOMAIN item) \in Nat /\ Cardinality(logged) \in Nat
  BY <1>3, AnimesFinite, FS_Subset, FS_CardinalityType
<1>5. lastRowId' = lastRowId + Cardinality(logged)
  BY <1>1 DEF InsertRows
<1>6. PICK id \in [logged -> (lastRowId + 1)..lastRowId'], at \in Times :
        /\ \A a, b \in logged : item[a].rank < item[b].rank => id[a] < id[b]
        /\ \E stamp \in [logged -> Stamps(at)] :
             /\ \A a \in logged : PastLastRow(a, at, stamp[a])
             /\ changelog' = changelog \cup
                  {RowFor(item, final, a, id[a], stamp[a]) : a \in logged}
             /\ shown' = [a \in Animes |-> IF a \in logged THEN stamp[a] ELSE shown[a]]
  BY <1>1 DEF InsertRows
<1>7. PICK stamp \in [logged -> Stamps(at)] :
        /\ \A a \in logged : PastLastRow(a, at, stamp[a])
        /\ changelog' = changelog \cup
             {RowFor(item, final, a, id[a], stamp[a]) : a \in logged}
        /\ shown' = [a \in Animes |-> IF a \in logged THEN stamp[a] ELSE shown[a]]
  BY <1>6
<1>8. \A a \in logged : /\ stamp[a] \in Nat /\ shown[a] < stamp[a]
                       /\ \A r \in RowsOf(a) : r.changedAt < stamp[a]
  BY <1>3, <1>7, StampPassesRows, StampPassesShown DEF Inv
<1>9. lastRowId' \in Nat /\ lastRowId <= lastRowId'
  BY <1>4, <1>5 DEF Inv, TypeOK
<1>10. \A a, b \in logged : id[a] = id[b] => a = b
  <2> SUFFICES ASSUME NEW a \in logged, NEW b \in logged, a # b PROVE id[a] # id[b]
    OBVIOUS
  <2>1. item[a].rank \in Nat /\ item[b].rank \in Nat /\ item[a].rank # item[b].rank
    BY <1>4 DEF GoodItem, Logged
  <2>2. id[a] < id[b] \/ id[b] < id[a]
    BY <1>6, <2>1
  <2>3. id[a] \in (lastRowId + 1)..lastRowId' /\ id[b] \in (lastRowId + 1)..lastRowId'
    BY <1>6
  <2>4. lastRowId \in Nat
    BY DEF Inv, TypeOK
  <2> QED
    BY <1>9, <2>2, <2>3, <2>4
<1>11. UpsertAll(item, final)
  BY <1>1
<1> HIDE DEF final
<1>12. Saved(item, final, id, stamp)
  BY <1>2, <1>4, <1>6, <1>7, <1>8, <1>9, <1>10, <1>11 DEF Saved
<1> QED
  BY <1>12

\* Every save keeps the invariant, the bound of the batch and the clock aside.
LEMMA SavedKeepsInv ==
  ASSUME Inv, NEW item, GoodItem(item),
         NEW final, NEW id, NEW stamp, Saved(item, final, id, stamp)
  PROVE  Inv'
<1> DEFINE S      == DOMAIN item
           logged == Logged(item, final)
           new(a) == RowFor(item, final, a, id[a], stamp[a])
           ver(a) == VersionFor(item, final, a)
<1>1. /\ TypeOK /\ lastRowId \in Nat /\ events \in Nat
      /\ \A a \in Animes : token[a] \in Nat /\ head[a] \in Nat /\ head[a] <= events
      /\ \A r \in changelog : r \in Row
      /\ \A v \in versions : v \in Version
  BY DEF Inv, TypeOK, HeadIsStored
<1>2. /\ S \subseteq Animes /\ logged \subseteq S
      /\ final \in [S -> Snapshots]
      /\ Cardinality(S) \in Nat
  BY DEF GoodItem, Saved, Logged
<1>3. \A a \in S : /\ EventOf(item, a) \in Nat
                   /\ events < EventOf(item, a) /\ EventOf(item, a) <= events'
  BY <1>1, <1>2 DEF GoodItem, Saved, UpsertAll, EventOf
<1>4. \A a \in logged : /\ id[a] \in Nat /\ lastRowId < id[a] /\ id[a] <= lastRowId'
                       /\ stamp[a] \in Nat
  <2>1. \A a \in logged : id[a] \in (lastRowId + 1)..lastRowId'
    BY DEF Saved
  <2> QED
    BY <1>1, <2>1 DEF Saved
<1>5. changelog' = changelog \cup {new(a) : a \in logged}
  BY DEF Saved
<1>6. \A a \in logged : /\ new(a).anime = a /\ new(a).id = id[a]
                       /\ new(a).changedAt = stamp[a]
                       /\ new(a).snapshot = final[a] /\ new(a).asOf = EventOf(item, a)
  BY DEF RowFor
<1>7. /\ versions' = versions \cup {ver(a) : a \in S}
      /\ events' \in Nat /\ events <= events'
      /\ \A a \in Animes :
           /\ a \in S => /\ stored'[a] = final[a] /\ token'[a] = item[a].token
                        /\ head'[a] = EventOf(item, a)
           /\ a \notin S => /\ stored'[a] = stored[a] /\ token'[a] = token[a]
                           /\ head'[a] = head[a]
  BY <1>1, <1>2 DEF Saved, UpsertAll
<1>8. \A a \in S : /\ ver(a).anime = a /\ ver(a).event = EventOf(item, a)
                  /\ ver(a).token = item[a].token /\ ver(a).snapshot = final[a]
                  /\ ver(a).over = head[a] /\ ver(a).basedOn = item[a].basedOn
  BY DEF VersionFor
<1>9. \A a \in S : item[a].token \in Nat /\ token[a] < item[a].token
  BY <1>1, <1>2 DEF GoodItem
<1>10. TypeOK'
  <2>1. stored' \in [Animes -> Content] /\ token' \in [Animes -> Nat]
        /\ head' \in [Animes -> Nat]
    BY <1>1, <1>2, <1>3, <1>9 DEF Saved, UpsertAll, TypeOK, Content
  <2>2. ASSUME NEW a \in logged PROVE new(a) \in Row
    BY <1>2, <1>3, <1>4 DEF RowFor, Row, ChangedFields
  <2>3. ASSUME NEW a \in S PROVE ver(a) \in Version
    <3>1. item[a].basedOn \in Nat \cup {NoBase} /\ head[a] \in Nat
      BY <1>1, <1>2 DEF GoodItem
    <3>2. final[a] \in Content
      BY <1>2 DEF Content
    <3> QED
      BY <1>2, <1>3, <1>9, <3>1, <3>2 DEF VersionFor, Version
  <2>4. shown' \in [Animes -> Nat]
    BY <1>1, <1>4 DEF Saved, TypeOK
  <2> QED
    BY <1>1, <1>5, <1>7, <2>1, <2>2, <2>3, <2>4 DEF TypeOK, Saved
<1>11. IdsUnique'
  <2>1. \A r \in changelog : r.id \in Nat /\ r.id <= lastRowId
    BY <1>1 DEF Inv, IdsUnique, Row
  <2>2. \A r \in changelog' : r.id <= lastRowId'
    BY <1>1, <1>4, <1>5, <1>6, <2>1 DEF Saved
  <2>3. ASSUME NEW q \in changelog', NEW r \in changelog', q.id = r.id PROVE q = r
    <3>1. CASE q \in changelog /\ r \in changelog
      BY <2>3, <3>1 DEF Inv, IdsUnique
    <3>2. CASE q \notin changelog /\ r \notin changelog
      BY <1>5, <1>6, <2>3, <3>2 DEF Saved
    <3>3. CASE (q \in changelog) # (r \in changelog)
      BY <1>1, <1>4, <1>5, <1>6, <2>1, <2>3, <3>3
    <3> QED
      BY <3>1, <3>2, <3>3
  <2> QED
    BY <2>2, <2>3 DEF IdsUnique
<1>12. RowsNotAhead'
  <2>1. \A r \in changelog : r.asOf \in Nat /\ r.anime \in Animes /\ r.asOf <= head[r.anime]
    BY <1>1 DEF Inv, RowsNotAhead, Row
  <2>2. \A r \in changelog : r.asOf <= head'[r.anime]
    BY <1>1, <1>3, <1>7, <2>1
  <2> QED
    BY <1>2, <1>3, <1>5, <1>6, <1>7, <2>2 DEF RowsNotAhead
<1>13. \A r \in changelog : /\ r.id \in Nat /\ r.id <= lastRowId /\ r.anime \in Animes
                          /\ r.asOf \in Nat /\ r.asOf <= head[r.anime]
                          /\ r.changedAt \in Nat
  BY <1>1 DEF Inv, IdsUnique, RowsNotAhead, Row
\* A logged anime's new row is its last one.
<1>14. ASSUME NEW a \in logged, NEW q \in changelog', q.anime = a
       PROVE  q.id <= new(a).id
  <2>1. CASE q \in changelog
    BY <1>1, <1>4, <1>6, <1>13, <2>1
  <2>2. CASE q \notin changelog
    <3>1. PICK b \in logged : q = new(b)
      BY <1>5, <2>2
    <3>2. q = new(a)
      BY <1>6, <1>14, <3>1
    <3> QED
      BY <1>4, <1>6, <3>2
  <2> QED
    BY <2>1, <2>2
\* Any other anime's feed is as it was.
<1>15. ASSUME NEW q \in changelog', q.anime \notin logged PROVE q \in changelog
  BY <1>5, <1>6, <1>15
<1>16. LastRowExists'
  <2> SUFFICES ASSUME NEW r \in changelog'
               PROVE  \E q \in changelog' : /\ q.anime = r.anime
                        /\ \A p \in changelog' : p.anime = q.anime => p.id <= q.id
    BY DEF LastRowExists, RowsOf, IsLastRow
  <2>1. CASE r.anime \in logged
    <3>1. new(r.anime) \in changelog' /\ new(r.anime).anime = r.anime
      BY <1>5, <1>6, <2>1
    <3> QED
      BY <1>14, <2>1, <3>1
  <2>2. CASE r.anime \notin logged
    <3>1. r \in changelog
      BY <1>15, <2>2
    <3>2. PICK q \in changelog : /\ q.anime = r.anime
             /\ \A p \in changelog : p.anime = q.anime => p.id <= q.id
      BY <3>1 DEF Inv, LastRowExists, RowsOf, IsLastRow
    <3>3. q \in changelog'
      BY <1>5
    <3>4. \A p \in changelog' : p.anime = q.anime => p.id <= q.id
      BY <1>15, <2>2, <3>2
    <3> QED
      BY <3>2, <3>3, <3>4
  <2> QED
    BY <2>1, <2>2
<1>17. HeadIsStored'
  <2> SUFFICES ASSUME NEW a \in Animes
               PROVE  /\ head'[a] <= events'
                      /\ \E v \in versions' : /\ v.anime = a /\ v.event = head'[a]
                            /\ v.token = token'[a] /\ v.snapshot = stored'[a]
    BY DEF HeadIsStored
  <2>1. CASE a \in S
    <3>1. ver(a) \in versions'
      BY <1>7, <2>1
    <3> QED
      BY <1>3, <1>7, <1>8, <2>1, <3>1
  <2>2. CASE a \notin S
    <3>1. PICK v \in versions : /\ v.anime = a /\ v.event = head[a]
                                /\ v.token = token[a] /\ v.snapshot = stored[a]
      BY DEF Inv, HeadIsStored
    <3>2. v \in versions'
      BY <1>7
    <3> QED
      BY <1>1, <1>7, <2>2, <3>1, <3>2
  <2> QED
    BY <2>1, <2>2
<1>18. ASSUME NEW v \in versions
       PROVE  /\ v.anime \in Animes /\ v.event \in Nat /\ v.token \in Nat
              /\ v.event <= head[v.anime] /\ v.token <= token[v.anime]
  <2>1. v.anime \in Animes /\ v.event \in Nat /\ v.token \in Nat
    BY <1>1 DEF Version
  <2>2. v.event <= head[v.anime]
    BY DEF Inv, VersionsInOrder
  <2>3. PICK w \in versions : /\ w.anime = v.anime /\ w.event = head[v.anime]
                              /\ w.token = token[v.anime]
    BY <2>1 DEF Inv, HeadIsStored
  <2>4. v.event < w.event => v.token < w.token
    BY <2>3 DEF Inv, VersionsInOrder
  <2>5. v.event = w.event => v = w
    BY <2>3 DEF Inv, VersionsInOrder
  <2> QED
    BY <1>1, <2>1, <2>2, <2>3, <2>4, <2>5
\* Within an anime a new version is newer than every old one, in both orders.
<1>19. ASSUME NEW v \in versions, NEW a \in S, v.anime = a
       PROVE  v.event < ver(a).event /\ v.token < ver(a).token
  <2>1. v.event <= head[a] /\ v.token <= token[a] /\ v.event \in Nat /\ v.token \in Nat
    BY <1>18, <1>19
  <2>2. head[a] \in Nat /\ token[a] \in Nat /\ head[a] <= events
    BY <1>1, <1>2
  <2> QED
    BY <1>1, <1>3, <1>8, <1>9, <2>1, <2>2
<1>20. \A v \in versions' : v \in versions \/ \E a \in S : v = ver(a)
  BY <1>7
<1>21. VersionsInOrder'
  <2>1. ASSUME NEW v \in versions' PROVE v.event <= head'[v.anime]
    <3>1. CASE v \in versions
      <4>1. v.event <= head[v.anime] /\ v.event \in Nat /\ v.anime \in Animes
        BY <1>18, <3>1
      <4> QED
        BY <1>1, <1>3, <1>7, <4>1
    <3>2. CASE \E a \in S : v = ver(a)
      BY <1>2, <1>3, <1>7, <1>8, <3>2
    <3> QED
      BY <1>20, <3>1, <3>2
  <2>2. ASSUME NEW v \in versions', NEW w \in versions', v.anime = w.anime
        PROVE  /\ v.event < w.event => v.token < w.token
               /\ v.event = w.event => v = w
    <3>1. CASE v \in versions /\ w \in versions
      BY <2>2, <3>1 DEF Inv, VersionsInOrder
    <3>2. CASE v \in versions /\ \E a \in S : w = ver(a)
      <4>1. v.event < w.event /\ v.token < w.token
        BY <1>8, <1>19, <2>2, <3>2
      <4>2. v.event \in Nat
        BY <1>18, <3>2
      <4> QED
        BY <1>3, <1>8, <3>2, <4>1, <4>2
    <3>3. CASE w \in versions /\ \E a \in S : v = ver(a)
      <4>1. w.event < v.event
        BY <1>8, <1>19, <2>2, <3>3
      <4>2. w.event \in Nat /\ v.event \in Nat
        BY <1>3, <1>8, <1>18, <3>3
      <4> QED
        BY <4>1, <4>2
    <3>4. CASE (\E a \in S : v = ver(a)) /\ (\E a \in S : w = ver(a))
      <4>1. v = w
        BY <1>8, <2>2, <3>4
      <4>2. v.event \in Nat
        BY <1>3, <1>8, <3>4
      <4> QED
        BY <4>1, <4>2
    <3> QED
      BY <1>20, <3>1, <3>2, <3>3, <3>4
  <2> QED
    BY <2>1, <2>2 DEF VersionsInOrder
<1>22. NoLostUpdate'
  <2>1. \A a \in S : ver(a).basedOn # NoBase => ver(a).basedOn = ver(a).over
    BY <1>8 DEF GoodItem
  <2> QED
    BY <1>20, <2>1 DEF Inv, NoLostUpdate
<1>23. FeedInOrder'
  <2> SUFFICES ASSUME NEW q \in changelog', NEW r \in changelog',
                      q.anime = r.anime, q.id < r.id
               PROVE  q.changedAt < r.changedAt /\ q.asOf <= r.asOf
    BY DEF FeedInOrder
  <2>1. CASE q \in changelog /\ r \in changelog
    BY <2>1 DEF Inv, FeedInOrder
  <2>2. CASE q \in changelog /\ r \notin changelog
    <3>1. PICK a \in logged : r = new(a)
      BY <1>5, <2>2
    <3>2. q \in RowsOf(a)
      BY <1>6, <2>2, <3>1 DEF RowsOf
    <3>3. q.changedAt < r.changedAt
      BY <1>6, <3>1, <3>2 DEF Saved
    <3>4. q.asOf <= head[a] /\ head[a] <= events /\ head[a] \in Nat /\ q.asOf \in Nat
      BY <1>1, <1>2, <1>6, <1>13, <2>2, <3>1
    <3>5. r.asOf \in Nat /\ events < r.asOf
      BY <1>2, <1>3, <1>6, <3>1
    <3> QED
      BY <1>1, <3>3, <3>4, <3>5
  <2>3. CASE q \notin changelog
    <3>1. PICK a \in logged : q = new(a)
      BY <1>5, <2>3
    <3>2. r.anime = a
      BY <1>6, <3>1
    <3>3. r.id <= q.id
      BY <1>14, <3>1, <3>2
    <3>4. r.id \in Nat /\ q.id \in Nat
      BY <1>4, <1>5, <1>6, <1>13, <3>1
    <3> QED
      BY <3>3, <3>4
  <2> QED
    BY <2>1, <2>2, <2>3
<1>24. FeedConverges'
  <2> SUFFICES ASSUME NEW r \in changelog',
                      \A q \in changelog' : q.anime = r.anime => q.id <= r.id
               PROVE  r.snapshot = stored'[r.anime]
    BY DEF FeedConverges, RowsOf, IsLastRow
  <2>1. CASE r \notin changelog
    BY <1>2, <1>5, <1>6, <1>7, <2>1
  <2>2. CASE r \in changelog /\ r.anime \in logged
    <3>1. new(r.anime) \in changelog' /\ new(r.anime).anime = r.anime
      BY <1>5, <1>6, <2>2
    <3>2. new(r.anime).id <= r.id /\ r.id <= lastRowId /\ lastRowId < new(r.anime).id
      BY <1>4, <1>6, <1>13, <2>2, <3>1
    <3> QED
      BY <1>1, <1>4, <1>6, <1>13, <2>2, <3>2
  <2>3. CASE r \in changelog /\ r.anime \notin logged
    <3>1. \A q \in changelog : q \in changelog'
      BY <1>5
    <3>2. IsLastRow(r)
      BY <3>1 DEF IsLastRow, RowsOf
    <3>3. r.snapshot = stored[r.anime] /\ r.anime \in Animes
      BY <1>13, <2>3, <3>2 DEF Inv, FeedConverges
    <3>4. CASE r.anime \notin S
      BY <1>7, <3>3, <3>4
    <3>5. CASE r.anime \in S
      <4>1. ChangedFields(item[r.anime].base, final[r.anime]) = {}
        BY <2>3, <3>5 DEF Logged
      <4>2. item[r.anime].base # NoSnapshot
        BY <4>1, BareBaseChangesAll DEF SavedFields
      <4>3. item[r.anime].base = stored[r.anime]
        BY <3>5, <4>2 DEF GoodItem
      <4>4. stored[r.anime] \in Snapshots
        BY <1>1, <3>3, <4>2, <4>3 DEF TypeOK, Content
      <4>5. stored[r.anime] = final[r.anime]
        BY <1>2, <3>5, <4>1, <4>3, <4>4, NoFieldSameSnapshot
      <4> QED
        BY <1>7, <3>3, <3>5, <4>5
    <3> QED
      BY <3>4, <3>5
  <2> QED
    BY <2>1, <2>2, <2>3
<1>25. ShownIsKept'
  <2> SUFFICES ASSUME NEW a \in Animes
               PROVE  /\ \A r \in changelog' : r.anime = a => r.changedAt <= shown'[a]
                      /\ shown'[a] = 0 \/ \E r \in changelog' :
                                           r.anime = a /\ r.changedAt = shown'[a]
    BY DEF ShownIsKept, RowsOf
  <2>1. CASE a \in logged
    <3>1. shown'[a] = stamp[a]
      BY <2>1 DEF Saved
    <3>2. new(a) \in changelog' /\ new(a).anime = a /\ new(a).changedAt = stamp[a]
      BY <1>5, <1>6, <2>1
    <3>3. ASSUME NEW r \in changelog', r.anime = a PROVE r.changedAt <= stamp[a]
      <4>1. CASE r \in changelog
        <5>1. r.changedAt < stamp[a]
          BY <2>1, <3>3, <4>1 DEF Saved, RowsOf
        <5> QED
          BY <1>4, <1>13, <2>1, <4>1, <5>1
      <4>2. CASE r \notin changelog
        BY <1>4, <1>5, <1>6, <2>1, <3>3, <4>2
      <4> QED
        BY <4>1, <4>2
    <3> QED
      BY <3>1, <3>2, <3>3
  <2>2. CASE a \notin logged
    <3>1. shown'[a] = shown[a]
      BY <2>2 DEF Saved
    <3>2. /\ \A r \in changelog : r.anime = a => r.changedAt <= shown[a]
          /\ shown[a] = 0 \/ \E r \in changelog : r.anime = a /\ r.changedAt = shown[a]
      BY DEF Inv, ShownIsKept, RowsOf
    <3> QED
      BY <1>5, <1>15, <2>2, <3>1, <3>2
  <2> QED
    BY <2>1, <2>2
<1>26. RowsHaveAnime'
  <2> SUFFICES ASSUME NEW r \in changelog' PROVE stored'[r.anime] # NoSnapshot
    BY DEF RowsHaveAnime
  <2>1. r.anime \in Animes /\ (r.anime \notin S => r \in changelog)
    BY <1>2, <1>5, <1>6, <1>13
  <2>2. CASE r.anime \in S
    BY <1>2, <1>7, <2>1, <2>2, SentinelAssumption
  <2>3. CASE r.anime \notin S
    BY <1>7, <2>1, <2>3 DEF Inv, RowsHaveAnime
  <2> QED
    BY <2>2, <2>3
<1> QED
  BY <1>10, <1>11, <1>12, <1>16, <1>17, <1>21, <1>22, <1>23, <1>24, <1>25, <1>26 DEF Inv

-----------------------------------------------------------------------------
(* Late rows and prunes preserve the invariant                             *)

LEMMA LateRowKeepsInv ==
  ASSUME Inv, NEW a \in Animes, NEW field \in LateFields, LateRow(a, field)
  PROVE  Inv'
<1>0. PICK at \in Times : \E stamp \in Stamps(at) :
        /\ PastLastRow(a, at, stamp)
        /\ changelog' = changelog \cup
             {[id |-> lastRowId + 1, anime |-> a, changeType |-> "update",
               fields |-> {field}, snapshot |-> stored[a], event |-> 0,
               changedAt |-> stamp, asOf |-> head[a]]}
        /\ shown' = [shown EXCEPT ![a] = stamp]
  BY DEF LateRow, InsertLate
<1>1. PICK stamp \in Stamps(at) :
        /\ PastLastRow(a, at, stamp)
        /\ changelog' = changelog \cup
             {[id |-> lastRowId + 1, anime |-> a, changeType |-> "update",
               fields |-> {field}, snapshot |-> stored[a], event |-> 0,
               changedAt |-> stamp, asOf |-> head[a]]}
        /\ shown' = [shown EXCEPT ![a] = stamp]
  BY <1>0
<1> DEFINE new == [id |-> lastRowId + 1, anime |-> a, changeType |-> "update",
                   fields |-> {field}, snapshot |-> stored[a], event |-> 0,
                   changedAt |-> stamp, asOf |-> head[a]]
<1>2. /\ lastRowId \in Nat /\ lastRowId' = lastRowId + 1
      /\ stored[a] \in Snapshots /\ head[a] \in Nat
      /\ UNCHANGED <<stored, token, events, head, versions>>
  BY DEF LateRow, InsertLate, Inv, TypeOK, Content
<1>3. stamp \in Nat /\ \A r \in RowsOf(a) : r.changedAt < stamp
  BY <1>1, StampPassesRows DEF Inv
<1>4. \A r \in changelog : /\ r \in Row /\ r.id \in Nat /\ r.id <= lastRowId
                          /\ r.anime \in Animes /\ r.asOf \in Nat
                          /\ r.asOf <= head[r.anime] /\ r.changedAt \in Nat
  BY DEF Inv, TypeOK, IdsUnique, RowsNotAhead, Row
<1>5. changelog' = changelog \cup {new} /\ new \notin changelog
  BY <1>1, <1>2, <1>4
<1>6. TypeOK'
  <2>1. new \in Row
    BY <1>2, <1>3 DEF Row, LateFields, SavedFields
  <2>2. changelog' \subseteq Row
    BY <1>4, <1>5, <2>1
  <2>3. shown' \in [Animes -> Nat]
    BY <1>1, <1>3 DEF Inv, TypeOK
  <2> QED
    BY <1>2, <2>2, <2>3 DEF Inv, TypeOK
<1>7. IdsUnique'
  <2>1. new.id = lastRowId + 1
    OBVIOUS
  <2>2. ASSUME NEW q \in changelog', NEW r \in changelog', q.id = r.id PROVE q = r
    <3>1. CASE q \in changelog /\ r \in changelog
      BY <2>2, <3>1 DEF Inv, IdsUnique
    <3>2. CASE q = new \/ r = new
      BY <1>2, <1>4, <1>5, <2>1, <2>2, <3>2
    <3> QED
      BY <1>5, <3>1, <3>2
  <2> HIDE DEF new
  <2>3. \A r \in changelog' : r.id <= lastRowId'
    BY <1>2, <1>4, <1>5, <2>1
  <2> QED
    BY <2>2, <2>3 DEF IdsUnique
<1>8. RowsNotAhead'
  BY <1>2, <1>4, <1>5 DEF RowsNotAhead
<1>9. LastRowExists'
  <2> SUFFICES ASSUME NEW r \in changelog'
               PROVE  \E q \in changelog' : /\ q.anime = r.anime
                        /\ \A p \in changelog' : p.anime = q.anime => p.id <= q.id
    BY DEF LastRowExists, RowsOf, IsLastRow
  <2>1. CASE r.anime = a
    <3>1. \A p \in changelog' : p.id <= new.id
      BY <1>2, <1>4, <1>5
    <3> QED
      BY <1>5, <2>1, <3>1
  <2>2. CASE r.anime # a
    <3>1. PICK q \in changelog : /\ q.anime = r.anime
             /\ \A p \in changelog : p.anime = q.anime => p.id <= q.id
      BY <1>5, <2>2 DEF Inv, LastRowExists, RowsOf, IsLastRow
    <3> QED
      BY <1>5, <2>2, <3>1
  <2> QED
    BY <2>1, <2>2
<1>10. HeadIsStored' /\ VersionsInOrder' /\ NoLostUpdate'
  BY <1>2 DEF Inv, HeadIsStored, VersionsInOrder, NoLostUpdate
<1>11. FeedInOrder'
  <2> SUFFICES ASSUME NEW q \in changelog', NEW r \in changelog',
                      q.anime = r.anime, q.id < r.id
               PROVE  q.changedAt < r.changedAt /\ q.asOf <= r.asOf
    BY DEF FeedInOrder
  <2>1. CASE q \in changelog /\ r \in changelog
    BY <2>1 DEF Inv, FeedInOrder
  <2>2. CASE q \in changelog /\ r = new
    BY <1>3, <1>4, <2>2 DEF RowsOf
  <2>3. CASE q = new
    BY <1>2, <1>4, <1>5, <2>3
  <2> QED
    BY <1>5, <2>1, <2>2, <2>3
<1>12. FeedConverges'
  <2> SUFFICES ASSUME NEW r \in changelog',
                      \A q \in changelog' : q.anime = r.anime => q.id <= r.id
               PROVE  r.snapshot = stored[r.anime]
    BY <1>2 DEF FeedConverges, RowsOf, IsLastRow
  <2>1. CASE r = new
    BY <2>1
  <2>2. CASE r \in changelog
    BY <1>5, <2>2 DEF Inv, FeedConverges, IsLastRow, RowsOf
  <2> QED
    BY <1>5, <2>1, <2>2
<1>13. ShownIsKept'
  <2>1. shown' = [shown EXCEPT ![a] = stamp] /\ shown \in [Animes -> Nat]
    BY <1>1 DEF Inv, TypeOK
  <2> SUFFICES ASSUME NEW b \in Animes
               PROVE  /\ \A r \in changelog' : r.anime = b => r.changedAt <= shown'[b]
                      /\ shown'[b] = 0 \/ \E r \in changelog' :
                                           r.anime = b /\ r.changedAt = shown'[b]
    BY DEF ShownIsKept, RowsOf
  <2>2. CASE b = a
    <3>1. shown'[b] = stamp
      BY <2>1, <2>2
    <3>2. ASSUME NEW r \in changelog, r.anime = a PROVE r.changedAt <= stamp
      <4>1. r \in RowsOf(a)
        BY <3>2 DEF RowsOf
      <4> QED
        BY <1>3, <1>4, <4>1
    <3>3. new.changedAt = stamp /\ new.anime = a
      OBVIOUS
    <3> QED
      BY <1>3, <1>5, <2>2, <3>1, <3>2, <3>3
  <2>3. CASE b # a
    <3>1. shown'[b] = shown[b]
      BY <2>1, <2>3
    <3> QED
      BY <1>5, <2>3, <3>1 DEF Inv, ShownIsKept, RowsOf
  <2> QED
    BY <2>2, <2>3
<1>14. RowsHaveAnime'
  BY <1>2, <1>5, SentinelAssumption DEF Inv, RowsHaveAnime
<1> QED
  BY <1>6, <1>7, <1>8, <1>9, <1>10, <1>11, <1>12, <1>13, <1>14 DEF Inv

LEMMA PruneKeepsInv ==
  ASSUME Inv, NEW k \in Nat, Prune(k)
  PROVE  Inv'
<1>1. /\ changelog' = {r \in changelog :
                        r.id > k \/ (IsLastRow(r) /\ stored[r.anime] # NoSnapshot)}
      /\ UNCHANGED <<stored, token, lastRowId, shown, events, head, versions>>
  BY DEF Prune
<1>2. changelog' \subseteq changelog
  BY <1>1
\* A last row is kept whenever a row of its anime is: by its id, or as the last.
<1>3. ASSUME NEW r \in changelog', NEW q \in changelog, q.anime = r.anime, IsLastRow(q)
      PROVE  q \in changelog'
  <2>1. r \in changelog /\ r.id \in Nat /\ q.id \in Nat
    BY <1>2 DEF Inv, TypeOK, Row
  <2>2. r.id <= q.id
    BY <1>3, <2>1 DEF IsLastRow, RowsOf
  <2>3. CASE r.id > k
    BY <1>1, <2>1, <2>2, <2>3
  <2>4. CASE stored[r.anime] # NoSnapshot
    BY <1>1, <1>3, <2>4
  <2> QED
    BY <1>1, <2>3, <2>4
<1>4. TypeOK' /\ IdsUnique' /\ RowsNotAhead' /\ FeedInOrder'
  BY <1>1, <1>2 DEF Inv, TypeOK, IdsUnique, RowsNotAhead, FeedInOrder
<1>5. HeadIsStored' /\ VersionsInOrder' /\ NoLostUpdate'
  BY <1>1 DEF Inv, HeadIsStored, VersionsInOrder, NoLostUpdate
<1>6. ASSUME NEW r \in changelog'
      PROVE  \E q \in changelog' : q.anime = r.anime /\ IsLastRow(q)
  <2>1. PICK q \in changelog : q.anime = r.anime /\ IsLastRow(q)
    BY <1>2 DEF Inv, LastRowExists, RowsOf
  <2> QED
    BY <1>3, <2>1
<1>7. LastRowExists'
  BY <1>2, <1>6 DEF LastRowExists, RowsOf, IsLastRow
<1>8. FeedConverges'
  <2> SUFFICES ASSUME NEW r \in changelog',
                      \A q \in changelog' : q.anime = r.anime => q.id <= r.id
               PROVE  r.snapshot = stored[r.anime]
    BY <1>1 DEF FeedConverges, RowsOf, IsLastRow
  <2>1. PICK q \in changelog' : q.anime = r.anime /\ IsLastRow(q)
    BY <1>6
  <2>2. q.id <= r.id /\ r.id <= q.id /\ q.id \in Nat /\ r.id \in Nat
    BY <1>2, <2>1 DEF Inv, TypeOK, Row, IsLastRow, RowsOf
  <2>3. q = r
    BY <1>2, <2>2 DEF Inv, IdsUnique
  <2> QED
    BY <1>2, <2>1, <2>3 DEF Inv, FeedConverges
\* The last row by id is the last by timestamp, so it is the one shown.
<1>9. ShownIsKept'
  <2> SUFFICES ASSUME NEW a \in Animes
               PROVE  /\ \A r \in changelog' : r.anime = a => r.changedAt <= shown[a]
                      /\ shown[a] = 0 \/ \E r \in changelog' :
                                          r.anime = a /\ r.changedAt = shown[a]
    BY <1>1 DEF ShownIsKept, RowsOf
  <2>1. \A r \in changelog : r.anime = a => r.changedAt <= shown[a]
    BY DEF Inv, ShownIsKept, RowsOf
  <2>2. ASSUME shown[a] # 0
        PROVE  \E r \in changelog' : r.anime = a /\ r.changedAt = shown[a]
    <3>1. PICK r \in changelog : r.anime = a /\ r.changedAt = shown[a]
      BY <2>2 DEF Inv, ShownIsKept, RowsOf
    <3>2. PICK q \in changelog : q.anime = a /\ IsLastRow(q)
      BY <3>1 DEF Inv, LastRowExists, RowsOf
    <3>3. q \in changelog'
      BY <1>1, <3>2 DEF Inv, RowsHaveAnime
    <3>4. r.id <= q.id
      BY <3>1, <3>2 DEF IsLastRow, RowsOf
    <3>5. /\ r.id \in Nat /\ q.id \in Nat /\ r.changedAt \in Nat
          /\ q.changedAt \in Nat /\ shown[a] \in Nat
      BY DEF Inv, TypeOK, Row
    <3>6. r.id = q.id \/ r.changedAt < q.changedAt
      BY <3>1, <3>2, <3>4, <3>5 DEF Inv, FeedInOrder
    <3>7. r = q
      BY <2>1, <3>1, <3>2, <3>5, <3>6 DEF Inv, IdsUnique
    <3> QED
      BY <3>1, <3>3, <3>7
  <2> QED
    BY <1>2, <2>1, <2>2
<1>10. RowsHaveAnime'
  BY <1>1, <1>2 DEF Inv, RowsHaveAnime
<1> QED
  BY <1>4, <1>5, <1>7, <1>8, <1>9, <1>10 DEF Inv

-----------------------------------------------------------------------------
(* The theorems                                                            *)

LEMMA InitInv == Init => Inv
<1> SUFFICES ASSUME Init PROVE Inv
  OBVIOUS
<1>1. TypeOK
  BY DEF Init, TypeOK, Version
<1>2. /\ IdsUnique /\ RowsNotAhead /\ LastRowExists /\ FeedInOrder /\ FeedConverges
      /\ ShownIsKept /\ RowsHaveAnime
  BY DEF Init, ShownIsKept, RowsHaveAnime, RowsOf, IdsUnique, RowsNotAhead, LastRowExists, FeedInOrder, FeedConverges
<1>3. /\ \A v \in versions : /\ v.anime \in Animes /\ v.event = 0
                             /\ v.token = 0 /\ v.basedOn = NoBase
      /\ \A v, w \in versions : v.anime = w.anime => v = w
      /\ \A a \in Animes : head[a] = 0
      /\ events = 0
  BY DEF Init
<1>4. HeadIsStored
  <2> SUFFICES ASSUME NEW a \in Animes
               PROVE  \E v \in versions : /\ v.anime = a /\ v.event = head[a]
                            /\ v.token = token[a] /\ v.snapshot = stored[a]
    BY <1>3 DEF HeadIsStored
  <2> DEFINE v == [anime |-> a, event |-> 0, token |-> 0, snapshot |-> stored[a],
                   over |-> 0, basedOn |-> NoBase]
  <2>1. v \in versions /\ head[a] = 0 /\ token[a] = 0
    BY DEF Init
  <2> QED
    BY <2>1
<1>5. VersionsInOrder /\ NoLostUpdate
  BY <1>3 DEF VersionsInOrder, NoLostUpdate
<1> QED
  BY <1>1, <1>2, <1>4, <1>5 DEF Inv

LEMMA NextInv == Inv /\ [Next]_vars => Inv'
<1> SUFFICES ASSUME Inv, [Next]_vars PROVE Inv'
  OBVIOUS
<1>1. ASSUME NEW item, GoodItem(item), CommitSave(item) PROVE Inv'
  BY <1>1, CommitIsSaved, SavedKeepsInv
<1>2. CASE \E a \in Animes, desired \in Snapshots :
             SaveOne(a, desired) \/ Create(a, desired)
  BY <1>1, <1>2, SavesAreGood
<1>3. CASE \E S \in (SUBSET Animes) \ {{}} : ApplyBatch(S)
  BY <1>1, <1>3, SavesAreGood
<1>4. CASE \E a \in Animes, field \in LateFields : LateRow(a, field)
  BY <1>4, LateRowKeepsInv
<1>5. CASE \E k \in 1..lastRowId : Prune(k)
  <2>1. PICK k \in 1..lastRowId : Prune(k)
    BY <1>5
  <2>2. k \in Nat
    BY <2>1 DEF Inv, TypeOK
  <2> QED
    BY <2>1, <2>2, PruneKeepsInv
<1>6. CASE UNCHANGED vars
  BY <1>6 DEF vars, Inv, TypeOK, IdsUnique, RowsNotAhead, LastRowExists, HeadIsStored,
              VersionsInOrder, NoLostUpdate, FeedInOrder, FeedConverges, RowsOf,
              ShownIsKept, RowsHaveAnime,
              IsLastRow
<1> QED
  BY <1>2, <1>3, <1>4, <1>5, <1>6 DEF Next

\* Inv holds in every reachable state.
THEOREM Invariance == Spec => []Inv
<1>1. Inv /\ [Next]_vars => Inv'
  BY NextInv
<1> QED
  BY <1>1, InitInv, PTL DEF Spec

\* Every state component keeps its type.
THEOREM TypeCorrect == Spec => []TypeOK
<1>1. Inv => TypeOK
  BY DEF Inv
<1> QED
  BY <1>1, Invariance, PTL

\* A save that carried a base replaces exactly the version its writer read:
\* tokens alone are compared, and they suffice because they strictly grow.
THEOREM NoSaveIsLost == Spec => []NoLostUpdate
<1>1. Inv => NoLostUpdate
  BY DEF Inv
<1> QED
  BY <1>1, Invariance, PTL

\* For one anime the changelog only ever moves forward, whatever the clock does,
\* with late rows and prunes in between.
THEOREM FeedStaysInOrder == Spec => []FeedInOrder
<1>1. Inv => FeedInOrder
  BY DEF Inv
<1> QED
  BY <1>1, Invariance, PTL

\* A new row passes every timestamp a phone may have applied for its anime, the
\* rows a prune has removed since included.
THEOREM RowsAlwaysPass == Spec => RowsPassWhatPhonesSaw
<1> DEFINE Passes == \A r \in changelog' \ changelog : shown[r.anime] < r.changedAt
<1>1. ASSUME Inv, [Next]_vars PROVE [Passes]_vars
  <2>1. ASSUME NEW item, GoodItem(item), CommitSave(item) PROVE Passes
    <3>1. PICK final, id, stamp : Saved(item, final, id, stamp)
      BY <1>1, <2>1, CommitIsSaved
    <3>2. ASSUME NEW r \in changelog' \ changelog
          PROVE  \E a \in Logged(item, final) : r.anime = a /\ r.changedAt = stamp[a]
      BY <3>1, <3>2 DEF Saved, RowFor
    <3>3. \A a \in Logged(item, final) : shown[a] < stamp[a]
      BY <3>1 DEF Saved
    <3> QED
      BY <3>2, <3>3
  <2>2. CASE \E a \in Animes, desired \in Snapshots :
               SaveOne(a, desired) \/ Create(a, desired)
    BY <1>1, <2>1, <2>2, SavesAreGood
  <2>3. CASE \E S \in (SUBSET Animes) \ {{}} : ApplyBatch(S)
    BY <1>1, <2>1, <2>3, SavesAreGood
  <2>4. CASE \E a \in Animes, field \in LateFields : LateRow(a, field)
    <3>1. PICK a \in Animes, field \in LateFields : InsertLate(a, field, stored[a])
      BY <2>4 DEF LateRow
    <3>2. PICK at \in Times : \E stamp \in Stamps(at) :
            /\ PastLastRow(a, at, stamp)
            /\ \A r \in changelog' \ changelog : r.anime = a /\ r.changedAt = stamp
      BY <3>1 DEF InsertLate
    <3>3. PICK stamp \in Stamps(at) :
            /\ PastLastRow(a, at, stamp)
            /\ \A r \in changelog' \ changelog : r.anime = a /\ r.changedAt = stamp
      BY <3>2
    <3> QED
      BY <1>1, <3>3, StampPassesShown
  <2>5. CASE \E k \in 1..lastRowId : Prune(k)
    BY <2>5 DEF Prune
  <2> QED
    BY <1>1, <2>2, <2>3, <2>4, <2>5 DEF Next
<1> QED
  BY <1>1, Invariance, PTL DEF Spec, RowsPassWhatPhonesSaw

\* The last changelog row of an anime always carries its stored snapshot.
THEOREM FeedAgreesWithStore == Spec => []FeedConverges
<1>1. Inv => FeedConverges
  BY DEF Inv
<1> QED
  BY <1>1, Invariance, PTL

\* No step changes a snapshot under the token it was read with, or moves a
\* token back.
THEOREM TokensAlwaysGrow == Spec => TokensGrow
<1> DEFINE Grows == \A a \in Animes :
             /\ token[a] <= token'[a]
             /\ stored'[a] # stored[a] => token[a] < token'[a]
<1>1. ASSUME Inv, [Next]_vars PROVE [Grows]_vars
  <2>1. \A a \in Animes : token[a] \in Nat
    BY <1>1 DEF Inv, TypeOK
  <2>2. ASSUME NEW item, GoodItem(item), CommitSave(item) PROVE Grows
    <3>1. /\ stored' = [a \in Animes |-> stored'[a]]
          /\ token' = [a \in Animes |-> IF a \in DOMAIN item THEN item[a].token ELSE token[a]]
          /\ \A a \in Animes : a \notin DOMAIN item => stored'[a] = stored[a]
      BY <2>2 DEF CommitSave, UpsertAll
    <3> QED
      BY <2>1, <2>2, <3>1 DEF GoodItem
  <2>3. CASE \E a \in Animes, desired \in Snapshots :
               SaveOne(a, desired) \/ Create(a, desired)
    BY <1>1, <2>2, <2>3, SavesAreGood
  <2>4. CASE \E S \in (SUBSET Animes) \ {{}} : ApplyBatch(S)
    BY <1>1, <2>2, <2>4, SavesAreGood
  <2>5. CASE UNCHANGED <<stored, token>>
    BY <2>1, <2>5
  <2> QED
    BY <1>1, <2>3, <2>4, <2>5 DEF Next, LateRow, InsertLate, Prune, vars
<1> QED
  BY <1>1, Invariance, PTL DEF Spec, TokensGrow

-----------------------------------------------------------------------------
(* What a row says about its save                                          *)

\* RowsDescribeSaves is inductive next to Inv once no version claims to replace
\* one that is still to come.
OversKnown == \A v \in versions : v.over <= events

DescribesSave(r, vs) ==
  \E v \in vs :
    /\ v.anime = r.anime /\ v.event = r.asOf /\ v.snapshot = r.snapshot
    /\ r.event # 0 => \A w \in vs : w.anime = r.anime /\ w.event = v.over =>
         /\ ChangedFields(w.snapshot, v.snapshot) \subseteq r.fields
         /\ (r.changeType = "create" <=> w.snapshot = NoSnapshot)

LEMMA RowsDescribeSavesUnfolds ==
  RowsDescribeSaves <=> \A r \in changelog : DescribesSave(r, versions)
BY DEF RowsDescribeSaves, DescribesSave, VersionsOf

LEMMA SavedRowsDescribe ==
  ASSUME Inv, OversKnown, RowsDescribeSaves, NEW item, GoodItem(item),
         NEW final, NEW id, NEW stamp, Saved(item, final, id, stamp)
  PROVE  OversKnown' /\ RowsDescribeSaves'
<1> DEFINE S      == DOMAIN item
           logged == Logged(item, final)
           new(a) == RowFor(item, final, a, id[a], stamp[a])
           ver(a) == VersionFor(item, final, a)
<1>1. /\ S \subseteq Animes /\ logged \subseteq S /\ Cardinality(S) \in Nat
      /\ events \in Nat /\ events' = events + Cardinality(S)
      /\ \A a \in Animes : head[a] \in Nat /\ head[a] <= events
      /\ versions' = versions \cup {ver(a) : a \in S}
      /\ changelog' = changelog \cup {new(a) : a \in logged}
  BY DEF Inv, TypeOK, HeadIsStored, GoodItem, Saved, UpsertAll, Logged
<1>2. \A v \in versions : /\ v.event \in Nat /\ v.over \in Nat /\ v.over <= events
                         /\ v.anime \in Animes
  BY DEF Inv, TypeOK, Version, OversKnown
<1>3. \A a \in S : /\ ver(a).anime = a /\ ver(a).event = EventOf(item, a)
                  /\ ver(a).snapshot = final[a] /\ ver(a).over = head[a]
                  /\ EventOf(item, a) \in Nat /\ EventOf(item, a) > events
  BY <1>1 DEF VersionFor, GoodItem, EventOf
<1>4. OversKnown'
  <2>1. ASSUME NEW v \in versions' PROVE v.over <= events'
    <3>1. CASE v \in versions
      BY <1>1, <1>2, <3>1
    <3>2. CASE \E a \in S : v = ver(a)
      BY <1>1, <1>3, <3>2
    <3> QED
      BY <1>1, <3>1, <3>2
  <2> QED
    BY <2>1 DEF OversKnown
\* A version replaced before this save is an old one.
<1>5. ASSUME NEW w \in versions', NEW e \in Nat, e <= events, w.event = e
      PROVE  w \in versions
  BY <1>1, <1>3, <1>5
<1>6. ASSUME NEW r \in changelog PROVE DescribesSave(r, versions')
  <2>1. PICK v \in versions :
          /\ v.anime = r.anime /\ v.event = r.asOf /\ v.snapshot = r.snapshot
          /\ r.event # 0 => \A w \in versions : w.anime = r.anime /\ w.event = v.over =>
               /\ ChangedFields(w.snapshot, v.snapshot) \subseteq r.fields
               /\ (r.changeType = "create" <=> w.snapshot = NoSnapshot)
    BY RowsDescribeSavesUnfolds DEF DescribesSave
  <2>2. v \in versions'
    BY <1>1
  <2>3. \A w \in versions' : w.event = v.over => w \in versions
    BY <1>2, <1>5, <2>1
  <2> QED
    BY <2>1, <2>2, <2>3 DEF DescribesSave
<1>7. ASSUME NEW a \in logged PROVE DescribesSave(new(a), versions')
  <2>1. ver(a) \in versions'
    BY <1>1
  <2>2. ASSUME NEW w \in versions', w.anime = a, w.event = ver(a).over
        PROVE  w.snapshot = stored[a]
    <3>1. w \in versions /\ w.event = head[a]
      BY <1>1, <1>3, <1>5, <2>2
    <3>2. PICK h \in versions : h.anime = a /\ h.event = head[a] /\ h.snapshot = stored[a]
      BY <1>1 DEF Inv, HeadIsStored
    <3> QED
      BY <2>2, <3>1, <3>2 DEF Inv, VersionsInOrder
  <2>3. ChangedFields(stored[a], final[a]) \subseteq ChangedFields(item[a].base, final[a])
    <3>1. item[a].base \in {stored[a], NoSnapshot}
      BY <1>1 DEF GoodItem
    <3> QED
      BY <3>1 DEF ChangedFields
  <2>4. /\ new(a).anime = a /\ new(a).asOf = EventOf(item, a)
        /\ new(a).snapshot = final[a]
        /\ new(a).fields = ChangedFields(item[a].base, final[a])
        /\ new(a).changeType = IF stored[a] = NoSnapshot THEN "create" ELSE "update"
    BY DEF RowFor
  <2>5. new(a).changeType = "create" <=> stored[a] = NoSnapshot
    BY <2>4
  <2> HIDE DEF new, ver, logged
  <2> QED
    BY <1>1, <1>3, <2>1, <2>2, <2>3, <2>4, <2>5 DEF DescribesSave
<1>8. \A r \in changelog' : DescribesSave(r, versions')
  BY <1>1, <1>6, <1>7
<1>9. RowsDescribeSaves'
  BY <1>8 DEF RowsDescribeSaves, DescribesSave, VersionsOf
<1> QED
  BY <1>4, <1>9

\* Every stored row carries the snapshot of the version it is about, and a row a
\* save wrote names every field the save changed and whether it created.
THEOREM RowsSayWhatChanged == Spec => []RowsDescribeSaves
<1> DEFINE Described == Inv /\ OversKnown /\ RowsDescribeSaves
<1>1. Init => Described
  <2>1. Init => OversKnown /\ RowsDescribeSaves
    BY DEF Init, OversKnown, RowsDescribeSaves
  <2> QED
    BY <2>1, InitInv
<1>2. Described /\ [Next]_vars => Described'
  <2> SUFFICES ASSUME Described, [Next]_vars PROVE (OversKnown /\ RowsDescribeSaves)'
    BY NextInv
  <2>1. ASSUME NEW item, GoodItem(item), CommitSave(item)
        PROVE  (OversKnown /\ RowsDescribeSaves)'
    BY <2>1, CommitIsSaved, SavedRowsDescribe
  <2>2. CASE \E a \in Animes, desired \in Snapshots :
               SaveOne(a, desired) \/ Create(a, desired)
    BY <2>1, <2>2, SavesAreGood
  <2>3. CASE \E S \in (SUBSET Animes) \ {{}} : ApplyBatch(S)
    BY <2>1, <2>3, SavesAreGood
  <2>4. CASE \E a \in Animes, field \in LateFields : LateRow(a, field)
    <3>1. PICK a \in Animes, field \in LateFields : LateRow(a, field)
      BY <2>4
    <3>2. UNCHANGED <<events, versions>>
      BY <3>1 DEF LateRow, InsertLate
    <3>3. PICK v \in versions :
            v.anime = a /\ v.event = head[a] /\ v.snapshot = stored[a]
      BY DEF Inv, HeadIsStored
    <3>4. ASSUME NEW r \in changelog', r \notin changelog
          PROVE  /\ r.anime = a /\ r.asOf = head[a] /\ r.snapshot = stored[a]
                 /\ r.event = 0
      BY <3>1, <3>4 DEF LateRow, InsertLate
    <3>5. \A r \in changelog' : DescribesSave(r, versions)
      BY <3>3, <3>4, RowsDescribeSavesUnfolds DEF DescribesSave
    <3> QED
      BY <3>2, <3>5 DEF OversKnown, RowsDescribeSaves, DescribesSave, VersionsOf
  <2>5. CASE \E k \in 1..lastRowId : Prune(k)
    BY <2>5 DEF Prune, OversKnown, RowsDescribeSaves, VersionsOf
  <2>6. CASE UNCHANGED vars
    BY <2>6 DEF vars, OversKnown, RowsDescribeSaves, VersionsOf
  <2> QED
    BY <2>2, <2>3, <2>4, <2>5, <2>6 DEF Next
<1>3. Described => RowsDescribeSaves
  OBVIOUS
<1> QED
  BY <1>1, <1>2, <1>3, PTL DEF Spec

=============================================================================
