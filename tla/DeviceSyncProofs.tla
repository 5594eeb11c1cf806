-------------------------- MODULE DeviceSyncProofs --------------------------
(***************************************************************************)
(* Proofs about DeviceSync, for any number of phones, animes, concurrent   *)
(* requests and changelog rows.                                            *)
(*                                                                         *)
(* Inv adds what the properties rest on: ids and cursors stay within the   *)
(* sequence, the last row of an anime is stored and is the newest of that  *)
(* anime, a request carries no more than its phone holds, exactly that     *)
(* while the phone waits for it, a phone waits for one request at a time,  *)
(* and a delete about to run reaches no row that an active phone is owed.  *)
(***************************************************************************)
EXTENDS DeviceSync, WellFoundedInduction, TLAPS

Within ==
  /\ \A q \in changelog : q.id <= lastRowId
  /\ \A d \in Devices : cursor[d] <= lastRowId

LastRowsStored ==
  \A a \in Animes : lastRow[a] # 0 =>
    /\ a \in existing
    /\ [id |-> lastRow[a], anime |-> a] \in changelog
    /\ \A q \in changelog : q.anime = a => q.id <= lastRow[a]

RequestsAreHeld ==
  \A r \in Running :
    /\ request[r].cursor <= cursor[request[r].device]
    /\ request[r].awaited => request[r].cursor = cursor[request[r].device]
    /\ request[r].at = "respond" =>
         request[r].cursor <= request[r].last /\ request[r].last <= lastRowId

OneAwaited ==
  \A r, q \in Running :
    request[r].awaited /\ request[q].awaited /\ request[r].device = request[q].device => r = q

PrunesAreOwedNothing ==
  \A r \in Running : request[r].at = "prune" =>
    /\ request[r].upTo <= lastRowId
    /\ \A d \in Active : \A id \in owed[d] : id > ack[d] => id > request[r].upTo

Feed == Within /\ LastRowsStored
Waiting == RequestsAreHeld /\ OneAwaited
Owing == OwedRowsKept /\ PrunesAreOwedNothing

Inv == TypeOK /\ Feed /\ Waiting /\ AcksAreHeld /\ Owing

-----------------------------------------------------------------------------
(* Numbers                                                                 *)

Precedes == {p \in Nat \X Nat : p[1] < p[2]}

LEMMA PrecedesIsLess == Precedes = OpToRel(<, Nat)
BY Zenon DEF Precedes, OpToRel

LEMMA NoneBelow ==
  ASSUME NEW m \in Nat, NEW n \in Nat, <<n, m>> \notin Precedes
  PROVE  m <= n
<1>1. <<n, m>> \in Nat \X Nat /\ <<n, m>>[1] = n /\ <<n, m>>[2] = m
  OBVIOUS
<1>2. ~(n < m)
  BY <1>1, Zenon DEF Precedes
<1> QED
  BY <1>2

\* A set of naturals that is not empty has a least element.
LEMMA HasLeast ==
  ASSUME NEW S \in SUBSET Nat, S # {}
  PROVE  \E n \in S : \A m \in S : n <= m
<1>1. \E n \in S : \A m \in S : <<m, n>> \notin OpToRel(<, Nat)
  BY NatLessThanWellFounded, WFMin, Zenon
<1>2. PICK n \in S : \A m \in S : <<m, n>> \notin Precedes
  BY <1>1, PrecedesIsLess, Zenon
<1> QED
  BY <1>2, NoneBelow

LEMMA LeastOf ==
  ASSUME NEW S \in SUBSET Nat, S # {}
  PROVE  Min(S) \in S /\ \A x \in S : Min(S) <= x
BY HasLeast DEF Min

\* A bounded one has a greatest element.
LEMMA GreatestOf ==
  ASSUME NEW S \in SUBSET Nat, S # {}, NEW b \in Nat, \A x \in S : x <= b
  PROVE  Max(S) \in S /\ \A x \in S : x <= Max(S)
<1> DEFINE T == {n \in Nat : \E x \in S : n = b - x}
<1>a. PICK x \in S : TRUE
  OBVIOUS
<1>b. b - x \in Nat
  BY <1>a
<1>1. T \in SUBSET Nat /\ T # {}
  BY <1>a, <1>b
<1>2. PICK n \in T : \A m \in T : n <= m
  BY <1>1, HasLeast
<1>3. PICK y \in S : n = b - y
  BY <1>2
<1>4. ASSUME NEW z \in S PROVE z <= y
  <2>1. b - z \in Nat
    OBVIOUS
  <2>2. b - z \in T
    BY <2>1
  <2>3. n <= b - z
    BY <1>2, <2>2
  <2> QED
    BY <1>3, <2>3
<1> QED
  BY <1>3, <1>4 DEF Max

\* Of an acknowledged position and a new one the greater is kept.
LEMMA GreaterOfTwo ==
  ASSUME NEW m \in Nat, NEW n \in Nat
  PROVE  /\ Max({m, n}) \in {m, n}
         /\ m <= Max({m, n}) /\ n <= Max({m, n})
<1>1. {m, n} \in SUBSET Nat /\ {m, n} # {} /\ \A x \in {m, n} : x <= m + n /\ m + n \in Nat
  OBVIOUS
<1> QED
  BY <1>1, GreatestOf

-----------------------------------------------------------------------------
(* A request goes on                                                       *)

Steps == {"acknowledge", "readAcks", "prune", "list", "readLast", "respond"}

LEMMA RunningIsRequest ==
  ASSUME TypeOK, NEW r \in Running
  PROVE  r \in Requests /\ request[r] \in Request /\ request[r] # Idle
BY DEF TypeOK, Running

LEMMA RequestFields ==
  ASSUME NEW m \in Request
  PROVE  /\ m.device \in Devices /\ m.cursor \in Nat /\ m.upTo \in Nat
         /\ m.rows \in SUBSET Nat /\ m.last \in Nat
BY DEF Request

Moved(m, step, upTo, rows, last) ==
  [m EXCEPT !.at = step, !.upTo = upTo, !.rows = rows, !.last = last]

LEMMA RequestMoves ==
  ASSUME NEW m \in Request, NEW step \in Steps, NEW upTo \in Nat,
         NEW rows \in SUBSET Nat, NEW last \in Nat
  PROVE  LET n == Moved(m, step, upTo, rows, last)
         IN  /\ n \in Request
             /\ n.device = m.device /\ n.cursor = m.cursor /\ n.awaited = m.awaited
             /\ n.at = step /\ n.upTo = upTo /\ n.rows = rows /\ n.last = last
BY DEF Request, Steps, Moved

\* What a step of request r does to the requests: r alone moves, or is done.
Went(r, step, upTo, rows, last) ==
  /\ request' \in [Requests -> Request \cup {Idle}]
  /\ \A q \in Requests \ {r} : request'[q] = request[q]
  /\ \/ request'[r] = Idle /\ step = "list"
     \/ /\ request'[r] \in Request
        /\ request'[r].device = request[r].device
        /\ request'[r].cursor = request[r].cursor
        /\ request'[r].awaited = request[r].awaited
        /\ request'[r].at = step /\ request'[r].upTo = upTo
        /\ request'[r].rows = rows /\ request'[r].last = last

LEMMA GoesTo ==
  ASSUME TypeOK, NEW r \in Running, NEW step \in Steps, NEW upTo \in Nat,
         NEW rows \in SUBSET Nat, NEW last \in Nat, GoTo(r, step, upTo, rows, last)
  PROVE  Went(r, step, upTo, rows, last)
<1> DEFINE n == Moved(request[r], step, upTo, rows, last)
<1>1. /\ r \in Requests /\ request[r] \in Request
      /\ request \in [Requests -> Request \cup {Idle}]
  BY RunningIsRequest DEF TypeOK
<1>2. /\ n \in Request
      /\ n.device = request[r].device /\ n.cursor = request[r].cursor
      /\ n.awaited = request[r].awaited
      /\ n.at = step /\ n.upTo = upTo /\ n.rows = rows /\ n.last = last
  BY <1>1, RequestMoves
<1>3. request' = [request EXCEPT ![r] = IF step = "list" /\ request[r].over = "socket" THEN Idle ELSE n]
  BY <1>1 DEF GoTo, Moved
<1> HIDE DEF n
<1> QED
  BY <1>1, <1>2, <1>3 DEF Went

\* A request that ends.
Ended(r) == /\ request' \in [Requests -> Request \cup {Idle}]
            /\ \A q \in Requests \ {r} : request'[q] = request[q]
            /\ request'[r] = Idle

LEMMA Ends ==
  ASSUME TypeOK, NEW r \in Running, request' = [request EXCEPT ![r] = Idle]
  PROVE  Ended(r)
BY RunningIsRequest DEF Ended, TypeOK

-----------------------------------------------------------------------------
(* The type invariant                                                      *)

\* The parts of TypeOK that an action changes together.
TypeOfFeed == existing \subseteq Animes /\ changelog \subseteq Row /\ lastRowId \in Nat /\ lastRow \in [Animes -> Nat]
TypeOfDevices == paired \subseteq Devices /\ pairing \subseteq Devices /\ revoking \subseteq Devices /\ sockets \subseteq Devices
TypeOfHealth == ack \in [Devices -> Nat] /\ status \in [Devices -> Statuses] /\ owed \in [Devices -> SUBSET Nat]
TypeOfRequests == request \in [Requests -> Request \cup {Idle}]
TypeOfCursor == cursor \in [Devices -> Nat]

LEMMA TypeParts ==
  TypeOK <=> TypeOfFeed /\ TypeOfDevices /\ TypeOfHealth /\ TypeOfRequests /\ TypeOfCursor
BY Zenon DEF TypeOK, TypeOfFeed, TypeOfDevices, TypeOfHealth, TypeOfRequests, TypeOfCursor

LEMMA TypePartsNext ==
  ASSUME TypeOfFeed', TypeOfDevices', TypeOfHealth', TypeOfRequests', TypeOfCursor'
  PROVE  TypeOK'
BY Zenon DEF TypeOK, TypeOfFeed, TypeOfDevices, TypeOfHealth, TypeOfRequests, TypeOfCursor

LEMMA FeedStays == ASSUME TypeOfFeed, UNCHANGED feed PROVE TypeOfFeed'
BY DEF TypeOfFeed, feed
LEMMA DevicesStay == ASSUME TypeOfDevices, UNCHANGED <<devices, sockets>> PROVE TypeOfDevices'
BY DEF TypeOfDevices, devices
LEMMA HealthStays == ASSUME TypeOfHealth, UNCHANGED health PROVE TypeOfHealth'
BY DEF TypeOfHealth, health
LEMMA RequestsStay == ASSUME TypeOfRequests, UNCHANGED request PROVE TypeOfRequests'
BY DEF TypeOfRequests
LEMMA CursorStays == ASSUME TypeOfCursor, UNCHANGED cursor PROVE TypeOfCursor'
BY DEF TypeOfCursor

LEMMA AcknowledgeTypes ==
  ASSUME TypeOfHealth, NEW d \in Devices, NEW k \in Nat, Acknowledge(d, k)
  PROVE  TypeOfHealth'
<1>1. ack[d] \in Nat
  BY DEF TypeOfHealth
<1>2. Max({ack[d], k}) \in Nat
  BY <1>1, GreaterOfTwo
<1>3. ack' \in [Devices -> Nat]
  BY <1>2 DEF TypeOfHealth, Acknowledge
<1>4. status' \in [Devices -> Statuses]
  BY DEF TypeOfHealth, Acknowledge, Statuses
<1>5. owed' \in [Devices -> SUBSET Nat]
  BY DEF TypeOfHealth, Acknowledge
<1> QED
  BY <1>3, <1>4, <1>5 DEF TypeOfHealth

\* The position of an answer: stored, or the one the phone sent.
LEMMA AnswersWithin ==
  ASSUME TypeOK, Within, RequestsAreHeld, NEW r \in Running
  PROVE  /\ AnsweredCursor(r) \in Nat
         /\ request[r].cursor <= AnsweredCursor(r)
         /\ AnsweredCursor(r) <= lastRowId
<1> DEFINE S == Ids(changelog) \cup {request[r].cursor}
<1>1. request[r].device \in Devices /\ request[r].cursor \in Nat
  BY RunningIsRequest, RequestFields
<1>2. lastRowId \in Nat /\ cursor \in [Devices -> Nat] /\ changelog \subseteq Row
  BY DEF TypeOK
<1>3. request[r].cursor <= cursor[request[r].device]
  BY DEF RequestsAreHeld
<1>4. cursor[request[r].device] <= lastRowId /\ cursor[request[r].device] \in Nat
  BY <1>1, <1>2 DEF Within
<1>5. request[r].cursor <= lastRowId
  BY <1>1, <1>2, <1>3, <1>4
<1>6. \A q \in changelog : q.id \in Nat /\ q.id <= lastRowId
  BY <1>2 DEF Row, Within
<1>7. S \in SUBSET Nat /\ S # {} /\ \A x \in S : x <= lastRowId
  BY <1>1, <1>5, <1>6 DEF Ids
<1>8. Max(S) \in S /\ \A x \in S : x <= Max(S)
  BY <1>2, <1>7, GreatestOf
<1> QED
  BY <1>7, <1>8 DEF AnsweredCursor

\* The lowest acknowledged position of the active phones.
LEMMA LowestAck ==
  ASSUME TypeOK, \E d \in Active : TRUE
  PROVE  LET lowest == Min({ack[d] : d \in Active})
         IN  /\ lowest \in Nat
             /\ \E d \in Active : lowest = ack[d]
             /\ \A d \in Active : lowest <= ack[d]
<1> DEFINE S == {ack[d] : d \in Active}
<1>1. \A d \in Active : ack[d] \in Nat
  BY DEF Active, TypeOK
<1>2. S \in SUBSET Nat /\ S # {}
  BY <1>1
<1>3. Min(S) \in S /\ \A x \in S : Min(S) <= x
  BY <1>2, LeastOf
<1> QED
  BY <1>2, <1>3

\* How each step moves its request.
LEMMA ReadAcksMoves ==
  ASSUME TypeOK, NEW r \in Running, ReadAcks(r)
  PROVE  \/ Went(r, "list", 0, {}, 0)
         \/ \E k \in Nat : /\ Went(r, "prune", k, {}, 0)
                           /\ \E d \in Active : k = ack[d]
                           /\ \A d \in Active : k <= ack[d]
<1>1. CASE ~ \E d \in Active : TRUE
  <2>1. GoTo(r, "list", 0, {}, 0)
    BY <1>1 DEF ReadAcks
  <2> QED
    BY <2>1, GoesTo DEF Steps
<1>2. CASE \E d \in Active : TRUE
  <2> DEFINE lowest == Min({ack[d] : d \in Active})
  <2>1. /\ lowest \in Nat
        /\ \E d \in Active : lowest = ack[d]
        /\ \A d \in Active : lowest <= ack[d]
    BY <1>2, LowestAck
  <2>2. GoTo(r, "prune", lowest, {}, 0) \/ GoTo(r, "list", 0, {}, 0)
    BY <1>2 DEF ReadAcks
  <2> HIDE DEF lowest
  <2>3. Went(r, "prune", lowest, {}, 0) \/ Went(r, "list", 0, {}, 0)
    BY <2>1, <2>2, GoesTo DEF Steps
  <2> QED
    BY <2>1, <2>3
<1> QED
  BY <1>1, <1>2

LEMMA AcknowledgeMoves ==
  ASSUME TypeOK, NEW r \in Running, AcknowledgeCursor(r)
  PROVE  Went(r, "readAcks", 0, {}, 0)
BY GoesTo DEF AcknowledgeCursor, Steps

LEMMA PruneMoves ==
  ASSUME TypeOK, NEW r \in Running, PruneAcknowledged(r)
  PROVE  Went(r, "list", 0, {}, 0)
BY GoesTo DEF PruneAcknowledged, Steps

LEMMA ListMoves ==
  ASSUME TypeOK, NEW r \in Running, ListRows(r)
  PROVE  Went(r, "readLast", 0, {id \in Ids(changelog) : id > request[r].cursor}, 0)
<1>1. {id \in Ids(changelog) : id > request[r].cursor} \in SUBSET Nat
  BY DEF TypeOK, Ids, Row
<1> QED
  BY <1>1, GoesTo DEF ListRows, Steps

LEMMA LastMoves ==
  ASSUME TypeOK, Within, RequestsAreHeld, NEW r \in Running, ReadLastId(r)
  PROVE  Went(r, "respond", 0, request[r].rows, AnsweredCursor(r))
<1>1. AnsweredCursor(r) \in Nat /\ request[r].rows \in SUBSET Nat
  BY AnswersWithin, RunningIsRequest, RequestFields
<1> QED
  BY <1>1, GoesTo DEF ReadLastId, Steps

\* Whatever a step does, the other requests stay and r keeps what it was sent with.
LEMMA StepMoves ==
  ASSUME TypeOK, Within, RequestsAreHeld, NEW r \in Running, Step(r)
  PROVE  \/ Ended(r)
         \/ \E step \in Steps, upTo \in Nat, rows \in SUBSET Nat, last \in Nat :
              Went(r, step, upTo, rows, last)
<1>1. CASE AcknowledgeCursor(r)
  BY <1>1, AcknowledgeMoves DEF Steps
<1>2. CASE ReadAcks(r)
  BY <1>2, ReadAcksMoves DEF Steps
<1>3. CASE PruneAcknowledged(r)
  BY <1>3, PruneMoves DEF Steps
<1>4. CASE ListRows(r)
  <2>1. {id \in Ids(changelog) : id > request[r].cursor} \in SUBSET Nat
    BY DEF TypeOK, Ids, Row
  <2> QED
    BY <1>4, <2>1, ListMoves DEF Steps
<1>5. CASE ReadLastId(r)
  <2>1. AnsweredCursor(r) \in Nat /\ request[r].rows \in SUBSET Nat
    BY AnswersWithin, RunningIsRequest, RequestFields
  <2> QED
    BY <1>5, <2>1, LastMoves DEF Steps
<1>6. CASE Respond(r) \/ Cancel(r)
  BY <1>6, Ends DEF Respond, Cancel
<1> QED
  BY <1>1, <1>2, <1>3, <1>4, <1>5, <1>6 DEF Step

LEMMA KeptIsStored == ASSUME NEW k PROVE Kept(k) \subseteq changelog
BY DEF Kept

\* What a send does: r starts with the phone's cursor, and the phone's earlier
\* requests are no longer waited for.
Abandoned(m) == [m EXCEPT !.awaited = FALSE]

LEMMA AbandonedIsRequest ==
  ASSUME NEW m \in Request
  PROVE  /\ Abandoned(m) \in Request /\ Abandoned(m).awaited = FALSE
         /\ Abandoned(m).device = m.device /\ Abandoned(m).cursor = m.cursor
         /\ Abandoned(m).at = m.at /\ Abandoned(m).upTo = m.upTo /\ Abandoned(m).last = m.last
BY DEF Abandoned, Request

Fresh(d, over) ==
  [device |-> d, over |-> over, awaited |-> TRUE, at |-> "acknowledge",
   cursor |-> cursor[d], upTo |-> 0, rows |-> {}, last |-> 0]

LEMMA FreshIsRequest ==
  ASSUME TypeOfCursor, NEW d \in Devices, NEW over \in {"http", "socket"}
  PROVE  /\ Fresh(d, over) \in Request
         /\ Fresh(d, over).device = d /\ Fresh(d, over).cursor = cursor[d]
         /\ Fresh(d, over).at = "acknowledge"
<1>1. cursor[d] \in Nat
  BY DEF TypeOfCursor
<1> QED
  BY <1>1 DEF Fresh, Request

Sent(r, d, over) ==
  /\ request' \in [Requests -> Request \cup {Idle}]
  /\ request'[r] = Fresh(d, over)
  /\ \A q \in Requests \ {r} :
       request'[q] = IF request[q] # Idle /\ request[q].device = d THEN Abandoned(request[q]) ELSE request[q]

LEMMA Sends ==
  ASSUME TypeOK, NEW r \in Requests, NEW d \in Devices, NEW over \in {"http", "socket"}, Send(r, d, over)
  PROVE  Sent(r, d, over)
<1> DEFINE then(q) == IF q = r THEN Fresh(d, over)
                      ELSE IF q \in Running /\ request[q].device = d
                      THEN Abandoned(request[q]) ELSE request[q]
<1>1. request' = [q \in Requests |-> then(q)]
  BY DEF Send, Fresh, Abandoned
<1>2. Fresh(d, over) \in Request
  BY TypeParts, FreshIsRequest
<1>3. \A q \in Requests : request[q] \in Request \cup {Idle}
  BY DEF TypeOK
<1>4. \A q \in Requests : q \in Running <=> request[q] # Idle
  BY DEF Running
<1>5. \A q \in Requests : then(q) \in Request \cup {Idle}
  BY <1>2, <1>3, <1>4, AbandonedIsRequest
<1>6. request' \in [Requests -> Request \cup {Idle}]
  BY <1>1, <1>5
<1>7. \A q \in Requests : request'[q] = then(q)
  BY <1>1
<1> QED
  BY <1>4, <1>6, <1>7 DEF Sent

LEMMA StepTypes ==
  ASSUME TypeOK, Within, RequestsAreHeld, NEW r \in Running, Step(r)
  PROVE  TypeOK'
<1>1. TypeOfFeed /\ TypeOfDevices /\ TypeOfHealth /\ TypeOfRequests /\ TypeOfCursor
  BY TypeParts
<1>2. TypeOfRequests'
  BY StepMoves DEF TypeOfRequests, Went, Ended
<1>3. request[r] \in Request /\ request[r].device \in Devices /\ request[r].cursor \in Nat
  BY RunningIsRequest, RequestFields
<1>4. TypeOfFeed'
  <2>1. CASE PruneAcknowledged(r)
    BY <1>1, <2>1, KeptIsStored DEF PruneAcknowledged, TypeOfFeed
  <2>2. CASE ~PruneAcknowledged(r)
    BY <1>1, <2>2, FeedStays DEF Step, AcknowledgeCursor, ReadAcks, ListRows, ReadLastId, Respond, Cancel
  <2> QED
    BY <2>1, <2>2
<1>5. TypeOfDevices'
  BY <1>1, DevicesStay DEF Step, AcknowledgeCursor, ReadAcks, PruneAcknowledged, ListRows, ReadLastId, Respond, Cancel
<1>6. TypeOfHealth'
  <2>1. CASE AcknowledgeCursor(r)
    BY <1>1, <1>3, <2>1, AcknowledgeTypes DEF AcknowledgeCursor
  <2>2. CASE ~AcknowledgeCursor(r)
    BY <1>1, <2>2, HealthStays DEF Step, ReadAcks, PruneAcknowledged, ListRows, ReadLastId, Respond, Cancel
  <2> QED
    BY <2>1, <2>2
<1>7. TypeOfCursor'
  <2>1. CASE Respond(r)
    BY <1>1, <1>3, <2>1, RunningIsRequest, RequestFields DEF Respond, TypeOfCursor
  <2>2. CASE ~Respond(r)
    BY <1>1, <2>2, CursorStays DEF Step, AcknowledgeCursor, ReadAcks, PruneAcknowledged, ListRows, ReadLastId, Cancel
  <2> QED
    BY <2>1, <2>2
<1> QED
  BY <1>2, <1>4, <1>5, <1>6, <1>7, TypePartsNext

LEMMA PairingTypes ==
  ASSUME TypeOK, NEW d \in Devices,
         \/ InsertPairedDevice(d) \/ MarkDeviceActive(d) \/ DeletePairedDevice(d)
         \/ MarkDeviceRevoked(d) \/ SecondStatementFails(d) \/ OpenSocket(d)
  PROVE  TypeOK'
<1>1. TypeOfFeed /\ TypeOfDevices /\ TypeOfHealth /\ TypeOfRequests /\ TypeOfCursor
  BY TypeParts
<1>2. TypeOfFeed' /\ TypeOfRequests' /\ TypeOfCursor'
  BY <1>1, FeedStays, RequestsStay, CursorStays
     DEF InsertPairedDevice, MarkDeviceActive, DeletePairedDevice, MarkDeviceRevoked, SecondStatementFails, OpenSocket
<1>3. TypeOfDevices'
  BY <1>1
     DEF InsertPairedDevice, MarkDeviceActive, DeletePairedDevice, MarkDeviceRevoked, SecondStatementFails, OpenSocket,
         TypeOfDevices, devices
<1>4. TypeOfHealth'
  <2>1. CASE MarkDeviceActive(d)
    BY <1>1, <2>1, AcknowledgeTypes DEF MarkDeviceActive
  <2>2. CASE MarkDeviceRevoked(d)
    BY <1>1, <2>2 DEF MarkDeviceRevoked, TypeOfHealth, Statuses
  <2>3. CASE InsertPairedDevice(d) \/ DeletePairedDevice(d) \/ SecondStatementFails(d) \/ OpenSocket(d)
    BY <1>1, <2>3, HealthStays DEF InsertPairedDevice, DeletePairedDevice, SecondStatementFails, OpenSocket
  <2> QED
    BY <2>1, <2>2, <2>3
<1> QED
  BY <1>2, <1>3, <1>4, TypePartsNext

LEMMA LibraryTypes ==
  ASSUME TypeOK, (\E a \in Animes : WriteRow(a)) \/ (\E S \in SUBSET Animes : ImportAnimes(S))
  PROVE  TypeOK'
<1>1. TypeOfFeed /\ TypeOfDevices /\ TypeOfHealth /\ TypeOfRequests /\ TypeOfCursor
  BY TypeParts
<1>2. TypeOfDevices' /\ TypeOfRequests' /\ TypeOfCursor'
  BY <1>1, DevicesStay, RequestsStay, CursorStays DEF WriteRow, ImportAnimes
<1>3. CASE \E a \in Animes : WriteRow(a)
  <2>1. PICK a \in Animes : WriteRow(a)
    BY <1>3
  <2>2. lastRowId' \in Nat /\ lastRowId' = lastRowId + 1
    BY <1>1, <2>1 DEF WriteRow, TypeOfFeed
  <2>3. [id |-> lastRowId', anime |-> a] \in Row
    BY <2>2 DEF Row
  <2>4. lastRow' \in [Animes -> Nat]
    BY <1>1, <2>1, <2>2 DEF WriteRow, TypeOfFeed
  <2>5. TypeOfFeed'
    BY <1>1, <2>1, <2>2, <2>3, <2>4 DEF WriteRow, TypeOfFeed
  <2>6. TypeOfHealth'
    BY <1>1, <2>1, <2>2 DEF WriteRow, TypeOfHealth
  <2> QED
    BY <1>2, <2>5, <2>6, TypePartsNext
<1>4. CASE \E S \in SUBSET Animes : ImportAnimes(S)
  <2>1. PICK S \in SUBSET Animes : ImportAnimes(S)
    BY <1>4
  <2>2. TypeOfFeed'
    BY <1>1, <2>1 DEF ImportAnimes, TypeOfFeed
  <2>3. TypeOfHealth'
    BY <1>1, <2>1, HealthStays DEF ImportAnimes
  <2> QED
    BY <1>2, <2>2, <2>3, TypePartsNext
<1> QED
  BY <1>3, <1>4

LEMMA RestartTypes ==
  ASSUME TypeOK, Restart
  PROVE  TypeOK'
<1>1. TypeOfFeed /\ TypeOfDevices /\ TypeOfHealth /\ TypeOfRequests /\ TypeOfCursor
  BY TypeParts
<1>2. TypeOfRequests' /\ TypeOfCursor'
  BY <1>1, CursorStays DEF Restart, TypeOfRequests
<1>3. TypeOfDevices'
  BY <1>1 DEF Restart, TypeOfDevices
<1>4. changelog' \subseteq changelog
  BY KeptIsStored DEF Restart, EvaluateDevices
<1>5. TypeOfFeed'
  BY <1>1, <1>4 DEF Restart, TypeOfFeed
<1>6. TypeOfHealth'
  <2>1. CASE UNCHANGED <<status, owed>>
    BY <1>1, <2>1, HealthStays DEF Restart, health
  <2>2. CASE EvaluateDevices
    BY <1>1, <2>2 DEF Restart, EvaluateDevices, TypeOfHealth
  <2> QED
    BY <2>1, <2>2 DEF Restart
<1> QED
  BY <1>2, <1>3, <1>5, <1>6, TypePartsNext

LEMMA TypeStep ==
  ASSUME TypeOK, Within, RequestsAreHeld, Next
  PROVE  TypeOK'
<1>1. CASE \E d \in Devices :
             \/ InsertPairedDevice(d) \/ MarkDeviceActive(d) \/ DeletePairedDevice(d)
             \/ MarkDeviceRevoked(d) \/ SecondStatementFails(d) \/ OpenSocket(d)
  BY <1>1, PairingTypes
<1>2. CASE \E d \in Devices, r \in Requests, over \in {"http", "socket"} : Send(r, d, over)
  <2>1. PICK d \in Devices, r \in Requests, over \in {"http", "socket"} : Send(r, d, over)
    BY <1>2
  <2>2. TypeOfFeed /\ TypeOfDevices /\ TypeOfHealth /\ TypeOfRequests /\ TypeOfCursor
    BY TypeParts
  <2>3. TypeOfRequests'
    BY <2>1, Sends DEF Sent, TypeOfRequests
  <2>4. TypeOfFeed' /\ TypeOfDevices' /\ TypeOfHealth' /\ TypeOfCursor'
    BY <2>1, <2>2, FeedStays, DevicesStay, HealthStays, CursorStays DEF Send
  <2> QED
    BY <2>3, <2>4, TypePartsNext
<1>3. CASE (\E a \in Animes : WriteRow(a)) \/ (\E S \in SUBSET Animes : ImportAnimes(S))
  BY <1>3, LibraryTypes
<1>4. CASE \E r \in Running : Step(r)
  BY <1>4, StepTypes
<1>5. CASE Restart
  BY <1>5, RestartTypes
<1> QED
  BY <1>1, <1>2, <1>3, <1>4, <1>5 DEF Next

-----------------------------------------------------------------------------
(* The feed                                                                *)

\* A delete leaves the last row of every anime that is there.
LEMMA PruneKeepsLastRows ==
  ASSUME LastRowsStored, UNCHANGED <<existing, lastRow>>,
         changelog' = changelog \/ \E k : changelog' = Kept(k)
  PROVE  LastRowsStored'
<1>1. changelog' \subseteq changelog
  BY KeptIsStored
<1>2. SUFFICES ASSUME NEW a \in Animes, lastRow[a] # 0
              PROVE  /\ a \in existing
                     /\ [id |-> lastRow[a], anime |-> a] \in changelog'
                     /\ \A q \in changelog' : q.anime = a => q.id <= lastRow[a]
  BY DEF LastRowsStored
<1>3. /\ a \in existing
      /\ [id |-> lastRow[a], anime |-> a] \in changelog
      /\ \A q \in changelog : q.anime = a => q.id <= lastRow[a]
  BY <1>2 DEF LastRowsStored
<1>4. [id |-> lastRow[a], anime |-> a] \in changelog'
  BY <1>3 DEF Kept
<1> QED
  BY <1>1, <1>3, <1>4

LEMMA WriteKeepsFeed ==
  ASSUME TypeOK, Feed, NEW a \in Animes, WriteRow(a)
  PROVE  Feed'
<1> DEFINE row == [id |-> lastRowId', anime |-> a]
<1>1. /\ lastRowId' = lastRowId + 1 /\ lastRowId \in Nat
      /\ changelog' = changelog \cup {row} /\ row.id = lastRowId' /\ row.anime = a
      /\ lastRow' = [lastRow EXCEPT ![a] = lastRowId'] /\ lastRow \in [Animes -> Nat]
      /\ existing' = existing \cup {a} /\ cursor' = cursor
  BY DEF WriteRow, TypeOK
<1>2. /\ \A q \in changelog : q.id \in Nat /\ q.id <= lastRowId
      /\ \A d \in Devices : cursor[d] \in Nat /\ cursor[d] <= lastRowId
  BY DEF TypeOK, Row, Feed, Within
<1> HIDE DEF row
<1>3. Within'
  BY <1>1, <1>2 DEF Within
<1>4. ASSUME NEW b \in Animes, lastRow'[b] # 0
      PROVE  /\ b \in existing'
             /\ [id |-> lastRow'[b], anime |-> b] \in changelog'
             /\ \A q \in changelog' : q.anime = b => q.id <= lastRow'[b]
  <2>1. CASE b = a
    <3>1. lastRow'[b] = lastRowId'
      BY <1>1, <2>1
    <3>2. [id |-> lastRow'[b], anime |-> b] = row
      BY <3>1, <2>1 DEF row
    <3>3. \A q \in changelog' : q.id <= lastRowId'
      BY <1>3 DEF Within
    <3> QED
      BY <1>1, <2>1, <3>1, <3>2, <3>3
  <2>2. CASE b # a
    <3>1. lastRow'[b] = lastRow[b]
      BY <1>1, <2>2
    <3>2. /\ b \in existing
          /\ [id |-> lastRow[b], anime |-> b] \in changelog
          /\ \A q \in changelog : q.anime = b => q.id <= lastRow[b]
      BY <1>4, <3>1 DEF Feed, LastRowsStored
    <3> QED
      BY <1>1, <2>2, <3>1, <3>2
  <2> QED
    BY <2>1, <2>2
<1> QED
  BY <1>3, <1>4 DEF Feed, LastRowsStored

LEMMA ImportKeepsFeed ==
  ASSUME TypeOK, Feed, NEW S \in SUBSET Animes, ImportAnimes(S)
  PROVE  Feed'
<1>1. /\ existing' = S /\ changelog' = changelog /\ lastRowId' = lastRowId /\ cursor' = cursor
      /\ \A a \in Animes : lastRow'[a] = IF a \in S \cap existing THEN lastRow[a] ELSE 0
  BY DEF ImportAnimes, feed
<1>2. Within'
  BY <1>1 DEF Feed, Within
<1>3. LastRowsStored'
  BY <1>1 DEF Feed, LastRowsStored
<1> QED
  BY <1>2, <1>3 DEF Feed

LEMMA StepKeepsFeed ==
  ASSUME TypeOK, Feed, RequestsAreHeld, NEW r \in Running, Step(r)
  PROVE  Feed'
<1>1. UNCHANGED <<existing, lastRow, lastRowId>> /\ (changelog' = changelog \/ \E k : changelog' = Kept(k))
  BY DEF Step, feed, AcknowledgeCursor, ReadAcks, PruneAcknowledged, ListRows, ReadLastId, Respond, Cancel
<1>2. changelog' \subseteq changelog
  BY <1>1, KeptIsStored
<1>3. \A d \in Devices : cursor'[d] <= lastRowId
  <2>1. CASE Respond(r)
    <3>1. request[r].last <= lastRowId
      BY <2>1 DEF Respond, RequestsAreHeld
    <3> QED
      BY <2>1, <3>1 DEF Respond, Feed, Within, TypeOK
  <2>2. CASE ~Respond(r)
    BY <2>2 DEF Step, AcknowledgeCursor, ReadAcks, PruneAcknowledged, ListRows, ReadLastId, Cancel, Feed, Within
  <2> QED
    BY <2>1, <2>2
<1>4. Within'
  BY <1>1, <1>2, <1>3 DEF Feed, Within
<1>5. LastRowsStored'
  BY <1>1, PruneKeepsLastRows DEF Feed
<1> QED
  BY <1>4, <1>5 DEF Feed

LEMMA FeedStep ==
  ASSUME TypeOK, Feed, RequestsAreHeld, Next
  PROVE  Feed'
<1>1. CASE \E a \in Animes : WriteRow(a)
  BY <1>1, WriteKeepsFeed
<1>2. CASE \E S \in SUBSET Animes : ImportAnimes(S)
  BY <1>2, ImportKeepsFeed
<1>3. CASE \E r \in Running : Step(r)
  BY <1>3, StepKeepsFeed
<1>4. CASE Restart
  <2>1. UNCHANGED <<existing, lastRow, lastRowId, cursor>> /\ (changelog' = changelog \/ \E k : changelog' = Kept(k))
    BY <1>4 DEF Restart, EvaluateDevices
  <2>2. changelog' \subseteq changelog
    BY <2>1, KeptIsStored
  <2> QED
    BY <2>1, <2>2, PruneKeepsLastRows DEF Feed, Within
<1>5. CASE UNCHANGED <<feed, cursor>>
  BY <1>5 DEF Feed, Within, LastRowsStored, feed
<1> QED
  BY <1>1, <1>2, <1>3, <1>4, <1>5
     DEF Next, InsertPairedDevice, MarkDeviceActive, DeletePairedDevice, MarkDeviceRevoked, SecondStatementFails,
         OpenSocket, Send

-----------------------------------------------------------------------------
(* Requests and the phones that wait for them                              *)

LEMMA SendKeepsWaiting ==
  ASSUME TypeOK, Waiting, NEW r \in Requests, NEW d \in Devices, NEW over \in {"http", "socket"},
         Send(r, d, over)
  PROVE  Waiting'
<1>1. Sent(r, d, over) /\ request[r] = Idle /\ UNCHANGED <<cursor, lastRowId>>
  BY Sends DEF Send, feed
<1>2. /\ request'[r] \in Request /\ request'[r].device = d
      /\ request'[r].cursor = cursor[d] /\ request'[r].at = "acknowledge"
  BY <1>1, FreshIsRequest, TypeParts DEF Sent
<1>3. cursor[d] \in Nat
  BY DEF TypeOK
<1>4. ASSUME NEW q \in Running', q # r
      PROVE  /\ q \in Running /\ request[q] \in Request
             /\ request'[q].device = request[q].device /\ request'[q].cursor = request[q].cursor
             /\ request'[q].at = request[q].at /\ request'[q].last = request[q].last
             /\ request'[q].awaited => request[q].awaited /\ request[q].device # d
  <2>1. q \in Requests /\ request'[q] # Idle
    BY <1>4 DEF Running
  <2>2. request'[q] = IF request[q] # Idle /\ request[q].device = d THEN Abandoned(request[q]) ELSE request[q]
    BY <1>1, <1>4, <2>1 DEF Sent
  <2>3. request[q] # Idle
    BY <2>1, <2>2
  <2>4. q \in Running
    BY <2>1, <2>3 DEF Running
  <2>5. request[q] \in Request
    BY <2>4, RunningIsRequest
  <2>6. CASE request[q].device = d
    <3>1. request'[q] = Abandoned(request[q])
      BY <2>2, <2>3, <2>6
    <3>2. /\ Abandoned(request[q]).awaited = FALSE
          /\ Abandoned(request[q]).device = request[q].device /\ Abandoned(request[q]).cursor = request[q].cursor
          /\ Abandoned(request[q]).at = request[q].at /\ Abandoned(request[q]).last = request[q].last
      BY <2>5, AbandonedIsRequest
    <3> QED
      BY <2>4, <2>5, <3>1, <3>2, Zenon
  <2>7. CASE request[q].device # d
    <3>1. request'[q] = request[q]
      BY <2>2, <2>7
    <3> QED
      BY <2>4, <2>5, <2>7, <3>1, Zenon
  <2> QED
    BY <2>6, <2>7
<1>5. ASSUME NEW q \in Running'
      PROVE  /\ request'[q].cursor <= cursor'[request'[q].device]
             /\ request'[q].awaited => request'[q].cursor = cursor'[request'[q].device]
             /\ request'[q].at = "respond" =>
                  request'[q].cursor <= request'[q].last /\ request'[q].last <= lastRowId'
  <2>1. CASE q = r
    BY <1>1, <1>2, <1>3, <2>1
  <2>2. CASE q # r
    <3>1. /\ q \in Running
          /\ request'[q].device = request[q].device /\ request'[q].cursor = request[q].cursor
          /\ request'[q].at = request[q].at /\ request'[q].last = request[q].last
          /\ request'[q].awaited => request[q].awaited
      BY <1>4, <2>2
    <3>2. /\ request[q].cursor <= cursor[request[q].device]
          /\ request[q].awaited => request[q].cursor = cursor[request[q].device]
          /\ request[q].at = "respond" => request[q].cursor <= request[q].last /\ request[q].last <= lastRowId
      BY <3>1 DEF Waiting, RequestsAreHeld
    <3> QED
      BY <1>1, <3>1, <3>2
  <2> QED
    BY <2>1, <2>2
<1>6. ASSUME NEW p \in Running', NEW q \in Running',
             request'[p].awaited, request'[q].awaited, request'[p].device = request'[q].device
      PROVE  p = q
  <2>1. CASE p = r \/ q = r
    BY <1>2, <1>4, <1>6, <2>1
  <2>2. CASE p # r /\ q # r
    <3>1. /\ p \in Running /\ request[p].awaited /\ request'[p].device = request[p].device
      BY <1>4, <1>6, <2>2
    <3>2. /\ q \in Running /\ request[q].awaited /\ request'[q].device = request[q].device
      BY <1>4, <1>6, <2>2
    <3> QED
      BY <1>6, <3>1, <3>2 DEF Waiting, OneAwaited
  <2> QED
    BY <2>1, <2>2
<1> QED
  BY <1>5, <1>6 DEF Waiting, RequestsAreHeld, OneAwaited

\* A request that goes on with what it was sent with, the phone's cursor unmoved.
LEMMA WentKeepsWaiting ==
  ASSUME TypeOK, Waiting, NEW r \in Running, NEW step, NEW upTo, NEW rows, NEW last,
         Went(r, step, upTo, rows, last), UNCHANGED <<cursor, lastRowId>>,
         step = "respond" => request[r].cursor <= last /\ last <= lastRowId
  PROVE  Waiting'
<1>1. ASSUME NEW q \in Running'
      PROVE  /\ q \in Running
             /\ request'[q].device = request[q].device /\ request'[q].cursor = request[q].cursor
             /\ request'[q].awaited = request[q].awaited
             /\ q # r => request'[q] = request[q]
             /\ q = r => request'[q].at = step /\ request'[q].last = last
  BY <1>1 DEF Went, Running
<1>2. ASSUME NEW q \in Running'
      PROVE  /\ request'[q].cursor <= cursor'[request'[q].device]
             /\ request'[q].awaited => request'[q].cursor = cursor'[request'[q].device]
             /\ request'[q].at = "respond" =>
                  request'[q].cursor <= request'[q].last /\ request'[q].last <= lastRowId'
  <2>1. /\ q \in Running
        /\ request'[q].device = request[q].device /\ request'[q].cursor = request[q].cursor
        /\ request'[q].awaited = request[q].awaited
        /\ q # r => request'[q] = request[q]
        /\ q = r => request'[q].at = step /\ request'[q].last = last
    BY <1>1
  <2>2. /\ request[q].cursor <= cursor[request[q].device]
        /\ request[q].awaited => request[q].cursor = cursor[request[q].device]
        /\ request[q].at = "respond" => request[q].cursor <= request[q].last /\ request[q].last <= lastRowId
    BY <2>1 DEF Waiting, RequestsAreHeld
  <2> QED
    BY <2>1, <2>2
<1>3. ASSUME NEW p \in Running', NEW q \in Running',
             request'[p].awaited, request'[q].awaited, request'[p].device = request'[q].device
      PROVE  p = q
  <2>1. p \in Running /\ request[p].awaited /\ request'[p].device = request[p].device
    BY <1>1, <1>3
  <2>2. q \in Running /\ request[q].awaited /\ request'[q].device = request[q].device
    BY <1>1, <1>3
  <2> QED
    BY <1>3, <2>1, <2>2 DEF Waiting, OneAwaited
<1> QED
  BY <1>2, <1>3 DEF Waiting, RequestsAreHeld, OneAwaited

\* The phone moves to the position of the answer it waited for, which is not
\* behind; an answer it does not wait for leaves it alone.
LEMMA AnswerMovesOn ==
  ASSUME TypeOK, Waiting, NEW r \in Running, Respond(r)
  PROVE  /\ Ended(r) /\ UNCHANGED lastRowId
         /\ \A d \in Devices : cursor[d] <= cursor'[d]
         /\ \A d \in Devices : cursor'[d] # cursor[d] => request[r].awaited /\ d = request[r].device
<1>1. Ended(r) /\ UNCHANGED lastRowId
  BY Ends DEF Respond, feed
<1>2. /\ request[r].device \in Devices /\ request[r].cursor \in Nat /\ request[r].last \in Nat
  BY RunningIsRequest, RequestFields
<1>3. cursor \in [Devices -> Nat]
  BY DEF TypeOK
<1>4. /\ request[r].awaited => request[r].cursor = cursor[request[r].device]
      /\ request[r].cursor <= request[r].last
  BY DEF Respond, Waiting, RequestsAreHeld
<1>5. CASE ~request[r].awaited
  <2>1. cursor' = cursor
    BY <1>5 DEF Respond
  <2> QED
    BY <1>1, <1>3, <2>1
<1>6. CASE request[r].awaited
  <2>1. cursor' = [cursor EXCEPT ![request[r].device] = request[r].last]
    BY <1>6 DEF Respond
  <2> QED
    BY <1>1, <1>2, <1>3, <1>4, <1>6, <2>1
<1> QED
  BY <1>5, <1>6

LEMMA EndKeepsWaiting ==
  ASSUME TypeOK, Waiting, NEW r \in Running, Respond(r) \/ Cancel(r)
  PROVE  Waiting'
<1>1. /\ Ended(r) /\ UNCHANGED lastRowId
      /\ \A d \in Devices : cursor[d] <= cursor'[d]
      /\ \A d \in Devices : cursor'[d] # cursor[d] => request[r].awaited /\ d = request[r].device
  <2>1. CASE Respond(r)
    BY <2>1, AnswerMovesOn
  <2>2. CASE Cancel(r)
    <3>1. Ended(r)
      BY <2>2, Ends DEF Cancel
    <3>2. cursor' = cursor /\ lastRowId' = lastRowId
      BY <2>2 DEF Cancel, feed
    <3>3. \A d \in Devices : cursor[d] \in Nat
      BY DEF TypeOK
    <3> QED
      BY <3>1, <3>2, <3>3
  <2> QED
    BY <2>1, <2>2
<1>2. ASSUME NEW q \in Running'
      PROVE  q \in Running /\ q # r /\ request'[q] = request[q]
  BY <1>1, <1>2 DEF Ended, Running
<1>3. ASSUME NEW q \in Running'
      PROVE  /\ request'[q].cursor <= cursor'[request'[q].device]
             /\ request'[q].awaited => request'[q].cursor = cursor'[request'[q].device]
             /\ request'[q].at = "respond" =>
                  request'[q].cursor <= request'[q].last /\ request'[q].last <= lastRowId'
  <2>1. q \in Running /\ q # r /\ request'[q] = request[q]
    BY <1>2
  <2>2. /\ request[q].cursor <= cursor[request[q].device]
        /\ request[q].awaited => request[q].cursor = cursor[request[q].device]
        /\ request[q].at = "respond" => request[q].cursor <= request[q].last /\ request[q].last <= lastRowId
    BY <2>1 DEF Waiting, RequestsAreHeld
  <2>3. request[q].device \in Devices /\ request[q].cursor \in Nat
    BY <2>1, RunningIsRequest, RequestFields
  <2>4. cursor[request[q].device] \in Nat /\ cursor[request[q].device] <= cursor'[request[q].device]
    BY <1>1, <2>3 DEF TypeOK
  <2>5. request[q].awaited => cursor'[request[q].device] = cursor[request[q].device]
    BY <1>1, <2>1, <2>3 DEF Waiting, OneAwaited
  <2>6. request[q].cursor <= cursor'[request[q].device]
    <3>1. CASE cursor'[request[q].device] = cursor[request[q].device]
      BY <2>2, <3>1
    <3>2. CASE cursor'[request[q].device] # cursor[request[q].device]
      <4>1. /\ Respond(r) /\ request[r].awaited /\ request[q].device = request[r].device
        BY <1>1, <2>3, <3>2 DEF Cancel
      <4>2. cursor'[request[q].device] = request[r].last /\ request[r].last \in Nat
        BY <2>3, <4>1, RunningIsRequest, RequestFields DEF Respond, TypeOK
      <4> QED
        BY <2>2, <2>3, <2>4, <4>2
    <3> QED
      BY <3>1, <3>2
  <2> QED
    BY <1>1, <2>1, <2>2, <2>5, <2>6
<1>4. OneAwaited'
  BY <1>2 DEF Waiting, OneAwaited
<1> QED
  BY <1>3, <1>4 DEF Waiting, RequestsAreHeld

LEMMA StepKeepsWaiting ==
  ASSUME TypeOK, Feed, Waiting, NEW r \in Running, Step(r)
  PROVE  Waiting'
<1>1. CASE AcknowledgeCursor(r)
  <2>1. Went(r, "readAcks", 0, {}, 0) /\ UNCHANGED <<cursor, lastRowId>>
    BY <1>1, AcknowledgeMoves DEF AcknowledgeCursor, feed
  <2> QED
    BY <2>1, WentKeepsWaiting
<1>2. CASE ReadAcks(r)
  <2>1. /\ \E step \in {"list", "prune"}, k \in Nat : Went(r, step, k, {}, 0)
        /\ UNCHANGED <<cursor, lastRowId>>
    BY <1>2, ReadAcksMoves DEF ReadAcks, feed
  <2> QED
    BY <2>1, WentKeepsWaiting
<1>3. CASE PruneAcknowledged(r)
  <2>1. Went(r, "list", 0, {}, 0) /\ UNCHANGED <<cursor, lastRowId>>
    BY <1>3, PruneMoves DEF PruneAcknowledged, feed
  <2> QED
    BY <2>1, WentKeepsWaiting
<1>4. CASE ListRows(r)
  <2>1. (\E rows : Went(r, "readLast", 0, rows, 0)) /\ UNCHANGED <<cursor, lastRowId>>
    BY <1>4, ListMoves DEF ListRows, feed
  <2> QED
    BY <2>1, WentKeepsWaiting
<1>5. CASE ReadLastId(r)
  <2>1. /\ Went(r, "respond", 0, request[r].rows, AnsweredCursor(r)) /\ UNCHANGED <<cursor, lastRowId>>
    BY <1>5, LastMoves DEF ReadLastId, feed, Feed, Waiting
  <2>2. request[r].cursor <= AnsweredCursor(r) /\ AnsweredCursor(r) <= lastRowId
    BY AnswersWithin DEF Feed, Waiting
  <2> QED
    BY <2>1, <2>2, WentKeepsWaiting
<1>6. CASE Respond(r) \/ Cancel(r)
  BY <1>6, EndKeepsWaiting
<1> QED
  BY <1>1, <1>2, <1>3, <1>4, <1>5, <1>6 DEF Step

LEMMA WaitingStep ==
  ASSUME TypeOK, Feed, Waiting, Next
  PROVE  Waiting'
<1>1. CASE \E r \in Running : Step(r)
  BY <1>1, StepKeepsWaiting
<1>2. CASE \E d \in Devices, r \in Requests, over \in {"http", "socket"} : Send(r, d, over)
  BY <1>2, SendKeepsWaiting
<1>3. CASE Restart
  <2>1. Running' = {}
    BY <1>3 DEF Restart, Running
  <2> QED
    BY <2>1 DEF Waiting, RequestsAreHeld, OneAwaited
<1>4. CASE UNCHANGED <<request, cursor>> /\ lastRowId' \in Nat /\ lastRowId <= lastRowId'
  <2>1. Running' = Running
    BY <1>4 DEF Running
  <2>2. OneAwaited'
    BY <1>4, <2>1 DEF Waiting, OneAwaited
  <2>3. ASSUME NEW q \in Running
        PROVE  /\ request[q].cursor <= cursor[request[q].device]
               /\ request[q].awaited => request[q].cursor = cursor[request[q].device]
               /\ request[q].at = "respond" =>
                    request[q].cursor <= request[q].last /\ request[q].last <= lastRowId'
    <3>1. request[q].last \in Nat /\ lastRowId \in Nat
      BY RunningIsRequest, RequestFields DEF TypeOK
    <3> QED
      BY <1>4, <3>1 DEF Waiting, RequestsAreHeld
  <2> QED
    BY <1>4, <2>1, <2>2, <2>3 DEF Waiting, RequestsAreHeld
<1>5. ASSUME NEW a \in Animes, WriteRow(a)
      PROVE  UNCHANGED <<request, cursor>> /\ lastRowId' \in Nat /\ lastRowId <= lastRowId'
  BY <1>5 DEF WriteRow, TypeOK
<1>6. lastRowId \in Nat
  BY DEF TypeOK
<1> QED
  BY <1>1, <1>2, <1>3, <1>4, <1>5, <1>6
     DEF Next, InsertPairedDevice, MarkDeviceActive, DeletePairedDevice, MarkDeviceRevoked, SecondStatementFails,
         OpenSocket, ImportAnimes, feed

-----------------------------------------------------------------------------
(* Acknowledged positions                                                  *)

LEMMA CursorsGrow ==
  ASSUME TypeOK, Waiting, Next
  PROVE  \A d \in Devices : cursor[d] <= cursor'[d]
<1>1. \A d \in Devices : cursor[d] \in Nat
  BY DEF TypeOK
<1>2. CASE \E r \in Running : Respond(r)
  BY <1>2, AnswerMovesOn
<1>3. CASE ~ \E r \in Running : Respond(r)
  <2>1. cursor' = cursor
    BY <1>3
       DEF Next, InsertPairedDevice, MarkDeviceActive, DeletePairedDevice, MarkDeviceRevoked, SecondStatementFails,
           OpenSocket, Send, WriteRow, ImportAnimes, Restart, Step, AcknowledgeCursor, ReadAcks, PruneAcknowledged,
           ListRows, ReadLastId, Cancel
  <2> QED
    BY <1>1, <2>1
<1> QED
  BY <1>2, <1>3

\* A step that acknowledges for one phone, at a position the phone holds.
LEMMA AcknowledgeIsHeld ==
  ASSUME TypeOK, AcksAreHeld, NEW d \in Devices, NEW k \in Nat, k <= cursor[d], Acknowledge(d, k),
         UNCHANGED cursor
  PROVE  /\ AcksAreHeld'
         /\ \A e \in Devices : ack[e] <= ack'[e]
<1>1. ack \in [Devices -> Nat] /\ cursor \in [Devices -> Nat]
  BY DEF TypeOK
<1>2. Max({ack[d], k}) \in {ack[d], k} /\ ack[d] <= Max({ack[d], k})
  BY <1>1, GreaterOfTwo
<1>3. ack' = [ack EXCEPT ![d] = Max({ack[d], k})]
  BY DEF Acknowledge
<1>4. \A e \in Devices : ack'[e] <= cursor[e] /\ ack[e] <= ack'[e]
  BY <1>1, <1>2, <1>3 DEF AcksAreHeld
<1> QED
  BY <1>4 DEF AcksAreHeld

LEMMA AcksStep ==
  ASSUME TypeOK, Feed, Waiting, AcksAreHeld, Next
  PROVE  /\ AcksAreHeld'
         /\ \A d \in Devices : ack[d] <= ack'[d]
<1>1. \A d \in Devices : ack[d] \in Nat /\ cursor[d] \in Nat
  BY DEF TypeOK
<1>2. CASE \E d \in Devices : MarkDeviceActive(d)
  <2>1. PICK d \in Devices : MarkDeviceActive(d)
    BY <1>2
  <2>2. 0 <= cursor[d] /\ Acknowledge(d, 0) /\ UNCHANGED cursor
    BY <1>1, <2>1 DEF MarkDeviceActive
  <2> QED
    BY <2>2, AcknowledgeIsHeld
<1>3. CASE \E r \in Running : AcknowledgeCursor(r)
  <2>1. PICK r \in Running : AcknowledgeCursor(r)
    BY <1>3
  <2>2. request[r].device \in Devices /\ request[r].cursor \in Nat
    BY RunningIsRequest, RequestFields
  <2>3. /\ request[r].cursor <= cursor[request[r].device]
        /\ Acknowledge(request[r].device, request[r].cursor) /\ UNCHANGED cursor
    BY <2>1 DEF AcknowledgeCursor, Waiting, RequestsAreHeld
  <2> QED
    BY <2>2, <2>3, AcknowledgeIsHeld
<1>4. CASE UNCHANGED ack
  <2>1. \A d \in Devices : cursor[d] <= cursor'[d] /\ cursor'[d] \in Nat
    <3>1. TypeOK'
      BY TypeStep DEF Feed, Waiting
    <3> QED
      BY <3>1, CursorsGrow DEF TypeOK
  <2> QED
    BY <1>1, <1>4, <2>1 DEF AcksAreHeld
<1> QED
  BY <1>2, <1>3, <1>4
     DEF Next, InsertPairedDevice, DeletePairedDevice, MarkDeviceRevoked, SecondStatementFails, OpenSocket, Send,
         WriteRow, ImportAnimes, Restart, Step, ReadAcks, PruneAcknowledged, ListRows, ReadLastId, Respond, Cancel,
         health

-----------------------------------------------------------------------------
(* The rows an active phone is owed                                        *)

\* Except when a row is written, a phone is active with nothing owed, or stays
\* active with no more owed and an ack that is not lower.
OwesNoMore ==
  \A d \in Devices : status'[d] = "active" =>
    \/ owed'[d] = {}
    \/ status[d] = "active" /\ owed'[d] \subseteq owed[d] /\ ack[d] <= ack'[d]

LEMMA AcknowledgeOwesNoMore ==
  ASSUME TypeOK, NEW d \in Devices, NEW k \in Nat, Acknowledge(d, k)
  PROVE  OwesNoMore
<1>1. ack \in [Devices -> Nat] /\ status \in [Devices -> Statuses] /\ owed \in [Devices -> SUBSET Nat]
  BY DEF TypeOK
<1>2. Max({ack[d], k}) \in Nat /\ ack[d] <= Max({ack[d], k})
  BY <1>1, GreaterOfTwo
<1>3. \A e \in Devices : ack[e] <= ack'[e]
  BY <1>1, <1>2 DEF Acknowledge
<1>4. \A e \in Devices : e # d => status'[e] = status[e] /\ owed'[e] = owed[e]
  BY <1>1 DEF Acknowledge
<1>5. owed'[d] = IF status[d] = "active" THEN owed[d] ELSE {}
  BY <1>1 DEF Acknowledge
<1> QED
  BY <1>3, <1>4, <1>5 DEF OwesNoMore

LEMMA HealthStep ==
  ASSUME TypeOK, Next, ~ \E a \in Animes : WriteRow(a)
  PROVE  OwesNoMore
<1>1. ack \in [Devices -> Nat] /\ status \in [Devices -> Statuses] /\ owed \in [Devices -> SUBSET Nat]
  BY DEF TypeOK
<1>2. CASE \E d \in Devices : MarkDeviceActive(d)
  BY <1>2, AcknowledgeOwesNoMore DEF MarkDeviceActive
<1>3. CASE \E r \in Running : AcknowledgeCursor(r)
  <2>1. PICK r \in Running : AcknowledgeCursor(r)
    BY <1>3
  <2>2. request[r].device \in Devices /\ request[r].cursor \in Nat
    BY RunningIsRequest, RequestFields
  <2> QED
    BY <2>1, <2>2, AcknowledgeOwesNoMore DEF AcknowledgeCursor
<1>4. CASE \E d \in Devices : MarkDeviceRevoked(d)
  BY <1>1, <1>4 DEF MarkDeviceRevoked, OwesNoMore
<1>5. CASE Restart /\ EvaluateDevices
  <2>1. \A d \in Devices : status'[d] \in Evaluations(d) /\ owed'[d] \in {owed[d], {}} /\ ack'[d] = ack[d]
    BY <1>5 DEF Restart, EvaluateDevices
  <2>2. \A d \in Devices : "active" \in Evaluations(d) => status[d] = "active"
    BY DEF Evaluations
  <2> QED
    BY <1>1, <2>1, <2>2 DEF OwesNoMore
<1>6. CASE UNCHANGED health
  BY <1>1, <1>6 DEF OwesNoMore, health
<1> QED
  BY <1>2, <1>3, <1>4, <1>5, <1>6
     DEF Next, InsertPairedDevice, DeletePairedDevice, SecondStatementFails, OpenSocket, Send,
         ImportAnimes, Restart, Step, ReadAcks, PruneAcknowledged, ListRows, ReadLastId, Respond, Cancel, health

\* What a delete up to k leaves of the rows the active phones are owed.
LEMMA PruneKeepsOwed ==
  ASSUME TypeOK, TypeOK', OwedRowsKept, OwesNoMore, NEW k \in Nat,
         changelog' = Kept(k),
         \A d \in Active : status'[d] = "active" => \A id \in owed'[d] : id > ack'[d] => id > k
  PROVE  OwedRowsKept'
<1>1. SUFFICES ASSUME NEW d \in Devices, status'[d] = "active", NEW id \in owed'[d], id > ack'[d]
              PROVE  id \in Ids(changelog')
  BY DEF OwedRowsKept, Active
<1>2. status[d] = "active" /\ owed'[d] \subseteq owed[d] /\ ack[d] <= ack'[d]
  BY <1>1 DEF OwesNoMore
<1>3. d \in Active /\ id \in owed[d] /\ id \in Nat /\ ack[d] \in Nat /\ ack'[d] \in Nat
  BY <1>2 DEF Active, TypeOK
<1>4. id > k
  BY <1>1, <1>3
<1>5. id > ack[d]
  BY <1>1, <1>2, <1>3
<1>6. id \in Ids(changelog)
  BY <1>3, <1>5 DEF OwedRowsKept
<1>7. PICK q \in changelog : q.id = id
  BY <1>6 DEF Ids
<1>8. q \in changelog'
  BY <1>4, <1>7 DEF Kept
<1> QED
  BY <1>7, <1>8 DEF Ids

\* Without a delete, nothing that was stored goes.
LEMMA NothingPruned ==
  ASSUME TypeOK, TypeOK', OwedRowsKept, OwesNoMore, changelog' = changelog
  PROVE  OwedRowsKept'
<1>1. SUFFICES ASSUME NEW d \in Devices, status'[d] = "active", NEW id \in owed'[d], id > ack'[d]
              PROVE  id \in Ids(changelog)
  BY DEF OwedRowsKept, Active
<1>2. status[d] = "active" /\ owed'[d] \subseteq owed[d] /\ ack[d] <= ack'[d]
  BY <1>1 DEF OwesNoMore
<1>3. d \in Active /\ id \in owed[d] /\ id \in Nat /\ ack[d] \in Nat /\ ack'[d] \in Nat
  BY <1>2 DEF Active, TypeOK
<1>4. id > ack[d]
  BY <1>1, <1>2, <1>3
<1> QED
  BY <1>3, <1>4 DEF OwedRowsKept

LEMMA WriteKeepsOwed ==
  ASSUME TypeOK, OwedRowsKept, NEW a \in Animes, WriteRow(a)
  PROVE  OwedRowsKept'
<1>1. SUFFICES ASSUME NEW d \in Devices, status[d] = "active", NEW id \in owed'[d], id > ack[d]
              PROVE  id \in Ids(changelog')
  BY DEF OwedRowsKept, Active, WriteRow
<1>2. changelog' = changelog \cup {[id |-> lastRowId', anime |-> a]}
  BY DEF WriteRow
<1>3. owed'[d] = owed[d] \cup {lastRowId'} /\ d \in Active
  BY <1>1 DEF WriteRow, Active
<1>4. CASE id = lastRowId'
  <2>1. [id |-> lastRowId', anime |-> a] \in changelog' /\ [id |-> lastRowId', anime |-> a].id = id
    BY <1>2, <1>4
  <2> QED
    BY <2>1, Zenon DEF Ids
<1>5. CASE id \in owed[d]
  BY <1>1, <1>2, <1>3, <1>5 DEF OwedRowsKept, Ids
<1> QED
  BY <1>3, <1>4, <1>5

LEMMA OwedStep ==
  ASSUME TypeOK, TypeOK', Owing, Next
  PROVE  OwedRowsKept'
<1>1. CASE \E a \in Animes : WriteRow(a)
  BY <1>1, WriteKeepsOwed DEF Owing
<1>2. CASE ~ \E a \in Animes : WriteRow(a)
  <2>1. OwesNoMore
    BY <1>2, HealthStep
  <2>2. CASE changelog' = changelog
    BY <2>1, <2>2, NothingPruned DEF Owing
  <2>3. CASE \E r \in Running : PruneAcknowledged(r)
    <3>1. PICK r \in Running : PruneAcknowledged(r)
      BY <2>3
    <3>2. request[r].upTo \in Nat /\ changelog' = Kept(request[r].upTo) /\ UNCHANGED health
      BY <3>1, RunningIsRequest, RequestFields DEF PruneAcknowledged
    <3>3. \A d \in Active : \A id \in owed[d] : id > ack[d] => id > request[r].upTo
      BY <3>1 DEF PruneAcknowledged, Owing, PrunesAreOwedNothing
    <3>4. \A d \in Active : status'[d] = "active" =>
            \A id \in owed'[d] : id > ack'[d] => id > request[r].upTo
      BY <3>2, <3>3 DEF health
    <3> QED
      BY <2>1, <3>2, <3>4, PruneKeepsOwed DEF Owing
  <2>4. CASE Restart /\ changelog' # changelog
    <3> DEFINE acks == {ack[d] : d \in {e \in Devices : status'[e] = "active"}}
    <3>1. acks # {} /\ changelog' = Kept(Min(acks)) /\ ack' = ack
      BY <2>4 DEF Restart, EvaluateDevices
    <3>2. acks \in SUBSET Nat /\ \A d \in Devices : status'[d] = "active" => ack[d] \in acks
      BY DEF TypeOK
    <3> HIDE DEF acks
    <3>3. Min(acks) \in Nat /\ \A x \in acks : Min(acks) <= x
      BY <3>1, <3>2, LeastOf
    <3>4. ASSUME NEW d \in Active, status'[d] = "active", NEW id \in owed'[d], id > ack'[d]
          PROVE  id > Min(acks)
      <4>1. d \in Devices /\ ack[d] \in acks
        BY <3>2, <3>4 DEF Active
      <4>2. id \in Nat /\ ack[d] \in Nat
        BY <3>4, <4>1 DEF TypeOK
      <4>3. Min(acks) <= ack[d]
        BY <3>3, <4>1
      <4>4. id > ack[d]
        BY <3>1, <3>4
      <4> QED
        BY <3>3, <4>2, <4>3, <4>4
    <3> QED
      BY <2>1, <3>1, <3>3, <3>4, PruneKeepsOwed DEF Owing
  <2> QED
    BY <1>2, <2>2, <2>3, <2>4
       DEF Next, InsertPairedDevice, MarkDeviceActive, DeletePairedDevice, MarkDeviceRevoked, SecondStatementFails,
           OpenSocket, Send, ImportAnimes, Step, AcknowledgeCursor, ReadAcks, ListRows, ReadLastId, Respond, Cancel,
           feed
<1> QED
  BY <1>1, <1>2

\* Every request about to delete is one that was about to, or has just read the
\* lowest ack.
LEMMA PrunesFromBefore ==
  ASSUME TypeOK, Feed, Waiting, Next, NEW q \in Running', request'[q].at = "prune"
  PROVE  \/ q \in Running /\ request[q].at = "prune" /\ request'[q].upTo = request[q].upTo
         \/ ReadAcks(q) /\ q \in Running
<1>1. q \in Requests /\ request'[q] # Idle
  BY DEF Running
<1>2. CASE UNCHANGED request
  BY <1>1, <1>2 DEF Running
<1>3. CASE Restart
  BY <1>1, <1>3 DEF Restart
<1>4. CASE \E d \in Devices, r \in Requests, over \in {"http", "socket"} : Send(r, d, over)
  <2>1. PICK d \in Devices, r \in Requests, over \in {"http", "socket"} : Send(r, d, over)
    BY <1>4
  <2>2. Sent(r, d, over)
    BY <2>1, Sends
  <2>3. q # r
    BY <2>2, FreshIsRequest, TypeParts DEF Sent
  <2>4. request'[q] = IF request[q] # Idle /\ request[q].device = d THEN Abandoned(request[q]) ELSE request[q]
    BY <1>1, <2>2, <2>3 DEF Sent
  <2>5. q \in Running /\ request[q] \in Request
    BY <1>1, <2>4, RunningIsRequest DEF Running
  <2>6. CASE request'[q] = Abandoned(request[q])
    BY <2>5, <2>6, AbandonedIsRequest
  <2>7. CASE request'[q] = request[q]
    BY <2>5, <2>7
  <2> QED
    BY <2>4, <2>6, <2>7
<1>5. CASE \E r \in Running : Step(r)
  <2>1. PICK r \in Running : Step(r)
    BY <1>5
  <2>2. CASE q # r
    <3>1. request'[q] = request[q]
      BY <1>1, <2>1, <2>2, StepMoves DEF Went, Ended, Feed, Waiting
    <3> QED
      BY <1>1, <3>1 DEF Running
  <2>3. CASE q = r
    <3>1. AcknowledgeCursor(r) => request'[r].at = "readAcks"
      BY <1>1, <2>3, AcknowledgeMoves DEF Went
    <3>2. PruneAcknowledged(r) => request'[r].at = "list"
      BY <1>1, <2>3, PruneMoves DEF Went
    <3>3. ListRows(r) => request'[r].at = "readLast"
      BY <1>1, <2>3, ListMoves DEF Went
    <3>4. ReadLastId(r) => request'[r].at = "respond"
      BY <1>1, <2>3, LastMoves DEF Went, Feed, Waiting
    <3>5. ~Respond(r) /\ ~Cancel(r)
      BY <1>1, <2>3, Ends DEF Ended, Respond, Cancel
    <3> QED
      BY <2>1, <2>3, <3>1, <3>2, <3>3, <3>4, <3>5 DEF Step
  <2> QED
    BY <2>2, <2>3
<1> QED
  BY <1>2, <1>3, <1>4, <1>5
     DEF Next, InsertPairedDevice, MarkDeviceActive, DeletePairedDevice, MarkDeviceRevoked, SecondStatementFails,
         OpenSocket, WriteRow, ImportAnimes

LEMMA PrunesStep ==
  ASSUME TypeOK, TypeOK', Feed, Waiting, AcksAreHeld, Owing, Next
  PROVE  PrunesAreOwedNothing'
<1>1. SUFFICES ASSUME NEW q \in Running', request'[q].at = "prune"
              PROVE  /\ request'[q].upTo <= lastRowId'
                     /\ \A d \in Devices : status'[d] = "active" =>
                          \A id \in owed'[d] : id > ack'[d] => id > request'[q].upTo
  BY DEF PrunesAreOwedNothing, Active
<1>2. lastRowId \in Nat /\ lastRowId' \in Nat /\ lastRowId <= lastRowId'
  <2>1. lastRowId' = lastRowId \/ lastRowId' = lastRowId + 1
    BY DEF Next, InsertPairedDevice, MarkDeviceActive, DeletePairedDevice, MarkDeviceRevoked, SecondStatementFails,
           OpenSocket, Send, WriteRow, ImportAnimes, Restart, Step, AcknowledgeCursor, ReadAcks, PruneAcknowledged,
           ListRows, ReadLastId, Respond, Cancel, feed
  <2> QED
    BY <2>1 DEF TypeOK
<1>3. CASE ReadAcks(q) /\ q \in Running
  <2>1. \E k \in Nat : /\ Went(q, "prune", k, {}, 0)
                       /\ \E d \in Active : k = ack[d]
                       /\ \A d \in Active : k <= ack[d]
    BY <1>1, <1>3, ReadAcksMoves DEF Went, Running
  <2>2. PICK k \in Nat : /\ request'[q].upTo = k
                         /\ \E d \in Active : k = ack[d]
                         /\ \A d \in Active : k <= ack[d]
    BY <1>1, <2>1 DEF Went, Running
  <2>3. UNCHANGED health
    BY <1>3 DEF ReadAcks
  <2>4. k <= lastRowId
    <3>1. PICK d \in Active : k = ack[d]
      BY <2>2
    <3>2. ack[d] <= cursor[d] /\ cursor[d] <= lastRowId /\ cursor[d] \in Nat
      BY DEF Active, AcksAreHeld, Feed, Within, TypeOK
    <3> QED
      BY <1>2, <3>1, <3>2
  <2>5. ASSUME NEW d \in Devices, status'[d] = "active", NEW id \in owed'[d], id > ack'[d]
        PROVE  id > k
    <3>1. d \in Active /\ id \in owed[d] /\ id > ack[d]
      BY <2>3, <2>5 DEF health, Active
    <3>2. id \in Nat /\ ack[d] \in Nat /\ k <= ack[d]
      BY <2>2, <3>1 DEF TypeOK
    <3> QED
      BY <3>1, <3>2
  <2> QED
    BY <1>2, <2>2, <2>4, <2>5
<1>4. CASE q \in Running /\ request[q].at = "prune" /\ request'[q].upTo = request[q].upTo
  <2>1. /\ request[q].upTo \in Nat /\ request[q].upTo <= lastRowId
        /\ \A d \in Active : \A id \in owed[d] : id > ack[d] => id > request[q].upTo
    BY <1>4, RunningIsRequest, RequestFields DEF Owing, PrunesAreOwedNothing
  <2>2. CASE \E a \in Animes : WriteRow(a)
    <3>1. PICK a \in Animes : WriteRow(a)
      BY <2>2
    <3>2. /\ lastRowId' = lastRowId + 1 /\ UNCHANGED <<ack, status>>
          /\ \A d \in Active : owed'[d] = owed[d] \cup {lastRowId'}
      BY <3>1 DEF WriteRow, Active
    <3> QED
      BY <1>2, <1>4, <2>1, <3>2 DEF Active
  <2>3. CASE ~ \E a \in Animes : WriteRow(a)
    <3>1. OwesNoMore
      BY <2>3, HealthStep
    <3>2. ASSUME NEW d \in Devices, status'[d] = "active", NEW id \in owed'[d], id > ack'[d]
          PROVE  id > request[q].upTo
      <4>1. status[d] = "active" /\ owed'[d] \subseteq owed[d] /\ ack[d] <= ack'[d]
        BY <3>1, <3>2 DEF OwesNoMore
      <4>2. d \in Active /\ id \in owed[d] /\ id \in Nat /\ ack[d] \in Nat /\ ack'[d] \in Nat
        BY <3>2, <4>1 DEF Active, TypeOK
      <4>3. id > ack[d]
        BY <3>2, <4>1, <4>2
      <4> QED
        BY <2>1, <4>2, <4>3
    <3> QED
      BY <1>2, <1>4, <2>1, <3>2
  <2> QED
    BY <2>2, <2>3
<1> QED
  BY <1>1, <1>3, <1>4, PrunesFromBefore

-----------------------------------------------------------------------------
(* The invariant and the theorems                                          *)

LEMMA InitInv == Init => Inv
<1> SUFFICES ASSUME Init PROVE Inv
  OBVIOUS
<1>1. TypeOK
  BY DEF Init, TypeOK, Statuses
<1>2. Running = {} /\ Active = {}
  BY DEF Init, Running, Active
<1>3. Feed /\ Waiting /\ AcksAreHeld /\ Owing
  BY <1>2
     DEF Init, Feed, Within, LastRowsStored, Waiting, RequestsAreHeld, OneAwaited, AcksAreHeld, Owing, OwedRowsKept,
         PrunesAreOwedNothing
<1> QED
  BY <1>1, <1>3 DEF Inv

LEMMA StutterInv == Inv /\ UNCHANGED vars => Inv'
<1> SUFFICES ASSUME Inv, UNCHANGED vars PROVE Inv'
  OBVIOUS
<1>1. UNCHANGED <<existing, changelog, lastRowId, lastRow, paired, pairing, revoking, sockets, ack, status, owed,
                  request, cursor>>
  BY DEF vars, feed, devices, health
<1> QED
  BY <1>1
     DEF Inv, TypeOK, Feed, Within, LastRowsStored, Waiting, RequestsAreHeld, OneAwaited, AcksAreHeld, Owing,
         OwedRowsKept, PrunesAreOwedNothing, Running, Active

LEMMA NextInv == Inv /\ Next => Inv'
<1> SUFFICES ASSUME Inv, Next PROVE Inv'
  OBVIOUS
<1>1. TypeOK /\ Feed /\ Within /\ Waiting /\ RequestsAreHeld /\ AcksAreHeld /\ Owing
  BY DEF Inv, Feed, Waiting
<1>2. TypeOK'
  BY <1>1, TypeStep
<1>3. Feed'
  BY <1>1, FeedStep
<1>4. Waiting'
  BY <1>1, WaitingStep
<1>5. AcksAreHeld'
  BY <1>1, AcksStep
<1>6. Owing'
  BY <1>1, <1>2, OwedStep, PrunesStep DEF Owing
<1> QED
  BY <1>2, <1>3, <1>4, <1>5, <1>6 DEF Inv

LEMMA StepInv == Inv /\ [Next]_vars => Inv'
BY NextInv, StutterInv

\* Inv holds in every reachable state; the theorems below are read off it.
THEOREM Invariance == Spec => []Inv
BY InitInv, StepInv, PTL DEF Spec

\* The tables, the requests and the phones' cursors keep their types, however
\* the requests interleave.
THEOREM TypeCorrect == Spec => []TypeOK
<1>1. Inv => TypeOK
  BY DEF Inv
<1> QED
  BY Invariance, <1>1, PTL

\* The bridge never believes a phone past what that phone holds, whichever
\* answers were lost or came late (AcknowledgeDevice, handleReconcile).
THEOREM AcksHeld == Spec => []AcksAreHeld
<1>1. Inv => AcksAreHeld
  BY DEF Inv
<1> QED
  BY Invariance, <1>1, PTL

\* No row that an active phone is owed is deleted before that phone has
\* acknowledged it, although the lowest ack is read in a statement of its own
\* (PruneAcknowledgedChangelog).
THEOREM OwedRowsStay == Spec => []OwedRowsKept
<1>1. Inv => OwedRowsKept
  BY DEF Inv, Owing
<1> QED
  BY Invariance, <1>1, PTL

\* No acknowledgement lowers a position, in whatever order a phone's requests
\* are served.
THEOREM AcksGrow == Spec => AcksNeverGoBack
<1>1. Inv /\ [Next]_vars => [\A d \in Devices : ack[d] <= ack'[d]]_vars
  <2>1. Inv /\ Next => \A d \in Devices : ack[d] <= ack'[d]
    BY AcksStep DEF Inv
  <2> QED
    BY <2>1
<1> QED
  BY Invariance, <1>1, PTL DEF Spec, AcksNeverGoBack

\* No answer moves a phone back in the feed.
THEOREM CursorsGrowOnly == Spec => CursorsNeverGoBack
<1>1. Inv /\ [Next]_vars => [\A d \in Devices : cursor[d] <= cursor'[d]]_vars
  <2>1. Inv /\ Next => \A d \in Devices : cursor[d] <= cursor'[d]
    BY CursorsGrow DEF Inv
  <2> QED
    BY <2>1
<1> QED
  BY Invariance, <1>1, PTL DEF Spec, CursorsNeverGoBack

\* What a list reads holds the last row of every anime that changed after the
\* cursor it was sent, whatever was deleted meanwhile.
LEMMA ListHoldsLastRows ==
  ASSUME TypeOK, LastRowsStored, NEW r \in Running, ListRows(r), NEW a \in existing,
         lastRow[a] > request[r].cursor
  PROVE  lastRow[a] \in request'[r].rows
<1>1. a \in Animes /\ lastRow[a] \in Nat /\ request[r].cursor \in Nat /\ r \in Requests
  BY RunningIsRequest, RequestFields DEF TypeOK
<1>2. [id |-> lastRow[a], anime |-> a] \in changelog
  BY <1>1 DEF LastRowsStored
<1>3. lastRow[a] \in Ids(changelog)
  <2>1. [id |-> lastRow[a], anime |-> a].id = lastRow[a]
    OBVIOUS
  <2> QED
    BY <1>2, <2>1, Zenon DEF Ids
<1>4. request'[r].rows = {id \in Ids(changelog) : id > request[r].cursor}
  BY ListMoves DEF Went
<1> QED
  BY <1>3, <1>4

\* A phone that lists, however far behind, misses no anime's last change.
THEOREM ListsAreComplete == Spec => ListsCatchUp
<1>1. Inv /\ [Next]_vars =>
        [\A r \in Running : ListRows(r) =>
           \A a \in existing : lastRow[a] > request[r].cursor => lastRow[a] \in request'[r].rows]_vars
  <2>1. Inv => TypeOK /\ LastRowsStored
    BY DEF Inv, Feed
  <2> QED
    BY <2>1, ListHoldsLastRows
<1> QED
  BY Invariance, <1>1, PTL DEF Spec, ListsCatchUp

=============================================================================
