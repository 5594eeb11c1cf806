----------------------------- MODULE DeviceSync -----------------------------
(***************************************************************************)
(* Which changelog rows a phone is given, and which are still kept: devices *)
(* pair, reconcile over HTTP or an open websocket, fall stale and are       *)
(* revoked, while saves append rows and an acknowledgement prunes them.     *)
(*                                                                          *)
(* Every SQL statement is one action, because none of these handlers holds  *)
(* a transaction: an acknowledgement, the read of the lowest ack, the       *)
(* delete, the list of rows and the read of the last id interleave with     *)
(* those of other requests, with saves, with pairing and with a revoke.  A  *)
(* phone may give up on a request and send another while the first one      *)
(* still runs; a request may fail or be cancelled before any of its steps.  *)
(*                                                                          *)
(* The start-up check runs before the HTTP server listens, so it is one     *)
(* action with the restart before it.                                       *)
(***************************************************************************)
EXTENDS Integers, FiniteSets, FiniteSetsExt

CONSTANTS
  Devices,    \* device ids; every pairing draws a new one
  Animes,     \* anime ids
  Requests,   \* bound: reconciles the bridge runs at once
  Idle,       \* a free request slot
  MaxRows     \* bound: changelog ids handed out in one behaviour

ASSUME DeviceSyncBounds == MaxRows \in Nat
ASSUME DevicesFinite == IsFiniteSet(Devices)

VARIABLES
  existing,   \* anime ids with a row in anime_snapshots
  changelog,  \* the changelog rows still stored
  lastRowId,  \* the AUTOINCREMENT sequence of the changelog
  paired,     \* device ids with a row in devices
  pairing,    \* devices whose PairDevice has inserted the row only
  revoking,   \* devices whose revoke has deleted the row, not yet the status
  sockets,    \* devices with an open websocket
  ack,        \* device_sync_state.last_ack_changelog_id
  status,     \* device_sync_state.sync_status; "none" without a row
  request,    \* the reconciles in flight
  cursor,     \* phone: the last_changelog_id it holds
  lastRow,    \* history: the last row each existing anime was given
  owed        \* history: rows written since a device became active, until it
              \* is stale or revoked

feed    == <<existing, changelog, lastRowId, lastRow>>
devices == <<paired, pairing, revoking>>
health  == <<ack, status, owed>>
vars == <<feed, devices, sockets, health, request, cursor>>

-----------------------------------------------------------------------------
Statuses == {"none", "active", "warning", "stale", "revoked"}
Row == [id: Nat, anime: Animes]

Request == [device: Devices, over: {"http", "socket"}, awaited: BOOLEAN,
            at: {"acknowledge", "readAcks", "prune", "list", "readLast", "respond"},
            cursor: Nat, upTo: Nat, rows: SUBSET Nat, last: Nat]

Running == {r \in Requests : request[r] # Idle}
Active  == {d \in Devices : status[d] = "active"}
Ids(S)  == {r.id : r \in S}

\* What EvaluateDeviceStaleness may make of a device: a row last seen 60 days
\* ago is stale, one seen 53 to 60 days ago is warned.  Any time may pass before
\* a start, and a row is never younger than at the start before.
Evaluations(d) ==
  CASE status[d] = "active"  -> {"active", "warning", "stale"}
    [] status[d] = "warning" -> {"warning", "stale"}
    [] OTHER -> {status[d]}

\* Mutant: the keep-last-row clause is dropped from the DELETE.
KeptNewer(k) == {r \in changelog : r.id > k}

\* The rows a prune up to k leaves.
Kept(k) == {r \in changelog :
              \/ r.id > k
              \/ r.anime \in existing /\ \A q \in changelog : q.anime = r.anime => q.id <= r.id}

-----------------------------------------------------------------------------
(* Pairing and revoking                                                    *)

\* PairDevice once the pairing token is consumed: the devices row, ...
InsertPairedDevice(d) ==
  /\ status[d] = "none" /\ d \notin paired \cup pairing \cup revoking
  /\ paired' = paired \cup {d}
  /\ pairing' = pairing \cup {d}
  /\ UNCHANGED <<feed, revoking, sockets, health, request, cursor>>

\* Mutants: the inserted status is left blank; the last acknowledgement wins.
AcknowledgeBlankStatus(d, k) ==
  /\ ack' = [ack EXCEPT ![d] = Max({@, k})]
  /\ status' = [status EXCEPT ![d] = ""]
  /\ UNCHANGED owed
AcknowledgeLastWins(d, k) ==
  /\ ack' = [ack EXCEPT ![d] = k]
  /\ status' = [status EXCEPT ![d] = "active"]
  /\ owed' = [owed EXCEPT ![d] = IF status[d] = "active" THEN @ ELSE {}]

\* The upsert of AcknowledgeDevice; an ack never goes back.
Acknowledge(d, k) ==
  /\ ack' = [ack EXCEPT ![d] = Max({@, k})]
  /\ status' = [status EXCEPT ![d] = "active"]
  /\ owed' = [owed EXCEPT ![d] = IF status[d] = "active" THEN @ ELSE {}]

\* ... then MarkDeviceActive, then the answer that carries the bearer token.
MarkDeviceActive(d) ==
  /\ d \in pairing
  /\ pairing' = pairing \ {d}
  /\ Acknowledge(d, 0)
  /\ UNCHANGED <<feed, paired, revoking, sockets, request, cursor>>

\* RevokeDevice deletes the devices row, ...
DeletePairedDevice(d) ==
  /\ d \in paired \/ status[d] # "none"
  /\ paired' = paired \ {d}
  /\ revoking' = revoking \cup {d}
  /\ UNCHANGED <<feed, pairing, sockets, health, request, cursor>>

\* ... then upserts the status, and keeps the ack.  No socket is closed.
MarkDeviceRevoked(d) ==
  /\ d \in revoking
  /\ revoking' = revoking \ {d}
  /\ status' = [status EXCEPT ![d] = "revoked"]
  /\ owed' = [owed EXCEPT ![d] = {}]
  /\ UNCHANGED <<feed, paired, pairing, sockets, ack, request, cursor>>

\* The second statement of either may fail: what the first wrote stays.
SecondStatementFails(d) ==
  /\ d \in pairing \cup revoking
  /\ \/ pairing' = pairing \ {d} /\ revoking' = revoking
     \/ pairing' = pairing /\ revoking' = revoking \ {d}
  /\ UNCHANGED <<feed, paired, sockets, health, request, cursor>>

-----------------------------------------------------------------------------
(* The library                                                             *)

\* A save that leaves a row, of a new anime or a stored one.
WriteRow(a) ==
  /\ lastRowId < MaxRows
  /\ lastRowId' = lastRowId + 1
  /\ existing' = existing \cup {a}
  /\ changelog' = changelog \cup {[id |-> lastRowId', anime |-> a]}
  /\ lastRow' = [lastRow EXCEPT ![a] = lastRowId']
  /\ owed' = [d \in Devices |-> 
                IF status[d] \in {"active", "warning"} THEN owed[d] \cup {lastRowId'} ELSE {}]
  /\ UNCHANGED <<devices, sockets, ack, status, request, cursor>>

\* A backup import replaces every anime row and leaves the changelog alone; an
\* anime it does not hold is gone, and its rows with the next prune.
ImportAnimes(S) ==
  /\ existing' = S
  /\ lastRow' = [a \in Animes |-> IF a \in S \cap existing THEN lastRow[a] ELSE 0]
  /\ UNCHANGED <<changelog, lastRowId, devices, sockets, health, request, cursor>>

-----------------------------------------------------------------------------
(* A reconcile                                                             *)

Authenticated(d) == d \in paired \ pairing /\ status[d] # "none"

\* A socket that closes is one no message comes over any more.
OpenSocket(d) ==
  /\ Authenticated(d)
  /\ sockets' = sockets \cup {d}
  /\ UNCHANGED <<feed, devices, health, request, cursor>>

\* The phone sends the cursor it holds.  HTTP authenticates every request; a
\* socket was authenticated when it opened.  A new request means the phone no
\* longer waits for an earlier one.
Send(r, d, over) ==
  /\ request[r] = Idle
  /\ IF over = "http" THEN Authenticated(d) ELSE d \in sockets
  /\ request' = [q \in Requests |->
       IF q = r THEN [device |-> d, over |-> over, awaited |-> TRUE, at |-> "acknowledge",
                      cursor |-> cursor[d], upTo |-> 0, rows |-> {}, last |-> 0]
       ELSE IF q \in Running /\ request[q].device = d
       THEN [request[q] EXCEPT !.awaited = FALSE] ELSE request[q]]
  /\ UNCHANGED <<feed, devices, sockets, health, cursor>>

\* Request r goes on: a socket message is done once the prune is.
GoTo(r, step, upTo, rows, last) ==
  request' = [request EXCEPT ![r] =
    IF step = "list" /\ @.over = "socket" THEN Idle
    ELSE [@ EXCEPT !.at = step, !.upTo = upTo, !.rows = rows, !.last = last]]

\* Mutant: the bridge acknowledges the rows it is about to answer with.
AcknowledgeAnswer(r) ==
  /\ request[r].at = "acknowledge"
  /\ Acknowledge(request[r].device, lastRowId)
  /\ GoTo(r, "readAcks", 0, {}, 0)
  /\ UNCHANGED <<feed, devices, sockets, cursor>>

AcknowledgeCursor(r) ==
  /\ request[r].at = "acknowledge"
  /\ Acknowledge(request[r].device, request[r].cursor)
  /\ GoTo(r, "readAcks", 0, {}, 0)
  /\ UNCHANGED <<feed, devices, sockets, cursor>>

\* Mutant: the prune goes up to what this request acknowledged.
ReadOwnAck(r) ==
  /\ request[r].at = "readAcks"
  /\ GoTo(r, "prune", request[r].cursor, {}, 0)
  /\ UNCHANGED <<feed, devices, sockets, health, cursor>>

\* PruneAcknowledgedChangelog reads the lowest ack of the active devices, ...
ReadAcks(r) ==
  /\ request[r].at = "readAcks"
  /\ IF \E d \in Active : TRUE
     THEN LET lowest == Min({ack[d] : d \in Active})
          IN  IF lowest > 0 THEN GoTo(r, "prune", lowest, {}, 0)
                            ELSE GoTo(r, "list", 0, {}, 0)
     ELSE GoTo(r, "list", 0, {}, 0)
  /\ UNCHANGED <<feed, devices, sockets, health, cursor>>

\* ... and then deletes.
PruneAcknowledged(r) ==
  /\ request[r].at = "prune"
  /\ changelog' = Kept(request[r].upTo)
  /\ GoTo(r, "list", 0, {}, 0)
  /\ UNCHANGED <<existing, lastRowId, lastRow, devices, sockets, health, cursor>>

\* ListAfterID, then LastID: two statements.
ListRows(r) ==
  /\ request[r].at = "list"
  /\ GoTo(r, "readLast", 0, {id \in Ids(changelog) : id > request[r].cursor}, 0)
  /\ UNCHANGED <<feed, devices, sockets, health, cursor>>

\* Mutant: the answer's cursor is the newest stored id, whatever the phone sent.
AnsweredCursorUnclamped(r) == Max(Ids(changelog) \cup {0})

\* The newest stored id, never below the cursor the phone sent.
AnsweredCursor(r) == Max(Ids(changelog) \cup {request[r].cursor})

ReadLastId(r) ==
  /\ request[r].at = "readLast"
  /\ GoTo(r, "respond", 0, request[r].rows, AnsweredCursor(r))
  /\ UNCHANGED <<feed, devices, sockets, health, cursor>>

\* The answer reaches the phone if it still waits for it.
Respond(r) ==
  /\ request[r].at = "respond"
  /\ request' = [request EXCEPT ![r] = Idle]
  /\ cursor' = IF request[r].awaited
               THEN [cursor EXCEPT ![request[r].device] = request[r].last] ELSE cursor
  /\ UNCHANGED <<feed, devices, sockets, health>>

\* Any step may fail, the client's disconnect may cancel the request, and the
\* answer may be lost; the phone keeps its cursor.
Cancel(r) ==
  /\ request' = [request EXCEPT ![r] = Idle]
  /\ UNCHANGED <<feed, devices, sockets, health, cursor>>

-----------------------------------------------------------------------------
(* Restarts                                                                *)

\* EvaluateDeviceStaleness, then PruneAcknowledgedChangelog unless it fails.
EvaluateDevices ==
  \E to \in [Devices -> Statuses] :
    LET acks == {ack[d] : d \in {e \in Devices : to[e] = "active"}}
    IN  /\ \A d \in Devices : to[d] \in Evaluations(d)
        /\ status' = to
        /\ owed' = [d \in Devices |-> 
                    IF to[d] \in {"active", "warning"} THEN owed[d] ELSE {}]
        /\ \/ changelog' = changelog
           \/ changelog' = IF acks # {} /\ Min(acks) > 0 THEN Kept(Min(acks)) ELSE changelog

\* The process ends with everything in flight; the next start evaluates the
\* devices, unless that fails.
Restart ==
  /\ pairing' = {} /\ revoking' = {} /\ sockets' = {}
  /\ request' = [r \in Requests |-> Idle]
  /\ EvaluateDevices \/ UNCHANGED <<status, owed, changelog>>
  /\ UNCHANGED <<existing, lastRowId, lastRow, paired, ack, cursor>>

-----------------------------------------------------------------------------
(* Specification                                                           *)

Init ==
  /\ existing = {} /\ changelog = {} /\ lastRowId = 0
  /\ lastRow = [a \in Animes |-> 0]
  /\ paired = {} /\ pairing = {} /\ revoking = {} /\ sockets = {}
  /\ ack = [d \in Devices |-> 0]
  /\ status = [d \in Devices |-> "none"]
  /\ owed = [d \in Devices |-> {}]
  /\ request = [r \in Requests |-> Idle]
  /\ cursor = [d \in Devices |-> 0]

Step(r) ==
  \/ AcknowledgeCursor(r) \/ ReadAcks(r) \/ PruneAcknowledged(r)
  \/ ListRows(r) \/ ReadLastId(r) \/ Respond(r) \/ Cancel(r)

Next ==
  \/ \E d \in Devices :
       \/ InsertPairedDevice(d) \/ MarkDeviceActive(d)
       \/ DeletePairedDevice(d) \/ MarkDeviceRevoked(d) \/ SecondStatementFails(d)
       \/ OpenSocket(d)
       \/ \E r \in Requests, over \in {"http", "socket"} : Send(r, d, over)
  \/ \E a \in Animes : WriteRow(a)
  \/ \E S \in SUBSET Animes : ImportAnimes(S)
  \/ \E r \in Running : Step(r)
  \/ Restart

Spec == Init /\ [][Next]_vars

-----------------------------------------------------------------------------
(* Properties                                                              *)

TypeOK ==
  /\ existing \subseteq Animes
  /\ changelog \subseteq Row
  /\ lastRowId \in Nat
  /\ lastRow \in [Animes -> Nat]
  /\ paired \subseteq Devices /\ pairing \subseteq Devices
  /\ revoking \subseteq Devices /\ sockets \subseteq Devices
  /\ ack \in [Devices -> Nat]
  /\ status \in [Devices -> Statuses]
  /\ owed \in [Devices -> SUBSET Nat]
  /\ request \in [Requests -> Request \cup {Idle}]
  /\ cursor \in [Devices -> Nat]

\* A device that stays active is given every row written since it became so:
\* none is deleted before the device acknowledged it, although the delete uses
\* a lowest ack read earlier, and acks, pairings and saves come in between.
OwedRowsKept ==
  \A d \in Active : {id \in owed[d] : id > ack[d]} \subseteq Ids(changelog)

\* The bridge never believes a phone past what that phone holds, whichever
\* answers were lost or came late: an ack above the cursor would let the prune
\* delete rows the phone still lacks.
AcksAreHeld == \A d \in Devices : ack[d] <= cursor[d]

\* An acknowledged position never goes back, also when an older request of the
\* same phone is served after a newer one.
AcksNeverGoBack == [][\A d \in Devices : ack[d] <= ack'[d]]_vars

\* "it never rewinds a caller": no answer moves a phone back in the feed, also
\* when the newest rows are gone with their animes.
CursorsNeverGoBack == [][\A d \in Devices : cursor[d] <= cursor'[d]]_vars

\* Every list, for a phone however far behind, holds the last row of each anime
\* that changed after the phone's cursor, whatever was pruned meanwhile: the
\* phone may miss steps in between, never where an anime ended up.
ListsCatchUp ==
  [][\A r \in Running : ListRows(r) =>
       \A a \in existing : lastRow[a] > request[r].cursor => lastRow[a] \in request'[r].rows]_vars

\* What the API promises of an answer: it returns the rows newer than the cursor
\* sent, up to the cursor the client should now hold.
AnswersAreComplete ==
  \A r \in Running : request[r].at = "respond" =>
    \A id \in Ids(changelog) :
      request[r].cursor < id /\ id <= request[r].last => id \in request[r].rows

\* What the warning says: a warned device is not yet one whose old changes the
\* bridge has stopped preserving ("if it does not reconnect soon, ...").
WarnedRowsKept ==
  \A d \in Devices : status[d] = "warning" =>
    {id \in owed[d] : id > ack[d]} \subseteq Ids(changelog)

\* "a device that can no longer participate in sync" stays one once its pairing
\* has ended.
RevokedStaysRevoked ==
  [][\A d \in Devices \ pairing : status[d] = "revoked" => status'[d] = "revoked"]_vars

=============================================================================
