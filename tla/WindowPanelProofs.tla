-------------------------- MODULE WindowPanelProofs --------------------------
(***************************************************************************)
(* Proofs about the parts of the window that show one thing and the        *)
(* answers that arrive for it: the shortcuts, the library root, the        *)
(* metadata lookup, the inspector of the History page, the notification    *)
(* pane with the badge of the rail, and the lists of watched episodes, for *)
(* any values of the constants that each part's assumptions allow.         *)
(*                                                                         *)
(* Each part has the component's inductive invariant, the lemma that each  *)
(* of its actions keeps it, and what it says of the component's promises.  *)
(* FrontendProofs carries the results over to the window as a whole.       *)
(***************************************************************************)
EXTENDS Naturals, Sequences, FiniteSets, WellFoundedInduction, FiniteSetTheorems, SequenceTheorems, TLAPS

CONSTANTS
  None,
  LibraryAnimes, Roots, LibraryCalls, LibraryTyped, LibraryWrites,
  Queries, Short, LookupName, LookupTyped, LookupConfirms,
  Commands, Chords, KeymapCalls, ScopeOf, Shipped, Backups,
  Animes, Covered, InspectorVisits,
  PaneSeeded, PaneRecords, PaneCalls,
  Scopes, Log, PageSize, MaxGenerations, MaxRequests, Unmatched, Day(_)

VARIABLES
  root, folder, version, calls, made, typed, baseline, saving, pending, edits, writes,
  strayed, crossed, left, unread, doubled, moved, stranded,
  open, seeded, query, timer, snapshot, cache, highlighted, confirming, filled, pressed,
  overtaken, unseen, hung,
  stored, overrides, status, broken, brought, tookBack, blank,
  selected, recents, cover, asked, visits,
  read, gone, changes, pushes, badge, dots, opened, shown, settled, archiving,
  unmarking, seen, counted, uncounted,
  scope, generation, inflight, rows, cursor, fetching, hasMore, loading, failed,
  expanded, catalog

Library == INSTANCE LibraryRoot WITH
  Animes <- LibraryAnimes, MaxCalls <- LibraryCalls, MaxTyped <- LibraryTyped, MaxWrites <- LibraryWrites
Lookup == INSTANCE MetadataLookup WITH
  Name <- LookupName, MaxTyped <- LookupTyped, MaxConfirms <- LookupConfirms
Keymap == INSTANCE KeymapPanel WITH MaxCalls <- KeymapCalls
Inspector == INSTANCE HistoryInspector WITH MaxVisits <- InspectorVisits
Pane == INSTANCE NotificationPane WITH
  Seeded <- PaneSeeded, MaxRecords <- PaneRecords, MaxCalls <- PaneCalls
Watch == INSTANCE WatchEpisodes
History == INSTANCE HistoryTimeline

-----------------------------------------------------------------------------
(* Numbers                                                                 *)

Below == {p \in Nat \X Nat : p[1] < p[2]}

LEMMA BelowIsLess == Below = OpToRel(<, Nat)
BY Zenon DEF Below, OpToRel

LEMMA NoneBelow ==
  ASSUME NEW m \in Nat, NEW n \in Nat, <<n, m>> \notin Below
  PROVE  m <= n
<1>1. <<n, m>> \in Nat \X Nat /\ <<n, m>>[1] = n /\ <<n, m>>[2] = m
  OBVIOUS
<1>2. ~(n < m)
  BY <1>1, Zenon DEF Below
<1> QED
  BY <1>2

\* A set of naturals that is not empty has a least element.
LEMMA HasLeast ==
  ASSUME NEW S \in SUBSET Nat, S # {}
  PROVE  \E n \in S : \A m \in S : n <= m
<1>1. \E n \in S : \A m \in S : <<m, n>> \notin OpToRel(<, Nat)
  BY NatLessThanWellFounded, WFMin, Zenon
<1>2. PICK n \in S : \A m \in S : <<m, n>> \notin Below
  BY <1>1, BelowIsLess, Zenon
<1> QED
  BY <1>2, NoneBelow

\* A bounded one has a greatest element.
LEMMA HasGreatest ==
  ASSUME NEW S \in SUBSET Nat, S # {}, NEW b \in Nat, \A x \in S : x <= b
  PROVE  \E n \in S : \A m \in S : m <= n
<1> DEFINE T == {n \in Nat : \E x \in S : n = b - x}
<1>1. PICK x \in S : TRUE
  OBVIOUS
<1>2. b - x \in Nat
  BY <1>1
<1>3. T \in SUBSET Nat /\ T # {}
  BY <1>1, <1>2
<1>4. PICK n \in T : \A m \in T : n <= m
  BY <1>3, HasLeast
<1>5. PICK y \in S : n = b - y
  BY <1>4
<1>6. ASSUME NEW z \in S PROVE z <= y
  <2>1. b - z \in Nat
    OBVIOUS
  <2>2. b - z \in T
    BY <2>1
  <2>3. n <= b - z
    BY <1>4, <2>2
  <2> QED
    BY <1>5, <2>3
<1> QED
  BY <1>6

-----------------------------------------------------------------------------
(* The shortcuts.  Commands of one scope share a chord, in a document that is *)
(* stored, published or on its way, as they did in a document stored before  *)
(* or imported, or as a revert made them.                                    *)

Shares(o, c, d) ==
  c # d /\ ScopeOf[c] = ScopeOf[d] /\ Keymap!Effective(o)[c] = Keymap!Effective(o)[d]
Known(o) == \A c, d \in Commands : Shares(o, c, d) => <<c, d>> \in brought \cup tookBack

\* The shipped chords do not clash; documents are any, but of known commands.
KeymapAssumptions ==
  /\ KeymapCalls \in Nat /\ IsFiniteSet(Keymap!Scopes)
  /\ \A c, d \in Commands : ~Shares(Keymap!Nothing, c, d)
  /\ Backups \subseteq Keymap!Documents

KeymapCall ==
  [kind : {"load", "save", "import"}, doc : Keymap!Documents, id : Nat, here : BOOLEAN,
   step : {"sent", "served"}, answer : {"none", "ok", "blank", "throws", "refused"}]

KeymapTypes == Keymap!TypeOK /\ made \in Nat /\ calls \subseteq KeymapCall

AllKnown == Known(stored) /\ Known(overrides) /\ \A c \in calls : c.kind # "import" => Known(c.doc)

KeymapInv == KeymapTypes /\ AllKnown

LEMMA KeymapClash ==
  ASSUME NEW o, NEW c \in Commands, NEW d \in Commands
  PROVE  <<c, d>> \in Keymap!Clashes(o) <=> Shares(o, c, d)
<1>1. <<c, d>> \in Commands \X Commands /\ <<c, d>>[1] = c /\ <<c, d>>[2] = d
  OBVIOUS
<1> QED
  BY <1>1, Zenon DEF Keymap!Clashes, Shares

\* An override that repeats the shipped chord says nothing.
LEMMA KeymapPruneIsSilent ==
  ASSUME NEW o \in Keymap!Documents
  PROVE  /\ Keymap!Prune(o) \in Keymap!Documents
         /\ Keymap!Effective(Keymap!Prune(o)) = Keymap!Effective(o)
BY DEF Keymap!Documents, Keymap!Prune, Keymap!Effective

\* One chord changed, and not to one that is taken, shares no more than before.
LEMMA KeymapOneChanged ==
  ASSUME NEW o, NEW p, NEW c \in Commands, ~Keymap!Collides(p, c),
         \A d \in Commands \ {c} : Keymap!Effective(p)[d] = Keymap!Effective(o)[d]
  PROVE  \A d, e \in Commands : Shares(p, d, e) => Shares(o, d, e)
<1> SUFFICES ASSUME NEW d \in Commands, NEW e \in Commands, Shares(p, d, e) PROVE Shares(o, d, e)
  OBVIOUS
<1>1. \A x \in Commands \ {c} : ~(ScopeOf[x] = ScopeOf[c]
          /\ Keymap!Effective(p)[x] = Keymap!Effective(p)[c])
  BY DEF Keymap!Collides
<1>2. d # c /\ e # c
  BY <1>1 DEF Shares
<1> QED
  BY <1>2 DEF Shares

LEMMA KeymapInit ==
  ASSUME KeymapAssumptions, Keymap!Init PROVE KeymapInv
<1>1. Keymap!Nothing \in Keymap!Documents
  BY DEF Keymap!Nothing, Keymap!Documents
<1>2. /\ stored \in Keymap!Documents /\ overrides = Keymap!Nothing /\ status = "pending"
            /\ broken = FALSE /\ made = 0
      /\ brought = Keymap!Clashes(stored) /\ tookBack = {} /\ crossed = FALSE /\ blank = FALSE
  BY DEF Keymap!Init, KeymapAssumptions
<1>3. calls \subseteq KeymapCall /\ \A c \in calls : c.doc = Keymap!Nothing /\ c.id = 0
  BY <1>1 DEF Keymap!Init, KeymapCall
<1>a. KeymapCalls \in Nat
  BY DEF KeymapAssumptions
<1>b. {broken, crossed, blank} \subseteq BOOLEAN
  BY <1>2
<1>c. brought \cup tookBack \subseteq Commands \X Commands
  BY <1>2 DEF Keymap!Clashes
<1>4. made <= KeymapCalls
  BY <1>2, <1>a
<1>5. Keymap!TypeOK
  BY <1>1, <1>2, <1>3, <1>4, <1>b, <1>c DEF Keymap!TypeOK, KeymapCall
<1>6. Known(stored)
  BY <1>2, KeymapClash DEF Known
<1>7. Known(Keymap!Nothing)
  BY DEF Known, KeymapAssumptions
<1> QED
  BY <1>2, <1>3, <1>5, <1>6, <1>7 DEF KeymapInv, KeymapTypes, AllKnown

\* A call sent, whose document the panel saves only when what it shares is known.
LEMMA KeymapSent ==
  ASSUME KeymapAssumptions, KeymapInv, NEW kind \in {"save", "import"}, NEW doc \in Keymap!Documents,
         Keymap!Send(Keymap!Call(kind, doc)), UNCHANGED <<stored, overrides, status, broken, brought, blank>>,
         tookBack' \subseteq Commands \X Commands, tookBack \subseteq tookBack',
         kind = "save" =>
           \A c, d \in Commands : Shares(doc, c, d) => <<c, d>> \in brought \cup tookBack'
  PROVE  KeymapInv'
<1> DEFINE n == Keymap!Call(kind, doc)
<1>1. n \in KeymapCall /\ n.kind = kind /\ n.doc = doc /\ n.id = made + 1
  BY DEF Keymap!Call, KeymapCall, KeymapInv, KeymapTypes
<1>2. made < KeymapCalls /\ made' = made + 1 /\ calls' = calls \cup {n}
          /\ crossed' = (crossed \/ calls # {})
  BY DEF Keymap!Send
<1> HIDE DEF n
<1>3. crossed' \in BOOLEAN /\ made' \in Nat
  BY <1>2 DEF KeymapInv, KeymapTypes, Keymap!TypeOK
<1>4. KeymapTypes'
  <2>1. made' <= KeymapCalls /\ \A c \in calls' : c.kind \in {"load", "save", "import"}
            /\ c.doc \in Keymap!Documents /\ c.id <= made'
    BY <1>1, <1>2 DEF KeymapInv, KeymapTypes, KeymapCall, KeymapAssumptions, Keymap!TypeOK
  <2>2. brought' \cup tookBack' \subseteq Commands \X Commands
    BY DEF KeymapInv, KeymapTypes, Keymap!TypeOK
  <2> QED
    BY <1>1, <1>2, <1>3, <2>1, <2>2 DEF KeymapInv, KeymapTypes, Keymap!TypeOK
<1>5. AllKnown'
  <2>1. Known(stored)' /\ Known(overrides)'
    BY DEF KeymapInv, AllKnown, Known, Shares
  <2>2. ASSUME NEW c \in calls', c.kind # "import" PROVE Known(c.doc)'
    BY <1>1, <1>2, <2>2 DEF KeymapInv, AllKnown, Known, Shares
  <2> QED
    BY <2>1, <2>2 DEF AllKnown
<1> QED
  BY <1>4, <1>5 DEF KeymapInv

LEMMA KeymapRebind ==
  ASSUME KeymapAssumptions, KeymapInv, NEW c \in Commands, NEW chord \in Chords, Keymap!Rebind(c, chord)
  PROVE  KeymapInv'
<1> DEFINE o == [overrides EXCEPT ![c] = chord]
           p == Keymap!Prune(o)
<1>1. o \in Keymap!Documents /\ \A d \in Commands \ {c} : o[d] = overrides[d]
  BY DEF KeymapInv, KeymapTypes, Keymap!TypeOK, Keymap!Documents
<1>2. p \in Keymap!Documents /\ Keymap!Effective(p) = Keymap!Effective(o)
  BY <1>1, KeymapPruneIsSilent
<1>3. \A d \in Commands \ {c} : Keymap!Effective(o)[d] = Keymap!Effective(overrides)[d]
  BY <1>1 DEF Keymap!Effective
<1>4. ~Keymap!Collides(p, c) /\ Keymap!Send(Keymap!Call("save", p))
          /\ UNCHANGED <<stored, overrides, status, broken, brought, tookBack, blank>>
  BY DEF Keymap!Rebind
<1> HIDE DEF o, p
<1>5. \A d, e \in Commands : Shares(p, d, e) => Shares(overrides, d, e)
  BY <1>2, <1>3, <1>4, KeymapOneChanged
<1>6. \A d, e \in Commands : Shares(p, d, e) => <<d, e>> \in brought \cup tookBack'
  BY <1>4, <1>5 DEF KeymapInv, AllKnown, Known
<1>7. tookBack' \subseteq Commands \X Commands /\ tookBack \subseteq tookBack'
  BY <1>4 DEF KeymapInv, KeymapTypes, Keymap!TypeOK
<1> QED
  BY <1>2, <1>4, <1>6, <1>7, KeymapSent

LEMMA KeymapRevert ==
  ASSUME KeymapAssumptions, KeymapInv, NEW c \in Commands, Keymap!Revert(c)
  PROVE  KeymapInv'
<1> DEFINE o == [overrides EXCEPT ![c] = None]
<1>1. o \in Keymap!Documents
  BY DEF KeymapInv, KeymapTypes, Keymap!TypeOK, Keymap!Documents
<1>3. /\ Keymap!Send(Keymap!Call("save", o))
      /\ UNCHANGED <<stored, overrides, status, broken, brought, blank>>
      /\ tookBack' = tookBack \cup (Keymap!Clashes(o) \ Keymap!Clashes(overrides))
  BY DEF Keymap!Revert
<1> HIDE DEF o
<1>4. ASSUME NEW d \in Commands, NEW e \in Commands, Shares(o, d, e)
      PROVE  <<d, e>> \in brought \cup tookBack'
  <2>1. <<d, e>> \in Keymap!Clashes(o)
    BY <1>4, KeymapClash
  <2>2. <<d, e>> \in Keymap!Clashes(overrides) => <<d, e>> \in brought \cup tookBack
    BY KeymapClash DEF KeymapInv, AllKnown, Known
  <2> QED
    BY <1>3, <2>1, <2>2
<1>5. tookBack' \subseteq Commands \X Commands /\ tookBack \subseteq tookBack'
  BY <1>3 DEF KeymapInv, KeymapTypes, Keymap!TypeOK, Keymap!Clashes
<1> QED
  BY <1>1, <1>3, <1>4, <1>5, KeymapSent

LEMMA KeymapSends ==
  ASSUME KeymapAssumptions, KeymapInv,
         Keymap!Reset \/ \E doc \in Backups : Keymap!Import(doc)
  PROVE  KeymapInv'
<1>1. Keymap!Nothing \in Keymap!Documents /\ tookBack \subseteq Commands \X Commands
  BY DEF Keymap!Nothing, Keymap!Documents, KeymapInv, KeymapTypes, Keymap!TypeOK
<1>2. CASE Keymap!Reset
  <2>1. Keymap!Send(Keymap!Call("save", Keymap!Nothing))
          /\ UNCHANGED <<stored, overrides, status, broken, brought, tookBack, blank>>
    BY <1>2 DEF Keymap!Reset
  <2>2. \A d, e \in Commands : Shares(Keymap!Nothing, d, e) => <<d, e>> \in brought \cup tookBack'
    BY DEF KeymapAssumptions
  <2> QED
    BY <1>1, <2>1, <2>2, KeymapSent
<1>3. ASSUME NEW doc \in Backups, Keymap!Import(doc) PROVE KeymapInv'
  <2>1. Keymap!Send(Keymap!Call("import", doc)) /\ doc \in Keymap!Documents
          /\ UNCHANGED <<stored, overrides, status, broken, brought, tookBack, blank>>
    BY <1>3 DEF Keymap!Import, KeymapAssumptions
  <2> QED
    BY <1>1, <2>1, KeymapSent
<1> QED
  BY <1>2, <1>3

LEMMA KeymapReopen ==
  ASSUME KeymapInv, Keymap!Reopen
  PROVE  KeymapInv'
<1> DEFINE off(c) == [c EXCEPT !.here = FALSE]
<1>1. \A c \in calls : /\ off(c) \in KeymapCall /\ off(c).kind = c.kind /\ off(c).id = c.id
                          /\ off(c).doc = c.doc
  BY DEF KeymapInv, KeymapTypes, KeymapCall
<1>2. /\ broken' = FALSE /\ calls' = {off(c) : c \in calls}
            /\ UNCHANGED <<stored, overrides, status, made, brought, tookBack, crossed, blank>>
  BY DEF Keymap!Reopen, Keymap!past
<1> HIDE DEF off
<1>3. KeymapTypes'
  <2>1. calls' \subseteq KeymapCall /\ \A c \in calls' : c.id <= made'
    BY <1>1, <1>2 DEF KeymapInv, KeymapTypes, Keymap!TypeOK
  <2>2. \A c \in calls' : c.kind \in {"load", "save", "import"} /\ c.doc \in Keymap!Documents
    BY <2>1 DEF KeymapCall
  <2> QED
    BY <1>2, <2>1, <2>2 DEF KeymapInv, KeymapTypes, Keymap!TypeOK
<1>4. AllKnown'
  BY <1>1, <1>2 DEF KeymapInv, AllKnown, Known, Shares
<1> QED
  BY <1>3, <1>4 DEF KeymapInv

LEMMA KeymapServe ==
  ASSUME KeymapAssumptions, KeymapInv, NEW c \in calls,
         \/ \E ok \in BOOLEAN : Keymap!ServeWrite(c, ok)
         \/ \E answer \in {"ok", "blank", "throws"} : Keymap!ServeLoad(c, answer)
  PROVE  KeymapInv'
<1>0. /\ KeymapTypes /\ c \in KeymapCall /\ stored \in Keymap!Documents
      /\ Keymap!Nothing \in Keymap!Documents /\ \A d, e \in Commands : ~Shares(Keymap!Nothing, d, e)
  BY DEF KeymapInv, KeymapTypes, Keymap!TypeOK, Keymap!Nothing, Keymap!Documents, KeymapAssumptions
<1>1. ASSUME NEW ok \in BOOLEAN, Keymap!ServeWrite(c, ok) PROVE KeymapInv'
  <2> DEFINE n == [c EXCEPT !.step = "served", !.answer = IF ok THEN "ok" ELSE "refused"]
  <2>1. n \in KeymapCall /\ n.kind = c.kind /\ n.id = c.id /\ n.doc = c.doc
    BY <1>0 DEF KeymapCall
  <2>2. /\ calls' = (calls \ {c}) \cup {n} /\ stored' = IF ok THEN c.doc ELSE stored
        /\ brought' = (IF ok /\ c.kind = "import" THEN brought \cup Keymap!Clashes(c.doc) ELSE brought)
        /\ UNCHANGED <<overrides, status, broken, made, tookBack, crossed, blank>>
    BY <1>1 DEF Keymap!ServeWrite, Keymap!Step
  <2> HIDE DEF n
  <2>a. brought \subseteq brought' /\ brought' \subseteq Commands \X Commands
    BY <1>0, <2>2 DEF KeymapTypes, Keymap!TypeOK, Keymap!Clashes
  <2>3. KeymapTypes'
    BY <1>0, <2>1, <2>2, <2>a DEF KeymapTypes, Keymap!TypeOK, KeymapCall
  <2>b. Known(stored)'
    <3>1. CASE ok /\ c.kind = "import"
      BY <2>2, <3>1, KeymapClash DEF Known, Shares
    <3>2. CASE ok /\ c.kind # "import"
      BY <2>2, <3>2 DEF KeymapInv, AllKnown, Known, Shares
    <3>3. CASE ~ok
      BY <2>2, <3>3 DEF KeymapInv, AllKnown, Known, Shares
    <3> QED
      BY <3>1, <3>2, <3>3
  <2>4. AllKnown'
    <3>1. Known(overrides)'
      BY <2>2, <2>a DEF KeymapInv, AllKnown, Known, Shares
    <3>2. ASSUME NEW x \in calls', x.kind # "import" PROVE Known(x.doc)'
      BY <2>1, <2>2, <2>a, <3>2 DEF KeymapInv, AllKnown, Known, Shares
    <3> QED
      BY <2>b, <3>1, <3>2 DEF AllKnown
  <2> QED
    BY <2>3, <2>4 DEF KeymapInv
<1>2. ASSUME NEW answer \in {"ok", "blank", "throws"}, Keymap!ServeLoad(c, answer) PROVE KeymapInv'
  <2>0. PICK n : n = [c EXCEPT !.step = "served", !.answer = answer,
          !.doc = IF answer = "ok" THEN stored ELSE Keymap!Nothing]
    OBVIOUS
  <2>1. n \in KeymapCall /\ n.kind = c.kind /\ n.id = c.id /\ n.doc = IF answer = "ok" THEN stored
            ELSE Keymap!Nothing
    BY <1>0, <2>0 DEF KeymapCall
  <2>2. /\ calls' = (calls \ {c}) \cup {n} /\ blank' = (blank \/ answer = "blank")
        /\ UNCHANGED <<stored, overrides, status, broken, made, brought, tookBack, crossed>>
    BY <1>2, <2>0 DEF Keymap!ServeLoad, Keymap!Step
  <2>3. blank' \in BOOLEAN
    BY <1>0, <2>2 DEF KeymapTypes, Keymap!TypeOK
  <2>4. KeymapTypes'
    BY <1>0, <2>1, <2>2, <2>3 DEF KeymapTypes, Keymap!TypeOK, KeymapCall
  <2>5. AllKnown'
    <3>1. Known(stored)' /\ Known(overrides)'
      BY <2>2 DEF KeymapInv, AllKnown, Known, Shares
    <3>2. Known(n.doc)'
      BY <1>0, <2>1, <2>2, <3>1 DEF Known, Shares
    <3>3. ASSUME NEW x \in calls \ {c}, x.kind # "import" PROVE Known(x.doc)'
      BY <2>2, <3>3 DEF KeymapInv, AllKnown, Known, Shares
    <3> QED
      BY <2>2, <3>1, <3>2, <3>3 DEF AllKnown
  <2> QED
    BY <2>4, <2>5 DEF KeymapInv
<1> QED
  BY <1>1, <1>2

LEMMA KeymapAnswers ==
  ASSUME KeymapAssumptions, KeymapInv, NEW c \in calls, Keymap!Loaded(c) \/ Keymap!Saved(c)
  PROVE  KeymapInv'
<1>0. KeymapTypes /\ c \in KeymapCall
  BY DEF KeymapInv, KeymapTypes
<1>1. /\ calls' = calls \ {c} /\ overrides' \in {overrides, c.doc}
            /\ status' \in {"pending", "loaded", "failed"}
      /\ c.kind # "import"
      /\ UNCHANGED <<stored, made, brought, tookBack, crossed, blank>> /\ broken' \in BOOLEAN
  BY <1>0 DEF Keymap!Loaded, Keymap!Saved, KeymapTypes, Keymap!TypeOK, KeymapCall, Keymap!past
<1>2. KeymapTypes'
  BY <1>0, <1>1 DEF KeymapTypes, Keymap!TypeOK, KeymapCall
<1>3. AllKnown'
  BY <1>1 DEF KeymapInv, AllKnown, Known, Shares
<1> QED
  BY <1>2, <1>3 DEF KeymapInv

LEMMA KeymapImported ==
  ASSUME KeymapAssumptions, KeymapInv, NEW c \in calls, Keymap!Imported(c)
  PROVE  KeymapInv'
<1>0. /\ KeymapTypes /\ c \in KeymapCall /\ Keymap!Nothing \in Keymap!Documents
      /\ \A d, e \in Commands : ~Shares(Keymap!Nothing, d, e)
  BY DEF KeymapInv, KeymapTypes, Keymap!Nothing, Keymap!Documents, KeymapAssumptions
<1> DEFINE n == [c EXCEPT !.kind = "load", !.doc = Keymap!Nothing, !.step = "sent", !.answer = "none"]
<1>1. n \in KeymapCall /\ n.id = c.id /\ n.doc = Keymap!Nothing
  BY <1>0 DEF KeymapCall
<1>2. calls' \subseteq calls \cup {n} /\ UNCHANGED <<stored, overrides, status, broken, made,
          brought, tookBack, crossed, blank>>
  BY DEF Keymap!Imported, Keymap!past
<1> HIDE DEF n
<1>3. KeymapTypes'
  BY <1>0, <1>1, <1>2 DEF KeymapTypes, Keymap!TypeOK, KeymapCall
<1>4. AllKnown'
  BY <1>0, <1>1, <1>2 DEF KeymapInv, AllKnown, Known, Shares
<1> QED
  BY <1>3, <1>4 DEF KeymapInv

LEMMA KeymapStepKeepsInv ==
  ASSUME KeymapAssumptions, KeymapInv, [Keymap!Next]_(Keymap!vars)
  PROVE  KeymapInv'
<1>1. CASE UNCHANGED Keymap!vars
  BY <1>1 DEF Keymap!vars, Keymap!past, KeymapInv, KeymapTypes, Keymap!TypeOK, AllKnown, Known, Shares
<1>2. ASSUME NEW c \in Commands, Keymap!Revert(c) \/ \E chord \in Chords : Keymap!Rebind(c, chord)
             PROVE KeymapInv'
  BY <1>2, KeymapRevert, KeymapRebind
<1>3. CASE Keymap!Reset \/ Keymap!Reopen \/ \E doc \in Backups : Keymap!Import(doc)
  BY <1>3, KeymapSends, KeymapReopen
<1>4. ASSUME NEW c \in calls, Keymap!Loaded(c) \/ Keymap!Saved(c) \/ Keymap!Imported(c) PROVE KeymapInv'
  BY <1>4, KeymapAnswers, KeymapImported
<1>5. ASSUME NEW c \in calls,
             \/ \E ok \in BOOLEAN : Keymap!ServeWrite(c, ok)
             \/ \E answer \in {"ok", "blank", "throws"} : Keymap!ServeLoad(c, answer)
      PROVE  KeymapInv'
  BY <1>5, KeymapServe
<1> QED
  BY <1>1, <1>2, <1>3, <1>4, <1>5 DEF Keymap!Next

\* With a known document the dispatcher's lookup returns the command that is listed, and
\* those that are known to share its chord.
LEMMA KeymapLookup ==
  ASSUME KeymapAssumptions, Known(overrides), NEW c \in Commands, NEW frames \in Keymap!Stacks
  PROVE  LET owners == Keymap!Resolve(Keymap!Effective(overrides)[c], frames)
         IN \/ c \in owners /\ \A d \in owners \ {c} : <<c, d>> \in brought \cup tookBack
            \/ \E d \in owners : ScopeOf[d] \notin {"global", ScopeOf[c]}
            \/ ScopeOf[c] # "global" /\ \A i \in DOMAIN frames : frames[i] # ScopeOf[c]
<1> DEFINE chord == Keymap!Effective(overrides)[c]
           Owners(s) == {d \in Commands : ScopeOf[d] = s /\ Keymap!Effective(overrides)[d] = chord}
           inner == {i \in DOMAIN frames : Owners(frames[i]) # {}}
           last == CHOOSE i \in inner : \A j \in inner : j <= i
           owners == Keymap!Resolve(chord, frames)
<1>1. owners = IF inner # {} THEN Owners(frames[last]) ELSE Owners("global")
  BY DEF Keymap!Resolve
<1>2. Cardinality(Keymap!Scopes) \in Nat
  BY FS_CardinalityType DEF KeymapAssumptions
<1>3. PICK n \in 0..Cardinality(Keymap!Scopes) : frames \in [1..n -> Keymap!Scopes]
  <2> DEFINE Of(n) == {f \in [1..n -> Keymap!Scopes] : Keymap!IsInjective(f)}
  <2>1. Keymap!Stacks = UNION {Of(n) : n \in 0..Cardinality(Keymap!Scopes)}
    BY Zenon DEF Keymap!Stacks, Cardinality, Keymap!Cardinality
  <2>2. \A n : Of(n) \subseteq [1..n -> Keymap!Scopes]
    OBVIOUS
  <2> HIDE DEF Of
  <2> QED
    BY <2>1, <2>2
<1>4. inner # {} => last \in inner
  <2> SUFFICES ASSUME inner # {} PROVE last \in inner
    OBVIOUS
  <2>1. n \in Nat /\ inner \in SUBSET Nat /\ \A x \in inner : x <= n
    BY <1>2, <1>3
  <2>2. \E i \in inner : \A j \in inner : j <= i
    BY <2>1, HasGreatest
  <2> QED
    BY <2>2
<1>5. c \in Owners(ScopeOf[c]) /\ \A d \in Owners(ScopeOf[c]) \ {c} : <<c, d>> \in brought \cup tookBack
  BY DEF Known, Shares
<1>6. \A i \in DOMAIN frames : frames[i] # "global"
  BY <1>3 DEF Keymap!Scopes
<1> HIDE DEF chord, last
<1>7. CASE inner # {}
  BY <1>1, <1>4, <1>5, <1>6, <1>7
<1>8. CASE inner = {}
  BY <1>1, <1>5, <1>8
<1> QED
  BY <1>7, <1>8 DEF chord

LEMMA KeymapPromises ==
  KeymapAssumptions /\ KeymapInv => Keymap!TypeOK /\ Keymap!CommandsAnswer
BY KeymapLookup, Zenon DEF KeymapInv, KeymapTypes, AllKnown, Keymap!CommandsAnswer

\* Calls that did not cross are one at a time; what it will publish is the stored document,
\* or, before it is served and when it is refused, what is published already is.
InForce == status = "loaded" => overrides = stored
Telling(c) ==
  \/ c.kind = "load" /\ (c.step = "sent" \/ c.answer = "throws" \/ c.doc = stored)
  \/ c.kind # "load" /\ c.step = "sent" /\ InForce
  \/ c.step = "served" /\ c.kind = "save" /\ c.answer = "ok" /\ c.doc = stored
  \/ c.step = "served" /\ c.kind = "import" /\ c.answer = "ok"
  \/ c.step = "served" /\ c.kind # "load" /\ c.answer = "refused" /\ InForce
KeymapSettled ==
  ~crossed =>
    /\ \A c, d \in calls : c = d
    /\ ~blank => /\ calls = {} => InForce
                 /\ \A c \in calls : Telling(c)
KeymapWhole == KeymapInv /\ KeymapSettled

LEMMA KeymapWholeInit ==
  ASSUME KeymapAssumptions, Keymap!Init PROVE KeymapWhole
<1>1. PICK n : n = [kind |-> "load", doc |-> Keymap!Nothing, id |-> 0, here |-> TRUE,
          step |-> "sent", answer |-> "none"]
  OBVIOUS
<1>2. calls = {n} /\ Telling(n)
  BY <1>1 DEF Keymap!Init, Telling
<1> QED
  BY <1>2, KeymapInit DEF KeymapWhole, KeymapSettled

\* A call replaced by another, or answered.
LEMMA KeymapTurned ==
  ASSUME KeymapWhole, NEW c \in calls, NEW S, calls' = (calls \ {c}) \cup S,
         \A x, y \in S : x = y, UNCHANGED crossed, blank => blank',
         ~crossed /\ ~blank' /\ Telling(c) => (S = {} => InForce') /\ \A x \in S : Telling(x)'
  PROVE  KeymapSettled'
<1>1. SUFFICES ASSUME ~crossed PROVE KeymapSettled'
  BY DEF KeymapSettled
<1>2. calls = {c}
  BY <1>1 DEF KeymapWhole, KeymapSettled
<1>3. calls' = S
  BY <1>2
<1>4. ~blank => Telling(c)
  BY <1>1 DEF KeymapWhole, KeymapSettled
<1>5. ~blank' => (calls' = {} => InForce') /\ \A x \in calls' : Telling(x)'
  BY <1>1, <1>3, <1>4
<1> QED
  BY <1>3, <1>5 DEF KeymapSettled

LEMMA KeymapCallTurns ==
  ASSUME KeymapWhole, NEW c \in calls,
         \/ Keymap!Loaded(c) \/ Keymap!Saved(c) \/ Keymap!Imported(c)
         \/ \E ok \in BOOLEAN : Keymap!ServeWrite(c, ok)
         \/ \E answer \in {"ok", "blank", "throws"} : Keymap!ServeLoad(c, answer)
  PROVE  KeymapSettled'
<1>0. c \in KeymapCall /\ blank \in BOOLEAN
  BY DEF KeymapWhole, KeymapInv, KeymapTypes, Keymap!TypeOK
<1>1. CASE Keymap!Loaded(c)
  <2>1. /\ c.kind = "load" /\ c.step = "served" /\ calls' = (calls \ {c}) \cup {}
        /\ overrides' = c.doc /\ status' = (IF c.answer = "throws" THEN "failed" ELSE "loaded")
        /\ UNCHANGED <<stored, crossed, blank>>
    BY <1>1 DEF Keymap!Loaded, Keymap!past
  <2>2. Telling(c) => InForce'
    BY <2>1 DEF Telling, InForce
  <2>3. PICK S : S = {}
    OBVIOUS
  <2>4. calls' = (calls \ {c}) \cup S /\ \A x, y \in S : x = y
    BY <2>1, <2>3
  <2>5. ~crossed /\ ~blank' /\ Telling(c) => (S = {} => InForce') /\ \A x \in S : Telling(x)'
    BY <2>2, <2>3
  <2>6. blank => blank'
    BY <2>1
  <2> QED
    BY <2>1, <2>4, <2>5, <2>6, KeymapTurned
<1>2. CASE Keymap!Saved(c)
  <2>1. /\ c.kind = "save" /\ c.step = "served" /\ calls' = (calls \ {c}) \cup {}
        /\ UNCHANGED <<stored, crossed, blank>>
        /\ IF c.answer = "ok" THEN overrides' = c.doc ELSE UNCHANGED <<overrides, status>>
    BY <1>2 DEF Keymap!Saved, Keymap!past
  <2>2. Telling(c) => InForce'
    BY <2>1 DEF Telling, InForce
  <2>3. PICK S : S = {}
    OBVIOUS
  <2>4. calls' = (calls \ {c}) \cup S /\ \A x, y \in S : x = y
    BY <2>1, <2>3
  <2>5. ~crossed /\ ~blank' /\ Telling(c) => (S = {} => InForce') /\ \A x \in S : Telling(x)'
    BY <2>2, <2>3
  <2>6. blank => blank'
    BY <2>1
  <2> QED
    BY <2>1, <2>4, <2>5, <2>6, KeymapTurned
<1>3. CASE Keymap!Imported(c)
  <2>0. PICK n, S : /\ n = [c EXCEPT !.kind = "load", !.doc = Keymap!Nothing, !.step = "sent",
                       !.answer = "none"]
                    /\ S = IF c.answer = "ok" THEN {n} ELSE {}
    OBVIOUS
  <2>1. /\ c.kind = "import" /\ c.step = "served" /\ calls' = (calls \ {c}) \cup S
        /\ UNCHANGED <<stored, overrides, status, crossed, blank>>
    BY <1>3, <2>0 DEF Keymap!Imported, Keymap!past
  <2>2. n.kind = "load" /\ n.step = "sent"
    BY <1>0, <2>0 DEF KeymapCall
  <2>3. Telling(c) => (S = {} => InForce') /\ \A x \in S : Telling(x)'
    BY <2>0, <2>1, <2>2 DEF Telling, InForce
  <2>4. (\A x, y \in S : x = y) /\ (blank => blank')
    BY <2>0, <2>1
  <2> QED
    BY <2>1, <2>3, <2>4, KeymapTurned
<1>4. ASSUME NEW ok \in BOOLEAN, Keymap!ServeWrite(c, ok) PROVE KeymapSettled'
  <2>0. PICK n : n = [c EXCEPT !.step = "served", !.answer = IF ok THEN "ok" ELSE "refused"]
    OBVIOUS
  <2>1. /\ c.kind \in {"save", "import"} /\ c.step = "sent" /\ calls' = (calls \ {c}) \cup {n}
        /\ stored' = (IF ok THEN c.doc ELSE stored) /\ UNCHANGED <<overrides, status, crossed, blank>>
    BY <1>4, <2>0 DEF Keymap!ServeWrite, Keymap!Step, Keymap!past
  <2>2. n.kind = c.kind /\ n.doc = c.doc /\ n.step = "served"
            /\ n.answer = (IF ok THEN "ok" ELSE "refused")
    BY <1>0, <2>0 DEF KeymapCall
  <2>3. Telling(c) => Telling(n)'
    BY <2>1, <2>2 DEF Telling, InForce
  <2>4. PICK S : S = {n}
    OBVIOUS
  <2>5. calls' = (calls \ {c}) \cup S /\ (\A x, y \in S : x = y) /\ (blank => blank')
    BY <2>1, <2>4
  <2>6. ~crossed /\ ~blank' /\ Telling(c) => (S = {} => InForce') /\ \A x \in S : Telling(x)'
    BY <2>3, <2>4
  <2> QED
    BY <2>1, <2>5, <2>6, KeymapTurned
<1>5. ASSUME NEW answer \in {"ok", "blank", "throws"}, Keymap!ServeLoad(c, answer) PROVE KeymapSettled'
  <2>0. PICK n : n = [c EXCEPT !.step = "served", !.answer = answer,
            !.doc = IF answer = "ok" THEN stored ELSE Keymap!Nothing]
    OBVIOUS
  <2>1. /\ c.kind = "load" /\ calls' = (calls \ {c}) \cup {n} /\ blank' = (blank \/ answer = "blank")
        /\ UNCHANGED <<stored, overrides, status, crossed>>
    BY <1>5, <2>0 DEF Keymap!ServeLoad, Keymap!Step
  <2>2. n.kind = "load" /\ n.answer = answer /\ n.doc = IF answer = "ok" THEN stored ELSE Keymap!Nothing
    BY <1>0, <2>0, <2>1 DEF KeymapCall
  <2>3. ~blank' => Telling(n)'
    BY <2>1, <2>2 DEF Telling
  <2>4. PICK S : S = {n}
    OBVIOUS
  <2>5. calls' = (calls \ {c}) \cup S /\ (\A x, y \in S : x = y) /\ (blank => blank')
    BY <2>1, <2>4
  <2>6. ~crossed /\ ~blank' /\ Telling(c) => (S = {} => InForce') /\ \A x \in S : Telling(x)'
    BY <2>3, <2>4
  <2> QED
    BY <2>1, <2>5, <2>6, KeymapTurned
<1> QED
  BY <1>1, <1>2, <1>3, <1>4, <1>5

LEMMA KeymapCallSent ==
  ASSUME KeymapWhole, NEW kind \in {"save", "import"}, NEW doc, Keymap!Send(Keymap!Call(kind, doc)),
         UNCHANGED <<stored, overrides, status, blank>>
  PROVE  KeymapSettled'
<1>0. PICK n : n = Keymap!Call(kind, doc)
  OBVIOUS
<1>1. calls' = calls \cup {n} /\ crossed' = (crossed \/ calls # {})
  BY <1>0 DEF Keymap!Send
<1>2. n.kind = kind /\ n.step = "sent"
  BY <1>0 DEF Keymap!Call
<1>3. SUFFICES ASSUME ~crossed' PROVE KeymapSettled'
  BY DEF KeymapSettled
<1>4. calls' = {n} /\ ~crossed /\ calls = {}
  BY <1>1, <1>3
<1>5. ~blank => InForce'
  BY <1>4 DEF KeymapWhole, KeymapSettled, InForce
<1>6. ~blank' => Telling(n)'
  BY <1>2, <1>5 DEF Telling
<1> QED
  BY <1>4, <1>6 DEF KeymapSettled

LEMMA KeymapStepKeepsWhole ==
  ASSUME KeymapAssumptions, KeymapWhole, [Keymap!Next]_(Keymap!vars)
  PROVE  KeymapWhole'
<1>1. KeymapInv'
  BY KeymapStepKeepsInv DEF KeymapWhole
<1>2. CASE UNCHANGED Keymap!vars
  BY <1>1, <1>2 DEF KeymapWhole, KeymapSettled, Telling, InForce, Keymap!vars, Keymap!past
<1>3. CASE Keymap!Reset \/ (\E doc \in Backups : Keymap!Import(doc))
           \/ \E c \in Commands : Keymap!Revert(c) \/ \E chord \in Chords : Keymap!Rebind(c, chord)
  <2>1. \E kind \in {"save", "import"} : \E doc : Keymap!Send(Keymap!Call(kind, doc))
            /\ UNCHANGED <<stored, overrides, status, blank>>
    BY <1>3, Zenon DEF Keymap!Reset, Keymap!Import, Keymap!Revert, Keymap!Rebind
  <2> QED
    BY <1>1, <2>1, KeymapCallSent DEF KeymapWhole
<1>4. CASE Keymap!Reopen
  <2> DEFINE off(c) == [c EXCEPT !.here = FALSE]
  <2>1. \A c \in calls : off(c).kind = c.kind /\ off(c).step = c.step /\ off(c).answer = c.answer
            /\ off(c).doc = c.doc
    BY DEF KeymapWhole, KeymapInv, KeymapTypes, KeymapCall
  <2>2. calls' = {off(c) : c \in calls} /\ UNCHANGED <<stored, overrides, status, crossed, blank>>
    BY <1>4 DEF Keymap!Reopen, Keymap!past
  <2> HIDE DEF off
  <2>3. KeymapSettled'
    BY <2>1, <2>2 DEF KeymapWhole, KeymapSettled, Telling, InForce
  <2> QED
    BY <1>1, <2>3 DEF KeymapWhole
<1>5. ASSUME NEW c \in calls,
         \/ Keymap!Loaded(c) \/ Keymap!Saved(c) \/ Keymap!Imported(c)
         \/ \E ok \in BOOLEAN : Keymap!ServeWrite(c, ok)
         \/ \E answer \in {"ok", "blank", "throws"} : Keymap!ServeLoad(c, answer)
      PROVE KeymapWhole'
  BY <1>1, <1>5, KeymapCallTurns DEF KeymapWhole
<1> QED
  BY <1>2, <1>3, <1>4, <1>5 DEF Keymap!Next

LEMMA KeymapRowsSettle == KeymapWhole => Keymap!RowsSettle
BY DEF KeymapWhole, KeymapSettled, InForce, Keymap!RowsSettle

\* For any commands, chords, scopes, stored documents and backups, shipped without a clash:
\* every chord that is listed runs its command, and no other one that a document did not
\* bring or a revert make share it (findCollidingBinding, resolveCommand); and with nothing
\* under way the shortcuts in force are the stored ones, but as the property says.
THEOREM KeymapIsSafe ==
  ASSUME KeymapAssumptions
  PROVE  Keymap!Spec => [](Keymap!TypeOK /\ Keymap!CommandsAnswer /\ Keymap!RowsSettle)
<1>1. Keymap!Init => KeymapWhole
  BY KeymapWholeInit
<1>2. KeymapWhole /\ [Keymap!Next]_(Keymap!vars) => KeymapWhole'
  BY KeymapStepKeepsWhole
<1>3. KeymapWhole => (Keymap!TypeOK /\ Keymap!CommandsAnswer /\ Keymap!RowsSettle)
  BY KeymapPromises, KeymapRowsSettle DEF KeymapWhole
<1> QED
  BY <1>1, <1>2, <1>3, PTL DEF Keymap!Spec

-----------------------------------------------------------------------------
(* The library root.  Of calls that are not a read of the root there is one  *)
(* at a time, as long as the panel is not left with one under way; what it   *)
(* carries out is then the change that is on the screen.                     *)

LibraryAssumptions == LibraryTyped \in Nat /\ LibraryWrites \in Nat

LibraryCall ==
  [kind : {"load", "preview", "set"}, id : Nat, to : Library!Texts, shown :
      SUBSET (LibraryAnimes \X Library!Texts),
   here : BOOLEAN, step : {"sent", "moving", "served"}, from : Library!Texts, moves :
       SUBSET LibraryAnimes,
   base : [LibraryAnimes -> Nat], failed : SUBSET LibraryAnimes, answer : Library!Texts
       \cup {"none", "ok", "failed"}]

LibraryTypes ==
  /\ Library!TypeOK /\ edits \in Nat /\ writes \in Nat
  /\ calls \subseteq LibraryCall
  /\ \A c \in calls : c.kind = "load" /\ c.step = "served" => c.answer \in Library!Texts
  /\ \A c \in calls : c.step = "moving" => c.kind = "set"
  /\ pending = None \/ pending \in [to : Library!Texts, moves : SUBSET LibraryAnimes]

\* One change moves animes at a time, and all that lie under the root are among those it
\* still moves or has failed to.
MoversKnowAll ==
  ~crossed /\ ~doubled =>
    /\ stranded = {}
    /\ \A c, d \in calls : c.step = "moving" /\ d.step = "moving" => c = d
    /\ \A c \in calls : c.step = "moving" /\ None \notin {root, c.to} /\ c.to # root =>
         \A a \in LibraryAnimes : folder[a] = root => a \in c.moves \cup c.failed

\* One change is previewed, confirmed or carried out at a time, for the text on the screen.
ChangeOnScreen ==
  ~strayed /\ ~unread /\ ~crossed /\ ~left =>
    /\ moved = {}
    /\ \A c \in calls : c.here
    /\ \A c, d \in calls : c.kind # "load" => c = d
    /\ \A c \in calls : c.kind # "load" => saving /\ pending = None
    /\ pending # None => calls = {} /\ pending.to = typed /\ pending.moves = Library!Moves(typed)
    /\ \A c \in calls : c.kind = "preview" =>
         c.to = typed /\ (c.step = "served" /\ c.answer = "ok" => c.moves = Library!Moves(c.to))
    /\ \A c \in calls : c.kind = "set" /\ c.step = "sent" =>
         \A a \in Library!Moves(c.to) : <<a, c.to>> \in c.shown

LibraryInv == LibraryTypes /\ MoversKnowAll /\ ChangeOnScreen

LEMMA LibraryInit ==
  ASSUME LibraryAssumptions, Library!Init PROVE LibraryInv
<1>1. calls \subseteq LibraryCall
  BY DEF Library!Init, LibraryCall, Library!Texts
<1>2. Library!TypeOK
  <2>1. \A c \in calls : /\ c.kind \in {"load", "preview", "set"} /\ c.id <= made
                            /\ c.to \in Library!Texts
                         /\ {c.moves, c.failed} \subseteq SUBSET LibraryAnimes
                               /\ c.shown \subseteq LibraryAnimes \X Library!Texts
    BY <1>1 DEF Library!Init, LibraryCall
  <2>2. root \in Library!Texts /\ folder \in [LibraryAnimes -> Library!Texts]
            /\ version \in [LibraryAnimes -> Nat]
    BY DEF Library!Init, Library!Texts
  <2>3. /\ typed = None /\ baseline = None /\ saving = FALSE /\ pending = None /\ made = 0
              /\ edits = 0 /\ writes = 0
        /\ strayed = FALSE /\ crossed = FALSE /\ left = FALSE /\ unread = FALSE /\ doubled = FALSE
              /\ moved = {} /\ stranded = {}
    BY DEF Library!Init
  <2>4. {typed, baseline} \subseteq Library!Texts /\ edits <= LibraryTyped /\ writes <= LibraryWrites
    BY <2>3 DEF Library!Texts, LibraryAssumptions
  <2>5. {saving, strayed, crossed, left, unread, doubled} \subseteq BOOLEAN
            /\ {moved, stranded} \subseteq SUBSET LibraryAnimes
    BY <2>3
  <2> QED
    BY <2>1, <2>2, <2>3, <2>4, <2>5 DEF Library!TypeOK
<1>3. LibraryTypes
  BY <1>1, <1>2 DEF Library!Init, LibraryTypes
<1> QED
  BY <1>3 DEF Library!Init, LibraryInv, MoversKnowAll, ChangeOnScreen

LEMMA LibraryType ==
  ASSUME LibraryAssumptions, LibraryInv, NEW text \in Library!Texts, Library!Type(text)
  PROVE  LibraryInv'
<1>1. LibraryTypes'
  BY DEF LibraryInv, LibraryTypes, Library!TypeOK, Library!Type, LibraryAssumptions, Library!Texts,
    Library!stores
<1>2. MoversKnowAll'
  BY DEF LibraryInv, MoversKnowAll, Library!Type, Library!stores
<1>3. ChangeOnScreen'
  BY DEF LibraryInv, ChangeOnScreen, Library!Type, Library!stores, Library!Moves, LibraryTypes,
    Library!TypeOK
<1> QED
  BY <1>1, <1>2, <1>3 DEF LibraryInv

LEMMA LibrarySave ==
  ASSUME LibraryAssumptions, LibraryInv, Library!Save
  PROVE  LibraryInv'
<1>0. LibraryTypes /\ "preview" \in {"load", "preview", "set"} /\ typed \in Library!Texts
          /\ {} \in SUBSET (LibraryAnimes \X Library!Texts)
  BY DEF LibraryInv, LibraryTypes, Library!TypeOK
<1> DEFINE n == Library!Call("preview", typed, {})
<1>1. /\ n \in LibraryCall /\ n.kind = "preview" /\ n.id = made + 1 /\ n.to = typed /\ n.shown = {}
      /\ n.here = TRUE /\ n.step = "sent"
  BY <1>0 DEF LibraryTypes, Library!TypeOK, Library!Texts, Library!Call, LibraryCall
<1>2. calls' = calls \cup {n} /\ made' = made + 1
  BY DEF Library!Save, Library!Send
<1> HIDE DEF n
<1>3. LibraryTypes'
  BY <1>1, <1>2 DEF LibraryInv, LibraryTypes, Library!TypeOK, Library!Save, Library!Texts,
    Library!stores, LibraryCall
<1>4. MoversKnowAll'
  BY <1>1, <1>2 DEF LibraryInv, MoversKnowAll, Library!Save, Library!stores
<1>5. ChangeOnScreen'
  BY <1>1, <1>2 DEF LibraryInv, ChangeOnScreen, Library!Save, Library!stores, Library!Moves,
    LibraryTypes, LibraryCall
<1> QED
  BY <1>3, <1>4, <1>5 DEF LibraryInv

LEMMA LibraryConfirm ==
  ASSUME LibraryAssumptions, LibraryInv, Library!Confirm
  PROVE  LibraryInv'
<1> DEFINE s == pending.moves \X {pending.to}
<1>0. LibraryTypes /\ "set" \in {"load", "preview", "set"} /\ typed \in Library!Texts
          /\ s \in SUBSET (LibraryAnimes \X Library!Texts)
  BY DEF LibraryInv, LibraryTypes, Library!TypeOK, Library!Confirm
<1> DEFINE n == Library!Call("set", typed, s)
<1>1. /\ n \in LibraryCall /\ n.kind = "set" /\ n.id = made + 1 /\ n.to = typed /\ n.shown = s
      /\ n.here = TRUE /\ n.step = "sent"
  BY <1>0 DEF LibraryTypes, Library!TypeOK, Library!Texts, Library!Call, LibraryCall
<1>2. calls' = calls \cup {n} /\ made' = made + 1
  BY DEF Library!Confirm, Library!Send
<1> HIDE DEF n
<1>3. LibraryTypes'
  BY <1>1, <1>2 DEF LibraryInv, LibraryTypes, Library!TypeOK, Library!Confirm, Library!Texts,
    Library!stores, LibraryCall, Library!past
<1>4. MoversKnowAll'
  BY <1>1, <1>2 DEF LibraryInv, MoversKnowAll, Library!Confirm, Library!stores, Library!past
<1>5. ChangeOnScreen'
  <2> SUFFICES ASSUME ~strayed, ~unread, ~crossed, ~left
               PROVE  ChangeOnScreen'
    BY DEF ChangeOnScreen, Library!Confirm, Library!past
  <2>1. calls' = {n} /\ \A a \in Library!Moves(typed) : <<a, typed>> \in s
    BY <1>2 DEF LibraryInv, ChangeOnScreen, Library!Confirm
  <2>2. \A to \in Library!Texts : Library!Moves(to)' = Library!Moves(to)
    BY DEF Library!Moves, Library!Confirm, Library!stores
  <2>3. moved = {} /\ moved' = moved /\ saving' = TRUE /\ pending' = None
    BY DEF LibraryInv, ChangeOnScreen, Library!Confirm, Library!past
  <2> QED
    BY <1>0, <1>1, <2>1, <2>2, <2>3 DEF ChangeOnScreen
<1> QED
  BY <1>3, <1>4, <1>5 DEF LibraryInv

LEMMA LibraryCancel ==
  ASSUME LibraryInv, Library!Cancel
  PROVE  LibraryInv'
BY DEF LibraryInv, Library!Cancel, LibraryTypes, Library!TypeOK, MoversKnowAll, ChangeOnScreen,
  Library!Moves, Library!stores, Library!past

LEMMA LibraryReopen ==
  ASSUME LibraryAssumptions, LibraryInv, Library!Reopen
  PROVE  LibraryInv'
<1> DEFINE off(c) == [c EXCEPT !.here = FALSE]
<1>0. LibraryTypes /\ "load" \in {"load", "preview", "set"} /\ None \in Library!Texts
          /\ {} \in SUBSET (LibraryAnimes \X Library!Texts)
  BY DEF LibraryInv, Library!Texts
<1> DEFINE n == Library!Call("load", None, {})
<1>1. /\ n \in LibraryCall /\ n.kind = "load" /\ n.id = made + 1 /\ n.to = None /\ n.shown = {}
      /\ n.here = TRUE /\ n.step = "sent"
  BY <1>0 DEF LibraryTypes, Library!TypeOK, Library!Texts, Library!Call, LibraryCall
<1>2. calls' = {off(c) : c \in calls} \cup {n} /\ made' = made + 1
  BY DEF Library!Reopen, Library!Send
<1> HIDE DEF n
<1>3. \A c \in calls :
        /\ off(c) \in LibraryCall /\ off(c).kind = c.kind /\ off(c).id = c.id /\ off(c).to = c.to
        /\ off(c).step = c.step /\ off(c).answer = c.answer /\ off(c).moves = c.moves
              /\ off(c).failed = c.failed
        /\ off(c).shown = c.shown
  BY <1>0 DEF LibraryTypes, LibraryCall
<1> HIDE DEF off
<1>4. LibraryTypes'
  <2>1. calls' \subseteq LibraryCall /\ \A c \in calls' : c = n \/ \E d \in calls : c = off(d)
    BY <1>1, <1>2, <1>3
  <2>a. made \in Nat /\ \A c \in calls : c.id \in Nat /\ c.id <= made
    BY <1>0 DEF LibraryTypes, Library!TypeOK, LibraryCall
  <2>b. \A c \in calls : off(c).id <= made'
    BY <2>a, <1>2, <1>3
  <2>2. \A c \in calls' : c.id <= made'
    BY <1>1, <1>2, <2>1, <2>a, <2>b
  <2>c. Library!TypeOK'
    <3>1. \A c \in calls' : /\ c.kind \in {"load", "preview", "set"} /\ c.to \in Library!Texts
                            /\ {c.moves, c.failed} \subseteq SUBSET LibraryAnimes
                                  /\ c.shown \subseteq LibraryAnimes \X Library!Texts
      BY <2>1 DEF LibraryCall
    <3>2. left' \in BOOLEAN
      BY <1>0 DEF LibraryTypes, Library!TypeOK, Library!Reopen
    <3>3. made' \in Nat /\ typed' = None /\ baseline' = None /\ saving' = FALSE /\ pending' = None
              /\ None \in Library!Texts
      BY <1>2, <2>a DEF Library!Reopen, Library!Texts
    <3>4. UNCHANGED <<root, folder, version, edits, writes, strayed, crossed, unread, doubled,
              moved, stranded>>
      BY DEF Library!Reopen, Library!stores
    <3> QED
      BY <1>0, <2>2, <3>1, <3>2, <3>3, <3>4 DEF LibraryTypes, Library!TypeOK
  <2>3. \A c \in calls' : /\ c.kind = "load" /\ c.step = "served" => c.answer \in Library!Texts
                          /\ c.step = "moving" => c.kind = "set"
    BY <1>0, <1>1, <1>3, <2>1 DEF LibraryTypes
  <2> QED
    BY <1>0, <2>1, <2>3, <2>c DEF LibraryTypes, Library!Reopen
<1>5. MoversKnowAll'
  BY <1>1, <1>2, <1>3 DEF LibraryInv, MoversKnowAll, Library!Reopen, Library!stores
<1>6. ChangeOnScreen'
  <2> SUFFICES ASSUME ~strayed, ~unread, ~crossed, ~left, calls = {}
               PROVE  ChangeOnScreen'
    BY DEF ChangeOnScreen, Library!Reopen
  <2>1. calls' = {n} /\ moved' = {} /\ pending' = None
    BY <1>2 DEF LibraryInv, ChangeOnScreen, Library!Reopen
  <2> QED
    BY <1>1, <2>1 DEF ChangeOnScreen
<1> QED
  BY <1>4, <1>5, <1>6 DEF LibraryInv

LEMMA LibraryOtherWrite ==
  ASSUME LibraryAssumptions, LibraryInv, NEW a \in LibraryAnimes, NEW to \in Library!Texts,
         Library!OtherWrite(a, to)
  PROVE  LibraryInv'
BY DEF LibraryInv, LibraryTypes, Library!TypeOK, Library!OtherWrite, LibraryAssumptions,
  MoversKnowAll,
  ChangeOnScreen, Library!panel

\* What is done to one call keeps the others.
LEMMA LibraryStep ==
  ASSUME LibraryTypes, NEW c \in calls, NEW n \in LibraryCall, calls' = (calls \ {c}) \cup {n},
         n.kind = c.kind, n.id = c.id, n.to = c.to,
         n.kind = "load" /\ n.step = "served" => n.answer \in Library!Texts,
         n.step = "moving" => n.kind = "set",
         root' \in Library!Texts, folder' \in [LibraryAnimes -> Library!Texts],
             version' \in [LibraryAnimes -> Nat],
         UNCHANGED <<made, edits, writes, typed, baseline, saving, pending, strayed, crossed, left>>,
         {unread', doubled'} \subseteq BOOLEAN, {moved', stranded'} \subseteq SUBSET LibraryAnimes
  PROVE  LibraryTypes'
BY DEF LibraryTypes, Library!TypeOK, LibraryCall

LEMMA LibraryServeRead ==
  ASSUME LibraryAssumptions, LibraryInv, NEW c \in calls, NEW ok \in BOOLEAN, Library!ServeRead(c, ok)
  PROVE  LibraryInv'
<1>0. /\ LibraryTypes /\ c \in LibraryCall /\ root \in Library!Texts /\ None \in Library!Texts
      /\ folder \in [LibraryAnimes -> Library!Texts]
  BY DEF LibraryInv, LibraryTypes, Library!TypeOK, Library!Texts
<1>1. CASE c.kind = "load"
  <2> DEFINE n == [c EXCEPT !.step = "served", !.answer = IF ok THEN root ELSE None]
  <2>1. n \in LibraryCall /\ n.kind = c.kind /\ n.id = c.id /\ n.to = c.to /\ n.here = c.here
            /\ n.step = "served" /\ n.answer \in Library!Texts
    BY <1>0 DEF LibraryCall
  <2>2. calls' = (calls \ {c}) \cup {n} /\ unread' \in BOOLEAN /\ (unread => unread')
    BY <1>0, <1>1 DEF Library!ServeRead, Library!Step, LibraryTypes, Library!TypeOK
  <2> HIDE DEF n
  <2>3. LibraryTypes'
    BY <1>0, <1>1, <2>1, <2>2, LibraryStep DEF Library!ServeRead, LibraryTypes, Library!TypeOK,
      Library!stores, Library!panel
  <2>4. MoversKnowAll'
    BY <1>1, <2>1, <2>2 DEF LibraryInv, LibraryTypes, MoversKnowAll, Library!ServeRead,
      Library!stores
  <2>5. ChangeOnScreen'
    BY <1>1, <2>1, <2>2 DEF LibraryInv, ChangeOnScreen, Library!ServeRead, Library!stores,
      Library!panel, Library!Moves
  <2> QED
    BY <2>3, <2>4, <2>5 DEF LibraryInv
<1>2. CASE c.kind = "preview"
  <2> DEFINE n == [c EXCEPT !.step = "served", !.answer = IF ok THEN "ok"
          ELSE "failed", !.moves = Library!Moves(c.to)]
  <2>0. Library!Moves(c.to) \in SUBSET LibraryAnimes
    BY DEF Library!Moves
  <2>1. n \in LibraryCall /\ n.kind = c.kind /\ n.id = c.id /\ n.to = c.to /\ n.here = c.here
            /\ n.step = "served" /\ n.moves = Library!Moves(c.to)
    BY <1>0, <2>0 DEF LibraryCall
  <2>2. calls' = (calls \ {c}) \cup {n} /\ unread' = unread
    BY <1>0, <1>2 DEF Library!ServeRead, Library!Step, LibraryTypes, Library!TypeOK
  <2> HIDE DEF n
  <2>3. LibraryTypes'
    BY <1>0, <1>2, <2>1, <2>2, LibraryStep DEF Library!ServeRead, LibraryTypes, Library!TypeOK,
      Library!stores, Library!panel
  <2>4. MoversKnowAll'
    BY <1>2, <2>1, <2>2 DEF LibraryInv, LibraryTypes, MoversKnowAll, Library!ServeRead,
      Library!stores
  <2>5. ChangeOnScreen'
    BY <1>2, <2>1, <2>2 DEF LibraryInv, ChangeOnScreen, Library!ServeRead, Library!stores,
      Library!panel, Library!Moves
  <2> QED
    BY <2>3, <2>4, <2>5 DEF LibraryInv
<1> QED
  BY <1>1, <1>2 DEF Library!ServeRead


LEMMA LibraryPlan ==
  ASSUME LibraryAssumptions, LibraryInv, NEW c \in calls, NEW ok \in BOOLEAN, Library!Plan(c, ok)
  PROVE  LibraryInv'
<1>0. /\ LibraryTypes /\ c \in LibraryCall /\ root \in Library!Texts
            /\ folder \in [LibraryAnimes -> Library!Texts]
      /\ version \in [LibraryAnimes -> Nat] /\ c.kind = "set" /\ c.step = "sent"
            /\ Library!Moves(c.to) \in SUBSET LibraryAnimes
      /\ moved \in SUBSET LibraryAnimes
  BY DEF LibraryInv, LibraryTypes, Library!TypeOK, Library!Plan, Library!Moves
<1> DEFINE n == IF ok THEN [c EXCEPT !.step = "moving", !.from = root,
        !.moves = Library!Moves(c.to), !.base = version]
                ELSE [c EXCEPT !.step = "served", !.answer = "failed"]
<1>1. /\ n \in LibraryCall /\ n.kind = c.kind /\ n.id = c.id /\ n.to = c.to /\ n.here = c.here
            /\ n.step # "sent"
      /\ n.step = "moving" => n.moves = Library!Moves(c.to)
  BY <1>0 DEF LibraryCall
<1>2. calls' = (calls \ {c}) \cup {n}
  BY DEF Library!Plan, Library!Step
<1> HIDE DEF n
<1>3. /\ moved' = IF ok THEN moved \cup {a \in Library!Moves(c.to) : <<a, c.to>> \notin c.shown}
            ELSE moved
      /\ doubled' = (doubled \/ \E d \in calls \ {c} : d.step = "moving")
      /\ UNCHANGED <<root, folder, version, made, typed, baseline, saving, pending, edits, writes,
                     strayed, crossed, left, unread, stranded>>
  BY DEF Library!Plan, Library!stores, Library!panel
<1>4. LibraryTypes'
  <2>1. doubled' \in BOOLEAN /\ moved' \in SUBSET LibraryAnimes
    BY <1>0, <1>3 DEF LibraryTypes, Library!TypeOK
  <2> QED
    BY <1>0, <1>1, <1>2, <1>3, <2>1, LibraryStep DEF LibraryTypes, Library!TypeOK
<1>5. MoversKnowAll'
  <2> SUFFICES ASSUME ~crossed, ~doubled, \A d \in calls \ {c} : d.step # "moving"
               PROVE  MoversKnowAll'
    BY <1>3 DEF MoversKnowAll
  <2>1. None \notin {root, c.to} /\ c.to # root
            => Library!Moves(c.to) = {a \in LibraryAnimes : folder[a] = root}
    BY DEF Library!Moves
  <2> QED
    BY <1>1, <1>2, <1>3, <2>1 DEF LibraryInv, MoversKnowAll
<1>6. ChangeOnScreen'
  <2>1. \A to \in Library!Texts : Library!Moves(to)' = Library!Moves(to)
    BY <1>3 DEF Library!Moves
  <2> QED
    BY <1>0, <1>1, <1>2, <1>3, <2>1 DEF LibraryInv, ChangeOnScreen, LibraryTypes, LibraryCall
<1> QED
  BY <1>4, <1>5, <1>6 DEF LibraryInv

LEMMA LibraryMoveOne ==
  ASSUME LibraryAssumptions, LibraryInv, NEW c \in calls, NEW a \in LibraryAnimes,
         NEW ok \in BOOLEAN, Library!MoveOne(c, a, ok)
  PROVE  LibraryInv'
<1>0. /\ LibraryTypes /\ c \in LibraryCall /\ root \in Library!Texts
            /\ folder \in [LibraryAnimes -> Library!Texts]
      /\ version \in [LibraryAnimes -> Nat] /\ c.kind = "set" /\ c.step = "moving"
  BY DEF LibraryInv, LibraryTypes, Library!TypeOK, Library!MoveOne
<1> DEFINE saved == ok /\ version[a] = c.base[a]
           n == [c EXCEPT !.moves = @ \ {a}, !.failed = IF saved THEN @ ELSE @ \cup {a}]
<1>1. /\ n \in LibraryCall /\ n.kind = c.kind /\ n.id = c.id /\ n.to = c.to /\ n.here = c.here
            /\ n.step = c.step
      /\ n.moves = c.moves \ {a} /\ n.failed = IF saved THEN c.failed ELSE c.failed \cup {a}
  BY <1>0 DEF LibraryCall
<1>2. calls' = (calls \ {c}) \cup {n}
  BY DEF Library!MoveOne, Library!Step
<1>3. IF saved THEN folder' = [folder EXCEPT ![a] = c.to] /\ version' = [version EXCEPT ![a] = @ + 1]
      ELSE UNCHANGED <<folder, version>>
  BY DEF Library!MoveOne
<1> HIDE DEF n, saved
<1>4. UNCHANGED <<root, made, typed, baseline, saving, pending, edits, writes, strayed, crossed,
          left, unread,
                  doubled, moved, stranded>>
  BY DEF Library!MoveOne, Library!panel, Library!past
<1>5. folder' \in [LibraryAnimes -> Library!Texts] /\ version' \in [LibraryAnimes -> Nat]
  BY <1>0, <1>3 DEF LibraryCall
<1>6. LibraryTypes'
  BY <1>0, <1>1, <1>2, <1>4, <1>5, LibraryStep DEF LibraryTypes, Library!TypeOK
<1>7. MoversKnowAll'
  <2> SUFFICES ASSUME ~crossed, ~doubled PROVE MoversKnowAll'
    BY <1>4 DEF MoversKnowAll
  <2>1. \A d \in calls : d.step = "moving" => d = c
    BY <1>0 DEF LibraryInv, MoversKnowAll
  <2>2. \A b \in LibraryAnimes : folder'[b] = folder[b] \/ (b = a /\ folder'[b] = c.to)
    BY <1>0, <1>3
  <2>3. ASSUME None \notin {root, c.to}, c.to # root, NEW b \in LibraryAnimes, folder'[b] = root
        PROVE  b \in n.moves \cup n.failed
    <3>1. b \in c.moves \cup c.failed
      BY <1>0, <2>2, <2>3 DEF LibraryInv, MoversKnowAll
    <3>2. CASE b = a
      BY <1>0, <1>1, <1>3, <2>3, <3>2
    <3> QED
      BY <1>1, <3>1, <3>2
  <2> QED
    BY <1>0, <1>1, <1>2, <1>4, <2>1, <2>3 DEF LibraryInv, MoversKnowAll
<1>8. ChangeOnScreen'
  <2> SUFFICES ASSUME ~strayed, ~unread, ~crossed, ~left PROVE ChangeOnScreen'
    BY <1>4 DEF ChangeOnScreen
  <2>1. calls' \subseteq {n} \cup {d \in calls : d.kind = "load"} /\ pending = None /\ saving = TRUE
    BY <1>0, <1>2 DEF LibraryInv, ChangeOnScreen, LibraryTypes, Library!TypeOK
  <2> QED
    BY <1>0, <1>1, <1>4, <2>1 DEF LibraryInv, ChangeOnScreen
<1> QED
  BY <1>6, <1>7, <1>8 DEF LibraryInv

LEMMA LibraryStore ==
  ASSUME LibraryAssumptions, LibraryInv, NEW c \in calls, NEW ok \in BOOLEAN, Library!Store(c, ok)
  PROVE  LibraryInv'
<1>0. /\ LibraryTypes /\ c \in LibraryCall /\ root \in Library!Texts
            /\ folder \in [LibraryAnimes -> Library!Texts]
      /\ version \in [LibraryAnimes -> Nat] /\ c.kind = "set" /\ c.step = "moving" /\ c.moves = {}
            /\ stranded \in SUBSET LibraryAnimes
  BY DEF LibraryInv, LibraryTypes, Library!TypeOK, Library!Store
<1> DEFINE n == [c EXCEPT !.step = "served", !.answer = IF ok /\ c.failed = {} THEN "ok" ELSE "failed"]
<1>1. n \in LibraryCall /\ n.kind = c.kind /\ n.id = c.id /\ n.to = c.to /\ n.here = c.here
          /\ n.step = "served"
  BY <1>0 DEF LibraryCall
<1>2. calls' = (calls \ {c}) \cup {n}
  BY DEF Library!Store, Library!Step
<1> HIDE DEF n
<1>3. /\ root' = IF ok /\ c.failed = {} THEN c.to ELSE root
      /\ stranded' = IF root' # root /\ None \notin {root, c.to} THEN stranded
            \cup {a \in LibraryAnimes : folder[a] = root} ELSE stranded
      /\ UNCHANGED <<folder, version, made, typed, baseline, saving, pending, edits, writes,
            strayed, crossed, left,
                     unread, doubled, moved>>
  BY DEF Library!Store, Library!panel
<1>4. LibraryTypes'
  <2>1. root' \in Library!Texts /\ stranded' \in SUBSET LibraryAnimes
    BY <1>0, <1>3 DEF LibraryCall
  <2> QED
    BY <1>0, <1>1, <1>2, <1>3, <2>1, LibraryStep DEF LibraryTypes, Library!TypeOK
<1>5. MoversKnowAll'
  <2> SUFFICES ASSUME ~crossed, ~doubled PROVE MoversKnowAll'
    BY <1>3 DEF MoversKnowAll
  <2>1. \A d \in calls' : d.step # "moving"
    BY <1>0, <1>1, <1>2 DEF LibraryInv, MoversKnowAll
  <2>2. stranded' = {}
    <3>1. CASE root' # root /\ None \notin {root, c.to}
      BY <1>0, <1>3, <3>1 DEF LibraryInv, MoversKnowAll
    <3> QED
      BY <1>3, <3>1 DEF LibraryInv, MoversKnowAll
  <2> QED
    BY <2>1, <2>2 DEF MoversKnowAll
<1>6. ChangeOnScreen'
  <2> SUFFICES ASSUME ~strayed, ~unread, ~crossed, ~left PROVE ChangeOnScreen'
    BY <1>3 DEF ChangeOnScreen
  <2>1. calls' \subseteq {n} \cup {d \in calls : d.kind = "load"} /\ pending = None /\ saving = TRUE
    BY <1>0, <1>2 DEF LibraryInv, ChangeOnScreen, LibraryTypes, Library!TypeOK
  <2> QED
    BY <1>0, <1>1, <1>3, <2>1 DEF LibraryInv, ChangeOnScreen
<1> QED
  BY <1>4, <1>5, <1>6 DEF LibraryInv

LEMMA LibraryGone ==
  ASSUME LibraryInv, NEW c \in calls, Library!Gone(c)
  PROVE  LibraryInv'
BY DEF LibraryInv, Library!Gone, LibraryTypes, Library!TypeOK, MoversKnowAll, ChangeOnScreen,
  Library!Moves,
  Library!stores, Library!panel, Library!past

LEMMA LibraryLoadArrives ==
  ASSUME LibraryInv, NEW c \in calls, Library!LoadArrives(c)
  PROVE  LibraryInv'
<1>1. LibraryTypes'
  BY DEF LibraryInv, Library!LoadArrives, LibraryTypes, Library!TypeOK, Library!stores, Library!past
<1>2. MoversKnowAll'
  BY DEF LibraryInv, Library!LoadArrives, MoversKnowAll, Library!stores, Library!past
<1>3. ChangeOnScreen'
  BY DEF LibraryInv, Library!LoadArrives, ChangeOnScreen, Library!Moves, Library!stores,
    Library!past
<1> QED
  BY <1>1, <1>2, <1>3 DEF LibraryInv

LEMMA LibrarySetArrives ==
  ASSUME LibraryInv, NEW c \in calls, Library!SetArrives(c)
  PROVE  LibraryInv'
<1>1. LibraryTypes'
  BY DEF LibraryInv, Library!SetArrives, LibraryTypes, Library!TypeOK, Library!stores,
    Library!past, LibraryCall
<1>2. MoversKnowAll'
  BY DEF LibraryInv, Library!SetArrives, MoversKnowAll, Library!stores, Library!past
<1>3. ChangeOnScreen'
  BY DEF LibraryInv, Library!SetArrives, ChangeOnScreen, Library!Moves, Library!stores, Library!past
<1> QED
  BY <1>1, <1>2, <1>3 DEF LibraryInv


LEMMA LibraryPreviewArrives ==
  ASSUME LibraryInv, NEW c \in calls, Library!PreviewArrives(c)
  PROVE  LibraryInv'
<1>0. LibraryTypes /\ c \in LibraryCall /\ c.kind = "preview" /\ c.step = "served"
  BY DEF LibraryInv, LibraryTypes, Library!PreviewArrives
<1>1. CASE c.answer = "ok" /\ c.moves = {}
  <2> DEFINE n == [Library!Call("set", c.to, {}) EXCEPT !.here = c.here]
  <2>1. /\ n \in LibraryCall /\ n.kind = "set" /\ n.id = made + 1 /\ n.to = c.to /\ n.shown = {}
        /\ n.here = c.here /\ n.step = "sent"
    BY <1>0 DEF LibraryTypes, Library!TypeOK, Library!Texts, Library!Call, LibraryCall
  <2>2. calls' = (calls \ {c}) \cup {n} /\ made' = made + 1 /\ UNCHANGED <<saving, pending>>
    BY <1>1 DEF Library!PreviewArrives
  <2> HIDE DEF n
  <2>3. LibraryTypes'
    BY <1>0, <2>1, <2>2 DEF LibraryTypes, Library!TypeOK, Library!PreviewArrives, Library!stores,
      Library!past, LibraryCall
  <2>4. MoversKnowAll'
    BY <1>0, <2>1, <2>2 DEF LibraryInv, MoversKnowAll, Library!PreviewArrives, Library!stores,
      Library!past
  <2>5. ChangeOnScreen'
    <3>1. \A to \in Library!Texts : Library!Moves(to)' = Library!Moves(to)
      BY DEF Library!PreviewArrives, Library!stores, Library!Moves
    <3> QED
      BY <1>0, <1>1, <2>1, <2>2, <3>1 DEF LibraryInv, ChangeOnScreen, Library!PreviewArrives,
        Library!past, LibraryCall
  <2> QED
    BY <2>3, <2>4, <2>5 DEF LibraryInv
<1>2. CASE ~(c.answer = "ok" /\ c.moves = {})
  <2>1. /\ calls' = calls \ {c} /\ saving' = (saving /\ ~c.here)
        /\ pending' = IF c.here /\ c.answer = "ok" THEN [to |-> c.to, moves |-> c.moves] ELSE pending
        /\ UNCHANGED <<root, folder, version, made, typed, baseline, edits, writes, strayed,
              crossed, left, unread,
                       doubled, moved, stranded>>
    BY <1>2 DEF Library!PreviewArrives, Library!stores, Library!past
  <2>2. LibraryTypes'
    <3>1. pending' = None \/ pending' \in [to : Library!Texts, moves : SUBSET LibraryAnimes]
      BY <1>0, <2>1 DEF LibraryTypes, LibraryCall
    <3>2. saving' \in BOOLEAN
      BY <1>0, <2>1 DEF LibraryTypes, Library!TypeOK, LibraryCall
    <3> QED
      BY <1>0, <2>1, <3>1, <3>2 DEF LibraryTypes, Library!TypeOK
  <2>3. MoversKnowAll'
    BY <2>1 DEF LibraryInv, MoversKnowAll
  <2>4. ChangeOnScreen'
    <3> SUFFICES ASSUME ~strayed, ~unread, ~crossed, ~left PROVE ChangeOnScreen'
      BY <2>1 DEF ChangeOnScreen
    <3>1. c.here /\ c.to = typed /\ (c.answer = "ok" => c.moves = Library!Moves(typed))
      BY <1>0 DEF LibraryInv, ChangeOnScreen
    <3>2. \A d \in calls' : d.kind = "load" /\ d.here /\ calls' # calls
      BY <1>0, <2>1 DEF LibraryInv, ChangeOnScreen
    <3> QED
      BY <1>0, <2>1, <3>1, <3>2 DEF LibraryInv, ChangeOnScreen, Library!Moves
  <2> QED
    BY <2>2, <2>3, <2>4 DEF LibraryInv
<1> QED
  BY <1>1, <1>2

LEMMA LibraryStepKeepsInv ==
  ASSUME LibraryAssumptions, LibraryInv, [Library!Next]_(Library!vars)
  PROVE  LibraryInv'
<1>1. CASE UNCHANGED Library!vars
  BY <1>1 DEF Library!vars, Library!stores, Library!panel, Library!past, LibraryInv, LibraryTypes,
    Library!TypeOK,
    MoversKnowAll, ChangeOnScreen, Library!Moves
<1>2. CASE Library!Save \/ Library!Confirm \/ Library!Cancel \/ Library!Reopen
  BY <1>2, LibrarySave, LibraryConfirm, LibraryCancel, LibraryReopen
<1>3. ASSUME NEW text \in Library!Texts, Library!Type(text) PROVE LibraryInv'
  BY <1>3, LibraryType
<1>4. ASSUME NEW a \in LibraryAnimes, NEW to \in Library!Texts, Library!OtherWrite(a, to)
             PROVE LibraryInv'
  BY <1>4, LibraryOtherWrite
<1>5. ASSUME NEW c \in calls, Library!Gone(c) \/ Library!LoadArrives(c)
             \/ Library!PreviewArrives(c) \/ Library!SetArrives(c)
      PROVE  LibraryInv'
  BY <1>5, LibraryGone, LibraryLoadArrives, LibraryPreviewArrives, LibrarySetArrives
<1>6. ASSUME NEW c \in calls, NEW ok \in BOOLEAN, Library!ServeRead(c, ok) \/ Library!Plan(c, ok)
             \/ Library!Store(c, ok)
      PROVE  LibraryInv'
  BY <1>6, LibraryServeRead, LibraryPlan, LibraryStore
<1>7. ASSUME NEW c \in calls, NEW a \in LibraryAnimes, NEW ok \in BOOLEAN,
             Library!MoveOne(c, a, ok) PROVE LibraryInv'
  BY <1>7, LibraryMoveOne
<1> QED
  BY <1>1, <1>2, <1>3, <1>4, <1>5, <1>6, <1>7 DEF Library!Next

\* What the inductive invariant of the library root says of its properties.
LEMMA LibraryPromises ==
  LibraryInv => Library!TypeOK /\ Library!MovesAreConfirmed /\ Library!NobodyIsStranded
BY DEF LibraryInv, LibraryTypes, MoversKnowAll, ChangeOnScreen, Library!MovesAreConfirmed,
  Library!NobodyIsStranded

\* One call at a time, as long as the panel is not left with one under way and the root was
\* read: what it compares the text with, and what it will, is the root stored.
Keeps(c) ==
  /\ c.here
  /\ c.kind # "load" => saving
  /\ c.kind = "load" /\ c.step = "served" => c.answer = root
  /\ c.kind = "preview" => baseline = root
  /\ c.kind = "set" => IF c.step = "served" /\ c.answer = "ok" THEN c.to = root ELSE baseline = root
LibrarySettled ==
  ~left /\ ~unread =>
    /\ \A c, d \in calls : c = d
    /\ \A c \in calls : Keeps(c)
    /\ pending # None => calls = {}
    /\ calls = {} => baseline = root

\* A step of the one call.
LEMMA LibraryOneStep ==
  ASSUME LibrarySettled, NEW c \in calls, NEW d, calls' = (calls \ {c}) \cup {d},
         left => left', unread => unread', UNCHANGED pending, Keeps(c) => Keeps(d)'
  PROVE  LibrarySettled'
<1>1. SUFFICES ASSUME ~left', ~unread'
               PROVE  /\ \A x, y \in calls' : x = y
                      /\ \A x \in calls' : Keeps(x)'
                      /\ pending' # None => calls' = {}
                      /\ calls' = {} => baseline' = root'
  BY DEF LibrarySettled
<1>2. (\A x, y \in calls : x = y) /\ Keeps(c) /\ (pending # None => calls = {})
  BY <1>1 DEF LibrarySettled
<1>3. calls' = {d}
  BY <1>2
<1> QED
  BY <1>2, <1>3

\* The answer of the one call.
LEMMA LibraryOneAnswer ==
  ASSUME LibrarySettled, NEW c \in calls, calls' = calls \ {c}, left => left', unread => unread',
         Keeps(c) => baseline' = root'
  PROVE  LibrarySettled'
<1>1. SUFFICES ASSUME ~left', ~unread' PROVE calls' = {} /\ baseline' = root'
  BY DEF LibrarySettled
<1>2. (\A x, y \in calls : x = y) /\ Keeps(c)
  BY <1>1 DEF LibrarySettled
<1> QED
  BY <1>2

LEMMA LibraryServeSettles ==
  ASSUME LibraryTypes, LibrarySettled, NEW c \in calls,
         \/ \E ok \in BOOLEAN : Library!ServeRead(c, ok) \/ Library!Plan(c, ok) \/ Library!Store(c, ok)
         \/ \E a \in LibraryAnimes, ok \in BOOLEAN : Library!MoveOne(c, a, ok)
  PROVE  LibrarySettled'
<1> USE DEF Library!stores, Library!panel, Library!past, Library!Step
<1>1. c \in LibraryCall
  BY DEF LibraryTypes
<1>2. ASSUME NEW ok \in BOOLEAN, Library!ServeRead(c, ok) PROVE LibrarySettled'
  <2>1. UNCHANGED <<root, baseline, saving, pending, left>> /\ c.step = "sent"
    BY <1>2 DEF Library!ServeRead
  <2>2. CASE c.kind = "load" /\ calls' = (calls \ {c})
             \cup {[c EXCEPT !.step = "served", !.answer = IF ok THEN root ELSE None]}
             /\ unread' = (unread \/ ~ok)
    <3> PICK d : d = [c EXCEPT !.step = "served", !.answer = IF ok THEN root ELSE None]
      OBVIOUS
    <3>1. CASE ok
      <4>1. d.here = c.here /\ d.kind = "load" /\ d.answer = root
        BY <1>1, <2>2, <3>1 DEF LibraryCall
      <4>2. Keeps(c) => Keeps(d)'
        BY <2>1, <4>1 DEF Keeps
      <4>3. calls' = (calls \ {c}) \cup {d}
        BY <2>2
      <4> QED
        BY <2>1, <2>2, <4>2, <4>3, LibraryOneStep
    <3>2. CASE ~ok
      BY <2>2, <3>2 DEF LibrarySettled
    <3> QED
      BY <3>1, <3>2
  <2>3. CASE c.kind = "preview" /\ UNCHANGED unread
             /\ calls' = (calls \ {c}) \cup {[c EXCEPT !.step = "served",
                   !.answer = IF ok THEN "ok" ELSE "failed", !.moves = Library!Moves(c.to)]}
    <3> PICK d : d = [c EXCEPT !.step = "served", !.answer = IF ok THEN "ok"
            ELSE "failed", !.moves = Library!Moves(c.to)]
      OBVIOUS
    <3>1. d.here = c.here /\ d.kind = "preview"
      BY <1>1, <2>3 DEF LibraryCall
    <3>2. Keeps(c) => Keeps(d)'
      BY <2>1, <2>3, <3>1 DEF Keeps
    <3>3. calls' = (calls \ {c}) \cup {d}
      BY <2>3
    <3> QED
      BY <2>1, <2>3, <3>2, <3>3, LibraryOneStep
  <2> QED
    BY <1>2, <2>2, <2>3 DEF Library!ServeRead
<1>3. ASSUME NEW ok \in BOOLEAN, Library!Plan(c, ok) PROVE LibrarySettled'
  <2> DEFINE p == [c EXCEPT !.step = "moving", !.from = root, !.moves = Library!Moves(c.to),
          !.base = version]
             q == [c EXCEPT !.step = "served", !.answer = "failed"]
  <2>1. /\ c.kind = "set" /\ c.step = "sent" /\ UNCHANGED <<root, baseline, saving, pending, left,
              unread>>
        /\ calls' = (calls \ {c}) \cup {IF ok THEN p ELSE q}
    BY <1>3 DEF Library!Plan
  <2>2. /\ p.here = c.here /\ p.kind = "set" /\ p.step = "moving"
        /\ q.here = c.here /\ q.kind = "set" /\ q.step = "served" /\ q.answer = "failed"
    BY <1>1, <2>1 DEF LibraryCall
  <2> HIDE DEF p, q
  <2>3. PICK d \in {p, q} : calls' = (calls \ {c}) \cup {d}
    BY <2>1
  <2>4. Keeps(c) => Keeps(d)'
    BY <2>1, <2>2, <2>3 DEF Keeps
  <2> QED
    BY <2>1, <2>3, <2>4, LibraryOneStep
<1>4. ASSUME NEW ok \in BOOLEAN, Library!Store(c, ok) PROVE LibrarySettled'
  <2> DEFINE y == [c EXCEPT !.step = "served", !.answer = "ok"]
             n == [c EXCEPT !.step = "served", !.answer = "failed"]
  <2>1. /\ c.step = "moving" /\ UNCHANGED <<baseline, saving, pending, left, unread>>
        /\ \/ root' = c.to /\ calls' = (calls \ {c}) \cup {y}
           \/ root' = root /\ calls' = (calls \ {c}) \cup {n}
    BY <1>4 DEF Library!Store
  <2>2. c.kind = "set"
    BY <2>1 DEF LibraryTypes
  <2>3. /\ y.here = c.here /\ y.kind = "set" /\ y.step = "served" /\ y.answer = "ok" /\ y.to = c.to
        /\ n.here = c.here /\ n.kind = "set" /\ n.step = "served" /\ n.answer = "failed"
    BY <1>1, <2>2 DEF LibraryCall
  <2> HIDE DEF y, n
  <2>4. PICK d : /\ calls' = (calls \ {c}) \cup {d}
                 /\ \/ root' = c.to /\ d = y
                    \/ root' = root /\ d = n
    BY <2>1
  <2>5. Keeps(c) => Keeps(d)'
    BY <2>1, <2>2, <2>3, <2>4 DEF Keeps
  <2> QED
    BY <2>1, <2>4, <2>5, LibraryOneStep
<1>5. ASSUME NEW a \in LibraryAnimes, NEW ok \in BOOLEAN, Library!MoveOne(c, a, ok)
             PROVE LibrarySettled'
  <2>1. c.step = "moving" /\ UNCHANGED <<root, baseline, saving, pending, left, unread>>
    BY <1>5 DEF Library!MoveOne
  <2>2. PICK f \in SUBSET LibraryAnimes : calls' = (calls \ {c})
            \cup {[c EXCEPT !.moves = @ \ {a}, !.failed = f]}
    <3>1. \/ calls' = (calls \ {c}) \cup {[c EXCEPT !.moves = @ \ {a}, !.failed = c.failed]}
          \/ calls' = (calls \ {c}) \cup {[c EXCEPT !.moves = @ \ {a}, !.failed = c.failed \cup {a}]}
      BY <1>5 DEF Library!MoveOne
    <3>2. c.failed \in SUBSET LibraryAnimes /\ c.failed \cup {a} \in SUBSET LibraryAnimes
      BY <1>1 DEF LibraryCall
    <3> QED
      BY <3>1, <3>2
  <2> DEFINE d == [c EXCEPT !.moves = @ \ {a}, !.failed = f]
  <2>3. c.kind = "set" /\ d.here = c.here /\ d.kind = c.kind /\ d.step = "moving"
    BY <1>1, <2>1 DEF LibraryCall, LibraryTypes
  <2> HIDE DEF d
  <2>4. Keeps(c) => Keeps(d)'
    BY <2>1, <2>3 DEF Keeps
  <2>5. calls' = (calls \ {c}) \cup {d}
    BY <2>2 DEF d
  <2> QED
    BY <2>1, <2>4, <2>5, LibraryOneStep
<1> QED
  BY <1>2, <1>3, <1>4, <1>5

LEMMA LibraryAnswerSettles ==
  ASSUME LibraryTypes, LibrarySettled, NEW c \in calls,
         Library!Gone(c) \/ Library!LoadArrives(c) \/ Library!PreviewArrives(c) \/ Library!SetArrives(c)
  PROVE  LibrarySettled'
<1> USE DEF Library!stores, Library!panel, Library!past
<1>1. c \in LibraryCall
  BY DEF LibraryTypes
<1>2. CASE Library!Gone(c)
  <2>1. ~c.here /\ calls' = calls \ {c} /\ UNCHANGED <<left, unread>>
    BY <1>2 DEF Library!Gone
  <2> QED
    BY <2>1, LibraryOneAnswer DEF Keeps
<1>3. CASE Library!LoadArrives(c)
  <2>1. c.kind = "load" /\ c.step = "served" /\ baseline' = c.answer /\ calls' = calls \ {c}
            /\ UNCHANGED <<root, left, unread>>
    BY <1>3 DEF Library!LoadArrives
  <2> QED
    BY <2>1, LibraryOneAnswer DEF Keeps
<1>4. CASE Library!SetArrives(c)
  <2>1. c.kind = "set" /\ c.step = "served" /\ baseline' = (IF c.answer = "ok" THEN c.to
            ELSE baseline) /\ calls' = calls \ {c}
        /\ UNCHANGED <<root, left, unread>>
    BY <1>4 DEF Library!SetArrives
  <2> QED
    BY <2>1, LibraryOneAnswer DEF Keeps
<1>5. CASE Library!PreviewArrives(c)
  <2>1. c.kind = "preview" /\ c.step = "served" /\ UNCHANGED <<root, baseline, left, unread>>
    BY <1>5 DEF Library!PreviewArrives
  <2>2. CASE c.answer = "ok" /\ c.moves = {}
    <3> PICK d : d = [Library!Call("set", c.to, {}) EXCEPT !.here = c.here]
      OBVIOUS
    <3>1. calls' = (calls \ {c}) \cup {d} /\ UNCHANGED <<saving, pending>>
      BY <1>5, <2>2 DEF Library!PreviewArrives
    <3>2. d.kind = "set" /\ d.here = c.here /\ d.step = "sent"
      BY DEF Library!Call
    <3>3. Keeps(c) => Keeps(d)'
      BY <2>1, <3>1, <3>2 DEF Keeps
    <3> QED
      BY <2>1, <3>1, <3>3, LibraryOneStep
  <2>3. CASE ~(c.answer = "ok" /\ c.moves = {})
    <3>1. calls' = calls \ {c}
      BY <1>5, <2>3 DEF Library!PreviewArrives
    <3> QED
      BY <2>1, <3>1, LibraryOneAnswer DEF Keeps
  <2> QED
    BY <2>2, <2>3
<1> QED
  BY <1>2, <1>3, <1>4, <1>5

LEMMA LibraryPanelSettles ==
  ASSUME LibraryTypes, LibrarySettled,
         Library!Save \/ Library!Confirm \/ Library!Cancel \/ Library!Reopen
  PROVE  LibrarySettled'
<1> USE DEF Library!stores, Library!panel, Library!past
<1>1. CASE Library!Save
  <2> DEFINE d == Library!Call("preview", typed, {})
  <2>1. /\ ~saving /\ saving' = TRUE /\ pending = None /\ pending' = None /\ calls' = calls \cup {d}
        /\ unread' = (unread \/ \E c \in calls : c.kind = "load" /\ c.here)
        /\ UNCHANGED <<root, baseline, left>>
    BY <1>1 DEF Library!Save, Library!Send
  <2>2. d.here /\ d.kind = "preview" /\ d.step = "sent"
    BY DEF Library!Call
  <2> HIDE DEF d
  <2>3. SUFFICES ASSUME ~left', ~unread' PROVE LibrarySettled'
    BY DEF LibrarySettled
  <2>4. calls = {} /\ baseline = root
    <3>1. ASSUME NEW c \in calls PROVE FALSE
      <4>1. Keeps(c)
        BY <2>1, <2>3 DEF LibrarySettled
      <4> QED
        BY <2>1, <2>3, <4>1 DEF Keeps
    <3> QED
      BY <2>1, <2>3, <3>1 DEF LibrarySettled
  <2> QED
    BY <2>1, <2>2, <2>4 DEF LibrarySettled, Keeps
<1>2. CASE Library!Confirm
  <2> DEFINE d == Library!Call("set", typed, pending.moves \X {pending.to})
  <2>1. /\ pending # None /\ pending' = None /\ saving' = TRUE /\ calls' = calls \cup {d}
        /\ UNCHANGED <<root, baseline, left, unread>>
    BY <1>2 DEF Library!Confirm, Library!Send
  <2>2. d.here /\ d.kind = "set" /\ d.step = "sent"
    BY DEF Library!Call
  <2> HIDE DEF d
  <2>3. SUFFICES ASSUME ~left', ~unread' PROVE LibrarySettled'
    BY DEF LibrarySettled
  <2>4. calls = {} /\ baseline = root
    BY <2>1, <2>3 DEF LibrarySettled
  <2> QED
    BY <2>1, <2>2, <2>4 DEF LibrarySettled, Keeps
<1>3. CASE Library!Cancel
  <2>1. pending' = None /\ UNCHANGED <<root, baseline, saving, calls, left, unread>>
    BY <1>3 DEF Library!Cancel
  <2> QED
    BY <2>1 DEF LibrarySettled, Keeps
<1>4. CASE Library!Reopen
  <2> DEFINE d == Library!Call("load", None, {})
  <2>1. /\ pending' = None /\ calls' = {[c EXCEPT !.here = FALSE] : c \in calls} \cup {d}
        /\ left' = (left \/ calls # {}) /\ UNCHANGED <<root, unread>>
    BY <1>4 DEF Library!Reopen
  <2>2. d.here /\ d.kind = "load" /\ d.step = "sent"
    BY DEF Library!Call
  <2> HIDE DEF d
  <2>3. SUFFICES ASSUME ~left' PROVE LibrarySettled'
    BY DEF LibrarySettled
  <2>4. calls' = {d}
    BY <2>1, <2>3
  <2> QED
    BY <2>1, <2>2, <2>4 DEF LibrarySettled, Keeps
<1> QED
  BY <1>1, <1>2, <1>3, <1>4

LibraryWhole == LibraryInv /\ LibrarySettled

LEMMA LibraryWholeInit ==
  ASSUME LibraryAssumptions, Library!Init PROVE LibraryWhole
<1> DEFINE l == [kind |-> "load", id |-> 0, to |-> None, shown |-> {}, here |-> TRUE, step |-> "sent",
                 from |-> None, moves |-> {}, base |-> version, failed |-> {}, answer |-> "none"]
<1>1. calls = {l} /\ pending = None
  BY DEF Library!Init
<1>2. l.here /\ l.kind = "load" /\ l.step = "sent"
  OBVIOUS
<1> HIDE DEF l
<1>3. LibrarySettled
  BY <1>1, <1>2 DEF LibrarySettled, Keeps
<1> QED
  BY <1>3, LibraryInit DEF LibraryWhole

LEMMA LibraryStepKeepsWhole ==
  ASSUME LibraryAssumptions, LibraryWhole, [Library!Next]_(Library!vars)
  PROVE  LibraryWhole'
<1>1. LibraryInv'
  BY LibraryStepKeepsInv DEF LibraryWhole
<1>2. LibraryTypes /\ LibrarySettled
  BY DEF LibraryWhole, LibraryInv
<1>3. UNCHANGED <<root, baseline, saving, pending, calls, left, unread>> => LibrarySettled'
  BY <1>2 DEF LibrarySettled, Keeps
<1>4. CASE UNCHANGED Library!vars
  <2>1. UNCHANGED <<root, baseline, saving, pending, calls, left, unread>>
    BY <1>4 DEF Library!vars, Library!stores, Library!panel, Library!past
  <2> QED
    BY <1>1, <1>3, <2>1 DEF LibraryWhole
<1>5. ASSUME \/ \E text \in Library!Texts : Library!Type(text)
             \/ \E a \in LibraryAnimes, to \in Library!Texts : Library!OtherWrite(a, to)
      PROVE  LibraryWhole'
  <2>1. UNCHANGED <<root, baseline, saving, pending, calls, left, unread>>
    BY <1>5 DEF Library!Type, Library!OtherWrite, Library!stores, Library!panel
  <2> QED
    BY <1>1, <1>3, <2>1 DEF LibraryWhole
<1> QED
  BY <1>1, <1>2, <1>4, <1>5, LibraryPanelSettles, LibraryAnswerSettles, LibraryServeSettles
    DEF LibraryWhole, Library!Next

LEMMA LibraryRowsSettle == LibraryWhole => Library!RowsSettle
BY DEF LibraryWhole, LibrarySettled, Library!RowsSettle

\* For any animes, roots and calls: no anime's folder moves but as the change that was
\* confirmed, none is left under the old root and the Options panel has the stored root
\* once everything has answered, apart from what the properties except
\* (the Options panel, rebaseActiveFolders, SetLibraryRoot).
THEOREM LibraryRootIsSafe ==
  ASSUME LibraryAssumptions
  PROVE  Library!Spec => [](Library!TypeOK /\ Library!MovesAreConfirmed /\ Library!NobodyIsStranded
         /\ Library!RowsSettle)
<1>1. Library!Init => LibraryWhole
  BY LibraryWholeInit
<1>2. LibraryWhole /\ [Library!Next]_(Library!vars) => LibraryWhole'
  BY LibraryStepKeepsWhole
<1>3. LibraryWhole => (Library!TypeOK /\ Library!MovesAreConfirmed /\ Library!NobodyIsStranded
          /\ Library!RowsSettle)
  BY LibraryPromises, LibraryRowsSettle DEF LibraryWhole
<1> QED
  BY <1>1, <1>2, <1>3, PTL DEF Library!Spec

-----------------------------------------------------------------------------
(* The metadata lookup.  A candidate is highlighted only while nothing is    *)
(* about to replace the results: no search is due and none that may still    *)
(* answer is under way.                                                      *)

LookupAssumptions == LookupName \in Queries /\ None \notin Queries /\ LookupTyped \in Nat
    /\ LookupConfirms \in Nat

LookupCall == [kind : {"search", "detail"}, of : Queries, newest : BOOLEAN, cover : BOOLEAN]

LookupTypes ==
  /\ Lookup!TypeOK /\ typed \in Nat /\ pressed \in Nat /\ calls \subseteq LookupCall
  /\ \A c \in calls : c.kind = "search" => c.of \notin Short
  /\ snapshot \in [state : {"idle", "loading", "resolved", "failed"}, of : Queries \cup {None}]

ResultsAreStill ==
  /\ open => seeded
  /\ ~seeded => highlighted = None
  /\ ~unseen => /\ highlighted # None => /\ timer = None /\ snapshot = Lookup!Results(highlighted)
                                         /\ \A c \in calls : c.kind = "search" => ~c.newest
                /\ \A c \in calls : c.kind = "detail" => c.cover
                /\ filled # None => filled.cover

LookupInv == LookupTypes /\ ResultsAreStill

LEMMA LookupInit ==
  ASSUME LookupAssumptions, Lookup!Init PROVE LookupInv
<1>1. snapshot.state = "idle" /\ snapshot.of = None /\ snapshot = [state |-> "idle", of |-> None]
  BY DEF Lookup!Init, Lookup!Idle
<1>2. /\ open = FALSE /\ seeded = FALSE /\ query = None /\ timer = None /\ cache = {} /\ calls = {}
            /\ highlighted = None
      /\ confirming = FALSE /\ typed = 0 /\ pressed = 0 /\ overtaken = FALSE /\ unseen = FALSE
            /\ hung = FALSE
  BY DEF Lookup!Init
<1>3. snapshot \in [state : {"idle", "loading", "resolved", "failed"}, of : Queries \cup {None}]
  BY <1>1
<1>4. LookupTypes
  <2>1. {open, seeded, confirming, overtaken, unseen, hung} \subseteq BOOLEAN
    BY <1>2
  <2>2. typed <= LookupTyped /\ pressed <= LookupConfirms
    BY <1>2 DEF LookupAssumptions
  <2>3. query \in Queries \cup {None} /\ {timer, highlighted} \subseteq Queries \cup {None}
            /\ cache \subseteq Queries \ Short
    BY <1>2
  <2>4. Lookup!TypeOK
    BY <1>2, <1>3, <2>1, <2>2, <2>3 DEF Lookup!TypeOK
  <2> QED
    BY <1>2, <1>3, <2>4 DEF LookupTypes
<1> QED
  BY <1>4 DEF Lookup!Init, LookupInv, ResultsAreStill

LEMMA LookupTyping ==
  ASSUME LookupAssumptions, LookupInv, NEW q \in Queries, Lookup!Type(q)
  PROVE  LookupInv'
BY DEF Lookup!Type, LookupInv, LookupTypes, Lookup!TypeOK, ResultsAreStill, Lookup!past,
  LookupAssumptions

LEMMA LookupOpen ==
  ASSUME LookupAssumptions, LookupInv, Lookup!Open \/ Lookup!Close
  PROVE  LookupInv'
BY DEF Lookup!Open, Lookup!Close, LookupInv, LookupTypes, Lookup!TypeOK, ResultsAreStill,
  Lookup!past,
  LookupAssumptions, Lookup!Results

LEMMA LookupHighlight ==
  ASSUME LookupInv, Lookup!Highlight
  PROVE  LookupInv'
<1>1. /\ highlighted' = snapshot.of /\ snapshot.state = "resolved" /\ open
      /\ unseen' = (unseen \/ timer # None \/ \E c \in calls : c.kind = "search" /\ c.newest)
      /\ UNCHANGED <<open, seeded, query, timer, snapshot, cache, calls, confirming, filled, typed,
            pressed, overtaken, hung>>
  BY DEF Lookup!Highlight
<1>2. snapshot = Lookup!Results(snapshot.of) /\ highlighted' \in Queries \cup {None}
          /\ unseen' \in BOOLEAN
  BY <1>1 DEF LookupInv, LookupTypes, Lookup!Results, Lookup!TypeOK
<1>3. LookupTypes'
  BY <1>1, <1>2 DEF LookupInv, LookupTypes, Lookup!TypeOK
<1>4. ResultsAreStill'
  BY <1>1, <1>2 DEF LookupInv, ResultsAreStill, Lookup!Results
<1> QED
  BY <1>3, <1>4 DEF LookupInv

LEMMA LookupConfirm ==
  ASSUME LookupAssumptions, LookupInv, Lookup!Confirm
  PROVE  LookupInv'
<1> DEFINE n == [kind |-> "detail", of |-> highlighted, newest |-> TRUE,
        cover |-> snapshot = Lookup!Results(highlighted)]
<1>1. n \in LookupCall /\ n.kind = "detail" /\ n.cover = (snapshot = Lookup!Results(highlighted))
  BY DEF Lookup!Confirm, LookupCall, LookupInv, LookupTypes, Lookup!TypeOK
<1>2. /\ highlighted # None /\ calls' = calls \cup {n} /\ confirming' = TRUE
            /\ pressed < LookupConfirms /\ pressed' = pressed + 1
      /\ UNCHANGED <<open, seeded, query, timer, snapshot, cache, highlighted, filled, typed,
            overtaken, unseen, hung>>
  BY DEF Lookup!Confirm, Lookup!past
<1> HIDE DEF n
<1>3. LookupTypes'
  BY <1>1, <1>2 DEF LookupInv, LookupTypes, Lookup!TypeOK, LookupCall, LookupAssumptions
<1>4. ResultsAreStill'
  BY <1>1, <1>2 DEF LookupInv, ResultsAreStill, Lookup!Results
<1> QED
  BY <1>3, <1>4 DEF LookupInv

LEMMA LookupTimerFires ==
  ASSUME LookupInv, Lookup!TimerFires
  PROVE  LookupInv'
<1>1. /\ timer # None /\ timer' = None /\ timer \in Queries
      /\ UNCHANGED <<open, seeded, query, cache, highlighted, confirming, filled, typed, pressed,
            unseen, hung>>
      /\ overtaken' \in BOOLEAN
  BY DEF Lookup!TimerFires, LookupInv, LookupTypes, Lookup!TypeOK
<1>2. /\ snapshot' \in [state : {"idle", "loading", "resolved", "failed"}, of : Queries \cup {None}]
      /\ calls' \subseteq LookupCall
      /\ \A c \in calls' : c.kind = "search" => c.of \notin Short
      /\ \A c \in calls' : c.kind = "detail" => c \in calls
  <2>1. CASE timer \in Short \/ timer \in cache
    BY <1>1, <2>1 DEF Lookup!TimerFires, LookupInv, LookupTypes, Lookup!Idle, Lookup!Results
  <2>2. CASE timer \notin Short /\ timer \notin cache
    <3> DEFINE n == [kind |-> "search", of |-> timer, newest |-> TRUE, cover |-> FALSE]
               older(c) == IF c.kind = "search" THEN [c EXCEPT !.newest = FALSE] ELSE c
    <3>1. snapshot' = [state |-> "loading", of |-> None] /\ calls' = {older(c) : c \in calls} \cup {n}
      BY <2>2 DEF Lookup!TimerFires, Lookup!SearchFor
    <3>2. \A c \in calls : /\ older(c) \in LookupCall /\ older(c).kind = c.kind /\ older(c).of = c.of
                           /\ c.kind = "detail" => older(c) = c
      BY DEF LookupInv, LookupTypes, LookupCall
    <3>3. n \in LookupCall /\ n.kind = "search" /\ n.of = timer
      BY <1>1 DEF LookupCall
    <3> HIDE DEF n, older
    <3> QED
      BY <1>1, <2>2, <3>1, <3>2, <3>3 DEF LookupInv, LookupTypes
  <2> QED
    BY <2>1, <2>2
<1>3. LookupTypes'
  BY <1>1, <1>2 DEF LookupInv, LookupTypes, Lookup!TypeOK, LookupCall
<1>4. ResultsAreStill'
  BY <1>1, <1>2 DEF LookupInv, ResultsAreStill
<1> QED
  BY <1>3, <1>4 DEF LookupInv

LEMMA LookupSearchAnswers ==
  ASSUME LookupInv, NEW c \in calls, NEW outcome \in Lookup!Outcomes, Lookup!SearchAnswers(c, outcome)
  PROVE  LookupInv'
<1>1. /\ c.kind = "search" /\ calls' = calls \ {c} /\ c.of \in Queries /\ hung' \in BOOLEAN
      /\ UNCHANGED <<open, seeded, query, timer, highlighted, confirming, filled, typed, pressed,
            overtaken, unseen>>
      /\ snapshot' = snapshot \/ c.newest
  BY DEF Lookup!SearchAnswers, LookupInv, LookupTypes, LookupCall, Lookup!TypeOK
<1>2. /\ snapshot' \in [state : {"idle", "loading", "resolved", "failed"}, of : Queries \cup {None}]
      /\ cache' \subseteq cache \cup {c.of}
  BY <1>1 DEF Lookup!SearchAnswers, LookupInv, LookupTypes, Lookup!Results
<1>3. LookupTypes'
  BY <1>1, <1>2 DEF LookupInv, LookupTypes, Lookup!TypeOK, LookupCall
<1>4. ResultsAreStill'
  BY <1>1, <1>2 DEF LookupInv, ResultsAreStill, Lookup!Results
<1> QED
  BY <1>3, <1>4 DEF LookupInv

LEMMA LookupDetailAnswers ==
  ASSUME LookupInv, NEW c \in calls, NEW outcome \in Lookup!Outcomes, Lookup!DetailAnswers(c, outcome)
  PROVE  LookupInv'
<1>1. LookupTypes'
  BY DEF Lookup!DetailAnswers, LookupInv, LookupTypes, LookupCall, Lookup!TypeOK, Lookup!Outcomes
<1>2. ResultsAreStill'
  BY DEF Lookup!DetailAnswers, LookupInv, ResultsAreStill, Lookup!Results
<1> QED
  BY <1>1, <1>2 DEF LookupInv

LEMMA LookupStepKeepsInv ==
  ASSUME LookupAssumptions, LookupInv, [Lookup!Next]_(Lookup!vars)
  PROVE  LookupInv'
<1>1. CASE UNCHANGED Lookup!vars
  BY <1>1 DEF Lookup!vars, Lookup!past, LookupInv, LookupTypes, Lookup!TypeOK, ResultsAreStill,
    Lookup!Results
<1>2. CASE Lookup!Open \/ Lookup!Close \/ Lookup!Highlight \/ Lookup!Confirm \/ Lookup!TimerFires
  BY <1>2, LookupOpen, LookupHighlight, LookupConfirm, LookupTimerFires
<1>3. ASSUME NEW q \in Queries, Lookup!Type(q) PROVE LookupInv'
  BY <1>3, LookupTyping
<1>4. ASSUME NEW c \in calls, NEW outcome \in Lookup!Outcomes, Lookup!SearchAnswers(c, outcome)
             \/ Lookup!DetailAnswers(c, outcome)
      PROVE  LookupInv'
  BY <1>4, LookupSearchAnswers, LookupDetailAnswers
<1> QED
  BY <1>1, <1>2, <1>3, <1>4 DEF Lookup!Next

LEMMA LookupPromises ==
  LookupInv => Lookup!TypeOK /\ Lookup!HighlightedIsShown
BY DEF LookupInv, LookupTypes, ResultsAreStill, Lookup!HighlightedIsShown

\* One search is the newest, and of the query in the field once no other is due; without
\* one what is shown is what that query finds, unless an exception is known.
Newest(c) == c.kind = "search" /\ c.newest
SearchAnswered ==
  IF query \in Short THEN snapshot = Lookup!Idle
  ELSE snapshot = Lookup!Results(query) \/ snapshot.state = "failed"
NewestIsOne == \A c, d \in calls : Newest(c) /\ Newest(d) => c = d
SearchIsOfQuery ==
  seeded /\ ~overtaken /\ ~hung =>
    /\ timer # None => timer = query
    /\ timer = None => /\ \A c \in calls : Newest(c) => c.of = query
                       /\ (\A c \in calls : ~Newest(c)) => SearchAnswered
LookupSettled == NewestIsOne /\ SearchIsOfQuery

LEMMA LookupSettledInit ==
  ASSUME Lookup!Init PROVE LookupSettled
BY DEF Lookup!Init, LookupSettled, NewestIsOne, SearchIsOfQuery

LEMMA LookupFires ==
  ASSUME LookupInv, LookupSettled, Lookup!TimerFires
  PROVE  LookupSettled'
<1>1. /\ timer # None /\ timer' = None /\ timer \in Queries /\ cache \subseteq Queries \ Short
      /\ UNCHANGED <<seeded, query, hung>> /\ {overtaken, overtaken'} \subseteq BOOLEAN
            /\ calls \subseteq LookupCall
      /\ overtaken' = (overtaken \/ (timer \in Short \cup cache /\ \E c \in calls : Newest(c)))
  BY DEF Lookup!TimerFires, LookupInv, LookupTypes, Lookup!TypeOK, Newest
<1>2. CASE timer \in Short \/ timer \in cache
  <2>1. calls' = calls /\ snapshot' = (IF timer \in Short THEN Lookup!Idle ELSE Lookup!Results(timer))
    BY <1>2 DEF Lookup!TimerFires
  <2>2. NewestIsOne'
    BY <2>1 DEF LookupSettled, NewestIsOne, Newest
  <2>3. SearchIsOfQuery'
    BY <1>1, <1>2, <2>1 DEF LookupSettled, SearchIsOfQuery, Newest, SearchAnswered, Lookup!Idle,
      Lookup!Results
  <2> QED
    BY <2>2, <2>3 DEF LookupSettled
<1>3. CASE timer \notin Short /\ timer \notin cache
  <2> DEFINE n == [kind |-> "search", of |-> timer, newest |-> TRUE, cover |-> FALSE]
             older(c) == IF c.kind = "search" THEN [c EXCEPT !.newest = FALSE] ELSE c
  <2>1. calls' = {older(c) : c \in calls} \cup {n}
    BY <1>3 DEF Lookup!TimerFires, Lookup!SearchFor
  <2>2. \A c \in calls : ~Newest(older(c))
    BY <1>1 DEF LookupCall, Newest
  <2>3. Newest(n) /\ n.of = timer
    BY DEF Newest
  <2> HIDE DEF n, older
  <2>4. \A c \in calls' : Newest(c) => c = n
    BY <2>1, <2>2
  <2>5. n \in calls'
    BY <2>1
  <2>6. NewestIsOne'
    BY <2>4 DEF NewestIsOne, Newest
  <2>7. SearchIsOfQuery'
    <3>1. SUFFICES ASSUME seeded', ~overtaken', ~hung'
              PROVE \A c \in calls' : Newest(c) => c.of = query'
      BY <1>1, <2>3, <2>5 DEF SearchIsOfQuery, Newest
    <3>2. timer = query
      BY <1>1, <3>1 DEF LookupSettled, SearchIsOfQuery
    <3> QED
      BY <1>1, <2>3, <2>4, <3>2
  <2> QED
    BY <2>6, <2>7 DEF LookupSettled
<1> QED
  BY <1>2, <1>3

LEMMA LookupSearchSettles ==
  ASSUME LookupInv, LookupSettled, NEW c \in calls, NEW outcome \in Lookup!Outcomes,
         Lookup!SearchAnswers(c, outcome)
  PROVE  LookupSettled'
<1>1. /\ c.kind = "search" /\ calls' = calls \ {c} /\ c.of \notin Short
      /\ UNCHANGED <<seeded, query, timer, overtaken>> /\ {hung, hung'} \subseteq BOOLEAN
      /\ hung' = (hung \/ (c.newest /\ outcome = "throws"))
  BY DEF Lookup!SearchAnswers, LookupInv, LookupTypes, Lookup!TypeOK
<1>2. NewestIsOne'
  BY <1>1 DEF LookupSettled, NewestIsOne, Newest
<1>3. CASE ~c.newest
  <2>1. snapshot' = snapshot
    BY <1>3 DEF Lookup!SearchAnswers
  <2> QED
    BY <1>1, <1>2, <1>3, <2>1 DEF LookupSettled, SearchIsOfQuery, Newest, SearchAnswered
<1>4. CASE c.newest /\ outcome = "throws"
  BY <1>1, <1>2, <1>4 DEF LookupSettled, SearchIsOfQuery
<1>5. CASE c.newest /\ outcome # "throws"
  <2>1. snapshot' = IF outcome = "ok" THEN Lookup!Results(c.of) ELSE [state |-> "failed", of |-> None]
    BY <1>5 DEF Lookup!SearchAnswers
  <2>2. snapshot' = Lookup!Results(c.of) \/ snapshot'.state = "failed"
    BY <2>1
  <2>3. seeded /\ ~overtaken /\ ~hung /\ timer = None => c.of = query
    BY <1>1, <1>5 DEF LookupSettled, SearchIsOfQuery, Newest
  <2>4. seeded /\ ~overtaken /\ ~hung /\ timer = None => SearchAnswered'
    BY <1>1, <2>2, <2>3 DEF SearchAnswered, Lookup!Results
  <2> QED
    BY <1>1, <1>2, <2>4 DEF LookupSettled, SearchIsOfQuery, Newest
<1> QED
  BY <1>3, <1>4, <1>5

LookupWhole == LookupInv /\ LookupSettled

LEMMA LookupWholeInit ==
  ASSUME LookupAssumptions, Lookup!Init PROVE LookupWhole
BY LookupInit, LookupSettledInit DEF LookupWhole

LEMMA LookupStepKeepsWhole ==
  ASSUME LookupAssumptions, LookupWhole, [Lookup!Next]_(Lookup!vars)
  PROVE  LookupWhole'
<1> USE DEF LookupWhole
<1>1. LookupInv'
  BY LookupStepKeepsInv
<1>2. CASE Lookup!Close \/ Lookup!Highlight \/ UNCHANGED Lookup!vars
  <2>1. UNCHANGED <<seeded, query, timer, snapshot, calls, overtaken, hung>>
    BY <1>2 DEF Lookup!Close, Lookup!Highlight, Lookup!vars, Lookup!past
  <2> QED
    BY <1>1, <2>1 DEF LookupSettled, NewestIsOne, SearchIsOfQuery, Newest, SearchAnswered
<1>3. CASE Lookup!Open
  <2>1. /\ seeded' = TRUE /\ UNCHANGED <<snapshot, calls, overtaken, hung>>
        /\ IF seeded THEN UNCHANGED <<query, timer>> ELSE query' = LookupName /\ timer' = LookupName
    BY <1>3 DEF Lookup!Open, Lookup!past
  <2>2. CASE seeded
    BY <1>1, <2>1, <2>2 DEF LookupSettled, NewestIsOne, SearchIsOfQuery, Newest, SearchAnswered,
      LookupInv, LookupTypes, Lookup!TypeOK
  <2>3. CASE ~seeded
    <3>1. NewestIsOne'
      BY <2>1 DEF LookupSettled, NewestIsOne, Newest
    <3>2. LookupName # None
      BY DEF LookupAssumptions
    <3> QED
      BY <1>1, <2>1, <2>3, <3>1, <3>2 DEF LookupSettled, SearchIsOfQuery
  <2> QED
    BY <2>2, <2>3
<1>4. ASSUME NEW q \in Queries, Lookup!Type(q) PROVE LookupSettled'
  <2>1. query' = q /\ timer' = q /\ UNCHANGED <<snapshot, calls, seeded, overtaken, hung>>
    BY <1>4 DEF Lookup!Type, Lookup!past
  <2> QED
    BY <2>1 DEF LookupSettled, NewestIsOne, SearchIsOfQuery, Newest, LookupAssumptions
<1>5. ASSUME Lookup!Confirm PROVE LookupSettled'
  <2> DEFINE n == [kind |-> "detail", of |-> highlighted, newest |-> TRUE,
          cover |-> snapshot = Lookup!Results(highlighted)]
  <2>1. calls' = calls \cup {n} /\ UNCHANGED <<snapshot, query, timer, seeded, overtaken, hung>>
    BY <1>5 DEF Lookup!Confirm, Lookup!past
  <2>2. ~Newest(n)
    BY DEF Newest
  <2> HIDE DEF n
  <2> QED
    BY <2>1, <2>2 DEF LookupSettled, NewestIsOne, SearchIsOfQuery, Newest, SearchAnswered
<1>6. ASSUME NEW c \in calls, NEW outcome \in Lookup!Outcomes, Lookup!DetailAnswers(c, outcome)
             PROVE LookupSettled'
  <2>1. /\ c.kind = "detail" /\ calls' = calls \ {c}
              /\ UNCHANGED <<snapshot, query, timer, seeded, overtaken>>
        /\ hung' = (hung \/ outcome = "throws") /\ hung \in BOOLEAN
    BY <1>6 DEF Lookup!DetailAnswers, LookupInv, LookupTypes, Lookup!TypeOK
  <2> QED
    BY <2>1 DEF LookupSettled, NewestIsOne, SearchIsOfQuery, Newest, SearchAnswered
<1> QED
  BY <1>1, <1>2, <1>3, <1>4, <1>5, <1>6, LookupFires, LookupSearchSettles DEF Lookup!Next

LEMMA LookupRowsSettle == LookupWhole => Lookup!ResultsSettle
BY DEF LookupWhole, LookupSettled, SearchIsOfQuery, Newest, SearchAnswered, Lookup!ResultsSettle,
  Lookup!Idle, Lookup!Results

\* For any queries: what Confirm fetches is a candidate on the screen, and the form is
\* filled with its cover, unless the results were due to be replaced when it was
\* highlighted; and with nothing under way the results are those of what was typed last,
\* but as the property says (useMetadataLookup).
THEOREM LookupIsSafe ==
  ASSUME LookupAssumptions
  PROVE  Lookup!Spec => [](Lookup!TypeOK /\ Lookup!HighlightedIsShown /\ Lookup!ResultsSettle)
<1>1. Lookup!Init => LookupWhole
  BY LookupWholeInit
<1>2. LookupWhole /\ [Lookup!Next]_(Lookup!vars) => LookupWhole'
  BY LookupStepKeepsWhole
<1>3. LookupWhole => (Lookup!TypeOK /\ Lookup!HighlightedIsShown /\ Lookup!ResultsSettle)
  BY LookupPromises, LookupRowsSettle DEF LookupWhole
<1> QED
  BY <1>1, <1>2, <1>3, PTL DEF Lookup!Spec

-----------------------------------------------------------------------------
(* The inspector.  A request whose effect has not been cleaned up asks about *)
(* the selected anime, so only its answer can be shown; the cover effect has *)
(* run for the selection.                                                    *)

InspectorRequest == [kind : Inspector!Kinds, anime : Animes, visit : 1..InspectorVisits, active :
    BOOLEAN]
CoverState == [status : {"placeholder", "loading", "cover"}, anime : Animes \cup {None}]

ActiveAsksSelected == \A r \in asked : r.active => r.anime = selected
RecentsOfSelected == selected # None => recents \in {selected, None}
CoverOfSelected == cover.status # "placeholder" => cover.anime = selected
InspectorVisited == selected # None => visits # 0

InspectorInv == Inspector!TypeOK /\ ActiveAsksSelected /\ RecentsOfSelected /\ CoverOfSelected
    /\ InspectorVisited

InspectorAssumptions == InspectorVisits \in Nat /\ None \notin Animes

\* Cleaning up keeps every request, and makes those of the kinds inactive.
LEMMA RetiresSome ==
  ASSUME NEW R \in SUBSET InspectorRequest, NEW K, NEW q \in Inspector!Retire(R, K)
  PROVE  /\ q \in InspectorRequest
         /\ q.active => q.kind \notin K /\ \E r \in R : r.active /\ r.anime = q.anime /\ r.kind = q.kind
<1>1. PICK r \in R : q = [r EXCEPT !.active = r.active /\ r.kind \notin K]
  BY DEF Inspector!Retire
<1>2. r \in [kind : Inspector!Kinds, anime : Animes, visit : 1..InspectorVisits, active : BOOLEAN]
  BY DEF InspectorRequest
<1>3. (r.active /\ r.kind \notin K) \in BOOLEAN
  OBVIOUS
<1>4. /\ q \in InspectorRequest /\ q.kind = r.kind /\ q.anime = r.anime
      /\ q.active = (r.active /\ r.kind \notin K)
  BY <1>1, <1>2, <1>3 DEF InspectorRequest
<1> QED
  BY <1>4

LEMMA RequestTyped ==
  ASSUME NEW k \in Inspector!Kinds, NEW a \in Animes, NEW n \in 1..InspectorVisits
  PROVE  Inspector!Request(k, a, n) \in InspectorRequest /\ Inspector!Request(k, a, n).anime = a
BY DEF Inspector!Request, InspectorRequest

\* A stored cover is known only of a detail of the anime itself.
LEMMA StoredCoverOfAnime ==
  ASSUME InspectorAssumptions, NEW s, NEW a \in Animes \cup {None}, Inspector!HasStoredCover(s, a),
         s = None \/ s \in [anime : Animes, ok : BOOLEAN]
  PROVE  a \in Animes
BY DEF InspectorAssumptions, Inspector!HasStoredCover, Inspector!DetailOf

\* The cover effect, run for the anime that is selected from now on.
LEMMA CoverEffectInv ==
  ASSUME InspectorAssumptions, NEW R \in SUBSET InspectorRequest, NEW s, NEW a \in Animes
         \cup {None}, NEW n \in Nat,
         s = None \/ s \in [anime : Animes, ok : BOOLEAN],
         a # None => n \in 1..InspectorVisits,
         Inspector!CoverEffect(R, s, a, n),
         \A r \in R : r.active /\ r.kind # "cover" => r.anime = a
  PROVE  /\ asked' \in SUBSET InspectorRequest
         /\ \A q \in asked' : q.active => q.anime = a
         /\ cover' \in CoverState
         /\ cover'.status # "placeholder" => cover'.anime = a
<1>1. \A q \in Inspector!Retire(R, {"cover"}) : q \in InspectorRequest /\ (q.active => q.anime = a)
  BY RetiresSome
<1>2. CASE Inspector!HasStoredCover(s, a)
  <2>1. a \in Animes
    BY <1>2, StoredCoverOfAnime
  <2>2. n \in 1..InspectorVisits /\ "cover" \in Inspector!Kinds
    BY <2>1 DEF InspectorAssumptions, Inspector!Kinds
  <2>3. Inspector!Request("cover", a, n) \in InspectorRequest
            /\ Inspector!Request("cover", a, n).anime = a
    BY <2>1, <2>2, RequestTyped
  <2>4. asked' = Inspector!Retire(R, {"cover"}) \cup {Inspector!Request("cover", a, n)}
    BY <1>2 DEF Inspector!CoverEffect
  <2>5. cover' = [status |-> "loading", anime |-> a]
    BY <1>2 DEF Inspector!CoverEffect
  <2>6. cover' \in CoverState /\ cover'.anime = a
    BY <2>1, <2>5 DEF CoverState
  <2> QED
    BY <1>1, <2>3, <2>4, <2>6
<1>3. CASE ~Inspector!HasStoredCover(s, a)
  <2>1. asked' = Inspector!Retire(R, {"cover"}) /\ cover' = [status |-> "placeholder", anime |-> None]
    BY <1>3 DEF Inspector!CoverEffect, Inspector!Placeholder
  <2>2. cover' \in CoverState /\ cover'.status = "placeholder"
    BY <2>1 DEF CoverState
  <2> QED
    BY <1>1, <2>1, <2>2
<1> QED
  BY <1>2, <1>3

LEMMA InspectorInit == ASSUME InspectorAssumptions, Inspector!Init PROVE InspectorInv
BY DEF InspectorAssumptions, Inspector!Init, InspectorInv, Inspector!TypeOK, Inspector!Placeholder,
  ActiveAsksSelected, RecentsOfSelected, CoverOfSelected, InspectorVisited

LEMMA SelectKeepsInv ==
  ASSUME InspectorAssumptions, InspectorInv, NEW a \in Animes \cup {None}, Inspector!Select(a)
  PROVE  InspectorInv'
<1> DEFINE kept == Inspector!Retire(asked, {"detail", "episodes"})
           started == IF a = None THEN {} ELSE {Inspector!Request(k, a, visits + 1) :
               k \in {"detail", "episodes"}}
<1>1. /\ asked \in SUBSET InspectorRequest /\ visits \in 0..InspectorVisits /\ visits < InspectorVisits
      /\ snapshot = None \/ snapshot \in [anime : Animes, ok : BOOLEAN]
      /\ recents \in Animes \cup {None}
  BY DEF InspectorInv, Inspector!TypeOK, InspectorRequest, Inspector!Select
<1>2. visits + 1 \in 1..InspectorVisits
  BY <1>1 DEF InspectorAssumptions
<1>3. \A q \in kept : q \in InspectorRequest /\ (q.active => q.kind \notin {"detail", "episodes"})
  BY <1>1, RetiresSome
<1>4. \A q \in started : q \in InspectorRequest /\ q.anime = a
  <2>1. CASE a = None
    BY <2>1
  <2>2. CASE a # None
    <3>1. a \in Animes /\ {"detail", "episodes"} \subseteq Inspector!Kinds
      BY <2>2 DEF Inspector!Kinds
    <3> QED
      BY <1>2, <2>2, <3>1, RequestTyped
  <2> QED
    BY <2>1, <2>2
<1>5. Inspector!CoverEffect(kept \cup started, snapshot, a, visits + 1)
  BY DEF Inspector!Select
<1> HIDE DEF kept, started
<1>6. kept \cup started \in SUBSET InspectorRequest
  BY <1>3, <1>4
<1>7. \A r \in kept \cup started : r.active /\ r.kind # "cover" => r.anime = a
  BY <1>3, <1>4 DEF InspectorRequest, Inspector!Kinds
<1>8. visits + 1 \in Nat
  BY <1>2
<1>9. /\ asked' \in SUBSET InspectorRequest /\ \A q \in asked' : q.active => q.anime = a
      /\ cover' \in CoverState
      /\ cover'.status # "placeholder" => cover'.anime = a
  BY <1>1, <1>2, <1>5, <1>6, <1>7, <1>8, CoverEffectInv
<1>10. /\ selected' = a /\ visits' = visits + 1 /\ snapshot' = snapshot
       /\ recents' = IF a = None THEN recents ELSE None
  BY DEF Inspector!Select
<1>11. Inspector!TypeOK'
  BY <1>1, <1>2, <1>9, <1>10 DEF Inspector!TypeOK, InspectorRequest, CoverState
<1>12. ActiveAsksSelected' /\ RecentsOfSelected' /\ CoverOfSelected' /\ InspectorVisited'
  BY <1>2, <1>9, <1>10 DEF ActiveAsksSelected, RecentsOfSelected, CoverOfSelected, InspectorVisited
<1> QED
  BY <1>11, <1>12 DEF InspectorInv

LEMMA DetailKeepsInv ==
  ASSUME InspectorAssumptions, InspectorInv, NEW r \in asked, NEW ok \in BOOLEAN,
         Inspector!DetailAnswers(r, ok)
  PROVE  InspectorInv'
<1>1. /\ asked \in SUBSET InspectorRequest /\ visits \in 0..InspectorVisits /\ selected \in Animes
            \cup {None}
      /\ snapshot = None \/ snapshot \in [anime : Animes, ok : BOOLEAN]
      /\ recents \in Animes \cup {None} /\ cover \in CoverState
  BY DEF InspectorInv, Inspector!TypeOK, InspectorRequest, CoverState
<1>2. selected' = selected /\ recents' = recents /\ visits' = visits
  BY DEF Inspector!DetailAnswers
<1>3. \A q \in asked \ {r} : q \in InspectorRequest /\ (q.active => q.anime = selected)
  BY <1>1 DEF InspectorInv, ActiveAsksSelected
<1>4. snapshot' = None \/ snapshot' \in [anime : Animes, ok : BOOLEAN]
  <2>1. r.anime \in Animes
    BY <1>1 DEF InspectorRequest
  <2> QED
    BY <1>1, <2>1 DEF Inspector!DetailAnswers
<1>5. /\ asked' \in SUBSET InspectorRequest /\ \A q \in asked' : q.active => q.anime = selected
      /\ cover' \in CoverState
      /\ cover'.status # "placeholder" => cover'.anime = selected
  <2>1. CASE UNCHANGED cover /\ asked' = asked \ {r}
    BY <1>1, <1>3, <2>1 DEF InspectorInv, CoverOfSelected
  <2>2. CASE Inspector!CoverEffect(asked \ {r}, snapshot', selected, visits)
    <3>1. selected # None => visits \in 1..InspectorVisits
      BY <1>1 DEF InspectorInv, InspectorVisited, InspectorAssumptions
    <3>2. asked \ {r} \in SUBSET InspectorRequest /\ visits \in Nat
      BY <1>1
    <3> QED
      BY <1>1, <1>3, <1>4, <2>2, <3>1, <3>2, CoverEffectInv
  <2> QED
    BY <2>1, <2>2 DEF Inspector!DetailAnswers
<1>6. Inspector!TypeOK'
  BY <1>1, <1>2, <1>4, <1>5 DEF Inspector!TypeOK, InspectorRequest, CoverState
<1>7. ActiveAsksSelected' /\ RecentsOfSelected' /\ CoverOfSelected' /\ InspectorVisited'
  BY <1>2, <1>5 DEF InspectorInv, ActiveAsksSelected, RecentsOfSelected, CoverOfSelected,
    InspectorVisited
<1> QED
  BY <1>6, <1>7 DEF InspectorInv

LEMMA EpisodesKeepInv ==
  ASSUME InspectorAssumptions, InspectorInv, NEW r \in asked, NEW ok \in BOOLEAN,
         Inspector!EpisodesAnswer(r, ok)
  PROVE  InspectorInv'
<1>1. r.anime \in Animes /\ (r.active => r.anime = selected)
  BY DEF InspectorInv, Inspector!TypeOK, ActiveAsksSelected
<1>2. /\ asked' = asked \ {r} /\ UNCHANGED <<selected, snapshot, cover, visits>>
      /\ recents' = recents \/ (r.active /\ recents' = r.anime)
  BY DEF Inspector!EpisodesAnswer
<1> QED
  BY <1>1, <1>2 DEF InspectorInv, Inspector!TypeOK, ActiveAsksSelected, RecentsOfSelected,
    CoverOfSelected, InspectorVisited

LEMMA CoverKeepsInv ==
  ASSUME InspectorAssumptions, InspectorInv, NEW r \in asked, NEW ok \in BOOLEAN,
         Inspector!CoverAnswers(r, ok)
  PROVE  InspectorInv'
<1>1. r.anime \in Animes /\ (r.active => r.anime = selected)
  BY DEF InspectorInv, Inspector!TypeOK, ActiveAsksSelected
<1>2. /\ asked' = asked \ {r} /\ UNCHANGED <<selected, snapshot, recents, visits>>
      /\ \/ cover' = cover
         \/ r.active /\ cover' = [status |-> "cover", anime |-> r.anime]
         \/ cover' = Inspector!Placeholder
  BY DEF Inspector!CoverAnswers
<1>3. cover \in CoverState /\ (cover.status # "placeholder" => cover.anime = selected)
  BY DEF InspectorInv, Inspector!TypeOK, CoverState, CoverOfSelected
<1>4. cover' \in CoverState /\ (cover'.status # "placeholder" => cover'.anime = selected)
  <2>1. CASE cover' = cover
    BY <1>3, <2>1
  <2>2. CASE r.active /\ cover' = [status |-> "cover", anime |-> r.anime]
    <3>1. cover' \in CoverState /\ cover'.anime = r.anime
      BY <1>1, <2>2 DEF CoverState
    <3> QED
      BY <1>1, <2>2, <3>1
  <2>3. CASE cover' = Inspector!Placeholder
    <3>1. cover' \in CoverState /\ cover'.status = "placeholder"
      BY <2>3 DEF CoverState, Inspector!Placeholder
    <3> QED
      BY <3>1
  <2> QED
    BY <1>2, <2>1, <2>2, <2>3
<1>5. Inspector!TypeOK'
  BY <1>2, <1>4 DEF InspectorInv, Inspector!TypeOK, CoverState
<1>6. ActiveAsksSelected' /\ RecentsOfSelected' /\ CoverOfSelected' /\ InspectorVisited'
  BY <1>2, <1>4 DEF InspectorInv, ActiveAsksSelected, RecentsOfSelected, CoverOfSelected,
    InspectorVisited
<1> QED
  BY <1>5, <1>6 DEF InspectorInv

LEMMA InspectorStutters == ASSUME InspectorInv, UNCHANGED Inspector!vars PROVE InspectorInv'
BY DEF InspectorInv, Inspector!vars, Inspector!TypeOK, ActiveAsksSelected, RecentsOfSelected,
  CoverOfSelected, InspectorVisited

LEMMA InspectorStepKeepsInv == ASSUME InspectorAssumptions
    PROVE InspectorInv /\ [Inspector!Next]_(Inspector!vars) => InspectorInv'
BY SelectKeepsInv, DetailKeepsInv, EpisodesKeepInv, CoverKeepsInv, InspectorStutters
  DEF Inspector!Next, Inspector!Answer

LEMMA InspectorPromises == InspectorInv => Inspector!TypeOK /\ Inspector!PaneIsOfOneAnime
<1>a. InspectorInv => Inspector!TypeOK
  BY DEF InspectorInv
<1> SUFFICES ASSUME InspectorInv, Inspector!Status = "content"
             PROVE  /\ snapshot.anime = selected
                    /\ recents \in {selected, None}
                    /\ cover.status # "placeholder" => cover.anime = selected
  BY <1>a DEF Inspector!PaneIsOfOneAnime
<1>1. selected # None /\ Inspector!DetailOf(snapshot, selected) # None
  BY DEF Inspector!Status
<1> QED
  BY <1>1 DEF InspectorInv, Inspector!DetailOf, RecentsOfSelected, CoverOfSelected

\* With the content of one anime the pane shows neither the episodes nor the
\* cover of another, for any burst of selections and any order of the answers to
\* its three reads (useHistoryInspector, useAnimeCover).
THEOREM InspectorIsSafe ==
  ASSUME InspectorAssumptions
  PROVE  Inspector!Spec => [](Inspector!TypeOK /\ Inspector!PaneIsOfOneAnime)
<1>1. Inspector!Init => InspectorInv
  BY InspectorInit
<1>2. InspectorInv /\ [Inspector!Next]_(Inspector!vars) => InspectorInv'
  BY InspectorStepKeepsInv
<1> QED
  BY <1>1, <1>2, InspectorPromises, PTL DEF Inspector!Spec

-----------------------------------------------------------------------------
(* The notification pane and the badge of the rail.  An answer that tells a  *)
(* count or a read state and is older than what is known already is doomed:  *)
(* its arrival crosses.  While none is, the last one told has the store's    *)
(* state, and when none is on its way the window has it.                     *)

PaneAssumptions == PaneSeeded \in Nat /\ PaneRecords \in Nat /\ PaneSeeded <= PaneRecords
    /\ None \notin 1..PaneRecords

PaneCall ==
  [ticket : Nat, kind : Pane!Mutations \cup {"count", "get"}, id : Nat \cup {None}, served : BOOLEAN,
   degraded : BOOLEAN, count : Nat, at : Nat]

PaneOfTypes ==
  /\ read \in Seq(BOOLEAN) /\ Len(read) \in PaneSeeded..PaneRecords /\ gone \subseteq Pane!Ids
  /\ changes \in Nat /\ made \in Nat /\ badge \in Nat /\ dots \subseteq Pane!Ids
  /\ opened \in Pane!Ids \cup {None} /\ shown \in Pane!Ids \cup {None} /\ settled \in Pane!Ids
        \cup {None}
  /\ archiving \in BOOLEAN /\ unmarking \in BOOLEAN /\ crossed \in BOOLEAN
  /\ seen \in 0..changes /\ counted \in 0..seen /\ uncounted \in 0..changes

PaneCallsOfTypes ==
  /\ calls \subseteq PaneCall
  /\ \A c \in calls :
       /\ c.ticket \in 1..made /\ c.at <= changes /\ c.count <= PaneRecords
       /\ c.kind # "count" => c.id \in Pane!Ids
       /\ c.kind = "get" => c.served
       /\ c.kind = "count" => ~c.degraded

\* A push is of a record stored later than those of the pushes before it.
PushesOfTypes ==
  /\ pushes \in Seq(1..changes) /\ Len(pushes) <= Len(read) - PaneSeeded
  /\ badge + Len(pushes) <= PaneRecords + (Len(read) - PaneSeeded)
  /\ \A i, j \in 1..Len(pushes) : i < j => pushes[i] < pushes[j]

\* What is not settled yet has a call on its way.
PaneWaits ==
  /\ shown = opened \/ \E c \in calls : c.kind = "get" /\ c.id = opened
  /\ archiving => \E c \in calls : c.kind = "archive"
  /\ unmarking => \E c \in calls : c.kind = "markUnread"

\* The answers on their way that tell a count, and those that tell a read state.
Told == {c \in calls : c.kind \in {"count", "markRead", "markUnread"} /\ c.served /\ ~c.degraded}
TellsOf(c, i) == c.kind # "count" /\ c.id = i

Doomed ==
  \/ \E c \in Told : c.at < seen
  \/ \E j \in 1..Len(pushes) : pushes[j] < seen \/ pushes[j] <= counted

DotsTold ==
  \A i \in Pane!Ids \ gone :
    /\ (\A c \in Told : ~TellsOf(c, i)) => (i \in dots <=> ~read[i])
    /\ \A c \in Told : TellsOf(c, i) =>
         (read[i] <=> c.kind = "markRead") \/ \E d \in Told : TellsOf(d, i) /\ d.at > c.at

\* The pushes of the records a count had not seen are the last ones, from k on.
CountedUpTo(c, k) ==
  /\ \A j \in 1..Len(pushes) : pushes[j] <= c.at <=> j <= k
  /\ Pane!UnreadCount(read) = c.count + (Len(pushes) - k)

Counts(c) ==
  \/ uncounted > c.at
  \/ \E d \in Told : d.at > c.at
  \/ \E k \in 0..Len(pushes) : CountedUpTo(c, k)

BadgeTold ==
  /\ Told = {} /\ (\A c \in calls : c.kind # "count") =>
       uncounted > counted \/ Pane!UnreadCount(read) = badge + Len(pushes)
  /\ \A c \in Told : Counts(c)

PaneTold == crossed \/ Doomed \/ (DotsTold /\ BadgeTold)

PaneInv == PaneOfTypes /\ PaneCallsOfTypes /\ PushesOfTypes /\ PaneWaits /\ PaneTold

LEMMA UnreadIsCounted ==
  ASSUME NEW r \in Seq(BOOLEAN)
  PROVE  /\ Pane!UnreadCount(r) \in 0..Len(r)
         /\ Pane!UnreadCount(Append(r, FALSE)) = Pane!UnreadCount(r) + 1
<1> DEFINE U(q) == {i \in 1..Len(q) : ~q[i]}
<1>1. \A q : Pane!UnreadCount(q) = Cardinality(U(q))
  BY DEF Pane!UnreadCount, Pane!Cardinality, Cardinality
<1>2. IsFiniteSet(1..Len(r)) /\ Cardinality(1..Len(r)) = Len(r)
  <2>1. Len(r) \in Nat /\ 1 \in Int /\ Len(r) \in Int
    OBVIOUS
  <2>2. IsFiniteSet(1..Len(r)) /\ Cardinality(1..Len(r)) = IF 1 > Len(r) THEN 0 ELSE Len(r) - 1 + 1
    BY <2>1, FS_Interval, Zenon
  <2> QED
    BY <2>1, <2>2
<1>3. IsFiniteSet(U(r)) /\ Cardinality(U(r)) \in 0..Len(r)
  <2>1. U(r) \subseteq 1..Len(r)
    OBVIOUS
  <2> QED
    BY <2>1, <1>2, FS_Subset, FS_CardinalityType
<1>4. U(Append(r, FALSE)) = U(r) \cup {Len(r) + 1} /\ Len(r) + 1 \notin U(r)
  OBVIOUS
<1>5. Cardinality(U(Append(r, FALSE))) = Cardinality(U(r)) + 1
  BY <1>3, <1>4, FS_AddElement
<1> QED
  BY <1>1, <1>3, <1>5

LEMMA PaneInit ==
  ASSUME PaneAssumptions, Pane!Init PROVE PaneInv
<1> DEFINE c == [ticket |-> 1, kind |-> "count", id |-> None, served |-> FALSE, degraded |-> FALSE,
        count |-> 0, at |-> 0]
<1>1. calls = {c} /\ made = 1
  BY DEF Pane!Init, Pane!Call
<1>2. c \in PaneCall
  BY DEF PaneCall, Pane!Mutations
<1>3. read \in Seq(BOOLEAN) /\ Len(read) = PaneSeeded /\ \A i \in 1..PaneSeeded : ~read[i]
  <2>1. read = [i \in 1..PaneSeeded |-> FALSE] /\ PaneSeeded \in Nat
    BY DEF Pane!Init, PaneAssumptions
  <2> QED
    BY <2>1
<1>4. PaneOfTypes
  <2>1. Len(read) \in PaneSeeded..PaneRecords /\ gone = {} /\ dots = Pane!Ids
    BY <1>3 DEF Pane!Init, PaneAssumptions, Pane!Ids
  <2>2. changes = 0 /\ badge = 0 /\ made = 1 /\ opened = None /\ shown = None /\ settled = None
    BY DEF Pane!Init
  <2>3. archiving = FALSE /\ unmarking = FALSE /\ crossed = FALSE /\ seen = 0 /\ counted = 0
            /\ uncounted = 0
    BY DEF Pane!Init
  <2>4. gone \subseteq Pane!Ids /\ dots \subseteq Pane!Ids
    BY <2>1, <2>2
  <2>5. opened \in Pane!Ids \cup {None} /\ shown \in Pane!Ids \cup {None} /\ settled \in Pane!Ids
            \cup {None}
    BY <2>2
  <2>6. seen \in 0..changes /\ counted \in 0..seen /\ uncounted \in 0..changes
    BY <2>2, <2>3
  <2>7. archiving \in BOOLEAN /\ unmarking \in BOOLEAN /\ crossed \in BOOLEAN
    BY <2>3
  <2>8. changes \in Nat /\ made \in Nat /\ badge \in Nat
    BY <2>2
  <2> QED
    BY <1>3, <2>1, <2>4, <2>5, <2>6, <2>7, <2>8 DEF PaneOfTypes
<1>5. PaneCallsOfTypes
  BY <1>1, <1>2 DEF PaneCallsOfTypes, PaneAssumptions, Pane!Init
<1>6. PushesOfTypes
  BY <1>3 DEF PushesOfTypes, Pane!Init, PaneAssumptions
<1>7. PaneWaits
  BY DEF PaneWaits, Pane!Init
<1>8. Told = {}
  BY <1>1 DEF Told
<1>9. DotsTold /\ BadgeTold
  <2>1. DotsTold
    BY <1>3, <1>8 DEF DotsTold, Pane!Init, Pane!Ids
  <2>2. c \in calls /\ c.kind = "count"
    BY <1>1
  <2>3. BadgeTold
    BY <2>2, <1>8 DEF BadgeTold
  <2> QED
    BY <2>1, <2>3
<1> QED
  BY <1>4, <1>5, <1>6, <1>7, <1>9 DEF PaneInv, PaneTold

-----------------------------------------------------------------------------
(* What is told stays told.                                                *)

LEMMA NothingTold ==
  ASSUME PaneTold, UNCHANGED <<read, gone, pushes, badge, dots, seen, crossed, counted, uncounted>>,
         Told' = Told, (\E c \in calls : c.kind = "count") => \E c \in calls' : c.kind = "count"
  PROVE  PaneTold'
<1>1. CASE crossed
  BY <1>1 DEF PaneTold
<1>2. CASE Doomed
  BY <1>2 DEF PaneTold, Doomed
<1>3. CASE DotsTold /\ BadgeTold
  <2>1. DotsTold'
    BY <1>3 DEF DotsTold, Pane!Ids
  <2>2. BadgeTold'
    BY <1>3 DEF BadgeTold, Counts, CountedUpTo
  <2> QED
    BY <2>1, <2>2 DEF PaneTold
<1> QED
  BY <1>1, <1>2, <1>3 DEF PaneTold

\* An answer that tells a count or a read state is taken: it crosses, or the others
\* on their way are later ones.
LEMMA TellingIsTaken ==
  ASSUME PaneInv, NEW c \in Told, calls' = calls \ {c},
         badge' = c.count, counted' = IF c.at > counted THEN c.at ELSE counted, Pane!Learn(c.at),
         UNCHANGED <<read, gone, changes, pushes, uncounted>>,
         \A i \in Pane!Ids : i \in dots' <=> (IF TellsOf(c, i) THEN c.kind = "markUnread"
             ELSE i \in dots)
  PROVE  PaneTold'
<1> USE DEF PaneInv
<1>1. c \in PaneCall /\ c \in calls /\ c.at \in 0..changes
          /\ c.kind \in {"count", "markRead", "markUnread"}
  BY DEF PaneCallsOfTypes, Told, PaneCall
<1>2. seen \in Nat /\ counted \in Nat /\ counted <= seen /\ c.at \in Nat
  BY <1>1 DEF PaneOfTypes
<1>3. Told' = Told \ {c}
  BY DEF Told
<1>4. CASE crossed \/ c.at < seen
  BY <1>4 DEF Pane!Learn, PaneTold
<1>5. CASE ~(crossed \/ c.at < seen) /\ Doomed
  <2>1. seen' = c.at /\ seen <= seen' /\ counted' = c.at /\ counted <= counted'
    BY <1>2, <1>5 DEF Pane!Learn
  <2>2. \A d \in Told : d.at \in Nat
    BY DEF Told, PaneCallsOfTypes, PaneCall
  <2>3. \A j \in 1..Len(pushes) : pushes[j] \in Nat
    BY DEF PushesOfTypes, PaneOfTypes
  <2>4. CASE \E d \in Told : d.at < seen
    <3>1. PICK d \in Told : d.at < seen
      BY <2>4
    <3>2. d # c
      BY <3>1, <1>5
    <3> QED
      BY <3>1, <3>2, <1>2, <1>3, <2>1, <2>2 DEF Doomed, PaneTold
  <2>5. CASE \E j \in 1..Len(pushes) : pushes[j] < seen \/ pushes[j] <= counted
    BY <2>5, <2>1, <2>3, <1>2 DEF Doomed, PaneTold
  <2> QED
    BY <1>5, <2>4, <2>5 DEF Doomed
<1>6. CASE ~(crossed \/ c.at < seen) /\ ~Doomed
  <2>1. seen' = c.at /\ counted' = c.at
    BY <1>2, <1>6 DEF Pane!Learn
  <2>2. \A d \in Told : d.at \in Nat
    BY DEF Told, PaneCallsOfTypes, PaneCall
  <2>3. DotsTold /\ BadgeTold
    BY <1>6 DEF PaneTold
  <2>4. CASE \E d \in Told \ {c} : d.at < c.at
    BY <2>4, <2>1, <1>3 DEF Doomed, PaneTold
  <2>5. CASE \A d \in Told \ {c} : c.at <= d.at
    <3>1. ASSUME NEW d \in Told \ {c}, NEW e \in Told, e.at > d.at
          PROVE  e \in Told'
      BY <3>1, <2>5, <2>2, <1>2, <1>3
    <3>2. DotsTold'
      <4>1. SUFFICES ASSUME NEW i \in Pane!Ids \ gone
                     PROVE  /\ (\A d \in Told' : ~TellsOf(d, i)) => (i \in dots' <=> ~read[i])
                            /\ \A d \in Told' : TellsOf(d, i) =>
                                 (read[i] <=> d.kind = "markRead") \/ \E e \in Told' :
                                     TellsOf(e, i) /\ e.at > d.at
        BY DEF DotsTold, Pane!Ids, TellsOf
      <4>2. ASSUME NEW d \in Told', TellsOf(d, i)
            PROVE  (read[i] <=> d.kind = "markRead") \/ \E e \in Told' : TellsOf(e, i) /\ e.at > d.at
        BY <4>2, <3>1, <2>3, <1>3 DEF DotsTold
      <4>3. ASSUME \A d \in Told' : ~TellsOf(d, i), TellsOf(c, i) PROVE i \in dots' <=> ~read[i]
        <5>1. ~\E d \in Told : TellsOf(d, i) /\ d.at > c.at
          BY <4>3, <1>3, <1>2
        <5>2. read[i] <=> c.kind = "markRead"
          BY <5>1, <4>3, <2>3 DEF DotsTold
        <5> QED
          BY <5>2, <4>3, <1>1 DEF TellsOf
      <4>4. ASSUME \A d \in Told' : ~TellsOf(d, i), ~TellsOf(c, i) PROVE i \in dots' <=> ~read[i]
        <5>1. \A d \in Told : ~TellsOf(d, i)
          BY <4>4, <1>3
        <5> QED
          BY <5>1, <4>4, <2>3 DEF DotsTold
      <4> QED
        BY <4>2, <4>3, <4>4
    <3>3. BadgeTold' \/ Doomed'
      <4>1. ASSUME NEW d \in Told' PROVE Counts(d)'
        <5>1. Counts(d) /\ d \in Told \ {c}
          BY <2>3, <1>3 DEF BadgeTold
        <5> QED
          BY <5>1, <3>1 DEF Counts, CountedUpTo
      <4>2. ASSUME Told' = {}, ~(uncounted > c.at), \A j \in 1..Len(pushes) : pushes[j] > c.at
            PROVE  Pane!UnreadCount(read) = c.count + Len(pushes)
        <5>1. ~\E d \in Told : d.at > c.at
          BY <4>2, <1>3, <1>2
        <5>2. PICK k \in 0..Len(pushes) : CountedUpTo(c, k)
          BY <4>2, <5>1, <2>3 DEF BadgeTold, Counts
        <5>3. Len(pushes) \in Nat /\ \A j \in 1..Len(pushes) : pushes[j] \in Nat
          BY DEF PushesOfTypes, PaneOfTypes
        <5>4. k = 0
          <6>1. SUFFICES ASSUME k # 0 PROVE FALSE
            OBVIOUS
          <6>2. 1 \in 1..Len(pushes) /\ 1 <= k
            BY <6>1, <5>3
          <6> QED
            BY <6>2, <5>2, <5>3, <4>2, <1>2 DEF CountedUpTo
        <5> QED
          BY <5>2, <5>3, <5>4 DEF CountedUpTo
      <4>3. ASSUME \E j \in 1..Len(pushes) : pushes[j] <= c.at PROVE Doomed'
        BY <4>3, <2>1 DEF Doomed
      <4>4. \A j \in 1..Len(pushes) : pushes[j] \in Nat
        BY DEF PushesOfTypes, PaneOfTypes
      <4>5. CASE \A j \in 1..Len(pushes) : pushes[j] > c.at
        BY <4>1, <4>2, <4>5, <2>1 DEF BadgeTold
      <4> QED
        BY <4>3, <4>4, <4>5, <1>2
    <3> QED
      BY <3>2, <3>3 DEF PaneTold
  <2> QED
    BY <2>2, <2>4, <2>5, <1>2
<1> QED
  BY <1>4, <1>5, <1>6

-----------------------------------------------------------------------------
(* The steps                                                               *)

\* A call that is added has told nothing.
LEMMA PaneAsks ==
  ASSUME PaneAssumptions, PaneInv, NEW id \in Pane!Ids, NEW k \in Pane!Mutations,
         \/ Pane!Ask(<<k>>, id)
         \/ k = "markRead" /\ Pane!Ask(<<"get", k>>, id),
         UNCHANGED <<read, gone, changes, pushes, badge, dots, seen, crossed, counted, uncounted>>
  PROVE  /\ made' \in Nat /\ PaneCallsOfTypes' /\ PaneTold' /\ calls \subseteq calls'
         /\ \E c \in calls' : c.kind = k
         /\ ~Pane!Ask(<<k>>, id) => \E c \in calls' : c.kind = "get" /\ c.id = id
<1> USE DEF PaneInv
<1>1. PICK c : c = Pane!Call(made + 1, k, id)
  OBVIOUS
<1>2. PICK g : g = Pane!Call(made + 1, "get", id)
  OBVIOUS
<1>3. PICK d : d = Pane!Call(made + 2, k, id)
  OBVIOUS
<1>4. made \in Nat /\ made + 1 \in Nat /\ made + 2 \in Nat /\ id \in Nat /\ k \notin {"get", "count"}
  BY DEF PaneOfTypes, Pane!Ids, Pane!Mutations
<1>5. c \in PaneCall /\ c.ticket = made + 1 /\ c.kind = k /\ c.id = id /\ c.served = FALSE
          /\ c.at = 0 /\ c.count = 0
  BY <1>1, <1>4 DEF Pane!Call, PaneCall, Pane!Mutations
<1>6. g \in PaneCall /\ g.ticket = made + 1 /\ g.kind = "get" /\ g.id = id /\ g.served = TRUE
          /\ g.at = 0 /\ g.count = 0
  BY <1>2, <1>4 DEF Pane!Call, PaneCall, Pane!Mutations
<1>7. d \in PaneCall /\ d.ticket = made + 2 /\ d.kind = k /\ d.id = id /\ d.served = FALSE
          /\ d.at = 0 /\ d.count = 0
  BY <1>3, <1>4 DEF Pane!Call, PaneCall, Pane!Mutations
<1>8. \/ calls' = calls \cup {c} /\ made' = made + 1
      \/ calls' = calls \cup {g, d} /\ made' = made + 2
  <2>1. CASE Pane!Ask(<<k>>, id)
    <3>1. made' = made + 1 /\ calls' = calls \cup {Pane!Call(made + i, <<k>>[i], id) : i \in 1..1}
      BY <2>1 DEF Pane!Ask
    <3>2. {Pane!Call(made + i, <<k>>[i], id) : i \in 1..1} = {Pane!Call(made + 1, <<k>>[1], id)}
      OBVIOUS
    <3> QED
      BY <3>1, <3>2, <1>1
  <2>2. CASE Pane!Ask(<<"get", k>>, id)
    <3>1. made' = made + 2 /\ calls' = calls \cup {Pane!Call(made + i, <<"get", k>>[i], id) :
              i \in 1..2}
      BY <2>2 DEF Pane!Ask
    <3>2. {Pane!Call(made + i, <<"get", k>>[i], id) : i \in 1..2} =
            {Pane!Call(made + 1, <<"get", k>>[1], id), Pane!Call(made + 2, <<"get", k>>[2], id)}
      OBVIOUS
    <3> QED
      BY <3>1, <3>2, <1>2, <1>3
  <2> QED
    BY <2>1, <2>2
<1>9. ~Pane!Ask(<<k>>, id) => calls' = calls \cup {g, d}
  BY <1>2, <1>3 DEF Pane!Ask
<1>10. Told' = Told
  BY <1>5, <1>6, <1>7, <1>8 DEF Told
<1>11. PaneCallsOfTypes'
  <2>1. calls' \subseteq PaneCall /\ changes' = changes /\ read' = read /\ made <= made'
    BY <1>4, <1>5, <1>6, <1>7, <1>8 DEF PaneCallsOfTypes
  <2>2. \A e \in calls : e.ticket \in 1..made'
    BY <2>1, <1>4, <1>8 DEF PaneCallsOfTypes
  <2>3. \A e \in calls' \ calls :
          e.ticket \in 1..made' /\ e.at = 0 /\ e.count = 0 /\ e.id = id /\ e.kind # "count"
              /\ (e.kind = "get" => e.served)
    BY <1>4, <1>5, <1>6, <1>7, <1>8
  <2>4. 0 <= changes' /\ 0 <= PaneRecords
    BY <2>1 DEF PaneOfTypes, PaneAssumptions
  <2>5. \A e \in calls' : e.ticket \in 1..made' /\ e.at <= changes' /\ e.count <= PaneRecords
    BY <2>1, <2>2, <2>3, <2>4 DEF PaneCallsOfTypes
  <2>6. \A e \in calls' : /\ e.kind # "count" => e.id \in Pane!Ids
                          /\ e.kind = "get" => e.served
                          /\ e.kind = "count" => ~e.degraded
    BY <2>3 DEF PaneCallsOfTypes
  <2> QED
    BY <2>1, <2>5, <2>6 DEF PaneCallsOfTypes, Pane!Ids
<1>12. PaneTold'
  BY <1>8, <1>10, NothingTold
<1> QED
  BY <1>4, <1>5, <1>6, <1>7, <1>8, <1>9, <1>11, <1>12

\* A row is pressed, or a button of the pane.
LEMMA PaneOpens ==
  ASSUME PaneAssumptions, PaneInv, NEW id \in Pane!Ids \ gone, Pane!OpenRecord(id) PROVE PaneInv'
<1> USE DEF PaneInv
<1>1. opened' = id /\ Pane!Ask(<<"get", "markRead">>, id)
      /\ UNCHANGED <<read, gone, changes, pushes, badge, dots, shown, settled, archiving, unmarking,
            seen,
                     crossed, counted, uncounted>>
  BY DEF Pane!OpenRecord, Pane!store
<1>2. ~Pane!Ask(<<"markRead">>, id)
  BY <1>1 DEF Pane!Ask, PaneOfTypes
<1>3. "markRead" \in Pane!Mutations /\ id \in Pane!Ids
  BY DEF Pane!Mutations
<1>4. /\ made' \in Nat /\ PaneCallsOfTypes' /\ PaneTold' /\ calls \subseteq calls'
      /\ \E c \in calls' : c.kind = "get" /\ c.id = id
  BY <1>1, <1>2, <1>3, PaneAsks
<1>5. PaneOfTypes' /\ PushesOfTypes'
  BY <1>1, <1>4 DEF PaneOfTypes, PushesOfTypes, Pane!Ids
<1>6. PaneWaits'
  BY <1>1, <1>4 DEF PaneWaits
<1> QED
  BY <1>4, <1>5, <1>6

LEMMA PaneUnmarks ==
  ASSUME PaneAssumptions, PaneInv, Pane!MarkUnread PROVE PaneInv'
<1> USE DEF PaneInv
<1>1. shown # None /\ unmarking' = TRUE /\ Pane!Ask(<<"markUnread">>, shown)
      /\ UNCHANGED <<read, gone, changes, pushes, badge, dots, opened, shown, settled, archiving,
            seen, crossed,
                     counted, uncounted>>
  BY DEF Pane!MarkUnread, Pane!store
<1>2. PICK id \in Pane!Ids : id = shown
  BY <1>1 DEF PaneOfTypes
<1>3. "markUnread" \in Pane!Mutations /\ Pane!Ask(<<"markUnread">>, id)
  BY <1>1, <1>2 DEF Pane!Mutations
<1>4. /\ made' \in Nat /\ PaneCallsOfTypes' /\ PaneTold' /\ calls \subseteq calls'
      /\ \E c \in calls' : c.kind = "markUnread"
  BY <1>1, <1>3, PaneAsks
<1>5. PaneOfTypes' /\ PushesOfTypes'
  BY <1>1, <1>4 DEF PaneOfTypes, PushesOfTypes, Pane!Ids
<1>6. PaneWaits'
  BY <1>1, <1>4 DEF PaneWaits
<1> QED
  BY <1>4, <1>5, <1>6

LEMMA PaneArchives ==
  ASSUME PaneAssumptions, PaneInv, Pane!Archive PROVE PaneInv'
<1> USE DEF PaneInv
<1>1. shown # None /\ archiving' = TRUE /\ settled' = shown /\ Pane!Ask(<<"archive">>, shown)
      /\ UNCHANGED <<read, gone, changes, pushes, badge, dots, opened, shown, unmarking, seen,
            crossed, counted,
                     uncounted>>
  BY DEF Pane!Archive, Pane!store
<1>2. PICK id \in Pane!Ids : id = shown
  BY <1>1 DEF PaneOfTypes
<1>3. "archive" \in Pane!Mutations /\ Pane!Ask(<<"archive">>, id)
  BY <1>1, <1>2 DEF Pane!Mutations
<1>4. /\ made' \in Nat /\ PaneCallsOfTypes' /\ PaneTold' /\ calls \subseteq calls'
      /\ \E c \in calls' : c.kind = "archive"
  BY <1>1, <1>3, PaneAsks
<1>5. PaneOfTypes' /\ PushesOfTypes'
  BY <1>1, <1>4 DEF PaneOfTypes, PushesOfTypes, Pane!Ids
<1>6. PaneWaits'
  BY <1>1, <1>4 DEF PaneWaits
<1> QED
  BY <1>4, <1>5, <1>6

\* An answer that tells neither a count nor a read state, or is degraded.
LEMMA TellsNothing ==
  ASSUME PaneInv, NEW c \in calls, c \notin Told, c.served \/ c.kind # "count", calls' = calls \ {c},
         UNCHANGED <<read, gone, changes, made, pushes, badge, dots, seen, crossed, counted, uncounted>>
  PROVE  PaneTold' /\ PaneCallsOfTypes' /\ PushesOfTypes'
<1> USE DEF PaneInv
<1>1. Told' = Told
  BY DEF Told
<1>2. PaneCallsOfTypes' /\ PushesOfTypes'
  BY DEF PaneCallsOfTypes, PushesOfTypes, Pane!Ids
<1>3. c.kind # "count"
  BY DEF Told, PaneCallsOfTypes
<1>4. (\E d \in calls : d.kind = "count") => \E d \in calls' : d.kind = "count"
  BY <1>3
<1> QED
  BY <1>1, <1>2, <1>4, NothingTold

LEMMA PaneRecordRead ==
  ASSUME PaneInv, NEW c \in calls, Pane!RecordRead(c) PROVE PaneInv'
<1> USE DEF PaneInv
<1>1. c.kind = "get" /\ c.served /\ calls' = calls \ {c}
          /\ shown' = (IF opened = c.id THEN c.id ELSE shown)
      /\ UNCHANGED <<read, gone, changes, pushes, made, badge, dots, opened, settled, archiving,
            unmarking, seen,
                     crossed, counted, uncounted>>
  BY DEF Pane!RecordRead, Pane!store
<1>2. c \notin Told /\ c.id \in Pane!Ids
  BY <1>1 DEF Told, PaneCallsOfTypes
<1>3. PaneTold' /\ PaneCallsOfTypes' /\ PushesOfTypes'
  BY <1>1, <1>2, TellsNothing
<1>4. PaneOfTypes'
  BY <1>1, <1>2 DEF PaneOfTypes, Pane!Ids
<1>5. PaneWaits'
  BY <1>1 DEF PaneWaits
<1> QED
  BY <1>3, <1>4, <1>5

LEMMA PaneArchived ==
  ASSUME PaneInv, NEW c \in calls, Pane!Archived(c) PROVE PaneInv'
<1> USE DEF PaneInv
<1>1. c.kind = "archive" /\ c.served /\ calls' = calls \ {c} /\ archiving' = FALSE
      /\ settled' = (IF c.degraded THEN None ELSE c.id)
      /\ UNCHANGED <<read, gone, changes, pushes, made, badge, dots, opened, shown, unmarking, seen,
            crossed,
                     counted, uncounted>>
  BY DEF Pane!Archived, Pane!store
<1>2. c \notin Told /\ c.id \in Pane!Ids
  BY <1>1 DEF Told, PaneCallsOfTypes
<1>3. PaneTold' /\ PaneCallsOfTypes' /\ PushesOfTypes'
  BY <1>1, <1>2, TellsNothing
<1>4. PaneOfTypes'
  BY <1>1, <1>2 DEF PaneOfTypes, Pane!Ids
<1>5. PaneWaits'
  BY <1>1 DEF PaneWaits
<1> QED
  BY <1>3, <1>4, <1>5

\* An answer whose count is taken.
LEMMA TakesCount ==
  ASSUME PaneAssumptions, PaneInv, NEW c \in Told, calls' = calls \ {c}, Pane!TakeCount(c),
         UNCHANGED <<read, gone, changes, pushes, made, opened, shown, settled, archiving, uncounted>>,
         dots' \subseteq Pane!Ids, unmarking' \in BOOLEAN
  PROVE  PaneOfTypes' /\ PaneCallsOfTypes' /\ PushesOfTypes' /\ badge' = c.count
         /\ counted' = (IF c.at > counted THEN c.at ELSE counted) /\ Pane!Learn(c.at)
<1> USE DEF PaneInv
<1>1. c \in PaneCall /\ c \in calls /\ c.at \in 0..changes /\ c.count \in 0..PaneRecords /\ ~c.degraded
  BY DEF PaneCallsOfTypes, Told, PaneCall, PaneAssumptions
<1>2. badge' = c.count /\ counted' = (IF c.at > counted THEN c.at ELSE counted) /\ Pane!Learn(c.at)
  BY <1>1 DEF Pane!TakeCount
<1>3. seen' \in 0..changes /\ counted' \in 0..seen' /\ crossed' \in BOOLEAN
  BY <1>1, <1>2 DEF Pane!Learn, PaneOfTypes
<1>4. PaneOfTypes'
  BY <1>1, <1>2, <1>3 DEF PaneOfTypes, Pane!Ids
<1>5. PaneCallsOfTypes'
  BY DEF PaneCallsOfTypes, Pane!Ids
<1>6. PushesOfTypes'
  <2>1. c.count + Len(pushes) <= PaneRecords + (Len(read) - PaneSeeded)
    BY <1>1 DEF PushesOfTypes, PaneOfTypes, PaneAssumptions
  <2> QED
    BY <1>2, <2>1 DEF PushesOfTypes
<1> QED
  BY <1>2, <1>4, <1>5, <1>6

LEMMA PaneBadgeSeeded ==
  ASSUME PaneAssumptions, PaneInv, NEW c \in calls, Pane!BadgeSeeded(c) PROVE PaneInv'
<1> USE DEF PaneInv
<1>1. c.kind = "count" /\ c.served /\ calls' = calls \ {c} /\ Pane!TakeCount(c)
      /\ UNCHANGED <<read, gone, changes, pushes, made, dots, opened, shown, settled, archiving,
            unmarking, uncounted>>
  BY DEF Pane!BadgeSeeded, Pane!store, Pane!pane
<1>2. c \in Told
  BY <1>1 DEF Told, PaneCallsOfTypes
<1>3. dots' \subseteq Pane!Ids /\ unmarking' \in BOOLEAN
  BY <1>1 DEF PaneOfTypes
<1>4. /\ PaneOfTypes' /\ PaneCallsOfTypes' /\ PushesOfTypes' /\ badge' = c.count
      /\ counted' = (IF c.at > counted THEN c.at ELSE counted) /\ Pane!Learn(c.at)
  BY <1>1, <1>2, <1>3, TakesCount
<1>5. \A i \in Pane!Ids : i \in dots' <=> (IF TellsOf(c, i) THEN c.kind = "markUnread" ELSE i \in dots)
  BY <1>1 DEF TellsOf
<1>6. PaneTold'
  BY <1>1, <1>2, <1>4, <1>5, TellingIsTaken
<1>7. PaneWaits'
  BY <1>1 DEF PaneWaits
<1> QED
  BY <1>4, <1>6, <1>7

LEMMA PaneMarkedRead ==
  ASSUME PaneAssumptions, PaneInv, NEW c \in calls, Pane!MarkedRead(c) PROVE PaneInv'
<1> USE DEF PaneInv
<1>1. c.kind = "markRead" /\ c.served /\ calls' = calls \ {c} /\ Pane!TakeCount(c)
      /\ dots' = (IF c.degraded THEN dots ELSE dots \ {c.id})
      /\ UNCHANGED <<read, gone, changes, pushes, made, opened, shown, settled, archiving,
            unmarking, uncounted>>
  BY DEF Pane!MarkedRead, Pane!store, Pane!pane
<1>2. PaneWaits'
  BY <1>1 DEF PaneWaits
<1>3. CASE c.degraded
  <2>1. c \notin Told /\ UNCHANGED <<badge, dots, seen, crossed, counted>>
    BY <1>1, <1>3 DEF Told, Pane!TakeCount
  <2>2. PaneTold' /\ PaneCallsOfTypes' /\ PushesOfTypes'
    BY <1>1, <2>1, TellsNothing
  <2>3. PaneOfTypes'
    BY <1>1, <2>1 DEF PaneOfTypes, Pane!Ids
  <2> QED
    BY <1>2, <2>2, <2>3
<1>4. CASE ~c.degraded
  <2>1. c \in Told
    BY <1>1, <1>4 DEF Told
  <2>2. dots' \subseteq Pane!Ids /\ unmarking' \in BOOLEAN
    BY <1>1 DEF PaneOfTypes
  <2>3. /\ PaneOfTypes' /\ PaneCallsOfTypes' /\ PushesOfTypes' /\ badge' = c.count
        /\ counted' = (IF c.at > counted THEN c.at ELSE counted) /\ Pane!Learn(c.at)
    BY <1>1, <2>1, <2>2, TakesCount
  <2>4. \A i \in Pane!Ids : i \in dots' <=> (IF TellsOf(c, i) THEN c.kind = "markUnread"
            ELSE i \in dots)
    BY <1>1, <1>4 DEF TellsOf
  <2>5. PaneTold'
    BY <1>1, <2>1, <2>3, <2>4, TellingIsTaken
  <2> QED
    BY <1>2, <2>3, <2>5
<1> QED
  BY <1>3, <1>4

LEMMA PaneMarkedUnread ==
  ASSUME PaneAssumptions, PaneInv, NEW c \in calls, Pane!MarkedUnread(c) PROVE PaneInv'
<1> USE DEF PaneInv
<1>1. c.kind = "markUnread" /\ c.served /\ calls' = calls \ {c} /\ Pane!TakeCount(c)
          /\ unmarking' = FALSE
      /\ dots' = (IF c.degraded THEN dots ELSE dots \cup {c.id})
      /\ UNCHANGED <<read, gone, changes, pushes, made, opened, shown, settled, archiving, uncounted>>
  BY DEF Pane!MarkedUnread, Pane!store
<1>2. PaneWaits'
  BY <1>1 DEF PaneWaits
<1>3. CASE c.degraded
  <2>1. c \notin Told /\ UNCHANGED <<badge, dots, seen, crossed, counted>>
    BY <1>1, <1>3 DEF Told, Pane!TakeCount
  <2>2. PaneTold' /\ PaneCallsOfTypes' /\ PushesOfTypes'
    BY <1>1, <2>1, TellsNothing
  <2>3. PaneOfTypes'
    BY <1>1, <2>1 DEF PaneOfTypes, Pane!Ids
  <2> QED
    BY <1>2, <2>2, <2>3
<1>4. CASE ~c.degraded
  <2>1. c \in Told /\ c.id \in Pane!Ids
    BY <1>1, <1>4 DEF Told, PaneCallsOfTypes
  <2>2. dots' \subseteq Pane!Ids /\ unmarking' \in BOOLEAN
    BY <1>1, <2>1 DEF PaneOfTypes
  <2>3. /\ PaneOfTypes' /\ PaneCallsOfTypes' /\ PushesOfTypes' /\ badge' = c.count
        /\ counted' = (IF c.at > counted THEN c.at ELSE counted) /\ Pane!Learn(c.at)
    BY <1>1, <2>1, <2>2, TakesCount
  <2>4. \A i \in Pane!Ids : i \in dots' <=> (IF TellsOf(c, i) THEN c.kind = "markUnread"
            ELSE i \in dots)
    BY <1>1, <1>4 DEF TellsOf
  <2>5. PaneTold'
    BY <1>1, <2>1, <2>3, <2>4, TellingIsTaken
  <2> QED
    BY <1>2, <2>3, <2>5
<1> QED
  BY <1>3, <1>4

\* A record is stored: its push is later than anything told.
LEMMA PaneStores ==
  ASSUME PaneAssumptions, PaneInv, Pane!Record PROVE PaneInv'
<1> USE DEF PaneInv
<1>1. /\ Len(read) < PaneRecords /\ read' = Append(read, FALSE) /\ changes' = changes + 1
      /\ pushes' = Append(pushes, changes + 1) /\ dots' = dots \cup {Len(read) + 1}
      /\ UNCHANGED <<gone, calls, made, badge, opened, shown, settled, archiving, unmarking, seen,
            crossed,
                     counted, uncounted>>
  <2>1. read \in Seq(BOOLEAN)
    BY DEF PaneOfTypes
  <2> QED
    BY <2>1 DEF Pane!Record, Pane!pane
<1>2. /\ read' \in Seq(BOOLEAN) /\ Len(read) \in Nat /\ Len(read') = Len(read) + 1
            /\ ~read'[Len(read) + 1]
      /\ \A i \in 1..Len(read) : read'[i] = read[i]
  BY <1>1 DEF PaneOfTypes
<1>3. Pane!Ids' = Pane!Ids \cup {Len(read) + 1} /\ Len(read) + 1 \notin Pane!Ids
  BY <1>2 DEF Pane!Ids
<1>4. /\ pushes \in Seq(1..changes) /\ Len(pushes) \in Nat /\ Len(pushes') = Len(pushes) + 1
      /\ pushes'[Len(pushes) + 1] = changes + 1 /\ \A j \in 1..Len(pushes) : pushes'[j] = pushes[j]
  BY <1>1 DEF PushesOfTypes
<1>5. changes \in Nat /\ \A j \in 1..Len(pushes) : pushes[j] \in 1..changes
  BY <1>4 DEF PaneOfTypes
<1>6. PaneOfTypes'
  <2>1. Len(read') \in PaneSeeded..PaneRecords
    BY <1>1, <1>2 DEF PaneOfTypes, PaneAssumptions
  <2>2. seen' \in 0..changes' /\ counted' \in 0..seen' /\ uncounted' \in 0..changes' /\ changes' \in Nat
    BY <1>1 DEF PaneOfTypes
  <2>3. gone' \subseteq Pane!Ids' /\ dots' \subseteq Pane!Ids'
    BY <1>1, <1>3 DEF PaneOfTypes
  <2>4. opened' \in Pane!Ids' \cup {None} /\ shown' \in Pane!Ids' \cup {None}
            /\ settled' \in Pane!Ids' \cup {None}
    BY <1>1, <1>3 DEF PaneOfTypes
  <2> QED
    BY <1>1, <1>2, <2>1, <2>2, <2>3, <2>4 DEF PaneOfTypes
<1>7. PaneCallsOfTypes'
  <2>1. \A c \in calls : c.at <= changes'
    BY <1>1 DEF PaneCallsOfTypes, PaneOfTypes, PaneCall
  <2> QED
    BY <1>1, <1>3, <2>1 DEF PaneCallsOfTypes
<1>8. PushesOfTypes'
  <2>1. pushes' \in Seq(1..changes')
    <3>1. 1..changes \subseteq 1..changes' /\ changes + 1 \in 1..changes'
      BY <1>1, <1>5
    <3>2. pushes \in Seq(1..changes')
      <4>1. PICK A, B : A = 1..changes /\ B = 1..changes'
        OBVIOUS
      <4>2. pushes \in Seq(A) /\ A \subseteq B
        BY <1>4, <3>1, <4>1
      <4>3. pushes \in Seq(B)
        BY <4>2
      <4> QED
        BY <4>1, <4>3
    <3> QED
      BY <1>1, <3>1, <3>2
  <2>2. Len(pushes') <= Len(read') - PaneSeeded
    BY <1>2, <1>4 DEF PushesOfTypes, PaneAssumptions, PaneOfTypes
  <2>3. badge' + Len(pushes') <= PaneRecords + (Len(read') - PaneSeeded)
    BY <1>1, <1>2, <1>4 DEF PushesOfTypes, PaneAssumptions, PaneOfTypes
  <2>4. \A i, j \in 1..Len(pushes') : i < j => pushes'[i] < pushes'[j]
    <3>1. SUFFICES ASSUME NEW i \in 1..Len(pushes'), NEW j \in 1..Len(pushes'), i < j
              PROVE pushes'[i] < pushes'[j]
      OBVIOUS
    <3>2. i \in 1..Len(pushes) /\ pushes'[i] = pushes[i] /\ pushes[i] \in 1..changes
      BY <3>1, <1>4, <1>5
    <3>3. CASE j = Len(pushes) + 1
      BY <3>2, <3>3, <1>4, <1>5
    <3>4. CASE j # Len(pushes) + 1
      <4>1. j \in 1..Len(pushes) /\ pushes'[j] = pushes[j]
        BY <3>4, <1>4
      <4> QED
        BY <3>1, <3>2, <4>1 DEF PushesOfTypes
    <3> QED
      BY <3>3, <3>4
  <2> QED
    BY <2>1, <2>2, <2>3, <2>4 DEF PushesOfTypes
<1>9. PaneWaits'
  BY <1>1 DEF PaneWaits
<1>10. Told' = Told /\ \A c \in Told : c \in PaneCall /\ c.at \in 0..changes
  BY <1>1 DEF Told, PaneCallsOfTypes, PaneCall
<1>11. PaneTold'
  <2>1. CASE crossed
    BY <2>1, <1>1 DEF PaneTold
  <2>2. CASE Doomed
    <3>1. 1..Len(pushes) \subseteq 1..Len(pushes')
      BY <1>4
    <3>2. Doomed'
      BY <2>2, <3>1, <1>1, <1>4, <1>10 DEF Doomed
    <3> QED
      BY <3>2 DEF PaneTold
  <2>3. CASE DotsTold /\ BadgeTold
    <3>1. DotsTold'
      <4>1. SUFFICES ASSUME NEW i \in Pane!Ids' \ gone
                     PROVE  /\ (\A c \in Told : ~TellsOf(c, i)) => (i \in dots' <=> ~read'[i])
                            /\ \A c \in Told : TellsOf(c, i) =>
                                 (read'[i] <=> c.kind = "markRead") \/ \E d \in Told :
                                     TellsOf(d, i) /\ d.at > c.at
        BY <1>1, <1>10 DEF DotsTold, TellsOf
      <4>2. CASE i \in Pane!Ids
        <5>1. read'[i] = read[i] /\ (i \in dots' <=> i \in dots)
          BY <4>2, <1>1, <1>2, <1>3 DEF Pane!Ids
        <5> QED
          BY <4>1, <4>2, <5>1, <2>3 DEF DotsTold
      <4>3. CASE i = Len(read) + 1
        <5>1. \A c \in Told : ~TellsOf(c, i)
          BY <4>3, <1>3 DEF Told, TellsOf, PaneCallsOfTypes
        <5> QED
          BY <4>3, <5>1, <1>1, <1>2
      <4> QED
        BY <4>1, <4>2, <4>3, <1>3
    <3>2. Pane!UnreadCount(read') = Pane!UnreadCount(read) + 1 /\ Pane!UnreadCount(read) \in Nat
      <4>1. PICK r \in Seq(BOOLEAN) : r = read
        BY DEF PaneOfTypes
      <4>2. Pane!UnreadCount(Append(r, FALSE)) = Pane!UnreadCount(r) + 1
                /\ Pane!UnreadCount(r) \in 0..Len(r)
        BY UnreadIsCounted
      <4>3. PICK q : q = Append(r, FALSE)
        OBVIOUS
      <4>4. read' = q
        BY <4>1, <4>3, <1>1
      <4>5. Pane!UnreadCount(q) = Pane!UnreadCount(r) + 1
        BY <4>2, <4>3
      <4>6. Pane!UnreadCount(r) \in Nat
        BY <4>2
      <4>7. Pane!UnreadCount(read) = Pane!UnreadCount(r)
        BY <4>1
      <4>8. Pane!UnreadCount(read') = Pane!UnreadCount(q)
        BY <4>4
      <4> QED
        BY <4>5, <4>6, <4>7, <4>8
    <3>3. BadgeTold'
      <4>1. ASSUME NEW c \in Told PROVE Counts(c)'
        <5>1. Counts(c)
          BY <2>3 DEF BadgeTold
        <5>2. CASE uncounted > c.at \/ \E d \in Told : d.at > c.at
          BY <5>2, <1>1, <1>10 DEF Counts
        <5>3. CASE \E k \in 0..Len(pushes) : CountedUpTo(c, k)
          <6>1. PICK k \in 0..Len(pushes) : CountedUpTo(c, k)
            BY <5>3
          <6>2. \A j \in 1..Len(pushes') : pushes'[j] <= c.at <=> j <= k
            <7>1. SUFFICES ASSUME NEW j \in 1..Len(pushes') PROVE pushes'[j] <= c.at <=> j <= k
              OBVIOUS
            <7>2. CASE j \in 1..Len(pushes)
              BY <7>2, <6>1, <1>4 DEF CountedUpTo
            <7>3. CASE j = Len(pushes) + 1
              <8>1. pushes'[j] = changes + 1 /\ ~(j <= k)
                BY <7>3, <1>4
              <8>2. c.at \in 0..changes
                BY <1>10
              <8> QED
                BY <8>1, <8>2, <1>5
            <7> QED
              BY <7>2, <7>3, <1>4
          <6>3. Pane!UnreadCount(read') = c.count + (Len(pushes') - k)
            BY <6>1, <3>2, <1>4, <1>10 DEF CountedUpTo, PaneCall
          <6> QED
            BY <6>2, <6>3, <1>4 DEF Counts, CountedUpTo
        <5> QED
          BY <5>1, <5>2, <5>3 DEF Counts
      <4>2. ASSUME Told = {}, \A c \in calls : c.kind # "count"
            PROVE  uncounted > counted \/ Pane!UnreadCount(read') = badge + Len(pushes')
        BY <4>2, <2>3, <3>2, <1>4 DEF BadgeTold, PaneOfTypes
      <4> QED
        BY <4>1, <4>2, <1>1, <1>10 DEF BadgeTold
    <3> QED
      BY <3>1, <3>3 DEF PaneTold
  <2> QED
    BY <2>1, <2>2, <2>3 DEF PaneTold
<1> QED
  BY <1>6, <1>7, <1>8, <1>9, <1>11

LEMMA PanePush ==
  ASSUME PaneAssumptions, PaneInv, Pane!PushArrives PROVE PaneInv'
<1> USE DEF PaneInv
<1>1. PICK h : h = Head(pushes)
  OBVIOUS
<1>2. /\ pushes # <<>> /\ pushes' = Tail(pushes) /\ badge' = badge + 1
      /\ seen' = (IF h > seen THEN h ELSE seen)
      /\ crossed' = (crossed \/ h < seen \/ h <= counted)
      /\ UNCHANGED <<read, gone, changes, calls, made, dots, opened, shown, settled, archiving,
            unmarking,
                     counted, uncounted>>
  BY <1>1 DEF Pane!PushArrives, Pane!store, Pane!pane
<1>3. pushes \in Seq(1..changes) /\ Len(pushes) \in Nat /\ changes \in Nat
  BY DEF PushesOfTypes, PaneOfTypes
<1>4. /\ 1 \in 1..Len(pushes) /\ h = pushes[1] /\ h \in 1..changes /\ Len(pushes') = Len(pushes) - 1
      /\ \A j \in 1..Len(pushes') : pushes'[j] = pushes[j + 1] /\ j + 1 \in 1..Len(pushes)
  BY <1>1, <1>2, <1>3
<1>5. seen' \in 0..changes /\ seen \in Nat /\ seen <= seen' /\ counted \in 0..seen
  BY <1>2, <1>4 DEF PaneOfTypes
<1>6. PaneOfTypes'
  <2>1. counted' \in 0..seen' /\ crossed' \in BOOLEAN /\ badge' \in Nat
    BY <1>2, <1>5 DEF PaneOfTypes
  <2> QED
    BY <1>2, <1>5, <2>1 DEF PaneOfTypes, Pane!Ids
<1>7. PaneCallsOfTypes' /\ PaneWaits'
  BY <1>2 DEF PaneCallsOfTypes, PaneWaits, Pane!Ids
<1>8. PushesOfTypes'
  <2>1. pushes' \in Seq(1..changes')
    BY <1>2, <1>3
  <2>2. Len(pushes') <= Len(read') - PaneSeeded
            /\ badge' + Len(pushes') <= PaneRecords + (Len(read') - PaneSeeded)
    BY <1>2, <1>3, <1>4 DEF PushesOfTypes, PaneOfTypes, PaneAssumptions
  <2>3. \A i, j \in 1..Len(pushes') : i < j => pushes'[i] < pushes'[j]
    BY <1>4 DEF PushesOfTypes
  <2> QED
    BY <2>1, <2>2, <2>3 DEF PushesOfTypes
<1>9. Told' = Told /\ \A c \in Told : c \in PaneCall /\ c.at \in Nat
  BY <1>2 DEF Told, PaneCallsOfTypes, PaneCall
<1>10. \A j \in 1..Len(pushes) : pushes[j] \in Nat
  BY <1>3
<1>11. PaneTold'
  <2>1. CASE crossed \/ h < seen \/ h <= counted
    BY <2>1, <1>2 DEF PaneTold
  <2>2. CASE ~(crossed \/ h < seen \/ h <= counted) /\ Doomed
    <3>1. CASE \E c \in Told : c.at < seen
      BY <3>1, <1>5, <1>9 DEF Doomed, PaneTold
    <3>2. CASE \E j \in 1..Len(pushes) : pushes[j] < seen \/ pushes[j] <= counted
      <4>1. PICK j \in 1..Len(pushes) : pushes[j] < seen \/ pushes[j] <= counted
        BY <3>2
      <4>2. j # 1
        BY <4>1, <2>2, <1>4
      <4>3. PICK i : i = j - 1
        OBVIOUS
      <4>4. i \in 1..Len(pushes') /\ pushes'[i] = pushes[j]
        BY <4>1, <4>2, <4>3, <1>3, <1>4
      <4>5. pushes'[i] < seen' \/ pushes'[i] <= counted'
        BY <4>1, <4>4, <1>2, <1>5, <1>10
      <4> QED
        BY <4>4, <4>5 DEF Doomed, PaneTold
    <3> QED
      BY <2>2, <3>1, <3>2 DEF Doomed
  <2>3. CASE ~(crossed \/ h < seen \/ h <= counted) /\ DotsTold /\ BadgeTold
    <3>1. seen' = h /\ DotsTold'
      BY <2>3, <1>2, <1>4, <1>5, <1>9 DEF DotsTold, TellsOf, Pane!Ids
    <3>2. CASE \E c \in Told : c.at < h
      BY <3>1, <3>2, <1>9 DEF Doomed, PaneTold
    <3>3. CASE \A c \in Told : h <= c.at
      <4>1. ASSUME NEW c \in Told PROVE Counts(c)'
        <5>1. Counts(c) /\ c.at \in Nat /\ c.count \in Nat /\ h <= c.at
          BY <2>3, <3>3, <1>9 DEF BadgeTold, PaneCall
        <5>2. CASE uncounted > c.at \/ \E d \in Told : d.at > c.at
          BY <5>2, <1>2, <1>9 DEF Counts
        <5>3. CASE \E k \in 0..Len(pushes) : CountedUpTo(c, k)
          <6>1. PICK k \in 0..Len(pushes) : CountedUpTo(c, k)
            BY <5>3
          <6>2. 1 <= k
            BY <6>1, <5>1, <1>4 DEF CountedUpTo
          <6>3. PICK i : i = k - 1
            OBVIOUS
          <6>4. i \in 0..Len(pushes')
            BY <6>1, <6>2, <6>3, <1>3, <1>4
          <6>5. \A j \in 1..Len(pushes') : pushes'[j] <= c.at <=> j <= i
            <7>1. SUFFICES ASSUME NEW j \in 1..Len(pushes') PROVE pushes'[j] <= c.at <=> j <= i
              OBVIOUS
            <7>2. pushes'[j] = pushes[j + 1] /\ j + 1 \in 1..Len(pushes)
              BY <1>4
            <7>3. pushes[j + 1] <= c.at <=> j + 1 <= k
              BY <7>2, <6>1 DEF CountedUpTo
            <7> QED
              BY <7>2, <7>3, <6>1, <6>3, <1>3
          <6>6. Pane!UnreadCount(read) = c.count + (Len(pushes') - i)
            BY <6>1, <6>2, <6>3, <1>3, <1>4, <5>1 DEF CountedUpTo
          <6> QED
            BY <6>4, <6>5, <6>6, <1>2 DEF Counts, CountedUpTo
        <5> QED
          BY <5>1, <5>2, <5>3 DEF Counts
      <4>2. ASSUME Told = {}, \A c \in calls : c.kind # "count"
            PROVE  uncounted > counted \/ Pane!UnreadCount(read) = badge' + Len(pushes')
        BY <4>2, <2>3, <1>2, <1>3, <1>4 DEF BadgeTold, PaneOfTypes
      <4> QED
        BY <4>1, <4>2, <3>1, <1>2, <1>9 DEF BadgeTold, PaneTold
    <3> QED
      BY <3>2, <3>3, <1>4, <1>9
  <2> QED
    BY <2>1, <2>2, <2>3 DEF PaneTold
<1> QED
  BY <1>6, <1>7, <1>8, <1>11

\* The store serves a count: it is the latest told.
LEMMA PaneServesCount ==
  ASSUME PaneAssumptions, PaneInv, NEW c \in calls, Pane!ServeCount(c) PROVE PaneInv'
<1> USE DEF PaneInv
<1>1. PICK d : d = [c EXCEPT !.served = TRUE, !.at = changes, !.count = Pane!UnreadCount(read)]
  OBVIOUS
<1>2. /\ c.kind = "count" /\ ~c.served /\ calls' = (calls \ {c}) \cup {d}
      /\ UNCHANGED <<read, gone, changes, pushes, made, badge, dots, opened, shown, settled,
            archiving, unmarking,
                     seen, crossed, counted, uncounted>>
  BY <1>1 DEF Pane!ServeCount, Pane!store, Pane!pane
<1>3. c \in PaneCall /\ c.ticket \in 1..made /\ ~c.degraded /\ changes \in Nat
  BY <1>2 DEF PaneCallsOfTypes, PaneOfTypes
<1>4. Pane!UnreadCount(read) \in 0..Len(read) /\ Len(read) \in Nat /\ Len(read) <= PaneRecords
  <2>1. PICK r \in Seq(BOOLEAN) : r = read
    BY DEF PaneOfTypes
  <2>2. Pane!UnreadCount(r) \in 0..Len(r)
    BY UnreadIsCounted
  <2>3. Len(read) \in Nat /\ Len(read) <= PaneRecords
    BY DEF PaneOfTypes, PaneAssumptions
  <2> QED
    BY <2>1, <2>2, <2>3
<1>5. /\ d \in PaneCall /\ d.ticket = c.ticket /\ d.kind = "count" /\ d.at = changes /\ d.served
            /\ ~d.degraded
      /\ d.count = Pane!UnreadCount(read) /\ d.count \in Nat /\ d.count <= PaneRecords
  <2>1. PICK u, n : u = Pane!UnreadCount(read) /\ n = changes
    OBVIOUS
  <2>2. u \in Nat /\ u <= PaneRecords /\ n \in Nat
    BY <2>1, <1>3, <1>4 DEF PaneAssumptions
  <2>3. d = [c EXCEPT !.served = TRUE, !.at = n, !.count = u]
    BY <1>1, <2>1
  <2>4. /\ d \in PaneCall /\ d.ticket = c.ticket /\ d.kind = c.kind /\ d.at = n /\ d.served = TRUE
        /\ d.degraded = c.degraded /\ d.count = u
    BY <2>2, <2>3, <1>3 DEF PaneCall
  <2> QED
    BY <2>1, <2>2, <2>4, <1>2, <1>3
<1>6. PaneOfTypes' /\ PushesOfTypes'
  BY <1>2 DEF PaneOfTypes, PushesOfTypes, Pane!Ids
<1>7. PaneCallsOfTypes'
  BY <1>2, <1>3, <1>5 DEF PaneCallsOfTypes, Pane!Ids
<1>8. PaneWaits'
  BY <1>2, <1>5 DEF PaneWaits
<1>9. /\ Told' = Told \cup {d} /\ \A e \in Told : e \in PaneCall /\ e.at \in 0..changes
  BY <1>2, <1>5 DEF Told, PaneCallsOfTypes, PaneCall
<1>10. \A j \in 1..Len(pushes) : pushes[j] \in 1..changes
  <2>1. PICK A : A = 1..changes
    OBVIOUS
  <2>2. pushes \in Seq(A)
    BY <2>1 DEF PushesOfTypes
  <2>3. \A j \in 1..Len(pushes) : pushes[j] \in A
    BY <2>2
  <2> QED
    BY <2>1, <2>3
<1>11. PaneTold'
  <2>1. CASE crossed
    BY <2>1, <1>2 DEF PaneTold
  <2>2. CASE Doomed
    BY <2>2, <1>2, <1>9 DEF Doomed, PaneTold
  <2>3. CASE DotsTold /\ BadgeTold
    <3>1. DotsTold'
      <4>1. \A i : ~TellsOf(d, i)
        BY <1>5 DEF TellsOf
      <4> QED
        BY <2>3, <4>1, <1>2, <1>9 DEF DotsTold, TellsOf, Pane!Ids
    <3>2. ASSUME NEW e \in Told PROVE Counts(e)'
      <4>1. Counts(e)
        BY <2>3 DEF BadgeTold
      <4> QED
        BY <4>1, <1>2, <1>9 DEF Counts, CountedUpTo
    <3>3. Counts(d)'
      <4>1. Len(pushes) \in 0..Len(pushes) /\ Len(pushes) \in Nat
        BY DEF PushesOfTypes
      <4>2. \A j \in 1..Len(pushes) : pushes[j] <= d.at <=> j <= Len(pushes)
        BY <4>1, <1>3, <1>5, <1>10
      <4>3. Pane!UnreadCount(read) = d.count + (Len(pushes) - Len(pushes))
        BY <4>1, <1>5
      <4> QED
        BY <4>1, <4>2, <4>3, <1>2 DEF Counts, CountedUpTo
    <3> QED
      BY <3>1, <3>2, <3>3, <1>9 DEF BadgeTold, PaneTold
  <2> QED
    BY <2>1, <2>2, <2>3 DEF PaneTold
<1> QED
  BY <1>6, <1>7, <1>8, <1>11

\* The store serves a mutation.
LEMMA PaneServes ==
  ASSUME PaneAssumptions, PaneInv, NEW c \in calls, NEW ok \in BOOLEAN, Pane!ServeMutation(c, ok)
         PROVE PaneInv'
<1> USE DEF PaneInv
<1>1. PICK d : d = [c EXCEPT !.served = TRUE, !.degraded = ~ok, !.at = changes',
          !.count = Pane!UnreadCount(read')]
  OBVIOUS
<1>2. /\ c.kind \in Pane!Mutations /\ ~c.served /\ calls' = (calls \ {c}) \cup {d}
      /\ changes' = (IF ok THEN changes + 1 ELSE changes)
      /\ read' = (IF ok THEN [read EXCEPT ![c.id] = c.kind # "markUnread"] ELSE read)
      /\ gone' = (IF ok /\ c.kind = "archive" THEN gone \cup {c.id} ELSE gone)
      /\ uncounted' = (IF ok /\ c.kind = "archive" /\ ~read[c.id] THEN changes' ELSE uncounted)
      /\ UNCHANGED <<pushes, made, badge, dots, opened, shown, settled, archiving, unmarking, seen,
            crossed, counted>>
  BY <1>1 DEF Pane!ServeMutation, Pane!pane
<1>3. /\ c \in PaneCall /\ c.ticket \in 1..made /\ c.id \in 1..Len(read) /\ changes \in Nat
      /\ c.kind \in {"markRead", "markUnread", "archive"}
  BY <1>2 DEF PaneCallsOfTypes, PaneOfTypes, Pane!Mutations, Pane!Ids
<1>4. /\ read \in Seq(BOOLEAN) /\ read' \in Seq(BOOLEAN) /\ Len(read') = Len(read)
            /\ Len(read) \in Nat /\ Len(read) <= PaneRecords
      /\ ok => read'[c.id] = (c.kind # "markUnread")
      /\ \A i \in 1..Len(read) : i # c.id \/ ~ok => read'[i] = read[i]
  <2>1. read \in Seq(BOOLEAN) /\ Len(read) <= PaneRecords
    BY DEF PaneOfTypes, PaneAssumptions
  <2>2. (c.kind # "markUnread") \in BOOLEAN
    OBVIOUS
  <2>3. PICK b \in BOOLEAN : b = (c.kind # "markUnread")
    BY <2>2
  <2>4. read' = IF ok THEN [read EXCEPT ![c.id] = b] ELSE read
    BY <2>3, <1>2
  <2>5. read' \in Seq(BOOLEAN) /\ Len(read') = Len(read) /\ Len(read) \in Nat
    BY <2>1, <2>4
  <2>6. ok => read'[c.id] = b
    BY <2>1, <2>4, <1>3
  <2>7. \A i \in 1..Len(read) : i # c.id \/ ~ok => read'[i] = read[i]
    BY <2>1, <2>4
  <2> QED
    BY <2>1, <2>3, <2>5, <2>6, <2>7
<1>5. Pane!UnreadCount(read') \in 0..Len(read)
  <2>1. PICK r \in Seq(BOOLEAN) : r = read'
    BY <1>4
  <2>2. Pane!UnreadCount(r) \in 0..Len(r)
    BY UnreadIsCounted
  <2>3. Pane!UnreadCount(read') = Pane!UnreadCount(r)
    BY <2>1
  <2> QED
    BY <2>1, <2>2, <2>3, <1>4
<1>6. changes' \in Nat /\ changes <= changes' /\ Pane!Ids' = Pane!Ids
  BY <1>2, <1>3, <1>4 DEF Pane!Ids
<1>7. /\ d \in PaneCall /\ d.ticket = c.ticket /\ d.kind = c.kind /\ d.id = c.id /\ d.at = changes'
            /\ d.served
      /\ d.degraded = ~ok /\ d.count = Pane!UnreadCount(read') /\ d.count \in Nat
            /\ d.count <= PaneRecords
  <2>1. PICK u, n : u = Pane!UnreadCount(read') /\ n = changes'
    OBVIOUS
  <2>2. u \in Nat /\ u <= PaneRecords /\ n \in Nat /\ (~ok) \in BOOLEAN
    BY <2>1, <1>4, <1>5, <1>6 DEF PaneAssumptions
  <2>3. d = [c EXCEPT !.served = TRUE, !.degraded = ~ok, !.at = n, !.count = u]
    BY <1>1, <2>1
  <2>4. /\ d \in PaneCall /\ d.ticket = c.ticket /\ d.kind = c.kind /\ d.id = c.id /\ d.at = n
              /\ d.served = TRUE
        /\ d.degraded = ~ok /\ d.count = u
    BY <2>2, <2>3, <1>3 DEF PaneCall
  <2> QED
    BY <2>1, <2>2, <2>4
<1>8. PaneOfTypes'
  <2>1. seen' \in 0..changes' /\ counted' \in 0..seen' /\ uncounted' \in 0..changes'
    BY <1>2, <1>3, <1>6 DEF PaneOfTypes
  <2>2. gone' \subseteq Pane!Ids
    BY <1>2, <1>3 DEF PaneOfTypes, Pane!Ids
  <2> QED
    BY <1>2, <1>4, <1>6, <2>1, <2>2 DEF PaneOfTypes
<1>9. PushesOfTypes'
  <2>1. PICK A, B : A = 1..changes /\ B = 1..changes'
    OBVIOUS
  <2>2. A \subseteq B
    BY <2>1, <1>3, <1>6
  <2>3. pushes \in Seq(A)
    BY <2>1 DEF PushesOfTypes
  <2>4. pushes \in Seq(B)
    BY <2>2, <2>3
  <2> QED
    BY <1>2, <1>4, <2>1, <2>4 DEF PushesOfTypes
<1>10. PaneCallsOfTypes'
  <2>1. \A e \in calls : e.at <= changes'
    BY <1>3, <1>6 DEF PaneCallsOfTypes, PaneCall
  <2> QED
    BY <1>2, <1>3, <1>6, <1>7, <2>1 DEF PaneCallsOfTypes, Pane!Ids
<1>11. PaneWaits'
  BY <1>2, <1>3, <1>7 DEF PaneWaits
<1>12. \A e \in Told : e \in PaneCall /\ e.at \in 0..changes
  BY DEF Told, PaneCallsOfTypes, PaneCall
<1>13. Told' = IF ok /\ c.kind # "archive" THEN Told \cup {d} ELSE Told
  BY <1>2, <1>3, <1>7 DEF Told
<1>14. \A j \in 1..Len(pushes) : pushes[j] \in 1..changes
  <2>1. PICK A : A = 1..changes
    OBVIOUS
  <2>2. pushes \in Seq(A)
    BY <2>1 DEF PushesOfTypes
  <2>3. \A j \in 1..Len(pushes) : pushes[j] \in A
    BY <2>2
  <2> QED
    BY <2>1, <2>3
<1>15. PaneTold'
  <2>1. CASE crossed
    BY <2>1, <1>2 DEF PaneTold
  <2>2. CASE Doomed
    BY <2>2, <1>2, <1>13 DEF Doomed, PaneTold
  <2>3. CASE DotsTold /\ BadgeTold
    <3>1. CASE ~ok \/ (c.kind = "archive" /\ read[c.id])
      <4>1. read' = read
        <5>1. \A i \in 1..Len(read) : read'[i] = read[i]
          BY <3>1, <1>3, <1>4
        <5> QED
          BY <5>1, <1>4
      <4>2. Told' = Told /\ uncounted' = uncounted /\ gone \subseteq gone'
        BY <3>1, <1>2, <1>13
      <4>3. DotsTold'
        BY <2>3, <4>1, <4>2, <1>2 DEF DotsTold, Pane!Ids
      <4>4. (\A e \in calls' : e.kind # "count") => \A e \in calls : e.kind # "count"
        BY <1>2, <1>3, <1>7
      <4>5. BadgeTold'
        BY <2>3, <4>1, <4>2, <4>4, <1>2 DEF BadgeTold, Counts, CountedUpTo
      <4> QED
        BY <4>3, <4>5 DEF PaneTold
    <3>2. CASE ok /\ c.kind = "archive" /\ ~read[c.id]
      <4>1. uncounted' = changes' /\ changes' = changes + 1 /\ Told' = Told /\ gone' = gone \cup {c.id}
        BY <3>2, <1>2, <1>13
      <4>2. DotsTold'
        BY <2>3, <4>1, <1>2, <1>4, <1>6 DEF DotsTold, Pane!Ids, TellsOf
      <4>3. uncounted' > counted' /\ \A e \in Told : uncounted' > e.at
        BY <4>1, <1>2, <1>3, <1>12 DEF PaneOfTypes
      <4>4. BadgeTold'
        BY <4>1, <4>3 DEF BadgeTold, Counts
      <4> QED
        BY <4>2, <4>4 DEF PaneTold
    <3>3. CASE ok /\ c.kind # "archive"
      <4>1. changes' = changes + 1 /\ Told' = Told \cup {d} /\ gone' = gone /\ uncounted' = uncounted
        BY <3>3, <1>2, <1>13
      <4>2. \A e \in Told : d.at > e.at
        BY <4>1, <1>3, <1>7, <1>12
      <4>3. DotsTold'
        <5>1. SUFFICES ASSUME NEW i \in Pane!Ids \ gone
                       PROVE  /\ (\A e \in Told' : ~TellsOf(e, i)) => (i \in dots <=> ~read'[i])
                              /\ \A e \in Told' : TellsOf(e, i) =>
                                   (read'[i] <=> e.kind = "markRead") \/ \E f \in Told' :
                                       TellsOf(f, i) /\ f.at > e.at
          BY <4>1, <1>2, <1>6 DEF DotsTold, TellsOf
        <5>2. CASE i = c.id
          <6>1. TellsOf(d, i) /\ d \in Told' /\ (read'[i] <=> d.kind = "markRead")
            BY <5>2, <3>3, <4>1, <1>3, <1>4, <1>7 DEF TellsOf
          <6> QED
            BY <6>1, <4>1, <4>2
        <5>3. CASE i # c.id
          <6>1. ~TellsOf(d, i) /\ read'[i] = read[i]
            BY <5>3, <1>4, <1>7 DEF TellsOf, Pane!Ids
          <6> QED
            BY <6>1, <2>3, <4>1 DEF DotsTold
        <5> QED
          BY <5>2, <5>3
      <4>4. ASSUME NEW e \in Told PROVE Counts(e)'
        BY <4>1, <4>2 DEF Counts
      <4>5. Counts(d)'
        <5>1. Len(pushes) \in 0..Len(pushes) /\ Len(pushes) \in Nat
          BY DEF PushesOfTypes
        <5>2. \A j \in 1..Len(pushes) : pushes[j] <= d.at <=> j <= Len(pushes)
          BY <5>1, <4>1, <1>3, <1>7, <1>14
        <5>3. Pane!UnreadCount(read') = d.count + (Len(pushes) - Len(pushes))
          BY <5>1, <1>7
        <5> QED
          BY <5>1, <5>2, <5>3, <1>2 DEF Counts, CountedUpTo
      <4> QED
        BY <4>1, <4>3, <4>4, <4>5 DEF BadgeTold, PaneTold
    <3> QED
      BY <3>1, <3>2, <3>3
  <2> QED
    BY <2>1, <2>2, <2>3 DEF PaneTold
<1> QED
  BY <1>8, <1>9, <1>10, <1>11, <1>15

LEMMA PaneStepKeepsInv ==
  ASSUME PaneAssumptions, PaneInv, [Pane!Next]_(Pane!vars) PROVE PaneInv'
<1>1. CASE UNCHANGED Pane!vars
  BY <1>1 DEF Pane!vars, Pane!store, Pane!pane, PaneInv, PaneOfTypes, PaneCallsOfTypes,
    PushesOfTypes, PaneWaits,
    PaneTold, Doomed, DotsTold, BadgeTold, Told, Counts, CountedUpTo, Pane!Ids
<1>2. CASE Pane!Record
  BY <1>2, PaneStores
<1>3. CASE Pane!PushArrives
  BY <1>3, PanePush
<1>4. CASE Pane!MarkUnread
  BY <1>4, PaneUnmarks
<1>5. CASE Pane!Archive
  BY <1>5, PaneArchives
<1>6. ASSUME NEW id \in Pane!Ids \ gone, Pane!OpenRecord(id) PROVE PaneInv'
  BY <1>6, PaneOpens
<1>7. ASSUME NEW c \in calls, NEW ok \in BOOLEAN, Pane!ServeMutation(c, ok) PROVE PaneInv'
  BY <1>7, PaneServes
<1>8. ASSUME NEW c \in calls,
             \/ Pane!ServeCount(c) \/ Pane!BadgeSeeded(c) \/ Pane!RecordRead(c)
             \/ Pane!MarkedRead(c) \/ Pane!MarkedUnread(c) \/ Pane!Archived(c)
      PROVE  PaneInv'
  BY <1>8, PaneServesCount, PaneBadgeSeeded, PaneRecordRead, PaneMarkedRead, PaneMarkedUnread,
    PaneArchived
<1> QED
  BY <1>1, <1>2, <1>3, <1>4, <1>5, <1>6, <1>7, <1>8 DEF Pane!Next

LEMMA PanePromises == PaneAssumptions /\ PaneInv => Pane!TypeOK /\ Pane!PaneSettles
    /\ Pane!BadgeIsTheCount
<1> SUFFICES ASSUME PaneAssumptions, PaneInv
        PROVE Pane!TypeOK /\ Pane!PaneSettles /\ Pane!BadgeIsTheCount
  OBVIOUS
<1> USE DEF PaneInv
<1>1. Pane!TypeOK
  <2>1. badge \in 0..2 * PaneRecords
    BY DEF PaneOfTypes, PushesOfTypes, PaneAssumptions
  <2>2. \A c \in calls : c.kind \in Pane!Mutations \cup {"count", "get"} /\ c.ticket \in 1..made
    BY DEF PaneCallsOfTypes, PaneCall
  <2>3. {seen, counted, uncounted} \subseteq 0..changes
    BY DEF PaneOfTypes
  <2>4. {opened, shown, settled} \subseteq Pane!Ids \cup {None}
            /\ {archiving, unmarking, crossed} \subseteq BOOLEAN
    BY DEF PaneOfTypes
  <2> QED
    BY <2>1, <2>2, <2>3, <2>4 DEF Pane!TypeOK, PaneOfTypes
<1>2. ASSUME Pane!Quiet
      PROVE  /\ shown = opened /\ ~archiving /\ ~unmarking
             /\ ~crossed => dots \ gone = {i \in Pane!Ids \ gone : ~read[i]}
             /\ ~crossed /\ uncounted <= counted => badge = Pane!UnreadCount(read)
  <2>1. calls = {} /\ pushes = <<>> /\ Told = {} /\ Len(pushes) = 0
    BY <1>2 DEF Pane!Quiet, Told
  <2>2. shown = opened /\ ~archiving /\ ~unmarking
    BY <2>1 DEF PaneWaits
  <2>3. ~crossed => DotsTold /\ BadgeTold
    BY <2>1 DEF PaneTold, Doomed
  <2>4. DotsTold => dots \ gone = {i \in Pane!Ids \ gone : ~read[i]}
    BY <2>1 DEF DotsTold, PaneOfTypes
  <2>5. BadgeTold /\ uncounted <= counted => badge = Pane!UnreadCount(read)
    BY <2>1 DEF BadgeTold, PaneOfTypes
  <2> QED
    BY <2>2, <2>3, <2>4, <2>5
<1> QED
  BY <1>1, <1>2 DEF Pane!PaneSettles, Pane!BadgeIsTheCount

\* For any records and calls: once pushes and answers have arrived the pane shows the record
\* pressed last, its rows the read state of the store and the badge the number of unread
\* ones, unless an answer older than what was known arrived (useNotificationOpenRecord).
THEOREM PaneIsSafe ==
  ASSUME PaneAssumptions
  PROVE  Pane!Spec => [](Pane!TypeOK /\ Pane!PaneSettles /\ Pane!BadgeIsTheCount)
<1>1. Pane!Init => PaneInv
  BY PaneInit
<1>2. PaneInv /\ [Pane!Next]_(Pane!vars) => PaneInv'
  BY PaneStepKeepsInv
<1> QED
  BY <1>1, <1>2, PanePromises, PTL DEF Pane!Spec

-----------------------------------------------------------------------------
(* The lists of watched episodes.  Until a superseded answer released the    *)
(* guard, at most one request of this generation is in flight, and it asks   *)
(* for the first page or for the one after the rows that are shown.          *)

RowsOf(s) == {Log[s][j] : j \in 1..Len(Log[s])}

PagesAssumptions ==
  /\ PageSize \in Nat /\ MaxGenerations \in Nat
  /\ \A s \in Scopes : Log[s] \in Seq(RowsOf(s))

ListRequests == [generation : 0..MaxGenerations, scope : Scopes, after : Nat]

PagesOfTypes ==
  /\ scope \in Scopes /\ generation \in 0..MaxGenerations /\ rows \in Seq(RowsOf(scope))
        /\ cursor \in Nat
  /\ fetching \in BOOLEAN /\ hasMore \in BOOLEAN /\ loading \in BOOLEAN /\ failed \in BOOLEAN
  /\ overtaken \in BOOLEAN

RequestsOfTypes ==
  /\ inflight \in [DOMAIN inflight -> Nat \ {0}] /\ DOMAIN inflight \subseteq ListRequests
  /\ \A r \in DOMAIN inflight :
       r.generation <= generation /\ (r.generation = generation => r.scope = scope)

Shown(n, s) == n <= Len(Log[s]) /\ \A i \in 1..n : rows[i] = Log[s][i]

OneRequest ==
  \A q, r \in DOMAIN inflight :
    q.generation = generation /\ r.generation = generation =>
      q = r /\ inflight[r] = 1 /\ fetching /\ (r.after = 0 \/ r.after = Len(rows))

InOrder == ~overtaken => Shown(Len(rows), scope) /\ (hasMore => cursor = Len(rows)) /\ OneRequest

PagesInv == PagesOfTypes /\ RequestsOfTypes /\ InOrder

\* A request sent, and one answered: how many there are of it, and of the rest.
Added(r) ==
  /\ DOMAIN inflight' = DOMAIN inflight \cup {r}
  /\ inflight' \in [DOMAIN inflight' -> Nat \ {0}]
  /\ r \notin DOMAIN inflight => inflight'[r] = 1
  /\ \A q \in DOMAIN inflight \ {r} : inflight'[q] = inflight[q]
Removed(r) ==
  /\ DOMAIN inflight' \subseteq DOMAIN inflight
  /\ inflight' \in [DOMAIN inflight' -> Nat \ {0}]
  /\ inflight[r] = 1 => r \notin DOMAIN inflight'
  /\ \A q \in DOMAIN inflight \ {r} : q \in DOMAIN inflight' /\ inflight'[q] = inflight[q]

LEMMA AddsOne ==
  ASSUME NEW B, NEW r, B \in [DOMAIN B -> Nat \ {0}], NEW c,
         c = (IF r \in DOMAIN B THEN B[r] ELSE 0), NEW A,
         A = [q \in DOMAIN B \cup {r} |-> IF q = r THEN c + 1 ELSE B[q]]
  PROVE  /\ DOMAIN A = DOMAIN B \cup {r} /\ A \in [DOMAIN A -> Nat \ {0}]
         /\ r \notin DOMAIN B => A[r] = 1
         /\ \A q \in DOMAIN B \ {r} : A[q] = B[q]
<1>1. c \in Nat /\ (r \notin DOMAIN B => c = 0)
  OBVIOUS
<1> QED
  BY <1>1

LEMMA TakesOne ==
  ASSUME NEW B, NEW r \in DOMAIN B, B \in [DOMAIN B -> Nat \ {0}], NEW A,
         A = [q \in DOMAIN B \ (IF B[r] = 1 THEN {r} ELSE {}) |-> IF q = r THEN B[r] - 1 ELSE B[q]]
  PROVE  /\ DOMAIN A \subseteq DOMAIN B /\ A \in [DOMAIN A -> Nat \ {0}]
         /\ B[r] = 1 => r \notin DOMAIN A
         /\ \A q \in DOMAIN B \ {r} : q \in DOMAIN A /\ A[q] = B[q]
<1>1. CASE B[r] = 1
  BY <1>1
<1>2. CASE B[r] # 1
  <2>1. B[r] - 1 \in Nat \ {0}
    BY <1>2
  <2> QED
    BY <1>2, <2>1
<1> QED
  BY <1>1, <1>2

LEMMA RequestIn ==
  ASSUME inflight \in [DOMAIN inflight -> Nat \ {0}], NEW s, NEW after, NEW g, Watch!Ask(s, after, g)
  PROVE  Added([generation |-> g, scope |-> s, after |-> after]) /\ fetching' = TRUE
<1>1. PICK B, A, r : B = inflight /\ A = inflight'
          /\ r = [generation |-> g, scope |-> s, after |-> after]
  OBVIOUS
<1>2. PICK c : c = (IF r \in DOMAIN B THEN B[r] ELSE 0)
  OBVIOUS
<1>3. A = [q \in DOMAIN B \cup {r} |-> IF q = r THEN c + 1 ELSE B[q]] /\ fetching' = TRUE
  BY <1>1, <1>2 DEF Watch!Ask, Watch!InFlight, Watch!Copies
<1>4. B \in [DOMAIN B -> Nat \ {0}]
  BY <1>1
<1> QED
  BY <1>1, <1>2, <1>3, <1>4, AddsOne DEF Added

LEMMA RequestOut ==
  ASSUME inflight \in [DOMAIN inflight -> Nat \ {0}], NEW r \in DOMAIN inflight, Watch!Taken(r)
  PROVE  Removed(r) /\ fetching' = FALSE
<1>1. PICK B, A : B = inflight /\ A = inflight'
  OBVIOUS
<1>2. A = [q \in DOMAIN B \ (IF B[r] = 1 THEN {r} ELSE {}) |-> IF q = r THEN B[r] - 1 ELSE B[q]]
          /\ fetching' = FALSE
  BY <1>1 DEF Watch!Taken, Watch!InFlight, Watch!Copies
<1>3. r \in DOMAIN B /\ B \in [DOMAIN B -> Nat \ {0}]
  BY <1>1
<1> QED
  BY <1>1, <1>2, <1>3, TakesOne DEF Removed

\* A new generation, with the request of its first page or without.
LEMMA Restarts ==
  ASSUME PagesAssumptions, PagesInv, NEW s \in Scopes, NEW r,
         r = [generation |-> generation + 1, scope |-> s, after |-> 0],
         generation < MaxGenerations, generation' = generation + 1, rows' = <<>>, cursor' = 0,
             hasMore' = FALSE,
         overtaken' = FALSE, scope' = s, loading' \in BOOLEAN, failed' \in BOOLEAN,
         (Added(r) /\ fetching' = TRUE) \/ UNCHANGED <<inflight, fetching>>
  PROVE  PagesInv'
<1> USE DEF PagesInv
<1>1. generation \in Nat /\ generation + 1 \in 0..MaxGenerations /\ r \in ListRequests
  BY DEF PagesOfTypes, ListRequests, PagesAssumptions
<1>2. \A q \in DOMAIN inflight : q.generation # generation + 1
  <2>1. \A q \in DOMAIN inflight : q.generation \in Nat /\ q.generation <= generation
    BY DEF RequestsOfTypes, ListRequests
  <2> QED
    BY <1>1, <2>1
<1>3. PagesOfTypes'
  <2>1. fetching' \in BOOLEAN
    BY DEF PagesOfTypes
  <2>2. PICK S : S = RowsOf(scope')
    OBVIOUS
  <2>3. rows' \in Seq(S)
    OBVIOUS
  <2> QED
    BY <1>1, <2>1, <2>2, <2>3 DEF PagesOfTypes, RowsOf
<1>4. RequestsOfTypes'
  <2>1. CASE Added(r)
    BY <1>1, <2>1 DEF RequestsOfTypes, Added, ListRequests
  <2>2. CASE UNCHANGED inflight
    BY <1>1, <1>2, <2>2 DEF RequestsOfTypes, ListRequests
  <2> QED
    BY <2>1, <2>2
<1>5. Shown(Len(rows), scope)'
  <2>1. Len(Log[s]) \in Nat /\ Len(rows') = 0
    BY DEF PagesAssumptions
  <2> QED
    BY <2>1 DEF Shown
<1>6. OneRequest'
  <2>1. CASE Added(r) /\ fetching' = TRUE
    BY <1>2, <2>1 DEF OneRequest, Added
  <2>2. CASE UNCHANGED inflight
    BY <1>2, <2>2 DEF OneRequest
  <2> QED
    BY <2>1, <2>2
<1> QED
  BY <1>3, <1>4, <1>5, <1>6 DEF InOrder

\* The next page of the list that is shown.
LEMMA Scrolls ==
  ASSUME PagesAssumptions, PagesInv, fetching = FALSE, hasMore = TRUE, NEW r,
         r = [generation |-> generation, scope |-> scope, after |-> cursor], Added(r), fetching' = TRUE,
         UNCHANGED <<scope, generation, rows, cursor, hasMore, loading, failed, overtaken>>
  PROVE  PagesInv'
<1> USE DEF PagesInv
<1>1. r \in ListRequests /\ generation \in Nat /\ r.generation = generation /\ r.scope = scope
          /\ r.after = cursor
  BY DEF PagesOfTypes, ListRequests, PagesAssumptions
<1>2. PagesOfTypes'
  BY DEF PagesOfTypes, RowsOf
<1>3. RequestsOfTypes'
  BY <1>1 DEF RequestsOfTypes, Added
<1>4. ASSUME ~overtaken PROVE Shown(Len(rows), scope) /\ cursor = Len(rows) /\ OneRequest'
  <2>1. Shown(Len(rows), scope) /\ cursor = Len(rows) /\ OneRequest
    BY <1>4 DEF InOrder
  <2>2. \A q \in DOMAIN inflight : q.generation # generation
    BY <2>1 DEF OneRequest
  <2>3. r \notin DOMAIN inflight
    BY <1>1, <2>2
  <2> QED
    BY <1>1, <2>1, <2>2, <2>3 DEF OneRequest, Added
<1> QED
  BY <1>2, <1>3, <1>4 DEF InOrder, Shown

\* Whichever answer comes, the rest in flight are as they were.
LEMMA Answers ==
  ASSUME PagesInv, NEW r \in DOMAIN inflight, Removed(r), UNCHANGED <<scope, generation>>
  PROVE  RequestsOfTypes'
BY DEF PagesInv, RequestsOfTypes, Removed

LEMMA Supersedes ==
  ASSUME PagesInv, NEW r \in DOMAIN inflight, r.generation # generation, Removed(r), fetching' = FALSE,
         overtaken' = (overtaken \/ \E q \in DOMAIN inflight : q.generation = generation),
         UNCHANGED <<scope, generation, rows, cursor, hasMore, loading, failed>>
  PROVE  PagesInv'
<1> USE DEF PagesInv
<1>1. RequestsOfTypes'
  BY Answers
<1>2. PagesOfTypes'
  BY DEF PagesOfTypes, RowsOf
<1>3. ~overtaken' => OneRequest'
  BY DEF OneRequest, Removed
<1> QED
  BY <1>1, <1>2, <1>3 DEF InOrder, Shown

LEMMA Fails ==
  ASSUME PagesInv, NEW r \in DOMAIN inflight, r.generation = generation, Removed(r), fetching' = FALSE,
         hasMore' = FALSE, loading' \in BOOLEAN, failed' \in BOOLEAN,
         UNCHANGED <<scope, generation, rows, cursor, overtaken>>
  PROVE  PagesInv'
<1> USE DEF PagesInv
<1>1. RequestsOfTypes'
  BY Answers
<1>2. PagesOfTypes'
  BY DEF PagesOfTypes, RowsOf
<1>3. ~overtaken => OneRequest'
  BY DEF OneRequest, Removed, InOrder
<1> QED
  BY <1>1, <1>2, <1>3 DEF InOrder, Shown

\* A page, after the rows it was asked for.
Begins(t, L, n) == Len(t) = n /\ \A i \in 1..n : t[i] = L[i]

LEMMA PageShows ==
  ASSUME NEW S, NEW L \in Seq(S), NEW n \in Nat, NEW m \in Nat, m <= Len(L), n <= m,
         NEW old \in Seq(S), Begins(old, L, n)
  PROVE  Begins(old \o SubSeq(L, n + 1, m), L, m)
<1>1. PICK p, new : p = SubSeq(L, n + 1, m) /\ new = old \o p
  OBVIOUS
<1>2. p \in Seq(S) /\ Len(p) = m - n /\ \A i \in 1..(m - n) : p[i] = L[n + i]
  <2>1. n + 1 \in Int /\ m \in Int /\ \A i \in n + 1..m : L[i] \in S
    OBVIOUS
  <2>2. /\ p \in Seq(S) /\ Len(p) = IF n + 1 <= m THEN m - (n + 1) + 1 ELSE 0
        /\ \A i \in 1..m - (n + 1) + 1 : p[i] = L[(n + 1) + i - 1]
    BY <2>1, <1>1, SubSeqProperties
  <2> QED
    BY <2>2
<1>3. /\ Len(new) = Len(old) + Len(p)
      /\ \A i \in 1..Len(old) + Len(p) : new[i] = IF i <= Len(old) THEN old[i] ELSE p[i - Len(old)]
  <2>1. old \in Seq(S) /\ p \in Seq(S)
    BY <1>2
  <2>2. /\ Len(old \o p) = Len(old) + Len(p)
        /\ \A i \in 1..Len(old) + Len(p) : (old \o p)[i] = IF i <= Len(old) THEN old[i]
              ELSE p[i - Len(old)]
    BY <2>1, ConcatProperties, Zenon
  <2> QED
    BY <1>1, <2>2, Zenon
<1>4. Len(old) = n /\ \A i \in 1..n : old[i] = L[i]
  BY DEF Begins
<1>5. Len(new) = m
  BY <1>2, <1>3, <1>4
<1>6. ASSUME NEW i \in 1..m PROVE new[i] = L[i]
  <2>1. CASE i \in 1..n
    BY <2>1, <1>2, <1>3, <1>4
  <2>2. CASE i \notin 1..n
    <3>1. PICK k : k = i - n
      OBVIOUS
    <3>2. k \in 1..(m - n) /\ i = n + k
      BY <2>2, <3>1
    <3>3. new[i] = p[k]
      BY <3>1, <3>2, <1>2, <1>3, <1>4
    <3> QED
      BY <3>2, <3>3, <1>2
  <2> QED
    BY <2>1, <2>2
<1> QED
  BY <1>1, <1>5, <1>6 DEF Begins

LEMMA Shows ==
  ASSUME PagesAssumptions, PagesInv, NEW r \in DOMAIN inflight, r.generation = generation,
         Removed(r), fetching' = FALSE,
         NEW m, m = (IF r.after + PageSize > Len(Log[r.scope]) THEN Len(Log[r.scope])
             ELSE r.after + PageSize),
         rows' = (IF r.after = 0 THEN <<>> ELSE rows) \o SubSeq(Log[r.scope], r.after + 1, m),
         cursor' = (IF r.after + PageSize < Len(Log[r.scope]) THEN r.after + PageSize ELSE 0),
         hasMore' = (cursor' # 0), loading' \in BOOLEAN, failed' \in BOOLEAN,
         UNCHANGED <<scope, generation, overtaken>>
  PROVE  PagesInv'
<1> USE DEF PagesInv
<1>1. r \in ListRequests /\ r.scope = scope /\ r.after \in Nat /\ scope \in Scopes
  BY DEF RequestsOfTypes, ListRequests, PagesOfTypes
<1>2. PICK L, n, S : L = Log[scope] /\ n = r.after /\ S = RowsOf(scope)
  OBVIOUS
<1>3. L \in Seq(S) /\ Len(L) \in Nat /\ n \in Nat /\ rows \in Seq(S) /\ PageSize \in Nat
  BY <1>1, <1>2 DEF PagesAssumptions, PagesOfTypes
<1>4. PICK old, new : old = (IF n = 0 THEN <<>> ELSE rows) /\ new = old \o SubSeq(L, n + 1, m)
  OBVIOUS
<1>5. m = (IF n + PageSize > Len(L) THEN Len(L) ELSE n + PageSize) /\ rows' = new
      /\ cursor' = (IF n + PageSize < Len(L) THEN n + PageSize ELSE 0)
  BY <1>1, <1>2, <1>4
<1>6. m \in Nat /\ m <= Len(L) /\ (n <= Len(L) => n <= m) /\ (cursor' # 0 => cursor' = m)
          /\ cursor' \in Nat
  BY <1>3, <1>5
<1>7. old \in Seq(S)
  BY <1>3, <1>4
<1>8. new \in Seq(S)
  <2>1. \A i \in n + 1..m : L[i] \in S
    BY <1>3, <1>6
  <2>2. SubSeq(L, n + 1, m) \in Seq(S)
    BY <2>1, <1>3, <1>6, SubSeqProperties
  <2> QED
    BY <2>2, <1>4, <1>7
<1>9. PagesOfTypes'
  <2>1. hasMore' \in BOOLEAN /\ rows' \in Seq(RowsOf(scope))
    BY <1>2, <1>5, <1>8
  <2> QED
    BY <2>1, <1>6 DEF PagesOfTypes, RowsOf
<1>10. RequestsOfTypes'
  BY Answers
<1>11. ASSUME ~overtaken PROVE InOrder'
  <2>1. Shown(Len(rows), scope) /\ OneRequest /\ inflight[r] = 1 /\ (n = 0 \/ n = Len(rows))
        /\ \A q \in DOMAIN inflight : q.generation = generation => q = r
    BY <1>2, <1>11 DEF InOrder, OneRequest
  <2>2. n <= Len(L) /\ Begins(old, L, n)
    BY <2>1, <1>2, <1>3, <1>4 DEF Shown, Begins
  <2>3. Len(new) = m /\ \A i \in 1..m : new[i] = L[i]
    <3>1. Begins(old \o SubSeq(L, n + 1, m), L, m)
      BY ONLY <2>2, <1>3, <1>6, <1>7, PageShows
    <3> QED
      BY <3>1, <1>4 DEF Begins
  <2>4. Shown(Len(rows), scope)'
    <3>1. Len(rows') = m /\ m <= Len(Log[scope]) /\ \A i \in 1..m : rows'[i] = Log[scope][i]
      BY <2>3, <1>2, <1>5, <1>6
    <3> QED
      BY <3>1 DEF Shown
  <2>5. hasMore' => cursor' = Len(rows')
    BY <2>3, <1>5, <1>6
  <2>6. OneRequest'
    BY <2>1 DEF OneRequest, Removed
  <2> QED
    BY <2>4, <2>5, <2>6 DEF InOrder
<1> QED
  BY <1>9, <1>10, <1>11 DEF InOrder

\* What the two lists take over from the protocol is the same.
LEMMA SameProtocol ==
  /\ \A r : History!SupersededAnswer(r) <=> Watch!SupersededAnswer(r)
  /\ \A r : History!FailedAnswer(r) <=> Watch!FailedAnswer(r)
  /\ \A r : History!PageAnswer(r) <=> Watch!PageAnswer(r)
  /\ \A s, after, g : History!Ask(s, after, g) <=> Watch!Ask(s, after, g)
  /\ History!FetchNextPage <=> Watch!FetchNextPage
  /\ History!Forget <=> Watch!Forget
  /\ History!PagesEmpty <=> Watch!PagesEmpty
  /\ History!InFlight = Watch!InFlight
BY DEF History!SupersededAnswer, Watch!SupersededAnswer, History!FailedAnswer, Watch!FailedAnswer,
  History!PageAnswer, Watch!PageAnswer, History!Ask, Watch!Ask, History!FetchNextPage,
  Watch!FetchNextPage,
  History!Forget, Watch!Forget, History!PagesEmpty, Watch!PagesEmpty, History!InFlight,
  Watch!InFlight,
  History!OfThisGeneration, Watch!OfThisGeneration, History!Taken, Watch!Taken, History!Page,
  Watch!Page,
  History!CursorPast, Watch!CursorPast, History!NoCursor, Watch!NoCursor,
  History!Copies, Watch!Copies, History!Cardinality, Watch!Cardinality

LEMMA Asked ==
  ASSUME PagesInv, NEW s, NEW after, NEW g, Watch!Ask(s, after, g)
  PROVE  Added([generation |-> g, scope |-> s, after |-> after]) /\ fetching' = TRUE
BY RequestIn DEF PagesInv, RequestsOfTypes

LEMMA Scrolled ==
  ASSUME PagesAssumptions, PagesInv, Watch!FetchNextPage
  PROVE  PagesInv'
<1>1. PICK r : r = [generation |-> generation, scope |-> scope, after |-> cursor]
  OBVIOUS
<1>2. Added(r) /\ fetching' = TRUE
  BY <1>1, Asked DEF Watch!FetchNextPage
<1>3. fetching = FALSE /\ hasMore = TRUE
  BY DEF Watch!FetchNextPage, PagesInv, PagesOfTypes
<1> QED
  BY <1>1, <1>2, <1>3, Scrolls DEF Watch!FetchNextPage

LEMMA Answered ==
  ASSUME PagesAssumptions, PagesInv, NEW r \in Watch!InFlight,
         Watch!SupersededAnswer(r) \/ Watch!FailedAnswer(r) \/ Watch!PageAnswer(r)
  PROVE  PagesInv'
<1>1. r \in DOMAIN inflight
  BY DEF Watch!InFlight
<1>2. Removed(r) /\ fetching' = FALSE
  BY <1>1, RequestOut DEF PagesInv, RequestsOfTypes, Watch!SupersededAnswer, Watch!FailedAnswer,
    Watch!PageAnswer
<1>3. CASE Watch!SupersededAnswer(r)
  <2>1. overtaken' = (overtaken \/ \E q \in DOMAIN inflight : q.generation = generation)
    BY <1>3 DEF Watch!SupersededAnswer, Watch!OfThisGeneration, Watch!InFlight
  <2> QED
    BY <1>1, <1>2, <1>3, <2>1, Supersedes DEF Watch!SupersededAnswer
<1>4. CASE Watch!FailedAnswer(r)
  <2>1. loading' \in BOOLEAN /\ failed' \in BOOLEAN
    BY <1>4 DEF Watch!FailedAnswer
  <2> QED
    BY <1>1, <1>2, <1>4, <2>1, Fails DEF Watch!FailedAnswer
<1>5. CASE Watch!PageAnswer(r)
  <2>1. loading' \in BOOLEAN /\ failed' \in BOOLEAN
    BY <1>5 DEF Watch!PageAnswer
  <2>2. PICK m : m = (IF r.after + PageSize > Len(Log[r.scope]) THEN Len(Log[r.scope])
            ELSE r.after + PageSize)
    OBVIOUS
  <2>3. /\ rows' = (IF r.after = 0 THEN <<>> ELSE rows) \o SubSeq(Log[r.scope], r.after + 1, m)
        /\ cursor' = (IF r.after + PageSize < Len(Log[r.scope]) THEN r.after + PageSize ELSE 0)
        /\ hasMore' = (cursor' # 0)
    BY <1>5, <2>2 DEF Watch!PageAnswer, Watch!Page, Watch!CursorPast, Watch!NoCursor
  <2>4. r.generation = generation /\ UNCHANGED <<scope, generation, overtaken>>
    BY <1>5 DEF Watch!PageAnswer
  <2> QED
    BY <1>1, <1>2, <2>1, <2>2, <2>3, <2>4, Shows
<1> QED
  BY <1>3, <1>4, <1>5

\* The list starts over for s, with a request or, as nothing is to be shown, without.
LEMMA Forgotten ==
  ASSUME PagesAssumptions, PagesInv, NEW s \in Scopes, Watch!Forget, scope' = s,
         loading' \in BOOLEAN, failed' \in BOOLEAN,
         Watch!Ask(s, 0, generation') \/ UNCHANGED <<inflight, fetching>>
  PROVE  PagesInv'
<1>1. PICK r : r = [generation |-> generation + 1, scope |-> s, after |-> 0]
  OBVIOUS
<1>2. /\ generation < MaxGenerations /\ generation' = generation + 1
      /\ rows' = <<>> /\ cursor' = 0 /\ hasMore' = FALSE /\ overtaken' = FALSE
  BY DEF Watch!Forget, Watch!NoCursor
<1>3. (Added(r) /\ fetching' = TRUE) \/ UNCHANGED <<inflight, fetching>>
  <2>1. CASE Watch!Ask(s, 0, generation')
    <3>1. PICK g : g = generation'
      OBVIOUS
    <3> QED
      BY <3>1, <2>1, <1>1, <1>2, Asked
  <2> QED
    BY <2>1
<1> QED
  BY <1>1, <1>2, <1>3, Restarts

\* Nothing is shown yet, and nothing is on its way.
LEMMA NothingShown ==
  ASSUME PagesAssumptions, scope \in Scopes, Watch!PagesEmpty, loading \in BOOLEAN
  PROVE  PagesInv /\ DOMAIN inflight = {}
<1>1. /\ generation = 0 /\ rows = <<>> /\ cursor = 0
      /\ fetching = FALSE /\ hasMore = FALSE /\ failed = FALSE /\ overtaken = FALSE
  BY DEF Watch!PagesEmpty, Watch!NoCursor
<1>2. inflight \in [DOMAIN inflight -> Nat \ {0}] /\ DOMAIN inflight = {}
  BY DEF Watch!PagesEmpty
<1>3. PICK S : S = RowsOf(scope)
  OBVIOUS
<1>4. rows \in Seq(S) /\ Len(rows) = 0 /\ Len(Log[scope]) \in Nat /\ MaxGenerations \in Nat
  BY <1>1 DEF PagesAssumptions
<1>5. PagesOfTypes
  <2>1. rows \in Seq(RowsOf(scope))
    BY <1>3, <1>4, Zenon
  <2>2. cursor \in Nat /\ generation \in 0..MaxGenerations
    BY <1>1, <1>4
  <2> QED
    BY <2>1, <2>2, <1>1, Zenon DEF PagesOfTypes
<1>6. RequestsOfTypes
  BY <1>2 DEF RequestsOfTypes
<1>7. InOrder
  BY <1>1, <1>2, <1>4 DEF InOrder, Shown, OneRequest
<1> QED
  BY <1>2, <1>5, <1>6, <1>7 DEF PagesInv

-----------------------------------------------------------------------------
(* The lists of an anime's page.                                             *)

WatchInv == PagesInv /\ expanded \in BOOLEAN

LEMMA WatchInit ==
  ASSUME PagesAssumptions, Watch!Init
  PROVE  WatchInv
BY NothingShown DEF Watch!Init, WatchInv

LEMMA WatchStepKeepsInv ==
  ASSUME PagesAssumptions, WatchInv, [Watch!Next]_(Watch!vars)
  PROVE  WatchInv'
<1> USE DEF WatchInv
<1>1. ASSUME NEW s \in Scopes, NEW wide \in BOOLEAN, Watch!StartOver(s, wide) PROVE WatchInv'
  <2>1. Watch!Forget /\ scope' = s /\ loading' \in BOOLEAN /\ failed' \in BOOLEAN
            /\ expanded' \in BOOLEAN
    BY <1>1 DEF Watch!StartOver
  <2>2. Watch!Ask(s, 0, generation') \/ UNCHANGED <<inflight, fetching>>
    BY <1>1 DEF Watch!StartOver
  <2> QED
    BY <2>1, <2>2, Forgotten
<1>2. CASE Watch!Expand
  <2>1. PICK s : s = scope
    OBVIOUS
  <2> QED
    BY <1>1, <1>2, <2>1 DEF Watch!Expand, PagesInv, PagesOfTypes
<1>3. CASE Watch!Collapse
  <2>1. UNCHANGED <<scope, generation, inflight, rows, cursor, fetching, hasMore, loading, failed,
            overtaken>> /\ expanded' = FALSE
    BY <1>3 DEF Watch!Collapse, Watch!pageVars
  <2> QED
    BY <2>1 DEF PagesInv, PagesOfTypes, RowsOf, RequestsOfTypes, InOrder, Shown, OneRequest
<1>4. ASSUME NEW s \in Scopes, Watch!ChangeScope(s) PROVE WatchInv'
  <2>1. PICK wide : wide = expanded
    OBVIOUS
  <2> QED
    BY <1>1, <1>4, <2>1 DEF Watch!ChangeScope
<1>5. CASE Watch!Scroll
  BY <1>5, Scrolled DEF Watch!Scroll
<1>6. CASE Watch!Answer
  BY <1>6, Answered DEF Watch!Answer
<1>7. CASE UNCHANGED Watch!vars
  <2>1. UNCHANGED <<scope, generation, inflight, rows, cursor, fetching, hasMore, loading, failed,
            overtaken, expanded>>
    BY <1>7 DEF Watch!vars, Watch!pageVars
  <2> QED
    BY <2>1 DEF PagesInv, PagesOfTypes, RowsOf, RequestsOfTypes, InOrder, Shown, OneRequest
<1> QED
  BY <1>2, <1>3, <1>4, <1>5, <1>6, <1>7 DEF Watch!Next

-----------------------------------------------------------------------------
(* The History list: until the catalogue has answered, nothing is asked for. *)

HistoryInv ==
  /\ PagesInv
  /\ catalog \in {"asked", "loaded", "refused"}
  /\ catalog # "loaded" => DOMAIN inflight = {} /\ rows = <<>> /\ hasMore = FALSE

LEMMA HistoryInit ==
  ASSUME PagesAssumptions, History!Init
  PROVE  HistoryInv
<1>1. Watch!PagesEmpty /\ loading \in BOOLEAN /\ scope \in Scopes /\ catalog = "asked"
  BY SameProtocol DEF History!Init
<1>2. rows = <<>> /\ hasMore = FALSE
  BY <1>1 DEF Watch!PagesEmpty
<1> QED
  BY <1>1, <1>2, NothingShown DEF HistoryInv

LEMMA HistoryStepKeepsInv ==
  ASSUME PagesAssumptions, HistoryInv, [History!Next]_(History!vars)
  PROVE  HistoryInv'
<1> USE DEF HistoryInv
<1>1. ASSUME NEW s \in Scopes, History!StartOver(s), scope' = s, catalog' = "loaded" PROVE HistoryInv'
  <2>1. Watch!Forget /\ loading' \in BOOLEAN /\ failed' \in BOOLEAN
    BY <1>1, SameProtocol DEF History!StartOver
  <2>2. Watch!Ask(s, 0, generation') \/ UNCHANGED <<inflight, fetching>>
    BY <1>1, SameProtocol DEF History!StartOver
  <2> QED
    BY <1>1, <2>1, <2>2, Forgotten
<1>2. CASE History!CatalogLoads
  <2>1. PICK s : s = scope
    OBVIOUS
  <2> QED
    BY <1>1, <1>2, <2>1 DEF History!CatalogLoads, PagesInv, PagesOfTypes
<1>3. CASE History!CatalogFails
  <2>1. PICK s : s = scope
    OBVIOUS
  <2>2. /\ Watch!Forget /\ scope' = s /\ s \in Scopes /\ loading' \in BOOLEAN /\ failed' \in BOOLEAN
        /\ UNCHANGED <<inflight, fetching>> /\ catalog' = "refused" /\ catalog = "asked"
    BY <1>3, <2>1, SameProtocol DEF History!CatalogFails, PagesInv, PagesOfTypes
  <2>3. rows' = <<>> /\ hasMore' = FALSE
    BY <2>2 DEF Watch!Forget
  <2> QED
    BY <2>2, <2>3, Forgotten
<1>4. ASSUME NEW s \in Scopes, History!ChangeFilters(s) PROVE HistoryInv'
  <2>1. scope' = s /\ UNCHANGED catalog
    BY <1>4 DEF History!ChangeFilters
  <2>2. CASE catalog = "loaded"
    BY <1>1, <1>4, <2>1, <2>2 DEF History!ChangeFilters
  <2>3. CASE catalog # "loaded"
    <3>1. UNCHANGED <<generation, inflight, rows, cursor, fetching, hasMore, loading, failed,
              overtaken>>
      BY <1>4, <2>3 DEF History!ChangeFilters, History!pageVars
    <3>2. DOMAIN inflight = {} /\ rows = <<>> /\ hasMore = FALSE
      BY <2>3
    <3>3. PICK S : S = RowsOf(s)
      OBVIOUS
    <3>4. rows \in Seq(S) /\ Len(rows) = 0 /\ Len(Log[s]) \in Nat
      BY <3>2 DEF PagesAssumptions
    <3>5. PagesOfTypes'
      BY <2>1, <3>1, <3>3, <3>4 DEF PagesInv, PagesOfTypes, RowsOf
    <3> QED
      BY <2>1, <3>1, <3>2, <3>4, <3>5 DEF PagesInv, RequestsOfTypes, InOrder, Shown, OneRequest
  <2> QED
    BY <2>2, <2>3
<1>5. CASE History!Scroll
  BY <1>5, Scrolled, SameProtocol DEF History!Scroll
<1>6. CASE History!Answer
  <2>1. PICK r \in Watch!InFlight : /\ Watch!SupersededAnswer(r) \/ Watch!FailedAnswer(r)
                                       \/ Watch!PageAnswer(r)
                                    /\ UNCHANGED catalog
    BY <1>6, SameProtocol DEF History!Answer
  <2>2. catalog = "loaded"
    BY <2>1 DEF Watch!InFlight
  <2> QED
    BY <2>1, <2>2, Answered
<1>7. CASE UNCHANGED History!vars
  <2>1. UNCHANGED <<scope, generation, inflight, rows, cursor, fetching, hasMore, loading, failed,
            overtaken, catalog>>
    BY <1>7 DEF History!vars, History!pageVars
  <2> QED
    BY <2>1 DEF PagesInv, PagesOfTypes, RowsOf, RequestsOfTypes, InOrder, Shown, OneRequest
<1> QED
  BY <1>2, <1>3, <1>4, <1>5, <1>6, <1>7 DEF History!Next

-----------------------------------------------------------------------------
(* What the lists promise.                                                   *)

LEMMA PagesPromise ==
  ASSUME PagesAssumptions, PagesInv
  PROVE  Watch!PageTypes /\ Watch!ShownIsPrefix
<1> USE DEF PagesInv
<1>1. PICK L, n : L = Log[scope] /\ n = Len(rows)
  OBVIOUS
<1>2. scope \in Scopes /\ L \in Seq(RowsOf(scope)) /\ Len(L) \in Nat /\ n \in Nat
          /\ rows \in Seq(RowsOf(scope))
  BY <1>1 DEF PagesAssumptions, PagesOfTypes
<1>3. \A i \in 1..n : \E j \in 1..Len(L) : rows[i] = L[j]
  <2>1. PICK S : S = RowsOf(scope)
    OBVIOUS
  <2>2. \A i \in 1..n : rows[i] \in S
    BY <1>1, <1>2, <2>1
  <2> QED
    BY <1>1, <2>1, <2>2 DEF RowsOf
<1>4. ASSUME ~overtaken PROVE n <= Len(L) /\ rows = SubSeq(L, 1, n) /\ (hasMore => cursor = n)
  <2>1. n <= Len(L) /\ (\A i \in 1..n : rows[i] = L[i]) /\ (hasMore => cursor = n)
    BY <1>1, <1>4 DEF InOrder, Shown
  <2>2. rows = SubSeq(L, 1, n)
    BY <2>1, <1>1, <1>2
  <2> QED
    BY <2>1, <2>2
<1>5. \A i \in 1..n : \E s \in Scopes : \E j \in 1..Len(Log[s]) : rows[i] = Log[s][j]
  BY <1>1, <1>2, <1>3
<1>6. Watch!PageTypes
  BY <1>1, <1>2, <1>5 DEF Watch!PageTypes, PagesOfTypes, RequestsOfTypes, ListRequests,
    Watch!InFlight, Watch!Requests
<1> QED
  BY <1>1, <1>3, <1>4, <1>6 DEF Watch!ShownIsPrefix

LEMMA WatchPromises == PagesAssumptions /\ WatchInv => Watch!TypeOK /\ Watch!ShownIsPrefix
BY PagesPromise DEF WatchInv, Watch!TypeOK

LEMMA HistoryPages == PagesAssumptions /\ HistoryInv => History!TypeOK /\ History!ShownIsPrefix
<1>1. PagesAssumptions /\ PagesInv => Watch!PageTypes /\ Watch!ShownIsPrefix
  BY PagesPromise
<1>2. (History!PageTypes <=> Watch!PageTypes) /\ (History!ShownIsPrefix <=> Watch!ShownIsPrefix)
  BY DEF History!PageTypes, Watch!PageTypes, History!ShownIsPrefix, Watch!ShownIsPrefix,
    History!InFlight, Watch!InFlight, History!Requests, Watch!Requests
<1> QED
  BY <1>1, <1>2 DEF HistoryInv, History!TypeOK

-----------------------------------------------------------------------------
(* The days of the History list.  The backend lists the episodes by the time *)
(* they were watched at, so the rows of one day follow one another.          *)

DaysFollow ==
  \A s \in Scopes : \A i, j, k \in 1..Len(Log[s]) :
    i <= j /\ j <= k /\ Day(Log[s][i]) = Day(Log[s][k]) => Day(Log[s][j]) = Day(Log[s][i])

\* A set of numbers that is not empty has a least element.
\* The rows from a to b, in which no day starts after a, are of one day.
LEMMA OneDay ==
  ASSUME NEW t, NEW a \in Nat, NEW b \in Nat, \A k \in a + 1..b : Day(t[k]) = Day(t[k - 1])
  PROVE  \A k \in a..b : Day(t[k]) = Day(t[a])
<1> DEFINE S == {k \in a..b : Day(t[k]) # Day(t[a])}
<1> SUFFICES ASSUME S # {} PROVE FALSE
  OBVIOUS
<1>1. PICK n \in S : \A m \in S : n <= m
  <2>1. S \in SUBSET Nat
    OBVIOUS
  <2> HIDE DEF S
  <2> QED
    BY <2>1, HasLeast
<1>2. n # a /\ n \in a + 1..b
  BY <1>1
<1>3. n - 1 \in a..b /\ n - 1 \notin S
  BY <1>1, <1>2
<1> QED
  BY <1>1, <1>2, <1>3

LEMMA HistoryDays == PagesAssumptions /\ DaysFollow /\ HistoryInv => History!DaysAreComplete
<1> SUFFICES ASSUME PagesAssumptions, DaysFollow, HistoryInv, ~overtaken,
                    NEW g \in History!DayGroups, ~History!IsPartial(g)
             PROVE  g[2] - g[1] + 1 = History!Cardinality({j \in 1..Len(Log[scope]) :
                    Day(Log[scope][j]) = Day(rows[g[1]])})
  BY DEF History!DaysAreComplete
<1>1. PICK L, n, a, b : L = Log[scope] /\ n = Len(rows) /\ a = g[1] /\ b = g[2]
  OBVIOUS
<1>2. scope \in Scopes /\ Len(L) \in Nat /\ n \in Nat /\ n <= Len(L) /\ \A i \in 1..n : rows[i] = L[i]
  BY <1>1 DEF PagesAssumptions, PagesOfTypes, PagesInv, HistoryInv, InOrder, Shown
<1>3. a \in 1..n /\ b \in 1..n /\ a <= b /\ b # n
  BY <1>1, <1>2 DEF History!DayGroups, History!IsPartial
<1>4. /\ a = 1 \/ Day(L[a]) # Day(L[a - 1])
      /\ Day(L[b + 1]) # Day(L[b])
      /\ \A k \in a + 1..b : Day(L[k]) = Day(L[k - 1])
  <2>1. /\ History!StartsDay(a) /\ History!StartsDay(b + 1)
        /\ \A k \in a + 1..b : ~History!StartsDay(k)
    BY <1>1, <1>3 DEF History!DayGroups
  <2>2. b + 1 \in 1..n /\ (b + 1) - 1 = b /\ b + 1 # 1
    BY <1>2, <1>3
  <2>3. \A k \in a + 1..b : k \in 1..n /\ k - 1 \in 1..n
    BY <1>2, <1>3
  <2>4. a = 1 \/ a - 1 \in 1..n
    BY <1>2, <1>3
  <2> QED
    BY <1>2, <1>3, <2>1, <2>2, <2>3, <2>4 DEF History!StartsDay
<1>5. \A k \in a..b : Day(L[k]) = Day(L[a])
  <2>1. a \in Nat /\ b \in Nat
    BY <1>2, <1>3
  <2> QED
    BY <2>1, <1>4, OneDay, Zenon
<1>6. ASSUME NEW j \in 1..Len(L), Day(L[j]) = Day(L[a]) PROVE j \in a..b
  <2>1. \A i, k, m \in 1..Len(L) : i <= k /\ k <= m /\ Day(L[i]) = Day(L[m]) => Day(L[k]) = Day(L[i])
    BY <1>1, <1>2 DEF DaysFollow
  <2>2. ~(j < a)
    <3> SUFFICES ASSUME j < a PROVE FALSE
      OBVIOUS
    <3>1. a - 1 \in 1..Len(L) /\ a \in 1..Len(L) /\ j <= a - 1 /\ a - 1 <= a /\ a # 1
      BY <1>2, <1>3
    <3>2. Day(L[a - 1]) = Day(L[j])
      BY <1>6, <2>1, <3>1
    <3> QED
      BY <1>4, <1>6, <3>1, <3>2
  <2>3. ~(b < j)
    <3> SUFFICES ASSUME b < j PROVE FALSE
      OBVIOUS
    <3>1. b + 1 \in 1..Len(L) /\ b \in 1..Len(L) /\ b <= b + 1 /\ b + 1 <= j /\ b \in a..b
      BY <1>2, <1>3
    <3>2. Day(L[b]) = Day(L[j])
      BY <1>5, <1>6, <3>1
    <3>3. Day(L[b + 1]) = Day(L[b])
      BY <2>1, <3>1, <3>2
    <3> QED
      BY <1>4, <3>3
  <2> QED
    BY <1>3, <2>2, <2>3
<1>7. {j \in 1..Len(L) : Day(L[j]) = Day(L[a])} = a..b
  BY <1>2, <1>3, <1>5, <1>6
<1>8. Cardinality(a..b) = b - a + 1
  BY <1>3, FS_Interval
<1>9. {j \in 1..Len(Log[scope]) : Day(Log[scope][j]) = Day(rows[g[1]])} = a..b
  BY <1>1, <1>2, <1>3, <1>7
<1>10. History!Cardinality(a..b) = Cardinality(a..b)
  BY DEF History!Cardinality, Cardinality
<1>11. g[2] - g[1] + 1 = b - a + 1
  BY <1>1
<1> QED
  BY <1>8, <1>9, <1>10, <1>11

LEMMA HistoryPromises ==
  PagesAssumptions /\ DaysFollow /\ HistoryInv => History!TypeOK /\ History!ShownIsPrefix
      /\ History!DaysAreComplete
BY HistoryPages, HistoryDays

\* For any logs and length of a page: the episodes of an anime's page are the newest of what
\* is asked for, in order and each once, unless a superseded answer let a second request
\* for the same page out (useAnimeWatchEpisodes).
THEOREM WatchIsSafe ==
  ASSUME PagesAssumptions
  PROVE  Watch!Spec => [](Watch!TypeOK /\ Watch!ShownIsPrefix)
<1>1. Watch!Init => WatchInv
  BY WatchInit
<1>2. WatchInv /\ [Watch!Next]_(Watch!vars) => WatchInv'
  BY WatchStepKeepsInv
<1> QED
  BY <1>1, <1>2, WatchPromises, PTL DEF Watch!Spec

\* The same of the History list; and a day of it that is not the last one loaded has all of
\* its rows, given that the rows of a day follow one another (useHistoryTimeline,
\* groupEpisodesByDay).
THEOREM HistoryIsSafe ==
  ASSUME PagesAssumptions, DaysFollow
  PROVE  History!Spec => [](History!TypeOK /\ History!ShownIsPrefix /\ History!DaysAreComplete)
<1>1. History!Init => HistoryInv
  BY HistoryInit
<1>2. HistoryInv /\ [History!Next]_(History!vars) => HistoryInv'
  BY HistoryStepKeepsInv
<1> QED
  BY <1>1, <1>2, HistoryPromises, PTL DEF History!Spec

==============================================================================
