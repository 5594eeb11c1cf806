----------------------------- MODULE LibraryRoot -----------------------------
(* The library root and the folders under it.  The Options panel previews a  *)
(* change, asks before animes move, and saves; the backend then rewrites the *)
(* folder of each active anime under the old root, one save at a time, and   *)
(* stores the new root only if all of them went well.  A folder is the root  *)
(* it lies under, or None; all animes here are active.                       *)
EXTENDS Naturals

CONSTANTS Animes, Roots, None,
          MaxCalls, MaxTyped, MaxWrites \* bounds: reads and saves, roots typed, writes elsewhere

VARIABLES
  root, folder, version, \* stored: the root, or None; each anime's folder and token
  calls, made,
  typed, baseline,  \* the panel: the text, and the root it is compared with
  saving, pending,  \* Save is disabled; the change to confirm, or None
  edits, writes,
  strayed,  \* history: the text was edited while its preview was under way
  crossed,  \* history: an anime was written elsewhere
  left,     \* history: the panel was left while a call was under way
  unread,   \* history: a save was pressed before the root was read, or its read failed
  doubled,  \* history: a change was planned while another was moving animes
  moved,    \* history: the animes moved to a root the user had not confirmed for them
  stranded  \* history: the animes under the old root when a new one was stored

stores == <<root, folder, version>>
panel == <<typed, baseline, saving, pending>>
past == <<strayed, crossed, left, unread, doubled, moved, stranded>>
vars == <<stores, calls, made, panel, edits, writes, past>>

Texts == Roots \cup {None} \* None: the empty text

TypeOK ==
  /\ root \in Texts /\ folder \in [Animes -> Texts] /\ version \in [Animes -> Nat]
  /\ made \in Nat /\ edits <= MaxTyped /\ writes <= MaxWrites
  /\ {typed, baseline} \subseteq Texts /\ (pending # None => pending.moves \subseteq Animes /\ pending.to \in Texts)
  /\ \A c \in calls : /\ c.kind \in {"load", "preview", "set"} /\ c.id <= made /\ c.to \in Texts
                      /\ {c.moves, c.failed} \subseteq SUBSET Animes /\ c.shown \subseteq Animes \X Texts
  /\ {saving, strayed, crossed, left, unread, doubled} \subseteq BOOLEAN /\ {moved, stranded} \subseteq SUBSET Animes

\* A call: the root it is for, the moves the user confirmed, each an anime and a root, and
\* the animes it has to move.
Call(kind, to, shown) ==
  [kind |-> kind, id |-> made + 1, to |-> to, shown |-> shown, here |-> TRUE, step |-> "sent",
   from |-> None, moves |-> {}, base |-> version, failed |-> {}, answer |-> "none"]
Send(c) == made' = made + 1 /\ calls' = calls \cup {c}
Step(c, to) == calls' = (calls \ {c}) \cup {to}

Init ==
  /\ root \in Roots /\ folder \in [Animes -> {root, None}] /\ version = [a \in Animes |-> 0]
  /\ typed = None /\ baseline = None /\ saving = FALSE /\ pending = None /\ made = 0
  /\ calls = {[kind |-> "load", id |-> 0, to |-> None, shown |-> {}, here |-> TRUE, step |-> "sent",
               from |-> None, moves |-> {}, base |-> version, failed |-> {}, answer |-> "none"]}
  /\ edits = 0 /\ writes = 0
  /\ strayed = FALSE /\ crossed = FALSE /\ left = FALSE /\ unread = FALSE /\ doubled = FALSE
  /\ moved = {} /\ stranded = {}

\* PlanLibraryRootChange: the animes that follow a change to a root.
Moves(to) == IF root = None \/ to \in {None, root} THEN {} ELSE {a \in Animes : folder[a] = root}

-----------------------------------------------------------------------------
(* The user and other writers                                              *)

\* By hand or from the folder picker.
Type(text) ==
  /\ pending = None /\ text # typed /\ edits < MaxTyped /\ edits' = edits + 1 /\ typed' = text
  /\ strayed' = (strayed \/ saving)
  /\ UNCHANGED <<stores, calls, made, baseline, saving, pending, writes, crossed, left, unread, doubled, moved, stranded>>

Save ==
  /\ typed # baseline /\ ~saving /\ pending = None /\ saving' = TRUE
  /\ made < MaxCalls /\ Send(Call("preview", typed, {}))
  /\ unread' = (unread \/ \E c \in calls : c.kind = "load" /\ c.here)
  /\ UNCHANGED <<stores, typed, baseline, pending, edits, writes, strayed, crossed, left, doubled, moved, stranded>>

\* What is saved is the text, not the root of the change confirmed.
Confirm ==
  /\ pending # None /\ pending' = None /\ saving' = TRUE
  /\ Send(Call("set", typed, pending.moves \X {pending.to}))
  /\ UNCHANGED <<stores, typed, baseline, edits, writes, past>>

Cancel ==
  /\ pending # None /\ pending' = None
  /\ UNCHANGED <<stores, calls, made, typed, baseline, saving, edits, writes, past>>

\* The panel is left and opened again: it reads the root, and no earlier answer
\* reaches it; a save under way goes on.
Reopen ==
  /\ made < MaxCalls /\ made' = made + 1
  /\ calls' = {[c EXCEPT !.here = FALSE] : c \in calls} \cup {Call("load", None, {})}
  /\ typed' = None /\ baseline' = None /\ saving' = FALSE /\ pending' = None
  /\ left' = (left \/ calls # {})
  /\ UNCHANGED <<stores, edits, writes, strayed, crossed, unread, doubled, moved, stranded>>

\* Another device, or the editor, moves an anime's folder.
OtherWrite(a, to) ==
  /\ writes < MaxWrites /\ writes' = writes + 1
  /\ folder' = [folder EXCEPT ![a] = to] /\ version' = [version EXCEPT ![a] = @ + 1]
  /\ crossed' = TRUE
  /\ UNCHANGED <<root, calls, made, panel, edits, strayed, left, unread, doubled, moved, stranded>>

-----------------------------------------------------------------------------
(* The backend                                                             *)

ServeRead(c, ok) ==
  /\ c.step = "sent"
  /\ \/ c.kind = "load" /\ Step(c, [c EXCEPT !.step = "served", !.answer = IF ok THEN root ELSE None])
        /\ unread' = (unread \/ ~ok)
     \/ c.kind = "preview" /\ UNCHANGED unread
        /\ Step(c, [c EXCEPT !.step = "served", !.answer = IF ok THEN "ok" ELSE "failed", !.moves = Moves(c.to)])
  /\ UNCHANGED <<stores, made, panel, edits, writes, strayed, crossed, left, doubled, moved, stranded>>

\* A change is planned on the root and the animes of this moment.
Plan(c, ok) ==
  /\ c.kind = "set" /\ c.step = "sent"
  /\ Step(c, IF ok THEN [c EXCEPT !.step = "moving", !.from = root, !.moves = Moves(c.to), !.base = version]
             ELSE [c EXCEPT !.step = "served", !.answer = "failed"])
  /\ moved' = IF ok THEN moved \cup {a \in Moves(c.to) : <<a, c.to>> \notin c.shown} ELSE moved
  /\ doubled' = (doubled \/ \E d \in calls \ {c} : d.step = "moving")
  /\ UNCHANGED <<stores, made, panel, edits, writes, strayed, crossed, left, unread, stranded>>

\* Each save is refused if the anime was written since the plan, and may fail.
MoveOne(c, a, ok) ==
  /\ c.step = "moving" /\ a \in c.moves
  /\ LET saved == ok /\ version[a] = c.base[a]
     IN /\ IF saved THEN folder' = [folder EXCEPT ![a] = c.to] /\ version' = [version EXCEPT ![a] = @ + 1]
           ELSE UNCHANGED <<folder, version>>
        /\ Step(c, [c EXCEPT !.moves = @ \ {a}, !.failed = IF saved THEN @ ELSE @ \cup {a}])
  /\ UNCHANGED <<root, made, panel, edits, writes, past>>

\* Mutant: the root is stored whatever became of the moves.
StoreAnyway(c, ok) ==
  /\ c.step = "moving" /\ c.moves = {}
  /\ root' = IF ok THEN c.to ELSE root
  /\ Step(c, [c EXCEPT !.step = "served", !.answer = IF root' = c.to THEN "ok" ELSE "failed"])
  /\ stranded' = IF root' # root /\ None \notin {root, c.to} THEN stranded \cup {a \in Animes : folder[a] = root} ELSE stranded
  /\ UNCHANGED <<folder, version, made, panel, edits, writes, strayed, crossed, left, unread, doubled, moved>>

Store(c, ok) ==
  /\ c.step = "moving" /\ c.moves = {}
  /\ root' = IF ok /\ c.failed = {} THEN c.to ELSE root
  /\ Step(c, [c EXCEPT !.step = "served", !.answer = IF ok /\ c.failed = {} THEN "ok" ELSE "failed"])
  /\ stranded' = IF root' # root /\ None \notin {root, c.to} THEN stranded \cup {a \in Animes : folder[a] = root} ELSE stranded
  /\ UNCHANGED <<folder, version, made, panel, edits, writes, strayed, crossed, left, unread, doubled, moved>>

-----------------------------------------------------------------------------
(* The answers                                                             *)

Gone(c) ==
  /\ c.step = "served" /\ ~c.here /\ c.kind # "preview" /\ calls' = calls \ {c}
  /\ UNCHANGED <<stores, made, panel, edits, writes, past>>

LoadArrives(c) ==
  /\ c.kind = "load" /\ c.step = "served" /\ c.here /\ calls' = calls \ {c}
  /\ typed' = c.answer /\ baseline' = c.answer
  /\ UNCHANGED <<stores, made, saving, pending, edits, writes, past>>

\* Nothing to move: the root that was previewed is saved, by a panel left too.
PreviewArrives(c) ==
  /\ c.kind = "preview" /\ c.step = "served"
  /\ IF c.answer = "ok" /\ c.moves = {}
     THEN /\ made' = made + 1 /\ calls' = (calls \ {c}) \cup {[Call("set", c.to, {}) EXCEPT !.here = c.here]}
          /\ UNCHANGED <<saving, pending>>
     ELSE /\ calls' = calls \ {c} /\ saving' = (saving /\ ~c.here) /\ UNCHANGED made
          /\ pending' = IF c.here /\ c.answer = "ok" THEN [to |-> c.to, moves |-> c.moves] ELSE pending
  /\ UNCHANGED <<stores, typed, baseline, edits, writes, past>>

SetArrives(c) ==
  /\ c.kind = "set" /\ c.step = "served" /\ c.here /\ calls' = calls \ {c}
  /\ saving' = FALSE /\ baseline' = IF c.answer = "ok" THEN c.to ELSE baseline
  /\ UNCHANGED <<stores, made, typed, pending, edits, writes, past>>

Next ==
  \/ Save \/ Confirm \/ Cancel \/ Reopen \/ \E text \in Texts : Type(text)
  \/ \E a \in Animes, to \in Texts : OtherWrite(a, to)
  \/ \E c \in calls : Gone(c) \/ LoadArrives(c) \/ PreviewArrives(c) \/ SetArrives(c)
  \/ \E c \in calls, ok \in BOOLEAN : ServeRead(c, ok) \/ Plan(c, ok) \/ Store(c, ok)
  \/ \E c \in calls, a \in Animes, ok \in BOOLEAN : MoveOne(c, a, ok)

\* What is on its way arrives.
Answer ==
  \E c \in calls : \/ ServeRead(c, TRUE) \/ Plan(c, TRUE) \/ Store(c, TRUE) \/ \E a \in Animes : MoveOne(c, a, TRUE)
                   \/ Gone(c) \/ LoadArrives(c) \/ PreviewArrives(c) \/ SetArrives(c)

Spec == Init /\ [][Next]_vars /\ WF_vars(Answer)

-----------------------------------------------------------------------------
\* No anime's folder moves but to the root, and as one of the animes, of the change
\* the user confirmed, apart from a text edited during its preview, a root that was
\* not read, a panel left with a call under way and writes elsewhere.
MovesAreConfirmed == moved # {} => strayed \/ unread \/ crossed \/ left

\* When a new root is stored no anime is left under the old one, unless it came there
\* by a write elsewhere or two changes of the root were carried out at once.
NobodyIsStranded == stranded # {} => crossed \/ doubled

\* With nothing under way the panel compares its text with the stored root.
RowsSettle == calls = {} /\ ~left /\ ~unread => baseline = root

\* Save is disabled for a while only.
WaitsEnd == saving ~> ~saving

===============================================================================
