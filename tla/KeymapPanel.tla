----------------------------- MODULE KeymapPanel -----------------------------
(* Keyboard shortcuts: the stored document of overrides, the overrides the   *)
(* dispatcher answers to, and the settings panel that writes them.  A write  *)
(* is published when its answer arrives; the panel does not wait for it.     *)
EXTENDS Naturals, Sequences, FiniteSets, Functions

CONSTANTS Commands, Chords, None, MaxCalls,
          ScopeOf, Shipped, \* a command's scope and the chord it is declared with
          Backups \* the documents a former session or a backup left

VARIABLES
  stored,    \* the overrides in the settings row, None for a command without one
  overrides, \* those published
  status,    \* "pending", "loaded", "failed"
  broken,    \* the panel shows an error in place of the map
  calls, made,
  brought,   \* history: the pairs of one scope and chord in a stored or imported document
  tookBack,  \* history: those pairs that a revert made
  crossed,   \* history: a call was sent while another one was under way
  blank      \* history: a read failed in the backend, which answers no document

past == <<brought, tookBack, crossed, blank>>
vars == <<stored, overrides, status, broken, calls, made, past>>

Documents == [Commands -> Chords \cup {None}]
Nothing == [c \in Commands |-> None]
Scopes == {ScopeOf[c] : c \in Commands} \ {"global"}
\* The scopes mounted, innermost last.
Stacks == UNION {{f \in [1..n -> Scopes] : IsInjective(f)} : n \in 0..Cardinality(Scopes)}

TypeOK ==
  /\ {stored, overrides} \subseteq Documents
  /\ status \in {"pending", "loaded", "failed"} /\ made <= MaxCalls
  /\ \A c \in calls : c.kind \in {"load", "save", "import"} /\ c.doc \in Documents /\ c.id <= made
  /\ {broken, crossed, blank} \subseteq BOOLEAN
  /\ brought \cup tookBack \subseteq Commands \X Commands

Effective(o) == [c \in Commands |-> IF o[c] = None THEN Shipped[c] ELSE o[c]]

\* Mutant: the check compares the shipped chord of the others, not the one in force.
CollidesWithShipped(o, c) ==
  \E d \in Commands \ {c} : ScopeOf[d] = ScopeOf[c] /\ Shipped[d] = Effective(o)[c]

Collides(o, c) ==
  \E d \in Commands \ {c} : ScopeOf[d] = ScopeOf[c] /\ Effective(o)[d] = Effective(o)[c]

\* Pairs of commands of one scope that answer to one chord.
Clashes(o) == {p \in Commands \X Commands :
  p[1] # p[2] /\ ScopeOf[p[1]] = ScopeOf[p[2]] /\ Effective(o)[p[1]] = Effective(o)[p[2]]}

\* An override that repeats the shipped chord is dropped.
Prune(o) == [c \in Commands |-> IF o[c] = Shipped[c] THEN None ELSE o[c]]

\* The innermost mounted scope that declares the chord owns it, then the global one;
\* the dispatcher runs the first of its commands that do.
Resolve(chord, frames) ==
  LET Owners(s) == {c \in Commands : ScopeOf[c] = s /\ Effective(overrides)[c] = chord}
      inner == {i \in DOMAIN frames : Owners(frames[i]) # {}}
      last == CHOOSE i \in inner : \A j \in inner : j <= i
  IN IF inner # {} THEN Owners(frames[last]) ELSE Owners("global")

Call(kind, doc) == [kind |-> kind, doc |-> doc, id |-> made + 1, here |-> TRUE, step |-> "sent", answer |-> "none"]
Send(c) ==
  /\ made < MaxCalls /\ made' = made + 1 /\ calls' = calls \cup {c}
  /\ crossed' = (crossed \/ calls # {})

Init ==
  /\ stored \in Backups /\ brought = Clashes(stored) /\ tookBack = {}
  /\ overrides = Nothing /\ status = "pending" /\ broken = FALSE /\ made = 0
  /\ calls = {[kind |-> "load", doc |-> Nothing, id |-> 0, here |-> TRUE, step |-> "sent", answer |-> "none"]}
  /\ crossed = FALSE /\ blank = FALSE

-----------------------------------------------------------------------------
(* The user                                                                *)

Usable == status = "loaded" /\ ~broken

\* A chord another command of the scope answers to is refused.
Rebind(c, chord) ==
  /\ Usable
  /\ LET candidate == Prune([overrides EXCEPT ![c] = chord])
     IN ~Collides(candidate, c) /\ Send(Call("save", candidate))
  /\ UNCHANGED <<stored, overrides, status, broken, brought, tookBack, blank>>

\* Dropping one override is not checked.
Revert(c) ==
  /\ Usable /\ overrides[c] # None
  /\ LET candidate == [overrides EXCEPT ![c] = None]
     IN Send(Call("save", candidate)) /\ tookBack' = tookBack \cup (Clashes(candidate) \ Clashes(overrides))
  /\ UNCHANGED <<stored, overrides, status, broken, brought, blank>>

Reset ==
  /\ Usable /\ Send(Call("save", Nothing))
  /\ UNCHANGED <<stored, overrides, status, broken, brought, tookBack, blank>>

\* The page is left and opened again: answers on their way show no error there.
Reopen ==
  /\ broken /\ broken' = FALSE /\ calls' = {[c EXCEPT !.here = FALSE] : c \in calls}
  /\ UNCHANGED <<stored, overrides, status, made, past>>

Import(doc) ==
  /\ Send(Call("import", doc))
  /\ UNCHANGED <<stored, overrides, status, broken, brought, tookBack, blank>>

-----------------------------------------------------------------------------
(* Calls are served and answered                                           *)

Step(c, to) == calls' = (calls \ {c}) \cup {to}

ServeLoad(c, answer) ==
  /\ c.kind = "load" /\ c.step = "sent"
  /\ Step(c, [c EXCEPT !.step = "served", !.answer = answer, !.doc = IF answer = "ok" THEN stored ELSE Nothing])
  /\ blank' = (blank \/ answer = "blank")
  /\ UNCHANGED <<stored, overrides, status, broken, made, brought, tookBack, crossed>>

\* A document is stored as it is, a backup's too.
ServeWrite(c, ok) ==
  /\ c.kind \in {"save", "import"} /\ c.step = "sent"
  /\ stored' = IF ok THEN c.doc ELSE stored
  /\ Step(c, [c EXCEPT !.step = "served", !.answer = IF ok THEN "ok" ELSE "refused"])
  /\ brought' = IF ok /\ c.kind = "import" THEN brought \cup Clashes(c.doc) ELSE brought
  /\ UNCHANGED <<overrides, status, broken, made, tookBack, crossed, blank>>

Loaded(c) ==
  /\ c.kind = "load" /\ c.step = "served" /\ calls' = calls \ {c}
  /\ overrides' = c.doc /\ status' = IF c.answer = "throws" THEN "failed" ELSE "loaded"
  /\ UNCHANGED <<stored, broken, made, past>>

\* Mutant: the overrides are published whatever the write answered.
SavedAnyway(c) ==
  /\ c.kind = "save" /\ c.step = "served" /\ calls' = calls \ {c}
  /\ overrides' = c.doc /\ status' = "loaded" /\ broken' = (broken \/ (c.here /\ c.answer # "ok"))
  /\ UNCHANGED <<stored, made, past>>

Saved(c) ==
  /\ c.kind = "save" /\ c.step = "served" /\ calls' = calls \ {c}
  /\ IF c.answer = "ok" THEN overrides' = c.doc /\ status' = "loaded" /\ UNCHANGED broken
     ELSE broken' = (broken \/ c.here) /\ UNCHANGED <<overrides, status>>
  /\ UNCHANGED <<stored, made, past>>

Imported(c) ==
  /\ c.kind = "import" /\ c.step = "served"
  /\ calls' = (calls \ {c}) \cup (IF c.answer = "ok" THEN {[c EXCEPT !.kind = "load", !.doc = Nothing, !.step = "sent", !.answer = "none"]} ELSE {})
  /\ UNCHANGED <<stored, overrides, status, broken, made, past>>

Next ==
  \/ \E c \in Commands : Revert(c) \/ \E chord \in Chords : Rebind(c, chord)
  \/ Reset \/ Reopen \/ \E doc \in Backups : Import(doc)
  \/ \E c \in calls : Loaded(c) \/ Saved(c) \/ Imported(c)
  \/ \E c \in calls, ok \in BOOLEAN : ServeWrite(c, ok)
  \/ \E c \in calls, answer \in {"ok", "blank", "throws"} : ServeLoad(c, answer)

\* What is on its way arrives.
Answer == \E c \in calls : Loaded(c) \/ Saved(c) \/ Imported(c) \/ ServeLoad(c, "ok") \/ ServeWrite(c, TRUE)

Spec == Init /\ [][Next]_vars /\ WF_vars(Answer)

-----------------------------------------------------------------------------
\* Every chord the panel lists runs the command it lists it for, and that one alone,
\* unless a scope inside takes it: no rebind, reset or crossing of calls gives a second
\* command the chord.  Pairs that a stored or imported document has, and those that a
\* revert made, share theirs.
CommandsAnswer == \A c \in Commands, frames \in Stacks :
  LET owners == Resolve(Effective(overrides)[c], frames)
  IN \/ c \in owners /\ \A d \in owners \ {c} : <<c, d>> \in brought \cup tookBack
     \/ \E d \in owners : ScopeOf[d] \notin {"global", ScopeOf[c]}
     \/ ScopeOf[c] # "global" /\ \A i \in DOMAIN frames : frames[i] # ScopeOf[c]

\* No write of the panel gives two commands one chord: those in force that share one
\* were so in a document stored before or imported.
RevertsDoNotClash == Clashes(overrides) \subseteq brought

\* With nothing under way the dispatcher answers to the stored document, calls that
\* crossed and failed reads apart.
RowsSettle == calls = {} /\ ~crossed /\ ~blank /\ status = "loaded" => overrides = stored

\* The panel's placeholder ends.
WaitsEnd == status = "pending" ~> status # "pending"

===============================================================================
