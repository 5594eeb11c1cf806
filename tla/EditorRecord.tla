---------------------------- MODULE EditorRecord ----------------------------
(* The anime editor's data card: the record of the selected anime, the draft *)
(* typed over it, its save and its lifecycle commands, and the guard that    *)
(* asks before unsaved edits are left.                                       *)
EXTENDS Naturals, FiniteSets

CONSTANTS
  Animes, Fields, None,
  MaxVersion,  \* bound: changes of one anime
  MaxCalls     \* bound: selections and commands

VARIABLES
  stored,    \* the backend's anime: its modifiedAt and its fields
  selected,  \* selectedAnimeId
  record,    \* selectedRecord: [anime, version, field]
  draft,     \* field values on the form
  retains,   \* retainsAttemptedDraft
  saving, loading,
  sequence,  \* loadSequence
  pending,   \* the selection the guard holds back
  calls, made,
  typed,     \* history: fields the user typed into this draft
  late,      \* history: of those, typed while a command was out
  warned,    \* history: a refused command put new authority under this draft
  strayed,   \* history: an answer about another anime than the selected one was shown
  droppedBy, \* history: what took typed edits off the form unasked
  overwrote  \* history: a save wrote over a change of someone else's

form == <<record, draft, retains>>
history == <<typed, late, warned, strayed, droppedBy, overwrote>>
vars == <<stored, selected, form, saving, loading, sequence, pending, calls, made, history>>

Values == {"old", "mine", "theirs"}
Contents == [Fields -> Values]
Records == [anime : Animes, version : 0..MaxVersion, field : Contents]
Commands == {"save", "deactivate", "repeat"}

TypeOK ==
  /\ stored \in [Animes -> [version : 0..MaxVersion, field : Contents]]
  /\ selected \in Animes /\ record \in Records \cup {None} /\ draft \in Contents
  /\ pending \in Animes \cup {None}
  /\ {retains, saving, loading, warned, strayed, overwrote} \subseteq BOOLEAN
  /\ late \subseteq typed /\ typed \subseteq Fields
  /\ \A c \in calls : c.kind \in Commands \cup {"load"} /\ c.anime \in Animes

IsDirty == retains \/ (record # None /\ draft # record.field)
RecordOf(a) == [anime |-> a, version |-> stored[a].version, field |-> stored[a].field]

\* releases: the load a repeat awaits before the form is free again.
Load(a, releases) ==
  [kind |-> "load", anime |-> a, sequence |-> sequence + 1, releases |-> releases,
   served |-> FALSE, answer |-> None]

\* changes: the fields a save writes; next: the selection it was pressed for;
\* blind: fields where the form has shown no change of another device.
Command(kind, next) ==
  [kind |-> kind, anime |-> record.anime, ticket |-> made + 1, base |-> record.version,
   values |-> draft, changes |-> {f \in Fields : kind = "save" /\ draft[f] # record.field[f]},
   blind |-> {f \in Fields : ~warned /\ record.field[f] # "theirs"},
   next |-> next, served |-> FALSE, over |-> FALSE, outcome |-> None, answer |-> None]

StartLoad(remaining, a, releases) ==
  /\ sequence' = sequence + 1 /\ loading' = TRUE
  /\ calls' = remaining \cup {Load(a, releases)}

Init ==
  /\ stored = [a \in Animes |-> [version |-> 0, field |-> [f \in Fields |-> "old"]]]
  /\ selected = CHOOSE a \in Animes : TRUE
  /\ record = RecordOf(selected) /\ draft = record.field /\ retains = FALSE
  /\ saving = FALSE /\ loading = FALSE /\ sequence = 0 /\ pending = None
  /\ calls = {} /\ made = 0
  /\ typed = {} /\ late = {} /\ warned = FALSE /\ strayed = FALSE /\ droppedBy = {} /\ overwrote = FALSE

-----------------------------------------------------------------------------
(* The user                                                                *)

\* Mutant: a selection goes on whatever was typed.
SelectUnguarded(a) ==
  /\ pending = None /\ a # selected /\ made < MaxCalls /\ made' = made + 1
  /\ selected' = a /\ StartLoad(calls, a, FALSE)
  /\ UNCHANGED <<stored, form, saving, pending, history>>

Select(a) ==
  /\ pending = None /\ a # selected /\ made < MaxCalls /\ made' = made + 1
  /\ IF IsDirty
     THEN pending' = a /\ UNCHANGED <<selected, loading, sequence, calls>>
     ELSE selected' = a /\ StartLoad(calls, a, FALSE) /\ UNCHANGED pending
  /\ UNCHANGED <<stored, form, saving, history>>

Type(f) ==
  /\ pending = None /\ ~loading /\ record # None /\ draft[f] # "mine"
  /\ draft' = [draft EXCEPT ![f] = "mine"] /\ typed' = typed \cup {f}
  /\ late' = IF saving THEN late \cup {f} ELSE late
  /\ UNCHANGED <<stored, selected, record, retains, saving, loading, sequence, pending, calls, made,
                 warned, strayed, droppedBy, overwrote>>

\* The draft is what authority says again.
ShowAuthority(r) ==
  /\ draft' = IF r = None THEN draft ELSE r.field
  /\ retains' = FALSE /\ typed' = {} /\ late' = {} /\ warned' = FALSE

Discard ==
  /\ pending = None /\ IsDirty /\ ~saving
  /\ ShowAuthority(record)
  /\ UNCHANGED <<stored, selected, record, saving, loading, sequence, pending, calls, made, strayed, droppedBy, overwrote>>

Run(kind, next) ==
  /\ record # None /\ ~saving /\ made < MaxCalls
  /\ saving' = TRUE /\ late' = {}
  /\ made' = made + 1 /\ calls' = calls \cup {Command(kind, next)}
  /\ UNCHANGED <<stored, selected, form, loading, sequence, pending, typed, warned, strayed, droppedBy, overwrote>>

Save == pending = None /\ IsDirty /\ Run("save", None)
Deactivate == pending = None /\ Run("deactivate", None)
Repeat == pending = None /\ Run("repeat", None)

\* The guard: stay, even while its save is out; leave the edits; or save, then go on.
Stay ==
  /\ pending # None /\ pending' = None
  /\ UNCHANGED <<stored, selected, form, saving, loading, sequence, calls, made, history>>

DiscardAndContinue ==
  /\ pending # None /\ ~saving
  /\ ShowAuthority(record)
  /\ pending' = None /\ selected' = pending /\ StartLoad(calls, pending, FALSE)
  /\ UNCHANGED <<stored, record, saving, made, strayed, droppedBy, overwrote>>

SaveAndContinue == pending # None /\ IsDirty /\ Run("save", pending)

-----------------------------------------------------------------------------
(* The backend                                                             *)

\* Another device's change, one at a time.
ChangedElsewhere(a, f) ==
  /\ stored[a].version < MaxVersion /\ \A b \in Animes, g \in Fields : stored[b].field[g] # "theirs"
  /\ stored' = [stored EXCEPT ![a].version = @ + 1, ![a].field[f] = "theirs"]
  /\ UNCHANGED <<selected, form, saving, loading, sequence, pending, calls, made, history>>

\* The answer of a command given up on is heard by nobody.
Answered(c, outcome, a) ==
  calls' = (calls \ {c}) \cup
           (IF c.over THEN {} ELSE {[c EXCEPT !.served = TRUE, !.outcome = outcome, !.answer = a]})

ServeLoad(c) ==
  /\ c.kind = "load" /\ ~c.served
  /\ calls' = (calls \ {c}) \cup {[c EXCEPT !.served = TRUE, !.answer = RecordOf(c.anime)]}
  /\ UNCHANGED <<stored, selected, form, saving, loading, sequence, pending, made, history>>

\* A command whose base is not the stored version is refused and changes nothing.
Refuse(c) ==
  /\ c.kind \in Commands /\ ~c.served /\ c.base # stored[c.anime].version
  /\ Answered(c, "conflict", RecordOf(c.anime))
  /\ UNCHANGED <<stored, selected, form, saving, loading, sequence, pending, made, history>>

\* Mutant: a command is carried out over any newer version.
ApplyOverNewer(c) ==
  /\ c.kind \in Commands /\ ~c.served /\ c.base <= stored[c.anime].version
  /\ LET old == stored[c.anime]
         new == [version |-> old.version + 1,
                 field |-> [f \in Fields |-> IF f \in c.changes THEN c.values[f] ELSE old.field[f]]]
     IN /\ new.version <= MaxVersion
        /\ stored' = [stored EXCEPT ![c.anime] = new]
        /\ Answered(c, "applied", [anime |-> c.anime, version |-> new.version, field |-> new.field])
        /\ overwrote' = (overwrote \/ \E f \in c.changes \cap c.blind : old.field[f] = "theirs")
  /\ UNCHANGED <<selected, form, saving, loading, sequence, pending, made, typed, late, warned, strayed, droppedBy>>

Apply(c) ==
  /\ c.kind \in Commands /\ ~c.served /\ c.base = stored[c.anime].version
  /\ LET old == stored[c.anime]
         new == IF c.kind = "save" /\ c.changes = {} THEN old
                ELSE [version |-> old.version + 1,
                      field |-> [f \in Fields |-> IF f \in c.changes THEN c.values[f] ELSE old.field[f]]]
     IN /\ new.version <= MaxVersion
        /\ stored' = [stored EXCEPT ![c.anime] = new]
        /\ Answered(c, "applied", [anime |-> c.anime, version |-> new.version, field |-> new.field])
        /\ overwrote' = (overwrote \/ \E f \in c.changes \cap c.blind : old.field[f] = "theirs")
  /\ UNCHANGED <<selected, form, saving, loading, sequence, pending, made, typed, late, warned, strayed, droppedBy>>

-----------------------------------------------------------------------------
(* Answers                                                                 *)

\* Edits of the user's the new form no longer shows, and why.
Drop(r, lateOnly, why) ==
  droppedBy' = LET gone == {f \in typed : draft[f] \notin {record.field[f], r.field[f]}}
               IN droppedBy \cup (IF gone = {} THEN {}
                                  ELSE IF gone \subseteq late THEN {"typed late"}
                                  ELSE IF lateOnly THEN {"save"} ELSE {why})

\* Mutant: every read is shown, the latest or not.
LoadShown(c, ok) ==
  /\ c.kind = "load" /\ c.served /\ ok
  /\ calls' = calls \ {c}
  /\ saving' = (saving /\ ~c.releases) /\ loading' = FALSE
  /\ record' = c.answer /\ ShowAuthority(c.answer)
  /\ Drop(c.answer, FALSE, IF c.releases THEN "lifecycle" ELSE "load")
  /\ UNCHANGED <<stored, selected, sequence, pending, made, strayed, overwrote>>

\* loadRecord, for the latest request only; a failure leaves the form as it was.
LoadArrives(c, ok) ==
  /\ c.kind = "load" /\ c.served
  /\ calls' = calls \ {c}
  /\ saving' = (saving /\ ~c.releases)
  /\ IF c.sequence = sequence
     THEN /\ loading' = FALSE
          /\ IF ok
             THEN /\ record' = c.answer /\ ShowAuthority(c.answer)
                  /\ Drop(c.answer, FALSE, IF c.releases THEN "lifecycle" ELSE "load")
             ELSE UNCHANGED <<form, typed, late, warned, droppedBy>>
          /\ strayed' = (strayed \/ c.anime # selected \/ ~ok)
     ELSE UNCHANGED <<loading, form, typed, late, warned, droppedBy, strayed>>
  /\ UNCHANGED <<stored, selected, sequence, pending, made, overwrote>>

\* A refused, failed or timed-out command keeps the attempted draft, over the new
\* authority when the answer carries it.
Rejected(c) ==
  /\ retains' = TRUE /\ saving' = FALSE
  /\ IF c.answer = None THEN UNCHANGED <<record, warned, strayed>>
     ELSE record' = c.answer /\ warned' = TRUE /\ strayed' = (strayed \/ c.anime # selected)
  /\ UNCHANGED <<stored, selected, draft, loading, sequence, pending, made, typed, late, droppedBy, overwrote>>

\* An applied save or deactivation: the form follows; the guard's save goes on.
Applied(c) ==
  /\ c.kind \in {"save", "deactivate"} /\ c.served /\ c.outcome = "applied"
  /\ record' = c.answer /\ ShowAuthority(c.answer) /\ saving' = FALSE
  /\ Drop(c.answer, c.kind = "save", "lifecycle")
  /\ strayed' = (strayed \/ c.anime # selected)
  /\ IF c.next = None
     THEN calls' = calls \ {c} /\ UNCHANGED <<selected, loading, sequence, pending>>
     ELSE pending' = None /\ selected' = c.next /\ StartLoad(calls \ {c}, c.next, FALSE)
  /\ UNCHANGED <<stored, made, overwrote>>

Conflicted(c) ==
  /\ c.kind \in {"save", "deactivate"} /\ c.served /\ c.outcome = "conflict"
  /\ calls' = calls \ {c} /\ Rejected(c)

\* A repeat (a restore alike): the record is read again before the form is free.
Repeated(c) ==
  /\ c.kind = "repeat" /\ c.served
  /\ IF c.outcome = "applied"
     THEN StartLoad(calls \ {c}, c.anime, TRUE) /\ UNCHANGED saving
     ELSE calls' = calls \ {c} /\ saving' = FALSE /\ UNCHANGED <<loading, sequence>>
  /\ UNCHANGED <<stored, selected, form, pending, made, history>>

\* raceAnimeEditorCall gives up on a command, which may still be carried out.
TimesOut(c) ==
  /\ c.kind \in Commands /\ ~c.over
  /\ calls' = (calls \ {c}) \cup (IF c.served THEN {} ELSE {[c EXCEPT !.over = TRUE]})
  /\ IF c.kind = "repeat"
     THEN saving' = FALSE /\ UNCHANGED <<stored, selected, form, loading, sequence, pending, made, history>>
     ELSE Rejected([c EXCEPT !.answer = None])

Next ==
  \/ \E a \in Animes : Select(a)
  \/ \E f \in Fields : Type(f)
  \/ Discard \/ Save \/ Deactivate \/ Repeat \/ Stay \/ DiscardAndContinue \/ SaveAndContinue
  \/ \E a \in Animes, f \in Fields : ChangedElsewhere(a, f)
  \/ \E c \in calls : ServeLoad(c) \/ Refuse(c) \/ Apply(c) \/ Applied(c) \/ Conflicted(c) \/ Repeated(c) \/ TimesOut(c)
  \/ \E c \in calls, ok \in BOOLEAN : LoadArrives(c, ok)

\* Reads are answered; a command is answered or given up on.
LoadAnswers == \E c \in calls : ServeLoad(c) \/ (\E ok \in BOOLEAN : LoadArrives(c, ok))
CommandEnds == \E c \in calls : TimesOut(c) \/ Applied(c) \/ Conflicted(c) \/ Repeated(c)

Fairness == WF_vars(LoadAnswers) /\ WF_vars(CommandEnds)
Spec == Init /\ [][Next]_vars /\ Fairness

\* Once nothing is loading, the form shows the anime selected in the list, unless
\* its read failed or a command's answer came after the selection had moved on.
FormIsOfSelection == ~loading /\ record # None /\ ~strayed => record.anime = selected

\* Typed edits leave the form only by the user's own discard, by a lifecycle
\* command over them, or when they were typed while a command was out.
EditsSurvive == droppedBy \subseteq {"lifecycle", "typed late"}

\* A save writes over another device's change only after that change was on the
\* form, or after a refused command put it under the draft with a warning.
OthersSurvive == ~overwrote

=============================================================================
