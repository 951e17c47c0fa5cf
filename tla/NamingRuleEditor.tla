--------------------------- MODULE NamingRuleEditor --------------------------
(***************************************************************************)
(* The page of a project's naming rule.  Outside of edit mode it shows the *)
(* cached answer; an edit works on what it took from the cache when it was *)
(* opened, and is closed by whichever answer arrives while it is open.  A  *)
(* closed edit leaves its columns behind, and the rule may be read again   *)
(* or changed by others under an open one.  A segment is known by its key. *)
(***************************************************************************)
EXTENDS Integers, Sequences, FiniteSets, SequencesExt

CONSTANTS
  Separator,
  Key,               \* keys a user types in
  NewKey,            \* `seg${n}` for each n
  DEFAULT_SEGMENTS,  \* the segments the page knows
  ServerDefault,     \* the segments of _default_iso19650_rule
  MaxSegments,       \* bound: segments of one edit
  MaxCalls           \* bound: mutations in flight at the same time

VARIABLES
  ui,     \* editMode, separator, segments; opened and touched (history of the open edit)
  shown,  \* the query: rule (None before the first answer), failed
  calls,  \* PUT and DELETE in flight
  db      \* the row of project_naming_rules, or None

vars == <<ui, shown, calls, db>>

None == [separator |-> "none", segments |-> <<>>, is_default |-> FALSE]
Rule(separator, segments) == [separator |-> separator, segments |-> segments, is_default |-> FALSE]
Default(segments) == [separator |-> "-", segments |-> segments, is_default |-> TRUE]

\* GET naming-rules
Answer == IF db = None THEN Default(ServerDefault) ELSE db

Fresh == [editMode |-> FALSE, separator |-> "-", segments |-> DEFAULT_SEGMENTS,
          opened |-> None, touched |-> {}]

isLoading == shown.rule = None /\ ~shown.failed
isPending(kind) == \E c \in calls : c.mounted /\ c.kind = kind

-----------------------------------------------------------------------------
(* The user.                                                               *)

src == IF shown.rule = None THEN Default(DEFAULT_SEGMENTS) ELSE shown.rule

\* Faulty: the separator stays as the last edit left it.
StartEdit_SeparatorKept ==
  /\ ~isLoading /\ ~ui.editMode
  /\ ui' = [editMode |-> TRUE, separator |-> ui.separator, segments |-> src.segments,
            opened |-> src, touched |-> {}]
  /\ UNCHANGED <<shown, calls, db>>

StartEdit ==
  /\ ~isLoading /\ ~ui.editMode
  /\ ui' = [editMode |-> TRUE, separator |-> src.separator, segments |-> src.segments,
            opened |-> src, touched |-> {}]
  /\ UNCHANGED <<shown, calls, db>>

SetSeparator(separator) ==
  /\ ui.editMode
  /\ ui' = [ui EXCEPT !.separator = separator, !.touched = @ \cup {"separator"}]
  /\ UNCHANGED <<shown, calls, db>>

SetSegments(segments) ==
  /\ ui.editMode
  /\ ui' = [ui EXCEPT !.segments = segments, !.touched = @ \cup {"segments"}]
  /\ UNCHANGED <<shown, calls, db>>

AddSegment ==
  /\ Len(ui.segments) < MaxSegments
  /\ SetSegments(Append(ui.segments, NewKey[Len(ui.segments) + 1]))

UpdateSegment(i, updated) == SetSegments([ui.segments EXCEPT ![i] = updated])

RemoveSegment(i) == SetSegments(RemoveAt(ui.segments, i))

\* setEditMode(false): the two columns keep what they hold.
Closed == [ui EXCEPT !.editMode = FALSE, !.opened = None, !.touched = {}]

Cancel ==
  /\ ui.editMode
  /\ ui' = Closed
  /\ UNCHANGED <<shown, calls, db>>

Mutate(kind, body) ==
  /\ ~isLoading /\ ~isPending(kind) /\ Cardinality(calls) < MaxCalls
  /\ calls' = calls \cup {[kind |-> kind, body |-> body, state |-> "sent", mounted |-> TRUE,
                           opened |-> ui.opened, touched |-> ui.touched]}
  /\ UNCHANGED <<ui, shown, db>>

Save == ui.editMode /\ Mutate("put", Rule(ui.separator, ui.segments))

Reset == ~ui.editMode /\ shown.rule # None /\ ~shown.rule.is_default /\ Mutate("delete", None)

Remount ==
  /\ ui' = Fresh
  /\ calls' = { [c EXCEPT !.mounted = FALSE] : c \in calls }
  /\ UNCHANGED <<shown, db>>

-----------------------------------------------------------------------------
(* The answers.  The schema takes 1 to 20 segments, each with a key of at   *)
(* least one character; a delete without a row does nothing and is done.   *)

Settle(c, state) == calls' = (calls \ {c}) \cup {[c EXCEPT !.state = state]}

Serve(c) ==
  /\ c.state = "sent"
  /\ IF c.kind = "put" /\ (c.body.segments = <<>> \/ "" \in Range(c.body.segments))
     THEN UNCHANGED db /\ Settle(c, "failed")
     ELSE db' = c.body /\ Settle(c, "ok")
  /\ UNCHANGED <<ui, shown>>

Lose(c) ==
  /\ c.state # "failed"
  /\ Settle(c, "failed")
  /\ UNCHANGED <<ui, shown, db>>

\* Both onSuccess handlers leave edit mode, also one that was opened since.
Succeeded(c) ==
  /\ c.state = "ok"
  /\ calls' = calls \ {c}
  /\ ui' = IF c.mounted THEN Closed ELSE ui
  /\ UNCHANGED <<shown, db>>

Failed(c) ==
  /\ c.state = "failed"
  /\ calls' = calls \ {c}
  /\ UNCHANGED <<ui, shown, db>>

Refresh ==
  /\ shown' = [rule |-> Answer, failed |-> FALSE]
  /\ UNCHANGED <<ui, calls, db>>

RefreshFails ==
  /\ ~shown.failed
  /\ shown' = [shown EXCEPT !.failed = TRUE]
  /\ UNCHANGED <<ui, calls, db>>

Keys == Key \cup Range(NewKey) \cup Range(DEFAULT_SEGMENTS) \cup Range(ServerDefault)

\* Another manager resets the rule, or stores one (bound: of one segment).
Elsewhere ==
  /\ \/ db' = None
     \/ \E separator \in Separator, key \in Keys \ {""} : db' = Rule(separator, <<key>>)
  /\ UNCHANGED <<ui, shown, calls>>

Init ==
  /\ ui = Fresh
  /\ shown = [rule |-> None, failed |-> FALSE]
  /\ calls = {}
  /\ db = None

Next ==
  \/ StartEdit \/ AddSegment \/ Cancel \/ Save \/ Reset \/ Remount
  \/ \E separator \in Separator : SetSeparator(separator)
  \/ \E i \in DOMAIN ui.segments :
       \/ RemoveSegment(i)
       \/ \E key \in Key : UpdateSegment(i, key)
  \/ \E c \in calls : Serve(c) \/ Lose(c) \/ Succeeded(c) \/ Failed(c)
  \/ Refresh \/ RefreshFails
  \/ Elsewhere

Spec == Init /\ [][Next]_vars

-----------------------------------------------------------------------------

Segments == { s \in Seq(Keys) : Len(s) <= MaxSegments }
Separators == Separator \cup {"-", None.separator}
Rules == [separator : Separators, segments : Segments, is_default : BOOLEAN]
Columns == {"separator", "segments"}

TypeOK ==
  /\ ui \in [editMode : BOOLEAN, separator : Separators, segments : Segments,
             opened : Rules, touched : SUBSET Columns]
  /\ shown \in [rule : Rules, failed : BOOLEAN]
  /\ calls \subseteq [kind : {"put", "delete"}, body : Rules, state : {"sent", "ok", "failed"},
                      mounted : BOOLEAN, opened : Rules, touched : SUBSET Columns]
  /\ db \in Rules

\* The columns that an edit has not touched are those of the rule it was opened on.
Untouched(edit, columns) == \A k \in Columns \ edit.touched : columns[k] = edit.opened[k]

\* An edit shows, and a save sends, in the columns that the user has not touched
\* what the page showed when the edit was opened: whatever an earlier edit,
\* cancelled or answered, left behind, and whatever was stored by others, read
\* again or answered under the open edit.
UntouchedAsOpened ==
  /\ ui.editMode => Untouched(ui, ui)
  /\ \A c \in calls : c.kind = "put" => Untouched(c, c.body)
=============================================================================
