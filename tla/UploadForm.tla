------------------------------ MODULE UploadForm -----------------------------
(***************************************************************************)
(* The upload page: a container is registered by two calls, POST           *)
(* containers and POST upload.  The form stays open between them, and the  *)
(* handler goes on with what the form held when the button was clicked.    *)
(* The segments are judged twice, by the form and by the naming rule of    *)
(* the server; a value is the sequence of words between its hyphens.       *)
(***************************************************************************)
EXTENDS Integers, Sequences, FiniteSets, SequencesExt

CONSTANTS
  Text, Word,  \* as in NamingValidator
  Input,       \* the values a user may enter for each segment
  Default,     \* the segments the form starts with
  File,        \* files the user may choose
  MaxRows,     \* bound: containers that are created
  MaxCalls     \* bound: submissions in flight, of this and of earlier visits

VARIABLES
  ui,     \* segments, title (whether there is one), file, done, createdContainerId
  calls,  \* submissions in flight
  db      \* containers of the project, in the order of their creation: the id is the place

vars == <<ui, calls, db>>

None == "none"
namingSegments == <<"Project", "Originator", "Volume", "Level", "Type", "Role", "Number">>
Key == ToSet(namingSegments)

allowed == [Type |-> {"DR", "M3", "SP", "RP", "SH", "BC", "CR", "MS"},
            Role |-> {"A", "S", "M", "E", "C", "L", "F"}]

-----------------------------------------------------------------------------
(* The two judges.                                                         *)

OneWord(value, length, chars) ==
  Len(value) = 1 /\ value[1].length = length /\ value[1].chars \in chars

Listed(value, texts) == Len(value) = 1 /\ value[1].text \in texts

\* The patterns; B# is the text of B0..B9.
Matches(key, value) ==
  CASE key = "Project" -> TRUE
    [] key = "Originator" -> OneWord(value, 3, {"upper"})
    [] key = "Volume" -> OneWord(value, 2, {"upper", "digit", "alnum"})
    [] key = "Level" -> OneWord(value, 2, {"digit"}) \/ Listed(value, {"B#", "XX", "ZZ"})
    [] key = "Number" -> OneWord(value, 4, {"digit"})
    [] OTHER -> Listed(value, allowed[key])

\* Faulty: Number is not judged.
validateSegment_NoNumber(key, value) ==
  IF key = "Number" \/ Matches(key, value) THEN "pass"
  ELSE IF key \in {"Level", "Type"} THEN "warn" ELSE "fail"

validateSegment(key, value) ==
  IF value = <<[text |-> "", length |-> 0, chars |-> "other"]>> THEN "fail"
  ELSE IF Matches(key, value) THEN "pass"
  ELSE IF key \in {"Level", "Type"} THEN "warn" ELSE "fail"

overall(segments) ==
  LET results == { validateSegment(key, segments[key]) : key \in Key }
  IN IF "fail" \in results THEN "fail" ELSE IF "warn" \in results THEN "warn" ELSE "pass"

identifier(segments) == FlattenSeq([k \in DOMAIN namingSegments |-> segments[namingSegments[k]]])

Server == INSTANCE NamingValidator
  WITH Separator <- {"-"}, Identifier <- {identifier(ui.segments)},
       Split <- [i \in {identifier(ui.segments)} |-> [s \in {"-"} |-> i]]

-----------------------------------------------------------------------------
(* The form.                                                               *)

submitting == \E c \in calls : c.mounted

SetSegment(key, value) ==
  /\ ~ui.done /\ key # "Project"
  /\ ui' = [ui EXCEPT !.segments[key] = value]
  /\ UNCHANGED <<calls, db>>

SetTitle(title) ==
  /\ ~ui.done
  /\ ui' = [ui EXCEPT !.title = title]
  /\ UNCHANGED <<calls, db>>

SetFile(file) ==
  /\ ~ui.done
  /\ ui' = [ui EXCEPT !.file = file]
  /\ UNCHANGED <<calls, db>>

Ready == overall(ui.segments) # "fail" /\ ui.title /\ ui.file # None

\* handleSubmit up to its first await.
HandleSubmit ==
  /\ ~ui.done /\ Ready /\ ~submitting
  /\ Cardinality(calls) < MaxCalls
  /\ calls' = calls \cup {[step |-> "create", identifier |-> identifier(ui.segments),
                           file |-> ui.file, id |-> 0, mounted |-> TRUE]}
  /\ UNCHANGED <<ui, db>>

\* The button that goes on keeps the title, the file and the number.
Continue ==
  /\ ui.done
  /\ ui' = [ui EXCEPT !.done = FALSE]
  /\ UNCHANGED <<calls, db>>

Fresh == [segments |-> Default, title |-> FALSE, file |-> None, done |-> FALSE,
          createdContainerId |-> 0]

Remount ==
  /\ ui' = Fresh
  /\ calls' = { [c EXCEPT !.mounted = FALSE] : c \in calls }
  /\ UNCHANGED db

-----------------------------------------------------------------------------
(* The two calls.                                                          *)

Goto(c, step) == calls' = (calls \ {c}) \cup {[c EXCEPT !.step = step]}

Exists(ident) == \E i \in DOMAIN db : db[i].identifier = ident

\* POST containers: 409 for an identifier the project has.  submitted is the
\* file the form held at the click (history).
ServeCreate(c) ==
  /\ c.step = "create"
  /\ IF Exists(c.identifier)
     THEN Goto(c, "failed") /\ UNCHANGED db
     ELSE /\ Len(db) < MaxRows
          /\ db' = Append(db, [identifier |-> c.identifier, file |-> None, submitted |-> c.file])
          /\ calls' = (calls \ {c}) \cup {[c EXCEPT !.step = "created", !.id = Len(db')]}
  /\ UNCHANGED ui

\* Faulty: the file is read from the form when the first call is answered.
SendUpload_Latest(c) ==
  /\ c.step = "created"
  /\ calls' = (calls \ {c}) \cup {[c EXCEPT !.step = "upload", !.file = ui.file]}
  /\ UNCHANGED <<ui, db>>

SendUpload(c) ==
  /\ c.step = "created"
  /\ Goto(c, "upload")
  /\ UNCHANGED <<ui, db>>

\* POST upload may be refused: type, size, scanner, storage.
ServeUpload(c) ==
  /\ c.step = "upload"
  /\ \/ Goto(c, "uploaded") /\ db' = [db EXCEPT ![c.id].file = c.file]
     \/ Goto(c, "failed") /\ UNCHANGED db
  /\ UNCHANGED ui

Lose(c) ==
  /\ c.step # "failed"
  /\ Goto(c, "failed")
  /\ UNCHANGED <<ui, db>>

\* Faulty: the page is done as soon as the container is created.
Succeeded_AfterCreate(c) ==
  /\ c.step \in {"created", "uploaded"}
  /\ calls' = calls \ {c}
  /\ ui' = IF c.mounted THEN [ui EXCEPT !.createdContainerId = c.id, !.done = TRUE] ELSE ui
  /\ UNCHANGED db

Succeeded(c) ==
  /\ c.step = "uploaded"
  /\ calls' = calls \ {c}
  /\ ui' = IF c.mounted THEN [ui EXCEPT !.createdContainerId = c.id, !.done = TRUE] ELSE ui
  /\ UNCHANGED db

\* Nothing takes the container back that the first call has created.
Failed(c) ==
  /\ c.step = "failed"
  /\ calls' = calls \ {c}
  /\ UNCHANGED <<ui, db>>

Init == ui = Fresh /\ calls = {} /\ db = <<>>

Next ==
  \/ \E key \in Key : \E value \in Input[key] : SetSegment(key, value)
  \/ \E title \in BOOLEAN : SetTitle(title)
  \/ \E file \in File \cup {None} : SetFile(file)
  \/ HandleSubmit
  \/ Continue
  \/ Remount
  \/ \E c \in calls :
       \/ ServeCreate(c) \/ SendUpload(c) \/ ServeUpload(c) \/ Lose(c) \/ Succeeded(c) \/ Failed(c)

Spec == Init /\ [][Next]_vars

-----------------------------------------------------------------------------

TypeOK ==
  /\ DOMAIN ui.segments = Key /\ \A k \in Key : ui.segments[k] \in Input[k] \cup {Default[k]}
  /\ ui.title \in BOOLEAN /\ ui.done \in BOOLEAN
  /\ ui.file \in File \cup {None} /\ ui.createdContainerId \in 0..MaxRows
  /\ \A c \in calls :
       /\ c.step \in {"create", "created", "upload", "uploaded", "failed"}
       /\ c.file \in File /\ c.id \in 0..MaxRows /\ c.mounted \in BOOLEAN
       /\ c.identifier \in Seq(Word)
  /\ Len(db) <= MaxRows
  /\ \A i \in DOMAIN db : db[i].file \in File \cup {None} /\ db[i].submitted \in File

\* However the form is edited while the two calls run, a container holds the
\* file the form had when that identifier was submitted.
StoredAsSubmitted == \A i \in DOMAIN db : db[i].file \in {None, db[i].submitted}

\* The page says that the container was registered only if both calls did their
\* part, and its link leads to that container.
DoneIsStored ==
  ui.done => /\ ui.createdContainerId \in DOMAIN db
             /\ db[ui.createdContainerId].file # None

\* Up to the list of information types, the form promises no more than the
\* server keeps: what it calls conforming, the default rule does, too.
OnlyTypesDiffer ==
  overall(ui.segments) = "pass" /\ ui.segments["Type"][1].text \in Server!TypeCode =>
    Server!validate_identifier(identifier(ui.segments), Server!_default_iso19650_rule) = "compliant"

-----------------------------------------------------------------------------
(* The inductive invariant of the page (PageForms_proofs).                 *)

\* Steps of a submission that has created its container.
Owning == {"created", "upload", "uploaded"}

Row(r) == r = [identifier |-> r.identifier, file |-> r.file, submitted |-> r.submitted]

UiWhole ==
  ui = [segments |-> ui.segments, title |-> ui.title, file |-> ui.file, done |-> ui.done,
        createdContainerId |-> ui.createdContainerId]

RowsInv ==
  /\ Len(db) \in Nat
  /\ DOMAIN db = 1..Len(db)
  /\ db = [i \in DOMAIN db |-> db[i]]
  /\ \A i \in DOMAIN db : Row(db[i])

\* The fields of a submission.
Whole(c) ==
  c = [step |-> c.step, identifier |-> c.identifier, file |-> c.file, id |-> c.id,
       mounted |-> c.mounted]

\* A submission sends its own file to the container that it has created.
CallInv(c) ==
  /\ Whole(c)
  /\ c.file # None
  /\ c.step \in Owning => c.id \in DOMAIN db /\ db[c.id].submitted = c.file
  /\ c.step = "uploaded" => db[c.id].file # None

CallsInv == \A c \in calls : CallInv(c)

UploadInv == UiWhole /\ RowsInv /\ CallsInv /\ StoredAsSubmitted /\ DoneIsStored

\* The values are words, and the project is the one of the page.
SegmentsInv ==
  /\ UiWhole
  /\ ui.segments \in [Key -> Seq(Word)]
  /\ ui.segments["Project"] = Default["Project"]

\* A step of the database keeps the rows, what was submitted with them, and the
\* files that are there.
Kept ==
  \A i \in DOMAIN db :
    /\ i \in DOMAIN db' /\ db'[i].submitted = db[i].submitted
    /\ db[i].file # None => db'[i].file # None
=============================================================================
