---------------------------- MODULE PageForms_proofs --------------------------
(***************************************************************************)
(* Theorems about the pages with forms (upload, requirements, roles), for  *)
(* every value of their constants and every number of calls in flight.     *)
(***************************************************************************)
EXTENDS PageViews_proofs, FiniteSetTheorems

-----------------------------------------------------------------------------
(***************************************************************************)
(* The upload page                                                         *)
(***************************************************************************)

\* What a submission has in the database, it keeps.
LEMMA UploadCallKept ==
  ASSUME NEW c, Upload!CallInv(c), Upload!Kept
  PROVE  Upload!CallInv(c)'
BY DEF Upload!CallInv, Upload!Kept, Upload!Owning

\* A submission goes to a step that asks no more of the database.
LEMMA UploadGotoKept ==
  ASSUME NEW c, Upload!CallInv(c), NEW step, Upload!Kept,
         step \in Upload!Owning => c.step \in Upload!Owning,
         step = "uploaded" => db'[c.id].file # Upload!None
  PROVE  Upload!CallInv([c EXCEPT !.step = step])'
<1> DEFINE d == [c EXCEPT !.step = step]
<1>1. d = [step |-> step, identifier |-> c.identifier, file |-> c.file, id |-> c.id,
           mounted |-> c.mounted]
  BY DEF Upload!CallInv, Upload!Whole
<1> HIDE DEF d
<1>2. Upload!CallInv(d)'
  BY <1>1 DEF Upload!CallInv, Upload!Whole, Upload!Kept
<1> QED
  BY <1>2 DEF d

\* A step of the form alone.
LEMMA UploadFormInv ==
  ASSUME Upload!UploadInv, UNCHANGED db, Upload!UiWhole', Upload!CallsInv',
         ui'.done => ui.done /\ ui'.createdContainerId = ui.createdContainerId
  PROVE  Upload!UploadInv'
BY DEF Upload!UploadInv, Upload!RowsInv, Upload!Row, Upload!StoredAsSubmitted, Upload!DoneIsStored

\* The submissions that are not over keep what they have.
LEMMA UploadStillCalls ==
  ASSUME Upload!UploadInv, UNCHANGED db, calls' \subseteq calls
  PROVE  Upload!CallsInv'
<1>1. Upload!Kept
  BY DEF Upload!Kept, Upload!UploadInv, Upload!RowsInv
<1> QED
  BY <1>1, UploadCallKept DEF Upload!UploadInv, Upload!CallsInv

\* The form is edited.
LEMMA UploadEditInv ==
  ASSUME Upload!UploadInv,
         \/ \E key \in Upload!Key : \E value \in SubmitInput[key] : Upload!SetSegment(key, value)
         \/ \E title \in BOOLEAN : Upload!SetTitle(title)
         \/ \E file \in UploadFile \cup {Upload!None} : Upload!SetFile(file)
         \/ Upload!Continue
  PROVE  Upload!UploadInv'
<1>1. UNCHANGED <<calls, db>>
  BY DEF Upload!SetSegment, Upload!SetTitle, Upload!SetFile, Upload!Continue
<1>2. Upload!UiWhole' /\ ~(ui'.done)
  BY DEF Upload!UploadInv, Upload!UiWhole, Upload!SetSegment, Upload!SetTitle, Upload!SetFile,
         Upload!Continue
<1> QED
  BY <1>1, <1>2, UploadStillCalls, UploadFormInv

\* The form is submitted.
LEMMA UploadHandleSubmitInv ==
  ASSUME Upload!UploadInv, Upload!HandleSubmit
  PROVE  Upload!UploadInv'
<1> DEFINE c == [step |-> "create", identifier |-> Upload!identifier(ui.segments),
                 file |-> ui.file, id |-> 0, mounted |-> TRUE]
<1>1. calls' = calls \cup {c} /\ UNCHANGED <<ui, db>>
  BY DEF Upload!HandleSubmit
<1>2. Upload!CallInv(c)
  BY DEF Upload!CallInv, Upload!Whole, Upload!HandleSubmit, Upload!Ready, Upload!Owning
<1> HIDE DEF c
<1>3. Upload!Kept
  BY <1>1 DEF Upload!Kept, Upload!UploadInv, Upload!RowsInv
<1>4. Upload!CallsInv'
  BY <1>1, <1>2, <1>3, UploadCallKept DEF Upload!UploadInv, Upload!CallsInv
<1> QED
  BY <1>1, <1>4, UploadFormInv DEF Upload!UploadInv, Upload!UiWhole

\* The page is left and opened again.
LEMMA UploadRemountInv ==
  ASSUME Upload!UploadInv, Upload!Remount
  PROVE  Upload!UploadInv'
<1>1. UNCHANGED db /\ Upload!UiWhole' /\ ~(ui'.done)
  BY DEF Upload!Remount, Upload!Fresh, Upload!UiWhole
<1>2. ASSUME NEW c \in calls, NEW m
      PROVE  Upload!CallInv([c EXCEPT !.mounted = m])'
  <2> DEFINE d == [c EXCEPT !.mounted = m]
  <2>1. Upload!CallInv(c)
    BY DEF Upload!UploadInv, Upload!CallsInv
  <2>2. d = [step |-> c.step, identifier |-> c.identifier, file |-> c.file, id |-> c.id,
             mounted |-> m]
    BY <2>1 DEF Upload!CallInv, Upload!Whole
  <2> HIDE DEF d
  <2>3. Upload!CallInv(d)'
    BY <1>1, <2>1, <2>2 DEF Upload!CallInv, Upload!Whole
  <2> QED
    BY <2>3 DEF d
<1>3. Upload!CallsInv'
  <2>1. \A c \in { [d EXCEPT !.mounted = FALSE] : d \in calls } : Upload!CallInv(c)'
    BY <1>2, Zenon
  <2> QED
    BY <2>1, Zenon DEF Upload!CallsInv, Upload!Remount
<1> QED
  BY <1>1, <1>3, UploadFormInv

\* The server creates the container of a submission, or refuses.
LEMMA UploadServeCreateInv ==
  ASSUME Upload!UploadInv, NEW c \in calls, Upload!ServeCreate(c)
  PROVE  Upload!UploadInv'
<1>a. Upload!CallInv(c)
  BY DEF Upload!UploadInv, Upload!CallsInv
<1>1. CASE Upload!Goto(c, "failed") /\ UNCHANGED <<ui, db>>
  <2>1. Upload!Kept
    BY <1>1 DEF Upload!Kept, Upload!UploadInv, Upload!RowsInv
  <2>2. Upload!CallsInv'
    BY <1>a, <1>1, <2>1, UploadCallKept, UploadGotoKept
    DEF Upload!Goto, Upload!UploadInv, Upload!CallsInv, Upload!Owning
  <2> QED
    BY <1>1, <2>2, UploadFormInv DEF Upload!UploadInv, Upload!UiWhole
<1>2. CASE ~Upload!Exists(c.identifier)
  <2> DEFINE row == [identifier |-> c.identifier, file |-> Upload!None, submitted |-> c.file]
             d == [c EXCEPT !.step = "created", !.id = Len(db')]
  <2>1. /\ db' = Append(db, row) /\ UNCHANGED ui
        /\ calls' = (calls \ {c}) \cup {d}
    BY <1>2 DEF Upload!ServeCreate
  <2>2. db \in Seq({ db[i] : i \in DOMAIN db })
    BY DEF Upload!UploadInv, Upload!RowsInv
  <2>3. /\ Len(db') = Len(db) + 1 /\ DOMAIN db' = 1..Len(db') /\ Len(db') \in Nat
        /\ \A i \in DOMAIN db : db'[i] = db[i]
        /\ db'[Len(db')] = row
    BY <2>1, <2>2 DEF Upload!UploadInv, Upload!RowsInv
  <2>4. Upload!Kept
    BY <2>3 DEF Upload!Kept, Upload!UploadInv, Upload!RowsInv
  <2>5. ASSUME NEW e, e = d
        PROVE  Upload!CallInv(e)'
    <3>1. Upload!Whole(e) /\ e.step = "created" /\ e.id = Len(db') /\ e.file = c.file
      BY <1>a, <2>5 DEF Upload!CallInv, Upload!Whole
    <3> HIDE DEF d
    <3> QED
      BY <1>a, <2>3, <3>1 DEF Upload!CallInv, Upload!UploadInv, Upload!RowsInv
  <2> HIDE DEF d
  <2>6. Upload!CallsInv'
    <3>1. \A e \in calls : Upload!CallInv(e)'
      BY <2>4, UploadCallKept DEF Upload!UploadInv, Upload!CallsInv
    <3> QED
      BY <2>1, <2>5, <3>1 DEF Upload!CallsInv
  <2>7. Upload!RowsInv' /\ Upload!StoredAsSubmitted'
    BY <2>1, <2>2, <2>3 DEF Upload!UploadInv, Upload!RowsInv, Upload!Row, Upload!StoredAsSubmitted
  <2>8. Upload!DoneIsStored' /\ Upload!UiWhole'
    BY <2>1, <2>4 DEF Upload!UploadInv, Upload!DoneIsStored, Upload!UiWhole, Upload!Kept
  <2> QED
    BY <2>6, <2>7, <2>8 DEF Upload!UploadInv
<1> QED
  BY <1>1, <1>2 DEF Upload!ServeCreate

\* The server stores the file of a submission, or refuses.
LEMMA UploadServeUploadInv ==
  ASSUME Upload!UploadInv, NEW c \in calls, Upload!ServeUpload(c)
  PROVE  Upload!UploadInv'
<1>a. Upload!CallInv(c) /\ c.id \in DOMAIN db /\ db[c.id].submitted = c.file /\ c.step = "upload"
  BY DEF Upload!UploadInv, Upload!CallsInv, Upload!CallInv, Upload!ServeUpload, Upload!Owning
<1>1. CASE Upload!Goto(c, "failed") /\ UNCHANGED <<ui, db>>
  <2>1. Upload!Kept
    BY <1>1 DEF Upload!Kept, Upload!UploadInv, Upload!RowsInv
  <2>2. Upload!CallsInv'
    BY <1>a, <1>1, <2>1, UploadCallKept, UploadGotoKept
    DEF Upload!Goto, Upload!UploadInv, Upload!CallsInv, Upload!Owning
  <2> QED
    BY <1>1, <2>2, UploadFormInv DEF Upload!UploadInv, Upload!UiWhole
<1>2. CASE /\ Upload!Goto(c, "uploaded") /\ UNCHANGED ui
           /\ db' = [db EXCEPT ![c.id].file = c.file]
  <2> DEFINE row == [db[c.id] EXCEPT !.file = c.file]
  <2>1. row = [identifier |-> db[c.id].identifier, file |-> c.file, submitted |-> c.file]
    BY <1>a DEF Upload!UploadInv, Upload!RowsInv, Upload!Row
  <2>2. db' = [db EXCEPT ![c.id] = row]
    BY <1>2
  <2> HIDE DEF row
  <2>3. DOMAIN db' = DOMAIN db /\ \A i \in DOMAIN db : db'[i] = IF i = c.id THEN row ELSE db[i]
    BY <2>2
  <2>4. Upload!Kept /\ db'[c.id].file # Upload!None
    BY <1>a, <2>1, <2>3 DEF Upload!Kept, Upload!CallInv
  <2>5. Upload!CallsInv'
    <3>1. Upload!CallInv([c EXCEPT !.step = "uploaded"])'
      BY <1>a, <2>4, UploadGotoKept DEF Upload!Owning
    <3>2. \A e \in calls : Upload!CallInv(e)'
      BY <2>4, UploadCallKept DEF Upload!UploadInv, Upload!CallsInv
    <3> QED
      BY <1>2, <3>1, <3>2 DEF Upload!Goto, Upload!CallsInv
  <2>6. Len(db') = Len(db)
    BY <2>3 DEF Upload!UploadInv, Upload!RowsInv
  <2>7. Upload!RowsInv' /\ Upload!StoredAsSubmitted'
    BY <2>1, <2>2, <2>3, <2>6
    DEF Upload!UploadInv, Upload!RowsInv, Upload!Row, Upload!StoredAsSubmitted
  <2>8. Upload!DoneIsStored' /\ Upload!UiWhole'
    BY <1>2, <2>4 DEF Upload!UploadInv, Upload!DoneIsStored, Upload!UiWhole, Upload!Kept
  <2> QED
    BY <2>5, <2>7, <2>8 DEF Upload!UploadInv
<1> QED
  BY <1>1, <1>2 DEF Upload!ServeUpload

\* The second call of a submission is sent when the first was answered.
LEMMA UploadSendInv ==
  ASSUME Upload!UploadInv, NEW c \in calls, Upload!SendUpload(c) \/ Upload!Lose(c)
  PROVE  Upload!UploadInv'
<1>1. Upload!CallInv(c) /\ UNCHANGED <<ui, db>>
  BY DEF Upload!UploadInv, Upload!CallsInv, Upload!SendUpload, Upload!Lose
<1>2. Upload!Kept
  BY <1>1 DEF Upload!Kept, Upload!UploadInv, Upload!RowsInv
<1>3. Upload!CallsInv'
  BY <1>1, <1>2, UploadCallKept, UploadGotoKept
  DEF Upload!SendUpload, Upload!Lose, Upload!Goto, Upload!UploadInv, Upload!CallsInv,
      Upload!Owning
<1> QED
  BY <1>1, <1>3, UploadFormInv DEF Upload!UploadInv, Upload!UiWhole

\* The page is told that a submission is done.
LEMMA UploadSucceededInv ==
  ASSUME Upload!UploadInv, NEW c \in calls, Upload!Succeeded(c)
  PROVE  Upload!UploadInv'
<1>1. Upload!CallsInv' /\ UNCHANGED db
  BY UploadStillCalls DEF Upload!Succeeded
<1>2. c.id \in DOMAIN db /\ db[c.id].file # Upload!None
  BY DEF Upload!UploadInv, Upload!CallsInv, Upload!CallInv, Upload!Succeeded, Upload!Owning
<1>3. CASE ui' = ui
  BY <1>1, <1>3, UploadFormInv DEF Upload!UploadInv, Upload!UiWhole
<1>4. CASE ui' = [ui EXCEPT !.createdContainerId = c.id, !.done = TRUE]
  <2>1. Upload!UiWhole' /\ ui'.createdContainerId = c.id
    BY <1>4 DEF Upload!UploadInv, Upload!UiWhole
  <2>2. Upload!DoneIsStored'
    BY <1>1, <1>2, <2>1 DEF Upload!DoneIsStored
  <2> QED
    BY <1>1, <2>1, <2>2 DEF Upload!UploadInv, Upload!RowsInv, Upload!Row, Upload!StoredAsSubmitted
<1> QED
  BY <1>3, <1>4 DEF Upload!Succeeded

\* The invariant holds of the empty form.
LEMMA UploadInitInv == Upload!Init => Upload!UploadInv
BY DEF Upload!Init, Upload!Fresh, Upload!UploadInv, Upload!UiWhole, Upload!RowsInv,
       Upload!CallsInv, Upload!StoredAsSubmitted, Upload!DoneIsStored

\* Every step of the upload page keeps its invariant.
LEMMA UploadNextInv == Upload!UploadInv /\ [Upload!Next]_(Upload!vars) => Upload!UploadInv'
<1> SUFFICES ASSUME Upload!UploadInv, [Upload!Next]_(Upload!vars)
             PROVE  Upload!UploadInv'
  OBVIOUS
<1>1. CASE Upload!HandleSubmit
  BY <1>1, UploadHandleSubmitInv
<1>2. CASE Upload!Remount
  BY <1>2, UploadRemountInv
<1>3. ASSUME NEW c \in calls, Upload!ServeCreate(c)
      PROVE  Upload!UploadInv'
  BY <1>3, UploadServeCreateInv
<1>4. ASSUME NEW c \in calls, Upload!ServeUpload(c)
      PROVE  Upload!UploadInv'
  BY <1>4, UploadServeUploadInv
<1>5. ASSUME NEW c \in calls, Upload!SendUpload(c) \/ Upload!Lose(c)
      PROVE  Upload!UploadInv'
  BY <1>5, UploadSendInv
<1>6. ASSUME NEW c \in calls, Upload!Succeeded(c)
      PROVE  Upload!UploadInv'
  BY <1>6, UploadSucceededInv
<1>7. ASSUME NEW c \in calls, Upload!Failed(c)
      PROVE  Upload!UploadInv'
  BY <1>7, UploadStillCalls, UploadFormInv DEF Upload!Failed, Upload!UploadInv, Upload!UiWhole
<1>8. CASE UNCHANGED Upload!vars
  BY <1>8, UploadStillCalls, UploadFormInv DEF Upload!vars, Upload!UploadInv, Upload!UiWhole
<1> QED
  BY <1>1, <1>2, <1>3, <1>4, <1>5, <1>6, <1>7, <1>8, UploadEditInv DEF Upload!Next
-----------------------------------------------------------------------------
(***************************************************************************)
(* The two judges of the form: seven values of one word make seven parts,  *)
(* of which each segment of the default rule takes its own                 *)
(***************************************************************************)

\* The segments of a form, in the order of the identifier.
LEMMA FormKeys ==
  /\ Upload!Key = {"Project", "Originator", "Volume", "Level", "Type", "Role", "Number"}
  /\ Builder!Key = Upload!Key
BY DEF Upload!Key, Upload!namingSegments, Upload!ToSet, Builder!Key, Builder!namingSegments,
       Builder!ToSet

\* The identifier is what the segments say, one after the other.
LEMMA IdentifierJoins ==
  ASSUME NEW s
  PROVE  Upload!identifier(s) =
           (((((s["Project"] \o s["Originator"]) \o s["Volume"]) \o s["Level"]) \o s["Type"])
              \o s["Role"]) \o s["Number"]
<1> DEFINE q == [k \in DOMAIN Upload!namingSegments |-> s[Upload!namingSegments[k]]]
           a1 == s["Project"]
           a2 == s["Originator"]
           a3 == s["Volume"]
           a4 == s["Level"]
           a5 == s["Type"]
           a6 == s["Role"]
           a7 == s["Number"]
<1>1. /\ DOMAIN q = 1..7 /\ Len(q) = 7
      /\ q[1] = a1 /\ q[2] = a2 /\ q[3] = a3 /\ q[4] = a4 /\ q[5] = a5 /\ q[6] = a6 /\ q[7] = a7
  BY DEF Upload!namingSegments
<1> HIDE DEF q, a1, a2, a3, a4, a5, a6, a7
<1> DEFINE b2 == a1 \o a2
           b3 == b2 \o a3
           b4 == b3 \o a4
           b5 == b4 \o a5
           b6 == b5 \o a6
           b7 == b6 \o a7
           Join(f) == [i \in 1..Len(q) |-> IF i = 1 THEN q[i] ELSE f[i - 1] \o q[i]]
           joined == CHOOSE f : f = Join(f)
<1>2. Upload!FlattenSeq(q) = joined[Len(q)]
  BY <1>1 DEF Upload!FlattenSeq
<1>3. joined = Join(joined)
  <2> DEFINE f == [i \in 1..7 |-> IF i = 1 THEN a1 ELSE IF i = 2 THEN b2 ELSE IF i = 3 THEN b3
                   ELSE IF i = 4 THEN b4 ELSE IF i = 5 THEN b5 ELSE IF i = 6 THEN b6 ELSE b7]
  <2>1. ASSUME NEW i \in 1..7
        PROVE  f[i] = IF i = 1 THEN q[i] ELSE f[i - 1] \o q[i]
    BY <1>1
  <2>2. f = [i \in 1..7 |-> f[i]]
    OBVIOUS
  <2> HIDE DEF f
  <2>3. f = [i \in 1..7 |-> IF i = 1 THEN q[i] ELSE f[i - 1] \o q[i]]
    BY <2>1, <2>2
  <2>4. f = Join(f)
    BY <1>1, <2>3
  <2> QED
    BY <2>4
<1> DEFINE g == joined
<1>4. g = Join(g)
  BY <1>3
<1> HIDE DEF joined, g
<1>5. /\ g[1] = a1 /\ g[2] = g[1] \o a2 /\ g[3] = g[2] \o a3 /\ g[4] = g[3] \o a4
      /\ g[5] = g[4] \o a5 /\ g[6] = g[5] \o a6 /\ g[7] = g[6] \o a7
  <2> DEFINE Then(x, y) == x \o y
  <2>1. \A i \in 1..7 : g[i] = IF i = 1 THEN q[i] ELSE Then(g[i - 1], q[i])
    BY <1>1, <1>4
  <2> HIDE DEF Then
  <2>2. /\ g[1] = q[1] /\ g[2] = Then(g[1], q[2]) /\ g[3] = Then(g[2], q[3])
        /\ g[4] = Then(g[3], q[4]) /\ g[5] = Then(g[4], q[5]) /\ g[6] = Then(g[5], q[6])
        /\ g[7] = Then(g[6], q[7])
    BY <2>1
  <2> QED
    BY <1>1, <2>2 DEF Then
<1>6. Upload!identifier(s) = g[7]
  BY <1>1, <1>2 DEF Upload!identifier, q, g
<1> QED
  BY <1>5, <1>6 DEF a1, a2, a3, a4, a5, a6, a7

\* A sequence of n elements of S.
Long(x, n, S) == x \in Seq(S) /\ Len(x) = n

\* y comes after x.
Then(x, y) == x \o y

\* A sequence that gets one element more.
LEMMA JoinsOne ==
  ASSUME NEW S, NEW n \in Nat, NEW x, NEW y, Long(x, n, S), Long(y, 1, S)
  PROVE  /\ Long(Then(x, y), n + 1, S)
         /\ \A i \in 1..n : Then(x, y)[i] = x[i]
         /\ Then(x, y)[n + 1] = y[1]
<1> DEFINE z == Then(x, y)
<1>1. Len(x) = n /\ Len(y) = 1
  BY DEF Long
<1>2. /\ z \in Seq(S)
      /\ Len(z) = Len(x) + Len(y)
      /\ \A i \in 1..(Len(x) + Len(y)) : z[i] = IF i <= Len(x) THEN x[i] ELSE y[i - Len(x)]
  BY ConcatProperties DEF Long, Then
<1> HIDE DEF z
<1>3. Len(z) = n + 1
  BY <1>1, <1>2
<1>4. \A i \in 1..(n + 1) : z[i] = IF i <= n THEN x[i] ELSE y[i - n]
  BY <1>1, <1>2
<1>5. (\A i \in 1..n : z[i] = x[i]) /\ z[n + 1] = y[1]
  BY <1>4
<1>6. Long(z, n + 1, S)
  BY <1>2, <1>3 DEF Long
<1> QED
  BY <1>5, <1>6 DEF z

\* Seven values of one word each make seven parts.
LEMMA SevenParts ==
  ASSUME NEW s, \A k \in Upload!Key : Long(s[k], 1, Word)
  PROVE  /\ Long(Upload!identifier(s), 7, Word)
         /\ \A i \in 1..7 : Upload!identifier(s)[i] = s[Upload!namingSegments[i]][1]
<1> DEFINE a1 == s["Project"]
           a2 == s["Originator"]
           a3 == s["Volume"]
           a4 == s["Level"]
           a5 == s["Type"]
           a6 == s["Role"]
           a7 == s["Number"]
           b2 == Then(a1, a2)
           b3 == Then(b2, a3)
           b4 == Then(b3, a4)
           b5 == Then(b4, a5)
           b6 == Then(b5, a6)
           b7 == Then(b6, a7)
<1>1. /\ Long(a1, 1, Word) /\ Long(a2, 1, Word) /\ Long(a3, 1, Word) /\ Long(a4, 1, Word)
      /\ Long(a5, 1, Word) /\ Long(a6, 1, Word) /\ Long(a7, 1, Word)
  BY FormKeys
<1>2. Upload!identifier(s) = b7
  BY IdentifierJoins, Zenon DEF Then
<1>a. ASSUME NEW n \in Nat, NEW x, NEW y, Long(x, n, Word), Long(y, 1, Word)
      PROVE  /\ Long(Then(x, y), n + 1, Word)
             /\ \A i \in 1..n : Then(x, y)[i] = x[i]
             /\ Then(x, y)[n + 1] = y[1]
  BY <1>a, JoinsOne
<1> HIDE DEF a1, a2, a3, a4, a5, a6, a7
<1>3. Long(b2, 2, Word) /\ b2[1] = a1[1] /\ b2[2] = a2[1]
  BY <1>1, <1>a
<1> HIDE DEF b2
<1>4. Long(b3, 3, Word) /\ b3[1] = a1[1] /\ b3[2] = a2[1] /\ b3[3] = a3[1]
  BY <1>1, <1>a, <1>3
<1> HIDE DEF b3
<1>5. /\ Long(b4, 4, Word)
      /\ b4[1] = a1[1] /\ b4[2] = a2[1] /\ b4[3] = a3[1] /\ b4[4] = a4[1]
  BY <1>1, <1>a, <1>4
<1> HIDE DEF b4
<1>6. /\ Long(b5, 5, Word)
      /\ b5[1] = a1[1] /\ b5[2] = a2[1] /\ b5[3] = a3[1] /\ b5[4] = a4[1] /\ b5[5] = a5[1]
  BY <1>1, <1>a, <1>5
<1> HIDE DEF b5
<1>7. /\ Long(b6, 6, Word)
      /\ b6[1] = a1[1] /\ b6[2] = a2[1] /\ b6[3] = a3[1] /\ b6[4] = a4[1] /\ b6[5] = a5[1] /\ b6[6] = a6[1]
  BY <1>1, <1>a, <1>6
<1> HIDE DEF b6
<1>8. /\ Long(b7, 7, Word)
      /\ b7[1] = a1[1] /\ b7[2] = a2[1] /\ b7[3] = a3[1] /\ b7[4] = a4[1] /\ b7[5] = a5[1] /\ b7[6] = a6[1] /\ b7[7] = a7[1]
  BY <1>1, <1>a, <1>7
<1> HIDE DEF b7
<1>9. \A i \in 1..7 : b7[i] = s[Upload!namingSegments[i]][1]
  BY <1>8 DEF Upload!namingSegments, a1, a2, a3, a4, a5, a6, a7
<1> QED
  BY <1>2, <1>8, <1>9

\* The segments of the default rule of the server.
Annex == Upload!Server!_default_iso19650_rule.segments

\* Which of them are required.
LEMMA AnnexSegments ==
  /\ Len(Annex) = 7 /\ DOMAIN Annex = 1..7
  /\ \A i \in 1..7 : i \notin {3, 4} => Annex[i].required
<1>1. Len(Annex) = 7 /\ DOMAIN Annex = 1..7
  BY DEF Annex, Upload!Server!_default_iso19650_rule
<1>2. /\ Annex[1].required /\ Annex[2].required
      /\ Annex[5].required /\ Annex[6].required /\ Annex[7].required
  BY DEF Annex, Upload!Server!_default_iso19650_rule, Upload!Server!Seg
<1> QED
  BY <1>1, <1>2

\* From each position on, no more segments are required than there are.
LEMMA AnnexRequired ==
  \A k \in 1..8 : Upload!Server!RequiredFrom(Annex, k) \in 0..(8 - k)
<1> SUFFICES ASSUME NEW k \in 1..8
             PROVE  Upload!Server!RequiredFrom(Annex, k) \in 0..(8 - k)
  OBVIOUS
<1> DEFINE required == { i \in k..7 : Annex[i].required }
<1>1. IsFiniteSet(k..7) /\ Cardinality(k..7) = 8 - k
  BY FS_Interval
<1>2. IsFiniteSet(required) /\ Cardinality(required) <= Cardinality(k..7)
  <2>1. required \in SUBSET (k..7)
    OBVIOUS
  <2> HIDE DEF required
  <2> QED
    BY <1>1, <2>1, FS_Subset
<1>3. Cardinality(required) \in Nat
  BY <1>2, FS_CardinalityType
<1>4. Upload!Server!RequiredFrom(Annex, k) = Cardinality(required)
  <2>1. k..Len(Annex) = k..7
    BY AnnexSegments
  <2>2. Upload!Server!Cardinality(required) = Cardinality(required)
    BY Zenon DEF Upload!Server!Cardinality, Cardinality
  <2> QED
    BY <2>1, <2>2 DEF Upload!Server!RequiredFrom
<1> HIDE DEF required
<1> QED
  BY <1>1, <1>2, <1>3, <1>4

\* Of seven parts, each segment takes its own.
LEMMA AnnexTakesSeven ==
  \A i \in 0..7 : Upload!Server!PartIdx(Annex, 7)[i] = i
<1> DEFINE Adv(i, used) ==
             IF 7 - used > 0
                /\ (Annex[i].required \/ 7 - used > Upload!Server!RequiredFrom(Annex, i + 1))
             THEN used + 1 ELSE used
           Scan(f) == [i \in 0..Len(Annex) |-> IF i = 0 THEN 0 ELSE Adv(i, f[i - 1])]
           idx == CHOOSE f : f = Scan(f)
<1>1. Upload!Server!PartIdx(Annex, 7) = idx
  BY DEF Upload!Server!PartIdx
<1>2. \A i \in 1..7 : Adv(i, i - 1) = i
  <2>1. \A i \in 1..7 : Upload!Server!RequiredFrom(Annex, i + 1) \in 0..(7 - i)
    BY AnnexRequired
  <2> QED
    BY <2>1
<1> HIDE DEF Adv
<1>3. idx = Scan(idx)
  <2> DEFINE f == [i \in 0..7 |-> i]
  <2>1. \A i \in 0..7 : f[i] = IF i = 0 THEN 0 ELSE Adv(i, f[i - 1])
    BY <1>2
  <2>2. f = [i \in 0..7 |-> f[i]]
    OBVIOUS
  <2> HIDE DEF f
  <2>3. f = [i \in 0..7 |-> IF i = 0 THEN 0 ELSE Adv(i, f[i - 1])]
    BY <2>1, <2>2
  <2>4. f = Scan(f)
    BY <2>3, AnnexSegments
  <2> QED
    BY <2>4
<1> DEFINE g == idx
<1>4. g = Scan(g)
  BY <1>3
<1> HIDE DEF idx, g
<1>5. g[0] = 0 /\ \A i \in 1..7 : g[i] = Adv(i, g[i - 1])
  BY <1>4, AnnexSegments
<1>6. /\ g[1] = Adv(1, g[0]) /\ g[2] = Adv(2, g[1]) /\ g[3] = Adv(3, g[2]) /\ g[4] = Adv(4, g[3])
      /\ g[5] = Adv(5, g[4]) /\ g[6] = Adv(6, g[5]) /\ g[7] = Adv(7, g[6])
  BY <1>5
<1>7. /\ Adv(1, 0) = 1 /\ Adv(2, 1) = 2 /\ Adv(3, 2) = 3 /\ Adv(4, 3) = 4
      /\ Adv(5, 4) = 5 /\ Adv(6, 5) = 6 /\ Adv(7, 6) = 7
  BY <1>2
<1>8. \A i \in 0..7 : g[i] = i
  BY <1>5, <1>6, <1>7
<1> QED
  BY <1>1, <1>8 DEF g

\* A word that a segment of the default rule has nothing against.
Fits(i, w) == Upload!Server!SegmentIssues(Annex[i], w) = {}

\* Which words these are.
LEMMA FitsSegments ==
  ASSUME NEW w \in Word
  PROVE  /\ w.length \in 2..6 /\ w.chars \in {"upper", "digit", "alnum"} =>
              Fits(1, w) /\ Fits(2, w) /\ Fits(3, w) /\ Fits(4, w)
         /\ w.length \in 2..4 /\ w.text \in Upload!Server!TypeCode => Fits(5, w)
         /\ w.length \in 1..4 /\ w.chars = "upper" => Fits(6, w)
         /\ w.length \in 4..6 /\ w.chars = "digit" => Fits(7, w)
<1> DEFINE upper4 == { x \in Upload!Server!OfClass({"upper"}) : x.length <= 4 }
<1>1. /\ Annex[1] = Upload!Server!Seg(TRUE, 2, 20, {}, Upload!Server!UpperAlnum)
      /\ Annex[2] = Upload!Server!Seg(TRUE, 2, 10, {}, Upload!Server!UpperAlnum)
      /\ Annex[3] = Upload!Server!Seg(FALSE, 0, 6, {}, Upload!Server!UpperAlnum)
      /\ Annex[4] = Upload!Server!Seg(FALSE, 0, 6, {}, Upload!Server!UpperAlnum)
      /\ Annex[5] = Upload!Server!Seg(TRUE, 2, 4, Upload!Server!TypeCode, Word)
      /\ Annex[6] = Upload!Server!Seg(TRUE, 0, 4, {}, upper4)
      /\ Annex[7] = Upload!Server!Seg(TRUE, 4, 6, {}, Upload!Server!OfClass({"digit"}))
  BY DEF Annex, Upload!Server!_default_iso19650_rule
<1> HIDE DEF upper4
<1>2. w.length \in Nat
  BY UploadAssumption
<1>3. ASSUME w.length \in 2..6, w.chars \in {"upper", "digit", "alnum"}
      PROVE  Fits(1, w) /\ Fits(2, w) /\ Fits(3, w) /\ Fits(4, w)
  <2>1. w \in Upload!Server!UpperAlnum
    BY <1>3 DEF Upload!Server!UpperAlnum, Upload!Server!OfClass
  <2> QED
    BY <1>1, <1>3, <2>1 DEF Fits, Upload!Server!SegmentIssues, Upload!Server!Seg
<1>4. ASSUME w.length \in 2..4, w.text \in Upload!Server!TypeCode
      PROVE  Fits(5, w)
  BY <1>1, <1>4 DEF Fits, Upload!Server!SegmentIssues, Upload!Server!Seg
<1>5. ASSUME w.length \in 1..4, w.chars = "upper"
      PROVE  Fits(6, w)
  <2>1. w \in upper4
    BY <1>5 DEF upper4, Upload!Server!OfClass
  <2> QED
    BY <1>1, <1>5, <2>1 DEF Fits, Upload!Server!SegmentIssues, Upload!Server!Seg
<1>6. ASSUME w.length \in 4..6, w.chars = "digit"
      PROVE  Fits(7, w)
  <2>1. w \in Upload!Server!OfClass({"digit"})
    BY <1>6 DEF Upload!Server!OfClass
  <2> QED
    BY <1>1, <1>6, <2>1 DEF Fits, Upload!Server!SegmentIssues, Upload!Server!Seg
<1> QED
  BY <1>3, <1>4, <1>5, <1>6

\* Seven words that fit are compliant.
LEMMA FittingIsCompliant ==
  ASSUME Long(Upload!identifier(ui.segments), 7, Word),
         \A i \in 1..7 : Fits(i, Upload!identifier(ui.segments)[i])
  PROVE  Upload!Server!validate_identifier(Upload!identifier(ui.segments),
                                           Upload!Server!_default_iso19650_rule) = "compliant"
<1> DEFINE p == Upload!identifier(ui.segments)
           rule == Upload!Server!_default_iso19650_rule
           idx == Upload!Server!PartIdx(Annex, Len(p))
           taken == { i \in DOMAIN Annex : idx[i] > idx[i - 1] }
           missing == { i \in DOMAIN Annex \ taken : Annex[i].required }
           issues == (UNION { Upload!Server!SegmentIssues(Annex[i], p[idx[i]]) : i \in taken })
                       \cup { l \in {"non_compliant"} : missing # {} }
<1>1. Upload!Server!validate_identifier(p, rule) =
        IF Len(p) < Upload!Server!RequiredFrom(Annex, 1) THEN "non_compliant"
        ELSE Upload!Server!Verdict(issues)
  <2>1. [i \in {p} |-> [t \in {"-"} |-> i]][p][rule.separator] = p
    BY DEF rule, Upload!Server!_default_iso19650_rule
  <2> HIDE DEF p
  <2> QED
    BY <2>1, Zenon DEF Upload!Server!validate_identifier, Annex, p
<1>2. Len(p) = 7
  BY DEF Long
<1>3. ~(Len(p) < Upload!Server!RequiredFrom(Annex, 1))
  BY <1>2, AnnexRequired
<1>4. \A i \in 0..7 : idx[i] = i
  BY <1>2, AnnexTakesSeven
<1> HIDE DEF p, idx
<1>5. taken = 1..7
  BY <1>4, AnnexSegments
<1>6. missing = {}
  BY <1>5, AnnexSegments
<1>7. \A i \in taken : Upload!Server!SegmentIssues(Annex[i], p[idx[i]]) = {}
  BY <1>4, <1>5 DEF Fits, p
<1> HIDE DEF taken, missing
<1>8. issues = {}
  BY <1>6, <1>7
<1> QED
  BY <1>1, <1>3, <1>8 DEF Upload!Server!Verdict, p

\* What a value is that the form lets pass, and what the server has against it.
LEMMA PassingFits ==
  ASSUME Upload!SegmentsInv, Upload!overall(ui.segments) = "pass",
         ui.segments["Type"][1].text \in Upload!Server!TypeCode
  PROVE  \A i \in 1..7 : /\ Long(ui.segments[Upload!namingSegments[i]], 1, Word)
                         /\ Fits(i, ui.segments[Upload!namingSegments[i]][1])
<1> DEFINE s == ui.segments
<1>1. \A k \in Upload!Key : s[k] \in Seq(Word)
  BY DEF Upload!SegmentsInv
<1>2. \A k \in Upload!Key : Upload!Matches(k, s[k])
  <2>1. \A k \in Upload!Key : Upload!validateSegment(k, s[k]) \in {"pass", "warn", "fail"}
    BY Zenon DEF Upload!validateSegment
  <2>2. \A k \in Upload!Key : Upload!validateSegment(k, s[k]) = "pass"
    BY <2>1, Zenon DEF Upload!overall
  <2> QED
    BY <2>2, Zenon DEF Upload!validateSegment
<1>3. s["Project"] = InitialSegments["Project"]
  BY DEF Upload!SegmentsInv
<1> HIDE DEF s
<1>4. ASSUME NEW v \in Seq(Word), Len(v) = 1
      PROVE  Long(v, 1, Word) /\ v[1] \in Word
  <2>1. Long(v, 1, Word)
    BY <1>4 DEF Long
  <2>2. v[1] \in Word
    BY <1>4, ElementOfSeq
  <2> QED
    BY <2>1, <2>2
<1>5. Long(s["Project"], 1, Word) /\ Fits(1, s["Project"][1])
  <2>1. Upload!OneWord(s["Project"], 3, {"upper", "digit", "alnum"})
    BY <1>3, UploadAssumption
  <2> QED
    BY <1>1, <1>4, <2>1, FormKeys, FitsSegments DEF Upload!OneWord
<1>6. Long(s["Originator"], 1, Word) /\ Fits(2, s["Originator"][1])
  <2>1. Upload!OneWord(s["Originator"], 3, {"upper"})
    BY <1>2, FormKeys DEF Upload!Matches
  <2> QED
    BY <1>1, <1>4, <2>1, FormKeys, FitsSegments DEF Upload!OneWord
<1>7. Long(s["Volume"], 1, Word) /\ Fits(3, s["Volume"][1])
  <2>1. Upload!OneWord(s["Volume"], 2, {"upper", "digit", "alnum"})
    BY <1>2, FormKeys DEF Upload!Matches
  <2> QED
    BY <1>1, <1>4, <2>1, FormKeys, FitsSegments DEF Upload!OneWord
<1>8. Long(s["Level"], 1, Word) /\ Fits(4, s["Level"][1])
  <2>1. CASE Upload!OneWord(s["Level"], 2, {"digit"})
    BY <1>1, <1>4, <2>1, FormKeys, FitsSegments DEF Upload!OneWord
  <2>2. CASE Upload!Listed(s["Level"], {"B#", "XX", "ZZ"})
    BY <1>1, <1>4, <2>2, FormKeys, FitsSegments, UploadAssumption DEF Upload!Listed
  <2> QED
    BY <1>2, <2>1, <2>2, FormKeys DEF Upload!Matches
<1>9. Long(s["Type"], 1, Word) /\ Fits(5, s["Type"][1])
  <2>1. Upload!Listed(s["Type"], Upload!allowed["Type"])
    BY <1>2, FormKeys DEF Upload!Matches
  <2>2. s["Type"][1] \in Word /\ Long(s["Type"], 1, Word)
    BY <1>1, <1>4, <2>1, FormKeys DEF Upload!Listed
  <2>3. s["Type"][1].length = 2
    BY <2>1, <2>2, UploadAssumption DEF Upload!Listed
  <2>4. s["Type"][1].text \in Upload!Server!TypeCode
    BY DEF s
  <2> QED
    BY <2>2, <2>3, <2>4, FitsSegments
<1>10. Long(s["Role"], 1, Word) /\ Fits(6, s["Role"][1])
  <2>1. Upload!Listed(s["Role"], Upload!allowed["Role"])
    BY <1>2, FormKeys DEF Upload!Matches
  <2> QED
    BY <1>1, <1>4, <2>1, FormKeys, FitsSegments, UploadAssumption DEF Upload!Listed
<1>11. Long(s["Number"], 1, Word) /\ Fits(7, s["Number"][1])
  <2>1. Upload!OneWord(s["Number"], 4, {"digit"})
    BY <1>2, FormKeys DEF Upload!Matches
  <2> QED
    BY <1>1, <1>4, <2>1, FormKeys, FitsSegments DEF Upload!OneWord
<1> QED
  BY <1>5, <1>6, <1>7, <1>8, <1>9, <1>10, <1>11 DEF Upload!namingSegments, s

\* The two judges agree on a form whose segments are words.
LEMMA PassingIsCompliant == Upload!SegmentsInv => Upload!OnlyTypesDiffer
<1> SUFFICES ASSUME Upload!SegmentsInv, Upload!overall(ui.segments) = "pass",
                    ui.segments["Type"][1].text \in Upload!Server!TypeCode
             PROVE  Upload!Server!validate_identifier(Upload!identifier(ui.segments),
                      Upload!Server!_default_iso19650_rule) = "compliant"
  BY DEF Upload!OnlyTypesDiffer
<1>1. \A i \in 1..7 : /\ Long(ui.segments[Upload!namingSegments[i]], 1, Word)
                      /\ Fits(i, ui.segments[Upload!namingSegments[i]][1])
  BY PassingFits
<1>2. \A k \in Upload!Key : \E i \in 1..7 : k = Upload!namingSegments[i]
  BY FormKeys DEF Upload!namingSegments
<1>3. \A k \in Upload!Key : Long(ui.segments[k], 1, Word)
  BY <1>1, <1>2, Zenon
<1>4. /\ Long(Upload!identifier(ui.segments), 7, Word)
      /\ \A i \in 1..7 : Upload!identifier(ui.segments)[i] = ui.segments[Upload!namingSegments[i]][1]
  BY <1>3, SevenParts, Zenon
<1>5. \A i \in 1..7 : Fits(i, Upload!identifier(ui.segments)[i])
  BY <1>1, <1>4
<1> QED
  BY <1>4, <1>5, FittingIsCompliant

\* Both pages start with words.
LEMMA SegmentsInit == Upload!Init \/ Builder!Init => Upload!SegmentsInv
BY UploadAssumption
DEF Upload!Init, Builder!Init, Upload!Fresh, Builder!Fresh, Upload!SegmentsInv, Upload!UiWhole

\* A step that leaves the segments alone.
LEMMA SegmentsKept ==
  ASSUME Upload!SegmentsInv, Upload!UiWhole', ui'.segments = ui.segments
  PROVE  Upload!SegmentsInv'
BY DEF Upload!SegmentsInv

\* A value is entered.
LEMMA SegmentsEntered ==
  ASSUME Upload!SegmentsInv, NEW key \in Upload!Key, key # "Project", NEW value \in Seq(Word),
         ui' = [ui EXCEPT !.segments[key] = value]
  PROVE  Upload!SegmentsInv'
<1>1. ui' = [segments |-> [ui.segments EXCEPT ![key] = value], title |-> ui.title, file |-> ui.file,
             done |-> ui.done, createdContainerId |-> ui.createdContainerId]
  BY DEF Upload!SegmentsInv, Upload!UiWhole
<1>2. Upload!UiWhole'
  BY <1>1 DEF Upload!UiWhole
<1>3. [ui.segments EXCEPT ![key] = value] \in [Upload!Key -> Seq(Word)]
  BY DEF Upload!SegmentsInv
<1>4. [ui.segments EXCEPT ![key] = value]["Project"] = ui.segments["Project"]
  BY FormKeys DEF Upload!SegmentsInv
<1> QED
  BY <1>1, <1>2, <1>3, <1>4 DEF Upload!SegmentsInv

\* The page is left and opened again.
LEMMA SegmentsFresh ==
  ASSUME ui' = Upload!Fresh
  PROVE  Upload!SegmentsInv'
BY UploadAssumption DEF Upload!Fresh, Upload!SegmentsInv, Upload!UiWhole

\* Every step of the upload page keeps the segments words.
LEMMA UploadSegmentsStep ==
  Upload!SegmentsInv /\ [Upload!Next]_(Upload!vars) => Upload!SegmentsInv'
<1> SUFFICES ASSUME Upload!SegmentsInv, [Upload!Next]_(Upload!vars)
             PROVE  Upload!SegmentsInv'
  OBVIOUS
<1>1. ASSUME NEW key \in Upload!Key, NEW value \in SubmitInput[key], Upload!SetSegment(key, value)
      PROVE  Upload!SegmentsInv'
  BY <1>1, UploadAssumption, SegmentsEntered DEF Upload!SetSegment
<1>2. ASSUME NEW title \in BOOLEAN, Upload!SetTitle(title)
      PROVE  Upload!SegmentsInv'
  BY <1>2, SegmentsKept DEF Upload!SetTitle, Upload!SegmentsInv, Upload!UiWhole
<1>3. ASSUME NEW file, Upload!SetFile(file)
      PROVE  Upload!SegmentsInv'
  BY <1>3, SegmentsKept DEF Upload!SetFile, Upload!SegmentsInv, Upload!UiWhole
<1>4. CASE Upload!Continue
  BY <1>4, SegmentsKept DEF Upload!Continue, Upload!SegmentsInv, Upload!UiWhole
<1>5. CASE Upload!Remount
  BY <1>5, SegmentsFresh DEF Upload!Remount
<1>6. ASSUME NEW c, Upload!Succeeded(c)
      PROVE  Upload!SegmentsInv'
  BY <1>6, SegmentsKept DEF Upload!Succeeded, Upload!SegmentsInv, Upload!UiWhole
<1>7. CASE UNCHANGED ui
  BY <1>7, SegmentsKept DEF Upload!SegmentsInv, Upload!UiWhole
<1>8. Upload!HandleSubmit => UNCHANGED ui
  BY DEF Upload!HandleSubmit
<1>9. ASSUME NEW c
      PROVE  Upload!ServeCreate(c) \/ Upload!SendUpload(c) \/ Upload!ServeUpload(c) \/ Upload!Lose(c)
               \/ Upload!Failed(c) => UNCHANGED ui
  BY DEF Upload!ServeCreate, Upload!SendUpload, Upload!ServeUpload, Upload!Lose, Upload!Failed
<1> QED
  BY <1>1, <1>2, <1>3, <1>4, <1>5, <1>6, <1>7, <1>8, <1>9 DEF Upload!Next, Upload!vars

\* Every step of the builder keeps the segments words.
LEMMA BuilderSegmentsStep ==
  Upload!SegmentsInv /\ [Builder!Next]_(Builder!vars) => Upload!SegmentsInv'
<1> SUFFICES ASSUME Upload!SegmentsInv, [Builder!Next]_(Builder!vars)
             PROVE  Upload!SegmentsInv'
  OBVIOUS
<1>1. ASSUME NEW key \in Builder!Key, NEW value \in JudgeInput[key], Builder!SetSegment(key, value)
      PROVE  Upload!SegmentsInv'
  BY <1>1, FormKeys, UploadAssumption, SegmentsEntered DEF Builder!SetSegment
<1>2. ASSUME NEW title \in BOOLEAN, Builder!SetTitle(title)
      PROVE  Upload!SegmentsInv'
  BY <1>2, SegmentsKept DEF Builder!SetTitle, Upload!SegmentsInv, Upload!UiWhole
<1>3. ASSUME NEW file, Builder!SetFile(file)
      PROVE  Upload!SegmentsInv'
  BY <1>3, SegmentsKept DEF Builder!SetFile, Upload!SegmentsInv, Upload!UiWhole
<1>4. CASE Builder!Continue
  BY <1>4, SegmentsKept DEF Builder!Continue, Upload!SegmentsInv, Upload!UiWhole
<1>5. CASE Builder!Remount
  BY <1>5, SegmentsFresh DEF Builder!Remount, Builder!Fresh, Upload!Fresh, Builder!None, Upload!None
<1>6. ASSUME NEW c, Builder!Succeeded(c)
      PROVE  Upload!SegmentsInv'
  BY <1>6, SegmentsKept DEF Builder!Succeeded, Upload!SegmentsInv, Upload!UiWhole
<1>7. CASE UNCHANGED ui
  BY <1>7, SegmentsKept DEF Upload!SegmentsInv, Upload!UiWhole
<1>8. Builder!HandleSubmit => UNCHANGED ui
  BY DEF Builder!HandleSubmit
<1>9. ASSUME NEW c
      PROVE  Builder!ServeCreate(c) \/ Builder!SendUpload(c) \/ Builder!ServeUpload(c) \/ Builder!Lose(c)
               \/ Builder!Failed(c) => UNCHANGED ui
  BY DEF Builder!ServeCreate, Builder!SendUpload, Builder!ServeUpload, Builder!Lose, Builder!Failed
<1> QED
  BY <1>1, <1>2, <1>3, <1>4, <1>5, <1>6, <1>7, <1>8, <1>9 DEF Builder!Next, Builder!vars

-----------------------------------------------------------------------------
(* The types of the two pages.                                             *)

\* The identifier of a form that holds words is one.
LEMMA IdentifierTyped ==
  ASSUME Upload!SegmentsInv
  PROVE  Upload!identifier(ui.segments) \in Seq(Word)
<1> DEFINE s == ui.segments
           a1 == s["Project"]
           a2 == s["Originator"]
           a3 == s["Volume"]
           a4 == s["Level"]
           a5 == s["Type"]
           a6 == s["Role"]
           a7 == s["Number"]
<1>1. /\ a1 \in Seq(Word) /\ a2 \in Seq(Word) /\ a3 \in Seq(Word) /\ a4 \in Seq(Word)
      /\ a5 \in Seq(Word) /\ a6 \in Seq(Word) /\ a7 \in Seq(Word)
  BY FormKeys DEF Upload!SegmentsInv
<1>2. Upload!identifier(s) = Then(Then(Then(Then(Then(Then(a1, a2), a3), a4), a5), a6), a7)
  BY IdentifierJoins, Zenon DEF Then
<1>3. ASSUME NEW x \in Seq(Word), NEW y \in Seq(Word)
      PROVE  Then(x, y) \in Seq(Word)
  BY ConcatProperties DEF Then
<1> HIDE DEF a1, a2, a3, a4, a5, a6, a7
<1>4. Then(a1, a2) \in Seq(Word)
  BY <1>1, <1>3
<1>5. Then(Then(a1, a2), a3) \in Seq(Word)
  BY <1>1, <1>3, <1>4
<1>6. Then(Then(Then(a1, a2), a3), a4) \in Seq(Word)
  BY <1>1, <1>3, <1>5
<1>7. Then(Then(Then(Then(a1, a2), a3), a4), a5) \in Seq(Word)
  BY <1>1, <1>3, <1>6
<1>8. Then(Then(Then(Then(Then(a1, a2), a3), a4), a5), a6) \in Seq(Word)
  BY <1>1, <1>3, <1>7
<1>9. Then(Then(Then(Then(Then(Then(a1, a2), a3), a4), a5), a6), a7) \in Seq(Word)
  BY <1>1, <1>3, <1>8
<1> QED
  BY <1>2, <1>9

\* The form holds what can be typed or chosen.
UploadUiTyped ==
  /\ DOMAIN ui.segments = Upload!Key
  /\ \A k \in Upload!Key : ui.segments[k] \in SubmitInput[k] \cup {InitialSegments[k]}
  /\ ui.title \in BOOLEAN /\ ui.done \in BOOLEAN
  /\ ui.file \in UploadFile \cup {Upload!None} /\ ui.createdContainerId \in 0..MaxRows

\* A submission has the identifier and the file of the form that was clicked.
UploadCall(c) ==
  /\ c.step \in {"create", "created", "upload", "uploaded", "failed"}
  /\ c.file \in UploadFile /\ c.id \in 0..MaxRows /\ c.mounted \in BOOLEAN
  /\ c.identifier \in Seq(Word)

UploadCallsTyped == \A c \in calls : UploadCall(c)

UploadDbTyped ==
  /\ Len(db) <= MaxRows
  /\ \A i \in DOMAIN db :
       db[i].file \in UploadFile \cup {Upload!None} /\ db[i].submitted \in UploadFile

UploadTyped == UploadUiTyped /\ UploadCallsTyped /\ UploadDbTyped

\* A submission goes to another step.
LEMMA UploadGotoTyped ==
  ASSUME Upload!UploadInv, UploadCallsTyped, NEW c \in calls, Upload!Goto(c, "failed")
           \/ Upload!Goto(c, "upload") \/ Upload!Goto(c, "uploaded")
  PROVE  UploadCallsTyped'
<1>1. PICK step \in {"failed", "upload", "uploaded"} :
        calls' = (calls \ {c}) \cup {[c EXCEPT !.step = step]}
  BY DEF Upload!Goto
<1>2. UploadCall([c EXCEPT !.step = step])
  BY DEF UploadCallsTyped, UploadCall, Upload!UploadInv, Upload!CallsInv, Upload!CallInv, Upload!Whole
<1>3. \A d \in calls' : UploadCall(d)
  BY <1>1, <1>2, Zenon DEF UploadCallsTyped
<1> QED
  BY <1>3 DEF UploadCallsTyped, UploadCall

\* The form is edited.
LEMMA UploadEditTyped ==
  ASSUME Upload!UploadInv, UploadUiTyped,
         \/ \E key \in Upload!Key : \E value \in SubmitInput[key] : Upload!SetSegment(key, value)
         \/ \E title \in BOOLEAN : Upload!SetTitle(title)
         \/ \E file \in UploadFile \cup {Upload!None} : Upload!SetFile(file)
         \/ Upload!Continue
  PROVE  UploadUiTyped'
<1>1. Upload!UiWhole
  BY DEF Upload!UploadInv
<1>2. ASSUME NEW key \in Upload!Key, NEW value \in SubmitInput[key], Upload!SetSegment(key, value)
      PROVE  UploadUiTyped'
  <2> DEFINE segments == [ui.segments EXCEPT ![key] = value]
  <2>1. ui' = [segments |-> segments, title |-> ui.title, file |-> ui.file, done |-> ui.done,
               createdContainerId |-> ui.createdContainerId]
    BY <1>1, <1>2 DEF Upload!SetSegment, Upload!UiWhole
  <2>2. /\ DOMAIN segments = Upload!Key
        /\ \A k \in Upload!Key : segments[k] \in SubmitInput[k] \cup {InitialSegments[k]}
    BY DEF UploadUiTyped
  <2> HIDE DEF segments
  <2> QED
    BY <2>1, <2>2 DEF UploadUiTyped
<1>3. ASSUME NEW title \in BOOLEAN, Upload!SetTitle(title)
      PROVE  UploadUiTyped'
  BY <1>1, <1>3 DEF Upload!SetTitle, Upload!UiWhole, UploadUiTyped
<1>4. ASSUME NEW file \in UploadFile \cup {Upload!None}, Upload!SetFile(file)
      PROVE  UploadUiTyped'
  BY <1>1, <1>4 DEF Upload!SetFile, Upload!UiWhole, UploadUiTyped
<1>5. CASE Upload!Continue
  BY <1>1, <1>5 DEF Upload!Continue, Upload!UiWhole, UploadUiTyped
<1> QED
  BY <1>2, <1>3, <1>4, <1>5

\* The form is submitted.
LEMMA UploadSubmitTyped ==
  ASSUME Upload!SegmentsInv, UploadUiTyped, UploadCallsTyped, Upload!HandleSubmit
  PROVE  UploadCallsTyped'
<1> DEFINE c == [step |-> "create", identifier |-> Upload!identifier(ui.segments),
                 file |-> ui.file, id |-> 0, mounted |-> TRUE]
<1>1. calls' = calls \cup {c} /\ ui.file # Upload!None
  BY DEF Upload!HandleSubmit, Upload!Ready
<1>2. UploadCall(c)
  BY <1>1, IdentifierTyped, UploadAssumption DEF UploadCall, UploadUiTyped
<1> HIDE DEF c
<1> QED
  BY <1>1, <1>2 DEF UploadCallsTyped, UploadCall

\* The page is left and opened again.
LEMMA UploadRemountTyped ==
  ASSUME Upload!UploadInv, UploadCallsTyped, Upload!Remount
  PROVE  UploadUiTyped' /\ UploadCallsTyped'
<1> DEFINE left == { [c EXCEPT !.mounted = FALSE] : c \in calls }
<1>1. ASSUME NEW c \in calls
      PROVE  UploadCall([c EXCEPT !.mounted = FALSE])
  BY DEF UploadCallsTyped, UploadCall, Upload!UploadInv, Upload!CallsInv, Upload!CallInv, Upload!Whole
<1>2. \A c \in left : UploadCall(c)
  BY <1>1, Zenon
<1>3. calls' = left /\ ui' = Upload!Fresh
  BY DEF Upload!Remount
<1> HIDE DEF left
<1>4. UploadCallsTyped'
  BY <1>2, <1>3 DEF UploadCallsTyped, UploadCall
<1>5. UploadUiTyped'
  BY <1>3, UploadAssumption DEF Upload!Fresh, UploadUiTyped
<1> QED
  BY <1>4, <1>5

\* The server creates the container of a submission.
LEMMA UploadServeCreateTyped ==
  ASSUME Upload!UploadInv, UploadCallsTyped, UploadDbTyped, NEW c \in calls, Upload!ServeCreate(c)
  PROVE  UploadCallsTyped' /\ UploadDbTyped'
<1>1. CASE Upload!Goto(c, "failed") /\ UNCHANGED db
  BY <1>1, UploadGotoTyped DEF UploadDbTyped
<1>2. CASE ~Upload!Exists(c.identifier)
  <2> DEFINE row == [identifier |-> c.identifier, file |-> Upload!None, submitted |-> c.file]
             n == Len(db) + 1
             d == [c EXCEPT !.step = "created", !.id = n]
  <2>1. db' = Append(db, row) /\ Len(db) < MaxRows /\ Len(db) \in Nat
    BY <1>2 DEF Upload!ServeCreate, Upload!UploadInv, Upload!RowsInv
  <2>2. db \in Seq({ db[i] : i \in DOMAIN db })
    BY DEF Upload!UploadInv, Upload!RowsInv
  <2>3. /\ Len(db') = n /\ DOMAIN db' = 1..n /\ DOMAIN db = 1..Len(db)
        /\ \A i \in DOMAIN db : db'[i] = db[i]
        /\ db'[n] = row
    BY <2>1, <2>2 DEF Upload!UploadInv, Upload!RowsInv
  <2>4. calls' = (calls \ {c}) \cup {d}
    BY <1>2, <2>3 DEF Upload!ServeCreate
  <2>5. n \in 0..MaxRows
    BY <2>1, UploadAssumption
  <2> HIDE DEF n
  <2>6. UploadCall(d) /\ c.file \in UploadFile
    BY <2>5
    DEF UploadCallsTyped, UploadCall, Upload!UploadInv, Upload!CallsInv, Upload!CallInv, Upload!Whole
  <2>7. UploadCallsTyped'
    <3> HIDE DEF d
    <3>1. \A e \in calls' : UploadCall(e)
      BY <2>4, <2>6, Zenon DEF UploadCallsTyped
    <3> QED
      BY <3>1 DEF UploadCallsTyped, UploadCall
  <2>8. \A i \in DOMAIN db' : i = n \/ i \in DOMAIN db
    BY <2>1, <2>3 DEF n
  <2>9. UploadDbTyped'
    BY <2>3, <2>5, <2>6, <2>8 DEF UploadDbTyped
  <2> QED
    BY <2>7, <2>9
<1> QED
  BY <1>1, <1>2 DEF Upload!ServeCreate

\* The server stores the file of a submission.
LEMMA UploadServeUploadTyped ==
  ASSUME Upload!UploadInv, UploadCallsTyped, UploadDbTyped, NEW c \in calls, Upload!ServeUpload(c)
  PROVE  UploadCallsTyped' /\ UploadDbTyped'
<1>1. CASE Upload!Goto(c, "failed") /\ UNCHANGED db
  BY <1>1, UploadGotoTyped DEF UploadDbTyped
<1>2. CASE Upload!Goto(c, "uploaded") /\ db' = [db EXCEPT ![c.id].file = c.file]
  <2> DEFINE row == [db[c.id] EXCEPT !.file = c.file]
  <2>1. db' = [db EXCEPT ![c.id] = row]
    BY <1>2
  <2>2. c.id \in DOMAIN db /\ c.file \in UploadFile
    BY DEF Upload!UploadInv, Upload!CallsInv, Upload!CallInv, Upload!ServeUpload, Upload!Owning,
       UploadCallsTyped, UploadCall
  <2>3. row.file = c.file /\ row.submitted = db[c.id].submitted
    BY <2>2 DEF Upload!UploadInv, Upload!RowsInv, Upload!Row
  <2> HIDE DEF row
  <2>4. DOMAIN db' = DOMAIN db /\ \A i \in DOMAIN db : db'[i] = IF i = c.id THEN row ELSE db[i]
    BY <2>1
  <2>5. Len(db') = Len(db)
    BY <2>4 DEF Upload!UploadInv, Upload!RowsInv
  <2>6. UploadDbTyped'
    BY <2>2, <2>3, <2>4, <2>5 DEF UploadDbTyped
  <2> QED
    BY <1>2, <2>6, UploadGotoTyped
<1> QED
  BY <1>1, <1>2 DEF Upload!ServeUpload

\* The page is told that a submission is done.
LEMMA UploadSucceededTyped ==
  ASSUME Upload!UploadInv, UploadUiTyped, UploadCallsTyped, NEW c \in calls, Upload!Succeeded(c)
  PROVE  UploadUiTyped'
<1>1. CASE ui' = ui
  BY <1>1 DEF UploadUiTyped
<1>2. CASE ui' = [ui EXCEPT !.createdContainerId = c.id, !.done = TRUE]
  BY <1>2 DEF UploadUiTyped, UploadCallsTyped, UploadCall, Upload!UploadInv, Upload!UiWhole
<1> QED
  BY <1>1, <1>2 DEF Upload!Succeeded

\* Every step of the upload page keeps the types.
LEMMA UploadNextTyped ==
  Upload!UploadInv /\ Upload!SegmentsInv /\ UploadTyped /\ [Upload!Next]_(Upload!vars) =>
    UploadTyped'
<1> SUFFICES ASSUME Upload!UploadInv, Upload!SegmentsInv, UploadTyped, [Upload!Next]_(Upload!vars)
             PROVE  UploadTyped'
  OBVIOUS
<1> USE DEF UploadTyped
<1>b. ASSUME UNCHANGED ui PROVE UploadUiTyped'
  BY <1>b DEF UploadUiTyped
<1>d. ASSUME UNCHANGED db PROVE UploadDbTyped'
  BY <1>d DEF UploadDbTyped
<1>e. ASSUME calls' \subseteq calls PROVE UploadCallsTyped'
  BY <1>e DEF UploadCallsTyped, UploadCall
<1>1. ASSUME \/ \E key \in Upload!Key : \E value \in SubmitInput[key] : Upload!SetSegment(key, value)
             \/ \E title \in BOOLEAN : Upload!SetTitle(title)
             \/ \E file \in UploadFile \cup {Upload!None} : Upload!SetFile(file)
             \/ Upload!Continue
      PROVE  UploadTyped'
  <2>1. UNCHANGED <<calls, db>>
    BY <1>1 DEF Upload!SetSegment, Upload!SetTitle, Upload!SetFile, Upload!Continue
  <2> QED
    BY <1>1, <1>d, <1>e, <2>1, UploadEditTyped
<1>2. CASE Upload!HandleSubmit
  BY <1>2, <1>b, <1>d, UploadSubmitTyped DEF Upload!HandleSubmit
<1>3. CASE Upload!Remount
  BY <1>3, <1>d, UploadRemountTyped DEF Upload!Remount
<1>4. ASSUME NEW c \in calls, Upload!ServeCreate(c)
      PROVE  UploadTyped'
  BY <1>4, <1>b, UploadServeCreateTyped DEF Upload!ServeCreate
<1>5. ASSUME NEW c \in calls, Upload!ServeUpload(c)
      PROVE  UploadTyped'
  BY <1>5, <1>b, UploadServeUploadTyped DEF Upload!ServeUpload
<1>6. ASSUME NEW c \in calls, Upload!SendUpload(c) \/ Upload!Lose(c)
      PROVE  UploadTyped'
  BY <1>6, <1>b, <1>d, UploadGotoTyped DEF Upload!SendUpload, Upload!Lose
<1>7. ASSUME NEW c \in calls, Upload!Succeeded(c)
      PROVE  UploadTyped'
  BY <1>7, <1>d, <1>e, UploadSucceededTyped DEF Upload!Succeeded
<1>8. ASSUME NEW c \in calls, Upload!Failed(c)
      PROVE  UploadTyped'
  BY <1>8, <1>b, <1>d, <1>e DEF Upload!Failed
<1>9. CASE UNCHANGED Upload!vars
  BY <1>9, <1>b, <1>d, <1>e DEF Upload!vars
<1> QED
  BY <1>1, <1>2, <1>3, <1>4, <1>5, <1>6, <1>7, <1>8, <1>9 DEF Upload!Next

\* The form that the page starts with.
LEMMA UploadInitTyped == Upload!Init => UploadTyped
BY UploadAssumption
DEF Upload!Init, Upload!Fresh, UploadTyped, UploadUiTyped, UploadCallsTyped, UploadDbTyped

\* This is what the page keeps of its types.
LEMMA UploadTypes == UploadTyped => Upload!TypeOK
BY DEF UploadTyped, UploadUiTyped, UploadCallsTyped, UploadCall, UploadDbTyped, Upload!TypeOK

\* The builder has no file to choose, so that it never sends anything.
BuilderTyped ==
  /\ Upload!UiWhole
  /\ DOMAIN ui.segments = Builder!Key
  /\ \A k \in Builder!Key : ui.segments[k] \in JudgeInput[k] \cup {InitialSegments[k]}
  /\ ui.title \in BOOLEAN /\ ui.done = FALSE
  /\ ui.file = Builder!None /\ ui.createdContainerId = 0
  /\ calls = {} /\ db = <<>>

\* Every step of the builder keeps this.
LEMMA BuilderNextTyped == BuilderTyped /\ [Builder!Next]_(Builder!vars) => BuilderTyped'
<1> SUFFICES ASSUME BuilderTyped, [Builder!Next]_(Builder!vars)
             PROVE  BuilderTyped'
  OBVIOUS
<1> USE DEF BuilderTyped
<1>1. ASSUME NEW key \in Builder!Key, NEW value \in JudgeInput[key], Builder!SetSegment(key, value)
      PROVE  BuilderTyped'
  <2> DEFINE segments == [ui.segments EXCEPT ![key] = value]
  <2>1. ui' = [segments |-> segments, title |-> ui.title, file |-> ui.file, done |-> ui.done,
               createdContainerId |-> ui.createdContainerId]
    BY <1>1 DEF Builder!SetSegment, Upload!UiWhole
  <2>2. /\ DOMAIN segments = Builder!Key
        /\ \A k \in Builder!Key : segments[k] \in JudgeInput[k] \cup {InitialSegments[k]}
    OBVIOUS
  <2> HIDE DEF segments
  <2> QED
    BY <1>1, <2>1, <2>2 DEF Builder!SetSegment, Upload!UiWhole
<1>2. ASSUME NEW title \in BOOLEAN, Builder!SetTitle(title)
      PROVE  BuilderTyped'
  BY <1>2 DEF Builder!SetTitle, Upload!UiWhole
<1>3. ASSUME Builder!SetFile(Builder!None)
      PROVE  BuilderTyped'
  BY <1>3 DEF Builder!SetFile, Upload!UiWhole
<1>4. ~Builder!HandleSubmit /\ ~Builder!Continue
  BY DEF Builder!HandleSubmit, Builder!Ready, Builder!Continue
<1>5. CASE Builder!Remount
  BY <1>5, UploadAssumption, FormKeys DEF Builder!Remount, Builder!Fresh, Upload!UiWhole
<1>6. CASE UNCHANGED Builder!vars
  BY <1>6 DEF Builder!vars, Upload!UiWhole
<1> QED
  BY <1>1, <1>2, <1>3, <1>4, <1>5, <1>6 DEF Builder!Next

\* The form that the builder starts with.
LEMMA BuilderInitTyped == Builder!Init => BuilderTyped
BY UploadAssumption, FormKeys DEF Builder!Init, Builder!Fresh, BuilderTyped, Upload!UiWhole

\* This is what the builder keeps of its types.
LEMMA BuilderTypes == BuilderTyped => Builder!TypeOK
<1> SUFFICES ASSUME BuilderTyped PROVE Builder!TypeOK
  OBVIOUS
<1>1. /\ ui.createdContainerId \in 0..MaxRows /\ Len(db) <= MaxRows
      /\ calls = {} /\ DOMAIN db = {}
  BY UploadAssumption DEF BuilderTyped
<1>2. ui.done \in BOOLEAN /\ ui.file \in {} \cup {Builder!None}
  BY DEF BuilderTyped
<1> QED
  BY <1>1, <1>2 DEF BuilderTyped, Builder!TypeOK

-----------------------------------------------------------------------------
(***************************************************************************)
(* The requirements page                                                   *)
(***************************************************************************)

\* A form that is rendered was loaded from the item of its row.
LEMMA RequirementsRenderLoads ==
  ASSUME NEW u, NEW s, Requirements!UiWhole(u), \A k \in DOMAIN u.forms : u.forms[k] = k
  PROVE  /\ Requirements!UiWhole(Requirements!Render(u, s))
         /\ DOMAIN Requirements!Render(u, s).forms =
              Requirements!EditingRows(Requirements!Render(u, s), s)
         /\ \A k \in DOMAIN Requirements!Render(u, s).forms :
              Requirements!Render(u, s).forms[k] = k
<1> DEFINE rows == Requirements!EditingRows(u, s)
           forms == [k \in { Requirements!FormKey(i, u, s) : i \in rows } |->
                       IF k \in DOMAIN u.forms THEN u.forms[k]
                       ELSE CHOOSE i \in rows : Requirements!FormKey(i, u, s) = k]
           v == [u EXCEPT !.forms = forms]
<1>1. Requirements!Render(u, s) = v
  BY DEF Requirements!Render
<1>2. DOMAIN forms = rows
  BY DEF Requirements!FormKey
<1>3. ASSUME NEW k \in DOMAIN forms
      PROVE  forms[k] = k
  <2>1. (CHOOSE i \in rows : Requirements!FormKey(i, u, s) = k) = k
    BY <1>2 DEF Requirements!FormKey
  <2> QED
    BY <2>1
<1> HIDE DEF forms
<1>4. /\ Requirements!UiWhole(v) /\ v.forms = forms /\ v.activeDocId = u.activeDocId
      /\ v.editingItemNo = u.editingItemNo
  BY DEF Requirements!UiWhole
<1> HIDE DEF v
<1>5. Requirements!EditingRows(v, s) = rows
  BY <1>4 DEF Requirements!EditingRows, Requirements!Rows, Requirements!HasDoc,
     Requirements!activeDoc
<1> QED
  BY <1>1, <1>2, <1>3, <1>4, <1>5

\* A call may change its state and what it will close.
LEMMA RequirementsUpdatedCall ==
  ASSUME NEW c, Requirements!CallInv(c), NEW v
  PROVE  /\ Requirements!CallInv([c EXCEPT !.state = v])
         /\ Requirements!CallInv([c EXCEPT !.mounted = v])
         /\ Requirements!CallInv([c EXCEPT !.form = v])
BY DEF Requirements!CallInv

\* What is shown changes, and the forms with it.
LEMMA RequirementsShowInv ==
  ASSUME NEW u, NEW s, NEW cs, Requirements!Show(u, s, cs), s = shown', UNCHANGED db,
         Requirements!ItemsInv,
         Requirements!UiWhole(u), \A k \in DOMAIN u.forms : u.forms[k] = k,
         \A c \in cs : Requirements!CallInv(c)
  PROVE  Requirements!EditorInv'
<1>1. ui' = Requirements!Render(u, s)
  BY DEF Requirements!Show
<1>2. Requirements!FormsInv'
  BY <1>1, RequirementsRenderLoads DEF Requirements!FormsInv, Requirements!UiWhole
<1>3. ASSUME NEW d \in calls'
      PROVE  Requirements!CallInv(d)
  <2>1. PICK c \in cs : d = [c EXCEPT !.form = @ /\ Requirements!HasForm(c, u, s)]
    BY DEF Requirements!Show
  <2>2. Requirements!CallInv(c)
    OBVIOUS
  <2>3. ASSUME NEW v
        PROVE  Requirements!CallInv([c EXCEPT !.form = v])
    BY <2>2, RequirementsUpdatedCall
  <2>4. Requirements!CallInv([c EXCEPT !.form = @ /\ Requirements!HasForm(c, u, s)])
    BY <2>3, Zenon
  <2> QED
    BY <2>1, <2>4, Zenon
<1> QED
  BY <1>2, <1>3
  DEF Requirements!EditorInv, Requirements!CallsInv, Requirements!CallInv, Requirements!ItemsInv,
      Requirements!DbWhole, Requirements!EditKeepsItsItem

-----------------------------------------------------------------------------
(* The steps.                                                              *)

\* A call is sent; one that edits names the item its form was loaded from.
LEMMA RequirementsMutateInv ==
  ASSUME Requirements!EditorInv, NEW kind, NEW item, NEW from, NEW no,
         Requirements!Mutate(kind, item, from, no),
         kind = "edit" => from = item
  PROVE  Requirements!EditorInv'
<1> DEFINE c(form) == [kind |-> kind, doc |-> Requirements!activeDoc(ui, shown), item |-> item,
                       from |-> from, no |-> no, state |-> "sent", mounted |-> TRUE, form |-> form]
<1>1. ASSUME NEW form
      PROVE  Requirements!CallInv(c(form))
  BY DEF Requirements!CallInv
<1>2. calls' = calls \cup {c(kind \in {"edit", "add"})}
  BY DEF Requirements!Mutate
<1>3. Requirements!CallsInv'
  <2> HIDE DEF c
  <2> QED
    BY <1>1, <1>2 DEF Requirements!EditorInv, Requirements!CallsInv, Requirements!CallInv
<1>4. UNCHANGED <<ui, shown, db>>
  BY DEF Requirements!Mutate
<1> QED
  BY <1>3, <1>4
  DEF Requirements!EditorInv, Requirements!FormsInv, Requirements!UiWhole, Requirements!ItemsInv,
      Requirements!DbWhole, Requirements!EditKeepsItsItem, Requirements!EditingRows,
      Requirements!Rows,
      Requirements!HasDoc, Requirements!activeDoc

\* A document or an item is deleted.
LEMMA RequirementsWithoutInv ==
  ASSUME Requirements!ItemsInv, NEW d, NEW i,
         db' \in {Requirements!WithoutDoc(d), Requirements!WithoutItem(i)}
  PROVE  Requirements!ItemsInv'
<1>1. ASSUME NEW S, S \subseteq DOMAIN db.items, NEW docs,
             db' = [docs |-> docs, used |-> db.used, items |-> Requirements!Restrict(db.items, S)]
      PROVE  Requirements!ItemsInv'
  BY <1>1 DEF Requirements!ItemsInv, Requirements!DbWhole, Requirements!EditKeepsItsItem,
     Requirements!Restrict
<1>2. CASE db' = Requirements!WithoutDoc(d)
  <2> DEFINE S == { j \in DOMAIN db.items : db.items[j].doc # d }
  <2>1. db' = [docs |-> [db.docs EXCEPT ![d] = "gone"], used |-> db.used,
               items |-> Requirements!Restrict(db.items, S)]
    BY <1>2 DEF Requirements!WithoutDoc, Requirements!ItemsInv, Requirements!DbWhole
  <2> QED
    BY <1>1, <2>1
<1>3. CASE db' = Requirements!WithoutItem(i)
  <2>1. db' = [docs |-> db.docs, used |-> db.used,
               items |-> Requirements!Restrict(db.items, DOMAIN db.items \ {i})]
    BY <1>3 DEF Requirements!WithoutItem, Requirements!ItemsInv, Requirements!DbWhole
  <2> QED
    BY <1>1, <2>1
<1> QED
  BY <1>2, <1>3

\* An item is written with what was loaded from it.
LEMMA RequirementsWithItemInv ==
  ASSUME Requirements!ItemsInv, NEW i, NEW row, row.from = i, db' = Requirements!WithItem(i, row)
  PROVE  Requirements!ItemsInv'
<1> DEFINE items == [j \in DOMAIN db.items \cup {i} |-> IF j = i THEN row ELSE db.items[j]]
<1>1. db' = [docs |-> db.docs, used |-> db.used \cup {i}, items |-> items]
  BY DEF Requirements!WithItem, Requirements!ItemsInv, Requirements!DbWhole
<1>2. \A j \in DOMAIN items : items[j].from = j
  BY DEF Requirements!ItemsInv, Requirements!EditKeepsItsItem
<1> HIDE DEF items
<1> QED
  BY <1>1, <1>2 DEF Requirements!ItemsInv, Requirements!DbWhole, Requirements!EditKeepsItsItem

\* What the server may do for a call.
LEMMA RequirementsEffectsInv ==
  ASSUME Requirements!ItemsInv, NEW c, Requirements!CallInv(c), db' \in Requirements!Effects(c)
  PROVE  Requirements!ItemsInv'
<1>1. CASE c.kind = "edit"
  <2>1. db' = Requirements!WithItem(c.item, [doc |-> c.doc, no |-> c.no, from |-> c.from])
    BY <1>1 DEF Requirements!Effects
  <2> QED
    BY <1>1, <2>1, RequirementsWithItemInv DEF Requirements!CallInv
<1>2. CASE c.kind = "add"
  <2>1. PICK i \in Item \ db.used :
          db' = Requirements!WithItem(i, [doc |-> c.doc, no |-> c.no, from |-> i])
    BY <1>2 DEF Requirements!Effects
  <2> QED
    BY <2>1, RequirementsWithItemInv
<1>3. CASE c.kind \in {"deleteItem", "deleteDoc"}
  BY <1>3, RequirementsWithoutInv DEF Requirements!Effects
<1>4. CASE c.kind = "createDoc"
  <2>1. PICK d : db' = [db EXCEPT !.docs[d] = "live"]
    BY <1>4 DEF Requirements!Effects
  <2>2. db' = [docs |-> [db.docs EXCEPT ![d] = "live"], used |-> db.used, items |-> db.items]
    BY <2>1 DEF Requirements!ItemsInv, Requirements!DbWhole
  <2> QED
    BY <2>2 DEF Requirements!ItemsInv, Requirements!DbWhole, Requirements!EditKeepsItsItem
<1> QED
  BY <1>1, <1>2, <1>3, <1>4 DEF Requirements!Effects

\* A call is served, lost, or done with, and the page is left as it is.
LEMMA RequirementsAnswerInv ==
  ASSUME Requirements!EditorInv, NEW c \in calls, UNCHANGED <<ui, shown>>, Requirements!ItemsInv',
         calls' \subseteq calls \/ \E state : Requirements!Settle(c, state)
  PROVE  Requirements!EditorInv'
<1>1. Requirements!CallsInv'
  BY RequirementsUpdatedCall
  DEF Requirements!Settle, Requirements!EditorInv, Requirements!CallsInv, Requirements!CallInv
<1> QED
  BY <1>1 DEF Requirements!EditorInv, Requirements!FormsInv, Requirements!UiWhole,
     Requirements!EditingRows, Requirements!Rows, Requirements!HasDoc, Requirements!activeDoc

\* The page is told that a call is done.
LEMMA RequirementsSucceededInv ==
  ASSUME Requirements!EditorInv, NEW c \in calls, Requirements!Succeeded(c)
  PROVE  Requirements!EditorInv'
<1> DEFINE u == CASE c.mounted /\ c.kind \in {"edit", "deleteItem"} ->
                       [ui EXCEPT !.editingItemNo = Requirements!None]
                  [] c.mounted /\ c.kind = "add" -> [ui EXCEPT !.addingItem = FALSE]
                  [] c.mounted /\ c.kind = "deleteDoc" ->
                       [ui EXCEPT !.activeDocId = Requirements!None]
                  [] OTHER -> ui
<1>1. Requirements!Show(u, shown, calls \ {c}) /\ UNCHANGED <<shown, db>>
  BY DEF Requirements!Succeeded
<1>2. Requirements!UiWhole(u) /\ u.forms = ui.forms
  BY DEF Requirements!EditorInv, Requirements!FormsInv, Requirements!UiWhole
<1> HIDE DEF u
<1> QED
  BY <1>1, <1>2, RequirementsShowInv
  DEF Requirements!EditorInv, Requirements!FormsInv, Requirements!CallsInv

\* The invariant holds of the page before the first answer.
LEMMA RequirementsInitInv == Requirements!Init => Requirements!EditorInv
<1> SUFFICES ASSUME Requirements!Init PROVE Requirements!EditorInv
  OBVIOUS
<1>1. DOMAIN shown.items = {}
  BY DEF Requirements!Init
<1>2. Requirements!FormsInv
  BY <1>1 DEF Requirements!Init, Requirements!Fresh, Requirements!FormsInv, Requirements!UiWhole,
     Requirements!EditingRows, Requirements!Rows
<1>3. Requirements!ItemsInv
  BY DEF Requirements!Init, Requirements!ItemsInv, Requirements!DbWhole,
         Requirements!EditKeepsItsItem
<1> QED
  BY <1>2, <1>3 DEF Requirements!Init, Requirements!EditorInv, Requirements!CallsInv

\* Every step of the requirements page keeps its invariant.
LEMMA RequirementsNextInv ==
  Requirements!EditorInv /\ [Requirements!Next]_(Requirements!vars) => Requirements!EditorInv'
<1> SUFFICES ASSUME Requirements!EditorInv, [Requirements!Next]_(Requirements!vars)
             PROVE  Requirements!EditorInv'
  OBVIOUS
<1> USE DEF Requirements!EditorInv
<1>a. /\ Requirements!UiWhole(ui)
      /\ \A k \in DOMAIN ui.forms : ui.forms[k] = k
      /\ \A c \in calls : Requirements!CallInv(c)
  BY DEF Requirements!FormsInv, Requirements!CallsInv
<1>1. ASSUME NEW d \in Doc, Requirements!SelectDoc(d)
      PROVE  Requirements!EditorInv'
  <2> DEFINE u == [ui EXCEPT !.activeDocId = d]
  <2>1. Requirements!UiWhole(u) /\ u.forms = ui.forms
    BY <1>a DEF Requirements!UiWhole
  <2> HIDE DEF u
  <2> QED
    BY <1>a, <1>1, <2>1, RequirementsShowInv DEF Requirements!SelectDoc, u
<1>2. ASSUME NEW i \in Item, Requirements!StartEdit(i)
      PROVE  Requirements!EditorInv'
  <2> DEFINE u == [ui EXCEPT !.editingItemNo = shown.items[i].no]
  <2>1. Requirements!UiWhole(u) /\ u.forms = ui.forms
    BY <1>a DEF Requirements!UiWhole
  <2> HIDE DEF u
  <2> QED
    BY <1>a, <1>2, <2>1, RequirementsShowInv DEF Requirements!StartEdit, u
<1>3. ASSUME Requirements!CancelEdit
      PROVE  Requirements!EditorInv'
  <2> DEFINE u == [ui EXCEPT !.editingItemNo = Requirements!None]
  <2>1. Requirements!UiWhole(u) /\ u.forms = ui.forms
    BY <1>a DEF Requirements!UiWhole
  <2> HIDE DEF u
  <2> QED
    BY <1>a, <1>3, <2>1, RequirementsShowInv DEF Requirements!CancelEdit, u
<1>4. ASSUME NEW adding \in BOOLEAN, Requirements!SetAdding(adding)
      PROVE  Requirements!EditorInv'
  <2> DEFINE u == [ui EXCEPT !.addingItem = adding]
  <2>1. Requirements!UiWhole(u) /\ u.forms = ui.forms
    BY <1>a DEF Requirements!UiWhole
  <2> HIDE DEF u
  <2> QED
    BY <1>a, <1>4, <2>1, RequirementsShowInv DEF Requirements!SetAdding, u
<1>5. ASSUME NEW i \in Item, NEW no \in No, Requirements!SubmitEdit(i, no)
      PROVE  Requirements!EditorInv'
  <2>1. ui.forms[Requirements!FormKey(i, ui, shown)] = i
    BY <1>5 DEF Requirements!SubmitEdit, Requirements!FormsInv, Requirements!FormKey
  <2> QED
    BY <1>5, <2>1, RequirementsMutateInv DEF Requirements!SubmitEdit
<1>6. ASSUME NEW no \in No, Requirements!SubmitAdd(no)
      PROVE  Requirements!EditorInv'
  BY <1>6, RequirementsMutateInv DEF Requirements!SubmitAdd
<1>7. ASSUME NEW i \in Item, Requirements!DeleteItem(i)
      PROVE  Requirements!EditorInv'
  BY <1>7, RequirementsMutateInv DEF Requirements!DeleteItem
<1>8. ASSUME Requirements!DeleteDoc \/ Requirements!CreateDoc
      PROVE  Requirements!EditorInv'
  BY <1>8, RequirementsMutateInv DEF Requirements!DeleteDoc, Requirements!CreateDoc
<1>9. ASSUME Requirements!Remount
      PROVE  Requirements!EditorInv'
  <2>1. /\ Requirements!UiWhole(Requirements!Fresh)
        /\ \A k \in DOMAIN Requirements!Fresh.forms : Requirements!Fresh.forms[k] = k
    BY DEF Requirements!Fresh, Requirements!UiWhole
  <2>2. \A c \in { [d EXCEPT !.mounted = FALSE] : d \in calls } : Requirements!CallInv(c)
    <3>1. ASSUME NEW d \in calls, NEW m
          PROVE  Requirements!CallInv([d EXCEPT !.mounted = m])
      BY <1>a, RequirementsUpdatedCall
    <3> QED
      BY <3>1, Zenon
  <2> QED
    BY <1>9, <2>1, <2>2, RequirementsShowInv DEF Requirements!Remount
<1>10. ASSUME NEW c \in calls, Requirements!Serve(c)
       PROVE  Requirements!EditorInv'
  <2>1. Requirements!ItemsInv'
    BY <1>a, <1>10, RequirementsEffectsInv
    DEF Requirements!Serve, Requirements!ItemsInv, Requirements!DbWhole,
        Requirements!EditKeepsItsItem
  <2> QED
    BY <1>10, <2>1, RequirementsAnswerInv DEF Requirements!Serve
<1>11. ASSUME NEW c \in calls, Requirements!Lose(c) \/ Requirements!Failed(c)
       PROVE  Requirements!EditorInv'
  <2>1. Requirements!ItemsInv'
    BY <1>11 DEF Requirements!Lose, Requirements!Failed, Requirements!ItemsInv,
       Requirements!DbWhole, Requirements!EditKeepsItsItem
  <2> QED
    BY <1>11, <2>1, RequirementsAnswerInv DEF Requirements!Lose, Requirements!Failed
<1>12. ASSUME NEW c \in calls, Requirements!Succeeded(c)
       PROVE  Requirements!EditorInv'
  BY <1>12, RequirementsSucceededInv
<1>13. ASSUME Requirements!Refresh \/ Requirements!RefreshFails
       PROVE  Requirements!EditorInv'
  BY <1>a, <1>13, RequirementsShowInv DEF Requirements!Refresh, Requirements!RefreshFails
<1>14. ASSUME Requirements!Elsewhere
       PROVE  Requirements!EditorInv'
  <2>1. Requirements!ItemsInv' /\ UNCHANGED <<ui, shown, calls>>
    BY <1>14, RequirementsWithoutInv DEF Requirements!Elsewhere
  <2> QED
    BY <2>1 DEF Requirements!FormsInv, Requirements!UiWhole, Requirements!CallsInv,
       Requirements!CallInv, Requirements!EditingRows, Requirements!Rows, Requirements!HasDoc,
       Requirements!activeDoc
<1>15. ASSUME UNCHANGED Requirements!vars
       PROVE  Requirements!EditorInv'
  BY <1>15 DEF Requirements!vars, Requirements!FormsInv, Requirements!UiWhole,
     Requirements!CallsInv, Requirements!CallInv, Requirements!ItemsInv, Requirements!DbWhole,
     Requirements!EditKeepsItsItem,
               Requirements!EditingRows, Requirements!Rows, Requirements!HasDoc,
               Requirements!activeDoc
<1> QED
  BY <1>1, <1>2, <1>3, <1>4, <1>5, <1>6, <1>7, <1>8, <1>9, <1>10, <1>11, <1>12, <1>13, <1>14,
     <1>15
  DEF Requirements!Next

-----------------------------------------------------------------------------
(* The types of this page.                                                 *)

\* What the page is about, and the row that it edits.
RequirementsUiTyped(u) ==
  /\ u.activeDocId \in Doc \cup {Requirements!None} /\ u.addingItem \in BOOLEAN
  /\ u.editingItemNo \in No \cup {Requirements!None}

\* The answer that the page shows.
RequirementsShownTyped ==
  /\ shown = [docs |-> shown.docs, first |-> shown.first, items |-> shown.items,
              failed |-> shown.failed]
  /\ shown.docs \subseteq Doc /\ shown.first \in shown.docs \cup {Requirements!None}
  /\ \A i \in DOMAIN shown.items : i \in Item /\ shown.items[i] \in Requirements!Row

\* The items of the database are of documents that are there.
RequirementsDbTyped ==
  /\ db.docs \in [Doc -> {"new", "live", "gone"}] /\ db.used \subseteq Item
  /\ \A i \in DOMAIN db.items :
       i \in db.used /\ db.items[i] \in Requirements!Row /\ Requirements!Live(db.items[i].doc)

\* A call names what its rows and fields can hold; an item is added to a document.
RequirementsCall(c) ==
  /\ c.doc \in Doc \cup {Requirements!None} /\ c.item \in Item \cup {Requirements!None}
  /\ c.kind \in {"edit", "add"} => c.no \in No
  /\ c.kind = "add" => c.doc \in Doc

RequirementsCallsTyped == \A c \in calls : RequirementsCall(c)

RequirementsTyped ==
  RequirementsUiTyped(ui) /\ RequirementsShownTyped /\ RequirementsDbTyped /\ RequirementsCallsTyped

\* The document that is open is one of the project, if there is one.
LEMMA RequirementsActiveTyped ==
  ASSUME RequirementsUiTyped(ui), RequirementsShownTyped
  PROVE  /\ Requirements!activeDoc(ui, shown) \in Doc \cup {Requirements!None}
         /\ Requirements!HasDoc(ui, shown) => Requirements!activeDoc(ui, shown) \in Doc
BY DEF RequirementsUiTyped, RequirementsShownTyped, Requirements!activeDoc, Requirements!HasDoc

\* A call may change its state and what it will close.
LEMMA RequirementsUpdatedTyped ==
  ASSUME NEW c, Requirements!CallInv(c), RequirementsCall(c), NEW v
  PROVE  /\ RequirementsCall([c EXCEPT !.state = v])
         /\ RequirementsCall([c EXCEPT !.mounted = v])
         /\ RequirementsCall([c EXCEPT !.form = v])
BY DEF Requirements!CallInv, RequirementsCall

\* What is shown changes, and the forms with it.
LEMMA RequirementsShowTyped ==
  ASSUME NEW u, NEW s, NEW cs, Requirements!Show(u, s, cs),
         Requirements!UiWhole(u), RequirementsUiTyped(u),
         \A c \in cs : Requirements!CallInv(c) /\ RequirementsCall(c)
  PROVE  RequirementsUiTyped(ui)' /\ RequirementsCallsTyped'
<1>1. /\ ui'.activeDocId = u.activeDocId /\ ui'.addingItem = u.addingItem
      /\ ui'.editingItemNo = u.editingItemNo
  <2>1. ASSUME NEW forms
        PROVE  /\ [u EXCEPT !.forms = forms].activeDocId = u.activeDocId
               /\ [u EXCEPT !.forms = forms].addingItem = u.addingItem
               /\ [u EXCEPT !.forms = forms].editingItemNo = u.editingItemNo
    BY DEF Requirements!UiWhole
  <2>2. \E forms : ui' = [u EXCEPT !.forms = forms]
    BY DEF Requirements!Show, Requirements!Render
  <2> QED
    BY <2>1, <2>2
<1>2. ASSUME NEW d \in calls'
      PROVE  RequirementsCall(d)
  <2>1. PICK c \in cs : d = [c EXCEPT !.form = @ /\ Requirements!HasForm(c, u, s)]
    BY DEF Requirements!Show
  <2>2. ASSUME NEW v
        PROVE  RequirementsCall([c EXCEPT !.form = v])
    BY RequirementsUpdatedTyped
  <2>3. RequirementsCall([c EXCEPT !.form = @ /\ Requirements!HasForm(c, u, s)])
    BY <2>2, Zenon
  <2> QED
    BY <2>1, <2>3, Zenon
<1> QED
  BY <1>1, <1>2 DEF RequirementsUiTyped, RequirementsCallsTyped, RequirementsCall

\* A call is sent.
LEMMA RequirementsMutateTyped ==
  ASSUME RequirementsTyped, NEW kind, NEW item \in Item \cup {Requirements!None}, NEW from, NEW no,
         Requirements!Mutate(kind, item, from, no),
         kind \in {"edit", "add"} => no \in No,
         kind = "add" => Requirements!HasDoc(ui, shown)
  PROVE  RequirementsTyped'
<1> DEFINE c(form) == [kind |-> kind, doc |-> Requirements!activeDoc(ui, shown), item |-> item,
                       from |-> from, no |-> no, state |-> "sent", mounted |-> TRUE, form |-> form]
<1>1. ASSUME NEW form
      PROVE  RequirementsCall(c(form))
  BY RequirementsActiveTyped DEF RequirementsCall, RequirementsTyped
<1>2. calls' = calls \cup {c(kind \in {"edit", "add"})} /\ UNCHANGED <<ui, shown, db>>
  BY DEF Requirements!Mutate
<1> HIDE DEF c
<1>3. RequirementsCallsTyped'
  BY <1>1, <1>2 DEF RequirementsTyped, RequirementsCallsTyped, RequirementsCall
<1> QED
  BY <1>2, <1>3
  DEF RequirementsTyped, RequirementsUiTyped, RequirementsDbTyped, RequirementsShownTyped,
      Requirements!Row, Requirements!Live

\* A document or an item is deleted.
LEMMA RequirementsWithoutTyped ==
  ASSUME Requirements!DbWhole, RequirementsDbTyped, NEW d, NEW i,
         db' \in {Requirements!WithoutDoc(d), Requirements!WithoutItem(i)}
  PROVE  RequirementsDbTyped'
<1>1. CASE db' = Requirements!WithoutDoc(d)
  <2> DEFINE S == { j \in DOMAIN db.items : db.items[j].doc # d }
             docs == [db.docs EXCEPT ![d] = "gone"]
             items == Requirements!Restrict(db.items, S)
  <2>1. db' = [docs |-> docs, used |-> db.used, items |-> items]
    BY <1>1 DEF Requirements!WithoutDoc, Requirements!DbWhole
  <2>2. docs \in [Doc -> {"new", "live", "gone"}]
    BY DEF RequirementsDbTyped
  <2>3. \A j \in DOMAIN items :
          /\ j \in db.used /\ items[j] \in Requirements!Row /\ docs[items[j].doc] = "live"
    BY DEF RequirementsDbTyped, Requirements!Restrict, Requirements!Live, Requirements!Row
  <2> HIDE DEF docs, items
  <2> QED
    BY <2>1, <2>2, <2>3 DEF RequirementsDbTyped, Requirements!Live, Requirements!Row
<1>2. CASE db' = Requirements!WithoutItem(i)
  <2> DEFINE items == Requirements!Restrict(db.items, DOMAIN db.items \ {i})
  <2>1. db' = [docs |-> db.docs, used |-> db.used, items |-> items]
    BY <1>2 DEF Requirements!WithoutItem, Requirements!DbWhole
  <2>2. \A j \in DOMAIN items :
          /\ j \in db.used /\ items[j] \in Requirements!Row /\ db.docs[items[j].doc] = "live"
    BY DEF RequirementsDbTyped, Requirements!Restrict, Requirements!Live
  <2> HIDE DEF items
  <2> QED
    BY <2>1, <2>2 DEF RequirementsDbTyped, Requirements!Live, Requirements!Row
<1> QED
  BY <1>1, <1>2

\* An item is written under a document that is there.
LEMMA RequirementsWithItemTyped ==
  ASSUME Requirements!DbWhole, RequirementsDbTyped, NEW i \in Item, NEW row \in Requirements!Row,
         Requirements!Live(row.doc), db' = Requirements!WithItem(i, row)
  PROVE  RequirementsDbTyped'
<1> DEFINE items == [j \in DOMAIN db.items \cup {i} |-> IF j = i THEN row ELSE db.items[j]]
<1>1. db' = [docs |-> db.docs, used |-> db.used \cup {i}, items |-> items]
  BY DEF Requirements!WithItem, Requirements!DbWhole
<1>2. \A j \in DOMAIN items :
        /\ j \in db.used \cup {i} /\ items[j] \in Requirements!Row /\ db.docs[items[j].doc] = "live"
  BY DEF RequirementsDbTyped, Requirements!Live
<1> HIDE DEF items
<1> QED
  BY <1>1, <1>2 DEF RequirementsDbTyped, Requirements!Live, Requirements!Row

\* What the server may do for a call.
LEMMA RequirementsEffectsTyped ==
  ASSUME Requirements!DbWhole, RequirementsDbTyped, NEW c, Requirements!CallInv(c),
         RequirementsCall(c), db' \in Requirements!Effects(c)
  PROVE  RequirementsDbTyped'
<1>1. CASE c.kind = "edit"
  <2> DEFINE row == [doc |-> c.doc, no |-> c.no, from |-> c.from]
  <2>1. Requirements!Exists(c.item, c.doc) /\ db' = Requirements!WithItem(c.item, row)
    BY <1>1 DEF Requirements!Effects
  <2>2. /\ c.item \in Item /\ c.doc \in Doc /\ Requirements!Live(c.doc)
    BY <2>1 DEF RequirementsDbTyped, Requirements!Exists, Requirements!Row
  <2>3. row \in Requirements!Row /\ row.doc = c.doc
    BY <1>1, <2>2 DEF RequirementsCall, Requirements!CallInv, Requirements!Row
  <2> HIDE DEF row
  <2> QED
    BY <2>1, <2>2, <2>3, RequirementsWithItemTyped
<1>2. CASE c.kind = "add"
  <2>1. PICK i \in Item \ db.used :
          db' = Requirements!WithItem(i, [doc |-> c.doc, no |-> c.no, from |-> i])
    BY <1>2 DEF Requirements!Effects
  <2>2. Requirements!Live(c.doc)
    BY <1>2 DEF Requirements!Effects
  <2> DEFINE row == [doc |-> c.doc, no |-> c.no, from |-> i]
  <2>3. row \in Requirements!Row /\ row.doc = c.doc
    BY <1>2 DEF RequirementsCall, Requirements!Row
  <2>4. db' = Requirements!WithItem(i, row)
    BY <2>1
  <2> HIDE DEF row
  <2> QED
    BY <2>2, <2>3, <2>4, RequirementsWithItemTyped
<1>3. CASE c.kind \in {"deleteItem", "deleteDoc"}
  BY <1>3, RequirementsWithoutTyped DEF Requirements!Effects
<1>4. CASE c.kind = "createDoc"
  <2>1. PICK d \in Doc : db' = [db EXCEPT !.docs[d] = "live"]
    BY <1>4 DEF Requirements!Effects
  <2>2. db' = [docs |-> [db.docs EXCEPT ![d] = "live"], used |-> db.used, items |-> db.items]
    BY <2>1 DEF Requirements!DbWhole
  <2> QED
    BY <2>2 DEF RequirementsDbTyped, Requirements!Live, Requirements!Row
<1> QED
  BY <1>1, <1>2, <1>3, <1>4 DEF Requirements!Effects

\* A call is served or lost.
LEMMA RequirementsSettleTyped ==
  ASSUME Requirements!EditorInv, RequirementsCallsTyped, NEW c \in calls, NEW state,
         Requirements!Settle(c, state)
  PROVE  RequirementsCallsTyped'
<1>1. RequirementsCall([c EXCEPT !.state = state])
  BY RequirementsUpdatedTyped
  DEF Requirements!EditorInv, Requirements!CallsInv, RequirementsCallsTyped
<1>2. \A d \in calls' : RequirementsCall(d)
  BY <1>1, Zenon DEF Requirements!Settle, RequirementsCallsTyped
<1> QED
  BY <1>2 DEF RequirementsCallsTyped, RequirementsCall

\* The list is read again, or its error is shown.
LEMMA RequirementsRefreshTyped ==
  ASSUME RequirementsShownTyped, RequirementsDbTyped,
         Requirements!Refresh \/ Requirements!RefreshFails
  PROVE  RequirementsShownTyped'
<1>1. CASE Requirements!Refresh
  <2> DEFINE docs == { d \in Doc : Requirements!Live(d) }
  <2>1. PICK first \in IF docs = {} THEN {Requirements!None} ELSE docs :
          shown' = [docs |-> docs, first |-> first, items |-> db.items, failed |-> FALSE]
    BY <1>1 DEF Requirements!Refresh
  <2>2. first \in docs \cup {Requirements!None} /\ docs \subseteq Doc
    OBVIOUS
  <2> HIDE DEF docs
  <2> QED
    BY <2>1, <2>2 DEF RequirementsShownTyped, RequirementsDbTyped, Requirements!Row
<1>2. CASE Requirements!RefreshFails
  <2>1. shown' = [docs |-> shown.docs, first |-> shown.first, items |-> shown.items,
                  failed |-> TRUE]
    BY <1>2 DEF Requirements!RefreshFails, RequirementsShownTyped
  <2> QED
    BY <2>1 DEF RequirementsShownTyped, Requirements!Row
<1> QED
  BY <1>1, <1>2

\* Every step of the requirements page keeps the types.
LEMMA RequirementsNextTyped ==
  Requirements!EditorInv /\ RequirementsTyped /\ [Requirements!Next]_(Requirements!vars) =>
    RequirementsTyped'
<1> SUFFICES ASSUME Requirements!EditorInv, RequirementsTyped, [Requirements!Next]_(Requirements!vars)
             PROVE  RequirementsTyped'
  OBVIOUS
<1>a. /\ RequirementsUiTyped(ui) /\ RequirementsShownTyped /\ RequirementsDbTyped
      /\ RequirementsCallsTyped /\ Requirements!UiWhole(ui) /\ Requirements!DbWhole
      /\ \A c \in calls : Requirements!CallInv(c) /\ RequirementsCall(c)
  BY DEF RequirementsTyped, RequirementsCallsTyped, Requirements!EditorInv, Requirements!FormsInv,
         Requirements!CallsInv, Requirements!ItemsInv
<1>b. ASSUME UNCHANGED ui PROVE RequirementsUiTyped(ui)'
  BY <1>a, <1>b DEF RequirementsUiTyped
<1>c. ASSUME UNCHANGED shown PROVE RequirementsShownTyped'
  BY <1>a, <1>c DEF RequirementsShownTyped, Requirements!Row
<1>d. ASSUME UNCHANGED db PROVE RequirementsDbTyped'
  BY <1>a, <1>d DEF RequirementsDbTyped, Requirements!Row, Requirements!Live
<1>e. ASSUME calls' \subseteq calls PROVE RequirementsCallsTyped'
  BY <1>a, <1>e DEF RequirementsCallsTyped, RequirementsCall
<1>f. ASSUME NEW u, Requirements!Show(u, shown, calls), Requirements!UiWhole(u),
             RequirementsUiTyped(u), UNCHANGED <<shown, db>>
      PROVE  RequirementsTyped'
  BY <1>a, <1>c, <1>d, <1>f, RequirementsShowTyped DEF RequirementsTyped
<1>1. ASSUME NEW d \in Doc, Requirements!SelectDoc(d)
      PROVE  RequirementsTyped'
  <2> DEFINE u == [ui EXCEPT !.activeDocId = d]
  <2>1. Requirements!UiWhole(u) /\ RequirementsUiTyped(u)
    BY <1>a DEF Requirements!UiWhole, RequirementsUiTyped
  <2> HIDE DEF u
  <2> QED
    BY <1>1, <1>f, <2>1 DEF Requirements!SelectDoc, u
<1>2. ASSUME NEW i \in Item, Requirements!StartEdit(i)
      PROVE  RequirementsTyped'
  <2> DEFINE u == [ui EXCEPT !.editingItemNo = shown.items[i].no]
  <2>1. i \in DOMAIN shown.items
    BY <1>2 DEF Requirements!StartEdit, Requirements!Rows
  <2>2. shown.items[i].no \in No
    BY <1>a, <2>1 DEF RequirementsShownTyped, Requirements!Row
  <2>3. Requirements!UiWhole(u) /\ RequirementsUiTyped(u)
    BY <1>a, <2>2 DEF Requirements!UiWhole, RequirementsUiTyped
  <2> HIDE DEF u
  <2> QED
    BY <1>2, <1>f, <2>3 DEF Requirements!StartEdit, u
<1>3. ASSUME Requirements!CancelEdit
      PROVE  RequirementsTyped'
  <2> DEFINE u == [ui EXCEPT !.editingItemNo = Requirements!None]
  <2>1. Requirements!UiWhole(u) /\ RequirementsUiTyped(u)
    BY <1>a DEF Requirements!UiWhole, RequirementsUiTyped
  <2> HIDE DEF u
  <2> QED
    BY <1>3, <1>f, <2>1 DEF Requirements!CancelEdit, u
<1>4. ASSUME NEW adding \in BOOLEAN, Requirements!SetAdding(adding)
      PROVE  RequirementsTyped'
  <2> DEFINE u == [ui EXCEPT !.addingItem = adding]
  <2>1. Requirements!UiWhole(u) /\ RequirementsUiTyped(u)
    BY <1>a DEF Requirements!UiWhole, RequirementsUiTyped
  <2> HIDE DEF u
  <2> QED
    BY <1>4, <1>f, <2>1 DEF Requirements!SetAdding, u
<1>5. ASSUME NEW i \in Item, NEW no \in No, Requirements!SubmitEdit(i, no)
      PROVE  RequirementsTyped'
  BY <1>5, RequirementsMutateTyped DEF Requirements!SubmitEdit
<1>6. ASSUME NEW no \in No, Requirements!SubmitAdd(no)
      PROVE  RequirementsTyped'
  BY <1>6, RequirementsMutateTyped DEF Requirements!SubmitAdd
<1>7. ASSUME NEW i \in Item, Requirements!DeleteItem(i)
      PROVE  RequirementsTyped'
  BY <1>7, RequirementsMutateTyped DEF Requirements!DeleteItem
<1>8. ASSUME Requirements!DeleteDoc \/ Requirements!CreateDoc
      PROVE  RequirementsTyped'
  BY <1>8, RequirementsMutateTyped DEF Requirements!DeleteDoc, Requirements!CreateDoc
<1>9. ASSUME Requirements!Remount
      PROVE  RequirementsTyped'
  <2> DEFINE left == { [c EXCEPT !.mounted = FALSE] : c \in calls }
  <2>1. Requirements!UiWhole(Requirements!Fresh) /\ RequirementsUiTyped(Requirements!Fresh)
    BY DEF Requirements!Fresh, Requirements!UiWhole, RequirementsUiTyped
  <2>2. ASSUME NEW d \in calls, NEW m
        PROVE  Requirements!CallInv([d EXCEPT !.mounted = m]) /\ RequirementsCall([d EXCEPT !.mounted = m])
    BY <1>a, RequirementsUpdatedCall, RequirementsUpdatedTyped
  <2>3. \A c \in left : Requirements!CallInv(c) /\ RequirementsCall(c)
    BY <2>2, Zenon
  <2>4. Requirements!Show(Requirements!Fresh, shown, left) /\ UNCHANGED <<shown, db>>
    BY <1>9 DEF Requirements!Remount
  <2> HIDE DEF left
  <2> QED
    BY <1>c, <1>d, <2>1, <2>3, <2>4, RequirementsShowTyped DEF RequirementsTyped
<1>10. ASSUME NEW c \in calls, Requirements!Serve(c)
       PROVE  RequirementsTyped'
  <2>1. RequirementsDbTyped'
    BY <1>a, <1>d, <1>10, RequirementsEffectsTyped DEF Requirements!Serve
  <2>2. RequirementsCallsTyped'
    BY <1>a, <1>10, RequirementsSettleTyped DEF Requirements!Serve
  <2> QED
    BY <1>b, <1>c, <1>10, <2>1, <2>2 DEF Requirements!Serve, RequirementsTyped
<1>11. ASSUME NEW c \in calls, Requirements!Lose(c) \/ Requirements!Failed(c)
       PROVE  RequirementsTyped'
  <2>1. RequirementsCallsTyped'
    BY <1>a, <1>e, <1>11, RequirementsSettleTyped DEF Requirements!Lose, Requirements!Failed
  <2> QED
    BY <1>b, <1>c, <1>d, <1>11, <2>1 DEF Requirements!Lose, Requirements!Failed, RequirementsTyped
<1>12. ASSUME NEW c \in calls, Requirements!Succeeded(c)
       PROVE  RequirementsTyped'
  <2> DEFINE u == CASE c.mounted /\ c.kind \in {"edit", "deleteItem"} ->
                         [ui EXCEPT !.editingItemNo = Requirements!None]
                    [] c.mounted /\ c.kind = "add" -> [ui EXCEPT !.addingItem = FALSE]
                    [] c.mounted /\ c.kind = "deleteDoc" ->
                         [ui EXCEPT !.activeDocId = Requirements!None]
                    [] OTHER -> ui
  <2>1. Requirements!Show(u, shown, calls \ {c}) /\ UNCHANGED <<shown, db>>
    BY <1>12 DEF Requirements!Succeeded
  <2>2. Requirements!UiWhole(u) /\ RequirementsUiTyped(u)
    BY <1>a DEF Requirements!UiWhole, RequirementsUiTyped
  <2> HIDE DEF u
  <2> QED
    BY <1>a, <1>c, <1>d, <2>1, <2>2, RequirementsShowTyped DEF RequirementsTyped
<1>13. ASSUME Requirements!Refresh \/ Requirements!RefreshFails
       PROVE  RequirementsTyped'
  <2>1. Requirements!Show(ui, shown', calls) /\ UNCHANGED db
    BY <1>13 DEF Requirements!Refresh, Requirements!RefreshFails
  <2>2. RequirementsShownTyped'
    BY <1>a, <1>13, RequirementsRefreshTyped
  <2>3. RequirementsUiTyped(ui)' /\ RequirementsCallsTyped'
    BY <1>a, <2>1, RequirementsShowTyped
  <2> QED
    BY <1>d, <2>1, <2>2, <2>3 DEF RequirementsTyped
<1>14. ASSUME Requirements!Elsewhere
       PROVE  RequirementsTyped'
  <2>1. RequirementsDbTyped'
    BY <1>a, <1>14, RequirementsWithoutTyped DEF Requirements!Elsewhere
  <2> QED
    BY <1>b, <1>c, <1>e, <1>14, <2>1 DEF Requirements!Elsewhere, RequirementsTyped
<1>15. ASSUME UNCHANGED Requirements!vars
       PROVE  RequirementsTyped'
  BY <1>b, <1>c, <1>d, <1>e, <1>15 DEF Requirements!vars, RequirementsTyped
<1> QED
  BY <1>1, <1>2, <1>3, <1>4, <1>5, <1>6, <1>7, <1>8, <1>9, <1>10, <1>11, <1>12, <1>13, <1>14,
     <1>15
  DEF Requirements!Next

\* Before the first answer; every item is of a document that is there.
LEMMA RequirementsInitTyped == Requirements!Init => RequirementsTyped
<1> SUFFICES ASSUME Requirements!Init PROVE RequirementsTyped
  OBVIOUS
<1>1. RequirementsUiTyped(ui)
  BY DEF Requirements!Init, Requirements!Fresh, RequirementsUiTyped
<1>2. RequirementsShownTyped
  BY DEF Requirements!Init, RequirementsShownTyped
<1>3. PICK docs \in [Doc -> {"new", "live"}] :
        \E items \in UNION { [S -> {d \in Doc : docs[d] = "live"}] : S \in SUBSET Item } :
          \E no \in [DOMAIN items -> No] :
            db = [docs |-> docs, used |-> DOMAIN items,
                  items |-> [i \in DOMAIN items |-> [doc |-> items[i], no |-> no[i], from |-> i]]]
  BY DEF Requirements!Init
<1>4. PICK S \in SUBSET Item : \E items \in [S -> {d \in Doc : docs[d] = "live"}] :
          \E no \in [DOMAIN items -> No] :
            db = [docs |-> docs, used |-> DOMAIN items,
                  items |-> [i \in DOMAIN items |-> [doc |-> items[i], no |-> no[i], from |-> i]]]
  BY <1>3
<1>5. PICK items \in [S -> {d \in Doc : docs[d] = "live"}], no \in [S -> No] :
            db = [docs |-> docs, used |-> S,
                  items |-> [i \in S |-> [doc |-> items[i], no |-> no[i], from |-> i]]]
  BY <1>4
<1>6. RequirementsDbTyped
  BY <1>5 DEF RequirementsDbTyped, Requirements!Row, Requirements!Live
<1> QED
  BY <1>1, <1>2, <1>6 DEF Requirements!Init, RequirementsTyped, RequirementsCallsTyped

\* This is what the page keeps of its types.
LEMMA RequirementsTypes ==
  Requirements!EditorInv /\ RequirementsTyped => Requirements!TypeOK
<1> SUFFICES ASSUME Requirements!EditorInv, RequirementsTyped
             PROVE  Requirements!TypeOK
  OBVIOUS
<1>1. \A k \in DOMAIN ui.forms : ui.forms[k] = k /\ k \in DOMAIN shown.items
  BY DEF Requirements!EditorInv, Requirements!FormsInv, Requirements!EditingRows, Requirements!Rows
<1>2. \A k \in DOMAIN ui.forms : ui.forms[k] \in Item
  BY <1>1 DEF RequirementsTyped, RequirementsShownTyped
<1> QED
  BY <1>2 DEF RequirementsTyped, RequirementsUiTyped, RequirementsShownTyped, RequirementsDbTyped,
     RequirementsCallsTyped, RequirementsCall, Requirements!TypeOK

-----------------------------------------------------------------------------
(***************************************************************************)
(* The page of the roles                                                   *)
(***************************************************************************)

\* A call may change its state and what it will close.
LEMMA RolesUpdatedUnlocked ==
  ASSUME NEW c, Roles!CallUnlocked(c), NEW v
  PROVE  /\ Roles!CallUnlocked([c EXCEPT !.state = v])
         /\ Roles!CallUnlocked([c EXCEPT !.mounted = v])
         /\ Roles!CallUnlocked([c EXCEPT !.form = v])
BY DEF Roles!CallUnlocked

\* A dialog that closes leaves its calls as they are.
LEMMA RolesClosedUnlocked ==
  ASSUME NEW cs, \A c \in cs : Roles!CallUnlocked(c)
  PROVE  \A c \in Roles!Closed(cs) : Roles!CallUnlocked(c)
BY RolesUpdatedUnlocked DEF Roles!Closed

\* A call is served, lost, or done with.
LEMMA RolesSettleInv ==
  ASSUME Roles!RoleInv, NEW c \in calls, NEW state, Roles!Settle(c, state)
  PROVE  Roles!CallsUnlocked'
BY RolesUpdatedUnlocked DEF Roles!Settle, Roles!RoleInv, Roles!CallsUnlocked, Roles!CallUnlocked

\* A call is sent; none but a creation is about a system role.
LEMMA RolesMutateInv ==
  ASSUME Roles!RoleInv, NEW kind \in Roles!Kind, NEW role, NEW arg, Roles!Mutate(kind, role, arg),
         kind # "create" => role \notin System
  PROVE  Roles!CallsUnlocked'
<1> DEFINE c(form) == [kind |-> kind, org |-> ui.selectedOrgId, role |-> role, arg |-> arg,
                       state |-> "sent", mounted |-> TRUE, form |-> form]
<1>1. Roles!CallUnlocked(c(kind \in {"create", "edit"}))
  BY DEF Roles!CallUnlocked
<1>2. calls' = calls \cup {c(kind \in {"create", "edit"})}
  BY DEF Roles!Mutate
<1> QED
  BY <1>1, <1>2 DEF Roles!RoleInv, Roles!CallsUnlocked, Roles!CallUnlocked

-----------------------------------------------------------------------------
(* The server.                                                             *)

\* Nothing that the server does for such a call touches a system role.
LEMMA RolesEffectsStand ==
  ASSUME Roles!RoleInv, NEW c \in calls, db' \in Roles!Effects(c)
  PROVE  Roles!Stands
<1>1. Roles!CallUnlocked(c)
  BY DEF Roles!RoleInv, Roles!CallsUnlocked
<1>2. CASE c.kind = "create"
  <2>1. PICK r \in Role \ (DOMAIN db \cup System) :
          db' = Roles!With(r, [name |-> c.arg, permissions |-> {}])
    BY <1>2 DEF Roles!Effects
  <2> QED
    BY <2>1 DEF Roles!With, Roles!Stands, Roles!RoleInv
<1>3. CASE c.kind # "create"
  <2>1. c.role \notin System
    BY <1>1, <1>3 DEF Roles!CallUnlocked
  <2>2. CASE db' = [db EXCEPT ![c.role].name = c.arg]
    BY <2>1, <2>2 DEF Roles!Stands, Roles!RoleInv
  <2>3. CASE db' = Roles!Restrict(db, DOMAIN db \ {c.role})
    BY <2>1, <2>3 DEF Roles!Stands, Roles!RoleInv, Roles!Restrict
  <2>4. CASE db' = [db EXCEPT ![c.role].permissions = @ \cup {c.arg}]
    BY <2>1, <2>4 DEF Roles!Stands, Roles!RoleInv
  <2>5. CASE db' = [db EXCEPT ![c.role].permissions = @ \ {c.arg}]
    BY <2>1, <2>5 DEF Roles!Stands, Roles!RoleInv
  <2> QED
    BY <1>3, <2>2, <2>3, <2>4, <2>5 DEF Roles!Effects
<1> QED
  BY <1>2, <1>3

\* The server answers a call.
LEMMA RolesServeInv ==
  ASSUME Roles!RoleInv, NEW c \in calls, Roles!Serve(c)
  PROVE  Roles!RoleInv' /\ Roles!Stands
<1>1. \E state : Roles!Settle(c, state)
  BY DEF Roles!Serve
<1>2. Roles!Stands
  BY RolesEffectsStand DEF Roles!Serve, Roles!Stands, Roles!RoleInv
<1>3. UNCHANGED ui
  BY DEF Roles!Serve
<1> QED
  BY <1>1, <1>2, <1>3, RolesSettleInv DEF Roles!RoleInv, Roles!Stands, Roles!DialogUnlocked

\* No route takes a system role away.
LEMMA RolesEffectsKeep ==
  ASSUME System \subseteq DOMAIN db, NEW c, db' \in Roles!Effects(c)
  PROVE  System \subseteq DOMAIN db'
<1>1. ASSUME NEW r, NEW row, db' = Roles!With(r, row)
      PROVE  System \subseteq DOMAIN db'
  BY <1>1 DEF Roles!With
<1>2. ASSUME c.role \notin System, db' = Roles!Restrict(db, DOMAIN db \ {c.role})
      PROVE  System \subseteq DOMAIN db'
  BY <1>2 DEF Roles!Restrict
<1> QED
  BY <1>1, <1>2 DEF Roles!Effects

\* Another client, who can change a system role but not this page.
LEMMA RolesElsewhereInv ==
  ASSUME Roles!RoleInv, Roles!Elsewhere
  PROVE  Roles!RoleInv'
<1>1. PICK c : db' \in Roles!Effects(c)
  BY DEF Roles!Elsewhere
<1>2. System \subseteq DOMAIN db'
  BY <1>1, RolesEffectsKeep DEF Roles!RoleInv
<1>3. UNCHANGED <<ui, calls>>
  BY DEF Roles!Elsewhere
<1> QED
  BY <1>2, <1>3
  DEF Roles!RoleInv, Roles!DialogUnlocked, Roles!CallsUnlocked, Roles!CallUnlocked

-----------------------------------------------------------------------------
(* The page.                                                               *)

\* A step of the page alone.
LEMMA RolesPageInv ==
  ASSUME Roles!RoleInv, Roles!DialogUnlocked', Roles!CallsUnlocked', UNCHANGED db
  PROVE  Roles!RoleInv' /\ Roles!Stands
BY DEF Roles!RoleInv, Roles!Stands

\* A dialog is opened.
LEMMA RolesOpenInv ==
  ASSUME Roles!RoleInv, NEW kind, NEW role, NEW name, Roles!Open(kind, role, name),
         kind \in {"edit", "delete"} => role \notin System
  PROVE  Roles!RoleInv' /\ Roles!Stands
<1>1. ui' = [selectedOrgId |-> ui.selectedOrgId,
             dialog |-> [kind |-> kind, role |-> role, name |-> name]]
  BY DEF Roles!Open, Roles!RoleInv, Roles!DialogUnlocked
<1>2. Roles!DialogUnlocked'
  BY <1>1 DEF Roles!DialogUnlocked
<1>3. Roles!CallsUnlocked' /\ UNCHANGED db
  BY DEF Roles!Open, Roles!RoleInv, Roles!CallsUnlocked, Roles!CallUnlocked
<1> QED
  BY <1>2, <1>3, RolesPageInv

\* Another organization is selected.
LEMMA RolesSelectOrgInv ==
  ASSUME Roles!RoleInv, NEW o, Roles!SelectOrg(o)
  PROVE  Roles!RoleInv' /\ Roles!Stands
<1>1. ui' = [selectedOrgId |-> o, dialog |-> ui.dialog]
  BY DEF Roles!SelectOrg, Roles!RoleInv, Roles!DialogUnlocked
<1>2. Roles!DialogUnlocked'
  BY <1>1 DEF Roles!RoleInv, Roles!DialogUnlocked
<1>3. Roles!CallsUnlocked' /\ UNCHANGED db
  BY DEF Roles!SelectOrg, Roles!RoleInv, Roles!CallsUnlocked, Roles!CallUnlocked
<1> QED
  BY <1>2, <1>3, RolesPageInv

\* A name is typed.
LEMMA RolesSetNameInv ==
  ASSUME Roles!RoleInv, NEW name, Roles!SetName(name)
  PROVE  Roles!RoleInv' /\ Roles!Stands
<1>1. ui' = [selectedOrgId |-> ui.selectedOrgId,
             dialog |-> [kind |-> ui.dialog.kind, role |-> ui.dialog.role, name |-> name]]
  BY DEF Roles!SetName, Roles!RoleInv, Roles!DialogUnlocked
<1>2. Roles!DialogUnlocked'
  BY <1>1 DEF Roles!RoleInv, Roles!DialogUnlocked
<1>3. Roles!CallsUnlocked' /\ UNCHANGED db
  BY DEF Roles!SetName, Roles!RoleInv, Roles!CallsUnlocked, Roles!CallUnlocked
<1> QED
  BY <1>2, <1>3, RolesPageInv

\* A step that closes the dialog, or leaves it open.
LEMMA RolesCloseInv ==
  ASSUME Roles!RoleInv, Roles!CallsUnlocked', UNCHANGED db,
         ui' \in {ui, Roles!Fresh, [ui EXCEPT !.dialog = Roles!NoDialog]}
  PROVE  Roles!RoleInv' /\ Roles!Stands
<1>1. CASE ui' = ui
  BY <1>1 DEF Roles!RoleInv, Roles!DialogUnlocked, Roles!Stands
<1>2. CASE ui' = Roles!Fresh
  BY <1>2 DEF Roles!RoleInv, Roles!DialogUnlocked, Roles!Stands, Roles!Fresh, Roles!NoDialog,
     Roles!None
<1>3. CASE ui' = [ui EXCEPT !.dialog = Roles!NoDialog]
  <2>1. ui' = [selectedOrgId |-> ui.selectedOrgId, dialog |-> Roles!NoDialog]
    BY <1>3 DEF Roles!RoleInv, Roles!DialogUnlocked
  <2> QED
    BY <2>1 DEF Roles!RoleInv, Roles!DialogUnlocked, Roles!Stands, Roles!NoDialog, Roles!None
<1> QED
  BY <1>1, <1>2, <1>3

\* A dialog is submitted.
LEMMA RolesSubmitInv ==
  ASSUME Roles!RoleInv, Roles!Submit
  PROVE  Roles!RoleInv' /\ Roles!Stands
<1>1. /\ Roles!Mutate(ui.dialog.kind, ui.dialog.role, ui.dialog.name)
      /\ ui.dialog.kind \in {"create", "edit"}
  BY DEF Roles!Submit
<1>2. Roles!CallsUnlocked'
  BY <1>1, RolesMutateInv DEF Roles!RoleInv, Roles!DialogUnlocked, Roles!Kind
<1> QED
  BY <1>1, <1>2, RolesCloseInv DEF Roles!Mutate

\* A deletion is confirmed.
LEMMA RolesConfirmDeleteInv ==
  ASSUME Roles!RoleInv, Roles!ConfirmDelete
  PROVE  Roles!RoleInv' /\ Roles!Stands
<1>1. Roles!Mutate("delete", ui.dialog.role, Roles!None) /\ ui.dialog.kind = "delete"
  BY DEF Roles!ConfirmDelete
<1>2. Roles!CallsUnlocked'
  BY <1>1, RolesMutateInv DEF Roles!RoleInv, Roles!DialogUnlocked, Roles!Kind
<1> QED
  BY <1>1, <1>2, RolesCloseInv DEF Roles!Mutate

\* A permission is clicked.
LEMMA RolesToggleInv ==
  ASSUME Roles!RoleInv, NEW r, NEW p, Roles!Toggle(r, p)
  PROVE  Roles!RoleInv' /\ Roles!Stands
<1>1. PICK kind \in {"assign", "revoke"} : Roles!Mutate(kind, r, p)
  BY DEF Roles!Toggle
<1>2. r \notin System
  BY DEF Roles!Toggle
<1>3. Roles!CallsUnlocked'
  BY <1>1, <1>2, RolesMutateInv DEF Roles!Kind
<1> QED
  BY <1>1, <1>3, RolesCloseInv DEF Roles!Mutate

\* The page is left and opened again.
LEMMA RolesRemountInv ==
  ASSUME Roles!RoleInv, Roles!Remount
  PROVE  Roles!RoleInv' /\ Roles!Stands
<1>1. \A c \in Roles!Closed(calls) : Roles!CallUnlocked(c)
  BY RolesClosedUnlocked DEF Roles!RoleInv, Roles!CallsUnlocked
<1>2. Roles!CallsUnlocked'
  BY <1>1, RolesUpdatedUnlocked DEF Roles!Remount, Roles!CallsUnlocked, Roles!CallUnlocked
<1> QED
  BY <1>2, RolesCloseInv DEF Roles!Remount

\* The page is told that a call is done.
LEMMA RolesSucceededInv ==
  ASSUME Roles!RoleInv, NEW c \in calls, Roles!Succeeded(c)
  PROVE  Roles!RoleInv' /\ Roles!Stands
<1>1. \A d \in calls \ {c} : Roles!CallUnlocked(d)
  BY DEF Roles!RoleInv, Roles!CallsUnlocked
<1>2. \A d \in Roles!Closed(calls \ {c}) : Roles!CallUnlocked(d)
  BY <1>1, RolesClosedUnlocked
<1>3. Roles!CallsUnlocked'
  BY <1>1, <1>2 DEF Roles!Succeeded, Roles!CallsUnlocked, Roles!CallUnlocked
<1> QED
  BY <1>3, RolesCloseInv DEF Roles!Succeeded

-----------------------------------------------------------------------------
\* No dialog is open and no call is under way.
LEMMA RolesInitInv == Roles!Init => Roles!RoleInv
BY DEF Roles!Init, Roles!RoleInv, Roles!DialogUnlocked, Roles!CallsUnlocked, Roles!Fresh,
       Roles!NoDialog, Roles!None

\* Every step of the roles page keeps its invariant and the system roles, but for
\* a call of another client.
LEMMA RolesNextInv ==
  Roles!RoleInv /\ [Roles!Next]_(Roles!vars) =>
    Roles!RoleInv' /\ (Roles!Elsewhere \/ Roles!Stands)
<1> SUFFICES ASSUME Roles!RoleInv, [Roles!Next]_(Roles!vars)
             PROVE  Roles!RoleInv' /\ (Roles!Elsewhere \/ Roles!Stands)
  OBVIOUS
<1>1. ASSUME NEW o \in Roles!Org, Roles!SelectOrg(o)
      PROVE  Roles!RoleInv' /\ Roles!Stands
  BY <1>1, RolesSelectOrgInv
<1>2. ASSUME Roles!OpenCreate
      PROVE  Roles!RoleInv' /\ Roles!Stands
  BY <1>2, RolesOpenInv DEF Roles!OpenCreate
<1>3. ASSUME NEW r \in Role, Roles!OpenEdit(r) \/ Roles!OpenDelete(r)
      PROVE  Roles!RoleInv' /\ Roles!Stands
  BY <1>3, RolesOpenInv DEF Roles!OpenEdit, Roles!OpenDelete
<1>4. ASSUME NEW r \in Role, NEW p \in Permission, Roles!Toggle(r, p)
      PROVE  Roles!RoleInv' /\ Roles!Stands
  BY <1>4, RolesToggleInv
<1>5. ASSUME NEW name \in Name \cup {Blank}, Roles!SetName(name)
      PROVE  Roles!RoleInv' /\ Roles!Stands
  BY <1>5, RolesSetNameInv
<1>6. ASSUME Roles!CloseDialog
      PROVE  Roles!RoleInv' /\ Roles!Stands
  <2>1. Roles!CallsUnlocked'
    BY <1>6, RolesClosedUnlocked
    DEF Roles!CloseDialog, Roles!RoleInv, Roles!CallsUnlocked, Roles!CallUnlocked
  <2> QED
    BY <1>6, <2>1, RolesCloseInv DEF Roles!CloseDialog
<1>7. ASSUME Roles!Submit
      PROVE  Roles!RoleInv' /\ Roles!Stands
  BY <1>7, RolesSubmitInv
<1>8. ASSUME Roles!ConfirmDelete
      PROVE  Roles!RoleInv' /\ Roles!Stands
  BY <1>8, RolesConfirmDeleteInv
<1>9. ASSUME Roles!Remount
      PROVE  Roles!RoleInv' /\ Roles!Stands
  BY <1>9, RolesRemountInv
<1>10. ASSUME NEW c \in calls, Roles!Serve(c)
       PROVE  Roles!RoleInv' /\ Roles!Stands
  BY <1>10, RolesServeInv
<1>11. ASSUME NEW c \in calls, Roles!Lose(c)
       PROVE  Roles!RoleInv' /\ Roles!Stands
  BY <1>11, RolesSettleInv, RolesCloseInv DEF Roles!Lose
<1>12. ASSUME NEW c \in calls, Roles!Succeeded(c)
       PROVE  Roles!RoleInv' /\ Roles!Stands
  BY <1>12, RolesSucceededInv
<1>13. ASSUME NEW c \in calls, Roles!Failed(c)
       PROVE  Roles!RoleInv' /\ Roles!Stands
  <2>1. Roles!CallsUnlocked'
    BY <1>13 DEF Roles!Failed, Roles!RoleInv, Roles!CallsUnlocked, Roles!CallUnlocked
  <2> QED
    BY <1>13, <2>1, RolesCloseInv DEF Roles!Failed
<1>14. ASSUME UNCHANGED <<ui, calls, db>>
       PROVE  Roles!RoleInv' /\ Roles!Stands
  BY <1>14, RolesCloseInv DEF Roles!RoleInv, Roles!CallsUnlocked, Roles!CallUnlocked
<1>15. ASSUME Roles!Elsewhere
       PROVE  Roles!RoleInv'
  BY <1>15, RolesElsewhereInv
<1> QED
  BY <1>1, <1>2, <1>3, <1>4, <1>5, <1>6, <1>7, <1>8, <1>9, <1>10, <1>11, <1>12, <1>13,
     <1>14, <1>15
  DEF Roles!Next, Roles!Refresh, Roles!vars

-----------------------------------------------------------------------------
(* The types of this page.                                                 *)

\* A call names what its buttons and fields can hold.
RolesCall(c) ==
  /\ c.org \in Roles!Org /\ c.role \in Role \cup {Roles!None}
  /\ c.kind \in {"create", "edit"} => c.arg \in Name
  /\ c.kind = "assign" => c.arg \in Permission

\* The page: an open dialog is about an organization that was selected.
RolesUiTyped ==
  /\ ui.selectedOrgId \in Roles!Org \cup {Roles!None}
  /\ ui.dialog \in [kind : {Roles!None, "create", "edit", "delete"}, role : Role \cup {Roles!None},
                    name : Name \cup {Blank}]
  /\ ui.dialog.kind # Roles!None => ui.selectedOrgId # Roles!None

\* The roles, in the database and in the answers of each organization.
RolesDbTyped == DOMAIN db \subseteq Role /\ \A r \in DOMAIN db : db[r] \in Roles!Row

RolesShownTyped ==
  \A o \in Roles!Org :
    o \in DOMAIN shown /\ \A r \in DOMAIN shown[o] : OrgOf[r] = o /\ shown[o][r] \in Roles!Row

RolesCallsTyped == \A c \in calls : RolesCall(c)

RolesTyped == RolesUiTyped /\ RolesDbTyped /\ RolesShownTyped /\ RolesCallsTyped

\* A call may change its state and what it will close.
LEMMA RolesUpdatedTyped ==
  ASSUME NEW c, Roles!CallUnlocked(c), RolesCall(c), NEW v
  PROVE  /\ RolesCall([c EXCEPT !.state = v])
         /\ RolesCall([c EXCEPT !.mounted = v])
         /\ RolesCall([c EXCEPT !.form = v])
BY DEF Roles!CallUnlocked, RolesCall

\* A dialog that closes leaves its calls as they are.
LEMMA RolesClosedTyped ==
  ASSUME NEW cs, \A c \in cs : Roles!CallUnlocked(c) /\ RolesCall(c)
  PROVE  \A c \in Roles!Closed(cs) : RolesCall(c)
BY RolesUpdatedTyped DEF Roles!Closed

\* A call is served, lost, or done with.
LEMMA RolesSettleTyped ==
  ASSUME Roles!RoleInv, RolesCallsTyped, NEW c \in calls, NEW state, Roles!Settle(c, state)
  PROVE  RolesCallsTyped'
<1>1. RolesCall([c EXCEPT !.state = state])
  BY RolesUpdatedTyped DEF Roles!RoleInv, Roles!CallsUnlocked, RolesCallsTyped
<1>2. \A d \in calls' : RolesCall(d)
  BY <1>1, Zenon DEF Roles!Settle, RolesCallsTyped
<1> QED
  BY <1>2 DEF RolesCallsTyped, RolesCall

\* A call is sent.
LEMMA RolesMutateTyped ==
  ASSUME RolesTyped, NEW kind, NEW role \in Role \cup {Roles!None}, NEW arg,
         Roles!Mutate(kind, role, arg), ui.selectedOrgId # Roles!None,
         kind \in {"create", "edit"} => arg \in Name,
         kind = "assign" => arg \in Permission
  PROVE  RolesTyped'
<1> DEFINE c(form) == [kind |-> kind, org |-> ui.selectedOrgId, role |-> role, arg |-> arg,
                       state |-> "sent", mounted |-> TRUE, form |-> form]
<1>1. ASSUME NEW form
      PROVE  RolesCall(c(form))
  BY DEF RolesCall, RolesTyped, RolesUiTyped
<1>2. calls' = calls \cup {c(kind \in {"create", "edit"})} /\ UNCHANGED <<ui, shown, db>>
  BY DEF Roles!Mutate
<1> HIDE DEF c
<1>3. RolesCallsTyped'
  BY <1>1, <1>2 DEF RolesTyped, RolesCallsTyped, RolesCall
<1> QED
  BY <1>2, <1>3 DEF RolesTyped, RolesUiTyped, RolesDbTyped, RolesShownTyped, Roles!Row

\* What the server makes of the roles.
LEMMA RolesEffectsTyped ==
  ASSUME RolesDbTyped, NEW c, RolesCall(c), db' \in Roles!Effects(c)
  PROVE  RolesDbTyped'
<1>1. CASE c.kind = "create"
  <2>1. PICK r \in Role :
          db' = Roles!With(r, [name |-> c.arg, permissions |-> {}])
    BY <1>1 DEF Roles!Effects
  <2>2. [name |-> c.arg, permissions |-> {}] \in Roles!Row
    BY <1>1 DEF RolesCall, Roles!Row
  <2> QED
    BY <2>1, <2>2 DEF Roles!With, RolesDbTyped
<1>2. CASE c.kind # "create"
  <2>1. c.role \in DOMAIN db
    BY <1>2 DEF Roles!Effects
  <2>2. db[c.role] \in [name : Name, permissions : SUBSET Permission]
    BY <2>1 DEF RolesDbTyped, Roles!Row
  <2>3. ASSUME c.kind = "edit", db' = [db EXCEPT ![c.role].name = c.arg]
        PROVE  RolesDbTyped'
    <3>1. [db[c.role] EXCEPT !.name = c.arg] \in Roles!Row
      BY <2>2, <2>3 DEF RolesCall, Roles!Row
    <3> QED
      BY <2>1, <2>3, <3>1 DEF RolesDbTyped
  <2>4. ASSUME db' = Roles!Restrict(db, DOMAIN db \ {c.role})
        PROVE  RolesDbTyped'
    BY <2>4 DEF RolesDbTyped, Roles!Restrict
  <2>5. ASSUME c.kind = "assign", db' = [db EXCEPT ![c.role].permissions = @ \cup {c.arg}]
        PROVE  RolesDbTyped'
    <3>1. [db[c.role] EXCEPT !.permissions = @ \cup {c.arg}] \in Roles!Row
      BY <2>2, <2>5 DEF RolesCall, Roles!Row
    <3> QED
      BY <2>1, <2>5, <3>1 DEF RolesDbTyped
  <2>6. ASSUME db' = [db EXCEPT ![c.role].permissions = @ \ {c.arg}]
        PROVE  RolesDbTyped'
    <3>1. [db[c.role] EXCEPT !.permissions = @ \ {c.arg}] \in Roles!Row
      BY <2>2 DEF Roles!Row
    <3> QED
      BY <2>1, <2>6, <3>1 DEF RolesDbTyped
  <2> QED
    BY <1>2, <2>1, <2>3, <2>4, <2>5, <2>6 DEF Roles!Effects
<1> QED
  BY <1>1, <1>2

\* Another administrator or client.
LEMMA RolesElsewhereTyped ==
  ASSUME RolesDbTyped, Roles!Elsewhere
  PROVE  RolesDbTyped'
<1>1. PICK kind \in Roles!Kind, o \in Roles!Org, r \in Role :
        \E arg \in Roles!Arg(kind) :
          db' \in Roles!Effects([kind |-> kind, org |-> o, role |-> r, arg |-> arg])
  BY DEF Roles!Elsewhere
<1>2. PICK arg \in Roles!Arg(kind) :
        db' \in Roles!Effects([kind |-> kind, org |-> o, role |-> r, arg |-> arg])
  BY <1>1
<1> DEFINE c == [kind |-> kind, org |-> o, role |-> r, arg |-> arg]
<1>3. RolesCall(c)
  BY DEF RolesCall, Roles!Arg
<1>4. db' \in Roles!Effects(c)
  BY <1>2
<1> HIDE DEF c
<1> QED
  BY <1>3, <1>4, RolesEffectsTyped

\* The page closes its dialog, or is left and opened again.
LEMMA RolesCloseTyped ==
  ASSUME Roles!RoleInv, RolesUiTyped,
         ui' \in {ui, Roles!Fresh, [ui EXCEPT !.dialog = Roles!NoDialog]}
  PROVE  RolesUiTyped'
<1>1. ASSUME ui'.selectedOrgId \in {ui.selectedOrgId, Roles!None}, ui'.dialog = Roles!NoDialog
      PROVE  RolesUiTyped'
  BY <1>1 DEF RolesUiTyped, Roles!NoDialog
<1>2. CASE ui' = ui
  BY <1>2 DEF RolesUiTyped
<1>3. CASE ui' = Roles!Fresh
  BY <1>1, <1>3 DEF Roles!Fresh
<1>4. CASE ui' = [ui EXCEPT !.dialog = Roles!NoDialog]
  <2>1. ui' = [selectedOrgId |-> ui.selectedOrgId, dialog |-> Roles!NoDialog]
    BY <1>4 DEF Roles!RoleInv, Roles!DialogUnlocked
  <2> QED
    BY <1>1, <2>1
<1> QED
  BY <1>2, <1>3, <1>4

\* A dialog is opened about an organization that was selected.
LEMMA RolesOpenTyped ==
  ASSUME Roles!RoleInv, RolesUiTyped, NEW kind \in {"create", "edit", "delete"},
         NEW role \in Role \cup {Roles!None}, NEW name \in Name \cup {Blank},
         Roles!Open(kind, role, name), ui.selectedOrgId # Roles!None
  PROVE  RolesUiTyped'
<1>1. ui' = [selectedOrgId |-> ui.selectedOrgId,
             dialog |-> [kind |-> kind, role |-> role, name |-> name]]
  BY DEF Roles!Open, Roles!RoleInv, Roles!DialogUnlocked
<1> QED
  BY <1>1 DEF RolesUiTyped

\* What the page lists is of the organization that was selected.
LEMMA RolesListed ==
  ASSUME RolesTyped, NEW r \in DOMAIN Roles!roles
  PROVE  ui.selectedOrgId # Roles!None /\ Roles!roles[r] \in Roles!Row
BY DEF RolesTyped, RolesUiTyped, RolesShownTyped, Roles!roles

\* The steps of the page alone.
LEMMA RolesUiStep ==
  ASSUME Roles!RoleInv, RolesTyped,
         \/ \E o \in Roles!Org : Roles!SelectOrg(o)
         \/ Roles!OpenCreate
         \/ \E r \in Role : Roles!OpenEdit(r) \/ Roles!OpenDelete(r)
         \/ \E name \in Name \cup {Blank} : Roles!SetName(name)
  PROVE  RolesTyped'
<1>1. UNCHANGED <<shown, calls, db>>
  BY DEF Roles!SelectOrg, Roles!OpenCreate, Roles!OpenEdit, Roles!OpenDelete, Roles!Open,
         Roles!SetName
<1>2. ASSUME NEW o \in Roles!Org, Roles!SelectOrg(o)
      PROVE  RolesUiTyped'
  <2>1. ui' = [selectedOrgId |-> o, dialog |-> Roles!NoDialog]
    BY <1>2 DEF Roles!SelectOrg, Roles!RoleInv, Roles!DialogUnlocked
  <2> QED
    BY <2>1 DEF RolesUiTyped, Roles!NoDialog
<1>3. ASSUME Roles!OpenCreate
      PROVE  RolesUiTyped'
  BY <1>3, RolesOpenTyped DEF Roles!OpenCreate, RolesTyped
<1>4. ASSUME NEW r \in Role, Roles!OpenEdit(r) \/ Roles!OpenDelete(r)
      PROVE  RolesUiTyped'
  <2>1. ui.selectedOrgId # Roles!None /\ Roles!roles[r] \in Roles!Row
    BY <1>4, RolesListed DEF Roles!OpenEdit, Roles!OpenDelete
  <2> QED
    BY <1>4, <2>1, RolesOpenTyped DEF Roles!OpenEdit, Roles!OpenDelete, Roles!Row, RolesTyped
<1>5. ASSUME NEW name \in Name \cup {Blank}, Roles!SetName(name)
      PROVE  RolesUiTyped'
  <2>1. ui' = [selectedOrgId |-> ui.selectedOrgId,
               dialog |-> [kind |-> ui.dialog.kind, role |-> ui.dialog.role, name |-> name]]
    BY <1>5 DEF Roles!SetName, Roles!RoleInv, Roles!DialogUnlocked
  <2> QED
    BY <2>1 DEF RolesTyped, RolesUiTyped
<1>6. RolesUiTyped'
  BY <1>2, <1>3, <1>4, <1>5
<1> QED
  BY <1>1, <1>6 DEF RolesTyped, RolesDbTyped, RolesShownTyped, RolesCallsTyped, RolesCall, Roles!Row

\* The clicks that send a call.
LEMMA RolesSentStep ==
  ASSUME RolesTyped,
         \/ Roles!Submit
         \/ Roles!ConfirmDelete
         \/ \E r \in Role, p \in Permission : Roles!Toggle(r, p)
  PROVE  RolesTyped'
<1>1. CASE Roles!Submit
  <2>1. /\ Roles!Mutate(ui.dialog.kind, ui.dialog.role, ui.dialog.name)
        /\ ui.dialog.kind \in {"create", "edit"} /\ ui.dialog.name # Blank
    BY <1>1 DEF Roles!Submit
  <2>2. /\ ui.dialog.role \in Role \cup {Roles!None} /\ ui.dialog.name \in Name
        /\ ui.selectedOrgId # Roles!None
    BY <2>1 DEF RolesTyped, RolesUiTyped, Roles!None
  <2> QED
    BY <2>1, <2>2, RolesMutateTyped
<1>2. CASE Roles!ConfirmDelete
  <2>1. Roles!Mutate("delete", ui.dialog.role, Roles!None) /\ ui.dialog.kind = "delete"
    BY <1>2 DEF Roles!ConfirmDelete
  <2>2. ui.dialog.role \in Role \cup {Roles!None} /\ ui.selectedOrgId # Roles!None
    BY <2>1 DEF RolesTyped, RolesUiTyped, Roles!None
  <2> QED
    BY <2>1, <2>2, RolesMutateTyped
<1>3. ASSUME NEW r \in Role, NEW p \in Permission, Roles!Toggle(r, p)
      PROVE  RolesTyped'
  <2>1. PICK kind \in {"assign", "revoke"} : Roles!Mutate(kind, r, p)
    BY <1>3 DEF Roles!Toggle
  <2>2. ui.selectedOrgId # Roles!None
    BY <1>3, RolesListed DEF Roles!Toggle
  <2> QED
    BY <2>1, <2>2, RolesMutateTyped
<1> QED
  BY <1>1, <1>2, <1>3

\* Every step of the roles page keeps the types.
LEMMA RolesNextTyped ==
  Roles!RoleInv /\ RolesTyped /\ [Roles!Next]_(Roles!vars) => RolesTyped'
<1> SUFFICES ASSUME Roles!RoleInv, RolesTyped, [Roles!Next]_(Roles!vars)
             PROVE  RolesTyped'
  OBVIOUS
<1>a. /\ RolesUiTyped /\ RolesDbTyped /\ RolesShownTyped /\ RolesCallsTyped
      /\ \A c \in calls : Roles!CallUnlocked(c) /\ RolesCall(c)
  BY DEF RolesTyped, Roles!RoleInv, Roles!CallsUnlocked, RolesCallsTyped
<1>b. ASSUME UNCHANGED ui PROVE RolesUiTyped'
  BY <1>a, <1>b DEF RolesUiTyped
<1>c. ASSUME UNCHANGED shown PROVE RolesShownTyped'
  BY <1>a, <1>c DEF RolesShownTyped, Roles!Row
<1>d. ASSUME UNCHANGED db PROVE RolesDbTyped'
  BY <1>a, <1>d DEF RolesDbTyped, Roles!Row
<1>e. ASSUME calls' \subseteq calls PROVE RolesCallsTyped'
  BY <1>a, <1>e DEF RolesCallsTyped, RolesCall
<1>1. ASSUME NEW o \in Roles!Org, Roles!Refresh(o)
      PROVE  RolesTyped'
  <2> DEFINE answer == Roles!Restrict(db, { r \in DOMAIN db : OrgOf[r] = o })
  <2>1. shown' = [shown EXCEPT ![o] = answer] /\ UNCHANGED <<ui, calls, db>>
    BY <1>1 DEF Roles!Refresh
  <2>2. \A r \in DOMAIN answer : OrgOf[r] = o /\ answer[r] \in Roles!Row
    BY <1>a DEF RolesDbTyped, Roles!Restrict
  <2> HIDE DEF answer
  <2>3. RolesShownTyped'
    BY <1>a, <2>1, <2>2 DEF RolesShownTyped, Roles!Row
  <2> QED
    BY <1>b, <1>d, <1>e, <2>1, <2>3 DEF RolesTyped
<1>2. ASSUME Roles!CloseDialog
      PROVE  RolesTyped'
  <2>1. \A c \in calls' : RolesCall(c)
    BY <1>a, <1>2, RolesClosedTyped DEF Roles!CloseDialog
  <2>2. RolesCallsTyped'
    BY <2>1 DEF RolesCallsTyped, RolesCall
  <2>3. RolesUiTyped' /\ UNCHANGED <<shown, db>>
    BY <1>a, <1>2, RolesCloseTyped DEF Roles!CloseDialog
  <2> QED
    BY <1>c, <1>d, <2>2, <2>3 DEF RolesTyped
<1>3. ASSUME Roles!Remount
      PROVE  RolesTyped'
  <2>1. \A c \in Roles!Closed(calls) : Roles!CallUnlocked(c) /\ RolesCall(c)
    BY <1>a, RolesClosedTyped, RolesClosedUnlocked
  <2>2. ASSUME NEW c \in Roles!Closed(calls), NEW m
        PROVE  RolesCall([c EXCEPT !.mounted = m])
    BY <2>1, RolesUpdatedTyped
  <2> DEFINE left == { [c EXCEPT !.mounted = FALSE] : c \in Roles!Closed(calls) }
  <2>a. \A c \in left : RolesCall(c)
    BY <2>2, Zenon
  <2>b. calls' = left
    BY <1>3 DEF Roles!Remount
  <2> HIDE DEF left
  <2>3. \A c \in calls' : RolesCall(c)
    BY <2>a, <2>b
  <2>4. RolesCallsTyped'
    BY <2>3 DEF RolesCallsTyped, RolesCall
  <2>5. RolesUiTyped' /\ UNCHANGED <<shown, db>>
    BY <1>a, <1>3, RolesCloseTyped DEF Roles!Remount
  <2> QED
    BY <1>c, <1>d, <2>4, <2>5 DEF RolesTyped
<1>4. ASSUME NEW c \in calls, Roles!Serve(c)
      PROVE  RolesTyped'
  <2>1. UNCHANGED <<ui, shown>> /\ \E state : Roles!Settle(c, state)
    BY <1>4 DEF Roles!Serve
  <2>2. RolesCallsTyped'
    BY <1>a, <2>1, RolesSettleTyped
  <2>3. RolesDbTyped'
    BY <1>a, <1>d, <1>4, RolesEffectsTyped DEF Roles!Serve
  <2> QED
    BY <1>b, <1>c, <2>1, <2>2, <2>3 DEF RolesTyped
<1>5. ASSUME NEW c \in calls, Roles!Lose(c)
      PROVE  RolesTyped'
  BY <1>a, <1>b, <1>c, <1>d, <1>5, RolesSettleTyped DEF Roles!Lose, RolesTyped
<1>6. ASSUME NEW c \in calls, Roles!Succeeded(c)
      PROVE  RolesTyped'
  <2>1. \A d \in calls' : RolesCall(d)
    <3>1. \A d \in calls \ {c} : Roles!CallUnlocked(d) /\ RolesCall(d)
      BY <1>a
    <3>2. \A d \in Roles!Closed(calls \ {c}) : RolesCall(d)
      BY <3>1, RolesClosedTyped
    <3> QED
      BY <1>6, <3>1, <3>2 DEF Roles!Succeeded
  <2>2. RolesCallsTyped'
    BY <2>1 DEF RolesCallsTyped, RolesCall
  <2>3. RolesUiTyped' /\ UNCHANGED <<shown, db>>
    BY <1>a, <1>6, RolesCloseTyped DEF Roles!Succeeded
  <2> QED
    BY <1>c, <1>d, <2>2, <2>3 DEF RolesTyped
<1>7. ASSUME NEW c \in calls, Roles!Failed(c)
      PROVE  RolesTyped'
  BY <1>b, <1>c, <1>d, <1>e, <1>7 DEF Roles!Failed, RolesTyped
<1>8. ASSUME Roles!Elsewhere
      PROVE  RolesTyped'
  BY <1>a, <1>b, <1>c, <1>e, <1>8, RolesElsewhereTyped DEF Roles!Elsewhere, RolesTyped
<1>9. ASSUME UNCHANGED Roles!vars
      PROVE  RolesTyped'
  BY <1>b, <1>c, <1>d, <1>e, <1>9 DEF Roles!vars, RolesTyped
<1> QED
  BY <1>1, <1>2, <1>3, <1>4, <1>5, <1>6, <1>7, <1>8, <1>9, RolesUiStep, RolesSentStep
  DEF Roles!Next

\* Before the first answer; the system roles are roles.
LEMMA RolesInitTyped == Roles!Init => RolesTyped
<1> SUFFICES ASSUME Roles!Init PROVE RolesTyped
  OBVIOUS
<1>1. RolesUiTyped
  BY DEF Roles!Init, Roles!Fresh, Roles!NoDialog, RolesUiTyped
<1>2. RolesShownTyped
  BY DEF Roles!Init, RolesShownTyped
<1>3. RolesDbTyped
  BY RoleAssumption DEF Roles!Init, RolesDbTyped, Roles!Row
<1> QED
  BY <1>1, <1>2, <1>3 DEF Roles!Init, RolesTyped, RolesCallsTyped

\* This is what the page keeps of its types.
LEMMA RolesTypes == Roles!RoleInv /\ RolesTyped => Roles!TypeOK
BY DEF Roles!RoleInv, RolesTyped, RolesUiTyped, RolesDbTyped, RolesShownTyped, RolesCallsTyped,
       RolesCall, Roles!TypeOK

-----------------------------------------------------------------------------
(***************************************************************************)
(* What holds of every page                                                *)
(***************************************************************************)

SubmissionsInv == page = "upload" => Upload!UploadInv
EditsInv == page = "requirements" => Requirements!EditorInv
UnlockedInv == page = "roles" => Roles!RoleInv

\* A submission sends its own file to the container that it has created, and
\* the page is done only when the file is there.
THEOREM SubmissionsKeepTheirFile == Spec => []SubmissionsInv
<1>1. Init => SubmissionsInv
  BY UploadInitInv, PageNames DEF Init, SubmissionsInv
<1>2. SubmissionsInv /\ [Next]_vars => SubmissionsInv'
  <2> SUFFICES ASSUME SubmissionsInv, [Next]_vars, page' = "upload"
               PROVE  Upload!UploadInv'
    BY DEF SubmissionsInv
  <2>1. page = "upload" /\ Upload!UploadInv
    BY PageStays DEF SubmissionsInv
  <2>2. [Upload!Next]_(Upload!vars)
    BY <2>1, PageNames DEF Next, vars, Upload!vars
  <2> QED
    BY <2>1, <2>2, UploadNextInv
<1> QED
  BY <1>1, <1>2, PTL DEF Spec

\* However the form is edited while its calls run, and however many of them do,
\* a container holds the file that was submitted with its identifier.
THEOREM FilesAreAsSubmitted == Spec => []StoredAsSubmitted
<1>1. SubmissionsInv => StoredAsSubmitted
  BY DEF SubmissionsInv, StoredAsSubmitted, Upload!UploadInv
<1> QED
  BY <1>1, SubmissionsKeepTheirFile, PTL

\* The page that says done links to a container that has its file.
THEOREM DoneMeansStored == Spec => []DoneIsStored
<1>1. SubmissionsInv => DoneIsStored
  BY DEF SubmissionsInv, DoneIsStored, Upload!UploadInv
<1> QED
  BY <1>1, SubmissionsKeepTheirFile, PTL

\* Every row in edit mode has the form that was loaded from its item, and every
\* call that edits an item sends what was loaded from it.
THEOREM FormsStayWithTheirRows == Spec => []EditsInv
<1>1. Init => EditsInv
  BY RequirementsInitInv, PageNames DEF Init, EditsInv
<1>2. EditsInv /\ [Next]_vars => EditsInv'
  <2> SUFFICES ASSUME EditsInv, [Next]_vars, page' = "requirements"
               PROVE  Requirements!EditorInv'
    BY DEF EditsInv
  <2>1. page = "requirements" /\ Requirements!EditorInv
    BY PageStays DEF EditsInv
  <2>2. [Requirements!Next]_(Requirements!vars)
    BY <2>1, PageNames DEF Next, vars, Requirements!vars
  <2> QED
    BY <2>1, <2>2, RequirementsNextInv
<1> QED
  BY <1>1, <1>2, PTL DEF Spec

\* However often the list is read again under open forms, an item is only
\* overwritten with what was loaded from it.
THEOREM EditsKeepTheirItem == Spec => []EditKeepsItsItem
<1>1. EditsInv => EditKeepsItsItem
  BY DEF EditsInv, EditKeepsItsItem, Requirements!EditorInv, Requirements!ItemsInv
<1> QED
  BY <1>1, FormsStayWithTheirRows, PTL

\* One step of the page, if it is the roles page.
LEMMA RolesStep ==
  UnlockedInv /\ [Next]_vars =>
    /\ UnlockedInv'
    /\ page = "roles" => Roles!Elsewhere \/ Roles!Stands
<1> SUFFICES ASSUME UnlockedInv, [Next]_vars, page = "roles"
             PROVE  Roles!RoleInv' /\ (Roles!Elsewhere \/ Roles!Stands)
  BY PageStays DEF UnlockedInv
<1>1. Roles!RoleInv
  BY DEF UnlockedInv
<1>2. [Roles!Next]_(Roles!vars)
  BY PageNames DEF Next, vars, Roles!vars
<1> QED
  BY <1>1, <1>2, RolesNextInv

\* No dialog is open about a system role, and no call is on its way that
\* changes one: the lock of the page holds for calls that are already sent.
THEOREM RolesAreUnlocked == Spec => []UnlockedInv
<1>1. Init => UnlockedInv
  BY RolesInitInv, PageNames DEF Init, UnlockedInv
<1> QED
  BY <1>1, RolesStep, PTL DEF Spec

\* Nothing that is clicked on the page changes a system role or what it may; only
\* a call that another client makes of the routes can.
THEOREM SystemRolesNeverChange == Spec => SystemRolesStand
<1>1. UnlockedInv /\ [Next]_vars =>
        [page = "roles" => Roles!Elsewhere \/ \A r \in System : db'[r] = db[r]]_vars
  BY RolesStep, Zenon DEF Roles!Stands
<1> QED
  BY <1>1, RolesAreUnlocked, PTL DEF Spec, SystemRolesStand

\* Both forms hold words, whatever is typed into them.
FormsInv == page \in {"upload", "builder"} => Upload!SegmentsInv

\* Every step of the two pages keeps the words, and no other step is theirs.
LEMMA FormsHoldWords == Spec => []FormsInv
<1>1. Init => FormsInv
  BY SegmentsInit DEF Init, FormsInv, Followed
<1>2. FormsInv /\ [Next]_vars => FormsInv'
  <2> SUFFICES ASSUME FormsInv, [Next]_vars, page' \in {"upload", "builder"}
               PROVE  Upload!SegmentsInv'
    BY DEF FormsInv
  <2>1. page' = page /\ Upload!SegmentsInv
    BY PageStays DEF FormsInv
  <2>2. CASE page = "upload"
    <3>1. [Upload!Next]_(Upload!vars)
      BY <2>2 DEF Next, vars, Upload!vars, Followed
    <3> QED
      BY <2>1, <3>1, UploadSegmentsStep
  <2>3. CASE page = "builder"
    <3>1. [Builder!Next]_(Builder!vars)
      BY <2>3 DEF Next, vars, Builder!vars, Followed
    <3> QED
      BY <2>1, <3>1, BuilderSegmentsStep
  <2> QED
    BY <2>1, <2>2, <2>3
<1> QED
  BY <1>1, <1>2, PTL DEF Spec

\* What the form calls conforming, up to the list of information types, the
\* default rule of the server finds compliant, whatever the words are.
THEOREM FormKeepsItsPromise == Spec => []OnlyTypesDiffer
<1>1. FormsInv => OnlyTypesDiffer
  BY PassingIsCompliant DEF FormsInv, OnlyTypesDiffer
<1> QED
  BY <1>1, FormsHoldWords, PTL

\* The pages with forms.
FormTypesInv ==
  /\ page = "upload" => UploadTyped
  /\ page = "builder" => BuilderTyped
  /\ page = "requirements" => RequirementsTyped
  /\ page = "roles" => RolesTyped

\* One step of these pages.
LEMMA FormTypesStep ==
  SubmissionsInv /\ FormsInv /\ EditsInv /\ UnlockedInv /\ FormTypesInv /\ [Next]_vars =>
    FormTypesInv'
<1> SUFFICES ASSUME SubmissionsInv, FormsInv, EditsInv, UnlockedInv, FormTypesInv, [Next]_vars
             PROVE  FormTypesInv'
  OBVIOUS
<1>1. ASSUME page' = "upload"
      PROVE  UploadTyped'
  <2>1. page = "upload" /\ Upload!UploadInv /\ Upload!SegmentsInv /\ UploadTyped
    BY <1>1, PageStays DEF SubmissionsInv, FormsInv, FormTypesInv
  <2>2. [Upload!Next]_(Upload!vars)
    BY <2>1, PageNames DEF Next, vars, Upload!vars
  <2> QED
    BY <2>1, <2>2, UploadNextTyped
<1>2. ASSUME page' = "builder"
      PROVE  BuilderTyped'
  <2>1. page = "builder" /\ BuilderTyped
    BY <1>2, PageStays DEF FormTypesInv
  <2>2. [Builder!Next]_(Builder!vars)
    BY <2>1, PageNames DEF Next, vars, Builder!vars
  <2> QED
    BY <2>1, <2>2, BuilderNextTyped
<1>3. ASSUME page' = "requirements"
      PROVE  RequirementsTyped'
  <2>1. page = "requirements" /\ Requirements!EditorInv /\ RequirementsTyped
    BY <1>3, PageStays DEF EditsInv, FormTypesInv
  <2>2. [Requirements!Next]_(Requirements!vars)
    BY <2>1, PageNames DEF Next, vars, Requirements!vars
  <2> QED
    BY <2>1, <2>2, RequirementsNextTyped
<1>4. ASSUME page' = "roles"
      PROVE  RolesTyped'
  <2>1. page = "roles" /\ Roles!RoleInv /\ RolesTyped
    BY <1>4, PageStays DEF UnlockedInv, FormTypesInv
  <2>2. [Roles!Next]_(Roles!vars)
    BY <2>1, PageNames DEF Next, vars, Roles!vars
  <2> QED
    BY <2>1, <2>2, RolesNextTyped
<1> QED
  BY <1>1, <1>2, <1>3, <1>4 DEF FormTypesInv

\* What the forms hold can be typed or chosen, and their calls carry no more.
LEMMA FormTypesHold == Spec => []FormTypesInv
<1>1. Init => FormTypesInv
  BY UploadInitTyped, BuilderInitTyped, RequirementsInitTyped, RolesInitTyped, PageNames
  DEF Init, FormTypesInv
<1> QED
  BY <1>1, FormTypesStep, SubmissionsKeepTheirFile, FormsHoldWords, FormsStayWithTheirRows,
     RolesAreUnlocked, PTL DEF Spec

\* Every page keeps the types of what it shows, holds and sends, and of the rows
\* that its calls and the other users change.
THEOREM PagesAreTyped == Spec => []PagesTypeOK
<1>1. ASSUME ShowTypesInv, FiguresInv, DecisionsInv, ListsInv, FormTypesInv, EditsInv, UnlockedInv
      PROVE  PagesTypeOK
  <2>1. /\ page = "approvals" => Approvals!TypeOK
        /\ page = "namingRules" => NamingRules!TypeOK
        /\ page = "cache" => Cache!TypeOK
        /\ \A p \in DOMAIN Followed : page = p => Containers(Followed[p])!TypeOK
        /\ page = "views" => Views!TypeOK
    BY <1>1, ShowTypes
  <2>2. /\ page = "upload" => Upload!TypeOK
        /\ page = "builder" => Builder!TypeOK
        /\ page = "requirements" => Requirements!TypeOK
        /\ page = "roles" => Roles!TypeOK
    BY <1>1, UploadTypes, BuilderTypes, RequirementsTypes, RolesTypes
    DEF FormTypesInv, EditsInv, UnlockedInv
  <2> QED
    BY <2>1, <2>2 DEF PagesTypeOK
<1> QED
  BY <1>1, ShowTypesHold, AnswersAreKeyed, DecisionsAreRecorded, KeptReadsAreRecorded,
     FormTypesHold, FormsStayWithTheirRows, RolesAreUnlocked, PTL
=============================================================================
