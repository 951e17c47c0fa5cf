------------------------------ MODULE FileStore ------------------------------
(***************************************************************************)
(* The files of information containers: the rows of container_files and    *)
(* container_revisions in PostgreSQL, and the objects in the S3 bucket.    *)
(* The two stores share no transaction.  A request is one database         *)
(* transaction at READ COMMITTED with calls to the object store in         *)
(* between; it may die at any await, and then its rows are rolled back     *)
(* while what it did to the object store stays done.                       *)
(***************************************************************************)
EXTENDS Integers, Sequences, FiniteSets, CdeStates

CONSTANTS
  Container,
  File,       \* ids uploads draw: a file row, its revision and its object share one
  Request,    \* requests in flight at the same time
  None        \* NULL

ASSUME NoneAssumption == None \notin Container \cup File

VARIABLES
  current_state,  \* information_containers.current_state
  files,          \* ids with a row in container_files
  revisions,      \* rows of container_revisions, per container in commit order
  object,         \* the object of each id in the bucket
  phase,          \* the await each request is at
  job             \* its arguments and what it has read so far

tables == <<current_state, files, revisions>>
vars == <<tables, object, phase, job>>

Phase == {"idle", "upload.put", "upload.count", "upload.insert", "upload.commit",
          "delete.find", "delete.object", "delete.commit"}

\* after: how many revisions were committed when the upload began, kept only to
\* state what the version codes promise.
NoJob == [cont |-> None, file |-> None, number |-> 0, after |-> 0]

Goto(r, j, p) ==
  /\ phase' = [phase EXCEPT ![r] = p]
  /\ job' = [job EXCEPT ![r] = j]

Finish(r) == Goto(r, NoJob, "idle")

\* An error answer, a lost client, a dead worker: the transaction is undone.
Rollback(r) ==
  /\ phase[r] # "idle"
  /\ Finish(r)
  /\ UNCHANGED <<tables, object>>

\* 409: neither endpoint does anything in a container it sees outside WIP.
Conflict(r, c) ==
  /\ phase[r] = "idle"
  /\ current_state[c] # "WIP"
  /\ UNCHANGED vars

\* An inserted row holds FOR KEY SHARE on the container its foreign key names,
\* which a transition's FOR UPDATE waits for.
HoldsKeyShare(q, c) == phase[q] = "upload.commit" /\ job[q].cont = c

-----------------------------------------------------------------------------
(* POST .../upload                                                         *)

\* Membership, permission and content type are granted; the others change
\* nothing.
UploadBegin(r, c) ==
  /\ phase[r] = "idle"
  /\ current_state[c] = "WIP"
  /\ Goto(r, [NoJob EXCEPT !.cont = c, !.after = Len(revisions[c])], "upload.put")
  /\ UNCHANGED <<tables, object>>

Fresh(f) == object[f] = "absent" /\ \A q \in Request : job[q].file # f

\* Faulty: an error of the put is swallowed and the rows are written all the same.
UploadPut_ErrorIgnored(r, f) ==
  /\ phase[r] = "upload.put"
  /\ Fresh(f)
  /\ Goto(r, [job[r] EXCEPT !.file = f], "upload.count")
  /\ UNCHANGED <<tables, object>>
\* The stream is read and scanned (too large, infected or no scanner: the
\* request is refused, which is Rollback), then the object is put.
UploadPut(r, f) ==
  /\ phase[r] = "upload.put"
  /\ Fresh(f)
  /\ object' = [object EXCEPT ![f] = "stored"]
  /\ Goto(r, [job[r] EXCEPT !.file = f], "upload.count")
  /\ UNCHANGED tables

\* The bucket stored the object but the answer was lost: 503.
UploadPutUnanswered(r, f) ==
  /\ phase[r] = "upload.put"
  /\ Fresh(f)
  /\ object' = [object EXCEPT ![f] = "stored"]
  /\ Finish(r)
  /\ UNCHANGED tables

\* Faulty: the version counts the files the container has now, not its revisions.
UploadCount_Files(r) ==
  LET c == job[r].cont
  IN /\ phase[r] = "upload.count"
     /\ Goto(r, [job[r] EXCEPT !.number =
                   Cardinality({ k \in DOMAIN revisions[c] : revisions[c][k].file \in files }) + 1],
             "upload.insert")
     /\ UNCHANGED <<tables, object>>
UploadCount(r) ==
  /\ phase[r] = "upload.count"
  /\ Goto(r, [job[r] EXCEPT !.number = Len(revisions[job[r].cont]) + 1], "upload.insert")
  /\ UNCHANGED <<tables, object>>

UploadInsert(r) ==
  /\ phase[r] = "upload.insert"
  /\ Goto(r, job[r], "upload.commit")
  /\ UNCHANGED <<tables, object>>

\* Faulty: the revision is flushed before it is given its file_id.
RevisionRow_NoFile(j) == [file |-> None, number |-> j.number, after |-> j.after]
RevisionRow(j) == [file |-> j.file, number |-> j.number, after |-> j.after]

UploadCommit(r) ==
  LET j == job[r]
  IN /\ phase[r] = "upload.commit"
     /\ revisions' = [revisions EXCEPT ![j.cont] = Append(@, RevisionRow(j))]
     /\ files' = files \cup {j.file}
     /\ Finish(r)
     /\ UNCHANGED <<current_state, object>>

-----------------------------------------------------------------------------
(* DELETE .../files/{file_id}: the object first, then the row.             *)

DeleteBegin(r, c, f) ==
  /\ phase[r] = "idle"
  /\ current_state[c] = "WIP"
  /\ Goto(r, [NoJob EXCEPT !.cont = c, !.file = f], "delete.find")
  /\ UNCHANGED <<tables, object>>

RevisionsOf(c) == { revisions[c][k].file : k \in DOMAIN revisions[c] }

DeleteFind(r) ==
  /\ phase[r] = "delete.find"
  /\ IF job[r].file \in files /\ job[r].file \in RevisionsOf(job[r].cont)
     THEN Goto(r, job[r], "delete.object")
     ELSE Finish(r)
  /\ UNCHANGED <<tables, object>>

DeleteObject(r) ==
  /\ phase[r] = "delete.object"
  /\ object' = [object EXCEPT ![job[r].file] = "deleted"]
  /\ Goto(r, job[r], "delete.commit")
  /\ UNCHANGED tables

DeleteObjectUnanswered(r) ==
  /\ phase[r] = "delete.object"
  /\ object' = [object EXCEPT ![job[r].file] = "deleted"]
  /\ Finish(r)
  /\ UNCHANGED tables

DeleteCommit(r) ==
  /\ phase[r] = "delete.commit"
  /\ files' = files \ {job[r].file}
  /\ Finish(r)
  /\ UNCHANGED <<current_state, revisions, object>>

-----------------------------------------------------------------------------
(* A committed transition, as ContainerLifecycle has it: it waits for every *)
(* uncommitted insert that references the container, and for nothing else.  *)

Transition(c, t) ==
  /\ \A q \in Request : ~HoldsKeyShare(q, c)
  /\ current_state[c] = t.from
  /\ current_state' = [current_state EXCEPT ![c] = t.to]
  /\ UNCHANGED <<files, revisions, object, phase, job>>

-----------------------------------------------------------------------------
Init ==
  /\ current_state = [c \in Container |-> "WIP"]
  /\ files = {}
  /\ revisions = [c \in Container |-> << >>]
  /\ object = [f \in File |-> "absent"]
  /\ phase = [r \in Request |-> "idle"]
  /\ job = [r \in Request |-> NoJob]

Step(r) ==
  \/ \E c \in Container : UploadBegin(r, c) \/ Conflict(r, c)
  \/ \E f \in File : UploadPut(r, f) \/ UploadPutUnanswered(r, f)
  \/ UploadCount(r) \/ UploadInsert(r) \/ UploadCommit(r)
  \/ \E c \in Container, f \in File : DeleteBegin(r, c, f)
  \/ DeleteFind(r) \/ DeleteObject(r) \/ DeleteObjectUnanswered(r) \/ DeleteCommit(r)
  \/ Rollback(r)

Next ==
  \/ \E r \in Request : Step(r)
  \/ \E c \in Container, t \in VALID_TRANSITIONS : Transition(c, t)

Spec == Init /\ [][Next]_vars

-----------------------------------------------------------------------------
(* Properties                                                              *)

Revision == [file : File, number : Nat, after : Nat]
Job == [cont : Container \cup {None}, file : File \cup {None}, number : Nat, after : Nat]

TypeOK ==
  /\ current_state \in [Container -> ContainerState]
  /\ files \subseteq File
  /\ revisions \in [Container -> Seq(Revision)]
  /\ object \in [File -> {"absent", "stored", "deleted"}]
  /\ phase \in [Request -> Phase]
  /\ job \in [Request -> Job]

\* Rows and objects agree as far as the order of the two stores allows: a
\* file row never precedes its object (it can only outlive it), and a revision
\* without its file row is one whose object was deleted; no crash, retry or
\* concurrent delete leaves a revision that lost a file still in the bucket.
RowsFollowObjects ==
  /\ \A f \in files : object[f] # "absent"
  /\ \A c \in Container : \A k \in DOMAIN revisions[c] :
       revisions[c][k].file \in files \/ object[revisions[c][k].file] = "deleted"

\* Version codes follow time: an upload that began after a revision was
\* committed gets a greater number than that revision, whatever uploads and
\* deletes ran in between.  (Uploads that overlap may share a number.)
VersionsFollowTime ==
  \A c \in Container : \A k \in DOMAIN revisions[c] :
    \A i \in 1..revisions[c][k].after : revisions[c][i].number < revisions[c][k].number

\* README, "search and revisions": every upload is recorded as a version of its
\* own, P01.01, P01.02, ...
VersionCodesUnique ==
  \A c \in Container : \A i, k \in DOMAIN revisions[c] :
    revisions[c][i].number = revisions[c][k].number => i = k
==============================================================================
