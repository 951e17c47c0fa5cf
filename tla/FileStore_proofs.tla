--------------------------- MODULE FileStore_proofs ---------------------------
(***************************************************************************)
(* Theorems about FileStore, for every number of containers, uploads and   *)
(* requests.                                                               *)
(***************************************************************************)
EXTENDS FileStore, SequenceTheorems, TLAPS

UploadPhase == {"upload.put", "upload.count", "upload.insert", "upload.commit"}
DeletePhase == {"delete.find", "delete.object", "delete.commit"}

\* What a request has done to the bucket and read of the revisions.
JobInv(r) ==
  LET j == job[r]
  IN /\ phase[r] \in UploadPhase => j.cont \in Container /\ j.after <= Len(revisions[j.cont])
     /\ phase[r] \in UploadPhase \ {"upload.put"} => j.file \in File /\ object[j.file] # "absent"
     /\ phase[r] \in {"upload.insert", "upload.commit"} =>
          j.after < j.number /\ j.number <= Len(revisions[j.cont]) + 1
     /\ phase[r] \in DeletePhase => j.cont \in Container /\ j.file \in File
     /\ phase[r] = "delete.commit" => object[j.file] = "deleted"

\* A number never exceeds its revision's position, and always exceeds the
\* positions committed before its upload began.
NumbersBounded ==
  \A c \in Container : \A k \in DOMAIN revisions[c] :
    revisions[c][k].number <= k /\ revisions[c][k].after < revisions[c][k].number

FileInv ==
  /\ TypeOK
  /\ \A r \in Request : JobInv(r)
  /\ RowsFollowObjects
  /\ NumbersBounded

-----------------------------------------------------------------------------
\* The fields of a revision.
LEMMA RevisionTyped ==
  ASSUME TypeOK, NEW c \in Container, NEW k \in DOMAIN revisions[c]
  PROVE  /\ revisions[c][k].file \in File
         /\ revisions[c][k].number \in Nat
         /\ revisions[c][k].after \in Nat
<1>1. revisions[c] \in Seq(Revision)
  BY DEF TypeOK
<1>2. revisions[c][k] \in Revision
  BY <1>1
<1> QED
  BY <1>2 DEF Revision

\* The invariant holds of the empty store.
LEMMA FileInvInit == Init => FileInv
<1> SUFFICES ASSUME Init PROVE FileInv
  OBVIOUS
<1>1. TypeOK
  BY DEF Init, TypeOK, NoJob, Job, Phase, ContainerState
<1>2. \A r \in Request : JobInv(r)
  BY DEF Init, JobInv, UploadPhase, DeletePhase
<1>3. RowsFollowObjects /\ NumbersBounded
  BY DEF Init, RowsFollowObjects, NumbersBounded
<1> QED
  BY <1>1, <1>2, <1>3 DEF FileInv

\* Rows are only added and objects only stored and then deleted, so whatever a
\* request knows survives the steps of the others.
Grows ==
  /\ \A c \in Container : Len(revisions[c]) <= Len(revisions'[c])
  /\ \A f \in File : /\ object[f] # "absent" => object'[f] # "absent"
                     /\ object[f] = "deleted" => object'[f] = "deleted"

\* What the other requests rely on survives a store that only grows.
LEMMA OtherJobs ==
  ASSUME FileInv, NEW r \in Request, NEW j, NEW p, Goto(r, j, p), Grows,
         revisions' \in [Container -> Seq(Revision)]
  PROVE  \A q \in Request \ {r} : JobInv(q)'
<1> SUFFICES ASSUME NEW q \in Request \ {r} PROVE JobInv(q)'
  OBVIOUS
<1>1. phase'[q] = phase[q] /\ job'[q] = job[q]
  BY DEF FileInv, TypeOK, Goto
<1>2. JobInv(q)
  BY DEF FileInv
<1>3. job[q] \in Job
  BY DEF FileInv, TypeOK
<1>4. \A c \in Container : Len(revisions[c]) \in Nat /\ Len(revisions'[c]) \in Nat
  BY DEF FileInv, TypeOK
<1> QED
  BY <1>1, <1>2, <1>3, <1>4 DEF JobInv, Grows, Job, UploadPhase, DeletePhase

\* A step that moves one request and touches no table keeps the invariant if
\* it does for that request.
LEMMA RequestMoves ==
  ASSUME FileInv, NEW r \in Request, NEW j \in Job, NEW p \in Phase, Goto(r, j, p),
         UNCHANGED <<tables, object>>, JobInv(r)'
  PROVE  FileInv'
<1>1. TypeOK'
  BY DEF FileInv, TypeOK, Goto, tables
<1>2. Grows
  BY DEF FileInv, TypeOK, Grows, tables
<1>3. \A q \in Request : JobInv(q)'
  BY <1>2, OtherJobs DEF FileInv, TypeOK, tables
<1>4. (RowsFollowObjects /\ NumbersBounded)'
  BY DEF FileInv, RowsFollowObjects, NumbersBounded, tables
<1> QED
  BY <1>1, <1>3, <1>4 DEF FileInv

\* A request that is idle holds a job, too.
LEMMA NoJobIsJob == NoJob \in Job
BY DEF NoJob, Job

\* The object of f is put or deleted and the request goes on, or ends.
LEMMA ObjectMoves ==
  ASSUME FileInv, NEW r \in Request, NEW j \in Job, NEW p \in Phase, Goto(r, j, p),
         NEW f \in File, NEW x \in {"stored", "deleted"},
         x = "stored" => object[f] = "absent",
         object' = [object EXCEPT ![f] = x], UNCHANGED tables, JobInv(r)'
  PROVE  FileInv'
<1>1. TypeOK'
  BY DEF FileInv, TypeOK, Goto, tables
<1>2. Grows
  BY DEF FileInv, TypeOK, Grows, tables
<1>3. \A q \in Request : JobInv(q)'
  BY <1>2, OtherJobs DEF FileInv, TypeOK, tables
<1>4. NumbersBounded'
  BY DEF FileInv, NumbersBounded, tables
<1>5. RowsFollowObjects'
  <2>1. \A g \in files : object[g] # "absent" /\ g \in File
    BY DEF FileInv, RowsFollowObjects, TypeOK
  <2>2. \A c \in Container : \A k \in DOMAIN revisions[c] : revisions[c][k].file \in File
    BY RevisionTyped DEF FileInv
  <2>3. files' = files /\ revisions' = revisions
    BY DEF tables
  <2>4. \A g \in files : object'[g] # "absent"
    BY <1>2, <2>1 DEF Grows
  <2>5. ASSUME NEW c \in Container, NEW k \in DOMAIN revisions[c]
        PROVE  revisions[c][k].file \in files \/ object'[revisions[c][k].file] = "deleted"
    BY <1>2, <2>2 DEF Grows, FileInv, RowsFollowObjects
  <2> QED
    BY <2>3, <2>4, <2>5 DEF RowsFollowObjects
<1> QED
  BY <1>1, <1>3, <1>4, <1>5 DEF FileInv

\* A request ends, or its process does, and leaves the tables.
LEMMA EndKeeps ==
  ASSUME FileInv, NEW r \in Request, Finish(r), UNCHANGED <<tables, object>>
  PROVE  FileInv'
<1>1. JobInv(r)'
  BY DEF FileInv, TypeOK, Finish, Goto, JobInv, UploadPhase, DeletePhase
<1> QED
  BY <1>1, NoJobIsJob, RequestMoves DEF Finish, Phase

\* The rows of an upload are committed, after its object.
LEMMA UploadCommitKeeps ==
  ASSUME FileInv, NEW r \in Request, UploadCommit(r)
  PROVE  FileInv'
<1> DEFINE j == job[r]
           c == job[r].cont
           n == Len(revisions[c]) + 1
<1>1. /\ j \in Job /\ c \in Container /\ j.file \in File /\ object[j.file] # "absent"
      /\ j.after < j.number /\ j.number <= n
  BY DEF FileInv, TypeOK, JobInv, UploadCommit, UploadPhase
<1>2. RevisionRow(j) \in Revision
  BY <1>1 DEF RevisionRow, Revision, Job
<1>3. /\ revisions'[c] = Append(revisions[c], RevisionRow(j))
      /\ \A d \in Container : d # c => revisions'[d] = revisions[d]
  BY <1>1 DEF UploadCommit, FileInv, TypeOK
<1>4. revisions[c] \in Seq(Revision)
  BY <1>1 DEF FileInv, TypeOK
<1>5. /\ DOMAIN revisions'[c] = DOMAIN revisions[c] \cup {n}
      /\ Len(revisions'[c]) = n
      /\ revisions'[c][n] = RevisionRow(j)
      /\ \A k \in DOMAIN revisions[c] : revisions'[c][k] = revisions[c][k]
  BY <1>2, <1>3, <1>4
<1>6. TypeOK'
  <2>1. revisions' \in [Container -> Seq(Revision)]
    BY <1>1, <1>2, <1>4 DEF UploadCommit, FileInv, TypeOK
  <2> QED
    BY <1>1, <2>1, NoJobIsJob DEF UploadCommit, FileInv, TypeOK, Finish, Goto, Phase
<1>7. Grows
  <2>1. \A d \in Container : Len(revisions[d]) \in Nat
    BY DEF FileInv, TypeOK
  <2> QED
    BY <1>1, <1>3, <1>5, <2>1 DEF Grows, UploadCommit
<1>8. \A q \in Request : JobInv(q)'
  <2>1. JobInv(r)'
    BY DEF FileInv, TypeOK, UploadCommit, Finish, Goto, JobInv, UploadPhase, DeletePhase
  <2> QED
    BY <1>6, <1>7, <2>1, OtherJobs DEF UploadCommit, Finish, TypeOK
<1>9. NumbersBounded'
  <2> SUFFICES ASSUME NEW d \in Container, NEW k \in DOMAIN revisions'[d]
               PROVE  /\ revisions'[d][k].number <= k
                      /\ revisions'[d][k].after < revisions'[d][k].number
    BY DEF NumbersBounded
  <2>1. CASE d = c /\ k = n
    BY <1>1, <1>5, <2>1 DEF RevisionRow
  <2>2. CASE ~(d = c /\ k = n)
    BY <1>3, <1>5, <2>2 DEF FileInv, NumbersBounded
  <2> QED
    BY <2>1, <2>2
<1>10. RowsFollowObjects'
  <2>1. \A f \in files' : object'[f] # "absent"
    BY <1>1 DEF UploadCommit, FileInv, RowsFollowObjects
  <2>2. ASSUME NEW d \in Container, NEW k \in DOMAIN revisions'[d]
        PROVE  revisions'[d][k].file \in files' \/ object'[revisions'[d][k].file] = "deleted"
    <3>1. CASE d = c /\ k = n
      BY <1>5, <3>1 DEF RevisionRow, UploadCommit
    <3>2. CASE ~(d = c /\ k = n)
      BY <1>3, <1>5, <3>2 DEF FileInv, RowsFollowObjects, UploadCommit
    <3> QED
      BY <3>1, <3>2
  <2> QED
    BY <2>1, <2>2 DEF RowsFollowObjects
<1> QED
  BY <1>6, <1>8, <1>9, <1>10 DEF FileInv

\* The row of a file is deleted, after its object.
LEMMA DeleteCommitKeeps ==
  ASSUME FileInv, NEW r \in Request, DeleteCommit(r)
  PROVE  FileInv'
<1>1. job[r].file \in File /\ object[job[r].file] = "deleted"
  BY DEF FileInv, JobInv, DeleteCommit, DeletePhase
<1>2. TypeOK'
  BY NoJobIsJob DEF FileInv, TypeOK, DeleteCommit, Finish, Goto, Phase
<1>3. Grows
  BY DEF FileInv, TypeOK, Grows, DeleteCommit
<1>4. JobInv(r)'
  BY DEF FileInv, TypeOK, DeleteCommit, Finish, Goto, JobInv, UploadPhase, DeletePhase
<1>5. \A q \in Request : JobInv(q)'
  BY <1>2, <1>3, <1>4, OtherJobs DEF DeleteCommit, Finish, TypeOK
<1>6. (RowsFollowObjects /\ NumbersBounded)'
  BY <1>1 DEF FileInv, RowsFollowObjects, NumbersBounded, DeleteCommit
<1> QED
  BY <1>2, <1>5, <1>6 DEF FileInv

\* A container changes its state.
LEMMA TransitionKeeps ==
  ASSUME FileInv, NEW c \in Container, NEW t \in VALID_TRANSITIONS, Transition(c, t)
  PROVE  FileInv'
<1>1. t.to \in ContainerState
  BY DEF VALID_TRANSITIONS, ContainerState
<1>2. TypeOK'
  BY <1>1 DEF FileInv, TypeOK, Transition
<1>3. (RowsFollowObjects /\ NumbersBounded)'
  BY DEF FileInv, RowsFollowObjects, NumbersBounded, Transition
<1>4. \A r \in Request : JobInv(r)'
  BY DEF FileInv, JobInv, Transition
<1> QED
  BY <1>2, <1>3, <1>4 DEF FileInv

\* Every step keeps the invariant.
LEMMA FileInvNext == FileInv /\ [Next]_vars => FileInv'
<1> SUFFICES ASSUME FileInv, [Next]_vars PROVE FileInv'
  OBVIOUS
<1>1. CASE UNCHANGED vars
  <2>1. TypeOK' /\ \A r \in Request : JobInv(r)'
    BY <1>1 DEF FileInv, TypeOK, JobInv, vars, tables
  <2> QED
    BY <1>1, <2>1 DEF FileInv, RowsFollowObjects, NumbersBounded, vars, tables
<1>2. ASSUME NEW c \in Container, NEW t \in VALID_TRANSITIONS, Transition(c, t) PROVE FileInv'
  BY <1>2, TransitionKeeps
<1>3. ASSUME NEW r \in Request, Step(r) PROVE FileInv'
  <2> DEFINE j == job[r]
  <2>0. /\ j \in Job /\ JobInv(r)
        /\ \A c \in Container : Len(revisions[c]) \in Nat
    BY DEF FileInv, TypeOK
  <2>1. ASSUME NEW c \in Container, UploadBegin(r, c) PROVE FileInv'
    <3> DEFINE i == [NoJob EXCEPT !.cont = c, !.after = Len(revisions[c])]
    <3>1. i \in Job /\ i.cont = c /\ i.after = Len(revisions[c])
      BY <2>0, NoJobIsJob DEF Job, NoJob
    <3>2. JobInv(r)'
      BY <2>0, <2>1, <3>1 DEF UploadBegin, Goto, JobInv, FileInv, TypeOK, tables,
                              UploadPhase, DeletePhase
    <3> QED
      BY <2>1, <3>1, <3>2, RequestMoves DEF UploadBegin, Phase
  <2>2. ASSUME NEW c \in Container, Conflict(r, c) PROVE FileInv'
    BY <2>2, <1>1 DEF Conflict
  <2>3. ASSUME NEW f \in File, UploadPut(r, f) PROVE FileInv'
    <3> DEFINE i == [job[r] EXCEPT !.file = f]
    <3>1. i \in Job /\ i.cont = j.cont /\ i.file = f /\ i.after = j.after
      BY <2>0 DEF Job
    <3>2. JobInv(r)'
      BY <2>0, <2>3, <3>1 DEF UploadPut, Goto, JobInv, FileInv, TypeOK, tables,
                              UploadPhase, DeletePhase
    <3> QED
      BY <2>3, <3>1, <3>2, ObjectMoves DEF UploadPut, Fresh, Phase
  <2>4. ASSUME NEW f \in File, UploadPutUnanswered(r, f) PROVE FileInv'
    <3>1. JobInv(r)'
      BY <2>4 DEF UploadPutUnanswered, Finish, Goto, JobInv, FileInv, TypeOK,
                  UploadPhase, DeletePhase
    <3> QED
      BY <2>4, <3>1, NoJobIsJob, ObjectMoves DEF UploadPutUnanswered, Fresh, Finish, Phase
  <2>5. CASE UploadCount(r)
    <3> DEFINE i == [job[r] EXCEPT !.number = Len(revisions[job[r].cont]) + 1]
    <3>0. j.cont \in Container /\ j.after <= Len(revisions[j.cont])
      BY <2>0, <2>5 DEF UploadCount, JobInv, UploadPhase
    <3>1. /\ i \in Job /\ i.cont = j.cont /\ i.file = j.file /\ i.after = j.after
          /\ i.number = Len(revisions[j.cont]) + 1
      BY <2>0, <3>0 DEF Job
    <3>2. JobInv(r)'
      BY <2>0, <2>5, <3>0, <3>1 DEF UploadCount, Goto, JobInv, FileInv, TypeOK, tables, Job,
                              UploadPhase, DeletePhase
    <3> QED
      BY <2>5, <3>1, <3>2, RequestMoves DEF UploadCount, Phase
  <2>6. CASE UploadInsert(r)
    <3>1. JobInv(r)'
      BY <2>0, <2>6 DEF UploadInsert, Goto, JobInv, FileInv, TypeOK, tables,
                        UploadPhase, DeletePhase
    <3> QED
      BY <2>0, <2>6, <3>1, RequestMoves DEF UploadInsert, Phase
  <2>7. CASE UploadCommit(r)
    BY <2>7, UploadCommitKeeps
  <2>8. ASSUME NEW c \in Container, NEW f \in File, DeleteBegin(r, c, f) PROVE FileInv'
    <3> DEFINE i == [NoJob EXCEPT !.cont = c, !.file = f]
    <3>1. i \in Job /\ i.cont = c /\ i.file = f
      BY NoJobIsJob DEF Job, NoJob
    <3>2. JobInv(r)'
      BY <2>8, <3>1 DEF DeleteBegin, Goto, JobInv, FileInv, TypeOK, tables,
                        UploadPhase, DeletePhase
    <3> QED
      BY <2>8, <3>1, <3>2, RequestMoves DEF DeleteBegin, Phase
  <2>9. CASE DeleteFind(r)
    <3>1. CASE Goto(r, job[r], "delete.object")
      <4>1. JobInv(r)'
        BY <2>0, <2>9, <3>1 DEF DeleteFind, Goto, JobInv, FileInv, TypeOK, tables,
                                UploadPhase, DeletePhase
      <4> QED
        BY <2>0, <2>9, <3>1, <4>1, RequestMoves DEF DeleteFind, Phase
    <3>2. CASE Finish(r)
      BY <2>9, <3>2, EndKeeps DEF DeleteFind
    <3> QED
      BY <2>9, <3>1, <3>2 DEF DeleteFind
  <2>10. CASE DeleteObject(r)
    <3>0. j.cont \in Container /\ j.file \in File
      BY <2>0, <2>10 DEF DeleteObject, JobInv, DeletePhase
    <3>1. JobInv(r)'
      BY <2>0, <2>10, <3>0 DEF DeleteObject, Goto, JobInv, FileInv, TypeOK, tables,
                         UploadPhase, DeletePhase
    <3> QED
      BY <2>0, <2>10, <3>0, <3>1, ObjectMoves DEF DeleteObject, Phase
  <2>11. CASE DeleteObjectUnanswered(r)
    <3>0. j.file \in File
      BY <2>0, <2>11 DEF DeleteObjectUnanswered, JobInv, DeletePhase
    <3>1. JobInv(r)'
      BY <2>11 DEF DeleteObjectUnanswered, Finish, Goto, JobInv, FileInv, TypeOK,
                   UploadPhase, DeletePhase
    <3> QED
      BY <2>11, <3>0, <3>1, NoJobIsJob, ObjectMoves DEF DeleteObjectUnanswered, Finish, Phase
  <2>12. CASE DeleteCommit(r)
    BY <2>12, DeleteCommitKeeps
  <2>13. CASE Rollback(r)
    BY <2>13, EndKeeps DEF Rollback
  <2> QED
    BY <1>3, <2>1, <2>2, <2>3, <2>4, <2>5, <2>6, <2>7, <2>8, <2>9, <2>10, <2>11, <2>12, <2>13
       DEF Step
<1> QED
  BY <1>1, <1>2, <1>3 DEF Next

-----------------------------------------------------------------------------
\* The bucket, the revisions and what the requests know of them keep their types.
THEOREM FilesTyped == Spec => []TypeOK
<1>1. FileInv => TypeOK
  BY DEF FileInv
<1> QED
  BY <1>1, FileInvInit, FileInvNext, PTL DEF Spec

\* Whatever uploads, deletes, crashes and transitions interleave, no revision
\* loses a file that is still in the bucket, and no row names an object that
\* was never stored.
THEOREM RowsNeverOutrunObjects == Spec => []RowsFollowObjects
<1>1. FileInv => RowsFollowObjects
  BY DEF FileInv
<1> QED
  BY <1>1, FileInvInit, FileInvNext, PTL DEF Spec

\* Two uploads of one container that do not overlap get increasing numbers.
THEOREM VersionsIncrease == Spec => []VersionsFollowTime
<1>1. FileInv => VersionsFollowTime
  <2> SUFFICES ASSUME FileInv, NEW c \in Container, NEW k \in DOMAIN revisions[c],
                      NEW i \in 1..revisions[c][k].after
               PROVE  revisions[c][i].number < revisions[c][k].number
    BY DEF VersionsFollowTime
  <2>1. /\ revisions[c] \in Seq(Revision)
        /\ revisions[c][k].number <= k /\ revisions[c][k].after < revisions[c][k].number
    BY DEF FileInv, TypeOK, NumbersBounded
  <2>2. /\ DOMAIN revisions[c] = 1..Len(revisions[c]) /\ Len(revisions[c]) \in Nat
        /\ \A n \in DOMAIN revisions[c] :
             revisions[c][n].after \in Nat /\ revisions[c][n].number \in Nat
    BY <2>1, RevisionTyped DEF FileInv
  <2>3. i \in DOMAIN revisions[c] /\ i <= revisions[c][k].after
    BY <2>1, <2>2
  <2>4. revisions[c][i].number <= i /\ revisions[c][i].number \in Nat
    BY <2>2, <2>3 DEF FileInv, NumbersBounded
  <2> QED
    BY <2>1, <2>2, <2>3, <2>4
<1> QED
  BY <1>1, FileInvInit, FileInvNext, PTL DEF Spec
==============================================================================
