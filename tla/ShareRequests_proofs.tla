------------------------- MODULE ShareRequests_proofs -------------------------
(***************************************************************************)
(* Proofs about ShareRequests, for any users, share requests and tokens,   *)
(* any lifetimes and any number of requests in flight: the rows agree with *)
(* the audit log, and a link lives once, as LinkLife promises.             *)
(***************************************************************************)
EXTENDS ShareRequests, TLAPS

USE DEF Time

\* The time and the identity that are not there are none of those that are.
LEMMA NoneIsNone ==
  /\ None \notin User /\ None \notin Manager /\ None \notin Token /\ None \notin Time
  /\ \A t \in Time : t \in Nat
BY NoneAssumption, ManagerAssumption, TimeAssumption

\* A request that is idle holds a job, too.
LEMMA NoJobType == NoJob \in Job
BY DEF NoJob, Job

\* The arguments of the other requests.
LEMMA JobTypes ==
  ASSUME NEW S \in SUBSET Share
  PROVE  /\ \A u \in User : [NoJob EXCEPT !.user = u, !.shares = S] \in Job
         /\ [NoJob EXCEPT !.shares = S] \in Job
         /\ \A t \in Token :
              [NoJob EXCEPT !.token = t] \in Job /\ [NoJob EXCEPT !.token = t].token = t
<1>1. ASSUME NEW u \in User PROVE [NoJob EXCEPT !.user = u, !.shares = S] \in Job
  BY DEF NoJob, Job
<1>2. [NoJob EXCEPT !.shares = S] \in Job
  BY DEF NoJob, Job
<1>3. \A t \in Token : [NoJob EXCEPT !.token = t] \in Job /\ [NoJob EXCEPT !.token = t].token = t
  BY DEF NoJob, Job
<1>. QED
  BY <1>1, <1>2, <1>3

\* The invariant holds of the empty tables.
LEMMA InitInd == Init => IndInv
<1>. SUFFICES ASSUME Init PROVE IndInv
  OBVIOUS
<1>1. TypeOK
  BY NoJobType, TimeAssumption DEF Init, TypeOK, ShareRequestStatus, Phase
<1>2. \A r \in Request : JobInv(r)
  BY DEF Init, JobInv
<1>3. ApprovedIsWhole /\ LinksAreIssued
  BY DEF Init, ApprovedIsWhole, LinksAreIssued
<1>. QED
  BY <1>1, <1>2, <1>3 DEF IndInv

-----------------------------------------------------------------------------
(* Steps that issue nothing.                                               *)

\* A request that moves to p with arguments j, while nothing is issued.
Moves(r, p, j) ==
  /\ phase' = [phase EXCEPT ![r] = p]
  /\ job' = [job EXCEPT ![r] = j]
  /\ UNCHANGED issued

\* The requests keep their invariant when one of them moves on to arguments
\* that agree with the log.
LEMMA MoveInv ==
  ASSUME IndInv, NEW r \in Request, NEW p \in Phase \ {"approve"}, NEW j \in Job,
         Moves(r, p, j),
         p = "download" => j.token # None /\ issued[j.token] # None
  PROVE  /\ phase' \in [Request -> Phase] /\ job' \in [Request -> Job]
         /\ \A q \in Request : JobInv(q)'
<1>1. phase' \in [Request -> Phase] /\ job' \in [Request -> Job]
  BY DEF IndInv, TypeOK, Moves
<1>2. phase'[r] = p /\ job'[r] = j
  BY DEF IndInv, TypeOK, Moves
<1>3. ASSUME NEW q \in Request, q # r PROVE phase'[q] = phase[q] /\ job'[q] = job[q]
  BY <1>3 DEF IndInv, TypeOK, Moves
<1>4. ASSUME NEW q \in Request PROVE JobInv(q)'
  <2>1. CASE q = r
    BY <1>2, <2>1 DEF JobInv, Moves
  <2>2. CASE q # r
    <3>1. JobInv(q)
      BY DEF IndInv
    <3>2. \A z \in Request : phase'[z] = "approve" => phase[z] = "approve" /\ job'[z] = job[z]
      BY <1>2, <1>3
    <3>. QED
      BY <1>3, <2>2, <3>1, <3>2 DEF JobInv, Moves
  <2>. QED
    BY <2>1, <2>2
<1>. QED
  BY <1>1, <1>4

\* Such a step keeps the invariant if the rows do.
LEMMA QuietStep ==
  ASSUME IndInv, NEW r \in Request, NEW p \in Phase \ {"approve"}, NEW j \in Job,
         Moves(r, p, j),
         p = "download" => j.token # None /\ issued[j.token] # None,
         UNCHANGED <<requester, token, expires, now>>,
         approver' \in [Share -> User \cup {None}],
         status' \in [Share -> ShareRequestStatus],
         downloaded' \in SUBSET Token,
         \A t \in downloaded' : issued[t] # None,
         \A s \in Share : status'[s] = "approved" =>
           status[s] = "approved" /\ approver'[s] = approver[s]
  PROVE  IndInv'
<1>1. TypeOK'
  BY MoveInv DEF IndInv, TypeOK, Moves
<1>2. ApprovedIsWhole'
  BY DEF IndInv, ApprovedIsWhole, Moves
<1>3. LinksAreIssued'
  BY DEF IndInv, LinksAreIssued, Moves
<1>. QED
  BY <1>1, <1>2, <1>3, MoveInv DEF IndInv

\* A handler that has read the row and goes on writes nothing yet.
LEMMA ReadInv ==
  ASSUME IndInv, NEW r \in Request, NEW p \in Phase \ {"approve"}, NEW j \in Job,
         Read(r, j, p),
         p = "download" => j.token # None /\ issued[j.token] # None
  PROVE  IndInv'
<1>1. Moves(r, p, j) /\ UNCHANGED <<status, requester, approver, token, expires, downloaded, now>>
  BY DEF Read, Moves, row, log
<1>. QED
  BY <1>1, QuietStep DEF IndInv, TypeOK, LinksAreIssued

\* A handler that ends without approving anything.
LEMMA FinishInv ==
  ASSUME IndInv, NEW r \in Request, Finish(r),
         UNCHANGED <<requester, token, expires, issued, now>>,
         approver' \in [Share -> User \cup {None}],
         status' \in [Share -> ShareRequestStatus],
         downloaded' \in SUBSET Token,
         \A t \in downloaded' : issued[t] # None,
         \A s \in Share : status'[s] = "approved" =>
           status[s] = "approved" /\ approver'[s] = approver[s]
  PROVE  IndInv'
<1>1. Moves(r, "idle", NoJob) /\ "idle" \in Phase \ {"approve"}
  BY DEF Finish, Moves, Phase
<1>. QED
  BY <1>1, NoJobType, QuietStep

\* Every step keeps the invariant.
LEMMA NextInd == IndInv /\ [Next]_vars => IndInv'
<1>. SUFFICES ASSUME IndInv, [Next]_vars PROVE IndInv'
  OBVIOUS
<1>t. TypeOK
  BY DEF IndInv
<1>1. ASSUME NEW u \in User, NEW s \in Share, CreateShareRequest(u, s) PROVE IndInv'
  <2>. USE <1>1 DEF CreateShareRequest, log
  <2>1. TypeOK'
    BY <1>t DEF TypeOK, ShareRequestStatus
  <2>2. \A r \in Request : JobInv(r)'
    BY DEF IndInv, JobInv
  <2>3. ApprovedIsWhole'
    BY <1>t DEF IndInv, ApprovedIsWhole, TypeOK
  <2>4. LinksAreIssued'
    BY DEF IndInv, LinksAreIssued
  <2>. QED
    BY <2>1, <2>2, <2>3, <2>4 DEF IndInv
<1>2. ASSUME NEW r \in Request, NEW u \in User, NEW s \in Share, NEW t \in Token,
             NEW h \in Lifetime, ApproveRead(r, u, s, t, h)
      PROVE  IndInv'
  <2>. DEFINE j == [user |-> u, shares |-> {s}, token |-> t, expires |-> now + h]
  <2>1. now + h \in Time
    BY <1>2, <1>t, TimeAssumption DEF ApproveRead, TypeOK
  <2>2. j \in Job /\ j.user = u /\ j.token = t /\ j.expires = now + h
    BY <2>1 DEF Job
  <2>3. /\ phase' = [phase EXCEPT ![r] = "approve"] /\ job' = [job EXCEPT ![r] = j]
        /\ UNCHANGED <<row, log, now>> /\ u \in Manager
        /\ issued[t] = None /\ \A q \in Request : job[q].token # t
    BY <1>2 DEF ApproveRead, Read, FreshToken
  <2>. HIDE DEF j
  <2>4. TypeOK'
    BY <1>t, <2>2, <2>3 DEF TypeOK, Phase, row, log
  <2>5. ASSUME NEW q \in Request PROVE JobInv(q)'
    <3>1. phase'[r] = "approve" /\ job'[r] = j
      BY <1>t, <2>3 DEF TypeOK
    <3>2. \A z \in Request \ {r} : phase'[z] = phase[z] /\ job'[z] = job[z]
      BY <1>t, <2>3 DEF TypeOK
    <3>3. CASE q = r
      BY <2>1, <2>2, <2>3, <3>1, <3>2, <3>3, NoneIsNone DEF JobInv, log
    <3>4. CASE q # r
      BY <2>2, <2>3, <3>1, <3>2, <3>4 DEF IndInv, JobInv, log
    <3>. QED
      BY <3>3, <3>4
  <2>6. ApprovedIsWhole' /\ LinksAreIssued'
    BY <2>3 DEF IndInv, ApprovedIsWhole, LinksAreIssued, row, log
  <2>. QED
    BY <2>4, <2>5, <2>6 DEF IndInv
<1>3. ASSUME NEW r \in Request, ApproveCommit(r) PROVE IndInv'
  <2>. DEFINE j == job[r]
  <2>1. PICK s \in j.shares :
          /\ status' = [status EXCEPT ![s] = "approved"]
          /\ approver' = [approver EXCEPT ![s] = j.user]
          /\ token' = [token EXCEPT ![s] = j.token]
          /\ expires' = [expires EXCEPT ![s] = j.expires]
    BY <1>3 DEF ApproveCommit
  <2>2. /\ phase[r] = "approve" /\ issued' = [issued EXCEPT ![j.token] = j.user]
        /\ phase' = [phase EXCEPT ![r] = "idle"] /\ job' = [job EXCEPT ![r] = NoJob]
        /\ UNCHANGED <<requester, downloaded, now>>
    BY <1>3 DEF ApproveCommit, Finish
  <2>3. /\ j \in Job /\ s \in Share
    BY <1>t, <2>1 DEF TypeOK, Job
  <2>4. /\ j.user \in Manager /\ j.token \in Token /\ issued[j.token] = None
        /\ j.expires # None /\ j.expires \in Time
        /\ \A q \in Request \ {r} : phase[q] = "approve" => job[q].token # j.token
    BY <2>2, <2>3 DEF IndInv, JobInv, Job
  <2>. HIDE DEF j
  <2>5. TypeOK'
    BY <1>t, <2>1, <2>2, <2>3, <2>4, NoJobType, ManagerAssumption
    DEF TypeOK, ShareRequestStatus, Phase
  <2>6. \A t \in Token : issued'[t] = IF t = j.token THEN j.user ELSE issued[t]
    BY <1>t, <2>2 DEF TypeOK
  <2>7. \A q \in Request : /\ q # r => phase'[q] = phase[q] /\ job'[q] = job[q]
                           /\ q = r => phase'[q] = "idle"
    BY <1>t, <2>2 DEF TypeOK
  <2>8. ASSUME NEW q \in Request PROVE JobInv(q)'
    <3>1. job[q].token \in Token \cup {None} /\ JobInv(q)
      BY <1>t DEF TypeOK, Job, IndInv
    <3>2. CASE q = r
      BY <2>7, <3>2 DEF JobInv
    <3>3. CASE q # r /\ phase[q] = "approve"
      BY <2>4, <2>6, <2>7, <3>1, <3>3 DEF JobInv
    <3>4. CASE q # r /\ phase[q] = "download"
      <4>1. job[q].token \in Token
        BY <3>1, <3>4 DEF JobInv
      <4>. QED
        BY <2>4, <2>6, <2>7, <3>1, <3>4, <4>1, NoneIsNone DEF JobInv
    <3>5. CASE q # r /\ phase[q] \notin {"approve", "download"}
      BY <2>7, <3>5 DEF JobInv
    <3>. QED
      BY <3>2, <3>3, <3>4, <3>5
  <2>9. \A z \in Share :
          /\ z = s => /\ status'[z] = "approved" /\ approver'[z] = j.user
                      /\ token'[z] = j.token /\ expires'[z] = j.expires
          /\ z # s => /\ status'[z] = status[z] /\ approver'[z] = approver[z]
                      /\ token'[z] = token[z] /\ expires'[z] = expires[z]
    BY <1>t, <2>1 DEF TypeOK
  <2>10. \A z \in Share : token[z] # None => token[z] \in Token /\ token[z] # j.token
    <3>1. \A z \in Share : token[z] # None => issued[token[z]] \in Manager
      BY DEF IndInv, LinksAreIssued
    <3>. QED
      BY <1>t, <2>4, <3>1, NoneIsNone DEF TypeOK
  <2>11. ApprovedIsWhole'
    BY <2>4, <2>6, <2>9, <2>10, NoneIsNone DEF IndInv, ApprovedIsWhole
  <2>12. LinksAreIssued'
    <3>1. \A z \in Share : token'[z] # None => issued'[token'[z]] \in Manager
      BY <2>4, <2>6, <2>9, <2>10 DEF IndInv, LinksAreIssued
    <3>2. \A y, z \in Share : token'[y] = token'[z] /\ token'[y] # None => y = z
      BY <2>9, <2>10, <2>4 DEF IndInv, LinksAreIssued
    <3>3. \A t \in downloaded' : issued'[t] # None
      BY <1>t, <2>2, <2>4, <2>6, NoneIsNone DEF IndInv, LinksAreIssued, TypeOK
    <3>. QED
      BY <3>1, <3>2, <3>3 DEF LinksAreIssued
  <2>. QED
    BY <2>5, <2>8, <2>11, <2>12 DEF IndInv
<1>4. ASSUME NEW r \in Request, NEW u \in User, NEW s \in Share,
             RejectRead(r, u, s) \/ RevokeRead(r, u, s)
      PROVE  IndInv'
  <2>1. PICK p \in {"reject", "revoke"} : Read(r, [NoJob EXCEPT !.user = u, !.shares = {s}], p)
    BY <1>4 DEF RejectRead, RevokeRead
  <2>. QED
    BY <2>1, JobTypes, ReadInv DEF Phase
<1>5. ASSUME NEW r \in Request, RejectCommit(r) PROVE IndInv'
  <2>1. job[r] \in Job
    BY <1>t DEF TypeOK
  <2>2. approver' \in [Share -> User \cup {None}] /\ status' \in [Share -> ShareRequestStatus]
    BY <1>5, <1>t, <2>1 DEF RejectCommit, TypeOK, Job, ShareRequestStatus
  <2>3. \A s \in Share : status'[s] = "approved" =>
          status[s] = "approved" /\ approver'[s] = approver[s]
    BY <1>5, <1>t DEF RejectCommit, TypeOK
  <2>. QED
    BY <1>5, <2>2, <2>3, FinishInv, <1>t DEF RejectCommit, log, TypeOK, IndInv, LinksAreIssued
<1>6. ASSUME NEW r \in Request, RevokeCommit(r) \/ ListCommit(r) PROVE IndInv'
  <2>1. status' \in [Share -> ShareRequestStatus]
    BY <1>6, <1>t DEF RevokeCommit, ListCommit, TypeOK, ShareRequestStatus
  <2>2. \A s \in Share : status'[s] = "approved" => status[s] = "approved"
    BY <1>6, <1>t DEF RevokeCommit, ListCommit, TypeOK
  <2>. QED
    BY <1>6, <2>1, <2>2, FinishInv, <1>t
    DEF RevokeCommit, ListCommit, log, TypeOK, IndInv, LinksAreIssued
<1>7. ASSUME NEW r \in Request, ListRead(r) PROVE IndInv'
  <2>1. Past \subseteq Share
    BY DEF Past
  <2>. QED
    BY <1>7, <2>1, JobTypes, ReadInv DEF ListRead, Phase
<1>8. ASSUME NEW r \in Request, NEW t \in Token, DownloadRead(r, t) PROVE IndInv'
  <2>1. [NoJob EXCEPT !.token = t] \in Job /\ [NoJob EXCEPT !.token = t].token = t
    BY JobTypes
  <2>2. t # None /\ issued[t] # None
    <3>1. PICK s \in Share : token[s] = t /\ status[s] = "approved"
      BY <1>8 DEF DownloadRead, Live, Opens
    <3>. QED
      BY <3>1, NoneIsNone DEF IndInv, LinksAreIssued
  <2>. QED
    BY <1>8, <2>1, <2>2, ReadInv DEF DownloadRead, Phase
<1>9. ASSUME NEW r \in Request, DownloadCommit(r) PROVE IndInv'
  <2>1. job[r].token \in Token \cup {None} /\ JobInv(r) /\ phase[r] = "download"
    BY <1>9, <1>t DEF DownloadCommit, TypeOK, Job, IndInv
  <2>2. downloaded' = downloaded \cup {job[r].token}
    BY <1>9 DEF DownloadCommit
  <2>3. downloaded' \in SUBSET Token /\ \A t \in downloaded' : issued[t] # None
    BY <1>t, <2>1, <2>2 DEF JobInv, TypeOK, IndInv, LinksAreIssued
  <2>. QED
    BY <1>9, <2>3, FinishInv, <1>t DEF DownloadCommit, row, TypeOK
<1>10. ASSUME NEW r \in Request, Rollback(r) PROVE IndInv'
  BY <1>10, FinishInv, <1>t DEF Rollback, row, log, TypeOK, IndInv, LinksAreIssued
<1>11. ASSUME Tick PROVE IndInv'
  <2>1. now' \in Time
    BY <1>11, <1>t, TimeAssumption DEF Tick, TypeOK
  <2>. QED
    BY <1>11, <1>t, <2>1
    DEF Tick, row, log, IndInv, TypeOK, JobInv, ApprovedIsWhole, LinksAreIssued
<1>12. CASE UNCHANGED vars
  BY <1>12 DEF vars, row, log, IndInv, TypeOK, JobInv, ApprovedIsWhole, LinksAreIssued
<1>. QED
  BY <1>1, <1>2, <1>3, <1>4, <1>5, <1>6, <1>7, <1>8, <1>9, <1>10, <1>11, <1>12
  DEF Next, Step, Decide, ListUnchanged

\* Whatever approvals, rejections, revocations, listings and downloads of the
\* same rows overtake one another, and no handler takes a lock: an approval in
\* flight is by a manager and holds a token that nobody has issued and no other
\* approval holds, an approved row is the whole of one approval, and every live
\* link was issued by a manager for one request.
THEOREM SharesAreConsistent == Spec => []IndInv
BY InitInd, NextInd, PTL DEF Spec

\* The columns have their types.
THEOREM TypesHold == Spec => []TypeOK
<1>1. IndInv => TypeOK
  BY DEF IndInv
<1>. QED
  BY <1>1, SharesAreConsistent, PTL

\* An approved row has a token and an expiry, and names the manager who issued
\* that token.
THEOREM ApprovalsAreWhole == Spec => []ApprovedIsWhole
<1>1. IndInv => ApprovedIsWhole
  BY DEF IndInv
<1>. QED
  BY <1>1, SharesAreConsistent, PTL

\* A link belongs to one request and was issued by a manager, and nobody has
\* downloaded from a link that was never issued.
THEOREM EveryLinkIsIssued == Spec => []LinksAreIssued
<1>1. IndInv => LinksAreIssued
  BY DEF IndInv
<1>. QED
  BY <1>1, SharesAreConsistent, PTL

-----------------------------------------------------------------------------
(* The life of a link.                                                     *)

\* The ages of a link, in their order.
LEMMA Ranks ==
  /\ Links!Rank("unissued") = 0 /\ Links!Rank("live") = 1 /\ Links!Rank("dead") = 2
BY DEF Links!Rank

\* An issued token keeps its issuer, and opens nothing that it did not open.
NeverRevives ==
  \A t \in Token : issued[t] # None => issued'[t] # None /\ (Live(t)' => Live(t))

\* A link that does not revive never gets younger.
LEMMA Growing ==
  ASSUME NeverRevives
  PROVE  \A t \in Token : Links!Rank(LinkAge[t]) <= Links!Rank(LinkAge'[t])
<1>1. ASSUME NEW t \in Token PROVE Links!Rank(LinkAge[t]) <= Links!Rank(LinkAge'[t])
  <2>1. LinkAge'[t] \in {"unissued", "live", "dead"}
    BY DEF LinkAge
  <2>2. CASE issued[t] = None
    <3>1. LinkAge[t] = "unissued"
      BY <2>2 DEF LinkAge
    <3>. QED
      BY <2>1, <3>1, Ranks
  <2>3. CASE issued[t] # None /\ Live(t)
    <3>1. LinkAge[t] = "live"
      BY <2>3 DEF LinkAge
    <3>2. LinkAge'[t] \in {"live", "dead"}
      BY <2>3 DEF LinkAge, NeverRevives
    <3>. QED
      BY <3>1, <3>2, Ranks
  <2>4. CASE issued[t] # None /\ ~Live(t)
    <3>1. LinkAge[t] = "dead"
      BY <2>4 DEF LinkAge
    <3>2. LinkAge'[t] = "dead"
      BY <2>4 DEF LinkAge, NeverRevives
    <3>. QED
      BY <3>1, <3>2, Ranks
  <2>. QED
    BY <2>2, <2>3, <2>4
<1>. QED
  BY <1>1

\* A token that was issued opens what it opened before or less, unless its row
\* is approved anew, and that takes a token which nobody had issued.
LEMMA NextNeverRevives == IndInv /\ [Next]_vars => NeverRevives
<1>. SUFFICES ASSUME IndInv, [Next]_vars, NEW t \in Token, issued[t] # None
              PROVE  issued'[t] # None /\ (Live(t)' => Live(t))
  BY DEF NeverRevives
<1>t. TypeOK
  BY DEF IndInv
<1>1. CASE \E r \in Request : ApproveCommit(r)
  <2>1. PICK r \in Request : ApproveCommit(r)
    BY <1>1
  <2>2. PICK s \in job[r].shares :
          /\ status' = [status EXCEPT ![s] = "approved"]
          /\ token' = [token EXCEPT ![s] = job[r].token]
          /\ expires' = [expires EXCEPT ![s] = job[r].expires]
    BY <2>1 DEF ApproveCommit
  <2>3. /\ issued' = [issued EXCEPT ![job[r].token] = job[r].user] /\ now' = now
        /\ s \in Share /\ job[r].token # t /\ job[r].token \in Token
    BY <1>t, <2>1, <2>2 DEF ApproveCommit, TypeOK, Job, IndInv, JobInv
  <2>4. issued'[t] # None
    BY <1>t, <2>3 DEF TypeOK
  <2>5. ASSUME NEW z \in Share, Opens(z, t)' PROVE Opens(z, t)
    <3>1. z # s
      BY <1>t, <2>2, <2>3, <2>5 DEF Opens, TypeOK
    <3>2. token'[z] = token[z] /\ status'[z] = status[z] /\ expires'[z] = expires[z]
      BY <1>t, <2>2, <2>3, <3>1 DEF TypeOK
    <3>. QED
      BY <2>3, <2>5, <3>2 DEF Opens, IsExpired
  <2>. QED
    BY <2>4, <2>5 DEF Live
<1>2. CASE Tick
  <2>1. ASSUME NEW z \in Share, Opens(z, t)' PROVE Opens(z, t)
    <3>1. now' = now + 1 /\ now \in Nat /\ UNCHANGED <<status, token, expires>>
      BY <1>2, <1>t, TimeAssumption DEF Tick, row, TypeOK
    <3>2. expires[z] = None \/ expires[z] \in Nat
      BY <1>t, TimeAssumption DEF TypeOK
    <3>. QED
      BY <2>1, <3>1, <3>2 DEF Opens, IsExpired
  <2>. QED
    BY <1>2, <2>1 DEF Live, Tick, log
<1>3. CASE /\ UNCHANGED <<token, expires, issued, now>>
           /\ \A z \in Share : status'[z] = "approved" => status[z] = "approved"
  BY <1>3 DEF Live, Opens, IsExpired
<1>4. CASE \E u \in User, s \in Share : CreateShareRequest(u, s)
  BY <1>3, <1>4, <1>t DEF CreateShareRequest, log, TypeOK
<1>5. CASE \E r \in Request : RejectCommit(r) \/ RevokeCommit(r) \/ ListCommit(r)
  BY <1>3, <1>5, <1>t DEF RejectCommit, RevokeCommit, ListCommit, log, TypeOK
<1>6. CASE UNCHANGED <<row, issued, now>>
  BY <1>3, <1>6 DEF row
<1>7. CASE \E r \in Request : \/ Decide(r) \/ ListRead(r) \/ ListUnchanged(r)
                              \/ \E x \in Token : DownloadRead(r, x)
                              \/ DownloadCommit(r) \/ Rollback(r)
  BY <1>6, <1>7
  DEF Decide, ApproveRead, RejectRead, RevokeRead, ListRead, ListUnchanged, DownloadRead,
      DownloadCommit, Rollback, Read, vars, row, log
<1>8. CASE UNCHANGED vars
  BY <1>6, <1>8 DEF vars, log
<1>. QED
  BY <1>1, <1>2, <1>4, <1>5, <1>7, <1>8 DEF Next, Step

\* Every step is a step of LinkLife: a download uses an issued link, and any
\* other step lets links be issued or die.
LEMMA StepsOfLinks == IndInv /\ [Next]_vars => [Links!Next]_Links!vars
<1>. SUFFICES ASSUME IndInv, [Next]_vars PROVE Links!Next
  OBVIOUS
<1>1. CASE UNCHANGED downloaded
  <2>1. LinkAge' \in [Token -> {"unissued", "live", "dead"}]
    BY DEF LinkAge
  <2>2. Links!Grow
    BY <1>1, <2>1, NextNeverRevives, Growing DEF Links!Grow
  <2>. QED
    BY <2>2 DEF Links!Next
<1>2. CASE \E r \in Request : DownloadCommit(r)
  <2>1. PICK r \in Request : DownloadCommit(r)
    BY <1>2
  <2>2. LinkAge' = LinkAge
    BY <2>1 DEF DownloadCommit, row, LinkAge, Live, Opens, IsExpired
  <2>3. job[r].token \in Token /\ issued[job[r].token] # None
    BY <2>1 DEF DownloadCommit, IndInv, JobInv, TypeOK, Job
  <2>4. LinkAge[job[r].token] # "unissued"
    BY <2>3 DEF LinkAge
  <2>5. Links!Use(job[r].token)
    BY <2>1, <2>2, <2>4 DEF Links!Use, DownloadCommit
  <2>. QED
    BY <2>3, <2>5 DEF Links!Next
<1>. QED
  BY <1>1, <1>2
  DEF Next, Step, vars, CreateShareRequest, Decide, ApproveRead, ApproveCommit, RejectRead,
      RejectCommit, RevokeRead, RevokeCommit, ListRead, ListUnchanged, ListCommit, DownloadRead,
      Rollback, Tick, Read, log

\* A link keeps its promise: it is issued once and, expired, revoked or
\* replaced, never opens the file again.
THEOREM LinksLiveOnce == Spec => ImplementsLinkLife
<1>1. Init => Links!Init
  BY DEF Init, Links!Init, LinkAge
<1>. QED
  BY <1>1, SharesAreConsistent, StepsOfLinks, PTL DEF Spec, ImplementsLinkLife, Links!Spec
==============================================================================
