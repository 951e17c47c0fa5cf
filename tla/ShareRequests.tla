---------------------------- MODULE ShareRequests ----------------------------
(***************************************************************************)
(* External share requests of one container, and the public link an        *)
(* approval creates.  Every handler reads the row with a plain SELECT,     *)
(* decides on what it read, and writes at its commit only the columns it   *)
(* assigned, without a row lock and without looking again (READ COMMITTED  *)
(* lets the later UPDATE overwrite the earlier one).                       *)
(***************************************************************************)
EXTENDS Integers, FiniteSets

CONSTANTS
  User,
  Manager,    \* members whose role grants share_request.manage
  Share,      \* ids of share requests
  Token,      \* what secrets.token_urlsafe can draw: never the same twice
  Request,    \* HTTP requests in flight at the same time
  Lifetime,   \* values of expires_in_hours
  MaxTime,    \* bound: the clock stops here
  None        \* NULL

ASSUME ManagerAssumption == Manager \subseteq User
ASSUME TimeAssumption == MaxTime \in Nat /\ Lifetime \subseteq Nat \ {0}
ASSUME NoneAssumption == None \notin User \cup Share \cup Token \cup Nat

VARIABLES
  status,      \* share_requests.status, "none" before the row exists
  requester,   \* share_requests.requested_by_user_id
  approver,    \* share_requests.approved_by_user_id
  token,       \* share_requests.token
  expires,     \* share_requests.expires_at
  issued,      \* audit log: who approved with this token ("share_request.approved")
  downloaded,  \* audit log: tokens of the "share_request.downloaded" entries
  now,         \* the clock
  phase,       \* the await each request is at
  job          \* its arguments and what it has decided

row == <<status, requester, approver, token, expires>>
log == <<issued, downloaded>>
vars == <<row, log, now, phase, job>>

ShareRequestStatus == {"none", "pending", "approved", "rejected", "revoked", "expired"}
Phase == {"idle", "approve", "reject", "revoke", "list", "download"}

NoJob == [user |-> None, shares |-> {}, token |-> None, expires |-> None]

IsExpired(e) == e = None \/ (e # None /\ e <= now)

Opens(s, t) == token[s] = t /\ status[s] = "approved" /\ ~IsExpired(expires[s])
Live(t) == \E s \in Share : Opens(s, t)

Read(r, j, p) ==
  /\ phase[r] = "idle"
  /\ phase' = [phase EXCEPT ![r] = p]
  /\ job' = [job EXCEPT ![r] = j]
  /\ UNCHANGED <<row, log, now>>

Finish(r) ==
  /\ phase' = [phase EXCEPT ![r] = "idle"]
  /\ job' = [job EXCEPT ![r] = NoJob]

\* No file to serve, an unreachable bucket, a lost client, a dead worker.
Rollback(r) ==
  /\ phase[r] # "idle"
  /\ Finish(r)
  /\ UNCHANGED <<row, log, now>>

-----------------------------------------------------------------------------
CreateShareRequest(u, s) ==
  /\ status[s] = "none"
  /\ status' = [status EXCEPT ![s] = "pending"]
  /\ requester' = [requester EXCEPT ![s] = u]
  /\ UNCHANGED <<approver, token, expires, log, now, phase, job>>

FreshToken(t) == issued[t] = None /\ \A q \in Request : job[q].token # t

\* Faulty: a link that was approved before keeps its token.
ApproveRead_KeepToken(r, u, s, t, h) ==
  /\ u \in Manager
  /\ status[s] \in {"pending", "expired"}
  /\ IF token[s] = None THEN FreshToken(t) ELSE t = token[s]
  /\ now + h <= MaxTime
  /\ Read(r, [user |-> u, shares |-> {s}, token |-> t, expires |-> now + h], "approve")
\* Faulty: any member may approve.
ApproveRead_AnyMember(r, u, s, t, h) ==
  /\ status[s] = "pending"
  /\ FreshToken(t)
  /\ now + h <= MaxTime
  /\ Read(r, [user |-> u, shares |-> {s}, token |-> t, expires |-> now + h], "approve")
\* Faulty: expires_in_hours is added as days.
ApproveRead_Days(r, u, s, t, h) ==
  /\ u \in Manager
  /\ status[s] = "pending"
  /\ FreshToken(t)
  /\ now + h <= MaxTime
  /\ Read(r, [user |-> u, shares |-> {s}, token |-> t, expires |-> now + 24 * h], "approve")
ApproveRead(r, u, s, t, h) ==
  /\ u \in Manager
  /\ status[s] = "pending"
  /\ FreshToken(t)
  /\ now + h <= MaxTime
  /\ Read(r, [user |-> u, shares |-> {s}, token |-> t, expires |-> now + h], "approve")

\* Faulty: the approver is not recorded.
ApproveCommit_NoApprover(r) ==
  LET j == job[r]
  IN /\ phase[r] = "approve"
     /\ \E s \in j.shares :
          /\ status' = [status EXCEPT ![s] = "approved"]
          /\ token' = [token EXCEPT ![s] = j.token]
          /\ expires' = [expires EXCEPT ![s] = j.expires]
     /\ issued' = [issued EXCEPT ![j.token] = j.user]
     /\ Finish(r)
     /\ UNCHANGED <<requester, approver, downloaded, now>>
ApproveCommit(r) ==
  LET j == job[r]
  IN /\ phase[r] = "approve"
     /\ \E s \in j.shares :
          /\ status' = [status EXCEPT ![s] = "approved"]
          /\ approver' = [approver EXCEPT ![s] = j.user]
          /\ token' = [token EXCEPT ![s] = j.token]
          /\ expires' = [expires EXCEPT ![s] = j.expires]
     /\ issued' = [issued EXCEPT ![j.token] = j.user]
     /\ Finish(r)
     /\ UNCHANGED <<requester, downloaded, now>>

RejectRead(r, u, s) ==
  /\ u \in Manager
  /\ status[s] = "pending"
  /\ Read(r, [NoJob EXCEPT !.user = u, !.shares = {s}], "reject")

RejectCommit(r) ==
  /\ phase[r] = "reject"
  /\ status' = [s \in Share |-> IF s \in job[r].shares THEN "rejected" ELSE status[s]]
  /\ approver' = [s \in Share |-> IF s \in job[r].shares THEN job[r].user ELSE approver[s]]
  /\ Finish(r)
  /\ UNCHANGED <<requester, token, expires, log, now>>

RevokeRead(r, u, s) ==
  /\ u \in Manager \cup {requester[s]}
  /\ status[s] \in {"pending", "approved"}
  /\ Read(r, [NoJob EXCEPT !.user = u, !.shares = {s}], "revoke")

RevokeCommit(r) ==
  /\ phase[r] = "revoke"
  /\ status' = [s \in Share |-> IF s \in job[r].shares THEN "revoked" ELSE status[s]]
  /\ Finish(r)
  /\ UNCHANGED <<requester, approver, token, expires, log, now>>

\* Listing marks the approved requests it sees past their expiry.
Past == { s \in Share : status[s] = "approved" /\ IsExpired(expires[s]) }
ListRead(r) == Past # {} /\ Read(r, [NoJob EXCEPT !.shares = Past], "list")
ListUnchanged(r) == phase[r] = "idle" /\ Past = {} /\ UNCHANGED vars

ListCommit(r) ==
  /\ phase[r] = "list"
  /\ status' = [s \in Share |-> IF s \in job[r].shares THEN "expired" ELSE status[s]]
  /\ Finish(r)
  /\ UNCHANGED <<requester, approver, token, expires, log, now>>

\* GET /public/shared/{token}: no user, the token is the credential.
DownloadRead(r, t) ==
  /\ Live(t)
  /\ Read(r, [NoJob EXCEPT !.token = t], "download")

DownloadCommit(r) ==
  /\ phase[r] = "download"
  /\ downloaded' = downloaded \cup {job[r].token}
  /\ Finish(r)
  /\ UNCHANGED <<row, issued, now>>

Tick ==
  /\ now < MaxTime
  /\ now' = now + 1
  /\ UNCHANGED <<row, log, phase, job>>

-----------------------------------------------------------------------------
Init ==
  /\ status = [s \in Share |-> "none"]
  /\ requester = [s \in Share |-> None]
  /\ approver = [s \in Share |-> None]
  /\ token = [s \in Share |-> None]
  /\ expires = [s \in Share |-> None]
  /\ issued = [t \in Token |-> None]
  /\ downloaded = {}
  /\ now = 0
  /\ phase = [r \in Request |-> "idle"]
  /\ job = [r \in Request |-> NoJob]

Decide(r) ==
  \E u \in User, s \in Share :
    \/ \E t \in Token, h \in Lifetime : ApproveRead(r, u, s, t, h)
    \/ RejectRead(r, u, s)
    \/ RevokeRead(r, u, s)

Step(r) ==
  \/ Decide(r)
  \/ ApproveCommit(r) \/ RejectCommit(r) \/ RevokeCommit(r)
  \/ ListRead(r) \/ ListUnchanged(r) \/ ListCommit(r)
  \/ \E t \in Token : DownloadRead(r, t)
  \/ DownloadCommit(r)
  \/ Rollback(r)

Next ==
  \/ \E u \in User, s \in Share : CreateShareRequest(u, s)
  \/ \E r \in Request : Step(r)
  \/ Tick

Spec == Init /\ [][Next]_vars

-----------------------------------------------------------------------------
(* Properties                                                              *)

Time == 0..MaxTime
Job == [user : User \cup {None}, shares : SUBSET Share, token : Token \cup {None},
        expires : Time \cup {None}]

TypeOK ==
  /\ status \in [Share -> ShareRequestStatus]
  /\ requester \in [Share -> User \cup {None}]
  /\ approver \in [Share -> User \cup {None}]
  /\ token \in [Share -> Token \cup {None}]
  /\ expires \in [Share -> Time \cup {None}]
  /\ issued \in [Token -> User \cup {None}]
  /\ downloaded \subseteq Token
  /\ now \in Time
  /\ phase \in [Request -> Phase]
  /\ job \in [Request -> Job]

\* However approvals, rejections, revocations and listings overwrite one
\* another, an approved row is whole: it has a token and an expiry, and the
\* manager it names as approver is the one that token was issued by.
ApprovedIsWhole ==
  \A s \in Share : status[s] = "approved" =>
    /\ token[s] # None /\ expires[s] # None
    /\ approver[s] \in Manager
    /\ issued[token[s]] = approver[s]

\* A link opens one share request, was issued by a manager, and only issued
\* links have been downloaded from.
LinksAreIssued ==
  /\ \A s \in Share : token[s] # None => issued[token[s]] \in Manager
  /\ \A s1, s2 \in Share : token[s1] = token[s2] /\ token[s1] # None => s1 = s2
  /\ \A t \in downloaded : issued[t] # None

\* A request at an await: an approval is by a manager and holds a token that
\* nobody has issued and no other approval holds; a download is of a token that
\* was issued.
JobInv(r) ==
  /\ phase[r] = "approve" =>
       /\ job[r].user \in Manager
       /\ job[r].token \in Token /\ issued[job[r].token] = None
       /\ job[r].expires # None
       /\ \A q \in Request \ {r} : phase[q] = "approve" => job[q].token # job[r].token
  /\ phase[r] = "download" => job[r].token # None /\ issued[job[r].token] # None

\* Together they are inductive.
IndInv ==
  /\ TypeOK
  /\ \A r \in Request : JobInv(r)
  /\ ApprovedIsWhole
  /\ LinksAreIssued

\* Seen from outside, a link is issued, lives and dies, and never revives,
\* although rows return from revoked, rejected or expired to approved.
LinkAge ==
  [t \in Token |-> IF issued[t] = None THEN "unissued" ELSE IF Live(t) THEN "live" ELSE "dead"]
Links == INSTANCE LinkLife WITH age <- LinkAge, used <- downloaded
ImplementsLinkLife == Links!Spec
==============================================================================
