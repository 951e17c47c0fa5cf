------------------------------ MODULE AuthTokens -----------------------------
(***************************************************************************)
(* The tokens of one user: login issues a pair of an access and a refresh  *)
(* token, refresh rotates it, logout revokes it.  Tokens are signed and    *)
(* not stored; what the server remembers is the table revoked_tokens,      *)
(* whose jti is UNIQUE.  Requests run at READ COMMITTED and interleave at  *)
(* their awaits; a request that dies is rolled back and answers nothing.   *)
(***************************************************************************)
EXTENDS Integers, FiniteSets

CONSTANTS
  Pair,      \* ids of token pairs, never drawn twice
  Request,   \* requests in flight at the same time
  None       \* NULL, or nothing sent

ASSUME NoneAssumption == None \notin Pair

Kind == {"access", "refresh"}
Token == [kind : Kind, pair : Pair]
Access(p) == [kind |-> "access", pair |-> p]
Refresh(p) == [kind |-> "refresh", pair |-> p]

VARIABLES
  issued,     \* pairs that exist
  parent,     \* the pair whose refresh token each was obtained with; None: login
  revoked,    \* committed rows of revoked_tokens
  expired,    \* tokens whose exp has passed
  closed,     \* tokens that a logout answered 204 for
  is_active,  \* users.is_active
  phase,      \* the await each request is at
  job         \* the tokens it was sent, and the rows it is going to insert

tokens == <<issued, parent, revoked, expired, closed>>
vars == <<tokens, is_active, phase, job>>

Phase == {"idle", "login.commit", "refresh.check", "refresh.user", "refresh.revoke",
          "refresh.commit", "refresh.issue",
          "logout.access", "logout.refresh", "logout.commit"}
\* late: the refresh token was already revoked when the request came in, kept
\* only to state what rotation promises.
NoJob == [access |-> None, refresh |-> None, insert |-> {}, late |-> FALSE]

\* get_current_user lets a request with this token through.
Accepted(t) == t.pair \in issued /\ t \notin revoked \cup expired /\ is_active

Goto(r, j, p) ==
  /\ phase' = [phase EXCEPT ![r] = p]
  /\ job' = [job EXCEPT ![r] = j]
  /\ UNCHANGED <<tokens, is_active>>

\* Refused, failed, or dead with its worker: nothing is written or answered.
Rollback(r) == phase[r] # "idle" /\ Goto(r, NoJob, "idle")

Issue(r, from) ==
  /\ \E p \in Pair \ issued :
       /\ issued' = issued \cup {p}
       /\ parent' = [parent EXCEPT ![p] = from]
  /\ phase' = [phase EXCEPT ![r] = "idle"]
  /\ job' = [job EXCEPT ![r] = NoJob]
  /\ UNCHANGED <<revoked, expired, closed, is_active>>

-----------------------------------------------------------------------------
(* POST /auth/login                                                        *)

LoginBegin(r) == phase[r] = "idle" /\ is_active /\ Goto(r, NoJob, "login.commit")
LoginCommit(r) == phase[r] = "login.commit" /\ Issue(r, None)

-----------------------------------------------------------------------------
(* _revoke_token: the rows to insert for token t, given what is committed. *)

RowsToRevoke(t) == { x \in {t} : x \notin revoked \cup expired }

\* jti is UNIQUE: the commit fails if another request has inserted it since.
Conflicts(j) == j.insert \cap revoked # {}

-----------------------------------------------------------------------------
(* POST /auth/refresh                                                      *)

RefreshBegin(r, p) ==
  /\ phase[r] = "idle"
  /\ p \in issued /\ Refresh(p) \notin expired
  /\ Goto(r, [NoJob EXCEPT !.refresh = p, !.late = Refresh(p) \in revoked], "refresh.check")

\* Faulty: the presented token is not looked up among the revoked ones.
RefreshCheck_Skipped(r) ==
  /\ phase[r] = "refresh.check"
  /\ Goto(r, job[r], "refresh.user")
RefreshCheck(r) ==
  /\ phase[r] = "refresh.check"
  /\ Refresh(job[r].refresh) \notin revoked
  /\ Goto(r, job[r], "refresh.user")

RefreshUser(r) ==
  /\ phase[r] = "refresh.user"
  /\ is_active
  /\ Goto(r, job[r], "refresh.revoke")

\* A row another request has committed meanwhile is not an error here.
RefreshRevoke(r) ==
  /\ phase[r] = "refresh.revoke"
  /\ Goto(r, [job[r] EXCEPT !.insert = RowsToRevoke(Refresh(job[r].refresh))],
          "refresh.commit")

\* Faulty: a new pair is issued, but the presented token is never revoked.
RefreshCommit_NoRevoke(r) ==
  /\ phase[r] = "refresh.commit"
  /\ Goto(r, job[r], "refresh.issue")
RefreshCommit(r) ==
  /\ phase[r] = "refresh.commit"
  /\ ~Conflicts(job[r])
  /\ revoked' = revoked \cup job[r].insert
  /\ phase' = [phase EXCEPT ![r] = "refresh.issue"]
  /\ UNCHANGED <<issued, parent, expired, closed, is_active, job>>

RefreshIssue(r) == phase[r] = "refresh.issue" /\ Issue(r, job[r].refresh)

-----------------------------------------------------------------------------
(* POST /auth/logout: the access token must be signed and unexpired, but   *)
(* is not looked up; the refresh token in the body is optional.            *)

LogoutBegin(r, a, p) ==
  /\ phase[r] = "idle"
  /\ a \in issued /\ Access(a) \notin expired
  /\ p \in issued \cup {None}
  /\ Goto(r, [NoJob EXCEPT !.access = a, !.refresh = p], "logout.access")

LogoutAccess(r) ==
  /\ phase[r] = "logout.access"
  /\ Goto(r, [job[r] EXCEPT !.insert = RowsToRevoke(Access(job[r].access))],
          "logout.refresh")

\* Presented(j): the tokens a logout request carried.
Presented(j) == {Access(j.access)} \cup { Refresh(p) : p \in {j.refresh} \ {None} }

\* Faulty: a logout without a refresh token revokes the jti NULL.
LogoutRefresh_NoBody(r) ==
  LET j == job[r]
  IN /\ phase[r] = "logout.refresh"
     /\ Goto(r, [j EXCEPT !.insert = @ \cup RowsToRevoke(Refresh(j.refresh))], "logout.commit")
LogoutRefresh(r) ==
  LET j == job[r]
  IN /\ phase[r] = "logout.refresh"
     /\ Goto(r, [j EXCEPT !.insert = @ \cup UNION { RowsToRevoke(Refresh(p)) :
                                                     p \in {j.refresh} \ {None} }],
             "logout.commit")

\* Faulty: a conflict on one jti is taken to mean that the logout was done.
LogoutCommit_ConflictIsDone(r) ==
  /\ phase[r] = "logout.commit"
  /\ revoked' = IF Conflicts(job[r]) THEN revoked ELSE revoked \cup job[r].insert
  /\ closed' = closed \cup Presented(job[r])
  /\ phase' = [phase EXCEPT ![r] = "idle"]
  /\ job' = [job EXCEPT ![r] = NoJob]
  /\ UNCHANGED <<issued, parent, expired, is_active>>
LogoutCommit(r) ==
  /\ phase[r] = "logout.commit"
  /\ ~Conflicts(job[r])
  /\ revoked' = revoked \cup job[r].insert
  /\ closed' = closed \cup Presented(job[r])
  /\ phase' = [phase EXCEPT ![r] = "idle"]
  /\ job' = [job EXCEPT ![r] = NoJob]
  /\ UNCHANGED <<issued, parent, expired, is_active>>

-----------------------------------------------------------------------------
(* An administrator disables or enables the account; time passes (an       *)
(* access token expires before the refresh token of its pair).             *)

SetActive(b) ==
  /\ is_active # b
  /\ is_active' = b
  /\ UNCHANGED <<tokens, phase, job>>

Expire(t) ==
  /\ t.pair \in issued /\ t \notin expired
  /\ t.kind = "refresh" => Access(t.pair) \in expired
  /\ expired' = expired \cup {t}
  /\ UNCHANGED <<issued, parent, revoked, closed, is_active, phase, job>>

-----------------------------------------------------------------------------
Init ==
  /\ issued = {}
  /\ parent = [p \in Pair |-> None]
  /\ revoked = {}
  /\ expired = {}
  /\ closed = {}
  /\ is_active = TRUE
  /\ phase = [r \in Request |-> "idle"]
  /\ job = [r \in Request |-> NoJob]

Login(r) == LoginBegin(r) \/ LoginCommit(r)
Rotate(r) ==
  \/ \E p \in Pair : RefreshBegin(r, p)
  \/ RefreshCheck(r) \/ RefreshUser(r) \/ RefreshRevoke(r) \/ RefreshCommit(r) \/ RefreshIssue(r)
Logout(r) ==
  \/ \E a \in Pair, p \in Pair \cup {None} : LogoutBegin(r, a, p)
  \/ LogoutAccess(r) \/ LogoutRefresh(r) \/ LogoutCommit(r)

Next ==
  \/ \E r \in Request : Login(r) \/ Rotate(r) \/ Logout(r) \/ Rollback(r)
  \/ \E b \in BOOLEAN : SetActive(b)
  \/ \E t \in Token : Expire(t)

Spec == Init /\ [][Next]_vars

-----------------------------------------------------------------------------
(* Properties                                                              *)

Job == [access : Pair \cup {None}, refresh : Pair \cup {None}, insert : SUBSET Token,
        late : BOOLEAN]

TypeOK ==
  /\ issued \subseteq Pair
  /\ parent \in [Pair -> Pair \cup {None}]
  /\ revoked \subseteq Token /\ expired \subseteq Token /\ closed \subseteq Token
  /\ is_active \in BOOLEAN
  /\ phase \in [Request -> Phase]
  /\ job \in [Request -> Job]

\* A logout that was answered 204 has closed every token it was sent, for good,
\* although its commit may race with refreshes and other logouts of the same
\* tokens: the conflict of one jti undoes the revocation of the other.
LoggedOutStaysOut == closed \subseteq revoked \cup expired

Successors(p) == { q \in issued : parent[q] = p }

\* Rotation holds in real time: a request that came in after a revocation of
\* its refresh token was committed never gets to issue a pair.
ReplayIsRefused == \A r \in Request : phase[r] = "refresh.issue" => ~job[r].late

\* A pair that has a successor cannot be refreshed again.
RotatedIsSpent ==
  \A p \in Pair : Successors(p) # {} => Refresh(p) \in revoked \cup expired

Spent == revoked \cup expired

Refreshing == {"refresh.check", "refresh.user", "refresh.revoke", "refresh.commit", "refresh.issue"}
LoggingOut == {"logout.access", "logout.refresh", "logout.commit"}

\* At await p, what a request was sent exists, and what it has looked at is
\* spent or among the rows it is going to insert.
Agrees(p, j) ==
  /\ p \in Refreshing => j.refresh \in issued
  /\ p = "refresh.check" /\ j.late => Refresh(j.refresh) \in revoked
  /\ p \in Refreshing \ {"refresh.check"} => ~j.late
  /\ p = "refresh.commit" => Refresh(j.refresh) \in j.insert \cup Spent
  /\ p = "refresh.issue" => Refresh(j.refresh) \in Spent
  /\ p \in LoggingOut => j.access \in issued
  /\ p = "logout.refresh" => Access(j.access) \in j.insert \cup Spent
  /\ p = "logout.commit" => Presented(j) \subseteq j.insert \cup Spent

\* Together they are inductive.
IndInv ==
  /\ TypeOK
  /\ \A r \in Request : Agrees(phase[r], job[r])
  /\ LoggedOutStaysOut
  /\ RotatedIsSpent
==============================================================================
