--------------------------- MODULE AuthTokens_proofs ---------------------------
(***************************************************************************)
(* Proofs about AuthTokens, for any number of token pairs and of requests  *)
(* in flight: rotation and logout keep what they answered.                 *)
(***************************************************************************)
EXTENDS AuthTokens, TLAPS

\* The tokens of a pair, and what a revocation writes of them.
LEMMA TokenTypes ==
  ASSUME NEW p \in Pair
  PROVE  /\ Access(p) \in Token /\ Refresh(p) \in Token
         /\ RowsToRevoke(Access(p)) \in SUBSET Token /\ RowsToRevoke(Refresh(p)) \in SUBSET Token
<1>1. Access(p) \in Token /\ Refresh(p) \in Token
  BY DEF Access, Refresh, Token, Kind
<1>. QED
  BY <1>1 DEF RowsToRevoke

\* What a revocation writes leaves its token spent.
LEMMA RowsOrSpent == \A t : t \in RowsToRevoke(t) \cup Spent
BY DEF RowsToRevoke, Spent

\* A request that is idle holds a job, too.
LEMMA NoJobType == NoJob \in Job
BY DEF NoJob, Job

\* A request that is idle, or logs in, relies on nothing it has read.
LEMMA IdleAgrees == Agrees("idle", NoJob) /\ Agrees("login.commit", NoJob)
BY DEF Agrees, Refreshing, LoggingOut

\* The invariant holds before the first login.
LEMMA InitInd == Init => IndInv
<1>. SUFFICES ASSUME Init PROVE IndInv
  OBVIOUS
<1>1. TypeOK
  BY NoJobType DEF Init, TypeOK, Phase
<1>2. \A r \in Request : Agrees(phase[r], job[r])
  BY IdleAgrees DEF Init
<1>3. LoggedOutStaysOut /\ RotatedIsSpent
  BY DEF Init, LoggedOutStaysOut, RotatedIsSpent, Successors
<1>. QED
  BY <1>1, <1>2, <1>3 DEF IndInv

-----------------------------------------------------------------------------
(* The tables only grow, and what a request knows of them stays true.      *)

Grows == issued \subseteq issued' /\ revoked \subseteq revoked' /\ expired \subseteq expired'

\* One request moves on to where it agrees with the tables.
LEMMA MoveAgrees ==
  ASSUME IndInv, Grows, NEW r \in Request, NEW p \in Phase, NEW j \in Job,
         phase' = [phase EXCEPT ![r] = p], job' = [job EXCEPT ![r] = j],
         Agrees(p, j)'
  PROVE  /\ phase' \in [Request -> Phase] /\ job' \in [Request -> Job]
         /\ \A q \in Request : Agrees(phase[q], job[q])'
<1>1. phase' \in [Request -> Phase] /\ job' \in [Request -> Job]
  BY DEF IndInv, TypeOK
<1>2. ASSUME NEW q \in Request PROVE Agrees(phase[q], job[q])'
  <2>1. CASE q = r
    <3>1. phase'[q] = p /\ job'[q] = j
      BY <2>1 DEF IndInv, TypeOK
    <3>. QED
      BY <3>1 DEF Agrees
  <2>2. CASE q # r
    <3>1. phase'[q] = phase[q] /\ job'[q] = job[q]
      BY <2>2 DEF IndInv, TypeOK
    <3>2. Agrees(phase[q], job[q])
      BY DEF IndInv
    <3>. QED
      BY <3>1, <3>2 DEF Agrees, Grows, Spent
  <2>. QED
    BY <2>1, <2>2
<1>. QED
  BY <1>1, <1>2

\* A step between two awaits that writes no table.
LEMMA GotoInv ==
  ASSUME IndInv, NEW r \in Request, NEW p \in Phase, NEW j \in Job, Goto(r, j, p), Agrees(p, j)
  PROVE  IndInv'
<1>1. /\ phase' = [phase EXCEPT ![r] = p] /\ job' = [job EXCEPT ![r] = j]
      /\ UNCHANGED <<issued, parent, revoked, expired, closed, is_active>>
  BY DEF Goto, tokens
<1>2. Grows /\ Agrees(p, j)'
  BY <1>1 DEF Grows, Agrees, Spent
<1>3. TypeOK'
  BY <1>1, <1>2, MoveAgrees DEF IndInv, TypeOK
<1>4. LoggedOutStaysOut' /\ RotatedIsSpent'
  BY <1>1 DEF IndInv, LoggedOutStaysOut, RotatedIsSpent, Successors
<1>. QED
  BY <1>1, <1>2, <1>3, <1>4, MoveAgrees DEF IndInv

\* A new pair is the successor of a spent token, or of none.
LEMMA IssueInv ==
  ASSUME IndInv, NEW r \in Request, NEW from \in Pair \cup {None},
         from # None => Refresh(from) \in Spent,
         Issue(r, from)
  PROVE  IndInv'
<1>1. PICK p \in Pair \ issued : /\ issued' = issued \cup {p}
                                 /\ parent' = [parent EXCEPT ![p] = from]
  BY DEF Issue
<1>2. /\ phase' = [phase EXCEPT ![r] = "idle"] /\ job' = [job EXCEPT ![r] = NoJob]
      /\ UNCHANGED <<revoked, expired, closed, is_active>>
  BY DEF Issue
<1>3. Grows /\ Agrees("idle", NoJob)'
  BY <1>1, <1>2, IdleAgrees DEF Grows, Agrees, Refreshing, LoggingOut
<1>4. /\ phase' \in [Request -> Phase] /\ job' \in [Request -> Job]
      /\ \A q \in Request : Agrees(phase[q], job[q])'
  BY <1>2, <1>3, MoveAgrees, NoJobType DEF Phase
<1>5. TypeOK'
  BY <1>1, <1>2, <1>4 DEF IndInv, TypeOK
<1>6. LoggedOutStaysOut'
  BY <1>2 DEF IndInv, LoggedOutStaysOut
<1>7. RotatedIsSpent'
  <2>1. ASSUME NEW x \in Pair, NEW q \in issued', parent'[q] = x
        PROVE  Refresh(x) \in revoked \cup expired
    <3>1. CASE q = p
      BY <1>1, <2>1, <3>1, NoneAssumption DEF IndInv, TypeOK, Spent
    <3>2. CASE q # p
      BY <1>1, <2>1, <3>2 DEF IndInv, TypeOK, RotatedIsSpent, Successors
    <3>. QED
      BY <3>1, <3>2
  <2>. QED
    BY <1>2, <2>1 DEF RotatedIsSpent, Successors
<1>. QED
  BY <1>4, <1>5, <1>6, <1>7 DEF IndInv

\* A commit adds rows, and closes only what is spent then.
LEMMA CommitInv ==
  ASSUME IndInv, NEW r \in Request, NEW p \in Phase, NEW j \in Job,
         phase' = [phase EXCEPT ![r] = p], job' = [job EXCEPT ![r] = j],
         revoked' = revoked \cup job[r].insert,
         UNCHANGED <<issued, parent, expired, is_active>>,
         closed' \in SUBSET Token, closed' \subseteq closed \cup Spent',
         Agrees(p, j)'
  PROVE  IndInv'
<1>1. Grows
  BY DEF Grows
<1>2. job[r].insert \in SUBSET Token
  BY DEF IndInv, TypeOK, Job
<1>3. TypeOK'
  BY <1>1, <1>2, MoveAgrees DEF IndInv, TypeOK
<1>4. LoggedOutStaysOut'
  BY DEF IndInv, LoggedOutStaysOut, Spent
<1>5. RotatedIsSpent'
  BY DEF IndInv, RotatedIsSpent, Successors
<1>. QED
  BY <1>1, <1>3, <1>4, <1>5, MoveAgrees DEF IndInv

-----------------------------------------------------------------------------
(* The steps of the three requests.                                        *)

\* A login issues a pair that nobody has seen.
LEMMA LoginInv == ASSUME IndInv, NEW r \in Request, Login(r) PROVE IndInv'
<1>1. CASE LoginBegin(r)
  BY <1>1, GotoInv, IdleAgrees, NoJobType DEF LoginBegin, Phase
<1>2. CASE LoginCommit(r)
  BY <1>2, IssueInv DEF LoginCommit
<1>. QED
  BY <1>1, <1>2 DEF Login

\* A request that is rolled back forgets what it has read.
LEMMA RollbackInv == ASSUME IndInv, NEW r \in Request, Rollback(r) PROVE IndInv'
BY GotoInv, IdleAgrees, NoJobType DEF Rollback, Phase

\* A refresh spends the token it was given, whatever runs beside it.
LEMMA RotateInv == ASSUME IndInv, NEW r \in Request, Rotate(r) PROVE IndInv'
<1>t. TypeOK /\ Agrees(phase[r], job[r]) /\ job[r] \in Job
  BY DEF IndInv, TypeOK
<1>1. ASSUME NEW p \in Pair, RefreshBegin(r, p) PROVE IndInv'
  <2>. DEFINE j == [NoJob EXCEPT !.refresh = p, !.late = Refresh(p) \in revoked]
  <2>1. j \in Job
    <3>1. ASSUME NEW b \in BOOLEAN PROVE [NoJob EXCEPT !.refresh = p, !.late = b] \in Job
      BY DEF NoJob, Job
    <3>2. (Refresh(p) \in revoked) \in BOOLEAN
      OBVIOUS
    <3>. QED
      BY <3>1, <3>2
  <2>2. j.refresh = p /\ j.late = (Refresh(p) \in revoked)
    BY DEF NoJob
  <2>. HIDE DEF j
  <2>3. Agrees("refresh.check", j)
    BY <1>1, <2>2 DEF RefreshBegin, Agrees, Refreshing, LoggingOut
  <2>. QED
    BY <1>1, <2>1, <2>3, GotoInv DEF RefreshBegin, Phase, j
<1>2. CASE RefreshCheck(r)
  <2>1. Agrees("refresh.user", job[r])
    BY <1>2, <1>t DEF RefreshCheck, Agrees, Refreshing, LoggingOut
  <2>. QED
    BY <1>2, <1>t, <2>1, GotoInv DEF RefreshCheck, Phase
<1>3. CASE RefreshUser(r)
  <2>1. Agrees("refresh.revoke", job[r])
    BY <1>3, <1>t DEF RefreshUser, Agrees, Refreshing, LoggingOut
  <2>. QED
    BY <1>3, <1>t, <2>1, GotoInv DEF RefreshUser, Phase
<1>4. CASE RefreshRevoke(r)
  <2>. DEFINE R == RowsToRevoke(Refresh(job[r].refresh))
  <2>1. job[r].refresh \in issued /\ job[r].refresh \in Pair
    BY <1>4, <1>t DEF RefreshRevoke, Agrees, Refreshing, TypeOK
  <2>2. R \in SUBSET Token /\ Refresh(job[r].refresh) \in R \cup Spent
    BY <2>1, TokenTypes, RowsOrSpent
  <2>. HIDE DEF R
  <2>3. ASSUME NEW e, e = [job[r] EXCEPT !.insert = R]
        PROVE  /\ e \in Job /\ e.refresh = job[r].refresh /\ e.late = job[r].late
               /\ e.insert = R
    BY <1>t, <2>2, <2>3 DEF Job
  <2>4. Agrees("refresh.commit", [job[r] EXCEPT !.insert = R])
    BY <1>4, <1>t, <2>1, <2>2, <2>3 DEF RefreshRevoke, Agrees, Refreshing, LoggingOut
  <2>. QED
    BY <1>4, <2>3, <2>4, GotoInv DEF RefreshRevoke, Phase, R
<1>5. CASE RefreshCommit(r)
  <2>1. job' = [job EXCEPT ![r] = job[r]]
    BY <1>5, <1>t DEF RefreshCommit, TypeOK
  <2>2. Agrees("refresh.issue", job[r])'
    BY <1>5, <1>t, <2>1 DEF RefreshCommit, Agrees, Refreshing, LoggingOut, Spent
  <2>. QED
    BY <1>5, <1>t, <2>1, <2>2, CommitInv DEF RefreshCommit, Phase, TypeOK
<1>6. CASE RefreshIssue(r)
  <2>1. job[r].refresh \in Pair /\ Refresh(job[r].refresh) \in Spent
    BY <1>6, <1>t DEF RefreshIssue, Agrees, Refreshing, TypeOK
  <2>. QED
    BY <1>6, <2>1, IssueInv DEF RefreshIssue
<1>. QED
  BY <1>1, <1>2, <1>3, <1>4, <1>5, <1>6 DEF Rotate

\* A logout spends the tokens it was given, whatever runs beside it.
LEMMA LogoutInv == ASSUME IndInv, NEW r \in Request, Logout(r) PROVE IndInv'
<1>t. TypeOK /\ Agrees(phase[r], job[r]) /\ job[r] \in Job
  BY DEF IndInv, TypeOK
<1>1. ASSUME NEW a \in Pair, NEW p \in Pair \cup {None}, LogoutBegin(r, a, p) PROVE IndInv'
  <2>. DEFINE j == [NoJob EXCEPT !.access = a, !.refresh = p]
  <2>1. j \in Job /\ j.access = a
    BY DEF NoJob, Job
  <2>. HIDE DEF j
  <2>2. Agrees("logout.access", j)
    BY <1>1, <2>1 DEF LogoutBegin, Agrees, Refreshing, LoggingOut
  <2>. QED
    BY <1>1, <2>1, <2>2, GotoInv DEF LogoutBegin, Phase, j
<1>2. CASE LogoutAccess(r)
  <2>. DEFINE R == RowsToRevoke(Access(job[r].access))
  <2>1. job[r].access \in issued /\ job[r].access \in Pair
    BY <1>2, <1>t DEF LogoutAccess, Agrees, LoggingOut, TypeOK
  <2>2. R \in SUBSET Token /\ Access(job[r].access) \in R \cup Spent
    BY <2>1, TokenTypes, RowsOrSpent
  <2>. HIDE DEF R
  <2>3. ASSUME NEW e, e = [job[r] EXCEPT !.insert = R]
        PROVE  e \in Job /\ e.access = job[r].access /\ e.insert = R
    BY <1>t, <2>2, <2>3 DEF Job
  <2>4. Agrees("logout.refresh", [job[r] EXCEPT !.insert = R])
    BY <2>1, <2>2, <2>3 DEF Agrees, Refreshing, LoggingOut
  <2>. QED
    BY <1>2, <2>3, <2>4, GotoInv DEF LogoutAccess, Phase, R
<1>3. CASE LogoutRefresh(r)
  <2>. DEFINE R == UNION { RowsToRevoke(Refresh(p)) : p \in {job[r].refresh} \ {None} }
              I == job[r].insert \cup R
  <2>1. job[r].access \in issued /\ Access(job[r].access) \in job[r].insert \cup Spent
    BY <1>3, <1>t DEF LogoutRefresh, Agrees, LoggingOut
  <2>2. \A p \in {job[r].refresh} \ {None} :
          p \in Pair /\ Refresh(p) \in R \cup Spent /\ RowsToRevoke(Refresh(p)) \in SUBSET Token
    BY <1>t, TokenTypes, RowsOrSpent DEF Job
  <2>3. I \in SUBSET Token
    BY <1>t, <2>2 DEF Job
  <2>4. Presented(job[r]) \subseteq I \cup Spent
    BY <2>1, <2>2 DEF Presented
  <2>. HIDE DEF I
  <2>5. ASSUME NEW e, e = [job[r] EXCEPT !.insert = I]
        PROVE  /\ e \in Job /\ e.access = job[r].access /\ e.refresh = job[r].refresh
               /\ e.insert = I
    BY <1>t, <2>3, <2>5 DEF Job
  <2>6. Agrees("logout.commit", [job[r] EXCEPT !.insert = I])
    BY <2>1, <2>4, <2>5 DEF Agrees, Refreshing, LoggingOut, Presented
  <2>7. Goto(r, [job[r] EXCEPT !.insert = I], "logout.commit")
    BY <1>3 DEF LogoutRefresh, I
  <2>. QED
    BY <2>5, <2>6, <2>7, GotoInv DEF Phase
<1>4. CASE LogoutCommit(r)
  <2>1. Presented(job[r]) \subseteq job[r].insert \cup Spent
    BY <1>4, <1>t DEF LogoutCommit, Agrees
  <2>2. job[r].access \in Pair
    BY <1>4, <1>t DEF LogoutCommit, Agrees, LoggingOut, TypeOK
  <2>3. Presented(job[r]) \subseteq Token
    BY <1>t, <2>2, TokenTypes DEF Presented, Job
  <2>4. closed' \in SUBSET Token /\ closed' \subseteq closed \cup Spent'
    BY <1>4, <1>t, <2>1, <2>3 DEF LogoutCommit, Spent, TypeOK
  <2>5. Agrees("idle", NoJob)'
    BY DEF Agrees, Refreshing, LoggingOut
  <2>. QED
    BY <1>4, <2>4, <2>5, CommitInv, NoJobType DEF LogoutCommit, Phase
<1>. QED
  BY <1>1, <1>2, <1>3, <1>4 DEF Logout

\* Every step keeps the invariant.
LEMMA NextInd == IndInv /\ [Next]_vars => IndInv'
<1>. SUFFICES ASSUME IndInv, [Next]_vars PROVE IndInv'
  OBVIOUS
<1>1. ASSUME NEW r \in Request, Login(r) \/ Rotate(r) \/ Logout(r) \/ Rollback(r) PROVE IndInv'
  BY <1>1, LoginInv, RotateInv, LogoutInv, RollbackInv
<1>2. ASSUME NEW b \in BOOLEAN, SetActive(b) PROVE IndInv'
  BY <1>2 DEF SetActive, tokens, IndInv, TypeOK, Agrees, Spent, LoggedOutStaysOut,
              RotatedIsSpent, Successors
<1>3. ASSUME NEW t \in Token, Expire(t) PROVE IndInv'
  <2>. USE <1>3 DEF Expire
  <2>1. Grows
    BY DEF Grows
  <2>2. TypeOK'
    BY DEF IndInv, TypeOK
  <2>3. \A q \in Request : Agrees(phase[q], job[q])'
    BY <2>1 DEF IndInv, Agrees, Grows, Spent
  <2>4. LoggedOutStaysOut' /\ RotatedIsSpent'
    BY DEF IndInv, LoggedOutStaysOut, RotatedIsSpent, Successors
  <2>. QED
    BY <2>2, <2>3, <2>4 DEF IndInv
<1>4. CASE UNCHANGED vars
  BY <1>4 DEF vars, tokens, IndInv, TypeOK, Agrees, Spent, LoggedOutStaysOut, RotatedIsSpent,
              Successors
<1>. QED
  BY <1>1, <1>2, <1>3, <1>4 DEF Next

-----------------------------------------------------------------------------
\* However logins, refreshes, logouts, expiries and rollbacks interleave, the
\* invariant holds.
THEOREM TokensAreConsistent == Spec => []IndInv
BY InitInd, NextInd, PTL DEF Spec

\* The tables and the requests have their types.
THEOREM TypesHold == Spec => []TypeOK
<1>1. IndInv => TypeOK
  BY DEF IndInv
<1>. QED
  BY <1>1, TokensAreConsistent, PTL

\* Every token that a logout was answered 204 for is revoked or has expired,
\* ever after.
THEOREM LogoutCloses == Spec => []LoggedOutStaysOut
<1>1. IndInv => LoggedOutStaysOut
  BY DEF IndInv
<1>. QED
  BY <1>1, TokensAreConsistent, PTL

\* A refresh that came in after its token was revoked never issues a pair.
THEOREM ReplaysAreRefused == Spec => []ReplayIsRefused
<1>1. IndInv => ReplayIsRefused
  BY DEF IndInv, Agrees, Refreshing, ReplayIsRefused
<1>. QED
  BY <1>1, TokensAreConsistent, PTL

\* The refresh token of a pair that has a successor is revoked or has expired.
THEOREM RotationSpends == Spec => []RotatedIsSpent
<1>1. IndInv => RotatedIsSpent
  BY DEF IndInv
<1>. QED
  BY <1>1, TokensAreConsistent, PTL
==============================================================================
