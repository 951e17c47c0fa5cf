--------------------------- MODULE ApprovalWorkflow --------------------------
(***************************************************************************)
(* The container lifecycle and the approval workflow, as the API runs      *)
(* them: every request is a coroutine of some worker process with one      *)
(* database transaction, and any other request may run at each of its      *)
(* awaits.  PostgreSQL gives it READ COMMITTED: a plain SELECT sees what   *)
(* is committed, SELECT ... FOR UPDATE waits for the row lock and sees     *)
(* what is committed once it holds it, an UPDATE waits for the row lock    *)
(* too.  What a transaction writes becomes visible when it commits; until  *)
(* then it is in the job of the request.  A request that fails, is         *)
(* refused, or whose worker dies is rolled back and frees its locks.       *)
(***************************************************************************)
EXTENDS Integers, Sequences, FiniteSets, CdeStates

CONSTANTS
  User,
  Member,         \* users with a membership row in the project's organization
  PlatformAdmin,  \* users with is_platform_admin
  Permission,     \* permission codes of each user, as require_permission finds them
  Container,      \* containers of one project
  Workflow,       \* ids of workflow instances
  Request,        \* requests in flight at the same time
  Title,          \* values of the metadata a PATCH can set
  Expected,       \* target_state values clients send with a transition
  Verdict,        \* results approvers send
  MaxStages,      \* bound: assignees of one workflow
  MaxHistory,     \* bound: no transition request starts beyond this many rows
  None            \* NULL

PermissionCode == TransitionAction \cup {"update", "start"}
Stage == 1..MaxStages

ASSUME UsersAssumption ==
  /\ Member \subseteq User
  /\ PlatformAdmin \subseteq User
  /\ Permission \in [User -> SUBSET PermissionCode]
ASSUME InputsAssumption ==
  /\ Expected \subseteq ContainerState \cup {None}
  /\ Verdict \subseteq ApprovalResult
ASSUME BoundsAssumption == MaxStages \in Nat /\ MaxHistory \in Nat
ASSUME NoneAssumption ==
  None \notin User \cup Container \cup Workflow \cup Title \cup ContainerState
              \cup ApprovalResult \cup WorkflowStatus \cup TransitionAction

VARIABLES
  \* committed rows
  current_state,  \* information_containers.current_state
  title,          \* information_containers: the fields a PATCH may set
  history,        \* container_state_histories, per container in commit order
  status,         \* workflow_instances.status
  target,         \* workflow_instances.target_id; None: a document, not a container
  approver,       \* approvals.approver_id, per workflow by stage
  result,         \* approvals.result, per workflow by stage
  \* requests
  phase,          \* the await each request is at
  job             \* its arguments and what it has read or decided so far

tables == <<current_state, title, history, status, target, approver, result>>
vars == <<tables, phase, job>>

Phase == {"idle", "transition.lock", "transition.commit", "update.write",
          "act.workflow", "act.approval", "act.aggregate", "act.container", "act.commit"}

Input == TransitionAction \cup ApprovalResult \cup Title
NoJob == [user |-> None, cont |-> None, wf |-> None, stage |-> 0, input |-> None,
          expected |-> None, seen |-> None, decision |-> None]

HasPermission(u, code) == u \in PlatformAdmin \/ code \in Permission[u]
IsMember(u) == u \in PlatformAdmin \cup Member

-----------------------------------------------------------------------------
(* Row locks: held from the await that takes them to commit or rollback.   *)

HoldsWorkflow(q, w) ==
  /\ phase[q] \in {"act.approval", "act.aggregate", "act.container", "act.commit"}
  /\ job[q].wf = w
HoldsApproval(q, w, i) ==
  /\ phase[q] \in {"act.aggregate", "act.container", "act.commit"}
  /\ job[q].wf = w
  /\ job[q].stage = i

\* Faulty: the target container is read FOR SHARE before the workflow is
\* locked, and the lock is upgraded once the review is rejected.
HoldsContainer_SharedFirst(q, c) ==
  \/ phase[q] = "transition.commit" /\ job[q].cont = c
  \/ phase[q] \in {"act.approval", "act.aggregate", "act.container", "act.commit"}
     /\ target[job[q].wf] = c
HoldsContainer(q, c) ==
  \/ phase[q] = "transition.commit" /\ job[q].cont = c
  \/ phase[q] = "act.commit" /\ job[q].decision = "rejected" /\ target[job[q].wf] = c

WorkflowFree(r, w) == \A q \in Request \ {r} : ~HoldsWorkflow(q, w)
ApprovalFree(r, w, i) == \A q \in Request \ {r} : ~HoldsApproval(q, w, i)
ContainerFree(r, c) == \A q \in Request \ {r} : ~HoldsContainer(q, c)

-----------------------------------------------------------------------------
(* The life of a request.                                                  *)

Arrive(r, j, p) ==
  /\ phase[r] = "idle"
  /\ phase' = [phase EXCEPT ![r] = p]
  /\ job' = [job EXCEPT ![r] = j]
  /\ UNCHANGED tables

Goto(r, j, p) ==
  /\ phase' = [phase EXCEPT ![r] = p]
  /\ job' = [job EXCEPT ![r] = j]
  /\ UNCHANGED tables

Finish(r) ==
  /\ phase' = [phase EXCEPT ![r] = "idle"]
  /\ job' = [job EXCEPT ![r] = NoJob]

\* An HTTPException or any other error: get_db closes the session.
Refuse(r) == Finish(r) /\ UNCHANGED tables

\* A lost client or database connection, a cancelled task, a worker crash.
Rollback(r) == phase[r] # "idle" /\ Refuse(r)

-----------------------------------------------------------------------------
(* POST /projects/{p}/containers/{c}/transition                            *)

HistoryRow(t, w) ==
  [from |-> t.from, action |-> t.action, to |-> t.to, workflow |-> w]

TransitionBegin(r, u, c, action, expected) ==
  /\ IsMember(u)
  /\ Len(history[c]) < MaxHistory
  /\ Arrive(r, [NoJob EXCEPT !.user = u, !.cont = c, !.input = action, !.expected = expected],
            "transition.lock")

\* The move the request makes from state s, if it may make one.
MovesFrom(j, s) ==
  { t \in VALID_TRANSITIONS :
      /\ t.from = s
      /\ t.action = j.input
      /\ HasPermission(j.user, j.input)
      /\ j.expected \in {None, t.to} }

\* Faulty: the row is selected without FOR UPDATE.
TransitionLock_NoRowLock(r) ==
  LET j == job[r]
      s == current_state[j.cont]
  IN /\ phase[r] = "transition.lock"
     /\ IF MovesFrom(j, s) # {}
        THEN Goto(r, [j EXCEPT !.seen = s], "transition.commit")
        ELSE Refuse(r)
TransitionLock(r) ==
  LET j == job[r]
      s == current_state[j.cont]
  IN /\ phase[r] = "transition.lock"
     /\ ContainerFree(r, j.cont)
     /\ IF MovesFrom(j, s) # {}
        THEN Goto(r, [j EXCEPT !.seen = s], "transition.commit")
        ELSE Refuse(r)

TransitionCommit(r) ==
  LET j == job[r]
  IN /\ phase[r] = "transition.commit"
     /\ \E t \in MovesFrom(j, j.seen) :
          /\ current_state' = [current_state EXCEPT ![j.cont] = t.to]
          /\ history' = [history EXCEPT ![j.cont] = Append(@, HistoryRow(t, None))]
     /\ Finish(r)
     /\ UNCHANGED <<title, status, target, approver, result>>

-----------------------------------------------------------------------------
(* PATCH /projects/{p}/containers/{c}: the state is checked on a plain     *)
(* read; the UPDATE of the changed columns waits for the row lock.         *)

UpdateRead(r, u, c, x) ==
  /\ IsMember(u) /\ HasPermission(u, "update")
  /\ current_state[c] = "WIP"
  /\ Arrive(r, [NoJob EXCEPT !.user = u, !.cont = c, !.input = x], "update.write")

UpdateWrite(r) ==
  /\ phase[r] = "update.write"
  /\ ContainerFree(r, job[r].cont)
  /\ title' = [title EXCEPT ![job[r].cont] = job[r].input]
  /\ Finish(r)
  /\ UNCHANGED <<current_state, history, status, target, approver, result>>

-----------------------------------------------------------------------------
(* POST /workflows: one transaction that only inserts.                     *)

AssigneeList == UNION { [1..n -> Member] : n \in 0..MaxStages }

StartWorkflow(u, w, x, assignees) ==
  /\ IsMember(u) /\ HasPermission(u, "start")
  /\ status[w] = "none"
  /\ status' = [status EXCEPT ![w] = "in_progress"]
  /\ target' = [target EXCEPT ![w] = x]
  /\ approver' = [approver EXCEPT ![w] = assignees]
  /\ UNCHANGED <<current_state, title, history, result, phase, job>>

-----------------------------------------------------------------------------
(* POST /workflows/{w}/approvals/{a}/act                                   *)

AnyRejected(stages, votes) == \E i \in stages : votes[i] = "rejected"
AllDone(stages, votes) == \A i \in stages : votes[i] # None

ActBegin(r, u, w, i, v) ==
  Arrive(r, [NoJob EXCEPT !.user = u, !.wf = w, !.stage = i, !.input = v], "act.workflow")

\* Faulty: the workflow is selected without FOR UPDATE, so that two approvers
\* of one workflow each aggregate without the other's vote.
ActLockWorkflow_NoRowLock(r) ==
  /\ phase[r] = "act.workflow"
  /\ IF status[job[r].wf] # "none" /\ IsMember(job[r].user)
     THEN Goto(r, job[r], "act.approval")
     ELSE Refuse(r)
ActLockWorkflow(r) ==
  /\ phase[r] = "act.workflow"
  /\ WorkflowFree(r, job[r].wf)
  /\ IF status[job[r].wf] # "none" /\ IsMember(job[r].user)
     THEN Goto(r, job[r], "act.approval")
     ELSE Refuse(r)

\* Faulty: a second act on the same approval is not refused.
ActLockApproval_ActedTwice(r) ==
  LET j == job[r]
  IN /\ phase[r] = "act.approval"
     /\ ApprovalFree(r, j.wf, j.stage)
     /\ IF /\ j.stage \in DOMAIN approver[j.wf]
           /\ j.user \in PlatformAdmin \cup {approver[j.wf][j.stage]}
        THEN Goto(r, j, "act.aggregate")
        ELSE Refuse(r)
ActLockApproval(r) ==
  LET j == job[r]
  IN /\ phase[r] = "act.approval"
     /\ ApprovalFree(r, j.wf, j.stage)
     /\ IF /\ j.stage \in DOMAIN approver[j.wf]
           /\ j.user \in PlatformAdmin \cup {approver[j.wf][j.stage]}
           /\ result[j.wf][j.stage] = None
        THEN Goto(r, j, "act.aggregate")
        ELSE Refuse(r)

\* The siblings as committed, with the vote of this transaction flushed.
VotesSeen(j) == [result[j.wf] EXCEPT ![j.stage] = j.input]

\* Faulty: the aggregate is read before the own vote is flushed.
ActAggregate_StaleVotes(r) ==
  LET j == job[r]
      stages == DOMAIN approver[j.wf]
      votes == result[j.wf]
  IN /\ phase[r] = "act.aggregate"
     /\ IF AnyRejected(stages, votes)
        THEN Goto(r, [j EXCEPT !.decision = "rejected"],
                  IF target[j.wf] = None THEN "act.commit" ELSE "act.container")
        ELSE Goto(r, [j EXCEPT !.decision =
                        IF AllDone(stages, votes) THEN "completed" ELSE status[j.wf]],
                  "act.commit")
\* Faulty: the status of an undecided review is written as NULL.
ActAggregate_NoStatus(r) ==
  LET j == job[r]
      stages == DOMAIN approver[j.wf]
      votes == VotesSeen(j)
  IN /\ phase[r] = "act.aggregate"
     /\ IF AnyRejected(stages, votes)
        THEN Goto(r, [j EXCEPT !.decision = "rejected"],
                  IF target[j.wf] = None THEN "act.commit" ELSE "act.container")
        ELSE Goto(r, [j EXCEPT !.decision = IF AllDone(stages, votes) THEN "completed" ELSE None],
                  "act.commit")
ActAggregate(r) ==
  LET j == job[r]
      stages == DOMAIN approver[j.wf]
      votes == VotesSeen(j)
  IN /\ phase[r] = "act.aggregate"
     /\ IF AnyRejected(stages, votes)
        THEN Goto(r, [j EXCEPT !.decision = "rejected"],
                  IF target[j.wf] = None THEN "act.commit" ELSE "act.container")
        ELSE Goto(r, [j EXCEPT !.decision =
                        IF AllDone(stages, votes) THEN "completed" ELSE status[j.wf]],
                  "act.commit")

ActLockContainer(r) ==
  LET c == target[job[r].wf]
  IN /\ phase[r] = "act.container"
     /\ ContainerFree(r, c)
     /\ Goto(r, [job[r] EXCEPT !.seen = current_state[c]], "act.commit")

ReturnToWip == [from |-> "Shared", action |-> "return", to |-> "WIP"]

\* Faulty: the container is returned without looking at its state again.
ActCommit_BlindReturn(r) ==
  LET j == job[r]
      c == target[j.wf]
  IN /\ phase[r] = "act.commit"
     /\ result' = [result EXCEPT ![j.wf][j.stage] = j.input]
     /\ status' = [status EXCEPT ![j.wf] = j.decision]
     /\ IF j.seen # None
        THEN /\ current_state' = [current_state EXCEPT ![c] = "WIP"]
             /\ history' = [history EXCEPT ![c] = Append(@, HistoryRow(ReturnToWip, j.wf))]
        ELSE UNCHANGED <<current_state, history>>
     /\ Finish(r)
     /\ UNCHANGED <<title, target, approver>>
ActCommit(r) ==
  LET j == job[r]
      c == target[j.wf]
  IN /\ phase[r] = "act.commit"
     /\ result' = [result EXCEPT ![j.wf][j.stage] = j.input]
     /\ status' = [status EXCEPT ![j.wf] = j.decision]
     /\ IF j.seen = "Shared"
        THEN /\ current_state' = [current_state EXCEPT ![c] = "WIP"]
             /\ history' = [history EXCEPT ![c] = Append(@, HistoryRow(ReturnToWip, j.wf))]
        ELSE UNCHANGED <<current_state, history>>
     /\ Finish(r)
     /\ UNCHANGED <<title, target, approver>>

-----------------------------------------------------------------------------
Init ==
  /\ current_state = [c \in Container |-> "WIP"]
  /\ title \in [Container -> Title]
  /\ history = [c \in Container |-> << >>]
  /\ status = [w \in Workflow |-> "none"]
  /\ target = [w \in Workflow |-> None]
  /\ approver = [w \in Workflow |-> << >>]
  /\ result = [w \in Workflow |-> [i \in Stage |-> None]]
  /\ phase = [r \in Request |-> "idle"]
  /\ job = [r \in Request |-> NoJob]

Begin(r) ==
  \E u \in User :
    \/ \E c \in Container, a \in TransitionAction, e \in Expected :
         TransitionBegin(r, u, c, a, e)
    \/ \E c \in Container, x \in Title : UpdateRead(r, u, c, x)
    \/ \E w \in Workflow, i \in Stage, v \in Verdict : ActBegin(r, u, w, i, v)

\* What the server does for a request it has begun.
Proceed(r) ==
  \/ TransitionLock(r) \/ TransitionCommit(r)
  \/ UpdateWrite(r)
  \/ ActLockWorkflow(r) \/ ActLockApproval(r) \/ ActAggregate(r)
  \/ ActLockContainer(r) \/ ActCommit(r)

Next ==
  \/ \E r \in Request : Begin(r) \/ Proceed(r) \/ Rollback(r)
  \/ \E u \in User, w \in Workflow, x \in Container \cup {None}, l \in AssigneeList :
       StartWorkflow(u, w, x, l)

Spec == Init /\ [][Next]_vars

\* The event loop runs every request that can run, and PostgreSQL queues the
\* waiters of a row lock, so that no waiter is passed over for ever.  Nothing
\* forces a client to send a request or a worker to crash.
Fairness == \A r \in Request : SF_vars(Proceed(r))
FairSpec == Spec /\ Fairness

-----------------------------------------------------------------------------
(* Properties                                                              *)

Row == [from : ContainerState, action : TransitionAction, to : ContainerState,
        workflow : Workflow \cup {None}]
Job == [user : User \cup {None}, cont : Container \cup {None}, wf : Workflow \cup {None},
        stage : Stage \cup {0}, input : Input \cup {None},
        expected : ContainerState \cup {None}, seen : ContainerState \cup {None},
        decision : WorkflowStatus \cup {None}]

\* Every table and every request has its type.
TypeOK ==
  /\ current_state \in [Container -> ContainerState]
  /\ title \in [Container -> Title]
  /\ history \in [Container -> Seq(Row)]
  /\ status \in [Workflow -> WorkflowStatus]
  /\ target \in [Workflow -> Container \cup {None}]
  /\ approver \in [Workflow -> AssigneeList]
  /\ result \in [Workflow -> [Stage -> ApprovalResult \cup {None}]]
  /\ phase \in [Request -> Phase]
  /\ job \in [Request -> Job]

\* The state history of a container is an unbroken chain from WIP to the
\* current state: each row starts where the previous one ended (two transitions,
\* or a transition and the rejection of a review, never start from one state).
HistoryChain ==
  \A c \in Container :
    LET h == history[c]
    IN IF h = << >> THEN current_state[c] = "WIP"
       ELSE /\ h[1].from = "WIP"
            /\ \A k \in 1..Len(h) - 1 : h[k].to = h[k + 1].from
            /\ h[Len(h)].to = current_state[c]

\* The status of a workflow is what its approvals say (act_on_approval:
\* any_rejected, all_approved), however its approvers interleave: no vote is
\* lost between two aggregates, so a review whose last vote is in is decided.
StatusFollowsVotes ==
  \A w \in Workflow : status[w] # "none" =>
    LET stages == DOMAIN approver[w]
        votes == result[w]
    IN /\ status[w] = "rejected" <=> AnyRejected(stages, votes)
       /\ status[w] = "completed" <=>
            stages # {} /\ AllDone(stages, votes) /\ ~AnyRejected(stages, votes)
       /\ status[w] = "in_progress" \/ status[w] \in {"rejected", "completed"}

Voted(w) == { i \in DOMAIN approver[w] : result[w][i] # None }
ReturnsBy(w) ==
  UNION { { <<c, k>> : k \in { n \in DOMAIN history[c] : history[c][n].workflow = w } }
          : c \in Container }

\* A review returns only its own target, only once it has a rejection, and
\* never more often than it has votes: each return comes from one act.
ReturnsAreJustified ==
  \A w \in Workflow :
    /\ ReturnsBy(w) # {} => AnyRejected(DOMAIN approver[w], result[w])
    /\ \A p \in ReturnsBy(w) : p[1] = target[w]
    /\ Cardinality(ReturnsBy(w)) <= Cardinality(Voted(w))

\* The requests that hold the row lock r is waiting for.
BlockedBy(r) ==
  LET j == job[r] IN
  CASE phase[r] \in {"transition.lock", "update.write"} ->
         { q \in Request \ {r} : HoldsContainer(q, j.cont) }
    [] phase[r] = "act.workflow" ->
         { q \in Request \ {r} : HoldsWorkflow(q, j.wf) }
    [] phase[r] = "act.approval" ->
         { q \in Request \ {r} : HoldsApproval(q, j.wf, j.stage) }
    [] phase[r] = "act.container" ->
         { q \in Request \ {r} : HoldsContainer(q, target[j.wf]) }
    [] OTHER -> {}

\* The fixed lock order Workflow, Approval, Container leaves no set of requests
\* that all wait for one another (workflows.py, "Lock ordering").
NoDeadlock ==
  \A S \in SUBSET Request :
    S # {} => \E r \in S : BlockedBy(r) \cap S = {}

\* Seen through its state and its history alone, the system is the lifecycle.
Lifecycle == INSTANCE ContainerLifecycle
ImplementsLifecycle == Lifecycle!Spec

\* Seen through its approvals and status alone, each workflow is a review that
\* counts every vote once.
Review == INSTANCE ReviewDecision WITH User <- Member
ImplementsReview == Review!Spec

\* A request that has begun is answered: no wait for a row lock is for ever.
RequestsFinish == \A r \in Request : (phase[r] # "idle") ~> (phase[r] = "idle")

-----------------------------------------------------------------------------
(* The inductive invariant behind the safety properties.                   *)

InTransition == {"transition.lock", "transition.commit"}
InAct == {"act.workflow", "act.approval", "act.aggregate", "act.container", "act.commit"}

\* What a request at each await knows, and what of it is still true.
JobInv(r) ==
  LET j == job[r]
      stages == DOMAIN approver[j.wf]
  IN /\ phase[r] \in InTransition =>
          j.user \in User /\ j.cont \in Container /\ j.input \in TransitionAction
     /\ phase[r] = "transition.commit" =>
          j.seen = current_state[j.cont] /\ MovesFrom(j, j.seen) # {}
     /\ phase[r] = "update.write" => j.cont \in Container /\ j.input \in Title
     /\ phase[r] \in InAct =>
          j.wf \in Workflow /\ j.stage \in Stage /\ j.input \in ApprovalResult
     /\ phase[r] \in InAct \ {"act.workflow"} => status[j.wf] # "none"
     /\ phase[r] \in {"act.aggregate", "act.container", "act.commit"} =>
          j.stage \in stages /\ result[j.wf][j.stage] = None
     /\ phase[r] \in {"act.workflow", "act.approval", "act.aggregate", "act.container"} =>
          j.seen = None
     /\ phase[r] = "act.container" =>
          /\ j.decision = "rejected" /\ target[j.wf] \in Container
          /\ AnyRejected(stages, VotesSeen(j))
     /\ phase[r] = "act.commit" =>
          /\ AnyRejected(stages, VotesSeen(j)) => j.decision = "rejected"
          /\ ~AnyRejected(stages, VotesSeen(j)) =>
               j.decision = IF AllDone(stages, VotesSeen(j)) THEN "completed" ELSE "in_progress"
          /\ j.seen # None =>
               /\ j.decision = "rejected" /\ target[j.wf] \in Container
               /\ j.seen = current_state[target[j.wf]]

\* FOR UPDATE gives a row to one transaction at a time.
LocksExclude ==
  \A q, r \in Request :
    /\ \A w \in Workflow : HoldsWorkflow(q, w) /\ HoldsWorkflow(r, w) => q = r
    /\ \A c \in Container : HoldsContainer(q, c) /\ HoldsContainer(r, c) => q = r

NotStartedEmpty ==
  \A w \in Workflow : status[w] = "none" =>
    approver[w] = << >> /\ target[w] = None /\ result[w] = [i \in Stage |-> None]

\* What every request relies on between two of its awaits: the rows it has
\* locked still are what it read, although others run in between.
IndInv ==
  /\ TypeOK
  /\ \A r \in Request : JobInv(r)
  /\ LocksExclude
  /\ NotStartedEmpty
  /\ StatusFollowsVotes

-----------------------------------------------------------------------------
(* A statement of the code's comments the code does not keep.              *)

\* containers.py: "Only WIP containers can be updated".
OnlyWipUpdated ==
  [][ \A c \in Container : title'[c] # title[c] => current_state[c] = "WIP" ]_vars
==============================================================================
