----------------------- MODULE ApprovalWorkflow_proofs -----------------------
(***************************************************************************)
(* Proofs about ApprovalWorkflow, for any users, containers, workflows and *)
(* any number of concurrent requests.                                      *)
(***************************************************************************)
EXTENDS ApprovalWorkflow, FiniteSetTheorems, TLAPS

\* Every stage of a list of assignees is a stage.
LEMMA StagesOfList ==
  ASSUME NEW l \in AssigneeList
  PROVE  /\ DOMAIN l \subseteq Stage
         /\ \A i \in DOMAIN l : l[i] \in Member
<1>1. PICK n \in 0..MaxStages : l \in [1..n -> Member]
  BY DEF AssigneeList
<1>2. DOMAIN l = 1..n
  BY <1>1
<1>. QED
  BY <1>1, <1>2, BoundsAssumption DEF Stage

\* A workflow may have no stages.
LEMMA EmptyList == << >> \in AssigneeList
<1>1. << >> \in [1..0 -> Member]
  OBVIOUS
<1>2. 0 \in 0..MaxStages
  BY BoundsAssumption
<1>. QED
  BY <1>1, <1>2 DEF AssigneeList

\* A request that is idle holds a job, too.
LEMMA NoJobType == NoJob \in Job
BY DEF NoJob, Job, Stage

\* The invariant holds of the empty tables.
LEMMA InitInd == Init => IndInv
<1>. SUFFICES ASSUME Init PROVE IndInv
  OBVIOUS
<1>1. TypeOK
  BY EmptyList, NoJobType
  DEF Init, TypeOK, ContainerState, WorkflowStatus, Phase
<1>2. \A r \in Request : JobInv(r)
  BY DEF Init, JobInv, InTransition, InAct
<1>3. LocksExclude
  BY DEF Init, LocksExclude, HoldsWorkflow, HoldsContainer
<1>4. NotStartedEmpty /\ StatusFollowsVotes
  BY DEF Init, NotStartedEmpty, StatusFollowsVotes
<1>. QED
  BY <1>1, <1>2, <1>3, <1>4 DEF IndInv

-----------------------------------------------------------------------------
(* Steps that write no table a request relies on.                          *)

reliedOn == <<current_state, status, target, approver, result>>

\* A request that does not move keeps its invariant while those are unchanged.
LEMMA JobFrame ==
  ASSUME NEW q, JobInv(q), UNCHANGED reliedOn,
         phase'[q] = phase[q], job'[q] = job[q]
  PROVE  JobInv(q)'
BY DEF JobInv, reliedOn, MovesFrom, HasPermission, VotesSeen, AnyRejected, AllDone

\* A step of r that only changes its phase and job (and perhaps a title) keeps
\* the invariant when the new phase agrees with the tables and holds no lock
\* of another request.
LEMMA QuietStep ==
  ASSUME IndInv, NEW r \in Request, NEW p \in Phase, NEW j \in Job,
         UNCHANGED <<reliedOn, history>>,
         title' \in [Container -> Title],
         phase' = [phase EXCEPT ![r] = p],
         job' = [job EXCEPT ![r] = j],
         JobInv(r)',
         \A w \in Workflow : HoldsWorkflow(r, w)' => WorkflowFree(r, w),
         \A c \in Container : HoldsContainer(r, c)' => ContainerFree(r, c)
  PROVE  IndInv'
<1>1. TypeOK'
  BY DEF IndInv, TypeOK, reliedOn
<1>2. ASSUME NEW q \in Request PROVE JobInv(q)'
  <2>1. CASE q = r
    BY <2>1
  <2>2. CASE q # r
    <3>1. phase'[q] = phase[q] /\ job'[q] = job[q]
      BY <2>2 DEF IndInv, TypeOK
    <3>2. JobInv(q)
      BY DEF IndInv
    <3>. QED
      BY <3>1, <3>2, JobFrame
  <2>. QED
    BY <2>1, <2>2
<1>3. LocksExclude'
  <2>1. \A q \in Request \ {r} : phase'[q] = phase[q] /\ job'[q] = job[q]
    BY DEF IndInv, TypeOK
  <2>2. \A q \in Request \ {r}, w \in Workflow : HoldsWorkflow(q, w)' <=> HoldsWorkflow(q, w)
    BY <2>1 DEF HoldsWorkflow
  <2>3. \A q \in Request \ {r}, c \in Container : HoldsContainer(q, c)' <=> HoldsContainer(q, c)
    BY <2>1 DEF HoldsContainer, reliedOn
  <2>4. \A q, s \in Request, w \in Workflow :
          HoldsWorkflow(q, w)' /\ HoldsWorkflow(s, w)' => q = s
    BY <2>2 DEF IndInv, LocksExclude, WorkflowFree
  <2>5. \A q, s \in Request, c \in Container :
          HoldsContainer(q, c)' /\ HoldsContainer(s, c)' => q = s
    BY <2>3 DEF IndInv, LocksExclude, ContainerFree
  <2>. QED
    BY <2>4, <2>5 DEF LocksExclude
<1>4. NotStartedEmpty' /\ StatusFollowsVotes'
  BY DEF IndInv, NotStartedEmpty, StatusFollowsVotes, reliedOn, AnyRejected, AllDone
<1>. QED
  BY <1>1, <1>2, <1>3, <1>4 DEF IndInv

\* The same for a step that writes nothing at all.
LEMMA SilentStep ==
  ASSUME IndInv, NEW r \in Request, NEW p \in Phase, NEW j \in Job,
         UNCHANGED tables,
         phase' = [phase EXCEPT ![r] = p],
         job' = [job EXCEPT ![r] = j],
         JobInv(r)',
         \A w \in Workflow : HoldsWorkflow(r, w)' => WorkflowFree(r, w),
         \A c \in Container : HoldsContainer(r, c)' => ContainerFree(r, c)
  PROVE  IndInv'
<1>1. UNCHANGED <<reliedOn, history>> /\ title' \in [Container -> Title]
  BY DEF tables, reliedOn, IndInv, TypeOK
<1>. QED
  BY <1>1, QuietStep

\* A request that ends without writing: refused, rolled back, or crashed.
LEMMA RefuseInd ==
  ASSUME IndInv, NEW r \in Request, Refuse(r)
  PROVE  IndInv'
<1>1. phase' = [phase EXCEPT ![r] = "idle"] /\ job' = [job EXCEPT ![r] = NoJob]
      /\ UNCHANGED tables
  BY DEF Refuse, Finish
<1>2. phase'[r] = "idle"
  BY <1>1 DEF IndInv, TypeOK
<1>3. JobInv(r)'
  BY <1>2 DEF JobInv, InTransition, InAct
<1>4. "idle" \in Phase
  BY DEF Phase
<1>. QED
  BY <1>1, <1>2, <1>3, <1>4, NoJobType, SilentStep DEF HoldsWorkflow, HoldsContainer

\* POST /transition arrives.
LEMMA TransitionBeginInd ==
  ASSUME IndInv, NEW r \in Request, NEW u \in User, NEW c \in Container,
         NEW a \in TransitionAction, NEW e \in Expected, TransitionBegin(r, u, c, a, e)
  PROVE  IndInv'
<1>. DEFINE j == [NoJob EXCEPT !.user = u, !.cont = c, !.input = a, !.expected = e]
<1>1. j \in Job
  BY InputsAssumption DEF NoJob, Job, Input, Stage
<1>2. phase' = [phase EXCEPT ![r] = "transition.lock"] /\ job' = [job EXCEPT ![r] = j]
      /\ UNCHANGED tables
  BY DEF TransitionBegin, Arrive
<1>3. phase'[r] = "transition.lock" /\ job'[r] = j
  BY <1>2 DEF IndInv, TypeOK
<1>4. JobInv(r)'
  BY <1>3 DEF JobInv, InTransition, InAct, NoJob
<1>5. "transition.lock" \in Phase
  BY DEF Phase
<1>. QED
  BY <1>1, <1>2, <1>3, <1>4, <1>5, SilentStep DEF HoldsWorkflow, HoldsContainer

\* PATCH reads the container.
LEMMA UpdateReadInd ==
  ASSUME IndInv, NEW r \in Request, NEW u \in User, NEW c \in Container,
         NEW x \in Title, UpdateRead(r, u, c, x)
  PROVE  IndInv'
<1>. DEFINE j == [NoJob EXCEPT !.user = u, !.cont = c, !.input = x]
<1>1. j \in Job
  BY DEF NoJob, Job, Input, Stage
<1>2. phase' = [phase EXCEPT ![r] = "update.write"] /\ job' = [job EXCEPT ![r] = j]
      /\ UNCHANGED tables
  BY DEF UpdateRead, Arrive
<1>3. phase'[r] = "update.write" /\ job'[r] = j
  BY <1>2 DEF IndInv, TypeOK
<1>4. JobInv(r)'
  BY <1>3 DEF JobInv, InTransition, InAct, NoJob
<1>5. "update.write" \in Phase
  BY DEF Phase
<1>. QED
  BY <1>1, <1>2, <1>3, <1>4, <1>5, SilentStep DEF HoldsWorkflow, HoldsContainer

\* POST /act arrives.
LEMMA ActBeginInd ==
  ASSUME IndInv, NEW r \in Request, NEW u \in User, NEW w \in Workflow,
         NEW i \in Stage, NEW v \in Verdict, ActBegin(r, u, w, i, v)
  PROVE  IndInv'
<1>. DEFINE j == [NoJob EXCEPT !.user = u, !.wf = w, !.stage = i, !.input = v]
<1>1. j \in Job
  BY InputsAssumption DEF NoJob, Job, Input
<1>2. phase' = [phase EXCEPT ![r] = "act.workflow"] /\ job' = [job EXCEPT ![r] = j]
      /\ UNCHANGED tables
  BY DEF ActBegin, Arrive
<1>3. phase'[r] = "act.workflow" /\ job'[r] = j
  BY <1>2 DEF IndInv, TypeOK
<1>4. JobInv(r)'
  BY <1>3, InputsAssumption DEF JobInv, InTransition, InAct, NoJob
<1>5. "act.workflow" \in Phase
  BY DEF Phase
<1>. QED
  BY <1>1, <1>2, <1>3, <1>4, <1>5, SilentStep DEF HoldsWorkflow, HoldsContainer

\* The transition locks the container and decides.
LEMMA TransitionLockInd ==
  ASSUME IndInv, NEW r \in Request, TransitionLock(r)
  PROVE  IndInv'
<1>. DEFINE s == current_state[job[r].cont]
            j == [job[r] EXCEPT !.seen = s]
<1>1. CASE Refuse(r)
  BY <1>1, RefuseInd
<1>2. CASE MovesFrom(job[r], s) # {} /\ Goto(r, j, "transition.commit")
  <2>1. job[r] \in Job /\ phase[r] = "transition.lock" /\ JobInv(r)
        /\ ContainerFree(r, job[r].cont)
    BY DEF IndInv, TypeOK, TransitionLock
  <2>2. job[r].cont \in Container /\ job[r].user \in User /\ job[r].input \in TransitionAction
    BY <2>1 DEF JobInv, InTransition
  <2>3. s \in ContainerState
    BY <2>2 DEF IndInv, TypeOK
  <2>4. j \in Job
    BY <2>1, <2>3 DEF Job
  <2>5. phase' = [phase EXCEPT ![r] = "transition.commit"] /\ job' = [job EXCEPT ![r] = j]
        /\ UNCHANGED tables
    BY <1>2 DEF Goto
  <2>6. phase'[r] = "transition.commit" /\ job'[r] = j
    BY <2>5 DEF IndInv, TypeOK
  <2>7. j.cont = job[r].cont /\ j.seen = s /\ j.user = job[r].user /\ j.input = job[r].input
        /\ j.expected = job[r].expected
    BY <2>1 DEF Job
  <2>8. MovesFrom(j, s) # {}
    BY <1>2, <2>7 DEF MovesFrom
  <2>9. MovesFrom(job[r], job[r].seen)' = MovesFrom(j, s)
    BY <2>6, <2>7 DEF MovesFrom, HasPermission
  <2>10. JobInv(r)'
    BY <2>2, <2>5, <2>6, <2>7, <2>8, <2>9 DEF JobInv, InTransition, InAct, tables
  <2>11. "transition.commit" \in Phase
    BY DEF Phase
  <2>12. \A c \in Container : HoldsContainer(r, c)' => ContainerFree(r, c)
    BY <2>1, <2>6, <2>7 DEF HoldsContainer
  <2>13. \A w \in Workflow : ~HoldsWorkflow(r, w)'
    BY <2>6 DEF HoldsWorkflow
  <2>. QED
    BY <2>4, <2>5, <2>10, <2>11, <2>12, <2>13, SilentStep
<1>. QED
  BY <1>1, <1>2 DEF TransitionLock

\* The vote locks the workflow.
LEMMA ActLockWorkflowInd ==
  ASSUME IndInv, NEW r \in Request, ActLockWorkflow(r)
  PROVE  IndInv'
<1>. DEFINE j == job[r]
<1>1. CASE Refuse(r)
  BY <1>1, RefuseInd
<1>2. CASE status[j.wf] # "none" /\ Goto(r, j, "act.approval")
  <2>1. j \in Job /\ phase[r] = "act.workflow" /\ JobInv(r) /\ WorkflowFree(r, j.wf)
    BY DEF IndInv, TypeOK, ActLockWorkflow
  <2>2. phase' = [phase EXCEPT ![r] = "act.approval"] /\ job' = [job EXCEPT ![r] = j]
        /\ UNCHANGED tables
    BY <1>2 DEF Goto
  <2>3. phase'[r] = "act.approval" /\ job'[r] = j
    BY <2>2 DEF IndInv, TypeOK
  <2>4. JobInv(r)'
    BY <1>2, <2>1, <2>2, <2>3 DEF JobInv, InTransition, InAct, tables
  <2>5. "act.approval" \in Phase
    BY DEF Phase
  <2>6. \A w \in Workflow : HoldsWorkflow(r, w)' => WorkflowFree(r, w)
    BY <2>1, <2>3 DEF HoldsWorkflow
  <2>7. \A c \in Container : ~HoldsContainer(r, c)'
    BY <2>3 DEF HoldsContainer
  <2>. QED
    BY <2>1, <2>2, <2>4, <2>5, <2>6, <2>7, SilentStep
<1>. QED
  BY <1>1, <1>2 DEF ActLockWorkflow

\* Once a request holds its workflow it may go on holding it.
LEMMA KeepsWorkflow ==
  ASSUME IndInv, NEW r \in Request, NEW w \in Workflow, HoldsWorkflow(r, w)
  PROVE  WorkflowFree(r, w)
BY DEF IndInv, LocksExclude, WorkflowFree

\* The vote locks the approval of its stage.
LEMMA ActLockApprovalInd ==
  ASSUME IndInv, NEW r \in Request, ActLockApproval(r)
  PROVE  IndInv'
<1>. DEFINE j == job[r]
<1>1. CASE Refuse(r)
  BY <1>1, RefuseInd
<1>2. CASE /\ j.stage \in DOMAIN approver[j.wf]
           /\ result[j.wf][j.stage] = None
           /\ Goto(r, j, "act.aggregate")
  <2>1. j \in Job /\ phase[r] = "act.approval" /\ JobInv(r)
    BY DEF IndInv, TypeOK, ActLockApproval
  <2>2. phase' = [phase EXCEPT ![r] = "act.aggregate"] /\ job' = [job EXCEPT ![r] = j]
        /\ UNCHANGED tables
    BY <1>2 DEF Goto
  <2>3. phase'[r] = "act.aggregate" /\ job'[r] = j
    BY <2>2 DEF IndInv, TypeOK
  <2>4. JobInv(r)'
    BY <1>2, <2>1, <2>2, <2>3 DEF JobInv, InTransition, InAct, tables
  <2>5. "act.aggregate" \in Phase
    BY DEF Phase
  <2>6. \A w \in Workflow : HoldsWorkflow(r, w)' => WorkflowFree(r, w)
    BY <2>1, <2>3, KeepsWorkflow DEF HoldsWorkflow
  <2>7. \A c \in Container : ~HoldsContainer(r, c)'
    BY <2>3 DEF HoldsContainer
  <2>. QED
    BY <2>1, <2>2, <2>4, <2>5, <2>6, <2>7, SilentStep
<1>. QED
  BY <1>1, <1>2 DEF ActLockApproval

\* While one of its approvals has no result and none is a rejection, a
\* workflow that was started is in progress.
LEMMA UndecidedInProgress ==
  ASSUME IndInv, NEW w \in Workflow, status[w] # "none",
         NEW i \in DOMAIN approver[w], result[w][i] = None,
         ~AnyRejected(DOMAIN approver[w], result[w])
  PROVE  status[w] = "in_progress"
BY DEF IndInv, StatusFollowsVotes, AllDone

\* The vote of a request that reached the aggregate is the only change it sees.
LEMMA VotesSeenFact ==
  ASSUME IndInv, NEW r \in Request,
         phase[r] \in {"act.aggregate", "act.container", "act.commit"}
  PROVE  LET j == job[r] IN
         /\ j \in Job /\ j.wf \in Workflow /\ j.stage \in DOMAIN approver[j.wf]
         /\ j.stage \in Stage /\ j.input \in ApprovalResult
         /\ status[j.wf] # "none" /\ result[j.wf][j.stage] = None
         /\ VotesSeen(j) \in [Stage -> ApprovalResult \cup {None}]
         /\ VotesSeen(j)[j.stage] = j.input
         /\ \A i \in Stage \ {j.stage} : VotesSeen(j)[i] = result[j.wf][i]
         /\ DOMAIN approver[j.wf] \subseteq Stage
<1>. DEFINE j == job[r]
<1>1. JobInv(r) /\ j \in Job /\ TypeOK
  BY DEF IndInv, TypeOK
<1>2. /\ j.wf \in Workflow /\ j.stage \in DOMAIN approver[j.wf]
      /\ j.stage \in Stage /\ j.input \in ApprovalResult
      /\ status[j.wf] # "none" /\ result[j.wf][j.stage] = None
  BY <1>1 DEF JobInv, InAct
<1>3. result[j.wf] \in [Stage -> ApprovalResult \cup {None}] /\ approver[j.wf] \in AssigneeList
  BY <1>1, <1>2 DEF TypeOK
<1>4. DOMAIN approver[j.wf] \subseteq Stage
  BY <1>3, StagesOfList
<1>. QED
  BY <1>1, <1>2, <1>3, <1>4 DEF VotesSeen

\* The vote sees the other approvals and draws the conclusion.
LEMMA ActAggregateInd ==
  ASSUME IndInv, NEW r \in Request, ActAggregate(r)
  PROVE  IndInv'
<1>. DEFINE j == job[r]
            stages == DOMAIN approver[j.wf]
            votes == VotesSeen(j)
<1>1. /\ j \in Job /\ phase[r] = "act.aggregate" /\ JobInv(r) /\ TypeOK
  BY DEF IndInv, TypeOK, ActAggregate
<1>2. /\ j.wf \in Workflow /\ j.stage \in stages /\ j.stage \in Stage
      /\ j.input \in ApprovalResult /\ status[j.wf] # "none"
      /\ result[j.wf][j.stage] = None /\ j.seen = None
  BY <1>1, VotesSeenFact DEF JobInv
<1>3. ASSUME NEW d \in WorkflowStatus, NEW p \in {"act.container", "act.commit"},
             Goto(r, [j EXCEPT !.decision = d], p),
             p = "act.container" =>
               d = "rejected" /\ target[j.wf] \in Container /\ AnyRejected(stages, votes),
             p = "act.commit" =>
               /\ AnyRejected(stages, votes) => d = "rejected" /\ target[j.wf] = None
               /\ ~AnyRejected(stages, votes) =>
                    d = IF AllDone(stages, votes) THEN "completed" ELSE "in_progress"
      PROVE  IndInv'
  <2>. DEFINE k == [j EXCEPT !.decision = d]
  <2>1. k \in Job
    BY <1>1 DEF Job
  <2>2. phase' = [phase EXCEPT ![r] = p] /\ job' = [job EXCEPT ![r] = k]
        /\ UNCHANGED tables
    BY <1>3 DEF Goto
  <2>3. phase'[r] = p /\ job'[r] = k
    BY <2>2, <1>1 DEF TypeOK
  <2>4. /\ k.wf = j.wf /\ k.stage = j.stage /\ k.input = j.input /\ k.seen = None
        /\ k.decision = d
    BY <1>1, <1>2 DEF Job
  <2>5. VotesSeen(job[r])' = votes
    BY <2>2, <2>3, <2>4 DEF VotesSeen, tables
  <2>6. JobInv(r)'
    <3>1. /\ approver'[k.wf] = approver[j.wf] /\ target'[k.wf] = target[j.wf]
          /\ status'[k.wf] = status[j.wf] /\ result'[k.wf] = result[j.wf]
      BY <2>2, <2>4 DEF tables
    <3>2. CASE p = "act.container"
      BY <1>2, <1>3, <2>3, <2>4, <2>5, <3>1, <3>2 DEF JobInv, InTransition, InAct
    <3>3. CASE p = "act.commit"
      BY <1>2, <1>3, <2>3, <2>4, <2>5, <3>1, <3>3 DEF JobInv, InTransition, InAct
    <3>. QED
      BY <3>2, <3>3
  <2>7. p \in Phase
    BY DEF Phase
  <2>8. \A w \in Workflow : HoldsWorkflow(r, w)' => WorkflowFree(r, w)
    BY <1>1, <2>3, <2>4, KeepsWorkflow DEF HoldsWorkflow
  <2>9. \A c \in Container : ~HoldsContainer(r, c)'
    <3>1. CASE p = "act.container"
      BY <3>1, <2>3 DEF HoldsContainer
    <3>2. CASE p = "act.commit"
      <4>1. ~AnyRejected(stages, votes) => d # "rejected"
        BY <1>3, <3>2
      <4>2. d = "rejected" => target[j.wf] = None
        BY <1>3, <3>2, <4>1
      <4>3. target' = target
        BY <2>2 DEF tables
      <4>. QED
        BY <4>2, <4>3, <3>2, <2>3, <2>4, NoneAssumption DEF HoldsContainer
    <3>. QED
      BY <3>1, <3>2
  <2>. QED
    BY <2>1, <2>2, <2>6, <2>7, <2>8, <2>9, SilentStep
<1>4. CASE AnyRejected(stages, votes) /\ target[j.wf] = None
  <2>1. Goto(r, [j EXCEPT !.decision = "rejected"], "act.commit")
    BY <1>4 DEF ActAggregate
  <2>2. "rejected" \in WorkflowStatus
    BY DEF WorkflowStatus
  <2>. QED
    BY <1>3, <1>4, <2>1, <2>2
<1>5. CASE AnyRejected(stages, votes) /\ target[j.wf] # None
  <2>1. Goto(r, [j EXCEPT !.decision = "rejected"], "act.container")
    BY <1>5 DEF ActAggregate
  <2>2. "rejected" \in WorkflowStatus /\ target[j.wf] \in Container
    BY <1>1, <1>2, <1>5 DEF WorkflowStatus, TypeOK
  <2>. QED
    BY <1>3, <1>5, <2>1, <2>2
<1>6. CASE ~AnyRejected(stages, votes)
  <2>. DEFINE d == IF AllDone(stages, votes) THEN "completed" ELSE status[j.wf]
  <2>1. Goto(r, [j EXCEPT !.decision = d], "act.commit")
    BY <1>6 DEF ActAggregate
  <2>2. ~AnyRejected(stages, result[j.wf])
    BY <1>1, <1>2, <1>6, VotesSeenFact, NoneAssumption DEF AnyRejected, ApprovalResult
  <2>3. status[j.wf] = "in_progress"
    BY <1>2, <2>2, UndecidedInProgress
  <2>4. d \in WorkflowStatus
    BY <2>3 DEF WorkflowStatus
  <2>. QED
    BY <1>3, <1>6, <2>1, <2>3, <2>4
<1>. QED
  BY <1>4, <1>5, <1>6

\* The vote locks the container that it is to return.
LEMMA ActLockContainerInd ==
  ASSUME IndInv, NEW r \in Request, ActLockContainer(r)
  PROVE  IndInv'
<1>. DEFINE j == job[r]
            c == target[j.wf]
            k == [j EXCEPT !.seen = current_state[c]]
<1>1. j \in Job /\ phase[r] = "act.container" /\ JobInv(r) /\ TypeOK /\ ContainerFree(r, c)
  BY DEF IndInv, TypeOK, ActLockContainer
<1>2. /\ j.wf \in Workflow /\ j.stage \in DOMAIN approver[j.wf] /\ j.stage \in Stage
      /\ j.input \in ApprovalResult /\ status[j.wf] # "none"
      /\ result[j.wf][j.stage] = None
  BY <1>1, VotesSeenFact
<1>3. /\ j.decision = "rejected" /\ c \in Container
      /\ AnyRejected(DOMAIN approver[j.wf], VotesSeen(j))
  BY <1>1 DEF JobInv
<1>4. k \in Job
  BY <1>1, <1>3 DEF Job, TypeOK
<1>5. phase' = [phase EXCEPT ![r] = "act.commit"] /\ job' = [job EXCEPT ![r] = k]
      /\ UNCHANGED tables
  BY DEF Goto, ActLockContainer
<1>6. phase'[r] = "act.commit" /\ job'[r] = k
  BY <1>5, <1>1 DEF TypeOK
<1>7. /\ k.wf = j.wf /\ k.stage = j.stage /\ k.input = j.input /\ k.seen = current_state[c]
      /\ k.decision = "rejected"
  BY <1>1, <1>3 DEF Job
<1>8. VotesSeen(job[r])' = VotesSeen(j)
  BY <1>5, <1>6, <1>7 DEF VotesSeen, tables
<1>9. /\ approver'[k.wf] = approver[j.wf] /\ target'[k.wf] = target[j.wf]
      /\ status'[k.wf] = status[j.wf] /\ result'[k.wf] = result[j.wf]
      /\ current_state' = current_state
  BY <1>5, <1>7 DEF tables
<1>10. JobInv(r)'
  BY <1>2, <1>3, <1>6, <1>7, <1>8, <1>9 DEF JobInv, InTransition, InAct
<1>11. "act.commit" \in Phase
  BY DEF Phase
<1>12. \A w \in Workflow : HoldsWorkflow(r, w)' => WorkflowFree(r, w)
  BY <1>1, <1>6, <1>7, KeepsWorkflow DEF HoldsWorkflow
<1>13. \A d \in Container : HoldsContainer(r, d)' => ContainerFree(r, d)
  BY <1>1, <1>6, <1>7, <1>9 DEF HoldsContainer
<1>. QED
  BY <1>4, <1>5, <1>10, <1>11, <1>12, <1>13, SilentStep

-----------------------------------------------------------------------------
(* Steps that commit.                                                      *)

\* A request that has just finished knows nothing and holds nothing.
LEMMA FinishedInv ==
  ASSUME NEW r \in Request, TypeOK, Finish(r)
  PROVE  /\ JobInv(r)'
         /\ phase' \in [Request -> Phase] /\ job' \in [Request -> Job]
         /\ \A w : ~HoldsWorkflow(r, w)'
         /\ \A c : ~HoldsContainer(r, c)'
         /\ \A q \in Request \ {r} : phase'[q] = phase[q] /\ job'[q] = job[q]
<1>1. phase' = [phase EXCEPT ![r] = "idle"] /\ job' = [job EXCEPT ![r] = NoJob]
  BY DEF Finish
<1>2. "idle" \in Phase /\ NoJob \in Job
  BY NoJobType DEF Phase
<1>3. phase' \in [Request -> Phase] /\ job' \in [Request -> Job] /\ phase'[r] = "idle"
      /\ \A q \in Request \ {r} : phase'[q] = phase[q] /\ job'[q] = job[q]
  BY <1>1, <1>2 DEF TypeOK
<1>. QED
  BY <1>3 DEF JobInv, InTransition, InAct, HoldsWorkflow, HoldsContainer

\* PATCH writes what it has read.
LEMMA UpdateWriteInd ==
  ASSUME IndInv, NEW r \in Request, UpdateWrite(r)
  PROVE  IndInv'
<1>1. TypeOK /\ JobInv(r) /\ Finish(r) /\ phase[r] = "update.write"
  BY DEF IndInv, UpdateWrite
<1>2. job[r].cont \in Container /\ job[r].input \in Title
  BY <1>1 DEF JobInv
<1>3. title' \in [Container -> Title]
  BY <1>1, <1>2 DEF UpdateWrite, TypeOK
<1>4. UNCHANGED <<reliedOn, history>>
  BY DEF UpdateWrite, reliedOn
<1>5. phase' = [phase EXCEPT ![r] = "idle"] /\ job' = [job EXCEPT ![r] = NoJob]
  BY <1>1 DEF Finish
<1>6. "idle" \in Phase
  BY DEF Phase
<1>. QED
  BY <1>1, <1>3, <1>4, <1>5, <1>6, NoJobType, FinishedInv, QuietStep

\* The locks of the other requests do not change when r finishes and no
\* workflow changes its target.
LEMMA LocksFrame ==
  ASSUME IndInv, NEW r \in Request, Finish(r), UNCHANGED target
  PROVE  LocksExclude'
<1>1. \A q \in Request \ {r} : phase'[q] = phase[q] /\ job'[q] = job[q]
  BY FinishedInv DEF IndInv
<1>2. \A q \in Request \ {r} :
        /\ \A w \in Workflow : HoldsWorkflow(q, w)' <=> HoldsWorkflow(q, w)
        /\ \A c \in Container : HoldsContainer(q, c)' <=> HoldsContainer(q, c)
  BY <1>1 DEF HoldsWorkflow, HoldsContainer
<1>3. \A w : ~HoldsWorkflow(r, w)'
  BY FinishedInv DEF IndInv
<1>4. \A c : ~HoldsContainer(r, c)'
  BY FinishedInv DEF IndInv
<1>5. \A q, s \in Request, w \in Workflow :
        HoldsWorkflow(q, w)' /\ HoldsWorkflow(s, w)' => q = s
  BY <1>2, <1>3 DEF IndInv, LocksExclude
<1>6. \A q, s \in Request, c \in Container :
        HoldsContainer(q, c)' /\ HoldsContainer(s, c)' => q = s
  BY <1>2, <1>4 DEF IndInv, LocksExclude
<1>. QED
  BY <1>5, <1>6 DEF LocksExclude

\* What a transition request writes when it commits.
LEMMA TransitionWrites ==
  ASSUME IndInv, NEW r \in Request, TransitionCommit(r)
  PROVE  LET j == job[r] IN
         /\ j.cont \in Container /\ HoldsContainer(r, j.cont)
         /\ \E t \in VALID_TRANSITIONS :
              /\ t \in MovesFrom(j, current_state[j.cont])
              /\ t.from = current_state[j.cont]
              /\ current_state' = [current_state EXCEPT ![j.cont] = t.to]
              /\ history' = [history EXCEPT ![j.cont] = Append(@, HistoryRow(t, None))]
         /\ UNCHANGED <<title, status, target, approver, result>>
         /\ Finish(r)
<1>. DEFINE j == job[r]
<1>1. JobInv(r) /\ phase[r] = "transition.commit"
  BY DEF IndInv, TransitionCommit
<1>2. j.cont \in Container /\ j.seen = current_state[j.cont]
  BY <1>1 DEF JobInv, InTransition
<1>3. HoldsContainer(r, j.cont)
  BY <1>1 DEF HoldsContainer
<1>4. PICK t \in MovesFrom(j, j.seen) :
              /\ current_state' = [current_state EXCEPT ![j.cont] = t.to]
              /\ history' = [history EXCEPT ![j.cont] = Append(@, HistoryRow(t, None))]
  BY DEF TransitionCommit
<1>5. t \in VALID_TRANSITIONS /\ t.from = current_state[j.cont]
  BY <1>2, <1>4 DEF MovesFrom
<1>6. UNCHANGED <<title, status, target, approver, result>> /\ Finish(r)
  BY DEF TransitionCommit
<1>. QED
  BY <1>2, <1>3, <1>4, <1>5, <1>6

\* The rows of the transition table are between states, by actions.
LEMMA TransitionTypes ==
  ASSUME NEW t \in VALID_TRANSITIONS, NEW w \in Workflow \cup {None}
  PROVE  /\ t.from \in ContainerState /\ t.to \in ContainerState
         /\ t.action \in TransitionAction
         /\ HistoryRow(t, w) \in Row
BY DEF VALID_TRANSITIONS, ContainerState, TransitionAction, HistoryRow, Row

\* The transition writes state and history, and frees the row.
LEMMA TransitionCommitInd ==
  ASSUME IndInv, NEW r \in Request, TransitionCommit(r)
  PROVE  IndInv'
<1>. DEFINE j == job[r]
            c == job[r].cont
<1>1. TypeOK
  BY DEF IndInv
<1>2. /\ c \in Container /\ HoldsContainer(r, c)
      /\ UNCHANGED <<title, status, target, approver, result>>
      /\ Finish(r)
  BY TransitionWrites
<1>3. PICK t \in VALID_TRANSITIONS :
              /\ current_state' = [current_state EXCEPT ![c] = t.to]
              /\ history' = [history EXCEPT ![c] = Append(@, HistoryRow(t, None))]
  BY TransitionWrites
<1>4. t.to \in ContainerState /\ HistoryRow(t, None) \in Row
  BY TransitionTypes
<1>5. TypeOK'
  <2>1. current_state' \in [Container -> ContainerState]
    BY <1>1, <1>2, <1>3, <1>4 DEF TypeOK
  <2>2. history' \in [Container -> Seq(Row)]
    BY <1>1, <1>2, <1>3, <1>4 DEF TypeOK
  <2>3. phase' \in [Request -> Phase] /\ job' \in [Request -> Job]
    BY <1>1, <1>2, FinishedInv
  <2>. QED
    BY <1>1, <1>2, <2>1, <2>2, <2>3 DEF TypeOK
<1>6. ASSUME NEW q \in Request PROVE JobInv(q)'
  <2>1. CASE q = r
    BY <1>1, <1>2, <2>1, FinishedInv
  <2>2. CASE q # r
    <3>1. phase'[q] = phase[q] /\ job'[q] = job[q] /\ JobInv(q)
      BY <1>1, <1>2, <2>2, FinishedInv DEF IndInv
    <3>2. ~HoldsContainer(q, c)
      BY <1>2, <2>2 DEF IndInv, LocksExclude
    <3>3. phase[q] = "transition.commit" => current_state'[job[q].cont] = current_state[job[q].cont]
      <4>1. phase[q] = "transition.commit" => job[q].cont # c
        BY <3>2 DEF HoldsContainer
      <4>. QED
        BY <1>1, <1>3, <3>1, <4>1 DEF TypeOK
    <3>4. phase[q] = "act.commit" /\ job[q].seen # None =>
            current_state'[target[job[q].wf]] = current_state[target[job[q].wf]]
      <4>1. phase[q] = "act.commit" /\ job[q].seen # None =>
              job[q].decision = "rejected" /\ target[job[q].wf] \in Container
        BY <3>1 DEF JobInv
      <4>2. phase[q] = "act.commit" /\ job[q].seen # None => target[job[q].wf] # c
        BY <3>2, <4>1 DEF HoldsContainer
      <4>. QED
        BY <1>1, <1>3, <4>1, <4>2 DEF TypeOK
    <3>5. VotesSeen(job[q])' = VotesSeen(job[q])
      BY <1>2, <3>1 DEF VotesSeen
    <3>6. MovesFrom(job[q], job[q].seen)' = MovesFrom(job[q], job[q].seen)
      BY <3>1 DEF MovesFrom, HasPermission
    <3>. QED
      BY <1>2, <3>1, <3>3, <3>4, <3>5, <3>6 DEF JobInv
  <2>. QED
    BY <2>1, <2>2
<1>7. LocksExclude'
  BY <1>2, LocksFrame
<1>8. NotStartedEmpty' /\ StatusFollowsVotes'
  BY <1>2 DEF IndInv, NotStartedEmpty, StatusFollowsVotes
<1>. QED
  BY <1>5, <1>6, <1>7, <1>8 DEF IndInv

\* What an act writes when it commits.
LEMMA ActWrites ==
  ASSUME IndInv, NEW r \in Request, ActCommit(r)
  PROVE  LET j == job[r]
             w == job[r].wf
             c == target[job[r].wf]
             stages == DOMAIN approver[job[r].wf]
         IN
         /\ w \in Workflow /\ HoldsWorkflow(r, w)
         /\ status[w] # "none" /\ j.stage \in stages /\ j.stage \in Stage
         /\ stages \subseteq Stage
         /\ j.input \in ApprovalResult /\ result[w][j.stage] = None
         /\ result' = [result EXCEPT ![w][j.stage] = j.input]
         /\ result'[w] = VotesSeen(j)
         /\ status' = [status EXCEPT ![w] = j.decision]
         /\ j.decision = IF AnyRejected(stages, result'[w]) THEN "rejected"
                         ELSE IF AllDone(stages, result'[w]) THEN "completed"
                         ELSE "in_progress"
         /\ UNCHANGED <<title, target, approver>>
         /\ Finish(r)
         /\ j.seen # None => c \in Container /\ HoldsContainer(r, c) /\ j.seen = current_state[c]
                             /\ j.decision = "rejected"
         /\ IF j.seen = "Shared"
            THEN /\ current_state' = [current_state EXCEPT ![c] = "WIP"]
                 /\ history' = [history EXCEPT ![c] = Append(@, HistoryRow(ReturnToWip, w))]
            ELSE UNCHANGED <<current_state, history>>
<1>. DEFINE j == job[r]
            w == job[r].wf
            c == target[job[r].wf]
            stages == DOMAIN approver[job[r].wf]
<1>1. JobInv(r) /\ TypeOK /\ phase[r] = "act.commit"
  BY DEF IndInv, ActCommit
<1>2. /\ w \in Workflow /\ status[w] # "none" /\ j.stage \in stages /\ j.stage \in Stage
      /\ stages \subseteq Stage /\ j.input \in ApprovalResult /\ result[w][j.stage] = None
  BY <1>1, VotesSeenFact
<1>3. HoldsWorkflow(r, w)
  BY <1>1 DEF HoldsWorkflow
<1>4. /\ result' = [result EXCEPT ![w][j.stage] = j.input]
      /\ status' = [status EXCEPT ![w] = j.decision]
      /\ UNCHANGED <<title, target, approver>>
      /\ Finish(r)
      /\ IF j.seen = "Shared"
         THEN /\ current_state' = [current_state EXCEPT ![c] = "WIP"]
              /\ history' = [history EXCEPT ![c] = Append(@, HistoryRow(ReturnToWip, w))]
         ELSE UNCHANGED <<current_state, history>>
  BY DEF ActCommit
<1>5. result'[w] = VotesSeen(j)
  BY <1>1, <1>2, <1>4 DEF VotesSeen, TypeOK
<1>6. j.decision = IF AnyRejected(stages, result'[w]) THEN "rejected"
                   ELSE IF AllDone(stages, result'[w]) THEN "completed"
                   ELSE "in_progress"
  BY <1>1, <1>5 DEF JobInv
<1>7. j.seen # None => c \in Container /\ j.decision = "rejected" /\ j.seen = current_state[c]
  BY <1>1 DEF JobInv
<1>8. j.seen # None => HoldsContainer(r, c)
  BY <1>1, <1>7 DEF HoldsContainer
<1>. QED
  BY <1>2, <1>3, <1>4, <1>5, <1>6, <1>7, <1>8

\* The vote, its outcome and a return are committed together.
LEMMA ActCommitInd ==
  ASSUME IndInv, NEW r \in Request, ActCommit(r)
  PROVE  IndInv'
<1>. DEFINE j == job[r]
            w == job[r].wf
            c == target[job[r].wf]
            stages == DOMAIN approver[job[r].wf]
<1>1. TypeOK
  BY DEF IndInv
<1>2. /\ w \in Workflow /\ HoldsWorkflow(r, w)
      /\ status[w] # "none" /\ j.stage \in stages /\ j.stage \in Stage
      /\ j.input \in ApprovalResult
      /\ result' = [result EXCEPT ![w][j.stage] = j.input]
      /\ status' = [status EXCEPT ![w] = j.decision]
      /\ j.decision = IF AnyRejected(stages, result'[w]) THEN "rejected"
                      ELSE IF AllDone(stages, result'[w]) THEN "completed"
                      ELSE "in_progress"
      /\ UNCHANGED <<title, target, approver>>
      /\ Finish(r)
  BY ActWrites
<1>3. /\ j.seen # None => c \in Container /\ HoldsContainer(r, c)
      /\ IF j.seen = "Shared"
         THEN /\ current_state' = [current_state EXCEPT ![c] = "WIP"]
              /\ history' = [history EXCEPT ![c] = Append(@, HistoryRow(ReturnToWip, w))]
         ELSE UNCHANGED <<current_state, history>>
  BY ActWrites
<1>4. j.seen = "Shared" => c \in Container /\ HoldsContainer(r, c)
  BY <1>3, NoneAssumption DEF ContainerState
<1>5. TypeOK'
  <2>1. current_state' \in [Container -> ContainerState]
    BY <1>1, <1>3, <1>4 DEF TypeOK, ContainerState
  <2>2. HistoryRow(ReturnToWip, w) \in Row
    BY <1>2 DEF HistoryRow, ReturnToWip, Row, ContainerState, TransitionAction
  <2>3. history' \in [Container -> Seq(Row)]
    <3>1. CASE j.seen = "Shared"
      <4>1. Append(history[c], HistoryRow(ReturnToWip, w)) \in Seq(Row)
        BY <1>1, <1>4, <2>2, <3>1 DEF TypeOK
      <4>. QED
        BY <1>1, <1>3, <1>4, <3>1, <4>1 DEF TypeOK
    <3>2. CASE j.seen # "Shared"
      BY <1>1, <1>3, <3>2 DEF TypeOK
    <3>. QED
      BY <3>1, <3>2
  <2>4. result' \in [Workflow -> [Stage -> ApprovalResult \cup {None}]]
    BY <1>1, <1>2 DEF TypeOK
  <2>5. j.decision \in WorkflowStatus
    BY <1>2 DEF WorkflowStatus
  <2>6. status' \in [Workflow -> WorkflowStatus]
    BY <1>1, <1>2, <2>5 DEF TypeOK
  <2>7. phase' \in [Request -> Phase] /\ job' \in [Request -> Job]
    BY <1>1, <1>2, FinishedInv
  <2>. QED
    BY <1>1, <1>2, <2>1, <2>3, <2>4, <2>6, <2>7 DEF TypeOK
<1>6. ASSUME NEW q \in Request PROVE JobInv(q)'
  <2>1. CASE q = r
    BY <1>1, <1>2, <2>1, FinishedInv
  <2>2. CASE q # r
    <3>1. phase'[q] = phase[q] /\ job'[q] = job[q] /\ JobInv(q)
      BY <1>1, <1>2, <2>2, FinishedInv DEF IndInv
    <3>2. ~HoldsWorkflow(q, w) /\ (j.seen = "Shared" => ~HoldsContainer(q, c))
      BY <1>2, <1>4, <2>2 DEF IndInv, LocksExclude
    <3>3. CASE phase[q] \in {"act.approval", "act.aggregate", "act.container", "act.commit"}
      <4>1. job[q].wf # w
        BY <3>2, <3>3 DEF HoldsWorkflow
      <4>2. status'[job[q].wf] = status[job[q].wf] /\ result'[job[q].wf] = result[job[q].wf]
        BY <1>1, <1>2, <4>1 DEF TypeOK
      <4>3. VotesSeen(job[q])' = VotesSeen(job[q])
        BY <3>1, <4>2 DEF VotesSeen
      <4>4. phase[q] = "act.commit" /\ job[q].seen # None =>
              current_state'[target[job[q].wf]] = current_state[target[job[q].wf]]
        <5>1. phase[q] = "act.commit" /\ job[q].seen # None =>
                job[q].decision = "rejected" /\ target[job[q].wf] \in Container
          BY <3>1 DEF JobInv
        <5>2. phase[q] = "act.commit" /\ job[q].seen # None /\ j.seen = "Shared" =>
                target[job[q].wf] # c
          BY <3>2, <5>1 DEF HoldsContainer
        <5>. QED
          BY <1>1, <1>3, <5>1, <5>2 DEF TypeOK
      <4>. QED
        BY <1>2, <3>1, <3>3, <4>2, <4>3, <4>4 DEF JobInv, InTransition, InAct
    <3>4. CASE phase[q] = "transition.commit"
      <4>1. job[q].cont \in Container /\ (j.seen = "Shared" => job[q].cont # c)
        BY <3>1, <3>2, <3>4 DEF HoldsContainer, JobInv, InTransition
      <4>2. current_state'[job[q].cont] = current_state[job[q].cont]
        BY <1>1, <1>3, <4>1 DEF TypeOK
      <4>3. MovesFrom(job[q], job[q].seen)' = MovesFrom(job[q], job[q].seen)
        BY <3>1 DEF MovesFrom, HasPermission
      <4>. QED
        BY <3>1, <3>4, <4>2, <4>3 DEF JobInv, InTransition, InAct
    <3>5. CASE phase[q] \in {"idle", "transition.lock", "update.write", "act.workflow"}
      BY <3>1, <3>5 DEF JobInv, InTransition, InAct
    <3>. QED
      BY <1>1, <3>3, <3>4, <3>5 DEF TypeOK, Phase
  <2>. QED
    BY <2>1, <2>2
<1>7. LocksExclude'
  BY <1>2, LocksFrame
<1>8. NotStartedEmpty'
  <2>1. ASSUME NEW v \in Workflow, status'[v] = "none"
        PROVE  approver'[v] = << >> /\ target'[v] = None /\ result'[v] = [i \in Stage |-> None]
    <3>1. v # w
      BY <1>1, <1>2, <2>1 DEF TypeOK
    <3>. QED
      BY <1>1, <1>2, <2>1, <3>1 DEF TypeOK, IndInv, NotStartedEmpty
  <2>. QED
    BY <2>1 DEF NotStartedEmpty
<1>9. StatusFollowsVotes'
  <2>1. ASSUME NEW v \in Workflow, status'[v] # "none", v # w
        PROVE  status'[v] = status[v] /\ result'[v] = result[v] /\ approver'[v] = approver[v]
    BY <1>1, <1>2, <2>1 DEF TypeOK
  <2>2. /\ status'[w] = j.decision /\ approver'[w] = approver[w] /\ stages # {}
    BY <1>1, <1>2 DEF TypeOK
  <2>. QED
    BY <1>2, <2>1, <2>2 DEF IndInv, StatusFollowsVotes
<1>. QED
  BY <1>5, <1>6, <1>7, <1>8, <1>9 DEF IndInv

\* A workflow starts in one transaction.
LEMMA StartWorkflowInd ==
  ASSUME IndInv, NEW u \in User, NEW w \in Workflow, NEW x \in Container \cup {None},
         NEW l \in AssigneeList, StartWorkflow(u, w, x, l)
  PROVE  IndInv'
<1>1. TypeOK /\ status[w] = "none" /\ result[w] = [i \in Stage |-> None]
  BY DEF IndInv, NotStartedEmpty, StartWorkflow
<1>2. /\ status' = [status EXCEPT ![w] = "in_progress"]
      /\ target' = [target EXCEPT ![w] = x]
      /\ approver' = [approver EXCEPT ![w] = l]
      /\ UNCHANGED <<current_state, title, history, result, phase, job>>
  BY DEF StartWorkflow
<1>3. TypeOK'
  BY <1>1, <1>2 DEF TypeOK, WorkflowStatus
<1>4. ASSUME NEW q \in Request, phase[q] \in InAct \ {"act.workflow"}
      PROVE  /\ job[q].wf # w
             /\ status'[job[q].wf] = status[job[q].wf]
             /\ target'[job[q].wf] = target[job[q].wf]
             /\ approver'[job[q].wf] = approver[job[q].wf]
  <2>1. job[q].wf \in Workflow /\ status[job[q].wf] # "none"
    BY <1>4 DEF IndInv, JobInv, InAct
  <2>. QED
    BY <1>1, <1>2, <2>1 DEF TypeOK
<1>5. ASSUME NEW q \in Request PROVE JobInv(q)'
  <2>1. JobInv(q)
    BY DEF IndInv
  <2>2. VotesSeen(job[q])' = VotesSeen(job[q])
    BY <1>2 DEF VotesSeen
  <2>3. MovesFrom(job[q], job[q].seen)' = MovesFrom(job[q], job[q].seen)
    BY <1>2 DEF MovesFrom, HasPermission
  <2>4. CASE phase[q] \in InAct \ {"act.workflow"}
    BY <1>2, <1>4, <2>1, <2>2, <2>4 DEF JobInv, InAct, InTransition
  <2>5. CASE phase[q] \notin InAct \ {"act.workflow"}
    BY <1>2, <2>1, <2>3, <2>5 DEF JobInv, InAct, InTransition
  <2>. QED
    BY <2>4, <2>5
<1>6. LocksExclude'
  <2>1. \A q \in Request, v \in Workflow : HoldsWorkflow(q, v)' <=> HoldsWorkflow(q, v)
    BY <1>2 DEF HoldsWorkflow
  <2>2. \A q \in Request, c \in Container : HoldsContainer(q, c)' <=> HoldsContainer(q, c)
    BY <1>2, <1>4 DEF HoldsContainer, InAct
  <2>. QED
    BY <2>1, <2>2 DEF IndInv, LocksExclude
<1>7. NotStartedEmpty'
  BY <1>1, <1>2 DEF IndInv, NotStartedEmpty, TypeOK
<1>8. StatusFollowsVotes'
  <2>1. ASSUME NEW v \in Workflow, v # w
        PROVE  status'[v] = status[v] /\ approver'[v] = approver[v]
    BY <1>1, <1>2, <2>1 DEF TypeOK
  <2>2. status'[w] = "in_progress" /\ approver'[w] = l
    BY <1>1, <1>2 DEF TypeOK
  <2>3. \A i \in DOMAIN l : result[w][i] = None
    BY <1>1, StagesOfList
  <2>4. ~AnyRejected(DOMAIN l, result[w])
    BY <2>3, NoneAssumption DEF AnyRejected, ApprovalResult
  <2>5. ~(DOMAIN l # {} /\ AllDone(DOMAIN l, result[w]))
    BY <2>3 DEF AllDone
  <2>. QED
    BY <1>2, <2>1, <2>2, <2>4, <2>5 DEF IndInv, StatusFollowsVotes
<1>. QED
  BY <1>3, <1>5, <1>6, <1>7, <1>8 DEF IndInv

-----------------------------------------------------------------------------
(* The theorems.                                                           *)

\* Every step keeps the invariant.
LEMMA NextInd == IndInv /\ [Next]_vars => IndInv'
<1>. SUFFICES ASSUME IndInv, [Next]_vars PROVE IndInv'
  OBVIOUS
<1>1. CASE UNCHANGED vars
  <2>1. UNCHANGED <<current_state, title, history, status, target, approver, result, phase, job>>
    BY <1>1 DEF vars, tables
  <2>2. \A r \in Request : JobInv(r)'
    BY <2>1, JobFrame DEF IndInv, reliedOn
  <2>3. TypeOK' /\ NotStartedEmpty' /\ StatusFollowsVotes'
    BY <2>1 DEF IndInv, TypeOK, NotStartedEmpty, StatusFollowsVotes
  <2>4. LocksExclude'
    BY <2>1 DEF IndInv, LocksExclude, HoldsWorkflow, HoldsContainer
  <2>. QED
    BY <2>2, <2>3, <2>4 DEF IndInv
<1>2. ASSUME NEW r \in Request, Begin(r) PROVE IndInv'
  BY <1>2, TransitionBeginInd, UpdateReadInd, ActBeginInd DEF Begin
<1>3. ASSUME NEW r \in Request, Proceed(r) PROVE IndInv'
  BY <1>3, TransitionLockInd, TransitionCommitInd, UpdateWriteInd, ActLockWorkflowInd,
     ActLockApprovalInd, ActAggregateInd, ActLockContainerInd, ActCommitInd DEF Proceed
<1>4. ASSUME NEW r \in Request, Rollback(r) PROVE IndInv'
  BY <1>4, RefuseInd DEF Rollback
<1>5. ASSUME NEW u \in User, NEW w \in Workflow, NEW x \in Container \cup {None},
             NEW l \in AssigneeList, StartWorkflow(u, w, x, l)
      PROVE IndInv'
  BY <1>5, StartWorkflowInd
<1>. QED
  BY <1>1, <1>2, <1>3, <1>4, <1>5 DEF Next

\* Between two awaits the rows a request has locked stay what it read, and no
\* two requests hold the same row (the FOR UPDATE selects of act_on_approval
\* and transition_state).
THEOREM LockedRowsAreStable == Spec => []IndInv
<1>. QED
  BY InitInd, NextInd, PTL DEF Spec

\* Every table and every request keeps its type.
THEOREM TypeCorrect == Spec => []TypeOK
<1>1. IndInv => TypeOK
  BY DEF IndInv
<1>. QED
  BY <1>1, LockedRowsAreStable, PTL

\* However its approvers interleave, the status of a workflow is what its
\* approvals say (the aggregate of act_on_approval).
THEOREM StatusIsAggregate == Spec => []StatusFollowsVotes
<1>1. IndInv => StatusFollowsVotes
  BY DEF IndInv
<1>. QED
  BY <1>1, LockedRowsAreStable, PTL

-----------------------------------------------------------------------------
(* What each step does to the containers.                                  *)

MoveStep(c, t, w) ==
  /\ current_state[c] = t.from
  /\ w \in Workflow => t.action = "return"
  /\ current_state' = [current_state EXCEPT ![c] = t.to]
  /\ history' = [history EXCEPT ![c] = Append(@, HistoryRow(t, w))]

\* Every step leaves the containers alone or makes one move of the transition
\* table on one of them, recorded by one history row.
LEMMA StepIsMove ==
  ASSUME IndInv, [Next]_vars
  PROVE  \/ UNCHANGED <<current_state, history>>
         \/ \E c \in Container, t \in VALID_TRANSITIONS, w \in Workflow \cup {None} : MoveStep(c, t, w)
<1>1. CASE UNCHANGED vars
  BY <1>1 DEF vars, tables
<1>2. ASSUME NEW r \in Request, TransitionCommit(r)
      PROVE  \E c \in Container, t \in VALID_TRANSITIONS, w \in Workflow \cup {None} : MoveStep(c, t, w)
  BY <1>2, TransitionWrites, NoneAssumption DEF MoveStep
<1>3. ASSUME NEW r \in Request, ActCommit(r), job[r].seen = "Shared"
      PROVE  \E c \in Container, t \in VALID_TRANSITIONS, w \in Workflow \cup {None} : MoveStep(c, t, w)
  <2>. DEFINE w == job[r].wf
              c == target[job[r].wf]
  <2>1. job[r].seen # None
    BY <1>3, NoneAssumption DEF ContainerState
  <2>2. /\ w \in Workflow /\ c \in Container /\ current_state[c] = "Shared"
        /\ current_state' = [current_state EXCEPT ![c] = "WIP"]
        /\ history' = [history EXCEPT ![c] = Append(@, HistoryRow(ReturnToWip, w))]
    BY <1>3, <2>1, ActWrites
  <2>3. ReturnToWip \in VALID_TRANSITIONS /\ ReturnToWip.from = "Shared"
        /\ ReturnToWip.to = "WIP" /\ ReturnToWip.action = "return"
    BY DEF ReturnToWip, VALID_TRANSITIONS
  <2>. QED
    BY <2>2, <2>3 DEF MoveStep
<1>4. ASSUME NEW r \in Request, ActCommit(r), job[r].seen # "Shared"
      PROVE  UNCHANGED <<current_state, history>>
  BY <1>4, ActWrites
<1>5. ASSUME NEW r \in Request,
             Begin(r) \/ TransitionLock(r) \/ UpdateWrite(r) \/ ActLockWorkflow(r)
             \/ ActLockApproval(r) \/ ActAggregate(r) \/ ActLockContainer(r) \/ Rollback(r)
      PROVE  UNCHANGED <<current_state, history>>
  <2>1. CASE Begin(r)
    BY <2>1 DEF Begin, TransitionBegin, UpdateRead, ActBegin, Arrive, tables
  <2>2. CASE UpdateWrite(r)
    BY <2>2 DEF UpdateWrite
  <2>3. CASE TransitionLock(r)
    BY <2>3 DEF TransitionLock, Goto, Refuse, tables
  <2>4. CASE ActLockWorkflow(r) \/ ActLockApproval(r)
    BY <2>4 DEF ActLockWorkflow, ActLockApproval, Goto, Refuse, tables
  <2>5. CASE ActAggregate(r) \/ ActLockContainer(r)
    BY <2>5 DEF ActAggregate, ActLockContainer, Goto, tables
  <2>6. CASE Rollback(r)
    BY <2>6 DEF Rollback, Refuse, tables
  <2>. QED
    BY <1>5, <2>1, <2>2, <2>3, <2>4, <2>5, <2>6
<1>6. ASSUME NEW u \in User, NEW w \in Workflow, NEW x \in Container \cup {None},
             NEW l \in AssigneeList, StartWorkflow(u, w, x, l)
      PROVE  UNCHANGED <<current_state, history>>
  BY <1>6 DEF StartWorkflow
<1>. QED
  BY <1>1, <1>2, <1>3, <1>4, <1>5, <1>6 DEF Next, Proceed

\* No container has a history yet.
LEMMA InitChain == Init => HistoryChain
BY DEF Init, HistoryChain

\* Every step writes the state together with the row that explains it.
LEMMA StepChain ==
  ASSUME IndInv, HistoryChain, [Next]_vars
  PROVE  HistoryChain'
<1>1. TypeOK
  BY DEF IndInv
<1>2. CASE UNCHANGED <<current_state, history>>
  BY <1>2 DEF HistoryChain
<1>3. ASSUME NEW c \in Container, NEW t \in VALID_TRANSITIONS, NEW w \in Workflow \cup {None},
             MoveStep(c, t, w), NEW d \in Container
      PROVE  LET h == history'[d]
             IN IF h = << >> THEN current_state'[d] = "WIP"
                ELSE /\ h[1].from = "WIP"
                     /\ \A k \in 1..Len(h) - 1 : h[k].to = h[k + 1].from
                     /\ h[Len(h)].to = current_state'[d]
  <2>1. CASE d # c
    <3>1. history'[d] = history[d] /\ current_state'[d] = current_state[d]
      BY <1>1, <1>3, <2>1 DEF TypeOK, MoveStep
    <3>. QED
      BY <3>1 DEF HistoryChain
  <2>2. CASE d = c
    <3>. DEFINE g == history[c]
                row == HistoryRow(t, w)
                h == Append(g, row)
    <3>1. history'[d] = h /\ current_state'[d] = t.to
      BY <1>1, <1>3, <2>2 DEF TypeOK, MoveStep
    <3>2. g \in Seq(Row) /\ row \in Row /\ row.from = t.from /\ row.to = t.to
      BY <1>1, TransitionTypes DEF TypeOK, HistoryRow
    <3>3. /\ Len(h) = Len(g) + 1 /\ Len(g) \in Nat /\ h # << >>
          /\ h[Len(g) + 1] = row
          /\ \A k \in 1..Len(g) : h[k] = g[k]
      BY <3>2
    <3>4. CASE g = << >>
      <4>1. t.from = "WIP" /\ Len(g) = 0
        BY <1>3, <3>4 DEF HistoryChain, MoveStep
      <4>. QED
        BY <3>1, <3>2, <3>3, <4>1
    <3>5. CASE g # << >>
      <4>1. Len(g) \in Nat \ {0}
        BY <3>2, <3>5
      <4>2. /\ g[1].from = "WIP" /\ g[Len(g)].to = t.from
            /\ \A k \in 1..Len(g) - 1 : g[k].to = g[k + 1].from
        BY <1>3, <3>5 DEF HistoryChain, MoveStep
      <4>3. ASSUME NEW k \in 1..Len(g) PROVE h[k].to = h[k + 1].from
        BY <3>2, <3>3, <4>1, <4>2
      <4>. QED
        BY <3>1, <3>2, <3>3, <4>1, <4>2, <4>3
    <3>. QED
      BY <3>4, <3>5
  <2>. QED
    BY <2>1, <2>2
<1>4. ASSUME NEW c \in Container, NEW t \in VALID_TRANSITIONS, NEW w \in Workflow \cup {None},
             MoveStep(c, t, w)
      PROVE  HistoryChain'
  BY <1>3, <1>4 DEF HistoryChain
<1>. QED
  BY <1>2, <1>4, StepIsMove

\* The history of every container is an unbroken chain from WIP to its state:
\* no two requests ever start from the same state (the row lock of
\* transition_state and of the rejection path of act_on_approval).
THEOREM HistoryIsChain == Spec => []HistoryChain
<1>1. IndInv /\ HistoryChain /\ [Next]_vars => HistoryChain'
  BY StepChain
<1>. QED
  BY <1>1, InitChain, LockedRowsAreStable, PTL DEF Spec

\* Requests, locks and transactions implement the abstract container
\* lifecycle: one move of the table at a time, reviews can only return.
THEOREM LifecycleImplemented == Spec => ImplementsLifecycle
<1>1. Init => Lifecycle!Init
  BY DEF Init, Lifecycle!Init
<1>2. IndInv /\ [Next]_vars => [Lifecycle!Next]_(Lifecycle!vars)
  <2>. SUFFICES ASSUME IndInv, [Next]_vars
                PROVE  Lifecycle!Next \/ UNCHANGED Lifecycle!vars
    OBVIOUS
  <2>1. Lifecycle!VALID_TRANSITIONS = VALID_TRANSITIONS
    BY DEF VALID_TRANSITIONS, Lifecycle!VALID_TRANSITIONS
  <2>2. \A t, w : Lifecycle!MoveBy(t, w) = HistoryRow(t, w)
    BY DEF Lifecycle!MoveBy, HistoryRow
  <2>. QED
    BY StepIsMove, <2>1, <2>2 DEF MoveStep, Lifecycle!Next, Lifecycle!Move, Lifecycle!vars
<1>. QED
  BY <1>1, <1>2, LockedRowsAreStable, PTL DEF Spec, ImplementsLifecycle, Lifecycle!Spec

-----------------------------------------------------------------------------
(* What each step does to the reviews.                                     *)

OpenStep(w, l) ==
  /\ status[w] = "none"
  /\ approver' = [approver EXCEPT ![w] = l]
  /\ status' = [status EXCEPT ![w] = "in_progress"]
  /\ UNCHANGED result

VoteStep(w, i, v) ==
  /\ status[w] # "none"
  /\ i \in DOMAIN approver[w]
  /\ result[w][i] = None
  /\ result' = [result EXCEPT ![w][i] = v]
  /\ status' = [status EXCEPT ![w] =
                  IF AnyRejected(DOMAIN approver[w], result'[w]) THEN "rejected"
                  ELSE IF AllDone(DOMAIN approver[w], result'[w]) THEN "completed"
                  ELSE "in_progress"]
  /\ UNCHANGED approver

\* Every step leaves the reviews alone, opens one, or records one vote on a
\* stage that had none and decides the status from all the votes.
LEMMA StepIsVote ==
  ASSUME IndInv, [Next]_vars
  PROVE  \/ UNCHANGED <<approver, result, status>>
         \/ \E w \in Workflow, l \in AssigneeList : OpenStep(w, l)
         \/ \E w \in Workflow, i \in Stage, v \in ApprovalResult : VoteStep(w, i, v)
<1>1. CASE UNCHANGED vars
  BY <1>1 DEF vars, tables
<1>2. ASSUME NEW r \in Request, ActCommit(r)
      PROVE  \E w \in Workflow, i \in Stage, v \in ApprovalResult : VoteStep(w, i, v)
  <2>. VoteStep(job[r].wf, job[r].stage, job[r].input)
    BY <1>2, ActWrites DEF VoteStep
  <2>. QED
    BY <1>2, ActWrites
<1>3. ASSUME NEW u \in User, NEW w \in Workflow, NEW x \in Container \cup {None},
             NEW l \in AssigneeList, StartWorkflow(u, w, x, l)
      PROVE  OpenStep(w, l)
  BY <1>3 DEF StartWorkflow, OpenStep
<1>4. ASSUME NEW r \in Request,
             Begin(r) \/ TransitionLock(r) \/ TransitionCommit(r) \/ UpdateWrite(r)
             \/ ActLockWorkflow(r) \/ ActLockApproval(r) \/ ActAggregate(r)
             \/ ActLockContainer(r) \/ Rollback(r)
      PROVE  UNCHANGED <<approver, result, status>>
  <2>1. CASE Begin(r)
    BY <2>1 DEF Begin, TransitionBegin, UpdateRead, ActBegin, Arrive, tables
  <2>2. CASE UpdateWrite(r) \/ TransitionCommit(r)
    BY <2>2 DEF UpdateWrite, TransitionCommit
  <2>3. CASE TransitionLock(r)
    BY <2>3 DEF TransitionLock, Goto, Refuse, tables
  <2>4. CASE ActLockWorkflow(r) \/ ActLockApproval(r)
    BY <2>4 DEF ActLockWorkflow, ActLockApproval, Goto, Refuse, tables
  <2>5. CASE ActAggregate(r) \/ ActLockContainer(r)
    BY <2>5 DEF ActAggregate, ActLockContainer, Goto, tables
  <2>6. CASE Rollback(r)
    BY <2>6 DEF Rollback, Refuse, tables
  <2>. QED
    BY <1>4, <2>1, <2>2, <2>3, <2>4, <2>5, <2>6
<1>. QED
  BY <1>1, <1>2, <1>3, <1>4 DEF Next, Proceed

\* Concurrent approvers implement the abstract review: each stage is voted on
\* once, no vote is lost, and the status is the outcome of all the votes.
THEOREM ReviewImplemented == Spec => ImplementsReview
<1>1. Init => Review!Init
  BY DEF Init, Review!Init, Stage, Review!Stage
<1>2. IndInv /\ [Next]_vars => [Review!Next]_(Review!vars)
  <2>. SUFFICES ASSUME IndInv, [Next]_vars
                PROVE  Review!Next \/ UNCHANGED Review!vars
    OBVIOUS
  <2>1. Review!Stage = Stage /\ Review!AssigneeList = AssigneeList
        /\ Review!ApprovalResult = ApprovalResult
    BY DEF Stage, Review!Stage, AssigneeList, Review!AssigneeList,
           ApprovalResult, Review!ApprovalResult
  <2>2. CASE UNCHANGED <<approver, result, status>>
    BY <2>2 DEF Review!vars
  <2>3. ASSUME NEW w \in Workflow, NEW l \in AssigneeList, OpenStep(w, l)
        PROVE  Review!Next
    BY <2>1, <2>3 DEF OpenStep, Review!Next, Review!Open
  <2>4. ASSUME NEW w \in Workflow, NEW i \in Stage, NEW v \in ApprovalResult, VoteStep(w, i, v)
        PROVE  Review!Next
    <3>1. Review!Vote(w, i, v)
      BY <2>4 DEF VoteStep, Review!Vote, Review!Outcome, Review!AnyRejected, Review!AllDone,
                  AnyRejected, AllDone
    <3>. QED
      BY <2>1, <3>1 DEF Review!Next
  <2>. QED
    BY <2>2, <2>3, <2>4, StepIsVote
<1>. QED
  BY <1>1, <1>2, LockedRowsAreStable, PTL DEF Spec, ImplementsReview, Review!Spec

-----------------------------------------------------------------------------
(* What the returns of a review are owed to.                               *)

\* Votes can be counted: there are finitely many stages.
LEMMA StagesFinite == IsFiniteSet(Stage)
<1>1. 1 \in Int /\ MaxStages \in Int
  BY BoundsAssumption
<1>. QED
  BY <1>1, FS_Interval DEF Stage

ReturnInv ==
  /\ ReturnsAreJustified
  /\ \A w \in Workflow : IsFiniteSet(ReturnsBy(w))

\* The places of the history that a review has written.
LEMMA ReturnPlaces ==
  ASSUME NEW w, NEW p
  PROVE  p \in ReturnsBy(w) <=>
           \E c \in Container : \E k \in DOMAIN history[c] :
             p = <<c, k>> /\ history[c][k].workflow = w
BY DEF ReturnsBy

\* A row that is appended for x is a place of x's and of no other review's.
LEMMA AppendedReturns ==
  ASSUME TypeOK, NEW c \in Container, NEW t, NEW x,
         history' = [history EXCEPT ![c] = Append(@, HistoryRow(t, x))],
         NEW w
  PROVE  ReturnsBy(w)' = ReturnsBy(w) \cup
                         (IF w = x THEN {<<c, Len(history[c]) + 1>>} ELSE {})
<1>1. history[c] \in Seq(Row) /\ history'[c] = Append(history[c], HistoryRow(t, x))
  BY DEF TypeOK
<1>2. \A d \in Container \ {c} : history'[d] = history[d]
  BY DEF TypeOK
<1>3. DOMAIN history'[c] = DOMAIN history[c] \cup {Len(history[c]) + 1}
  <2>. SUFFICES ASSUME NEW h \in Seq(Row), NEW e
                PROVE  DOMAIN Append(h, e) = DOMAIN h \cup {Len(h) + 1}
    BY <1>1
  <2>. QED
    OBVIOUS
<1>4. /\ \A k \in DOMAIN history[c] : history'[c][k] = history[c][k]
      /\ history'[c][Len(history[c]) + 1].workflow = x
  BY <1>1 DEF HistoryRow
<1>5. ASSUME NEW p
      PROVE  p \in ReturnsBy(w)' <=>
               p \in ReturnsBy(w) \/ (w = x /\ p = <<c, Len(history[c]) + 1>>)
  <2>1. p \in ReturnsBy(w)' <=>
          \E d \in Container : \E k \in DOMAIN history'[d] :
            p = <<d, k>> /\ history'[d][k].workflow = w
    BY DEF ReturnsBy
  <2>2. p \in ReturnsBy(w) <=>
          \E d \in Container : \E k \in DOMAIN history[d] :
            p = <<d, k>> /\ history[d][k].workflow = w
    BY ReturnPlaces
  <2>3. ASSUME p \in ReturnsBy(w)'
        PROVE  p \in ReturnsBy(w) \/ (w = x /\ p = <<c, Len(history[c]) + 1>>)
    <3>1. PICK d \in Container : \E k \in DOMAIN history'[d] :
            p = <<d, k>> /\ history'[d][k].workflow = w
      BY <2>1, <2>3
    <3>2. PICK k \in DOMAIN history'[d] : p = <<d, k>> /\ history'[d][k].workflow = w
      BY <3>1
    <3>3. CASE d = c
      BY <1>3, <1>4, <2>2, <3>2, <3>3
    <3>4. CASE d # c
      BY <1>2, <2>2, <3>2, <3>4
    <3>. QED
      BY <3>3, <3>4
  <2>4. ASSUME p \in ReturnsBy(w) PROVE p \in ReturnsBy(w)'
    BY <1>2, <1>3, <1>4, <2>1, <2>2, <2>4
  <2>5. ASSUME w = x, p = <<c, Len(history[c]) + 1>> PROVE p \in ReturnsBy(w)'
    BY <1>3, <1>4, <2>1, <2>5
  <2>. QED
    BY <2>3, <2>4, <2>5
<1>. QED
  BY <1>5

\* Steps that return nothing leave the returns justified as long as votes only
\* come in and no review changes its target or its assignees.
LEMMA VotesJustify ==
  ASSUME IndInv, ReturnInv,
         \A w \in Workflow : ReturnsBy(w)' = ReturnsBy(w),
         UNCHANGED <<target, approver>>,
         \A w \in Workflow, i \in Stage : result[w][i] # None => result'[w][i] = result[w][i]
  PROVE  ReturnInv'
<1>1. ASSUME NEW w \in Workflow
      PROVE  /\ ReturnsBy(w)' # {} => AnyRejected(DOMAIN approver[w], result[w])'
             /\ \A p \in ReturnsBy(w)' : p[1] = target'[w]
             /\ Cardinality(ReturnsBy(w)') <= Cardinality(Voted(w)')
             /\ IsFiniteSet(ReturnsBy(w)')
  <2>1. approver[w] \in AssigneeList /\ DOMAIN approver[w] \subseteq Stage
    BY StagesOfList DEF IndInv, TypeOK
  <2>2. Voted(w) \subseteq Voted(w)' /\ Voted(w)' \subseteq Stage
    BY <2>1 DEF Voted
  <2>3. IsFiniteSet(Voted(w)')
    BY <2>2, StagesFinite, FS_Subset
  <2>5. IsFiniteSet(Voted(w)) /\ Cardinality(Voted(w)) <= Cardinality(Voted(w)')
    BY <2>2, <2>3, FS_Subset
  <2>6. /\ Cardinality(Voted(w)) \in Nat /\ Cardinality(Voted(w)') \in Nat
        /\ IsFiniteSet(ReturnsBy(w)) /\ Cardinality(ReturnsBy(w)) \in Nat
    BY <2>3, <2>5, FS_CardinalityType DEF ReturnInv
  <2>7. Cardinality(ReturnsBy(w)) <= Cardinality(Voted(w))
    BY DEF ReturnInv, ReturnsAreJustified
  <2>8. ReturnsBy(w) # {} => AnyRejected(DOMAIN approver[w], result'[w])
    BY <2>1, NoneAssumption DEF ReturnInv, ReturnsAreJustified, AnyRejected, ApprovalResult
  <2>. QED
    BY <2>5, <2>6, <2>7, <2>8 DEF ReturnInv, ReturnsAreJustified, AnyRejected
<1>. QED
  BY <1>1 DEF ReturnInv, ReturnsAreJustified

\* A new workflow has no votes, and nothing was returned for it.
LEMMA StartJustifies ==
  ASSUME IndInv, ReturnInv, NEW u \in User, NEW v \in Workflow, NEW x \in Container \cup {None},
         NEW l \in AssigneeList, StartWorkflow(u, v, x, l)
  PROVE  ReturnInv'
<1>1. /\ UNCHANGED <<history, result>> /\ status[v] = "none"
      /\ target' = [target EXCEPT ![v] = x] /\ approver' = [approver EXCEPT ![v] = l]
  BY DEF StartWorkflow
<1>2. \A w : ReturnsBy(w)' = ReturnsBy(w)
  BY <1>1 DEF ReturnsBy
<1>3. ReturnsBy(v) = {}
  <2>1. approver[v] = << >>
    BY <1>1 DEF IndInv, NotStartedEmpty
  <2>2. ~AnyRejected(DOMAIN approver[v], result[v])
    BY <2>1 DEF AnyRejected
  <2>. QED
    BY <2>2 DEF ReturnInv, ReturnsAreJustified
<1>4. IsFiniteSet(Voted(v)')
  <2>1. DOMAIN approver'[v] \subseteq Stage
    BY <1>1, StagesOfList DEF IndInv, TypeOK
  <2>2. Voted(v)' \subseteq Stage
    BY <2>1 DEF Voted
  <2>. QED
    BY <2>2, StagesFinite, FS_Subset
<1>5. Cardinality({}) = 0 /\ Cardinality(Voted(v)') \in Nat
  BY <1>4, FS_EmptySet, FS_CardinalityType
<1>6. ASSUME NEW w \in Workflow, w # v
      PROVE  /\ target'[w] = target[w] /\ approver'[w] = approver[w]
             /\ Voted(w)' = Voted(w)
  BY <1>1, <1>6 DEF IndInv, TypeOK, Voted
<1>7. ASSUME NEW w \in Workflow
      PROVE  /\ ReturnsBy(w)' # {} => AnyRejected(DOMAIN approver[w], result[w])'
             /\ \A p \in ReturnsBy(w)' : p[1] = target'[w]
             /\ Cardinality(ReturnsBy(w)') <= Cardinality(Voted(w)')
             /\ IsFiniteSet(ReturnsBy(w)')
  <2>1. CASE w = v
    BY <1>2, <1>3, <1>5, <2>1, FS_EmptySet
  <2>2. CASE w # v
    BY <1>1, <1>2, <1>6, <2>2 DEF ReturnInv, ReturnsAreJustified, AnyRejected
  <2>. QED
    BY <2>1, <2>2
<1>. QED
  BY <1>7 DEF ReturnInv, ReturnsAreJustified

\* An act that returns the container adds one place to the history and one vote,
\* a rejection, to the review.
LEMMA ReturnJustifies ==
  ASSUME IndInv, ReturnInv, NEW r \in Request, ActCommit(r), job[r].seen = "Shared"
  PROVE  ReturnInv'
<1>1. job[r].seen # None
  BY NoneAssumption DEF ContainerState
<1>2. PICK v \in Workflow, c \in Container, i \in Stage, x \in ApprovalResult :
        /\ v = job[r].wf /\ c = target[v] /\ i = job[r].stage /\ x = job[r].input
        /\ i \in DOMAIN approver[v] /\ result[v][i] = None
  <2>1. /\ job[r].wf \in Workflow /\ target[job[r].wf] \in Container
        /\ job[r].stage \in Stage /\ job[r].input \in ApprovalResult
        /\ job[r].stage \in DOMAIN approver[job[r].wf]
        /\ result[job[r].wf][job[r].stage] = None
    BY <1>1, ActWrites
  <2>. QED
    BY <2>1
<1>3. /\ result' = [result EXCEPT ![v][i] = x]
      /\ UNCHANGED <<target, approver>>
      /\ history' = [history EXCEPT ![c] = Append(@, HistoryRow(ReturnToWip, v))]
      /\ DOMAIN approver[v] \subseteq Stage
      /\ AnyRejected(DOMAIN approver[v], result'[v])
  BY <1>1, <1>2, ActWrites
<1>4. TypeOK
  BY DEF IndInv
<1>. DEFINE place == <<c, Len(history[c]) + 1>>
<1>5. /\ ReturnsBy(v)' = ReturnsBy(v) \cup {place}
      /\ \A w \in Workflow \ {v} : ReturnsBy(w)' = ReturnsBy(w)
  <2>1. ASSUME NEW w
        PROVE  ReturnsBy(w)' = ReturnsBy(w) \cup (IF w = v THEN {place} ELSE {})
    BY <1>3, <1>4, AppendedReturns
  <2>. QED
    BY <2>1
<1>. HIDE DEF place
<1>6. Voted(v)' = Voted(v) \cup {i} /\ i \notin Voted(v)
  <2>1. \A n \in Stage : result'[v][n] = IF n = i THEN x ELSE result[v][n]
    BY <1>3, <1>4 DEF TypeOK
  <2>2. x # None
    BY NoneAssumption
  <2>. QED
    BY <1>2, <1>3, <2>1, <2>2 DEF Voted
<1>7. IsFiniteSet(Voted(v))
  <2>1. Voted(v) \subseteq Stage
    BY <1>3 DEF Voted
  <2>. QED
    BY <2>1, StagesFinite, FS_Subset
<1>8. IsFiniteSet(ReturnsBy(v)') /\ Cardinality(ReturnsBy(v)') <= Cardinality(Voted(v)')
  <2>1. IsFiniteSet(ReturnsBy(v)) /\ Cardinality(ReturnsBy(v)) <= Cardinality(Voted(v))
    BY DEF ReturnInv, ReturnsAreJustified
  <2>2. Cardinality(ReturnsBy(v)) \in Nat /\ Cardinality(Voted(v)) \in Nat
    BY <1>7, <2>1, FS_CardinalityType
  <2>3. /\ IsFiniteSet(ReturnsBy(v) \cup {place})
        /\ Cardinality(ReturnsBy(v) \cup {place}) =
             IF place \in ReturnsBy(v) THEN Cardinality(ReturnsBy(v))
             ELSE Cardinality(ReturnsBy(v)) + 1
    BY <2>1, FS_AddElement
  <2>4. Cardinality(Voted(v) \cup {i}) = Cardinality(Voted(v)) + 1
    BY <1>6, <1>7, FS_AddElement
  <2>5. Cardinality(ReturnsBy(v) \cup {place}) <= Cardinality(Voted(v) \cup {i})
    BY <2>1, <2>2, <2>3, <2>4
  <2>. QED
    BY <1>5, <1>6, <2>3, <2>5
<1>9. ASSUME NEW w \in Workflow, w # v PROVE Voted(w)' = Voted(w) /\ result'[w] = result[w]
  BY <1>3, <1>4, <1>9 DEF Voted, TypeOK
<1>10. ASSUME NEW w \in Workflow
       PROVE  /\ ReturnsBy(w)' # {} => AnyRejected(DOMAIN approver[w], result[w])'
              /\ \A p \in ReturnsBy(w)' : p[1] = target'[w]
              /\ Cardinality(ReturnsBy(w)') <= Cardinality(Voted(w)')
              /\ IsFiniteSet(ReturnsBy(w)')
  <2>1. CASE w = v
    <3>1. AnyRejected(DOMAIN approver[w], result[w])'
      BY <1>3, <2>1 DEF AnyRejected
    <3>2. \A p \in ReturnsBy(w)' : p[1] = target'[w]
      BY <1>2, <1>3, <1>5, <2>1 DEF ReturnInv, ReturnsAreJustified, place
    <3>. QED
      BY <1>8, <2>1, <3>1, <3>2
  <2>2. CASE w # v
    BY <1>3, <1>5, <1>9, <2>2 DEF ReturnInv, ReturnsAreJustified, AnyRejected
  <2>. QED
    BY <2>1, <2>2
<1>. QED
  BY <1>10 DEF ReturnInv, ReturnsAreJustified

\* Nothing was returned and nobody has voted.
LEMMA InitReturns == Init => ReturnInv
<1>. SUFFICES ASSUME Init PROVE ReturnInv
  OBVIOUS
<1>1. \A w \in Workflow : ReturnsBy(w) = {} /\ Voted(w) = {}
  BY DEF Init, ReturnsBy, Voted
<1>. QED
  BY <1>1, FS_EmptySet DEF ReturnInv, ReturnsAreJustified

\* A row of a return is written with the vote that justifies it.
LEMMA StepReturns == IndInv /\ ReturnInv /\ [Next]_vars => ReturnInv'
<1>. SUFFICES ASSUME IndInv, ReturnInv, [Next]_vars PROVE ReturnInv'
  OBVIOUS
<1>1. ASSUME NEW r \in Request, TransitionCommit(r) PROVE ReturnInv'
  <2>1. PICK c \in Container, t \in VALID_TRANSITIONS :
          history' = [history EXCEPT ![c] = Append(@, HistoryRow(t, None))]
    BY <1>1, TransitionWrites
  <2>2. UNCHANGED <<target, approver, result>>
    BY <1>1, TransitionWrites
  <2>3. ASSUME NEW w \in Workflow PROVE ReturnsBy(w)' = ReturnsBy(w)
    <3>1. w # None /\ TypeOK
      BY NoneAssumption DEF IndInv
    <3>2. ReturnsBy(w)' = ReturnsBy(w) \cup
                          (IF w = None THEN {<<c, Len(history[c]) + 1>>} ELSE {})
      BY <2>1, <3>1, AppendedReturns
    <3>. QED
      BY <3>1, <3>2
  <2>. QED
    BY <2>2, <2>3, VotesJustify
<1>2. ASSUME NEW r \in Request, ActCommit(r) PROVE ReturnInv'
  <2>1. CASE job[r].seen = "Shared"
    BY <1>2, <2>1, ReturnJustifies
  <2>2. CASE job[r].seen # "Shared"
    <3>1. /\ UNCHANGED <<history, target, approver>>
          /\ job[r].wf \in Workflow /\ result[job[r].wf][job[r].stage] = None
          /\ result' = [result EXCEPT ![job[r].wf][job[r].stage] = job[r].input]
      BY <1>2, <2>2, ActWrites
    <3>2. \A w : ReturnsBy(w)' = ReturnsBy(w)
      BY <3>1 DEF ReturnsBy
    <3>3. \A w \in Workflow, i \in Stage : result[w][i] # None => result'[w][i] = result[w][i]
      BY <3>1 DEF IndInv, TypeOK
    <3>. QED
      BY <3>1, <3>2, <3>3, VotesJustify
  <2>. QED
    BY <2>1, <2>2
<1>3. CASE UNCHANGED <<history, target, approver, result>>
  <2>1. \A w : ReturnsBy(w)' = ReturnsBy(w)
    BY <1>3 DEF ReturnsBy
  <2>. QED
    BY <1>3, <2>1, VotesJustify
<1>4. ASSUME NEW r \in Request,
             Begin(r) \/ TransitionLock(r) \/ UpdateWrite(r) \/ ActLockWorkflow(r)
             \/ ActLockApproval(r) \/ ActAggregate(r) \/ ActLockContainer(r) \/ Rollback(r)
      PROVE  UNCHANGED <<history, target, approver, result>>
  <2>1. CASE Begin(r)
    BY <2>1 DEF Begin, TransitionBegin, UpdateRead, ActBegin, Arrive, tables
  <2>2. CASE UpdateWrite(r)
    BY <2>2 DEF UpdateWrite
  <2>3. CASE TransitionLock(r)
    BY <2>3 DEF TransitionLock, Goto, Refuse, tables
  <2>4. CASE ActLockWorkflow(r) \/ ActLockApproval(r)
    BY <2>4 DEF ActLockWorkflow, ActLockApproval, Goto, Refuse, tables
  <2>5. CASE ActAggregate(r) \/ ActLockContainer(r)
    BY <2>5 DEF ActAggregate, ActLockContainer, Goto, tables
  <2>6. CASE Rollback(r)
    BY <2>6 DEF Rollback, Refuse, tables
  <2>. QED
    BY <1>4, <2>1, <2>2, <2>3, <2>4, <2>5, <2>6
<1>5. CASE UNCHANGED vars
  BY <1>3, <1>5 DEF vars, tables
<1>. QED
  BY <1>1, <1>2, <1>3, <1>4, <1>5, StartJustifies DEF Next, Proceed

\* A review returns only its own target, only after a rejection, and never more
\* often than votes are cast in it: each return comes from one act.
THEOREM ReturnsComeFromVotes == Spec => []ReturnsAreJustified
<1>1. ReturnInv => ReturnsAreJustified
  BY DEF ReturnInv
<1>. QED
  BY <1>1, InitReturns, StepReturns, LockedRowsAreStable, PTL DEF Spec

-----------------------------------------------------------------------------
(* Deadlock freedom.                                                       *)

\* Whoever holds a container waits for nothing; whoever holds an approval
\* waits at most for a container; nobody waits for an approval at all, because
\* it is only taken under the lock of its workflow.
LEMMA LockRanks ==
  ASSUME IndInv, NEW r \in Request, NEW q \in BlockedBy(r)
  PROVE  /\ q \in Request /\ q # r
         /\ phase[r] \in {"transition.lock", "update.write", "act.container"} =>
              BlockedBy(q) = {}
         /\ phase[r] # "act.approval"
         /\ phase[r] = "act.workflow" => phase[q] # "act.workflow" 
         /\ phase[r] \in {"transition.lock", "update.write", "act.container", "act.workflow"}
<1>1. TypeOK /\ JobInv(r) /\ LocksExclude
  <2>1. r \in Request
    OBVIOUS
  <2>. QED
    BY <2>1 DEF IndInv
<1>2. phase[r] \in Phase
  BY <1>1 DEF TypeOK
<1>3. phase[r] \in {"transition.lock", "update.write", "act.container", "act.workflow",
                    "act.approval"}
      /\ q \in Request /\ q # r
  BY DEF BlockedBy
<1>4. phase[r] \in {"transition.lock", "update.write", "act.container"} =>
        phase[q] \in {"transition.commit", "act.commit"}
  BY DEF BlockedBy, HoldsContainer
<1>5. phase[r] # "act.approval"
  <2>. SUFFICES ASSUME phase[r] = "act.approval" PROVE FALSE
    OBVIOUS
  <2>1. HoldsApproval(q, job[r].wf, job[r].stage)
    BY DEF BlockedBy
  <2>2. HoldsWorkflow(q, job[r].wf) /\ HoldsWorkflow(r, job[r].wf)
    BY <2>1 DEF HoldsApproval, HoldsWorkflow
  <2>3. job[r].wf \in Workflow
    BY <1>1 DEF JobInv, InAct
  <2>. QED
    BY <1>1, <1>3, <2>2, <2>3 DEF LocksExclude
<1>6. phase[r] = "act.workflow" => phase[q] # "act.workflow"
  BY DEF BlockedBy, HoldsWorkflow
<1>7. phase[q] \in {"transition.commit", "act.commit"} => BlockedBy(q) = {}
  BY DEF BlockedBy
<1>. QED
  BY <1>3, <1>4, <1>5, <1>6, <1>7

\* No set of requests waits for one another: the fixed lock order Workflow,
\* Approval, Container of workflows.py excludes a deadlock.
THEOREM NoRequestsDeadlock == Spec => []NoDeadlock
<1>1. IndInv => NoDeadlock
  <2>. SUFFICES ASSUME IndInv, NEW S \in SUBSET Request, S # {}
                PROVE  \E r \in S : BlockedBy(r) \cap S = {}
    BY DEF NoDeadlock
  <2>. SUFFICES ASSUME \A r \in S : BlockedBy(r) \cap S # {}
                PROVE  FALSE
    OBVIOUS
  <2>1. PICK r \in S : TRUE
    OBVIOUS
  <2>2. PICK q \in S : q \in BlockedBy(r)
    OBVIOUS
  <2>3. PICK p \in S : p \in BlockedBy(q)
    OBVIOUS
  <2>4. phase[r] = "act.workflow" /\ phase[q] # "act.workflow"
    BY <2>2, <2>3, LockRanks
  <2>5. PICK o \in S : o \in BlockedBy(p)
    OBVIOUS
  <2>6. phase[q] = "act.workflow"
    BY <2>3, <2>5, LockRanks
  <2>. QED
    BY <2>4, <2>6
<1>. QED
  BY <1>1, LockedRowsAreStable, PTL
==============================================================================
