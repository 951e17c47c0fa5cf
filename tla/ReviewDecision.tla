---------------------------- MODULE ReviewDecision ---------------------------
(***************************************************************************)
(* What a review promises its initiator, without the concurrency of the    *)
(* approvers: every stage is voted on at most once, no vote is ever lost   *)
(* or changed, and the status of the workflow is at every moment the one   *)
(* function of the votes that Outcome defines.                             *)
(***************************************************************************)
EXTENDS Integers, CdeStates

CONSTANTS
  User,
  Workflow,
  MaxStages,   \* most assignees of one workflow
  None         \* Approval.result is NULL

Stage == 1..MaxStages
AssigneeList == UNION { [1..n -> User] : n \in 0..MaxStages }

VARIABLES
  approver,    \* approvals.approver_id by workflow and stage
  result,      \* approvals.result by workflow and stage
  status       \* workflow_instances.status

vars == <<approver, result, status>>

AnyRejected(stages, votes) == \E i \in stages : votes[i] = "rejected"
AllDone(stages, votes) == \A i \in stages : votes[i] # None

\* One rejection decides the review at once; otherwise it is completed when
\* the last stage has a result, whatever those results are.
Outcome(stages, votes) ==
  IF AnyRejected(stages, votes) THEN "rejected"
  ELSE IF AllDone(stages, votes) THEN "completed"
  ELSE "in_progress"

Init ==
  /\ approver = [w \in Workflow |-> << >>]
  /\ result = [w \in Workflow |-> [i \in Stage |-> None]]
  /\ status = [w \in Workflow |-> "none"]

Open(w, assignees) ==
  /\ status[w] = "none"
  /\ approver' = [approver EXCEPT ![w] = assignees]
  /\ status' = [status EXCEPT ![w] = "in_progress"]
  /\ UNCHANGED result

Vote(w, i, v) ==
  /\ status[w] # "none"
  /\ i \in DOMAIN approver[w]
  /\ result[w][i] = None
  /\ result' = [result EXCEPT ![w][i] = v]
  /\ status' = [status EXCEPT ![w] = Outcome(DOMAIN approver[w], result'[w])]
  /\ UNCHANGED approver

Next ==
  \E w \in Workflow :
    \/ \E assignees \in AssigneeList : Open(w, assignees)
    \/ \E i \in Stage, v \in ApprovalResult : Vote(w, i, v)

Spec == Init /\ [][Next]_vars
==============================================================================
