------------------------------ MODULE CdeStates ------------------------------
(***************************************************************************)
(* The vocabulary every module about information containers shares: the    *)
(* states of the common data environment, the table of transitions the     *)
(* server accepts, and the results an approver can record.                 *)
(***************************************************************************)

ContainerState == {"WIP", "Shared", "Published", "Archived"}

\* VALID_TRANSITIONS: the dictionary (from, action) -> to, as a set of records.
VALID_TRANSITIONS ==
  { [from |-> "WIP",       action |-> "submit",  to |-> "Shared"],
    [from |-> "Shared",    action |-> "approve", to |-> "Published"],
    [from |-> "Shared",    action |-> "return",  to |-> "WIP"],
    [from |-> "Published", action |-> "revise",  to |-> "WIP"],
    [from |-> "Published", action |-> "archive", to |-> "Archived"],
    [from |-> "Shared",    action |-> "archive", to |-> "Archived"] }

TransitionAction == {"submit", "approve", "return", "revise", "archive"}

ApprovalResult == {"approved", "rejected", "returned", "conditionally_approved"}

\* "none" stands for an instance that has not been created; "pending" and
\* "cancelled" exist in the enumeration but no operation ever assigns them.
WorkflowStatus == {"none", "pending", "in_progress", "completed", "rejected", "cancelled"}
==============================================================================
