------------------------- MODULE MCApprovalWorkflow --------------------------
(* Instances of ApprovalWorkflow for TLC: an author with the member role,   *)
(* a reviewer with the reviewer role, and optionally a platform admin.      *)
EXTENDS ApprovalWorkflow, TLC

CONSTANTS author, reviewer, admin

\* MEMBER_PERMISSIONS and REVIEWER_PERMISSIONS of services/rbac.py
MCPermission ==
  [u \in User |->
     CASE u = author -> {"submit", "revise", "update", "start"}
       [] u = reviewer -> PermissionCode
       [] OTHER -> {}]

RequestSymmetry == Permutations(Request)
Symmetry == Permutations(Request) \cup Permutations(Workflow)
==============================================================================
