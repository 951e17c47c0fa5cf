-------------------------- MODULE ContainerLifecycle -------------------------
(***************************************************************************)
(* What the platform promises of an information container, without the     *)
(* requests, row locks and transactions that provide it: the state moves   *)
(* only along the transition table, one move at a time, every move leaves  *)
(* exactly one history row, and a move made by a review can only be a      *)
(* return from Shared to WIP.                                              *)
(***************************************************************************)
EXTENDS Sequences, CdeStates

CONSTANTS
  Container,
  Workflow,
  None        \* "no workflow": the move was made by the transition endpoint

VARIABLES
  current_state,   \* information_containers.current_state
  history          \* container_state_histories, per container, oldest first

vars == <<current_state, history>>

\* A history row names the move and the workflow instance that made it, if any.
MoveBy(t, wf) ==
  [from |-> t.from, action |-> t.action, to |-> t.to, workflow |-> wf]

Init ==
  /\ current_state = [c \in Container |-> "WIP"]
  /\ history = [c \in Container |-> << >>]

Move(c, t, wf) ==
  /\ current_state[c] = t.from
  /\ wf \in Workflow => t.action = "return"
  /\ current_state' = [current_state EXCEPT ![c] = t.to]
  /\ history' = [history EXCEPT ![c] = Append(@, MoveBy(t, wf))]

Next ==
  \E c \in Container, t \in VALID_TRANSITIONS, wf \in Workflow \cup {None} :
    Move(c, t, wf)

Spec == Init /\ [][Next]_vars
==============================================================================
