---------------------------- MODULE ApprovalsPage ----------------------------
(***************************************************************************)
(* The page of the approver: a queue read once and cached, one task open   *)
(* beside it, and three buttons.  The queue on the screen, the calls in    *)
(* flight and the approvals in the database go their own ways: others      *)
(* assign and decide, the cache is read again whenever it is.  Calls       *)
(* outlive the page; what React keeps for it does not.                     *)
(***************************************************************************)
EXTENDS Integers, FiniteSets, FiniteSetsExt

CONSTANTS
  Task,       \* approvals of this user, numbered from 1 in the order they are listed
  ProjectOf,  \* the project of each
  MaxCalls    \* bound: decisions in flight at the same time

VARIABLES
  ui,     \* activeId, projectFilter, toast; the comment is not followed
  shown,  \* the cached answer of GET /workflows/tasks/mine
  calls,  \* decisions in flight
  db      \* the approval of each task

vars == <<ui, shown, calls, db>>

None == 0
All == "all"
Result == {"approved", "returned", "rejected"}
NoToast == [name |-> None, task |-> None, result |-> "none"]
Fresh == [activeId |-> None, projectFilter |-> All, toast |-> NoToast]

-----------------------------------------------------------------------------
(* What the page derives from its state.                                   *)

projects == { ProjectOf[t] : t \in shown }

Filtered == { t \in shown : ui.projectFilter \in {All, ProjectOf[t]} }

active == IF ui.activeId \in shown THEN ui.activeId
          ELSE IF Filtered = {} THEN None ELSE Min(Filtered)

SaysAllDone == Filtered = {}

isPending == \E c \in calls : c.mounted

-----------------------------------------------------------------------------
(* The user.                                                               *)

SelectTask(t) ==
  /\ t \in Filtered
  /\ ui' = [ui EXCEPT !.activeId = t]
  /\ UNCHANGED <<shown, calls, db>>

SelectProject(p) ==
  /\ ui' = [ui EXCEPT !.projectFilter = p]
  /\ UNCHANGED <<shown, calls, db>>

Act(result) ==
  /\ Filtered # {} /\ active # None /\ ~isPending
  /\ Cardinality(calls) < MaxCalls
  /\ calls' = calls \cup {[task |-> active, result |-> result,
                           state |-> "sent", mounted |-> TRUE]}
  /\ UNCHANGED <<ui, shown, db>>

\* Leaving the page and coming back: the callbacks of old calls reach only the cache.
Remount ==
  /\ ui' = Fresh
  /\ calls' = { [c EXCEPT !.mounted = FALSE] : c \in calls }
  /\ UNCHANGED <<shown, db>>

-----------------------------------------------------------------------------
(* The answers.                                                            *)

Settle(c, state) == calls' = (calls \ {c}) \cup {[c EXCEPT !.state = state]}

\* The fault: an approval is written whether or not it was decided before.
Serve_Again(c) ==
  /\ c.state = "sent"
  /\ db' = [db EXCEPT ![c.task].result = c.result]
  /\ Settle(c, "ok")
  /\ UNCHANGED <<ui, shown>>

Serve(c) ==
  /\ c.state = "sent"
  /\ IF db[c.task].result = "pending"
     THEN db' = [db EXCEPT ![c.task].result = c.result] /\ Settle(c, "ok")
     ELSE UNCHANGED db /\ Settle(c, "failed")
  /\ UNCHANGED <<ui, shown>>

\* The connection fails before or after the server has done its part.
Lose(c) ==
  /\ c.state \in {"sent", "ok"}
  /\ Settle(c, "failed")
  /\ UNCHANGED <<ui, shown, db>>

\* onSuccess is the closure of the last render: it names the task that is
\* active now, which need not be the one that was decided.
Succeeded(c) ==
  /\ c.state = "ok"
  /\ calls' = calls \ {c}
  /\ ui' = IF c.mounted
           THEN [ui EXCEPT !.toast = [name |-> active, task |-> c.task, result |-> c.result],
                           !.activeId = None]
           ELSE ui
  /\ UNCHANGED <<shown, db>>

\* There is no onError: the buttons are enabled again and nothing is said.
Failed(c) ==
  /\ c.state = "failed"
  /\ calls' = calls \ {c}
  /\ UNCHANGED <<ui, shown, db>>

ToastTimeout ==
  /\ ui.toast # NoToast
  /\ ui' = [ui EXCEPT !.toast = NoToast]
  /\ UNCHANGED <<shown, calls, db>>

Refresh ==
  /\ shown' = { t \in Task : db[t].result = "pending" /\ db[t].in_progress }
  /\ UNCHANGED <<ui, calls, db>>

-----------------------------------------------------------------------------
(* Everybody else: start_workflow assigns, a platform admin decides for the *)
(* approver, and another approver ends the workflow.                       *)

Assigned(t) ==
  /\ db[t].result = "unassigned"
  /\ db' = [db EXCEPT ![t].result = "pending"]
  /\ UNCHANGED <<ui, shown, calls>>

DecidedElsewhere(t) ==
  /\ db[t].result = "pending"
  /\ \E r \in Result : db' = [db EXCEPT ![t].result = r]
  /\ UNCHANGED <<ui, shown, calls>>

EndedElsewhere(t) ==
  /\ db[t].result = "pending" /\ db[t].in_progress
  /\ db' = [db EXCEPT ![t].in_progress = FALSE]
  /\ UNCHANGED <<ui, shown, calls>>

Init ==
  /\ ui = Fresh
  /\ shown = {}
  /\ calls = {}
  /\ db = [t \in Task |-> [result |-> "unassigned", in_progress |-> TRUE]]

Next ==
  \/ \E t \in Task : SelectTask(t)
  \/ \E p \in projects \cup {All} : SelectProject(p)
  \/ \E r \in Result : Act(r)
  \/ Remount
  \/ \E c \in calls : Serve(c) \/ Lose(c) \/ Succeeded(c) \/ Failed(c)
  \/ ToastTimeout
  \/ Refresh
  \/ \E t \in Task : Assigned(t) \/ DecidedElsewhere(t) \/ EndedElsewhere(t)

Spec == Init /\ [][Next]_vars

-----------------------------------------------------------------------------

Call == [task : Task, result : Result,
         state : {"sent", "ok", "failed"}, mounted : BOOLEAN]

TypeOK ==
  /\ ui \in [activeId : Task \cup {None}, projectFilter : {All} \cup { ProjectOf[t] : t \in Task },
            toast : [name : Task \cup {None}, task : Task \cup {None}, result : Result \cup {"none"}]]
  /\ shown \subseteq Task
  /\ calls \subseteq Call
  /\ db \in [Task -> [result : Result \cup {"unassigned", "pending"}, in_progress : BOOLEAN]]

\* What the toast announces is what the database holds, whoever else decides
\* the task and however old the queue is that the button was taken from.
AnnouncedIsRecorded == ui.toast # NoToast => db[ui.toast.task].result = ui.toast.result

-----------------------------------------------------------------------------
(* The inductive invariant of the page (PageViews_proofs).                 *)

\* The server has done what a call was told, and nobody decides again.
OkIsRecorded == \A c \in calls : c.state = "ok" => db[c.task].result = c.result

ToastNames == ui.toast # NoToast => ui.toast.task \in Task /\ ui.toast.result \in Result

ApprovalsInv == TypeOK /\ OkIsRecorded /\ ToastNames /\ AnnouncedIsRecorded
=============================================================================
