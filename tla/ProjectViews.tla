----------------------------- MODULE ProjectViews ----------------------------
(***************************************************************************)
(* The pages that show one project out of the list: the panel of the       *)
(* projects page, the dashboard and the reports.  The list has no order    *)
(* and is cut at a page, so that the project that is taken from it can     *)
(* change with every answer, while the figures of the one before are still *)
(* on their way.  Each figure is a query of its own: view says which one   *)
(* is followed.                                                            *)
(***************************************************************************)
EXTENDS Integers, FiniteSets, Functions

CONSTANTS
  Project,   \* ids of projects, those still to be created included
  Typed,     \* numbers that are typed in as threshold, 0 for none or no number
  PageSize,  \* projects of one answer: 20 in the code
  MaxCalls   \* bound: calls in flight at the same time

VARIABLES
  ui,     \* the followed query and what the user has selected
  shown,  \* projects: the cached list, status of each and the first; answers by key
  calls,  \* calls in flight
  db      \* the status of each project

vars == <<ui, shown, calls, db>>

None == "none"
All == "all"
ProjectStatus == {"active", "suspended", "completed", "archived"}

Reports == {"naming-violations", "approval-delays", "requirements-status"}
View == {"project-containers", "dashboard-containers"} \cup Reports

\* An empty field, and every text that is no number, is the default.
Hours(typed) == IF typed = 0 THEN 72 ELSE typed

Fresh(view) == [view |-> view, filter |-> All, showForm |-> FALSE, selectedId |-> None,
                thresholdHours |-> Hours(0)]

onProjects == ui.view = "project-containers"

-----------------------------------------------------------------------------
(* What is shown.                                                          *)

projects == shown.projects.status

Filtered == { p \in DOMAIN projects : ui.filter \in {All, projects[p]} }

\* ProjectsPage: a selection that the filter hides is kept, without a panel.
selectedProject == IF ui.selectedId \in Filtered THEN ui.selectedId ELSE None

\* DashboardPage.
firstProject == shown.projects.first

\* ReportsPage: a selection is kept that the list no longer holds.
projectId == IF ui.selectedId # None THEN ui.selectedId ELSE firstProject

Current ==
  CASE onProjects -> selectedProject
    [] ui.view = "dashboard-containers" -> firstProject
    [] OTHER -> projectId

\* Faulty: the threshold is left out of the key.
Key_NoThreshold(project, thresholdHours) == <<project>>

Key(project, thresholdHours) ==
  IF ui.view = "approval-delays" THEN <<project, thresholdHours>> ELSE <<project>>

key == Key(Current, ui.thresholdHours)

isFetching(k) == \E c \in calls : c.kind = "get" /\ c.key = k

\* What a figure stands on when there is no data, after a failure, too: nothing.
Zero == [project |-> None, thresholdHours |-> 0]

Data == IF Current # None /\ key \in DOMAIN shown.answers THEN shown.answers[key] ELSE Zero

Names(project, thresholdHours) == [project |-> project, thresholdHours |-> thresholdHours]

\* What each of them names, and what its figures were asked for.
ProjectDetail == [names |-> Names(selectedProject, Data.thresholdHours), figures |-> Data]
Dashboard == [names |-> Names(firstProject, Data.thresholdHours), figures |-> Data]
namingViolations == [names |-> Names(projectId, Data.thresholdHours), figures |-> Data]
approvalDelays == [names |-> Names(projectId, ui.thresholdHours), figures |-> Data]
requirementsStatus == [names |-> Names(projectId, Data.thresholdHours), figures |-> Data]

Displayed ==
  CASE onProjects -> ProjectDetail
    [] ui.view = "dashboard-containers" -> Dashboard
    [] ui.view = "naming-violations" -> namingViolations
    [] ui.view = "approval-delays" -> approvalDelays
    [] ui.view = "requirements-status" -> requirementsStatus

-----------------------------------------------------------------------------
(* The user.                                                               *)

SetUi(u) == ui' = u /\ UNCHANGED <<shown, calls, db>>

\* Archived projects have no button of their own.
SetFilter(f) == onProjects /\ f # "archived" /\ SetUi([ui EXCEPT !.filter = f])

SetShowForm(show) == onProjects /\ SetUi([ui EXCEPT !.showForm = show])

TogglePanel(p) ==
  onProjects /\ p \in Filtered /\ SetUi([ui EXCEPT !.selectedId = IF @ = p THEN None ELSE p])

ClosePanel == onProjects /\ selectedProject # None /\ SetUi([ui EXCEPT !.selectedId = None])

SelectReport(p) ==
  ui.view \in Reports /\ p \in DOMAIN projects /\ SetUi([ui EXCEPT !.selectedId = p])

SetThreshold(typed) ==
  /\ ui.view = "approval-delays" /\ projectId # None
  /\ SetUi([ui EXCEPT !.thresholdHours = Hours(typed)])

Create ==
  /\ onProjects /\ ui.showForm
  /\ ~ \E c \in calls : c.kind = "create" /\ c.mounted
  /\ Cardinality(calls) < MaxCalls
  /\ calls' = calls \cup {[kind |-> "create", state |-> "sent", mounted |-> TRUE]}
  /\ UNCHANGED <<ui, shown, db>>

\* Another page and back: the cache outlives the page.
Remount ==
  /\ ui' = Fresh(ui.view)
  /\ calls' = { IF c.kind = "create" THEN [c EXCEPT !.mounted = FALSE] ELSE c : c \in calls }
  /\ UNCHANGED <<shown, db>>

-----------------------------------------------------------------------------
(* The queries.                                                            *)

\* The query of the current project, which asks for what is selected now; an
\* old answer stays until the new one is there.
Fetch ==
  /\ Current # None /\ ~isFetching(key)
  /\ Cardinality(calls) < MaxCalls
  /\ calls' = calls \cup {[kind |-> "get", key |-> key, state |-> "sent",
                           asked |-> [project |-> Current, thresholdHours |-> ui.thresholdHours]]}
  /\ UNCHANGED <<ui, shown, db>>

Settle(c, state) == calls' = (calls \ {c}) \cup {[c EXCEPT !.state = state]}

\* A project that the list has shown exists; a threshold has to be positive.
Refused(c) == ui.view = "approval-delays" /\ c.asked.thresholdHours <= 0

ServeGet(c) ==
  /\ c.kind = "get" /\ c.state = "sent"
  /\ Settle(c, IF Refused(c) THEN "failed" ELSE "ok")
  /\ UNCHANGED <<ui, shown, db>>

Answer(c) ==
  /\ c.kind = "get" /\ c.state = "ok"
  /\ shown' = [shown EXCEPT !.answers =
                 [k \in DOMAIN @ \cup {c.key} |-> IF k = c.key THEN c.asked ELSE @[k]]]
  /\ calls' = calls \ {c}
  /\ UNCHANGED <<ui, db>>

Live == { p \in Project : db[p] # None }

ServeCreate(c) ==
  /\ c.kind = "create" /\ c.state = "sent"
  /\ \/ \E p \in Project \ Live : db' = [db EXCEPT ![p] = "active"] /\ Settle(c, "ok")
     \/ UNCHANGED db /\ Settle(c, "failed")
  /\ UNCHANGED <<ui, shown>>

Lose(c) ==
  /\ c.state # "failed"
  /\ Settle(c, "failed")
  /\ UNCHANGED <<ui, shown, db>>

\* Also a form that was closed and opened again meanwhile.
Created(c) ==
  /\ c.kind = "create" /\ c.state = "ok"
  /\ ui' = IF c.mounted THEN [ui EXCEPT !.showForm = FALSE] ELSE ui
  /\ calls' = calls \ {c}
  /\ UNCHANGED <<shown, db>>

\* Nothing is said, on either side.
Failed(c) ==
  /\ c.state = "failed"
  /\ calls' = calls \ {c}
  /\ UNCHANGED <<ui, shown, db>>

Pages == { s \in SUBSET Live : Cardinality(s) = PageSize \/ (s = Live /\ Cardinality(s) < PageSize) }

\* GET /projects: an unordered page of the projects of the user.
RefreshProjects ==
  /\ \E s \in Pages : \E first \in IF s = {} THEN {None} ELSE s :
       shown' = [shown EXCEPT !.projects = [status |-> Restrict(db, s), first |-> first]]
  /\ UNCHANGED <<ui, calls, db>>

\* Another user.
Elsewhere ==
  /\ \E p \in Project, status \in ProjectStatus : db' = [db EXCEPT ![p] = status]
  /\ UNCHANGED <<ui, shown, calls>>

Init ==
  /\ \E view \in View : ui = Fresh(view)
  /\ shown = [projects |-> [status |-> [p \in {} |-> None], first |-> None],
              answers |-> [k \in {} |-> None]]
  /\ calls = {}
  /\ db \in [Project -> {None, "active"}]

Next ==
  \/ \E f \in ProjectStatus \cup {All} : SetFilter(f)
  \/ \E show \in BOOLEAN : SetShowForm(show)
  \/ \E p \in Project : TogglePanel(p) \/ SelectReport(p)
  \/ \E typed \in Typed : SetThreshold(typed)
  \/ ClosePanel \/ Create \/ Remount \/ Fetch \/ RefreshProjects
  \/ \E c \in calls : ServeGet(c) \/ Answer(c) \/ ServeCreate(c) \/ Lose(c) \/ Created(c) \/ Failed(c)
  \/ Elsewhere

Spec == Init /\ [][Next]_vars

-----------------------------------------------------------------------------

TypeOK ==
  /\ ui.view \in View /\ ui.filter \in ProjectStatus \cup {All} /\ ui.showForm \in BOOLEAN
  /\ ui.selectedId \in Project \cup {None} /\ ui.thresholdHours \in { Hours(t) : t \in Typed \cup {0} }
  /\ DOMAIN projects \subseteq Project
  /\ firstProject \in DOMAIN projects \/ (firstProject = None /\ DOMAIN projects = {})
  /\ db \in [Project -> ProjectStatus \cup {None}]

\* Whatever is selected while answers are on their way, and however the list
\* changes under the selection, the figures on a page are those of the project
\* that it names, and the delays those beyond the threshold that it names.
ViewIsOfItsSelection == Displayed.figures \in {Zero, Displayed.names}

-----------------------------------------------------------------------------
(* The inductive invariant of the page (PageViews_proofs).                 *)

Ui == [view : View, filter : ProjectStatus \cup {All}, showForm : BOOLEAN,
       selectedId : Project \cup {None},
       thresholdHours : { Hours(typed) : typed \in Typed \cup {0} }]

\* Figures that were asked for under a key are those the key stands for.
KeyedBy(k, asked) ==
  /\ asked = Names(asked.project, asked.thresholdHours)
  /\ k = Key(asked.project, asked.thresholdHours)

GetCall(c) ==
  /\ c = [kind |-> "get", key |-> c.key, state |-> c.state, asked |-> c.asked]
  /\ KeyedBy(c.key, c.asked)

CreateCall(c) == c = [kind |-> "create", state |-> c.state, mounted |-> c.mounted]

AnswersKeyed == \A k \in DOMAIN shown.answers : KeyedBy(k, shown.answers[k])

CallsKeyed == \A c \in calls : GetCall(c) \/ CreateCall(c)

ViewInv ==
  /\ ui \in Ui
  /\ shown = [projects |-> shown.projects, answers |-> shown.answers]
  /\ AnswersKeyed
  /\ CallsKeyed
=============================================================================
