------------------------------ MODULE QueryCache -----------------------------
(***************************************************************************)
(* What the pages have in common: lists that are read once and cached, and *)
(* mutations that mark lists to be read again.  One list is followed, the  *)
(* one of the project, container or organization at hand, through reads    *)
(* and mutations that overlap and pages that come and go.                  *)
(*                                                                         *)
(* A read is known by what it knows of the user's own changes: all of them *)
(* ("with"), not one whose answer is still out ("unaware"), or not one     *)
(* that the page has been told of ("without").                             *)
(***************************************************************************)
EXTENDS Naturals, FiniteSets

CONSTANTS
  Watched,  \* the lists that may be followed
  MaxCalls  \* bound: mutations in flight at the same time

VARIABLES
  ui,     \* page: the route
  shown,  \* key, data, stale (isStale or isInvalidated), fetch; missed (history)
  calls   \* mutations in flight

vars == <<ui, shown, calls>>

-----------------------------------------------------------------------------
(* The tables: what each page reads, and what each mutation changes of it  *)
(* and invalidates.                                                        *)

LayoutKeys == {"projects", "notifications-summary"}

DashboardKeys == {"projects", "dashboard-containers", "workflows-mine"}
ProjectsKeys == {"projects", "project-containers"}
ContainersKeys == {"containers"}
DetailKeys == {"containers", "files", "revisions", "share-requests"}
NamingRulesKeys == {"naming-rules"}
ApprovalsKeys == {"workflows-mine"}
NotificationsKeys == {"notifications"}
RequirementsKeys == {"projects", "requirements"}
ReportsKeys == {"projects", "reports"}
AuditLogsKeys == {"audit-logs"}
RolesKeys == {"organizations", "permissions", "roles"}
SettingsKeys == {"organizations"}

\* The routes.
QueryKeys ==
  [dashboard |-> DashboardKeys, projects |-> ProjectsKeys, containers |-> ContainersKeys,
   detail |-> DetailKeys, upload |-> {}, namingRules |-> NamingRulesKeys,
   approvals |-> ApprovalsKeys, notifications |-> NotificationsKeys,
   requirements |-> RequirementsKeys, reports |-> ReportsKeys, auditLogs |-> AuditLogsKeys,
   roles |-> RolesKeys, settings |-> SettingsKeys]

Page == DOMAIN QueryKeys
Mounted(page) == QueryKeys[page] \cup LayoutKeys

Mutation(page, changes, invalidates) ==
  [page |-> page, changes |-> changes, invalidates |-> invalidates]

createProject == Mutation("projects", {"projects"}, {"projects"})
changeContainers == Mutation("containers", {"containers"}, {"containers"})
transition == Mutation("detail", {"containers"}, {"containers"})
deleteFile == Mutation("detail", {"files", "revisions"}, {"files", "containers"})
changeShareRequests == Mutation("detail", {"share-requests"}, {"share-requests"})
upload == Mutation("upload", {"containers", "files", "revisions"}, {})
changeRule == Mutation("namingRules", {"naming-rules"}, {"naming-rules"})
markRead == Mutation("notifications", {"notifications", "notifications-summary"}, {"notifications"})
changeRequirements == Mutation("requirements", {"requirements", "reports"}, {"requirements"})
changeRoles == Mutation("roles", {"roles"}, {"roles"})

\* Faulty: the decision of an approver leaves the queue as it is.
act_QueueKept == Mutation("approvals", {"workflows-mine"}, {"dashboard-containers"})

act == Mutation("approvals", {"workflows-mine", "dashboard-containers", "containers"},
                {"workflows-mine", "dashboard-containers"})

Mutations ==
  {createProject, changeContainers, transition, deleteFile, changeShareRequests, upload,
   changeRule, act, markRead, changeRequirements, changeRoles}

\* What a mutation changes in view of its own page and does not invalidate: the
\* revisions of the file, and the number on the badge.
Forgotten == {<<deleteFile, "revisions">>, <<markRead, "notifications-summary">>}

-----------------------------------------------------------------------------
(* The cache.                                                              *)

mounted == shown.key \in Mounted(ui.page)

Fetch(entry) == IF entry.fetch = "idle" THEN [entry EXCEPT !.fetch = "sent"] ELSE entry

\* refetchOnMount, of observers that were not there before.
Navigate(page) ==
  /\ ui' = [page |-> page]
  /\ shown' = IF /\ ~mounted /\ shown.key \in Mounted(page)
                 /\ shown.data = "none" \/ shown.stale
              THEN Fetch(shown) ELSE shown
  /\ UNCHANGED calls

\* refetchOnWindowFocus, refetchOnReconnect.
Focus ==
  /\ mounted /\ (shown.stale \/ shown.data = "none")
  /\ shown' = Fetch(shown)
  /\ UNCHANGED <<ui, calls>>

\* staleTime is 30 seconds.
Age ==
  /\ shown.data # "none" /\ ~shown.stale
  /\ shown' = [shown EXCEPT !.stale = TRUE]
  /\ UNCHANGED <<ui, calls>>

\* refetchInterval of the badge, whatever the age of the answer.
Interval ==
  /\ shown.key = "notifications-summary" /\ mounted
  /\ shown' = Fetch(shown)
  /\ UNCHANGED <<ui, calls>>

\* gcTime: five minutes without an observer.
Collect ==
  /\ ~mounted /\ shown.fetch = "idle"
  /\ shown' = [shown EXCEPT !.data = "none", !.stale = FALSE, !.missed = FALSE]
  /\ UNCHANGED <<ui, calls>>

ServeGet ==
  /\ shown.fetch = "sent"
  /\ shown' = [shown EXCEPT !.fetch = "with"]
  /\ UNCHANGED <<ui, calls>>

Answer ==
  /\ shown.fetch \notin {"idle", "sent"}
  /\ shown' = [shown EXCEPT !.data = shown.fetch, !.stale = FALSE, !.fetch = "idle",
                            !.missed = @ /\ shown.fetch = "without"]
  /\ UNCHANGED <<ui, calls>>

\* A read is tried twice, and then leaves what there was.
FetchFails ==
  /\ shown.fetch # "idle"
  /\ \E fetch \in {"idle", "sent"} : shown' = [shown EXCEPT !.fetch = fetch]
  /\ UNCHANGED <<ui, calls>>

-----------------------------------------------------------------------------
(* Mutations.                                                              *)

Mutate(m) ==
  /\ m.page = ui.page /\ m.changes # {}
  /\ Cardinality(calls) < MaxCalls
  /\ calls' = calls \cup {[mutation |-> m, state |-> "sent"]}
  /\ UNCHANGED <<ui, shown>>

\* A change of what the user sees beside the button.
Tracks(m) == shown.key \in m.changes \cap Mounted(m.page)

Behind(read) == IF read = "with" THEN "unaware" ELSE read

Serve(c) ==
  /\ c.state = "sent"
  /\ \/ /\ calls' = (calls \ {c}) \cup {[c EXCEPT !.state = "ok"]}
        /\ shown' = IF Tracks(c.mutation)
                    THEN [shown EXCEPT !.data = Behind(@), !.fetch = Behind(@)] ELSE shown
     \/ calls' = calls \ {c} /\ UNCHANGED shown
  /\ UNCHANGED ui

\* The answer is lost: the page is not told.
Lose(c) ==
  /\ c.state = "ok"
  /\ calls' = calls \ {c}
  /\ UNCHANGED <<ui, shown>>

\* invalidateQueries: the list is stale, and a mounted one is read again; a read
\* under way is thrown away if there is an older answer, and kept if not.
Invalidate(entry) ==
  IF ~mounted THEN [entry EXCEPT !.stale = entry.data # "none", !.missed = entry.fetch = "without"]
  ELSE IF entry.data = "none" THEN [Fetch(entry) EXCEPT !.missed = entry.fetch = "without"]
  ELSE [entry EXCEPT !.stale = TRUE, !.fetch = "sent", !.missed = FALSE]

Told(read) == IF read = "unaware" THEN "without" ELSE read

\* A forgotten list is left as it is, and that is recorded.
Forget(entry) == [entry EXCEPT !.missed = @ \/ "without" \in {entry.data, entry.fetch}]

\* onSuccess, also after the page was left.
Succeeded(c) ==
  LET told == IF Tracks(c.mutation)
              THEN [shown EXCEPT !.data = Told(@), !.fetch = Told(@)] ELSE shown
  IN /\ c.state = "ok"
     /\ calls' = calls \ {c}
     /\ shown' = IF shown.key \in c.mutation.invalidates THEN Invalidate(told)
                 ELSE IF <<c.mutation, shown.key>> \in Forgotten THEN Forget(told) ELSE told
     /\ UNCHANGED ui

Init ==
  /\ ui = [page |-> "dashboard"]
  /\ \E key \in Watched :
       shown = Fetch([key |-> key, data |-> "none", stale |-> FALSE, fetch |-> "idle",
                      missed |-> FALSE])
  /\ calls = {}

Next ==
  \/ \E page \in Page : Navigate(page)
  \/ Focus \/ Age \/ Interval \/ Collect
  \/ ServeGet \/ Answer \/ FetchFails
  \/ \E m \in Mutations : Mutate(m)
  \/ \E c \in calls : Serve(c) \/ Lose(c) \/ Succeeded(c)

Spec == Init /\ [][Next]_vars

-----------------------------------------------------------------------------

Read == {"with", "unaware", "without"}

Entry == [key : Watched, data : Read \cup {"none"}, stale : BOOLEAN,
          fetch : Read \cup {"idle", "sent"}, missed : BOOLEAN]

Call == [mutation : Mutations, state : {"sent", "ok"}]

TypeOK == ui \in [page : Page] /\ shown \in Entry /\ calls \subseteq Call

\* A list without a change that the user made beside it and has been told of is
\* on its way out: it is stale, so that the next look at it reads it again.  The
\* exceptions are recorded in missed: a list that was being read for the first
\* time, or on a page that was left, when the change was announced, whose read is
\* kept however old it is, and the lists that the mutation has Forgotten.
OwnChangeIsFetched == shown.data = "without" => shown.stale \/ shown.missed

-----------------------------------------------------------------------------
(* The inductive invariant of the cache (PageViews_proofs).                *)

\* A read that is kept although it does not know of a change is recorded, until
\* an answer that knows of it comes.
LateIsMissed == shown.fetch = "without" => shown.missed

CacheInv == TypeOK /\ LateIsMissed /\ OwnChangeIsFetched
=============================================================================
