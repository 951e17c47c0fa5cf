# Verification of the Open BIM Information Platform

TLA+ models of the platform's backend (`src/backend/app`, FastAPI over
PostgreSQL and an S3 bucket) and of its frontend (`src/frontend/src`, one React
page at a time over a query cache), checked with TLC on small instances and, wherever
the prover reaches, proved with TLAPS for every instance. `PROJECT.json` maps every definition to
the lines it translates, and lists the runs, the mutants that show that each
property can fail, the findings, the hazards and the theorems.

- [1. Inventory](#1-inventory)
- [2. Modules](#2-modules)
- [3. Runs](#3-runs)
- [4. Proofs](#4-proofs)
- [5. Findings](#5-findings)
- [6. What is not modelled](#6-what-is-not-modelled)
- [7. Plan](#7-plan)

## 1. Inventory

The backend runs as one or more worker processes, each an asyncio event loop.
A request is a coroutine with a database session of its own (`db/base.py`,
`get_db`): one transaction, opened by the first statement, ended by the
handler's `commit()` or rolled back when the session closes. Between two awaits
nothing else runs in the process; at an await any other request of any worker
may. PostgreSQL runs at its default READ COMMITTED: a plain `SELECT` sees what
is committed, `SELECT ... FOR UPDATE` waits for the row lock and then sees what
is committed, an `UPDATE` waits for the row lock and overwrites. Only
`containers.transition_state` and `workflows.act_on_approval` lock rows.

The frontend is a single-page application in one tab: one page is mounted, its
state is React's and dies with it, what it has read lives on in the cache of
TanStack Query. A call outlives the page that made it. Between a click and the
answer the user goes on clicking, the list behind the page is read again, and
other users change the rows.

| Component | State | Operations | Interacts with | Hard behaviour | What makes it correct |
|---|---|---|---|---|---|
| Container lifecycle (`containers.py`) | `information_containers.current_state`, metadata, `container_state_histories` | create, transition, update, diff | reviews (return on rejection), files (WIP check), sharing | transition against rejection; WIP check before the write | the history is an unbroken chain along `VALID_TRANSITIONS` that ends in the current state |
| Approval workflow (`workflows.py`) | `workflow_instances.status`, `approvals.result` | start, act | container (row lock, return to WIP), notifications | approvers voting at once; double act; lock order; a decided review stays open to votes | the status is the function of all votes; a return has a rejection behind it; no deadlock |
| Files and revisions (`uploads.py`, `storage.py`) | `container_files`, `container_revisions`; objects of the bucket | upload, list, download, delete | container state, scanner | two stores without a common transaction; version from a count | rows never precede objects; version numbers follow time |
| External sharing (`share_requests.py`) | `share_requests` row, token, expiry | create, approve, reject, revoke, list (expires lazily), public download | latest file, audit log | every handler is check-then-write without a lock | an approved row is one approval; a link goes dead once, for good |
| Tokens (`auth.py`, `security.py`, `deps.py`) | `revoked_tokens` (UNIQUE jti), `users.is_active` | login, refresh, logout, register, change password | every request (`get_current_user`), browser | two refreshes of one token; conflict of two revocations in one commit | logout closes its tokens; a rotated token is spent |
| Browser session (`lib/api.ts`, `Layout.tsx`, `LoginPage.tsx`) | token pair in localStorage, calls in flight, page | call, 401 interceptor, login, logout | tokens | several 401s at once, answers lost or late, redirect with calls in flight | every call ends; a dead session is left; logout ends the session |
| Rate limiting (`ratelimit.py`) | timestamps per key, in memory or Redis; time of the last Redis failure | allow | login, registration | fallback window of 30 s, several workers | at most `limit` attempts per window and store |
| User administration (`admin.py`) | `is_active`, `is_platform_admin`, `user_organizations` | list, update user | tokens, every permission check | two admins changing each other; membership added twice | one platform admin is left |
| Roles and permissions (`rbac.py`, `RBACPage.tsx`) | roles, permissions, assignments | create, edit, delete, assign, revoke; `require_permission` | every write endpoint | toggles from a cached state, several at once; role deleted under its permissions | system roles stay what they are |
| Naming rules (`naming_rules.py`, `naming_validator.py`, `NamingRulesPage.tsx`) | rule and segments per project; `naming_valid` of each container | upsert, delete, validate | container creation | two PUTs at once; names judged against the rule of their creation | the assignment of parts to segments; identifiers unique in a project |
| Requirements (`requirements.py`, `RequirementsPage.tsx`) | documents, items; open document, rows in edit mode | create, update, delete | - | list read again under open forms; numbers given twice | an item is overwritten only with what was loaded from it |
| Projects, organizations (`projects.py`, `ProjectsPage.tsx`, `DashboardPage.tsx`) | rows, memberships; selected project | create, list, figures of one project | membership checks | unordered list cut at a page; figures that arrive after the selection has changed | figures are those of the project that is named |
| Reports (`reports.py`, `ReportsPage.tsx`) | selected project, threshold | three queries | workflows, containers | the same; reads a status nothing assigns | the same, for the threshold, too |
| Approver's queue (`ApprovalsPage.tsx`) | open task, filter, toast, cached queue | decide | approval workflow | decisions of others, late answers | what is announced is recorded |
| Upload form (`UploadPage.tsx`) | segments, file, done | create and upload, judge the name | containers, files, naming validator | edits between the two calls; the first succeeds and the second does not | the stored file is the submitted one; the two judges agree |
| Container pages (`ContainersPage.tsx`, `ContainerDetailPage.tsx`) | filter, preview, comparison, cached states | create, move, delete file, compare, share, decide | lifecycle, files, sharing | clicks on a state that is out of date | a click does what its button says, or nothing |
| Query cache (`App.tsx`, the hooks of the pages) | cached answers, reads in flight | read, invalidate, cancel | every page | an invalidation while the first read is in flight | a change of one's own is read again |
| Notifications, mail | rows; SMTP | notify, mark read | reviews, sharing | mail after commit, best effort | - |
| Audit log (`audit.py`) | append-only rows | record | every write | in the transaction of the event | an event is committed with its entry |
| OIDC (`oidc.py`) | state and verifier of a login | authorize, callback | tokens | - | - |
| Scanner (`av_scan.py`), metrics, configuration, migrations | - | - | - | - | not part of the core logic |

The hazards of this code, with the line where each bites and the properties
that cover it, are the list "hazards" of `PROJECT.json`.

## 2. Modules

```
CdeStates            states, VALID_TRANSITIONS, results        (shared vocabulary)
ContainerLifecycle   abstract: one container, one move, one history row
ReviewDecision       abstract: one vote per stage, one outcome
ApprovalWorkflow     containers.py + workflows.py with awaits, locks, commits
  implements ContainerLifecycle and ReviewDecision
ApprovalWorkflow_proofs
FileStore            uploads.py + storage.py over database and bucket
FileStore_proofs
NamingValidator      naming_validator.py and a declarative reference
Identifiers          containers.py create + naming_rules.py
Identifiers_proofs
LinkLife             abstract: a link is issued, live, dead
ShareRequests        share_requests.py            implements LinkLife
ShareRequests_proofs
AuthTokens           auth.py login, refresh, logout; deps.py
AuthTokens_proofs
BrowserSession       api.ts, Layout.tsx, LoginPage.tsx against AuthTokens seen from outside
BrowserSession_proofs
ApprovalsPage        ApprovalsPage.tsx
UploadForm           UploadPage.tsx, with NamingValidator as the other judge
RequirementsEditor   RequirementsPage.tsx + requirements.py
NamingRuleEditor     NamingRulesPage.tsx + naming_rules.py
RoleEditor           RBACPage.tsx + rbac.py
ContainerPages       ContainersPage.tsx, ContainerDetailPage.tsx
ProjectViews         ProjectsPage.tsx, DashboardPage.tsx, ReportsPage.tsx
QueryCache           the cached queries and what invalidates them
Pages                App.tsx: one of these pages at a time, and what holds of each
PageForms_proofs     the forms: upload, requirements, roles
PageViews_proofs     what is shown and announced: containers, figures, approvals,
                     naming rules, cache; PageForms_proofs extends it
MC<module>           the instances TLC checks
```

**How a request is modelled.** `phase[r]` is the await the request `r` is at and
`job[r]` what its coroutine holds in local variables (and, before its commit,
what its transaction has written but nobody sees). An action is what runs from
one await to the next; a commit is the action that changes the tables. A
database error, an `HTTPException`, a lost client and a dead worker all end in
`Rollback`, possible at every await: the job is dropped and the tables keep what
they had. Row locks are not stored; they are derived from `phase`, since the
code holds each from one known await to the commit.

**ApprovalWorkflow.** `TransitionBegin/Lock/Commit` is `transition_state`: the
row is read `FOR UPDATE`, the move is looked up in `VALID_TRANSITIONS`, the
permission of the action and the `target_state` the client expects are checked
(`MovesFrom`), state and history row are written in one commit. `UpdateRead/Write`
is `update_container`: the WIP check is made on a plain read, the write waits
for the row lock and does not look again. `StartWorkflow` inserts an instance
with its approvals. `ActLockWorkflow`, `ActLockApproval`, `ActAggregate`,
`ActLockContainer`, `ActCommit` are the awaits of `act_on_approval` in the
order the code's "Lock ordering" comment fixes. Users, memberships and
permissions are constants; `require_permission` and the membership check read
them. The abstract specifications say what is promised without any of this:
ContainerLifecycle has one action, `Move`; ReviewDecision has `Open` and `Vote`.

**FileStore.** `UploadBegin` (WIP check) ... `UploadPut` (object stored)
... `UploadCount` (revisions counted) ... `UploadInsert` (flush; the foreign key
holds the container `FOR KEY SHARE`) ... `UploadCommit`; `DeleteBegin`,
`DeleteFind`, `DeleteObject` (object gone), `DeleteCommit` (row gone). The
bucket is `object`, which `Rollback` does not restore. `*Unanswered` are calls
the bucket carried out whose answer was lost. `Transition` is the other side of
the WIP check: a committed move of the container.

**ShareRequests.** One `*Read` action for the read and the decision of a
handler, one `*Commit` for its UPDATE of the columns the handler assigned.
`List` is the lazy expiry of the listing. `issued` and `downloaded` are audit
entries, kept because the properties speak of them. LinkLife is the life of one
token as an outsider can observe it.

**NamingValidator, Identifiers.** `PartIdx` is the scan of `validate_identifier`
with its look-ahead, as a recursive function; `Judgement` is the reference,
which chooses among the sets of segments an identifier may have instead of
scanning. Words are records of what rules look at (text, length, class of
characters), `Split` is `str.split`. In `Identifiers`, `CreateResolve`
(rule read, name judged), `CreateCheck` (uniqueness) and `CreateCommit` are the
awaits of `create_container`; `PutRead/Flush/Commit` and `DeleteRead/Commit`
those of the rule's writers. `Changed` is the ORM's dirty check: an UPDATE names
only the columns that differ from what was read. A flushed write holds the row,
or its place in the unique index, until the commit (`HoldsRule`). `known` and
`put` are history variables.

**AuthTokens.** `revoked` is the table; the UNIQUE constraint makes a commit
fail (`Conflicts`) when another request has inserted the same jti since it was
looked up. `parent` (which pair was obtained with which refresh token), `closed`
(tokens a logout answered 204 for) and the job's `late` are history variables:
no guard reads them.

**BrowserSession.** One tab. `stored` is the pair in localStorage (the code
always sets and removes the two tokens together), `job[c]` what the closure of a
call holds: the token of its header, the body of a logout, the refresh token it
posted, `_retried`. `gone` marks calls of a document that was replaced: the
server still serves them, nobody receives the answer. Pairs that no message and
no storage names any more are drawn again, so sessions are unbounded. The
server's part abstracts AuthTokens: the check of the refresh token and the issue
of a pair are two steps, so two overlapping refreshes may both succeed.

**The pages.** Each of them has four variables: `ui` is what React keeps for the
page, `shown` the cached answers it renders, `calls` its calls in flight, `db`
the rows they are about. The actions are the handlers of the page (a setter, a
click that sends a call), the steps of a call (`Serve`: the route runs as one
step; `Lose`: no answer; `Succeeded`, `Failed`: the callbacks of `useMutation`),
`Remount` (leave the page and come back: `ui` starts again, a call that is still
on its way no longer reaches it), `Refresh` (the query is answered again, at any
time) and `Elsewhere` (other users). A call keeps `mounted`, whether the page
that made it is still there, and in the forms `form`, whether the form is. A
handler runs with what was rendered when it was clicked, a callback with what is
rendered when the answer arrives: `Succeeded` of ApprovalsPage names the task
that is active by then, `Succeeded` of UploadForm belongs to the segments and
the file of the click.

`Pages` puts them side by side: `page` is the page that is mounted, chosen in
`Init`, and the four variables are that page's. ContainerPages is followed three
times (`Followed`): with files and revisions, with share requests, and as the
list; UploadForm twice, once to submit and once to be judged.

- *RequirementsEditor.* `Render` is React's reconciliation: a form whose key is
  still rendered keeps its state, a new one loads the item of its row. Every
  change of the page or of the list goes through it (`Show`).
- *UploadForm.* `validateSegment` is the judgement of the form, `Server` the
  instance of NamingValidator with the default rule of the backend.
- *ContainerPages.* `listTransitions` and `transitions` are what the two pages
  offer, `Moves` what `transition_state` makes of a click.
- *NamingRuleEditor.* An edit starts from what the page shows; a closed one leaves
  its columns in the state of the page, and PUT replaces both columns as a whole.
  `opened` and `touched` are history: the rule an edit was opened on and the
  columns set since. The setters copy the arrays of the cached rule
  (`NamingRulesPage.tsx:276`), so that what aliasing could do is not in the model.
  `Elsewhere` stores any rule of one segment, or none.
- *RoleEditor.* The lock of the system roles is the page's own where permissions
  are concerned; the routes refuse only to change or delete such a role.
  `Elsewhere` is any call of any route by another client, so that it may change
  the permissions of a system role; `SystemRolesStand` is about the page's calls.
- *ProjectViews.* `Key` is the `queryKey` of the followed query; the list of the
  projects is any page of them, in any order, since the query has no ORDER BY.
- *QueryCache.* No page: per query its cached answer, whether it is stale, and
  the reads in flight, and per mutation the queries its `onSuccess` invalidates.
  A mutation is followed in every list in view of its page, those of the layout
  included. `missed` is history: the list lacks an announced change for one of
  two reasons, a read that was under way at the announcement and was kept (first
  answer not there yet, or page left), or a list in `Forgotten`, which the
  mutation changes and does not invalidate (revisions, badge).
  `OwnChangeIsFetched` excepts what is recorded there, and nothing else.

Definitions named `<Action>_<Fault>` next to an action are plausible bugs of
that action. Nothing uses them in the specifications; "mutants" in
`PROJECT.json` names the property each one breaks.

## 3. Runs

Passing runs (distinct states in parentheses):

| Run | Shows | Bounds |
|---|---|---|
| `reviews` (1.4 M) | `IndInv`, `StatusFollowsVotes`, `HistoryChain`, `ReturnsAreJustified`, and that the requests implement the lifecycle and the review | author and reviewer, 1 container, 1 workflow of at most 2 stages, 2 requests; no transition begins beyond 3 history rows |
| `requests_finish` (0.3 M) | `NoDeadlock`, and under fairness `RequestsFinish` | reviewer and platform admin, 2 workflows on 1 container, 2 requests |
| `files` (0.9 M) | `RowsFollowObjects`, `VersionsFollowTime` | 1 container, 3 files, 3 requests |
| `shares` (2.6 M) | `ApprovedIsWhole`, `LinksAreIssued`, and the refinement of LinkLife | 2 share requests, 2 tokens, 2 managers and a member, 2 HTTP requests, clock to 3 |
| `identifiers` (0.8 M) | `VerdictIsReference`, `DuplicatesOverlap`, `RuleStands`, `PutsTakeEffect` | 2 containers, 3 identifiers, 3 rules besides the default, 2 requests |
| `tokens` (1.2 M) | `LoggedOutStaysOut`, `ReplayIsRefused`, `RotatedIsSpent` | 2 pairs, 2 requests |
| `browser` (0.4 M) | under fairness `CallsEnd`, `DeadSessionEnds`; `CallsAdvance`, the measure behind `CallsEnd` | 2 calls, 2 pairs known at a time |
| `pages` (3.9 M) | the properties of the pages, one page at a time: `AnnouncedIsRecorded` (ApprovalsPage), `StoredAsSubmitted`, `DoneIsStored`, `OnlyTypesDiffer` (UploadForm), `EditKeepsItsItem` (RequirementsEditor), `UntouchedAsOpened` (NamingRuleEditor), `SystemRolesStand` (RoleEditor), `StaleClickKeepsItsWord` (ContainerPages), `ViewIsOfItsSelection` (ProjectViews), `OwnChangeIsFetched` (QueryCache) | below |

Why these bounds are enough for the question each run asks:

- `reviews`: a lost vote needs two approvers, that is two stages and two
  requests. The longest story the hazards name is submit, return by a rejection,
  submit again, return by a second rejection of the same review: transitions
  start up to three history rows, returns add theirs, so it happens.
- `requests_finish`: waiting in a circle needs two requests and the three kinds
  of row; two reviews of one container give the container row two owners besides
  the transition. The theorem `NoRequestsDeadlock` covers any number.
- `files`: the version question needs one upload before and one delete and one
  upload during another; three of each are there.
- `shares`: two handlers overwrite each other's row; a second share request
  shows that tokens are not confused between rows. The clock reaches the expiry
  of both lifetimes.
- `identifiers`: a duplicate needs two creations, a lost or mixed PUT two
  writers. The rules and identifiers make the scan skip both optional segments
  of the default rule, take and skip one before and after a required segment,
  and find too few parts.
- `tokens`: two requests on one pair, with the pair the first one obtains. Three
  pairs exceed what TLC can enumerate with two requests.
- `pages`: the mounted page shares nothing with the others but the cache, so
  Pages runs them side by side, one per behaviour. `MaxCalls` = 1 call in
  flight, since what goes wrong on these pages goes wrong between one call and the clicks,
  answers and other users that overtake it; the two modules in which calls
  overtake each other (the two calls of an upload with those of an earlier visit,
  the reads of a cached query) have `MaxOverlap` = 2. Two tasks, documents,
  items, projects and containers (one shown, one that takes its place), pages
  of one row, one number for two items. The page of a container runs once with
  files and revisions and once with share requests, which only share the container;
  the cache follows the lists that their own page changes, the forgotten ones
  included, and the badge, which is
  read at intervals. A naming rule has one segment at most and one of two
  separators, so that two edits, two answers and two managers can differ in each
  column. The naming values of `JudgeInput` match and miss
  every pattern of the form, with and without a hyphen in them; `MaxRows` = 2
  containers created by the form. The theorems cover any number.
- `browser`: one call refreshes while the other is refused, answered late or
  abandoned. Two known pairs suffice because pairs are drawn again.

Bounds that are guards of the models: `MaxHistory` (`TransitionBegin`),
`MaxStages` (length of an assignee list), `MaxTime` (`Tick` and the approval's
expiry in ShareRequests), `MaxCalls` (every action of a page that sends a call),
`MaxRows` (`ServeCreate`), `PageSize` (20 in the code), `MaxSegments`, and the
finite sets `File`, `Token`, `Pair`.

**Fairness.** Only what the server or the browser does by itself is fair, never
a user, a crash or the expiry of a token.
`ApprovalWorkflow`: `SF_vars(Proceed(r))` for each request: the event loop
resumes every coroutine whose await is over, and PostgreSQL queues the waiters
of a row lock, so a waiter that could go again and again does go; weak fairness
would let others take the lock for ever. `BrowserSession`: `WF_vars(Proceed(c))`
for each call: a request is answered or fails, and the tab runs its callbacks.
The pages have no fairness: what they promise is safety, and that a call of
theirs ends is the business of BrowserSession.

Each run checks one type invariant per module and otherwise properties that take
several steps of several actors to break. Deadlock is checked in every run.

## 4. Proofs

Eight modules `*_proofs` are checked by tlapm to the last leaf, from the named
assumptions on the constants alone: `None` is none of the values it stands in for,
and no token pair is one of the other answers of a call (`NoneAssumption`), bounds are natural numbers (`BoundsAssumption`,
`TimeAssumption`), lifetimes of links and tasks are positive numbers
(`TimeAssumption`, `TaskAssumption`), managers are users (`ManagerAssumption`),
the inputs of the handlers are among the values of the model (`UsersAssumption`,
`InputsAssumption`, `BodyAssumption`), and words have the shape that the
validator looks at (`WordAssumption`, `SplitAssumption`). Pages adds what its pages
start from: the values that can be entered are words, and the texts that the
form lists (codes, roles, the fixed values) have the length and class they have
in the code (`UploadAssumption`); a rule that may be edited has at most
`MaxSegments` segments and an edit has a name for each one it adds
(`RuleAssumption`); the system roles are roles (`RoleAssumption`). The theorems hold
for any number of users, containers, workflows, requests, files, tokens, stages, history
rows, calls in flight, and rows of a cached page.

| Theorem | States |
|---|---|
| `LockedRowsAreStable` | `Spec => []IndInv` |
| `TypeCorrect`, `StatusIsAggregate` | `TypeOK`, `StatusFollowsVotes`, parts of `IndInv` |
| `HistoryIsChain` | `Spec => []HistoryChain` |
| `LifecycleImplemented` | `Spec => Lifecycle!Spec` |
| `ReviewImplemented` | `Spec => Review!Spec` |
| `NoRequestsDeadlock` | `Spec => []NoDeadlock` |
| `RowsNeverOutrunObjects` | `Spec => []RowsFollowObjects` (FileStore) |
| `VersionsIncrease` | `Spec => []VersionsFollowTime` (FileStore) |
| `FilesTyped`, `IdentifiersTyped` | `Spec => []TypeOK` (FileStore, Identifiers) |
| `DuplicatesOnlyOverlap` | `Spec => []DuplicatesOverlap` (Identifiers) |
| `FlushedRuleStands` | `Spec => []RuleStands` (Identifiers) |
| `VerdictsAreRight` | `Spec => VerdictIsReference` (Identifiers), an action property |
| `PutsAreNotLost` | `Spec => PutsTakeEffect` (Identifiers), an action property |
| `ReturnsComeFromVotes` | `Spec => []ReturnsAreJustified` (ApprovalWorkflow) |
| `SharesAreConsistent`, `TypesHold`, `ApprovalsAreWhole`, `EveryLinkIsIssued` | `Spec => []IndInv`, and its parts `TypeOK`, `ApprovedIsWhole`, `LinksAreIssued` (ShareRequests) |
| `LinksLiveOnce` | `Spec => Links!Spec`: ShareRequests implements LinkLife |
| `TokensAreConsistent`, `TypesHold`, `LogoutCloses`, `RotationSpends` | `Spec => []IndInv`, and its parts `TypeOK`, `LoggedOutStaysOut`, `RotatedIsSpent` (AuthTokens) |
| `ReplaysAreRefused` | `Spec => []ReplayIsRefused` (AuthTokens) |
| `CallsAreConsistent`, `SessionTyped` | `Spec => []IndInv`, `Spec => []TypeOK` (BrowserSession) |
| `EveryStepAdvances` | `Spec => CallsAdvance`, an action property (BrowserSession) |
| `DeadSessionsStayNoticed` | `Spec => NoticedUntilOver`, an action property: the step behind `DeadSessionEnds` (BrowserSession) |
| `SubmissionsKeepTheirFile`, `FilesAreAsSubmitted`, `DoneMeansStored` | `Spec => []SubmissionsInv`, `[]StoredAsSubmitted`, `[]DoneIsStored` (upload) |
| `FormKeepsItsPromise` | `Spec => []OnlyTypesDiffer` (upload, and the naming form alone) |
| `FormsStayWithTheirRows`, `EditsKeepTheirItem` | `Spec => []EditsInv`, `[]EditKeepsItsItem` (requirements) |
| `RolesAreUnlocked`, `SystemRolesNeverChange` | `Spec => []UnlockedInv`, `Spec => SystemRolesStand`, an action property (roles) |
| `MovesAreOffered`, `ClicksKeepTheirWord` | `Spec => []ContainersInv`, `[]StaleClickKeepsItsWord` (containers) |
| `AnswersAreKeyed`, `FiguresAreOfTheirProject` | `Spec => []FiguresInv`, `[]ViewIsOfItsSelection` (figures of a project) |
| `DecisionsAreRecorded`, `ToastsAreTrue` | `Spec => []DecisionsInv`, `[]AnnouncedIsRecorded` (approvals) |
| `SavesStartFromWhatWasShown` | `Spec => []UntouchedAsOpened` (naming rules) |
| `KeptReadsAreRecorded`, `OwnChangesAreFetched` | `Spec => []ListsInv`, `[]OwnChangeIsFetched` (cache) |
| `PagesAreTyped` | `Spec => []PagesTypeOK` (every page) |

The theorems of the last ten rows are about `Pages!Spec`, the specification that
the run `pages` checks: which page is mounted never changes, so that the
invariant of a page is an invariant of `Pages` under `page = ...`.

*The argument for ApprovalWorkflow.* `StatusFollowsVotes` is not inductive: the
commit of an act writes a decision that was computed two awaits earlier. `IndInv`
adds what a coroutine relies on in between (`JobInv`): at `act.commit` the
decision is the outcome of the votes with its own vote put in, at
`transition.commit` the state it read is still the current one, at
`act.container` the review has a rejection. These survive the steps of other
requests because the rows they speak of are locked; `LocksExclude` (a row has one
holder) is what makes "another request" unable to write them, and is itself an
invariant because every lock action waits for the row to be free. The proof goes
action by action; `HistoryChain` then follows with `IndInv`, and the two
refinements map `TransitionCommit` and `ActCommit` to `Move` and `Vote` and
every other action to a stutter. `NoDeadlock`: a request that waits for a
container waits for one that waits for nothing, one that waits for an approval
is excluded by the workflow lock, one that waits for a workflow waits for a
later phase; a set of requests all waiting inside the set is impossible.

*The argument for FileStore.* `RowsFollowObjects` needs that an upload that
still has to commit has its object in the bucket, or deleted since, and that a
delete acts on a file of the container (`JobInv`); `VersionsFollowTime` needs
that every number is at most its position, and that a job's number is greater
than every number committed before it began (`NumbersBounded`): the count of
revisions never shrinks, because a delete removes files and leaves revisions.

*The argument for Identifiers.* `DuplicatesOverlap` needs that what a creation
knew when it began still exists, that none of it has its identifier once the
check has passed, and that a row knows only rows that were there before it
(`KnownExist`): the check looks at a superset of what was known, and rows are
never removed or renamed. `RuleStands` needs `OneHolder`: one request at a time
holds the rule. `PutsTakeEffect` needs both and a record (`Recorded`): while a PUT
is under way, each column of the rule is as it read it or as another PUT stored it
since, and the rule is gone only if it was not there or another request deleted
it since. A PUT sends the columns that differ from what it read; of the others the record
says whose value is there.

*The argument for the validator.* `VerdictIsReference` compares the scan with its
look-ahead (`PartIdx`, a function of the segment) with the set of segments that the
reference chooses (`BestReading`). `Scans` is the recursion of the scan as an equation,
for which a solution exists (`ScanExists`), so that its definition by CHOOSE can be
used. An identifier with fewer parts than the rule requires is refused by both. With
enough of them the scan always keeps a part for every required segment ahead and takes
each of those (`ScanLeavesEnough`), and once it has skipped an optional segment it skips
all the others (`ScanSkipsTheRest`). What it has taken is therefore a reading
(`TakenIsReading`), and any other one uses fewer parts or takes its first different
segment later (`TakenComesFirst`): it is the best reading, and there is only one. The place of the k-th part is then the same in both (`ScanCounts`), and so are the issues. The
induction theorems of the library take an operator as a parameter, so the inductions
go over the set of the numbers of which the claim holds (`StepByStep`), by its
least missing number (`WFMin`).

*The argument for the returns.* `ReturnsAreJustified` counts: a review has returned
its container at most as often as it has votes. Its invariant (`ReturnInv`) adds
that the returns are finitely many, so that they can be counted; each `ActCommit`
adds one vote that was not there (by `IndInv` the approval it has locked is still
undecided) and at most one return, and a new review has neither.

*The argument for ShareRequests.* An approval holds its token between the read and
the commit. `JobInv` says that nobody has issued this token and no other approval
in flight holds it; the commit therefore writes token, expiry and approver that
belong together over whatever is in the row, which makes `ApprovedIsWhole`
inductive although no handler locks. For LinkLife, a token's age never falls
(`NeverRevives`, `Growing`): only an approval makes a link live, and it does so
with a token that was never issued.

*The argument for AuthTokens.* The tables only grow (`Grows`). `Agrees` says what a
request at each await knows of its token: that it is revoked or expired (`Spent`),
or among the rows the request is about to insert. A commit that meets a row of its
own jti fails as a whole and answers nothing, so that whatever is answered is in
the table, and stays there.

*The argument for BrowserSession.* `CallsEnd` needs fairness and stays with TLC;
what it rests on is a measure. `Left` counts what may still happen to a call:
sent, answered, refreshed in three awaits, sent and answered again, with a loss
of the answer at any of them. `EveryStepAdvances` proves that every step
of a call lowers it, with `RefreshedOnce` (a call that refreshes carries
`_retried`) as the invariant: without it the loop of 401 and refresh would be
endless. `DeadSessionEnds` rests on a second fact: a page that has noticed that its
pair is dead goes on noticing it until the pair is gone (`DeadSessionsStayNoticed`).
Its invariant is `RefreshHeld`: a call keeps the refresh token that it has posted, and
is answered a different pair; and no pair that the tab or a message knows of is issued
again (`DeadStaysDead`).

*The arguments for the pages.* Each property speaks of what is shown or stored;
the invariant adds what the calls in flight carry. UploadForm: a submission past
its first call names a container that it has created and whose `submitted` is
its own file, so that its second call can store nothing else; rows are never
removed. RequirementsEditor: there is a form for each row in edit mode, and it
was loaded from that row (`FormsInv`; `RequirementsRenderLoads` is the step React
takes), so
that a call to an item carries what was loaded from it. RoleEditor: no open
dialog and no call is about a system role, however old the roles are that a
click was taken from. ContainerPages: a call carries a move that is offered for
the state that was shown; `ContainersOfferedMoves` compares the table of the pages with
that of the server, entry by entry. ProjectViews: under every key of the cache,
and with every answer on its way, is what that key names; what is current is
shown only from under its own key.
ApprovalsPage: a call that was answered "ok" has decided its task (`OkIsRecorded`),
and a decided task is not decided again, by anybody, so that the toast may come
as late as it likes. NamingRuleEditor: the property is inductive with the types,
because it speaks of the open edit and of the calls alike: a call keeps the edit
it was sent from, and an edit starts from `src` in both columns, not from what the
last one left. QueryCache: a read
under way that lacks an announced change is recorded as missed (`LateIsMissed`);
`CacheTables` compares, mutation by mutation, what changes in view with what is
invalidated, and the two lists where they differ, `Forgotten`, are recorded, too
(`CacheForget`). RoleEditor's `Elsewhere` keeps the invariant, since no route takes a
system role away, and is the one step that may change its permissions.

*The argument for the two judges.* `OnlyTypesDiffer` says that the form and the server
agree but for the list of types. Whatever is entered, the segments are sequences of
words, and the project is the code that the page starts with (`SegmentsInv`). A segment that passes the pattern of the form is one word, so
joining the seven and splitting them at the separator returns seven parts in the same
order (`SevenParts`; a value with a hyphen would give more, and no pattern lets it
pass). The default rule takes from seven parts one for each of its segments
(`AnnexTakesSeven`), and `PassingFits` compares the two tables entry by entry: what
the pattern of a segment lets pass, the segment of the server has no issue with. The
exception is needed at `Type` only.

*The types of the pages.* The type of a page needs the invariant of that page: a
callback that reads a form needs that there is one (`FormsInv`), a move needs that it
was offered, a stored identifier that its segments were words. `ShowTypes` and
`FormTypesInv` are the types, page by page, on top of those invariants (where the
type of a page holds by itself, as it does for the cache, its invariant includes it);
`PagesAreTyped` puts them together. Three definitions had `CASE` arms that
overlapped, of which TLC takes the first while the language may take any; the proof
of the types showed them, and they are exclusive now, in the order of the code
(`Effects` of RoleEditor, `Succeeded` of ContainerPages and RequirementsEditor).

*Model-checked only.* The liveness properties `RequestsFinish`, `CallsEnd` and
`DeadSessionEnds`: fairness and ENABLED are out of the prover's reach. Every
invariant and every other action property of the passing runs is stated by a
theorem. What the theorems do not reach is the code behind the external definitions,
and what section 6 lists.

## 5. Findings

Four runs check one statement of the documentation or of a comment each and find
it violated:

| Run | Statement | What the code does |
|---|---|---|
| `wip_update` | `containers.py:607` "Only WIP containers can be updated" | the check is made on a plain read; a transition in between is overlooked |
| `version_codes` | README, line 92: every upload is a version of its own | overlapping uploads count the same revisions |
| `identifiers_unique` | `test_containers.py:648` "Duplicate identifiers within a project must be rejected." | two creations that overlap both find none; later ones fail with a server error |
| `browser_logout` | ARCHITECTURE, line 104: logout revokes both tokens | a refused logout is refreshed and repeated with the old refresh token |

Seen while modelling and not given a run of its own: uploads and deletes make
the WIP check of `wip_update` in the same way (`uploads.py:180`, `:348`);
approve and reject of a share request check `pending` on a plain read and
replace a revocation or another decision committed in between
(`share_requests.py:249`); the approve transition needs no completed review
(`containers.py:57`), which the detailed spec, line 188, asks for, and submit no
valid name (line 187); two overlapping PUTs of a naming rule can store the
separator of one with the segments of the other (`naming_rules.py:132`); parts of
an identifier beyond the last segment are not looked at;
nothing compensates the bucket when a transaction fails, which leaves objects
without rows (`uploads.py:216`) and rows without objects (`:372`) although the
detailed spec, line 246, speaks of a rollback; `VALID_TRANSITIONS` has
Published to WIP (`revise`), which the state table of ARCHITECTURE, line 87,
does not. Two overlapping refreshes with one token both get a pair
(`auth.py:277` looks the jti up, the commit that would refuse it may come from
another jti); two password changes both prove the same current password
(`auth.py:367`); a workflow that is decided stays open to votes, and a rejection
that comes late returns a container that was resubmitted since
(`workflows.py:394`); a user in two organizations cannot create a project
(`projects.py:84`); the status of a task never follows (`workflows.py:256`), and
the report of the delays asks for approvals of workflows that are `pending`, a
status that is never assigned (`reports.py:169`).

On the pages: the answer to a call closes the editor or dialog that is open by
then, which may be a later one (`RequirementsPage.tsx:428`,
`NamingRulesPage.tsx:255`, the dialogs of `RBACPage.tsx`); a failed read of the
naming rule lets the user edit the default and store it over the rule
(`NamingRulesPage.tsx:269`); a save of one column writes the other as it was when
the edit was opened, over what another manager has stored since (`:354`), and a
segment that is added after a removal can get a key that is there already
(`:280`); the upload form goes on to say "failed" when only its
second call did, and the retry meets the container of the first with a 409
(`UploadPage.tsx:113`); the done page shows the identifier the segments have by
then (`:136`); the form allows three information types that the default rule
refuses (`:19`, `naming_validator.py:112`); the toast of an approval can name the
task that is active by then (`ApprovalsPage.tsx:57`), and the button that says
publish records an approval and publishes nothing; a report that failed, or was
refused for a threshold of zero, reads as if nothing were found
(`ReportsPage.tsx`); dashboard and reports take the first of an unordered list
of projects, which can change under them; a container beyond the first page is
"not found" on its own page; deleting a file leaves the revisions, and reading a
notification the badge, until they are stale. `cde.ts:4` calls its table a
mirror of the server's; it lacks `return`, `revise` and archiving from Shared.

## 6. What is not modelled

- What reads return beyond what a page decides on (search, the counts of the
  reports, the content of a diff), wording, layouts. Pagination is in the models
  where it hides a row: a cached list is any page of the rows.
- The password form and the preferences (`SettingsPage.tsx`), the tables of the
  audit log and the notifications: a read and, for the notifications, the two
  marks, which QueryCache has. The demonstration data and the router that serves
  it (`designData.ts`, `mockRouter.ts`): constants for a build without a backend.
- Notifications, mail and audit entries, except where a property needs one.
- The content of files: types, extensions, checksums, the scanner's protocol;
  to the models an upload is refused or not.
- Token signatures and hashes: a token is its identity and its kind.
- Several tabs of one browser, the demo mode, OIDC logins, and the copy of the
  user that zustand persists (a page opened from it without tokens is refused
  at its first call).
- Administration and rate limiting; giving roles to users: planned, below.
- Liveness of the pages, and two tabs on one cache: there is one cache per tab.
- Migrations, deployment: no behaviour of the running system.

## 7. Plan

Done, in order of importance: A. ApprovalWorkflow with its two abstract
specifications and proofs; B. FileStore with proofs; C. ShareRequests and
LinkLife; D. AuthTokens; E. BrowserSession; F. NamingValidator and Identifiers
with proofs; G. the pages
of the frontend and the query cache under them; H. proofs for ShareRequests with
its refinement, AuthTokens, BrowserSession, and every page, with the validator, the
agreement of form and server, and the types of the pages.

Next:

1. *AdminUsers* (`admin.py`): flags and memberships of two admins; whether a
   platform admin is left ("Prevent the last platform admin from locking the
   platform out").
2. *RateLimiter* (`ratelimit.py`): the memory window, the Redis window that
   counts refused attempts, the fallback; attempts allowed per window.
3. *Rbac*: users and their roles, the constant `Permission` of ApprovalWorkflow
   as its abstraction; RoleEditor has the roles and their permissions.
4. The notifications with their counters, and the password form.
