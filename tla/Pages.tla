-------------------------------- MODULE Pages ---------------------------------
(***************************************************************************)
(* The pages of the browser.  The single-page application mounts one page  *)
(* at a time, and the pages share no state but the query cache, so that    *)
(* each of them is followed on its own: page says which, once and for all, *)
(* and the four variables are that page's.                                 *)
(***************************************************************************)
EXTENDS Integers, Sequences

CONSTANTS
  MaxCalls,     \* bound: calls in flight of one page
  MaxOverlap,   \* the same, of the upload form and of the cache
  MaxRows,      \* bound: containers that the upload form creates
  Task, ProjectOf,
  Text, Word, InitialSegments, UploadFile,
  SubmitInput,  \* values of the segments of a form that is submitted
  JudgeInput,   \* values of one that is only judged
  Doc, Item, No,
  Separator, SegmentKey, NewKey, DEFAULT_SEGMENTS, ServerDefault, MaxSegments,
  Role, System, OrgOf, Permission, Name, Blank,
  Watched,
  Container, Request, File, Revision, PageSize,
  ListedContainer,  \* the containers of the list; those of the page of one are Container
  Project, Typed

\* The queue of the approver is an order; 0 stands for no task.
ASSUME TaskAssumption == Task \subseteq Nat \ {0}

VARIABLES page, ui, shown, calls, db

vars == <<page, ui, shown, calls, db>>

-----------------------------------------------------------------------------
(* The pages.                                                              *)

Approvals == INSTANCE ApprovalsPage

Upload == INSTANCE UploadForm
  WITH Default <- InitialSegments, Input <- SubmitInput, File <- UploadFile,
       MaxCalls <- MaxOverlap

\* The same form, with every kind of value and nothing to send.
Builder == INSTANCE UploadForm
  WITH Default <- InitialSegments, Input <- JudgeInput, File <- {}

\* Values are words.  A text that the form lists says how long the word is and
\* of which class, and the project is a three-character code.
ASSUME UploadAssumption ==
  /\ MaxRows \in Nat
  /\ Word \subseteq [text : Text, length : Nat, chars : {"upper", "digit", "alnum", "other"}]
  /\ \A w \in Word :
       /\ w.text \in Upload!allowed.Type \cup {"B#", "XX", "ZZ"} =>
            w.length = 2 /\ w.chars \in {"upper", "digit", "alnum"}
       /\ w.text \in Upload!allowed.Role => w.length = 1 /\ w.chars = "upper"
  /\ InitialSegments \in [Upload!Key -> Seq(Word)]
  /\ \A k \in Upload!Key :
       SubmitInput[k] \in SUBSET Seq(Word) /\ JudgeInput[k] \in SUBSET Seq(Word)
  /\ Upload!OneWord(InitialSegments["Project"], 3, {"upper", "digit", "alnum"})

Requirements == INSTANCE RequirementsEditor

NamingRules == INSTANCE NamingRuleEditor WITH Key <- SegmentKey

\* A default rule is one that may be edited, and there is a name for every
\* segment that an edit adds.
ASSUME RuleAssumption ==
  /\ {NewKey, DEFAULT_SEGMENTS, ServerDefault} \subseteq Seq(STRING)
  /\ MaxSegments \in Nat \ {0} /\ MaxSegments <= Len(NewKey)
  /\ Len(DEFAULT_SEGMENTS) <= MaxSegments /\ Len(ServerDefault) <= MaxSegments

Roles == INSTANCE RoleEditor

\* The system roles are roles.
ASSUME RoleAssumption == System \subseteq Role

\* The lists that are followed, one at a time.
Cache == INSTANCE QueryCache WITH MaxCalls <- MaxOverlap

\* A container with its files and revisions, one with its share requests, and
\* the list, which shows some of the containers.
Containers(about) == INSTANCE ContainerPages
  WITH Container <- about.containers, Request <- about.requests, File <- about.files,
       Revision <- about.revisions

Followed ==
  [detail |-> [containers |-> Container, requests |-> {}, files |-> File, revisions |-> Revision],
   shares |-> [containers |-> Container, requests |-> Request, files |-> {}, revisions |-> {}],
   list |-> [containers |-> ListedContainer, requests |-> {}, files |-> {}, revisions |-> {}]]

Views == INSTANCE ProjectViews

Absent == "absent"

Init ==
  \/ page = "approvals" /\ Approvals!Init
  \/ page = "upload" /\ Upload!Init /\ shown = Absent
  \/ page = "builder" /\ Builder!Init /\ shown = Absent
  \/ page = "requirements" /\ Requirements!Init
  \/ page = "namingRules" /\ NamingRules!Init
  \/ page = "roles" /\ Roles!Init
  \/ page = "cache" /\ Cache!Init /\ db = Absent
  \/ \E p \in DOMAIN Followed : page = p /\ Containers(Followed[p])!Init
  \/ page = "views" /\ Views!Init

Next ==
  /\ UNCHANGED page
  /\ \/ page = "approvals" /\ Approvals!Next
     \/ page = "upload" /\ Upload!Next /\ UNCHANGED shown
     \/ page = "builder" /\ Builder!Next /\ UNCHANGED shown
     \/ page = "requirements" /\ Requirements!Next
     \/ page = "namingRules" /\ NamingRules!Next
     \/ page = "roles" /\ Roles!Next
     \/ page = "cache" /\ Cache!Next /\ UNCHANGED db
     \/ \E p \in DOMAIN Followed : page = p /\ Containers(Followed[p])!Next
     \/ page = "views" /\ Views!Next

Spec == Init /\ [][Next]_vars

-----------------------------------------------------------------------------
(* The properties of the pages.                                            *)

\* The variables of every page have their types.
PagesTypeOK ==
  /\ page = "approvals" => Approvals!TypeOK
  /\ page = "upload" => Upload!TypeOK
  /\ page = "builder" => Builder!TypeOK
  /\ page = "requirements" => Requirements!TypeOK
  /\ page = "namingRules" => NamingRules!TypeOK
  /\ page = "roles" => Roles!TypeOK
  /\ page = "cache" => Cache!TypeOK
  /\ \A p \in DOMAIN Followed : page = p => Containers(Followed[p])!TypeOK
  /\ page = "views" => Views!TypeOK

\* What the toast of the approver announces is what the database holds,
\* whoever else decides the task and however old the queue is.
AnnouncedIsRecorded == page = "approvals" => Approvals!AnnouncedIsRecorded

\* However the upload form is edited while its two calls run, a container holds
\* the file that the form had when its identifier was submitted.
StoredAsSubmitted == page = "upload" => Upload!StoredAsSubmitted

\* The upload page says that it is done only when both calls did their part.
DoneIsStored == page = "upload" => Upload!DoneIsStored

\* What the upload form calls conforming, the default rule of the server does,
\* too, up to the list of information types.
OnlyTypesDiffer == page \in {"upload", "builder"} => Upload!OnlyTypesDiffer

\* A form of the requirements page is submitted to the item it was loaded from.
EditKeepsItsItem == page = "requirements" => Requirements!EditKeepsItsItem

\* A save of the naming rule sends, in the columns the user did not touch, what
\* the page showed when the edit was opened, whatever earlier edits left behind
\* and whatever was read again or stored by others meanwhile.
UntouchedAsOpened == page = "namingRules" => NamingRules!UntouchedAsOpened

\* No sequence of clicks, answers and refreshes of the roles page changes a system
\* role; a call that another client makes of the routes can.
SystemRolesStand ==
  [][page = "roles" => Roles!Elsewhere \/ \A r \in System : db'[r] = db[r]]_vars

\* A list that lacks a change its user was told of is stale, but for a read that
\* was kept although it came too early, and for the lists a mutation forgets.
OwnChangeIsFetched == page = "cache" => Cache!OwnChangeIsFetched

\* What a click moved went where the button said.
StaleClickKeepsItsWord ==
  \A p \in DOMAIN Followed : page = p => Containers(Followed[p])!StaleClickKeepsItsWord

\* The figures of a page are those of the project, and of the threshold, that
\* the page names.
ViewIsOfItsSelection == page = "views" => Views!ViewIsOfItsSelection
==============================================================================
