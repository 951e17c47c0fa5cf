---------------------------- MODULE ContainerPages ---------------------------
(***************************************************************************)
(* The list of a project's containers and the page of one of them.  Both   *)
(* offer moves, deletions and decisions from a cached state that others    *)
(* change meanwhile; the page of a container finds it in the first answer  *)
(* of the list, which holds a part of them in no particular order.         *)
(***************************************************************************)
EXTENDS Naturals, FiniteSets, CdeStates

CONSTANTS
  Container,
  Request,   \* share requests of a container, those still to be created included
  File,      \* its files
  Revision,  \* its revisions, which the two selects of the comparison list
  PageSize,  \* containers of one answer: 20 in the code
  MaxCalls   \* bound: mutations in flight at the same time

VARIABLES
  ui,     \* the list: stateFilter, showForm, previewId; the page of id: diff, shareError
  shown,  \* containers: the cached answers of the list; requests and files of id
  calls,  \* mutations in flight
  db      \* state of each container, status of each share request, files

vars == <<ui, shown, calls, db>>

None == "none"
All == "all"
NoPair == [from |-> None, to |-> None]
List == [id |-> None, stateFilter |-> All, showForm |-> FALSE, previewId |-> None,
         diff |-> NoPair, shareError |-> FALSE]
Detail(c) == [List EXCEPT !.id = c]

onList == ui.id = None

-----------------------------------------------------------------------------
(* What the pages offer.                                                   *)

Offer(action, to) == [action |-> action, to |-> to]

\* ContainersPage: one button per row.
listTransitions(state) ==
  CASE state = "WIP" -> {Offer("submit", "Shared")}
    [] state = "Shared" -> {Offer("approve", "Published")}
    [] state = "Published" -> {Offer("archive", "Archived")}
    [] OTHER -> {}

\* ContainerDetailPage: revise, and archive from Shared, are offered nowhere.
transitions(state) ==
  listTransitions(state) \cup { o \in {Offer("return", "WIP")} : state = "Shared" }

Cached == DOMAIN shown.containers

Rows == { c \in Cached : ui.stateFilter \in {All, shown.containers[c]} }

previewContainer == ui.previewId \in Rows

\* The container the page is about; without it there is only a message.
found == ~onList /\ ui.id \in Cached

-----------------------------------------------------------------------------
(* The list.                                                               *)

SetUi(u) == ui' = u /\ UNCHANGED <<shown, calls, db>>

SetStateFilter(f) == onList /\ SetUi([ui EXCEPT !.stateFilter = f])

TogglePreview(c) ==
  onList /\ c \in Rows /\ SetUi([ui EXCEPT !.previewId = IF @ = c THEN None ELSE c])

SetShowForm(show) == onList /\ SetUi([ui EXCEPT !.showForm = show])

isPending(kind) == \E c \in calls : c.mounted /\ c.kind = kind

Mutate(kind, id, arg, offer) ==
  /\ ~isPending(kind)
  /\ Cardinality(calls) < MaxCalls
  /\ calls' = calls \cup {[kind |-> kind, id |-> id, arg |-> arg, offer |-> offer,
                           seen |-> IF id \in Cached THEN shown.containers[id] ELSE None,
                           from |-> None, state |-> "sent", mounted |-> TRUE]}

NoOffer == Offer(None, None)

Create == onList /\ ui.showForm /\ Mutate("create", None, None, NoOffer) /\ UNCHANGED <<ui, shown, db>>

\* Another page is mounted; a mutation's own callbacks still run.
Leave(u) ==
  /\ ui' = u
  /\ calls' = { [c EXCEPT !.mounted = FALSE] : c \in calls }
  /\ UNCHANGED db

OpenDetail ==
  /\ onList /\ previewContainer
  /\ Leave(Detail(ui.previewId))
  /\ shown' = [shown EXCEPT !.requests = [r \in {} |-> None], !.files = {}]

BackToList == ~onList /\ Leave(List) /\ UNCHANGED shown

Transition ==
  /\ \E c \in IF onList THEN Rows ELSE {ui.id} \cap Cached :
       \E o \in IF onList THEN listTransitions(shown.containers[c])
                ELSE transitions(shown.containers[c]) :
         Mutate("transition", c, None, o)
  /\ UNCHANGED <<ui, shown, db>>

-----------------------------------------------------------------------------
(* The page of a container.                                                *)

DeleteFile(f) ==
  /\ found /\ shown.containers[ui.id] = "WIP" /\ f \in shown.files
  /\ Mutate("deleteFile", ui.id, f, NoOffer)
  /\ UNCHANGED <<ui, shown, db>>

\* The revisions that the two selects name; the old result is cleared here,
\* not when a select changes.
Compare(from, to) ==
  /\ found /\ from # to
  /\ Mutate("diff", ui.id, [from |-> from, to |-> to], NoOffer)
  /\ ui' = [ui EXCEPT !.diff = NoPair]
  /\ UNCHANGED <<shown, db>>

ShareCreate == found /\ Mutate("shareCreate", ui.id, None, NoOffer) /\ UNCHANGED <<ui, shown, db>>

\* approve and reject of a pending request, revoke of a pending or approved one.
Offered(status) ==
  { k \in {"approved", "rejected"} : status = "pending" }
  \cup { k \in {"revoked"} : status \in {"pending", "approved"} }

ShareAct(r, kind) ==
  /\ found /\ r \in DOMAIN shown.requests /\ kind \in Offered(shown.requests[r])
  /\ Mutate(kind, ui.id, r, NoOffer)
  /\ UNCHANGED <<ui, shown, db>>

-----------------------------------------------------------------------------
(* The answers.                                                            *)

\* Faulty: the server goes to the state the client names.
Moves_ByTarget(from, offer) == { t \in VALID_TRANSITIONS : t.to = offer.to }

\* transition_state looks up the state it finds and the action, and compares
\* the result with the target the client declares.
Moves(from, offer) ==
  { t \in VALID_TRANSITIONS : t.from = from /\ t.action = offer.action /\ t.to = offer.to }

Live(c) == db.state[c] # None
Of(c) == { r \in Request : db.requests[r].of = c }

Effects(c) ==
  CASE c.kind = "create" -> { [db EXCEPT !.state[n] = "WIP"] : n \in { m \in Container : ~Live(m) } }
    [] c.kind = "transition" -> { [db EXCEPT !.state[c.id] = t.to] : t \in Moves(db.state[c.id], c.offer) }
    [] c.kind = "deleteFile" ->
         { [db EXCEPT !.files[c.id] = @ \ {f}] :
             f \in { g \in db.files[c.id] : g = c.arg /\ db.state[c.id] = "WIP" } }
    [] c.kind = "diff" -> {db}
    [] c.kind = "shareCreate" ->
         { [db EXCEPT !.requests[r] = [of |-> c.id, status |-> "pending"]] : r \in Of(None) }
    [] OTHER -> { [db EXCEPT !.requests[r].status = c.kind] :
                    r \in { q \in {c.arg} : c.kind \in Offered(db.requests[q].status) } }

Settle(c, state) ==
  calls' = (calls \ {c}) \cup
    {[c EXCEPT !.state = state, !.from = IF c.kind = "transition" THEN db.state[c.id] ELSE None]}

Serve(c) ==
  /\ c.state = "sent"
  /\ \/ db' \in Effects(c) /\ Settle(c, "ok")
     \/ UNCHANGED db /\ Settle(c, "failed")
  /\ UNCHANGED <<ui, shown>>

Succeeded(c) ==
  /\ c.state = "ok"
  /\ calls' = calls \ {c}
  /\ ui' = CASE c.mounted /\ c.kind = "create" -> [ui EXCEPT !.showForm = FALSE]
             [] c.mounted /\ c.kind = "diff" -> [ui EXCEPT !.diff = c.arg]
             [] c.mounted /\ c.kind = "shareCreate" -> [ui EXCEPT !.shareError = FALSE]
             [] OTHER -> ui
  /\ UNCHANGED <<shown, db>>

\* Only the share requests have an onError, and only a creation clears it.
Failed(c) ==
  /\ c.state = "failed" \/ (c.state = "ok" /\ c.kind # "diff")
  /\ calls' = calls \ {c}
  /\ ui' = IF c.mounted /\ c.kind \in {"shareCreate", "approved", "rejected", "revoked"}
           THEN [ui EXCEPT !.shareError = TRUE] ELSE ui
  /\ UNCHANGED <<shown, db>>

\* GET containers: the first page of what there is, unordered.
RefreshList ==
  /\ \E page \in SUBSET { c \in Container : Live(c) } :
       /\ Cardinality(page) <= PageSize
       /\ Cardinality(page) = PageSize \/ page = { c \in Container : Live(c) }
       /\ shown' = [shown EXCEPT !.containers = [c \in page |-> db.state[c]]]
  /\ UNCHANGED <<ui, calls, db>>

RefreshDetail ==
  /\ ~onList
  /\ shown' = [shown EXCEPT !.requests = [r \in Of(ui.id) |-> db.requests[r].status],
                            !.files = db.files[ui.id]]
  /\ UNCHANGED <<ui, calls, db>>

\* Everybody else: moves, share requests and files of the containers.
Elsewhere ==
  /\ \/ \E t \in VALID_TRANSITIONS, c \in Container :
          db.state[c] = t.from /\ db' = [db EXCEPT !.state[c] = t.to]
     \/ \E r \in Request \ Of(None) : \E kind \in Offered(db.requests[r].status) :
          db' = [db EXCEPT !.requests[r].status = kind]
     \/ \E c \in Container, f \in File :
          db.state[c] = "WIP" /\ db' = [db EXCEPT !.files[c] = (@ \ {f}) \cup ({f} \ @)]
  /\ UNCHANGED <<ui, shown, calls>>

Init ==
  /\ ui = List
  /\ shown = [containers |-> [c \in {} |-> None], requests |-> [r \in {} |-> None], files |-> {}]
  /\ calls = {}
  /\ \E live \in SUBSET Container :
       db = [state |-> [c \in Container |-> IF c \in live THEN "WIP" ELSE None],
             requests |-> [r \in Request |-> [of |-> None, status |-> None]],
             files |-> [c \in Container |-> {}]]

Next ==
  \/ \E f \in ContainerState \cup {All} : SetStateFilter(f)
  \/ \E c \in Container : TogglePreview(c)
  \/ \E show \in BOOLEAN : SetShowForm(show)
  \/ Create \/ OpenDetail \/ BackToList \/ Transition
  \/ \E f \in File : DeleteFile(f)
  \/ \E from, to \in Revision : Compare(from, to)
  \/ ShareCreate
  \/ \E r \in Request, kind \in {"approved", "rejected", "revoked"} : ShareAct(r, kind)
  \/ \E c \in calls : Serve(c) \/ Succeeded(c) \/ Failed(c)
  \/ RefreshList \/ RefreshDetail
  \/ Elsewhere

Spec == Init /\ [][Next]_vars

-----------------------------------------------------------------------------

Status == {"pending", "approved", "rejected", "revoked"}

TypeOK ==
  /\ ui.id \in Container \cup {None} /\ ui.stateFilter \in ContainerState \cup {All}
  /\ ui.previewId \in Container \cup {None}
  /\ {ui.diff.from, ui.diff.to} \subseteq Revision \cup {None}
  /\ \A c \in Cached : c \in Container /\ shown.containers[c] \in ContainerState
  /\ \A r \in DOMAIN shown.requests : r \in Request /\ shown.requests[r] \in Status
  /\ db.state \in [Container -> ContainerState \cup {None}]
  /\ \A r \in Request : db.requests[r].of = None <=> db.requests[r].status = None

\* What a click moved went where the button said, from the state the page
\* showed, however old that was.  The one exception: a container shown as
\* Published that was revised and shared again is archived from Shared.
StaleClickKeepsItsWord ==
  \A c \in calls : c.kind = "transition" /\ c.state = "ok" =>
    /\ [from |-> c.from, action |-> c.offer.action, to |-> c.offer.to] \in VALID_TRANSITIONS
    /\ c.from # c.seen => c.seen = "Published" /\ c.from = "Shared"

-----------------------------------------------------------------------------
(* The inductive invariant of the page (PageViews_proofs).                 *)

Move(c) == [from |-> c.from, action |-> c.offer.action, to |-> c.offer.to]

\* The fields of a call.
Whole(c) ==
  c = [kind |-> c.kind, id |-> c.id, arg |-> c.arg, offer |-> c.offer, seen |-> c.seen,
       from |-> c.from, state |-> c.state, mounted |-> c.mounted]

\* A transition was offered for the state that was shown; once it is served, it
\* is a move of the table from the state that was found.
CallInv(c) ==
  /\ Whole(c)
  /\ c.kind = "transition" => c.offer \in transitions(c.seen)
  /\ c.kind = "transition" /\ c.state = "ok" => Move(c) \in VALID_TRANSITIONS

CallsInv == \A c \in calls : CallInv(c)
=============================================================================
