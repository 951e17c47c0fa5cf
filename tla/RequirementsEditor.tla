-------------------------- MODULE RequirementsEditor -------------------------
(***************************************************************************)
(* The page of the requirements documents: one document is open, its items *)
(* are rows, and a row is edited in a form of its own that React keeps as  *)
(* long as the row is rendered under the same key.  Which rows are in edit *)
(* mode is known by the number of the item, which is not unique, and which *)
(* document is open changes under the forms when the list is read again.   *)
(***************************************************************************)
EXTENDS Integers, FiniteSets, FiniteSetsExt, Functions, Folds

CONSTANTS
  Doc,      \* ids of documents, numbered from 1
  Item,     \* ids of items, numbered from 1
  No,       \* item numbers that are typed in
  MaxCalls  \* bound: mutations in flight at the same time

VARIABLES
  ui,     \* activeDocId, addingItem, editingItemNo; forms: the item each was loaded from
  shown,  \* the cached documents, the first of the list, their items, docsError
  calls,  \* mutations in flight
  db      \* documents and items; from: the item whose form the content was typed in

vars == <<ui, shown, calls, db>>

None == 0
Fresh == [activeDocId |-> None, addingItem |-> FALSE, editingItemNo |-> None,
          forms |-> [k \in {} |-> None]]

-----------------------------------------------------------------------------
(* What the page renders.                                                  *)

activeDoc(u, s) == IF u.activeDocId \in s.docs THEN u.activeDocId ELSE s.first

HasDoc(u, s) == activeDoc(u, s) # None /\ ~s.failed

Rows(u, s) == { i \in DOMAIN s.items : HasDoc(u, s) /\ s.items[i].doc = activeDoc(u, s) }

EditingRows(u, s) == { i \in Rows(u, s) : s.items[i].no = u.editingItemNo }

\* Faulty: rows are keyed by their place in the table.
FormKey_Index(i, u, s) == Cardinality({ j \in Rows(u, s) : j <= i })

\* key={item.id}
FormKey(i, u, s) == i

\* React keeps the state of a form whose key is still rendered, and a new form
\* takes its initial state from the item of its row.
Render(u, s) ==
  LET rows == EditingRows(u, s)
  IN [u EXCEPT !.forms =
        [k \in { FormKey(i, u, s) : i \in rows } |->
           IF k \in DOMAIN u.forms THEN u.forms[k]
           ELSE CHOOSE i \in rows : FormKey(i, u, s) = k]]

HasForm(c, u, s) ==
  CASE c.kind = "edit" -> c.item \in EditingRows(u, s)
    [] c.kind = "add" -> u.addingItem /\ HasDoc(u, s)
    [] OTHER -> FALSE

\* A mutation is pending in the form that made it, and a form that is opened
\* again is another one.
Show(u, s, cs) ==
  /\ ui' = Render(u, s)
  /\ calls' = { [c EXCEPT !.form = @ /\ HasForm(c, u, s)] : c \in cs }

-----------------------------------------------------------------------------
(* The user.                                                               *)

SelectDoc(d) ==
  /\ d \in shown.docs
  /\ Show([ui EXCEPT !.activeDocId = d], shown, calls)
  /\ UNCHANGED <<shown, db>>

StartEdit(i) ==
  /\ i \in Rows(ui, shown) \ EditingRows(ui, shown)
  /\ Show([ui EXCEPT !.editingItemNo = shown.items[i].no], shown, calls)
  /\ UNCHANGED <<shown, db>>

CancelEdit ==
  /\ EditingRows(ui, shown) # {}
  /\ Show([ui EXCEPT !.editingItemNo = None], shown, calls)
  /\ UNCHANGED <<shown, db>>

SetAdding(adding) ==
  /\ HasDoc(ui, shown)
  /\ Show([ui EXCEPT !.addingItem = adding], shown, calls)
  /\ UNCHANGED <<shown, db>>

Pending(kind, item) == \E c \in calls : c.form /\ c.kind = kind /\ c.item = item

Mutate(kind, item, from, no) ==
  /\ Cardinality(calls) < MaxCalls
  /\ calls' = calls \cup {[kind |-> kind, doc |-> activeDoc(ui, shown), item |-> item,
                           from |-> from, no |-> no, state |-> "sent", mounted |-> TRUE,
                           form |-> kind \in {"edit", "add"}]}
  /\ UNCHANGED <<ui, shown, db>>

\* ItemForm, editing: the id is a prop of the row, the content is state of the form.
SubmitEdit(i, no) ==
  /\ i \in EditingRows(ui, shown) /\ ~Pending("edit", i)
  /\ Mutate("edit", i, ui.forms[FormKey(i, ui, shown)], no)

\* ItemForm, adding.
SubmitAdd(no) ==
  /\ ui.addingItem /\ HasDoc(ui, shown) /\ ~Pending("add", None)
  /\ Mutate("add", None, None, no)

DeleteItem(i) ==
  /\ i \in Rows(ui, shown) \ EditingRows(ui, shown)
  /\ Mutate("deleteItem", i, None, None)

DeleteDoc ==
  /\ HasDoc(ui, shown)
  /\ Mutate("deleteDoc", None, None, None)

\* DocCreateDialog: pending in a dialog that may be closed and opened again.
CreateDoc == Mutate("createDoc", None, None, None)

Remount ==
  /\ Show(Fresh, shown, { [c EXCEPT !.mounted = FALSE] : c \in calls })
  /\ UNCHANGED <<shown, db>>

-----------------------------------------------------------------------------
(* The server: each handler looks its row up under the document of the path. *)

Live(d) == db.docs[d] = "live"
Exists(i, d) == i \in DOMAIN db.items /\ db.items[i].doc = d

\* Faulty: the relationship does not cascade.
WithoutDoc_NoCascade(d) == [db EXCEPT !.docs[d] = "gone"]

WithoutDoc(d) == [db EXCEPT !.docs[d] = "gone",
                            !.items = Restrict(db.items, { i \in DOMAIN db.items : db.items[i].doc # d })]
WithoutItem(i) == [db EXCEPT !.items = Restrict(db.items, DOMAIN db.items \ {i})]
WithItem(i, row) == [db EXCEPT !.items = [j \in DOMAIN db.items \cup {i} |->
                                            IF j = i THEN row ELSE db.items[j]],
                               !.used = db.used \cup {i}]

\* What a call makes of the database; nothing if it is refused.
Effects(c) ==
  CASE c.kind = "edit" /\ Exists(c.item, c.doc) ->
         {WithItem(c.item, [doc |-> c.doc, no |-> c.no, from |-> c.from])}
    [] c.kind = "add" /\ Live(c.doc) ->
         { WithItem(i, [doc |-> c.doc, no |-> c.no, from |-> i]) : i \in Item \ db.used }
    [] c.kind = "deleteItem" /\ Exists(c.item, c.doc) -> {WithoutItem(c.item)}
    [] c.kind = "deleteDoc" /\ Live(c.doc) -> {WithoutDoc(c.doc)}
    [] c.kind = "createDoc" ->
         { [db EXCEPT !.docs[d] = "live"] : d \in { e \in Doc : db.docs[e] = "new" } }
    [] OTHER -> {}

Settle(c, state) == calls' = (calls \ {c}) \cup {[c EXCEPT !.state = state]}

Serve(c) ==
  /\ c.state = "sent"
  /\ \/ db' \in Effects(c) /\ Settle(c, "ok")
     \/ Effects(c) = {} /\ UNCHANGED db /\ Settle(c, "failed")
  /\ UNCHANGED <<ui, shown>>

Lose(c) ==
  /\ c.state # "failed"
  /\ Settle(c, "failed")
  /\ UNCHANGED <<ui, shown, db>>

\* onSuccess: an answer closes whichever editor is open by then.
Succeeded(c) ==
  /\ c.state = "ok"
  /\ Show(CASE c.mounted /\ c.kind \in {"edit", "deleteItem"} -> [ui EXCEPT !.editingItemNo = None]
            [] c.mounted /\ c.kind = "add" -> [ui EXCEPT !.addingItem = FALSE]
            [] c.mounted /\ c.kind = "deleteDoc" -> [ui EXCEPT !.activeDocId = None]
            [] OTHER -> ui,
          shown, calls \ {c})
  /\ UNCHANGED <<shown, db>>

Failed(c) ==
  /\ c.state = "failed"
  /\ calls' = calls \ {c}
  /\ UNCHANGED <<ui, shown, db>>

\* GET requirements has no ORDER BY: any document may be the first.
Refresh ==
  LET docs == { d \in Doc : Live(d) }
  IN /\ \E first \in IF docs = {} THEN {None} ELSE docs :
          shown' = [docs |-> docs, first |-> first, items |-> db.items, failed |-> FALSE]
     /\ Show(ui, shown', calls)
     /\ UNCHANGED db

\* The error takes the place of the documents until the list is read again.
RefreshFails ==
  /\ ~shown.failed
  /\ shown' = [shown EXCEPT !.failed = TRUE]
  /\ Show(ui, shown', calls)
  /\ UNCHANGED db

\* Another user of the project.
Elsewhere ==
  /\ \E d \in Doc, i \in Item :
       \/ Live(d) /\ db' = WithoutDoc(d)
       \/ i \in DOMAIN db.items /\ db' = WithoutItem(i)
  /\ UNCHANGED <<ui, shown, calls>>

Init ==
  /\ \E docs \in [Doc -> {"new", "live"}] : \E items \in UNION { [S -> {d \in Doc : docs[d] = "live"}] : S \in SUBSET Item } :
       \E no \in [DOMAIN items -> No] :
         db = [docs |-> docs, used |-> DOMAIN items,
               items |-> [i \in DOMAIN items |-> [doc |-> items[i], no |-> no[i], from |-> i]]]
  /\ shown = [docs |-> {}, first |-> None, items |-> [i \in {} |-> None], failed |-> FALSE]
  /\ ui = Fresh
  /\ calls = {}

Next ==
  \/ \E d \in Doc : SelectDoc(d)
  \/ \E i \in Item : StartEdit(i) \/ DeleteItem(i)
  \/ \E i \in Item, no \in No : SubmitEdit(i, no)
  \/ CancelEdit
  \/ \E adding \in BOOLEAN : SetAdding(adding)
  \/ \E no \in No : SubmitAdd(no)
  \/ DeleteDoc \/ CreateDoc
  \/ Remount
  \/ \E c \in calls : Serve(c) \/ Lose(c) \/ Succeeded(c) \/ Failed(c)
  \/ Refresh \/ RefreshFails
  \/ Elsewhere

Spec == Init /\ [][Next]_vars

-----------------------------------------------------------------------------

Row == [doc : Doc, no : No, from : Item]

TypeOK ==
  /\ ui.activeDocId \in Doc \cup {None} /\ ui.addingItem \in BOOLEAN
  /\ ui.editingItemNo \in No \cup {None}
  /\ \A k \in DOMAIN ui.forms : ui.forms[k] \in Item
  /\ shown.docs \subseteq Doc /\ shown.first \in shown.docs \cup {None}
  /\ \A i \in DOMAIN shown.items : i \in Item /\ shown.items[i] \in Row
  /\ db.docs \in [Doc -> {"new", "live", "gone"}] /\ db.used \subseteq Item
  /\ \A i \in DOMAIN db.items : i \in db.used /\ db.items[i] \in Row /\ Live(db.items[i].doc)
  /\ \A c \in calls : c.doc \in Doc \cup {None} /\ c.item \in Item \cup {None}

\* However the list is read again, the documents are switched and numbers are
\* given twice, an item is only ever overwritten with what was loaded from it.
EditKeepsItsItem == \A i \in DOMAIN db.items : db.items[i].from = i

-----------------------------------------------------------------------------
(* The inductive invariant of the page (PageForms_proofs).                 *)

UiWhole(u) ==
  u = [activeDocId |-> u.activeDocId, addingItem |-> u.addingItem,
       editingItemNo |-> u.editingItemNo, forms |-> u.forms]

DbWhole == db = [docs |-> db.docs, used |-> db.used, items |-> db.items]

\* There is a form for each row in edit mode, which was loaded from that row.
FormsInv ==
  /\ UiWhole(ui)
  /\ DOMAIN ui.forms = EditingRows(ui, shown)
  /\ \A k \in DOMAIN ui.forms : ui.forms[k] = k

CallInv(c) ==
  /\ c = [kind |-> c.kind, doc |-> c.doc, item |-> c.item, from |-> c.from, no |-> c.no,
          state |-> c.state, mounted |-> c.mounted, form |-> c.form]
  /\ c.kind = "edit" => c.from = c.item

CallsInv == \A c \in calls : CallInv(c)

ItemsInv == DbWhole /\ EditKeepsItsItem

EditorInv == FormsInv /\ CallsInv /\ ItemsInv
=============================================================================
