------------------------------ MODULE RoleEditor -----------------------------
(***************************************************************************)
(* The page of the roles of an organization and the routes it calls.  A    *)
(* permission is toggled from what the cache says of it, a system role is  *)
(* locked by the page alone where permissions are concerned, and an answer *)
(* closes the dialog that is open when it arrives.                         *)
(***************************************************************************)
EXTENDS FiniteSets, Functions

CONSTANTS
  Role,       \* ids of roles, those still to be created included
  System,     \* the system roles among them
  OrgOf,      \* the organization of each
  Permission,
  Name,       \* names that are typed in; Blank is the empty one
  Blank,
  MaxCalls    \* bound: mutations in flight at the same time

VARIABLES
  ui,     \* selectedOrgId, the dialog (form, delete, or none) and its role and name
  shown,  \* the cached roles of each organization
  calls,  \* mutations in flight
  db      \* roles and role_permissions

vars == <<ui, shown, calls, db>>

None == "none"
Org == Range(OrgOf)
NoDialog == [kind |-> None, role |-> None, name |-> Blank]
Fresh == [selectedOrgId |-> None, dialog |-> NoDialog]
Kind == {"create", "edit", "delete", "assign", "revoke"}

-----------------------------------------------------------------------------
(* The user.                                                               *)

roles == IF ui.selectedOrgId = None THEN [r \in {} |-> None] ELSE shown[ui.selectedOrgId]

\* The select of the organizations, and the first one that is taken from the answer.
SelectOrg(o) ==
  /\ ui.dialog = NoDialog
  /\ ui' = [ui EXCEPT !.selectedOrgId = o]
  /\ UNCHANGED <<shown, calls, db>>

Open(kind, role, name) ==
  /\ ui.dialog = NoDialog
  /\ ui' = [ui EXCEPT !.dialog = [kind |-> kind, role |-> role, name |-> name]]
  /\ UNCHANGED <<shown, calls, db>>

OpenCreate == ui.selectedOrgId # None /\ Open("create", None, Blank)
OpenEdit(r) == r \in DOMAIN roles \ System /\ Open("edit", r, roles[r].name)
OpenDelete(r) == r \in DOMAIN roles \ System /\ Open("delete", r, Blank)

SetName(name) ==
  /\ ui.dialog.kind \in {"create", "edit"}
  /\ ui' = [ui EXCEPT !.dialog.name = name]
  /\ UNCHANGED <<shown, calls, db>>

\* A mutation is pending in the form that made it, and a form that is opened
\* again is another one.
Closed(cs) == { [c EXCEPT !.form = FALSE] : c \in cs }

CloseDialog ==
  /\ ui.dialog # NoDialog
  /\ ui' = [ui EXCEPT !.dialog = NoDialog]
  /\ calls' = Closed(calls)
  /\ UNCHANGED <<shown, db>>

Mutate(kind, role, arg) ==
  /\ Cardinality(calls) < MaxCalls
  /\ calls' = calls \cup {[kind |-> kind, org |-> ui.selectedOrgId, role |-> role, arg |-> arg,
                           state |-> "sent", mounted |-> TRUE, form |-> kind \in {"create", "edit"}]}
  /\ UNCHANGED <<ui, shown, db>>

Submit ==
  /\ ui.dialog.kind \in {"create", "edit"} /\ ui.dialog.name # Blank
  /\ ~ \E c \in calls : c.form
  /\ Mutate(ui.dialog.kind, ui.dialog.role, ui.dialog.name)

ConfirmDelete ==
  /\ ui.dialog.kind = "delete"
  /\ ~ \E c \in calls : c.mounted /\ c.kind = "delete"
  /\ Mutate("delete", ui.dialog.role, None)

\* Faulty: the lock of the system roles is only drawn.
Toggle_Unlocked(r, p) ==
  /\ r \in DOMAIN roles
  /\ Mutate(IF p \in roles[r].permissions THEN "revoke" ELSE "assign", r, p)

\* The buttons stay enabled while a toggle is under way.
Toggle(r, p) ==
  /\ r \in DOMAIN roles \ System
  /\ Mutate(IF p \in roles[r].permissions THEN "revoke" ELSE "assign", r, p)

Remount ==
  /\ ui' = Fresh
  /\ calls' = { [c EXCEPT !.mounted = FALSE] : c \in Closed(calls) }
  /\ UNCHANGED <<shown, db>>

-----------------------------------------------------------------------------
(* The server.  Only update and delete refuse a system role; a role that    *)
(* still has permissions cannot be deleted, their role_id being not null.  *)

With(r, row) == [s \in DOMAIN db \cup {r} |-> IF s = r THEN row ELSE db[s]]

Effects(c) ==
  IF c.kind = "create"
  THEN { With(r, [name |-> c.arg, permissions |-> {}]) :
           r \in { s \in Role \ (DOMAIN db \cup System) : OrgOf[s] = c.org } }
  ELSE IF c.role \notin DOMAIN db THEN {}
  ELSE CASE c.kind = "edit" /\ c.role \notin System -> {[db EXCEPT ![c.role].name = c.arg]}
         [] c.kind = "delete" /\ c.role \notin System /\ db[c.role].permissions = {} ->
              {Restrict(db, DOMAIN db \ {c.role})}
         [] c.kind = "assign" -> {[db EXCEPT ![c.role].permissions = @ \cup {c.arg}]}
         [] c.kind = "revoke" /\ c.arg \in db[c.role].permissions ->
              {[db EXCEPT ![c.role].permissions = @ \ {c.arg}]}
         [] OTHER -> {}

Settle(c, state) == calls' = (calls \ {c}) \cup {[c EXCEPT !.state = state]}

Serve(c) ==
  /\ c.state = "sent"
  /\ \/ db' \in Effects(c) /\ Settle(c, "ok")
     \/ Effects(c) = {} /\ UNCHANGED db /\ Settle(c, "failed")
  /\ UNCHANGED <<ui, shown>>

Lose(c) ==
  /\ c.state # "failed"
  /\ Settle(c, "failed")
  /\ UNCHANGED <<ui, shown, db>>

Closes(c) == IF c.kind = "delete" THEN {"delete"} ELSE {"create", "edit"}

\* onClose and setDeleteTarget(null) close the dialog of their kind that is open now.
Succeeded(c) ==
  /\ c.state = "ok"
  /\ IF /\ c.mounted /\ c.kind \in {"create", "edit", "delete"}
        /\ ui.dialog.kind \in Closes(c)
     THEN ui' = [ui EXCEPT !.dialog = NoDialog] /\ calls' = Closed(calls \ {c})
     ELSE UNCHANGED ui /\ calls' = calls \ {c}
  /\ UNCHANGED <<shown, db>>

\* A form shows an error and stays; a delete or a toggle says nothing.
Failed(c) ==
  /\ c.state = "failed"
  /\ calls' = calls \ {c}
  /\ UNCHANGED <<ui, shown, db>>

Refresh(o) ==
  /\ shown' = [shown EXCEPT ![o] = Restrict(db, { r \in DOMAIN db : OrgOf[r] = o })]
  /\ UNCHANGED <<ui, calls, db>>

Arg(kind) == IF kind \in {"assign", "revoke"} THEN Permission ELSE Name

\* Another administrator or client: whatever the routes allow, and they do not
\* keep the permissions of a system role.
Elsewhere ==
  /\ \E kind \in Kind, o \in Org, r \in Role : \E arg \in Arg(kind) :
       db' \in Effects([kind |-> kind, org |-> o, role |-> r, arg |-> arg])
  /\ UNCHANGED <<ui, shown, calls>>

Init ==
  /\ ui = Fresh
  /\ shown = [o \in Org |-> [r \in {} |-> None]]
  /\ calls = {}
  /\ \E existing \in SUBSET (Role \ System), permissions \in SUBSET Permission, name \in Name :
       db = [r \in System \cup existing |-> [name |-> name, permissions |-> permissions]]

Next ==
  \/ \E o \in Org : SelectOrg(o) \/ Refresh(o)
  \/ OpenCreate
  \/ \E r \in Role : OpenEdit(r) \/ OpenDelete(r) \/ \E p \in Permission : Toggle(r, p)
  \/ \E name \in Name \cup {Blank} : SetName(name)
  \/ CloseDialog \/ Submit \/ ConfirmDelete \/ Remount
  \/ \E c \in calls : Serve(c) \/ Lose(c) \/ Succeeded(c) \/ Failed(c)
  \/ Elsewhere

Spec == Init /\ [][Next]_vars

-----------------------------------------------------------------------------

Row == [name : Name, permissions : SUBSET Permission]

TypeOK ==
  /\ ui.selectedOrgId \in Org \cup {None}
  /\ ui.dialog \in [kind : {None, "create", "edit", "delete"}, role : Role \cup {None},
                    name : Name \cup {Blank}]
  /\ \A o \in Org : \A r \in DOMAIN shown[o] : OrgOf[r] = o /\ shown[o][r] \in Row
  /\ DOMAIN db \subseteq Role /\ System \subseteq DOMAIN db
  /\ \A r \in DOMAIN db : db[r] \in Row
  /\ \A c \in calls : c.org \in Org /\ c.role \in Role \cup {None}

\* Nothing that is clicked on the page, however old the roles it shows and
\* whatever dialog an answer leaves open, changes a system role or what it may.
\* A call that another client makes of the routes can (Elsewhere).
SystemRolesStand == [][Elsewhere \/ \A r \in System : db'[r] = db[r]]_vars

-----------------------------------------------------------------------------
(* The inductive invariant of the page (PageForms_proofs).                 *)

\* The page as a record; an open dialog is about a role that may be edited.
DialogUnlocked ==
  /\ ui = [selectedOrgId |-> ui.selectedOrgId, dialog |-> ui.dialog]
  /\ ui.dialog = [kind |-> ui.dialog.kind, role |-> ui.dialog.role, name |-> ui.dialog.name]
  /\ ui.dialog.kind \in {"edit", "delete"} => ui.dialog.role \notin System

CallUnlocked(c) ==
  /\ c = [kind |-> c.kind, org |-> c.org, role |-> c.role, arg |-> c.arg,
          state |-> c.state, mounted |-> c.mounted, form |-> c.form]
  /\ c.kind \in Kind
  /\ c.kind # "create" => c.role \notin System

CallsUnlocked == \A c \in calls : CallUnlocked(c)

RoleInv ==
  /\ DialogUnlocked
  /\ CallsUnlocked
  /\ System \subseteq DOMAIN db

\* What a step leaves alone.
Stands == \A r \in System : r \in DOMAIN db' /\ db'[r] = db[r]
=============================================================================
