---------------------------- MODULE PageViews_proofs --------------------------
(***************************************************************************)
(* Theorems about what the pages show and announce (containers, figures of *)
(* a project), for every value of their constants and every number of      *)
(* calls in flight.                                                        *)
(***************************************************************************)
EXTENDS Pages, SequenceTheorems, WellFoundedInduction, TLAPS

-----------------------------------------------------------------------------
(***************************************************************************)
(* The pages of the containers                                             *)
(***************************************************************************)

(* The two tables.                                                         *)

\* The only action that has the same target from two states is archive.
LEMMA ContainersOfferedMoves ==
  ASSUME NEW about, NEW seen, NEW from, NEW offer \in Containers(about)!transitions(seen),
         [from |-> from, action |-> offer.action, to |-> offer.to]
           \in Containers(about)!VALID_TRANSITIONS,
         from # seen
  PROVE  seen = "Published" /\ from = "Shared"
<1> DEFINE t == [from |-> from, action |-> offer.action, to |-> offer.to]
<1>1. t.from = from /\ t.action = offer.action /\ t.to = offer.to
  OBVIOUS
<1>2. t \in Containers(about)!VALID_TRANSITIONS
  OBVIOUS
<1> HIDE DEF t
<1>3. CASE seen = "WIP"
  BY <1>1, <1>2, <1>3
  DEF Containers!transitions, Containers!listTransitions, Containers!Offer,
      Containers!VALID_TRANSITIONS
<1>4. CASE seen = "Shared"
  BY <1>1, <1>2, <1>4
  DEF Containers!transitions, Containers!listTransitions, Containers!Offer,
      Containers!VALID_TRANSITIONS
<1>5. CASE seen = "Published"
  BY <1>1, <1>2, <1>5
  DEF Containers!transitions, Containers!listTransitions, Containers!Offer,
      Containers!VALID_TRANSITIONS
<1>6. CASE seen \notin {"WIP", "Shared", "Published"}
  BY <1>6 DEF Containers!transitions, Containers!listTransitions
<1> QED
  BY <1>3, <1>4, <1>5, <1>6

\* What was offered, moved as offered: only archive has two sources.
LEMMA ContainersInvGivesWord ==
  ASSUME NEW about, Containers(about)!CallsInv
  PROVE  Containers(about)!StaleClickKeepsItsWord
BY ContainersOfferedMoves
DEF Containers!CallsInv, Containers!CallInv, Containers!Move, Containers!StaleClickKeepsItsWord

-----------------------------------------------------------------------------
(* The steps.                                                              *)

\* A call is sent; a move is one that the row offered.
LEMMA ContainersSentInv ==
  ASSUME NEW about, Containers(about)!CallsInv, NEW kind, NEW id, NEW arg, NEW offer,
         Containers(about)!Mutate(kind, id, arg, offer),
         kind = "transition" =>
           /\ id \in Containers(about)!Cached
           /\ offer \in Containers(about)!transitions(shown.containers[id])
  PROVE  Containers(about)!CallsInv'
<1> DEFINE seen == IF id \in Containers(about)!Cached THEN shown.containers[id]
                   ELSE Containers(about)!None
           d == [kind |-> kind, id |-> id, arg |-> arg, offer |-> offer, seen |-> seen,
                 from |-> Containers(about)!None, state |-> "sent", mounted |-> TRUE]
<1>1. calls' = calls \cup {d}
  BY DEF Containers!Mutate
<1>2. Containers(about)!CallInv(d)
  <2>1. kind = "transition" => offer \in Containers(about)!transitions(seen)
    OBVIOUS
  <2> HIDE DEF seen
  <2> QED
    BY <2>1 DEF Containers!CallInv, Containers!Whole
<1> HIDE DEF d
<1> QED
  BY <1>1, <1>2 DEF Containers!CallsInv

\* A move is clicked, on the list or on the page of a container.
LEMMA ContainersTransitionInv ==
  ASSUME NEW about, Containers(about)!CallsInv, Containers(about)!Transition
  PROVE  Containers(about)!CallsInv'
<1>1. PICK c \in IF Containers(about)!onList THEN Containers(about)!Rows
                 ELSE {ui.id} \cap Containers(about)!Cached :
        \E o \in IF Containers(about)!onList
                 THEN Containers(about)!listTransitions(shown.containers[c])
                 ELSE Containers(about)!transitions(shown.containers[c]) :
          Containers(about)!Mutate("transition", c, Containers(about)!None, o)
  BY DEF Containers!Transition
<1>2. PICK o \in IF Containers(about)!onList
                 THEN Containers(about)!listTransitions(shown.containers[c])
                 ELSE Containers(about)!transitions(shown.containers[c]) :
        Containers(about)!Mutate("transition", c, Containers(about)!None, o)
  BY <1>1
<1>3. c \in Containers(about)!Cached
  BY DEF Containers!Rows
<1>4. o \in Containers(about)!transitions(shown.containers[c])
  BY DEF Containers!transitions
<1> QED
  BY <1>2, <1>3, <1>4, ContainersSentInv

\* The server answers a call; a move is one of its table.
LEMMA ContainersServeInv ==
  ASSUME NEW about, Containers(about)!CallsInv, NEW c \in calls, Containers(about)!Serve(c)
  PROVE  Containers(about)!CallsInv'
<1> DEFINE from == IF c.kind = "transition" THEN db.state[c.id] ELSE Containers(about)!None
           d(state) == [c EXCEPT !.state = state, !.from = from]
<1>1. Containers(about)!CallInv(c)
  BY DEF Containers!CallsInv
<1>2. ASSUME NEW state, NEW e, e = d(state)
      PROVE  /\ Containers(about)!Whole(e)
             /\ e.kind = c.kind /\ e.offer = c.offer /\ e.seen = c.seen
             /\ e.from = from /\ e.state = state
  <2> HIDE DEF from
  <2> QED
    BY <1>1, <1>2 DEF Containers!CallInv, Containers!Whole
<1>3. ASSUME db' \in Containers(about)!Effects(c), c.kind = "transition"
      PROVE  [from |-> from, action |-> c.offer.action, to |-> c.offer.to]
               \in Containers(about)!VALID_TRANSITIONS
  <2>1. PICK t \in Containers(about)!VALID_TRANSITIONS :
          t.from = db.state[c.id] /\ t.action = c.offer.action /\ t.to = c.offer.to
    BY <1>3 DEF Containers!Effects, Containers!Moves
  <2>2. t = [from |-> t.from, action |-> t.action, to |-> t.to]
    BY DEF Containers!VALID_TRANSITIONS
  <2> QED
    BY <1>3, <2>1, <2>2
<1> HIDE DEF from
<1>4. CASE db' \in Containers(about)!Effects(c) /\ Containers(about)!Settle(c, "ok")
  <2>1. ASSUME NEW e, e = d("ok")
        PROVE  Containers(about)!CallInv(e)
    <3>1. /\ Containers(about)!Whole(e)
          /\ e.kind = c.kind /\ e.offer = c.offer /\ e.seen = c.seen /\ e.from = from
      BY <2>1, <1>2
    <3> HIDE DEF d
    <3> QED
      BY <1>1, <1>3, <1>4, <3>1 DEF Containers!CallInv, Containers!Move
  <2>2. calls' = (calls \ {c}) \cup {d("ok")}
    BY <1>4 DEF Containers!Settle, from
  <2> HIDE DEF d
  <2> QED
    BY <2>1, <2>2 DEF Containers!CallsInv
<1>5. CASE Containers(about)!Settle(c, "failed")
  <2>1. ASSUME NEW e, e = d("failed")
        PROVE  Containers(about)!CallInv(e)
    <3>1. /\ Containers(about)!Whole(e)
          /\ e.kind = c.kind /\ e.offer = c.offer /\ e.seen = c.seen /\ e.state = "failed"
      BY <2>1, <1>2
    <3> HIDE DEF d
    <3> QED
      BY <1>1, <3>1 DEF Containers!CallInv
  <2>2. calls' = (calls \ {c}) \cup {d("failed")}
    BY <1>5 DEF Containers!Settle, from
  <2> HIDE DEF d
  <2> QED
    BY <2>1, <2>2 DEF Containers!CallsInv
<1> QED
  BY <1>4, <1>5 DEF Containers!Serve

\* The user goes from the list to a container, or back.
LEMMA ContainersLeaveInv ==
  ASSUME NEW about, Containers(about)!CallsInv, NEW u, Containers(about)!Leave(u)
  PROVE  Containers(about)!CallsInv'
<1>1. ASSUME NEW c \in calls, NEW m
      PROVE  Containers(about)!CallInv([c EXCEPT !.mounted = m])
  BY DEF Containers!CallsInv, Containers!CallInv, Containers!Move, Containers!Whole
<1> QED
  BY <1>1 DEF Containers!Leave, Containers!CallsInv

\* Every step of these pages keeps their invariant.
LEMMA ContainersNextInv ==
  ASSUME NEW about, Containers(about)!CallsInv, [Containers(about)!Next]_(Containers(about)!vars)
  PROVE  Containers(about)!CallsInv'
<1>1. ASSUME calls' \subseteq calls
      PROVE  Containers(about)!CallsInv'
  BY <1>1 DEF Containers!CallsInv
<1>2. CASE Containers(about)!Create
  BY <1>2, ContainersSentInv DEF Containers!Create
<1>3. CASE Containers(about)!OpenDetail
  BY <1>3, ContainersLeaveInv DEF Containers!OpenDetail
<1>4. CASE Containers(about)!BackToList
  BY <1>4, ContainersLeaveInv DEF Containers!BackToList
<1>5. CASE Containers(about)!Transition
  BY <1>5, ContainersTransitionInv
<1>6. ASSUME NEW f \in about.files, Containers(about)!DeleteFile(f)
      PROVE  Containers(about)!CallsInv'
  BY <1>6, ContainersSentInv DEF Containers!DeleteFile
<1>7. ASSUME NEW from \in about.revisions, NEW to \in about.revisions,
             Containers(about)!Compare(from, to)
      PROVE  Containers(about)!CallsInv'
  BY <1>7, ContainersSentInv DEF Containers!Compare
<1>8. CASE Containers(about)!ShareCreate
  BY <1>8, ContainersSentInv DEF Containers!ShareCreate
<1>9. ASSUME NEW r \in about.requests, NEW kind \in {"approved", "rejected", "revoked"},
             Containers(about)!ShareAct(r, kind)
      PROVE  Containers(about)!CallsInv'
  BY <1>9, ContainersSentInv DEF Containers!ShareAct
<1>10. ASSUME NEW c \in calls, Containers(about)!Serve(c)
       PROVE  Containers(about)!CallsInv'
  BY <1>10, ContainersServeInv
<1>11. ASSUME NEW c \in calls, Containers(about)!Succeeded(c) \/ Containers(about)!Failed(c)
       PROVE  Containers(about)!CallsInv'
  BY <1>1, <1>11 DEF Containers!Succeeded, Containers!Failed
<1>12. ASSUME NEW f, NEW c, NEW show,
              \/ Containers(about)!SetStateFilter(f) \/ Containers(about)!TogglePreview(c)
              \/ Containers(about)!SetShowForm(show)
       PROVE  Containers(about)!CallsInv'
  BY <1>1, <1>12
  DEF Containers!SetStateFilter, Containers!TogglePreview, Containers!SetShowForm,
      Containers!SetUi
<1>13. CASE \/ Containers(about)!RefreshList \/ Containers(about)!RefreshDetail
             \/ Containers(about)!Elsewhere \/ UNCHANGED Containers(about)!vars
  BY <1>1, <1>13
  DEF Containers!RefreshList, Containers!RefreshDetail, Containers!Elsewhere, Containers!vars
<1> QED
  BY <1>2, <1>3, <1>4, <1>5, <1>6, <1>7, <1>8, <1>9, <1>10, <1>11, <1>12, <1>13
  DEF Containers!Next

-----------------------------------------------------------------------------
(* The types of these pages.                                               *)

\* The list, or the page of one container.
ContainersUiTyped(about, u) ==
  /\ u = [id |-> u.id, stateFilter |-> u.stateFilter, showForm |-> u.showForm,
          previewId |-> u.previewId, diff |-> u.diff, shareError |-> u.shareError]
  /\ u.id \in about.containers \cup {Containers(about)!None}
  /\ u.stateFilter \in Containers(about)!ContainerState \cup {Containers(about)!All}
  /\ u.previewId \in about.containers \cup {Containers(about)!None}
  /\ {u.diff.from, u.diff.to} \subseteq about.revisions \cup {Containers(about)!None}

\* A container that is listed has a state, and a request that is listed a status.
ContainersShownTyped(about) ==
  /\ shown = [containers |-> shown.containers, requests |-> shown.requests, files |-> shown.files]
  /\ \A c \in Containers(about)!Cached :
       c \in about.containers /\ shown.containers[c] \in Containers(about)!ContainerState
  /\ \A r \in DOMAIN shown.requests :
       r \in about.requests /\ shown.requests[r] \in Containers(about)!Status

\* A share request, which has a status as soon as it is of a container.
ContainersRow(about, row) ==
  /\ row = [of |-> row.of, status |-> row.status]
  /\ row.status \in Containers(about)!Status \cup {Containers(about)!None}
  /\ row.of = Containers(about)!None <=> row.status = Containers(about)!None

ContainersDbTyped(about) ==
  /\ db = [state |-> db.state, requests |-> db.requests, files |-> db.files]
  /\ db.state \in [about.containers -> Containers(about)!ContainerState \cup {Containers(about)!None}]
  /\ \A r \in about.requests : r \in DOMAIN db.requests /\ ContainersRow(about, db.requests[r])

\* A comparison names two revisions, and a share request is made for a container.
ContainersCall(about, c) ==
  /\ c.kind = "diff" => {c.arg.from, c.arg.to} \subseteq about.revisions
  /\ c.kind = "shareCreate" => c.id # Containers(about)!None

ContainersCallsTyped(about) == \A c \in calls : ContainersCall(about, c)

ContainersTyped(about) ==
  /\ ContainersUiTyped(about, ui) /\ ContainersShownTyped(about) /\ ContainersDbTyped(about)
  /\ ContainersCallsTyped(about)

\* A container gets a state.
LEMMA ContainersStateTyped ==
  ASSUME NEW about, ContainersDbTyped(about), NEW c, NEW s \in Containers(about)!ContainerState,
         db' = [db EXCEPT !.state[c] = s]
  PROVE  ContainersDbTyped(about)'
<1>1. db' = [state |-> [db.state EXCEPT ![c] = s], requests |-> db.requests, files |-> db.files]
  BY DEF ContainersDbTyped
<1>2. [db.state EXCEPT ![c] = s]
        \in [about.containers -> Containers(about)!ContainerState \cup {Containers(about)!None}]
  BY DEF ContainersDbTyped
<1> QED
  BY <1>1, <1>2 DEF ContainersDbTyped, ContainersRow

\* A share request is created or decided.
LEMMA ContainersRequestTyped ==
  ASSUME NEW about, ContainersDbTyped(about), NEW r, NEW row,
         r \in about.requests => ContainersRow(about, row),
         db' = [db EXCEPT !.requests[r] = row]
  PROVE  ContainersDbTyped(about)'
<1> DEFINE requests == [db.requests EXCEPT ![r] = row]
<1>1. db' = [state |-> db.state, requests |-> requests, files |-> db.files]
  BY DEF ContainersDbTyped
<1>2. \A q \in about.requests : q \in DOMAIN requests /\ ContainersRow(about, requests[q])
  BY DEF ContainersDbTyped
<1> HIDE DEF requests
<1> QED
  BY <1>1, <1>2 DEF ContainersDbTyped, ContainersRow

\* A share request that may be decided is of a container.
LEMMA ContainersDecidedTyped ==
  ASSUME NEW about, ContainersDbTyped(about), NEW r, NEW kind,
         kind \in Containers(about)!Offered(db.requests[r].status),
         db' = [db EXCEPT !.requests[r].status = kind]
  PROVE  ContainersDbTyped(about)'
<1> DEFINE row == [db.requests[r] EXCEPT !.status = kind]
<1>1. db' = [db EXCEPT !.requests[r] = row]
  OBVIOUS
<1>2. ASSUME r \in about.requests
      PROVE  ContainersRow(about, row)
  <2>1. ContainersRow(about, db.requests[r])
    BY <1>2 DEF ContainersDbTyped
  <2>2. row = [of |-> db.requests[r].of, status |-> kind]
    BY <2>1 DEF ContainersRow
  <2>3. /\ kind \in {"approved", "rejected", "revoked"}
        /\ db.requests[r].status \in {"pending", "approved"}
    BY DEF Containers!Offered
  <2>4. db.requests[r].of # Containers(about)!None
    BY <2>1, <2>3 DEF ContainersRow, Containers!None
  <2> HIDE DEF row
  <2> QED
    BY <2>2, <2>3, <2>4 DEF ContainersRow, Containers!Status, Containers!None
<1> HIDE DEF row
<1> QED
  BY <1>1, <1>2, ContainersRequestTyped

\* What the server may do for a call.
LEMMA ContainersEffectsTyped ==
  ASSUME NEW about, ContainersDbTyped(about), NEW c, ContainersCall(about, c),
         db' \in Containers(about)!Effects(c)
  PROVE  ContainersDbTyped(about)'
<1>1. CASE c.kind = "create"
  <2>1. PICK n : db' = [db EXCEPT !.state[n] = "WIP"]
    BY <1>1 DEF Containers!Effects
  <2>2. "WIP" \in Containers(about)!ContainerState
    BY DEF Containers!ContainerState
  <2> QED
    BY <2>1, <2>2, ContainersStateTyped
<1>2. CASE c.kind = "transition"
  <2>1. PICK t \in Containers(about)!VALID_TRANSITIONS : db' = [db EXCEPT !.state[c.id] = t.to]
    BY <1>2 DEF Containers!Effects, Containers!Moves
  <2>2. t.to \in Containers(about)!ContainerState
    BY DEF Containers!VALID_TRANSITIONS, Containers!ContainerState
  <2> QED
    BY <2>1, <2>2, ContainersStateTyped
<1>3. CASE c.kind = "deleteFile"
  <2>1. PICK f : db' = [db EXCEPT !.files[c.id] = @ \ {f}]
    BY <1>3 DEF Containers!Effects
  <2>2. PICK files : db' = [db EXCEPT !.files = files]
    BY <2>1
  <2> QED
    BY <2>2 DEF ContainersDbTyped, ContainersRow
<1>4. CASE c.kind = "diff"
  <2>1. db' = db
    BY <1>4 DEF Containers!Effects
  <2> QED
    BY <2>1 DEF ContainersDbTyped, ContainersRow
<1>5. CASE c.kind = "shareCreate"
  <2> DEFINE row == [of |-> c.id, status |-> "pending"]
  <2>1. PICK r : db' = [db EXCEPT !.requests[r] = row]
    BY <1>5 DEF Containers!Effects
  <2>2. ContainersRow(about, row)
    BY <1>5 DEF ContainersRow, ContainersCall, Containers!Status, Containers!None
  <2> HIDE DEF row
  <2> QED
    BY <2>1, <2>2, ContainersRequestTyped
<1>6. CASE c.kind \notin {"create", "transition", "deleteFile", "diff", "shareCreate"}
  <2>1. /\ c.kind \in Containers(about)!Offered(db.requests[c.arg].status)
        /\ db' = [db EXCEPT !.requests[c.arg].status = c.kind]
    BY <1>6 DEF Containers!Effects
  <2> QED
    BY <2>1, ContainersDecidedTyped
<1> QED
  BY <1>1, <1>2, <1>3, <1>4, <1>5, <1>6

\* Everybody else.
LEMMA ContainersElsewhereTyped ==
  ASSUME NEW about, ContainersDbTyped(about), Containers(about)!Elsewhere
  PROVE  ContainersDbTyped(about)'
<1>1. ASSUME NEW t \in Containers(about)!VALID_TRANSITIONS, NEW c \in about.containers,
             db' = [db EXCEPT !.state[c] = t.to]
      PROVE  ContainersDbTyped(about)'
  <2>1. t.to \in Containers(about)!ContainerState
    BY DEF Containers!VALID_TRANSITIONS, Containers!ContainerState
  <2> QED
    BY <1>1, <2>1, ContainersStateTyped
<1>2. ASSUME NEW r \in about.requests, NEW kind \in Containers(about)!Offered(db.requests[r].status),
             db' = [db EXCEPT !.requests[r].status = kind]
      PROVE  ContainersDbTyped(about)'
  BY <1>2, ContainersDecidedTyped
<1>3. ASSUME NEW files, db' = [db EXCEPT !.files = files]
      PROVE  ContainersDbTyped(about)'
  BY <1>3 DEF ContainersDbTyped, ContainersRow
<1>4. ASSUME NEW c \in about.containers, NEW f \in about.files,
             db' = [db EXCEPT !.files[c] = (@ \ {f}) \cup ({f} \ @)]
      PROVE  ContainersDbTyped(about)'
  <2>1. \E files : db' = [db EXCEPT !.files = files]
    BY <1>4
  <2> QED
    BY <1>3, <2>1
<1> QED
  BY <1>1, <1>2, <1>4 DEF Containers!Elsewhere

\* The list or the page of a container is read again.
LEMMA ContainersRefreshTyped ==
  ASSUME NEW about, ContainersShownTyped(about), ContainersDbTyped(about),
         ContainersUiTyped(about, ui),
         Containers(about)!RefreshList \/ Containers(about)!RefreshDetail
  PROVE  ContainersShownTyped(about)'
<1>1. CASE Containers(about)!RefreshList
  <2>1. PICK cached \in SUBSET { c \in about.containers : Containers(about)!Live(c) } :
          shown' = [shown EXCEPT !.containers = [c \in cached |-> db.state[c]]]
    BY <1>1 DEF Containers!RefreshList
  <2> DEFINE states == [c \in cached |-> db.state[c]]
  <2>2. shown' = [containers |-> states, requests |-> shown.requests, files |-> shown.files]
    BY <2>1 DEF ContainersShownTyped
  <2>3. \A c \in DOMAIN states :
          c \in about.containers /\ states[c] \in Containers(about)!ContainerState
    BY DEF ContainersDbTyped, Containers!Live
  <2> HIDE DEF states
  <2> QED
    BY <2>2, <2>3 DEF ContainersShownTyped, Containers!Cached
<1>2. CASE Containers(about)!RefreshDetail
  <2> DEFINE requests == [r \in Containers(about)!Of(ui.id) |-> db.requests[r].status]
  <2>1. shown' = [containers |-> shown.containers, requests |-> requests, files |-> db.files[ui.id]]
    BY <1>2 DEF Containers!RefreshDetail, ContainersShownTyped
  <2>2. ui.id # Containers(about)!None
    BY <1>2 DEF Containers!RefreshDetail, Containers!onList
  <2>3. \A r \in DOMAIN requests :
          r \in about.requests /\ requests[r] \in Containers(about)!Status
    BY <2>2 DEF ContainersDbTyped, ContainersRow, Containers!Of
  <2> HIDE DEF requests
  <2> QED
    BY <2>1, <2>3 DEF ContainersShownTyped, Containers!Cached
<1> QED
  BY <1>1, <1>2

\* A call is sent.
LEMMA ContainersMutateTyped ==
  ASSUME NEW about, ContainersCallsTyped(about), NEW kind, NEW id, NEW arg, NEW offer,
         Containers(about)!Mutate(kind, id, arg, offer),
         kind = "diff" => {arg.from, arg.to} \subseteq about.revisions,
         kind = "shareCreate" => id # Containers(about)!None
  PROVE  ContainersCallsTyped(about)'
<1> DEFINE d(seen) == [kind |-> kind, id |-> id, arg |-> arg, offer |-> offer, seen |-> seen,
                       from |-> Containers(about)!None, state |-> "sent", mounted |-> TRUE]
<1>1. ASSUME NEW seen
      PROVE  ContainersCall(about, d(seen))
  BY DEF ContainersCall
<1>2. \E seen : calls' = calls \cup {d(seen)}
  BY DEF Containers!Mutate
<1> HIDE DEF d
<1> QED
  BY <1>1, <1>2 DEF ContainersCallsTyped, ContainersCall

\* A call is served.
LEMMA ContainersSettleTyped ==
  ASSUME NEW about, Containers(about)!CallsInv, ContainersCallsTyped(about), NEW c \in calls,
         Containers(about)!Serve(c)
  PROVE  ContainersCallsTyped(about)'
<1>1. PICK state, from : calls' = (calls \ {c}) \cup {[c EXCEPT !.state = state, !.from = from]}
  BY DEF Containers!Serve, Containers!Settle
<1> DEFINE d == [c EXCEPT !.state = state, !.from = from]
<1>2. calls' = (calls \ {c}) \cup {d}
  BY <1>1
<1>3. ContainersCall(about, d)
  BY DEF ContainersCallsTyped, ContainersCall, Containers!CallsInv, Containers!CallInv,
         Containers!Whole
<1> HIDE DEF d
<1> QED
  BY <1>2, <1>3 DEF ContainersCallsTyped, ContainersCall

\* The user goes from the list to a container, or back.
LEMMA ContainersLeaveTyped ==
  ASSUME NEW about, Containers(about)!CallsInv, ContainersCallsTyped(about), NEW u,
         Containers(about)!Leave(u)
  PROVE  ContainersCallsTyped(about)'
<1> DEFINE left == { [c EXCEPT !.mounted = FALSE] : c \in calls }
<1>1. ASSUME NEW c \in calls
      PROVE  ContainersCall(about, [c EXCEPT !.mounted = FALSE])
  BY DEF ContainersCallsTyped, ContainersCall, Containers!CallsInv, Containers!CallInv,
         Containers!Whole
<1>2. \A c \in left : ContainersCall(about, c)
  BY <1>1, Zenon
<1>3. calls' = left
  BY DEF Containers!Leave
<1> HIDE DEF left
<1> QED
  BY <1>2, <1>3 DEF ContainersCallsTyped, ContainersCall

\* A page is opened.
LEMMA ContainersOpenTyped ==
  ASSUME NEW about, NEW id \in about.containers \cup {Containers(about)!None}
  PROVE  ContainersUiTyped(about, Containers(about)!Detail(id))
<1> DEFINE u == Containers(about)!List
<1>a. ASSUME NEW v, v = [id |-> v.id, stateFilter |-> v.stateFilter, showForm |-> v.showForm,
                         previewId |-> v.previewId, diff |-> v.diff, shareError |-> v.shareError]
      PROVE  [v EXCEPT !.id = id] =
               [id |-> id, stateFilter |-> v.stateFilter, showForm |-> v.showForm,
                previewId |-> v.previewId, diff |-> v.diff, shareError |-> v.shareError]
  BY <1>a
<1>b. /\ u = [id |-> u.id, stateFilter |-> u.stateFilter, showForm |-> u.showForm,
              previewId |-> u.previewId, diff |-> u.diff, shareError |-> u.shareError]
      /\ u.stateFilter = Containers(about)!All /\ u.previewId = Containers(about)!None
      /\ u.diff = Containers(about)!NoPair
  BY DEF Containers!List
<1>c. Containers(about)!Detail(id) = [u EXCEPT !.id = id]
  BY DEF Containers!Detail
<1> HIDE DEF u
<1>1. Containers(about)!Detail(id) =
        [id |-> id, stateFilter |-> u.stateFilter, showForm |-> u.showForm,
         previewId |-> u.previewId, diff |-> u.diff, shareError |-> u.shareError]
  BY <1>a, <1>b, <1>c
<1> QED
  BY <1>1, <1>b DEF ContainersUiTyped, Containers!NoPair

\* The clicks of the list and of the page of a container that send a call.
LEMMA ContainersSentTyped ==
  ASSUME NEW about, ContainersTyped(about),
         \/ Containers(about)!Create \/ Containers(about)!Transition
         \/ Containers(about)!ShareCreate
         \/ \E f \in about.files : Containers(about)!DeleteFile(f)
         \/ \E from, to \in about.revisions : Containers(about)!Compare(from, to)
         \/ \E r \in about.requests, kind \in {"approved", "rejected", "revoked"} :
              Containers(about)!ShareAct(r, kind)
  PROVE  ContainersTyped(about)'
<1>a. ContainersCallsTyped(about) /\ ContainersUiTyped(about, ui)
  BY DEF ContainersTyped
<1>b. ASSUME UNCHANGED <<shown, db>>
      PROVE  ContainersShownTyped(about)' /\ ContainersDbTyped(about)'
  BY <1>b DEF ContainersTyped, ContainersShownTyped, ContainersDbTyped, ContainersRow,
     Containers!Cached
<1>c. ASSUME UNCHANGED <<ui, shown, db>>, ContainersCallsTyped(about)'
      PROVE  ContainersTyped(about)'
  BY <1>a, <1>b, <1>c DEF ContainersTyped, ContainersUiTyped
<1>1. CASE Containers(about)!Create
  BY <1>1, <1>a, <1>c, ContainersMutateTyped DEF Containers!Create
<1>2. CASE Containers(about)!Transition
  <2>1. \E c, o : Containers(about)!Mutate("transition", c, Containers(about)!None, o)
    BY <1>2 DEF Containers!Transition
  <2> QED
    BY <1>2, <1>a, <1>c, <2>1, ContainersMutateTyped DEF Containers!Transition
<1>3. CASE Containers(about)!ShareCreate
  BY <1>3, <1>a, <1>c, ContainersMutateTyped
  DEF Containers!ShareCreate, Containers!found, Containers!onList
<1>4. ASSUME NEW f, Containers(about)!DeleteFile(f)
      PROVE  ContainersTyped(about)'
  BY <1>4, <1>a, <1>c, ContainersMutateTyped DEF Containers!DeleteFile
<1>5. ASSUME NEW from \in about.revisions, NEW to \in about.revisions,
             Containers(about)!Compare(from, to)
      PROVE  ContainersTyped(about)'
  <2>1. ContainersCallsTyped(about)'
    BY <1>5, <1>a, ContainersMutateTyped DEF Containers!Compare
  <2>2. ui' = [ui EXCEPT !.diff = Containers(about)!NoPair] /\ UNCHANGED <<shown, db>>
    BY <1>5 DEF Containers!Compare
  <2>3. ContainersUiTyped(about, ui)'
    BY <1>a, <2>2 DEF ContainersUiTyped, Containers!NoPair
  <2> QED
    BY <1>b, <2>1, <2>2, <2>3 DEF ContainersTyped
<1>6. ASSUME NEW r, NEW kind \in {"approved", "rejected", "revoked"}, Containers(about)!ShareAct(r, kind)
      PROVE  ContainersTyped(about)'
  BY <1>6, <1>a, <1>c, ContainersMutateTyped DEF Containers!ShareAct
<1> QED
  BY <1>1, <1>2, <1>3, <1>4, <1>5, <1>6

\* Every step of these pages keeps the types.
LEMMA ContainersNextTyped ==
  ASSUME NEW about, Containers(about)!CallsInv, ContainersTyped(about),
         [Containers(about)!Next]_(Containers(about)!vars)
  PROVE  ContainersTyped(about)'
<1>a. /\ ContainersUiTyped(about, ui) /\ ContainersShownTyped(about) /\ ContainersDbTyped(about)
      /\ ContainersCallsTyped(about)
  BY DEF ContainersTyped
<1>b. ASSUME UNCHANGED ui PROVE ContainersUiTyped(about, ui)'
  BY <1>a, <1>b DEF ContainersUiTyped
<1>c. ASSUME UNCHANGED shown PROVE ContainersShownTyped(about)'
  BY <1>a, <1>c DEF ContainersShownTyped, Containers!Cached
<1>d. ASSUME UNCHANGED db PROVE ContainersDbTyped(about)'
  BY <1>a, <1>d DEF ContainersDbTyped, ContainersRow
<1>e. ASSUME calls' \subseteq calls PROVE ContainersCallsTyped(about)'
  BY <1>a, <1>e DEF ContainersCallsTyped, ContainersCall
<1>1. ASSUME NEW f \in Containers(about)!ContainerState \cup {Containers(about)!All},
             Containers(about)!SetStateFilter(f)
      PROVE  ContainersTyped(about)'
  <2>1. ui' = [ui EXCEPT !.stateFilter = f] /\ UNCHANGED <<shown, calls, db>>
    BY <1>1 DEF Containers!SetStateFilter, Containers!SetUi
  <2>2. ContainersUiTyped(about, ui)'
    BY <1>a, <2>1 DEF ContainersUiTyped
  <2> QED
    BY <1>c, <1>d, <1>e, <2>1, <2>2 DEF ContainersTyped
<1>2. ASSUME NEW c \in about.containers, Containers(about)!TogglePreview(c)
      PROVE  ContainersTyped(about)'
  <2>1. PICK id \in {c, Containers(about)!None} : ui' = [ui EXCEPT !.previewId = id]
    BY <1>2 DEF Containers!TogglePreview, Containers!SetUi
  <2>2. ContainersUiTyped(about, ui)'
    BY <1>a, <2>1 DEF ContainersUiTyped
  <2> QED
    BY <1>2, <1>c, <1>d, <1>e, <2>2
    DEF Containers!TogglePreview, Containers!SetUi, ContainersTyped
<1>3. ASSUME NEW show \in BOOLEAN, Containers(about)!SetShowForm(show)
      PROVE  ContainersTyped(about)'
  <2>1. ui' = [ui EXCEPT !.showForm = show] /\ UNCHANGED <<shown, calls, db>>
    BY <1>3 DEF Containers!SetShowForm, Containers!SetUi
  <2>2. ContainersUiTyped(about, ui)'
    BY <1>a, <2>1 DEF ContainersUiTyped
  <2> QED
    BY <1>c, <1>d, <1>e, <2>1, <2>2 DEF ContainersTyped
<1>4. CASE Containers(about)!OpenDetail
  <2>1. ui.previewId \in about.containers
    BY <1>a, <1>4 DEF Containers!OpenDetail, Containers!previewContainer, Containers!Rows,
       ContainersShownTyped
  <2>2. /\ ui' = Containers(about)!Detail(ui.previewId) /\ UNCHANGED db
        /\ ContainersCallsTyped(about)'
    BY <1>a, <1>4, ContainersLeaveTyped DEF Containers!OpenDetail, Containers!Leave
  <2>3. shown' = [containers |-> shown.containers, files |-> {},
                  requests |-> [r \in {} |-> Containers(about)!None]]
    BY <1>a, <1>4 DEF Containers!OpenDetail, ContainersShownTyped
  <2>4. ContainersShownTyped(about)'
    BY <1>a, <2>3 DEF ContainersShownTyped, Containers!Cached
  <2>5. ContainersUiTyped(about, ui')
    BY <2>1, <2>2, ContainersOpenTyped
  <2> QED
    BY <1>d, <2>2, <2>4, <2>5 DEF ContainersTyped, ContainersUiTyped
<1>5. CASE Containers(about)!BackToList
  <2>1. /\ ui' = Containers(about)!List /\ UNCHANGED <<shown, db>>
        /\ ContainersCallsTyped(about)'
    BY <1>a, <1>5, ContainersLeaveTyped DEF Containers!BackToList, Containers!Leave
  <2>2. ContainersUiTyped(about, ui')
    BY <2>1 DEF Containers!List, Containers!NoPair, ContainersUiTyped
  <2> QED
    BY <1>c, <1>d, <2>1, <2>2 DEF ContainersTyped, ContainersUiTyped
<1>6. ASSUME NEW c \in calls, Containers(about)!Serve(c)
      PROVE  ContainersTyped(about)'
  <2>1. ContainersDbTyped(about)'
    BY <1>a, <1>d, <1>6, ContainersEffectsTyped DEF Containers!Serve, ContainersCallsTyped
  <2>2. ContainersCallsTyped(about)'
    BY <1>a, <1>6, ContainersSettleTyped
  <2> QED
    BY <1>b, <1>c, <1>6, <2>1, <2>2 DEF Containers!Serve, ContainersTyped
<1>7. ASSUME NEW c \in calls, Containers(about)!Succeeded(c)
      PROVE  ContainersTyped(about)'
  <2>1. \/ ui' = ui
        \/ ui' = [ui EXCEPT !.showForm = FALSE]
        \/ c.kind = "diff" /\ ui' = [ui EXCEPT !.diff = c.arg]
        \/ ui' = [ui EXCEPT !.shareError = FALSE]
    BY <1>7 DEF Containers!Succeeded
  <2>2. c.kind = "diff" => {c.arg.from, c.arg.to} \subseteq about.revisions
    BY <1>a DEF ContainersCallsTyped, ContainersCall
  <2>3. ContainersUiTyped(about, ui)'
    BY <1>a, <2>1, <2>2 DEF ContainersUiTyped
  <2> QED
    BY <1>c, <1>d, <1>e, <1>7, <2>3 DEF Containers!Succeeded, ContainersTyped
<1>8. ASSUME NEW c \in calls, Containers(about)!Failed(c)
      PROVE  ContainersTyped(about)'
  <2>1. ui' = ui \/ ui' = [ui EXCEPT !.shareError = TRUE]
    BY <1>8 DEF Containers!Failed
  <2>2. ContainersUiTyped(about, ui)'
    BY <1>a, <2>1 DEF ContainersUiTyped
  <2> QED
    BY <1>c, <1>d, <1>e, <1>8, <2>2 DEF Containers!Failed, ContainersTyped
<1>9. CASE Containers(about)!RefreshList \/ Containers(about)!RefreshDetail
  <2>1. ContainersShownTyped(about)'
    BY <1>a, <1>9, ContainersRefreshTyped
  <2> QED
    BY <1>b, <1>d, <1>e, <1>9, <2>1
    DEF Containers!RefreshList, Containers!RefreshDetail, ContainersTyped
<1>10. CASE Containers(about)!Elsewhere
  <2>1. ContainersDbTyped(about)'
    BY <1>a, <1>10, ContainersElsewhereTyped
  <2> QED
    BY <1>b, <1>c, <1>e, <1>10, <2>1 DEF Containers!Elsewhere, ContainersTyped
<1>11. CASE UNCHANGED Containers(about)!vars
  BY <1>b, <1>c, <1>d, <1>e, <1>11 DEF Containers!vars, ContainersTyped
<1> QED
  BY <1>1, <1>2, <1>3, <1>4, <1>5, <1>6, <1>7, <1>8, <1>9, <1>10, <1>11, ContainersSentTyped
  DEF Containers!Next

\* The list, before the first answer.
LEMMA ContainersInitTyped ==
  ASSUME NEW about, Containers(about)!Init
  PROVE  ContainersTyped(about)
<1>1. ContainersUiTyped(about, ui)
  BY DEF Containers!Init, Containers!List, Containers!NoPair, ContainersUiTyped
<1>2. ContainersShownTyped(about) /\ ContainersCallsTyped(about)
  BY DEF Containers!Init, ContainersShownTyped, ContainersCallsTyped, Containers!Cached
<1>3. ContainersDbTyped(about)
  BY DEF Containers!Init, ContainersDbTyped, ContainersRow, Containers!ContainerState
<1> QED
  BY <1>1, <1>2, <1>3 DEF ContainersTyped

\* This is what these pages keep of their types.
LEMMA ContainersTypes ==
  ASSUME NEW about, ContainersTyped(about)
  PROVE  Containers(about)!TypeOK
BY DEF ContainersTyped, ContainersUiTyped, ContainersShownTyped, ContainersDbTyped, ContainersRow,
       Containers!TypeOK

-----------------------------------------------------------------------------
(***************************************************************************)
(* The figures of a project                                                *)
(***************************************************************************)

\* What is displayed was asked for what is selected.
LEMMA ViewsDataIsCurrent ==
  ASSUME Views!ViewInv, Views!Data # Views!Zero
  PROVE  /\ Views!Data = Views!Names(Views!Current, Views!Data.thresholdHours)
         /\ ui.view = "approval-delays" => Views!Data.thresholdHours = ui.thresholdHours
<1>1. Views!Data = shown.answers[Views!key] /\ Views!key \in DOMAIN shown.answers
  BY DEF Views!Data
<1>2. Views!KeyedBy(Views!key, Views!Data)
  BY <1>1 DEF Views!ViewInv, Views!AnswersKeyed
<1>3. Views!key = Views!Key(Views!Current, ui.thresholdHours)
  BY DEF Views!key
<1> QED
  BY <1>2, <1>3 DEF Views!KeyedBy, Views!Key

\* Every view names what its key names.
LEMMA ViewsInvGivesView ==
  ASSUME Views!ViewInv
  PROVE  Views!ViewIsOfItsSelection
<1> SUFFICES ASSUME Views!Data # Views!Zero
             PROVE  Views!Displayed.figures = Views!Displayed.names
  <2>1. CASE Views!Data # Views!Zero
    BY <2>1 DEF Views!ViewIsOfItsSelection
  <2>2. CASE Views!Data = Views!Zero
    <3>1. ui.view \in Views!View
      BY DEF Views!ViewInv, Views!Ui
    <3>2. Views!Displayed.figures = Views!Data
      BY <3>1 DEF Views!View, Views!Reports, Views!Displayed, Views!onProjects,
         Views!ProjectDetail, Views!Dashboard,
                  Views!namingViolations, Views!approvalDelays, Views!requirementsStatus
    <3> QED
      BY <2>2, <3>2 DEF Views!ViewIsOfItsSelection
  <2> QED
    BY <2>1, <2>2
<1>1. /\ Views!Data = Views!Names(Views!Current, Views!Data.thresholdHours)
      /\ ui.view = "approval-delays" => Views!Data.thresholdHours = ui.thresholdHours
  BY ViewsDataIsCurrent
<1>2. ui.view \in Views!View
  BY DEF Views!ViewInv, Views!Ui
<1>3. CASE ui.view = "project-containers"
  BY <1>1, <1>3 DEF Views!Displayed, Views!Current, Views!onProjects, Views!ProjectDetail
<1>4. CASE ui.view = "dashboard-containers"
  BY <1>1, <1>4 DEF Views!Displayed, Views!Current, Views!onProjects, Views!Dashboard
<1>5. CASE ui.view = "naming-violations"
  BY <1>1, <1>5 DEF Views!Displayed, Views!Current, Views!onProjects, Views!namingViolations
<1>6. CASE ui.view = "approval-delays"
  BY <1>1, <1>6 DEF Views!Displayed, Views!Current, Views!onProjects, Views!approvalDelays
<1>7. CASE ui.view = "requirements-status"
  BY <1>1, <1>7 DEF Views!Displayed, Views!Current, Views!onProjects, Views!requirementsStatus
<1> QED
  BY <1>2, <1>3, <1>4, <1>5, <1>6, <1>7 DEF Views!View, Views!Reports

-----------------------------------------------------------------------------
(* The steps.                                                              *)

\* Keys depend on the view, which stays.
LEMMA ViewsKeyStands ==
  ASSUME ui'.view = ui.view
  PROVE  /\ \A p, h : Views!Key(p, h)' = Views!Key(p, h)
         /\ \A k, asked : Views!KeyedBy(k, asked)' = Views!KeyedBy(k, asked)
         /\ \A c : Views!GetCall(c)' = Views!GetCall(c)
<1>1. \A p, h : Views!Key(p, h)' = Views!Key(p, h)
  BY DEF Views!Key
<1> QED
  BY <1>1 DEF Views!KeyedBy, Views!GetCall

\* Nothing is cached and nothing is asked for.
LEMMA ViewsInitInv == Views!Init => Views!ViewInv
<1> SUFFICES ASSUME Views!Init PROVE Views!ViewInv
  OBVIOUS
<1>1. PICK view \in Views!View : ui = Views!Fresh(view)
  BY DEF Views!Init
<1>2. ui \in Views!Ui
  BY <1>1 DEF Views!Fresh, Views!Ui, Views!Hours, Views!All, Views!ProjectStatus
<1> QED
  BY <1>2 DEF Views!Init, Views!ViewInv, Views!AnswersKeyed, Views!CallsKeyed

\* A step that only the selection of the page sees.
LEMMA ViewsSelectionInv ==
  ASSUME Views!ViewInv, ui' \in Views!Ui, ui'.view = ui.view, UNCHANGED shown,
         \A c \in calls' : c \in calls \/ Views!CreateCall(c)
  PROVE  Views!ViewInv'
BY ViewsKeyStands DEF Views!ViewInv, Views!AnswersKeyed, Views!CallsKeyed, Views!CreateCall

\* A call that only changes its state.
LEMMA ViewsSettleInv ==
  ASSUME Views!ViewInv, UNCHANGED <<ui, shown>>, NEW c \in calls, NEW state,
         Views!Settle(c, state)
  PROVE  Views!ViewInv'
<1> DEFINE d == [c EXCEPT !.state = state]
<1>1. calls' = (calls \ {c}) \cup {d}
  BY DEF Views!Settle
<1>2. Views!GetCall(d) \/ Views!CreateCall(d)
  <2>1. CASE Views!GetCall(c)
    BY <2>1 DEF Views!GetCall
  <2>2. CASE Views!CreateCall(c)
    BY <2>2 DEF Views!CreateCall
  <2> QED
    BY <2>1, <2>2 DEF Views!ViewInv, Views!CallsKeyed
<1> HIDE DEF d
<1>3. \A e \in calls' : Views!GetCall(e) \/ Views!CreateCall(e)
  BY <1>1, <1>2 DEF Views!ViewInv, Views!CallsKeyed
<1> QED
  BY <1>3, ViewsKeyStands
  DEF Views!ViewInv, Views!AnswersKeyed, Views!CallsKeyed, Views!CreateCall

\* A query is answered, and cached under its key.
LEMMA ViewsAnswerInv ==
  ASSUME Views!ViewInv, NEW c \in calls, Views!Answer(c)
  PROVE  Views!ViewInv'
<1> DEFINE answers == [k \in DOMAIN shown.answers \cup {c.key} |->
                         IF k = c.key THEN c.asked ELSE shown.answers[k]]
<1>1. Views!KeyedBy(c.key, c.asked)
  BY DEF Views!ViewInv, Views!CallsKeyed, Views!Answer, Views!GetCall, Views!CreateCall
<1>2. shown' = [projects |-> shown.projects, answers |-> answers]
  BY DEF Views!Answer, Views!ViewInv
<1>3. \A k \in DOMAIN answers : Views!KeyedBy(k, answers[k])
  BY <1>1 DEF Views!ViewInv, Views!AnswersKeyed
<1> HIDE DEF answers
<1>4. UNCHANGED ui /\ calls' \subseteq calls
  BY DEF Views!Answer
<1> QED
  BY <1>2, <1>3, <1>4, ViewsKeyStands
  DEF Views!ViewInv, Views!AnswersKeyed, Views!CallsKeyed, Views!CreateCall

\* A query is sent for what is selected.
LEMMA ViewsFetchInv ==
  ASSUME Views!ViewInv, Views!Fetch
  PROVE  Views!ViewInv'
<1> DEFINE asked == [project |-> Views!Current, thresholdHours |-> ui.thresholdHours]
           c == [kind |-> "get", key |-> Views!key, state |-> "sent", asked |-> asked]
<1>1. calls' = calls \cup {c} /\ UNCHANGED <<ui, shown>>
  BY DEF Views!Fetch
<1>2. Views!GetCall(c)
  BY DEF Views!GetCall, Views!KeyedBy, Views!key, Views!Names
<1> HIDE DEF c
<1> QED
  BY <1>1, <1>2, ViewsKeyStands
  DEF Views!ViewInv, Views!AnswersKeyed, Views!CallsKeyed, Views!CreateCall

\* The list of the projects is read again.
LEMMA ViewsRefreshProjectsInv ==
  ASSUME Views!ViewInv, Views!RefreshProjects
  PROVE  Views!ViewInv'
<1>1. UNCHANGED <<ui, calls>>
  BY DEF Views!RefreshProjects
<1>2. PICK s \in Views!Pages : \E first \in IF s = {} THEN {Views!None} ELSE s :
        shown' = [shown EXCEPT !.projects = [status |-> Views!Restrict(db, s), first |-> first]]
  BY DEF Views!RefreshProjects
<1>3. shown' = [projects |-> shown'.projects, answers |-> shown.answers]
  BY <1>2 DEF Views!ViewInv
<1>4. shown'.answers = shown.answers
  BY <1>3
<1> QED
  BY <1>1, <1>3, <1>4, ViewsKeyStands
  DEF Views!ViewInv, Views!AnswersKeyed, Views!CallsKeyed, Views!CreateCall

\* The page is left and opened again.
LEMMA ViewsRemountInv ==
  ASSUME Views!ViewInv, Views!Remount
  PROVE  Views!ViewInv'
<1>1. ui' \in Views!Ui /\ ui'.view = ui.view /\ UNCHANGED shown
  BY DEF Views!Remount, Views!ViewInv, Views!Ui, Views!Fresh, Views!Hours, Views!All,
         Views!ProjectStatus
<1>2. ASSUME NEW c \in calls
      PROVE  c.kind = "create" => Views!CreateCall([c EXCEPT !.mounted = FALSE])
  <2>1. CASE Views!GetCall(c)
    <3>1. c.kind = "get"
      BY <2>1 DEF Views!GetCall
    <3> QED
      BY <3>1
  <2>2. CASE Views!CreateCall(c)
    <3>1. ASSUME NEW m
          PROVE  Views!CreateCall([c EXCEPT !.mounted = m])
      BY <2>2 DEF Views!CreateCall
    <3> QED
      BY <3>1
  <2> QED
    BY <2>1, <2>2 DEF Views!ViewInv, Views!CallsKeyed
<1>3. \A c \in calls' : c \in calls \/ Views!CreateCall(c)
  BY <1>2 DEF Views!Remount
<1> QED
  BY <1>1, <1>3, ViewsSelectionInv

\* Every step of these pages keeps their invariant.
LEMMA ViewsNextInv == Views!ViewInv /\ [Views!Next]_(Views!vars) => Views!ViewInv'
<1> SUFFICES ASSUME Views!ViewInv, [Views!Next]_(Views!vars)
             PROVE  Views!ViewInv'
  OBVIOUS
<1>1. ASSUME NEW f \in Views!ProjectStatus \cup {Views!All}, Views!SetFilter(f)
      PROVE  Views!ViewInv'
  <2>1. ui' \in Views!Ui /\ ui'.view = ui.view /\ UNCHANGED <<shown, calls>>
    BY <1>1 DEF Views!SetFilter, Views!SetUi, Views!ViewInv, Views!Ui
  <2> QED
    BY <2>1, ViewsSelectionInv
<1>2. ASSUME NEW show \in BOOLEAN, Views!SetShowForm(show)
      PROVE  Views!ViewInv'
  <2>1. ui' \in Views!Ui /\ ui'.view = ui.view /\ UNCHANGED <<shown, calls>>
    BY <1>2 DEF Views!SetShowForm, Views!SetUi, Views!ViewInv, Views!Ui
  <2> QED
    BY <2>1, ViewsSelectionInv
<1>3. ASSUME NEW p \in Project, Views!TogglePanel(p)
      PROVE  Views!ViewInv'
  <2>1. ui' \in Views!Ui /\ ui'.view = ui.view /\ UNCHANGED <<shown, calls>>
    BY <1>3 DEF Views!TogglePanel, Views!SetUi, Views!ViewInv, Views!Ui
  <2> QED
    BY <2>1, ViewsSelectionInv
<1>4. ASSUME NEW p \in Project, Views!SelectReport(p)
      PROVE  Views!ViewInv'
  <2>1. ui' \in Views!Ui /\ ui'.view = ui.view /\ UNCHANGED <<shown, calls>>
    BY <1>4 DEF Views!SelectReport, Views!SetUi, Views!ViewInv, Views!Ui
  <2> QED
    BY <2>1, ViewsSelectionInv
<1>5. ASSUME NEW typed \in Typed, Views!SetThreshold(typed)
      PROVE  Views!ViewInv'
  <2>1. ui' \in Views!Ui /\ ui'.view = ui.view /\ UNCHANGED <<shown, calls>>
    BY <1>5 DEF Views!SetThreshold, Views!SetUi, Views!ViewInv, Views!Ui
  <2> QED
    BY <2>1, ViewsSelectionInv
<1>6. ASSUME Views!ClosePanel
      PROVE  Views!ViewInv'
  <2>1. ui' \in Views!Ui /\ ui'.view = ui.view /\ UNCHANGED <<shown, calls>>
    BY <1>6 DEF Views!ClosePanel, Views!SetUi, Views!ViewInv, Views!Ui
  <2> QED
    BY <2>1, ViewsSelectionInv
<1>7. ASSUME Views!Create
      PROVE  Views!ViewInv'
  <2>1. ui' \in Views!Ui /\ ui'.view = ui.view /\ UNCHANGED shown
    BY <1>7 DEF Views!Create, Views!ViewInv
  <2>2. \A c \in calls' : c \in calls \/ Views!CreateCall(c)
    BY <1>7 DEF Views!Create, Views!CreateCall
  <2> QED
    BY <2>1, <2>2, ViewsSelectionInv
<1>8. ASSUME Views!Remount
      PROVE  Views!ViewInv'
  BY <1>8, ViewsRemountInv
<1>9. ASSUME Views!Fetch
      PROVE  Views!ViewInv'
  BY <1>9, ViewsFetchInv
<1>10. ASSUME Views!RefreshProjects
       PROVE  Views!ViewInv'
  BY <1>10, ViewsRefreshProjectsInv
<1>11. ASSUME NEW c \in calls, Views!ServeGet(c) \/ Views!ServeCreate(c) \/ Views!Lose(c)
       PROVE  Views!ViewInv'
  <2>1. UNCHANGED <<ui, shown>> /\ \E state : Views!Settle(c, state)
    BY <1>11 DEF Views!ServeGet, Views!ServeCreate, Views!Lose
  <2> QED
    BY <2>1, ViewsSettleInv
<1>12. ASSUME NEW c \in calls, Views!Answer(c)
       PROVE  Views!ViewInv'
  BY <1>12, ViewsAnswerInv
<1>13. ASSUME NEW c \in calls, Views!Created(c) \/ Views!Failed(c)
       PROVE  Views!ViewInv'
  <2>1. ui' \in Views!Ui /\ ui'.view = ui.view /\ UNCHANGED shown /\ calls' \subseteq calls
    BY <1>13 DEF Views!Created, Views!Failed, Views!ViewInv, Views!Ui
  <2> QED
    BY <2>1, ViewsSelectionInv
<1>14. ASSUME Views!Elsewhere \/ UNCHANGED Views!vars
       PROVE  Views!ViewInv'
  <2>1. UNCHANGED <<ui, shown, calls>>
    BY <1>14 DEF Views!Elsewhere, Views!vars
  <2>2. ui' \in Views!Ui
    BY <2>1 DEF Views!ViewInv
  <2> QED
    BY <2>1, <2>2, ViewsSelectionInv
<1> QED
  BY <1>1, <1>2, <1>3, <1>4, <1>5, <1>6, <1>7, <1>8, <1>9, <1>10, <1>11, <1>12, <1>13, <1>14
  DEF Views!Next

-----------------------------------------------------------------------------
(* The types of these pages.                                               *)

\* The list shows projects, and the first of them; the database knows each.
ViewsListed ==
  /\ DOMAIN Views!projects \subseteq Project
  /\ \/ Views!firstProject \in DOMAIN Views!projects
     \/ Views!firstProject = Views!None /\ DOMAIN Views!projects = {}
  /\ db \in [Project -> Views!ProjectStatus \cup {Views!None}]

\* The list is empty, and every project is active or still to be created.
LEMMA ViewsInitListed == Views!Init => ViewsListed
<1> SUFFICES ASSUME Views!Init
             PROVE  ViewsListed
  OBVIOUS
<1>1. shown.projects = [status |-> [p \in {} |-> Views!None], first |-> Views!None]
  BY DEF Views!Init
<1>2. DOMAIN Views!projects = {} /\ Views!firstProject = Views!None
  BY <1>1 DEF Views!projects, Views!firstProject
<1>3. db \in [Project -> Views!ProjectStatus \cup {Views!None}]
  BY DEF Views!Init, Views!ProjectStatus
<1> QED
  BY <1>2, <1>3 DEF ViewsListed

\* An answer shows projects that are there.
LEMMA ViewsRefreshListed ==
  ASSUME Views!ViewInv, ViewsListed, Views!RefreshProjects
  PROVE  ViewsListed'
<1>1. PICK s \in Views!Pages : \E first \in IF s = {} THEN {Views!None} ELSE s :
        shown' = [shown EXCEPT !.projects = [status |-> Views!Restrict(db, s), first |-> first]]
  BY DEF Views!RefreshProjects
<1>2. PICK first \in IF s = {} THEN {Views!None} ELSE s :
        shown' = [shown EXCEPT !.projects = [status |-> Views!Restrict(db, s), first |-> first]]
  BY <1>1
<1>3. s \subseteq Project
  BY DEF Views!Pages, Views!Live
<1>4. shown'.projects = [status |-> Views!Restrict(db, s), first |-> first]
  BY <1>2 DEF Views!ViewInv
<1>5. DOMAIN Views!projects' = s /\ Views!firstProject' = first
  BY <1>4 DEF Views!projects, Views!firstProject, Views!Restrict
<1>6. db' = db
  BY DEF Views!RefreshProjects
<1> QED
  BY <1>2, <1>3, <1>5, <1>6 DEF ViewsListed

\* Every step of these pages keeps the list one of projects.
LEMMA ViewsNextListed ==
  ASSUME Views!ViewInv, ViewsListed, [Views!Next]_(Views!vars)
  PROVE  ViewsListed'
<1>1. CASE UNCHANGED <<shown, db>>
  BY <1>1 DEF ViewsListed, Views!projects, Views!firstProject
<1>2. CASE Views!RefreshProjects
  BY <1>2, ViewsRefreshListed
<1>3. ASSUME NEW c \in calls, Views!Answer(c)
      PROVE  ViewsListed'
  <2>1. shown'.projects = shown.projects /\ db' = db
    BY <1>3 DEF Views!Answer, Views!ViewInv
  <2> QED
    BY <2>1 DEF ViewsListed, Views!projects, Views!firstProject
<1>4. ASSUME UNCHANGED shown, NEW p \in Project, NEW status \in Views!ProjectStatus,
             db' = [db EXCEPT ![p] = status]
      PROVE  ViewsListed'
  BY <1>4 DEF ViewsListed, Views!projects, Views!firstProject
<1>5. ASSUME NEW c \in calls, Views!ServeCreate(c)
      PROVE  ViewsListed'
  BY <1>1, <1>4, <1>5 DEF Views!ServeCreate, Views!ProjectStatus
<1>6. CASE Views!Elsewhere
  BY <1>4, <1>6 DEF Views!Elsewhere
<1>7. ASSUME \/ \E f \in Views!ProjectStatus \cup {Views!All} : Views!SetFilter(f)
             \/ \E show \in BOOLEAN : Views!SetShowForm(show)
             \/ \E p \in Project : Views!TogglePanel(p) \/ Views!SelectReport(p)
             \/ \E typed \in Typed : Views!SetThreshold(typed)
             \/ Views!ClosePanel
      PROVE  UNCHANGED <<shown, db>>
  BY <1>7, Zenon DEF Views!SetFilter, Views!SetShowForm, Views!TogglePanel, Views!SelectReport,
     Views!SetThreshold, Views!ClosePanel, Views!SetUi
<1>8. Views!Create \/ Views!Remount \/ Views!Fetch => UNCHANGED <<shown, db>>
  BY DEF Views!Create, Views!Remount, Views!Fetch
<1>9. ASSUME NEW c \in calls,
             Views!ServeGet(c) \/ Views!Lose(c) \/ Views!Created(c) \/ Views!Failed(c)
      PROVE  UNCHANGED <<shown, db>>
  BY <1>9 DEF Views!ServeGet, Views!Lose, Views!Created, Views!Failed
<1>10. CASE UNCHANGED Views!vars
  BY <1>1, <1>10 DEF Views!vars
<1> QED
  BY <1>1, <1>2, <1>3, <1>5, <1>6, <1>7, <1>8, <1>9, <1>10 DEF Views!Next

\* What the two say together.
LEMMA ViewsTyped ==
  ASSUME Views!ViewInv, ViewsListed
  PROVE  Views!TypeOK
<1>1. /\ ui.view \in Views!View /\ ui.filter \in Views!ProjectStatus \cup {Views!All}
      /\ ui.showForm \in BOOLEAN /\ ui.selectedId \in Project \cup {Views!None}
      /\ ui.thresholdHours \in { Views!Hours(t) : t \in Typed \cup {0} }
  BY DEF Views!ViewInv, Views!Ui
<1> QED
  BY <1>1 DEF ViewsListed, Views!TypeOK

-----------------------------------------------------------------------------
(***************************************************************************)
(* The queue of the approver                                               *)
(***************************************************************************)

\* A set of tasks that is not empty has a first.
LEMMA SmallestIsThere ==
  ASSUME NEW S, S \subseteq Nat, S # {}
  PROVE  Approvals!Min(S) \in S
<1>1. PICK x \in S : \A y \in S : <<y, x>> \notin OpToRel(<, Nat)
  BY WFMin, NatLessThanWellFounded
<1>2. \A y \in S : ~ (y < x)
  BY <1>1 DEF OpToRel
<1>3. \A y \in S : x <= y
  BY <1>2
<1> QED
  BY <1>3 DEF Approvals!Min

\* The panel is about a task, if about anything.
LEMMA ApprovalsActive ==
  ASSUME Approvals!TypeOK
  PROVE  Approvals!active \in Task \cup {Approvals!None}
<1>1. Approvals!Filtered \subseteq Nat /\ Approvals!Filtered \subseteq Task
  BY TaskAssumption DEF Approvals!TypeOK, Approvals!Filtered
<1>2. Approvals!Filtered # {} => Approvals!Min(Approvals!Filtered) \in Task
  BY <1>1, SmallestIsThere
<1> QED
  BY <1>2 DEF Approvals!active, Approvals!TypeOK

\* A call is sent, settled or done with, and the approvals stay as they are.
LEMMA ApprovalsActInv ==
  ASSUME Approvals!ApprovalsInv, NEW result \in Approvals!Result, Approvals!Act(result)
  PROVE  Approvals!ApprovalsInv'
<1> DEFINE c == [task |-> Approvals!active, result |-> result, state |-> "sent", mounted |-> TRUE]
<1>1. c \in Approvals!Call /\ c.state = "sent"
  BY ApprovalsActive DEF Approvals!Act, Approvals!Call, Approvals!ApprovalsInv
<1>2. calls' = calls \cup {c} /\ UNCHANGED <<ui, shown, db>>
  BY DEF Approvals!Act
<1> HIDE DEF c
<1> QED
  BY <1>1, <1>2 DEF Approvals!ApprovalsInv, Approvals!TypeOK, Approvals!OkIsRecorded,
     Approvals!ToastNames, Approvals!AnnouncedIsRecorded

\* A call is answered, and tells the same as before.
LEMMA ApprovalsSettled ==
  ASSUME Approvals!TypeOK, NEW c \in calls, NEW state \in {"ok", "failed"}, NEW e,
         e = [c EXCEPT !.state = state]
  PROVE  e \in Approvals!Call /\ e.task = c.task /\ e.result = c.result /\ e.state = state
BY DEF Approvals!TypeOK, Approvals!Call

\* A call is refused or lost.
LEMMA ApprovalsFailInv ==
  ASSUME Approvals!ApprovalsInv, NEW c \in calls, Approvals!Settle(c, "failed"),
         UNCHANGED <<ui, shown, db>>
  PROVE  Approvals!ApprovalsInv'
<1> DEFINE e == [c EXCEPT !.state = "failed"]
<1>1. e \in Approvals!Call /\ e.state = "failed"
  BY ApprovalsSettled DEF Approvals!ApprovalsInv
<1>2. calls' = (calls \ {c}) \cup {e}
  BY DEF Approvals!Settle
<1> HIDE DEF e
<1> QED
  BY <1>1, <1>2 DEF Approvals!ApprovalsInv, Approvals!TypeOK, Approvals!OkIsRecorded,
     Approvals!ToastNames, Approvals!AnnouncedIsRecorded

\* Only a task that is to be decided changes its result.
LEMMA ApprovalsDecided ==
  ASSUME Approvals!ApprovalsInv, NEW t \in Task, db[t].result \in {"unassigned", "pending"},
         NEW result \in Approvals!Result \cup {"pending"}, db' = [db EXCEPT ![t].result = result]
  PROVE  /\ db' \in [Task -> [result : Approvals!Result \cup {"unassigned", "pending"},
                             in_progress : BOOLEAN]]
         /\ db'[t].result = result
         /\ \A u \in Task : db[u].result \in Approvals!Result => db'[u].result = db[u].result
BY DEF Approvals!ApprovalsInv, Approvals!TypeOK, Approvals!Result

\* Somebody else's step on an approval that is still to be decided.
LEMMA ApprovalsOtherInv ==
  ASSUME Approvals!ApprovalsInv, UNCHANGED <<ui, shown, calls>>,
         db' \in [Task -> [result : Approvals!Result \cup {"unassigned", "pending"},
                           in_progress : BOOLEAN]],
         \A u \in Task : db[u].result \in Approvals!Result => db'[u].result = db[u].result
  PROVE  Approvals!ApprovalsInv'
BY DEF Approvals!ApprovalsInv, Approvals!TypeOK, Approvals!Call, Approvals!OkIsRecorded,
   Approvals!ToastNames, Approvals!AnnouncedIsRecorded

\* The server records the decision, or refuses.
LEMMA ApprovalsServeInv ==
  ASSUME Approvals!ApprovalsInv, NEW c \in calls, Approvals!Serve(c)
  PROVE  Approvals!ApprovalsInv'
<1>1. CASE db[c.task].result = "pending"
  <2> DEFINE e == [c EXCEPT !.state = "ok"]
  <2>1. c \in Approvals!Call /\ c.task \in Task /\ c.result \in Approvals!Result
    BY DEF Approvals!ApprovalsInv, Approvals!TypeOK, Approvals!Call
  <2>2. e \in Approvals!Call /\ e.task = c.task /\ e.result = c.result
    BY ApprovalsSettled DEF Approvals!ApprovalsInv
  <2>3. /\ db' = [db EXCEPT ![c.task].result = c.result] /\ UNCHANGED <<ui, shown>>
        /\ calls' = (calls \ {c}) \cup {e}
    BY <1>1 DEF Approvals!Serve, Approvals!Settle
  <2>4. /\ db' \in [Task -> [result : Approvals!Result \cup {"unassigned", "pending"},
                             in_progress : BOOLEAN]]
        /\ db'[c.task].result = c.result
        /\ \A u \in Task : db[u].result \in Approvals!Result => db'[u].result = db[u].result
    BY <1>1, <2>1, <2>3, ApprovalsDecided
  <2> HIDE DEF e
  <2> QED
    BY <2>2, <2>3, <2>4 DEF Approvals!ApprovalsInv, Approvals!TypeOK, Approvals!Call,
       Approvals!OkIsRecorded, Approvals!ToastNames, Approvals!AnnouncedIsRecorded
<1>2. CASE Approvals!Settle(c, "failed") /\ UNCHANGED <<ui, shown, db>>
  BY <1>2, ApprovalsFailInv
<1> QED
  BY <1>1, <1>2 DEF Approvals!Serve

\* The page is told, and announces what the call was about.
LEMMA ApprovalsSucceededInv ==
  ASSUME Approvals!ApprovalsInv, NEW c \in calls, Approvals!Succeeded(c)
  PROVE  Approvals!ApprovalsInv'
<1> DEFINE toast == [name |-> Approvals!active, task |-> c.task, result |-> c.result]
           u == [ui EXCEPT !.toast = toast, !.activeId = Approvals!None]
<1>1. c.task \in Task /\ c.result \in Approvals!Result /\ db[c.task].result = c.result
  BY DEF Approvals!ApprovalsInv, Approvals!TypeOK, Approvals!Call, Approvals!OkIsRecorded,
     Approvals!Succeeded
<1>2. toast \in [name : Task \cup {Approvals!None}, task : Task, result : Approvals!Result]
  BY <1>1, ApprovalsActive DEF Approvals!ApprovalsInv
<1>3. toast.task = c.task /\ toast.result = c.result
  OBVIOUS
<1> HIDE DEF toast
<1>4. ASSUME NEW v, v = u
      PROVE  v = [activeId |-> Approvals!None, projectFilter |-> ui.projectFilter, toast |-> toast]
  <2>1. ui = [activeId |-> ui.activeId, projectFilter |-> ui.projectFilter, toast |-> ui.toast]
    BY DEF Approvals!ApprovalsInv, Approvals!TypeOK
  <2>2. /\ v = [x \in DOMAIN v |-> v[x]] /\ DOMAIN v = DOMAIN ui
        /\ v.activeId = Approvals!None /\ v.projectFilter = ui.projectFilter /\ v.toast = toast
    BY <1>4, <2>1
  <2> QED
    BY <2>1, <2>2
<1>5. calls' = calls \ {c} /\ UNCHANGED <<shown, db>> /\ ui' \in {ui, u}
  BY DEF Approvals!Succeeded, toast
<1> HIDE DEF u
<1>6. CASE ui' = u
  BY <1>1, <1>2, <1>3, <1>4, <1>5, <1>6 DEF Approvals!ApprovalsInv, Approvals!TypeOK,
     Approvals!OkIsRecorded, Approvals!ToastNames, Approvals!AnnouncedIsRecorded
<1>7. CASE ui' = ui
  BY <1>5, <1>7 DEF Approvals!ApprovalsInv, Approvals!TypeOK,
     Approvals!OkIsRecorded, Approvals!ToastNames, Approvals!AnnouncedIsRecorded
<1> QED
  BY <1>5, <1>6, <1>7

\* Nothing is announced.
LEMMA ApprovalsInitInv == Approvals!Init => Approvals!ApprovalsInv
BY DEF Approvals!Init, Approvals!Fresh, Approvals!NoToast, Approvals!ApprovalsInv, Approvals!TypeOK,
   Approvals!OkIsRecorded, Approvals!ToastNames, Approvals!AnnouncedIsRecorded

\* A step that only changes what is shown, or that forgets a call.
LEMMA ApprovalsViewInv ==
  ASSUME Approvals!ApprovalsInv, UNCHANGED db, shown' \subseteq Task,
         \A c \in calls' : c \in Approvals!Call /\ \E d \in calls :
           d.task = c.task /\ d.result = c.result /\ d.state = c.state,
         ui' \in [activeId : Task \cup {Approvals!None},
                 projectFilter : {Approvals!All} \cup { ProjectOf[t] : t \in Task },
                 toast : {ui.toast, Approvals!NoToast}]
  PROVE  Approvals!ApprovalsInv'
<1>1. Approvals!NoToast \in [name : Task \cup {Approvals!None}, task : Task \cup {Approvals!None},
                            result : Approvals!Result \cup {"none"}]
  BY DEF Approvals!NoToast
<1>2. Approvals!TypeOK'
  BY <1>1 DEF Approvals!ApprovalsInv, Approvals!TypeOK
<1>3. Approvals!OkIsRecorded'
  BY DEF Approvals!ApprovalsInv, Approvals!OkIsRecorded
<1>4. ui'.toast \in {ui.toast, Approvals!NoToast}
  OBVIOUS
<1>5. Approvals!ToastNames' /\ Approvals!AnnouncedIsRecorded'
  BY <1>4 DEF Approvals!ApprovalsInv, Approvals!ToastNames, Approvals!AnnouncedIsRecorded
<1> QED
  BY <1>2, <1>3, <1>5 DEF Approvals!ApprovalsInv

\* Every step of the page keeps its invariant.
LEMMA ApprovalsNextInv ==
  Approvals!ApprovalsInv /\ [Approvals!Next]_(Approvals!vars) => Approvals!ApprovalsInv'
<1> SUFFICES ASSUME Approvals!ApprovalsInv, [Approvals!Next]_(Approvals!vars)
             PROVE  Approvals!ApprovalsInv'
  OBVIOUS
<1> DEFINE Ui == [activeId : Task \cup {Approvals!None},
                  projectFilter : {Approvals!All} \cup { ProjectOf[t] : t \in Task },
                  toast : {ui.toast, Approvals!NoToast}]
<1>a. /\ ui = [activeId |-> ui.activeId, projectFilter |-> ui.projectFilter, toast |-> ui.toast]
      /\ ui \in Ui /\ shown \subseteq Task /\ calls \subseteq Approvals!Call
  BY DEF Approvals!ApprovalsInv, Approvals!TypeOK
<1>1. ASSUME NEW t \in Task, Approvals!SelectTask(t)
      PROVE  Approvals!ApprovalsInv'
  <2>1. ui' = [activeId |-> t, projectFilter |-> ui.projectFilter, toast |-> ui.toast]
    BY <1>1, <1>a DEF Approvals!SelectTask
  <2>2. ui' \in Ui
    BY <1>a, <2>1
  <2> HIDE DEF Ui
  <2> QED
    BY <1>1, <1>a, <2>2, ApprovalsViewInv DEF Approvals!SelectTask, Ui
<1>2. ASSUME NEW p \in Approvals!projects \cup {Approvals!All}, Approvals!SelectProject(p)
      PROVE  Approvals!ApprovalsInv'
  <2>1. p \in {Approvals!All} \cup { ProjectOf[t] : t \in Task }
    BY <1>a DEF Approvals!projects
  <2>2. ui' = [activeId |-> ui.activeId, projectFilter |-> p, toast |-> ui.toast]
    BY <1>2, <1>a DEF Approvals!SelectProject
  <2>3. ui' \in Ui
    BY <1>a, <2>1, <2>2
  <2> HIDE DEF Ui
  <2> QED
    BY <1>2, <1>a, <2>3, ApprovalsViewInv DEF Approvals!SelectProject, Ui
<1>3. ASSUME NEW result \in Approvals!Result, Approvals!Act(result)
      PROVE  Approvals!ApprovalsInv'
  BY <1>3, ApprovalsActInv
<1>4. ASSUME Approvals!Remount
      PROVE  Approvals!ApprovalsInv'
  <2>1. ui' \in Ui
    BY <1>4 DEF Approvals!Remount, Approvals!Fresh
  <2>2. ASSUME NEW d \in calls, NEW c, c = [d EXCEPT !.mounted = FALSE]
        PROVE  /\ c \in Approvals!Call
               /\ d.task = c.task /\ d.result = c.result /\ d.state = c.state
    BY <1>a, <2>2 DEF Approvals!Call
  <2>3. \A c \in calls' : \E d \in calls : c = [d EXCEPT !.mounted = FALSE]
    BY <1>4 DEF Approvals!Remount
  <2>4. \A c \in calls' : c \in Approvals!Call /\ \E d \in calls :
          d.task = c.task /\ d.result = c.result /\ d.state = c.state
    BY <2>2, <2>3, Zenon
  <2> HIDE DEF Ui
  <2> QED
    BY <1>4, <1>a, <2>1, <2>4, ApprovalsViewInv DEF Approvals!Remount, Ui
<1>5. ASSUME NEW c \in calls, Approvals!Serve(c)
      PROVE  Approvals!ApprovalsInv'
  BY <1>5, ApprovalsServeInv
<1>6. ASSUME NEW c \in calls, Approvals!Lose(c)
      PROVE  Approvals!ApprovalsInv'
  BY <1>6, ApprovalsFailInv DEF Approvals!Lose
<1>7. ASSUME NEW c \in calls, Approvals!Succeeded(c)
      PROVE  Approvals!ApprovalsInv'
  BY <1>7, ApprovalsSucceededInv
<1>8. ASSUME NEW c \in calls, Approvals!Failed(c)
      PROVE  Approvals!ApprovalsInv'
  <2> HIDE DEF Ui
  <2> QED
    BY <1>8, <1>a, ApprovalsViewInv DEF Approvals!Failed, Ui
<1>9. ASSUME Approvals!ToastTimeout
      PROVE  Approvals!ApprovalsInv'
  <2>1. ui' = [activeId |-> ui.activeId, projectFilter |-> ui.projectFilter,
               toast |-> Approvals!NoToast]
    BY <1>9, <1>a DEF Approvals!ToastTimeout
  <2>2. ui' \in Ui
    BY <1>a, <2>1
  <2> HIDE DEF Ui
  <2> QED
    BY <1>9, <1>a, <2>2, ApprovalsViewInv DEF Approvals!ToastTimeout, Ui
<1>10. ASSUME Approvals!Refresh
       PROVE  Approvals!ApprovalsInv'
  <2>1. shown' \subseteq Task
    BY <1>10 DEF Approvals!Refresh
  <2> HIDE DEF Ui
  <2> QED
    BY <1>10, <1>a, <2>1, ApprovalsViewInv DEF Approvals!Refresh, Ui
<1>11. ASSUME NEW t \in Task, Approvals!Assigned(t)
       PROVE  Approvals!ApprovalsInv'
  BY <1>11, ApprovalsDecided, ApprovalsOtherInv DEF Approvals!Assigned
<1>12. ASSUME NEW t \in Task, Approvals!DecidedElsewhere(t)
       PROVE  Approvals!ApprovalsInv'
  BY <1>12, ApprovalsDecided, ApprovalsOtherInv DEF Approvals!DecidedElsewhere
<1>13. ASSUME NEW t \in Task, Approvals!EndedElsewhere(t)
       PROVE  Approvals!ApprovalsInv'
  <2>1. /\ db' \in [Task -> [result : Approvals!Result \cup {"unassigned", "pending"},
                             in_progress : BOOLEAN]]
        /\ \A u \in Task : db'[u].result = db[u].result
    <3>1. ASSUME NEW b \in BOOLEAN, NEW e, e = [db EXCEPT ![t].in_progress = b]
          PROVE  /\ e \in [Task -> [result : Approvals!Result \cup {"unassigned", "pending"},
                                    in_progress : BOOLEAN]]
                 /\ \A u \in Task : e[u].result = db[u].result
      BY <3>1 DEF Approvals!ApprovalsInv, Approvals!TypeOK
    <3> QED
      BY <1>13, <3>1, Zenon DEF Approvals!EndedElsewhere
  <2> QED
    BY <1>13, <2>1, ApprovalsOtherInv DEF Approvals!EndedElsewhere
<1>14. ASSUME UNCHANGED Approvals!vars
       PROVE  Approvals!ApprovalsInv'
  BY <1>14 DEF Approvals!vars, Approvals!ApprovalsInv, Approvals!TypeOK, Approvals!OkIsRecorded,
     Approvals!ToastNames, Approvals!AnnouncedIsRecorded
<1> QED
  BY <1>1, <1>2, <1>3, <1>4, <1>5, <1>6, <1>7, <1>8, <1>9, <1>10, <1>11, <1>12, <1>13, <1>14
  DEF Approvals!Next

-----------------------------------------------------------------------------
(***************************************************************************)
(* The editor of the naming rules                                          *)
(***************************************************************************)

(* The types of this page.                                                 *)

\* The page: the edit, and what it was opened on.
NamingRulesUi ==
  [editMode : BOOLEAN, separator : NamingRules!Separators, segments : NamingRules!Segments,
   opened : NamingRules!Rules, touched : SUBSET NamingRules!Columns]

\* A call that is on its way.
NamingRulesCall ==
  [kind : {"put", "delete"}, body : NamingRules!Rules, state : {"sent", "ok", "failed"},
   mounted : BOOLEAN, opened : NamingRules!Rules, touched : SUBSET NamingRules!Columns]

\* The rules the page and the server start from.
LEMMA NamingRulesDefaults ==
  /\ NamingRules!None \in NamingRules!Rules
  /\ DEFAULT_SEGMENTS \in NamingRules!Segments /\ ServerDefault \in NamingRules!Segments
  /\ NamingRules!Fresh \in NamingRulesUi
  /\ \A n \in 1..MaxSegments : NewKey[n] \in NamingRules!Keys
<1>1. ASSUME NEW q \in Seq(STRING), NamingRules!Range(q) \subseteq NamingRules!Keys
      PROVE  q \in Seq(NamingRules!Keys) /\ \A n \in 1..Len(q) : q[n] \in NamingRules!Keys
  <2>1. \A n \in 1..Len(q) : q[n] \in NamingRules!Keys
    BY <1>1 DEF NamingRules!Range
  <2>2. q \in [1..Len(q) -> NamingRules!Keys]
    BY <2>1
  <2>3. Len(q) \in Nat
    OBVIOUS
  <2> QED
    BY <2>1, <2>2, <2>3
<1>2. /\ NamingRules!Range(NewKey) \subseteq NamingRules!Keys
      /\ NamingRules!Range(DEFAULT_SEGMENTS) \subseteq NamingRules!Keys
      /\ NamingRules!Range(ServerDefault) \subseteq NamingRules!Keys
  BY DEF NamingRules!Keys
<1>3. DEFAULT_SEGMENTS \in NamingRules!Segments /\ ServerDefault \in NamingRules!Segments
  BY <1>1, <1>2, RuleAssumption DEF NamingRules!Segments
<1>4. <<>> \in NamingRules!Segments
  BY RuleAssumption DEF NamingRules!Segments
<1>5. NamingRules!None \in NamingRules!Rules
  BY <1>4 DEF NamingRules!None, NamingRules!Rules, NamingRules!Separators
<1>6. \A n \in 1..MaxSegments : NewKey[n] \in NamingRules!Keys
  <2>1. Len(NewKey) \in Nat /\ \A n \in 1..Len(NewKey) : NewKey[n] \in NamingRules!Keys
    BY <1>1, <1>2, RuleAssumption
  <2> QED
    BY <2>1, RuleAssumption
<1> QED
  BY <1>3, <1>5, <1>6 DEF NamingRules!Fresh, NamingRules!Separators, NamingRulesUi

\* The answer of the server is a rule.
LEMMA NamingRulesAnswer ==
  ASSUME db \in NamingRules!Rules
  PROVE  NamingRules!Answer \in NamingRules!Rules
BY NamingRulesDefaults
DEF NamingRules!Answer, NamingRules!Default, NamingRules!Rules, NamingRules!Separators

\* A list that loses a segment.
LEMMA NamingRulesRemoved ==
  ASSUME NEW s \in NamingRules!Segments, NEW i \in DOMAIN s
  PROVE  NamingRules!RemoveAt(s, i) \in NamingRules!Segments
<1>1. s \in Seq(NamingRules!Keys) /\ Len(s) \in Nat /\ Len(s) <= MaxSegments /\ i \in 1..Len(s)
  BY DEF NamingRules!Segments
<1> DEFINE a == SubSeq(s, 1, i - 1)
           b == SubSeq(s, i + 1, Len(s))
<1>2. a \in Seq(NamingRules!Keys) /\ Len(a) = i - 1
  <2>1. ASSUME NEW j \in 1..(i - 1)
        PROVE  s[j] \in NamingRules!Keys
    BY <1>1, <2>1
  <2>2. i - 1 \in Int /\ 1 \in Int
    BY <1>1
  <2> QED
    BY <1>1, <2>1, <2>2, SubSeqProperties
<1>3. b \in Seq(NamingRules!Keys) /\ Len(b) = Len(s) - i
  BY <1>1, SubSeqProperties
<1> HIDE DEF a, b
<1>4. a \o b \in Seq(NamingRules!Keys) /\ Len(a \o b) = Len(a) + Len(b)
  BY <1>2, <1>3, ConcatProperties
<1> DEFINE c == a \o b
<1>5. c \in Seq(NamingRules!Keys) /\ Len(c) = Len(a) + Len(b)
  BY <1>4
<1>6. NamingRules!RemoveAt(s, i) = c
  BY DEF NamingRules!RemoveAt, a, b
<1> HIDE DEF c
<1>7. Len(c) <= MaxSegments
  BY <1>1, <1>2, <1>3, <1>5, RuleAssumption
<1> QED
  BY <1>5, <1>6, <1>7 DEF NamingRules!Segments

\* A list that gets one, or in which one is replaced.
LEMMA NamingRulesEdited ==
  ASSUME NEW s \in NamingRules!Segments, NEW k \in NamingRules!Keys
  PROVE  /\ Len(s) < MaxSegments => Append(s, k) \in NamingRules!Segments
         /\ \A i \in DOMAIN s : [s EXCEPT ![i] = k] \in NamingRules!Segments
<1>1. s \in Seq(NamingRules!Keys) /\ Len(s) \in Nat /\ Len(s) <= MaxSegments
  BY DEF NamingRules!Segments
<1>2. Append(s, k) \in Seq(NamingRules!Keys) /\ Len(Append(s, k)) = Len(s) + 1
  BY <1>1, AppendProperties
<1>3. Len(s) < MaxSegments => Append(s, k) \in NamingRules!Segments
  BY <1>1, <1>2, RuleAssumption DEF NamingRules!Segments
<1>4. ASSUME NEW i \in DOMAIN s
      PROVE  [s EXCEPT ![i] = k] \in NamingRules!Segments
  <2>1. [s EXCEPT ![i] = k] \in Seq(NamingRules!Keys) /\ Len([s EXCEPT ![i] = k]) = Len(s)
    BY <1>1, ExceptSeq
  <2> QED
    BY <1>1, <2>1 DEF NamingRules!Segments
<1> QED
  BY <1>3, <1>4

\* The user opens an edit, or leaves it.
LEMMA NamingRulesOpenTyped ==
  ASSUME NamingRules!TypeOK
  PROVE  /\ NamingRules!StartEdit => NamingRules!TypeOK'
         /\ NamingRules!Closed \in NamingRulesUi
<1>a. ui \in NamingRulesUi /\ shown \in [rule : NamingRules!Rules, failed : BOOLEAN]
  BY DEF NamingRules!TypeOK, NamingRulesUi
<1>1. NamingRules!src \in NamingRules!Rules
  BY <1>a, NamingRulesDefaults
  DEF NamingRules!src, NamingRules!Default, NamingRules!Rules, NamingRules!Separators
<1>2. ASSUME NamingRules!StartEdit
      PROVE  NamingRules!TypeOK'
  <2>1. ui' \in NamingRulesUi
    BY <1>1, <1>2 DEF NamingRules!StartEdit, NamingRulesUi, NamingRules!Rules
  <2> QED
    BY <1>2, <2>1 DEF NamingRules!StartEdit, NamingRules!TypeOK, NamingRulesUi
<1>3. NamingRules!Closed \in NamingRulesUi
  BY <1>a, NamingRulesDefaults DEF NamingRules!Closed, NamingRulesUi
<1> QED
  BY <1>2, <1>3

\* The user changes a column.
LEMMA NamingRulesEditTyped ==
  ASSUME NamingRules!TypeOK,
         \/ NamingRules!AddSegment
         \/ \E separator \in Separator : NamingRules!SetSeparator(separator)
         \/ \E i \in DOMAIN ui.segments :
              \/ NamingRules!RemoveSegment(i)
              \/ \E key \in SegmentKey : NamingRules!UpdateSegment(i, key)
  PROVE  NamingRules!TypeOK'
<1>a. ui \in NamingRulesUi
  BY DEF NamingRules!TypeOK, NamingRulesUi
<1>1. ASSUME ui' \in NamingRulesUi, UNCHANGED <<shown, calls, db>>
      PROVE  NamingRules!TypeOK'
  BY <1>1 DEF NamingRules!TypeOK, NamingRulesUi
<1>2. ASSUME NEW s \in NamingRules!Segments, NamingRules!SetSegments(s)
      PROVE  NamingRules!TypeOK'
  <2>1. ui' \in NamingRulesUi
    BY <1>2, <1>a DEF NamingRules!SetSegments, NamingRulesUi, NamingRules!Columns
  <2> QED
    BY <1>1, <1>2, <2>1 DEF NamingRules!SetSegments
<1>3. ui.segments \in NamingRules!Segments /\ Len(ui.segments) \in Nat
  BY <1>a DEF NamingRulesUi, NamingRules!Segments
<1>4. CASE NamingRules!AddSegment
  <2>1. Len(ui.segments) < MaxSegments
    BY <1>4 DEF NamingRules!AddSegment
  <2>2. NewKey[Len(ui.segments) + 1] \in NamingRules!Keys
    <3>1. Len(ui.segments) + 1 \in 1..MaxSegments
      BY <1>3, <2>1, RuleAssumption
    <3> QED
      BY <3>1, NamingRulesDefaults
  <2>3. Append(ui.segments, NewKey[Len(ui.segments) + 1]) \in NamingRules!Segments
    BY <1>3, <2>1, <2>2, NamingRulesEdited
  <2> QED
    BY <1>2, <1>4, <2>3 DEF NamingRules!AddSegment
<1>5. ASSUME NEW separator \in Separator, NamingRules!SetSeparator(separator)
      PROVE  NamingRules!TypeOK'
  <2>1. ui' \in NamingRulesUi
    BY <1>5, <1>a
    DEF NamingRules!SetSeparator, NamingRules!Separators, NamingRulesUi, NamingRules!Columns
  <2> QED
    BY <1>1, <1>5, <2>1 DEF NamingRules!SetSeparator
<1>6. ASSUME NEW i \in DOMAIN ui.segments, NamingRules!RemoveSegment(i)
      PROVE  NamingRules!TypeOK'
  <2>1. NamingRules!RemoveAt(ui.segments, i) \in NamingRules!Segments
    BY <1>3, NamingRulesRemoved
  <2> QED
    BY <1>2, <1>6, <2>1 DEF NamingRules!RemoveSegment
<1>7. ASSUME NEW i \in DOMAIN ui.segments, NEW key \in SegmentKey, NamingRules!UpdateSegment(i, key)
      PROVE  NamingRules!TypeOK'
  <2>1. key \in NamingRules!Keys
    BY DEF NamingRules!Keys
  <2>2. [ui.segments EXCEPT ![i] = key] \in NamingRules!Segments
    BY <1>3, <2>1, NamingRulesEdited
  <2> QED
    BY <1>2, <1>7, <2>2 DEF NamingRules!UpdateSegment
<1> QED
  BY <1>4, <1>5, <1>6, <1>7

\* A mutation is sent.
LEMMA NamingRulesMutateTyped ==
  ASSUME NamingRules!TypeOK, NamingRules!Save \/ NamingRules!Reset
  PROVE  NamingRules!TypeOK'
<1>1. ASSUME NEW kind \in {"put", "delete"}, NEW body \in NamingRules!Rules,
             NamingRules!Mutate(kind, body)
      PROVE  NamingRules!TypeOK'
  <2> DEFINE c == [kind |-> kind, body |-> body, state |-> "sent", mounted |-> TRUE,
                   opened |-> ui.opened, touched |-> ui.touched]
  <2>1. c \in NamingRulesCall
    BY DEF NamingRules!TypeOK, NamingRulesCall
  <2>2. calls' = calls \cup {c} /\ UNCHANGED <<ui, shown, db>>
    BY <1>1 DEF NamingRules!Mutate
  <2> HIDE DEF c
  <2> QED
    BY <2>1, <2>2 DEF NamingRules!TypeOK, NamingRulesCall
<1>2. NamingRules!Rule(ui.separator, ui.segments) \in NamingRules!Rules
  BY DEF NamingRules!TypeOK, NamingRules!Rule, NamingRules!Rules
<1> QED
  BY <1>1, <1>2, NamingRulesDefaults DEF NamingRules!Save, NamingRules!Reset

\* A call is answered, lost, or forgotten by its page.
LEMMA NamingRulesCalls ==
  ASSUME NamingRules!TypeOK, NEW c \in calls
  PROVE  /\ \A state \in {"ok", "failed"} :
              NamingRules!Settle(c, state) => calls' \subseteq NamingRulesCall
         /\ c.body \in NamingRules!Rules
<1>1. ASSUME NEW state \in {"ok", "failed"}
      PROVE  [c EXCEPT !.state = state] \in NamingRulesCall
  BY DEF NamingRules!TypeOK, NamingRulesCall
<1>2. calls \subseteq NamingRulesCall
  BY DEF NamingRules!TypeOK, NamingRulesCall
<1> QED
  BY <1>1, <1>2 DEF NamingRules!Settle, NamingRulesCall

\* What another manager stores.
LEMMA NamingRulesOthersTyped ==
  ASSUME NEW separator \in Separator, NEW key \in NamingRules!Keys
  PROVE  NamingRules!Rule(separator, <<key>>) \in NamingRules!Rules
<1>1. <<key>> \in Seq(NamingRules!Keys) /\ Len(<<key>>) = 1
  OBVIOUS
<1>2. 1 <= MaxSegments
  BY RuleAssumption
<1>3. <<key>> \in NamingRules!Segments
  BY <1>1, <1>2 DEF NamingRules!Segments
<1> QED
  BY <1>3 DEF NamingRules!Rule, NamingRules!Rules, NamingRules!Separators

\* Every step of the page keeps its types.
LEMMA NamingRulesNextTyped ==
  ASSUME NamingRules!TypeOK, [NamingRules!Next]_(NamingRules!vars)
  PROVE  NamingRules!TypeOK'
<1> DEFINE Shown == [rule : NamingRules!Rules, failed : BOOLEAN]
<1>a. /\ ui \in NamingRulesUi /\ shown \in Shown
      /\ calls \subseteq NamingRulesCall /\ db \in NamingRules!Rules
  BY DEF NamingRules!TypeOK, NamingRulesCall, NamingRulesUi
<1>b. ASSUME ui' \in NamingRulesUi, shown' \in Shown, calls' \subseteq NamingRulesCall,
             db' \in NamingRules!Rules
      PROVE  NamingRules!TypeOK'
  BY <1>b DEF NamingRules!TypeOK, NamingRulesCall, NamingRulesUi
<1>c. NamingRules!Fresh \in NamingRulesUi /\ NamingRules!Closed \in NamingRulesUi
  BY NamingRulesDefaults, NamingRulesOpenTyped
<1> HIDE DEF Shown
<1>1. CASE NamingRules!Remount
  <2>1. \A c \in calls : [c EXCEPT !.mounted = FALSE] \in NamingRulesCall
    BY <1>a DEF NamingRulesCall
  <2>2. calls' \subseteq NamingRulesCall
    BY <1>1, <2>1, Zenon DEF NamingRules!Remount
  <2> QED
    BY <1>1, <1>a, <1>b, <1>c, <2>2 DEF NamingRules!Remount
<1>2. ASSUME NEW c \in calls, NamingRules!Serve(c)
      PROVE  NamingRules!TypeOK'
  <2>1. calls' \subseteq NamingRulesCall /\ db' \in NamingRules!Rules
    BY <1>2, <1>a, NamingRulesCalls DEF NamingRules!Serve
  <2> QED
    BY <1>2, <1>a, <1>b, <2>1 DEF NamingRules!Serve
<1>3. ASSUME NEW c \in calls, NamingRules!Lose(c)
      PROVE  NamingRules!TypeOK'
  BY <1>3, <1>a, <1>b, NamingRulesCalls DEF NamingRules!Lose
<1>4. ASSUME NEW c \in calls, NamingRules!Succeeded(c) \/ NamingRules!Failed(c)
      PROVE  NamingRules!TypeOK'
  BY <1>4, <1>a, <1>b, <1>c DEF NamingRules!Succeeded, NamingRules!Failed
<1>5. CASE NamingRules!Refresh \/ NamingRules!RefreshFails
  <2>1. shown' \in Shown
    <3>1. CASE NamingRules!Refresh
      BY <1>a, <3>1, NamingRulesAnswer DEF NamingRules!Refresh, Shown
    <3>2. CASE NamingRules!RefreshFails
      BY <1>a, <3>2 DEF NamingRules!RefreshFails, Shown
    <3> QED
      BY <1>5, <3>1, <3>2
  <2> QED
    BY <1>5, <1>a, <1>b, <2>1 DEF NamingRules!Refresh, NamingRules!RefreshFails
<1>6. CASE NamingRules!Elsewhere
  BY <1>6, <1>a, <1>b, NamingRulesDefaults, NamingRulesOthersTyped DEF NamingRules!Elsewhere
<1>7. CASE UNCHANGED NamingRules!vars
  BY <1>7, <1>a, <1>b DEF NamingRules!vars
<1>8. CASE NamingRules!Cancel
  BY <1>8, <1>a, <1>b, <1>c DEF NamingRules!Cancel
<1> QED
  BY <1>1, <1>2, <1>3, <1>4, <1>5, <1>6, <1>7, <1>8, NamingRulesOpenTyped, NamingRulesEditTyped,
     NamingRulesMutateTyped
  DEF NamingRules!Next

\* No rule is stored and none is shown.
LEMMA NamingRulesInitTyped == NamingRules!Init => NamingRules!TypeOK
BY NamingRulesDefaults DEF NamingRules!Init, NamingRules!TypeOK, NamingRulesUi

-----------------------------------------------------------------------------
(* What an edit has not touched.                                           *)

\* A call that is served, lost, or left by its page keeps what it was sent with.
LEMMA NamingRulesSentStays ==
  ASSUME NEW c \in NamingRulesCall, NEW d,
         d = [c EXCEPT !.mounted = FALSE] \/ \E state : d = [c EXCEPT !.state = state]
  PROVE  d.kind = c.kind /\ d.body = c.body /\ d.opened = c.opened /\ d.touched = c.touched
BY DEF NamingRulesCall

\* A step that opens or changes no edit, and sends nothing.
LEMMA NamingRulesLeft ==
  ASSUME NamingRules!TypeOK, NamingRules!UntouchedAsOpened,
         UNCHANGED ui \/ ~ui'.editMode,
         \A d \in calls' : \/ d \in calls
                          \/ \E c \in calls : \/ d = [c EXCEPT !.mounted = FALSE]
                                             \/ \E state : d = [c EXCEPT !.state = state]
  PROVE  NamingRules!UntouchedAsOpened'
<1>1. ASSUME NEW d \in calls', d.kind = "put"
      PROVE  NamingRules!Untouched(d, d.body)
  <2>1. PICK c \in calls : /\ d.kind = c.kind /\ d.body = c.body
                           /\ d.opened = c.opened /\ d.touched = c.touched
    BY <1>1, NamingRulesSentStays DEF NamingRules!TypeOK, NamingRulesCall
  <2> QED
    BY <1>1, <2>1 DEF NamingRules!UntouchedAsOpened, NamingRules!Untouched
<1>2. ui'.editMode => NamingRules!Untouched(ui', ui')
  BY DEF NamingRules!UntouchedAsOpened
<1> QED
  BY <1>1, <1>2 DEF NamingRules!UntouchedAsOpened, NamingRules!Untouched

\* A step that sends nothing and leaves the edit right.
LEMMA NamingRulesEditUntouched ==
  ASSUME NamingRules!UntouchedAsOpened, UNCHANGED calls, NamingRules!Untouched(ui', ui')
  PROVE  NamingRules!UntouchedAsOpened'
BY DEF NamingRules!UntouchedAsOpened, NamingRules!Untouched

\* An edit is opened, or one of its columns is set.
LEMMA NamingRulesEditStep ==
  ASSUME NamingRules!TypeOK, NamingRules!UntouchedAsOpened,
         \/ NamingRules!StartEdit
         \/ \E separator : NamingRules!SetSeparator(separator)
         \/ \E segments : NamingRules!SetSegments(segments)
  PROVE  NamingRules!UntouchedAsOpened'
<1>a. ui \in NamingRulesUi
  BY DEF NamingRules!TypeOK, NamingRulesUi
<1>1. CASE NamingRules!StartEdit
  <2>1. NamingRules!Untouched(ui', ui')
    BY <1>1 DEF NamingRules!StartEdit, NamingRules!Untouched, NamingRules!Columns
  <2> QED
    BY <1>1, <2>1, NamingRulesEditUntouched DEF NamingRules!StartEdit
<1>2. ASSUME NEW separator, NamingRules!SetSeparator(separator)
      PROVE  NamingRules!UntouchedAsOpened'
  <2>1. NamingRules!Untouched(ui, ui)
    BY <1>2 DEF NamingRules!SetSeparator, NamingRules!UntouchedAsOpened
  <2>2. /\ ui'.segments = ui.segments /\ ui'.opened = ui.opened
        /\ ui'.touched = ui.touched \cup {"separator"}
    BY <1>a, <1>2 DEF NamingRules!SetSeparator, NamingRulesUi
  <2>3. NamingRules!Untouched(ui', ui')
    BY <2>1, <2>2 DEF NamingRules!Untouched, NamingRules!Columns
  <2> QED
    BY <1>2, <2>3, NamingRulesEditUntouched DEF NamingRules!SetSeparator
<1>3. ASSUME NEW segments, NamingRules!SetSegments(segments)
      PROVE  NamingRules!UntouchedAsOpened'
  <2>1. NamingRules!Untouched(ui, ui)
    BY <1>3 DEF NamingRules!SetSegments, NamingRules!UntouchedAsOpened
  <2>2. /\ ui'.separator = ui.separator /\ ui'.opened = ui.opened
        /\ ui'.touched = ui.touched \cup {"segments"}
    BY <1>a, <1>3 DEF NamingRules!SetSegments, NamingRulesUi
  <2>3. NamingRules!Untouched(ui', ui')
    BY <2>1, <2>2 DEF NamingRules!Untouched, NamingRules!Columns
  <2> QED
    BY <1>3, <2>3, NamingRulesEditUntouched DEF NamingRules!SetSegments
<1> QED
  BY <1>1, <1>2, <1>3

\* A save sends what the edit holds; a reset is no PUT.
LEMMA NamingRulesSendStep ==
  ASSUME NamingRules!UntouchedAsOpened, NamingRules!Save \/ NamingRules!Reset
  PROVE  NamingRules!UntouchedAsOpened'
<1>1. PICK kind \in {"put", "delete"},
           body \in {NamingRules!Rule(ui.separator, ui.segments), NamingRules!None} :
        /\ NamingRules!Mutate(kind, body)
        /\ kind = "put" => ui.editMode /\ body = NamingRules!Rule(ui.separator, ui.segments)
  BY DEF NamingRules!Save, NamingRules!Reset
<1> DEFINE c == [kind |-> kind, body |-> body, state |-> "sent", mounted |-> TRUE,
                 opened |-> ui.opened, touched |-> ui.touched]
<1>2. calls' = calls \cup {c} /\ UNCHANGED ui
  BY <1>1 DEF NamingRules!Mutate
<1>3. c.kind = "put" => NamingRules!Untouched(c, c.body)
  BY <1>1 DEF NamingRules!UntouchedAsOpened, NamingRules!Untouched, NamingRules!Columns,
     NamingRules!Rule
<1> HIDE DEF c
<1> QED
  BY <1>2, <1>3 DEF NamingRules!UntouchedAsOpened, NamingRules!Untouched

\* Every step of the page.
LEMMA NamingRulesStep ==
  ASSUME NamingRules!TypeOK, NamingRules!UntouchedAsOpened, [NamingRules!Next]_(NamingRules!vars)
  PROVE  NamingRules!UntouchedAsOpened'
<1>1. CASE \/ NamingRules!AddSegment
           \/ \E i \in DOMAIN ui.segments :
                \/ NamingRules!RemoveSegment(i)
                \/ \E key \in SegmentKey : NamingRules!UpdateSegment(i, key)
  <2>1. \E segments : NamingRules!SetSegments(segments)
    BY <1>1 DEF NamingRules!AddSegment, NamingRules!RemoveSegment, NamingRules!UpdateSegment
  <2> QED
    BY <2>1, NamingRulesEditStep
<1>2. CASE NamingRules!Cancel
  <2>1. ~ui'.editMode /\ UNCHANGED calls
    BY <1>2 DEF NamingRules!Cancel, NamingRules!Closed, NamingRules!TypeOK
  <2> QED
    BY <2>1, NamingRulesLeft
<1>3. CASE NamingRules!Remount
  <2>1. ~ui'.editMode
    BY <1>3 DEF NamingRules!Remount, NamingRules!Fresh
  <2>2. \A d \in calls' : \E c \in calls : d = [c EXCEPT !.mounted = FALSE]
    BY <1>3 DEF NamingRules!Remount
  <2> QED
    BY <2>1, <2>2, NamingRulesLeft
<1>4. ASSUME NEW c \in calls, NamingRules!Serve(c) \/ NamingRules!Lose(c)
      PROVE  NamingRules!UntouchedAsOpened'
  <2>1. UNCHANGED ui /\ \E state : NamingRules!Settle(c, state)
    BY <1>4 DEF NamingRules!Serve, NamingRules!Lose
  <2>2. \A d \in calls' : d \in calls \/ \E state : d = [c EXCEPT !.state = state]
    BY <2>1 DEF NamingRules!Settle
  <2> QED
    BY <1>4, <2>1, <2>2, NamingRulesLeft
<1>5. ASSUME NEW c \in calls, NamingRules!Succeeded(c) \/ NamingRules!Failed(c)
      PROVE  NamingRules!UntouchedAsOpened'
  <2>1. UNCHANGED ui \/ ~ui'.editMode
    BY <1>5
    DEF NamingRules!Succeeded, NamingRules!Failed, NamingRules!Closed, NamingRules!TypeOK
  <2>2. \A d \in calls' : d \in calls
    BY <1>5 DEF NamingRules!Succeeded, NamingRules!Failed
  <2> QED
    BY <2>1, <2>2, NamingRulesLeft
<1>6. CASE UNCHANGED <<ui, calls>>
  BY <1>6, NamingRulesLeft
<1>7. CASE NamingRules!Refresh \/ NamingRules!RefreshFails \/ NamingRules!Elsewhere
           \/ UNCHANGED NamingRules!vars
  BY <1>6, <1>7
  DEF NamingRules!Refresh, NamingRules!RefreshFails, NamingRules!Elsewhere, NamingRules!vars
<1> QED
  BY <1>1, <1>2, <1>3, <1>4, <1>5, <1>7, NamingRulesEditStep, NamingRulesSendStep
  DEF NamingRules!Next

-----------------------------------------------------------------------------
(***************************************************************************)
(* The cache                                                               *)
(***************************************************************************)

\* A mutation that changes a list in view of its own page invalidates it, but for
\* the ones it forgets.
LEMMA CacheTables ==
  ASSUME NEW m \in Cache!Mutations, Cache!Tracks(m)
  PROVE  shown.key \in m.invalidates \/ <<m, shown.key>> \in Cache!Forgotten
BY DEF Cache!Mutations, Cache!Tracks, Cache!Forgotten, Cache!QueryKeys, Cache!Mutation,
   Cache!Mounted, Cache!LayoutKeys,
   Cache!createProject, Cache!changeContainers, Cache!transition, Cache!deleteFile,
   Cache!changeShareRequests, Cache!upload, Cache!changeRule, Cache!act, Cache!markRead,
   Cache!changeRequirements, Cache!changeRoles, Cache!ProjectsKeys, Cache!ContainersKeys,
   Cache!DetailKeys, Cache!NamingRulesKeys, Cache!ApprovalsKeys, Cache!NotificationsKeys,
   Cache!RequirementsKeys, Cache!RolesKeys

\* A mutation is sent, served, or over.
LEMMA CacheCalls ==
  ASSUME Cache!TypeOK, NEW c \in calls, NEW e, e = [c EXCEPT !.state = "ok"]
  PROVE  e \in Cache!Call
BY DEF Cache!TypeOK, Cache!Call

\* A step after which no answer or read lacks a change that it had before.
LEMMA CacheKept ==
  ASSUME Cache!CacheInv, ui' \in [page : Cache!Page], calls' \subseteq Cache!Call,
         shown' \in Cache!Entry,
         shown'.data = "without" => /\ shown.data = "without"
                                    /\ shown.stale => shown'.stale
                                    /\ shown.missed => shown'.missed,
         shown'.fetch = "without" => shown.fetch = "without" /\ (shown.missed => shown'.missed)
  PROVE  Cache!CacheInv'
BY DEF Cache!CacheInv, Cache!TypeOK, Cache!LateIsMissed, Cache!OwnChangeIsFetched

\* A read that is started changes nothing else.
LEMMA CacheFetch ==
  ASSUME NEW entry \in Cache!Entry
  PROVE  /\ Cache!Fetch(entry) \in Cache!Entry
         /\ Cache!Fetch(entry).key = entry.key /\ Cache!Fetch(entry).data = entry.data
         /\ Cache!Fetch(entry).stale = entry.stale /\ Cache!Fetch(entry).missed = entry.missed
         /\ Cache!Fetch(entry).fetch \in {entry.fetch, "sent"}
BY DEF Cache!Fetch, Cache!Entry

\* Only a read is started, or nothing.
LEMMA CacheReadInv ==
  ASSUME Cache!CacheInv, ui' \in [page : Cache!Page], UNCHANGED calls,
         shown' \in {shown, Cache!Fetch(shown)}
  PROVE  Cache!CacheInv'
<1>1. shown \in Cache!Entry /\ calls' \subseteq Cache!Call
  BY DEF Cache!CacheInv, Cache!TypeOK
<1>2. Cache!Fetch(shown) \in Cache!Entry
  BY <1>1, CacheFetch
<1> QED
  BY <1>1, <1>2, CacheFetch, CacheKept

\* What ages, is dropped, is served, arrives or fails: ui and calls stay.
LEMMA CacheAnswerInv ==
  ASSUME Cache!CacheInv,
         Cache!Age \/ Cache!Collect \/ Cache!ServeGet \/ Cache!Answer \/ Cache!FetchFails
  PROVE  Cache!CacheInv'
<1>1. shown \in Cache!Entry /\ UNCHANGED <<ui, calls>>
  BY DEF Cache!CacheInv, Cache!TypeOK, Cache!Age, Cache!Collect, Cache!ServeGet, Cache!Answer,
         Cache!FetchFails
<1>a. ui' \in [page : Cache!Page] /\ calls' \subseteq Cache!Call
  BY <1>1 DEF Cache!CacheInv, Cache!TypeOK
<1>2. CASE Cache!Age
  <2>1. ASSUME NEW b \in BOOLEAN, NEW e, e = [shown EXCEPT !.stale = b]
        PROVE  /\ e \in Cache!Entry /\ e.stale = b
               /\ e.data = shown.data /\ e.fetch = shown.fetch /\ e.missed = shown.missed
    BY <1>1, <2>1 DEF Cache!Entry
  <2>2. /\ shown' \in Cache!Entry /\ shown'.stale = TRUE
        /\ shown'.data = shown.data /\ shown'.fetch = shown.fetch /\ shown'.missed = shown.missed
    BY <1>2, <2>1, Zenon DEF Cache!Age
  <2> QED
    BY <1>a, <2>2, CacheKept
<1>3. CASE Cache!Collect
  <2>1. /\ shown' \in Cache!Entry /\ shown'.data = "none" /\ shown'.fetch = "idle"
    <3>1. ASSUME NEW b \in BOOLEAN, NEW d \in BOOLEAN, NEW e,
                 e = [shown EXCEPT !.data = "none", !.stale = b, !.missed = d]
          PROVE  e \in Cache!Entry /\ e.data = "none" /\ e.fetch = shown.fetch
      BY <1>1, <3>1 DEF Cache!Entry, Cache!Read
    <3> QED
      BY <1>3, <3>1, Zenon DEF Cache!Collect
  <2> QED
    BY <1>a, <2>1, CacheKept
<1>4. CASE Cache!ServeGet
  <2>1. /\ shown' \in Cache!Entry /\ shown'.fetch = "with" /\ shown'.data = shown.data
        /\ shown'.stale = shown.stale /\ shown'.missed = shown.missed
    BY <1>1, <1>4 DEF Cache!ServeGet, Cache!Entry, Cache!Read
  <2> QED
    BY <1>a, <2>1, CacheKept
<1>5. CASE Cache!Answer
  <2>1. shown.fetch \in Cache!Read
    BY <1>1, <1>5 DEF Cache!Answer, Cache!Entry
  <2>2. ASSUME NEW b \in BOOLEAN, NEW d \in BOOLEAN, NEW e,
               e = [shown EXCEPT !.data = shown.fetch, !.stale = b, !.fetch = "idle", !.missed = d]
        PROVE  /\ e \in Cache!Entry /\ e.data = shown.fetch /\ e.fetch = "idle"
               /\ e.missed = d
    BY <1>1, <2>1, <2>2 DEF Cache!Entry
  <2>3. (shown.missed /\ shown.fetch = "without") \in BOOLEAN
    BY <1>1 DEF Cache!Entry
  <2>4. /\ shown' \in Cache!Entry /\ shown'.data = shown.fetch /\ shown'.fetch = "idle"
        /\ shown'.missed = (shown.missed /\ shown.fetch = "without")
    BY <1>5, <2>2, <2>3, Zenon DEF Cache!Answer
  <2> QED
    BY <1>a, <2>4
    DEF Cache!CacheInv, Cache!TypeOK, Cache!LateIsMissed, Cache!OwnChangeIsFetched
<1>6. CASE Cache!FetchFails
  <2>1. /\ shown' \in Cache!Entry /\ shown'.fetch \in {"idle", "sent"} /\ shown'.data = shown.data
        /\ shown'.stale = shown.stale /\ shown'.missed = shown.missed
    BY <1>1, <1>6 DEF Cache!FetchFails, Cache!Entry, Cache!Read
  <2> QED
    BY <1>a, <2>1, CacheKept
<1> QED
  BY <1>2, <1>3, <1>4, <1>5, <1>6

\* The server makes a change: no read knows of it for sure any more.
LEMMA CacheServeInv ==
  ASSUME Cache!CacheInv, NEW c \in calls, Cache!Serve(c)
  PROVE  Cache!CacheInv'
<1>1. /\ shown \in Cache!Entry /\ calls \subseteq Cache!Call /\ ui' \in [page : Cache!Page]
      /\ [c EXCEPT !.state = "ok"] \in Cache!Call
  BY CacheCalls DEF Cache!CacheInv, Cache!TypeOK, Cache!Serve
<1>2. calls' \subseteq Cache!Call
  BY <1>1 DEF Cache!Serve
<1>3. /\ shown' \in Cache!Entry /\ shown'.stale = shown.stale /\ shown'.missed = shown.missed
      /\ shown'.data = "without" => shown.data = "without"
      /\ shown'.fetch = "without" => shown.fetch = "without"
  <2>1. CASE UNCHANGED shown
    BY <1>1, <2>1
  <2>2. CASE shown' = [shown EXCEPT !.data = Cache!Behind(@), !.fetch = Cache!Behind(@)]
    BY <1>1, <2>2 DEF Cache!Entry, Cache!Behind, Cache!Read
  <2> QED
    BY <2>1, <2>2 DEF Cache!Serve
<1> QED
  BY <1>1, <1>2, <1>3, CacheKept

\* Invalidated, an entry that lacks an announced change is stale, and a read that
\* lacks it is recorded as kept.
LEMMA CacheInvalidate ==
  ASSUME NEW entry \in Cache!Entry, NEW after, after = Cache!Invalidate(entry)
  PROVE  /\ after \in Cache!Entry
         /\ after.data = "without" => after.stale \/ after.missed
         /\ after.fetch = "without" => after.missed
<1>1. CASE ~Cache!mounted
  <2>1. ASSUME NEW b \in BOOLEAN, NEW d \in BOOLEAN, NEW e,
               e = [entry EXCEPT !.stale = b, !.missed = d]
        PROVE  /\ e \in Cache!Entry /\ e.stale = b /\ e.missed = d
               /\ e.data = entry.data /\ e.fetch = entry.fetch
    BY <2>1 DEF Cache!Entry
  <2>2. /\ after \in Cache!Entry /\ after.data = entry.data /\ after.fetch = entry.fetch
        /\ after.stale = (entry.data # "none") /\ after.missed = (entry.fetch = "without")
    BY <1>1, <2>1, Zenon DEF Cache!Invalidate
  <2> QED
    BY <2>2
<1>2. CASE Cache!mounted /\ entry.data = "none"
  <2>1. ASSUME NEW f \in Cache!Entry, NEW d \in BOOLEAN, NEW e, e = [f EXCEPT !.missed = d]
        PROVE  e \in Cache!Entry /\ e.missed = d /\ e.data = f.data /\ e.fetch = f.fetch
    BY <2>1 DEF Cache!Entry
  <2>2. /\ after \in Cache!Entry /\ after.missed = (entry.fetch = "without")
        /\ after.data = Cache!Fetch(entry).data /\ after.fetch = Cache!Fetch(entry).fetch
    <3>1. Cache!Fetch(entry) \in Cache!Entry
      BY CacheFetch
    <3>2. (entry.fetch = "without") \in BOOLEAN
      OBVIOUS
    <3>3. after = [Cache!Fetch(entry) EXCEPT !.missed = (entry.fetch = "without")]
      BY <1>2, Zenon DEF Cache!Invalidate
    <3> QED
      BY <2>1, <3>1, <3>2, <3>3, Zenon
  <2> QED
    BY <1>2, <2>2, CacheFetch
<1>3. CASE Cache!mounted /\ entry.data # "none"
  BY <1>3 DEF Cache!Invalidate, Cache!Entry
<1> QED
  BY <1>1, <1>2, <1>3

\* Forgotten, an entry or a read that lacks the change is recorded as such.
LEMMA CacheForget ==
  ASSUME NEW entry \in Cache!Entry, NEW after, after = Cache!Forget(entry)
  PROVE  /\ after \in Cache!Entry
         /\ "without" \in {after.data, after.fetch} => after.missed
<1>1. ASSUME NEW d \in BOOLEAN, NEW e, e = [entry EXCEPT !.missed = d]
      PROVE  e \in Cache!Entry /\ e.missed = d /\ e.data = entry.data /\ e.fetch = entry.fetch
  BY <1>1 DEF Cache!Entry
<1>2. (entry.missed \/ "without" \in {entry.data, entry.fetch}) \in BOOLEAN
  BY DEF Cache!Entry
<1> QED
  BY <1>1, <1>2, Zenon DEF Cache!Forget

\* The page is told of its change.
LEMMA CacheSucceededInv ==
  ASSUME Cache!CacheInv, NEW c \in calls, Cache!Succeeded(c)
  PROVE  Cache!CacheInv'
<1> DEFINE told == IF Cache!Tracks(c.mutation)
                   THEN [shown EXCEPT !.data = Cache!Told(@), !.fetch = Cache!Told(@)] ELSE shown
<1>1. /\ shown \in Cache!Entry /\ c.mutation \in Cache!Mutations
      /\ ui' \in [page : Cache!Page] /\ calls' \subseteq Cache!Call
  BY DEF Cache!CacheInv, Cache!TypeOK, Cache!Call, Cache!Succeeded
<1>2. told \in Cache!Entry
  BY <1>1 DEF Cache!Entry, Cache!Told, Cache!Read
<1>3. shown' = IF shown.key \in c.mutation.invalidates THEN Cache!Invalidate(told)
               ELSE IF <<c.mutation, shown.key>> \in Cache!Forgotten THEN Cache!Forget(told)
               ELSE told
  BY DEF Cache!Succeeded
<1>4. \/ shown.key \in c.mutation.invalidates
      \/ <<c.mutation, shown.key>> \in Cache!Forgotten
      \/ told = shown
  BY <1>1, CacheTables
<1> HIDE DEF told
<1>5. CASE shown.key \in c.mutation.invalidates
  BY <1>1, <1>2, <1>3, <1>5, CacheInvalidate
  DEF Cache!CacheInv, Cache!TypeOK, Cache!LateIsMissed, Cache!OwnChangeIsFetched
<1>6. CASE /\ shown.key \notin c.mutation.invalidates
           /\ <<c.mutation, shown.key>> \in Cache!Forgotten
  BY <1>1, <1>2, <1>3, <1>6, CacheForget
  DEF Cache!CacheInv, Cache!TypeOK, Cache!LateIsMissed, Cache!OwnChangeIsFetched
<1>7. CASE /\ shown.key \notin c.mutation.invalidates
           /\ <<c.mutation, shown.key>> \notin Cache!Forgotten
  BY <1>1, <1>3, <1>4, <1>7, CacheKept
<1> QED
  BY <1>5, <1>6, <1>7

\* The first read is under way, and no answer is there.
LEMMA CacheInitInv == Cache!Init => Cache!CacheInv
<1> SUFFICES ASSUME Cache!Init PROVE Cache!CacheInv
  OBVIOUS
<1>1. PICK key \in Watched :
        shown = Cache!Fetch([key |-> key, data |-> "none", stale |-> FALSE, fetch |-> "idle",
                             missed |-> FALSE])
  BY DEF Cache!Init
<1>2. /\ shown.data = "none" /\ shown.fetch = "sent" /\ shown \in Cache!Entry
  BY <1>1 DEF Cache!Fetch, Cache!Entry
<1>3. ui \in [page : Cache!Page] /\ calls \subseteq Cache!Call
  BY DEF Cache!Init, Cache!Page, Cache!QueryKeys
<1> QED
  BY <1>2, <1>3 DEF Cache!CacheInv, Cache!TypeOK, Cache!LateIsMissed, Cache!OwnChangeIsFetched

\* Every step of the cache keeps its invariant.
LEMMA CacheNextInv == Cache!CacheInv /\ [Cache!Next]_(Cache!vars) => Cache!CacheInv'
<1> SUFFICES ASSUME Cache!CacheInv, [Cache!Next]_(Cache!vars)
             PROVE  Cache!CacheInv'
  OBVIOUS
<1>1. ASSUME NEW p \in Cache!Page, Cache!Navigate(p)
      PROVE  Cache!CacheInv'
  BY <1>1, CacheReadInv DEF Cache!Navigate
<1>2. CASE Cache!Focus \/ Cache!Interval
  <2>1. ui' \in [page : Cache!Page]
    BY <1>2 DEF Cache!Focus, Cache!Interval, Cache!CacheInv, Cache!TypeOK
  <2> QED
    BY <1>2, <2>1, CacheReadInv DEF Cache!Focus, Cache!Interval
<1>3. CASE Cache!Age \/ Cache!Collect \/ Cache!ServeGet \/ Cache!Answer \/ Cache!FetchFails
  BY <1>3, CacheAnswerInv
<1>4. ASSUME UNCHANGED <<ui, shown>>, calls' \subseteq Cache!Call
      PROVE  Cache!CacheInv'
  BY <1>4 DEF Cache!CacheInv, Cache!TypeOK, Cache!LateIsMissed, Cache!OwnChangeIsFetched
<1>5. ASSUME NEW m \in Cache!Mutations, Cache!Mutate(m)
      PROVE  Cache!CacheInv'
  <2>1. [mutation |-> m, state |-> "sent"] \in Cache!Call
    BY DEF Cache!Call
  <2>2. calls' \subseteq Cache!Call
    BY <1>5, <2>1 DEF Cache!Mutate, Cache!CacheInv, Cache!TypeOK
  <2> QED
    BY <1>4, <1>5, <2>2 DEF Cache!Mutate
<1>6. ASSUME NEW c \in calls, Cache!Serve(c)
      PROVE  Cache!CacheInv'
  BY <1>6, CacheServeInv
<1>7. ASSUME NEW c \in calls, Cache!Lose(c)
      PROVE  Cache!CacheInv'
  BY <1>4, <1>7 DEF Cache!Lose, Cache!CacheInv, Cache!TypeOK
<1>8. ASSUME NEW c \in calls, Cache!Succeeded(c)
      PROVE  Cache!CacheInv'
  BY <1>8, CacheSucceededInv
<1>9. CASE UNCHANGED Cache!vars
  BY <1>4, <1>9 DEF Cache!vars, Cache!CacheInv, Cache!TypeOK
<1> QED
  BY <1>1, <1>2, <1>3, <1>5, <1>6, <1>7, <1>8, <1>9 DEF Cache!Next

-----------------------------------------------------------------------------
(***************************************************************************)
(* What holds of every page                                                *)
(***************************************************************************)

ContainersInv == \A p \in DOMAIN Followed : page = p => Containers(Followed[p])!CallsInv

\* The page that is followed was chosen once and for all.
LEMMA PageStays == [Next]_vars => page' = page
BY DEF Next, vars

\* The pages of the containers are none of the others.
LEMMA PageNames ==
  \A p \in DOMAIN Followed :
    p \notin {"approvals", "upload", "builder", "requirements", "namingRules", "roles", "cache",
               "views"}
BY DEF Followed

\* One step of the page, if it is one of the containers.
LEMMA ContainersStep == ContainersInv /\ [Next]_vars => ContainersInv'
<1> SUFFICES ASSUME ContainersInv, [Next]_vars, NEW p \in DOMAIN Followed, page' = p
             PROVE  Containers(Followed[p])!CallsInv'
  BY DEF ContainersInv
<1>1. page = p
  BY PageStays
<1>2. Containers(Followed[p])!CallsInv
  BY <1>1 DEF ContainersInv
<1>3. [Containers(Followed[p])!Next]_(Containers(Followed[p])!vars)
  BY <1>1, PageNames DEF Next, vars, Containers!vars
<1> QED
  BY <1>2, <1>3, ContainersNextInv

\* A move that is on its way was offered for the state that the page showed.
THEOREM MovesAreOffered == Spec => []ContainersInv
<1>1. Init => ContainersInv
  <2> SUFFICES ASSUME Init, NEW p \in DOMAIN Followed, page = p
               PROVE  Containers(Followed[p])!CallsInv
    BY DEF ContainersInv
  <2>1. Containers(Followed[p])!Init
    BY PageNames DEF Init
  <2> QED
    BY <2>1 DEF Containers!Init, Containers!CallsInv
<1> QED
  BY <1>1, ContainersStep, PTL DEF Spec

\* A move that was clicked goes where its button said, from the state that the
\* page showed or, archived, from Shared instead of Published: for any number of
\* containers, share requests and files, on the list and on a container's page.
THEOREM ClicksKeepTheirWord == Spec => []StaleClickKeepsItsWord
<1>1. ContainersInv => StaleClickKeepsItsWord
  BY ContainersInvGivesWord DEF ContainersInv, StaleClickKeepsItsWord
<1> QED
  BY <1>1, MovesAreOffered, PTL

FiguresInv == page = "views" => Views!ViewInv

\* The cache holds under every key what was asked for with it, and every query
\* that is in flight will be kept under the key that names its question.
THEOREM AnswersAreKeyed == Spec => []FiguresInv
<1>1. Init => FiguresInv
  BY ViewsInitInv, PageNames DEF Init, FiguresInv
<1>2. FiguresInv /\ [Next]_vars => FiguresInv'
  <2> SUFFICES ASSUME FiguresInv, [Next]_vars, page' = "views"
               PROVE  Views!ViewInv'
    BY DEF FiguresInv
  <2>1. page = "views" /\ Views!ViewInv
    BY PageStays DEF FiguresInv
  <2>2. [Views!Next]_(Views!vars)
    BY <2>1, PageNames DEF Next, vars, Views!vars
  <2> QED
    BY <2>1, <2>2, ViewsNextInv
<1> QED
  BY <1>1, <1>2, PTL DEF Spec

\* Whatever the user selects while figures are on their way, and however the
\* list of the projects changes, the figures of a page are those it names.
THEOREM FiguresAreOfTheirProject == Spec => []ViewIsOfItsSelection
<1>1. FiguresInv => ViewIsOfItsSelection
  BY ViewsInvGivesView DEF FiguresInv, ViewIsOfItsSelection
<1> QED
  BY <1>1, AnswersAreKeyed, PTL

DecisionsInv == page = "approvals" => Approvals!ApprovalsInv

\* A call that was answered has decided its task, and nobody decides it again:
\* the toast that names the task and its result says what the database holds.
THEOREM DecisionsAreRecorded == Spec => []DecisionsInv
<1>1. Init => DecisionsInv
  BY ApprovalsInitInv, PageNames DEF Init, DecisionsInv
<1>2. DecisionsInv /\ [Next]_vars => DecisionsInv'
  <2> SUFFICES ASSUME DecisionsInv, [Next]_vars, page' = "approvals"
               PROVE  Approvals!ApprovalsInv'
    BY DEF DecisionsInv
  <2>1. page = "approvals" /\ Approvals!ApprovalsInv
    BY PageStays DEF DecisionsInv
  <2>2. [Approvals!Next]_(Approvals!vars)
    BY <2>1, PageNames DEF Next, vars, Approvals!vars
  <2> QED
    BY <2>1, <2>2, ApprovalsNextInv
<1> QED
  BY <1>1, <1>2, PTL DEF Spec

\* What the toast of the approver announces is recorded, however old the queue
\* is that its button was taken from.
THEOREM ToastsAreTrue == Spec => []AnnouncedIsRecorded
<1>1. DecisionsInv => AnnouncedIsRecorded
  BY DEF DecisionsInv, Approvals!ApprovalsInv, AnnouncedIsRecorded
<1> QED
  BY <1>1, DecisionsAreRecorded, PTL

ListsInv == page = "cache" => Cache!CacheInv

\* Whatever reads and mutations overlap, and whichever pages come and go, a read
\* that is kept although it lacks an announced change is recorded as such.
THEOREM KeptReadsAreRecorded == Spec => []ListsInv
<1>1. Init => ListsInv
  BY CacheInitInv, PageNames DEF Init, ListsInv
<1>2. ListsInv /\ [Next]_vars => ListsInv'
  <2> SUFFICES ASSUME ListsInv, [Next]_vars, page' = "cache"
               PROVE  Cache!CacheInv'
    BY DEF ListsInv
  <2>1. page = "cache" /\ Cache!CacheInv
    BY PageStays DEF ListsInv
  <2>2. [Cache!Next]_(Cache!vars)
    BY <2>1, PageNames DEF Next, vars, Cache!vars
  <2> QED
    BY <2>1, <2>2, CacheNextInv
<1> QED
  BY <1>1, <1>2, PTL DEF Spec

\* A list that lacks a change its user made beside it and was told of is stale, for
\* any list and any number of mutations in flight, with two exceptions, both of them
\* recorded in missed: a read that was under way when the change was announced, on a
\* list without an answer or on a page that was left, and the lists in Forgotten.
THEOREM OwnChangesAreFetched == Spec => []OwnChangeIsFetched
<1>1. ListsInv => OwnChangeIsFetched
  BY DEF ListsInv, Cache!CacheInv, OwnChangeIsFetched
<1> QED
  BY <1>1, KeptReadsAreRecorded, PTL

\* The pages of the containers, of the figures and of the naming rules.
ShowTypesInv ==
  /\ \A p \in DOMAIN Followed : page = p => ContainersTyped(Followed[p])
  /\ page = "views" => ViewsListed
  /\ page = "namingRules" => NamingRules!TypeOK

\* One step of these pages.
LEMMA ShowTypesStep ==
  ContainersInv /\ FiguresInv /\ ShowTypesInv /\ [Next]_vars => ShowTypesInv'
<1> SUFFICES ASSUME ContainersInv, FiguresInv, ShowTypesInv, [Next]_vars
             PROVE  ShowTypesInv'
  OBVIOUS
<1>1. ASSUME NEW p \in DOMAIN Followed, page' = p
      PROVE  ContainersTyped(Followed[p])'
  <2>1. page = p
    BY <1>1, PageStays
  <2>2. Containers(Followed[p])!CallsInv /\ ContainersTyped(Followed[p])
    BY <2>1 DEF ContainersInv, ShowTypesInv
  <2>3. [Containers(Followed[p])!Next]_(Containers(Followed[p])!vars)
    BY <2>1, PageNames DEF Next, vars, Containers!vars
  <2> QED
    BY <2>2, <2>3, ContainersNextTyped
<1>2. ASSUME page' = "views"
      PROVE  ViewsListed'
  <2>1. page = "views" /\ Views!ViewInv /\ ViewsListed
    BY <1>2, PageStays DEF FiguresInv, ShowTypesInv
  <2>2. [Views!Next]_(Views!vars)
    BY <2>1, PageNames DEF Next, vars, Views!vars
  <2> QED
    BY <2>1, <2>2, ViewsNextListed
<1>3. ASSUME page' = "namingRules"
      PROVE  NamingRules!TypeOK'
  <2>1. page = "namingRules" /\ NamingRules!TypeOK
    BY <1>3, PageStays DEF ShowTypesInv
  <2>2. [NamingRules!Next]_(NamingRules!vars)
    BY <2>1, PageNames DEF Next, vars, NamingRules!vars
  <2> QED
    BY <2>1, <2>2, NamingRulesNextTyped
<1> QED
  BY <1>1, <1>2, <1>3 DEF ShowTypesInv

\* What is listed, selected, compared and edited on these pages is there.
LEMMA ShowTypesHold == Spec => []ShowTypesInv
<1>1. Init => ShowTypesInv
  <2> SUFFICES ASSUME Init PROVE ShowTypesInv
    OBVIOUS
  <2>1. ASSUME NEW p \in DOMAIN Followed, page = p
        PROVE  ContainersTyped(Followed[p])
    <3>1. Containers(Followed[p])!Init
      BY <2>1, PageNames DEF Init
    <3> QED
      BY <3>1, ContainersInitTyped
  <2>2. page = "views" => ViewsListed
    BY ViewsInitListed, PageNames DEF Init
  <2>3. page = "namingRules" => NamingRules!TypeOK
    BY NamingRulesInitTyped, PageNames DEF Init
  <2> QED
    BY <2>1, <2>2, <2>3 DEF ShowTypesInv
<1> QED
  BY <1>1, ShowTypesStep, MovesAreOffered, AnswersAreKeyed, PTL DEF Spec

\* The types that the pages of this module keep.
LEMMA ShowTypes ==
  ASSUME ShowTypesInv, FiguresInv, DecisionsInv, ListsInv
  PROVE  /\ page = "approvals" => Approvals!TypeOK
         /\ page = "namingRules" => NamingRules!TypeOK
         /\ page = "cache" => Cache!TypeOK
         /\ \A p \in DOMAIN Followed : page = p => Containers(Followed[p])!TypeOK
         /\ page = "views" => Views!TypeOK
<1>1. page = "approvals" => Approvals!TypeOK
  BY DEF DecisionsInv, Approvals!ApprovalsInv
<1>2. page = "cache" => Cache!TypeOK
  BY DEF ListsInv, Cache!CacheInv
<1>3. \A p \in DOMAIN Followed : page = p => Containers(Followed[p])!TypeOK
  BY ContainersTypes DEF ShowTypesInv
<1>4. page = "views" => Views!TypeOK
  BY ViewsTyped DEF ShowTypesInv, FiguresInv
<1> QED
  BY <1>1, <1>2, <1>3, <1>4 DEF ShowTypesInv

\* Whatever earlier edits left behind, and whatever was read again, answered or
\* stored by others under the open edit, a save sends in the columns that the user
\* did not touch what the page showed when the edit was opened.
THEOREM SavesStartFromWhatWasShown == Spec => []UntouchedAsOpened
<1>1. Init => UntouchedAsOpened
  BY PageNames
  DEF Init, UntouchedAsOpened, NamingRules!Init, NamingRules!UntouchedAsOpened, NamingRules!Fresh
<1>2. ShowTypesInv /\ UntouchedAsOpened /\ [Next]_vars => UntouchedAsOpened'
  <2> SUFFICES ASSUME ShowTypesInv, UntouchedAsOpened, [Next]_vars, page' = "namingRules"
               PROVE  NamingRules!UntouchedAsOpened'
    BY DEF UntouchedAsOpened
  <2>1. page = "namingRules" /\ NamingRules!TypeOK /\ NamingRules!UntouchedAsOpened
    BY PageStays DEF ShowTypesInv, UntouchedAsOpened
  <2>2. [NamingRules!Next]_(NamingRules!vars)
    BY <2>1, PageNames DEF Next, vars, NamingRules!vars
  <2> QED
    BY <2>1, <2>2, NamingRulesStep
<1> QED
  BY <1>1, <1>2, ShowTypesHold, PTL DEF Spec
=============================================================================
