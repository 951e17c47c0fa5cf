------------------------ MODULE BrowserSession_proofs ------------------------
(***************************************************************************)
(* Theorems about the session of a tab, for any number of calls and token  *)
(* pairs: the types, the measure that every step of a call lowers, and     *)
(* that a dead session, once noticed, stays so until it is over.           *)
(***************************************************************************)
EXTENDS BrowserSession, TLAPS

Answered == Pair \cup {None, "ok", "401", "failed"}

Typed == /\ stored \in Pair \cup {None}
         /\ page \in {"app", "login", "leaving"}
         /\ access \in [Pair -> {"good", "expired", "revoked"}]
         /\ refresh \in [Pair -> {"good", "expired", "revoked"}]

\* What holds of a call across a step of it.
Advanced(c) == \/ phase[c] = "idle" \/ Left(c)' < Left(c)
               \/ phase'[c] = phase[c] /\ job'[c] \in {job[c], [job[c] EXCEPT !.gone = TRUE]}

-----------------------------------------------------------------------------
(* What the closure of a call becomes.                                     *)

\* A call that was not made has the shape of one that was.
LEMMA NoJobTyped == NoJob \in Job
BY DEF NoJob, Job, CallKind

\* An answer arrives.
LEMMA AnswerTyped ==
  ASSUME NEW j \in Job, NEW a \in Answered, NEW e, e = [j EXCEPT !.answer = a]
  PROVE  e \in Job /\ e.answer = a /\ e.retried = j.retried
BY DEF Job, Answered

\* A refused call is about to be refreshed.
LEMMA RotateTyped ==
  ASSUME NEW j \in Job, NEW s \in Pair \cup {None}, NEW e,
         e = [j EXCEPT !.header = None, !.retried = TRUE, !.rotate = s, !.answer = None]
  PROVE  e \in Job /\ e.answer = None /\ e.retried = TRUE
BY DEF Job

\* A refreshed call is made again.
LEMMA AgainTyped ==
  ASSUME NEW j \in Job, NEW p \in Pair, NEW e,
         e = [j EXCEPT !.header = p, !.rotate = None, !.answer = None]
  PROVE  e \in Job /\ e.answer = None /\ e.retried = j.retried
BY DEF Job

\* The document of a call is replaced.
LEMMA GoneTyped ==
  ASSUME NEW j \in Job, NEW e, e = [j EXCEPT !.gone = TRUE]
  PROVE  e \in Job /\ e.retried = j.retried
BY DEF Job

\* One call moves on: the others stay where they are.
LEMMA GotoInv ==
  ASSUME IndInv, NEW c \in Call, NEW j \in Job, NEW p \in Phase, Goto(c, j, p), Typed',
         p \in Refreshing => j.retried
  PROVE  /\ IndInv'
         /\ phase'[c] = p /\ job'[c] = j
         /\ \A d \in Call \ {c} : Advanced(d)
<1>1. /\ phase' \in [Call -> Phase] /\ job' \in [Call -> Job]
      /\ phase'[c] = p /\ job'[c] = j
      /\ \A d \in Call \ {c} : phase'[d] = phase[d] /\ job'[d] = job[d]
  BY DEF IndInv, TypeOK, Goto
<1>2. IndInv'
  BY <1>1 DEF IndInv, TypeOK, Typed, RefreshedOnce
<1> QED
  BY <1>1, <1>2 DEF Advanced

\* A step that leaves every call where it is.
LEMMA ElsewhereInv ==
  ASSUME IndInv, UNCHANGED <<phase, job>>, Typed'
  PROVE  IndInv' /\ \A d \in Call : Advanced(d)
BY DEF IndInv, TypeOK, Typed, RefreshedOnce, Advanced

-----------------------------------------------------------------------------
(* The steps.                                                              *)

\* The user makes a call.
LEMMA UserInv ==
  ASSUME IndInv, NEW c \in Call, User(c)
  PROVE  IndInv' /\ \A d \in Call : Advanced(d)
<1>1. phase[c] = "idle" /\ "sent" \in Phase /\ "sent" \notin Refreshing
  BY DEF User, Send, SendLogout, Login, Phase, Refreshing
<1>2. ASSUME NEW j \in Job, Goto(c, j, "sent"), Typed'
      PROVE  IndInv' /\ \A d \in Call : Advanced(d)
  BY <1>1, <1>2, GotoInv DEF Advanced
<1>3. CASE Send(c)
  <2>1. [NoJob EXCEPT !.header = stored] \in Job
    BY DEF NoJob, Job, CallKind, IndInv, TypeOK
  <2> QED
    BY <1>2, <1>3, <2>1 DEF Send, tab, server, Typed, IndInv, TypeOK
<1>4. CASE SendLogout(c)
  <2>1. [NoJob EXCEPT !.kind = "logout", !.header = stored, !.body = stored] \in Job
    BY DEF NoJob, Job, CallKind, IndInv, TypeOK
  <2> QED
    BY <1>2, <1>4, <2>1 DEF SendLogout, tab, server, Typed, IndInv, TypeOK
<1>5. ASSUME NEW p \in Pair, Login(c, p)
      PROVE  IndInv' /\ \A d \in Call : Advanced(d)
  <2>1. [NoJob EXCEPT !.kind = "me", !.header = p, !.body = p] \in Job
    BY DEF NoJob, Job, CallKind, IndInv, TypeOK
  <2>2. Typed'
    BY <1>5 DEF Login, Issue, Typed, IndInv, TypeOK
  <2> QED
    BY <1>2, <1>5, <2>1, <2>2 DEF Login
<1> QED
  BY <1>3, <1>4, <1>5 DEF User

\* The server answers, or its answer is lost.
LEMMA ServerInv ==
  ASSUME IndInv, NEW c \in Call,
         \/ Serve(c) \/ ServeRefresh(c) \/ Fail(c) \/ \E p \in Pair : ServeRotation(c, p)
  PROVE  IndInv' /\ \A d \in Call : Advanced(d)
<1>1. job[c] \in Job /\ Typed /\ (phase[c] \in Refreshing => job[c].retried)
  BY DEF IndInv, TypeOK, Typed, RefreshedOnce
<1>2. ASSUME NEW a \in Answered, NEW p \in Phase, Goto(c, [job[c] EXCEPT !.answer = a], p),
             p \in Refreshing => phase[c] \in Refreshing, Typed'
      PROVE  /\ IndInv' /\ phase'[c] = p /\ \A d \in Call \ {c} : Advanced(d)
             /\ job'[c].answer = a /\ job'[c].retried = job[c].retried
  <2> DEFINE e == [job[c] EXCEPT !.answer = a]
  <2>1. e \in Job /\ e.answer = a /\ e.retried = job[c].retried
    BY <1>1, AnswerTyped
  <2>2. Goto(c, e, p)
    BY <1>2
  <2> HIDE DEF e
  <2> QED
    BY <1>1, <1>2, <2>1, <2>2, GotoInv
<1>3. CASE Serve(c)
  <2>1. PICK a \in {"ok", "401"} : Goto(c, [job[c] EXCEPT !.answer = a], "answered")
    BY <1>3 DEF Serve
  <2>2. Typed'
    BY <1>1, <1>3 DEF Serve, Typed, tab, server
  <2>3. a \in Answered /\ "answered" \in Phase /\ "answered" \notin Refreshing
    BY DEF Answered, Phase, Refreshing
  <2>4. /\ IndInv' /\ phase'[c] = "answered" /\ \A d \in Call \ {c} : Advanced(d)
        /\ job'[c].retried = job[c].retried
    BY <1>2, <2>1, <2>2, <2>3
  <2>5. Left(c)' < Left(c)
    BY <1>3, <2>4 DEF Serve, Left, Stage
  <2> QED
    BY <2>4, <2>5 DEF Advanced
<1>4. CASE ServeRefresh(c)
  <2>1. Typed'
    BY <1>1, <1>4 DEF ServeRefresh, Typed, tab, server
  <2>2. phase[c] = "refresh.sent" /\ phase[c] \in Refreshing
    BY <1>4 DEF ServeRefresh, Refreshing
  <2>3. CASE Goto(c, job[c], "refresh.checked")
    <3>1. "refresh.checked" \in Phase
      BY DEF Phase
    <3>2. /\ IndInv' /\ phase'[c] = "refresh.checked" /\ job'[c] = job[c]
          /\ \A d \in Call \ {c} : Advanced(d)
      BY <1>1, <2>1, <2>2, <2>3, <3>1, GotoInv
    <3>3. Left(c)' < Left(c)
      BY <2>2, <3>2 DEF Left, Stage
    <3> QED
      BY <3>2, <3>3 DEF Advanced
  <2>4. CASE Goto(c, [job[c] EXCEPT !.answer = "401"], "refresh.answered")
    <3>1. "401" \in Answered /\ "refresh.answered" \in Phase
      BY DEF Answered, Phase
    <3>2. /\ IndInv' /\ phase'[c] = "refresh.answered" /\ \A d \in Call \ {c} : Advanced(d)
      BY <1>2, <2>1, <2>2, <2>4, <3>1
    <3>3. Left(c)' < Left(c)
      BY <2>2, <3>2 DEF Left, Stage
    <3> QED
      BY <3>2, <3>3 DEF Advanced
  <2> QED
    BY <1>4, <2>3, <2>4 DEF ServeRefresh
<1>5. CASE Fail(c)
  <2> DEFINE p == IF phase[c] \in {"sent", "answered"} THEN "answered" ELSE "refresh.answered"
  <2>1. Typed'
    BY <1>1, <1>5 DEF Fail, Typed, tab, server
  <2>2. "failed" \in Answered /\ p \in Phase /\ (p \in Refreshing => phase[c] \in Refreshing)
    BY <1>5 DEF Fail, Answered, Phase, Refreshing
  <2>3. Goto(c, [job[c] EXCEPT !.answer = "failed"], p)
    BY <1>5 DEF Fail
  <2>4. /\ IndInv' /\ phase'[c] = p /\ \A d \in Call \ {c} : Advanced(d)
        /\ job'[c].answer = "failed" /\ job'[c].retried = job[c].retried
    <3> HIDE DEF p
    <3> QED
      BY <1>2, <2>1, <2>2, <2>3
  <2>5. Left(c)' < Left(c)
    BY <1>5, <2>4 DEF Fail, Left, Stage
  <2> QED
    BY <2>4, <2>5 DEF Advanced
<1>6. ASSUME NEW q \in Pair, ServeRotation(c, q)
      PROVE  IndInv' /\ \A d \in Call : Advanced(d)
  <2>1. Typed'
    BY <1>1, <1>6 DEF ServeRotation, Typed, tab, server
  <2>2. /\ q \in Answered /\ "refresh.answered" \in Phase
        /\ phase[c] = "refresh.checked" /\ phase[c] \in Refreshing
    BY <1>6 DEF ServeRotation, Answered, Phase, Refreshing
  <2>3. /\ IndInv' /\ phase'[c] = "refresh.answered" /\ \A d \in Call \ {c} : Advanced(d)
    BY <1>2, <1>6, <2>1, <2>2 DEF ServeRotation
  <2>4. Left(c)' < Left(c)
    BY <2>2, <2>3 DEF Left, Stage
  <2> QED
    BY <2>3, <2>4 DEF Advanced
<1> QED
  BY <1>3, <1>4, <1>5, <1>6

\* The tab is answered, or nobody is.
LEMMA TabInv ==
  ASSUME IndInv, NEW c \in Call, Receive(c) \/ Receive401(c) \/ ReceiveRefresh(c) \/ Discard(c)
  PROVE  IndInv' /\ \A d \in Call : Advanced(d)
<1>1. job[c] \in Job /\ Typed /\ (phase[c] \in Refreshing => job[c].retried)
  BY DEF IndInv, TypeOK, Typed, RefreshedOnce
<1>2. ASSUME End(c), Typed', phase[c] \in {"answered", "refresh.answered"}
      PROVE  IndInv' /\ \A d \in Call : Advanced(d)
  <2>1. "idle" \in Phase /\ "idle" \notin Refreshing /\ NoJob.answer = None
    BY DEF Phase, Refreshing, NoJob
  <2>2. Goto(c, NoJob, "idle")
    BY <1>2 DEF End, Goto
  <2>3. /\ IndInv' /\ phase'[c] = "idle" /\ \A d \in Call \ {c} : Advanced(d)
    BY <1>2, <2>1, <2>2, NoJobTyped, GotoInv
  <2>4. Left(c)' < Left(c)
    BY <1>2, <2>3 DEF Left, Stage
  <2> QED
    BY <2>3, <2>4 DEF Advanced
<1>3. CASE Receive(c)
  <2>1. Typed'
    BY <1>1, <1>3 DEF Receive, After, Typed, tab, server, Job, CallKind
  <2> QED
    BY <1>2, <1>3, <2>1 DEF Receive
<1>4. CASE Discard(c)
  <2>1. Typed'
    BY <1>1, <1>4 DEF Discard, Typed, tab, server
  <2> QED
    BY <1>2, <1>4, <2>1 DEF Discard
<1>5. CASE Receive401(c)
  <2>1. Typed'
    BY <1>1, <1>5 DEF Receive401, Wipe, Typed, tab, server
  <2>2. CASE End(c)
    BY <1>2, <1>5, <2>1, <2>2 DEF Receive401
  <2>3. CASE ~End(c)
    <3> DEFINE e == [job[c] EXCEPT !.header = None, !.retried = TRUE, !.rotate = stored,
                                   !.answer = None]
    <3>1. e \in Job /\ e.retried = TRUE
      BY <1>1, RotateTyped DEF Typed
    <3>2. Goto(c, e, "refresh.sent") /\ ~job[c].retried /\ phase[c] = "answered"
      BY <1>5, <2>3 DEF Receive401
    <3>3. "refresh.sent" \in Phase
      BY DEF Phase
    <3> HIDE DEF e
    <3>4. IndInv' /\ phase'[c] = "refresh.sent" /\ \A d \in Call \ {c} : Advanced(d)
      BY <2>1, <3>1, <3>2, <3>3, GotoInv
    <3>5. Left(c)' < Left(c)
      BY <3>2, <3>4 DEF Left, Stage
    <3> QED
      BY <3>4, <3>5 DEF Advanced
  <2> QED
    BY <2>2, <2>3
<1>6. CASE ReceiveRefresh(c)
  <2>1. Typed'
    BY <1>1, <1>6 DEF ReceiveRefresh, Wipe, Typed, tab, server
  <2>2. CASE job[c].answer \notin Pair
    BY <1>2, <1>6, <2>1, <2>2 DEF ReceiveRefresh
  <2>3. CASE job[c].answer \in Pair
    <3> DEFINE e == [job[c] EXCEPT !.header = job[c].answer, !.rotate = None, !.answer = None]
    <3>1. e \in Job /\ e.retried = job[c].retried
      BY <1>1, <2>3, AgainTyped
    <3>2. /\ Goto(c, e, "sent") /\ phase[c] = "refresh.answered" /\ phase[c] \in Refreshing
      BY <1>6, <2>3 DEF ReceiveRefresh, Refreshing
    <3>3. "sent" \in Phase /\ "sent" \notin Refreshing
      BY DEF Phase, Refreshing
    <3> HIDE DEF e
    <3>4. /\ IndInv' /\ phase'[c] = "sent" /\ job'[c] = e /\ \A d \in Call \ {c} : Advanced(d)
      BY <2>1, <3>1, <3>2, <3>3, GotoInv
    <3>5. Left(c)' < Left(c)
      BY <1>1, <3>1, <3>2, <3>4 DEF Left, Stage
    <3> QED
      BY <3>4, <3>5 DEF Advanced
  <2> QED
    BY <2>2, <2>3
<1> QED
  BY <1>3, <1>4, <1>5, <1>6

\* The document is replaced.
LEMMA AbandonInv ==
  ASSUME IndInv, Abandon, UNCHANGED phase, Typed'
  PROVE  IndInv' /\ \A d \in Call : Advanced(d)
<1>1. ASSUME NEW d \in Call
      PROVE  /\ job'[d] \in Job
             /\ phase[d] # "idle" => /\ job'[d] = [job[d] EXCEPT !.gone = TRUE]
                                     /\ job'[d].retried = job[d].retried
  <2>1. job[d] \in Job
    BY DEF IndInv, TypeOK
  <2>2. job'[d] = IF phase[d] = "idle" THEN NoJob ELSE [job[d] EXCEPT !.gone = TRUE]
    BY DEF Abandon
  <2>3. CASE phase[d] = "idle"
    BY <2>2, <2>3, NoJobTyped
  <2>4. CASE phase[d] # "idle"
    BY <2>1, <2>2, <2>4, GoneTyped
  <2> QED
    BY <2>3, <2>4
<1>2. job' \in [Call -> Job]
  <2>1. job' = [d \in Call |-> job'[d]]
    BY DEF Abandon
  <2> QED
    BY <1>1, <2>1
<1>3. IndInv'
  BY <1>1, <1>2 DEF IndInv, TypeOK, Typed, RefreshedOnce, Refreshing
<1> QED
  BY <1>1, <1>3 DEF Advanced

\* Every step of the tab, the server and the user.
LEMMA NextInv == IndInv /\ [Next]_vars => IndInv' /\ \A d \in Call : Advanced(d)
<1> SUFFICES ASSUME IndInv, [Next]_vars
             PROVE  IndInv' /\ \A d \in Call : Advanced(d)
  OBVIOUS
<1>1. ASSUME NEW c \in Call, User(c)
      PROVE  IndInv' /\ \A d \in Call : Advanced(d)
  BY <1>1, UserInv
<1>2. ASSUME NEW c \in Call, Proceed(c)
      PROVE  IndInv' /\ \A d \in Call : Advanced(d)
  BY <1>2, ServerInv, TabInv DEF Proceed
<1>3. ASSUME NEW p \in Pair, Expire(p)
      PROVE  IndInv' /\ \A d \in Call : Advanced(d)
  <2>1. Typed'
    BY <1>3 DEF Expire, Typed, tab, IndInv, TypeOK
  <2> QED
    BY <1>3, <2>1, ElsewhereInv DEF Expire
<1>4. CASE LoginRefused
  BY <1>4, ElsewhereInv DEF LoginRefused, server, Typed, IndInv, TypeOK
<1>5. CASE Unload
  BY <1>5, AbandonInv DEF Unload, server, Typed, IndInv, TypeOK
<1>6. CASE Reload
  BY <1>6, AbandonInv DEF Reload, tab, server, Typed, IndInv, TypeOK
<1>7. CASE UNCHANGED vars
  BY <1>7, ElsewhereInv DEF vars, tab, server, Typed, IndInv, TypeOK
<1> QED
  BY <1>1, <1>2, <1>3, <1>4, <1>5, <1>6, <1>7 DEF Next

-----------------------------------------------------------------------------
(* What holds of the session.                                              *)

\* The tab, the server and the calls keep their types, and a call that refreshes
\* is marked so that it does not refresh again.
THEOREM CallsAreConsistent == Spec => []IndInv
<1>1. Init => IndInv
  BY NoJobTyped DEF Init, IndInv, TypeOK, RefreshedOnce, Phase, Refreshing
<1> QED
  BY <1>1, NextInv, PTL DEF Spec

\* The type invariant.
THEOREM SessionTyped == Spec => []TypeOK
<1>1. IndInv => TypeOK
  BY DEF IndInv
<1> QED
  BY <1>1, CallsAreConsistent, PTL

\* The measure behind the end of every call: whatever happens to a call brings
\* it nearer to its end, however many calls refresh and however often tokens
\* expire under them.
THEOREM EveryStepAdvances == Spec => CallsAdvance
<1>1. IndInv /\ [Next]_vars =>
        [ \A c \in Call :
            \/ phase[c] = "idle" \/ Left(c)' < Left(c)
            \/ phase'[c] = phase[c] /\ job'[c] \in {job[c], [job[c] EXCEPT !.gone = TRUE]} ]_vars
  BY NextInv DEF Advanced
<1> QED
  BY <1>1, CallsAreConsistent, PTL DEF Spec, CallsAdvance

-----------------------------------------------------------------------------
(* A dead session: the step that DeadSessionEnds rests on.                 *)

\* A call that is not refreshed any more, or whose answer changes, forgets or
\* keeps the token it posted.
LEMMA HeldStep == IndInv /\ RefreshHeld /\ [Next]_vars => RefreshHeld'
<1> SUFFICES ASSUME IndInv, RefreshHeld, [Next]_vars PROVE RefreshHeld'
  OBVIOUS
<1> DEFINE Held(c) == job[c].rotate # None =>
                        phase[c] \in Refreshing /\ job[c].answer # job[c].rotate
<1>0. \A c \in Call : Held(c) /\ job[c] \in Job
  BY DEF RefreshHeld, IndInv, TypeOK
<1>1. /\ job \in [Call -> Job] /\ phase \in [Call -> Phase]
      /\ stored \in Pair \cup {None}
  BY DEF IndInv, TypeOK
<1>2. ASSUME NEW c \in Call, NEW j, NEW q, Goto(c, j, q),
             j.rotate # None => q \in Refreshing /\ j.answer # j.rotate
      PROVE  RefreshHeld'
  BY <1>0, <1>1, <1>2 DEF Goto, RefreshHeld
<1>3. ASSUME NEW c \in Call, End(c) PROVE RefreshHeld'
  BY <1>0, <1>1, <1>3 DEF End, NoJob, RefreshHeld
<1>4. ASSUME UNCHANGED <<phase, job>> PROVE RefreshHeld'
  BY <1>4 DEF RefreshHeld
<1>5. ASSUME Abandon, UNCHANGED phase PROVE RefreshHeld'
  <2> SUFFICES ASSUME NEW c \in Call PROVE Held(c)'
    BY DEF RefreshHeld
  <2>1. job'[c] = IF phase[c] = "idle" THEN NoJob ELSE [job[c] EXCEPT !.gone = TRUE]
    BY <1>5 DEF Abandon
  <2> QED
    BY <1>0, <1>5, <2>1 DEF NoJob, Job
<1>6. ASSUME NEW c \in Call, User(c) PROVE RefreshHeld'
  BY <1>2, <1>6 DEF User, Send, SendLogout, Login, NoJob
<1>7. ASSUME NEW c \in Call, Serve(c) PROVE RefreshHeld'
  <2>1. job[c].rotate = None
    BY <1>0, <1>7 DEF Serve, Refreshing
  <2>2. PICK a : Goto(c, [job[c] EXCEPT !.answer = a], "answered")
    BY <1>7 DEF Serve
  <2> QED
    BY <1>0, <1>2, <2>1, <2>2 DEF Job
<1>8. ASSUME NEW c \in Call, ServeRefresh(c) PROVE RefreshHeld'
  <2>1. \/ Goto(c, job[c], "refresh.checked")
        \/ Goto(c, [job[c] EXCEPT !.answer = "401"], "refresh.answered")
    BY <1>8 DEF ServeRefresh
  <2>2. "401" # job[c].rotate \/ job[c].rotate = None
    BY <1>0, NoneAssumption DEF Job
  <2> QED
    BY <1>0, <1>2, <2>1, <2>2 DEF Job, Refreshing
<1>9. ASSUME NEW c \in Call, NEW p \in Pair, ServeRotation(c, p) PROVE RefreshHeld'
  <2>1. Goto(c, [job[c] EXCEPT !.answer = p], "refresh.answered") /\ p # job[c].rotate
    BY <1>9 DEF ServeRotation, Known
  <2> QED
    BY <1>0, <1>2, <2>1 DEF Job, Refreshing
<1>10. ASSUME NEW c \in Call, Fail(c) PROVE RefreshHeld'
  <2>1. /\ phase[c] \in Refreshing => Goto(c, [job[c] EXCEPT !.answer = "failed"], "refresh.answered")
        /\ phase[c] \notin Refreshing => Goto(c, [job[c] EXCEPT !.answer = "failed"], "answered")
    BY <1>10 DEF Fail, Refreshing
  <2>2. "failed" # job[c].rotate \/ job[c].rotate = None
    BY <1>0, NoneAssumption DEF Job
  <2> QED
    BY <1>0, <1>2, <2>1, <2>2 DEF Job, Refreshing
<1>11. ASSUME NEW c \in Call, Receive401(c) PROVE RefreshHeld'
  <2>1. CASE End(c)
    BY <1>3, <2>1
  <2>2. CASE ~End(c)
    <3>1. Goto(c, [job[c] EXCEPT !.header = None, !.retried = TRUE, !.rotate = stored,
                                 !.answer = None], "refresh.sent") /\ stored # None
      BY <1>11, <2>2 DEF Receive401
    <3> QED
      BY <1>0, <1>2, <3>1 DEF Job, Refreshing
  <2> QED
    BY <2>1, <2>2
<1>12. ASSUME NEW c \in Call, ReceiveRefresh(c) PROVE RefreshHeld'
  <2>1. CASE End(c)
    BY <1>3, <2>1
  <2>2. CASE ~End(c)
    <3>1. Goto(c, [job[c] EXCEPT !.header = job[c].answer, !.rotate = None, !.answer = None], "sent")
      BY <1>12, <2>2 DEF ReceiveRefresh
    <3> QED
      BY <1>0, <1>2, <3>1 DEF Job
  <2> QED
    BY <2>1, <2>2
<1>13. ASSUME NEW c \in Call, Receive(c) \/ Discard(c) PROVE RefreshHeld'
  BY <1>3, <1>13 DEF Receive, Discard
<1> QED
  BY <1>4, <1>5, <1>6, <1>7, <1>8, <1>9, <1>10, <1>11, <1>12, <1>13
     DEF Next, Proceed, Expire, LoginRefused, Unload, Reload, vars

\* A dead pair is not revived while the tab or a message knows of it.
LEMMA DeadStaysDead ==
  ASSUME IndInv, NEW p \in Known, p \in Pair, Dead(p), [Next]_vars
  PROVE  Dead(p)'
<1>1. access \in [Pair -> {"good", "expired", "revoked"}] /\ refresh \in [Pair -> {"good", "expired", "revoked"}]
  BY DEF IndInv, TypeOK
<1>2. ASSUME UNCHANGED server PROVE Dead(p)'
  BY <1>2 DEF Dead, server
<1>3. ASSUME NEW c \in Call, Serve(c) PROVE Dead(p)'
  BY <1>1, <1>2, <1>3 DEF Serve, Dead
<1>4. ASSUME NEW c \in Call, NEW q \in Pair, ServeRotation(c, q) PROVE Dead(p)'
  BY <1>1, <1>4 DEF ServeRotation, Dead
<1>5. ASSUME NEW c \in Call, NEW q \in Pair, Login(c, q) PROVE Dead(p)'
  BY <1>1, <1>5 DEF Login, Issue, Dead
<1>6. ASSUME NEW q \in Pair, Expire(q) PROVE Dead(p)'
  BY <1>1, <1>6 DEF Expire, Dead
<1> QED
  BY <1>2, <1>3, <1>4, <1>5, <1>6
     DEF Next, User, Proceed, Send, SendLogout, ServeRefresh, Fail, Receive, Receive401,
         ReceiveRefresh, Discard, LoginRefused, Unload, Reload, vars

\* A call that refreshes a pair ends that only by replacing or removing the pair.
LEMMA RefreshGoesOn ==
  ASSUME IndInv, RefreshHeld, NEW c \in Call, NEW p \in Pair, stored = p,
         job[c].rotate = p, ~job[c].gone, [Next]_vars
  PROVE  stored' # p \/ job'[c].rotate = p
<1>1. /\ phase[c] \in Refreshing /\ job[c].answer # p /\ p # None /\ job[c] \in Job
      /\ job \in [Call -> Job]
  BY NoneAssumption DEF RefreshHeld, IndInv, TypeOK
<1>2. ASSUME NEW d \in Call \ {c}, NEW j, NEW q, Goto(d, j, q) PROVE job'[c] = job[c]
  BY <1>1, <1>2 DEF Goto
<1>3. ASSUME NEW d \in Call \ {c}, End(d) PROVE job'[c] = job[c]
  BY <1>1, <1>3 DEF End
<1>4. ASSUME NEW a, NEW q, Goto(c, [job[c] EXCEPT !.answer = a], q) PROVE job'[c].rotate = p
  BY <1>1, <1>4 DEF Goto, Job
<1>5. ASSUME Abandon PROVE job'[c].rotate = p
  BY <1>1, <1>5 DEF Abandon, Refreshing, Job
<1>6. ASSUME NEW d \in Call, User(d) PROVE job'[c].rotate = p
  <2>1. d # c
    BY <1>1, <1>6 DEF User, Send, SendLogout, Login, Refreshing
  <2> QED
    BY <1>2, <1>6, <2>1 DEF User, Send, SendLogout, Login
<1>7. ASSUME NEW d \in Call, \/ Serve(d) \/ ServeRefresh(d) \/ Fail(d)
                             \/ \E q \in Pair : ServeRotation(d, q)
      PROVE  job'[c].rotate = p
  <2>1. CASE d # c
    BY <1>2, <1>7, <2>1 DEF Serve, ServeRefresh, Fail, ServeRotation
  <2>2. CASE d = c
    <3>1. ASSUME NEW q, Goto(c, job[c], q) PROVE job'[c].rotate = p
      BY <1>1, <3>1 DEF Goto
    <3> QED
      BY <1>1, <1>4, <1>7, <2>2, <3>1 DEF Serve, ServeRefresh, Fail, ServeRotation
  <2> QED
    BY <2>1, <2>2
<1>8. ASSUME NEW d \in Call, Receive(d) \/ Receive401(d) \/ Discard(d) PROVE job'[c].rotate = p
  <2>1. d # c
    BY <1>1, <1>8 DEF Receive, Receive401, Discard, Refreshing
  <2> QED
    BY <1>2, <1>3, <1>8, <2>1 DEF Receive, Receive401, Discard
<1>9. ASSUME NEW d \in Call, ReceiveRefresh(d) PROVE stored' # p \/ job'[c].rotate = p
  <2>1. CASE d # c
    BY <1>2, <1>3, <1>9, <2>1 DEF ReceiveRefresh
  <2>2. CASE d = c
    BY <1>1, <1>9, <2>2 DEF ReceiveRefresh, Wipe
  <2> QED
    BY <2>1, <2>2
<1> QED
  BY <1>5, <1>6, <1>7, <1>8, <1>9
     DEF Next, Proceed, Expire, LoginRefused, Unload, Reload, vars

\* A page that has found out that its session is over goes on knowing it until
\* the pair is gone or the document is replaced: no other call, login, expiry or
\* late answer of the server revives the pair, and the refresh is not given up.
\* With CallsAdvance, which bounds the steps of the call, DeadSessionEnds only
\* needs that the call goes on.
NoticedUntilOver ==
  [][ \A c \in Call, p \in Pair :
        Noticing(c, p) => Noticing(c, p)' \/ stored' # p \/ job'[c].gone ]_vars

\* A dead session is noticed for good.
THEOREM DeadSessionsStayNoticed == Spec => NoticedUntilOver
<1>1. Init => RefreshHeld
  BY DEF Init, RefreshHeld, NoJob
<1>2. Spec => []RefreshHeld
  BY <1>1, HeldStep, CallsAreConsistent, PTL DEF Spec
<1>3. ASSUME IndInv, RefreshHeld, [Next]_vars,
             NEW c \in Call, NEW p \in Pair, Noticing(c, p), stored' = p, ~job'[c].gone
      PROVE  Noticing(c, p)'
  <2>1. p \in Known
    BY <1>3 DEF Noticing, Known
  <2>2. Dead(p)'
    BY <1>3, <2>1, DeadStaysDead DEF Noticing
  <2>3. job'[c].rotate = p
    BY <1>3, RefreshGoesOn DEF Noticing
  <2> QED
    BY <1>3, <2>2, <2>3 DEF Noticing, Dead
<1>4. IndInv /\ RefreshHeld /\ [Next]_vars =>
        [ \A c \in Call, p \in Pair :
            Noticing(c, p) => Noticing(c, p)' \/ stored' # p \/ job'[c].gone ]_vars
  BY <1>3
<1> QED
  BY <1>2, <1>4, CallsAreConsistent, PTL DEF Spec, NoticedUntilOver
=============================================================================
