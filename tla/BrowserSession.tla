---------------------------- MODULE BrowserSession ---------------------------
(***************************************************************************)
(* The session of one browser tab: the token pair in localStorage, the     *)
(* calls in flight, and the interceptor that answers a 401 with a refresh  *)
(* and one more try.  JavaScript runs one handler at a time; between two   *)
(* awaits of a call any other call may be answered.  The server is         *)
(* AuthTokens seen from outside: two overlapping refreshes of one token    *)
(* may both get a pair.  A pair that neither the tab nor a message knows   *)
(* of may be drawn again, so that sessions are not bounded.                *)
(***************************************************************************)
EXTENDS Naturals, FiniteSets

CONSTANTS
  Pair,   \* token pairs that are known at the same time
  Call,   \* calls in flight at the same time
  None    \* no token

\* What a call is answered besides a pair is none of the pairs.
ASSUME NoneAssumption == Pair \cap {None, "ok", "401", "failed"} = {}

VARIABLES
  stored,   \* access_token and refresh_token of localStorage, always set together
  page,     \* "app", "login", or "leaving" while location.href = "/login" loads
  access,   \* what the server makes of each access token
  refresh,  \* and of each refresh token
  phase,    \* the await each call is at
  job       \* what its closure holds, and the answer on its way

tab == <<stored, page>>
server == <<access, refresh>>
vars == <<tab, server, phase, job>>

Phase == {"idle", "sent", "answered", "refresh.sent", "refresh.checked", "refresh.answered"}
CallKind == {"api", "me", "logout"}

\* body: the refresh token of a logout, the pair a login passes to setAuth.
NoJob == [kind |-> "api", header |-> None, body |-> None, retried |-> FALSE,
          rotate |-> None, answer |-> None, gone |-> FALSE]

Known == {stored} \cup UNION { {job[c].header, job[c].body, job[c].rotate, job[c].answer}
                               : c \in Call }

End(c) ==
  /\ phase' = [phase EXCEPT ![c] = "idle"]
  /\ job' = [job EXCEPT ![c] = NoJob]
Goto(c, j, p) ==
  /\ phase' = [phase EXCEPT ![c] = p]
  /\ job' = [job EXCEPT ![c] = j]

-----------------------------------------------------------------------------
(* The user and the page.                                                  *)

Send(c) ==
  /\ phase[c] = "idle" /\ page \in {"app", "leaving"}
  /\ Goto(c, [NoJob EXCEPT !.header = stored], "sent")
  /\ UNCHANGED <<tab, server>>

\* handleLogout: both tokens are read before the call is made.
SendLogout(c) ==
  /\ phase[c] = "idle" /\ page = "app" /\ stored # None
  /\ Goto(c, [NoJob EXCEPT !.kind = "logout", !.header = stored, !.body = stored], "sent")
  /\ UNCHANGED <<tab, server>>

Issue(p) ==
  /\ p \notin Known
  /\ access' = [access EXCEPT ![p] = "good"]
  /\ refresh' = [refresh EXCEPT ![p] = "good"]

\* The login is answered: the pair is stored, then GET /auth/me.  The button is
\* disabled while a login is running.
Login(c, p) ==
  /\ phase[c] = "idle" /\ page = "login"
  /\ \A d \in Call : job[d].kind = "me" => job[d].gone
  /\ Issue(p)
  /\ stored' = p
  /\ Goto(c, [NoJob EXCEPT !.kind = "me", !.header = p, !.body = p], "sent")
  /\ UNCHANGED page

\* A wrong password is a 401 too: the interceptor wipes and redirects.
LoginRefused ==
  /\ page = "login"
  /\ stored' = None /\ page' = "leaving"
  /\ UNCHANGED <<server, phase, job>>

\* The document is replaced: its calls are answered to nobody.
Abandon ==
  job' = [c \in Call |-> IF phase[c] = "idle" THEN NoJob ELSE [job[c] EXCEPT !.gone = TRUE]]
Unload ==
  /\ page = "leaving"
  /\ page' = "login"
  /\ Abandon
  /\ UNCHANGED <<stored, server, phase>>
Reload ==
  /\ page = "app"
  /\ Abandon
  /\ UNCHANGED <<tab, server, phase>>

-----------------------------------------------------------------------------
(* The server.                                                             *)

\* logout looks at the signature and the expiry only; any other endpoint
\* refuses a revoked token, too.
Serve(c) ==
  LET j == job[c]
      a == IF j.header = None THEN "none" ELSE access[j.header]
      ok == a = "good" \/ (j.kind = "logout" /\ a = "revoked")
  IN /\ phase[c] = "sent"
     /\ Goto(c, [j EXCEPT !.answer = IF ok THEN "ok" ELSE "401"], "answered")
     /\ IF ok /\ j.kind = "logout"
        THEN /\ access' = [access EXCEPT ![j.header] = "revoked"]
             /\ refresh' = [refresh EXCEPT ![j.body] = "revoked"]
        ELSE UNCHANGED server
     /\ UNCHANGED tab

ServeRefresh(c) ==
  LET j == job[c]
  IN /\ phase[c] = "refresh.sent"
     /\ IF refresh[j.rotate] = "good"
        THEN Goto(c, j, "refresh.checked")
        ELSE Goto(c, [j EXCEPT !.answer = "401"], "refresh.answered")
     /\ UNCHANGED <<tab, server>>

ServeRotation(c, p) ==
  LET j == job[c]
  IN /\ phase[c] = "refresh.checked"
     /\ p \notin Known
     /\ access' = [access EXCEPT ![p] = "good"]
     /\ refresh' = [refresh EXCEPT ![p] = "good", ![j.rotate] = "revoked"]
     /\ Goto(c, [j EXCEPT !.answer = p], "refresh.answered")
     /\ UNCHANGED tab

\* A network error or a 5xx, before or after the server has done its part.
Fail(c) ==
  /\ phase[c] \in {"sent", "answered", "refresh.sent", "refresh.checked", "refresh.answered"}
  /\ job[c].answer # "failed"
  /\ Goto(c, [job[c] EXCEPT !.answer = "failed"],
          IF phase[c] \in {"sent", "answered"} THEN "answered" ELSE "refresh.answered")
  /\ UNCHANGED <<tab, server>>

Expire(p) ==
  /\ \/ access[p] # "expired" /\ access' = [access EXCEPT ![p] = "expired"] /\ UNCHANGED refresh
     \/ /\ access[p] = "expired" /\ refresh[p] = "good"
        /\ refresh' = [refresh EXCEPT ![p] = "expired"] /\ UNCHANGED access
  /\ UNCHANGED <<tab, phase, job>>

-----------------------------------------------------------------------------
(* The tab.  What follows a call: setAuth after /auth/me; after a logout,   *)
(* answered or failed, the local session is cleared.                        *)

Wipe == stored' = None /\ page' = "leaving"

After(j) ==
  CASE j.kind = "me" /\ j.answer = "ok" ->
         stored' = j.body /\ page' = IF page = "leaving" THEN page ELSE "app"
    [] j.kind = "logout" ->
         stored' = None /\ page' = IF page = "leaving" THEN page ELSE "login"
    [] OTHER -> UNCHANGED tab

\* An answer, or an error that is not a 401.
Receive(c) ==
  /\ phase[c] = "answered" /\ ~job[c].gone /\ job[c].answer # "401"
  /\ After(job[c])
  /\ End(c)
  /\ UNCHANGED server

\* Faulty: a call that was retried before is refreshed and retried again.
Receive401_Again(c) ==
  LET j == job[c]
  IN /\ phase[c] = "answered" /\ ~j.gone /\ j.answer = "401"
     /\ IF stored # None
        THEN /\ Goto(c, [j EXCEPT !.header = None, !.retried = TRUE, !.rotate = stored,
                                !.answer = None],
                     "refresh.sent")
             /\ UNCHANGED tab
        ELSE Wipe /\ End(c)
     /\ UNCHANGED server
Receive401(c) ==
  LET j == job[c]
  IN /\ phase[c] = "answered" /\ ~j.gone /\ j.answer = "401"
     /\ IF ~j.retried /\ stored # None
        THEN /\ Goto(c, [j EXCEPT !.header = None, !.retried = TRUE, !.rotate = stored,
                                !.answer = None],
                     "refresh.sent")
             /\ UNCHANGED tab
        ELSE Wipe /\ End(c)
     /\ UNCHANGED server

\* Faulty: a refused refresh rejects the call and leaves the tokens in place.
ReceiveRefresh_KeepTokens(c) ==
  LET j == job[c]
  IN /\ phase[c] = "refresh.answered" /\ ~j.gone
     /\ IF j.answer \in Pair
        THEN /\ stored' = j.answer
             /\ Goto(c, [j EXCEPT !.header = j.answer, !.rotate = None, !.answer = None], "sent")
        ELSE End(c) /\ UNCHANGED stored
     /\ UNCHANGED <<page, server>>
\* Faulty: what the refresh was answered is stored without a look at it.
ReceiveRefresh_Unchecked(c) ==
  /\ phase[c] = "refresh.answered" /\ ~job[c].gone
  /\ stored' = job[c].answer
  /\ Goto(c, [job[c] EXCEPT !.header = None, !.rotate = None, !.answer = None], "sent")
  /\ UNCHANGED <<page, server>>
\* The new pair is stored and the call is made again, its body unchanged; any
\* failure of the refresh ends the session.
ReceiveRefresh(c) ==
  LET j == job[c]
  IN /\ phase[c] = "refresh.answered" /\ ~j.gone
     /\ IF j.answer \in Pair
        THEN /\ stored' = j.answer
             /\ Goto(c, [j EXCEPT !.header = j.answer, !.rotate = None, !.answer = None], "sent")
             /\ UNCHANGED page
        ELSE Wipe /\ End(c)
     /\ UNCHANGED server

\* The answer to a document that is gone.
Discard(c) ==
  /\ phase[c] \in {"answered", "refresh.answered"} /\ job[c].gone
  /\ End(c)
  /\ UNCHANGED <<tab, server>>

-----------------------------------------------------------------------------
Init ==
  /\ stored = None /\ page = "login"
  /\ access = [p \in Pair |-> "expired"]
  /\ refresh = [p \in Pair |-> "expired"]
  /\ phase = [c \in Call |-> "idle"]
  /\ job = [c \in Call |-> NoJob]

User(c) == Send(c) \/ SendLogout(c) \/ \E p \in Pair : Login(c, p)

\* What becomes of a call that was made.
Proceed(c) ==
  \/ Serve(c) \/ ServeRefresh(c) \/ Fail(c)
  \/ \E p \in Pair : ServeRotation(c, p)
  \/ Receive(c) \/ Receive401(c) \/ ReceiveRefresh(c) \/ Discard(c)

Next ==
  \/ \E c \in Call : User(c) \/ Proceed(c)
  \/ \E p \in Pair : Expire(p)
  \/ LoginRefused \/ Unload \/ Reload

Spec == Init /\ [][Next]_vars

\* Every request is answered or fails, and the tab runs its callbacks.  Nothing
\* makes a user act or a token expire.
Fairness == \A c \in Call : WF_vars(Proceed(c))
FairSpec == Spec /\ Fairness

-----------------------------------------------------------------------------
(* Properties                                                              *)

Job == [kind : CallKind, header : Pair \cup {None}, body : Pair \cup {None}, retried : BOOLEAN,
        rotate : Pair \cup {None}, answer : Pair \cup {None, "ok", "401", "failed"}, gone : BOOLEAN]

TypeOK ==
  /\ stored \in Pair \cup {None}
  /\ page \in {"app", "login", "leaving"}
  /\ access \in [Pair -> {"good", "expired", "revoked"}]
  /\ refresh \in [Pair -> {"good", "expired", "revoked"}]
  /\ phase \in [Call -> Phase]
  /\ job \in [Call -> Job]

\* Whatever the server answers, and however often tokens expire under a call,
\* the interceptor lets every call end: it does not refresh and retry for ever.
CallsEnd == \A c \in Call : (phase[c] # "idle") ~> (phase[c] = "idle")

\* How far a call is from its end: a refused call is refreshed and made again
\* once, and an answer may get lost after it was made.
Stage(c) ==
  CASE phase[c] = "idle" -> 0
    [] phase[c] = "answered" -> IF job[c].retried THEN 1 ELSE 6
    [] phase[c] = "refresh.answered" -> 3
    [] phase[c] = "refresh.checked" -> 4
    [] phase[c] = "refresh.sent" -> 5
    [] OTHER -> IF job[c].retried THEN 2 ELSE 7
Left(c) == 2 * Stage(c) + IF job[c].answer = "failed" THEN 0 ELSE 1

\* A call comes nearer to its end with everything that happens to it, and no
\* other call, expiry, login or reload takes it further away from it.
CallsAdvance ==
  [][ \A c \in Call :
        \/ phase[c] = "idle" \/ Left(c)' < Left(c)
        \/ phase'[c] = phase[c] /\ job'[c] \in {job[c], [job[c] EXCEPT !.gone = TRUE]} ]_vars

Dead(p) == access[p] # "good" /\ refresh[p] # "good"

\* The page has found out: a call of it has tried to refresh the dead pair.
Noticing(c, p) == stored = p /\ Dead(p) /\ job[c].rotate = p /\ ~job[c].gone

\* A tab whose session is over notices: once a call has tried to refresh a dead
\* pair, the pair does not stay, answered or not, unless the document is
\* replaced first.
DeadSessionEnds ==
  \A c \in Call, p \in Pair :
    Noticing(c, p) ~> (stored # p \/ job[c].gone)

\* ARCHITECTURE.md: a logout revokes the access and the refresh token, that is,
\* when it succeeds nothing of the session it was made in can be used any more.
LogoutEndsSession ==
  [][ \A c \in Call :
        /\ phase[c] = "sent" /\ job[c].kind = "logout" /\ job'[c].answer = "ok"
        /\ job[c].header = stored
        => access'[stored] # "good" /\ refresh'[stored] # "good" ]_vars

-----------------------------------------------------------------------------
(* The inductive invariant (BrowserSession_proofs).                        *)

Refreshing == {"refresh.sent", "refresh.checked", "refresh.answered"}

\* A call that refreshes will not refresh again.
RefreshedOnce == \A c \in Call : phase[c] \in Refreshing => job[c].retried

IndInv == TypeOK /\ RefreshedOnce

\* A call keeps the refresh token that it posted for as long as it refreshes,
\* and what it is answered is another pair.
RefreshHeld ==
  \A c \in Call : job[c].rotate # None =>
    phase[c] \in Refreshing /\ job[c].answer # job[c].rotate
==============================================================================
