----------------------------- MODULE Identifiers -----------------------------
(***************************************************************************)
(* The naming rule of one project and the containers created in it.        *)
(* Creating a container reads the rule, judges the identifier, looks for a *)
(* container of that identifier and inserts: three awaits without a lock   *)
(* and without a unique constraint on (project, identifier).  The rule has *)
(* such a constraint, so its writers wait for one another.                 *)
(***************************************************************************)
EXTENDS NamingValidator

CONSTANTS
  Container,  \* ids insertions draw
  RuleId,     \* ids of rule rows: one per request suffices
  RuleBody,   \* what a PUT may carry: [separator, segments]
  Request,    \* requests in flight at the same time
  None        \* NULL

ASSUME BodyAssumption ==
  RuleBody \subseteq [separator : Separator, segments : Seq(Segment)]

\* The columns of project_naming_rules the model keeps.
RuleRow == [id : RuleId, separator : Separator, segments : Seq(Segment)]

ASSUME NoneAssumption ==
  None \notin Identifier /\ None \notin RuleBody /\ None \notin RuleId /\ None \notin RuleRow

VARIABLES
  rule,       \* the row of project_naming_rules, None when there is none
  containers, \* the committed rows of information_containers
  phase,      \* the await each request is at
  job         \* its arguments and what it has read so far

vars == <<rule, containers, phase, job>>

Phase == {"idle", "create.check", "create.commit", "put.flush", "put.commit", "delete.commit"}

\* put: what others made of the rule since the request read it (None: deleted
\* it), known: the containers there were when it did; only for the properties.
NoJob == [identifier |-> None, rule |-> None, body |-> None, known |-> {}, put |-> {}]

Goto(r, j, p) ==
  /\ phase' = [phase EXCEPT ![r] = p]
  /\ job' = [job EXCEPT ![r] = j]

Finish(r) == Goto(r, NoJob, "idle")

\* An error answer (409 of the uniqueness check or of the unique constraint,
\* 500), a lost client, a dead worker: the transaction is undone.
Rollback(r) ==
  /\ phase[r] # "idle"
  /\ Finish(r)
  /\ UNCHANGED <<rule, containers>>

-----------------------------------------------------------------------------
(* POST .../containers                                                     *)

Effective == IF rule = None THEN _default_iso19650_rule
             ELSE [separator |-> rule.separator, segments |-> rule.segments]

\* _resolve_naming_rule; validate_identifier follows without an await.
CreateResolve(r, i) ==
  /\ phase[r] = "idle"
  /\ Goto(r, [NoJob EXCEPT !.identifier = i, !.rule = Effective, !.known = DOMAIN containers],
          "create.check")
  /\ UNCHANGED <<rule, containers>>

\* Faulty: containers with an invalid name do not count.
_ensure_unique_identifier_ValidOnly(r) ==
  \A c \in DOMAIN containers :
    containers[c].naming_valid => containers[c].identifier # job[r].identifier

\* scalar_one_or_none returns None only of no row; it answers 409 for one and
\* fails for more.
_ensure_unique_identifier(r) ==
  \A c \in DOMAIN containers : containers[c].identifier # job[r].identifier

CreateCheck(r) ==
  /\ phase[r] = "create.check"
  /\ _ensure_unique_identifier(r)
  /\ Goto(r, job[r], "create.commit")
  /\ UNCHANGED <<rule, containers>>

\* ValidationResult.is_compliant
NamingValid(j) == validate_identifier(j.identifier, j.rule) = "compliant"

\* known is kept only for the properties.
CreateCommit(r, c) ==
  /\ phase[r] = "create.commit"
  /\ c \notin DOMAIN containers
  /\ LET j == job[r]
         row == [identifier |-> j.identifier,
                 naming_valid |-> NamingValid(j),
                 known |-> j.known]
     IN containers' = [d \in DOMAIN containers \cup {c} |->
                         IF d = c THEN row ELSE containers[d]]
  /\ Finish(r)
  /\ UNCHANGED rule

-----------------------------------------------------------------------------
(* PUT and DELETE .../naming-rule                                          *)

FreshRow(d) ==
  /\ rule # None => rule.id # d
  /\ \A q \in Request : job[q].rule # None /\ phase[q] \in {"put.flush", "put.commit", "delete.commit"}
       => job[q].rule.id # d

PutRead(r, body) ==
  /\ phase[r] = "idle"
  /\ Goto(r, [NoJob EXCEPT !.body = body, !.rule = rule], "put.flush")
  /\ UNCHANGED <<rule, containers>>

\* The ORM sends only the columns whose value differs from the one it read.
Changed(r, column) == job[r].body[column] # job[r].rule[column]

\* Has flushed a write of the rule: holds its row, or its place in the index.
HoldsRule(r) ==
  /\ phase[r] = "put.commit"
  /\ job[r].rule = None \/ Changed(r, "separator") \/ Changed(r, "segments")

\* Faulty: without the unique constraint only a row can be held, not its absence.
RuleFree_NoConstraint(r) ==
  \A q \in Request \ {r} : HoldsRule(q) => job[q].rule = None

RuleFree(r) == \A q \in Request \ {r} : ~HoldsRule(q)

\* A row that was there must still be there to be updated, a row that was not
\* must still not be; otherwise the statement fails (StaleDataError, UNIQUE).
PutFlush(r) ==
  /\ phase[r] = "put.flush"
  /\ LET read == job[r].rule
     IN \/ /\ read # None
           /\ ~Changed(r, "separator") /\ ~Changed(r, "segments")
        \/ /\ RuleFree(r)
           /\ IF read = None THEN rule = None
              ELSE rule # None /\ rule.id = read.id
  /\ Goto(r, job[r], "put.commit")
  /\ UNCHANGED <<rule, containers>>

\* The request ends; other writers remember what it made of the rule.
FinishWith(r, what) ==
  /\ phase' = [phase EXCEPT ![r] = "idle"]
  /\ job' = [q \in Request |->
               IF q = r THEN NoJob
               ELSE IF job[q].body # None THEN [job[q] EXCEPT !.put = @ \cup {what}]
               ELSE job[q]]

\* Faulty: the body takes the place of the row, which loses its id.
Updated_Body(r) == job[r].body

\* Faulty: a rule that is there keeps its separator.
Updated_SegmentsOnly(r) ==
  [id |-> rule.id, separator |-> rule.separator, segments |-> job[r].body.segments]

Updated(r) ==
  [id |-> rule.id,
   separator |-> IF Changed(r, "separator") THEN job[r].body.separator ELSE rule.separator,
   segments |-> IF Changed(r, "segments") THEN job[r].body.segments ELSE rule.segments]

PutCommit(r, d) ==
  /\ phase[r] = "put.commit"
  /\ IF job[r].rule = None
     THEN /\ FreshRow(d)
          /\ rule' = [id |-> d, separator |-> job[r].body.separator,
                      segments |-> job[r].body.segments]
     ELSE /\ d = job[r].rule.id
          /\ rule' = IF HoldsRule(r) THEN Updated(r) ELSE rule
  /\ FinishWith(r, job[r].body)
  /\ UNCHANGED containers

\* Nothing is deleted, and nothing committed, when there is no row.
DeleteRead(r) ==
  /\ phase[r] = "idle"
  /\ rule # None
  /\ Goto(r, [NoJob EXCEPT !.rule = rule], "delete.commit")
  /\ UNCHANGED <<rule, containers>>

\* Nobody has flushed an UPDATE of the row r read.
RowFree(r) ==
  \A q \in Request :
    HoldsRule(q) /\ job[q].rule # None => job[q].rule.id # job[r].rule.id

\* The DELETE is flushed by the commit; that it finds no row is a warning only.
DeleteCommit(r) ==
  /\ phase[r] = "delete.commit"
  /\ RowFree(r)
  /\ rule' = IF rule # None /\ rule.id = job[r].rule.id THEN None ELSE rule
  /\ FinishWith(r, None)
  /\ UNCHANGED containers

-----------------------------------------------------------------------------
Init ==
  /\ rule = None
  /\ containers = << >>
  /\ phase = [r \in Request |-> "idle"]
  /\ job = [r \in Request |-> NoJob]

Next ==
  \E r \in Request :
    \/ Rollback(r)
    \/ \E i \in Identifier : CreateResolve(r, i)
    \/ CreateCheck(r)
    \/ \E c \in Container : CreateCommit(r, c)
    \/ \E body \in RuleBody : PutRead(r, body)
    \/ PutFlush(r)
    \/ \E d \in RuleId : PutCommit(r, d)
    \/ DeleteRead(r)
    \/ DeleteCommit(r)

Spec == Init /\ [][Next]_vars

-----------------------------------------------------------------------------
Rule == [separator : Separator, segments : Seq(Segment)]
Row == [identifier : Identifier, naming_valid : BOOLEAN, known : SUBSET Container]
Job == [identifier : Identifier \cup {None}, rule : Rule \cup RuleRow \cup {None},
        body : RuleBody \cup {None}, known : SUBSET Container,
        put : SUBSET (RuleBody \cup {None})]

\* The columns of the two tables and the local variables of the handlers.
TypeOK ==
  /\ rule \in RuleRow \cup {None}
  /\ DOMAIN containers \subseteq Container
  /\ containers \in [DOMAIN containers -> Row]
  /\ phase \in [Request -> Phase]
  /\ job \in [Request -> Job]

\* naming_valid is what the rule the creation resolved says, read declaratively:
\* the look-ahead of validate_identifier finds the reading that keeps every
\* required segment and the most, and first, optional ones.
VerdictIsReference ==
  [][ \A r \in Request, c \in Container : CreateCommit(r, c) =>
        (containers'[c].naming_valid <=>
           Judgement(job[r].identifier, job[r].rule) = "compliant") ]_vars

\* _ensure_unique_identifier: two containers share an identifier only if each
\* was created before the other was there to be seen.
DuplicatesOverlap ==
  \A c, d \in DOMAIN containers :
    c # d /\ containers[c].identifier = containers[d].identifier =>
      c \notin containers[d].known

\* uq_project_naming_rule and the row lock: between its flush and its commit a
\* PUT keeps the row it updates, or keeps others from inserting one before it.
RuleStands ==
  \A r \in Request : HoldsRule(r) =>
    IF job[r].rule = None THEN rule = None
    ELSE rule # None /\ rule.id = job[r].rule.id

\* A PUT leaves no column of the rule it read where it wanted another: what is
\* stored when it commits is its own or what another request put, or deleted,
\* since.
PutsTakeEffect ==
  [][ \A r \in Request, d \in RuleId : PutCommit(r, d) =>
        IF rule' = None THEN None \in job[r].put
        ELSE \A column \in {"separator", "segments"} :
               \E b \in {job[r].body} \cup (job[r].put \ {None}) :
                 rule'[column] = b[column] ]_vars

-----------------------------------------------------------------------------
(* A statement of the tests the code does not keep.                        *)

\* test_containers.py: "Duplicate identifiers within a project must be rejected."
IdentifiersUnique ==
  \A c, d \in DOMAIN containers :
    containers[c].identifier = containers[d].identifier => c = d
==============================================================================
