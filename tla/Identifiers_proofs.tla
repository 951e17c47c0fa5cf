-------------------------- MODULE Identifiers_proofs --------------------------
(***************************************************************************)
(* Theorems about Identifiers, for every number of containers and requests *)
(* and every naming rule.                                                  *)
(***************************************************************************)
EXTENDS Identifiers, FiniteSetTheorems, WellFoundedInduction, TLAPS

Creating == {"create.check", "create.commit"}
Putting == {"put.flush", "put.commit"}

\* What a request has read, and what its creation knows once it has checked.
JobInv(r) ==
  LET j == job[r]
  IN /\ phase[r] \in Creating =>
          /\ j.identifier \in Identifier /\ j.rule \in Rule
          /\ j.known \subseteq DOMAIN containers
     /\ phase[r] = "create.commit" =>
          \A c \in j.known : containers[c].identifier # j.identifier
     /\ phase[r] \in Putting => j.body \in RuleBody /\ j.rule \in RuleRow \cup {None}

\* A row knows only rows that were there before it.
KnownExist ==
  \A c \in DOMAIN containers : containers[c].known \subseteq DOMAIN containers

\* One request at a time holds the rule.
OneHolder == \A q, r \in Request : HoldsRule(q) /\ HoldsRule(r) => q = r

RuleInv ==
  /\ TypeOK
  /\ \A r \in Request : JobInv(r)
  /\ KnownExist
  /\ DuplicatesOverlap
  /\ OneHolder
  /\ RuleStands

-----------------------------------------------------------------------------
\* A request that is idle holds a job, too.
LEMMA NoJobIsJob == NoJob \in Job
BY DEF NoJob, Job

\* The built-in rule has the shape of a stored one.
LEMMA DefaultIsRule == _default_iso19650_rule \in Rule
<1>1. ASSUME NEW b \in BOOLEAN, NEW m \in Nat, NEW n \in Nat, NEW a \in SUBSET Text,
             NEW p \in SUBSET Word
      PROVE  Seg(b, m, n, a, p) \in Segment
  BY DEF Seg, Segment
<1>2. UpperAlnum \in SUBSET Word /\ OfClass({"digit"}) \in SUBSET Word
  BY DEF UpperAlnum, OfClass
<1>3. { w \in OfClass({"upper"}) : w.length <= 4 } \in SUBSET Word
  BY DEF OfClass
<1>4. TypeCode \in SUBSET Text
  BY WordAssumption
<1> DEFINE s1 == Seg(TRUE, 2, 20, {}, UpperAlnum)
           s2 == Seg(TRUE, 2, 10, {}, UpperAlnum)
           s3 == Seg(FALSE, 0, 6, {}, UpperAlnum)
           s5 == Seg(TRUE, 2, 4, TypeCode, Word)
           s6 == Seg(TRUE, 0, 4, {}, { w \in OfClass({"upper"}) : w.length <= 4 })
           s7 == Seg(TRUE, 4, 6, {}, OfClass({"digit"}))
<1>5. s1 \in Segment /\ s2 \in Segment /\ s3 \in Segment
  BY <1>1, <1>2
<1>6. s5 \in Segment /\ s6 \in Segment /\ s7 \in Segment
  BY <1>1, <1>2, <1>3, <1>4
<1> HIDE DEF s1, s2, s3, s5, s6, s7
<1>7. <<s1, s2, s3, s3, s5, s6, s7>> \in Seq(Segment)
  BY <1>5, <1>6
<1>8. [separator |-> "-", segments |-> <<s1, s2, s3, s3, s5, s6, s7>>] \in Rule
  BY <1>7, SplitAssumption DEF Rule
<1> QED
  BY <1>8 DEF _default_iso19650_rule, s1, s2, s3, s5, s6, s7

\* So has the rule that applies.
LEMMA EffectiveIsRule == TypeOK => Effective \in Rule
BY DefaultIsRule DEF TypeOK, Effective, RuleRow, Rule

\* The invariant holds of a project without rule and containers.
LEMMA RuleInvInit == Init => RuleInv
<1> SUFFICES ASSUME Init PROVE RuleInv
  OBVIOUS
<1>1. DOMAIN containers = {}
  BY DEF Init
<1>2. TypeOK
  <2>1. containers \in [DOMAIN containers -> Row]
    BY <1>1 DEF Init
  <2> QED
    BY <1>1, <2>1, NoJobIsJob DEF Init, TypeOK, Phase
<1>3. \A r \in Request : JobInv(r) /\ ~HoldsRule(r)
  BY DEF Init, JobInv, HoldsRule, Creating, Putting
<1> QED
  BY <1>1, <1>2, <1>3 DEF RuleInv, KnownExist, DuplicatesOverlap, OneHolder, RuleStands

\* A step of one request that leaves the tables alone.
LEMMA RequestMoves ==
  ASSUME RuleInv, NEW r \in Request, NEW j \in Job, NEW p \in Phase, Goto(r, j, p),
         UNCHANGED <<rule, containers>>, JobInv(r)',
         HoldsRule(r)' => /\ RuleFree(r)
                          /\ IF j.rule = None THEN rule = None
                             ELSE rule # None /\ rule.id = j.rule.id
  PROVE  RuleInv'
<1>1. TypeOK'
  BY DEF RuleInv, TypeOK, Goto
<1>2. \A q \in Request \ {r} : phase'[q] = phase[q] /\ job'[q] = job[q]
  BY DEF RuleInv, TypeOK, Goto
<1>3. phase'[r] = p /\ job'[r] = j
  BY DEF RuleInv, TypeOK, Goto
<1>4. \A q \in Request : JobInv(q)'
  BY <1>2 DEF RuleInv, JobInv
<1>5. \A q \in Request \ {r} : HoldsRule(q)' <=> HoldsRule(q)
  BY <1>2 DEF HoldsRule, Changed
<1>6. OneHolder'
  BY <1>5 DEF RuleInv, OneHolder, RuleFree
<1>7. RuleStands'
  <2> SUFFICES ASSUME NEW q \in Request, HoldsRule(q)'
               PROVE  IF job'[q].rule = None THEN rule = None
                      ELSE rule # None /\ rule.id = job'[q].rule.id
    BY DEF RuleStands
  <2>1. CASE q = r
    BY <1>3, <2>1
  <2>2. CASE q # r
    BY <1>2, <1>5, <2>2 DEF RuleInv, RuleStands
  <2> QED
    BY <2>1, <2>2
<1>8. (KnownExist /\ DuplicatesOverlap)'
  BY DEF RuleInv, KnownExist, DuplicatesOverlap
<1> QED
  BY <1>1, <1>4, <1>6, <1>7, <1>8 DEF RuleInv

\* A request ends without a trace.
LEMMA EndKeeps ==
  ASSUME RuleInv, NEW r \in Request, Finish(r), UNCHANGED <<rule, containers>>
  PROVE  RuleInv'
<1>1. phase'[r] = "idle"
  BY DEF RuleInv, TypeOK, Finish, Goto
<1>2. JobInv(r)' /\ ~HoldsRule(r)'
  BY <1>1 DEF JobInv, HoldsRule, Creating, Putting
<1> QED
  BY <1>2, NoJobIsJob, RequestMoves DEF Finish, Phase

\* A creation reads the rule.
LEMMA CreateResolveKeeps ==
  ASSUME RuleInv, NEW r \in Request, NEW i \in Identifier, CreateResolve(r, i)
  PROVE  RuleInv'
<1> DEFINE j == [NoJob EXCEPT !.identifier = i, !.rule = Effective, !.known = DOMAIN containers]
<1>1. j \in Job
  BY EffectiveIsRule DEF RuleInv, TypeOK, NoJob, Job
<1>2. phase'[r] = "create.check" /\ job'[r] = j
  BY DEF RuleInv, TypeOK, CreateResolve, Goto
<1>3. JobInv(r)' /\ ~HoldsRule(r)'
  BY <1>2, EffectiveIsRule DEF RuleInv, CreateResolve, JobInv, HoldsRule, Creating, Putting, NoJob
<1> QED
  BY <1>1, <1>3, RequestMoves DEF CreateResolve, Phase

\* A creation judges the identifier and looks for a namesake.
LEMMA CreateCheckKeeps ==
  ASSUME RuleInv, NEW r \in Request, CreateCheck(r)
  PROVE  RuleInv'
<1>1. phase'[r] = "create.commit" /\ job'[r] = job[r] /\ job[r] \in Job
  BY DEF RuleInv, TypeOK, CreateCheck, Goto
<1>2. JobInv(r)' /\ ~HoldsRule(r)'
  BY <1>1 DEF RuleInv, CreateCheck, JobInv, HoldsRule, Creating, Putting, _ensure_unique_identifier
<1> QED
  BY <1>1, <1>2, RequestMoves DEF CreateCheck, Phase

\* The container is committed.
LEMMA CreateCommitKeeps ==
  ASSUME RuleInv, NEW r \in Request, NEW c \in Container, CreateCommit(r, c)
  PROVE  RuleInv'
<1> DEFINE j == job[r]
           row == [identifier |-> j.identifier,
                   naming_valid |-> NamingValid(j),
                   known |-> j.known]
<1>1. /\ j \in Job /\ j.identifier \in Identifier /\ j.known \subseteq DOMAIN containers
      /\ \A d \in j.known : containers[d].identifier # j.identifier
  BY DEF RuleInv, TypeOK, CreateCommit, JobInv, Creating
<1>2. row \in Row
  BY <1>1 DEF Row, RuleInv, TypeOK, NamingValid
<1>3. /\ DOMAIN containers' = DOMAIN containers \cup {c}
      /\ containers'[c].identifier = j.identifier /\ containers'[c].known = j.known
      /\ containers'[c] \in Row
      /\ \A d \in DOMAIN containers : containers'[d] = containers[d]
      /\ containers' \in [DOMAIN containers' -> Row]
  BY <1>2 DEF CreateCommit, RuleInv, TypeOK
<1>4. /\ \A q \in Request \ {r} : phase'[q] = phase[q] /\ job'[q] = job[q]
      /\ phase'[r] = "idle"
  BY DEF RuleInv, TypeOK, CreateCommit, Finish, Goto
<1>5. TypeOK'
  BY <1>3, NoJobIsJob DEF RuleInv, TypeOK, CreateCommit, Finish, Goto, Phase
<1>6. \A q \in Request : JobInv(q)'
  BY <1>3, <1>4 DEF RuleInv, JobInv, Creating, Putting
<1>7. KnownExist'
  BY <1>1, <1>3 DEF RuleInv, KnownExist
<1>8. DuplicatesOverlap'
  <2>1. c \notin DOMAIN containers
    BY DEF CreateCommit
  <2>2. ASSUME NEW a \in DOMAIN containers', NEW b \in DOMAIN containers', a # b,
               containers'[a].identifier = containers'[b].identifier
        PROVE  a \notin containers'[b].known
    <3>1. CASE a = c
      BY <1>3, <2>1, <2>2, <3>1 DEF RuleInv, KnownExist
    <3>2. CASE b = c
      BY <1>1, <1>3, <2>2, <3>2
    <3>3. CASE a # c /\ b # c
      BY <1>3, <2>2, <3>3 DEF RuleInv, DuplicatesOverlap
    <3> QED
      BY <3>1, <3>2, <3>3
  <2> QED
    BY <2>2 DEF DuplicatesOverlap
<1>9. (OneHolder /\ RuleStands)'
  BY <1>4 DEF RuleInv, OneHolder, RuleStands, HoldsRule, Changed, CreateCommit
<1> QED
  BY <1>5, <1>6, <1>7, <1>8, <1>9 DEF RuleInv

\* A PUT reads the rule that it will replace, without a lock.
LEMMA PutReadKeeps ==
  ASSUME RuleInv, NEW r \in Request, NEW body \in RuleBody, PutRead(r, body)
  PROVE  RuleInv'
<1> DEFINE j == [NoJob EXCEPT !.body = body, !.rule = rule]
<1>1. j \in Job
  BY DEF RuleInv, TypeOK, NoJob, Job
<1>2. phase'[r] = "put.flush" /\ job'[r] = j
  BY DEF RuleInv, TypeOK, PutRead, Goto
<1>3. JobInv(r)' /\ ~HoldsRule(r)'
  BY <1>2 DEF RuleInv, TypeOK, JobInv, HoldsRule, Creating, Putting, NoJob
<1> QED
  BY <1>1, <1>3, RequestMoves DEF PutRead, Phase

\* A PUT flushes its rule.
LEMMA PutFlushKeeps ==
  ASSUME RuleInv, NEW r \in Request, PutFlush(r)
  PROVE  RuleInv'
<1>1. phase'[r] = "put.commit" /\ job'[r] = job[r] /\ job[r] \in Job
  BY DEF RuleInv, TypeOK, PutFlush, Goto
<1>2. JobInv(r)'
  BY <1>1 DEF RuleInv, PutFlush, JobInv, Creating, Putting
<1>3. HoldsRule(r)' => /\ RuleFree(r)
                       /\ IF job[r].rule = None THEN rule = None
                          ELSE rule # None /\ rule.id = job[r].rule.id
  BY <1>1 DEF PutFlush, HoldsRule, Changed
<1> QED
  BY <1>1, <1>2, <1>3, RequestMoves DEF PutFlush, Phase

\* A DELETE reads the rule that it will delete, without a lock.
LEMMA DeleteReadKeeps ==
  ASSUME RuleInv, NEW r \in Request, DeleteRead(r)
  PROVE  RuleInv'
<1> DEFINE j == [NoJob EXCEPT !.rule = rule]
<1>1. j \in Job
  BY DEF RuleInv, TypeOK, NoJob, Job
<1>2. phase'[r] = "delete.commit" /\ job'[r] = j
  BY DEF RuleInv, TypeOK, DeleteRead, Goto
<1>3. JobInv(r)' /\ ~HoldsRule(r)'
  BY <1>2 DEF JobInv, HoldsRule, Creating, Putting
<1> QED
  BY <1>1, <1>3, RequestMoves DEF DeleteRead, Phase

\* A committed write of the rule by the one request that may hold it.
LEMMA WriterEnds ==
  ASSUME RuleInv, NEW r \in Request, NEW what \in RuleBody \cup {None}, FinishWith(r, what),
         UNCHANGED containers, rule' \in RuleRow \cup {None},
         RuleFree(r) \/ rule' = rule
  PROVE  RuleInv'
<1>1. /\ phase' = [phase EXCEPT ![r] = "idle"]
      /\ phase'[r] = "idle" /\ job'[r] = NoJob
  BY DEF RuleInv, TypeOK, FinishWith
<1>2. ASSUME NEW q \in Request \ {r}
      PROVE  /\ phase'[q] = phase[q] /\ job'[q] \in Job
             /\ job'[q].identifier = job[q].identifier /\ job'[q].rule = job[q].rule
             /\ job'[q].body = job[q].body /\ job'[q].known = job[q].known
  BY DEF RuleInv, TypeOK, FinishWith, Job
<1>3. job' \in [Request -> Job]
  BY <1>1, <1>2, NoJobIsJob DEF FinishWith
<1>4. TypeOK'
  BY <1>1, <1>3 DEF RuleInv, TypeOK, Phase
<1>5. \A q \in Request : JobInv(q)'
  BY <1>1, <1>2 DEF RuleInv, JobInv, Creating, Putting
<1>6. /\ \A q \in Request \ {r} : HoldsRule(q)' <=> HoldsRule(q)
      /\ ~HoldsRule(r)'
  BY <1>1, <1>2 DEF HoldsRule, Changed
<1>7. OneHolder'
  BY <1>6 DEF RuleInv, OneHolder
<1>8. RuleStands'
  BY <1>2, <1>6 DEF RuleInv, RuleStands, RuleFree
<1>9. (KnownExist /\ DuplicatesOverlap)'
  BY DEF RuleInv, KnownExist, DuplicatesOverlap
<1> QED
  BY <1>4, <1>5, <1>7, <1>8, <1>9 DEF RuleInv

\* A PUT commits the rule it has flushed.
LEMMA PutCommitKeeps ==
  ASSUME RuleInv, NEW r \in Request, NEW d \in RuleId, PutCommit(r, d)
  PROVE  RuleInv'
<1>1. /\ job[r].body \in RuleBody /\ job[r].rule \in RuleRow \cup {None}
      /\ job[r].body.separator \in Separator /\ job[r].body.segments \in Seq(Segment)
  BY BodyAssumption DEF RuleInv, JobInv, PutCommit, Putting
<1>2. HoldsRule(r) => RuleFree(r)
  BY DEF RuleInv, OneHolder, RuleFree
<1>3. CASE job[r].rule = None
  <2>1. HoldsRule(r)
    BY <1>3 DEF PutCommit, HoldsRule
  <2>2. rule' \in RuleRow
    BY <1>1, <1>3 DEF PutCommit, RuleRow
  <2> QED
    BY <1>1, <1>2, <2>1, <2>2, WriterEnds DEF PutCommit
<1>4. CASE job[r].rule # None /\ HoldsRule(r)
  <2>1. rule \in RuleRow
    BY <1>4 DEF RuleInv, TypeOK, RuleStands
  <2>2. Updated(r) \in RuleRow
    BY <1>1, <2>1 DEF Updated, RuleRow
  <2>3. rule' \in RuleRow
    BY <1>4, <2>2 DEF PutCommit
  <2> QED
    BY <1>1, <1>2, <1>4, <2>3, WriterEnds DEF PutCommit
<1>5. CASE job[r].rule # None /\ ~HoldsRule(r)
  <2>1. rule' = rule /\ rule \in RuleRow \cup {None}
    BY <1>5 DEF PutCommit, RuleInv, TypeOK
  <2> QED
    BY <1>1, <2>1, WriterEnds DEF PutCommit
<1> QED
  BY <1>3, <1>4, <1>5

\* A DELETE commits: the built-in rule applies again.
LEMMA DeleteCommitKeeps ==
  ASSUME RuleInv, NEW r \in Request, DeleteCommit(r)
  PROVE  RuleInv'
<1>1. rule' \in RuleRow \cup {None}
  BY DEF RuleInv, TypeOK, DeleteCommit
<1>2. RuleFree(r) \/ rule' = rule
  BY DEF RuleInv, RuleStands, DeleteCommit, RowFree, RuleFree
<1> QED
  BY <1>1, <1>2, WriterEnds DEF DeleteCommit

\* Every step keeps the invariant.
LEMMA RuleInvStep == RuleInv /\ [Next]_vars => RuleInv'
<1> SUFFICES ASSUME RuleInv, [Next]_vars PROVE RuleInv'
  OBVIOUS
<1>1. CASE UNCHANGED vars
  BY <1>1 DEF vars, RuleInv, TypeOK, JobInv, KnownExist, DuplicatesOverlap, OneHolder,
              RuleStands, HoldsRule, Changed
<1>2. CASE Next
  <2>1. ASSUME NEW r \in Request, Rollback(r) PROVE RuleInv'
    BY <2>1, EndKeeps DEF Rollback
  <2>2. ASSUME NEW r \in Request, NEW i \in Identifier, CreateResolve(r, i) PROVE RuleInv'
    BY <2>2, CreateResolveKeeps
  <2>3. ASSUME NEW r \in Request, CreateCheck(r) PROVE RuleInv'
    BY <2>3, CreateCheckKeeps
  <2>4. ASSUME NEW r \in Request, NEW c \in Container, CreateCommit(r, c) PROVE RuleInv'
    BY <2>4, CreateCommitKeeps
  <2>5. ASSUME NEW r \in Request, NEW body \in RuleBody, PutRead(r, body) PROVE RuleInv'
    BY <2>5, PutReadKeeps
  <2>6. ASSUME NEW r \in Request, PutFlush(r) PROVE RuleInv'
    BY <2>6, PutFlushKeeps
  <2>7. ASSUME NEW r \in Request, NEW d \in RuleId, PutCommit(r, d) PROVE RuleInv'
    BY <2>7, PutCommitKeeps
  <2>8. ASSUME NEW r \in Request, DeleteRead(r) PROVE RuleInv'
    BY <2>8, DeleteReadKeeps
  <2>9. ASSUME NEW r \in Request, DeleteCommit(r) PROVE RuleInv'
    BY <2>9, DeleteCommitKeeps
  <2> QED
    BY <1>2, <2>1, <2>2, <2>3, <2>4, <2>5, <2>6, <2>7, <2>8, <2>9 DEF Next
<1> QED
  BY <1>1, <1>2

-----------------------------------------------------------------------------
\* The invariant holds of every state.
LEMMA RuleInvAlways == Spec => []RuleInv
BY RuleInvInit, RuleInvStep, PTL DEF Spec

\* Columns and local variables keep their types, whatever the naming rules are.
THEOREM IdentifiersTyped == Spec => []TypeOK
<1>1. RuleInv => TypeOK
  BY DEF RuleInv
<1> QED
  BY <1>1, RuleInvAlways, PTL

\* The uniqueness check misses a container only if both were being created at
\* the same time: one that was there when a creation began is never repeated.
THEOREM DuplicatesOnlyOverlap == Spec => []DuplicatesOverlap
<1>1. RuleInv => DuplicatesOverlap
  BY DEF RuleInv
<1> QED
  BY <1>1, RuleInvAlways, PTL

\* The row a PUT has flushed is the one its commit writes: nobody deletes it, or
\* inserts another, in between.
THEOREM FlushedRuleStands == Spec => []RuleStands
<1>1. RuleInv => RuleStands
  BY DEF RuleInv
<1> QED
  BY <1>1, RuleInvAlways, PTL

-----------------------------------------------------------------------------
(* What a PUT finds when it commits.                                       *)

\* Where a column of the rule comes from, for a request that read the rule
\* "read" before others made "put" of it.
Accounted(column, read, put) ==
  \/ read # None /\ rule[column] = read[column]
  \/ \E b \in put \ {None} : rule[column] = b[column]

\* Whatever became of the rule since a PUT read it is on its record.
Recorded(r) ==
  LET j == job[r]
  IN phase[r] \in Putting =>
       /\ j.put \subseteq RuleBody \cup {None}
       /\ rule = None => j.rule = None \/ None \in j.put
       /\ rule # None =>
            /\ Accounted("separator", j.rule, j.put)
            /\ Accounted("segments", j.rule, j.put)

PutInv == RuleInv /\ \A r \in Request : Recorded(r)

\* No request has read anything yet.
LEMMA PutInvInit == Init => PutInv
BY RuleInvInit DEF PutInv, Recorded, Init, Putting

\* A step of one request that leaves the rule alone keeps the records of the others.
LEMMA MoveKeepsRecords ==
  ASSUME PutInv, NEW r \in Request, NEW j, NEW p, Goto(r, j, p), rule' = rule,
         Recorded(r)'
  PROVE  \A q \in Request : Recorded(q)'
<1>1. \A q \in Request \ {r} : phase'[q] = phase[q] /\ job'[q] = job[q]
  BY DEF PutInv, RuleInv, TypeOK, Goto
<1> QED
  BY <1>1 DEF PutInv, Recorded, Accounted

\* The record grows by what another request commits.
LEMMA CommitKeepsRecords ==
  ASSUME PutInv, NEW r \in Request, NEW what \in RuleBody \cup {None}, FinishWith(r, what),
         rule' = None => rule = None \/ what = None,
         rule' # None =>
           \A column \in {"separator", "segments"} :
             \/ rule # None /\ rule'[column] = rule[column]
             \/ what # None /\ rule'[column] = what[column]
  PROVE  \A q \in Request : Recorded(q)'
<1> SUFFICES ASSUME NEW q \in Request, phase'[q] \in Putting
             PROVE  Recorded(q)'
  BY DEF Recorded
<1>1. q # r /\ phase[q] \in Putting
  BY DEF PutInv, RuleInv, TypeOK, FinishWith, Putting
<1>2. job[q] \in Job /\ job[q].body # None
  BY <1>1, NoneAssumption DEF PutInv, RuleInv, TypeOK, JobInv
<1>3. job'[q].rule = job[q].rule /\ job'[q].put = job[q].put \cup {what}
  BY <1>1, <1>2 DEF FinishWith, Job
<1>4. job'[q].put \subseteq RuleBody \cup {None}
  BY <1>1, <1>3 DEF PutInv, Recorded
<1>5. ASSUME rule' = None
      PROVE  job'[q].rule = None \/ None \in job'[q].put
  BY <1>1, <1>3, <1>5 DEF PutInv, Recorded
<1>6. ASSUME rule' # None, NEW column \in {"separator", "segments"}
      PROVE  Accounted(column, job[q].rule, job[q].put \cup {what})'
  <2>1. CASE rule # None /\ rule'[column] = rule[column]
    <3>1. Accounted(column, job[q].rule, job[q].put)
      BY <1>1, <2>1 DEF PutInv, Recorded
    <3> QED
      BY <1>3, <2>1, <3>1 DEF Accounted
  <2>2. CASE what # None /\ rule'[column] = what[column]
    BY <1>3, <2>2 DEF Accounted
  <2> QED
    BY <1>6, <2>1, <2>2
<1> QED
  BY <1>3, <1>4, <1>5, <1>6 DEF Recorded, Accounted

\* A PUT leaves each column as its body has it, or as it was.
LEMMA PutWrites ==
  ASSUME PutInv, NEW r \in Request, NEW d \in RuleId, PutCommit(r, d)
  PROVE  /\ rule' = None => rule = None /\ job[r].rule # None /\ ~HoldsRule(r)
         /\ rule' # None =>
              \A column \in {"separator", "segments"} :
                \/ /\ rule # None /\ rule'[column] = rule[column]
                   /\ job[r].rule # None /\ ~Changed(r, column)
                \/ rule'[column] = job[r].body[column]
<1>1. phase[r] = "put.commit"
  BY DEF PutCommit
<1> DEFINE body == job[r].body
<1>0. body \in [separator : Separator, segments : Seq(Segment)]
  BY <1>1, BodyAssumption DEF PutInv, RuleInv, JobInv, Putting
<1>2. CASE job[r].rule = None
  <2>1. rule' = [id |-> d, separator |-> body.separator, segments |-> body.segments]
    BY <1>2 DEF PutCommit
  <2>2. rule' # None
    BY <1>0, <2>1, NoneAssumption DEF RuleRow
  <2>3. rule'["separator"] = body["separator"] /\ rule'["segments"] = body["segments"]
    BY <2>1
  <2> QED
    BY <2>2, <2>3
<1>3. CASE job[r].rule # None /\ HoldsRule(r)
  <2>1. rule \in RuleRow /\ rule # None
    BY <1>3 DEF PutInv, RuleInv, TypeOK, RuleStands
  <2>2. rule' = Updated(r)
    BY <1>3 DEF PutCommit
  <2>3. rule'["separator"] = IF Changed(r, "separator") THEN job[r].body.separator
                             ELSE rule.separator
    BY <2>2 DEF Updated
  <2>4. rule'["segments"] = IF Changed(r, "segments") THEN job[r].body.segments
                            ELSE rule.segments
    BY <2>2 DEF Updated
  <2>5. Updated(r) \in RuleRow
    BY <1>0, <2>1 DEF Updated, RuleRow
  <2>6. rule' # None
    BY <2>2, <2>5, NoneAssumption
  <2> QED
    BY <1>3, <2>1, <2>3, <2>4, <2>6
<1>4. CASE job[r].rule # None /\ ~HoldsRule(r)
  <2>1. rule' = rule /\ ~Changed(r, "separator") /\ ~Changed(r, "segments")
    BY <1>1, <1>4 DEF PutCommit, HoldsRule
  <2> QED
    BY <1>4, <2>1
<1> QED
  BY <1>2, <1>3, <1>4

\* A PUT that commits leaves only columns of its own or of others' PUTs, and no
\* rule only if another deleted it.
LEMMA PutTakesEffect ==
  ASSUME PutInv, NEW r \in Request, NEW d \in RuleId, PutCommit(r, d)
  PROVE  IF rule' = None THEN None \in job[r].put
         ELSE \A column \in {"separator", "segments"} :
                \E b \in {job[r].body} \cup (job[r].put \ {None}) :
                  rule'[column] = b[column]
<1>1. phase[r] \in Putting
  BY DEF PutCommit, Putting
<1>2. ASSUME rule' = None PROVE None \in job[r].put
  BY <1>1, <1>2, PutWrites DEF PutInv, Recorded
<1>3. ASSUME rule' # None, NEW column \in {"separator", "segments"}
      PROVE  \E b \in {job[r].body} \cup (job[r].put \ {None}) : rule'[column] = b[column]
  <2>1. CASE rule'[column] = job[r].body[column]
    BY <2>1
  <2>2. CASE /\ rule # None /\ rule'[column] = rule[column]
             /\ job[r].rule # None /\ ~Changed(r, column)
    <3>1. Accounted(column, job[r].rule, job[r].put)
      BY <1>1, <2>2 DEF PutInv, Recorded
    <3> QED
      BY <2>2, <3>1 DEF Accounted, Changed
  <2> QED
    BY <1>3, <2>1, <2>2, PutWrites
<1> QED
  BY <1>2, <1>3

\* Every step keeps the records.
LEMMA PutInvStep == PutInv /\ [Next]_vars => PutInv'
<1> SUFFICES ASSUME PutInv, [Next]_vars PROVE \A q \in Request : Recorded(q)'
  BY RuleInvStep DEF PutInv
<1>1. CASE UNCHANGED vars
  BY <1>1 DEF vars, PutInv, Recorded, Accounted
<1>2. CASE Next
  <2>1. ASSUME NEW r \in Request, NEW j, NEW p, Goto(r, j, p), UNCHANGED rule,
               p \notin Putting
        PROVE  \A q \in Request : Recorded(q)'
    <3>1. Recorded(r)'
      BY <2>1 DEF PutInv, RuleInv, TypeOK, Goto, Recorded
    <3> QED
      BY <2>1, <3>1, MoveKeepsRecords
  <2>2. ASSUME NEW r \in Request, Rollback(r) PROVE \A q \in Request : Recorded(q)'
    BY <2>1, <2>2 DEF Rollback, Finish, Putting
  <2>3. ASSUME NEW r \in Request, NEW i \in Identifier, CreateResolve(r, i)
        PROVE  \A q \in Request : Recorded(q)'
    BY <2>1, <2>3 DEF CreateResolve, Putting
  <2>4. ASSUME NEW r \in Request, CreateCheck(r) PROVE \A q \in Request : Recorded(q)'
    BY <2>1, <2>4 DEF CreateCheck, Putting
  <2>5. ASSUME NEW r \in Request, NEW c \in Container, CreateCommit(r, c)
        PROVE  \A q \in Request : Recorded(q)'
    BY <2>1, <2>5 DEF CreateCommit, Finish, Putting
  <2>6. ASSUME NEW r \in Request, NEW body \in RuleBody, PutRead(r, body)
        PROVE  \A q \in Request : Recorded(q)'
    <3>1. job'[r].rule = rule' /\ job'[r].put = {}
      BY <2>6 DEF PutRead, Goto, NoJob, PutInv, RuleInv, TypeOK
    <3>2. Recorded(r)'
      BY <3>1 DEF Recorded, Accounted
    <3> QED
      BY <2>6, <3>2, MoveKeepsRecords DEF PutRead
  <2>7. ASSUME NEW r \in Request, PutFlush(r) PROVE \A q \in Request : Recorded(q)'
    <3>1. phase[r] \in Putting /\ job'[r] = job[r] /\ rule' = rule
      BY <2>7 DEF PutFlush, Goto, Putting, PutInv, RuleInv, TypeOK
    <3>2. Recorded(r)'
      BY <3>1 DEF PutInv, Recorded, Accounted
    <3> QED
      BY <2>7, <3>2, MoveKeepsRecords DEF PutFlush
  <2>8. ASSUME NEW r \in Request, NEW d \in RuleId, PutCommit(r, d)
        PROVE  \A q \in Request : Recorded(q)'
    <3>1. job[r].body \in RuleBody /\ job[r].body # None /\ FinishWith(r, job[r].body)
      BY <2>8, NoneAssumption DEF PutCommit, PutInv, RuleInv, JobInv, Putting
    <3> QED
      BY <2>8, <3>1, PutWrites, CommitKeepsRecords
  <2>9. ASSUME NEW r \in Request, DeleteRead(r) PROVE \A q \in Request : Recorded(q)'
    BY <2>1, <2>9 DEF DeleteRead, Putting
  <2>10. ASSUME NEW r \in Request, DeleteCommit(r) PROVE \A q \in Request : Recorded(q)'
    BY <2>10, CommitKeepsRecords DEF DeleteCommit
  <2> QED
    BY <1>2, <2>2, <2>3, <2>4, <2>5, <2>6, <2>7, <2>8, <2>9, <2>10 DEF Next
<1> QED
  BY <1>1, <1>2

\* No PUT is lost: the rule its commit leaves has, in each column, its own value
\* or one that another PUT stored since it read the rule; there is none only if
\* another request deleted it since.
THEOREM PutsAreNotLost == Spec => PutsTakeEffect
<1>1. PutInv /\ [Next]_vars =>
        [ \A r \in Request, d \in RuleId : PutCommit(r, d) =>
            IF rule' = None THEN None \in job[r].put
            ELSE \A column \in {"separator", "segments"} :
                   \E b \in {job[r].body} \cup (job[r].put \ {None}) :
                     rule'[column] = b[column] ]_vars
  BY PutTakesEffect
<1> QED
  BY <1>1, PutInvInit, PutInvStep, PTL DEF Spec, PutsTakeEffect

-----------------------------------------------------------------------------
(***************************************************************************)
(* validate_identifier and its reference                                   *)
(***************************************************************************)

\* What is true of 0 and passes from each number below n to the next is true of
\* all up to n.  (The induction theorems of the library take a predicate as a
\* parameter; this takes the set of the numbers of which it is true.)
LEMMA StepByStep ==
  ASSUME NEW n \in Nat, NEW T, 0 \in T,
         \A i \in 0..(n - 1) : i \in T => i + 1 \in T
  PROVE  \A i \in 0..n : i \in T
<1> DEFINE Missed == (0..n) \ T
<1> SUFFICES ASSUME Missed # {} PROVE FALSE
  OBVIOUS
<1>1. Missed \subseteq Nat
  OBVIOUS
<1> HIDE DEF Missed
<1>2. PICK m \in Missed : \A k \in Missed : <<k, m>> \notin OpToRel(<, Nat)
  BY <1>1, WFMin, NatLessThanWellFounded, Zenon
<1>3. \A k \in Missed : ~(k < m)
  BY <1>1, <1>2, Zenon DEF OpToRel
<1> USE DEF Missed
<1>4. m \in 1..n
  OBVIOUS
<1>5. m - 1 \in T
  BY <1>3, <1>4
<1> QED
  BY <1>4, <1>5

\* How many segments are required from a position on.
LEMMA RequiredCount ==
  ASSUME NEW segs \in Seq(Segment)
  PROVE  /\ \A k \in 1..(Len(segs) + 1) : RequiredFrom(segs, k) \in Nat
         /\ RequiredFrom(segs, Len(segs) + 1) = 0
         /\ \A k \in 1..Len(segs) :
              RequiredFrom(segs, k) = RequiredFrom(segs, k + 1) + IF segs[k].required THEN 1 ELSE 0
<1> DEFINE N == Len(segs)
           Req(k) == { i \in k..N : segs[i].required }
<1>1. ASSUME NEW k \in 1..(N + 1)
      PROVE  IsFiniteSet(Req(k)) /\ Cardinality(Req(k)) \in Nat
  <2>1. IsFiniteSet(k..N)
    BY FS_Interval
  <2>2. Req(k) \in SUBSET (k..N)
    OBVIOUS
  <2>3. IsFiniteSet(Req(k))
    BY <2>1, <2>2, FS_Subset
  <2> QED
    BY <2>3, FS_CardinalityType
<1>2. Req(N + 1) = {}
  OBVIOUS
<1>3. ASSUME NEW k \in 1..N
      PROVE  Cardinality(Req(k)) = Cardinality(Req(k + 1)) + IF segs[k].required THEN 1 ELSE 0
  <2>1. IsFiniteSet(Req(k + 1)) /\ k \notin Req(k + 1)
    BY <1>1
  <2>2. CASE segs[k].required
    <3>1. Req(k) = Req(k + 1) \cup {k}
      BY <2>2
    <3>2. Cardinality(Req(k + 1) \cup {k}) = Cardinality(Req(k + 1)) + 1
      BY <2>1, FS_AddElement
    <3> QED
      BY <2>2, <3>1, <3>2
  <2>3. CASE ~segs[k].required
    <3>1. Req(k) = Req(k + 1)
      BY <2>3
    <3>2. Cardinality(Req(k + 1)) \in Nat
      BY <2>1, FS_CardinalityType
    <3> HIDE DEF Req
    <3> QED
      BY <2>3, <3>1, <3>2
  <2> QED
    BY <2>2, <2>3
<1>4. \A k \in 1..(N + 1) : RequiredFrom(segs, k) = Cardinality(Req(k))
  BY DEF RequiredFrom
<1> HIDE DEF Req
<1>5. Cardinality(Req(N + 1)) = 0
  BY <1>2, FS_EmptySet
<1> QED
  BY <1>1, <1>3, <1>4, <1>5

\* part_idx after segment i, when it was used before.
Advance(segs, n, i, used) ==
  IF n - used > 0 /\ (segs[i].required \/ n - used > RequiredFrom(segs, i + 1))
  THEN used + 1 ELSE used

\* f is the scan of the first m segments.
Scans(f, segs, n, m) ==
  /\ f \in [0..m -> Nat]
  /\ f[0] = 0
  /\ \A i \in 1..m : f[i] = Advance(segs, n, i, f[i - 1])

\* The scan is defined for every list of segments.
LEMMA ScanExists ==
  ASSUME NEW segs \in Seq(Segment), NEW n \in Nat
  PROVE  \E f : Scans(f, segs, n, Len(segs))
<1> DEFINE T == { m \in Nat : \E f : Scans(f, segs, n, m) }
<1>1. 0 \in T
  <2>1. Scans([i \in 0..0 |-> 0], segs, n, 0)
    BY DEF Scans
  <2> QED
    BY <2>1
<1>2. ASSUME NEW m \in 0..(Len(segs) - 1), m \in T
      PROVE  m + 1 \in T
  <2>1. PICK f : Scans(f, segs, n, m)
    BY <1>2
  <2> DEFINE g == [i \in 0..(m + 1) |-> IF i = m + 1 THEN Advance(segs, n, m + 1, f[m]) ELSE f[i]]
  <2>2. f[m] \in Nat
    BY <2>1 DEF Scans
  <2>3. Advance(segs, n, m + 1, f[m]) \in Nat
    BY <2>2 DEF Advance
  <2>4. g \in [0..(m + 1) -> Nat]
    BY <2>1, <2>3 DEF Scans
  <2>5. g[0] = 0
    BY <2>1 DEF Scans
  <2>6. ASSUME NEW i \in 1..(m + 1)
        PROVE  g[i] = Advance(segs, n, i, g[i - 1])
    <3>1. g[i - 1] = f[i - 1]
      OBVIOUS
    <3>2. CASE i = m + 1
      BY <3>1, <3>2
    <3>3. CASE i # m + 1
      BY <2>1, <3>1, <3>3 DEF Scans
    <3> QED
      BY <3>2, <3>3
  <2> HIDE DEF g
  <2>7. Scans(g, segs, n, m + 1)
    BY <2>4, <2>5, <2>6 DEF Scans
  <2> QED
    BY <2>7
<1> HIDE DEF T
<1>3. \A m \in 0..Len(segs) : m \in T
  BY <1>1, <1>2, StepByStep
<1> QED
  BY <1>3 DEF T

\* PartIdx is that scan.
LEMMA PartIdxScans ==
  ASSUME NEW segs \in Seq(Segment), NEW n \in Nat
  PROVE  Scans(PartIdx(segs, n), segs, n, Len(segs))
<1> DEFINE N == Len(segs)
           Scan(f) == [i \in 0..N |-> IF i = 0 THEN 0 ELSE Advance(segs, n, i, f[i - 1])]
           idx == CHOOSE f : f = Scan(f)
<1>1. PartIdx(segs, n) = idx
  BY DEF PartIdx, Advance
<1>2. PICK f : Scans(f, segs, n, N)
  BY ScanExists
<1>3. f = Scan(f)
  BY <1>2 DEF Scans
<1>4. idx = Scan(idx)
  BY <1>3
<1> DEFINE g == idx
<1>5. g = Scan(g)
  BY <1>4
<1> HIDE DEF idx, g
<1>6. g[0] = 0 /\ \A i \in 1..N : g[i] = Advance(segs, n, i, g[i - 1])
  BY <1>5
<1> DEFINE T == { i \in Nat : g[i] \in Nat }
<1>7. \A i \in 0..N : i \in T
  <2>1. 0 \in T
    BY <1>6
  <2>2. ASSUME NEW i \in 0..(N - 1), i \in T PROVE i + 1 \in T
    BY <1>6, <2>2 DEF Advance
  <2> HIDE DEF T
  <2> QED
    BY <2>1, <2>2, StepByStep
<1>8. g \in [0..N -> Nat]
  BY <1>5, <1>7
<1> QED
  BY <1>1, <1>6, <1>8 DEF Scans, g

-----------------------------------------------------------------------------
(* The segments that the scan gives a part.                                *)

\* The scan of an identifier with parts for all required segments.
Fits(idx, segs, n) == Scans(idx, segs, n, Len(segs)) /\ n >= RequiredFrom(segs, 1)

Taken(idx, segs) == { i \in DOMAIN segs : idx[i] > idx[i - 1] }

\* With parts for all required segments, the scan always leaves enough of them,
\* takes every required segment, and skips an optional one only if the rest of
\* the parts is spoken for.
LEMMA ScanLeavesEnough ==
  ASSUME NEW segs \in Seq(Segment), NEW n \in Nat, NEW idx,
         Fits(idx, segs, n)
  PROVE  /\ \A i \in 0..Len(segs) :
              idx[i] \in Nat /\ n - idx[i] >= RequiredFrom(segs, i + 1)
         /\ \A i \in 1..Len(segs) :
              /\ idx[i] = idx[i - 1] + IF i \in Taken(idx, segs) THEN 1 ELSE 0
              /\ segs[i].required => i \in Taken(idx, segs)
              /\ i \notin Taken(idx, segs) => n - idx[i] = RequiredFrom(segs, i + 1)
<1> DEFINE N == Len(segs)
           RF(k) == RequiredFrom(segs, k)
           Enough == { i \in Nat : n - idx[i] >= RF(i + 1) }
<1>1. /\ \A k \in 1..(N + 1) : RF(k) \in Nat
      /\ \A k \in 1..N : RF(k) = RF(k + 1) + IF segs[k].required THEN 1 ELSE 0
  BY RequiredCount
<1>2. /\ \A i \in 0..N : idx[i] \in Nat
      /\ idx[0] = 0
      /\ \A i \in 1..N : idx[i] = Advance(segs, n, i, idx[i - 1])
  BY DEF Fits, Scans
<1> HIDE DEF RF
<1>3. ASSUME NEW i \in 1..N, n - idx[i - 1] >= RF(i)
      PROVE  /\ idx[i] \in {idx[i - 1], idx[i - 1] + 1}
             /\ segs[i].required => idx[i] = idx[i - 1] + 1
             /\ idx[i] = idx[i - 1] => n - idx[i] = RF(i + 1)
             /\ n - idx[i] >= RF(i + 1)
  <2>1. idx[i - 1] \in Nat /\ RF(i + 1) \in Nat /\ RF(i) \in Nat
    BY <1>1, <1>2
  <2>2. RF(i) = RF(i + 1) + IF segs[i].required THEN 1 ELSE 0
    BY <1>1
  <2>3. idx[i] = IF n - idx[i - 1] > 0 /\ (segs[i].required \/ n - idx[i - 1] > RF(i + 1))
                 THEN idx[i - 1] + 1 ELSE idx[i - 1]
    BY <1>2 DEF Advance, RF
  <2> QED
    BY <1>3, <2>1, <2>2, <2>3
<1>4. \A i \in 0..N : i \in Enough
  <2>1. 0 \in Enough
    BY <1>2 DEF Fits, RF
  <2>2. ASSUME NEW i \in 0..(N - 1), i \in Enough PROVE i + 1 \in Enough
    <3>1. i + 1 \in 1..N /\ (i + 1) - 1 = i
      OBVIOUS
    <3> QED
      BY <1>3, <2>2, <3>1
  <2> HIDE DEF Enough
  <2> QED
    BY <2>1, <2>2, StepByStep
<1>5. ASSUME NEW i \in 1..N
      PROVE  /\ idx[i] = idx[i - 1] + IF i \in Taken(idx, segs) THEN 1 ELSE 0
             /\ segs[i].required => i \in Taken(idx, segs)
             /\ i \notin Taken(idx, segs) => n - idx[i] = RF(i + 1)
  <2>1. i - 1 \in 0..N /\ (i - 1) + 1 = i
    OBVIOUS
  <2>2. n - idx[i - 1] >= RF(i)
    BY <1>4, <2>1
  <2>3. idx[i] \in Nat /\ idx[i - 1] \in Nat
    BY <1>2, <2>1
  <2>4. i \in Taken(idx, segs) <=> idx[i] > idx[i - 1]
    BY DEF Taken
  <2> QED
    BY <1>3, <2>2, <2>3, <2>4
<1> QED
  BY <1>2, <1>4, <1>5 DEF RF

\* The part a segment takes is the one of its place among those that take one.
LEMMA ScanCounts ==
  ASSUME NEW segs \in Seq(Segment), NEW n \in Nat, NEW idx,
         Fits(idx, segs, n)
  PROVE  \A i \in 0..Len(segs) : idx[i] = Cardinality({ k \in Taken(idx, segs) : k <= i })
<1> DEFINE N == Len(segs)
           S == Taken(idx, segs)
           UpTo(i) == { k \in S : k <= i }
           T == { i \in Nat : IsFiniteSet(UpTo(i)) /\ idx[i] = Cardinality(UpTo(i)) }
<1>1. \A k \in S : k \in Nat /\ k >= 1
  BY DEF Taken
<1>2. \A i \in 1..N : idx[i] = idx[i - 1] + IF i \in S THEN 1 ELSE 0
  BY ScanLeavesEnough
<1>3. \A i \in 0..N : idx[i] \in Nat
  BY DEF Fits, Scans
<1> HIDE DEF S
<1>4. 0 \in T
  <2>1. UpTo(0) = {}
    BY <1>1
  <2>2. idx[0] = 0
    BY DEF Fits, Scans
  <2> HIDE DEF UpTo
  <2> QED
    BY <2>1, <2>2, FS_EmptySet
<1>5. ASSUME NEW i \in 0..(N - 1), i \in T PROVE i + 1 \in T
  <2>1. UpTo(i + 1) = IF i + 1 \in S THEN UpTo(i) \cup {i + 1} ELSE UpTo(i)
    BY <1>1
  <2>2. i + 1 \notin UpTo(i)
    OBVIOUS
  <2>3. idx[i + 1] = idx[i] + IF i + 1 \in S THEN 1 ELSE 0
    <3>1. i + 1 \in 1..N /\ (i + 1) - 1 = i
      OBVIOUS
    <3> QED
      BY <1>2, <3>1
  <2>4. idx[i] \in Nat
    BY <1>3
  <2> HIDE DEF UpTo
  <2>5. /\ IsFiniteSet(UpTo(i) \cup {i + 1})
        /\ Cardinality(UpTo(i) \cup {i + 1}) = Cardinality(UpTo(i)) + 1
    BY <1>5, <2>2, FS_AddElement
  <2> QED
    BY <1>5, <2>1, <2>3, <2>4, <2>5
<1>6. \A i \in 0..N : i \in T
  <2> HIDE DEF T
  <2> QED
    BY <1>4, <1>5, StepByStep
<1> QED
  BY <1>6 DEF S

\* Once an optional segment is skipped, all optional segments after it are, and
\* every part is taken.
LEMMA ScanSkipsTheRest ==
  ASSUME NEW segs \in Seq(Segment), NEW n \in Nat, NEW idx,
         Fits(idx, segs, n),
         NEW i \in DOMAIN segs, i \notin Taken(idx, segs)
  PROVE  /\ \A j \in DOMAIN segs : j > i /\ ~segs[j].required => j \notin Taken(idx, segs)
         /\ idx[Len(segs)] = n
<1> DEFINE N == Len(segs)
           RF(k) == RequiredFrom(segs, k)
           T == { j \in Nat : j >= i => n - idx[j] = RF(j + 1) }
<1>1. /\ \A k \in 1..(N + 1) : RF(k) \in Nat
      /\ RF(N + 1) = 0
      /\ \A k \in 1..N : RF(k) = RF(k + 1) + IF segs[k].required THEN 1 ELSE 0
  BY RequiredCount
<1>2. /\ \A j \in 0..N : idx[j] \in Nat
      /\ \A j \in 1..N : idx[j] = Advance(segs, n, j, idx[j - 1])
  BY DEF Fits, Scans
<1>3. n - idx[i] = RF(i + 1)
  BY ScanLeavesEnough
<1>4. ASSUME NEW j \in 1..N
      PROVE  idx[j] = IF n - idx[j - 1] > 0 /\ (segs[j].required \/ n - idx[j - 1] > RF(j + 1))
                      THEN idx[j - 1] + 1 ELSE idx[j - 1]
  BY <1>2 DEF Advance
<1> HIDE DEF RF
<1>5. ASSUME NEW j \in 1..N, n - idx[j - 1] = RF(j)
      PROVE  n - idx[j] = RF(j + 1) /\ (~segs[j].required => idx[j] = idx[j - 1])
  <2>1. idx[j - 1] \in Nat /\ RF(j + 1) \in Nat /\ RF(j) \in Nat
    BY <1>1, <1>2
  <2>2. RF(j) = RF(j + 1) + IF segs[j].required THEN 1 ELSE 0
    BY <1>1
  <2> QED
    BY <1>4, <1>5, <2>1, <2>2
<1>6. \A j \in 0..N : j \in T
  <2>1. 0 \in T
    OBVIOUS
  <2>2. ASSUME NEW j \in 0..(N - 1), j \in T PROVE j + 1 \in T
    <3>1. j + 1 \in 1..N /\ (j + 1) - 1 = j
      OBVIOUS
    <3>2. CASE j + 1 = i
      BY <1>3, <3>2
    <3>3. CASE j + 1 < i
      BY <3>3
    <3>4. CASE j + 1 > i
      BY <1>5, <2>2, <3>1, <3>4
    <3> QED
      BY <3>2, <3>3, <3>4
  <2> HIDE DEF T
  <2> QED
    BY <2>1, <2>2, StepByStep
<1>7. ASSUME NEW j \in DOMAIN segs, j > i, ~segs[j].required
      PROVE  j \notin Taken(idx, segs)
  <2>1. j \in 1..N /\ j - 1 \in 0..N /\ j - 1 >= i /\ (j - 1) + 1 = j
    BY <1>7
  <2>2. n - idx[j - 1] = RF(j)
    BY <1>6, <2>1
  <2>3. idx[j] = idx[j - 1] /\ idx[j] \in Nat
    BY <1>2, <1>5, <1>7, <2>1, <2>2
  <2> QED
    BY <2>3 DEF Taken
<1>8. idx[N] = n
  <2>1. N \in 0..N /\ N >= i /\ idx[N] \in Nat
    BY <1>2
  <2> QED
    BY <1>1, <1>6, <2>1
<1> QED
  BY <1>7, <1>8

\* A reading has every required segment, and no more segments than there are parts.
LEMMA ReadingShape ==
  ASSUME NEW segs \in Seq(Segment), NEW n \in Nat, NEW T
  PROVE  T \in Readings(segs, n) <=>
           /\ T \subseteq DOMAIN segs
           /\ \A i \in DOMAIN segs : segs[i].required => i \in T
           /\ Cardinality(T) <= n
<1> DEFINE required == { i \in DOMAIN segs : segs[i].required }
<1>1. ASSUME T \in Readings(segs, n)
      PROVE  /\ T \subseteq DOMAIN segs
             /\ \A i \in DOMAIN segs : segs[i].required => i \in T
             /\ Cardinality(T) <= n
  <2>1. PICK O \in SUBSET (DOMAIN segs \ required) : T = required \cup O
    BY <1>1 DEF Readings
  <2>2. Cardinality(T) <= n
    BY <1>1 DEF Readings
  <2> QED
    BY <2>1, <2>2
<1>2. ASSUME T \subseteq DOMAIN segs, Cardinality(T) <= n,
             \A i \in DOMAIN segs : segs[i].required => i \in T
      PROVE  T \in Readings(segs, n)
  <2>1. T = required \cup (T \ required) /\ T \ required \in SUBSET (DOMAIN segs \ required)
    BY <1>2
  <2> HIDE DEF required
  <2>2. T \in { required \cup O : O \in SUBSET (DOMAIN segs \ required) }
    BY <2>1
  <2> QED
    BY <1>2, <2>2 DEF Readings, required
<1> QED
  BY <1>1, <1>2

\* A reading is a finite set.
LEMMA ReadingIsFinite ==
  ASSUME NEW segs \in Seq(Segment), NEW T, T \subseteq DOMAIN segs
  PROVE  IsFiniteSet(T) /\ Cardinality(T) \in Nat
<1>1. DOMAIN segs = 1..Len(segs) /\ Len(segs) \in Int
  OBVIOUS
<1>2. IsFiniteSet(DOMAIN segs)
  BY <1>1, FS_Interval
<1> QED
  BY <1>2, FS_Subset, FS_CardinalityType

\* The segments the scan gives a part are a reading.
LEMMA TakenIsReading ==
  ASSUME NEW segs \in Seq(Segment), NEW n \in Nat, NEW idx, Fits(idx, segs, n)
  PROVE  /\ Taken(idx, segs) \in Readings(segs, n)
         /\ Cardinality(Taken(idx, segs)) = idx[Len(segs)]
<1> DEFINE N == Len(segs)
           S == Taken(idx, segs)
<1>1. S \subseteq DOMAIN segs /\ DOMAIN segs = 1..N /\ N \in Nat
  BY DEF Taken
<1>2. S = { k \in S : k <= N }
  BY <1>1
<1>3. Cardinality(S) = idx[N]
  <2>1. idx[N] = Cardinality({ k \in S : k <= N })
    BY <1>1, ScanCounts
  <2> QED
    BY <1>2, <2>1
<1>4. idx[N] \in Nat /\ n - idx[N] >= 0
  BY <1>1, ScanLeavesEnough, RequiredCount
<1>5. \A i \in DOMAIN segs : segs[i].required => i \in S
  BY <1>1, ScanLeavesEnough
<1> HIDE DEF S
<1>6. Cardinality(S) <= n
  BY <1>3, <1>4
<1>7. S \in Readings(segs, n)
  BY <1>1, <1>5, <1>6, ReadingShape
<1> QED
  BY <1>3, <1>7 DEF S

\* No other reading uses more parts, or the same number and an earlier segment.
LEMMA TakenComesFirst ==
  ASSUME NEW segs \in Seq(Segment), NEW n \in Nat, NEW idx, Fits(idx, segs, n),
         NEW T \in Readings(segs, n), T # Taken(idx, segs)
  PROVE  Before(Taken(idx, segs), T)
<1> DEFINE S == Taken(idx, segs)
<1>1. /\ S \subseteq DOMAIN segs /\ IsFiniteSet(S) /\ Cardinality(S) \in Nat
      /\ \A i \in DOMAIN segs : segs[i].required => i \in S
  BY TakenIsReading, ReadingShape, ReadingIsFinite
<1>2. /\ T \subseteq DOMAIN segs /\ IsFiniteSet(T) /\ Cardinality(T) \in Nat /\ Cardinality(T) <= n
      /\ \A i \in DOMAIN segs : segs[i].required => i \in T
  BY ReadingShape, ReadingIsFinite
<1>3. DOMAIN segs \subseteq Nat
  OBVIOUS
<1>4. CASE DOMAIN segs \subseteq S
  <2>1. T \in SUBSET S
    BY <1>2, <1>4
  <2>2. Cardinality(T) <= Cardinality(S) /\ Cardinality(T) # Cardinality(S)
    BY <1>1, <2>1, FS_Subset
  <2> QED
    BY <1>1, <1>2, <2>2 DEF Before
<1>5. CASE ~(DOMAIN segs \subseteq S)
  <2>1. PICK i \in DOMAIN segs : i \notin S
    BY <1>5
  <2>2. Cardinality(S) = n
    BY <2>1, TakenIsReading, ScanSkipsTheRest
  <2>3. CASE Cardinality(S) # Cardinality(T)
    BY <1>1, <1>2, <2>2, <2>3 DEF Before
  <2>4. CASE Cardinality(S) = Cardinality(T)
    <3>1. ~(S \subseteq T)
      <4>1. S \in SUBSET T => S = T
        BY <1>2, <2>4, FS_Subset
      <4> QED
        BY <4>1
    <3>2. PICK x \in S \ T : TRUE
      BY <3>1
    <3>3. x \in DOMAIN segs /\ x \in Nat /\ ~segs[x].required
      BY <1>1, <1>2, <1>3, <3>2
    <3>4. ASSUME NEW k \in T \ S PROVE x < k
      <4>1. k \in DOMAIN segs /\ k \in Nat /\ k \notin Taken(idx, segs)
        BY <1>2, <1>3
      <4>2. ~(x > k)
        BY <3>2, <3>3, <4>1, ScanSkipsTheRest
      <4> QED
        BY <3>2, <3>3, <4>1, <4>2
    <3> QED
      BY <2>4, <3>2, <3>4 DEF Before
  <2> QED
    BY <2>3, <2>4
<1> QED
  BY <1>4, <1>5

\* So the scan finds the best reading, and there is one best reading.
LEMMA ScanFindsBest ==
  ASSUME NEW segs \in Seq(Segment), NEW n \in Nat, NEW idx, Fits(idx, segs, n)
  PROVE  BestReading(segs, n) = Taken(idx, segs)
<1> DEFINE S == Taken(idx, segs)
           Best(R) == \A T \in Readings(segs, n) \ {R} : Before(R, T)
<1>1. S \in Readings(segs, n) /\ Best(S)
  BY TakenIsReading, TakenComesFirst
<1>2. ASSUME NEW R \in Readings(segs, n), Best(R), R # S
      PROVE  FALSE
  <2>1. Before(R, S) /\ Before(S, R)
    BY <1>1, <1>2
  <2>2. R \subseteq Nat /\ Cardinality(R) \in Nat /\ S \subseteq Nat /\ Cardinality(S) \in Nat
    <3>1. DOMAIN segs \subseteq Nat
      OBVIOUS
    <3> QED
      BY <1>1, <3>1, ReadingShape, ReadingIsFinite
  <2> HIDE DEF S
  <2>3. PICK i \in R \ S : \A k \in S \ R : i < k
    BY <2>1, <2>2 DEF Before
  <2>4. PICK j \in S \ R : \A k \in R \ S : j < k
    BY <2>1, <2>2 DEF Before
  <2>5. i \in Nat /\ j \in Nat /\ i < j /\ j < i
    BY <2>2, <2>3, <2>4
  <2> QED
    BY <2>5
<1> HIDE DEF S, Best
<1>3. (CHOOSE R \in Readings(segs, n) : Best(R)) = S
  BY <1>1, <1>2
<1> QED
  BY <1>3 DEF BestReading, Best, S

\* The look-ahead decides what the reference decides, for every identifier and
\* every rule: the level of the answer, and not only whether it is compliant.
LEMMA ScanIsReference ==
  ASSUME NEW i \in Identifier, NEW body,
         body.separator \in Separator, body.segments \in Seq(Segment)
  PROVE  validate_identifier(i, body) = Judgement(i, body)
<1> DEFINE parts == Split[i][body.separator]
           segs == body.segments
           n == Len(parts)
           idx == PartIdx(segs, n)
           S == Taken(idx, segs)
<1>1. segs \in Seq(Segment) /\ n \in Nat
  BY SplitAssumption
<1>2. Scans(idx, segs, n, Len(segs))
  BY <1>1, PartIdxScans
<1>3. RequiredFrom(segs, 1) \in Nat
  BY <1>1, RequiredCount
<1>4. CASE n < RequiredFrom(segs, 1)
  <2>1. validate_identifier(i, body) = "non_compliant"
    BY <1>4 DEF validate_identifier
  <2>2. ASSUME NEW T \in Readings(segs, n) PROVE FALSE
    <3>1. /\ T \subseteq DOMAIN segs /\ Cardinality(T) <= n
          /\ { k \in 1..Len(segs) : segs[k].required } \in SUBSET T
      BY <1>1, <2>2, ReadingShape
    <3>2. IsFiniteSet(T) /\ Cardinality(T) \in Nat
      BY <1>1, <3>1, ReadingIsFinite
    <3>3. RequiredFrom(segs, 1) <= Cardinality(T)
      BY <3>1, <3>2, FS_Subset DEF RequiredFrom
    <3> QED
      BY <1>1, <1>3, <1>4, <3>1, <3>2, <3>3
  <2>3. Judgement(i, body) = "non_compliant"
    BY <2>2 DEF Judgement
  <2> QED
    BY <2>1, <2>3
<1>5. CASE ~(n < RequiredFrom(segs, 1))
  <2>1. Fits(idx, segs, n)
    BY <1>1, <1>2, <1>3, <1>5 DEF Fits
  <2>2. BestReading(segs, n) = S /\ Readings(segs, n) # {}
    BY <1>1, <2>1, ScanFindsBest, TakenIsReading
  <2>3. ASSUME NEW k \in S PROVE idx[k] = Cardinality({ l \in S : l <= k })
    <3>1. k \in 0..Len(segs)
      BY <1>1 DEF Taken
    <3> QED
      BY <1>1, <2>1, <3>1, ScanCounts
  <2>4. { k \in DOMAIN segs \ S : segs[k].required } = {}
    BY <1>1, <2>1, TakenIsReading, ReadingShape
  <2> DEFINE issues == UNION { SegmentIssues(segs[k], parts[idx[k]]) : k \in S }
             read == UNION { SegmentIssues(segs[k], parts[Cardinality({ l \in S : l <= k })]) : k \in S }
  <2>5. issues = read
    <3> HIDE DEF S, idx, parts
    <3>1. \A k \in S : SegmentIssues(segs[k], parts[idx[k]]) =
                      SegmentIssues(segs[k], parts[Cardinality({ l \in S : l <= k })])
      BY <2>3
    <3> QED
      BY <3>1
  <2>6. validate_identifier(i, body) = Verdict(issues)
    <3>1. { l \in {"non_compliant"} : { k \in DOMAIN segs \ S : segs[k].required } # {} } = {}
      BY <2>4
    <3>2. validate_identifier(i, body) =
            IF n < RequiredFrom(segs, 1) THEN "non_compliant"
            ELSE Verdict(issues \cup
                    { l \in {"non_compliant"} : { k \in DOMAIN segs \ S : segs[k].required } # {} })
      BY Zenon DEF validate_identifier, Taken
    <3> HIDE DEF n
    <3> HIDE DEF issues
    <3> QED
      BY <1>5, <3>1, <3>2
  <2>7. Judgement(i, body) = Verdict(read)
    BY <2>2 DEF Judgement
  <2> QED
    BY <2>5, <2>6, <2>7
<1> QED
  BY <1>4, <1>5

\* Whether a new container is marked as compliant is what the rule its creation
\* resolved says, read declaratively: for every rule and every identifier.
THEOREM VerdictsAreRight == Spec => VerdictIsReference
<1>1. ASSUME RuleInv, NEW r \in Request, NEW c \in Container, CreateCommit(r, c)
      PROVE  containers'[c].naming_valid <=>
               Judgement(job[r].identifier, job[r].rule) = "compliant"
  <2> DEFINE j == job[r]
  <2>1. j.identifier \in Identifier /\ j.rule \in Rule
    BY <1>1 DEF RuleInv, JobInv, CreateCommit, Creating
  <2>2. validate_identifier(j.identifier, j.rule) = Judgement(j.identifier, j.rule)
    BY <2>1, ScanIsReference DEF Rule
  <2>3. containers'[c].naming_valid = NamingValid(j)
    BY <1>1 DEF CreateCommit
  <2> QED
    BY <2>2, <2>3 DEF NamingValid
<1>2. RuleInv /\ [Next]_vars =>
        [ \A r \in Request, c \in Container : CreateCommit(r, c) =>
            (containers'[c].naming_valid <=>
               Judgement(job[r].identifier, job[r].rule) = "compliant") ]_vars
  BY <1>1
<1> QED
  BY <1>2, RuleInvAlways, PTL DEF Spec, VerdictIsReference
==============================================================================
