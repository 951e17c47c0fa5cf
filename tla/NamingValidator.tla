--------------------------- MODULE NamingValidator ---------------------------
(***************************************************************************)
(* services/naming_validator.py: what a naming rule says of an identifier. *)
(* An identifier is known by what str.split returns for each separator: a  *)
(* sequence of words.  A word is known by its text where a rule lists the  *)
(* allowed values, its length, and the class of its characters, which is   *)
(* all that the patterns of the default rule look at.                      *)
(***************************************************************************)
EXTENDS Integers, Sequences, FiniteSets

CONSTANTS
  Text,       \* the texts a rule may list as allowed values, and those of words
  Word,       \* records [text, length, chars]
  Separator,
  Identifier,
  Split       \* identifier.split(separator)

\* The information types of ISO 19650-2 Annex A.
TypeCode == {"DR", "M3", "MO", "MS", "WD", "RP", "SK", "SP", "XX"}

ASSUME WordAssumption ==
  /\ TypeCode \subseteq Text
  /\ Word \subseteq [text : Text, length : Nat, chars : {"upper", "digit", "alnum", "other"}]
ASSUME SplitAssumption ==
  /\ "-" \in Separator
  /\ Split \in [Identifier -> [Separator -> Seq(Word)]]
  /\ \A i \in Identifier, s \in Separator : Len(Split[i][s]) > 0

Level == {"compliant", "warning", "non_compliant"}

\* 0 is the None of min_length and max_length, {} of allowed_values.
Segment ==
  [required : BOOLEAN, min_length : Nat, max_length : Nat,
   allowed_values : SUBSET Text, pattern : SUBSET Word]

\* re.match: the words that are one or more characters of the class.
OfClass(chars) == { w \in Word : w.length > 0 /\ w.chars \in chars }
UpperAlnum == OfClass({"upper", "digit", "alnum"})

Seg(required, min, max, allowed, pattern) ==
  [required |-> required, min_length |-> min, max_length |-> max,
   allowed_values |-> allowed, pattern |-> pattern]

\* ISO 19650-2 Annex A: project, originator, volume_system, level_location,
\* type, role, number.
_default_iso19650_rule ==
  [separator |-> "-",
   segments |-> <<
     Seg(TRUE, 2, 20, {}, UpperAlnum),
     Seg(TRUE, 2, 10, {}, UpperAlnum),
     Seg(FALSE, 0, 6, {}, UpperAlnum),
     Seg(FALSE, 0, 6, {}, UpperAlnum),
     Seg(TRUE, 2, 4, TypeCode, Word),
     Seg(TRUE, 0, 4, {}, { w \in OfClass({"upper"}) : w.length <= 4 }),
     Seg(TRUE, 4, 6, {}, OfClass({"digit"})) >>]

\* The levels of the issues _validate_segment finds in a value.
SegmentIssues(seg, w) ==
  { l \in {"non_compliant"} :
      \/ seg.min_length # 0 /\ w.length < seg.min_length
      \/ seg.max_length # 0 /\ w.length > seg.max_length
      \/ seg.allowed_values # {} /\ w.text \notin seg.allowed_values }
  \cup { l \in {"warning"} : w \notin seg.pattern }

Verdict(issues) ==
  IF "non_compliant" \in issues THEN "non_compliant"
  ELSE IF issues # {} THEN "warning" ELSE "compliant"

\* Required segments from position k on.
RequiredFrom(segs, k) == Cardinality({ i \in k..Len(segs) : segs[i].required })

\* Faulty: an optional segment takes a part whenever there is one.
PartIdx_NoLookAhead(segs, n) ==
  LET idx[i \in 0..Len(segs)] ==
        IF i = 0 THEN 0
        ELSE IF idx[i - 1] < n THEN idx[i - 1] + 1 ELSE idx[i - 1]
  IN idx

\* part_idx after each segment: an optional segment takes a part only if one
\* is left over for it after those the required segments still need.
PartIdx(segs, n) ==
  LET idx[i \in 0..Len(segs)] ==
        IF i = 0 THEN 0
        ELSE LET used == idx[i - 1]
                 left == n - used
             IN IF left > 0 /\ (segs[i].required \/ left > RequiredFrom(segs, i + 1))
                THEN used + 1 ELSE used
  IN idx

validate_identifier(identifier, rule) ==
  LET parts == Split[identifier][rule.separator]
      segs == rule.segments
      idx == PartIdx(segs, Len(parts))
      taken == { i \in DOMAIN segs : idx[i] > idx[i - 1] }
      missing == { i \in DOMAIN segs \ taken : segs[i].required }
  IN IF Len(parts) < RequiredFrom(segs, 1) THEN "non_compliant"
     ELSE Verdict((UNION { SegmentIssues(segs[i], parts[idx[i]]) : i \in taken })
                  \cup { l \in {"non_compliant"} : missing # {} })

-----------------------------------------------------------------------------
(* The reference: no scan, only which segments an identifier has.          *)

\* A reading names the segments the first parts stand for, in order.
Readings(segs, n) ==
  LET required == { i \in DOMAIN segs : segs[i].required }
  IN { S \in { required \cup O : O \in SUBSET (DOMAIN segs \ required) } : Cardinality(S) <= n }

\* S uses more parts than T, or has the first segment in which they differ.
Before(S, T) ==
  \/ Cardinality(S) > Cardinality(T)
  \/ /\ Cardinality(S) = Cardinality(T)
     /\ \E i \in S \ T : \A k \in T \ S : i < k

BestReading(segs, n) ==
  CHOOSE S \in Readings(segs, n) : \A T \in Readings(segs, n) \ {S} : Before(S, T)

\* What the rule demands of an identifier: every required segment is there, as
\* many optional ones as there are parts, the earlier ones first, and each has
\* a value the segment accepts.  Parts beyond the last segment are not looked at.
Judgement(identifier, rule) ==
  LET parts == Split[identifier][rule.separator]
      segs == rule.segments
      reading == BestReading(segs, Len(parts))
      part(i) == parts[Cardinality({ k \in reading : k <= i })]
  IN IF Readings(segs, Len(parts)) = {} THEN "non_compliant"
     ELSE Verdict(UNION { SegmentIssues(segs[i], part(i)) : i \in reading })
==============================================================================
