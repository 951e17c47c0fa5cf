---------------------------- MODULE MCIdentifiers ----------------------------
(* Instances of Identifiers for TLC. *)
EXTENDS Identifiers, TLC

W(text, length, chars) == [text |-> text, length |-> length, chars |-> chars]
PROJ == W("PROJ", 4, "upper")
ORG == W("ORG", 3, "upper")
DR == W("DR", 2, "upper")
AR == W("AR", 2, "upper")
N1 == W("0001", 4, "digit")
Short == W("P_1", 3, "other")
Whole == W("", 19, "other")     \* an identifier without the separator
MCWord == {PROJ, ORG, DR, AR, N1, Short, Whole, W("P", 1, "upper"), W("1", 1, "digit")}
MCText == TypeCode \cup { w.text : w \in MCWord }

\* PROJ-ORG-DR-AR-0001 (the default rule without its optional segments),
\* PROJ-DR-AR, and P_1.
MCSplit ==
  [full |-> [dash |-> <<PROJ, ORG, DR, AR, N1>>, low |-> <<Whole>>],
   three |-> [dash |-> <<PROJ, DR, AR>>, low |-> <<Whole>>],
   under |-> [dash |-> <<Short>>, low |-> <<W("P", 1, "upper"), W("1", 1, "digit")>>]]
MCIdentifier == DOMAIN MCSplit
MCSplitBySeparator ==
  [i \in MCIdentifier |-> [s \in {"-", "_"} |->
     IF s = "-" THEN MCSplit[i].dash ELSE MCSplit[i].low]]

\* A code and a number; the same with "-"; and with two optional segments
\* around a type code.
Coded == << Seg(TRUE, 0, 0, {}, OfClass({"upper"})), Seg(TRUE, 0, 0, {}, OfClass({"digit"})) >>
Typed == << Seg(FALSE, 0, 0, {}, UpperAlnum), Seg(TRUE, 2, 0, {"DR"}, Word),
            Seg(FALSE, 0, 2, {}, UpperAlnum) >>
MCRuleBody == { [separator |-> "_", segments |-> Coded],
                [separator |-> "-", segments |-> Coded],
                [separator |-> "-", segments |-> Typed] }

Symmetry == Permutations(Request) \cup Permutations(Container) \cup Permutations(RuleId)
==============================================================================
