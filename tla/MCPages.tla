------------------------------- MODULE MCPages -------------------------------
(* Instances of Pages for TLC. *)
EXTENDS Pages

-----------------------------------------------------------------------------
(* The words of the naming rule (see MCIdentifiers).                       *)

W(text, length, chars) == [text |-> text, length |-> length, chars |-> chars]
Code(n) == <<W("any", n, "upper")>>
Digits(n) == <<W("any", n, "digit")>>
Listed(text, n) == <<W(text, n, "upper")>>
Empty == <<W("", 0, "other")>>

MCInitialSegments ==
  [Project |-> <<W("3F2", 3, "alnum")>>, Originator |-> Code(3), Volume |-> Listed("XX", 2),
   Level |-> Digits(2), Type |-> Listed("DR", 2), Role |-> Listed("A", 1), Number |-> Digits(4)]

Only == [k \in DOMAIN MCInitialSegments |-> {MCInitialSegments[k]}]

\* The number decides whether the form can be submitted.
MCSubmitInput == [Only EXCEPT !.Number = @ \cup {Digits(3)}]

\* Values with and without hyphens, of the right and of the wrong form.
MCJudgeInput ==
  [Only EXCEPT !.Originator = @ \cup {Empty, Code(2), Code(1) \o Code(1)},
               !.Level = @ \cup {<<W("B#", 2, "alnum")>>, Digits(1) \o Digits(1)},
               !.Type = @ \cup {Listed("SH", 2), Listed("WD", 2), Listed("MS", 2)},
               !.Role = @ \cup {Empty, Code(1)},
               !.Number = @ \cup {Digits(3), Digits(2) \o Digits(1)}]

MCWord ==
  (UNION { UNION { {v[i] : i \in DOMAIN v} : v \in MCJudgeInput[k] } : k \in DOMAIN MCJudgeInput })
    \cup {Digits(3)[1]}
MCText == { w.text : w \in MCWord }

-----------------------------------------------------------------------------
(* The rest.                                                               *)

MCProjectOf == <<"p", "q">>

MCNewKey == <<"seg1">>
MCSegments == <<"volume">>

MCOrgOf == [r \in Role |-> IF r = "d" THEN "p" ELSE "o"]

\* The lists that their own page changes, forgotten ones and the badge included.
MCWatched == {"projects", "notifications-summary", "containers", "files", "revisions", "share-requests",
              "naming-rules", "workflows-mine", "notifications", "requirements", "roles"}

MCTyped == {0, -1}
==============================================================================
