------------------------------- MODULE LinkLife ------------------------------
(***************************************************************************)
(* What an external share link promises: it is issued once, it opens the   *)
(* file only after it was issued, and once it has stopped opening it,      *)
(* whether by expiry, revocation or replacement, it never does again.      *)
(***************************************************************************)
EXTENDS Integers

CONSTANT Token

VARIABLES
  age,   \* "unissued", "live" or "dead", for each token
  used   \* tokens a download was served for

vars == <<age, used>>

Rank(a) == CASE a = "unissued" -> 0 [] a = "live" -> 1 [] a = "dead" -> 2

Init == age = [t \in Token |-> "unissued"] /\ used = {}

\* Links are issued or die, any number at once (time kills several).
Grow ==
  /\ age' \in [Token -> {"unissued", "live", "dead"}]
  /\ \A t \in Token : Rank(age[t]) <= Rank(age'[t])
  /\ UNCHANGED used

Use(t) ==
  /\ age[t] # "unissued"
  /\ used' = used \cup {t}
  /\ UNCHANGED age

Next == Grow \/ \E t \in Token : Use(t)

Spec == Init /\ [][Next]_vars
==============================================================================
