----------------------------- MODULE BoundedSet -----------------------------
(***************************************************************************)
(* What the pending-position table promises its sender: a set of at most   *)
(* Limit keys, whose insert and remove answer as a set's would.            *)
(***************************************************************************)
EXTENDS Naturals, FiniteSets

CONSTANTS
  Elements,   \* the keys
  Limit       \* how many the set may hold

VARIABLES
  members,    \* the keys held
  answer      \* what the last operation returned

vars == <<members, answer>>

Init == members = {} /\ answer = "none"

Insert(k) ==
  IF k \in members THEN answer' = "present" /\ UNCHANGED members
  ELSE IF Cardinality(members) = Limit THEN answer' = "full" /\ UNCHANGED members
  ELSE answer' = "inserted" /\ members' = members \cup {k}

Remove(k) ==
  /\ answer' = IF k \in members THEN "removed" ELSE "absent"
  /\ members' = members \ {k}

Next == \E k \in Elements : Insert(k) \/ Remove(k)

Spec == Init /\ [][Next]_vars
=============================================================================
