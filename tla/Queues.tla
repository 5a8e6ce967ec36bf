------------------------------- MODULE Queues -------------------------------
(* What the owners' vectors and queues hold, and how they drop elements.   *)
EXTENDS Naturals, Sequences

Elements(q) == {q[i] : i \in DOMAIN q}
Distinct(q) == \A a, b \in DOMAIN q : q[a] = q[b] => a = b

(* Vec::retain and VecDeque::retain: what is in S stays, in its order.     *)
Retain(q, S) ==
  LET kept[i \in 0..Len(q)] ==
        IF i = 0 THEN <<>>
        ELSE IF q[i] \in S THEN Append(kept[i - 1], q[i]) ELSE kept[i - 1]
  IN  kept[Len(q)]
=============================================================================
