--------------------------------- MODULE Lru ---------------------------------
(***************************************************************************)
(* The bounded least-recently-used order shared by the integrations'       *)
(* caches and ledgers: a Python OrderedDict driven with move_to_end and    *)
(* popitem(last=False), or a JavaScript Map whose entries are deleted and  *)
(* set again.  An order is a sequence without repetitions, oldest first.   *)
(***************************************************************************)
EXTENDS Integers, Sequences, Functions

\* The orders over S that respect a capacity.
IsOrder(order, S, cap) ==
  /\ order \in Seq(S)
  /\ Len(order) <= cap
  /\ \A i, j \in 1..Len(order) : order[i] = order[j] => i = j

\* Where x stands; one beyond the end when it is absent.
Place(order, x) ==
  IF \E i \in 1..Len(order) : order[i] = x
  THEN CHOOSE i \in 1..Len(order) : order[i] = x
  ELSE Len(order) + 1

\* x becomes the most recently used entry, present or not.
Touch(order, x) ==
  LET p == Place(order, x)
      n == IF p <= Len(order) THEN Len(order) ELSE Len(order) + 1
  IN [i \in 1..n |-> IF i < p THEN order[i] ELSE IF i < n THEN order[i + 1] ELSE x]

\* x is deleted, present or not.
Without(order, x) ==
  LET p == Place(order, x)
      n == IF p <= Len(order) THEN Len(order) - 1 ELSE Len(order)
  IN [i \in 1..n |-> IF i < p THEN order[i] ELSE order[i + 1]]

\* What is left of an order once its oldest entries beyond cap are dropped.
Newest(order, cap) ==
  IF Len(order) <= cap THEN order
  ELSE SubSeq(order, Len(order) - cap + 1, Len(order))

\* q is what is left of s, in the order of s, without the members of S.
IsRest(q, s, S) ==
  /\ Range(q) = Range(s) \ S
  /\ \A i, j \in 1..Len(q) :
       i < j => \E k, l \in 1..Len(s) : k < l /\ s[k] = q[i] /\ s[l] = q[j]

\* The entries Newest drops.
Oldest(order, cap) == Range(order) \ Range(Newest(order, cap))
==============================================================================
