------------------------------ MODULE LruProofs ------------------------------
(***************************************************************************)
(* What Touch and Newest keep of an order.                                 *)
(***************************************************************************)
EXTENDS Lru, WellFoundedInduction, TLAPS

\* Touching an entry keeps an order an order, with x at its recent end and no
\* entry lost; it grows by one at most.
LEMMA TouchKeepsOrder ==
  ASSUME NEW S, NEW cap \in Nat, NEW order, IsOrder(order, S, cap), NEW x \in S
  PROVE  /\ IsOrder(Touch(order, x), S, cap + 1)
         /\ Len(Touch(order, x)) > 0
         /\ Touch(order, x)[Len(Touch(order, x))] = x
<1> DEFINE p == Place(order, x)
           n == IF p <= Len(order) THEN Len(order) ELSE Len(order) + 1
           f == [i \in 1..n |-> IF i < p THEN order[i]
                                ELSE IF i < n THEN order[i + 1] ELSE x]
<1>0. order \in Seq(S) /\ Len(order) \in Nat /\ Len(order) <= cap
  BY DEF IsOrder
<1>1. /\ p \in 1..(Len(order) + 1)
      /\ p <= Len(order) => order[p] = x
      /\ \A i \in 1..Len(order) : order[i] = x => p <= Len(order) /\ i = p
  BY <1>0 DEF Place, IsOrder
<1>2. n \in Nat /\ n > 0 /\ n <= cap + 1 /\ p <= n
  BY <1>0, <1>1
<1>3. \A i \in 1..n : (i < p => i \in 1..Len(order))
                      /\ (i >= p /\ i < n => i + 1 \in 1..Len(order))
  BY <1>0, <1>1
<1>. HIDE DEF p, n
<1>4. f \in Seq(S) /\ Len(f) = n
  <2>1. f \in [1..n -> S]
    BY <1>0, <1>1, <1>2, <1>3
  <2>. QED BY <2>1, <1>2
<1>5. \A i, j \in 1..n : f[i] = f[j] => i = j
  <2>. SUFFICES ASSUME NEW i \in 1..n, NEW j \in 1..n, f[i] = f[j], i < j PROVE FALSE
    BY <1>2
  <2>1. CASE j < n /\ i < p
    BY <2>1, <1>0, <1>1, <1>2, <1>3 DEF IsOrder
  <2>2. CASE j < n /\ i >= p
    BY <2>2, <1>0, <1>1, <1>2, <1>3 DEF IsOrder
  <2>3. CASE j = n
    BY <2>3, <1>0, <1>1, <1>2, <1>3
  <2>. QED BY <2>1, <2>2, <2>3, <1>0, <1>1, <1>2
<1>6. Touch(order, x) = f
  BY DEF Touch, p, n
<1>7. f[n] = x
  BY <1>1, <1>2, <1>3
<1>. QED BY <1>2, <1>4, <1>5, <1>6, <1>7 DEF IsOrder

\* Dropping the oldest entries of an order brings it within its capacity and
\* never drops the most recent one.
LEMMA NewestKeepsOrder ==
  ASSUME NEW S, NEW cap \in Nat \ {0}, NEW big \in Nat,
         NEW order, IsOrder(order, S, big), Len(order) > 0
  PROVE  /\ IsOrder(Newest(order, cap), S, cap)
         /\ order[Len(order)] \in Range(Newest(order, cap))
         /\ Range(Newest(order, cap)) \subseteq Range(order)
<1>1. order \in Seq(S) /\ Len(order) \in Nat /\ DOMAIN order = 1..Len(order)
  BY DEF IsOrder
<1>2. CASE Len(order) <= cap
  BY <1>1, <1>2 DEF IsOrder, Newest, Range
<1>3. CASE Len(order) > cap
  <2> DEFINE m == Len(order) - cap
             s == SubSeq(order, m + 1, Len(order))
  <2>1. m \in Nat /\ m + cap = Len(order)
    BY <1>1, <1>3
  <2>2. /\ s \in Seq(S) /\ Len(s) = cap /\ DOMAIN s = 1..cap
        /\ \A i \in 1..cap : s[i] = order[m + i] /\ m + i \in 1..Len(order)
    BY <1>1, <1>3, <2>1
  <2>3. \A i, j \in 1..cap : s[i] = s[j] => i = j
    BY <1>1, <2>1, <2>2 DEF IsOrder
  <2>4. s[cap] = order[Len(order)]
    BY <2>1, <2>2
  <2>5. Newest(order, cap) = s
    BY <1>3, <1>1, <2>1 DEF Newest
  <2>. HIDE DEF s, m
  <2>6. IsOrder(s, S, cap)
    BY <2>2, <2>3 DEF IsOrder
  <2>7. order[Len(order)] \in Range(s)
    BY <2>2, <2>4 DEF Range
  <2>8. Range(s) \subseteq Range(order)
    BY <1>1, <2>2 DEF Range
  <2>. QED BY <2>5, <2>6, <2>7, <2>8
<1>. QED BY <1>1, <1>2, <1>3

\* The two together: one use of x in a cache of capacity cap.
LEMMA UseKeepsOrder ==
  ASSUME NEW S, NEW cap \in Nat \ {0}, NEW order, IsOrder(order, S, cap), NEW x \in S
  PROVE  /\ IsOrder(Newest(Touch(order, x), cap), S, cap)
         /\ x \in Range(Newest(Touch(order, x), cap))
<1>1. /\ IsOrder(Touch(order, x), S, cap + 1)
      /\ Len(Touch(order, x)) > 0
      /\ Touch(order, x)[Len(Touch(order, x))] = x
  BY TouchKeepsOrder
<1> DEFINE o == Touch(order, x)
<1>2. cap + 1 \in Nat
  OBVIOUS
<1>. HIDE DEF o
<1>3. /\ IsOrder(Newest(o, cap), S, cap)
      /\ o[Len(o)] \in Range(Newest(o, cap))
  BY <1>1, <1>2, NewestKeepsOrder DEF o
<1>. QED BY <1>1, <1>3 DEF o

\* Touching adds x to the entries and loses none.
LEMMA TouchMembers ==
  ASSUME NEW S, NEW cap \in Nat, NEW order, IsOrder(order, S, cap), NEW x \in S
  PROVE  Range(Touch(order, x)) = Range(order) \cup {x}
<1> DEFINE p == Place(order, x)
           n == IF p <= Len(order) THEN Len(order) ELSE Len(order) + 1
<1>0. order \in Seq(S) /\ Len(order) \in Nat
  BY DEF IsOrder
<1>d. DOMAIN order = 1..Len(order)
  BY <1>0
<1>1. /\ p \in 1..(Len(order) + 1)
      /\ p <= Len(order) => order[p] = x
  BY <1>0 DEF Place
<1>2. n \in Nat /\ n > 0 /\ p <= n /\ n >= Len(order) /\ n <= Len(order) + 1
  BY <1>0, <1>1
<1>3. p > Len(order) => p = n
  BY <1>0, <1>1
<1>4. p <= Len(order) => n = Len(order)
  BY <1>0, <1>1
<1> DEFINE f == [i \in 1..n |-> IF i < p THEN order[i]
                                ELSE IF i < n THEN order[i + 1] ELSE x]
<1>5. Touch(order, x) = f
  BY DEF Touch, p, n
<1>. HIDE DEF p, n
<1>6. ASSUME NEW i \in 1..n PROVE f[i] \in Range(order) \cup {x}
  <2>1. CASE i < p
    <3>1. i \in 1..Len(order) /\ f[i] = order[i]
      BY <2>1, <1>0, <1>1, <1>2, <1>3, <1>4
    <3>. QED BY <3>1, <1>d DEF Range
  <2>2. CASE i >= p /\ i < n
    <3>1. i + 1 \in 1..Len(order) /\ f[i] = order[i + 1]
      BY <2>2, <1>0, <1>1, <1>2, <1>3, <1>4
    <3>. QED BY <3>1, <1>d DEF Range
  <2>3. CASE i = n /\ i >= p
    <3>1. f[i] = x
      BY <2>3, <1>1, <1>2
    <3>. QED BY <3>1
  <2>. QED BY <2>1, <2>2, <2>3, <1>1, <1>2
<1>7. x \in Range(f)
  <2>1. f[n] = x
    BY <1>1, <1>2
  <2>. QED BY <2>1, <1>2 DEF Range
<1>8. ASSUME NEW i \in 1..Len(order) PROVE order[i] \in Range(f)
  <2>1. CASE i < p
    <3>1. i \in 1..n /\ f[i] = order[i]
      BY <2>1, <1>0, <1>1, <1>2
    <3>. QED BY <3>1 DEF Range
  <2>2. CASE i = p
    BY <2>2, <1>0, <1>1, <1>7
  <2>3. CASE i > p
    <3>1. i - 1 \in 1..n /\ ~(i - 1 < p) /\ i - 1 < n /\ (i - 1) + 1 = i
      BY <2>3, <1>0, <1>1, <1>2, <1>4
    <3>2. f[i - 1] = order[(i - 1) + 1]
      BY <3>1
    <3>. QED BY <3>1, <3>2 DEF Range
  <2>. QED BY <2>1, <2>2, <2>3, <1>0, <1>1
<1>9. Range(f) \subseteq Range(order) \cup {x}
  BY <1>6, <1>2 DEF Range
<1>10. Range(order) \subseteq Range(f)
  BY <1>8, <1>d DEF Range
<1>. QED BY <1>5, <1>7, <1>9, <1>10

\* Two entries of q, the second not x, stood in the same order in o.
InStep(o, q, x) ==
  \A i, j \in 1..Len(q) :
    i < j /\ q[j] # x => \E k, l \in 1..Len(o) : k < l /\ o[k] = q[i] /\ o[l] = q[j]

\* Touching x leaves the other entries in the order they had.
LEMMA TouchKeepsRelativeOrder ==
  ASSUME NEW S, NEW cap \in Nat, NEW order, IsOrder(order, S, cap), NEW x \in S
  PROVE  InStep(order, Touch(order, x), x)
<1>. SUFFICES ASSUME NEW i \in 1..Len(Touch(order, x)), NEW j \in 1..Len(Touch(order, x)), i < j,
                     Touch(order, x)[j] # x
              PROVE  \E k, l \in 1..Len(order) : /\ k < l
                                                 /\ order[k] = Touch(order, x)[i]
                                                 /\ order[l] = Touch(order, x)[j]
  BY DEF InStep
<1> DEFINE p == Place(order, x)
           n == IF p <= Len(order) THEN Len(order) ELSE Len(order) + 1
           f == [a \in 1..n |-> IF a < p THEN order[a]
                                ELSE IF a < n THEN order[a + 1] ELSE x]
<1>0. order \in Seq(S) /\ Len(order) \in Nat
  BY DEF IsOrder
<1>1. p \in 1..(Len(order) + 1)
  BY <1>0 DEF Place
<1>2. n \in Nat /\ n > 0 /\ p <= n /\ (p > Len(order) => p = n) /\ (p <= Len(order) => n = Len(order))
  BY <1>0, <1>1
<1>3. Touch(order, x) = f
  BY DEF Touch, p, n
<1>. HIDE DEF p, n
<1>4. Len(f) = n
  BY <1>2
<1>5. i \in 1..n /\ j \in 1..n /\ f[j] # x
  BY <1>3, <1>4
<1>6. j < n \/ j < p
  BY <1>2, <1>5
<1>. QED
  <2>1. CASE j < p
    <3>1. i \in 1..Len(order) /\ j \in 1..Len(order) /\ f[i] = order[i] /\ f[j] = order[j]
      BY <2>1, <1>0, <1>1, <1>2, <1>5
    <3>. QED BY <3>1, <1>3
  <2>2. CASE j >= p /\ i < p
    <3>1. /\ i \in 1..Len(order) /\ j + 1 \in 1..Len(order)
          /\ f[i] = order[i] /\ f[j] = order[j + 1] /\ i < j + 1
      BY <2>2, <1>0, <1>1, <1>2, <1>5, <1>6
    <3>. QED BY <3>1, <1>3
  <2>3. CASE j >= p /\ i >= p
    <3>1. /\ i + 1 \in 1..Len(order) /\ j + 1 \in 1..Len(order)
          /\ f[i] = order[i + 1] /\ f[j] = order[j + 1] /\ i + 1 < j + 1
      BY <2>3, <1>0, <1>1, <1>2, <1>5, <1>6
    <3>. QED BY <3>1, <1>3
  <2>. QED BY <2>1, <2>2, <2>3, <1>1, <1>5

\* Deleting x keeps an order an order of the other entries.
LEMMA WithoutFacts ==
  ASSUME NEW S, NEW cap \in Nat, NEW order, IsOrder(order, S, cap), NEW x \in S
  PROVE  /\ IsOrder(Without(order, x), S, cap)
         /\ Range(Without(order, x)) = Range(order) \ {x}
<1> DEFINE p == Place(order, x)
           n == IF p <= Len(order) THEN Len(order) - 1 ELSE Len(order)
           f == [i \in 1..n |-> IF i < p THEN order[i] ELSE order[i + 1]]
<1>0. /\ order \in Seq(S) /\ Len(order) \in Nat /\ Len(order) <= cap
      /\ \A i, j \in 1..Len(order) : order[i] = order[j] => i = j
  BY DEF IsOrder
<1>d. DOMAIN order = 1..Len(order)
  BY <1>0
<1>1. /\ p \in 1..(Len(order) + 1)
      /\ p <= Len(order) => order[p] = x
      /\ \A i \in 1..Len(order) : order[i] = x => p <= Len(order) /\ i = p
  BY <1>0 DEF Place
<1>2. n \in Nat /\ n <= cap
      /\ (p <= Len(order) => n = Len(order) - 1) /\ (p > Len(order) => n = Len(order))
  BY <1>0, <1>1
<1>. HIDE DEF p, n
<1>3. \A i \in 1..n : /\ i < p => i \in 1..Len(order)
                      /\ i >= p => i + 1 \in 1..Len(order)
  BY <1>0, <1>1, <1>2
<1>4. f \in Seq(S) /\ Len(f) = n
  <2>0. \A i \in 1..n : (IF i < p THEN order[i] ELSE order[i + 1]) \in S
    BY <1>0, <1>1, <1>2, <1>3
  <2>1. f \in [1..n -> S]
    BY <2>0
  <2>. QED BY <2>1, <1>2
<1>5. \A i \in 1..n : \E k \in 1..Len(order) : f[i] = order[k] /\ k # p
                                               /\ k = (IF i < p THEN i ELSE i + 1)
  BY <1>0, <1>1, <1>2, <1>3
<1>6. \A i, j \in 1..n : f[i] = f[j] => i = j
  <2>. SUFFICES ASSUME NEW i \in 1..n, NEW j \in 1..n, f[i] = f[j] PROVE i = j
    OBVIOUS
  <2>1. PICK k \in 1..Len(order) : f[i] = order[k] /\ k = (IF i < p THEN i ELSE i + 1)
    BY <1>5
  <2>2. PICK l \in 1..Len(order) : f[j] = order[l] /\ l = (IF j < p THEN j ELSE j + 1)
    BY <1>5
  <2>3. k = l
    BY <1>0, <2>1, <2>2
  <2>. QED BY <1>1, <1>2, <2>1, <2>2, <2>3
<1>7. Without(order, x) = f
  BY DEF Without, p, n
<1>8. IsOrder(f, S, cap)
  BY <1>2, <1>4, <1>6 DEF IsOrder
<1>9. \A i \in 1..n : f[i] \in Range(order) \ {x}
  <2>. SUFFICES ASSUME NEW i \in 1..n PROVE f[i] \in Range(order) \ {x}
    OBVIOUS
  <2>1. PICK k \in 1..Len(order) : f[i] = order[k] /\ k # p
    BY <1>5
  <2>2. order[k] # x
    BY <1>1, <2>1
  <2>3. order[k] \in Range(order)
    BY <1>d DEF Range
  <2>. QED BY <2>1, <2>2, <2>3
<1>10. \A k \in 1..Len(order) : order[k] # x => \E i \in 1..n : f[i] = order[k]
  <2>. SUFFICES ASSUME NEW k \in 1..Len(order), order[k] # x
                PROVE  \E i \in 1..n : f[i] = order[k]
    OBVIOUS
  <2>0. p <= Len(order) => k # p
    BY <1>1
  <2>1. CASE k < p
    <3>1. k \in 1..n /\ f[k] = order[k]
      BY <2>1, <1>0, <1>1, <1>2
    <3>. QED BY <3>1
  <2>2. CASE k > p
    <3>1. k - 1 \in 1..n /\ ~(k - 1 < p) /\ (k - 1) + 1 = k
      BY <2>2, <1>0, <1>1, <1>2
    <3>2. f[k - 1] = order[k]
      BY <3>1
    <3>. QED BY <3>1, <3>2
  <2>. QED BY <2>0, <2>1, <2>2, <1>0, <1>1
<1>11. DOMAIN f = 1..n
  OBVIOUS
<1>. HIDE DEF f
<1>12. Range(f) \subseteq Range(order) \ {x}
  BY <1>9, <1>11 DEF Range
<1>13. Range(order) \ {x} \subseteq Range(f)
  BY <1>10, <1>11, <1>d DEF Range
<1>. QED BY <1>7, <1>8, <1>12, <1>13

\* The two halves apart, as the modules cite them.
LEMMA WithoutKeepsOrder ==
  ASSUME NEW S, NEW cap \in Nat, NEW order, IsOrder(order, S, cap), NEW x \in S
  PROVE  IsOrder(Without(order, x), S, cap)
BY WithoutFacts

LEMMA WithoutMembers ==
  ASSUME NEW S, NEW cap \in Nat, NEW order, IsOrder(order, S, cap), NEW x \in S
  PROVE  Range(Without(order, x)) = Range(order) \ {x}
BY WithoutFacts

\* One use of x in a cache of capacity cap: x is in, and what Oldest names is
\* out; x itself is never among that.
OneUse(after, lost, order, x, S, cap) ==
  /\ IsOrder(after, S, cap) /\ x \in Range(after)
  /\ lost \subseteq Range(order) \ {x}
  /\ Range(after) = (Range(order) \cup {x}) \ lost

LEMMA Uses ==
  ASSUME NEW S, NEW cap \in Nat \ {0}, NEW order, IsOrder(order, S, cap), NEW x \in S
  PROVE  OneUse(Newest(Touch(order, x), cap), Oldest(Touch(order, x), cap), order, x, S, cap)
<1> DEFINE o == Touch(order, x)
           after == Newest(o, cap)
<1>1. IsOrder(after, S, cap) /\ x \in Range(after)
  BY UseKeepsOrder
<1>2. cap \in Nat /\ IsOrder(o, S, cap + 1) /\ Len(o) > 0
  BY TouchKeepsOrder
<1>3. Range(after) \subseteq Range(o)
  BY <1>2, NewestKeepsOrder
<1>4. Range(o) = Range(order) \cup {x}
  BY <1>2, TouchMembers
<1>. HIDE DEF o, after
<1>5. Oldest(o, cap) = Range(o) \ Range(after)
  BY DEF Oldest, after
<1>6. OneUse(after, Oldest(o, cap), order, x, S, cap)
  BY <1>1, <1>3, <1>4, <1>5 DEF OneUse
<1>. QED BY <1>6 DEF o, after

LEMMA UseFacts ==
  ASSUME NEW S, NEW cap \in Nat \ {0}, NEW order, IsOrder(order, S, cap), NEW x \in S
  PROVE  /\ IsOrder(Newest(Touch(order, x), cap), S, cap)
         /\ x \in Range(Newest(Touch(order, x), cap))
         /\ Oldest(Touch(order, x), cap) \subseteq Range(order) \ {x}
         /\ Range(Newest(Touch(order, x), cap))
              = (Range(order) \cup {x}) \ Oldest(Touch(order, x), cap)
<1> DEFINE after == Newest(Touch(order, x), cap)
           lost == Oldest(Touch(order, x), cap)
<1>1. OneUse(after, lost, order, x, S, cap)
  BY Uses
<1>. HIDE DEF after, lost
<1>2. /\ IsOrder(after, S, cap) /\ x \in Range(after)
      /\ lost \subseteq Range(order) \ {x}
      /\ Range(after) = (Range(order) \cup {x}) \ lost
  BY <1>1 DEF OneUse
<1>. QED BY <1>2 DEF after, lost

\* The members of an order are of the set it is over.
LEMMA OrderMembers ==
  ASSUME NEW S, NEW cap, NEW order, IsOrder(order, S, cap)
  PROVE  Range(order) \subseteq S
<1>1. order \in Seq(S)
  BY DEF IsOrder
<1>. QED BY <1>1 DEF Range

\* A bounded set of numbers that is not empty has a greatest one.
LEMMA GreatestNumber ==
  ASSUME NEW n \in Nat, NEW S \in SUBSET (1..n), S # {}
  PROVE  \E m \in S : \A k \in S : k <= m
<1> DEFINE T == {n - k : k \in S}
<1>0. \A k \in S : k \in 1..n /\ n - k \in Nat
  OBVIOUS
<1>1. T \subseteq Nat /\ T # {}
  BY <1>0
<1>2. PICK x \in T : \A y \in T : ~(<<y, x>> \in OpToRel(<, Nat))
  BY <1>1, WFMin, NatLessThanWellFounded
<1>3. \A y \in T : ~(y < x)
  BY <1>1, <1>2 DEF OpToRel
<1>4. PICK m \in S : x = n - m
  OBVIOUS
<1>5. ASSUME NEW k \in S PROVE k <= m
  <2>1. ~(n - k < n - m)
    BY <1>3, <1>4
  <2>. QED BY <1>0, <2>1
<1>. QED BY <1>5
==============================================================================
