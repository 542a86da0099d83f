---------------------- MODULE IntegrationsMemoryProofs ----------------------
(***************************************************************************)
(* What the integrations recall and what they write is as it should be, for*)
(* every number of users, sessions, turns and calls, and every bound.      *)
(***************************************************************************)
EXTENDS MCIntegrations, LruProofs, FiniteSetTheorems, TLAPS

------------------------------------------------------------------------------
\* Ledgers of what was shown to whom.

\* r is u with v behind it.
Chained(r, u, v, T) ==
  /\ r \in Seq(T) /\ Len(r) = Len(u) + Len(v)
  /\ \A i \in 1..Len(r) : \/ i \in 1..Len(u) /\ r[i] = u[i]
                          \/ i > Len(u) /\ i - Len(u) \in 1..Len(v) /\ r[i] = v[i - Len(u)]
LEMMA Chains ==
  ASSUME NEW T, NEW u \in Seq(T), NEW v \in Seq(T), NEW r, r = u \o v
  PROVE  Chained(r, u, v, T)
<1>1. /\ r \in Seq(T) /\ Len(r) = Len(u) + Len(v)
      /\ \A i \in 1..(Len(u) + Len(v)) : r[i] = IF i <= Len(u) THEN u[i] ELSE v[i - Len(u)]
  OBVIOUS
<1>2. ASSUME NEW i \in 1..(Len(u) + Len(v)), ~(i <= Len(u))
      PROVE  i > Len(u) /\ i - Len(u) \in 1..Len(v)
  BY <1>2
<1>3. ASSUME NEW i \in 1..(Len(u) + Len(v)), i <= Len(u) PROVE i \in 1..Len(u)
  BY <1>3
<1>. QED BY <1>1, <1>2, <1>3 DEF Chained

\* r is the end of q.
Suffix(r, q, cap, T) ==
  /\ r \in Seq(T) /\ Len(r) <= cap /\ Len(r) <= Len(q)
  /\ Len(r) = cap \/ Len(r) = Len(q)
  /\ \A k \in 1..Len(r) : r[k] = q[Len(q) - Len(r) + k]
LEMMA Suffixes ==
  ASSUME NEW T, NEW q \in Seq(T), NEW cap \in Nat, NEW r, r = Newest(q, cap)
  PROVE  Suffix(r, q, cap, T)
<1>1. Len(q) \in Nat
  OBVIOUS
<1>2. CASE Len(q) <= cap
  <2>1. r = q
    BY <1>2 DEF Newest
  <2>2. \A k \in 1..Len(q) : Len(q) - Len(q) + k = k
    BY <1>1
  <2>. QED BY <1>1, <1>2, <2>1, <2>2 DEF Suffix
<1>3. CASE ~(Len(q) <= cap)
  <2>1. r = SubSeq(q, Len(q) - cap + 1, Len(q))
    BY <1>3 DEF Newest
  <2>2. Len(q) - cap \in Nat
    BY <1>1, <1>3
  <2>3. PICK a \in Nat : a = Len(q) - cap
    BY <2>2
  <2>4. r = SubSeq(q, a + 1, Len(q)) /\ Len(q) - (a + 1) + 1 = cap /\ a + 1 \in 1..(Len(q) + 1)
    BY <1>1, <1>3, <2>1, <2>3
  <2>5. r \in Seq(T) /\ Len(r) = cap /\ \A k \in 1..cap : r[k] = q[a + k]
    BY <1>1, <2>3, <2>4
  <2>. QED BY <1>1, <1>3, <2>3, <2>5 DEF Suffix
<1>. QED BY <1>2, <1>3

\* In P, what an entry of q stands for is followed, in Q, by what those behind it do.
Follow(q, lab, P, Q) ==
  \A k, l \in 1..Len(q) : k < l =>
    \A i \in P : lab[i] = q[k] => \E m \in Q : m > i /\ lab[m] = q[l]

LEMMA NewestFollows ==
  ASSUME NEW T, NEW q \in Seq(T), NEW cap \in Nat, NEW r, r = Newest(q, cap),
         NEW lab, NEW P, NEW Q, Follow(q, lab, P, Q)
  PROVE  Follow(r, lab, P, Q)
<1>1. Suffix(r, q, cap, T)
  BY Suffixes
<1>2. PICK d \in Nat, n \in Nat : d = Len(q) - Len(r) /\ n = Len(r)
  <2>1. Len(r) \in Nat /\ Len(q) \in Nat /\ Len(q) - Len(r) \in Nat
    BY <1>1 DEF Suffix
  <2>. QED BY <2>1
<1>3. \A k \in 1..n : d + k \in 1..Len(q) /\ r[k] = q[d + k]
  <2>. SUFFICES ASSUME NEW k \in 1..n PROVE d + k \in 1..Len(q) /\ r[k] = q[d + k]
    OBVIOUS
  <2>1. Len(q) \in Nat /\ d + k \in 1..Len(q)
    BY <1>1, <1>2
  <2>2. r[k] = q[Len(q) - Len(r) + k]
    BY <1>1, <1>2 DEF Suffix
  <2>. QED BY <1>2, <2>1, <2>2
<1>. SUFFICES ASSUME NEW k \in 1..n, NEW l \in 1..n, k < l, NEW i \in P, lab[i] = r[k]
              PROVE  \E m \in Q : m > i /\ lab[m] = r[l]
  BY <1>2 DEF Follow
<1>4. d + k < d + l
  OBVIOUS
<1>5. \A a, b \in 1..Len(q) : a < b /\ lab[i] = q[a] => \E m \in Q : m > i /\ lab[m] = q[b]
  BY DEF Follow
<1>. QED BY <1>3, <1>4, <1>5

\* What is pushed out of q has been followed by as many others as q has room for.
Distinct(q) == \A i, j \in 1..Len(q) : q[i] = q[j] => i = j
Covers(B, Q, i, lab) == \A m \in Q : m > i => lab[m] \in B
Crowded(q, cap, lab, P, Q, i, B) ==
  /\ Distinct(q) /\ Follow(q, lab, P, Q) /\ i \in P
  /\ lab[i] \in Range(q) /\ lab[i] \notin Range(Newest(q, cap))
  /\ IsFiniteSet(B) /\ Covers(B, Q, i, lab)
LEMMA Pushes ==
  ASSUME NEW T, NEW q \in Seq(T), NEW cap \in Nat, NEW lab, NEW P, NEW Q, NEW i, NEW B,
         Crowded(q, cap, lab, P, Q, i, B)
  PROVE  Cardinality(B) >= cap
<1>a. PICK r, x : r = Newest(q, cap) /\ x = lab[i]
  OBVIOUS
<1>b. /\ Distinct(q) /\ Follow(q, lab, P, Q) /\ i \in P /\ lab[i] = x /\ r = Newest(q, cap)
       /\ x \in Range(q) /\ x \notin Range(r) /\ IsFiniteSet(B) /\ Covers(B, Q, i, lab)
  BY <1>a DEF Crowded
<1>1. Suffix(r, q, cap, T)
  BY <1>b, Suffixes
<1>2. PICK d \in Nat : d = Len(q) - Len(r)
  <2>1. Len(q) - Len(r) \in Nat
    BY <1>1 DEF Suffix
  <2>. QED BY <2>1
<1>3. PICK k \in 1..Len(q) : q[k] = x
  BY <1>b DEF Range
<1>4. k <= d
  <2>1. ASSUME k > d PROVE FALSE
    <3>1. k - d \in 1..Len(r) /\ d + (k - d) = k
      BY <1>1, <1>2, <2>1 DEF Suffix
    <3>2. r[k - d] = x
      BY <1>1, <1>2, <1>3, <3>1 DEF Suffix
    <3>3. k - d \in DOMAIN r
      BY <1>1, <3>1 DEF Suffix
    <3>. QED BY <1>b, <3>2, <3>3 DEF Range
  <2>. QED BY <1>2, <2>1
<1>5. Len(r) = cap
  <2>1. Len(r) # Len(q)
    BY <1>2, <1>4
  <2>. QED BY <1>1, <2>1 DEF Suffix
<1>6. \A l \in 1..cap : d + l \in 1..Len(q) /\ k < d + l /\ r[l] = q[d + l]
  BY <1>1, <1>2, <1>4, <1>5 DEF Suffix
<1>7. \A l \in 1..cap : r[l] \in B
  <2>. SUFFICES ASSUME NEW l \in 1..cap PROVE r[l] \in B
    OBVIOUS
  <2>1. \A a, b \in 1..Len(q) : a < b /\ lab[i] = q[a] => \E m \in Q : m > i /\ lab[m] = q[b]
    BY <1>b DEF Follow
  <2>2. PICK m \in Q : m > i /\ lab[m] = q[d + l]
    BY <1>b, <1>3, <1>6, <2>1
  <2>. QED BY <1>b, <1>6, <2>2 DEF Covers
<1> DEFINE f == [l \in 1..cap |-> r[l]]
<1>8. f \in Injection(1..cap, B)
  <2>1. f \in [1..cap -> B]
    BY <1>7
  <2>2. ASSUME NEW a \in 1..cap, NEW b \in 1..cap, f[a] = f[b] PROVE a = b
    <3>1. d + a = d + b
      BY <1>b, <1>6, <2>2 DEF Distinct
    <3>. QED BY <3>1
  <2>. QED BY <2>1, <2>2 DEF Injection, IsInjective
<1>9. Cardinality(1..cap) = cap
  <2>1. Cardinality(1..cap) = IF 1 > cap THEN 0 ELSE cap - 1 + 1
    BY FS_Interval
  <2>. QED BY <2>1
<1>10. Cardinality(1..cap) <= Cardinality(B)
  BY <1>b, <1>8, FS_Injection
<1>. QED BY <1>b, <1>9, <1>10, FS_CardinalityType

\* What comes beside P and Q stands for none of q's entries.
Beside(q, lab, P, Q, lab2, P2, Q2) ==
  /\ Q \subseteq Q2 /\ \A i \in P \cup Q : lab2[i] = lab[i]
  /\ \A i \in P2 : i \in P \/ \A k \in 1..Len(q) : lab2[i] # q[k]
LEMMA MoreFollow ==
  ASSUME NEW q, NEW lab, NEW P, NEW Q, Follow(q, lab, P, Q), NEW lab2, NEW P2, NEW Q2,
         Beside(q, lab, P, Q, lab2, P2, Q2)
  PROVE  Follow(q, lab2, P2, Q2)
<1>. SUFFICES ASSUME NEW k \in 1..Len(q), NEW l \in 1..Len(q), k < l, NEW i \in P2,
                     lab2[i] = q[k]
              PROVE  \E m \in Q2 : m > i /\ lab2[m] = q[l]
  BY DEF Follow
<1>1. i \in P /\ lab[i] = q[k]
  BY DEF Beside
<1>2. \A a, b \in 1..Len(q) : a < b /\ lab[i] = q[a] => \E m \in Q : m > i /\ lab[m] = q[b]
  BY <1>1 DEF Follow
<1>3. PICK m \in Q : m > i /\ lab[m] = q[l]
  BY <1>1, <1>2
<1>. QED BY <1>3 DEF Beside

\* Entries put behind q in the order in which they come.
Behind(q, s, lab, P, Q, n, lab2, P2, Q2) ==
  /\ \A i, j \in 1..Len(s) : s[i] = s[j] => i = j
  /\ \A i \in 1..Len(q), j \in 1..Len(s) : q[i] # s[j]
  /\ P \subseteq 1..n /\ Q \subseteq Q2 /\ \A i \in P \cup Q : lab2[i] = lab[i]
  /\ \A i \in P2 : i \in P \/ \E k \in 1..Len(s) : i = n + k /\ lab2[i] = s[k]
  /\ \A k \in 1..Len(s) : n + k \in Q2 /\ lab2[n + k] = s[k]
LEMMA AppendFollows ==
  ASSUME NEW T, NEW q \in Seq(T), NEW s \in Seq(T), NEW r, r = q \o s, NEW n \in Nat,
         NEW lab, NEW P, NEW Q, NEW lab2, NEW P2, NEW Q2,
         Follow(q, lab, P, Q), Behind(q, s, lab, P, Q, n, lab2, P2, Q2)
  PROVE  Follow(r, lab2, P2, Q2)
<1>0. /\ \A i, j \in 1..Len(s) : s[i] = s[j] => i = j
      /\ \A i \in 1..Len(q), j \in 1..Len(s) : q[i] # s[j]
      /\ P \subseteq 1..n /\ Q \subseteq Q2 /\ \A i \in P \cup Q : lab2[i] = lab[i]
      /\ \A i \in P2 : i \in P \/ \E k \in 1..Len(s) : i = n + k /\ lab2[i] = s[k]
      /\ \A k \in 1..Len(s) : n + k \in Q2 /\ lab2[n + k] = s[k]
  BY DEF Behind
<1>1. Chained(r, q, s, T)
  BY Chains
<1>2. Follow(q, lab2, P2, Q2)
  <2>1. ASSUME NEW i \in P2, i \notin P PROVE \A k \in 1..Len(q) : lab2[i] # q[k]
    <3>1. PICK j \in 1..Len(s) : lab2[i] = s[j]
      BY <1>0, <2>1
    <3>. QED BY <1>0, <3>1
  <2>2. Beside(q, lab, P, Q, lab2, P2, Q2)
    BY <1>0, <2>1 DEF Beside
  <2>. QED BY <2>2, MoreFollow
<1>. SUFFICES ASSUME NEW k \in 1..Len(r), NEW l \in 1..Len(r), k < l, NEW i \in P2,
                     lab2[i] = r[k]
              PROVE  \E m \in Q2 : m > i /\ lab2[m] = r[l]
  BY DEF Follow
<1>3. PICK a \in Nat : a = Len(q)
  OBVIOUS
<1>4. CASE l \in 1..a /\ r[l] = q[l]
  <2>1. k \in 1..a /\ ~(k > a)
    BY <1>4
  <2>2. r[k] = q[k]
    BY <1>1, <1>3, <2>1 DEF Chained
  <2>3. \A x, y \in 1..Len(q) : x < y /\ lab2[i] = q[x] => \E m \in Q2 : m > i /\ lab2[m] = q[y]
    BY <1>2 DEF Follow
  <2>. QED BY <1>3, <1>4, <2>1, <2>2, <2>3
<1>5. CASE l > a /\ l - a \in 1..Len(s) /\ r[l] = s[l - a]
  <2>1. n + (l - a) \in Q2 /\ lab2[n + (l - a)] = r[l]
    BY <1>0, <1>5
  <2>2. n + (l - a) > i
    <3>1. CASE i \in P
      BY <1>0, <1>5, <3>1
    <3>2. CASE \E b \in 1..Len(s) : i = n + b /\ lab2[i] = s[b]
      <4>1. PICK b \in 1..Len(s) : i = n + b /\ lab2[i] = s[b]
        BY <3>2
      <4>2. CASE k \in 1..a /\ r[k] = q[k]
        BY <1>0, <1>3, <4>1, <4>2
      <4>3. CASE k > a /\ k - a \in 1..Len(s) /\ r[k] = s[k - a]
        <5>1. k - a = b
          BY <1>0, <4>1, <4>3
        <5>. QED BY <1>5, <4>1, <4>3, <5>1
      <4>. QED BY <1>1, <1>3, <4>2, <4>3 DEF Chained
    <3>. QED BY <1>0, <3>1, <3>2
  <2>. QED BY <2>1, <2>2
<1>. QED BY <1>1, <1>3, <1>4, <1>5 DEF Chained

\* An entry that is touched when its own come behind the others.
LEMMA TouchFollows ==
  ASSUME NEW S, NEW cap \in Nat, NEW order, IsOrder(order, S, cap), NEW x \in S,
         NEW lab, NEW n \in Nat, Follow(order, lab, 1..n, 1..n),
         NEW lab2, NEW l \in Nat \ {0}, \A i \in 1..n : lab2[i] = lab[i],
         \A i \in 1..(n + l) : i \in 1..n \/ (i > n /\ lab2[i] = x)
  PROVE  Follow(Touch(order, x), lab2, 1..(n + l), 1..(n + l))
<1> DEFINE q == Touch(order, x)
<1>1. IsOrder(q, S, cap + 1) /\ Len(q) > 0 /\ q[Len(q)] = x /\ InStep(order, q, x)
  BY TouchKeepsOrder, TouchKeepsRelativeOrder
<1>. HIDE DEF q
<1>. SUFFICES ASSUME NEW a \in 1..Len(q), NEW b \in 1..Len(q), a < b, NEW i \in 1..(n + l),
                     lab2[i] = q[a]
              PROVE  \E m \in 1..(n + l) : m > i /\ lab2[m] = q[b]
  BY DEF Follow, q
<1>2. Len(q) \in Nat /\ \A j, k \in 1..Len(q) : q[j] = q[k] => j = k
  BY <1>1 DEF IsOrder
<1>3. q[a] # x
  BY <1>1, <1>2
<1>4. i \in 1..n /\ lab[i] = q[a]
  BY <1>3
<1>5. CASE q[b] = x
  <2>1. n + l \in 1..(n + l) /\ n + l > i /\ n + l \notin 1..n
    BY <1>4
  <2>. QED BY <1>5, <2>1
<1>6. CASE q[b] # x
  <2>1. PICK c, d \in 1..Len(order) : c < d /\ order[c] = q[a] /\ order[d] = q[b]
    BY <1>1, <1>6 DEF InStep
  <2>2. PICK m \in 1..n : m > i /\ lab[m] = order[d]
    BY <1>4, <2>1 DEF Follow
  <2>3. m \in 1..(n + l)
    OBVIOUS
  <2>. QED BY <2>1, <2>2, <2>3
<1>. QED BY <1>5, <1>6

(* A ledger of what was shown to whom: L.who[i] was shown L.what[i], the n-th being
   the last; L.live are those it still answers for, L.order and L.table what it holds. *)
Labelled(lab, Q) == {lab[m] : m \in Q}
Of(L, s) == {i \in 1..L.n : L.who[i] = s}
Since(L, i, j) == {k \in (i + 1)..(j - 1) : L.who[k] = L.who[i]}
Pushed(L, i, j, capS, capH) ==
  \/ Cardinality(Labelled(L.what, Since(L, i, j))) >= capH
  \/ \E a, b \in i..j : /\ \A m \in (a + 1)..(b - 1) : L.who[m] # L.who[i]
                        /\ Cardinality(Labelled(L.who, (a + 1)..(b - 1))) >= capS
Held(L, S, H, capS, capH) ==
  /\ L.n \in Nat /\ L.live \subseteq 1..L.n
  /\ \A i \in 1..L.n : L.who[i] \in S /\ L.what[i] \in H
  /\ IsOrder(L.order, S, capS)
  /\ \A s \in S : IsOrder(L.table[s], H, capH) /\ (L.table[s] # <<>> <=> s \in Range(L.order))
Followed(L, S) ==
  /\ Follow(L.order, L.who, 1..L.n, 1..L.n)
  /\ \A s \in S : Follow(L.table[s], L.what, Of(L, s), Of(L, s))
Shown(L, S) ==
  \A s \in S : \A h \in Range(L.table[s]) : \E i \in L.live : L.who[i] = s /\ L.what[i] = h
Known(L, capS, capH) ==
  \A i \in L.live : \/ L.what[i] \in Range(L.table[L.who[i]])
                    \/ Pushed(L, i, L.n + 1, capS, capH)
Ledger(L, S, H, capS, capH) ==
  Held(L, S, H, capS, capH) /\ Followed(L, S) /\ Shown(L, S) /\ Known(L, capS, capH)

\* M is the ledger L when s has been shown new.
Grown(L, M, s, new) ==
  /\ M.n = L.n + Len(new)
  /\ \A i \in 1..L.n : M.who[i] = L.who[i] /\ M.what[i] = L.what[i]
  /\ \A k \in 1..Len(new) : M.who[L.n + k] = s /\ M.what[L.n + k] = new[k]
Gives(L, M, s, new, S, capS, capH) ==
  /\ Grown(L, M, s, new)
  /\ new # <<>> /\ \A i, j \in 1..Len(new) : new[i] = new[j] => i = j
  /\ Range(new) \cap Range(L.table[s]) = {}
  /\ M.live = L.live \cup (L.n + 1)..M.n
  /\ M.order = Newest(Touch(L.order, s), capS)
  /\ M.table = [x \in S |-> IF x \in Oldest(Touch(L.order, s), capS) THEN <<>>
                            ELSE IF x = s THEN Newest(L.table[s] \o new, capH)
                            ELSE L.table[x]]

\* What is labelled is finite.
LEMMA Labels ==
  ASSUME NEW n \in Nat, NEW Q \in SUBSET (1..n), NEW lab
  PROVE  IsFiniteSet(Labelled(lab, Q))
<1> DEFINE f == [m \in Q |-> lab[m]]
<1>1. f \in Surjection(Q, Labelled(lab, Q))
  BY DEF Surjection, Labelled
<1>2. IsFiniteSet(Q)
  <2>1. IsFiniteSet(1..n)
    BY FS_Interval
  <2>. QED BY <2>1, FS_Subset
<1>. QED BY <1>1, <1>2, FS_Surjection

\* What has been pushed out stays so.
Extends(M, L) ==
  /\ L.n \in Nat /\ M.n \in Nat /\ L.n <= M.n
  /\ \A i \in 1..L.n : M.who[i] = L.who[i] /\ M.what[i] = L.what[i]
LEMMA PushedStays ==
  ASSUME NEW L, NEW M, Extends(M, L),
         NEW capS \in Nat, NEW capH \in Nat, NEW i \in 1..L.n, NEW j \in 1..(L.n + 1), i < j,
         NEW k \in 1..(M.n + 1), j <= k,
         Pushed(L, i, j, capS, capH)
  PROVE  Pushed(M, i, k, capS, capH)
<1>0. /\ L.n \in Nat /\ M.n \in Nat /\ L.n <= M.n
      /\ \A x \in 1..L.n : M.who[x] = L.who[x] /\ M.what[x] = L.what[x]
  BY DEF Extends
<1>1. CASE Cardinality(Labelled(L.what, Since(L, i, j))) >= capH
  <2>0. /\ \A m \in Since(L, i, j) : m \in 1..L.n /\ m \in Since(M, i, k)
        /\ Since(M, i, k) \in SUBSET (1..M.n)
    BY <1>0 DEF Since
  <2>1. PICK A, B : A = Labelled(L.what, Since(L, i, j)) /\ B = Labelled(M.what, Since(M, i, k))
    OBVIOUS
  <2>2. A \subseteq B
    BY <1>0, <2>0, <2>1 DEF Labelled
  <2>3. IsFiniteSet(B)
    BY <1>0, <2>0, <2>1, Labels
  <2>4. Cardinality(A) <= Cardinality(B) /\ IsFiniteSet(A)
    BY <2>2, <2>3, FS_Subset
  <2>5. Cardinality(A) \in Nat /\ Cardinality(B) \in Nat
    BY <2>3, <2>4, FS_CardinalityType
  <2>6. Cardinality(A) >= capH
    BY <1>1, <2>1
  <2>7. Cardinality(B) >= capH
    BY <2>4, <2>5, <2>6
  <2>. QED BY <2>1, <2>7 DEF Pushed
<1>2. CASE \E a, b \in i..j : /\ \A m \in (a + 1)..(b - 1) : L.who[m] # L.who[i]
                              /\ Cardinality(Labelled(L.who, (a + 1)..(b - 1))) >= capS
  <2>1. PICK a \in i..j, b \in i..j :
               /\ \A m \in (a + 1)..(b - 1) : L.who[m] # L.who[i]
               /\ Cardinality(Labelled(L.who, (a + 1)..(b - 1))) >= capS
    BY <1>2
  <2>2. a \in i..k /\ b \in i..k /\ \A m \in (a + 1)..(b - 1) : m \in 1..L.n
    BY <1>0
  <2>3. Labelled(M.who, (a + 1)..(b - 1)) = Labelled(L.who, (a + 1)..(b - 1))
    BY <1>0, <2>2 DEF Labelled
  <2>4. \A m \in (a + 1)..(b - 1) : M.who[m] # M.who[i]
    BY <1>0, <2>1, <2>2
  <2>. QED BY <2>1, <2>2, <2>3, <2>4 DEF Pushed
<1>. QED BY <1>1, <1>2 DEF Pushed

\* The order of those who are shown something.
OrderGrown(L, M, s, S, capS) ==
  LET lost == Oldest(Touch(L.order, s), capS)
  IN /\ M.n \in Nat /\ L.n < M.n /\ IsOrder(M.order, S, capS)
     /\ Follow(Touch(L.order, s), M.who, 1..M.n, 1..M.n)
     /\ Follow(M.order, M.who, 1..M.n, 1..M.n)
     /\ s \in Range(M.order) /\ s \notin lost /\ lost \subseteq Range(L.order)
     /\ Range(M.order) = (Range(L.order) \cup {s}) \ lost
LEMMA OrderGrows ==
  ASSUME NEW S, NEW H, NEW capS \in Nat \ {0}, NEW capH \in Nat \ {0}, NEW L, NEW M,
         Ledger(L, S, H, capS, capH), NEW s \in S, NEW new \in Seq(H),
         Gives(L, M, s, new, S, capS, capH)
  PROVE  OrderGrown(L, M, s, S, capS)
<1> DEFINE q == Touch(L.order, s)
           lost == Oldest(q, capS)
<1>1. IsOrder(L.order, S, capS) /\ L.n \in Nat /\ Follow(L.order, L.who, 1..L.n, 1..L.n)
  BY DEF Ledger, Held, Followed
<1>2. /\ M.n = L.n + Len(new) /\ new # <<>> /\ M.order = Newest(q, capS)
      /\ \A i \in 1..L.n : M.who[i] = L.who[i]
      /\ \A k \in 1..Len(new) : M.who[L.n + k] = s
  BY DEF Gives, Grown
<1>3. Len(new) \in Nat \ {0} /\ M.n \in Nat /\ L.n < M.n
  BY <1>1, <1>2
<1>4. /\ IsOrder(M.order, S, capS) /\ s \in Range(M.order)
      /\ lost \subseteq Range(L.order) \ {s}
      /\ Range(M.order) = (Range(L.order) \cup {s}) \ lost
  <2>1. PICK order : order = L.order
    OBVIOUS
  <2>2. OneUse(Newest(Touch(order, s), capS), Oldest(Touch(order, s), capS), order, s, S, capS)
    BY <1>1, <2>1, Uses
  <2>. QED BY <1>2, <2>1, <2>2 DEF OneUse
<1>5. Follow(q, M.who, 1..M.n, 1..M.n)
  <2>1. ASSUME NEW i \in 1..(L.n + Len(new)) PROVE i \in 1..L.n \/ (i > L.n /\ M.who[i] = s)
    <3>1. CASE i > L.n
      <4>1. i - L.n \in 1..Len(new) /\ L.n + (i - L.n) = i
        BY <1>1, <1>3, <3>1
      <4>. QED BY <1>2, <3>1, <4>1
    <3>. QED BY <1>1, <3>1
  <2>2. PICK n \in Nat, l \in Nat \ {0} : n = L.n /\ l = Len(new)
    BY <1>1, <1>3
  <2>3. PICK order, lab, lab2 : order = L.order /\ lab = L.who /\ lab2 = M.who
    OBVIOUS
  <2>4. IsOrder(order, S, capS) /\ Follow(order, lab, 1..n, 1..n) /\ \A i \in 1..n : lab2[i] = lab[i]
    BY <1>1, <1>2, <2>2, <2>3
  <2>5. \A i \in 1..(n + l) : i \in 1..n \/ (i > n /\ lab2[i] = s)
    BY <2>1, <2>2, <2>3
  <2>6. Follow(Touch(order, s), lab2, 1..(n + l), 1..(n + l))
    BY <2>4, <2>5, TouchFollows
  <2>. QED BY <1>2, <2>2, <2>3, <2>6
<1>6. Follow(M.order, M.who, 1..M.n, 1..M.n)
  <2>1. q \in Seq(S)
    BY <1>1, TouchKeepsOrder DEF IsOrder
  <2>. HIDE DEF q
  <2>. QED BY <1>2, <1>5, <2>1, NewestFollows
<1>. QED BY <1>3, <1>4, <1>5, <1>6 DEF OrderGrown

\* What the ledger holds of s when it has been shown new.
HitsGrown(q, r, M, s, old, new, H, capH) ==
  /\ q \in Seq(H) /\ \A i, j \in 1..Len(q) : q[i] = q[j] => i = j
  /\ Range(q) = Range(old) \cup Range(new)
  /\ Follow(q, M.what, Of(M, s), Of(M, s)) /\ Follow(r, M.what, Of(M, s), Of(M, s))
  /\ IsOrder(r, H, capH) /\ r # <<>> /\ Range(r) \subseteq Range(q)
LEMMA HitsGrow ==
  ASSUME NEW S, NEW H, NEW capS \in Nat \ {0}, NEW capH \in Nat \ {0}, NEW L, NEW M,
         Ledger(L, S, H, capS, capH), NEW s \in S, NEW new \in Seq(H),
         Gives(L, M, s, new, S, capS, capH),
         NEW q, q = L.table[s] \o new, NEW r, r = Newest(q, capH)
  PROVE  HitsGrown(q, r, M, s, L.table[s], new, H, capH)
<1> DEFINE t == L.table[s]
<1>1. /\ t \in Seq(H) /\ Len(t) \in Nat /\ \A i, j \in 1..Len(t) : t[i] = t[j] => i = j
      /\ L.n \in Nat /\ Follow(t, L.what, Of(L, s), Of(L, s))
  BY DEF Ledger, Held, Followed, IsOrder
<1>2. /\ M.n = L.n + Len(new) /\ Len(new) \in Nat \ {0}
      /\ \A i \in 1..L.n : M.who[i] = L.who[i] /\ M.what[i] = L.what[i]
      /\ \A k \in 1..Len(new) : M.who[L.n + k] = s /\ M.what[L.n + k] = new[k]
      /\ \A i, j \in 1..Len(new) : new[i] = new[j] => i = j
      /\ Range(new) \cap Range(t) = {}
  BY DEF Gives, Grown
<1>. HIDE DEF t
<1>0. DOMAIN t = 1..Len(t) /\ DOMAIN new = 1..Len(new)
  BY <1>1
<1>3. q = t \o new
  BY DEF t
<1>4. Chained(q, t, new, H)
  BY <1>1, <1>3, Chains
<1>5. \A i \in 1..Len(t), j \in 1..Len(new) : t[i] # new[j]
  <2>. SUFFICES ASSUME NEW i \in 1..Len(t), NEW j \in 1..Len(new) PROVE t[i] # new[j]
    OBVIOUS
  <2>1. t[i] \in Range(t) /\ new[j] \in Range(new)
    BY <1>0 DEF Range
  <2>. QED BY <1>2, <2>1
<1>6. \A i, j \in 1..Len(q) : q[i] = q[j] => i = j
  <2>. SUFFICES ASSUME NEW i \in 1..Len(q), NEW j \in 1..Len(q), q[i] = q[j] PROVE i = j
    OBVIOUS
  <2>1. PICK a \in Nat : a = Len(t)
    BY <1>1
  <2>2. /\ (i \in 1..a /\ q[i] = t[i]) \/ (i > a /\ i - a \in 1..Len(new) /\ q[i] = new[i - a])
        /\ (j \in 1..a /\ q[j] = t[j]) \/ (j > a /\ j - a \in 1..Len(new) /\ q[j] = new[j - a])
    BY <1>4, <2>1 DEF Chained
  <2>3. CASE i > a /\ j > a
    <3>1. i \notin 1..a /\ j \notin 1..a
      BY <2>3
    <3>2. /\ i - a \in 1..Len(new) /\ j - a \in 1..Len(new)
          /\ new[i - a] = new[j - a]
      BY <2>2, <3>1
    <3>3. i - a = j - a
      BY <1>2, <3>2
    <3>. QED BY <2>3, <3>3
  <2>. QED BY <1>1, <1>5, <2>1, <2>2, <2>3
<1>7. Range(q) = Range(t) \cup Range(new)
  <2>1. ASSUME NEW x \in Range(q) PROVE x \in Range(t) \cup Range(new)
    <3>1. PICK i \in 1..Len(q) : q[i] = x
      BY <1>4 DEF Range, Chained
    <3>2. CASE i \in 1..Len(t) /\ q[i] = t[i]
      BY <1>0, <3>1, <3>2 DEF Range
    <3>3. CASE i - Len(t) \in 1..Len(new) /\ q[i] = new[i - Len(t)]
      BY <1>0, <3>1, <3>3 DEF Range
    <3>. QED BY <1>4, <3>1, <3>2, <3>3 DEF Chained
  <2>2. ASSUME NEW x \in Range(t) PROVE x \in Range(q)
    <3>1. PICK i \in 1..Len(t) : t[i] = x
      BY <1>1 DEF Range
    <3>2. i \in 1..Len(q) /\ ~(i > Len(t))
      BY <1>1, <1>2, <1>4 DEF Chained
    <3>3. q[i] = x
      BY <1>4, <3>1, <3>2 DEF Chained
    <3>4. i \in DOMAIN q
      BY <1>4, <3>2 DEF Chained
    <3>. QED BY <3>3, <3>4 DEF Range
  <2>3. ASSUME NEW x \in Range(new) PROVE x \in Range(q)
    <3>0. DOMAIN new = 1..Len(new)
      OBVIOUS
    <3>1. PICK i \in 1..Len(new) : new[i] = x
      BY <3>0 DEF Range
    <3>2. Len(t) + i \in 1..Len(q) /\ Len(t) + i \notin 1..Len(t) /\ (Len(t) + i) - Len(t) = i
      BY <1>1, <1>2, <1>4 DEF Chained
    <3>3. q[Len(t) + i] = x
      BY <1>4, <3>1, <3>2 DEF Chained
    <3>4. Len(t) + i \in DOMAIN q
      BY <1>4, <3>2 DEF Chained
    <3>. QED BY <3>3, <3>4 DEF Range
  <2>. QED BY <2>1, <2>2, <2>3
<1>8. Follow(q, M.what, Of(M, s), Of(M, s))
  <2> DEFINE P == Of(L, s)
             P2 == Of(M, s)
  <2>1. /\ P \subseteq 1..L.n /\ P \subseteq P2
        /\ \A i \in P \cup P : M.what[i] = L.what[i]
    BY <1>1, <1>2 DEF Of
  <2>2. ASSUME NEW i \in P2
        PROVE  i \in P \/ \E k \in 1..Len(new) : i = L.n + k /\ M.what[i] = new[k]
    <3>1. i \in 1..M.n /\ M.who[i] = s
      BY DEF Of
    <3>2. CASE i > L.n
      <4>1. i - L.n \in 1..Len(new) /\ L.n + (i - L.n) = i
        BY <1>1, <1>2, <3>1, <3>2
      <4>2. PICK k \in 1..Len(new) : L.n + k = i
        BY <4>1
      <4>3. M.what[i] = new[k]
        BY <1>2, <4>2
      <4>. QED BY <4>2, <4>3
    <3>3. CASE ~(i > L.n)
      <4>1. i \in 1..L.n
        BY <1>1, <3>1, <3>3
      <4>. QED BY <1>2, <3>1, <4>1 DEF Of
    <3>. QED BY <3>2, <3>3
  <2>3. \A k \in 1..Len(new) : L.n + k \in P2 /\ M.what[L.n + k] = new[k]
    <3>1. \A k \in 1..Len(new) : L.n + k \in 1..M.n
      BY <1>1, <1>2
    <3>. QED BY <1>2, <3>1 DEF Of
  <2>4. Follow(t, L.what, P, P)
    BY <1>1
  <2>. HIDE DEF P, P2
  <2>5. Behind(t, new, L.what, P, P, L.n, M.what, P2, P2)
    <3>1. /\ \A i, j \in 1..Len(new) : new[i] = new[j] => i = j
          /\ \A i \in 1..Len(t), j \in 1..Len(new) : t[i] # new[j]
      BY <1>2, <1>5
    <3>. QED BY <2>1, <2>2, <2>3, <3>1 DEF Behind
  <2>6. Follow(q, M.what, P2, P2)
    <3>1. PICK lab, lab2, n : lab = L.what /\ lab2 = M.what /\ n = L.n
      OBVIOUS
    <3>2. n \in Nat /\ Follow(t, lab, P, P) /\ Behind(t, new, lab, P, P, n, lab2, P2, P2)
      BY <1>1, <2>4, <2>5, <3>1
    <3>3. t \in Seq(H) /\ new \in Seq(H) /\ q = t \o new
      BY <1>1, <1>3
    <3>4. Follow(q, lab2, P2, P2)
      BY <3>2, <3>3, AppendFollows
    <3>. QED BY <3>1, <3>4
  <2>. QED BY <2>6 DEF P2
<1>9. q \in Seq(H) /\ Len(q) \in Nat /\ Len(q) > 0
  BY <1>1, <1>2, <1>4 DEF Chained
<1>10. IsOrder(q, H, Len(q))
  BY <1>6, <1>9 DEF IsOrder
<1>11. IsOrder(r, H, capH) /\ q[Len(q)] \in Range(r) /\ Range(r) \subseteq Range(q)
  <2>1. PICK l \in Nat : l = Len(q)
    BY <1>9
  <2>2. IsOrder(q, H, l) /\ Len(q) > 0
    BY <1>9, <1>10, <2>1
  <2>3. LET after == Newest(q, capH)
        IN IsOrder(after, H, capH) /\ q[Len(q)] \in Range(after) /\ Range(after) \subseteq Range(q)
    BY <2>2, NewestKeepsOrder
  <2>. QED BY <2>3
<1>12. r # <<>>
  <2>1. Range(<<>>) = {}
    BY DEF Range
  <2>. QED BY <1>11, <2>1
<1>13. Follow(r, M.what, Of(M, s), Of(M, s))
  <2>1. PICK lab, P : lab = M.what /\ P = Of(M, s)
    OBVIOUS
  <2>2. Follow(q, lab, P, P)
    BY <1>8, <2>1
  <2>3. Follow(r, lab, P, P)
    BY <1>9, <2>2, NewestFollows
  <2>. QED BY <2>1, <2>3
<1>14. Range(q) = Range(L.table[s]) \cup Range(new)
  BY <1>7 DEF t
<1>. QED BY <1>6, <1>8, <1>9, <1>11, <1>12, <1>13, <1>14 DEF HitsGrown

\* A hit that was shown is held, or pushed out by what was shown since.
LEMMA HitKnown ==
  ASSUME NEW S, NEW H, NEW capS \in Nat \ {0}, NEW capH \in Nat \ {0}, NEW L, NEW M,
         Ledger(L, S, H, capS, capH), NEW s \in S, NEW new \in Seq(H),
         Gives(L, M, s, new, S, capS, capH), M.n \in Nat,
         NEW i \in 1..M.n, M.who[i] = s, M.what[i] \in Range(L.table[s]) \cup Range(new),
         NEW q, q = L.table[s] \o new, NEW r, r = Newest(q, capH), M.what[i] \notin Range(r)
  PROVE  Pushed(M, i, M.n + 1, capS, capH)
<1>2. HitsGrown(q, r, M, s, L.table[s], new, H, capH)
  BY HitsGrow
<1> DEFINE Q == Since(M, i, M.n + 1)
<1>3. Q \in SUBSET (1..M.n) /\ \A m \in Of(M, s) : m > i => m \in Q
  BY DEF Of, Since
<1>6. i \in Of(M, s)
  BY DEF Of
<1>. HIDE DEF Q
<1>4. PICK B : B = Labelled(M.what, Q)
  OBVIOUS
<1>5. IsFiniteSet(B)
  BY <1>3, <1>4, Labels
<1>7. \A m \in Of(M, s) : m > i => M.what[m] \in B
  BY <1>3, <1>4 DEF Labelled
<1>8. Cardinality(B) >= capH
  <2>1. Crowded(q, capH, M.what, Of(M, s), Of(M, s), i, B) /\ q \in Seq(H)
    BY <1>2, <1>5, <1>6, <1>7 DEF HitsGrown, Crowded, Distinct, Covers
  <2>. QED BY <2>1, Pushes
<1>9. Cardinality(Labelled(M.what, Q)) >= capH
  BY <1>4, <1>8
<1>. QED BY <1>9 DEF Pushed, Q

\* One that is pushed out with the rest of its own was followed by as many others.
LEMMA OwnerPushed ==
  ASSUME NEW S, NEW H, NEW capS \in Nat \ {0}, NEW capH \in Nat \ {0}, NEW L, NEW M,
         Ledger(L, S, H, capS, capH), NEW s \in S, NEW new \in Seq(H),
         Gives(L, M, s, new, S, capS, capH), M.n \in Nat,
         NEW i \in 1..M.n, M.who[i] \in Oldest(Touch(L.order, s), capS)
  PROVE  Pushed(M, i, M.n + 1, capS, capH)
<1>1. PICK q, x, n, w : q = Touch(L.order, s) /\ x = M.who[i] /\ n = M.n /\ w = M.who
  OBVIOUS
<1>2. /\ q \in Seq(S) /\ Distinct(q)
      /\ Follow(q, w, 1..n, 1..n) /\ n \in Nat /\ i \in 1..n
  <2>1. IsOrder(L.order, S, capS)
    BY DEF Ledger, Held
  <2>2. IsOrder(q, S, capS + 1)
    BY <1>1, <2>1, TouchKeepsOrder
  <2>3. OrderGrown(L, M, s, S, capS)
    BY OrderGrows
  <2>. QED BY <1>1, <2>2, <2>3 DEF IsOrder, OrderGrown, Distinct
<1>3. x \in Range(q) /\ x \notin Range(Newest(q, capS))
  BY <1>1 DEF Oldest
<1>4. PICK a \in 1..n : a >= i /\ w[a] = x /\ \A k \in 1..n : w[k] = x => k <= a
  <2> DEFINE A == {k \in 1..n : w[k] = x}
  <2>1. A \in SUBSET (1..n) /\ A # {}
    BY <1>1, <1>2
  <2>2. PICK m \in A : \A k \in A : k <= m
    BY <1>2, <2>1, GreatestNumber
  <2>. QED BY <1>1, <1>2, <2>2
<1> DEFINE B == Labelled(w, (a + 1)..(n + 1 - 1))
<1>5. IsFiniteSet(B)
  <2>1. (a + 1)..(n + 1 - 1) \in SUBSET (1..n)
    BY <1>2
  <2>. QED BY <1>2, <2>1, Labels
<1>6. \A m \in 1..n : m > a => w[m] \in B
  BY <1>2 DEF Labelled
<1>7. Cardinality(B) >= capS
  <2>. HIDE DEF B
  <2>1. Crowded(q, capS, w, 1..n, 1..n, a, B)
    BY <1>2, <1>3, <1>4, <1>5, <1>6 DEF Crowded, Covers
  <2>. QED BY <1>2, <2>1, Pushes
<1>8. a \in i..(n + 1) /\ n + 1 \in i..(n + 1)
      /\ \A m \in (a + 1)..(n + 1 - 1) : w[m] # x
  <2>1. \A m \in (a + 1)..(n + 1 - 1) : m \in 1..n /\ ~(m <= a)
    BY <1>2
  <2>. QED BY <1>2, <1>4, <2>1
<1>. QED BY <1>1, <1>7, <1>8 DEF Pushed

LEMMA LedgerGrows ==
  ASSUME NEW S, NEW H, NEW capS \in Nat \ {0}, NEW capH \in Nat \ {0}, NEW L, NEW M,
         Ledger(L, S, H, capS, capH), NEW s \in S, NEW new \in Seq(H),
         Gives(L, M, s, new, S, capS, capH)
  PROVE  Ledger(M, S, H, capS, capH)
<1> DEFINE lost == Oldest(Touch(L.order, s), capS)
<1>1. /\ M.n \in Nat /\ L.n < M.n /\ IsOrder(M.order, S, capS)
      /\ Follow(M.order, M.who, 1..M.n, 1..M.n)
      /\ s \in Range(M.order) /\ s \notin lost
      /\ Range(M.order) = (Range(L.order) \cup {s}) \ lost
  <2>1. OrderGrown(L, M, s, S, capS)
    BY OrderGrows
  <2>. QED BY <2>1 DEF OrderGrown
<1>2. PICK q, r : q = L.table[s] \o new /\ r = Newest(q, capH)
  OBVIOUS
<1>3. /\ Range(q) = Range(L.table[s]) \cup Range(new)
      /\ IsOrder(r, H, capH) /\ r # <<>>
      /\ Range(r) \subseteq Range(q)
      /\ Follow(r, M.what, Of(M, s), Of(M, s))
  <2>1. HitsGrown(q, r, M, s, L.table[s], new, H, capH)
    BY <1>2, HitsGrow
  <2>. QED BY <2>1 DEF HitsGrown
<1>4. /\ L.n \in Nat /\ L.live \subseteq 1..L.n
      /\ \A i \in 1..L.n : L.who[i] \in S /\ L.what[i] \in H
      /\ \A x \in S : IsOrder(L.table[x], H, capH) /\ (L.table[x] # <<>> <=> x \in Range(L.order))
      /\ \A x \in S : Follow(L.table[x], L.what, Of(L, x), Of(L, x))
      /\ \A x \in S : \A h \in Range(L.table[x]) :
           \E i \in L.live : L.who[i] = x /\ L.what[i] = h
      /\ \A i \in L.live : \/ L.what[i] \in Range(L.table[L.who[i]])
                           \/ Pushed(L, i, L.n + 1, capS, capH)
  BY DEF Ledger, Held, Followed, Shown, Known
<1>5. /\ M.n = L.n + Len(new) /\ Len(new) \in Nat \ {0}
      /\ \A i \in 1..L.n : M.who[i] = L.who[i] /\ M.what[i] = L.what[i]
      /\ \A k \in 1..Len(new) : M.who[L.n + k] = s /\ M.what[L.n + k] = new[k]
      /\ M.live = L.live \cup (L.n + 1)..M.n
  BY DEF Gives, Grown
<1>6. /\ M.table[s] = r
      /\ \A x \in S \ {s} : M.table[x] = IF x \in lost THEN <<>> ELSE L.table[x]
  BY <1>1, <1>2 DEF Gives
<1>7. ASSUME NEW i \in 1..M.n, ~(i \in 1..L.n)
      PROVE  /\ i - L.n \in 1..Len(new) /\ M.who[i] = s /\ M.what[i] = new[i - L.n]
             /\ M.what[i] \in Range(new)
  <2>1. i - L.n \in 1..Len(new) /\ L.n + (i - L.n) = i
    BY <1>1, <1>4, <1>5, <1>7
  <2>2. M.who[i] = s /\ M.what[i] = new[i - L.n]
    BY <1>5, <2>1
  <2>3. i - L.n \in DOMAIN new
    BY <2>1
  <2>. QED BY <2>1, <2>2, <2>3 DEF Range
<1>. HIDE DEF lost
<1>8. Range(<<>>) = {} /\ IsOrder(<<>>, H, capH) /\ \A lab, P, Q : Follow(<<>>, lab, P, Q)
  BY DEF Range, IsOrder, Follow
<1>9. Held(M, S, H, capS, capH)
  <2>1. M.live \subseteq 1..M.n
    BY <1>1, <1>4, <1>5
  <2>2. \A i \in 1..M.n : M.who[i] \in S /\ M.what[i] \in H
    <3>1. \A k \in 1..Len(new) : new[k] \in H
      OBVIOUS
    <3>2. ASSUME NEW i \in 1..M.n, i \in 1..L.n PROVE M.who[i] \in S /\ M.what[i] \in H
      BY <1>4, <1>5, <3>2
    <3>3. ASSUME NEW i \in 1..M.n, ~(i \in 1..L.n) PROVE M.who[i] \in S /\ M.what[i] \in H
      BY <1>7, <3>1, <3>3
    <3>. QED BY <3>2, <3>3
  <2>3. ASSUME NEW x \in S
        PROVE  IsOrder(M.table[x], H, capH) /\ (M.table[x] # <<>> <=> x \in Range(M.order))
    <3>1. CASE x = s
      BY <1>1, <1>3, <1>6, <3>1
    <3>2. CASE x # s
      BY <1>1, <1>4, <1>6, <1>8, <3>2
    <3>. QED BY <3>1, <3>2
  <2>. QED BY <1>1, <2>1, <2>2, <2>3 DEF Held
<1>10. Followed(M, S)
  <2>1. ASSUME NEW x \in S, x # s, x \notin lost
        PROVE  Follow(M.table[x], M.what, Of(M, x), Of(M, x))
    <3>1. Of(M, x) = Of(L, x)
      <4>1. ASSUME NEW i \in Of(M, x) PROVE i \in Of(L, x)
        BY <1>5, <1>7, <2>1 DEF Of
      <4>2. ASSUME NEW i \in Of(L, x) PROVE i \in Of(M, x)
        BY <1>1, <1>4, <1>5 DEF Of
      <4>. QED BY <4>1, <4>2
    <3>2. PICK P : P = Of(L, x)
      OBVIOUS
    <3>3. Beside(L.table[x], L.what, P, P, M.what, P, P)
      BY <1>5, <3>2 DEF Beside, Of
    <3>4. Follow(L.table[x], M.what, P, P)
      BY <1>4, <3>2, <3>3, MoreFollow
    <3>. QED BY <1>6, <2>1, <3>1, <3>2, <3>4
  <2>2. ASSUME NEW x \in S PROVE Follow(M.table[x], M.what, Of(M, x), Of(M, x))
    <3>1. CASE x = s
      BY <1>3, <1>6, <3>1
    <3>2. CASE x # s /\ x \in lost
      BY <1>6, <1>8, <3>2
    <3>. QED BY <2>1, <3>1, <3>2
  <2>. QED BY <1>1, <2>2 DEF Followed
<1>11. Shown(M, S)
  <2>. SUFFICES ASSUME NEW x \in S, NEW h \in Range(M.table[x])
                PROVE  \E i \in M.live : M.who[i] = x /\ M.what[i] = h
    BY DEF Shown
  <2>1. CASE h \in Range(L.table[x])
    <3>1. PICK i \in L.live : L.who[i] = x /\ L.what[i] = h
      BY <1>4, <2>1
    <3>. QED BY <1>4, <1>5, <3>1
  <2>2. CASE x = s /\ h \in Range(new)
    <3>1. PICK k \in 1..Len(new) : new[k] = h
      BY <2>2 DEF Range
    <3>2. L.n + k \in (L.n + 1)..M.n
      BY <1>4, <1>5
    <3>. QED BY <1>5, <2>2, <3>1, <3>2
  <2>3. CASE x = s
    BY <1>3, <1>6, <2>1, <2>2, <2>3
  <2>4. CASE x # s
    BY <1>6, <1>8, <2>1, <2>4
  <2>. QED BY <2>3, <2>4
<1>12. Known(M, capS, capH)
  <2>. SUFFICES ASSUME NEW i \in M.live
                PROVE  \/ M.what[i] \in Range(M.table[M.who[i]])
                       \/ Pushed(M, i, M.n + 1, capS, capH)
    BY DEF Known
  <2>0. i \in 1..M.n
    BY <1>1, <1>4, <1>5
  <2>1. CASE M.who[i] = s /\ M.what[i] \in Range(q)
    <3>1. CASE M.what[i] \in Range(r)
      BY <1>6, <2>1, <3>1
    <3>2. CASE M.what[i] \notin Range(r)
      <4>1. M.what[i] \in Range(L.table[s]) \cup Range(new)
        BY <1>3, <2>1
      <4>2. Pushed(M, i, M.n + 1, capS, capH)
        BY <1>1, <1>2, <2>0, <2>1, <3>2, <4>1, HitKnown
      <4>. QED BY <4>2
    <3>. QED BY <3>1, <3>2
  <2>2. CASE i \notin 1..L.n
    BY <1>3, <1>7, <2>0, <2>1, <2>2
  <2>3. CASE i \in 1..L.n
    <3>1. i \in L.live /\ M.who[i] = L.who[i] /\ M.what[i] = L.what[i] /\ L.who[i] \in S
      BY <1>4, <1>5, <2>3
    <3>2. CASE Pushed(L, i, L.n + 1, capS, capH)
      <4>1. /\ L.n <= M.n /\ L.n + 1 \in 1..(L.n + 1) /\ i < L.n + 1
            /\ M.n + 1 \in 1..(M.n + 1) /\ L.n + 1 <= M.n + 1
        BY <1>1, <1>4, <2>3
      <4>2. PICK j, k : j = L.n + 1 /\ k = M.n + 1
        OBVIOUS
      <4>4. Extends(M, L)
        BY <1>1, <1>4, <1>5, <4>1 DEF Extends
      <4>3. Pushed(M, i, k, capS, capH)
        BY <2>3, <3>2, <4>1, <4>2, <4>4, PushedStays
      <4>. QED BY <4>2, <4>3
    <3>3. CASE L.what[i] \in Range(L.table[L.who[i]])
      <4>1. CASE L.who[i] = s
        BY <1>3, <2>1, <3>1, <3>3, <4>1
      <4>2. CASE L.who[i] # s /\ L.who[i] \in lost
        BY <1>1, <2>0, <3>1, <4>2, OwnerPushed DEF lost
      <4>3. CASE L.who[i] # s /\ L.who[i] \notin lost
        BY <1>6, <3>1, <3>3, <4>3
      <4>. QED BY <4>1, <4>2, <4>3
    <3>. QED BY <1>4, <3>1, <3>2, <3>3
  <2>. QED BY <2>2, <2>3
<1>. QED BY <1>9, <1>10, <1>11, <1>12 DEF Ledger

\* What is shown again has been pushed out before.
LEMMA LedgerShows ==
  ASSUME NEW S, NEW H, NEW capS \in Nat \ {0}, NEW capH \in Nat \ {0}, NEW L, NEW M,
         Ledger(L, S, H, capS, capH), NEW s \in S, NEW new \in Seq(H),
         Gives(L, M, s, new, S, capS, capH),
         NEW i \in L.live \cup (L.n + 1)..M.n, NEW j \in (L.n + 1)..M.n, i < j,
         M.who[i] = M.who[j], M.what[i] = M.what[j]
  PROVE  Pushed(M, i, j, capS, capH)
<1>1. /\ L.n \in Nat /\ L.live \subseteq 1..L.n
      /\ \A k \in L.live : \/ L.what[k] \in Range(L.table[L.who[k]])
                           \/ Pushed(L, k, L.n + 1, capS, capH)
  BY DEF Ledger, Held, Known
<1>2. /\ M.n = L.n + Len(new) /\ Len(new) \in Nat \ {0}
      /\ \A k \in 1..L.n : M.who[k] = L.who[k] /\ M.what[k] = L.what[k]
      /\ \A k \in 1..Len(new) : M.who[L.n + k] = s /\ M.what[L.n + k] = new[k]
      /\ \A k, l \in 1..Len(new) : new[k] = new[l] => k = l
      /\ Range(new) \cap Range(L.table[s]) = {}
  BY DEF Gives, Grown
<1>3. ASSUME NEW k \in (L.n + 1)..M.n
      PROVE  k - L.n \in 1..Len(new) /\ M.who[k] = s /\ M.what[k] = new[k - L.n]
  <2>1. k - L.n \in 1..Len(new) /\ L.n + (k - L.n) = k
    BY <1>1, <1>2
  <2>. QED BY <1>2, <2>1
<1>4. i \in L.live
  <2>1. ASSUME i \in (L.n + 1)..M.n PROVE FALSE
    <3>1. i - L.n = j - L.n
      BY <1>2, <1>3, <2>1
    <3>. QED BY <1>1, <1>2, <2>1, <3>1
  <2>. QED BY <2>1
<1>5. L.what[i] \notin Range(L.table[L.who[i]])
  <2>1. L.who[i] = s /\ L.what[i] = new[j - L.n] /\ j - L.n \in 1..Len(new)
    BY <1>1, <1>2, <1>3, <1>4
  <2>2. new[j - L.n] \in Range(new)
    BY <2>1 DEF Range
  <2>. QED BY <1>2, <2>1, <2>2
<1>6. Pushed(L, i, L.n + 1, capS, capH)
  BY <1>1, <1>4, <1>5
<1>7. /\ i \in 1..L.n /\ L.n <= M.n /\ M.n \in Nat /\ L.n + 1 \in 1..(L.n + 1) /\ i < L.n + 1
      /\ j \in 1..(M.n + 1) /\ L.n + 1 <= j
  BY <1>1, <1>2, <1>4
<1>8. PICK k : k = L.n + 1
  OBVIOUS
<1>9. Extends(M, L)
  BY <1>1, <1>2, <1>7 DEF Extends
<1>. QED BY <1>6, <1>7, <1>8, <1>9, PushedStays
\* What is shown again has been pushed out before, for everything that was shown.
Kept(L, M, i, j, capS, capH) ==
  /\ i < j /\ M.who[i] = M.who[j] /\ M.what[i] = M.what[j]
  /\ j \in 1..L.n => Pushed(L, i, j, capS, capH)
  /\ j \notin 1..L.n => i \in L.live \cup (L.n + 1)..M.n
LEMMA ShowsOnce ==
  ASSUME NEW S, NEW H, NEW capS \in Nat \ {0}, NEW capH \in Nat \ {0}, NEW L, NEW M,
         Ledger(L, S, H, capS, capH), NEW s \in S, NEW new \in Seq(H),
         Gives(L, M, s, new, S, capS, capH),
         NEW i \in 1..M.n, NEW j \in 1..M.n, Kept(L, M, i, j, capS, capH)
  PROVE  Pushed(M, i, j, capS, capH)
<1>1. /\ L.n \in Nat /\ M.n = L.n + Len(new) /\ Len(new) \in Nat
      /\ \A k \in 1..L.n : M.who[k] = L.who[k] /\ M.what[k] = L.what[k]
  BY DEF Ledger, Held, Gives, Grown
<1>2. CASE j \in 1..L.n
  <2>1. Extends(M, L) /\ i \in 1..L.n /\ j \in 1..(L.n + 1) /\ i < j /\ j \in 1..(M.n + 1) /\ j <= j
        /\ Pushed(L, i, j, capS, capH)
    BY <1>1, <1>2 DEF Extends, Kept
  <2>. QED BY <2>1, PushedStays
<1>3. CASE j \notin 1..L.n
  <2>1. j \in (L.n + 1)..M.n /\ i \in L.live \cup (L.n + 1)..M.n
        /\ i < j /\ M.who[i] = M.who[j] /\ M.what[i] = M.what[j]
    BY <1>1, <1>3 DEF Kept
  <2>. QED BY <2>1, LedgerShows
<1>. QED BY <1>2, <1>3

\* A ledger begins empty.
LEMMA LedgerStarts ==
  ASSUME NEW S, NEW H, NEW capS \in Nat, NEW capH \in Nat, NEW L,
         L.n = 0, L.live = {}, L.order = <<>>, \A s \in S : L.table[s] = <<>>
  PROVE  Ledger(L, S, H, capS, capH)
<1>1. Range(<<>>) = {} /\ IsOrder(<<>>, S, capS) /\ IsOrder(<<>>, H, capH)
      /\ \A lab, P, Q : Follow(<<>>, lab, P, Q)
  BY DEF Range, IsOrder, Follow
<1>. QED BY <1>1 DEF Ledger, Held, Followed, Shown, Known

\* What is left of an order without one of its entries.
LEMMA WithoutFollows ==
  ASSUME NEW S, NEW cap \in Nat, NEW order, IsOrder(order, S, cap), NEW x \in S,
         NEW lab, NEW P, NEW Q, Follow(order, lab, P, Q)
  PROVE  Follow(Without(order, x), lab, P, Q)
<1>1. PICK p, n, m : /\ p = Place(order, x) /\ n = Len(order)
                     /\ m = IF p <= n THEN n - 1 ELSE n
  OBVIOUS
<1>2. n \in Nat /\ p \in 1..(n + 1) /\ m \in Nat
  <2>1. order \in Seq(S)
    BY DEF IsOrder
  <2>2. n \in Nat /\ p \in 1..(n + 1)
    BY <1>1, <2>1 DEF Place
  <2>. QED BY <1>1, <2>2
<1>3. Without(order, x) = [i \in 1..m |-> IF i < p THEN order[i] ELSE order[i + 1]]
  BY <1>1 DEF Without
<1>4. PICK w : w = Without(order, x)
  OBVIOUS
<1>5. Len(w) = m /\ \A i \in 1..m : w[i] = IF i < p THEN order[i] ELSE order[i + 1]
  BY <1>2, <1>3, <1>4
<1>6. ASSUME NEW i \in 1..m PROVE \E a \in 1..n : w[i] = order[a] /\ (a = i \/ a = i + 1)
                                                 /\ (i < p <=> a = i)
  <2>1. CASE i < p
    BY <1>1, <1>2, <1>5, <2>1
  <2>2. CASE ~(i < p)
    <3>1. i + 1 \in 1..n
      BY <1>1, <1>2, <2>2
    <3>. QED BY <1>2, <1>5, <2>2, <3>1
  <2>. QED BY <2>1, <2>2
<1>7. ASSUME NEW k \in 1..Len(w), NEW l \in 1..Len(w), k < l, NEW i \in P, lab[i] = w[k]
      PROVE  \E j \in Q : j > i /\ lab[j] = w[l]
  <2>1. PICK a \in 1..n : w[k] = order[a] /\ (a = k \/ a = k + 1) /\ (k < p <=> a = k)
    BY <1>5, <1>6
  <2>2. PICK b \in 1..n : w[l] = order[b] /\ (b = l \/ b = l + 1) /\ (l < p <=> b = l)
    BY <1>5, <1>6
  <2>3. a < b
    BY <1>2, <1>5, <1>7, <2>1, <2>2
  <2>. QED BY <1>1, <1>7, <2>1, <2>2, <2>3 DEF Follow
<1>. QED BY <1>4, <1>7 DEF Follow

\* A session that is forgotten may be shown everything again.
Forgets(L, M, s, S) ==
  /\ M.n = L.n /\ M.who = L.who /\ M.what = L.what
  /\ M.live = {i \in L.live : L.who[i] # s}
  /\ M.order = Without(L.order, s)
  /\ \A x \in S : M.table[x] = IF x = s THEN <<>> ELSE L.table[x]
LEMMA LedgerForgets ==
  ASSUME NEW S, NEW H, NEW capS \in Nat \ {0}, NEW capH \in Nat \ {0}, NEW L, NEW M,
         Ledger(L, S, H, capS, capH), NEW s \in S, Forgets(L, M, s, S)
  PROVE  Ledger(M, S, H, capS, capH)
<1>1. /\ M.n = L.n /\ M.who = L.who /\ M.what = L.what
      /\ M.live = {i \in L.live : L.who[i] # s}
      /\ \A x \in S : M.table[x] = IF x = s THEN <<>> ELSE L.table[x]
  BY DEF Forgets
<1>2. /\ L.n \in Nat /\ L.live \subseteq 1..L.n /\ IsOrder(L.order, S, capS)
      /\ \A i \in 1..L.n : L.who[i] \in S /\ L.what[i] \in H
      /\ \A x \in S : IsOrder(L.table[x], H, capH) /\ (L.table[x] # <<>> <=> x \in Range(L.order))
  BY DEF Ledger, Held
<1>3. /\ Range(<<>>) = {} /\ IsOrder(<<>>, H, capH)
      /\ \A lab, P, Q : Follow(<<>>, lab, P, Q)
  BY DEF Range, IsOrder, Follow
<1>4. IsOrder(M.order, S, capS) /\ Range(M.order) = Range(L.order) \ {s}
  <2>1. PICK order : order = L.order
    OBVIOUS
  <2>2. capS \in Nat /\ IsOrder(order, S, capS)
    BY <1>2, <2>1
  <2>3. /\ IsOrder(Without(order, s), S, capS)
        /\ Range(Without(order, s)) = Range(order) \ {s}
    BY <2>2, WithoutFacts
  <2>. QED BY <2>1, <2>3 DEF Forgets
<1>5. Held(M, S, H, capS, capH)
  BY <1>1, <1>2, <1>3, <1>4 DEF Held
<1>6. Followed(M, S)
  <2>1. Follow(M.order, M.who, 1..M.n, 1..M.n)
    <3>1. PICK order, w, n : order = L.order /\ w = L.who /\ n = L.n
      OBVIOUS
    <3>2. Follow(order, w, 1..n, 1..n) /\ IsOrder(order, S, capS)
      BY <1>2, <3>1 DEF Ledger, Followed
    <3>3. Follow(Without(order, s), w, 1..n, 1..n)
      BY <3>2, WithoutFollows
    <3>. QED BY <1>1, <3>1, <3>3 DEF Forgets
  <2>2. ASSUME NEW x \in S PROVE Follow(M.table[x], M.what, Of(M, x), Of(M, x))
    <3>1. Of(M, x) = Of(L, x)
      BY <1>1 DEF Of
    <3>2. Follow(L.table[x], L.what, Of(L, x), Of(L, x))
      BY DEF Ledger, Followed
    <3>3. CASE x = s
      BY <1>1, <1>3, <3>3
    <3>4. CASE x # s
      BY <1>1, <3>1, <3>2, <3>4
    <3>. QED BY <3>3, <3>4
  <2>. QED BY <2>1, <2>2 DEF Followed
<1>7. Shown(M, S)
  <2>1. \A x \in S : \A h \in Range(L.table[x]) : \E i \in L.live : L.who[i] = x /\ L.what[i] = h
    BY DEF Ledger, Shown
  <2>. QED BY <1>1, <1>3, <2>1 DEF Shown
<1>8. Known(M, capS, capH)
  <2>1. ASSUME NEW i \in M.live
        PROVE  \/ M.what[i] \in Range(M.table[M.who[i]])
               \/ Pushed(M, i, M.n + 1, capS, capH)
    <3>1. i \in L.live /\ L.who[i] # s /\ L.who[i] \in S
      BY <1>1, <1>2
    <3>2. L.what[i] \in Range(L.table[L.who[i]]) \/ Pushed(L, i, L.n + 1, capS, capH)
      BY <3>1 DEF Ledger, Known
    <3>3. Pushed(L, i, L.n + 1, capS, capH) => Pushed(M, i, M.n + 1, capS, capH)
      BY <1>1 DEF Pushed, Since
    <3>. QED BY <1>1, <3>1, <3>2, <3>3
  <2>. QED BY <2>1 DEF Known
<1>. QED BY <1>5, <1>6, <1>7, <1>8 DEF Ledger

\* The trail of what one session was given: the n positions with their labels, those
\* with an id, and those that nothing raced.
Later(T, i, j) == {m \in T.see : i < m /\ m < j}
Positions(T) == T.n \in Nat /\ T.alone \subseteq T.see /\ T.see \subseteq 1..T.n

\* A list of ids, as long as may be remembered, is that of the positions at, in order;
\* what was given alone stands there or has been pushed out.
Stands(T, ids, at) ==
  /\ at \in Seq(T.see) /\ Len(at) = Len(ids)
  /\ \A k \in 1..Len(ids) : T.lab[at[k]] = ids[k]
  /\ \A k, l \in 1..Len(ids) : k < l => at[k] < at[l]
Holds(T, at, cap) ==
  \A i \in T.alone : \/ \E k \in 1..Len(at) : at[k] = i
                     \/ Cardinality(Later(T, i, T.n + 1)) >= cap
Trail(T, ids, H, cap) ==
  /\ Positions(T) /\ ids \in Seq(H) /\ Len(ids) <= cap
  /\ \E at : Stands(T, ids, at) /\ Holds(T, at, cap)

\* U is the trail T when more has been given.
Behaved(T, U) ==
  /\ T.n <= U.n
  /\ \A i \in 1..T.n : U.lab[i] = T.lab[i] /\ (i \in U.see <=> i \in T.see)
                                          /\ (i \in U.alone <=> i \in T.alone)

\* What was given were hits, of which new goes to the end of ids; alone, none of them
\* was in ids, and all that have an id are new.
Added(T, U, hits, none, alone) ==
  /\ U.n = T.n + Len(hits)
  /\ \A k \in 1..Len(hits) : /\ U.lab[T.n + k] = hits[k]
                             /\ T.n + k \in U.see <=> hits[k] # none
                             /\ T.n + k \in U.alone <=> hits[k] # none /\ alone
  /\ \A i, j \in 1..Len(hits) : hits[i] = hits[j] => i = j \/ hits[i] = none
Fresh(ids, hits, new, none) ==
  \A c \in 1..Len(hits) : hits[c] # none =>
    /\ \A k \in 1..Len(ids) : ids[k] # hits[c]
    /\ \E b \in 1..Len(new) : new[b] = hits[c]
Walked(T, U, ids, hits, new, none, alone) ==
  /\ Positions(U) /\ Behaved(T, U) /\ Added(T, U, hits, none, alone)
  /\ \E base : IsRest(new, hits, Range(base) \cup {none})
  /\ alone => Fresh(ids, hits, new, none)

\* A position is an old one or one of the hits.
LEMMA TrailSplit ==
  ASSUME NEW T, NEW U, NEW G, NEW hits \in Seq(G), NEW none, NEW alone \in BOOLEAN, Positions(T),
         Positions(U), Added(T, U, hits, none, alone), NEW i \in 1..U.n, ~(i \in 1..T.n)
  PROVE  \E k \in 1..Len(hits) : i = T.n + k
<1>1. U.n = T.n + Len(hits) /\ T.n \in Nat /\ Len(hits) \in Nat
  BY DEF Positions, Added
<1>2. i - T.n \in 1..Len(hits) /\ i = T.n + (i - T.n)
  BY <1>1
<1>. QED BY <1>2

\* The places of the ids that are new, among the hits.
Placed(T, U, hits, new, w) ==
  /\ Stands(U, new, w)
  /\ \A b \in 1..Len(new) : \E c \in 1..Len(hits) : w[b] = T.n + c /\ hits[c] = new[b]
LEMMA TrailPlaces ==
  ASSUME NEW T, NEW U, NEW G, NEW H, NEW hits \in Seq(G), NEW new \in Seq(H), NEW none,
         NEW alone \in BOOLEAN, NEW base, Positions(T), Positions(U), Added(T, U, hits, none, alone),
         IsRest(new, hits, Range(base) \cup {none})
  PROVE  \E w : Placed(T, U, hits, new, w)
<1>1. Positions(U) /\ Added(T, U, hits, none, alone)
  OBVIOUS
<1>2. IsRest(new, hits, Range(base) \cup {none})
  OBVIOUS
<1>3. DOMAIN new = 1..Len(new) /\ DOMAIN hits = 1..Len(hits) /\ Len(new) \in Nat /\ T.n \in Nat
      /\ Len(hits) \in Nat
  BY DEF Positions
<1>4. \A b \in 1..Len(new) : new[b] # none /\ \E c \in 1..Len(hits) : hits[c] = new[b]
  <2>. SUFFICES ASSUME NEW b \in 1..Len(new)
                PROVE  new[b] # none /\ \E c \in 1..Len(hits) : hits[c] = new[b]
    OBVIOUS
  <2>1. new[b] \in Range(new)
    BY <1>3 DEF Range
  <2>2. new[b] \in Range(hits) /\ new[b] # none
    BY <1>2, <2>1 DEF IsRest
  <2>. QED BY <1>3, <2>2 DEF Range
<1>5. PICK f \in [1..Len(new) -> 1..Len(hits)] : \A b \in 1..Len(new) : hits[f[b]] = new[b]
  <2>. DEFINE g == [b \in 1..Len(new) |-> CHOOSE c \in 1..Len(hits) : hits[c] = new[b]]
  <2>1. \A b \in 1..Len(new) : g[b] \in 1..Len(hits) /\ hits[g[b]] = new[b]
    BY <1>4
  <2>. QED BY <2>1
<1>6. \A d, b \in 1..Len(new) : d < b => f[d] < f[b]
  <2>. SUFFICES ASSUME NEW d \in 1..Len(new), NEW b \in 1..Len(new), d < b PROVE f[d] < f[b]
    OBVIOUS
  <2>1. PICK k \in 1..Len(hits), l \in 1..Len(hits) : k < l /\ hits[k] = new[d] /\ hits[l] = new[b]
    BY <1>2 DEF IsRest
  <2>2. f[d] = k /\ f[b] = l
    <3>1. /\ f[d] \in 1..Len(hits) /\ hits[f[d]] = hits[k] /\ hits[f[d]] # none
          /\ f[b] \in 1..Len(hits) /\ hits[f[b]] = hits[l] /\ hits[f[b]] # none
      BY <1>4, <1>5, <2>1
    <3>. QED BY <1>1, <3>1 DEF Added
  <2>. QED BY <2>1, <2>2
<1>. DEFINE w == [b \in 1..Len(new) |-> T.n + f[b]]
<1>7. \A b \in 1..Len(new) : w[b] \in U.see /\ U.lab[w[b]] = new[b]
  <2>. SUFFICES ASSUME NEW b \in 1..Len(new) PROVE T.n + f[b] \in U.see /\ U.lab[T.n + f[b]] = new[b]
    OBVIOUS
  <2>1. f[b] \in 1..Len(hits) /\ hits[f[b]] = new[b] /\ new[b] # none
    BY <1>4, <1>5
  <2>. QED BY <1>1, <2>1 DEF Added
<1>8. w \in Seq(U.see) /\ Len(w) = Len(new)
  <2>1. PICK n \in Nat : n = Len(new)
    BY <1>3
  <2>2. PICK S, u : S = U.see /\ u = w
    OBVIOUS
  <2>3. u \in [1..n -> S]
    BY <1>7, <2>1, <2>2
  <2>4. u \in Seq(S)
    BY <2>3
  <2>5. Len(u) = n
    BY <2>3
  <2>. QED BY <2>1, <2>2, <2>4, <2>5
<1>9. \A d, b \in 1..Len(new) : d < b => w[d] < w[b]
  <2>. SUFFICES ASSUME NEW d \in 1..Len(new), NEW b \in 1..Len(new), d < b PROVE T.n + f[d] < T.n + f[b]
    OBVIOUS
  <2>1. f[d] \in 1..Len(hits) /\ f[b] \in 1..Len(hits)
    BY <1>5
  <2>2. f[d] < f[b]
    BY <1>6
  <2>. QED BY <1>3, <2>1, <2>2
<1>10. \A b \in 1..Len(new) : f[b] \in 1..Len(hits) /\ w[b] = T.n + f[b] /\ hits[f[b]] = new[b]
  BY <1>5
<1>. HIDE DEF w
<1>11. Stands(U, new, w)
  BY <1>7, <1>8, <1>9 DEF Stands
<1>. QED BY <1>10, <1>11 DEF Placed

\* The list with what is new at its end stands for the places of both.
LEMMA TrailJoins ==
  ASSUME NEW T, NEW U, NEW H, NEW ids \in Seq(H), NEW new \in Seq(H), NEW q, q = ids \o new,
         Positions(T), Positions(U), Behaved(T, U), NEW at, NEW w, Stands(T, ids, at),
         Stands(U, new, w), \A b \in 1..Len(new) : w[b] > T.n
  PROVE  \E aq : /\ Stands(U, q, aq) /\ Chained(aq, at, w, U.see)
<1>1. /\ at \in Seq(T.see) /\ Len(at) = Len(ids) /\ w \in Seq(U.see) /\ Len(w) = Len(new)
      /\ Len(ids) \in Nat /\ Len(new) \in Nat /\ T.n \in Nat /\ U.n \in Nat
  BY DEF Stands, Positions
<1>2. \A k \in 1..Len(at) : at[k] \in T.see /\ at[k] \in 1..T.n
  BY <1>1 DEF Positions
<1>3. \A k \in 1..Len(at) : at[k] \in U.see /\ U.lab[at[k]] = T.lab[at[k]]
  BY <1>2 DEF Behaved
<1>4. at \in Seq(U.see)
  <2>1. PICK n \in Nat : n = Len(at)
    BY <1>1
  <2>2. at \in [1..n -> T.see]
    BY <1>1, <2>1
  <2>3. at \in [1..n -> U.see]
    BY <1>3, <2>1, <2>2
  <2>. QED BY <2>3
<1>5. PICK aq : aq = at \o w
  OBVIOUS
<1>6. Chained(aq, at, w, U.see) /\ Chained(q, ids, new, H)
  BY <1>1, <1>4, <1>5, Chains
<1>7. Len(aq) = Len(q) /\ aq \in Seq(U.see) /\ Len(q) = Len(ids) + Len(new)
  BY <1>1, <1>6 DEF Chained
<1>8. ASSUME NEW k \in 1..Len(q)
      PROVE  \/ k \in 1..Len(ids) /\ aq[k] = at[k] /\ q[k] = ids[k]
             \/ k > Len(ids) /\ k - Len(ids) \in 1..Len(new) /\ aq[k] = w[k - Len(ids)] /\ q[k] = new[k - Len(ids)]
  BY <1>1, <1>6, <1>7 DEF Chained
<1>9. ASSUME NEW k \in 1..Len(q) PROVE U.lab[aq[k]] = q[k]
  <2>1. CASE k \in 1..Len(ids) /\ aq[k] = at[k] /\ q[k] = ids[k]
    BY <1>1, <1>3, <2>1 DEF Stands
  <2>2. CASE k > Len(ids) /\ k - Len(ids) \in 1..Len(new) /\ aq[k] = w[k - Len(ids)] /\ q[k] = new[k - Len(ids)]
    BY <2>2 DEF Stands
  <2>. QED BY <1>8, <2>1, <2>2
<1>10. ASSUME NEW k \in 1..Len(q), NEW l \in 1..Len(q), k < l PROVE aq[k] < aq[l]
  <2>1. CASE l \in 1..Len(ids) /\ aq[l] = at[l]
    <3>1. k \in 1..Len(ids) /\ aq[k] = at[k]
      BY <1>1, <1>8, <1>10, <2>1
    <3>. QED BY <1>10, <2>1, <3>1 DEF Stands
  <2>2. CASE l > Len(ids) /\ l - Len(ids) \in 1..Len(new) /\ aq[l] = w[l - Len(ids)]
    <3>1. CASE k \in 1..Len(ids) /\ aq[k] = at[k]
      <4>1. at[k] \in 1..T.n /\ w[l - Len(ids)] > T.n
        BY <1>1, <1>2, <2>2, <3>1
      <4>2. w[l - Len(ids)] \in 1..U.n
        BY <1>1, <2>2 DEF Positions
      <4>. QED BY <1>1, <2>2, <3>1, <4>1, <4>2
    <3>2. CASE k > Len(ids) /\ k - Len(ids) \in 1..Len(new) /\ aq[k] = w[k - Len(ids)]
      <4>1. k - Len(ids) < l - Len(ids)
        BY <1>1, <1>10
      <4>. QED BY <2>2, <3>2, <4>1 DEF Stands
    <3>. QED BY <1>8, <3>1, <3>2
  <2>. QED BY <1>8, <2>1, <2>2
<1>11. Stands(U, q, aq)
  BY <1>7, <1>9, <1>10 DEF Stands
<1>. QED BY <1>6, <1>11

\* Positions that are later than i, in order, are as many as they are.
LEMMA TrailCounts ==
  ASSUME NEW T, Positions(T), NEW at \in Seq(T.see), NEW i, i \in Nat, NEW cap \in Nat, Len(at) = cap,
         \A k \in 1..cap : at[k] > i,
         \A k, l \in 1..cap : k < l => at[k] < at[l]
  PROVE  Cardinality(Later(T, i, T.n + 1)) >= cap
<1>1. PICK B : B = Later(T, i, T.n + 1)
  OBVIOUS
<1>2. T.n \in Nat /\ T.see \subseteq 1..T.n
  BY DEF Positions
<1>3. IsFiniteSet(B)
  <2>1. B \subseteq 1..T.n
    BY <1>1, <1>2 DEF Later
  <2>2. IsFiniteSet(1..T.n)
    BY <1>2, FS_Interval
  <2>. QED BY <2>1, <2>2, FS_Subset
<1>4. \A k \in 1..cap : at[k] \in B /\ at[k] \in Nat
  <2>1. \A k \in 1..cap : at[k] \in T.see /\ at[k] \in 1..T.n
    BY <1>2
  <2>. QED BY <1>1, <1>2, <2>1 DEF Later
<1>5. at \in [1..cap -> B]
  BY <1>4
<1>6. at \in Injection(1..cap, B)
  <2>1. \A a, b \in 1..cap : at[a] = at[b] => a = b
    <3>. SUFFICES ASSUME NEW a \in 1..cap, NEW b \in 1..cap, a # b PROVE at[a] # at[b]
      OBVIOUS
    <3>1. a < b \/ b < a
      OBVIOUS
    <3>. QED BY <1>4, <3>1
  <2>. QED BY <1>5, <2>1 DEF Injection, IsInjective
<1>7. Cardinality(1..cap) <= Cardinality(B)
  BY <1>3, <1>6, FS_Injection
<1>8. Cardinality(1..cap) = cap
  BY FS_Interval
<1>. QED BY <1>1, <1>7, <1>8

\* What was pushed out stays so.
LEMMA TrailStaysOut ==
  ASSUME NEW T, NEW U, Positions(T), Positions(U), Behaved(T, U), NEW cap \in Nat,
         NEW i \in 1..T.n, NEW j, j \in Nat, j > T.n, j <= U.n + 1,
         Cardinality(Later(T, i, T.n + 1)) >= cap
  PROVE  Cardinality(Later(U, i, j)) >= cap
<1>0. T.n \in Nat /\ U.n \in Nat /\ T.see \subseteq 1..T.n /\ U.see \subseteq 1..U.n
  BY DEF Positions
<1>1. PICK A, B : A = Later(T, i, T.n + 1) /\ B = Later(U, i, j)
  OBVIOUS
<1>2. A \subseteq B
  BY <1>0, <1>1 DEF Later, Behaved
<1>3. IsFiniteSet(B)
  <2>1. B \subseteq 1..U.n
    BY <1>0, <1>1 DEF Later
  <2>2. IsFiniteSet(1..U.n)
    <3>1. 1 \in Int /\ U.n \in Int
      BY <1>0
    <3>. QED BY <3>1, FS_Interval, Zenon
  <2>. QED BY <2>1, <2>2, FS_Subset
<1>4. Cardinality(A) <= Cardinality(B) /\ IsFiniteSet(A)
  BY <1>2, <1>3, FS_Subset
<1>5. Cardinality(A) \in Nat /\ Cardinality(B) \in Nat
  BY <1>3, <1>4, FS_CardinalityType
<1>. QED BY <1>1, <1>4, <1>5

\* A list cut to what may be remembered still stands, and what it lost was pushed out.
LEMMA TrailCut ==
  ASSUME NEW U, NEW H, NEW cap \in Nat, NEW q \in Seq(H), NEW aq, Positions(U), Stands(U, q, aq),
         \A i \in U.alone : \/ \E k \in 1..Len(q) : aq[k] = i
                            \/ Cardinality(Later(U, i, U.n + 1)) >= cap
  PROVE  Trail(U, Newest(q, cap), H, cap)
<1>1. PICK r, ar : r = Newest(q, cap) /\ ar = Newest(aq, cap)
  OBVIOUS
<1>2. aq \in Seq(U.see) /\ Len(aq) = Len(q) /\ Len(q) \in Nat
  BY DEF Stands
<1>3. Suffix(r, q, cap, H) /\ Suffix(ar, aq, cap, U.see)
  BY <1>1, <1>2, Suffixes
<1>4. PICK d \in Nat, n \in Nat : d = Len(q) - Len(r) /\ n = Len(r)
  <2>1. Len(r) \in Nat /\ Len(q) - Len(r) \in Nat
    BY <1>2, <1>3 DEF Suffix
  <2>. QED BY <2>1
<1>5. Len(ar) = n
  <2>1. Len(ar) \in Nat
    BY <1>3 DEF Suffix
  <2>. QED BY <1>2, <1>3, <1>4, <2>1 DEF Suffix
<1>6. /\ r \in Seq(H) /\ n <= cap /\ (n = cap \/ d = 0) /\ ar \in Seq(U.see)
      /\ \A k \in 1..n : r[k] = q[d + k] /\ ar[k] = aq[d + k] /\ d + k \in 1..Len(q)
  BY <1>2, <1>3, <1>4, <1>5 DEF Suffix
<1>7. Stands(U, r, ar)
  <2>1. \A k \in 1..n : U.lab[ar[k]] = r[k]
    BY <1>6 DEF Stands
  <2>2. \A k, l \in 1..n : k < l => ar[k] < ar[l]
    <3>. SUFFICES ASSUME NEW k \in 1..n, NEW l \in 1..n, k < l PROVE ar[k] < ar[l]
      OBVIOUS
    <3>1. d + k < d + l
      OBVIOUS
    <3>. QED BY <1>6, <3>1 DEF Stands
  <2>. QED BY <1>4, <1>5, <1>6, <2>1, <2>2 DEF Stands
<1>8. ASSUME NEW i \in U.alone, \A k \in 1..n : ar[k] # i
      PROVE  Cardinality(Later(U, i, U.n + 1)) >= cap
  <2>1. CASE \E k \in 1..Len(q) : aq[k] = i
    <3>1. PICK k \in 1..Len(q) : aq[k] = i
      BY <2>1
    <3>2. k <= d
      <4>. SUFFICES ASSUME ~(k <= d) PROVE FALSE
        OBVIOUS
      <4>1. k - d \in 1..n /\ d + (k - d) = k
        BY <1>2, <1>4
      <4>. QED BY <1>6, <1>8, <3>1, <4>1
    <3>3. n = cap
      BY <1>6, <3>2
    <3>4. \A l \in 1..cap : ar[l] > i
      <4>. SUFFICES ASSUME NEW l \in 1..n PROVE ar[l] > i
        BY <3>3
      <4>1. d + l \in 1..Len(q) /\ k < d + l
        BY <1>6, <3>2
      <4>2. aq[k] < aq[d + l]
        BY <4>1 DEF Stands
      <4>3. aq[k] \in Nat /\ aq[d + l] \in Nat
        BY <1>2, <4>1 DEF Positions
      <4>. QED BY <1>6, <3>1, <4>2, <4>3
    <3>5. i \in Nat
      BY DEF Positions
    <3>6. \A a, b \in 1..cap : a < b => ar[a] < ar[b]
      BY <1>4, <1>7, <3>3 DEF Stands
    <3>. QED BY <1>5, <1>6, <3>3, <3>4, <3>5, <3>6, TrailCounts
  <2>. QED BY <2>1
<1>9. Holds(U, ar, cap)
  BY <1>5, <1>8 DEF Holds
<1>. QED BY <1>1, <1>4, <1>6, <1>7, <1>9 DEF Trail

LEMMA TrailGrows ==
  ASSUME NEW T, NEW U, NEW G, NEW H, NEW hits \in Seq(G), NEW new \in Seq(H), NEW none, NEW ids,
         NEW alone \in BOOLEAN, NEW cap \in Nat, Trail(T, ids, H, cap),
         Walked(T, U, ids, hits, new, none, alone)
  PROVE  Trail(U, Newest(ids \o new, cap), H, cap)
<1>1. Positions(T) /\ ids \in Seq(H) /\ T.n \in Nat /\ T.alone \subseteq 1..T.n
  BY DEF Trail, Positions
<1>2. PICK at : Stands(T, ids, at) /\ Holds(T, at, cap)
  BY DEF Trail
<1>3. Positions(U) /\ Behaved(T, U) /\ Added(T, U, hits, none, alone) /\ U.n \in Nat
      /\ U.alone \subseteq 1..U.n
  BY DEF Walked, Positions
<1>4. PICK w : /\ Stands(U, new, w)
               /\ \A b \in 1..Len(new) : \E c \in 1..Len(hits) : w[b] = T.n + c /\ hits[c] = new[b]
  <2>1. PICK base : IsRest(new, hits, Range(base) \cup {none})
    BY DEF Walked
  <2>2. \E w : Placed(T, U, hits, new, w)
    BY <1>1, <1>3, <2>1, TrailPlaces
  <2>. QED BY <2>2 DEF Placed
<1>5. \A b \in 1..Len(new) : w[b] > T.n
  BY <1>1, <1>4
<1>6. PICK q : q = ids \o new
  OBVIOUS
<1>7. PICK aq : Stands(U, q, aq) /\ Chained(aq, at, w, U.see)
  BY <1>1, <1>2, <1>3, <1>4, <1>5, <1>6, TrailJoins
<1>8. /\ q \in Seq(H) /\ Len(q) = Len(ids) + Len(new) /\ Len(at) = Len(ids) /\ Len(w) = Len(new)
      /\ Len(ids) \in Nat /\ Len(new) \in Nat
  BY <1>1, <1>2, <1>4, <1>6 DEF Stands
<1>9. /\ \A k \in 1..Len(ids) : k \in 1..Len(q) /\ aq[k] = at[k]
      /\ \A b \in 1..Len(new) : Len(ids) + b \in 1..Len(q) /\ aq[Len(ids) + b] = w[b]
  <2>1. ASSUME NEW k \in 1..Len(ids) PROVE k \in 1..Len(q) /\ aq[k] = at[k]
    <3>1. k \in 1..Len(q) /\ ~(k > Len(ids))
      BY <1>8
    <3>. QED BY <1>7, <1>8, <3>1 DEF Chained
  <2>2. ASSUME NEW b \in 1..Len(new) PROVE Len(ids) + b \in 1..Len(q) /\ aq[Len(ids) + b] = w[b]
    <3>1. Len(ids) + b \in 1..Len(q) /\ Len(ids) + b \notin 1..Len(ids) /\ (Len(ids) + b) - Len(ids) = b
      BY <1>8
    <3>. QED BY <1>7, <1>8, <3>1 DEF Chained
  <2>. QED BY <2>1, <2>2
<1>10. ASSUME NEW i \in U.alone
       PROVE  \/ \E k \in 1..Len(q) : aq[k] = i
              \/ Cardinality(Later(U, i, U.n + 1)) >= cap
  <2>1. CASE i \in 1..T.n
    <3>1. i \in T.alone
      BY <1>3, <2>1 DEF Behaved
    <3>2. CASE \E k \in 1..Len(at) : at[k] = i
      BY <1>8, <1>9, <3>2
    <3>3. CASE Cardinality(Later(T, i, T.n + 1)) >= cap
      <4>1. PICK j \in Nat : j = U.n + 1 /\ j > T.n /\ j <= U.n + 1
        BY <1>1, <1>3 DEF Behaved
      <4>. QED BY <1>1, <1>3, <2>1, <3>3, <4>1, TrailStaysOut
    <3>. QED BY <1>2, <3>1, <3>2, <3>3 DEF Holds
  <2>2. CASE ~(i \in 1..T.n)
    <3>1. i \in 1..U.n
      BY <1>3
    <3>2. PICK a \in 1..Len(hits) : i = T.n + a
      BY <1>1, <1>3, <2>2, <3>1, TrailSplit
    <3>3. hits[a] # none /\ alone
      BY <1>3, <3>2 DEF Added
    <3>4. PICK b \in 1..Len(new) : new[b] = hits[a]
      BY <3>3 DEF Walked, Fresh
    <3>5. PICK c \in 1..Len(hits) : w[b] = T.n + c /\ hits[c] = new[b]
      BY <1>4
    <3>6. c = a
      BY <1>3, <3>3, <3>4, <3>5 DEF Added
    <3>. QED BY <1>9, <3>2, <3>5, <3>6
  <2>. QED BY <2>1, <2>2
<1>. QED BY <1>3, <1>6, <1>7, <1>8, <1>10, TrailCut

\* What is given again without a race was followed by as many as are remembered.
LEMMA TrailShows ==
  ASSUME NEW T, NEW U, NEW G, NEW H, NEW hits \in Seq(G), NEW new \in Seq(H), NEW none, NEW ids,
         NEW alone \in BOOLEAN, NEW cap \in Nat, Trail(T, ids, H, cap),
         Walked(T, U, ids, hits, new, none, alone),
         NEW i \in U.alone, NEW j \in U.alone, i < j, j > T.n, U.lab[i] = U.lab[j]
  PROVE  Cardinality(Later(U, i, j)) >= cap
<1>1. Positions(T) /\ T.n \in Nat
  BY DEF Trail, Positions
<1>2. PICK at : Stands(T, ids, at) /\ Holds(T, at, cap)
  BY DEF Trail
<1>3. /\ Positions(U) /\ Behaved(T, U) /\ Added(T, U, hits, none, alone) /\ U.n \in Nat
      /\ i \in 1..U.n /\ j \in 1..U.n
  BY DEF Walked, Positions
<1>4. PICK b \in 1..Len(hits) : j = T.n + b
  <2>1. ~(j \in 1..T.n)
    BY <1>1
  <2>. QED BY <1>1, <1>3, <2>1, TrailSplit
<1>5. U.lab[j] = hits[b] /\ hits[b] # none /\ alone
  BY <1>3, <1>4 DEF Added
<1>6. CASE i \in 1..T.n
  <2>1. i \in T.alone /\ T.lab[i] = U.lab[i]
    BY <1>3, <1>6 DEF Behaved
  <2>2. \A k \in 1..Len(at) : at[k] # i
    <3>1. \A k \in 1..Len(ids) : ids[k] # hits[b]
      BY <1>5 DEF Walked, Fresh
    <3>. QED BY <1>2, <1>5, <2>1, <3>1 DEF Stands
  <2>3. Cardinality(Later(T, i, T.n + 1)) >= cap
    BY <1>2, <2>1, <2>2 DEF Holds
  <2>4. j \in Nat /\ j <= U.n + 1
    BY <1>3
  <2>. QED BY <1>1, <1>3, <1>6, <2>3, <2>4, TrailStaysOut
<1>7. CASE ~(i \in 1..T.n)
  <2>1. PICK a \in 1..Len(hits) : i = T.n + a
    BY <1>1, <1>3, <1>7, TrailSplit
  <2>2. hits[a] = hits[b] /\ hits[a] # none
    BY <1>3, <1>5, <2>1 DEF Added
  <2>3. a = b
    BY <1>3, <2>2 DEF Added
  <2>. QED BY <1>1, <1>4, <2>1, <2>3
<1>. QED BY <1>6, <1>7

\* A list stands as it did when nothing is given alone.
LEMMA TrailStays ==
  ASSUME NEW T, NEW U, NEW ids, NEW H, NEW cap \in Nat, Trail(T, ids, H, cap), Positions(U),
         Behaved(T, U), U.alone \subseteq 1..T.n
  PROVE  Trail(U, ids, H, cap)
<1>1. Positions(T) /\ T.n \in Nat /\ T.see \subseteq 1..T.n /\ U.n \in Nat
  BY DEF Trail, Positions
<1>2. PICK at : Stands(T, ids, at) /\ Holds(T, at, cap)
  BY DEF Trail
<1>3. Stands(U, ids, at)
  <2>1. at \in Seq(T.see) /\ Len(at) = Len(ids) /\ Len(at) \in Nat
    BY <1>2 DEF Stands
  <2>2. \A k \in 1..Len(at) : at[k] \in U.see /\ U.lab[at[k]] = T.lab[at[k]]
    <3>1. \A k \in 1..Len(at) : at[k] \in T.see /\ at[k] \in 1..T.n
      BY <1>1, <2>1
    <3>. QED BY <3>1 DEF Behaved
  <2>3. at \in [1..Len(at) -> U.see]
    BY <2>1, <2>2
  <2>4. at \in Seq(U.see)
    BY <2>1, <2>3
  <2>. QED BY <1>2, <2>1, <2>2, <2>4 DEF Stands
<1>4. Holds(U, at, cap)
  <2>. SUFFICES ASSUME NEW i \in U.alone, \A k \in 1..Len(at) : at[k] # i
                PROVE  Cardinality(Later(U, i, U.n + 1)) >= cap
    BY DEF Holds
  <2>1. i \in 1..T.n /\ i \in T.alone
    BY DEF Behaved
  <2>2. Cardinality(Later(T, i, T.n + 1)) >= cap
    BY <1>2, <2>1 DEF Holds
  <2>3. PICK j \in Nat : j = U.n + 1 /\ j > T.n /\ j <= U.n + 1
    BY <1>1 DEF Behaved
  <2>. QED BY <1>1, <2>1, <2>2, <2>3, TrailStaysOut
<1>. QED BY <1>2, <1>3, <1>4 DEF Trail

------------------------------------------------------------------------------
\* The cache of the Vercel middleware.

VercelRecallKeptEntry == [key : {VercelRecall!RecallKey(r) : r \in Requests}, from : Requests, stale : BOOLEAN]
VercelRecallSearch == [from : Requests, stale : BOOLEAN, again : BOOLEAN]

\* A call has memories only at the model, and they are those of its request.
VercelRecallAsks ==
  \A c \in Calls : /\ step[c] # "model" => given[c] = None
                   /\ step[c] # "idle" => request[c] \in Requests
VercelRecallKeyed == \A i \in 1..Len(vercelCache) : vercelCache[i].key = VercelRecall!RecallKey(vercelCache[i].from)
\* What a search brought in is still there unless as many came after it as the
\* cache has room for: no more entries follow it than searches came back since.
VercelRecallKept ==
  \A i \in 1..Len(recent) : ~recent[i].again /\ ~recent[i].stale =>
    \E j \in 1..Len(vercelCache) : /\ vercelCache[j].from = recent[i].from /\ ~vercelCache[j].stale
                                   /\ Len(vercelCache) - j <= Len(recent) - i

VercelRecallInv == VercelRecall!TypeOK /\ VercelRecallAsks /\ VercelRecallKeyed /\ VercelRecallKept /\ VercelRecall!MemoriesAreOwn

\* The key of a request says all of it.
LEMMA VercelRecallKeysTell ==
  ASSUME VercelRecall!RecallAssumption, NEW r \in Requests, NEW s \in Requests, VercelRecall!RecallKey(r) = VercelRecall!RecallKey(s)
  PROVE  r = s
<1>1. r.user = s.user /\ r.session = s.session /\ r.text = s.text
  BY DEF VercelRecall!RecallKey
<1>2. /\ r = [user |-> r.user, session |-> r.session, text |-> r.text]
      /\ s = [user |-> s.user, session |-> s.session, text |-> s.text]
  BY DEF VercelRecall!RecallAssumption
<1>. QED BY <1>1, <1>2

\* An entry that is deleted lets those behind it move up.
LEMMA VercelRecallDeletes ==
  ASSUME NEW T, NEW q \in Seq(T), NEW p \in 1..Len(q),
         \A i, j \in 1..Len(q) : q[i] = q[j] => i = j
  PROVE  /\ VercelRecall!Without(q, q[p]) \in Seq(T) /\ Len(VercelRecall!Without(q, q[p])) = Len(q) - 1
         /\ \A i \in 1..(Len(q) - 1) : VercelRecall!Without(q, q[p])[i] = IF i < p THEN q[i] ELSE q[i + 1]
<1>1. VercelRecall!Place(q, q[p]) = p
  BY DEF VercelRecall!Place
<1>2. Len(q) \in Nat /\ p <= Len(q) /\ Len(q) - 1 \in Nat
  OBVIOUS
<1>3. VercelRecall!Without(q, q[p]) = [i \in 1..(Len(q) - 1) |-> IF i < p THEN q[i] ELSE q[i + 1]]
  BY <1>1, <1>2 DEF VercelRecall!Without
<1>. QED BY <1>2, <1>3

\* r is q with x behind it, and without its oldest if that was too much.
VercelRecallMovedUp(r, q, x, cap, T) ==
  \E d \in {0, 1} : /\ r \in Seq(T) /\ Len(r) = Len(q) + 1 - d /\ Len(r) <= cap
                    /\ d = 1 <=> Len(q) = cap
                    /\ \A i \in 1..Len(r) : r[i] = Append(q, x)[i + d]

LEMMA VercelRecallMovesUp ==
  ASSUME NEW cap \in Nat \ {0}, NEW T, NEW q \in Seq(T), Len(q) <= cap, NEW x \in T,
         NEW r, r = VercelRecall!Newest(Append(q, x), cap)
  PROVE  VercelRecallMovedUp(r, q, x, cap, T)
<1> DEFINE s == Append(q, x)
<1>. r = VercelRecall!Newest(s, cap)
  OBVIOUS
<1>1. s \in Seq(T) /\ Len(s) = Len(q) + 1 /\ Len(q) \in Nat
  OBVIOUS
<1>. HIDE DEF s
<1>2. CASE Len(q) = cap
  <2>1. r = SubSeq(s, 2, cap + 1)
    <3>1. Len(s) = cap + 1 /\ ~(Len(s) <= cap) /\ Len(s) - cap + 1 = 2
      BY <1>1, <1>2
    <3>2. r = SubSeq(s, Len(s) - cap + 1, Len(s))
      BY <3>1 DEF VercelRecall!Newest
    <3>. QED BY <3>1, <3>2
  <2>2. r \in Seq(T) /\ Len(r) = cap /\ \A i \in 1..cap : r[i] = s[i + 1]
    BY <1>1, <1>2, <2>1
  <2>. QED BY <1>1, <1>2, <2>2 DEF s, VercelRecallMovedUp
<1>3. CASE Len(q) # cap
  <2>1. r = s
    BY <1>1, <1>3 DEF VercelRecall!Newest
  <2>. QED BY <1>1, <1>3, <2>1 DEF s, VercelRecallMovedUp
<1>. QED BY <1>2, <1>3

LEMMA VercelRecallRoomy ==
  ASSUME VercelRecall!RecallAssumption, VercelRecall!TypeOK
  PROVE  \E d \in {0, 1} : /\ VercelRecall!Room \in Seq(VercelRecallKeptEntry) /\ Len(VercelRecall!Room) = Len(vercelCache) - d
                           /\ Len(VercelRecall!Room) < CacheSize /\ (d = 1 <=> Len(vercelCache) = CacheSize)
                           /\ \A i \in 1..Len(VercelRecall!Room) : VercelRecall!Room[i] = vercelCache[i + d]
<1>1. /\ CacheSize \in Nat \ {0} /\ vercelCache \in Seq(VercelRecallKeptEntry) /\ Len(vercelCache) \in Nat
      /\ Len(vercelCache) <= CacheSize
  BY DEF VercelRecall!RecallAssumption, VercelRecall!TypeOK, VercelRecallKeptEntry
<1>2. CASE Len(vercelCache) = CacheSize
  <2>1. VercelRecall!Room = Tail(vercelCache) /\ vercelCache # <<>>
    BY <1>1, <1>2 DEF VercelRecall!Room
  <2>2. /\ VercelRecall!Room \in Seq(VercelRecallKeptEntry) /\ Len(VercelRecall!Room) = Len(vercelCache) - 1
        /\ \A i \in 1..Len(VercelRecall!Room) : VercelRecall!Room[i] = vercelCache[i + 1]
    BY <1>1, <2>1
  <2>. QED BY <1>1, <1>2, <2>2
<1>3. CASE Len(vercelCache) # CacheSize
  <2>1. VercelRecall!Room = vercelCache
    BY <1>1, <1>3 DEF VercelRecall!Room
  <2>. QED BY <1>1, <1>3, <2>1
<1>. QED BY <1>2, <1>3

\* What the cache holds after a search: one entry per request still, and that of
\* the search among them.
LEMMA VercelRecallSets ==
  ASSUME VercelRecall!RecallAssumption, VercelRecall!TypeOK, VercelRecallKeyed, NEW r \in Requests, VercelRecall!CacheSet(r)
  PROVE  /\ vercelCache' \in Seq(VercelRecallKeptEntry) /\ Len(vercelCache') <= CacheSize
         /\ \A i, j \in 1..Len(vercelCache') : vercelCache'[i].key = vercelCache'[j].key => i = j
         /\ \A i \in 1..Len(vercelCache') : vercelCache'[i].key = VercelRecall!RecallKey(vercelCache'[i].from)
         /\ Len(vercelCache') = Len(VercelRecall!Room) + (IF VercelRecall!Places(r) = {} THEN 1 ELSE 0)
         /\ \A i \in 1..Len(VercelRecall!Room) : /\ vercelCache'[i].from = VercelRecall!Room[i].from
                                                 /\ ~VercelRecall!Room[i].stale => ~vercelCache'[i].stale
         /\ VercelRecall!Places(r) = {} => vercelCache'[Len(VercelRecall!Room) + 1] = VercelRecall!Entry(r)
<1>1. PICK d \in {0, 1} : /\ VercelRecall!Room \in Seq(VercelRecallKeptEntry) /\ Len(VercelRecall!Room) = Len(vercelCache) - d
                          /\ Len(VercelRecall!Room) < CacheSize /\ (d = 1 <=> Len(vercelCache) = CacheSize)
                          /\ \A i \in 1..Len(VercelRecall!Room) : VercelRecall!Room[i] = vercelCache[i + d]
  BY VercelRecallRoomy
<1>2. Len(VercelRecall!Room) \in Nat /\ Len(vercelCache) \in Nat /\ CacheSize \in Nat
  BY <1>1 DEF VercelRecall!TypeOK, VercelRecall!RecallAssumption
<1>3. \A i \in 1..Len(VercelRecall!Room) : i + d \in 1..Len(vercelCache)
  BY <1>1, <1>2
<1>4. \A i, j \in 1..Len(VercelRecall!Room) : VercelRecall!Room[i].key = VercelRecall!Room[j].key => i = j
  <2>1. \A i, j \in 1..Len(vercelCache) : vercelCache[i].key = vercelCache[j].key => i = j
    BY DEF VercelRecall!TypeOK
  <2>2. ASSUME NEW i \in 1..Len(VercelRecall!Room), NEW j \in 1..Len(VercelRecall!Room), VercelRecall!Room[i].key = VercelRecall!Room[j].key
        PROVE  i = j
    <3>1. i + d = j + d
      BY <1>1, <1>3, <2>1, <2>2
    <3>. QED BY <3>1
  <2>. QED BY <2>2
<1>5. \A i \in 1..Len(VercelRecall!Room) : VercelRecall!Room[i].key = VercelRecall!RecallKey(VercelRecall!Room[i].from) /\ VercelRecall!Room[i].from \in Requests
  <2>1. \A i \in 1..Len(VercelRecall!Room) : VercelRecall!Room[i] \in VercelRecallKeptEntry
    BY <1>1, <1>2
  <2>2. \A e \in VercelRecallKeptEntry : e.from \in Requests
    BY DEF VercelRecallKeptEntry
  <2>. QED BY <1>1, <1>3, <2>1, <2>2 DEF VercelRecallKeyed
<1>6. /\ VercelRecall!Entry(r) \in VercelRecallKeptEntry /\ VercelRecall!Entry(r).key = VercelRecall!RecallKey(r) /\ VercelRecall!Entry(r).from = r
      /\ ~VercelRecall!Entry(r).stale
  BY DEF VercelRecall!Entry, VercelRecallKeptEntry
<1>7. CASE VercelRecall!Places(r) = {}
  <2>1. vercelCache' = Append(VercelRecall!Room, VercelRecall!Entry(r))
    BY <1>7 DEF VercelRecall!CacheSet
  <2>2. /\ vercelCache' \in Seq(VercelRecallKeptEntry) /\ Len(vercelCache') = Len(VercelRecall!Room) + 1
        /\ vercelCache'[Len(VercelRecall!Room) + 1] = VercelRecall!Entry(r)
        /\ \A i \in 1..Len(VercelRecall!Room) : vercelCache'[i] = VercelRecall!Room[i]
    BY <1>1, <1>2, <1>6, <2>1
  <2>3. \A i \in 1..Len(VercelRecall!Room) : VercelRecall!Room[i].key # VercelRecall!RecallKey(r)
    BY <1>7 DEF VercelRecall!Places
  <2>4. ASSUME NEW i \in 1..Len(vercelCache') PROVE i \in 1..Len(VercelRecall!Room) \/ i = Len(VercelRecall!Room) + 1
    BY <1>2, <2>2
  <2>5. \A i, j \in 1..Len(vercelCache') : vercelCache'[i].key = vercelCache'[j].key => i = j
    BY <1>4, <1>6, <2>2, <2>3, <2>4
  <2>6. \A i \in 1..Len(vercelCache') : vercelCache'[i].key = VercelRecall!RecallKey(vercelCache'[i].from)
    BY <1>5, <1>6, <2>2, <2>4
  <2>7. Len(vercelCache') <= CacheSize
    BY <1>1, <1>2, <2>2
  <2>. QED BY <1>7, <2>2, <2>5, <2>6, <2>7
<1>8. CASE VercelRecall!Places(r) # {}
  <2>1. vercelCache' = [i \in 1..Len(VercelRecall!Room) |-> IF i \in VercelRecall!Places(r) THEN VercelRecall!Entry(r) ELSE VercelRecall!Room[i]]
    BY <1>8 DEF VercelRecall!CacheSet
  <2>2. /\ vercelCache' \in Seq(VercelRecallKeptEntry) /\ Len(vercelCache') = Len(VercelRecall!Room)
        /\ \A i \in 1..Len(VercelRecall!Room) : vercelCache'[i] = IF i \in VercelRecall!Places(r) THEN VercelRecall!Entry(r) ELSE VercelRecall!Room[i]
    BY <1>1, <1>2, <1>6, <2>1
  <2>3. \A i \in VercelRecall!Places(r) : VercelRecall!Room[i].key = VercelRecall!RecallKey(r) /\ VercelRecall!Room[i].from = r
    BY <1>5, VercelRecallKeysTell DEF VercelRecall!Places
  <2>4. \A i \in 1..Len(VercelRecall!Room) : /\ vercelCache'[i].key = VercelRecall!Room[i].key /\ vercelCache'[i].from = VercelRecall!Room[i].from
                                             /\ ~VercelRecall!Room[i].stale => ~vercelCache'[i].stale
    BY <1>6, <2>2, <2>3
  <2>5. \A i, j \in 1..Len(vercelCache') : vercelCache'[i].key = vercelCache'[j].key => i = j
    BY <1>4, <2>2, <2>4
  <2>6. \A i \in 1..Len(vercelCache') : vercelCache'[i].key = VercelRecall!RecallKey(vercelCache'[i].from)
    BY <1>5, <2>2, <2>4
  <2>7. Len(vercelCache') <= CacheSize
    BY <1>1, <1>2, <2>2
  <2>. QED BY <1>8, <2>2, <2>4, <2>5, <2>6, <2>7
<1>. QED BY <1>7, <1>8

LEMMA VercelRecallStarts ==
  ASSUME VercelRecall!RecallAssumption, VercelRecall!Init PROVE VercelRecallInv
<1>1. /\ vercelCache = <<>> /\ recent = <<>> /\ Len(vercelCache) = 0 /\ Len(recent) = 0
      /\ 0 <= CacheSize
  BY DEF VercelRecall!RecallAssumption, VercelRecall!Init
<1>2. VercelRecall!TypeOK
  BY <1>1 DEF VercelRecall!Init, VercelRecall!TypeOK
<1>. QED BY <1>1, <1>2 DEF VercelRecall!Init, VercelRecallInv, VercelRecallAsks,
       VercelRecallKeyed, VercelRecallKept, VercelRecall!MemoriesAreOwn

LEMMA VercelRecallKeeps ==
  ASSUME VercelRecall!RecallAssumption, VercelRecallInv, [VercelRecall!Next]_vercelRecallVars PROVE VercelRecallInv'
<1>1. VercelRecall!TypeOK /\ VercelRecallAsks /\ VercelRecallKeyed /\ VercelRecallKept /\ VercelRecall!MemoriesAreOwn
  BY DEF VercelRecallInv
<1>2. /\ vercelCache \in Seq(VercelRecallKeptEntry) /\ Len(vercelCache) \in Nat /\ Len(vercelCache) <= CacheSize
      /\ recent \in Seq(VercelRecallSearch) /\ Len(recent) \in Nat /\ Len(recent) <= CacheSize
      /\ \A i, j \in 1..Len(vercelCache) : vercelCache[i].key = vercelCache[j].key => i = j
      /\ CacheSize \in Nat \ {0}
  BY <1>1 DEF VercelRecall!TypeOK, VercelRecallKeptEntry, VercelRecallSearch,
     VercelRecall!RecallAssumption
\* Steps that leave the cache alone.
<1>3. ASSUME UNCHANGED <<vercelCache, recent>>, step' \in [Calls -> {"idle", "step", "search", "model"}],
             request' \in [Calls -> Requests \cup {None}],
             given' \in [Calls -> Requests \cup {None}], VercelRecallAsks', VercelRecall!MemoriesAreOwn'
      PROVE  VercelRecallInv'
  <2>1. VercelRecall!TypeOK'
    BY <1>1, <1>3 DEF VercelRecall!TypeOK
  <2>. QED BY <1>1, <1>3, <2>1 DEF VercelRecallInv, VercelRecallKeyed, VercelRecallKept
<1>4. ASSUME NEW c \in Calls, NEW r \in Requests, VercelRecall!Begin(c, r) PROVE VercelRecallInv'
  BY <1>1, <1>3, <1>4 DEF VercelRecall!Begin, VercelRecall!Goto, VercelRecall!TypeOK,
     VercelRecallAsks, VercelRecall!MemoriesAreOwn
<1>5. ASSUME NEW c \in Calls, VercelRecall!RecallFromCache(c) PROVE VercelRecallInv'
  <2>1. PICK e \in VercelRecall!Cached(request[c]) : given' = [given EXCEPT ![c] = e.from]
    BY <1>5 DEF VercelRecall!RecallFromCache
  <2>2. PICK i \in 1..Len(vercelCache) : e = vercelCache[i]
    BY <1>2, <2>1 DEF VercelRecall!Cached, VercelRecall!Range
  <2>3. e.key = VercelRecall!RecallKey(e.from) /\ e.from \in Requests
    <3>1. \A x \in VercelRecallKeptEntry : x.from \in Requests
      BY DEF VercelRecallKeptEntry
    <3>2. vercelCache[i] \in VercelRecallKeptEntry
      BY <1>2
    <3>. QED BY <1>1, <2>2, <3>1, <3>2 DEF VercelRecallKeyed
  <2>4. request[c] \in Requests /\ e.key = VercelRecall!RecallKey(request[c])
    BY <1>1, <1>5, <2>1 DEF VercelRecall!RecallFromCache, VercelRecallAsks, VercelRecall!Cached
  <2>5. e.from = request[c]
    BY <2>3, <2>4, VercelRecallKeysTell
  <2>6. /\ step' = [step EXCEPT ![c] = "model"] /\ request' = request
        /\ given' = [given EXCEPT ![c] = request[c]] /\ UNCHANGED <<vercelCache, recent>>
    BY <1>5, <2>1, <2>5 DEF VercelRecall!RecallFromCache, VercelRecall!Goto
  <2>. QED BY <1>1, <1>3, <2>4, <2>6 DEF VercelRecall!TypeOK, VercelRecallAsks,
         VercelRecall!MemoriesAreOwn
<1>6. ASSUME NEW c \in Calls, VercelRecall!RecallSearches(c) PROVE VercelRecallInv'
  <2>1. /\ step' = [step EXCEPT ![c] = "search"] /\ UNCHANGED <<request, given, recent>>
        /\ step[c] = "step"
    BY <1>6 DEF VercelRecall!RecallSearches, VercelRecall!Goto
  <2>2. VercelRecallAsks' /\ VercelRecall!MemoriesAreOwn'
    BY <1>1, <2>1 DEF VercelRecall!TypeOK, VercelRecallAsks, VercelRecall!MemoriesAreOwn
  <2>3. CASE UNCHANGED vercelCache
    BY <1>1, <1>3, <2>1, <2>2, <2>3 DEF VercelRecall!TypeOK
  <2>4. CASE \E e \in VercelRecall!Cached(request[c]) : e.stale /\ vercelCache' = VercelRecall!Without(vercelCache, e)
    <3>1. PICK e \in VercelRecall!Cached(request[c]) : e.stale /\ vercelCache' = VercelRecall!Without(vercelCache, e)
      BY <2>4
    <3>2. PICK p \in 1..Len(vercelCache) : e = vercelCache[p]
      BY <1>2, <3>1 DEF VercelRecall!Cached, VercelRecall!Range
    <3>3. /\ vercelCache' \in Seq(VercelRecallKeptEntry) /\ Len(vercelCache') = Len(vercelCache) - 1
          /\ \A i \in 1..(Len(vercelCache) - 1) : vercelCache'[i] = IF i < p THEN vercelCache[i] ELSE vercelCache[i + 1]
      <4>1. \A i, j \in 1..Len(vercelCache) : vercelCache[i] = vercelCache[j] => i = j
        BY <1>2
      <4>2. LET q == VercelRecall!Without(vercelCache, vercelCache[p]) IN
            /\ q \in Seq(VercelRecallKeptEntry) /\ Len(q) = Len(vercelCache) - 1
            /\ \A i \in 1..(Len(vercelCache) - 1) : q[i] = IF i < p THEN vercelCache[i] ELSE vercelCache[i + 1]
        BY <1>2, <4>1, VercelRecallDeletes
      <4>. QED BY <3>1, <3>2, <4>2
    <3>4. ASSUME NEW i \in 1..Len(vercelCache')
          PROVE  \E k \in 1..Len(vercelCache) : vercelCache'[i] = vercelCache[k] /\ k = IF i < p THEN i ELSE i + 1
      BY <1>2, <3>3
    <3>5. \A i, j \in 1..Len(vercelCache') : vercelCache'[i].key = vercelCache'[j].key => i = j
      <4>. SUFFICES ASSUME NEW i \in 1..Len(vercelCache'), NEW j \in 1..Len(vercelCache'),
                           vercelCache'[i].key = vercelCache'[j].key
                    PROVE  i = j
        OBVIOUS
      <4>1. PICK k \in 1..Len(vercelCache) : vercelCache'[i] = vercelCache[k] /\ k = IF i < p THEN i ELSE i + 1
        BY <3>4
      <4>2. PICK l \in 1..Len(vercelCache) : vercelCache'[j] = vercelCache[l] /\ l = IF j < p THEN j ELSE j + 1
        BY <3>4
      <4>3. k = l
        BY <1>2, <4>1, <4>2
      <4>. QED BY <4>1, <4>2, <4>3
    <3>6. VercelRecallKeyed'
      BY <1>1, <3>4 DEF VercelRecallKeyed
    <3>7. VercelRecall!TypeOK'
      BY <1>1, <1>2, <2>1, <3>3, <3>5 DEF VercelRecall!TypeOK, VercelRecallKeptEntry
    <3>8. VercelRecallKept'
      <4>. SUFFICES ASSUME NEW i \in 1..Len(recent), ~recent[i].again, ~recent[i].stale
                    PROVE  \E j \in 1..Len(vercelCache') :
                             /\ vercelCache'[j].from = recent[i].from /\ ~vercelCache'[j].stale
                             /\ Len(vercelCache') - j <= Len(recent) - i
        BY <2>1 DEF VercelRecallKept
      <4>1. PICK j \in 1..Len(vercelCache) : /\ vercelCache[j].from = recent[i].from /\ ~vercelCache[j].stale
                                             /\ Len(vercelCache) - j <= Len(recent) - i
        BY <1>1 DEF VercelRecallKept
      <4>2. j # p
        BY <3>1, <3>2, <4>1
      <4>3. CASE j < p
        <5>1. j \in 1..(Len(vercelCache) - 1) /\ (Len(vercelCache) - 1) - j <= Len(recent) - i
          BY <1>2, <4>1, <4>3
        <5>2. vercelCache'[j] = vercelCache[j]
          BY <3>3, <4>3, <5>1
        <5>3. j \in 1..Len(vercelCache') /\ Len(vercelCache') - j <= Len(recent) - i
          BY <3>3, <5>1
        <5>. QED BY <4>1, <5>2, <5>3
      <4>4. CASE j > p
        <5>1. /\ j - 1 \in 1..(Len(vercelCache) - 1) /\ ~(j - 1 < p) /\ (j - 1) + 1 = j
              /\ (Len(vercelCache) - 1) - (j - 1) <= Len(recent) - i
          BY <1>2, <4>1, <4>4
        <5>2. vercelCache'[j - 1] = vercelCache[j]
          BY <3>3, <5>1
        <5>3. j - 1 \in 1..Len(vercelCache') /\ Len(vercelCache') - (j - 1) <= Len(recent) - i
          BY <3>3, <5>1
        <5>. QED BY <4>1, <5>2, <5>3
      <4>. QED BY <4>2, <4>3, <4>4
    <3>. QED BY <2>2, <3>6, <3>7, <3>8 DEF VercelRecallInv
  <2>. QED BY <1>6, <2>3, <2>4 DEF VercelRecall!RecallSearches
<1>7. ASSUME NEW c \in Calls, VercelRecall!RecallSkips(c) PROVE VercelRecallInv'
  BY <1>1, <1>3, <1>7 DEF VercelRecall!RecallSkips, VercelRecall!Goto, VercelRecall!TypeOK,
     VercelRecallAsks, VercelRecall!MemoriesAreOwn
<1>8. ASSUME NEW c \in Calls, VercelRecall!SearchReturns(c) PROVE VercelRecallInv'
  <2> DEFINE r == request[c]
             x == [from |-> r, stale |-> FALSE, again |-> VercelRecall!Places(r) # {}]
  <2>1. /\ step[c] = "search" /\ step' = [step EXCEPT ![c] = "model"] /\ request' = request
        /\ VercelRecall!CacheSet(r) /\ given' = [given EXCEPT ![c] = r]
        /\ recent' = VercelRecall!Newest(Append(recent, x), CacheSize)
    BY <1>8 DEF VercelRecall!SearchReturns, VercelRecall!Goto
  <2>2. r \in Requests /\ x \in VercelRecallSearch
    BY <1>1, <2>1 DEF VercelRecallAsks, VercelRecallSearch
  <2>3. VercelRecallAsks' /\ VercelRecall!MemoriesAreOwn'
    BY <1>1, <2>1, <2>2 DEF VercelRecall!TypeOK, VercelRecallAsks, VercelRecall!MemoriesAreOwn
  <2>4. /\ x.again <=> VercelRecall!Places(r) # {}
        /\ x.from = r
    OBVIOUS
  <2>. HIDE DEF x
  <2>5. PICK d \in {0, 1} : /\ recent' \in Seq(VercelRecallSearch) /\ Len(recent') = Len(recent) + 1 - d
                            /\ Len(recent') <= CacheSize
                            /\ d = 1 <=> Len(recent) = CacheSize
                            /\ \A i \in 1..Len(recent') : recent'[i] = Append(recent, x)[i + d]
    <3>1. recent' = VercelRecall!Newest(Append(recent, x), CacheSize)
      BY <2>1
    <3>2. /\ CacheSize \in Nat \ {0} /\ recent \in Seq(VercelRecallSearch) /\ Len(recent) <= CacheSize
          /\ x \in VercelRecallSearch
      BY <1>2, <2>2
    <3>3. VercelRecallMovedUp(recent', recent, x, CacheSize, VercelRecallSearch)
      BY <3>1, <3>2, VercelRecallMovesUp
    <3>. QED BY <3>3 DEF VercelRecallMovedUp
  <2>. HIDE DEF r
  <2>6. /\ vercelCache' \in Seq(VercelRecallKeptEntry) /\ Len(vercelCache') <= CacheSize
        /\ \A i, j \in 1..Len(vercelCache') : vercelCache'[i].key = vercelCache'[j].key => i = j
        /\ \A i \in 1..Len(vercelCache') : vercelCache'[i].key = VercelRecall!RecallKey(vercelCache'[i].from)
        /\ Len(vercelCache') = Len(VercelRecall!Room) + (IF VercelRecall!Places(r) = {} THEN 1 ELSE 0)
        /\ \A i \in 1..Len(VercelRecall!Room) : /\ vercelCache'[i].from = VercelRecall!Room[i].from
                                                /\ ~VercelRecall!Room[i].stale => ~vercelCache'[i].stale
        /\ VercelRecall!Places(r) = {} => vercelCache'[Len(VercelRecall!Room) + 1] = VercelRecall!Entry(r)
    BY <1>1, <2>1, <2>2, VercelRecallSets
  <2>7. PICK e \in {0, 1} : /\ VercelRecall!Room \in Seq(VercelRecallKeptEntry) /\ Len(VercelRecall!Room) = Len(vercelCache) - e
                            /\ Len(VercelRecall!Room) < CacheSize /\ (e = 1 <=> Len(vercelCache) = CacheSize)
                            /\ \A i \in 1..Len(VercelRecall!Room) : VercelRecall!Room[i] = vercelCache[i + e]
    BY <1>1, VercelRecallRoomy
  <2>8. VercelRecall!TypeOK'
    <3>1. given' \in [Calls -> Requests \cup {None}]
      BY <1>1, <2>1, <2>2 DEF VercelRecall!TypeOK
    <3>. QED BY <1>1, <2>1, <2>5, <2>6, <3>1 DEF VercelRecall!TypeOK, VercelRecallKeptEntry,
           VercelRecallSearch
  <2>9. VercelRecallKeyed'
    BY <2>6 DEF VercelRecallKeyed
  <2>10. VercelRecallKept'
    <3>. SUFFICES ASSUME NEW i \in 1..Len(recent'), ~recent'[i].again, ~recent'[i].stale
                  PROVE  \E j \in 1..Len(vercelCache') :
                           /\ vercelCache'[j].from = recent'[i].from /\ ~vercelCache'[j].stale
                           /\ Len(vercelCache') - j <= Len(recent') - i
      BY DEF VercelRecallKept
    <3>1. Len(VercelRecall!Room) \in Nat /\ i + d \in 1..(Len(recent) + 1)
      BY <1>2, <2>5, <2>7
    <3>2. CASE i + d = Len(recent) + 1
      <4>1. recent'[i] = x
        BY <1>2, <2>2, <2>5, <3>2
      <4>2. VercelRecall!Places(r) = {} /\ vercelCache'[Len(VercelRecall!Room) + 1] = VercelRecall!Entry(r) /\ Len(vercelCache') = Len(VercelRecall!Room) + 1
        BY <2>4, <2>6, <4>1
      <4>3. VercelRecall!Entry(r).from = r /\ ~VercelRecall!Entry(r).stale
        BY DEF VercelRecall!Entry
      <4>4. Len(VercelRecall!Room) + 1 \in 1..Len(vercelCache') /\ Len(vercelCache') - (Len(VercelRecall!Room) + 1) <= Len(recent') - i
        BY <1>2, <2>5, <3>1, <4>2
      <4>. QED BY <2>4, <4>1, <4>2, <4>3, <4>4
    <3>3. CASE i + d \in 1..Len(recent)
      <4>1. recent'[i] = recent[i + d]
        BY <1>2, <2>2, <2>5, <3>3
      <4>2. PICK j \in 1..Len(vercelCache) : /\ vercelCache[j].from = recent[i + d].from /\ ~vercelCache[j].stale
                                             /\ Len(vercelCache) - j <= Len(recent) - (i + d)
        BY <1>1, <3>3, <4>1 DEF VercelRecallKept
      <4>3. j - e \in 1..Len(VercelRecall!Room)
        BY <1>2, <2>5, <2>7, <3>1, <4>2
      <4>4. VercelRecall!Room[j - e] = vercelCache[j]
        BY <2>7, <4>3
      <4>5. vercelCache'[j - e].from = recent'[i].from /\ ~vercelCache'[j - e].stale
        BY <2>6, <4>1, <4>2, <4>3, <4>4
      <4>6. Len(vercelCache') \in {Len(VercelRecall!Room), Len(VercelRecall!Room) + 1}
        BY <2>6, <3>1
      <4>7. Len(recent') - i = Len(recent) + 1 - (i + d)
        BY <1>2, <2>5
      <4>8. j - e \in 1..Len(vercelCache') /\ Len(vercelCache') - (j - e) <= Len(recent') - i
        <5>1. /\ Len(VercelRecall!Room) = Len(vercelCache) - e /\ e \in {0, 1} /\ d \in {0, 1} /\ i \in Nat
              /\ Len(recent') \in Nat /\ Len(recent) \in Nat /\ Len(vercelCache) \in Nat /\ j \in Nat
          BY <1>2, <2>5, <2>7
        <5>2. Len(vercelCache) - j <= Len(recent) - (i + d)
          BY <4>2
        <5>. HIDE DEF VercelRecall!Room
        <5>. QED BY <4>3, <4>6, <4>7, <5>1, <5>2
      <4>. QED BY <4>5, <4>8
    <3>. QED BY <1>2, <3>1, <3>2, <3>3
  <2>. QED BY <2>3, <2>8, <2>9, <2>10 DEF VercelRecallInv
<1>9. ASSUME NEW c \in Calls, NEW raises \in BOOLEAN, VercelRecall!SearchFails(c, raises) PROVE VercelRecallInv'
  BY <1>1, <1>3, <1>9 DEF VercelRecall!SearchFails, VercelRecall!Goto, VercelRecall!TypeOK,
     VercelRecallAsks, VercelRecall!MemoriesAreOwn
<1>10. ASSUME NEW c \in Calls, NEW isTool \in BOOLEAN, VercelRecall!ModelReturns(c, isTool) PROVE VercelRecallInv'
  BY <1>1, <1>3, <1>10 DEF VercelRecall!ModelReturns, VercelRecall!Goto, VercelRecall!TypeOK,
     VercelRecallAsks, VercelRecall!MemoriesAreOwn
<1>11. ASSUME NEW r \in Requests, VercelRecall!Expire(r) PROVE VercelRecallInv'
  <2> DEFINE Aged(e) == [e EXCEPT !.stale = @ \/ e.from = r]
  <2>1. /\ vercelCache' = [i \in 1..Len(vercelCache) |-> Aged(vercelCache[i])]
        /\ recent' = [i \in 1..Len(recent) |-> Aged(recent[i])]
        /\ UNCHANGED <<step, request, given>>
    BY <1>11 DEF VercelRecall!Expire
  <2>2. \A e \in VercelRecallKeptEntry : /\ Aged(e) \in VercelRecallKeptEntry /\ Aged(e).key = e.key /\ Aged(e).from = e.from
                                         /\ Aged(e).stale <=> (e.stale \/ e.from = r)
    BY DEF VercelRecallKeptEntry
  <2>3. \A e \in VercelRecallSearch : /\ Aged(e) \in VercelRecallSearch /\ Aged(e).from = e.from /\ Aged(e).again = e.again
                                      /\ Aged(e).stale <=> (e.stale \/ e.from = r)
    BY DEF VercelRecallSearch
  <2>4. \A i \in 1..Len(vercelCache) : vercelCache[i] \in VercelRecallKeptEntry
    BY <1>2
  <2>5. \A i \in 1..Len(recent) : recent[i] \in VercelRecallSearch
    BY <1>2
  <2>. HIDE DEF Aged
  <2>6. /\ vercelCache' \in Seq(VercelRecallKeptEntry) /\ Len(vercelCache') = Len(vercelCache)
        /\ \A i \in 1..Len(vercelCache) : vercelCache'[i] = Aged(vercelCache[i])
    BY <1>2, <2>1, <2>2, <2>4
  <2>7. /\ recent' \in Seq(VercelRecallSearch) /\ Len(recent') = Len(recent)
        /\ \A i \in 1..Len(recent) : recent'[i] = Aged(recent[i])
    BY <1>2, <2>1, <2>3, <2>5
  <2>8. \A i, j \in 1..Len(vercelCache') : vercelCache'[i].key = vercelCache'[j].key => i = j
    BY <1>2, <2>2, <2>4, <2>6
  <2>9. VercelRecall!TypeOK'
    BY <1>1, <2>1, <2>6, <2>7, <2>8 DEF VercelRecall!TypeOK, VercelRecallKeptEntry,
       VercelRecallSearch
  <2>10. VercelRecallAsks' /\ VercelRecall!MemoriesAreOwn'
    BY <1>1, <2>1 DEF VercelRecallAsks, VercelRecall!MemoriesAreOwn
  <2>11. VercelRecallKeyed'
    BY <1>1, <2>2, <2>4, <2>6 DEF VercelRecallKeyed
  <2>12. VercelRecallKept'
    <3>. SUFFICES ASSUME NEW i \in 1..Len(recent), ~recent'[i].again, ~recent'[i].stale
                  PROVE  \E j \in 1..Len(vercelCache) :
                           /\ vercelCache'[j].from = recent'[i].from /\ ~vercelCache'[j].stale
                           /\ Len(vercelCache) - j <= Len(recent) - i
      BY <2>6, <2>7 DEF VercelRecallKept
    <3>1. /\ recent'[i].from = recent[i].from /\ ~recent[i].again /\ ~recent[i].stale
          /\ recent[i].from # r
      BY <2>3, <2>5, <2>7
    <3>2. PICK j \in 1..Len(vercelCache) : /\ vercelCache[j].from = recent[i].from /\ ~vercelCache[j].stale
                                           /\ Len(vercelCache) - j <= Len(recent) - i
      BY <1>1, <3>1 DEF VercelRecallKept
    <3>3. vercelCache'[j].from = vercelCache[j].from /\ ~vercelCache'[j].stale
      BY <2>2, <2>4, <2>6, <3>1, <3>2
    <3>. QED BY <3>1, <3>2, <3>3
  <2>. QED BY <2>9, <2>10, <2>11, <2>12 DEF VercelRecallInv
<1>12. CASE UNCHANGED vercelRecallVars
  BY <1>1, <1>3, <1>12 DEF vercelRecallVars, VercelRecall!TypeOK, VercelRecallAsks,
     VercelRecall!MemoriesAreOwn
<1>. QED
  BY <1>4, <1>5, <1>6, <1>7, <1>8, <1>9, <1>10, <1>11, <1>12 DEF VercelRecall!Next

LEMMA VercelRecallImplies ==
  ASSUME VercelRecallInv PROVE VercelRecall!MemoriesAreOwn /\ VercelRecall!TypeOK
BY DEF VercelRecallInv

\* A step searches when the cache has nothing fresh for it.
LEMMA VercelRecallReuses ==
  ASSUME VercelRecall!RecallAssumption, VercelRecallInv, [VercelRecall!Next]_vercelRecallVars PROVE VercelRecall!StepReuses
<1>. SUFFICES ASSUME NEW c \in Calls, step[c] = "step", step'[c] = "search",
                     NEW e \in VercelRecall!Range(recent), e.from = request[c], ~e.again, ~e.stale
              PROVE  FALSE
  BY DEF VercelRecall!StepReuses
<1>1. VercelRecall!TypeOK /\ VercelRecallAsks /\ VercelRecallKeyed /\ VercelRecallKept
  BY DEF VercelRecallInv
<1>2. /\ vercelCache \in Seq(VercelRecallKeptEntry) /\ Len(vercelCache) \in Nat
      /\ \A i, j \in 1..Len(vercelCache) : vercelCache[i].key = vercelCache[j].key => i = j
  BY <1>1 DEF VercelRecall!TypeOK, VercelRecallKeptEntry
<1>3. PICK i \in 1..Len(recent) : e = recent[i]
  BY <1>1 DEF VercelRecall!TypeOK, VercelRecall!Range
<1>4. PICK j \in 1..Len(vercelCache) : vercelCache[j].from = request[c] /\ ~vercelCache[j].stale
  BY <1>1, <1>3 DEF VercelRecallKept
<1>5. vercelCache[j].key = VercelRecall!RecallKey(request[c]) /\ vercelCache[j] \in VercelRecall!Cached(request[c])
  BY <1>1, <1>2, <1>4 DEF VercelRecallKeyed, VercelRecall!Cached, VercelRecall!Range
<1>6. ~VercelRecall!RecallSearches(c)
  <2>1. ASSUME NEW f \in VercelRecall!Cached(request[c]), f.stale PROVE FALSE
    <3>1. PICK k \in 1..Len(vercelCache) : f = vercelCache[k]
      BY <1>2, <2>1 DEF VercelRecall!Cached, VercelRecall!Range
    <3>2. k = j
      BY <1>2, <1>5, <2>1, <3>1 DEF VercelRecall!Cached
    <3>. QED BY <1>4, <2>1, <3>1, <3>2
  <2>. QED BY <1>5, <2>1 DEF VercelRecall!RecallSearches
<1>7. ASSUME NEW d \in Calls, NEW s, s # "search" \/ d # c, VercelRecall!Goto(d, s) PROVE FALSE
  BY <1>1, <1>7 DEF VercelRecall!Goto, VercelRecall!TypeOK
<1>8. ASSUME UNCHANGED step PROVE FALSE
  BY <1>8
<1>9. ASSUME NEW d \in Calls PROVE ~VercelRecall!RecallSearches(d)
  BY <1>6, <1>7 DEF VercelRecall!RecallSearches
<1>10. ASSUME NEW d \in Calls, NEW raises \in BOOLEAN PROVE ~VercelRecall!SearchFails(d, raises)
  BY <1>7 DEF VercelRecall!SearchFails
<1>11. ASSUME NEW d \in Calls, NEW isTool \in BOOLEAN PROVE ~VercelRecall!ModelReturns(d, isTool)
  BY <1>7 DEF VercelRecall!ModelReturns
<1>12. ASSUME NEW d \in Calls
       PROVE  /\ \A r \in Requests : ~VercelRecall!Begin(d, r)
              /\ ~VercelRecall!RecallFromCache(d) /\ ~VercelRecall!RecallSkips(d) /\ ~VercelRecall!SearchReturns(d)
  BY <1>7 DEF VercelRecall!Begin, VercelRecall!RecallFromCache, VercelRecall!RecallSkips,
     VercelRecall!SearchReturns
<1>. QED BY <1>8, <1>9, <1>10, <1>11, <1>12 DEF VercelRecall!Next, VercelRecall!Expire,
       vercelRecallVars

\* A behaviour of the whole that is this part's is a behaviour of this part.
LEMMA VercelRecallBegins ==
  ASSUME Init, part = "VercelRecall" PROVE VercelRecall!Init
BY DEF Init

LEMMA VercelRecallGoes ==
  ASSUME [Next]_<<part, recallGroup, persistGroup, userGroup, callGroup>>, part = "VercelRecall"
  PROVE  part' = "VercelRecall" /\ [VercelRecall!Next]_vercelRecallVars
<1>1. CASE Next
  BY <1>1 DEF Next, RecallNext, PersistNext, UserNext, CallNext, recallGroup
<1>2. CASE UNCHANGED <<part, recallGroup, persistGroup, userGroup, callGroup>>
  BY <1>2 DEF recallGroup
<1>. QED BY <1>1, <1>2

------------------------------------------------------------------------------
\* The tool loops of the OpenAI hooks.

\* No search went out after now, and what the cache has was put there since the
\* conversation last advanced; a call without a question has no memories.
OpenAIRecallFresh ==
  /\ \A c \in Calls : /\ sentAt[c] <= advances
                      /\ openAIAt[c] # "model" => openAIShown[c] = None
                      /\ openAIAt[c] = "search" => asks[c] \in Queries
  /\ openAICache # None => openAICache.sent = advances \/ late

OpenAIRecallInv == OpenAIRecall!TypeOK /\ OpenAIRecallFresh /\ OpenAIRecall!MemoriesAreOwn

LEMMA OpenAIRecallStarts ==
  ASSUME OpenAIRecall!RecallAssumption, OpenAIRecall!Init PROVE OpenAIRecallInv
<1>1. 0 \in 0..MaxAdvances
  BY DEF OpenAIRecall!RecallAssumption
<1>2. OpenAIRecall!TypeOK
  BY <1>1 DEF OpenAIRecall!Init, OpenAIRecall!TypeOK
<1>. QED BY <1>2 DEF OpenAIRecall!Init, OpenAIRecallInv, OpenAIRecallFresh,
       OpenAIRecall!MemoriesAreOwn

\* A call is given a block of the cache, or of its own search.
LEMMA OpenAIRecallInjects ==
  ASSUME OpenAIRecallInv, NEW c \in Calls, NEW block \in OpenAIRecall!Blocks, OpenAIRecall!Inject(c, block), UNCHANGED advances,
         asks' = [asks EXCEPT ![c] = block.query], UNCHANGED sentAt,
         openAICache' = block, late' \in BOOLEAN, block.sent = advances \/ late'
  PROVE  OpenAIRecallInv'
<1>1. OpenAIRecall!TypeOK /\ OpenAIRecallFresh /\ OpenAIRecall!MemoriesAreOwn
  BY DEF OpenAIRecallInv
<1>2. block.query \in Queries /\ block.sent \in 0..MaxAdvances
  BY DEF OpenAIRecall!Blocks
<1>3. /\ openAIAt' = [openAIAt EXCEPT ![c] = "model"] /\ openAIShown'[c] \in {block, None}
      /\ openAIShown' = [openAIShown EXCEPT ![c] = IF block.hits THEN block ELSE None]
  BY <1>1 DEF OpenAIRecall!Inject, OpenAIRecall!TypeOK
<1>4. OpenAIRecall!TypeOK'
  BY <1>1, <1>2, <1>3 DEF OpenAIRecall!TypeOK
<1>5. OpenAIRecallFresh'
  BY <1>1, <1>2, <1>3 DEF OpenAIRecallFresh, OpenAIRecall!TypeOK
<1>6. OpenAIRecall!MemoriesAreOwn'
  BY <1>1, <1>2, <1>3 DEF OpenAIRecall!MemoriesAreOwn, OpenAIRecall!TypeOK
<1>. QED BY <1>4, <1>5, <1>6 DEF OpenAIRecallInv

LEMMA OpenAIRecallKeeps ==
  ASSUME OpenAIRecall!RecallAssumption, OpenAIRecallInv, [OpenAIRecall!Next]_openAIRecallVars PROVE OpenAIRecallInv'
<1>1. OpenAIRecall!TypeOK /\ OpenAIRecallFresh /\ OpenAIRecall!MemoriesAreOwn
  BY DEF OpenAIRecallInv
<1>2. ASSUME NEW c \in Calls, NEW q \in Queries, OpenAIRecall!FilterFromCache(c, q) PROVE OpenAIRecallInv'
  <2>1. /\ openAICache \in OpenAIRecall!Blocks /\ openAICache.query = q /\ OpenAIRecall!Inject(c, openAICache)
        /\ asks' = [asks EXCEPT ![c] = q] /\ openAICache' = openAICache /\ late' = late
        /\ UNCHANGED <<sentAt, advances>> /\ late \in BOOLEAN
    BY <1>1, <1>2 DEF OpenAIRecall!FilterFromCache, OpenAIRecall!Cached, OpenAIRecall!TypeOK
  <2>2. openAICache.sent = advances \/ late
    BY <1>1, <1>2 DEF OpenAIRecall!FilterFromCache, OpenAIRecall!Cached, OpenAIRecallFresh
  <2>. QED BY <2>1, <2>2, OpenAIRecallInjects
<1>3. ASSUME NEW c \in Calls, NEW q \in Queries, OpenAIRecall!FilterSearches(c, q) PROVE OpenAIRecallInv'
  <2>1. OpenAIRecall!TypeOK'
    BY <1>1, <1>3 DEF OpenAIRecall!FilterSearches, OpenAIRecall!TypeOK
  <2>2. OpenAIRecallFresh' /\ OpenAIRecall!MemoriesAreOwn'
    BY <1>1, <1>3 DEF OpenAIRecall!FilterSearches, OpenAIRecall!TypeOK, OpenAIRecallFresh,
       OpenAIRecall!MemoriesAreOwn
  <2>. QED BY <2>1, <2>2 DEF OpenAIRecallInv
<1>4. ASSUME NEW c \in Calls, OpenAIRecall!FilterSkips(c) PROVE OpenAIRecallInv'
  BY <1>1, <1>4 DEF OpenAIRecall!FilterSkips, OpenAIRecallInv, OpenAIRecall!TypeOK,
     OpenAIRecallFresh, OpenAIRecall!MemoriesAreOwn
<1>5. ASSUME NEW c \in Calls, NEW hits \in BOOLEAN, OpenAIRecall!SearchEnds(c, hits) PROVE OpenAIRecallInv'
  <2> DEFINE block == [query |-> asks[c], hits |-> hits, sent |-> sentAt[c]]
  <2>1. block \in OpenAIRecall!Blocks /\ block.query = asks[c] /\ block.sent = sentAt[c]
    BY <1>1, <1>5 DEF OpenAIRecall!SearchEnds, OpenAIRecall!TypeOK, OpenAIRecallFresh,
       OpenAIRecall!Blocks
  <2>2. /\ openAICache' = block /\ late' = (sentAt[c] < advances) /\ OpenAIRecall!Inject(c, block)
        /\ asks' = asks /\ UNCHANGED <<sentAt, advances>>
    BY <1>5 DEF OpenAIRecall!SearchEnds
  <2>3. asks' = [asks EXCEPT ![c] = asks[c]]
    BY <1>1, <2>2 DEF OpenAIRecall!TypeOK
  <2>4. sentAt[c] <= advances /\ sentAt[c] \in Nat /\ advances \in Nat
    BY <1>1 DEF OpenAIRecall!TypeOK, OpenAIRecallFresh
  <2>5. late' \in BOOLEAN /\ (sentAt[c] = advances \/ late')
    <3>1. CASE sentAt[c] < advances
      BY <2>2, <3>1
    <3>2. CASE ~(sentAt[c] < advances)
      BY <2>2, <2>4, <3>2
    <3>. QED BY <3>1, <3>2
  <2>. HIDE DEF block
  <2>. QED BY <2>1, <2>2, <2>3, <2>5, OpenAIRecallInjects
<1>6. ASSUME NEW c \in Calls, NEW raises \in BOOLEAN, OpenAIRecall!SearchFails(c, raises) PROVE OpenAIRecallInv'
  <2>1. CASE raises
    BY <1>1, <1>6, <2>1 DEF OpenAIRecall!SearchFails, OpenAIRecallInv, OpenAIRecall!TypeOK,
       OpenAIRecallFresh, OpenAIRecall!MemoriesAreOwn
  <2>2. CASE ~raises
    BY <1>5, <1>6, <2>2 DEF OpenAIRecall!SearchFails
  <2>. QED BY <2>1, <2>2
<1>7. ASSUME NEW c \in Calls, OpenAIRecall!ModelReturns(c) PROVE OpenAIRecallInv'
  BY <1>1, <1>7 DEF OpenAIRecall!ModelReturns, OpenAIRecallInv, OpenAIRecall!TypeOK,
     OpenAIRecallFresh, OpenAIRecall!MemoriesAreOwn
<1>8. CASE OpenAIRecall!Advance
  <2>1. advances \in Nat /\ advances' \in 0..MaxAdvances /\ advances' = advances + 1
    BY <1>1, <1>8 DEF OpenAIRecall!Advance, OpenAIRecall!TypeOK, OpenAIRecall!RecallAssumption
  <2>2. OpenAIRecall!TypeOK' /\ OpenAIRecall!MemoriesAreOwn'
    BY <1>1, <1>8, <2>1 DEF OpenAIRecall!Advance, OpenAIRecall!TypeOK,
       OpenAIRecall!MemoriesAreOwn
  <2>3. OpenAIRecallFresh'
    BY <1>1, <1>8, <2>1 DEF OpenAIRecall!Advance, OpenAIRecallFresh, OpenAIRecall!TypeOK
  <2>. QED BY <2>2, <2>3 DEF OpenAIRecallInv
<1>9. CASE UNCHANGED openAIRecallVars
  BY <1>1, <1>9 DEF openAIRecallVars, OpenAIRecallInv, OpenAIRecall!TypeOK, OpenAIRecallFresh,
     OpenAIRecall!MemoriesAreOwn
<1>. QED
  BY <1>2, <1>3, <1>4, <1>5, <1>6, <1>7, <1>8, <1>9 DEF OpenAIRecall!Next,
     OpenAIRecall!SearchReturns

LEMMA OpenAIRecallImplies ==
  ASSUME OpenAIRecallInv PROVE OpenAIRecall!MemoriesAreOwn /\ OpenAIRecall!TypeOK
BY DEF OpenAIRecallInv

\* The cache is the only way to memories without a search.
LEMMA OpenAIRecallReuses ==
  ASSUME OpenAIRecall!RecallAssumption, OpenAIRecallInv, [OpenAIRecall!Next]_openAIRecallVars PROVE OpenAIRecall!StepReuses
<1>. SUFFICES ASSUME NEW c \in Calls, openAIAt[c] = "idle", openAIShown'[c] # None
              PROVE  openAIShown'[c].sent = advances \/ late
  BY DEF OpenAIRecall!StepReuses
<1>1. OpenAIRecall!TypeOK /\ OpenAIRecallFresh
  BY DEF OpenAIRecallInv
<1>2. openAIShown[c] = None
  BY <1>1 DEF OpenAIRecallFresh
<1>3. ASSUME NEW d \in Calls, NEW q \in Queries, OpenAIRecall!FilterFromCache(d, q)
      PROVE  openAIShown'[c].sent = advances \/ late
  BY <1>1, <1>2, <1>3 DEF OpenAIRecall!FilterFromCache, OpenAIRecall!Cached,
     OpenAIRecall!Inject, OpenAIRecall!TypeOK, OpenAIRecallFresh
<1>4. ASSUME NEW d \in Calls, NEW hits \in BOOLEAN, OpenAIRecall!SearchEnds(d, hits) PROVE FALSE
  BY <1>1, <1>2, <1>4 DEF OpenAIRecall!SearchEnds, OpenAIRecall!Inject, OpenAIRecall!TypeOK
<1>5. ASSUME NEW d \in Calls, NEW raises \in BOOLEAN, OpenAIRecall!SearchFails(d, raises) PROVE FALSE
  BY <1>2, <1>4, <1>5 DEF OpenAIRecall!SearchFails
<1>6. ASSUME NEW d \in Calls, OpenAIRecall!ModelReturns(d) PROVE FALSE
  BY <1>1, <1>2, <1>6 DEF OpenAIRecall!ModelReturns, OpenAIRecall!TypeOK
<1>7. ASSUME UNCHANGED openAIShown PROVE FALSE
  BY <1>2, <1>7
<1>. QED BY <1>3, <1>4, <1>5, <1>6, <1>7 DEF OpenAIRecall!Next, OpenAIRecall!SearchReturns,
       OpenAIRecall!FilterSearches, OpenAIRecall!FilterSkips,
            OpenAIRecall!Advance, openAIRecallVars

\* A behaviour of the whole that is this part's is a behaviour of this part.
LEMMA OpenAIRecallBegins ==
  ASSUME Init, part = "OpenAIRecall" PROVE OpenAIRecall!Init
BY DEF Init

LEMMA OpenAIRecallGoes ==
  ASSUME [Next]_<<part, recallGroup, persistGroup, userGroup, callGroup>>, part = "OpenAIRecall"
  PROVE  part' = "OpenAIRecall" /\ [OpenAIRecall!Next]_openAIRecallVars
<1>1. CASE Next
  BY <1>1 DEF Next, RecallNext, PersistNext, UserNext, CallNext, recallGroup
<1>2. CASE UNCHANGED <<part, recallGroup, persistGroup, userGroup, callGroup>>
  BY <1>2 DEF recallGroup
<1>. QED BY <1>1, <1>2

------------------------------------------------------------------------------
\* The exchanges the Vercel middleware writes.

\* The orders of the part are those of the library.
LEMMA VercelPersistLru ==
  /\ \A f : VercelPersist!Range(f) = Range(f)
  /\ \A q, s, S : VercelPersist!IsRest(q, s, S) <=> IsRest(q, s, S)
  /\ \A order, S, cap : VercelPersist!IsOrder(order, S, cap) <=> IsOrder(order, S, cap)
  /\ \A order, x : VercelPersist!Touch(order, x) = Touch(order, x)
  /\ \A order, x : VercelPersist!Without(order, x) = Without(order, x)
  /\ \A order, cap : VercelPersist!Newest(order, cap) = Newest(order, cap)
  /\ \A order, cap : VercelPersist!Oldest(order, cap) = Oldest(order, cap)
<1>1. \A f : VercelPersist!Range(f) = Range(f)
  BY DEF VercelPersist!Range, Range
<1>2. /\ \A order, S, cap : VercelPersist!IsOrder(order, S, cap) <=> IsOrder(order, S, cap)
      /\ \A q, s, S : VercelPersist!IsRest(q, s, S) <=> IsRest(q, s, S)
  BY <1>1 DEF VercelPersist!IsOrder, IsOrder, VercelPersist!IsRest, IsRest
<1>3. /\ \A order, x : VercelPersist!Touch(order, x) = Touch(order, x)
      /\ \A order, x : VercelPersist!Without(order, x) = Without(order, x)
  BY DEF VercelPersist!Touch, Touch, VercelPersist!Without, Without, VercelPersist!Place, Place
<1>4. \A order, cap : VercelPersist!Newest(order, cap) = Newest(order, cap)
  BY DEF VercelPersist!Newest, Newest
<1>5. \A order, cap : VercelPersist!Oldest(order, cap) = Oldest(order, cap)
  BY <1>1, <1>4 DEF VercelPersist!Oldest, Oldest
<1>. QED BY <1>1, <1>2, <1>3, <1>4, <1>5

LEMMA VercelPersistTouchKeepsOrder ==
  ASSUME NEW S, NEW cap \in Nat, NEW order, VercelPersist!IsOrder(order, S, cap), NEW x \in S
  PROVE  /\ VercelPersist!IsOrder(VercelPersist!Touch(order, x), S, cap + 1)
         /\ Len(VercelPersist!Touch(order, x)) > 0
         /\ VercelPersist!Touch(order, x)[Len(VercelPersist!Touch(order, x))] = x
BY VercelPersistLru, TouchKeepsOrder

LEMMA VercelPersistNewestKeepsOrder ==
  ASSUME NEW S, NEW cap \in Nat \ {0}, NEW big \in Nat,
         NEW order, VercelPersist!IsOrder(order, S, big), Len(order) > 0
  PROVE  /\ VercelPersist!IsOrder(VercelPersist!Newest(order, cap), S, cap)
         /\ order[Len(order)] \in VercelPersist!Range(VercelPersist!Newest(order, cap))
         /\ VercelPersist!Range(VercelPersist!Newest(order, cap)) \subseteq VercelPersist!Range(order)
BY VercelPersistLru, NewestKeepsOrder

LEMMA VercelPersistUseKeepsOrder ==
  ASSUME NEW S, NEW cap \in Nat \ {0}, NEW order, VercelPersist!IsOrder(order, S, cap), NEW x \in S
  PROVE  /\ VercelPersist!IsOrder(VercelPersist!Newest(VercelPersist!Touch(order, x), cap), S, cap)
         /\ x \in VercelPersist!Range(VercelPersist!Newest(VercelPersist!Touch(order, x), cap))
BY VercelPersistLru, UseKeepsOrder

LEMMA VercelPersistTouchMembers ==
  ASSUME NEW S, NEW cap \in Nat, NEW order, VercelPersist!IsOrder(order, S, cap), NEW x \in S
  PROVE  VercelPersist!Range(VercelPersist!Touch(order, x)) = VercelPersist!Range(order) \cup {x}
BY VercelPersistLru, TouchMembers

LEMMA VercelPersistWithoutFacts ==
  ASSUME NEW S, NEW cap \in Nat, NEW order, VercelPersist!IsOrder(order, S, cap), NEW x \in S
  PROVE  /\ VercelPersist!IsOrder(VercelPersist!Without(order, x), S, cap)
         /\ VercelPersist!Range(VercelPersist!Without(order, x)) = VercelPersist!Range(order) \ {x}
BY VercelPersistLru, WithoutFacts

LEMMA VercelPersistOrderMembers ==
  ASSUME NEW S, NEW cap, NEW order, VercelPersist!IsOrder(order, S, cap)
  PROVE  VercelPersist!Range(order) \subseteq S
BY VercelPersistLru, OrderMembers

\* The inductive strengthening of WrittenOnce: without a claim, nothing is in
\* flight and nothing has landed but the writes whose answers were lost, unless
\* the bound dropped the claim.
VercelPersistUnclaimedIsFree ==
  \A x \in Exchanges \ pushedOut :
    x \notin VercelPersist!Range(claims) => air[x] + vercelLanded[x] <= vercelLost[x]

VercelPersistInv == VercelPersist!TypeOK /\ VercelPersist!NothingSwallowed /\ VercelPersist!WrittenOnce /\ VercelPersistUnclaimedIsFree

\* A claim is there once it is made, and the claims it costs are recorded.
LEMMA VercelPersistClaimFacts ==
  ASSUME VercelPersist!PersistAssumption, VercelPersist!TypeOK, NEW x \in Exchanges, VercelPersist!Claim(x)
  PROVE  /\ VercelPersist!IsOrder(claims', Exchanges, DedupeSize)
         /\ VercelPersist!Range(claims') \subseteq VercelPersist!Range(claims) \cup {x}
         /\ x \in VercelPersist!Range(claims')
         /\ pushedOut' \subseteq Exchanges
         /\ pushedOut \subseteq pushedOut'
         /\ VercelPersist!Range(claims) \subseteq VercelPersist!Range(claims') \cup pushedOut'
<1> DEFINE all == VercelPersist!Touch(claims, x)
<1>1. DedupeSize \in Nat \ {0} /\ DedupeSize \in Nat /\ VercelPersist!IsOrder(claims, Exchanges, DedupeSize)
  BY DEF VercelPersist!PersistAssumption, VercelPersist!TypeOK
<1>2. VercelPersist!Range(all) = VercelPersist!Range(claims) \cup {x}
  BY <1>1, VercelPersistTouchMembers
<1>3. /\ VercelPersist!IsOrder(VercelPersist!Newest(all, DedupeSize), Exchanges, DedupeSize)
      /\ x \in VercelPersist!Range(VercelPersist!Newest(all, DedupeSize))
  BY <1>1, VercelPersistUseKeepsOrder
<1>4. VercelPersist!Range(VercelPersist!Newest(all, DedupeSize)) \subseteq VercelPersist!Range(all)
  <2>1. VercelPersist!IsOrder(all, Exchanges, DedupeSize + 1) /\ Len(all) > 0 /\ DedupeSize + 1 \in Nat
    BY <1>1, VercelPersistTouchKeepsOrder
  <2>. HIDE DEF all
  <2>. QED BY <1>1, <2>1, VercelPersistNewestKeepsOrder
<1>5. VercelPersist!Range(claims) \subseteq Exchanges
  BY <1>1 DEF VercelPersist!IsOrder, VercelPersist!Range
<1>6. /\ claims' = VercelPersist!Newest(all, DedupeSize)
      /\ pushedOut' = pushedOut \cup (VercelPersist!Range(all) \ VercelPersist!Range(VercelPersist!Newest(all, DedupeSize)))
  BY DEF VercelPersist!Claim, VercelPersist!Oldest
<1>. HIDE DEF all
<1>. QED BY <1>2, <1>3, <1>4, <1>5, <1>6 DEF VercelPersist!TypeOK

LEMMA VercelPersistStarts == ASSUME VercelPersist!PersistAssumption, VercelPersist!Init PROVE VercelPersistInv
<1>1. VercelPersist!IsOrder(<<>>, Exchanges, DedupeSize) /\ VercelPersist!Range(<<>>) = {}
  BY DEF VercelPersist!IsOrder, VercelPersist!Range, VercelPersist!PersistAssumption
<1>. QED BY <1>1 DEF VercelPersistInv, VercelPersist!Init, VercelPersist!TypeOK,
       VercelPersist!NothingSwallowed, VercelPersist!WrittenOnce, VercelPersistUnclaimedIsFree

LEMMA VercelPersistKeeps ==
  ASSUME VercelPersist!PersistAssumption, VercelPersistInv, [VercelPersist!Next]_vercelPersistVars PROVE VercelPersistInv'
<1>. USE DEF VercelPersistInv
<1>1. DedupeSize \in Nat /\ VercelPersist!IsOrder(claims, Exchanges, DedupeSize) /\ VercelPersist!Range(claims) \subseteq Exchanges
  <2>1. VercelPersist!IsOrder(claims, Exchanges, DedupeSize)
    BY DEF VercelPersist!TypeOK
  <2>. QED BY <2>1, VercelPersistOrderMembers DEF VercelPersist!PersistAssumption
<1>2. ASSUME NEW x \in Exchanges, VercelPersist!PersistTurn(x) PROVE VercelPersistInv'
  <2>1. /\ VercelPersist!IsOrder(claims', Exchanges, DedupeSize)
        /\ VercelPersist!Range(claims') \subseteq VercelPersist!Range(claims) \cup {x}
        /\ x \in VercelPersist!Range(claims')
        /\ pushedOut' \subseteq Exchanges
        /\ pushedOut \subseteq pushedOut'
        /\ VercelPersist!Range(claims) \subseteq VercelPersist!Range(claims') \cup pushedOut'
    BY <1>2, VercelPersistClaimFacts DEF VercelPersist!PersistTurn
  <2>2. VercelPersist!TypeOK'
    BY <1>2, <2>1 DEF VercelPersist!PersistTurn, VercelPersist!TypeOK
  <2>3. VercelPersist!NothingSwallowed'
    BY <1>1, <1>2, <2>1 DEF VercelPersist!PersistTurn, VercelPersist!TypeOK,
       VercelPersist!NothingSwallowed
  <2>4. VercelPersist!WrittenOnce'
    BY <1>2, <2>1 DEF VercelPersist!PersistTurn, VercelPersist!TypeOK,
       VercelPersist!WrittenOnce, VercelPersistUnclaimedIsFree
  <2>5. VercelPersistUnclaimedIsFree'
    BY <1>2, <2>1 DEF VercelPersist!PersistTurn, VercelPersist!TypeOK,
       VercelPersistUnclaimedIsFree
  <2>. QED BY <2>2, <2>3, <2>4, <2>5
<1>3. ASSUME NEW x \in Exchanges, VercelPersist!WriteLands(x) PROVE VercelPersistInv'
  <2>1. /\ claims' = claims /\ pushedOut' = pushedOut /\ vercelLost' = vercelLost
        /\ air' \in [Exchanges -> Nat] /\ vercelLanded' \in [Exchanges -> Nat]
        /\ \A y \in Exchanges : air'[y] + vercelLanded'[y] = air[y] + vercelLanded[y]
    BY <1>3 DEF VercelPersist!WriteLands, VercelPersist!WriteSettles, VercelPersist!TypeOK
  <2>2. VercelPersist!TypeOK'
    BY <2>1 DEF VercelPersist!TypeOK
  <2>3. VercelPersist!NothingSwallowed'
    BY <1>1, <2>1 DEF VercelPersist!NothingSwallowed
  <2>4. VercelPersist!WrittenOnce' /\ VercelPersistUnclaimedIsFree'
    BY <2>1 DEF VercelPersist!WrittenOnce, VercelPersistUnclaimedIsFree
  <2>. QED BY <2>2, <2>3, <2>4
<1>4. ASSUME NEW x \in Exchanges, VercelPersist!WriteFails(x) PROVE VercelPersistInv'
  <2>1. VercelPersist!IsOrder(claims', Exchanges, DedupeSize) /\ VercelPersist!Range(claims') = VercelPersist!Range(claims) \ {x}
    BY <1>1, <1>4, VercelPersistWithoutFacts DEF VercelPersist!WriteFails, VercelPersist!Unclaim
  <2>2. /\ pushedOut' = pushedOut
        /\ air[x] \in Nat /\ air[x] > 0 /\ vercelLanded[x] \in Nat /\ vercelLost[x] \in Nat
        /\ air' = [air EXCEPT ![x] = @ - 1]
    BY <1>4 DEF VercelPersist!WriteFails, VercelPersist!WriteSettles, VercelPersist!TypeOK
  <2>3. \/ /\ vercelLanded' = [vercelLanded EXCEPT ![x] = @ + 1]
           /\ vercelLost' = [vercelLost EXCEPT ![x] = @ + 1]
        \/ vercelLanded' = vercelLanded /\ vercelLost' = vercelLost
    BY <1>4 DEF VercelPersist!WriteFails, VercelPersist!LosesAnswer
  <2>4. VercelPersist!TypeOK'
    BY <2>1, <2>2, <2>3 DEF VercelPersist!TypeOK
  <2>5. \A y \in Exchanges : y # x => /\ air'[y] = air[y] /\ vercelLanded'[y] = vercelLanded[y]
                                     /\ vercelLost'[y] = vercelLost[y]
    BY <2>2, <2>3 DEF VercelPersist!TypeOK
  <2>6. VercelPersist!NothingSwallowed'
    BY <1>1, <2>1, <2>5 DEF VercelPersist!NothingSwallowed
  <2>7. x \notin pushedOut => air'[x] + vercelLanded'[x] <= vercelLost'[x]
    BY <2>2, <2>3 DEF VercelPersist!WrittenOnce, VercelPersist!TypeOK
  <2>8. VercelPersist!WrittenOnce' /\ VercelPersistUnclaimedIsFree'
    <3>1. vercelLost'[x] \in Nat /\ air'[x] \in Nat /\ vercelLanded'[x] \in Nat
      BY <2>4 DEF VercelPersist!TypeOK
    <3>. QED BY <2>1, <2>2, <2>5, <2>7, <3>1 DEF VercelPersist!WrittenOnce, VercelPersistUnclaimedIsFree
  <2>. QED BY <2>4, <2>6, <2>8
<1>5. CASE UNCHANGED vercelPersistVars
  BY <1>5 DEF vercelPersistVars, VercelPersist!TypeOK, VercelPersist!NothingSwallowed,
     VercelPersist!WrittenOnce, VercelPersistUnclaimedIsFree
<1>. QED BY <1>2, <1>3, <1>4, <1>5 DEF VercelPersist!Next

LEMMA VercelPersistImplies ==
  ASSUME VercelPersistInv PROVE VercelPersist!WrittenOnce /\ VercelPersist!NothingSwallowed
BY DEF VercelPersistInv

\* A behaviour of the whole that is this part's is a behaviour of this part.
LEMMA VercelPersistBegins ==
  ASSUME Init, part = "VercelPersist" PROVE VercelPersist!Init
BY DEF Init

LEMMA VercelPersistGoes ==
  ASSUME [Next]_<<part, recallGroup, persistGroup, userGroup, callGroup>>, part = "VercelPersist"
  PROVE  part' = "VercelPersist" /\ [VercelPersist!Next]_vercelPersistVars
<1>1. CASE Next
  BY <1>1 DEF Next, RecallNext, PersistNext, UserNext, CallNext, persistGroup
<1>2. CASE UNCHANGED <<part, recallGroup, persistGroup, userGroup, callGroup>>
  BY <1>2 DEF persistGroup
<1>. QED BY <1>1, <1>2

------------------------------------------------------------------------------
\* The turns of the Deep Agents middleware.

\* LatestUserText of a list of messages.
DeepAgentsLatestIn(q) ==
  LET said == {i \in 1..Len(q) : q[i].kind \in Texts}
  IN IF said = {} THEN None ELSE q[CHOOSE i \in said : \A j \in said : j <= i].kind

\* Every message carries its place until the thread is summarised.
DeepAgentsNumbered ==
  ~cut => /\ Len(messages) = made /\ persistedCount <= made
          /\ \A i \in 1..Len(messages) : messages[i].n = i
DeepAgentsSending ==
  /\ IF node = "write" THEN sent = DeepAgents!Pending /\ ~detached ELSE sent = {}
  /\ node = "dispatched" => detached
\* Unless a write's end is unknown, what has landed is behind the count, or will
\* be when the run that sent it has returned its count.
DeepAgentsBehind ==
  ~unsure /\ ~cut =>
    /\ twice = {}
    /\ \A m \in deepLanded : m <= persistedCount \/ (node = "dispatched" /\ m \in DeepAgents!Pending)

DeepAgentsInv == DeepAgents!TypeOK /\ DeepAgentsNumbered /\ DeepAgentsSending /\ DeepAgentsBehind /\ DeepAgents!NothingSwallowed /\ DeepAgents!MemoriesAreOwn

LEMMA DeepAgentsLatestOf ==
  ASSUME NEW q, NEW m \in 1..Len(q), q[m].kind \in Texts,
         \A j \in 1..Len(q) : q[j].kind \in Texts => j <= m, Len(q) \in Nat
  PROVE  DeepAgentsLatestIn(q) = q[m].kind
<1> DEFINE said == {i \in 1..Len(q) : q[i].kind \in Texts}
<1>1. m \in said /\ \A j \in said : j <= m
  OBVIOUS
<1>2. \A k \in said : (\A j \in said : j <= k) => k = m
  BY <1>1
<1>3. (CHOOSE i \in said : \A j \in said : j <= i) = m
  BY <1>1, <1>2
<1>. QED BY <1>1, <1>3 DEF DeepAgentsLatestIn

LEMMA DeepAgentsLastSaid ==
  ASSUME NEW q, Len(q) \in Nat, NEW i \in 1..Len(q), q[i].kind \in Texts
  PROVE  \E m \in 1..Len(q) : /\ q[m].kind \in Texts /\ i <= m
                              /\ \A j \in 1..Len(q) : q[j].kind \in Texts => j <= m
<1> DEFINE said == {k \in 1..Len(q) : q[k].kind \in Texts}
<1>1. said \in SUBSET (1..Len(q)) /\ said # {} /\ i \in said
  OBVIOUS
<1>2. \E m \in said : \A k \in said : k <= m
  BY <1>1, GreatestNumber
<1>. QED BY <1>2

\* What the user said last stays what it was when the model speaks, and when a
\* summary takes what came before.
LEMMA DeepAgentsSpeakingKeeps ==
  ASSUME NEW q \in Seq(DeepAgents!Message), NEW m \in DeepAgents!Message, m.kind \notin Texts
  PROVE  DeepAgentsLatestIn(Append(q, m)) = DeepAgentsLatestIn(q)
<1> DEFINE r == Append(q, m)
<1>1. /\ Len(q) \in Nat /\ Len(r) = Len(q) + 1 /\ r[Len(q) + 1] = m
      /\ \A i \in 1..Len(q) : r[i] = q[i]
  OBVIOUS
<1>. HIDE DEF r
<1>2. CASE \E i \in 1..Len(q) : q[i].kind \in Texts
  <2>1. PICK k \in 1..Len(q) : /\ q[k].kind \in Texts
                               /\ \A j \in 1..Len(q) : q[j].kind \in Texts => j <= k
    BY <1>1, <1>2, DeepAgentsLastSaid
  <2>2. /\ k \in 1..Len(r) /\ r[k].kind \in Texts /\ r[k] = q[k] /\ Len(r) \in Nat
        /\ \A j \in 1..Len(r) : r[j].kind \in Texts => j <= k
    BY <1>1, <2>1
  <2>3. DeepAgentsLatestIn(q) = q[k].kind
    BY <1>1, <2>1, DeepAgentsLatestOf
  <2>4. DeepAgentsLatestIn(r) = r[k].kind
    BY <2>2, DeepAgentsLatestOf
  <2>. QED BY <2>2, <2>3, <2>4 DEF r
<1>3. CASE ~(\E i \in 1..Len(q) : q[i].kind \in Texts)
  <2>1. \A i \in 1..Len(r) : r[i].kind \notin Texts
    BY <1>1, <1>3
  <2>2. DeepAgentsLatestIn(r) = None /\ DeepAgentsLatestIn(q) = None
    BY <1>3, <2>1 DEF DeepAgentsLatestIn
  <2>. QED BY <2>2 DEF r
<1>. QED BY <1>2, <1>3

LEMMA DeepAgentsSummaryKeeps ==
  ASSUME NEW q \in Seq(DeepAgents!Message), NEW i \in 1..Len(q),
         \E j \in (i + 1)..Len(q) : q[j].kind \in Texts
  PROVE  DeepAgentsLatestIn(SubSeq(q, i + 1, Len(q))) = DeepAgentsLatestIn(q)
<1> DEFINE r == SubSeq(q, i + 1, Len(q))
<1>1. /\ Len(q) \in Nat /\ Len(r) = Len(q) - i /\ Len(r) \in Nat
      /\ \A k \in 1..(Len(q) - i) : r[k] = q[k + i]
  OBVIOUS
<1>. HIDE DEF r
<1>2. PICK j \in (i + 1)..Len(q) : q[j].kind \in Texts
  OBVIOUS
<1>3. j \in 1..Len(q)
  BY <1>1
<1>4. PICK k \in 1..Len(q) : /\ q[k].kind \in Texts /\ j <= k
                             /\ \A l \in 1..Len(q) : q[l].kind \in Texts => l <= k
  BY <1>1, <1>2, <1>3, DeepAgentsLastSaid
<1>5. DeepAgentsLatestIn(q) = q[k].kind
  BY <1>1, <1>4, DeepAgentsLatestOf
<1>6. k - i \in 1..Len(r) /\ r[k - i] = q[k]
  BY <1>1, <1>4
<1>7. ASSUME NEW l \in 1..Len(r), r[l].kind \in Texts PROVE l <= k - i
  <2>1. l \in 1..(Len(q) - i) /\ l + i \in 1..Len(q) /\ r[l] = q[l + i]
    BY <1>1
  <2>2. l + i <= k
    BY <1>4, <1>7, <2>1
  <2>. QED BY <1>1, <1>4, <2>1, <2>2
<1>8. DeepAgentsLatestIn(r) = r[k - i].kind
  BY <1>1, <1>4, <1>6, <1>7, DeepAgentsLatestOf
<1>. QED BY <1>5, <1>6, <1>8 DEF r

LEMMA DeepAgentsStarts ==
  ASSUME DeepAgents!ThreadAssumption, DeepAgents!Init PROVE DeepAgentsInv
<1>1. messages = <<>> /\ Len(messages) = 0 /\ 0 \in 0..MaxMessages /\ messages \in Seq(DeepAgents!Message)
  BY DEF DeepAgents!ThreadAssumption, DeepAgents!Init
<1>2. DeepAgents!TypeOK
  <2>1. Len(messages) <= made /\ made \in 0..MaxMessages /\ persistedCount \in 0..MaxMessages
    BY <1>1 DEF DeepAgents!Init
  <2>2. /\ recallQuery = memories /\ memories \in Texts \cup {None} /\ detached \in BOOLEAN
        /\ sent = {} /\ deepLanded = {} /\ twice = {} /\ node = "idle"
        /\ missed = FALSE /\ unsure = FALSE /\ cut = FALSE
    BY DEF DeepAgents!Init
  <2>. QED BY <1>1, <2>1, <2>2 DEF DeepAgents!TypeOK
<1>3. DeepAgentsNumbered /\ DeepAgents!NothingSwallowed
  BY <1>1 DEF DeepAgents!Init, DeepAgentsNumbered, DeepAgents!NothingSwallowed
<1>4. DeepAgentsSending /\ DeepAgentsBehind /\ DeepAgents!MemoriesAreOwn
  BY DEF DeepAgents!Init, DeepAgentsSending, DeepAgentsBehind, DeepAgents!MemoriesAreOwn
<1>. QED BY <1>2, <1>3, <1>4 DEF DeepAgentsInv

LEMMA DeepAgentsKeeps ==
  ASSUME DeepAgents!ThreadAssumption, DeepAgentsInv, [DeepAgents!Next]_deepVars PROVE DeepAgentsInv'
<1>1. /\ MaxMessages \in Nat /\ None \notin Texts
      /\ "answer" \notin Texts /\ "tool" \notin Texts /\ "image" \notin Texts
  BY DEF DeepAgents!ThreadAssumption
<1>2. DeepAgents!TypeOK /\ DeepAgentsNumbered /\ DeepAgentsSending /\ DeepAgentsBehind /\ DeepAgents!NothingSwallowed /\ DeepAgents!MemoriesAreOwn
  BY DEF DeepAgentsInv
<1>3. /\ DeepAgents!LatestUserText = DeepAgentsLatestIn(messages) /\ DeepAgents!LatestUserText' = DeepAgentsLatestIn(messages')
      /\ DeepAgents!LatestUserText \in Texts \cup {None}
  <2>1. DeepAgents!LatestUserText = DeepAgentsLatestIn(messages) /\ DeepAgents!LatestUserText' = DeepAgentsLatestIn(messages')
    BY DEF DeepAgents!LatestUserText, DeepAgentsLatestIn
  <2>2. CASE \E i \in 1..Len(messages) : messages[i].kind \in Texts
    <3>1. messages \in Seq(DeepAgents!Message) /\ Len(messages) \in Nat
      BY <1>2 DEF DeepAgents!TypeOK
    <3>2. PICK k \in 1..Len(messages) :
            /\ messages[k].kind \in Texts
            /\ \A j \in 1..Len(messages) : messages[j].kind \in Texts => j <= k
      BY <2>2, <3>1, DeepAgentsLastSaid
    <3>. QED BY <2>1, <3>1, <3>2, DeepAgentsLatestOf
  <2>3. CASE ~(\E i \in 1..Len(messages) : messages[i].kind \in Texts)
    BY <2>1, <2>3 DEF DeepAgentsLatestIn
  <2>. QED BY <2>1, <2>2, <2>3
\* The thread grows by a message.
<1>4. ASSUME NEW kind \in DeepAgents!Kinds, DeepAgents!Say(kind)
      PROVE  /\ messages' = Append(messages, [n |-> made + 1, kind |-> kind])
             /\ [n |-> made + 1, kind |-> kind] \in DeepAgents!Message
             /\ messages' \in Seq(DeepAgents!Message) /\ Len(messages') = Len(messages) + 1
             /\ made' = made + 1 /\ made' \in 0..MaxMessages /\ Len(messages') <= made'
             /\ \A i \in 1..Len(messages) : messages'[i] = messages[i]
             /\ messages'[Len(messages) + 1].n = made + 1
  <2>1. /\ made \in 0..MaxMessages /\ made < MaxMessages /\ made' = made + 1
        /\ messages' = Append(messages, [n |-> made + 1, kind |-> kind])
    BY <1>2, <1>4 DEF DeepAgents!Say, DeepAgents!TypeOK
  <2>2. made + 1 \in 1..MaxMessages
    BY <1>1, <2>1
  <2>3. [n |-> made + 1, kind |-> kind] \in DeepAgents!Message
    BY <2>2 DEF DeepAgents!Message
  <2>4. messages \in Seq(DeepAgents!Message) /\ Len(messages) <= made /\ Len(messages) \in Nat
    BY <1>2 DEF DeepAgents!TypeOK
  <2>. QED BY <1>1, <2>1, <2>2, <2>3, <2>4
\* What is behind the count stays as it is when a message is added.
<1>5. ASSUME NEW kind \in DeepAgents!Kinds, DeepAgents!Say(kind), UNCHANGED persistedCount,
             UNCHANGED <<detached, sent, deepLanded, twice, unsure, cut>>,
             node \notin {"write", "dispatched"}, node' \notin {"write", "dispatched"}
      PROVE  (DeepAgentsNumbered /\ DeepAgentsSending /\ DeepAgentsBehind /\ DeepAgents!NothingSwallowed)'
  <2>1. /\ Len(messages) \in Nat /\ persistedCount \in Nat /\ made \in Nat
    BY <1>1, <1>2 DEF DeepAgents!TypeOK
  <2>2. DeepAgentsNumbered'
    <3>. SUFFICES ASSUME ~cut
                  PROVE  /\ Len(messages') = made' /\ persistedCount <= made'
                         /\ \A i \in 1..Len(messages') : messages'[i].n = i
      BY <1>5 DEF DeepAgentsNumbered
    <3>1. /\ Len(messages) = made /\ persistedCount <= made
          /\ \A i \in 1..Len(messages) : messages[i].n = i
      BY <1>2 DEF DeepAgentsNumbered
    <3>2. /\ Len(messages') = Len(messages) + 1 /\ made' = made + 1
          /\ \A i \in 1..Len(messages) : messages'[i] = messages[i]
          /\ messages'[Len(messages) + 1].n = made + 1
      BY <1>4, <1>5
    <3>3. ASSUME NEW i \in 1..Len(messages') PROVE messages'[i].n = i
      <4>1. CASE i \in 1..Len(messages)
        BY <3>1, <3>2, <4>1
      <4>2. CASE i = Len(messages) + 1
        BY <3>1, <3>2, <4>2
      <4>. QED BY <2>1, <3>2, <4>1, <4>2
    <3>. QED BY <2>1, <3>1, <3>2, <3>3
  <2>3. DeepAgentsSending' /\ DeepAgentsBehind'
    BY <1>2, <1>5 DEF DeepAgentsSending, DeepAgentsBehind
  <2>4. DeepAgents!NothingSwallowed'
    <3>. SUFFICES ASSUME ~detached, ~cut, NEW i \in 1..persistedCount,
                         messages'[i].kind \in DeepAgents!Storable
                  PROVE  messages'[i].n \in deepLanded
      BY <1>5 DEF DeepAgents!NothingSwallowed
    <3>1. i \in 1..Len(messages)
      BY <1>2, <2>1 DEF DeepAgentsNumbered
    <3>2. messages'[i] = messages[i]
      BY <1>4, <1>5, <3>1
    <3>. QED BY <1>2, <3>2 DEF DeepAgents!NothingSwallowed
  <2>. QED BY <2>2, <2>3, <2>4
\* A step that leaves the thread and what is stored of it alone.
<1>6. ASSUME UNCHANGED <<detached, messages, made, persistedCount, sent, deepLanded, twice, unsure, cut>>,
             node \notin {"write", "dispatched"}, node' \notin {"write", "dispatched"}
      PROVE  (DeepAgentsNumbered /\ DeepAgentsSending /\ DeepAgentsBehind /\ DeepAgents!NothingSwallowed)'
  BY <1>2, <1>6 DEF DeepAgentsNumbered, DeepAgentsSending, DeepAgentsBehind,
     DeepAgents!NothingSwallowed
<1>. USE DEF DeepAgents!stateKeys, DeepAgents!histories
<1>7. CASE DeepAgents!Invoke
  <2>1. /\ node = "idle" /\ node' = "beforeAgent" /\ missed' = FALSE
        /\ UNCHANGED <<detached, recallQuery, memories, persistedCount, sent, deepLanded, twice,
                       unsure, cut>>
    BY <1>7 DEF DeepAgents!Invoke
  <2>2. CASE UNCHANGED <<messages, made>>
    BY <1>2, <1>6, <2>1, <2>2 DEF DeepAgentsInv, DeepAgents!TypeOK, DeepAgents!MemoriesAreOwn
  <2>3. CASE \E kind \in Texts \cup {"image"} : DeepAgents!Say(kind)
    <3>1. PICK kind \in DeepAgents!Kinds : DeepAgents!Say(kind)
      BY <2>3 DEF DeepAgents!Kinds
    <3>2. DeepAgents!TypeOK'
      BY <1>2, <1>4, <2>1, <3>1 DEF DeepAgents!TypeOK
    <3>3. (DeepAgentsNumbered /\ DeepAgentsSending /\ DeepAgentsBehind /\ DeepAgents!NothingSwallowed)'
      BY <1>5, <2>1, <3>1
    <3>. QED BY <2>1, <3>2, <3>3 DEF DeepAgentsInv, DeepAgents!MemoriesAreOwn
  <2>. QED BY <1>7, <2>2, <2>3 DEF DeepAgents!Invoke
<1>8. CASE DeepAgents!RecallSkips
  <2>1. /\ node = "beforeAgent" /\ node' = "model" /\ missed' \in BOOLEAN
        /\ missed' = (DeepAgents!LatestUserText = None \/ ~DeepAgents!AlreadyRecalled(DeepAgents!LatestUserText))
        /\ UNCHANGED <<detached, messages, made, recallQuery, memories, persistedCount, sent,
                       deepLanded, twice, unsure, cut>>
    BY <1>8 DEF DeepAgents!RecallSkips
  <2>2. DeepAgents!TypeOK'
    BY <1>2, <2>1 DEF DeepAgents!TypeOK
  <2>3. DeepAgents!LatestUserText' = DeepAgents!LatestUserText
    BY <1>3, <2>1
  <2>4. ~missed' => recallQuery = DeepAgents!LatestUserText
    BY <2>1 DEF DeepAgents!AlreadyRecalled
  <2>5. DeepAgents!MemoriesAreOwn'
    BY <1>2, <2>1, <2>3, <2>4 DEF DeepAgents!MemoriesAreOwn, DeepAgents!TypeOK
  <2>. QED BY <1>6, <2>1, <2>2, <2>5 DEF DeepAgentsInv
<1>9. CASE DeepAgents!RecallSearches
  BY <1>2, <1>6, <1>9 DEF DeepAgents!RecallSearches, DeepAgentsInv, DeepAgents!TypeOK,
     DeepAgents!MemoriesAreOwn
<1>10. CASE DeepAgents!SearchReturns
  <2>1. DeepAgents!LatestUserText' = DeepAgents!LatestUserText
    BY <1>3, <1>10 DEF DeepAgents!SearchReturns
  <2>. QED BY <1>2, <1>3, <1>6, <1>10, <2>1 DEF DeepAgents!SearchReturns, DeepAgentsInv,
         DeepAgents!TypeOK, DeepAgents!MemoriesAreOwn
<1>11. ASSUME NEW raises \in BOOLEAN, DeepAgents!SearchFails(raises) PROVE DeepAgentsInv'
  BY <1>2, <1>6, <1>11 DEF DeepAgents!SearchFails, DeepAgentsInv, DeepAgents!TypeOK,
     DeepAgents!MemoriesAreOwn
<1>12. ASSUME NEW kind \in {"answer", "tool"}, DeepAgents!ModelReturns(kind) PROVE DeepAgentsInv'
  <2>1. /\ node = "model" /\ node' \in {"model", "afterAgent"} /\ DeepAgents!Say(kind) /\ kind \in DeepAgents!Kinds
        /\ UNCHANGED <<detached, recallQuery, memories, persistedCount, sent, deepLanded, twice,
                       missed, unsure, cut>>
    BY <1>12 DEF DeepAgents!ModelReturns, DeepAgents!Kinds
  <2>2. DeepAgents!TypeOK'
    BY <1>2, <1>4, <2>1 DEF DeepAgents!TypeOK
  <2>3. (DeepAgentsNumbered /\ DeepAgentsSending /\ DeepAgentsBehind /\ DeepAgents!NothingSwallowed)'
    BY <1>5, <2>1
  <2>4. DeepAgents!LatestUserText' = DeepAgents!LatestUserText
    <3>1. messages \in Seq(DeepAgents!Message)
      BY <1>2 DEF DeepAgents!TypeOK
    <3>2. [n |-> made + 1, kind |-> kind].kind \notin Texts
      BY <1>1
    <3>. QED BY <1>3, <1>4, <2>1, <3>1, <3>2, DeepAgentsSpeakingKeeps
  <2>5. DeepAgents!MemoriesAreOwn'
    BY <1>2, <2>1, <2>4 DEF DeepAgents!MemoriesAreOwn
  <2>. QED BY <2>2, <2>3, <2>5 DEF DeepAgentsInv
<1>13. ASSUME NEW i \in 1..MaxMessages, DeepAgents!Summarise(i) PROVE DeepAgentsInv'
  <2>1. /\ node = "model" /\ i \in 1..Len(messages)
        /\ \E j \in (i + 1)..Len(messages) : messages[j].kind \in Texts
        /\ messages' = SubSeq(messages, i + 1, Len(messages)) /\ cut' = TRUE
        /\ UNCHANGED <<detached, made, node, recallQuery, memories, persistedCount, sent, deepLanded,
                       twice, missed, unsure>>
    BY <1>13 DEF DeepAgents!Summarise
  <2>2. messages \in Seq(DeepAgents!Message) /\ Len(messages) <= made /\ Len(messages) \in Nat
        /\ made \in Nat
    BY <1>1, <1>2 DEF DeepAgents!TypeOK
  <2>3. messages' \in Seq(DeepAgents!Message) /\ Len(messages') <= made
    BY <2>1, <2>2
  <2>4. DeepAgents!TypeOK'
    BY <1>2, <2>1, <2>3 DEF DeepAgents!TypeOK
  <2>5. (DeepAgentsNumbered /\ DeepAgentsSending /\ DeepAgentsBehind /\ DeepAgents!NothingSwallowed)'
    BY <1>2, <2>1 DEF DeepAgentsNumbered, DeepAgentsSending, DeepAgentsBehind,
       DeepAgents!NothingSwallowed
  <2>6. DeepAgents!LatestUserText' = DeepAgents!LatestUserText
    BY <1>3, <2>1, <2>2, DeepAgentsSummaryKeeps
  <2>7. DeepAgents!MemoriesAreOwn'
    BY <1>2, <2>1, <2>6 DEF DeepAgents!MemoriesAreOwn
  <2>. QED BY <2>4, <2>5, <2>7 DEF DeepAgentsInv
<1>14. CASE DeepAgents!AfterSkips
  BY <1>2, <1>6, <1>14 DEF DeepAgents!AfterSkips, DeepAgentsInv, DeepAgents!TypeOK,
     DeepAgents!MemoriesAreOwn
\* What is pending is what the thread has behind the count, under its places.
<1>15. /\ DeepAgents!Pending \subseteq 1..MaxMessages
       /\ ~cut => /\ \A m \in DeepAgents!Pending : m > persistedCount /\ m <= Len(messages)
                  /\ \A i \in (persistedCount + 1)..Len(messages) :
                       messages[i].kind \in DeepAgents!Storable => messages[i].n \in DeepAgents!Pending
  <2>1. /\ messages \in Seq(DeepAgents!Message) /\ persistedCount \in Nat /\ Len(messages) \in Nat
    BY <1>1, <1>2 DEF DeepAgents!TypeOK
  <2>2. \A i \in 1..Len(messages) : messages[i].n \in 1..MaxMessages
    <3>1. \A m \in DeepAgents!Message : m.n \in 1..MaxMessages
      BY DEF DeepAgents!Message
    <3>2. \A i \in 1..Len(messages) : messages[i] \in DeepAgents!Message
      BY <2>1
    <3>. QED BY <3>1, <3>2
  <2>. QED BY <1>2, <2>1, <2>2 DEF DeepAgents!Pending, DeepAgentsNumbered
<1>16. /\ DeepAgents!Pending \subseteq 1..MaxMessages /\ deepLanded \subseteq 1..MaxMessages
       /\ Len(messages) <= made /\ made \in 0..MaxMessages /\ Len(messages) \in Nat
       /\ persistedCount \in Nat
  BY <1>1, <1>2, <1>15 DEF DeepAgents!TypeOK
<1>17. CASE DeepAgents!AfterDispatches
  <2>1. /\ node = "afterAgent" /\ node' = "dispatched" /\ detached
        /\ UNCHANGED <<detached, messages, made, recallQuery, memories, persistedCount, sent, missed,
                       unsure, cut>>
        /\ DeepAgents!Arrive(DeepAgents!Pending) \/ UNCHANGED <<deepLanded, twice>>
    BY <1>17 DEF DeepAgents!AfterDispatches
  <2>2. /\ DeepAgents!Pending' = DeepAgents!Pending /\ deepLanded' \subseteq deepLanded \cup DeepAgents!Pending
        /\ twice' \subseteq twice \cup (DeepAgents!Pending \cap deepLanded) /\ twice' \subseteq deepLanded'
    BY <1>2, <2>1 DEF DeepAgents!Arrive, DeepAgents!Pending, DeepAgents!TypeOK
  <2>3. DeepAgents!TypeOK'
    BY <1>2, <1>16, <2>1, <2>2 DEF DeepAgents!TypeOK
  <2>4. DeepAgentsBehind'
    <3>. SUFFICES ASSUME ~unsure, ~cut
                  PROVE  /\ twice' = {}
                         /\ \A m \in deepLanded' : m <= persistedCount \/ m \in DeepAgents!Pending
      BY <2>1, <2>2 DEF DeepAgentsBehind
    <3>1. twice = {} /\ \A m \in deepLanded : m <= persistedCount
      BY <1>2, <2>1 DEF DeepAgentsBehind
    <3>2. DeepAgents!Pending \cap deepLanded = {}
      BY <1>1, <1>15, <1>16, <3>1
    <3>. QED BY <2>2, <3>1, <3>2
  <2>. QED BY <1>2, <2>1, <2>3, <2>4 DEF DeepAgentsInv, DeepAgentsNumbered, DeepAgentsSending,
         DeepAgents!NothingSwallowed, DeepAgents!MemoriesAreOwn
\* What was written is behind the count that moved up.
<1>18. ASSUME DeepAgents!AdvanceCount, ~unsure, ~cut,
              \A m \in deepLanded' : m \in deepLanded \/ m \in DeepAgents!Pending
       PROVE  \A m \in deepLanded' : m <= persistedCount'
  <2>1. persistedCount' = Len(messages) /\ persistedCount <= Len(messages)
    BY <1>2, <1>16, <1>18 DEF DeepAgents!AdvanceCount, DeepAgentsNumbered
  <2>2. ASSUME NEW m \in deepLanded' PROVE m <= Len(messages)
    <3>1. CASE m \in DeepAgents!Pending
      BY <1>15, <1>18, <3>1
    <3>2. CASE m \in deepLanded /\ m \notin DeepAgents!Pending
      <4>1. m <= persistedCount /\ m \in 1..MaxMessages
        BY <1>2, <1>16, <1>18, <3>2 DEF DeepAgentsBehind
      <4>. QED BY <1>1, <1>16, <2>1, <4>1
    <3>. QED BY <1>18, <2>2, <3>1, <3>2
  <2>. QED BY <2>1, <2>2
<1>19. CASE DeepAgents!AfterReturns
  <2>1. /\ node = "dispatched" /\ node' = "idle" /\ DeepAgents!AdvanceCount /\ detached
        /\ UNCHANGED <<detached, messages, made, recallQuery, memories, sent, deepLanded, twice, missed,
                       unsure, cut>>
    BY <1>2, <1>19 DEF DeepAgents!AfterReturns, DeepAgentsSending
  <2>2. DeepAgents!TypeOK' /\ DeepAgentsNumbered'
    BY <1>1, <1>2, <1>16, <2>1 DEF DeepAgents!TypeOK, DeepAgents!AdvanceCount, DeepAgentsNumbered
  <2>3. DeepAgentsBehind'
    BY <1>2, <1>18, <2>1 DEF DeepAgentsBehind
  <2>. QED BY <1>2, <2>1, <2>2, <2>3 DEF DeepAgentsInv, DeepAgentsSending,
         DeepAgents!NothingSwallowed, DeepAgents!MemoriesAreOwn
<1>20. CASE DeepAgents!AfterWrites
  <2>1. /\ node' = "write" /\ sent' = DeepAgents!Pending /\ ~detached
        /\ UNCHANGED <<detached, messages, made, recallQuery, memories, persistedCount, deepLanded,
                       twice, missed, unsure, cut>>
    BY <1>20 DEF DeepAgents!AfterWrites
  <2>2. DeepAgents!Pending' = DeepAgents!Pending
    BY <2>1 DEF DeepAgents!Pending
  <2>3. DeepAgents!TypeOK'
    BY <1>2, <1>15, <2>1 DEF DeepAgents!TypeOK
  <2>. QED BY <1>2, <2>1, <2>2, <2>3 DEF DeepAgentsInv, DeepAgentsNumbered, DeepAgentsSending,
         DeepAgentsBehind, DeepAgents!NothingSwallowed,
              DeepAgents!MemoriesAreOwn
<1>21. CASE DeepAgents!WriteLands
  <2>1. /\ node = "write" /\ node' = "idle" /\ sent' = {} /\ DeepAgents!AdvanceCount /\ ~detached
        /\ UNCHANGED <<detached, messages, made, recallQuery, memories, missed, unsure, cut>>
        /\ deepLanded' = deepLanded \cup DeepAgents!Pending
        /\ twice' = twice \cup (DeepAgents!Pending \cap deepLanded)
    BY <1>2, <1>21 DEF DeepAgents!WriteLands, DeepAgentsSending, DeepAgents!Arrive
  <2>2. DeepAgents!TypeOK' /\ DeepAgentsNumbered'
    BY <1>1, <1>2, <1>16, <2>1 DEF DeepAgents!TypeOK, DeepAgents!AdvanceCount, DeepAgentsNumbered
  <2>3. DeepAgentsBehind'
    <3>. SUFFICES ASSUME ~unsure, ~cut
                  PROVE  twice' = {} /\ \A m \in deepLanded' : m <= persistedCount'
      BY <2>1 DEF DeepAgentsBehind
    <3>1. twice = {} /\ \A m \in deepLanded : m <= persistedCount
      BY <1>2, <2>1 DEF DeepAgentsBehind
    <3>2. DeepAgents!Pending \cap deepLanded = {}
      BY <1>1, <1>15, <1>16, <3>1
    <3>. QED BY <1>18, <2>1, <3>1, <3>2
  <2>4. DeepAgents!NothingSwallowed'
    <3>. SUFFICES ASSUME ~cut, NEW i \in 1..Len(messages), messages[i].kind \in DeepAgents!Storable
                  PROVE  messages[i].n \in deepLanded'
      BY <2>1 DEF DeepAgents!NothingSwallowed, DeepAgents!AdvanceCount
    <3>1. CASE i <= persistedCount
      BY <1>2, <1>16, <2>1, <3>1 DEF DeepAgents!NothingSwallowed
    <3>2. CASE ~(i <= persistedCount)
      BY <1>15, <1>16, <2>1, <3>2
    <3>. QED BY <3>1, <3>2
  <2>. QED BY <2>1, <2>2, <2>3, <2>4 DEF DeepAgentsInv, DeepAgentsSending, DeepAgents!MemoriesAreOwn
\* A write that fails, or dies, leaves the count; if it arrived, nobody knows.
<1>22. ASSUME node' = "idle", sent' = {}, UNCHANGED <<detached, messages, made, recallQuery, memories,
                                                      persistedCount, missed, cut>>,
              \/ /\ UNCHANGED <<deepLanded, twice>> /\ unsure' \in {unsure, TRUE}
                 /\ node = "dispatched" => unsure' = TRUE
              \/ DeepAgents!Arrive(sent) /\ unsure' = TRUE
       PROVE  DeepAgentsInv'
  <2>1. /\ deepLanded \subseteq deepLanded' /\ deepLanded' \subseteq 1..MaxMessages /\ twice' \subseteq deepLanded'
        /\ unsure' \in BOOLEAN
    BY <1>2, <1>22 DEF DeepAgents!TypeOK, DeepAgents!Arrive
  <2>2. DeepAgents!TypeOK'
    BY <1>2, <1>22, <2>1 DEF DeepAgents!TypeOK
  <2>3. DeepAgentsBehind'
    BY <1>2, <1>22 DEF DeepAgentsBehind
  <2>4. DeepAgents!NothingSwallowed' /\ DeepAgentsNumbered'
    BY <1>2, <1>22, <2>1 DEF DeepAgents!NothingSwallowed, DeepAgentsNumbered
  <2>. QED BY <1>22, <2>2, <2>3, <2>4 DEF DeepAgentsInv, DeepAgentsSending,
         DeepAgents!MemoriesAreOwn
<1>23. CASE DeepAgents!WriteFails
  BY <1>22, <1>23 DEF DeepAgents!WriteFails
<1>24. CASE DeepAgents!RunDies
  BY <1>22, <1>24 DEF DeepAgents!RunDies
<1>25. CASE UNCHANGED deepVars
  <2>1. DeepAgents!LatestUserText' = DeepAgents!LatestUserText /\ DeepAgents!Pending' = DeepAgents!Pending
    BY <1>3, <1>25 DEF deepVars, DeepAgents!Pending
  <2>. QED BY <1>2, <1>25, <2>1 DEF deepVars, DeepAgentsInv, DeepAgents!TypeOK,
         DeepAgentsNumbered, DeepAgentsSending, DeepAgentsBehind,
              DeepAgents!NothingSwallowed, DeepAgents!MemoriesAreOwn
<1>. QED
  BY <1>7, <1>8, <1>9, <1>10, <1>11, <1>12, <1>13, <1>14, <1>17, <1>19, <1>20, <1>21, <1>23, <1>24,
     <1>25 DEF DeepAgents!Next

LEMMA DeepAgentsImplies ==
  ASSUME DeepAgentsInv PROVE DeepAgents!WrittenOnce /\ DeepAgents!NothingSwallowed /\ DeepAgents!MemoriesAreOwn
BY DEF DeepAgentsInv, DeepAgentsBehind, DeepAgents!WrittenOnce

\* A behaviour of the whole that is this part's is a behaviour of this part.
LEMMA DeepAgentsBegins ==
  ASSUME Init, part = "DeepAgents" PROVE DeepAgents!Init
BY DEF Init

LEMMA DeepAgentsGoes ==
  ASSUME [Next]_<<part, recallGroup, persistGroup, userGroup, callGroup>>, part = "DeepAgents"
  PROVE  part' = "DeepAgents" /\ [DeepAgents!Next]_deepVars
<1>1. CASE Next
  BY <1>1 DEF Next, RecallNext, PersistNext, UserNext, CallNext, persistGroup
<1>2. CASE UNCHANGED <<part, recallGroup, persistGroup, userGroup, callGroup>>
  BY <1>2 DEF persistGroup
<1>. QED BY <1>1, <1>2

------------------------------------------------------------------------------
\* The turns of the n8n memory node.

N8nMemoryLoad == [query : Spellings, old : BOOLEAN]
N8nMemoryEntry == {e \in [key : Spellings, query : Spellings, stale : BOOLEAN, old : BOOLEAN] :
                     e.key = LowerCase[e.query]}

\* A pair counts as written exactly while its fingerprint is kept, and what waits
\* for its other half can only meet the half of its own turn.
N8nMemoryHalves ==
  /\ half = "human" => pendingHuman \in {None, 0, n8nTurn}
  /\ pendingAi \in {None, 0}
N8nMemoryFingers ==
  \A p \in N8nMemory!Pairs : written[p] = IF p \in N8nMemory!Range(fingerprints) THEN 1 ELSE 0
N8nMemoryMatched ==
  \A p \in N8nMemory!Range(fingerprints) : p[1] # 0 /\ p[2] # 0 => p[1] = p[2]

\* What is out of date in the cache is marked so.
N8nMemoryFresh ==
  /\ hitCache \in Seq(N8nMemoryEntry) /\ Len(hitCache) <= CacheEntries
  /\ \A i \in 1..Len(hitCache) : hitCache[i].old => hitCache[i].stale
  /\ \A l \in Calls : loads[l] = None \/ loads[l] \in N8nMemoryLoad
  /\ loads = [l \in Calls |-> loads[l]]
  /\ N8nMemory!MemoriesAreOwn

N8nMemoryHost ==
  /\ n8nTurn \in 0..N8nTurns /\ half \in {"none", "human", "ai"}
  /\ content \in [text : BOOLEAN, answer : BOOLEAN]
  /\ pendingHuman \in N8nMemory!Half \cup {None} /\ pendingAi \in N8nMemory!Half \cup {None}
N8nMemoryKept ==
  /\ fingerprints \in Seq(N8nMemory!Pairs) /\ Len(fingerprints) <= MaxFingerprints
  /\ \A i, j \in 1..Len(fingerprints) : fingerprints[i] = fingerprints[j] => i = j
  /\ written \in [N8nMemory!Pairs -> Nat]

N8nMemoryInv == N8nMemoryHost /\ N8nMemoryKept /\ N8nMemoryHalves /\ N8nMemoryFingers /\ N8nMemoryMatched /\ N8nMemoryFresh

LEMMA N8nMemoryStarts ==
  ASSUME N8nMemory!ChatAssumption, N8nMemory!Init PROVE N8nMemoryInv
<1>1. N8nMemory!Range(<<>>) = {}
  BY DEF N8nMemory!Range
<1>2. N8nMemoryHost /\ N8nMemoryHalves
  BY DEF N8nMemory!Init, N8nMemoryHost, N8nMemoryHalves, N8nMemory!Half,
     N8nMemory!ChatAssumption
<1>3. N8nMemoryKept /\ N8nMemoryFingers /\ N8nMemoryMatched
  BY <1>1 DEF N8nMemory!Init, N8nMemoryKept, N8nMemoryFingers, N8nMemoryMatched,
     N8nMemory!ChatAssumption
<1>4. N8nMemoryFresh
  BY DEF N8nMemory!Init, N8nMemoryFresh, N8nMemory!MemoriesAreOwn, N8nMemory!ChatAssumption
<1>. QED BY <1>2, <1>3, <1>4 DEF N8nMemoryInv

\* Where the members of an order of fingerprints go.
LEMMA N8nMemoryPushes ==
  ASSUME NEW S, NEW q \in Seq(S), NEW p \in S,
         \A i, j \in 1..Len(q) : q[i] = q[j] => i = j,
         \A i \in 1..Len(q) : q[i] # p
  PROVE  /\ Append(q, p) \in Seq(S) /\ Len(Append(q, p)) = Len(q) + 1
         /\ Tail(Append(q, p)) \in Seq(S) /\ Len(Tail(Append(q, p))) = Len(q)
         /\ \A i, j \in 1..Len(Append(q, p)) : Append(q, p)[i] = Append(q, p)[j] => i = j
         /\ \A i, j \in 1..Len(Tail(Append(q, p))) :
              Tail(Append(q, p))[i] = Tail(Append(q, p))[j] => i = j
         /\ N8nMemory!Range(Append(q, p)) = N8nMemory!Range(q) \cup {p}
         /\ N8nMemory!Range(Tail(Append(q, p))) = (N8nMemory!Range(q) \cup {p}) \ {Head(Append(q, p))}
<1> DEFINE all == Append(q, p)
<1>1. /\ all \in Seq(S) /\ Len(all) = Len(q) + 1 /\ Len(q) \in Nat
      /\ \A i \in 1..Len(q) : all[i] = q[i]
      /\ all[Len(q) + 1] = p /\ DOMAIN all = 1..(Len(q) + 1) /\ DOMAIN q = 1..Len(q)
  OBVIOUS
<1>2. \A i, j \in 1..Len(all) : all[i] = all[j] => i = j
  BY <1>1
<1>3. N8nMemory!Range(all) = N8nMemory!Range(q) \cup {p}
  BY <1>1 DEF N8nMemory!Range
<1>. HIDE DEF all
<1>4. /\ Tail(all) \in Seq(S) /\ Len(Tail(all)) = Len(q) /\ DOMAIN Tail(all) = 1..Len(q)
      /\ \A i \in 1..Len(q) : Tail(all)[i] = all[i + 1]
      /\ Head(all) = all[1]
  BY <1>1
<1>5. \A i, j \in 1..Len(Tail(all)) : Tail(all)[i] = Tail(all)[j] => i = j
  BY <1>1, <1>2, <1>4
<1>6. N8nMemory!Range(Tail(all)) = N8nMemory!Range(all) \ {Head(all)}
  <2>1. \A e \in N8nMemory!Range(Tail(all)) : e \in N8nMemory!Range(all) /\ e # Head(all)
    BY <1>1, <1>2, <1>4 DEF N8nMemory!Range
  <2>2. ASSUME NEW e \in N8nMemory!Range(all), e # Head(all) PROVE e \in N8nMemory!Range(Tail(all))
    <3>1. PICK i \in 1..(Len(q) + 1) : e = all[i]
      BY <1>1, <2>2 DEF N8nMemory!Range
    <3>2. i # 1 /\ i - 1 \in 1..Len(q)
      BY <1>1, <1>4, <2>2, <3>1
    <3>3. Tail(all)[i - 1] = e
      BY <1>1, <1>4, <3>1, <3>2
    <3>. QED BY <1>4, <3>2, <3>3 DEF N8nMemory!Range
  <2>. QED BY <2>1, <2>2
<1>. QED BY <1>1, <1>2, <1>3, <1>4, <1>5, <1>6 DEF all

LEMMA N8nMemoryMembers ==
  ASSUME NEW S, NEW q \in Seq(S)
  PROVE  /\ N8nMemory!Range(q) \subseteq S
         /\ \A e : e \in N8nMemory!Range(q) <=> \E i \in 1..Len(q) : q[i] = e
<1>1. DOMAIN q = 1..Len(q) /\ \A i \in 1..Len(q) : q[i] \in S
  OBVIOUS
<1>. QED BY <1>1 DEF N8nMemory!Range

\* A pair is written at most once until it is forgotten.
LEMMA N8nMemoryPersists ==
  ASSUME N8nMemory!ChatAssumption, N8nMemoryInv, NEW p \in N8nMemory!Pairs, N8nMemory!PersistPair(p),
         p[1] # 0 /\ p[2] # 0 => p[1] = p[2]
  PROVE  (N8nMemoryKept /\ N8nMemoryFingers /\ N8nMemoryMatched)'
<1> DEFINE all == Append(fingerprints, p)
           forgotten == IF Len(all) > MaxFingerprints THEN {Head(all)} ELSE {}
<1>1. CASE UNCHANGED <<fingerprints, written>>
  BY <1>1 DEF N8nMemoryInv, N8nMemoryKept, N8nMemoryFingers, N8nMemoryMatched
<1>2. CASE ~UNCHANGED <<fingerprints, written>>
  <2>1. /\ p \notin N8nMemory!Range(fingerprints)
        /\ fingerprints' = IF forgotten = {} THEN all ELSE Tail(all)
        /\ written' = [q \in N8nMemory!Pairs |-> IF q \in forgotten THEN 0
                                       ELSE IF q = p THEN written[q] + 1 ELSE written[q]]
    BY <1>2 DEF N8nMemory!PersistPair
  <2>2. fingerprints \in Seq(N8nMemory!Pairs) /\ Len(fingerprints) <= MaxFingerprints
        /\ \A i, j \in 1..Len(fingerprints) : fingerprints[i] = fingerprints[j] => i = j
    BY DEF N8nMemoryInv, N8nMemoryKept
  <2>3. \A i \in 1..Len(fingerprints) : fingerprints[i] # p
    BY <2>1, <2>2, N8nMemoryMembers
  <2>4. /\ all \in Seq(N8nMemory!Pairs) /\ Len(all) = Len(fingerprints) + 1
        /\ Tail(all) \in Seq(N8nMemory!Pairs) /\ Len(Tail(all)) = Len(fingerprints)
        /\ \A i, j \in 1..Len(all) : all[i] = all[j] => i = j
        /\ \A i, j \in 1..Len(Tail(all)) : Tail(all)[i] = Tail(all)[j] => i = j
        /\ N8nMemory!Range(all) = N8nMemory!Range(fingerprints) \cup {p}
        /\ N8nMemory!Range(Tail(all)) = (N8nMemory!Range(fingerprints) \cup {p}) \ {Head(all)}
    BY <2>2, <2>3, N8nMemoryPushes
  <2>5. MaxFingerprints \in Nat /\ Len(fingerprints) \in Nat
    BY <2>2 DEF N8nMemory!ChatAssumption
  <2>. HIDE DEF all
  <2>6. N8nMemory!Range(fingerprints') = (N8nMemory!Range(fingerprints) \cup {p}) \ forgotten
    BY <2>1, <2>4
  <2>7. \A q \in N8nMemory!Pairs : written[q] = IF q \in N8nMemory!Range(fingerprints) THEN 1 ELSE 0
    BY DEF N8nMemoryInv, N8nMemoryFingers
  <2>. HIDE DEF forgotten
  <2>8. ASSUME NEW q \in N8nMemory!Pairs
        PROVE  written'[q] = IF q \in N8nMemory!Range(fingerprints') THEN 1 ELSE 0
    <3>1. written'[q] = IF q \in forgotten THEN 0
                        ELSE IF q = p THEN written[q] + 1 ELSE written[q]
      BY <2>1
    <3>. QED BY <2>1, <2>6, <2>7, <3>1
  <2>9. N8nMemoryFingers'
    BY <2>8 DEF N8nMemoryFingers
  <2>10. N8nMemoryMatched'
    BY <2>6 DEF N8nMemoryMatched, N8nMemoryInv
  <2>11. written' \in [N8nMemory!Pairs -> Nat]
    <3>1. \A q \in N8nMemory!Pairs : (IF q \in forgotten THEN 0
                            ELSE IF q = p THEN written[q] + 1 ELSE written[q]) \in Nat
      BY <2>7
    <3>. QED BY <2>1, <3>1
  <2>12. /\ fingerprints' \in Seq(N8nMemory!Pairs) /\ Len(fingerprints') <= MaxFingerprints
         /\ \A i, j \in 1..Len(fingerprints') : fingerprints'[i] = fingerprints'[j] => i = j
    <3>1. CASE Len(all) > MaxFingerprints
      BY <2>1, <2>2, <2>4, <3>1 DEF forgotten
    <3>2. CASE ~(Len(all) > MaxFingerprints)
      BY <2>1, <2>4, <2>5, <3>2 DEF forgotten
    <3>. QED BY <3>1, <3>2
  <2>. QED BY <2>9, <2>10, <2>11, <2>12 DEF N8nMemoryKept
<1>. QED BY <1>1, <1>2

\* Handing over a half that fits what waits.
LEMMA N8nMemoryFlushes ==
  ASSUME N8nMemory!ChatAssumption, N8nMemoryInv, NEW h \in N8nMemory!Half \cup {None}, NEW a \in N8nMemory!Half \cup {None},
         N8nMemory!FlushPending(h, a),
         N8nMemory!IsEmpty(h) \/ N8nMemory!IsEmpty(a) \/ h = a
  PROVE  /\ (N8nMemoryKept /\ N8nMemoryFingers /\ N8nMemoryMatched)'
         /\ pendingHuman' \in {None, h} /\ pendingAi' \in {None, 0}
<1>1. N8nMemory!OrEmpty(h) \in N8nMemory!Half /\ N8nMemory!OrEmpty(a) \in N8nMemory!Half
  BY DEF N8nMemory!OrEmpty, N8nMemory!Half, N8nMemory!ChatAssumption
<1>2. <<N8nMemory!OrEmpty(h), N8nMemory!OrEmpty(a)>> \in N8nMemory!Pairs
  BY <1>1 DEF N8nMemory!Pairs
<1>3. N8nMemory!OrEmpty(h) # 0 /\ N8nMemory!OrEmpty(a) # 0 => N8nMemory!OrEmpty(h) = N8nMemory!OrEmpty(a)
  BY DEF N8nMemory!OrEmpty, N8nMemory!IsEmpty
<1>4. CASE (N8nMemory!IsEmpty(h) /\ N8nMemory!IsEmpty(a)) \/ (~N8nMemory!IsEmpty(h) /\ a = None)
  BY <1>4 DEF N8nMemory!FlushPending, N8nMemoryInv, N8nMemoryKept, N8nMemoryFingers,
     N8nMemoryMatched, N8nMemory!IsEmpty
<1>5. CASE ~((N8nMemory!IsEmpty(h) /\ N8nMemory!IsEmpty(a)) \/ (~N8nMemory!IsEmpty(h) /\ a = None))
  <2>1. /\ pendingHuman' = None /\ pendingAi' = None
        /\ N8nMemory!PersistPair(<<N8nMemory!OrEmpty(h), N8nMemory!OrEmpty(a)>>)
    BY <1>5 DEF N8nMemory!FlushPending
  <2>. QED BY <1>2, <1>3, <2>1, N8nMemoryPersists
<1>. QED BY <1>4, <1>5

LEMMA N8nMemoryKeeps ==
  ASSUME N8nMemory!ChatAssumption, N8nMemoryInv, [N8nMemory!Next]_n8nVars PROVE N8nMemoryInv'
<1>1. N8nTurns \in Nat /\ None \notin Nat /\ N8nMemory!Half \subseteq Nat /\ 0 \in N8nMemory!Half
      /\ CacheEntries \in Nat \ {0} /\ LowerCase \in [Spellings -> Spellings]
  BY DEF N8nMemory!ChatAssumption, N8nMemory!Half
<1>2. N8nMemoryHost /\ N8nMemoryKept /\ N8nMemoryHalves /\ N8nMemoryFingers /\ N8nMemoryMatched /\ N8nMemoryFresh
  BY DEF N8nMemoryInv
<1>3. UNCHANGED N8nMemory!cacheVars => N8nMemoryFresh'
  BY <1>2 DEF N8nMemory!cacheVars, N8nMemoryFresh, N8nMemory!MemoriesAreOwn
<1>4. UNCHANGED N8nMemory!persistVars => (N8nMemoryHost /\ N8nMemoryKept /\ N8nMemoryHalves /\ N8nMemoryFingers /\ N8nMemoryMatched)'
  BY <1>2 DEF N8nMemory!persistVars, N8nMemoryHost, N8nMemoryKept, N8nMemoryHalves,
     N8nMemoryFingers, N8nMemoryMatched
<1>5. N8nMemory!HumanHalf \in {0, n8nTurn} /\ N8nMemory!AiHalf \in {0, n8nTurn} /\ N8nMemory!HumanHalf \in N8nMemory!Half /\ N8nMemory!AiHalf \in N8nMemory!Half
  BY <1>1, <1>2 DEF N8nMemory!HumanHalf, N8nMemory!AiHalf, N8nMemoryHost, N8nMemory!Half
<1>6. CASE N8nMemory!NextTurn
  <2>1. UNCHANGED N8nMemory!cacheVars
    BY <1>6 DEF N8nMemory!NextTurn, N8nMemory!cacheVars
  <2>2. (N8nMemoryHost /\ N8nMemoryHalves)'
    BY <1>1, <1>2, <1>6 DEF N8nMemory!NextTurn, N8nMemoryHost, N8nMemoryHalves
  <2>3. (N8nMemoryKept /\ N8nMemoryFingers /\ N8nMemoryMatched)'
    BY <1>2, <1>6 DEF N8nMemory!NextTurn, N8nMemoryKept, N8nMemoryFingers, N8nMemoryMatched
  <2>. QED BY <1>3, <2>1, <2>2, <2>3 DEF N8nMemoryInv
<1>7. CASE N8nMemory!AddUserMessage
  <2>1. /\ half' = "human" /\ N8nMemory!FlushPending(N8nMemory!HumanHalf, pendingAi)
        /\ UNCHANGED <<n8nTurn, content>> /\ UNCHANGED N8nMemory!cacheVars
    BY <1>7 DEF N8nMemory!AddUserMessage, N8nMemory!cacheVars
  <2>2. N8nMemory!IsEmpty(pendingAi) /\ pendingAi \in N8nMemory!Half \cup {None}
    BY <1>1, <1>2 DEF N8nMemoryHalves, N8nMemoryHost, N8nMemory!IsEmpty
  <2>3. /\ (N8nMemoryKept /\ N8nMemoryFingers /\ N8nMemoryMatched)'
        /\ pendingHuman' \in {None, N8nMemory!HumanHalf} /\ pendingAi' \in {None, 0}
    BY <1>5, <2>1, <2>2, N8nMemoryFlushes
  <2>4. (N8nMemoryHost /\ N8nMemoryHalves)'
    BY <1>1, <1>2, <1>5, <2>1, <2>3 DEF N8nMemoryHost, N8nMemoryHalves
  <2>. QED BY <1>3, <2>1, <2>3, <2>4 DEF N8nMemoryInv
<1>8. CASE N8nMemory!AddAIChatMessage
  <2>1. /\ half = "human" /\ half' = "ai" /\ N8nMemory!FlushPending(pendingHuman, N8nMemory!AiHalf)
        /\ UNCHANGED <<n8nTurn, content>> /\ UNCHANGED N8nMemory!cacheVars
    BY <1>8 DEF N8nMemory!AddAIChatMessage, N8nMemory!cacheVars
  <2>2. /\ pendingHuman \in N8nMemory!Half \cup {None}
        /\ N8nMemory!IsEmpty(pendingHuman) \/ N8nMemory!IsEmpty(N8nMemory!AiHalf) \/ pendingHuman = N8nMemory!AiHalf
    BY <1>2, <1>5, <2>1 DEF N8nMemoryHalves, N8nMemoryHost, N8nMemory!IsEmpty
  <2>3. /\ (N8nMemoryKept /\ N8nMemoryFingers /\ N8nMemoryMatched)'
        /\ pendingHuman' \in {None, pendingHuman} /\ pendingAi' \in {None, 0}
    BY <1>5, <2>1, <2>2, N8nMemoryFlushes
  <2>4. (N8nMemoryHost /\ N8nMemoryHalves)'
    BY <1>1, <1>2, <2>1, <2>2, <2>3 DEF N8nMemoryHost, N8nMemoryHalves
  <2>. QED BY <1>3, <2>1, <2>3, <2>4 DEF N8nMemoryInv
<1>9. CASE N8nMemory!SaveContext
  <2>1. /\ N8nMemory!PersistPair(<<N8nMemory!HumanHalf, N8nMemory!AiHalf>>) /\ UNCHANGED N8nMemory!cacheVars
        /\ UNCHANGED <<n8nTurn, content, half, pendingHuman, pendingAi>>
    BY <1>9 DEF N8nMemory!SaveContext, N8nMemory!cacheVars
  <2>2. <<N8nMemory!HumanHalf, N8nMemory!AiHalf>> \in N8nMemory!Pairs
        /\ (N8nMemory!HumanHalf # 0 /\ N8nMemory!AiHalf # 0 => N8nMemory!HumanHalf = N8nMemory!AiHalf)
    BY <1>5 DEF N8nMemory!Pairs
  <2>3. (N8nMemoryKept /\ N8nMemoryFingers /\ N8nMemoryMatched)'
    BY <2>1, <2>2, N8nMemoryPersists
  <2>4. (N8nMemoryHost /\ N8nMemoryHalves)'
    BY <1>2, <2>1 DEF N8nMemoryHost, N8nMemoryHalves
  <2>. QED BY <1>3, <2>1, <2>3, <2>4 DEF N8nMemoryInv
<1>10. ASSUME NEW q \in Spellings, N8nMemory!LoadFromCache(q) PROVE N8nMemoryInv'
  <2>1. PICK e \in N8nMemory!Cached(q) : /\ ~e.stale
                                         /\ served' = [query |-> q, from |-> e.query, old |-> e.old]
    BY <1>10 DEF N8nMemory!LoadFromCache
  <2>2. UNCHANGED N8nMemory!persistVars /\ UNCHANGED <<loads, hitCache>>
    BY <1>10 DEF N8nMemory!LoadFromCache
  <2>3. LowerCase[e.query] = LowerCase[q] /\ ~e.old
    <3>1. e.key = LowerCase[q] /\ e \in N8nMemory!Range(hitCache)
      BY DEF N8nMemory!Cached
    <3>2. hitCache \in Seq(N8nMemoryEntry)
      BY <1>2 DEF N8nMemoryFresh
    <3>3. PICK i \in 1..Len(hitCache) : hitCache[i] = e
      BY <3>1, <3>2, N8nMemoryMembers
    <3>4. e.old => e.stale
      BY <1>2, <3>3 DEF N8nMemoryFresh
    <3>5. e.key = LowerCase[e.query]
      BY <3>2, <3>3 DEF N8nMemoryEntry
    <3>. QED BY <2>1, <3>1, <3>4, <3>5
  <2>4. LowerCase[served'.from] = LowerCase[served'.query] /\ ~served'.old
    BY <2>1, <2>3
  <2>5. N8nMemoryFresh'
    BY <1>2, <2>2, <2>4 DEF N8nMemoryFresh, N8nMemory!MemoriesAreOwn
  <2>. QED BY <1>4, <2>2, <2>5 DEF N8nMemoryInv
<1>11. ASSUME NEW l \in Calls, NEW q \in Spellings, N8nMemory!LoadSearches(l, q) PROVE N8nMemoryInv'
  <2>1. /\ UNCHANGED N8nMemory!persistVars /\ UNCHANGED <<hitCache, served>>
        /\ loads' = [loads EXCEPT ![l] = [query |-> q, old |-> FALSE]]
    BY <1>11 DEF N8nMemory!LoadSearches
  <2>2. [query |-> q, old |-> FALSE] \in N8nMemoryLoad
    BY DEF N8nMemoryLoad
  <2>3. N8nMemoryFresh'
    BY <1>2, <2>1, <2>2 DEF N8nMemoryFresh, N8nMemory!MemoriesAreOwn
  <2>. QED BY <1>4, <2>1, <2>3 DEF N8nMemoryInv
<1>12. ASSUME NEW l \in Calls, N8nMemory!SearchReturns(l) PROVE N8nMemoryInv'
  <2> DEFINE q == loads[l].query
             entry == [key |-> LowerCase[q], query |-> q, stale |-> N8nMemory!Stamp(l), old |-> loads[l].old]
             at == {i \in 1..Len(hitCache) : hitCache[i].key = LowerCase[q]}
             all == IF at = {} THEN Append(hitCache, entry)
                    ELSE [i \in 1..Len(hitCache) |-> IF i \in at THEN entry ELSE hitCache[i]]
  <2>1. /\ loads[l] \in N8nMemoryLoad /\ UNCHANGED N8nMemory!persistVars
        /\ loads' = [loads EXCEPT ![l] = None]
        /\ hitCache' = IF Len(all) > CacheEntries THEN Tail(all) ELSE all
        /\ served' = [query |-> q, from |-> q, old |-> FALSE]
    BY <1>2, <1>12 DEF N8nMemory!SearchReturns, N8nMemoryFresh
  <2>2. entry \in N8nMemoryEntry /\ (entry.old => entry.stale)
    BY <1>1, <2>1 DEF N8nMemoryLoad, N8nMemoryEntry, N8nMemory!Stamp
  <2>. HIDE DEF entry, q
  <2>3. /\ hitCache \in Seq(N8nMemoryEntry) /\ Len(hitCache) <= CacheEntries /\ Len(hitCache) \in Nat
        /\ \A i \in 1..Len(hitCache) : hitCache[i].old => hitCache[i].stale
    BY <1>2 DEF N8nMemoryFresh
  <2>4. /\ all \in Seq(N8nMemoryEntry) /\ Len(all) \in {Len(hitCache), Len(hitCache) + 1}
        /\ \A i \in 1..Len(all) : all[i].old => all[i].stale
    <3>1. CASE at = {}
      BY <2>2, <2>3, <3>1
    <3>2. CASE at # {}
      <4>1. all = [i \in 1..Len(hitCache) |-> IF i \in at THEN entry ELSE hitCache[i]]
        BY <3>2
      <4>. HIDE DEF all
      <4>2. all \in [1..Len(hitCache) -> N8nMemoryEntry]
        BY <2>2, <2>3, <4>1
      <4>. QED BY <2>2, <2>3, <4>1, <4>2
    <3>. QED BY <3>1, <3>2
  <2>. HIDE DEF all
  <2>5. /\ hitCache' \in Seq(N8nMemoryEntry) /\ Len(hitCache') <= CacheEntries
        /\ \A i \in 1..Len(hitCache') : hitCache'[i].old => hitCache'[i].stale
    <3>1. CASE Len(all) > CacheEntries
      <4>1. all # <<>> /\ Len(all) = Len(hitCache) + 1 /\ Len(hitCache) = CacheEntries
        BY <1>1, <2>3, <2>4, <3>1
      <4>2. /\ Tail(all) \in Seq(N8nMemoryEntry) /\ Len(Tail(all)) = Len(all) - 1
            /\ \A i \in 1..Len(Tail(all)) : Tail(all)[i] = all[i + 1]
        BY <2>4, <4>1
      <4>. QED BY <1>1, <2>1, <2>4, <3>1, <4>1, <4>2
    <3>2. CASE ~(Len(all) > CacheEntries)
      BY <1>1, <2>1, <2>3, <2>4, <3>2
    <3>. QED BY <3>1, <3>2
  <2>6. \A m \in Calls : loads'[m] = None \/ loads'[m] \in N8nMemoryLoad
    BY <1>2, <2>1 DEF N8nMemoryFresh
  <2>7. loads' = [m \in Calls |-> loads'[m]]
    BY <1>2, <2>1 DEF N8nMemoryFresh
  <2>8. N8nMemory!MemoriesAreOwn'
    BY <2>1 DEF N8nMemory!MemoriesAreOwn
  <2>9. N8nMemoryFresh'
    BY <2>5, <2>6, <2>7, <2>8 DEF N8nMemoryFresh
  <2>. QED BY <1>4, <2>1, <2>9 DEF N8nMemoryInv
<1>13. ASSUME NEW l \in Calls, N8nMemory!SearchFails(l) PROVE N8nMemoryInv'
  <2>1. /\ UNCHANGED N8nMemory!persistVars /\ hitCache' = hitCache /\ served' = None
        /\ loads' = [loads EXCEPT ![l] = None]
    BY <1>13 DEF N8nMemory!SearchFails
  <2>2. N8nMemoryFresh'
    BY <1>2, <2>1 DEF N8nMemoryFresh, N8nMemory!MemoriesAreOwn
  <2>. QED BY <1>4, <2>1, <2>2 DEF N8nMemoryInv
<1>14. CASE N8nMemory!Expire
  <2> DEFINE Out(e) == [e EXCEPT !.stale = TRUE, !.old = TRUE]
  <2>1. /\ UNCHANGED N8nMemory!persistVars /\ served' = served
        /\ hitCache' = [i \in 1..Len(hitCache) |-> Out(hitCache[i])]
        /\ loads' = [l \in Calls |-> IF loads[l] = None THEN None
                                     ELSE [loads[l] EXCEPT !.old = TRUE]]
    BY <1>14 DEF N8nMemory!Expire
  <2>2. hitCache \in Seq(N8nMemoryEntry) /\ Len(hitCache) \in Nat /\ Len(hitCache) <= CacheEntries
    BY <1>2 DEF N8nMemoryFresh
  <2>3. ASSUME NEW e \in N8nMemoryEntry PROVE Out(e) \in N8nMemoryEntry /\ Out(e).stale
    BY DEF N8nMemoryEntry
  <2>. HIDE DEF Out
  <2>4. \A i \in 1..Len(hitCache) : Out(hitCache[i]) \in N8nMemoryEntry /\ Out(hitCache[i]).stale
    BY <2>2, <2>3
  <2>5. /\ hitCache' \in Seq(N8nMemoryEntry) /\ Len(hitCache') = Len(hitCache)
        /\ \A i \in 1..Len(hitCache') : hitCache'[i].stale
    BY <2>1, <2>2, <2>4
  <2>6. \A l \in Calls : loads'[l] = None \/ loads'[l] \in N8nMemoryLoad
    BY <1>2, <2>1 DEF N8nMemoryFresh, N8nMemoryLoad
  <2>7. N8nMemoryFresh'
    BY <1>2, <2>1, <2>2, <2>5, <2>6 DEF N8nMemoryFresh, N8nMemory!MemoriesAreOwn
  <2>. QED BY <1>4, <2>1, <2>7 DEF N8nMemoryInv
<1>15. CASE N8nMemory!Clear
  <2>1. N8nMemory!Range(<<>>) = {}
    BY DEF N8nMemory!Range
  <2>2. (N8nMemoryHost /\ N8nMemoryHalves)'
    BY <1>1, <1>2, <1>15 DEF N8nMemory!Clear, N8nMemoryHost, N8nMemoryHalves
  <2>3. (N8nMemoryKept /\ N8nMemoryFingers /\ N8nMemoryMatched)'
    BY <1>15, <2>1 DEF N8nMemory!Clear, N8nMemoryKept, N8nMemoryFingers, N8nMemoryMatched,
       N8nMemory!ChatAssumption
  <2>4. N8nMemoryFresh'
    BY <1>1, <1>2, <1>15 DEF N8nMemory!Clear, N8nMemoryFresh, N8nMemory!MemoriesAreOwn
  <2>. QED BY <2>2, <2>3, <2>4 DEF N8nMemoryInv
<1>16. CASE UNCHANGED n8nVars
  BY <1>3, <1>4, <1>16 DEF n8nVars, N8nMemory!persistVars, N8nMemory!cacheVars, N8nMemoryInv
<1>. QED BY <1>6, <1>7, <1>8, <1>9, <1>10, <1>11, <1>12, <1>13, <1>14, <1>15, <1>16
       DEF N8nMemory!Next

LEMMA N8nMemoryImplies ==
  ASSUME N8nMemoryInv PROVE N8nMemory!WrittenOnce /\ N8nMemory!PairsMatch /\ N8nMemory!MemoriesAreOwn
<1>1. \A p \in N8nMemory!Pairs : written[p] = IF p \in N8nMemory!Range(fingerprints) THEN 1 ELSE 0
  BY DEF N8nMemoryInv, N8nMemoryFingers
<1>2. N8nMemory!WrittenOnce
  BY <1>1 DEF N8nMemory!WrittenOnce
<1>3. N8nMemory!PairsMatch
  BY <1>1 DEF N8nMemoryInv, N8nMemoryMatched, N8nMemory!PairsMatch
<1>. QED BY <1>2, <1>3 DEF N8nMemoryInv, N8nMemoryFresh

LEMMA N8nMemoryTypes ==
  ASSUME N8nMemory!ChatAssumption, N8nMemoryInv PROVE N8nMemory!TypeOK
<1>1. N8nMemory!IsInjective(fingerprints) /\ N8nMemory!Range(fingerprints) \subseteq N8nMemory!Pairs
  BY DEF N8nMemoryInv, N8nMemoryKept, N8nMemory!IsInjective, N8nMemory!Range
<1>2. \A l \in Calls : loads[l] # None => loads[l].query \in Spellings
  BY DEF N8nMemoryInv, N8nMemoryFresh, N8nMemoryLoad
<1>. QED BY <1>1, <1>2 DEF N8nMemoryInv, N8nMemoryHost, N8nMemoryKept, N8nMemoryFresh,
       N8nMemory!TypeOK

\* A behaviour of the whole that is this part's is a behaviour of this part.
LEMMA N8nMemoryBegins ==
  ASSUME Init, part = "N8nMemory" PROVE N8nMemory!Init
BY DEF Init

LEMMA N8nMemoryGoes ==
  ASSUME [Next]_<<part, recallGroup, persistGroup, userGroup, callGroup>>, part = "N8nMemory"
  PROVE  part' = "N8nMemory" /\ [N8nMemory!Next]_n8nVars
<1>1. CASE Next
  BY <1>1 DEF Next, RecallNext, PersistNext, UserNext, CallNext, persistGroup
<1>2. CASE UNCHANGED <<part, recallGroup, persistGroup, userGroup, callGroup>>
  BY <1>2 DEF persistGroup
<1>. QED BY <1>1, <1>2

------------------------------------------------------------------------------
\* The exchanges the Stop hook of the editor plugin reads back.

PluginStopLine == [author : DOMAIN PluginStop!Kinds, turn : Nat,
         kind : {"human", "image", "injected", "tool result", "text", "tool call"}]

\* A turn opens with what the human asks, and nothing the human asks follows in it.
PluginStopOpens(k, i) ==
  /\ transcript[k].author = "user" /\ transcript[k].kind \in {"human", "image"}
  /\ transcript[k].turn = transcript[i].turn
  /\ \A l \in (k + 1)..i : transcript[l].kind \notin {"human", "image"}
PluginStopTold ==
  /\ transcript \in Seq(PluginStopLine) /\ stopTurn \in [number : Nat, ended : BOOLEAN]
  /\ Len(transcript) > 0 => transcript[Len(transcript)].turn = stopTurn.number
  /\ ~stopTurn.ended => Len(transcript) > 0 /\ stopTurn.number > 0
  /\ \A i \in 1..Len(transcript) : \E k \in 1..i : PluginStopOpens(k, i)

PluginStopInv == PluginStop!TypeOK /\ PluginStopTold /\ PluginStop!PairsMatch

LEMMA PluginStopLatest ==
  ASSUME NEW n \in Nat, NEW S \in SUBSET (1..n), S # {}
  PROVE  PluginStop!LatestOf(S) \in S /\ \A k \in S : k <= PluginStop!LatestOf(S)
<1>1. PICK m \in S : \A k \in S : k <= m
  BY GreatestNumber
<1>2. \A k \in S : m >= k
  BY <1>1
<1>. QED BY <1>2 DEF PluginStop!LatestOf, PluginStop!Max

\* The human prompt that is found opens the turn of the reply.
LEMMA PluginStopFits ==
  ASSUME PluginStopTold, PluginStop!ReplyAt # 0, PluginStop!PromptAt(PluginStop!ReplyAt) # 0,
         \A i \in DOMAIN transcript : transcript[i].kind # "image"
  PROVE  /\ transcript[PluginStop!PromptAt(PluginStop!ReplyAt)].kind = "human"
         /\ transcript[PluginStop!PromptAt(PluginStop!ReplyAt)].turn = transcript[PluginStop!ReplyAt].turn
<1> DEFINE replies == {i \in DOMAIN transcript :
                         transcript[i].author = "assistant" /\ PluginStop!HasText(transcript[i])}
           n == PluginStop!ReplyAt
           humans == {i \in PluginStop!UsersBefore(n) : PluginStop!IsHuman(transcript[i])}
<1>1. transcript \in Seq(PluginStopLine) /\ Len(transcript) \in Nat /\ DOMAIN transcript = 1..Len(transcript)
  BY DEF PluginStopTold
<1>2. n \in replies
  <2>1. replies # {}
    BY DEF PluginStop!ReplyAt, PluginStop!LatestOf
  <2>2. replies \in SUBSET (1..Len(transcript))
    BY <1>1
  <2>3. PluginStop!LatestOf(replies) \in replies
    BY <1>1, <2>1, <2>2, PluginStopLatest
  <2>. QED BY <2>3 DEF PluginStop!ReplyAt
<1>3. n \in 1..Len(transcript) /\ transcript[n].author = "assistant"
  BY <1>1, <1>2
<1>. HIDE DEF n
<1>4. PICK k \in 1..n : PluginStopOpens(k, n)
  BY <1>3 DEF PluginStopTold
<1>5. k \in 1..(n - 1) /\ transcript[k].author = "user" /\ transcript[k].kind = "human"
  <2>1. k # n
    BY <1>3, <1>4 DEF PluginStopOpens
  <2>2. transcript[k].kind # "image"
    BY <1>1, <1>3, <1>4
  <2>. QED BY <1>3, <1>4, <2>1, <2>2 DEF PluginStopOpens
<1>6. k \in humans
  BY <1>5 DEF PluginStop!UsersBefore, PluginStop!HasText, PluginStop!IsHuman
<1>7. PluginStop!LatestOf(humans) \in humans /\ \A i \in humans : i <= PluginStop!LatestOf(humans)
  <2>1. n - 1 \in Nat /\ humans \in SUBSET (1..(n - 1)) /\ humans # {}
    BY <1>3, <1>6 DEF PluginStop!UsersBefore
  <2>. QED BY <2>1, PluginStopLatest
<1>8. PluginStop!LatestOf(humans) = k
  <2>1. ASSUME NEW h \in humans, k <= h PROVE h = k
    <3>1. h \in 1..(n - 1) /\ transcript[h].kind \in {"human", "image"}
      BY <2>1 DEF PluginStop!UsersBefore, PluginStop!IsHuman
    <3>2. h \notin (k + 1)..n
      BY <1>4, <3>1 DEF PluginStopOpens
    <3>. QED BY <1>3, <1>5, <2>1, <3>1, <3>2
  <2>. QED BY <1>6, <1>7, <2>1
<1>9. PluginStop!PromptAt(n) = k
  BY <1>6, <1>8 DEF PluginStop!PromptAt
<1>. QED BY <1>4, <1>5, <1>9 DEF PluginStopOpens, n

LEMMA PluginStopStarts ==
  ASSUME PluginStop!StopAssumption, PluginStop!Init PROVE PluginStopInv
<1>1. /\ transcript = <<>> /\ Len(transcript) = 0 /\ DOMAIN transcript = {}
      /\ transcript \in Seq(PluginStopLine)
  BY DEF PluginStop!Init
<1>2. /\ stopTurn = [number |-> 0, ended |-> TRUE] /\ stopTurn.number = 0 /\ stopTurn.ended
      /\ stopTurn \in [number : Nat, ended : BOOLEAN]
  BY DEF PluginStop!Init
<1>3. PluginStop!TypeOK
  BY <1>1, <1>2 DEF PluginStop!Init, PluginStop!TypeOK, PluginStop!StopAssumption
<1>4. PluginStopTold
  BY <1>1, <1>2 DEF PluginStopTold
<1>5. PluginStop!PairsMatch
  BY DEF PluginStop!Init, PluginStop!PairsMatch
<1>. QED BY <1>3, <1>4, <1>5 DEF PluginStopInv

LEMMA PluginStopKeeps ==
  ASSUME PluginStop!StopAssumption, PluginStopInv, [PluginStop!Next]_stopVars PROVE PluginStopInv'
<1>1. PluginStop!TypeOK /\ PluginStopTold /\ PluginStop!PairsMatch
  BY DEF PluginStopInv
<1>2. /\ transcript \in Seq(PluginStopLine) /\ Len(transcript) \in Nat
      /\ DOMAIN transcript = 1..Len(transcript) /\ stopTurn \in [number : Nat, ended : BOOLEAN]
      /\ stopTurn.number \in Nat /\ stopTurn.ended \in BOOLEAN
  BY <1>1 DEF PluginStopTold
<1>3. DOMAIN PluginStop!Kinds = {"user", "assistant"}
  BY DEF PluginStop!Kinds
\* An entry is written behind the others.
<1>4. ASSUME NEW author \in DOMAIN PluginStop!Kinds, NEW kind \in PluginStop!Kinds[author],
             PluginStop!Writes(author, kind), stopTurn' \in [number : Nat, ended : BOOLEAN],
             stopTurn'.number <= StopTurns, stopTurn.number <= stopTurn'.number, ~stopTurn'.ended,
             stopTurn'.number > 0,
             UNCHANGED <<stopWaiting, stopCaptured>>,
             \/ author = "user" /\ kind \in {"human", "image"}
             \/ ~stopTurn.ended /\ stopTurn' = stopTurn /\ kind \notin {"human", "image"}
      PROVE  PluginStopInv'
  <2> DEFINE e == [author |-> author, kind |-> kind, turn |-> stopTurn'.number]
  <2>. PICK n \in Nat : n = Len(transcript)
    BY <1>2
  <2>1. e \in PluginStopLine /\ e.author = author /\ e.kind = kind /\ e.turn = stopTurn'.number
    <3>1. stopTurn'.number \in Nat
      BY <1>4
    <3>2. kind \in {"human", "image", "injected", "tool result", "text", "tool call"}
      <4>1. /\ PluginStop!Kinds["user"] = {"human", "image", "injected", "tool result"}
            /\ PluginStop!Kinds["assistant"] = {"text", "tool call"}
        BY DEF PluginStop!Kinds
      <4>. QED BY <1>3, <1>4, <4>1
    <3>. QED BY <1>4, <3>1, <3>2 DEF PluginStopLine
  <2>2. n < MaxEntries /\ transcript' = Append(transcript, e)
    BY <1>4 DEF PluginStop!Writes, PluginStop!Entry
  <2>. HIDE DEF e
  <2>3. /\ transcript' \in Seq(PluginStopLine) /\ Len(transcript') = n + 1 /\ transcript'[n + 1] = e
        /\ DOMAIN transcript' = 1..(n + 1) /\ \A i \in 1..n : transcript'[i] = transcript[i]
    BY <1>2, <2>1, <2>2
  <2>4. \A i \in 1..(n + 1) : i \in 1..n \/ i = n + 1
    BY <1>2
  <2>5. \A i \in 1..(n + 1) : transcript'[i].kind \in PluginStop!Kinds[transcript'[i].author]
    BY <1>1, <1>2, <1>4, <2>1, <2>3, <2>4 DEF PluginStop!TypeOK
  <2>6. PluginStop!Range(transcript) \subseteq PluginStop!Range(transcript')
    <3>1. \A i \in 1..n : i \in 1..(n + 1)
      BY <1>2
    <3>. QED BY <1>2, <2>3, <3>1 DEF PluginStop!Range
  <2>7. PluginStop!TypeOK'
    <3>1. stopWaiting' \subseteq 1..stopTurn'.number
      BY <1>1, <1>2, <1>4 DEF PluginStop!TypeOK
    <3>2. n + 1 <= MaxEntries
      BY <1>2, <2>2 DEF PluginStop!StopAssumption
    <3>. QED BY <1>1, <1>4, <2>3, <2>5, <2>6, <3>1, <3>2 DEF PluginStop!TypeOK
  <2>8. ASSUME NEW i \in 1..n, NEW k \in 1..i, PluginStopOpens(k, i) PROVE PluginStopOpens(k, i)'
    <3>1. k \in 1..n /\ \A l \in (k + 1)..i : l \in 1..n
      BY <1>2, <2>8
    <3>. QED BY <2>3, <2>8, <3>1 DEF PluginStopOpens
  <2>9. \E k \in 1..(n + 1) : PluginStopOpens(k, n + 1)'
    <3>1. CASE author = "user" /\ kind \in {"human", "image"}
      <4>1. n + 1 \in 1..(n + 1) /\ (n + 1 + 1)..(n + 1) = {}
        BY <1>2
      <4>2. PluginStopOpens(n + 1, n + 1)'
        BY <2>1, <2>3, <3>1, <4>1 DEF PluginStopOpens
      <4>. QED BY <4>1, <4>2
    <3>2. CASE ~stopTurn.ended /\ stopTurn' = stopTurn /\ kind \notin {"human", "image"}
      <4>1. n \in 1..n /\ transcript[n].turn = stopTurn.number
        BY <1>1, <1>2, <3>2 DEF PluginStopTold
      <4>2. PICK k \in 1..n : PluginStopOpens(k, n)
        BY <1>1, <4>1 DEF PluginStopTold
      <4>3. \A l \in (k + 1)..(n + 1) : l \in (k + 1)..n \/ l = n + 1
        BY <1>2
      <4>4. \A l \in (k + 1)..n : l \in 1..n
        BY <1>2
      <4>5. PluginStopOpens(k, n + 1)'
        BY <2>1, <2>3, <3>2, <4>1, <4>2, <4>3, <4>4 DEF PluginStopOpens
      <4>6. k \in 1..(n + 1)
        BY <1>2
      <4>. QED BY <4>5, <4>6
    <3>. QED BY <1>4, <3>1, <3>2
  <2>10. PluginStopTold'
    <3>1. ASSUME NEW i \in 1..(n + 1) PROVE \E k \in 1..i : PluginStopOpens(k, i)'
      <4>1. CASE i \in 1..n
        <5>1. PICK k \in 1..i : PluginStopOpens(k, i)
          BY <1>1, <4>1 DEF PluginStopTold
        <5>. QED BY <2>8, <4>1, <5>1
      <4>2. CASE i = n + 1
        BY <2>9, <4>2
      <4>. QED BY <2>4, <4>1, <4>2
    <3>2. Len(transcript') > 0
      BY <1>2, <2>3
    <3>. QED BY <1>4, <2>1, <2>3, <3>1, <3>2 DEF PluginStopTold
  <2>11. PluginStop!PairsMatch'
    <3>1. (\A i \in DOMAIN transcript' : transcript'[i].kind # "image") =>
            \A i \in DOMAIN transcript : transcript[i].kind # "image"
      <4>1. \A i \in 1..n : i \in 1..(n + 1)
        BY <1>2
      <4>. QED BY <1>2, <2>3, <4>1
    <3>. QED BY <1>1, <1>4, <3>1 DEF PluginStop!PairsMatch
  <2>. QED BY <2>7, <2>10, <2>11 DEF PluginStopInv
<1>5. ASSUME NEW kind \in {"human", "image"}, PluginStop!Ask(kind) PROVE PluginStopInv'
  <2>1. /\ stopTurn.number < StopTurns /\ stopTurn' = [number |-> stopTurn.number + 1, ended |-> FALSE]
        /\ PluginStop!Writes("user", kind) /\ UNCHANGED <<stopWaiting, stopCaptured>>
    BY <1>5 DEF PluginStop!Ask
  <2>2. /\ stopTurn' \in [number : Nat, ended : BOOLEAN] /\ stopTurn'.number = stopTurn.number + 1
        /\ ~stopTurn'.ended /\ stopTurn'.number > 0
    BY <1>2, <2>1
  <2>3. stopTurn'.number <= StopTurns /\ stopTurn.number <= stopTurn'.number
    BY <1>2, <2>1, <2>2 DEF PluginStop!StopAssumption
  <2>4. "user" \in DOMAIN PluginStop!Kinds /\ kind \in PluginStop!Kinds["user"]
    BY DEF PluginStop!Kinds
  <2>. QED BY <1>4, <2>1, <2>2, <2>3, <2>4
<1>6. ASSUME NEW author \in DOMAIN PluginStop!Kinds, NEW kind \in PluginStop!Kinds[author], PluginStop!GoOn(author, kind)
      PROVE  PluginStopInv'
  <2>1. /\ ~stopTurn.ended /\ stopTurn' = stopTurn /\ PluginStop!Writes(author, kind) /\ kind \notin {"human", "image"}
        /\ UNCHANGED <<stopWaiting, stopCaptured>>
    BY <1>6 DEF PluginStop!GoOn
  <2>2. stopTurn.number <= StopTurns /\ stopTurn.number <= stopTurn.number /\ stopTurn.number > 0
    BY <1>1, <1>2, <2>1 DEF PluginStop!TypeOK, PluginStopTold
  <2>. QED BY <1>2, <1>4, <2>1, <2>2
<1>7. CASE PluginStop!EndTurn
  <2>1. /\ ~stopTurn.ended /\ stopTurn' = [stopTurn EXCEPT !.ended = TRUE]
        /\ stopWaiting' = stopWaiting \cup {stopTurn.number} /\ UNCHANGED <<transcript, stopCaptured>>
    BY <1>7 DEF PluginStop!EndTurn
  <2>2. stopTurn' \in [number : Nat, ended : BOOLEAN] /\ stopTurn'.number = stopTurn.number /\ stopTurn'.ended
    BY <1>2, <2>1
  <2>3. stopTurn.number > 0
    BY <1>1, <2>1 DEF PluginStopTold
  <2>4. PluginStop!TypeOK'
    BY <1>1, <1>2, <2>1, <2>2, <2>3 DEF PluginStop!TypeOK
  <2>5. PluginStopTold' /\ PluginStop!PairsMatch'
    BY <1>1, <2>1, <2>2 DEF PluginStopTold, PluginStop!PairsMatch, PluginStopOpens
  <2>. QED BY <2>4, <2>5 DEF PluginStopInv
<1>8. ASSUME NEW t \in stopWaiting, PluginStop!Capture(t) PROVE PluginStopInv'
  <2>1. UNCHANGED <<transcript, stopTurn>> /\ stopWaiting' = stopWaiting \ {t}
    BY <1>8 DEF PluginStop!Capture
  <2>2. PluginStopTold'
    BY <1>1, <2>1 DEF PluginStopTold, PluginStopOpens
  <2>3. CASE UNCHANGED stopCaptured
    BY <1>1, <2>1, <2>2, <2>3 DEF PluginStopInv, PluginStop!TypeOK, PluginStop!PairsMatch
  <2>4. CASE /\ PluginStop!ReplyAt # 0 /\ PluginStop!PromptAt(PluginStop!ReplyAt) # 0
             /\ stopCaptured' = stopCaptured \cup {[prompt |-> transcript[PluginStop!PromptAt(PluginStop!ReplyAt)],
                                            reply |-> transcript[PluginStop!ReplyAt]]}
    <3> DEFINE x == [prompt |-> transcript[PluginStop!PromptAt(PluginStop!ReplyAt)], reply |-> transcript[PluginStop!ReplyAt]]
    <3>1. \A S : (S \subseteq DOMAIN transcript /\ PluginStop!LatestOf(S) # 0) => PluginStop!LatestOf(S) \in DOMAIN transcript
      <4>1. ASSUME NEW S, S \subseteq 1..Len(transcript), PluginStop!LatestOf(S) # 0
            PROVE  PluginStop!LatestOf(S) \in 1..Len(transcript)
        <5>1. S # {}
          BY <4>1 DEF PluginStop!LatestOf
        <5>2. PluginStop!LatestOf(S) \in S
          BY <1>2, <4>1, <5>1, PluginStopLatest
        <5>. QED BY <4>1, <5>2
      <4>. QED BY <1>2, <4>1
    <3>2. PluginStop!ReplyAt \in DOMAIN transcript
      BY <2>4, <3>1 DEF PluginStop!ReplyAt
    <3>3. PluginStop!PromptAt(PluginStop!ReplyAt) \in DOMAIN transcript
      <4>1. PluginStop!UsersBefore(PluginStop!ReplyAt) \subseteq DOMAIN transcript
        BY <1>2, <3>2 DEF PluginStop!UsersBefore
      <4>. QED BY <2>4, <3>1, <4>1 DEF PluginStop!PromptAt
    <3>4. {x.prompt, x.reply} \subseteq PluginStop!Range(transcript)
      BY <3>2, <3>3 DEF PluginStop!Range
    <3>5. stopCaptured' = stopCaptured \cup {x}
      BY <2>4
    <3>6. (\A i \in DOMAIN transcript : transcript[i].kind # "image") =>
             x.prompt.kind = "human" /\ x.prompt.turn = x.reply.turn
      BY <1>1, <2>4, PluginStopFits
    <3>. HIDE DEF x
    <3>7. PluginStop!TypeOK'
      BY <1>1, <2>1, <3>4, <3>5 DEF PluginStop!TypeOK
    <3>8. PluginStop!PairsMatch'
      BY <1>1, <2>1, <3>5, <3>6 DEF PluginStop!PairsMatch
    <3>. QED BY <2>2, <3>7, <3>8 DEF PluginStopInv
  <2>. QED BY <1>8, <2>3, <2>4 DEF PluginStop!Capture
<1>9. CASE UNCHANGED stopVars
  BY <1>1, <1>9 DEF stopVars, PluginStopInv, PluginStop!TypeOK, PluginStopTold, PluginStopOpens,
     PluginStop!PairsMatch
<1>. QED BY <1>5, <1>6, <1>7, <1>8, <1>9 DEF PluginStop!Next

LEMMA PluginStopImplies ==
  ASSUME PluginStopInv PROVE PluginStop!PairsMatch /\ PluginStop!TypeOK
BY DEF PluginStopInv

\* A behaviour of the whole that is this part's is a behaviour of this part.
LEMMA PluginStopBegins ==
  ASSUME Init, part = "PluginStop" PROVE PluginStop!Init
BY DEF Init

LEMMA PluginStopGoes ==
  ASSUME [Next]_<<part, recallGroup, persistGroup, userGroup, callGroup>>, part = "PluginStop"
  PROVE  part' = "PluginStop" /\ [PluginStop!Next]_stopVars
<1>1. CASE Next
  BY <1>1 DEF Next, RecallNext, PersistNext, UserNext, CallNext, persistGroup
<1>2. CASE UNCHANGED <<part, recallGroup, persistGroup, userGroup, callGroup>>
  BY <1>2 DEF persistGroup
<1>. QED BY <1>1, <1>2

------------------------------------------------------------------------------
\* The user behind a context of OpenClaw.

OpenClawScopeIdentity(way) ==
  IF way = "capture" THEN OpenClawScope!CaptureIdentity
  ELSE IF way = "corpus" THEN OpenClawScope!CorpusIdentity ELSE ctx

OpenClawScopeInv ==
  /\ OpenClawScope!TypeOK
  /\ \A w \in OpenClawScope!Ways : scopeUsed[w] # None => scopeUsed[w] = OpenClawScope!ResolveUserId(OpenClawScopeIdentity(w))

\* The hooks and the tools resolve one id, and the corpus that or the shared one.
LEMMA OpenClawScopeResolves ==
  ASSUME OpenClawScope!ScopeAssumption, OpenClawScope!TypeOK
  PROVE  /\ OpenClawScope!ResolveUserId(OpenClawScope!CaptureIdentity) = OpenClawScope!ResolveUserId(ctx)
         /\ OpenClawScope!ResolveUserId(OpenClawScope!CorpusIdentity) \in {Base, OpenClawScope!ResolveUserId(ctx)}
         /\ OpenClawScope!ResolveUserId(ctx) \in {Base} \cup ({Base} \X (Agents \cup Keys \cup Ids \cup Senders))
<1> DEFINE mine == [ctx EXCEPT !.key = OpenClawScope!Else(ctx.key, ctx.id)]
           told == [agent |-> None, key |-> ctx.key, id |-> None, sender |-> None]
<1>1. /\ ctx \in [agent : Agents \cup {None}, key : Keys \cup {None}, id : Ids,
                  sender : Senders \cup {None}]
      /\ ctx.agent # None /\ ctx.key # None => KeyAgent[ctx.key] = ctx.agent
  BY DEF OpenClawScope!TypeOK, OpenClawScope!Contexts
<1>2. /\ ctx.agent \in Agents \cup {None} /\ ctx.key \in Keys \cup {None} /\ ctx.id \in Ids
      /\ ctx.sender \in Senders \cup {None}
  BY <1>1
<1>3. /\ mine.agent = ctx.agent /\ mine.key = OpenClawScope!Else(ctx.key, ctx.id) /\ mine.id = ctx.id
      /\ mine.sender = ctx.sender
  BY <1>1
<1>4. /\ told.agent = None /\ told.key = ctx.key /\ told.id = None /\ told.sender = None
  OBVIOUS
<1>5. scope \in {"fixed", "agent", "session", "sender"}
  BY DEF OpenClawScope!TypeOK
<1>6. OpenClawScope!CaptureIdentity = mine /\ OpenClawScope!CorpusIdentity = told
  BY DEF OpenClawScope!CaptureIdentity, OpenClawScope!CorpusIdentity
<1>7. KeyAgent \in [Keys -> Agents] /\ Keys \cap Ids = {} /\ None \notin Keys \cup Agents \cup Ids \cup Senders
  BY DEF OpenClawScope!ScopeAssumption
<1>. HIDE DEF mine, told
<1>8. OpenClawScope!ResolveAgentId(mine) = OpenClawScope!ResolveAgentId(ctx) /\ OpenClawScope!ResolveAgentId(ctx) \in Agents \cup {None}
  BY <1>2, <1>3, <1>7 DEF OpenClawScope!ResolveAgentId, OpenClawScope!Else
<1>9. OpenClawScope!ResolveAgentId(told) \in {None, OpenClawScope!ResolveAgentId(ctx)}
  BY <1>1, <1>2, <1>4, <1>7 DEF OpenClawScope!ResolveAgentId
<1>10. CASE scope = "fixed"
  BY <1>6, <1>10 DEF OpenClawScope!ResolveUserId, OpenClawScope!Discriminates
<1>11. CASE scope = "agent"
  BY <1>6, <1>8, <1>9, <1>11 DEF OpenClawScope!ResolveUserId, OpenClawScope!Discriminates
<1>12. CASE scope = "session"
  BY <1>2, <1>3, <1>4, <1>6, <1>7, <1>12 DEF OpenClawScope!ResolveUserId,
     OpenClawScope!Discriminates, OpenClawScope!Else
<1>13. CASE scope = "sender"
  BY <1>2, <1>3, <1>4, <1>6, <1>13 DEF OpenClawScope!ResolveUserId, OpenClawScope!Discriminates
<1>. QED BY <1>5, <1>10, <1>11, <1>12, <1>13

LEMMA OpenClawScopeStarts ==
  ASSUME OpenClawScope!ScopeAssumption, OpenClawScope!Init PROVE OpenClawScopeInv
BY DEF OpenClawScope!Init, OpenClawScopeInv, OpenClawScope!TypeOK

LEMMA OpenClawScopeKeeps ==
  ASSUME OpenClawScope!ScopeAssumption, OpenClawScopeInv, [OpenClawScope!Next]_scopeVars PROVE OpenClawScopeInv'
<1>1. UNCHANGED <<scope, ctx>>
  BY DEF OpenClawScope!Next, scopeVars, OpenClawScope!Use
<1>2. \A w \in OpenClawScope!Ways : OpenClawScope!ResolveUserId(OpenClawScopeIdentity(w))' = OpenClawScope!ResolveUserId(OpenClawScopeIdentity(w))
  BY <1>1 DEF OpenClawScope!ResolveUserId, OpenClawScopeIdentity, OpenClawScope!CaptureIdentity,
     OpenClawScope!CorpusIdentity, OpenClawScope!ResolveAgentId, OpenClawScope!Else
<1>3. CASE UNCHANGED scopeVars
  BY <1>2, <1>3 DEF scopeVars, OpenClawScopeInv, OpenClawScope!TypeOK
<1>4. ASSUME NEW w \in OpenClawScope!Ways, OpenClawScope!Use(w, OpenClawScopeIdentity(w)) PROVE OpenClawScopeInv'
  <2>1. OpenClawScope!ResolveUserId(OpenClawScopeIdentity(w)) \in {None, Base}
           \cup ({Base} \X (Agents \cup Keys \cup Ids \cup Senders))
    BY OpenClawScopeResolves DEF OpenClawScopeInv, OpenClawScopeIdentity
  <2>2. scopeUsed' = [scopeUsed EXCEPT ![w] = OpenClawScope!ResolveUserId(OpenClawScopeIdentity(w))]
    BY <1>4 DEF OpenClawScope!Use
  <2>3. OpenClawScope!TypeOK'
    BY <1>1, <2>1, <2>2 DEF OpenClawScopeInv, OpenClawScope!TypeOK
  <2>4. ASSUME NEW v \in OpenClawScope!Ways, scopeUsed'[v] # None PROVE scopeUsed'[v] = OpenClawScope!ResolveUserId(OpenClawScopeIdentity(v))
    BY <2>2, <2>4 DEF OpenClawScopeInv, OpenClawScope!TypeOK
  <2>. QED BY <1>2, <2>3, <2>4 DEF OpenClawScopeInv
<1>5. CASE OpenClawScope!Next
  <2>1. \E w \in OpenClawScope!Ways : OpenClawScope!Use(w, OpenClawScopeIdentity(w))
    BY <1>5 DEF OpenClawScope!Next, OpenClawScope!Ways, OpenClawScopeIdentity,
       OpenClawScope!RecallIdentity, OpenClawScope!ToolIdentity
  <2>. QED BY <1>4, <2>1
<1>. QED BY <1>3, <1>5

LEMMA OpenClawScopeImplies ==
  ASSUME OpenClawScope!ScopeAssumption, OpenClawScopeInv PROVE OpenClawScope!MemoriesAreOwn /\ OpenClawScope!TypeOK
<1>1. \A w \in {"recall", "capture", "tools"} : scopeUsed[w] # None => scopeUsed[w] = OpenClawScope!ResolveUserId(ctx)
  BY OpenClawScopeResolves DEF OpenClawScopeInv, OpenClawScopeIdentity, OpenClawScope!Ways
<1>2. scopeUsed["corpus"] \in {None, Base, OpenClawScope!ResolveUserId(ctx)}
  BY OpenClawScopeResolves DEF OpenClawScopeInv, OpenClawScopeIdentity, OpenClawScope!Ways
<1>. QED BY <1>1, <1>2 DEF OpenClawScopeInv, OpenClawScope!MemoriesAreOwn

\* A behaviour of the whole that is this part's is a behaviour of this part.
LEMMA OpenClawScopeBegins ==
  ASSUME Init, part = "OpenClawScope" PROVE OpenClawScope!Init
BY DEF Init

LEMMA OpenClawScopeGoes ==
  ASSUME [Next]_<<part, recallGroup, persistGroup, userGroup, callGroup>>, part = "OpenClawScope"
  PROVE  part' = "OpenClawScope" /\ [OpenClawScope!Next]_scopeVars
<1>1. CASE Next
  BY <1>1 DEF Next, RecallNext, PersistNext, UserNext, CallNext, userGroup
<1>2. CASE UNCHANGED <<part, recallGroup, persistGroup, userGroup, callGroup>>
  BY <1>2 DEF userGroup
<1>. QED BY <1>1, <1>2

------------------------------------------------------------------------------
\* The user of one run of a Pydantic AI agent.

\* The orders of the part are those of the library.
LEMMA RunIdentityLru ==
  /\ \A f : RunIdentity!Range(f) = Range(f)
  /\ \A q, s, S : RunIdentity!IsRest(q, s, S) <=> IsRest(q, s, S)
  /\ \A order, S, cap : RunIdentity!IsOrder(order, S, cap) <=> IsOrder(order, S, cap)
  /\ \A order, x : RunIdentity!Touch(order, x) = Touch(order, x)
  /\ \A order, x : RunIdentity!Without(order, x) = Without(order, x)
  /\ \A order, cap : RunIdentity!Newest(order, cap) = Newest(order, cap)
  /\ \A order, cap : RunIdentity!Oldest(order, cap) = Oldest(order, cap)
<1>1. \A f : RunIdentity!Range(f) = Range(f)
  BY DEF RunIdentity!Range, Range
<1>2. /\ \A order, S, cap : RunIdentity!IsOrder(order, S, cap) <=> IsOrder(order, S, cap)
      /\ \A q, s, S : RunIdentity!IsRest(q, s, S) <=> IsRest(q, s, S)
  BY <1>1 DEF RunIdentity!IsOrder, IsOrder, RunIdentity!IsRest, IsRest
<1>3. /\ \A order, x : RunIdentity!Touch(order, x) = Touch(order, x)
      /\ \A order, x : RunIdentity!Without(order, x) = Without(order, x)
  BY DEF RunIdentity!Touch, Touch, RunIdentity!Without, Without, RunIdentity!Place, Place
<1>4. \A order, cap : RunIdentity!Newest(order, cap) = Newest(order, cap)
  BY DEF RunIdentity!Newest, Newest
<1>5. \A order, cap : RunIdentity!Oldest(order, cap) = Oldest(order, cap)
  BY <1>1, <1>4 DEF RunIdentity!Oldest, Oldest
<1>. QED BY <1>1, <1>2, <1>3, <1>4, <1>5

\* Finite sets are the same to the part.
LEMMA RunIdentityFinite ==
  /\ \A S : RunIdentity!IsFiniteSet(S) <=> IsFiniteSet(S)
  /\ \A S : RunIdentity!Cardinality(S) = Cardinality(S)
<1>1. \A S : RunIdentity!IsFiniteSet(S) <=> IsFiniteSet(S)
  BY DEF RunIdentity!IsFiniteSet, IsFiniteSet
<1>2. \A S : RunIdentity!Cardinality(S) = Cardinality(S)
  BY DEF RunIdentity!Cardinality, Cardinality
<1>. QED BY <1>1, <1>2

LEMMA RunIdentityTouchKeepsOrder ==
  ASSUME NEW S, NEW cap \in Nat, NEW order, RunIdentity!IsOrder(order, S, cap), NEW x \in S
  PROVE  /\ RunIdentity!IsOrder(RunIdentity!Touch(order, x), S, cap + 1)
         /\ Len(RunIdentity!Touch(order, x)) > 0
         /\ RunIdentity!Touch(order, x)[Len(RunIdentity!Touch(order, x))] = x
BY RunIdentityLru, TouchKeepsOrder

LEMMA RunIdentityNewestKeepsOrder ==
  ASSUME NEW S, NEW cap \in Nat \ {0}, NEW big \in Nat,
         NEW order, RunIdentity!IsOrder(order, S, big), Len(order) > 0
  PROVE  /\ RunIdentity!IsOrder(RunIdentity!Newest(order, cap), S, cap)
         /\ order[Len(order)] \in RunIdentity!Range(RunIdentity!Newest(order, cap))
         /\ RunIdentity!Range(RunIdentity!Newest(order, cap)) \subseteq RunIdentity!Range(order)
BY RunIdentityLru, NewestKeepsOrder

LEMMA RunIdentityCardinalityType ==
  ASSUME NEW S, RunIdentity!IsFiniteSet(S)
  PROVE  /\ RunIdentity!Cardinality(S) \in Nat
         /\ ExistsBijection(1..RunIdentity!Cardinality(S), S)
BY RunIdentityFinite, FS_CardinalityType

LEMMA RunIdentityInjection ==
  ASSUME NEW S, NEW T, NEW f \in Injection(S,T), RunIdentity!IsFiniteSet(T)
  PROVE  /\ RunIdentity!IsFiniteSet(S)
         /\ RunIdentity!Cardinality(S) <= RunIdentity!Cardinality(T)
         /\ RunIdentity!Cardinality(S) = RunIdentity!Cardinality(T) <=> f \in Surjection(S,T)
BY RunIdentityFinite, FS_Injection

LEMMA RunIdentityInterval ==
  ASSUME NEW a \in Int, NEW b \in Int
  PROVE  /\ RunIdentity!IsFiniteSet(a..b)
         /\ RunIdentity!Cardinality(a..b) = IF a > b THEN 0 ELSE b-a+1
BY RunIdentityFinite, FS_Interval

RunIdentityInv ==
  /\ RunIdentity!TypeOK
  /\ \A w \in RunIdentity!Ways : runUsed[w] # None => runUsed[w] = RunIdentity!UserOf(w)

\* Distinct users are no more than there are.
LEMMA RunIdentityOrderFits ==
  ASSUME RunIdentity!IsFiniteSet(Users), NEW big \in Nat, NEW order, RunIdentity!IsOrder(order, Users, big)
  PROVE  RunIdentity!IsOrder(order, Users, RunIdentity!Cardinality(Users))
<1>1. /\ order \in Seq(Users) /\ Len(order) \in Nat
      /\ \A i, j \in 1..Len(order) : order[i] = order[j] => i = j
  BY DEF RunIdentity!IsOrder
<1>2. RunIdentity!IsFiniteSet(1..Len(order)) /\ RunIdentity!Cardinality(1..Len(order)) = Len(order)
  <2>1. ASSUME NEW n \in Nat PROVE RunIdentity!IsFiniteSet(1..n) /\ RunIdentity!Cardinality(1..n) = n
    <3>1. /\ RunIdentity!IsFiniteSet(1..n)
          /\ RunIdentity!Cardinality(1..n) = IF 1 > n THEN 0 ELSE n - 1 + 1
      BY RunIdentityInterval
    <3>. QED BY <3>1
  <2>. QED BY <1>1, <2>1
<1>3. order \in Injection(1..Len(order), Users)
  <2>1. order \in [1..Len(order) -> Users]
    BY <1>1
  <2>. QED BY <1>1, <2>1 DEF Injection, IsInjective
<1>4. RunIdentity!Cardinality(1..Len(order)) <= RunIdentity!Cardinality(Users)
  BY <1>2, <1>3, RunIdentityInjection
<1>. QED BY <1>1, <1>2, <1>4 DEF RunIdentity!IsOrder

\* A new client goes behind the ones there are.
LEMMA RunIdentityAdds ==
  ASSUME NEW order, NEW cap \in Nat, RunIdentity!IsOrder(order, Users, cap), NEW u \in Users,
         u \notin RunIdentity!Range(order)
  PROVE  RunIdentity!IsOrder(Append(order, u), Users, cap + 1) /\ Len(Append(order, u)) > 0
<1>1. /\ order \in Seq(Users) /\ Len(order) \in Nat /\ Len(order) <= cap
      /\ \A i, j \in 1..Len(order) : order[i] = order[j] => i = j
  BY DEF RunIdentity!IsOrder
<1>2. DOMAIN order = 1..Len(order) /\ \A i \in 1..Len(order) : order[i] # u
  BY <1>1 DEF RunIdentity!Range
<1>3. /\ Append(order, u) \in Seq(Users) /\ Len(Append(order, u)) = Len(order) + 1
      /\ Append(order, u)[Len(order) + 1] = u
      /\ \A i \in 1..Len(order) : Append(order, u)[i] = order[i]
  BY <1>1
<1>4. ASSUME NEW i \in 1..(Len(order) + 1), NEW j \in 1..(Len(order) + 1),
             Append(order, u)[i] = Append(order, u)[j]
      PROVE  i = j
  <2>1. i \in 1..Len(order) \/ i = Len(order) + 1
    BY <1>1
  <2>2. j \in 1..Len(order) \/ j = Len(order) + 1
    BY <1>1
  <2>. QED BY <1>1, <1>2, <1>3, <1>4, <2>1, <2>2
<1>. QED BY <1>1, <1>3, <1>4 DEF RunIdentity!IsOrder

\* The clients that are kept are those of distinct users, in their number or under
\* the limit.
LEMMA RunIdentityKeeping ==
  ASSUME RunIdentity!IdentityAssumption, RunIdentity!TypeOK, NEW u \in Users
  PROVE  /\ RunIdentity!IsOrder(RunIdentity!Keep(u), Users, RunIdentity!Cardinality(Users))
         /\ runHost \in {"vercel", "mastra"} => Len(RunIdentity!Keep(u)) <= Limit
<1> DEFINE added == IF u \in RunIdentity!Range(runClients) THEN runClients ELSE Append(runClients, u)
           touched == RunIdentity!Touch(runClients, u)
<1>1. /\ RunIdentity!IsFiniteSet(Users) /\ Limit \in Nat \ {0} /\ RunIdentity!Cardinality(Users) \in Nat
      /\ RunIdentity!IsOrder(runClients, Users, RunIdentity!Cardinality(Users))
      /\ runHost \in {"vercel", "mastra"} => Len(runClients) <= Limit
  BY RunIdentityCardinalityType DEF RunIdentity!IdentityAssumption, RunIdentity!TypeOK
<1>2. RunIdentity!IsOrder(added, Users, RunIdentity!Cardinality(Users) + 1) /\ Len(added) > 0
  <2>1. CASE u \in RunIdentity!Range(runClients)
    <3>1. runClients \in Seq(Users) /\ Len(runClients) \in Nat /\ Len(runClients) <= RunIdentity!Cardinality(Users)
      BY <1>1 DEF RunIdentity!IsOrder
    <3>2. runClients # <<>> /\ Len(runClients) # 0
      BY <2>1, <3>1 DEF RunIdentity!Range
    <3>. QED BY <1>1, <2>1, <3>1, <3>2 DEF RunIdentity!IsOrder
  <2>2. CASE u \notin RunIdentity!Range(runClients)
    BY <1>1, <2>2, RunIdentityAdds
  <2>. QED BY <2>1, <2>2
<1>3. RunIdentity!IsOrder(touched, Users, RunIdentity!Cardinality(Users) + 1) /\ Len(touched) > 0
  BY <1>1, RunIdentityTouchKeepsOrder
<1>. HIDE DEF added, touched
<1>4. RunIdentity!Cardinality(Users) + 1 \in Nat
  BY <1>1
<1>5. RunIdentity!IsOrder(added, Users, RunIdentity!Cardinality(Users))
  BY <1>1, <1>2, <1>4, RunIdentityOrderFits
<1>6. RunIdentity!IsOrder(RunIdentity!Newest(touched, Limit), Users, Limit) /\ RunIdentity!IsOrder(RunIdentity!Newest(added, Limit), Users, Limit)
  BY <1>1, <1>2, <1>3, <1>4, RunIdentityNewestKeepsOrder
<1>7. /\ RunIdentity!IsOrder(RunIdentity!Newest(touched, Limit), Users, RunIdentity!Cardinality(Users))
      /\ Len(RunIdentity!Newest(touched, Limit)) <= Limit
      /\ RunIdentity!IsOrder(RunIdentity!Newest(added, Limit), Users, RunIdentity!Cardinality(Users))
      /\ Len(RunIdentity!Newest(added, Limit)) <= Limit
  <2>1. Limit \in Nat
    BY <1>1
  <2>2. Len(RunIdentity!Newest(touched, Limit)) <= Limit /\ Len(RunIdentity!Newest(added, Limit)) <= Limit
    BY <1>6 DEF RunIdentity!IsOrder
  <2>. QED BY <1>1, <1>6, <2>1, <2>2, RunIdentityOrderFits
<1>8. CASE config.client # None
  BY <1>1, <1>8 DEF RunIdentity!Keep
<1>9. CASE config.client = None /\ runHost = "mastra"
  <2>1. RunIdentity!Keep(u) = RunIdentity!Newest(touched, Limit)
    BY <1>9 DEF RunIdentity!Keep, touched
  <2>. QED BY <1>7, <2>1
<1>10. CASE config.client = None /\ runHost = "vercel"
  <2>1. RunIdentity!Keep(u) = RunIdentity!Newest(added, Limit)
    BY <1>10 DEF RunIdentity!Keep, added
  <2>. QED BY <1>7, <2>1
<1>11. CASE config.client = None /\ runHost \notin {"vercel", "mastra"}
  <2>1. RunIdentity!Keep(u) = added
    BY <1>11 DEF RunIdentity!Keep, added
  <2>. QED BY <1>5, <1>11, <2>1
<1>. QED BY <1>8, <1>9, <1>10, <1>11

LEMMA RunIdentityStarts ==
  ASSUME RunIdentity!IdentityAssumption, RunIdentity!Init PROVE RunIdentityInv
<1>1. RunIdentity!IsOrder(<<>>, Users, RunIdentity!Cardinality(Users)) /\ Len(<<>>) = 0
  BY RunIdentityCardinalityType DEF RunIdentity!IdentityAssumption, RunIdentity!IsOrder
<1>. QED BY <1>1 DEF RunIdentity!IdentityAssumption, RunIdentity!Init, RunIdentity!Idle,
       RunIdentityInv, RunIdentity!TypeOK, RunIdentity!Maybe

\* Who the user of a run is does not change with what the run does.
LEMMA RunIdentitySameUser ==
  ASSUME UNCHANGED <<runHost, config, run>>
  PROVE  \A w \in RunIdentity!Ways : RunIdentity!UserOf(w)' = RunIdentity!UserOf(w)
BY DEF RunIdentity!UserOf, RunIdentity!VercelUser, RunIdentity!DeepAgentsUser,
   RunIdentity!DeepAgentsRunUser, RunIdentity!MastraUser, RunIdentity!MastraScope,
       RunIdentity!MastraToolScope, RunIdentity!ScopeFromMessages, RunIdentity!LangGraphUser, RunIdentity!LangGraphLabel

LEMMA RunIdentityAUser ==
  ASSUME RunIdentity!IdentityAssumption, RunIdentity!TypeOK, NEW way \in RunIdentity!Ways
  PROVE  RunIdentity!UserOf(way) \in RunIdentity!Maybe
<1>1. /\ run.first \in RunIdentity!Given /\ run.second \in RunIdentity!Given /\ run.older \in RunIdentity!Maybe
      /\ config.client \in RunIdentity!Maybe /\ config.resolver \in RunIdentity!Maybe /\ config.userId \in RunIdentity!Maybe
  BY DEF RunIdentity!TypeOK, RunIdentity!Runs, RunIdentity!Configs
<1>2. runHost \in RunIdentity!Hosts
  BY DEF RunIdentity!TypeOK
<1>3. /\ RunIdentity!NonBlank(run.first) \in RunIdentity!Maybe /\ RunIdentity!NonBlank(run.second) \in RunIdentity!Maybe
      /\ RunIdentity!NonBlank(config.userId) \in RunIdentity!Maybe
  BY <1>1 DEF RunIdentity!NonBlank, RunIdentity!Given, RunIdentity!Maybe
<1>4. \A x, y \in RunIdentity!Maybe : RunIdentity!Else(x, y) \in RunIdentity!Maybe
  BY DEF RunIdentity!Else
<1>5. RunIdentity!VercelUser(way) \in RunIdentity!Maybe
  BY <1>1, <1>3 DEF RunIdentity!VercelUser, RunIdentity!Else
<1>6. RunIdentity!DeepAgentsUser \in RunIdentity!Maybe
  BY <1>1, <1>3, <1>4 DEF RunIdentity!DeepAgentsUser, RunIdentity!DeepAgentsRunUser
<1>7. RunIdentity!MastraUser(RunIdentity!MastraToolScope) \in RunIdentity!Maybe /\ RunIdentity!MastraUser(RunIdentity!MastraScope) \in RunIdentity!Maybe
  <2>0. run.agent \in RunIdentity!Given
    BY DEF RunIdentity!TypeOK, RunIdentity!Runs
  <2>1. RunIdentity!MastraScope \in RunIdentity!Maybe /\ RunIdentity!MastraToolScope \in RunIdentity!Given
    BY <2>0, <1>1, <1>3 DEF RunIdentity!MastraToolScope, RunIdentity!MastraScope,
       RunIdentity!ScopeFromMessages, RunIdentity!Else, RunIdentity!Given
  <2>2. \A x \in RunIdentity!Given : RunIdentity!MastraUser(x) \in RunIdentity!Maybe
    BY <1>1 DEF RunIdentity!MastraUser, RunIdentity!Else, RunIdentity!NonBlank,
       RunIdentity!Given, RunIdentity!Maybe
  <2>. QED BY <2>1, <2>2 DEF RunIdentity!Given
<1>8. RunIdentity!LangGraphUser \in RunIdentity!Maybe
  BY <1>1, <1>3, <1>4 DEF RunIdentity!LangGraphUser, RunIdentity!LangGraphLabel,
     RunIdentity!Maybe
<1>. QED BY <1>2, <1>5, <1>6, <1>7, <1>8 DEF RunIdentity!UserOf, RunIdentity!Hosts

LEMMA RunIdentityKeeps ==
  ASSUME RunIdentity!IdentityAssumption, RunIdentityInv, [RunIdentity!Next]_identityVars PROVE RunIdentityInv'
<1>1. ASSUME NEW way \in RunIdentity!Ways, RunIdentity!Use(way) PROVE RunIdentityInv'
  <2> DEFINE u == RunIdentity!UserOf(way)
  <2>1. u \in Users
    BY <1>1, RunIdentityAUser DEF RunIdentity!Use, RunIdentityInv, RunIdentity!Maybe
  <2>2. /\ runUsed' = [runUsed EXCEPT ![way] = u] /\ runClients' = RunIdentity!Keep(u)
        /\ UNCHANGED <<runHost, config, run>>
    BY <1>1 DEF RunIdentity!Use
  <2>3. \A w \in RunIdentity!Ways : RunIdentity!UserOf(w)' = RunIdentity!UserOf(w)
    BY <2>2, RunIdentitySameUser
  <2>4. /\ RunIdentity!IsOrder(RunIdentity!Keep(u), Users, RunIdentity!Cardinality(Users))
        /\ runHost \in {"vercel", "mastra"} => Len(RunIdentity!Keep(u)) <= Limit
    BY <2>1, RunIdentityKeeping DEF RunIdentityInv
  <2>. HIDE DEF u
  <2>5. RunIdentity!TypeOK'
    BY <2>1, <2>2, <2>4 DEF RunIdentityInv, RunIdentity!TypeOK, RunIdentity!Maybe
  <2>6. \A w \in RunIdentity!Ways : runUsed'[w] # None => runUsed'[w] = RunIdentity!UserOf(w)'
    BY <2>2, <2>3 DEF RunIdentityInv, RunIdentity!TypeOK, u
  <2>. QED BY <2>5, <2>6 DEF RunIdentityInv
<1>2. ASSUME NEW r \in RunIdentity!Runs(runHost), RunIdentity!NextRun(r) PROVE RunIdentityInv'
  BY <1>2 DEF RunIdentity!NextRun, RunIdentity!Idle, RunIdentityInv, RunIdentity!TypeOK,
     RunIdentity!Maybe
<1>4. ASSUME RunIdentity!RunEnds PROVE RunIdentityInv'
  <2>1. RunIdentity!Quiet \in RunIdentity!Runs(runHost)
    BY DEF RunIdentity!Quiet, RunIdentity!Runs, RunIdentity!Given, RunIdentity!Maybe
  <2>. QED BY <1>4, <2>1 DEF RunIdentity!RunEnds, RunIdentity!Idle, RunIdentityInv,
         RunIdentity!TypeOK, RunIdentity!Maybe
<1>3. CASE UNCHANGED identityVars
  <2>1. \A w \in RunIdentity!Ways : RunIdentity!UserOf(w)' = RunIdentity!UserOf(w)
    BY <1>3, RunIdentitySameUser DEF identityVars
  <2>. QED BY <1>3, <2>1 DEF identityVars, RunIdentityInv, RunIdentity!TypeOK
<1>. QED BY <1>1, <1>2, <1>3, <1>4 DEF RunIdentity!Next

LEMMA RunIdentityImplies ==
  ASSUME RunIdentity!IdentityAssumption, RunIdentityInv PROVE RunIdentity!MemoriesAreOwn /\ RunIdentity!TypeOK
<1> DEFINE heard == IF run.first \in Users THEN run.first ELSE run.second
           named(way) == ({run.first, run.second} \cup (IF way = "tools" THEN {run.agent} ELSE {}))
                         \cap Users
           pinned == {config.client, config.resolver} \cap Users
           apart(way) == way = "tools" /\ (runHost = "vercel" \/ run.agent \notin {None, heard})
<1>1. /\ run.first \in RunIdentity!Given /\ run.second \in RunIdentity!Given /\ run.older \in RunIdentity!Maybe
      /\ run.agent \in RunIdentity!Given
      /\ config.client \in RunIdentity!Maybe /\ config.resolver \in RunIdentity!Maybe /\ config.userId \in RunIdentity!Maybe
      /\ runHost \in RunIdentity!Hosts
      /\ runHost = "vercel" => run.second = None
      /\ runHost # "mastra" => run.older = None /\ run.agent = None /\ config.resolver = None
  BY DEF RunIdentityInv, RunIdentity!TypeOK, RunIdentity!Runs, RunIdentity!Configs
<1>2. {None, Blank} \cap Users = {} /\ None # Blank
  BY DEF RunIdentity!IdentityAssumption
<1>3. \A w \in RunIdentity!Ways : runUsed[w] # None => runUsed[w] = RunIdentity!UserOf(w)
  BY DEF RunIdentityInv
<1>4. ASSUME NEW v \in RunIdentity!Ways, runUsed[v] # None,
             NEW w \in RunIdentity!Ways, runUsed[w] # None, ~apart(v), ~apart(w)
      PROVE  runUsed[v] = runUsed[w]
  <2>1. CASE runHost # "mastra"
    <3>1. RunIdentity!UserOf(v) = RunIdentity!UserOf(w)
      BY <1>1, <1>4, <2>1 DEF RunIdentity!UserOf, RunIdentity!VercelUser, RunIdentity!Hosts
    <3>. QED BY <1>3, <1>4, <3>1
  <2>2. CASE runHost = "mastra"
    <3>1. ASSUME NEW x \in RunIdentity!Ways, runUsed[x] # None, ~apart(x)
          PROVE  runUsed[x] = RunIdentity!MastraUser(RunIdentity!MastraScope)
      <4>1. CASE x # "tools"
        BY <1>3, <2>2, <3>1, <4>1 DEF RunIdentity!UserOf
      <4>2. CASE x = "tools"
        <5>1. runUsed[x] = RunIdentity!MastraUser(RunIdentity!MastraToolScope) /\ runUsed[x] # None
          BY <1>3, <2>2, <3>1, <4>2 DEF RunIdentity!UserOf
        <5>2. run.agent \in {None, heard}
          BY <3>1, <4>2
        <5>. QED BY <1>1, <1>2, <5>1, <5>2 DEF RunIdentity!MastraUser, RunIdentity!MastraScope,
               RunIdentity!MastraToolScope, RunIdentity!ScopeFromMessages, RunIdentity!Else,
               RunIdentity!NonBlank, RunIdentity!Given, RunIdentity!Maybe
      <4>. QED BY <4>1, <4>2
    <3>2. runUsed[v] = RunIdentity!MastraUser(RunIdentity!MastraScope)
      BY <1>4, <3>1
    <3>3. runUsed[w] = RunIdentity!MastraUser(RunIdentity!MastraScope)
      BY <1>4, <3>1
    <3>. QED BY <3>2, <3>3
  <2>. QED BY <2>1, <2>2
<1>5. ASSUME NEW v \in RunIdentity!Ways, runUsed[v] # None, runUsed[v] = run.older
      PROVE  runUsed[v] \in pinned \cup {config.userId} \cup named(v) \/ named(v) = {}
  <2>1. runHost = "mastra"
    BY <1>1, <1>5
  <2>2. \/ v = "tools" /\ runUsed[v] = RunIdentity!MastraUser(RunIdentity!MastraToolScope)
        \/ v # "tools" /\ runUsed[v] = RunIdentity!MastraUser(RunIdentity!MastraScope)
    BY <1>3, <1>5, <2>1 DEF RunIdentity!UserOf
  <2>. QED BY <1>1, <1>2, <1>5, <2>2 DEF RunIdentity!MastraUser, RunIdentity!MastraToolScope,
         RunIdentity!MastraScope,
              RunIdentity!ScopeFromMessages, RunIdentity!Else, RunIdentity!NonBlank, RunIdentity!Given, RunIdentity!Maybe
<1>6. ASSUME NEW v \in RunIdentity!Ways, runUsed[v] # None, named(v) # {}, pinned = {},
             runHost \in {"vercel", "deepagents"}, v # "tools"
      PROVE  runUsed[v] \in named(v)
  <2>1. CASE runHost = "vercel"
    BY <1>1, <1>2, <1>3, <1>6, <2>1 DEF RunIdentity!UserOf, RunIdentity!VercelUser,
       RunIdentity!Else, RunIdentity!NonBlank, RunIdentity!Given, RunIdentity!Maybe
  <2>2. CASE runHost = "deepagents"
    BY <1>1, <1>2, <1>3, <1>6, <2>2 DEF RunIdentity!UserOf, RunIdentity!DeepAgentsUser,
       RunIdentity!DeepAgentsRunUser, RunIdentity!Else,
       RunIdentity!NonBlank, RunIdentity!Given, RunIdentity!Maybe
  <2>. QED BY <1>6, <2>1, <2>2
<1>. QED BY <1>4, <1>5, <1>6 DEF RunIdentity!MemoriesAreOwn, RunIdentityInv

\* A behaviour of the whole that is this part's is a behaviour of this part.
LEMMA RunIdentityBegins ==
  ASSUME Init, part = "RunIdentity" PROVE RunIdentity!Init
BY DEF Init

LEMMA RunIdentityGoes ==
  ASSUME [Next]_<<part, recallGroup, persistGroup, userGroup, callGroup>>, part = "RunIdentity"
  PROVE  part' = "RunIdentity" /\ [RunIdentity!Next]_identityVars
<1>1. CASE Next
  BY <1>1 DEF Next, RecallNext, PersistNext, UserNext, CallNext, userGroup
<1>2. CASE UNCHANGED <<part, recallGroup, persistGroup, userGroup, callGroup>>
  BY <1>2 DEF userGroup
<1>. QED BY <1>1, <1>2

------------------------------------------------------------------------------
\* What the halves of the editor plugin read for their configuration.

PluginConfigInv ==
  /\ PluginConfig!TypeOK
  /\ hooks = PluginConfig!NotRun \/ hooks = IF disabled THEN PluginConfig!NoConfig ELSE PluginConfig!Known([o \in Options |-> PluginConfig!ReadOption(o)])
  /\ skills = PluginConfig!NotRun \/ skills = PluginConfig!Known([o \in Options |-> PluginConfig!Resolve(o)])

\* What is found is a configuration, or none.
LEMMA PluginConfigConfigures ==
  ASSUME NEW found \in [Options -> PluginConfig!Values]
  PROVE  PluginConfig!Known(found) = PluginConfig!NoConfig \/ PluginConfig!Known(found) \in [Options -> PluginConfig!Values \ {"", Unset}]
BY DEF PluginConfig!Known, PluginConfig!Truthy

LEMMA PluginConfigStarts ==
  ASSUME PluginConfig!Init PROVE PluginConfigInv
<1>1. disk \in [Options -> PluginConfig!Values] /\ env \in [Options -> PluginConfig!Values]
  BY DEF PluginConfig!Init, PluginConfig!Values
<1>. QED BY <1>1 DEF PluginConfig!Init, PluginConfigInv, PluginConfig!TypeOK

LEMMA PluginConfigKeeps ==
  ASSUME PluginConfigInv, [PluginConfig!Next]_configVars PROVE PluginConfigInv'
<1>1. disk \in [Options -> PluginConfig!Values] /\ env \in [Options -> PluginConfig!Values]
  BY DEF PluginConfigInv, PluginConfig!TypeOK
<1>2. ([o \in Options |-> PluginConfig!ReadOption(o)])' = [o \in Options |-> PluginConfig!ReadOption(o)]
      /\ ([o \in Options |-> PluginConfig!Resolve(o)])' = [o \in Options |-> PluginConfig!Resolve(o)]
  BY DEF PluginConfig!Next, configVars, PluginConfig!HookRuns, PluginConfig!SkillRuns,
     PluginConfig!ReadOption, PluginConfig!Resolve, PluginConfig!Truthy
<1>3. /\ [o \in Options |-> PluginConfig!ReadOption(o)] \in [Options -> PluginConfig!Values]
      /\ [o \in Options |-> PluginConfig!Resolve(o)] \in [Options -> PluginConfig!Values]
  BY <1>1 DEF PluginConfig!ReadOption, PluginConfig!Resolve
<1>4. UNCHANGED <<disk, env, disabled>>
  BY DEF PluginConfig!Next, configVars, PluginConfig!HookRuns, PluginConfig!SkillRuns
<1>5. CASE PluginConfig!HookRuns
  <2>1. hooks' = IF disabled THEN PluginConfig!NoConfig ELSE PluginConfig!Known([o \in Options |-> PluginConfig!ReadOption(o)])
    BY <1>5 DEF PluginConfig!HookRuns
  <2>2. hooks' = PluginConfig!NoConfig \/ hooks' \in [Options -> PluginConfig!Values \ {"", Unset}]
    BY <1>3, <2>1, PluginConfigConfigures
  <2>3. skills' = skills
    BY <1>5 DEF PluginConfig!HookRuns
  <2>. HIDE DEF PluginConfig!Known, PluginConfig!ReadOption, PluginConfig!Resolve
  <2>4. PluginConfig!TypeOK'
    BY <1>4, <2>2, <2>3 DEF PluginConfigInv, PluginConfig!TypeOK
  <2>. QED BY <1>2, <1>4, <2>1, <2>3, <2>4 DEF PluginConfigInv
<1>6. CASE PluginConfig!SkillRuns
  <2>1. skills' = PluginConfig!Known([o \in Options |-> PluginConfig!Resolve(o)])
    BY <1>6 DEF PluginConfig!SkillRuns
  <2>2. skills' = PluginConfig!NoConfig \/ skills' \in [Options -> PluginConfig!Values \ {"", Unset}]
    BY <1>3, <2>1, PluginConfigConfigures
  <2>3. hooks' = hooks
    BY <1>6 DEF PluginConfig!SkillRuns
  <2>4. PluginConfig!TypeOK'
    BY <1>4, <2>2, <2>3 DEF PluginConfigInv, PluginConfig!TypeOK
  <2>. QED BY <1>2, <1>4, <2>1, <2>3, <2>4 DEF PluginConfigInv
<1>7. CASE UNCHANGED configVars
  <2>1. hooks' = hooks /\ skills' = skills
    BY <1>7 DEF configVars
  <2>2. PluginConfig!TypeOK'
    BY <1>4, <2>1 DEF PluginConfigInv, PluginConfig!TypeOK
  <2>. QED BY <1>2, <1>4, <2>1, <2>2 DEF PluginConfigInv
<1>. QED BY <1>5, <1>6, <1>7 DEF PluginConfig!Next

LEMMA PluginConfigImplies ==
  ASSUME PluginConfigInv PROVE PluginConfig!MemoriesAreOwn /\ PluginConfig!TypeOK
<1>1. ASSUME PluginConfig!Unambiguous, ~disabled, PluginConfig!NotRun \notin {hooks, skills}
      PROVE  hooks = skills
  <2>1. \A o \in Options : PluginConfig!ReadOption(o) = PluginConfig!Resolve(o)
    BY <1>1 DEF PluginConfig!Unambiguous, PluginConfig!ReadOption, PluginConfig!Resolve,
       PluginConfig!Truthy
  <2>2. [o \in Options |-> PluginConfig!ReadOption(o)] = [o \in Options |-> PluginConfig!Resolve(o)]
    BY <2>1
  <2>. QED BY <1>1, <2>2 DEF PluginConfigInv
<1>. QED BY <1>1 DEF PluginConfigInv, PluginConfig!MemoriesAreOwn

\* A behaviour of the whole that is this part's is a behaviour of this part.
LEMMA PluginConfigBegins ==
  ASSUME Init, part = "PluginConfig" PROVE PluginConfig!Init
BY DEF Init

LEMMA PluginConfigGoes ==
  ASSUME [Next]_<<part, recallGroup, persistGroup, userGroup, callGroup>>, part = "PluginConfig"
  PROVE  part' = "PluginConfig" /\ [PluginConfig!Next]_configVars
<1>1. CASE Next
  BY <1>1 DEF Next, RecallNext, PersistNext, UserNext, CallNext, userGroup
<1>2. CASE UNCHANGED <<part, recallGroup, persistGroup, userGroup, callGroup>>
  BY <1>2 DEF userGroup
<1>. QED BY <1>1, <1>2

------------------------------------------------------------------------------
\* The ledger of the Claude hooks.

\* The orders of the part are those of the library.
LEMMA ClaudeRecallLru ==
  /\ \A f : ClaudeRecall!Range(f) = Range(f)
  /\ \A q, s, S : ClaudeRecall!IsRest(q, s, S) <=> IsRest(q, s, S)
  /\ \A order, S, cap : ClaudeRecall!IsOrder(order, S, cap) <=> IsOrder(order, S, cap)
  /\ \A order, x : ClaudeRecall!Touch(order, x) = Touch(order, x)
  /\ \A order, x : ClaudeRecall!Without(order, x) = Without(order, x)
  /\ \A order, cap : ClaudeRecall!Newest(order, cap) = Newest(order, cap)
  /\ \A order, cap : ClaudeRecall!Oldest(order, cap) = Oldest(order, cap)
<1>1. \A f : ClaudeRecall!Range(f) = Range(f)
  BY DEF ClaudeRecall!Range, Range
<1>2. /\ \A order, S, cap : ClaudeRecall!IsOrder(order, S, cap) <=> IsOrder(order, S, cap)
      /\ \A q, s, S : ClaudeRecall!IsRest(q, s, S) <=> IsRest(q, s, S)
  BY <1>1 DEF ClaudeRecall!IsOrder, IsOrder, ClaudeRecall!IsRest, IsRest
<1>3. /\ \A order, x : ClaudeRecall!Touch(order, x) = Touch(order, x)
      /\ \A order, x : ClaudeRecall!Without(order, x) = Without(order, x)
  BY DEF ClaudeRecall!Touch, Touch, ClaudeRecall!Without, Without, ClaudeRecall!Place, Place
<1>4. \A order, cap : ClaudeRecall!Newest(order, cap) = Newest(order, cap)
  BY DEF ClaudeRecall!Newest, Newest
<1>5. \A order, cap : ClaudeRecall!Oldest(order, cap) = Oldest(order, cap)
  BY <1>1, <1>4 DEF ClaudeRecall!Oldest, Oldest
<1>. QED BY <1>1, <1>2, <1>3, <1>4, <1>5

\* Finite sets are the same to the part.
LEMMA ClaudeRecallFinite ==
  /\ \A S : ClaudeRecall!IsFiniteSet(S) <=> IsFiniteSet(S)
  /\ \A S : ClaudeRecall!Cardinality(S) = Cardinality(S)
<1>1. \A S : ClaudeRecall!IsFiniteSet(S) <=> IsFiniteSet(S)
  BY DEF ClaudeRecall!IsFiniteSet, IsFiniteSet
<1>2. \A S : ClaudeRecall!Cardinality(S) = Cardinality(S)
  BY DEF ClaudeRecall!Cardinality, Cardinality
<1>. QED BY <1>1, <1>2

\* The log and the tables as a ledger.
ClaudeRecallBook == [n |-> Len(claudeLog), who |-> [i \in 1..Len(claudeLog) |-> claudeLog[i][1]],
         what |-> [i \in 1..Len(claudeLog) |-> claudeLog[i][2]], live |-> 1..Len(claudeLog),
         order |-> seenOrder, table |-> seen]
ClaudeRecallBalanced == Ledger(ClaudeRecallBook, Sessions, Hits, MaxSessions, ClaudeSeen)
ClaudeRecallTyped ==
  /\ calls \in [Calls -> Sessions \cup {None}]
  /\ claudeLog \in Seq(Sessions \X Hits)

ClaudeRecallInv == ClaudeRecallTyped /\ ClaudeRecallBalanced /\ ClaudeRecall!ShownOnce

\* What ShownOnce asks of two injections in w.
ClaudeRecallOut(w, i, j) ==
  \/ ClaudeRecall!Cardinality({w[m][2] : m \in {k \in (i + 1)..(j - 1) : w[k][1] = w[i][1]}}) >= ClaudeSeen
  \/ \E a, b \in i..j :
       /\ \A m \in (a + 1)..(b - 1) : w[m][1] # w[i][1]
       /\ ClaudeRecall!Cardinality({w[m][1] : m \in (a + 1)..(b - 1)}) >= MaxSessions
ClaudeRecallTold(L, w) ==
  /\ L.n = Len(w) /\ Len(w) \in Nat
  /\ \A i \in 1..Len(w) : L.who[i] = w[i][1] /\ L.what[i] = w[i][2]
LEMMA ClaudeRecallTells ==
  ASSUME NEW w, NEW L, ClaudeRecallTold(L, w), NEW i \in 1..Len(w), NEW j \in 1..Len(w), i < j
  PROVE  Pushed(L, i, j, MaxSessions, ClaudeSeen) <=> ClaudeRecallOut(w, i, j)
<1>1. Len(w) \in Nat /\ \A k \in 1..Len(w) : L.who[k] = w[k][1] /\ L.what[k] = w[k][2]
  BY DEF ClaudeRecallTold
<1>2. \A k \in (i + 1)..(j - 1) : k \in 1..Len(w)
  BY <1>1
<1>3. \A a, b \in i..j : \A k \in (a + 1)..(b - 1) : k \in 1..Len(w)
  BY <1>1
<1>4. Since(L, i, j) = {k \in (i + 1)..(j - 1) : w[k][1] = w[i][1]}
  BY <1>1, <1>2 DEF Since
<1>5. Labelled(L.what, Since(L, i, j))
        = {w[m][2] : m \in {k \in (i + 1)..(j - 1) : w[k][1] = w[i][1]}}
  <2>1. PICK Q : Q = {k \in (i + 1)..(j - 1) : w[k][1] = w[i][1]}
    OBVIOUS
  <2>2. \A m \in Q : L.what[m] = w[m][2]
    BY <1>1, <1>2, <2>1
  <2>3. {L.what[m] : m \in Q} = {w[m][2] : m \in Q}
    BY <2>2
  <2>. QED BY <1>4, <2>1, <2>3 DEF Labelled
<1>6. ASSUME NEW a \in i..j, NEW b \in i..j
      PROVE  /\ Labelled(L.who, (a + 1)..(b - 1)) = {w[m][1] : m \in (a + 1)..(b - 1)}
             /\ (\A m \in (a + 1)..(b - 1) : L.who[m] # L.who[i])
                  <=> \A m \in (a + 1)..(b - 1) : w[m][1] # w[i][1]
  <2>1. PICK Q : Q = (a + 1)..(b - 1)
    OBVIOUS
  <2>2. \A k \in Q : L.who[k] = w[k][1]
    BY <1>1, <1>3, <2>1
  <2>3. Labelled(L.who, Q) = {w[m][1] : m \in Q}
    BY <2>2 DEF Labelled
  <2>4. (\A m \in Q : L.who[m] # L.who[i]) <=> \A m \in Q : w[m][1] # w[i][1]
    BY <1>1, <2>2
  <2>. QED BY <2>1, <2>3, <2>4
<1>. QED BY <1>5, <1>6, ClaudeRecallFinite DEF Pushed, ClaudeRecallOut

ClaudeRecallOnce(w) ==
  \A i, j \in 1..Len(w) : i < j /\ w[i] = w[j] => ClaudeRecallOut(w, i, j)
LEMMA ClaudeRecallOnces == (ClaudeRecall!ShownOnce <=> ClaudeRecallOnce(claudeLog)) /\ (ClaudeRecall!ShownOnce' <=> ClaudeRecallOnce(claudeLog'))
BY DEF ClaudeRecall!ShownOnce, ClaudeRecallOnce, ClaudeRecallOut

LEMMA ClaudeRecallStarts ==
  ASSUME ClaudeRecall!RecallAssumption, ClaudeRecall!Init PROVE ClaudeRecallInv
<1>1. claudeLog = <<>> /\ seenOrder = <<>> /\ seen = [s \in Sessions |-> <<>>]
      /\ MaxSessions \in Nat /\ ClaudeSeen \in Nat /\ Len(claudeLog) = 0
  BY DEF ClaudeRecall!Init, ClaudeRecall!RecallAssumption
<1>2. ClaudeRecallTyped
  BY <1>1 DEF ClaudeRecall!Init, ClaudeRecallTyped
<1>3. /\ ClaudeRecallBook.n = 0 /\ ClaudeRecallBook.live = {} /\ ClaudeRecallBook.order = <<>>
      /\ \A s \in Sessions : ClaudeRecallBook.table[s] = <<>>
  BY <1>1 DEF ClaudeRecallBook
<1>4. ClaudeRecallBalanced
  BY <1>1, <1>3, LedgerStarts DEF ClaudeRecallBalanced
<1>5. ClaudeRecall!ShownOnce
  BY <1>1 DEF ClaudeRecall!ShownOnce
<1>. QED BY <1>2, <1>4, <1>5 DEF ClaudeRecallInv

\* What is injected is a beginning of what has not been seen.
LEMMA ClaudeRecallFormats ==
  ASSUME ClaudeRecall!RecallAssumption, NEW hits \in HitAnswers, NEW n \in 1..Len(hits), NEW new,
         new = ClaudeRecall!Formatted(hits, n)
  PROVE  /\ new \in Seq(Hits) /\ Len(new) = n
         /\ n \in Nat \ {0} /\ ClaudeRecall!Range(new) \subseteq ClaudeRecall!Range(hits)
         /\ \A i, j \in 1..n : new[i] = new[j] => i = j
<1>1. hits \in Seq(Hits) /\ \A i, j \in 1..Len(hits) : hits[i] = hits[j] => i = j
  BY DEF ClaudeRecall!RecallAssumption, ClaudeRecall!IsOrder
<1>2. new = SubSeq(hits, 1, n)
  BY DEF ClaudeRecall!Formatted
<1>3. new \in Seq(Hits) /\ Len(new) = n /\ n \in Nat \ {0}
      /\ \A i \in 1..n : new[i] = hits[i] /\ i \in 1..Len(hits)
  BY <1>1, <1>2
<1>4. \A i \in 1..n : new[i] \in ClaudeRecall!Range(hits)
  BY <1>1, <1>3 DEF ClaudeRecall!Range
<1>5. DOMAIN new = 1..n
  BY <1>3
<1>6. ClaudeRecall!Range(new) \subseteq ClaudeRecall!Range(hits)
  BY <1>4, <1>5 DEF ClaudeRecall!Range
<1>. QED BY <1>1, <1>3, <1>6

\* What is logged for it.
LEMMA ClaudeRecallLogs ==
  ASSUME NEW s \in Sessions, NEW n \in Nat, NEW new \in Seq(Hits), Len(new) = n,
         NEW p, p = [i \in 1..n |-> <<s, new[i]>>]
  PROVE  p \in Seq(Sessions \X Hits) /\ Len(p) = n /\ \A i \in 1..n : p[i] = <<s, new[i]>>
<1>1. \A i \in 1..n : <<s, new[i]>> \in Sessions \X Hits
  BY SMT
<1>2. p \in [1..n -> Sessions \X Hits]
  BY <1>1
<1>. QED BY <1>2

LEMMA ClaudeRecallReturns ==
  ASSUME ClaudeRecall!RecallAssumption, ClaudeRecallInv, NEW c \in Calls, NEW unseen \in HitAnswers,
         NEW n \in 1..Len(unseen), ClaudeRecall!SearchReturns(c, unseen, n)
  PROVE  ClaudeRecallInv'
<1>1. ClaudeRecallTyped /\ ClaudeRecallBalanced /\ ClaudeRecall!ShownOnce /\ MaxSessions \in Nat \ {0} /\ ClaudeSeen \in Nat \ {0}
  BY DEF ClaudeRecallInv, ClaudeRecall!RecallAssumption
<1>2. PICK s, new : s = calls[c] /\ new = ClaudeRecall!Formatted(unseen, n)
  OBVIOUS
<1>0. /\ new \in Seq(Hits) /\ Len(new) = n
      /\ n \in Nat \ {0} /\ ClaudeRecall!Range(new) \subseteq ClaudeRecall!Range(unseen)
      /\ \A i, j \in 1..n : new[i] = new[j] => i = j
  BY <1>2, ClaudeRecallFormats
<1>3. /\ s \in Sessions /\ ClaudeRecall!Range(unseen) \cap ClaudeRecall!Range(seen[s]) = {}
      /\ calls' = [calls EXCEPT ![c] = None]
      /\ seenOrder' = ClaudeRecall!Newest(ClaudeRecall!Touch(seenOrder, s), MaxSessions)
      /\ seen' = [x \in Sessions |->
                    IF x \in ClaudeRecall!Oldest(ClaudeRecall!Touch(seenOrder, s), MaxSessions) THEN <<>>
                    ELSE IF x = s THEN ClaudeRecall!Newest(seen[s] \o new, ClaudeSeen) ELSE seen[x]]
      /\ claudeLog' = claudeLog \o [i \in 1..n |-> <<s, new[i]>>]
  <2>1. n # 0
    BY <1>0
  <2>2. s \in Sessions /\ ClaudeRecall!Range(unseen) \cap ClaudeRecall!Range(seen[s]) = {}
    BY <1>1, <1>2 DEF ClaudeRecall!SearchReturns, ClaudeRecall!Unseen, ClaudeRecallTyped
  <2>3. calls' = [calls EXCEPT ![c] = None] /\ ClaudeRecall!MarkInjected(s, unseen, new)
        /\ claudeLog' = claudeLog \o [i \in 1..n |-> <<s, new[i]>>]
    BY <1>2, <2>1 DEF ClaudeRecall!SearchReturns
  <2>. QED BY <2>2, <2>3 DEF ClaudeRecall!MarkInjected
<1>5. PICK p : p = [i \in 1..n |-> <<s, new[i]>>]
  OBVIOUS
<1>6. p \in Seq(Sessions \X Hits) /\ Len(p) = n /\ \A i \in 1..n : p[i] = <<s, new[i]>>
  BY <1>0, <1>3, <1>5, ClaudeRecallLogs
<1>7. Chained(claudeLog', claudeLog, p, Sessions \X Hits)
  BY <1>1, <1>3, <1>5, <1>6, Chains DEF ClaudeRecallTyped
<1>8. PICK o \in Nat : o = Len(claudeLog)
  BY <1>1 DEF ClaudeRecallTyped
<1>9. /\ claudeLog' \in Seq(Sessions \X Hits) /\ Len(claudeLog') = o + n
      /\ \A i \in 1..o : claudeLog'[i] = claudeLog[i] /\ i \in 1..(o + n)
      /\ \A i \in 1..n : claudeLog'[o + i] = <<s, new[i]>> /\ o + i \in 1..(o + n)
  <2>1. claudeLog' \in Seq(Sessions \X Hits) /\ Len(claudeLog') = o + n
    BY <1>6, <1>7, <1>8 DEF Chained
  <2>2. ASSUME NEW i \in 1..o PROVE claudeLog'[i] = claudeLog[i] /\ i \in 1..(o + n)
    <3>1. i \in 1..(o + n) /\ ~(i > o)
      OBVIOUS
    <3>. QED BY <1>7, <1>8, <2>1, <3>1 DEF Chained
  <2>3. ASSUME NEW i \in 1..n PROVE claudeLog'[o + i] = <<s, new[i]>> /\ o + i \in 1..(o + n)
    <3>1. o + i \in 1..(o + n) /\ o + i \notin 1..o /\ (o + i) - o = i
      OBVIOUS
    <3>2. claudeLog'[o + i] = p[i]
      BY <1>7, <1>8, <2>1, <3>1 DEF Chained
    <3>. QED BY <1>6, <3>1, <3>2
  <2>. QED BY <2>1, <2>2, <2>3
<1>10. PICK L, M : L = ClaudeRecallBook /\ M = ClaudeRecallBook'
  OBVIOUS
<1>11. /\ L.n = o /\ L.live = 1..o /\ L.order = seenOrder /\ L.table = seen
       /\ \A i \in 1..o : L.who[i] = claudeLog[i][1] /\ L.what[i] = claudeLog[i][2]
  BY <1>8, <1>10 DEF ClaudeRecallBook
<1>12. /\ M.n = o + n /\ M.live = 1..(o + n) /\ M.order = seenOrder' /\ M.table = seen'
       /\ \A i \in 1..(o + n) : M.who[i] = claudeLog'[i][1] /\ M.what[i] = claudeLog'[i][2]
  BY <1>9, <1>10 DEF ClaudeRecallBook
<1>13. Grown(L, M, s, new)
  <2>1. ASSUME NEW i \in 1..o PROVE M.who[i] = L.who[i] /\ M.what[i] = L.what[i]
    <3>1. claudeLog'[i] = claudeLog[i] /\ i \in 1..(o + n)
      BY <1>9
    <3>. QED BY <1>11, <1>12, <3>1
  <2>2. ASSUME NEW i \in 1..n PROVE M.who[o + i] = s /\ M.what[o + i] = new[i]
    <3>1. claudeLog'[o + i] = <<s, new[i]>> /\ o + i \in 1..(o + n)
      BY <1>9
    <3>. QED BY <1>12, <3>1
  <2>. QED BY <1>0, <1>11, <1>12, <2>1, <2>2 DEF Grown
<1>14. Gives(L, M, s, new, Sessions, MaxSessions, ClaudeSeen)
  <2>1. new # <<>>
    BY <1>0
  <2>2. M.live = L.live \cup (L.n + 1)..M.n
    BY <1>11, <1>12
  <2>3. M.order = ClaudeRecall!Newest(ClaudeRecall!Touch(L.order, s), MaxSessions)
    BY <1>3, <1>11, <1>12
  <2>4. M.table = [x \in Sessions |->
                     IF x \in ClaudeRecall!Oldest(ClaudeRecall!Touch(L.order, s), MaxSessions) THEN <<>>
                     ELSE IF x = s THEN ClaudeRecall!Newest(L.table[s] \o new, ClaudeSeen) ELSE L.table[x]]
    BY <1>3, <1>11, <1>12
  <2>5. ClaudeRecall!Range(new) \cap ClaudeRecall!Range(L.table[s]) = {}
    BY <1>3, <1>0, <1>11
  <2>. QED BY <1>0, <1>13, <2>1, <2>2, <2>3, <2>4, <2>5, ClaudeRecallLru DEF Gives
<1>15. Ledger(L, Sessions, Hits, MaxSessions, ClaudeSeen)
  BY <1>1, <1>10 DEF ClaudeRecallBalanced
<1>16. ClaudeRecallBalanced'
  <2>1. Ledger(M, Sessions, Hits, MaxSessions, ClaudeSeen)
    BY <1>1, <1>3, <1>0, <1>14, <1>15, LedgerGrows
  <2>. QED BY <1>10, <2>1 DEF ClaudeRecallBalanced
<1>17. ClaudeRecallTyped'
  BY <1>1, <1>3, <1>9 DEF ClaudeRecallTyped
<1>18. ClaudeRecall!ShownOnce'
  <2>1. ASSUME NEW i \in 1..(o + n), NEW j \in 1..(o + n), i < j, claudeLog'[i] = claudeLog'[j]
        PROVE  ClaudeRecallOut(claudeLog', i, j)
    <3>1. M.who[i] = M.who[j] /\ M.what[i] = M.what[j]
      BY <1>12, <2>1
    <3>2. ASSUME j \in 1..o PROVE Pushed(L, i, j, MaxSessions, ClaudeSeen)
      <4>1. i \in 1..o /\ claudeLog[i] = claudeLog[j]
        BY <1>9, <2>1, <3>2
      <4>2. ClaudeRecallOut(claudeLog, i, j)
        BY <1>1, <1>8, <2>1, <3>2, <4>1, ClaudeRecallOnces DEF ClaudeRecallOnce
      <4>3. ClaudeRecallTold(L, claudeLog)
        BY <1>8, <1>11 DEF ClaudeRecallTold
      <4>. QED BY <1>8, <2>1, <3>2, <4>1, <4>2, <4>3, ClaudeRecallTells
    <3>3. i \in L.live \cup (L.n + 1)..M.n
      BY <1>11, <1>12
    <3>4. Kept(L, M, i, j, MaxSessions, ClaudeSeen)
      BY <1>11, <2>1, <3>1, <3>2, <3>3 DEF Kept
    <3>5. Pushed(M, i, j, MaxSessions, ClaudeSeen)
      <4>1. i \in 1..M.n /\ j \in 1..M.n
        BY <1>12
      <4>. QED BY <1>1, <1>3, <1>0, <1>14, <1>15, <3>4, <4>1, ShowsOnce
    <3>6. PICK w : w = claudeLog'
      OBVIOUS
    <3>7. ClaudeRecallTold(M, w) /\ Len(w) = o + n
      <4>1. Len(w) = o + n /\ M.n = o + n
            /\ \A k \in 1..(o + n) : M.who[k] = w[k][1] /\ M.what[k] = w[k][2]
        BY <1>9, <1>12, <3>6
      <4>. QED BY <1>0, <4>1 DEF ClaudeRecallTold
    <3>8. ClaudeRecallOut(w, i, j)
      BY <2>1, <3>5, <3>7, ClaudeRecallTells
    <3>. QED BY <3>6, <3>8
  <2>. QED BY <1>9, <2>1, ClaudeRecallOnces DEF ClaudeRecallOnce
<1>. QED BY <1>16, <1>17, <1>18 DEF ClaudeRecallInv

LEMMA ClaudeRecallKeeps ==
  ASSUME ClaudeRecall!RecallAssumption, ClaudeRecallInv, [ClaudeRecall!Next]_claudeRecallVars PROVE ClaudeRecallInv'
<1>1. ClaudeRecallTyped /\ ClaudeRecallBalanced /\ ClaudeRecall!ShownOnce
  BY DEF ClaudeRecallInv
<1>2. ASSUME UNCHANGED <<seenOrder, seen, claudeLog>>, calls' \in [Calls -> Sessions \cup {None}]
      PROVE  ClaudeRecallInv'
  <2>1. ClaudeRecallTyped' /\ ClaudeRecall!ShownOnce'
    BY <1>1, <1>2, ClaudeRecallOnces DEF ClaudeRecallTyped
  <2>2. ClaudeRecallBook' = ClaudeRecallBook
    BY <1>2 DEF ClaudeRecallBook
  <2>3. ClaudeRecallBalanced'
    BY <1>1, <2>2 DEF ClaudeRecallBalanced
  <2>. QED BY <2>1, <2>3 DEF ClaudeRecallInv
<1>3. ASSUME NEW c \in Calls, NEW s \in Sessions, ClaudeRecall!OnUserPromptSubmit(c, s) PROVE ClaudeRecallInv'
  BY <1>1, <1>2, <1>3 DEF ClaudeRecall!OnUserPromptSubmit, ClaudeRecallTyped
<1>4. ASSUME NEW c \in Calls, NEW unseen \in HitAnswers, NEW n \in 0..Len(unseen),
             ClaudeRecall!SearchReturns(c, unseen, n)
      PROVE  ClaudeRecallInv'
  <2>1. CASE n = 0
    BY <1>1, <1>2, <1>4, <2>1 DEF ClaudeRecall!SearchReturns, ClaudeRecallTyped
  <2>2. CASE n # 0
    <3>1. n \in 1..Len(unseen)
      BY <2>2
    <3>. QED BY <1>4, <3>1, ClaudeRecallReturns
  <2>. QED BY <2>1, <2>2
<1>5. ASSUME NEW c \in Calls, ClaudeRecall!SearchFails(c) PROVE ClaudeRecallInv'
  BY <1>1, <1>2, <1>5 DEF ClaudeRecall!SearchFails, ClaudeRecallTyped
<1>6. CASE UNCHANGED claudeRecallVars
  BY <1>1, <1>2, <1>6 DEF claudeRecallVars, ClaudeRecallTyped
<1>. QED BY <1>3, <1>4, <1>5, <1>6 DEF ClaudeRecall!Next

LEMMA ClaudeRecallImplies ==
  ASSUME ClaudeRecall!RecallAssumption, ClaudeRecallInv PROVE ClaudeRecall!ShownOnce /\ ClaudeRecall!HiddenOnlyIfShown
<1>1. claudeLog \in Seq(Sessions \X Hits) /\ Len(claudeLog) \in Nat
  BY DEF ClaudeRecallInv, ClaudeRecallTyped
<1>2. ASSUME NEW s \in Sessions, NEW h \in ClaudeRecall!Range(seen[s]) PROVE <<s, h>> \in ClaudeRecall!Range(claudeLog)
  <2>1. ClaudeRecallBook.table = seen /\ ClaudeRecallBook.live = 1..Len(claudeLog)
        /\ \A i \in 1..Len(claudeLog) : ClaudeRecallBook.who[i] = claudeLog[i][1] /\ ClaudeRecallBook.what[i] = claudeLog[i][2]
    BY DEF ClaudeRecallBook
  <2>2. h \in ClaudeRecall!Range(ClaudeRecallBook.table[s])
    BY <1>2, <2>1, ClaudeRecallLru
  <2>3. PICK i \in ClaudeRecallBook.live : ClaudeRecallBook.who[i] = s /\ ClaudeRecallBook.what[i] = h
    BY <2>2, ClaudeRecallLru DEF ClaudeRecallInv, ClaudeRecallBalanced, Ledger, Shown
  <2>4. i \in 1..Len(claudeLog) /\ claudeLog[i][1] = s /\ claudeLog[i][2] = h
    BY <2>1, <2>3
  <2>5. claudeLog[i] \in Sessions \X Hits
    BY <1>1, <2>4
  <2>6. claudeLog[i] = <<s, h>>
    BY <2>4, <2>5
  <2>7. claudeLog[i] \in ClaudeRecall!Range(claudeLog)
    BY <1>1, <2>4 DEF ClaudeRecall!Range
  <2>. QED BY <2>6, <2>7
<1>. QED BY <1>2 DEF ClaudeRecallInv, ClaudeRecall!HiddenOnlyIfShown

LEMMA ClaudeRecallTypes ==
  ASSUME ClaudeRecall!RecallAssumption, ClaudeRecallInv PROVE ClaudeRecall!TypeOK
<1>1. ClaudeRecallTyped /\ ClaudeRecallBalanced
  BY DEF ClaudeRecallInv
<1>2. PICK L : L = ClaudeRecallBook
  OBVIOUS
<1>3. L.order = seenOrder /\ L.table = seen
  BY <1>2 DEF ClaudeRecallBook
<1>4. /\ ClaudeRecall!IsOrder(L.order, Sessions, MaxSessions)
      /\ \A s \in Sessions : ClaudeRecall!IsOrder(L.table[s], Hits, ClaudeSeen)
                       /\ (L.table[s] # <<>> <=> s \in ClaudeRecall!Range(L.order))
  BY <1>1, <1>2, ClaudeRecallLru DEF ClaudeRecallBalanced, Ledger, Held
<1>. QED BY <1>1, <1>3, <1>4 DEF ClaudeRecallTyped, ClaudeRecall!TypeOK

\* A behaviour of the whole that is this part's is a behaviour of this part.
LEMMA ClaudeRecallBegins ==
  ASSUME Init, part = "ClaudeRecall" PROVE ClaudeRecall!Init
BY DEF Init

LEMMA ClaudeRecallGoes ==
  ASSUME [Next]_<<part, recallGroup, persistGroup, userGroup, callGroup>>, part = "ClaudeRecall"
  PROVE  part' = "ClaudeRecall" /\ [ClaudeRecall!Next]_claudeRecallVars
<1>1. CASE Next
  BY <1>1 DEF Next, RecallNext, PersistNext, UserNext, CallNext, recallGroup
<1>2. CASE UNCHANGED <<part, recallGroup, persistGroup, userGroup, callGroup>>
  BY <1>2 DEF recallGroup
<1>. QED BY <1>1, <1>2

------------------------------------------------------------------------------
\* The ledger of the OpenClaw plugin, whose sessions end and are reset.

\* The orders of the part are those of the library.
LEMMA OpenClawRecallLru ==
  /\ \A f : OpenClawRecall!Range(f) = Range(f)
  /\ \A q, s, S : OpenClawRecall!IsRest(q, s, S) <=> IsRest(q, s, S)
  /\ \A order, S, cap : OpenClawRecall!IsOrder(order, S, cap) <=> IsOrder(order, S, cap)
  /\ \A order, x : OpenClawRecall!Touch(order, x) = Touch(order, x)
  /\ \A order, x : OpenClawRecall!Without(order, x) = Without(order, x)
  /\ \A order, cap : OpenClawRecall!Newest(order, cap) = Newest(order, cap)
  /\ \A order, cap : OpenClawRecall!Oldest(order, cap) = Oldest(order, cap)
<1>1. \A f : OpenClawRecall!Range(f) = Range(f)
  BY DEF OpenClawRecall!Range, Range
<1>2. /\ \A order, S, cap : OpenClawRecall!IsOrder(order, S, cap) <=> IsOrder(order, S, cap)
      /\ \A q, s, S : OpenClawRecall!IsRest(q, s, S) <=> IsRest(q, s, S)
  BY <1>1 DEF OpenClawRecall!IsOrder, IsOrder, OpenClawRecall!IsRest, IsRest
<1>3. /\ \A order, x : OpenClawRecall!Touch(order, x) = Touch(order, x)
      /\ \A order, x : OpenClawRecall!Without(order, x) = Without(order, x)
  BY DEF OpenClawRecall!Touch, Touch, OpenClawRecall!Without, Without, OpenClawRecall!Place,
     Place
<1>4. \A order, cap : OpenClawRecall!Newest(order, cap) = Newest(order, cap)
  BY DEF OpenClawRecall!Newest, Newest
<1>5. \A order, cap : OpenClawRecall!Oldest(order, cap) = Oldest(order, cap)
  BY <1>1, <1>4 DEF OpenClawRecall!Oldest, Oldest
<1>. QED BY <1>1, <1>2, <1>3, <1>4, <1>5

\* Finite sets are the same to the part.
LEMMA OpenClawRecallFinite ==
  /\ \A S : OpenClawRecall!IsFiniteSet(S) <=> IsFiniteSet(S)
  /\ \A S : OpenClawRecall!Cardinality(S) = Cardinality(S)
<1>1. \A S : OpenClawRecall!IsFiniteSet(S) <=> IsFiniteSet(S)
  BY DEF OpenClawRecall!IsFiniteSet, IsFiniteSet
<1>2. \A S : OpenClawRecall!Cardinality(S) = Cardinality(S)
  BY DEF OpenClawRecall!Cardinality, Cardinality
<1>. QED BY <1>1, <1>2

\* The injections and the tables as a ledger.
OpenClawRecallBook == [n |-> Len(openClawShown), who |-> [i \in 1..Len(openClawShown) |-> openClawShown[i][1]],
         what |-> [i \in 1..Len(openClawShown) |-> openClawShown[i][3]],
         live |-> {i \in 1..Len(openClawShown) : openClawShown[i][2] = resets[openClawShown[i][1]]},
         order |-> ledgerOrder, table |-> ledger]
OpenClawRecallBalanced == Ledger(OpenClawRecallBook, Conversations, Hits, MaxTracked, WindowSize)
OpenClawRecallEntry == Conversations \X Nat \X Hits
OpenClawRecallTyped ==
  /\ openClawWaiting \in [Recalls -> Conversations \cup {None}]
  /\ resets \in [Conversations -> Nat] /\ DOMAIN ledger = Conversations
  /\ openClawShown \in Seq(OpenClawRecallEntry)
\* What was injected was so in this conversation or an earlier one.
OpenClawRecallAged == \A i \in 1..Len(openClawShown) : openClawShown[i][2] <= resets[openClawShown[i][1]]

OpenClawRecallInv == OpenClawRecallTyped /\ OpenClawRecallAged /\ OpenClawRecallBalanced /\ OpenClawRecall!ShownOnce

\* What ShownOnce asks of two injections in w.
OpenClawRecallOut(w, i, j) ==
  \/ OpenClawRecall!Cardinality({w[m][3] : m \in {k \in (i + 1)..(j - 1) : w[k][1] = w[i][1]}}) >= WindowSize
  \/ \E a, b \in i..j :
       /\ \A m \in (a + 1)..(b - 1) : w[m][1] # w[i][1]
       /\ OpenClawRecall!Cardinality({w[m][1] : m \in (a + 1)..(b - 1)}) >= MaxTracked
OpenClawRecallTold(L, w) ==
  /\ L.n = Len(w) /\ Len(w) \in Nat
  /\ \A i \in 1..Len(w) : L.who[i] = w[i][1] /\ L.what[i] = w[i][3]
LEMMA OpenClawRecallTells ==
  ASSUME NEW w, NEW L, OpenClawRecallTold(L, w), NEW i \in 1..Len(w), NEW j \in 1..Len(w), i < j
  PROVE  Pushed(L, i, j, MaxTracked, WindowSize) <=> OpenClawRecallOut(w, i, j)
<1>1. Len(w) \in Nat /\ \A k \in 1..Len(w) : L.who[k] = w[k][1] /\ L.what[k] = w[k][3]
  BY DEF OpenClawRecallTold
<1>2. \A k \in (i + 1)..(j - 1) : k \in 1..Len(w)
  BY <1>1
<1>3. \A a, b \in i..j : \A k \in (a + 1)..(b - 1) : k \in 1..Len(w)
  BY <1>1
<1>4. Since(L, i, j) = {k \in (i + 1)..(j - 1) : w[k][1] = w[i][1]}
  BY <1>1, <1>2 DEF Since
<1>5. Labelled(L.what, Since(L, i, j))
        = {w[m][3] : m \in {k \in (i + 1)..(j - 1) : w[k][1] = w[i][1]}}
  <2>1. PICK Q : Q = {k \in (i + 1)..(j - 1) : w[k][1] = w[i][1]}
    OBVIOUS
  <2>2. \A m \in Q : L.what[m] = w[m][3]
    BY <1>1, <1>2, <2>1
  <2>3. {L.what[m] : m \in Q} = {w[m][3] : m \in Q}
    BY <2>2
  <2>. QED BY <1>4, <2>1, <2>3 DEF Labelled
<1>6. ASSUME NEW a \in i..j, NEW b \in i..j
      PROVE  /\ Labelled(L.who, (a + 1)..(b - 1)) = {w[m][1] : m \in (a + 1)..(b - 1)}
             /\ (\A m \in (a + 1)..(b - 1) : L.who[m] # L.who[i])
                  <=> \A m \in (a + 1)..(b - 1) : w[m][1] # w[i][1]
  <2>1. PICK Q : Q = (a + 1)..(b - 1)
    OBVIOUS
  <2>2. \A k \in Q : L.who[k] = w[k][1]
    BY <1>1, <1>3, <2>1
  <2>3. Labelled(L.who, Q) = {w[m][1] : m \in Q}
    BY <2>2 DEF Labelled
  <2>4. (\A m \in Q : L.who[m] # L.who[i]) <=> \A m \in Q : w[m][1] # w[i][1]
    BY <1>1, <2>2
  <2>. QED BY <2>1, <2>3, <2>4
<1>. QED BY <1>5, <1>6, OpenClawRecallFinite DEF Pushed, OpenClawRecallOut

OpenClawRecallOnce(w) ==
  \A i, j \in 1..Len(w) : i < j /\ w[i] = w[j] => OpenClawRecallOut(w, i, j)
LEMMA OpenClawRecallOnces == (OpenClawRecall!ShownOnce <=> OpenClawRecallOnce(openClawShown)) /\ (OpenClawRecall!ShownOnce' <=> OpenClawRecallOnce(openClawShown'))
BY DEF OpenClawRecall!ShownOnce, OpenClawRecallOnce, OpenClawRecallOut

LEMMA OpenClawRecallStarts ==
  ASSUME OpenClawRecall!RecallAssumption, OpenClawRecall!Init PROVE OpenClawRecallInv
<1>1. openClawShown = <<>> /\ ledgerOrder = <<>> /\ ledger = [s \in Conversations |-> <<>>]
      /\ MaxTracked \in Nat /\ WindowSize \in Nat /\ Len(openClawShown) = 0
  BY DEF OpenClawRecall!Init, OpenClawRecall!RecallAssumption
<1>2. OpenClawRecallTyped
  BY <1>1 DEF OpenClawRecall!Init, OpenClawRecallTyped
<1>3. /\ OpenClawRecallBook.n = 0 /\ OpenClawRecallBook.live = {} /\ OpenClawRecallBook.order = <<>>
      /\ \A s \in Conversations : OpenClawRecallBook.table[s] = <<>>
  BY <1>1 DEF OpenClawRecallBook
<1>4. OpenClawRecallBalanced
  BY <1>1, <1>3, LedgerStarts DEF OpenClawRecallBalanced
<1>5. OpenClawRecall!ShownOnce /\ OpenClawRecallAged
  BY <1>1 DEF OpenClawRecall!ShownOnce, OpenClawRecallAged
<1>. QED BY <1>2, <1>4, <1>5 DEF OpenClawRecallInv

\* What is injected is a beginning of what the window lacks.
LEMMA OpenClawRecallFormats ==
  ASSUME OpenClawRecall!RecallAssumption, NEW hits \in HitAnswers, NEW n \in 1..Len(hits), NEW new,
         new = OpenClawRecall!Block(hits, n)
  PROVE  /\ new \in Seq(Hits) /\ Len(new) = n
         /\ n \in Nat \ {0} /\ OpenClawRecall!Range(new) \subseteq OpenClawRecall!Range(hits)
         /\ \A i, j \in 1..n : new[i] = new[j] => i = j
<1>1. hits \in Seq(Hits) /\ \A i, j \in 1..Len(hits) : hits[i] = hits[j] => i = j
  BY DEF OpenClawRecall!RecallAssumption, OpenClawRecall!IsOrder
<1>2. new = SubSeq(hits, 1, n)
  BY DEF OpenClawRecall!Block
<1>3. new \in Seq(Hits) /\ Len(new) = n /\ n \in Nat \ {0}
      /\ \A i \in 1..n : new[i] = hits[i] /\ i \in 1..Len(hits)
  BY <1>1, <1>2
<1>4. \A i \in 1..n : new[i] \in OpenClawRecall!Range(hits)
  BY <1>1, <1>3 DEF OpenClawRecall!Range
<1>5. DOMAIN new = 1..n
  BY <1>3
<1>6. OpenClawRecall!Range(new) \subseteq OpenClawRecall!Range(hits)
  BY <1>4, <1>5 DEF OpenClawRecall!Range
<1>. QED BY <1>1, <1>3, <1>6

\* What is logged for it.
OpenClawRecallLogged(p, s, r, new) == p = [i \in 1..Len(new) |-> <<s, r, new[i]>>]
LEMMA OpenClawRecallLogs ==
  ASSUME NEW s \in Conversations, NEW r \in Nat, NEW new \in Seq(Hits),
         NEW p, OpenClawRecallLogged(p, s, r, new)
  PROVE  /\ p \in Seq(OpenClawRecallEntry) /\ Len(p) = Len(new)
         /\ \A i \in 1..Len(new) : p[i] = <<s, r, new[i]>>
<1>1. PICK n \in Nat : n = Len(new)
  OBVIOUS
<1>2. \A i \in 1..n : <<s, r, new[i]>> \in OpenClawRecallEntry
  BY <1>1, SMT DEF OpenClawRecallEntry
<1>3. p = [i \in 1..n |-> <<s, r, new[i]>>]
  BY <1>1 DEF OpenClawRecallLogged
<1>4. p \in [1..n -> OpenClawRecallEntry]
  BY <1>2, <1>3
<1>5. p \in Seq(OpenClawRecallEntry) /\ Len(p) = n
  BY <1>4
<1>6. \A i \in 1..n : p[i] = <<s, r, new[i]>>
  BY <1>3
<1>. QED BY <1>1, <1>5, <1>6

LEMMA OpenClawRecallReturns ==
  ASSUME OpenClawRecall!RecallAssumption, OpenClawRecallInv, NEW c \in Recalls, NEW fresh \in HitAnswers,
         NEW n \in 1..Len(fresh), OpenClawRecall!SearchReturns(c, fresh, n)
  PROVE  OpenClawRecallInv'
<1>1. OpenClawRecallTyped /\ OpenClawRecallAged /\ OpenClawRecallBalanced /\ OpenClawRecall!ShownOnce
      /\ MaxTracked \in Nat \ {0} /\ WindowSize \in Nat \ {0}
  BY DEF OpenClawRecallInv, OpenClawRecall!RecallAssumption
<1>2. PICK s, new : s = openClawWaiting[c] /\ new = OpenClawRecall!Block(fresh, n)
  OBVIOUS
<1>0. /\ new \in Seq(Hits) /\ Len(new) = n
      /\ n \in Nat \ {0} /\ OpenClawRecall!Range(new) \subseteq OpenClawRecall!Range(fresh)
      /\ \A i, j \in 1..n : new[i] = new[j] => i = j
  BY <1>2, OpenClawRecallFormats
<1>3. /\ s \in Conversations /\ OpenClawRecall!Range(fresh) \cap OpenClawRecall!Range(ledger[s]) = {}
      /\ openClawWaiting' = [openClawWaiting EXCEPT ![c] = None]
      /\ ledgerOrder' = OpenClawRecall!Newest(OpenClawRecall!Touch(ledgerOrder, s), MaxTracked)
      /\ ledger' = [x \in Conversations |->
                    IF x \in OpenClawRecall!Oldest(OpenClawRecall!Touch(ledgerOrder, s), MaxTracked) THEN <<>>
                    ELSE IF x = s THEN OpenClawRecall!Newest(ledger[s] \o new, WindowSize) ELSE ledger[x]]
      /\ openClawShown' = openClawShown \o [i \in 1..n |-> <<s, resets[s], new[i]>>]
      /\ resets' = resets /\ resets[s] \in Nat
  <2>1. n # 0
    BY <1>0
  <2>2. s \in Conversations /\ OpenClawRecall!Range(fresh) \cap OpenClawRecall!Range(ledger[s]) = {}
    BY <1>1, <1>2 DEF OpenClawRecall!SearchReturns, OpenClawRecall!FilterUnseen,
       OpenClawRecallTyped
  <2>3. openClawWaiting' = [openClawWaiting EXCEPT ![c] = None] /\ OpenClawRecall!Record(s, new)
        /\ openClawShown' = openClawShown \o [i \in 1..n |-> <<s, resets[s], new[i]>>] /\ resets' = resets
    BY <1>2, <2>1 DEF OpenClawRecall!SearchReturns, OpenClawRecall!Recorded
  <2>4. resets[s] \in Nat
    BY <1>1, <2>2 DEF OpenClawRecallTyped
  <2>. QED BY <2>2, <2>3, <2>4 DEF OpenClawRecall!Record
<1>4. PICK r \in Nat : r = resets[s]
  BY <1>3
<1>5. PICK p : OpenClawRecallLogged(p, s, r, new)
  BY DEF OpenClawRecallLogged
<1>6. p \in Seq(OpenClawRecallEntry) /\ Len(p) = n /\ \A i \in 1..n : p[i] = <<s, r, new[i]>>
  BY <1>0, <1>3, <1>5, OpenClawRecallLogs
<1>7. Chained(openClawShown', openClawShown, p, OpenClawRecallEntry)
  <2>1. openClawShown' = openClawShown \o p
    BY <1>0, <1>3, <1>4, <1>5 DEF OpenClawRecallLogged
  <2>. QED BY <1>1, <1>6, <2>1, Chains DEF OpenClawRecallTyped
<1>8. PICK o \in Nat : o = Len(openClawShown)
  BY <1>1 DEF OpenClawRecallTyped
<1>9. /\ openClawShown' \in Seq(OpenClawRecallEntry) /\ Len(openClawShown') = o + n
      /\ \A i \in 1..o : openClawShown'[i] = openClawShown[i] /\ i \in 1..(o + n)
      /\ \A i \in 1..n : openClawShown'[o + i] = <<s, r, new[i]>> /\ o + i \in 1..(o + n)
  <2>1. openClawShown' \in Seq(OpenClawRecallEntry) /\ Len(openClawShown') = o + n
    BY <1>6, <1>7, <1>8 DEF Chained
  <2>2. ASSUME NEW i \in 1..o PROVE openClawShown'[i] = openClawShown[i] /\ i \in 1..(o + n)
    <3>1. i \in 1..(o + n) /\ ~(i > o)
      OBVIOUS
    <3>. QED BY <1>7, <1>8, <2>1, <3>1 DEF Chained
  <2>3. ASSUME NEW i \in 1..n PROVE openClawShown'[o + i] = <<s, r, new[i]>> /\ o + i \in 1..(o + n)
    <3>1. o + i \in 1..(o + n) /\ o + i \notin 1..o /\ (o + i) - o = i
      OBVIOUS
    <3>2. openClawShown'[o + i] = p[i]
      BY <1>7, <1>8, <2>1, <3>1 DEF Chained
    <3>. QED BY <1>6, <3>1, <3>2
  <2>. QED BY <2>1, <2>2, <2>3
<1>20. ASSUME NEW i \in 1..(o + n), i \notin 1..o
       PROVE  openClawShown'[i][1] = s /\ openClawShown'[i][2] = r
  <2>1. i - o \in 1..n /\ o + (i - o) = i
    BY <1>0, <1>20
  <2>2. PICK k \in 1..n : o + k = i
    BY <2>1
  <2>3. openClawShown'[i] = <<s, r, new[k]>>
    BY <1>9, <2>2
  <2>. QED BY <2>3
<1>10. PICK L, M : L = OpenClawRecallBook /\ M = OpenClawRecallBook'
  OBVIOUS
<1>11. /\ L.n = o /\ L.live = {i \in 1..o : openClawShown[i][2] = resets[openClawShown[i][1]]}
       /\ L.order = ledgerOrder /\ L.table = ledger
       /\ \A i \in 1..o : L.who[i] = openClawShown[i][1] /\ L.what[i] = openClawShown[i][3]
  BY <1>8, <1>10 DEF OpenClawRecallBook
<1>12. /\ M.n = o + n /\ M.live = {i \in 1..(o + n) : openClawShown'[i][2] = resets[openClawShown'[i][1]]}
       /\ M.order = ledgerOrder' /\ M.table = ledger'
       /\ \A i \in 1..(o + n) : M.who[i] = openClawShown'[i][1] /\ M.what[i] = openClawShown'[i][3]
  BY <1>3, <1>9, <1>10 DEF OpenClawRecallBook
<1>13. Grown(L, M, s, new)
  <2>1. ASSUME NEW i \in 1..o PROVE M.who[i] = L.who[i] /\ M.what[i] = L.what[i]
    <3>1. openClawShown'[i] = openClawShown[i] /\ i \in 1..(o + n)
      BY <1>9
    <3>. QED BY <1>11, <1>12, <3>1
  <2>2. ASSUME NEW i \in 1..n PROVE M.who[o + i] = s /\ M.what[o + i] = new[i]
    <3>1. openClawShown'[o + i] = <<s, r, new[i]>> /\ o + i \in 1..(o + n)
      BY <1>9
    <3>. QED BY <1>12, <3>1
  <2>. QED BY <1>0, <1>11, <1>12, <2>1, <2>2 DEF Grown
<1>21. M.live = L.live \cup (L.n + 1)..M.n
  <2>1. ASSUME NEW i \in M.live PROVE i \in L.live \/ i \in (o + 1)..(o + n)
    <3>1. i \in 1..(o + n) /\ openClawShown'[i][2] = resets[openClawShown'[i][1]]
      BY <1>12
    <3>2. CASE i \in 1..o
      BY <1>9, <1>11, <3>1, <3>2
    <3>3. CASE i \notin 1..o
      BY <3>1, <3>3
    <3>. QED BY <3>2, <3>3
  <2>2. ASSUME NEW i \in L.live PROVE i \in M.live
    BY <1>9, <1>11, <1>12
  <2>3. ASSUME NEW i \in (o + 1)..(o + n) PROVE i \in M.live
    <3>1. i \in 1..(o + n) /\ i \notin 1..o
      OBVIOUS
    <3>2. openClawShown'[i][1] = s /\ openClawShown'[i][2] = r
      BY <1>20, <3>1
    <3>. QED BY <1>4, <1>12, <3>1, <3>2
  <2>. QED BY <1>11, <1>12, <2>1, <2>2, <2>3
<1>14. Gives(L, M, s, new, Conversations, MaxTracked, WindowSize)
  <2>1. new # <<>>
    BY <1>0
  <2>3. M.order = OpenClawRecall!Newest(OpenClawRecall!Touch(L.order, s), MaxTracked)
    BY <1>3, <1>11, <1>12
  <2>4. M.table = [x \in Conversations |->
                     IF x \in OpenClawRecall!Oldest(OpenClawRecall!Touch(L.order, s), MaxTracked) THEN <<>>
                     ELSE IF x = s THEN OpenClawRecall!Newest(L.table[s] \o new, WindowSize) ELSE L.table[x]]
    BY <1>3, <1>11, <1>12
  <2>5. OpenClawRecall!Range(new) \cap OpenClawRecall!Range(L.table[s]) = {}
    BY <1>0, <1>3, <1>11
  <2>. QED BY <1>0, <1>13, <1>21, <2>1, <2>3, <2>4, <2>5, OpenClawRecallLru DEF Gives
<1>15. Ledger(L, Conversations, Hits, MaxTracked, WindowSize)
  BY <1>1, <1>10 DEF OpenClawRecallBalanced
<1>16. OpenClawRecallBalanced'
  <2>1. Ledger(M, Conversations, Hits, MaxTracked, WindowSize)
    BY <1>1, <1>3, <1>0, <1>14, <1>15, LedgerGrows
  <2>. QED BY <1>10, <2>1 DEF OpenClawRecallBalanced
<1>17. OpenClawRecallTyped' /\ OpenClawRecallAged'
  <2>1. OpenClawRecallTyped'
    BY <1>1, <1>3, <1>9 DEF OpenClawRecallTyped
  <2>2. ASSUME NEW i \in 1..(o + n) PROVE openClawShown'[i][2] <= resets[openClawShown'[i][1]]
    <3>1. CASE i \in 1..o
      BY <1>1, <1>8, <1>9, <3>1 DEF OpenClawRecallAged
    <3>2. CASE i \notin 1..o
      BY <1>4, <1>20, <3>2
    <3>. QED BY <3>1, <3>2
  <2>. QED BY <1>3, <1>9, <2>1, <2>2 DEF OpenClawRecallAged
<1>18. OpenClawRecall!ShownOnce'
  <2>1. ASSUME NEW i \in 1..(o + n), NEW j \in 1..(o + n), i < j, openClawShown'[i] = openClawShown'[j]
        PROVE  OpenClawRecallOut(openClawShown', i, j)
    <3>1. M.who[i] = M.who[j] /\ M.what[i] = M.what[j]
      BY <1>12, <2>1
    <3>2. ASSUME j \in 1..o PROVE Pushed(L, i, j, MaxTracked, WindowSize)
      <4>1. i \in 1..o /\ openClawShown[i] = openClawShown[j]
        BY <1>9, <2>1, <3>2
      <4>2. OpenClawRecallOut(openClawShown, i, j)
        BY <1>1, <1>8, <2>1, <3>2, <4>1, OpenClawRecallOnces DEF OpenClawRecallOnce
      <4>3. OpenClawRecallTold(L, openClawShown)
        BY <1>8, <1>11 DEF OpenClawRecallTold
      <4>. QED BY <1>8, <2>1, <3>2, <4>1, <4>2, <4>3, OpenClawRecallTells
    <3>3. j \notin 1..o => i \in M.live
      <4>1. ASSUME j \notin 1..o PROVE openClawShown'[i][1] = s /\ openClawShown'[i][2] = r
        BY <1>20, <2>1, <4>1
      <4>. QED BY <1>4, <1>12, <4>1
    <3>4. Kept(L, M, i, j, MaxTracked, WindowSize)
      BY <1>11, <1>21, <2>1, <3>1, <3>2, <3>3 DEF Kept
    <3>5. Pushed(M, i, j, MaxTracked, WindowSize)
      <4>1. i \in 1..M.n /\ j \in 1..M.n
        BY <1>12
      <4>. QED BY <1>1, <1>3, <1>0, <1>14, <1>15, <3>4, <4>1, ShowsOnce
    <3>6. PICK w : w = openClawShown'
      OBVIOUS
    <3>7. OpenClawRecallTold(M, w) /\ Len(w) = o + n
      <4>1. Len(w) = o + n /\ M.n = o + n
            /\ \A k \in 1..(o + n) : M.who[k] = w[k][1] /\ M.what[k] = w[k][3]
        BY <1>9, <1>12, <3>6
      <4>. QED BY <1>0, <4>1 DEF OpenClawRecallTold
    <3>8. OpenClawRecallOut(w, i, j)
      BY <2>1, <3>5, <3>7, OpenClawRecallTells
    <3>. QED BY <3>6, <3>8
  <2>. QED BY <1>9, <2>1, OpenClawRecallOnces DEF OpenClawRecallOnce
<1>. QED BY <1>16, <1>17, <1>18 DEF OpenClawRecallInv

LEMMA OpenClawRecallResets ==
  ASSUME OpenClawRecall!RecallAssumption, OpenClawRecallInv, NEW s \in Conversations, OpenClawRecall!Reset(s) PROVE OpenClawRecallInv'
<1>1. OpenClawRecallTyped /\ OpenClawRecallAged /\ OpenClawRecallBalanced /\ OpenClawRecall!ShownOnce
      /\ MaxTracked \in Nat \ {0} /\ WindowSize \in Nat \ {0}
  BY DEF OpenClawRecallInv, OpenClawRecall!RecallAssumption
<1>2. /\ ledgerOrder' = OpenClawRecall!Without(ledgerOrder, s) /\ ledger' = [ledger EXCEPT ![s] = <<>>]
      /\ resets' = [resets EXCEPT ![s] = @ + 1] /\ openClawWaiting' = openClawWaiting /\ openClawShown' = openClawShown
  BY DEF OpenClawRecall!Reset, OpenClawRecall!Forget
<1>3. OpenClawRecallTyped'
  BY <1>1, <1>2 DEF OpenClawRecallTyped
<1>4. ASSUME NEW i \in 1..Len(openClawShown)
      PROVE  /\ openClawShown[i][1] \in Conversations /\ openClawShown[i][2] \in Nat /\ resets[openClawShown[i][1]] \in Nat
             /\ openClawShown[i][2] <= resets[openClawShown[i][1]]
  <2>1. openClawShown[i] \in OpenClawRecallEntry
    BY <1>1 DEF OpenClawRecallTyped
  <2>2. openClawShown[i][1] \in Conversations /\ openClawShown[i][2] \in Nat
    BY <2>1 DEF OpenClawRecallEntry
  <2>. QED BY <1>1, <2>2 DEF OpenClawRecallTyped, OpenClawRecallAged
<1>5. ASSUME NEW x \in Conversations
      PROVE  /\ resets'[x] = IF x = s THEN resets[x] + 1 ELSE resets[x]
             /\ resets[x] \in Nat
  BY <1>1, <1>2 DEF OpenClawRecallTyped
<1>6. OpenClawRecallAged'
  BY <1>2, <1>4, <1>5 DEF OpenClawRecallAged
<1>7. OpenClawRecall!ShownOnce'
  BY <1>1, <1>2, OpenClawRecallOnces
<1>8. PICK L, M : L = OpenClawRecallBook /\ M = OpenClawRecallBook'
  OBVIOUS
<1>9. /\ L.n = Len(openClawShown) /\ L.live = {i \in 1..Len(openClawShown) : openClawShown[i][2] = resets[openClawShown[i][1]]}
      /\ L.order = ledgerOrder /\ L.table = ledger
      /\ L.who = [i \in 1..Len(openClawShown) |-> openClawShown[i][1]]
      /\ L.what = [i \in 1..Len(openClawShown) |-> openClawShown[i][3]]
  BY <1>8 DEF OpenClawRecallBook
<1>10. /\ M.n = Len(openClawShown) /\ M.live = {i \in 1..Len(openClawShown) : openClawShown[i][2] = resets'[openClawShown[i][1]]}
       /\ M.order = ledgerOrder' /\ M.table = ledger'
       /\ M.who = [i \in 1..Len(openClawShown) |-> openClawShown[i][1]]
       /\ M.what = [i \in 1..Len(openClawShown) |-> openClawShown[i][3]]
  BY <1>2, <1>8 DEF OpenClawRecallBook
<1>11. M.live = {i \in L.live : L.who[i] # s}
  <2>1. ASSUME NEW i \in 1..Len(openClawShown)
        PROVE  openClawShown[i][2] = resets'[openClawShown[i][1]]
                 <=> openClawShown[i][2] = resets[openClawShown[i][1]] /\ L.who[i] # s
    <3>1. L.who[i] = openClawShown[i][1]
      BY <1>9
    <3>. QED BY <1>4, <1>5, <3>1
  <2>. QED BY <1>9, <1>10, <2>1
<1>12. Forgets(L, M, s, Conversations)
  <2>1. \A x \in Conversations : M.table[x] = IF x = s THEN <<>> ELSE L.table[x]
    BY <1>1, <1>2, <1>9, <1>10 DEF OpenClawRecallTyped
  <2>2. M.order = OpenClawRecall!Without(L.order, s)
    BY <1>2, <1>9, <1>10
  <2>. QED BY <1>9, <1>10, <1>11, <2>1, <2>2, OpenClawRecallLru DEF Forgets
<1>13. Ledger(M, Conversations, Hits, MaxTracked, WindowSize)
  <2>1. Ledger(L, Conversations, Hits, MaxTracked, WindowSize)
    BY <1>1, <1>8 DEF OpenClawRecallBalanced
  <2>. QED BY <1>1, <1>12, <2>1, LedgerForgets
<1>14. OpenClawRecallBalanced'
  BY <1>8, <1>13 DEF OpenClawRecallBalanced
<1>. QED BY <1>3, <1>6, <1>7, <1>14 DEF OpenClawRecallInv

LEMMA OpenClawRecallKeeps ==
  ASSUME OpenClawRecall!RecallAssumption, OpenClawRecallInv, [OpenClawRecall!Next]_openClawRecallVars PROVE OpenClawRecallInv'
<1>1. OpenClawRecallTyped /\ OpenClawRecallAged /\ OpenClawRecallBalanced /\ OpenClawRecall!ShownOnce
  BY DEF OpenClawRecallInv
<1>2. ASSUME UNCHANGED <<ledgerOrder, ledger, resets, openClawShown>>,
             openClawWaiting' \in [Recalls -> Conversations \cup {None}]
      PROVE  OpenClawRecallInv'
  <2>1. OpenClawRecallTyped' /\ OpenClawRecall!ShownOnce'
    BY <1>1, <1>2, OpenClawRecallOnces DEF OpenClawRecallTyped
  <2>2. OpenClawRecallBook' = OpenClawRecallBook /\ OpenClawRecallAged'
    BY <1>1, <1>2 DEF OpenClawRecallBook, OpenClawRecallAged
  <2>3. OpenClawRecallBalanced'
    BY <1>1, <2>2 DEF OpenClawRecallBalanced
  <2>. QED BY <2>1, <2>2, <2>3 DEF OpenClawRecallInv
<1>3. ASSUME NEW r \in Recalls, NEW s \in Conversations, OpenClawRecall!BeforePromptBuild(r, s) PROVE OpenClawRecallInv'
  BY <1>1, <1>2, <1>3 DEF OpenClawRecall!BeforePromptBuild, OpenClawRecallTyped
<1>4. ASSUME NEW r \in Recalls, NEW fresh \in HitAnswers, NEW n \in 0..Len(fresh),
             OpenClawRecall!SearchReturns(r, fresh, n)
      PROVE  OpenClawRecallInv'
  <2>1. CASE n = 0
    BY <1>1, <1>2, <1>4, <2>1 DEF OpenClawRecall!SearchReturns, OpenClawRecallTyped
  <2>2. CASE n # 0
    <3>1. n \in 1..Len(fresh)
      BY <2>2
    <3>. QED BY <1>4, <3>1, OpenClawRecallReturns
  <2>. QED BY <2>1, <2>2
<1>5. ASSUME NEW r \in Recalls, OpenClawRecall!SearchFails(r) PROVE OpenClawRecallInv'
  BY <1>1, <1>2, <1>5 DEF OpenClawRecall!SearchFails, OpenClawRecallTyped
<1>6. ASSUME NEW s \in Conversations, OpenClawRecall!Reset(s) PROVE OpenClawRecallInv'
  BY <1>6, OpenClawRecallResets
<1>7. CASE UNCHANGED openClawRecallVars
  BY <1>1, <1>2, <1>7 DEF openClawRecallVars, OpenClawRecallTyped
<1>. QED BY <1>3, <1>4, <1>5, <1>6, <1>7 DEF OpenClawRecall!Next

LEMMA OpenClawRecallImplies ==
  ASSUME OpenClawRecall!RecallAssumption, OpenClawRecallInv PROVE OpenClawRecall!ShownOnce /\ OpenClawRecall!HiddenOnlyIfShown
<1>1. openClawShown \in Seq(OpenClawRecallEntry) /\ Len(openClawShown) \in Nat
  BY DEF OpenClawRecallInv, OpenClawRecallTyped
<1>2. ASSUME NEW s \in Conversations, NEW h \in OpenClawRecall!Range(ledger[s])
      PROVE  <<s, resets[s], h>> \in OpenClawRecall!Range(openClawShown)
  <2>1. OpenClawRecallBook.table = ledger
        /\ OpenClawRecallBook.live = {i \in 1..Len(openClawShown) : openClawShown[i][2] = resets[openClawShown[i][1]]}
        /\ \A i \in 1..Len(openClawShown) : OpenClawRecallBook.who[i] = openClawShown[i][1] /\ OpenClawRecallBook.what[i] = openClawShown[i][3]
    BY DEF OpenClawRecallBook
  <2>2. h \in OpenClawRecall!Range(OpenClawRecallBook.table[s])
    BY <1>2, <2>1, OpenClawRecallLru
  <2>3. PICK i \in OpenClawRecallBook.live : OpenClawRecallBook.who[i] = s /\ OpenClawRecallBook.what[i] = h
    BY <2>2, OpenClawRecallLru DEF OpenClawRecallInv, OpenClawRecallBalanced, Ledger, Shown
  <2>4. i \in 1..Len(openClawShown) /\ openClawShown[i][1] = s /\ openClawShown[i][3] = h /\ openClawShown[i][2] = resets[s]
    BY <2>1, <2>3
  <2>5. openClawShown[i] \in OpenClawRecallEntry
    BY <1>1, <2>4
  <2>6. openClawShown[i] = <<s, resets[s], h>>
    BY <2>4, <2>5 DEF OpenClawRecallEntry
  <2>7. openClawShown[i] \in OpenClawRecall!Range(openClawShown)
    BY <1>1, <2>4 DEF OpenClawRecall!Range
  <2>. QED BY <2>6, <2>7
<1>. QED BY <1>2 DEF OpenClawRecallInv, OpenClawRecall!HiddenOnlyIfShown

LEMMA OpenClawRecallTypes ==
  ASSUME OpenClawRecall!RecallAssumption, OpenClawRecallInv PROVE OpenClawRecall!TypeOK
<1>1. OpenClawRecallTyped /\ OpenClawRecallBalanced
  BY DEF OpenClawRecallInv
<1>2. PICK L : L = OpenClawRecallBook
  OBVIOUS
<1>3. L.order = ledgerOrder /\ L.table = ledger
  BY <1>2 DEF OpenClawRecallBook
<1>4. /\ OpenClawRecall!IsOrder(L.order, Conversations, MaxTracked)
      /\ \A s \in Conversations : OpenClawRecall!IsOrder(L.table[s], Hits, WindowSize)
                       /\ (L.table[s] # <<>> <=> s \in OpenClawRecall!Range(L.order))
  BY <1>1, <1>2, OpenClawRecallLru DEF OpenClawRecallBalanced, Ledger, Held
<1>. QED BY <1>1, <1>3, <1>4 DEF OpenClawRecallTyped, OpenClawRecall!TypeOK

\* A behaviour of the whole that is this part's is a behaviour of this part.
LEMMA OpenClawRecallBegins ==
  ASSUME Init, part = "OpenClawRecall" PROVE OpenClawRecall!Init
BY DEF Init

LEMMA OpenClawRecallGoes ==
  ASSUME [Next]_<<part, recallGroup, persistGroup, userGroup, callGroup>>, part = "OpenClawRecall"
  PROVE  part' = "OpenClawRecall" /\ [OpenClawRecall!Next]_openClawRecallVars
<1>1. CASE Next
  BY <1>1 DEF Next, RecallNext, PersistNext, UserNext, CallNext, recallGroup
<1>2. CASE UNCHANGED <<part, recallGroup, persistGroup, userGroup, callGroup>>
  BY <1>2 DEF recallGroup
<1>. QED BY <1>1, <1>2

------------------------------------------------------------------------------
\* The ledger of the Mastra processor, and the hits that others got.

\* The orders of the part are those of the library.
LEMMA MastraRecallLru ==
  /\ \A f : MastraRecall!Range(f) = Range(f)
  /\ \A q, s, S : MastraRecall!IsRest(q, s, S) <=> IsRest(q, s, S)
  /\ \A order, S, cap : MastraRecall!IsOrder(order, S, cap) <=> IsOrder(order, S, cap)
  /\ \A order, x : MastraRecall!Touch(order, x) = Touch(order, x)
  /\ \A order, x : MastraRecall!Without(order, x) = Without(order, x)
  /\ \A order, cap : MastraRecall!Newest(order, cap) = Newest(order, cap)
  /\ \A order, cap : MastraRecall!Oldest(order, cap) = Oldest(order, cap)
<1>1. \A f : MastraRecall!Range(f) = Range(f)
  BY DEF MastraRecall!Range, Range
<1>2. /\ \A order, S, cap : MastraRecall!IsOrder(order, S, cap) <=> IsOrder(order, S, cap)
      /\ \A q, s, S : MastraRecall!IsRest(q, s, S) <=> IsRest(q, s, S)
  BY <1>1 DEF MastraRecall!IsOrder, IsOrder, MastraRecall!IsRest, IsRest
<1>3. /\ \A order, x : MastraRecall!Touch(order, x) = Touch(order, x)
      /\ \A order, x : MastraRecall!Without(order, x) = Without(order, x)
  BY DEF MastraRecall!Touch, Touch, MastraRecall!Without, Without, MastraRecall!Place, Place
<1>4. \A order, cap : MastraRecall!Newest(order, cap) = Newest(order, cap)
  BY DEF MastraRecall!Newest, Newest
<1>5. \A order, cap : MastraRecall!Oldest(order, cap) = Oldest(order, cap)
  BY <1>1, <1>4 DEF MastraRecall!Oldest, Oldest
<1>. QED BY <1>1, <1>2, <1>3, <1>4, <1>5

\* Finite sets are the same to the part.
LEMMA MastraRecallFinite ==
  /\ \A S : MastraRecall!IsFiniteSet(S) <=> IsFiniteSet(S)
  /\ \A S : MastraRecall!Cardinality(S) = Cardinality(S)
<1>1. \A S : MastraRecall!IsFiniteSet(S) <=> IsFiniteSet(S)
  BY DEF MastraRecall!IsFiniteSet, IsFiniteSet
<1>2. \A S : MastraRecall!Cardinality(S) = Cardinality(S)
  BY DEF MastraRecall!Cardinality, Cardinality
<1>. QED BY <1>1, <1>2

\* The injections and the tables as a ledger.
MastraRecallBook == [n |-> Len(mastraInjections), who |-> [i \in 1..Len(mastraInjections) |-> mastraInjections[i][1]],
         what |-> [i \in 1..Len(mastraInjections) |-> mastraInjections[i][2]], live |-> 1..Len(mastraInjections),
         order |-> injectedOrder, table |-> injected]
MastraRecallBalanced == Ledger(MastraRecallBook, Conversations, Hits, MaxThreads, MastraSeen)
MastraRecallTyped ==
  /\ recalling \in [Calls -> Conversations \cup {None}]
  /\ mastraInjections \in Seq(Conversations \X Hits)

MastraRecallInv == MastraRecallTyped /\ MastraRecallBalanced /\ MastraRecall!ShownOnce

\* What ShownOnce asks of two injections in w.
MastraRecallOut(w, i, j) ==
  \/ MastraRecall!Cardinality({w[m][2] : m \in {k \in (i + 1)..(j - 1) : w[k][1] = w[i][1]}}) >= MastraSeen
  \/ \E a, b \in i..j :
       /\ \A m \in (a + 1)..(b - 1) : w[m][1] # w[i][1]
       /\ MastraRecall!Cardinality({w[m][1] : m \in (a + 1)..(b - 1)}) >= MaxThreads
MastraRecallTold(L, w) ==
  /\ L.n = Len(w) /\ Len(w) \in Nat
  /\ \A i \in 1..Len(w) : L.who[i] = w[i][1] /\ L.what[i] = w[i][2]
LEMMA MastraRecallTells ==
  ASSUME NEW w, NEW L, MastraRecallTold(L, w), NEW i \in 1..Len(w), NEW j \in 1..Len(w), i < j
  PROVE  Pushed(L, i, j, MaxThreads, MastraSeen) <=> MastraRecallOut(w, i, j)
<1>1. Len(w) \in Nat /\ \A k \in 1..Len(w) : L.who[k] = w[k][1] /\ L.what[k] = w[k][2]
  BY DEF MastraRecallTold
<1>2. \A k \in (i + 1)..(j - 1) : k \in 1..Len(w)
  BY <1>1
<1>3. \A a, b \in i..j : \A k \in (a + 1)..(b - 1) : k \in 1..Len(w)
  BY <1>1
<1>4. Since(L, i, j) = {k \in (i + 1)..(j - 1) : w[k][1] = w[i][1]}
  BY <1>1, <1>2 DEF Since
<1>5. Labelled(L.what, Since(L, i, j))
        = {w[m][2] : m \in {k \in (i + 1)..(j - 1) : w[k][1] = w[i][1]}}
  <2>1. PICK Q : Q = {k \in (i + 1)..(j - 1) : w[k][1] = w[i][1]}
    OBVIOUS
  <2>2. \A m \in Q : L.what[m] = w[m][2]
    BY <1>1, <1>2, <2>1
  <2>3. {L.what[m] : m \in Q} = {w[m][2] : m \in Q}
    BY <2>2
  <2>. QED BY <1>4, <2>1, <2>3 DEF Labelled
<1>6. ASSUME NEW a \in i..j, NEW b \in i..j
      PROVE  /\ Labelled(L.who, (a + 1)..(b - 1)) = {w[m][1] : m \in (a + 1)..(b - 1)}
             /\ (\A m \in (a + 1)..(b - 1) : L.who[m] # L.who[i])
                  <=> \A m \in (a + 1)..(b - 1) : w[m][1] # w[i][1]
  <2>1. PICK Q : Q = (a + 1)..(b - 1)
    OBVIOUS
  <2>2. \A k \in Q : L.who[k] = w[k][1]
    BY <1>1, <1>3, <2>1
  <2>3. Labelled(L.who, Q) = {w[m][1] : m \in Q}
    BY <2>2 DEF Labelled
  <2>4. (\A m \in Q : L.who[m] # L.who[i]) <=> \A m \in Q : w[m][1] # w[i][1]
    BY <1>1, <2>2
  <2>. QED BY <2>1, <2>3, <2>4
<1>. QED BY <1>5, <1>6, MastraRecallFinite DEF Pushed, MastraRecallOut

MastraRecallOnce(w) ==
  \A i, j \in 1..Len(w) : i < j /\ w[i] = w[j] => MastraRecallOut(w, i, j)
LEMMA MastraRecallOnces == (MastraRecall!ShownOnce <=> MastraRecallOnce(mastraInjections)) /\ (MastraRecall!ShownOnce' <=> MastraRecallOnce(mastraInjections'))
BY DEF MastraRecall!ShownOnce, MastraRecallOnce, MastraRecallOut

LEMMA MastraRecallStarts ==
  ASSUME MastraRecall!RecallAssumption, MastraRecall!Init PROVE MastraRecallInv
<1>1. mastraInjections = <<>> /\ injectedOrder = <<>> /\ injected = [s \in Conversations |-> <<>>]
      /\ MaxThreads \in Nat /\ MastraSeen \in Nat /\ Len(mastraInjections) = 0
  BY DEF MastraRecall!Init, MastraRecall!RecallAssumption
<1>2. MastraRecallTyped
  BY <1>1 DEF MastraRecall!Init, MastraRecallTyped
<1>3. /\ MastraRecallBook.n = 0 /\ MastraRecallBook.live = {} /\ MastraRecallBook.order = <<>>
      /\ \A s \in Conversations : MastraRecallBook.table[s] = <<>>
  BY <1>1 DEF MastraRecallBook
<1>4. MastraRecallBalanced
  BY <1>1, <1>3, LedgerStarts DEF MastraRecallBalanced
<1>5. MastraRecall!ShownOnce
  BY <1>1 DEF MastraRecall!ShownOnce
<1>. QED BY <1>2, <1>4, <1>5 DEF MastraRecallInv

\* What is logged for it.
LEMMA MastraRecallLogs ==
  ASSUME NEW s \in Conversations, NEW n \in Nat, NEW new \in Seq(Hits), Len(new) = n,
         NEW p, p = [i \in 1..n |-> <<s, new[i]>>]
  PROVE  p \in Seq(Conversations \X Hits) /\ Len(p) = n /\ \A i \in 1..n : p[i] = <<s, new[i]>>
<1>1. \A i \in 1..n : <<s, new[i]>> \in Conversations \X Hits
  BY SMT
<1>2. p \in [1..n -> Conversations \X Hits]
  BY <1>1
<1>. QED BY <1>2

LEMMA MastraRecallReturns ==
  ASSUME MastraRecall!RecallAssumption, MastraRecallInv, NEW r \in Calls, NEW new \in HitAnswers, new # <<>>,
         MastraRecall!SearchReturns(r, new)
  PROVE  MastraRecallInv'
<1>1. MastraRecallTyped /\ MastraRecallBalanced /\ MastraRecall!ShownOnce /\ MaxThreads \in Nat \ {0} /\ MastraSeen \in Nat \ {0}
  BY DEF MastraRecallInv, MastraRecall!RecallAssumption
<1>2. PICK s : s = recalling[r]
  OBVIOUS
<1>10. new \in Seq(Hits) /\ \A i, j \in 1..Len(new) : new[i] = new[j] => i = j
  BY DEF MastraRecall!RecallAssumption, MastraRecall!IsOrder
<1>4. PICK n \in Nat \ {0} : n = Len(new)
  BY <1>10
<1>0. /\ new \in Seq(Hits) /\ Len(new) = n
      /\ \A i, j \in 1..n : new[i] = new[j] => i = j
  BY <1>10, <1>4
<1>3. /\ s \in Conversations /\ MastraRecall!Range(new) \cap MastraRecall!Range(injected[s]) = {}
      /\ recalling' = [recalling EXCEPT ![r] = None]
      /\ injectedOrder' = MastraRecall!Newest(MastraRecall!Touch(injectedOrder, s), MaxThreads)
      /\ injected' = [x \in Conversations |->
                    IF x \in MastraRecall!Oldest(MastraRecall!Touch(injectedOrder, s), MaxThreads) THEN <<>>
                    ELSE IF x = s THEN MastraRecall!Newest(injected[s] \o new, MastraSeen) ELSE injected[x]]
      /\ mastraInjections' = mastraInjections \o [i \in 1..n |-> <<s, new[i]>>]
  <2>2. s \in Conversations /\ MastraRecall!Range(new) \cap MastraRecall!Range(injected[s]) = {}
    BY <1>1, <1>2 DEF MastraRecall!SearchReturns, MastraRecall!Fresh, MastraRecallTyped
  <2>3. recalling' = [recalling EXCEPT ![r] = None] /\ MastraRecall!Remember(s, new)
        /\ mastraInjections' = mastraInjections \o [i \in 1..n |-> <<s, new[i]>>]
    BY <1>2, <1>4 DEF MastraRecall!SearchReturns
  <2>. QED BY <2>2, <2>3 DEF MastraRecall!Remember
<1>5. PICK p : p = [i \in 1..n |-> <<s, new[i]>>]
  OBVIOUS
<1>6. p \in Seq(Conversations \X Hits) /\ Len(p) = n /\ \A i \in 1..n : p[i] = <<s, new[i]>>
  BY <1>0, <1>3, <1>5, MastraRecallLogs
<1>7. Chained(mastraInjections', mastraInjections, p, Conversations \X Hits)
  BY <1>1, <1>3, <1>5, <1>6, Chains DEF MastraRecallTyped
<1>8. PICK o \in Nat : o = Len(mastraInjections)
  BY <1>1 DEF MastraRecallTyped
<1>9. /\ mastraInjections' \in Seq(Conversations \X Hits) /\ Len(mastraInjections') = o + n
      /\ \A i \in 1..o : mastraInjections'[i] = mastraInjections[i] /\ i \in 1..(o + n)
      /\ \A i \in 1..n : mastraInjections'[o + i] = <<s, new[i]>> /\ o + i \in 1..(o + n)
  <2>1. mastraInjections' \in Seq(Conversations \X Hits) /\ Len(mastraInjections') = o + n
    BY <1>6, <1>7, <1>8 DEF Chained
  <2>2. ASSUME NEW i \in 1..o PROVE mastraInjections'[i] = mastraInjections[i] /\ i \in 1..(o + n)
    <3>1. i \in 1..(o + n) /\ ~(i > o)
      OBVIOUS
    <3>. QED BY <1>7, <1>8, <2>1, <3>1 DEF Chained
  <2>3. ASSUME NEW i \in 1..n PROVE mastraInjections'[o + i] = <<s, new[i]>> /\ o + i \in 1..(o + n)
    <3>1. o + i \in 1..(o + n) /\ o + i \notin 1..o /\ (o + i) - o = i
      OBVIOUS
    <3>2. mastraInjections'[o + i] = p[i]
      BY <1>7, <1>8, <2>1, <3>1 DEF Chained
    <3>. QED BY <1>6, <3>1, <3>2
  <2>. QED BY <2>1, <2>2, <2>3
<1>19. PICK L, M : L = MastraRecallBook /\ M = MastraRecallBook'
  OBVIOUS
<1>11. /\ L.n = o /\ L.live = 1..o /\ L.order = injectedOrder /\ L.table = injected
       /\ \A i \in 1..o : L.who[i] = mastraInjections[i][1] /\ L.what[i] = mastraInjections[i][2]
  BY <1>8, <1>19 DEF MastraRecallBook
<1>12. /\ M.n = o + n /\ M.live = 1..(o + n) /\ M.order = injectedOrder' /\ M.table = injected'
       /\ \A i \in 1..(o + n) : M.who[i] = mastraInjections'[i][1] /\ M.what[i] = mastraInjections'[i][2]
  BY <1>9, <1>19 DEF MastraRecallBook
<1>13. Grown(L, M, s, new)
  <2>1. ASSUME NEW i \in 1..o PROVE M.who[i] = L.who[i] /\ M.what[i] = L.what[i]
    <3>1. mastraInjections'[i] = mastraInjections[i] /\ i \in 1..(o + n)
      BY <1>9
    <3>. QED BY <1>11, <1>12, <3>1
  <2>2. ASSUME NEW i \in 1..n PROVE M.who[o + i] = s /\ M.what[o + i] = new[i]
    <3>1. mastraInjections'[o + i] = <<s, new[i]>> /\ o + i \in 1..(o + n)
      BY <1>9
    <3>. QED BY <1>12, <3>1
  <2>. QED BY <1>0, <1>11, <1>12, <2>1, <2>2 DEF Grown
<1>14. Gives(L, M, s, new, Conversations, MaxThreads, MastraSeen)
  <2>1. new # <<>>
    BY <1>0
  <2>2. M.live = L.live \cup (L.n + 1)..M.n
    BY <1>11, <1>12
  <2>3. M.order = MastraRecall!Newest(MastraRecall!Touch(L.order, s), MaxThreads)
    BY <1>3, <1>11, <1>12
  <2>4. M.table = [x \in Conversations |->
                     IF x \in MastraRecall!Oldest(MastraRecall!Touch(L.order, s), MaxThreads) THEN <<>>
                     ELSE IF x = s THEN MastraRecall!Newest(L.table[s] \o new, MastraSeen) ELSE L.table[x]]
    BY <1>3, <1>11, <1>12
  <2>5. MastraRecall!Range(new) \cap MastraRecall!Range(L.table[s]) = {}
    BY <1>3, <1>11
  <2>. QED BY <1>0, <1>13, <2>1, <2>2, <2>3, <2>4, <2>5, MastraRecallLru DEF Gives
<1>15. Ledger(L, Conversations, Hits, MaxThreads, MastraSeen)
  BY <1>1, <1>19 DEF MastraRecallBalanced
<1>16. MastraRecallBalanced'
  <2>1. Ledger(M, Conversations, Hits, MaxThreads, MastraSeen)
    BY <1>1, <1>3, <1>0, <1>14, <1>15, LedgerGrows
  <2>. QED BY <1>19, <2>1 DEF MastraRecallBalanced
<1>17. MastraRecallTyped'
  BY <1>1, <1>3, <1>9 DEF MastraRecallTyped
<1>18. MastraRecall!ShownOnce'
  <2>1. ASSUME NEW i \in 1..(o + n), NEW j \in 1..(o + n), i < j, mastraInjections'[i] = mastraInjections'[j]
        PROVE  MastraRecallOut(mastraInjections', i, j)
    <3>1. M.who[i] = M.who[j] /\ M.what[i] = M.what[j]
      BY <1>12, <2>1
    <3>2. ASSUME j \in 1..o PROVE Pushed(L, i, j, MaxThreads, MastraSeen)
      <4>1. i \in 1..o /\ mastraInjections[i] = mastraInjections[j]
        BY <1>9, <2>1, <3>2
      <4>2. MastraRecallOut(mastraInjections, i, j)
        BY <1>1, <1>8, <2>1, <3>2, <4>1, MastraRecallOnces DEF MastraRecallOnce
      <4>3. MastraRecallTold(L, mastraInjections)
        BY <1>8, <1>11 DEF MastraRecallTold
      <4>. QED BY <1>8, <2>1, <3>2, <4>1, <4>2, <4>3, MastraRecallTells
    <3>3. i \in L.live \cup (L.n + 1)..M.n
      BY <1>11, <1>12
    <3>4. Kept(L, M, i, j, MaxThreads, MastraSeen)
      BY <1>11, <2>1, <3>1, <3>2, <3>3 DEF Kept
    <3>5. Pushed(M, i, j, MaxThreads, MastraSeen)
      <4>1. i \in 1..M.n /\ j \in 1..M.n
        BY <1>12
      <4>. QED BY <1>1, <1>3, <1>0, <1>14, <1>15, <3>4, <4>1, ShowsOnce
    <3>6. PICK w : w = mastraInjections'
      OBVIOUS
    <3>7. MastraRecallTold(M, w) /\ Len(w) = o + n
      <4>1. Len(w) = o + n /\ M.n = o + n
            /\ \A k \in 1..(o + n) : M.who[k] = w[k][1] /\ M.what[k] = w[k][2]
        BY <1>9, <1>12, <3>6
      <4>. QED BY <1>0, <4>1 DEF MastraRecallTold
    <3>8. MastraRecallOut(w, i, j)
      BY <2>1, <3>5, <3>7, MastraRecallTells
    <3>. QED BY <3>6, <3>8
  <2>. QED BY <1>9, <2>1, MastraRecallOnces DEF MastraRecallOnce
<1>. QED BY <1>16, <1>17, <1>18 DEF MastraRecallInv

LEMMA MastraRecallKeeps ==
  ASSUME MastraRecall!RecallAssumption, MastraRecallInv, [MastraRecall!Next]_mastraRecallVars PROVE MastraRecallInv'
<1>1. MastraRecallTyped /\ MastraRecallBalanced /\ MastraRecall!ShownOnce
  BY DEF MastraRecallInv
<1>2. ASSUME UNCHANGED <<injectedOrder, injected, mastraInjections>>, recalling' \in [Calls -> Conversations \cup {None}]
      PROVE  MastraRecallInv'
  <2>1. MastraRecallTyped' /\ MastraRecall!ShownOnce'
    BY <1>1, <1>2, MastraRecallOnces DEF MastraRecallTyped
  <2>2. MastraRecallBook' = MastraRecallBook
    BY <1>2 DEF MastraRecallBook
  <2>3. MastraRecallBalanced'
    BY <1>1, <2>2 DEF MastraRecallBalanced
  <2>. QED BY <2>1, <2>3 DEF MastraRecallInv
<1>3. ASSUME NEW c \in Calls, NEW s \in Conversations, MastraRecall!ProcessInput(c, s) PROVE MastraRecallInv'
  BY <1>1, <1>2, <1>3 DEF MastraRecall!ProcessInput, MastraRecallTyped
<1>4. ASSUME NEW r \in Calls, NEW fresh \in HitAnswers, MastraRecall!SearchReturns(r, fresh) PROVE MastraRecallInv'
  <2>1. CASE fresh = <<>>
    BY <1>1, <1>2, <1>4, <2>1 DEF MastraRecall!SearchReturns, MastraRecallTyped
  <2>2. CASE fresh # <<>>
    BY <1>4, <2>2, MastraRecallReturns
  <2>. QED BY <2>1, <2>2
<1>5. ASSUME NEW c \in Calls, MastraRecall!SearchFails(c) PROVE MastraRecallInv'
  BY <1>1, <1>2, <1>5 DEF MastraRecall!SearchFails, MastraRecallTyped
<1>6. CASE UNCHANGED mastraRecallVars
  BY <1>1, <1>2, <1>6 DEF mastraRecallVars, MastraRecallTyped
<1>. QED BY <1>3, <1>4, <1>5, <1>6 DEF MastraRecall!Next

LEMMA MastraRecallImplies ==
  ASSUME MastraRecall!RecallAssumption, MastraRecallInv PROVE MastraRecall!ShownOnce /\ MastraRecall!HiddenOnlyIfShown
<1>1. mastraInjections \in Seq(Conversations \X Hits) /\ Len(mastraInjections) \in Nat
  BY DEF MastraRecallInv, MastraRecallTyped
<1>2. ASSUME NEW s \in Conversations, NEW h \in MastraRecall!Range(injected[s]) PROVE <<s, h>> \in MastraRecall!Range(mastraInjections)
  <2>1. MastraRecallBook.table = injected /\ MastraRecallBook.live = 1..Len(mastraInjections)
        /\ \A i \in 1..Len(mastraInjections) : MastraRecallBook.who[i] = mastraInjections[i][1] /\ MastraRecallBook.what[i] = mastraInjections[i][2]
    BY DEF MastraRecallBook
  <2>2. h \in MastraRecall!Range(MastraRecallBook.table[s])
    BY <1>2, <2>1, MastraRecallLru
  <2>3. PICK i \in MastraRecallBook.live : MastraRecallBook.who[i] = s /\ MastraRecallBook.what[i] = h
    BY <2>2, MastraRecallLru DEF MastraRecallInv, MastraRecallBalanced, Ledger, Shown
  <2>4. i \in 1..Len(mastraInjections) /\ mastraInjections[i][1] = s /\ mastraInjections[i][2] = h
    BY <2>1, <2>3
  <2>5. mastraInjections[i] \in Conversations \X Hits
    BY <1>1, <2>4
  <2>6. mastraInjections[i] = <<s, h>>
    BY <2>4, <2>5
  <2>7. mastraInjections[i] \in MastraRecall!Range(mastraInjections)
    BY <1>1, <2>4 DEF MastraRecall!Range
  <2>. QED BY <2>6, <2>7
<1>. QED BY <1>2 DEF MastraRecallInv, MastraRecall!HiddenOnlyIfShown

LEMMA MastraRecallTypes ==
  ASSUME MastraRecall!RecallAssumption, MastraRecallInv PROVE MastraRecall!TypeOK
<1>1. MastraRecallTyped /\ MastraRecallBalanced
  BY DEF MastraRecallInv
<1>2. PICK L : L = MastraRecallBook
  OBVIOUS
<1>3. L.order = injectedOrder /\ L.table = injected
  BY <1>2 DEF MastraRecallBook
<1>4. /\ MastraRecall!IsOrder(L.order, Conversations, MaxThreads)
      /\ \A s \in Conversations : MastraRecall!IsOrder(L.table[s], Hits, MastraSeen)
                       /\ (L.table[s] # <<>> <=> s \in MastraRecall!Range(L.order))
  BY <1>1, <1>2, MastraRecallLru DEF MastraRecallBalanced, Ledger, Held
<1>. QED BY <1>1, <1>3, <1>4 DEF MastraRecallTyped, MastraRecall!TypeOK

\* A behaviour of the whole that is this part's is a behaviour of this part.
LEMMA MastraRecallBegins ==
  ASSUME Init, part = "MastraRecall" PROVE MastraRecall!Init
BY DEF Init

LEMMA MastraRecallGoes ==
  ASSUME [Next]_<<part, recallGroup, persistGroup, userGroup, callGroup>>, part = "MastraRecall"
  PROVE  part' = "MastraRecall" /\ [MastraRecall!Next]_mastraRecallVars
<1>1. CASE Next
  BY <1>1 DEF Next, RecallNext, PersistNext, UserNext, CallNext, recallGroup
<1>2. CASE UNCHANGED <<part, recallGroup, persistGroup, userGroup, callGroup>>
  BY <1>2 DEF recallGroup
<1>. QED BY <1>1, <1>2

------------------------------------------------------------------------------
\* The ids a session of the Agent Framework provider remembers.

\* The orders of the part are those of the library.
LEMMA FrameworkRecallLru ==
  /\ \A f : FrameworkRecall!Range(f) = Range(f)
  /\ \A q, s, S : FrameworkRecall!IsRest(q, s, S) <=> IsRest(q, s, S)
  /\ \A order, S, cap : FrameworkRecall!IsOrder(order, S, cap) <=> IsOrder(order, S, cap)
  /\ \A order, x : FrameworkRecall!Touch(order, x) = Touch(order, x)
  /\ \A order, x : FrameworkRecall!Without(order, x) = Without(order, x)
  /\ \A order, cap : FrameworkRecall!Newest(order, cap) = Newest(order, cap)
  /\ \A order, cap : FrameworkRecall!Oldest(order, cap) = Oldest(order, cap)
<1>1. \A f : FrameworkRecall!Range(f) = Range(f)
  BY DEF FrameworkRecall!Range, Range
<1>2. /\ \A order, S, cap : FrameworkRecall!IsOrder(order, S, cap) <=> IsOrder(order, S, cap)
      /\ \A q, s, S : FrameworkRecall!IsRest(q, s, S) <=> IsRest(q, s, S)
  BY <1>1 DEF FrameworkRecall!IsOrder, IsOrder, FrameworkRecall!IsRest, IsRest
<1>3. /\ \A order, x : FrameworkRecall!Touch(order, x) = Touch(order, x)
      /\ \A order, x : FrameworkRecall!Without(order, x) = Without(order, x)
  BY DEF FrameworkRecall!Touch, Touch, FrameworkRecall!Without, Without, FrameworkRecall!Place,
     Place
<1>4. \A order, cap : FrameworkRecall!Newest(order, cap) = Newest(order, cap)
  BY DEF FrameworkRecall!Newest, Newest
<1>5. \A order, cap : FrameworkRecall!Oldest(order, cap) = Oldest(order, cap)
  BY <1>1, <1>4 DEF FrameworkRecall!Oldest, Oldest
<1>. QED BY <1>1, <1>2, <1>3, <1>4, <1>5

\* Finite sets are the same to the part.
LEMMA FrameworkRecallFinite ==
  /\ \A S : FrameworkRecall!IsFiniteSet(S) <=> IsFiniteSet(S)
  /\ \A S : FrameworkRecall!Cardinality(S) = Cardinality(S)
<1>1. \A S : FrameworkRecall!IsFiniteSet(S) <=> IsFiniteSet(S)
  BY DEF FrameworkRecall!IsFiniteSet, IsFiniteSet
<1>2. \A S : FrameworkRecall!Cardinality(S) = Cardinality(S)
  BY DEF FrameworkRecall!Cardinality, Cardinality
<1>. QED BY <1>1, <1>2

\* The trail of session s after the injections w.
FrameworkRecallSee(w, s) == {i \in 1..Len(w) : w[i].session = s /\ w[i].hit # Blank}
FrameworkRecallTrailOf(w, s) ==
  [n |-> Len(w), lab |-> [i \in 1..Len(w) |-> w[i].hit], see |-> FrameworkRecallSee(w, s),
   alone |-> {i \in FrameworkRecallSee(w, s) : ~w[i].raced}]
FrameworkRecallTracks(T, w, s) ==
  /\ T.n = Len(w) /\ Len(w) \in Nat
  /\ \A i \in 1..Len(w) : T.lab[i] = w[i].hit
  /\ T.see = FrameworkRecallSee(w, s) /\ T.alone = {i \in FrameworkRecallSee(w, s) : ~w[i].raced}
LEMMA FrameworkRecallTracked ==
  ASSUME NEW w \in Seq(FrameworkRecall!Given), NEW s
  PROVE  FrameworkRecallTracks(FrameworkRecallTrailOf(w, s), w, s)
<1>1. Len(w) \in Nat
  OBVIOUS
<1>. QED BY <1>1 DEF FrameworkRecallTracks, FrameworkRecallTrailOf

\* A list in a bag, or read from one by an invocation that is to set it, is on the trail
\* of its session; what nothing raced was read as it is, and has none of what is to be
\* injected.
FrameworkRecallTrails ==
  /\ \A s \in Tenants : Trail(FrameworkRecallTrailOf(frameworkInjections, s), remembered[s], Hits, maxRememberedIds)
  /\ \A r \in Recalls : recall[r].at = "set" =>
       Trail(FrameworkRecallTrailOf(frameworkInjections, recall[r].session), recall[r].base, Hits, maxRememberedIds)
FrameworkRecallApart ==
  \A r \in Recalls : recall[r].at \in {"render", "set"} /\ r \notin frameworkRaced =>
    /\ FrameworkRecall!Range(recall[r].left) \cap FrameworkRecall!Range(remembered[recall[r].session]) = {}
    /\ recall[r].at = "set" => recall[r].base = remembered[recall[r].session]

FrameworkRecallSingle(q) == \A i, j \in 1..Len(q) : q[i] = q[j] => i = j \/ q[i] = Blank
FrameworkRecallEntry ==
  [session : Tenants \cup {None}, at : {"idle", "search", "render", "set"},
   left : Seq(FrameworkRecall!AnyHit), base : Seq(Hits)]
FrameworkRecallFit(e) ==
  /\ e.at # "idle" => e.session \in Tenants
  /\ e.at = "idle" => e.session = None /\ e.base = <<>>
  /\ e.at \in {"search", "render"} => e.base = <<>>
  /\ FrameworkRecallSingle(e.left)
FrameworkRecallTyped ==
  /\ maxRememberedIds \in 0..MaxIds
  /\ recall \in [Recalls -> FrameworkRecallEntry]
  /\ \A r \in Recalls : FrameworkRecallFit(recall[r])
  /\ frameworkRaced \subseteq {r \in Recalls : recall[r].at \in {"render", "set"}}
  /\ remembered \in [Tenants -> Seq(Hits)]
  /\ frameworkInjections \in Seq(FrameworkRecall!Given)

FrameworkRecallInv == FrameworkRecallTyped /\ FrameworkRecallApart /\ FrameworkRecallTrails /\ FrameworkRecall!ShownOnce

\* What ShownOnce asks of two injections in w.
FrameworkRecallOut(w, i, j, cap) ==
  FrameworkRecall!Cardinality({m \in (i + 1)..(j - 1) : /\ w[m].session = w[i].session
                                                        /\ w[m].hit # Blank}) >= cap
LEMMA FrameworkRecallTells ==
  ASSUME NEW w, NEW T, NEW s, FrameworkRecallTracks(T, w, s), NEW i \in 1..Len(w),
         NEW j \in 1..Len(w), w[i].session = s, NEW cap
  PROVE  FrameworkRecallOut(w, i, j, cap) <=> Cardinality(Later(T, i, j)) >= cap
<1>1. Len(w) \in Nat /\ T.see = FrameworkRecallSee(w, s)
  BY DEF FrameworkRecallTracks
<1>2. Later(T, i, j) = {m \in (i + 1)..(j - 1) : w[m].session = s /\ w[m].hit # Blank}
  BY <1>1 DEF Later, FrameworkRecallSee
<1>. QED BY <1>2, FrameworkRecallFinite DEF FrameworkRecallOut

FrameworkRecallOnce(w, cap) ==
  \A i, j \in 1..Len(w) :
    i < j /\ w[i].session = w[j].session /\ w[i].hit = w[j].hit /\ w[i].hit # Blank
      /\ ~w[i].raced /\ ~w[j].raced => FrameworkRecallOut(w, i, j, cap)
LEMMA FrameworkRecallOnces ==
  /\ FrameworkRecall!ShownOnce <=> FrameworkRecallOnce(frameworkInjections, maxRememberedIds)
  /\ FrameworkRecall!ShownOnce' <=> FrameworkRecallOnce(frameworkInjections', maxRememberedIds')
BY DEF FrameworkRecall!ShownOnce, FrameworkRecallOnce, FrameworkRecallOut

LEMMA FrameworkRecallStarts ==
  ASSUME FrameworkRecall!RecallAssumption, FrameworkRecall!Init PROVE FrameworkRecallInv
<1>1. frameworkInjections = <<>> /\ Len(frameworkInjections) = 0 /\ remembered = [s \in Tenants |-> <<>>]
      /\ recall = [r \in Recalls |-> FrameworkRecall!Idle] /\ frameworkRaced = {} /\ maxRememberedIds \in 0..MaxIds /\ maxRememberedIds \in Nat
  BY DEF FrameworkRecall!Init, FrameworkRecall!RecallAssumption
<1>2. FrameworkRecallTyped
  <2>1. FrameworkRecall!Idle \in FrameworkRecallEntry /\ FrameworkRecallFit(FrameworkRecall!Idle)
    BY DEF FrameworkRecall!Idle, FrameworkRecallEntry, FrameworkRecallFit, FrameworkRecallSingle
  <2>. QED BY <1>1, <2>1 DEF FrameworkRecallTyped
<1>3. FrameworkRecallApart
  BY <1>1 DEF FrameworkRecallApart, FrameworkRecall!Idle
<1>4. ASSUME NEW s \in Tenants PROVE Trail(FrameworkRecallTrailOf(frameworkInjections, s), <<>>, Hits, maxRememberedIds)
  <2>1. PICK T : T = FrameworkRecallTrailOf(frameworkInjections, s)
    OBVIOUS
  <2>2. T.n = 0 /\ T.see = {} /\ T.alone = {}
    BY <1>1, <2>1 DEF FrameworkRecallTrailOf, FrameworkRecallSee
  <2>3. Stands(T, <<>>, <<>>) /\ Holds(T, <<>>, maxRememberedIds)
    BY <2>2 DEF Stands, Holds
  <2>4. Trail(T, <<>>, Hits, maxRememberedIds)
    BY <1>1, <2>2, <2>3 DEF Trail, Positions
  <2>. QED BY <2>1, <2>4
<1>5. FrameworkRecall!ShownOnce
  BY <1>1 DEF FrameworkRecall!ShownOnce
<1>6. FrameworkRecallTrails
  <2>1. \A r \in Recalls : recall[r].at # "set"
    BY <1>1 DEF FrameworkRecall!Idle
  <2>. QED BY <1>1, <1>4, <2>1 DEF FrameworkRecallTrails
<1>. QED BY <1>2, <1>3, <1>5, <1>6 DEF FrameworkRecallInv

\* v is w when session s has been given hits.
FrameworkRecallAppended(w, v, s, hits, race) ==
  /\ Len(w) \in Nat /\ Len(v) = Len(w) + Len(hits)
  /\ \A i \in 1..Len(w) : v[i] = w[i]
  /\ \A k \in 1..Len(hits) : /\ v[Len(w) + k].session = s /\ v[Len(w) + k].hit = hits[k]
                             /\ v[Len(w) + k].raced <=> race
LEMMA FrameworkRecallAppends ==
  ASSUME NEW w \in Seq(FrameworkRecall!Given), NEW s \in Tenants, NEW hits \in Seq(FrameworkRecall!AnyHit),
         NEW race \in BOOLEAN, NEW v,
         v = w \o [i \in 1..Len(hits) |-> [session |-> s, hit |-> hits[i], raced |-> race]]
  PROVE  v \in Seq(FrameworkRecall!Given) /\ FrameworkRecallAppended(w, v, s, hits, race)
<1>1. PICK p : p = [i \in 1..Len(hits) |-> [session |-> s, hit |-> hits[i], raced |-> race]]
  OBVIOUS
<1>2. \A i \in 1..Len(hits) : hits[i] \in FrameworkRecall!AnyHit
  OBVIOUS
<1>3. p \in [1..Len(hits) -> FrameworkRecall!Given]
  BY <1>1, <1>2 DEF FrameworkRecall!Given
<1>4. p \in Seq(FrameworkRecall!Given) /\ Len(p) = Len(hits)
  BY <1>3
<1>5. Chained(v, w, p, FrameworkRecall!Given)
  BY <1>1, <1>4, Chains
<1>6. v \in Seq(FrameworkRecall!Given) /\ Len(v) = Len(w) + Len(hits) /\ Len(w) \in Nat /\ Len(hits) \in Nat
  BY <1>4, <1>5 DEF Chained
<1>7. ASSUME NEW i \in 1..Len(w) PROVE v[i] = w[i]
  <2>1. i \in 1..Len(v) /\ ~(i > Len(w))
    BY <1>6
  <2>. QED BY <1>5, <2>1 DEF Chained
<1>8. ASSUME NEW k \in 1..Len(hits)
      PROVE  /\ v[Len(w) + k].session = s /\ v[Len(w) + k].hit = hits[k]
             /\ v[Len(w) + k].raced <=> race
  <2>1. /\ Len(w) + k \in 1..Len(v) /\ Len(w) + k \notin 1..Len(w)
        /\ (Len(w) + k) - Len(w) = k
    BY <1>6
  <2>2. v[Len(w) + k] = p[k]
    BY <1>5, <2>1 DEF Chained
  <2>. QED BY <1>1, <2>2
<1>. QED BY <1>6, <1>7, <1>8 DEF FrameworkRecallAppended

\* The trail of the session that was given hits goes on with them.
LEMMA FrameworkRecallWalks ==
  ASSUME NEW w, NEW v, NEW s, NEW hits \in Seq(FrameworkRecall!AnyHit), NEW race \in BOOLEAN,
         FrameworkRecallAppended(w, v, s, hits, race), FrameworkRecallSingle(hits),
         NEW alone \in BOOLEAN, alone <=> ~race, NEW T, NEW U,
         FrameworkRecallTracks(T, w, s), FrameworkRecallTracks(U, v, s)
  PROVE  Positions(U) /\ Behaved(T, U) /\ Added(T, U, hits, Blank, alone)
<1>1. PICK o \in Nat, n \in Nat : o = Len(w) /\ n = Len(hits)
  BY DEF FrameworkRecallAppended
<1>2. /\ Len(v) = o + n /\ (\A i \in 1..o : v[i] = w[i])
      /\ \A k \in 1..n : /\ v[o + k].session = s /\ v[o + k].hit = hits[k]
                         /\ v[o + k].raced <=> race
  BY <1>1 DEF FrameworkRecallAppended
<1>3. /\ T.n = o /\ (\A i \in 1..o : T.lab[i] = w[i].hit)
      /\ T.see = {i \in 1..o : w[i].session = s /\ w[i].hit # Blank}
      /\ T.alone = {i \in T.see : ~w[i].raced}
  BY <1>1 DEF FrameworkRecallTracks, FrameworkRecallSee
<1>4. /\ U.n = o + n /\ (\A i \in 1..(o + n) : U.lab[i] = v[i].hit)
      /\ U.see = {i \in 1..(o + n) : v[i].session = s /\ v[i].hit # Blank}
      /\ U.alone = {i \in U.see : ~v[i].raced}
  BY <1>2 DEF FrameworkRecallTracks, FrameworkRecallSee
<1>5. Positions(U)
  BY <1>4 DEF Positions
<1>6. Behaved(T, U)
  <2>1. \A i \in 1..o : i \in 1..(o + n) /\ v[i] = w[i]
    BY <1>2
  <2>. QED BY <1>3, <1>4, <2>1 DEF Behaved
<1>7. ASSUME NEW k \in 1..n
      PROVE  /\ U.lab[T.n + k] = hits[k]
             /\ T.n + k \in U.see <=> hits[k] # Blank
             /\ T.n + k \in U.alone <=> hits[k] # Blank /\ alone
  <2>1. o + k \in 1..(o + n)
    OBVIOUS
  <2>. QED BY <1>2, <1>3, <1>4, <2>1
<1>. QED BY <1>1, <1>3, <1>4, <1>5, <1>6, <1>7 DEF Added, FrameworkRecallSingle

\* The trails of the others stay.
LEMMA FrameworkRecallStays ==
  ASSUME NEW w, NEW v, NEW s, NEW hits \in Seq(FrameworkRecall!AnyHit), NEW race,
         FrameworkRecallAppended(w, v, s, hits, race), NEW x, x # s, NEW T, NEW U,
         FrameworkRecallTracks(T, w, x), FrameworkRecallTracks(U, v, x)
  PROVE  Positions(U) /\ Behaved(T, U) /\ U.alone \subseteq 1..T.n
<1>1. PICK o \in Nat, n \in Nat : o = Len(w) /\ n = Len(hits)
  BY DEF FrameworkRecallAppended
<1>2. /\ Len(v) = o + n /\ (\A i \in 1..o : v[i] = w[i])
      /\ \A k \in 1..n : v[o + k].session = s
  BY <1>1 DEF FrameworkRecallAppended
<1>3. /\ T.n = o /\ (\A i \in 1..o : T.lab[i] = w[i].hit)
      /\ T.see = {i \in 1..o : w[i].session = x /\ w[i].hit # Blank}
      /\ T.alone = {i \in T.see : ~w[i].raced}
  BY <1>1 DEF FrameworkRecallTracks, FrameworkRecallSee
<1>4. /\ U.n = o + n /\ (\A i \in 1..(o + n) : U.lab[i] = v[i].hit)
      /\ U.see = {i \in 1..(o + n) : v[i].session = x /\ v[i].hit # Blank}
      /\ U.alone = {i \in U.see : ~v[i].raced}
  BY <1>2 DEF FrameworkRecallTracks, FrameworkRecallSee
<1>5. \A i \in 1..o : i \in 1..(o + n) /\ v[i] = w[i]
  BY <1>2
<1>6. ASSUME NEW i \in 1..(o + n), v[i].session = x PROVE i \in 1..o
  <2>1. ASSUME i \notin 1..o PROVE FALSE
    <3>1. i - o \in 1..n /\ o + (i - o) = i
      BY <2>1
    <3>. QED BY <1>2, <1>6, <3>1
  <2>. QED BY <2>1
<1>7. U.see = T.see
  BY <1>3, <1>4, <1>5, <1>6
<1>8. U.alone = T.alone
  BY <1>3, <1>4, <1>5, <1>7
<1>. QED BY <1>3, <1>4, <1>5, <1>7, <1>8 DEF Behaved, Positions

\* What a step of RememberSets writes and gives, in the words of the trails.
FrameworkRecallWritten(r, new, s, left, cap, race, ids) ==
  /\ s = recall[r].session /\ left = recall[r].left /\ cap = maxRememberedIds /\ recall[r].at = "set"
  /\ race <=> (r \in frameworkRaced \/ FrameworkRecall!InSession({"set"}, s) # {r})
  /\ FrameworkRecall!IsRest(new, left, FrameworkRecall!Range(recall[r].base) \cup {Blank})
  /\ ids \in {recall[r].base, remembered[s]}
  /\ remembered' = [remembered EXCEPT ![s] = FrameworkRecall!Newest(ids \o new, cap)]
  /\ frameworkInjections' = frameworkInjections \o
        [i \in 1..Len(left) |-> [session |-> s, hit |-> left[i], raced |-> race]]
  /\ frameworkRaced' = (frameworkRaced \cup FrameworkRecall!InSession({"render", "set"}, s)) \ {r}
  /\ recall' = [recall EXCEPT ![r] = FrameworkRecall!Idle] /\ maxRememberedIds' = cap
LEMMA FrameworkRecallWrites ==
  ASSUME NEW r \in Recalls, NEW new, FrameworkRecall!RememberSets(r, new)
  PROVE  \E s, left, cap, ids : \E race \in BOOLEAN :
           FrameworkRecallWritten(r, new, s, left, cap, race, ids)
<1>1. PICK s, left, cap : s = recall[r].session /\ left = recall[r].left /\ cap = maxRememberedIds
  OBVIOUS
<1>2. PICK race \in BOOLEAN : race = (r \in frameworkRaced \/ FrameworkRecall!InSession({"set"}, s) # {r})
  OBVIOUS
<1>3. /\ recall[r].at = "set"
      /\ FrameworkRecall!IsRest(new, left, FrameworkRecall!Range(recall[r].base) \cup {Blank})
      /\ \E ids \in {recall[r].base, remembered[s]} :
           remembered' = [remembered EXCEPT ![s] = FrameworkRecall!Newest(ids \o new, cap)]
      /\ frameworkInjections' = frameworkInjections \o [i \in 1..Len(left) |->
           [session |-> s, hit |-> left[i],
            raced |-> r \in frameworkRaced \/ FrameworkRecall!InSession({"set"}, s) # {r}]]
      /\ frameworkRaced' = (frameworkRaced \cup FrameworkRecall!InSession({"render", "set"}, s)) \ {r}
      /\ recall' = [recall EXCEPT ![r] = FrameworkRecall!Idle] /\ maxRememberedIds' = cap
  BY <1>1 DEF FrameworkRecall!RememberSets, FrameworkRecall!WithIds
<1>4. PICK ids \in {recall[r].base, remembered[s]} :
        remembered' = [remembered EXCEPT ![s] = FrameworkRecall!Newest(ids \o new, cap)]
  BY <1>3
<1>5. frameworkInjections' = frameworkInjections \o
        [i \in 1..Len(left) |-> [session |-> s, hit |-> left[i], raced |-> race]]
  BY <1>2, <1>3
<1>6. FrameworkRecallWritten(r, new, s, left, cap, race, ids)
  BY <1>1, <1>2, <1>3, <1>4, <1>5 DEF FrameworkRecallWritten
<1>. QED BY <1>6

LEMMA FrameworkRecallRemembers ==
  ASSUME FrameworkRecall!RecallAssumption, FrameworkRecallInv, NEW r \in Recalls, NEW new \in AnyAnswers, FrameworkRecall!RememberSets(r, new)
  PROVE  FrameworkRecallInv'
<1>1. FrameworkRecallTyped /\ FrameworkRecallApart /\ FrameworkRecallTrails /\ FrameworkRecall!ShownOnce
  BY DEF FrameworkRecallInv
<1>2. PICK s, left, cap, ids : \E race \in BOOLEAN : FrameworkRecallWritten(r, new, s, left, cap, race, ids)
  BY FrameworkRecallWrites
<1>3. PICK race \in BOOLEAN : FrameworkRecallWritten(r, new, s, left, cap, race, ids)
  BY <1>2
<1>4. /\ s \in Tenants /\ left \in Seq(FrameworkRecall!AnyHit) /\ FrameworkRecallSingle(left) /\ cap \in Nat /\ cap \in 0..MaxIds
      /\ frameworkInjections \in Seq(FrameworkRecall!Given) /\ remembered \in [Tenants -> Seq(Hits)]
      /\ s = recall[r].session /\ left = recall[r].left /\ cap = maxRememberedIds /\ recall[r].at = "set"
      /\ ids \in Seq(Hits) /\ recall[r].base \in Seq(Hits)
  BY <1>1, <1>3 DEF FrameworkRecallTyped, FrameworkRecallEntry, FrameworkRecallFit, FrameworkRecallWritten,
     FrameworkRecall!RecallAssumption
<1>5. /\ FrameworkRecall!IsRest(new, left, FrameworkRecall!Range(recall[r].base) \cup {Blank})
      /\ ids \in {recall[r].base, remembered[s]}
      /\ remembered' = [remembered EXCEPT ![s] = FrameworkRecall!Newest(ids \o new, cap)]
      /\ frameworkRaced' = (frameworkRaced \cup {o \in Recalls : recall[o].at \in {"render", "set"} /\ recall[o].session = s}) \ {r}
      /\ recall' = [recall EXCEPT ![r] = FrameworkRecall!Idle] /\ maxRememberedIds' = cap
  BY <1>3 DEF FrameworkRecallWritten, FrameworkRecall!InSession
<1>6. PICK w, v : w = frameworkInjections /\ v = frameworkInjections'
  OBVIOUS
<1>7. v \in Seq(FrameworkRecall!Given) /\ FrameworkRecallAppended(w, v, s, left, race) /\ w \in Seq(FrameworkRecall!Given)
  <2>1. v = w \o [i \in 1..Len(left) |-> [session |-> s, hit |-> left[i], raced |-> race]]
    BY <1>3, <1>6 DEF FrameworkRecallWritten
  <2>. QED BY <1>4, <1>6, <2>1, FrameworkRecallAppends
<1>8. PICK alone \in BOOLEAN : alone <=> ~race
  OBVIOUS
<1>9. alone => /\ r \notin frameworkRaced /\ ids = recall[r].base
               /\ FrameworkRecall!Range(left) \cap FrameworkRecall!Range(ids) = {}
               /\ \A o \in Recalls : recall[o].at = "set" /\ recall[o].session = s => o = r
  <2>. SUFFICES ASSUME alone PROVE /\ r \notin frameworkRaced /\ ids = recall[r].base
                                   /\ FrameworkRecall!Range(left) \cap FrameworkRecall!Range(ids) = {}
                                   /\ \A o \in Recalls : recall[o].at = "set" /\ recall[o].session = s => o = r
    OBVIOUS
  <2>1. r \notin frameworkRaced /\ FrameworkRecall!InSession({"set"}, s) = {r}
    BY <1>3, <1>8 DEF FrameworkRecallWritten
  <2>2. recall[r].base = remembered[s] /\ FrameworkRecall!Range(left) \cap FrameworkRecall!Range(remembered[s]) = {}
    BY <1>1, <1>4, <2>1 DEF FrameworkRecallApart
  <2>3. \A o \in Recalls : recall[o].at = "set" /\ recall[o].session = s => o = r
    BY <2>1 DEF FrameworkRecall!InSession
  <2>. QED BY <1>5, <2>1, <2>2, <2>3
<1>10. new \in Seq(Hits)
  <2>1. new \in Seq(FrameworkRecall!AnyHit)
    BY DEF FrameworkRecall!RecallAssumption
  <2>2. FrameworkRecall!Range(new) = FrameworkRecall!Range(left) \ (FrameworkRecall!Range(recall[r].base) \cup {Blank})
    BY <1>5 DEF FrameworkRecall!IsRest
  <2>3. \A i \in 1..Len(new) : new[i] \in FrameworkRecall!Range(new) /\ new[i] \in FrameworkRecall!AnyHit
    BY <2>1 DEF FrameworkRecall!Range
  <2>4. \A i \in 1..Len(new) : new[i] \in Hits
    BY <2>2, <2>3 DEF FrameworkRecall!AnyHit
  <2>. QED BY <2>1, <2>4
<1>11. PICK T, U : T = FrameworkRecallTrailOf(w, s) /\ U = FrameworkRecallTrailOf(v, s)
  OBVIOUS
<1>12. /\ FrameworkRecallTracks(T, w, s) /\ FrameworkRecallTracks(U, v, s) /\ Trail(T, ids, Hits, cap)
       /\ Positions(T)
  <2>1. Trail(T, remembered[s], Hits, cap) /\ Trail(T, recall[r].base, Hits, cap)
    BY <1>1, <1>4, <1>6, <1>11 DEF FrameworkRecallTrails
  <2>. QED BY <1>5, <1>7, <1>11, <2>1, FrameworkRecallTracked DEF Trail
<1>13. Positions(U) /\ Behaved(T, U) /\ Added(T, U, left, Blank, alone)
  BY <1>4, <1>7, <1>8, <1>12, FrameworkRecallWalks
<1>14. Walked(T, U, ids, left, new, Blank, alone)
  <2>1. IsRest(new, left, Range(recall[r].base) \cup {Blank})
    BY <1>5, FrameworkRecallLru
  <2>2. ASSUME alone PROVE Fresh(ids, left, new, Blank)
    <3>1. IsRest(new, left, Range(ids) \cup {Blank}) /\ Range(left) \cap Range(ids) = {}
      BY <1>9, <2>1, <2>2, FrameworkRecallLru
    <3>2. ASSUME NEW c \in 1..Len(left), left[c] # Blank
          PROVE  (\A k \in 1..Len(ids) : ids[k] # left[c]) /\ \E b \in 1..Len(new) : new[b] = left[c]
      <4>1. left[c] \in Range(left)
        BY <1>4 DEF Range
      <4>2. \A k \in 1..Len(ids) : ids[k] \in Range(ids)
        BY <1>4 DEF Range
      <4>3. left[c] \in Range(new)
        BY <3>1, <3>2, <4>1 DEF IsRest
      <4>4. \E b \in 1..Len(new) : new[b] = left[c]
        BY <1>10, <4>3 DEF Range
      <4>. QED BY <3>1, <4>1, <4>2, <4>4
    <3>. QED BY <3>2 DEF Fresh
  <2>. QED BY <1>13, <2>1, <2>2 DEF Walked
<1>15. Trail(U, FrameworkRecall!Newest(ids \o new, cap), Hits, cap)
  BY <1>4, <1>10, <1>12, <1>14, FrameworkRecallLru, TrailGrows
<1>16. ASSUME NEW o \in Recalls, o # r, recall[o].at = "set"
       PROVE  Trail(FrameworkRecallTrailOf(v, recall[o].session), recall[o].base, Hits, cap)
  <2>1. PICK x, A, B : /\ x = recall[o].session /\ A = FrameworkRecallTrailOf(w, x)
                       /\ B = FrameworkRecallTrailOf(v, x)
    OBVIOUS
  <2>2. Trail(A, recall[o].base, Hits, cap) /\ FrameworkRecallTracks(A, w, x) /\ FrameworkRecallTracks(B, v, x)
    BY <1>1, <1>4, <1>6, <1>7, <1>16, <2>1, FrameworkRecallTracked DEF FrameworkRecallTrails
  <2>3. Positions(B) /\ Behaved(A, B) /\ B.alone \subseteq 1..A.n
    <3>1. CASE x = s
      <4>1. ~alone
        BY <1>9, <1>16, <2>1, <3>1
      <4>2. A = T /\ B = U
        BY <1>11, <2>1, <3>1
      <4>3. \A i \in U.alone : i \in 1..T.n
        <5>. SUFFICES ASSUME NEW i \in U.alone, ~(i \in 1..T.n) PROVE FALSE
          OBVIOUS
        <5>1. i \in 1..U.n
          BY <1>13 DEF Positions
        <5>2. PICK k \in 1..Len(left) : i = T.n + k
          BY <1>4, <1>12, <1>13, <5>1, TrailSplit
        <5>. QED BY <1>13, <4>1, <5>2 DEF Added
      <4>. QED BY <1>13, <4>2, <4>3
    <3>2. CASE x # s
      BY <1>4, <1>7, <2>2, <3>2, FrameworkRecallStays
    <3>. QED BY <3>1, <3>2
  <2>4. Trail(B, recall[o].base, Hits, cap)
    BY <1>4, <2>2, <2>3, TrailStays
  <2>. QED BY <2>1, <2>4
<1>17. ASSUME NEW x \in Tenants, x # s PROVE Trail(FrameworkRecallTrailOf(v, x), remembered[x], Hits, cap)
  <2>1. PICK A, B : A = FrameworkRecallTrailOf(w, x) /\ B = FrameworkRecallTrailOf(v, x)
    OBVIOUS
  <2>2. Trail(A, remembered[x], Hits, cap) /\ FrameworkRecallTracks(A, w, x) /\ FrameworkRecallTracks(B, v, x)
    BY <1>1, <1>4, <1>6, <1>7, <2>1, FrameworkRecallTracked DEF FrameworkRecallTrails
  <2>3. Positions(B) /\ Behaved(A, B) /\ B.alone \subseteq 1..A.n
    BY <1>4, <1>7, <1>17, <2>2, FrameworkRecallStays
  <2>4. Trail(B, remembered[x], Hits, cap)
    BY <1>4, <2>2, <2>3, TrailStays
  <2>. QED BY <2>1, <2>4
<1>18. \A o \in Recalls : recall'[o] = IF o = r THEN FrameworkRecall!Idle ELSE recall[o]
  BY <1>1, <1>5 DEF FrameworkRecallTyped
<1>19. \A x \in Tenants : remembered'[x] = IF x = s THEN FrameworkRecall!Newest(ids \o new, cap) ELSE remembered[x]
  BY <1>4, <1>5
<1>20. FrameworkRecallTrails'
  <2>1. \A x \in Tenants : Trail(FrameworkRecallTrailOf(v, x), remembered'[x], Hits, cap)
    BY <1>11, <1>15, <1>17, <1>19
  <2>2. \A o \in Recalls : recall'[o].at = "set" => o # r /\ recall'[o] = recall[o]
    BY <1>18 DEF FrameworkRecall!Idle
  <2>3. \A o \in Recalls : recall'[o].at = "set" =>
          Trail(FrameworkRecallTrailOf(v, recall'[o].session), recall'[o].base, Hits, cap)
    BY <1>16, <2>2
  <2>. QED BY <1>5, <1>6, <2>1, <2>3 DEF FrameworkRecallTrails
<1>21. ASSUME NEW i \in 1..Len(v), NEW j \in 1..Len(v), i < j, v[i].session = v[j].session,
              v[i].hit = v[j].hit, v[i].hit # Blank, ~v[i].raced, ~v[j].raced
       PROVE  FrameworkRecallOut(v, i, j, cap)
  <2>1. PICK o \in Nat : o = Len(w)
    BY <1>7 DEF FrameworkRecallAppended
  <2>2. (\A k \in 1..o : v[k] = w[k]) /\ Len(v) = o + Len(left) /\ Len(left) \in Nat
        /\ \A k \in 1..Len(left) : v[o + k].session = s
    BY <1>4, <1>7, <2>1 DEF FrameworkRecallAppended
  <2>3. CASE j \in 1..o
    <3>1. i \in 1..o /\ v[i] = w[i] /\ v[j] = w[j]
      BY <1>21, <2>2, <2>3
    <3>2. FrameworkRecallOut(w, i, j, cap)
      BY <1>1, <1>4, <1>6, <1>21, <2>1, <2>3, <3>1, FrameworkRecallOnces DEF FrameworkRecallOnce
    <3>3. \A m \in (i + 1)..(j - 1) : v[m] = w[m]
      BY <2>2, <2>3
    <3>4. FrameworkRecallOut(v, i, j, cap)
      BY <3>1, <3>2, <3>3 DEF FrameworkRecallOut
    <3>. QED BY <3>4
  <2>4. CASE j \notin 1..o
    <3>1. j - o \in 1..Len(left) /\ o + (j - o) = j
      BY <2>2, <2>4
    <3>2. v[j].session = s /\ v[i].session = s
      BY <1>21, <2>2, <3>1
    <3>3. i \in U.alone /\ j \in U.alone /\ U.lab[i] = U.lab[j]
      BY <1>12, <1>21, <3>2 DEF FrameworkRecallTracks, FrameworkRecallSee
    <3>4. j > T.n
      BY <1>12, <2>1, <2>4 DEF FrameworkRecallTracks
    <3>5. Cardinality(Later(U, i, j)) >= cap
      BY <1>4, <1>10, <1>12, <1>14, <1>21, <3>3, <3>4, TrailShows
    <3>. QED BY <1>12, <3>2, <3>5, FrameworkRecallTells
  <2>. QED BY <2>3, <2>4
<1>22. FrameworkRecall!ShownOnce'
  BY <1>5, <1>6, <1>21, FrameworkRecallOnces DEF FrameworkRecallOnce
<1>23. FrameworkRecallTyped'
  <2>1. FrameworkRecall!Newest(ids \o new, cap) \in Seq(Hits)
    BY <1>15 DEF Trail
  <2>2. remembered' \in [Tenants -> Seq(Hits)]
    BY <1>4, <1>5, <2>1
  <2>3. FrameworkRecall!Idle \in FrameworkRecallEntry /\ FrameworkRecallFit(FrameworkRecall!Idle)
    BY DEF FrameworkRecall!Idle, FrameworkRecallEntry, FrameworkRecallFit, FrameworkRecallSingle
  <2>4. recall' \in [Recalls -> FrameworkRecallEntry] /\ \A o \in Recalls : FrameworkRecallFit(recall'[o])
    BY <1>1, <1>5, <1>18, <2>3 DEF FrameworkRecallTyped
  <2>5. frameworkRaced' \subseteq {o \in Recalls : recall'[o].at \in {"render", "set"}}
    BY <1>1, <1>5, <1>18 DEF FrameworkRecallTyped
  <2>. QED BY <1>4, <1>5, <1>6, <1>7, <2>2, <2>4, <2>5 DEF FrameworkRecallTyped
<1>24. FrameworkRecallApart'
  <2>. SUFFICES ASSUME NEW o \in Recalls, recall'[o].at \in {"render", "set"}, o \notin frameworkRaced'
                PROVE  /\ FrameworkRecall!Range(recall'[o].left) \cap FrameworkRecall!Range(remembered'[recall'[o].session]) = {}
                       /\ recall'[o].at = "set" => recall'[o].base = remembered'[recall'[o].session]
    BY DEF FrameworkRecallApart
  <2>1. o # r /\ recall'[o] = recall[o]
    BY <1>18 DEF FrameworkRecall!Idle
  <2>2. o \notin frameworkRaced /\ recall[o].session # s /\ recall[o].session \in Tenants
    BY <1>1, <1>5, <2>1 DEF FrameworkRecallTyped, FrameworkRecallFit
  <2>3. remembered'[recall[o].session] = remembered[recall[o].session]
    BY <1>19, <2>2
  <2>. QED BY <1>1, <2>1, <2>2, <2>3 DEF FrameworkRecallApart
<1>. QED BY <1>20, <1>22, <1>23, <1>24 DEF FrameworkRecallInv

LEMMA FrameworkRecallKeeps ==
  ASSUME FrameworkRecall!RecallAssumption, FrameworkRecallInv, [FrameworkRecall!Next]_frameworkRecallVars PROVE FrameworkRecallInv'
<1>1. FrameworkRecallTyped /\ FrameworkRecallApart /\ FrameworkRecallTrails /\ FrameworkRecall!ShownOnce
  BY DEF FrameworkRecallInv
<1>2. ASSUME NEW r \in Recalls, NEW e \in FrameworkRecallEntry, FrameworkRecallFit(e),
             UNCHANGED <<maxRememberedIds, frameworkRaced, remembered, frameworkInjections>>,
             recall' = [recall EXCEPT ![r] = e],
             r \in frameworkRaced => e.at \in {"render", "set"},
             e.at \in {"render", "set"} /\ r \notin frameworkRaced =>
               FrameworkRecall!Range(e.left) \cap FrameworkRecall!Range(remembered[e.session]) = {},
             e.at = "set" => e.base = remembered[e.session]
      PROVE  FrameworkRecallInv'
  <2>1. \A o \in Recalls : recall'[o] = IF o = r THEN e ELSE recall[o]
    BY <1>1, <1>2 DEF FrameworkRecallTyped
  <2>2. FrameworkRecallTyped'
    <3>1. recall' \in [Recalls -> FrameworkRecallEntry] /\ \A o \in Recalls : FrameworkRecallFit(recall'[o])
      BY <1>1, <1>2, <2>1 DEF FrameworkRecallTyped
    <3>2. frameworkRaced \subseteq {o \in Recalls : recall'[o].at \in {"render", "set"}}
      BY <1>1, <1>2, <2>1 DEF FrameworkRecallTyped
    <3>. QED BY <1>1, <1>2, <3>1, <3>2 DEF FrameworkRecallTyped
  <2>3. FrameworkRecallApart'
    BY <1>1, <1>2, <2>1 DEF FrameworkRecallApart
  <2>4. FrameworkRecallTrails'
    <3>1. e.at = "set" => e.session \in Tenants
      BY <1>2 DEF FrameworkRecallFit
    <3>. QED BY <1>1, <1>2, <2>1, <3>1 DEF FrameworkRecallTrails
  <2>5. FrameworkRecall!ShownOnce'
    BY <1>1, <1>2, FrameworkRecallOnces
  <2>. QED BY <2>2, <2>3, <2>4, <2>5 DEF FrameworkRecallInv
<1>3. FrameworkRecall!Idle \in FrameworkRecallEntry /\ FrameworkRecallFit(FrameworkRecall!Idle)
      /\ FrameworkRecall!Idle.at = "idle"
  BY DEF FrameworkRecall!Idle, FrameworkRecallEntry, FrameworkRecallFit, FrameworkRecallSingle
<1>4. ASSUME NEW r \in Recalls, NEW s \in Tenants, FrameworkRecall!ProvideAIContext(r, s) PROVE FrameworkRecallInv'
  <2>1. PICK e : e = [FrameworkRecall!Idle EXCEPT !.session = s, !.at = "search"]
    OBVIOUS
  <2>2. e = [session |-> s, at |-> "search", left |-> <<>>, base |-> <<>>]
    BY <2>1 DEF FrameworkRecall!Idle
  <2>3. e \in FrameworkRecallEntry /\ FrameworkRecallFit(e) /\ e.at = "search"
    BY <2>2 DEF FrameworkRecallEntry, FrameworkRecallFit, FrameworkRecallSingle
  <2>4. r \notin frameworkRaced
    BY <1>1, <1>4 DEF FrameworkRecall!ProvideAIContext, FrameworkRecallTyped
  <2>. QED BY <1>2, <1>4, <2>1, <2>3, <2>4 DEF FrameworkRecall!ProvideAIContext
<1>5. ASSUME NEW r \in Recalls, NEW left \in AnyAnswers, FrameworkRecall!DropAlreadyInjected(r, left) PROVE FrameworkRecallInv'
  <2>1. left \in Seq(FrameworkRecall!AnyHit) /\ FrameworkRecallSingle(left)
    BY DEF FrameworkRecall!RecallAssumption, FrameworkRecallSingle
  <2>2. recall[r].at = "search" /\ recall[r].session \in Tenants /\ r \notin frameworkRaced
        /\ FrameworkRecall!Range(left) \cap FrameworkRecall!Range(remembered[recall[r].session]) = {}
        /\ UNCHANGED <<maxRememberedIds, frameworkRaced, remembered, frameworkInjections>>
    BY <1>1, <1>5 DEF FrameworkRecall!DropAlreadyInjected, FrameworkRecallTyped, FrameworkRecallFit
  <2>3. CASE left = <<>>
    <3>1. recall' = [recall EXCEPT ![r] = FrameworkRecall!Idle]
      BY <1>5, <2>3 DEF FrameworkRecall!DropAlreadyInjected
    <3>. QED BY <1>2, <1>3, <2>2, <3>1
  <2>4. CASE left # <<>>
    <3>1. PICK e : e = [recall[r] EXCEPT !.at = "render", !.left = left]
      OBVIOUS
    <3>2. recall' = [recall EXCEPT ![r] = e]
      BY <1>5, <2>4, <3>1 DEF FrameworkRecall!DropAlreadyInjected
    <3>3. /\ e \in FrameworkRecallEntry /\ e.at = "render" /\ e.session = recall[r].session
          /\ e.left = left /\ e.base = recall[r].base
      BY <1>1, <2>1, <3>1 DEF FrameworkRecallTyped, FrameworkRecallEntry
    <3>4. FrameworkRecallFit(e)
      BY <1>1, <2>1, <2>2, <3>3 DEF FrameworkRecallTyped, FrameworkRecallFit
    <3>. QED BY <1>2, <2>2, <3>2, <3>3, <3>4
  <2>. QED BY <2>3, <2>4
<1>6. ASSUME NEW r \in Recalls, FrameworkRecall!SearchFails(r) PROVE FrameworkRecallInv'
  <2>1. r \notin frameworkRaced
    BY <1>1, <1>6 DEF FrameworkRecall!SearchFails, FrameworkRecallTyped
  <2>. QED BY <1>2, <1>3, <1>6, <2>1 DEF FrameworkRecall!SearchFails
<1>7. ASSUME NEW r \in Recalls, FrameworkRecall!RememberReads(r) PROVE FrameworkRecallInv'
  <2>1. recall[r].at = "render" /\ recall[r].session \in Tenants /\ recall[r] \in FrameworkRecallEntry
        /\ FrameworkRecallFit(recall[r]) /\ remembered[recall[r].session] \in Seq(Hits)
    BY <1>1, <1>7 DEF FrameworkRecall!RememberReads, FrameworkRecallTyped, FrameworkRecallFit
  <2>2. PICK e : e = [recall[r] EXCEPT !.at = "set", !.base = remembered[recall[r].session]]
    OBVIOUS
  <2>3. recall' = [recall EXCEPT ![r] = e]
    BY <1>7, <2>2 DEF FrameworkRecall!RememberReads
  <2>4. /\ e.session = recall[r].session /\ e.at = "set" /\ e.left = recall[r].left
        /\ e.base = remembered[recall[r].session]
        /\ e \in FrameworkRecallEntry /\ FrameworkRecallFit(e)
    BY <2>1, <2>2 DEF FrameworkRecallEntry, FrameworkRecallFit
  <2>5. r \notin frameworkRaced => FrameworkRecall!Range(e.left) \cap FrameworkRecall!Range(remembered[e.session]) = {}
    BY <1>1, <2>1, <2>4 DEF FrameworkRecallApart
  <2>. QED BY <1>2, <1>7, <2>3, <2>4, <2>5 DEF FrameworkRecall!RememberReads
<1>8. ASSUME NEW r \in Recalls, NEW new \in AnyAnswers, FrameworkRecall!RememberSets(r, new) PROVE FrameworkRecallInv'
  BY <1>8, FrameworkRecallRemembers
<1>9. CASE UNCHANGED frameworkRecallVars
  <2>1. FrameworkRecallTyped' /\ FrameworkRecallApart' /\ FrameworkRecallTrails'
    BY <1>1, <1>9 DEF frameworkRecallVars, FrameworkRecallTyped, FrameworkRecallApart, FrameworkRecallTrails
  <2>2. FrameworkRecall!ShownOnce'
    BY <1>1, <1>9, FrameworkRecallOnces DEF frameworkRecallVars
  <2>. QED BY <2>1, <2>2 DEF FrameworkRecallInv
<1>. QED BY <1>4, <1>5, <1>6, <1>7, <1>8, <1>9 DEF FrameworkRecall!Next

LEMMA FrameworkRecallImplies ==
  ASSUME FrameworkRecall!RecallAssumption, FrameworkRecallInv PROVE FrameworkRecall!ShownOnce /\ FrameworkRecall!HiddenOnlyIfShown
<1>1. ASSUME NEW s \in Tenants, NEW h \in FrameworkRecall!Range(remembered[s])
      PROVE  \E i \in 1..Len(frameworkInjections) : frameworkInjections[i].session = s /\ frameworkInjections[i].hit = h
  <2>1. PICK T, ids : T = FrameworkRecallTrailOf(frameworkInjections, s) /\ ids = remembered[s]
    OBVIOUS
  <2>2. FrameworkRecallTracks(T, frameworkInjections, s) /\ Trail(T, ids, Hits, maxRememberedIds)
    BY <2>1, FrameworkRecallTracked DEF FrameworkRecallInv, FrameworkRecallTrails, FrameworkRecallTyped
  <2>3. PICK at : Stands(T, ids, at)
    BY <2>2 DEF Trail
  <2>4. PICK k \in 1..Len(ids) : ids[k] = h
    BY <1>1, <2>1, <2>2 DEF FrameworkRecall!Range, Trail
  <2>5. at[k] \in T.see /\ T.lab[at[k]] = h
    BY <2>3, <2>4 DEF Stands
  <2>. QED BY <2>2, <2>5 DEF FrameworkRecallTracks, FrameworkRecallSee
<1>. QED BY <1>1 DEF FrameworkRecallInv, FrameworkRecall!HiddenOnlyIfShown

LEMMA FrameworkRecallTypes ==
  ASSUME FrameworkRecall!RecallAssumption, FrameworkRecallInv PROVE FrameworkRecall!TypeOK
<1>1. ASSUME NEW s \in Tenants PROVE remembered[s] \in Seq(Hits) /\ Len(remembered[s]) <= maxRememberedIds
  BY DEF FrameworkRecallInv, FrameworkRecallTrails, Trail
<1>2. ASSUME NEW r \in Recalls
      PROVE  /\ recall[r].at \in {"idle", "search", "render", "set"}
             /\ FrameworkRecall!Range(recall[r].left) \subseteq FrameworkRecall!AnyHit
             /\ recall[r].base \in Seq(Hits) /\ Len(recall[r].base) <= maxRememberedIds
             /\ recall[r].session = None <=> recall[r].at = "idle"
  <2>1. recall[r] \in FrameworkRecallEntry /\ FrameworkRecallFit(recall[r]) /\ maxRememberedIds \in Nat
    BY DEF FrameworkRecallInv, FrameworkRecallTyped, FrameworkRecall!RecallAssumption
  <2>2. FrameworkRecall!Range(recall[r].left) \subseteq FrameworkRecall!AnyHit
    BY <2>1 DEF FrameworkRecall!Range, FrameworkRecallEntry
  <2>3. Len(recall[r].base) <= maxRememberedIds
    <3>1. CASE recall[r].at = "set"
      BY <3>1 DEF FrameworkRecallInv, FrameworkRecallTrails, Trail
    <3>2. CASE recall[r].at # "set"
      <4>1. recall[r].base = <<>> /\ Len(<<>>) = 0
        BY <2>1, <3>2 DEF FrameworkRecallEntry, FrameworkRecallFit
      <4>. QED BY <2>1, <4>1
    <3>. QED BY <3>1, <3>2
  <2>. QED BY <2>1, <2>2, <2>3 DEF FrameworkRecall!RecallAssumption, FrameworkRecallEntry, FrameworkRecallFit
<1>. QED BY <1>1, <1>2 DEF FrameworkRecallInv, FrameworkRecallTyped, FrameworkRecall!TypeOK

\* A behaviour of the whole that is this part's is a behaviour of this part.
LEMMA FrameworkRecallBegins ==
  ASSUME Init, part = "FrameworkRecall" PROVE FrameworkRecall!Init
BY DEF Init

LEMMA FrameworkRecallGoes ==
  ASSUME [Next]_<<part, recallGroup, persistGroup, userGroup, callGroup>>, part = "FrameworkRecall"
  PROVE  part' = "FrameworkRecall" /\ [FrameworkRecall!Next]_frameworkRecallVars
<1>1. CASE Next
  BY <1>1 DEF Next, RecallNext, PersistNext, UserNext, CallNext, recallGroup
<1>2. CASE UNCHANGED <<part, recallGroup, persistGroup, userGroup, callGroup>>
  BY <1>2 DEF recallGroup
<1>. QED BY <1>1, <1>2

------------------------------------------------------------------------------
\* The ring of the CrewAI storage.

\* The orders of the part are those of the library.
LEMMA CrewRecallLru ==
  /\ \A f : CrewRecall!Range(f) = Range(f)
  /\ \A q, s, S : CrewRecall!IsRest(q, s, S) <=> IsRest(q, s, S)
  /\ \A order, S, cap : CrewRecall!IsOrder(order, S, cap) <=> IsOrder(order, S, cap)
  /\ \A order, x : CrewRecall!Touch(order, x) = Touch(order, x)
  /\ \A order, x : CrewRecall!Without(order, x) = Without(order, x)
  /\ \A order, cap : CrewRecall!Newest(order, cap) = Newest(order, cap)
  /\ \A order, cap : CrewRecall!Oldest(order, cap) = Oldest(order, cap)
<1>1. \A f : CrewRecall!Range(f) = Range(f)
  BY DEF CrewRecall!Range, Range
<1>2. /\ \A order, S, cap : CrewRecall!IsOrder(order, S, cap) <=> IsOrder(order, S, cap)
      /\ \A q, s, S : CrewRecall!IsRest(q, s, S) <=> IsRest(q, s, S)
  BY <1>1 DEF CrewRecall!IsOrder, IsOrder, CrewRecall!IsRest, IsRest
<1>3. /\ \A order, x : CrewRecall!Touch(order, x) = Touch(order, x)
      /\ \A order, x : CrewRecall!Without(order, x) = Without(order, x)
  BY DEF CrewRecall!Touch, Touch, CrewRecall!Without, Without, CrewRecall!Place, Place
<1>4. \A order, cap : CrewRecall!Newest(order, cap) = Newest(order, cap)
  BY DEF CrewRecall!Newest, Newest
<1>5. \A order, cap : CrewRecall!Oldest(order, cap) = Oldest(order, cap)
  BY <1>1, <1>4 DEF CrewRecall!Oldest, Oldest
<1>. QED BY <1>1, <1>2, <1>3, <1>4, <1>5

CrewRecallRecalled == [at : {"idle", "search", "matched"}, matches : {<<>>} \cup HitAnswers]

CrewRecallTyped ==
  /\ dedupeWindow \in 0..MaxWindow /\ thread \in [Calls -> CrewRecallRecalled]
  /\ recentIds \in Seq(Hits) /\ Len(recentIds) <= dedupeWindow
  /\ crewRaced \subseteq {t \in Calls : thread[t].at = "matched"}
  /\ returned \in Seq(CrewRecall!Match)

\* The ring holds the last of what was returned.
CrewRecallLatest(ring, log, w) ==
  /\ Len(ring) <= Len(log) /\ (Len(ring) = w \/ Len(ring) = Len(log))
  /\ \A k \in 1..Len(ring) : ring[k] = log[Len(log) - Len(ring) + k].hit
CrewRecallLast == CrewRecallLatest(recentIds, returned, dedupeWindow)

\* What a thread matched beside no other is not in the ring.
CrewRecallApart ==
  \A t \in Calls : thread[t].at = "matched" /\ t \notin crewRaced =>
    dedupeWindow = 0 \/ CrewRecall!Range(thread[t].matches) \cap CrewRecall!Range(recentIds) = {}

CrewRecallInv == CrewRecallTyped /\ CrewRecallLast /\ CrewRecallApart /\ CrewRecall!ShownOnce

LEMMA CrewRecallStarts ==
  ASSUME CrewRecall!RecallAssumption, CrewRecall!Init PROVE CrewRecallInv
<1>1. CrewRecallTyped
  BY DEF CrewRecall!Init, CrewRecallTyped, CrewRecall!Idle, CrewRecallRecalled,
     CrewRecall!RecallAssumption
<1>2. CrewRecallLast /\ CrewRecallApart /\ CrewRecall!ShownOnce
  BY DEF CrewRecall!Init, CrewRecallLast, CrewRecallLatest, CrewRecallApart,
     CrewRecall!ShownOnce, CrewRecall!Idle
<1>. QED BY <1>1, <1>2 DEF CrewRecallInv

\* The ring holds the end of what was in it and what came.
CrewRecallRung(r, q, s, cap, T) ==
  /\ r \in Seq(T) /\ Len(r) <= cap /\ Len(r) <= Len(q) + Len(s)
  /\ Len(r) = cap \/ Len(r) = Len(q) + Len(s)
  /\ \A k \in 1..Len(r) : \A x \in 1..(Len(q) + Len(s)) :
       x = Len(q) + Len(s) - Len(r) + k =>
         \/ x \in 1..Len(q) /\ r[k] = q[x]
         \/ x > Len(q) /\ x - Len(q) \in 1..Len(s) /\ r[k] = s[x - Len(q)]
LEMMA CrewRecallRings ==
  ASSUME NEW T, NEW q \in Seq(T), NEW s \in Seq(T), NEW cap \in Nat, NEW r,
         r = CrewRecall!Newest(q \o s, cap)
  PROVE  CrewRecallRung(r, q, s, cap, T)
<1>1. PICK w : w = q \o s
  OBVIOUS
<1>2. Chained(w, q, s, T)
  BY <1>1, Chains
<1>3. w \in Seq(T) /\ Len(w) = Len(q) + Len(s)
  BY <1>2 DEF Chained
<1>4. Suffix(r, w, cap, T)
  BY <1>1, <1>3, Suffixes, CrewRecallLru
<1>5. PICK a \in Nat, b \in Nat, c \in Nat : a = Len(q) /\ b = Len(s) /\ c = Len(r)
  BY <1>4 DEF Suffix
<1>6. r \in Seq(T) /\ c <= cap /\ c <= a + b /\ (c = cap \/ c = a + b)
  BY <1>3, <1>4, <1>5 DEF Suffix
<1>7. ASSUME NEW k \in 1..c, NEW x \in 1..(a + b), x = a + b - c + k
      PROVE  \/ x \in 1..a /\ r[k] = q[x]
             \/ x > a /\ x - a \in 1..b /\ r[k] = s[x - a]
  <2>1. r[k] = w[x]
    BY <1>3, <1>4, <1>5, <1>7 DEF Suffix
  <2>. QED BY <1>2, <1>3, <1>5, <2>1 DEF Chained
<1>. QED BY <1>5, <1>6, <1>7 DEF CrewRecallRung

\* What a recall returns is behind the others.
CrewRecallLonger(q, p, s, f) ==
  /\ q \in Seq(CrewRecall!Match) /\ Len(q) = Len(p) + Len(s)
  /\ \A i \in 1..Len(q) : \/ i \in 1..Len(p) /\ q[i] = p[i]
                          \/ /\ i - Len(p) \in 1..Len(s) /\ i > Len(p)
                             /\ q[i].hit = s[i - Len(p)] /\ q[i].raced = f
LEMMA CrewRecallLengthens ==
  ASSUME NEW p \in Seq(CrewRecall!Match), NEW s \in Seq(Hits), NEW f \in BOOLEAN,
         NEW q, q = p \o [i \in 1..Len(s) |-> [hit |-> s[i], raced |-> f]]
  PROVE  CrewRecallLonger(q, p, s, f)
<1> DEFINE m == [i \in 1..Len(s) |-> [hit |-> s[i], raced |-> f]]
<1>1. /\ m \in Seq(CrewRecall!Match) /\ Len(m) = Len(s)
      /\ \A i \in 1..Len(s) : m[i].hit = s[i] /\ m[i].raced = f
  BY DEF CrewRecall!Match
<1>. HIDE DEF m
<1>2. q = p \o m
  BY DEF m
<1>3. Chained(q, p, m, CrewRecall!Match)
  BY <1>1, <1>2, Chains
<1>. QED BY <1>1, <1>3 DEF Chained, CrewRecallLonger

LEMMA CrewRecallRemembers ==
  ASSUME CrewRecall!RecallAssumption, CrewRecallInv, NEW t \in Calls, CrewRecall!RememberReturned(t) PROVE CrewRecallInv'
<1>1. CrewRecallTyped /\ CrewRecallLast /\ CrewRecallApart /\ CrewRecall!ShownOnce
  BY DEF CrewRecallInv
<1>2. PICK s : s = thread[t].matches
  OBVIOUS
<1>3. /\ thread[t].at = "matched" /\ recentIds' = CrewRecall!Newest(recentIds \o s, dedupeWindow)
      /\ crewRaced' = (crewRaced \cup {o \in Calls : s # <<>> /\ thread[o].at = "matched"}) \ {t}
      /\ thread' = [thread EXCEPT ![t] = CrewRecall!Idle] /\ UNCHANGED dedupeWindow
      /\ returned' = returned \o [i \in 1..Len(s) |-> [hit |-> s[i], raced |-> t \in crewRaced]]
  BY <1>2 DEF CrewRecall!RememberReturned, CrewRecall!Ring
<1>4. /\ dedupeWindow \in Nat /\ thread \in [Calls -> CrewRecallRecalled] /\ recentIds \in Seq(Hits)
      /\ Len(recentIds) \in Nat /\ Len(recentIds) <= dedupeWindow /\ returned \in Seq(CrewRecall!Match)
      /\ Len(returned) \in Nat /\ crewRaced \subseteq {o \in Calls : thread[o].at = "matched"}
  BY <1>1 DEF CrewRecallTyped, CrewRecall!RecallAssumption
<1>5. s \in Seq(Hits) /\ Len(s) \in Nat /\ \A i, j \in 1..Len(s) : s[i] = s[j] => i = j
  <2>1. s = <<>> \/ s \in HitAnswers
    BY <1>2, <1>4 DEF CrewRecallRecalled
  <2>2. CASE s = <<>>
    BY <2>2
  <2>3. CASE s \in HitAnswers
    BY <2>3 DEF CrewRecall!RecallAssumption, CrewRecall!IsOrder
  <2>. QED BY <2>1, <2>2, <2>3
<1>6. PICK w \in Nat, n \in Nat, k \in Nat, l \in Nat :
        w = dedupeWindow /\ n = Len(returned) /\ k = Len(recentIds) /\ l = Len(s)
  BY <1>4, <1>5
<1>7. (t \in crewRaced) \in BOOLEAN
  OBVIOUS
<1>8. /\ returned' \in Seq(CrewRecall!Match) /\ Len(returned') = n + l
      /\ \A i \in 1..(n + l) : \/ i \in 1..n /\ returned'[i] = returned[i]
                               \/ /\ i - n \in 1..l /\ i > n
                                  /\ returned'[i].hit = s[i - n]
                                  /\ returned'[i].raced <=> t \in crewRaced
  <2>1. PICK f \in BOOLEAN : f = (t \in crewRaced)
    BY <1>7
  <2>2. CrewRecallLonger(returned', returned, s, f)
    BY <1>3, <1>4, <1>5, <2>1, CrewRecallLengthens
  <2>3. /\ returned' \in Seq(CrewRecall!Match) /\ Len(returned') = n + l
        /\ \A i \in 1..(n + l) : \/ i \in 1..n /\ returned'[i] = returned[i]
                                 \/ i - n \in 1..l /\ i > n /\ returned'[i].hit = s[i - n] /\ returned'[i].raced = f
    BY <1>6, <2>2 DEF CrewRecallLonger
  <2>. QED BY <2>1, <2>3
<1>9. CrewRecallRung(recentIds', recentIds, s, w, Hits)
  BY <1>3, <1>4, <1>5, <1>6, CrewRecallRings
<1>0. /\ recentIds' \in Seq(Hits) /\ Len(recentIds') \in Nat /\ Len(recentIds') <= w
      /\ Len(recentIds') <= k + l /\ (Len(recentIds') = w \/ Len(recentIds') = k + l)
  BY <1>6, <1>9 DEF CrewRecallRung
<1>10. PICK r \in Nat : r = Len(recentIds')
  BY <1>0
<1>11. ASSUME NEW i \in 1..r
       PROVE  \/ /\ k + l - r + i \in 1..k
                 /\ recentIds'[i] = recentIds[k + l - r + i]
              \/ /\ l - r + i \in 1..l /\ recentIds'[i] = s[l - r + i]
  <2>0. r \in Nat /\ r <= k + l /\ k \in Nat /\ l \in Nat
    BY <1>0, <1>6, <1>10
  <2>1. PICK x \in 1..(k + l) : x = k + l - r + i
    BY <2>0
  <2>2. \/ x \in 1..k /\ recentIds'[i] = recentIds[x]
        \/ x > k /\ x - k \in 1..l /\ recentIds'[i] = s[x - k]
    BY <1>6, <1>9, <1>10, <2>1 DEF CrewRecallRung
  <2>3. x - k = l - r + i
    BY <2>1
  <2>. QED BY <2>1, <2>2, <2>3
<1>12. CrewRecallTyped'
  BY <1>0, <1>1, <1>3, <1>4, <1>6, <1>8 DEF CrewRecallTyped, CrewRecall!Idle, CrewRecallRecalled
<1>13. CrewRecallLast'
  <2>1. k <= n /\ (k = w \/ k = n)
    BY <1>1, <1>6 DEF CrewRecallLast, CrewRecallLatest
  <2>0. r <= w /\ r <= k + l /\ (r = w \/ r = k + l)
    BY <1>0, <1>10
  <2>2. r <= n + l /\ (r = w \/ r = n + l)
    BY <2>0, <2>1
  <2>3. ASSUME NEW i \in 1..r PROVE recentIds'[i] = returned'[n + l - r + i].hit
    <3>1. CASE k + l - r + i \in 1..k /\ recentIds'[i] = recentIds[k + l - r + i]
      <4>1. PICK x \in 1..k : x = k + l - r + i
        BY <3>1
      <4>2. n - k + x \in 1..n /\ n - k + x = n + l - r + i /\ n - k + x \in 1..(n + l)
            /\ ~(n - k + x > n)
        BY <2>1, <4>1
      <4>3. recentIds[x] = returned[n - k + x].hit
        BY <1>1, <1>6 DEF CrewRecallLast, CrewRecallLatest
      <4>. QED BY <1>8, <3>1, <4>1, <4>2, <4>3
    <3>2. CASE l - r + i \in 1..l /\ recentIds'[i] = s[l - r + i]
      <4>1. n + l - r + i \in 1..(n + l) /\ n + l - r + i > n /\ (n + l - r + i) - n = l - r + i
            /\ n + l - r + i \notin 1..n
        BY <3>2
      <4>. QED BY <1>8, <3>2, <4>1
    <3>. QED BY <1>11, <3>1, <3>2
  <2>4. Len(recentIds') = r /\ Len(returned') = n + l /\ dedupeWindow' = w
    BY <1>3, <1>6, <1>8, <1>10
  <2>5. PICK ring, log : ring = recentIds' /\ log = returned'
    OBVIOUS
  <2>6. Len(ring) = r /\ Len(log) = n + l /\ \A i \in 1..r : ring[i] = log[n + l - r + i].hit
    BY <2>3, <2>4, <2>5
  <2>7. CrewRecallLatest(ring, log, w)
    BY <2>2, <2>6 DEF CrewRecallLatest
  <2>. QED BY <2>4, <2>5, <2>7 DEF CrewRecallLast
<1>14. CrewRecallApart'
  <2>. SUFFICES ASSUME NEW o \in Calls, thread'[o].at = "matched", o \notin crewRaced'
                PROVE  dedupeWindow = 0 \/ CrewRecall!Range(thread'[o].matches) \cap CrewRecall!Range(recentIds') = {}
    BY <1>3 DEF CrewRecallApart
  <2>1. o # t /\ thread'[o] = thread[o] /\ thread[o].at = "matched"
    BY <1>3, <1>4 DEF CrewRecall!Idle
  <2>2. s = <<>> /\ o \notin crewRaced
    BY <1>3, <2>1
  <2>3. CrewRecall!Range(recentIds') \subseteq CrewRecall!Range(recentIds)
    <3>1. l = 0
      BY <1>6, <2>2
    <3>2. ASSUME NEW i \in 1..r PROVE recentIds'[i] \in CrewRecall!Range(recentIds)
      <4>1. PICK x \in 1..k : recentIds'[i] = recentIds[x]
        BY <1>11, <3>1
      <4>2. DOMAIN recentIds = 1..k
        BY <1>4, <1>6
      <4>. QED BY <4>1, <4>2 DEF CrewRecall!Range
    <3>3. DOMAIN recentIds' = 1..r
      BY <1>0, <1>10
    <3>. QED BY <3>2, <3>3 DEF CrewRecall!Range
  <2>4. dedupeWindow = 0 \/ CrewRecall!Range(thread[o].matches) \cap CrewRecall!Range(recentIds) = {}
    BY <1>1, <2>1, <2>2 DEF CrewRecallApart
  <2>. QED BY <2>1, <2>3, <2>4
<1>15. CrewRecall!ShownOnce'
  <2>. SUFFICES ASSUME NEW i \in 1..(n + l), NEW j \in 1..(n + l), i < j,
                       returned'[i].hit = returned'[j].hit, ~returned'[j].raced
                PROVE  j - i > w
    BY <1>3, <1>6, <1>8 DEF CrewRecall!ShownOnce
  <2>1. CASE j \in 1..n /\ returned'[j] = returned[j]
    <3>1. i \in 1..n /\ ~(i > n)
      BY <2>1
    <3>2. returned'[i] = returned[i]
      BY <1>8, <3>1
    <3>. QED BY <1>1, <1>6, <2>1, <3>1, <3>2 DEF CrewRecall!ShownOnce
  <2>2. CASE j - n \in 1..l /\ j > n /\ returned'[j].hit = s[j - n]
            /\ (returned'[j].raced <=> t \in crewRaced)
    <3>1. t \notin crewRaced
      BY <1>7, <2>2
    <3>2. i \in 1..n /\ returned'[i] = returned[i]
      <4>1. CASE i - n \in 1..l /\ i > n /\ returned'[i].hit = s[i - n]
        <5>1. i - n = j - n
          BY <1>5, <1>6, <2>2, <4>1
        <5>. QED BY <5>1
      <4>. QED BY <1>8, <4>1
    <3>3. CASE w = 0
      BY <3>3
    <3>4. CASE w # 0
      <4>1. s[j - n] \notin CrewRecall!Range(recentIds)
        <5>1. s[j - n] \in CrewRecall!Range(s)
          BY <1>5, <1>6, <2>2 DEF CrewRecall!Range
        <5>2. CrewRecall!Range(s) \cap CrewRecall!Range(recentIds) = {}
          BY <1>1, <1>2, <1>3, <1>6, <3>1, <3>4 DEF CrewRecallApart
        <5>. QED BY <5>1, <5>2
      <4>2. k <= n /\ (k = w \/ k = n)
        BY <1>1, <1>6 DEF CrewRecallLast, CrewRecallLatest
      <4>3. ~(i > n - k)
        <5>1. ASSUME i > n - k PROVE FALSE
          <6>1. PICK x \in 1..k : x = i - n + k
            BY <3>2, <4>2, <5>1
          <6>2. n - k + x = i
            BY <6>1
          <6>3. recentIds[x] = returned[i].hit
            BY <1>1, <1>6, <6>2 DEF CrewRecallLast, CrewRecallLatest
          <6>4. recentIds[x] \in CrewRecall!Range(recentIds)
            BY <1>4, <1>6 DEF CrewRecall!Range
          <6>. QED BY <2>2, <3>2, <4>1, <6>3, <6>4
        <5>. QED BY <5>1
      <4>. QED BY <2>2, <3>2, <4>2, <4>3
    <3>. QED BY <3>3, <3>4
  <2>. QED BY <1>8, <2>1, <2>2
<1>. QED BY <1>12, <1>13, <1>14, <1>15 DEF CrewRecallInv

LEMMA CrewRecallKeeps ==
  ASSUME CrewRecall!RecallAssumption, CrewRecallInv, [CrewRecall!Next]_crewVars PROVE CrewRecallInv'
<1>1. CrewRecallTyped /\ CrewRecallLast /\ CrewRecallApart /\ CrewRecall!ShownOnce /\ thread \in [Calls -> CrewRecallRecalled]
  BY DEF CrewRecallInv, CrewRecallTyped
<1>2. ASSUME NEW t \in Calls, NEW e \in CrewRecallRecalled, thread' = [thread EXCEPT ![t] = e],
             t \notin crewRaced, UNCHANGED <<dedupeWindow, recentIds, crewRaced, returned>>,
             e.at = "matched" => dedupeWindow = 0 \/ CrewRecall!Range(e.matches) \cap CrewRecall!Range(recentIds) = {}
      PROVE  CrewRecallInv'
  <2>1. thread' \in [Calls -> CrewRecallRecalled] /\ thread'[t] = e
        /\ \A o \in Calls \ {t} : thread'[o] = thread[o]
    BY <1>1, <1>2
  <2>2. CrewRecallTyped'
    BY <1>1, <1>2, <2>1 DEF CrewRecallTyped
  <2>3. CrewRecallApart'
    BY <1>1, <1>2, <2>1 DEF CrewRecallApart
  <2>4. CrewRecallLast' /\ CrewRecall!ShownOnce'
    BY <1>1, <1>2 DEF CrewRecallLast, CrewRecallLatest, CrewRecall!ShownOnce
  <2>. QED BY <2>2, <2>3, <2>4 DEF CrewRecallInv
<1>3. ASSUME NEW t \in Calls, CrewRecall!Recall(t) PROVE CrewRecallInv'
  <2> DEFINE e == [thread[t] EXCEPT !.at = "search"]
  <2>1. thread' = [thread EXCEPT ![t] = e] /\ t \notin crewRaced
        /\ UNCHANGED <<dedupeWindow, recentIds, crewRaced, returned>>
    BY <1>1, <1>3 DEF CrewRecall!Recall, CrewRecallTyped
  <2>2. e \in CrewRecallRecalled /\ e.at = "search"
    BY <1>1 DEF CrewRecallRecalled
  <2>. HIDE DEF e
  <2>. QED BY <1>2, <2>1, <2>2
<1>4. ASSUME NEW t \in Calls, CrewRecall!SearchFails(t) PROVE CrewRecallInv'
  <2>1. thread' = [thread EXCEPT ![t] = CrewRecall!Idle] /\ t \notin crewRaced
        /\ UNCHANGED <<dedupeWindow, recentIds, crewRaced, returned>>
    BY <1>1, <1>4 DEF CrewRecall!SearchFails, CrewRecallTyped
  <2>2. CrewRecall!Idle \in CrewRecallRecalled /\ CrewRecall!Idle.at = "idle"
    BY DEF CrewRecallRecalled, CrewRecall!Idle
  <2>. QED BY <1>2, <2>1, <2>2
<1>5. ASSUME NEW t \in Calls, NEW matches \in HitAnswers, CrewRecall!Matches(t, matches) PROVE CrewRecallInv'
  <2> DEFINE e == [at |-> "matched", matches |-> matches]
  <2>1. /\ thread' = [thread EXCEPT ![t] = e] /\ t \notin crewRaced
        /\ dedupeWindow = 0 \/ CrewRecall!Range(e.matches) \cap CrewRecall!Range(recentIds) = {}
        /\ UNCHANGED <<dedupeWindow, recentIds, crewRaced, returned>>
    BY <1>1, <1>5 DEF CrewRecall!Matches, CrewRecallTyped
  <2>2. e \in CrewRecallRecalled
    BY DEF CrewRecallRecalled
  <2>. HIDE DEF e
  <2>. QED BY <1>2, <2>1, <2>2
<1>6. ASSUME NEW t \in Calls, CrewRecall!RememberReturned(t) PROVE CrewRecallInv'
  BY <1>6, CrewRecallRemembers
<1>7. CASE UNCHANGED crewVars
  BY <1>1, <1>7 DEF crewVars, CrewRecallInv, CrewRecallTyped, CrewRecallLast, CrewRecallLatest,
     CrewRecallApart, CrewRecall!ShownOnce
<1>. QED BY <1>3, <1>4, <1>5, <1>6, <1>7 DEF CrewRecall!Next

LEMMA CrewRecallImplies ==
  ASSUME CrewRecall!RecallAssumption, CrewRecallInv PROVE CrewRecall!ShownOnce /\ CrewRecall!HiddenOnlyIfShown
<1>1. /\ recentIds \in Seq(Hits) /\ Len(recentIds) \in Nat /\ Len(returned) \in Nat
      /\ Len(recentIds) <= Len(returned)
      /\ \A k \in 1..Len(recentIds) :
           recentIds[k] = returned[Len(returned) - Len(recentIds) + k].hit
  BY DEF CrewRecallInv, CrewRecallTyped, CrewRecallLast, CrewRecallLatest
<1>2. \A k \in 1..Len(recentIds) : Len(returned) - Len(recentIds) + k \in 1..Len(returned)
  BY <1>1
<1>3. ASSUME NEW x \in CrewRecall!Range(recentIds) PROVE x \in {returned[i].hit : i \in 1..Len(returned)}
  <2>1. PICK k \in 1..Len(recentIds) : x = recentIds[k]
    BY <1>1 DEF CrewRecall!Range
  <2>. QED BY <1>1, <1>2, <2>1
<1>. QED BY <1>3 DEF CrewRecallInv, CrewRecall!HiddenOnlyIfShown

LEMMA CrewRecallTypes ==
  ASSUME CrewRecall!RecallAssumption, CrewRecallInv PROVE CrewRecall!TypeOK
<1>1. <<>> \in Seq(Hits) /\ \A matches \in HitAnswers : matches \in Seq(Hits)
  BY DEF CrewRecall!RecallAssumption, CrewRecall!IsOrder
<1>. QED BY <1>1 DEF CrewRecallInv, CrewRecallTyped, CrewRecallRecalled, CrewRecall!TypeOK

\* A behaviour of the whole that is this part's is a behaviour of this part.
LEMMA CrewRecallBegins ==
  ASSUME Init, part = "CrewRecall" PROVE CrewRecall!Init
BY DEF Init

LEMMA CrewRecallGoes ==
  ASSUME [Next]_<<part, recallGroup, persistGroup, userGroup, callGroup>>, part = "CrewRecall"
  PROVE  part' = "CrewRecall" /\ [CrewRecall!Next]_crewVars
<1>1. CASE Next
  BY <1>1 DEF Next, RecallNext, PersistNext, UserNext, CallNext, recallGroup
<1>2. CASE UNCHANGED <<part, recallGroup, persistGroup, userGroup, callGroup>>
  BY <1>2 DEF recallGroup
<1>. QED BY <1>1, <1>2

------------------------------------------------------------------------------
\* Whichever part a behaviour is of, that part's invariant holds.
MemoryInv ==
  /\ part = "VercelRecall" => VercelRecallInv
  /\ part = "OpenAIRecall" => OpenAIRecallInv
  /\ part = "VercelPersist" => VercelPersistInv
  /\ part = "DeepAgents" => DeepAgentsInv
  /\ part = "N8nMemory" => N8nMemoryInv
  /\ part = "PluginStop" => PluginStopInv
  /\ part = "OpenClawScope" => OpenClawScopeInv
  /\ part = "RunIdentity" => RunIdentityInv
  /\ part = "PluginConfig" => PluginConfigInv
  /\ part = "ClaudeRecall" => ClaudeRecallInv
  /\ part = "OpenClawRecall" => OpenClawRecallInv
  /\ part = "MastraRecall" => MastraRecallInv
  /\ part = "FrameworkRecall" => FrameworkRecallInv
  /\ part = "CrewRecall" => CrewRecallInv

LEMMA MemoryStart == Init => MemoryInv
<1>. SUFFICES ASSUME Init PROVE MemoryInv
  OBVIOUS
<1>1. part = "VercelRecall" => VercelRecallInv
  BY Assumptions, VercelRecallBegins, VercelRecallStarts
<1>2. part = "OpenAIRecall" => OpenAIRecallInv
  BY Assumptions, OpenAIRecallBegins, OpenAIRecallStarts
<1>3. part = "VercelPersist" => VercelPersistInv
  BY Assumptions, VercelPersistBegins, VercelPersistStarts
<1>4. part = "DeepAgents" => DeepAgentsInv
  BY Assumptions, DeepAgentsBegins, DeepAgentsStarts
<1>5. part = "N8nMemory" => N8nMemoryInv
  BY Assumptions, N8nMemoryBegins, N8nMemoryStarts
<1>6. part = "PluginStop" => PluginStopInv
  BY Assumptions, PluginStopBegins, PluginStopStarts
<1>7. part = "OpenClawScope" => OpenClawScopeInv
  BY Assumptions, OpenClawScopeBegins, OpenClawScopeStarts
<1>8. part = "RunIdentity" => RunIdentityInv
  BY Assumptions, RunIdentityBegins, RunIdentityStarts
<1>9. part = "PluginConfig" => PluginConfigInv
  BY PluginConfigBegins, PluginConfigStarts
<1>10. part = "ClaudeRecall" => ClaudeRecallInv
  BY Assumptions, ClaudeRecallBegins, ClaudeRecallStarts
<1>11. part = "OpenClawRecall" => OpenClawRecallInv
  BY Assumptions, OpenClawRecallBegins, OpenClawRecallStarts
<1>12. part = "MastraRecall" => MastraRecallInv
  BY Assumptions, MastraRecallBegins, MastraRecallStarts
<1>13. part = "FrameworkRecall" => FrameworkRecallInv
  BY Assumptions, FrameworkRecallBegins, FrameworkRecallStarts
<1>14. part = "CrewRecall" => CrewRecallInv
  BY Assumptions, CrewRecallBegins, CrewRecallStarts
<1>. QED
  BY <1>1, <1>2, <1>3, <1>4, <1>5, <1>6, <1>7, <1>8, <1>9, <1>10, <1>11, <1>12, <1>13, <1>14
     DEF MemoryInv

LEMMA MemoryStep == MemoryInv /\ [Next]_<<part, recallGroup, persistGroup, userGroup, callGroup>> => MemoryInv'
<1>. SUFFICES ASSUME MemoryInv, [Next]_<<part, recallGroup, persistGroup, userGroup, callGroup>> PROVE MemoryInv'
  OBVIOUS
<1>0. part' = part
  BY DEF Next
<1>1. part = "VercelRecall" => VercelRecallInv'
  <2>. SUFFICES ASSUME part = "VercelRecall" PROVE VercelRecallInv'
    OBVIOUS
  <2>1. VercelRecallInv
    BY DEF MemoryInv
  <2>2. [VercelRecall!Next]_vercelRecallVars
    BY VercelRecallGoes
  <2>. QED BY Assumptions, <2>1, <2>2, VercelRecallKeeps
<1>2. part = "OpenAIRecall" => OpenAIRecallInv'
  <2>. SUFFICES ASSUME part = "OpenAIRecall" PROVE OpenAIRecallInv'
    OBVIOUS
  <2>1. OpenAIRecallInv
    BY DEF MemoryInv
  <2>2. [OpenAIRecall!Next]_openAIRecallVars
    BY OpenAIRecallGoes
  <2>. QED BY Assumptions, <2>1, <2>2, OpenAIRecallKeeps
<1>3. part = "VercelPersist" => VercelPersistInv'
  <2>. SUFFICES ASSUME part = "VercelPersist" PROVE VercelPersistInv'
    OBVIOUS
  <2>1. VercelPersistInv
    BY DEF MemoryInv
  <2>2. [VercelPersist!Next]_vercelPersistVars
    BY VercelPersistGoes
  <2>. QED BY Assumptions, <2>1, <2>2, VercelPersistKeeps
<1>4. part = "DeepAgents" => DeepAgentsInv'
  <2>. SUFFICES ASSUME part = "DeepAgents" PROVE DeepAgentsInv'
    OBVIOUS
  <2>1. DeepAgentsInv
    BY DEF MemoryInv
  <2>2. [DeepAgents!Next]_deepVars
    BY DeepAgentsGoes
  <2>. QED BY Assumptions, <2>1, <2>2, DeepAgentsKeeps
<1>5. part = "N8nMemory" => N8nMemoryInv'
  <2>. SUFFICES ASSUME part = "N8nMemory" PROVE N8nMemoryInv'
    OBVIOUS
  <2>1. N8nMemoryInv
    BY DEF MemoryInv
  <2>2. [N8nMemory!Next]_n8nVars
    BY N8nMemoryGoes
  <2>. QED BY Assumptions, <2>1, <2>2, N8nMemoryKeeps
<1>6. part = "PluginStop" => PluginStopInv'
  <2>. SUFFICES ASSUME part = "PluginStop" PROVE PluginStopInv'
    OBVIOUS
  <2>1. PluginStopInv
    BY DEF MemoryInv
  <2>2. [PluginStop!Next]_stopVars
    BY PluginStopGoes
  <2>. QED BY Assumptions, <2>1, <2>2, PluginStopKeeps
<1>7. part = "OpenClawScope" => OpenClawScopeInv'
  <2>. SUFFICES ASSUME part = "OpenClawScope" PROVE OpenClawScopeInv'
    OBVIOUS
  <2>1. OpenClawScopeInv
    BY DEF MemoryInv
  <2>2. [OpenClawScope!Next]_scopeVars
    BY OpenClawScopeGoes
  <2>. QED BY Assumptions, <2>1, <2>2, OpenClawScopeKeeps
<1>8. part = "RunIdentity" => RunIdentityInv'
  <2>. SUFFICES ASSUME part = "RunIdentity" PROVE RunIdentityInv'
    OBVIOUS
  <2>1. RunIdentityInv
    BY DEF MemoryInv
  <2>2. [RunIdentity!Next]_identityVars
    BY RunIdentityGoes
  <2>. QED BY Assumptions, <2>1, <2>2, RunIdentityKeeps
<1>9. part = "PluginConfig" => PluginConfigInv'
  <2>. SUFFICES ASSUME part = "PluginConfig" PROVE PluginConfigInv'
    OBVIOUS
  <2>1. PluginConfigInv
    BY DEF MemoryInv
  <2>2. [PluginConfig!Next]_configVars
    BY PluginConfigGoes
  <2>. QED BY <2>1, <2>2, PluginConfigKeeps
<1>10. part = "ClaudeRecall" => ClaudeRecallInv'
  <2>. SUFFICES ASSUME part = "ClaudeRecall" PROVE ClaudeRecallInv'
    OBVIOUS
  <2>1. ClaudeRecallInv
    BY DEF MemoryInv
  <2>2. [ClaudeRecall!Next]_claudeRecallVars
    BY ClaudeRecallGoes
  <2>. QED BY Assumptions, <2>1, <2>2, ClaudeRecallKeeps
<1>11. part = "OpenClawRecall" => OpenClawRecallInv'
  <2>. SUFFICES ASSUME part = "OpenClawRecall" PROVE OpenClawRecallInv'
    OBVIOUS
  <2>1. OpenClawRecallInv
    BY DEF MemoryInv
  <2>2. [OpenClawRecall!Next]_openClawRecallVars
    BY OpenClawRecallGoes
  <2>. QED BY Assumptions, <2>1, <2>2, OpenClawRecallKeeps
<1>12. part = "MastraRecall" => MastraRecallInv'
  <2>. SUFFICES ASSUME part = "MastraRecall" PROVE MastraRecallInv'
    OBVIOUS
  <2>1. MastraRecallInv
    BY DEF MemoryInv
  <2>2. [MastraRecall!Next]_mastraRecallVars
    BY MastraRecallGoes
  <2>. QED BY Assumptions, <2>1, <2>2, MastraRecallKeeps
<1>13. part = "FrameworkRecall" => FrameworkRecallInv'
  <2>. SUFFICES ASSUME part = "FrameworkRecall" PROVE FrameworkRecallInv'
    OBVIOUS
  <2>1. FrameworkRecallInv
    BY DEF MemoryInv
  <2>2. [FrameworkRecall!Next]_frameworkRecallVars
    BY FrameworkRecallGoes
  <2>. QED BY Assumptions, <2>1, <2>2, FrameworkRecallKeeps
<1>14. part = "CrewRecall" => CrewRecallInv'
  <2>. SUFFICES ASSUME part = "CrewRecall" PROVE CrewRecallInv'
    OBVIOUS
  <2>1. CrewRecallInv
    BY DEF MemoryInv
  <2>2. [CrewRecall!Next]_crewVars
    BY CrewRecallGoes
  <2>. QED BY Assumptions, <2>1, <2>2, CrewRecallKeeps
<1>. QED
  BY <1>0, <1>1, <1>2, <1>3, <1>4, <1>5, <1>6, <1>7, <1>8, <1>9, <1>10, <1>11, <1>12, <1>13,
     <1>14 DEF MemoryInv

------------------------------------------------------------------------------
\* A memory is given to a conversation again only after as many others were given as
\* the ledger holds, or after the conversation was reset, or when two recalls of it
\* raced and lost each other's ids.
THEOREM MemoriesAreShownOnce == Spec => []ShownOnce
<1>1. MemoryInv => ShownOnce
  BY Assumptions, ClaudeRecallImplies, OpenClawRecallImplies, MastraRecallImplies,
     FrameworkRecallImplies,
     CrewRecallImplies DEF MemoryInv, ShownOnce
<1>. QED BY MemoryStart, MemoryStep, <1>1, PTL DEF Spec

\* A memory is kept from a conversation only after the conversation was given it.
THEOREM HiddenOnesWereShown == Spec => []HiddenOnlyIfShown
<1>1. MemoryInv => HiddenOnlyIfShown
  BY Assumptions, ClaudeRecallImplies, OpenClawRecallImplies, MastraRecallImplies,
     FrameworkRecallImplies,
     CrewRecallImplies DEF MemoryInv, HiddenOnlyIfShown
<1>. QED BY MemoryStart, MemoryStep, <1>1, PTL DEF Spec

\* The middlewares and the n8n node write a turn once, whichever calls are repeated
\* or overlap, and once more for each answer of the server that was lost to Vercel's
\* (middleware.ts:356), up to the other exceptions their modules state.
THEOREM WritesOnce == Spec => []WrittenOnce
<1>1. MemoryInv => WrittenOnce
  BY Assumptions, VercelPersistImplies, DeepAgentsImplies, N8nMemoryImplies DEF MemoryInv,
     WrittenOnce
<1>. QED BY MemoryStart, MemoryStep, <1>1, PTL DEF Spec

\* The middlewares do not take a failed write for a done one.
THEOREM FailuresAreKnown == Spec => []NothingSwallowed
<1>1. MemoryInv => NothingSwallowed
  BY Assumptions, VercelPersistImplies, DeepAgentsImplies DEF MemoryInv, NothingSwallowed
<1>. QED BY MemoryStart, MemoryStep, <1>1, PTL DEF Spec

\* The n8n node and the Stop hook of the plugin pair a prompt with its own answer.
THEOREM PairsAreMatched == Spec => []PairsMatch
<1>1. MemoryInv => PairsMatch
  BY Assumptions, N8nMemoryImplies, PluginStopImplies DEF MemoryInv, PairsMatch
<1>. QED BY MemoryStart, MemoryStep, <1>1, PTL DEF Spec

\* Whatever cache, slot or lookup answers, the memories are those of the user, the
\* session and the question (in n8n: up to its case) they are shown to.
THEOREM MemoriesStayOwn == Spec => []MemoriesAreOwn
<1>1. MemoryInv => MemoriesAreOwn
  BY Assumptions, VercelRecallImplies, OpenAIRecallImplies, DeepAgentsImplies, N8nMemoryImplies,
     OpenClawScopeImplies, RunIdentityImplies, PluginConfigImplies DEF MemoryInv, MemoriesAreOwn
<1>. QED BY MemoryStart, MemoryStep, <1>1, PTL DEF Spec

\* What a step may take from a cache.
Reused ==
  /\ part = "VercelRecall" => VercelRecall!StepReuses
  /\ part = "OpenAIRecall" => OpenAIRecall!StepReuses

\* The steps of a tool loop share one search, and what it found expires.
THEOREM SearchesAreReused == Spec => StepsReuse
<1>1. MemoryInv /\ [Next]_<<part, recallGroup, persistGroup, userGroup, callGroup>> => Reused
  <2>. SUFFICES ASSUME MemoryInv, [Next]_<<part, recallGroup, persistGroup, userGroup, callGroup>> PROVE Reused
    OBVIOUS
  <2>1. ASSUME part = "VercelRecall" PROVE VercelRecall!StepReuses
    <3>1. VercelRecallInv /\ [VercelRecall!Next]_vercelRecallVars
      BY <2>1, VercelRecallGoes DEF MemoryInv
    <3>. QED BY Assumptions, <3>1, VercelRecallReuses
  <2>2. ASSUME part = "OpenAIRecall" PROVE OpenAIRecall!StepReuses
    <3>1. OpenAIRecallInv /\ [OpenAIRecall!Next]_openAIRecallVars
      BY <2>2, OpenAIRecallGoes DEF MemoryInv
    <3>. QED BY Assumptions, <3>1, OpenAIRecallReuses
  <2>. QED BY <2>1, <2>2 DEF Reused
<1>2. Spec => [][Reused]_recallGroup
  BY MemoryStart, MemoryStep, <1>1, PTL DEF Spec
<1>. QED BY <1>2 DEF StepsReuse, Reused
==============================================================================
