----------------------- MODULE IntegrationsCallProofs -----------------------
(***************************************************************************)
(* What the integrations do beside the turns - capture and drain behind the*)
(* runs, answer for their tools, and hold what is shared within its bounds *)
(* - for every number of sessions, users, calls and processes.             *)
(***************************************************************************)
EXTENDS IntegrationsMemoryProofs

\* How many they are changes with the one that moves.
LEMMA Moves ==
  ASSUME NEW P, IsFiniteSet(P), NEW A \in SUBSET P, NEW B \in SUBSET P, NEW p \in P,
         A \ {p} = B \ {p}
  PROVE  /\ Cardinality(A) \in Nat /\ Cardinality(B) \in Nat /\ Cardinality(P) \in Nat
         /\ Cardinality(A) <= Cardinality(P) /\ Cardinality(B) <= Cardinality(P)
         /\ Cardinality(B) = Cardinality(A) - (IF p \in A THEN 1 ELSE 0)
                                            + (IF p \in B THEN 1 ELSE 0)
         /\ p \notin B => Cardinality(B) <= Cardinality(P) - 1
<1>1. /\ IsFiniteSet(A) /\ IsFiniteSet(B)
      /\ Cardinality(A) <= Cardinality(P) /\ Cardinality(B) <= Cardinality(P)
  BY FS_Subset
<1>2. Cardinality(A) \in Nat /\ Cardinality(B) \in Nat /\ Cardinality(P) \in Nat
  BY <1>1, FS_CardinalityType
<1>3. /\ Cardinality(A \ {p}) = IF p \in A THEN Cardinality(A) - 1 ELSE Cardinality(A)
      /\ Cardinality(B \ {p}) = IF p \in B THEN Cardinality(B) - 1 ELSE Cardinality(B)
  BY <1>1, FS_RemoveElement
<1>4. p \notin B => Cardinality(B) <= Cardinality(P) - 1
  <2>1. IsFiniteSet(P \ {p}) /\ Cardinality(P \ {p}) = Cardinality(P) - 1
    BY FS_RemoveElement
  <2>2. p \notin B => B \subseteq P \ {p}
    OBVIOUS
  <2>. QED BY <2>1, <2>2, FS_Subset
<1>5. Cardinality(A \ {p}) = Cardinality(B \ {p})
  OBVIOUS
<1>. QED BY <1>1, <1>2, <1>3, <1>4, <1>5

------------------------------------------------------------------------------
\* The walks of the n8n node over the pages of a list.

N8nNodeKinds == {"error", "result", "rows"}
N8nNodePaired == [item : Nat, kind : N8nNodeKinds, rows : Seq(Nat)]

\* How many rows the walk is past.
N8nNodeBehind == (page - 1) * PageSize

\* A walk belongs to an item that is not handled yet.
N8nNodeListed ==
  /\ Len(items) \in Nat /\ handled \in 0..Len(items) /\ page \in 0..MaxPages
  /\ stored \in Nat /\ stored <= MaxRows /\ stopped \in BOOLEAN
  /\ rows \in Seq(1..stored) /\ Len(rows) <= stored
  /\ \A i, j \in 1..Len(rows) : rows[i] = rows[j] => i = j
  /\ collected \in Seq(1..stored) /\ before \subseteq 1..stored
  /\ output \in Seq(N8nNodePaired)
  /\ page = 0 => collected = <<>>
  /\ page > 0 => handled < Len(items) /\ ~stopped

\* What was there is collected or ahead, and what is collected is not ahead.
N8nNodeComplete(got, past) ==
  gone = {} => \A m \in before : \/ \E i \in 1..Len(got) : got[i] = m
                                 \/ \E j \in (past + 1)..Len(rows) : rows[j] = m
N8nNodeSingle(got, past) ==
  N8nNode!Range(rows) \cup gone \subseteq before =>
    /\ \A i, j \in 1..Len(got) : got[i] = got[j] => i = j
    /\ \A i \in 1..Len(got) : \A j \in (past + 1)..Len(rows) : got[i] # rows[j]
N8nNodeWalked == page = 0 /\ ~stopped /\ output # <<>> /\ output[Len(output)].kind = "rows"

\* A walk that ended is past every page up to the last one it may ask for.
N8nNodeLast == /\ N8nNodeComplete(output[Len(output)].rows, MaxPages * PageSize)
               /\ N8nNodeSingle(output[Len(output)].rows, MaxPages * PageSize)

N8nNodeInv ==
  /\ N8nNodeListed
  /\ page > 0 => N8nNodeComplete(collected, N8nNodeBehind) /\ N8nNodeSingle(collected, N8nNodeBehind)
  /\ N8nNodeWalked => N8nNodeLast

\* The pages follow one another.
LEMMA N8nNodeSteps ==
  ASSUME N8nNode!NodeAssumption, NEW n \in Nat \ {0}
  PROVE  (n - 1) * PageSize \in Nat /\ n * PageSize = (n - 1) * PageSize + PageSize
<1>1. PageSize \in Nat /\ n \in Int
  BY DEF N8nNode!NodeAssumption
<1>2. \A m, p \in Nat : m * p \in Nat /\ (m + 1) * p = m * p + p
  OBVIOUS
<1>3. n - 1 \in Nat /\ (n - 1) + 1 = n
  OBVIOUS
<1>. QED BY <1>1, <1>2, <1>3

\* A page of rows beside what was collected.
N8nNodeJoined(r, c, q, from, to, T) ==
  /\ r \in Seq(T)
  /\ from <= to => /\ Len(r) = Len(c) + to - from
                   /\ \A i \in 1..Len(r) : r[i] = IF i <= Len(c) THEN c[i]
                                                  ELSE q[from + i - Len(c)]
  /\ to <= from => r = c
LEMMA N8nNodeJoins ==
  ASSUME NEW T, NEW c \in Seq(T), NEW q \in Seq(T), NEW from \in Nat, NEW to \in Nat, to <= Len(q),
         NEW r, r = c \o SubSeq(q, from + 1, to)
  PROVE  N8nNodeJoined(r, c, q, from, to, T)
<1> DEFINE s == SubSeq(q, from + 1, to)
<1>1. CASE from < to
  <2>1. s \in Seq(T) /\ Len(s) = to - from /\ \A i \in 1..(to - from) : s[i] = q[from + i]
    BY <1>1
  <2>. HIDE DEF s
  <2>2. r = c \o s
    BY DEF s
  <2>3. r \in Seq(T) /\ Len(r) = Len(c) + (to - from)
    <3>1. \A t \in Seq(T) : c \o t \in Seq(T) /\ Len(c \o t) = Len(c) + Len(t)
      OBVIOUS
    <3>. QED BY <2>1, <2>2, <3>1
  <2>4. \A i \in 1..Len(r) : r[i] = IF i <= Len(c) THEN c[i] ELSE s[i - Len(c)]
    <3>1. \A t \in Seq(T) : \A i \in 1..Len(c \o t) :
            (c \o t)[i] = IF i <= Len(c) THEN c[i] ELSE t[i - Len(c)]
      OBVIOUS
    <3>. QED BY <2>1, <2>2, <3>1
  <2>5. ASSUME NEW i \in 1..Len(r), ~(i <= Len(c)) PROVE r[i] = q[from + i - Len(c)]
    <3>1. i - Len(c) \in 1..(to - from) /\ from + (i - Len(c)) = from + i - Len(c)
      BY <1>1, <2>3, <2>5
    <3>. QED BY <2>1, <2>4, <2>5, <3>1
  <2>6. Len(c) + (to - from) = Len(c) + to - from
    BY <1>1
  <2>7. ASSUME NEW i \in 1..Len(r)
        PROVE  r[i] = IF i <= Len(c) THEN c[i] ELSE q[from + i - Len(c)]
    <3>1. CASE i <= Len(c)
      BY <2>4, <3>1
    <3>2. CASE ~(i <= Len(c))
      BY <2>5, <3>2
    <3>. QED BY <3>1, <3>2
  <2>8. Len(r) = Len(c) + to - from /\ ~(to <= from)
    BY <1>1, <2>3, <2>6
  <2>. QED BY <2>3, <2>7, <2>8 DEF N8nNodeJoined
<1>2. CASE to <= from
  <2>1. s = <<>>
    BY <1>2
  <2>2. c \o <<>> = c
    OBVIOUS
  <2>3. r = c
    BY <2>1, <2>2
  <2>4. from <= to => to = from
    BY <1>2
  <2>. QED BY <1>2, <2>3, <2>4 DEF N8nNodeJoined
<1>. QED BY <1>1, <1>2

\* Where a page ends, and that none follows the last one, unless it is the last
\* that may be asked for.
LEMMA N8nNodePageEnds ==
  ASSUME N8nNode!NodeAssumption, N8nNodeListed, page > 0
  PROVE  \E to \in Nat :
           /\ to = (IF N8nNodeBehind + PageSize < Len(rows) THEN N8nNodeBehind + PageSize ELSE Len(rows))
           /\ N8nNode!PageRows(page) = SubSeq(rows, N8nNodeBehind + 1, to)
           /\ N8nNode!LastPage(page) => page = MaxPages \/ Len(rows) <= N8nNodeBehind + PageSize
           /\ N8nNodeBehind \in Nat /\ page * PageSize = N8nNodeBehind + PageSize /\ to <= Len(rows)
<1>1. /\ N8nNodeBehind \in Nat /\ page * PageSize = N8nNodeBehind + PageSize /\ page \in Nat
      /\ PageSize \in Nat \ {0} /\ Len(rows) \in Nat /\ rows \in Seq(1..stored)
  <2>1. page \in Nat \ {0} /\ stored \in Nat /\ rows \in Seq(1..stored)
    BY DEF N8nNodeListed, N8nNode!NodeAssumption
  <2>. QED BY <2>1, N8nNodeSteps DEF N8nNodeBehind, N8nNode!NodeAssumption
<1> DEFINE to == IF N8nNodeBehind + PageSize < Len(rows) THEN N8nNodeBehind + PageSize ELSE Len(rows)
<1>2. to \in Nat /\ to <= Len(rows)
  BY <1>1
<1>3. N8nNode!PageRows(page) = SubSeq(rows, N8nNodeBehind + 1, to)
  BY DEF N8nNode!PageRows, N8nNodeBehind
<1>4. ASSUME N8nNode!LastPage(page) PROVE page = MaxPages \/ Len(rows) <= N8nNodeBehind + PageSize
  <2>1. CASE N8nNode!PageRows(page) = <<>>
    <3>1. CASE N8nNodeBehind + PageSize < Len(rows)
      <4>1. Len(SubSeq(rows, N8nNodeBehind + 1, N8nNodeBehind + PageSize)) = PageSize
        BY <1>1, <3>1
      <4>2. SubSeq(rows, N8nNodeBehind + 1, N8nNodeBehind + PageSize) = <<>>
        BY <1>3, <2>1, <3>1
      <4>3. Len(<<>>) = 0
        OBVIOUS
      <4>. HIDE DEF to
      <4>. QED BY <1>1, <4>1, <4>2, <4>3
    <3>. QED BY <1>1, <3>1
  <2>2. CASE page >= N8nNode!TotalPages
    <3>1. \A p \in Nat \ {0} : \A l, n \in Nat : n >= (l + p - 1) \div p => l <= n * p
      OBVIOUS
    <3>. QED BY <1>1, <2>2, <3>1 DEF N8nNode!TotalPages
  <2>. QED BY <1>4, <2>1, <2>2 DEF N8nNode!LastPage
<1>. HIDE DEF to
<1>. QED BY <1>1, <1>2, <1>3, <1>4 DEF to

\* What a page adds is what the walk is past then.
LEMMA N8nNodePasses ==
  ASSUME N8nNodeListed, N8nNodeBehind \in Nat, N8nNodeComplete(collected, N8nNodeBehind), N8nNodeSingle(collected, N8nNodeBehind),
         NEW to \in Nat, to <= Len(rows), NEW past \in Nat, to <= past,
         to < Len(rows) => past = to /\ N8nNodeBehind <= to,
         NEW q, q = collected \o SubSeq(rows, N8nNodeBehind + 1, to)
  PROVE  q \in Seq(1..stored) /\ N8nNodeComplete(q, past) /\ N8nNodeSingle(q, past)
<1>1. /\ rows \in Seq(1..stored) /\ collected \in Seq(1..stored)
      /\ Len(rows) \in Nat /\ Len(collected) \in Nat
      /\ \A i, j \in 1..Len(rows) : rows[i] = rows[j] => i = j
  BY DEF N8nNodeListed
<1>2. /\ q \in Seq(1..stored)
      /\ N8nNodeBehind <= to => /\ Len(q) = Len(collected) + to - N8nNodeBehind
                                /\ \A i \in 1..Len(q) : q[i] = IF i <= Len(collected) THEN collected[i]
                                                               ELSE rows[N8nNodeBehind + i - Len(collected)]
      /\ to <= N8nNodeBehind => q = collected
  <2>1. N8nNodeJoined(q, collected, rows, N8nNodeBehind, to, 1..stored)
    BY <1>1, N8nNodeJoins
  <2>. QED BY <2>1 DEF N8nNodeJoined
<1>. PICK b \in Nat, n \in Nat : b = N8nNodeBehind /\ n = Len(collected)
  BY <1>1
<1>3. CASE b <= to
  <2>1. /\ Len(q) = n + to - b
        /\ \A i \in 1..n : i \in 1..Len(q) /\ q[i] = collected[i]
        /\ \A j \in (b + 1)..to : /\ n + j - b \in 1..Len(q)
                                  /\ q[n + j - b] = rows[j]
        /\ \A i \in 1..Len(q) : \/ i \in 1..n /\ q[i] = collected[i]
                                \/ /\ i > n /\ b + i - n \in (b + 1)..to
                                   /\ q[i] = rows[b + i - n]
    <3>1. /\ Len(q) = n + to - b
          /\ \A i \in 1..Len(q) : q[i] = IF i <= n THEN collected[i] ELSE rows[b + i - n]
      BY <1>2, <1>3
    <3>2. \A i \in 1..n : i \in 1..Len(q) /\ q[i] = collected[i]
      BY <1>3, <3>1
    <3>3. ASSUME NEW j \in (b + 1)..to PROVE n + j - b \in 1..Len(q) /\ q[n + j - b] = rows[j]
      <4>1. n + j - b \in 1..Len(q) /\ ~(n + j - b <= n) /\ b + (n + j - b) - n = j
        BY <1>3, <3>1
      <4>. QED BY <3>1, <4>1
    <3>4. ASSUME NEW i \in 1..Len(q)
          PROVE  \/ i \in 1..n /\ q[i] = collected[i]
                 \/ i > n /\ b + i - n \in (b + 1)..to /\ q[i] = rows[b + i - n]
      BY <1>3, <3>1
    <3>. QED BY <3>1, <3>2, <3>3, <3>4
  <2>2. ASSUME gone = {}, NEW m \in before
        PROVE  \/ \E i \in 1..Len(q) : q[i] = m
               \/ \E j \in (past + 1)..Len(rows) : rows[j] = m
    <3>1. CASE \E i \in 1..n : collected[i] = m
      BY <2>1, <3>1
    <3>2. CASE \E j \in (b + 1)..Len(rows) : rows[j] = m
      <4>1. PICK j \in (b + 1)..Len(rows) : rows[j] = m
        BY <3>2
      <4>2. CASE j <= to
        <5>1. j \in (b + 1)..to
          BY <4>2
        <5>. QED BY <2>1, <4>1, <5>1
      <4>3. CASE ~(j <= to)
        <5>1. to < Len(rows) /\ j \in (past + 1)..Len(rows)
          BY <1>1, <4>3
        <5>. QED BY <4>1, <5>1
      <4>. QED BY <4>2, <4>3
    <3>. QED BY <2>2, <3>1, <3>2 DEF N8nNodeComplete
  <2>3. ASSUME N8nNode!Range(rows) \cup gone \subseteq before
        PROVE  /\ \A i, j \in 1..Len(q) : q[i] = q[j] => i = j
               /\ \A i \in 1..Len(q) : \A j \in (past + 1)..Len(rows) : q[i] # rows[j]
    <3>1. /\ \A i, j \in 1..n : collected[i] = collected[j] => i = j
          /\ \A i \in 1..n : \A j \in (b + 1)..Len(rows) : collected[i] # rows[j]
      BY <2>3 DEF N8nNodeSingle
    <3>2. \A j \in (b + 1)..to : j \in (b + 1)..Len(rows) /\ j \in 1..Len(rows)
      BY <1>1
    <3>3. ASSUME NEW i \in 1..Len(q), NEW j \in 1..Len(q), q[i] = q[j] PROVE i = j
      <4>1. CASE i > n /\ j > n
        <5>1. b + i - n = b + j - n
          BY <1>1, <2>1, <3>2, <3>3, <4>1
        <5>2. i \in Nat /\ j \in Nat
          OBVIOUS
        <5>. QED BY <5>1, <5>2
      <4>. QED BY <2>1, <3>1, <3>2, <3>3, <4>1
    <3>4. ASSUME NEW i \in 1..Len(q), NEW j \in (past + 1)..Len(rows) PROVE q[i] # rows[j]
      <4>1. j \in (b + 1)..Len(rows) /\ j \in 1..Len(rows) /\ ~(j <= to)
        BY <1>1, <1>3
      <4>2. CASE i \in 1..n /\ q[i] = collected[i]
        BY <3>1, <4>1, <4>2
      <4>3. CASE i > n /\ b + i - n \in (b + 1)..to /\ q[i] = rows[b + i - n]
        <5>1. b + i - n # j /\ b + i - n \in 1..Len(rows)
          BY <3>2, <4>1, <4>3
        <5>. QED BY <1>1, <4>1, <4>3, <5>1
      <4>. QED BY <2>1, <4>2, <4>3
    <3>. QED BY <3>3, <3>4
  <2>. QED BY <1>2, <2>2, <2>3 DEF N8nNodeComplete, N8nNodeSingle
<1>4. CASE ~(b <= to)
  <2>1. q = collected /\ to = Len(rows)
    BY <1>1, <1>2, <1>4
  <2>2. /\ \A j \in (b + 1)..Len(rows) : FALSE
        /\ \A j \in (past + 1)..Len(rows) : FALSE
    BY <1>1, <1>4, <2>1
  <2>. QED BY <1>2, <2>1, <2>2 DEF N8nNodeComplete, N8nNodeSingle
<1>. QED BY <1>3, <1>4

LEMMA N8nNodeStarts ==
  ASSUME N8nNode!NodeAssumption, N8nNode!Init PROVE N8nNodeInv
<1>1. PICK n \in 0..(MaxRows - 1) : rows = [i \in 1..n |-> n + 1 - i]
  BY DEF N8nNode!Init
<1>2. /\ MaxRows \in Nat /\ n \in Nat /\ n <= MaxRows /\ MaxPages \in Nat \ {0}
  BY <1>1 DEF N8nNode!NodeAssumption
<1>3. rows \in Seq(1..n) /\ Len(rows) = n /\ \A i, j \in 1..n : rows[i] = rows[j] => i = j
  <2>1. \A i \in 1..n : n + 1 - i \in 1..n
    BY <1>2
  <2>2. \A i, j \in 1..n : n + 1 - i = n + 1 - j => i = j
    BY <1>2
  <2>. QED BY <1>1, <1>2, <2>1, <2>2
<1>4. Len(items) = 2
  BY DEF N8nNode!Init
<1>5. /\ handled = 0 /\ page = 0 /\ collected = <<>> /\ before = {} /\ output = <<>>
      /\ stopped = FALSE /\ stored = n
  BY <1>3 DEF N8nNode!Init
<1>6. N8nNodeListed
  <2>1. \A T : <<>> \in Seq(T)
    OBVIOUS
  <2>2. 0 \in 0..MaxPages /\ 0 \in 0..2 /\ ~(0 > 0)
    BY <1>2
  <2>3. /\ Len(items) \in Nat /\ handled \in 0..Len(items) /\ page \in 0..MaxPages
        /\ stored \in Nat /\ stored <= MaxRows
    BY <1>2, <1>4, <1>5, <2>2
  <2>4. /\ rows \in Seq(1..stored) /\ Len(rows) <= stored
        /\ \A i, j \in 1..Len(rows) : rows[i] = rows[j] => i = j
    BY <1>2, <1>3, <1>5
  <2>5. /\ collected \in Seq(1..stored) /\ before \subseteq 1..stored
        /\ output \in Seq(N8nNodePaired)
    BY <1>5, <2>1
  <2>6. stopped \in BOOLEAN
    BY <1>5
  <2>. QED BY <1>5, <2>2, <2>3, <2>4, <2>5, <2>6 DEF N8nNodeListed
<1>. QED BY <1>5, <1>6 DEF N8nNodeInv, N8nNodeWalked

\* An entry behind the others is the last.
LEMMA N8nNodeEnds ==
  ASSUME NEW T, NEW q \in Seq(T), NEW e \in T, NEW r, r = Append(q, e)
  PROVE  r \in Seq(T) /\ r # <<>> /\ r[Len(r)] = e
OBVIOUS

\* An item that is done leaves no walk.
LEMMA N8nNodeCloses ==
  ASSUME N8nNode!NodeAssumption,
         N8nNodeListed, handled < Len(items), handled' = handled + 1, page' = 0, collected' = <<>>,
         UNCHANGED <<items, rows, before, stored, stopped>>,
         NEW e \in N8nNodePaired, output' = Append(output, e)
  PROVE  N8nNodeListed' /\ output'[Len(output')] = e
<1>1. output' \in Seq(N8nNodePaired) /\ output'[Len(output')] = e
  <2>1. output \in Seq(N8nNodePaired)
    BY DEF N8nNodeListed
  <2>. QED BY <2>1, N8nNodeEnds
<1>2. 0 \in 0..MaxPages
  BY DEF N8nNode!NodeAssumption
<1>3. handled + 1 \in 0..Len(items)
  BY DEF N8nNodeListed
<1>4. <<>> \in Seq(1..stored)
  OBVIOUS
<1>. QED BY <1>1, <1>2, <1>3, <1>4 DEF N8nNodeListed

LEMMA N8nNodeFails ==
  ASSUME N8nNode!NodeAssumption, N8nNodeInv, N8nNode!Busy \/ page > 0, N8nNode!ItemFails PROVE N8nNodeInv'
<1>1. N8nNodeListed /\ handled < Len(items) /\ ~stopped /\ 0 \in 0..MaxPages
  BY DEF N8nNodeInv, N8nNodeListed, N8nNode!Busy, N8nNode!NodeAssumption
<1>2. page' = 0 /\ collected' = <<>> /\ UNCHANGED <<items, rows, before, stored>>
  BY DEF N8nNode!ItemFails
<1>3. CASE continues
  <2> DEFINE e == N8nNode!Entry("error", <<>>)
  <2>1. e \in N8nNodePaired /\ e.kind = "error"
    BY <1>1 DEF N8nNode!Entry, N8nNodePaired, N8nNodeKinds, N8nNodeListed
  <2>2. output' = Append(output, e) /\ handled' = handled + 1 /\ stopped' = stopped
    BY <1>3 DEF N8nNode!ItemFails
  <2>. HIDE DEF e
  <2>3. N8nNodeListed' /\ output'[Len(output')] = e
    BY <1>1, <1>2, <2>1, <2>2, N8nNodeCloses
  <2>4. ~N8nNodeWalked'
    BY <2>1, <2>3 DEF N8nNodeWalked
  <2>. QED BY <1>2, <2>3, <2>4 DEF N8nNodeInv
<1>4. CASE ~continues
  <2>1. stopped' = TRUE /\ UNCHANGED <<output, handled>>
    BY <1>4 DEF N8nNode!ItemFails
  <2>2. N8nNodeListed'
    BY <1>1, <1>2, <2>1 DEF N8nNodeListed
  <2>. QED BY <1>2, <2>1, <2>2 DEF N8nNodeInv, N8nNodeWalked
<1>. QED BY <1>3, <1>4

LEMMA N8nNodePages ==
  ASSUME N8nNode!NodeAssumption, N8nNodeInv, N8nNode!WalkPage PROVE N8nNodeInv'
<1>1. /\ N8nNodeListed /\ page > 0 /\ N8nNodeComplete(collected, N8nNodeBehind) /\ N8nNodeSingle(collected, N8nNodeBehind)
      /\ handled < Len(items) /\ ~stopped /\ MaxPages \in Nat /\ page \in 0..MaxPages
  BY DEF N8nNode!WalkPage, N8nNodeInv, N8nNodeListed, N8nNode!NodeAssumption
<1>2. PICK to \in Nat :
        /\ to = (IF N8nNodeBehind + PageSize < Len(rows) THEN N8nNodeBehind + PageSize ELSE Len(rows))
        /\ N8nNode!PageRows(page) = SubSeq(rows, N8nNodeBehind + 1, to)
        /\ N8nNode!LastPage(page) => page = MaxPages \/ Len(rows) <= N8nNodeBehind + PageSize
        /\ N8nNodeBehind \in Nat /\ page * PageSize = N8nNodeBehind + PageSize /\ to <= Len(rows)
  BY <1>1, N8nNodePageEnds
<1>3. PICK b \in Nat, p \in Nat, n \in Nat : b = N8nNodeBehind /\ p = PageSize /\ n = Len(rows)
  <2>1. PageSize \in Nat /\ Len(rows) \in Nat
    BY <1>1 DEF N8nNode!NodeAssumption, N8nNodeListed
  <2>. QED BY <1>2, <2>1
<1> DEFINE all == collected \o N8nNode!PageRows(page)
<1>4. PICK q : q = all
  OBVIOUS
<1>5. q = collected \o SubSeq(rows, N8nNodeBehind + 1, to)
  BY <1>2, <1>4
<1>6. CASE N8nNode!LastPage(page)
  <2>1. PICK last \in Nat : last = MaxPages * PageSize /\ b + p <= last /\ (page = MaxPages => last = b + p)
    <3>1. PageSize \in Nat /\ page \in Nat /\ page <= MaxPages
      BY <1>1 DEF N8nNode!NodeAssumption
    <3>2. \A i, j, k \in Nat : i <= j => j * k \in Nat /\ i * k <= j * k
      OBVIOUS
    <3>3. MaxPages * PageSize \in Nat /\ page * PageSize <= MaxPages * PageSize
      BY <1>1, <3>1, <3>2
    <3>. QED BY <1>2, <1>3, <3>3
  <2>2. q \in Seq(1..stored) /\ N8nNodeComplete(q, last) /\ N8nNodeSingle(q, last)
    <3>1. to <= last /\ (to < Len(rows) => last = to /\ N8nNodeBehind <= to)
      BY <1>2, <1>3, <1>6, <2>1
    <3>. QED BY <1>1, <1>2, <1>5, <3>1, N8nNodePasses
  <2>3. N8nNode!ItemEnds("rows", q)
    BY <1>4, <1>6 DEF N8nNode!WalkPage
  <2> DEFINE e == N8nNode!Entry("rows", q)
  <2>4. e \in N8nNodePaired /\ e.rows = q
    <3>1. 1..stored \subseteq Nat /\ q \in Seq(Nat)
      BY <1>1, <2>2 DEF N8nNodeListed
    <3>. QED BY <1>1, <3>1 DEF N8nNode!Entry, N8nNodePaired, N8nNodeKinds, N8nNodeListed
  <2>5. /\ output' = Append(output, e) /\ handled' = handled + 1 /\ page' = 0 /\ collected' = <<>>
        /\ UNCHANGED <<items, rows, before, gone, stored, stopped>>
    BY <2>3 DEF N8nNode!ItemEnds
  <2>. HIDE DEF e
  <2>6. N8nNodeListed' /\ output'[Len(output')] = e
    BY <1>1, <2>4, <2>5, N8nNodeCloses
  <2>7. output'[Len(output')].rows = q
    BY <2>4, <2>5, <2>6
  <2>8. N8nNodeComplete(q, last)' /\ N8nNodeSingle(q, last)'
    BY <2>2, <2>5 DEF N8nNodeComplete, N8nNodeSingle
  <2>9. N8nNodeLast'
    BY <2>1, <2>5, <2>7, <2>8 DEF N8nNodeLast, N8nNodeComplete, N8nNodeSingle
  <2>10. ~(page' > 0)
    BY <2>5
  <2>. QED BY <2>6, <2>9, <2>10 DEF N8nNodeInv
<1>7. CASE ~N8nNode!LastPage(page)
  <2>1. /\ collected' = q /\ page' = page + 1
        /\ UNCHANGED <<items, rows, handled, before, gone, stored, output, stopped>>
    BY <1>4, <1>7 DEF N8nNode!WalkPage
  <2>2. page + 1 \in 0..MaxPages
    BY <1>1, <1>7 DEF N8nNode!LastPage
  <2>3. N8nNodeBehind' = b + p
    <3>1. page' - 1 = page
      BY <1>1, <2>1
    <3>2. N8nNodeBehind' = (page' - 1) * PageSize
      BY DEF N8nNodeBehind
    <3>. QED BY <1>2, <1>3, <3>1, <3>2
  <2>4. b + p \in Nat /\ to <= b + p /\ (to < n => b + p = to /\ b <= to)
    BY <1>2, <1>3
  <2>5. q \in Seq(1..stored) /\ N8nNodeComplete(q, b + p) /\ N8nNodeSingle(q, b + p)
    BY <1>1, <1>2, <1>3, <1>5, <2>4, N8nNodePasses
  <2>6. N8nNodeListed'
    BY <1>1, <2>1, <2>2, <2>5 DEF N8nNodeListed
  <2>7. N8nNodeComplete(collected, N8nNodeBehind)' /\ N8nNodeSingle(collected, N8nNodeBehind)'
    BY <2>1, <2>3, <2>5 DEF N8nNodeComplete, N8nNodeSingle
  <2>8. page' > 0
    BY <1>1, <2>1
  <2>. QED BY <2>6, <2>7, <2>8 DEF N8nNodeInv, N8nNodeWalked
<1>. QED BY <1>6, <1>7

LEMMA N8nNodeAdds ==
  ASSUME N8nNode!NodeAssumption, N8nNodeInv, N8nNode!OthersAdd PROVE N8nNodeInv'
<1>1. /\ N8nNodeListed /\ page > 0 /\ N8nNodeComplete(collected, N8nNodeBehind)
      /\ stored < MaxRows /\ stored' = stored + 1 /\ rows' = <<stored'>> \o rows
      /\ UNCHANGED <<items, handled, page, collected, before, gone, output, stopped>>
  BY DEF N8nNode!OthersAdd, N8nNodeInv
<1>2. PICK n \in Nat, b \in Nat : n = Len(rows) /\ b = N8nNodeBehind
  BY <1>1, N8nNodePageEnds DEF N8nNodeListed
<1>3. /\ rows \in Seq(1..stored) /\ stored \in Nat /\ MaxRows \in Nat
      /\ collected \in Seq(1..stored) /\ before \subseteq 1..stored
      /\ 1..stored \subseteq 1..(stored + 1) /\ n <= stored
      /\ stored + 1 \notin 1..stored
  BY <1>1, <1>2 DEF N8nNodeListed, N8nNode!NodeAssumption
<1>4. PICK x \in 1..(stored + 1) : x = stored + 1
  BY <1>3
<1>5. rows' = <<x>> \o rows
  BY <1>1, <1>4
<1>6. rows \in Seq(1..(stored + 1)) /\ collected \in Seq(1..(stored + 1))
  BY <1>3
<1>7. /\ rows' \in Seq(1..(stored + 1)) /\ Len(rows') = n + 1 /\ rows'[1] = x
      /\ \A i \in 1..n : rows'[i + 1] = rows[i]
  <2>1. \A T : \A t \in T : \A q \in Seq(T) :
          /\ <<t>> \o q \in Seq(T) /\ Len(<<t>> \o q) = Len(q) + 1 /\ (<<t>> \o q)[1] = t
          /\ \A i \in 1..Len(q) : (<<t>> \o q)[i + 1] = q[i]
    OBVIOUS
  <2>. QED BY <1>2, <1>5, <1>6, <2>1
<1>8. \A i \in 1..(n + 1) : i = 1 \/ (i - 1 \in 1..n /\ rows'[i] = rows[i - 1])
  <2>1. \A i \in 1..(n + 1) : i = 1 \/ (i - 1 \in 1..n /\ (i - 1) + 1 = i)
    OBVIOUS
  <2>. QED BY <1>7, <2>1
<1>9. \A i, j \in 1..(n + 1) : rows'[i] = rows'[j] => i = j
  <2>. SUFFICES ASSUME NEW i \in 1..(n + 1), NEW j \in 1..(n + 1), rows'[i] = rows'[j]
                PROVE  i = j
    OBVIOUS
  <2>1. \A k \in 1..n : rows[k] \in 1..stored /\ rows[k] # x
    BY <1>2, <1>3, <1>4
  <2>2. CASE i = 1 \/ j = 1
    BY <1>7, <1>8, <2>1, <2>2
  <2>3. CASE i # 1 /\ j # 1
    <3>1. i - 1 = j - 1
      BY <1>1, <1>2, <1>8, <2>3 DEF N8nNodeListed
    <3>. QED BY <3>1
  <2>. QED BY <2>2, <2>3
<1>10. N8nNodeListed'
  BY <1>1, <1>3, <1>6, <1>7, <1>9 DEF N8nNodeListed
<1>11. N8nNodeBehind' = b
  BY <1>1, <1>2 DEF N8nNodeBehind
<1>12. N8nNodeComplete(collected, N8nNodeBehind)'
  <2>. SUFFICES ASSUME gone = {}, NEW m \in before
                PROVE  \/ \E i \in 1..Len(collected) : collected[i] = m
                       \/ \E j \in (b + 1)..(n + 1) : rows'[j] = m
    BY <1>1, <1>7, <1>11 DEF N8nNodeComplete
  <2>1. CASE \E j \in (b + 1)..n : rows[j] = m
    <3>1. PICK j \in (b + 1)..n : rows[j] = m
      BY <2>1
    <3>2. j \in 1..n /\ j + 1 \in (b + 1)..(n + 1)
      BY <3>1
    <3>. QED BY <1>7, <3>1, <3>2
  <2>. QED BY <1>1, <1>2, <2>1 DEF N8nNodeComplete
<1>13. N8nNodeSingle(collected, N8nNodeBehind)'
  <2>1. x \in N8nNode!Range(rows')
    <3>1. 1 \in DOMAIN rows'
      BY <1>7
    <3>. QED BY <1>7, <3>1 DEF N8nNode!Range
  <2>2. ~((N8nNode!Range(rows) \cup gone)' \subseteq before')
    BY <1>1, <1>3, <1>4, <2>1
  <2>. QED BY <2>2 DEF N8nNodeSingle
<1>14. page' > 0
  BY <1>1
<1>. QED BY <1>10, <1>12, <1>13, <1>14 DEF N8nNodeInv, N8nNodeWalked

\* A memory that is deleted lets those behind it move up.
LEMMA N8nNodeDeletes ==
  ASSUME NEW T, NEW q \in Seq(T), NEW p \in 1..Len(q),
         \A i, j \in 1..Len(q) : q[i] = q[j] => i = j
  PROVE  /\ N8nNode!Without(q, q[p]) \in Seq(T) /\ Len(N8nNode!Without(q, q[p])) = Len(q) - 1
         /\ \A i \in 1..(Len(q) - 1) : N8nNode!Without(q, q[p])[i] = IF i < p THEN q[i] ELSE q[i + 1]
<1>1. N8nNode!Place(q, q[p]) = p
  BY DEF N8nNode!Place
<1>2. Len(q) \in Nat /\ p <= Len(q) /\ Len(q) - 1 \in Nat
  OBVIOUS
<1>3. N8nNode!Without(q, q[p]) = [i \in 1..(Len(q) - 1) |-> IF i < p THEN q[i] ELSE q[i + 1]]
  BY <1>1, <1>2 DEF N8nNode!Without
<1>. QED BY <1>2, <1>3

LEMMA N8nNodeRemoves ==
  ASSUME N8nNode!NodeAssumption, N8nNodeInv, NEW m \in N8nNode!Range(rows), N8nNode!OthersDelete(m) PROVE N8nNodeInv'
<1>1. /\ N8nNodeListed /\ page > 0 /\ N8nNodeSingle(collected, N8nNodeBehind)
      /\ rows' = N8nNode!Without(rows, m) /\ gone' = gone \cup {m}
      /\ UNCHANGED <<items, handled, page, collected, before, stored, output, stopped>>
  BY DEF N8nNode!OthersDelete, N8nNodeInv
<1>2. PICK n \in Nat, b \in Nat : n = Len(rows) /\ b = N8nNodeBehind
  BY <1>1, N8nNodePageEnds DEF N8nNodeListed
<1>3. /\ rows \in Seq(1..stored) /\ stored \in Nat /\ n <= stored
      /\ \A i, j \in 1..Len(rows) : rows[i] = rows[j] => i = j
  BY <1>1, <1>2 DEF N8nNodeListed
<1>4. PICK p \in 1..Len(rows) : rows[p] = m
  BY <1>3 DEF N8nNode!Range
<1>5. /\ rows' \in Seq(1..stored) /\ Len(rows') = n - 1
      /\ \A i \in 1..(n - 1) : rows'[i] = IF i < p THEN rows[i] ELSE rows[i + 1]
  <2>1. LET q == N8nNode!Without(rows, rows[p]) IN
        /\ q \in Seq(1..stored) /\ Len(q) = Len(rows) - 1
        /\ \A i \in 1..(Len(rows) - 1) : q[i] = IF i < p THEN rows[i] ELSE rows[i + 1]
    BY <1>3, <1>4, N8nNodeDeletes
  <2>. QED BY <1>1, <1>2, <1>4, <2>1
<1>6. ASSUME NEW i \in 1..(n - 1)
      PROVE  \E k \in 1..n : rows'[i] = rows[k] /\ k = IF i < p THEN i ELSE i + 1
  BY <1>5
<1>7. \A i, j \in 1..(n - 1) : rows'[i] = rows'[j] => i = j
  <2>. SUFFICES ASSUME NEW i \in 1..(n - 1), NEW j \in 1..(n - 1), rows'[i] = rows'[j]
                PROVE  i = j
    OBVIOUS
  <2>1. PICK k \in 1..n : rows'[i] = rows[k] /\ k = IF i < p THEN i ELSE i + 1
    BY <1>6
  <2>2. PICK l \in 1..n : rows'[j] = rows[l] /\ l = IF j < p THEN j ELSE j + 1
    BY <1>6
  <2>3. k = l
    BY <1>2, <1>3, <2>1, <2>2
  <2>. QED BY <1>2, <1>4, <2>1, <2>2, <2>3
<1>8. N8nNodeListed'
  BY <1>1, <1>2, <1>3, <1>5, <1>7 DEF N8nNodeListed
<1>9. N8nNodeBehind' = b
  BY <1>1, <1>2 DEF N8nNodeBehind
<1>10. N8nNodeComplete(collected, N8nNodeBehind)'
  BY <1>1 DEF N8nNodeComplete
<1>11. N8nNodeSingle(collected, N8nNodeBehind)'
  <2>. SUFFICES ASSUME N8nNode!Range(rows') \cup gone' \subseteq before
                PROVE  /\ \A i, j \in 1..Len(collected) : collected[i] = collected[j] => i = j
                       /\ \A i \in 1..Len(collected) : \A j \in (b + 1)..(n - 1) :
                            collected[i] # rows'[j]
    BY <1>1, <1>5, <1>9 DEF N8nNodeSingle
  <2>1. N8nNode!Range(rows) \subseteq N8nNode!Range(rows') \cup {m}
    <3>. SUFFICES ASSUME NEW k \in 1..n, k # p PROVE rows[k] \in N8nNode!Range(rows')
      BY <1>2, <1>3, <1>4 DEF N8nNode!Range
    <3>1. PICK i \in 1..(n - 1) : rows'[i] = rows[k]
      <4>1. CASE k < p
        <5>1. k \in 1..(n - 1)
          BY <1>2, <1>4, <4>1
        <5>. QED BY <1>5, <4>1, <5>1
      <4>2. CASE ~(k < p)
        <5>1. k - 1 \in 1..(n - 1) /\ ~(k - 1 < p) /\ (k - 1) + 1 = k
          BY <1>2, <1>4, <4>2
        <5>. QED BY <1>5, <5>1
      <4>. QED BY <4>1, <4>2
    <3>2. i \in DOMAIN rows'
      BY <1>5
    <3>. QED BY <3>1, <3>2 DEF N8nNode!Range
  <2>2. /\ \A i, j \in 1..Len(collected) : collected[i] = collected[j] => i = j
        /\ \A i \in 1..Len(collected) : \A j \in (b + 1)..n : collected[i] # rows[j]
    BY <1>1, <1>2, <2>1 DEF N8nNodeSingle
  <2>3. ASSUME NEW i \in 1..Len(collected), NEW j \in (b + 1)..(n - 1)
        PROVE  collected[i] # rows'[j]
    <3>1. j \in 1..(n - 1) /\ j \in (b + 1)..n /\ j + 1 \in (b + 1)..n
      OBVIOUS
    <3>. QED BY <1>5, <2>2, <3>1
  <2>. QED BY <2>2, <2>3
<1>12. page' > 0
  BY <1>1
<1>. QED BY <1>8, <1>10, <1>11, <1>12 DEF N8nNodeInv, N8nNodeWalked

LEMMA N8nNodeKeeps ==
  ASSUME N8nNode!NodeAssumption, N8nNodeInv, [N8nNode!Next]_nodeVars PROVE N8nNodeInv'
<1>1. CASE N8nNode!Refuse
  BY <1>1, N8nNodeFails DEF N8nNode!Refuse
<1>2. CASE N8nNode!Request
  <2>1. CASE N8nNode!ItemFails
    BY <1>2, <2>1, N8nNodeFails DEF N8nNode!Request
  <2>2. CASE N8nNode!ItemEnds("result", <<>>)
    <3> DEFINE e == N8nNode!Entry("result", <<>>)
    <3>1. N8nNodeListed /\ handled < Len(items)
      BY <1>2 DEF N8nNodeInv, N8nNode!Request, N8nNode!Busy
    <3>2. e \in N8nNodePaired /\ e.kind = "result"
      BY <3>1 DEF N8nNode!Entry, N8nNodePaired, N8nNodeKinds, N8nNodeListed
    <3>3. /\ output' = Append(output, e) /\ handled' = handled + 1 /\ page' = 0
          /\ collected' = <<>> /\ UNCHANGED <<items, rows, before, stored, stopped>>
      BY <2>2 DEF N8nNode!ItemEnds
    <3>. HIDE DEF e
    <3>4. N8nNodeListed' /\ output'[Len(output')] = e
      BY <3>1, <3>2, <3>3, N8nNodeCloses
    <3>5. ~N8nNodeWalked'
      BY <3>2, <3>4 DEF N8nNodeWalked
    <3>. QED BY <3>3, <3>4, <3>5 DEF N8nNodeInv
  <2>. QED BY <1>2, <2>1, <2>2 DEF N8nNode!Request
<1>3. CASE N8nNode!StartWalk
  <2>1. /\ N8nNodeListed /\ page = 0 /\ collected = <<>> /\ page' = 1 /\ before' = N8nNode!Range(rows)
        /\ gone' = {} /\ handled < Len(items) /\ ~stopped /\ MaxPages \in Nat \ {0}
        /\ UNCHANGED <<items, rows, handled, collected, stored, output, stopped>>
    BY <1>3 DEF N8nNode!StartWalk, N8nNode!Busy, N8nNodeInv, N8nNodeListed,
       N8nNode!NodeAssumption
  <2>2. N8nNode!Range(rows) \subseteq 1..stored /\ rows \in Seq(1..stored) /\ Len(rows) \in Nat
    BY <2>1 DEF N8nNodeListed, N8nNode!Range
  <2>3. N8nNodeListed'
    BY <2>1, <2>2 DEF N8nNodeListed
  <2>4. N8nNodeBehind' = 0
    <3>1. \A k \in Nat : (1 - 1) * k = 0
      OBVIOUS
    <3>. QED BY <2>1, <3>1 DEF N8nNodeBehind, N8nNode!NodeAssumption
  <2>5. N8nNodeComplete(collected, N8nNodeBehind)'
    <3>1. ASSUME NEW m \in N8nNode!Range(rows) PROVE \E j \in 1..Len(rows) : rows[j] = m
      BY <2>2 DEF N8nNode!Range
    <3>2. 0 + 1 = 1
      OBVIOUS
    <3>. QED BY <2>1, <2>4, <3>1, <3>2 DEF N8nNodeComplete
  <2>6. N8nNodeSingle(collected, N8nNodeBehind)'
    <3>1. Len(<<>>) = 0 /\ \A i \in 1..0 : FALSE
      OBVIOUS
    <3>. QED BY <2>1, <3>1 DEF N8nNodeSingle
  <2>. QED BY <2>1, <2>3, <2>5, <2>6 DEF N8nNodeInv, N8nNodeWalked
<1>4. CASE N8nNode!WalkPage
  BY <1>4, N8nNodePages
<1>5. CASE N8nNode!WalkFails
  BY <1>5, N8nNodeFails DEF N8nNode!WalkFails
<1>6. CASE N8nNode!OthersAdd
  BY <1>6, N8nNodeAdds
<1>7. ASSUME NEW m \in N8nNode!Range(rows), N8nNode!OthersDelete(m) PROVE N8nNodeInv'
  BY <1>7, N8nNodeRemoves
<1>8. CASE UNCHANGED nodeVars
  <2>. USE <1>8 DEF nodeVars
  <2>1. N8nNodeListed' /\ N8nNodeWalked' = N8nNodeWalked
    BY DEF N8nNodeInv, N8nNodeListed, N8nNodeWalked
  <2>2. /\ N8nNodeBehind' = N8nNodeBehind
        /\ \A q, k : N8nNodeComplete(q, k)' = N8nNodeComplete(q, k) /\ N8nNodeSingle(q, k)' = N8nNodeSingle(q, k)
    BY DEF N8nNodeBehind, N8nNodeComplete, N8nNodeSingle
  <2>3. N8nNodeLast' = N8nNodeLast
    BY DEF N8nNodeLast, N8nNodeComplete, N8nNodeSingle
  <2>. QED BY <2>1, <2>2, <2>3 DEF N8nNodeInv, N8nNodeComplete, N8nNodeSingle, N8nNodeBehind,
         N8nNodeWalked
<1>. QED BY <1>1, <1>2, <1>3, <1>4, <1>5, <1>6, <1>7, <1>8 DEF N8nNode!Next

\* The rows from one number to another.
N8nNodeWindow(s, q, from, to, T) ==
  /\ s \in Seq(T) /\ Len(s) = to - from /\ DOMAIN s = 1..(to - from)
  /\ \A i \in 1..(to - from) : s[i] = q[from + i]
LEMMA N8nNodeWindows ==
  ASSUME NEW T, NEW q \in Seq(T), NEW from \in Nat, NEW to \in Nat, from < to, to <= Len(q),
         NEW s, s = SubSeq(q, from + 1, to)
  PROVE  N8nNodeWindow(s, q, from, to, T)
<1>1. s \in Seq(T) /\ Len(s) = to - from /\ \A i \in 1..(to - from) : s[i] = q[from + i]
  OBVIOUS
<1>2. DOMAIN s = 1..Len(s)
  BY <1>1
<1>. QED BY <1>1, <1>2 DEF N8nNodeWindow

\* Numbers of memories are numbers.
LEMMA N8nNodeNumbers == ASSUME NEW n, NEW q \in Seq(1..n) PROVE q \in Seq(Nat)
<1>1. PICK S : S = 1..n
  OBVIOUS
<1>2. q \in Seq(S) /\ S \subseteq Nat
  BY <1>1
<1>3. PICK k \in Nat : k = Len(q)
  BY <1>2
<1>4. q \in [1..k -> S]
  BY <1>2, <1>3
<1>5. q \in [1..k -> Nat]
  BY <1>2, <1>4
<1>. QED BY <1>5

\* What is complete and single holds what was there, and nothing twice.
LEMMA N8nNodeShows ==
  ASSUME N8nNodeListed, NEW got \in Seq(Nat), NEW past \in Nat,
         N8nNodeComplete(got, past), N8nNodeSingle(got, past),
         NEW ahead, ahead = SubSeq(rows, past + 1, Len(rows))
  PROVE  /\ gone = {} => before \subseteq N8nNode!Range(got) \cup N8nNode!Range(ahead)
         /\ N8nNode!Range(rows) \cup gone \subseteq before => N8nNode!IsInjective(got \o ahead)
<1>1. /\ rows \in Seq(1..stored) /\ Len(rows) \in Nat /\ Len(got) \in Nat
      /\ \A i, j \in 1..Len(rows) : rows[i] = rows[j] => i = j
  BY DEF N8nNodeListed
<1>2. PICK n \in Nat, k \in Nat : n = Len(rows) /\ k = Len(got)
  BY <1>1
<1>3. ASSUME gone = {}, NEW m \in before PROVE m \in N8nNode!Range(got) \cup N8nNode!Range(ahead)
  <2>1. CASE \E i \in 1..Len(got) : got[i] = m
    BY <2>1 DEF N8nNode!Range
  <2>2. CASE \E j \in (past + 1)..n : rows[j] = m
    <3>1. PICK j \in (past + 1)..n : rows[j] = m
      BY <2>2
    <3>2. N8nNodeWindow(ahead, rows, past, n, 1..stored)
      <4>1. past < n /\ n <= Len(rows)
        BY <1>2, <3>1
      <4>. QED BY <1>1, <1>2, <4>1, N8nNodeWindows
    <3>3. j - past \in 1..(n - past) /\ past + (j - past) = j
      OBVIOUS
    <3>. QED BY <3>1, <3>2, <3>3 DEF N8nNode!Range, N8nNodeWindow
  <2>. QED BY <1>2, <1>3, <2>1, <2>2 DEF N8nNodeComplete
<1>4. ASSUME N8nNode!Range(rows) \cup gone \subseteq before PROVE N8nNode!IsInjective(got \o ahead)
  <2>1. PICK q : q = got \o ahead
    OBVIOUS
  <2>2. rows \in Seq(Nat)
    BY <1>1, N8nNodeNumbers
  <2>3. N8nNodeJoined(q, got, rows, past, n, Nat)
    <3>1. n <= Len(rows) /\ q = got \o SubSeq(rows, past + 1, n)
      BY <1>2, <2>1
    <3>. QED BY <2>2, <3>1, N8nNodeJoins
  <2>4. /\ \A i, j \in 1..k : got[i] = got[j] => i = j
        /\ \A i \in 1..k : \A j \in (past + 1)..n : got[i] # rows[j]
    BY <1>2, <1>4 DEF N8nNodeSingle
  <2>5. ASSUME NEW i \in 1..Len(q), NEW j \in 1..Len(q), q[i] = q[j] PROVE i = j
    <3>1. CASE n <= past
      BY <1>2, <2>3, <2>4, <2>5, <3>1 DEF N8nNodeJoined
    <3>2. CASE past < n
      <4>1. /\ Len(q) = k + n - past
            /\ \A l \in 1..Len(q) : q[l] = IF l <= k THEN got[l] ELSE rows[past + l - k]
        BY <1>2, <2>3, <3>2 DEF N8nNodeJoined
      <4>2. ASSUME NEW l \in 1..Len(q), ~(l <= k)
            PROVE  past + l - k \in (past + 1)..n /\ past + l - k \in 1..n /\ q[l] = rows[past + l - k]
        BY <3>2, <4>1, <4>2
      <4>3. CASE ~(i <= k) /\ ~(j <= k)
        <5>1. past + i - k = past + j - k
          BY <1>1, <1>2, <2>5, <4>2, <4>3
        <5>. QED BY <5>1
      <4>4. CASE i <= k /\ j <= k
        BY <2>4, <2>5, <4>1, <4>4
      <4>5. CASE (i <= k) # (j <= k)
        BY <2>4, <2>5, <4>1, <4>2, <4>5
      <4>. QED BY <4>3, <4>4, <4>5
    <3>. QED BY <3>1, <3>2
  <2>6. DOMAIN q = 1..Len(q)
    BY <1>2, <2>3 DEF N8nNodeJoined
  <2>. QED BY <2>1, <2>5, <2>6 DEF N8nNode!IsInjective
<1>. QED BY <1>3, <1>4

LEMMA N8nNodeImplies ==
  ASSUME N8nNode!NodeAssumption, N8nNodeInv PROVE N8nNode!WalkMissesNothing
<1>. N8nNodeListed
  BY DEF N8nNodeInv
<1>1. CASE page > 0
  <2>1. N8nNodeBehind \in Nat /\ N8nNodeComplete(collected, N8nNodeBehind) /\ N8nNodeSingle(collected, N8nNodeBehind)
    BY <1>1, N8nNodePageEnds DEF N8nNodeInv
  <2>2. collected \in Seq(Nat)
    BY N8nNodeNumbers DEF N8nNodeListed
  <2>3. PICK ahead : ahead = SubSeq(rows, N8nNodeBehind + 1, Len(rows))
    OBVIOUS
  <2>4. /\ gone = {} => before \subseteq N8nNode!Range(collected) \cup N8nNode!Range(ahead)
        /\ N8nNode!Range(rows) \cup gone \subseteq before => N8nNode!IsInjective(collected \o ahead)
    BY <2>1, <2>2, <2>3, N8nNodeShows
  <2>5. ~(page = 0)
    BY <1>1
  <2>. QED BY <2>3, <2>4, <2>5 DEF N8nNodeBehind, N8nNode!WalkMissesNothing
<1>2. CASE N8nNodeWalked
  <2>1. PICK got : got = output[Len(output)].rows
    OBVIOUS
  <2>2. N8nNodeComplete(got, MaxPages * PageSize) /\ N8nNodeSingle(got, MaxPages * PageSize)
    BY <1>2, <2>1 DEF N8nNodeInv, N8nNodeLast
  <2>3. got \in Seq(Nat)
    <3>1. output \in Seq(N8nNodePaired) /\ output # <<>>
      BY <1>2 DEF N8nNodeWalked, N8nNodeListed
    <3>2. output[Len(output)] \in N8nNodePaired
      BY <3>1
    <3>3. \A e \in N8nNodePaired : e.rows \in Seq(Nat)
      BY DEF N8nNodePaired
    <3>. QED BY <2>1, <3>2, <3>3
  <2>4. MaxPages * PageSize \in Nat
    <3>1. \A i, j \in Nat : i * j \in Nat
      OBVIOUS
    <3>. QED BY <3>1 DEF N8nNode!NodeAssumption
  <2>5. PICK ahead : ahead = SubSeq(rows, (MaxPages * PageSize) + 1, Len(rows))
    OBVIOUS
  <2>6. /\ gone = {} => before \subseteq N8nNode!Range(got) \cup N8nNode!Range(ahead)
        /\ N8nNode!Range(rows) \cup gone \subseteq before => N8nNode!IsInjective(got \o ahead)
    BY <2>2, <2>3, <2>4, <2>5, N8nNodeShows
  <2>. QED BY <1>2, <2>1, <2>5, <2>6 DEF N8nNodeWalked, N8nNode!WalkMissesNothing
<1>. QED BY <1>1, <1>2 DEF N8nNodeWalked, N8nNode!WalkMissesNothing

LEMMA N8nNodeTypes ==
  ASSUME N8nNode!NodeAssumption, N8nNodeInv PROVE N8nNode!TypeOK
<1>1. /\ rows \in Seq(1..stored) /\ DOMAIN rows = 1..Len(rows)
      /\ \A i, j \in 1..Len(rows) : rows[i] = rows[j] => i = j
  BY DEF N8nNodeInv, N8nNodeListed
<1>2. \A i \in 1..Len(rows) : rows[i] \in 1..stored
  <2>1. PICK S : S = 1..stored
    OBVIOUS
  <2>2. rows \in Seq(S)
    BY <1>1, <2>1
  <2>3. \A i \in 1..Len(rows) : rows[i] \in S
    BY <2>2
  <2>. QED BY <2>1, <2>3
<1>3. N8nNode!IsInjective(rows)
  BY <1>1 DEF N8nNode!IsInjective
<1>4. N8nNode!Range(rows) \subseteq 1..stored
  BY <1>1, <1>2 DEF N8nNode!Range
<1>. QED BY <1>3, <1>4 DEF N8nNodeInv, N8nNodeListed, N8nNode!TypeOK

\* A behaviour of the whole that is this part's is a behaviour of this part.
LEMMA N8nNodeBegins ==
  ASSUME Init, part = "N8nNode" PROVE N8nNode!Init
BY DEF Init

LEMMA N8nNodeGoes ==
  ASSUME [Next]_<<part, recallGroup, persistGroup, userGroup, callGroup>>, part = "N8nNode"
  PROVE  part' = "N8nNode" /\ [N8nNode!Next]_nodeVars
<1>1. CASE Next
  BY <1>1 DEF Next, RecallNext, PersistNext, UserNext, CallNext, callGroup
<1>2. CASE UNCHANGED <<part, recallGroup, persistGroup, userGroup, callGroup>>
  BY <1>2 DEF callGroup
<1>. QED BY <1>1, <1>2

------------------------------------------------------------------------------
\* The turns the Claude hooks hand over.

\* The orders of the part are those of the library.
LEMMA ClaudeCaptureLru ==
  /\ \A f : ClaudeCapture!Range(f) = Range(f)
  /\ \A q, s, S : ClaudeCapture!IsRest(q, s, S) <=> IsRest(q, s, S)
  /\ \A order, S, cap : ClaudeCapture!IsOrder(order, S, cap) <=> IsOrder(order, S, cap)
  /\ \A order, x : ClaudeCapture!Touch(order, x) = Touch(order, x)
  /\ \A order, x : ClaudeCapture!Without(order, x) = Without(order, x)
  /\ \A order, cap : ClaudeCapture!Newest(order, cap) = Newest(order, cap)
  /\ \A order, cap : ClaudeCapture!Oldest(order, cap) = Oldest(order, cap)
<1>1. \A f : ClaudeCapture!Range(f) = Range(f)
  BY DEF ClaudeCapture!Range, Range
<1>2. /\ \A order, S, cap : ClaudeCapture!IsOrder(order, S, cap) <=> IsOrder(order, S, cap)
      /\ \A q, s, S : ClaudeCapture!IsRest(q, s, S) <=> IsRest(q, s, S)
  BY <1>1 DEF ClaudeCapture!IsOrder, IsOrder, ClaudeCapture!IsRest, IsRest
<1>3. /\ \A order, x : ClaudeCapture!Touch(order, x) = Touch(order, x)
      /\ \A order, x : ClaudeCapture!Without(order, x) = Without(order, x)
  BY DEF ClaudeCapture!Touch, Touch, ClaudeCapture!Without, Without, ClaudeCapture!Place, Place
<1>4. \A order, cap : ClaudeCapture!Newest(order, cap) = Newest(order, cap)
  BY DEF ClaudeCapture!Newest, Newest
<1>5. \A order, cap : ClaudeCapture!Oldest(order, cap) = Oldest(order, cap)
  BY <1>1, <1>4 DEF ClaudeCapture!Oldest, Oldest
<1>. QED BY <1>1, <1>2, <1>3, <1>4, <1>5

LEMMA ClaudeCaptureUseFacts ==
  ASSUME NEW S, NEW cap \in Nat \ {0}, NEW order, ClaudeCapture!IsOrder(order, S, cap), NEW x \in S
  PROVE  /\ ClaudeCapture!IsOrder(ClaudeCapture!Newest(ClaudeCapture!Touch(order, x), cap), S, cap)
         /\ x \in ClaudeCapture!Range(ClaudeCapture!Newest(ClaudeCapture!Touch(order, x), cap))
         /\ ClaudeCapture!Oldest(ClaudeCapture!Touch(order, x), cap) \subseteq ClaudeCapture!Range(order) \ {x}
         /\ ClaudeCapture!Range(ClaudeCapture!Newest(ClaudeCapture!Touch(order, x), cap))
              = (ClaudeCapture!Range(order) \cup {x}) \ ClaudeCapture!Oldest(ClaudeCapture!Touch(order, x), cap)
<1>1. IsOrder(order, S, cap)
  BY ClaudeCaptureLru
<1>2. OneUse(Newest(Touch(order, x), cap), Oldest(Touch(order, x), cap), order, x, S, cap)
  BY <1>1, Uses
<1>3. /\ ClaudeCapture!Newest(ClaudeCapture!Touch(order, x), cap) = Newest(Touch(order, x), cap)
      /\ ClaudeCapture!Oldest(ClaudeCapture!Touch(order, x), cap) = Oldest(Touch(order, x), cap)
  BY ClaudeCaptureLru
<1>4. (\A f : ClaudeCapture!Range(f) = Range(f)) /\ \A q : ClaudeCapture!IsOrder(q, S, cap) <=> IsOrder(q, S, cap)
  BY ClaudeCaptureLru
<1>. QED BY <1>2, <1>3, <1>4 DEF OneUse

\* What an author wrote with text is an answer of turn t.
ClaudeCaptureAnswered(s, t) ==
  \E i \in 1..Len(entries[s]) :
    entries[s][i].role = "assistant" /\ entries[s][i].turn = t /\ entries[s][i].text

\* The turn a session is in begins with its prompt, which only entries of that turn
\* follow: of machines, until the answer ends it.
ClaudeCaptureBeginsAt(s, k) ==
  /\ entries[s][k].role = prompts[s][ClaudeCapture!Turn(s)].author
  /\ entries[s][k].turn = ClaudeCapture!Turn(s) /\ entries[s][k].text = prompts[s][ClaudeCapture!Turn(s)].text
  /\ \A i \in 1..(k - 1) : entries[s][i].turn < ClaudeCapture!Turn(s)
  /\ \A i \in (k + 1)..Len(entries[s]) :
       /\ entries[s][i].turn = ClaudeCapture!Turn(s)
       /\ entries[s][i].role = "machine" \/ (claudePhase[s] = "stop" /\ i = Len(entries[s]))
ClaudeCapturePlaced(s) ==
  /\ Len(prompts[s]) <= CaptureTurns[s]
  /\ \A i \in 1..Len(entries[s]) : entries[s][i].turn \in 1..ClaudeCapture!Turn(s)
  /\ lastPrompt[s] # None => lastPrompt[s] \in 1..ClaudeCapture!Turn(s)
  /\ claudePhase[s] \in {"turn", "stop"} =>
       /\ ClaudeCapture!Turn(s) > 0 /\ \E k \in 1..Len(entries[s]) : ClaudeCaptureBeginsAt(s, k)
       /\ prompts[s][ClaudeCapture!Turn(s)].text => lastPrompt[s] \in {None, ClaudeCapture!Turn(s)}
  /\ claudePhase[s] = "stop" => ClaudeCapture!Latest(s).role = "assistant" /\ ClaudeCapture!Latest(s).turn = ClaudeCapture!Turn(s)
ClaudeCaptureTold == \A s \in Conversations : ClaudeCapturePlaced(s)

\* An exchange is of the turn that ended, when that was a person's and had an answer.
ClaudeCaptureFits(s, user, assistant, by) ==
  /\ prompts[s][ClaudeCapture!Turn(s)].author = "human" /\ prompts[s][ClaudeCapture!Turn(s)].text
  /\ ClaudeCaptureAnswered(s, ClaudeCapture!Turn(s))
  => /\ user.turn = ClaudeCapture!Turn(s) /\ assistant = ClaudeCapture!Turn(s)
     /\ by # "sdk" => user.role = "human"
ClaudeCapturePast ==
  claudeCaptured # None =>
    ClaudeCaptureFits(claudeCaptured.session, claudeCaptured.user, claudeCaptured.assistant,
                      claudeCaptured.by)

ClaudeCaptureInv == ClaudeCapture!TypeOK /\ ClaudeCaptureTold /\ ClaudeCapturePast

LEMMA ClaudeCaptureStarts ==
  ASSUME ClaudeCapture!CaptureAssumption, ClaudeCapture!Init PROVE ClaudeCaptureInv
<1>1. /\ \A s \in Conversations : prompts[s] = <<>> /\ entries[s] = <<>> /\ claudePhase[s] = "idle"
                             /\ lastPrompt[s] = None /\ CaptureTurns[s] \in Nat
      /\ claudeCaptured = None /\ promptOrder = <<>> /\ claudeRunning = {} /\ claudePending = {} /\ claudeWaiting = {}
  BY DEF ClaudeCapture!Init, ClaudeCapture!CaptureAssumption
<1>2. ClaudeCapture!IsOrder(promptOrder, Conversations, CaptureSessions) /\ ClaudeCapture!Range(promptOrder) = {}
  BY <1>1 DEF ClaudeCapture!IsOrder, ClaudeCapture!Range, ClaudeCapture!CaptureAssumption
<1>3. /\ prompts \in [Conversations -> Seq(ClaudeCapture!Prompt)] /\ entries \in [Conversations -> Seq(ClaudeCapture!Entry)]
      /\ claudePhase \in [Conversations -> {"idle", "turn", "stop", "persist"}]
      /\ lastPrompt \in [Conversations -> ClaudeCapture!Turns \cup {None}] /\ claudeAwaitPersist \in BOOLEAN
  BY DEF ClaudeCapture!Init
<1>4. ClaudeCapture!TypeOK
  BY <1>1, <1>2, <1>3 DEF ClaudeCapture!TypeOK
<1>5. ClaudeCaptureTold
  BY <1>1 DEF ClaudeCaptureTold, ClaudeCapturePlaced
<1>. QED BY <1>1, <1>4, <1>5 DEF ClaudeCaptureInv, ClaudeCapturePast

LEMMA ClaudeCaptureLatestFound ==
  ASSUME NEW n \in Nat, NEW S \in SUBSET (1..n), S # {}
  PROVE  ClaudeCapture!LatestOf(S) \in S /\ (\A k \in S : k <= ClaudeCapture!LatestOf(S)) /\ ClaudeCapture!LatestOf(S) # 0
<1>1. PICK m \in S : \A k \in S : k <= m
  BY GreatestNumber
<1>2. \A k \in S : m >= k
  BY <1>1
<1>3. ClaudeCapture!LatestOf(S) \in S /\ \A k \in S : k <= ClaudeCapture!LatestOf(S)
  BY <1>2 DEF ClaudeCapture!LatestOf, ClaudeCapture!Max
<1>4. ClaudeCapture!LatestOf(S) \in 1..n
  BY <1>3
<1>. QED BY <1>3, <1>4

\* The pair is made of what somebody and the agent wrote, and is the turn itself when
\* that has both.
LEMMA ClaudeCapturePairFits ==
  ASSUME ClaudeCapture!CaptureAssumption, ClaudeCapture!TypeOK, ClaudeCaptureTold, NEW s \in Conversations, claudePhase[s] = "stop",
         NEW reader \in {"sdk", "jsonl"}, ClaudeCapture!Pair(s, reader) # <<>>
  PROVE  /\ ClaudeCapture!Pair(s, reader)[1] \in [turn : ClaudeCapture!Turns, role : {"human", "machine"}]
         /\ ClaudeCapture!Pair(s, reader)[2] \in ClaudeCapture!Turns
         /\ ClaudeCaptureFits(s, ClaudeCapture!Pair(s, reader)[1], ClaudeCapture!Pair(s, reader)[2], reader)
<1> DEFINE a == ClaudeCapture!AnswerAt(s)
           human == ClaudeCapture!PromptAt(s, a, ClaudeCapture!HumanTo(reader))
           machine == ClaudeCapture!PromptAt(s, a, {"machine"})
           u == IF human # 0 THEN human ELSE machine
           answers == {i \in 1..Len(entries[s]) : entries[s][i].role = "assistant" /\ entries[s][i].text}
           Said(authors) == {i \in 1..Len(entries[s]) : i < a /\ entries[s][i].role \in authors
                                                        /\ entries[s][i].text}
<1>1. /\ Len(entries[s]) \in Nat /\ entries[s] \in Seq(ClaudeCapture!Entry) /\ ClaudeCapture!Turn(s) \in Nat
      /\ \A i \in 1..Len(entries[s]) : entries[s][i] \in ClaudeCapture!Entry
      /\ ClaudeCapturePlaced(s)
  BY DEF ClaudeCapture!TypeOK, ClaudeCaptureTold, ClaudeCapture!Turn
<1>2. ClaudeCapture!Pair(s, reader) = ClaudeCapture!PairOf(s, u, a)
  BY DEF ClaudeCapture!Pair
<1>3. a = ClaudeCapture!LatestOf(answers) /\ human = ClaudeCapture!LatestOf(Said(ClaudeCapture!HumanTo(reader))) /\ machine = ClaudeCapture!LatestOf(Said({"machine"}))
  BY DEF ClaudeCapture!AnswerAt, ClaudeCapture!PromptAt
<1>4. /\ answers \in SUBSET (1..Len(entries[s]))
      /\ Said(ClaudeCapture!HumanTo(reader)) \in SUBSET (1..Len(entries[s]))
      /\ Said({"machine"}) \in SUBSET (1..Len(entries[s]))
  OBVIOUS
<1>0. \A S \in SUBSET (1..Len(entries[s])) :
        /\ S # {} => /\ ClaudeCapture!LatestOf(S) \in S /\ ClaudeCapture!LatestOf(S) # 0
                     /\ \A k \in S : k <= ClaudeCapture!LatestOf(S)
        /\ ClaudeCapture!LatestOf(S) # 0 => S # {}
  BY <1>1, ClaudeCaptureLatestFound DEF ClaudeCapture!LatestOf
<1>5. /\ a # 0 => a \in answers /\ \A i \in answers : i <= a
      /\ answers # {} => a # 0
  <2>. HIDE DEF answers
  <2>. QED BY <1>0, <1>3, <1>4
<1>6. /\ human # 0 => human \in Said(ClaudeCapture!HumanTo(reader)) /\ \A i \in Said(ClaudeCapture!HumanTo(reader)) : i <= human
      /\ Said(ClaudeCapture!HumanTo(reader)) # {} => human # 0
  <2>. HIDE DEF Said
  <2>. QED BY <1>0, <1>3, <1>4
<1>7. machine # 0 => machine \in Said({"machine"})
  <2>. HIDE DEF Said
  <2>. QED BY <1>0, <1>3, <1>4
<1>8. Said(ClaudeCapture!HumanTo(reader)) # {} => human # 0
  BY <1>6
<1>9. answers # {} => a # 0
  BY <1>5
<1>10. /\ \A i \in answers : i \in 1..Len(entries[s]) /\ entries[s][i].role = "assistant"
                             /\ entries[s][i].text
       /\ \A i \in Said(ClaudeCapture!HumanTo(reader)) :
            /\ i \in 1..Len(entries[s]) /\ i < a
            /\ entries[s][i].role \in ClaudeCapture!HumanTo(reader) /\ entries[s][i].text
       /\ \A i \in Said({"machine"}) : /\ i \in 1..Len(entries[s]) /\ i < a
                                       /\ entries[s][i].role = "machine"
  OBVIOUS
<1>11. /\ \A i \in 1..Len(entries[s]) :
            i < a /\ entries[s][i].role = "human" /\ entries[s][i].text
            => i \in Said(ClaudeCapture!HumanTo(reader))
       /\ \A i \in 1..Len(entries[s]) :
            entries[s][i].role = "assistant" /\ entries[s][i].text => i \in answers
  BY DEF ClaudeCapture!HumanTo
<1>. HIDE DEF a, human, machine, u, answers, Said
<1>12. a # 0 /\ u # 0
  BY <1>2 DEF ClaudeCapture!PairOf
<1>13. /\ ClaudeCapture!Pair(s, reader)[1] = ClaudeCapture!Half(entries[s][u].turn, entries[s][u].role)
       /\ ClaudeCapture!Pair(s, reader)[2] = entries[s][a].turn
  BY <1>2, <1>12 DEF ClaudeCapture!PairOf
<1>14. /\ a \in 1..Len(entries[s]) /\ u \in 1..Len(entries[s])
       /\ entries[s][u].role \in {"human", "machine"}
  BY <1>5, <1>6, <1>7, <1>10, <1>12 DEF u, ClaudeCapture!HumanTo
<1>15. entries[s][u].turn \in ClaudeCapture!Turns /\ entries[s][a].turn \in ClaudeCapture!Turns
  BY <1>1, <1>14 DEF ClaudeCapture!Entry
<1>16. ASSUME prompts[s][ClaudeCapture!Turn(s)].author = "human", prompts[s][ClaudeCapture!Turn(s)].text, ClaudeCaptureAnswered(s, ClaudeCapture!Turn(s))
       PROVE  /\ ClaudeCapture!Pair(s, reader)[1].turn = ClaudeCapture!Turn(s)
              /\ ClaudeCapture!Pair(s, reader)[2] = ClaudeCapture!Turn(s)
              /\ reader # "sdk" => ClaudeCapture!Pair(s, reader)[1].role = "human"
  <2>1. PICK k \in 1..Len(entries[s]) : ClaudeCaptureBeginsAt(s, k)
    BY <1>1 DEF ClaudeCapturePlaced
  <2>2. PICK i \in 1..Len(entries[s]) : /\ entries[s][i].role = "assistant" /\ entries[s][i].turn = ClaudeCapture!Turn(s)
                                        /\ entries[s][i].text
    BY <1>16 DEF ClaudeCaptureAnswered
  <2>3. i = Len(entries[s]) /\ k < i
    <3>1. i >= k
      BY <1>1, <2>1, <2>2 DEF ClaudeCaptureBeginsAt
    <3>2. i # k
      BY <1>16, <2>1, <2>2 DEF ClaudeCaptureBeginsAt
    <3>3. i \in (k + 1)..Len(entries[s])
      BY <1>1, <3>1, <3>2
    <3>. QED BY <1>1, <2>1, <2>2, <3>1, <3>2, <3>3 DEF ClaudeCaptureBeginsAt
  <2>4. a = i
    <3>1. i \in answers
      BY <1>11, <2>2
    <3>. QED BY <1>1, <1>5, <1>12, <1>14, <2>3, <3>1
  <2>5. k \in Said(ClaudeCapture!HumanTo(reader))
    BY <1>11, <1>16, <2>1, <2>3, <2>4 DEF ClaudeCaptureBeginsAt
  <2>6. human # 0 /\ k <= human
    BY <1>6, <1>8, <2>5
  <2>7. /\ human \in 1..Len(entries[s]) /\ entries[s][human].role \in ClaudeCapture!HumanTo(reader)
        /\ u = human
    BY <1>6, <1>10, <2>6 DEF u
  <2>8. entries[s][human].turn = ClaudeCapture!Turn(s)
    <3>1. CASE human = k
      BY <2>1, <3>1 DEF ClaudeCaptureBeginsAt
    <3>2. CASE human # k
      <4>1. human \in (k + 1)..Len(entries[s])
        BY <1>1, <2>6, <2>7, <3>2
      <4>. QED BY <2>1, <4>1 DEF ClaudeCaptureBeginsAt
    <3>. QED BY <3>1, <3>2
  <2>9. reader # "sdk" => entries[s][human].role = "human"
    BY <2>7 DEF ClaudeCapture!HumanTo
  <2>. QED BY <1>13, <2>2, <2>4, <2>7, <2>8, <2>9 DEF ClaudeCapture!Half
<1>. QED BY <1>13, <1>14, <1>15, <1>16 DEF ClaudeCapture!Half, ClaudeCaptureFits

\* So is what the hook was given, while the session's prompt is remembered.
LEMMA ClaudeCaptureExchangeFits ==
  ASSUME ClaudeCapture!CaptureAssumption, ClaudeCapture!TypeOK, ClaudeCaptureTold, NEW s \in Conversations, claudePhase[s] = "stop",
         NEW by \in {"sdk", "jsonl", "hook"}, ClaudeCapture!LastExchange(s, by) # <<>>
  PROVE  /\ ClaudeCapture!LastExchange(s, by)[1] \in [turn : ClaudeCapture!Turns, role : {"human", "machine"}]
         /\ ClaudeCapture!LastExchange(s, by)[2] \in ClaudeCapture!Turns
         /\ ClaudeCaptureFits(s, ClaudeCapture!LastExchange(s, by)[1], ClaudeCapture!LastExchange(s, by)[2], by)
<1>1. /\ Len(entries[s]) \in Nat /\ ClaudeCapture!Turn(s) \in Nat /\ ClaudeCapturePlaced(s) /\ CaptureTurns[s] \in Nat
      /\ prompts[s] \in Seq(ClaudeCapture!Prompt)
  BY DEF ClaudeCapture!TypeOK, ClaudeCaptureTold, ClaudeCapture!Turn,
     ClaudeCapture!CaptureAssumption
<1>2. CASE by # "hook"
  BY <1>2, ClaudeCapturePairFits DEF ClaudeCapture!LastExchange
<1>3. CASE by = "hook"
  <2>0. ClaudeCapture!LastExchange(s, by) = ClaudeCapture!FromHookInput(s)
    BY <1>3 DEF ClaudeCapture!LastExchange
  <2>1. lastPrompt[s] # None /\ ClaudeCapture!FromHookInput(s) # <<>>
    BY <2>0 DEF ClaudeCapture!FromHookInput
  <2>2. ClaudeCapture!FromHookInput(s) = <<ClaudeCapture!Half(lastPrompt[s], prompts[s][lastPrompt[s]].author), ClaudeCapture!Turn(s)>>
    BY <2>1 DEF ClaudeCapture!FromHookInput
  <2>3. lastPrompt[s] \in 1..ClaudeCapture!Turn(s) /\ ClaudeCapture!Turn(s) \in 1..CaptureTurns[s] /\ lastPrompt[s] \in 1..CaptureTurns[s]
    BY <1>1, <2>1 DEF ClaudeCapturePlaced, ClaudeCapture!Turn
  <2>4. prompts[s][lastPrompt[s]] \in ClaudeCapture!Prompt
    BY <1>1, <2>3 DEF ClaudeCapture!Turn
  <2>5. \A t \in 1..CaptureTurns[s] : t \in ClaudeCapture!Turns
    BY DEF ClaudeCapture!Turns
  <2>6. prompts[s][ClaudeCapture!Turn(s)].text => lastPrompt[s] = ClaudeCapture!Turn(s)
    BY <1>1, <2>1 DEF ClaudeCapturePlaced
  <2>. QED BY <2>0, <2>2, <2>3, <2>4, <2>5, <2>6 DEF ClaudeCapture!Half, ClaudeCapture!Prompt,
         ClaudeCaptureFits
<1>. QED BY <1>2, <1>3

\* What does not disturb a session leaves it placed.
LEMMA ClaudeCapturePlacedKept ==
  ASSUME NEW s, ClaudeCapturePlaced(s), prompts'[s] = prompts[s], entries'[s] = entries[s], claudePhase'[s] = claudePhase[s],
         lastPrompt'[s] \in {None, lastPrompt[s]}
  PROVE  ClaudeCapturePlaced(s)'
BY DEF ClaudeCapturePlaced, ClaudeCaptureBeginsAt, ClaudeCapture!Turn, ClaudeCapture!Latest

\* One use of a bounded order.
ClaudeCaptureUsed(after, lost, order, x, S, cap) ==
  /\ ClaudeCapture!IsOrder(after, S, cap) /\ x \in ClaudeCapture!Range(after)
  /\ lost \subseteq ClaudeCapture!Range(order) \ {x}
  /\ ClaudeCapture!Range(after) = (ClaudeCapture!Range(order) \cup {x}) \ lost
LEMMA ClaudeCaptureUses ==
  ASSUME NEW S, NEW cap \in Nat \ {0}, NEW order, ClaudeCapture!IsOrder(order, S, cap), NEW x \in S
  PROVE  ClaudeCaptureUsed(ClaudeCapture!Newest(ClaudeCapture!Touch(order, x), cap),
              ClaudeCapture!Oldest(ClaudeCapture!Touch(order, x), cap), order, x, S, cap)
BY ClaudeCaptureUseFacts DEF ClaudeCaptureUsed

\* A prompt that is remembered, and what it pushes out.
LEMMA ClaudeCaptureRemembers ==
  ASSUME ClaudeCapture!CaptureAssumption, ClaudeCapture!TypeOK, NEW s \in Conversations, NEW turn \in ClaudeCapture!Turns, ClaudeCapture!RememberPrompt(s, turn)
  PROVE  /\ ClaudeCapture!IsOrder(promptOrder', Conversations, CaptureSessions)
         /\ lastPrompt' \in [Conversations -> ClaudeCapture!Turns \cup {None}] /\ lastPrompt'[s] = turn
         /\ \A r \in Conversations \ {s} : lastPrompt'[r] \in {None, lastPrompt[r]}
         /\ \A r \in Conversations : lastPrompt'[r] # None <=> r \in ClaudeCapture!Range(promptOrder')
<1> DEFINE order == ClaudeCapture!Newest(ClaudeCapture!Touch(promptOrder, s), CaptureSessions)
           lost == ClaudeCapture!Oldest(ClaudeCapture!Touch(promptOrder, s), CaptureSessions)
<1>1. /\ ClaudeCapture!IsOrder(order, Conversations, CaptureSessions) /\ s \in ClaudeCapture!Range(order)
      /\ lost \subseteq ClaudeCapture!Range(promptOrder) \ {s}
      /\ ClaudeCapture!Range(order) = (ClaudeCapture!Range(promptOrder) \cup {s}) \ lost
  <2>1. ClaudeCapture!IsOrder(promptOrder, Conversations, CaptureSessions) /\ CaptureSessions \in Nat \ {0}
    BY DEF ClaudeCapture!TypeOK, ClaudeCapture!CaptureAssumption
  <2>2. ClaudeCaptureUsed(order, lost, promptOrder, s, Conversations, CaptureSessions)
    BY <2>1, ClaudeCaptureUses
  <2>. HIDE DEF order, lost
  <2>. QED BY <2>2 DEF ClaudeCaptureUsed
<1>2. /\ promptOrder' = order
      /\ lastPrompt' = [x \in Conversations |-> IF x \in lost THEN None
                                           ELSE IF x = s THEN turn ELSE lastPrompt[x]]
  BY DEF ClaudeCapture!RememberPrompt
<1>. HIDE DEF order, lost
<1>3. /\ lastPrompt \in [Conversations -> ClaudeCapture!Turns \cup {None}] /\ None \notin ClaudeCapture!Turns
      /\ \A r \in Conversations : lastPrompt[r] # None <=> r \in ClaudeCapture!Range(promptOrder)
  BY DEF ClaudeCapture!TypeOK, ClaudeCapture!CaptureAssumption
<1>4. \A r \in Conversations : lastPrompt'[r] # None <=> r \in ClaudeCapture!Range(order)
  BY <1>1, <1>2, <1>3
<1>5. lastPrompt' \in [Conversations -> ClaudeCapture!Turns \cup {None}]
  BY <1>2, <1>3
<1>. QED BY <1>1, <1>2, <1>3, <1>4, <1>5

\* A prompt comes in.
LEMMA ClaudeCaptureSubmitKeeps ==
  ASSUME ClaudeCapture!CaptureAssumption, ClaudeCaptureInv, NEW s \in Conversations, NEW p \in ClaudeCapture!Prompt, ClaudeCapture!OnUserPromptSubmit(s, p)
  PROVE  ClaudeCaptureInv'
<1> DEFINE n == ClaudeCapture!Turn(s)
           e == [role |-> p.author, turn |-> n + 1, text |-> p.text]
<1>1. ClaudeCapture!TypeOK /\ ClaudeCaptureTold /\ ClaudeCapturePast
  BY DEF ClaudeCaptureInv
<1>2. /\ prompts \in [Conversations -> Seq(ClaudeCapture!Prompt)] /\ entries \in [Conversations -> Seq(ClaudeCapture!Entry)]
      /\ claudePhase \in [Conversations -> {"idle", "turn", "stop", "persist"}]
      /\ prompts[s] \in Seq(ClaudeCapture!Prompt) /\ entries[s] \in Seq(ClaudeCapture!Entry) /\ CaptureTurns[s] \in Nat
  BY <1>1 DEF ClaudeCapture!TypeOK, ClaudeCapture!CaptureAssumption
<1>3. /\ claudePhase[s] = "idle" /\ n < CaptureTurns[s] /\ n = Len(prompts[s]) /\ n \in Nat
      /\ prompts' = [prompts EXCEPT ![s] = Append(@, p)]
      /\ claudePhase' = [claudePhase EXCEPT ![s] = "turn"]
      /\ entries' = [entries EXCEPT ![s] = Append(@, e)]
      /\ p.text => ClaudeCapture!RememberPrompt(s, n + 1)
      /\ ~p.text => UNCHANGED <<promptOrder, lastPrompt>>
      /\ claudeCaptured' = None /\ UNCHANGED <<claudeAwaitPersist, claudeRunning, claudePending, claudeWaiting>>
  BY <1>2 DEF ClaudeCapture!OnUserPromptSubmit, ClaudeCapture!Turn, ClaudeCapture!writeVars
<1>4. n + 1 \in ClaudeCapture!Turns /\ e \in ClaudeCapture!Entry /\ e.role = p.author /\ e.turn = n + 1 /\ e.text = p.text
  <2>1. n + 1 \in ClaudeCapture!Turns
    BY <1>2, <1>3 DEF ClaudeCapture!Turns
  <2>. QED BY <2>1 DEF ClaudeCapture!Entry, ClaudeCapture!Prompt
<1>. HIDE DEF n, e
<1>5. /\ prompts' \in [Conversations -> Seq(ClaudeCapture!Prompt)] /\ entries' \in [Conversations -> Seq(ClaudeCapture!Entry)]
      /\ claudePhase' \in [Conversations -> {"idle", "turn", "stop", "persist"}]
      /\ prompts'[s] = Append(prompts[s], p) /\ entries'[s] = Append(entries[s], e)
      /\ claudePhase'[s] = "turn"
      /\ \A r \in Conversations \ {s} : /\ prompts'[r] = prompts[r] /\ entries'[r] = entries[r]
                                         /\ claudePhase'[r] = claudePhase[r]
  BY <1>2, <1>3, <1>4
<1>6. /\ ClaudeCapture!IsOrder(promptOrder', Conversations, CaptureSessions)
      /\ lastPrompt' \in [Conversations -> ClaudeCapture!Turns \cup {None}]
      /\ \A r \in Conversations \ {s} : lastPrompt'[r] \in {None, lastPrompt[r]}
      /\ p.text => lastPrompt'[s] = n + 1
      /\ ~p.text => lastPrompt'[s] = lastPrompt[s]
      /\ \A r \in Conversations : lastPrompt'[r] # None <=> r \in ClaudeCapture!Range(promptOrder')
  <2>1. CASE p.text
    BY <1>1, <1>3, <1>4, <2>1, ClaudeCaptureRemembers
  <2>2. CASE ~p.text
    BY <1>1, <1>3, <2>2 DEF ClaudeCapture!TypeOK
  <2>. QED BY <2>1, <2>2
<1>7. ClaudeCapture!TypeOK'
  BY <1>1, <1>3, <1>5, <1>6 DEF ClaudeCapture!TypeOK
<1>8. /\ ClaudeCapture!Turn(s)' = n + 1 /\ prompts'[s][n + 1] = p /\ \A t \in 1..n : prompts'[s][t] = prompts[s][t]
      /\ Len(entries'[s]) = Len(entries[s]) + 1 /\ Len(entries[s]) \in Nat
      /\ entries'[s][Len(entries[s]) + 1] = e
      /\ \A i \in 1..Len(entries[s]) : entries'[s][i] = entries[s][i] /\ entries[s][i].turn \in 1..n
  <2>1. n = ClaudeCapture!Turn(s)
    BY DEF n
  <2>2. \A i \in 1..Len(entries[s]) : entries[s][i].turn \in 1..n
    BY <1>1, <2>1 DEF ClaudeCaptureTold, ClaudeCapturePlaced
  <2>. QED BY <1>2, <1>3, <1>5, <2>2 DEF ClaudeCapture!Turn
<1>9. ClaudeCapturePlaced(s)'
  <2>1. lastPrompt[s] # None => lastPrompt[s] \in 1..n
    BY <1>1 DEF ClaudeCaptureTold, ClaudeCapturePlaced, n
  <2>2. /\ \A i \in 1..Len(entries'[s]) : entries'[s][i].turn \in 1..(n + 1)
        /\ lastPrompt'[s] # None => lastPrompt'[s] \in 1..(n + 1)
        /\ p.text => lastPrompt'[s] = n + 1
    BY <1>3, <1>4, <1>6, <1>8, <2>1
  <2>3. PICK k \in Nat : k = Len(entries[s]) + 1 /\ k = Len(entries'[s]) /\ k \in 1..Len(entries'[s])
    <3>1. PICK k \in Nat : k = Len(entries[s]) + 1
      BY <1>8
    <3>2. k = Len(entries'[s]) /\ k \in 1..Len(entries'[s])
      BY <1>8, <3>1
    <3>. QED BY <3>1, <3>2
  <2>4. ClaudeCaptureBeginsAt(s, k)'
    <3>1. \A i \in 1..(k - 1) : entries'[s][i].turn < n + 1
      BY <1>3, <1>8, <2>3
    <3>2. entries'[s][k] = e
      BY <1>8, <2>3
    <3>3. \A i \in (k + 1)..Len(entries'[s]) : FALSE
      BY <1>8, <2>3
    <3>. QED BY <1>4, <1>8, <3>1, <3>2, <3>3 DEF ClaudeCaptureBeginsAt
  <2>5. \E i \in 1..Len(entries'[s]) : ClaudeCaptureBeginsAt(s, i)'
    BY <2>3, <2>4
  <2>6. Len(prompts'[s]) = n + 1 /\ n + 1 <= CaptureTurns[s] /\ n + 1 > 0
    BY <1>2, <1>3, <1>8 DEF ClaudeCapture!Turn
  <2>7. prompts'[s][n + 1].text => lastPrompt'[s] \in {None, n + 1}
    BY <1>8, <2>2
  <2>8. claudePhase'[s] # "stop"
    BY <1>5
  <2>. QED BY <1>8, <2>2, <2>5, <2>6, <2>7, <2>8 DEF ClaudeCapturePlaced
<1>10. ClaudeCaptureTold'
  BY <1>1, <1>5, <1>6, <1>9, ClaudeCapturePlacedKept DEF ClaudeCaptureTold
<1>11. ClaudeCapturePast'
  BY <1>3 DEF ClaudeCapturePast
<1>. QED BY <1>7, <1>10, <1>11 DEF ClaudeCaptureInv

\* The entries of a turn that is on grow by what a machine or the agent writes.
LEMMA ClaudeCaptureWritesKeep ==
  ASSUME ClaudeCapture!CaptureAssumption, ClaudeCaptureInv, NEW s \in Conversations, NEW e \in ClaudeCapture!Entry, claudePhase[s] = "turn",
         e.turn = ClaudeCapture!Turn(s), NEW to \in {"turn", "stop"},
         e.role = IF to = "turn" THEN "machine" ELSE "assistant",
         entries' = [entries EXCEPT ![s] = Append(@, e)], claudePhase' = [claudePhase EXCEPT ![s] = to],
         claudeCaptured' = None, UNCHANGED <<claudeAwaitPersist, prompts, promptOrder, lastPrompt, ClaudeCapture!writeVars>>
  PROVE  ClaudeCaptureInv'
<1>1. ClaudeCapture!TypeOK /\ ClaudeCaptureTold /\ ClaudeCapturePast
  BY DEF ClaudeCaptureInv
<1>2. /\ entries \in [Conversations -> Seq(ClaudeCapture!Entry)] /\ entries[s] \in Seq(ClaudeCapture!Entry)
      /\ claudePhase \in [Conversations -> {"idle", "turn", "stop", "persist"}]
      /\ prompts[s] \in Seq(ClaudeCapture!Prompt) /\ ClaudeCapture!Turn(s) \in Nat /\ ClaudeCapturePlaced(s) /\ ClaudeCapture!Turn(s)' = ClaudeCapture!Turn(s)
      /\ prompts' = prompts /\ lastPrompt' = lastPrompt
  BY <1>1 DEF ClaudeCapture!TypeOK, ClaudeCapture!Turn, ClaudeCaptureTold
<1>3. /\ entries' \in [Conversations -> Seq(ClaudeCapture!Entry)] /\ claudePhase' \in [Conversations -> {"idle", "turn", "stop", "persist"}]
      /\ entries'[s] = Append(entries[s], e) /\ claudePhase'[s] = to
      /\ \A r \in Conversations \ {s} : entries'[r] = entries[r] /\ claudePhase'[r] = claudePhase[r]
  BY <1>2
<1>4. PICK m \in Nat : m = Len(entries[s])
  BY <1>2
<1>5. /\ Len(entries'[s]) = m + 1 /\ entries'[s][m + 1] = e
      /\ \A i \in 1..m : entries'[s][i] = entries[s][i]
  BY <1>2, <1>3, <1>4
<1>6. ClaudeCapture!TypeOK'
  BY <1>1, <1>2, <1>3 DEF ClaudeCapture!TypeOK, ClaudeCapture!writeVars
<1>7. ClaudeCapturePlaced(s)'
  <2>1. PICK k \in 1..m : ClaudeCaptureBeginsAt(s, k)
    BY <1>2, <1>4 DEF ClaudeCapturePlaced
  <2>2. ClaudeCaptureBeginsAt(s, k)'
    <3>1. \A i \in (k + 1)..(m + 1) :
            /\ entries'[s][i].turn = ClaudeCapture!Turn(s)
            /\ entries'[s][i].role = "machine" \/ (claudePhase'[s] = "stop" /\ i = m + 1)
      BY <1>3, <1>4, <1>5, <2>1 DEF ClaudeCaptureBeginsAt
    <3>2. \A i \in 1..(k - 1) : entries'[s][i].turn < ClaudeCapture!Turn(s)
      BY <1>5, <2>1 DEF ClaudeCaptureBeginsAt
    <3>3. entries'[s][k] = entries[s][k]
      BY <1>5
    <3>. QED BY <1>2, <1>5, <2>1, <3>1, <3>2, <3>3 DEF ClaudeCaptureBeginsAt
  <2>3. \E i \in 1..Len(entries'[s]) : ClaudeCaptureBeginsAt(s, i)'
    BY <1>4, <1>5, <2>2
  <2>4. \A i \in 1..Len(entries'[s]) : entries'[s][i].turn \in 1..ClaudeCapture!Turn(s)
    BY <1>2, <1>4, <1>5 DEF ClaudeCapturePlaced
  <2>5. claudePhase'[s] = "stop" => ClaudeCapture!Latest(s)'.role = "assistant" /\ ClaudeCapture!Latest(s)'.turn = ClaudeCapture!Turn(s)
    BY <1>3, <1>5 DEF ClaudeCapture!Latest
  <2>. QED BY <1>2, <2>3, <2>4, <2>5 DEF ClaudeCapturePlaced
<1>8. ClaudeCaptureTold'
  BY <1>1, <1>2, <1>3, <1>7, ClaudeCapturePlacedKept DEF ClaudeCaptureTold
<1>9. ClaudeCapturePast'
  BY DEF ClaudeCapturePast
<1>. QED BY <1>6, <1>8, <1>9 DEF ClaudeCaptureInv

\* A turn ends: only the phase of its session and the writes change.
LEMMA ClaudeCaptureEndsKeep ==
  ASSUME ClaudeCapture!CaptureAssumption, ClaudeCaptureInv, NEW s \in Conversations, claudePhase[s] \in {"stop", "persist"},
         NEW to \in {"idle", "persist"}, claudePhase' = [claudePhase EXCEPT ![s] = to],
         UNCHANGED <<claudeAwaitPersist, prompts, entries, promptOrder, lastPrompt>>,
         claudeWaiting' = claudeWaiting, claudeRunning' \subseteq claudePending', claudePending' \subseteq ClaudeCapture!Write,
         claudeCaptured' # None =>
           /\ claudeCaptured' \in ClaudeCapture!Exchange /\ claudeCaptured'.session = s
           /\ ClaudeCaptureFits(s, claudeCaptured'.user, claudeCaptured'.assistant, claudeCaptured'.by)
  PROVE  ClaudeCaptureInv'
<1>1. ClaudeCapture!TypeOK /\ ClaudeCaptureTold /\ ClaudeCapturePast
  BY DEF ClaudeCaptureInv
<1>2. /\ claudePhase' \in [Conversations -> {"idle", "turn", "stop", "persist"}] /\ claudePhase'[s] = to
      /\ \A r \in Conversations \ {s} : claudePhase'[r] = claudePhase[r]
      /\ prompts[s] \in Seq(ClaudeCapture!Prompt)
  BY <1>1 DEF ClaudeCapture!TypeOK
<1>3. ClaudeCapture!TypeOK'
  BY <1>1, <1>2 DEF ClaudeCapture!TypeOK
<1>4. ClaudeCaptureTold'
  <2>1. ClaudeCapturePlaced(s)'
    BY <1>1, <1>2 DEF ClaudeCaptureTold, ClaudeCapturePlaced, ClaudeCapture!Turn
  <2>. QED BY <1>1, <1>2, <2>1, ClaudeCapturePlacedKept DEF ClaudeCaptureTold
<1>5. ClaudeCapturePast'
  BY DEF ClaudeCapturePast, ClaudeCaptureFits, ClaudeCaptureAnswered, ClaudeCapture!Turn
<1>. QED BY <1>3, <1>4, <1>5 DEF ClaudeCaptureInv

LEMMA ClaudeCaptureKeeps ==
  ASSUME ClaudeCapture!CaptureAssumption, ClaudeCaptureInv, [ClaudeCapture!Next]_captureVars PROVE ClaudeCaptureInv'
<1>1. ClaudeCapture!TypeOK /\ ClaudeCaptureTold /\ ClaudeCapturePast
  BY DEF ClaudeCaptureInv
<1>2. ASSUME NEW s \in Conversations, NEW p \in ClaudeCapture!Prompt, ClaudeCapture!OnUserPromptSubmit(s, p) PROVE ClaudeCaptureInv'
  BY <1>2, ClaudeCaptureSubmitKeeps
<1>3. ASSUME NEW s \in Conversations PROVE ClaudeCapture!Turn(s) \in Nat /\ (claudePhase[s] = "turn" => ClaudeCapture!Turn(s) \in ClaudeCapture!Turns)
                                     /\ (claudePhase[s] = "stop" => ClaudeCapture!Turn(s) \in ClaudeCapture!Turns /\ ClaudeCapture!Turn(s) > 0)
  <2>1. ClaudeCapturePlaced(s) /\ prompts[s] \in Seq(ClaudeCapture!Prompt) /\ CaptureTurns[s] \in Nat
    BY <1>1 DEF ClaudeCapture!TypeOK, ClaudeCaptureTold, ClaudeCapture!CaptureAssumption
  <2>2. \A t \in 1..CaptureTurns[s] : t \in ClaudeCapture!Turns
    BY DEF ClaudeCapture!Turns
  <2>. QED BY <2>1, <2>2 DEF ClaudeCapturePlaced, ClaudeCapture!Turn
<1>4. ASSUME NEW s \in Conversations, ClaudeCapture!MachineWrites(s) PROVE ClaudeCaptureInv'
  <2> DEFINE e == [role |-> "machine", turn |-> ClaudeCapture!Turn(s), text |-> TRUE]
  <2>1. e \in ClaudeCapture!Entry /\ e.turn = ClaudeCapture!Turn(s) /\ e.role = "machine"
    BY <1>3, <1>4 DEF ClaudeCapture!MachineWrites, ClaudeCapture!Entry
  <2>2. /\ claudePhase[s] = "turn" /\ entries' = [entries EXCEPT ![s] = Append(@, e)]
        /\ claudePhase' = [claudePhase EXCEPT ![s] = "turn"]
        /\ claudeCaptured' = None
        /\ UNCHANGED <<claudeAwaitPersist, prompts, promptOrder, lastPrompt, ClaudeCapture!writeVars>>
    BY <1>1, <1>4 DEF ClaudeCapture!MachineWrites, ClaudeCapture!TypeOK
  <2>. HIDE DEF e
  <2>. QED BY <2>1, <2>2, ClaudeCaptureWritesKeep
<1>5. ASSUME NEW s \in Conversations, NEW text \in BOOLEAN, ClaudeCapture!AgentAnswers(s, text) PROVE ClaudeCaptureInv'
  <2> DEFINE e == [role |-> "assistant", turn |-> ClaudeCapture!Turn(s), text |-> text]
  <2>1. e \in ClaudeCapture!Entry /\ e.turn = ClaudeCapture!Turn(s) /\ e.role = "assistant"
    BY <1>3, <1>5 DEF ClaudeCapture!AgentAnswers, ClaudeCapture!Entry
  <2>2. /\ claudePhase[s] = "turn" /\ entries' = [entries EXCEPT ![s] = Append(@, e)]
        /\ claudePhase' = [claudePhase EXCEPT ![s] = "stop"]
        /\ claudeCaptured' = None
        /\ UNCHANGED <<claudeAwaitPersist, prompts, promptOrder, lastPrompt, ClaudeCapture!writeVars>>
    BY <1>5 DEF ClaudeCapture!AgentAnswers
  <2>. HIDE DEF e
  <2>. QED BY <2>1, <2>2, ClaudeCaptureWritesKeep
<1>6. ASSUME NEW s \in Conversations, ClaudeCapture!StopSkips(s) \/ ClaudeCapture!PersistEnds(s) PROVE ClaudeCaptureInv'
  <2>1. /\ claudePhase[s] \in {"stop", "persist"} /\ claudePhase' = [claudePhase EXCEPT ![s] = "idle"]
        /\ UNCHANGED <<claudeAwaitPersist, prompts, entries, promptOrder, lastPrompt>>
        /\ claudeWaiting' = claudeWaiting /\ claudeRunning' = claudeRunning /\ claudePending' = claudePending /\ claudeCaptured' = None
    BY <1>6 DEF ClaudeCapture!StopSkips, ClaudeCapture!PersistEnds, ClaudeCapture!writeVars
  <2>. QED BY <1>1, <2>1, ClaudeCaptureEndsKeep DEF ClaudeCapture!TypeOK
<1>7. ASSUME NEW s \in Conversations, NEW readers \in ClaudeCapture!Readers, ClaudeCapture!StopPersists(s, readers) PROVE ClaudeCaptureInv'
  <2> DEFINE by == ClaudeCapture!ReaderOf(s, readers)
             pair == ClaudeCapture!LastExchange(s, by)
             x == [session |-> s, user |-> pair[1], assistant |-> pair[2], by |-> by]
             w == [session |-> s, turn |-> ClaudeCapture!Turn(s)]
             to == IF claudeAwaitPersist THEN "persist" ELSE "idle"
  <2>1. /\ claudePhase[s] = "stop" /\ pair # <<>> /\ claudeCaptured' = x
        /\ claudePhase' = [claudePhase EXCEPT ![s] = to]
        /\ claudeWaiting' = claudeWaiting
        /\ \/ claudeRunning' = claudeRunning /\ claudePending' = claudePending
           \/ claudeRunning' = claudeRunning \cup {w} /\ claudePending' = claudePending \cup {w}
        /\ UNCHANGED <<claudeAwaitPersist, prompts, entries, promptOrder, lastPrompt>>
    BY <1>7 DEF ClaudeCapture!StopPersists, ClaudeCapture!writeVars
  <2>2. by \in {"sdk", "jsonl", "hook"}
    BY DEF ClaudeCapture!ReaderOf
  <2>. HIDE DEF by
  <2>3. /\ pair[1] \in [turn : ClaudeCapture!Turns, role : {"human", "machine"}] /\ pair[2] \in ClaudeCapture!Turns
        /\ ClaudeCaptureFits(s, pair[1], pair[2], by)
    BY <1>1, <2>1, <2>2, ClaudeCaptureExchangeFits
  <2>. HIDE DEF pair
  <2>4. /\ x \in ClaudeCapture!Exchange /\ x.session = s /\ w \in ClaudeCapture!Write
        /\ ClaudeCaptureFits(s, x.user, x.assistant, x.by) /\ to \in {"idle", "persist"}
    BY <1>3, <2>1, <2>2, <2>3 DEF ClaudeCapture!Exchange, ClaudeCapture!Write
  <2>. HIDE DEF x, w, to
  <2>5. claudeRunning' \subseteq claudePending' /\ claudePending' \subseteq ClaudeCapture!Write
    BY <1>1, <2>1, <2>4 DEF ClaudeCapture!TypeOK
  <2>. QED BY <2>1, <2>4, <2>5, ClaudeCaptureEndsKeep
\* The writes settle and are waited for.
<1>8. ASSUME UNCHANGED <<claudeAwaitPersist, ClaudeCapture!turnVars>>, claudeRunning' \subseteq claudePending',
             claudePending' \subseteq claudePending, claudeWaiting' \subseteq ClaudeCapture!Write,
             claudeCaptured' \in {None, claudeCaptured}
      PROVE  ClaudeCaptureInv'
  <2>1. UNCHANGED <<claudeAwaitPersist, prompts, claudePhase, entries, promptOrder, lastPrompt>>
    BY <1>8 DEF ClaudeCapture!turnVars
  <2>2. ClaudeCapture!TypeOK'
    BY <1>1, <1>8, <2>1 DEF ClaudeCapture!TypeOK
  <2>3. ClaudeCaptureTold'
    BY <1>1, <2>1 DEF ClaudeCaptureTold, ClaudeCapturePlaced, ClaudeCaptureBeginsAt,
       ClaudeCapture!Turn, ClaudeCapture!Latest
  <2>4. ClaudeCapturePast'
    BY <1>1, <1>8, <2>1 DEF ClaudeCapturePast, ClaudeCaptureFits, ClaudeCaptureAnswered,
       ClaudeCapture!Turn
  <2>. QED BY <2>2, <2>3, <2>4 DEF ClaudeCaptureInv
<1>9. ASSUME NEW x \in claudeRunning, ClaudeCapture!WriteSettles(x) PROVE ClaudeCaptureInv'
  BY <1>1, <1>8, <1>9 DEF ClaudeCapture!WriteSettles, ClaudeCapture!TypeOK
<1>10. ASSUME NEW x \in claudePending, ClaudeCapture!WriteForgotten(x) PROVE ClaudeCaptureInv'
  BY <1>1, <1>8, <1>10 DEF ClaudeCapture!WriteForgotten, ClaudeCapture!TypeOK
<1>11. ASSUME ClaudeCapture!Flush PROVE ClaudeCaptureInv'
  BY <1>1, <1>8, <1>11 DEF ClaudeCapture!Flush, ClaudeCapture!TypeOK
<1>12. ASSUME ClaudeCapture!FlushWakes PROVE ClaudeCaptureInv'
  BY <1>1, <1>8, <1>12 DEF ClaudeCapture!FlushWakes, ClaudeCapture!TypeOK
<1>13. CASE UNCHANGED captureVars
  BY <1>1, <1>8, <1>13 DEF captureVars, ClaudeCapture!turnVars, ClaudeCapture!TypeOK
<1>. QED
  BY <1>2, <1>4, <1>5, <1>6, <1>7, <1>9, <1>10, <1>11, <1>12, <1>13 DEF ClaudeCapture!Next

LEMMA ClaudeCaptureImplies ==
  ASSUME ClaudeCaptureInv PROVE ClaudeCapture!CapturesFinishedTurn /\ ClaudeCapture!TypeOK
BY DEF ClaudeCaptureInv, ClaudeCapturePast, ClaudeCaptureFits, ClaudeCaptureAnswered,
   ClaudeCapture!CapturesFinishedTurn

\* A flush returns when all that was in flight is settled.
LEMMA ClaudeCaptureDrains ==
  ASSUME ClaudeCaptureInv, [ClaudeCapture!Next]_captureVars PROVE ClaudeCapture!FlushWaits
<1>1. claudeRunning \subseteq claudePending
  BY DEF ClaudeCaptureInv, ClaudeCapture!TypeOK
<1>2. ASSUME ClaudeCapture!FlushWakes PROVE ClaudeCapture!FlushWaits
  BY <1>1, <1>2 DEF ClaudeCapture!FlushWakes, ClaudeCapture!FlushWaits
<1>3. ASSUME claudeWaiting' = claudeWaiting \/ claudeWaiting = {} PROVE ClaudeCapture!FlushWaits
  BY <1>3 DEF ClaudeCapture!FlushWaits
<1>. QED BY <1>2, <1>3 DEF ClaudeCapture!Next, ClaudeCapture!OnUserPromptSubmit,
       ClaudeCapture!MachineWrites, ClaudeCapture!AgentAnswers, ClaudeCapture!StopSkips,
       ClaudeCapture!StopPersists, ClaudeCapture!PersistEnds, ClaudeCapture!WriteSettles, ClaudeCapture!WriteForgotten, ClaudeCapture!Flush, ClaudeCapture!writeVars, captureVars

\* A behaviour of the whole that is this part's is a behaviour of this part.
LEMMA ClaudeCaptureBegins ==
  ASSUME Init, part = "ClaudeCapture" PROVE ClaudeCapture!Init
BY DEF Init

LEMMA ClaudeCaptureGoes ==
  ASSUME [Next]_<<part, recallGroup, persistGroup, userGroup, callGroup>>, part = "ClaudeCapture"
  PROVE  part' = "ClaudeCapture" /\ [ClaudeCapture!Next]_captureVars
<1>1. CASE Next
  BY <1>1 DEF Next, RecallNext, PersistNext, UserNext, CallNext, persistGroup
<1>2. CASE UNCHANGED <<part, recallGroup, persistGroup, userGroup, callGroup>>
  BY <1>2 DEF persistGroup
<1>. QED BY <1>1, <1>2

------------------------------------------------------------------------------
\* The clients of the Pydantic AI backend and the writes that use them.

PydanticBackendACall == [at : {"free", "queued", "out", "ended"}, user : Tenants \cup {None},
          client : PydanticBackend!Clients \cup {None}, spawned : BOOLEAN]
PydanticBackendClosing == [at : {"idle", "draining", "closing"}, waits : SUBSET Calls, todo : SUBSET PydanticBackend!Clients]

\* The clients of the cache are the newest of their users, and open.
PydanticBackendPooled ==
  /\ pydanticClients \in [Tenants -> PydanticBackend!Clients \cup {None}]
  /\ \A u \in Tenants : pydanticClients[u] # None => pydanticClients[u][1] = u /\ pydanticClients[u] \notin pydanticClosed
  /\ \A k \in pydanticClosed : k[2] <= built[k[1]]
\* A spawned write that has not ended is in the set or with an aclose that waits.
PydanticBackendHeld ==
  /\ pydanticCall \in [Calls -> PydanticBackendACall]
  /\ \A w \in Calls : /\ pydanticCall[w].spawned /\ pydanticCall[w].at # "ended" =>
                           w \in pydanticPending \/ \E c \in Recalls : w \in pydanticCloser[c].waits
                      /\ pydanticCall[w].at = "queued" => pydanticCall[w].user \in Tenants
                      /\ pydanticCall[w].at = "free" => ~pydanticCall[w].spawned
\* No two acloses take the same client, and those that overlap are known to.
PydanticBackendTaken ==
  /\ pydanticCloser \in [Recalls -> PydanticBackendClosing]
  /\ \A c \in Recalls :
       /\ pydanticCloser[c].at # "draining" => pydanticCloser[c].waits = {}
       /\ pydanticCloser[c].at # "closing" => pydanticCloser[c].todo = {}
       /\ PydanticBackend!Cached \cap pydanticCloser[c].todo = {}
       /\ \A k \in pydanticCloser[c].todo : k[2] <= built[k[1]]
       /\ \A d \in Recalls \ {c} :
            /\ pydanticCloser[c].todo \cap pydanticCloser[d].todo = {}
            /\ pydanticCloser[c].at # "idle" /\ pydanticCloser[d].at # "idle" => c \in pydanticOverlapped
\* An aclose that is alone has taken no client a spawned write has.
PydanticBackendApart ==
  \A c \in Recalls \ pydanticOverlapped : pydanticCloser[c].at = "closing" =>
    \A w \in Calls : pydanticCall[w].spawned /\ pydanticCall[w].at = "out" => pydanticCall[w].client \notin pydanticCloser[c].todo

PydanticBackendInv == PydanticBackend!TypeOK /\ PydanticBackendPooled /\ PydanticBackendHeld /\ PydanticBackendTaken /\ PydanticBackendApart

\* The client a call is given is open, cached from then on, and no aclose took it.
LEMMA PydanticBackendFinds ==
  ASSUME PydanticBackend!BackendAssumption, PydanticBackend!TypeOK, PydanticBackendPooled, PydanticBackendTaken, NEW u \in Tenants, NEW client \in PydanticBackend!Clients,
         PydanticBackend!ClientFor(u, client)
  PROVE  /\ built' \in [Tenants -> 0..MaxBuilt] /\ pydanticClosed' = pydanticClosed
         /\ \A v \in Tenants : built[v] <= built'[v]
         /\ pydanticClients' \in [Tenants -> PydanticBackend!Clients \cup {None}]
         /\ \A v \in Tenants : pydanticClients'[v] = pydanticClients[v] \/ (v = u /\ pydanticClients'[v] = client)
         /\ client[1] = u /\ client[2] <= built'[u] /\ client \notin pydanticClosed
         /\ \A c \in Recalls : client \notin pydanticCloser[c].todo
         /\ pydanticClients'[u] = client
<1>1. /\ built \in [Tenants -> 0..MaxBuilt] /\ pydanticClients \in [Tenants -> PydanticBackend!Clients \cup {None}]
      /\ MaxBuilt \in Nat /\ None \notin PydanticBackend!Clients
  BY DEF PydanticBackend!TypeOK, PydanticBackendPooled, PydanticBackend!BackendAssumption
<1>2. CASE client = pydanticClients[u] /\ pydanticClients[u] # None /\ UNCHANGED PydanticBackend!poolVars
  <2>1. client \in PydanticBackend!Cached
    BY <1>2 DEF PydanticBackend!Cached
  <2>2. client[1] = u /\ client \notin pydanticClosed /\ client[2] <= built[client[1]]
    BY <1>2, <2>1 DEF PydanticBackendPooled, PydanticBackend!TypeOK
  <2>3. \A c \in Recalls : client \notin pydanticCloser[c].todo
    BY <2>1 DEF PydanticBackendTaken
  <2>. QED BY <1>1, <1>2, <2>2, <2>3 DEF PydanticBackend!poolVars
<1>3. CASE /\ pydanticClients[u] = None /\ built[u] < MaxBuilt /\ client = <<u, built[u] + 1>>
           /\ pydanticClients' = [pydanticClients EXCEPT ![u] = client]
           /\ built' = [built EXCEPT ![u] = built[u] + 1] /\ UNCHANGED pydanticClosed
  <2>1. client[1] = u /\ client[2] = built[u] + 1 /\ ~(client[2] <= built[client[1]])
    BY <1>1, <1>3
  <2>2. client \notin pydanticClosed /\ \A c \in Recalls : client \notin pydanticCloser[c].todo
    BY <2>1 DEF PydanticBackendPooled, PydanticBackendTaken
  <2>. QED BY <1>1, <1>3, <2>1, <2>2
<1>. QED BY <1>2, <1>3 DEF PydanticBackend!ClientFor

\* So the cache stays as it should be, and apart from what was taken.
LEMMA PydanticBackendPools ==
  ASSUME PydanticBackend!BackendAssumption, PydanticBackend!TypeOK, PydanticBackendPooled, PydanticBackendTaken, NEW u \in Tenants, NEW client \in PydanticBackend!Clients,
         PydanticBackend!ClientFor(u, client)
  PROVE  /\ PydanticBackendPooled' /\ PydanticBackend!Cached' \subseteq PydanticBackend!Clients /\ \A k \in PydanticBackend!Cached' : k[2] <= built'[k[1]]
         /\ \A c \in Recalls : PydanticBackend!Cached' \cap pydanticCloser[c].todo = {}
         /\ \A c \in Recalls : \A k \in pydanticCloser[c].todo : k[2] <= built'[k[1]]
<1>1. /\ built' \in [Tenants -> 0..MaxBuilt] /\ pydanticClosed' = pydanticClosed
      /\ \A v \in Tenants : built[v] <= built'[v]
      /\ pydanticClients' \in [Tenants -> PydanticBackend!Clients \cup {None}]
      /\ \A v \in Tenants : pydanticClients'[v] = pydanticClients[v] \/ (v = u /\ pydanticClients'[v] = client)
      /\ client[1] = u /\ client[2] <= built'[u] /\ client \notin pydanticClosed
      /\ \A c \in Recalls : client \notin pydanticCloser[c].todo
  BY PydanticBackendFinds
<1>2. PydanticBackend!Cached' \subseteq PydanticBackend!Cached \cup {client}
  BY <1>1 DEF PydanticBackend!Cached
<1>3. ASSUME NEW k \in PydanticBackend!Clients, k[2] <= built[k[1]] PROVE k[2] <= built'[k[1]]
  <2>1. k[1] \in Tenants /\ k[2] \in Nat
    BY DEF PydanticBackend!Clients
  <2>2. built[k[1]] \in Nat /\ built'[k[1]] \in Nat /\ built[k[1]] <= built'[k[1]]
    BY <1>1, <2>1 DEF PydanticBackend!TypeOK
  <2>. QED BY <1>3, <2>1, <2>2
<1>4. /\ PydanticBackend!Cached \subseteq PydanticBackend!Clients /\ pydanticClosed \subseteq PydanticBackend!Clients
      /\ \A k \in PydanticBackend!Cached : k[2] <= built[k[1]]
  BY DEF PydanticBackend!TypeOK
<1>5. \A c \in Recalls : pydanticCloser[c].todo \subseteq PydanticBackend!Clients
  BY DEF PydanticBackend!TypeOK
<1>6. PydanticBackendPooled'
  <2>1. \A k \in pydanticClosed : k[2] <= built'[k[1]]
    BY <1>3, <1>4 DEF PydanticBackendPooled
  <2>. QED BY <1>1, <2>1 DEF PydanticBackendPooled
<1>7. \A k \in PydanticBackend!Cached' : k[2] <= built'[k[1]]
  BY <1>1, <1>2, <1>3, <1>4
<1>8. \A c \in Recalls : \A k \in pydanticCloser[c].todo : k[2] <= built'[k[1]]
  BY <1>3, <1>5 DEF PydanticBackendTaken
<1>9. \A c \in Recalls : PydanticBackend!Cached' \cap pydanticCloser[c].todo = {}
  BY <1>1, <1>2 DEF PydanticBackendTaken
<1>. QED BY <1>2, <1>4, <1>6, <1>7, <1>8, <1>9

LEMMA PydanticBackendStarts ==
  ASSUME PydanticBackend!BackendAssumption, PydanticBackend!Init PROVE PydanticBackendInv
<1>1. /\ PydanticBackend!NoCall \in PydanticBackendACall /\ PydanticBackend!NoCall.at = "free" /\ ~PydanticBackend!NoCall.spawned /\ PydanticBackend!NoCall.client = None
      /\ PydanticBackend!NotClosing \in PydanticBackendClosing /\ PydanticBackend!NotClosing.at = "idle" /\ PydanticBackend!NotClosing.waits = {}
      /\ PydanticBackend!NotClosing.todo = {}
  BY DEF PydanticBackend!NoCall, PydanticBackendACall, PydanticBackend!NotClosing,
     PydanticBackendClosing
<1>2. /\ pydanticCall \in [Calls -> PydanticBackendACall] /\ \A w \in Calls : pydanticCall[w] = PydanticBackend!NoCall
      /\ pydanticCloser \in [Recalls -> PydanticBackendClosing] /\ \A c \in Recalls : pydanticCloser[c] = PydanticBackend!NotClosing
      /\ \A u \in Tenants : pydanticClients[u] = None
      /\ pydanticClients \in [Tenants -> PydanticBackend!Clients \cup {None}] /\ pydanticClosed = {} /\ pydanticPending = {}
      /\ pydanticOverlapped = {} /\ built \in [Tenants -> 0..MaxBuilt]
  BY <1>1 DEF PydanticBackend!Init, PydanticBackend!BackendAssumption
<1>3. PydanticBackend!Cached = {} /\ None \notin PydanticBackend!Clients
  BY <1>2 DEF PydanticBackend!Cached, PydanticBackend!BackendAssumption
<1>4. PydanticBackend!TypeOK
  BY <1>1, <1>2, <1>3 DEF PydanticBackend!TypeOK
<1>. QED BY <1>1, <1>2, <1>3, <1>4 DEF PydanticBackendInv, PydanticBackendPooled,
       PydanticBackendHeld, PydanticBackendTaken, PydanticBackendApart

\* The calls move, and the acloses and what they wait for do not.
LEMMA PydanticBackendCallsMove ==
  ASSUME PydanticBackend!BackendAssumption, PydanticBackendInv, NEW w \in Calls, NEW x \in PydanticBackendACall,
         pydanticCall' = [pydanticCall EXCEPT ![w] = x], UNCHANGED <<pydanticCloser, pydanticOverlapped>>,
         x.client \in PydanticBackend!Clients <=> x.at = "out",
         x.at = "queued" => x.user \in Tenants,
         x.at = "free" => ~x.spawned,
         x.spawned \/ (w \notin pydanticPending /\ \A c \in Recalls : w \notin pydanticCloser[c].waits),
         \/ pydanticPending' = pydanticPending /\ (x.spawned /\ x.at # "ended" => pydanticCall[w].spawned /\ pydanticCall[w].at # "ended")
         \/ pydanticPending' = pydanticPending \cup {w} /\ x.spawned /\ \A c \in Recalls : w \notin pydanticCloser[c].waits,
         \/ UNCHANGED PydanticBackend!poolVars /\ x.at # "out"
         \/ /\ \E u \in Tenants : PydanticBackend!ClientFor(u, x.client)
            /\ x.client \in PydanticBackend!Clients
  PROVE  PydanticBackendInv'
<1>1. PydanticBackend!TypeOK /\ PydanticBackendPooled /\ PydanticBackendHeld /\ PydanticBackendTaken /\ PydanticBackendApart
  BY DEF PydanticBackendInv
<1>2. /\ pydanticCall' \in [Calls -> PydanticBackendACall] /\ pydanticCall'[w] = x /\ \A v \in Calls \ {w} : pydanticCall'[v] = pydanticCall[v]
      /\ pydanticCloser' = pydanticCloser /\ pydanticOverlapped' = pydanticOverlapped
  BY <1>1 DEF PydanticBackendHeld
<1>3. /\ built' \in [Tenants -> 0..MaxBuilt] /\ pydanticClosed' = pydanticClosed /\ PydanticBackendPooled'
      /\ PydanticBackend!Cached' \subseteq PydanticBackend!Clients /\ \A k \in PydanticBackend!Cached' : k[2] <= built'[k[1]]
      /\ \A c \in Recalls : PydanticBackend!Cached' \cap pydanticCloser[c].todo = {}
      /\ \A c \in Recalls : \A k \in pydanticCloser[c].todo : k[2] <= built'[k[1]]
      /\ x.at = "out" => \A c \in Recalls : x.client \notin pydanticCloser[c].todo
  <2>1. CASE UNCHANGED PydanticBackend!poolVars /\ x.at # "out"
    BY <1>1, <2>1 DEF PydanticBackend!poolVars, PydanticBackend!TypeOK, PydanticBackendPooled,
       PydanticBackendTaken, PydanticBackend!Cached
  <2>2. CASE (\E u \in Tenants : PydanticBackend!ClientFor(u, x.client)) /\ x.client \in PydanticBackend!Clients
    BY <1>1, <2>2, PydanticBackendFinds, PydanticBackendPools
  <2>. QED BY <2>1, <2>2
<1>4. PydanticBackend!TypeOK'
  <2>1. \A v \in Calls : /\ pydanticCall'[v].at \in {"free", "queued", "out", "ended"}
                         /\ pydanticCall'[v].client \in PydanticBackend!Clients <=> pydanticCall'[v].at = "out"
    <3>1. x.at \in {"free", "queued", "out", "ended"}
      BY DEF PydanticBackendACall
    <3>. QED BY <1>1, <1>2, <3>1 DEF PydanticBackend!TypeOK
  <2>2. pydanticPending' \subseteq {v \in Calls : pydanticCall'[v].spawned}
    BY <1>1, <1>2 DEF PydanticBackend!TypeOK
  <2>3. \A c \in Recalls : pydanticCloser[c].waits \subseteq {v \in Calls : pydanticCall'[v].spawned} \ pydanticPending'
    BY <1>1, <1>2 DEF PydanticBackend!TypeOK
  <2>. QED BY <1>1, <1>2, <1>3, <2>1, <2>2, <2>3 DEF PydanticBackend!TypeOK
<1>5. PydanticBackendHeld'
  <2>1. ASSUME NEW v \in Calls, pydanticCall'[v].spawned, pydanticCall'[v].at # "ended"
        PROVE  v \in pydanticPending' \/ \E c \in Recalls : v \in pydanticCloser[c].waits
    BY <1>1, <1>2, <2>1 DEF PydanticBackendHeld
  <2>. QED BY <1>1, <1>2, <2>1 DEF PydanticBackendHeld
<1>6. PydanticBackendTaken'
  BY <1>1, <1>2, <1>3 DEF PydanticBackendTaken
<1>7. PydanticBackendApart'
  BY <1>1, <1>2, <1>3 DEF PydanticBackendApart
<1>. QED BY <1>3, <1>4, <1>5, <1>6, <1>7 DEF PydanticBackendInv

\* Where one aclose stands now; the others are where they were.
PydanticBackendMoved(c, x) ==
  /\ pydanticCloser' \in [Recalls -> PydanticBackendClosing] /\ pydanticCloser'[c] = x
  /\ \A d \in Recalls \ {c} : pydanticCloser'[d] = pydanticCloser[d]

\* Whether an aclose that begins has others beside it.
PydanticBackendNoted(c) ==
  /\ pydanticOverlapped' \subseteq Recalls /\ pydanticOverlapped \ {c} \subseteq pydanticOverlapped'
  /\ \A d \in Recalls \ {c} : pydanticCloser[d].at # "idle" => {c, d} \subseteq pydanticOverlapped'

LEMMA PydanticBackendLooks ==
  ASSUME PydanticBackend!BackendAssumption, PydanticBackendInv, NEW c \in Recalls, PydanticBackend!DrainLooks(c), PydanticBackendNoted(c),
         pydanticCloser[c].waits = {}, pydanticCloser[c].at # "closing"
  PROVE  /\ PydanticBackendInv'
         /\ c \notin pydanticOverlapped' /\ pydanticCloser'[c].at = "closing" =>
              \A w \in Calls : pydanticCall[w].spawned => pydanticCall[w].at = "ended"
<1>1. PydanticBackend!TypeOK /\ PydanticBackendPooled /\ PydanticBackendHeld /\ PydanticBackendTaken /\ PydanticBackendApart
  BY DEF PydanticBackendInv
<1>2. /\ pydanticCloser \in [Recalls -> PydanticBackendClosing] /\ pydanticCloser[c] \in PydanticBackendClosing /\ pydanticCloser[c].todo = {}
      /\ pydanticPending \in SUBSET Calls /\ PydanticBackend!Cached \in SUBSET PydanticBackend!Clients
      /\ pydanticCall \in [Calls -> PydanticBackendACall]
  BY <1>1 DEF PydanticBackendTaken, PydanticBackend!TypeOK, PydanticBackendHeld
<1>3. CASE PydanticBackend!Gather(c)
  <2> DEFINE x == [at |-> "draining", waits |-> pydanticPending, todo |-> {}]
  <2>1. x \in PydanticBackendClosing /\ x.at = "draining" /\ x.waits = pydanticPending /\ x.todo = {}
    BY <1>2 DEF PydanticBackendClosing
  <2>2. pydanticCloser' = [pydanticCloser EXCEPT ![c] = x] /\ pydanticPending' = {} /\ UNCHANGED <<pydanticClients, built, pydanticClosed, pydanticCall>>
    <3>1. pydanticCloser' = [pydanticCloser EXCEPT ![c].at = "draining", ![c].waits = pydanticPending]
      BY <1>3 DEF PydanticBackend!Gather
    <3>2. ASSUME NEW y \in PydanticBackendClosing, y.todo = {}
          PROVE  [[y EXCEPT !.at = "draining"] EXCEPT !.waits = pydanticPending] = x
      <4>1. y = [at |-> y.at, waits |-> y.waits, todo |-> {}]
        BY <3>2 DEF PydanticBackendClosing
      <4>2. [y EXCEPT !.at = "draining"] = [at |-> "draining", waits |-> y.waits, todo |-> {}]
        BY <4>1
      <4>3. ASSUME NEW z, z = [at |-> "draining", waits |-> y.waits, todo |-> {}]
            PROVE  [z EXCEPT !.waits = pydanticPending] = [at |-> "draining", waits |-> pydanticPending, todo |-> {}]
        BY <4>3
      <4>. QED BY <4>2, <4>3
    <3>3. pydanticCloser' = [pydanticCloser EXCEPT ![c] = [[pydanticCloser[c] EXCEPT !.at = "draining"] EXCEPT !.waits = pydanticPending]]
      BY <1>2, <3>1
    <3>. QED BY <1>2, <1>3, <3>2, <3>3 DEF PydanticBackend!Gather, PydanticBackend!poolVars
  <2>. HIDE DEF x
  <2>3. PydanticBackendMoved(c, x)
    BY <1>2, <2>1, <2>2 DEF PydanticBackendMoved
  <2>4. PydanticBackend!Cached' = PydanticBackend!Cached
    BY <2>2 DEF PydanticBackend!Cached
  <2>5. PydanticBackend!TypeOK'
    BY <1>1, <2>1, <2>2, <2>3, <2>4 DEF PydanticBackend!TypeOK, PydanticBackendMoved,
       PydanticBackendNoted
  <2>6. PydanticBackendPooled' /\ PydanticBackendHeld'
    <3>1. ASSUME NEW w \in Calls, pydanticCall[w].spawned, pydanticCall[w].at # "ended"
          PROVE  \E d \in Recalls : w \in pydanticCloser'[d].waits
      <4>1. w \in pydanticPending \/ \E d \in Recalls \ {c} : w \in pydanticCloser[d].waits
        BY <1>1, <3>1 DEF PydanticBackendHeld
      <4>. QED BY <2>1, <2>3, <4>1 DEF PydanticBackendMoved
    <3>. QED BY <1>1, <2>2, <3>1 DEF PydanticBackendPooled, PydanticBackendHeld
  <2>7. PydanticBackendTaken'
    <3>1. ASSUME NEW d \in Recalls
          PROVE  /\ pydanticCloser'[d].at # "draining" => pydanticCloser'[d].waits = {}
                 /\ pydanticCloser'[d].at # "closing" => pydanticCloser'[d].todo = {}
                 /\ pydanticCloser'[d].todo \subseteq pydanticCloser[d].todo
      BY <1>1, <2>1, <2>3 DEF PydanticBackendTaken, PydanticBackendMoved
    <3>2. ASSUME NEW d \in Recalls, NEW e \in Recalls \ {d},
                 pydanticCloser'[d].at # "idle", pydanticCloser'[e].at # "idle"
          PROVE  d \in pydanticOverlapped'
      BY <1>1, <2>3, <3>2 DEF PydanticBackendTaken, PydanticBackendMoved, PydanticBackendNoted
    <3>3. pydanticCloser' \in [Recalls -> PydanticBackendClosing]
      BY <2>3 DEF PydanticBackendMoved
    <3>4. \A d \in Recalls : /\ PydanticBackend!Cached' \cap pydanticCloser'[d].todo = {}
                             /\ \A k \in pydanticCloser'[d].todo : k[2] <= built'[k[1]]
      BY <1>1, <2>2, <2>4, <3>1 DEF PydanticBackendTaken
    <3>5. \A d \in Recalls : \A e \in Recalls \ {d} : pydanticCloser'[d].todo \cap pydanticCloser'[e].todo = {}
      BY <1>1, <3>1 DEF PydanticBackendTaken
    <3>. QED BY <3>1, <3>2, <3>3, <3>4, <3>5 DEF PydanticBackendTaken
  <2>8. PydanticBackendApart'
    BY <1>1, <2>1, <2>2, <2>3 DEF PydanticBackendApart, PydanticBackendMoved,
       PydanticBackendNoted
  <2>. QED BY <2>1, <2>3, <2>5, <2>6, <2>7, <2>8 DEF PydanticBackendInv, PydanticBackendMoved
<1>4. CASE pydanticPending = {} /\ PydanticBackend!Take(c)
  <2> DEFINE x == [at |-> "closing", waits |-> {}, todo |-> PydanticBackend!Cached]
  <2>1. x \in PydanticBackendClosing /\ x.at = "closing" /\ x.waits = {} /\ x.todo = PydanticBackend!Cached
    BY <1>2 DEF PydanticBackendClosing
  <2>2. /\ pydanticCloser' = [pydanticCloser EXCEPT ![c] = x] /\ pydanticClients' = [u \in Tenants |-> None]
        /\ UNCHANGED <<built, pydanticClosed, pydanticCall, pydanticPending>> /\ pydanticPending = {}
    BY <1>4 DEF PydanticBackend!Take
  <2>. HIDE DEF x
  <2>3. PydanticBackendMoved(c, x)
    BY <1>2, <2>1, <2>2 DEF PydanticBackendMoved
  <2>4. PydanticBackend!Cached' = {} /\ PydanticBackend!Cached \cap pydanticClosed = {}
    BY <1>1, <2>2 DEF PydanticBackend!Cached, PydanticBackendPooled
  <2>5. PydanticBackend!TypeOK'
    BY <1>1, <2>1, <2>2, <2>3, <2>4 DEF PydanticBackend!TypeOK, PydanticBackendMoved,
       PydanticBackendNoted
  <2>6. PydanticBackendPooled' /\ PydanticBackendHeld'
    <3>1. PydanticBackendPooled'
      BY <1>1, <2>2 DEF PydanticBackendPooled
    <3>2. ASSUME NEW w \in Calls, pydanticCall[w].spawned, pydanticCall[w].at # "ended"
          PROVE  \E d \in Recalls : w \in pydanticCloser'[d].waits
      <4>1. \E d \in Recalls \ {c} : w \in pydanticCloser[d].waits
        BY <1>1, <2>2, <3>2 DEF PydanticBackendHeld
      <4>. QED BY <2>3, <4>1 DEF PydanticBackendMoved
    <3>. QED BY <1>1, <2>2, <3>1, <3>2 DEF PydanticBackendHeld
  <2>7. PydanticBackendTaken'
    <3>1. ASSUME NEW d \in Recalls
          PROVE  /\ pydanticCloser'[d].at # "draining" => pydanticCloser'[d].waits = {}
                 /\ pydanticCloser'[d].at # "closing" => pydanticCloser'[d].todo = {}
                 /\ d # c => pydanticCloser'[d].todo = pydanticCloser[d].todo
                 /\ d = c => pydanticCloser'[d].todo = PydanticBackend!Cached
      BY <1>1, <2>1, <2>3 DEF PydanticBackendTaken, PydanticBackendMoved
    <3>2. ASSUME NEW d \in Recalls, NEW e \in Recalls \ {d},
                 pydanticCloser'[d].at # "idle", pydanticCloser'[e].at # "idle"
          PROVE  d \in pydanticOverlapped'
      BY <1>1, <2>3, <3>2 DEF PydanticBackendTaken, PydanticBackendMoved, PydanticBackendNoted
    <3>3. pydanticCloser' \in [Recalls -> PydanticBackendClosing]
      BY <2>3 DEF PydanticBackendMoved
    <3>4. \A d \in Recalls : /\ PydanticBackend!Cached' \cap pydanticCloser'[d].todo = {}
                             /\ \A k \in pydanticCloser'[d].todo : k[2] <= built'[k[1]]
      BY <1>1, <2>2, <2>4, <3>1 DEF PydanticBackendTaken, PydanticBackend!TypeOK
    <3>5. \A d \in Recalls : \A e \in Recalls \ {d} : pydanticCloser'[d].todo \cap pydanticCloser'[e].todo = {}
      BY <1>1, <3>1 DEF PydanticBackendTaken
    <3>. QED BY <3>1, <3>2, <3>3, <3>4, <3>5 DEF PydanticBackendTaken
  <2>8. ASSUME c \notin pydanticOverlapped', NEW w \in Calls, pydanticCall[w].spawned PROVE pydanticCall[w].at = "ended"
    <3>1. \A d \in Recalls \ {c} : pydanticCloser[d].at = "idle"
      BY <2>8 DEF PydanticBackendNoted
    <3>2. \A d \in Recalls : pydanticCloser[d].waits = {}
      BY <1>1, <3>1 DEF PydanticBackendTaken
    <3>. QED BY <1>1, <2>2, <2>8, <3>2 DEF PydanticBackendHeld
  <2>9. PydanticBackendApart'
    <3>1. ASSUME NEW d \in Recalls \ pydanticOverlapped', pydanticCloser'[d].at = "closing",
                 NEW w \in Calls, pydanticCall[w].spawned, pydanticCall[w].at = "out"
          PROVE  pydanticCall[w].client \notin pydanticCloser'[d].todo
      <4>1. d # c
        BY <2>8, <3>1
      <4>. QED BY <1>1, <2>3, <3>1, <4>1 DEF PydanticBackendApart, PydanticBackendMoved,
             PydanticBackendNoted
    <3>. QED BY <2>2, <3>1 DEF PydanticBackendApart
  <2>. QED BY <2>5, <2>6, <2>7, <2>8, <2>9 DEF PydanticBackendInv
<1>. QED BY <1>3, <1>4 DEF PydanticBackend!DrainLooks

LEMMA PydanticBackendKeeps ==
  ASSUME PydanticBackend!BackendAssumption, PydanticBackendInv, [PydanticBackend!Next]_backendVars PROVE PydanticBackendInv'
<1>1. PydanticBackend!TypeOK /\ PydanticBackendPooled /\ PydanticBackendHeld /\ PydanticBackendTaken /\ PydanticBackendApart
  BY DEF PydanticBackendInv
<1>2. /\ pydanticCloser \in [Recalls -> PydanticBackendClosing] /\ pydanticCall \in [Calls -> PydanticBackendACall]
      /\ \A c \in Recalls : pydanticCloser[c] \in PydanticBackendClosing
      /\ \A w \in Calls : pydanticCall[w] \in PydanticBackendACall
      /\ None \notin PydanticBackend!Clients
  BY <1>1 DEF PydanticBackendTaken, PydanticBackendHeld, PydanticBackend!BackendAssumption
<1>3. ASSUME NEW w \in Calls, pydanticCall[w].at = "free" \/ ~pydanticCall[w].spawned
      PROVE  w \notin pydanticPending /\ \A c \in Recalls : w \notin pydanticCloser[c].waits
  BY <1>1, <1>3 DEF PydanticBackend!TypeOK, PydanticBackendHeld
<1>4. ASSUME NEW w \in Calls, NEW u \in Tenants, PydanticBackend!Await(w, u) PROVE PydanticBackendInv'
  <2>1. PICK client \in PydanticBackend!Clients :
          /\ PydanticBackend!ClientFor(u, client)
          /\ pydanticCall' = [pydanticCall EXCEPT ![w] = [PydanticBackend!NoCall EXCEPT !.at = "out", !.user = u, !.client = client]]
    BY <1>4 DEF PydanticBackend!Await
  <2> DEFINE x == [PydanticBackend!NoCall EXCEPT !.at = "out", !.user = u, !.client = client]
  <2>2. /\ x \in PydanticBackendACall /\ x.at = "out" /\ x.user = u /\ x.client = client /\ ~x.spawned
    BY DEF PydanticBackend!NoCall, PydanticBackendACall
  <2>3. w \notin pydanticPending /\ \A c \in Recalls : w \notin pydanticCloser[c].waits
    BY <1>3, <1>4 DEF PydanticBackend!Await
  <2>4. pydanticPending' = pydanticPending /\ UNCHANGED <<pydanticCloser, pydanticOverlapped>>
    BY <1>4 DEF PydanticBackend!Await
  <2>. HIDE DEF x
  <2>5. pydanticCall' = [pydanticCall EXCEPT ![w] = x]
    BY <2>1 DEF x
  <2>. QED BY <2>1, <2>2, <2>3, <2>4, <2>5, PydanticBackendCallsMove
<1>5. ASSUME NEW w \in Calls, NEW u \in Tenants, PydanticBackend!Spawn(w, u) PROVE PydanticBackendInv'
  <2> DEFINE x == [PydanticBackend!NoCall EXCEPT !.at = "queued", !.user = u, !.spawned = TRUE]
  <2>1. /\ x \in PydanticBackendACall /\ x.at = "queued" /\ x.user = u /\ x.client = None /\ x.spawned
    BY DEF PydanticBackend!NoCall, PydanticBackendACall
  <2>2. w \notin pydanticPending /\ \A c \in Recalls : w \notin pydanticCloser[c].waits
    BY <1>3, <1>5 DEF PydanticBackend!Spawn
  <2>3. pydanticPending' = pydanticPending \cup {w} /\ UNCHANGED <<PydanticBackend!poolVars, pydanticCloser, pydanticOverlapped>>
        /\ pydanticCall' = [pydanticCall EXCEPT ![w] = x]
    BY <1>5 DEF PydanticBackend!Spawn
  <2>. HIDE DEF x
  <2>. QED BY <1>2, <2>1, <2>2, <2>3, PydanticBackendCallsMove
<1>6. ASSUME NEW w \in Calls, PydanticBackend!TaskBegins(w) PROVE PydanticBackendInv'
  <2>1. PICK client \in PydanticBackend!Clients :
          /\ PydanticBackend!ClientFor(pydanticCall[w].user, client)
          /\ pydanticCall' = [pydanticCall EXCEPT ![w].at = "out", ![w].client = client]
    BY <1>6 DEF PydanticBackend!TaskBegins
  <2> DEFINE x == [[pydanticCall[w] EXCEPT !.at = "out"] EXCEPT !.client = client]
  <2>2. pydanticCall[w].at = "queued" /\ pydanticCall[w].user \in Tenants
    BY <1>1, <1>6 DEF PydanticBackend!TaskBegins, PydanticBackendHeld
  <2>3. /\ x \in PydanticBackendACall /\ x.at = "out" /\ x.user = pydanticCall[w].user /\ x.client = client
        /\ x.spawned = pydanticCall[w].spawned
    BY <1>2 DEF PydanticBackendACall
  <2>4. pydanticCall' = [pydanticCall EXCEPT ![w] = x]
    BY <1>2, <2>1
  <2>5. pydanticPending' = pydanticPending /\ UNCHANGED <<pydanticCloser, pydanticOverlapped>>
    BY <1>6 DEF PydanticBackend!TaskBegins
  <2>6. pydanticCall[w].spawned \/ (w \notin pydanticPending /\ \A c \in Recalls : w \notin pydanticCloser[c].waits)
    BY <1>3
  <2>. HIDE DEF x
  <2>. QED BY <2>1, <2>2, <2>3, <2>4, <2>5, <2>6, PydanticBackendCallsMove
<1>7. ASSUME NEW w \in Calls
      PROVE  /\ PydanticBackend!Ended(pydanticCall[w]) \in PydanticBackendACall /\ PydanticBackend!Ended(pydanticCall[w]).at \notin {"out", "queued"}
             /\ PydanticBackend!Ended(pydanticCall[w]).client = None /\ PydanticBackend!Ended(pydanticCall[w]).spawned = pydanticCall[w].spawned
             /\ pydanticCall[w].spawned => PydanticBackend!Ended(pydanticCall[w]).at = "ended"
             /\ PydanticBackend!Ended(pydanticCall[w]).at = "free" => ~pydanticCall[w].spawned
  <2>1. CASE pydanticCall[w].spawned
    <3>1. PydanticBackend!Ended(pydanticCall[w]) = [[pydanticCall[w] EXCEPT !.at = "ended"] EXCEPT !.client = None]
      BY <1>2, <2>1 DEF PydanticBackend!Ended
    <3>2. ASSUME NEW y \in PydanticBackendACall
          PROVE  /\ [y EXCEPT !.at = "ended"] \in PydanticBackendACall /\ [y EXCEPT !.at = "ended"].at = "ended"
                 /\ [y EXCEPT !.at = "ended"].spawned = y.spawned
      BY DEF PydanticBackendACall
    <3>3. ASSUME NEW y \in PydanticBackendACall
          PROVE  /\ [y EXCEPT !.client = None] \in PydanticBackendACall /\ [y EXCEPT !.client = None].at = y.at
                 /\ [y EXCEPT !.client = None].spawned = y.spawned
                 /\ [y EXCEPT !.client = None].client = None
      BY DEF PydanticBackendACall
    <3> DEFINE z == [pydanticCall[w] EXCEPT !.at = "ended"]
    <3>4. z \in PydanticBackendACall /\ z.at = "ended" /\ z.spawned = pydanticCall[w].spawned
      BY <1>2, <3>2
    <3>5. PydanticBackend!Ended(pydanticCall[w]) = [z EXCEPT !.client = None]
      BY <3>1
    <3>. HIDE DEF z
    <3>. QED BY <2>1, <3>3, <3>4, <3>5
  <2>2. CASE ~pydanticCall[w].spawned
    <3>1. pydanticCall[w].spawned \in BOOLEAN
      BY <1>2 DEF PydanticBackendACall
    <3>2. PydanticBackend!Ended(pydanticCall[w]) = PydanticBackend!NoCall
      BY <2>2 DEF PydanticBackend!Ended
    <3>3. PydanticBackend!NoCall \in PydanticBackendACall /\ PydanticBackend!NoCall.at = "free" /\ PydanticBackend!NoCall.client = None /\ PydanticBackend!NoCall.spawned = FALSE
      BY DEF PydanticBackend!NoCall, PydanticBackendACall
    <3>. QED BY <2>2, <3>1, <3>2, <3>3
  <2>. QED BY <2>1, <2>2
<1>8. ASSUME NEW w \in Calls, PydanticBackend!CallEnds(w) PROVE PydanticBackendInv'
  <2> DEFINE x == PydanticBackend!Ended(pydanticCall[w])
  <2>1. /\ x \in PydanticBackendACall /\ x.at \notin {"out", "queued"} /\ x.client = None
        /\ x.spawned = pydanticCall[w].spawned /\ (pydanticCall[w].spawned => x.at = "ended")
        /\ (x.at = "free" => ~pydanticCall[w].spawned)
    BY <1>7
  <2>2. pydanticPending' = pydanticPending /\ UNCHANGED <<PydanticBackend!poolVars, pydanticCloser, pydanticOverlapped>>
        /\ pydanticCall' = [pydanticCall EXCEPT ![w] = x]
    BY <1>8 DEF PydanticBackend!CallEnds
  <2>3. x.spawned \/ (w \notin pydanticPending /\ \A c \in Recalls : w \notin pydanticCloser[c].waits)
    BY <1>3, <2>1
  <2>. HIDE DEF x
  <2>. QED BY <1>2, <2>1, <2>2, <2>3, PydanticBackendCallsMove
<1>9. ASSUME NEW w \in Calls, PydanticBackend!Settle(w) PROVE PydanticBackendInv'
  <2>1. /\ pydanticCall[w].at = "ended" /\ pydanticCall' = [pydanticCall EXCEPT ![w] = PydanticBackend!NoCall] /\ pydanticPending' = pydanticPending \ {w}
        /\ pydanticCloser' = [c \in Recalls |-> [pydanticCloser[c] EXCEPT !.waits = pydanticCloser[c].waits \ {w}]]
        /\ UNCHANGED <<pydanticClients, built, pydanticClosed, pydanticOverlapped>>
    BY <1>9 DEF PydanticBackend!Settle, PydanticBackend!poolVars
  <2>2. /\ PydanticBackend!NoCall \in PydanticBackendACall /\ PydanticBackend!NoCall.at = "free" /\ PydanticBackend!NoCall.client = None /\ ~PydanticBackend!NoCall.spawned
    BY DEF PydanticBackend!NoCall, PydanticBackendACall
  <2>3. /\ pydanticCall' \in [Calls -> PydanticBackendACall] /\ pydanticCall'[w] = PydanticBackend!NoCall /\ \A v \in Calls \ {w} : pydanticCall'[v] = pydanticCall[v]
    BY <1>2, <2>1, <2>2
  <2>4. \A y \in PydanticBackendClosing : /\ [y EXCEPT !.waits = y.waits \ {w}] \in PydanticBackendClosing
                                          /\ [y EXCEPT !.waits = y.waits \ {w}].at = y.at
                                          /\ [y EXCEPT !.waits = y.waits \ {w}].todo = y.todo
                                          /\ [y EXCEPT !.waits = y.waits \ {w}].waits = y.waits \ {w}
    BY DEF PydanticBackendClosing
  <2>5. /\ pydanticCloser' \in [Recalls -> PydanticBackendClosing]
        /\ \A c \in Recalls : /\ pydanticCloser'[c].at = pydanticCloser[c].at /\ pydanticCloser'[c].todo = pydanticCloser[c].todo
                              /\ pydanticCloser'[c].waits = pydanticCloser[c].waits \ {w}
    BY <1>2, <2>1, <2>4
  <2>6. PydanticBackend!Cached' = PydanticBackend!Cached
    BY <2>1 DEF PydanticBackend!Cached
  <2>7. PydanticBackend!TypeOK'
    <3>1. /\ PydanticBackend!Cached' \subseteq PydanticBackend!Clients /\ built' \in [Tenants -> 0..MaxBuilt]
          /\ (\A k \in PydanticBackend!Cached' : k[2] <= built'[k[1]]) /\ pydanticClosed' \subseteq PydanticBackend!Clients
          /\ pydanticOverlapped' \subseteq Recalls
      BY <1>1, <2>1, <2>6 DEF PydanticBackend!TypeOK
    <3>2. \A v \in Calls : /\ pydanticCall'[v].at \in {"free", "queued", "out", "ended"}
                           /\ pydanticCall'[v].client \in PydanticBackend!Clients <=> pydanticCall'[v].at = "out"
      <4>1. pydanticCall'[w].at = "free" /\ pydanticCall'[w].client \notin PydanticBackend!Clients
        BY <1>2, <2>2, <2>3
      <4>2. \A v \in Calls \ {w} : /\ pydanticCall'[v].at \in {"free", "queued", "out", "ended"}
                                   /\ pydanticCall'[v].client \in PydanticBackend!Clients <=> pydanticCall'[v].at = "out"
        BY <1>1, <2>3 DEF PydanticBackend!TypeOK
      <4>. QED BY <4>1, <4>2
    <3>3. \A v \in pydanticPending' : v \in Calls /\ pydanticCall'[v].spawned
      BY <1>1, <2>1, <2>3 DEF PydanticBackend!TypeOK
    <3>4. ASSUME NEW c \in Recalls
          PROVE  /\ pydanticCloser'[c].at \in {"idle", "draining", "closing"}
                 /\ pydanticCloser'[c].todo \subseteq PydanticBackend!Clients \ pydanticClosed'
      BY <1>1, <2>1, <2>5 DEF PydanticBackend!TypeOK
    <3>5. ASSUME NEW c \in Recalls, NEW v \in pydanticCloser'[c].waits
          PROVE  v \in Calls /\ pydanticCall'[v].spawned /\ v \notin pydanticPending'
      BY <1>1, <2>1, <2>3, <2>5 DEF PydanticBackend!TypeOK
    <3>6. pydanticPending' \subseteq {v \in Calls : pydanticCall'[v].spawned}
      BY <3>3
    <3>7. \A c \in Recalls : pydanticCloser'[c].waits
                                \subseteq {v \in Calls : pydanticCall'[v].spawned} \ pydanticPending'
      BY <3>5
    <3>. QED BY <3>1, <3>2, <3>4, <3>6, <3>7 DEF PydanticBackend!TypeOK
  <2>8. PydanticBackendPooled' /\ PydanticBackendTaken'
    <3>1. UNCHANGED <<pydanticClients, built, pydanticClosed, pydanticOverlapped>>
      BY <2>1
    <3>2. PydanticBackendPooled'
      BY <1>1, <3>1 DEF PydanticBackendPooled
    <3>3. \A c \in Recalls : /\ pydanticCloser[c].at # "draining" => pydanticCloser'[c].waits = {}
                             /\ pydanticCloser[c].at # "closing" => pydanticCloser[c].todo = {}
      BY <1>1, <2>5 DEF PydanticBackendTaken
    <3>4. \A c \in Recalls : /\ PydanticBackend!Cached \cap pydanticCloser[c].todo = {}
                             /\ \A k \in pydanticCloser[c].todo : k[2] <= built[k[1]]
      BY <1>1 DEF PydanticBackendTaken
    <3>5. \A c \in Recalls : \A d \in Recalls \ {c} :
            /\ pydanticCloser[c].todo \cap pydanticCloser[d].todo = {}
            /\ pydanticCloser[c].at # "idle" /\ pydanticCloser[d].at # "idle" => c \in pydanticOverlapped
      BY <1>1 DEF PydanticBackendTaken
    <3>. QED BY <2>5, <2>6, <3>1, <3>2, <3>3, <3>4, <3>5 DEF PydanticBackendTaken
  <2>9. PydanticBackendHeld'
    <3>1. ASSUME NEW v \in Calls, pydanticCall'[v].spawned, pydanticCall'[v].at # "ended"
          PROVE  v \in pydanticPending' \/ \E c \in Recalls : v \in pydanticCloser'[c].waits
      <4>1. v # w /\ pydanticCall'[v] = pydanticCall[v]
        BY <2>2, <2>3, <3>1
      <4>2. v \in pydanticPending \/ \E c \in Recalls : v \in pydanticCloser[c].waits
        BY <1>1, <3>1, <4>1 DEF PydanticBackendHeld
      <4>. QED BY <2>1, <2>5, <4>1, <4>2
    <3>. QED BY <1>1, <2>2, <2>3, <3>1 DEF PydanticBackendHeld
  <2>10. PydanticBackendApart'
    BY <1>1, <2>1, <2>2, <2>3, <2>5 DEF PydanticBackendApart
  <2>. QED BY <2>7, <2>8, <2>9, <2>10 DEF PydanticBackendInv
<1>10. ASSUME NEW c \in Recalls, PydanticBackend!Aclose(c) PROVE PydanticBackendInv'
  <2>1. pydanticCloser[c].at = "idle" /\ PydanticBackend!DrainLooks(c) /\ pydanticCloser[c].waits = {}
    BY <1>1, <1>10 DEF PydanticBackend!Aclose, PydanticBackendTaken
  <2>2. PydanticBackendNoted(c)
    BY <1>1, <1>10 DEF PydanticBackend!Aclose, PydanticBackend!TypeOK, PydanticBackendNoted
  <2>. QED BY <2>1, <2>2, PydanticBackendLooks
<1>11. ASSUME NEW c \in Recalls, PydanticBackend!DrainWakes(c) PROVE PydanticBackendInv'
  <2>1. pydanticCloser[c].at = "draining" /\ PydanticBackend!DrainLooks(c) /\ pydanticCloser[c].waits = {}
    BY <1>11 DEF PydanticBackend!DrainWakes
  <2>2. PydanticBackendNoted(c)
    BY <1>1, <1>11, <2>1 DEF PydanticBackend!DrainWakes, PydanticBackend!TypeOK,
       PydanticBackendNoted, PydanticBackendTaken
  <2>. QED BY <2>1, <2>2, PydanticBackendLooks
<1>12. ASSUME NEW c \in Recalls, PydanticBackend!CloseNext(c) PROVE PydanticBackendInv'
  <2>1. PICK client \in pydanticCloser[c].todo :
          /\ pydanticCloser' = [pydanticCloser EXCEPT ![c].todo = pydanticCloser[c].todo \ {client}]
          /\ pydanticClosed' = pydanticClosed \cup {client}
    BY <1>12 DEF PydanticBackend!CloseNext
  <2> DEFINE x == [pydanticCloser[c] EXCEPT !.todo = pydanticCloser[c].todo \ {client}]
  <2>2. /\ x \in PydanticBackendClosing /\ x.at = pydanticCloser[c].at /\ x.waits = pydanticCloser[c].waits
        /\ x.todo = pydanticCloser[c].todo \ {client}
    BY <1>2 DEF PydanticBackendClosing
  <2>3. pydanticCloser' = [pydanticCloser EXCEPT ![c] = x] /\ UNCHANGED <<pydanticClients, built, pydanticCall, pydanticPending, pydanticOverlapped>>
    BY <1>12, <2>1 DEF PydanticBackend!CloseNext
  <2>. HIDE DEF x
  <2>4. /\ pydanticCloser' \in [Recalls -> PydanticBackendClosing] /\ pydanticCloser'[c] = x
        /\ \A d \in Recalls \ {c} : pydanticCloser'[d] = pydanticCloser[d]
    BY <1>2, <2>2, <2>3
  <2>5. /\ client \in PydanticBackend!Clients /\ client \notin PydanticBackend!Cached /\ client[2] <= built[client[1]]
        /\ \A d \in Recalls \ {c} : client \notin pydanticCloser[d].todo
    BY <1>1 DEF PydanticBackend!TypeOK, PydanticBackendTaken
  <2>6. PydanticBackend!Cached' = PydanticBackend!Cached
    BY <2>3 DEF PydanticBackend!Cached
  <2>7. PydanticBackend!TypeOK'
    BY <1>1, <2>1, <2>2, <2>3, <2>4, <2>5, <2>6 DEF PydanticBackend!TypeOK
  <2>8. PydanticBackendPooled'
    BY <1>1, <2>1, <2>3, <2>5 DEF PydanticBackendPooled, PydanticBackend!Cached
  <2>9. PydanticBackendHeld'
    BY <1>1, <2>2, <2>3, <2>4 DEF PydanticBackendHeld
  <2>10. PydanticBackendTaken'
    BY <1>1, <2>2, <2>3, <2>4, <2>6 DEF PydanticBackendTaken
  <2>11. PydanticBackendApart'
    BY <1>1, <2>2, <2>3, <2>4 DEF PydanticBackendApart
  <2>. QED BY <2>7, <2>8, <2>9, <2>10, <2>11 DEF PydanticBackendInv
\* An aclose is over.
<1>13. /\ PydanticBackend!NotClosing \in PydanticBackendClosing /\ PydanticBackend!NotClosing.at = "idle" /\ PydanticBackend!NotClosing.waits = {}
       /\ PydanticBackend!NotClosing.todo = {}
  BY DEF PydanticBackend!NotClosing, PydanticBackendClosing
<1>14. ASSUME NEW c \in Recalls, PydanticBackend!AcloseReturns(c) PROVE PydanticBackendInv'
  <2>1. /\ pydanticCloser[c].at = "closing" /\ pydanticCloser' = [pydanticCloser EXCEPT ![c] = PydanticBackend!NotClosing]
        /\ UNCHANGED <<pydanticClients, built, pydanticClosed, pydanticCall, pydanticPending, pydanticOverlapped>>
    BY <1>14 DEF PydanticBackend!AcloseReturns, PydanticBackend!poolVars
  <2>2. /\ pydanticCloser' \in [Recalls -> PydanticBackendClosing] /\ pydanticCloser'[c] = PydanticBackend!NotClosing
        /\ \A d \in Recalls \ {c} : pydanticCloser'[d] = pydanticCloser[d]
    BY <1>2, <1>13, <2>1
  <2>3. PydanticBackend!Cached' = PydanticBackend!Cached /\ pydanticCloser[c].waits = {}
    BY <1>1, <2>1 DEF PydanticBackend!Cached, PydanticBackendTaken
  <2>4. PydanticBackend!TypeOK' /\ PydanticBackendPooled' /\ PydanticBackendApart'
    BY <1>1, <1>13, <2>1, <2>2, <2>3 DEF PydanticBackend!TypeOK, PydanticBackendPooled,
       PydanticBackendApart
  <2>5. PydanticBackendHeld'
    BY <1>1, <2>1, <2>2, <2>3 DEF PydanticBackendHeld
  <2>6. PydanticBackendTaken'
    BY <1>1, <1>13, <2>1, <2>2, <2>3 DEF PydanticBackendTaken
  <2>. QED BY <2>4, <2>5, <2>6 DEF PydanticBackendInv
<1>15. ASSUME NEW c \in Recalls, PydanticBackend!Cancelled(c) PROVE PydanticBackendInv'
  <2>1. /\ pydanticCloser' = [pydanticCloser EXCEPT ![c] = PydanticBackend!NotClosing]
        /\ pydanticCall' = [w \in Calls |-> IF w \in pydanticCloser[c].waits THEN PydanticBackend!Ended(pydanticCall[w]) ELSE pydanticCall[w]]
        /\ UNCHANGED <<pydanticClients, built, pydanticClosed, pydanticPending, pydanticOverlapped>>
    BY <1>15 DEF PydanticBackend!Cancelled, PydanticBackend!poolVars
  <2>2. /\ pydanticCloser' \in [Recalls -> PydanticBackendClosing] /\ pydanticCloser'[c] = PydanticBackend!NotClosing
        /\ \A d \in Recalls \ {c} : pydanticCloser'[d] = pydanticCloser[d]
    BY <1>2, <1>13, <2>1
  <2>3. PydanticBackend!Cached' = PydanticBackend!Cached
    BY <2>1 DEF PydanticBackend!Cached
  <2>4. \A w \in pydanticCloser[c].waits : w \in Calls /\ pydanticCall[w].spawned
    BY <1>1 DEF PydanticBackend!TypeOK
  <2>5. /\ pydanticCall' \in [Calls -> PydanticBackendACall]
        /\ \A w \in Calls :
             \/ w \notin pydanticCloser[c].waits /\ pydanticCall'[w] = pydanticCall[w]
             \/ /\ w \in pydanticCloser[c].waits /\ pydanticCall[w].spawned /\ pydanticCall'[w].spawned
                /\ pydanticCall'[w].at = "ended" /\ pydanticCall'[w].client = None
    BY <1>2, <1>7, <2>1, <2>4
  <2>6. PydanticBackend!TypeOK'
    <3>1. \A w \in Calls : /\ pydanticCall'[w].at \in {"free", "queued", "out", "ended"}
                           /\ pydanticCall'[w].client \in PydanticBackend!Clients <=> pydanticCall'[w].at = "out"
                           /\ pydanticCall[w].spawned => pydanticCall'[w].spawned
      BY <1>1, <1>2, <2>5 DEF PydanticBackend!TypeOK
    <3>2. pydanticPending \subseteq {w \in Calls : pydanticCall'[w].spawned}
      BY <1>1, <3>1 DEF PydanticBackend!TypeOK
    <3>3. ASSUME NEW d \in Recalls
          PROVE  /\ pydanticCloser'[d].at \in {"idle", "draining", "closing"}
                 /\ pydanticCloser'[d].waits \subseteq {w \in Calls : pydanticCall'[w].spawned} \ pydanticPending
                 /\ pydanticCloser'[d].todo \subseteq PydanticBackend!Clients \ pydanticClosed
      BY <1>1, <1>13, <2>2, <3>1 DEF PydanticBackend!TypeOK
    <3>. QED BY <1>1, <2>1, <2>3, <3>1, <3>2, <3>3 DEF PydanticBackend!TypeOK
  <2>7. PydanticBackendPooled' /\ PydanticBackendTaken'
    BY <1>1, <1>13, <2>1, <2>2, <2>3 DEF PydanticBackendPooled, PydanticBackendTaken
  <2>8. PydanticBackendHeld'
    <3>1. ASSUME NEW w \in Calls, pydanticCall'[w].spawned, pydanticCall'[w].at # "ended"
          PROVE  w \in pydanticPending' \/ \E d \in Recalls : w \in pydanticCloser'[d].waits
      <4>1. pydanticCall'[w] = pydanticCall[w] /\ w \notin pydanticCloser[c].waits
        BY <2>5, <3>1
      <4>. QED BY <1>1, <2>1, <2>2, <3>1, <4>1 DEF PydanticBackendHeld
    <3>. QED BY <1>1, <2>5, <3>1 DEF PydanticBackendHeld
  <2>9. PydanticBackendApart'
    BY <1>1, <1>13, <2>1, <2>2, <2>5 DEF PydanticBackendApart
  <2>. QED BY <2>6, <2>7, <2>8, <2>9 DEF PydanticBackendInv
<1>16. CASE UNCHANGED backendVars
  <2>1. PydanticBackend!Cached' = PydanticBackend!Cached
    BY <1>16 DEF backendVars, PydanticBackend!Cached
  <2>. QED BY <1>1, <1>16, <2>1 DEF backendVars, PydanticBackendInv, PydanticBackend!TypeOK,
         PydanticBackendPooled, PydanticBackendHeld, PydanticBackendTaken, PydanticBackendApart
<1>. QED
  BY <1>4, <1>5, <1>6, <1>8, <1>9, <1>10, <1>11, <1>12, <1>14, <1>15, <1>16
     DEF PydanticBackend!Next

LEMMA PydanticBackendImplies ==
  ASSUME PydanticBackendInv PROVE PydanticBackend!TypeOK
BY DEF PydanticBackendInv

\* An aclose that is alone begins to close when no spawned write is left, and closes
\* no client such a write has.
LEMMA PydanticBackendDrains ==
  ASSUME PydanticBackend!BackendAssumption, PydanticBackendInv, [PydanticBackend!Next]_backendVars PROVE PydanticBackend!AcloseDrains
<1>1. PydanticBackend!TypeOK /\ PydanticBackendTaken /\ PydanticBackendApart /\ pydanticCloser \in [Recalls -> PydanticBackendClosing]
  BY DEF PydanticBackendInv, PydanticBackendTaken
<1>2. PydanticBackend!TypeOK' /\ PydanticBackendTaken' /\ PydanticBackendApart'
  BY PydanticBackendKeeps DEF PydanticBackendInv
<1>3. ASSUME NEW c \in Recalls \ pydanticOverlapped', pydanticCloser'[c].at = "closing", pydanticCloser[c].at # "closing",
             NEW w \in Calls, pydanticCall[w].spawned
      PROVE  pydanticCall[w].at = "ended"
  <2>1. ASSUME PydanticBackend!Aclose(c) \/ PydanticBackend!DrainWakes(c) PROVE pydanticCall[w].at = "ended"
    <3>1. PydanticBackend!DrainLooks(c) /\ pydanticCloser[c].waits = {}
      BY <1>1, <2>1 DEF PydanticBackend!Aclose, PydanticBackend!DrainWakes, PydanticBackendTaken
    <3>2. PydanticBackendNoted(c)
      BY <1>1, <2>1 DEF PydanticBackend!Aclose, PydanticBackend!DrainWakes,
         PydanticBackend!TypeOK, PydanticBackendNoted, PydanticBackendTaken
    <3>. QED BY <1>3, <3>1, <3>2, PydanticBackendLooks
  <2>2. ASSUME NEW d \in Recalls \ {c}, PydanticBackend!DrainLooks(d) PROVE FALSE
    BY <1>1, <1>3, <2>2 DEF PydanticBackend!DrainLooks, PydanticBackend!Gather,
       PydanticBackend!Take
  <2>3. ASSUME NEW d \in Recalls, PydanticBackend!CloseNext(d) \/ PydanticBackend!AcloseReturns(d) \/ PydanticBackend!Cancelled(d) PROVE FALSE
    <3>1. ASSUME PydanticBackend!CloseNext(d) PROVE FALSE
      <4>1. pydanticCloser'[c].at = pydanticCloser[c].at
        BY <1>1, <3>1 DEF PydanticBackend!CloseNext, PydanticBackendClosing
      <4>. QED BY <1>3, <4>1
    <3>2. ASSUME PydanticBackend!AcloseReturns(d) \/ PydanticBackend!Cancelled(d) PROVE FALSE
      BY <1>1, <1>3, <3>2 DEF PydanticBackend!AcloseReturns, PydanticBackend!Cancelled,
         PydanticBackend!NotClosing
    <3>. QED BY <2>3, <3>1, <3>2
  <2>4. ASSUME NEW v \in Calls, PydanticBackend!Settle(v) PROVE FALSE
    <3>1. pydanticCloser'[c].at = pydanticCloser[c].at
      BY <1>1, <2>4 DEF PydanticBackend!Settle, PydanticBackendClosing
    <3>. QED BY <1>3, <3>1
  <2>5. ASSUME UNCHANGED pydanticCloser PROVE FALSE
    BY <1>3, <2>5
  <2>. QED BY <2>1, <2>2, <2>3, <2>4, <2>5 DEF PydanticBackend!Next, PydanticBackend!Aclose,
         PydanticBackend!DrainWakes, PydanticBackend!Await, PydanticBackend!Spawn,
         PydanticBackend!TaskBegins,
              PydanticBackend!CallEnds, backendVars
<1>4. ASSUME NEW c \in Recalls \ pydanticOverlapped', pydanticCloser'[c].at = "closing",
             NEW w \in Calls, pydanticCall'[w].spawned, pydanticCall'[w].at = "out"
      PROVE  pydanticCall'[w].client \notin pydanticCloser'[c].todo \cup (pydanticClosed' \ pydanticClosed)
  <2>1. pydanticCall'[w].client \notin pydanticCloser'[c].todo
    BY <1>2, <1>4 DEF PydanticBackendApart
  <2>2. ASSUME NEW d \in Recalls, PydanticBackend!CloseNext(d) PROVE pydanticCall'[w].client \notin pydanticClosed' \ pydanticClosed
    <3>1. PICK client \in pydanticCloser[d].todo :
            /\ pydanticCloser[d].at = "closing"
            /\ pydanticCloser' = [pydanticCloser EXCEPT ![d].todo = pydanticCloser[d].todo \ {client}]
            /\ pydanticClosed' = pydanticClosed \cup {client} /\ pydanticCall' = pydanticCall /\ pydanticOverlapped' = pydanticOverlapped
      BY <2>2 DEF PydanticBackend!CloseNext
    <3>2. pydanticCloser'[d].at = "closing"
      BY <1>1, <3>1 DEF PydanticBackendClosing
    <3>3. d = c
      BY <1>2, <1>4, <3>2 DEF PydanticBackendTaken
    <3>. QED BY <1>1, <1>4, <3>1, <3>3 DEF PydanticBackendApart
  <2>3. ASSUME UNCHANGED pydanticClosed PROVE pydanticCall'[w].client \notin pydanticClosed' \ pydanticClosed
    BY <2>3
  <2>4. (\E d \in Recalls : PydanticBackend!CloseNext(d)) \/ UNCHANGED pydanticClosed
    BY DEF PydanticBackend!Next, PydanticBackend!Await, PydanticBackend!Spawn,
       PydanticBackend!TaskBegins, PydanticBackend!CallEnds, PydanticBackend!Settle,
       PydanticBackend!Aclose, PydanticBackend!DrainWakes, PydanticBackend!DrainLooks,
       PydanticBackend!Gather,
           PydanticBackend!Take, PydanticBackend!AcloseReturns, PydanticBackend!Cancelled, PydanticBackend!ClientFor, PydanticBackend!poolVars, backendVars
  <2>. QED BY <2>1, <2>2, <2>3, <2>4
<1>. QED BY <1>3, <1>4 DEF PydanticBackend!AcloseDrains

\* A behaviour of the whole that is this part's is a behaviour of this part.
LEMMA PydanticBackendBegins ==
  ASSUME Init, part = "PydanticBackend" PROVE PydanticBackend!Init
BY DEF Init

LEMMA PydanticBackendGoes ==
  ASSUME [Next]_<<part, recallGroup, persistGroup, userGroup, callGroup>>, part = "PydanticBackend"
  PROVE  part' = "PydanticBackend" /\ [PydanticBackend!Next]_backendVars
<1>1. CASE Next
  BY <1>1 DEF Next, RecallNext, PersistNext, UserNext, CallNext, persistGroup
<1>2. CASE UNCHANGED <<part, recallGroup, persistGroup, userGroup, callGroup>>
  BY <1>2 DEF persistGroup
<1>. QED BY <1>1, <1>2

------------------------------------------------------------------------------
\* The writes of the Agent Framework provider.

FrameworkStoreDisposal == [at : FrameworkStore!DisposeStages, waits : SUBSET Calls]

\* A write that goes on behind its turn is in the set or with a disposal that waits
\* for it, and is handed over by then; disposals that overlap are known to.
FrameworkStoreHeld ==
  /\ frameworkAwaitPersist \in BOOLEAN /\ ownsClient \in BOOLEAN
  /\ disposed \in BOOLEAN /\ clientOpen \in BOOLEAN
  /\ disposer \in [Recalls -> FrameworkStoreDisposal]
  /\ \A w \in frameworkRunning : store[w] \in {"added", "handed"} =>
       w \in frameworkPending \/ \E d \in Recalls : w \in disposer[d].waits
  /\ \A d \in Recalls :
       /\ \A w \in disposer[d].waits : store[w] \in {"added", "handed"}
       /\ disposer[d].at \in {"draining", "drained"} => disposed
       /\ \A e \in Recalls : /\ d # e
                             /\ disposer[d].at # "idle" /\ disposer[e].at # "idle"
                             => d \in frameworkOverlapped
FrameworkStoreInv == FrameworkStore!TypeOK /\ FrameworkStoreHeld

\* Where one disposal stands now; the others are where they were.
FrameworkStoreMoved(d, at, waits) ==
  /\ disposer' \in [Recalls -> FrameworkStoreDisposal]
  /\ disposer'[d].at = at /\ disposer'[d].waits = waits
  /\ \A e \in Recalls \ {d} : disposer'[e] = disposer[e]

LEMMA FrameworkStoreMoving ==
  ASSUME FrameworkStoreHeld, NEW d \in Recalls, NEW at \in FrameworkStore!DisposeStages, NEW waits \in SUBSET Calls
  PROVE  /\ disposer' = [disposer EXCEPT ![d] = [at |-> at, waits |-> waits]]
              => FrameworkStoreMoved(d, at, waits)
         /\ disposer' = [disposer EXCEPT ![d].at = at] => FrameworkStoreMoved(d, at, disposer[d].waits)
         /\ disposer' = [disposer EXCEPT ![d].waits = waits] => FrameworkStoreMoved(d, disposer[d].at, waits)
<1>1. disposer \in [Recalls -> FrameworkStoreDisposal] /\ disposer[d] \in FrameworkStoreDisposal
  BY DEF FrameworkStoreHeld
<1>2. /\ [at |-> at, waits |-> waits] \in FrameworkStoreDisposal
      /\ [disposer[d] EXCEPT !.at = at] = [at |-> at, waits |-> disposer[d].waits]
      /\ [disposer[d] EXCEPT !.waits = waits] = [at |-> disposer[d].at, waits |-> waits]
      /\ [at |-> at, waits |-> disposer[d].waits] \in FrameworkStoreDisposal
      /\ [at |-> disposer[d].at, waits |-> waits] \in FrameworkStoreDisposal
  BY <1>1 DEF FrameworkStoreDisposal
<1>3. ASSUME NEW a, NEW v, [at |-> a, waits |-> v] \in FrameworkStoreDisposal,
             disposer' = [disposer EXCEPT ![d] = [at |-> a, waits |-> v]]
      PROVE  FrameworkStoreMoved(d, a, v)
  BY <1>1, <1>3 DEF FrameworkStoreMoved
<1>4. /\ [disposer EXCEPT ![d].at = at] = [disposer EXCEPT ![d] = [disposer[d] EXCEPT !.at = at]]
      /\ [disposer EXCEPT ![d].waits = waits]
           = [disposer EXCEPT ![d] = [disposer[d] EXCEPT !.waits = waits]]
  OBVIOUS
<1>. QED BY <1>2, <1>3, <1>4

LEMMA FrameworkStoreStarts ==
  ASSUME FrameworkStore!Init PROVE FrameworkStoreInv
<1>1. FrameworkStore!NotDisposing \in FrameworkStoreDisposal /\ FrameworkStore!NotDisposing.at = "idle" /\ FrameworkStore!NotDisposing.waits = {}
  BY DEF FrameworkStore!NotDisposing, FrameworkStoreDisposal, FrameworkStore!DisposeStages
<1>2. disposer \in [Recalls -> FrameworkStoreDisposal] /\ \A d \in Recalls : disposer[d] = FrameworkStore!NotDisposing
  BY <1>1 DEF FrameworkStore!Init
<1>3. FrameworkStore!TypeOK
  BY <1>1, <1>2 DEF FrameworkStore!Init, FrameworkStore!TypeOK, FrameworkStore!StoreStages,
     FrameworkStore!DisposeStages
<1>4. FrameworkStoreHeld
  BY <1>1, <1>2 DEF FrameworkStore!Init, FrameworkStoreHeld
<1>. QED BY <1>3, <1>4 DEF FrameworkStoreInv

LEMMA FrameworkStoreKeeps ==
  ASSUME FrameworkStoreInv, [FrameworkStore!Next]_frameworkVars PROVE FrameworkStoreInv'
<1>1. FrameworkStore!TypeOK /\ FrameworkStoreHeld
  BY DEF FrameworkStoreInv
<1>2. store \in [Calls -> FrameworkStore!StoreStages] /\ disposer \in [Recalls -> FrameworkStoreDisposal]
  BY <1>1 DEF FrameworkStore!TypeOK, FrameworkStoreHeld
<1>3. ASSUME NEW w \in Calls, FrameworkStore!StoreAIContext(w) PROVE FrameworkStoreInv'
  <2>1. /\ store[w] = "free" /\ frameworkRunning' = frameworkRunning \cup {w}
        /\ store' = [store EXCEPT ![w] = IF frameworkAwaitPersist THEN "awaiting" ELSE "started"]
        /\ UNCHANGED <<frameworkAwaitPersist, ownsClient, frameworkPending, disposed, clientOpen, disposer, frameworkOverlapped>>
    BY <1>3 DEF FrameworkStore!StoreAIContext, FrameworkStore!disposeVars
  <2>2. store' \in [Calls -> FrameworkStore!StoreStages] /\ store'[w] \in {"awaiting", "started"}
        /\ \A v \in Calls \ {w} : store'[v] = store[v]
    BY <1>2, <2>1 DEF FrameworkStore!StoreStages
  <2>3. FrameworkStore!TypeOK'
    BY <1>1, <2>1, <2>2 DEF FrameworkStore!TypeOK
  <2>4. FrameworkStoreHeld'
    BY <1>1, <2>1, <2>2 DEF FrameworkStore!TypeOK, FrameworkStoreHeld, FrameworkStoreDisposal
  <2>. QED BY <2>3, <2>4 DEF FrameworkStoreInv
<1>4. ASSUME NEW w \in Calls, FrameworkStore!PersistEnds(w) PROVE FrameworkStoreInv'
  <2>1. /\ w \in frameworkRunning /\ frameworkRunning' = frameworkRunning \ {w}
        /\ store' = [store EXCEPT ![w] = IF store[w] = "awaiting" THEN "free" ELSE store[w]]
        /\ UNCHANGED <<frameworkAwaitPersist, ownsClient, frameworkPending, disposed, clientOpen, disposer, frameworkOverlapped>>
    BY <1>4 DEF FrameworkStore!PersistEnds, FrameworkStore!disposeVars
  <2>2. /\ store' \in [Calls -> FrameworkStore!StoreStages]
        /\ store'[w] = IF store[w] = "awaiting" THEN "free" ELSE store[w]
        /\ \A v \in Calls \ {w} : store'[v] = store[v]
    BY <1>2, <2>1 DEF FrameworkStore!StoreStages
  <2>3. FrameworkStore!TypeOK'
    BY <1>1, <2>1, <2>2 DEF FrameworkStore!TypeOK
  <2>4. FrameworkStoreHeld'
    BY <1>1, <2>1, <2>2 DEF FrameworkStore!TypeOK, FrameworkStoreHeld, FrameworkStoreDisposal
  <2>. QED BY <2>3, <2>4 DEF FrameworkStoreInv
<1>5. ASSUME NEW w \in Calls, FrameworkStore!AddPending(w) PROVE FrameworkStoreInv'
  <2>1. /\ store[w] = "started" /\ frameworkPending' = frameworkPending \cup {w}
        /\ UNCHANGED <<frameworkAwaitPersist, ownsClient, frameworkRunning, disposed, clientOpen, disposer, frameworkOverlapped>>
    BY <1>5 DEF FrameworkStore!AddPending, FrameworkStore!disposeVars
  <2>2. /\ store' \in [Calls -> FrameworkStore!StoreStages] /\ store'[w] = "added"
        /\ \A v \in Calls \ {w} : store'[v] = store[v]
    BY <1>2, <1>5 DEF FrameworkStore!AddPending, FrameworkStore!StoreStages
  <2>3. \A d \in Recalls : w \notin disposer[d].waits
    BY <1>1, <2>1 DEF FrameworkStoreHeld
  <2>4. FrameworkStore!TypeOK'
    BY <1>1, <2>1, <2>2, <2>3 DEF FrameworkStore!TypeOK
  <2>5. FrameworkStoreHeld'
    BY <1>1, <2>1, <2>2 DEF FrameworkStore!TypeOK, FrameworkStoreHeld, FrameworkStoreDisposal
  <2>. QED BY <2>4, <2>5 DEF FrameworkStoreInv
<1>6. ASSUME NEW w \in Calls, FrameworkStore!ContinueWith(w) PROVE FrameworkStoreInv'
  <2>1. /\ store[w] = "added"
        /\ UNCHANGED <<frameworkAwaitPersist, ownsClient, frameworkRunning, frameworkPending, disposed, clientOpen, disposer,
                       frameworkOverlapped>>
    BY <1>6 DEF FrameworkStore!ContinueWith, FrameworkStore!disposeVars
  <2>2. /\ store' \in [Calls -> FrameworkStore!StoreStages] /\ store'[w] = "handed"
        /\ \A v \in Calls \ {w} : store'[v] = store[v]
    BY <1>2, <1>6 DEF FrameworkStore!ContinueWith, FrameworkStore!StoreStages
  <2>3. FrameworkStore!TypeOK'
    BY <1>1, <2>1, <2>2 DEF FrameworkStore!TypeOK
  <2>4. FrameworkStoreHeld'
    BY <1>1, <2>1, <2>2 DEF FrameworkStore!TypeOK, FrameworkStoreHeld, FrameworkStoreDisposal
  <2>. QED BY <2>3, <2>4 DEF FrameworkStoreInv
<1>7. ASSUME NEW w \in Calls, FrameworkStore!Remove(w) PROVE FrameworkStoreInv'
  <2>1. /\ store[w] = "handed" /\ w \notin frameworkRunning /\ frameworkPending' = frameworkPending \ {w}
        /\ disposer' = [d \in Recalls |-> [disposer[d] EXCEPT !.waits = disposer[d].waits \ {w}]]
        /\ UNCHANGED <<frameworkAwaitPersist, ownsClient, frameworkRunning, disposed, clientOpen, frameworkOverlapped>>
    BY <1>7 DEF FrameworkStore!Remove
  <2>2. /\ store' \in [Calls -> FrameworkStore!StoreStages] /\ store'[w] = "free"
        /\ \A v \in Calls \ {w} : store'[v] = store[v]
    BY <1>2, <1>7 DEF FrameworkStore!Remove, FrameworkStore!StoreStages
  <2>3. \A x \in FrameworkStoreDisposal : /\ [x EXCEPT !.waits = x.waits \ {w}] \in FrameworkStoreDisposal
                                          /\ [x EXCEPT !.waits = x.waits \ {w}].at = x.at
                                          /\ [x EXCEPT !.waits = x.waits \ {w}].waits = x.waits \ {w}
    BY DEF FrameworkStoreDisposal
  <2>4. /\ disposer' \in [Recalls -> FrameworkStoreDisposal]
        /\ \A d \in Recalls : /\ disposer'[d].at = disposer[d].at
                              /\ disposer'[d].waits = disposer[d].waits \ {w}
    BY <1>2, <2>1, <2>3
  <2>5. FrameworkStore!TypeOK'
    BY <1>1, <2>1, <2>2, <2>4 DEF FrameworkStore!TypeOK
  <2>6. FrameworkStoreHeld'
    <3>1. \A d \in Recalls : disposer[d].waits \subseteq Calls
      BY <1>2 DEF FrameworkStoreDisposal
    <3>2. ASSUME NEW v \in frameworkRunning, store'[v] \in {"added", "handed"}
          PROVE  v \in frameworkPending' \/ \E d \in Recalls : v \in disposer'[d].waits
      <4>1. v \in Calls \ {w} /\ store'[v] = store[v]
        BY <1>1, <2>1, <2>2 DEF FrameworkStore!TypeOK
      <4>2. v \in frameworkPending \/ \E d \in Recalls : v \in disposer[d].waits
        BY <1>1, <3>2, <4>1 DEF FrameworkStoreHeld
      <4>. QED BY <2>1, <2>4, <4>1, <4>2
    <3>3. ASSUME NEW d \in Recalls
          PROVE  /\ \A v \in disposer'[d].waits : store'[v] \in {"added", "handed"}
                 /\ disposer'[d].at \in {"draining", "drained"} => disposed'
                 /\ \A e \in Recalls : /\ d # e
                                       /\ disposer'[d].at # "idle" /\ disposer'[e].at # "idle"
                                       => d \in frameworkOverlapped'
      <4>1. \A v \in disposer'[d].waits : store'[v] \in {"added", "handed"}
        BY <1>1, <2>2, <2>4, <3>1 DEF FrameworkStoreHeld
      <4>. QED BY <1>1, <2>1, <2>4, <4>1 DEF FrameworkStoreHeld
    <3>. QED BY <1>1, <2>1, <2>4, <3>2, <3>3 DEF FrameworkStoreHeld
  <2>. QED BY <2>5, <2>6 DEF FrameworkStoreInv
\* A disposal moves; the writes it waits for are those it took, or waited for before.
<1>8. ASSUME NEW d \in Recalls, NEW at \in FrameworkStore!DisposeStages, NEW waits \in SUBSET Calls,
             FrameworkStoreMoved(d, at, waits), UNCHANGED <<frameworkAwaitPersist, ownsClient, store, frameworkRunning>>,
             disposed' \in BOOLEAN, clientOpen' \in BOOLEAN, disposed => disposed',
             ~clientOpen' => disposed' /\ ownsClient, frameworkOverlapped' \subseteq Recalls,
             at \in {"draining", "drained"} => disposed', at # "draining" => waits = {},
             frameworkPending' \subseteq frameworkPending,
             waits \cap frameworkPending' = {}, waits \subseteq frameworkPending \cup disposer[d].waits,
             (frameworkPending \cup disposer[d].waits) \cap frameworkRunning \subseteq frameworkPending' \cup waits,
             disposer[d].at # "idle" \/ at = "idle" => frameworkOverlapped' = frameworkOverlapped,
             disposer[d].at = "idle" => \A e \in Recalls \ {d} :
               disposer[e].at # "idle" => {d, e} \subseteq frameworkOverlapped',
             frameworkOverlapped \ {d} \subseteq frameworkOverlapped'
      PROVE  FrameworkStoreInv'
  <2>1. /\ disposer' \in [Recalls -> FrameworkStoreDisposal]
        /\ disposer'[d].at = at /\ disposer'[d].waits = waits
        /\ \A e \in Recalls \ {d} : disposer'[e] = disposer[e]
    BY <1>8 DEF FrameworkStoreMoved
  <2>2. FrameworkStore!TypeOK'
    <3>1. ASSUME NEW e \in Recalls
          PROVE  /\ disposer'[e].at \in FrameworkStore!DisposeStages /\ disposer'[e].waits \subseteq Calls \ frameworkPending'
                 /\ disposer'[e].at # "draining" => disposer'[e].waits = {}
      BY <1>1, <1>8, <2>1 DEF FrameworkStore!TypeOK
    <3>. QED BY <1>1, <1>8, <3>1 DEF FrameworkStore!TypeOK, FrameworkStoreHeld
  <2>3. ASSUME NEW w \in frameworkRunning, store[w] \in {"added", "handed"}
        PROVE  w \in frameworkPending' \/ \E e \in Recalls : w \in disposer'[e].waits
    BY <1>1, <1>8, <2>1, <2>3 DEF FrameworkStoreHeld
  <2>4. ASSUME NEW e \in Recalls
        PROVE  /\ \A w \in disposer'[e].waits : store[w] \in {"added", "handed"}
               /\ disposer'[e].at \in {"draining", "drained"} => disposed'
    <3>1. \A w \in frameworkPending : store[w] \in {"added", "handed"}
      BY <1>1 DEF FrameworkStore!TypeOK
    <3>. QED BY <1>1, <1>8, <2>1, <3>1 DEF FrameworkStoreHeld
  <2>5. ASSUME NEW e \in Recalls, NEW f \in Recalls, e # f,
               disposer'[e].at # "idle", disposer'[f].at # "idle"
        PROVE  e \in frameworkOverlapped'
    BY <1>1, <1>8, <2>1, <2>5 DEF FrameworkStoreHeld
  <2>6. FrameworkStoreHeld'
    BY <1>1, <1>8, <2>1, <2>3, <2>4, <2>5 DEF FrameworkStoreHeld
  <2>. QED BY <2>2, <2>6 DEF FrameworkStoreInv
<1>9. ASSUME NEW d \in Recalls, FrameworkStore!Dispose(d) PROVE FrameworkStoreInv'
  <2>1. /\ disposer[d].at = "idle" /\ disposer' = [disposer EXCEPT ![d].at = "entered"]
        /\ UNCHANGED <<frameworkAwaitPersist, ownsClient, store, frameworkRunning, frameworkPending, disposed, clientOpen>>
    BY <1>9 DEF FrameworkStore!Dispose, FrameworkStore!storeVars
  <2>2. disposer[d].waits = {} /\ "entered" \in FrameworkStore!DisposeStages
    BY <1>1, <2>1 DEF FrameworkStore!TypeOK, FrameworkStore!DisposeStages
  <2>3. FrameworkStoreMoved(d, "entered", {})
    BY <1>1, <2>1, <2>2, FrameworkStoreMoving
  <2>4. /\ frameworkOverlapped' \subseteq Recalls /\ frameworkOverlapped \ {d} \subseteq frameworkOverlapped'
        /\ \A e \in Recalls \ {d} : disposer[e].at # "idle" => {d, e} \subseteq frameworkOverlapped'
    BY <1>1, <1>9 DEF FrameworkStore!Dispose, FrameworkStore!TypeOK
  <2>. QED BY <1>1, <1>8, <2>1, <2>2, <2>3, <2>4 DEF FrameworkStore!TypeOK, FrameworkStoreHeld
<1>10. ASSUME NEW d \in Recalls, FrameworkStore!SetDisposed(d) PROVE FrameworkStoreInv'
  <2>1. /\ disposer[d].at = "entered" /\ disposer' = [disposer EXCEPT ![d].at = "draining"]
        /\ disposed' = TRUE
        /\ UNCHANGED <<frameworkAwaitPersist, ownsClient, store, frameworkRunning, frameworkPending, clientOpen, frameworkOverlapped>>
    BY <1>10 DEF FrameworkStore!SetDisposed, FrameworkStore!storeVars
  <2>2. disposer[d].waits = {} /\ "draining" \in FrameworkStore!DisposeStages
    BY <1>1, <2>1 DEF FrameworkStore!TypeOK, FrameworkStore!DisposeStages
  <2>3. FrameworkStoreMoved(d, "draining", {})
    BY <1>1, <2>1, <2>2, FrameworkStoreMoving
  <2>. QED BY <1>1, <1>8, <2>1, <2>2, <2>3 DEF FrameworkStore!TypeOK, FrameworkStoreHeld
<1>11. ASSUME NEW d \in Recalls, FrameworkStore!Drain(d) PROVE FrameworkStoreInv'
  <2>1. /\ disposer[d].at = "draining" /\ disposer[d].waits \cap frameworkRunning = {} /\ frameworkPending' = {}
        /\ UNCHANGED <<frameworkAwaitPersist, ownsClient, store, frameworkRunning, disposed, clientOpen, frameworkOverlapped>>
        /\ IF frameworkPending = {} THEN disposer' = [disposer EXCEPT ![d] = [at |-> "drained", waits |-> {}]]
                           ELSE disposer' = [disposer EXCEPT ![d].waits = frameworkPending]
    BY <1>11 DEF FrameworkStore!Drain, FrameworkStore!storeVars
  <2>2. "drained" \in FrameworkStore!DisposeStages /\ "draining" \in FrameworkStore!DisposeStages /\ frameworkPending \in SUBSET Calls
    BY <1>1 DEF FrameworkStore!TypeOK, FrameworkStore!DisposeStages
  <2>3. CASE frameworkPending = {}
    <3>1. FrameworkStoreMoved(d, "drained", {})
      BY <1>1, <2>1, <2>2, <2>3, FrameworkStoreMoving
    <3>. QED BY <1>1, <1>8, <2>1, <2>2, <2>3, <3>1 DEF FrameworkStore!TypeOK, FrameworkStoreHeld
  <2>4. CASE frameworkPending # {}
    <3>1. FrameworkStoreMoved(d, "draining", frameworkPending)
      BY <1>1, <2>1, <2>2, <2>4, FrameworkStoreMoving
    <3>. QED BY <1>1, <1>8, <2>1, <2>2, <3>1 DEF FrameworkStore!TypeOK, FrameworkStoreHeld
  <2>. QED BY <2>3, <2>4
<1>12. ASSUME NEW d \in Recalls, FrameworkStore!DisposeReturns(d) PROVE FrameworkStoreInv'
  <2>1. /\ disposer[d].at = "drained" /\ clientOpen' = (clientOpen /\ ~ownsClient)
        /\ disposer' = [disposer EXCEPT ![d] = [at |-> "idle", waits |-> {}]]
        /\ UNCHANGED <<frameworkAwaitPersist, ownsClient, store, frameworkRunning, frameworkPending, disposed, frameworkOverlapped>>
    BY <1>12 DEF FrameworkStore!DisposeReturns, FrameworkStore!NotDisposing,
       FrameworkStore!storeVars
  <2>2. disposer[d].waits = {} /\ "idle" \in FrameworkStore!DisposeStages
    BY <1>1, <2>1 DEF FrameworkStore!TypeOK, FrameworkStore!DisposeStages
  <2>3. FrameworkStoreMoved(d, "idle", {})
    BY <1>1, <2>1, <2>2, FrameworkStoreMoving
  <2>4. clientOpen' \in BOOLEAN /\ (~clientOpen' => disposed /\ ownsClient)
    BY <1>1, <2>1 DEF FrameworkStore!TypeOK, FrameworkStoreHeld
  <2>. QED BY <1>1, <1>8, <2>1, <2>2, <2>3, <2>4 DEF FrameworkStore!TypeOK, FrameworkStoreHeld
<1>13. CASE UNCHANGED frameworkVars
  BY <1>1, <1>13 DEF frameworkVars, FrameworkStoreInv, FrameworkStore!TypeOK, FrameworkStoreHeld
<1>. QED
  BY <1>3, <1>4, <1>5, <1>6, <1>7, <1>9, <1>10, <1>11, <1>12, <1>13 DEF FrameworkStore!Next

LEMMA FrameworkStoreImplies ==
  ASSUME FrameworkStoreInv PROVE FrameworkStore!TypeOK
BY DEF FrameworkStoreInv

\* Only the drain of a disposal ends its waiting, with nothing left in the set and
\* nobody else who could hold a write.
LEMMA FrameworkStoreDrains ==
  ASSUME FrameworkStoreInv, [FrameworkStore!Next]_frameworkVars PROVE FrameworkStore!DisposeDrains
<1>. SUFFICES ASSUME NEW d \in Recalls \ frameworkOverlapped,
                     disposer[d].at = "draining", disposer'[d].at = "drained",
                     NEW w \in frameworkRunning, store[w] = "handed"
              PROVE  FALSE
  BY DEF FrameworkStore!DisposeDrains
<1>1. FrameworkStore!TypeOK /\ FrameworkStoreHeld /\ disposer \in [Recalls -> FrameworkStoreDisposal]
  BY DEF FrameworkStoreInv, FrameworkStoreHeld
<1>2. w \in frameworkPending \/ \E e \in Recalls : w \in disposer[e].waits
  BY <1>1 DEF FrameworkStoreHeld
<1>3. \A e \in Recalls : e # d => disposer[e].waits = {}
  BY <1>1 DEF FrameworkStoreHeld, FrameworkStore!TypeOK
<1>4. ~FrameworkStore!Drain(d)
  <2>1. ASSUME FrameworkStore!Drain(d) PROVE FALSE
    <3>1. frameworkPending # {} \/ w \in disposer[d].waits
      BY <1>2, <1>3
    <3>2. disposer[d].waits \cap frameworkRunning = {}
      BY <2>1 DEF FrameworkStore!Drain
    <3>3. disposer' = [disposer EXCEPT ![d].waits = frameworkPending]
      BY <2>1, <3>1, <3>2 DEF FrameworkStore!Drain
    <3>. QED BY <1>1, <3>3 DEF FrameworkStoreDisposal
  <2>. QED BY <2>1
<1>5. ASSUME NEW e \in Recalls, e # d, disposer'[d] = disposer[d] PROVE FALSE
  BY <1>5
<1>6. ASSUME NEW e \in Recalls PROVE ~FrameworkStore!Drain(e) /\ ~FrameworkStore!DisposeReturns(e)
  <2>1. CASE e # d
    BY <1>1, <2>1 DEF FrameworkStore!Drain, FrameworkStore!DisposeReturns
  <2>2. CASE e = d
    BY <1>4, <2>2 DEF FrameworkStore!DisposeReturns
  <2>. QED BY <2>1, <2>2
<1>7. ASSUME NEW e \in Recalls PROVE ~FrameworkStore!Dispose(e) /\ ~FrameworkStore!SetDisposed(e)
  <2>1. CASE e # d
    BY <1>1, <2>1 DEF FrameworkStore!Dispose, FrameworkStore!SetDisposed
  <2>2. CASE e = d
    BY <2>2 DEF FrameworkStore!Dispose, FrameworkStore!SetDisposed
  <2>. QED BY <2>1, <2>2
<1>8. ASSUME NEW v \in Calls, FrameworkStore!Remove(v) PROVE FALSE
  <2>1. disposer'[d].at = disposer[d].at
    BY <1>1, <1>8 DEF FrameworkStore!Remove, FrameworkStoreDisposal
  <2>. QED BY <2>1
<1>9. ASSUME UNCHANGED disposer PROVE FALSE
  BY <1>9
<1>. QED BY <1>6, <1>7, <1>8, <1>9 DEF FrameworkStore!Next, FrameworkStore!StoreAIContext,
       FrameworkStore!PersistEnds, FrameworkStore!AddPending,
            FrameworkStore!ContinueWith, FrameworkStore!disposeVars, frameworkVars

\* A behaviour of the whole that is this part's is a behaviour of this part.
LEMMA FrameworkStoreBegins ==
  ASSUME Init, part = "FrameworkStore" PROVE FrameworkStore!Init
BY DEF Init

LEMMA FrameworkStoreGoes ==
  ASSUME [Next]_<<part, recallGroup, persistGroup, userGroup, callGroup>>, part = "FrameworkStore"
  PROVE  part' = "FrameworkStore" /\ [FrameworkStore!Next]_frameworkVars
<1>1. CASE Next
  BY <1>1 DEF Next, RecallNext, PersistNext, UserNext, CallNext, persistGroup
<1>2. CASE UNCHANGED <<part, recallGroup, persistGroup, userGroup, callGroup>>
  BY <1>2 DEF persistGroup
<1>. QED BY <1>1, <1>2

------------------------------------------------------------------------------
\* The memory tools.

\* What was acknowledged has landed, before and after the reply.
MemoryToolsInv ==
  /\ MemoryTools!TypeOK
  /\ toolHost \in MemoryTools!Hosts /\ tool \in {"search", "add"}
  /\ texts \subseteq 1..MaxTexts
  /\ \A i \in texts : asked[i] \in {"added", "duplicate"} => i \in toolLanded
  /\ MemoryTools!ReportedIsStored

LEMMA MemoryToolsStarts ==
  ASSUME MemoryTools!ToolsAssumption, MemoryTools!Init PROVE MemoryToolsInv
<1>1. texts \subseteq 1..MaxTexts
  <2>1. PICK n \in 0..MaxTexts : texts = 1..n
    BY DEF MemoryTools!Init
  <2>. QED BY <2>1 DEF MemoryTools!ToolsAssumption
<1>2. /\ asked = [i \in 1..MaxTexts |-> "unsent"] /\ toolLanded = {}
      /\ reply.kind = "none" /\ reply.stored = {}
  BY DEF MemoryTools!Init, MemoryTools!NoReply
<1>3. MemoryTools!TypeOK
  BY <1>2 DEF MemoryTools!TypeOK, MemoryTools!States, MemoryTools!Kinds
<1>4. MemoryTools!ReportedIsStored
  BY <1>2 DEF MemoryTools!ReportedIsStored
<1>. QED BY <1>1, <1>2, <1>3, <1>4 DEF MemoryTools!Init, MemoryToolsInv

LEMMA MemoryToolsKeeps ==
  ASSUME MemoryToolsInv, [MemoryTools!Next]_toolVars PROVE MemoryToolsInv'
<1>1. /\ asked \in [1..MaxTexts -> MemoryTools!States] /\ toolLanded \subseteq texts
      /\ reply.stored \subseteq texts /\ reply.kind \in MemoryTools!Kinds
      /\ toolHost \in MemoryTools!Hosts /\ tool \in {"search", "add"} /\ texts \subseteq 1..MaxTexts
      /\ \A i \in texts : asked[i] \in {"added", "duplicate"} => i \in toolLanded
      /\ MemoryTools!ReportedIsStored
  BY DEF MemoryToolsInv, MemoryTools!TypeOK
<1>2. ASSUME NEW i \in texts, MemoryTools!Send(i) PROVE MemoryToolsInv'
  <2>1. /\ UNCHANGED <<toolHost, throws, known, tool, texts, toolLanded, reply>>
        /\ asked' \in [1..MaxTexts -> MemoryTools!States]
        /\ asked'[i] = "out" /\ \A j \in texts \ {i} : asked'[j] = asked[j]
    BY <1>1, <1>2 DEF MemoryTools!Send, MemoryTools!States
  <2>2. asked[i] = "unsent"
    BY <1>2 DEF MemoryTools!Send
  <2>3. MemoryTools!Cancelled \subseteq MemoryTools!Cancelled'
    BY <2>1, <2>2 DEF MemoryTools!Cancelled
  <2>4. MemoryTools!ReportedIsStored'
    BY <1>1, <2>1, <2>3 DEF MemoryTools!ReportedIsStored, MemoryTools!Hidden
  <2>. QED BY <1>1, <2>1, <2>4 DEF MemoryToolsInv, MemoryTools!TypeOK
\* An answer comes in: what it acknowledges has landed.
<1>3. ASSUME NEW i \in texts, NEW as \in {"added", "duplicate", "failed", "cancelled"},
             NEW got \in {{}, {i}}, MemoryTools!Settle(i, as, got),
             as \in {"added", "duplicate"} => got = {i}
      PROVE  MemoryToolsInv'
  <2>1. /\ UNCHANGED <<toolHost, throws, known, tool, texts, reply>>
        /\ asked' \in [1..MaxTexts -> MemoryTools!States] /\ toolLanded' = toolLanded \cup got
        /\ asked'[i] = as /\ \A j \in texts \ {i} : asked'[j] = asked[j]
    BY <1>1, <1>3 DEF MemoryTools!Settle, MemoryTools!States
  <2>2. asked[i] = "out"
    BY <1>3 DEF MemoryTools!Settle
  <2>3. MemoryTools!Cancelled \subseteq MemoryTools!Cancelled'
    BY <2>1, <2>2 DEF MemoryTools!Cancelled
  <2>4. MemoryTools!ReportedIsStored'
    BY <1>1, <2>1, <2>3 DEF MemoryTools!ReportedIsStored, MemoryTools!Hidden
  <2>. QED BY <1>1, <1>3, <2>1, <2>4 DEF MemoryToolsInv, MemoryTools!TypeOK
<1>4. ASSUME NEW i \in texts, MemoryTools!Answered(i) \/ MemoryTools!Refused(i) \/ MemoryTools!Cancels(i) PROVE MemoryToolsInv'
  BY <1>3, <1>4 DEF MemoryTools!Answered, MemoryTools!Refused, MemoryTools!Cancels
<1>5. CASE MemoryTools!Reply
  <2> DEFINE Rest == UNCHANGED <<toolHost, throws, known, tool, texts, asked, toolLanded>>
  <2>1. Rest /\ MemoryTools!Acknowledged \subseteq toolLanded /\ MemoryTools!Acknowledged \subseteq texts
    BY <1>1, <1>5 DEF MemoryTools!Reply, MemoryTools!Acknowledged
  \* With nothing failed, everything was acknowledged.
  <2>2. known /\ MemoryTools!Failed = {} => texts = MemoryTools!Acknowledged
    <3>. SUFFICES ASSUME known, MemoryTools!Failed = {} PROVE texts = MemoryTools!Acknowledged
      OBVIOUS
    <3>1. \A i \in texts : asked[i] \notin {"unsent", "out", "failed", "cancelled"}
      BY <1>5 DEF MemoryTools!Reply, MemoryTools!Failed, MemoryTools!Cancelled
    <3>2. \A i \in texts : asked[i] \in MemoryTools!States
      BY <1>1
    <3>. QED BY <3>1, <3>2 DEF MemoryTools!Acknowledged, MemoryTools!States
  <2>3. ASSUME NEW kind, NEW claimed, reply' = MemoryTools!Says(kind, claimed)
        PROVE  reply'.kind = kind /\ reply'.stored = claimed
    BY <2>3 DEF MemoryTools!Says
  \* What each reply may be.
  <2>4. ASSUME NEW kind \in {"done", "nothing", "partly", "error", "throw"},
               NEW claimed \in SUBSET texts, reply' = MemoryTools!Says(kind, claimed),
               ~MemoryTools!Hidden => claimed \subseteq toolLanded,
               kind = "done" /\ tool = "add" /\ ~MemoryTools!Hidden => texts \subseteq toolLanded,
               kind = "throw" => ~known \/ (throws /\ toolHost \notin {"openclaw", "claude"})
                                        \/ MemoryTools!Cancelled # {}
        PROVE  MemoryToolsInv'
    <3>1. reply'.kind = kind /\ reply'.stored = claimed /\ kind \in MemoryTools!Kinds
      BY <2>3, <2>4 DEF MemoryTools!Kinds
    <3>2. MemoryTools!Cancelled' = MemoryTools!Cancelled /\ (MemoryTools!Hidden' <=> MemoryTools!Hidden)
      BY <2>1 DEF MemoryTools!Cancelled, MemoryTools!Hidden
    <3>3. MemoryTools!ReportedIsStored'
      BY <2>1, <2>4, <3>1, <3>2 DEF MemoryTools!ReportedIsStored
    <3>. QED BY <1>1, <2>1, <3>1, <3>3 DEF MemoryToolsInv, MemoryTools!TypeOK
  <2>. USE DEF MemoryTools!Fails
  <2>5. CASE ~known
    BY <1>5, <2>4, <2>5 DEF MemoryTools!Reply, MemoryTools!UnknownReplies
  <2>6. CASE known /\ tool = "search"
    <3>1. reply' \in {MemoryTools!OpenClawSearch, MemoryTools!ClaudeSearch, MemoryTools!LangGraphSearch, MemoryTools!FrameworkSearch, MemoryTools!SearchReply}
          /\ (reply' # MemoryTools!OpenClawSearch => toolHost \notin {"openclaw", "claude"})
      BY <1>5, <2>6 DEF MemoryTools!Reply, MemoryTools!ClaudeSearch
    <3>. QED BY <2>4, <2>6, <3>1 DEF MemoryTools!OpenClawSearch, MemoryTools!ClaudeSearch,
           MemoryTools!LangGraphSearch, MemoryTools!FrameworkSearch,
                MemoryTools!SearchReply
  <2>7. CASE known /\ tool = "add"
    <3>0. /\ toolHost = "vercel" => reply' = MemoryTools!VercelAdd
          /\ toolHost = "deepagents" => reply' = MemoryTools!DeepAgentsAdd
          /\ toolHost = "langgraph" => reply' = MemoryTools!LangGraphAdd
          /\ toolHost = "mastra" => reply' = MemoryTools!MastraAdd
          /\ toolHost = "openai" => reply' = MemoryTools!OpenAIAdd
          /\ toolHost = "openclaw" => reply' = MemoryTools!OpenClawAdd
          /\ toolHost = "claude" => reply' = MemoryTools!ClaudeAdd
          /\ toolHost = "pydantic" => reply' = MemoryTools!PydanticAdd
          /\ toolHost = "framework" => reply' = MemoryTools!FrameworkAdd
          /\ toolHost = "crewai" => reply' = MemoryTools!CrewAIAdd
      BY <1>5, <2>7 DEF MemoryTools!Reply
    <3>. USE DEF MemoryTools!Hidden, MemoryTools!Hosts
    <3>1. CASE toolHost = "vercel"
      BY <2>1, <2>2, <2>4, <2>7, <3>0, <3>1 DEF MemoryTools!VercelAdd
    <3>2. CASE toolHost = "deepagents"
      BY <2>1, <2>2, <2>4, <2>7, <3>0, <3>2 DEF MemoryTools!DeepAgentsAdd
    <3>3. CASE toolHost = "langgraph"
      <4>1. MemoryTools!Failed = {} => texts \subseteq toolLanded
        BY <2>1, <2>2, <2>7
      <4>2. texts \in SUBSET texts /\ {} \in SUBSET texts
        OBVIOUS
      <4>. QED BY <2>4, <2>7, <3>0, <3>3, <4>1, <4>2 DEF MemoryTools!LangGraphAdd
    <3>4. CASE toolHost = "mastra"
      BY <2>1, <2>2, <2>4, <2>7, <3>0, <3>4 DEF MemoryTools!MastraAdd
    <3>5. CASE toolHost = "openai"
      BY <2>1, <2>2, <2>4, <2>7, <3>0, <3>5 DEF MemoryTools!OpenAIAdd
    <3>6. CASE toolHost = "openclaw"
      BY <2>1, <2>2, <2>4, <2>7, <3>0, <3>6 DEF MemoryTools!OpenClawAdd
    <3>7. CASE toolHost = "claude"
      BY <2>1, <2>2, <2>4, <2>7, <3>0, <3>7 DEF MemoryTools!ClaudeAdd
    <3>8. CASE toolHost = "pydantic"
      BY <2>1, <2>2, <2>4, <2>7, <3>0, <3>8 DEF MemoryTools!PydanticAdd
    <3>9. CASE toolHost = "framework"
      BY <2>1, <2>2, <2>4, <2>7, <3>0, <3>9 DEF MemoryTools!FrameworkAdd,
         MemoryTools!PydanticAdd
    <3>10. CASE toolHost = "crewai"
      BY <2>1, <2>2, <2>4, <2>7, <3>0, <3>10 DEF MemoryTools!CrewAIAdd
    <3>. QED BY <1>1, <3>1, <3>2, <3>3, <3>4, <3>5, <3>6, <3>7, <3>8, <3>9, <3>10
  <2>. QED BY <1>1, <2>5, <2>6, <2>7
<1>6. CASE UNCHANGED toolVars
  BY <1>1, <1>6 DEF toolVars, MemoryToolsInv, MemoryTools!TypeOK, MemoryTools!ReportedIsStored,
     MemoryTools!Hidden, MemoryTools!Cancelled
<1>. QED BY <1>2, <1>4, <1>5, <1>6 DEF MemoryTools!Next

LEMMA MemoryToolsImplies ==
  ASSUME MemoryToolsInv PROVE MemoryTools!ReportedIsStored
BY DEF MemoryToolsInv

\* A behaviour of the whole that is this part's is a behaviour of this part.
LEMMA MemoryToolsBegins ==
  ASSUME Init, part = "MemoryTools" PROVE MemoryTools!Init
BY DEF Init

LEMMA MemoryToolsGoes ==
  ASSUME [Next]_<<part, recallGroup, persistGroup, userGroup, callGroup>>, part = "MemoryTools"
  PROVE  part' = "MemoryTools" /\ [MemoryTools!Next]_toolVars
<1>1. CASE Next
  BY <1>1 DEF Next, RecallNext, PersistNext, UserNext, CallNext, callGroup
<1>2. CASE UNCHANGED <<part, recallGroup, persistGroup, userGroup, callGroup>>
  BY <1>2 DEF callGroup
<1>. QED BY <1>1, <1>2

------------------------------------------------------------------------------
\* The calls of the TypeScript SDK.

SdkCallsStatuses == {0, 200, 400, 404, 500, 503}
SdkCallsBodies == {"none", "value", "empty", "typed", "bare", "validation", "health"}
SdkCallsOutcomes == [kind : {"pending", "value", "null", "error", "abort"}, status : Nat]

SdkCallsTyped ==
  /\ status \in [Calls -> SdkCallsStatuses] /\ body \in [Calls -> SdkCallsBodies]
  /\ tagged \in [Signals -> SdkCallsStatuses] /\ outcome \in [Calls -> SdkCallsOutcomes]

\* What a call of health is told of a degraded server is kept for such a call.
SdkCallsInv ==
  /\ SdkCalls!TypeOK
  /\ SdkCallsTyped
  /\ \A c \in Calls : IF sdkPhase[c] \in {"idle", "sent"} THEN body[c] = "none"
                     ELSE body[c] = "health" => op[c] = "health"
  /\ SdkCalls!OwnStatus

LEMMA SdkCallsStarts ==
  ASSUME SdkCalls!Init PROVE SdkCallsInv
<1>1. SdkCalls!Ends("pending", 0) \in SdkCallsOutcomes /\ 0 \in SdkCallsStatuses /\ "none" \in SdkCallsBodies
  BY DEF SdkCalls!Ends, SdkCallsOutcomes, SdkCallsStatuses, SdkCallsBodies
<1>2. \A c \in Calls : outcome[c] = SdkCalls!Ends("pending", 0) /\ sdkPhase[c] = "idle" /\ body[c] = "none"
  BY DEF SdkCalls!Init, SdkCalls!Pending
<1>3. SdkCalls!TypeOK
  BY <1>2 DEF SdkCalls!Init, SdkCalls!TypeOK, SdkCalls!Pending
<1>4. SdkCallsTyped
  BY <1>1 DEF SdkCalls!Init, SdkCallsTyped, SdkCalls!Pending
<1>5. SdkCalls!OwnStatus
  BY <1>2 DEF SdkCalls!OwnStatus, SdkCalls!Ends
<1>. QED BY <1>2, <1>3, <1>4, <1>5 DEF SdkCallsInv

LEMMA SdkCallsKeeps ==
  ASSUME SdkCallsInv, [SdkCalls!Next]_sdkVars PROVE SdkCallsInv'
<1>1. /\ op \in [Calls -> {"get", "health", "other", None}]
      /\ signal \in [Calls -> Signals \cup {None}]
      /\ sdkPhase \in [Calls -> {"idle", "sent", "headers", "done"}]
      /\ \A c \in Calls : sdkPhase[c] = "headers" => <<status[c], body[c]>> \in SdkCalls!Responses
      /\ aborted \subseteq Signals /\ \A s \in Signals : tagged[s] # 0 => s \in aborted
      /\ \A c \in Calls : sdkPhase[c] = "done" <=> outcome[c] # SdkCalls!Pending
      /\ status \in [Calls -> SdkCallsStatuses] /\ body \in [Calls -> SdkCallsBodies]
      /\ tagged \in [Signals -> SdkCallsStatuses] /\ outcome \in [Calls -> SdkCallsOutcomes]
      /\ \A c \in Calls : IF sdkPhase[c] \in {"idle", "sent"} THEN body[c] = "none"
                     ELSE body[c] = "health" => op[c] = "health"
      /\ SdkCalls!OwnStatus
  BY DEF SdkCallsInv, SdkCalls!TypeOK, SdkCallsTyped
<1>2. \A kind \in {"value", "null", "error", "abort"}, st \in SdkCallsStatuses \cup {502} :
        /\ SdkCalls!Ends(kind, st) \in SdkCallsOutcomes /\ SdkCalls!Ends(kind, st) # SdkCalls!Pending
        /\ SdkCalls!Ends(kind, st).kind = kind /\ SdkCalls!Ends(kind, st).status = st
  BY DEF SdkCalls!Ends, SdkCallsOutcomes, SdkCalls!Pending, SdkCallsStatuses
<1>3. ASSUME NEW c \in Calls, NEW o \in {"get", "health", "other"}, NEW s \in Signals \cup {None},
             SdkCalls!Invoke(c, o, s)
      PROVE  SdkCallsInv'
  <2>1. /\ op' \in [Calls -> {"get", "health", "other", None}]
        /\ signal' \in [Calls -> Signals \cup {None}]
        /\ sdkPhase' \in [Calls -> {"idle", "sent", "headers", "done"}]
    BY <1>1, <1>3 DEF SdkCalls!Invoke
  <2>2. /\ sdkPhase[c] = "idle" /\ sdkPhase'[c] = "sent" /\ outcome[c] = SdkCalls!Pending
        /\ \A d \in Calls \ {c} : sdkPhase'[d] = sdkPhase[d] /\ op'[d] = op[d]
        /\ UNCHANGED <<status, body, latest, aborted, tagged, outcome>>
    BY <1>1, <1>3 DEF SdkCalls!Invoke
  <2>3. SdkCalls!TypeOK'
    BY <1>1, <2>1, <2>2 DEF SdkCalls!TypeOK, SdkCalls!Pending
  <2>4. SdkCalls!Pending.kind = "pending"
    BY DEF SdkCalls!Pending, SdkCalls!Ends
  <2>5. SdkCalls!OwnStatus'
    BY <1>1, <2>2, <2>4 DEF SdkCalls!OwnStatus
  <2>. QED BY <1>1, <2>2, <2>3, <2>5 DEF SdkCallsInv, SdkCallsTyped
<1>4. ASSUME NEW c \in Calls, NEW response \in SdkCalls!Responses, SdkCalls!FetchReturns(c, response) PROVE SdkCallsInv'
  <2>1. PICK st \in SdkCallsStatuses, b \in SdkCallsBodies :
          response = <<st, b>> /\ response[1] = st /\ response[2] = b
          /\ (b = "health" => response = <<503, "health">>)
    BY DEF SdkCalls!Responses, SdkCallsStatuses, SdkCallsBodies
  <2>2. /\ sdkPhase[c] = "sent" /\ sdkPhase'[c] = "headers" /\ outcome[c] = SdkCalls!Pending
        /\ status'[c] = st /\ body'[c] = b /\ (b = "health" => op[c] = "health")
        /\ \A d \in Calls \ {c} : sdkPhase'[d] = sdkPhase[d] /\ status'[d] = status[d]
                                  /\ body'[d] = body[d]
        /\ UNCHANGED <<op, signal, aborted, tagged, outcome>>
    BY <1>1, <1>4, <2>1 DEF SdkCalls!FetchReturns
  <2>3. /\ sdkPhase' \in [Calls -> {"idle", "sent", "headers", "done"}]
        /\ status' \in [Calls -> SdkCallsStatuses] /\ body' \in [Calls -> SdkCallsBodies]
    BY <1>1, <1>4, <2>1 DEF SdkCalls!FetchReturns
  <2>4. SdkCalls!TypeOK'
    BY <1>1, <2>1, <2>2, <2>3 DEF SdkCalls!TypeOK, SdkCalls!Pending
  <2>5. SdkCalls!Pending.kind = "pending"
    BY DEF SdkCalls!Pending, SdkCalls!Ends
  <2>6. SdkCalls!OwnStatus'
    BY <1>1, <2>2, <2>5 DEF SdkCalls!OwnStatus
  <2>. QED BY <1>1, <2>2, <2>3, <2>4, <2>6 DEF SdkCallsInv, SdkCallsTyped
\* A call ends: what it answers must be its own.
<1>5. ASSUME NEW c \in Calls, NEW kind \in {"value", "null", "error", "abort"},
             NEW st \in SdkCallsStatuses \cup {502},
             sdkPhase[c] \in {"sent", "headers"}, SdkCalls!End(c, SdkCalls!Ends(kind, st)),
             kind = "error" => st \in {status[c]} \cup (IF body[c] = "empty" THEN {502} ELSE {}),
             kind = "value" => body[c] = "value" \/ (op[c] = "health" /\ status[c] = 503),
             tagged' \in [Signals -> SdkCallsStatuses],
             \A s \in Signals : tagged'[s] # 0 => s \in aborted
      PROVE  SdkCallsInv'
  <2>1. /\ sdkPhase' \in [Calls -> {"idle", "sent", "headers", "done"}]
        /\ outcome' \in [Calls -> SdkCallsOutcomes]
        /\ sdkPhase'[c] = "done" /\ outcome'[c] = SdkCalls!Ends(kind, st)
        /\ \A d \in Calls \ {c} : sdkPhase'[d] = sdkPhase[d] /\ outcome'[d] = outcome[d]
        /\ UNCHANGED <<op, signal, status, body, latest, aborted>>
    BY <1>1, <1>2, <1>5 DEF SdkCalls!End
  <2>2. SdkCalls!TypeOK'
    BY <1>1, <1>2, <1>5, <2>1 DEF SdkCalls!TypeOK
  <2>3. SdkCalls!OwnStatus'
    BY <1>1, <1>2, <1>5, <2>1 DEF SdkCalls!OwnStatus
  <2>4. \A d \in Calls : IF sdkPhase'[d] \in {"idle", "sent"} THEN body'[d] = "none"
                         ELSE body'[d] = "health" => op'[d] = "health"
    BY <1>1, <1>5, <2>1
  <2>. QED BY <1>1, <1>5, <2>1, <2>2, <2>3, <2>4 DEF SdkCallsInv, SdkCallsTyped
<1>6. ASSUME NEW c \in Calls, SdkCalls!Settles(c) PROVE SdkCallsInv'
  <2>1. /\ <<status[c], body[c]>> \in SdkCalls!Responses /\ sdkPhase[c] = "headers"
        /\ body[c] = "health" => op[c] = "health"
        /\ status[c] \in SdkCallsStatuses /\ UNCHANGED tagged
    BY <1>1, <1>6 DEF SdkCalls!Settles
  <2>2. /\ body[c] = "value" => status[c] = 200
        /\ body[c] = "health" => status[c] = 503
    BY <2>1 DEF SdkCalls!Responses
  <2>3. /\ SdkCalls!ResolvedStatus(c) = status[c] /\ SdkCalls!TranslateError(c) = SdkCalls!Ends("error", status[c])
        /\ 200 \in SdkCallsStatuses /\ 0 \in SdkCallsStatuses
    BY DEF SdkCalls!ResolvedStatus, SdkCalls!TranslateError, SdkCalls!FallbackStatus,
       SdkCallsStatuses
  <2>4. PICK kind \in {"value", "null", "error", "abort"}, st \in SdkCallsStatuses \cup {502} :
          /\ SdkCalls!End(c, SdkCalls!Ends(kind, st))
          /\ kind = "error" =>
               st \in {status[c]} \cup (IF body[c] = "empty" THEN {502} ELSE {})
          /\ kind = "value" => body[c] = "value" \/ (op[c] = "health" /\ status[c] = 503)
    <3>1. CASE op[c] = "get"
      BY <1>6, <2>1, <2>2, <2>3, <3>1 DEF SdkCalls!Settles, SdkCalls!Get
    <3>2. CASE op[c] = "health"
      BY <1>6, <2>1, <2>2, <2>3, <3>2 DEF SdkCalls!Settles, SdkCalls!Health
    <3>3. CASE op[c] \notin {"get", "health"}
      BY <1>6, <2>1, <2>2, <2>3, <3>3 DEF SdkCalls!Settles, SdkCalls!Other
    <3>. QED BY <3>1, <3>2, <3>3
  <2>. QED BY <1>1, <1>5, <2>1, <2>4
<1>7. ASSUME NEW c \in Calls, SdkCalls!TransportFails(c) \/ SdkCalls!BodyFails(c) \/ SdkCalls!TimesOut(c) PROVE SdkCallsInv'
  <2>1. /\ sdkPhase[c] \in {"sent", "headers"} /\ UNCHANGED tagged
        /\ status[c] \in SdkCallsStatuses /\ 0 \in SdkCallsStatuses
    BY <1>1, <1>7 DEF SdkCalls!TransportFails, SdkCalls!BodyFails, SdkCalls!TimesOut,
       SdkCallsStatuses
  <2>2. \/ SdkCalls!End(c, SdkCalls!Ends("error", status[c]))
        \/ SdkCalls!End(c, SdkCalls!Ends("null", 0))
        \/ SdkCalls!End(c, SdkCalls!Ends("abort", 0))
    BY <1>7 DEF SdkCalls!TransportFails, SdkCalls!BodyFails, SdkCalls!TimesOut,
       SdkCalls!FallbackStatus
  <2>. QED BY <1>1, <1>5, <2>1, <2>2
<1>8. ASSUME NEW c \in Calls, SdkCalls!Cancelled(c) PROVE SdkCallsInv'
  <2> DEFINE s == signal[c]
             tag == IF tagged[s] # 0 THEN tagged[s] ELSE status[c]
  <2>1. /\ sdkPhase[c] \in {"sent", "headers"} /\ s \in aborted /\ s \in Signals
        /\ tagged' = [tagged EXCEPT ![s] = tag] /\ 0 \in SdkCallsStatuses
    BY <1>1, <1>8 DEF SdkCalls!Cancelled, SdkCallsStatuses
  <2>2. tag \in SdkCallsStatuses
    BY <1>1, <2>1
  <2>3. /\ tagged' \in [Signals -> SdkCallsStatuses]
        /\ \A r \in Signals : tagged'[r] # 0 => r \in aborted
    BY <1>1, <2>1, <2>2
  <2>4. SdkCalls!End(c, SdkCalls!Ends("null", 0)) \/ SdkCalls!End(c, SdkCalls!Ends("abort", 0))
    BY <1>8 DEF SdkCalls!Cancelled
  <2>. QED BY <1>1, <1>5, <2>1, <2>3, <2>4
<1>9. ASSUME NEW s \in Signals, SdkCalls!Abort(s) PROVE SdkCallsInv'
  BY <1>1, <1>9 DEF SdkCalls!Abort, SdkCallsInv, SdkCalls!TypeOK, SdkCallsTyped,
     SdkCalls!OwnStatus
<1>10. CASE UNCHANGED sdkVars
  BY <1>1, <1>10 DEF sdkVars, SdkCallsInv, SdkCalls!TypeOK, SdkCallsTyped, SdkCalls!OwnStatus
<1>. QED BY <1>3, <1>4, <1>6, <1>7, <1>8, <1>9, <1>10 DEF SdkCalls!Next

LEMMA SdkCallsImplies ==
  ASSUME SdkCallsInv PROVE SdkCalls!OwnStatus
BY DEF SdkCallsInv

\* A behaviour of the whole that is this part's is a behaviour of this part.
LEMMA SdkCallsBegins ==
  ASSUME Init, part = "SdkCalls" PROVE SdkCalls!Init
BY DEF Init

LEMMA SdkCallsGoes ==
  ASSUME [Next]_<<part, recallGroup, persistGroup, userGroup, callGroup>>, part = "SdkCalls"
  PROVE  part' = "SdkCalls" /\ [SdkCalls!Next]_sdkVars
<1>1. CASE Next
  BY <1>1 DEF Next, RecallNext, PersistNext, UserNext, CallNext, callGroup
<1>2. CASE UNCHANGED <<part, recallGroup, persistGroup, userGroup, callGroup>>
  BY <1>2 DEF callGroup
<1>. QED BY <1>1, <1>2

------------------------------------------------------------------------------
\* The circuit breaker of the OpenClaw gateway.

\* The orders of the part are those of the library.
LEMMA OpenClawGatewayLru ==
  /\ \A f : OpenClawGateway!Range(f) = Range(f)
  /\ \A q, s, S : OpenClawGateway!IsRest(q, s, S) <=> IsRest(q, s, S)
  /\ \A order, S, cap : OpenClawGateway!IsOrder(order, S, cap) <=> IsOrder(order, S, cap)
  /\ \A order, x : OpenClawGateway!Touch(order, x) = Touch(order, x)
  /\ \A order, x : OpenClawGateway!Without(order, x) = Without(order, x)
  /\ \A order, cap : OpenClawGateway!Newest(order, cap) = Newest(order, cap)
  /\ \A order, cap : OpenClawGateway!Oldest(order, cap) = Oldest(order, cap)
<1>1. \A f : OpenClawGateway!Range(f) = Range(f)
  BY DEF OpenClawGateway!Range, Range
<1>2. /\ \A order, S, cap : OpenClawGateway!IsOrder(order, S, cap) <=> IsOrder(order, S, cap)
      /\ \A q, s, S : OpenClawGateway!IsRest(q, s, S) <=> IsRest(q, s, S)
  BY <1>1 DEF OpenClawGateway!IsOrder, IsOrder, OpenClawGateway!IsRest, IsRest
<1>3. /\ \A order, x : OpenClawGateway!Touch(order, x) = Touch(order, x)
      /\ \A order, x : OpenClawGateway!Without(order, x) = Without(order, x)
  BY DEF OpenClawGateway!Touch, Touch, OpenClawGateway!Without, Without, OpenClawGateway!Place,
     Place
<1>4. \A order, cap : OpenClawGateway!Newest(order, cap) = Newest(order, cap)
  BY DEF OpenClawGateway!Newest, Newest
<1>5. \A order, cap : OpenClawGateway!Oldest(order, cap) = Oldest(order, cap)
  BY <1>1, <1>4 DEF OpenClawGateway!Oldest, Oldest
<1>. QED BY <1>1, <1>2, <1>3, <1>4, <1>5

\* Finite sets are the same to the part.
LEMMA OpenClawGatewayFinite ==
  /\ \A S : OpenClawGateway!IsFiniteSet(S) <=> IsFiniteSet(S)
  /\ \A S : OpenClawGateway!Cardinality(S) = Cardinality(S)
<1>1. \A S : OpenClawGateway!IsFiniteSet(S) <=> IsFiniteSet(S)
  BY DEF OpenClawGateway!IsFiniteSet, IsFiniteSet
<1>2. \A S : OpenClawGateway!Cardinality(S) = Cardinality(S)
  BY DEF OpenClawGateway!Cardinality, Cardinality
<1>. QED BY <1>1, <1>2

LEMMA OpenClawGatewayUseKeepsOrder ==
  ASSUME NEW S, NEW cap \in Nat \ {0}, NEW order, OpenClawGateway!IsOrder(order, S, cap), NEW x \in S
  PROVE  /\ OpenClawGateway!IsOrder(OpenClawGateway!Newest(OpenClawGateway!Touch(order, x), cap), S, cap)
         /\ x \in OpenClawGateway!Range(OpenClawGateway!Newest(OpenClawGateway!Touch(order, x), cap))
BY OpenClawGatewayLru, UseKeepsOrder

LEMMA OpenClawGatewayCardinalityType ==
  ASSUME NEW S, OpenClawGateway!IsFiniteSet(S)
  PROVE  /\ OpenClawGateway!Cardinality(S) \in Nat
         /\ ExistsBijection(1..OpenClawGateway!Cardinality(S), S)
BY OpenClawGatewayFinite, FS_CardinalityType

LEMMA OpenClawGatewayAddElement ==
  ASSUME NEW S, NEW x, OpenClawGateway!IsFiniteSet(S)
  PROVE  /\ OpenClawGateway!IsFiniteSet(S \cup {x})
         /\ OpenClawGateway!Cardinality(S \cup {x}) =
            IF x \in S THEN OpenClawGateway!Cardinality(S) ELSE OpenClawGateway!Cardinality(S)+1
BY OpenClawGatewayFinite, FS_AddElement

LEMMA OpenClawGatewayRemoveElement ==
  ASSUME NEW S, NEW x, OpenClawGateway!IsFiniteSet(S)
  PROVE  /\ OpenClawGateway!IsFiniteSet(S \ {x})
         /\ OpenClawGateway!Cardinality(S \ {x}) =
            IF x \in S THEN OpenClawGateway!Cardinality(S)-1 ELSE OpenClawGateway!Cardinality(S)
BY OpenClawGatewayFinite, FS_RemoveElement

LEMMA OpenClawGatewaySubset ==
  ASSUME NEW S, OpenClawGateway!IsFiniteSet(S), NEW T \in SUBSET S
  PROVE  /\ OpenClawGateway!IsFiniteSet(T)
         /\ OpenClawGateway!Cardinality(T) <= OpenClawGateway!Cardinality(S)
         /\ OpenClawGateway!Cardinality(S) = OpenClawGateway!Cardinality(T) => S = T
BY OpenClawGatewayFinite, FS_Subset

\* The calls that are out.
OpenClawGatewayOut == {c \in Sessions : out[c] # None}

\* While the breaker is closed, every call let through since the last success or
\* half-open is out or has failed; once it opens, none is let through.
OpenClawGatewayAccounted == breaker = "closed" => begun <= failures + OpenClawGateway!Cardinality(OpenClawGatewayOut)

OpenClawGatewayInv == OpenClawGateway!TypeOK /\ OpenClawGateway!Contained /\ OpenClawGatewayAccounted

\* What begins or ends a call changes the number of those that are out by one.
LEMMA OpenClawGatewayOutGrows ==
  ASSUME OpenClawGateway!GatewayAssumption, OpenClawGateway!TypeOK,
         NEW c \in Sessions, NEW u \in Users, out[c] = None, out' = [out EXCEPT ![c] = u]
  PROVE  /\ OpenClawGateway!Cardinality(OpenClawGatewayOut') = OpenClawGateway!Cardinality(OpenClawGatewayOut) + 1
         /\ OpenClawGateway!Cardinality(OpenClawGatewayOut) \in Nat
<1>1. OpenClawGatewayOut' = OpenClawGatewayOut \cup {c} /\ c \notin OpenClawGatewayOut
  BY DEF OpenClawGatewayOut, OpenClawGateway!TypeOK, OpenClawGateway!GatewayAssumption
<1>2. OpenClawGateway!IsFiniteSet(OpenClawGatewayOut)
  BY OpenClawGatewaySubset DEF OpenClawGatewayOut, OpenClawGateway!GatewayAssumption
<1>. QED BY <1>1, <1>2, OpenClawGatewayAddElement, OpenClawGatewayCardinalityType

LEMMA OpenClawGatewayOutShrinks ==
  ASSUME OpenClawGateway!GatewayAssumption, OpenClawGateway!TypeOK,
         NEW c \in Sessions, out[c] # None, out' = [out EXCEPT ![c] = None]
  PROVE  /\ OpenClawGateway!Cardinality(OpenClawGatewayOut') = OpenClawGateway!Cardinality(OpenClawGatewayOut) - 1
         /\ OpenClawGateway!Cardinality(OpenClawGatewayOut) \in Nat /\ OpenClawGateway!Cardinality(OpenClawGatewayOut') \in Nat
<1>1. OpenClawGatewayOut' = OpenClawGatewayOut \ {c} /\ c \in OpenClawGatewayOut
  BY DEF OpenClawGatewayOut, OpenClawGateway!TypeOK
<1>2. OpenClawGateway!IsFiniteSet(OpenClawGatewayOut) /\ OpenClawGateway!IsFiniteSet(OpenClawGatewayOut')
  BY <1>1, OpenClawGatewaySubset, OpenClawGatewayRemoveElement DEF OpenClawGatewayOut,
     OpenClawGateway!GatewayAssumption
<1>. QED BY <1>1, <1>2, OpenClawGatewayRemoveElement, OpenClawGatewayCardinalityType

LEMMA OpenClawGatewayOutBounded ==
  ASSUME OpenClawGateway!GatewayAssumption
  PROVE  /\ OpenClawGateway!Cardinality(OpenClawGatewayOut) \in Nat /\ OpenClawGateway!Cardinality(Sessions) \in Nat
         /\ OpenClawGateway!Cardinality(OpenClawGatewayOut) <= OpenClawGateway!Cardinality(Sessions)
<1>1. OpenClawGatewayOut \subseteq Sessions
  BY DEF OpenClawGatewayOut
<1>. QED BY <1>1, OpenClawGatewaySubset, OpenClawGatewayCardinalityType
       DEF OpenClawGateway!GatewayAssumption

LEMMA OpenClawGatewayStarts ==
  ASSUME OpenClawGateway!GatewayAssumption, OpenClawGateway!Init PROVE OpenClawGatewayInv
<1>1. OpenClawGateway!TypeOK
  <2>1. OpenClawGateway!IsOrder(<<>>, Users, MaxClients)
    BY DEF OpenClawGateway!IsOrder, OpenClawGateway!GatewayAssumption
  <2>. QED BY <2>1 DEF OpenClawGateway!Init, OpenClawGateway!TypeOK,
         OpenClawGateway!GatewayAssumption
<1>2. OpenClawGateway!Contained /\ OpenClawGatewayAccounted
  BY OpenClawGatewayOutBounded DEF OpenClawGateway!Init, OpenClawGateway!Contained,
     OpenClawGatewayAccounted, OpenClawGateway!GatewayAssumption
<1>. QED BY <1>1, <1>2 DEF OpenClawGatewayInv

LEMMA OpenClawGatewayKeeps ==
  ASSUME OpenClawGateway!GatewayAssumption, OpenClawGatewayInv, [OpenClawGateway!Next]_gatewayVars PROVE OpenClawGatewayInv'
<1>. USE DEF OpenClawGatewayInv
<1>1. MaxFailures \in Nat \ {0} /\ MaxClients \in Nat \ {0}
  BY DEF OpenClawGateway!GatewayAssumption
<1>2. /\ OpenClawGateway!Cardinality(OpenClawGatewayOut) \in Nat /\ OpenClawGateway!Cardinality(Sessions) \in Nat
      /\ OpenClawGateway!Cardinality(OpenClawGatewayOut) <= OpenClawGateway!Cardinality(Sessions)
  BY OpenClawGatewayOutBounded
<1>3. OpenClawGateway!Cardinality(OpenClawGatewayOut') \in Nat /\ OpenClawGateway!Cardinality(OpenClawGatewayOut') <= OpenClawGateway!Cardinality(Sessions)
  <2>1. OpenClawGatewayOut' \subseteq Sessions
    BY DEF OpenClawGatewayOut
  <2>. QED BY <2>1, OpenClawGatewaySubset, OpenClawGatewayCardinalityType
         DEF OpenClawGateway!GatewayAssumption
<1>4. \A u \in Users : OpenClawGateway!ClientFor(u) => OpenClawGateway!IsOrder(gatewayClients', Users, MaxClients)
  BY <1>1, OpenClawGatewayUseKeepsOrder DEF OpenClawGateway!ClientFor, OpenClawGateway!TypeOK
<1>5. ASSUME NEW c \in Sessions, NEW u \in Users, OpenClawGateway!CallThrough(c, u) PROVE OpenClawGatewayInv'
  <2>1. OpenClawGateway!Cardinality(OpenClawGatewayOut') = OpenClawGateway!Cardinality(OpenClawGatewayOut) + 1
    BY <1>5, OpenClawGatewayOutGrows DEF OpenClawGateway!CallThrough
  <2>2. OpenClawGateway!TypeOK'
    BY <1>1, <1>4, <1>5 DEF OpenClawGateway!CallThrough, OpenClawGateway!TypeOK
  <2>3. OpenClawGateway!Contained' /\ OpenClawGatewayAccounted'
    BY <1>1, <1>2, <1>3, <1>5, <2>1 DEF OpenClawGateway!CallThrough, OpenClawGateway!TypeOK,
       OpenClawGateway!Contained, OpenClawGatewayAccounted
  <2>. QED BY <2>2, <2>3
<1>6. ASSUME NEW c \in Sessions, NEW u \in Users, OpenClawGateway!CallHalfOpen(c, u) PROVE OpenClawGatewayInv'
  <2>1. OpenClawGateway!Cardinality(OpenClawGatewayOut') = OpenClawGateway!Cardinality(OpenClawGatewayOut) + 1
    BY <1>6, OpenClawGatewayOutGrows DEF OpenClawGateway!CallHalfOpen
  <2>2. OpenClawGateway!TypeOK'
    BY <1>1, <1>4, <1>6 DEF OpenClawGateway!CallHalfOpen, OpenClawGateway!TypeOK
  <2>3. OpenClawGateway!Contained' /\ OpenClawGatewayAccounted'
    BY <1>1, <1>2, <1>3, <1>6, <2>1 DEF OpenClawGateway!CallHalfOpen, OpenClawGateway!TypeOK,
       OpenClawGateway!Contained, OpenClawGatewayAccounted
  <2>. QED BY <2>2, <2>3
<1>7. ASSUME NEW c \in Sessions, OpenClawGateway!CallReturns(c) PROVE OpenClawGatewayInv'
  <2>1. OpenClawGateway!TypeOK'
    BY <1>1, <1>7 DEF OpenClawGateway!CallReturns, OpenClawGateway!TypeOK
  <2>2. OpenClawGateway!Contained' /\ OpenClawGatewayAccounted'
    BY <1>1, <1>2, <1>3, <1>7 DEF OpenClawGateway!CallReturns, OpenClawGateway!Contained,
       OpenClawGatewayAccounted
  <2>. QED BY <2>1, <2>2
<1>8. ASSUME NEW c \in Sessions, OpenClawGateway!CallFails(c) PROVE OpenClawGatewayInv'
  <2>1. OpenClawGateway!Cardinality(OpenClawGatewayOut') = OpenClawGateway!Cardinality(OpenClawGatewayOut) - 1
    BY <1>8, OpenClawGatewayOutShrinks DEF OpenClawGateway!CallFails
  <2>2. OpenClawGateway!TypeOK'
    BY <1>1, <1>8 DEF OpenClawGateway!CallFails, OpenClawGateway!TypeOK, OpenClawGateway!Opens
  <2>3. OpenClawGateway!Contained' /\ OpenClawGatewayAccounted'
    BY <1>1, <1>2, <1>3, <1>8, <2>1 DEF OpenClawGateway!CallFails, OpenClawGateway!TypeOK,
       OpenClawGateway!Contained, OpenClawGatewayAccounted, OpenClawGateway!Opens
  <2>. QED BY <2>2, <2>3
<1>9. CASE OpenClawGateway!Cooldown
  BY <1>9 DEF OpenClawGateway!Cooldown, OpenClawGateway!TypeOK, OpenClawGateway!Contained,
     OpenClawGatewayAccounted
<1>10. CASE UNCHANGED gatewayVars
  BY <1>10 DEF gatewayVars, OpenClawGateway!TypeOK, OpenClawGateway!Contained,
     OpenClawGatewayAccounted, OpenClawGatewayOut
<1>. QED BY <1>5, <1>6, <1>7, <1>8, <1>9, <1>10 DEF OpenClawGateway!Next

LEMMA OpenClawGatewayImplies ==
  ASSUME OpenClawGateway!GatewayAssumption, OpenClawGatewayInv PROVE OpenClawGateway!Contained
BY DEF OpenClawGatewayInv

\* A behaviour of the whole that is this part's is a behaviour of this part.
LEMMA OpenClawGatewayBegins ==
  ASSUME Init, part = "OpenClawGateway" PROVE OpenClawGateway!Init
BY DEF Init

LEMMA OpenClawGatewayGoes ==
  ASSUME [Next]_<<part, recallGroup, persistGroup, userGroup, callGroup>>, part = "OpenClawGateway"
  PROVE  part' = "OpenClawGateway" /\ [OpenClawGateway!Next]_gatewayVars
<1>1. CASE Next
  BY <1>1 DEF Next, RecallNext, PersistNext, UserNext, CallNext, callGroup
<1>2. CASE UNCHANGED <<part, recallGroup, persistGroup, userGroup, callGroup>>
  BY <1>2 DEF callGroup
<1>. QED BY <1>1, <1>2

------------------------------------------------------------------------------
\* The log the hooks of the editor plugin share.

\* Finite sets are the same to the part.
LEMMA PluginHooksFinite ==
  /\ \A S : PluginHooks!IsFiniteSet(S) <=> IsFiniteSet(S)
  /\ \A S : PluginHooks!Cardinality(S) = Cardinality(S)
<1>1. \A S : PluginHooks!IsFiniteSet(S) <=> IsFiniteSet(S)
  BY DEF PluginHooks!IsFiniteSet, IsFiniteSet
<1>2. \A S : PluginHooks!Cardinality(S) = Cardinality(S)
  BY DEF PluginHooks!Cardinality, Cardinality
<1>. QED BY <1>1, <1>2

LEMMA PluginHooksMoves ==
  ASSUME NEW P, PluginHooks!IsFiniteSet(P), NEW A \in SUBSET P, NEW B \in SUBSET P, NEW p \in P,
         A \ {p} = B \ {p}
  PROVE  /\ PluginHooks!Cardinality(A) \in Nat /\ PluginHooks!Cardinality(B) \in Nat /\ PluginHooks!Cardinality(P) \in Nat
         /\ PluginHooks!Cardinality(A) <= PluginHooks!Cardinality(P) /\ PluginHooks!Cardinality(B) <= PluginHooks!Cardinality(P)
         /\ PluginHooks!Cardinality(B) = PluginHooks!Cardinality(A) - (IF p \in A THEN 1 ELSE 0)
                                            + (IF p \in B THEN 1 ELSE 0)
         /\ p \notin B => PluginHooks!Cardinality(B) <= PluginHooks!Cardinality(P) - 1
BY PluginHooksFinite, Moves

LEMMA PluginHooksCardinalityType ==
  ASSUME NEW S, PluginHooks!IsFiniteSet(S)
  PROVE  /\ PluginHooks!Cardinality(S) \in Nat
         /\ ExistsBijection(1..PluginHooks!Cardinality(S), S)
BY PluginHooksFinite, FS_CardinalityType

LEMMA PluginHooksSubset ==
  ASSUME NEW S, PluginHooks!IsFiniteSet(S), NEW T \in SUBSET S
  PROVE  /\ PluginHooks!IsFiniteSet(T)
         /\ PluginHooks!Cardinality(T) <= PluginHooks!Cardinality(S)
         /\ PluginHooks!Cardinality(S) = PluginHooks!Cardinality(T) => S = T
BY PluginHooksFinite, FS_Subset

\* Those that will add a line without another look at the file: all that are to
\* append, and on top of them those whose rename fails when another was first.
PluginHooksAppending == {p \in Calls : hookAt[p] = "append"}
PluginHooksMoving == {p \in Calls : hookAt[p] \in {"append", "rename"}}

\* Each line that is still to come is accounted for.
PluginHooksAccounted ==
  /\ hookLog # None => hookLog + PluginHooks!Cardinality(PluginHooksAppending) <= MaxLines + PluginHooks!Cardinality(Calls)
  /\ hookLog # None /\ rotated # None =>
       hookLog + PluginHooks!Cardinality(PluginHooksMoving) <= MaxLines + PluginHooks!Cardinality(Calls)
  /\ rotated # None => rotated <= MaxLines + PluginHooks!Cardinality(Calls)

PluginHooksInv == PluginHooks!TypeOK /\ PluginHooksAccounted

LEMMA PluginHooksStarts ==
  ASSUME PluginHooks!HooksAssumption, PluginHooks!Init PROVE PluginHooksInv
<1>1. hookAt \in [Calls -> PluginHooks!Steps] /\ hook \in [Calls -> {None}]
  BY DEF PluginHooks!Init, PluginHooks!Steps
<1>. QED BY <1>1 DEF PluginHooks!Init, PluginHooksInv, PluginHooks!TypeOK, PluginHooksAccounted,
       PluginHooks!HooksAssumption

\* How many are to write, and how one that moves changes that.
LEMMA PluginHooksCounted ==
  ASSUME PluginHooks!HooksAssumption, PluginHooks!TypeOK, NEW p \in Calls, NEW v, hookAt' = [hookAt EXCEPT ![p] = v]
  PROVE  /\ PluginHooks!Cardinality(PluginHooksAppending) \in Nat /\ PluginHooks!Cardinality(PluginHooksAppending') \in Nat
         /\ PluginHooks!Cardinality(PluginHooksMoving) \in Nat /\ PluginHooks!Cardinality(PluginHooksMoving') \in Nat
         /\ PluginHooks!Cardinality(Calls) \in Nat
         /\ PluginHooks!Cardinality(PluginHooksAppending) <= PluginHooks!Cardinality(PluginHooksMoving)
         /\ PluginHooks!Cardinality(PluginHooksAppending') <= PluginHooks!Cardinality(PluginHooksMoving')
         /\ PluginHooks!Cardinality(PluginHooksMoving') <= PluginHooks!Cardinality(Calls)
         /\ v \notin {"append", "rename"} => PluginHooks!Cardinality(PluginHooksMoving') <= PluginHooks!Cardinality(Calls) - 1
         /\ PluginHooks!Cardinality(PluginHooksAppending') = PluginHooks!Cardinality(PluginHooksAppending)
              - (IF hookAt[p] = "append" THEN 1 ELSE 0) + (IF v = "append" THEN 1 ELSE 0)
         /\ PluginHooks!Cardinality(PluginHooksMoving') = PluginHooks!Cardinality(PluginHooksMoving)
              - (IF hookAt[p] \in {"append", "rename"} THEN 1 ELSE 0)
              + (IF v \in {"append", "rename"} THEN 1 ELSE 0)
<1>1. PluginHooks!IsFiniteSet(Calls) /\ hookAt'[p] = v /\ \A q \in Calls \ {p} : hookAt'[q] = hookAt[q]
  BY DEF PluginHooks!HooksAssumption, PluginHooks!TypeOK
<1>2. /\ PluginHooksAppending \subseteq Calls /\ PluginHooksAppending' \subseteq Calls
      /\ PluginHooksAppending \ {p} = PluginHooksAppending' \ {p}
      /\ (p \in PluginHooksAppending <=> hookAt[p] = "append") /\ (p \in PluginHooksAppending' <=> v = "append")
  BY <1>1 DEF PluginHooksAppending
<1>3. /\ PluginHooksMoving \subseteq Calls /\ PluginHooksMoving' \subseteq Calls
      /\ PluginHooksMoving \ {p} = PluginHooksMoving' \ {p}
      /\ (p \in PluginHooksMoving <=> hookAt[p] \in {"append", "rename"})
      /\ (p \in PluginHooksMoving' <=> v \in {"append", "rename"})
  BY <1>1 DEF PluginHooksMoving
<1>4. /\ PluginHooks!Cardinality(PluginHooksAppending) \in Nat /\ PluginHooks!Cardinality(PluginHooksAppending') \in Nat
      /\ PluginHooks!Cardinality(PluginHooksAppending') = PluginHooks!Cardinality(PluginHooksAppending)
           - (IF p \in PluginHooksAppending THEN 1 ELSE 0) + (IF p \in PluginHooksAppending' THEN 1 ELSE 0)
  BY <1>1, <1>2, PluginHooksMoves
<1>5. /\ PluginHooks!Cardinality(PluginHooksMoving) \in Nat /\ PluginHooks!Cardinality(PluginHooksMoving') \in Nat
      /\ PluginHooks!Cardinality(Calls) \in Nat /\ PluginHooks!Cardinality(PluginHooksMoving') <= PluginHooks!Cardinality(Calls)
      /\ PluginHooks!Cardinality(PluginHooksMoving') = PluginHooks!Cardinality(PluginHooksMoving)
           - (IF p \in PluginHooksMoving THEN 1 ELSE 0) + (IF p \in PluginHooksMoving' THEN 1 ELSE 0)
      /\ p \notin PluginHooksMoving' => PluginHooks!Cardinality(PluginHooksMoving') <= PluginHooks!Cardinality(Calls) - 1
  BY <1>1, <1>3, PluginHooksMoves
<1>6. PluginHooksAppending \subseteq PluginHooksMoving /\ PluginHooksAppending' \subseteq PluginHooksMoving'
  BY DEF PluginHooksAppending, PluginHooksMoving
<1>7. PluginHooks!IsFiniteSet(PluginHooksMoving) /\ PluginHooks!IsFiniteSet(PluginHooksMoving')
  <2>1. PluginHooksMoving \subseteq Calls /\ PluginHooksMoving' \subseteq Calls
    BY DEF PluginHooksMoving
  <2>. QED BY <1>1, <2>1, PluginHooksSubset
<1>8. /\ PluginHooks!Cardinality(PluginHooksAppending) <= PluginHooks!Cardinality(PluginHooksMoving)
      /\ PluginHooks!Cardinality(PluginHooksAppending') <= PluginHooks!Cardinality(PluginHooksMoving')
  BY <1>6, <1>7, PluginHooksSubset
<1>. QED BY <1>2, <1>3, <1>4, <1>5, <1>8

LEMMA PluginHooksKeeps ==
  ASSUME PluginHooks!HooksAssumption, PluginHooksInv, [PluginHooks!Next]_hookVars PROVE PluginHooksInv'
<1> DEFINE a == PluginHooks!Cardinality(PluginHooksAppending)
           m == PluginHooks!Cardinality(PluginHooksMoving)
           b == PluginHooks!Cardinality(PluginHooksAppending')
           n == PluginHooks!Cardinality(PluginHooksMoving')
           N == PluginHooks!Cardinality(Calls)
<1>1. MaxLines \in Nat /\ MaxRuns \in Nat /\ None \notin Nat
  BY DEF PluginHooks!HooksAssumption
<1>2. /\ hookAt \in [Calls -> PluginHooks!Steps] /\ hook \in [Calls -> PluginHooks!Hooks \cup {None}]
      /\ event \in [Calls -> PluginHooks!Outcomes \cup {None}]
      /\ hookLog \in Nat \cup {None} /\ rotated \in Nat \cup {None} /\ runs \in 0..MaxRuns
  BY DEF PluginHooksInv, PluginHooks!TypeOK
<1>3. ASSUME NEW p \in Calls, NEW v, PluginHooks!Goes(p, v)
      PROVE  /\ a \in Nat /\ b \in Nat /\ m \in Nat /\ n \in Nat /\ N \in Nat
             /\ a <= m /\ b <= n /\ n <= N
             /\ v \notin {"append", "rename"} => n <= N - 1
             /\ b = a - (IF hookAt[p] = "append" THEN 1 ELSE 0) + (IF v = "append" THEN 1 ELSE 0)
             /\ n = m - (IF hookAt[p] \in {"append", "rename"} THEN 1 ELSE 0)
                      + (IF v \in {"append", "rename"} THEN 1 ELSE 0)
  BY <1>3, PluginHooksCounted DEF PluginHooksInv, PluginHooks!Goes
<1>4. /\ hookLog # None => hookLog \in Nat /\ hookLog + a <= MaxLines + N
      /\ hookLog # None /\ rotated # None => hookLog + m <= MaxLines + N
      /\ rotated # None => rotated \in Nat /\ rotated <= MaxLines + N
  BY <1>2 DEF PluginHooksInv, PluginHooksAccounted
<1>5. ASSUME hookLog' # None => hookLog' + b <= MaxLines + N,
             hookLog' # None /\ rotated' # None => hookLog' + n <= MaxLines + N,
             rotated' # None => rotated' <= MaxLines + N
      PROVE  PluginHooksAccounted'
  BY <1>5 DEF PluginHooksAccounted
<1>. HIDE DEF a, b, m, n, N
<1>. USE DEF PluginHooks!Steps, PluginHooks!Hooks, PluginHooks!Outcomes
\* A step of a process that leaves the files alone and is not about to write.
<1>6. ASSUME NEW p \in Calls, NEW v, PluginHooks!Goes(p, v),
             hookAt[p] \notin {"append", "rename"}, v \notin {"append", "rename"},
             hookLog' = hookLog, rotated' = rotated
      PROVE  PluginHooksAccounted'
  <2>1. b = a /\ n = m
    BY <1>3, <1>6
  <2>. QED BY <1>4, <1>5, <1>6, <2>1
<1>7. ASSUME NEW p \in Calls, NEW h \in PluginHooks!Hooks, PluginHooks!Start(p, h) PROVE PluginHooksInv'
  <2>1. PluginHooks!TypeOK'
    BY <1>1, <1>2, <1>7 DEF PluginHooks!Start, PluginHooks!Goes, PluginHooks!TypeOK
  <2>2. PICK v \in {"asks", "stat"} : PluginHooks!Goes(p, v)
    BY <1>7 DEF PluginHooks!Start
  <2>3. PluginHooksAccounted'
    BY <1>6, <1>7, <2>2 DEF PluginHooks!Start
  <2>. QED BY <2>1, <2>3 DEF PluginHooksInv
<1>8. ASSUME NEW p \in Calls,
             PluginHooks!RequestFails(p) \/ PluginHooks!SessionStartAnswered(p) \/ PluginHooks!PromptAnswered(p) \/ PluginHooks!StopAnswered(p)
      PROVE  PluginHooksInv'
  <2>1. PICK outcomes \in SUBSET PluginHooks!Outcomes : PluginHooks!Answered(p, outcomes)
    BY <1>8 DEF PluginHooks!RequestFails, PluginHooks!SessionStartAnswered,
       PluginHooks!PromptAnswered, PluginHooks!StopAnswered
  <2>2. PluginHooks!TypeOK'
    BY <1>1, <1>2, <2>1 DEF PluginHooks!Answered, PluginHooks!Goes, PluginHooks!TypeOK
  <2>3. PluginHooksAccounted'
    BY <1>6, <2>1 DEF PluginHooks!Answered
  <2>. QED BY <2>2, <2>3 DEF PluginHooksInv
<1>9. ASSUME NEW p \in Calls, PluginHooks!Stat(p) PROVE PluginHooksInv'
  <2>1. PluginHooks!TypeOK'
    BY <1>1, <1>2, <1>9 DEF PluginHooks!Stat, PluginHooks!Goes, PluginHooks!TypeOK
  <2>2. ASSUME hookLog # None /\ hookLog > MaxLines PROVE PluginHooksAccounted'
    BY <1>6, <1>9, <2>2 DEF PluginHooks!Stat
  <2>3. ASSUME ~(hookLog # None /\ hookLog > MaxLines) PROVE PluginHooksAccounted'
    <3>1. hookAt[p] = "stat" /\ PluginHooks!Goes(p, "append")
          /\ hookLog' = hookLog /\ rotated' = rotated
      BY <1>9, <2>3 DEF PluginHooks!Stat
    <3>2. hookLog # None => hookLog \in Nat /\ hookLog <= MaxLines
      BY <1>1, <1>2, <2>3
    <3>3. b \in Nat /\ n \in Nat /\ N \in Nat /\ b <= N /\ n <= N
      BY <1>3, <3>1
    <3>. QED BY <1>1, <1>4, <1>5, <3>1, <3>2, <3>3
  <2>. QED BY <2>1, <2>2, <2>3 DEF PluginHooksInv
<1>10. ASSUME NEW p \in Calls, PluginHooks!Remove(p) PROVE PluginHooksInv'
  <2>1. PluginHooks!TypeOK'
    BY <1>1, <1>2, <1>10 DEF PluginHooks!Remove, PluginHooks!Goes, PluginHooks!TypeOK
  <2>2. /\ hookAt[p] = "remove" /\ PluginHooks!Goes(p, "rename")
        /\ hookLog' = hookLog /\ rotated' = None
    BY <1>10 DEF PluginHooks!Remove
  <2>3. b = a
    BY <1>3, <2>2
  <2>4. PluginHooksAccounted'
    BY <1>4, <1>5, <2>2, <2>3
  <2>. QED BY <2>1, <2>4 DEF PluginHooksInv
<1>11. ASSUME NEW p \in Calls, PluginHooks!Rename(p) PROVE PluginHooksInv'
  <2>1. PluginHooks!TypeOK'
    BY <1>1, <1>2, <1>11 DEF PluginHooks!Rename, PluginHooks!Goes, PluginHooks!TypeOK
  <2>2. /\ hookAt[p] = "rename" /\ PluginHooks!Goes(p, "append")
        /\ \/ hookLog' = hookLog /\ rotated' = rotated /\ (hookLog = None \/ rotated # None)
           \/ hookLog # None /\ rotated' = hookLog /\ hookLog' = None
    BY <1>11 DEF PluginHooks!Rename
  <2>3. /\ a \in Nat /\ N \in Nat /\ m \in Nat /\ b \in Nat
        /\ b <= n /\ b = a + 1 /\ n = m
    BY <1>3, <2>2
  <2>4. PluginHooksAccounted'
    BY <1>1, <1>4, <1>5, <2>2, <2>3
  <2>. QED BY <2>1, <2>4 DEF PluginHooksInv
<1>12. ASSUME NEW p \in Calls, PluginHooks!AppendLine(p) PROVE PluginHooksInv'
  <2>1. PluginHooks!TypeOK'
    BY <1>1, <1>2, <1>12 DEF PluginHooks!AppendLine, PluginHooks!Goes, PluginHooks!TypeOK
  <2>2. PICK v \in {"emit", "idle"} : PluginHooks!Goes(p, v)
    BY <1>12 DEF PluginHooks!AppendLine
  <2>3. /\ hookAt[p] = "append" /\ rotated' = rotated
        /\ hookLog' = IF hookLog = None THEN 1 ELSE hookLog + 1
    BY <1>12 DEF PluginHooks!AppendLine
  <2>4. /\ a \in Nat /\ b \in Nat /\ m \in Nat /\ n \in Nat /\ N \in Nat
        /\ n <= N - 1 /\ b <= n /\ b = a - 1 /\ n = m - 1
    BY <1>3, <2>2, <2>3
  <2>5. PluginHooksAccounted'
    <3>1. CASE hookLog = None
      BY <1>1, <1>4, <1>5, <2>3, <2>4, <3>1
    <3>2. CASE hookLog # None
      BY <1>1, <1>4, <1>5, <2>3, <2>4, <3>2
    <3>. QED BY <3>1, <3>2
  <2>. QED BY <2>1, <2>5 DEF PluginHooksInv
<1>13. ASSUME NEW p \in Calls, PluginHooks!EmitContext(p) PROVE PluginHooksInv'
  <2>1. PluginHooks!TypeOK'
    BY <1>1, <1>2, <1>13 DEF PluginHooks!EmitContext, PluginHooks!Goes, PluginHooks!TypeOK
  <2>2. PluginHooksAccounted'
    BY <1>6, <1>13 DEF PluginHooks!EmitContext
  <2>. QED BY <2>1, <2>2 DEF PluginHooksInv
<1>14. CASE UNCHANGED hookVars
  BY <1>14 DEF hookVars, PluginHooksInv, PluginHooks!TypeOK, PluginHooksAccounted,
     PluginHooksAppending, PluginHooksMoving
<1>. QED BY <1>7, <1>8, <1>9, <1>10, <1>11, <1>12, <1>13, <1>14 DEF PluginHooks!Next

LEMMA PluginHooksImplies ==
  ASSUME PluginHooks!HooksAssumption, PluginHooksInv PROVE PluginHooks!LogBounded
<1>1. hookLog # None => hookLog \in Nat /\ hookLog <= MaxLines + PluginHooks!Cardinality(Calls)
  <2>1. PluginHooksAppending \subseteq Calls
    BY DEF PluginHooksAppending
  <2>2. PluginHooks!Cardinality(PluginHooksAppending) \in Nat /\ PluginHooks!Cardinality(Calls) \in Nat
    BY <2>1, PluginHooksSubset, PluginHooksCardinalityType DEF PluginHooks!HooksAssumption
  <2>. QED BY <2>2 DEF PluginHooksInv, PluginHooks!TypeOK, PluginHooksAccounted,
         PluginHooks!HooksAssumption
<1>. QED BY <1>1 DEF PluginHooksInv, PluginHooksAccounted, PluginHooks!LogBounded

\* A behaviour of the whole that is this part's is a behaviour of this part.
LEMMA PluginHooksBegins ==
  ASSUME Init, part = "PluginHooks" PROVE PluginHooks!Init
BY DEF Init

LEMMA PluginHooksGoes ==
  ASSUME [Next]_<<part, recallGroup, persistGroup, userGroup, callGroup>>, part = "PluginHooks"
  PROVE  part' = "PluginHooks" /\ [PluginHooks!Next]_hookVars
<1>1. CASE Next
  BY <1>1 DEF Next, RecallNext, PersistNext, UserNext, CallNext, callGroup
<1>2. CASE UNCHANGED <<part, recallGroup, persistGroup, userGroup, callGroup>>
  BY <1>2 DEF callGroup
<1>. QED BY <1>1, <1>2

------------------------------------------------------------------------------
\* The loop behind the synchronous client of the Python SDK.

\* A close that still has the loop to stop, or to find stopped.
SyncClientClosing(c) == syncCloser[c] \in {"aclose", "stop", "join", "close"}

\* Whoever has set the flag still is to close the loop, unless another did or gave up.
SyncClientInv ==
  /\ SyncClient!TypeOK
  /\ \A c \in Recalls : SyncClientClosing(c) => syncClosed
  /\ \A c \in Recalls : syncCloser[c] \in {"join", "close"} => loop # "running"
  /\ \A c \in Recalls : syncCloser[c] = "close" => loop \in {"stopped", "closed"} \/ gaveUp
  /\ syncClosed => (\E c \in Recalls : SyncClientClosing(c)) \/ loop = "closed" \/ gaveUp

LEMMA SyncClientStarts ==
  ASSUME SyncClient!Init PROVE SyncClientInv
<1>1. SyncClient!TypeOK
  BY DEF SyncClient!Init, SyncClient!TypeOK, SyncClient!LoopStates, SyncClient!CloseStages
<1>. QED BY <1>1 DEF SyncClient!Init, SyncClientInv, SyncClientClosing

LEMMA SyncClientKeeps ==
  ASSUME SyncClientInv, [SyncClient!Next]_syncVars PROVE SyncClientInv'
<1>1. /\ syncClosed \in BOOLEAN /\ gaveUp \in BOOLEAN /\ loop \in SyncClient!LoopStates
      /\ syncCall \in [Calls -> {"idle", "checked", "submitted"}]
      /\ syncCloser \in [Recalls -> SyncClient!CloseStages]
      /\ loop # "running" => syncClosed
  BY DEF SyncClientInv, SyncClient!TypeOK
<1>. USE DEF SyncClient!LoopStates, SyncClient!CloseStages
<1>2. ASSUME NEW t \in Calls, SyncClient!Run(t) \/ SyncClient!Submit(t) \/ SyncClient!Answered(t) PROVE SyncClientInv'
  <2>1. syncCall' \in [Calls -> {"idle", "checked", "submitted"}]
    BY <1>1, <1>2 DEF SyncClient!Run, SyncClient!Submit, SyncClient!Answered,
       SyncClient!CallGoes
  <2>2. UNCHANGED <<syncClosed, loop, syncCloser, gaveUp>>
    BY <1>2 DEF SyncClient!Run, SyncClient!Submit, SyncClient!Answered
  <2>. QED BY <2>1, <2>2 DEF SyncClientInv, SyncClient!TypeOK, SyncClientClosing
\* A close moves on while the others stay where they are.
<1>3. ASSUME NEW c \in Recalls, NEW from, NEW to \in SyncClient!CloseStages, SyncClient!At(c, from, to)
      PROVE  /\ syncCloser' \in [Recalls -> SyncClient!CloseStages] /\ syncCloser[c] = from /\ syncCloser'[c] = to
             /\ \A d \in Recalls \ {c} : syncCloser'[d] = syncCloser[d]
  BY <1>1, <1>3 DEF SyncClient!At
<1>4. ASSUME NEW c \in Recalls, SyncClient!Close(c) PROVE SyncClientInv'
  BY <1>1, <1>3, <1>4 DEF SyncClient!Close, SyncClientInv, SyncClient!TypeOK, SyncClientClosing
<1>5. ASSUME NEW c \in Recalls, SyncClient!SetClosed(c) PROVE SyncClientInv'
  BY <1>1, <1>3, <1>5 DEF SyncClient!SetClosed, SyncClientInv, SyncClient!TypeOK,
     SyncClientClosing
<1>6. ASSUME NEW c \in Recalls, SyncClient!AcloseEnds(c) \/ SyncClient!AcloseFails(c) PROVE SyncClientInv'
  BY <1>1, <1>3, <1>6 DEF SyncClient!AcloseEnds, SyncClient!AcloseFails, SyncClientInv,
     SyncClient!TypeOK, SyncClientClosing
<1>7. ASSUME NEW c \in Recalls, SyncClient!Stop(c) PROVE SyncClientInv'
  <2>1. CASE loop = "closed"
    BY <1>1, <1>3, <1>7, <2>1 DEF SyncClient!Stop, SyncClientInv, SyncClient!TypeOK,
       SyncClientClosing
  <2>2. CASE loop # "closed"
    <3>1. SyncClient!At(c, "stop", "join") /\ loop' \in {loop, "stopping"} /\ loop' # "running"
      BY <1>1, <1>7, <2>2 DEF SyncClient!Stop
    <3>. QED BY <1>1, <1>3, <1>7, <2>2, <3>1 DEF SyncClient!Stop, SyncClientInv,
           SyncClient!TypeOK, SyncClientClosing
  <2>. QED BY <2>1, <2>2
<1>8. ASSUME NEW c \in Recalls, SyncClient!Join(c) PROVE SyncClientInv'
  BY <1>1, <1>3, <1>8 DEF SyncClient!Join, SyncClientInv, SyncClient!TypeOK, SyncClientClosing
<1>9. ASSUME NEW c \in Recalls, SyncClient!CloseLoop(c) PROVE SyncClientInv'
  <2>1. CASE loop = "stopped"
    BY <1>1, <1>3, <1>9, <2>1 DEF SyncClient!CloseLoop, SyncClientInv, SyncClient!TypeOK,
       SyncClientClosing
  <2>2. CASE loop # "stopped"
    BY <1>1, <1>3, <1>9, <2>2 DEF SyncClient!CloseLoop, SyncClientInv, SyncClient!TypeOK,
       SyncClientClosing
  <2>. QED BY <2>1, <2>2
<1>10. CASE SyncClient!LoopStops
  BY <1>1, <1>10 DEF SyncClient!LoopStops, SyncClientInv, SyncClient!TypeOK, SyncClientClosing
<1>11. CASE UNCHANGED syncVars
  BY <1>11 DEF syncVars, SyncClientInv, SyncClient!TypeOK, SyncClientClosing
<1>. QED BY <1>2, <1>4, <1>5, <1>6, <1>7, <1>8, <1>9, <1>10, <1>11 DEF SyncClient!Next

LEMMA SyncClientImplies ==
  ASSUME SyncClientInv PROVE SyncClient!NothingOutlives
BY DEF SyncClientInv, SyncClient!NothingOutlives, SyncClientClosing

\* A behaviour of the whole that is this part's is a behaviour of this part.
LEMMA SyncClientBegins ==
  ASSUME Init, part = "SyncClient" PROVE SyncClient!Init
BY DEF Init

LEMMA SyncClientGoes ==
  ASSUME [Next]_<<part, recallGroup, persistGroup, userGroup, callGroup>>, part = "SyncClient"
  PROVE  part' = "SyncClient" /\ [SyncClient!Next]_syncVars
<1>1. CASE Next
  BY <1>1 DEF Next, RecallNext, PersistNext, UserNext, CallNext, callGroup
<1>2. CASE UNCHANGED <<part, recallGroup, persistGroup, userGroup, callGroup>>
  BY <1>2 DEF callGroup
<1>. QED BY <1>1, <1>2

------------------------------------------------------------------------------
\* Whichever part a behaviour is of, that part's invariant holds.
CallInv ==
  /\ part = "N8nNode" => N8nNodeInv
  /\ part = "ClaudeCapture" => ClaudeCaptureInv
  /\ part = "PydanticBackend" => PydanticBackendInv
  /\ part = "FrameworkStore" => FrameworkStoreInv
  /\ part = "MemoryTools" => MemoryToolsInv
  /\ part = "SdkCalls" => SdkCallsInv
  /\ part = "OpenClawGateway" => OpenClawGatewayInv
  /\ part = "PluginHooks" => PluginHooksInv
  /\ part = "SyncClient" => SyncClientInv

LEMMA CallStart == Init => CallInv
<1>. SUFFICES ASSUME Init PROVE CallInv
  OBVIOUS
<1>1. part = "N8nNode" => N8nNodeInv
  BY Assumptions, N8nNodeBegins, N8nNodeStarts
<1>2. part = "ClaudeCapture" => ClaudeCaptureInv
  BY Assumptions, ClaudeCaptureBegins, ClaudeCaptureStarts
<1>3. part = "PydanticBackend" => PydanticBackendInv
  BY Assumptions, PydanticBackendBegins, PydanticBackendStarts
<1>4. part = "FrameworkStore" => FrameworkStoreInv
  BY FrameworkStoreBegins, FrameworkStoreStarts
<1>5. part = "MemoryTools" => MemoryToolsInv
  BY Assumptions, MemoryToolsBegins, MemoryToolsStarts
<1>6. part = "SdkCalls" => SdkCallsInv
  BY SdkCallsBegins, SdkCallsStarts
<1>7. part = "OpenClawGateway" => OpenClawGatewayInv
  BY Assumptions, OpenClawGatewayBegins, OpenClawGatewayStarts
<1>8. part = "PluginHooks" => PluginHooksInv
  BY Assumptions, PluginHooksBegins, PluginHooksStarts
<1>9. part = "SyncClient" => SyncClientInv
  BY SyncClientBegins, SyncClientStarts
<1>. QED
  BY <1>1, <1>2, <1>3, <1>4, <1>5, <1>6, <1>7, <1>8, <1>9 DEF CallInv

LEMMA CallStep == CallInv /\ [Next]_<<part, recallGroup, persistGroup, userGroup, callGroup>> => CallInv'
<1>. SUFFICES ASSUME CallInv, [Next]_<<part, recallGroup, persistGroup, userGroup, callGroup>> PROVE CallInv'
  OBVIOUS
<1>0. part' = part
  BY DEF Next
<1>1. part = "N8nNode" => N8nNodeInv'
  <2>. SUFFICES ASSUME part = "N8nNode" PROVE N8nNodeInv'
    OBVIOUS
  <2>1. N8nNodeInv
    BY DEF CallInv
  <2>2. [N8nNode!Next]_nodeVars
    BY N8nNodeGoes
  <2>. QED BY Assumptions, <2>1, <2>2, N8nNodeKeeps
<1>2. part = "ClaudeCapture" => ClaudeCaptureInv'
  <2>. SUFFICES ASSUME part = "ClaudeCapture" PROVE ClaudeCaptureInv'
    OBVIOUS
  <2>1. ClaudeCaptureInv
    BY DEF CallInv
  <2>2. [ClaudeCapture!Next]_captureVars
    BY ClaudeCaptureGoes
  <2>. QED BY Assumptions, <2>1, <2>2, ClaudeCaptureKeeps
<1>3. part = "PydanticBackend" => PydanticBackendInv'
  <2>. SUFFICES ASSUME part = "PydanticBackend" PROVE PydanticBackendInv'
    OBVIOUS
  <2>1. PydanticBackendInv
    BY DEF CallInv
  <2>2. [PydanticBackend!Next]_backendVars
    BY PydanticBackendGoes
  <2>. QED BY Assumptions, <2>1, <2>2, PydanticBackendKeeps
<1>4. part = "FrameworkStore" => FrameworkStoreInv'
  <2>. SUFFICES ASSUME part = "FrameworkStore" PROVE FrameworkStoreInv'
    OBVIOUS
  <2>1. FrameworkStoreInv
    BY DEF CallInv
  <2>2. [FrameworkStore!Next]_frameworkVars
    BY FrameworkStoreGoes
  <2>. QED BY <2>1, <2>2, FrameworkStoreKeeps
<1>5. part = "MemoryTools" => MemoryToolsInv'
  <2>. SUFFICES ASSUME part = "MemoryTools" PROVE MemoryToolsInv'
    OBVIOUS
  <2>1. MemoryToolsInv
    BY DEF CallInv
  <2>2. [MemoryTools!Next]_toolVars
    BY MemoryToolsGoes
  <2>. QED BY Assumptions, <2>1, <2>2, MemoryToolsKeeps
<1>6. part = "SdkCalls" => SdkCallsInv'
  <2>. SUFFICES ASSUME part = "SdkCalls" PROVE SdkCallsInv'
    OBVIOUS
  <2>1. SdkCallsInv
    BY DEF CallInv
  <2>2. [SdkCalls!Next]_sdkVars
    BY SdkCallsGoes
  <2>. QED BY <2>1, <2>2, SdkCallsKeeps
<1>7. part = "OpenClawGateway" => OpenClawGatewayInv'
  <2>. SUFFICES ASSUME part = "OpenClawGateway" PROVE OpenClawGatewayInv'
    OBVIOUS
  <2>1. OpenClawGatewayInv
    BY DEF CallInv
  <2>2. [OpenClawGateway!Next]_gatewayVars
    BY OpenClawGatewayGoes
  <2>. QED BY Assumptions, <2>1, <2>2, OpenClawGatewayKeeps
<1>8. part = "PluginHooks" => PluginHooksInv'
  <2>. SUFFICES ASSUME part = "PluginHooks" PROVE PluginHooksInv'
    OBVIOUS
  <2>1. PluginHooksInv
    BY DEF CallInv
  <2>2. [PluginHooks!Next]_hookVars
    BY PluginHooksGoes
  <2>. QED BY Assumptions, <2>1, <2>2, PluginHooksKeeps
<1>9. part = "SyncClient" => SyncClientInv'
  <2>. SUFFICES ASSUME part = "SyncClient" PROVE SyncClientInv'
    OBVIOUS
  <2>1. SyncClientInv
    BY DEF CallInv
  <2>2. [SyncClient!Next]_syncVars
    BY SyncClientGoes
  <2>. QED BY <2>1, <2>2, SyncClientKeeps
<1>. QED
  BY <1>0, <1>1, <1>2, <1>3, <1>4, <1>5, <1>6, <1>7, <1>8, <1>9 DEF CallInv

------------------------------------------------------------------------------
\* A walk of the n8n node over the pages of a list collects what was there from the
\* beginning, but for what lies behind the last page its guard allows
\* (Cortadel.node.ts:248), and nothing twice, unless others delete and add meanwhile.
THEOREM WalksMissNothing == Spec => []WalkMissesNothing
<1>1. CallInv => WalkMissesNothing
  BY Assumptions, N8nNodeImplies DEF CallInv, WalkMissesNothing
<1>. QED BY CallStart, CallStep, <1>1, PTL DEF Spec

\* Calls to a failing server, the shared log and the loop of a closed client stay
\* bounded, whoever overlaps with whom.
THEOREM BoundsHold == Spec => []Contained
<1>1. CallInv => Contained
  BY Assumptions, OpenClawGatewayImplies, PluginHooksImplies, SyncClientImplies DEF CallInv,
     Contained
<1>. QED BY CallStart, CallStep, <1>1, PTL DEF Spec

\* The Stop hook of the Claude integration hands over the turn that ended, whichever
\* reader of the transcript works; in the person's words, unless that was the SDK's.
THEOREM FinishedTurnsAreCaptured == Spec => []CapturesFinishedTurn
<1>1. CallInv => CapturesFinishedTurn
  BY Assumptions, ClaudeCaptureImplies DEF CallInv, CapturesFinishedTurn
<1>. QED BY CallStart, CallStep, <1>1, PTL DEF Spec

\* A memory tool reports what the store has.
THEOREM ReportsAreStored == Spec => []ReportedIsStored
<1>1. CallInv => ReportedIsStored
  BY Assumptions, MemoryToolsImplies DEF CallInv, ReportedIsStored
<1>. QED BY CallStart, CallStep, <1>1, PTL DEF Spec

\* A call of the TypeScript SDK that fails reports its own status.
THEOREM StatusesAreOwn == Spec => []OwnStatus
<1>1. CallInv => OwnStatus
  BY Assumptions, SdkCallsImplies DEF CallInv, OwnStatus
<1>. QED BY CallStart, CallStep, <1>1, PTL DEF Spec

\* What a step may do while somebody waits for the writes.
Drained ==
  /\ part = "ClaudeCapture" => ClaudeCapture!FlushWaits
  /\ part = "PydanticBackend" => PydanticBackend!AcloseDrains
  /\ part = "FrameworkStore" => FrameworkStore!DisposeDrains

\* flush, aclose and DisposeAsync go on when none is left of the writes they wait for.
THEOREM FlushesDrain == Spec => FlushDrains
<1>1. CallInv /\ [Next]_<<part, recallGroup, persistGroup, userGroup, callGroup>> => Drained
  <2>. SUFFICES ASSUME CallInv, [Next]_<<part, recallGroup, persistGroup, userGroup, callGroup>> PROVE Drained
    OBVIOUS
  <2>1. ASSUME part = "ClaudeCapture" PROVE ClaudeCapture!FlushWaits
    <3>1. ClaudeCaptureInv /\ [ClaudeCapture!Next]_captureVars
      BY <2>1, ClaudeCaptureGoes DEF CallInv
    <3>. QED BY Assumptions, <3>1, ClaudeCaptureDrains
  <2>2. ASSUME part = "PydanticBackend" PROVE PydanticBackend!AcloseDrains
    <3>1. PydanticBackendInv /\ [PydanticBackend!Next]_backendVars
      BY <2>2, PydanticBackendGoes DEF CallInv
    <3>. QED BY Assumptions, <3>1, PydanticBackendDrains
  <2>3. ASSUME part = "FrameworkStore" PROVE FrameworkStore!DisposeDrains
    <3>1. FrameworkStoreInv /\ [FrameworkStore!Next]_frameworkVars
      BY <2>3, FrameworkStoreGoes DEF CallInv
    <3>. QED BY Assumptions, <3>1, FrameworkStoreDrains
  <2>. QED BY <2>1, <2>2, <2>3 DEF Drained
<1>2. Spec => [][Drained]_persistGroup
  BY CallStart, CallStep, <1>1, PTL DEF Spec
<1>. QED BY <1>2 DEF FlushDrains, Drained

\* Every part keeps the types of its state, and its tables, caches and logs stay within
\* their bounds.
THEOREM TypesHold == Spec => []TypeOK
<1>1. MemoryInv /\ CallInv => TypeOK
  <2>. SUFFICES ASSUME MemoryInv, CallInv PROVE TypeOK
    OBVIOUS
  <2>1. part = "VercelRecall" => VercelRecall!TypeOK
    BY DEF MemoryInv, VercelRecallInv
  <2>2. part = "OpenAIRecall" => OpenAIRecall!TypeOK
    BY DEF MemoryInv, OpenAIRecallInv
  <2>3. part = "VercelPersist" => VercelPersist!TypeOK
    BY DEF MemoryInv, VercelPersistInv
  <2>4. part = "DeepAgents" => DeepAgents!TypeOK
    BY DEF MemoryInv, DeepAgentsInv
  <2>5. part = "N8nMemory" => N8nMemory!TypeOK
    BY Assumptions, N8nMemoryTypes DEF MemoryInv
  <2>6. part = "PluginStop" => PluginStop!TypeOK
    BY DEF MemoryInv, PluginStopInv
  <2>7. part = "OpenClawScope" => OpenClawScope!TypeOK
    BY DEF MemoryInv, OpenClawScopeInv
  <2>8. part = "RunIdentity" => RunIdentity!TypeOK
    BY DEF MemoryInv, RunIdentityInv
  <2>9. part = "PluginConfig" => PluginConfig!TypeOK
    BY DEF MemoryInv, PluginConfigInv
  <2>10. part = "ClaudeRecall" => ClaudeRecall!TypeOK
    BY Assumptions, ClaudeRecallTypes DEF MemoryInv
  <2>11. part = "OpenClawRecall" => OpenClawRecall!TypeOK
    BY Assumptions, OpenClawRecallTypes DEF MemoryInv
  <2>12. part = "MastraRecall" => MastraRecall!TypeOK
    BY Assumptions, MastraRecallTypes DEF MemoryInv
  <2>13. part = "FrameworkRecall" => FrameworkRecall!TypeOK
    BY Assumptions, FrameworkRecallTypes DEF MemoryInv
  <2>14. part = "CrewRecall" => CrewRecall!TypeOK
    BY Assumptions, CrewRecallTypes DEF MemoryInv
  <2>15. part = "N8nNode" => N8nNode!TypeOK
    BY Assumptions, N8nNodeTypes DEF CallInv
  <2>16. part = "ClaudeCapture" => ClaudeCapture!TypeOK
    BY DEF CallInv, ClaudeCaptureInv
  <2>17. part = "PydanticBackend" => PydanticBackend!TypeOK
    BY DEF CallInv, PydanticBackendInv
  <2>18. part = "FrameworkStore" => FrameworkStore!TypeOK
    BY DEF CallInv, FrameworkStoreInv
  <2>19. part = "MemoryTools" => MemoryTools!TypeOK
    BY DEF CallInv, MemoryToolsInv
  <2>20. part = "SdkCalls" => SdkCalls!TypeOK
    BY DEF CallInv, SdkCallsInv
  <2>21. part = "OpenClawGateway" => OpenClawGateway!TypeOK
    BY DEF CallInv, OpenClawGatewayInv
  <2>22. part = "PluginHooks" => PluginHooks!TypeOK
    BY DEF CallInv, PluginHooksInv
  <2>23. part = "SyncClient" => SyncClient!TypeOK
    BY DEF CallInv, SyncClientInv
  <2>. QED
    BY <2>1, <2>2, <2>3, <2>4, <2>5, <2>6, <2>7, <2>8, <2>9, <2>10, <2>11, <2>12, <2>13,
       <2>14, <2>15, <2>16, <2>17, <2>18, <2>19, <2>20, <2>21, <2>22, <2>23 DEF TypeOK
<1>. QED BY MemoryStart, MemoryStep, CallStart, CallStep, <1>1, PTL DEF Spec
==============================================================================
