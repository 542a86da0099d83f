------------------------- MODULE OpenAISessionProofs -------------------------
(***************************************************************************)
(* The storage half of CortadelSession keeps its types and implements      *)
(* Delivery for every number of messages, operations and writes.           *)
(***************************************************************************)
EXTENDS OpenAISession, TLAPS

LEMMA ConcatFacts ==
  ASSUME NEW S, NEW s \in Seq(S), NEW t \in Seq(S)
  PROVE  /\ s \o t \in Seq(S)
         /\ ToSet(s \o t) = ToSet(s) \cup ToSet(t)
         /\ t # <<>> => s \o t # <<>>
<1>1. /\ s \o t \in Seq(S) /\ Len(s) \in Nat /\ Len(t) \in Nat
      /\ Len(s \o t) = Len(s) + Len(t)
      /\ DOMAIN s = 1..Len(s) /\ DOMAIN t = 1..Len(t) /\ DOMAIN (s \o t) = 1..(Len(s) + Len(t))
      /\ \A i \in 1..Len(s) : (s \o t)[i] = s[i]
      /\ \A i \in 1..Len(t) : (s \o t)[Len(s) + i] = t[i]
  OBVIOUS
<1> DEFINE u == s \o t
<1>. HIDE DEF u
<1>2. ToSet(u) \subseteq ToSet(s) \cup ToSet(t)
  <2>. SUFFICES ASSUME NEW i \in 1..(Len(s) + Len(t)) PROVE u[i] \in ToSet(s) \cup ToSet(t)
    BY <1>1 DEF ToSet, u
  <2>1. CASE i <= Len(s)
    BY <1>1, <2>1 DEF ToSet, u
  <2>2. CASE i > Len(s)
    <3>1. i - Len(s) \in 1..Len(t) /\ i = Len(s) + (i - Len(s))
      BY <1>1, <2>2
    <3>2. u[i] = t[i - Len(s)]
      BY <1>1, <3>1 DEF u
    <3>. QED BY <1>1, <3>1, <3>2 DEF ToSet
  <2>. QED BY <1>1, <2>1, <2>2
<1>3. ToSet(s) \subseteq ToSet(u)
  BY <1>1 DEF ToSet, u
<1>4. ToSet(t) \subseteq ToSet(u)
  <2>. SUFFICES ASSUME NEW i \in 1..Len(t) PROVE t[i] \in ToSet(u)
    BY <1>1 DEF ToSet
  <2>1. Len(s) + i \in 1..(Len(s) + Len(t)) /\ u[Len(s) + i] = t[i]
    BY <1>1 DEF u
  <2>. QED BY <1>1, <2>1 DEF ToSet, u
<1>5. t # <<>> => u # <<>>
  BY <1>1 DEF u
<1>. QED BY <1>1, <1>2, <1>3, <1>4, <1>5 DEF u

LEMMA FrontFacts ==
  ASSUME NEW S, NEW s \in Seq(S), s # <<>>
  PROVE  /\ Front(s) \in Seq(S) /\ Len(Front(s)) = Len(s) - 1
         /\ \A i \in 1..(Len(s) - 1) : Front(s)[i] = s[i]
         /\ Len(s) \in Nat \ {0} /\ Last(s) = s[Len(s)] /\ Last(s) \in S
         /\ ToSet(s) = ToSet(Front(s)) \cup {Last(s)}
<1>1. Len(s) \in Nat \ {0} /\ DOMAIN s = 1..Len(s)
  OBVIOUS
<1>2. /\ Front(s) \in Seq(S) /\ Len(Front(s)) = Len(s) - 1
      /\ DOMAIN Front(s) = 1..(Len(s) - 1)
      /\ \A i \in 1..(Len(s) - 1) : Front(s)[i] = s[i]
  BY <1>1 DEF Front
<1>3. Last(s) = s[Len(s)] /\ Last(s) \in S
  BY <1>1 DEF Last
<1>4. ToSet(s) = ToSet(Front(s)) \cup {Last(s)}
  <2>. HIDE DEF Front
  <2>1. ToSet(Front(s)) \subseteq ToSet(s) /\ Last(s) \in ToSet(s)
    BY <1>1, <1>2, <1>3 DEF ToSet
  <2>2. ASSUME NEW i \in 1..Len(s) PROVE s[i] \in ToSet(Front(s)) \cup {Last(s)}
    <3>0. i = Len(s) \/ i < Len(s)
      <4>1. i \in Int /\ Len(s) \in Int /\ i <= Len(s)
        BY <1>1
      <4>. QED BY <4>1
    <3>1. CASE i = Len(s)
      BY <3>1, <1>3
    <3>2. CASE i < Len(s)
      <4>1. i \in 1..(Len(s) - 1)
        BY <1>1, <3>2
      <4>. QED BY <1>2, <4>1 DEF ToSet
    <3>. QED BY <3>0, <3>1, <3>2
  <2>. QED BY <1>1, <2>1, <2>2 DEF ToSet
<1>. QED BY <1>1, <1>2, <1>3, <1>4

LEMMA ToSetOf ==
  ASSUME NEW S, NEW s \in Seq(S)
  PROVE  ToSet(s) \subseteq S /\ (s = <<>> <=> ToSet(s) = {})
<1>1. Len(s) \in Nat /\ DOMAIN s = 1..Len(s)
  OBVIOUS
<1>2. ToSet(s) \subseteq S
  BY <1>1 DEF ToSet
<1>3. s # <<>> => s[1] \in ToSet(s)
  BY <1>1 DEF ToSet
<1>4. s = <<>> => ToSet(s) = {}
  BY <1>1 DEF ToSet
<1>. QED BY <1>2, <1>3, <1>4

\* What the runner hands over: one or two new messages, in their order.
LEMMA NextItemsFacts ==
  ASSUME NEW items \in NextItems
  PROVE  /\ items \in Seq(Msgs) /\ items # <<>>
         /\ \A i, j \in 1..Len(items) : items[i] = items[j] => i = j
         /\ \A n \in Msgs, m \in ToSet(items) : n < m => n \in given \/ n \in ToSet(items)
         /\ \E m \in Msgs \ given :
              /\ \A k \in Msgs \ given : m <= k
              /\ m \in ToSet(items) /\ ToSet(items) \subseteq {m, m + 1}
              /\ items[1] = m /\ Len(items) \in 1..2
<1>1. PICK m \in Msgs \ given :
        /\ \A k \in Msgs \ given : m <= k
        /\ items = <<m>> \/ (m + 1 \in Msgs /\ items = <<m, m + 1>>)
  BY DEF NextItems
<1>2. m \in Nat /\ Msgs \subseteq Nat
  BY <1>1, MsgsAssumption
<1>3. CASE items = <<m>>
  <2>1. ToSet(items) = {m}
    BY <1>3 DEF ToSet
  <2>. QED BY <1>1, <1>2, <1>3, <2>1
<1>4. CASE m + 1 \in Msgs /\ items = <<m, m + 1>>
  <2>1. ToSet(items) = {m, m + 1}
    BY <1>4 DEF ToSet
  <2>2. \A n \in Msgs : n < m => n \in given
    BY <1>1, <1>2
  <2>. QED BY <1>1, <1>2, <1>4, <2>1, <2>2
<1>. QED BY <1>1, <1>3, <1>4

------------------------------------------------------------------------------
LEMMA Init_TypeOK == Init => TypeOK
<1>. SUFFICES ASSUME Init PROVE TypeOK
  OBVIOUS
<1>1. <<>> \in Seq(Msgs)
  OBVIOUS
<1>2. /\ transcript \in Seq(Msgs) /\ pending \in Seq(Msgs)
      /\ writes \in [Writes -> Seq(Msgs)] /\ arg \in [Ops -> Seq(Msgs)]
  BY <1>1 DEF Init
<1>3. /\ pc \in [Ops -> Places] /\ alone \in [Ops -> BOOLEAN]
      /\ waits \in [Ops -> SUBSET Writes] /\ owedAt \in [Ops -> SUBSET Msgs]
  BY DEF Init, Places
<1>. QED BY <1>2, <1>3 DEF Init, TypeOK

LEMMA Next_TypeOK == TypeOK /\ [Next]_vars => TypeOK'
<1>. SUFFICES ASSUME TypeOK, [Next]_vars PROVE TypeOK'
  OBVIOUS
<1>. USE DEF Places
<1>1. ASSUME NEW o \in Ops, NEW items \in NextItems, AddItems(o, items) PROVE TypeOK'
  <2>1. items \in Seq(Msgs) /\ ToSet(items) \subseteq Msgs
    BY NextItemsFacts, ToSetOf
  <2>2. transcript \o items \in Seq(Msgs)
    BY <2>1 DEF TypeOK
  <2>. QED BY <1>1, <2>1, <2>2 DEF AddItems, StartOn, TypeOK, tasks, settled
<1>2. ASSUME NEW o \in Ops, AddItemsBuffers(o) PROVE TypeOK'
  <2> DEFINE all == pending \o arg[o]
  <2>1. /\ arg[o] \in Seq(Msgs) /\ all \in Seq(Msgs) /\ ToSet(arg[o]) \subseteq Msgs
        /\ AssistantSpoke(arg[o]) => all # <<>>
    <3>1. arg[o] \in Seq(Msgs) /\ pending \in Seq(Msgs)
      BY DEF TypeOK
    <3>2. AssistantSpoke(arg[o]) => arg[o] # <<>>
      BY <3>1, ToSetOf DEF AssistantSpoke
    <3>. QED BY <3>1, <3>2, ConcatFacts, ToSetOf
  <2>. HIDE DEF all
  <2>2. CASE ~AssistantSpoke(arg[o]) /\ pending' = all /\ Finish(o) /\ UNCHANGED <<tasks, waits>>
    BY <1>2, <2>1, <2>2 DEF AddItemsBuffers, Finish, tasks, settled, TypeOK
  <2>3. CASE pending' = all /\ StartFlush(o, Owed \cup ToSet(arg[o])) /\ UNCHANGED writes
    <3>1. Owed \subseteq Msgs
      <4>1. ToSet(pending) \subseteq Msgs /\ \A w \in Writes : ToSet(writes[w]) \subseteq Msgs
        BY ToSetOf DEF TypeOK
      <4>. QED BY <4>1 DEF Owed, InFlight
    <3>2. persistTasks \subseteq Writes
      BY DEF TypeOK
    <3>. QED BY <1>2, <2>1, <2>3, <3>1, <3>2 DEF AddItemsBuffers, StartFlush, settled, TypeOK
  <2>4. CASE /\ AssistantSpoke(arg[o])
             /\ \E w \in Writes : TakeBatch(w, all) /\ persistTasks' = persistTasks \cup {w}
             /\ Finish(o) /\ UNCHANGED waits
    <3>1. PICK w \in Writes : TakeBatch(w, all) /\ persistTasks' = persistTasks \cup {w}
      BY <2>4
    <3>2. writes' \in [Writes -> Seq(Msgs)] /\ pending' \in Seq(Msgs)
          /\ writes'[w] # <<>> /\ \A v \in Writes : v # w => writes'[v] = writes[v]
      BY <2>1, <2>4, <3>1 DEF TakeBatch, TypeOK
    <3>3. persistTasks' \subseteq {v \in Writes : writes'[v] # <<>>}
      BY <3>1, <3>2 DEF TypeOK
    <3>. QED BY <1>2, <2>4, <3>2, <3>3 DEF AddItemsBuffers, Finish, settled, TypeOK
  <2>. QED BY <1>2, <2>2, <2>3, <2>4 DEF AddItemsBuffers, all
<1>3. ASSUME NEW o \in Ops, PopItem(o) PROVE TypeOK'
  <2>1. /\ Front(transcript) \in Seq(Msgs) /\ <<Last(transcript)>> \in Seq(Msgs)
    BY <1>3, FrontFacts DEF PopItem, TypeOK
  <2>. QED BY <1>3, <2>1 DEF PopItem, StartOn, TypeOK, tasks, settled
<1>4. ASSUME NEW o \in Ops, PopItemDrops(o) PROVE TypeOK'
  <2>1. pending # <<>> => Front(pending) \in Seq(Msgs) /\ Last(pending) \in Msgs
    BY FrontFacts DEF TypeOK
  <2>2. pending' \in Seq(Msgs) /\ withdrawn' \subseteq Msgs
    BY <1>4, <2>1 DEF PopItemDrops, TypeOK
  <2>3. /\ Finish(o) /\ UNCHANGED <<awaitPersist, given, transcript, tasks, waits, stored, lost, overlapped>>
    BY <1>4 DEF PopItemDrops
  <2>4. /\ pc' \in [Ops -> Places] /\ arg' \in [Ops -> Seq(Msgs)] /\ owedAt' \in [Ops -> SUBSET Msgs]
        /\ alone' \in [Ops -> BOOLEAN]
    BY <2>3 DEF Finish, TypeOK, Places
  <2>5. /\ transcript' \in Seq(Msgs) /\ waits' \in [Ops -> SUBSET Writes] /\ writes' = writes
        /\ persistTasks' = persistTasks /\ writes \in [Writes -> Seq(Msgs)]
        /\ persistTasks \subseteq {w \in Writes : writes[w] # <<>>}
    BY <2>3 DEF TypeOK, tasks
  <2>6. /\ awaitPersist' \in BOOLEAN /\ overlapped' \in BOOLEAN
        /\ given' \subseteq Msgs /\ stored' \subseteq Msgs /\ lost' \subseteq Msgs
    BY <2>3 DEF TypeOK
  <2>. QED
    <3>1. persistTasks' \subseteq {w \in Writes : writes'[w] # <<>>} /\ writes' \in [Writes -> Seq(Msgs)]
      BY <2>5
    <3>. QED BY <2>2, <2>4, <2>5, <2>6, <3>1 DEF TypeOK
<1>5. ASSUME NEW o \in Ops, ClearSession(o) PROVE TypeOK'
  <2>1. /\ transcript' = <<>> /\ given' = given /\ StartOn(o, "clearing", <<>>)
    BY <1>5 DEF ClearSession
  <2>2. /\ pc' \in [Ops -> Places] /\ arg' \in [Ops -> Seq(Msgs)] /\ alone' \in [Ops -> BOOLEAN]
    BY <2>1 DEF StartOn, TypeOK, Places
  <2>3. awaitPersist' \in BOOLEAN /\ overlapped' \in BOOLEAN
    BY <2>1 DEF StartOn, TypeOK
  <2>4. /\ transcript' \in Seq(Msgs) /\ given' \subseteq Msgs /\ pending' \in Seq(Msgs)
        /\ UNCHANGED <<persistTasks, writes, waits, stored, lost, withdrawn, owedAt>>
    BY <2>1 DEF StartOn, TypeOK, tasks, settled
  <2>. QED BY <2>2, <2>3, <2>4 DEF TypeOK
<1>6. ASSUME NEW o \in Ops, ClearSessionBuffer(o) PROVE TypeOK'
  <2>1. ToSet(pending) \subseteq Msgs
    BY ToSetOf DEF TypeOK
  <2>. QED BY <1>6, <2>1 DEF ClearSessionBuffer, Finish, TypeOK, tasks
<1>7. ASSUME NEW o \in Ops, Flush(o) PROVE TypeOK'
  <2>1. Owed \subseteq Msgs
    <3>1. ToSet(pending) \subseteq Msgs /\ \A w \in Writes : ToSet(writes[w]) \subseteq Msgs
      BY ToSetOf DEF TypeOK
    <3>. QED BY <3>1 DEF Owed, InFlight
  <2>2. persistTasks \subseteq Writes
    BY DEF TypeOK
  <2>. QED BY <1>7, <2>1, <2>2 DEF Flush, StartFlush, TypeOK, session, settled
<1>8. ASSUME NEW o \in Ops, FlushWrites(o) PROVE TypeOK'
  <2>1. CASE pending = <<>>
    BY <1>8, <2>1 DEF FlushWrites, Finish, TypeOK, settled
  <2>2. CASE pending # <<>>
    <3>1. PICK w \in Writes : /\ TakeBatch(w, pending)
                              /\ waits' = [waits EXCEPT ![o] = {w}]
                              /\ pc' = [pc EXCEPT ![o] = "writing"]
                              /\ UNCHANGED <<arg, owedAt, alone>>
      BY <1>8, <2>2 DEF FlushWrites
    <3>2. /\ writes' \in [Writes -> Seq(Msgs)] /\ pending' \in Seq(Msgs)
          /\ \A v \in Writes : writes[v] # <<>> => writes'[v] = writes[v]
      BY <3>1 DEF TakeBatch, TypeOK
    <3>. QED BY <1>8, <3>1, <3>2 DEF FlushWrites, TypeOK, settled
  <2>. QED BY <2>1, <2>2
<1>9. ASSUME NEW o \in Ops, FlushReturns(o) PROVE TypeOK'
  BY <1>9 DEF FlushReturns, Finish, TypeOK, session, tasks, settled
<1>10. ASSUME NEW w \in Writes, EndWrite(w),
              stored' \subseteq stored \cup ToSet(writes[w]), lost' \subseteq lost \cup ToSet(writes[w])
       PROVE TypeOK'
  <2>1. ToSet(writes[w]) \subseteq Msgs
    BY ToSetOf DEF TypeOK
  <2>2. writes' \in [Writes -> Seq(Msgs)] /\ \A v \in Writes : v # w => writes'[v] = writes[v]
    BY <1>10 DEF EndWrite, TypeOK
  <2>3. persistTasks' \subseteq {v \in Writes : writes'[v] # <<>>}
    BY <1>10, <2>2 DEF EndWrite, TypeOK
  <2>4. waits' \in [Ops -> SUBSET Writes]
    BY <1>10 DEF EndWrite, TypeOK
  <2>5. stored' \subseteq Msgs /\ lost' \subseteq Msgs
    BY <1>10, <2>1 DEF TypeOK
  <2>. QED BY <1>10, <2>2, <2>3, <2>4, <2>5 DEF EndWrite, TypeOK, session
<1>11. CASE UNCHANGED vars
  BY <1>11 DEF vars, TypeOK
<1>. QED
  BY <1>1, <1>2, <1>3, <1>4, <1>5, <1>6, <1>7, <1>8, <1>9, <1>10, <1>11
  DEF Next, WriteSucceeds, WriteFails

\* Buffers, batches and the bookkeeping of flushes keep their types, and a
\* background task is known to flush only while its write is in flight.
THEOREM TypeCorrect == Spec => []TypeOK
BY Init_TypeOK, Next_TypeOK, PTL DEF Spec

------------------------------------------------------------------------------
(***************************************************************************)
(* Every message given to the session is in one place at a time: at hand   *)
(* in one addItems call, in the buffer once, in one batch, or settled in   *)
(* one way.                                                                *)
(***************************************************************************)
Distinct(s) == \A i, j \in 1..Len(s) : s[i] = s[j] => i = j

AtHand(o) == IF pc[o] = "adding" THEN ToSet(arg[o]) ELSE {}
Buffered == ToSet(pending)
Batch(w) == ToSet(writes[w])

OnePlace ==
  /\ \A o \in Ops : \A m \in AtHand(o) :
       /\ m \in given /\ m \notin Buffered /\ m \notin Settled
       /\ \A w \in Writes : m \notin Batch(w)
       /\ \A p \in Ops \ {o} : m \notin AtHand(p)
  /\ \A m \in Buffered :
       m \in given /\ m \notin Settled /\ \A w \in Writes : m \notin Batch(w)
  /\ \A w \in Writes : \A m \in Batch(w) :
       m \in given /\ m \notin Settled /\ \A v \in Writes \ {w} : m \notin Batch(v)
  /\ \A m \in Settled :
       /\ m \in given
       /\ m \in stored => m \notin lost /\ m \notin withdrawn
       /\ m \in lost => m \notin withdrawn

NoRepeats ==
  Distinct(pending) /\ \A o \in Ops : pc[o] = "adding" => Distinct(arg[o])

\* The runner hands messages over in their order.
InOrder == \A m \in given, n \in Msgs : n < m => n \in given

\* Where a message can go in one step.
Moves ==
  /\ \A w \in Writes : \A m \in Batch(w) :
       m \in stored' \/ m \in lost' \/ \E v \in Writes : m \in Batch(v)'
  /\ \A m \in Buffered :
       m \in Buffered' \/ m \in withdrawn' \/ \E v \in Writes : m \in Batch(v)'
  /\ stored \subseteq stored' /\ lost \subseteq lost' /\ withdrawn \subseteq withdrawn'
  /\ \A m \in Settled' : m \in Settled \/ m \in Buffered \/ \E w \in Writes : m \in Batch(w)

Inv == TypeOK /\ OnePlace /\ NoRepeats /\ InOrder

LEMMA ConcatDistinct ==
  ASSUME NEW S, NEW s \in Seq(S), NEW t \in Seq(S), Distinct(s), Distinct(t),
         ToSet(s) \cap ToSet(t) = {}
  PROVE  Distinct(s \o t)
<1>1. /\ Len(s) \in Nat /\ Len(t) \in Nat
      /\ Len(s \o t) = Len(s) + Len(t)
      /\ DOMAIN s = 1..Len(s) /\ DOMAIN t = 1..Len(t)
      /\ \A i \in 1..Len(s) : (s \o t)[i] = s[i]
      /\ \A i \in 1..Len(t) : (s \o t)[Len(s) + i] = t[i]
  OBVIOUS
<1>2. \A i \in 1..Len(s), j \in 1..Len(t) : s[i] # t[j]
  BY <1>1 DEF ToSet
<1> DEFINE u == s \o t
<1>. HIDE DEF u
<1>3. /\ \A i \in 1..Len(s) : u[i] = s[i]
      /\ \A i \in (Len(s) + 1)..(Len(s) + Len(t)) : i - Len(s) \in 1..Len(t) /\ u[i] = t[i - Len(s)]
  <2>. SUFFICES ASSUME NEW i \in (Len(s) + 1)..(Len(s) + Len(t))
                PROVE  i - Len(s) \in 1..Len(t) /\ u[i] = t[i - Len(s)]
    BY <1>1 DEF u
  <2>1. i - Len(s) \in 1..Len(t) /\ i = Len(s) + (i - Len(s))
    BY <1>1
  <2>2. u[Len(s) + (i - Len(s))] = t[i - Len(s)]
    BY <1>1, <2>1 DEF u
  <2>. QED BY <2>1, <2>2
<1>4. ASSUME NEW i \in 1..Len(u), NEW j \in 1..Len(u), u[i] = u[j] PROVE i = j
  <2>0. /\ i \in 1..Len(s) \/ i \in (Len(s) + 1)..(Len(s) + Len(t))
        /\ j \in 1..Len(s) \/ j \in (Len(s) + 1)..(Len(s) + Len(t))
    BY <1>1 DEF u
  <2>1. CASE i \in 1..Len(s) /\ j \in 1..Len(s)
    BY <1>3, <1>4, <2>1 DEF Distinct
  <2>2. CASE i \in (Len(s) + 1)..(Len(s) + Len(t)) /\ j \in (Len(s) + 1)..(Len(s) + Len(t))
    <3>1. t[i - Len(s)] = t[j - Len(s)] /\ i - Len(s) \in 1..Len(t) /\ j - Len(s) \in 1..Len(t)
      BY <1>3, <1>4, <2>2
    <3>2. i - Len(s) = j - Len(s)
      BY <3>1 DEF Distinct
    <3>. QED BY <1>1, <2>2, <3>2
  <2>. QED BY <1>2, <1>3, <1>4, <2>0, <2>1, <2>2
<1>. QED BY <1>4 DEF Distinct, u

LEMMA FrontDistinct ==
  ASSUME NEW S, NEW s \in Seq(S), s # <<>>, Distinct(s)
  PROVE  Distinct(Front(s)) /\ ToSet(Front(s)) = ToSet(s) \ {Last(s)} /\ Last(s) \in ToSet(s)
<1>1. /\ Front(s) \in Seq(S) /\ Len(Front(s)) = Len(s) - 1
      /\ \A i \in 1..(Len(s) - 1) : Front(s)[i] = s[i]
      /\ Len(s) \in Nat \ {0} /\ Last(s) = s[Len(s)]
      /\ ToSet(s) = ToSet(Front(s)) \cup {Last(s)}
  BY FrontFacts
<1> DEFINE f == Front(s)
           l == Last(s)
<1>. HIDE DEF f, l
<1>2. Distinct(f)
  BY <1>1 DEF Distinct, f
<1>3. DOMAIN f = 1..(Len(s) - 1)
  BY <1>1 DEF f
<1>4. l \notin ToSet(f)
  <2>. SUFFICES ASSUME NEW i \in 1..(Len(s) - 1) PROVE f[i] # l
    BY <1>3 DEF ToSet
  <2>1. i \in 1..Len(s) /\ Len(s) \in 1..Len(s) /\ i # Len(s) /\ f[i] = s[i]
    BY <1>1 DEF f
  <2>. QED BY <1>1, <2>1 DEF Distinct, l
<1>. QED BY <1>1, <1>2, <1>4 DEF f, l

LEMMA Init_Inv == Init => Inv
<1>. SUFFICES ASSUME Init PROVE Inv
  OBVIOUS
<1>1. ToSet(<<>>) = {}
  BY DEF ToSet
<1>2. Buffered = {} /\ Settled = {} /\ \A w \in Writes : Batch(w) = {}
  BY <1>1 DEF Init, Buffered, Batch, Settled
<1>3. \A o \in Ops : pc[o] # "adding" /\ AtHand(o) = {}
  BY DEF Init, AtHand
<1>4. OnePlace
  BY <1>2, <1>3 DEF OnePlace
<1>5. NoRepeats /\ InOrder
  BY <1>3 DEF NoRepeats, InOrder, Distinct, Init
<1>. QED BY <1>4, <1>5, Init_TypeOK DEF Inv

\* A step that moves no message.
LEMMA Unmoved ==
  ASSUME Inv, UNCHANGED <<given, pending, writes, settled>>,
         \A o \in Ops : AtHand(o)' = AtHand(o),
         \A o \in Ops : pc'[o] = "adding" => pc[o] = "adding" /\ arg'[o] = arg[o]
  PROVE  OnePlace' /\ NoRepeats' /\ InOrder' /\ Moves
<1>1. /\ Buffered' = Buffered /\ Settled' = Settled
      /\ \A w \in Writes : Batch(w)' = Batch(w)
  BY DEF Buffered, Batch, Settled, settled
<1>2. OnePlace'
  BY <1>1 DEF OnePlace, Inv, settled
<1>3. NoRepeats' /\ InOrder'
  BY DEF NoRepeats, InOrder, Inv
<1>4. Moves
  BY <1>1 DEF Moves, Settled, settled
<1>. QED BY <1>2, <1>3, <1>4

\* The buffer, and what o has at hand if it is adding, becomes batch w.
LEMMA Taken ==
  ASSUME Inv, NEW w \in Writes, NEW o \in Ops, NEW batch, TakeBatch(w, batch),
         ToSet(batch) = Buffered \cup AtHand(o),
         UNCHANGED <<given, settled>>,
         AtHand(o)' = {}, pc'[o] # "adding",
         \A p \in Ops \ {o} : pc'[p] = pc[p] /\ arg'[p] = arg[p]
  PROVE  OnePlace' /\ NoRepeats' /\ InOrder' /\ Moves
<1>0. ToSet(<<>>) = {}
  BY DEF ToSet
<1>1. /\ Batch(w) = {} /\ Batch(w)' = Buffered \cup AtHand(o) /\ Buffered' = {}
      /\ \A v \in Writes \ {w} : Batch(v)' = Batch(v)
      /\ Settled' = Settled
      /\ \A p \in Ops \ {o} : AtHand(p)' = AtHand(p)
  BY <1>0 DEF TakeBatch, Inv, TypeOK, Buffered, Batch, AtHand, Settled, settled
<1>2. OnePlace'
  BY <1>1 DEF OnePlace, Inv, settled
<1>3. Distinct(pending')
  BY DEF TakeBatch, Distinct
<1>4. NoRepeats' /\ InOrder'
  BY <1>3 DEF NoRepeats, InOrder, Inv
<1>5. Moves
  BY <1>1 DEF Moves, Settled, settled
<1>. QED BY <1>2, <1>4, <1>5

LEMMA Next_Inv == Inv /\ [Next]_vars => OnePlace' /\ NoRepeats' /\ InOrder' /\ Moves
<1>. SUFFICES ASSUME Inv, [Next]_vars PROVE OnePlace' /\ NoRepeats' /\ InOrder' /\ Moves
  OBVIOUS
<1>0. TypeOK /\ OnePlace /\ NoRepeats /\ InOrder /\ ToSet(<<>>) = {}
  BY DEF Inv, ToSet
<1>1. ASSUME NEW o \in Ops, NEW items \in NextItems, AddItems(o, items)
      PROVE  OnePlace' /\ NoRepeats' /\ InOrder' /\ Moves
  <2>1. PICK m \in Msgs \ given :
          /\ \A k \in Msgs \ given : m <= k
          /\ m \in ToSet(items) /\ ToSet(items) \subseteq {m, m + 1}
    BY NextItemsFacts
  <2>2. ToSet(items) \subseteq Msgs \ given
    <3>1. ToSet(items) \subseteq Msgs
      BY NextItemsFacts, ToSetOf
    <3>2. m + 1 \notin given
      BY <1>0, <2>1, MsgsAssumption DEF InOrder, TypeOK
    <3>. QED BY <2>1, <3>1, <3>2
  <2>3. /\ pc[o] = "idle" /\ AtHand(o) = {} /\ AtHand(o)' = ToSet(items)
        /\ \A p \in Ops \ {o} : AtHand(p)' = AtHand(p) /\ pc'[p] = pc[p] /\ arg'[p] = arg[p]
        /\ arg'[o] = items
    BY <1>0, <1>1 DEF AddItems, StartOn, AtHand, TypeOK
  <2>4. /\ Buffered' = Buffered /\ Settled' = Settled /\ given' = given \cup ToSet(items)
        /\ \A w \in Writes : Batch(w)' = Batch(w)
        /\ UNCHANGED <<pending, settled>>
    BY <1>1 DEF AddItems, StartOn, Buffered, Batch, Settled, tasks, settled
  <2>5. OnePlace'
    BY <1>0, <2>2, <2>3, <2>4 DEF OnePlace, settled
  <2>6. NoRepeats'
    <3>1. Distinct(items)
      BY NextItemsFacts DEF Distinct
    <3>. QED BY <1>0, <2>3, <2>4, <3>1 DEF NoRepeats
  <2>7. InOrder'
    BY <1>0, <2>4, NextItemsFacts DEF InOrder
  <2>8. Moves
    BY <2>4 DEF Moves, Settled, settled
  <2>. QED BY <2>5, <2>6, <2>7, <2>8
<1>2. ASSUME NEW o \in Ops, AddItemsBuffers(o)
      PROVE  OnePlace' /\ NoRepeats' /\ InOrder' /\ Moves
  <2> DEFINE all == pending \o arg[o]
  <2>1. /\ pending \in Seq(Msgs) /\ arg[o] \in Seq(Msgs)
        /\ pc[o] = "adding" /\ AtHand(o) = ToSet(arg[o])
    BY <1>0, <1>2 DEF AddItemsBuffers, AtHand, TypeOK
  <2>2. ToSet(all) = Buffered \cup AtHand(o)
    BY <2>1, ConcatFacts DEF Buffered
  <2>3. Distinct(all)
    <3>1. Distinct(pending) /\ Distinct(arg[o]) /\ ToSet(pending) \cap ToSet(arg[o]) = {}
      BY <1>0, <2>1 DEF NoRepeats, OnePlace, Buffered
    <3>. QED BY <2>1, <3>1, ConcatDistinct
  <2>. HIDE DEF all
  <2>4. /\ pc'[o] # "adding" /\ AtHand(o)' = {}
        /\ \A p \in Ops \ {o} : pc'[p] = pc[p] /\ arg'[p] = arg[p] /\ AtHand(p)' = AtHand(p)
        /\ UNCHANGED <<given, settled>>
    BY <1>0, <1>2 DEF AddItemsBuffers, Finish, StartFlush, AtHand, TypeOK
  <2>5. CASE pending' = all /\ UNCHANGED writes
    <3>1. /\ Buffered' = Buffered \cup AtHand(o) /\ Settled' = Settled
          /\ \A w \in Writes : Batch(w)' = Batch(w)
      BY <2>2, <2>4, <2>5 DEF Buffered, Batch, Settled, settled
    <3>2. OnePlace'
      BY <1>0, <2>4, <3>1 DEF OnePlace, settled
    <3>3. NoRepeats' /\ InOrder'
      BY <1>0, <2>3, <2>4, <2>5 DEF NoRepeats, InOrder
    <3>4. Moves
      BY <2>4, <3>1 DEF Moves, Settled, settled
    <3>. QED BY <3>2, <3>3, <3>4
  <2>6. CASE \E w \in Writes : TakeBatch(w, all)
    BY <2>2, <2>4, <2>6, Taken
  <2>. QED BY <1>2, <2>5, <2>6 DEF AddItemsBuffers, all, tasks
<1>3. ASSUME NEW o \in Ops, PopItemDrops(o)
      PROVE  OnePlace' /\ NoRepeats' /\ InOrder' /\ Moves
  <2>1. /\ pc'[o] # "adding" /\ pc[o] # "adding"
        /\ \A p \in Ops : AtHand(p)' = AtHand(p)
        /\ \A p \in Ops \ {o} : pc'[p] = pc[p] /\ arg'[p] = arg[p]
        /\ UNCHANGED <<given, writes, stored, lost>>
    BY <1>0, <1>3 DEF PopItemDrops, Finish, AtHand, TypeOK, tasks
  <2>2. CASE UNCHANGED <<pending, withdrawn>>
    BY <2>1, <2>2, Unmoved DEF settled
  <2>3. CASE /\ pending # <<>> /\ pending' = Front(pending)
             /\ withdrawn' = withdrawn \cup {Last(pending)}
    <3>1. /\ Distinct(pending') /\ Buffered' = Buffered \ {Last(pending)}
          /\ Last(pending) \in Buffered
      BY <1>0, <2>3, FrontDistinct DEF NoRepeats, TypeOK, Buffered
    <3>2. /\ \A w \in Writes : Batch(w)' = Batch(w)
          /\ Settled' = Settled \cup {Last(pending)}
      BY <2>1, <2>3 DEF Batch, Settled
    <3>3. OnePlace'
      BY <1>0, <2>1, <2>3, <3>1, <3>2 DEF OnePlace, Settled
    <3>4. NoRepeats' /\ InOrder'
      BY <1>0, <2>1, <3>1 DEF NoRepeats, InOrder
    <3>5. Moves
      BY <2>1, <2>3, <3>1, <3>2 DEF Moves
    <3>. QED BY <3>3, <3>4, <3>5
  <2>. QED BY <1>3, <2>2, <2>3 DEF PopItemDrops
<1>4. ASSUME NEW o \in Ops, ClearSessionBuffer(o)
      PROVE  OnePlace' /\ NoRepeats' /\ InOrder' /\ Moves
  <2>1. /\ pc'[o] # "adding" /\ pc[o] # "adding"
        /\ \A p \in Ops : AtHand(p)' = AtHand(p)
        /\ \A p \in Ops \ {o} : pc'[p] = pc[p] /\ arg'[p] = arg[p]
        /\ UNCHANGED <<given, writes, stored, lost>>
    BY <1>0, <1>4 DEF ClearSessionBuffer, Finish, AtHand, TypeOK, tasks
  <2>2. /\ \A w \in Writes : Batch(w)' = Batch(w)
        /\ Buffered' = {} /\ withdrawn' = withdrawn \cup Buffered
        /\ Settled' = Settled \cup Buffered /\ Distinct(pending')
    BY <1>0, <1>4, <2>1 DEF ClearSessionBuffer, Batch, Settled, Buffered, Distinct
  <2>3. OnePlace'
    BY <1>0, <2>1, <2>2 DEF OnePlace, Settled
  <2>4. NoRepeats' /\ InOrder'
    BY <1>0, <2>1, <2>2 DEF NoRepeats, InOrder
  <2>5. Moves
    BY <2>1, <2>2 DEF Moves
  <2>. QED BY <2>3, <2>4, <2>5
<1>5. ASSUME NEW o \in Ops, FlushWrites(o)
      PROVE  OnePlace' /\ NoRepeats' /\ InOrder' /\ Moves
  <2>1. /\ pc'[o] # "adding" /\ pc[o] # "adding"
        /\ \A p \in Ops : AtHand(p)' = AtHand(p)
        /\ \A p \in Ops \ {o} : pc'[p] = pc[p] /\ arg'[p] = arg[p]
        /\ UNCHANGED <<given, settled>>
    BY <1>0, <1>5 DEF FlushWrites, Finish, AtHand, TypeOK
  <2>2. CASE UNCHANGED <<pending, writes>>
    BY <2>1, <2>2, Unmoved
  <2>3. CASE \E w \in Writes : TakeBatch(w, pending)
    <3>1. AtHand(o) = {} /\ AtHand(o)' = {} /\ ToSet(pending) = Buffered \cup AtHand(o)
      BY <2>1 DEF AtHand, Buffered
    <3>. QED BY <2>1, <2>3, <3>1, Taken
  <2>. QED BY <1>5, <2>2, <2>3 DEF FlushWrites
<1>6. ASSUME NEW w \in Writes, EndWrite(w),
             \/ stored' = stored \cup ToSet(writes[w]) /\ UNCHANGED lost
             \/ lost' = lost \cup ToSet(writes[w]) /\ UNCHANGED stored
      PROVE  OnePlace' /\ NoRepeats' /\ InOrder' /\ Moves
  <2>1. /\ Batch(w)' = {} /\ \A v \in Writes \ {w} : Batch(v)' = Batch(v)
        /\ Buffered' = Buffered /\ \A o \in Ops : AtHand(o)' = AtHand(o)
        /\ UNCHANGED <<given, withdrawn, pending, pc, arg>>
    BY <1>0, <1>6 DEF EndWrite, Batch, Buffered, AtHand, TypeOK, session
  <2>2. /\ \/ stored' = stored \cup Batch(w) /\ lost' = lost
           \/ lost' = lost \cup Batch(w) /\ stored' = stored
        /\ Settled' = Settled \cup Batch(w)
    BY <1>6, <2>1 DEF Batch, Settled
  <2>3. OnePlace'
    BY <1>0, <2>1, <2>2 DEF OnePlace, Settled
  <2>4. NoRepeats' /\ InOrder'
    BY <1>0, <2>1 DEF NoRepeats, InOrder
  <2>5. Moves
    BY <2>1, <2>2 DEF Moves
  <2>. QED BY <2>3, <2>4, <2>5
<1>7. ASSUME NEW o \in Ops, PopItem(o) \/ ClearSession(o) \/ Flush(o) \/ FlushReturns(o)
      PROVE  OnePlace' /\ NoRepeats' /\ InOrder' /\ Moves
  <2>1. /\ pc[o] # "adding" /\ pc'[o] # "adding"
        /\ \A p \in Ops \ {o} : pc'[p] = pc[p] /\ arg'[p] = arg[p]
        /\ \A p \in Ops : AtHand(p)' = AtHand(p)
        /\ UNCHANGED <<given, pending, writes, settled>>
    BY <1>0, <1>7 DEF PopItem, ClearSession, Flush, FlushReturns, StartOn, StartFlush,
                      Finish, AtHand, TypeOK, session, tasks
  <2>. QED BY <2>1, Unmoved
<1>8. CASE UNCHANGED vars
  BY <1>8, Unmoved DEF vars, AtHand, settled
<1>. QED
  BY <1>1, <1>2, <1>3, <1>4, <1>5, <1>6, <1>7, <1>8 DEF Next, WriteSucceeds, WriteFails

LEMMA Spec_Inv == Spec => []Inv /\ [][Moves]_vars
<1>1. Init => Inv
  BY Init_Inv
<1>2. Inv /\ [Next]_vars => Inv'
  BY Next_TypeOK, Next_Inv DEF Inv
<1>3. Inv /\ [Next]_vars => [Moves]_vars
  BY Next_Inv
<1>. QED BY <1>1, <1>2, <1>3, PTL DEF Spec
------------------------------------------------------------------------------
(***************************************************************************)
(* OpenAISession implements Delivery.  As a message is in one place, Fate  *)
(* reads off where it is.                                                  *)
(***************************************************************************)
FateFacts ==
  \A m \in Msgs :
    /\ Fate(m) = "sending" <=> \E w \in Writes : m \in Batch(w)
    /\ Fate(m) = "owed" <=> m \in Buffered
    /\ Fate(m) = "stored" <=> m \in stored
    /\ Fate(m) = "lost" <=> m \in lost
    /\ Fate(m) = "withdrawn" <=> m \in withdrawn
    /\ Fate(m) \in D!Fates

LEMMA FateIs == OnePlace => FateFacts
<1>. SUFFICES ASSUME OnePlace, NEW m \in Msgs
              PROVE  /\ Fate(m) = "sending" <=> \E w \in Writes : m \in Batch(w)
                     /\ Fate(m) = "owed" <=> m \in Buffered
                     /\ Fate(m) = "stored" <=> m \in stored
                     /\ Fate(m) = "lost" <=> m \in lost
                     /\ Fate(m) = "withdrawn" <=> m \in withdrawn
                     /\ Fate(m) \in D!Fates
  BY DEF FateFacts
<1>1. m \in InFlight <=> \E w \in Writes : m \in Batch(w)
  BY DEF InFlight, Batch
<1>2. m \in Buffered => m \notin InFlight /\ m \notin Settled
  BY <1>1 DEF OnePlace
<1>3. m \in InFlight => m \notin Settled
  BY <1>1 DEF OnePlace
<1>4. /\ m \in stored => m \notin lost /\ m \notin withdrawn
      /\ m \in lost => m \notin withdrawn
  BY DEF OnePlace, Settled
<1>. QED BY <1>1, <1>2, <1>3, <1>4 DEF Fate, Owed, Settled, Buffered, D!Fates

LEMMA FateWillBe == OnePlace' => FateFacts'
BY FateIs, PTL

LEMMA AfterIs ==
  /\ D!After("new") = {"owed", "sending"}
  /\ D!After("owed") = {"sending", "withdrawn"}
  /\ D!After("sending") = {"stored", "lost"}
BY Zenon DEF D!After

LEMMA FateMoves ==
  ASSUME OnePlace, OnePlace', Moves, NEW m \in Msgs
  PROVE  Fate(m)' = Fate(m) \/ Fate(m)' \in D!After(Fate(m))
<1>1. FateFacts /\ FateFacts'
  BY FateIs, FateWillBe
<1>2. Fate(m)' \in D!Fates
  BY <1>1 DEF FateFacts
<1>3. CASE Fate(m) = "new"
  <2>1. m \notin Settled /\ m \notin Buffered /\ \A w \in Writes : m \notin Batch(w)
    BY <1>1, <1>3 DEF FateFacts, Settled
  <2>2. m \notin Settled'
    BY <2>1 DEF Moves
  <2>3. Fate(m)' \in {"new", "owed", "sending"}
    BY <1>1, <2>2 DEF FateFacts, Settled, D!Fates
  <2>. QED BY <1>3, <2>3, AfterIs
<1>4. CASE Fate(m) = "owed"
  <2>1. Fate(m)' \in {"owed", "withdrawn", "sending"}
    BY <1>1, <1>4 DEF FateFacts, Moves
  <2>. QED BY <1>4, <2>1, AfterIs
<1>5. CASE Fate(m) = "sending"
  <2>1. Fate(m)' \in {"sending", "stored", "lost"}
    BY <1>1, <1>5 DEF FateFacts, Moves
  <2>. QED BY <1>5, <2>1, AfterIs
<1>6. CASE Fate(m) \in {"stored", "lost", "withdrawn"}
  BY <1>1, <1>6 DEF FateFacts, Moves
<1>. QED BY <1>1, <1>3, <1>4, <1>5, <1>6 DEF FateFacts, D!Fates

\* Every message is sent at most once and dropped only by a failed write,
\* popItem or clearSession, however operations and writes interleave.
THEOREM ImplementsDelivery == Spec => DeliversOnce
<1>1. Init => D!Init
  <2>. SUFFICES ASSUME Init PROVE \A m \in Msgs : Fate(m) = "new"
    BY DEF D!Init
  <2>1. ToSet(<<>>) = {}
    BY DEF ToSet
  <2>2. InFlight = {} /\ Owed = {} /\ Settled = {} /\ ToSet(pending) = {}
    BY <2>1 DEF Init, InFlight, Owed, Settled
  <2>. QED BY <2>2 DEF Fate, Settled
<1>2. Inv /\ Inv' /\ [Moves]_vars => [D!Next]_([m \in Msgs |-> Fate(m)])
  <2>. SUFFICES ASSUME Inv, Inv', [Moves]_vars
                PROVE  [D!Next]_([m \in Msgs |-> Fate(m)])
    OBVIOUS
  <2>1. CASE Moves
    <3>1. \A m \in Msgs : Fate(m)' = Fate(m) \/ Fate(m)' \in D!After(Fate(m))
      BY <2>1, FateMoves DEF Inv
    <3>2. \A m \in Msgs : Fate(m)' \in D!Fates
      BY FateWillBe DEF Inv, FateFacts
    <3>. QED BY <3>1, <3>2 DEF D!Next
  <2>2. CASE UNCHANGED vars
    BY <2>2 DEF vars, Fate, InFlight, Owed, Settled
  <2>. QED BY <2>1, <2>2
<1>. QED BY <1>1, <1>2, Spec_Inv, PTL DEF Spec, DeliversOnce, D!Spec
------------------------------------------------------------------------------
(***************************************************************************)
(* A flush nothing else overlaps.  Every write in flight is known to the   *)
(* session's tasks or to a flush that waits for it, so a flush with no     *)
(* other under way has taken all of them; and as long as it is alone       *)
(* nothing is added to what it has to wait for.                            *)
(***************************************************************************)
WritesKnown ==
  /\ \A w \in Writes : writes[w] # <<>> =>
       w \in persistTasks \/ \E p \in Ops : Flushing(p) /\ w \in waits[p]
  /\ \A p \in Ops : pc[p] = "idle" \/ InTranscript(p) => waits[p] = {}

Awaited(o) == IF pc[o] = "draining" THEN Buffered ELSE {}

AloneKnows ==
  \A o \in Ops : alone[o] =>
    /\ Flushing(o)
    /\ \A p \in Ops \ {o} : pc[p] = "idle"
    /\ \A m \in owedAt[o] :
         m \in Settled \/ m \in Awaited(o) \/ \E w \in waits[o] : m \in Batch(w)

FlushInv == TypeOK /\ WritesKnown /\ AloneKnows

LEMMA Init_FlushInv == Init => WritesKnown /\ AloneKnows
BY DEF Init, WritesKnown, AloneKnows

LEMMA FlushStarts ==
  ASSUME FlushInv, NEW o \in Ops, NEW owing, StartFlush(o, owing),
         pc[o] \in {"idle", "adding"}, UNCHANGED <<writes, settled>>,
         owing \subseteq Buffered' \cup InFlight
  PROVE  WritesKnown' /\ AloneKnows'
<1>0. TypeOK /\ WritesKnown /\ AloneKnows
  BY DEF FlushInv
<1>1. /\ pc' = [pc EXCEPT ![o] = "draining"] /\ pc'[o] = "draining"
      /\ waits'[o] = persistTasks /\ persistTasks' = {} /\ owedAt'[o] = owing
      /\ \A p \in Ops \ {o} : pc'[p] = pc[p] /\ waits'[p] = waits[p]
      /\ \A p \in Ops : alone'[p] => p = o /\ \A q \in Ops \ {o} : pc[q] = "idle"
  BY <1>0 DEF StartFlush, TypeOK
<1>2. Flushing(o)' /\ ~Flushing(o) /\ Awaited(o)' = Buffered' /\ ~InTranscript(o)'
  BY <1>1 DEF Flushing, Awaited, InTranscript
<1>3. WritesKnown'
  BY <1>0, <1>1, <1>2 DEF WritesKnown, Flushing, InTranscript
<1>4. ASSUME alone'[o], NEW m \in owedAt'[o]
      PROVE  m \in Awaited(o)' \/ \E w \in waits'[o] : m \in Batch(w)'
  <2>1. CASE m \in Buffered'
    BY <1>2, <2>1
  <2>2. CASE m \in InFlight
    <3>1. PICK w \in Writes : m \in ToSet(writes[w])
      BY <2>2 DEF InFlight
    <3>2. writes[w] # <<>>
      BY <3>1 DEF ToSet
    <3>3. \A p \in Ops : ~Flushing(p)
      BY <1>1, <1>2, <1>4 DEF Flushing
    <3>4. w \in persistTasks
      BY <1>0, <3>2, <3>3 DEF WritesKnown
    <3>. QED BY <1>1, <3>1, <3>4 DEF Batch
  <2>. QED BY <1>1, <1>4, <2>1, <2>2
<1>5. AloneKnows'
  BY <1>1, <1>2, <1>4 DEF AloneKnows
<1>. QED BY <1>3, <1>5

\* An operation in the transcript ends without a flush.
LEMMA TranscriptEnds ==
  ASSUME FlushInv, NEW o \in Ops, InTranscript(o), Finish(o), UNCHANGED waits
  PROVE  /\ AloneKnows'
         /\ \A p \in Ops : Flushing(p)' <=> Flushing(p)
         /\ \A p \in Ops : pc'[p] = "idle" \/ InTranscript(p)' => waits'[p] = {}
<1>0. TypeOK /\ WritesKnown /\ AloneKnows
  BY DEF FlushInv
<1>1. /\ pc[o] # "idle" /\ ~Flushing(o) /\ pc'[o] = "idle"
      /\ \A p \in Ops \ {o} : pc'[p] = pc[p]
      /\ \A p \in Ops : alone'[p] => alone[p]
  BY <1>0 DEF InTranscript, Flushing, Finish, TypeOK
<1>2. \A p \in Ops : ~alone[p]
  BY <1>0, <1>1 DEF AloneKnows
<1>. QED BY <1>0, <1>1, <1>2 DEF AloneKnows, WritesKnown, Flushing, InTranscript

LEMMA Next_FlushInv == FlushInv /\ [Next]_vars => WritesKnown' /\ AloneKnows'
<1>. SUFFICES ASSUME FlushInv, [Next]_vars PROVE WritesKnown' /\ AloneKnows'
  OBVIOUS
<1>0. TypeOK /\ WritesKnown /\ AloneKnows
  BY DEF FlushInv
<1>1. ASSUME NEW o \in Ops, NEW place, NEW items, StartOn(o, place, items),
             place \in {"adding", "popping", "clearing"}
      PROVE  WritesKnown' /\ AloneKnows'
  <2>1. /\ pc[o] = "idle" /\ pc'[o] \notin {"draining", "writing"}
        /\ \A p \in Ops \ {o} : pc'[p] = pc[p]
        /\ \A p \in Ops : ~alone'[p]
        /\ UNCHANGED <<writes, persistTasks, waits>>
    BY <1>0, <1>1 DEF StartOn, TypeOK, tasks
  <2>. QED BY <1>0, <2>1 DEF WritesKnown, AloneKnows, Flushing, InTranscript
<1>2. ASSUME NEW o \in Ops, AddItemsBuffers(o) PROVE WritesKnown' /\ AloneKnows'
  <2> DEFINE all == pending \o arg[o]
  <2>1. pc[o] = "adding" /\ InTranscript(o) /\ UNCHANGED settled
    BY <1>2 DEF AddItemsBuffers, InTranscript
  <2>2. CASE Finish(o) /\ UNCHANGED <<tasks, waits>>
    BY <1>0, <2>1, <2>2, TranscriptEnds DEF WritesKnown, tasks
  <2>3. CASE pending' = all /\ StartFlush(o, Owed \cup ToSet(arg[o])) /\ UNCHANGED writes
    <3>1. ToSet(all) = ToSet(pending) \cup ToSet(arg[o])
      BY <1>0, ConcatFacts DEF TypeOK
    <3>2. Owed \cup ToSet(arg[o]) \subseteq Buffered' \cup InFlight
      BY <2>3, <3>1 DEF Owed, Buffered
    <3>. QED BY <2>1, <2>3, <3>2, FlushStarts
  <2>4. CASE /\ \E w \in Writes : TakeBatch(w, all) /\ persistTasks' = persistTasks \cup {w}
             /\ Finish(o) /\ UNCHANGED waits
    <3>1. PICK w \in Writes : TakeBatch(w, all) /\ persistTasks' = persistTasks \cup {w}
      BY <2>4
    <3>2. \A v \in Writes : v # w => writes'[v] = writes[v]
      BY <1>0, <3>1 DEF TakeBatch, TypeOK
    <3>. QED BY <1>0, <2>1, <2>4, <3>1, <3>2, TranscriptEnds DEF WritesKnown
  <2>. QED BY <1>2, <2>2, <2>3, <2>4 DEF AddItemsBuffers
<1>3. ASSUME NEW o \in Ops, PopItemDrops(o) \/ ClearSessionBuffer(o)
      PROVE  WritesKnown' /\ AloneKnows'
  <2>1. InTranscript(o) /\ Finish(o) /\ UNCHANGED <<writes, persistTasks, waits>>
    BY <1>3 DEF PopItemDrops, ClearSessionBuffer, InTranscript, tasks
  <2>. QED BY <1>0, <2>1, TranscriptEnds DEF WritesKnown
<1>4. ASSUME NEW o \in Ops, Flush(o) PROVE WritesKnown' /\ AloneKnows'
  <2>1. Owed \subseteq Buffered' \cup InFlight
    BY <1>4 DEF Flush, Owed, Buffered, session
  <2>. QED BY <1>4, <2>1, FlushStarts DEF Flush
<1>5. ASSUME NEW o \in Ops, FlushWrites(o) PROVE WritesKnown' /\ AloneKnows'
  <2>1. /\ pc[o] = "draining" /\ waits[o] = {} /\ UNCHANGED <<persistTasks, settled>>
        /\ \A p \in Ops \ {o} : ~alone[p]
    BY <1>0, <1>5 DEF FlushWrites, AloneKnows
  <2>2. CASE Finish(o) /\ UNCHANGED <<writes, waits>>
    <3>1. pc'[o] = "idle" /\ \A p \in Ops : ~alone'[p] /\ (p # o => pc'[p] = pc[p])
      BY <1>0, <2>1, <2>2 DEF Finish, TypeOK
    <3>. QED BY <1>0, <2>1, <2>2, <3>1 DEF WritesKnown, AloneKnows, Flushing, InTranscript
  <2>3. CASE \E w \in Writes :
               /\ TakeBatch(w, pending)
               /\ waits' = [waits EXCEPT ![o] = {w}]
               /\ pc' = [pc EXCEPT ![o] = "writing"]
               /\ UNCHANGED <<arg, owedAt, alone>>
    <3>1. PICK w \in Writes :
               /\ TakeBatch(w, pending)
               /\ waits' = [waits EXCEPT ![o] = {w}]
               /\ pc' = [pc EXCEPT ![o] = "writing"]
               /\ UNCHANGED <<arg, owedAt, alone>>
      BY <2>3
    <3>2. /\ waits'[o] = {w} /\ pc'[o] = "writing"
          /\ \A p \in Ops \ {o} : waits'[p] = waits[p] /\ pc'[p] = pc[p]
          /\ \A v \in Writes : v # w => writes'[v] = writes[v]
          /\ Batch(w)' = Buffered
      BY <1>0, <3>1 DEF TakeBatch, TypeOK, Batch, Buffered
    <3>3. WritesKnown'
      BY <1>0, <2>1, <3>2 DEF WritesKnown, Flushing, InTranscript
    <3>4. AloneKnows'
      <4>1. \A m \in owedAt[o] : alone[o] => m \in Settled \/ m \in Buffered
        BY <1>0, <2>1 DEF AloneKnows, Awaited
      <4>2. Settled' = Settled
        BY <2>1 DEF Settled, settled
      <4>. QED BY <1>0, <2>1, <3>1, <3>2, <4>1, <4>2 DEF AloneKnows, Flushing
    <3>. QED BY <3>3, <3>4
  <2>. QED BY <1>5, <2>2, <2>3 DEF FlushWrites
<1>6. ASSUME NEW o \in Ops, FlushReturns(o) PROVE WritesKnown' /\ AloneKnows'
  <2>1. /\ pc[o] = "writing" /\ waits[o] = {} /\ UNCHANGED <<persistTasks, writes, waits>>
        /\ \A p \in Ops \ {o} : ~alone[p]
    BY <1>0, <1>6 DEF FlushReturns, AloneKnows, tasks
  <2>2. pc'[o] = "idle" /\ \A p \in Ops : ~alone'[p] /\ (p # o => pc'[p] = pc[p])
    BY <1>0, <1>6, <2>1 DEF FlushReturns, Finish, TypeOK
  <2>. QED BY <1>0, <2>1, <2>2 DEF WritesKnown, AloneKnows, Flushing, InTranscript
<1>7. ASSUME NEW w \in Writes, EndWrite(w), Settled' = Settled \cup Batch(w)
      PROVE  WritesKnown' /\ AloneKnows'
  <2>1. /\ writes'[w] = <<>> /\ \A v \in Writes : v # w => writes'[v] = writes[v]
        /\ persistTasks' = persistTasks \ {w}
        /\ \A o \in Ops : waits'[o] = waits[o] \ {w} /\ waits[o] \subseteq Writes
        /\ UNCHANGED <<pc, owedAt, alone, pending>>
    BY <1>0, <1>7 DEF EndWrite, TypeOK, session
  <2>2. WritesKnown'
    BY <1>0, <2>1 DEF WritesKnown, Flushing, InTranscript
  <2>3. \A v \in Writes : v # w => Batch(v)' = Batch(v)
    BY <2>1 DEF Batch
  <2>4. \A o \in Ops : Awaited(o)' = Awaited(o)
    BY <2>1 DEF Awaited, Buffered
  <2>5. AloneKnows'
    BY <1>0, <1>7, <2>1, <2>3, <2>4 DEF AloneKnows, Flushing
  <2>. QED BY <2>2, <2>5
<1>8. CASE UNCHANGED vars
  <2>1. /\ Settled' = Settled /\ \A w \in Writes : Batch(w)' = Batch(w)
        /\ \A o \in Ops : Awaited(o)' = Awaited(o)
    BY <1>8 DEF vars, Settled, Batch, Awaited, Buffered
  <2>. QED BY <1>0, <1>8, <2>1 DEF vars, TypeOK, WritesKnown, AloneKnows, Flushing, InTranscript
<1>9. ASSUME NEW w \in Writes, WriteSucceeds(w) \/ WriteFails(w)
      PROVE  EndWrite(w) /\ Settled' = Settled \cup Batch(w)
  BY <1>9 DEF WriteSucceeds, WriteFails, EndWrite, Settled, Batch
<1>. QED
  BY <1>1, <1>2, <1>3, <1>4, <1>5, <1>6, <1>7, <1>8, <1>9
  DEF Next, AddItems, PopItem, ClearSession

\* A flush returns only when nothing is left of what it was called for, if no
\* other operation ran meanwhile.
THEOREM FlushesLand == Spec => FlushAloneLands
<1>1. Init => FlushInv
  BY Init_TypeOK, Init_FlushInv DEF FlushInv
<1>2. FlushInv /\ [Next]_vars => FlushInv'
  BY Next_TypeOK, Next_FlushInv DEF FlushInv
<1>3. FlushInv /\ [Next]_vars =>
        [\A o \in Ops : Flushing(o) /\ pc'[o] = "idle" /\ alone[o]
           => owedAt[o] \subseteq Settled']_vars
  <2>. SUFFICES ASSUME FlushInv, Next, NEW o \in Ops, Flushing(o), pc'[o] = "idle", alone[o]
                PROVE  owedAt[o] \subseteq Settled'
    OBVIOUS
  <2>0. TypeOK /\ AloneKnows
    BY DEF FlushInv
  <2>1. \/ FlushWrites(o) /\ pending = <<>>
        \/ FlushReturns(o)
    <3>1. pc[o] \in {"draining", "writing"} /\ pc[o] # pc'[o]
      BY DEF Flushing
    <3>2. ~(\E w \in Writes : WriteSucceeds(w) \/ WriteFails(w))
      BY <3>1 DEF WriteSucceeds, WriteFails, EndWrite
    <3>3. PICK p \in Ops :
            \/ \E items \in NextItems : AddItems(p, items)
            \/ AddItemsBuffers(p) \/ PopItem(p) \/ PopItemDrops(p) \/ ClearSession(p)
            \/ ClearSessionBuffer(p) \/ Flush(p) \/ FlushWrites(p) \/ FlushReturns(p)
      BY <3>2 DEF Next
    <3>4. p = o
      BY <2>0, <3>1, <3>3
      DEF AddItems, AddItemsBuffers, PopItem, PopItemDrops, ClearSession,
          ClearSessionBuffer, Flush, FlushWrites, FlushReturns, StartOn, StartFlush,
          Finish, TypeOK
    <3>5. FlushWrites(o) \/ FlushReturns(o)
      BY <3>1, <3>3, <3>4
      DEF AddItems, AddItemsBuffers, PopItem, PopItemDrops, ClearSession,
          ClearSessionBuffer, Flush, StartOn
    <3>6. FlushWrites(o) => pending = <<>>
      BY <2>0 DEF FlushWrites, TypeOK
    <3>. QED BY <3>5, <3>6
  <2>2. waits[o] = {} /\ Settled' = Settled
    BY <2>1 DEF FlushWrites, FlushReturns, Settled, settled
  <2>3. Awaited(o) = {}
    BY <2>1 DEF FlushReturns, Awaited, Buffered, ToSet
  <2>. QED BY <2>0, <2>2, <2>3 DEF AloneKnows
<1>. QED BY <1>1, <1>2, <1>3, PTL DEF Spec, FlushAloneLands
------------------------------------------------------------------------------
(***************************************************************************)
(* The buffer is the tail of the transcript while operations on the        *)
(* transcript do not overlap; in the middle of one, up to its items.       *)
(***************************************************************************)
TailOf(s, t) ==
  Len(s) <= Len(t) /\ \A i \in 1..Len(s) : s[i] = t[Len(t) - Len(s) + i]

TailInv ==
  ~overlapped =>
    /\ \A o, p \in Ops : InTranscript(o) /\ InTranscript(p) => o = p
    /\ (\A o \in Ops : ~InTranscript(o)) => TailOf(pending, transcript)
    /\ \A o \in Ops : pc[o] = "adding" => TailOf(pending \o arg[o], transcript)
    /\ \A o \in Ops : pc[o] = "popping" =>
         \E m \in Msgs : arg[o] = <<m>> /\ TailOf(pending, Append(transcript, m))

LEMMA SuffixIs ==
  ASSUME NEW S, NEW s \in Seq(S), NEW t \in Seq(S), TailOf(s, t)
  PROVE  IsSuffix(s, t)
<1> DEFINE r == Reverse(s)
           q == Reverse(t)
           k == Len(s)
<1>1. /\ k \in Nat /\ Len(t) \in Nat /\ k <= Len(t)
      /\ \A i \in 1..k : s[i] = t[Len(t) - k + i]
  BY DEF TailOf
<1>2. /\ r \in Seq(S) /\ Len(r) = k /\ \A i \in 1..k : r[i] = s[(k - i) + 1]
  <2>1. \A i \in 1..k : (k - i) + 1 \in 1..k
    BY <1>1
  <2>. QED BY <1>1, <2>1 DEF Reverse
<1>3. /\ q \in Seq(S) /\ Len(q) = Len(t) /\ \A i \in 1..Len(t) : q[i] = t[(Len(t) - i) + 1]
  <2>1. \A i \in 1..Len(t) : (Len(t) - i) + 1 \in 1..Len(t)
    BY <1>1
  <2>. QED BY <1>1, <2>1 DEF Reverse
<1>4. ASSUME NEW i \in 1..k PROVE r[i] = q[i]
  <2>1. (k - i) + 1 \in 1..k /\ i \in 1..Len(t)
    BY <1>1
  <2>2. s[(k - i) + 1] = t[Len(t) - k + ((k - i) + 1)]
    BY <1>1, <2>1
  <2>3. Len(t) - k + ((k - i) + 1) = (Len(t) - i) + 1
    BY <1>1
  <2>. QED BY <1>2, <1>3, <2>1, <2>2, <2>3
<1>. HIDE DEF r, q
<1>5. SubSeq(r, 1, k) = SubSeq(q, 1, k)
  BY <1>1, <1>2, <1>3, <1>4
<1>. QED BY <1>1, <1>2, <1>3, <1>5 DEF IsSuffix, IsPrefix, r, q

LEMMA TailGrows ==
  ASSUME NEW S, NEW s \in Seq(S), NEW t \in Seq(S), NEW u \in Seq(S), TailOf(s, t)
  PROVE  TailOf(s \o u, t \o u)
<1> DEFINE k == Len(s)
           l == Len(t)
           n == Len(u)
           su == s \o u
           tu == t \o u
<1>1. /\ k \in Nat /\ l \in Nat /\ n \in Nat /\ k <= l
      /\ Len(su) = k + n /\ Len(tu) = l + n
      /\ \A i \in 1..k : su[i] = s[i]
      /\ \A i \in 1..n : su[k + i] = u[i]
      /\ \A i \in 1..l : tu[i] = t[i]
      /\ \A i \in 1..n : tu[l + i] = u[i]
      /\ \A i \in 1..k : s[i] = t[l - k + i]
  BY DEF TailOf
<1>. HIDE DEF k, l, n, su, tu
<1>2. ASSUME NEW i \in 1..(k + n) PROVE su[i] = tu[(l + n) - (k + n) + i]
  <2>0. (l + n) - (k + n) + i = l - k + i
    BY <1>1
  <2>1. CASE i <= k
    <3>1. i \in 1..k /\ l - k + i \in 1..l
      BY <1>1, <2>1
    <3>. QED BY <1>1, <2>0, <3>1
  <2>2. CASE i > k
    <3>1. i - k \in 1..n /\ i = k + (i - k) /\ l - k + i = l + (i - k)
      BY <1>1, <2>2
    <3>2. su[k + (i - k)] = u[i - k] /\ tu[l + (i - k)] = u[i - k]
      BY <1>1, <3>1
    <3>. QED BY <2>0, <3>1, <3>2
  <2>. QED BY <1>1, <2>1, <2>2
<1>. QED BY <1>1, <1>2 DEF TailOf, su, tu

LEMMA TailOfConcat ==
  ASSUME NEW S, NEW s \in Seq(S), NEW t \in Seq(S), NEW u \in Seq(S), TailOf(s \o u, t)
  PROVE  TailOf(<<>> \o u, t)
<1> DEFINE k == Len(s)
           l == Len(t)
           n == Len(u)
           su == s \o u
<1>1. /\ k \in Nat /\ l \in Nat /\ n \in Nat /\ k + n <= l
      /\ Len(su) = k + n
      /\ \A i \in 1..n : su[k + i] = u[i]
      /\ \A i \in 1..(k + n) : su[i] = t[l - (k + n) + i]
      /\ <<>> \o u = u
  BY DEF TailOf
<1>. HIDE DEF k, l, su
<1>2. ASSUME NEW i \in 1..n PROVE u[i] = t[l - n + i]
  <2>1. k + i \in 1..(k + n) /\ l - (k + n) + (k + i) = l - n + i
    BY <1>1
  <2>2. su[k + i] = t[l - (k + n) + (k + i)]
    BY <1>1, <2>1
  <2>. QED BY <1>1, <2>1, <2>2
<1>. QED BY <1>1, <1>2 DEF TailOf, l

\* The transcript lost its last message: so may the buffer.
LEMMA TailDrops ==
  ASSUME NEW S, NEW s \in Seq(S), NEW t \in Seq(S), NEW m \in S,
         TailOf(s, Append(t, m)), s # <<>>
  PROVE  Last(s) = m /\ TailOf(Front(s), t)
<1> DEFINE k == Len(s)
           l == Len(t)
           a == Append(t, m)
<1>1. /\ k \in Nat \ {0} /\ l \in Nat /\ k <= l + 1
      /\ Len(a) = l + 1 /\ a[l + 1] = m /\ \A i \in 1..l : a[i] = t[i]
      /\ \A i \in 1..k : s[i] = a[(l + 1) - k + i]
  <2>1. k \in Nat \ {0} /\ l \in Nat
    OBVIOUS
  <2>2. Len(a) = l + 1 /\ a[l + 1] = m /\ \A i \in 1..l : a[i] = t[i]
    OBVIOUS
  <2>3. k <= Len(a) /\ \A i \in 1..k : s[i] = a[Len(a) - k + i]
    BY DEF TailOf
  <2>. HIDE DEF a, k, l
  <2>. QED BY <2>1, <2>2, <2>3
<1>2. /\ Len(Front(s)) = k - 1 /\ \A i \in 1..(k - 1) : Front(s)[i] = s[i]
      /\ Last(s) = s[k]
  BY FrontFacts
<1> DEFINE f == Front(s)
<1>. HIDE DEF k, l, a, f
<1>3. s[k] = m
  <2>1. k \in 1..k /\ (l + 1) - k + k = l + 1
    BY <1>1
  <2>. QED BY <1>1, <2>1
<1>4. ASSUME NEW i \in 1..(k - 1) PROVE f[i] = t[l - (k - 1) + i]
  <2>1. i \in 1..k /\ l - (k - 1) + i \in 1..l /\ (l + 1) - k + i = l - (k - 1) + i
    BY <1>1
  <2>2. s[i] = a[(l + 1) - k + i]
    BY <1>1, <2>1
  <2>. QED BY <1>1, <1>2, <2>1, <2>2 DEF f
<1>5. Len(f) = k - 1 /\ k - 1 <= l
  BY <1>1, <1>2 DEF f
<1>. QED BY <1>1, <1>2, <1>3, <1>4, <1>5 DEF TailOf, f, l

LEMMA FrontAppend ==
  ASSUME NEW S, NEW s \in Seq(S), s # <<>>
  PROVE  Append(Front(s), Last(s)) = s
<1> DEFINE f == Front(s)
           a == Append(f, Last(s))
<1>1. /\ f \in Seq(S) /\ Len(f) = Len(s) - 1 /\ \A i \in 1..(Len(s) - 1) : f[i] = s[i]
      /\ Len(s) \in Nat \ {0} /\ Last(s) = s[Len(s)] /\ Last(s) \in S
  BY FrontFacts
<1>. HIDE DEF f
<1>2. /\ a \in Seq(S) /\ Len(a) = Len(s) /\ a[Len(s)] = s[Len(s)]
      /\ \A i \in 1..(Len(s) - 1) : a[i] = s[i]
  BY <1>1
<1>. HIDE DEF a
<1>3. \A i \in 1..Len(s) : a[i] = s[i]
  <2>. SUFFICES ASSUME NEW i \in 1..Len(s) PROVE a[i] = s[i]
    OBVIOUS
  <2>1. i = Len(s) \/ i \in 1..(Len(s) - 1)
    BY <1>1
  <2>. QED BY <1>2, <2>1
<1>4. a = s
  BY <1>2, <1>3
<1>. QED BY <1>4 DEF a, f

LEMMA EmptyTail ==
  ASSUME NEW S, NEW t \in Seq(S) PROVE TailOf(<<>>, t)
BY DEF TailOf

LEMMA Init_TailInv == Init => TailInv
BY DEF Init, TailInv, InTranscript, TailOf

\* A step outside the transcript leaves the buffer alone or empties it.
LEMMA OutsideTranscript ==
  ASSUME TypeOK, TailInv, UNCHANGED <<transcript, overlapped>>,
         pending' \in {pending, <<>>},
         \A o \in Ops : /\ InTranscript(o)' <=> InTranscript(o)
                        /\ InTranscript(o) => pc'[o] = pc[o] /\ arg'[o] = arg[o]
  PROVE  TailInv'
<1>. SUFFICES ASSUME ~overlapped PROVE TailInv'
  BY DEF TailInv
<1>0. /\ \A o \in Ops : arg[o] \in Seq(Msgs)
      /\ pending \in Seq(Msgs) /\ transcript \in Seq(Msgs)
  BY DEF TypeOK
<1>1. (\A o \in Ops : ~InTranscript(o)') => TailOf(pending', transcript')
  BY <1>0, EmptyTail DEF TailInv
<1>2. ASSUME NEW o \in Ops, pc'[o] = "adding" PROVE TailOf(pending' \o arg'[o], transcript')
  <2>1. pc[o] = "adding" /\ arg'[o] = arg[o]
    BY <1>2 DEF InTranscript
  <2>2. TailOf(pending \o arg[o], transcript)
    BY <2>1 DEF TailInv
  <2>3. TailOf(<<>> \o arg[o], transcript)
    BY <1>0, <2>2, TailOfConcat
  <2>. QED BY <2>1, <2>2, <2>3
<1>3. ASSUME NEW o \in Ops, pc'[o] = "popping"
      PROVE  \E m \in Msgs : arg'[o] = <<m>> /\ TailOf(pending', Append(transcript', m))
  <2>1. pc[o] = "popping" /\ arg'[o] = arg[o]
    BY <1>3 DEF InTranscript
  <2>2. PICK m \in Msgs : arg[o] = <<m>> /\ TailOf(pending, Append(transcript, m))
    BY <2>1 DEF TailInv
  <2>3. TailOf(<<>>, Append(transcript, m))
    <3>1. Append(transcript, m) \in Seq(Msgs)
      BY <1>0
    <3>. QED BY <3>1, EmptyTail
  <2>. QED BY <2>1, <2>2, <2>3
<1>4. \A o, p \in Ops : InTranscript(o)' /\ InTranscript(p)' => o = p
  BY DEF TailInv
<1>. QED BY <1>1, <1>2, <1>3, <1>4 DEF TailInv

\* The only operation on the transcript ends, the buffer its tail again.
LEMMA EndsAsTail ==
  ASSUME TypeOK, TailInv, NEW o \in Ops, InTranscript(o), ~InTranscript(o)',
         ~overlapped => TailOf(pending', transcript'), overlapped' = overlapped,
         \A p \in Ops \ {o} : pc'[p] = pc[p]
  PROVE  TailInv'
<1>. SUFFICES ASSUME ~overlapped PROVE TailInv'
  BY DEF TailInv
<1>1. \A p \in Ops : p # o => ~InTranscript(p)
  BY DEF TailInv
<1>2. \A p \in Ops : ~InTranscript(p)'
  BY <1>1 DEF InTranscript
<1>3. \A p \in Ops : pc'[p] # "adding" /\ pc'[p] # "popping"
  BY <1>2 DEF InTranscript
<1>. QED BY <1>2, <1>3 DEF TailInv

LEMMA Next_TailInv == TypeOK /\ TailInv /\ [Next]_vars => TailInv'
<1>. SUFFICES ASSUME TypeOK, TailInv, [Next]_vars PROVE TailInv'
  OBVIOUS
<1>0. /\ pending \in Seq(Msgs) /\ transcript \in Seq(Msgs)
      /\ \A o \in Ops : arg[o] \in Seq(Msgs)
  BY DEF TypeOK
<1>1. ASSUME NEW o \in Ops, NEW place, NEW items, StartOn(o, place, items),
             \/ place = "adding" /\ items \in Seq(Msgs) /\ transcript' = transcript \o items
             \/ /\ place = "popping" /\ transcript # <<>>
                /\ items = <<Last(transcript)>> /\ transcript' = Front(transcript)
             \/ place = "clearing"
      PROVE  TailInv'
  <2>. SUFFICES ASSUME ~overlapped' PROVE TailInv'
    BY DEF TailInv
  <2>1. /\ ~overlapped /\ (\A p \in Ops : ~InTranscript(p)) /\ pending' = pending
        /\ pc'[o] = place /\ arg'[o] = items
        /\ \A p \in Ops \ {o} : pc'[p] = pc[p]
    BY <1>1 DEF StartOn, TypeOK
  <2>2. TailOf(pending, transcript)
    BY <2>1 DEF TailInv
  <2>3. /\ InTranscript(o)' /\ \A p \in Ops : p # o => ~InTranscript(p)'
        /\ \A p \in Ops : p # o => pc'[p] # "adding" /\ pc'[p] # "popping"
    BY <1>1, <2>1 DEF InTranscript
  <2>4. place = "adding" => TailOf(pending' \o arg'[o], transcript')
    BY <1>0, <1>1, <2>1, <2>2, TailGrows
  <2>5. ASSUME place = "popping"
        PROVE  \E m \in Msgs : arg'[o] = <<m>> /\ TailOf(pending', Append(transcript', m))
    <3>1. Last(transcript) \in Msgs /\ arg'[o] = <<Last(transcript)>>
      BY <1>0, <1>1, <2>1, <2>5, FrontFacts
    <3>2. Append(Front(transcript), Last(transcript)) = transcript
      BY <1>0, <1>1, <2>5, FrontAppend
    <3>. QED BY <1>1, <2>1, <2>2, <2>5, <3>1, <3>2
  <2>. QED BY <2>1, <2>3, <2>4, <2>5 DEF TailInv
<1>2. ASSUME NEW o \in Ops, AddItemsBuffers(o) PROVE TailInv'
  <2>1. /\ pc[o] = "adding" /\ InTranscript(o) /\ UNCHANGED <<transcript, overlapped>>
        /\ pc'[o] \in {"idle", "draining"} /\ \A p \in Ops \ {o} : pc'[p] = pc[p]
        /\ pending' = pending \o arg[o] \/ pending' = <<>>
    BY <1>2 DEF AddItemsBuffers, InTranscript, Finish, StartFlush, TakeBatch, TypeOK
  <2>2. ~overlapped => TailOf(pending', transcript')
    BY <1>0, <2>1, EmptyTail DEF TailInv
  <2>. QED BY <2>1, <2>2, EndsAsTail DEF InTranscript
<1>3. ASSUME NEW o \in Ops, PopItemDrops(o) PROVE TailInv'
  <2>1. /\ pc[o] = "popping" /\ InTranscript(o) /\ UNCHANGED <<transcript, overlapped>>
        /\ pc'[o] = "idle" /\ \A p \in Ops \ {o} : pc'[p] = pc[p]
    BY <1>3 DEF PopItemDrops, InTranscript, Finish, TypeOK
  <2>2. ASSUME ~overlapped PROVE TailOf(pending', transcript')
    <3>1. PICK m \in Msgs : arg[o] = <<m>> /\ TailOf(pending, Append(transcript, m))
      BY <2>1, <2>2 DEF TailInv
    <3>2. CASE pending = <<>>
      BY <1>0, <1>3, <2>1, <3>2, EmptyTail DEF PopItemDrops
    <3>3. CASE pending # <<>>
      <4>1. Last(pending) = m /\ TailOf(Front(pending), transcript)
        BY <1>0, <3>1, <3>3, TailDrops
      <4>2. Head(arg[o]) = m /\ Same(Last(pending), Head(arg[o]))
        BY <3>1, <4>1 DEF Same
      <4>. QED BY <1>3, <2>1, <3>3, <4>1, <4>2 DEF PopItemDrops
    <3>. QED BY <3>2, <3>3
  <2>. QED BY <2>1, <2>2, EndsAsTail DEF InTranscript
<1>4. ASSUME NEW o \in Ops, ClearSessionBuffer(o) PROVE TailInv'
  <2>1. /\ InTranscript(o) /\ UNCHANGED <<transcript, overlapped>> /\ pending' = <<>>
        /\ pc'[o] = "idle" /\ \A p \in Ops \ {o} : pc'[p] = pc[p]
    BY <1>4 DEF ClearSessionBuffer, InTranscript, Finish, TypeOK
  <2>. QED BY <1>0, <2>1, EmptyTail, EndsAsTail DEF InTranscript
<1>5. ASSUME NEW o \in Ops, Flush(o) \/ FlushWrites(o) \/ FlushReturns(o) PROVE TailInv'
  <2>1. /\ UNCHANGED <<transcript, overlapped>> /\ pending' \in {pending, <<>>}
        /\ pc[o] \in {"idle", "draining", "writing"} /\ pc'[o] \in {"idle", "draining", "writing"}
        /\ \A p \in Ops \ {o} : pc'[p] = pc[p] /\ arg'[p] = arg[p]
    BY <1>5 DEF Flush, FlushWrites, FlushReturns, StartFlush, Finish, TakeBatch, TypeOK, session
  <2>2. \A p \in Ops : /\ InTranscript(p)' <=> InTranscript(p)
                       /\ InTranscript(p) => pc'[p] = pc[p] /\ arg'[p] = arg[p]
    BY <2>1 DEF InTranscript
  <2>. QED BY <2>1, <2>2, OutsideTranscript
<1>6. CASE UNCHANGED <<session, pc, arg, overlapped>>
  BY <1>6, OutsideTranscript DEF session, InTranscript
<1>7. ASSUME NEW o \in Ops, NEW items \in NextItems, AddItems(o, items) PROVE TailInv'
  BY <1>1, <1>7, NextItemsFacts DEF AddItems
<1>8. ASSUME NEW o \in Ops, PopItem(o) \/ ClearSession(o) PROVE TailInv'
  BY <1>1, <1>8 DEF PopItem, ClearSession
<1>. QED
  BY <1>2, <1>3, <1>4, <1>5, <1>6, <1>7, <1>8
  DEF Next, WriteSucceeds, WriteFails, EndWrite, vars, session

\* popItem never takes back another message than the one it popped: without
\* overlap the buffer is the tail of the transcript.
THEOREM BufferIsTail == Spec => []PendingIsTail
<1>1. Init => TypeOK /\ TailInv
  BY Init_TypeOK, Init_TailInv
<1>2. TypeOK /\ TailInv /\ [Next]_vars => (TypeOK /\ TailInv)'
  BY Next_TypeOK, Next_TailInv
<1>3. TypeOK /\ TailInv => PendingIsTail
  BY SuffixIs DEF TypeOK, TailInv, PendingIsTail
<1>. QED BY <1>1, <1>2, <1>3, PTL DEF Spec
==============================================================================
