--------------------------- MODULE LangGraphProofs ---------------------------
(***************************************************************************)
(* The alias table of the LangGraph store, the pages of its queries and    *)
(* the memory nodes of its graphs keep their promises for every number of  *)
(* namespaces, keys, rows, memories, batches, threads and messages, and    *)
(* every bound.                                                            *)
(***************************************************************************)
EXTENDS MCLangGraph, LruProofs, FiniteSetTheorems

------------------------------------------------------------------------------
\* The store.

\* The orders of the instance are those of the library.
LEMMA StoreLru ==
  /\ \A f : Store!Range(f) = Range(f)
  /\ \A order, S, cap : Store!IsOrder(order, S, cap) <=> IsOrder(order, S, cap)
  /\ \A order, x : Store!Touch(order, x) = Touch(order, x)
  /\ \A order, x : Store!Without(order, x) = Without(order, x)
  /\ \A order, cap : Store!Newest(order, cap) = Newest(order, cap)
  /\ \A order, cap : Store!Oldest(order, cap) = Oldest(order, cap)
<1>1. \A f : Store!Range(f) = Range(f)
  BY DEF Store!Range, Range
<1>2. \A order, S, cap : Store!IsOrder(order, S, cap) <=> IsOrder(order, S, cap)
  BY DEF Store!IsOrder, IsOrder
<1>3. /\ \A order, x : Store!Touch(order, x) = Touch(order, x)
      /\ \A order, x : Store!Without(order, x) = Without(order, x)
  BY DEF Store!Touch, Touch, Store!Without, Without, Store!Place, Place
<1>4. \A order, cap : Store!Newest(order, cap) = Newest(order, cap)
  BY DEF Store!Newest, Newest
<1>5. \A order, cap : Store!Oldest(order, cap) = Oldest(order, cap)
  BY <1>1, <1>4 DEF Store!Oldest, Oldest
<1>. QED BY <1>1, <1>2, <1>3, <1>4, <1>5

\* A use of an entry by the store.
LEMMA StoreUse ==
  ASSUME NEW S, NEW cap \in Nat \ {0}, NEW order, Store!IsOrder(order, S, cap), NEW x \in S
  PROVE  /\ Store!IsOrder(Store!Newest(Store!Touch(order, x), cap), S, cap)
         /\ x \in Store!Range(Store!Newest(Store!Touch(order, x), cap))
         /\ Store!Oldest(Store!Touch(order, x), cap) \subseteq Store!Range(order) \ {x}
         /\ Store!Range(Store!Newest(Store!Touch(order, x), cap))
              = (Store!Range(order) \cup {x}) \ Store!Oldest(Store!Touch(order, x), cap)
BY StoreLru, UseFacts

\* An entry the store drops is gone, and only it.
LEMMA StoreWithout ==
  ASSUME NEW S, NEW cap \in Nat, NEW order, Store!IsOrder(order, S, cap), NEW x \in S
  PROVE  /\ Store!IsOrder(Store!Without(order, x), S, cap)
         /\ Store!Range(Store!Without(order, x)) = Store!Range(order) \ {x}
BY StoreLru, WithoutFacts

\* A request is out only for an operation.
Busy == \A t \in Tasks : calling[t] => todo[t] # <<>>

\* The table names only memories that a put of the slot stored or was answered.
AliasesOwn == \A s \in Store!Slots : aliasOf[s] # None => s \in putFor[aliasOf[s]]

\* Nor does a request that is out, although the table may have changed since it
\* was resolved; but a caller may have named a memory by its id.
TargetsOwn ==
  \A t \in Tasks : target[t] # None =>
    /\ calling[t]
    /\ Store!Current(t).slot \in putFor[target[t]] \/ Store!KeyOf(Store!Current(t).slot) = target[t]

StoreInv == Store!TypeOK /\ Busy /\ Store!RoundTrip /\ AliasesOwn /\ TargetsOwn

------------------------------------------------------------------------------
\* The batches that are under way are of operations on slots.
\* The operation a task is at is one of the store.
LEMMA CurrentFacts ==
  ASSUME Store!TypeOK, NEW t \in Tasks, todo[t] # <<>>
  PROVE  /\ Store!Current(t) \in Store!Op /\ Store!Current(t).slot \in Store!Slots
         /\ Store!Current(t).slot[1] \in Namespaces /\ Tail(todo[t]) \in Seq(Store!Op)
<1>1. todo[t] \in Seq(Store!Op)
  BY DEF Store!TypeOK
<1>2. Store!Current(t) \in Store!Op /\ Tail(todo[t]) \in Seq(Store!Op)
  BY <1>1 DEF Store!Current
<1>3. Store!Current(t).slot \in Store!Slots
  BY <1>2 DEF Store!Op
<1>. QED BY <1>2, <1>3 DEF Store!Slots

\* What a key resolves to was answered to a put of its slot, or named by its id.
LEMMA ResolveFacts ==
  ASSUME Store!TypeOK, AliasesOwn, NEW s \in Store!Slots
  PROVE  /\ Store!ResolveKey(s) \in Ids \cup {None}
         /\ Store!ResolveKey(s) # None => s \in putFor[Store!ResolveKey(s)] \/ Store!KeyOf(s) = Store!ResolveKey(s)
BY DEF Store!TypeOK, AliasesOwn, Store!ResolveKey, Store!AliasKey

\* Entering a slot keeps the table a bounded order with a value for each entry.
LEMMA RememberFacts ==
  ASSUME Store!StoreAssumption, Store!TypeOK, NEW s \in Store!Slots, NEW id \in Ids, Store!RememberAlias(s, id)
  PROVE  /\ Store!IsOrder(aliasOrder', Store!Slots, MaxAliasEntries)
         /\ aliasOf' \in [Store!Slots -> Ids \cup {None}]
         /\ owed' \in [Store!Slots -> Ids \cup {None}]
         /\ \A x \in Store!Slots : aliasOf'[x] # None <=> x \in Store!Range(aliasOrder')
         /\ \A x \in Store!Slots : aliasOf'[x] \in {None, aliasOf[x]} \/ (x = s /\ aliasOf'[x] = id)
         /\ \A x \in Store!Slots : owed'[x] # None =>
              IF x = s THEN /\ owed'[x] = id
                            /\ aliasOf'[x] = id \/ (aliasOf'[x] = None /\ Store!KeyOf(x) = id)
              ELSE aliasOf'[x] = aliasOf[x] /\ owed'[x] = owed[x]
<1> DEFINE kept == Store!Newest(Store!Touch(aliasOrder, s), MaxAliasEntries)
           gone == Store!Oldest(Store!Touch(aliasOrder, s), MaxAliasEntries)
           due == IF Store!Deleting(s) THEN None ELSE id
<1>1. None \notin Ids /\ MaxAliasEntries \in Nat \ {0}
  BY DEF Store!StoreAssumption
<1>2. /\ Store!IsOrder(kept, Store!Slots, MaxAliasEntries) /\ s \in Store!Range(kept)
      /\ gone \subseteq Store!Range(aliasOrder) \ {s}
      /\ Store!Range(kept) = (Store!Range(aliasOrder) \cup {s}) \ gone
  <2>1. Store!IsOrder(aliasOrder, Store!Slots, MaxAliasEntries)
    BY DEF Store!TypeOK
  <2>2. MaxAliasEntries \in Nat \ {0}
    BY <1>1
  <2>. QED BY <2>1, <2>2, StoreUse
<1>3. /\ \A x \in Store!Slots : aliasOf[x] \in Ids \cup {None} /\ owed[x] \in Ids \cup {None}
      /\ \A x \in Store!Slots : aliasOf[x] # None <=> x \in Store!Range(aliasOrder)
      /\ Store!IsOrder(aliasOrder, Store!Slots, MaxAliasEntries)
      /\ aliasOf \in [Store!Slots -> Ids \cup {None}] /\ owed \in [Store!Slots -> Ids \cup {None}]
  BY DEF Store!TypeOK
<1>4. due \in {None, id}
  OBVIOUS
<1>5. \/ /\ Store!KeyOf(s) = id
         /\ owed' = [owed EXCEPT ![s] = IF aliasOf[s] = None THEN due ELSE None]
         /\ aliasOf' = aliasOf /\ aliasOrder' = aliasOrder
      \/ /\ aliasOrder' = kept
         /\ aliasOf' = [x \in Store!Slots |-> IF x \in gone THEN None
                                        ELSE IF x = s THEN id ELSE aliasOf[x]]
         /\ owed' = [x \in Store!Slots |-> IF x \in gone THEN None
                                     ELSE IF x = s THEN due ELSE owed[x]]
  BY DEF Store!RememberAlias, Store!AliasKey, Store!aliases
<1>. HIDE DEF kept, gone, due
<1>6. CASE /\ Store!KeyOf(s) = id
           /\ owed' = [owed EXCEPT ![s] = IF aliasOf[s] = None THEN due ELSE None]
           /\ aliasOf' = aliasOf /\ aliasOrder' = aliasOrder
  BY <1>3, <1>4, <1>6
<1>7. CASE /\ aliasOrder' = kept
           /\ aliasOf' = [x \in Store!Slots |-> IF x \in gone THEN None
                                          ELSE IF x = s THEN id ELSE aliasOf[x]]
           /\ owed' = [x \in Store!Slots |-> IF x \in gone THEN None
                                       ELSE IF x = s THEN due ELSE owed[x]]
  <2>1. aliasOf' \in [Store!Slots -> Ids \cup {None}] /\ owed' \in [Store!Slots -> Ids \cup {None}]
    BY <1>3, <1>4, <1>7
  <2>2. \A x \in Store!Slots : aliasOf'[x] # None <=> x \in Store!Range(kept)
    BY <1>1, <1>2, <1>3, <1>7
  <2>. QED BY <1>2, <1>3, <1>4, <1>7, <2>1, <2>2
<1>. QED BY <1>5, <1>6, <1>7

\* Deleting an entry keeps it so.
LEMMA ForgetFacts ==
  ASSUME Store!StoreAssumption, Store!TypeOK, NEW s \in Store!Slots, Store!ForgetAlias(s)
  PROVE  /\ Store!IsOrder(aliasOrder', Store!Slots, MaxAliasEntries)
         /\ aliasOf' = [aliasOf EXCEPT ![s] = None]
         /\ \A x \in Store!Slots : aliasOf'[x] # None <=> x \in Store!Range(aliasOrder')
<1>1. /\ MaxAliasEntries \in Nat
      /\ Store!IsOrder(aliasOrder, Store!Slots, MaxAliasEntries)
  BY DEF Store!StoreAssumption, Store!TypeOK
<1>2. Store!IsOrder(aliasOrder', Store!Slots, MaxAliasEntries) /\ Store!Range(aliasOrder') = Store!Range(aliasOrder) \ {s}
  BY <1>1, StoreWithout DEF Store!ForgetAlias, Store!AliasKey
<1>. QED BY <1>2 DEF Store!ForgetAlias, Store!AliasKey, Store!TypeOK

\* A memory a put stored, or was answered, counts its slot in and takes none out.
LEMMA StoredFacts ==
  ASSUME Store!TypeOK, NEW t \in Tasks, NEW id \in Ids, Store!StoredAs(t, id), Store!Current(t).slot \in Store!Slots
  PROVE  /\ memories' \subseteq Ids
         /\ putFor' \in [Ids -> SUBSET Store!Slots] /\ Store!Current(t).slot \in putFor'[id]
         /\ \A i \in Ids : putFor[i] \subseteq putFor'[i]
<1>1. memories \subseteq Ids /\ putFor \in [Ids -> SUBSET Store!Slots]
  BY DEF Store!TypeOK
<1>. QED BY <1>1 DEF Store!StoredAs

\* The operation of a task ends, and those of the others go on.
LEMMA EndFacts ==
  ASSUME Store!TypeOK, Busy, TargetsOwn, NEW t \in Tasks, Store!NextOp(t) \/ Store!HandleError(t), todo[t] # <<>>,
         \A i \in Ids : putFor[i] \subseteq putFor'[i],
         None \notin Store!Slots
  PROVE  /\ todo' \in [Tasks -> Seq(Store!Op)] /\ calling' \in [Tasks -> BOOLEAN]
         /\ target' \in [Tasks -> Ids \cup {None}]
         /\ Busy' /\ TargetsOwn'
<1>1. Tail(todo[t]) \in Seq(Store!Op) /\ <<>> \in Seq(Store!Op)
  BY CurrentFacts
<1>2. /\ \E rest \in Seq(Store!Op) : todo' = [todo EXCEPT ![t] = rest]
      /\ calling' = [calling EXCEPT ![t] = FALSE]
      /\ target' = [target EXCEPT ![t] = None]
  BY <1>1 DEF Store!NextOp, Store!HandleError
<1>3. /\ todo' \in [Tasks -> Seq(Store!Op)] /\ calling' \in [Tasks -> BOOLEAN]
      /\ target' \in [Tasks -> Ids \cup {None}]
  BY <1>2 DEF Store!TypeOK
<1>4. /\ calling'[t] = FALSE /\ target'[t] = None
      /\ \A u \in Tasks \ {t} : /\ todo'[u] = todo[u] /\ calling'[u] = calling[u]
                                /\ target'[u] = target[u]
  BY <1>2 DEF Store!TypeOK
<1>5. Busy'
  BY <1>4 DEF Busy
<1>6. TargetsOwn'
  <2>. SUFFICES ASSUME NEW u \in Tasks, target'[u] # None
                PROVE  /\ calling'[u]
                       /\ Store!Current(u)'.slot \in putFor'[target'[u]]
                          \/ Store!KeyOf(Store!Current(u)'.slot) = target'[u]
    BY DEF TargetsOwn, Store!KeyOf
  <2>1. u # t /\ target'[u] = target[u] /\ calling'[u] = calling[u] /\ Store!Current(u)' = Store!Current(u)
    BY <1>4 DEF Store!Current
  <2>2. calling[u] /\ (Store!Current(u).slot \in putFor[target[u]] \/ Store!KeyOf(Store!Current(u).slot) = target[u])
    BY <2>1 DEF TargetsOwn
  <2>3. Store!Current(u).slot \in Store!Slots /\ target[u] \in Ids
    BY <2>1, <2>2, CurrentFacts DEF Busy, Store!TypeOK
  <2>. QED BY <2>1, <2>2, <2>3
<1>. QED BY <1>3, <1>5, <1>6
------------------------------------------------------------------------------
LEMMA StoreInit == ASSUME Store!StoreAssumption PROVE Store!Init => StoreInv
<1>. SUFFICES ASSUME Store!Init PROVE StoreInv
  OBVIOUS
<1>1. Store!IsOrder(<<>>, Store!Slots, MaxAliasEntries) /\ Store!Range(<<>>) = {}
  BY DEF Store!IsOrder, Store!Range, Store!StoreAssumption
<1>2. Store!TypeOK
  BY <1>1 DEF Store!Init, Store!TypeOK
<1>3. Busy /\ Store!RoundTrip /\ AliasesOwn /\ TargetsOwn
  BY DEF Store!Init, Busy, Store!RoundTrip, AliasesOwn, TargetsOwn
<1>. QED BY <1>2, <1>3 DEF StoreInv

\* The parts of the invariant that are about the table, when it is not touched.
LEMMA SameTable ==
  ASSUME Store!TypeOK, Store!RoundTrip, AliasesOwn, UNCHANGED Store!aliases,
         \A s \in Store!Slots : owed'[s] \in {owed[s], None},
         \A i \in Ids : putFor[i] \subseteq putFor'[i],
         None \notin Store!Slots
  PROVE  /\ Store!RoundTrip' /\ AliasesOwn'
         /\ Store!IsOrder(aliasOrder', Store!Slots, MaxAliasEntries)
         /\ aliasOf' \in [Store!Slots -> Ids \cup {None}]
         /\ \A s \in Store!Slots : aliasOf'[s] # None <=> s \in Store!Range(aliasOrder')
<1>1. aliasOf' = aliasOf /\ aliasOrder' = aliasOrder
  BY DEF Store!aliases
<1>2. \A s \in Store!Slots : Store!ResolveKey(s)' = Store!ResolveKey(s)
  BY <1>1 DEF Store!ResolveKey, Store!AliasKey, Store!KeyOf
<1>3. Store!RoundTrip'
  BY <1>2 DEF Store!RoundTrip
<1>4. AliasesOwn'
  BY <1>1 DEF AliasesOwn, Store!TypeOK
<1>. QED BY <1>1, <1>3, <1>4 DEF Store!TypeOK

\* Every step of the store keeps its invariant.
LEMMA StoreNext ==
  ASSUME Store!StoreAssumption
  PROVE  StoreInv /\ [Store!Next]_storeVars => StoreInv'
<1>. SUFFICES ASSUME StoreInv, [Store!Next]_storeVars PROVE StoreInv'
  OBVIOUS
<1>. USE DEF StoreInv
<1>0. None \notin Store!Slots /\ None \notin Ids
  BY DEF Store!StoreAssumption
<1>1. ASSUME NEW t \in Tasks, NEW ops \in Batches, Store!Batch(t, ops) PROVE StoreInv'
  <2>1. ops \in Seq(Store!Op) /\ todo[t] = <<>> /\ todo' = [todo EXCEPT ![t] = ops]
    BY <1>1 DEF Store!StoreAssumption, Store!Batch
  <2>2. /\ UNCHANGED <<throws, memories, registry, target, calling, putFor, owed>>
        /\ UNCHANGED Store!aliases
    BY <1>1 DEF Store!Batch
  <2>3. Store!TypeOK'
    BY <2>1, <2>2 DEF Store!TypeOK, Store!aliases
  <2>4. ~calling[t] /\ target[t] = None
    BY <2>1 DEF Busy, TargetsOwn
  <2>5. \A u \in Tasks \ {t} : todo'[u] = todo[u]
    BY <2>1 DEF Store!TypeOK
  <2>6. Busy'
    BY <2>2, <2>4, <2>5 DEF Busy
  <2>7. TargetsOwn'
    BY <2>2, <2>4, <2>5 DEF TargetsOwn, Store!Current, Store!KeyOf
  <2>8. Store!RoundTrip' /\ AliasesOwn'
    BY <1>0, <2>2, SameTable
  <2>. QED BY <2>3, <2>6, <2>7, <2>8
<1>2. ASSUME NEW t \in Tasks, Store!Execute(t) PROVE StoreInv'
  <2> DEFINE s == Store!Current(t).slot
             found == IF Store!Current(t).kind = "put" THEN None ELSE Store!ResolveKey(s)
  <2>1. todo[t] # <<>> /\ s \in Store!Slots /\ s[1] \in Namespaces
    BY <1>2, CurrentFacts DEF Store!Execute
  <2>2. /\ registry' = registry \cup {s[1]}
        /\ target' = [target EXCEPT ![t] = found]
        /\ calling' = [calling EXCEPT ![t] = TRUE]
        /\ owed' = owed \/ owed' = [owed EXCEPT ![s] = None]
        /\ UNCHANGED <<throws, memories, todo, putFor>>
        /\ UNCHANGED Store!aliases
    BY <1>2 DEF Store!Execute
  <2>3. /\ found \in Ids \cup {None}
        /\ found # None => s \in putFor[found] \/ Store!KeyOf(s) = found
    BY <2>1, ResolveFacts
  <2>. HIDE DEF s, found
  <2>4. Store!TypeOK'
    BY <2>1, <2>2, <2>3 DEF Store!TypeOK, Store!aliases
  <2>5. Busy'
    BY <2>1, <2>2 DEF Busy, Store!TypeOK
  <2>6. TargetsOwn'
    <3>. SUFFICES ASSUME NEW u \in Tasks, target'[u] # None
                  PROVE  /\ calling'[u]
                         /\ Store!Current(u)'.slot \in putFor'[target'[u]]
                            \/ Store!KeyOf(Store!Current(u)'.slot) = target'[u]
      BY DEF TargetsOwn, Store!KeyOf
    <3>1. Store!Current(u)' = Store!Current(u) /\ putFor' = putFor
      BY <2>2 DEF Store!Current
    <3>2. CASE u = t
      BY <2>2, <2>3, <3>1, <3>2 DEF Store!TypeOK, s
    <3>3. CASE u # t
      <4>1. target'[u] = target[u] /\ calling'[u] = calling[u]
        BY <2>2, <3>3 DEF Store!TypeOK
      <4>. QED BY <3>1, <4>1 DEF TargetsOwn
    <3>. QED BY <3>2, <3>3
  <2>7. \A x \in Store!Slots : owed'[x] \in {owed[x], None}
    BY <2>1, <2>2 DEF Store!TypeOK
  <2>8. Store!RoundTrip' /\ AliasesOwn'
    BY <1>0, <2>2, <2>7, SameTable
  <2>. QED BY <2>4, <2>5, <2>6, <2>8
<1>3. ASSUME NEW t \in Tasks, Store!ExecuteWithoutUser(t) \/ Store!GetReturns(t) \/ Store!GetFails(t) PROVE StoreInv'
  <2>1. /\ todo[t] # <<>>
        /\ Store!NextOp(t) \/ Store!HandleError(t)
        /\ registry' = registry \/ registry' = registry \cup {Store!Current(t).slot[1]}
        /\ UNCHANGED <<throws, memories, putFor, owed>>
        /\ UNCHANGED Store!aliases
    BY <1>3 DEF Store!ExecuteWithoutUser, Store!GetReturns, Store!GetFails, Store!InFlight, Busy
  <2>2. registry' \subseteq Namespaces
    BY <2>1, CurrentFacts DEF Store!TypeOK
  <2>3. /\ todo' \in [Tasks -> Seq(Store!Op)] /\ calling' \in [Tasks -> BOOLEAN]
        /\ target' \in [Tasks -> Ids \cup {None}] /\ Busy' /\ TargetsOwn'
    BY <1>0, <2>1, EndFacts
  <2>4. Store!RoundTrip' /\ AliasesOwn'
    BY <1>0, <2>1, SameTable
  <2>5. Store!TypeOK'
    BY <2>1, <2>2, <2>3 DEF Store!TypeOK, Store!aliases
  <2>. QED BY <2>3, <2>4, <2>5
<1>4. ASSUME NEW t \in Tasks, Store!PutReturns(t) PROVE StoreInv'
  <2> DEFINE s == Store!Current(t).slot
  <2>1. todo[t] # <<>> /\ s \in Store!Slots
    BY <1>4, CurrentFacts DEF Store!PutReturns, Store!InFlight, Busy
  <2>2. PICK id \in Ids : Store!StoredAs(t, id) /\ Store!RememberAlias(s, id)
    BY <1>4 DEF Store!PutReturns
  <2>3. Store!NextOp(t) /\ throws' = throws /\ registry' = registry
    BY <1>4 DEF Store!PutReturns
  <2>4. /\ memories' \subseteq Ids
        /\ putFor' \in [Ids -> SUBSET Store!Slots] /\ s \in putFor'[id]
        /\ \A i \in Ids : putFor[i] \subseteq putFor'[i]
    BY <2>1, <2>2, StoredFacts
  <2>. HIDE DEF s
  <2>6. /\ Store!IsOrder(aliasOrder', Store!Slots, MaxAliasEntries)
        /\ aliasOf' \in [Store!Slots -> Ids \cup {None}]
        /\ owed' \in [Store!Slots -> Ids \cup {None}]
        /\ \A x \in Store!Slots : aliasOf'[x] # None <=> x \in Store!Range(aliasOrder')
        /\ \A x \in Store!Slots : aliasOf'[x] \in {None, aliasOf[x]} \/ (x = s /\ aliasOf'[x] = id)
        /\ \A x \in Store!Slots : owed'[x] # None =>
             IF x = s THEN /\ owed'[x] = id
                           /\ aliasOf'[x] = id \/ (aliasOf'[x] = None /\ Store!KeyOf(x) = id)
             ELSE aliasOf'[x] = aliasOf[x] /\ owed'[x] = owed[x]
    BY <2>1, <2>2, RememberFacts
  <2>7. /\ todo' \in [Tasks -> Seq(Store!Op)] /\ calling' \in [Tasks -> BOOLEAN]
        /\ target' \in [Tasks -> Ids \cup {None}] /\ Busy' /\ TargetsOwn'
    BY <1>0, <2>1, <2>3, <2>4, EndFacts
  <2>8. Store!TypeOK'
    BY <2>3, <2>4, <2>6, <2>7 DEF Store!TypeOK
  <2>9. AliasesOwn'
    <3>. SUFFICES ASSUME NEW x \in Store!Slots, aliasOf'[x] # None PROVE x \in putFor'[aliasOf'[x]]
      BY DEF AliasesOwn
    <3>1. CASE x = s /\ aliasOf'[x] = id
      BY <2>4, <3>1
    <3>2. CASE aliasOf'[x] = aliasOf[x]
      <4>1. aliasOf[x] \in Ids /\ x \in putFor[aliasOf[x]]
        BY <3>2 DEF AliasesOwn, Store!TypeOK
      <4>. QED BY <2>4, <3>2, <4>1
    <3>. QED BY <2>6, <3>1, <3>2
  <2>10. Store!RoundTrip'
    <3>. SUFFICES ASSUME NEW x \in Store!Slots, owed'[x] # None PROVE Store!ResolveKey(x)' = owed'[x]
      BY DEF Store!RoundTrip
    <3>1. CASE x = s
      BY <1>0, <2>6, <3>1 DEF Store!ResolveKey, Store!AliasKey, Store!KeyOf
    <3>2. CASE x # s
      <4>1. aliasOf'[x] = aliasOf[x] /\ owed'[x] = owed[x]
        BY <2>6, <3>2
      <4>2. Store!ResolveKey(x)' = Store!ResolveKey(x)
        BY <4>1 DEF Store!ResolveKey, Store!AliasKey, Store!KeyOf
      <4>. QED BY <4>1, <4>2 DEF Store!RoundTrip
    <3>. QED BY <3>1, <3>2
  <2>. QED BY <2>7, <2>8, <2>9, <2>10
<1>5. ASSUME NEW t \in Tasks, Store!PutReturnsNoId(t) \/ Store!PutFails(t) PROVE StoreInv'
  <2>1. todo[t] # <<>> /\ Store!Current(t).slot \in Store!Slots
    BY <1>5, CurrentFacts DEF Store!PutReturnsNoId, Store!PutFails, Store!InFlight, Busy
  <2>2. /\ Store!NextOp(t) \/ Store!HandleError(t)
        /\ UNCHANGED <<throws, registry>> /\ UNCHANGED Store!aliases
        /\ owed' = owed \/ owed' = [owed EXCEPT ![Store!Current(t).slot] = None]
        /\ \/ UNCHANGED <<memories, putFor>>
           \/ \E id \in Store!Unused : Store!StoredAs(t, id)
    BY <1>5 DEF Store!PutReturnsNoId, Store!PutFails
  <2>3. /\ memories' \subseteq Ids
        /\ putFor' \in [Ids -> SUBSET Store!Slots]
        /\ \A i \in Ids : putFor[i] \subseteq putFor'[i]
    <3>1. CASE UNCHANGED <<memories, putFor>>
      BY <3>1 DEF Store!TypeOK
    <3>2. CASE \E id \in Store!Unused : Store!StoredAs(t, id)
      BY <2>1, <3>2, StoredFacts DEF Store!Unused
    <3>. QED BY <2>2, <3>1, <3>2
  <2>4. /\ owed' \in [Store!Slots -> Ids \cup {None}]
        /\ \A x \in Store!Slots : owed'[x] \in {owed[x], None}
    BY <2>1, <2>2 DEF Store!TypeOK
  <2>5. /\ todo' \in [Tasks -> Seq(Store!Op)] /\ calling' \in [Tasks -> BOOLEAN]
        /\ target' \in [Tasks -> Ids \cup {None}] /\ Busy' /\ TargetsOwn'
    BY <1>0, <2>1, <2>2, <2>3, EndFacts
  <2>6. Store!RoundTrip' /\ AliasesOwn'
    BY <1>0, <2>2, <2>3, <2>4, SameTable
  <2>7. Store!TypeOK'
    BY <2>2, <2>3, <2>4, <2>5 DEF Store!TypeOK, Store!aliases
  <2>. QED BY <2>5, <2>6, <2>7
<1>6. ASSUME NEW t \in Tasks, Store!DeleteReturns(t) \/ Store!DeleteFails(t) PROVE StoreInv'
  <2> DEFINE s == Store!Current(t).slot
  <2>1. todo[t] # <<>> /\ s \in Store!Slots
    BY <1>6, CurrentFacts DEF Store!DeleteReturns, Store!DeleteFails, Store!InFlight, Busy
  <2>2. /\ Store!NextOp(t) \/ Store!HandleError(t)
        /\ UNCHANGED <<throws, registry, putFor>>
        /\ memories' \subseteq memories
    BY <1>6 DEF Store!DeleteReturns, Store!DeleteFails
  <2>3. \/ UNCHANGED Store!aliases /\ owed' = owed
        \/ Store!ForgetAlias(s) /\ owed' = [owed EXCEPT ![s] = None]
    BY <1>6 DEF Store!DeleteReturns, Store!DeleteFails
  <2>. HIDE DEF s
  <2>4. /\ todo' \in [Tasks -> Seq(Store!Op)] /\ calling' \in [Tasks -> BOOLEAN]
        /\ target' \in [Tasks -> Ids \cup {None}] /\ Busy' /\ TargetsOwn'
    BY <1>0, <2>1, <2>2, EndFacts
  <2>5. CASE UNCHANGED Store!aliases /\ owed' = owed
    <3>1. Store!RoundTrip' /\ AliasesOwn'
      BY <1>0, <2>2, <2>5, SameTable
    <3>2. Store!TypeOK'
      BY <2>2, <2>4, <2>5 DEF Store!TypeOK, Store!aliases
    <3>. QED BY <2>4, <3>1, <3>2
  <2>6. CASE Store!ForgetAlias(s) /\ owed' = [owed EXCEPT ![s] = None]
    <3>1. /\ Store!IsOrder(aliasOrder', Store!Slots, MaxAliasEntries)
          /\ aliasOf' = [aliasOf EXCEPT ![s] = None]
          /\ \A x \in Store!Slots : aliasOf'[x] # None <=> x \in Store!Range(aliasOrder')
      BY <2>1, <2>6, ForgetFacts
    <3>2. Store!TypeOK'
      BY <2>1, <2>2, <2>4, <2>6, <3>1 DEF Store!TypeOK
    <3>3. \A x \in Store!Slots \ {s} : aliasOf'[x] = aliasOf[x] /\ owed'[x] = owed[x]
      BY <2>6, <3>1 DEF Store!TypeOK
    <3>4. aliasOf'[s] = None /\ owed'[s] = None
      BY <2>1, <2>6, <3>1 DEF Store!TypeOK
    <3>5. AliasesOwn'
      BY <2>2, <3>3, <3>4 DEF AliasesOwn
    <3>6. Store!RoundTrip'
      BY <3>3, <3>4 DEF Store!RoundTrip, Store!ResolveKey, Store!AliasKey, Store!KeyOf
    <3>. QED BY <2>4, <3>2, <3>5, <3>6
  <2>. QED BY <2>3, <2>5, <2>6
<1>7. CASE UNCHANGED storeVars
  <2>1. UNCHANGED Store!aliases /\ UNCHANGED <<throws, memories, registry, todo, target, calling, putFor, owed>>
    BY <1>7 DEF storeVars, Store!aliases
  <2>2. Store!RoundTrip' /\ AliasesOwn'
    BY <1>0, <2>1, SameTable
  <2>3. Store!TypeOK'
    BY <2>1 DEF Store!TypeOK, Store!aliases
  <2>4. Busy' /\ TargetsOwn'
    BY <2>1 DEF Busy, TargetsOwn, Store!Current, Store!KeyOf
  <2>. QED BY <2>2, <2>3, <2>4
<1>. QED BY <1>1, <1>2, <1>3, <1>4, <1>5, <1>6, <1>7 DEF Store!Next

\* A delete removes a memory of its own slot, or the one its caller named by id.
OwnDeletes == \A id \in memories \ memories' :
                \E t \in Tasks : /\ Store!InFlight(t, "delete")
                                 /\ \/ Store!Current(t).slot \in putFor[id]
                                    \/ Store!KeyOf(Store!Current(t).slot) = id

\* Every step deletes only what the slot owned, or the caller named.
LEMMA DeletesStep == ASSUME Store!StoreAssumption, StoreInv, [Store!Next]_storeVars PROVE [OwnDeletes]_storeVars
<1>. SUFFICES ASSUME Store!Next, NEW id \in memories, id \notin memories'
              PROVE  \E t \in Tasks : /\ Store!InFlight(t, "delete")
                                      /\ \/ Store!Current(t).slot \in putFor[id]
                                         \/ Store!KeyOf(Store!Current(t).slot) = id
  BY DEF OwnDeletes
<1>1. PICK t \in Tasks : Store!DeleteReturns(t) \/ Store!DeleteFails(t)
  BY DEF Store!Next, Store!Batch, Store!Execute, Store!ExecuteWithoutUser, Store!GetReturns, Store!GetFails, Store!PutReturns, Store!PutReturnsNoId, Store!PutFails,
     Store!StoredAs
<1>2. Store!InFlight(t, "delete") /\ id = target[t]
  BY <1>1 DEF Store!DeleteReturns, Store!DeleteFails
<1>3. id # None
  BY DEF StoreInv, Store!TypeOK, Store!StoreAssumption
<1>. QED BY <1>2, <1>3 DEF StoreInv, TargetsOwn

------------------------------------------------------------------------------
\* The memory nodes.

\* The orders of the instance are those of the library.
LEMMA MemoryLru ==
  /\ \A f : Memory!Range(f) = Range(f)
  /\ \A order, S, cap : Memory!IsOrder(order, S, cap) <=> IsOrder(order, S, cap)
  /\ \A order, x : Memory!Touch(order, x) = Touch(order, x)
  /\ \A order, x : Memory!Without(order, x) = Without(order, x)
  /\ \A order, cap : Memory!Newest(order, cap) = Newest(order, cap)
  /\ \A order, cap : Memory!Oldest(order, cap) = Oldest(order, cap)
<1>1. \A f : Memory!Range(f) = Range(f)
  BY DEF Memory!Range, Range
<1>2. \A order, S, cap : Memory!IsOrder(order, S, cap) <=> IsOrder(order, S, cap)
  BY DEF Memory!IsOrder, IsOrder
<1>3. /\ \A order, x : Memory!Touch(order, x) = Touch(order, x)
      /\ \A order, x : Memory!Without(order, x) = Without(order, x)
  BY DEF Memory!Touch, Touch, Memory!Without, Without, Memory!Place, Place
<1>4. \A order, cap : Memory!Newest(order, cap) = Newest(order, cap)
  BY DEF Memory!Newest, Newest
<1>5. \A order, cap : Memory!Oldest(order, cap) = Oldest(order, cap)
  BY <1>1, <1>4 DEF Memory!Oldest, Oldest
<1>. QED BY <1>1, <1>2, <1>3, <1>4, <1>5

\* A use of an entry by the memory nodes.
LEMMA MemoryUse ==
  ASSUME NEW S, NEW cap \in Nat \ {0}, NEW order, Memory!IsOrder(order, S, cap), NEW x \in S
  PROVE  /\ Memory!IsOrder(Memory!Newest(Memory!Touch(order, x), cap), S, cap)
         /\ x \in Memory!Range(Memory!Newest(Memory!Touch(order, x), cap))
         /\ Memory!Oldest(Memory!Touch(order, x), cap) \subseteq Memory!Range(order) \ {x}
         /\ Memory!Range(Memory!Newest(Memory!Touch(order, x), cap))
              = (Memory!Range(order) \cup {x}) \ Memory!Oldest(Memory!Touch(order, x), cap)
BY MemoryLru, UseFacts

\* The members of the orders of the memory nodes.
LEMMA MemoryMembers ==
  ASSUME NEW S, NEW cap, NEW order, Memory!IsOrder(order, S, cap)
  PROVE  Memory!Range(order) \subseteq S
BY MemoryLru, OrderMembers

Running(t) == node[t] \in {"recall", "searching", "model", "remember"}
IsUser(m) == m.kind \in {"user", "image"}

\* IdFacts grow along a transcript.
Grows(t) ==
  /\ \A i \in 1..Len(transcript[t]) : transcript[t][i].id <= said[t]
  /\ \A i, j \in 1..Len(transcript[t]) : i < j => transcript[t][i].id < transcript[t][j].id

\* A run is about the last message of the user, which neither table has met.
TurnOpen(t) ==
  Running(t) =>
    /\ Memory!LastUserIndex(transcript[t]) # 0
    /\ cursor[t] # None => cursor[t] < Memory!Anchor(t)
    /\ cached[t] # None => cached[t] <= Memory!Anchor(t)

CursorKnown(t) ==
  cursor[t] # None =>
    /\ cursor[t] <= said[t]
    /\ t \in cutOff \/ \E i \in 1..Len(transcript[t]) : transcript[t][i].id = cursor[t]

CacheCovers(t) ==
  /\ cached[t] # None => cached[t] <= said[t]
  /\ \A x \in searched[t] : cached[t] # None /\ x <= cached[t]

SentUpTo(t) ==
  t \notin forgotten =>
    /\ again[t] = {}
    /\ \A x \in submitted[t] : cursor[t] # None /\ x <= cursor[t]

Kept(t) ==
  cursor[t] # None =>
    \A m \in Memory!Range(transcript[t]) :
      m.id \in restart[t]..cursor[t] => Memory!ToChat(<<m>>) \subseteq submitted[t]

Matches(t) == node[t] = "model" /\ block[t] # None => block[t] = Memory!Anchor(t)

ThreadInv(t) ==
  Grows(t) /\ TurnOpen(t) /\ CursorKnown(t) /\ CacheCovers(t) /\ SentUpTo(t) /\ Kept(t)
  /\ Matches(t)

MemoryInv == Memory!TypeOK /\ ~researched /\ \A t \in Threads : ThreadInv(t)

\* Ids are positive numbers.
LEMMA IdFacts == Memory!MemoryAssumption => /\ \A x \in Memory!MsgIds : x \in Nat /\ x >= 1
                                 /\ None \notin Memory!MsgIds
                                 /\ \A t \in Threads : \A x \in 1..MaxMessages[t] : x \in Memory!MsgIds
BY DEF Memory!MsgIds, Memory!MemoryAssumption

\* Where the last message of the user stands.
LEMMA LastUserFacts ==
  ASSUME NEW ms \in Seq(Memory!Message)
  PROVE  /\ Memory!LastUserIndex(ms) \in 0..Len(ms)
         /\ Memory!LastUserIndex(ms) # 0 => IsUser(ms[Memory!LastUserIndex(ms)])
         /\ \A i \in 1..Len(ms) : IsUser(ms[i]) => Memory!LastUserIndex(ms) # 0 /\ i <= Memory!LastUserIndex(ms)
<1> DEFINE users == {i \in 1..Len(ms) : ms[i].kind \in {"user", "image"}}
<1>0. Len(ms) \in Nat
  OBVIOUS
<1>1. Memory!LastUserIndex(ms) = IF users = {} THEN 0 ELSE CHOOSE i \in users : \A j \in users : j <= i
  BY DEF Memory!LastUserIndex
<1>2. CASE users = {}
  BY <1>0, <1>1, <1>2 DEF IsUser
<1>3. CASE users # {}
  <2>1. \E m \in users : \A k \in users : k <= m
    BY <1>0, <1>3, GreatestNumber
  <2>. HIDE DEF users
  <2>2. Memory!LastUserIndex(ms) \in users /\ \A j \in users : j <= Memory!LastUserIndex(ms)
    BY <1>1, <1>3, <2>1
  <2>. QED BY <2>2 DEF users, IsUser
<1>. QED BY <1>2, <1>3

\* The last message of the user, by what follows it.
LEMMA LastUserIs ==
  ASSUME NEW ms \in Seq(Memory!Message), NEW k \in 1..Len(ms), IsUser(ms[k]),
         \A i \in 1..Len(ms) : IsUser(ms[i]) => i <= k
  PROVE  Memory!LastUserIndex(ms) = k
BY LastUserFacts

\* A transcript the user has not spoken in.
LEMMA NoUser ==
  ASSUME NEW ms \in Seq(Memory!Message), \A i \in 1..Len(ms) : ~IsUser(ms[i])
  PROVE  Memory!LastUserIndex(ms) = 0
BY LastUserFacts

\* What a message added at the end does to it.
LEMMA LastUserAppend ==
  ASSUME NEW ms \in Seq(Memory!Message), NEW m \in Memory!Message
  PROVE  /\ IsUser(m) => Memory!LastUserIndex(Append(ms, m)) = Len(ms) + 1
         /\ ~IsUser(m) => Memory!LastUserIndex(Append(ms, m)) = Memory!LastUserIndex(ms)
<1> DEFINE app == Append(ms, m)
<1>1. /\ app \in Seq(Memory!Message) /\ Len(app) = Len(ms) + 1 /\ app[Len(ms) + 1] = m
      /\ \A i \in 1..Len(ms) : app[i] = ms[i]
  OBVIOUS
<1>0. Len(ms) \in Nat
  OBVIOUS
<1>. HIDE DEF app
<1>2. CASE IsUser(m)
  <2>1. Len(ms) + 1 \in 1..Len(app) /\ \A i \in 1..Len(app) : IsUser(app[i]) => i <= Len(ms) + 1
    BY <1>0, <1>1
  <2>2. Memory!LastUserIndex(app) = Len(ms) + 1
    BY <1>1, <1>2, <2>1, LastUserIs
  <2>. QED BY <1>2, <2>2 DEF app
<1>3. CASE ~IsUser(m)
  <2>1. \A i \in 1..Len(app) : IsUser(app[i]) => i \in 1..Len(ms) /\ IsUser(ms[i])
    BY <1>0, <1>1, <1>3
  <2>2. CASE Memory!LastUserIndex(ms) = 0
    <3>1. \A i \in 1..Len(app) : ~IsUser(app[i])
      BY <2>1, <2>2, LastUserFacts
    <3>2. Memory!LastUserIndex(app) = 0
      BY <1>1, <3>1, NoUser
    <3>. QED BY <1>3, <2>2, <3>2 DEF app
  <2>3. CASE Memory!LastUserIndex(ms) # 0
    <3> DEFINE k == Memory!LastUserIndex(ms)
    <3>1. k \in 1..Len(ms) /\ IsUser(ms[k]) /\ \A i \in 1..Len(ms) : IsUser(ms[i]) => i <= k
      BY <2>3, LastUserFacts
    <3>. HIDE DEF k
    <3>2. k \in 1..Len(app) /\ IsUser(app[k]) /\ \A i \in 1..Len(app) : IsUser(app[i]) => i <= k
      BY <1>0, <1>1, <2>1, <3>1
    <3>3. Memory!LastUserIndex(app) = k
      BY <1>1, <3>2, LastUserIs
    <3>. QED BY <1>3, <3>3 DEF k, app
  <2>. QED BY <2>2, <2>3
<1>. QED BY <1>2, <1>3

\* Nothing was said and the tables are empty at first.
LEMMA MemoryInit == ASSUME Memory!MemoryAssumption, Memory!Init PROVE MemoryInv
<1>1. \A S : <<>> \in Seq(S) /\ Len(<<>>) = 0 /\ Memory!Range(<<>>) = {}
  BY DEF Memory!Range
<1>2. Memory!IsOrder(<<>>, Threads, MaxTracked)
  BY <1>1 DEF Memory!IsOrder, Memory!MemoryAssumption
<1>3. Memory!TypeOK
  <2>1. wrappers \in 0..MaxUnwrap + 1
    BY DEF Memory!Init, Memory!MemoryAssumption
  <2>2. \A t \in Threads : t \notin Memory!Range(cursorOrder) /\ t \notin Memory!Range(cacheOrder)
    BY <1>1 DEF Memory!Init
  <2>. QED BY <1>1, <1>2, <2>1, <2>2 DEF Memory!TypeOK, Memory!Init, Memory!Nodes
<1>4. ASSUME NEW t \in Threads PROVE ThreadInv(t)
  <2>1. /\ transcript[t] = <<>> /\ cursor[t] = None /\ cached[t] = None /\ node[t] = "idle"
        /\ submitted[t] = {} /\ again[t] = {} /\ searched[t] = {}
    BY DEF Memory!Init
  <2>. QED BY <1>1, <2>1 DEF ThreadInv, Grows, TurnOpen, Running, CursorKnown, CacheCovers,
         SentUpTo, Kept, Matches
<1>. QED BY <1>3, <1>4 DEF MemoryInv, Memory!Init

\* Whether a thread that another thread's step does not concern keeps its part:
\* its entries may only be dropped from the tables.
Untouched(t) ==
  /\ transcript'[t] = transcript[t] /\ said'[t] = said[t] /\ node'[t] = node[t]
  /\ block'[t] = block[t] /\ submitted'[t] = submitted[t] /\ again'[t] = again[t]
  /\ \/ /\ cursor'[t] = cursor[t] /\ restart'[t] = restart[t]
        /\ t \in cutOff' <=> t \in cutOff
        /\ t \in forgotten' <=> t \in forgotten
     \/ cursor'[t] = None /\ t \in forgotten'
  /\ \/ cached'[t] = cached[t] /\ searched'[t] = searched[t]
     \/ cached'[t] = None /\ searched'[t] = {}

\* What leaves a thread alone keeps its invariant.
LEMMA Frame ==
  ASSUME NEW t \in Threads, ThreadInv(t), Untouched(t)
  PROVE  ThreadInv(t)'
<1>1. Memory!Anchor(t)' = Memory!Anchor(t) /\ (Running(t) <=> Running(t)')
  BY DEF Untouched, Memory!Anchor, Running
<1>2. Grows(t)' /\ TurnOpen(t)' /\ Matches(t)'
  BY <1>1 DEF ThreadInv, Untouched, Grows, TurnOpen, Matches
<1>3. CursorKnown(t)'
  BY DEF ThreadInv, Untouched, CursorKnown
<1>4. CacheCovers(t)'
  BY DEF ThreadInv, Untouched, CacheCovers
<1>5. SentUpTo(t)'
  BY DEF ThreadInv, Untouched, SentUpTo
<1>6. Kept(t)'
  BY DEF ThreadInv, Untouched, Kept
<1>. QED BY <1>2, <1>3, <1>4, <1>5, <1>6 DEF ThreadInv

\* A message added to the transcript has the greatest id so far.
LEMMA SayFacts ==
  ASSUME Memory!MemoryAssumption, Memory!TypeOK, NEW t \in Threads, NEW kind \in Memory!Kinds, Memory!Say(t, kind), Grows(t)
  PROVE  /\ said[t] + 1 \in Memory!MsgIds /\ said[t] \in Nat
         /\ transcript' \in [Threads -> Seq(Memory!Message)] /\ said' \in [Threads -> Memory!MsgIds \cup {0}]
         /\ transcript'[t] = Append(transcript[t], [kind |-> kind, id |-> said[t] + 1])
         /\ [kind |-> kind, id |-> said[t] + 1] \in Memory!Message
         /\ said'[t] = said[t] + 1
         /\ \A u \in Threads \ {t} : transcript'[u] = transcript[u] /\ said'[u] = said[u]
         /\ Grows(t)'
<1>1. said[t] \in Nat /\ said[t] + 1 \in Memory!MsgIds
  <2>1. said[t] \in Nat /\ MaxMessages[t] \in Nat
    BY IdFacts DEF Memory!TypeOK, Memory!MemoryAssumption
  <2>2. said[t] + 1 \in 1..MaxMessages[t]
    BY <2>1 DEF Memory!Say
  <2>. QED BY <2>1, <2>2, IdFacts
<1> DEFINE m == [kind |-> kind, id |-> said[t] + 1]
<1>2. m \in Memory!Message /\ m.id = said[t] + 1
  BY <1>1 DEF Memory!Message
<1>. HIDE DEF m
<1>3. transcript' = [transcript EXCEPT ![t] = Append(@, m)] /\ said' = [said EXCEPT ![t] = @ + 1]
  BY DEF Memory!Say, m
<1>4. transcript \in [Threads -> Seq(Memory!Message)] /\ said \in [Threads -> Memory!MsgIds \cup {0}]
  BY DEF Memory!TypeOK
<1>5. transcript'[t] = Append(transcript[t], m) /\ said'[t] = said[t] + 1
  BY <1>3, <1>4
<1> DEFINE ms == transcript[t]
           app == Append(ms, m)
<1>6. /\ ms \in Seq(Memory!Message) /\ Len(ms) \in Nat
      /\ app \in Seq(Memory!Message) /\ Len(app) = Len(ms) + 1 /\ app[Len(ms) + 1] = m
      /\ \A i \in 1..Len(ms) : app[i] = ms[i]
  BY <1>2, <1>4
<1>7. Grows(t)'
  <2>1. \A i \in 1..Len(ms) : ms[i].id \in Nat /\ ms[i].id <= said[t]
    <3>1. \A i \in 1..Len(ms) : ms[i] \in Memory!Message
      BY <1>6
    <3>. QED BY <3>1, IdFacts DEF Memory!Message, Grows
  <2>. HIDE DEF app
  <2>2. ASSUME NEW i \in 1..Len(app) PROVE app[i].id <= said[t] + 1
    <3>1. CASE i = Len(ms) + 1
      BY <1>1, <1>2, <1>6, <3>1
    <3>2. CASE i \in 1..Len(ms)
      BY <1>1, <1>6, <2>1, <3>2
    <3>. QED BY <1>6, <3>1, <3>2
  <2>3. \A i, j \in 1..Len(app) : i < j => app[i].id < app[j].id
    <3>. SUFFICES ASSUME NEW i \in 1..Len(app), NEW j \in 1..Len(app), i < j
                  PROVE  app[i].id < app[j].id
      OBVIOUS
    <3>1. CASE j <= Len(ms)
      <4>1. i \in 1..Len(ms) /\ j \in 1..Len(ms)
        BY <1>6, <3>1
      <4>. QED BY <1>6, <4>1 DEF Grows
    <3>2. CASE j = Len(ms) + 1
      <4>1. i \in 1..Len(ms) /\ app[j].id = said[t] + 1
        BY <1>2, <1>6, <3>2
      <4>2. app[i].id = ms[i].id /\ ms[i].id \in Nat /\ ms[i].id <= said[t]
        BY <1>6, <2>1, <4>1
      <4>. QED BY <1>1, <4>1, <4>2
    <3>. QED BY <1>6, <3>1, <3>2
  <2>4. transcript'[t] = app
    BY <1>5 DEF app
  <2>. QED BY <1>5, <2>2, <2>3, <2>4 DEF Grows
<1>8. transcript' \in [Threads -> Seq(Memory!Message)] /\ said' \in [Threads -> Memory!MsgIds \cup {0}]
  BY <1>1, <1>3, <1>4, <1>6
<1>9. \A u \in Threads \ {t} : transcript'[u] = transcript[u] /\ said'[u] = said[u]
  BY <1>3, <1>4
<1>. QED BY <1>1, <1>2, <1>5, <1>7, <1>8, <1>9 DEF m

\* What the history and the tables say of a thread holds on when a message is added.
LEMMA SayKeeps ==
  ASSUME Memory!MemoryAssumption, Memory!TypeOK, NEW t \in Threads, NEW kind \in Memory!Kinds, Memory!Say(t, kind),
         ThreadInv(t), UNCHANGED <<Memory!cursors, Memory!cache, Memory!sendHist, Memory!recallHist>>
  PROVE  Grows(t)' /\ CursorKnown(t)' /\ CacheCovers(t)' /\ SentUpTo(t)' /\ Kept(t)'
<1> DEFINE m == [kind |-> kind, id |-> said[t] + 1]
           ms == transcript[t]
<1>1. /\ said[t] \in Nat
      /\ transcript'[t] = Append(ms, m)
      /\ m \in Memory!Message
      /\ said'[t] = said[t] + 1
      /\ Grows(t)'
  BY SayFacts DEF ThreadInv
<1>2. UNCHANGED <<cursor, cached, submitted, again, forgotten, cutOff, restart, searched>>
  BY DEF Memory!cursors, Memory!cache, Memory!sendHist, Memory!recallHist
<1>3. cursor[t] # None => cursor[t] \in Nat /\ cursor[t] <= said[t]
  BY IdFacts DEF Memory!TypeOK, ThreadInv, CursorKnown
<1>4. cached[t] # None => cached[t] \in Nat /\ cached[t] <= said[t]
  BY IdFacts DEF Memory!TypeOK, ThreadInv, CacheCovers
<1>5. ms \in Seq(Memory!Message) /\ m.id = said[t] + 1
  BY DEF Memory!TypeOK
<1>6. /\ Len(ms) \in Nat /\ Len(Append(ms, m)) = Len(ms) + 1
      /\ \A i \in 1..Len(ms) : Append(ms, m)[i] = ms[i] /\ i \in 1..Len(Append(ms, m))
      /\ Append(ms, m)[Len(ms) + 1] = m
  BY <1>1, <1>5
<1>7. Memory!Range(Append(ms, m)) \subseteq Memory!Range(ms) \cup {m}
  <2>1. DOMAIN Append(ms, m) = 1..(Len(ms) + 1) /\ DOMAIN ms = 1..Len(ms)
    BY <1>1, <1>5
  <2>2. \A i \in 1..(Len(ms) + 1) : i \in 1..Len(ms) \/ i = Len(ms) + 1
    BY <1>6
  <2>. QED BY <1>6, <2>1, <2>2 DEF Memory!Range
<1>. HIDE DEF m, ms
<1>8. CursorKnown(t)'
  <2>1. cursor[t] # None => t \in cutOff \/ \E i \in 1..Len(ms) : ms[i].id = cursor[t]
    BY DEF ThreadInv, CursorKnown, ms
  <2>. QED BY <1>1, <1>2, <1>3, <1>6, <2>1 DEF CursorKnown
<1>9. CacheCovers(t)'
  BY <1>1, <1>2, <1>4 DEF ThreadInv, CacheCovers
<1>10. SentUpTo(t)'
  BY <1>2 DEF ThreadInv, SentUpTo
<1>11. Kept(t)'
  <2>0. restart[t] \in Nat
    BY IdFacts DEF Memory!TypeOK
  <2>1. \A x \in Memory!Range(transcript'[t]) : x \in Memory!Range(ms) \/ x = m
    BY <1>1, <1>7
  <2>2. cursor[t] # None => m.id \notin restart[t]..cursor[t]
    BY <1>1, <1>3, <1>5, <2>0
  <2>. QED BY <1>2, <2>1, <2>2 DEF ThreadInv, Kept, ms
<1>. QED BY <1>1, <1>8, <1>9, <1>10, <1>11

\* A run opens a turn that is later than all either table knows.
LEMMA InvokeKeeps ==
  ASSUME Memory!MemoryAssumption, MemoryInv, NEW t \in Threads, Memory!Invoke(t)
  PROVE  MemoryInv'
<1>0. Memory!TypeOK /\ ThreadInv(t)
  BY DEF MemoryInv
<1>1. PICK kind \in {"user", "image"} : Memory!Say(t, kind)
  BY DEF Memory!Invoke
<1>2. /\ node' = [node EXCEPT ![t] = "recall"]
      /\ UNCHANGED <<Memory!config, Memory!cursors, Memory!cache, block, Memory!sendHist, Memory!recallHist>>
  BY DEF Memory!Invoke
<1>3. kind \in Memory!Kinds
  BY DEF Memory!Kinds
<1> DEFINE m == [kind |-> kind, id |-> said[t] + 1]
           ms == transcript[t]
<1>4. /\ said[t] \in Nat
      /\ transcript' \in [Threads -> Seq(Memory!Message)] /\ said' \in [Threads -> Memory!MsgIds \cup {0}]
      /\ transcript'[t] = Append(ms, m)
      /\ m \in Memory!Message
      /\ \A u \in Threads \ {t} : transcript'[u] = transcript[u] /\ said'[u] = said[u]
  BY <1>0, <1>1, <1>3, SayFacts DEF ThreadInv
<1>5. Grows(t)' /\ CursorKnown(t)' /\ CacheCovers(t)' /\ SentUpTo(t)' /\ Kept(t)'
  BY <1>0, <1>1, <1>2, <1>3, SayKeeps
<1>6. node' \in [Threads -> Memory!Nodes] /\ node'[t] = "recall" /\ \A u \in Threads \ {t} : node'[u] = node[u]
  BY <1>0, <1>2 DEF Memory!TypeOK, Memory!Nodes
<1>7. Memory!TypeOK'
  BY <1>0, <1>2, <1>4, <1>6 DEF Memory!TypeOK, Memory!config, Memory!cursors, Memory!cache, Memory!sendHist, Memory!recallHist
<1>8. TurnOpen(t)' /\ Matches(t)'
  <2>1. ms \in Seq(Memory!Message) /\ Append(ms, m)[Len(ms) + 1] = m /\ IsUser(m) /\ m.id = said[t] + 1
    BY <1>0, <1>4 DEF Memory!TypeOK, IsUser
  <2>2. Memory!LastUserIndex(Append(ms, m)) = Len(ms) + 1 /\ Len(ms) \in Nat
    BY <1>4, <2>1, LastUserAppend
  <2>3. Memory!Anchor(t)' = said[t] + 1
    BY <1>4, <2>1, <2>2 DEF Memory!Anchor
  <2>4. cursor'[t] = cursor[t] /\ cached'[t] = cached[t]
    BY <1>2 DEF Memory!cursors, Memory!cache
  <2>5. cursor[t] # None => cursor[t] \in Nat /\ cursor[t] <= said[t]
    BY <1>0, IdFacts DEF Memory!TypeOK, ThreadInv, CursorKnown
  <2>6. cached[t] # None => cached[t] \in Nat /\ cached[t] <= said[t]
    BY <1>0, IdFacts DEF Memory!TypeOK, ThreadInv, CacheCovers
  <2>7. Memory!LastUserIndex(transcript'[t]) # 0
    BY <1>4, <2>2
  <2>. HIDE DEF m, ms
  <2>8. TurnOpen(t)'
    BY <1>4, <2>3, <2>4, <2>5, <2>6, <2>7 DEF TurnOpen
  <2>. QED BY <1>6, <2>8 DEF Matches
<1>9. ASSUME NEW u \in Threads \ {t} PROVE ThreadInv(u)'
  <2>1. Untouched(u)
    BY <1>2, <1>4, <1>6 DEF Untouched, Memory!cursors, Memory!cache, Memory!sendHist, Memory!recallHist
  <2>. QED BY <2>1, Frame DEF MemoryInv
<1>10. ThreadInv(t)'
  BY <1>5, <1>8 DEF ThreadInv
<1>11. ~researched'
  BY <1>2 DEF MemoryInv, Memory!recallHist
<1>. QED BY <1>7, <1>9, <1>10, <1>11 DEF MemoryInv

\* A step that leaves the turn a thread is in as it is.
SameTurn(t) ==
  /\ Memory!LastUserIndex(transcript'[t]) = Memory!LastUserIndex(transcript[t])
  /\ Memory!LastUserIndex(transcript[t]) # 0 => Memory!Anchor(t)' = Memory!Anchor(t)

\* A message that is not the user's does not begin a turn.
LEMMA SameTurnAppend ==
  ASSUME NEW t \in Threads, NEW m \in Memory!Message, transcript[t] \in Seq(Memory!Message),
         transcript'[t] = Append(transcript[t], m), ~IsUser(m)
  PROVE  SameTurn(t)
<1> DEFINE ms == transcript[t]
           k == Memory!LastUserIndex(ms)
<1>1. Memory!LastUserIndex(Append(ms, m)) = k
  BY LastUserAppend
<1>2. k # 0 => k \in 1..Len(ms)
  BY LastUserFacts
<1>3. \A i \in 1..Len(ms) : Append(ms, m)[i] = ms[i]
  OBVIOUS
<1>. QED BY <1>1, <1>2, <1>3 DEF SameTurn, Memory!Anchor

\* A step that only ends the run.
Quiet(t) ==
  /\ node' = [node EXCEPT ![t] = "idle"]
  /\ UNCHANGED <<awaitPersist, wrappers, transcript, said, cursorOrder, cursor, cacheOrder, cached,
                 block, submitted, again, forgotten, cutOff, restart, searched, researched>>

\* A step that only brings its thread to rest.
LEMMA QuietKeeps ==
  ASSUME Memory!MemoryAssumption, MemoryInv, NEW t \in Threads, Quiet(t)
  PROVE  MemoryInv'
<1>0. Memory!TypeOK /\ ThreadInv(t)
  BY DEF MemoryInv
<1>1. node' \in [Threads -> Memory!Nodes] /\ node'[t] = "idle" /\ \A u \in Threads \ {t} : node'[u] = node[u]
  BY <1>0 DEF Quiet, Memory!TypeOK, Memory!Nodes
<1>2. Memory!TypeOK'
  BY <1>0, <1>1 DEF Quiet, Memory!TypeOK
<1>3. ASSUME NEW u \in Threads \ {t} PROVE ThreadInv(u)'
  <2>1. Untouched(u)
    BY <1>1 DEF Quiet, Untouched
  <2>. QED BY <2>1, Frame DEF MemoryInv
<1>4. TurnOpen(t)' /\ Matches(t)'
  BY <1>1 DEF TurnOpen, Running, Matches
<1>5. Grows(t)' /\ CursorKnown(t)' /\ CacheCovers(t)' /\ SentUpTo(t)' /\ Kept(t)'
  BY <1>0 DEF Quiet, ThreadInv, Grows, CursorKnown, CacheCovers, SentUpTo, Kept
<1>. QED BY <1>2, <1>3, <1>4, <1>5 DEF Quiet, MemoryInv, ThreadInv

\* The model's and the tools' messages leave the turn as it is.
LEMMA TalkKeeps ==
  ASSUME Memory!MemoryAssumption, MemoryInv, NEW t \in Threads, NEW kind \in Memory!Kinds \ {"user", "image"},
         NEW next \in {"remember", "recall"}, Running(t), Memory!Say(t, kind),
         node' = [node EXCEPT ![t] = next],
         UNCHANGED <<Memory!config, Memory!cursors, Memory!cache, block, Memory!sendHist, Memory!recallHist>>
  PROVE  MemoryInv'
<1>0. Memory!TypeOK /\ ThreadInv(t)
  BY DEF MemoryInv
<1> DEFINE m == [kind |-> kind, id |-> said[t] + 1]
           ms == transcript[t]
<1>1. /\ said[t] \in Nat
      /\ transcript' \in [Threads -> Seq(Memory!Message)] /\ said' \in [Threads -> Memory!MsgIds \cup {0}]
      /\ transcript'[t] = Append(ms, m)
      /\ m \in Memory!Message
      /\ \A u \in Threads \ {t} : transcript'[u] = transcript[u] /\ said'[u] = said[u]
  BY <1>0, SayFacts DEF ThreadInv
<1>2. Grows(t)' /\ CursorKnown(t)' /\ CacheCovers(t)' /\ SentUpTo(t)' /\ Kept(t)'
  BY <1>0, SayKeeps
<1>3. node' \in [Threads -> Memory!Nodes] /\ node'[t] = next /\ \A u \in Threads \ {t} : node'[u] = node[u]
  BY <1>0 DEF Memory!TypeOK, Memory!Nodes
<1>4. Memory!TypeOK'
  BY <1>0, <1>1, <1>3 DEF Memory!TypeOK, Memory!config, Memory!cursors, Memory!cache, Memory!sendHist, Memory!recallHist
<1>5. TurnOpen(t)' /\ Matches(t)'
  <2>1. ~IsUser(m) /\ ms \in Seq(Memory!Message)
    BY <1>0 DEF Memory!TypeOK, IsUser
  <2>2. SameTurn(t)
    BY <1>1, <2>1, SameTurnAppend
  <2>3. cursor'[t] = cursor[t] /\ cached'[t] = cached[t]
    BY DEF Memory!cursors, Memory!cache
  <2>. HIDE DEF m, ms
  <2>4. TurnOpen(t)'
    BY <1>0, <2>2, <2>3 DEF ThreadInv, TurnOpen, SameTurn
  <2>. QED BY <1>3, <2>4 DEF Matches
<1>6. ASSUME NEW u \in Threads \ {t} PROVE ThreadInv(u)'
  <2>1. Untouched(u)
    BY <1>1, <1>3 DEF Untouched, Memory!cursors, Memory!cache, Memory!sendHist, Memory!recallHist
  <2>. QED BY <2>1, Frame DEF MemoryInv
<1>7. ThreadInv(t)'
  BY <1>2, <1>5 DEF ThreadInv
<1>8. ~researched'
  BY DEF MemoryInv, Memory!recallHist
<1>. QED BY <1>4, <1>6, <1>7, <1>8 DEF MemoryInv

\* The model answers.
LEMMA ReplyKeeps ==
  ASSUME Memory!MemoryAssumption, MemoryInv, NEW t \in Threads, Memory!ModelReplies(t)
  PROVE  MemoryInv'
<1>1. PICK kind \in {"assistant", "toolCall"} : Memory!Say(t, kind)
  BY DEF Memory!ModelReplies
<1>2. kind \in Memory!Kinds \ {"user", "image"}
  BY DEF Memory!Kinds
<1>3. Running(t)
  BY DEF Memory!ModelReplies, Running
<1>. QED BY <1>1, <1>2, <1>3, TalkKeeps DEF Memory!ModelReplies

\* The remember node, when it has nothing to send.
LEMMA SkipKeeps ==
  ASSUME Memory!MemoryAssumption, MemoryInv, NEW t \in Threads, Memory!RememberSkips(t)
  PROVE  MemoryInv'
<1>1. UNCHANGED <<Memory!config, Memory!cursors, Memory!cache, block, Memory!sendHist, Memory!recallHist>> /\ Running(t)
  BY DEF Memory!RememberSkips, Running
<1>2. CASE Memory!Say(t, "tool") /\ node' = [node EXCEPT ![t] = "recall"]
  <2>1. "tool" \in Memory!Kinds \ {"user", "image"}
    BY DEF Memory!Kinds
  <2>. QED BY <1>1, <1>2, <2>1, TalkKeeps
<1>3. CASE node' = [node EXCEPT ![t] = "idle"] /\ UNCHANGED <<transcript, said>>
  <2>1. Quiet(t)
    BY <1>1, <1>3 DEF Quiet, Memory!config, Memory!cursors, Memory!cache, Memory!sendHist, Memory!recallHist
  <2>. QED BY <2>1, QuietKeeps
<1>. QED BY <1>2, <1>3 DEF Memory!RememberSkips

\* A run dies, or its write ends.
LEMMA EndKeeps ==
  ASSUME Memory!MemoryAssumption, MemoryInv, NEW t \in Threads, Memory!RunDies(t) \/ Memory!WriteEnds(t)
  PROVE  MemoryInv'
<1>1. Quiet(t)
  BY DEF Memory!RunDies, Memory!WriteEnds, Quiet, Memory!config, Memory!cursors, Memory!cache, Memory!sendHist, Memory!recallHist
<1>. QED BY <1>1, QuietKeeps

\* recallNode and its search: only the node, the block and the cache move.
Recalls(t) ==
  /\ node' \in [Threads -> Memory!Nodes] /\ \A u \in Threads \ {t} : node'[u] = node[u]
  /\ Running(t)
  /\ block' \in [Threads -> Memory!MsgIds \cup {None}] /\ \A u \in Threads \ {t} : block'[u] = block[u]
  /\ node'[t] = "model" => block'[t] \in {None, Memory!Anchor(t)}
  /\ UNCHANGED <<Memory!config, transcript, said, Memory!cursors, Memory!sendHist>>

\* A recall that leaves the cache as it is.
LEMMA RecallsKeeps ==
  ASSUME Memory!MemoryAssumption, MemoryInv, NEW t \in Threads, Recalls(t), UNCHANGED <<Memory!cache, searched>>,
         researched' = FALSE
  PROVE  MemoryInv'
<1>0. Memory!TypeOK /\ ThreadInv(t)
  BY DEF MemoryInv
<1>1. Memory!TypeOK'
  BY <1>0 DEF Memory!TypeOK, Recalls, Memory!config, Memory!cursors, Memory!cache, Memory!sendHist
<1>2. ASSUME NEW u \in Threads \ {t} PROVE ThreadInv(u)'
  <2>1. Untouched(u)
    BY DEF Recalls, Untouched, Memory!cursors, Memory!cache, Memory!sendHist
  <2>. QED BY <2>1, Frame DEF MemoryInv
<1>3. Memory!Anchor(t)' = Memory!Anchor(t)
  BY DEF Recalls, Memory!Anchor
<1>4. Matches(t)'
  BY <1>3 DEF Recalls, Matches
<1>5. TurnOpen(t)'
  BY <1>0, <1>3 DEF Recalls, TurnOpen, ThreadInv, Memory!cursors, Memory!cache
<1>6. Grows(t)' /\ CursorKnown(t)' /\ CacheCovers(t)' /\ SentUpTo(t)' /\ Kept(t)'
  BY <1>0 DEF Recalls, ThreadInv, Grows, CursorKnown, CacheCovers, SentUpTo, Kept, Memory!cursors, Memory!cache,
       Memory!sendHist
<1>7. ThreadInv(t)'
  BY <1>4, <1>5, <1>6 DEF ThreadInv
<1>. QED BY <1>1, <1>2, <1>7 DEF MemoryInv

\* While a run is under way there is a message of the user that it is about.
LEMMA AnchorFacts ==
  ASSUME Memory!MemoryAssumption, MemoryInv, NEW t \in Threads, Running(t)
  PROVE  /\ Memory!LastUserIndex(transcript[t]) \in 1..Len(transcript[t])
         /\ transcript[t] \in Seq(Memory!Message)
         /\ Memory!Anchor(t) \in Memory!MsgIds /\ Memory!Anchor(t) <= said[t]
<1>1. transcript[t] \in Seq(Memory!Message) /\ Len(transcript[t]) \in Nat
  BY DEF MemoryInv, Memory!TypeOK
<1>2. Memory!LastUserIndex(transcript[t]) \in 1..Len(transcript[t])
  BY <1>1, LastUserFacts DEF MemoryInv, ThreadInv, TurnOpen
<1>3. transcript[t][Memory!LastUserIndex(transcript[t])] \in Memory!Message
  BY <1>1, <1>2
<1>. QED BY <1>1, <1>2, <1>3 DEF Memory!Anchor, Memory!Message, MemoryInv, ThreadInv, Grows

\* An injection is of the block recalled for this message.
LEMMA InjectKeeps ==
  ASSUME Memory!MemoryAssumption, MemoryInv, NEW t \in Threads, Memory!RecallInjects(t)
  PROVE  MemoryInv'
<1>1. Running(t)
  BY DEF Memory!RecallInjects, Running
<1>2. Memory!Anchor(t) \in Memory!MsgIds
  BY <1>1, AnchorFacts
<1>3. block' = [block EXCEPT ![t] = Memory!Anchor(t)] \/ block' = [block EXCEPT ![t] = None]
  BY DEF Memory!RecallInjects, Memory!CachedBlock
<1>4. block' \in [Threads -> Memory!MsgIds \cup {None}] /\ block'[t] \in {None, Memory!Anchor(t)}
      /\ \A u \in Threads \ {t} : block'[u] = block[u]
  <2>1. block \in [Threads -> Memory!MsgIds \cup {None}]
    BY DEF MemoryInv, Memory!TypeOK
  <2>. QED BY <1>2, <1>3, <2>1
<1>5. node' \in [Threads -> Memory!Nodes] /\ \A u \in Threads \ {t} : node'[u] = node[u]
  BY DEF Memory!RecallInjects, MemoryInv, Memory!TypeOK, Memory!Nodes
<1>6. UNCHANGED <<Memory!config, transcript, said, Memory!cursors, Memory!cache, Memory!sendHist, Memory!recallHist>>
  BY DEF Memory!RecallInjects
<1>7. Recalls(t)
  BY <1>1, <1>4, <1>5, <1>6 DEF Recalls
<1>8. researched' = FALSE
  BY <1>6 DEF Memory!recallHist, MemoryInv, Memory!TypeOK
<1>. QED BY <1>6, <1>7, <1>8, RecallsKeeps DEF Memory!recallHist

\* A search goes out only for a message none has answered: the cache would have it.
LEMMA SearchKeeps ==
  ASSUME Memory!MemoryAssumption, MemoryInv, NEW t \in Threads, Memory!RecallSearches(t)
  PROVE  MemoryInv'
<1>1. Running(t) /\ ~Memory!CachedBlock(t)
  BY DEF Memory!RecallSearches, Running
<1>2. Memory!Anchor(t) \in Memory!MsgIds
  BY <1>1, AnchorFacts
<1>3. Memory!Anchor(t) \notin searched[t]
  <2>. SUFFICES ASSUME Memory!Anchor(t) \in searched[t] PROVE FALSE
    OBVIOUS
  <2>1. cached[t] # None /\ cached[t] \in Memory!MsgIds /\ Memory!Anchor(t) <= cached[t] /\ cached[t] <= Memory!Anchor(t)
    BY <1>1 DEF MemoryInv, Memory!TypeOK, ThreadInv, CacheCovers, TurnOpen
  <2>2. cached[t] = Memory!Anchor(t)
    BY <1>2, <2>1, IdFacts
  <2>. QED BY <1>1, <2>1, <2>2 DEF Memory!CachedBlock
<1>4. node' \in [Threads -> Memory!Nodes] /\ node'[t] = "searching" /\ \A u \in Threads \ {t} : node'[u] = node[u]
  BY DEF Memory!RecallSearches, MemoryInv, Memory!TypeOK, Memory!Nodes
<1>5. UNCHANGED <<Memory!config, transcript, said, Memory!cursors, Memory!cache, block, Memory!sendHist, searched>>
  BY DEF Memory!RecallSearches
<1>6. researched' = FALSE
  BY <1>3 DEF Memory!RecallSearches, MemoryInv, Memory!TypeOK
<1>7. Recalls(t)
  BY <1>1, <1>4, <1>5 DEF Recalls, MemoryInv, Memory!TypeOK
<1>. QED BY <1>5, <1>6, <1>7, RecallsKeeps

\* A search that fails.
LEMMA SearchFailKeeps ==
  ASSUME Memory!MemoryAssumption, MemoryInv, NEW t \in Threads, Memory!SearchFails(t)
  PROVE  MemoryInv'
<1>1. Running(t)
  BY DEF Memory!SearchFails, Running
<1>4. block' \in [Threads -> Memory!MsgIds \cup {None}] /\ block'[t] = None
      /\ \A u \in Threads \ {t} : block'[u] = block[u]
  BY DEF MemoryInv, Memory!TypeOK, Memory!SearchFails
<1>5. node' \in [Threads -> Memory!Nodes] /\ \A u \in Threads \ {t} : node'[u] = node[u]
  BY DEF Memory!SearchFails, MemoryInv, Memory!TypeOK, Memory!Nodes
<1>6. UNCHANGED <<Memory!config, transcript, said, Memory!cursors, Memory!cache, Memory!sendHist, Memory!recallHist>>
  BY DEF Memory!SearchFails
<1>7. Recalls(t)
  BY <1>1, <1>4, <1>5, <1>6 DEF Recalls
<1>8. researched' = FALSE
  BY <1>6 DEF Memory!recallHist, MemoryInv, Memory!TypeOK
<1>. QED BY <1>6, <1>7, <1>8, RecallsKeeps DEF Memory!recallHist

\* The cache gets the newest anchor, and a thread it drops is searched anew.
LEMMA ReturnKeeps ==
  ASSUME Memory!MemoryAssumption, MemoryInv, NEW t \in Threads, Memory!SearchReturns(t)
  PROVE  MemoryInv'
<1> DEFINE gone == Memory!Oldest(Memory!Touch(cacheOrder, t), MaxTracked)
           order == Memory!Newest(Memory!Touch(cacheOrder, t), MaxTracked)
<1>0. Memory!TypeOK /\ ThreadInv(t) /\ Running(t)
  BY DEF MemoryInv, Memory!SearchReturns, Running
<1>1. Memory!Anchor(t) \in Memory!MsgIds /\ Memory!Anchor(t) <= said[t]
  BY <1>0, AnchorFacts
<1>2. MaxTracked \in Nat \ {0} /\ None \notin Memory!MsgIds
  BY DEF Memory!MemoryAssumption
<1>3. /\ Memory!IsOrder(order, Threads, MaxTracked) /\ t \in Memory!Range(order)
      /\ gone \subseteq Memory!Range(cacheOrder) \ {t}
      /\ Memory!Range(order) = (Memory!Range(cacheOrder) \cup {t}) \ gone
  <2>1. Memory!IsOrder(cacheOrder, Threads, MaxTracked)
    BY <1>0 DEF Memory!TypeOK
  <2>. QED BY <1>2, <2>1, MemoryUse
<1>4. /\ cacheOrder' = order
      /\ cached' = [u \in Threads |-> IF u \in gone THEN None
                                     ELSE IF u = t THEN Memory!Anchor(t) ELSE cached[u]]
      /\ searched' = [u \in Threads |-> IF u \in gone THEN {}
                                       ELSE IF u = t THEN searched[t] \cup {Memory!Anchor(t)}
                                       ELSE searched[u]]
      /\ block' = [block EXCEPT ![t] = Memory!Anchor(t)]
      /\ node' = [node EXCEPT ![t] = "model"]
      /\ UNCHANGED <<Memory!config, transcript, said, Memory!cursors, Memory!sendHist, researched>>
  BY DEF Memory!SearchReturns
<1>. HIDE DEF gone, order
<1>5. /\ node' \in [Threads -> Memory!Nodes] /\ node'[t] = "model" /\ \A u \in Threads \ {t} : node'[u] = node[u]
      /\ block' \in [Threads -> Memory!MsgIds \cup {None}] /\ block'[t] = Memory!Anchor(t)
      /\ \A u \in Threads \ {t} : block'[u] = block[u]
  BY <1>0, <1>1, <1>4 DEF Memory!TypeOK, Memory!Nodes
<1>6. /\ cached' \in [Threads -> Memory!MsgIds \cup {None}]
      /\ searched' \in [Threads -> SUBSET Memory!MsgIds]
      /\ cached'[t] = Memory!Anchor(t) /\ searched'[t] = searched[t] \cup {Memory!Anchor(t)}
      /\ \A u \in Threads \ {t} : \/ u \notin gone /\ cached'[u] = cached[u] /\ searched'[u] = searched[u]
                                  \/ u \in gone /\ cached'[u] = None /\ searched'[u] = {}
  BY <1>0, <1>1, <1>3, <1>4 DEF Memory!TypeOK
<1>7. \A u \in Threads : cached'[u] # None <=> u \in Memory!Range(cacheOrder')
  BY <1>0, <1>1, <1>2, <1>3, <1>4, <1>6 DEF Memory!TypeOK
<1>8. Memory!TypeOK'
  BY <1>0, <1>3, <1>4, <1>5, <1>6, <1>7 DEF Memory!TypeOK, Memory!config, Memory!cursors, Memory!sendHist
<1>9. ASSUME NEW u \in Threads \ {t} PROVE ThreadInv(u)'
  <2>1. Untouched(u)
    BY <1>4, <1>5, <1>6 DEF Untouched, Memory!cursors, Memory!sendHist
  <2>. QED BY <2>1, Frame DEF MemoryInv
<1>10. Memory!Anchor(t)' = Memory!Anchor(t)
  BY <1>4 DEF Memory!Anchor
<1>11. CacheCovers(t)'
  <2>1. ASSUME NEW x \in searched[t] PROVE x <= Memory!Anchor(t)
    <3>1. cached[t] # None /\ x <= cached[t] /\ cached[t] <= Memory!Anchor(t) /\ cached[t] \in Memory!MsgIds /\ x \in Memory!MsgIds
      BY <1>0 DEF ThreadInv, CacheCovers, TurnOpen, Memory!TypeOK
    <3>. QED BY <1>1, <3>1, IdFacts
  <2>2. Memory!Anchor(t) <= Memory!Anchor(t)
    BY <1>1, IdFacts
  <2>. QED BY <1>1, <1>2, <1>4, <1>6, <2>1, <2>2 DEF CacheCovers
<1>12. TurnOpen(t)' /\ Matches(t)'
  <2>1. Memory!Anchor(t) <= Memory!Anchor(t)
    BY <1>1, IdFacts
  <2>. QED BY <1>0, <1>4, <1>5, <1>6, <1>10, <2>1 DEF TurnOpen, Matches, ThreadInv, Memory!cursors
<1>13. Grows(t)' /\ CursorKnown(t)' /\ SentUpTo(t)' /\ Kept(t)'
  BY <1>0, <1>4 DEF ThreadInv, Grows, CursorKnown, SentUpTo, Kept, Memory!cursors, Memory!sendHist
<1>. QED BY <1>4, <1>8, <1>9, <1>11, <1>12, <1>13 DEF MemoryInv, ThreadInv

\* A sequence without its i-th element.
LEMMA RemovedFacts ==
  ASSUME NEW ms \in Seq(Memory!Message), NEW i \in 1..Len(ms)
  PROVE  LET s == SubSeq(ms, 1, i - 1) \o SubSeq(ms, i + 1, Len(ms)) IN
         /\ s \in Seq(Memory!Message) /\ Len(s) = Len(ms) - 1
         /\ \A k \in 1..Len(s) : s[k] = IF k < i THEN ms[k] ELSE ms[k + 1]
<1> DEFINE a == SubSeq(ms, 1, i - 1)
           b == SubSeq(ms, i + 1, Len(ms))
<1>1. Len(ms) \in Nat
  OBVIOUS
<1>2. /\ a \in Seq(Memory!Message) /\ Len(a) = i - 1
      /\ \A k \in 1..(i - 1) : a[k] = ms[k]
  BY <1>1
<1>3. /\ b \in Seq(Memory!Message) /\ Len(b) = Len(ms) - i
      /\ \A k \in 1..(Len(ms) - i) : b[k] = ms[i + k]
  BY <1>1
<1>. HIDE DEF a, b
<1>4. /\ a \o b \in Seq(Memory!Message) /\ Len(a \o b) = Len(ms) - 1
      /\ \A k \in 1..(Len(ms) - 1) : (a \o b)[k] = IF k <= i - 1 THEN a[k] ELSE b[k - (i - 1)]
  <2>0. a \in Seq(Memory!Message) /\ b \in Seq(Memory!Message)
    BY <1>2, <1>3
  <2>1. a \o b \in Seq(Memory!Message) /\ Len(a \o b) = Len(a) + Len(b)
    BY <2>0
  <2>2. \A k \in 1..(Len(a) + Len(b)) : (a \o b)[k] = IF k <= Len(a) THEN a[k] ELSE b[k - Len(a)]
    BY <2>0
  <2>3. Len(a) + Len(b) = Len(ms) - 1
    BY <1>1, <1>2, <1>3
  <2>. QED BY <1>2, <2>1, <2>2, <2>3
<1>5. ASSUME NEW k \in 1..(Len(ms) - 1) PROVE (a \o b)[k] = IF k < i THEN ms[k] ELSE ms[k + 1]
  <2>1. CASE k < i
    <3>1. k \in 1..(i - 1) /\ k <= i - 1
      BY <1>1, <2>1
    <3>. QED BY <1>2, <1>4, <2>1, <3>1
  <2>2. CASE k >= i
    <3>1. k - (i - 1) \in 1..(Len(ms) - i) /\ ~(k <= i - 1) /\ i + (k - (i - 1)) = k + 1
      BY <1>1, <2>2
    <3>. QED BY <1>2, <1>3, <1>4, <2>2, <3>1
  <2>. QED
    <3>1. k < i \/ k >= i
      BY <1>1
    <3>. QED BY <2>1, <2>2, <3>1
<1>. QED BY <1>4, <1>5 DEF a, b

\* A trim keeps the ids growing, and notes when the cursor's message goes.
LEMMA TrimKeeps ==
  ASSUME Memory!MemoryAssumption, MemoryInv, NEW t \in Threads, NEW n \in 1..Len(transcript[t]), Memory!Trim(t, n)
  PROVE  MemoryInv'
<1> DEFINE ms == transcript[t]
           s == SubSeq(ms, 1, n - 1) \o SubSeq(ms, n + 1, Len(ms))
<1>0. Memory!TypeOK /\ ThreadInv(t) /\ ms \in Seq(Memory!Message) /\ Len(ms) \in Nat
  BY DEF MemoryInv, Memory!TypeOK
<1>1. /\ transcript' = [transcript EXCEPT ![t] = s]
      /\ cutOff' = IF ms[n].id = cursor[t] THEN cutOff \cup {t} ELSE cutOff
      /\ node[t] = "idle"
      /\ UNCHANGED <<Memory!config, said, node, Memory!cursors, Memory!cache, block, submitted, again, forgotten,
                     restart, Memory!recallHist>>
  BY DEF Memory!Trim
<1>2. /\ s \in Seq(Memory!Message) /\ Len(s) = Len(ms) - 1
      /\ \A k \in 1..Len(s) : s[k] = IF k < n THEN ms[k] ELSE ms[k + 1]
  BY <1>0, RemovedFacts
<1>. HIDE DEF s
<1>3. /\ transcript' \in [Threads -> Seq(Memory!Message)] /\ transcript'[t] = s
      /\ \A u \in Threads \ {t} : transcript'[u] = transcript[u]
      /\ cutOff' \subseteq Threads
      /\ \A u \in Threads \ {t} : u \in cutOff' <=> u \in cutOff
  BY <1>0, <1>1, <1>2 DEF Memory!TypeOK
<1>4. Memory!TypeOK'
  BY <1>0, <1>1, <1>3 DEF Memory!TypeOK, Memory!config, Memory!cursors, Memory!cache, Memory!recallHist
<1>5. ASSUME NEW u \in Threads \ {t} PROVE ThreadInv(u)'
  <2>1. Untouched(u)
    BY <1>1, <1>3 DEF Untouched, Memory!cursors, Memory!cache, Memory!recallHist
  <2>. QED BY <2>1, Frame DEF MemoryInv
<1>6. \A k \in 1..Len(s) : \E l \in 1..Len(ms) : s[k] = ms[l] /\ l = IF k < n THEN k ELSE k + 1
  BY <1>0, <1>2
<1>7. Grows(t)'
  <2>1. \A k \in 1..Len(s) : s[k].id <= said[t]
    BY <1>0, <1>6 DEF ThreadInv, Grows
  <2>2. ASSUME NEW k \in 1..Len(s), NEW l \in 1..Len(s), k < l PROVE s[k].id < s[l].id
    <3>1. PICK a \in 1..Len(ms) : s[k] = ms[a] /\ a = IF k < n THEN k ELSE k + 1
      BY <1>6
    <3>2. PICK b \in 1..Len(ms) : s[l] = ms[b] /\ b = IF l < n THEN l ELSE l + 1
      BY <1>6
    <3>3. a < b
      BY <2>2, <3>1, <3>2
    <3>. QED BY <1>0, <3>1, <3>2, <3>3 DEF ThreadInv, Grows
  <2>. QED BY <1>1, <1>3, <2>1, <2>2 DEF Grows
<1>8. CursorKnown(t)'
  <2>0. cursor'[t] = cursor[t] /\ said'[t] = said[t] /\ transcript'[t] = s
    BY <1>1, <1>3 DEF Memory!cursors
  <2>a. cursor'[t] # None => cursor'[t] <= said'[t]
    BY <1>0, <2>0 DEF ThreadInv, CursorKnown
  <2>. SUFFICES ASSUME cursor'[t] # None, t \notin cutOff'
                PROVE  /\ cursor'[t] <= said'[t]
                       /\ \E k \in 1..Len(transcript'[t]) : transcript'[t][k].id = cursor'[t]
    BY <2>a DEF CursorKnown
  <2>1. ms[n].id # cursor[t] /\ t \notin cutOff
    BY <1>1
  <2>2. PICK l \in 1..Len(ms) : ms[l].id = cursor[t]
    BY <1>0, <2>0, <2>1 DEF ThreadInv, CursorKnown
  <2>3. CASE l < n
    <3>1. l \in 1..Len(s) /\ s[l] = ms[l]
      BY <1>0, <1>2, <2>3
    <3>. QED BY <1>0, <2>0, <2>2, <3>1 DEF ThreadInv, CursorKnown
  <2>4. CASE l > n
    <3>1. l - 1 \in 1..Len(s) /\ ~(l - 1 < n) /\ (l - 1) + 1 = l
      BY <1>0, <1>2, <2>4
    <3>2. s[l - 1] = ms[l]
      BY <1>2, <3>1
    <3>. QED BY <1>0, <2>0, <2>2, <3>1, <3>2 DEF ThreadInv, CursorKnown
  <2>. QED BY <1>0, <2>1, <2>2, <2>3, <2>4
<1>9. Memory!Range(s) \subseteq Memory!Range(ms)
  BY <1>0, <1>2, <1>6 DEF Memory!Range
<1>10. Kept(t)'
  <2>1. Memory!Range(transcript'[t]) \subseteq Memory!Range(transcript[t])
    BY <1>3, <1>9
  <2>. QED BY <1>0, <1>1, <2>1 DEF ThreadInv, Kept, Memory!cursors
<1>11. TurnOpen(t)' /\ Matches(t)'
  BY <1>1 DEF TurnOpen, Running, Matches
<1>12. CacheCovers(t)' /\ SentUpTo(t)'
  BY <1>0, <1>1 DEF ThreadInv, CacheCovers, SentUpTo, Memory!cursors, Memory!cache, Memory!recallHist
<1>. QED BY <1>1, <1>4, <1>5, <1>7, <1>8, <1>10, <1>11, <1>12 DEF MemoryInv, ThreadInv, Memory!recallHist

\* New messages are later than the cursor; those that are not new were before it, or
\* before the turn when the cursor's message is gone.
LEMMA PlanFacts ==
  ASSUME Memory!MemoryAssumption, MemoryInv, NEW t \in Threads, Running(t)
  PROVE  LET ms == transcript[t]
             new == Memory!NewMessages(t) IN
         /\ Memory!Range(new) \subseteq Memory!Range(ms)
         /\ cursor[t] # None => \A m \in Memory!Range(new) : m.id > cursor[t]
         /\ \A m \in Memory!Range(ms) \ Memory!Range(new) :
              /\ cursor[t] # None
              /\ t \notin cutOff => m.id <= cursor[t]
              /\ m.id < Memory!Anchor(t)
<1> DEFINE ms == transcript[t]
           new == Memory!NewMessages(t)
           at == {i \in 1..Len(ms) : ms[i].id = cursor[t]}
           k == Memory!LastUserIndex(ms)
<1>0. /\ ms \in Seq(Memory!Message) /\ Len(ms) \in Nat /\ k \in 1..Len(ms) /\ ThreadInv(t)
      /\ DOMAIN ms = 1..Len(ms)
  BY AnchorFacts DEF MemoryInv
<1>1. \A i \in 1..Len(ms) : ms[i].id \in Nat
  <2>1. \A i \in 1..Len(ms) : ms[i] \in Memory!Message
    BY <1>0
  <2>. QED BY <2>1, IdFacts DEF Memory!Message
<1>2. \A i, j \in 1..Len(ms) : i < j => ms[i].id < ms[j].id
  BY <1>0 DEF ThreadInv, Grows
<1>3. Memory!Anchor(t) = ms[k].id /\ (cursor[t] # None => cursor[t] \in Nat /\ cursor[t] < Memory!Anchor(t))
  BY <1>0, IdFacts DEF Memory!Anchor, ThreadInv, TurnOpen, MemoryInv, Memory!TypeOK
<1>4. CASE cursor[t] = None
  <2>1. new = ms
    BY <1>4 DEF Memory!NewMessages
  <2>. QED BY <1>4, <2>1
<1>5. CASE cursor[t] # None /\ at # {}
  <2> DEFINE c == CHOOSE i \in at : TRUE
  <2>1. c \in 1..Len(ms) /\ ms[c].id = cursor[t]
    BY <1>5
  <2>2. new = SubSeq(ms, c + 1, Len(ms))
    BY <1>5 DEF Memory!NewMessages
  <2>. HIDE DEF c, new
  <2>3. /\ new \in Seq(Memory!Message) /\ Len(new) = Len(ms) - c
        /\ \A j \in 1..Len(new) : new[j] = ms[c + j] /\ c + j \in 1..Len(ms)
    BY <1>0, <2>1, <2>2
  <2>4. DOMAIN new = 1..Len(new)
    BY <2>3
  <2>5. ASSUME NEW m \in Memory!Range(new) PROVE m \in Memory!Range(ms) /\ m.id > cursor[t]
    <3>1. PICK j \in 1..Len(new) : m = new[j]
      BY <2>4 DEF Memory!Range
    <3>2. m = ms[c + j] /\ c + j \in 1..Len(ms) /\ c < c + j
      BY <2>1, <2>3, <3>1
    <3>. QED BY <1>0, <1>1, <1>2, <1>3, <1>5, <2>1, <3>2 DEF Memory!Range
  <2>6. ASSUME NEW m \in Memory!Range(ms), m \notin Memory!Range(new) PROVE m.id <= cursor[t] /\ m.id < Memory!Anchor(t)
    <3>1. PICK i \in 1..Len(ms) : m = ms[i]
      BY <1>0 DEF Memory!Range
    <3>2. ~(i > c)
      <4>. SUFFICES ASSUME i > c PROVE FALSE
        OBVIOUS
      <4>1. i - c \in 1..Len(new) /\ c + (i - c) = i
        BY <2>1, <2>3
      <4>2. new[i - c] = m
        BY <2>3, <3>1, <4>1
      <4>. QED BY <2>4, <2>6, <4>1, <4>2 DEF Memory!Range
    <3>3. i = c \/ i < c
      BY <2>1, <3>2
    <3>4. m.id <= cursor[t]
      BY <1>1, <1>2, <2>1, <3>1, <3>3
    <3>. QED BY <1>0, <1>1, <1>3, <1>5, <3>1, <3>4
  <2>. QED BY <1>5, <2>5, <2>6 DEF new, ms
<1>6. CASE cursor[t] # None /\ at = {}
  <2>1. new = SubSeq(ms, k, Len(ms))
    BY <1>0, <1>6 DEF Memory!NewMessages
  <2>2. t \in cutOff
    BY <1>0, <1>6 DEF ThreadInv, CursorKnown
  <2>. HIDE DEF new
  <2>3. /\ new \in Seq(Memory!Message) /\ Len(new) = Len(ms) - k + 1
        /\ \A j \in 1..Len(new) : new[j] = ms[k + j - 1] /\ k + j - 1 \in 1..Len(ms)
    BY <1>0, <2>1
  <2>4. DOMAIN new = 1..Len(new)
    BY <2>3
  <2>5. ASSUME NEW m \in Memory!Range(new) PROVE m \in Memory!Range(ms) /\ m.id > cursor[t]
    <3>1. PICK j \in 1..Len(new) : m = new[j]
      BY <2>4 DEF Memory!Range
    <3>0. m = ms[k + j - 1] /\ k + j - 1 \in 1..Len(ms)
      BY <2>3, <3>1
    <3>2. PICK i \in 1..Len(ms) : i = k + j - 1 /\ m = ms[i]
      BY <3>0
    <3>3. k \in 1..Len(ms) /\ k <= i
      <4>1. k \in 1..Len(ms) /\ Len(ms) \in Nat
        BY <1>0
      <4>. HIDE DEF k, ms
      <4>2. j >= 1 /\ j \in Int
        BY <3>1, <2>3
      <4>. QED BY <4>1, <4>2, <3>2
    <3>4. ms[k].id \in Nat /\ m.id \in Nat /\ ms[k].id <= m.id
      <4>1. k = i \/ k < i
        BY <3>3
      <4>2. ms[k].id \in Nat /\ ms[i].id \in Nat /\ (k < i => ms[k].id < ms[i].id)
        BY <1>1, <1>2, <3>3
      <4>. QED BY <3>2, <4>1, <4>2
    <3>5. cursor[t] \in Nat /\ cursor[t] < ms[k].id
      BY <1>3, <1>6
    <3>6. m \in Memory!Range(ms)
      BY <1>0, <3>2 DEF Memory!Range
    <3>. QED BY <3>4, <3>5, <3>6
  <2>6. ASSUME NEW m \in Memory!Range(ms), m \notin Memory!Range(new) PROVE m.id < Memory!Anchor(t)
    <3>1. PICK i \in 1..Len(ms) : m = ms[i]
      BY <1>0 DEF Memory!Range
    <3>2. ~(i >= k)
      <4>. SUFFICES ASSUME i >= k PROVE FALSE
        OBVIOUS
      <4>1. i - k + 1 \in 1..Len(new) /\ k + (i - k + 1) - 1 = i
        BY <1>0, <2>3
      <4>2. new[i - k + 1] = m
        BY <2>3, <3>1, <4>1
      <4>. QED BY <2>4, <2>6, <4>1, <4>2 DEF Memory!Range
    <3>. QED BY <1>0, <1>2, <1>3, <3>1, <3>2
  <2>. QED BY <1>6, <2>2, <2>5, <2>6 DEF new, ms
<1>. QED BY <1>4, <1>5, <1>6

\* What is handed over is new, and then the cursor is past all of it.
LEMMA DispatchKeeps ==
  ASSUME Memory!MemoryAssumption, MemoryInv, NEW t \in Threads, Memory!RememberDispatches(t)
  PROVE  MemoryInv'
<1> DEFINE ms == transcript[t]
           new == Memory!NewMessages(t)
           gone == Memory!Oldest(Memory!Touch(cursorOrder, t), MaxTracked)
           order == Memory!Newest(Memory!Touch(cursorOrder, t), MaxTracked)
           last == Memory!Latest(t)
<1>0. Memory!TypeOK /\ ThreadInv(t) /\ Running(t)
  BY DEF MemoryInv, Memory!RememberDispatches, Running
<1>1. MaxTracked \in Nat \ {0} /\ None \notin Memory!MsgIds
  BY DEF Memory!MemoryAssumption
<1>2. /\ Memory!IsOrder(order, Threads, MaxTracked) /\ t \in Memory!Range(order)
      /\ gone \subseteq Memory!Range(cursorOrder) \ {t}
      /\ Memory!Range(order) = (Memory!Range(cursorOrder) \cup {t}) \ gone
  <2>1. Memory!IsOrder(cursorOrder, Threads, MaxTracked)
    BY <1>0 DEF Memory!TypeOK
  <2>. QED BY <1>1, <2>1, MemoryUse
<1>3. Memory!Plan(t) # {} /\ Memory!Plan(t) = Memory!ToChat(new)
  BY DEF Memory!RememberDispatches, Memory!Plan
<1>4. /\ cursorOrder' = order
      /\ cursor' = [u \in Threads |-> IF u \in gone THEN None
                                     ELSE IF u = t THEN last.id ELSE cursor[u]]
      /\ forgotten' = forgotten \cup gone
      /\ cutOff' = cutOff \ (gone \cup {t})
      /\ restart' = [u \in Threads |-> IF u \in gone THEN 0
                                      ELSE IF u = t /\ t \in cutOff THEN Memory!Anchor(t)
                                      ELSE restart[u]]
      /\ submitted' = [submitted EXCEPT ![t] = @ \cup Memory!ToChat(new)]
      /\ again' = [again EXCEPT ![t] = @ \cup (Memory!ToChat(new) \cap submitted[t])]
      /\ node' = [node EXCEPT ![t] = IF awaitPersist THEN "writing" ELSE "idle"]
      /\ UNCHANGED <<Memory!config, transcript, said, Memory!cache, block, Memory!recallHist>>
  BY <1>3 DEF Memory!RememberDispatches, Memory!AdvanceCursor
<1>5. /\ ms \in Seq(Memory!Message) /\ Len(ms) \in Nat /\ Len(ms) \in 1..Len(ms)
      /\ Memory!LastUserIndex(ms) \in 1..Len(ms)
      /\ Memory!Anchor(t) \in Memory!MsgIds /\ DOMAIN ms = 1..Len(ms)
  BY <1>0, AnchorFacts
<1>6. /\ Memory!Range(new) \subseteq Memory!Range(ms)
      /\ cursor[t] # None => \A m \in Memory!Range(new) : m.id > cursor[t]
      /\ \A m \in Memory!Range(ms) \ Memory!Range(new) :
           /\ cursor[t] # None
           /\ t \notin cutOff => m.id <= cursor[t]
           /\ m.id < Memory!Anchor(t)
  BY <1>0, PlanFacts
<1>7. last \in Memory!Message /\ last = ms[Len(ms)] /\ last.id \in Memory!MsgIds /\ last.id <= said[t]
  <2>1. last = ms[Len(ms)]
    BY DEF Memory!Latest
  <2>2. ms[Len(ms)] \in Memory!Message
    BY <1>5
  <2>. QED BY <1>0, <1>5, <2>1, <2>2 DEF Memory!Message, ThreadInv, Grows
<1>8. \A m \in Memory!Range(ms) : m \in Memory!Message /\ m.id \in Memory!MsgIds /\ m.id <= last.id
  <2>. SUFFICES ASSUME NEW m \in Memory!Range(ms) PROVE m \in Memory!Message /\ m.id \in Memory!MsgIds /\ m.id <= last.id
    OBVIOUS
  <2>1. PICK i \in 1..Len(ms) : m = ms[i]
    BY <1>5 DEF Memory!Range
  <2>2. m \in Memory!Message /\ m.id \in Memory!MsgIds
    <3>1. m \in Memory!Message
      BY <1>5, <2>1
    <3>. QED BY <3>1 DEF Memory!Message
  <2>3. i = Len(ms) \/ i < Len(ms)
    BY <1>5
  <2>4. m.id <= last.id
    <3>1. i < Len(ms) => ms[i].id < ms[Len(ms)].id
      BY <1>0, <1>5 DEF ThreadInv, Grows
    <3>2. m.id \in Nat /\ last.id \in Nat
      BY <1>0, <1>7, <2>2, IdFacts
    <3>. QED BY <1>7, <2>1, <2>3, <3>1, <3>2
  <2>. QED BY <2>2, <2>4
<1>. HIDE DEF new, gone, order, last, ms
<1>9. Memory!ToChat(new) \subseteq Memory!MsgIds
  BY <1>6, <1>8 DEF Memory!ToChat, Memory!Range
<1>10. /\ node' \in [Threads -> Memory!Nodes] /\ node'[t] \in {"writing", "idle"}
       /\ \A u \in Threads \ {t} : node'[u] = node[u]
  BY <1>0, <1>4 DEF Memory!TypeOK, Memory!Nodes
<1>11. /\ cursor' \in [Threads -> Memory!MsgIds \cup {None}] /\ cursor'[t] = last.id
       /\ restart' \in [Threads -> Memory!MsgIds \cup {0}]
       /\ restart'[t] = IF t \in cutOff THEN Memory!Anchor(t) ELSE restart[t]
       /\ \A u \in Threads \ {t} :
            \/ /\ cursor'[u] = cursor[u] /\ restart'[u] = restart[u]
               /\ u \in cutOff' <=> u \in cutOff
               /\ u \in forgotten' <=> u \in forgotten
            \/ cursor'[u] = None /\ u \in forgotten' /\ u \in gone
       /\ t \notin cutOff' /\ (t \in forgotten' <=> t \in forgotten)
  BY <1>0, <1>2, <1>4, <1>5, <1>7 DEF Memory!TypeOK
<1>12. \A u \in Threads : cursor'[u] # None <=> u \in Memory!Range(cursorOrder')
  BY <1>0, <1>1, <1>2, <1>4, <1>7 DEF Memory!TypeOK
<1>13. /\ submitted' \in [Threads -> SUBSET Memory!MsgIds] /\ again' \in [Threads -> SUBSET Memory!MsgIds]
       /\ submitted'[t] = submitted[t] \cup Memory!ToChat(new)
       /\ again'[t] = again[t] \cup (Memory!ToChat(new) \cap submitted[t])
       /\ \A u \in Threads \ {t} : submitted'[u] = submitted[u] /\ again'[u] = again[u]
  BY <1>0, <1>4, <1>9 DEF Memory!TypeOK
<1>14. Memory!TypeOK'
  <2>1. forgotten' \subseteq Threads /\ cutOff' \subseteq Threads
    <3>1. Memory!Range(cursorOrder) \subseteq Threads
      BY <1>0, MemoryMembers DEF Memory!TypeOK
    <3>. QED BY <1>0, <1>2, <1>4, <3>1 DEF Memory!TypeOK
  <2>. QED BY <1>0, <1>2, <1>4, <1>10, <1>11, <1>12, <1>13, <2>1 DEF Memory!TypeOK, Memory!config, Memory!cache, Memory!recallHist
<1>15. ASSUME NEW u \in Threads \ {t} PROVE ThreadInv(u)'
  <2>1. Untouched(u)
    BY <1>4, <1>10, <1>11, <1>13 DEF Untouched, Memory!cache, Memory!recallHist
  <2>. QED BY <2>1, Frame DEF MemoryInv
<1>16. Grows(t)' /\ TurnOpen(t)' /\ Matches(t)' /\ CacheCovers(t)'
  BY <1>0, <1>4, <1>10 DEF Grows, TurnOpen, Running, Matches, CacheCovers, ThreadInv, Memory!cache, Memory!recallHist
<1>17. CursorKnown(t)'
  BY <1>4, <1>5, <1>7, <1>11 DEF CursorKnown, ms
<1>18. SentUpTo(t)'
  <2>. SUFFICES ASSUME t \notin forgotten
                PROVE  /\ again'[t] = {}
                       /\ \A x \in submitted'[t] : cursor'[t] # None /\ x <= cursor'[t]
    BY <1>11 DEF SentUpTo
  <2>1. again[t] = {} /\ \A x \in submitted[t] : cursor[t] # None /\ x <= cursor[t]
    BY <1>0 DEF ThreadInv, SentUpTo
  <2>2. ASSUME NEW x \in Memory!ToChat(new)
        PROVE  x \notin submitted[t] /\ x <= last.id
    <3>1. PICK m \in Memory!Range(new) : x = m.id
      BY DEF Memory!ToChat
    <3>2. m.id \in Memory!MsgIds /\ m.id <= last.id
      BY <1>6, <1>8
    <3>3. x \in submitted[t] => cursor[t] # None /\ cursor[t] \in Nat /\ x <= cursor[t] /\ x > cursor[t]
      BY <1>0, <1>6, <2>1, <3>1, IdFacts DEF Memory!TypeOK
    <3>. QED BY <3>1, <3>2, <3>3, IdFacts
  <2>3. ASSUME NEW x \in submitted[t] PROVE x <= last.id
    <3>1. cursor[t] # None /\ x <= cursor[t] /\ cursor[t] < Memory!Anchor(t)
      BY <1>0, <2>1 DEF ThreadInv, TurnOpen
    <3>2. Memory!Anchor(t) <= last.id
      <4>1. ms[Memory!LastUserIndex(ms)] \in Memory!Range(ms)
        BY <1>5 DEF Memory!Range
      <4>. QED BY <1>8, <4>1 DEF Memory!Anchor, ms
    <3>3. x \in Nat /\ cursor[t] \in Nat /\ Memory!Anchor(t) \in Nat /\ last.id \in Nat
      BY <1>0, <1>5, <1>7, <3>1, IdFacts DEF Memory!TypeOK
    <3>. QED BY <3>1, <3>2, <3>3
  <2>. QED BY <1>1, <1>7, <1>11, <1>13, <2>1, <2>2, <2>3
<1>19. Kept(t)'
  <2>. SUFFICES ASSUME NEW m \in Memory!Range(ms), m.id \in restart'[t]..last.id
                PROVE  Memory!ToChat(<<m>>) \subseteq submitted'[t]
    BY <1>4, <1>11 DEF Kept, ms
  <2>1. CASE m \in Memory!Range(new)
    <3>1. Memory!ToChat(<<m>>) \subseteq Memory!ToChat(new)
      BY <2>1 DEF Memory!ToChat, Memory!Range
    <3>. QED BY <1>13, <3>1
  <2>2. CASE m \notin Memory!Range(new)
    <3>1. cursor[t] # None /\ m.id < Memory!Anchor(t) /\ (t \notin cutOff => m.id <= cursor[t])
      BY <1>6, <2>2
    <3>2. m.id \in Nat /\ Memory!Anchor(t) \in Nat /\ cursor[t] \in Nat /\ restart[t] \in Nat
      BY <1>0, <1>5, <1>8, <3>1, IdFacts DEF Memory!TypeOK
    <3>3. t \notin cutOff
      BY <1>11, <3>1, <3>2
    <3>4. m.id \in restart[t]..cursor[t]
      BY <1>11, <3>1, <3>2, <3>3
    <3>5. Memory!ToChat(<<m>>) \subseteq submitted[t]
      BY <1>0, <3>1, <3>4 DEF ThreadInv, Kept, ms
    <3>. QED BY <1>13, <3>5
  <2>. QED BY <2>1, <2>2
<1>20. ~researched'
  BY <1>4 DEF MemoryInv, Memory!recallHist
<1>. QED BY <1>14, <1>15, <1>16, <1>17, <1>18, <1>19, <1>20 DEF MemoryInv, ThreadInv

\* Every step keeps the invariant.
LEMMA MemoryNext == ASSUME Memory!MemoryAssumption, MemoryInv, [Memory!Next]_memoryVars PROVE MemoryInv'
<1>1. CASE UNCHANGED memoryVars
  <2>1. Memory!TypeOK' /\ ~researched'
    BY <1>1 DEF MemoryInv, Memory!TypeOK, memoryVars, Memory!config, Memory!cursors, Memory!cache, Memory!sendHist, Memory!recallHist
  <2>2. ASSUME NEW t \in Threads PROVE ThreadInv(t)'
    <3>1. Untouched(t)
      BY <1>1 DEF Untouched, memoryVars, Memory!config, Memory!cursors, Memory!cache, Memory!sendHist, Memory!recallHist
    <3>. QED BY <3>1, Frame DEF MemoryInv
  <2>. QED BY <2>1, <2>2 DEF MemoryInv
<1>2. CASE Memory!Next
  BY <1>2, InvokeKeeps, ReplyKeeps, EndKeeps, TrimKeeps, InjectKeeps, SearchKeeps, ReturnKeeps,
     SearchFailKeeps, SkipKeeps, DispatchKeeps DEF Memory!Next
<1>. QED BY <1>1, <1>2

\* The invariant is as strong as the properties.
LEMMA MemoryImplied ==
  MemoryInv => Memory!TypeOK /\ Memory!SubmittedOnce /\ Memory!NothingSkipped /\ Memory!OneSearchPerTurn /\ Memory!BlockMatchesTurn
BY DEF MemoryInv, ThreadInv, SentUpTo, Memory!SubmittedOnce, Kept, Memory!NothingSkipped, Memory!OneSearchPerTurn, Matches,
       Memory!BlockMatchesTurn

------------------------------------------------------------------------------
\* The queries.  A finite set that an order sorts can be put in that order, and
\* each member is then at the place the members before it leave to it.

\* R orders S, and s has the members of T in that order.
Sorts(R, S) ==
  /\ \A x \in S : <<x, x>> \notin R
  /\ \A x, y, z \in S : <<x, y>> \in R /\ <<y, z>> \in R => <<x, z>> \in R
  /\ \A x, y \in S : x = y \/ <<x, y>> \in R \/ <<y, x>> \in R
Sorted(s, T, R) ==
  /\ s \in [1..Cardinality(T) -> T]
  /\ \A i, j \in 1..Cardinality(T) : i < j => <<s[i], s[j]>> \in R

\* In a sorted sequence each member of the set has its place: as many are before it as
\* the order puts before it.
Ahead(T, R, x) == {y \in T : <<y, x>> \in R}
Placed(s, T, R) ==
  /\ Cardinality(T) \in Nat /\ s \in Seq(T) /\ Len(s) = Cardinality(T)
  /\ \A x \in T : \E k \in 1..Len(s) : s[k] = x
  /\ \A i, j \in 1..Len(s) : <<s[i], s[j]>> \in R <=> i < j
  /\ \A k \in 1..Len(s) : Cardinality(Ahead(T, R, s[k])) = k - 1
LEMMA SortedFacts ==
  ASSUME NEW S, NEW R, Sorts(R, S), NEW T \in SUBSET S, IsFiniteSet(T), NEW s, Sorted(s, T, R)
  PROVE  Placed(s, T, R)
<1>1. PICK n \in Nat : n = Cardinality(T)
  BY FS_CardinalityType
<1>2. /\ s \in [1..n -> T] /\ \A i, j \in 1..n : i < j => <<s[i], s[j]>> \in R
  BY <1>1 DEF Sorted
<1>3. s \in Seq(T) /\ Len(s) = n
  BY <1>2
<1>4. ASSUME NEW i \in 1..n, NEW j \in 1..n, <<s[i], s[j]>> \in R PROVE i < j
  <2>1. s[i] \in S /\ s[j] \in S
    BY <1>2
  <2>2. i # j
    BY <1>4, <2>1 DEF Sorts
  <2>3. ~(j < i)
    <3>. SUFFICES ASSUME j < i PROVE FALSE
      OBVIOUS
    <3>1. <<s[j], s[i]>> \in R
      BY <1>2
    <3>2. <<s[i], s[i]>> \in R
      BY <1>4, <2>1, <3>1 DEF Sorts
    <3>. QED BY <2>1, <3>2 DEF Sorts
  <2>. QED BY <2>2, <2>3
<1>5. ASSUME NEW i \in 1..n, NEW j \in 1..n, s[i] = s[j] PROVE i = j
  <2>1. s[i] \in S /\ <<s[i], s[i]>> \notin R
    BY <1>2 DEF Sorts
  <2>2. ~(i < j) /\ ~(j < i)
    BY <1>2, <1>5, <2>1
  <2>. QED BY <2>2
<1>6. \A x \in T : \E k \in 1..n : s[k] = x
  <2>0. s \in [1..n -> T] /\ DOMAIN s = 1..n /\ \A i, j \in 1..n : s[i] = s[j] => i = j
    BY <1>2, <1>5
  <2>1. s \in Injection(1..n, T)
    BY <2>0 DEF Injection, IsInjective
  <2>2. Cardinality(1..n) = n
    BY FS_Interval
  <2>3. s \in Surjection(1..n, T)
    BY <1>1, <2>1, <2>2, FS_Injection
  <2>. QED BY <2>3 DEF Surjection
<1>7. ASSUME NEW k \in 1..n PROVE Cardinality(Ahead(T, R, s[k])) = k - 1
  <2> DEFINE B == {y \in T : <<y, s[k]>> \in R}
             f == [i \in 1..(k - 1) |-> s[i]]
  <2>1. \A i \in 1..(k - 1) : i \in 1..n /\ i < k
    OBVIOUS
  <2>2. \A i \in 1..(k - 1) : f[i] = s[i] /\ s[i] \in B
    BY <1>2, <2>1
  <2>3. \A i, j \in 1..(k - 1) : f[i] = f[j] => i = j
    BY <1>5, <2>1, <2>2
  <2>4. ASSUME NEW y \in B PROVE \E i \in 1..(k - 1) : f[i] = y
    <3>1. PICK i \in 1..n : s[i] = y
      BY <1>6
    <3>2. <<s[i], s[k]>> \in R
      BY <3>1
    <3>3. i < k
      BY <1>4, <3>2
    <3>4. i \in 1..(k - 1)
      BY <3>3
    <3>. QED BY <2>2, <3>1, <3>4
  <2>5. f \in [1..(k - 1) -> B]
    BY <2>2
  <2>. HIDE DEF f, B
  <2>6. f \in Bijection(1..(k - 1), B)
    <3>1. PICK D : D = 1..(k - 1)
      OBVIOUS
    <3>2. f \in [D -> B] /\ DOMAIN f = D /\ \A i, j \in D : f[i] = f[j] => i = j
      BY <2>3, <2>5, <3>1
    <3>3. f \in Injection(D, B)
      BY <3>2 DEF Injection, IsInjective
    <3>4. f \in Surjection(D, B)
      BY <2>4, <3>1, <3>2 DEF Surjection
    <3>. QED BY <3>1, <3>3, <3>4 DEF Bijection
  <2>7. k - 1 \in Nat /\ ExistsBijection(1..(k - 1), B)
    BY <2>6 DEF ExistsBijection
  <2>8. Cardinality(B) = k - 1
    BY <2>7, FS_CountingElements
  <2>. QED BY <2>8 DEF B, Ahead
<1>. QED BY <1>1, <1>2, <1>3, <1>4, <1>6, <1>7 DEF Placed

\* A sorted sequence goes on with what comes after all of it.
LEMMA SortedGrows ==
  ASSUME NEW S, NEW R, NEW T \in SUBSET S, IsFiniteSet(T), NEW m \in T, NEW s, Sorted(s, T \ {m}, R),
         \A y \in T \ {m} : <<y, m>> \in R
  PROVE  \E r : Sorted(r, T, R)
<1>1. PICK n \in Nat : n = Cardinality(T \ {m}) /\ Cardinality(T) = n + 1
  <2>1. /\ IsFiniteSet(T \ {m}) /\ Cardinality(T \ {m}) = Cardinality(T) - 1
    BY FS_RemoveElement
  <2>2. Cardinality(T) \in Nat /\ Cardinality(T \ {m}) \in Nat
    BY <2>1, FS_CardinalityType
  <2>. QED BY <2>1, <2>2
<1>2. /\ s \in [1..n -> T \ {m}] /\ \A i, j \in 1..n : i < j => <<s[i], s[j]>> \in R
  BY <1>1 DEF Sorted
<1> DEFINE r == [i \in 1..(n + 1) |-> IF i = n + 1 THEN m ELSE s[i]]
<1>3. \A i \in 1..(n + 1) : i # n + 1 => i \in 1..n
  BY <1>1
<1>4. r \in [1..(n + 1) -> T]
  BY <1>2, <1>3
<1>5. ASSUME NEW i \in 1..(n + 1), NEW j \in 1..(n + 1), i < j PROVE <<r[i], r[j]>> \in R
  <2>1. i \in 1..n /\ r[i] = s[i] /\ s[i] \in T \ {m}
    BY <1>2, <1>5
  <2>2. CASE j = n + 1
    BY <2>1, <2>2
  <2>3. CASE j # n + 1
    <3>1. j \in 1..n /\ r[j] = s[j]
      BY <1>3, <2>3
    <3>. QED BY <1>2, <1>5, <2>1, <3>1
  <2>. QED BY <2>2, <2>3
<1>. HIDE DEF r
<1>6. Sorted(r, T, R)
  BY <1>1, <1>4, <1>5 DEF Sorted
<1>. QED BY <1>6

\* A finite set can be sorted.  By contradiction, at the least size where it cannot.
LEMMA CanBeSorted ==
  ASSUME NEW S, IsFiniteSet(S), NEW R, Sorts(R, S)
  PROVE  \E s : Sorted(s, S, R)
<1> DEFINE Bad == {n \in Nat : \E T \in SUBSET S : Cardinality(T) = n /\ ~\E s : Sorted(s, T, R)}
<1>1. CASE Bad = {}
  <2>1. Cardinality(S) \in Nat
    BY FS_CardinalityType
  <2>. QED BY <1>1, <2>1
<1>2. CASE Bad # {}
  <2>1. PICK n \in Bad : \A k \in Bad : ~(<<k, n>> \in OpToRel(<, Nat))
    BY <1>2, WFMin, NatLessThanWellFounded
  <2>2. \A k \in Bad : k \in Nat /\ ~(k < n)
    BY <2>1 DEF OpToRel
  <2>3. PICK T \in SUBSET S : Cardinality(T) = n /\ ~\E s : Sorted(s, T, R)
    OBVIOUS
  <2>4. n \in Nat /\ IsFiniteSet(T)
    BY FS_Subset
  <2>5. ASSUME NEW U \in SUBSET T, Cardinality(U) = n - 1, n - 1 \in Nat PROVE \E s : Sorted(s, U, R)
    <3>1. n - 1 \notin Bad
      BY <2>2, <2>4
    <3>. QED BY <2>5, <3>1
  <2>. HIDE DEF Bad
  <2>6. n # 0
    <3>. SUFFICES ASSUME n = 0 PROVE FALSE
      OBVIOUS
    <3>1. T = {}
      BY <2>3, <2>4, FS_EmptySet
    <3>2. Cardinality({}) = 0 /\ 1..0 = {}
      BY FS_EmptySet
    <3>3. [i \in {} |-> i] \in [{} -> {}]
      OBVIOUS
    <3>4. Sorted([i \in {} |-> i], {}, R)
      BY <3>2, <3>3 DEF Sorted
    <3>. QED BY <2>3, <3>1, <3>4
  <2>7. PICK x \in T : TRUE
    <3>1. T # {}
      BY <2>3, <2>6, FS_EmptySet
    <3>. QED BY <3>1
  <2>8. \A y \in T : Cardinality(T \ {y}) = n - 1 /\ n - 1 \in Nat /\ IsFiniteSet(T \ {y}) /\ T \ {y} \in SUBSET T
    BY <2>3, <2>4, <2>6, FS_RemoveElement
  <2>9. PICK s : Sorted(s, T \ {x}, R)
    BY <2>5, <2>7, <2>8
  <2>10. /\ s \in Seq(T \ {x}) /\ Len(s) = n - 1
         /\ \A y \in T \ {x} : \E k \in 1..Len(s) : s[k] = y
         /\ \A i, j \in 1..Len(s) : i < j => <<s[i], s[j]>> \in R
    <3>1. PICK U \in SUBSET S : U = T \ {x}
      OBVIOUS
    <3>2. IsFiniteSet(U) /\ Sorted(s, U, R) /\ Cardinality(U) = n - 1
      BY <2>7, <2>8, <2>9, <3>1
    <3>3. /\ s \in Seq(U) /\ Len(s) = n - 1
          /\ \A y \in U : \E k \in 1..Len(s) : s[k] = y
      BY <3>2, SortedFacts DEF Placed
    <3>4. \A i, j \in 1..Len(s) : i < j => <<s[i], s[j]>> \in R
      BY <3>2, <3>3 DEF Sorted
    <3>. QED BY <3>1, <3>3, <3>4
  <2>11. PICK m \in T : \A y \in T \ {m} : <<y, m>> \in R
    <3>1. CASE \A y \in T \ {x} : <<y, x>> \in R
      BY <2>7, <3>1
    <3>2. CASE ~\A y \in T \ {x} : <<y, x>> \in R
      <4>1. PICK z \in T \ {x} : <<z, x>> \notin R
        BY <3>2
      <4>2. PICK k \in 1..Len(s) : s[k] = z
        BY <2>10, <4>1
      <4>3. PICK l \in 1..Len(s) : l = n - 1
        BY <2>8, <2>10, <4>2
      <4>4. s[l] \in T \ {x}
        BY <2>10
      <4>5. ASSUME NEW y \in T \ {s[l]}, y # x PROVE <<y, s[l]>> \in R
        <5>1. PICK i \in 1..Len(s) : s[i] = y
          BY <2>10, <4>5
        <5>2. i < l
          BY <2>10, <4>3, <4>5, <5>1
        <5>. QED BY <2>10, <5>1, <5>2
      <4>6. <<x, z>> \in R
        BY <2>7, <4>1 DEF Sorts
      <4>7. z = s[l] \/ <<z, s[l]>> \in R
        BY <4>1, <4>5
      <4>8. <<x, s[l]>> \in R
        BY <2>7, <4>1, <4>4, <4>6, <4>7 DEF Sorts
      <4>. QED BY <4>4, <4>5, <4>8
    <3>. QED BY <3>1, <3>2
  <2>12. PICK r : Sorted(r, T \ {m}, R)
    BY <2>5, <2>8
  <2>13. \E q : Sorted(q, T, R)
    BY <2>4, <2>11, <2>12, SortedGrows
  <2>. QED BY <2>3, <2>13
<1>. QED BY <1>1, <1>2

\* The sizes of the instance are those of the library.
LEMMA QueriesSizes ==
  /\ \A S : Queries!IsFiniteSet(S) <=> IsFiniteSet(S)
  /\ \A S : Queries!Cardinality(S) = Cardinality(S)
<1>1. \A S : Queries!IsFiniteSet(S) <=> IsFiniteSet(S)
  BY DEF Queries!IsFiniteSet, IsFiniteSet
<1>2. \A S : Queries!Cardinality(S) = Cardinality(S)
  BY DEF Queries!Cardinality, Cardinality
<1>. QED BY <1>1, <1>2

\* Sorting by an order of the set gives all of it, in that order.
LEMMA InOrderSorts ==
  ASSUME NEW S, IsFiniteSet(S), NEW R, Sorts(R, S)
  PROVE  Sorted(Queries!InOrder(S, R), S, R)
<1>1. PICK s : Sorted(s, S, R)
  BY CanBeSorted
<1>2. \E r \in [1..Cardinality(S) -> S] : \A i, j \in 1..Cardinality(S) : i < j => <<r[i], r[j]>> \in R
  BY <1>1 DEF Sorted
<1>3. Queries!InOrder(S, R) = CHOOSE r \in [1..Cardinality(S) -> S] :
                                \A i, j \in 1..Cardinality(S) : i < j => <<r[i], r[j]>> \in R
  BY QueriesSizes DEF Queries!InOrder
<1>. QED BY <1>2, <1>3 DEF Sorted

\* s has the members of I, which are indexes, in ascending order: each at its
\* place, as many before it as are below it.
Below(I, k) == {i \in I : i < k}
Ascends(s, I) ==
  /\ IsFiniteSet(I) /\ Cardinality(I) \in Nat /\ s \in Seq(I) /\ Len(s) = Cardinality(I)
  /\ \A i \in I : \E k \in 1..Len(s) : s[k] = i
  /\ \A i, j \in 1..Len(s) : (s[i] < s[j] <=> i < j) /\ (s[i] = s[j] => i = j)
  /\ \A k \in 1..Len(s) : Cardinality(Below(I, s[k])) = k - 1
LEMMA AscendingFacts ==
  ASSUME NEW n \in Nat, NEW I \in SUBSET (1..n)
  PROVE  Ascends(Queries!Ascending(I), I)
<1> DEFINE R == {p \in I \X I : p[1] < p[2]}
           s == Queries!Ascending(I)
<1>1. IsFiniteSet(I)
  <2>1. IsFiniteSet(1..n)
    BY FS_Interval
  <2>. QED BY <2>1, FS_Subset
<1>2. \A x, y \in I : <<x, y>> \in R <=> x < y
  OBVIOUS
<1>3. Sorts(R, I)
  BY <1>2 DEF Sorts
<1>4. s = Queries!InOrder(I, R)
  BY DEF Queries!Ascending
<1>. HIDE DEF R, s
<1>5. Sorted(s, I, R)
  BY <1>1, <1>3, <1>4, InOrderSorts
<1>6. /\ Cardinality(I) \in Nat /\ s \in Seq(I) /\ Len(s) = Cardinality(I)
      /\ \A i \in I : \E k \in 1..Len(s) : s[k] = i
      /\ \A i, j \in 1..Len(s) : <<s[i], s[j]>> \in R <=> i < j
      /\ \A k \in 1..Len(s) : Cardinality(Ahead(I, R, s[k])) = k - 1
  <2>1. PICK T \in SUBSET I : T = I
    OBVIOUS
  <2>2. Placed(s, T, R)
    BY <1>1, <1>3, <1>5, <2>1, SortedFacts
  <2>. QED BY <2>1, <2>2 DEF Placed
<1>7. \A k \in 1..Len(s) : s[k] \in I /\ s[k] \in 1..n
  <2>1. \A i \in I : i \in 1..n
    OBVIOUS
  <2>2. \A k \in 1..Len(s) : s[k] \in I
    BY <1>6
  <2>. QED BY <2>1, <2>2
<1>8. ASSUME NEW k \in 1..Len(s) PROVE Cardinality(Below(I, s[k])) = k - 1
  <2>1. Cardinality(Ahead(I, R, s[k])) = k - 1
    BY <1>6
  <2>2. Ahead(I, R, s[k]) = Below(I, s[k])
    BY <1>2, <1>7 DEF Below, Ahead
  <2>. QED BY <2>1, <2>2
<1>9. \A i, j \in 1..Len(s) : s[i] < s[j] <=> i < j
  BY <1>2, <1>6, <1>7
<1>11. ASSUME NEW i \in 1..Len(s), NEW j \in 1..Len(s), s[i] = s[j] PROVE i = j
  <2>1. ~(s[i] < s[j]) /\ ~(s[j] < s[i])
    BY <1>7, <1>11
  <2>. QED BY <1>9, <2>1
<1>10. Ascends(s, I)
  BY <1>1, <1>6, <1>8, <1>9, <1>11 DEF Ascends
<1>. QED BY <1>10 DEF s

\* The first n numbers are n.
LEMMA IntervalSize ==
  ASSUME NEW n \in Nat PROVE IsFiniteSet(1..n) /\ Cardinality(1..n) = n
BY FS_Interval

\* The smaller of two numbers.
LEMMA LesserOf ==
  ASSUME NEW a \in Int, NEW b \in Int
  PROVE  Queries!Min({a, b}) = IF a <= b THEN a ELSE b
<1>1. PICK m \in {a, b} : \A y \in {a, b} : m <= y
  OBVIOUS
<1>2. Queries!Min({a, b}) \in {a, b} /\ \A y \in {a, b} : Queries!Min({a, b}) <= y
  BY <1>1 DEF Queries!Min
<1>. QED BY <1>2

\* The greater of two numbers.
LEMMA GreaterOf ==
  ASSUME NEW a \in Int, NEW b \in Int
  PROVE  Queries!Max({a, b}) = IF a >= b THEN a ELSE b
<1>1. PICK m \in {a, b} : \A y \in {a, b} : m >= y
  OBVIOUS
<1>2. Queries!Max({a, b}) \in {a, b} /\ \A y \in {a, b} : Queries!Max({a, b}) >= y
  BY <1>1 DEF Queries!Max
<1>. QED BY <1>2

\* A slice has the elements from the offset on, no more than the limit, and all
\* of them unless it has the limit.
Sliced(r, s, off, lim) ==
  /\ Len(r) \in Nat /\ Len(r) <= lim
  /\ \A i \in 1..Len(r) : off + i \in 1..Len(s) /\ r[i] = s[off + i]
  /\ Len(r) < lim => off + Len(r) >= Len(s)
LEMMA SliceFacts ==
  ASSUME NEW S, NEW s \in Seq(S), NEW off \in Nat, NEW lim \in Nat
  PROVE  Sliced(Queries!Slice(s, off, lim), s, off, lim)
<1> DEFINE r == Queries!Slice(s, off, lim)
<1>1. PICK e \in Nat : e = (IF off + lim <= Len(s) THEN off + lim ELSE Len(s)) /\ r = SubSeq(s, off + 1, e)
  <2>1. off + lim \in Int /\ Len(s) \in Int /\ off + lim \in Nat /\ Len(s) \in Nat
    OBVIOUS
  <2>2. Queries!Min({off + lim, Len(s)}) = IF off + lim <= Len(s) THEN off + lim ELSE Len(s)
    BY <2>1, LesserOf
  <2>. QED BY <2>1, <2>2 DEF Queries!Slice
<1>. HIDE DEF r
<1>2. e <= Len(s) /\ e <= off + lim /\ (e = off + lim \/ e = Len(s))
  BY <1>1
<1>3. /\ \A i \in (off + 1)..e : i \in 1..Len(s)
      /\ r \in Seq(S) /\ Len(r) = (IF off + 1 <= e THEN e - off ELSE 0)
  BY <1>1, <1>2
<1>4. \A i \in 1..Len(r) : i \in 1..(e - off) /\ off + i \in 1..Len(s)
  BY <1>2, <1>3
<1>5. \A i \in 1..Len(r) : r[i] = s[off + i]
  <2>1. \A i \in 1..(e - off) : SubSeq(s, off + 1, e)[i] = s[off + 1 + i - 1] /\ off + 1 + i - 1 = off + i
    BY <1>2
  <2>. QED BY <1>1, <1>4, <2>1
<1>6. Sliced(r, s, off, lim)
  BY <1>2, <1>3, <1>4, <1>5 DEF Sliced
<1>. QED BY <1>6 DEF r

\* The first n elements of a sequence.
Begins(p, s, n) ==
  /\ Len(p) = IF n <= Len(s) THEN n ELSE Len(s)
  /\ Len(p) \in Nat /\ Len(p) <= Len(s)
  /\ \A k \in 1..Len(p) : p[k] = s[k]
LEMMA PrefixFacts ==
  ASSUME NEW S, NEW s \in Seq(S), NEW n \in Nat
  PROVE  Begins(SubSeq(s, 1, Queries!Min({n, Len(s)})), s, n)
<1> DEFINE p == SubSeq(s, 1, Queries!Min({n, Len(s)}))
<1>1. PICK m \in Nat : m = IF n <= Len(s) THEN n ELSE Len(s)
  OBVIOUS
<1>2. p = SubSeq(s, 1, m)
  <2>1. n \in Int /\ Len(s) \in Int
    OBVIOUS
  <2>2. Queries!Min({n, Len(s)}) = m
    BY <1>1, <2>1, LesserOf
  <2>. QED BY <2>2
<1>. HIDE DEF p
<1>3. m <= Len(s)
  BY <1>1
<1>4. Len(p) = m
  BY <1>2, <1>3
<1>5. ASSUME NEW k \in 1..m PROVE p[k] = s[k]
  <2>1. k \in 1..Len(s) /\ k + 1 - 1 = k
    BY <1>3
  <2>2. SubSeq(s, 1, m)[k] = s[k + 1 - 1]
    BY <1>3
  <2>. QED BY <1>2, <2>1, <2>2
<1>6. Begins(p, s, n)
  BY <1>1, <1>3, <1>4, <1>5 DEF Begins
<1>. QED BY <1>6 DEF p

\* Of a sequence that begins as O does in order, what is also in P: in order.
KeptOf(kept, O, P, items) ==
  /\ kept \in Seq(O \cap P)
  /\ \A k \in 1..Len(kept) : Cardinality(Below(O \cap P, kept[k])) = k - 1
  /\ O \subseteq P => Len(kept) = Len(items)
LEMMA KeptFacts ==
  ASSUME NEW O, NEW P, NEW ok, Ascends(ok, O), NEW n, NEW items, Begins(items, ok, n)
  PROVE  KeptOf(Queries!Kept(items, P), O, P, items)
<1> DEFINE kept == Queries!Kept(items, P)
<1>0. PICK m \in Nat : m = Len(items) /\ m <= Len(ok) /\ \A k \in 1..m : items[k] = ok[k]
  BY DEF Begins
<1>1. /\ ok \in Seq(O) /\ \A i \in O : \E k \in 1..Len(ok) : ok[k] = i
      /\ \A i, j \in 1..Len(ok) : (ok[i] < ok[j] <=> i < j) /\ (ok[i] = ok[j] => i = j)
  BY DEF Ascends
<1>2. \A k \in 1..m : k \in 1..Len(ok) /\ ok[k] \in O /\ items[k] = ok[k]
  BY <1>0, <1>1
<1> DEFINE A == {i \in 1..Len(items) : items[i] \in P}
<1>5. PICK at : at = Queries!Ascending(A)
  OBVIOUS
<1>7. A \in SUBSET (1..m) /\ \A i \in A : items[i] \in O \cap P /\ items[i] = ok[i] /\ i \in 1..m
  BY <1>0, <1>2
<1>8. kept = [i \in 1..Len(at) |-> items[at[i]]]
  BY <1>5 DEF Queries!Kept
<1>. HIDE DEF kept
<1>9. \A i \in 1..m : ok[i] \in P => i \in A
  BY <1>0, <1>2
<1>. HIDE DEF A
<1>10. /\ IsFiniteSet(A) /\ Cardinality(A) \in Nat /\ at \in Seq(A) /\ Len(at) = Cardinality(A)
       /\ \A k \in 1..Len(at) : Cardinality(Below(A, at[k])) = k - 1
  <2>1. Ascends(at, A)
    BY <1>5, <1>7, AscendingFacts
  <2>. QED BY <2>1 DEF Ascends
<1>11. Len(at) \in Nat /\ \A k \in 1..Len(at) : at[k] \in A
  BY <1>10
<1>12. kept \in Seq(O \cap P) /\ Len(kept) = Len(at) /\ \A k \in 1..Len(at) : kept[k] = ok[at[k]]
  <2>1. \A k \in 1..Len(at) : items[at[k]] \in O \cap P /\ items[at[k]] = ok[at[k]]
    BY <1>7, <1>11
  <2>. QED BY <1>8, <1>11, <2>1
<1>13. ASSUME NEW k \in 1..Len(kept)
       PROVE  kept[k] \in O \cap P /\ Cardinality(Below(O \cap P, kept[k])) = k - 1
  <2> DEFINE B == Below(A, at[k])
             C == Below(O \cap P, kept[k])
             f == [i \in B |-> ok[i]]
  <2>1. at[k] \in A /\ at[k] \in 1..m /\ kept[k] = ok[at[k]] /\ k \in 1..Len(at)
    BY <1>7, <1>11, <1>12
  <2>2. ASSUME NEW i \in B PROVE f[i] = ok[i] /\ i \in 1..m /\ i \in 1..Len(ok) /\ f[i] \in C
    <3>1. i \in A /\ i \in 1..m /\ i < at[k] /\ f[i] = ok[i]
      BY <1>7 DEF Below
    <3>2. items[i] = ok[i] /\ ok[i] \in O \cap P
      BY <1>7, <3>1
    <3>3. ok[i] < ok[at[k]]
      BY <1>1, <1>2, <2>1, <3>1
    <3>. QED BY <1>2, <2>1, <3>1, <3>2, <3>3 DEF Below
  <2>3. ASSUME NEW i \in B, NEW j \in B, f[i] = f[j] PROVE i = j
    <3>1. ok[i] = ok[j] /\ i \in 1..Len(ok) /\ j \in 1..Len(ok)
      BY <2>2, <2>3
    <3>. QED BY <1>1, <3>1
  <2>4. ASSUME NEW j \in C PROVE \E i \in B : f[i] = j
    <3>1. PICK i \in 1..Len(ok) : ok[i] = j
      <4>1. j \in O
        BY DEF Below
      <4>. QED BY <1>1, <4>1
    <3>2. ok[i] < ok[at[k]]
      BY <2>1, <3>1 DEF Below
    <3>3. i < at[k]
      BY <1>1, <1>2, <2>1, <3>2
    <3>4. i \in 1..m /\ ok[i] \in P
      BY <2>1, <3>1, <3>3 DEF Below
    <3>5. i \in B
      BY <1>9, <3>3, <3>4 DEF Below
    <3>. QED BY <2>2, <3>1, <3>5
  <2>5. f \in [B -> C] /\ DOMAIN f = B
    BY <2>2
  <2>6. IsFiniteSet(B) /\ Cardinality(B) = k - 1
    <3>1. B \in SUBSET A
      BY DEF Below
    <3>. QED BY <1>10, <2>1, <3>1, FS_Subset
  <2>7. kept[k] \in O \cap P
    BY <1>12
  <2>. HIDE DEF f, B, C
  <2>8. f \in Injection(B, C)
    BY <2>3, <2>5 DEF Injection, IsInjective
  <2>9. f \in Surjection(B, C)
    BY <2>4, <2>5 DEF Surjection
  <2>10. ExistsBijection(B, C)
    BY <2>8, <2>9 DEF ExistsBijection, Bijection
  <2>11. Cardinality(C) = k - 1
    BY <2>6, <2>10, FS_Bijection
  <2>. QED BY <2>7, <2>11 DEF C
<1>14. ASSUME O \subseteq P PROVE Len(kept) = Len(items)
  <2>1. A = 1..m
    BY <1>2, <1>7, <1>9, <1>14
  <2>2. Cardinality(1..m) = m
    BY IntervalSize
  <2>. QED BY <1>0, <1>10, <1>12, <2>1, <2>2
<1>15. KeptOf(kept, O, P, items)
  BY <1>12, <1>13, <1>14 DEF KeptOf
<1>. QED BY <1>15 DEF kept

\* Of the first n indexes of O, in order, those in P; the page of them from off
\* on.  Each is at its place among all that are in O and in P.
PageOf(r, O, P, n, off, lim) ==
  /\ Len(r) \in Nat /\ Len(r) <= lim
  /\ \A k \in 1..Len(r) : r[k] \in O \cap P /\ Cardinality(Below(O \cap P, r[k])) = off + k - 1
  /\ O \subseteq P /\ n = off + lim /\ Len(r) < lim => off + Len(r) >= Cardinality(O)
LEMMA PageFacts ==
  ASSUME NEW N \in Nat, NEW O \in SUBSET (1..N), NEW P, NEW n \in Nat, NEW off \in Nat, NEW lim \in Nat,
         NEW ok, ok = Queries!Ascending(O), NEW items, items = SubSeq(ok, 1, Queries!Min({n, Len(ok)})),
         NEW r, r = Queries!Slice(Queries!Kept(items, P), off, lim)
  PROVE  PageOf(r, O, P, n, off, lim)
<1>1. Ascends(ok, O)
  BY AscendingFacts
<1>2. ok \in Seq(O) /\ Len(ok) = Cardinality(O)
  BY <1>1 DEF Ascends
<1>3. Begins(items, ok, n)
  BY <1>2, PrefixFacts
<1>4. PICK kept : kept = Queries!Kept(items, P)
  OBVIOUS
<1>5. KeptOf(kept, O, P, items) /\ kept \in Seq(O \cap P)
  <2>1. KeptOf(kept, O, P, items)
    BY <1>1, <1>3, <1>4, KeptFacts
  <2>. QED BY <2>1 DEF KeptOf
<1>6. Sliced(r, kept, off, lim)
  BY <1>4, <1>5, SliceFacts
<1>7. /\ Len(r) \in Nat /\ Len(r) <= lim
      /\ \A i \in 1..Len(r) : off + i \in 1..Len(kept) /\ r[i] = kept[off + i]
      /\ Len(r) < lim => off + Len(r) >= Len(kept)
  BY <1>6 DEF Sliced
<1>8. ASSUME NEW k \in 1..Len(r)
      PROVE  r[k] \in O \cap P /\ Cardinality(Below(O \cap P, r[k])) = off + k - 1
  <2>1. PICK i \in 1..Len(kept) : i = off + k /\ r[k] = kept[i]
    BY <1>7
  <2>2. kept[i] \in O \cap P /\ Cardinality(Below(O \cap P, kept[i])) = i - 1
    <3>1. kept[i] \in O \cap P
      BY <1>5
    <3>2. Cardinality(Below(O \cap P, kept[i])) = i - 1
      BY <1>5 DEF KeptOf
    <3>. QED BY <3>1, <3>2
  <2>3. i - 1 = off + k - 1
    BY <2>1
  <2>. QED BY <2>1, <2>2, <2>3
<1>9. ASSUME O \subseteq P, n = off + lim, Len(r) < lim PROVE off + Len(r) >= Cardinality(O)
  <2>1. Len(kept) = Len(items) /\ (Len(items) = n \/ Len(items) = Cardinality(O))
    BY <1>2, <1>3, <1>5, <1>9 DEF KeptOf, Begins
  <2>2. Len(kept) # n
    BY <1>7, <1>9
  <2>. QED BY <1>7, <1>9, <2>1, <2>2
<1>. QED BY <1>7, <1>8, <1>9 DEF PageOf

\* The least member of a set of numbers.
LEMMA LeastNumber ==
  ASSUME NEW D \in SUBSET Nat, D # {}
  PROVE  \E m \in D : \A k \in D : m <= k
<1>1. PICK m \in D : \A k \in D : <<k, m>> \notin OpToRel(<, Nat)
  BY WFMin, NatLessThanWellFounded
<1>2. ASSUME NEW k \in D PROVE m <= k
  <2>1. m \in Nat /\ k \in Nat
    OBVIOUS
  <2>2. ~(k < m)
    BY <1>1, <2>1 DEF OpToRel
  <2>. QED BY <2>1, <2>2
<1>. QED BY <1>2

\* Sequences that agree at every index are equal.
LEMMA SameSeq ==
  ASSUME NEW T, NEW a \in Seq(T), NEW b \in Seq(T), Len(a) = Len(b), \A i \in 1..Len(a) : a[i] = b[i]
  PROVE  a = b
<1>1. PICK D : D = 1..Len(a)
  OBVIOUS
<1>2. a = [i \in D |-> a[i]] /\ b = [i \in D |-> b[i]]
  BY <1>1
<1>. QED BY <1>1, <1>2

\* a comes before b where they part: at i, where a has ended or has the smaller label.
Parts(a, b, i) ==
  /\ i \in 1..Len(b) /\ \A j \in 1..(i - 1) : j <= Len(a) /\ a[j] = b[j]
  /\ i > Len(a) \/ a[i] < b[i]
LEMMA BeforeParts ==
  ASSUME NEW a \in Seq(Int), NEW b \in Seq(Int)
  PROVE  Queries!Before(a, b) <=> \E i \in 1..Len(b) : Parts(a, b, i)
<1>1. PICK x \in Nat, y \in Nat : x = Len(a) /\ y = Len(b)
  OBVIOUS
<1>2. PICK m \in Nat : m = Queries!Min({x, y}) /\ m = IF x <= y THEN x ELSE y
  BY <1>1, LesserOf
<1>3. Queries!Before(a, b) <=>
        \/ \E i \in 1..m : a[i] < b[i] /\ \A j \in 1..(i - 1) : a[j] = b[j]
        \/ x < y /\ \A j \in 1..x : a[j] = b[j]
  BY <1>1, <1>2 DEF Queries!Before
<1>4. ASSUME NEW i \in 1..m, a[i] < b[i] /\ \A j \in 1..(i - 1) : a[j] = b[j] PROVE Parts(a, b, i)
  BY <1>1, <1>2, <1>4 DEF Parts
<1>5. ASSUME x < y, \A j \in 1..x : a[j] = b[j] PROVE Parts(a, b, x + 1)
  BY <1>1, <1>5 DEF Parts
<1>6. ASSUME NEW i \in 1..y, Parts(a, b, i)
      PROVE  \/ i \in 1..m /\ a[i] < b[i] /\ \A j \in 1..(i - 1) : a[j] = b[j]
             \/ x < y /\ \A j \in 1..x : a[j] = b[j]
  <2>1. CASE i > x
    <3>1. x < y /\ \A j \in 1..x : j \in 1..(i - 1)
      BY <2>1
    <3>. QED BY <1>1, <1>6, <3>1 DEF Parts
  <2>2. CASE ~(i > x)
    <3>1. i \in 1..m
      BY <1>2, <2>2
    <3>. QED BY <1>1, <1>6, <2>2, <3>1 DEF Parts
  <2>. QED BY <2>1, <2>2
<1>7. x < y => x + 1 \in 1..y
  OBVIOUS
<1>8. \A i \in 1..m : i \in 1..y
  BY <1>2
<1>. QED BY <1>1, <1>3, <1>4, <1>5, <1>6, <1>7, <1>8

\* compareNamespaces puts any paths in one order.
LEMMA BeforeSorts ==
  ASSUME NEW S \in SUBSET Seq(Int)
  PROVE  Sorts({p \in S \X S : Queries!Before(p[1], p[2])}, S)
<1> DEFINE R == {p \in S \X S : Queries!Before(p[1], p[2])}
<1>1. \A a, b \in S : <<a, b>> \in R <=> \E i \in 1..Len(b) : Parts(a, b, i)
  <2>1. \A a, b \in S : <<a, b>> \in R <=> Queries!Before(a, b)
    OBVIOUS
  <2>2. \A a, b \in S : a \in Seq(Int) /\ b \in Seq(Int)
    OBVIOUS
  <2>. QED BY <2>1, <2>2, BeforeParts
<1>. HIDE DEF R
<1>2. \A a \in S : a \in Seq(Int) /\ Len(a) \in Nat /\ \A i \in 1..Len(a) : a[i] \in Int
  OBVIOUS
<1>3. ASSUME NEW a \in S PROVE <<a, a>> \notin R
  <2>1. ASSUME NEW i \in 1..Len(a), Parts(a, a, i) PROVE FALSE
    <3>1. a[i] \in Int /\ i <= Len(a)
      BY <1>2
    <3>. QED BY <2>1, <3>1 DEF Parts
  <2>. QED BY <1>1, <2>1
<1>4. ASSUME NEW a \in S, NEW b \in S, NEW c \in S, <<a, b>> \in R, <<b, c>> \in R PROVE <<a, c>> \in R
  <2>1. PICK i \in 1..Len(b) : Parts(a, b, i)
    BY <1>1, <1>4
  <2>2. PICK k \in 1..Len(c) : Parts(b, c, k)
    BY <1>1, <1>4
  <2>0. Len(a) \in Nat /\ Len(b) \in Nat /\ Len(c) \in Nat /\ i \in Nat /\ k \in Nat
    BY <1>2
  <2>3. CASE i < k
    <3>1. /\ i \in 1..(k - 1) /\ i \in 1..Len(c) /\ b[i] = c[i]
          /\ \A j \in 1..(i - 1) : j \in 1..(k - 1)
      BY <2>0, <2>2, <2>3 DEF Parts
    <3>2. \A j \in 1..(i - 1) : j <= Len(a) /\ a[j] = b[j] /\ b[j] = c[j]
      BY <2>1, <2>2, <3>1 DEF Parts
    <3>3. i > Len(a) \/ a[i] < c[i]
      BY <2>1, <3>1 DEF Parts
    <3>4. Parts(a, c, i)
      BY <3>1, <3>2, <3>3 DEF Parts
    <3>. QED BY <1>1, <3>1, <3>4
  <2>4. CASE i = k
    <3>1. b[i] < c[i] /\ b[i] \in Int /\ c[i] \in Int
      BY <1>2, <2>0, <2>2, <2>4 DEF Parts
    <3>2. i > Len(a) \/ a[i] < c[i]
      <4>1. CASE ~(i > Len(a))
        <5>1. a[i] < b[i] /\ a[i] \in Int
          BY <1>2, <2>0, <2>1, <4>1 DEF Parts
        <5>. QED BY <3>1, <5>1
      <4>. QED BY <4>1
    <3>3. \A j \in 1..(i - 1) : j <= Len(a) /\ a[j] = c[j]
      BY <2>1, <2>2, <2>4 DEF Parts
    <3>4. Parts(a, c, i)
      BY <2>2, <2>4, <3>2, <3>3 DEF Parts
    <3>. QED BY <1>1, <2>4, <3>4
  <2>5. CASE k < i
    <3>1. /\ k \in 1..(i - 1) /\ k <= Len(a) /\ a[k] = b[k] /\ k < Len(b)
          /\ \A j \in 1..(k - 1) : j \in 1..(i - 1)
      BY <2>0, <2>1, <2>5 DEF Parts
    <3>2. b[k] < c[k]
      BY <2>0, <2>2, <3>1 DEF Parts
    <3>3. \A j \in 1..(k - 1) : j <= Len(a) /\ a[j] = b[j] /\ b[j] = c[j]
      BY <2>1, <2>2, <3>1 DEF Parts
    <3>4. Parts(a, c, k)
      BY <3>1, <3>2, <3>3 DEF Parts
    <3>. QED BY <1>1, <3>4
  <2>. QED BY <2>0, <2>3, <2>4, <2>5
<1>5. ASSUME NEW a \in S, NEW b \in S, a # b PROVE <<a, b>> \in R \/ <<b, a>> \in R
  <2> DEFINE D == {i \in Nat \ {0} : /\ i <= Len(a) \/ i <= Len(b)
                                     /\ i > Len(a) \/ i > Len(b) \/ a[i] # b[i]}
  <2>0. PICK x \in Nat, y \in Nat : x = Len(a) /\ y = Len(b)
    BY <1>2
  <2>1. D # {}
    <3>. SUFFICES ASSUME D = {} PROVE FALSE
      OBVIOUS
    <3>1. ASSUME NEW i \in Nat \ {0} PROVE i <= x <=> i <= y
      BY <2>0
    <3>2. x = y
      <4>1. x > y => FALSE
        <5>1. ASSUME x > y PROVE FALSE
          <6>1. x \in Nat \ {0} /\ ~(x <= y) /\ x <= x
            BY <5>1
          <6>. QED BY <3>1, <6>1
        <5>. QED BY <5>1
      <4>2. ASSUME x < y PROVE FALSE
        <5>1. y \in Nat \ {0} /\ ~(y <= x) /\ y <= y
          BY <4>2
        <5>. QED BY <3>1, <5>1
      <4>. QED BY <4>1, <4>2
    <3>3. ASSUME NEW i \in 1..x PROVE a[i] = b[i]
      <4>1. i \in Nat \ {0} /\ i <= x
        OBVIOUS
      <4>. QED BY <2>0, <3>2, <4>1
    <3>4. a \in Seq(Int) /\ b \in Seq(Int)
      BY <1>2
    <3>. QED BY <1>5, <2>0, <3>2, <3>3, <3>4, SameSeq
  <2>2. PICK i \in D : \A k \in D : i <= k
    BY <2>1, LeastNumber
  <2>3. /\ i \in Nat \ {0} /\ (i <= x \/ i <= y) /\ (i > x \/ i > y \/ a[i] # b[i])
    BY <2>0
  <2>4. ASSUME NEW j \in 1..(i - 1) PROVE j <= x /\ j <= y /\ a[j] = b[j]
    <3>1. j \in Nat \ {0} /\ ~(i <= j) /\ (j <= x \/ j <= y)
      BY <2>3
    <3>2. j \notin D
      BY <2>2, <3>1
    <3>. QED BY <2>0, <3>1, <3>2
  <2>. HIDE DEF D
  <2>5. CASE i > x
    <3>1. i \in 1..y
      BY <2>3, <2>5
    <3>2. Parts(a, b, i)
      BY <2>0, <2>4, <2>5, <3>1 DEF Parts
    <3>. QED BY <1>1, <2>0, <3>1, <3>2
  <2>6. CASE i > y
    <3>1. i \in 1..x
      BY <2>3, <2>6
    <3>2. Parts(b, a, i)
      BY <2>0, <2>4, <2>6, <3>1 DEF Parts
    <3>. QED BY <1>1, <2>0, <3>1, <3>2
  <2>7. CASE i <= x /\ i <= y
    <3>1. i \in 1..x /\ i \in 1..y /\ a[i] \in Int /\ b[i] \in Int /\ a[i] # b[i]
      BY <1>2, <2>0, <2>3, <2>7
    <3>2. a[i] < b[i] \/ b[i] < a[i]
      BY <3>1
    <3>3. Parts(a, b, i) \/ Parts(b, a, i)
      BY <2>0, <2>4, <3>1, <3>2 DEF Parts
    <3>. QED BY <1>1, <2>0, <3>1, <3>3
  <2>. QED BY <2>0, <2>3, <2>5, <2>6, <2>7
<1>6. Sorts(R, S)
  BY <1>3, <1>4, <1>5 DEF Sorts
<1>. QED BY <1>6 DEF R

\* A page of a sorted set has the members whose place is on it, in order.
OnPage(r, S, R, off, lim) ==
  /\ Len(r) \in Nat
  /\ \A i \in 1..Len(r) : r[i] \in S /\ Cardinality(Ahead(S, R, r[i])) = off + i - 1 /\ i <= lim
  /\ \A x \in S : Cardinality(Ahead(S, R, x)) \in off..(off + lim - 1) => \E i \in 1..Len(r) : r[i] = x
  /\ \A i, j \in 1..Len(r) : i < j => <<r[i], r[j]>> \in R
LEMMA SortedPage ==
  ASSUME NEW S, IsFiniteSet(S), NEW R, Sorts(R, S), NEW off \in Nat, NEW lim \in Nat
  PROVE  OnPage(Queries!Slice(Queries!InOrder(S, R), off, lim), S, R, off, lim)
<1> DEFINE s == Queries!InOrder(S, R)
           r == Queries!Slice(s, off, lim)
<1>1. Placed(s, S, R)
  <2>1. PICK T \in SUBSET S : T = S
    OBVIOUS
  <2>2. Sorted(s, S, R)
    BY InOrderSorts
  <2>. HIDE DEF s
  <2>. QED BY <2>1, <2>2, SortedFacts
<1>. HIDE DEF s
<1>2. /\ s \in Seq(S) /\ \A x \in S : \E k \in 1..Len(s) : s[k] = x
      /\ \A i, j \in 1..Len(s) : <<s[i], s[j]>> \in R <=> i < j
      /\ \A k \in 1..Len(s) : Cardinality(Ahead(S, R, s[k])) = k - 1
  BY <1>1 DEF Placed
<1>3. Sliced(r, s, off, lim)
  BY <1>2, SliceFacts
<1>. HIDE DEF r
<1>0. PICK n \in Nat, m \in Nat : n = Len(s) /\ m = Len(r)
  <2>1. Len(s) \in Nat
    BY <1>2
  <2>. QED BY <1>3, <2>1 DEF Sliced
<1>4. /\ m <= lim /\ (m < lim => off + m >= n)
      /\ \A i \in 1..m : off + i \in 1..n /\ r[i] = s[off + i]
  BY <1>0, <1>3 DEF Sliced
<1>5. ASSUME NEW i \in 1..m
      PROVE  r[i] \in S /\ Cardinality(Ahead(S, R, r[i])) = off + i - 1 /\ i <= lim
  <2>1. PICK k \in 1..n : k = off + i /\ r[i] = s[k]
    BY <1>4
  <2>2. Cardinality(Ahead(S, R, s[k])) = k - 1 /\ s[k] \in S
    BY <1>0, <1>2
  <2>3. k - 1 = off + i - 1 /\ i <= lim
    BY <1>4, <2>1
  <2>. QED BY <2>1, <2>2, <2>3
<1>6. ASSUME NEW x \in S, Cardinality(Ahead(S, R, x)) \in off..(off + lim - 1)
      PROVE  \E i \in 1..m : r[i] = x
  <2>1. PICK k \in 1..n : s[k] = x
    BY <1>0, <1>2
  <2>2. Cardinality(Ahead(S, R, s[k])) = k - 1
    BY <1>0, <1>2
  <2>3. k - 1 \in off..(off + lim - 1)
    BY <1>6, <2>1, <2>2
  <2>4. PICK i \in 1..m : off + i = k
    <3>1. k - off \in Nat /\ k - off >= 1 /\ k - off <= lim /\ k <= n
      BY <2>3
    <3>2. k - off <= m
      BY <1>4, <3>1
    <3>. QED BY <3>1, <3>2
  <2>. QED BY <1>4, <2>1, <2>4
<1>7. ASSUME NEW i \in 1..m, NEW j \in 1..m, i < j PROVE <<r[i], r[j]>> \in R
  <2>1. PICK k \in 1..n, l \in 1..n : k = off + i /\ l = off + j /\ r[i] = s[k] /\ r[j] = s[l]
    BY <1>4
  <2>2. k < l
    BY <1>7, <2>1
  <2>. QED BY <1>0, <1>2, <2>1, <2>2
<1>8. OnPage(r, S, R, off, lim)
  BY <1>0, <1>5, <1>6, <1>7 DEF OnPage
<1>. QED BY <1>8 DEF r, s

\* What the search leaves out it leaves out for its filter: the rows of a page
\* that is not empty were all the rows that pass, in order.
LEMMA SearchStaysExact ==
  ASSUME Queries!QueriesAssumption, Len(rows) \in Nat,
         NEW query \in BOOLEAN, NEW filter \in Queries!Filters, NEW limit \in Queries!Limits,
         NEW offset \in Queries!Offsets, NEW reached \in BOOLEAN,
         Queries!SearchOp(query, filter, limit, offset, reached)
  PROVE  PagesExact'
<1>1. limit \in Nat \ {0} /\ offset \in Nat
  BY DEF Queries!QueriesAssumption, Queries!Limits, Queries!Offsets
<1> DEFINE O == {i \in 1..Len(rows) : Queries!Pushed(filter) \cap Queries!ServerKeys(query) \subseteq rows[i]}
           P == {i \in 1..Len(rows) : \A key \in Queries!PostFilter(filter) : Queries!Passes(i, key, query)}
           W == {i \in 1..Len(rows) : filter \cap (Queries!ServerKeys(query) \cup Queries!Carried(query)) \subseteq rows[i]}
           n == Queries!RowsAsked(query, limit, offset)
           cap == IF query THEN MaxTopK ELSE MaxListSize
           all == Queries!Ascending(O)
<1>0. PICK ok, items, r : /\ ok = all /\ items = SubSeq(ok, 1, Queries!Min({n, Len(ok)}))
                          /\ r = Queries!Slice(Queries!Kept(items, P), offset, limit)
  OBVIOUS
<1>2. /\ rows' = rows /\ ask'.kind = "search" /\ ask'.query = query /\ ask'.filter = filter
      /\ ask'.limit = limit /\ ask'.offset = offset /\ ask'.reached = reached
      /\ answer' = IF ~reached THEN <<>> ELSE r
  BY <1>0 DEF Queries!SearchOp, Queries!ApplyFilter, Queries!ServerRows
<1>3. Queries!Passing' = W
  BY <1>2 DEF Queries!Passing
<1>4. n \in Nat /\ (offset + limit <= cap => n = offset + limit)
  <2>1. cap \in Nat /\ limit + offset \in Nat /\ limit + offset >= 1
    BY <1>1 DEF Queries!QueriesAssumption
  <2>2. Queries!Wanted(limit, offset) = limit + offset
    <3>1. 1 \in Int /\ limit + offset \in Int
      BY <2>1
    <3>2. Queries!Max({1, limit + offset}) = IF 1 >= limit + offset THEN 1 ELSE limit + offset
      BY <3>1, GreaterOf
    <3>. QED BY <2>1, <3>2 DEF Queries!Wanted
  <2>3. n = IF cap <= limit + offset THEN cap ELSE limit + offset
    <3>1. cap \in Int /\ limit + offset \in Int
      BY <2>1
    <3>2. Queries!Min({cap, limit + offset}) = IF cap <= limit + offset THEN cap ELSE limit + offset
      BY <3>1, LesserOf
    <3>. QED BY <2>2, <3>2 DEF Queries!RowsAsked
  <2>. QED BY <1>1, <2>1, <2>3
<1>5. O \cap P \subseteq W
  <2>1. ASSUME NEW i \in O \cap P, NEW key \in filter, key \in Queries!ServerKeys(query) \/ key \in Queries!Carried(query)
        PROVE  key \in rows[i]
    <3>1. CASE key \in Queries!ServerKeys(query)
      BY <3>1 DEF Queries!ServerKeys, Queries!Pushed
    <3>2. CASE key \in Queries!Carried(query)
      BY <3>2 DEF Queries!Carried, Queries!PostFilter, Queries!Passes
    <3>. QED BY <2>1, <3>1, <3>2
  <2>. QED BY <2>1
<1>6. W \subseteq O
  BY DEF Queries!Pushed
<1>7. Queries!PostFilter(filter) \subseteq Queries!Carried(query) => W \subseteq P
  BY DEF Queries!PostFilter, Queries!Passes
<1>8. ~(Queries!PostFilter(filter) \subseteq Queries!Carried(query)) => P = {}
  BY DEF Queries!Passes
<1>9. Queries!PostFilter(filter) = {} => O \subseteq P /\ W = O
  BY <1>5, <1>6
<1>10. O \in SUBSET (1..Len(rows))
  OBVIOUS
<1>. HIDE DEF O, P, W, n, cap, all
<1>11. /\ Len(r) \in Nat /\ Len(r) <= limit
       /\ \A k \in 1..Len(r) : r[k] \in O \cap P /\ Cardinality(Below(O \cap P, r[k])) = offset + k - 1
       /\ O \subseteq P /\ n = offset + limit /\ Len(r) < limit => offset + Len(r) >= Cardinality(O)
  <2>1. PICK l \in Nat : l = Len(rows)
    OBVIOUS
  <2>2. ok = Queries!Ascending(O)
    BY <1>0 DEF all
  <2>3. PageOf(r, O, P, n, offset, limit)
    BY <1>0, <1>1, <1>4, <1>10, <2>1, <2>2, PageFacts
  <2>. QED BY <2>3 DEF PageOf
<1>12. Len(answer') \in Nat /\ Len(answer') <= limit
  BY <1>1, <1>2, <1>11
<1>13. ASSUME NEW k \in 1..Len(answer')
       PROVE  /\ answer'[k] \in W
              /\ Queries!Cardinality({j \in W : j < answer'[k]}) = offset + k - 1
  <2>1. reached /\ answer' = r /\ k \in 1..Len(r)
    BY <1>2, <1>13
  <2>2. r[k] \in O \cap P /\ Cardinality(Below(O \cap P, r[k])) = offset + k - 1
    BY <1>11, <2>1
  <2>3. W = O \cap P
    BY <1>5, <1>6, <1>7, <1>8, <2>2
  <2>4. Below(O \cap P, r[k]) = {j \in W : j < r[k]}
    BY <2>3 DEF Below
  <2>. QED BY <2>1, <2>2, <2>3, <2>4, QueriesSizes
<1>14. Queries!PageIsExact'
  BY <1>2, <1>3, <1>12, <1>13 DEF Queries!PageIsExact, Queries!Place
<1>15. Queries!ShortPageIsLast'
  <2>1. ASSUME reached, Queries!PostFilter(filter) = {}, offset + limit <= cap, Len(answer') < limit
        PROVE  offset + Len(answer') >= Cardinality(W)
    BY <1>2, <1>4, <1>9, <1>11, <2>1
  <2>2. Cardinality(W) = Queries!Cardinality(Queries!Passing')
    BY <1>3, QueriesSizes
  <2>. QED BY <1>2, <2>1, <2>2 DEF Queries!ShortPageIsLast, cap
<1>16. Queries!NamespacePageIsExact'
  BY <1>2 DEF Queries!NamespacePageIsExact
<1>. QED BY <1>14, <1>15, <1>16 DEF PagesExact

\* The beginning of a sequence over S.
LEMMA Prefixes ==
  ASSUME NEW S, NEW s \in Seq(S), NEW l \in Nat, l <= Len(s)
  PROVE  SubSeq(s, 1, l) \in Seq(S)
OBVIOUS

\* The paths a listing answers with are finitely many sequences of labels.
LEMMA CutPaths ==
  ASSUME NEW M, IsFiniteSet(M), M \subseteq Seq(Int), NEW depth \in Nat
  PROVE  /\ IsFiniteSet({Queries!Cut(m, depth) : m \in M})
         /\ {Queries!Cut(m, depth) : m \in M} \subseteq Seq(Int)
<1> DEFINE T == {Queries!Cut(m, depth) : m \in M}
           f == [m \in M |-> Queries!Cut(m, depth)]
<1>1. f \in [M -> T] /\ \A t \in T : \E m \in M : f[m] = t
  OBVIOUS
<1>2. ASSUME NEW m \in M PROVE Queries!Cut(m, depth) \in Seq(Int)
  <2>1. m \in Seq(Int) /\ Len(m) \in Nat
    OBVIOUS
  <2>2. PICK l \in Nat : l = Queries!Min({depth, Len(m)}) /\ l <= Len(m)
    <3>1. depth \in Int /\ Len(m) \in Int
      BY <2>1
    <3>2. Queries!Min({depth, Len(m)}) = IF depth <= Len(m) THEN depth ELSE Len(m)
      BY <3>1, LesserOf
    <3>. QED BY <2>1, <3>2
  <2>3. SubSeq(m, 1, l) \in Seq(Int)
    BY <2>1, <2>2, Prefixes
  <2>. QED BY <2>1, <2>2, <2>3 DEF Queries!Cut
<1>. HIDE DEF f
<1>3. T \subseteq Seq(Int)
  BY <1>2
<1>. HIDE DEF T
<1>4. f \in Surjection(M, T)
  BY <1>1 DEF Surjection
<1>5. IsFiniteSet(T)
  BY <1>4, FS_Surjection
<1>. QED BY <1>3, <1>5 DEF T

\* A listing cuts its page from all that match, sorted.
LEMMA ListStaysExact ==
  ASSUME Queries!QueriesAssumption, IsFiniteSet(names), names \subseteq Seq(Int),
         NEW pattern, NEW matchType, NEW depth \in 0..1, NEW limit \in Queries!Limits,
         NEW offset \in Queries!Offsets,
         Queries!ListNamespacesOp(pattern, matchType, depth, limit, offset)
  PROVE  PagesExact'
<1>1. limit \in Nat /\ offset \in Nat /\ depth \in Nat
  BY DEF Queries!QueriesAssumption, Queries!Limits, Queries!Offsets
<1> DEFINE M == {m \in names : Queries!Matches(pattern, matchType, m)}
           S == {Queries!Cut(m, depth) : m \in M}
           R == {p \in S \X S : Queries!Before(p[1], p[2])}
           r == Queries!Slice(Queries!InOrder(S, R), offset, limit)
<1>2. /\ names' = names /\ ask'.kind = "list" /\ ask'.pattern = pattern /\ ask'.matchType = matchType
      /\ ask'.depth = depth /\ ask'.limit = limit /\ ask'.offset = offset /\ answer' = r
  BY DEF Queries!ListNamespacesOp, Queries!SortedPaths
<1>3. IsFiniteSet(M) /\ M \subseteq Seq(Int)
  BY FS_Subset
<1>4. S = {Queries!Cut(m, ask'.depth) : m \in {m \in names' : Queries!Matches(ask'.pattern, ask'.matchType, m)}}
  BY <1>2
<1>. HIDE DEF M
<1>5. IsFiniteSet(S) /\ S \subseteq Seq(Int)
  BY <1>1, <1>3, CutPaths
<1>. HIDE DEF S
<1>6. Sorts(R, S)
  <2>1. S \in SUBSET Seq(Int)
    BY <1>5
  <2>. QED BY <2>1, BeforeSorts
<1>7. \A x, y \in S : <<x, y>> \in R <=> Queries!Before(x, y)
  OBVIOUS
<1>. HIDE DEF R
<1>8. OnPage(r, S, R, offset, limit)
  BY <1>1, <1>5, <1>6, SortedPage
<1>. HIDE DEF r
<1>9. ASSUME NEW x \in S PROVE Queries!Cardinality({y \in S : Queries!Before(y, x)}) = Cardinality(Ahead(S, R, x))
  <2>1. Ahead(S, R, x) = {y \in S : Queries!Before(y, x)}
    BY <1>7 DEF Ahead
  <2>. QED BY <2>1, QueriesSizes
<1>10. /\ Len(r) \in Nat
       /\ \A i \in 1..Len(r) : r[i] \in S /\ Cardinality(Ahead(S, R, r[i])) = offset + i - 1 /\ i <= limit
       /\ \A x \in S : Cardinality(Ahead(S, R, x)) \in offset..(offset + limit - 1) => \E i \in 1..Len(r) : r[i] = x
       /\ \A i, j \in 1..Len(r) : i < j => <<r[i], r[j]>> \in R
  BY <1>8 DEF OnPage
<1>11. \A i \in 1..Len(r) : r[i] \in S /\ Cardinality(Ahead(S, R, r[i])) \in offset..(offset + limit - 1)
  <2>1. \A i \in 1..Len(r) : offset + i - 1 \in offset..(offset + limit - 1)
    BY <1>1, <1>10
  <2>. QED BY <1>10, <2>1
<1>12. {r[i] : i \in 1..Len(r)}
         = {x \in S : Queries!Cardinality({y \in S : Queries!Before(y, x)}) \in offset..(offset + limit - 1)}
  BY <1>9, <1>10, <1>11
<1>13. \A i, j \in 1..Len(r) : i < j => Queries!Before(r[i], r[j])
  BY <1>7, <1>10
<1>14. Queries!NamespacePageIsExact'
  BY <1>2, <1>4, <1>12, <1>13 DEF Queries!NamespacePageIsExact
<1>15. Queries!PageIsExact' /\ Queries!ShortPageIsLast'
  BY <1>2 DEF Queries!PageIsExact, Queries!ShortPageIsLast
<1>. QED BY <1>14, <1>15 DEF PagesExact

\* The paths of the registry are finitely many.
LEMMA PathsFinite ==
  ASSUME Queries!QueriesAssumption PROVE IsFiniteSet(Queries!Paths) /\ Queries!Paths \subseteq Seq(Int)
<1> DEFINE D == 1..MaxLabel
           A == {<<a>> : a \in D}
           B == {<<a, b>> : a, b \in D}
           f == [a \in D |-> <<a>>]
<1>1. IsFiniteSet(D) /\ \A a \in D : a \in Int
  BY IntervalSize DEF Queries!QueriesAssumption
<1>2. Queries!Paths = A \cup B
  BY DEF Queries!Paths
<1>. HIDE DEF D
<1>3. B = D \X D
  OBVIOUS
<1>4. A \subseteq Seq(Int) /\ B \subseteq Seq(Int)
  <2>1. \A a \in D : <<a>> \in Seq(Int)
    BY <1>1
  <2>2. \A a, b \in D : <<a, b>> \in Seq(Int)
    BY <1>1
  <2>3. ASSUME NEW t \in A PROVE t \in Seq(Int)
    <3>1. PICK a \in D : t = <<a>>
      OBVIOUS
    <3>. QED BY <2>1, <3>1
  <2>4. ASSUME NEW t \in B PROVE t \in Seq(Int)
    <3>1. PICK a \in D, b \in D : t = <<a, b>>
      OBVIOUS
    <3>. QED BY <2>2, <3>1
  <2>. HIDE DEF A, B
  <2>. QED BY <2>3, <2>4
<1>5. f \in [D -> A] /\ \A t \in A : \E a \in D : f[a] = t
  <2>1. \A a \in D : <<a>> \in A
    OBVIOUS
  <2>2. \A t \in A : \E a \in D : <<a>> = t
    OBVIOUS
  <2>. HIDE DEF A
  <2>. QED BY <2>1, <2>2
<1>. HIDE DEF f, A, B
<1>6. f \in Surjection(D, A)
  BY <1>5 DEF Surjection
<1>7. IsFiniteSet(A)
  BY <1>1, <1>6, FS_Surjection
<1>8. IsFiniteSet(B)
  BY <1>1, <1>3, FS_Product
<1>9. IsFiniteSet(A \cup B)
  BY <1>7, <1>8, FS_Union
<1>. QED BY <1>2, <1>4, <1>9

\* The queries keep what they answer exact; nothing else touches it.
QueriesInv == Len(rows) \in Nat /\ IsFiniteSet(names) /\ names \subseteq Seq(Int) /\ PagesExact

\* Before the first query there is no page.
LEMMA QueriesInit == ASSUME Queries!QueriesAssumption, Init PROVE QueriesInv
<1>1. ask = Queries!NoQuery
  BY DEF Init, Queries!Init
<1>2. PagesExact
  BY <1>1 DEF Queries!NoQuery, PagesExact, Queries!PageIsExact, Queries!ShortPageIsLast, Queries!NamespacePageIsExact
<1>3. CASE part = "queries"
  <2>1. PICK n \in 0..MaxRows : rows \in [1..n -> Queries!Rows]
    BY <1>3 DEF Init, Queries!Init
  <2>2. n \in Nat /\ Len(rows) = n
    BY <2>1 DEF Queries!QueriesAssumption
  <2>3. names \subseteq Queries!Paths
    BY <1>3 DEF Init, Queries!Init
  <2>. QED BY <1>2, <2>2, <2>3, PathsFinite, FS_Subset DEF QueriesInv
<1>4. CASE part # "queries"
  <2>1. rows = <<>> /\ names = {}
    BY <1>4 DEF Init
  <2>. QED BY <1>2, <2>1, FS_EmptySet DEF QueriesInv
<1>. QED BY <1>3, <1>4

\* Every query answers with an exact page, and what it asked stays what it was.
LEMMA QueriesNext == ASSUME Queries!QueriesAssumption, QueriesInv, [Queries!Next]_queryVars PROVE QueriesInv'
<1>1. Len(rows) \in Nat /\ IsFiniteSet(names) /\ names \subseteq Seq(Int) /\ PagesExact
  BY DEF QueriesInv
<1>2. CASE UNCHANGED queryVars
  <2>1. rows' = rows /\ names' = names /\ ask' = ask /\ answer' = answer
    BY <1>2 DEF queryVars
  <2>2. Queries!Passing' = Queries!Passing
    BY <2>1 DEF Queries!Passing
  <2>3. Queries!PageIsExact'
    BY <1>1, <2>1, <2>2 DEF PagesExact, Queries!PageIsExact, Queries!Place
  <2>4. Queries!ShortPageIsLast'
    BY <1>1, <2>1, <2>2 DEF PagesExact, Queries!ShortPageIsLast
  <2>5. Queries!NamespacePageIsExact'
    <3> DEFINE S == {Queries!Cut(m, ask.depth) : m \in {m \in names : Queries!Matches(ask.pattern, ask.matchType, m)}}
    <3>1. ask.kind = "list" =>
            /\ {answer[i] : i \in 1..Len(answer)}
                 = {x \in S : Queries!Cardinality({y \in S : Queries!Before(y, x)})
                               \in ask.offset..(ask.offset + ask.limit - 1)}
            /\ \A i, j \in 1..Len(answer) : i < j => Queries!Before(answer[i], answer[j])
      BY <1>1 DEF PagesExact, Queries!NamespacePageIsExact
    <3>2. S = {Queries!Cut(m, ask'.depth) :
                m \in {m \in names' : Queries!Matches(ask'.pattern, ask'.matchType, m)}}
      BY <2>1
    <3>. HIDE DEF S
    <3>3. ask'.kind = "list" =>
            /\ {answer'[i] : i \in 1..Len(answer')}
                 = {x \in S : Queries!Cardinality({y \in S : Queries!Before(y, x)})
                               \in ask'.offset..(ask'.offset + ask'.limit - 1)}
            /\ \A i, j \in 1..Len(answer') : i < j => Queries!Before(answer'[i], answer'[j])
      BY <2>1, <3>1
    <3>. QED BY <3>2, <3>3 DEF Queries!NamespacePageIsExact
  <2>. QED BY <1>1, <2>1, <2>3, <2>4, <2>5 DEF QueriesInv, PagesExact
<1>3. CASE Queries!Next
  <2>1. PICK limit \in Queries!Limits, offset \in Queries!Offsets :
          \/ \E query \in BOOLEAN, filter \in Queries!Filters, reached \in BOOLEAN :
               Queries!SearchOp(query, filter, limit, offset, reached)
          \/ \E pattern \in Queries!Patterns, matchType \in {"prefix", "suffix"}, depth \in 0..1 :
               Queries!ListNamespacesOp(pattern, matchType, depth, limit, offset)
    BY <1>3 DEF Queries!Next
  <2>2. ASSUME NEW query \in BOOLEAN, NEW filter \in Queries!Filters, NEW reached \in BOOLEAN,
               Queries!SearchOp(query, filter, limit, offset, reached)
        PROVE  QueriesInv'
    <3>1. rows' = rows /\ names' = names
      BY <2>2 DEF Queries!SearchOp
    <3>2. PagesExact'
      BY <1>1, <2>2, SearchStaysExact
    <3>. QED BY <1>1, <3>1, <3>2 DEF QueriesInv
  <2>3. ASSUME NEW pattern, NEW matchType, NEW depth \in 0..1,
               Queries!ListNamespacesOp(pattern, matchType, depth, limit, offset)
        PROVE  QueriesInv'
    <3>1. rows' = rows /\ names' = names
      BY <2>3 DEF Queries!ListNamespacesOp
    <3>2. PagesExact'
      BY <1>1, <2>3, ListStaysExact
    <3>. QED BY <1>1, <3>1, <3>2 DEF QueriesInv
  <2>. QED BY <2>1, <2>2, <2>3
<1>. QED BY <1>2, <1>3

------------------------------------------------------------------------------
\* The three side by side: each part's steps are its own, and the parts that do not run
\* stay as they were.
Inv == StoreInv /\ QueriesInv /\ MemoryInv

\* The three begin as they should.
LEMMA InitInv == Assumptions /\ Init => Inv
<1>1. Init => Store!Init /\ Memory!Init
  BY DEF Init
<1>2. Assumptions /\ Init => QueriesInv
  BY QueriesInit
<1>. QED BY <1>1, <1>2, StoreInit, MemoryInit DEF Inv

\* A step of one keeps all three.
LEMMA NextInv ==
  ASSUME Inv, [Next]_<<part, storeVars, queryVars, memoryVars>>
  PROVE  Inv'
<1>1. [Store!Next]_storeVars /\ [Queries!Next]_queryVars /\ [Memory!Next]_memoryVars
  BY DEF Next
<1>. QED BY <1>1, Assumptions, StoreNext, QueriesNext, MemoryNext DEF Inv

\* The invariant holds throughout.
LEMMA SpecInv == Spec => []Inv
<1>1. Init => Inv
  BY Assumptions, InitInv
<1>2. Inv /\ [Next]_<<part, storeVars, queryVars, memoryVars>> => Inv'
  BY NextInv
<1>. QED BY <1>1, <1>2, PTL DEF Spec

\* Every part keeps the types of its state: the tables stay under their caps.
THEOREM Types == Spec => []TypeOK
<1>1. Inv => TypeOK
  BY MemoryImplied DEF Inv, StoreInv, TypeOK
<1>. QED BY <1>1, SpecInv, PTL

\* From the answer of a put until a delete of its slot begins, the cap pushes the
\* entry out or an answer leaves the entry behind (it has no id, or the one the key
\* is), the slot resolves to the memory the latest answer named, a new one or one
\* other slots share, whatever batches answer in between (rememberAlias, resolveKey
\* and putOp of store.ts).
THEOREM RoundTrips == Spec => []RoundTrip
<1>1. Inv => RoundTrip
  BY DEF Inv, StoreInv, RoundTrip
<1>. QED BY <1>1, SpecInv, PTL

\* A delete removes a memory a put of its own slot stored or was answered with, or
\* the one its caller named by id, although it was resolved before its request went
\* out (putOp of store.ts).
THEOREM DeletesOwnSlot == Spec => DeletesOwn
<1>1. Inv /\ [Next]_<<part, storeVars, queryVars, memoryVars>> => [OwnDeletes]_storeVars
  BY Assumptions, DeletesStep DEF Next, Inv
<1>2. Spec => [][OwnDeletes]_storeVars
  BY <1>1, SpecInv, PTL DEF Spec
<1>. QED BY <1>2 DEF OwnDeletes, DeletesOwn, Store!DeletesOwn, storeVars, Store!storeVars

\* A page of a search has the rows that belong at its positions, and none is left
\* when it is short where the server evaluates all of the filter under its cap; a
\* page of the namespaces has those whose place is on it, in order (searchOp and
\* listNamespacesOp of store.ts).
THEOREM PagesAreExact == Spec => []PagesExact
<1>1. Inv => PagesExact
  BY DEF Inv, QueriesInv
<1>. QED BY <1>1, SpecInv, PTL

\* Each message is handed to the server at most once, through tool loops, runs that
\* die halfway and trims past the cursor, as long as the bound has not dropped the
\* thread's cursor (newMessages, advanceCursor of memory.ts).
THEOREM SubmitsOnce == Spec => []SubmittedOnce
<1>1. Inv => SubmittedOnce
  BY MemoryImplied DEF Inv, SubmittedOnce
<1>. QED BY <1>1, SpecInv, PTL

\* Up to its cursor, a thread was handed over whole, but for what a trim past the
\* cursor cost before the turn it went on from.
THEOREM SkipsNothing == Spec => []NothingSkipped
<1>1. Inv => NothingSkipped
  BY MemoryImplied DEF Inv, NothingSkipped
<1>. QED BY <1>1, SpecInv, PTL

\* One search per message of the user, however often the tool loop calls the model
\* (recallNode and its cache), for every bound on the cache.
THEOREM SearchesOncePerTurn == Spec => []OneSearchPerTurn
<1>1. Inv => OneSearchPerTurn
  BY MemoryImplied DEF Inv, OneSearchPerTurn
<1>. QED BY <1>1, SpecInv, PTL

\* What the model is given was recalled for the message it answers.
THEOREM BlocksMatch == Spec => []BlockMatchesTurn
<1>1. Inv => BlockMatchesTurn
  BY MemoryImplied DEF Inv, BlockMatchesTurn
<1>. QED BY <1>1, SpecInv, PTL
==============================================================================
