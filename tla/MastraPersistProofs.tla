------------------------- MODULE MastraPersistProofs -------------------------
(***************************************************************************)
(* The latch of processOutputResult keeps its promises for every number of *)
(* threads, turns, calls and writes, and every bound on tracked threads.   *)
(***************************************************************************)
EXTENDS MastraPersist, LruProofs, TLAPS

USE MaxThreadsAssumption, NoWriteAssumption, NoLatchAssumption

\* The inductive strengthening of WrittenOnce.  A write in flight has the latch
\* of its thread, or that latch was displaced; and a written turn is held by a
\* permanent latch, or its latch was displaced.
OwnedOrDisplaced ==
  \A w \in Writes : InFlight(w) =>
    Owns(w) \/ writes[w].turn \in displaced[writes[w].key]

WrittenIsHeld ==
  \A k \in Keys : \A m \in confirmed[k] :
    \/ m \in displaced[k]
    \/ latch[k] # NoLatch /\ latch[k].turn = m /\ latch[k].inFlight = NoWrite

\* What #remember leaves: k has its new latch; another thread keeps its own or
\* loses it to the bound; every latch lost is recorded as displaced.
LEMMA RememberFacts ==
  ASSUME TypeOK, NEW k \in Keys, NEW l \in Latches, Remember(k, l)
  PROVE  /\ IsOrder(order', Keys, MaxThreads)
         /\ latch' \in [Keys -> Latches \cup {NoLatch}]
         /\ \A j \in Keys : latch'[j] # NoLatch <=> j \in Range(order')
         /\ displaced' \in [Keys -> SUBSET Turns]
         /\ latch'[k] = l
         /\ \A j \in Keys \ {k} : latch'[j] \in {latch[j], NoLatch}
         /\ \A j \in Keys : displaced[j] \subseteq displaced'[j]
         /\ \A j \in Keys : latch[j] # NoLatch /\ latch'[j] # latch[j] =>
                              latch[j].turn \in displaced'[j]
         /\ latch[k] # NoLatch => latch[k].turn \in displaced'[k]
<1> DEFINE used == Touch(order, k)
           dropped == Oldest(used, MaxThreads)
<1>1. IsOrder(order, Keys, MaxThreads) /\ MaxThreads \in Nat /\ k \in Keys
  BY DEF TypeOK
<1>2. IsOrder(used, Keys, MaxThreads + 1) /\ Len(used) > 0 /\ used[Len(used)] = k
  BY <1>1, TouchKeepsOrder
<1>3. Range(used) = Range(order) \cup {k}
  BY <1>1, TouchMembers
<1>. HIDE DEF used
<1>4. /\ IsOrder(Newest(used, MaxThreads), Keys, MaxThreads)
      /\ used[Len(used)] \in Range(Newest(used, MaxThreads))
      /\ Range(Newest(used, MaxThreads)) \subseteq Range(used)
  <2>1. MaxThreads + 1 \in Nat
    BY <1>1
  <2>. QED BY <1>2, <2>1, NewestKeepsOrder
<1>5. Range(Newest(used, MaxThreads)) = Range(used) \ dropped /\ k \notin dropped
  BY <1>2, <1>4 DEF Oldest
<1>. HIDE DEF dropped
<1>6. /\ order' = Newest(used, MaxThreads)
      /\ latch' = [j \in Keys |-> IF j \in dropped THEN NoLatch
                                  ELSE IF j = k THEN l ELSE latch[j]]
      /\ displaced' = [j \in Keys |->
                         IF j \in dropped \cup {k} /\ latch[j] # NoLatch
                         THEN displaced[j] \cup {latch[j].turn}
                         ELSE displaced[j]]
  BY DEF Remember, used, dropped
<1>7. \A j \in Keys : latch[j] # NoLatch => latch[j] \in Latches /\ latch[j].turn \in Turns
  BY DEF TypeOK, Latches
<1>8. l # NoLatch
  BY DEF Latches
<1>9. IsOrder(order', Keys, MaxThreads) /\ Range(order') = (Range(order) \cup {k}) \ dropped
  BY <1>3, <1>4, <1>5, <1>6
<1>10. \A j \in Keys : latch'[j] # NoLatch <=> j \in Range(order')
  BY <1>5, <1>6, <1>8, <1>9 DEF TypeOK
<1>11. latch' \in [Keys -> Latches \cup {NoLatch}] /\ displaced' \in [Keys -> SUBSET Turns]
  BY <1>6, <1>7 DEF TypeOK
<1>. QED BY <1>5, <1>6, <1>9, <1>10, <1>11

\* What happens to the latches when write w fails.
LEMMA ReleaseFacts ==
  ASSUME TypeOK, NEW w \in Writes, InFlight(w), Release(w)
  PROVE  /\ IsOrder(order', Keys, MaxThreads)
         /\ latch' \in [Keys -> Latches \cup {NoLatch}]
         /\ \A j \in Keys : latch'[j] # NoLatch <=> j \in Range(order')
         /\ latch' = IF Owns(w) THEN [latch EXCEPT ![writes[w].key] = NoLatch] ELSE latch
<1>1. IsOrder(order, Keys, MaxThreads) /\ MaxThreads \in Nat
  BY DEF TypeOK
<1>2. writes[w].key \in Keys
  BY DEF TypeOK, InFlight, Requests
<1>3. CASE Owns(w)
  <2>0. PICK k \in Keys : k = writes[w].key
    BY <1>2
  <2>1. order' = Without(order, k) /\ latch' = [latch EXCEPT ![k] = NoLatch]
    BY <1>3, <2>0 DEF Release
  <2>2. /\ IsOrder(Without(order, k), Keys, MaxThreads)
        /\ Range(Without(order, k)) = Range(order) \ {k}
    <3>1. k \in Keys
      OBVIOUS
    <3>2. IsOrder(Without(order, k), Keys, MaxThreads)
      BY <1>1, <3>1, WithoutKeepsOrder
    <3>3. Range(Without(order, k)) = Range(order) \ {k}
      BY <1>1, <3>1, WithoutMembers
    <3>. QED BY <3>2, <3>3
  <2>. QED BY <1>3, <2>0, <2>1, <2>2 DEF TypeOK
<1>4. CASE ~Owns(w)
  <2>1. order' = order /\ latch' = latch
    BY <1>4 DEF Release, memory
  <2>. QED BY <2>1, <1>4 DEF TypeOK
<1>. QED BY <1>3, <1>4

\* Every value keeps its type, and the latches stay within their bound.
THEOREM TypeCorrect == Spec => []TypeOK
<1>1. Init => TypeOK
  <2>. SUFFICES ASSUME Init PROVE TypeOK
    OBVIOUS
  <2>1. IsOrder(order, Keys, MaxThreads) /\ Range(order) = {}
    BY DEF Init, IsOrder, Range
  <2>. QED BY <2>1 DEF Init, TypeOK, NoTurns
<1>2. TypeOK /\ [Next]_vars => TypeOK'
  <2>. SUFFICES ASSUME TypeOK, [Next]_vars PROVE TypeOK'
    OBVIOUS
  <2>1. ASSUME NEW c \in Calls, NEW k \in Keys, NEW m \in Turns, Join(c, k, m) PROVE TypeOK'
    <3>1. latch[k].inFlight \in Writes
      BY <2>1 DEF Join, Held, TypeOK, Latches
    <3>. QED BY <2>1, <3>1 DEF Join, Await, TypeOK, memory, history
  <2>2. ASSUME NEW c \in Calls, NEW k \in Keys, NEW m \in Turns, Persist(c, k, m) PROVE TypeOK'
    <3>1. PICK w \in Writes :
            /\ writes' = [writes EXCEPT ![w] = [key |-> k, turn |-> m, at |-> "sent"]]
            /\ Remember(k, [turn |-> m, inFlight |-> w])
            /\ Await(c, w, k, m)
      BY <2>2 DEF Persist
    <3>2. [turn |-> m, inFlight |-> w] \in Latches
      BY DEF Latches
    <3>3. /\ IsOrder(order', Keys, MaxThreads)
          /\ latch' \in [Keys -> Latches \cup {NoLatch}]
          /\ \A j \in Keys : latch'[j] # NoLatch <=> j \in Range(order')
          /\ displaced' \in [Keys -> SUBSET Turns]
      BY <3>1, <3>2, RememberFacts
    <3>. QED BY <2>2, <3>1, <3>3 DEF Persist, Await, TypeOK, Requests
  <2>3. ASSUME NEW w \in Writes, ServerStores(w) PROVE TypeOK'
    <3>1. writes[w] \in Requests
      BY <2>3 DEF ServerStores, InFlight, TypeOK
    <3>. QED BY <2>3, <3>1 DEF ServerStores, TypeOK, Requests, memory, history
  <2>4. ASSUME NEW w \in Writes, WriteSucceeds(w) PROVE TypeOK'
    <3>1. writes[w] \in Requests /\ writes[w].key \in Keys /\ writes[w].turn \in Turns
      BY <2>4 DEF WriteSucceeds, Settle, InFlight, TypeOK, Requests
    <3>2. /\ latch' \in [Keys -> Latches \cup {NoLatch}]
          /\ \A j \in Keys : latch'[j] # NoLatch <=> latch[j] # NoLatch
      <4>1. CASE ~Owns(w)
        BY <4>1, <2>4 DEF WriteSucceeds, TypeOK
      <4>2. CASE Owns(w)
        <5>1. latch[writes[w].key] \in Latches
          BY <4>2, <3>1 DEF Owns, TypeOK
        <5>2. [latch[writes[w].key] EXCEPT !.inFlight = NoWrite] \in Latches
          BY <5>1 DEF Latches
        <5>3. latch' = [latch EXCEPT ![writes[w].key] =
                          [latch[writes[w].key] EXCEPT !.inFlight = NoWrite]]
          BY <4>2, <2>4 DEF WriteSucceeds
        <5>4. [latch[writes[w].key] EXCEPT !.inFlight = NoWrite] # NoLatch
          BY <5>2 DEF Latches
        <5>. QED BY <4>2, <5>2, <5>3, <5>4, <3>1 DEF TypeOK, Owns
      <4>. QED BY <4>1, <4>2
    <3>. QED BY <2>4, <3>1, <3>2 DEF WriteSucceeds, Settle, TypeOK
  <2>5. ASSUME NEW w \in Writes, WriteFails(w) PROVE TypeOK'
    <3>1. writes[w] \in Requests /\ writes[w].key \in Keys /\ writes[w].turn \in Turns
      BY <2>5 DEF WriteFails, Settle, InFlight, TypeOK, Requests
    <3>2. /\ IsOrder(order', Keys, MaxThreads)
          /\ latch' \in [Keys -> Latches \cup {NoLatch}]
          /\ \A j \in Keys : latch'[j] # NoLatch <=> j \in Range(order')
      BY <2>5, ReleaseFacts DEF WriteFails, Settle
    <3>. QED BY <2>5, <3>1, <3>2 DEF WriteFails, Settle, TypeOK
  <2>6. CASE UNCHANGED vars
    BY <2>6 DEF vars, TypeOK
  <2>. QED BY <2>1, <2>2, <2>3, <2>4, <2>5, <2>6 DEF Next
<1>. QED BY <1>1, <1>2, PTL DEF Spec

\* NothingSwallowed: a latch holds a turn back only while its write is in
\* flight or after it succeeded.
THEOREM NeverSwallows == Spec => []NothingSwallowed
<1>1. Init => NothingSwallowed
  BY DEF Init, NothingSwallowed
<1>2. TypeOK /\ NothingSwallowed /\ [Next]_vars => NothingSwallowed'
  <2>. SUFFICES ASSUME TypeOK, NothingSwallowed, [Next]_vars,
                       NEW j \in Keys, (latch[j] # NoLatch)'
                PROVE  (IF latch[j].inFlight = NoWrite THEN latch[j].turn \in confirmed[j]
                        ELSE Carries(latch[j].inFlight, j, latch[j].turn))'
    BY DEF NothingSwallowed
  <2>0. latch[j] # NoLatch => /\ latch[j].inFlight \in Writes \cup {NoWrite}
                              /\ IF latch[j].inFlight = NoWrite THEN latch[j].turn \in confirmed[j]
                                 ELSE Carries(latch[j].inFlight, j, latch[j].turn)
    BY DEF NothingSwallowed, TypeOK, Latches
  <2>1. ASSUME NEW c \in Calls, NEW k \in Keys, NEW m \in Turns, Join(c, k, m)
        PROVE  (IF latch[j].inFlight = NoWrite THEN latch[j].turn \in confirmed[j]
                ELSE Carries(latch[j].inFlight, j, latch[j].turn))'
    BY <2>0, <2>1 DEF Join, memory, history, Carries, InFlight
  <2>2. ASSUME NEW c \in Calls, NEW k \in Keys, NEW m \in Turns, Persist(c, k, m)
        PROVE  (IF latch[j].inFlight = NoWrite THEN latch[j].turn \in confirmed[j]
                ELSE Carries(latch[j].inFlight, j, latch[j].turn))'
    <3>1. PICK w \in Writes :
            /\ ~InFlight(w)
            /\ writes' = [writes EXCEPT ![w] = [key |-> k, turn |-> m, at |-> "sent"]]
            /\ Remember(k, [turn |-> m, inFlight |-> w])
      BY <2>2 DEF Persist
    <3>2. [turn |-> m, inFlight |-> w] \in Latches /\ UNCHANGED confirmed
      BY <2>2 DEF Latches, Persist
    <3>3. /\ latch'[k] = [turn |-> m, inFlight |-> w]
          /\ \A i \in Keys \ {k} : latch'[i] \in {latch[i], NoLatch}
      BY <3>1, <3>2, RememberFacts
    <3>4. writes \in [Writes -> Requests \cup {Idle}]
      BY DEF TypeOK
    <3>5. CASE j = k
      <4>1. writes'[w] = [key |-> k, turn |-> m, at |-> "sent"] /\ writes'[w] # Idle
        BY <3>1, <3>4 DEF Idle
      <4>. QED BY <4>1, <3>3, <3>5 DEF Carries, InFlight
    <3>6. CASE j # k
      <4>1. latch'[j] = latch[j] /\ latch[j] # NoLatch
        BY <3>3, <3>6
      <4>2. CASE latch[j].inFlight = NoWrite
        BY <4>1, <4>2, <2>0, <3>2
      <4>3. CASE latch[j].inFlight # NoWrite
        <5>1. latch[j].inFlight # w
          BY <4>1, <4>3, <2>0, <3>1 DEF Carries
        <5>. QED BY <4>1, <4>3, <5>1, <2>0, <3>1, <3>4 DEF Carries, InFlight
      <4>. QED BY <4>2, <4>3
    <3>. QED BY <3>5, <3>6
  <2>3. ASSUME NEW w \in Writes, ServerStores(w)
        PROVE  (IF latch[j].inFlight = NoWrite THEN latch[j].turn \in confirmed[j]
                ELSE Carries(latch[j].inFlight, j, latch[j].turn))'
    <3>1. writes[w] \in Requests /\ writes' = [writes EXCEPT ![w].at = "stored"]
          /\ UNCHANGED <<latch, confirmed>>
      BY <2>3 DEF ServerStores, InFlight, TypeOK, memory, history
    <3>2. writes'[w].key = writes[w].key /\ writes'[w].turn = writes[w].turn /\ writes'[w] # Idle
          /\ \A v \in Writes \ {w} : writes'[v] = writes[v]
      BY <3>1 DEF TypeOK, Requests, Idle
    <3>. QED BY <2>0, <3>1, <3>2 DEF Carries, InFlight
  <2>4. ASSUME NEW w \in Writes, WriteSucceeds(w)
        PROVE  (IF latch[j].inFlight = NoWrite THEN latch[j].turn \in confirmed[j]
                ELSE Carries(latch[j].inFlight, j, latch[j].turn))'
    <3>1. /\ InFlight(w) /\ writes[w].key \in Keys /\ writes[w].turn \in Turns
          /\ writes' = [writes EXCEPT ![w] = Idle]
          /\ confirmed' = [confirmed EXCEPT ![writes[w].key] = @ \cup {writes[w].turn}]
          /\ latch' = IF Owns(w) THEN [latch EXCEPT ![writes[w].key].inFlight = NoWrite] ELSE latch
      BY <2>4 DEF WriteSucceeds, Settle, InFlight, TypeOK, Requests
    <3>2. /\ \A i \in Keys : confirmed[i] \subseteq confirmed'[i]
          /\ writes[w].turn \in confirmed'[writes[w].key]
          /\ \A v \in Writes \ {w} : writes'[v] = writes[v]
      BY <3>1 DEF TypeOK
    <3>3. CASE Owns(w) /\ j = writes[w].key
      <4>1. latch[j] # NoLatch /\ latch[j].inFlight = w /\ latch[j] \in Latches
        BY <3>3 DEF Owns, TypeOK
      <4>2. latch[j].turn = writes[w].turn
        BY <4>1, <2>0 DEF Carries
      <4>3. latch'[j] = [latch[j] EXCEPT !.inFlight = NoWrite]
        BY <3>1, <3>3 DEF TypeOK
      <4>4. latch'[j].inFlight = NoWrite /\ latch'[j].turn = latch[j].turn
        BY <4>1, <4>3 DEF Latches
      <4>. QED BY <4>2, <4>4, <3>2, <3>3
    <3>4. CASE ~(Owns(w) /\ j = writes[w].key)
      <4>1. latch'[j] = latch[j]
        BY <3>1, <3>4 DEF TypeOK
      <4>2. latch[j].inFlight # w
        BY <4>1, <2>0, <3>4 DEF Carries, Owns
      <4>. QED BY <4>1, <4>2, <2>0, <3>2 DEF Carries, InFlight
    <3>. QED BY <3>3, <3>4
  <2>5. ASSUME NEW w \in Writes, WriteFails(w)
        PROVE  (IF latch[j].inFlight = NoWrite THEN latch[j].turn \in confirmed[j]
                ELSE Carries(latch[j].inFlight, j, latch[j].turn))'
    <3>1. /\ InFlight(w) /\ writes' = [writes EXCEPT ![w] = Idle]
          /\ UNCHANGED confirmed /\ Release(w)
      BY <2>5 DEF WriteFails, Settle
    <3>2. /\ latch' = IF Owns(w) THEN [latch EXCEPT ![writes[w].key] = NoLatch] ELSE latch
          /\ \A v \in Writes \ {w} : writes'[v] = writes[v]
      BY <3>1, ReleaseFacts DEF TypeOK
    <3>3. latch'[j] = latch[j] /\ ~(Owns(w) /\ j = writes[w].key)
      BY <3>2 DEF TypeOK
    <3>4. latch[j].inFlight # w
      BY <3>3, <2>0 DEF Carries, Owns
    <3>. QED BY <3>1, <3>2, <3>3, <3>4, <2>0 DEF Carries, InFlight
  <2>6. CASE UNCHANGED vars
    BY <2>0, <2>6 DEF vars, Carries, InFlight
  <2>. QED BY <2>1, <2>2, <2>3, <2>4, <2>5, <2>6 DEF Next
<1>. QED BY <1>1, <1>2, TypeCorrect, PTL DEF Spec

\* JoinsOwnTurn: whoever waits for a write waits for one of its own turn.
THEOREM JoinersWaitForTheirTurn == Spec => []JoinsOwnTurn
<1>1. Init => JoinsOwnTurn
  BY DEF Init, JoinsOwnTurn
<1>2. TypeOK /\ NothingSwallowed /\ JoinsOwnTurn /\ [Next]_vars => JoinsOwnTurn'
  <2>. SUFFICES ASSUME TypeOK, NothingSwallowed, JoinsOwnTurn, [Next]_vars,
                       NEW d \in Calls, (waitsFor[d] # NoWrite)'
                PROVE  Carries(waitsFor[d], turnOf[d][1], turnOf[d][2])'
    BY DEF JoinsOwnTurn
  <2>0. waitsFor[d] # NoWrite => /\ waitsFor[d] \in Writes
                                 /\ Carries(waitsFor[d], turnOf[d][1], turnOf[d][2])
    BY DEF JoinsOwnTurn, TypeOK
  <2>t. /\ waitsFor \in [Calls -> Writes \cup {NoWrite}]
        /\ turnOf \in [Calls -> Keys \X Turns \cup {<<>>}]
        /\ writes \in [Writes -> Requests \cup {Idle}]
    BY DEF TypeOK
  <2>1. ASSUME NEW c \in Calls, NEW k \in Keys, NEW m \in Turns, Join(c, k, m)
        PROVE  Carries(waitsFor[d], turnOf[d][1], turnOf[d][2])'
    <3>1. Carries(latch[k].inFlight, k, m)
      BY <2>1 DEF Join, Held, NothingSwallowed
    <3>2. UNCHANGED writes /\ Await(c, latch[k].inFlight, k, m)
      BY <2>1 DEF Join
    <3>. QED BY <2>0, <2>t, <3>1, <3>2 DEF Await, Carries, InFlight
  <2>2. ASSUME NEW c \in Calls, NEW k \in Keys, NEW m \in Turns, Persist(c, k, m)
        PROVE  Carries(waitsFor[d], turnOf[d][1], turnOf[d][2])'
    <3>1. PICK w \in Writes :
            /\ ~InFlight(w)
            /\ writes' = [writes EXCEPT ![w] = [key |-> k, turn |-> m, at |-> "sent"]]
            /\ Await(c, w, k, m)
      BY <2>2 DEF Persist
    <3>2. /\ writes'[w] = [key |-> k, turn |-> m, at |-> "sent"] /\ writes'[w] # Idle
          /\ \A v \in Writes \ {w} : writes'[v] = writes[v]
      BY <3>1, <2>t DEF Idle
    <3>3. CASE d = c /\ awaitPersist
      <4>1. waitsFor'[d] = w /\ turnOf'[d] = <<k, m>>
        BY <3>1, <3>3, <2>t DEF Await
      <4>. QED BY <4>1, <3>2 DEF Carries, InFlight
    <3>4. CASE ~(d = c /\ awaitPersist)
      <4>1. waitsFor'[d] = waitsFor[d] /\ turnOf'[d] = turnOf[d]
        BY <3>1, <3>4, <2>t DEF Await
      <4>2. waitsFor[d] # w
        BY <4>1, <2>0, <3>1 DEF Carries
      <4>. QED BY <4>1, <4>2, <2>0, <3>2 DEF Carries, InFlight
    <3>. QED BY <3>3, <3>4
  <2>3. ASSUME NEW w \in Writes, ServerStores(w)
        PROVE  Carries(waitsFor[d], turnOf[d][1], turnOf[d][2])'
    <3>1. writes[w] \in Requests /\ writes' = [writes EXCEPT ![w].at = "stored"]
          /\ UNCHANGED <<waitsFor, turnOf>>
      BY <2>3, <2>t DEF ServerStores, InFlight
    <3>2. writes'[w].key = writes[w].key /\ writes'[w].turn = writes[w].turn /\ writes'[w] # Idle
          /\ \A v \in Writes \ {w} : writes'[v] = writes[v]
      BY <3>1, <2>t DEF Requests, Idle
    <3>. QED BY <2>0, <3>1, <3>2 DEF Carries, InFlight
  <2>4. ASSUME NEW w \in Writes, Settle(w)
        PROVE  Carries(waitsFor[d], turnOf[d][1], turnOf[d][2])'
    <3>1. /\ waitsFor[d] # w /\ waitsFor'[d] = waitsFor[d] /\ turnOf'[d] = turnOf[d]
          /\ \A v \in Writes \ {w} : writes'[v] = writes[v]
      BY <2>4, <2>t DEF Settle
    <3>. QED BY <2>0, <3>1 DEF Carries, InFlight
  <2>5. CASE UNCHANGED vars
    BY <2>0, <2>5 DEF vars, Carries, InFlight
  <2>. QED BY <2>1, <2>2, <2>3, <2>4, <2>5 DEF Next, WriteSucceeds, WriteFails
<1>. QED BY <1>1, <1>2, TypeCorrect, NeverSwallows, PTL DEF Spec

\* OwnedOrDisplaced and WrittenIsHeld are inductive together: only the failure
\* of a latch's own write releases it, and whatever else takes a latch away
\* records the turn as displaced.
LEMMA LatchesAccountFor == Spec => [](OwnedOrDisplaced /\ WrittenIsHeld)
<1> DEFINE Inv == OwnedOrDisplaced /\ WrittenIsHeld
<1>1. Init => Inv
  BY DEF Init, OwnedOrDisplaced, WrittenIsHeld, InFlight, NoTurns
<1>2. TypeOK /\ NothingSwallowed /\ Inv /\ [Next]_vars => Inv'
  <2>. SUFFICES ASSUME TypeOK, NothingSwallowed, OwnedOrDisplaced, WrittenIsHeld, [Next]_vars
                PROVE  OwnedOrDisplaced' /\ WrittenIsHeld'
    OBVIOUS
  <2>t. /\ writes \in [Writes -> Requests \cup {Idle}]
        /\ latch \in [Keys -> Latches \cup {NoLatch}]
        /\ confirmed \in [Keys -> SUBSET Turns] /\ displaced \in [Keys -> SUBSET Turns]
        /\ \A w \in Writes : InFlight(w) => writes[w].key \in Keys /\ writes[w].turn \in Turns
    BY DEF TypeOK, InFlight, Requests
  <2>l. \A k \in Keys : latch[k] # NoLatch => latch[k] \in Latches
    BY <2>t
  <2>1. ASSUME NEW c \in Calls, NEW k \in Keys, NEW m \in Turns, Join(c, k, m)
        PROVE  OwnedOrDisplaced' /\ WrittenIsHeld'
    BY <2>1 DEF Join, memory, history, OwnedOrDisplaced, WrittenIsHeld, InFlight, Owns
  <2>2. ASSUME NEW c \in Calls, NEW k \in Keys, NEW m \in Turns, Persist(c, k, m)
        PROVE  OwnedOrDisplaced' /\ WrittenIsHeld'
    <3>1. PICK w \in Writes :
            /\ ~InFlight(w)
            /\ writes' = [writes EXCEPT ![w] = [key |-> k, turn |-> m, at |-> "sent"]]
            /\ Remember(k, [turn |-> m, inFlight |-> w])
      BY <2>2 DEF Persist
    <3>2. [turn |-> m, inFlight |-> w] \in Latches /\ UNCHANGED confirmed
      BY <2>2 DEF Latches, Persist
    <3>3. /\ latch'[k] = [turn |-> m, inFlight |-> w]
          /\ latch'[k] # NoLatch
          /\ \A j \in Keys \ {k} : latch'[j] \in {latch[j], NoLatch}
          /\ \A j \in Keys : displaced[j] \subseteq displaced'[j]
          /\ \A j \in Keys : latch[j] # NoLatch /\ latch'[j] # latch[j] =>
                               latch[j].turn \in displaced'[j]
      BY <3>1, <3>2, RememberFacts DEF Latches
    <3>4. /\ writes'[w] = [key |-> k, turn |-> m, at |-> "sent"]
          /\ \A v \in Writes \ {w} : writes'[v] = writes[v]
      BY <3>1, <2>t
    <3>5. ASSUME NEW v \in Writes, InFlight(v)'
          PROVE  Owns(v)' \/ writes'[v].turn \in displaced'[writes'[v].key]
      <4>1. CASE v = w
        BY <4>1, <3>3, <3>4 DEF Owns
      <4>2. CASE v # w
        <5>1. InFlight(v) /\ writes'[v] = writes[v] /\ writes[v].key \in Keys
          BY <4>2, <3>4, <3>5, <2>t DEF InFlight
        <5>2. CASE writes[v].turn \in displaced[writes[v].key]
          BY <5>1, <5>2, <3>3
        <5>3. CASE Owns(v)
          <6> DEFINE j == writes[v].key
          <6>1. latch[j] # NoLatch /\ latch[j].inFlight = v /\ latch[j].turn = writes[v].turn
            BY <5>1, <5>3 DEF Owns, NothingSwallowed, Carries
          <6>2. CASE latch'[j] = latch[j]
            BY <6>1, <6>2, <5>1 DEF Owns
          <6>3. CASE latch'[j] # latch[j]
            BY <6>1, <6>3, <5>1, <3>3
          <6>. QED BY <6>2, <6>3
        <5>. QED BY <5>1, <5>2, <5>3 DEF OwnedOrDisplaced
      <4>. QED BY <4>1, <4>2
    <3>6. ASSUME NEW j \in Keys, NEW n \in confirmed'[j]
          PROVE  \/ n \in displaced'[j]
                 \/ latch'[j] # NoLatch /\ latch'[j].turn = n /\ latch'[j].inFlight = NoWrite
      <4>1. \/ n \in displaced[j]
            \/ latch[j] # NoLatch /\ latch[j].turn = n /\ latch[j].inFlight = NoWrite
        BY <3>2, <3>6 DEF WrittenIsHeld
      <4>. QED BY <4>1, <3>3
    <3>. QED BY <3>5, <3>6 DEF OwnedOrDisplaced, WrittenIsHeld
  <2>3. ASSUME NEW w \in Writes, ServerStores(w)
        PROVE  OwnedOrDisplaced' /\ WrittenIsHeld'
    <3>1. /\ InFlight(w) /\ writes' = [writes EXCEPT ![w].at = "stored"]
          /\ UNCHANGED <<latch, confirmed, displaced>>
      BY <2>3 DEF ServerStores, memory, history
    <3>2. \A v \in Writes : InFlight(v)' => /\ InFlight(v) /\ writes'[v].key = writes[v].key
                                            /\ writes'[v].turn = writes[v].turn
      BY <3>1, <2>t DEF InFlight, Requests
    <3>. QED BY <3>1, <3>2 DEF OwnedOrDisplaced, WrittenIsHeld, Owns
  <2>4. ASSUME NEW w \in Writes, WriteSucceeds(w)
        PROVE  OwnedOrDisplaced' /\ WrittenIsHeld'
    <3> DEFINE k == writes[w].key
    <3>1. /\ InFlight(w) /\ k \in Keys /\ writes[w].turn \in Turns
          /\ writes' = [writes EXCEPT ![w] = Idle]
          /\ confirmed' = [confirmed EXCEPT ![k] = @ \cup {writes[w].turn}]
          /\ latch' = IF Owns(w) THEN [latch EXCEPT ![k].inFlight = NoWrite] ELSE latch
          /\ UNCHANGED displaced
      BY <2>4, <2>t DEF WriteSucceeds, Settle
    <3>2. /\ \A v \in Writes : InFlight(v)' => v # w /\ InFlight(v) /\ writes'[v] = writes[v]
          /\ \A j \in Keys \ {k} : latch'[j] = latch[j] /\ confirmed'[j] = confirmed[j]
          /\ confirmed'[k] = confirmed[k] \cup {writes[w].turn}
      BY <3>1, <2>t DEF InFlight
    <3>3. Owns(w) => /\ latch[k] \in Latches /\ latch[k].turn = writes[w].turn
                     /\ latch'[k] = [latch[k] EXCEPT !.inFlight = NoWrite]
      BY <3>1, <2>t DEF Owns, NothingSwallowed, Carries
    <3>4. Owns(w) => /\ latch'[k].turn = writes[w].turn /\ latch'[k].inFlight = NoWrite
                     /\ latch'[k] # NoLatch
      <4>1. ASSUME Owns(w) PROVE [latch[k] EXCEPT !.inFlight = NoWrite] \in Latches
        BY <4>1, <3>3 DEF Latches
      <4>. QED BY <4>1, <3>3 DEF Latches
    <3>5. ~Owns(w) => latch'[k] = latch[k] /\ writes[w].turn \in displaced[k]
      BY <3>1 DEF OwnedOrDisplaced
    <3>6. ASSUME NEW v \in Writes, InFlight(v)'
          PROVE  Owns(v)' \/ writes'[v].turn \in displaced'[writes'[v].key]
      <4>1. v # w /\ InFlight(v) /\ writes'[v] = writes[v] /\ writes[v].key \in Keys
        BY <3>2, <3>6, <2>t
      <4>2. Owns(v) => latch'[writes[v].key] = latch[writes[v].key]
        BY <3>1, <3>2, <4>1 DEF Owns
      <4>. QED BY <3>1, <4>1, <4>2 DEF OwnedOrDisplaced, Owns
    <3>7. ASSUME NEW j \in Keys, NEW n \in confirmed'[j]
          PROVE  \/ n \in displaced'[j]
                 \/ latch'[j] # NoLatch /\ latch'[j].turn = n /\ latch'[j].inFlight = NoWrite
      <4>1. n \in confirmed[j] => \/ n \in displaced[j]
                                  \/ latch[j] # NoLatch /\ latch[j].turn = n /\ latch[j].inFlight = NoWrite
        BY <3>7 DEF WrittenIsHeld
      <4>2. CASE j = k /\ n = writes[w].turn
        BY <4>2, <3>1, <3>4, <3>5
      <4>3. CASE ~(j = k /\ n = writes[w].turn)
        <5>1. n \in confirmed[j]
          BY <4>3, <3>2, <3>7
        <5>2. CASE latch'[j] = latch[j]
          BY <5>1, <5>2, <4>1, <3>1
        <5>3. CASE latch'[j] # latch[j]
          <6>1. Owns(w) /\ j = k
            BY <5>3, <3>2, <3>5
          <6>2. latch[j].inFlight = w
            BY <6>1 DEF Owns
          <6>. QED BY <6>2, <5>1, <4>1, <3>1
        <5>. QED BY <5>2, <5>3
      <4>. QED BY <4>2, <4>3
    <3>. QED BY <3>6, <3>7 DEF OwnedOrDisplaced, WrittenIsHeld
  <2>5. ASSUME NEW w \in Writes, WriteFails(w)
        PROVE  OwnedOrDisplaced' /\ WrittenIsHeld'
    <3> DEFINE k == writes[w].key
    <3>1. /\ InFlight(w) /\ k \in Keys /\ Release(w)
          /\ writes' = [writes EXCEPT ![w] = Idle]
          /\ UNCHANGED <<confirmed, displaced>>
      BY <2>5, <2>t DEF WriteFails, Settle
    <3>2. /\ latch' = IF Owns(w) THEN [latch EXCEPT ![k] = NoLatch] ELSE latch
          /\ \A v \in Writes : InFlight(v)' => v # w /\ InFlight(v) /\ writes'[v] = writes[v]
      BY <3>1, <2>t, ReleaseFacts DEF InFlight
    <3>3. \A j \in Keys : latch'[j] # latch[j] => j = k /\ latch[j].inFlight = w
      BY <3>2, <2>t DEF Owns
    <3>4. ASSUME NEW v \in Writes, InFlight(v)'
          PROVE  Owns(v)' \/ writes'[v].turn \in displaced'[writes'[v].key]
      <4>1. v # w /\ InFlight(v) /\ writes'[v] = writes[v] /\ writes[v].key \in Keys
        BY <3>2, <3>4, <2>t
      <4>2. Owns(v) => latch'[writes[v].key] = latch[writes[v].key]
        BY <3>3, <4>1 DEF Owns
      <4>. QED BY <3>1, <4>1, <4>2 DEF OwnedOrDisplaced, Owns
    <3>5. ASSUME NEW j \in Keys, NEW n \in confirmed'[j]
          PROVE  \/ n \in displaced'[j]
                 \/ latch'[j] # NoLatch /\ latch'[j].turn = n /\ latch'[j].inFlight = NoWrite
      BY <3>1, <3>3, <3>5 DEF WrittenIsHeld
    <3>. QED BY <3>4, <3>5 DEF OwnedOrDisplaced, WrittenIsHeld
  <2>6. CASE UNCHANGED vars
    BY <2>6 DEF vars, OwnedOrDisplaced, WrittenIsHeld, InFlight, Owns
  <2>. QED BY <2>1, <2>2, <2>3, <2>4, <2>5, <2>6 DEF Next
<1>. QED BY <1>1, <1>2, TypeCorrect, NeverSwallows, PTL DEF Spec

\* WrittenOnce: a stored turn is on its way again only after a failure was
\* reported or its latch displaced.
THEOREM WritesOnce == Spec => []WrittenOnce
<1>1. TypeOK /\ NothingSwallowed /\ OwnedOrDisplaced /\ WrittenIsHeld => WrittenOnce
  <2>. SUFFICES ASSUME TypeOK, NothingSwallowed, OwnedOrDisplaced, WrittenIsHeld PROVE WrittenOnce
    OBVIOUS
  <2>1. \A w \in Writes : InFlight(w) => writes[w].key \in Keys /\ writes[w].turn \in Turns
    BY DEF TypeOK, InFlight, Requests
  <2>2. ASSUME NEW v \in Writes, NEW w \in Writes, v # w, InFlight(v), InFlight(w),
               writes[v].key = writes[w].key, writes[v].turn = writes[w].turn
        PROVE  writes[v].turn \in displaced[writes[v].key]
    BY <2>2 DEF OwnedOrDisplaced, Owns
  <2>3. ASSUME NEW w \in Writes, InFlight(w), writes[w].at = "sent",
               writes[w].turn \in ServerHas(writes[w].key)
        PROVE  writes[w].turn \in unsure[writes[w].key] \cup displaced[writes[w].key]
    <3>1. CASE writes[w].turn \in confirmed[writes[w].key]
      <4>1. Owns(w) => latch[writes[w].key].inFlight # NoWrite
        BY DEF Owns
      <4>. QED BY <2>1, <2>3, <3>1, <4>1 DEF OwnedOrDisplaced, WrittenIsHeld, Owns
    <3>2. CASE \E v \in Writes : /\ Carries(v, writes[w].key, writes[w].turn)
                                 /\ writes[v].at = "stored"
      BY <2>2, <2>3, <3>2 DEF Carries
    <3>. QED BY <2>3, <3>1, <3>2 DEF ServerHas
  <2>. QED BY <2>2, <2>3 DEF WrittenOnce
<1>. QED BY <1>1, TypeCorrect, NeverSwallows, LatchesAccountFor, PTL
==============================================================================
