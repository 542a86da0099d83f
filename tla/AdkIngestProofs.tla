--------------------------- MODULE AdkIngestProofs ---------------------------
(***************************************************************************)
(* The ledger of AdkIngest keeps its promises for every number of calls,   *)
(* sessions and events and every capacity.                                 *)
(***************************************************************************)
EXTENDS AdkIngest, LruProofs, TLAPS

USE DedupeAssumption, NoKeyAssumption, TextlessAssumption

\* ClaimNewEvents keeps the ledger well formed and says what each key is left
\* with.
LEMMA ClaimFacts ==
  ASSUME TypeOK, NEW k \in Keys, NEW new \in SUBSET Events, ClaimNewEvents(k, new)
  PROVE  /\ IsOrder(tracked', Keys, DedupeSessions)
         /\ seen' \in [Keys -> SUBSET Events]
         /\ evicted' \in SUBSET Keys
         /\ evicted \subseteq evicted'
         /\ \A j \in Keys : seen'[j] \subseteq seen[j] \cup (IF j = k THEN new ELSE {})
         /\ \A j \in Keys \ evicted' :
              seen'[j] = seen[j] \cup (IF j = k THEN new ELSE {})
<1> DEFINE order == Touch(tracked, k)
           dropped == Oldest(order, DedupeSessions)
<1>1. IsOrder(tracked', Keys, DedupeSessions)
  BY UseKeepsOrder DEF TypeOK, ClaimNewEvents
<1>2. IsOrder(order, Keys, DedupeSessions + 1)
  BY TouchKeepsOrder DEF TypeOK
<1>3. dropped \subseteq Keys
  BY <1>2 DEF Oldest, Range, IsOrder
<1>. HIDE DEF order, dropped
<1>4. /\ seen' = [j \in Keys |-> IF j \in dropped THEN {}
                                 ELSE IF j = k THEN seen[k] \cup new ELSE seen[j]]
      /\ evicted' = evicted \cup dropped
  BY DEF ClaimNewEvents, order, dropped
<1>. QED BY <1>1, <1>3, <1>4 DEF TypeOK

\* Every value stays in its type, and the ledger within its capacity.
THEOREM TypeCorrect == Spec => []TypeOK
<1>1. Init => TypeOK
  BY DEF Init, TypeOK, IsOrder, Phases, NoEvents
<1>2. TypeOK /\ [Next]_vars => TypeOK'
  <2>. SUFFICES ASSUME TypeOK, [Next]_vars PROVE TypeOK'
    OBVIOUS
  <2>. USE DEF TypeOK
  <2>1. ASSUME NEW t \in Tasks, NEW k \in Keys, NEW batch \in SUBSET Events,
               Ingest(t, k, batch)
        PROVE  TypeOK'
    <3>1. /\ IsOrder(tracked', Keys, DedupeSessions)
          /\ seen' \in [Keys -> SUBSET Events]
          /\ evicted' \in SUBSET Keys
      BY <2>1, ClaimFacts DEF Ingest, Messages
    <3>. QED BY <2>1, <3>1 DEF Ingest, Messages, Phases
  <2>2. ASSUME NEW t \in Tasks, ServerStores(t) PROVE TypeOK'
    BY <2>2 DEF ServerStores, ledger, Phases
  <2>3. ASSUME NEW t \in Tasks, WriteConfirmed(t) PROVE TypeOK'
    BY <2>3 DEF WriteConfirmed, Return, ledger, Phases
  <2>4. ASSUME NEW t \in Tasks, WriteFailed(t) PROVE TypeOK'
    BY <2>4 DEF WriteFailed, WriteLost, ReleaseEvents, Return, Phases
  <2>5. ASSUME NEW t \in Tasks, WriteRaised(t) PROVE TypeOK'
    BY <2>5 DEF WriteRaised, WriteLost, ReleaseEvents, Return, Phases
  <2>6. CASE UNCHANGED vars
    BY <2>6 DEF vars
  <2>. QED BY <2>1, <2>2, <2>3, <2>4, <2>5, <2>6 DEF Next
<1>. QED BY <1>1, <1>2, PTL DEF Spec

\* NoSilentLoss: whatever the interleaving of calls, failures, cancellations
\* and evictions, an event marked as seen is confirmed, textless, or carried
\* by a call in flight.
THEOREM NeverLosesSilently == Spec => []NoSilentLoss
<1>1. Init => NoSilentLoss
  BY DEF Init, NoSilentLoss, NoEvents
<1>2. TypeOK /\ NoSilentLoss /\ [Next]_vars => NoSilentLoss'
  <2>. SUFFICES ASSUME TypeOK, NoSilentLoss, [Next]_vars,
                       NEW k \in Keys, NEW e \in seen'[k] \ Textless
                PROVE  \/ e \in acked'[k]
                       \/ \E t \in Tasks : InFlight(t)' /\ key'[t] = k /\ e \in fresh'[t]
    BY DEF NoSilentLoss
  <2>. USE DEF TypeOK, NoSilentLoss, InFlight, Phases
  <2>1. ASSUME NEW t \in Tasks, NEW j \in Keys, NEW batch \in SUBSET Events,
               Ingest(t, j, batch)
        PROVE  \/ e \in acked'[k]
               \/ \E u \in Tasks : InFlight(u)' /\ key'[u] = k /\ e \in fresh'[u]
    <3> DEFINE new == batch \ seen[j]
    <3>1. phase[t] = "idle" /\ acked' = acked
      BY <2>1 DEF Ingest, Messages
    <3>2. CASE e \in seen[k]
      <4>1. CASE new \subseteq Textless
        BY <4>1, <3>1, <3>2, <2>1 DEF Ingest, Messages
      <4>2. CASE ~(new \subseteq Textless)
        BY <4>2, <3>1, <3>2, <2>1 DEF Ingest, Messages
      <4>. QED BY <4>1, <4>2
    <3>3. CASE e \notin seen[k]
      <4>1. seen'[k] \subseteq seen[k] \cup (IF k = j THEN new ELSE {})
        BY <2>1, ClaimFacts DEF Ingest, Messages
      <4>2. k = j /\ e \in new /\ ~(new \subseteq Textless)
        BY <4>1, <3>3
      <4>3. phase'[t] = "writing" /\ key'[t] = k /\ fresh'[t] = new
        BY <2>1, <4>2 DEF Ingest, Messages
      <4>. QED BY <4>2, <4>3
    <3>. QED BY <3>2, <3>3
  <2>2. ASSUME NEW t \in Tasks, ServerStores(t)
        PROVE  \/ e \in acked'[k]
               \/ \E u \in Tasks : InFlight(u)' /\ key'[u] = k /\ e \in fresh'[u]
    BY <2>2 DEF ServerStores, ledger
  <2>3. ASSUME NEW t \in Tasks, WriteConfirmed(t)
        PROVE  \/ e \in acked'[k]
               \/ \E u \in Tasks : InFlight(u)' /\ key'[u] = k /\ e \in fresh'[u]
    BY <2>3 DEF WriteConfirmed, Return, ledger
  <2>4. ASSUME NEW t \in Tasks, WriteLost(t), ReleaseEvents(t)
        PROVE  \/ e \in acked'[k]
               \/ \E u \in Tasks : InFlight(u)' /\ key'[u] = k /\ e \in fresh'[u]
    BY <2>4 DEF WriteLost, ReleaseEvents, Return
  <2>5. CASE UNCHANGED vars
    BY <2>5 DEF vars
  <2>. QED BY <2>1, <2>2, <2>3, <2>4, <2>5 DEF Next, WriteFailed, WriteRaised
<1>. QED BY <1>1, <1>2, TypeCorrect, PTL DEF Spec

\* ClaimsOwned is inductive: the marks a call made stay its own until it
\* confirms or releases them, unless its session is evicted meanwhile.
LEMMA ClaimsOwnedHolds == Spec => []ClaimsOwned
<1>1. Init => ClaimsOwned
  BY DEF Init, ClaimsOwned, InFlight, NoEvents
<1>2. TypeOK /\ ClaimsOwned /\ [Next]_vars => ClaimsOwned'
  <2>. SUFFICES ASSUME TypeOK, ClaimsOwned, [Next]_vars PROVE ClaimsOwned'
    OBVIOUS
  <2>. USE DEF TypeOK, InFlight, Phases
  <2>1. ASSUME NEW t \in Tasks, NEW k \in Keys, NEW batch \in SUBSET Events,
               Ingest(t, k, batch)
        PROVE  ClaimsOwned'
    <3> DEFINE new == batch \ seen[k]
    <3>1. /\ evicted \subseteq evicted'
          /\ \A j \in Keys \ evicted' :
               seen'[j] = seen[j] \cup (IF j = k THEN new ELSE {})
      BY <2>1, ClaimFacts DEF Ingest, Messages
    <3>2. phase[t] = "idle" /\ acked' = acked
      BY <2>1 DEF Ingest, Messages
    <3>3. CASE new \subseteq Textless
      <4>1. UNCHANGED <<phase, key, fresh>>
        BY <2>1, <3>3 DEF Ingest, Messages
      <4>. QED BY <3>1, <3>2, <4>1 DEF ClaimsOwned
    <3>4. CASE ~(new \subseteq Textless)
      <4>1. /\ phase' = [phase EXCEPT ![t] = "writing"]
            /\ key' = [key EXCEPT ![t] = k]
            /\ fresh' = [fresh EXCEPT ![t] = new]
        BY <2>1, <3>4 DEF Ingest, Messages
      <4>2. \A u \in Tasks : u # t =>
               phase'[u] = phase[u] /\ key'[u] = key[u] /\ fresh'[u] = fresh[u]
        BY <4>1
      <4>3. phase'[t] = "writing" /\ key'[t] = k /\ fresh'[t] = new
        BY <4>1
      <4>4. \A u \in Tasks : phase'[u] # "idle" => key'[u] \in Keys
        BY <4>2, <4>3 DEF ClaimsOwned
      <4>5. \A u \in Tasks : phase'[u] # "idle" /\ key'[u] \notin evicted' =>
               fresh'[u] \subseteq seen'[key'[u]] /\ fresh'[u] \cap acked'[key'[u]] = {}
        BY <3>1, <3>2, <4>2, <4>3 DEF ClaimsOwned
      <4>6. \A u, v \in Tasks :
               u # v /\ phase'[u] # "idle" /\ phase'[v] # "idle" /\ key'[u] = key'[v]
                 /\ key'[u] \notin evicted' => fresh'[u] \cap fresh'[v] = {}
        BY <3>1, <4>2, <4>3 DEF ClaimsOwned
      <4>7. \A j \in Keys \ evicted' : acked'[j] \subseteq seen'[j]
        BY <3>1, <3>2 DEF ClaimsOwned
      <4>. QED BY <4>4, <4>5, <4>6, <4>7 DEF ClaimsOwned
    <3>. QED BY <3>3, <3>4
  <2>2. ASSUME NEW t \in Tasks, ServerStores(t) PROVE ClaimsOwned'
    BY <2>2 DEF ServerStores, ledger, ClaimsOwned
  <2>3. ASSUME NEW t \in Tasks, WriteConfirmed(t) PROVE ClaimsOwned'
    BY <2>3 DEF WriteConfirmed, Return, ledger, ClaimsOwned
  <2>4. ASSUME NEW t \in Tasks, WriteLost(t), ReleaseEvents(t) PROVE ClaimsOwned'
    BY <2>4 DEF WriteLost, ReleaseEvents, Return, ClaimsOwned
  <2>5. CASE UNCHANGED vars
    BY <2>5 DEF vars, ClaimsOwned
  <2>. QED BY <2>1, <2>2, <2>3, <2>4, <2>5 DEF Next, WriteFailed, WriteRaised
<1>. QED BY <1>1, <1>2, TypeCorrect, PTL DEF Spec

\* StoredOnce: no event the server already has is on its way to it again,
\* unless an earlier write of it was reported lost or its session was evicted.
THEOREM StoresOnce == Spec => []StoredOnce
<1>1. TypeOK /\ ClaimsOwned => StoredOnce
  BY DEF TypeOK, ClaimsOwned, StoredOnce, ServerHas, InFlight
<1>. QED BY <1>1, TypeCorrect, ClaimsOwnedHolds, PTL

\* ForgottenWhole: evicting a session forgets all of it.
THEOREM ForgetsWhole == Spec => []ForgottenWhole
<1>1. Init => ForgottenWhole
  BY DEF Init, ForgottenWhole, NoEvents
<1>2. TypeOK /\ ForgottenWhole /\ [Next]_vars => ForgottenWhole'
  <2>. SUFFICES ASSUME TypeOK, ForgottenWhole, [Next]_vars PROVE ForgottenWhole'
    OBVIOUS
  <2>. USE DEF TypeOK, ForgottenWhole
  <2>1. ASSUME NEW t \in Tasks, NEW k \in Keys, NEW batch \in SUBSET Events,
               Ingest(t, k, batch)
        PROVE  ForgottenWhole'
    <3> DEFINE order == Touch(tracked, k)
    <3>1. Range(order) = Range(tracked) \cup {k}
      BY TouchMembers
    <3>. HIDE DEF order
    <3>2. /\ tracked' = Newest(order, DedupeSessions)
          /\ seen' = [j \in Keys |-> IF j \in Oldest(order, DedupeSessions) THEN {}
                                     ELSE IF j = k THEN seen[k] \cup (batch \ seen[k])
                                     ELSE seen[j]]
      BY <2>1 DEF Ingest, Messages, ClaimNewEvents, order
    <3>. QED BY <3>1, <3>2 DEF Oldest
  <2>2. ASSUME NEW t \in Tasks, WriteLost(t), ReleaseEvents(t) PROVE ForgottenWhole'
    BY <2>2 DEF ReleaseEvents
  <2>3. ASSUME NEW t \in Tasks, ServerStores(t) \/ WriteConfirmed(t)
        PROVE  ForgottenWhole'
    BY <2>3 DEF ServerStores, WriteConfirmed, ledger
  <2>4. CASE UNCHANGED vars
    BY <2>4 DEF vars
  <2>. QED BY <2>1, <2>2, <2>3, <2>4 DEF Next, WriteFailed, WriteRaised
<1>. QED BY <1>1, <1>2, TypeCorrect, PTL DEF Spec
==============================================================================
