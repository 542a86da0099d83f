---------------------------- MODULE MastraPersist ----------------------------
(***************************************************************************)
(* processOutputResult of the Mastra integration                           *)
(* (integrations/mastra/src/processor.ts): writing a finished turn to      *)
(* Cortadel once, under a latch kept per thread in a bounded LRU map.      *)
(*                                                                         *)
(* A call runs to its await in one step: it finds the latch, claims it and *)
(* starts the write.  A write settles in one step together with the        *)
(* handlers chained to it and the return of the calls that await it; they  *)
(* touch nothing else.  Calls without a user or without text return early  *)
(* and are left out.                                                       *)
(***************************************************************************)
EXTENDS Naturals, FiniteSets, Lru

CONSTANTS Keys,        \* (user, thread) pairs
          Turns,       \* signatures of finished turns
          Calls,       \* calls of processOutputResult that can wait at once
          Writes,      \* slots for addConversation calls in flight
          MaxThreads,  \* maxTrackedThreads
          NoWrite, NoLatch

ASSUME MaxThreadsAssumption == MaxThreads \in Nat \ {0}
ASSUME NoWriteAssumption == NoWrite \notin Writes
ASSUME NoLatchAssumption == NoLatch \notin [turn : Turns, inFlight : Writes \cup {NoWrite}]

VARIABLES
  awaitPersist,  \* the option; fixed per processor
  order,         \* the keys of #lastPersisted, oldest first
  latch,         \* #lastPersisted; inFlight is NoWrite once the write succeeded
  writes,        \* in each slot: the turn on its way, and how far it got
  waitsFor,      \* per call: the write it awaits
  turnOf,        \* per waiting call: its own key and turn
  confirmed,     \* history, per key: turns whose write succeeded
  unsure,        \* history, per key: turns stored by a write that then failed
  displaced      \* history, per key: turns whose latch another turn replaced,
                 \* or the bound on tracked threads dropped

memory == <<order, latch>>
history == <<confirmed, unsure, displaced>>
vars == <<awaitPersist, order, latch, writes, waitsFor, turnOf, confirmed,
          unsure, displaced>>

Latches == [turn : Turns, inFlight : Writes \cup {NoWrite}]
Requests == [key : Keys, turn : Turns, at : {"sent", "stored"}]
Idle == [at |-> "none"]
InFlight(w) == writes[w] # Idle
Carries(w, k, m) == InFlight(w) /\ writes[w].key = k /\ writes[w].turn = m

\* What the server holds of thread k.
ServerHas(k) ==
  confirmed[k] \cup unsure[k]
    \cup {m \in Turns : \E w \in Writes : Carries(w, k, m) /\ writes[w].at = "stored"}

TypeOK ==
  /\ awaitPersist \in BOOLEAN
  /\ IsOrder(order, Keys, MaxThreads)
  /\ latch \in [Keys -> Latches \cup {NoLatch}]
  /\ \A k \in Keys : latch[k] # NoLatch <=> k \in Range(order)
  /\ writes \in [Writes -> Requests \cup {Idle}]
  /\ waitsFor \in [Calls -> Writes \cup {NoWrite}]
  /\ turnOf \in [Calls -> Keys \X Turns \cup {<<>>}]
  /\ confirmed \in [Keys -> SUBSET Turns]
  /\ unsure \in [Keys -> SUBSET Turns]
  /\ displaced \in [Keys -> SUBSET Turns]

NoTurns == [k \in Keys |-> {}]

Init ==
  /\ awaitPersist \in BOOLEAN
  /\ order = <<>>
  /\ latch = [k \in Keys |-> NoLatch]
  /\ writes = [w \in Writes |-> Idle]
  /\ waitsFor = [c \in Calls |-> NoWrite]
  /\ turnOf = [c \in Calls |-> <<>>]
  /\ confirmed = NoTurns
  /\ unsure = NoTurns
  /\ displaced = NoTurns

------------------------------------------------------------------------------
Held_AnyTurn(k, m) == latch[k] # NoLatch

\* held?.signature === signature
Held(k, m) == latch[k] # NoLatch /\ latch[k].turn = m

\* Call c returns, or under awaitPersist waits for write w.
Await(c, w, k, m) ==
  IF awaitPersist
  THEN /\ waitsFor' = [waitsFor EXCEPT ![c] = w]
       /\ turnOf' = [turnOf EXCEPT ![c] = <<k, m>>]
  ELSE UNCHANGED <<waitsFor, turnOf>>

\* The turn is already on its way: the call joins that write.  A call that
\* does not wait, or whose turn has been written, returns with nothing done.
Join(c, k, m) ==
  /\ waitsFor[c] = NoWrite
  /\ Held(k, m)
  /\ latch[k].inFlight # NoWrite
  /\ awaitPersist
  /\ Await(c, latch[k].inFlight, k, m)
  /\ UNCHANGED <<awaitPersist, memory, writes, history>>

Remember_Unbounded(k, l) ==
  /\ order' = Touch(order, k)
  /\ latch' = [latch EXCEPT ![k] = l]
  /\ displaced' = [displaced EXCEPT ![k] =
                     IF latch[k] # NoLatch THEN @ \cup {latch[k].turn} ELSE @]

\* #remember: k moves to the recent end with its new latch, and the oldest
\* threads beyond the bound lose theirs.
Remember(k, l) ==
  LET used == Touch(order, k)
      dropped == Oldest(used, MaxThreads)
  IN /\ order' = Newest(used, MaxThreads)
     /\ latch' = [j \in Keys |-> IF j \in dropped THEN NoLatch
                                 ELSE IF j = k THEN l ELSE latch[j]]
     /\ displaced' = [j \in Keys |->
                        IF j \in dropped \cup {k} /\ latch[j] # NoLatch
                        THEN displaced[j] \cup {latch[j].turn}
                        ELSE displaced[j]]

\* A new turn: the latch is claimed and the write starts.
Persist(c, k, m) ==
  /\ waitsFor[c] = NoWrite
  /\ ~Held(k, m)
  /\ \E w \in Writes :
       /\ ~InFlight(w)
       /\ writes' = [writes EXCEPT ![w] = [key |-> k, turn |-> m, at |-> "sent"]]
       /\ Remember(k, [turn |-> m, inFlight |-> w])
       /\ Await(c, w, k, m)
  /\ UNCHANGED <<awaitPersist, confirmed, unsure>>

\* The server stores the turn and answers.
ServerStores(w) ==
  /\ InFlight(w)
  /\ writes[w].at = "sent"
  /\ writes' = [writes EXCEPT ![w].at = "stored"]
  /\ UNCHANGED <<awaitPersist, memory, waitsFor, turnOf, history>>

\* The promise of write w settles and the calls that await it return.
Settle(w) ==
  /\ InFlight(w)
  /\ writes' = [writes EXCEPT ![w] = Idle]
  /\ waitsFor' = [c \in Calls |-> IF waitsFor[c] = w THEN NoWrite ELSE waitsFor[c]]
  /\ turnOf' = [c \in Calls |-> IF waitsFor[c] = w THEN <<>> ELSE turnOf[c]]
  /\ UNCHANGED <<awaitPersist, displaced>>

Owns_Unchecked(w) == latch[writes[w].key] # NoLatch

\* this.#lastPersisted.get(key) === latch, for the latch write w was started
\* with: an object of its own, so the write identifies it.
Owns(w) ==
  /\ latch[writes[w].key] # NoLatch
  /\ latch[writes[w].key].inFlight = w

Release_Never(w) == UNCHANGED memory

\* The handler of a failed write.
Release(w) ==
  LET k == writes[w].key IN
  IF Owns(w)
  THEN /\ latch' = [latch EXCEPT ![k] = NoLatch]
       /\ order' = Without(order, k)
  ELSE UNCHANGED memory

\* Written: the latch becomes permanent.
WriteSucceeds(w) ==
  LET k == writes[w].key IN
  /\ Settle(w)
  /\ writes[w].at = "stored"
  /\ confirmed' = [confirmed EXCEPT ![k] = @ \cup {writes[w].turn}]
  /\ latch' = IF Owns(w) THEN [latch EXCEPT ![k].inFlight = NoWrite] ELSE latch
  /\ UNCHANGED <<order, unsure>>

\* Not written, as far as the caller can tell: an error, an abort, a timeout.
WriteFails(w) ==
  LET k == writes[w].key IN
  /\ Settle(w)
  /\ unsure' = IF writes[w].at = "stored"
               THEN [unsure EXCEPT ![k] = @ \cup {writes[w].turn}] ELSE unsure
  /\ Release(w)
  /\ UNCHANGED confirmed

Next ==
  \/ \E c \in Calls, k \in Keys, m \in Turns : Join(c, k, m) \/ Persist(c, k, m)
  \/ \E w \in Writes : ServerStores(w) \/ WriteSucceeds(w) \/ WriteFails(w)

Spec == Init /\ [][Next]_vars
------------------------------------------------------------------------------
\* No turn is swallowed: one that a latch holds back has been written, or its
\* write is under way - the latch "must never ... outlive a write that failed"
\* (131-132) - however writes overlap, fail late and lose their latch.
NothingSwallowed ==
  \A k \in Keys : latch[k] # NoLatch =>
    IF latch[k].inFlight = NoWrite
    THEN latch[k].turn \in confirmed[k]
    ELSE Carries(latch[k].inFlight, k, latch[k].turn)

\* What joining is for (244-246): the write a call waits for carries that
\* call's own turn, so that the turn has landed or failed when it returns.
JoinsOwnTurn ==
  \A c \in Calls : waitsFor[c] # NoWrite =>
    Carries(waitsFor[c], turnOf[c][1], turnOf[c][2])

\* A turn the server has is sent again only after a write of it was reported
\* as failed, or after its latch was displaced; and two writes of it overlap
\* only after its latch was displaced.
WrittenOnce ==
  /\ \A w \in Writes : InFlight(w) /\ writes[w].at = "sent" =>
       LET k == writes[w].key  m == writes[w].turn
       IN m \in ServerHas(k) => m \in unsure[k] \cup displaced[k]
  /\ \A v, w \in Writes : v # w /\ InFlight(v) /\ InFlight(w) =>
       \/ writes[v].key # writes[w].key
       \/ writes[v].turn # writes[w].turn
       \/ writes[v].turn \in displaced[writes[v].key]

\* The comment on the latch (128-130), without that proviso: "a concurrent
\* identical call must not be allowed to issue a second write while the first
\* is still in the air".
InAirOnce ==
  \A v, w \in Writes : v # w /\ InFlight(v) /\ InFlight(w) =>
    writes[v].key # writes[w].key \/ writes[v].turn # writes[w].turn

==============================================================================
