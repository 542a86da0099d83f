------------------------------ MODULE AdkIngest ------------------------------
(***************************************************************************)
(* Delta ingestion of the Google ADK memory service                        *)
(* (integrations/google-adk/cortadel_google_adk/memory_service.py).        *)
(*                                                                         *)
(* CortadelMemoryService remembers, per (user, session) key, the           *)
(* fingerprints of the events it has already shipped, and sends only the   *)
(* rest.  Several invocations run concurrently on one event loop and       *)
(* interleave only where the code really waits: at the HTTP write.         *)
(* _claim_new_events and _release_events hold an asyncio.Lock whose body   *)
(* never awaits, so the lock is never contended and each is one step,      *)
(* taken together with the code that runs up to the next wait.             *)
(***************************************************************************)
EXTENDS Naturals, FiniteSets, Lru

CONSTANTS Keys,           \* (cortadel user, session id) pairs
          Events,         \* event fingerprints
          Textless,       \* those events_to_messages drops: partial or no text
          Tasks,          \* concurrent calls of _ingest
          DedupeSessions, \* capacity of the ledger, CortadelMemoryOptions
          NoKey           \* the key of a call that is not in flight

ASSUME DedupeAssumption == DedupeSessions \in Nat \ {0}
ASSUME NoKeyAssumption == NoKey \notin Keys
ASSUME TextlessAssumption == Textless \subseteq Events

VARIABLES
  tracked,   \* the keys of _ingested, least recently used first
  seen,      \* _ingested[k]; {} for a key that is not tracked
  phase,     \* where each call of _ingest stands
  key,       \* its ledger key
  fresh,     \* the events it claimed
  acked,     \* history: events whose write was confirmed to the caller
  unsure,    \* history: events stored by a write that then failed
  evicted    \* history: keys the ledger has dropped at least once

ledger == <<tracked, seen>>
vars == <<tracked, seen, phase, key, fresh, acked, unsure, evicted>>

\* "writing": the request is out.  "stored": the server has it, the reply is
\* still on its way.
Phases == {"idle", "writing", "stored"}
InFlight(t) == phase[t] # "idle"

\* What the server holds of session k.
ServerHas(k) ==
  acked[k] \cup unsure[k]
    \cup UNION {fresh[t] : t \in {u \in Tasks : phase[u] = "stored" /\ key[u] = k}}

TypeOK ==
  /\ IsOrder(tracked, Keys, DedupeSessions)
  /\ seen \in [Keys -> SUBSET Events]
  /\ phase \in [Tasks -> Phases]
  /\ key \in [Tasks -> Keys \cup {NoKey}]
  /\ fresh \in [Tasks -> SUBSET Events]
  /\ acked \in [Keys -> SUBSET Events]
  /\ unsure \in [Keys -> SUBSET Events]
  /\ evicted \in SUBSET Keys

NoEvents == [k \in Keys |-> {}]

Init ==
  /\ tracked = <<>>
  /\ seen = NoEvents
  /\ phase = [t \in Tasks |-> "idle"]
  /\ key = [t \in Tasks |-> NoKey]
  /\ fresh = [t \in Tasks |-> {}]
  /\ acked = NoEvents
  /\ unsure = NoEvents
  /\ evicted = {}

------------------------------------------------------------------------------
ClaimNewEvents_NoEviction(k, new) ==
  /\ tracked' = Touch(tracked, k)
  /\ seen' = [seen EXCEPT ![k] = @ \cup new]
  /\ UNCHANGED evicted

\* _claim_new_events: k moves to the recent end, the oldest keys beyond the
\* capacity are forgotten with everything seen under them, and what was not
\* yet seen under k is marked and returned.
ClaimNewEvents(k, new) ==
  LET order == Touch(tracked, k)
      dropped == Oldest(order, DedupeSessions)
  IN /\ tracked' = Newest(order, DedupeSessions)
     /\ seen' = [j \in Keys |-> IF j \in dropped THEN {}
                                ELSE IF j = k THEN seen[k] \cup new
                                ELSE seen[j]]
     /\ evicted' = evicted \cup dropped

ReleaseEvents_Dropped(t) == UNCHANGED ledger

ReleaseEvents_WholeSession(t) ==
  /\ seen' = [seen EXCEPT ![key[t]] = {}]
  /\ UNCHANGED tracked

\* _release_events: nothing to do when the key is no longer tracked.
ReleaseEvents(t) ==
  /\ seen' = [seen EXCEPT ![key[t]] = @ \ fresh[t]]
  /\ UNCHANGED tracked

\* events_to_messages, as far as it matters here: what is left to ship.
Messages(new) == new \ Textless

\* _ingest up to its write: claim, and return early when nothing is new or
\* when nothing new has text.
Ingest(t, k, batch) ==
  LET new == batch \ seen[k] IN
  /\ phase[t] = "idle"
  /\ batch # {}
  /\ ClaimNewEvents(k, new)
  /\ IF Messages(new) = {}
     THEN UNCHANGED <<phase, key, fresh>>
     ELSE /\ phase' = [phase EXCEPT ![t] = "writing"]
          /\ key' = [key EXCEPT ![t] = k]
          /\ fresh' = [fresh EXCEPT ![t] = new]
  /\ UNCHANGED <<acked, unsure>>

\* The server stores the conversation and answers.
ServerStores(t) ==
  /\ phase[t] = "writing"
  /\ phase' = [phase EXCEPT ![t] = "stored"]
  /\ UNCHANGED <<ledger, key, fresh, acked, unsure, evicted>>

\* The call of _ingest is over.
Return(t) ==
  /\ phase' = [phase EXCEPT ![t] = "idle"]
  /\ key' = [key EXCEPT ![t] = NoKey]
  /\ fresh' = [fresh EXCEPT ![t] = {}]

\* The reply arrives and _ingest returns: the claim becomes permanent.
WriteConfirmed(t) ==
  /\ phase[t] = "stored"
  /\ acked' = [acked EXCEPT ![key[t]] = @ \cup fresh[t]]
  /\ Return(t)
  /\ UNCHANGED <<ledger, unsure, evicted>>

\* The write ends without a confirmation; the server may have it or not.
WriteLost(t) ==
  /\ InFlight(t)
  /\ Return(t)
  /\ unsure' = [unsure EXCEPT ![key[t]] =
                  IF phase[t] = "stored" THEN @ \cup fresh[t] ELSE @]
  /\ UNCHANGED <<acked, evicted>>

\* raise_on_error=False: _guard swallows the failure, _ingest sees _FAILED.
WriteFailed(t) == WriteLost(t) /\ ReleaseEvents(t)

\* raise_on_error=True re-raises, and a cancellation always propagates.
WriteRaised(t) == WriteLost(t) /\ ReleaseEvents(t)

Next ==
  \E t \in Tasks :
    \/ \E k \in Keys, batch \in SUBSET Events : Ingest(t, k, batch)
    \/ ServerStores(t)
    \/ WriteConfirmed(t)
    \/ WriteFailed(t)
    \/ WriteRaised(t)

Spec == Init /\ [][Next]_vars
------------------------------------------------------------------------------
\* No silent loss: an event the ledger would skip from now on is confirmed,
\* has no text to ship, or is in the hands of a call still in flight.  This
\* is what both release paths of _ingest (502-510) are for, and it has to
\* survive keys being evicted and tracked again under a write in flight.
NoSilentLoss ==
  \A k \in Keys : \A e \in seen[k] \ Textless :
    \/ e \in acked[k]
    \/ \E t \in Tasks : InFlight(t) /\ key[t] = k /\ e \in fresh[t]

\* Stored once: as long as its session has never been pushed out of the
\* ledger, an event the server has is sent again only when a write that had reached the
\* server was reported as failed - never by concurrent invocations and never
\* by ingesting the whole session again.
StoredOnce ==
  \A t \in Tasks :
    phase[t] = "writing" /\ key[t] \notin evicted
      => fresh[t] \cap ServerHas(key[t]) \subseteq unsure[key[t]]

\* The docstring of _claim_new_events (519-521): claiming under the lock
\* "keeps two concurrent invocations on the same session from shipping the
\* same turn twice".
ConcurrentCallsShipApart ==
  \A t, u \in Tasks :
    t # u /\ InFlight(t) /\ InFlight(u) /\ key[t] = key[u]
      => fresh[t] \cap fresh[u] = {}

\* A session outside the ledger has nothing recorded: otherwise it would come
\* back with stale fingerprints, and events released meanwhile would be
\* skipped for ever.
ForgottenWhole ==
  \A k \in Keys : k \notin Range(tracked) => seen[k] = {}

\* The inductive strengthening of StoredOnce.  While a session stays in the
\* ledger, every call in flight still owns the marks it made, no two calls own
\* the same mark, and no confirmed event loses its mark.
ClaimsOwned ==
  /\ \A t \in Tasks : InFlight(t) => key[t] \in Keys
  /\ \A t \in Tasks : InFlight(t) /\ key[t] \notin evicted
       => fresh[t] \subseteq seen[key[t]] /\ fresh[t] \cap acked[key[t]] = {}
  /\ \A t, u \in Tasks :
       t # u /\ InFlight(t) /\ InFlight(u) /\ key[t] = key[u] /\ key[t] \notin evicted
         => fresh[t] \cap fresh[u] = {}
  /\ \A k \in Keys \ evicted : acked[k] \subseteq seen[k]

------------------------------------------------------------------------------
\* Every call ends: the client's requests time out.
EndCall(t) == WriteConfirmed(t) \/ WriteFailed(t) \/ WriteRaised(t)

RecoverySpec == Spec /\ \A t \in Tasks : WF_vars(EndCall(t))

\* ADK ingests session k again and again, and the server does not reject its
\* writes for ever: assumptions on the environment, not promises of this code.
Recovers(k) ==
  /\ SF_vars(\E t \in Tasks : Ingest(t, k, Events))
  /\ SF_vars(\E t \in Tasks : key[t] = k /\ ServerStores(t))
  /\ SF_vars(\E t \in Tasks : key[t] = k /\ WriteConfirmed(t))

\* Under that assumption no event of the session is given up: whatever
\* failures, cancellations and evictions come first, and whether or not other
\* sessions are ever ingested again, every event with text ends confirmed.
EveryEventConfirmed ==
  \A k \in Keys : Recovers(k) => \A e \in Events \ Textless : <>(e \in acked[k])
==============================================================================
