---------------------------- MODULE FrameworkStore ----------------------------
(***************************************************************************)
(* Writing finished turns in the provider for the Microsoft Agent          *)
(* Framework (CortadelContextProvider.cs): StoreAIContextAsync starts a    *)
(* task and puts it into a locked set, a continuation takes it out again,  *)
(* and DisposeAsync drains the set.  Unlike the other integrations these   *)
(* run on several threads: a step is what one lock protects.               *)
(***************************************************************************)
EXTENDS Naturals, FiniteSets

CONSTANTS Writes,    \* places for the turns being stored at a time
          Disposers  \* calls of DisposeAsync that overlap

VARIABLES
  awaitPersist,
  ownsClient,
  store,       \* per place: where StoreAIContextAsync stands
  running,     \* the writes whose request is under way
  pending,     \* _pending
  disposed,    \* _disposed
  clientOpen,
  disposer,    \* per DisposeAsync: where it stands and what it waits for
  overlapped   \* history: disposals that had another beside them

frameworkVars == <<awaitPersist, ownsClient, store, running, pending, disposed, clientOpen,
                   disposer, overlapped>>
storeVars == <<store, running>>
disposeVars == <<disposed, clientOpen, disposer, overlapped>>

\* StoreAIContextAsync has returned once its write is "handed" over.
StoreStages == {"free", "awaiting", "started", "added", "handed"}
DisposeStages == {"idle", "entered", "draining", "drained"}
NotDisposing == [at |-> "idle", waits |-> {}]

TypeOK ==
  /\ {awaitPersist, ownsClient, disposed, clientOpen} \subseteq BOOLEAN
  /\ store \in [Writes -> StoreStages]
  /\ running \subseteq {w \in Writes : store[w] # "free"}
  /\ pending \subseteq {w \in Writes : store[w] \in {"added", "handed"}}
  /\ \A d \in Disposers : /\ disposer[d].at \in DisposeStages
                          /\ disposer[d].waits \subseteq Writes \ pending
                          /\ disposer[d].at # "draining" => disposer[d].waits = {}
  /\ overlapped \subseteq Disposers
  /\ ~clientOpen => disposed /\ ownsClient

Init ==
  /\ awaitPersist \in BOOLEAN /\ ownsClient \in BOOLEAN
  /\ store = [w \in Writes |-> "free"] /\ running = {} /\ pending = {}
  /\ disposed = FALSE /\ clientOpen = TRUE
  /\ disposer = [d \in Disposers |-> NotDisposing] /\ overlapped = {}

------------------------------------------------------------------------------
\* StoreAIContextAsync for a turn with messages: it awaits the write, or starts
\* it on the pool.  The provider does not look whether it was disposed.
StoreAIContext(w) ==
  /\ store[w] = "free"
  /\ store' = [store EXCEPT ![w] = IF awaitPersist THEN "awaiting" ELSE "started"]
  /\ running' = running \cup {w}
  /\ UNCHANGED <<awaitPersist, ownsClient, pending, disposeVars>>

\* The request is answered or fails, also with a client that was disposed.
PersistEnds(w) ==
  /\ w \in running
  /\ running' = running \ {w}
  /\ store' = [store EXCEPT ![w] = IF @ = "awaiting" THEN "free" ELSE @]
  /\ UNCHANGED <<awaitPersist, ownsClient, pending, disposeVars>>

AddPending(w) ==
  /\ store[w] = "started"
  /\ store' = [store EXCEPT ![w] = "added"]
  /\ pending' = pending \cup {w}
  /\ UNCHANGED <<awaitPersist, ownsClient, running, disposeVars>>

\* ContinueWith: the continuation runs when the task ends, or at once if it has.
ContinueWith(w) ==
  /\ store[w] = "added"
  /\ store' = [store EXCEPT ![w] = "handed"]
  /\ UNCHANGED <<awaitPersist, ownsClient, running, pending, disposeVars>>

\* The continuation, and the WhenAll that counts on the task; the place is free.
Remove(w) ==
  /\ store[w] = "handed" /\ w \notin running
  /\ store' = [store EXCEPT ![w] = "free"]
  /\ pending' = pending \ {w}
  /\ disposer' = [d \in Disposers |-> [disposer[d] EXCEPT !.waits = @ \ {w}]]
  /\ UNCHANGED <<awaitPersist, ownsClient, running, disposed, clientOpen, overlapped>>

------------------------------------------------------------------------------
\* DisposeAsync looks at _disposed and sets it: two threads may both find it unset.
Dispose(d) ==
  LET others == {e \in Disposers : disposer[e].at # "idle"}
  IN /\ disposer[d].at = "idle" /\ ~disposed
     /\ disposer' = [disposer EXCEPT ![d].at = "entered"]
     /\ overlapped' = IF others = {} THEN overlapped \ {d} ELSE overlapped \cup others \cup {d}
     /\ UNCHANGED <<awaitPersist, ownsClient, storeVars, pending, disposed, clientOpen>>

SetDisposed(d) ==
  /\ disposer[d].at = "entered"
  /\ disposed' = TRUE
  /\ disposer' = [disposer EXCEPT ![d].at = "draining"]
  /\ UNCHANGED <<awaitPersist, ownsClient, storeVars, pending, clientOpen, overlapped>>

Drain_Once(d) ==
  /\ disposer[d].at = "draining" /\ disposer[d].waits \cap running = {}
  /\ IF pending = {} \/ disposer[d].waits # {}
     THEN disposer' = [disposer EXCEPT ![d] = [at |-> "drained", waits |-> {}]]
     ELSE disposer' = [disposer EXCEPT ![d].waits = pending]
  /\ pending' = {}
  /\ UNCHANGED <<awaitPersist, ownsClient, storeVars, disposed, clientOpen, overlapped>>

\* One round of DrainAsync, when what it waited for has ended.
Drain(d) ==
  /\ disposer[d].at = "draining" /\ disposer[d].waits \cap running = {}
  /\ IF pending = {} THEN disposer' = [disposer EXCEPT ![d] = [at |-> "drained", waits |-> {}]]
                     ELSE disposer' = [disposer EXCEPT ![d].waits = pending]
  /\ pending' = {}
  /\ UNCHANGED <<awaitPersist, ownsClient, storeVars, disposed, clientOpen, overlapped>>

DisposeReturns(d) ==
  /\ disposer[d].at = "drained"
  /\ clientOpen' = (clientOpen /\ ~ownsClient)
  /\ disposer' = [disposer EXCEPT ![d] = NotDisposing]
  /\ UNCHANGED <<awaitPersist, ownsClient, storeVars, pending, disposed, overlapped>>

Next ==
  \/ \E w \in Writes : \/ StoreAIContext(w) \/ PersistEnds(w)
                       \/ AddPending(w) \/ ContinueWith(w) \/ Remove(w)
  \/ \E d \in Disposers : Dispose(d) \/ SetDisposed(d) \/ Drain(d) \/ DisposeReturns(d)

Spec == Init /\ [][Next]_frameworkVars
------------------------------------------------------------------------------
\* Disposal "flushes pending fire-and-forget writes": when a drain that no other
\* disposal overlaps ends, no write is under way whose StoreAIContextAsync had
\* returned, whether it was called before the disposal or while it waited.
DisposeDrains ==
  \A d \in Disposers \ overlapped :
    disposer[d].at = "draining" /\ disposer'[d].at = "drained" =>
      \A w \in running : store[w] # "handed"
==============================================================================
