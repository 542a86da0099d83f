---------------------------- MODULE PydanticBackend ----------------------------
(***************************************************************************)
(* Backend of the Pydantic AI integration (_backend.py): one client per    *)
(* user, shared by all runs; calls that a run awaits and writes that go    *)
(* on behind it; and aclose, which drains the latter, closes the clients   *)
(* and leaves a Backend that may be used again.                            *)
(***************************************************************************)
EXTENDS Naturals, FiniteSets

CONSTANTS Users,
          Calls,     \* places for the calls under way at a time
          Closers,   \* calls of aclose that overlap
          MaxBuilt,  \* bound on the clients built for one user
          None

Clients == Users \X (1..MaxBuilt)

BackendAssumption == MaxBuilt \in Nat /\ None \notin Clients

VARIABLES
  clients,    \* _clients: per user the cached client, or None
  built,      \* how many were built for the user
  closed,     \* the clients that were closed
  call,       \* per place: a call and the client it has
  pending,    \* _pending
  closer,     \* per aclose: the writes it waits for, the clients it took
  overlapped  \* history: the calls of aclose that had another beside them

backendVars == <<clients, built, closed, call, pending, closer, overlapped>>
poolVars == <<clients, built, closed>>

NoCall == [at |-> "free", user |-> None, client |-> None, spawned |-> FALSE]
NotClosing == [at |-> "idle", waits |-> {}, todo |-> {}]
Cached == {clients[u] : u \in Users} \ {None}

\* A call is queued until its task runs, out until it is answered, and ended
\* until the callback of its task has run.
TypeOK ==
  /\ Cached \subseteq Clients /\ \A k \in Cached : k[2] <= built[k[1]]
  /\ built \in [Users -> 0..MaxBuilt] /\ closed \subseteq Clients
  /\ \A w \in Calls : /\ call[w].at \in {"free", "queued", "out", "ended"}
                      /\ call[w].client \in Clients <=> call[w].at = "out"
  /\ pending \subseteq {w \in Calls : call[w].spawned}
  /\ \A c \in Closers : /\ closer[c].at \in {"idle", "draining", "closing"}
                        /\ closer[c].waits \subseteq {w \in Calls : call[w].spawned} \ pending
                        /\ closer[c].todo \subseteq Clients \ closed
  /\ overlapped \subseteq Closers

Init ==
  /\ clients = [u \in Users |-> None] /\ built = [u \in Users |-> 0] /\ closed = {}
  /\ call = [w \in Calls |-> NoCall] /\ pending = {}
  /\ closer = [c \in Closers |-> NotClosing] /\ overlapped = {}

------------------------------------------------------------------------------
\* client_for: the cached client of the user, or a new one, without an await.
ClientFor(u, client) ==
  \/ /\ client = clients[u] /\ clients[u] # None
     /\ UNCHANGED poolVars
  \/ /\ clients[u] = None /\ built[u] < MaxBuilt
     /\ client = <<u, built[u] + 1>>
     /\ clients' = [clients EXCEPT ![u] = client]
     /\ built' = [built EXCEPT ![u] = @ + 1]
     /\ UNCHANGED closed

\* A search, a tool, or after_run with await_persist: try_* in the run's own task.
Await(w, u) ==
  /\ call[w].at = "free"
  /\ \E client \in Clients :
       /\ ClientFor(u, client)
       /\ call' = [call EXCEPT ![w] = [NoCall EXCEPT !.at = "out", !.user = u, !.client = client]]
  /\ UNCHANGED <<pending, closer, overlapped>>

\* after_run with await_persist off: the write is a task that has yet to begin.
Spawn(w, u) ==
  /\ call[w].at = "free"
  /\ call' = [call EXCEPT ![w] = [NoCall EXCEPT !.at = "queued", !.user = u, !.spawned = TRUE]]
  /\ pending' = pending \cup {w}
  /\ UNCHANGED <<poolVars, closer, overlapped>>

TaskBegins(w) ==
  /\ call[w].at = "queued"
  /\ \E client \in Clients :
       /\ ClientFor(call[w].user, client)
       /\ call' = [call EXCEPT ![w].at = "out", ![w].client = client]
  /\ UNCHANGED <<pending, closer, overlapped>>

Ended(c) == IF c.spawned THEN [c EXCEPT !.at = "ended", !.client = None] ELSE NoCall

\* Answered or failed, with or without a client: try_* absorbs it.
CallEnds(w) ==
  /\ call[w].at \in {"queued", "out"}
  /\ call' = [call EXCEPT ![w] = Ended(@)]
  /\ UNCHANGED <<poolVars, pending, closer, overlapped>>

\* _settle, and the gather that counts on the task.
Settle(w) ==
  /\ call[w].at = "ended"
  /\ call' = [call EXCEPT ![w] = NoCall]
  /\ pending' = pending \ {w}
  /\ closer' = [c \in Closers |-> [closer[c] EXCEPT !.waits = @ \ {w}]]
  /\ UNCHANGED <<poolVars, overlapped>>

------------------------------------------------------------------------------
\* drain found writes: it takes them out of the set and waits for them.
Gather(c) ==
  /\ pending # {}
  /\ closer' = [closer EXCEPT ![c].at = "draining", ![c].waits = pending]
  /\ pending' = {}
  /\ UNCHANGED <<poolVars, call>>

\* aclose takes the clients there are and will close them one by one.
Take(c) ==
  /\ closer' = [closer EXCEPT ![c] = [at |-> "closing", waits |-> {}, todo |-> Cached]]
  /\ clients' = [u \in Users |-> None]
  /\ UNCHANGED <<built, closed, call, pending>>

DrainLooks_Once(c) == Take(c)

\* The condition of the loop in drain, and after it aclose without an await.
DrainLooks(c) == Gather(c) \/ (pending = {} /\ Take(c))

Aclose(c) ==
  LET others == {d \in Closers : closer[d].at # "idle"}
  IN /\ closer[c].at = "idle"
     /\ DrainLooks(c)
     /\ overlapped' = IF others = {} THEN overlapped \ {c} ELSE overlapped \cup others \cup {c}

DrainWakes(c) ==
  /\ closer[c].at = "draining" /\ closer[c].waits = {}
  /\ DrainLooks(c)
  /\ UNCHANGED overlapped

\* A client that fails to close is observed, and the next one follows.
CloseNext(c) ==
  /\ closer[c].at = "closing"
  /\ \E client \in closer[c].todo :
       /\ closer' = [closer EXCEPT ![c].todo = @ \ {client}]
       /\ closed' = closed \cup {client}
  /\ UNCHANGED <<clients, built, call, pending, overlapped>>

AcloseReturns(c) ==
  /\ closer[c].at = "closing" /\ closer[c].todo = {}
  /\ closer' = [closer EXCEPT ![c] = NotClosing]
  /\ UNCHANGED <<poolVars, call, pending, overlapped>>

\* Whoever awaits aclose is cancelled: gather hands it on to the writes, and
\* clients that were taken and not closed stay open.
Cancelled(c) ==
  /\ closer[c].at # "idle"
  /\ call' = [w \in Calls |-> IF w \in closer[c].waits THEN Ended(call[w]) ELSE call[w]]
  /\ closer' = [closer EXCEPT ![c] = NotClosing]
  /\ UNCHANGED <<poolVars, pending, overlapped>>

Next ==
  \/ \E w \in Calls :
       \/ \E u \in Users : Await(w, u) \/ Spawn(w, u)
       \/ TaskBegins(w) \/ CallEnds(w) \/ Settle(w)
  \/ \E c \in Closers : Aclose(c) \/ DrainWakes(c) \/ CloseNext(c) \/ AcloseReturns(c) \/ Cancelled(c)

Spec == Init /\ [][Next]_backendVars
------------------------------------------------------------------------------
\* "Drain background writes, then close every cached client": an aclose that no
\* other overlaps takes the clients only when no spawned write is left, also of
\* those spawned while it waited, and closes none that such a write has.
AcloseDrains ==
  \A c \in Closers \ overlapped' :
    closer'[c].at = "closing" =>
      /\ closer[c].at # "closing" => \A w \in Calls : call[w].spawned => call[w].at = "ended"
      /\ \A w \in Calls : call'[w].spawned /\ call'[w].at = "out" =>
           call'[w].client \notin closer'[c].todo \cup (closed' \ closed)
==============================================================================
