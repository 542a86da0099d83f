--------------------------- MODULE OpenClawGateway ---------------------------
(***************************************************************************)
(* CortadelGateway of the OpenClaw plugin                                  *)
(* (integrations/openclaw/src/gateway.ts): every hook, tool and corpus     *)
(* lookup of every session calls the server through one circuit breaker    *)
(* and one registry of clients.  Calls overlap, and each ends on its own:  *)
(* by an answer, an error or its deadline.                                 *)
(***************************************************************************)
EXTENDS Naturals, Sequences, FiniteSets, Lru

CONSTANTS Callers,      \* the calls that may be out at once
          Users,        \* the ids resolveUserId yields
          MaxFailures,  \* circuitBreaker.maxFailures
          MaxClients,   \* MAX_CACHED_CLIENTS
          None

GatewayAssumption ==
  /\ MaxFailures \in Nat \ {0} /\ MaxClients \in Nat \ {0}
  /\ IsFiniteSet(Callers) /\ None \notin Users

VARIABLES
  failures,  \* CircuitBreaker.failures
  breaker,   \* "closed": openedAt is undefined; "open"; "cooled": the cooldown has elapsed
  clients,   \* the users of the cached clients, in insertion order
  out,       \* the user each call is out for, or None
  begun      \* history: the calls let through since the last success or half-open

gatewayVars == <<failures, breaker, clients, out, begun>>

TypeOK ==
  /\ failures \in Nat /\ begun \in Nat
  /\ breaker \in {"closed", "open", "cooled"}
  /\ IsOrder(clients, Users, MaxClients)
  /\ out \in [Callers -> Users \cup {None}]
  /\ failures >= MaxFailures <=> breaker # "closed"

Init ==
  /\ failures = 0 /\ breaker = "closed" /\ clients = <<>>
  /\ out = [c \in Callers |-> None]
  /\ begun = 0

------------------------------------------------------------------------------
\* clientFor: the client of a user moves to the end, or is made and makes room.
ClientFor(u) == clients' = Newest(Touch(clients, u), MaxClients)

\* call on a closed breaker; an open one refuses and changes nothing.
CallThrough(c, u) ==
  /\ out[c] = None /\ breaker = "closed"
  /\ out' = [out EXCEPT ![c] = u] /\ ClientFor(u)
  /\ begun' = begun + 1
  /\ UNCHANGED <<failures, breaker>>

\* isOpen once the cooldown has elapsed: the breaker forgets, and the call passes.
CallHalfOpen(c, u) ==
  /\ out[c] = None /\ breaker = "cooled"
  /\ breaker' = "closed" /\ failures' = 0
  /\ out' = [out EXCEPT ![c] = u] /\ ClientFor(u)
  /\ begun' = 1

\* recordSuccess, also by a call that was out when the breaker opened.
CallReturns(c) ==
  /\ out[c] # None /\ out' = [out EXCEPT ![c] = None]
  /\ failures' = 0 /\ breaker' = "closed"
  /\ begun' = 0
  /\ UNCHANGED clients

Opens_Above(n) == n > MaxFailures
\* recordFailure's test; a late failure stamps an open breaker anew.
Opens(n) == n >= MaxFailures

\* An error, or the deadline of AbortSignal.timeout.
CallFails(c) ==
  /\ out[c] # None /\ out' = [out EXCEPT ![c] = None]
  /\ failures' = failures + 1
  /\ breaker' = IF Opens(failures + 1) THEN "open" ELSE breaker
  /\ UNCHANGED <<clients, begun>>

Cooldown ==
  /\ breaker = "open" /\ breaker' = "cooled"
  /\ UNCHANGED <<failures, clients, out, begun>>

Next ==
  \/ Cooldown
  \/ \E c \in Callers :
       \/ \E u \in Users : CallThrough(c, u) \/ CallHalfOpen(c, u)
       \/ CallReturns(c)
       \/ CallFails(c)

Spec == Init /\ [][Next]_gatewayVars
------------------------------------------------------------------------------
\* "Stops hammering a server that is already failing" (gateway.ts 14-15): without
\* a success in between, no more calls are let through than the failures it takes
\* to open and the calls that may be out meanwhile - whatever answers arrive late.
Contained == begun <= MaxFailures - 1 + Cardinality(Callers)
==============================================================================
