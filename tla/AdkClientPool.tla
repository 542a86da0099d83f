---------------------------- MODULE AdkClientPool ----------------------------
(***************************************************************************)
(* ClientPool of the Google ADK integration                                *)
(* (integrations/google-adk/cortadel_google_adk/_clients.py): one Cortadel *)
(* client per user id, least recently used first, at most MaxClients.      *)
(*                                                                         *)
(* get and aclose hold an asyncio.Lock whose body never awaits, so each    *)
(* runs in one step up to the first close of a client.  Closing a client   *)
(* waits on the network: other calls run meanwhile, and the waiting call   *)
(* can be cancelled.  A get that raises (closed pool, failing factory)     *)
(* changes nothing and is left out.                                        *)
(***************************************************************************)
EXTENDS Integers, FiniteSets, Lru

CONSTANTS Users,
          Clients,     \* places for clients that exist at one time
          MaxClients,  \* max_clients
          Tasks,       \* calls into the memory service under way
          NoClient, NoUser

ASSUME MaxClientsAssumption == MaxClients \in Nat \ {0}
ASSUME NoClientAssumption == NoClient \notin Clients
ASSUME NoUserAssumption == NoUser \notin Users

VARIABLES
  order,      \* the keys of _clients, least recently used first
  clientOf,   \* _clients[u]
  closed,     \* _closed
  status,     \* per client: open, closing (aclose under way), closed
  phase,      \* per task: where it stands
  user, mine, \* per task: the user it serves, the client get returned
  toClose,    \* per task: clients it has taken out of the pool to close; the
              \* first is being closed
  abandoned,  \* history: clients whose close failed or was cancelled
  askedSince  \* history, per task: users get was called for since it got its client

pool == <<order, clientOf>>
call == <<phase, user, mine, toClose>>
vars == <<order, clientOf, closed, status, phase, user, mine, toClose,
          abandoned, askedSince>>

\* "evicting": get waits for a victim's close; "closing": aclose waits.
Phases == {"idle", "evicting", "using", "closing"}
Holds(t) == phase[t] \in {"evicting", "using"}
Pooled == {clientOf[u] : u \in Range(order)}
BeingClosed == UNION {Range(toClose[t]) : t \in Tasks}

TypeOK ==
  /\ IsOrder(order, Users, MaxClients)
  /\ clientOf \in [Users -> Clients \cup {NoClient}]
  /\ \A u \in Users : clientOf[u] = NoClient <=> u \notin Range(order)
  /\ closed \in BOOLEAN
  /\ status \in [Clients -> {"open", "closing", "closed"}]
  /\ phase \in [Tasks -> Phases]
  /\ user \in [Tasks -> Users \cup {NoUser}]
  /\ mine \in [Tasks -> Clients \cup {NoClient}]
  /\ \A t \in Tasks : Holds(t) => user[t] \in Users /\ mine[t] \in Clients
  /\ toClose \in [Tasks -> Seq(Clients)]
  /\ \A t \in Tasks : toClose[t] = <<>> <=> phase[t] \in {"idle", "using"}
  /\ abandoned \subseteq Clients
  /\ askedSince \in [Tasks -> SUBSET Users]

Init ==
  /\ order = <<>>
  /\ clientOf = [u \in Users |-> NoClient]
  /\ closed = FALSE
  /\ status = [c \in Clients |-> "closed"]
  /\ phase = [t \in Tasks |-> "idle"]
  /\ user = [t \in Tasks |-> NoUser]
  /\ mine = [t \in Tasks |-> NoClient]
  /\ toClose = [t \in Tasks |-> <<>>]
  /\ abandoned = {}
  /\ askedSince = [t \in Tasks |-> {}]

------------------------------------------------------------------------------
\* A new client takes the place of one that is closed and out of use.
Free(c) == status[c] = "closed" /\ \A t \in Tasks : mine[t] # c

Take_VictimsForgotten(t, u, c, victims) ==
  /\ phase' = [phase EXCEPT ![t] = "using"]
  /\ user' = [user EXCEPT ![t] = u]
  /\ mine' = [mine EXCEPT ![t] = c]
  /\ askedSince' = [s \in Tasks |-> IF s = t THEN {}
                                    ELSE IF Holds(s) THEN askedSince[s] \cup {u}
                                    ELSE askedSince[s]]
  /\ UNCHANGED toClose

\* Task t leaves get, or waits in it, with client c for user u.
Take(t, u, c, victims) ==
  /\ phase' = [phase EXCEPT ![t] = IF victims = <<>> THEN "using" ELSE "evicting"]
  /\ user' = [user EXCEPT ![t] = u]
  /\ mine' = [mine EXCEPT ![t] = c]
  /\ toClose' = [toClose EXCEPT ![t] = victims]
  /\ askedSince' = [s \in Tasks |-> IF s = t THEN {}
                                    ELSE IF Holds(s) THEN askedSince[s] \cup {u}
                                    ELSE askedSince[s]]

MoveToEnd_Forgotten(u) == order' = order

\* self._clients.move_to_end(user_id)
MoveToEnd(u) == order' = Touch(order, u)

Accepting_Unchecked == TRUE

\* if self._closed: raise
Accepting == ~closed

\* get, with a client for u in the pool.
GetPooled(t, u) ==
  /\ phase[t] = "idle"
  /\ Accepting
  /\ u \in Range(order)
  /\ MoveToEnd(u)
  /\ Take(t, u, clientOf[u], <<>>)
  /\ UNCHANGED <<clientOf, closed, status, abandoned>>

Victims_OffByOne == IF Len(order) > MaxClients THEN <<Head(order)>> ELSE <<>>

\* The users a new one pushes out: the pool holds at most one client too many,
\* so the eviction loop finds at most one, the least recently used.
Victims == IF Len(order) + 1 > MaxClients THEN <<Head(order)>> ELSE <<>>

\* get, building the client.  The close of the victim begins in the same
\* step, outside the lock.
GetBuilds(t, u) ==
  LET victims == [i \in 1..Len(Victims) |-> clientOf[Victims[i]]] IN
  /\ phase[t] = "idle"
  /\ Accepting
  /\ u \notin Range(order)
  /\ \E c \in {d \in Clients : Free(d)} :
       /\ clientOf' = [v \in Users |-> IF v = u THEN c
                                       ELSE IF v \in Range(Victims) THEN NoClient
                                       ELSE clientOf[v]]
       /\ status' = [d \in Clients |-> IF d = c THEN "open"
                                       ELSE IF d \in Range(victims) THEN "closing"
                                       ELSE status[d]]
       /\ Take(t, u, c, victims)
  /\ order' = Append(IF Victims = <<>> THEN order ELSE Tail(order), u)
  /\ UNCHANGED <<closed, abandoned>>

ClearPool_Forgotten == UNCHANGED pool

\* self._clients.clear()
ClearPool ==
  /\ order' = <<>>
  /\ clientOf' = [u \in Users |-> NoClient]

\* aclose: the pool is emptied under the lock, then its clients are closed one
\* after the other.
Aclose(t) ==
  LET clients == [i \in 1..Len(order) |-> clientOf[order[i]]] IN
  /\ phase[t] = "idle"
  /\ closed' = TRUE
  /\ ClearPool
  /\ toClose' = [toClose EXCEPT ![t] = clients]
  /\ IF clients = <<>>
     THEN UNCHANGED <<phase, status>>
     ELSE /\ phase' = [phase EXCEPT ![t] = "closing"]
          /\ status' = [status EXCEPT ![Head(clients)] = "closing"]
  /\ UNCHANGED <<user, mine, abandoned, askedSince>>

\* The task goes on after its last close: get returns, aclose returns.
AfterClosing(t) == IF phase[t] = "evicting" THEN "using" ELSE "idle"

\* The close of a client ends, well or in an exception that _aclose_quietly
\* swallows; the next one begins.
CloseEnds(t, well) ==
  LET c == Head(toClose[t])
      rest == Tail(toClose[t])
  IN /\ toClose[t] # <<>>
     /\ toClose' = [toClose EXCEPT ![t] = rest]
     /\ status' = [d \in Clients |-> IF d = c /\ well THEN "closed"
                                     ELSE IF rest # <<>> /\ d = Head(rest) THEN "closing"
                                     ELSE status[d]]
     /\ abandoned' = IF well THEN abandoned ELSE abandoned \cup {c}
     /\ phase' = [phase EXCEPT ![t] = IF rest = <<>> THEN AfterClosing(t) ELSE @]
     /\ UNCHANGED <<pool, closed, user, mine, askedSince>>

\* The task lets its client go.
Leave(t) ==
  /\ phase' = [phase EXCEPT ![t] = "idle"]
  /\ user' = [user EXCEPT ![t] = NoUser]
  /\ mine' = [mine EXCEPT ![t] = NoClient]
  /\ askedSince' = [askedSince EXCEPT ![t] = {}]

\* CancelledError passes through _aclose_quietly: what the task had still to
\* close stays as it is, and is in nobody's hands.
Cancelled(t) ==
  /\ toClose[t] # <<>>
  /\ abandoned' = abandoned \cup Range(toClose[t])
  /\ toClose' = [toClose EXCEPT ![t] = <<>>]
  /\ Leave(t)
  /\ UNCHANGED <<pool, closed, status>>

\* The call the client was fetched for ends, in whatever way.
CallEnds(t) ==
  /\ phase[t] = "using"
  /\ Leave(t)
  /\ UNCHANGED <<pool, closed, status, toClose, abandoned>>

Next ==
  \E t \in Tasks :
    \/ \E u \in Users : GetPooled(t, u) \/ GetBuilds(t, u)
    \/ Aclose(t)
    \/ \E well \in BOOLEAN : CloseEnds(t, well)
    \/ Cancelled(t)
    \/ CallEnds(t)

\* A close that has begun ends: the transport closes or fails.
Fairness ==
  \A t \in Tasks : WF_vars((\E well \in BOOLEAN : CloseEnds(t, well)) \/ Cancelled(t))

Spec == Init /\ [][Next]_vars
FairSpec == Spec /\ Fairness
------------------------------------------------------------------------------
\* get never hands out a client somebody has begun to close.
PooledOpen == \A u \in Range(order) : status[clientOf[u]] = "open"

\* "a long-lived multi-tenant agent cannot leak a client": one that is not
\* closed is in the pool, or a task is about to close it, or its close failed
\* or was cancelled.
NoLeak ==
  \A c \in Clients : status[c] # "closed" => c \in Pooled \cup BeingClosed \cup abandoned

\* A client is closed under a call that is using it only when the whole pool
\* is closed or when, since the call fetched it, as many other users were
\* served as the pool has places.
ClosedUnderPressure ==
  \A t \in Tasks :
    Holds(t) /\ status[mine[t]] # "open" /\ ~closed
      => Cardinality(askedSince[t] \ {user[t]}) >= MaxClients

\* After aclose, whatever gets and other closes are under way, every client
\* ends closed unless its close failed or was cancelled.
ClosedPoolDrains ==
  closed ~> \A c \in Clients : status[c] = "closed" \/ c \in abandoned
==============================================================================
