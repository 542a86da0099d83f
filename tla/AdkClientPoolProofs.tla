------------------------- MODULE AdkClientPoolProofs -------------------------
(***************************************************************************)
(* ClientPool keeps its promises for every number of users, clients, calls *)
(* and every capacity.                                                     *)
(***************************************************************************)
EXTENDS AdkClientPool, LruProofs, FiniteSetTheorems, TLAPS

USE MaxClientsAssumption, NoClientAssumption, NoUserAssumption

\* The inductive strengthening of PooledOpen and NoLeak: a client has one
\* place only.  It is pooled for one user, or it is in one task's hands to be
\* closed, once; and a place is not given to a new client before the client
\* there is closed.
OnePlace ==
  /\ \A u, v \in Users : clientOf[u] # NoClient /\ clientOf[u] = clientOf[v] => u = v
  /\ \A u \in Users : clientOf[u] # NoClient => status[clientOf[u]] = "open"
  /\ \A t \in Tasks : \A i \in 1..Len(toClose[t]) :
       /\ status[toClose[t][i]] # "closed"
       /\ \A u \in Users : clientOf[u] # toClose[t][i]
  /\ \A s, t \in Tasks : \A i \in 1..Len(toClose[s]), j \in 1..Len(toClose[t]) :
       toClose[s][i] = toClose[t][j] => s = t /\ i = j

\* Finding a client in the pool reorders the pool and changes no member.
LEMMA GetPooledOrder ==
  ASSUME TypeOK, NEW u \in Range(order), MoveToEnd(u)
  PROVE  IsOrder(order', Users, MaxClients) /\ Range(order') = Range(order)
<1>1. IsOrder(order, Users, MaxClients) /\ order \in Seq(Users)
  BY DEF TypeOK, IsOrder
<1>2. u \in Users
  BY <1>1 DEF Range
<1>3. Range(Touch(order, u)) = Range(order) \cup {u}
  <2>1. MaxClients \in Nat
    OBVIOUS
  <2>. QED BY <1>1, <1>2, <2>1, TouchMembers
<1>4. \E i \in 1..Len(order) : order[i] = u
  BY <1>1 DEF Range
<1>5. IsOrder(Touch(order, u), Users, MaxClients + 1)
  BY <1>1, <1>2, TouchKeepsOrder
<1>6. Len(Touch(order, u)) = Len(order)
  <2>1. Place(order, u) <= Len(order) /\ Len(order) \in Nat
    BY <1>1, <1>4 DEF Place
  <2>. QED BY <2>1 DEF Touch
<1>. QED BY <1>1, <1>3, <1>5, <1>6 DEF MoveToEnd, IsOrder

\* What Append is, in the form the steps below use.
LEMMA AppendFacts ==
  ASSUME NEW S, NEW s \in Seq(S), NEW x \in S
  PROVE  /\ Append(s, x) \in Seq(S) /\ Len(Append(s, x)) = Len(s) + 1
         /\ \A i \in 1..Len(s) : Append(s, x)[i] = s[i]
         /\ Append(s, x)[Len(s) + 1] = x
OBVIOUS

\* What a build leaves is an order within the capacity; it has the new user and
\* lacks the victim, if there is one, which is the least recently used.
LEMMA BuildOrder ==
  ASSUME TypeOK, NEW u \in Users, u \notin Range(order),
         order' = Append(IF Victims = <<>> THEN order ELSE Tail(order), u)
  PROVE  /\ IsOrder(order', Users, MaxClients)
         /\ Range(order') = (Range(order) \ Range(Victims)) \cup {u}
         /\ Victims = <<>> \/ /\ order # <<>> /\ Victims = <<order[1]>>
                              /\ order[1] \in Range(order)
                              /\ Len(order) = MaxClients
<1>1. /\ order \in Seq(Users) /\ Len(order) \in Nat /\ Len(order) <= MaxClients
      /\ \A i, j \in 1..Len(order) : order[i] = order[j] => i = j
  BY DEF TypeOK, IsOrder
<1>2. \A i \in 1..Len(order) : order[i] # u /\ order[i] \in Range(order)
  BY <1>1 DEF Range
<1>d. \A x \in Range(order) : \E i \in 1..Len(order) : order[i] = x
  BY <1>1 DEF Range
<1>3. CASE Victims = <<>>
  <2>1. order' = Append(order, u) /\ Len(order) + 1 <= MaxClients
    BY <1>1, <1>3 DEF Victims
  <2>2. /\ order' \in Seq(Users) /\ Len(order') = Len(order) + 1
        /\ \A i \in 1..Len(order) : order'[i] = order[i]
        /\ order'[Len(order) + 1] = u
    <3>1. /\ Append(order, u) \in Seq(Users) /\ Len(Append(order, u)) = Len(order) + 1
          /\ \A i \in 1..Len(order) : Append(order, u)[i] = order[i]
          /\ Append(order, u)[Len(order) + 1] = u
      BY <1>1, AppendFacts
    <3>. QED BY <2>1, <3>1
  <2>3. IsOrder(order', Users, MaxClients)
    BY <2>1, <2>2, <1>1, <1>2 DEF IsOrder
  <2>4. Range(order') \subseteq Range(order) \cup {u}
    <3>1. ASSUME NEW i \in 1..Len(order') PROVE order'[i] \in Range(order) \cup {u}
      BY <2>2, <1>1, <1>2
    <3>. QED BY <3>1, <2>2 DEF Range
  <2>5. Range(order) \cup {u} \subseteq Range(order')
    <3>1. \A i \in 1..Len(order') : order'[i] \in Range(order')
      BY <2>2 DEF Range
    <3>2. Len(order) + 1 \in 1..Len(order') /\ \A i \in 1..Len(order) : i \in 1..Len(order')
      BY <2>2, <1>1
    <3>. QED BY <3>1, <3>2, <2>2, <1>d
  <2>6. Range(Victims) = {}
    BY <1>3 DEF Range
  <2>. QED BY <1>3, <2>3, <2>4, <2>5, <2>6
<1>4. CASE Victims # <<>>
  <2>1. /\ Len(order) = MaxClients /\ order # <<>> /\ Victims = <<order[1]>>
        /\ order' = Append(Tail(order), u)
    BY <1>1, <1>4 DEF Victims
  <2>2. /\ Tail(order) \in Seq(Users) /\ Len(Tail(order)) = Len(order) - 1
        /\ \A i \in 1..Len(order) - 1 : Tail(order)[i] = order[i + 1]
    BY <1>1, <2>1
  <2>3. /\ order' \in Seq(Users) /\ Len(order') = Len(order)
        /\ \A i \in 1..Len(order) - 1 : order'[i] = order[i + 1]
        /\ order'[Len(order)] = u
    BY <2>1, <2>2, <1>1, AppendFacts
  <2>4. IsOrder(order', Users, MaxClients)
    <3>. SUFFICES ASSUME NEW i \in 1..Len(order), NEW j \in 1..Len(order),
                         order'[i] = order'[j], i < j
                  PROVE  FALSE
      BY <2>1, <2>3, <1>1 DEF IsOrder
    <3>1. i + 1 \in 1..Len(order) /\ order'[i] = order[i + 1]
      BY <2>3, <1>1
    <3>2. CASE j < Len(order)
      <4>1. j + 1 \in 1..Len(order) /\ order'[j] = order[j + 1]
        BY <3>2, <2>3, <1>1
      <4>. QED BY <3>1, <4>1, <1>1
    <3>3. CASE j = Len(order)
      BY <3>3, <3>1, <2>3, <1>2
    <3>. QED BY <3>2, <3>3, <1>1
  <2>5. \A i \in 1..Len(order') : order'[i] \in Range(order')
    BY <2>3 DEF Range
  <2>6. 1 \in 1..Len(order)
    BY <1>1, <2>1
  <2>7. Range(order') \subseteq (Range(order) \ {order[1]}) \cup {u}
    <3>1. ASSUME NEW i \in 1..Len(order')
          PROVE  order'[i] \in (Range(order) \ {order[1]}) \cup {u}
      <4>1. CASE i < Len(order)
        <5>1. i + 1 \in 1..Len(order) /\ order'[i] = order[i + 1] /\ i + 1 # 1
          BY <4>1, <2>3, <1>1
        <5>. QED BY <5>1, <2>6, <1>1, <1>2
      <4>2. CASE i = Len(order)
        BY <4>2, <2>3
      <4>. QED BY <4>1, <4>2, <2>3, <1>1
    <3>. QED BY <3>1, <2>3 DEF Range
  <2>8. (Range(order) \ {order[1]}) \cup {u} \subseteq Range(order')
    <3>1. ASSUME NEW x \in Range(order), x # order[1] PROVE x \in Range(order')
      <4>1. PICK i \in 1..Len(order) : order[i] = x
        BY <1>d
      <4>2. i - 1 \in 1..Len(order') /\ i - 1 \in 1..Len(order) - 1 /\ (i - 1) + 1 = i
        BY <4>1, <3>1, <2>3, <1>1
      <4>3. order'[i - 1] = order[(i - 1) + 1]
        BY <4>2, <2>3
      <4>. QED BY <4>1, <4>2, <4>3, <2>5
    <3>2. u \in Range(order')
      BY <2>3, <2>5, <2>6
    <3>. QED BY <3>1, <3>2
  <2>9. Range(Victims) = {order[1]}
    BY <2>1 DEF Range
  <2>. QED BY <2>1, <2>4, <2>6, <2>7, <2>8, <2>9, <1>2
<1>. QED BY <1>3, <1>4

\* Every value keeps its type; the pool stays within its capacity and its two
\* halves agree.
THEOREM PoolTypeCorrect == Spec => []TypeOK
<1>1. Init => TypeOK
  <2>. SUFFICES ASSUME Init PROVE TypeOK
    OBVIOUS
  <2>1. IsOrder(order, Users, MaxClients) /\ Range(order) = {}
    BY DEF Init, IsOrder, Range
  <2>2. toClose \in [Tasks -> Seq(Clients)] /\ \A t \in Tasks : toClose[t] = <<>>
    BY DEF Init
  <2>3. \A t \in Tasks : phase[t] = "idle" /\ ~Holds(t)
    BY DEF Init, Holds
  <2>4. clientOf \in [Users -> Clients \cup {NoClient}] /\ \A u \in Users : clientOf[u] = NoClient
    BY DEF Init
  <2>. QED BY <2>1, <2>2, <2>3, <2>4 DEF Init, TypeOK, Phases
<1>2. TypeOK /\ [Next]_vars => TypeOK'
  <2>. SUFFICES ASSUME TypeOK, [Next]_vars PROVE TypeOK'
    OBVIOUS
  <2>1. ASSUME NEW t \in Tasks, NEW u \in Users, GetPooled(t, u) PROVE TypeOK'
    <3>1. IsOrder(order', Users, MaxClients) /\ Range(order') = Range(order)
      BY <2>1, GetPooledOrder DEF GetPooled
    <3>2. clientOf[u] \in Clients
      BY <2>1 DEF GetPooled, TypeOK
    <3>. QED BY <2>1, <3>1, <3>2 DEF GetPooled, Take, TypeOK, Phases, Holds
  <2>2. ASSUME NEW t \in Tasks, NEW u \in Users, GetBuilds(t, u) PROVE TypeOK'
    <3> DEFINE vs == [i \in 1..Len(Victims) |-> clientOf[Victims[i]]]
    <3>1. /\ IsOrder(order', Users, MaxClients)
          /\ Range(order') = (Range(order) \ Range(Victims)) \cup {u}
          /\ Victims = <<>> \/ /\ order # <<>> /\ Victims = <<order[1]>>
                               /\ order[1] \in Range(order)
      BY <2>2, BuildOrder DEF GetBuilds
    <3>2. vs \in Seq(Clients)
      <4>1. CASE Victims = <<>>
        BY <4>1
      <4>2. CASE Victims # <<>>
        <5>1. order[1] \in Users /\ clientOf[order[1]] \in Clients
          BY <4>2, <3>1 DEF TypeOK, IsOrder
        <5>2. Len(Victims) = 1 /\ Victims[1] = order[1]
          BY <4>2, <3>1
        <5>3. vs \in [1..1 -> Clients]
          BY <5>1, <5>2
        <5>. QED BY <5>3
      <4>. QED BY <4>1, <4>2
    <3>. HIDE DEF vs
    <3>3. PICK c \in {d \in Clients : Free(d)} :
            /\ clientOf' = [v \in Users |-> IF v = u THEN c
                                       ELSE IF v \in Range(Victims) THEN NoClient
                                       ELSE clientOf[v]]
            /\ status' = [d \in Clients |-> IF d = c THEN "open"
                                            ELSE IF d \in Range(vs) THEN "closing"
                                            ELSE status[d]]
            /\ Take(t, u, c, vs)
      BY <2>2 DEF GetBuilds, vs
    <3>. QED BY <2>2, <3>1, <3>2, <3>3 DEF GetBuilds, Take, TypeOK, Phases, Holds
  <2>3. ASSUME NEW t \in Tasks, Aclose(t) PROVE TypeOK'
    <3> DEFINE cs == [i \in 1..Len(order) |-> clientOf[order[i]]]
    <3>1. /\ \A i \in 1..Len(order) : order[i] \in Range(order) /\ order[i] \in Users
          /\ Len(order) \in Nat
      <4>1. order \in Seq(Users)
        BY DEF TypeOK, IsOrder
      <4>. QED BY <4>1 DEF Range
    <3>2. cs \in Seq(Clients)
      <4>1. \A i \in 1..Len(order) : clientOf[order[i]] \in Clients
        BY <3>1 DEF TypeOK
      <4>. QED BY <3>1, <4>1
    <3>. HIDE DEF cs
    <3>3. /\ closed' = TRUE
          /\ order' = <<>>
          /\ clientOf' = [u \in Users |-> NoClient]
          /\ toClose' = [toClose EXCEPT ![t] = cs]
          /\ IF cs = <<>> THEN UNCHANGED <<phase, status>>
             ELSE /\ phase' = [phase EXCEPT ![t] = "closing"]
                  /\ status' = [status EXCEPT ![Head(cs)] = "closing"]
          /\ UNCHANGED <<user, mine, abandoned, askedSince>>
          /\ phase[t] = "idle"
      BY <2>3 DEF Aclose, ClearPool, cs
    <3>4. IsOrder(order', Users, MaxClients) /\ Range(order') = {}
      BY <3>3 DEF IsOrder, Range
    <3>5. phase' \in [Tasks -> Phases] /\ status' \in [Clients -> {"open", "closing", "closed"}]
      BY <3>3 DEF TypeOK, Phases
    <3>6. toClose' \in [Tasks -> Seq(Clients)] /\ clientOf' \in [Users -> Clients \cup {NoClient}]
      BY <3>2, <3>3 DEF TypeOK
    <3>7. \A s \in Tasks : toClose'[s] = <<>> <=> phase'[s] \in {"idle", "using"}
      BY <3>3 DEF TypeOK
    <3>8. \A s \in Tasks : Holds(s)' => user'[s] \in Users /\ mine'[s] \in Clients
      BY <3>3 DEF TypeOK, Holds
    <3>9. \A u \in Users : clientOf'[u] = NoClient <=> u \notin Range(order')
      BY <3>3, <3>4
    <3>. QED BY <3>3, <3>4, <3>5, <3>6, <3>7, <3>8, <3>9 DEF TypeOK
  <2>4. ASSUME NEW t \in Tasks, NEW well \in BOOLEAN, CloseEnds(t, well) PROVE TypeOK'
    BY <2>4 DEF CloseEnds, AfterClosing, TypeOK, Phases, Holds, pool
  <2>5. ASSUME NEW t \in Tasks, Cancelled(t) PROVE TypeOK'
    <3>1. Range(toClose[t]) \subseteq Clients
      BY DEF TypeOK, Range
    <3>. QED BY <2>5, <3>1 DEF Cancelled, Leave, TypeOK, Phases, Holds, pool
  <2>6. ASSUME NEW t \in Tasks, CallEnds(t) PROVE TypeOK'
    BY <2>6 DEF CallEnds, Leave, TypeOK, Phases, Holds, pool
  <2>7. CASE UNCHANGED vars
    BY <2>7 DEF vars, TypeOK, Holds
  <2>. QED BY <2>1, <2>2, <2>3, <2>4, <2>5, <2>6, <2>7 DEF Next
<1>. QED BY <1>1, <1>2, PTL DEF Spec

\* What get does when it builds a client c: it takes a free place, and when
\* the pool is full the least recently used user w loses its client.
LEMMA BuildFacts ==
  ASSUME TypeOK, NEW t \in Tasks, NEW u \in Users, GetBuilds(t, u)
  PROVE  \E c \in Clients :
           /\ Free(c) /\ clientOf[u] = NoClient
           /\ mine' = [mine EXCEPT ![t] = c] /\ user' = [user EXCEPT ![t] = u]
           /\ \/ /\ clientOf' = [clientOf EXCEPT ![u] = c]
                 /\ status' = [status EXCEPT ![c] = "open"]
                 /\ toClose' = [toClose EXCEPT ![t] = <<>>]
                 /\ Victims = <<>>
              \/ \E w \in Users \ {u} :
                   /\ w = order[1] /\ Len(order) = MaxClients
                   /\ Victims = <<w>>
                   /\ clientOf[w] \in Clients
                   /\ clientOf' = [clientOf EXCEPT ![u] = c, ![w] = NoClient]
                   /\ status' = [d \in Clients |-> IF d = c THEN "open"
                                                   ELSE IF d = clientOf[w] THEN "closing"
                                                   ELSE status[d]]
                   /\ toClose' = [toClose EXCEPT ![t] = <<clientOf[w]>>]
<1> DEFINE vs == [i \in 1..Len(Victims) |-> clientOf[Victims[i]]]
<1>1. PICK c \in {d \in Clients : Free(d)} :
        /\ clientOf' = [v \in Users |-> IF v = u THEN c
                                   ELSE IF v \in Range(Victims) THEN NoClient
                                   ELSE clientOf[v]]
        /\ status' = [d \in Clients |-> IF d = c THEN "open"
                                        ELSE IF d \in Range(vs) THEN "closing"
                                        ELSE status[d]]
        /\ Take(t, u, c, vs)
  BY DEF GetBuilds
<1>2. /\ u \notin Range(order) /\ clientOf[u] = NoClient
      /\ order' = Append(IF Victims = <<>> THEN order ELSE Tail(order), u)
  BY DEF GetBuilds, TypeOK
<1>3. Victims = <<>> \/ /\ order # <<>> /\ Victims = <<order[1]>>
                        /\ order[1] \in Range(order)
                        /\ Len(order) = MaxClients
  BY <1>2, BuildOrder
<1>4. /\ mine' = [mine EXCEPT ![t] = c] /\ user' = [user EXCEPT ![t] = u]
      /\ toClose' = [toClose EXCEPT ![t] = vs]
  BY <1>1 DEF Take
<1>5. clientOf \in [Users -> Clients \cup {NoClient}] /\ status \in [Clients -> {"open", "closing", "closed"}]
  BY DEF TypeOK
<1>6. CASE Victims = <<>>
  <2>1. Range(Victims) = {} /\ vs = <<>> /\ Range(vs) = {}
    BY <1>6 DEF Range
  <2>. HIDE DEF vs
  <2>2. clientOf' = [clientOf EXCEPT ![u] = c] /\ status' = [status EXCEPT ![c] = "open"]
    BY <2>1, <1>1, <1>5
  <2>. QED BY <2>1, <2>2, <1>1, <1>2, <1>4, <1>6
<1>7. CASE Victims # <<>>
  <2> DEFINE w == order[1]
  <2>1. w \in Users \ {u} /\ clientOf[w] \in Clients
    <3>1. order \in Seq(Users) /\ w \in Range(order)
      BY <1>7, <1>3 DEF TypeOK, IsOrder
    <3>2. w \in Users
      BY <3>1 DEF Range
    <3>. QED BY <3>1, <3>2, <1>2 DEF TypeOK
  <2>2. Victims = <<w>> /\ Len(Victims) = 1 /\ Victims[1] = w
    BY <1>7, <1>3
  <2>. HIDE DEF w
  <2>3. vs = <<clientOf[w]>>
    BY <2>2
  <2>4. Range(Victims) = {w} /\ Range(vs) = {clientOf[w]}
    BY <2>2, <2>3 DEF Range
  <2>. HIDE DEF vs
  <2>5. clientOf' = [clientOf EXCEPT ![u] = c, ![w] = NoClient]
    BY <2>1, <2>4, <1>1, <1>5
  <2>6. status' = [d \in Clients |-> IF d = c THEN "open"
                                    ELSE IF d = clientOf[w] THEN "closing"
                                    ELSE status[d]]
    BY <2>4, <1>1
  <2>. QED BY <2>1, <2>2, <2>3, <2>5, <2>6, <1>1, <1>2, <1>3, <1>4, <1>7 DEF w
<1>. QED BY <1>6, <1>7

\* What aclose does: every pooled client, once, goes into t's hands.
LEMMA AcloseFacts ==
  ASSUME TypeOK, NEW t \in Tasks, Aclose(t)
  PROVE  /\ toClose[t] = <<>> /\ clientOf' = [u \in Users |-> NoClient]
         /\ UNCHANGED abandoned
         /\ \E cs \in Seq(Clients) :
              /\ toClose' = [toClose EXCEPT ![t] = cs]
              /\ status' = IF cs = <<>> THEN status ELSE [status EXCEPT ![cs[1]] = "closing"]
              /\ Len(cs) = Len(order)
              /\ \A i \in 1..Len(cs) : order[i] \in Users /\ cs[i] = clientOf[order[i]]
              /\ \A i, j \in 1..Len(cs) : order[i] = order[j] => i = j
              /\ \A u \in Users : clientOf[u] # NoClient => \E i \in 1..Len(cs) : order[i] = u
<1> DEFINE cs == [i \in 1..Len(order) |-> clientOf[order[i]]]
<1>1. /\ \A i \in 1..Len(order) : order[i] \in Range(order) /\ order[i] \in Users
      /\ Len(order) \in Nat
      /\ \A u \in Range(order) : \E i \in 1..Len(order) : order[i] = u
  <2>1. order \in Seq(Users)
    BY DEF TypeOK, IsOrder
  <2>. QED BY <2>1 DEF Range
<1>2. cs \in Seq(Clients)
  <2>1. \A i \in 1..Len(order) : clientOf[order[i]] \in Clients
    BY <1>1 DEF TypeOK
  <2>. QED BY <1>1, <2>1
<1>3. Len(cs) = Len(order) /\ \A i \in 1..Len(order) : cs[i] = clientOf[order[i]]
  BY <1>1
<1>. HIDE DEF cs
<1>4. /\ clientOf' = [u \in Users |-> NoClient]
      /\ toClose' = [toClose EXCEPT ![t] = cs]
      /\ IF cs = <<>> THEN UNCHANGED <<phase, status>>
         ELSE status' = [status EXCEPT ![Head(cs)] = "closing"]
      /\ UNCHANGED abandoned
      /\ phase[t] = "idle"
  BY DEF Aclose, ClearPool, cs
<1>5. toClose[t] = <<>>
  BY <1>4 DEF TypeOK
<1>6. \A i, j \in 1..Len(order) : order[i] = order[j] => i = j
  BY DEF TypeOK, IsOrder
<1>7. \A u \in Users : clientOf[u] # NoClient => u \in Range(order)
  BY DEF TypeOK
<1>8. status' = IF cs = <<>> THEN status ELSE [status EXCEPT ![cs[1]] = "closing"]
  BY <1>2, <1>4
<1>9. \E c \in Seq(Clients) :
        /\ toClose' = [toClose EXCEPT ![t] = c]
        /\ status' = IF c = <<>> THEN status ELSE [status EXCEPT ![c[1]] = "closing"]
        /\ Len(c) = Len(order)
        /\ \A i \in 1..Len(c) : order[i] \in Users /\ c[i] = clientOf[order[i]]
        /\ \A i, j \in 1..Len(c) : order[i] = order[j] => i = j
        /\ \A u \in Users : clientOf[u] # NoClient => \E i \in 1..Len(c) : order[i] = u
  <2>. WITNESS cs \in Seq(Clients)
  <2>1. \A i \in 1..Len(cs) : order[i] \in Users /\ cs[i] = clientOf[order[i]]
    BY <1>1, <1>3
  <2>2. \A i, j \in 1..Len(cs) : order[i] = order[j] => i = j
    BY <1>3, <1>6
  <2>3. \A u \in Users : clientOf[u] # NoClient => \E i \in 1..Len(cs) : order[i] = u
    BY <1>1, <1>3, <1>7
  <2>. QED BY <2>1, <2>2, <2>3, <1>3, <1>4, <1>8
<1>. QED BY <1>4, <1>5, <1>9

\* The end of a close: one client less in t's hands.
LEMMA CloseEndsFacts ==
  ASSUME TypeOK, NEW t \in Tasks, NEW well \in BOOLEAN, CloseEnds(t, well)
  PROVE  /\ UNCHANGED clientOf
         /\ \E n \in Nat :
              /\ n > 0 /\ Len(toClose[t]) = n
              /\ Len(toClose'[t]) = n - 1
              /\ \A i \in 1..(n - 1) : toClose'[t][i] = toClose[t][i + 1]
              /\ \A s \in Tasks \ {t} : toClose'[s] = toClose[s]
              /\ status' = [d \in Clients |->
                              IF d = toClose[t][1] /\ well THEN "closed"
                              ELSE IF n > 1 /\ d = toClose[t][2] THEN "closing"
                              ELSE status[d]]
              /\ abandoned' = IF well THEN abandoned ELSE abandoned \cup {toClose[t][1]}
<1>1. toClose[t] \in Seq(Clients) /\ toClose[t] # <<>> /\ toClose \in [Tasks -> Seq(Clients)]
  BY DEF CloseEnds, TypeOK
<1> DEFINE rest == Tail(toClose[t])
           n == Len(toClose[t])
<1>2. /\ n \in Nat /\ n > 0 /\ rest \in Seq(Clients) /\ Len(rest) = n - 1
      /\ \A i \in 1..(n - 1) : rest[i] = toClose[t][i + 1]
  BY <1>1
<1>. HIDE DEF rest, n
<1>3. rest # <<>> <=> n > 1
  BY <1>2
<1>4. rest # <<>> => Head(rest) = toClose[t][2]
  <2>1. rest # <<>> => Head(rest) = rest[1] /\ 1 \in 1..(n - 1)
    BY <1>2, <1>3
  <2>. QED BY <2>1, <1>2
<1>5. Head(toClose[t]) = toClose[t][1]
  BY <1>1
<1>6. /\ toClose' = [toClose EXCEPT ![t] = rest]
      /\ status' = [d \in Clients |-> IF d = Head(toClose[t]) /\ well THEN "closed"
                                      ELSE IF rest # <<>> /\ d = Head(rest) THEN "closing"
                                      ELSE status[d]]
      /\ abandoned' = IF well THEN abandoned ELSE abandoned \cup {Head(toClose[t])}
      /\ UNCHANGED clientOf
  BY DEF CloseEnds, rest, pool
<1>7. n = Len(toClose[t])
  BY DEF n
<1>8. status' = [d \in Clients |-> IF d = toClose[t][1] /\ well THEN "closed"
                                  ELSE IF n > 1 /\ d = toClose[t][2] THEN "closing"
                                  ELSE status[d]]
  BY <1>3, <1>4, <1>5, <1>6
<1>9. toClose'[t] = rest /\ \A s \in Tasks \ {t} : toClose'[s] = toClose[s]
  BY <1>1, <1>6
<1>. QED BY <1>2, <1>5, <1>6, <1>7, <1>8, <1>9

\* PooledOpen and NoLeak user by user and place by place.
HeldSomewhere ==
  \A c \in Clients : status[c] # "closed" =>
    \/ \E u \in Users : clientOf[u] = c
    \/ \E t \in Tasks : \E i \in 1..Len(toClose[t]) : toClose[t][i] = c
    \/ c \in abandoned

Hands == OnePlace /\ HeldSomewhere

\* OnePlace and HeldSomewhere are inductive together.
LEMMA HandsInvariant == Spec => []Hands
<1>1. Init => Hands
  <2>. SUFFICES ASSUME Init PROVE Hands
    OBVIOUS
  <2>1. \A t \in Tasks : toClose[t] = <<>> /\ Len(toClose[t]) = 0
    BY DEF Init
  <2>. QED BY <2>1 DEF Init, Hands, OnePlace, HeldSomewhere
<1>2. TypeOK /\ Hands /\ [Next]_vars => Hands'
  <2>. SUFFICES ASSUME TypeOK, Hands, [Next]_vars PROVE Hands'
    OBVIOUS
  <2>0. /\ clientOf \in [Users -> Clients \cup {NoClient}]
        /\ status \in [Clients -> {"open", "closing", "closed"}]
        /\ toClose \in [Tasks -> Seq(Clients)]
        /\ \A t \in Tasks : toClose[t] \in Seq(Clients) /\ Len(toClose[t]) \in Nat
        /\ \A t \in Tasks : \A i \in 1..Len(toClose[t]) : toClose[t][i] \in Clients
        /\ \A t \in Tasks : phase[t] = "idle" => toClose[t] = <<>> /\ Len(toClose[t]) = 0
    <3>1. toClose \in [Tasks -> Seq(Clients)]
      BY DEF TypeOK
    <3>2. \A t \in Tasks : toClose[t] \in Seq(Clients)
      BY <3>1
    <3>3. \A t \in Tasks : phase[t] = "idle" => toClose[t] = <<>>
      BY DEF TypeOK
    <3>. QED BY <3>1, <3>2, <3>3 DEF TypeOK
  <2>1. ASSUME NEW t \in Tasks, NEW u \in Users, GetPooled(t, u) PROVE Hands'
    <3>1. /\ UNCHANGED <<clientOf, status, abandoned>>
          /\ toClose' = [toClose EXCEPT ![t] = <<>>]
          /\ toClose[t] = <<>>
      BY <2>1, <2>0 DEF GetPooled, Take
    <3>2. toClose' = toClose
      BY <3>1, <2>0
    <3>. QED BY <3>1, <3>2 DEF Hands, OnePlace, HeldSomewhere
  <2>2. ASSUME NEW t \in Tasks, NEW u \in Users, GetBuilds(t, u) PROVE Hands'
    <3>0. UNCHANGED abandoned /\ toClose[t] = <<>> /\ Len(toClose[t]) = 0
      BY <2>2, <2>0 DEF GetBuilds
    <3>1. PICK c \in Clients :
           /\ Free(c) /\ clientOf[u] = NoClient
           /\ \/ /\ clientOf' = [clientOf EXCEPT ![u] = c]
                 /\ status' = [status EXCEPT ![c] = "open"]
                 /\ toClose' = [toClose EXCEPT ![t] = <<>>]
              \/ \E w \in Users \ {u} :
                   /\ clientOf[w] \in Clients
                   /\ clientOf' = [clientOf EXCEPT ![u] = c, ![w] = NoClient]
                   /\ status' = [d \in Clients |-> IF d = c THEN "open"
                                                   ELSE IF d = clientOf[w] THEN "closing"
                                                   ELSE status[d]]
                   /\ toClose' = [toClose EXCEPT ![t] = <<clientOf[w]>>]
      BY <2>2, BuildFacts
    <3>2. /\ status[c] = "closed" /\ \A v \in Users : clientOf[v] # c
          /\ \A s \in Tasks : \A i \in 1..Len(toClose[s]) : toClose[s][i] # c
      BY <3>1, NoClientAssumption DEF Free, Hands, OnePlace
    <3>3. CASE /\ clientOf' = [clientOf EXCEPT ![u] = c]
               /\ status' = [status EXCEPT ![c] = "open"]
               /\ toClose' = [toClose EXCEPT ![t] = <<>>]
      <4>1. toClose' = toClose
        BY <3>0, <3>3, <2>0
      <4>2. OnePlace'
        BY <3>1, <3>2, <3>3, <4>1, <2>0 DEF Hands, OnePlace
      <4>3. HeldSomewhere'
        BY <3>0, <3>1, <3>2, <3>3, <4>1, <2>0 DEF Hands, HeldSomewhere
      <4>. QED BY <4>2, <4>3 DEF Hands
    <3>4. ASSUME NEW w \in Users \ {u},
                 clientOf[w] \in Clients,
                 clientOf' = [clientOf EXCEPT ![u] = c, ![w] = NoClient],
                 status' = [d \in Clients |-> IF d = c THEN "open"
                                             ELSE IF d = clientOf[w] THEN "closing"
                                             ELSE status[d]],
                 toClose' = [toClose EXCEPT ![t] = <<clientOf[w]>>]
          PROVE  Hands'
      <4> DEFINE x == clientOf[w]
      <4>1. /\ x \in Clients /\ x # c /\ x # NoClient
            /\ \A s \in Tasks : \A i \in 1..Len(toClose[s]) : toClose[s][i] # x
            /\ \A v \in Users : clientOf[v] = x => v = w
        BY <3>4, <3>2, NoClientAssumption DEF Hands, OnePlace
      <4>2. /\ toClose'[t] = <<x>> /\ Len(toClose'[t]) = 1 /\ toClose'[t][1] = x
            /\ \A s \in Tasks \ {t} : toClose'[s] = toClose[s]
        BY <3>4, <2>0
      <4>3. \A v \in Users : clientOf'[v] = IF v = u THEN c ELSE IF v = w THEN NoClient ELSE clientOf[v]
        BY <3>4, <2>0
      <4>4. \A d \in Clients : status'[d] = IF d = c THEN "open" ELSE IF d = x THEN "closing" ELSE status[d]
        BY <3>4
      <4>. HIDE DEF x
      <4>5. \A v, v2 \in Users : clientOf'[v] # NoClient /\ clientOf'[v] = clientOf'[v2] => v = v2
        BY <4>3, <3>2 DEF Hands, OnePlace
      <4>6. \A v \in Users : clientOf'[v] # NoClient => status'[clientOf'[v]] = "open"
        <5>. SUFFICES ASSUME NEW v \in Users, clientOf'[v] # NoClient
                      PROVE  status'[clientOf'[v]] = "open"
          OBVIOUS
        <5>1. CASE v = u
          BY <5>1, <4>3, <4>4
        <5>2. CASE v # u
          <6>1. v # w /\ clientOf'[v] = clientOf[v] /\ clientOf[v] \in Clients
            BY <5>2, <4>3, <2>0
          <6>2. clientOf[v] # c /\ clientOf[v] # x
            BY <6>1, <4>1, <3>2
          <6>. QED BY <6>1, <6>2, <4>4 DEF Hands, OnePlace
        <5>. QED BY <5>1, <5>2
      <4>7. \A s \in Tasks : \A i \in 1..Len(toClose'[s]) :
              /\ status'[toClose'[s][i]] # "closed"
              /\ \A v \in Users : clientOf'[v] # toClose'[s][i]
        <5>. SUFFICES ASSUME NEW s \in Tasks, NEW i \in 1..Len(toClose'[s])
                      PROVE  /\ status'[toClose'[s][i]] # "closed"
                             /\ \A v \in Users : clientOf'[v] # toClose'[s][i]
          OBVIOUS
        <5>1. CASE s = t
          <6>1. toClose'[s][i] = x
            BY <5>1, <4>2
          <6>. QED BY <6>1, <4>1, <4>3, <4>4
        <5>2. CASE s # t
          <6>1. /\ toClose'[s] = toClose[s] /\ i \in 1..Len(toClose[s])
                /\ toClose[s][i] \in Clients
            BY <5>2, <4>2, <2>0
          <6>2. toClose[s][i] # c /\ toClose[s][i] # x /\ toClose[s][i] # NoClient
            BY <6>1, <4>1, <3>2, NoClientAssumption
          <6>3. status[toClose[s][i]] # "closed" /\ \A v \in Users : clientOf[v] # toClose[s][i]
            BY <6>1 DEF Hands, OnePlace
          <6>. QED BY <6>1, <6>2, <6>3, <4>3, <4>4
        <5>. QED BY <5>1, <5>2
      <4>8. \A r, s \in Tasks : \A i \in 1..Len(toClose'[r]), j \in 1..Len(toClose'[s]) :
              toClose'[r][i] = toClose'[s][j] => r = s /\ i = j
        BY <4>1, <4>2 DEF Hands, OnePlace
      <4>9. HeldSomewhere'
        <5>. SUFFICES ASSUME NEW d \in Clients, status'[d] # "closed"
                      PROVE  \/ \E v \in Users : clientOf'[v] = d
                             \/ \E s \in Tasks : \E i \in 1..Len(toClose'[s]) : toClose'[s][i] = d
                             \/ d \in abandoned'
          BY DEF HeldSomewhere
        <5>1. CASE d = c
          BY <5>1, <4>3
        <5>2. CASE d = x
          <6>1. 1 \in 1..Len(toClose'[t]) /\ toClose'[t][1] = d
            BY <5>2, <4>2
          <6>. QED BY <6>1
        <5>3. CASE d # c /\ d # x
          <6>1. status[d] # "closed"
            BY <5>3, <4>4
          <6>2. \A v \in Users : clientOf[v] = d => clientOf'[v] = d
            BY <5>3, <4>1, <4>3, <3>1, NoClientAssumption DEF x
          <6>3. \A s \in Tasks : \A i \in 1..Len(toClose[s]) : s # t /\ i \in 1..Len(toClose'[s]) /\ toClose'[s][i] = toClose[s][i]
            BY <4>2, <3>0
          <6>4. \/ \E v \in Users : clientOf[v] = d
                \/ \E s \in Tasks : \E i \in 1..Len(toClose[s]) : toClose[s][i] = d
                \/ d \in abandoned
            BY <6>1 DEF Hands, HeldSomewhere
          <6>. QED BY <6>2, <6>3, <6>4, <3>0
        <5>. QED BY <5>1, <5>2, <5>3
      <4>. QED BY <4>5, <4>6, <4>7, <4>8, <4>9 DEF Hands, OnePlace
    <3>. QED BY <3>1, <3>3, <3>4
  <2>3. ASSUME NEW t \in Tasks, Aclose(t) PROVE Hands'
    <3>0. Len(toClose[t]) = 0 /\ toClose[t] = <<>>
      BY <2>3, <2>0 DEF Aclose
    <3>1. clientOf' = [u \in Users |-> NoClient] /\ UNCHANGED abandoned
      BY <2>3, AcloseFacts
    <3>2. PICK cs \in Seq(Clients) :
            /\ toClose' = [toClose EXCEPT ![t] = cs]
            /\ status' = IF cs = <<>> THEN status ELSE [status EXCEPT ![cs[1]] = "closing"]
            /\ \A i \in 1..Len(cs) : order[i] \in Users /\ cs[i] = clientOf[order[i]]
            /\ \A i, j \in 1..Len(cs) : order[i] = order[j] => i = j
            /\ \A u \in Users : clientOf[u] # NoClient => \E i \in 1..Len(cs) : order[i] = u
      BY <2>3, AcloseFacts
    <3>3. \A i \in 1..Len(cs) : cs[i] \in Clients /\ cs[i] # NoClient /\ status[cs[i]] # "closed"
      <4>1. \A i \in 1..Len(cs) : cs[i] \in Clients
        BY <3>2
      <4>. QED BY <4>1, <3>2, NoClientAssumption DEF Hands, OnePlace
    <3>4. /\ toClose'[t] = cs
          /\ \A s \in Tasks \ {t} : toClose'[s] = toClose[s]
      BY <3>2, <2>0
    <3>5. cs # <<>> => 1 \in 1..Len(cs) /\ cs[1] \in Clients
      BY <3>3, <3>2
    <3>6. \A d \in Clients : status'[d] # "closed" <=> status[d] # "closed"
      BY <3>2, <3>3, <3>5, <2>0
    <3>7. \A u \in Users : clientOf'[u] = NoClient
      BY <3>1
    <3>8. \A s \in Tasks : \A i \in 1..Len(toClose'[s]) :
            /\ toClose'[s][i] \in Clients
            /\ status[toClose'[s][i]] # "closed"
      BY <3>3, <3>4, <2>0 DEF Hands, OnePlace
    <3>9. \A r, s \in Tasks : \A i \in 1..Len(toClose'[r]), j \in 1..Len(toClose'[s]) :
            toClose'[r][i] = toClose'[s][j] => r = s /\ i = j
      <4>. SUFFICES ASSUME NEW r \in Tasks, NEW s \in Tasks,
                           NEW i \in 1..Len(toClose'[r]), NEW j \in 1..Len(toClose'[s]),
                           toClose'[r][i] = toClose'[s][j]
                    PROVE  r = s /\ i = j
        OBVIOUS
      <4>1. CASE r = t /\ s = t
        BY <4>1, <3>2, <3>3, <3>4 DEF Hands, OnePlace
      <4>2. CASE r # t /\ s # t
        BY <4>2, <3>4 DEF Hands, OnePlace
      <4>3. \A q \in Tasks \ {t} : \A k \in 1..Len(toClose[q]) : \A l \in 1..Len(cs) : cs[l] # toClose[q][k]
        <5>1. \A q \in Tasks : \A k \in 1..Len(toClose[q]) : \A u \in Users : clientOf[u] # toClose[q][k]
          BY DEF Hands, OnePlace
        <5>. QED BY <3>2, <5>1
      <4>4. ~(r = t /\ s # t) /\ ~(r # t /\ s = t)
        BY <3>4, <4>3
      <4>. QED BY <4>1, <4>2, <4>4
    <3>10. OnePlace'
      BY <3>6, <3>7, <3>8, <3>9, NoClientAssumption DEF OnePlace
    <3>11. HeldSomewhere'
      <4>. SUFFICES ASSUME NEW d \in Clients, status'[d] # "closed", d \notin abandoned
                    PROVE  \E s \in Tasks : \E i \in 1..Len(toClose'[s]) : toClose'[s][i] = d
        BY <3>1 DEF HeldSomewhere
      <4>1. CASE \E u \in Users : clientOf[u] = d
        <5>1. PICK u \in Users : clientOf[u] = d
          BY <4>1
        <5>2. PICK i \in 1..Len(cs) : order[i] = u
          BY <5>1, <3>2, NoClientAssumption
        <5>. QED BY <5>1, <5>2, <3>2, <3>4
      <4>2. CASE \E s \in Tasks : \E i \in 1..Len(toClose[s]) : toClose[s][i] = d
        <5>1. PICK s \in Tasks : \E i \in 1..Len(toClose[s]) : toClose[s][i] = d
          BY <4>2
        <5>2. s # t
          BY <5>1, <3>0
        <5>. QED BY <5>1, <5>2, <3>4
      <4>. QED BY <4>1, <4>2, <3>6 DEF Hands, HeldSomewhere
    <3>. QED BY <3>10, <3>11 DEF Hands
  <2>4. ASSUME NEW t \in Tasks, NEW well \in BOOLEAN, CloseEnds(t, well) PROVE Hands'
    <3>1. UNCHANGED clientOf
      BY <2>4, CloseEndsFacts
    <3>2. PICK n \in Nat :
            /\ n > 0 /\ Len(toClose[t]) = n
            /\ Len(toClose'[t]) = n - 1
            /\ \A i \in 1..(n - 1) : toClose'[t][i] = toClose[t][i + 1]
            /\ \A s \in Tasks \ {t} : toClose'[s] = toClose[s]
            /\ status' = [d \in Clients |->
                            IF d = toClose[t][1] /\ well THEN "closed"
                            ELSE IF n > 1 /\ d = toClose[t][2] THEN "closing"
                            ELSE status[d]]
            /\ abandoned' = IF well THEN abandoned ELSE abandoned \cup {toClose[t][1]}
      BY <2>4, CloseEndsFacts
    <3>3. /\ 1 \in 1..Len(toClose[t]) /\ (n > 1 => 2 \in 1..Len(toClose[t]))
          /\ \A i \in 1..(n - 1) : i + 1 \in 1..Len(toClose[t]) /\ i + 1 # 1
      BY <3>2
    \* What is left to close: the same places, without the first of t.
    <3>4. ASSUME NEW s \in Tasks, NEW i \in 1..Len(toClose'[s])
          PROVE  \E k \in 1..Len(toClose[s]) :
                   /\ toClose'[s][i] = toClose[s][k]
                   /\ k = (IF s = t THEN i + 1 ELSE i)
                   /\ toClose[s][k] # toClose[t][1]
      <4>1. CASE s = t
        <5>1. i \in 1..(n - 1)
          BY <4>1, <3>2
        <5>2. i + 1 \in 1..Len(toClose[s]) /\ toClose'[s][i] = toClose[s][i + 1] /\ i + 1 # 1
          BY <4>1, <5>1, <3>2, <3>3
        <5>3. toClose[s][i + 1] # toClose[t][1]
          BY <4>1, <5>2, <3>3 DEF Hands, OnePlace
        <5>. QED BY <4>1, <5>2, <5>3
      <4>2. CASE s # t
        <5>1. i \in 1..Len(toClose[s]) /\ toClose'[s][i] = toClose[s][i]
          BY <4>2, <3>2
        <5>2. toClose[s][i] # toClose[t][1]
          BY <4>2, <5>1, <3>3 DEF Hands, OnePlace
        <5>. QED BY <4>2, <5>1, <5>2
      <4>. QED BY <4>1, <4>2
    <3>5. \A d \in Clients : d # toClose[t][1] =>
            (status'[d] # "closed" <=> status[d] # "closed" \/ (n > 1 /\ d = toClose[t][2]))
      BY <3>2
    <3>6. n > 1 => status[toClose[t][2]] # "closed"
      BY <3>3 DEF Hands, OnePlace
    <3>7. \A d \in Clients : d # toClose[t][1] => (status'[d] # "closed" <=> status[d] # "closed")
      BY <3>5, <3>6
    <3>8. \A u \in Users : clientOf[u] # NoClient => status'[clientOf[u]] = "open"
      <4>. SUFFICES ASSUME NEW u \in Users, clientOf[u] # NoClient
                    PROVE  status'[clientOf[u]] = "open"
        OBVIOUS
      <4>1. clientOf[u] # toClose[t][1] /\ (n > 1 => clientOf[u] # toClose[t][2])
        BY <3>3 DEF Hands, OnePlace
      <4>2. clientOf[u] \in Clients /\ status[clientOf[u]] = "open"
        BY <2>0 DEF Hands, OnePlace
      <4>. QED BY <4>1, <4>2, <3>2
    <3>9. \A s \in Tasks : \A i \in 1..Len(toClose'[s]) :
            /\ status'[toClose'[s][i]] # "closed"
            /\ \A u \in Users : clientOf[u] # toClose'[s][i]
      <4>. SUFFICES ASSUME NEW s \in Tasks, NEW i \in 1..Len(toClose'[s])
                    PROVE  /\ status'[toClose'[s][i]] # "closed"
                           /\ \A u \in Users : clientOf[u] # toClose'[s][i]
        OBVIOUS
      <4>1. PICK k \in 1..Len(toClose[s]) : toClose'[s][i] = toClose[s][k]
                                             /\ toClose[s][k] # toClose[t][1]
        BY <3>4
      <4>2. toClose[s][k] \in Clients
        BY <2>0
      <4>. QED BY <4>1, <4>2, <3>7 DEF Hands, OnePlace
    <3>10. \A r, s \in Tasks : \A i \in 1..Len(toClose'[r]), j \in 1..Len(toClose'[s]) :
             toClose'[r][i] = toClose'[s][j] => r = s /\ i = j
      <4>. SUFFICES ASSUME NEW r \in Tasks, NEW s \in Tasks,
                           NEW i \in 1..Len(toClose'[r]), NEW j \in 1..Len(toClose'[s]),
                           toClose'[r][i] = toClose'[s][j]
                    PROVE  r = s /\ i = j
        OBVIOUS
      <4>1. PICK k \in 1..Len(toClose[r]) : toClose'[r][i] = toClose[r][k]
                                             /\ k = (IF r = t THEN i + 1 ELSE i)
        BY <3>4
      <4>2. PICK l \in 1..Len(toClose[s]) : toClose'[s][j] = toClose[s][l]
                                             /\ l = (IF s = t THEN j + 1 ELSE j)
        BY <3>4
      <4>0. \A p, q \in Tasks : \A m \in 1..Len(toClose[p]), h \in 1..Len(toClose[q]) :
              toClose[p][m] = toClose[q][h] => p = q /\ m = h
        BY DEF Hands, OnePlace
      <4>m. toClose[r][k] = toClose[s][l]
        BY <4>1, <4>2
      <4>3. r = s /\ k = l
        BY <4>0, <4>m
      <4>. QED BY <4>1, <4>2, <4>3
    <3>11. HeldSomewhere'
      <4>. SUFFICES ASSUME NEW d \in Clients, status'[d] # "closed"
                    PROVE  \/ \E u \in Users : clientOf[u] = d
                           \/ \E s \in Tasks : \E i \in 1..Len(toClose'[s]) : toClose'[s][i] = d
                           \/ d \in abandoned'
        BY <3>1 DEF HeldSomewhere
      <4>1. CASE d = toClose[t][1]
        BY <4>1, <3>2
      <4>2. CASE d # toClose[t][1]
        <5>1. status[d] # "closed"
          BY <4>2, <3>7
        <5>2. CASE \E s \in Tasks : \E k \in 1..Len(toClose[s]) : toClose[s][k] = d
          <6>0. PICK s \in Tasks : \E k \in 1..Len(toClose[s]) : toClose[s][k] = d
            BY <5>2
          <6>1. PICK k \in 1..Len(toClose[s]) : toClose[s][k] = d
            BY <6>0
          <6>2. CASE s # t
            BY <6>1, <6>2, <3>2
          <6>3. CASE s = t
            <7>1. k # 1 /\ k - 1 \in 1..(n - 1) /\ k - 1 \in 1..Len(toClose'[t]) /\ (k - 1) + 1 = k
              BY <4>2, <6>1, <6>3, <3>2
            <7>2. toClose'[t][k - 1] = d
              BY <7>1, <6>1, <6>3, <3>2
            <7>. QED BY <7>1, <7>2
          <6>. QED BY <6>2, <6>3
        <5>3. abandoned \subseteq abandoned'
          BY <3>2
        <5>. QED BY <5>1, <5>2, <5>3 DEF Hands, HeldSomewhere
      <4>. QED BY <4>1, <4>2
    <3>12. OnePlace'
      BY <3>1, <3>8, <3>9, <3>10 DEF Hands, OnePlace
    <3>. QED BY <3>11, <3>12 DEF Hands
  <2>5. ASSUME NEW t \in Tasks, Cancelled(t) PROVE Hands'
    <3>1. /\ UNCHANGED <<clientOf, status>>
          /\ toClose' = [toClose EXCEPT ![t] = <<>>]
          /\ abandoned' = abandoned \cup Range(toClose[t])
      BY <2>5 DEF Cancelled, pool
    <3>2. \A i \in 1..Len(toClose[t]) : toClose[t][i] \in abandoned'
      BY <3>1, <2>0 DEF Range
    <3>3. /\ toClose'[t] = <<>> /\ Len(toClose'[t]) = 0
          /\ \A s \in Tasks \ {t} : toClose'[s] = toClose[s]
      BY <3>1, <2>0
    <3>4. OnePlace'
      BY <3>1, <3>3 DEF Hands, OnePlace
    <3>5. HeldSomewhere'
      BY <3>1, <3>2, <3>3 DEF Hands, HeldSomewhere
    <3>. QED BY <3>4, <3>5 DEF Hands
  <2>6. ASSUME NEW t \in Tasks, CallEnds(t) PROVE Hands'
    BY <2>6 DEF CallEnds, pool, Hands, OnePlace, HeldSomewhere
  <2>7. CASE UNCHANGED vars
    BY <2>7 DEF vars, Hands, OnePlace, HeldSomewhere
  <2>. QED BY <2>1, <2>2, <2>3, <2>4, <2>5, <2>6, <2>7 DEF Next
<1>. QED BY <1>1, <1>2, PoolTypeCorrect, PTL DEF Spec

\* PooledOpen: a client somebody has begun to close is never handed out.
THEOREM PoolHandsOutOpenClients == Spec => []PooledOpen
<1>1. TypeOK /\ Hands => PooledOpen
  <2>. SUFFICES ASSUME TypeOK, Hands, NEW u \in Range(order)
                PROVE  status[clientOf[u]] = "open"
    BY DEF PooledOpen
  <2>1. u \in Users
    <3>1. order \in Seq(Users)
      BY DEF TypeOK, IsOrder
    <3>. QED BY <3>1 DEF Range
  <2>. QED BY <2>1 DEF TypeOK, Hands, OnePlace
<1>. QED BY <1>1, PoolTypeCorrect, HandsInvariant, PTL

\* NoLeak: whatever is cancelled or fails, a client that is not closed is
\* pooled, in the hands of a task that is closing it, or given up.
THEOREM PoolDoesNotLeak == Spec => []NoLeak
<1>1. TypeOK /\ Hands => NoLeak
  <2>. SUFFICES ASSUME TypeOK, Hands, NEW c \in Clients, status[c] # "closed"
                PROVE  c \in Pooled \cup BeingClosed \cup abandoned
    BY DEF NoLeak
  <2>1. CASE \E u \in Users : clientOf[u] = c
    <3>1. PICK u \in Users : clientOf[u] = c
      BY <2>1
    <3>2. u \in Range(order)
      BY <3>1, NoClientAssumption DEF TypeOK
    <3>. QED BY <3>1, <3>2 DEF Pooled
  <2>2. CASE \E t \in Tasks : \E i \in 1..Len(toClose[t]) : toClose[t][i] = c
    <3>1. PICK t \in Tasks : \E i \in 1..Len(toClose[t]) : toClose[t][i] = c
      BY <2>2
    <3>2. c \in Range(toClose[t])
      <4>1. toClose[t] \in Seq(Clients)
        BY DEF TypeOK
      <4>. QED BY <3>1, <4>1 DEF Range
    <3>. QED BY <3>2 DEF BeingClosed
  <2>. QED BY <2>1, <2>2 DEF Hands, HeldSomewhere
<1>. QED BY <1>1, PoolTypeCorrect, HandsInvariant, PTL

\* The inductive strengthening of ClosedUnderPressure.  As long as a call's
\* client is the pooled one, every user more recent than its own was asked for
\* since; once it is not, the pool was closed or that took MaxClients users.
Aged(t) ==
  /\ IsFiniteSet(askedSince[t])
  /\ \/ closed
     \/ /\ clientOf[user[t]] = mine[t]
        /\ \A i, j \in 1..Len(order) :
             order[i] = user[t] /\ i < j => order[j] \in askedSince[t]
     \/ /\ clientOf[user[t]] # mine[t]
        /\ Cardinality(askedSince[t] \ {user[t]}) >= MaxClients

Aging == \A t \in Tasks : Holds(t) => Aged(t)

\* More users asked for, no less pressure.
LEMMA PressureGrows ==
  ASSUME NEW S, IsFiniteSet(S), NEW x, NEW y, Cardinality(S \ {y}) >= MaxClients
  PROVE  /\ IsFiniteSet(S \cup {x})
         /\ Cardinality((S \cup {x}) \ {y}) >= MaxClients
<1>1. IsFiniteSet(S \cup {x})
  BY FS_AddElement
<1>2. IsFiniteSet((S \cup {x}) \ {y})
  BY <1>1, FS_RemoveElement
<1>3. S \ {y} \in SUBSET ((S \cup {x}) \ {y})
  OBVIOUS
<1>4. Cardinality(S \ {y}) <= Cardinality((S \cup {x}) \ {y})
  BY <1>2, <1>3, FS_Subset
<1>5. Cardinality(S \ {y}) \in Nat /\ Cardinality((S \cup {x}) \ {y}) \in Nat
  <2>1. IsFiniteSet(S \ {y})
    BY FS_RemoveElement
  <2>. QED BY <2>1, <1>2, FS_CardinalityType
<1>. QED BY <1>1, <1>4, <1>5

\* A full pool whose other users have all been asked for, and one more, make
\* MaxClients users.
LEMMA FullPoolPressure ==
  ASSUME IsOrder(order, Users, MaxClients), Len(order) = MaxClients,
         NEW u \in Users, \A i \in 1..Len(order) : order[i] # u,
         NEW S, IsFiniteSet(S), u \in S, \A j \in 2..Len(order) : order[j] \in S
  PROVE  Cardinality(S \ {order[1]}) >= MaxClients
<1> DEFINE T == S \ {order[1]}
           f == [k \in 1..MaxClients |-> IF k < MaxClients THEN order[k + 1] ELSE u]
<1>0. /\ Len(order) = MaxClients
      /\ \A i, j \in 1..Len(order) : order[i] = order[j] => i = j
  BY DEF IsOrder
<1>1. IsFiniteSet(T)
  BY FS_RemoveElement
<1>2. \A k \in 1..MaxClients : f[k] \in T
  <2>. SUFFICES ASSUME NEW k \in 1..MaxClients PROVE f[k] \in T
    OBVIOUS
  <2>1. CASE k < MaxClients
    <3>1. k + 1 \in 2..Len(order) /\ k + 1 \in 1..Len(order) /\ 1 \in 1..Len(order) /\ k + 1 # 1
      BY <2>1, <1>0
    <3>2. order[k + 1] # order[1]
      BY <3>1, <1>0
    <3>. QED BY <2>1, <3>1, <3>2
  <2>2. CASE k = MaxClients
    <3>1. 1 \in 1..Len(order)
      BY <1>0
    <3>. QED BY <2>2, <3>1
  <2>. QED BY <2>1, <2>2
<1>3. \A k, l \in 1..MaxClients : f[k] = f[l] => k = l
  <2>. SUFFICES ASSUME NEW k \in 1..MaxClients, NEW l \in 1..MaxClients, k < l, f[k] = f[l]
                PROVE  FALSE
    OBVIOUS
  <2>1. k + 1 \in 1..Len(order) /\ f[k] = order[k + 1]
    BY <1>0
  <2>2. CASE l < MaxClients
    <3>1. l + 1 \in 1..Len(order) /\ f[l] = order[l + 1] /\ k + 1 # l + 1
      BY <2>2, <1>0
    <3>. QED BY <2>1, <3>1, <1>0
  <2>3. CASE l = MaxClients
    BY <2>1, <2>3
  <2>. QED BY <2>2, <2>3
<1>4. f \in [1..MaxClients -> T]
  BY <1>2
<1>. HIDE DEF f, T
<1>5. f \in Injection(1..MaxClients, T)
  BY <1>3, <1>4 DEF Injection, IsInjective
<1>6. Cardinality(1..MaxClients) <= Cardinality(T)
  BY <1>1, <1>5, FS_Injection
<1>7. Cardinality(1..MaxClients) = MaxClients
  <2>1. 1 \in Int /\ MaxClients \in Int /\ ~(1 > MaxClients)
    OBVIOUS
  <2>2. Cardinality(1..MaxClients) = IF 1 > MaxClients THEN 0 ELSE MaxClients - 1 + 1
    BY <2>1, FS_Interval
  <2>. QED BY <2>1, <2>2
<1>8. Cardinality(T) \in Nat
  BY <1>1, FS_CardinalityType
<1>. QED BY <1>6, <1>7, <1>8 DEF T

\* What a build leaves of the order stands as it stood, with u behind it.
LEMMA BuildKeepsRelativeOrder ==
  ASSUME TypeOK, NEW t \in Tasks, NEW u \in Users, GetBuilds(t, u)
  PROVE  InStep(order, order', u)
<1>. SUFFICES ASSUME NEW i \in 1..Len(order'), NEW j \in 1..Len(order'), i < j,
                     order'[j] # u
              PROVE  \E k, l \in 1..Len(order) : /\ k < l
                                                 /\ order[k] = order'[i]
                                                 /\ order[l] = order'[j]
  BY DEF InStep
<1>0. /\ u \notin Range(order)
      /\ order' = Append(IF Victims = <<>> THEN order ELSE Tail(order), u)
  BY DEF GetBuilds
<1>1. order \in Seq(Users) /\ Len(order) \in Nat
  BY DEF TypeOK, IsOrder
<1>2. CASE Victims = <<>>
  <2>1. order' = Append(order, u)
    BY <1>0, <1>2
  <2>2. /\ Len(order') = Len(order) + 1
        /\ \A m \in 1..Len(order) : order'[m] = order[m]
        /\ order'[Len(order) + 1] = u
    BY <2>1, <1>1, AppendFacts
  <2>. QED BY <2>2, <1>1
<1>3. CASE Victims # <<>>
  <2>1. order' = Append(Tail(order), u) /\ order # <<>>
    BY <1>0, <1>3, BuildOrder
  <2>2. /\ Tail(order) \in Seq(Users) /\ Len(Tail(order)) = Len(order) - 1
        /\ \A m \in 1..Len(order) - 1 : Tail(order)[m] = order[m + 1]
    BY <1>1, <2>1
  <2> DEFINE rest == Tail(order)
  <2>r. rest \in Seq(Users) /\ Len(rest) = Len(order) - 1
    BY <2>2
  <2>. HIDE DEF rest
  <2>a. /\ Len(Append(rest, u)) = Len(rest) + 1
        /\ \A m \in 1..Len(rest) : Append(rest, u)[m] = rest[m]
        /\ Append(rest, u)[Len(rest) + 1] = u
    BY <2>r, AppendFacts
  <2>3. /\ Len(order') = Len(order)
        /\ \A m \in 1..Len(order) - 1 : order'[m] = order[m + 1]
        /\ order'[Len(order)] = u
    <3>1. order' = Append(rest, u)
      BY <2>1 DEF rest
    <3>2. \A m \in 1..Len(order) - 1 : rest[m] = order[m + 1]
      BY <2>2 DEF rest
    <3>. QED BY <2>a, <2>r, <3>1, <3>2, <1>1
  <2>4. /\ i + 1 \in 1..Len(order) /\ j + 1 \in 1..Len(order) /\ i + 1 < j + 1
        /\ order'[i] = order[i + 1] /\ order'[j] = order[j + 1]
    BY <2>3, <1>1
  <2>. QED BY <2>4
<1>. QED BY <1>2, <1>3

\* A get that finds u's client in the pool ages every other holder by u.
LEMMA GetPooledAges ==
  ASSUME TypeOK, Aging, NEW t \in Tasks, NEW u \in Users, GetPooled(t, u)
  PROVE  Aging'
<1>1. /\ order' = Touch(order, u) /\ u \in Range(order) /\ ~closed
      /\ clientOf' = clientOf /\ closed' = closed
      /\ phase' = [phase EXCEPT ![t] = "using"]
      /\ user' = [user EXCEPT ![t] = u]
      /\ mine' = [mine EXCEPT ![t] = clientOf[u]]
      /\ askedSince' = [s \in Tasks |-> IF s = t THEN {}
                                        ELSE IF Holds(s) THEN askedSince[s] \cup {u}
                                        ELSE askedSince[s]]
  BY DEF GetPooled, MoveToEnd, Accepting, Take
<1>2. /\ IsOrder(order, Users, MaxClients)
      /\ phase \in [Tasks -> Phases] /\ user \in [Tasks -> Users \cup {NoUser}]
      /\ mine \in [Tasks -> Clients \cup {NoClient}]
  BY DEF TypeOK
<1>3. IsOrder(order', Users, MaxClients)
  BY <1>1, GetPooledOrder DEF GetPooled
<1>4. /\ Len(order') \in Nat /\ Len(order') > 0 /\ order'[Len(order')] = u
      /\ \A i, j \in 1..Len(order') : order'[i] = order'[j] => i = j
  <2>1. MaxClients \in Nat /\ u \in Users
    OBVIOUS
  <2>2. IsOrder(order, Users, MaxClients)
    BY <1>2
  <2>3. /\ IsOrder(Touch(order, u), Users, MaxClients + 1)
        /\ Len(Touch(order, u)) > 0
        /\ Touch(order, u)[Len(Touch(order, u))] = u
    BY <2>1, <2>2, TouchKeepsOrder
  <2>4. Len(order') > 0 /\ order'[Len(order')] = u
    BY <1>1, <2>3
  <2>. QED BY <1>3, <2>4 DEF IsOrder
<1>5. \A i, j \in 1..Len(order') : order'[i] = u => ~(i < j)
  BY <1>4
<1>r. InStep(order, order', u)
  <2>1. MaxClients \in Nat /\ u \in Users /\ IsOrder(order, Users, MaxClients)
    BY <1>2
  <2>2. InStep(order, Touch(order, u), u)
    BY <2>1, TouchKeepsRelativeOrder
  <2>. QED BY <2>2, <1>1
<1>6. SUFFICES ASSUME NEW s \in Tasks, Holds(s)' PROVE Aged(s)'
  BY DEF Aging
<1>7. CASE s = t
  <2>1. askedSince'[s] = {} /\ user'[s] = u /\ mine'[s] = clientOf[u] /\ IsFiniteSet({})
    BY <1>1, <1>2, <1>7, FS_EmptySet
  <2>. QED BY <2>1, <1>1, <1>5 DEF Aged
<1>8. CASE s # t
  <2>1. Holds(s) /\ user'[s] = user[s] /\ mine'[s] = mine[s]
    BY <1>1, <1>2, <1>6, <1>8 DEF Holds
  <2>2. askedSince'[s] = askedSince[s] \cup {u} /\ Aged(s)
    BY <1>1, <1>8, <2>1 DEF Aging
  <2>3. IsFiniteSet(askedSince'[s])
    BY <2>2, FS_AddElement DEF Aged
  <2>4. CASE clientOf[user[s]] = mine[s]
    <3>1. ASSUME NEW i \in 1..Len(order'), NEW j \in 1..Len(order'),
                 order'[i] = user[s], i < j
          PROVE  order'[j] \in askedSince'[s]
      <4>1. CASE order'[j] # u
        <5>1. \E k, l \in 1..Len(order) : /\ k < l
                                          /\ order[k] = order'[i]
                                          /\ order[l] = order'[j]
          <6>1. \A q : InStep(order, q, u) /\ i \in 1..Len(q) /\ j \in 1..Len(q) /\ q[j] # u
                       => \E k, l \in 1..Len(order) : /\ k < l
                                                      /\ order[k] = q[i]
                                                      /\ order[l] = q[j]
            BY <3>1 DEF InStep
          <6>2. InStep(order, order', u) /\ i \in 1..Len(order') /\ j \in 1..Len(order') /\ order'[j] # u
            BY <1>r, <4>1
          <6>. QED BY <6>1, <6>2
        <5>. QED BY <5>1, <1>1, <2>2, <2>4, <3>1 DEF Aged
      <4>. QED BY <4>1, <2>2
    <3>. QED BY <3>1, <2>1, <2>3, <2>4, <1>1 DEF Aged
  <2>5. CASE clientOf[user[s]] # mine[s]
    <3>1. IsFiniteSet(askedSince[s]) /\ Cardinality(askedSince[s] \ {user[s]}) >= MaxClients
      BY <2>2, <2>5, <1>1 DEF Aged
    <3>2. Cardinality(askedSince'[s] \ {user[s]}) >= MaxClients
      BY <3>1, <2>2, PressureGrows
    <3>. QED BY <3>2, <2>1, <2>3, <2>5, <1>1 DEF Aged
  <2>. QED BY <2>4, <2>5
<1>. QED BY <1>7, <1>8

\* A get that builds a client ages every holder by u, and takes the pooled
\* place of one only when the pool was full of users asked for since.
LEMMA GetBuildsAges ==
  ASSUME TypeOK, Aging, NEW t \in Tasks, NEW u \in Users, GetBuilds(t, u)
  PROVE  Aging'
<1>1. /\ ~closed /\ closed' = closed /\ u \notin Range(order)
      /\ order' = Append(IF Victims = <<>> THEN order ELSE Tail(order), u)
      /\ \E v : phase' = [phase EXCEPT ![t] = v]
      /\ askedSince' = [s \in Tasks |-> IF s = t THEN {}
                                        ELSE IF Holds(s) THEN askedSince[s] \cup {u}
                                        ELSE askedSince[s]]
  BY DEF GetBuilds, Accepting, Take
<1>2. /\ phase \in [Tasks -> Phases] /\ user \in [Tasks -> Users \cup {NoUser}]
      /\ mine \in [Tasks -> Clients \cup {NoClient}]
      /\ clientOf \in [Users -> Clients \cup {NoClient}]
      /\ \A s \in Tasks : Holds(s) => user[s] \in Users /\ mine[s] \in Clients
  BY DEF TypeOK
<1>3. IsOrder(order', Users, MaxClients)
  BY <1>1, BuildOrder
<1>4. /\ Len(order') \in Nat /\ Len(order') > 0 /\ order'[Len(order')] = u
      /\ \A i, j \in 1..Len(order') : order'[i] = order'[j] => i = j
  <2> DEFINE rest == IF Victims = <<>> THEN order ELSE Tail(order)
  <2>1. rest \in Seq(Users) /\ u \in Users
    <3>1. order \in Seq(Users)
      BY DEF TypeOK, IsOrder
    <3>2. CASE Victims = <<>>
      BY <3>1, <3>2
    <3>3. CASE Victims # <<>>
      <4>1. order # <<>>
        BY <1>1, <3>3, BuildOrder
      <4>. QED BY <4>1, <3>1, <3>3
    <3>. QED BY <3>2, <3>3
  <2>2. order' = Append(rest, u)
    BY <1>1
  <2>. HIDE DEF rest
  <2>3. Len(Append(rest, u)) = Len(rest) + 1 /\ Append(rest, u)[Len(rest) + 1] = u
        /\ Len(rest) \in Nat
    BY <2>1, AppendFacts
  <2>. QED BY <1>3, <2>2, <2>3 DEF IsOrder
<1>5. \A i, j \in 1..Len(order') : order'[i] = u => ~(i < j)
  BY <1>4
<1>6. InStep(order, order', u)
  BY BuildKeepsRelativeOrder
<1>7. PICK c \in Clients :
        /\ Free(c) /\ clientOf[u] = NoClient
        /\ mine' = [mine EXCEPT ![t] = c] /\ user' = [user EXCEPT ![t] = u]
        /\ \/ clientOf' = [clientOf EXCEPT ![u] = c]
           \/ \E w \in Users \ {u} :
                /\ w = order[1] /\ Len(order) = MaxClients
                /\ clientOf' = [clientOf EXCEPT ![u] = c, ![w] = NoClient]
  BY BuildFacts
<1>8. clientOf'[u] = c
  BY <1>2, <1>7
<1>. SUFFICES ASSUME NEW s \in Tasks, Holds(s)' PROVE Aged(s)'
  BY DEF Aging
<1>9. CASE s = t
  <2>1. askedSince'[s] = {} /\ user'[s] = u /\ mine'[s] = c /\ IsFiniteSet({})
    BY <1>1, <1>2, <1>7, <1>9, FS_EmptySet
  <2>. QED BY <2>1, <1>5, <1>8 DEF Aged
<1>10. CASE s # t
  <2>1. Holds(s) /\ user'[s] = user[s] /\ mine'[s] = mine[s]
    <3>1. PICK v : phase' = [phase EXCEPT ![t] = v]
      BY <1>1
    <3>. QED BY <3>1, <1>2, <1>7, <1>10 DEF Holds
  <2>2. askedSince'[s] = askedSince[s] \cup {u} /\ Aged(s)
    BY <1>1, <1>10, <2>1 DEF Aging
  <2>3. IsFiniteSet(askedSince[s]) /\ IsFiniteSet(askedSince'[s])
    BY <2>2, FS_AddElement DEF Aged
  <2>4. user[s] \in Users /\ mine[s] \in Clients /\ mine[s] # c /\ mine[s] # NoClient
    BY <1>2, <1>7, <2>1, NoClientAssumption DEF Free
  <2>5. CASE clientOf[user[s]] = mine[s]
    <3>0. user[s] # u
      BY <1>7, <2>4, <2>5
    <3>1. \A i, j \in 1..Len(order) : order[i] = user[s] /\ i < j => order[j] \in askedSince[s]
      BY <1>1, <2>2, <2>5 DEF Aged
    <3>2. CASE clientOf'[user[s]] = mine[s]
      <4>1. ASSUME NEW i \in 1..Len(order'), NEW j \in 1..Len(order'),
                   order'[i] = user[s], i < j
            PROVE  order'[j] \in askedSince'[s]
        <5>1. CASE order'[j] # u
          <6>1. \A q : InStep(order, q, u) /\ i \in 1..Len(q) /\ j \in 1..Len(q) /\ q[j] # u
                         => \E k, l \in 1..Len(order) : /\ k < l
                                                        /\ order[k] = q[i]
                                                        /\ order[l] = q[j]
            BY <4>1 DEF InStep
          <6>2. InStep(order, order', u) /\ i \in 1..Len(order') /\ j \in 1..Len(order') /\ order'[j] # u
            BY <1>6, <5>1
          <6>3. \E k, l \in 1..Len(order) : /\ k < l
                                            /\ order[k] = order'[i]
                                            /\ order[l] = order'[j]
            BY <6>1, <6>2
          <6>. QED BY <6>3, <3>1, <4>1, <2>2
        <5>. QED BY <5>1, <2>2
      <4>. QED BY <4>1, <3>2, <2>1, <2>3 DEF Aged
    <3>3. CASE clientOf'[user[s]] # mine[s]
      <4>1. user[s] = order[1] /\ Len(order) = MaxClients
        BY <3>3, <3>0, <2>4, <2>5, <1>2, <1>7
      <4>2. IsOrder(order, Users, MaxClients) /\ Len(order) \in Nat
        BY DEF TypeOK, IsOrder
      <4>3. \A j \in 2..Len(order) : order[j] \in askedSince'[s]
        <5>1. \A j \in 2..Len(order) : j \in 1..Len(order) /\ 1 \in 1..Len(order) /\ 1 < j
          BY <4>2
        <5>. QED BY <5>1, <4>1, <3>1, <2>2
      <4>4. \A i \in 1..Len(order) : order[i] # u
        BY <1>1, <4>2 DEF Range
      <4>5. u \in askedSince'[s] /\ u \in Users
        BY <2>2
      <4>6. Cardinality(askedSince'[s] \ {order[1]}) >= MaxClients
        BY <4>1, <4>2, <4>3, <4>4, <4>5, <2>3, FullPoolPressure
      <4>. QED BY <4>6, <4>1, <3>3, <2>1, <2>3 DEF Aged
    <3>. QED BY <3>2, <3>3
  <2>6. CASE clientOf[user[s]] # mine[s]
    <3>1. Cardinality(askedSince[s] \ {user[s]}) >= MaxClients
      BY <2>2, <2>6, <1>1 DEF Aged
    <3>2. Cardinality(askedSince'[s] \ {user[s]}) >= MaxClients
      BY <3>1, <2>2, <2>3, PressureGrows
    <3>3. clientOf'[user[s]] # mine[s]
      BY <2>4, <2>6, <1>2, <1>7
    <3>. QED BY <3>2, <3>3, <2>1, <2>3 DEF Aged
  <2>. QED BY <2>5, <2>6
<1>. QED BY <1>9, <1>10

\* Aging is an invariant: no other step touches what a holder relies on.
LEMMA AgingInvariant == Spec => []Aging
<1>1. Init => Aging
  BY DEF Init, Aging, Holds
<1>2. TypeOK /\ Aging /\ [Next]_vars => Aging'
  <2>. SUFFICES ASSUME TypeOK, Aging, [Next]_vars PROVE Aging'
    OBVIOUS
  <2>0. /\ phase \in [Tasks -> Phases] /\ user \in [Tasks -> Users \cup {NoUser}]
        /\ mine \in [Tasks -> Clients \cup {NoClient}]
        /\ askedSince \in [Tasks -> SUBSET Users]
    BY DEF TypeOK
  <2>1. ASSUME NEW t \in Tasks, NEW u \in Users, GetPooled(t, u) PROVE Aging'
    BY <2>1, GetPooledAges
  <2>2. ASSUME NEW t \in Tasks, NEW u \in Users, GetBuilds(t, u) PROVE Aging'
    BY <2>2, GetBuildsAges
  <2>3. ASSUME NEW t \in Tasks, Aclose(t) PROVE Aging'
    <3>1. closed' = TRUE /\ UNCHANGED askedSince
      BY <2>3 DEF Aclose
    <3>2. \A s \in Tasks : Holds(s)' => Holds(s)
      BY <2>3, <2>0 DEF Aclose, Holds, Phases
    <3>. QED BY <3>1, <3>2 DEF Aging, Aged
  <2>4. ASSUME NEW t \in Tasks, NEW well \in BOOLEAN, CloseEnds(t, well) PROVE Aging'
    <3>1. UNCHANGED <<order, clientOf, closed, user, mine, askedSince>>
      BY <2>4 DEF CloseEnds, pool
    <3>2. \A s \in Tasks : Holds(s)' => Holds(s)
      BY <2>4, <2>0 DEF CloseEnds, AfterClosing, Holds, Phases
    <3>. QED BY <3>1, <3>2 DEF Aging, Aged
  <2>5. ASSUME NEW t \in Tasks, Cancelled(t) \/ CallEnds(t) PROVE Aging'
    <3>1. UNCHANGED <<order, clientOf, closed>> /\ Leave(t)
      BY <2>5 DEF Cancelled, CallEnds, pool
    <3>2. \A s \in Tasks : Holds(s)' => Holds(s) /\ s # t
      BY <3>1, <2>0 DEF Leave, Holds, Phases
    <3>3. \A s \in Tasks \ {t} : user'[s] = user[s] /\ mine'[s] = mine[s]
                                 /\ askedSince'[s] = askedSince[s]
      BY <3>1, <2>0 DEF Leave
    <3>. QED BY <3>1, <3>2, <3>3 DEF Aging, Aged
  <2>6. CASE UNCHANGED vars
    BY <2>6 DEF vars, Aging, Aged, Holds
  <2>. QED BY <2>1, <2>2, <2>3, <2>4, <2>5, <2>6 DEF Next
<1>. QED BY <1>1, <1>2, PoolTypeCorrect, PTL DEF Spec

\* ClosedUnderPressure: a call whose client was closed under it has seen the
\* pool closed, or MaxClients other users served since it fetched the client.
THEOREM PoolClosesUnderPressureOnly == Spec => []ClosedUnderPressure
<1>1. TypeOK /\ Hands /\ Aging => ClosedUnderPressure
  <2>. SUFFICES ASSUME TypeOK, Hands, Aging,
                       NEW t \in Tasks, Holds(t), status[mine[t]] # "open", ~closed
                PROVE  Cardinality(askedSince[t] \ {user[t]}) >= MaxClients
    BY DEF ClosedUnderPressure
  <2>1. user[t] \in Users /\ mine[t] # NoClient
    BY NoClientAssumption DEF TypeOK
  <2>2. clientOf[user[t]] # mine[t]
    BY <2>1 DEF Hands, OnePlace
  <2>. QED BY <2>2 DEF Aging, Aged
<1>. QED BY <1>1, PoolTypeCorrect, HandsInvariant, AgingInvariant, PTL
==============================================================================
