---------------------------- MODULE MCLangGraph ----------------------------
(***************************************************************************)
(* The store, its queries and the memory nodes, side by side: a behaviour  *)
(* is one of the three parts.                                              *)
(***************************************************************************)
EXTENDS Naturals, Sequences, FiniteSets, TLC

CONSTANTS Namespaces, Keys, Ids, Tasks, Batches, MaxAliasEntries, None,
          MaxTopK, MaxListSize, MaxRows, MaxLabel, MaxLimit, MaxOffset,
          Threads, MaxMessages, h1, h2, MaxTracked, MaxUnwrap

VARIABLES part,
  throws, memories, aliasOrder, aliasOf, registry, todo, target, calling, putFor, owed,
  rows, names, ask, answer,
  awaitPersist, wrappers, transcript, said, node, cursorOrder, cursor, cacheOrder, cached,
  block, submitted, again, searched, researched, forgotten, cutOff, restart

\* The values TLC gives MaxMessages and Batches: two threads, of four and two
\* messages; and a put of a key, or, in one namespace only, a delete of one, a put
\* with the get after it, and a put or a delete under an id.
FourAndTwo == h1 :> 4 @@ h2 :> 2
One == {CHOOSE n \in Namespaces : TRUE}
On(kind, s) == [kind |-> kind, slot |-> s]
ShortBatches ==
  {<<On("put", s)>> : s \in Namespaces \X Keys \cup One \X Ids}
  \cup {<<On("delete", s)>> : s \in One \X (Keys \cup Ids)}
  \cup {<<On("put", s), On("get", s)>> : s \in One \X Keys}

\* The bound TLC puts on the store's run: the puts of a behaviour are of at most
\* two slots, whichever they are.
MaxPutSlots == 2
Putting == {s \in Namespaces \X (Keys \cup Ids) :
              \/ \E i \in Ids : s \in putFor[i]
              \/ \E t \in Tasks : \E k \in 1..Len(todo[t]) : todo[t][k] = On("put", s)}
FewPutSlots == Cardinality(Putting) <= MaxPutSlots

\* The memories and the batches are interchangeable; the threads, which differ in
\* length, are not.
Symmetry == Permutations(Ids) \cup Permutations(Tasks)

storeVars == <<throws, memories, aliasOrder, aliasOf, registry, todo, target, calling,
               putFor, owed>>
queryVars == <<rows, names, ask, answer>>
memoryVars == <<awaitPersist, wrappers, transcript, said, node, cursorOrder, cursor, cacheOrder,
                cached, block, submitted, again, searched, researched, forgotten, cutOff, restart>>

Store == INSTANCE LangGraphStore
Queries == INSTANCE LangGraphQueries
Memory == INSTANCE LangGraphMemory

ASSUME Assumptions == Store!StoreAssumption /\ Queries!QueriesAssumption /\ Memory!MemoryAssumption

Init ==
  /\ part \in {"store", "queries", "memory"}
  /\ Store!Init
  /\ IF part = "queries" THEN Queries!Init
     ELSE rows = <<>> /\ names = {} /\ ask = Queries!NoQuery /\ answer = <<>>
  /\ Memory!Init
  /\ part # "store" => ~throws
  /\ part # "memory" => awaitPersist /\ wrappers = MaxUnwrap

Next ==
  /\ UNCHANGED part
  /\ \/ part = "store" /\ Store!Next /\ UNCHANGED <<queryVars, memoryVars>>
     \/ part = "queries" /\ Queries!Next /\ UNCHANGED <<storeVars, memoryVars>>
     \/ part = "memory" /\ Memory!Next /\ UNCHANGED <<storeVars, queryVars>>

Spec == Init /\ [][Next]_<<part, storeVars, queryVars, memoryVars>>

\* Every part keeps the types of its state: the tables stay under their caps.
TypeOK == Store!TypeOK /\ Memory!TypeOK

\* The properties of the parts, each stated and explained in its module.
RoundTrip == Store!RoundTrip
DeletesOwn == Store!DeletesOwn
PagesExact == Queries!PageIsExact /\ Queries!ShortPageIsLast /\ Queries!NamespacePageIsExact
SubmittedOnce == Memory!SubmittedOnce
NothingSkipped == Memory!NothingSkipped
OneSearchPerTurn == Memory!OneSearchPerTurn
BlockMatchesTurn == Memory!BlockMatchesTurn
=============================================================================
