--------------------------- MODULE LangGraphStore ---------------------------
(***************************************************************************)
(* CortadelStore, LangGraph's BaseStore over Cortadel                      *)
(* (integrations/langgraph/src/store.ts).                                  *)
(*                                                                         *)
(* The server mints memory ids; a caller chooses keys.  A table in the     *)
(* process takes (namespace, key) to the id a put was answered with: that  *)
(* of a new memory, or of one the server's dedup found the text to repeat. *)
(* batch() runs its operations one after the other, but several batches    *)
(* run at once and interleave at the requests.  A key is resolved before   *)
(* its request goes out and its table entry is changed when the answer is  *)
(* back.                                                                   *)
(***************************************************************************)
EXTENDS Naturals, Sequences, FiniteSets, Lru

CONSTANTS Namespaces,      \* namespaces of one Cortadel user
          Keys,            \* keys that callers choose
          Ids,             \* memory ids: a bound on the memories ever stored
          Tasks,           \* concurrent calls of batch()
          Batches,         \* the batches they may be given
          MaxAliasEntries,
          None

Slots == Namespaces \X (Keys \cup Ids)
Op == [kind : {"put", "get", "delete"}, slot : Slots]
KeyOf(s) == s[2]

StoreAssumption ==
  /\ \A b \in Batches : b \in Seq(Op) /\ b # <<>>
  /\ MaxAliasEntries \in Nat \ {0}
  /\ None \notin Ids \cup Slots

VARIABLES
  throws,      \* throwOnError
  memories,    \* the ids the server holds
  aliasOrder,  \* the keys of its alias table, in insertion order
  aliasOf,     \* its values; None outside it
  registry,    \* the namespaces seen, for listNamespaces
  todo,        \* per batch: its operations from the current one on
  target,      \* the id the current request is about, or None
  calling,     \* whether that request is out
  putFor,      \* history: the slots whose puts stored each id or were answered it
  owed         \* history: the id a slot has to resolve to

aliases == <<aliasOrder, aliasOf>>
storeVars == <<throws, memories, aliasOrder, aliasOf, registry, todo, target,
               calling, putFor, owed>>

TypeOK ==
  /\ throws \in BOOLEAN
  /\ memories \subseteq Ids
  /\ IsOrder(aliasOrder, Slots, MaxAliasEntries)
  /\ aliasOf \in [Slots -> Ids \cup {None}]
  /\ \A s \in Slots : aliasOf[s] # None <=> s \in Range(aliasOrder)
  /\ registry \subseteq Namespaces
  /\ todo \in [Tasks -> Seq(Op)]
  /\ target \in [Tasks -> Ids \cup {None}]
  /\ calling \in [Tasks -> BOOLEAN]
  /\ putFor \in [Ids -> SUBSET Slots]
  /\ owed \in [Slots -> Ids \cup {None}]

Init ==
  /\ throws \in BOOLEAN
  /\ memories = {}
  /\ aliasOrder = <<>>
  /\ aliasOf = [s \in Slots |-> None]
  /\ registry = {}
  /\ todo = [t \in Tasks |-> <<>>]
  /\ target = [t \in Tasks |-> None]
  /\ calling = [t \in Tasks |-> FALSE]
  /\ putFor = [i \in Ids |-> {}]
  /\ owed = [s \in Slots |-> None]

Current(t) == Head(todo[t])
InFlight(t, kind) == calling[t] /\ Current(t).kind = kind

------------------------------------------------------------------------------
AliasKey_KeyOnly(s) == <<CHOOSE n \in Namespaces : TRUE, KeyOf(s)>>

\* aliasKey: what a slot is called in the table.
AliasKey(s) == s

\* resolveKey: the id answered for the slot, else the key itself, which is an id
\* when the caller got it from a search.
ResolveKey(s) ==
  LET known == aliasOf[AliasKey(s)] IN
  IF known # None THEN known ELSE IF KeyOf(s) \in Ids THEN KeyOf(s) ELSE None

\* A delete of the slot is in flight, and its answer will drop the entry.
Deleting(s) == \E u \in Tasks : InFlight(u, "delete") /\ Current(u).slot = s

RememberAlias_Unbounded(s, id) ==
  /\ aliasOrder' = Touch(aliasOrder, s)
  /\ aliasOf' = [aliasOf EXCEPT ![s] = id]
  /\ owed' = [owed EXCEPT ![s] = id]

\* rememberAlias: the slot moves to the recent end and the oldest entries over
\* the cap go.  They owe nothing any more, and neither does a slot being deleted.
\* A key that is the id itself needs no entry - and keeps the one it has, so that
\* a slot bound to another memory before does not get to the one answered now.
RememberAlias(s, id) ==
  LET order == Touch(aliasOrder, AliasKey(s))
      gone == Oldest(order, MaxAliasEntries)
      due == IF Deleting(s) THEN None ELSE id
  IN \/ /\ KeyOf(s) = id
        /\ owed' = [owed EXCEPT ![s] = IF aliasOf[AliasKey(s)] = None THEN due ELSE None]
        /\ UNCHANGED aliases
     \/ /\ KeyOf(s) # id
        /\ aliasOrder' = Newest(order, MaxAliasEntries)
        /\ aliasOf' = [x \in Slots |-> IF x \in gone THEN None
                                       ELSE IF x = AliasKey(s) THEN id ELSE aliasOf[x]]
        /\ owed' = [x \in Slots |-> IF x \in gone THEN None
                                    ELSE IF x = s THEN due ELSE owed[x]]

ForgetAlias(s) ==
  /\ aliasOrder' = Without(aliasOrder, AliasKey(s))
  /\ aliasOf' = [aliasOf EXCEPT ![AliasKey(s)] = None]

\* The await of the current operation is over; batch goes on with the next one.
NextOp(t) ==
  /\ todo' = [todo EXCEPT ![t] = Tail(@)]
  /\ calling' = [calling EXCEPT ![t] = FALSE]
  /\ target' = [target EXCEPT ![t] = None]

\* handleError: fail open, or throw out of batch with its other operations undone.
HandleError(t) ==
  /\ todo' = [todo EXCEPT ![t] = IF throws THEN <<>> ELSE Tail(@)]
  /\ calling' = [calling EXCEPT ![t] = FALSE]
  /\ target' = [target EXCEPT ![t] = None]

------------------------------------------------------------------------------
Batch(t, ops) ==
  /\ todo[t] = <<>>
  /\ todo' = [todo EXCEPT ![t] = ops]
  /\ UNCHANGED <<throws, memories, aliases, registry, target, calling, putFor, owed>>

\* execute, up to the request: register the namespace, resolve the key.
Execute(t) ==
  /\ todo[t] # <<>> /\ ~calling[t]
  /\ LET op == Current(t) IN
     /\ registry' = registry \cup {op.slot[1]}
     /\ target' = [target EXCEPT ![t] =
                     IF op.kind = "put" THEN None ELSE ResolveKey(op.slot)]
     /\ owed' = IF op.kind = "delete" THEN [owed EXCEPT ![op.slot] = None] ELSE owed
  /\ calling' = [calling EXCEPT ![t] = TRUE]
  /\ UNCHANGED <<throws, memories, aliases, todo, putFor>>

\* A namespace no user id can be derived from: the operation is over at once.
ExecuteWithoutUser(t) ==
  /\ todo[t] # <<>> /\ ~calling[t]
  /\ registry' = registry \cup {Current(t).slot[1]}
  /\ HandleError(t)
  /\ UNCHANGED <<throws, memories, aliases, putFor, owed>>

GetReturns(t) ==
  /\ InFlight(t, "get")
  /\ NextOp(t)
  /\ UNCHANGED <<throws, memories, aliases, registry, putFor, owed>>

GetFails(t) ==
  /\ InFlight(t, "get")
  /\ HandleError(t)
  /\ UNCHANGED <<throws, memories, aliases, registry, putFor, owed>>

Unused == {i \in Ids : putFor[i] = {}}

\* The server is done with the put: it stored a new memory, or the text is one
\* it has had from an earlier put, under whatever slot.
StoredAs(t, id) ==
  /\ memories' = IF id \in Unused THEN memories \cup {id} ELSE memories
  /\ putFor' = [putFor EXCEPT ![id] = @ \cup {Current(t).slot}]

\* putOp: the answer names the memory.
PutReturns(t) ==
  /\ InFlight(t, "put")
  /\ \E id \in Ids : StoredAs(t, id) /\ RememberAlias(Current(t).slot, id)
  /\ NextOp(t)
  /\ UNCHANGED <<throws, registry>>

\* An answer without an id, whatever the server did: the slot's entry, if it has
\* one, still names the memory of an earlier put.
PutReturnsNoId(t) ==
  /\ InFlight(t, "put")
  /\ \/ UNCHANGED <<memories, putFor>>
     \/ \E id \in Unused : StoredAs(t, id)
  /\ owed' = [owed EXCEPT ![Current(t).slot] = None]
  /\ NextOp(t)
  /\ UNCHANGED <<throws, aliases, registry>>

\* The request is lost, or the answer is and the memory has no key.
PutFails(t) ==
  /\ InFlight(t, "put")
  /\ \/ UNCHANGED <<memories, putFor>>
     \/ \E id \in Unused : StoredAs(t, id)
  /\ HandleError(t)
  /\ UNCHANGED <<throws, aliases, registry, owed>>

DeleteReturns(t) ==
  /\ InFlight(t, "delete")
  /\ memories' = memories \ {target[t]}
  /\ ForgetAlias(Current(t).slot)
  /\ owed' = [owed EXCEPT ![Current(t).slot] = None]
  /\ NextOp(t)
  /\ UNCHANGED <<throws, registry, putFor>>

\* Fail open drops the alias of a memory that may still be there; a throw keeps it.
DeleteFails(t) ==
  /\ InFlight(t, "delete")
  /\ memories' \in {memories, memories \ {target[t]}}
  /\ IF throws THEN UNCHANGED <<aliases, owed>>
     ELSE /\ ForgetAlias(Current(t).slot)
          /\ owed' = [owed EXCEPT ![Current(t).slot] = None]
  /\ HandleError(t)
  /\ UNCHANGED <<throws, registry, putFor>>

Next ==
  \E t \in Tasks :
    \/ \E ops \in Batches : Batch(t, ops)
    \/ Execute(t)
    \/ ExecuteWithoutUser(t)
    \/ GetReturns(t)
    \/ GetFails(t)
    \/ PutReturns(t)
    \/ PutReturnsNoId(t)
    \/ PutFails(t)
    \/ DeleteReturns(t)
    \/ DeleteFails(t)

Spec == Init /\ [][Next]_storeVars
------------------------------------------------------------------------------
\* The module comment (37-40): the alias table is there so that "put(); get()
\* round-trips within one run".  With batches interleaving it has to survive
\* older puts answered late, and entries evicted and written again: from the
\* answer of a put until a delete of its slot, until the cap pushes the entry out
\* or until an answer that leaves the entry behind, the slot resolves to the
\* memory the latest answer named.  An answer leaves the entry behind when it has
\* no id, or the id the key is when the slot was bound to another: then the slot
\* gets an older memory, and nothing is claimed of it here.
RoundTrip == \A s \in Slots : owed[s] # None => ResolveKey(s) = owed[s]

\* A delete resolves its key before it waits, so it may remove a memory that
\* is no longer the slot's latest - but never one that no put of the slot ever
\* stored or was answered with, unless the caller named that memory by its id.
\* A memory two slots were answered with is both slots': deleting either removes
\* what the other gets.
DeletesOwn ==
  [][\A id \in memories \ memories' :
       \E t \in Tasks : /\ InFlight(t, "delete")
                        /\ \/ Current(t).slot \in putFor[id]
                           \/ KeyOf(Current(t).slot) = id]_storeVars
==============================================================================
