----------------------------- MODULE N8nMemory ------------------------------
(***************************************************************************)
(* CortadelChatMemory, the memory of an n8n agent                          *)
(* (integrations/n8n-nodes-cortadel/shared/memory.ts): it searches before  *)
(* the model is called, and stores a turn that n8n hands over whole        *)
(* (saveContext), in halves (chatHistory), or both ways.  Calls overlap at *)
(* every await.                                                            *)
(***************************************************************************)
EXTENDS Naturals, Sequences, FiniteSets, Functions

CONSTANTS MaxTurns,         \* bound on the turns of the conversation
          MaxFingerprints,  \* PERSIST_FINGERPRINT_MAX_ENTRIES
          Queries,          \* as the user spells them
          LowerCase,        \* per query: the same in small letters
          Loads,            \* loads of the memory under way at once
          CacheEntries,     \* RECALL_CACHE_MAX_ENTRIES
          None

ChatAssumption ==
  /\ MaxTurns \in Nat /\ MaxFingerprints \in Nat \ {0} /\ CacheEntries \in Nat \ {0}
  /\ LowerCase \in [Queries -> Queries]
  /\ None \notin Nat

Turns == 1..MaxTurns
\* A half of a turn: its number, or 0 when the half is the empty text.
Half == 0..MaxTurns

VARIABLES
  turn,          \* the turn the host is at
  content,       \* whether it has a text of the user, and an answer with text
  half,          \* which half of it the host has handed over last
  pendingHuman,  \* a half, or None
  pendingAi,
  fingerprints,  \* persistedFingerprints, oldest first: pairs of halves
  written,       \* history, per pair: how often it was sent since it was last forgotten
  loads,         \* per load: [query, old] when it searches, else None
  hitCache,      \* recallCache, oldest first: [key, query, stale, old], the query the one searched
  served         \* what the last load was given: [query, from, old], or None

n8nVars == <<turn, content, half, pendingHuman, pendingAi, fingerprints, written, loads, hitCache, served>>
persistVars == <<turn, content, half, pendingHuman, pendingAi, fingerprints, written>>
cacheVars == <<loads, hitCache, served>>

Pairs == Half \X Half

TypeOK ==
  /\ turn \in 0..MaxTurns /\ half \in {"none", "human", "ai"}
  /\ content \in [text : BOOLEAN, answer : BOOLEAN]
  /\ pendingHuman \in Half \cup {None} /\ pendingAi \in Half \cup {None}
  /\ IsInjective(fingerprints) /\ Range(fingerprints) \subseteq Pairs
  /\ Len(fingerprints) <= MaxFingerprints
  /\ written \in [Pairs -> Nat]
  /\ \A l \in Loads : loads[l] # None => loads[l].query \in Queries
  /\ Len(hitCache) <= CacheEntries

Init ==
  /\ turn = 0 /\ half = "ai" /\ content = [text |-> FALSE, answer |-> FALSE]
  /\ pendingHuman = None /\ pendingAi = None
  /\ fingerprints = <<>> /\ written = [p \in Pairs |-> 0]
  /\ loads = [l \in Loads |-> None] /\ hitCache = <<>> /\ served = None

------------------------------------------------------------------------------
NextTurn ==
  /\ turn < MaxTurns /\ turn' = turn + 1 /\ half' = "none"
  /\ content' \in [text : BOOLEAN, answer : BOOLEAN]
  /\ UNCHANGED <<pendingHuman, pendingAi, fingerprints, written, cacheVars>>

\* persistPair: a pair that is not empty is sent unless its fingerprint is known;
\* the fingerprint is kept before the write, and stays when the write fails.
PersistPair(p) ==
  LET all == Append(fingerprints, p)
      forgotten == IF Len(all) > MaxFingerprints THEN {Head(all)} ELSE {}
  IN IF p = <<0, 0>> \/ p \in Range(fingerprints) THEN UNCHANGED <<fingerprints, written>>
     ELSE /\ fingerprints' = IF forgotten = {} THEN all ELSE Tail(all)
          /\ written' = [q \in Pairs |-> IF q \in forgotten THEN 0
                                         ELSE IF q = p THEN written[q] + 1 ELSE written[q]]

IsEmpty(h) == h = None \/ h = 0
OrEmpty(h) == IF h = None THEN 0 ELSE h

FlushPending_KeepsAi(h, a) ==
  IF (IsEmpty(h) /\ IsEmpty(a)) \/ (~IsEmpty(h) /\ a = None)
  THEN pendingHuman' = h /\ pendingAi' = a /\ UNCHANGED <<fingerprints, written>>
  ELSE pendingHuman' = None /\ pendingAi' = a /\ PersistPair(<<OrEmpty(h), OrEmpty(a)>>)

\* flushPending, given the two halves: a user's half waits for an answer, and two
\* empty ones stay where they are.
FlushPending(h, a) ==
  IF (IsEmpty(h) /\ IsEmpty(a)) \/ (~IsEmpty(h) /\ a = None)
  THEN pendingHuman' = h /\ pendingAi' = a /\ UNCHANGED <<fingerprints, written>>
  ELSE pendingHuman' = None /\ pendingAi' = None /\ PersistPair(<<OrEmpty(h), OrEmpty(a)>>)

HumanHalf == IF content.text THEN turn ELSE 0
AiHalf == IF content.answer THEN turn ELSE 0

\* addUserMessage and addAIChatMessage, with a text or an empty one.
AddUserMessage ==
  /\ half = "none" /\ half' = "human"
  /\ FlushPending(HumanHalf, pendingAi)
  /\ UNCHANGED <<turn, content, cacheVars>>

AddAIChatMessage ==
  /\ half = "human" /\ half' = "ai"
  /\ FlushPending(pendingHuman, AiHalf)
  /\ UNCHANGED <<turn, content, cacheVars>>

\* saveContext, also of a turn the halves of which were handed over, and again
\* when the agent retries.
SaveContext ==
  /\ PersistPair(<<HumanHalf, AiHalf>>)
  /\ UNCHANGED <<turn, content, half, pendingHuman, pendingAi, cacheVars>>

------------------------------------------------------------------------------
\* The key of an answer is its query in small letters.
Cached(q) == {e \in Range(hitCache) : e.key = LowerCase[q]}

\* loadMemoryVariables without a text to search for lists the newest memories
\* instead; with one it searches (cachedRecall) unless a fresh answer is kept.
LoadFromCache(q) ==
  /\ \E e \in Cached(q) : ~e.stale /\ served' = [query |-> q, from |-> e.query, old |-> e.old]
  /\ UNCHANGED <<loads, hitCache, persistVars>>

LoadSearches(l, q) ==
  /\ loads[l] = None /\ \A e \in Cached(q) : e.stale
  /\ loads' = [loads EXCEPT ![l] = [query |-> q, old |-> FALSE]]
  /\ UNCHANGED <<hitCache, served, persistVars>>

Stamp_WhenBack(l) == FALSE
\* The time an answer is kept under was read before its search began: what took
\* longer than recallCacheTtlMs is stale at once.
Stamp(l) == loads[l].old

SearchReturns(l) ==
  LET q == loads[l].query
      entry == [key |-> LowerCase[q], query |-> q, stale |-> Stamp(l), old |-> loads[l].old]
      at == {i \in 1..Len(hitCache) : hitCache[i].key = LowerCase[q]}
      all == IF at = {} THEN Append(hitCache, entry)
             ELSE [i \in 1..Len(hitCache) |-> IF i \in at THEN entry ELSE hitCache[i]]
  IN /\ loads[l] # None
     /\ loads' = [loads EXCEPT ![l] = None]
     /\ hitCache' = IF Len(all) > CacheEntries THEN Tail(all) ELSE all
     /\ served' = [query |-> q, from |-> q, old |-> FALSE]
     /\ UNCHANGED persistVars

\* "Memory must degrade, never break the agent."
SearchFails(l) ==
  /\ loads[l] # None
  /\ loads' = [loads EXCEPT ![l] = None] /\ served' = None
  /\ UNCHANGED <<hitCache, persistVars>>

\* recallCacheTtlMs passes.
Expire ==
  /\ hitCache' = [i \in 1..Len(hitCache) |-> [hitCache[i] EXCEPT !.stale = TRUE, !.old = TRUE]]
  /\ loads' = [l \in Loads |-> IF loads[l] = None THEN None ELSE [loads[l] EXCEPT !.old = TRUE]]
  /\ UNCHANGED <<served, persistVars>>

\* clear, between two turns; loads may be under way.
Clear ==
  /\ half = "ai"
  /\ hitCache' = <<>> /\ served' = None
  /\ fingerprints' = <<>> /\ written' = [p \in Pairs |-> 0]
  /\ pendingHuman' = None /\ pendingAi' = None
  /\ UNCHANGED <<turn, content, half, loads>>

Next ==
  \/ NextTurn
  \/ AddUserMessage
  \/ AddAIChatMessage
  \/ SaveContext
  \/ \E q \in Queries : LoadFromCache(q)
  \/ \E l \in Loads :
       \/ \E q \in Queries : LoadSearches(l, q)
       \/ SearchReturns(l)
       \/ SearchFails(l)
  \/ Expire
  \/ Clear

Spec == Init /\ [][Next]_n8nVars
------------------------------------------------------------------------------
\* "An identical (input, output) pair is never written twice by the same
\* instance", until clear() or the bound of the fingerprints forgets it: not by
\* a retry, a tool loop, nor a turn that comes whole and in halves.
WrittenOnce == \A p \in Pairs : written[p] <= 1

\* A pair with two halves has both of one turn: a half that was never answered
\* is not answered by a later turn.
PairsMatch == \A p \in Pairs : written[p] > 0 /\ p[1] # 0 /\ p[2] # 0 => p[1] = p[2]

\* What a load is given was searched for its query, however that was spelled then, no
\* longer ago than recallCacheTtlMs although searches overlap and are slow.
MemoriesAreOwn ==
  served # None => LowerCase[served.from] = LowerCase[served.query] /\ ~served.old
==============================================================================
