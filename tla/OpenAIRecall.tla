----------------------------- MODULE OpenAIRecall -----------------------------
(***************************************************************************)
(* The recall half of CortadelSession, the Session of the OpenAI Agents    *)
(* integration (integrations/openai-agents/src/session.ts): a filter runs  *)
(* before every model call and searches for the question the model is      *)
(* about to answer, through a cache of one entry that what advances the    *)
(* conversation empties.  The storage half is in OpenAISession.            *)
(***************************************************************************)
EXTENDS Naturals, FiniteSets

CONSTANTS Calls,       \* model calls under way at once
          Queries,     \* what the last user message says
          MaxAdvances, \* bound on the advances of the conversation
          None

RecallAssumption == MaxAdvances \in Nat

VARIABLES
  at,        \* per call: "idle", searching, or given what it asked for
  asks,      \* per call: its query, or None
  sentAt,    \* history, per call: the advances when its search went out
  shown,     \* per call: the block put into its input, or None
  cache,     \* cachedQuery and cachedBlock, or None
  advances,  \* history: how often the conversation has advanced
  late       \* history: a search in flight during the last advance has filled the cache

openAIRecallVars == <<at, asks, sentAt, shown, cache, advances, late>>

\* A block is known by what it was searched for, whether that found anything,
\* and when the search went out.
Blocks == [query : Queries, hits : BOOLEAN, sent : 0..MaxAdvances]

TypeOK ==
  /\ at \in [Calls -> {"idle", "search", "model"}]
  /\ asks \in [Calls -> Queries \cup {None}] /\ sentAt \in [Calls -> 0..MaxAdvances]
  /\ shown \in [Calls -> Blocks \cup {None}] /\ cache \in Blocks \cup {None}
  /\ advances \in 0..MaxAdvances /\ late \in BOOLEAN

Init ==
  /\ at = [c \in Calls |-> "idle"] /\ asks = [c \in Calls |-> None]
  /\ sentAt = [c \in Calls |-> 0] /\ shown = [c \in Calls |-> None]
  /\ cache = None /\ advances = 0 /\ late = FALSE

------------------------------------------------------------------------------
\* The block goes into the instructions, or before the last user message; an
\* answer without hits is no block at all.
Inject(c, block) ==
  /\ at' = [at EXCEPT ![c] = "model"]
  /\ shown' = [shown EXCEPT ![c] = IF block.hits THEN block ELSE None]

\* filterModelInput without a search: recall is off, no user message has text, or
\* the header is there already, put by another filter or another session.
FilterSkips(c) ==
  /\ at[c] = "idle"
  /\ at' = [at EXCEPT ![c] = "model"]
  /\ UNCHANGED <<asks, sentAt, shown, cache, advances, late>>

\* The cache has one entry, and it counts only for the same question.
Cached(q) == cache # None /\ cache.query = q

FilterFromCache(c, q) ==
  /\ at[c] = "idle" /\ Cached(q)
  /\ asks' = [asks EXCEPT ![c] = q]
  /\ Inject(c, cache)
  /\ UNCHANGED <<sentAt, cache, advances, late>>

FilterSearches(c, q) ==
  /\ at[c] = "idle" /\ ~Cached(q)
  /\ at' = [at EXCEPT ![c] = "search"]
  /\ asks' = [asks EXCEPT ![c] = q] /\ sentAt' = [sentAt EXCEPT ![c] = advances]
  /\ UNCHANGED <<shown, cache, advances, late>>

\* recall after its await: the entry is replaced, whatever has happened since.
SearchEnds(c, hits) ==
  LET block == [query |-> asks[c], hits |-> hits, sent |-> sentAt[c]] IN
  /\ at[c] = "search"
  /\ cache' = block
  /\ late' = (sentAt[c] < advances)
  /\ Inject(c, block)
  /\ UNCHANGED <<asks, sentAt, advances>>

SearchReturns(c) == \E hits \in BOOLEAN : SearchEnds(c, hits)

\* callSafely: a search that fails counts as one without hits, and is kept like one;
\* with throwOnError the call is over and nothing is kept.
SearchFails(c, throws) ==
  /\ at[c] = "search"
  /\ IF throws
     THEN /\ at' = [at EXCEPT ![c] = "idle"] /\ asks' = [asks EXCEPT ![c] = None]
          /\ UNCHANGED <<sentAt, shown, cache, advances, late>>
     ELSE SearchEnds(c, FALSE)

\* The model answers, or asks for a tool and is called again with the same question.
ModelReturns(c) ==
  /\ at[c] = "model"
  /\ at' = [at EXCEPT ![c] = "idle"] /\ asks' = [asks EXCEPT ![c] = None]
  /\ shown' = [shown EXCEPT ![c] = None]
  /\ UNCHANGED <<sentAt, cache, advances, late>>

\* addItems or clearSession, once the transcript has answered.  (popItem goes back,
\* and leaves the cache alone.)
Advance ==
  /\ advances < MaxAdvances
  /\ advances' = advances + 1 /\ late' = FALSE
  /\ cache' = None
  /\ UNCHANGED <<at, asks, sentAt, shown>>

Next ==
  \/ \E c \in Calls :
       \/ \E q \in Queries : FilterFromCache(c, q) \/ FilterSearches(c, q)
       \/ FilterSkips(c)
       \/ SearchReturns(c)
       \/ \E throws \in BOOLEAN : SearchFails(c, throws)
       \/ ModelReturns(c)
  \/ Advance

Spec == Init /\ [][Next]_openAIRecallVars
------------------------------------------------------------------------------
\* Memories are those of the question the model is about to answer, however the
\* model calls that share the entry overlap.
MemoriesAreOwn == \A c \in Calls : shown[c] # None => shown[c].query = asks[c]

\* "One-entry search cache, invalidated whenever the conversation advances"
\* (session.ts:192): a call is given what was found before the last advance only
\* if that search was still in flight then, and so the entry was filled after it.
StepReuses ==
  \A c \in Calls : at[c] = "idle" /\ shown'[c] # None =>
    shown'[c].sent = advances \/ late
StepsReuse == [][StepReuses]_openAIRecallVars
===============================================================================
