---------------------------- MODULE VercelRecall ----------------------------
(***************************************************************************)
(* The recall half of the Vercel AI SDK middleware                         *)
(* (integrations/vercel-ai-sdk/src): transformParams searches before every *)
(* step of a tool loop, through a small cache that concurrent calls share. *)
(***************************************************************************)
EXTENDS FiniteSets, Lru

CONSTANTS Calls,      \* model calls under way at once
          Requests,   \* records [user, session, text]
          CacheSize,  \* recallCacheSize; with none nothing is kept
          None

RecallAssumption ==
  /\ CacheSize \in Nat \ {0}
  /\ \A r \in Requests : r = [user |-> r.user, session |-> r.session, text |-> r.text]

VARIABLES
  step,     \* per call: "idle", before a step, searching, or at the model
  request,  \* per call: what it was asked, or None
  given,    \* per call: the request its memories were searched for, or None
  cache,    \* recallCache, oldest first
  recent    \* history: the last CacheSize searches that came back, and whether the
            \* cache had an entry for them by then

vercelRecallVars == <<step, request, given, cache, recent>>

RecallKey_NoSession(r) == <<r.user, r.text>>
\* recall: the key of the cache.
RecallKey(r) == <<r.user, r.session, r.text>>

TypeOK ==
  /\ step \in [Calls -> {"idle", "step", "search", "model"}]
  /\ request \in [Calls -> Requests \cup {None}] /\ given \in [Calls -> Requests \cup {None}]
  /\ cache \in Seq([key : {RecallKey(r) : r \in Requests}, from : Requests, stale : BOOLEAN])
  /\ Len(cache) <= CacheSize /\ \A i, j \in 1..Len(cache) : cache[i].key = cache[j].key => i = j
  /\ recent \in Seq([from : Requests, stale : BOOLEAN, again : BOOLEAN])
  /\ Len(recent) <= CacheSize

Init ==
  /\ step = [c \in Calls |-> "idle"]
  /\ request = [c \in Calls |-> None] /\ given = [c \in Calls |-> None]
  /\ cache = <<>> /\ recent = <<>>

Goto(c, s) == step' = [step EXCEPT ![c] = s]

------------------------------------------------------------------------------
\* generateText begins with a request of some user (readRequestOptions).
Begin(c, r) ==
  /\ step[c] = "idle"
  /\ Goto(c, "step") /\ request' = [request EXCEPT ![c] = r]
  /\ UNCHANGED <<given, cache, recent>>

Cached(r) == {e \in Range(cache) : e.key = RecallKey(r)}

\* transformParams: memories from the cache ...
RecallFromCache(c) ==
  /\ step[c] = "step"
  /\ \E e \in Cached(request[c]) : ~e.stale /\ given' = [given EXCEPT ![c] = e.from]
  /\ Goto(c, "model")
  /\ UNCHANGED <<request, cache, recent>>

\* ... or from a search, an entry whose time is over being dropped (cacheGet) ...
RecallSearches(c) ==
  /\ step[c] = "step"
  /\ \/ Cached(request[c]) = {} /\ UNCHANGED cache
     \/ \E e \in Cached(request[c]) : e.stale /\ cache' = Without(cache, e)
  /\ Goto(c, "search")
  /\ UNCHANGED <<request, given, recent>>

\* ... or none: the request turns recall off, or its prompt has no text.
RecallSkips(c) ==
  /\ step[c] = "step"
  /\ Goto(c, "model")
  /\ UNCHANGED <<request, given, cache, recent>>

Entry(r) == [key |-> RecallKey(r), from |-> r, stale |-> FALSE]

\* A full cache drops its oldest entry, whatever comes.
Room == IF Len(cache) >= CacheSize THEN Tail(cache) ELSE cache

\* Where another search for the same has been quicker.
Places(r) == {i \in 1..Len(Room) : Room[i].key = RecallKey(r)}

CacheSet_Unbounded(r) == cache' = Append(cache, Entry(r))

CacheSet_Tight(r) == cache' = Append(IF Len(cache) >= CacheSize - 1 THEN Tail(cache) ELSE cache, Entry(r))

\* cacheSet: a key that is still there keeps its place, the oldest even.
CacheSet(r) ==
  cache' = IF Places(r) = {} THEN Append(Room, Entry(r))
           ELSE [i \in 1..Len(Room) |-> IF i \in Places(r) THEN Entry(r) ELSE Room[i]]

\* The search is back; an answer without hits injects nothing but is kept too.
SearchReturns(c) ==
  /\ step[c] = "search"
  /\ CacheSet(request[c])
  /\ recent' = Newest(Append(recent, [from |-> request[c], stale |-> FALSE,
                                      again |-> Places(request[c]) # {}]), CacheSize)
  /\ given' = [given EXCEPT ![c] = request[c]]
  /\ Goto(c, "model")
  /\ UNCHANGED request

\* report: the observer hears of the failure, the caller only with throwOnError.
SearchFails(c, throws) ==
  /\ step[c] = "search"
  /\ Goto(c, IF throws THEN "idle" ELSE "model")
  /\ UNCHANGED <<request, given, cache, recent>>

\* recallCacheTtlMs passes for the entries of a request.
Expire(r) ==
  LET Age(es) == [i \in 1..Len(es) |-> [es[i] EXCEPT !.stale = @ \/ es[i].from = r]]
  IN /\ cache' = Age(cache) /\ recent' = Age(recent)
     /\ UNCHANGED <<step, request, given>>

\* The model asks for a tool, and the loop takes a step with the same last user
\* message; or it answers or fails (what is written then is VercelPersist).
ModelReturns(c, tool) ==
  /\ step[c] = "model"
  /\ Goto(c, IF tool THEN "step" ELSE "idle") /\ given' = [given EXCEPT ![c] = None]
  /\ UNCHANGED <<request, cache, recent>>

Next ==
  \/ \E c \in Calls :
       \/ \E r \in Requests : Begin(c, r)
       \/ RecallFromCache(c)
       \/ RecallSearches(c)
       \/ RecallSkips(c)
       \/ SearchReturns(c)
       \/ \E throws \in BOOLEAN : SearchFails(c, throws)
       \/ \E tool \in BOOLEAN : ModelReturns(c, tool)
  \/ \E r \in Requests : Expire(r)

Spec == Init /\ [][Next]_vercelRecallVars
------------------------------------------------------------------------------
\* The memories a call is given were searched for its own user, session and text.
MemoriesAreOwn == \A c \in Calls : given[c] # None => given[c] = request[c]

\* "One search per turn rather than one per step" (middleware.ts:60): a step
\* searches only when none of the last CacheSize searches has brought its request
\* into the cache and is still fresh, however the calls that share it interleave.
\* (One that came back again is kept only as long as the first of them.)
StepReuses ==
  \A c \in Calls : step[c] = "step" /\ step'[c] = "search" =>
    \A e \in Range(recent) : e.from = request[c] /\ ~e.again => e.stale
StepsReuse == [][StepReuses]_vercelRecallVars
==============================================================================
