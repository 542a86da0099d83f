-------------------------- MODULE LangGraphMemory --------------------------
(***************************************************************************)
(* CortadelMemory, the recall and persistence nodes of a LangGraph agent   *)
(* (integrations/langgraph/src/memory.ts).                                 *)
(*                                                                         *)
(* A graph runs recallNode before each call of the model and rememberNode  *)
(* after it; a tool loop calls the model several times for one message of  *)
(* the user.  Runs on one thread follow each other, runs on different      *)
(* threads interleave at the searches and writes.  One cursor and one      *)
(* recalled block are kept per thread, both in bounded tables.  Messages    *)
(* have ids: the state's reducer gives one to each.                        *)
(***************************************************************************)
EXTENDS Naturals, Sequences, FiniteSets, Lru

CONSTANTS Threads,
          MaxMessages,  \* per thread: bound on its messages
          MaxTracked,   \* maxTrackedThreads
          MaxUnwrap,    \* MAX_STORE_UNWRAP_DEPTH
          None

MsgIds == UNION {1..MaxMessages[t] : t \in Threads}
\* An "image" is a message of the user without text.
Kinds == {"user", "image", "assistant", "toolCall", "tool"}
Message == [kind : Kinds, id : MsgIds]

MemoryAssumption ==
  /\ MaxMessages \in [Threads -> Nat]
  /\ MaxTracked \in Nat \ {0}
  /\ MaxUnwrap \in Nat
  /\ None \notin MsgIds

VARIABLES
  awaitPersist,
  wrappers,     \* wrappers around the store a node is handed
  transcript,   \* per thread: the messages of its state, oldest first
  said,         \* per thread: how many messages there ever were
  node,         \* per thread: where its run stands
  cursorOrder,  \* the keys of the cursor table, in insertion order
  cursor,       \* its values
  cacheOrder,   \* the keys of the recall cache, in insertion order
  cached,       \* its values: the anchor a block was recalled for
  block,        \* per thread: the anchor of the block injected last, or None
  submitted,    \* history: the ids handed to addConversation
  again,        \* history: the ids handed to it more than once
  searched,     \* history: the anchors a search answered since the cache last dropped the thread
  researched,   \* history: an anchor was searched again although one had answered
  forgotten,    \* history: threads whose cursor the bound has dropped
  cutOff,       \* history: threads whose cursor's message is trimmed away
  restart       \* history: per thread, the turn it went on from after the last such trim

cursors == <<cursorOrder, cursor>>
cache == <<cacheOrder, cached>>
recallHist == <<searched, researched>>
sendHist == <<submitted, again, forgotten, cutOff, restart>>
config == <<awaitPersist, wrappers>>
memoryVars == <<config, transcript, said, node, cursors, cache, block,
                sendHist, recallHist>>

Nodes == {"idle", "recall", "searching", "model", "remember", "writing"}

TypeOK ==
  /\ awaitPersist \in BOOLEAN
  /\ wrappers \in 0..MaxUnwrap + 1
  /\ transcript \in [Threads -> Seq(Message)]
  /\ said \in [Threads -> MsgIds \cup {0}]
  /\ node \in [Threads -> Nodes]
  /\ IsOrder(cursorOrder, Threads, MaxTracked)
  /\ cursor \in [Threads -> MsgIds \cup {None}]
  /\ \A t \in Threads : cursor[t] # None <=> t \in Range(cursorOrder)
  /\ IsOrder(cacheOrder, Threads, MaxTracked)
  /\ cached \in [Threads -> MsgIds \cup {None}]
  /\ \A t \in Threads : cached[t] # None <=> t \in Range(cacheOrder)
  /\ block \in [Threads -> MsgIds \cup {None}]
  /\ submitted \in [Threads -> SUBSET MsgIds]
  /\ again \in [Threads -> SUBSET MsgIds]
  /\ searched \in [Threads -> SUBSET MsgIds]
  /\ researched \in BOOLEAN
  /\ forgotten \subseteq Threads
  /\ cutOff \subseteq Threads
  /\ restart \in [Threads -> MsgIds \cup {0}]

Init ==
  /\ awaitPersist \in BOOLEAN
  /\ wrappers \in {MaxUnwrap, MaxUnwrap + 1}
  /\ transcript = [t \in Threads |-> <<>>]
  /\ said = [t \in Threads |-> 0]
  /\ node = [t \in Threads |-> "idle"]
  /\ cursorOrder = <<>> /\ cacheOrder = <<>>
  /\ cursor = [t \in Threads |-> None]
  /\ cached = [t \in Threads |-> None]
  /\ block = [t \in Threads |-> None]
  /\ submitted = [t \in Threads |-> {}]
  /\ again = [t \in Threads |-> {}]
  /\ searched = [t \in Threads |-> {}]
  /\ researched = FALSE
  /\ forgotten = {}
  /\ cutOff = {}
  /\ restart = [t \in Threads |-> 0]

------------------------------------------------------------------------------
\* The graph.  A run takes a message of the user and ends with an answer of
\* the model, or dies before that, of a recall that throws
\* (throwOnError), for one.
Say(t, kind) ==
  /\ said[t] < MaxMessages[t]
  /\ said' = [said EXCEPT ![t] = @ + 1]
  /\ transcript' = [transcript EXCEPT ![t] = Append(@, [kind |-> kind, id |-> said[t] + 1])]

Invoke(t) ==
  /\ node[t] = "idle"
  /\ \E kind \in {"user", "image"} : Say(t, kind)
  /\ node' = [node EXCEPT ![t] = "recall"]
  /\ UNCHANGED <<config, cursors, cache, block, sendHist, recallHist>>

ModelReplies(t) ==
  /\ node[t] = "model"
  /\ \E kind \in {"assistant", "toolCall"} : Say(t, kind)
  /\ node' = [node EXCEPT ![t] = "remember"]
  /\ UNCHANGED <<config, cursors, cache, block, sendHist, recallHist>>

RunDies(t) ==
  /\ node[t] = "searching"
  /\ node' = [node EXCEPT ![t] = "idle"]
  /\ UNCHANGED <<config, transcript, said, cursors, cache, block, sendHist, recallHist>>

\* The application trims, or a summary replaces, messages between runs.
Trim(t, i) ==
  /\ node[t] = "idle"
  /\ transcript' = [transcript EXCEPT ![t] = SubSeq(@, 1, i - 1) \o SubSeq(@, i + 1, Len(@))]
  /\ cutOff' = IF transcript[t][i].id = cursor[t] THEN cutOff \cup {t} ELSE cutOff
  /\ UNCHANGED <<config, said, node, cursors, cache, block, submitted, again, forgotten,
                 restart, recallHist>>

LastUserIndex(ms) ==
  LET users == {i \in 1..Len(ms) : ms[i].kind \in {"user", "image"}}
  IN IF users = {} THEN 0 ELSE CHOOSE i \in users : \A j \in users : j <= i

Anchor(t) == transcript[t][LastUserIndex(transcript[t])].id
IsMute(t) == transcript[t][LastUserIndex(transcript[t])].kind = "image"

------------------------------------------------------------------------------
CachedBlock_AnyAnchor(t) == cached[t] # None

\* cachedBlock: the block of this thread, if it was recalled for this anchor.
CachedBlock(t) == cached[t] # None /\ cached[t] = Anchor(t)

\* recallNode without a request: the cached block, or nothing to search for.
RecallInjects(t) ==
  /\ node[t] = "recall"
  /\ IF LastUserIndex(transcript[t]) # 0 /\ CachedBlock(t)
     THEN block' = [block EXCEPT ![t] = cached[t]]
     ELSE /\ LastUserIndex(transcript[t]) = 0 \/ IsMute(t)
          /\ block' = [block EXCEPT ![t] = None]
  /\ node' = [node EXCEPT ![t] = "model"]
  /\ UNCHANGED <<config, transcript, said, cursors, cache, sendHist, recallHist>>

RecallSearches(t) ==
  /\ node[t] = "recall"
  /\ LastUserIndex(transcript[t]) # 0 /\ ~CachedBlock(t) /\ ~IsMute(t)
  /\ node' = [node EXCEPT ![t] = "searching"]
  /\ researched' = (researched \/ Anchor(t) \in searched[t])
  /\ UNCHANGED <<config, transcript, said, cursors, cache, block, sendHist, searched>>

SearchReturns_NotCached(t) ==
  /\ node[t] = "searching"
  /\ searched' = [searched EXCEPT ![t] = @ \cup {Anchor(t)}]
  /\ block' = [block EXCEPT ![t] = Anchor(t)]
  /\ node' = [node EXCEPT ![t] = "model"]
  /\ UNCHANGED <<config, transcript, said, cursors, cache, sendHist, researched>>

\* cacheBlock, then inject.  A thread the bound drops is searched anew.
SearchReturns(t) ==
  LET order == Touch(cacheOrder, t)
      gone == Oldest(order, MaxTracked)
  IN /\ node[t] = "searching"
     /\ cacheOrder' = Newest(order, MaxTracked)
     /\ cached' = [u \in Threads |-> IF u \in gone THEN None
                                     ELSE IF u = t THEN Anchor(t) ELSE cached[u]]
     /\ searched' = [u \in Threads |-> IF u \in gone THEN {}
                                       ELSE IF u = t THEN searched[t] \cup {Anchor(t)}
                                       ELSE searched[u]]
     /\ block' = [block EXCEPT ![t] = Anchor(t)]
     /\ node' = [node EXCEPT ![t] = "model"]
     /\ UNCHANGED <<config, transcript, said, cursors, sendHist, researched>>

\* handleError, then the transcript as it is: no memory this time.
SearchFails(t) ==
  /\ node[t] = "searching"
  /\ block' = [block EXCEPT ![t] = None]
  /\ node' = [node EXCEPT ![t] = "model"]
  /\ UNCHANGED <<config, transcript, said, cursors, cache, sendHist, recallHist>>

------------------------------------------------------------------------------
NewMessages_AllWhenLost(t) ==
  LET ms == transcript[t]
      at == {i \in 1..Len(ms) : ms[i].id = cursor[t]}
  IN IF at # {} THEN SubSeq(ms, (CHOOSE i \in at : TRUE) + 1, Len(ms)) ELSE ms

NewMessages_TurnOnly(t) == SubSeq(transcript[t], LastUserIndex(transcript[t]), Len(transcript[t]))

\* newMessages: what follows the cursor.  When the cursor's message is gone
\* from the transcript, the current turn only.
NewMessages(t) ==
  LET ms == transcript[t]
      at == {i \in 1..Len(ms) : ms[i].id = cursor[t]}
  IN IF cursor[t] = None THEN ms
     ELSE IF at # {} THEN SubSeq(ms, (CHOOSE i \in at : TRUE) + 1, Len(ms))
     ELSE IF LastUserIndex(ms) = 0 THEN ms
     ELSE SubSeq(ms, LastUserIndex(ms), Len(ms))

\* toChatMessages: tool traffic is dropped.
ToChat(ms) == {m.id : m \in {x \in Range(ms) : x.kind \in {"user", "assistant"}}}

Latest(t) == transcript[t][Len(transcript[t])]

\* advanceCursor: on dispatch, to the last message of the transcript.
AdvanceCursor(t) ==
  LET order == Touch(cursorOrder, t)
      gone == Oldest(order, MaxTracked)
  IN /\ cursorOrder' = Newest(order, MaxTracked)
     /\ cursor' = [u \in Threads |-> IF u \in gone THEN None
                                     ELSE IF u = t THEN Latest(t).id ELSE cursor[u]]
     /\ forgotten' = forgotten \cup gone
     /\ cutOff' = cutOff \ (gone \cup {t})
     /\ restart' = [u \in Threads |-> IF u \in gone THEN 0
                                      ELSE IF u = t /\ t \in cutOff THEN Anchor(t)
                                      ELSE restart[u]]

\* conversationStore: the CortadelStore behind the wrappers a graph puts around it.
ConversationStore == wrappers <= MaxUnwrap

\* planPersist: nothing while a tool loop runs, and nothing without new text.
Plan(t) ==
  IF Latest(t).kind \in {"toolCall", "tool"} \/ ~ConversationStore THEN {} ELSE ToChat(NewMessages(t))

\* rememberNode without a write.  Then the graph runs the tool the model asked
\* for, or ends.
RememberSkips(t) ==
  /\ node[t] = "remember"
  /\ Plan(t) = {}
  /\ IF Latest(t).kind = "toolCall" /\ said[t] < MaxMessages[t]
     THEN Say(t, "tool") /\ node' = [node EXCEPT ![t] = "recall"]
     ELSE node' = [node EXCEPT ![t] = "idle"] /\ UNCHANGED <<transcript, said>>
  /\ UNCHANGED <<config, cursors, cache, block, sendHist, recallHist>>

\* rememberNode up to its write: the cursor moves before anything is awaited.
RememberDispatches(t) ==
  /\ node[t] = "remember"
  /\ Plan(t) # {}
  /\ AdvanceCursor(t)
  /\ submitted' = [submitted EXCEPT ![t] = @ \cup Plan(t)]
  /\ again' = [again EXCEPT ![t] = @ \cup (Plan(t) \cap submitted[t])]
  /\ node' = [node EXCEPT ![t] = IF awaitPersist THEN "writing" ELSE "idle"]
  /\ UNCHANGED <<config, transcript, said, cache, block, recallHist>>

\* An awaited write lands or fails; either way the turns are not handed over
\* again.  A detached one ends unseen.
WriteEnds(t) ==
  /\ node[t] = "writing"
  /\ node' = [node EXCEPT ![t] = "idle"]
  /\ UNCHANGED <<config, transcript, said, cursors, cache, block, sendHist, recallHist>>

Next ==
  \E t \in Threads :
    \/ Invoke(t)
    \/ ModelReplies(t)
    \/ RunDies(t)
    \/ \E i \in 1..Len(transcript[t]) : Trim(t, i)
    \/ RecallInjects(t)
    \/ RecallSearches(t)
    \/ SearchReturns(t)
    \/ SearchFails(t)
    \/ RememberSkips(t)
    \/ RememberDispatches(t)
    \/ WriteEnds(t)

Spec == Init /\ [][Next]_memoryVars
------------------------------------------------------------------------------
\* The module comment (19-22): "A per-thread cursor means each message is
\* submitted at most once, even though the node runs after every model call in
\* a tool loop" - also when runs die halfway and the transcript is trimmed past
\* the cursor, as long as the bound has not dropped the thread's cursor.
SubmittedOnce == \A t \in Threads \ forgotten : again[t] = {}

\* Up to its cursor, all a thread still shows was handed to the server.  A
\* trim past the cursor costs the turns before the one the thread went on from,
\* and nothing else does: no tool loop, no run that died, no eviction.
NothingSkipped ==
  \A t \in Threads : cursor[t] # None =>
    \A m \in Range(transcript[t]) :
      m.id \in restart[t]..cursor[t] => ToChat(<<m>>) \subseteq submitted[t]

\* The comment on recallCache (162-164): one search per turn of the user,
\* however often the tool loop calls the model - and what the model gets is
\* what was recalled for this message, never the block of another turn.
OneSearchPerTurn == ~researched
BlockMatchesTurn ==
  \A t \in Threads : node[t] = "model" /\ block[t] # None => block[t] = Anchor(t)
==============================================================================
