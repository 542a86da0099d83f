----------------------------- MODULE DeepAgents -----------------------------
(***************************************************************************)
(* The Deep Agents middleware (integrations/deepagents/src): beforeAgent   *)
(* recalls for the last message of the user, every model call is given the *)
(* memories, afterAgent hands the new messages of the thread over.  What   *)
(* it knows of a thread is three keys of the thread's checkpointed state;  *)
(* a run that dies loses what its nodes had not yet returned.              *)
(***************************************************************************)
EXTENDS Naturals, Sequences, FiniteSets

CONSTANTS Texts,        \* what a user may say
          MaxMessages,  \* bound on the messages of the thread
          None

ThreadAssumption ==
  /\ MaxMessages \in Nat
  /\ Texts \cap {"image", "answer", "tool"} = {} /\ None \notin Texts

\* A user's text or image, an answer with text, and the traffic of tools.
Kinds == {"image", "answer", "tool"} \cup Texts
Storable == {"answer"} \cup Texts

VARIABLES
  detached,        \* awaitPersist is off
  messages,        \* the thread: records [n, kind], n telling them apart
  made,            \* how many messages there have been
  node,            \* the node of the graph that runs
  recallQuery,     \* _cortadelRecallQuery, or None
  memories,        \* the text _cortadelMemories were recalled for, or None
  persistedCount,  \* _cortadelPersistedCount
  sent,            \* the messages of the write under way
  landed,          \* history: the messages Cortadel has
  twice,           \* history: those it got more than once
  missed,          \* history: this run's recall failed, or had no client or text
  unsure,          \* history: a write was cut off or its answer was lost
  cut              \* history: the thread's messages were summarised

deepVars == <<detached, messages, made, node, recallQuery, memories, persistedCount, sent,
              landed, twice, missed, unsure, cut>>
stateKeys == <<recallQuery, memories, persistedCount>>
histories == <<landed, twice, missed, unsure, cut>>

Message == [n : 1..MaxMessages, kind : Kinds]

TypeOK ==
  /\ detached \in BOOLEAN
  /\ messages \in Seq(Message) /\ made \in 0..MaxMessages /\ Len(messages) <= made
  /\ node \in {"idle", "beforeAgent", "search", "model", "afterAgent", "write", "dispatched"}
  /\ recallQuery \in Texts \cup {None} /\ memories \in Texts \cup {None}
  /\ persistedCount \in 0..MaxMessages
  /\ sent \subseteq 1..MaxMessages /\ landed \subseteq 1..MaxMessages /\ twice \subseteq landed
  /\ missed \in BOOLEAN /\ unsure \in BOOLEAN /\ cut \in BOOLEAN
  /\ recallQuery = memories

Init ==
  /\ detached \in BOOLEAN
  /\ messages = <<>> /\ made = 0 /\ node = "idle"
  /\ recallQuery = None /\ memories = None /\ persistedCount = 0
  /\ sent = {} /\ landed = {} /\ twice = {}
  /\ missed = FALSE /\ unsure = FALSE /\ cut = FALSE

Say(kind) ==
  /\ made < MaxMessages
  /\ made' = made + 1
  /\ messages' = Append(messages, [n |-> made + 1, kind |-> kind])

\* latestUserText: the last text of the user, however far back.
LatestUserText ==
  LET at == {i \in 1..Len(messages) : messages[i].kind \in Texts}
  IN IF at = {} THEN None ELSE messages[CHOOSE i \in at : \A j \in at : j <= i].kind

------------------------------------------------------------------------------
\* A run begins with what the user says, or resumes after an interrupt.
Invoke ==
  /\ node = "idle" /\ node' = "beforeAgent"
  /\ \/ \E kind \in Texts \cup {"image"} : Say(kind)
     \/ messages # <<>> /\ UNCHANGED <<messages, made>>
  /\ missed' = FALSE
  /\ UNCHANGED <<detached, stateKeys, sent, landed, twice, unsure, cut>>

AlreadyRecalled_Any(query) == recallQuery # None
\* Already recalled for this exact message.
AlreadyRecalled(query) == recallQuery = query

\* beforeAgent, with nothing to search for, or recalled before, or no client.
RecallSkips ==
  LET query == LatestUserText
  IN /\ node = "beforeAgent" /\ node' = "model"
     /\ missed' = (query = None \/ ~AlreadyRecalled(query))
     /\ UNCHANGED <<detached, messages, made, stateKeys, sent, landed, twice, unsure, cut>>

RecallSearches ==
  LET query == LatestUserText
  IN /\ node = "beforeAgent" /\ node' = "search"
     /\ query # None /\ ~AlreadyRecalled(query)
     /\ UNCHANGED <<detached, messages, made, stateKeys, sent, histories>>

SearchReturns ==
  /\ node = "search" /\ node' = "model"
  /\ memories' = LatestUserText /\ recallQuery' = LatestUserText
  /\ UNCHANGED <<detached, messages, made, persistedCount, sent, histories>>

\* reportFailure: the state keeps the memories of an earlier message.
SearchFails(throws) ==
  /\ node = "search" /\ node' = IF throws THEN "idle" ELSE "model"
  /\ missed' = TRUE
  /\ UNCHANGED <<detached, messages, made, stateKeys, sent, landed, twice, unsure, cut>>

\* wrapModelCall: the model answers, by way of tools or not.
ModelReturns(kind) ==
  /\ node = "model" /\ kind \in {"answer", "tool"}
  /\ Say(kind)
  /\ node' = IF kind = "tool" THEN "model" ELSE "afterAgent"
  /\ UNCHANGED <<detached, stateKeys, sent, histories>>

\* Another middleware of the agent drops the oldest messages for a summary; what
\* the user said last stays.
Summarise(i) ==
  /\ node = "model" /\ i \in 1..Len(messages)
  /\ \E j \in (i + 1)..Len(messages) : messages[j].kind \in Texts
  /\ messages' = SubSeq(messages, i + 1, Len(messages)) /\ cut' = TRUE
  /\ UNCHANGED <<detached, made, node, stateKeys, sent, landed, twice, missed, unsure>>

------------------------------------------------------------------------------
\* toChatMessages of the messages behind the count.
Pending ==
  {messages[i].n : i \in {j \in (persistedCount + 1)..Len(messages) : messages[j].kind \in Storable}}

\* afterAgent without new dialogue, or without a client.
AfterSkips ==
  /\ node = "afterAgent" /\ node' = "idle"
  /\ UNCHANGED <<detached, messages, made, stateKeys, sent, histories>>

Arrive(ns) == landed' = landed \cup ns /\ twice' = twice \cup (ns \cap landed)

AdvanceCount_Storable == persistedCount' = persistedCount + Cardinality(Pending)
\* The count of messages, not of those that were sent.
AdvanceCount == persistedCount' = Len(messages)

\* A detached write is out of the run's hands: it lands, now or later, or is lost.
AfterDispatches ==
  /\ detached /\ node = "afterAgent" /\ node' = "dispatched"
  /\ Pending # {}
  /\ Arrive(Pending) \/ UNCHANGED <<landed, twice>>
  /\ UNCHANGED <<detached, messages, made, stateKeys, sent, missed, unsure, cut>>

\* The count that afterAgent returned is checkpointed.
AfterReturns ==
  /\ node = "dispatched" /\ node' = "idle"
  /\ AdvanceCount
  /\ UNCHANGED <<detached, messages, made, recallQuery, memories, sent, histories>>

AfterWrites ==
  /\ ~detached /\ node = "afterAgent" /\ node' = "write"
  /\ Pending # {} /\ sent' = Pending
  /\ UNCHANGED <<detached, messages, made, stateKeys, histories>>

WriteLands ==
  /\ node = "write" /\ node' = "idle"
  /\ Arrive(sent) /\ sent' = {}
  /\ AdvanceCount
  /\ UNCHANGED <<detached, messages, made, recallQuery, memories, missed, unsure, cut>>

WriteFails_Advances ==
  /\ node = "write" /\ node' = "idle"
  /\ AdvanceCount /\ sent' = {}
  /\ UNCHANGED <<detached, messages, made, recallQuery, memories, histories>>

\* The catch of afterAgent: the count stays, and the next run sends it all again;
\* the server may have taken the write whose answer was lost.
WriteFails ==
  /\ node = "write" /\ node' = "idle"
  /\ \/ UNCHANGED <<landed, twice, unsure>>
     \/ Arrive(sent) /\ unsure' = TRUE
  /\ sent' = {}
  /\ UNCHANGED <<detached, messages, made, stateKeys, missed, cut>>

\* The process dies: the checkpoint before the node that ran is what is left, and
\* of a write that was on its way nobody knows whether it arrived.
RunDies ==
  /\ node # "idle" /\ node' = "idle"
  /\ IF node \in {"write", "dispatched"}
     THEN (UNCHANGED <<landed, twice>> \/ Arrive(sent)) /\ unsure' = TRUE
     ELSE UNCHANGED <<landed, twice, unsure>>
  /\ sent' = {}
  /\ UNCHANGED <<detached, messages, made, stateKeys, missed, cut>>

Next ==
  \/ Invoke
  \/ RecallSkips
  \/ RecallSearches
  \/ SearchReturns
  \/ \E throws \in BOOLEAN : SearchFails(throws)
  \/ \E kind \in {"answer", "tool"} : ModelReturns(kind)
  \/ \E i \in 1..MaxMessages : Summarise(i)
  \/ AfterSkips
  \/ AfterDispatches
  \/ AfterReturns
  \/ AfterWrites
  \/ WriteLands
  \/ WriteFails
  \/ RunDies

Spec == Init /\ [][Next]_deepVars
------------------------------------------------------------------------------
\* "A failed write should be retried with the next turn's suffix rather than
\* silently dropped" (middleware.ts:361-362): behind the count of a thread that
\* was never summarised, everything awaited has landed, whatever runs died.
NothingSwallowed ==
  ~detached /\ ~cut =>
    \A i \in 1..persistedCount : messages[i].kind \in Storable => messages[i].n \in landed

\* "A long-lived thread never re-ingests its own history" (82-83), unless
\* nobody can know whether a write had arrived.
WrittenOnce == ~unsure /\ ~cut => twice = {}

\* A model is given the memories of the message it answers when the recall of
\* its run worked.
MemoriesAreOwn == node = "model" /\ ~missed => memories = LatestUserText
==============================================================================
