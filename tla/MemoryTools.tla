------------------------------ MODULE MemoryTools ------------------------------
(***************************************************************************)
(* The tools search_memory and add_memories that the integrations give the *)
(* model.  A model asks for one or several facts to be stored; the         *)
(* requests go out one after the other, or all at once, and each may be    *)
(* refused, or time out after the server stored the fact.                  *)
(* What the tool then tells the model is all the model ever learns.        *)
(***************************************************************************)
EXTENDS Naturals, FiniteSets

CONSTANTS MaxTexts  \* bound on the facts of one call

ToolsAssumption == MaxTexts \in Nat

VARIABLES
  host,    \* the integration
  throws,  \* throwOnError: of the tools, or of the store they put to
  known,   \* a client, a store or a user id can be resolved for the run
  tool,    \* "search" or "add"
  texts,   \* the facts that are left once blank ones are dropped
  asked,   \* per fact: where its request stands
  landed,  \* history: the facts the server holds
  reply    \* what the model is told: a kind, and the facts called stored

toolVars == <<host, throws, known, tool, texts, asked, landed, reply>>

Hosts == {"vercel", "deepagents", "langgraph", "mastra", "openai", "openclaw", "claude",
          "pydantic", "framework", "crewai"}
Kinds == {"none", "done", "nothing", "partly", "error", "throw"}
OneText == {"claude", "pydantic", "framework"}
NoReply == [kind |-> "none", stored |-> {}]
States == {"unsent", "out", "added", "duplicate", "failed", "cancelled"}
Acknowledged == {i \in texts : asked[i] \in {"added", "duplicate"}}
Cancelled == {i \in texts : asked[i] = "cancelled"}
Failed == {i \in texts : asked[i] = "failed"} \cup Cancelled

TypeOK ==
  /\ asked \in [1..MaxTexts -> States]
  /\ landed \subseteq texts /\ reply.stored \subseteq texts /\ reply.kind \in Kinds

Init ==
  /\ host \in Hosts /\ throws \in BOOLEAN /\ known \in BOOLEAN /\ tool \in {"search", "add"}
  /\ texts \in {1..n : n \in 0..MaxTexts}
  \* The schemas: a search has one query, most hosts take one text, and some drop
  \* blank ones after the schema has passed them.
  /\ tool = "search" \/ host \in {"openai", "openclaw"} => texts = {1}
  /\ texts = {} => host \in {"langgraph", "deepagents", "crewai"} \cup OneText
  /\ host \in OneText => texts \subseteq {1}
  \* Only these resolve their client when they are called.
  /\ ~known => host \in {"deepagents", "langgraph", "mastra", "pydantic"}
  /\ asked = [i \in 1..MaxTexts |-> "unsent"] /\ landed = {} /\ reply = NoReply

------------------------------------------------------------------------------
\* Promise.allSettled; every other host awaits one request before the next.
AllAtOnce == host = "mastra"

\* store.put of langgraph resolves although the write failed, unless its store throws;
\* mastra lets every request settle, guard of crewai swallows what it may not raise.
GoesOnAfterFailure == host = "mastra" \/ (host \in {"langgraph", "crewai"} /\ ~throws)

Send(i) ==
  /\ reply = NoReply /\ known /\ i \in texts /\ asked[i] = "unsent"
  /\ AllAtOnce \/ \A j \in texts : IF j < i THEN asked[j] \notin {"unsent", "out"}
                                            ELSE asked[j] = "unsent"
  /\ Failed # {} => GoesOnAfterFailure
  /\ asked' = [asked EXCEPT ![i] = "out"]
  /\ UNCHANGED <<host, throws, known, tool, texts, landed, reply>>

Settle(i, as, got) ==
  /\ asked[i] = "out"
  /\ asked' = [asked EXCEPT ![i] = as]
  /\ landed' = landed \cup got
  /\ UNCHANGED <<host, throws, known, tool, texts, reply>>

\* The event of an answer: a fact is new, or folded into what is stored.
Answered(i) == Settle(i, "added", {i}) \/ Settle(i, "duplicate", {i})

\* Refused, timed out or aborted - the last two also after the fact was stored.
Refused(i) == Settle(i, "failed", {}) \/ Settle(i, "failed", {i})

\* In .NET a timeout is an OperationCanceledException, as is the caller's own token.
Cancels(i) == host = "framework" /\ (Settle(i, "cancelled", {}) \/ Settle(i, "cancelled", {i}))

Says(kind, stored) == [kind |-> kind, stored |-> stored]
Fails(stored) == Says(IF throws THEN "throw" ELSE "error", stored)

SearchReply == IF Failed = {} THEN Says("done", {}) ELSE Fails({})

\* Search of openclaw: its gateway never throws.  And of claude: toolSearch.
OpenClawSearch == IF Failed = {} THEN Says("done", {}) ELSE Says("error", {})
ClaudeSearch == OpenClawSearch

\* Search of langgraph: a store that does not throw finds nothing.
LangGraphSearch == IF Failed = {} \/ ~throws THEN Says("done", {}) ELSE Says("throw", {})

VercelAdd_CountsFirst == IF Failed = {} THEN Says("done", Acknowledged)
                         ELSE IF throws THEN Says("throw", {})
                         ELSE Says("error", Acknowledged \cup Failed)

\* The counts and ids of what was acknowledged, also beside an error.
VercelAdd == IF Failed = {} THEN Says("done", Acknowledged)
             ELSE IF throws THEN Says("throw", {}) ELSE Says("error", Acknowledged)

\* The lines of what was recorded are lost with the first failure.
DeepAgentsAdd == IF texts = {} THEN Says("nothing", {})
                 ELSE IF Failed = {} THEN Says("done", Acknowledged) ELSE Fails({})

\* formatStored counts what put returned from.
LangGraphAdd == IF texts = {} THEN Says("nothing", {})
                ELSE IF Failed # {} /\ throws THEN Says("throw", {})
                ELSE Says("done", texts)

\* One entry per statement; report throws at the first that failed.
MastraAdd == IF Failed = {} THEN Says("done", Acknowledged)
             ELSE IF throws THEN Says("throw", {}) ELSE Says("error", Acknowledged)

OpenAIAdd == IF Failed = {} THEN Says("done", Acknowledged) ELSE Fails({})

OpenClawAdd == IF Failed = {} THEN Says("done", Acknowledged) ELSE Says("error", {})

\* toolAdd answers with an error, whatever throwOnError says of the hooks.
ClaudeAdd == IF Failed = {} /\ texts # {} THEN Says("done", Acknowledged) ELSE Says("error", {})

PydanticAdd == IF texts = {} THEN Says("nothing", {})
               ELSE IF Failed = {} THEN Says("done", Acknowledged) ELSE Fails({})

\* CortadelMemoryTools throws a cancellation, whatever ThrowOnError says.
FrameworkSearch == IF Cancelled # {} THEN Says("throw", {}) ELSE SearchReply
FrameworkAdd == IF Cancelled # {} THEN Says("throw", {}) ELSE PydanticAdd

\* Counts what was acknowledged, which may be fewer than it was asked to save.
CrewAIAdd == IF texts = {} THEN Says("nothing", {})
             ELSE IF Failed = {} THEN Says("done", Acknowledged)
             ELSE IF throws THEN Says("throw", {})
             ELSE Says(IF Acknowledged = {} THEN "error" ELSE "partly", Acknowledged)

\* resolveRun, requireStore, NO_USER_ID, resolve_user_id; add_memories of mastra
\* gets its client outside of any try, so that one that cannot be built throws.
UnknownReplies ==
  CASE host = "deepagents" -> {Says("error", {})}
    [] host = "langgraph" -> {Says("throw", {})}
    [] host = "mastra" /\ tool = "add" -> {Fails({}), Says("throw", {})}
    [] OTHER -> {Fails({})}

Reply ==
  /\ reply = NoReply
  /\ known => \/ \A i \in texts : asked[i] \notin {"unsent", "out"}
              \/ Failed # {} /\ ~GoesOnAfterFailure
  /\ ~known => reply' \in UnknownReplies
  /\ known => reply' =
       IF tool = "search"
       THEN CASE host = "openclaw" -> OpenClawSearch [] host = "claude" -> ClaudeSearch
              [] host = "langgraph" -> LangGraphSearch [] host = "framework" -> FrameworkSearch
              [] OTHER -> SearchReply
       ELSE CASE host = "vercel" -> VercelAdd [] host = "deepagents" -> DeepAgentsAdd
              [] host = "langgraph" -> LangGraphAdd [] host = "mastra" -> MastraAdd
              [] host = "openai" -> OpenAIAdd [] host = "openclaw" -> OpenClawAdd
              [] host = "claude" -> ClaudeAdd [] host = "pydantic" -> PydanticAdd
              [] host = "framework" -> FrameworkAdd [] host = "crewai" -> CrewAIAdd
  /\ UNCHANGED <<host, throws, known, tool, texts, asked, landed>>

Next == Reply \/ \E i \in texts : Send(i) \/ Answered(i) \/ Refused(i) \/ Cancels(i)

Spec == Init /\ [][Next]_toolVars
------------------------------------------------------------------------------
\* A store of langgraph that does not throw hides the failure from the tool.
Hidden == host = "langgraph" /\ ~throws

\* The model is never told that the server holds more than it does, and a reply
\* without an error says that all of it is stored; a tool that was not told to
\* throw lets the turn go on, unless a request of the framework was cancelled, or no
\* client, store or user could be resolved.
ReportedIsStored ==
  /\ ~Hidden => /\ reply.stored \subseteq landed
                /\ reply.kind = "done" /\ tool = "add" => texts \subseteq landed
  /\ reply.kind = "throw" => ~known \/ (throws /\ host \notin {"openclaw", "claude"})
                                     \/ Cancelled # {}
==============================================================================
