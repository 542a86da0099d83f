---------------------------- MODULE MCIntegrations ----------------------------
(***************************************************************************)
(* The integrations other than those with runs of their own, side by side: *)
(* a behaviour is one of the parts, and the others have no state.          *)
(***************************************************************************)
EXTENDS Naturals, Sequences, FiniteSets, TLC

CONSTANTS None, Unset, Blank, Base,
          Sessions, Conversations, Tenants, Users, Calls, Recalls, Exchanges, Requests,
          Hits, HitAnswers, AnyAnswers, Queries, Spellings, LowerCase, Texts, Signals, Options,
          Agents, Keys, KeyAgent, Ids, Senders, BlankSenders,
          s1, s2, a1, a2, k1, k2   \* some of these

\* The bounds: what the code is given, and what the runs are.
CONSTANTS MaxSessions, ClaudeSeen, ClaudeLog, MaxTracked, WindowSize, MaxResets, OpenClawLog,
          MaxThreads, MastraSeen, MastraLog, CacheSize, MaxAdvances, MaxIds, FrameworkLog,
          MaxWindow, CrewLog, CaptureTurns, CaptureSessions, DedupeSize, MaxWrites,
          MaxMessages, N8nTurns, MaxFingerprints, CacheEntries, StopTurns, MaxEntries,
          MaxBuilt, Limit, MaxTexts, MaxFailures, MaxClients, PageSize, MaxRows, MaxChanges,
          MaxPages, MaxLines, MaxRuns

VARIABLES part,
  calls, seenOrder, seen, claudeLog,
  openClawWaiting, ledgerOrder, ledger, resets, openClawShown,
  recalling, injectedOrder, injected, mastraInjections,
  step, request, given, vercelCache, recent,
  openAIAt, asks, sentAt, openAIShown, openAICache, advances, late,
  maxRememberedIds, recall, frameworkRaced, remembered, frameworkInjections,
  dedupeWindow, thread, recentIds, crewRaced, returned,
  claudeAwaitPersist, prompts, claudePhase, entries, promptOrder, lastPrompt, claudeCaptured,
  claudeRunning, claudePending, claudeWaiting,
  claims, air, vercelLanded, vercelLost, pushedOut,
  detached, messages, made, node, recallQuery, memories, persistedCount, sent, deepLanded,
  twice, missed, unsure, cut,
  n8nTurn, content, half, pendingHuman, pendingAi, fingerprints, written, loads, hitCache,
  served,
  transcript, stopTurn, stopWaiting, stopCaptured,
  pydanticClients, built, pydanticClosed, pydanticCall, pydanticPending, pydanticCloser,
  pydanticOverlapped,
  frameworkAwaitPersist, ownsClient, store, frameworkRunning, frameworkPending, disposed,
  clientOpen, disposer, frameworkOverlapped,
  scope, ctx, scopeUsed,
  runHost, config, run, runClients, runUsed,
  disk, env, disabled, hooks, skills,
  toolHost, throws, known, tool, texts, asked, toolLanded, reply,
  op, signal, sdkPhase, status, body, latest, aborted, tagged, outcome,
  failures, breaker, gatewayClients, out, begun,
  continues, items, rows, handled, page, collected, before, gone, stored, output, stopped,
  windows, hookAt, hook, event, hookLog, rotated, runs,
  syncClosed, loop, syncCall, syncCloser, gaveUp

claudeRecallVars == <<calls, seenOrder, seen, claudeLog>>
openClawRecallVars == <<openClawWaiting, ledgerOrder, ledger, resets, openClawShown>>
mastraRecallVars == <<recalling, injectedOrder, injected, mastraInjections>>
vercelRecallVars == <<step, request, given, vercelCache, recent>>
openAIRecallVars == <<openAIAt, asks, sentAt, openAIShown, openAICache, advances, late>>
frameworkRecallVars == <<maxRememberedIds, recall, frameworkRaced, remembered,
                         frameworkInjections>>
crewVars == <<dedupeWindow, thread, recentIds, crewRaced, returned>>
recallGroup == <<claudeRecallVars, openClawRecallVars, mastraRecallVars, vercelRecallVars,
                 openAIRecallVars, frameworkRecallVars, crewVars>>
captureVars == <<claudeAwaitPersist, prompts, claudePhase, entries, promptOrder, lastPrompt,
                 claudeCaptured, claudeRunning, claudePending, claudeWaiting>>
vercelPersistVars == <<claims, air, vercelLanded, vercelLost, pushedOut>>
deepVars == <<detached, messages, made, node, recallQuery, memories, persistedCount, sent,
              deepLanded, twice, missed, unsure, cut>>
n8nVars == <<n8nTurn, content, half, pendingHuman, pendingAi, fingerprints, written, loads,
             hitCache, served>>
stopVars == <<transcript, stopTurn, stopWaiting, stopCaptured>>
backendVars == <<pydanticClients, built, pydanticClosed, pydanticCall, pydanticPending,
                 pydanticCloser, pydanticOverlapped>>
frameworkVars == <<frameworkAwaitPersist, ownsClient, store, frameworkRunning,
                   frameworkPending, disposed, clientOpen, disposer, frameworkOverlapped>>
persistGroup == <<captureVars, vercelPersistVars, deepVars, n8nVars, stopVars, backendVars,
                  frameworkVars>>
scopeVars == <<scope, ctx, scopeUsed>>
identityVars == <<runHost, config, run, runClients, runUsed>>
configVars == <<disk, env, disabled, hooks, skills>>
userGroup == <<scopeVars, identityVars, configVars>>
toolVars == <<toolHost, throws, known, tool, texts, asked, toolLanded, reply>>
sdkVars == <<op, signal, sdkPhase, status, body, latest, aborted, tagged, outcome>>
gatewayVars == <<failures, breaker, gatewayClients, out, begun>>
nodeVars == <<continues, items, rows, handled, page, collected, before, gone, stored, output,
              stopped>>
hookVars == <<windows, hookAt, hook, event, hookLog, rotated, runs>>
syncVars == <<syncClosed, loop, syncCall, syncCloser, gaveUp>>
callGroup == <<toolVars, sdkVars, gatewayVars, nodeVars, hookVars, syncVars>>

\* What the runs take: two users of whom one has two sessions, with one text; answers
\* of two hits, one of which may have no id; two turns in one session and one in
\* another; three queries of which two differ in their case; a key for each agent.
TwoUsers == {[user |-> "u1", session |-> "s1", text |-> "x"],
             [user |-> "u1", session |-> "s2", text |-> "x"],
             [user |-> "u2", session |-> "s1", text |-> "x"]}
UpToTwo(S) == {<<>>} \cup {<<h>> : h \in S} \cup {q \in S \X S : q[1] # q[2]}
TwoHits == UpToTwo(Hits)
TwoAny == UpToTwo(Hits \cup {Blank})
TwoAndOne == s1 :> 2 @@ s2 :> 1
TwoSpellings == {"deploy", "Deploy", "coffee"}
Lowered == [q \in TwoSpellings |-> IF q = "Deploy" THEN "deploy" ELSE q]
OfAgents == k1 :> a1 @@ k2 :> a2

ClaudeRecall == INSTANCE ClaudeRecall WITH
  Answers <- HitAnswers, MaxSeen <- ClaudeSeen, MaxLog <- ClaudeLog,
  log <- claudeLog
OpenClawRecall == INSTANCE OpenClawRecall WITH
  Sessions <- Conversations, Answers <- HitAnswers, MaxLog <- OpenClawLog,
  waiting <- openClawWaiting, shown <- openClawShown
MastraRecall == INSTANCE MastraRecall WITH
  Threads <- Conversations, Runs <- Calls, Answers <- HitAnswers, MaxSeen <- MastraSeen,
  MaxLog <- MastraLog,
  injections <- mastraInjections
VercelRecall == INSTANCE VercelRecall WITH
  cache <- vercelCache
OpenAIRecall == INSTANCE OpenAIRecall WITH
  at <- openAIAt, shown <- openAIShown, cache <- openAICache
FrameworkRecall == INSTANCE FrameworkRecall WITH
  Sessions <- Tenants, Anonymous <- Blank, Answers <- AnyAnswers, MaxLog <- FrameworkLog,
  raced <- frameworkRaced, injections <- frameworkInjections
CrewRecall == INSTANCE CrewRecall WITH
  Threads <- Calls, Answers <- HitAnswers, MaxLog <- CrewLog,
  raced <- crewRaced
ClaudeCapture == INSTANCE ClaudeCapture WITH
  Sessions <- Conversations, MaxTurns <- CaptureTurns, MaxSessions <- CaptureSessions,
  awaitPersist <- claudeAwaitPersist, phase <- claudePhase, captured <- claudeCaptured,
  running <- claudeRunning, pending <- claudePending, waiting <- claudeWaiting
VercelPersist == INSTANCE VercelPersist WITH
  landed <- vercelLanded, lost <- vercelLost
DeepAgents == INSTANCE DeepAgents WITH
  landed <- deepLanded
N8nMemory == INSTANCE N8nMemory WITH
  MaxTurns <- N8nTurns, Loads <- Calls, Queries <- Spellings,
  turn <- n8nTurn
PluginStop == INSTANCE PluginStop WITH
  MaxTurns <- StopTurns,
  turn <- stopTurn, waiting <- stopWaiting, captured <- stopCaptured
PydanticBackend == INSTANCE PydanticBackend WITH
  Users <- Tenants, Closers <- Recalls,
  clients <- pydanticClients, closed <- pydanticClosed, call <- pydanticCall,
  pending <- pydanticPending, closer <- pydanticCloser, overlapped <- pydanticOverlapped
FrameworkStore == INSTANCE FrameworkStore WITH
  Writes <- Calls, Disposers <- Recalls,
  awaitPersist <- frameworkAwaitPersist, running <- frameworkRunning,
  pending <- frameworkPending, overlapped <- frameworkOverlapped
OpenClawScope == INSTANCE OpenClawScope WITH
  Blank <- BlankSenders,
  used <- scopeUsed
RunIdentity == INSTANCE RunIdentity WITH
  host <- runHost, clients <- runClients, used <- runUsed
PluginConfig == INSTANCE PluginConfig
MemoryTools == INSTANCE MemoryTools WITH
  host <- toolHost, landed <- toolLanded
SdkCalls == INSTANCE SdkCalls WITH
  phase <- sdkPhase
OpenClawGateway == INSTANCE OpenClawGateway WITH
  Callers <- Sessions,
  clients <- gatewayClients
N8nNode == INSTANCE N8nNode
PluginHooks == INSTANCE PluginHooks WITH
  Processes <- Calls,
  at <- hookAt, log <- hookLog
SyncClient == INSTANCE SyncClient WITH
  Threads <- Calls, Closers <- Recalls,
  closed <- syncClosed, call <- syncCall, closer <- syncCloser

ASSUME Assumptions ==
  /\ ClaudeRecall!RecallAssumption
  /\ OpenClawRecall!RecallAssumption
  /\ MastraRecall!RecallAssumption
  /\ VercelRecall!RecallAssumption
  /\ OpenAIRecall!RecallAssumption
  /\ FrameworkRecall!RecallAssumption
  /\ CrewRecall!RecallAssumption
  /\ ClaudeCapture!CaptureAssumption
  /\ VercelPersist!PersistAssumption
  /\ DeepAgents!ThreadAssumption
  /\ N8nMemory!ChatAssumption
  /\ PluginStop!StopAssumption
  /\ PydanticBackend!BackendAssumption
  /\ OpenClawScope!ScopeAssumption
  /\ RunIdentity!IdentityAssumption
  /\ MemoryTools!ToolsAssumption
  /\ OpenClawGateway!GatewayAssumption
  /\ N8nNode!NodeAssumption
  /\ PluginHooks!HooksAssumption

Parts == {"ClaudeRecall", "OpenClawRecall", "MastraRecall", "VercelRecall", "OpenAIRecall",
          "FrameworkRecall", "CrewRecall", "ClaudeCapture", "VercelPersist", "DeepAgents",
          "N8nMemory", "PluginStop", "PydanticBackend", "FrameworkStore", "OpenClawScope",
          "RunIdentity", "PluginConfig", "MemoryTools", "SdkCalls", "OpenClawGateway",
          "N8nNode", "PluginHooks", "SyncClient"}

Init ==
  /\ part \in Parts
  /\ IF part = "ClaudeRecall" THEN ClaudeRecall!Init
     ELSE calls = None /\ seenOrder = None /\ seen = None /\ claudeLog = None
  /\ IF part = "OpenClawRecall" THEN OpenClawRecall!Init
     ELSE openClawWaiting = None /\ ledgerOrder = None /\ ledger = None /\ resets = None /\
          openClawShown = None
  /\ IF part = "MastraRecall" THEN MastraRecall!Init
     ELSE recalling = None /\ injectedOrder = None /\ injected = None /\ mastraInjections = None
  /\ IF part = "VercelRecall" THEN VercelRecall!Init
     ELSE step = None /\ request = None /\ given = None /\ vercelCache = None /\ recent = None
  /\ IF part = "OpenAIRecall" THEN OpenAIRecall!Init
     ELSE openAIAt = None /\ asks = None /\ sentAt = None /\ openAIShown = None /\
          openAICache = None /\ advances = None /\ late = None
  /\ IF part = "FrameworkRecall" THEN FrameworkRecall!Init
     ELSE maxRememberedIds = None /\ recall = None /\ frameworkRaced = None /\ remembered = None /\
          frameworkInjections = None
  /\ IF part = "CrewRecall" THEN CrewRecall!Init
     ELSE dedupeWindow = None /\ thread = None /\ recentIds = None /\ crewRaced = None /\
          returned = None
  /\ IF part = "ClaudeCapture" THEN ClaudeCapture!Init
     ELSE claudeAwaitPersist = None /\ prompts = None /\ claudePhase = None /\ entries = None /\
          promptOrder = None /\ lastPrompt = None /\ claudeCaptured = None /\ claudeRunning = None /\
          claudePending = None /\ claudeWaiting = None
  /\ IF part = "VercelPersist" THEN VercelPersist!Init
     ELSE claims = None /\ air = None /\ vercelLanded = None /\ vercelLost = None /\ pushedOut = None
  /\ IF part = "DeepAgents" THEN DeepAgents!Init
     ELSE detached = None /\ messages = None /\ made = None /\ node = None /\ recallQuery = None /\
          memories = None /\ persistedCount = None /\ sent = None /\ deepLanded = None /\
          twice = None /\ missed = None /\ unsure = None /\ cut = None
  /\ IF part = "N8nMemory" THEN N8nMemory!Init
     ELSE n8nTurn = None /\ content = None /\ half = None /\ pendingHuman = None /\ pendingAi = None /\
          fingerprints = None /\ written = None /\ loads = None /\ hitCache = None /\ served = None
  /\ IF part = "PluginStop" THEN PluginStop!Init
     ELSE transcript = None /\ stopTurn = None /\ stopWaiting = None /\ stopCaptured = None
  /\ IF part = "PydanticBackend" THEN PydanticBackend!Init
     ELSE pydanticClients = None /\ built = None /\ pydanticClosed = None /\ pydanticCall = None /\
          pydanticPending = None /\ pydanticCloser = None /\ pydanticOverlapped = None
  /\ IF part = "FrameworkStore" THEN FrameworkStore!Init
     ELSE frameworkAwaitPersist = None /\ ownsClient = None /\ store = None /\
          frameworkRunning = None /\ frameworkPending = None /\ disposed = None /\
          clientOpen = None /\ disposer = None /\ frameworkOverlapped = None
  /\ IF part = "OpenClawScope" THEN OpenClawScope!Init
     ELSE scope = None /\ ctx = None /\ scopeUsed = None
  /\ IF part = "RunIdentity" THEN RunIdentity!Init
     ELSE runHost = None /\ config = None /\ run = None /\ runClients = None /\ runUsed = None
  /\ IF part = "PluginConfig" THEN PluginConfig!Init
     ELSE disk = None /\ env = None /\ disabled = None /\ hooks = None /\ skills = None
  /\ IF part = "MemoryTools" THEN MemoryTools!Init
     ELSE toolHost = None /\ throws = None /\ known = None /\ tool = None /\ texts = None /\
          asked = None /\ toolLanded = None /\ reply = None
  /\ IF part = "SdkCalls" THEN SdkCalls!Init
     ELSE op = None /\ signal = None /\ sdkPhase = None /\ status = None /\ body = None /\
          latest = None /\ aborted = None /\ tagged = None /\ outcome = None
  /\ IF part = "OpenClawGateway" THEN OpenClawGateway!Init
     ELSE failures = None /\ breaker = None /\ gatewayClients = None /\ out = None /\ begun = None
  /\ IF part = "N8nNode" THEN N8nNode!Init
     ELSE continues = None /\ items = None /\ rows = None /\ handled = None /\ page = None /\
          collected = None /\ before = None /\ gone = None /\ stored = None /\ output = None /\
          stopped = None
  /\ IF part = "PluginHooks" THEN PluginHooks!Init
     ELSE windows = None /\ hookAt = None /\ hook = None /\ event = None /\ hookLog = None /\
          rotated = None /\ runs = None
  /\ IF part = "SyncClient" THEN SyncClient!Init
     ELSE syncClosed = None /\ loop = None /\ syncCall = None /\ syncCloser = None /\ gaveUp = None

RecallNext ==
  /\ UNCHANGED <<persistGroup, userGroup, callGroup>>
  /\ \/ part = "ClaudeRecall" /\ ClaudeRecall!Next
        /\ UNCHANGED <<openClawRecallVars, mastraRecallVars, vercelRecallVars,
                       openAIRecallVars, frameworkRecallVars, crewVars>>
     \/ part = "OpenClawRecall" /\ OpenClawRecall!Next
        /\ UNCHANGED <<claudeRecallVars, mastraRecallVars, vercelRecallVars,
                       openAIRecallVars, frameworkRecallVars, crewVars>>
     \/ part = "MastraRecall" /\ MastraRecall!Next
        /\ UNCHANGED <<claudeRecallVars, openClawRecallVars, vercelRecallVars,
                       openAIRecallVars, frameworkRecallVars, crewVars>>
     \/ part = "VercelRecall" /\ VercelRecall!Next
        /\ UNCHANGED <<claudeRecallVars, openClawRecallVars, mastraRecallVars,
                       openAIRecallVars, frameworkRecallVars, crewVars>>
     \/ part = "OpenAIRecall" /\ OpenAIRecall!Next
        /\ UNCHANGED <<claudeRecallVars, openClawRecallVars, mastraRecallVars,
                       vercelRecallVars, frameworkRecallVars, crewVars>>
     \/ part = "FrameworkRecall" /\ FrameworkRecall!Next
        /\ UNCHANGED <<claudeRecallVars, openClawRecallVars, mastraRecallVars,
                       vercelRecallVars, openAIRecallVars, crewVars>>
     \/ part = "CrewRecall" /\ CrewRecall!Next
        /\ UNCHANGED <<claudeRecallVars, openClawRecallVars, mastraRecallVars,
                       vercelRecallVars, openAIRecallVars, frameworkRecallVars>>

PersistNext ==
  /\ UNCHANGED <<recallGroup, userGroup, callGroup>>
  /\ \/ part = "ClaudeCapture" /\ ClaudeCapture!Next
        /\ UNCHANGED <<vercelPersistVars, deepVars, n8nVars, stopVars, backendVars,
                       frameworkVars>>
     \/ part = "VercelPersist" /\ VercelPersist!Next
        /\ UNCHANGED <<captureVars, deepVars, n8nVars, stopVars, backendVars, frameworkVars>>
     \/ part = "DeepAgents" /\ DeepAgents!Next
        /\ UNCHANGED <<captureVars, vercelPersistVars, n8nVars, stopVars, backendVars,
                       frameworkVars>>
     \/ part = "N8nMemory" /\ N8nMemory!Next
        /\ UNCHANGED <<captureVars, vercelPersistVars, deepVars, stopVars, backendVars,
                       frameworkVars>>
     \/ part = "PluginStop" /\ PluginStop!Next
        /\ UNCHANGED <<captureVars, vercelPersistVars, deepVars, n8nVars, backendVars,
                       frameworkVars>>
     \/ part = "PydanticBackend" /\ PydanticBackend!Next
        /\ UNCHANGED <<captureVars, vercelPersistVars, deepVars, n8nVars, stopVars,
                       frameworkVars>>
     \/ part = "FrameworkStore" /\ FrameworkStore!Next
        /\ UNCHANGED <<captureVars, vercelPersistVars, deepVars, n8nVars, stopVars,
                       backendVars>>

UserNext ==
  /\ UNCHANGED <<recallGroup, persistGroup, callGroup>>
  /\ \/ part = "OpenClawScope" /\ OpenClawScope!Next
        /\ UNCHANGED <<identityVars, configVars>>
     \/ part = "RunIdentity" /\ RunIdentity!Next
        /\ UNCHANGED <<scopeVars, configVars>>
     \/ part = "PluginConfig" /\ PluginConfig!Next
        /\ UNCHANGED <<scopeVars, identityVars>>

CallNext ==
  /\ UNCHANGED <<recallGroup, persistGroup, userGroup>>
  /\ \/ part = "MemoryTools" /\ MemoryTools!Next
        /\ UNCHANGED <<sdkVars, gatewayVars, nodeVars, hookVars, syncVars>>
     \/ part = "SdkCalls" /\ SdkCalls!Next
        /\ UNCHANGED <<toolVars, gatewayVars, nodeVars, hookVars, syncVars>>
     \/ part = "OpenClawGateway" /\ OpenClawGateway!Next
        /\ UNCHANGED <<toolVars, sdkVars, nodeVars, hookVars, syncVars>>
     \/ part = "N8nNode" /\ N8nNode!Next
        /\ UNCHANGED <<toolVars, sdkVars, gatewayVars, hookVars, syncVars>>
     \/ part = "PluginHooks" /\ PluginHooks!Next
        /\ UNCHANGED <<toolVars, sdkVars, gatewayVars, nodeVars, syncVars>>
     \/ part = "SyncClient" /\ SyncClient!Next
        /\ UNCHANGED <<toolVars, sdkVars, gatewayVars, nodeVars, hookVars>>

Next == UNCHANGED part /\ (RecallNext \/ PersistNext \/ UserNext \/ CallNext)

Spec == Init /\ [][Next]_<<part, recallGroup, persistGroup, userGroup, callGroup>>
------------------------------------------------------------------------------
\* Every part keeps the types of its state: tables and caches stay under their
\* bounds, however what fills them overlaps.
TypeOK ==
  /\ part = "ClaudeRecall" => ClaudeRecall!TypeOK
  /\ part = "OpenClawRecall" => OpenClawRecall!TypeOK
  /\ part = "MastraRecall" => MastraRecall!TypeOK
  /\ part = "VercelRecall" => VercelRecall!TypeOK
  /\ part = "OpenAIRecall" => OpenAIRecall!TypeOK
  /\ part = "FrameworkRecall" => FrameworkRecall!TypeOK
  /\ part = "CrewRecall" => CrewRecall!TypeOK
  /\ part = "ClaudeCapture" => ClaudeCapture!TypeOK
  /\ part = "VercelPersist" => VercelPersist!TypeOK
  /\ part = "DeepAgents" => DeepAgents!TypeOK
  /\ part = "N8nMemory" => N8nMemory!TypeOK
  /\ part = "PluginStop" => PluginStop!TypeOK
  /\ part = "PydanticBackend" => PydanticBackend!TypeOK
  /\ part = "FrameworkStore" => FrameworkStore!TypeOK
  /\ part = "OpenClawScope" => OpenClawScope!TypeOK
  /\ part = "RunIdentity" => RunIdentity!TypeOK
  /\ part = "PluginConfig" => PluginConfig!TypeOK
  /\ part = "MemoryTools" => MemoryTools!TypeOK
  /\ part = "SdkCalls" => SdkCalls!TypeOK
  /\ part = "OpenClawGateway" => OpenClawGateway!TypeOK
  /\ part = "N8nNode" => N8nNode!TypeOK
  /\ part = "PluginHooks" => PluginHooks!TypeOK
  /\ part = "SyncClient" => SyncClient!TypeOK

\* A memory is put into a conversation again only when a bound of the table that
\* remembers it has pushed it out.
ShownOnce ==
  /\ part = "ClaudeRecall" => ClaudeRecall!ShownOnce
  /\ part = "OpenClawRecall" => OpenClawRecall!ShownOnce
  /\ part = "MastraRecall" => MastraRecall!ShownOnce
  /\ part = "FrameworkRecall" => FrameworkRecall!ShownOnce
  /\ part = "CrewRecall" => CrewRecall!ShownOnce

\* A memory is kept from a conversation only after the conversation was given it.
HiddenOnlyIfShown ==
  /\ part = "ClaudeRecall" => ClaudeRecall!HiddenOnlyIfShown
  /\ part = "OpenClawRecall" => OpenClawRecall!HiddenOnlyIfShown
  /\ part = "MastraRecall" => MastraRecall!HiddenOnlyIfShown
  /\ part = "FrameworkRecall" => FrameworkRecall!HiddenOnlyIfShown
  /\ part = "CrewRecall" => CrewRecall!HiddenOnlyIfShown

\* What is recalled is for the user, the session and the question it is shown to,
\* and all ways of one run reach the same user's memories.
MemoriesAreOwn ==
  /\ part = "VercelRecall" => VercelRecall!MemoriesAreOwn
  /\ part = "OpenAIRecall" => OpenAIRecall!MemoriesAreOwn
  /\ part = "DeepAgents" => DeepAgents!MemoriesAreOwn
  /\ part = "N8nMemory" => N8nMemory!MemoriesAreOwn
  /\ part = "OpenClawScope" => OpenClawScope!MemoriesAreOwn
  /\ part = "RunIdentity" => RunIdentity!MemoriesAreOwn
  /\ part = "PluginConfig" => PluginConfig!MemoriesAreOwn

\* A turn is written once, however calls are repeated, retried or overlap, up to the
\* exceptions each module states.
WrittenOnce ==
  /\ part = "VercelPersist" => VercelPersist!WrittenOnce
  /\ part = "DeepAgents" => DeepAgents!WrittenOnce
  /\ part = "N8nMemory" => N8nMemory!WrittenOnce

\* A failed write is not taken for a done one.
NothingSwallowed ==
  /\ part = "VercelPersist" => VercelPersist!NothingSwallowed
  /\ part = "DeepAgents" => DeepAgents!NothingSwallowed

\* An exchange that is written pairs a prompt with its own answer.
PairsMatch ==
  /\ part = "N8nMemory" => N8nMemory!PairsMatch
  /\ part = "PluginStop" => PluginStop!PairsMatch

\* What is shared stays bounded: the calls to a failing server, the log of the hooks,
\* the loop of a client that was closed.
Contained ==
  /\ part = "OpenClawGateway" => OpenClawGateway!Contained
  /\ part = "PluginHooks" => PluginHooks!LogBounded
  /\ part = "SyncClient" => SyncClient!NothingOutlives

\* The properties of single parts, each stated and explained in its module.
CapturesFinishedTurn == part = "ClaudeCapture" => ClaudeCapture!CapturesFinishedTurn
ReportedIsStored == part = "MemoryTools" => MemoryTools!ReportedIsStored
OwnStatus == part = "SdkCalls" => SdkCalls!OwnStatus
WalkMissesNothing == part = "N8nNode" => N8nNode!WalkMissesNothing

\* Whoever waits for the writes behind the runs - flush, aclose, DisposeAsync - and
\* is alone in that, goes on when none is left of those it is to wait for.
FlushDrains ==
  [][/\ part = "ClaudeCapture" => ClaudeCapture!FlushWaits
     /\ part = "PydanticBackend" => PydanticBackend!AcloseDrains
     /\ part = "FrameworkStore" => FrameworkStore!DisposeDrains]_persistGroup

\* A tool loop searches once per turn, and what it is given is no older than the
\* entry's time allows.
StepsReuse ==
  [][/\ part = "VercelRecall" => VercelRecall!StepReuses
     /\ part = "OpenAIRecall" => OpenAIRecall!StepReuses]_recallGroup
=============================================================================
