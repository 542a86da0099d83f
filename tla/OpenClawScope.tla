---------------------------- MODULE OpenClawScope ----------------------------
(***************************************************************************)
(* Whose memories a turn of OpenClaw reads and writes                      *)
(* (integrations/openclaw/src/scope.ts and its callers): the recall hook,  *)
(* the capture hook, the tools and the corpus each build the identity of   *)
(* the turn from what the host gives them, and resolve a user id from it.  *)
(***************************************************************************)
EXTENDS Naturals, FiniteSets

CONSTANTS Agents,     \* agent ids
          Keys,       \* session keys, "<agent>:<rest>"
          Ids,        \* session ids, which have no prefix
          Senders,    \* ids of the humans of a chat
          KeyAgent,   \* the prefix of each key
          Blank,      \* the ids of which sanitizeDiscriminator leaves nothing
          Base,       \* config.userId
          None

ScopeAssumption ==
  /\ KeyAgent \in [Keys -> Agents] /\ Keys \cap Ids = {}
  /\ None \notin Keys \cup Agents \cup Ids \cup Senders

VARIABLES scope,  \* config.recallScope
          ctx,    \* what the host says of the turn
          used    \* the user id each way to the server has resolved, or None

scopeVars == <<scope, ctx, used>>

Ways == {"recall", "capture", "tools", "corpus"}

\* OpenClaw's session keys carry the agent they belong to.
Contexts ==
  {c \in [agent : Agents \cup {None}, key : Keys \cup {None}, id : Ids,
          sender : Senders \cup {None}] :
     c.agent # None /\ c.key # None => KeyAgent[c.key] = c.agent}

TypeOK ==
  /\ scope \in {"fixed", "agent", "session", "sender"} /\ ctx \in Contexts
  /\ used \in [Ways -> {None, Base} \cup ({Base} \X (Agents \cup Keys \cup Ids \cup Senders))]

Init ==
  /\ scope \in {"fixed", "agent", "session", "sender"} /\ ctx \in Contexts
  /\ used = [w \in Ways |-> None]

------------------------------------------------------------------------------
\* x ?? y
Else(x, y) == IF x # None THEN x ELSE y

\* resolveAgentId: the context's agent, else the prefix of the session key.
ResolveAgentId(who) ==
  IF who.agent # None THEN who.agent
  ELSE IF who.key \in Keys THEN KeyAgent[who.key] ELSE None

\* sanitizeDiscriminator: two ids may come out alike, or with nothing left.
Discriminates(x) == x # None /\ x \notin Blank

ResolveUserId(who) ==
  LET raw == CASE scope = "fixed" -> None
               [] scope = "agent" -> ResolveAgentId(who)
               [] scope = "session" -> Else(who.key, who.id)
               [] scope = "sender" -> who.sender
  IN IF Discriminates(raw) THEN <<Base, raw>> ELSE Base

RecallIdentity == ctx

CaptureIdentity_EventOnly == [ctx EXCEPT !.key = ctx.id]
\* llm_output, whose event has a session id of its own.
CaptureIdentity == [ctx EXCEPT !.key = Else(ctx.key, ctx.id)]

\* The factory of registerTool; its sender is the trusted requesterSenderId.
ToolIdentity == ctx

\* Both methods of the corpus supplement: they are given a session key and no more.
CorpusIdentity == [agent |-> None, key |-> ctx.key, id |-> None, sender |-> None]

Use(way, who) ==
  /\ used[way] = None
  /\ used' = [used EXCEPT ![way] = ResolveUserId(who)]
  /\ UNCHANGED <<scope, ctx>>

Next ==
  \/ Use("recall", RecallIdentity)
  \/ Use("capture", CaptureIdentity)
  \/ Use("tools", ToolIdentity)
  \/ Use("corpus", CorpusIdentity)

Spec == Init /\ [][Next]_scopeVars
------------------------------------------------------------------------------
\* "An agent can never write into a namespace it cannot read back from" (scope.ts
\* 79-81): both hooks and the tools of one turn resolve one id, under every scope
\* and whichever ids the host leaves out; the corpus, which is told less, falls
\* back to the shared one and never reaches another agent's, session's or sender's.
MemoriesAreOwn ==
  /\ \A v, w \in {"recall", "capture", "tools"} :
       used[v] # None /\ used[w] # None => used[v] = used[w]
  /\ used["corpus"] \in {None, Base, ResolveUserId(ctx)}
==============================================================================
