------------------------------ MODULE RunIdentity ------------------------------
(***************************************************************************)
(* Whose memories a run of an agent reads and writes, in the integrations  *)
(* that serve several users with one object: a CortadelClient is bound to  *)
(* one user, so each finds the user of a run among what the host says of   *)
(* it and what it was configured with, and keeps a client per user.        *)
(***************************************************************************)
EXTENDS Naturals, FiniteSets, Lru

CONSTANTS Users,
          Limit,  \* clientCacheSize, MAX_CACHED_CLIENTS
          Blank,  \* the empty string, where a host leaves one
          None

IdentityAssumption ==
  IsFiniteSet(Users) /\ Limit \in Nat \ {0} /\ {None, Blank} \cap Users = {} /\ None # Blank

VARIABLES
  host,     \* the integration
  config,   \* client: the user of a client the caller owns; resolver: what
            \* resolveUserId answers; userId: the option, or its variable
  run,      \* what the host says: two sources, the owner of an older message, and
            \* the resource its agent runs for
  clients,  \* the users clients are kept for, oldest first
  used      \* per way to the server: the user its client was for, or None

identityVars == <<host, config, run, clients, used>>

Hosts == {"vercel", "deepagents", "mastra", "langgraph"}
Ways == {"recall", "persist", "tools"}
Maybe == Users \cup {None}
Given == Maybe \cup {Blank}

\* What each host has: only mastra has agents with a resource (its second source is the
\* newest message with an owner), looks through messages and takes a resolver,
\* only vercel and deepagents take a client, and vercel has one source, and needs
\* a user id when it has no client (ClientResolver's constructor).
Runs(h) == {r \in [first : Given, second : Given, older : Maybe, agent : Given] :
              /\ h = "vercel" => r.second = None
              /\ h # "mastra" => r.older = None /\ r.agent = None}
Configs(h) == {c \in [client : Maybe, resolver : Maybe, userId : Maybe] :
                 /\ h \notin {"vercel", "deepagents"} => c.client = None
                 /\ h # "mastra" => c.resolver = None
                 /\ h = "vercel" => c.client # None \/ c.userId # None}

TypeOK ==
  /\ host \in Hosts /\ config \in Configs(host) /\ run \in Runs(host)
  /\ IsOrder(clients, Users, Cardinality(Users)) /\ used \in [Ways -> Maybe]
  /\ host \in {"vercel", "mastra"} => Len(clients) <= Limit

Idle == [w \in Ways |-> None]

Init ==
  /\ host \in Hosts /\ config \in Configs(host) /\ run \in Runs(host)
  /\ clients = <<>> /\ used = Idle

\* A run of which the host says nothing, as between two others.
Quiet == [first |-> None, second |-> None, older |-> None, agent |-> None]

RunEnds ==
  /\ run' = Quiet /\ used' = Idle
  /\ UNCHANGED <<host, config, clients>>

NextRun(r) ==
  /\ run = Quiet /\ run' = r /\ used' = Idle
  /\ UNCHANGED <<host, config, clients>>

------------------------------------------------------------------------------
Else(x, y) == IF x # None THEN x ELSE y
NonBlank(x) == IF x = Blank THEN None ELSE x

\* readRequestOptions takes any string, so a blank id does not fall through to the
\* default: no client can be made for it, and the failure is reported.
VercelUser(way) ==
  IF config.client # None THEN config.client
  ELSE NonBlank(Else(IF way = "tools" THEN None ELSE run.first, config.userId))

\* resolveUserId: context, then configurable, which toRunScope finds where the
\* hook or the tool of the run has it.
DeepAgentsRunUser == Else(NonBlank(run.first), NonBlank(run.second))

\* forRun: a client the caller owns cannot be bound to the user of the run.
DeepAgentsUser ==
  IF config.client # None THEN config.client ELSE Else(DeepAgentsRunUser, config.userId)

ScopeFromMessages_Oldest == Else(run.older, NonBlank(run.second))
\* The newest message that has an owner.
ScopeFromMessages == Else(NonBlank(run.second), run.older)

\* #scope of the processor: the request context first.
MastraScope == Else(NonBlank(run.first), ScopeFromMessages)

\* scopeFromToolContext: the agent's resource first, also a blank one.
MastraToolScope == Else(run.agent, NonBlank(run.first))

\* resolveUserId of mastra; who calls it takes a blank id for none.
MastraUser(resource) == NonBlank(Else(config.resolver, Else(config.userId, resource)))

\* resolveNamespace fills the placeholder of the namespace, or throws.
LangGraphLabel == Else(NonBlank(run.first), NonBlank(run.second))

\* The store's user: the one it has whatever the namespace, else the last label.
LangGraphUser == IF LangGraphLabel = None THEN None ELSE Else(config.userId, LangGraphLabel)

UserOf(way) == CASE host = "vercel" -> VercelUser(way)
                 [] host = "deepagents" -> DeepAgentsUser
                 [] host = "mastra" -> MastraUser(IF way = "tools" THEN MastraToolScope
                                                  ELSE MastraScope)
                 [] host = "langgraph" -> LangGraphUser

\* ClientResolver.resolve drops the oldest client over its limit, CortadelClientPool
\* the least recently used; the other two keep every client.
Keep(u) ==
  LET added == IF u \in Range(clients) THEN clients ELSE Append(clients, u)
  IN CASE config.client # None -> clients
       [] config.client = None /\ host = "mastra" -> Newest(Touch(clients, u), Limit)
       [] config.client = None /\ host = "vercel" -> Newest(added, Limit)
       [] OTHER -> added

\* Recall, persist or a tool of the run asks for its client; without a user the
\* run goes on without memory.
Use(way) ==
  LET u == UserOf(way) IN
  /\ used[way] = None /\ u # None
  /\ used' = [used EXCEPT ![way] = u]
  /\ clients' = Keep(u)
  /\ UNCHANGED <<host, config, run>>

Next == (\E way \in Ways : Use(way)) \/ RunEnds \/ (\E r \in Runs(host) : NextRun(r))

Spec == Init /\ [][Next]_identityVars
------------------------------------------------------------------------------
\* What a run writes is what its later recalls and its tools can find: all ways of
\* one run reach one user's memories, but for the tools of vercel, which are "bound
\* to one user id" (tools.ts:165), and those of mastra when the agent's resource is not
\* that of the request context, or without one of the newest message.  They are the
\* memories of a user the run or the configuration names, never of the one who had
\* the thread before; and those of the user the run names, unless the configuration
\* pins another.
MemoriesAreOwn ==
  LET heard == IF run.first \in Users THEN run.first ELSE run.second
      named(way) == ({run.first, run.second} \cup (IF way = "tools" THEN {run.agent} ELSE {}))
                    \cap Users
      pinned == {config.client, config.resolver} \cap Users
      apart(way) == way = "tools" /\ (host = "vercel" \/ run.agent \notin {None, heard})
  IN \A v \in Ways : used[v] # None =>
       /\ \A w \in Ways : used[w] # None /\ ~apart(v) /\ ~apart(w) => used[v] = used[w]
       /\ used[v] = run.older => used[v] \in pinned \cup {config.userId} \cup named(v)
                                  \/ named(v) = {}
       /\ named(v) # {} /\ pinned = {} /\ host \in {"vercel", "deepagents"} /\ v # "tools"
            => used[v] \in named(v)
===============================================================================
