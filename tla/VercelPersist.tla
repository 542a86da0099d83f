---------------------------- MODULE VercelPersist ---------------------------
(***************************************************************************)
(* The persistence half of the Vercel AI SDK middleware                    *)
(* (integrations/vercel-ai-sdk/src/middleware.ts): wrapGenerate and        *)
(* wrapStream hand a finished turn over, once, also when calls that answer *)
(* the same turn run at the same time.                                     *)
(***************************************************************************)
EXTENDS Naturals, FiniteSets, Lru

CONSTANTS Exchanges,  \* the texts of a turn, with its user
          DedupeSize, \* PERSIST_DEDUPE_SIZE
          MaxWrites   \* bound on the writes of one exchange

PersistAssumption == DedupeSize \in Nat \ {0}

VARIABLES
  claims,       \* persistedTurns, oldest first
  air,          \* per exchange: its writes in flight
  landed,       \* history, per exchange: the writes that landed
  lost,         \* history, per exchange: those of them whose answer was lost
  pushedOut     \* history: the exchanges the bound of persistedTurns dropped

vercelPersistVars == <<claims, air, landed, lost, pushedOut>>

TypeOK ==
  /\ IsOrder(claims, Exchanges, DedupeSize)
  /\ air \in [Exchanges -> Nat] /\ landed \in [Exchanges -> Nat] /\ lost \in [Exchanges -> Nat]
  /\ pushedOut \subseteq Exchanges

Init ==
  /\ claims = <<>> /\ pushedOut = {}
  /\ air = [x \in Exchanges |-> 0] /\ landed = air /\ lost = air

------------------------------------------------------------------------------
Claim_Never(x) == UNCHANGED <<claims, pushedOut>>

\* persist: the exchange is claimed, and the oldest claim makes room.
Claim(x) ==
  LET all == Touch(claims, x)
  IN /\ claims' = Newest(all, DedupeSize)
     /\ pushedOut' = pushedOut \cup Oldest(all, DedupeSize)

\* persistTurn, at a finish that is no tool call: an exchange with two halves
\* that is not claimed yet is claimed and then written.  Nothing else depends on
\* whether the call awaits it (settlePersist).
PersistTurn(x) ==
  /\ x \notin Range(claims) /\ air[x] + landed[x] < MaxWrites
  /\ Claim(x)
  /\ air' = [air EXCEPT ![x] = @ + 1]
  /\ UNCHANGED <<landed, lost>>

WriteSettles(x) ==
  /\ air[x] > 0
  /\ air' = [air EXCEPT ![x] = @ - 1]
  /\ UNCHANGED pushedOut

WriteLands(x) ==
  /\ WriteSettles(x)
  /\ landed' = [landed EXCEPT ![x] = @ + 1]
  /\ UNCHANGED <<claims, lost>>

Unclaim_Never(x) == claims
\* The catch of persist: a write that failed may be tried again.
Unclaim(x) == Without(claims, x)

\* The server may have stored the write whose answer was lost.
LosesAnswer(x) ==
  /\ landed' = [landed EXCEPT ![x] = @ + 1]
  /\ lost' = [lost EXCEPT ![x] = @ + 1]

WriteFails(x) ==
  /\ WriteSettles(x)
  /\ claims' = Unclaim(x)
  /\ LosesAnswer(x) \/ UNCHANGED <<landed, lost>>

Next == \E x \in Exchanges : PersistTurn(x) \/ WriteLands(x) \/ WriteFails(x)

Spec == Init /\ [][Next]_vercelPersistVars
------------------------------------------------------------------------------
\* The dedupe of persist keeps calls that end together, and retries, from writing
\* an exchange again: one that the bound of persistedTurns never dropped is in
\* flight or has landed once, and once more only for each answer that was lost.
WrittenOnce == \A x \in Exchanges \ pushedOut : air[x] + landed[x] <= 1 + lost[x]

\* A failed write is not "permanently suppressed by the dedupe set": an exchange
\* that is refused because it was claimed is being written or has landed.
NothingSwallowed == \A x \in Range(claims) : air[x] + landed[x] > 0
==============================================================================
