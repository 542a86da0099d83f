-------------------------------- MODULE N8nNode --------------------------------
(***************************************************************************)
(* The action node of the n8n package                                      *)
(* (integrations/n8n-nodes-cortadel/nodes/Cortadel/Cortadel.node.ts): one  *)
(* run handles its input items in turn, each by one request or by a walk   *)
(* over every page of the list, while others add and delete memories.  The *)
(* list is newest first, so both shift the pages still to come.            *)
(***************************************************************************)
EXTENDS FiniteSets, Lru

CONSTANTS PageSize,    \* size of a page of collectAllListPages (100)
          MaxRows,     \* bound on the memories ever stored
          MaxChanges,  \* bound on what others do during a run
          MaxPages     \* the guard of collectAllListPages (1000)

NodeAssumption == PageSize \in Nat \ {0} /\ MaxPages \in Nat \ {0} /\ MaxRows \in Nat

VARIABLES
  continues,  \* continueOnFail()
  items,      \* the operations of the items: "one" request, "list", or "invalid"
  rows,       \* the server's memories, newest first; later ones have larger numbers
  handled,    \* how many items are handled
  page,       \* the page the walk asks for next, or 0 when none is walked
  collected,  \* the rows of the pages before it
  before,     \* history: the rows when the walk began
  gone,       \* history: the rows deleted since
  stored,     \* how many memories were ever stored
  output,     \* returnData: its entries with the item each is paired with
  stopped     \* the run threw

nodeVars == <<continues, items, rows, handled, page, collected, before, gone, stored,
              output, stopped>>

TypeOK ==
  /\ handled \in 0..Len(items) /\ page \in 0..MaxPages /\ IsInjective(rows)
  /\ Range(rows) \subseteq 1..stored /\ stored <= MaxRows
  /\ collected \in Seq(1..stored) /\ stopped \in BOOLEAN

Init ==
  /\ continues \in BOOLEAN
  /\ items \in {<<o, p>> : o, p \in {"one", "list", "invalid"}}
  /\ rows \in {[i \in 1..n |-> n + 1 - i] : n \in 0..(MaxRows - 1)}
  /\ handled = 0 /\ page = 0 /\ collected = <<>> /\ before = {} /\ gone = {}
  /\ stored = Len(rows) /\ output = <<>> /\ stopped = FALSE

------------------------------------------------------------------------------
Busy == ~stopped /\ handled < Len(items)
Operation == items[handled + 1]

Entry(kind, of) == [item |-> handled + 1, kind |-> kind, rows |-> of]

\* The catch of execute: the item is answered with its error, or the run ends.
ItemFails ==
  /\ page' = 0 /\ collected' = <<>>
  /\ IF continues
     THEN /\ output' = Append(output, Entry("error", <<>>)) /\ handled' = handled + 1
          /\ UNCHANGED stopped
     ELSE stopped' = TRUE /\ UNCHANGED <<output, handled>>
  /\ UNCHANGED <<continues, items, rows, before, gone, stored>>

ItemEnds(kind, of) ==
  /\ output' = Append(output, Entry(kind, of)) /\ handled' = handled + 1
  /\ page' = 0 /\ collected' = <<>>
  /\ UNCHANGED <<continues, items, rows, before, gone, stored, stopped>>

\* A blank user id, an unknown operation, parameters a handler refuses.
Refuse == Busy /\ Operation = "invalid" /\ ItemFails

\* The handlers that make one request: its result, or a failure of cortadelRequest.
Request == Busy /\ Operation = "one" /\ (ItemEnds("result", <<>>) \/ ItemFails)

\* collectAllListPages begins at page 1.
StartWalk ==
  /\ Busy /\ Operation = "list" /\ page = 0
  /\ page' = 1 /\ before' = Range(rows) /\ gone' = {}
  /\ UNCHANGED <<continues, items, rows, handled, collected, stored, output, stopped>>

PageRows(n) == LET from == (n - 1) * PageSize
               IN SubSeq(rows, from + 1, IF from + PageSize < Len(rows) THEN from + PageSize
                                         ELSE Len(rows))

TotalPages == (Len(rows) + PageSize - 1) \div PageSize

LastPage_Early(n) == PageRows(n) = <<>> \/ n + 1 >= TotalPages
\* The break, and the guard "against a server that reports pages inconsistently":
\* it ends a walk over a list that is longer, without an error.
LastPage(n) == PageRows(n) = <<>> \/ n >= TotalPages \/ n = MaxPages

\* One page comes back, and the walk goes on or ends.
WalkPage ==
  /\ page > 0
  /\ LET all == collected \o PageRows(page)
     IN IF LastPage(page) THEN ItemEnds("rows", all)
        ELSE /\ collected' = all /\ page' = page + 1
             /\ UNCHANGED <<continues, items, rows, handled, before, gone, stored, output,
                            stopped>>

\* A failed page: what was collected is dropped with its item.
WalkFails == page > 0 /\ ItemFails

\* Others store and delete; only what happens during a walk is of interest.
OthersAdd ==
  /\ page > 0 /\ Cardinality(gone) + Cardinality(Range(rows) \ before) < MaxChanges
  /\ stored < MaxRows /\ stored' = stored + 1
  /\ rows' = <<stored'>> \o rows
  /\ UNCHANGED <<continues, items, handled, page, collected, before, gone, output, stopped>>

OthersDelete(m) ==
  /\ page > 0 /\ Cardinality(gone) + Cardinality(Range(rows) \ before) < MaxChanges
  /\ m \in Range(rows)
  /\ rows' = Without(rows, m) /\ gone' = gone \cup {m}
  /\ UNCHANGED <<continues, items, handled, page, collected, before, stored, output,
                 stopped>>

Next ==
  \/ Refuse \/ Request \/ StartWalk \/ WalkPage \/ WalkFails \/ OthersAdd
  \/ \E m \in Range(rows) : OthersDelete(m)

Spec == Init /\ [][Next]_nodeVars
------------------------------------------------------------------------------
\* "Walks every page of the list route" (240), up to the guard's last page: while a
\* list is walked, and when it has been, what is collected and what is still to be
\* asked for, or lies behind page MaxPages, hold every memory that was there from
\* the beginning, as long as nothing was deleted meanwhile, and none twice, as long
\* as nothing was added.
WalkMissesNothing ==
  LET walked == page = 0 /\ ~stopped /\ output # <<>> /\ output[Len(output)].kind = "rows"
      got == IF walked THEN output[Len(output)].rows ELSE collected
      past == (IF walked THEN MaxPages ELSE page - 1) * PageSize
      ahead == SubSeq(rows, past + 1, Len(rows))
  IN page > 0 \/ walked =>
       /\ gone = {} => before \subseteq Range(got) \cup Range(ahead)
       /\ Range(rows) \cup gone \subseteq before => IsInjective(got \o ahead)
==============================================================================
