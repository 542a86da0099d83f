-------------------------- MODULE LangGraphQueries --------------------------
(***************************************************************************)
(* The two queries of CortadelStore that compute their answer              *)
(* (integrations/langgraph/src/store.ts): a page of a search, cut from     *)
(* what the server returns, and a page of the namespaces seen so far.      *)
(*                                                                         *)
(* A row is the set of the filter keys it satisfies.  A namespace is a     *)
(* sequence of labels; labels are numbers, so that they have an order.     *)
(***************************************************************************)
EXTENDS Integers, FiniteSets, FiniteSetsExt, Sequences

CONSTANTS MaxTopK,      \* the server's cap on a search
          MaxListSize,  \* and on a listing
          MaxRows,      \* bound: rows the server has
          MaxLabel,     \* bound: labels are 1..MaxLabel
          MaxLimit,     \* bound on limit
          MaxOffset     \* bound on offset

QueriesAssumption ==
  /\ MaxTopK \in Nat \ {0} /\ MaxListSize \in Nat \ {0}
  /\ MaxRows \in Nat /\ MaxLabel \in Nat /\ MaxLimit \in Nat /\ MaxOffset \in Nat

\* memoryType is evaluated by the server, sessionId by its search only.  Hits
\* and listed rows both carry the keys "both" stands for (categories, say), and
\* only hits those "hit" stands for (tags).
FilterKeys == {"memoryType", "sessionId", "both", "hit", "unknown"}
ServerKeys(query) == IF query THEN {"memoryType", "sessionId"} ELSE {"memoryType"}

\* hitToSearchItem and rowToSearchItem: the keys their items carry.
Carried(query) == IF query THEN {"both", "hit"} ELSE {"both"}

Limits == 1..MaxLimit
Offsets == 0..MaxOffset
Paths == {<<a>> : a \in 1..MaxLabel} \cup {<<a, b>> : a, b \in 1..MaxLabel}
\* Bounds: a row fails at most one key, a filter names at most two.
Rows == {r \in SUBSET (FilterKeys \ {"unknown"}) : Cardinality(r) >= 3}
Filters == {f \in SUBSET FilterKeys : Cardinality(f) <= 2}
Star == 0
Patterns == {<<a>> : a \in 0..MaxLabel} \cup {<<a, b>> : a, b \in 0..MaxLabel}

VARIABLES
  rows,    \* what the server holds, best first
  names,   \* the registry of namespaces
  ask,     \* the query last asked
  answer   \* its answer: indexes into rows, or paths

queryVars == <<rows, names, ask, answer>>

NoQuery == [kind |-> "none"]
Init ==
  /\ rows \in UNION {[1..n -> Rows] : n \in 0..MaxRows}
  /\ names \in {S \in SUBSET Paths : Cardinality(S) <= 3}
  /\ rows = <<>> \/ names = {}
  /\ ask = NoQuery
  /\ answer = <<>>

------------------------------------------------------------------------------
\* The members of S in the order R puts them (Array.sort).
InOrder(S, R) ==
  CHOOSE s \in [1..Cardinality(S) -> S] :
    \A i, j \in 1..Cardinality(S) : i < j => <<s[i], s[j]>> \in R

\* A set of indexes, in order; and what a sequence holds of S (Array.filter).
Ascending(I) == InOrder(I, {p \in I \X I : p[1] < p[2]})
Kept(s, S) ==
  LET at == Ascending({i \in 1..Len(s) : s[i] \in S})
  IN [n \in 1..Len(at) |-> s[at[n]]]

\* splitFilter: the keys the server is given, and the keys evaluated here.  A
\* key that neither can evaluate is warned about and left out.
Pushed(filter) == filter \cap {"memoryType", "sessionId"}
PostFilter(filter) == filter \cap {"both", "hit"}

Wanted_LimitOnly(limit, offset) == Max({1, limit})
Wanted(limit, offset) == Max({1, limit + offset})

\* searchOptions, listOptions: one request has to cover offset and limit.
RowsAsked(query, limit, offset) ==
  Min({IF query THEN MaxTopK ELSE MaxListSize, Wanted(limit, offset)})

\* The server: the first n of its rows that satisfy the keys it understands.
ServerRows(query, filter, n) ==
  LET ok == Ascending({i \in 1..Len(rows) : Pushed(filter) \cap ServerKeys(query) \subseteq rows[i]})
  IN SubSeq(ok, 1, Min({n, Len(ok)}))

\* matches: whether an item passes a key; one it does not carry, it fails.
Passes(i, key, query) == key \in Carried(query) /\ key \in rows[i]

ApplyFilter(items, filter, query) ==
  Kept(items, {i \in 1..Len(rows) : \A key \in PostFilter(filter) : Passes(i, key, query)})

Slice(s, offset, limit) == SubSeq(s, offset + 1, Min({offset + limit, Len(s)}))

SearchOp_SliceFirst(query, filter, limit, offset, reached) ==
  /\ ask' = [kind |-> "search", query |-> query, filter |-> filter, limit |-> limit, offset |-> offset,
             reached |-> reached]
  /\ answer' = IF ~reached THEN <<>>
               ELSE ApplyFilter(Slice(ServerRows(query, filter, RowsAsked(query, limit, offset)),
                                      offset, limit), filter, query)
  /\ UNCHANGED <<rows, names>>

\* Without a client, or when the request throws and the store does not, nothing.
SearchOp(query, filter, limit, offset, reached) ==
  /\ ask' = [kind |-> "search", query |-> query, filter |-> filter, limit |-> limit, offset |-> offset,
             reached |-> reached]
  /\ answer' = IF ~reached THEN <<>>
               ELSE Slice(ApplyFilter(ServerRows(query, filter, RowsAsked(query, limit, offset)),
                                      filter, query), offset, limit)
  /\ UNCHANGED <<rows, names>>

\* doesMatch: a path with wildcards, from the start or from the end.
Matches(path, matchType, ns) ==
  LET shift == IF matchType = "prefix" THEN 0 ELSE Len(ns) - Len(path) IN
  /\ Len(ns) >= Len(path)
  /\ \A i \in 1..Len(path) : path[i] = Star \/ ns[shift + i] = path[i]

\* compareNamespaces: label by label, and a path before its extensions.
Before(a, b) ==
  \/ \E i \in 1..Min({Len(a), Len(b)}) :
       a[i] < b[i] /\ \A j \in 1..(i - 1) : a[j] = b[j]
  \/ Len(a) < Len(b) /\ \A j \in 1..Len(a) : a[j] = b[j]

\* maxDepth; 0 stands for "not given".
Cut(ns, depth) == IF depth = 0 THEN ns ELSE SubSeq(ns, 1, Min({depth, Len(ns)}))

SortedPaths(S) == InOrder(S, {p \in S \X S : Before(p[1], p[2])})

ListNamespacesOp_SliceFirst(pattern, matchType, depth, limit, offset) ==
  /\ ask' = [kind |-> "list", pattern |-> pattern, matchType |-> matchType,
             depth |-> depth, limit |-> limit, offset |-> offset]
  /\ answer' = LET page == Slice(SortedPaths({n \in names : Matches(pattern, matchType, n)}), offset, limit)
               IN [i \in 1..Len(page) |-> Cut(page[i], depth)]
  /\ UNCHANGED <<rows, names>>

ListNamespacesOp(pattern, matchType, depth, limit, offset) ==
  /\ ask' = [kind |-> "list", pattern |-> pattern, matchType |-> matchType,
             depth |-> depth, limit |-> limit, offset |-> offset]
  /\ answer' = Slice(SortedPaths({Cut(n, depth) : n \in {m \in names : Matches(pattern, matchType, m)}}),
                     offset, limit)
  /\ UNCHANGED <<rows, names>>

Next ==
  /\ ask = NoQuery
  /\ \E limit \in Limits, offset \in Offsets :
       \/ rows # <<>> /\ \E query \in BOOLEAN, filter \in Filters, reached \in BOOLEAN :
                           SearchOp(query, filter, limit, offset, reached)
       \/ names # {} /\ \E pattern \in Patterns, matchType \in {"prefix", "suffix"}, depth \in 0..1 :
                           ListNamespacesOp(pattern, matchType, depth, limit, offset)

Spec == Init /\ [][Next]_queryVars
------------------------------------------------------------------------------
\* The rows the caller of a search is after, and how many of them come before i.
Passing == {i \in 1..Len(rows) : ask.filter \cap (ServerKeys(ask.query) \cup Carried(ask.query)) \subseteq rows[i]}
Place(i) == Cardinality({j \in Passing : j < i})

\* What a caller who pages through a search relies on: filtering here what was
\* fetched for one page only may leave a page short, but every row on it is
\* the one that belongs at its position among all the rows that pass.
PageIsExact ==
  ask.kind = "search" =>
    /\ Len(answer) <= ask.limit
    /\ \A n \in 1..Len(answer) : answer[n] \in Passing /\ Place(answer[n]) = ask.offset + n - 1

\* Where the server evaluates all of the filter and its cap covers the page, a
\* page that is short ends the search: no row that passes is left.
ShortPageIsLast ==
  ask.kind = "search" /\ ask.reached /\ PostFilter(ask.filter) = {}
  /\ ask.offset + ask.limit <= (IF ask.query THEN MaxTopK ELSE MaxListSize)
  /\ Len(answer) < ask.limit
    => ask.offset + Len(answer) >= Cardinality(Passing)

\* Paging through the namespaces visits each one that has a match, cut to the
\* depth, exactly once: its place in the order decides on which page it is.
NamespacePageIsExact ==
  ask.kind = "list" =>
    LET all == {Cut(n, ask.depth) : n \in {m \in names : Matches(ask.pattern, ask.matchType, m)}}
        place(n) == Cardinality({m \in all : Before(m, n)})
    IN /\ {answer[i] : i \in 1..Len(answer)} = {n \in all : place(n) \in ask.offset..(ask.offset + ask.limit - 1)}
       /\ \A i, j \in 1..Len(answer) : i < j => Before(answer[i], answer[j])
==============================================================================
