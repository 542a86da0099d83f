------------------------------ MODULE CrewRecall ------------------------------
(***************************************************************************)
(* recall of CortadelMemory for CrewAI (cortadel_crewai/memory.py), which  *)
(* the agents and tasks of a crew call from threads of their own: the hits *)
(* whose ids are not among the last dedupe_window that any of them got.    *)
(***************************************************************************)
EXTENDS Naturals, FiniteSets, Lru

CONSTANTS Hits,
          Answers,    \* what a search may answer, hits in order
          Threads,
          MaxWindow,  \* bound on dedupe_window
          MaxLog      \* bound on the matches of all recalls

RecallAssumption ==
  MaxWindow \in Nat /\ \A hits \in Answers : IsOrder(hits, Hits, Len(hits))

VARIABLES
  dedupeWindow,
  thread,     \* per thread: where its recall stands, and its matches
  recentIds,  \* _recent_ids: a ring, oldest first, in which races repeat an id
  raced,      \* history: threads beside which others put ids into the ring
  returned    \* history: the matches, in order, and whether in a race

crewVars == <<dedupeWindow, thread, recentIds, raced, returned>>

Idle == [at |-> "idle", matches |-> <<>>]
Match == [hit : Hits, raced : BOOLEAN]

TypeOK ==
  /\ dedupeWindow \in 0..MaxWindow
  /\ \A t \in Threads : /\ thread[t].at \in {"idle", "search", "matched"}
                        /\ thread[t].matches \in Seq(Hits)
  /\ recentIds \in Seq(Hits) /\ Len(recentIds) <= dedupeWindow
  /\ raced \subseteq {t \in Threads : thread[t].at = "matched"}
  /\ returned \in Seq(Match)

Init ==
  /\ dedupeWindow \in 0..MaxWindow
  /\ thread = [t \in Threads |-> Idle]
  /\ recentIds = <<>> /\ raced = {} /\ returned = <<>>

------------------------------------------------------------------------------
\* recall up to its search, for a query with text.
Recall(t) ==
  /\ thread[t].at = "idle"
  /\ thread' = [thread EXCEPT ![t].at = "search"]
  /\ UNCHANGED <<dedupeWindow, recentIds, raced, returned>>

\* guard: the caller gets no hits, or an exception with raise_on_error.
SearchFails(t) ==
  /\ thread[t].at = "search"
  /\ thread' = [thread EXCEPT ![t] = Idle]
  /\ UNCHANGED <<dedupeWindow, recentIds, raced, returned>>

\* Without a window every hit of an answer, with one those that are not in it.
Matches(t, matches) ==
  /\ thread[t].at = "search"
  /\ dedupeWindow = 0 \/ Range(matches) \cap Range(recentIds) = {}
  /\ thread' = [thread EXCEPT ![t] = [at |-> "matched", matches |-> matches]]
  /\ UNCHANGED <<dedupeWindow, recentIds, raced, returned>>

Ring_Left(ids, matches) == Newest(matches \o ids, dedupeWindow)

\* append, and the maxlen of the deque, which drops at the other end.
Ring(ids, matches) == Newest(ids \o matches, dedupeWindow)

RememberReturned(t) ==
  LET matches == thread[t].matches
  IN /\ thread[t].at = "matched"
     /\ Len(returned) + Len(matches) <= MaxLog
     /\ recentIds' = Ring(recentIds, matches)
     /\ returned' = returned \o [i \in 1..Len(matches) |->
                                   [hit |-> matches[i], raced |-> t \in raced]]
     /\ raced' = (raced \cup {o \in Threads : matches # <<>> /\ thread[o].at = "matched"}) \ {t}
     /\ thread' = [thread EXCEPT ![t] = Idle]
     /\ UNCHANGED dedupeWindow

Next ==
  \E t \in Threads :
    \/ Recall(t)
    \/ SearchFails(t)
    \/ \E matches \in Answers : Matches(t, matches)
    \/ RememberReturned(t)

Spec == Init /\ [][Next]_crewVars
------------------------------------------------------------------------------
\* The window suppresses "the last N memory ids already returned": a memory comes
\* back only after that many others, unless this recall looked into the ring
\* before what another got was in it.
ShownOnce ==
  \A i, j \in 1..Len(returned) :
    i < j /\ returned[i].hit = returned[j].hit /\ ~returned[j].raced => j - i > dedupeWindow

\* It suppresses nothing else.
HiddenOnlyIfShown == Range(recentIds) \subseteq {returned[i].hit : i \in 1..Len(returned)}
==============================================================================
