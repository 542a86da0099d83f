---------------------------- MODULE ClaudeRecall ----------------------------
(***************************************************************************)
(* The recall half of CortadelMemory for the Claude Agent SDK              *)
(* (integrations/claude-agent-sdk/src/memory.ts): a hook searches when a   *)
(* prompt is submitted, and injects the hits its session has not seen.     *)
(* The hooks of several sessions run interleaved, and those of one session *)
(* overlap when the CLI goes on without one that is late, or when queries  *)
(* without a session id share the empty one.                               *)
(***************************************************************************)
EXTENDS Naturals, FiniteSets, Lru

CONSTANTS Sessions, Hits,
          Answers,      \* what a search may answer, hits in order
          Calls,        \* recalls in flight at once
          MaxLog,       \* bound on the injections of all sessions
          MaxSessions,  \* MAX_TRACKED_SESSIONS
          MaxSeen,      \* MAX_SEEN_PER_SESSION
          None

RecallAssumption ==
  /\ MaxSessions \in Nat \ {0} /\ MaxSeen \in Nat \ {0} /\ None \notin Sessions
  /\ \A hits \in Answers : IsOrder(hits, Hits, Len(hits))

VARIABLES
  calls,      \* the session each search in flight is for, or None
  seenOrder,  \* the keys of the seen table, in insertion order
  seen,       \* its values: hits, oldest first
  log         \* history: the injections, in order

recallVars == <<calls, seenOrder, seen, log>>

TypeOK ==
  /\ calls \in [Calls -> Sessions \cup {None}]
  /\ IsOrder(seenOrder, Sessions, MaxSessions)
  /\ \A s \in Sessions : IsOrder(seen[s], Hits, MaxSeen)
  /\ \A s \in Sessions : seen[s] # <<>> <=> s \in Range(seenOrder)
  /\ log \in Seq(Sessions \X Hits)

Init ==
  /\ calls = [c \in Calls |-> None]
  /\ seenOrder = <<>> /\ seen = [s \in Sessions |-> <<>>]
  /\ log = <<>>

------------------------------------------------------------------------------
\* onUserPromptSubmit up to its search, for a prompt that is worth one.  (What it
\* keeps of the prompt for the Stop hook is in ClaudeCapture.)
OnUserPromptSubmit(c, s) ==
  /\ calls[c] = None
  /\ calls' = [calls EXCEPT ![c] = s]
  /\ UNCHANGED <<seenOrder, seen, log>>

\* What the test of alreadyInjected may leave of an answer.
Unseen(s) == {hits \in Answers : Range(hits) \cap Range(seen[s]) = {}}

\* formatHits: a prefix, as far as the character budget goes.
Formatted(hits, n) == SubSeq(hits, 1, n)

MarkInjected_AllUnseen(s, unseen, injected) ==
  /\ seenOrder' = Newest(Touch(seenOrder, s), MaxSessions)
  /\ seen' = [x \in Sessions |->
                IF x \in Oldest(Touch(seenOrder, s), MaxSessions) THEN <<>>
                ELSE IF x = s THEN Newest(seen[s] \o unseen, MaxSeen) ELSE seen[x]]

MarkInjected_NoRefresh(s, unseen, injected) ==
  LET order == IF s \in Range(seenOrder) THEN seenOrder ELSE Append(seenOrder, s)
      gone == Oldest(order, MaxSessions)
  IN /\ seenOrder' = Newest(order, MaxSessions)
     /\ seen' = [x \in Sessions |-> IF x \in gone THEN <<>>
                   ELSE IF x = s THEN Newest(seen[s] \o injected, MaxSeen)
                   ELSE seen[x]]

\* markInjected: what was shown, and only that; both tables are bounded.
MarkInjected(s, unseen, injected) ==
  LET order == Touch(seenOrder, s)
      gone == Oldest(order, MaxSessions)
  IN /\ seenOrder' = Newest(order, MaxSessions)
     /\ seen' = [x \in Sessions |-> IF x \in gone THEN <<>>
                   ELSE IF x = s THEN Newest(seen[s] \o injected, MaxSeen)
                   ELSE seen[x]]

\* The search is back: what the session has not seen is injected and marked.
SearchReturns(c, unseen, n) ==
  LET s == calls[c]
      injected == Formatted(unseen, n)
  IN /\ s # None /\ unseen \in Unseen(s)
     /\ Len(log) + n <= MaxLog
     /\ calls' = [calls EXCEPT ![c] = None]
     /\ IF n = 0 THEN UNCHANGED <<seenOrder, seen, log>>
        ELSE /\ MarkInjected(s, unseen, injected)
             /\ log' = log \o [i \in 1..n |-> <<s, injected[i]>>]

SearchFails(c) ==
  /\ calls[c] # None
  /\ calls' = [calls EXCEPT ![c] = None]
  /\ UNCHANGED <<seenOrder, seen, log>>

Next ==
  \E c \in Calls :
    \/ \E s \in Sessions : OnUserPromptSubmit(c, s)
    \/ \E unseen \in Answers : \E n \in 0..Len(unseen) : SearchReturns(c, unseen, n)
    \/ SearchFails(c)

Spec == Init /\ [][Next]_recallVars
------------------------------------------------------------------------------
\* A memory is shown again to a session only when a bound has pushed it out:
\* MaxSeen others were shown to it since, or MaxSessions sessions were between
\* two of its injections - however the recalls overlap.
ShownOnce ==
  \A i, j \in 1..Len(log) :
    i < j /\ log[i] = log[j] =>
      LET s == log[i][1]
          between(a, b) == (a + 1)..(b - 1)
          others == {log[m][2] : m \in {k \in between(i, j) : log[k][1] = s}}
      IN \/ Cardinality(others) >= MaxSeen
         \/ \E a, b \in i..j :
              /\ \A m \in between(a, b) : log[m][1] # s
              /\ Cardinality({log[m][1] : m \in between(a, b)}) >= MaxSessions

\* The comment of formatHits (format.ts 43-50): a memory the character budget
\* dropped is not kept from the session without ever having been shown.
HiddenOnlyIfShown ==
  \A s \in Sessions : \A h \in Range(seen[s]) : <<s, h>> \in Range(log)
=============================================================================
