----------------------------- MODULE MastraRecall -----------------------------
(***************************************************************************)
(* The recall half of CortadelMemoryProcessor for Mastra                   *)
(* (integrations/mastra/src/processor.ts), with dedupeAcrossTurns on: the  *)
(* model gets the hits its thread has not been shown, and a bounded table  *)
(* says which those are.  The other half is in MastraPersist.              *)
(***************************************************************************)
EXTENDS Naturals, FiniteSets, Lru

CONSTANTS Threads,     \* keys of #threadKey: a user and a thread, or none
          Hits,
          Answers,     \* what a search may answer, hits in order
          Runs,        \* runs of the agent that recall at once
          MaxThreads,  \* maxTrackedThreads
          MaxSeen,     \* maxTrackedPerThread
          MaxLog,      \* bound on the injections of all threads
          None

RecallAssumption ==
  /\ MaxThreads \in Nat \ {0} /\ MaxSeen \in Nat \ {0} /\ None \notin Threads
  /\ \A hits \in Answers : IsOrder(hits, Hits, Len(hits))

VARIABLES
  recalling,      \* per run: the thread its search is for, or None
  injectedOrder,  \* the keys of #injected, oldest first
  injected,       \* its values: hits, oldest first
  injections      \* history: what was injected, in order

mastraRecallVars == <<recalling, injectedOrder, injected, injections>>

TypeOK ==
  /\ recalling \in [Runs -> Threads \cup {None}]
  /\ IsOrder(injectedOrder, Threads, MaxThreads)
  /\ \A t \in Threads : /\ IsOrder(injected[t], Hits, MaxSeen)
                        /\ injected[t] # <<>> <=> t \in Range(injectedOrder)
  /\ injections \in Seq(Threads \X Hits)

Init ==
  /\ recalling = [r \in Runs |-> None]
  /\ injectedOrder = <<>> /\ injected = [t \in Threads |-> <<>>]
  /\ injections = <<>>

------------------------------------------------------------------------------
\* processInput up to its search: recall is on, the run has a user, and its last
\* user message is long enough.
ProcessInput(r, t) ==
  /\ recalling[r] = None
  /\ recalling' = [recalling EXCEPT ![r] = t]
  /\ UNCHANGED <<injectedOrder, injected, injections>>

\* What #filterAlreadyInjected may leave of an answer.
Fresh(t) == {hits \in Answers : Range(hits) \cap Range(injected[t]) = {}}

\* #remember with the set of the thread, whose oldest hits make room for fresh ones.
Remember(t, fresh) ==
  LET order == Touch(injectedOrder, t)
  IN /\ injectedOrder' = Newest(order, MaxThreads)
     /\ injected' = [x \in Threads |->
                       IF x \in Oldest(order, MaxThreads) THEN <<>>
                       ELSE IF x = t THEN Newest(injected[t] \o fresh, MaxSeen)
                       ELSE injected[x]]

\* The search is back: #filterAlreadyInjected, and the block of what is left.
SearchReturns(r, fresh) ==
  LET t == recalling[r]
  IN /\ t # None /\ fresh \in Fresh(t)
     /\ Len(injections) + Len(fresh) <= MaxLog
     /\ recalling' = [recalling EXCEPT ![r] = None]
     /\ IF fresh = <<>> THEN UNCHANGED <<injectedOrder, injected, injections>>
        ELSE /\ Remember(t, fresh)
             /\ injections' = injections \o [i \in 1..Len(fresh) |-> <<t, fresh[i]>>]

\* #report: the input goes on as it was, or the run fails with throwOnError.
SearchFails(r) ==
  /\ recalling[r] # None
  /\ recalling' = [recalling EXCEPT ![r] = None]
  /\ UNCHANGED <<injectedOrder, injected, injections>>

Next ==
  \E r \in Runs :
    \/ \E t \in Threads : ProcessInput(r, t)
    \/ \E fresh \in Answers : SearchReturns(r, fresh)
    \/ SearchFails(r)

Spec == Init /\ [][Next]_mastraRecallVars
------------------------------------------------------------------------------
\* A memory is injected into a thread again only when a bound has pushed it out:
\* the thread was given MaxSeen others since, or MaxThreads other
\* threads were between two of its injections - however the runs overlap.
ShownOnce ==
  \A i, j \in 1..Len(injections) :
    i < j /\ injections[i] = injections[j] =>
      LET t == injections[i][1]
          between(a, b) == (a + 1)..(b - 1)
          others == {injections[m][2] : m \in {k \in between(i, j) : injections[k][1] = t}}
      IN \/ Cardinality(others) >= MaxSeen
         \/ \E a, b \in i..j :
              /\ \A m \in between(a, b) : injections[m][1] # t
              /\ Cardinality({injections[m][1] : m \in between(a, b)}) >= MaxThreads

\* A hit is kept from a thread only after the thread was given it.
HiddenOnlyIfShown ==
  \A t \in Threads : \A h \in Range(injected[t]) : <<t, h>> \in Range(injections)
===============================================================================
