---------------------------- MODULE FrameworkRecall ---------------------------
(***************************************************************************)
(* Recall in the provider for the Microsoft Agent Framework                *)
(* (CortadelContextProvider.cs), with DeduplicateAcrossTurns on: the ids   *)
(* of the hits a session was given are kept in its state bag, which is     *)
(* stored with the session.  The oldest are forgotten when there are more  *)
(* than MaxRememberedIds, and a hit may have no id.  Nothing locks a       *)
(* session's list: an invocation reads it, adds to what it read and sets   *)
(* it, and another of the same session may do so in between.               *)
(***************************************************************************)
EXTENDS Naturals, FiniteSets, Lru

CONSTANTS Sessions,
          Hits,       \* hits with an id
          Anonymous,  \* a hit without one
          Answers,    \* what a search may answer, hits in order
          Recalls,    \* invocations that recall at once
          MaxIds,     \* bound on MaxRememberedIds
          MaxLog,     \* bound on the injections of all sessions
          None

AnyHit == Hits \cup {Anonymous}

RecallAssumption ==
  /\ MaxIds \in Nat /\ None \notin Sessions /\ Anonymous \notin Hits
  /\ \A hits \in Answers :
       /\ hits \in Seq(AnyHit)
       /\ \A i, j \in 1..Len(hits) : hits[i] = hits[j] => i = j \/ hits[i] = Anonymous

VARIABLES
  maxRememberedIds,
  recall,      \* per invocation: its session, the hits left of its search, and
               \* the ids in the bag when it read them to add to
  raced,       \* history: invocations beside which their session was given hits
  remembered,  \* per session: the ids in its state bag, oldest first
  injections   \* history: what was injected, in order, and in a race or not

frameworkRecallVars == <<maxRememberedIds, recall, raced, remembered, injections>>

Idle == [session |-> None, at |-> "idle", left |-> <<>>, base |-> <<>>]
InSession(at, s) == {r \in Recalls : recall[r].at \in at /\ recall[r].session = s}
Given == [session : Sessions, hit : AnyHit, raced : BOOLEAN]

TypeOK ==
  /\ maxRememberedIds \in 0..MaxIds
  /\ \A s \in Sessions : remembered[s] \in Seq(Hits) /\ Len(remembered[s]) <= maxRememberedIds
  /\ \A r \in Recalls : /\ recall[r].at \in {"idle", "search", "render", "set"}
                        /\ Range(recall[r].left) \subseteq AnyHit
                        /\ recall[r].base \in Seq(Hits) /\ Len(recall[r].base) <= maxRememberedIds
                        /\ recall[r].session = None <=> recall[r].at = "idle"
  /\ raced \subseteq {r \in Recalls : recall[r].at \in {"render", "set"}}
  /\ injections \in Seq(Given)

Init ==
  /\ maxRememberedIds \in 0..MaxIds
  /\ recall = [r \in Recalls |-> Idle] /\ raced = {}
  /\ remembered = [s \in Sessions |-> <<>>]
  /\ injections = <<>>

------------------------------------------------------------------------------
\* ProvideAIContextAsync up to its search, for a turn with text in a session.
ProvideAIContext(r, s) ==
  /\ recall[r].at = "idle"
  /\ recall' = [recall EXCEPT ![r] = [Idle EXCEPT !.session = s, !.at = "search"]]
  /\ UNCHANGED <<maxRememberedIds, raced, remembered, injections>>

\* The search is back: DropAlreadyInjected.  Without a line there is nothing to
\* inject, and nothing is remembered.
DropAlreadyInjected(r, left) ==
  /\ recall[r].at = "search"
  /\ Range(left) \cap Range(remembered[recall[r].session]) = {}
  /\ recall' = [recall EXCEPT ![r] = IF left = <<>> THEN Idle
                                     ELSE [@ EXCEPT !.at = "render", !.left = left]]
  /\ UNCHANGED <<maxRememberedIds, raced, remembered, injections>>

\* Report: the turn goes on without memories, or fails with ThrowOnError.
SearchFails(r) ==
  /\ recall[r].at = "search"
  /\ recall' = [recall EXCEPT ![r] = Idle]
  /\ UNCHANGED <<maxRememberedIds, raced, remembered, injections>>

\* The ids that are new go to the end, and GetRange keeps the last ones.
WithIds(ids, new) == Newest(ids \o new, maxRememberedIds)

\* Remember, first half: the ids in the bag, or a list of its own without any.
RememberReads(r) ==
  /\ recall[r].at = "render"
  /\ recall' = [recall EXCEPT ![r] = [@ EXCEPT !.at = "set", !.base = remembered[recall[r].session]]]
  /\ UNCHANGED <<maxRememberedIds, raced, remembered, injections>>

\* Second half: what is new to the ids it read goes to the end, and SetValue puts
\* them in the bag.  A list it made, or a copy of the bag's, has none of what others
\* put there since; the bag's own list has.
RememberSets(r, new) ==
  LET s == recall[r].session
      left == recall[r].left
      hurried == r \in raced \/ InSession({"set"}, s) # {r}
  IN /\ recall[r].at = "set"
     /\ Len(injections) + Len(left) <= MaxLog
     /\ IsRest(new, left, Range(recall[r].base) \cup {Anonymous})
     /\ \E ids \in {recall[r].base, remembered[s]} :
          remembered' = [remembered EXCEPT ![s] = WithIds(ids, new)]
     /\ injections' = injections \o [i \in 1..Len(left) |->
                        [session |-> s, hit |-> left[i], raced |-> hurried]]
     /\ raced' = (raced \cup InSession({"render", "set"}, s)) \ {r}
     /\ recall' = [recall EXCEPT ![r] = Idle]
     /\ UNCHANGED maxRememberedIds

Next ==
  \E r \in Recalls :
    \/ \E s \in Sessions : ProvideAIContext(r, s)
    \/ \E left \in Answers : DropAlreadyInjected(r, left)
    \/ SearchFails(r)
    \/ RememberReads(r)
    \/ \E new \in Answers : RememberSets(r, new)

Spec == Init /\ [][Next]_frameworkRecallVars
------------------------------------------------------------------------------
\* A memory with an id is injected into a session again only when the session was
\* given as many since as it may remember, or when one of the two invocations raced:
\* another injected between what it looked up and what it wrote, or had read the ids
\* it would set before this one did.
ShownOnce ==
  \A i, j \in 1..Len(injections) :
    LET x == injections[i]
        y == injections[j]
        between == {m \in (i + 1)..(j - 1) : /\ injections[m].session = x.session
                                             /\ injections[m].hit # Anonymous}
    IN i < j /\ x.session = y.session /\ x.hit = y.hit /\ x.hit # Anonymous
         /\ ~x.raced /\ ~y.raced => Cardinality(between) >= maxRememberedIds

\* A hit is kept from a session only after the session was given it.
HiddenOnlyIfShown ==
  \A s \in Sessions : \A h \in Range(remembered[s]) :
    \E i \in 1..Len(injections) : injections[i].session = s /\ injections[i].hit = h
==============================================================================
