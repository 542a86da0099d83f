---------------------------- MODULE OpenClawRecall ----------------------------
(***************************************************************************)
(* Automatic recall of the OpenClaw plugin                                 *)
(* (integrations/openclaw/src/index.ts, recall.ts): before a prompt is     *)
(* built the hook searches, and prepends the hits its conversation has not *)
(* seen.  The ledger of what was shown is shared by all sessions, whose    *)
(* hooks interleave with each other and with the resets of a conversation. *)
(***************************************************************************)
EXTENDS Naturals, FiniteSets, Lru

CONSTANTS Sessions,    \* the keys resolveSessionScopeKey yields
          Hits,
          Answers,     \* what filterByScore may leave of an answer, hits in order
          Recalls,     \* hooks that may be waiting at once
          MaxTracked,  \* MAX_TRACKED_SESSIONS
          WindowSize,  \* dedupeWindow, at least 1
          MaxLog,      \* bound on the injections of all sessions
          MaxResets,   \* bound on the resets of all sessions
          None

RecallAssumption ==
  /\ MaxTracked \in Nat \ {0} /\ WindowSize \in Nat \ {0} /\ None \notin Sessions
  /\ \A hits \in Answers : IsOrder(hits, Hits, Len(hits))

VARIABLES
  waiting,      \* the session each search in flight is for, or None
  ledgerOrder,  \* the keys of the ledger, in insertion order
  ledger,       \* its values: hits, oldest first
  resets,       \* history, per session: how often its conversation was reset
  shown         \* history: the injections in order, each with the resets before it

openClawRecallVars == <<waiting, ledgerOrder, ledger, resets, shown>>

TypeOK ==
  /\ waiting \in [Recalls -> Sessions \cup {None}]
  /\ IsOrder(ledgerOrder, Sessions, MaxTracked)
  /\ \A s \in Sessions :
       /\ IsOrder(ledger[s], Hits, WindowSize)
       /\ ledger[s] # <<>> <=> s \in Range(ledgerOrder)
       /\ resets[s] \in Nat

Init ==
  /\ waiting = [r \in Recalls |-> None]
  /\ ledgerOrder = <<>> /\ ledger = [s \in Sessions |-> <<>>]
  /\ resets = [s \in Sessions |-> 0] /\ shown = <<>>

------------------------------------------------------------------------------
\* before_prompt_build up to its search, for a prompt shouldRecall accepts.
BeforePromptBuild(r, s) ==
  /\ waiting[r] = None
  /\ waiting' = [waiting EXCEPT ![r] = s]
  /\ UNCHANGED <<ledgerOrder, ledger, resets, shown>>

\* What filterUnseen may leave of it.
FilterUnseen(s) == {hits \in Answers : Range(hits) \cap Range(ledger[s]) = {}}

\* formatRecallBlock: a prefix, as far as the character budget goes.
Block(hits, n) == SubSeq(hits, 1, n)

\* RecallLedger.record: the session and its hits move to the end, both bounded.
Record(s, hits) ==
  LET order == Touch(ledgerOrder, s)
      gone == Oldest(order, MaxTracked)
  IN /\ ledgerOrder' = Newest(order, MaxTracked)
     /\ ledger' = [x \in Sessions |-> IF x \in gone THEN <<>>
                     ELSE IF x = s THEN Newest(ledger[s] \o hits, WindowSize)
                     ELSE ledger[x]]

Recorded_Fresh(fresh, injected) == fresh
\* "Record only what the character budget actually let through."
Recorded(fresh, injected) == injected

\* The search is back: filtering, rendering and recording do not yield.
SearchReturns(r, fresh, n) ==
  LET s == waiting[r]
      injected == Block(fresh, n)
  IN /\ s # None /\ fresh \in FilterUnseen(s)
     /\ Len(shown) + n <= MaxLog
     /\ waiting' = [waiting EXCEPT ![r] = None]
     /\ IF n = 0 THEN UNCHANGED <<ledgerOrder, ledger, shown>>
        ELSE /\ Record(s, Recorded(fresh, injected))
             /\ shown' = shown \o [i \in 1..n |-> <<s, resets[s], injected[i]>>]
     /\ UNCHANGED resets

\* The gateway refuses, or reports the failure: the turn goes on untouched.
SearchFails(r) ==
  /\ waiting[r] # None
  /\ waiting' = [waiting EXCEPT ![r] = None]
  /\ UNCHANGED <<ledgerOrder, ledger, resets, shown>>

Forget_Window(s) == ledgerOrder' = ledgerOrder /\ ledger' = ledger
\* RecallLedger.reset
Forget(s) ==
  /\ ledgerOrder' = Without(ledgerOrder, s)
  /\ ledger' = [ledger EXCEPT ![s] = <<>>]

\* session_start and before_reset.
Reset(s) ==
  /\ FoldFunction(LAMBDA a, b : a + b, 0, resets) < MaxResets
  /\ Forget(s)
  /\ resets' = [resets EXCEPT ![s] = @ + 1]
  /\ UNCHANGED <<waiting, shown>>

Next ==
  \/ \E r \in Recalls :
       \/ \E s \in Sessions : BeforePromptBuild(r, s)
       \/ \E fresh \in Answers : \E n \in 0..Len(fresh) : SearchReturns(r, fresh, n)
       \/ SearchFails(r)
  \/ \E s \in Sessions : Reset(s)

Spec == Init /\ [][Next]_openClawRecallVars
------------------------------------------------------------------------------
\* recall.ts 49-52: between two resets a memory is shown again to a session only
\* when a bound has pushed it out: WindowSize others were shown to it since, or
\* MaxTracked sessions were between two of its injections.
ShownOnce ==
  \A i, j \in 1..Len(shown) :
    i < j /\ shown[i] = shown[j] =>
      LET s == shown[i][1]
          between(a, b) == (a + 1)..(b - 1)
          others == {shown[m][3] : m \in {k \in between(i, j) : shown[k][1] = s}}
      IN \/ Cardinality(others) >= WindowSize
         \/ \E a, b \in i..j :
              /\ \A m \in between(a, b) : shown[m][1] # s
              /\ Cardinality({shown[m][1] : m \in between(a, b)}) >= MaxTracked

\* index.ts 100-102, 135-136: a memory is suppressed only when it was injected
\* since the last reset; neither the character budget nor an earlier conversation
\* hides one.
HiddenOnlyIfShown ==
  \A s \in Sessions : \A h \in Range(ledger[s]) : <<s, resets[s], h>> \in Range(shown)
==============================================================================
