---------------------------- MODULE ClaudeCapture ---------------------------
(***************************************************************************)
(* The capture half of CortadelMemory for the Claude Agent SDK             *)
(* (integrations/claude-agent-sdk/src): the Stop hook reads the finished   *)
(* turn back from the session's transcript and hands it over; a write it   *)
(* does not await is drained by flush.                                     *)
(***************************************************************************)
EXTENDS FiniteSetsExt, Lru

CONSTANTS Sessions,
          MaxTurns,     \* per session: bound on its turns
          MaxSessions,  \* MAX_TRACKED_SESSIONS
          None

Turns == UNION {1..MaxTurns[s] : s \in Sessions}

\* A prompt may have no text (an image), and a machine may have written it.
Prompt == [author : {"human", "machine"}, text : BOOLEAN]
Entry == [role : {"human", "machine", "assistant"}, turn : Turns, text : BOOLEAN]
Exchange == [session : Sessions, user : [turn : Turns, role : {"human", "machine"}], assistant : Turns,
             by : {"sdk", "jsonl", "hook"}]
Write == [session : Sessions, turn : Turns]

CaptureAssumption ==
  /\ MaxTurns \in [Sessions -> Nat] /\ MaxSessions \in Nat \ {0}
  /\ None \notin Turns

VARIABLES
  awaitPersist,
  prompts,       \* per session: its turns so far
  phase,         \* per session: where its turn stands
  entries,       \* per session: its transcript
  promptOrder,   \* the keys of lastPrompts, in insertion order
  lastPrompt,    \* its values: a turn, or None
  captured,      \* history: what a Stop handed over in the last step, or None
  running,       \* background writes that have not settled
  pending,       \* the set flush drains
  waiting        \* what the running flush waits for, if one runs

claudeVars == <<awaitPersist, prompts, phase, entries, promptOrder, lastPrompt, captured,
                running, pending, waiting>>
turnVars == <<prompts, phase, entries, promptOrder, lastPrompt>>
writeVars == <<running, pending, waiting>>

TypeOK ==
  /\ awaitPersist \in BOOLEAN
  /\ prompts \in [Sessions -> Seq(Prompt)]
  /\ phase \in [Sessions -> {"idle", "turn", "stop", "persist"}]
  /\ entries \in [Sessions -> Seq(Entry)]
  /\ IsOrder(promptOrder, Sessions, MaxSessions)
  /\ lastPrompt \in [Sessions -> Turns \cup {None}]
  /\ \A s \in Sessions : lastPrompt[s] # None <=> s \in Range(promptOrder)
  /\ captured # None => captured \in Exchange
  /\ running \subseteq pending /\ pending \subseteq Write
  /\ waiting \subseteq Write

Init ==
  /\ awaitPersist \in BOOLEAN
  /\ prompts = [s \in Sessions |-> <<>>] /\ phase = [s \in Sessions |-> "idle"]
  /\ entries = [s \in Sessions |-> <<>>]
  /\ promptOrder = <<>> /\ lastPrompt = [s \in Sessions |-> None]
  /\ captured = None
  /\ running = {} /\ pending = {} /\ waiting = {}

Turn(s) == Len(prompts[s])
Latest(s) == entries[s][Len(entries[s])]

------------------------------------------------------------------------------
\* rememberPrompt: the last prompt of a session, in a bounded table.
RememberPrompt(s, turn) ==
  LET order == Touch(promptOrder, s)
      gone == Oldest(order, MaxSessions)
  IN /\ promptOrder' = Newest(order, MaxSessions)
     /\ lastPrompt' = [x \in Sessions |-> IF x \in gone THEN None
                                          ELSE IF x = s THEN turn ELSE lastPrompt[x]]

\* onUserPromptSubmit, but for its recall (ClaudeRecall).
OnUserPromptSubmit(s, p) ==
  /\ phase[s] = "idle" /\ Turn(s) < MaxTurns[s]
  /\ prompts' = [prompts EXCEPT ![s] = Append(@, p)]
  /\ phase' = [phase EXCEPT ![s] = "turn"]
  /\ entries' = [entries EXCEPT ![s] =
                   Append(@, [role |-> p.author, turn |-> Turn(s) + 1, text |-> p.text])]
  /\ captured' = None
  /\ IF ~p.text THEN UNCHANGED <<promptOrder, lastPrompt>> ELSE RememberPrompt(s, Turn(s) + 1)
  /\ UNCHANGED <<awaitPersist, writeVars>>

------------------------------------------------------------------------------
\* The agent writes its answer; a machine may have its say before that (a task
\* notification).  A turn may end without any text.
MachineWrites(s) ==
  /\ phase[s] = "turn" /\ Latest(s).turn = Turn(s) /\ Latest(s).role = "human"
  /\ entries' = [entries EXCEPT ![s] = Append(@, [role |-> "machine", turn |-> Turn(s), text |-> TRUE])]
  /\ captured' = None
  /\ UNCHANGED <<awaitPersist, prompts, phase, promptOrder, lastPrompt, writeVars>>

AgentAnswers(s, text) ==
  /\ phase[s] = "turn"
  /\ entries' = [entries EXCEPT ![s] = Append(@, [role |-> "assistant", turn |-> Turn(s), text |-> text])]
  /\ phase' = [phase EXCEPT ![s] = "stop"]
  /\ captured' = None
  /\ UNCHANGED <<awaitPersist, prompts, promptOrder, lastPrompt, writeVars>>

\* Whose entries a reader takes for a person's: readViaSdk those of machines too.
HumanTo(reader) == IF reader = "sdk" THEN {"human", "machine"} ELSE {"human"}

LatestOf(at) == IF at = {} THEN 0 ELSE Max(at)

\* One side of an exchange: whose turn it is from, and who wrote it.
Half(turn, author) == [turn |-> turn, role |-> author]

\* The last answer with text, and the last of what an author wrote with text before
\* position a.
AnswerAt(s) ==
  LatestOf({i \in 1..Len(entries[s]) : entries[s][i].role = "assistant" /\ entries[s][i].text})
PromptAt(s, a, authors) ==
  LatestOf({i \in 1..Len(entries[s]) : i < a /\ entries[s][i].role \in authors /\ entries[s][i].text})

PairOf(s, u, a) ==
  IF a = 0 \/ u = 0 THEN <<>>
  ELSE <<Half(entries[s][u].turn, entries[s][u].role), entries[s][a].turn>>

Pair_AnyAuthor(s, reader) ==
  LET a == AnswerAt(s)
  IN PairOf(s, PromptAt(s, a, {"human", "machine"}), a)

\* pair: the last answer with text, and the last turn with text before it that the
\* reader takes for a person's, or a machine's when there is none.
Pair(s, reader) ==
  LET a == AnswerAt(s)
      human == PromptAt(s, a, HumanTo(reader))
  IN PairOf(s, IF human # 0 THEN human ELSE PromptAt(s, a, {"machine"}), a)

\* exchangeFromHookInput: the last prompt and the answer the hook was given.
FromHookInput(s) ==
  IF lastPrompt[s] = None \/ ~Latest(s).text THEN <<>>
  ELSE <<Half(lastPrompt[s], prompts[s][lastPrompt[s]].author), Turn(s)>>

\* lastExchange, with the readers that work at the moment: the first that has a pair.
ReaderOf(s, readers) ==
  IF "sdk" \in readers /\ Pair(s, "sdk") # <<>> THEN "sdk"
  ELSE IF "jsonl" \in readers /\ Pair(s, "jsonl") # <<>> THEN "jsonl"
  ELSE "hook"
LastExchange(s, by) == IF by = "hook" THEN FromHookInput(s) ELSE Pair(s, by)

\* onStop without anything to hand over, or with too little (toChatMessages).
StopSkips(s) ==
  /\ phase[s] = "stop"
  /\ phase' = [phase EXCEPT ![s] = "idle"]
  /\ captured' = None
  /\ UNCHANGED <<awaitPersist, prompts, entries, promptOrder, lastPrompt, writeVars>>

\* onStop up to the write, which it awaits or leaves to spawn.
StopPersists(s, readers) ==
  LET by == ReaderOf(s, readers)
      pair == LastExchange(s, by)
      w == [session |-> s, turn |-> Turn(s)]
  IN /\ phase[s] = "stop"
     /\ pair # <<>>
     /\ captured' = [session |-> s, user |-> pair[1], assistant |-> pair[2], by |-> by]
     /\ phase' = [phase EXCEPT ![s] = IF awaitPersist THEN "persist" ELSE "idle"]
     /\ IF awaitPersist THEN UNCHANGED writeVars
        ELSE running' = running \cup {w} /\ pending' = pending \cup {w} /\ UNCHANGED waiting
     /\ UNCHANGED <<awaitPersist, prompts, entries, promptOrder, lastPrompt>>

PersistEnds(s) ==
  /\ phase[s] = "persist"
  /\ phase' = [phase EXCEPT ![s] = "idle"]
  /\ captured' = None
  /\ UNCHANGED <<awaitPersist, prompts, entries, promptOrder, lastPrompt, writeVars>>

------------------------------------------------------------------------------
WriteSettles(w) ==
  /\ running' = running \ {w}
  /\ captured' = None
  /\ UNCHANGED <<awaitPersist, turnVars, pending, waiting>>

\* The finally of spawn.
WriteForgotten(w) ==
  /\ w \in pending \ running
  /\ pending' = pending \ {w}
  /\ captured' = None
  /\ UNCHANGED <<awaitPersist, turnVars, running, waiting>>

Flush ==
  /\ waiting = {} /\ pending # {}
  /\ waiting' = pending
  /\ captured' = None
  /\ UNCHANGED <<awaitPersist, turnVars, running, pending>>

FlushWakes_Once ==
  /\ waiting # {} /\ waiting \cap running = {}
  /\ pending' = pending \ waiting
  /\ waiting' = {}
  /\ captured' = None
  /\ UNCHANGED <<awaitPersist, turnVars, running>>

\* flush: once all it waited for has settled it looks again, until nothing is left.
FlushWakes ==
  /\ waiting # {} /\ waiting \cap running = {}
  /\ pending' = pending \ waiting
  /\ waiting' = pending'
  /\ captured' = None
  /\ UNCHANGED <<awaitPersist, turnVars, running>>

Readers == SUBSET {"sdk", "jsonl"}
Next ==
  \/ \E s \in Sessions :
       \/ \E p \in Prompt : OnUserPromptSubmit(s, p)
       \/ MachineWrites(s)
       \/ \E text \in BOOLEAN : AgentAnswers(s, text)
       \/ StopSkips(s)
       \/ \E readers \in Readers : StopPersists(s, readers)
       \/ PersistEnds(s)
  \/ \E w \in running : WriteSettles(w)
  \/ \E w \in pending : WriteForgotten(w)
  \/ Flush
  \/ FlushWakes

Spec == Init /\ [][Next]_claudeVars
------------------------------------------------------------------------------
\* A turn in which a person wrote text and got text is handed over as itself: with a
\* prompt of its own and never an older turn once more, whichever reader served; and
\* with the person's words, not a task notification, unless the SDK's reader served,
\* which takes whatever the session shows for a person's.
CapturesFinishedTurn ==
  captured # None =>
    LET s == captured.session
        p == prompts[s][Turn(s)]
        answered == \E i \in 1..Len(entries[s]) :
                      LET e == entries[s][i]
                      IN e.role = "assistant" /\ e.turn = Turn(s) /\ e.text
    IN p.author = "human" /\ p.text /\ answered =>
         /\ captured.user.turn = Turn(s) /\ captured.assistant = Turn(s)
         /\ captured.by # "sdk" => captured.user.role = "human"

\* flush is "the one point where a background addConversation is guaranteed to
\* have finished": when it returns nothing is in flight, also of the writes
\* that were started while it waited.
FlushWaits == waiting # {} /\ waiting' = {} => running = {}
==============================================================================
