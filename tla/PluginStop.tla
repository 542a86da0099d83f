------------------------------ MODULE PluginStop ------------------------------
(***************************************************************************)
(* The Stop hook of the editor plugin                                      *)
(* (cortadel-plugin/scripts/stop-capture.mjs).  It is asynchronous: the    *)
(* editor starts it when a turn ends and goes on, so by the time it reads  *)
(* the transcript the next turn may have been asked, or half answered.     *)
(* From what it reads it takes the last reply and the prompt before it.    *)
(***************************************************************************)
EXTENDS Integers, Sequences, FiniteSetsExt

CONSTANTS MaxTurns,    \* bound on the prompts of the session
          MaxEntries   \* bound on the entries of the transcript

StopAssumption == MaxTurns \in Nat /\ MaxEntries \in Nat

VARIABLES
  transcript,  \* the entries of the file: their author, their kind and their turn
  turn,        \* the number of the turn, and whether the editor is still in it
  waiting,     \* the turns whose hook has not read the transcript yet
  captured     \* the exchanges sent: the entries of the prompt and of the reply

stopVars == <<transcript, turn, waiting, captured>>

\* What a transcript holds.  A prompt may be one image, a reply one tool call, and
\* the editor writes tool results and text of its own as user entries.
Entry(author, kind) == [author |-> author, kind |-> kind, turn |-> turn'.number]
Kinds == [user |-> {"human", "image", "injected", "tool result"},
          assistant |-> {"text", "tool call"}]

TypeOK ==
  /\ \A i \in DOMAIN transcript : transcript[i].kind \in Kinds[transcript[i].author]
  /\ Len(transcript) <= MaxEntries /\ turn.number <= MaxTurns
  /\ waiting \subseteq 1..turn.number
  /\ \A x \in captured : {x.prompt, x.reply} \subseteq Range(transcript)

Init ==
  /\ transcript = <<>> /\ turn = [number |-> 0, ended |-> TRUE]
  /\ waiting = {} /\ captured = {}

------------------------------------------------------------------------------
Writes(author, kind) ==
  Len(transcript) < MaxEntries /\ transcript' = Append(transcript, Entry(author, kind))

\* The human asks, in text or with an image alone.
Ask(kind) ==
  /\ turn.ended /\ turn.number < MaxTurns
  /\ turn' = [number |-> turn.number + 1, ended |-> FALSE] /\ Writes("user", kind)
  /\ UNCHANGED <<waiting, captured>>

\* The turn goes on: the model speaks or calls a tool, the editor writes what the
\* tool gave and reminders of its own.
GoOn(author, kind) ==
  /\ ~turn.ended /\ UNCHANGED turn /\ Writes(author, kind) /\ kind \notin {"human", "image"}
  /\ UNCHANGED <<waiting, captured>>

\* The turn ends, and its Stop hook starts.
EndTurn ==
  /\ ~turn.ended /\ turn' = [turn EXCEPT !.ended = TRUE]
  /\ waiting' = waiting \cup {turn.number} /\ UNCHANGED <<transcript, captured>>

\* textOf: tool calls, tool results and images have none.
HasText(e) == e.kind \in {"human", "injected", "text"}

\* isHumanUser
IsHuman(e) == e.kind \in {"human", "image"}

LatestOf(at) == IF at = {} THEN 0 ELSE Max(at)

\* The last reply with text.
ReplyAt == LatestOf({i \in DOMAIN transcript :
                       transcript[i].author = "assistant" /\ HasText(transcript[i])})

UsersBefore(n) == {i \in 1..(n - 1) : transcript[i].author = "user" /\ HasText(transcript[i])}

PromptAt_AnyUser(n) == LatestOf(UsersBefore(n))
\* The last human prompt before it, and only without one what the editor wrote.
PromptAt(n) ==
  LET humans == {i \in UsersBefore(n) : IsHuman(transcript[i])}
  IN LatestOf(IF humans # {} THEN humans ELSE UsersBefore(n))

\* The hook of a turn reads the transcript as it is by now, and sends an exchange
\* or skips: unreadable, no reply, no prompt, too short.
Capture(t) ==
  /\ t \in waiting /\ waiting' = waiting \ {t}
  /\ \/ UNCHANGED captured
     \/ /\ ReplyAt # 0 /\ PromptAt(ReplyAt) # 0
        /\ captured' = captured \cup {[prompt |-> transcript[PromptAt(ReplyAt)],
                                       reply |-> transcript[ReplyAt]]}
  /\ UNCHANGED <<transcript, turn>>

Next ==
  \/ \E kind \in {"human", "image"} : Ask(kind)
  \/ \E author \in DOMAIN Kinds : \E kind \in Kinds[author] : GoOn(author, kind)
  \/ EndTurn \/ \E t \in waiting : Capture(t)

Spec == Init /\ [][Next]_stopVars
------------------------------------------------------------------------------
\* Whenever the hook reads, and whatever the editor wrote between prompt and reply:
\* as long as every prompt has text, the prompt that is sent is the human's, and the
\* one the reply answers.
PairsMatch ==
  (\A i \in DOMAIN transcript : transcript[i].kind # "image") =>
    \A x \in captured : x.prompt.kind = "human" /\ x.prompt.turn = x.reply.turn
==============================================================================
