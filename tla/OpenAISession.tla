---------------------------- MODULE OpenAISession ----------------------------
(***************************************************************************)
(* The storage half of CortadelSession, the Session of the OpenAI Agents   *)
(* integration (integrations/openai-agents/src/session.ts), with store on. *)
(*                                                                         *)
(* The session runs on one JavaScript thread: an operation runs without    *)
(* interruption up to an await of the transcript or of a write, and other  *)
(* operations of the same session run meanwhile.  An operation that        *)
(* rejects in its first await changes nothing and is left out.             *)
(***************************************************************************)
EXTENDS Naturals, FiniteSets, SequencesExt

CONSTANTS Msgs,       \* storable messages, numbered in the order they are given
          Assistant,  \* the assistant's messages; the others are the user's
          Text,       \* what each message says: popItem compares role and text
          Ops,        \* operations of the session that can be under way at once
          Writes      \* slots for addConversation calls in flight

ASSUME MsgsAssumption == Msgs \subseteq Nat
ASSUME AssistantAssumption == Assistant \subseteq Msgs

VARIABLES
  awaitPersist,  \* the option; fixed per session
  given,         \* messages handed to addItems so far
  transcript,    \* external: the Session that holds the verbatim history
  pending,       \* messages seen since the last flush
  persistTasks,  \* background writes flush and close can drain
  writes,        \* writes[w]: the batch of an addConversation call, <<>> if none
  pc, arg,       \* per operation: where it stands, the items it works on
  waits,         \* per operation: the writes a flush is waiting for
  stored, lost,  \* messages whose write succeeded or failed
  withdrawn,     \* messages popItem or clearSession took back while pending
  owedAt, alone, \* history, per flush: what was owed when it was called, and
                 \* whether nothing else ran on the session since
  overlapped     \* history: two operations on the transcript have overlapped

session == <<given, transcript, pending>>
tasks == <<persistTasks, writes>>
settled == <<stored, lost, withdrawn>>
vars == <<awaitPersist, given, transcript, pending, persistTasks, writes, pc,
          arg, waits, stored, lost, withdrawn, owedAt, alone, overlapped>>

Places == {"idle", "adding", "popping", "clearing", "draining", "writing"}
InTranscript(o) == pc[o] \in {"adding", "popping", "clearing"}
Flushing(o) == pc[o] \in {"draining", "writing"}
InFlight == UNION {ToSet(writes[w]) : w \in Writes}
Owed == ToSet(pending) \cup InFlight
Settled == stored \cup lost \cup withdrawn

TypeOK ==
  /\ awaitPersist \in BOOLEAN
  /\ given \subseteq Msgs
  /\ transcript \in Seq(Msgs)
  /\ pending \in Seq(Msgs)
  /\ persistTasks \subseteq {w \in Writes : writes[w] # <<>>}
  /\ writes \in [Writes -> Seq(Msgs)]
  /\ pc \in [Ops -> Places]
  /\ arg \in [Ops -> Seq(Msgs)]
  /\ waits \in [Ops -> SUBSET Writes]
  /\ stored \subseteq Msgs /\ lost \subseteq Msgs /\ withdrawn \subseteq Msgs
  /\ owedAt \in [Ops -> SUBSET Msgs]
  /\ alone \in [Ops -> BOOLEAN]
  /\ overlapped \in BOOLEAN

Init ==
  /\ awaitPersist \in BOOLEAN
  /\ given = {}
  /\ transcript = <<>>
  /\ pending = <<>>
  /\ persistTasks = {}
  /\ writes = [w \in Writes |-> <<>>]
  /\ pc = [o \in Ops |-> "idle"]
  /\ arg = [o \in Ops |-> <<>>]
  /\ waits = [o \in Ops |-> {}]
  /\ stored = {} /\ lost = {} /\ withdrawn = {}
  /\ owedAt = [o \in Ops |-> {}]
  /\ alone = [o \in Ops |-> FALSE]
  /\ overlapped = FALSE

------------------------------------------------------------------------------
\* Operation o starts on the transcript: no flush is alone any more.
StartOn(o, place, items) ==
  /\ pc[o] = "idle"
  /\ pc' = [pc EXCEPT ![o] = place]
  /\ arg' = [arg EXCEPT ![o] = items]
  /\ alone' = [p \in Ops |-> FALSE]
  /\ overlapped' = (overlapped \/ \E p \in Ops : InTranscript(p))
  /\ UNCHANGED <<awaitPersist, pending, tasks, waits, settled, owedAt>>

Finish(o) ==
  /\ pc' = [pc EXCEPT ![o] = "idle"]
  /\ arg' = [arg EXCEPT ![o] = <<>>]
  /\ owedAt' = [owedAt EXCEPT ![o] = {}]
  /\ alone' = [alone EXCEPT ![o] = FALSE]

TakeBatch_NotCleared(w, batch) ==
  /\ writes[w] = <<>>
  /\ writes' = [writes EXCEPT ![w] = batch]
  /\ pending' = batch

\* writePending takes the whole buffer before it awaits; a failure drops the
\* batch.
TakeBatch(w, batch) ==
  /\ writes[w] = <<>>
  /\ writes' = [writes EXCEPT ![w] = batch]
  /\ pending' = <<>>

StartFlush_NoDrain(o, owing) ==
  /\ pc' = [pc EXCEPT ![o] = "draining"]
  /\ arg' = [arg EXCEPT ![o] = <<>>]
  /\ waits' = [waits EXCEPT ![o] = {}]
  /\ persistTasks' = {}
  /\ owedAt' = [owedAt EXCEPT ![o] = owing]
  /\ alone' = [p \in Ops |-> p = o /\ \A q \in Ops \ {o} : pc[q] = "idle"]

\* flush up to its first await: drainBackgroundPersists copies and clears
\* persistTasks.
StartFlush(o, owing) ==
  /\ pc' = [pc EXCEPT ![o] = "draining"]
  /\ arg' = [arg EXCEPT ![o] = <<>>]
  /\ waits' = [waits EXCEPT ![o] = persistTasks]
  /\ persistTasks' = {}
  /\ owedAt' = [owedAt EXCEPT ![o] = owing]
  /\ alone' = [p \in Ops |-> p = o /\ \A q \in Ops \ {o} : pc[q] = "idle"]

\* addItems: the transcript first.
AddItems(o, items) ==
  /\ StartOn(o, "adding", items)
  /\ given' = given \cup ToSet(items)
  /\ transcript' = transcript \o items

AssistantSpoke_LastOnly(items) == Last(items) \in Assistant

\* messagePairs(...).some(pair => pair.role === 'assistant')
AssistantSpoke(items) == ToSet(items) \cap Assistant # {}

\* addItems after the transcript: the messages become pending, and once the
\* assistant has spoken the buffer is written, awaited or in the background.
AddItemsBuffers(o) ==
  LET items == arg[o] IN
  /\ pc[o] = "adding"
  /\ \/ /\ ~AssistantSpoke(items)
        /\ pending' = pending \o items
        /\ Finish(o)
        /\ UNCHANGED <<tasks, waits>>
     \/ /\ AssistantSpoke(items)
        /\ awaitPersist
        /\ pending' = pending \o items
        /\ StartFlush(o, Owed \cup ToSet(items))
        /\ UNCHANGED writes
     \/ /\ AssistantSpoke(items)
        /\ ~awaitPersist
        /\ \E w \in Writes :
             /\ TakeBatch(w, pending \o items)
             /\ persistTasks' = persistTasks \cup {w}
        /\ Finish(o)
        /\ UNCHANGED waits
  /\ UNCHANGED <<awaitPersist, given, transcript, settled, overlapped>>

\* popItem: the transcript first; nothing to pop returns at once.
PopItem(o) ==
  /\ transcript # <<>>
  /\ StartOn(o, "popping", <<Last(transcript)>>)
  /\ transcript' = Front(transcript)
  /\ UNCHANGED given

Same(m, n) == (m \in Assistant <=> n \in Assistant) /\ Text[m] = Text[n]

\* popItem after the transcript: the last pending message goes too if it has
\* the popped item's role and text.
PopItemDrops(o) ==
  /\ pc[o] = "popping"
  /\ IF pending # <<>> /\ Same(Last(pending), Head(arg[o]))
     THEN /\ pending' = Front(pending)
          /\ withdrawn' = withdrawn \cup {Last(pending)}
     ELSE UNCHANGED <<pending, withdrawn>>
  /\ Finish(o)
  /\ UNCHANGED <<awaitPersist, given, transcript, tasks, waits, stored, lost,
                 overlapped>>

\* clearSession: the transcript, then the buffer.
ClearSession(o) ==
  /\ StartOn(o, "clearing", <<>>)
  /\ transcript' = <<>>
  /\ UNCHANGED given

ClearSessionBuffer_Kept(o) ==
  /\ pc[o] = "clearing"
  /\ Finish(o)
  /\ UNCHANGED <<awaitPersist, session, tasks, waits, settled, overlapped>>

ClearSessionBuffer(o) ==
  /\ pc[o] = "clearing"
  /\ pending' = <<>>
  /\ withdrawn' = withdrawn \cup ToSet(pending)
  /\ Finish(o)
  /\ UNCHANGED <<awaitPersist, given, transcript, tasks, waits, stored, lost,
                 overlapped>>

\* flush and close, called by the application.
Flush(o) ==
  /\ pc[o] = "idle"
  /\ StartFlush(o, Owed)
  /\ UNCHANGED <<awaitPersist, session, writes, settled, overlapped>>

\* flush once the tasks it took have ended: writePending, awaited.
FlushWrites(o) ==
  /\ pc[o] = "draining"
  /\ waits[o] = {}
  /\ IF pending = <<>>
     THEN /\ Finish(o)
          /\ UNCHANGED <<pending, writes, waits>>
     ELSE \E w \in Writes :
            /\ TakeBatch(w, pending)
            /\ waits' = [waits EXCEPT ![o] = {w}]
            /\ pc' = [pc EXCEPT ![o] = "writing"]
            /\ UNCHANGED <<arg, owedAt, alone>>
  /\ UNCHANGED <<awaitPersist, given, transcript, persistTasks, settled, overlapped>>

FlushReturns(o) ==
  /\ pc[o] = "writing"
  /\ waits[o] = {}
  /\ Finish(o)
  /\ UNCHANGED <<awaitPersist, session, tasks, waits, settled, overlapped>>

\* An addConversation call ends; either way its promise settles, a background
\* task leaves persistTasks and whoever awaits it goes on.
EndWrite_TaskKept(w) ==
  /\ writes[w] # <<>>
  /\ writes' = [writes EXCEPT ![w] = <<>>]
  /\ waits' = [o \in Ops |-> waits[o] \ {w}]
  /\ UNCHANGED <<awaitPersist, session, persistTasks, pc, arg, withdrawn,
                 owedAt, alone, overlapped>>

EndWrite(w) ==
  /\ writes[w] # <<>>
  /\ writes' = [writes EXCEPT ![w] = <<>>]
  /\ persistTasks' = persistTasks \ {w}
  /\ waits' = [o \in Ops |-> waits[o] \ {w}]
  /\ UNCHANGED <<awaitPersist, session, pc, arg, withdrawn, owedAt, alone,
                 overlapped>>

WriteSucceeds(w) ==
  EndWrite(w) /\ stored' = stored \cup ToSet(writes[w]) /\ UNCHANGED lost

WriteFails(w) ==
  EndWrite(w) /\ lost' = lost \cup ToSet(writes[w]) /\ UNCHANGED stored

\* The items the runner can hand over next: one message, or two at once.
NextItems ==
  {<<m>> : m \in {n \in Msgs \ given : \A k \in Msgs \ given : n <= k}}
    \cup {<<m, m + 1>> : m \in {n \in Msgs \ given :
                                  n + 1 \in Msgs /\ \A k \in Msgs \ given : n <= k}}

Next ==
  \/ \E o \in Ops :
       \/ \E items \in NextItems : AddItems(o, items)
       \/ AddItemsBuffers(o)
       \/ PopItem(o)
       \/ PopItemDrops(o)
       \/ ClearSession(o)
       \/ ClearSessionBuffer(o)
       \/ Flush(o)
       \/ FlushWrites(o)
       \/ FlushReturns(o)
  \/ \E w \in Writes : WriteSucceeds(w) \/ WriteFails(w)

\* The event loop resumes what can go on, and every request ends (the SDK
\* client has a timeout).
Fairness ==
  /\ \A o \in Ops : WF_vars(AddItemsBuffers(o) \/ PopItemDrops(o) \/
                            ClearSessionBuffer(o) \/ FlushWrites(o) \/ FlushReturns(o))
  /\ \A w \in Writes : WF_vars(WriteSucceeds(w) \/ WriteFails(w))

Spec == Init /\ [][Next]_vars
FairSpec == Spec /\ Fairness
------------------------------------------------------------------------------
\* Every message follows Delivery: owed once it is buffered, sent at most
\* once, never dropped but by a failed write, popItem or clearSession.  The
\* hazard is writePending's order: the buffer is taken before the await, so
\* what arrives during a write is neither sent twice nor discarded.
Fate(m) ==
  CASE m \in InFlight -> "sending"
    [] m \in ToSet(pending) \ InFlight -> "owed"
    [] m \in stored \ Owed -> "stored"
    [] m \in lost \ Owed -> "lost"
    [] m \in withdrawn \ Owed -> "withdrawn"
    [] OTHER -> "new"

D == INSTANCE Delivery WITH fate <- [m \in Msgs |-> Fate(m)]
DeliversOnce == D!Spec

\* The comment of flush (349-355), for a flush nothing else overlaps: when it
\* returns, everything the session owed Cortadel has been written, whether it
\* sat in the buffer or in background writes.
FlushAloneLands ==
  [][\A o \in Ops : Flushing(o) /\ pc'[o] = "idle" /\ alone[o]
       => owedAt[o] \subseteq Settled']_vars

\* The same without the proviso, as the comment has it: "Send everything this
\* session still owes Cortadel, and wait for it to land. ... an awaited
\* `flush()` is a hard synchronisation point, whatever `awaitPersist` says".
FlushLands ==
  [][\A o \in Ops : Flushing(o) /\ pc'[o] = "idle"
       => owedAt[o] \subseteq Settled']_vars

\* What popItem relies on when it compares with the last pending message
\* (313-314, "so a rewound turn is never stored"): as long as operations on
\* the transcript do not overlap, the buffer is the tail of the transcript,
\* however writes and flushes fall in between.
PendingIsTail ==
  ~overlapped /\ (\A o \in Ops : ~InTranscript(o)) => IsSuffix(pending, transcript)

\* Every message of the assistant handed to addItems ends settled: the write
\* it triggers is never forgotten, also when another flush takes the buffer.
AssistantSettles ==
  \A m \in Assistant : (m \in given) ~> (m \in Settled)
==============================================================================
