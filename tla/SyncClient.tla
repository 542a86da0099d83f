------------------------------- MODULE SyncClient ------------------------------
(***************************************************************************)
(* SyncCortadelClient of the Python SDK (sdk/python/cortadel/              *)
(* sync_client.py): threads block on calls that run on the event loop of   *)
(* one thread in the background, and close ends that loop and the thread.  *)
(***************************************************************************)
CONSTANTS Threads,  \* threads that make calls
          Closers   \* calls of close that overlap

VARIABLES
  closed,  \* _closed
  loop,    \* _loop, and whether its thread still runs it
  call,    \* per thread: where its call stands
  closer,  \* per close: where it stands
  gaveUp   \* history: a join ran into its timeout

syncVars == <<closed, loop, call, closer, gaveUp>>

\* A stopping loop still finishes what is ready; a stopped one runs nothing.
LoopStates == {"running", "stopping", "stopped", "closed"}
CloseStages == {"idle", "entered", "aclose", "stop", "join", "close"}

TypeOK ==
  /\ closed \in BOOLEAN /\ gaveUp \in BOOLEAN
  /\ loop \in LoopStates
  /\ call \in [Threads -> {"idle", "checked", "submitted"}]
  /\ closer \in [Closers -> CloseStages]
  /\ loop # "running" => closed

Init ==
  /\ closed = FALSE /\ loop = "running" /\ gaveUp = FALSE
  /\ call = [t \in Threads |-> "idle"]
  /\ closer = [c \in Closers |-> "idle"]

------------------------------------------------------------------------------
CallGoes(t, from, to) == call[t] = from /\ call' = [call EXCEPT ![t] = to]

\* _run: a closed client refuses the call before its coroutine is made.
Run(t) ==
  /\ ~closed /\ CallGoes(t, "idle", "checked")
  /\ UNCHANGED <<closed, loop, closer, gaveUp>>

\* _submit: run_coroutine_threadsafe, which only a closed loop refuses.
Submit(t) ==
  /\ CallGoes(t, "checked", IF loop = "closed" THEN "idle" ELSE "submitted")
  /\ UNCHANGED <<closed, loop, closer, gaveUp>>

\* The coroutine is done, with a result or an error, and the thread goes on.
Answered(t) ==
  /\ loop \in {"running", "stopping"} /\ CallGoes(t, "submitted", "idle")
  /\ UNCHANGED <<closed, loop, closer, gaveUp>>

------------------------------------------------------------------------------
At(c, from, to) == closer[c] = from /\ closer' = [closer EXCEPT ![c] = to]

\* close looks at the flag before it sets it: two threads may both go on.
Close(c) ==
  /\ ~closed /\ At(c, "idle", "entered")
  /\ UNCHANGED <<closed, loop, call, gaveUp>>

SetClosed(c) ==
  /\ At(c, "entered", "aclose")
  /\ closed' = TRUE
  /\ UNCHANGED <<loop, call, gaveUp>>

AcloseFails_NoFinally(c) ==
  /\ At(c, "aclose", "idle")
  /\ UNCHANGED <<closed, loop, call, gaveUp>>

AcloseEnds(c) ==
  /\ loop \in {"running", "stopping"} /\ At(c, "aclose", "stop")
  /\ UNCHANGED <<closed, loop, call, gaveUp>>

\* It raised, took longer than its timeout, or found the loop closed; the finally.
AcloseFails(c) ==
  /\ At(c, "aclose", "stop")
  /\ UNCHANGED <<closed, loop, call, gaveUp>>

\* _shutdown_loop; call_soon_threadsafe raises once the loop is closed.
Stop(c) ==
  /\ At(c, "stop", IF loop = "closed" THEN "idle" ELSE "join")
  /\ loop' = IF loop = "running" THEN "stopping" ELSE loop
  /\ UNCHANGED <<closed, call, gaveUp>>

\* run_forever returns and the thread ends.
LoopStops ==
  /\ loop = "stopping"
  /\ loop' = "stopped"
  /\ UNCHANGED <<closed, call, closer, gaveUp>>

\* join, until the thread has ended or its timeout has passed.
Join(c) ==
  /\ At(c, "join", "close")
  /\ gaveUp' = (gaveUp \/ loop = "stopping")
  /\ UNCHANGED <<closed, loop, call>>

\* loop.close raises while the loop runs; closing it twice does nothing.
CloseLoop(c) ==
  /\ At(c, "close", "idle")
  /\ loop' = IF loop = "stopped" THEN "closed" ELSE loop
  /\ UNCHANGED <<closed, call, gaveUp>>

Next ==
  \/ \E t \in Threads : Run(t) \/ Submit(t) \/ Answered(t)
  \/ \E c \in Closers : \/ Close(c) \/ SetClosed(c) \/ AcloseEnds(c) \/ AcloseFails(c)
                        \/ Stop(c) \/ Join(c) \/ CloseLoop(c)
  \/ LoopStops

Spec == Init /\ [][Next]_syncVars
------------------------------------------------------------------------------
\* "Nothing outlives the client: no dangling thread, no running loop": once every
\* close has returned the loop is closed, however they overlap and whatever fails,
\* but for a thread that did not end within the timeout of join.
NothingOutlives ==
  closed /\ (\A c \in Closers : closer[c] = "idle") => loop = "closed" \/ gaveUp

\* "blocks the calling thread until the coroutine finishes and re-raises whatever
\* it raised": no thread waits for a coroutine that no loop will run.
NoCallHangs ==
  loop \in {"stopped", "closed"} => \A t \in Threads : call[t] # "submitted"
==============================================================================
