------------------------------ MODULE PluginHooks ------------------------------
(***************************************************************************)
(* The hook scripts of the editor plugin (cortadel-plugin/scripts).  Every *)
(* hook of every session is a process of its own: it asks the server,      *)
(* records the outcome in the one log file they share (logEvent of         *)
(* lib.mjs), which it rotates when it has grown too large, and may hand    *)
(* context to the session.  They run at the same time: the Stop hook is    *)
(* asynchronous, and several sessions may be open.                         *)
(***************************************************************************)
EXTENDS Naturals, FiniteSets

CONSTANTS Processes,  \* the hooks that may run at once
          MaxLines,   \* LOG_MAX_BYTES, in lines
          MaxRuns,    \* bound on the hooks ever run
          None

HooksAssumption == MaxLines \in Nat /\ MaxRuns \in Nat /\ IsFiniteSet(Processes) /\ None \notin Nat

VARIABLES
  windows,  \* rename does not replace a file
  at,       \* per process: the step it is at
  hook,     \* per process: the event it was started for
  event,    \* per process: the outcome it records
  log,      \* the lines of the log file, or None when there is no file
  rotated,  \* the lines of the rotated one, or None
  runs      \* how many hooks have run

hookVars == <<windows, at, hook, event, log, rotated, runs>>

Hooks == {"SessionStart", "UserPromptSubmit", "Stop"}
Outcomes == {"skip", "error", "no-results", "injected", "no-facts", "stored"}
Steps == {"idle", "asks", "stat", "remove", "rename", "append", "emit"}

TypeOK ==
  /\ at \in [Processes -> Steps] /\ hook \in [Processes -> Hooks \cup {None}]
  /\ event \in [Processes -> Outcomes \cup {None}]
  /\ log \in Nat \cup {None} /\ rotated \in Nat \cup {None} /\ runs \in 0..MaxRuns

Init ==
  /\ windows \in BOOLEAN
  /\ at = [p \in Processes |-> "idle"] /\ hook = [p \in Processes |-> None] /\ event = hook
  /\ log = None /\ rotated = None /\ runs = 0

------------------------------------------------------------------------------
Goes(p, step) == at' = [at EXCEPT ![p] = step]

\* A hook starts: it has a request to make, or skips with a reason.
Start(p, h) ==
  /\ at[p] = "idle" /\ runs < MaxRuns /\ runs' = runs + 1
  /\ \/ Goes(p, "asks") /\ hook' = [hook EXCEPT ![p] = h] /\ UNCHANGED event
     \/ Goes(p, "stat") /\ event' = [event EXCEPT ![p] = "skip"] /\ UNCHANGED hook
  /\ UNCHANGED <<windows, log, rotated>>

Answered(p, outcomes) ==
  /\ at[p] = "asks" /\ Goes(p, "stat")
  /\ \E o \in outcomes : event' = [event EXCEPT ![p] = o]
  /\ hook' = [hook EXCEPT ![p] = None]
  /\ UNCHANGED <<windows, log, rotated, runs>>

\* apiDetailed that is not ok: a status, an abort, no network, no JSON.
RequestFails(p) == Answered(p, {"error"})

\* session-start.mjs: the newest memories, or at least that memory is active.
SessionStartAnswered(p) == hook[p] = "SessionStart" /\ Answered(p, {"injected", "error"})

\* user-prompt-submit.mjs: what reaches the floor is handed over.
PromptAnswered(p) == hook[p] = "UserPromptSubmit" /\ Answered(p, {"injected", "no-results"})

\* stop-capture.mjs
StopAnswered(p) == hook[p] = "Stop" /\ Answered(p, {"stored", "no-facts"})

\* The limit taken for one in units of 1024.
Stat_WrongUnit(p) ==
  /\ at[p] = "stat"
  /\ Goes(p, IF log # None /\ log > 1024 * MaxLines THEN "remove" ELSE "append")
  /\ UNCHANGED <<windows, hook, event, log, rotated, runs>>

\* logEvent: the size is looked at before anything is done about it.
Stat(p) ==
  /\ at[p] = "stat"
  /\ Goes(p, IF log # None /\ log > MaxLines THEN "remove" ELSE "append")
  /\ UNCHANGED <<windows, hook, event, log, rotated, runs>>

\* rmSync, forced
Remove(p) ==
  /\ at[p] = "remove" /\ Goes(p, "rename") /\ rotated' = None
  /\ UNCHANGED <<windows, hook, event, log, runs>>

\* renameSync: it fails when another process was first, and its error is caught.
Rename(p) ==
  /\ at[p] = "rename" /\ Goes(p, "append")
  /\ IF log = None \/ (windows /\ rotated # None) THEN UNCHANGED <<log, rotated>>
     ELSE rotated' = log /\ log' = None
  /\ UNCHANGED <<windows, hook, event, runs>>

\* Only a hook that injects still has something to write when it has logged.
AppendLine(p) ==
  /\ at[p] = "append" /\ Goes(p, IF event[p] = "injected" THEN "emit" ELSE "idle")
  /\ log' = IF log = None THEN 1 ELSE log + 1
  /\ event' = [event EXCEPT ![p] = None]
  /\ UNCHANGED <<windows, hook, rotated, runs>>

\* emitContext, and the end of the process.
EmitContext(p) ==
  at[p] = "emit" /\ Goes(p, "idle") /\ UNCHANGED <<windows, hook, event, log, rotated, runs>>

Next == \E p \in Processes :
  \/ \E h \in Hooks : Start(p, h)
  \/ RequestFails(p) \/ SessionStartAnswered(p) \/ PromptAnswered(p) \/ StopAnswered(p)
  \/ Stat(p) \/ Remove(p) \/ Rename(p) \/ AppendLine(p) \/ EmitContext(p)

Spec == Init /\ [][Next]_hookVars
------------------------------------------------------------------------------
\* "keeping at most two generations" (lib.mjs 213-215): however the processes
\* interleave between looking at the file and moving it, and whether or not a
\* rename replaces, no generation grows past the limit by more than one line per
\* process.
LogBounded == \A file \in {log, rotated} \ {None} : file <= MaxLines + Cardinality(Processes)
==============================================================================
