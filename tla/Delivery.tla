------------------------------- MODULE Delivery -------------------------------
(***************************************************************************)
(* What an integration that forwards conversation messages to Cortadel and *)
(* never retries promises about each message: it is owed to the server,    *)
(* sent at most once, and ends stored or lost; while it is still owed it   *)
(* can be withdrawn.  Nothing else happens to it, in any order of events.  *)
(***************************************************************************)
CONSTANT Msgs
VARIABLE fate

Fates == {"new", "owed", "sending", "stored", "lost", "withdrawn"}

\* The fates a message can move on to; one step of an implementation may
\* take in a message and send it at once.
After(f) ==
  CASE f = "new"     -> {"owed", "sending"}
    [] f = "owed"    -> {"sending", "withdrawn"}
    [] f = "sending" -> {"stored", "lost"}
    [] OTHER         -> {}

Init == fate = [m \in Msgs |-> "new"]

Next ==
  /\ fate' \in [Msgs -> Fates]
  /\ \A m \in Msgs : fate'[m] = fate[m] \/ fate'[m] \in After(fate[m])

Spec == Init /\ [][Next]_fate
==============================================================================
