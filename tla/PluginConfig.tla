----------------------------- MODULE PluginConfig -----------------------------
(***************************************************************************)
(* Where the scripts of the editor plugin find their server and their user *)
(* (cortadel-plugin/scripts).  The editor hands the installed options to a *)
(* hook as CLAUDE_PLUGIN_OPTION_* variables; the scripts a skill runs, the *)
(* doctor and reconcile, do not see those and read the installed options   *)
(* from disk.  Both also read CORTADEL_* variables.                        *)
(***************************************************************************)
EXTENDS Naturals, FiniteSets

CONSTANTS Options,  \* base_url, user_id, api_key
          Unset     \* no such variable, or option

VARIABLES
  disk,      \* the installed options: a value, "" or Unset
  env,       \* the CORTADEL_* variables: a value, "" or Unset
  disabled,  \* CORTADEL_HOOKS_DISABLE is 1
  hooks,     \* what cfg() of a hook found, once one has run
  skills     \* what resolveApiConfig of a skill's script found, once one has run

configVars == <<disk, env, disabled, hooks, skills>>

\* A value names where it is written; both places may hold the same one.
Values == {"installed", "shell", "same", "", Unset}
NotRun == [o \in Options |-> "not run"]
NoConfig == [o \in Options |-> Unset]

TypeOK ==
  /\ disk \in [Options -> Values] /\ env \in [Options -> Values] /\ disabled \in BOOLEAN
  /\ hooks = NotRun \/ hooks = NoConfig \/ hooks \in [Options -> Values \ {"", Unset}]
  /\ skills = NotRun \/ skills = NoConfig \/ skills \in [Options -> Values \ {"", Unset}]

Init ==
  /\ disk \in [Options -> {"installed", "same", "", Unset}]
  /\ env \in [Options -> {"shell", "same", "", Unset}]
  /\ disabled \in BOOLEAN
  /\ hooks = NotRun /\ skills = NotRun

------------------------------------------------------------------------------
Truthy(v) == v \notin {"", Unset}
Known(found) == IF \A o \in Options : Truthy(found[o]) THEN found ELSE NoConfig

\* readOption in a hook: the plugin's option if there is one, blank or not.
ReadOption(o) == IF disk[o] # Unset THEN disk[o] ELSE env[o]

\* cfg
HookRuns ==
  /\ hooks = NotRun
  /\ hooks' = IF disabled THEN NoConfig ELSE Known([o \in Options |-> ReadOption(o)])
  /\ UNCHANGED <<disk, env, disabled, skills>>

Resolve_NoDisk(o) == env[o]
\* resolve in a skill's script, which sees no CLAUDE_PLUGIN_OPTION_*: the variable,
\* and the installed option under it.
Resolve(o) == IF Truthy(env[o]) THEN env[o] ELSE disk[o]

\* resolveApiConfig, and the same steps of doctor.mjs
SkillRuns ==
  /\ skills = NotRun
  /\ skills' = Known([o \in Options |-> Resolve(o)])
  /\ UNCHANGED <<disk, env, disabled, hooks>>

Next == HookRuns \/ SkillRuns

Spec == Init /\ [][Next]_configVars
------------------------------------------------------------------------------
\* Each option is given in one place, or the same in both, and none is blank.
Unambiguous == \A o \in Options :
  /\ "" \notin {disk[o], env[o]}
  /\ Unset \in {disk[o], env[o]} \/ disk[o] = env[o]

\* "The distinction matters" (plugin-config.mjs 4), "Same precedence the hooks use"
\* (plugin-config.mjs 70-72): unless an option is given twice or blank, the
\* doctor and reconcile look at the server and the user the hooks use, and find
\* the install configured exactly when the hooks do.
MemoriesAreOwn ==
  Unambiguous /\ ~disabled /\ NotRun \notin {hooks, skills} => hooks = skills
==============================================================================
