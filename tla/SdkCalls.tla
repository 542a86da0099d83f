------------------------------- MODULE SdkCalls -------------------------------
(***************************************************************************)
(* CortadelClient of the TypeScript SDK (sdk/typescript/src/client.ts):    *)
(* every call builds its own adapter around one fetch, and turns whatever  *)
(* comes back - a body, a typed or bare error, a cancellation - into its   *)
(* outcome.  Calls of one client overlap, and several may be given the     *)
(* same AbortSignal.  An aborted signal rejects everything that waits on   *)
(* it with one object, its reason.                                         *)
(***************************************************************************)
EXTENDS Naturals, FiniteSets

CONSTANTS Calls,    \* the calls of a behaviour
          Signals,  \* the callers' AbortSignals
          None

VARIABLES
  op,       \* per call: "get", "health", "other" (which requires a body), or None
  signal,   \* the caller's signal of each call, or None
  phase,    \* "idle", "sent", "headers", "done"
  status,   \* status.value of invoke: what this call's fetch observed, or 0
  body,     \* what the response carries once it is read
  latest,   \* history: the status any call of the client observed last
  aborted,  \* the signals that are aborted
  tagged,   \* the FALLBACK_STATUS on the reason of each signal, or 0
  outcome   \* how each call ended

sdkVars == <<op, signal, phase, status, body, latest, aborted, tagged, outcome>>

\* A response of the server, or of a proxy before it: "typed" and "validation" are
\* the error schemas, which carry the status; a "bare" one has nothing to parse.
Responses == {<<200, "value">>, <<200, "empty">>, <<404, "typed">>, <<404, "bare">>,
              <<400, "validation">>, <<503, "health">>, <<500, "bare">>}

Ends(kind, st) == [kind |-> kind, status |-> st]
Pending == Ends("pending", 0)

TypeOK ==
  /\ op \in [Calls -> {"get", "health", "other", None}]
  /\ signal \in [Calls -> Signals \cup {None}]
  /\ phase \in [Calls -> {"idle", "sent", "headers", "done"}]
  /\ \A c \in Calls : phase[c] = "headers" => <<status[c], body[c]>> \in Responses
  /\ aborted \subseteq Signals /\ \A s \in Signals : tagged[s] # 0 => s \in aborted
  /\ \A c \in Calls : phase[c] = "done" <=> outcome[c] # Pending

Init ==
  /\ op = [c \in Calls |-> None] /\ signal = op
  /\ phase = [c \in Calls |-> "idle"]
  /\ status = [c \in Calls |-> 0] /\ body = [c \in Calls |-> "none"] /\ latest = 0
  /\ aborted = {} /\ tagged = [s \in Signals |-> 0]
  /\ outcome = [c \in Calls |-> Pending]

------------------------------------------------------------------------------
\* invoke up to its fetch, with the signal composeSignal makes of the caller's and
\* of the timeout.
Invoke(c, o, s) ==
  /\ phase[c] = "idle"
  /\ op' = [op EXCEPT ![c] = o] /\ signal' = [signal EXCEPT ![c] = s]
  /\ phase' = [phase EXCEPT ![c] = "sent"]
  /\ UNCHANGED <<status, body, latest, aborted, tagged, outcome>>

\* customFetch: the status is kept as soon as the headers are there.
FetchReturns(c, response) ==
  /\ phase[c] = "sent"
  /\ response = <<503, "health">> => op[c] = "health"
  /\ phase' = [phase EXCEPT ![c] = "headers"]
  /\ status' = [status EXCEPT ![c] = response[1]] /\ latest' = response[1]
  /\ body' = [body EXCEPT ![c] = response[2]]
  /\ UNCHANGED <<op, signal, aborted, tagged, outcome>>

End(c, how) ==
  /\ phase' = [phase EXCEPT ![c] = "done"]
  /\ outcome' = [outcome EXCEPT ![c] = how]
  /\ UNCHANGED <<op, signal, status, body, latest, aborted>>

FallbackStatus_Shared(c) == latest
\* attachFallbackStatus: what this call's own fetch observed.
FallbackStatus(c) == status[c]

\* resolvedStatus of the error a response becomes.
ResolvedStatus(c) == IF body[c] = "bare" THEN FallbackStatus(c) ELSE status[c]

\* translateError of an error that is no cancellation.
TranslateError(c) == Ends("error", ResolvedStatus(c))

\* get: a 404 of any shape, and a success without a body, mean there is none.
Get(c) ==
  IF body[c] = "value" THEN Ends("value", 200)
  ELSE IF body[c] = "empty" \/ ResolvedStatus(c) = 404 THEN Ends("null", 0)
  ELSE TranslateError(c)

\* health: the 503 of a degraded server is thrown, and is a result all the same.
Health(c) ==
  IF body[c] \in {"value", "health"} THEN Ends("value", status[c])
  ELSE IF body[c] = "empty" THEN Ends("error", 502) ELSE TranslateError(c)

\* add, addConversation, search, list and delete: invokeRequired.
Other(c) ==
  IF body[c] = "value" THEN Ends("value", 200)
  ELSE IF body[c] = "empty" THEN Ends("error", 502) ELSE TranslateError(c)

\* The body is read and parsed, or found to be no body Kiota can parse.
Settles(c) ==
  /\ phase[c] = "headers"
  /\ End(c, CASE op[c] = "get" -> Get(c) [] op[c] = "health" -> Health(c)
              [] OTHER -> Other(c))
  /\ UNCHANGED tagged

\* fetch rejects without a response: a bare error, of which no status is known.
TransportFails(c) ==
  /\ phase[c] = "sent"
  /\ End(c, Ends("error", FallbackStatus(c)))
  /\ UNCHANGED tagged

\* The connection breaks while the body is read: an error with the fallback status.
BodyFails(c) ==
  /\ phase[c] = "headers"
  /\ End(c, IF op[c] = "get" /\ FallbackStatus(c) = 404 THEN Ends("null", 0)
            ELSE Ends("error", FallbackStatus(c)))
  /\ UNCHANGED tagged

\* The timeout of this call, before or after the headers.  Its reason is its own.
TimesOut(c) ==
  /\ phase[c] \in {"sent", "headers"}
  /\ End(c, IF op[c] = "get" /\ status[c] = 404 THEN Ends("null", 0) ELSE Ends("abort", 0))
  /\ UNCHANGED tagged

Abort(s) ==
  /\ s \notin aborted /\ aborted' = aborted \cup {s}
  /\ UNCHANGED <<op, signal, phase, status, body, latest, tagged, outcome>>

\* The fetch, or the reading of the body, rejects with the reason of the caller's
\* signal; a status it does not carry yet is attached to it.
Cancelled(c) ==
  LET s == signal[c]
      tag == IF tagged[s] # 0 THEN tagged[s] ELSE status[c]
  IN /\ phase[c] \in {"sent", "headers"} /\ s \in aborted
     /\ tagged' = [tagged EXCEPT ![s] = tag]
     /\ End(c, IF op[c] = "get" /\ tag = 404 THEN Ends("null", 0) ELSE Ends("abort", 0))

Next ==
  \/ \E c \in Calls :
       \/ \E o \in {"get", "health", "other"}, s \in Signals \cup {None} : Invoke(c, o, s)
       \/ \E response \in Responses : FetchReturns(c, response)
       \/ Settles(c)
       \/ TransportFails(c)
       \/ BodyFails(c)
       \/ TimesOut(c)
       \/ Cancelled(c)
  \/ \E s \in Signals : Abort(s)

Spec == Init /\ [][Next]_sdkVars
------------------------------------------------------------------------------
\* client.ts 373-380: no call's status races with another's.  An error carries what
\* this call's own response said, 0 without one or 502 for an empty success, and a
\* result is that of its own successful response.
OwnStatus ==
  \A c \in Calls :
    /\ outcome[c].kind = "error" =>
         outcome[c].status \in {status[c]} \cup (IF body[c] = "empty" THEN {502} ELSE {})
    /\ outcome[c].kind = "value" =>
         body[c] = "value" \/ (op[c] = "health" /\ status[c] = 503)

\* "Returns null if it does not exist" (client.ts 316-318), and a cancellation "must
\* propagate untouched" (client.ts 49-50): get answers null only when its own
\* response said so.
NullMeansMissing ==
  \A c \in Calls : outcome[c].kind = "null" => status[c] = 404 \/ body[c] = "empty"
==============================================================================
