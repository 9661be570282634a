------------------------------ MODULE TurnWire ------------------------------
(***************************************************************************)
(* What passes between the agent and the backend while a turn runs: the    *)
(* gRPC stream of completion events (agent_proto/agent.proto), and the     *)
(* entries of the conversation both keep of it.  A message identifier is a *)
(* uuid4: identifiers are numbers in the order of their creation.          *)
(***************************************************************************)
EXTENDS Naturals, Sequences, FiniteSets

CONSTANTS
  Call,         \* identifiers of tool calls, chosen by the model
  NoCall,       \* the absent identifier (an empty string)
  MaxCalls,     \* bound on the calls of one message
  MaxMessages,  \* bound on the model requests of a turn
  MaxAttempts,  \* MODEL_MAX_ATTEMPTS
  WireLimit,    \* bound on the events under way
  MaxFaults     \* bound on failing database calls

ASSUME CallAssumption == NoCall \notin Call
ASSUME WireBounds ==
  /\ {MaxCalls, MaxMessages, MaxAttempts, WireLimit} \subseteq Nat \ {0}
  /\ MaxFaults \in Nat

VARIABLES
  wire,  \* events sent and not yet read
  rpc    \* the call: none, open, ended (by the agent), broken, cancelled

Message == 1..MaxMessages
NoMessage == 0

Calls == UNION {[1..n -> Call] : n \in 0..MaxCalls}
Distinct(calls) == \A i, j \in DOMAIN calls : calls[i] = calls[j] => i = j

(* What a tool message says.  fine: a result.  failed: a result with       *)
(* ok = false and a list "errors".  garbled: a result_json that is not     *)
(* JSON.  error: no result, but an error text.  missing: neither.          *)
Result == {"fine", "failed", "garbled", "error", "missing"}
Pending == "pending"

(* text: model_message.started and .delta.  result: tool_completed and     *)
(* tool_failed.  other: completion.created, source_indexed and             *)
(* model_request.retrying, which carry nothing the runtime looks at.       *)
(* created: a type of the backend's own, message.created, which the        *)
(* protocol's string does not exclude.                                     *)
EventType == {"other", "created", "text", "done", "tool_started", "result",
              "completed", "failed", "cancelled"}
Event == [type : EventType, seq : Nat, mid : Message \cup {NoMessage},
          calls : Calls, named : BOOLEAN, call : Call \cup {NoCall},
          result : Result \cup {Pending}]

Other(type) == [type |-> type, seq |-> 0, mid |-> NoMessage, calls |-> << >>,
                named |-> TRUE, call |-> NoCall, result |-> Pending]
Text(m) == [Other("text") EXCEPT !.mid = m]
Done(m, calls, named) ==
  [Other("done") EXCEPT !.mid = m, !.calls = calls, !.named = named]
ToolStarted(c) == [Other("tool_started") EXCEPT !.call = c]

(* Mutant of ToolResult: a failure is sent as plain text.                  *)
ToolResultPlain(c, r) ==
  [Other("result") EXCEPT !.call = c, !.result = IF r = "failed" THEN "garbled" ELSE r]

ToolResult(c, r) == [Other("result") EXCEPT !.call = c, !.result = r]

(* A message of the conversation: of the user, of the model, of a tool.    *)
Asked == [role |-> "user", calls |-> << >>, call |-> NoCall, result |-> Pending]
Said(calls) == [Asked EXCEPT !.role = "assistant", !.calls = calls]
Answered(c, r) == [Asked EXCEPT !.role = "tool", !.call = c, !.result = r]
=============================================================================
