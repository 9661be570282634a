---------------------------- MODULE TurnPipeline ----------------------------
(***************************************************************************)
(* The agent's completion and the runtime that reads it, joined by the     *)
(* stream of one gRPC call.  The runtime does not trust the agent: source  *)
(* says whether the stream is this agent's, or a stranger's that may send  *)
(* anything the protocol can express.                                      *)
(***************************************************************************)
EXTENDS AgentLoop, TurnStream

CONSTANTS
  StrangerMessage,  \* message identifiers a stranger uses
  MaxSeq            \* bound on the numbers it sends

ASSUME StrangerAssumption == StrangerMessage \subseteq Message /\ MaxSeq \in Nat

VARIABLE source  \* agent, stranger

vars == <<agentVars, runtimeVars, wire, rpc, source>>

TypeOK ==
  /\ AgentTypeOK /\ RuntimeTypeOK
  /\ wire \in Seq(Event) /\ Len(wire) <= WireLimit
  /\ rpc \in {"none", "open", "ended", "broken", "cancelled"}
  /\ source \in {"agent", "stranger"}

Init ==
  /\ AgentInit /\ RuntimeInit
  /\ wire = << >> /\ rpc = "none"
  /\ source \in {"agent", "stranger"}

StrangerEvent ==
  {Other(type) : type \in {"other", "created", "completed", "failed", "cancelled"}}
  \cup {Text(m) : m \in StrangerMessage \cup {NoMessage}}
  \cup {Done(m, calls, named) :
           m \in StrangerMessage \cup {NoMessage}, calls \in Calls, named \in BOOLEAN}
  \cup {ToolStarted(c) : c \in Call \cup {NoCall}}
  \cup {ToolResult(c, r) : c \in Call \cup {NoCall}, r \in Result}

(* It matters what the runtime finds when it reads.                        *)
StrangerSends ==
  /\ rpc = "open" /\ wire = << >> /\ at = "reading"
  /\ \E e \in StrangerEvent, n \in 0..MaxSeq : wire' = <<[e EXCEPT !.seq = n]>>
  /\ UNCHANGED rpc

StrangerEnds == rpc = "open" /\ rpc' = "ended" /\ UNCHANGED wire

(* The deadline of the call, a lost connection, a dead agent.              *)
Breaks == rpc = "open" /\ rpc' = "broken" /\ UNCHANGED wire

Next ==
  \/ source = "agent" /\ AgentNext /\ UNCHANGED <<runtimeVars, source>>
  \/ /\ source = "stranger"
     /\ StrangerSends \/ StrangerEnds
     /\ UNCHANGED <<agentVars, runtimeVars, source>>
  \/ Breaks /\ UNCHANGED <<agentVars, runtimeVars, source>>
  \/ RuntimeNext /\ UNCHANGED <<agentVars, source>>

Spec == Init /\ [][Next]_vars

-----------------------------------------------------------------------------
(* What the agent has of the conversation: the graph's messages, and the   *)
(* results of a batch that are complete but not yet returned to the graph. *)
Spoken == IF batch # << >> /\ Unpublished = {} THEN conv \o Answers ELSE conv

(* The stored messages behind the question are the beginning of the        *)
(* agent's own conversation, order and results included, and all of it     *)
(* once the turn is completed: the next turn goes on where it ended.       *)
StoredIsConversation ==
  source = "agent" =>
    /\ \A r \in rows : r.sequence > 1 =>
         /\ r.sequence - 1 \in DOMAIN Spoken
         /\ r.entry = Spoken[r.sequence - 1]
    /\ turnRow = "completed" => Cardinality(rows) = Len(conv) + 1

(* The runtime never takes this agent's stream for a broken protocol,      *)
(* except for a call without a name, which the agent does not refuse.      *)
AgentIsUnderstood ==
  [][source = "agent" /\ refused' /\ ~refused => ~Head(wire).named]_vars

(* This agent's stream never breaks the manager: what it sends, in which   *)
(* order it comes and wherever it ends, only a failing database does.      *)
AgentSparesSession == source = "agent" /\ broken => faults > 0
=============================================================================
