------------------------------ MODULE AgentLoop ------------------------------
(***************************************************************************)
(* One completion in the agent: the graph of model calls, retries and tool *)
(* batches (core/graph.py, model_invocation.py), the tools of a batch that *)
(* run in parallel under one deadline (core/executor.py), and the stream   *)
(* of numbered events it makes of them (core/loop.py, application.py).     *)
(* What the model says and what a tool returns is arbitrary.               *)
(***************************************************************************)
EXTENDS TurnWire, Functions

VARIABLES
  node,      \* off, model, retry_wait, tools, answered, ended
  attempt,   \* failed attempts of this model call (model_attempt)
  used,      \* message identifiers created
  mid,       \* the identifier of the message that is streamed (message_id)
  batch,     \* the tool calls in execution
  task,      \* what the task of a call has come to: running or a result
  published, \* results emitted, by call
  conv,      \* the graph's messages, from the first of this turn
  sent       \* number of the last event (seq)

agentVars == <<node, attempt, used, mid, batch, task, published, conv, sent>>

Running == "running"

AgentTypeOK ==
  /\ node \in {"off", "model", "retry_wait", "tools", "answered", "ended"}
  /\ attempt \in 0..(MaxAttempts - 1)
  /\ used \in 0..MaxMessages /\ mid \in 0..MaxMessages
  /\ batch \in Calls
  /\ task \in [Call -> {Pending, Running, "fine", "failed"}]
  /\ published \in [Call -> {Pending, "fine", "failed"}]
  /\ \A i \in DOMAIN conv : conv[i].role \in {"assistant", "tool"}
  /\ sent \in Nat

AgentInit ==
  /\ node = "off" /\ attempt = 0
  /\ used = 0 /\ mid = NoMessage
  /\ batch = << >>
  /\ task = [c \in Call |-> Pending]
  /\ published = [c \in Call |-> Pending]
  /\ conv = << >> /\ sent = 0

(* The generator yields its events one by one, each under the next number. *)
Emit(events) ==
  /\ rpc = "open" /\ Len(wire) + Len(events) <= WireLimit
  /\ wire' = wire \o [i \in DOMAIN events |-> [events[i] EXCEPT !.seq = sent + i]]
  /\ sent' = sent + Len(events)

(* The last events of a stream. *)
EmitLast(events) ==
  /\ Emit(events)
  /\ rpc' = "ended"
  /\ node' = "ended"

-----------------------------------------------------------------------------
(* prepare_workspace fails or the request is not valid: the call is        *)
(* aborted before its first event.                                         *)
Refuse ==
  /\ node = "off" /\ rpc = "open"
  /\ node' = "ended" /\ rpc' = "broken"
  /\ UNCHANGED <<wire, attempt, used, mid, batch, task, published, conv, sent>>

Accept ==
  /\ node = "off"
  /\ Emit(<<Other("other"), Other("other")>>)
  /\ node' = "model"
  /\ UNCHANGED <<rpc, attempt, used, mid, batch, task, published, conv>>

(* A message is announced with its first chunk, or at the latest with the  *)
(* outcome of its request.                                                 *)
Opening == IF mid = NoMessage THEN <<Text(used + 1)>> ELSE << >>
MessageId == IF mid = NoMessage THEN used + 1 ELSE mid
CloseMessage ==
  /\ used' = MessageId
  /\ mid' = NoMessage

(* Another request can follow within the bound. *)
MoreMessages == MessageId < MaxMessages

FirstChunk ==
  /\ node = "model" /\ mid = NoMessage
  /\ Emit(Opening)
  /\ mid' = MessageId /\ used' = MessageId
  /\ UNCHANGED <<rpc, node, attempt, batch, task, published, conv>>

(* Mutant of ModelFails: the attempts are not counted against their bound. *)
ModelFailsAlways ==
  /\ node = "model" /\ MoreMessages
  /\ Emit(Opening \o <<Other("other")>>)
  /\ attempt' = attempt + 1
  /\ node' = "retry_wait"
  /\ CloseMessage
  /\ UNCHANGED <<rpc, batch, task, published, conv>>

(* The request fails, or its answer is not a complete message: nothing of  *)
(* it enters the conversation.                                             *)
ModelFails ==
  /\ node = "model" /\ attempt + 1 < MaxAttempts /\ MoreMessages
  /\ Emit(Opening \o <<Other("other")>>)
  /\ attempt' = attempt + 1
  /\ node' = "retry_wait"
  /\ CloseMessage
  /\ UNCHANGED <<rpc, batch, task, published, conv>>

RetryDue ==
  /\ node = "retry_wait" /\ rpc = "open"
  /\ node' = "model"
  /\ UNCHANGED <<wire, rpc, attempt, used, mid, batch, task, published, conv, sent>>

ModelGivesUp ==
  /\ node = "model" /\ attempt + 1 = MaxAttempts
  /\ EmitLast(Opening \o <<Other("failed")>>)
  /\ CloseMessage
  /\ UNCHANGED <<attempt, batch, task, published, conv>>

(* An exception of the graph or of an event's conversion fails the         *)
(* completion: call identifiers that are not unique, values without a JSON *)
(* form, too many steps.                                                   *)
CompletionFails ==
  /\ node \in {"model", "tools"}
  /\ EmitLast(<<Other("failed")>>)
  /\ UNCHANGED <<attempt, used, mid, batch, task, published, conv>>

(* A complete message; its calls start together.                           *)
ModelReplies(calls, named) ==
  /\ node = "model" /\ Distinct(calls)
  /\ calls = << >> => named
  /\ calls # << >> => MoreMessages
  /\ Emit(Opening \o <<Done(MessageId, calls, named)>>
          \o [i \in DOMAIN calls |-> ToolStarted(calls[i])])
  /\ CloseMessage
  /\ attempt' = 0
  /\ conv' = Append(conv, Said(calls))
  /\ batch' = calls
  /\ task' = [c \in Call |-> IF c \in Range(calls) THEN Running ELSE Pending]
  /\ published' = [c \in Call |-> Pending]
  /\ node' = IF calls = << >> THEN "answered" ELSE "tools"
  /\ UNCHANGED rpc

Complete ==
  /\ node = "answered"
  /\ EmitLast(<<Other("completed")>>)
  /\ UNCHANGED <<attempt, used, mid, batch, task, published, conv>>

-----------------------------------------------------------------------------
(* The batch.                                                              *)

(* The calls of S in the order of the batch: one sequence, since the calls *)
(* of a batch are distinct.                                                *)
InOrder(S) ==
  {calls \in UNION {[1..n -> S] : n \in 0..Len(batch)} :
     /\ Range(calls) = S
     /\ \A i, j \in DOMAIN calls : i < j =>
          \E k, l \in DOMAIN batch : k < l /\ batch[k] = calls[i] /\ batch[l] = calls[j]}

(* What the tasks of these calls have come to is emitted, call by call.    *)
Publish(calls) ==
  /\ Emit([i \in DOMAIN calls |-> ToolResult(calls[i], task'[calls[i]])])
  /\ published' = [c \in Call |-> IF c \in Range(calls) THEN task'[c] ELSE published[c]]

Unpublished == {c \in Range(batch) : published[c] = Pending}
Finished == {c \in Unpublished : task[c] \in {"fine", "failed"}}

ToolEnds(c, r) ==
  /\ node = "tools" /\ rpc = "open" /\ c \in Range(batch) /\ task[c] = Running
  /\ task' = [task EXCEPT ![c] = r]
  /\ UNCHANGED <<wire, rpc, node, attempt, used, mid, batch, published, conv, sent>>

(* Mutant of PublishFinished: a finished task may be reported again. *)
PublishFinishedAgain ==
  LET ended == {c \in Range(batch) : task[c] \in {"fine", "failed"}} IN
  /\ node = "tools" /\ ended # {} /\ Unpublished # {}
  /\ UNCHANGED task /\ \E calls \in InOrder(ended) : Publish(calls)
  /\ UNCHANGED <<rpc, node, attempt, used, mid, batch, conv>>

(* asyncio.wait returns: what has finished by now is emitted in the order  *)
(* of the calls.                                                           *)
PublishFinished ==
  /\ node = "tools" /\ Finished # {}
  /\ UNCHANGED task /\ \E calls \in InOrder(Finished) : Publish(calls)
  /\ UNCHANGED <<rpc, node, attempt, used, mid, batch, conv>>

(* The deadline of the batch: what still runs is cancelled, and answered   *)
(* with a failure.  Its late result is lost.                               *)
DeadlinePasses ==
  /\ node = "tools" /\ Finished = {} /\ Unpublished # {}
  /\ task' = [c \in Call |-> IF c \in Unpublished THEN "failed" ELSE task[c]]
  /\ \E calls \in InOrder(Unpublished) : Publish(calls)
  /\ UNCHANGED <<rpc, node, attempt, used, mid, batch, conv>>

(* The task of call c raises (its message cannot be built): the results of *)
(* the calls before it are emitted if they are there, all others fail.     *)
ExecutorRaises(c) ==
  /\ node = "tools" /\ c \in Unpublished /\ task[c] = Running
  /\ LET before == {d \in Finished : \E i, j \in DOMAIN batch :
                      batch[i] = d /\ batch[j] = c /\ i < j}
     IN /\ task' = [d \in Call |-> IF d \in Unpublished \ before THEN "failed" ELSE task[d]]
        /\ \E first \in InOrder(before), rest \in InOrder(Unpublished \ before) :
             Publish(first \o rest)
  /\ UNCHANGED <<rpc, node, attempt, used, mid, batch, conv>>

(* The results join the conversation in the order of the calls.            *)
Answers == [i \in DOMAIN batch |-> Answered(batch[i], published[batch[i]])]

(* Mutant of ToolsReturn: the results are not put in the order of the calls. *)
ToolsReturnReversed ==
  /\ node = "tools" /\ Unpublished = {} /\ rpc = "open"
  /\ conv' = conv \o [i \in DOMAIN batch |-> Answers[Len(batch) + 1 - i]]
  /\ batch' = << >>
  /\ node' = "model"
  /\ UNCHANGED <<wire, rpc, attempt, used, mid, task, published, sent>>

ToolsReturn ==
  /\ node = "tools" /\ Unpublished = {} /\ rpc = "open"
  /\ conv' = conv \o Answers
  /\ batch' = << >>
  /\ node' = "model"
  /\ UNCHANGED <<wire, rpc, attempt, used, mid, task, published, sent>>

(* The stream is closed from outside: everything below it is cancelled.    *)
Abandoned ==
  /\ rpc \in {"broken", "cancelled"} /\ node # "ended"
  /\ node' = "ended"
  /\ UNCHANGED <<wire, rpc, attempt, used, mid, batch, task, published, conv, sent>>

-----------------------------------------------------------------------------
ModelStep ==
  \/ FirstChunk \/ ModelFails \/ ModelGivesUp \/ CompletionFails
  \/ \E calls \in Calls, named \in BOOLEAN : ModelReplies(calls, named)

LoopStep ==
  Refuse \/ Accept \/ RetryDue \/ Complete \/ PublishFinished \/ ToolsReturn \/ Abandoned

AgentNext ==
  \/ ModelStep \/ LoopStep \/ DeadlinePasses
  \/ \E c \in Call : ExecutorRaises(c) \/ \E r \in {"fine", "failed"} : ToolEnds(c, r)
=============================================================================
