-------------------------- MODULE TurnPipelineProofs --------------------------
(***************************************************************************)
(* The agent and the runtime that reads its stream, for every number of    *)
(* calls, messages, attempts and faults.  First: the types, and that the   *)
(* agent and the stranger are peers in the sense of TurnStreamProofs, so   *)
(* that what holds of the runtime with any peer holds here.  Then, for     *)
(* this agent: what is stored is its conversation, and the runtime         *)
(* understands its stream.  The invariant is a line of knowledge, from     *)
(* what the runtime has made of the events it read to what the agent has   *)
(* said, one piece of knowledge for each event that is under way.          *)
(***************************************************************************)
EXTENDS TurnPipeline, TurnStreamProofs, SequenceTheorems, FunctionTheorems,
        FiniteSetTheorems

Entry == [role : {"assistant", "tool"}, calls : Calls,
          call : Call \cup {NoCall}, result : Result \cup {Pending}]

(* While the agent may still announce a message there is an identifier for *)
(* it, and a message that is streamed has the last one.                    *)
AgentTypes ==
  /\ AgentTypeOK
  /\ conv \in Seq(Entry)
  /\ node \in {"off", "model", "retry_wait", "tools"} /\ mid = NoMessage => used < MaxMessages
  /\ mid # NoMessage => mid = used

PipelineTypes ==
  /\ AgentTypes
  /\ StreamTypes /\ Len(wire) <= WireLimit
  /\ source \in {"agent", "stranger"}

-----------------------------------------------------------------------------
(* The events of the protocol, and what a generator makes of them.         *)
LEMMA EventTypes ==
  /\ \A type \in EventType : Other(type) \in Event
  /\ \A m \in Message \cup {NoMessage} : Text(m) \in Event
  /\ \A m \in Message \cup {NoMessage}, calls \in Calls, named \in BOOLEAN :
       Done(m, calls, named) \in Event
  /\ \A c \in Call \cup {NoCall} : ToolStarted(c) \in Event
  /\ \A c \in Call \cup {NoCall}, r \in Result : ToolResult(c, r) \in Event
<1>1. \A type \in EventType : Other(type) \in Event
  BY NoCallsAreCalls DEF Other, Event
<1>2. {"text", "done", "tool_started", "result"} \subseteq EventType
  BY DEF EventType
<1>3. \A m \in Message \cup {NoMessage} : Text(m) \in Event
  BY <1>1, <1>2 DEF Event, Text
<1>4. \A m \in Message \cup {NoMessage}, calls \in Calls, named \in BOOLEAN :
        Done(m, calls, named) \in Event
  <2> SUFFICES ASSUME NEW m \in Message \cup {NoMessage}, NEW calls \in Calls,
                      NEW named \in BOOLEAN
               PROVE  Done(m, calls, named) \in Event
    OBVIOUS
  <2> DEFINE e == [Other("done") EXCEPT !.mid = m]
             f == [e EXCEPT !.calls = calls]
  <2>1. Other("done") \in Event
    BY <1>1, <1>2
  <2>2. e \in Event
    BY <2>1 DEF Event
  <2>3. f \in Event
    <3> HIDE DEF e
    <3> QED BY <2>2 DEF Event
  <2>4. [f EXCEPT !.named = named] \in Event
    <3> HIDE DEF f
    <3> QED BY <2>3 DEF Event
  <2> QED BY <2>4 DEF Done
<1>5. \A c \in Call \cup {NoCall} : ToolStarted(c) \in Event
  BY <1>1, <1>2 DEF Event, ToolStarted
<1>6. \A c \in Call \cup {NoCall}, r \in Result : ToolResult(c, r) \in Event
  BY <1>1, <1>2 DEF Event, ToolResult
<1> QED
  BY <1>1, <1>3, <1>4, <1>5, <1>6

LEMMA Renumbered ==
  ASSUME NEW e \in Event, NEW n \in Nat
  PROVE  [e EXCEPT !.seq = n] \in Event
  BY DEF Event

LEMMA EmitTypes ==
  ASSUME wire \in Seq(Event), sent \in Nat, NEW events \in Seq(Event), Emit(events)
  PROVE  /\ wire' \in Seq(Event) /\ Len(wire') <= WireLimit /\ sent' \in Nat
         /\ rpc = "open"
<1> DEFINE numbered == [i \in DOMAIN events |-> [events[i] EXCEPT !.seq = sent + i]]
<1>1. \A i \in DOMAIN events : events[i] \in Event /\ sent + i \in Nat
  OBVIOUS
<1>2. \A i \in DOMAIN events : [events[i] EXCEPT !.seq = sent + i] \in Event
  BY <1>1, Renumbered
<1>3. numbered \in Seq(Event) /\ Len(numbered) = Len(events)
  BY <1>2
<1>4. wire' = wire \o numbered /\ Len(wire) + Len(events) <= WireLimit
      /\ sent' = sent + Len(events) /\ rpc = "open"
  BY DEF Emit
<1> HIDE DEF numbered
<1>5. wire \o numbered \in Seq(Event) /\ Len(wire \o numbered) = Len(wire) + Len(numbered)
  BY <1>3, ConcatProperties
<1>6. Len(events) \in Nat
  OBVIOUS
<1> QED BY <1>3, <1>4, <1>5, <1>6

LEMMA OpeningTypes ==
  ASSUME AgentTypes, node = "model"
  PROVE  /\ Opening \in Seq(Event) /\ MessageId \in Message
         /\ MoreMessages => MessageId < MaxMessages
<1>1. used \in 0..MaxMessages /\ mid \in 0..MaxMessages /\ MaxMessages \in Nat
  BY WireBounds DEF AgentTypes, AgentTypeOK
<1>2. MessageId \in Message
  BY <1>1 DEF AgentTypes, MessageId, Message, NoMessage
<1>3. mid = NoMessage => used + 1 \in Message
  BY <1>2 DEF MessageId
<1>4. Opening \in Seq(Event)
  BY <1>3, EventTypes DEF Opening
<1> QED BY <1>2, <1>4 DEF MoreMessages

(* The parts of a batch, in order.                                         *)
LEMMA InOrderTypes ==
  ASSUME AgentTypes, NEW S, S \subseteq Call, NEW calls \in InOrder(S)
  PROVE  calls \in Seq(Call) /\ Range(calls) = S
<1>1. batch \in Seq(Call)
  BY CallsAreSequences DEF AgentTypes, AgentTypeOK
<1>2. PICK n \in 0..Len(batch) : calls \in [1..n -> S]
  BY DEF InOrder
<1>3. n \in Nat
  BY <1>1
<1> QED BY <1>2, <1>3 DEF InOrder

LEMMA BatchTypes ==
  ASSUME AgentTypes
  PROVE  batch \in Seq(Call) /\ Range(batch) \subseteq Call
<1>1. batch \in Seq(Call)
  BY CallsAreSequences DEF AgentTypes, AgentTypeOK
<1> QED BY <1>1 DEF Range

(* The results of a part of the batch go out, and are remembered.          *)
LEMMA PublishTypes ==
  ASSUME AgentTypes, wire \in Seq(Event), NEW calls \in Seq(Call), Publish(calls),
         task' \in [Call -> {Pending, Running, "fine", "failed"}],
         \A i \in DOMAIN calls : task'[calls[i]] \in {"fine", "failed"}
  PROVE  /\ wire' \in Seq(Event) /\ Len(wire') <= WireLimit /\ sent' \in Nat
         /\ published' \in [Call -> {Pending, "fine", "failed"}]
<1> DEFINE events == [i \in DOMAIN calls |-> ToolResult(calls[i], task'[calls[i]])]
<1>1. sent \in Nat
  BY DEF AgentTypes, AgentTypeOK
<1>2. \A i \in DOMAIN calls : ToolResult(calls[i], task'[calls[i]]) \in Event
  <2>1. \A i \in DOMAIN calls : calls[i] \in Call /\ task'[calls[i]] \in Result
    BY DEF Result
  <2> QED BY <2>1, EventTypes
<1>3. events \in Seq(Event)
  BY <1>2
<1>4. Emit(events)
  BY DEF Publish
<1> HIDE DEF events
<1>5. wire' \in Seq(Event) /\ Len(wire') <= WireLimit /\ sent' \in Nat
  BY <1>1, <1>3, <1>4, EmitTypes
<1>6. published' = [c \in Call |-> IF c \in Range(calls) THEN task'[c] ELSE published[c]]
  BY DEF Publish
<1>7. \A c \in Range(calls) : task'[c] \in {"fine", "failed"}
  BY DEF Range
<1>8. published' \in [Call -> {Pending, "fine", "failed"}]
  BY <1>6, <1>7 DEF AgentTypes, AgentTypeOK
<1> QED BY <1>5, <1>8

(* What a step of the agent does to the stream.                            *)
AgentWire ==
  /\ wire' \in Seq(Event) /\ Len(wire') <= WireLimit
  /\ rpc' \in {"none", "open", "ended", "broken", "cancelled"}

Steady ==
  /\ wire \in Seq(Event) /\ Len(wire) <= WireLimit
  /\ rpc \in {"none", "open", "ended", "broken", "cancelled"}

LEMMA QuietAgentTypes ==
  ASSUME AgentTypes, Steady, Refuse \/ Accept \/ RetryDue \/ Abandoned \/ CompletionFails \/ Complete
  PROVE  AgentTypes' /\ AgentWire
<1>1. /\ \A type \in EventType : <<Other(type)>> \in Seq(Event)
      /\ <<Other("other"), Other("other")>> \in Seq(Event)
      /\ {"failed", "completed"} \subseteq EventType
  <2>1. "other" \in EventType /\ {"failed", "completed"} \subseteq EventType
    BY DEF EventType
  <2> QED BY <2>1, EventTypes
<1>2. UNCHANGED <<attempt, used, mid, batch, task, published, conv>>
  BY DEF Refuse, Accept, RetryDue, Abandoned, CompletionFails, Complete
<1>3. sent \in Nat
  BY DEF AgentTypes, AgentTypeOK
<1>4. CASE Refuse \/ RetryDue \/ Abandoned
  <2>1. /\ UNCHANGED <<wire, sent>> /\ rpc' \in {rpc, "broken"}
        /\ \/ node' = "ended"
           \/ node = "retry_wait" /\ node' = "model"
    BY <1>4 DEF Refuse, RetryDue, Abandoned
  <2> QED BY <1>2, <2>1 DEF AgentTypes, AgentTypeOK, AgentWire, Steady
<1>5. CASE Accept \/ CompletionFails \/ Complete
  <2>1. \E events \in Seq(Event) : Emit(events)
    BY <1>1, <1>5 DEF Accept, CompletionFails, Complete, EmitLast
  <2>2. wire' \in Seq(Event) /\ Len(wire') <= WireLimit /\ sent' \in Nat
    BY <1>3, <2>1, EmitTypes DEF Steady
  <2>3. rpc' \in {rpc, "ended"}
        /\ (node' = "ended" \/ (node = "off" /\ node' = "model"))
    BY <1>5 DEF Accept, CompletionFails, Complete, EmitLast
  <2> QED BY <1>2, <2>2, <2>3 DEF AgentTypes, AgentTypeOK, AgentWire, Steady
<1> QED BY <1>4, <1>5

LEMMA ModelTypes ==
  ASSUME AgentTypes, Steady, FirstChunk \/ ModelFails \/ ModelGivesUp
  PROVE  AgentTypes' /\ AgentWire
<1>1. /\ node = "model" /\ UNCHANGED <<batch, task, published, conv>>
  BY DEF FirstChunk, ModelFails, ModelGivesUp
<1>2. Opening \in Seq(Event) /\ MessageId \in Message
      /\ (MoreMessages => MessageId < MaxMessages)
  BY <1>1, OpeningTypes
<1>3. \A type \in EventType : <<Other(type)>> \in Seq(Event)
  BY EventTypes
<1>4. \A events \in Seq(Event) : Opening \o events \in Seq(Event)
  BY <1>2, ConcatProperties
<1>5. \E events \in Seq(Event) : Emit(events)
  <2>1. {"other", "failed"} \subseteq EventType
    BY DEF EventType
  <2> QED BY <1>2, <1>3, <1>4, <2>1 DEF FirstChunk, ModelFails, ModelGivesUp, EmitLast
<1>6. sent \in Nat
  BY DEF AgentTypes, AgentTypeOK
<1>7. wire' \in Seq(Event) /\ Len(wire') <= WireLimit /\ sent' \in Nat
  BY <1>5, <1>6, EmitTypes DEF Steady
<1>8. rpc' \in {rpc, "ended"}
  BY DEF FirstChunk, ModelFails, ModelGivesUp, EmitLast
<1>9. used' = MessageId /\ MessageId \in 1..MaxMessages /\ MaxMessages \in Nat
  BY <1>2, WireBounds DEF FirstChunk, ModelFails, ModelGivesUp, CloseMessage, Message
<1>10. CASE FirstChunk
  <2>1. mid' = MessageId /\ node' = node /\ attempt' = attempt
    BY <1>10 DEF FirstChunk
  <2> QED BY <1>1, <1>7, <1>8, <1>9, <2>1 DEF AgentTypes, AgentTypeOK, AgentWire, Steady, NoMessage
<1>11. CASE ModelFails
  <2>1. /\ mid' = NoMessage /\ node' = "retry_wait" /\ attempt' = attempt + 1
        /\ attempt + 1 < MaxAttempts /\ MessageId < MaxMessages
    BY <1>2, <1>11 DEF ModelFails, CloseMessage
  <2>2. attempt' \in 0..(MaxAttempts - 1)
    BY <2>1, WireBounds DEF AgentTypes, AgentTypeOK
  <2> QED BY <1>1, <1>7, <1>8, <1>9, <2>1, <2>2
          DEF AgentTypes, AgentTypeOK, AgentWire, Steady, NoMessage
<1>12. CASE ModelGivesUp
  <2>1. mid' = NoMessage /\ node' = "ended" /\ attempt' = attempt
    BY <1>12 DEF ModelGivesUp, EmitLast, CloseMessage
  <2> QED BY <1>1, <1>7, <1>8, <1>9, <2>1 DEF AgentTypes, AgentTypeOK, AgentWire, Steady, NoMessage
<1> QED BY <1>10, <1>11, <1>12

LEMMA ReplyTypes ==
  ASSUME AgentTypes, Steady, NEW calls \in Calls, NEW named \in BOOLEAN,
         ModelReplies(calls, named)
  PROVE  AgentTypes' /\ AgentWire
<1>1. Opening \in Seq(Event) /\ MessageId \in Message
      /\ (MoreMessages => MessageId < MaxMessages)
  BY OpeningTypes DEF ModelReplies
<1>2. calls \in Seq(Call)
  BY CallsAreSequences
<1> DEFINE started == [i \in DOMAIN calls |-> ToolStarted(calls[i])]
<1>3. started \in Seq(Event)
  <2>1. \A i \in DOMAIN calls : ToolStarted(calls[i]) \in Event
    BY <1>2, EventTypes
  <2> QED BY <1>2, <2>1
<1>4. <<Done(MessageId, calls, named)>> \in Seq(Event)
  BY <1>1, EventTypes
<1>5. Emit(Opening \o <<Done(MessageId, calls, named)>> \o started)
  BY DEF ModelReplies
<1> HIDE DEF started
<1>6. Opening \o <<Done(MessageId, calls, named)>> \o started \in Seq(Event)
  BY <1>1, <1>3, <1>4, ConcatProperties
<1>7. sent \in Nat
  BY DEF AgentTypes, AgentTypeOK
<1>8. wire' \in Seq(Event) /\ Len(wire') <= WireLimit /\ sent' \in Nat
  BY <1>5, <1>6, <1>7, EmitTypes DEF Steady
<1>9. /\ used' = MessageId /\ mid' = NoMessage /\ attempt' = 0 /\ rpc' = rpc
      /\ node' = IF calls = << >> THEN "answered" ELSE "tools"
      /\ batch' = calls /\ conv' = Append(conv, Said(calls))
      /\ published' = [c \in Call |-> Pending]
      /\ task' = [c \in Call |-> IF c \in Range(calls) THEN Running ELSE Pending]
      /\ (calls # << >> => MessageId < MaxMessages)
  BY <1>1 DEF ModelReplies, CloseMessage
<1>10. Said(calls) \in Entry
  BY DEF Said, Asked, Entry
<1>11. conv' \in Seq(Entry) /\ \A i \in DOMAIN conv' : conv'[i].role \in {"assistant", "tool"}
  <2>1. conv' \in Seq(Entry)
    BY <1>9, <1>10 DEF AgentTypes
  <2>2. \A i \in DOMAIN conv' : conv'[i] \in Entry
    BY <2>1
  <2> QED BY <2>1, <2>2 DEF Entry
<1>12. /\ task' \in [Call -> {Pending, Running, "fine", "failed"}]
       /\ published' \in [Call -> {Pending, "fine", "failed"}]
  BY <1>9
<1>13. used' \in 0..MaxMessages /\ mid' \in 0..MaxMessages /\ attempt' \in 0..(MaxAttempts - 1)
       /\ (calls # << >> => used' < MaxMessages)
  BY <1>1, <1>9, WireBounds DEF Message, NoMessage
<1> QED
  BY <1>8, <1>9, <1>11, <1>12, <1>13 DEF AgentTypes, AgentTypeOK, AgentWire, Steady

LEMMA BatchStepTypes ==
  ASSUME AgentTypes, Steady,
         \/ PublishFinished \/ DeadlinePasses \/ ToolsReturn
         \/ \E c \in Call : ExecutorRaises(c) \/ \E r \in {"fine", "failed"} : ToolEnds(c, r)
  PROVE  AgentTypes' /\ AgentWire
<1>1. batch \in Seq(Call) /\ Range(batch) \subseteq Call
  BY BatchTypes
<1>2. Finished \subseteq Unpublished /\ Unpublished \subseteq Call
  BY <1>1 DEF Finished, Unpublished
<1>3. /\ task \in [Call -> {Pending, Running, "fine", "failed"}]
      /\ published \in [Call -> {Pending, "fine", "failed"}]
  BY DEF AgentTypes, AgentTypeOK
<1>4. node = "tools" /\ rpc' = rpc /\ UNCHANGED <<attempt, used, mid>>
  BY DEF PublishFinished, DeadlinePasses, ToolsReturn, ExecutorRaises, ToolEnds
<1>5. ASSUME NEW calls \in Seq(Call), Publish(calls), UNCHANGED <<node, batch, conv>>,
             task' \in [Call -> {Pending, Running, "fine", "failed"}],
             \A i \in DOMAIN calls : task'[calls[i]] \in {"fine", "failed"}
      PROVE  AgentTypes' /\ AgentWire
  <2>1. /\ wire' \in Seq(Event) /\ Len(wire') <= WireLimit /\ sent' \in Nat
        /\ published' \in [Call -> {Pending, "fine", "failed"}]
    BY <1>5, PublishTypes DEF Steady
  <2> QED BY <1>4, <1>5, <2>1 DEF AgentTypes, AgentTypeOK, AgentWire, Steady
<1>6. CASE PublishFinished
  <2>1. PICK calls \in InOrder(Finished) : Publish(calls)
    BY <1>6 DEF PublishFinished
  <2>2. calls \in Seq(Call) /\ Range(calls) = Finished
    BY <1>2, <2>1, InOrderTypes
  <2>3. task' = task /\ \A i \in DOMAIN calls : task[calls[i]] \in {"fine", "failed"}
    BY <1>6, <2>2 DEF PublishFinished, Finished, Range
  <2>4. UNCHANGED <<node, batch, conv>>
    BY <1>6 DEF PublishFinished
  <2> QED BY <1>3, <1>5, <2>1, <2>2, <2>3, <2>4
<1>7. CASE DeadlinePasses
  <2>1. PICK calls \in InOrder(Unpublished) : Publish(calls)
    BY <1>7 DEF DeadlinePasses
  <2>2. calls \in Seq(Call) /\ Range(calls) = Unpublished
    BY <1>2, <2>1, InOrderTypes
  <2>3. task' = [c \in Call |-> IF c \in Unpublished THEN "failed" ELSE task[c]]
    BY <1>7 DEF DeadlinePasses
  <2>4. task' \in [Call -> {Pending, Running, "fine", "failed"}]
        /\ \A i \in DOMAIN calls : task'[calls[i]] \in {"fine", "failed"}
    BY <1>3, <2>2, <2>3 DEF Range
  <2>5. UNCHANGED <<node, batch, conv>>
    BY <1>7 DEF DeadlinePasses
  <2> QED BY <1>5, <2>1, <2>2, <2>4, <2>5
<1>8. CASE \E c \in Call : ExecutorRaises(c)
  <2>1. PICK c \in Call : ExecutorRaises(c)
    BY <1>8
  <2> DEFINE before == {d \in Finished : \E i, j \in DOMAIN batch :
                          batch[i] = d /\ batch[j] = c /\ i < j}
  <2>2. PICK first \in InOrder(before), rest \in InOrder(Unpublished \ before) :
          Publish(first \o rest)
    BY <2>1 DEF ExecutorRaises
  <2>3. task' = [d \in Call |-> IF d \in Unpublished \ before THEN "failed" ELSE task[d]]
    BY <2>1 DEF ExecutorRaises
  <2>4. before \subseteq Finished
    OBVIOUS
  <2> HIDE DEF before
  <2>5. /\ first \in Seq(Call) /\ Range(first) = before
        /\ rest \in Seq(Call) /\ Range(rest) = Unpublished \ before
    BY <1>2, <2>2, <2>4, InOrderTypes
  <2>6. /\ \A i \in DOMAIN first : task'[first[i]] \in {"fine", "failed"}
        /\ \A i \in DOMAIN rest : task'[rest[i]] \in {"fine", "failed"}
    BY <1>3, <2>3, <2>4, <2>5 DEF Range, Finished
  <2>7. first \o rest \in Seq(Call)
        /\ \A i \in DOMAIN (first \o rest) : task'[(first \o rest)[i]] \in {"fine", "failed"}
    <3>1. /\ first \o rest \in Seq(Call) /\ Len(first \o rest) = Len(first) + Len(rest)
          /\ \A i \in 1..Len(first) + Len(rest) :
               (first \o rest)[i] = IF i <= Len(first) THEN first[i] ELSE rest[i - Len(first)]
      BY <2>5, ConcatProperties
    <3>2. \A i \in 1..Len(first) + Len(rest) :
            IF i <= Len(first) THEN i \in DOMAIN first ELSE i - Len(first) \in DOMAIN rest
      BY <2>5
    <3> QED BY <2>6, <3>1, <3>2
  <2>8. task' \in [Call -> {Pending, Running, "fine", "failed"}]
    BY <1>3, <2>3
  <2>9. UNCHANGED <<node, batch, conv>>
    BY <2>1 DEF ExecutorRaises
  <2> QED BY <1>5, <2>2, <2>7, <2>8, <2>9
<1>9. CASE ToolsReturn
  <2>1. /\ conv' = conv \o Answers /\ batch' = << >> /\ node' = "model"
        /\ UNCHANGED <<wire, task, published, sent>>
    BY <1>9 DEF ToolsReturn
  <2>2. \A i \in DOMAIN batch : batch[i] \in Call /\ published[batch[i]] \in Result \cup {Pending}
    BY <1>1, <1>3 DEF Result
  <2>3. \A i \in DOMAIN batch : Answered(batch[i], published[batch[i]]) \in Entry
    BY <2>2, NoCallsAreCalls DEF Answered, Asked, Entry
  <2>4. Answers \in Seq(Entry)
    BY <1>1, <2>3 DEF Answers
  <2>5. conv' \in Seq(Entry)
    BY <2>1, <2>4, ConcatProperties DEF AgentTypes
  <2>6. \A i \in DOMAIN conv' : conv'[i] \in Entry
    BY <2>5
  <2>7. \A i \in DOMAIN conv' : conv'[i].role \in {"assistant", "tool"}
    BY <2>6 DEF Entry
  <2> QED BY <1>4, <2>1, <2>5, <2>7, NoCallsAreCalls DEF AgentTypes, AgentTypeOK, AgentWire, Steady
<1>10. CASE \E c \in Call, r \in {"fine", "failed"} : ToolEnds(c, r)
  <2>1. /\ UNCHANGED <<wire, node, batch, published, conv, sent>>
        /\ \E c \in Call, r \in {"fine", "failed"} : task' = [task EXCEPT ![c] = r]
    BY <1>10 DEF ToolEnds
  <2>2. task' \in [Call -> {Pending, Running, "fine", "failed"}]
    BY <1>3, <2>1
  <2> QED BY <1>4, <2>1, <2>2 DEF AgentTypes, AgentTypeOK, AgentWire, Steady
<1> QED BY <1>6, <1>7, <1>8, <1>9, <1>10

LEMMA AgentStepTypes ==
  ASSUME AgentTypes, Steady, AgentNext
  PROVE  AgentTypes' /\ AgentWire
<1>1. CASE \E calls \in Calls, named \in BOOLEAN : ModelReplies(calls, named)
  BY <1>1, ReplyTypes
<1> QED
  BY <1>1, QuietAgentTypes, ModelTypes, BatchStepTypes DEF AgentNext, ModelStep, LoopStep

-----------------------------------------------------------------------------
(* The steps of the pipeline are steps of the runtime or of its peer.      *)
LEMMA StrangerWire ==
  ASSUME Steady, StrangerSends \/ StrangerEnds \/ Breaks
  PROVE  AgentWire
<1>1. ASSUME StrangerSends PROVE wire' \in Seq(Event) /\ Len(wire') <= WireLimit /\ rpc' = rpc
  <2>1. PICK e \in StrangerEvent, n \in 0..MaxSeq : wire' = <<[e EXCEPT !.seq = n]>>
    BY <1>1 DEF StrangerSends
  <2>2. /\ {"other", "created", "completed", "failed", "cancelled"} \subseteq EventType
        /\ StrangerMessage \subseteq Message
    BY StrangerAssumption DEF EventType
  <2>3. e \in Event
    <3>1. \/ \E type \in {"other", "created", "completed", "failed", "cancelled"} : e = Other(type)
          \/ \E m \in StrangerMessage \cup {NoMessage} : e = Text(m)
          \/ \E m \in StrangerMessage \cup {NoMessage}, calls \in Calls, named \in BOOLEAN :
               e = Done(m, calls, named)
          \/ \E c \in Call \cup {NoCall} : e = ToolStarted(c)
          \/ \E c \in Call \cup {NoCall}, r \in Result : e = ToolResult(c, r)
      BY <2>1 DEF StrangerEvent
    <3> QED BY <2>2, <3>1, EventTypes
  <2>4. n \in Nat
    BY StrangerAssumption
  <2>5. [e EXCEPT !.seq = n] \in Event
    BY <2>3, <2>4, Renumbered
  <2>6. wire' \in Seq(Event) /\ Len(wire') = 1
    BY <2>1, <2>5
  <2> QED BY <1>1, <2>6, WireBounds DEF StrangerSends
<1> QED BY <1>1 DEF StrangerEnds, Breaks, AgentWire, Steady

(* The runtime takes events off the stream one by one, or drops all.       *)
LEMMA RuntimeTakes ==
  RuntimeNext => wire' \in {wire, << >>} \/ (wire # << >> /\ wire' = Tail(wire))
  BY DEF RuntimeNext, RuntimeStep, BeginCommit, BeginTakenUp, ReadCancelled, OnEvent,
         ReadRefused, ReadTerminal, ReadMessage, ReadResult, ReadProgress, Read, StreamOver,
         EventCommit, EventTakenUp, FinishCommit, FinishTakenUp, WriteFails, FinishFails,
         Cancel, ManagerFails, Recover, Fail, CancelCall

LEMMA RuntimeWire ==
  ASSUME Steady, RuntimeNext
  PROVE  Len(wire') <= WireLimit
<1>1. wire' \in {wire, << >>} \/ (wire # << >> /\ wire' = Tail(wire))
  BY RuntimeTakes
<1>2. wire # << >> => Len(Tail(wire)) <= WireLimit
  BY WireBounds DEF Steady
<1>3. Len(<< >>) <= WireLimit
  BY WireBounds
<1> QED BY <1>1, <1>2, <1>3 DEF Steady

LEMMA PipelineStep ==
  ASSUME Inv, PipelineTypes, [Next]_vars
  PROVE  [RuntimeNext \/ Peer]_streamVars /\ PipelineTypes'
<1>1. Steady
  BY DEF PipelineTypes, StreamTypes, Steady
<1>2. ASSUME AgentWire, UNCHANGED runtimeVars PROVE Peer
  BY <1>2 DEF AgentWire, Peer
<1>3. CASE source = "agent" /\ AgentNext /\ UNCHANGED <<runtimeVars, source>>
  <2>1. AgentTypes' /\ AgentWire
    BY <1>1, <1>3, AgentStepTypes DEF PipelineTypes
  <2>2. Peer
    BY <1>2, <1>3, <2>1
  <2>3. StreamTypes'
    BY <2>2, StepTypes DEF PipelineTypes
  <2> QED BY <1>3, <2>1, <2>2, <2>3 DEF PipelineTypes, AgentWire
<1>4. ASSUME UNCHANGED agentVars PROVE AgentTypes'
  BY <1>4 DEF agentVars, PipelineTypes, AgentTypes, AgentTypeOK
<1>5. CASE /\ StrangerSends \/ StrangerEnds \/ Breaks
           /\ UNCHANGED <<agentVars, runtimeVars, source>>
  <2>1. AgentWire
    BY <1>1, <1>5, StrangerWire
  <2>2. Peer
    BY <1>2, <1>5, <2>1
  <2>3. StreamTypes'
    BY <2>2, StepTypes DEF PipelineTypes
  <2> QED BY <1>4, <1>5, <2>1, <2>2, <2>3 DEF PipelineTypes, AgentWire
<1>6. CASE RuntimeNext /\ UNCHANGED <<agentVars, source>>
  <2>1. StreamTypes'
    BY <1>6, StepTypes DEF PipelineTypes
  <2>2. Len(wire') <= WireLimit
    BY <1>1, <1>6, RuntimeWire
  <2> QED BY <1>4, <1>6, <2>1, <2>2 DEF PipelineTypes
<1>7. CASE UNCHANGED vars
  <2>1. UNCHANGED streamVars /\ UNCHANGED agentVars /\ wire' = wire /\ source' = source
    BY <1>7 DEF vars, streamVars
  <2>2. StreamTypes'
    BY <2>1, StepTypes DEF PipelineTypes
  <2> QED BY <1>4, <2>1, <2>2 DEF PipelineTypes
<1> QED BY <1>3, <1>5, <1>6, <1>7 DEF Next

LEMMA PipelineInit == Init => StreamInit /\ PipelineTypes
<1> SUFFICES ASSUME Init PROVE StreamInit /\ PipelineTypes
  OBVIOUS
<1>1. StreamInit
  BY DEF Init, StreamInit
<1>2. AgentTypes
  <2>1. 0 < MaxMessages /\ 0 \in 0..MaxMessages /\ 0 \in 0..(MaxAttempts - 1)
    BY WireBounds
  <2>2. conv \in Seq(Entry) /\ DOMAIN conv = {}
    BY DEF Init, AgentInit
  <2> QED BY <2>1, <2>2, NoCallsAreCalls DEF Init, AgentInit, AgentTypes, AgentTypeOK, NoMessage
<1>3. StreamTypes
  BY <1>1, InitStreamTypes
<1>4. Len(wire) <= WireLimit /\ source \in {"agent", "stranger"}
  BY WireBounds DEF Init
<1> QED BY <1>1, <1>2, <1>3, <1>4 DEF PipelineTypes

LEMMA PipelineInv == Spec => [](Inv /\ PipelineTypes)
<1>1. Init => Inv /\ PipelineTypes
  BY PipelineInit, InitInv
<1>2. Inv /\ PipelineTypes /\ [Next]_vars => Inv' /\ PipelineTypes'
  BY PipelineStep, NextInv
<1> QED BY <1>1, <1>2, PTL DEF Spec

(* Every variable of the agent, the stream and the runtime keeps its type, *)
(* for any numbers of calls, messages and attempts.                        *)
THEOREM PipelineTypesHold == Spec => []TypeOK
<1>1. PipelineTypes => TypeOK
  BY DEF PipelineTypes, AgentTypes, StreamTypes, TypeOK
<1> QED BY <1>1, PipelineInv, PTL

(* The agent of this repository, and a stranger, are peers: the pipeline   *)
(* implements the runtime with any peer.                                   *)
THEOREM PipelineImplementsStream == Spec => StreamSpec
<1>1. Init => StreamInit
  BY PipelineInit
<1>2. Inv /\ PipelineTypes /\ [Next]_vars => [RuntimeNext \/ Peer]_streamVars
  BY PipelineStep
<1> QED BY <1>1, <1>2, PipelineInv, PTL DEF Spec, StreamSpec

(* So the rows of a turn are paired whatever the agent or the stranger     *)
(* does, and what breaks the session is a failing database, a result that  *)
(* is not JSON or an event of the backend's own (_save_group, _write).     *)
THEOREM PipelineKeepsHistory == Spec => []HistoryIsPaired /\ StreamSparesSession
  BY PipelineImplementsStream, HistoriesArePaired, StreamsSpareSessions, PTL

-----------------------------------------------------------------------------
(* What somebody who follows the agent's stream knows of the conversation: *)
(* what was said, the calls that wait for results and what came of them,   *)
(* the last message that was complete, and the last number.                *)
Knowledge == [said : Seq(Entry), open : Calls, got : Results, mid : Nat, seq : Nat]

NoResults == [c \in Call |-> Pending]
Replies(calls, got) == [i \in DOMAIN calls |-> Answered(calls[i], got[calls[i]])]

(* An event of the agent takes the knowledge u to t.                       *)
HearsMessage(u, e, t) ==
  /\ e.type = "done" /\ u.open = << >>
  /\ Distinct(e.calls) /\ e.mid > u.mid
  /\ t.said = Append(u.said, Said(e.calls))
  /\ t.open = e.calls /\ t.got = NoResults /\ t.mid = e.mid

HearsResult(u, e, t) ==
  LET got == [u.got EXCEPT ![e.call] = e.result] IN
  /\ e.type = "result" /\ e.call \in Range(u.open)
  /\ e.result \in {"fine", "failed"} /\ u.got[e.call] = Pending
  /\ t.mid = u.mid
  /\ IF \E c \in Range(u.open) : got[c] = Pending
     THEN t.said = u.said /\ t.open = u.open /\ t.got = got
     ELSE t.said = u.said \o Replies(u.open, got) /\ t.open = << >>

HearsNothing(u, e, t) ==
  /\ e.type \in {"other", "text", "tool_started", "completed", "failed"}
  /\ e.type = "text" => e.mid # NoMessage
  /\ e.type = "tool_started" => e.call # NoCall
  /\ e.type = "completed" => u.open = << >>
  /\ t.said = u.said /\ t.open = u.open /\ t.got = u.got /\ t.mid = u.mid

Hears(u, e, t) == HearsMessage(u, e, t) \/ HearsResult(u, e, t) \/ HearsNothing(u, e, t)

Starts(a, b) == Len(a) <= Len(b) /\ \A i \in 1..Len(a) : b[i] = a[i]

(* The rows behind the question say s; with the group that is written they *)
(* will say more.                                                          *)
Stores(s) ==
  /\ \/ rows = {} /\ s = << >>
     \/ {r.sequence : r \in rows} = 1..(Len(s) + 1)
  /\ \A r \in rows : r.sequence > 1 => r.entry = s[r.sequence - 1]

WillStore(s) ==
  IF at = "event" /\ io = "asked" /\ ready # NoGroup
  THEN Append(s, Said(ready.calls)) \o Replies(ready.calls, ready.results)
  ELSE s

(* The runtime and the agent have the knowledge u.                         *)
RuntimeKnows(s, u) ==
  /\ IF at = "event" THEN event.seq = u.seq /\ event.seq # 0 ELSE lastSeq = u.seq
  /\ \A m \in completed : m <= u.mid
  /\ \A m \in DOMAIN pending : m <= u.mid /\ pending[m].mid <= u.mid
  /\ ready # NoGroup => ready.mid <= u.mid
  /\ \/ DOMAIN pending = {} /\ u.open = << >> /\ u.said = WillStore(s)
     \/ \E m \in DOMAIN pending :
          /\ DOMAIN pending = {m} /\ ready = NoGroup
          /\ u.open = pending[m].calls /\ u.open # << >> /\ u.got = pending[m].results
          /\ u.said = Append(s, Said(u.open))

AgentKnows(u) ==
  /\ u.said = Spoken
  /\ u.open = IF Unpublished = {} THEN << >> ELSE batch
  /\ u.open # << >> => u.got = published
  /\ u.mid <= used /\ (mid # NoMessage => u.mid < mid)
  /\ u.seq = sent

(* The events under way lead from the knowledge of the one to that of the  *)
(* other.                                                                  *)
Follows(s, h) ==
  /\ h \in [1..(Len(wire) + 1) -> Knowledge]
  /\ RuntimeKnows(s, h[1]) /\ AgentKnows(h[Len(wire) + 1])
  /\ \A i \in 1..Len(wire) : wire[i].seq = h[i].seq + 1 /\ h[i + 1].seq = h[i].seq + 1
  /\ \A i \in 1..Len(wire) : Hears(h[i], wire[i], h[i + 1])
  /\ \A i \in 1..(Len(wire) + 1) : Starts(h[i].said, Spoken)

Listens == at \in {"begin", "reading", "event"} /\ ~cancelRequested

Conversation ==
  \E s \in Seq(Entry) :
    /\ Stores(s)
    /\ Starts(WillStore(s), Spoken)
    /\ Listens => \E h : Follows(s, h)
    /\ final = "completed" => s = conv

(* The life of a completion, and of a turn's row.                          *)
Stages ==
  /\ node \in {"off", "model", "retry_wait", "answered"} => batch = << >>
  /\ Distinct(batch)
  /\ \A i \in DOMAIN wire : wire[i].type = "completed" =>
       i = Len(wire) /\ node = "ended" /\ batch = << >>
  /\ final = "completed" => node = "ended" /\ batch = << >>
  /\ at \in {"begin", "reading", "event"} => final = "queued"
  /\ at \in {"reading", "event"} \/ (at = "begin" /\ io = "committed") => rows # {}
  /\ turnRow = "completed" => final = "completed"
  /\ turnRow # "none" => rows # {}

Told == source = "agent" => Conversation /\ Stages

LEMMA StartsTwice ==
  ASSUME NEW a \in Seq(Entry), NEW b \in Seq(Entry), NEW c \in Seq(Entry),
         Starts(a, b), Starts(b, c)
  PROVE  Starts(a, c)
  BY DEF Starts

LEMMA StartsItself == \A a \in Seq(Entry) : Starts(a, a)
  BY DEF Starts

LEMMA Renumbering ==
  ASSUME NEW u \in Knowledge, NEW n \in Nat
  PROVE  LET t == [u EXCEPT !.seq = n] IN
         /\ t \in Knowledge /\ t.seq = n
         /\ t.said = u.said /\ t.open = u.open /\ t.got = u.got /\ t.mid = u.mid
  BY DEF Knowledge

(* An event's number does not change what it says.                         *)
LEMMA HearsNumbered ==
  ASSUME NEW e \in Event, NEW n \in Nat, NEW u, NEW t, Hears(u, e, t)
  PROVE  Hears(u, [e EXCEPT !.seq = n], t)
<1> DEFINE f == [e EXCEPT !.seq = n]
<1>1. /\ f.type = e.type /\ f.mid = e.mid /\ f.calls = e.calls
      /\ f.call = e.call /\ f.result = e.result
  BY DEF Event
<1> HIDE DEF f
<1>2. ASSUME HearsMessage(u, e, t) PROVE Hears(u, f, t)
  BY <1>1, <1>2 DEF HearsMessage, Hears
<1>3. ASSUME HearsResult(u, e, t) PROVE Hears(u, f, t)
  BY <1>1, <1>3 DEF HearsResult, Hears
<1>4. ASSUME HearsNothing(u, e, t) PROVE Hears(u, f, t)
  BY <1>1, <1>4 DEF HearsNothing, Hears
<1>5. Hears(u, f, t)
  BY <1>2, <1>3, <1>4 DEF Hears
<1> QED BY <1>5 DEF f

LEMMA RepliesType ==
  ASSUME NEW calls \in Seq(Call), NEW got \in [Call -> Result \cup {Pending}]
  PROVE  /\ Replies(calls, got) \in Seq(Entry) /\ Len(Replies(calls, got)) = Len(calls)
         /\ \A i \in 1..Len(calls) : Replies(calls, got)[i] = Answered(calls[i], got[calls[i]])
<1>1. \A i \in 1..Len(calls) : calls[i] \in Call /\ got[calls[i]] \in Result \cup {Pending}
  OBVIOUS
<1>2. \A i \in 1..Len(calls) : Answered(calls[i], got[calls[i]]) \in Entry
  BY <1>1, NoCallsAreCalls DEF Answered, Asked, Entry
<1>3. Replies(calls, got) = [i \in 1..Len(calls) |-> Answered(calls[i], got[calls[i]])]
  BY DEF Replies
<1> QED BY <1>2, <1>3

LEMMA SpokenType ==
  ASSUME AgentTypes
  PROVE  Spoken \in Seq(Entry) /\ Answers = Replies(batch, published)
<1>1. batch \in Seq(Call) /\ published \in [Call -> Result \cup {Pending}]
  BY CallsAreSequences DEF AgentTypes, AgentTypeOK, Result
<1>2. Answers = Replies(batch, published)
  BY DEF Answers, Replies
<1>3. conv \o Answers \in Seq(Entry)
  BY <1>1, <1>2, RepliesType, ConcatProperties DEF AgentTypes
<1> QED BY <1>2, <1>3 DEF Spoken, AgentTypes

LEMMA SpokenTypeNext ==
  ASSUME AgentTypes'
  PROVE  Spoken' \in Seq(Entry)
<1>1. batch' \in Seq(Call) /\ published' \in [Call -> Result \cup {Pending}]
  BY CallsAreSequences DEF AgentTypes, AgentTypeOK, Result
<1>2. Answers' = Replies(batch', published')
  BY DEF Answers, Replies
<1>3. conv' \o Answers' \in Seq(Entry)
  BY <1>1, <1>2, RepliesType, ConcatProperties DEF AgentTypes
<1> QED BY <1>3 DEF Spoken, AgentTypes

(* The agent emits events that lead from what it had said on.              *)
LEMMA FollowsOn ==
  ASSUME NEW s \in Seq(Entry), NEW h, Follows(s, h), UNCHANGED runtimeVars,
         AgentTypes, AgentTypes', wire \in Seq(Event), Starts(Spoken, Spoken'),
         NEW events \in Seq(Event), Emit(events), NEW g \in [0..Len(events) -> Knowledge],
         g[0] = h[Len(wire) + 1],
         \A i \in 0..Len(events) : g[i].seq = sent + i /\ Starts(g[i].said, Spoken'),
         \A i \in 1..Len(events) : Hears(g[i - 1], events[i], g[i]),
         AgentKnows(g[Len(events)])'
  PROVE  \E k : Follows(s, k)'
<1>0. PICK n \in Nat, m \in Nat, from \in Nat :
        n = Len(wire) /\ m = Len(events) /\ from = sent
  BY DEF AgentTypes, AgentTypeOK
<1> DEFINE k == [i \in 1..(n + m + 1) |-> IF i <= n + 1 THEN h[i] ELSE g[i - n - 1]]
           e(i) == [events[i] EXCEPT !.seq = from + i]
           numbered == [i \in DOMAIN events |-> e(i)]
<1>1. n \in Nat /\ m \in Nat /\ from \in Nat /\ DOMAIN events = 1..m
      /\ \A i \in 1..m : events[i] \in Event
  BY <1>0
<1>a. g \in [0..m -> Knowledge] /\ g[0] = h[n + 1]
  BY <1>0
<1>b. \A i \in 0..m : g[i].seq = from + i
  BY <1>0
<1>c. \A i \in 0..m : Starts(g[i].said, Spoken')
  BY <1>0
<1>d. \A i \in 1..m : Hears(g[i - 1], events[i], g[i])
  BY <1>0
<1>2. \A i \in 1..m : e(i) \in Event /\ e(i).seq = from + i /\ Hears(g[i - 1], e(i), g[i])
  <2> SUFFICES ASSUME NEW i \in 1..m
               PROVE  e(i) \in Event /\ e(i).seq = from + i /\ Hears(g[i - 1], e(i), g[i])
    OBVIOUS
  <2>1. events[i] \in Event /\ from + i \in Nat /\ Hears(g[i - 1], events[i], g[i])
    BY <1>1, <1>d
  <2>2. e(i) \in Event /\ Hears(g[i - 1], e(i), g[i])
    BY <2>1, Renumbered, HearsNumbered
  <2>3. e(i).seq = from + i
    BY <2>1 DEF Event
  <2> QED BY <2>2, <2>3
<1> HIDE DEF e
<1>3. numbered \in Seq(Event) /\ Len(numbered) = m /\ \A i \in 1..m : numbered[i] = e(i)
  <2>1. numbered = [i \in 1..m |-> e(i)]
    BY <1>1
  <2>2. \A i \in 1..m : e(i) \in Event
    BY <1>2
  <2> HIDE DEF numbered
  <2> QED BY <1>1, <2>1, <2>2
<1>4. wire' = wire \o numbered
  BY <1>0 DEF Emit, e
<1> HIDE DEF numbered
<1>5. /\ Len(wire') = n + m
      /\ \A i \in 1..n : wire'[i] = wire[i]
      /\ \A i \in 1..m : wire'[n + i] = e(i)
  <2>1. /\ Len(wire \o numbered) = n + m
        /\ \A i \in 1..(n + m) :
             (wire \o numbered)[i] = IF i <= n THEN wire[i] ELSE numbered[i - n]
    <3>1. wire \in Seq(Event) /\ n = Len(wire) /\ numbered \in Seq(Event) /\ Len(numbered) = m
      BY <1>0, <1>3
    <3> QED BY ONLY <3>1, ConcatProperties, ZenonT(30)
  <2>2. \A i \in 1..n : i \in 1..(n + m) /\ i <= n
    BY <1>1
  <2>3. \A i \in 1..m : n + i \in 1..(n + m) /\ ~(n + i <= n) /\ (n + i) - n = i
    BY <1>1
  <2> QED BY <1>3, <1>4, <2>1, <2>2, <2>3, ZenonT(30)
<1>6. h \in [1..(n + 1) -> Knowledge]
  BY <1>0 DEF Follows
<1>7. /\ k \in [1..(n + m + 1) -> Knowledge]
      /\ \A i \in 1..(n + 1) : k[i] = h[i]
      /\ \A i \in 0..m : k[n + 1 + i] = g[i]
  <2>1. \A i \in 1..(n + m + 1) : i > n + 1 => i - n - 1 \in 1..m
    BY <1>1
  <2>2. \A i \in 1..(n + 1) : k[i] = h[i]
    BY <1>1
  <2>3. \A i \in 1..m : k[n + 1 + i] = g[i]
    <3> SUFFICES ASSUME NEW i \in 1..m PROVE k[n + 1 + i] = g[i]
      OBVIOUS
    <3>1. n + 1 + i \in 1..(n + m + 1) /\ ~(n + 1 + i <= n + 1) /\ (n + 1 + i) - n - 1 = i
      BY <1>1
    <3> QED BY <3>1
  <2>4. k \in [1..(n + m + 1) -> Knowledge]
    BY <1>1, <1>a, <1>6, <2>1
  <2> HIDE DEF k
  <2>5. k[n + 1 + 0] = g[0]
    <3>1. n + 1 \in 1..(n + 1) /\ n + 1 + 0 = n + 1
      OBVIOUS
    <3> QED BY <1>a, <2>2, <3>1
  <2>6. ASSUME NEW i \in 0..m PROVE k[n + 1 + i] = g[i]
    <3>1. i = 0 \/ i \in 1..m
      OBVIOUS
    <3> QED BY <2>3, <2>5, <3>1
  <2> QED BY <2>2, <2>4, <2>6
<1> HIDE DEF k
<1>8. \A i \in 1..(n + m) : i \in 1..n \/ \E j \in 1..m : i = n + j
  <2> SUFFICES ASSUME NEW i \in 1..(n + m), i > n PROVE \E j \in 1..m : i = n + j
    BY <1>1
  <2>1. i - n \in 1..m /\ i = n + (i - n)
    BY <1>1
  <2> QED BY <2>1
<1>9. \A i \in 1..(n + m) :
        /\ wire'[i].seq = k[i].seq + 1 /\ k[i + 1].seq = k[i].seq + 1
        /\ Hears(k[i], wire'[i], k[i + 1])
  <2>1. ASSUME NEW i \in 1..n
        PROVE  /\ wire'[i].seq = k[i].seq + 1 /\ k[i + 1].seq = k[i].seq + 1
               /\ Hears(k[i], wire'[i], k[i + 1])
    <3>1. i \in 1..(n + 1) /\ i + 1 \in 1..(n + 1)
      BY <1>1
    <3>2. k[i] = h[i] /\ k[i + 1] = h[i + 1] /\ wire'[i] = wire[i]
      BY <1>5, <1>7, <3>1
    <3> QED BY <1>0, <3>2 DEF Follows
  <2>2. ASSUME NEW j \in 1..m
        PROVE  /\ wire'[n + j].seq = k[n + j].seq + 1 /\ k[n + j + 1].seq = k[n + j].seq + 1
               /\ Hears(k[n + j], wire'[n + j], k[n + j + 1])
    <3>1. j \in 0..m /\ j - 1 \in 0..m /\ n + 1 + (j - 1) = n + j /\ n + 1 + j = n + j + 1
      OBVIOUS
    <3>2. k[n + j] = g[j - 1] /\ k[n + j + 1] = g[j] /\ wire'[n + j] = e(j)
      BY <1>5, <1>7, <3>1
    <3>3. g[j - 1].seq = from + (j - 1) /\ g[j].seq = from + j /\ e(j).seq = from + j
      BY <1>2, <1>b, <3>1
    <3>4. from + j = from + (j - 1) + 1
      BY <1>1
    <3> QED BY <1>2, <3>2, <3>3, <3>4
  <2> QED BY <1>8, <2>1, <2>2, ZenonT(30)
<1>10. \A i \in 1..(n + m + 1) : Starts(k[i].said, Spoken')
  <2>1. ASSUME NEW i \in 1..(n + 1) PROVE Starts(k[i].said, Spoken')
    <3>1. k[i] = h[i] /\ Starts(h[i].said, Spoken) /\ h[i].said \in Seq(Entry)
      BY <1>0, <1>6, <1>7 DEF Follows, Knowledge
    <3>2. Spoken \in Seq(Entry) /\ Spoken' \in Seq(Entry)
      BY SpokenType, SpokenTypeNext
    <3> QED BY <3>1, <3>2, StartsTwice
  <2>2. ASSUME NEW i \in 1..(n + m + 1), i > n + 1 PROVE Starts(k[i].said, Spoken')
    <3>1. i - n - 1 \in 0..m /\ i = n + 1 + (i - n - 1)
      BY <2>2
    <3>2. k[i] = g[i - n - 1]
      BY <1>7, <3>1
    <3> QED BY <1>c, <3>1, <3>2
  <2> QED BY <1>1, <2>1, <2>2
<1>11. RuntimeKnows(s, k[1])'
  <2>1. PICK u : u = h[1]
    OBVIOUS
  <2>2. RuntimeKnows(s, u)
    BY <2>1 DEF Follows
  <2>3. RuntimeKnows(s, u)'
    BY <2>2 DEF RuntimeKnows, WillStore, runtimeVars
  <2>4. k[1] = u
    <3>1. 1 \in 1..(n + 1)
      OBVIOUS
    <3> QED BY <1>7, <2>1, <3>1
  <2> QED BY <2>3, <2>4
<1>12. AgentKnows(k[n + m + 1])'
  <2>1. PICK u : u = g[m]
    OBVIOUS
  <2>2. AgentKnows(u)'
    BY <1>0, <2>1
  <2>3. k[n + m + 1] = u
    <3>1. m \in 0..m /\ n + 1 + m = n + m + 1
      OBVIOUS
    <3> QED BY <1>7, <2>1, <3>1
  <2> QED BY <2>2, <2>3
<1> QED
  <2>1. Follows(s, k)'
    BY <1>5, <1>7, <1>9, <1>10, <1>11, <1>12 DEF Follows
  <2> QED BY <2>1

(* An event that tells nothing of the conversation.                        *)
TellsNothing(e) ==
  /\ e.type \in {"other", "text", "tool_started", "completed", "failed"}
  /\ e.type = "text" => e.mid # NoMessage
  /\ e.type = "tool_started" => e.call # NoCall
  /\ e.type = "completed" => Unpublished = {}

LEMMA QuietFollows ==
  ASSUME NEW s \in Seq(Entry), NEW h, Follows(s, h), UNCHANGED runtimeVars,
         AgentTypes, AgentTypes', wire \in Seq(Event),
         NEW events \in Seq(Event), Emit(events), UNCHANGED <<batch, published, conv>>,
         \A i \in DOMAIN events : TellsNothing(events[i]),
         used <= used', mid' # NoMessage => (mid' = mid \/ mid' > used)
  PROVE  (\E k : Follows(s, k)') /\ Spoken' = Spoken
<1>1. PICK n \in Nat, m \in Nat, from \in Nat :
        n = Len(wire) /\ m = Len(events) /\ from = sent
  BY DEF AgentTypes, AgentTypeOK
<1>2. PICK u : u = h[n + 1]
  OBVIOUS
<1>3. u \in Knowledge /\ AgentKnows(u)
  <2>1. n + 1 \in 1..(n + 1)
    OBVIOUS
  <2> QED BY <1>1, <1>2, <2>1 DEF Follows
<1> DEFINE g == [i \in 0..m |-> [u EXCEPT !.seq = from + i]]
<1>4. \A i \in 0..m : /\ g[i] \in Knowledge /\ g[i].seq = from + i
                      /\ g[i].said = u.said /\ g[i].open = u.open
                      /\ g[i].got = u.got /\ g[i].mid = u.mid
  <2> SUFFICES ASSUME NEW i \in 0..m
               PROVE  /\ g[i] \in Knowledge /\ g[i].seq = from + i
                      /\ g[i].said = u.said /\ g[i].open = u.open
                      /\ g[i].got = u.got /\ g[i].mid = u.mid
    OBVIOUS
  <2>1. from + i \in Nat /\ g[i] = [u EXCEPT !.seq = from + i]
    OBVIOUS
  <2> HIDE DEF g
  <2> QED BY <1>3, <2>1, Renumbering
<1>5. g[0] = u
  <2>1. g[0] = [u EXCEPT !.seq = u.seq]
    BY <1>1, <1>3 DEF AgentKnows
  <2> HIDE DEF g
  <2> QED BY <1>3, <2>1 DEF Knowledge
<1>6. g \in [0..m -> Knowledge]
  BY <1>4
<1> HIDE DEF g
<1>7. Unpublished' = Unpublished /\ Spoken' = Spoken
  BY DEF Unpublished, Answers, Spoken
<1>8. Spoken \in Seq(Entry) /\ Spoken' \in Seq(Entry)
  BY SpokenType, SpokenTypeNext
<1>9. Starts(Spoken, Spoken') /\ \A i \in 0..m : Starts(g[i].said, Spoken')
  BY <1>3, <1>4, <1>7, <1>8, StartsItself DEF AgentKnows
<1>10. \A i \in 1..m : Hears(g[i - 1], events[i], g[i])
  <2> SUFFICES ASSUME NEW i \in 1..m PROVE Hears(g[i - 1], events[i], g[i])
    OBVIOUS
  <2>1. i - 1 \in 0..m /\ i \in 0..m
    OBVIOUS
  <2>2. TellsNothing(events[i])
    BY <1>1
  <2>3. Unpublished = {} => u.open = << >>
    BY <1>3 DEF AgentKnows
  <2>4. HearsNothing(g[i - 1], events[i], g[i])
    BY <1>4, <2>1, <2>2, <2>3 DEF HearsNothing, TellsNothing
  <2> QED BY <2>4 DEF Hears
<1>11. AgentKnows(g[m])'
  <2>1. PICK v : v = g[m]
    OBVIOUS
  <2>2. /\ v.seq = from + m /\ v.said = u.said /\ v.open = u.open
        /\ v.got = u.got /\ v.mid = u.mid
    BY <1>4, <2>1
  <2>3. sent' = from + m
    BY <1>1 DEF Emit
  <2>4. v.mid <= used' /\ (mid' # NoMessage => v.mid < mid')
    <3>1. /\ u.mid \in Nat /\ used \in Nat /\ used' \in Nat /\ mid \in Nat /\ mid' \in Nat
          /\ u.mid <= used /\ (mid # NoMessage => u.mid < mid)
      BY <1>3 DEF Knowledge, AgentKnows, AgentTypes, AgentTypeOK
    <3> QED BY <2>2, <3>1
  <2>5. AgentKnows(v)'
    BY <1>3, <1>7, <2>2, <2>3, <2>4 DEF AgentKnows
  <2> QED BY <2>1, <2>5
<1>12. g[0] = h[Len(wire) + 1]
  BY <1>1, <1>2, <1>5
<1> QED
  <2>1. /\ g \in [0..Len(events) -> Knowledge]
        /\ AgentKnows(g[Len(events)])'
    BY <1>1, <1>6, <1>11
  <2>2. /\ \A i \in 0..Len(events) : g[i].seq = sent + i /\ Starts(g[i].said, Spoken')
        /\ \A i \in 1..Len(events) : Hears(g[i - 1], events[i], g[i])
    BY <1>1, <1>4, <1>9, <1>10
  <2> QED BY <1>7, <1>9, <1>12, <2>1, <2>2, FollowsOn

(* Steps of the agent that send nothing and say nothing.                   *)
LEMMA SilentFollows ==
  ASSUME NEW s \in Seq(Entry), NEW h, Follows(s, h), UNCHANGED runtimeVars,
         UNCHANGED <<wire, used, mid, sent>>, Spoken' = Spoken,
         (Unpublished = {}) <=> (Unpublished = {})', Unpublished # {} => UNCHANGED <<batch, published>>
  PROVE  Follows(s, h)'
<1>1. PICK u, v : u = h[1] /\ v = h[Len(wire) + 1]
  OBVIOUS
<1>2. RuntimeKnows(s, u) /\ AgentKnows(v)
  BY <1>1 DEF Follows
<1>3. RuntimeKnows(s, u)'
  BY <1>2 DEF RuntimeKnows, WillStore, runtimeVars
<1>4. AgentKnows(v)'
  BY <1>2 DEF AgentKnows
<1>5. u = h[1] /\ v = h[Len(wire') + 1]
  BY <1>1
<1> QED BY <1>3, <1>4, <1>5 DEF Follows

(* The results of calls of the batch go out, one by one: the last one may  *)
(* complete the answers.                                                   *)
LEMMA PublishFollows ==
  ASSUME NEW s \in Seq(Entry), NEW h, Follows(s, h), UNCHANGED runtimeVars,
         AgentTypes, AgentTypes', wire \in Seq(Event), UNCHANGED <<batch, conv, used, mid>>,
         NEW calls \in Seq(Call), Publish(calls), Distinct(calls),
         Range(calls) \subseteq Unpublished, Unpublished # {},
         \A i \in DOMAIN calls : task'[calls[i]] \in {"fine", "failed"}
  PROVE  (\E k : Follows(s, k)') /\ Starts(Spoken, Spoken')
<1>1. PICK n \in Nat, m \in Nat, from \in Nat :
        n = Len(wire) /\ m = Len(calls) /\ from = sent
  BY DEF AgentTypes, AgentTypeOK
<1>2. PICK u : u = h[n + 1]
  OBVIOUS
<1>3. u \in Knowledge /\ AgentKnows(u)
  <2>1. n + 1 \in 1..(n + 1)
    OBVIOUS
  <2> QED BY <1>1, <1>2, <2>1 DEF Follows
<1>4. PICK b, p, q, r, c0 : b = batch /\ p = published /\ q = published' /\ r = task' /\ c0 = conv
  OBVIOUS
<1>5. /\ b \in Calls /\ b \in Seq(Call) /\ c0 \in Seq(Entry)
      /\ p \in Results /\ q \in Results
  BY <1>4, BatchTypes DEF AgentTypes, AgentTypeOK, Results, Result
<1>6. /\ Range(calls) \subseteq Range(b)
      /\ \A i \in 1..m : calls[i] \in Range(calls) /\ p[calls[i]] = Pending
      /\ Range(b) # {}
  <2>1. Unpublished = {c \in Range(b) : p[c] = Pending}
    BY <1>4 DEF Unpublished
  <2>2. \A i \in 1..m : calls[i] \in Range(calls)
    BY <1>1 DEF Range
  <2> QED BY <2>1, <2>2
<1>7. b # << >>
  BY <1>6 DEF Range
<1>8. u.said = c0 /\ u.open = b /\ u.got = p /\ Spoken = c0
  BY <1>3, <1>4, <1>7 DEF AgentKnows, Spoken
<1>9. \A i \in 1..m : r[calls[i]] \in {"fine", "failed"}
  BY <1>1, <1>4
<1>10. q = [c \in Call |-> IF c \in Range(calls) THEN r[c] ELSE p[c]]
  BY <1>4 DEF Publish
<1>11. \A i, j \in 1..m : calls[i] = calls[j] => i = j
  BY <1>1 DEF Distinct
<1>12. Range(b) \subseteq Call /\ \A i \in 1..m : calls[i] \in Call
  BY <1>1, <1>5 DEF Range
<1> DEFINE got == [i \in 0..m |-> [c \in Call |->
                     IF \E j \in 1..i : calls[j] = c THEN r[c] ELSE p[c]]]
           whole(i) == \A c \in Range(b) : got[i][c] # Pending
           g == [i \in 0..m |->
                  IF whole(i)
                  THEN [said |-> c0 \o Replies(b, got[i]), open |-> << >>, got |-> NoResults,
                        mid |-> u.mid, seq |-> from + i]
                  ELSE [said |-> c0, open |-> b, got |-> got[i],
                        mid |-> u.mid, seq |-> from + i]]
<1>13. \A i \in 0..m : got[i] \in Results
  <2> SUFFICES ASSUME NEW i \in 0..m PROVE got[i] \in Results
    OBVIOUS
  <2>1. \A c \in Call : (\E j \in 1..i : calls[j] = c) => r[c] \in Result \cup {Pending}
    BY <1>9 DEF Result
  <2>2. got[i] = [c \in Call |-> IF \E j \in 1..i : calls[j] = c THEN r[c] ELSE p[c]]
    OBVIOUS
  <2> HIDE DEF got
  <2> QED BY <1>5, <2>1, <2>2 DEF Results
<1>14. got[0] = p /\ got[m] = q
  <2>1. got[0] = [c \in Call |-> IF \E j \in 1..0 : calls[j] = c THEN r[c] ELSE p[c]]
    OBVIOUS
  <2>2. got[m] = [c \in Call |-> IF \E j \in 1..m : calls[j] = c THEN r[c] ELSE p[c]]
    OBVIOUS
  <2> HIDE DEF got
  <2>3. \A c : c \in Range(calls) <=> \E j \in 1..m : calls[j] = c
    BY <1>1 DEF Range
  <2>4. got[0] = p
    BY <1>5, <2>1 DEF Results
  <2> QED BY <1>10, <2>2, <2>3, <2>4
<1>15. \A i \in 1..m :
         /\ got[i] = [got[i - 1] EXCEPT ![calls[i]] = r[calls[i]]]
         /\ got[i - 1][calls[i]] = Pending
  <2> SUFFICES ASSUME NEW i \in 1..m
               PROVE  /\ got[i] = [got[i - 1] EXCEPT ![calls[i]] = r[calls[i]]]
                      /\ got[i - 1][calls[i]] = Pending
    OBVIOUS
  <2>1. i \in 0..m /\ i - 1 \in 0..m
    OBVIOUS
  <2>2. got[i] = [c \in Call |-> IF \E j \in 1..i : calls[j] = c THEN r[c] ELSE p[c]]
    BY <2>1
  <2>3. got[i - 1] = [c \in Call |-> IF \E j \in 1..(i - 1) : calls[j] = c THEN r[c] ELSE p[c]]
    BY <2>1
  <2> HIDE DEF got
  <2>4. ~\E j \in 1..(i - 1) : calls[j] = calls[i]
    <3>1. \A j \in 1..(i - 1) : j \in 1..m /\ j # i
      OBVIOUS
    <3> QED BY <1>11, <3>1
  <2>5. \A c : (\E j \in 1..i : calls[j] = c) <=> (c = calls[i] \/ \E j \in 1..(i - 1) : calls[j] = c)
    <3>1. \A j \in 1..i : j = i \/ j \in 1..(i - 1)
      OBVIOUS
    <3>2. i \in 1..i /\ \A j \in 1..(i - 1) : j \in 1..i
      OBVIOUS
    <3> QED BY <3>1, <3>2
  <2>6. got[i - 1][calls[i]] = Pending
    BY <1>6, <1>12, <2>3, <2>4
  <2>7. \A c \in Call : got[i][c] = IF c = calls[i] THEN r[calls[i]] ELSE got[i - 1][c]
    BY <2>2, <2>3, <2>5
  <2>8. got[i] = [got[i - 1] EXCEPT ![calls[i]] = r[calls[i]]]
    BY <1>12, <1>13, <2>1, <2>7 DEF Results
  <2> QED BY <2>6, <2>8
<1> HIDE DEF got
<1>16. whole(m) => q = got[m] /\ Unpublished' = {}
  BY <1>4, <1>14 DEF Unpublished
<1>17. ~whole(m) => Unpublished' # {}
  BY <1>4, <1>14 DEF Unpublished
<1>18. \A i \in 0..m : whole(i) => i = m
  <2> SUFFICES ASSUME NEW i \in 0..m, i # m PROVE ~whole(i)
    OBVIOUS
  <2>1. i + 1 \in 1..m /\ (i + 1) - 1 = i
    OBVIOUS
  <2>2. got[i][calls[i + 1]] = Pending /\ calls[i + 1] \in Range(b)
    BY <1>6, <1>15, <2>1
  <2> QED BY <2>2
<1>19. Spoken' = IF whole(m) THEN c0 \o Replies(b, q) ELSE c0
  <2>1. Answers' = Replies(b, q)
    BY <1>4 DEF Answers, Replies
  <2> QED BY <1>4, <1>7, <1>16, <1>17, <2>1 DEF Spoken
<1>20. \A i \in 0..m : Replies(b, got[i]) \in Seq(Entry) /\ c0 \o Replies(b, got[i]) \in Seq(Entry)
  BY <1>5, <1>13, RepliesType, ConcatProperties DEF Results
<1>21. Starts(c0, c0) /\ \A t \in Seq(Entry) : Starts(c0, c0 \o t)
  <2>1. \A t \in Seq(Entry) :
          /\ c0 \o t \in Seq(Entry) /\ Len(c0 \o t) = Len(c0) + Len(t)
          /\ \A i \in 1..Len(c0) : (c0 \o t)[i] = c0[i]
    BY <1>5
  <2> QED BY <1>5, <2>1 DEF Starts
<1>22. Starts(Spoken, Spoken')
  <2>1. Replies(b, q) \in Seq(Entry)
    BY <1>5, RepliesType DEF Results
  <2> QED BY <1>8, <1>19, <1>21, <2>1
<1>23. u.mid \in Nat /\ u.seq = from /\ Calls \cap {<< >>} # {} /\ NoResults \in Results
  BY <1>1, <1>3, NoCallsAreCalls DEF Knowledge, AgentKnows, NoResults, Results
<1>24. \A i \in 0..m :
         IF whole(i)
         THEN /\ g[i].said = c0 \o Replies(b, got[i]) /\ g[i].open = << >>
              /\ g[i].mid = u.mid /\ g[i].seq = from + i /\ g[i] \in Knowledge
         ELSE /\ g[i].said = c0 /\ g[i].open = b /\ g[i].got = got[i]
              /\ g[i].mid = u.mid /\ g[i].seq = from + i /\ g[i] \in Knowledge
  <2> SUFFICES ASSUME NEW i \in 0..m
               PROVE  IF whole(i)
                      THEN /\ g[i].said = c0 \o Replies(b, got[i]) /\ g[i].open = << >>
                           /\ g[i].mid = u.mid /\ g[i].seq = from + i /\ g[i] \in Knowledge
                      ELSE /\ g[i].said = c0 /\ g[i].open = b /\ g[i].got = got[i]
                           /\ g[i].mid = u.mid /\ g[i].seq = from + i /\ g[i] \in Knowledge
    OBVIOUS
  <2>1. from + i \in Nat /\ << >> \in Calls /\ got[i] \in Results
    BY <1>13, NoCallsAreCalls
  <2>2. CASE whole(i)
    <3>1. g[i] = [said |-> c0 \o Replies(b, got[i]), open |-> << >>, got |-> NoResults,
                  mid |-> u.mid, seq |-> from + i]
      BY <2>2
    <3> HIDE DEF g, whole
    <3> QED BY <1>20, <1>23, <2>1, <2>2, <3>1 DEF Knowledge
  <2>3. CASE ~whole(i)
    <3>1. g[i] = [said |-> c0, open |-> b, got |-> got[i], mid |-> u.mid, seq |-> from + i]
      BY <2>3
    <3> HIDE DEF g, whole
    <3> QED BY <1>5, <1>23, <2>1, <2>3, <3>1 DEF Knowledge
  <2> QED BY <2>2, <2>3
<1>25. g \in [0..m -> Knowledge]
  BY <1>24
<1>26. ~whole(0)
  BY <1>4, <1>14 DEF Unpublished
<1>27. g[0] = u
  <2>1. g[0] = [said |-> c0, open |-> b, got |-> got[0], mid |-> u.mid, seq |-> from + 0]
    BY <1>26
  <2> HIDE DEF g, whole
  <2> QED BY <1>3, <1>8, <1>14, <1>23, <2>1 DEF Knowledge
<1>32. \A i \in 0..m : (\E c \in Range(b) : got[i][c] = Pending) <=> ~whole(i)
  OBVIOUS
<1> HIDE DEF g, whole
<1>28. \A i \in 0..m : Starts(g[i].said, Spoken')
  <2> SUFFICES ASSUME NEW i \in 0..m PROVE Starts(g[i].said, Spoken')
    OBVIOUS
  <2>1. CASE whole(i)
    <3>1. i = m /\ g[i].said = c0 \o Replies(b, q) /\ Spoken' = c0 \o Replies(b, q)
      BY <1>14, <1>18, <1>19, <1>24, <2>1
    <3> QED BY <1>14, <1>20, <3>1, StartsItself
  <2>2. CASE ~whole(i)
    BY <1>8, <1>22, <1>24, <2>2
  <2> QED BY <2>1, <2>2
<1> DEFINE events == [i \in DOMAIN calls |-> ToolResult(calls[i], r[calls[i]])]
<1>29. /\ events \in Seq(Event) /\ Len(events) = m /\ Emit(events)
       /\ \A i \in 1..m : events[i] = ToolResult(calls[i], r[calls[i]])
  <2>1. \A i \in 1..m : ToolResult(calls[i], r[calls[i]]) \in Event
    BY <1>9, <1>12, EventTypes DEF Result
  <2>2. events = [i \in 1..m |-> ToolResult(calls[i], r[calls[i]])]
    BY <1>1
  <2>3. Emit(events)
    BY <1>4 DEF Publish
  <2> HIDE DEF events
  <2> QED BY <2>1, <2>2, <2>3
<1> HIDE DEF events
<1>30. \A i \in 1..m : Hears(g[i - 1], events[i], g[i])
  <2> SUFFICES ASSUME NEW i \in 1..m PROVE Hears(g[i - 1], events[i], g[i])
    OBVIOUS
  <2>1. i - 1 \in 0..m /\ i \in 0..m /\ i - 1 # m
    OBVIOUS
  <2>2. ~whole(i - 1)
    BY <1>18, <2>1
  <2>3. /\ g[i - 1].said = c0 /\ g[i - 1].open = b /\ g[i - 1].got = got[i - 1]
        /\ g[i - 1].mid = u.mid
    BY <1>24, <2>1, <2>2
  <2>4. PICK e : e = events[i]
    OBVIOUS
  <2>5. e.type = "result" /\ e.call = calls[i] /\ e.result = r[calls[i]]
    BY <1>29, <2>4, ZenonT(30) DEF ToolResult, Other
  <2>6. got[i] = [got[i - 1] EXCEPT ![e.call] = e.result] /\ got[i - 1][e.call] = Pending
    BY <1>15, <2>5
  <2>7. (\E c \in Range(b) : got[i][c] = Pending) <=> ~whole(i)
    BY <1>32, <2>1
  <2>8. IF \E c \in Range(b) : got[i][c] = Pending
        THEN g[i].said = c0 /\ g[i].open = b /\ g[i].got = got[i] /\ g[i].mid = u.mid
        ELSE g[i].said = c0 \o Replies(b, got[i]) /\ g[i].open = << >> /\ g[i].mid = u.mid
    BY <1>24, <2>1, <2>7
  <2>9. e.call \in Range(b) /\ e.result \in {"fine", "failed"}
    BY <1>6, <1>9, <2>5
  <2>10. PICK v, w, x : v = g[i - 1] /\ w = g[i] /\ x = got[i]
    OBVIOUS
  <2>11. /\ v.said = c0 /\ v.open = b /\ v.mid = u.mid
         /\ x = [v.got EXCEPT ![e.call] = e.result] /\ v.got[e.call] = Pending
    BY <2>3, <2>6, <2>10
  <2>12. IF \E c \in Range(v.open) : x[c] = Pending
         THEN w.said = v.said /\ w.open = v.open /\ w.got = x /\ w.mid = v.mid
         ELSE w.said = v.said \o Replies(v.open, x) /\ w.open = << >> /\ w.mid = v.mid
    BY <2>8, <2>10, <2>11
  <2>13. HearsResult(v, e, w)
    BY <2>5, <2>9, <2>11, <2>12 DEF HearsResult
  <2> QED BY <2>4, <2>10, <2>13 DEF Hears
<1>31. AgentKnows(g[m])'
  <2>1. PICK v : v = g[m]
    OBVIOUS
  <2>2. v.seq = from + m /\ v.mid = u.mid /\ sent' = from + m
    <3>1. m \in 0..m
      OBVIOUS
    <3> QED BY <1>1, <1>24, <1>29, <2>1, <3>1 DEF Emit
  <2>3. v.mid <= used' /\ (mid' # NoMessage => v.mid < mid')
    BY <1>3, <2>2 DEF AgentKnows
  <2>4. ASSUME whole(m) PROVE AgentKnows(v)'
    <3>1. m \in 0..m
      OBVIOUS
    <3>2. v.said = c0 \o Replies(b, got[m]) /\ v.open = << >>
      BY <1>24, <2>1, <2>4, <3>1
    <3>3. v.said = Spoken' /\ Unpublished' = {}
      BY <1>14, <1>16, <1>19, <2>4, <3>2
    <3> QED BY <2>2, <2>3, <3>2, <3>3 DEF AgentKnows
  <2>5. ASSUME ~whole(m) PROVE AgentKnows(v)'
    <3>1. m \in 0..m
      OBVIOUS
    <3>2. v.said = c0 /\ v.open = b /\ v.got = got[m]
      BY <1>24, <2>1, <2>5, <3>1
    <3>3. v.said = Spoken' /\ v.open = batch' /\ v.got = published' /\ Unpublished' # {}
      BY <1>4, <1>14, <1>17, <1>19, <2>5, <3>2
    <3> QED BY <2>2, <2>3, <3>3 DEF AgentKnows
  <2>6. AgentKnows(v)'
    BY <2>4, <2>5
  <2> QED BY <2>1, <2>6
<1> QED
  <2>1. /\ g \in [0..Len(events) -> Knowledge] /\ g[0] = h[Len(wire) + 1]
        /\ AgentKnows(g[Len(events)])'
    BY <1>1, <1>2, <1>25, <1>27, <1>29, <1>31
  <2>2. /\ \A i \in 0..Len(events) : g[i].seq = sent + i /\ Starts(g[i].said, Spoken')
        /\ \A i \in 1..Len(events) : Hears(g[i - 1], events[i], g[i])
    BY <1>1, <1>24, <1>28, <1>29, <1>30
  <2> QED BY <1>22, <1>29, <2>1, <2>2, FollowsOn

(* A message: it is announced if it was not yet, completed, and its calls  *)
(* are started.                                                            *)
LEMMA ReplyFollows ==
  ASSUME NEW s \in Seq(Entry), NEW h, Follows(s, h), UNCHANGED runtimeVars,
         AgentTypes, AgentTypes', wire \in Seq(Event), batch = << >>,
         NEW calls \in Calls, NEW named \in BOOLEAN, ModelReplies(calls, named)
  PROVE  (\E k : Follows(s, k)') /\ Starts(Spoken, Spoken')
<1>1. PICK n \in Nat, l \in Nat, from \in Nat :
        n = Len(wire) /\ l = Len(calls) /\ from = sent
  BY CallsAreSequences DEF AgentTypes, AgentTypeOK
<1>2. PICK u : u = h[n + 1]
  OBVIOUS
<1>3. u \in Knowledge /\ AgentKnows(u)
  <2>1. n + 1 \in 1..(n + 1)
    OBVIOUS
  <2> QED BY <1>1, <1>2, <2>1 DEF Follows
<1>4. PICK c0, d : c0 = conv /\ d = MessageId
  OBVIOUS
<1>5. /\ c0 \in Seq(Entry) /\ d \in Message /\ calls \in Seq(Call) /\ Distinct(calls)
      /\ Opening \in Seq(Event)
  BY <1>4, OpeningTypes, CallsAreSequences DEF AgentTypes, ModelReplies
<1>6. u.said = c0 /\ u.open = << >> /\ Spoken = c0
  <2>1. Unpublished = {}
    BY DEF Unpublished, Range
  <2> QED BY <1>3, <1>4, <2>1 DEF AgentKnows, Spoken
<1>7. /\ mid' = NoMessage /\ used' = d /\ conv' = Append(c0, Said(calls)) /\ batch' = calls
      /\ published' = NoResults
  BY <1>4 DEF ModelReplies, CloseMessage, NoResults
<1>8. Said(calls) \in Entry /\ Append(c0, Said(calls)) \in Seq(Entry)
  <2>1. Said(calls) \in Entry
    BY DEF Said, Asked, Entry
  <2> QED BY <1>5, <2>1
<1>9. Unpublished' = {} <=> calls = << >>
  <2>1. Unpublished' = {c \in Range(calls) : NoResults[c] = Pending}
    BY <1>7 DEF Unpublished
  <2>2. \A c \in Range(calls) : c \in Call
    BY <1>5 DEF Range
  <2>3. Unpublished' = Range(calls)
    BY <2>1, <2>2 DEF NoResults
  <2>4. calls # << >> => calls[1] \in Range(calls)
    BY <1>5 DEF Range
  <2>5. calls = << >> => Range(calls) = {}
    BY DEF Range
  <2> QED BY <2>3, <2>4, <2>5
<1>10. Spoken' = Append(c0, Said(calls))
  BY <1>7, <1>9 DEF Spoken
<1>11. /\ Starts(c0, Append(c0, Said(calls)))
       /\ Starts(Append(c0, Said(calls)), Append(c0, Said(calls)))
  BY <1>5, <1>8 DEF Starts
<1>12. u.mid \in Nat /\ u.mid < d /\ d \in Nat
  <2>1. /\ u.mid \in Nat /\ used \in Nat /\ mid \in Nat /\ d \in Nat
        /\ u.mid <= used /\ (mid # NoMessage => u.mid < mid)
    BY <1>3, <1>5, WireBounds DEF Knowledge, AgentKnows, AgentTypes, AgentTypeOK, Message
  <2>2. d = IF mid = NoMessage THEN used + 1 ELSE mid
    BY <1>4 DEF MessageId
  <2> QED BY <2>1, <2>2
(* The events, and the knowledge after each.                               *)
<1> DEFINE started == [i \in DOMAIN calls |-> ToolStarted(calls[i])]
<1>13. PICK o \in Nat : o = Len(Opening)
  BY <1>5
<1>14. \A i \in 1..o : Opening[i].type = "text" /\ Opening[i].mid # NoMessage
  <2>1. mid = NoMessage => used + 1 # NoMessage
    BY <1>4, <1>5, WireBounds DEF MessageId, Message, NoMessage
  <2>2. Text(used + 1).type = "text" /\ Text(used + 1).mid = used + 1
    BY DEF Text, Other
  <2> QED BY <1>13, <2>1, <2>2 DEF Opening
<1>15. PICK e : e = Done(MessageId, calls, named)
  OBVIOUS
<1>16. e \in Event /\ e.type = "done" /\ e.calls = calls /\ e.mid = d
  BY <1>4, <1>5, <1>15, EventTypes DEF Done, Other
<1>17. started \in Seq(Event) /\ Len(started) = l /\ \A i \in 1..l : started[i] = ToolStarted(calls[i])
  <2>1. \A i \in 1..l : ToolStarted(calls[i]) \in Event
    BY <1>1, <1>5, EventTypes
  <2>2. started = [i \in 1..l |-> ToolStarted(calls[i])]
    BY <1>1, <1>5
  <2> HIDE DEF started
  <2> QED BY <2>1, <2>2
<1> HIDE DEF started
<1>0. PICK events : events = Opening \o <<e>> \o started
  OBVIOUS
<1>18. /\ events \in Seq(Event) /\ Len(events) = o + 1 + l
       /\ \A i \in 1..o : events[i] = Opening[i]
       /\ events[o + 1] = e
       /\ \A i \in 1..l : events[o + 1 + i] = ToolStarted(calls[i])
  <2>1. PICK a : a = Opening \o <<e>>
    OBVIOUS
  <2>2. <<e>> \in Seq(Event) /\ Len(<<e>>) = 1 /\ <<e>>[1] = e
    BY <1>16
  <2>3. /\ a \in Seq(Event) /\ Len(a) = o + 1
        /\ \A i \in 1..o : a[i] = Opening[i]
        /\ a[o + 1] = e
    BY <1>5, <1>13, <2>1, <2>2, ConcatProperties
  <2>4. events = a \o started
    BY <1>0, <2>1
  <2>5. /\ events \in Seq(Event) /\ Len(events) = o + 1 + l
        /\ \A i \in 1..(o + 1 + l) :
             events[i] = IF i <= o + 1 THEN a[i] ELSE started[i - (o + 1)]
    <3>1. /\ a \o started \in Seq(Event) /\ Len(a \o started) = Len(a) + Len(started)
          /\ \A i \in 1..(Len(a) + Len(started)) :
               (a \o started)[i] = IF i <= Len(a) THEN a[i] ELSE started[i - Len(a)]
      BY <1>17, <2>3, ConcatProperties
    <3>2. Len(a) = o + 1 /\ Len(started) = l
      BY <1>17, <2>3
    <3> HIDE DEF started
    <3> QED BY <2>4, <3>1, <3>2
  <2>6. /\ \A i \in 1..(o + 1) : i \in 1..(o + 1 + l) /\ i <= o + 1
        /\ \A i \in 1..l : /\ o + 1 + i \in 1..(o + 1 + l) /\ ~(o + 1 + i <= o + 1)
                           /\ (o + 1 + i) - (o + 1) = i
        /\ \A i \in 1..o : i \in 1..(o + 1)
        /\ o + 1 \in 1..(o + 1)
    OBVIOUS
  <2>7. \A i \in 1..(o + 1) : events[i] = a[i]
    BY <2>5, <2>6
  <2>8. \A i \in 1..l : events[o + 1 + i] = started[i]
    BY <2>5, <2>6
  <2>9. \A i \in 1..o : events[i] = Opening[i]
    BY <2>3, <2>6, <2>7
  <2>10. events[o + 1] = e
    BY <2>3, <2>6, <2>7
  <2>11. \A i \in 1..l : events[o + 1 + i] = ToolStarted(calls[i])
    BY <1>17, <2>8
  <2> QED BY <2>5, <2>9, <2>10, <2>11
<1>19. Emit(events)
  BY <1>0, <1>15 DEF ModelReplies, started
<1> DEFINE opened == [said |-> Append(c0, Said(calls)), open |-> calls, got |-> NoResults,
                      mid |-> d, seq |-> 0]
           g == [i \in 0..(o + 1 + l) |->
                  [(IF i <= o THEN u ELSE opened) EXCEPT !.seq = from + i]]
<1>20. /\ opened \in Knowledge /\ opened.said = Append(c0, Said(calls)) /\ opened.open = calls
       /\ opened.got = NoResults /\ opened.mid = d
  BY <1>8, <1>12 DEF Knowledge, NoResults, Results
<1> HIDE DEF opened
<1>21. \A i \in 0..(o + 1 + l) :
         LET v == IF i <= o THEN u ELSE opened IN
         /\ g[i] \in Knowledge /\ g[i].seq = from + i
         /\ g[i].said = v.said /\ g[i].open = v.open /\ g[i].got = v.got /\ g[i].mid = v.mid
  <2> SUFFICES ASSUME NEW i \in 0..(o + 1 + l)
               PROVE  LET v == IF i <= o THEN u ELSE opened IN
                      /\ g[i] \in Knowledge /\ g[i].seq = from + i
                      /\ g[i].said = v.said /\ g[i].open = v.open
                      /\ g[i].got = v.got /\ g[i].mid = v.mid
    OBVIOUS
  <2>1. PICK v : v = IF i <= o THEN u ELSE opened
    OBVIOUS
  <2>2. v \in Knowledge
    BY <1>3, <1>20, <2>1
  <2>3. from + i \in Nat /\ g[i] = [v EXCEPT !.seq = from + i]
    BY <2>1
  <2> HIDE DEF g
  <2>4. /\ g[i] \in Knowledge /\ g[i].seq = from + i
        /\ g[i].said = v.said /\ g[i].open = v.open /\ g[i].got = v.got /\ g[i].mid = v.mid
    BY <2>2, <2>3, Renumbering
  <2> QED BY <2>1, <2>4
<1>22. g \in [0..(o + 1 + l) -> Knowledge]
  BY <1>21
<1>23. g[0] = u
  <2>1. 0 <= o /\ 0 \in 0..(o + 1 + l)
    OBVIOUS
  <2>2. g[0] = [u EXCEPT !.seq = u.seq]
    BY <1>1, <1>3, <2>1 DEF AgentKnows
  <2> HIDE DEF g
  <2> QED BY <1>3, <2>2 DEF Knowledge
<1> HIDE DEF g
<1>24. \A i \in 0..o : /\ g[i].said = c0 /\ g[i].open = << >> /\ g[i].got = u.got
                       /\ g[i].mid = u.mid
  <2>1. \A i \in 0..o : i \in 0..(o + 1 + l) /\ i <= o
    OBVIOUS
  <2> QED BY <1>6, <1>21, <2>1
<1>25. \A i \in 0..l : /\ g[o + 1 + i].said = Append(c0, Said(calls)) /\ g[o + 1 + i].open = calls
                       /\ g[o + 1 + i].got = NoResults /\ g[o + 1 + i].mid = d
  <2>1. \A i \in 0..l : o + 1 + i \in 0..(o + 1 + l) /\ ~(o + 1 + i <= o)
    OBVIOUS
  <2> QED BY <1>20, <1>21, <2>1
<1>26. \A i \in 0..(o + 1 + l) : i \in 0..o \/ \E j \in 0..l : i = o + 1 + j
  <2> SUFFICES ASSUME NEW i \in 0..(o + 1 + l), i > o PROVE \E j \in 0..l : i = o + 1 + j
    OBVIOUS
  <2>1. i - (o + 1) \in 0..l /\ i = o + 1 + (i - (o + 1))
    OBVIOUS
  <2> QED BY <2>1
<1>27. \A i \in 0..(o + 1 + l) : g[i].seq = from + i /\ Starts(g[i].said, Spoken')
  BY <1>10, <1>11, <1>21, <1>24, <1>25, <1>26
<1>28. \A i \in 1..(o + 1 + l) : Hears(g[i - 1], events[i], g[i])
  <2>1. ASSUME NEW i \in 1..o PROVE Hears(g[i - 1], events[i], g[i])
    <3>1. i \in 0..o /\ i - 1 \in 0..o
      OBVIOUS
    <3>2. HearsNothing(g[i - 1], events[i], g[i])
      BY <1>14, <1>18, <1>24, <3>1 DEF HearsNothing
    <3> QED BY <3>2 DEF Hears
  <2>2. Hears(g[o], events[o + 1], g[o + 1])
    <3>1. o \in 0..o /\ 0 \in 0..l /\ o + 1 + 0 = o + 1
      OBVIOUS
    <3>2. /\ g[o].said = c0 /\ g[o].open = << >> /\ g[o].mid = u.mid
          /\ g[o + 1].said = Append(c0, Said(calls)) /\ g[o + 1].open = calls
          /\ g[o + 1].got = NoResults /\ g[o + 1].mid = d
      BY <1>24, <1>25, <3>1
    <3>3. HearsMessage(g[o], e, g[o + 1])
      BY <1>5, <1>12, <1>16, <3>2 DEF HearsMessage
    <3> QED BY <1>18, <3>3 DEF Hears
  <2>3. ASSUME NEW j \in 1..l PROVE Hears(g[o + j], events[o + 1 + j], g[o + 1 + j])
    <3>1. j \in 0..l /\ j - 1 \in 0..l /\ o + 1 + (j - 1) = o + j
      OBVIOUS
    <3>2. /\ g[o + j].said = g[o + 1 + j].said /\ g[o + j].open = g[o + 1 + j].open
          /\ g[o + j].got = g[o + 1 + j].got /\ g[o + j].mid = g[o + 1 + j].mid
      BY <1>25, <3>1
    <3>3. calls[j] # NoCall
      BY <1>1, <1>5, CallAssumption
    <3>4. ToolStarted(calls[j]).type = "tool_started" /\ ToolStarted(calls[j]).call = calls[j]
      BY DEF ToolStarted, Other
    <3>5. HearsNothing(g[o + j], ToolStarted(calls[j]), g[o + 1 + j])
      BY <3>2, <3>3, <3>4 DEF HearsNothing
    <3> QED BY <1>18, <3>5 DEF Hears
  <2> SUFFICES ASSUME NEW i \in 1..(o + 1 + l) PROVE Hears(g[i - 1], events[i], g[i])
    OBVIOUS
  <2>4. CASE i \in 1..o
    BY <2>1, <2>4
  <2>5. CASE i = o + 1
    <3>1. i - 1 = o
      BY <2>5
    <3> QED BY <2>2, <2>5, <3>1
  <2>6. CASE i > o + 1
    <3>1. PICK j \in 1..l : i = o + 1 + j
      <4>1. i - (o + 1) \in 1..l /\ i = o + 1 + (i - (o + 1))
        BY <2>6
      <4> QED BY <4>1
    <3>2. i - 1 = o + j
      BY <3>1
    <3> QED BY <2>3, <3>1, <3>2
  <2>7. i \in 1..o \/ i = o + 1 \/ i > o + 1
    OBVIOUS
  <2> QED BY <2>4, <2>5, <2>6, <2>7
<1>29. AgentKnows(g[o + 1 + l])'
  <2>1. PICK v : v = g[o + 1 + l]
    OBVIOUS
  <2>2. l \in 0..l /\ o + 1 + l \in 0..(o + 1 + l)
    OBVIOUS
  <2>3. /\ v.said = Append(c0, Said(calls)) /\ v.open = calls
        /\ v.got = NoResults /\ v.mid = d /\ v.seq = from + (o + 1 + l)
    BY <1>21, <1>25, <2>1, <2>2
  <2>4. sent' = from + (o + 1 + l)
    BY <1>1, <1>18, <1>19 DEF Emit
  <2>5. v.mid <= used' /\ (mid' # NoMessage => v.mid < mid')
    BY <1>7, <1>12, <2>3
  <2>6. v.open = IF Unpublished' = {} THEN << >> ELSE batch'
    BY <1>7, <1>9, <2>3
  <2>7. AgentKnows(v)'
    BY <1>7, <1>10, <2>3, <2>4, <2>5, <2>6 DEF AgentKnows
  <2> QED BY <2>1, <2>7
<1>30. Starts(Spoken, Spoken')
  BY <1>6, <1>10, <1>11
<1> QED
  <2>1. /\ g \in [0..Len(events) -> Knowledge] /\ g[0] = h[Len(wire) + 1]
        /\ AgentKnows(g[Len(events)])'
    BY <1>1, <1>2, <1>18, <1>22, <1>23, <1>29
  <2>2. /\ \A i \in 0..Len(events) : g[i].seq = sent + i /\ Starts(g[i].said, Spoken')
        /\ \A i \in 1..Len(events) : Hears(g[i - 1], events[i], g[i])
    BY <1>1, <1>18, <1>27, <1>28
  <2> QED BY <1>18, <1>19, <1>30, <2>1, <2>2, FollowsOn

-----------------------------------------------------------------------------
(* What is published together are distinct calls that were not published.  *)
LEMMA InOrderDistinct ==
  ASSUME AgentTypes, Distinct(batch), NEW S, S \subseteq Call, NEW calls \in InOrder(S)
  PROVE  Distinct(calls)
<1>1. calls \in Seq(Call)
  BY InOrderTypes
<1>2. batch \in Seq(Call)
  BY BatchTypes
<1>3. ASSUME NEW i \in DOMAIN calls, NEW j \in DOMAIN calls, i < j
      PROVE  calls[i] # calls[j]
  <2>1. PICK k \in DOMAIN batch, l \in DOMAIN batch :
          k < l /\ batch[k] = calls[i] /\ batch[l] = calls[j]
    BY <1>3 DEF InOrder
  <2>2. k # l
    BY <1>2, <2>1
  <2> QED BY <2>1, <2>2 DEF Distinct
<1>4. ASSUME NEW i \in DOMAIN calls, NEW j \in DOMAIN calls, calls[i] = calls[j]
      PROVE  i = j
  <2>1. i \in Nat /\ j \in Nat
    BY <1>1
  <2>2. i < j \/ j < i \/ i = j
    BY <2>1
  <2> QED BY <1>3, <1>4, <2>2
<1> QED BY <1>4 DEF Distinct

Publishing(calls) ==
  /\ Publish(calls) /\ Distinct(calls)
  /\ Range(calls) \subseteq Unpublished /\ Unpublished # {}
  /\ \A i \in DOMAIN calls : task'[calls[i]] \in {"fine", "failed"}

LEMMA PublishingSteps ==
  ASSUME AgentTypes, Distinct(batch),
         PublishFinished \/ DeadlinePasses \/ \E c \in Call : ExecutorRaises(c)
  PROVE  \E calls \in Seq(Call) : Publishing(calls)
<1>1. Unpublished \subseteq Call /\ Finished \subseteq Unpublished
  BY BatchTypes DEF Unpublished, Finished
<1>2. CASE PublishFinished
  <2>1. PICK calls \in InOrder(Finished) : Publish(calls)
    BY <1>2 DEF PublishFinished
  <2>2. calls \in Seq(Call) /\ Range(calls) = Finished /\ Distinct(calls)
    BY <1>1, <2>1, InOrderTypes, InOrderDistinct
  <2>3. \A i \in DOMAIN calls : task'[calls[i]] \in {"fine", "failed"}
    BY <1>2, <2>2 DEF PublishFinished, Finished, Range
  <2>4. Unpublished # {}
    BY <1>1, <1>2 DEF PublishFinished
  <2>5. Publishing(calls)
    BY <1>1, <2>1, <2>2, <2>3, <2>4 DEF Publishing
  <2> QED BY <2>2, <2>5
<1>3. CASE DeadlinePasses
  <2>1. PICK calls \in InOrder(Unpublished) : Publish(calls)
    BY <1>3 DEF DeadlinePasses
  <2>2. calls \in Seq(Call) /\ Range(calls) = Unpublished /\ Distinct(calls)
    BY <1>1, <2>1, InOrderTypes, InOrderDistinct
  <2>3. task' = [c \in Call |-> IF c \in Unpublished THEN "failed" ELSE task[c]]
        /\ Unpublished # {}
    BY <1>3 DEF DeadlinePasses
  <2>4. \A i \in DOMAIN calls : task'[calls[i]] \in {"fine", "failed"}
    BY <1>1, <2>2, <2>3 DEF Range
  <2>5. Publishing(calls)
    BY <2>1, <2>2, <2>3, <2>4 DEF Publishing
  <2> QED BY <2>2, <2>5
<1>4. CASE \E c \in Call : ExecutorRaises(c)
  <2>1. PICK c \in Call : ExecutorRaises(c)
    BY <1>4
  <2> DEFINE before == {d \in Finished : \E i, j \in DOMAIN batch :
                          batch[i] = d /\ batch[j] = c /\ i < j}
  <2>2. PICK first \in InOrder(before), rest \in InOrder(Unpublished \ before) :
          Publish(first \o rest)
    BY <2>1 DEF ExecutorRaises
  <2>3. task' = [d \in Call |-> IF d \in Unpublished \ before THEN "failed" ELSE task[d]]
    BY <2>1 DEF ExecutorRaises
  <2>4. before \subseteq Finished
    OBVIOUS
  <2> HIDE DEF before
  <2>5. /\ first \in Seq(Call) /\ Range(first) = before /\ Distinct(first)
        /\ rest \in Seq(Call) /\ Range(rest) = Unpublished \ before /\ Distinct(rest)
    BY <1>1, <2>2, <2>4, InOrderTypes, InOrderDistinct
  <2>6. /\ \A i \in DOMAIN first : first[i] \in before /\ task'[first[i]] \in {"fine", "failed"}
        /\ \A i \in DOMAIN rest : /\ rest[i] \in Unpublished \ before
                                  /\ task'[rest[i]] \in {"fine", "failed"}
    BY <1>1, <2>3, <2>4, <2>5 DEF Range, Finished
  <2>7. PICK calls : calls = first \o rest
    OBVIOUS
  <2>8. /\ calls \in Seq(Call) /\ Len(calls) = Len(first) + Len(rest)
        /\ \A i \in 1..(Len(first) + Len(rest)) :
             calls[i] = IF i <= Len(first) THEN first[i] ELSE rest[i - Len(first)]
    BY <2>5, <2>7, ConcatProperties
  <2>9. \A i \in DOMAIN calls :
          IF i <= Len(first) THEN i \in DOMAIN first /\ calls[i] = first[i]
          ELSE i - Len(first) \in DOMAIN rest /\ calls[i] = rest[i - Len(first)]
    <3> SUFFICES ASSUME NEW i \in DOMAIN calls
                 PROVE  IF i <= Len(first) THEN i \in DOMAIN first /\ calls[i] = first[i]
                        ELSE i - Len(first) \in DOMAIN rest /\ calls[i] = rest[i - Len(first)]
      OBVIOUS
    <3>1. i \in 1..(Len(first) + Len(rest)) /\ Len(first) \in Nat /\ Len(rest) \in Nat
      BY <2>5, <2>8
    <3>2. DOMAIN first = 1..Len(first) /\ DOMAIN rest = 1..Len(rest)
      BY <2>5
    <3> QED BY <2>8, <3>1, <3>2
  <2>10. Distinct(calls)
    <3> SUFFICES ASSUME NEW i \in DOMAIN calls, NEW j \in DOMAIN calls, calls[i] = calls[j]
                 PROVE  i = j
      BY DEF Distinct
    <3>1. i \in Nat /\ j \in Nat /\ Len(first) \in Nat
      BY <2>5, <2>8
    <3>2. CASE i <= Len(first) /\ j <= Len(first)
      BY <2>5, <2>9, <3>2 DEF Distinct
    <3>3. CASE ~(i <= Len(first)) /\ ~(j <= Len(first))
      <4>1. i - Len(first) = j - Len(first)
        BY <2>5, <2>9, <3>3 DEF Distinct
      <4> QED BY <3>1, <4>1
    <3>4. CASE (i <= Len(first)) # (j <= Len(first))
      BY <2>6, <2>9, <3>4
    <3> QED BY <3>2, <3>3, <3>4
  <2>11. \A i \in DOMAIN calls : task'[calls[i]] \in {"fine", "failed"} /\ calls[i] \in Unpublished
    BY <1>1, <2>4, <2>6, <2>9
  <2>12. Range(calls) \subseteq Unpublished
    BY <2>11 DEF Range
  <2>13. Unpublished # {} /\ Publish(calls)
    BY <2>1, <2>2, <2>7 DEF ExecutorRaises
  <2>14. Publishing(calls)
    BY <2>10, <2>11, <2>12, <2>13 DEF Publishing
  <2> QED BY <2>8, <2>14
<1> QED BY <1>2, <1>3, <1>4

LEMMA OpeningEvents ==
  ASSUME AgentTypes, node = "model"
  PROVE  /\ \A i \in DOMAIN Opening : Opening[i].type = "text" /\ Opening[i].mid # NoMessage
         /\ Opening \in Seq(Event)
         /\ (used < MessageId \/ (mid # NoMessage /\ MessageId = used))
<1>1. used \in Nat /\ MaxMessages \in Nat
  BY WireBounds DEF AgentTypes, AgentTypeOK
<1>2. Text(used + 1).type = "text" /\ Text(used + 1).mid = used + 1 /\ used + 1 # NoMessage
  BY <1>1 DEF Text, Other, NoMessage
<1>3. \A i \in DOMAIN Opening : Opening[i].type = "text" /\ Opening[i].mid # NoMessage
  BY <1>2 DEF Opening
<1>4. used < MessageId \/ (mid # NoMessage /\ MessageId = used)
  BY <1>1 DEF MessageId, AgentTypes
<1> QED BY <1>3, <1>4, OpeningTypes

(* The events of a step that completes no message and answers no call.     *)
Quietly(events) ==
  /\ Emit(events) /\ UNCHANGED <<batch, published, conv>>
  /\ \A i \in DOMAIN events : TellsNothing(events[i])
  /\ \A i \in DOMAIN events : events[i].type = "completed" =>
       i = Len(events) /\ node' = "ended" /\ batch = << >>
  /\ node' = "ended" \/ batch = << >>
  /\ used <= used' /\ (mid' # NoMessage => (mid' = mid \/ mid' > used))

LEMMA QuietSteps ==
  ASSUME AgentTypes, Stages,
         Accept \/ FirstChunk \/ ModelFails \/ ModelGivesUp \/ CompletionFails \/ Complete
  PROVE  \E events \in Seq(Event) : Quietly(events)
<1>1. used \in Nat /\ mid \in Nat
  BY DEF AgentTypes, AgentTypeOK
<1>2. /\ \A type \in EventType : Other(type) \in Event /\ Other(type).type = type
      /\ {"other", "failed", "completed"} \subseteq EventType
  BY EventTypes DEF Other, EventType
<1>3. CASE Accept \/ CompletionFails \/ Complete
  <2>1. PICK events \in Seq(Event) :
          /\ Emit(events)
          /\ \/ events = <<Other("other"), Other("other")>>
             \/ events = <<Other("failed")>>
             \/ events = <<Other("completed")>> /\ Complete
    <3>1. /\ <<Other("other"), Other("other")>> \in Seq(Event)
          /\ <<Other("failed")>> \in Seq(Event) /\ <<Other("completed")>> \in Seq(Event)
      BY <1>2
    <3>2. CASE Accept
      BY <3>1, <3>2 DEF Accept
    <3>3. CASE CompletionFails
      BY <3>1, <3>3 DEF CompletionFails, EmitLast
    <3>4. CASE Complete
      BY <3>1, <3>4 DEF Complete, EmitLast
    <3> QED BY <1>3, <3>2, <3>3, <3>4
  <2>2. UNCHANGED <<batch, published, conv, used, mid>>
    BY <1>3 DEF Accept, CompletionFails, Complete
  <2>3. ASSUME Complete PROVE batch = << >> /\ Unpublished = {} /\ node' = "ended"
    BY <2>3 DEF Complete, Stages, Unpublished, Range, EmitLast
  <2>4. \A i \in DOMAIN events :
          /\ events[i].type \in {"other", "failed", "completed"}
          /\ events[i].type = "completed" => i = 1 /\ Len(events) = 1 /\ Complete
    <3>1. CASE events = <<Other("other"), Other("other")>>
      BY <1>2, <3>1
    <3>2. CASE events = <<Other("failed")>>
      BY <1>2, <3>2
    <3>3. CASE events = <<Other("completed")>> /\ Complete
      BY <1>2, <3>3
    <3> QED BY <2>1, <3>1, <3>2, <3>3
  <2>5. \A i \in DOMAIN events : TellsNothing(events[i])
    BY <2>3, <2>4 DEF TellsNothing
  <2>6. \A i \in DOMAIN events : events[i].type = "completed" =>
          i = Len(events) /\ node' = "ended" /\ batch = << >>
    BY <2>3, <2>4
  <2>7. node' = "ended" \/ batch = << >>
    BY <1>3 DEF Accept, CompletionFails, Complete, EmitLast, Stages
  <2> QED BY <1>1, <2>1, <2>2, <2>5, <2>6, <2>7 DEF Quietly
<1>4. CASE FirstChunk \/ ModelFails \/ ModelGivesUp
  <2>1. node = "model" /\ UNCHANGED <<batch, published, conv>> /\ used' = MessageId
    BY <1>4 DEF FirstChunk, ModelFails, ModelGivesUp, CloseMessage
  <2>2. /\ \A i \in DOMAIN Opening : Opening[i].type = "text" /\ Opening[i].mid # NoMessage
        /\ Opening \in Seq(Event)
        /\ (used < MessageId \/ (mid # NoMessage /\ MessageId = used))
    BY <2>1, OpeningEvents
  <2>3. \/ mid' = NoMessage
        \/ mid = NoMessage /\ mid' = MessageId
    BY <1>4 DEF FirstChunk, ModelFails, ModelGivesUp, CloseMessage
  <2>4. MessageId \in Nat /\ NoMessage = 0
    BY <2>1, OpeningTypes, WireBounds DEF Message, NoMessage
  <2>5. used <= used' /\ (mid' # NoMessage => (mid' = mid \/ mid' > used))
    BY <1>1, <2>1, <2>2, <2>3, <2>4
  <2>6. PICK o : o = Opening
    OBVIOUS
  <2>7. ASSUME NEW type \in {"other", "failed"}
        PROVE  /\ o \o <<Other(type)>> \in Seq(Event)
               /\ \A i \in DOMAIN (o \o <<Other(type)>>) :
                    LET e == (o \o <<Other(type)>>)[i] IN
                    e.type = type \/ (e.type = "text" /\ e.mid # NoMessage)
    <3>1. PICK e : e = Other(type) /\ e \in Event /\ e.type = type
      BY <1>2
    <3>2. <<e>> \in Seq(Event) /\ Len(<<e>>) = 1 /\ <<e>>[1] = e
      BY <3>1
    <3>3. PICK a : a = o \o <<e>>
      OBVIOUS
    <3>4. o \in Seq(Event) /\ Len(o) \in Nat
      BY <2>2, <2>6
    <3>5. /\ a \in Seq(Event) /\ Len(a) = Len(o) + 1
          /\ \A i \in 1..Len(o) : a[i] = o[i]
          /\ a[Len(o) + 1] = e
      BY <3>2, <3>3, <3>4, ConcatProperties
    <3>6. \A i \in DOMAIN a : i \in 1..Len(o) \/ i = Len(o) + 1
      BY <3>4, <3>5
    <3>7. \A i \in DOMAIN a : a[i].type = type \/ (a[i].type = "text" /\ a[i].mid # NoMessage)
      BY <2>2, <2>6, <3>1, <3>5, <3>6
    <3> QED BY <3>1, <3>3, <3>5, <3>7
  <2>8. PICK events \in Seq(Event) :
          /\ Emit(events)
          /\ \A i \in DOMAIN events : \/ events[i].type \in {"other", "failed"}
                                      \/ events[i].type = "text" /\ events[i].mid # NoMessage
    <3>1. CASE FirstChunk
      BY <2>2, <3>1 DEF FirstChunk
    <3>2. CASE ModelFails
      BY <2>6, <2>7, <3>2 DEF ModelFails
    <3>3. CASE ModelGivesUp
      BY <2>6, <2>7, <3>3 DEF ModelGivesUp, EmitLast
    <3> QED BY <1>4, <3>1, <3>2, <3>3
  <2>9. \A i \in DOMAIN events : TellsNothing(events[i]) /\ events[i].type # "completed"
    BY <2>8 DEF TellsNothing
  <2>10. batch = << >>
    BY <2>1 DEF Stages
  <2> QED BY <2>1, <2>5, <2>8, <2>9, <2>10 DEF Quietly
<1> QED BY <1>3, <1>4

(* Steps of the agent that send nothing.                                   *)
Silent == Refuse \/ RetryDue \/ ToolsReturn \/ Abandoned
          \/ \E c \in Call, r \in {"fine", "failed"} : ToolEnds(c, r)

LEMMA SilentSteps ==
  ASSUME AgentTypes, Silent
  PROVE  /\ UNCHANGED <<wire, used, mid, sent>> /\ Spoken' = Spoken
         /\ (Unpublished = {}) <=> (Unpublished = {})'
         /\ Unpublished # {} => UNCHANGED <<batch, published>>
<1>1. UNCHANGED <<wire, used, mid, sent>>
  BY DEF Silent, Refuse, RetryDue, ToolsReturn, Abandoned, ToolEnds
<1>2. CASE ToolsReturn
  <2>1. /\ Unpublished = {} /\ conv' = conv \o Answers /\ batch' = << >>
    BY <1>2 DEF ToolsReturn
  <2>2. Unpublished' = {}
    BY <2>1 DEF Unpublished, Range
  <2>3. Spoken' = conv \o Answers
    BY <2>1 DEF Spoken
  <2>4. CASE batch = << >>
    <3>1. Answers = << >>
      BY <2>4 DEF Answers
    <3>2. conv \o << >> = conv
      BY DEF AgentTypes
    <3> QED BY <1>1, <2>1, <2>2, <2>3, <2>4, <3>1, <3>2 DEF Spoken
  <2>5. CASE batch # << >>
    BY <1>1, <2>1, <2>2, <2>3, <2>5 DEF Spoken
  <2> QED BY <2>4, <2>5
<1>3. CASE ~ToolsReturn
  <2>1. UNCHANGED <<batch, published, conv>>
    BY <1>3 DEF Silent, Refuse, RetryDue, Abandoned, ToolEnds
  <2> QED BY <1>1, <2>1 DEF Spoken, Answers, Unpublished
<1> QED BY <1>2, <1>3

LEMMA AgentSteps ==
  ASSUME AgentTypes, Stages, AgentNext
  PROVE  \/ Silent
         \/ \E events \in Seq(Event) : Quietly(events)
         \/ \E calls \in Calls, named \in BOOLEAN : ModelReplies(calls, named)
         \/ /\ \E calls \in Seq(Call) : Publishing(calls)
            /\ node = "tools" /\ UNCHANGED <<node, batch, conv, used, mid>>
<1>1. Distinct(batch)
  BY DEF Stages
<1>2. CASE PublishFinished \/ DeadlinePasses \/ \E c \in Call : ExecutorRaises(c)
  <2>1. node = "tools" /\ UNCHANGED <<node, batch, conv, used, mid>>
    BY <1>2 DEF PublishFinished, DeadlinePasses, ExecutorRaises
  <2> QED BY <1>1, <1>2, <2>1, PublishingSteps
<1> QED
  BY <1>2, QuietSteps DEF AgentNext, ModelStep, LoopStep, Silent

LEMMA AgentRests == AgentNext => node # "ended"
  BY DEF AgentNext, ModelStep, LoopStep, FirstChunk, ModelFails, ModelGivesUp, CompletionFails,
         ModelReplies, Refuse, Accept, RetryDue, Complete, PublishFinished, ToolsReturn, Abandoned,
         DeadlinePasses, ExecutorRaises, ToolEnds

(* Emitted events are the last of the stream.                              *)
LEMMA Emitted ==
  ASSUME wire \in Seq(Event), sent \in Nat, NEW events \in Seq(Event), Emit(events)
  PROVE  /\ Len(wire') = Len(wire) + Len(events)
         /\ \A i \in DOMAIN wire' :
              \/ i \in DOMAIN wire /\ wire'[i] = wire[i]
              \/ \E j \in DOMAIN events : i = Len(wire) + j /\ wire'[i].type = events[j].type
<1> DEFINE numbered == [i \in DOMAIN events |-> [events[i] EXCEPT !.seq = sent + i]]
<1>1. \A i \in DOMAIN events : sent + i \in Nat /\ events[i] \in Event
  OBVIOUS
<1>2. \A i \in DOMAIN events : [events[i] EXCEPT !.seq = sent + i] \in Event
                               /\ [events[i] EXCEPT !.seq = sent + i].type = events[i].type
  <2>1. \A e \in Event, n \in Nat : [e EXCEPT !.seq = n].type = e.type
    BY DEF Event
  <2> QED BY <1>1, <2>1, Renumbered
<1>3. /\ numbered \in Seq(Event) /\ Len(numbered) = Len(events)
      /\ \A i \in DOMAIN events : numbered[i].type = events[i].type
  <2>1. \A i \in DOMAIN events : numbered[i] = [events[i] EXCEPT !.seq = sent + i]
    OBVIOUS
  <2>2. \A i \in DOMAIN events : numbered[i] \in Event /\ numbered[i].type = events[i].type
    BY <1>2, <2>1, Zenon
  <2>3. DOMAIN numbered = DOMAIN events /\ numbered = [i \in DOMAIN events |-> numbered[i]]
    OBVIOUS
  <2> HIDE DEF numbered
  <2> QED BY <2>2, <2>3
<1>4. wire' = wire \o numbered
  BY DEF Emit
<1> HIDE DEF numbered
<1>5. /\ Len(wire') = Len(wire) + Len(numbered) /\ wire' \in Seq(Event)
      /\ \A i \in 1..(Len(wire) + Len(numbered)) :
           wire'[i] = IF i <= Len(wire) THEN wire[i] ELSE numbered[i - Len(wire)]
  <2>1. Len(wire \o numbered) = Len(wire) + Len(numbered) /\ wire \o numbered \in Seq(Event)
    BY <1>3, ConcatProperties
  <2>2. \A i \in 1..(Len(wire) + Len(numbered)) :
          (wire \o numbered)[i] = IF i <= Len(wire) THEN wire[i] ELSE numbered[i - Len(wire)]
    BY <1>3, ConcatProperties
  <2> QED BY <1>4, <2>1, <2>2
<1>6. Len(wire) \in Nat /\ Len(events) \in Nat /\ DOMAIN wire = 1..Len(wire)
      /\ DOMAIN events = 1..Len(events) /\ DOMAIN wire' = 1..(Len(wire) + Len(events))
  <2>1. PICK w : w = wire'
    OBVIOUS
  <2>2. w \in Seq(Event) /\ Len(w) = Len(wire) + Len(events)
    BY <1>3, <1>5, <2>1
  <2>3. DOMAIN w = 1..(Len(wire) + Len(events))
    BY <2>2
  <2> QED BY <2>1, <2>3
<1>7. ASSUME NEW i \in DOMAIN wire'
      PROVE  \/ i \in DOMAIN wire /\ wire'[i] = wire[i]
             \/ \E j \in DOMAIN events : i = Len(wire) + j /\ wire'[i].type = events[j].type
  <2>1. CASE i <= Len(wire)
    BY <1>3, <1>5, <1>6, <2>1
  <2>2. CASE ~(i <= Len(wire))
    <3>1. i - Len(wire) \in DOMAIN events /\ i = Len(wire) + (i - Len(wire))
      BY <1>6, <2>2
    <3>2. wire'[i] = numbered[i - Len(wire)]
      BY <1>3, <1>5, <1>6, <2>2
    <3> QED BY <1>3, <3>1, <3>2
  <2> QED BY <2>1, <2>2
<1> QED BY <1>3, <1>5, <1>7

(* "completed" is sent last, by an agent that has nothing open.            *)
CompletedIsLast ==
  \A i \in DOMAIN wire : wire[i].type = "completed" =>
    i = Len(wire) /\ node = "ended" /\ batch = << >>

LEMMA EmitsCompletedLast ==
  ASSUME wire \in Seq(Event), sent \in Nat, Stages, node # "ended",
         NEW events \in Seq(Event), Emit(events),
         \A i \in DOMAIN events : events[i].type = "completed" =>
           i = Len(events) /\ node' = "ended" /\ batch' = << >>
  PROVE  CompletedIsLast'
<1> SUFFICES ASSUME NEW i \in DOMAIN wire', wire'[i].type = "completed"
             PROVE  i = Len(wire') /\ node' = "ended" /\ batch' = << >>
  BY DEF CompletedIsLast
<1>1. \A k \in DOMAIN wire : wire[k].type # "completed"
  BY DEF Stages
<1>2. PICK j \in DOMAIN events : i = Len(wire) + j /\ events[j].type = "completed"
  BY <1>1, Emitted
<1> QED BY <1>2, Emitted

LEMMA EventTypesSent ==
  ASSUME AgentTypes, AgentNext, NEW calls \in Calls, NEW named \in BOOLEAN,
         ModelReplies(calls, named)
  PROVE  \E events \in Seq(Event) :
           Emit(events) /\ \A i \in DOMAIN events : events[i].type # "completed"
<1>1. node = "model"
  BY DEF ModelReplies
<1>2. PICK o, e, t : o = Opening /\ e = Done(MessageId, calls, named)
                     /\ t = [i \in DOMAIN calls |-> ToolStarted(calls[i])]
  OBVIOUS
<1>3. o \in Seq(Event) /\ \A i \in DOMAIN o : o[i].type = "text"
  BY <1>1, <1>2, OpeningEvents
<1>4. e \in Event /\ e.type = "done"
  BY <1>1, <1>2, OpeningTypes, EventTypes DEF Done, Other
<1>5. t \in Seq(Event) /\ \A i \in DOMAIN t : t[i].type = "tool_started"
  <2>1. calls \in Seq(Call) /\ \A i \in DOMAIN calls : calls[i] \in Call
    BY CallsAreSequences
  <2>2. \A c \in Call : ToolStarted(c) \in Event /\ ToolStarted(c).type = "tool_started"
    BY EventTypes DEF ToolStarted, Other
  <2> QED BY <1>2, <2>1, <2>2
<1>6. PICK a : a = o \o <<e>>
  OBVIOUS
<1>7. <<e>> \in Seq(Event) /\ Len(<<e>>) = 1 /\ <<e>>[1].type = "done"
  BY <1>4
<1>8. a \in Seq(Event) /\ \A i \in DOMAIN a : a[i].type # "completed"
  <2>1. /\ a \in Seq(Event) /\ Len(a) = Len(o) + 1 /\ Len(o) \in Nat
        /\ \A i \in 1..Len(o) : a[i] = o[i]
        /\ a[Len(o) + 1] = e
    BY <1>3, <1>4, <1>6, <1>7, ConcatProperties
  <2>2. \A i \in DOMAIN a : i \in DOMAIN o \/ i = Len(o) + 1
    BY <1>3, <2>1
  <2> QED BY <1>3, <1>4, <2>1, <2>2
<1>9. PICK events : events = a \o t
  OBVIOUS
<1>10. events \in Seq(Event) /\ \A i \in DOMAIN events : events[i].type # "completed"
  <2>1. /\ events \in Seq(Event) /\ Len(events) = Len(a) + Len(t)
        /\ \A i \in 1..(Len(a) + Len(t)) :
             events[i] = IF i <= Len(a) THEN a[i] ELSE t[i - Len(a)]
    BY <1>5, <1>8, <1>9, ConcatProperties
  <2>2. Len(a) \in Nat /\ Len(t) \in Nat /\ DOMAIN a = 1..Len(a) /\ DOMAIN t = 1..Len(t)
    BY <1>5, <1>8
  <2>3. \A i \in DOMAIN events : i \in DOMAIN a \/ (~(i <= Len(a)) /\ i - Len(a) \in DOMAIN t)
    BY <2>1, <2>2
  <2>4. \A i \in DOMAIN a : i <= Len(a) /\ i \in 1..(Len(a) + Len(t))
    BY <2>2
  <2>5. DOMAIN events = 1..(Len(a) + Len(t))
    BY <2>1, <2>2
  <2>6. \A i \in DOMAIN events : events[i] \in {a[k] : k \in DOMAIN a} \cup {t[k] : k \in DOMAIN t}
    BY <2>1, <2>3, <2>4, <2>5
  <2> QED BY <1>5, <1>8, <2>1, <2>6
<1>11. Emit(events)
  BY <1>2, <1>6, <1>9 DEF ModelReplies
<1> QED BY <1>10, <1>11

(* What the runtime needs to know of the agent's progress stays so.        *)
LEMMA AgentStages ==
  ASSUME AgentTypes, Stages, wire \in Seq(Event), AgentNext, UNCHANGED runtimeVars
  PROVE  Stages'
<1>1. node # "ended" /\ sent \in Nat
  BY AgentRests DEF AgentTypes, AgentTypeOK
<1>2. ASSUME CompletedIsLast', Distinct(batch'),
             node' \in {"off", "model", "retry_wait", "answered"} => batch' = << >>
      PROVE  Stages'
  BY <1>1, <1>2 DEF Stages, CompletedIsLast, runtimeVars
<1>3. Distinct(<< >>) /\ Distinct(batch)
  BY DEF Distinct, Stages
<1>4. CASE Silent
  <2>1. wire' = wire /\ batch' \in {batch, << >>}
    BY <1>4 DEF Silent, Refuse, RetryDue, ToolsReturn, Abandoned, ToolEnds
  <2>2. CompletedIsLast'
    BY <1>1, <2>1 DEF CompletedIsLast, Stages
  <2>3. node' \in {"off", "model", "retry_wait", "answered"} => batch' = << >>
    BY <1>4 DEF Silent, Refuse, RetryDue, ToolsReturn, Abandoned, ToolEnds, Stages
  <2> QED BY <1>2, <1>3, <2>1, <2>2, <2>3
<1>5. CASE \E events \in Seq(Event) : Quietly(events)
  <2>1. PICK events \in Seq(Event) : Quietly(events)
    BY <1>5
  <2>2. /\ batch' = batch /\ Emit(events) /\ (node' = "ended" \/ batch = << >>)
        /\ \A i \in DOMAIN events : events[i].type = "completed" =>
             i = Len(events) /\ node' = "ended" /\ batch' = << >>
    BY <2>1 DEF Quietly
  <2>3. CompletedIsLast'
    BY <1>1, <2>2, EmitsCompletedLast
  <2> QED BY <1>2, <1>3, <2>2, <2>3
<1>6. ASSUME NEW calls \in Calls, NEW named \in BOOLEAN, ModelReplies(calls, named)
      PROVE  Stages'
  <2>1. PICK events \in Seq(Event) :
          Emit(events) /\ \A i \in DOMAIN events : events[i].type # "completed"
    BY <1>6, EventTypesSent
  <2>2. CompletedIsLast'
    BY <1>1, <2>1, EmitsCompletedLast
  <2>3. /\ batch' = calls /\ Distinct(calls)
        /\ node' = IF calls = << >> THEN "answered" ELSE "tools"
    BY <1>6 DEF ModelReplies
  <2> QED BY <1>2, <2>2, <2>3
<1>7. ASSUME NEW calls \in Seq(Call), Publishing(calls), node = "tools", UNCHANGED <<node, batch>>
      PROVE  Stages'
  <2>1. PICK r : r = task'
    OBVIOUS
  <2>2. \A i \in 1..Len(calls) :
          /\ ToolResult(calls[i], r[calls[i]]) \in Event
          /\ ToolResult(calls[i], r[calls[i]]).type = "result"
    <3>1. \A i \in 1..Len(calls) : calls[i] \in Call /\ r[calls[i]] \in Result
      BY <1>7, <2>1 DEF Publishing, Result
    <3> QED BY <3>1, EventTypes DEF ToolResult, Other
  <2>3. PICK events : events = [i \in 1..Len(calls) |-> ToolResult(calls[i], r[calls[i]])]
    OBVIOUS
  <2>4. Emit(events)
    <3>1. DOMAIN calls = 1..Len(calls)
      OBVIOUS
    <3> QED BY <1>7, <2>1, <2>3, <3>1 DEF Publishing, Publish
  <2>5. events \in Seq(Event) /\ \A i \in DOMAIN events : events[i].type # "completed"
    BY <2>2, <2>3
  <2>6. CompletedIsLast'
    BY <1>1, <2>4, <2>5, EmitsCompletedLast
  <2> QED BY <1>2, <1>3, <1>7, <2>6
<1> QED BY <1>4, <1>5, <1>6, <1>7, AgentSteps

-----------------------------------------------------------------------------
(* The agent takes back nothing it has said.                               *)
LEMMA Extends ==
  /\ \A a, b \in Seq(Entry) : a \o b \in Seq(Entry) /\ Starts(a, a \o b)
  /\ \A a \in Seq(Entry), x \in Entry : Append(a, x) \in Seq(Entry) /\ Starts(a, Append(a, x))
<1>1. ASSUME NEW a \in Seq(Entry), NEW b \in Seq(Entry)
      PROVE  a \o b \in Seq(Entry) /\ Starts(a, a \o b)
  <2>1. a \o b \in Seq(Entry) /\ Len(a \o b) = Len(a) + Len(b)
        /\ \A i \in 1..Len(a) : (a \o b)[i] = a[i]
    BY ConcatProperties
  <2> QED BY <2>1 DEF Starts
<1>2. ASSUME NEW a \in Seq(Entry), NEW x \in Entry
      PROVE  Append(a, x) \in Seq(Entry) /\ Starts(a, Append(a, x))
  BY DEF Starts
<1> QED BY <1>1, <1>2

LEMMA SpokenStarts ==
  ASSUME AgentTypes'
  PROVE  Starts(conv', Spoken')
<1>1. batch' \in Seq(Call) /\ published' \in [Call -> Result \cup {Pending}]
  BY CallsAreSequences DEF AgentTypes, AgentTypeOK, Result
<1>2. Answers' = Replies(batch', published') /\ conv' \in Seq(Entry)
  BY DEF Answers, Replies, AgentTypes
<1>3. Answers' \in Seq(Entry)
  BY <1>1, <1>2, RepliesType
<1>4. Starts(conv', conv') /\ Starts(conv', conv' \o Answers')
  BY <1>2, <1>3, Extends, StartsItself
<1> QED BY <1>4 DEF Spoken

LEMMA SpokenGrows ==
  ASSUME AgentTypes, AgentTypes', Stages, AgentNext
  PROVE  Starts(Spoken, Spoken')
<1>1. Spoken \in Seq(Entry) /\ Spoken' \in Seq(Entry) /\ conv \in Seq(Entry) /\ conv' \in Seq(Entry)
  BY SpokenType, SpokenTypeNext DEF AgentTypes
<1>2. ASSUME Spoken' = Spoken PROVE Starts(Spoken, Spoken')
  BY <1>1, <1>2, StartsItself
<1>3. ASSUME Spoken = conv, Starts(conv, conv') PROVE Starts(Spoken, Spoken')
  BY <1>1, <1>3, SpokenStarts, StartsTwice
<1>4. CASE Silent
  BY <1>2, <1>4, SilentSteps
<1>5. CASE \E events \in Seq(Event) : Quietly(events)
  <2>1. UNCHANGED <<batch, published, conv>>
    BY <1>5 DEF Quietly
  <2>2. Spoken' = Spoken
    BY <2>1 DEF Spoken, Answers, Unpublished
  <2> QED BY <1>2, <2>2
<1>6. ASSUME NEW calls \in Calls, NEW named \in BOOLEAN, ModelReplies(calls, named)
      PROVE  Starts(Spoken, Spoken')
  <2>1. node = "model" /\ conv' = Append(conv, Said(calls)) /\ Said(calls) \in Entry
    BY <1>6, NoCallsAreCalls DEF ModelReplies, Said, Asked, Entry
  <2>2. Spoken = conv
    BY <2>1 DEF Stages, Spoken
  <2>3. Starts(conv, conv')
    BY <1>1, <2>1, Extends
  <2> QED BY <1>3, <2>2, <2>3
<1>7. ASSUME NEW calls \in Seq(Call), Publishing(calls), conv' = conv
      PROVE  Starts(Spoken, Spoken')
  <2>1. Spoken = conv
    BY <1>7 DEF Publishing, Spoken
  <2>2. Starts(conv, conv')
    BY <1>1, <1>7, StartsItself
  <2> QED BY <1>3, <2>1, <2>2
<1> QED BY <1>4, <1>5, <1>6, <1>7, AgentSteps

LEMMA WillStoreType ==
  ASSUME StreamTypes, NEW s \in Seq(Entry)
  PROVE  /\ WillStore(s) \in Seq(Entry) /\ Starts(s, WillStore(s))
         /\ ready # NoGroup => Said(ready.calls) \in Entry
                               /\ Replies(ready.calls, ready.results) \in Seq(Entry)
<1>1. ready # NoGroup => ready.calls \in Calls /\ ready.results \in [Call -> Result \cup {Pending}]
  BY DEF StreamTypes, RuntimeTypeOK, Group, Results
<1>2. ready # NoGroup => Said(ready.calls) \in Entry
  BY <1>1 DEF Said, Asked, Entry
<1>3. ready # NoGroup => Replies(ready.calls, ready.results) \in Seq(Entry)
  BY <1>1, RepliesType, CallsAreSequences
<1>4. CASE at = "event" /\ io = "asked" /\ ready # NoGroup
  <2>1. PICK a : a = Append(s, Said(ready.calls))
    OBVIOUS
  <2>2. a \in Seq(Entry) /\ Starts(s, a)
    BY <1>2, <1>4, <2>1, Extends
  <2>3. /\ a \o Replies(ready.calls, ready.results) \in Seq(Entry)
        /\ Starts(a, a \o Replies(ready.calls, ready.results))
    BY <1>3, <1>4, <2>2, Extends
  <2>4. WillStore(s) = a \o Replies(ready.calls, ready.results)
    BY <1>4, <2>1 DEF WillStore
  <2>5. Starts(s, WillStore(s))
    BY <2>2, <2>3, <2>4, StartsTwice
  <2> QED BY <1>2, <1>3, <2>3, <2>4, <2>5
<1>5. CASE ~(at = "event" /\ io = "asked" /\ ready # NoGroup)
  BY <1>2, <1>3, <1>5, StartsItself DEF WillStore
<1> QED BY <1>4, <1>5

(* Whatever the agent does, the line of knowledge goes on.                 *)
LEMMA AgentFollows ==
  ASSUME NEW s \in Seq(Entry), NEW h, Follows(s, h), UNCHANGED runtimeVars,
         AgentTypes, AgentTypes', Stages, wire \in Seq(Event), AgentNext
  PROVE  \E k : Follows(s, k)'
<1>1. CASE Silent
  BY <1>1, SilentSteps, SilentFollows
<1>2. CASE \E events \in Seq(Event) : Quietly(events)
  <2>1. PICK events \in Seq(Event) : Quietly(events)
    BY <1>2
  <2> QED BY <2>1, QuietFollows DEF Quietly
<1>3. ASSUME NEW calls \in Calls, NEW named \in BOOLEAN, ModelReplies(calls, named)
      PROVE  \E k : Follows(s, k)'
  <2>1. batch = << >>
    BY <1>3 DEF ModelReplies, Stages
  <2> QED BY <1>3, <2>1, ReplyFollows
<1>4. ASSUME NEW calls \in Seq(Call), Publishing(calls), UNCHANGED <<batch, conv, used, mid>>
      PROVE  \E k : Follows(s, k)'
  BY <1>4, PublishFollows DEF Publishing
<1> QED BY <1>1, <1>2, <1>3, <1>4, AgentSteps

LEMMA AgentTells ==
  ASSUME Conversation, Stages, AgentTypes, AgentTypes', StreamTypes, AgentNext,
         UNCHANGED runtimeVars
  PROVE  Conversation'
<1>1. PICK s \in Seq(Entry) : /\ Stores(s) /\ Starts(WillStore(s), Spoken)
                              /\ Listens => \E h : Follows(s, h)
                              /\ final = "completed" => s = conv
  BY DEF Conversation
<1>2. wire \in Seq(Event) /\ WillStore(s) \in Seq(Entry)
  BY WillStoreType DEF StreamTypes
<1>3. WillStore(s)' = WillStore(s) /\ Stores(s)' /\ Listens' = Listens
  BY <1>1 DEF WillStore, Stores, Listens, runtimeVars
<1>4. Starts(WillStore(s), Spoken')
  BY <1>1, <1>2, SpokenGrows, SpokenType, SpokenTypeNext, StartsTwice
<1>5. Listens' => \E k : Follows(s, k)'
  BY <1>1, <1>2, <1>3, AgentFollows
<1>6. final' # "completed"
  BY AgentRests DEF Stages, runtimeVars
<1>7. Starts(WillStore(s), Spoken)'
  BY <1>3, <1>4
<1> QED BY <1>3, <1>5, <1>6, <1>7 DEF Conversation

-----------------------------------------------------------------------------
(* The runtime takes an event off the stream: it has the knowledge after   *)
(* it, if it has drawn the same from it.                                   *)
LEMMA ReadFollows ==
  ASSUME NEW s \in Seq(Entry), NEW h, Follows(s, h), UNCHANGED agentVars,
         wire \in Seq(Event), wire # << >>, wire' = Tail(wire), RuntimeKnows(s, h[2])'
  PROVE  \E k : Follows(s, k)'
<1>1. PICK n \in Nat : Len(wire) = n + 1
  <2>1. Len(wire) \in Nat /\ Len(wire) # 0
    OBVIOUS
  <2> QED BY <2>1
<1>2. PICK w : w = Tail(wire)
  OBVIOUS
<1>3. w \in Seq(Event) /\ Len(w) = n /\ \A i \in 1..n : w[i] = wire[i + 1]
  BY <1>1, <1>2
<1> DEFINE k == [i \in 1..(n + 1) |-> h[i + 1]]
<1>4. h \in [1..(n + 2) -> Knowledge] /\ AgentKnows(h[n + 2])
  BY <1>1 DEF Follows
<1>5. /\ k \in [1..(n + 1) -> Knowledge] /\ k[1] = h[2] /\ k[n + 1] = h[n + 2]
      /\ \A i \in 1..n : k[i] = h[i + 1] /\ k[i + 1] = h[i + 2]
      /\ \A i \in 1..(n + 1) : k[i] = h[i + 1]
  <2>1. \A i \in 1..(n + 1) : i + 1 \in 1..(n + 2)
    OBVIOUS
  <2>2. \A i \in 1..(n + 1) : k[i] = h[i + 1]
    OBVIOUS
  <2>3. k \in [1..(n + 1) -> Knowledge]
    BY <1>4, <2>1
  <2> HIDE DEF k
  <2>4. /\ 1 \in 1..(n + 1) /\ 1 + 1 = 2 /\ n + 1 \in 1..(n + 1) /\ (n + 1) + 1 = n + 2
        /\ \A i \in 1..n : i \in 1..(n + 1) /\ i + 1 \in 1..(n + 1) /\ (i + 1) + 1 = i + 2
    OBVIOUS
  <2> QED BY <2>2, <2>3, <2>4
<1> HIDE DEF k
<1>6. \A i \in 1..n : /\ w[i].seq = k[i].seq + 1 /\ k[i + 1].seq = k[i].seq + 1
                      /\ Hears(k[i], w[i], k[i + 1])
  <2> SUFFICES ASSUME NEW i \in 1..n
               PROVE  /\ w[i].seq = k[i].seq + 1 /\ k[i + 1].seq = k[i].seq + 1
                      /\ Hears(k[i], w[i], k[i + 1])
    OBVIOUS
  <2>1. i + 1 \in 1..Len(wire) /\ (i + 1) + 1 = i + 2
    BY <1>1
  <2>2. /\ wire[i + 1].seq = h[i + 1].seq + 1 /\ h[i + 2].seq = h[i + 1].seq + 1
        /\ Hears(h[i + 1], wire[i + 1], h[i + 2])
    BY <2>1 DEF Follows
  <2> QED BY <1>3, <1>5, <2>2
<1>7. \A i \in 1..(n + 1) : Starts(k[i].said, Spoken)
  <2>1. \A i \in 1..(n + 1) : i + 1 \in 1..(Len(wire) + 1)
    BY <1>1
  <2> QED BY <1>5, <2>1 DEF Follows
<1>8. wire' = w /\ Spoken' = Spoken /\ AgentKnows(k[n + 1])'
  BY <1>2, <1>4, <1>5 DEF AgentKnows, Spoken, Answers, Unpublished, agentVars
<1>9. RuntimeKnows(s, k[1])'
  BY <1>5
<1>10. PICK a, b : a = k[1] /\ b = k[n + 1]
  OBVIOUS
<1>11. RuntimeKnows(s, a)' /\ AgentKnows(b)'
  BY <1>8, <1>9, <1>10
<1>12. Follows(s, k)'
  BY <1>3, <1>5, <1>6, <1>7, <1>8, <1>10, <1>11 DEF Follows
<1> QED BY <1>12

(* What is at the head of the stream, and what the runtime knows of it.    *)
LEMMA HeadHeard ==
  ASSUME NEW s \in Seq(Entry), NEW h, Follows(s, h), wire \in Seq(Event), NEW e, Read(e),
         StreamTypes
  PROVE  /\ h[1] \in Knowledge /\ h[2] \in Knowledge
         /\ e = Head(wire) /\ e = wire[1] /\ e \in Event
         /\ Hears(h[1], e, h[2]) /\ RuntimeKnows(s, h[1])
         /\ WillStore(s) = s /\ lastSeq = h[1].seq
         /\ e.seq = lastSeq + 1 /\ h[2].seq = lastSeq + 1
<1>1. wire # << >> /\ e = Head(wire) /\ at = "reading"
  BY DEF Read
<1>2. Len(wire) \in Nat /\ Len(wire) >= 1 /\ e = wire[1] /\ e \in Event
  BY <1>1
<1>3. 1 \in 1..Len(wire) /\ 1 \in 1..(Len(wire) + 1) /\ 2 \in 1..(Len(wire) + 1) /\ 1 + 1 = 2
  BY <1>2
<1>4. /\ h[1] \in Knowledge /\ h[2] \in Knowledge
      /\ Hears(h[1], e, h[2]) /\ RuntimeKnows(s, h[1])
      /\ e.seq = h[1].seq + 1 /\ h[2].seq = h[1].seq + 1
  BY <1>2, <1>3 DEF Follows
<1>5. WillStore(s) = s /\ lastSeq = h[1].seq
  BY <1>1, <1>4 DEF WillStore, RuntimeKnows
<1> QED BY <1>1, <1>2, <1>4, <1>5

LEMMA MessageKnown ==
  ASSUME NEW s \in Seq(Entry), NEW h, Follows(s, h), Inv, NewGroups, StreamTypes,
         NEW e, ReadMessage(e)
  PROVE  RuntimeKnows(s, h[2])'
<1>1. Read(e) /\ e.type = "done" /\ at = "reading"
  BY DEF ReadMessage, Read
<1>2. PICK u, t : u = h[1] /\ t = h[2]
  OBVIOUS
<1>3. /\ u \in Knowledge /\ t \in Knowledge /\ e \in Event
      /\ Hears(u, e, t) /\ RuntimeKnows(s, u) /\ WillStore(s) = s
      /\ lastSeq \in Nat /\ e.seq = lastSeq + 1 /\ t.seq = lastSeq + 1
  BY <1>1, <1>2, HeadHeard DEF Inv, StreamTypes, RuntimeTypeOK
<1>4. HearsMessage(u, e, t)
  BY <1>1, <1>3 DEF Hears, HearsResult, HearsNothing
<1>5. /\ u.open = << >> /\ e.mid > u.mid /\ t.mid = e.mid /\ t.open = e.calls
      /\ t.got = NoResults /\ t.said = Append(u.said, Said(e.calls))
      /\ u.mid \in Nat /\ e.mid \in Nat /\ e.calls \in Calls
  BY <1>3, <1>4, WireBounds DEF HearsMessage, Knowledge, Event, Message, NoMessage
<1>6. DOMAIN pending = {} /\ u.said = s
  BY <1>3, <1>5 DEF RuntimeKnows
<1>7. /\ UNCHANGED <<completed, lastSeq>> /\ at' = "event" /\ io' = "asked" /\ event' = e
  BY <1>1 DEF ReadMessage, Ask, Read
<1>8. t.seq # 0
  BY <1>3
<1>9. \A m \in completed : m <= t.mid
  <2>1. \A m \in completed : m \in Nat
    BY DEF StreamTypes, RuntimeTypeOK, Message
  <2>2. \A m \in completed : m <= u.mid
    BY <1>3 DEF RuntimeKnows
  <2> QED BY <1>5, <2>1, <2>2
<1>10. PICK g : g = [mid |-> e.mid, calls |-> e.calls, results |-> NoGroup.results]
  OBVIOUS
<1>11. g.mid = e.mid /\ g.calls = e.calls /\ g.results = NoResults
  BY <1>10 DEF NoGroup, NoResults
<1>12. CASE e.calls = << >>
  <2>1. ready' = g /\ pending' = pending
    BY <1>10, <1>12 DEF ReadMessage, Ask
  <2>2. g # NoGroup
    BY <1>5, <1>11 DEF NoGroup, NoMessage
  <2>3. Replies(g.calls, g.results) = << >>
    BY <1>11, <1>12 DEF Replies
  <2>4. Said(g.calls) \in Entry /\ Append(s, Said(g.calls)) \in Seq(Entry)
    <3>1. Said(g.calls) \in Entry
      BY <1>5, <1>11 DEF Said, Asked, Entry
    <3> QED BY <3>1
  <2>5. WillStore(s)' = Append(s, Said(g.calls)) \o << >>
    BY <1>7, <2>1, <2>2, <2>3 DEF WillStore
  <2>6. WillStore(s)' = Append(s, Said(g.calls))
    BY <2>4, <2>5
  <2>7. t.said = WillStore(s)' /\ t.open = << >>
    BY <1>5, <1>6, <1>11, <1>12, <2>6
  <2>8. RuntimeKnows(s, t)'
    BY <1>3, <1>5, <1>6, <1>7, <1>8, <1>9, <1>11, <2>1, <2>7 DEF RuntimeKnows
  <2> QED BY <1>2, <2>8
<1>13. CASE e.calls # << >>
  <2>1. ready' = NoGroup
        /\ pending' = [m \in DOMAIN pending \cup {e.mid} |-> IF m = e.mid THEN g ELSE pending[m]]
    BY <1>10, <1>13 DEF ReadMessage, Ask
  <2>2. DOMAIN pending' = {e.mid} /\ pending'[e.mid] = g
    BY <1>6, <2>1
  <2>3. /\ DOMAIN pending' = {e.mid} /\ ready' = NoGroup
        /\ t.open = pending'[e.mid].calls /\ t.open # << >> /\ t.got = pending'[e.mid].results
        /\ t.said = Append(s, Said(t.open))
    BY <1>5, <1>6, <1>11, <1>13, <2>1, <2>2
  <2>4. \A m \in DOMAIN pending' : m <= t.mid /\ pending'[m].mid <= t.mid
    BY <1>5, <1>11, <2>2
  <2>5. RuntimeKnows(s, t)'
    BY <1>3, <1>7, <1>8, <1>9, <2>1, <2>3, <2>4 DEF RuntimeKnows
  <2> QED BY <1>2, <2>5
<1> QED BY <1>12, <1>13

LEMMA ResultKnown ==
  ASSUME NEW s \in Seq(Entry), NEW h, Follows(s, h), Inv, NewGroups, StreamTypes,
         NEW e, ReadResult(e)
  PROVE  RuntimeKnows(s, h[2])'
<1>1. Read(e) /\ e.type = "result" /\ at = "reading"
  BY DEF ReadResult, Read
<1>2. PICK u, t : u = h[1] /\ t = h[2]
  OBVIOUS
<1>3. /\ u \in Knowledge /\ t \in Knowledge /\ e \in Event
      /\ Hears(u, e, t) /\ RuntimeKnows(s, u) /\ WillStore(s) = s
      /\ lastSeq \in Nat /\ e.seq = lastSeq + 1 /\ t.seq = lastSeq + 1
  BY <1>1, <1>2, HeadHeard DEF Inv, StreamTypes, RuntimeTypeOK
<1>4. HearsResult(u, e, t)
  BY <1>1, <1>3 DEF Hears, HearsMessage, HearsNothing
<1>5. PICK got : got = [u.got EXCEPT ![e.call] = e.result]
  OBVIOUS
<1>6. /\ e.call \in Range(u.open) /\ t.mid = u.mid
      /\ IF \E c \in Range(u.open) : got[c] = Pending
         THEN t.said = u.said /\ t.open = u.open /\ t.got = got
         ELSE t.said = u.said \o Replies(u.open, got) /\ t.open = << >>
  BY <1>4, <1>5 DEF HearsResult
<1>7. u.open # << >>
  BY <1>6 DEF Range
<1>8. PICK m \in DOMAIN pending :
        /\ DOMAIN pending = {m} /\ ready = NoGroup
        /\ u.open = pending[m].calls /\ u.got = pending[m].results
        /\ u.said = Append(s, Said(u.open))
  BY <1>3, <1>7 DEF RuntimeKnows
<1>9. PICK p : p = pending[m]
  OBVIOUS
<1>10. /\ p \in Group /\ p.mid = m /\ m \in Message /\ m <= u.mid /\ p.calls = u.open
       /\ p.results = u.got
  BY <1>3, <1>8, <1>9 DEF StreamTypes, RuntimeTypeOK, NewGroups, RuntimeKnows
<1>11. PICK g : g = [p EXCEPT !.results[e.call] = e.result]
  OBVIOUS
<1>12. g.mid = m /\ g.calls = u.open /\ g.results = got
  BY <1>5, <1>10, <1>11 DEF Group
<1>13. /\ UNCHANGED <<completed, lastSeq>> /\ at' = "event" /\ io' = "asked" /\ event' = e
       /\ IF \A c \in Range(g.calls) : g.results[c] # Pending
          THEN ready' = g /\ pending' = [k \in DOMAIN pending \ {m} |-> pending[k]]
          ELSE ready' = NoGroup /\ pending' = [pending EXCEPT ![m] = g]
  <2>1. PICK n \in Holding(e.call) :
          LET group == [pending[n] EXCEPT !.results[e.call] = e.result] IN
          IF \A c \in Range(group.calls) : group.results[c] # Pending
          THEN Ask(e, group) /\ pending' = [k \in DOMAIN pending \ {n} |-> pending[k]]
          ELSE Ask(e, NoGroup) /\ pending' = [pending EXCEPT ![n] = group]
    BY DEF ReadResult
  <2>2. n = m
    BY <1>8, <2>1 DEF Holding
  <2>3. IF \A c \in Range(g.calls) : g.results[c] # Pending
        THEN Ask(e, g) /\ pending' = [k \in DOMAIN pending \ {m} |-> pending[k]]
        ELSE Ask(e, NoGroup) /\ pending' = [pending EXCEPT ![m] = g]
    BY <1>9, <1>11, <2>1, <2>2
  <2> QED BY <1>1, <2>3 DEF Ask, Read
<1>14. t.seq # 0
  BY <1>3
<1>15. m <= t.mid /\ \A k \in completed : k <= t.mid
  BY <1>3, <1>6, <1>10 DEF RuntimeKnows
<1>16. CASE \A c \in Range(g.calls) : g.results[c] # Pending
  <2>1. ready' = g /\ DOMAIN pending' = {}
    BY <1>8, <1>13, <1>16
  <2>2. g # NoGroup
    BY <1>10, <1>12, WireBounds DEF NoGroup, NoMessage, Message
  <2>3. WillStore(s)' = Append(s, Said(u.open)) \o Replies(u.open, got)
    BY <1>12, <1>13, <2>1, <2>2 DEF WillStore
  <2>4. t.open = << >> /\ t.said = WillStore(s)'
    BY <1>6, <1>8, <1>12, <1>16, <2>3
  <2>5. RuntimeKnows(s, t)'
    BY <1>3, <1>12, <1>13, <1>14, <1>15, <2>1, <2>4 DEF RuntimeKnows
  <2> QED BY <1>2, <2>5
<1>17. CASE ~(\A c \in Range(g.calls) : g.results[c] # Pending)
  <2>1. ready' = NoGroup /\ DOMAIN pending' = {m} /\ pending'[m] = g
    BY <1>8, <1>13, <1>17
  <2>2. t.said = u.said /\ t.open = u.open /\ t.got = got
    BY <1>6, <1>12, <1>17
  <2>3. /\ DOMAIN pending' = {m} /\ ready' = NoGroup
        /\ t.open = pending'[m].calls /\ t.open # << >> /\ t.got = pending'[m].results
        /\ t.said = Append(s, Said(t.open))
    BY <1>7, <1>8, <1>12, <2>1, <2>2
  <2>4. \A k \in DOMAIN pending' : k <= t.mid /\ pending'[k].mid <= t.mid
    BY <1>12, <1>15, <2>1
  <2>5. RuntimeKnows(s, t)'
    BY <1>3, <1>13, <1>14, <1>15, <2>1, <2>3, <2>4 DEF RuntimeKnows
  <2> QED BY <1>2, <2>5
<1> QED BY <1>16, <1>17

LEMMA ProgressKnown ==
  ASSUME NEW s \in Seq(Entry), NEW h, Follows(s, h), Inv, NewGroups, StreamTypes,
         NEW e, ReadProgress(e)
  PROVE  RuntimeKnows(s, h[2])'
<1>1. Read(e) /\ e.type \in {"other", "created", "text", "tool_started"} /\ at = "reading"
  BY DEF ReadProgress, Read
<1>2. PICK u, t : u = h[1] /\ t = h[2]
  OBVIOUS
<1>3. /\ u \in Knowledge /\ t \in Knowledge /\ e \in Event
      /\ Hears(u, e, t) /\ RuntimeKnows(s, u) /\ WillStore(s) = s
      /\ lastSeq \in Nat /\ e.seq = lastSeq + 1 /\ t.seq = lastSeq + 1
  BY <1>1, <1>2, HeadHeard DEF Inv, StreamTypes, RuntimeTypeOK
<1>4. t.said = u.said /\ t.open = u.open /\ t.got = u.got /\ t.mid = u.mid
  BY <1>1, <1>3 DEF Hears, HearsMessage, HearsResult, HearsNothing
<1>5. /\ UNCHANGED <<completed, lastSeq, pending>> /\ at' = "event" /\ io' = "asked" /\ event' = e
      /\ ready' = NoGroup
  BY <1>1 DEF ReadProgress, Ask, Read
<1>6. WillStore(s)' = s
  BY <1>5 DEF WillStore
<1>7. t.seq # 0 /\ e.seq = t.seq
  BY <1>3
<1>8. RuntimeKnows(s, t)'
  BY <1>3, <1>4, <1>5, <1>6, <1>7 DEF RuntimeKnows
<1> QED BY <1>2, <1>8

-----------------------------------------------------------------------------
(* The group that is committed is the next piece of the conversation.      *)
LEMMA EventStored ==
  ASSUME NEW s \in Seq(Entry), Stores(s), rows # {}, StreamTypes, EventCommit,
         NEW t, t = WillStore(s)
  PROVE  Stores(t)'
<1>1. at = "event" /\ io = "asked" /\ rows' = rows \cup GroupRows(ready)
  BY DEF EventCommit
<1>2. CASE ready = NoGroup
  <2>1. t = s /\ rows' = rows
    BY <1>1, <1>2 DEF WillStore, GroupRows
  <2> QED BY <2>1 DEF Stores
<1>3. CASE ready # NoGroup
  <2>1. PICK n \in Nat : n = Len(s)
    OBVIOUS
  <2>2. {r.sequence : r \in rows} = 1..(n + 1)
    BY <2>1 DEF Stores
  <2>3. NextSequence = n + 2
    <3>1. n + 1 \in Nat /\ (n + 1) + 1 = n + 2
      OBVIOUS
    <3> QED BY <2>2, <3>1, NextIsLast
  <2>4. PICK calls, results : calls = ready.calls /\ results = ready.results
    OBVIOUS
  <2>5. calls \in Seq(Call) /\ results \in [Call -> Result \cup {Pending}]
    BY <1>3, <2>4, CallsAreSequences DEF StreamTypes, RuntimeTypeOK, Group, Results
  <2>6. PICK k \in Nat : k = Len(calls)
    BY <2>5
  <2>7. DOMAIN calls = 1..k
    BY <2>5, <2>6
  <2> DEFINE said == [sequence |-> n + 2, group |-> ready.mid, index |-> 0, entry |-> Said(calls)]
             reply(i) == [sequence |-> n + 2 + i, group |-> ready.mid, index |-> i,
                          entry |-> Answered(calls[i], results[calls[i]])]
  <2>8. rows' = rows \cup {said} \cup {reply(i) : i \in 1..k}
    BY <1>1, <1>3, <2>3, <2>4, <2>7 DEF GroupRows
  <2>9. /\ said.sequence = n + 2 /\ said.entry = Said(calls)
        /\ \A i \in 1..k : /\ reply(i).sequence = n + 2 + i
                           /\ reply(i).entry = Answered(calls[i], results[calls[i]])
    OBVIOUS
  <2> HIDE DEF said, reply
  <2>10. Said(calls) \in Entry /\ Replies(calls, results) \in Seq(Entry)
    BY <1>3, <2>4, WillStoreType
  <2>11. /\ Len(Replies(calls, results)) = k
         /\ \A i \in 1..k : Replies(calls, results)[i] = Answered(calls[i], results[calls[i]])
    BY <2>5, <2>6, RepliesType
  <2>12. PICK a, b : a = Append(s, Said(calls)) /\ b = Replies(calls, results)
    OBVIOUS
  <2>13. /\ a \in Seq(Entry) /\ Len(a) = n + 1 /\ a[n + 1] = Said(calls)
         /\ \A i \in 1..n : a[i] = s[i]
    BY <2>1, <2>10, <2>12
  <2>14. t = a \o b /\ b \in Seq(Entry) /\ Len(b) = k
    BY <1>1, <1>3, <2>4, <2>10, <2>11, <2>12 DEF WillStore
  <2>15. /\ Len(t) = n + 1 + k
         /\ \A i \in 1..(n + 1 + k) : t[i] = IF i <= n + 1 THEN a[i] ELSE b[i - (n + 1)]
    <3>1. Len(a \o b) = Len(a) + Len(b)
      BY <2>13, <2>14, ConcatProperties
    <3>2. \A i \in 1..(Len(a) + Len(b)) : (a \o b)[i] = IF i <= Len(a) THEN a[i] ELSE b[i - Len(a)]
      BY <2>13, <2>14, ConcatProperties
    <3> QED BY <2>13, <2>14, <3>1, <3>2
  <2>16. /\ \A i \in 1..n : t[i] = s[i]
         /\ t[n + 1] = Said(calls)
         /\ \A i \in 1..k : t[n + 1 + i] = Answered(calls[i], results[calls[i]])
    <3>1. /\ \A i \in 1..n : i \in 1..(n + 1 + k) /\ i <= n + 1
          /\ n + 1 \in 1..(n + 1 + k) /\ n + 1 <= n + 1
          /\ \A i \in 1..k : /\ n + 1 + i \in 1..(n + 1 + k) /\ ~(n + 1 + i <= n + 1)
                             /\ (n + 1 + i) - (n + 1) = i
      OBVIOUS
    <3> QED BY <2>11, <2>12, <2>13, <2>15, <3>1
  <2>17. ASSUME NEW r \in rows'
         PROVE  /\ r.sequence \in 1..(n + 2 + k)
                /\ r.sequence > 1 => r.entry = t[r.sequence - 1]
    <3>1. CASE r \in rows
      <4>1. r.sequence \in 1..(n + 1)
        BY <2>2, <3>1
      <4>2. r.sequence > 1 => r.sequence - 1 \in 1..n /\ r.entry = s[r.sequence - 1]
        BY <3>1, <4>1 DEF Stores
      <4> QED BY <2>16, <4>1, <4>2
    <3>2. CASE r = said
      <4>1. r.sequence = n + 2 /\ (n + 2) - 1 = n + 1 /\ n + 2 \in 1..(n + 2 + k)
        BY <2>9, <3>2
      <4> QED BY <2>9, <2>16, <3>2, <4>1
    <3>3. ASSUME NEW i \in 1..k, r = reply(i)
          PROVE  /\ r.sequence \in 1..(n + 2 + k)
                 /\ r.sequence > 1 => r.entry = t[r.sequence - 1]
      <4>1. n + 2 + i \in 1..(n + 2 + k) /\ (n + 2 + i) - 1 = n + 1 + i
        OBVIOUS
      <4>2. r.sequence = n + 2 + i /\ r.entry = t[n + 1 + i]
        BY <2>9, <2>16, <3>3
      <4> QED BY <4>1, <4>2
    <3> QED BY <2>8, <3>1, <3>2, <3>3
  <2>18. ASSUME NEW i \in 1..(n + 2 + k) PROVE \E r \in rows' : r.sequence = i
    <3>1. CASE i \in 1..(n + 1)
      BY <2>2, <2>8, <3>1
    <3>2. CASE i = n + 2
      BY <2>8, <2>9, <3>2
    <3>3. CASE i > n + 2
      <4>1. i - (n + 2) \in 1..k /\ n + 2 + (i - (n + 2)) = i
        BY <3>3
      <4> QED BY <2>8, <2>9, <4>1
    <3> QED BY <3>1, <3>2, <3>3
  <2>19. {r.sequence : r \in rows'} = 1..(n + 2 + k)
    BY <2>17, <2>18
  <2>20. Len(t) + 1 = n + 2 + k
    BY <2>15
  <2> QED BY <2>17, <2>19, <2>20 DEF Stores
<1> QED BY <1>2, <1>3

(* What a step of the runtime has to keep of the conversation, when it     *)
(* takes nothing off the stream.                                           *)
LEMMA KeepsTelling ==
  ASSUME Conversation, StreamTypes, AgentTypes, UNCHANGED <<agentVars, rows>>,
         \A s \in Seq(Entry) : WillStore(s)' \in {s, WillStore(s)},
         final' = "completed" => final = "completed",
         Listens' => /\ Listens /\ wire' = wire
                     /\ \A s \in Seq(Entry), u \in Knowledge :
                          RuntimeKnows(s, u) => RuntimeKnows(s, u)'
  PROVE  Conversation'
<1>1. PICK s \in Seq(Entry) : /\ Stores(s) /\ Starts(WillStore(s), Spoken)
                              /\ Listens => \E h : Follows(s, h)
                              /\ final = "completed" => s = conv
  BY DEF Conversation
<1>2. Stores(s)' /\ Spoken' = Spoken /\ conv' = conv
  BY <1>1 DEF Stores, Spoken, Answers, Unpublished, agentVars
<1>3. Starts(s, Spoken)
  BY <1>1, WillStoreType, SpokenType, StartsTwice
<1>4. Starts(WillStore(s), Spoken)'
  <2>1. PICK w : w = WillStore(s)'
    OBVIOUS
  <2>2. Starts(w, Spoken)
    BY <1>1, <1>3, <2>1
  <2> QED BY <1>2, <2>1, <2>2
<1>5. ASSUME Listens' PROVE \E h : Follows(s, h)'
  <2>1. PICK h : Follows(s, h)
    BY <1>1, <1>5
  <2>2. wire' = wire /\ wire \in Seq(Event)
    BY <1>5 DEF StreamTypes
  <2>3. PICK u, v : u = h[1] /\ v = h[Len(wire) + 1]
    OBVIOUS
  <2>4. u \in Knowledge /\ RuntimeKnows(s, u) /\ AgentKnows(v)
    <3>1. 1 \in 1..(Len(wire) + 1)
      BY <2>2
    <3> QED BY <2>1, <2>3, <3>1 DEF Follows
  <2>5. RuntimeKnows(s, u)' /\ AgentKnows(v)'
    BY <1>2, <1>5, <2>4 DEF AgentKnows, Unpublished, agentVars
  <2>6. Follows(s, h)'
    BY <1>2, <2>1, <2>2, <2>3, <2>5 DEF Follows
  <2> QED BY <2>6
<1> QED BY <1>1, <1>2, <1>4, <1>5 DEF Conversation

(* Steps of the runtime beside its reads and the commits of rows.          *)
Aside ==
  \/ BeginTakenUp \/ ReadCancelled \/ StreamOver \/ EventTakenUp \/ FinishCommit \/ FinishTakenUp
  \/ WriteFails \/ FinishFails \/ Cancel \/ ManagerFails \/ Recover
  \/ \E e \in Range(wire) : ReadRefused(e) \/ (ReadTerminal(e) /\ e.type # "completed")

LEMMA AsideTells ==
  ASSUME Conversation, StreamTypes, AgentTypes, UNCHANGED agentVars, Aside
  PROVE  Conversation'
<1>1. CASE BeginTakenUp
  <2>1. /\ UNCHANGED <<rows, wire, event, ready, pending, completed, lastSeq, cancelRequested>>
        /\ at = "begin" /\ at' \in {"reading", "finish"} /\ final' \in {final, "cancelled"}
    BY <1>1 DEF BeginTakenUp, FinishAs
  <2>2. \A s \in Seq(Entry) : WillStore(s) = s /\ WillStore(s)' = s
    BY <2>1 DEF WillStore
  <2>3. \A s \in Seq(Entry), u \in Knowledge : RuntimeKnows(s, u) => RuntimeKnows(s, u)'
    BY <2>1, <2>2 DEF RuntimeKnows
  <2>4. Listens' => Listens
    BY <2>1 DEF Listens
  <2> QED BY <2>1, <2>2, <2>3, <2>4, KeepsTelling
<1>2. CASE EventTakenUp
  <2>1. /\ UNCHANGED <<rows, wire, io, pending, cancelRequested, final>>
        /\ at = "event" /\ io = "committed" /\ at' = "reading" /\ ready' = NoGroup
        /\ completed' = IF ready = NoGroup THEN completed ELSE completed \cup {ready.mid}
        /\ lastSeq' = IF event.seq = 0 THEN lastSeq ELSE event.seq
    BY <1>2 DEF EventTakenUp
  <2>2. \A s \in Seq(Entry) : WillStore(s) = s /\ WillStore(s)' = s
    BY <2>1 DEF WillStore
  <2>3. ASSUME NEW s \in Seq(Entry), NEW u \in Knowledge, RuntimeKnows(s, u)
        PROVE  RuntimeKnows(s, u)'
    <3>1. lastSeq' = u.seq
      BY <2>1, <2>3 DEF RuntimeKnows
    <3>2. \A m \in completed' : m <= u.mid
      BY <2>1, <2>3 DEF RuntimeKnows
    <3> QED BY <2>1, <2>2, <2>3, <3>1, <3>2 DEF RuntimeKnows
  <2>4. Listens' => Listens
    BY <2>1 DEF Listens
  <2> QED BY <2>1, <2>2, <2>3, <2>4, KeepsTelling
<1>3. CASE ReadCancelled \/ StreamOver \/ WriteFails
           \/ \E e \in Range(wire) : ReadRefused(e) \/ (ReadTerminal(e) /\ e.type # "completed")
  <2>1. rows' = rows /\ at' = "finish" /\ final' # "completed"
    BY <1>3 DEF ReadCancelled, StreamOver, WriteFails, ReadRefused, ReadTerminal, Read, FinishAs
  <2>2. ~Listens' /\ \A s \in Seq(Entry) : WillStore(s)' = s
    BY <2>1 DEF Listens, WillStore
  <2> QED BY <2>1, <2>2, KeepsTelling
<1>4. CASE FinishCommit \/ FinishTakenUp \/ FinishFails
  <2>1. UNCHANGED <<rows, final>> /\ at' \in {"finish", "closed"}
    BY <1>4 DEF FinishCommit, FinishTakenUp, FinishFails, Close
  <2>2. ~Listens' /\ \A s \in Seq(Entry) : WillStore(s)' = s
    BY <2>1 DEF Listens, WillStore
  <2> QED BY <2>1, <2>2, KeepsTelling
<1>5. CASE Cancel \/ ManagerFails
  <2>1. UNCHANGED <<rows, final, at, io, ready>> /\ cancelRequested' = TRUE
    BY <1>5 DEF Cancel, ManagerFails, Fail
  <2>2. ~Listens' /\ \A s \in Seq(Entry) : WillStore(s)' = WillStore(s)
    BY <2>1 DEF Listens, WillStore
  <2> QED BY <2>1, <2>2, KeepsTelling
<1>6. CASE Recover
  <2>1. UNCHANGED <<rows, wire, at, io, event, ready, pending, completed, lastSeq, final,
                    cancelRequested>>
    BY <1>6 DEF Recover
  <2>2. Listens' = Listens /\ \A s \in Seq(Entry) : WillStore(s)' = WillStore(s)
    BY <2>1 DEF Listens, WillStore
  <2>3. \A s \in Seq(Entry), u \in Knowledge : RuntimeKnows(s, u) => RuntimeKnows(s, u)'
    BY <2>1, <2>2 DEF RuntimeKnows
  <2> QED BY <2>1, <2>2, <2>3, KeepsTelling
<1> QED BY <1>1, <1>2, <1>3, <1>4, <1>5, <1>6 DEF Aside

(* Reads that go on, the end of a completed turn, and the commits.         *)
LEMMA ReadTells ==
  ASSUME Conversation, Stages, Inv, NewGroups, StreamTypes, AgentTypes, UNCHANGED agentVars,
         NEW e, ReadMessage(e) \/ ReadResult(e) \/ ReadProgress(e)
  PROVE  Conversation'
<1>1. PICK s \in Seq(Entry) : /\ Stores(s) /\ Starts(WillStore(s), Spoken)
                              /\ Listens => \E h : Follows(s, h)
                              /\ final = "completed" => s = conv
  BY DEF Conversation
<1>2. Read(e) /\ wire \in Seq(Event)
  BY DEF ReadMessage, ReadResult, ReadProgress, StreamTypes
<1>3. PICK h : Follows(s, h)
  BY <1>1, <1>2 DEF Read, Listens
<1>4. RuntimeKnows(s, h[2])'
  BY <1>3, MessageKnown, ResultKnown, ProgressKnown
<1>5. wire # << >> /\ wire' = Tail(wire)
  BY <1>2 DEF Read
<1>6. PICK k : Follows(s, k)'
  BY <1>2, <1>3, <1>4, <1>5, ReadFollows
<1>7. Stores(s)'
  BY <1>1, <1>2 DEF Read, Stores
<1>8. final' # "completed"
  BY <1>2 DEF ReadMessage, ReadResult, ReadProgress, Ask, Read, Stages
<1>9. Starts(WillStore(s), Spoken)'
  <2>1. PICK u : u = h[2]
    OBVIOUS
  <2>2. PICK w : w = WillStore(s)'
    OBVIOUS
  <2>3. u \in Knowledge /\ Starts(u.said, Spoken) /\ Spoken \in Seq(Entry)
    <3>1. 2 \in 1..(Len(wire) + 1)
      BY <1>2, <1>5
    <3> QED BY <1>3, <2>1, <3>1, SpokenType DEF Follows
  <2>4. at' = "event" /\ RuntimeKnows(s, u)' /\ Spoken' = Spoken
    BY <1>4, <2>1 DEF ReadMessage, ReadResult, ReadProgress, Ask, Spoken, Answers, Unpublished,
       agentVars
  <2>5. w = u.said \/ (ready' = NoGroup /\ u.said = Append(s, Said(u.open)))
    BY <2>2, <2>4 DEF RuntimeKnows
  <2>6. CASE w = u.said
    BY <2>2, <2>3, <2>4, <2>6
  <2>7. CASE ready' = NoGroup /\ u.said = Append(s, Said(u.open))
    <3>1. w = s
      BY <2>2, <2>7 DEF WillStore
    <3>2. u.open \in Calls /\ Said(u.open) \in Entry
      BY <2>3 DEF Knowledge, Said, Asked, Entry
    <3>3. Starts(s, u.said) /\ u.said \in Seq(Entry)
      BY <2>7, <3>2, Extends
    <3>4. Starts(s, Spoken)
      BY <2>3, <3>3, StartsTwice
    <3> QED BY <2>2, <2>4, <3>1, <3>4
  <2> QED BY <2>5, <2>6, <2>7
<1> QED BY <1>6, <1>7, <1>8, <1>9 DEF Conversation

LEMMA CompletedTells ==
  ASSUME Conversation, Stages, Inv, StreamTypes, AgentTypes, UNCHANGED agentVars,
         NEW e, ReadTerminal(e), e.type = "completed"
  PROVE  Conversation' /\ node = "ended" /\ batch = << >>
<1>1. PICK s \in Seq(Entry) : Stores(s) /\ (Listens => \E h : Follows(s, h))
  BY DEF Conversation
<1>2. Read(e) /\ wire \in Seq(Event)
  BY DEF ReadTerminal, StreamTypes
<1>3. PICK h : Follows(s, h)
  BY <1>1, <1>2 DEF Read, Listens
<1>4. PICK u, t : u = h[1] /\ t = h[2]
  OBVIOUS
<1>5. /\ u \in Knowledge /\ e = wire[1] /\ Hears(u, e, t) /\ RuntimeKnows(s, u)
      /\ WillStore(s) = s
  BY <1>2, <1>3, <1>4, HeadHeard
<1>6. Len(wire) = 1 /\ node = "ended" /\ batch = << >>
  <2>1. 1 \in DOMAIN wire
    BY <1>2 DEF Read
  <2> QED BY <1>5, <2>1 DEF Stages
<1>7. AgentKnows(t)
  BY <1>3, <1>4, <1>6 DEF Follows
<1>8. t.said = conv
  BY <1>6, <1>7 DEF AgentKnows, Spoken
<1>9. u.open = << >> /\ t.said = u.said
  BY <1>5 DEF Hears, HearsMessage, HearsResult, HearsNothing
<1>10. u.said = s
  BY <1>5, <1>9 DEF RuntimeKnows
<1>11. s = conv /\ Spoken = conv
  BY <1>6, <1>8, <1>9, <1>10 DEF Spoken
<1>12. rows' = rows /\ at' = "finish" /\ conv' = conv /\ Spoken' = Spoken
  BY <1>2 DEF ReadTerminal, FinishAs, Read, Spoken, Answers, Unpublished, agentVars
<1>13. Stores(s)' /\ ~Listens' /\ WillStore(s)' = s
  BY <1>1, <1>12 DEF Stores, Listens, WillStore
<1>14. Starts(WillStore(s), Spoken)'
  <2>1. Starts(s, s)
    BY StartsItself
  <2> QED BY <1>11, <1>12, <1>13, <2>1
<1> QED BY <1>6, <1>11, <1>12, <1>13, <1>14 DEF Conversation

LEMMA CommitTells ==
  ASSUME Conversation, Stages, Inv, StreamTypes, AgentTypes, UNCHANGED agentVars,
         BeginCommit \/ EventCommit
  PROVE  Conversation'
<1>1. PICK s \in Seq(Entry) : /\ Stores(s) /\ Starts(WillStore(s), Spoken)
                              /\ Listens => \E h : Follows(s, h)
                              /\ final = "completed" => s = conv
  BY DEF Conversation
<1>2. PICK t : t = WillStore(s)
  OBVIOUS
<1>3. t \in Seq(Entry) /\ Starts(t, Spoken) /\ wire \in Seq(Event)
  BY <1>1, <1>2, WillStoreType DEF StreamTypes
<1>4. /\ UNCHANGED <<wire, at, event, ready, pending, completed, lastSeq, final, cancelRequested>>
      /\ at \in {"begin", "event"} /\ io = "asked" /\ io' = "committed"
  BY DEF BeginCommit, EventCommit
<1>5. WillStore(t)' = t /\ final' # "completed"
  BY <1>4 DEF WillStore, Stages
<1>6. Spoken' = Spoken
  BY DEF Spoken, Answers, Unpublished, agentVars
<1>7. Stores(t)'
  <2>1. CASE EventCommit
    <3>1. rows # {}
      BY <2>1 DEF EventCommit, Stages
    <3> QED BY <1>1, <1>2, <2>1, <3>1, EventStored
  <2>2. CASE BeginCommit
    <3>1. rows = {} /\ at = "begin"
      BY <2>2 DEF BeginCommit, Inv, BeginsEmpty
    <3>2. Len(s) + 1 \in Nat /\ 1 \in 1..(Len(s) + 1)
      OBVIOUS
    <3>3. {r.sequence : r \in rows} = {}
      BY <3>1
    <3>4. s = << >> /\ t = << >>
      BY <1>1, <1>2, <3>1, <3>2, <3>3 DEF Stores, WillStore
    <3>5. NextSequence = 1
      <4>1. 1..0 = {} /\ 0 \in Nat /\ 0 + 1 = 1
        OBVIOUS
      <4>2. {r.sequence : r \in rows} = 1..0
        BY <3>3, <4>1
      <4> QED BY <4>1, <4>2, NextIsLast
    <3>6. PICK q : q = UserRow
      OBVIOUS
    <3>7. q.sequence = 1 /\ rows' = {q}
      BY <2>2, <3>5, <3>6 DEF BeginCommit, UserRow
    <3>8. {r.sequence : r \in rows'} = 1..(Len(<< >>) + 1)
      BY <3>7
    <3>9. \A r \in rows' : ~(r.sequence > 1)
      BY <3>7
    <3> QED BY <3>4, <3>8, <3>9 DEF Stores
  <2> QED BY <2>1, <2>2
<1>8. ASSUME Listens' PROVE \E h : Follows(t, h)'
  <2>1. PICK h : Follows(s, h)
    BY <1>1, <1>4, <1>8 DEF Listens
  <2>2. PICK u, v : u = h[1] /\ v = h[Len(wire) + 1]
    OBVIOUS
  <2>3. RuntimeKnows(s, u) /\ AgentKnows(v)
    BY <2>1, <2>2 DEF Follows
  <2>4. AgentKnows(v)'
    BY <1>6, <2>3 DEF AgentKnows, Unpublished, agentVars
  <2>5. RuntimeKnows(t, u)'
    <3>1. ready = NoGroup => t = s
      BY <1>2 DEF WillStore
    <3> QED BY <1>2, <1>4, <1>5, <2>3, <3>1 DEF RuntimeKnows
  <2>6. Follows(t, h)'
    BY <1>4, <1>6, <2>1, <2>2, <2>4, <2>5 DEF Follows
  <2> QED BY <2>6
<1>9. Starts(WillStore(t), Spoken)'
  BY <1>3, <1>5, <1>6
<1> QED BY <1>3, <1>5, <1>7, <1>8, <1>9 DEF Conversation

-----------------------------------------------------------------------------
(* The runtime's steps keep what is known of both sides' progress.         *)
LEMMA StreamShortens ==
  ASSUME wire \in Seq(Event), RuntimeNext,
         \A i \in DOMAIN wire : wire[i].type = "completed" =>
           i = Len(wire) /\ node = "ended" /\ batch = << >>
  PROVE  \A i \in DOMAIN wire' : wire'[i].type = "completed" =>
           i = Len(wire') /\ node = "ended" /\ batch = << >>
<1>1. wire' \in {wire, << >>} \/ (wire # << >> /\ wire' = Tail(wire))
  BY RuntimeTakes
<1>2. CASE wire' = << >>
  <2>1. DOMAIN << >> = {}
    OBVIOUS
  <2> QED BY <1>2, <2>1
<1>3. CASE wire # << >> /\ wire' = Tail(wire)
  <2>1. PICK w : w = Tail(wire)
    OBVIOUS
  <2>2. /\ Len(wire) \in Nat /\ Len(w) = Len(wire) - 1 /\ DOMAIN w = 1..(Len(wire) - 1)
        /\ \A i \in 1..(Len(wire) - 1) : w[i] = wire[i + 1]
    BY <1>3, <2>1
  <2>3. \A i \in 1..(Len(wire) - 1) :
          i + 1 \in DOMAIN wire /\ (i + 1 = Len(wire) => i = Len(wire) - 1)
    BY <2>2
  <2> QED BY <1>3, <2>1, <2>2, <2>3
<1> QED BY <1>1, <1>2, <1>3

RowStages ==
  /\ final = "completed" => node = "ended" /\ batch = << >>
  /\ at \in {"begin", "reading", "event"} => final = "queued"
  /\ at \in {"reading", "event"} \/ (at = "begin" /\ io = "committed") => rows # {}
  /\ turnRow = "completed" => final = "completed"
  /\ turnRow # "none" => rows # {}

LEMMA RowStagesKept ==
  ASSUME RowStages, RuntimeNext, UNCHANGED agentVars,
         \A e : ReadTerminal(e) /\ e.type = "completed" => node = "ended" /\ batch = << >>
  PROVE  RowStages'
<1>1. node' = node /\ batch' = batch
  BY DEF agentVars
<1>2. CASE BeginCommit
  BY <1>1, <1>2 DEF BeginCommit, RowStages
<1>3. CASE BeginTakenUp \/ ReadCancelled \/ StreamOver \/ WriteFails
  BY <1>1, <1>3 DEF BeginTakenUp, ReadCancelled, StreamOver, WriteFails, FinishAs, RowStages
<1>4. CASE OnEvent
  <2>1. PICK e : ReadRefused(e) \/ ReadTerminal(e) \/ ReadMessage(e) \/ ReadResult(e)
                 \/ ReadProgress(e)
    BY <1>4 DEF OnEvent
  <2>2. Read(e)
    BY <2>1 DEF ReadRefused, ReadTerminal, ReadMessage, ReadResult, ReadProgress
  <2>3. CASE ReadRefused(e)
    BY <1>1, <2>2, <2>3 DEF ReadRefused, Read, FinishAs, RowStages
  <2>4. CASE ReadTerminal(e)
    BY <1>1, <2>2, <2>4 DEF ReadTerminal, Read, FinishAs, RowStages
  <2>5. CASE ReadMessage(e) \/ ReadResult(e) \/ ReadProgress(e)
    BY <1>1, <2>2, <2>5 DEF ReadMessage, ReadResult, ReadProgress, Read, Ask, RowStages
  <2> QED BY <2>1, <2>3, <2>4, <2>5
<1>5. CASE EventCommit \/ EventTakenUp
  BY <1>1, <1>5 DEF EventCommit, EventTakenUp, RowStages
<1>6. CASE FinishCommit \/ FinishTakenUp \/ FinishFails
  BY <1>1, <1>6 DEF FinishCommit, FinishTakenUp, FinishFails, Close, RowStages
<1>7. CASE Cancel \/ ManagerFails \/ Recover
  BY <1>1, <1>7 DEF Cancel, ManagerFails, Recover, Fail, RowStages
<1> QED
  BY <1>2, <1>3, <1>4, <1>5, <1>6, <1>7 DEF RuntimeNext, RuntimeStep

LEMMA RuntimeTells ==
  ASSUME Conversation, Stages, Inv, Spares, StreamTypes, AgentTypes, UNCHANGED agentVars,
         RuntimeNext
  PROVE  Conversation' /\ Stages'
<1>1. NewGroups
  BY DEF Spares
<1>2. Conversation'
  <2>1. CASE OnEvent
    <3>1. PICK e \in Range(wire) :
            ReadRefused(e) \/ ReadTerminal(e) \/ ReadMessage(e) \/ ReadResult(e) \/ ReadProgress(e)
      BY <2>1 DEF OnEvent
    <3>2. CASE ReadMessage(e) \/ ReadResult(e) \/ ReadProgress(e)
      BY <1>1, <3>2, ReadTells
    <3>3. CASE ReadTerminal(e) /\ e.type = "completed"
      BY <3>3, CompletedTells
    <3>4. CASE ReadRefused(e) \/ (ReadTerminal(e) /\ e.type # "completed")
      BY <3>4, AsideTells DEF Aside
    <3> QED BY <3>1, <3>2, <3>3, <3>4
  <2>2. CASE BeginCommit \/ EventCommit
    BY <2>2, CommitTells
  <2>3. CASE Aside
    BY <2>3, AsideTells
  <2> QED BY <2>1, <2>2, <2>3 DEF RuntimeNext, RuntimeStep, Aside
<1>3. RowStages'
  <2>1. \A e : ReadTerminal(e) /\ e.type = "completed" => node = "ended" /\ batch = << >>
    BY CompletedTells
  <2>2. RowStages
    BY DEF Stages, RowStages
  <2> QED BY <2>1, <2>2, RowStagesKept
<1>4. UNCHANGED <<node, batch>> /\ wire \in Seq(Event)
  BY DEF agentVars, StreamTypes
<1>5. \A i \in DOMAIN wire' : wire'[i].type = "completed" =>
        i = Len(wire') /\ node = "ended" /\ batch = << >>
  BY <1>4, StreamShortens DEF Stages
<1>6. Stages'
  BY <1>3, <1>4, <1>5 DEF Stages, RowStages
<1> QED BY <1>2, <1>6

LEMMA ToldInitially ==
  ASSUME Init
  PROVE  Told
<1>1. /\ node = "off" /\ batch = << >> /\ wire = << >> /\ rows = {} /\ at = "begin"
      /\ io = "asked" /\ final = "queued" /\ turnRow = "none" /\ conv = << >> /\ sent = 0
      /\ used = 0 /\ mid = NoMessage /\ lastSeq = 0 /\ completed = {} /\ pending = << >>
      /\ ready = NoGroup
  BY DEF Init, AgentInit, RuntimeInit
<1>2. Stages
  BY <1>1 DEF Stages, Distinct
<1>3. Unpublished = {} /\ Spoken = << >>
  BY <1>1 DEF Unpublished, Spoken, Range
<1>4. << >> \in Seq(Entry) /\ Stores(<< >>) /\ WillStore(<< >>) = << >>
  BY <1>1 DEF Stores, WillStore
<1>5. Starts(<< >>, << >>)
  BY <1>4, StartsItself
<1>6. PICK u : u = [said |-> << >>, open |-> << >>, got |-> NoResults, mid |-> 0, seq |-> 0]
  OBVIOUS
<1>7. u.said = << >> /\ u.open = << >> /\ u.mid = 0 /\ u.seq = 0 /\ u \in Knowledge
  BY <1>4, <1>6, NoCallsAreCalls DEF Knowledge, NoResults, Results
<1>8. RuntimeKnows(<< >>, u)
  BY <1>1, <1>4, <1>7 DEF RuntimeKnows
<1>9. AgentKnows(u)
  BY <1>1, <1>3, <1>7 DEF AgentKnows
<1>10. PICK h : h = [i \in 1..1 |-> u]
  OBVIOUS
<1>11. Follows(<< >>, h)
  <2>1. Len(wire) = 0 /\ 1..(0 + 1) = 1..1 /\ 1..0 = {} /\ 0 + 1 = 1
    BY <1>1
  <2>2. h \in [1..1 -> Knowledge] /\ h[1] = u /\ \A i \in 1..1 : h[i] = u
    BY <1>7, <1>10
  <2> QED BY <1>3, <1>5, <1>7, <1>8, <1>9, <2>1, <2>2 DEF Follows
<1>12. Conversation
  BY <1>1, <1>3, <1>4, <1>5, <1>11 DEF Conversation
<1> QED BY <1>2, <1>12 DEF Told

LEMMA ToldKept ==
  ASSUME Told, Inv, Spares, PipelineTypes, AgentTypes', [Next]_vars
  PROVE  Told'
<1>1. AgentTypes /\ StreamTypes /\ wire \in Seq(Event)
  BY DEF PipelineTypes, StreamTypes
<1>2. source' = source
  BY DEF Next, vars
<1> SUFFICES ASSUME source = "agent" PROVE Conversation' /\ Stages'
  BY <1>2 DEF Told
<1>3. Conversation /\ Stages
  BY DEF Told
<1>4. ASSUME UNCHANGED <<agentVars, runtimeVars, wire>> PROVE Conversation' /\ Stages'
  <2>1. /\ UNCHANGED <<wire, at, io, event, ready, pending, completed, lastSeq, final,
                       cancelRequested, rows>>
    BY <1>4 DEF runtimeVars
  <2>2. \A s \in Seq(Entry) : WillStore(s)' = WillStore(s)
    BY <2>1 DEF WillStore
  <2>3. Listens' = Listens
    BY <2>1 DEF Listens
  <2>4. \A s \in Seq(Entry), u \in Knowledge : RuntimeKnows(s, u) => RuntimeKnows(s, u)'
    BY <2>1, <2>2 DEF RuntimeKnows
  <2>5. Conversation'
    BY <1>1, <1>3, <1>4, <2>1, <2>2, <2>3, <2>4, KeepsTelling
  <2> QED BY <1>3, <1>4, <2>5 DEF Stages, runtimeVars, agentVars
<1>5. CASE AgentNext /\ UNCHANGED <<runtimeVars, source>>
  BY <1>1, <1>3, <1>5, AgentTells, AgentStages
<1>6. CASE Breaks /\ UNCHANGED <<agentVars, runtimeVars, source>>
  BY <1>4, <1>6 DEF Breaks
<1>7. CASE RuntimeNext /\ UNCHANGED <<agentVars, source>>
  BY <1>1, <1>3, <1>7, RuntimeTells
<1>8. CASE UNCHANGED vars
  BY <1>4, <1>8 DEF vars
<1> QED BY <1>5, <1>6, <1>7, <1>8 DEF Next

LEMMA ToldAlways == Spec => [](Inv /\ Spares /\ PipelineTypes /\ Told)
<1>1. Init => Inv /\ Spares /\ PipelineTypes /\ Told
  BY PipelineInit, InitInv, InitSpares, ToldInitially
<1>2. Inv /\ Spares /\ PipelineTypes /\ Told /\ [Next]_vars =>
        Inv' /\ Spares' /\ PipelineTypes' /\ Told'
  <2> SUFFICES ASSUME Inv, Spares, PipelineTypes, Told, [Next]_vars
               PROVE  Inv' /\ Spares' /\ PipelineTypes' /\ Told'
    OBVIOUS
  <2>1. [RuntimeNext \/ Peer]_streamVars /\ PipelineTypes'
    BY PipelineStep
  <2>2. AgentTypes'
    BY <2>1 DEF PipelineTypes
  <2> QED BY <2>1, <2>2, NextInv, NextSpares, ToldKept
<1> QED BY <1>1, <1>2, PTL DEF Spec

(* What is stored of a turn is the agent's own conversation: the beginning *)
(* of it at any time, with every result where the agent has it, and all of *)
(* it once the turn is completed (_save_group, crud.create_message).       *)
THEOREM StoredConversation == Spec => []StoredIsConversation
<1>1. Inv /\ StreamTypes /\ AgentTypes /\ Told => StoredIsConversation
  <2> SUFFICES ASSUME Inv, StreamTypes, AgentTypes, Conversation, Stages, source = "agent"
               PROVE  /\ \A r \in rows : r.sequence > 1 =>
                           /\ r.sequence - 1 \in DOMAIN Spoken
                           /\ r.entry = Spoken[r.sequence - 1]
                      /\ turnRow = "completed" => Cardinality(rows) = Len(conv) + 1
    BY DEF Told, StoredIsConversation
  <2>1. PICK s \in Seq(Entry) : /\ Stores(s) /\ Starts(WillStore(s), Spoken)
                                /\ final = "completed" => s = conv
    BY DEF Conversation
  <2>2. Spoken \in Seq(Entry) /\ Starts(s, Spoken)
    BY <2>1, WillStoreType, SpokenType, StartsTwice
  <2>3. ASSUME NEW r \in rows, r.sequence > 1
        PROVE  r.sequence - 1 \in DOMAIN Spoken /\ r.entry = Spoken[r.sequence - 1]
    <3>1. r.entry = s[r.sequence - 1] /\ r.sequence \in 1..(Len(s) + 1)
      BY <2>1, <2>3 DEF Stores
    <3>2. r.sequence - 1 \in 1..Len(s) /\ Len(s) \in Nat
      BY <2>3, <3>1
    <3>3. Len(s) <= Len(Spoken) /\ Spoken[r.sequence - 1] = s[r.sequence - 1]
      BY <2>2, <3>2 DEF Starts
    <3>4. Len(Spoken) \in Nat /\ DOMAIN Spoken = 1..Len(Spoken)
      BY <2>2
    <3> QED BY <3>1, <3>2, <3>3, <3>4
  <2>4. ASSUME turnRow = "completed" PROVE Cardinality(rows) = Len(conv) + 1
    <3>1. PICK n \in Nat : n = Len(conv) + 1
      BY DEF AgentTypes
    <3>2. {r.sequence : r \in rows} = 1..n
      BY <2>1, <2>4, <3>1 DEF Stages, Stores
    <3>3. \A q, r \in rows : q.sequence = r.sequence => q = r
      BY DEF Inv, Numbered
    <3> DEFINE f == [r \in rows |-> r.sequence]
    <3>4. f \in Bijection(rows, 1..n)
      BY <3>2, <3>3 DEF Bijection, Injection, Surjection, IsInjective
    <3>5. ExistsBijection(1..n, rows)
      BY <3>4, Fun_ExistsBijSymmetric DEF ExistsBijection
    <3>6. IsFiniteSet(1..n) /\ Cardinality(1..n) = n
      BY FS_Interval
    <3>7. Cardinality(rows) = n
      BY <3>5, <3>6, FS_Bijection
    <3> QED BY <3>1, <3>7
  <2> QED BY <2>3, <2>4
<1> QED BY <1>1, ToldAlways, PTL DEF PipelineTypes

(* What the runtime refuses of its own agent's stream is a call without a  *)
(* name: no number, no message identifier and no result is ever out of     *)
(* order, repeated or missing (_on_event, _accept_model_message).          *)
THEOREM StreamIsUnderstood == Spec => AgentIsUnderstood
<1>1. Inv /\ Spares /\ PipelineTypes /\ Told /\ [Next]_vars =>
        [source = "agent" /\ refused' /\ ~refused => ~Head(wire).named]_vars
  <2> SUFFICES ASSUME Inv, Spares, PipelineTypes, Told, Next, source = "agent",
                      refused', ~refused
               PROVE  ~Head(wire).named
    BY DEF vars, runtimeVars
  <2>1. PICK e : ReadRefused(e)
    <3>1. UNCHANGED runtimeVars => refused' = refused
      BY DEF runtimeVars
    <3>2. RuntimeNext
      BY <3>1 DEF Next
    <3> QED
      BY <3>2 DEF RuntimeNext, RuntimeStep, BeginCommit, BeginTakenUp, ReadCancelled, OnEvent,
         ReadTerminal, ReadMessage, ReadResult, ReadProgress, Ask, StreamOver,
         EventCommit, EventTakenUp, FinishCommit, FinishTakenUp, WriteFails, FinishFails,
         Cancel, ManagerFails, Recover, Close
  <2>2. Read(e) /\ BreaksProtocol(e) /\ Conversation /\ StreamTypes /\ wire \in Seq(Event)
        /\ NewGroups
    BY <2>1 DEF ReadRefused, Told, PipelineTypes, StreamTypes, Spares
  <2>3. PICK s \in Seq(Entry) : \E h : Follows(s, h)
    BY <2>2 DEF Conversation, Read, Listens
  <2>0. PICK h : Follows(s, h)
    BY <2>3
  <2>4. PICK u, t : u = h[1] /\ t = h[2]
    OBVIOUS
  <2>5. /\ u \in Knowledge /\ t \in Knowledge /\ e = Head(wire) /\ e \in Event
        /\ Hears(u, e, t) /\ RuntimeKnows(s, u) /\ e.seq = lastSeq + 1 /\ lastSeq \in Nat
    BY <2>0, <2>2, <2>4, HeadHeard DEF StreamTypes, RuntimeTypeOK
  <2>6. ~(e.seq <= lastSeq)
    BY <2>5
  <2>7. /\ \A m \in completed : m \in Nat /\ m <= u.mid
        /\ \A m \in DOMAIN pending : m \in Nat /\ m <= u.mid
        /\ u.mid \in Nat /\ e.mid \in Nat /\ NoMessage = 0
    <3>1. /\ u.mid \in Nat /\ e.mid \in Nat /\ NoMessage = 0
          /\ \A m \in Message : m \in Nat
      BY <2>5, WireBounds DEF Knowledge, Event, Message, NoMessage
    <3>2. completed \subseteq Message /\ DOMAIN pending \subseteq Message
      BY <2>2 DEF StreamTypes, RuntimeTypeOK
    <3>3. (\A m \in completed : m <= u.mid) /\ (\A m \in DOMAIN pending : m <= u.mid)
      BY <2>5 DEF RuntimeKnows
    <3>. QED BY ONLY <3>1, <3>2, <3>3
  <2>8. CASE HearsMessage(u, e, t)
    <3>1. e.type = "done" /\ Distinct(e.calls) /\ e.mid > u.mid
      BY <2>8 DEF HearsMessage
    <3>2. e.mid # NoMessage /\ e.mid \notin completed \cup DOMAIN pending
      BY <2>7, <3>1
    <3> QED BY <2>2, <2>5, <2>6, <3>1, <3>2 DEF BreaksProtocol
  <2>9. CASE HearsResult(u, e, t)
    <3>1. /\ e.type = "result" /\ e.call \in Range(u.open) /\ e.result # "missing"
          /\ u.got[e.call] = Pending
      BY <2>9 DEF HearsResult
    <3>2. u.open # << >>
      BY <3>1 DEF Range
    <3>3. PICK m \in DOMAIN pending : /\ DOMAIN pending = {m} /\ u.open = pending[m].calls
                                      /\ u.got = pending[m].results
      BY <2>5, <3>2 DEF RuntimeKnows
    <3>4. Holding(e.call) = {m}
      BY <3>1, <3>3 DEF Holding
    <3>5. Cardinality(Holding(e.call)) = 1 /\ \A k \in Holding(e.call) : k = m
      BY <3>4, FS_Singleton
    <3>6. e.call # NoCall
      <4>1. u.open \in Seq(Call)
        BY <2>5, CallsAreSequences DEF Knowledge
      <4> QED BY <3>1, <4>1, CallAssumption DEF Range
    <3> QED BY <2>2, <2>6, <3>1, <3>3, <3>5, <3>6 DEF BreaksProtocol
  <2>10. CASE HearsNothing(u, e, t)
    <3>1. /\ e.type \in {"other", "text", "tool_started", "completed", "failed"}
          /\ e.type = "text" => e.mid # NoMessage
          /\ e.type = "tool_started" => e.call # NoCall
          /\ e.type = "completed" => u.open = << >>
      BY <2>10 DEF HearsNothing
    <3>2. e.type = "completed" => DOMAIN pending = {}
      BY <2>5, <3>1 DEF RuntimeKnows
    <3> QED BY <2>2, <2>6, <3>1, <3>2 DEF BreaksProtocol
  <2> QED BY <2>5, <2>8, <2>9, <2>10 DEF Hears
<1> QED BY <1>1, ToldAlways, PTL DEF Spec, AgentIsUnderstood
-----------------------------------------------------------------------------
(* Of the agent's results each is JSON, and of its events none is the      *)
(* backend's own, where they wait to be written.                           *)
Clean(g) == \A c \in Call : g.results[c] # "garbled"

Spared ==
  source = "agent" =>
    /\ \A m \in DOMAIN pending : Clean(pending[m])
    /\ Clean(ready) /\ Shows(event)
    /\ broken => faults > 0

LEMMA NothingIsClean == Clean(NoGroup) /\ Shows(NoEvent)
  BY DEF Clean, NoGroup, Pending, Shows, NoEvent, Other

LEMMA CleanKeepsSpared ==
  ASSUME Spared, source = "agent", UNCHANGED <<broken, faults>>,
         \A m \in DOMAIN pending' : Clean(pending'[m]),
         ready' = ready \/ Clean(ready'), event' = event \/ Shows(event')
  PROVE  Spared'
<1>1. Clean(ready)' /\ Shows(event)'
  BY DEF Spared, Clean, Shows
<1>2. \A m \in DOMAIN pending' : Clean(pending[m])'
  BY DEF Clean
<1>3. broken' => faults' > 0
  BY DEF Spared
<1> QED BY <1>1, <1>2, <1>3 DEF Spared

(* What the runtime reads of the agent is clean.                           *)
LEMMA ReadSpared ==
  ASSUME Spared, source = "agent", Told, Inv, Spares, PipelineTypes, NEW e, Read(e),
         ReadRefused(e) \/ ReadTerminal(e) \/ ReadMessage(e) \/ ReadResult(e) \/ ReadProgress(e)
  PROVE  Spared'
<1>1. UNCHANGED <<broken, faults>> /\ \A m \in DOMAIN pending : Clean(pending[m])
  BY DEF Read, Spared
<1>2. /\ e.type # "created" /\ e \in Event
      /\ e.type = "result" => e.result # "garbled"
  <2>1. Conversation /\ StreamTypes /\ wire \in Seq(Event)
    BY DEF Told, PipelineTypes, StreamTypes
  <2>2. PICK s \in Seq(Entry) : \E h : Follows(s, h)
    BY <2>1 DEF Conversation, Read, Listens
  <2>3. PICK h : Follows(s, h)
    BY <2>2
  <2>4. Hears(h[1], e, h[2]) /\ e \in Event
    BY <2>1, <2>3, HeadHeard
  <2>5. e.type # "created"
    BY <2>4 DEF Hears, HearsMessage, HearsResult, HearsNothing
  <2>6. e.type = "result" => e.result # "garbled"
    BY <2>4 DEF Hears, HearsMessage, HearsResult, HearsNothing
  <2> QED BY <2>4, <2>5, <2>6
<1>3. CASE ReadRefused(e) \/ ReadTerminal(e)
  <2>1. UNCHANGED <<event, ready, pending>>
    BY <1>3 DEF ReadRefused, ReadTerminal
  <2> QED BY <1>1, <2>1, CleanKeepsSpared
<1>4. CASE ReadProgress(e)
  <2>1. event' = e /\ ready' = NoGroup /\ pending' = pending
    BY <1>4 DEF ReadProgress, Ask
  <2> QED BY <1>1, <1>2, <2>1, NothingIsClean, CleanKeepsSpared DEF Shows
<1>5. CASE ReadMessage(e)
  <2> DEFINE group == [mid |-> e.mid, calls |-> e.calls, results |-> NoGroup.results]
  <2>1. Clean(group)
    BY DEF Clean, NoGroup, Pending
  <2>2. /\ event' = e
        /\ \/ ready' = group /\ pending' = pending
           \/ /\ ready' = NoGroup
              /\ pending' = [m \in DOMAIN pending \cup {e.mid} |->
                               IF m = e.mid THEN group ELSE pending[m]]
    BY <1>5 DEF ReadMessage, Ask
  <2> HIDE DEF group
  <2>3. Clean(ready') /\ \A m \in DOMAIN pending' : Clean(pending'[m])
    BY <1>1, <2>1, <2>2, NothingIsClean
  <2> QED BY <1>1, <1>2, <2>2, <2>3, CleanKeepsSpared DEF Shows
<1>6. CASE ReadResult(e)
  <2>1. PICK m \in Holding(e.call) :
          LET group == [pending[m] EXCEPT !.results[e.call] = e.result] IN
          IF \A c \in Range(group.calls) : group.results[c] # Pending
          THEN Ask(e, group) /\ pending' = [k \in DOMAIN pending \ {m} |-> pending[k]]
          ELSE Ask(e, NoGroup) /\ pending' = [pending EXCEPT ![m] = group]
    BY <1>6 DEF ReadResult
  <2> DEFINE group == [pending[m] EXCEPT !.results[e.call] = e.result]
  <2>2. m \in DOMAIN pending /\ GroupOK(pending[m]) /\ Clean(pending[m])
    BY <1>1, <2>1 DEF Holding, Inv, GroupsOK
  <2>3. e.result # "garbled"
    BY <1>2, <1>6 DEF ReadResult
  <2>4. Clean(group)
    BY <2>2, <2>3 DEF Clean, GroupOK
  <2>5. /\ event' = e
        /\ \/ ready' = group /\ pending' = [k \in DOMAIN pending \ {m} |-> pending[k]]
           \/ ready' = NoGroup /\ pending' = [pending EXCEPT ![m] = group]
    BY <2>1 DEF Ask
  <2> HIDE DEF group
  <2>6. Clean(ready') /\ \A k \in DOMAIN pending' : Clean(pending'[k])
    BY <1>1, <2>4, <2>5, NothingIsClean
  <2> QED BY <1>1, <1>2, <2>5, <2>6, CleanKeepsSpared DEF Shows
<1> QED BY <1>3, <1>4, <1>5, <1>6

LEMMA FailureSpared ==
  ASSUME Spared, source = "agent", Inv, Spares, RuntimeNext,
         WriteFails \/ FinishFails \/ ManagerFails
  PROVE  Spared'
<1>1. /\ pending' = pending /\ ready' \in {ready, NoGroup} /\ event' \in {event, NoEvent}
      /\ faults' \in {faults, faults + 1} /\ faults \in Nat
  BY DEF WriteFails, FinishFails, ManagerFails, Close, Fail, Spares
<1>2. Parses(ready) /\ Shows(event)
  <2>1. Range(ready.calls) \subseteq Call
    BY DEF Inv, GroupsOK, GroupOK, Range
  <2> QED BY <2>1 DEF Spared, Clean, Parses
<1>3. broken' # broken => faults' > faults
  BY <1>2, WhatBreaks
<1>4. broken' => faults' > 0
  <2>1. CASE broken' # broken
    BY <1>1, <1>3, <2>1
  <2>2. CASE broken' = broken
    <3>1. broken' => faults > 0
      BY <2>2 DEF Spared
    <3> QED BY <1>1, <3>1
  <2> QED BY <2>1, <2>2
<1>5. Clean(ready)' /\ Shows(event)' /\ \A m \in DOMAIN pending' : Clean(pending[m])'
  BY <1>1, NothingIsClean DEF Spared, Clean, Shows
<1> QED BY <1>4, <1>5 DEF Spared

LEMMA SparedKept ==
  ASSUME Spared, Told, Inv, Spares, PipelineTypes, [Next]_vars
  PROVE  Spared'
<1>1. source' = source
  BY DEF Next, vars
<1> SUFFICES ASSUME source = "agent" PROVE Spared'
  BY <1>1 DEF Spared
<1>2. \A m \in DOMAIN pending : Clean(pending[m])
  BY DEF Spared
<1>3. CASE UNCHANGED <<broken, faults, pending, ready, event>>
  BY <1>2, <1>3, CleanKeepsSpared
<1>4. CASE OnEvent
  <2>1. PICK e : ReadRefused(e) \/ ReadTerminal(e) \/ ReadMessage(e) \/ ReadResult(e)
                 \/ ReadProgress(e)
    BY <1>4 DEF OnEvent
  <2>2. Read(e)
    BY <2>1 DEF ReadRefused, ReadTerminal, ReadMessage, ReadResult, ReadProgress
  <2> QED BY <2>1, <2>2, ReadSpared
<1>5. CASE RuntimeNext /\ (WriteFails \/ FinishFails \/ ManagerFails)
  BY <1>5, FailureSpared
<1>6. CASE EventTakenUp
  <2>1. /\ UNCHANGED <<pending, broken, faults>> /\ ready' = NoGroup /\ event' = NoEvent
    BY <1>6 DEF EventTakenUp
  <2> QED BY <1>2, <2>1, NothingIsClean, CleanKeepsSpared
<1>7. CASE FinishTakenUp
  <2>1. UNCHANGED <<broken, faults, event, ready>> /\ DOMAIN pending' = {}
    BY <1>7 DEF FinishTakenUp, Close
  <2> QED BY <2>1, CleanKeepsSpared
<1>8. CASE \/ BeginCommit \/ BeginTakenUp \/ ReadCancelled \/ StreamOver \/ EventCommit
           \/ FinishCommit \/ Cancel \/ Recover
  BY <1>3, <1>8 DEF BeginCommit, BeginTakenUp, ReadCancelled, StreamOver, EventCommit,
     FinishCommit, Cancel, Recover
<1>9. CASE UNCHANGED runtimeVars
  BY <1>3, <1>9 DEF runtimeVars
<1>10. RuntimeNext \/ UNCHANGED runtimeVars
  BY DEF Next, vars
<1> QED
  BY <1>4, <1>5, <1>6, <1>7, <1>8, <1>9, <1>10 DEF RuntimeNext, RuntimeStep

(* Whatever the agent sends and wherever its stream ends, the manager only *)
(* breaks when the database fails (_tool_message_event, _save_group).      *)
THEOREM AgentsSpareSessions == Spec => []AgentSparesSession
<1>1. Init => Spared
  BY NothingIsClean DEF Init, RuntimeInit, Spared
<1>2. Spared => AgentSparesSession
  BY DEF Spared, AgentSparesSession
<1>3. Inv /\ Spares /\ PipelineTypes /\ Told /\ Spared /\ [Next]_vars => Spared'
  BY SparedKept
<1> QED BY <1>1, <1>2, <1>3, ToldAlways, PTL DEF Spec
=============================================================================
