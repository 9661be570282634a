-------------------------- MODULE TurnStreamProofs --------------------------
(***************************************************************************)
(* What holds of a runtime's message rows whatever its peer sends.  The    *)
(* peer is any process that writes events into the stream and ends it when *)
(* it likes; AgentLoop and the stranger of TurnPipeline are two of them.   *)
(***************************************************************************)
EXTENDS TurnStream, TLAPS

Peer ==
  /\ wire' \in Seq(Event)
  /\ rpc' \in {"none", "open", "ended", "broken", "cancelled"}
  /\ UNCHANGED runtimeVars

streamVars == <<runtimeVars, wire, rpc>>

StreamInit == RuntimeInit /\ wire = << >> /\ rpc = "none"
StreamSpec == StreamInit /\ [][RuntimeNext \/ Peer]_streamVars

-----------------------------------------------------------------------------
(* A group knows its calls, and results for nothing else.                  *)
GroupOK(g) ==
  /\ g = [mid |-> g.mid, calls |-> g.calls, results |-> g.results]
  /\ g.calls \in Seq(Call)
  /\ g.results \in [Call -> Result \cup {Pending}]

Whole(g) == \A c \in Range(g.calls) : g.results[c] # Pending

(* The groups in memory: what is handed to the write has all its results.  *)
GroupsOK ==
  /\ \A m \in DOMAIN pending : GroupOK(pending[m])
  /\ GroupOK(ready) /\ Whole(ready)

(* The rows are numbered 1, 2, ... without repetition.                     *)
Numbered ==
  /\ \E n \in Nat : {r.sequence : r \in rows} = 1..n
  /\ \A q, r \in rows : q.sequence = r.sequence => q = r

(* A message with calls is followed by exactly its results.                *)
Paired ==
  /\ \A r \in rows : r.entry.role = "assistant" =>
       \A i \in DOMAIN r.entry.calls : \E q \in rows :
         /\ q.sequence = r.sequence + i
         /\ q.entry.call = r.entry.calls[i] /\ q.entry.result # Pending
  /\ \A q \in rows : q.entry.role = "tool" =>
       \E r \in rows : /\ r.entry.role = "assistant" /\ r.group = q.group
                       /\ q.sequence - r.sequence \in DOMAIN r.entry.calls
                       /\ r.entry.calls[q.sequence - r.sequence] = q.entry.call

BeginsEmpty == at = "begin" /\ io = "asked" => rows = {}

Inv ==
  /\ wire \in Seq(Event)
  /\ GroupsOK
  /\ Numbered
  /\ Paired
  /\ BeginsEmpty

-----------------------------------------------------------------------------
LEMMA CallsAreSequences == Calls \subseteq Seq(Call)
  BY WireBounds DEF Calls

LEMMA EventsCarryCalls ==
  ASSUME NEW e \in Event
  PROVE  e.calls \in Seq(Call) /\ e.result \in Result \cup {Pending}
  BY CallsAreSequences DEF Event

LEMMA NothingSent == << >> \in Seq(Event)
  OBVIOUS

LEMMA EmptyGroup == GroupOK(NoGroup) /\ Whole(NoGroup)
  BY DEF GroupOK, Whole, NoGroup, Range

(* COALESCE(MAX(sequence), 0) + 1 of rows that are numbered.               *)
LEMMA NextIsLast ==
  ASSUME NEW n \in Nat, {r.sequence : r \in rows} = 1..n
  PROVE  NextSequence = n + 1
<1> DEFINE taken == {r.sequence : r \in rows} \cup {0}
<1>1. taken = 0..n
  OBVIOUS
<1>2. \A m \in taken : (\A k \in taken : k <= m) => m = n
  BY <1>1
<1>3. n \in taken /\ \A k \in taken : k <= n
  BY <1>1
<1>4. (CHOOSE m \in taken : \A k \in taken : k <= m) = n
  <2> HIDE DEF taken
  <2> QED BY <1>2, <1>3
<1>5. NextSequence = 1 + n
  BY <1>4, Zenon DEF NextSequence
<1> QED BY <1>5

-----------------------------------------------------------------------------
(* The write of a whole group keeps the rows numbered and paired.          *)
LEMMA GroupKeepsRows ==
  ASSUME NEW g, g # NoGroup, GroupOK(g), Whole(g), Numbered, Paired,
         rows' = rows \cup GroupRows(g)
  PROVE  Numbered' /\ Paired'
<1>1. PICK n \in Nat : {r.sequence : r \in rows} = 1..n
  BY DEF Numbered
<1>2. NextSequence = n + 1
  BY <1>1, NextIsLast
<1> DEFINE k == Len(g.calls)
           said == [sequence |-> n + 1, group |-> g.mid, index |-> 0, entry |-> Said(g.calls)]
           reply(i) == [sequence |-> n + 1 + i, group |-> g.mid, index |-> i,
                        entry |-> Answered(g.calls[i], g.results[g.calls[i]])]
<1>3. k \in Nat /\ DOMAIN g.calls = 1..k /\ g.calls \in Seq(Call)
  BY DEF GroupOK
<1>4. rows' = rows \cup {said} \cup {reply(i) : i \in 1..k}
  BY <1>2, <1>3 DEF GroupRows
<1>5. said.sequence = n + 1 /\ \A i \in 1..k : reply(i).sequence = n + 1 + i
  OBVIOUS
<1>6. \A r \in rows : r.sequence \in 1..n
  BY <1>1
<1>7. said.entry = Said(g.calls) /\ Said(g.calls).role = "assistant"
      /\ Said(g.calls).calls = g.calls
  BY DEF Said, Asked
<1>8. \A i \in 1..k :
        /\ reply(i).group = g.mid
        /\ reply(i).entry.role = "tool"
        /\ reply(i).entry.call = g.calls[i]
        /\ reply(i).entry.result # Pending
  BY <1>3 DEF Answered, Asked, Whole, Range
<1>9. said.group = g.mid
  OBVIOUS
<1> HIDE DEF said, reply, k
<1>10. Numbered'
  <2>1. {r.sequence : r \in rows'} = 1..(n + 1 + k)
    <3>1. \A s \in 1..(n + 1 + k) : \E r \in rows' : r.sequence = s
      <4> SUFFICES ASSUME NEW s \in 1..(n + 1 + k)
                   PROVE  \E r \in rows' : r.sequence = s
        OBVIOUS
      <4>1. CASE s \in 1..n
        BY <4>1, <1>1, <1>4
      <4>2. CASE s = n + 1
        BY <4>2, <1>4, <1>5
      <4>3. CASE s > n + 1
        <5>1. s - (n + 1) \in 1..k /\ n + 1 + (s - (n + 1)) = s
          BY <4>3, <1>3
        <5> QED BY <5>1, <1>4, <1>5
      <4> QED BY <4>1, <4>2, <4>3, <1>3
    <3>2. \A r \in rows' : r.sequence \in 1..(n + 1 + k)
      BY <1>3, <1>4, <1>5, <1>6
    <3> QED BY <3>1, <3>2
  <2>2. \A q, r \in rows' : q.sequence = r.sequence => q = r
    <3> SUFFICES ASSUME NEW q \in rows', NEW r \in rows', q.sequence = r.sequence
                 PROVE  q = r
      OBVIOUS
    <3>1. CASE q \in rows /\ r \in rows
      BY <3>1 DEF Numbered
    <3>2. CASE q = said
      BY <3>2, <1>3, <1>4, <1>5, <1>6
    <3>3. CASE r = said
      BY <3>3, <1>3, <1>4, <1>5, <1>6
    <3>4. CASE q \in rows /\ \E i \in 1..k : r = reply(i)
      BY <3>4, <1>3, <1>5, <1>6
    <3>5. CASE r \in rows /\ \E i \in 1..k : q = reply(i)
      BY <3>5, <1>3, <1>5, <1>6
    <3>6. CASE (\E i \in 1..k : q = reply(i)) /\ (\E j \in 1..k : r = reply(j))
      BY <3>6, <1>3, <1>5
    <3> QED BY <1>4, <3>1, <3>2, <3>3, <3>4, <3>5, <3>6
  <2>3. n + 1 + k \in Nat
    BY <1>3
  <2> QED BY <2>1, <2>2, <2>3 DEF Numbered
<1>11. Paired'
  <2>1. ASSUME NEW r \in rows', r.entry.role = "assistant", NEW i \in DOMAIN r.entry.calls
        PROVE  \E q \in rows' : /\ q.sequence = r.sequence + i
                                /\ q.entry.call = r.entry.calls[i]
                                /\ q.entry.result # Pending
    <3>1. CASE r \in rows
      BY <3>1, <2>1, <1>4 DEF Paired
    <3>2. CASE r = said
      <4>1. i \in 1..k /\ reply(i) \in rows'
        BY <3>2, <1>3, <1>4, <1>7
      <4> QED BY <4>1, <3>2, <1>5, <1>7, <1>8
    <3>3. CASE \E j \in 1..k : r = reply(j)
      BY <3>3, <2>1, <1>8
    <3> QED BY <1>4, <3>1, <3>2, <3>3
  <2>2. ASSUME NEW q \in rows', q.entry.role = "tool"
        PROVE  \E r \in rows' : /\ r.entry.role = "assistant" /\ r.group = q.group
                                /\ q.sequence - r.sequence \in DOMAIN r.entry.calls
                                /\ r.entry.calls[q.sequence - r.sequence] = q.entry.call
    <3>1. CASE q \in rows
      BY <3>1, <2>2, <1>4 DEF Paired
    <3>2. CASE q = said
      BY <3>2, <2>2, <1>7
    <3>3. ASSUME NEW j \in 1..k, q = reply(j)
          PROVE  \E r \in rows' : /\ r.entry.role = "assistant" /\ r.group = q.group
                                  /\ q.sequence - r.sequence \in DOMAIN r.entry.calls
                                  /\ r.entry.calls[q.sequence - r.sequence] = q.entry.call
      <4>0. reply(j).sequence = n + 1 + j /\ said.sequence = n + 1
        BY <1>5
      <4>1. q.sequence - said.sequence = j
        BY <4>0, <3>3, <1>3
      <4>2. said \in rows' /\ said.group = q.group
        BY <3>3, <1>4, <1>8, <1>9
      <4>3. said.entry.role = "assistant" /\ said.entry.calls = g.calls
        BY <1>7
      <4>4. q.entry.call = g.calls[j] /\ j \in DOMAIN g.calls
        BY <3>3, <1>3, <1>8
      <4> QED BY <4>1, <4>2, <4>3, <4>4
    <3> QED BY <1>4, <3>1, <3>2, <3>3
  <2> QED BY <2>1, <2>2 DEF Paired
<1> QED BY <1>10, <1>11

-----------------------------------------------------------------------------
(* Steps that leave rows, groups and the position before the begin alone.  *)
LEMMA InvKept ==
  ASSUME Inv, wire' \in Seq(Event),
         UNCHANGED <<rows, pending, ready>>,
         (at' = "begin" /\ io' = "asked") => (at = "begin" /\ io = "asked")
  PROVE  Inv'
<1>1. GroupsOK'
  BY DEF Inv, GroupsOK, GroupOK, Whole
<1>2. Numbered' /\ Paired'
  BY DEF Inv, Numbered, Paired
<1>3. BeginsEmpty'
  BY DEF Inv, BeginsEmpty
<1> QED BY <1>1, <1>2, <1>3 DEF Inv

LEMMA BeginKeepsInv == Inv /\ BeginCommit => Inv'
<1> SUFFICES ASSUME Inv, BeginCommit PROVE Inv'
  OBVIOUS
<1>1. rows = {} /\ {r.sequence : r \in rows} = 1..0
  BY DEF Inv, BeginsEmpty, BeginCommit
<1>2. NextSequence = 1
  BY <1>1, NextIsLast
<1>3. rows' = {[sequence |-> 1, group |-> UserGroup, index |-> 0, entry |-> Asked]}
  BY <1>2 DEF BeginCommit, UserRow
<1>4. Numbered'
  <2>1. {r.sequence : r \in rows'} = 1..1
    BY <1>3
  <2> QED BY <2>1, <1>3 DEF Numbered
<1>5. Paired'
  BY <1>3 DEF Paired, Asked
<1>6. GroupsOK' /\ wire' \in Seq(Event)
  BY DEF BeginCommit, Inv, GroupsOK, GroupOK, Whole
<1>7. BeginsEmpty'
  BY DEF BeginCommit, BeginsEmpty
<1> QED BY <1>4, <1>5, <1>6, <1>7 DEF Inv

LEMMA CommitKeepsInv == Inv /\ EventCommit => Inv'
<1> SUFFICES ASSUME Inv, EventCommit PROVE Inv'
  OBVIOUS
<1>1. GroupsOK' /\ wire' \in Seq(Event)
  BY DEF EventCommit, Inv, GroupsOK, GroupOK, Whole
<1>2. BeginsEmpty'
  BY DEF EventCommit, BeginsEmpty
<1>3. Numbered' /\ Paired'
  <2>1. CASE ready = NoGroup
    <3>1. rows' = rows
      BY <2>1 DEF EventCommit, GroupRows
    <3> QED BY <3>1 DEF Inv, Numbered, Paired
  <2>2. CASE ready # NoGroup
    BY <2>2, GroupKeepsRows DEF EventCommit, Inv, GroupsOK
  <2> QED BY <2>1, <2>2
<1> QED BY <1>1, <1>2, <1>3 DEF Inv

-----------------------------------------------------------------------------
(* Reading an event: only the groups in memory change.                     *)
LEMMA ReadTakesEvent ==
  ASSUME Inv, NEW e, Read(e)
  PROVE  e \in Event /\ wire' \in Seq(Event) /\ rows' = rows
  BY DEF Inv, Read

LEMMA ReadKeepsInv ==
  ASSUME Inv, NEW e, Read(e), GroupsOK', at' # "begin"
  PROVE  Inv'
<1>1. wire' \in Seq(Event) /\ rows' = rows
  BY ReadTakesEvent
<1>2. Numbered' /\ Paired'
  BY <1>1 DEF Inv, Numbered, Paired
<1>3. BeginsEmpty'
  BY DEF BeginsEmpty
<1> QED BY <1>1, <1>2, <1>3 DEF Inv

LEMMA MessageKeepsInv ==
  ASSUME Inv, NEW e, ReadMessage(e)
  PROVE  Inv'
<1> DEFINE group == [mid |-> e.mid, calls |-> e.calls, results |-> NoGroup.results]
<1>1. Read(e) /\ at' # "begin"
  BY DEF ReadMessage, Ask
<1>2. e.calls \in Seq(Call)
  BY <1>1, ReadTakesEvent, EventsCarryCalls
<1>3. GroupOK(group) /\ group.calls = e.calls
  BY <1>2 DEF GroupOK, NoGroup
<1>4. GroupsOK'
  <2>1. CASE e.calls = << >>
    <3>1. ready' = group /\ pending' = pending
      BY <2>1 DEF ReadMessage, Ask
    <3>2. Whole(group)
      BY <2>1, <1>3 DEF Whole, Range
    <3> HIDE DEF group
    <3> QED BY <3>1, <3>2, <1>3 DEF Inv, GroupsOK, GroupOK, Whole
  <2>2. CASE e.calls # << >>
    <3>1. ready' = NoGroup
          /\ pending' = [m \in DOMAIN pending \cup {e.mid} |->
                           IF m = e.mid THEN group ELSE pending[m]]
      BY <2>2 DEF ReadMessage, Ask
    <3> HIDE DEF group
    <3>2. \A m \in DOMAIN pending' : 
          pending'[m] = group \/ (m \in DOMAIN pending /\ pending'[m] = pending[m])
      BY <3>1
    <3>3. \A m \in DOMAIN pending' : GroupOK(pending'[m])
      BY <3>2, <1>3 DEF Inv, GroupsOK
    <3> QED BY <3>1, <3>3, EmptyGroup DEF GroupsOK, GroupOK, Whole
  <2> QED BY <2>1, <2>2
<1> QED BY <1>1, <1>4, ReadKeepsInv

LEMMA ResultKeepsInv ==
  ASSUME Inv, NEW e, ReadResult(e)
  PROVE  Inv'
<1>1. Read(e) /\ at' # "begin"
  BY DEF ReadResult, Ask
<1>2. PICK m \in Holding(e.call) :
        LET group == [pending[m] EXCEPT !.results[e.call] = e.result] IN
        IF \A c \in Range(group.calls) : group.results[c] # Pending
        THEN Ask(e, group) /\ pending' = [k \in DOMAIN pending \ {m} |-> pending[k]]
        ELSE Ask(e, NoGroup) /\ pending' = [pending EXCEPT ![m] = group]
  BY DEF ReadResult
<1> DEFINE group == [pending[m] EXCEPT !.results[e.call] = e.result]
<1>3. m \in DOMAIN pending /\ GroupOK(pending[m])
  BY <1>2 DEF Holding, Inv, GroupsOK
<1>4. e.result \in Result \cup {Pending}
  BY <1>1, ReadTakesEvent, EventsCarryCalls
<1>5. GroupOK(group)
  <2> DEFINE g == pending[m]
             results == [g.results EXCEPT ![e.call] = e.result]
  <2>1. results \in [Call -> Result \cup {Pending}]
    BY <1>3, <1>4 DEF GroupOK
  <2>2. g = [mid |-> g.mid, calls |-> g.calls, results |-> g.results]
    BY <1>3 DEF GroupOK
  <2> HIDE DEF results
  <2>3. [g EXCEPT !.results = results] = [mid |-> g.mid, calls |-> g.calls, results |-> results]
    BY <2>2
  <2>4. group = [g EXCEPT !.results = results]
    BY DEF results
  <2>5. group = [mid |-> g.mid, calls |-> g.calls, results |-> results]
    BY <2>3, <2>4
  <2>6. g.calls \in Seq(Call)
    BY <1>3 DEF GroupOK
  <2> HIDE DEF group, g
  <2> QED BY <2>1, <2>5, <2>6 DEF GroupOK
<1>6. GroupsOK'
  <2>1. CASE Whole(group)
    <3>1. ready' = group /\ pending' = [k \in DOMAIN pending \ {m} |-> pending[k]]
      BY <2>1, <1>2 DEF Whole, Ask
    <3> HIDE DEF group
    <3>2. \A k \in DOMAIN pending' : GroupOK(pending'[k])
      BY <3>1 DEF Inv, GroupsOK
    <3> QED BY <3>1, <3>2, <2>1, <1>5 DEF GroupsOK, GroupOK, Whole
  <2>2. CASE ~Whole(group)
    <3>1. ready' = NoGroup /\ pending' = [pending EXCEPT ![m] = group]
      BY <2>2, <1>2 DEF Whole, Ask
    <3> HIDE DEF group
    <3>2. \A k \in DOMAIN pending' : GroupOK(pending'[k])
      BY <3>1, <1>5 DEF Inv, GroupsOK
    <3> QED BY <3>1, <3>2, EmptyGroup DEF GroupsOK, GroupOK, Whole
  <2> QED BY <2>1, <2>2
<1> QED BY <1>1, <1>6, ReadKeepsInv

(* The events that belong to no group.                                     *)
LEMMA OtherEventsKeepInv ==
  ASSUME Inv, NEW e, ReadRefused(e) \/ ReadTerminal(e) \/ ReadProgress(e)
  PROVE  Inv'
<1>1. Read(e) /\ at' # "begin" /\ pending' = pending /\ ready' \in {ready, NoGroup}
  BY DEF ReadRefused, ReadTerminal, ReadProgress, FinishAs, Ask
<1>2. GroupsOK'
  BY <1>1, EmptyGroup DEF Inv, GroupsOK, GroupOK, Whole
<1> QED BY <1>1, <1>2, ReadKeepsInv

(* The groups are dropped when the turn is over, or the write of one.      *)
LEMMA DroppingKeepsInv ==
  ASSUME Inv, EventTakenUp \/ WriteFails \/ FinishTakenUp \/ FinishFails
  PROVE  Inv'
<1>1. /\ rows' = rows
      /\ ready' \in {ready, NoGroup}
      /\ pending' \in {pending, << >>}
      /\ wire' \in {wire, << >>}
      /\ at' # "begin"
  BY DEF EventTakenUp, WriteFails, FinishTakenUp, FinishFails, Fail, CancelCall, Close, FinishAs
<1>2. GroupsOK'
  BY <1>1, EmptyGroup DEF Inv, GroupsOK, GroupOK, Whole
<1>3. Numbered' /\ Paired'
  BY <1>1 DEF Inv, Numbered, Paired
<1>4. wire' \in Seq(Event)
  BY <1>1, NothingSent DEF Inv
<1>5. BeginsEmpty'
  BY <1>1 DEF BeginsEmpty
<1> QED BY <1>2, <1>3, <1>4, <1>5 DEF Inv

(* Steps around the stream that touch neither rows nor groups.             *)
LEMMA ControlKeepsInv ==
  ASSUME Inv,
         \/ BeginTakenUp \/ ReadCancelled \/ StreamOver \/ FinishCommit
         \/ Cancel \/ ManagerFails \/ Recover \/ Peer \/ UNCHANGED streamVars
  PROVE  Inv'
<1>1. wire' \in Seq(Event)
  <2>1. wire' \in {wire, << >>} \/ wire' \in Seq(Event)
    BY DEF BeginTakenUp, ReadCancelled, StreamOver, FinishCommit, Cancel, ManagerFails,
           Recover, Peer, streamVars, Fail, CancelCall
  <2> QED BY <2>1, NothingSent DEF Inv
<1>2. UNCHANGED <<rows, pending, ready>>
  BY DEF BeginTakenUp, ReadCancelled, StreamOver, FinishCommit, Cancel, ManagerFails,
         Recover, Peer, streamVars, runtimeVars, Fail
<1>3. (at' = "begin" /\ io' = "asked") => (at = "begin" /\ io = "asked")
  BY DEF BeginTakenUp, ReadCancelled, StreamOver, FinishCommit, Cancel, ManagerFails,
         Recover, Peer, streamVars, runtimeVars, Fail, FinishAs
<1> QED BY <1>1, <1>2, <1>3, InvKept

-----------------------------------------------------------------------------
LEMMA InitInv == StreamInit => Inv
<1> SUFFICES ASSUME StreamInit PROVE Inv
  OBVIOUS
<1>1. GroupsOK
  BY EmptyGroup DEF StreamInit, RuntimeInit, GroupsOK
<1>2. Numbered
  <2>1. {r.sequence : r \in rows} = 1..0
    BY DEF StreamInit, RuntimeInit
  <2> QED BY <2>1 DEF Numbered, StreamInit, RuntimeInit
<1>3. Paired /\ BeginsEmpty /\ wire \in Seq(Event)
  BY DEF StreamInit, RuntimeInit, Paired, BeginsEmpty
<1> QED BY <1>1, <1>2, <1>3 DEF Inv

LEMMA NextInv == Inv /\ [RuntimeNext \/ Peer]_streamVars => Inv'
<1> SUFFICES ASSUME Inv, [RuntimeNext \/ Peer]_streamVars PROVE Inv'
  OBVIOUS
<1>1. CASE BeginCommit
  BY <1>1, BeginKeepsInv
<1>2. CASE EventCommit
  BY <1>2, CommitKeepsInv
<1>3. CASE OnEvent
  <2>1. PICK e : ReadRefused(e) \/ ReadTerminal(e) \/ ReadMessage(e) \/ ReadResult(e)
                 \/ ReadProgress(e)
    BY <1>3 DEF OnEvent
  <2> QED BY <2>1, OtherEventsKeepInv, MessageKeepsInv, ResultKeepsInv
<1>4. CASE EventTakenUp \/ WriteFails \/ FinishTakenUp \/ FinishFails
  BY <1>4, DroppingKeepsInv
<1>5. CASE \/ BeginTakenUp \/ ReadCancelled \/ StreamOver \/ FinishCommit
           \/ Cancel \/ ManagerFails \/ Recover \/ Peer \/ UNCHANGED streamVars
  BY <1>5, ControlKeepsInv
<1> QED BY <1>1, <1>2, <1>3, <1>4, <1>5 DEF RuntimeNext, RuntimeStep

(* Whatever the stream holds, wherever the turn stops and whichever write  *)
(* fails: the messages of a turn are numbered without a gap, and each      *)
(* message with tool calls is followed by exactly their results in order   *)
(* (_accept_model_message, _accept_tool_result, _save_group).              *)
THEOREM HistoriesArePaired == StreamSpec => []HistoryIsPaired
<1>1. Inv => HistoryIsPaired
  <2> SUFFICES ASSUME Inv PROVE HistoryIsPaired
    OBVIOUS
  <2>1. \A r \in rows : 1..r.sequence \subseteq {q.sequence : q \in rows}
    <3>1. PICK n \in Nat : {q.sequence : q \in rows} = 1..n
      BY DEF Inv, Numbered
    <3>2. \A r \in rows : r.sequence \in 1..n
      BY <3>1
    <3> QED BY <3>1, <3>2
  <2> QED BY <2>1 DEF Inv, Numbered, Paired, HistoryIsPaired
<1>2. StreamSpec => []Inv
  BY InitInv, NextInv, PTL DEF StreamSpec
<1> QED BY <1>1, <1>2, PTL
-----------------------------------------------------------------------------
(* What keeps a repeated message from becoming a failed transaction: a     *)
(* group on its way to the table is of a message without rows, and of the  *)
(* messages with rows the runtime remembers each (completed_groups).       *)
Remembered ==
  /\ at = "begin" => \A r \in rows : r.group = UserGroup
  /\ at \in {"reading", "event"} =>
       \A r \in rows : \/ r.group = UserGroup \/ r.group \in completed
                       \/ io = "committed" /\ ready # NoGroup /\ r.group = ready.mid

NewGroups ==
  /\ \A m \in DOMAIN pending : pending[m].mid = m /\ m \in Message /\ m \notin completed
  /\ ready # NoGroup =>
       /\ at = "event" /\ ready.mid \in Message
       /\ ready.mid \notin completed /\ ready.mid \notin DOMAIN pending

Spares == faults \in Nat /\ Remembered /\ NewGroups

LEMMA NewGroupIsInsertable ==
  ASSUME Inv, Remembered, NewGroups, at = "event", io = "asked"
  PROVE  Insertable(GroupRows(ready))
<1>1. CASE ready = NoGroup
  BY <1>1 DEF GroupRows, Insertable
<1>2. CASE ready # NoGroup
  <2>1. PICK n \in Nat : {r.sequence : r \in rows} = 1..n
    BY DEF Inv, Numbered
  <2>2. NextSequence = n + 1
    BY <2>1, NextIsLast
  <2>3. \A old \in rows : old.sequence \in 1..n
    BY <2>1
  <2>4. ready.calls \in Seq(Call)
    BY DEF Inv, GroupsOK, GroupOK
  <2>5. \A new \in GroupRows(ready) : new.group = ready.mid /\ new.sequence > n
    BY <1>2, <2>2, <2>4 DEF GroupRows
  <2>6. \A old \in rows : old.group # ready.mid
    <3>1. ready.mid # UserGroup
      BY <1>2, WireBounds DEF NewGroups, Message, UserGroup
    <3> QED BY <1>2, <3>1 DEF Remembered, NewGroups
  <2> QED BY <2>3, <2>5, <2>6 DEF Insertable
<1> QED BY <1>1, <1>2

(* Steps that leave the groups alone, and do not go on to the stream.      *)
LEMMA SparesKept ==
  ASSUME Spares, UNCHANGED <<rows, pending, completed>>,
         ready' \in {ready, NoGroup}, faults' \in Nat,
         at' \in {"begin", "reading", "event"} => at' = at /\ io' = io,
         ready' # NoGroup => at' = at /\ ready' = ready,
         at' \in {"reading", "event"} => ready' = ready
  PROVE  Spares'
<1>1. Remembered'
  BY DEF Spares, Remembered
<1>2. NewGroups'
  BY DEF Spares, NewGroups
<1> QED BY <1>1, <1>2 DEF Spares

LEMMA ReadSpares ==
  ASSUME Inv, Spares, NEW e, Read(e),
         ReadRefused(e) \/ ReadTerminal(e) \/ ReadMessage(e) \/ ReadResult(e) \/ ReadProgress(e)
  PROVE  Spares'
<1>1. /\ at = "reading" /\ UNCHANGED <<completed, rows, broken, faults>>
      /\ e \in Event
  BY ReadTakesEvent DEF Read
<1>2. faults' \in Nat
  BY <1>1 DEF Spares
<1>3. ready = NoGroup
  BY <1>1 DEF Spares, NewGroups
<1>4. \A r \in rows : r.group = UserGroup \/ r.group \in completed
  BY <1>1, <1>3 DEF Spares, Remembered
<1>5. at' \in {"event", "finish"}
  BY DEF ReadRefused, ReadTerminal, ReadMessage, ReadResult, ReadProgress, FinishAs, Ask
<1>6. Remembered'
  BY <1>1, <1>4, <1>5 DEF Remembered
<1>7. NewGroups'
  <2>1. CASE ReadRefused(e) \/ ReadTerminal(e) \/ ReadProgress(e)
    <3>1. ready' = NoGroup /\ pending' = pending
      BY <1>3, <2>1 DEF ReadRefused, ReadTerminal, ReadProgress, Ask
    <3> QED BY <1>1, <3>1 DEF Spares, NewGroups
  <2>2. CASE ReadMessage(e)
    <3> DEFINE group == [mid |-> e.mid, calls |-> e.calls, results |-> NoGroup.results]
    <3>1. /\ e.mid \in Message /\ e.mid \notin completed /\ e.mid \notin DOMAIN pending
          /\ at' = "event"
      BY <1>1, <2>2 DEF ReadMessage, BreaksProtocol, Ask, Event
    <3>2. group.mid = e.mid
      OBVIOUS
    <3>3. \/ ready' = group /\ pending' = pending
          \/ /\ ready' = NoGroup
             /\ pending' = [m \in DOMAIN pending \cup {e.mid} |->
                              IF m = e.mid THEN group ELSE pending[m]]
      BY <2>2 DEF ReadMessage, Ask
    <3> HIDE DEF group
    <3> QED BY <1>1, <3>1, <3>2, <3>3 DEF Spares, NewGroups
  <2>3. CASE ReadResult(e)
    <3>1. PICK m \in Holding(e.call) :
            LET group == [pending[m] EXCEPT !.results[e.call] = e.result] IN
            IF \A c \in Range(group.calls) : group.results[c] # Pending
            THEN Ask(e, group) /\ pending' = [k \in DOMAIN pending \ {m} |-> pending[k]]
            ELSE Ask(e, NoGroup) /\ pending' = [pending EXCEPT ![m] = group]
      BY <2>3 DEF ReadResult
    <3> DEFINE group == [pending[m] EXCEPT !.results[e.call] = e.result]
    <3>2. m \in DOMAIN pending /\ GroupOK(pending[m]) /\ pending[m].mid = m
      BY <3>1 DEF Holding, Inv, GroupsOK, Spares, NewGroups
    <3>3. group.mid = m
      BY <3>2 DEF GroupOK
    <3>4. /\ at' = "event"
          /\ \/ ready' = group /\ pending' = [k \in DOMAIN pending \ {m} |-> pending[k]]
             \/ ready' = NoGroup /\ pending' = [pending EXCEPT ![m] = group]
      BY <3>1 DEF Ask
    <3> HIDE DEF group
    <3> QED BY <1>1, <3>2, <3>3, <3>4 DEF Spares, NewGroups
  <2> QED BY <2>1, <2>2, <2>3
<1> QED BY <1>2, <1>6, <1>7 DEF Spares

LEMMA WriteSpares ==
  ASSUME Inv, Spares, BeginCommit \/ BeginTakenUp \/ EventCommit \/ EventTakenUp
  PROVE  Spares'
<1>1. UNCHANGED <<broken, faults, pending>>
  BY DEF BeginCommit, BeginTakenUp, EventCommit, EventTakenUp
<1>2. faults' \in Nat
  BY <1>1 DEF Spares
<1>3. CASE BeginCommit
  <2>1. at' = "begin" /\ rows' = {UserRow} /\ UserRow.group = UserGroup
        /\ UNCHANGED <<at, completed, ready>>
    BY <1>3 DEF BeginCommit, UserRow
  <2> QED BY <1>1, <1>2, <2>1 DEF Spares, Remembered, NewGroups
<1>4. CASE BeginTakenUp
  <2>1. at = "begin" /\ at' \in {"reading", "finish"} /\ UNCHANGED <<rows, completed, ready>>
    BY <1>4 DEF BeginTakenUp, FinishAs
  <2> QED BY <1>1, <1>2, <2>1 DEF Spares, Remembered, NewGroups
<1>5. CASE EventCommit
  <2>1. /\ at = "event" /\ at' = "event" /\ io' = "committed" /\ UNCHANGED <<completed, ready>>
        /\ rows' = rows \cup GroupRows(ready) /\ io = "asked"
    BY <1>5 DEF EventCommit
  <2>2. \A r \in GroupRows(ready) : ready # NoGroup /\ r.group = ready.mid
    BY DEF GroupRows
  <2>3. \A r \in rows' : \/ r.group = UserGroup \/ r.group \in completed
                         \/ ready # NoGroup /\ r.group = ready.mid
    BY <2>1, <2>2 DEF Spares, Remembered
  <2> QED BY <1>1, <1>2, <2>1, <2>3 DEF Spares, Remembered, NewGroups
<1>6. CASE EventTakenUp
  <2>1. /\ at = "event" /\ io = "committed" /\ at' = "reading" /\ rows' = rows /\ ready' = NoGroup
        /\ completed' = IF ready = NoGroup THEN completed ELSE completed \cup {ready.mid}
    BY <1>6 DEF EventTakenUp
  <2> QED BY <1>1, <1>2, <2>1 DEF Spares, Remembered, NewGroups
<1> QED BY <1>3, <1>4, <1>5, <1>6

LEMMA FaultSpares ==
  ASSUME Inv, Spares, WriteFails \/ FinishFails \/ ManagerFails
  PROVE  Spares'
<1>1. UNCHANGED <<rows, pending, completed>>
  BY DEF WriteFails, FinishFails, ManagerFails, Close
<1>4. faults' \in Nat
  <2>1. faults' \in {faults, faults + 1}
    BY DEF WriteFails, FinishFails, ManagerFails, Fail
  <2> QED BY <2>1 DEF Spares
<1>5. CASE WriteFails
  <2>1. at' = "finish" /\ ready' = NoGroup
    BY <1>5 DEF WriteFails, FinishAs
  <2> QED BY <1>1, <1>4, <2>1, SparesKept
<1>6. CASE FinishFails
  <2>1. at = "finish" /\ at' = "closed" /\ ready' = ready
    BY <1>6 DEF FinishFails, Close
  <2>2. ready = NoGroup
    BY <2>1 DEF Spares, NewGroups
  <2> QED BY <1>1, <1>4, <2>1, <2>2, SparesKept
<1>7. CASE ManagerFails
  <2>1. at' = at /\ ready' = ready /\ io' = io
    BY <1>7 DEF ManagerFails
  <2> QED BY <1>1, <1>4, <2>1, SparesKept
<1> QED BY <1>5, <1>6, <1>7

LEMMA ControlSpares ==
  ASSUME Spares,
         \/ ReadCancelled \/ StreamOver \/ FinishCommit \/ FinishTakenUp
         \/ Cancel \/ Recover \/ Peer \/ UNCHANGED streamVars
  PROVE  Spares'
<1>1. UNCHANGED <<rows, ready, broken, faults>>
  BY DEF ReadCancelled, StreamOver, FinishCommit, FinishTakenUp, Close, Cancel, Recover,
         Peer, streamVars, runtimeVars
<1>2. faults' \in Nat
  BY <1>1 DEF Spares
<1>3. CASE FinishTakenUp
  <2>1. at = "finish" /\ at' = "closed" /\ pending' = << >> /\ completed' = {}
    BY <1>3 DEF FinishTakenUp, Close
  <2> QED BY <1>1, <1>2, <2>1 DEF Spares, Remembered, NewGroups
<1>4. CASE ReadCancelled \/ StreamOver \/ FinishCommit
  <2>1. at # "event" /\ at' = "finish" /\ UNCHANGED <<pending, completed>>
    BY <1>4 DEF ReadCancelled, StreamOver, FinishCommit, FinishAs
  <2> QED BY <1>1, <1>2, <2>1 DEF Spares, Remembered, NewGroups
<1>5. CASE Cancel \/ Recover \/ Peer \/ UNCHANGED streamVars
  <2>1. UNCHANGED <<at, io, pending, completed>>
    BY <1>5 DEF Cancel, Recover, Peer, streamVars, runtimeVars
  <2> QED BY <1>1, <1>2, <2>1, SparesKept
<1> QED BY <1>3, <1>4, <1>5

LEMMA InitSpares == StreamInit => Spares
  BY EmptyGroup DEF StreamInit, RuntimeInit, Spares, Remembered, NewGroups

LEMMA NextSpares ==
  Inv /\ Spares /\ [RuntimeNext \/ Peer]_streamVars => Spares'
<1> SUFFICES ASSUME Inv, Spares, [RuntimeNext \/ Peer]_streamVars PROVE Spares'
  OBVIOUS
<1>1. CASE OnEvent
  <2>1. PICK e : ReadRefused(e) \/ ReadTerminal(e) \/ ReadMessage(e) \/ ReadResult(e)
                 \/ ReadProgress(e)
    BY <1>1 DEF OnEvent
  <2>2. Read(e)
    BY <2>1 DEF ReadRefused, ReadTerminal, ReadMessage, ReadResult, ReadProgress
  <2> QED BY <2>1, <2>2, ReadSpares
<1> QED
  BY <1>1, WriteSpares, FaultSpares, ControlSpares DEF RuntimeNext, RuntimeStep

(* A transaction without a fault is refused for a result that is not JSON, *)
(* and nothing else: its rows never conflict.                              *)
LEMMA WhatBreaks ==
  ASSUME Inv, Spares, [RuntimeNext \/ Peer]_streamVars, broken' # broken
  PROVE  faults' > faults \/ ~Parses(ready) \/ ~Shows(event)
<1>1. WriteFails \/ FinishFails \/ ManagerFails
  <2>1. CASE OnEvent
    <3>1. PICK e : ReadRefused(e) \/ ReadTerminal(e) \/ ReadMessage(e) \/ ReadResult(e)
                   \/ ReadProgress(e)
      BY <2>1 DEF OnEvent
    <3> QED BY <3>1 DEF ReadRefused, ReadTerminal, ReadMessage, ReadResult, ReadProgress, Read
  <2> QED
    BY <2>1 DEF RuntimeNext, RuntimeStep, BeginCommit, BeginTakenUp, ReadCancelled, StreamOver,
       EventCommit, EventTakenUp, FinishCommit, FinishTakenUp, Close, Cancel, Recover, Peer,
       streamVars, runtimeVars
<1>2. faults \in Nat
  BY DEF Spares
<1>3. CASE FinishFails \/ ManagerFails
  <2>1. faults' = faults + 1
    BY <1>3 DEF FinishFails, ManagerFails, Fail
  <2> QED BY <1>2, <2>1
<1>4. CASE WriteFails
  <2>1. CASE at = "begin" /\ io = "asked" /\ Fail(TRUE)
    <3>1. faults' = faults + 1
      BY <2>1 DEF Fail
    <3> QED BY <1>2, <3>1
  <2>2. CASE /\ at = "event" /\ io = "asked"
             /\ Fail(Insertable(GroupRows(ready)) /\ Parses(ready))
    <3>1. Insertable(GroupRows(ready))
      BY <2>2, NewGroupIsInsertable DEF Spares
    <3>2. Parses(ready) => faults' = faults + 1
      BY <2>2, <3>1 DEF Fail
    <3> QED BY <1>2, <3>2
  <2>3. CASE ~Shows(event)
    BY <2>3
  <2> QED BY <1>4, <2>1, <2>2, <2>3 DEF WriteFails
<1> QED BY <1>1, <1>3, <1>4

(* Of all a peer can send, only a result that is not JSON and an event of  *)
(* the backend's own break the manager when the database does not fail:    *)
(* the unique indexes of chat_messages would turn a repeated message into  *)
(* a failed transaction, and that into a broken session, but               *)
(* completed_groups refuses it before (_accept_model_message, fail).       *)
THEOREM StreamsSpareSessions == StreamSpec => StreamSparesSession
<1>1. Inv /\ Spares /\ [RuntimeNext \/ Peer]_streamVars =>
        [broken' /\ ~broken => faults' > faults \/ ~Parses(ready) \/ ~Shows(event)]_runtimeVars
  <2> SUFFICES ASSUME Inv, Spares, [RuntimeNext \/ Peer]_streamVars, broken', ~broken
               PROVE  faults' > faults \/ ~Parses(ready) \/ ~Shows(event)
    OBVIOUS
  <2>1. broken' # broken
    OBVIOUS
  <2> QED BY <2>1, WhatBreaks
<1>2. StreamSpec => [](Inv /\ Spares)
  BY InitInv, NextInv, InitSpares, NextSpares, PTL DEF StreamSpec
<1> QED BY <1>1, <1>2, PTL DEF StreamSpec, StreamSparesSession

-----------------------------------------------------------------------------
(* The types of the runtime's state, and of the stream.  A runtime that    *)
(* closes its turn has decided its final status.                           *)
StreamTypes ==
  /\ RuntimeTypeOK
  /\ at = "finish" => final \in Final
  /\ rpc \in {"none", "open", "ended", "broken", "cancelled"}
  /\ wire \in Seq(Event)

LEMMA CallsHaveLengths ==
  ASSUME NEW s \in Calls
  PROVE  s \in Seq(Call) /\ Len(s) \in 0..MaxCalls /\ DOMAIN s = 1..Len(s)
<1>1. PICK k \in 0..MaxCalls : s \in [1..k -> Call]
  BY DEF Calls
<1>2. k \in Nat
  BY WireBounds
<1> QED BY <1>1, <1>2

LEMMA NoCallsAreCalls == << >> \in Calls /\ NoEvent \in Event
<1>1. << >> \in [1..0 -> Call] /\ 0 \in 0..MaxCalls
  BY WireBounds
<1>2. << >> \in Calls
  BY <1>1 DEF Calls
<1> QED BY <1>2 DEF NoEvent, Other, Event, EventType

LEMMA GroupRowsType ==
  ASSUME StreamTypes, Inv
  PROVE  GroupRows(ready) \subseteq Row
<1>1. PICK n \in Nat : {r.sequence : r \in rows} = 1..n
  BY DEF Inv, Numbered
<1>2. NextSequence = n + 1
  BY <1>1, NextIsLast
<1>3. CASE ready = NoGroup
  BY <1>3 DEF GroupRows
<1>4. CASE ready # NoGroup
  <2>1. /\ ready.mid \in Message /\ ready.calls \in Calls
        /\ ready.results \in [Call -> Result \cup {Pending}]
    BY <1>4 DEF StreamTypes, RuntimeTypeOK, Group, Results
  <2>2. DOMAIN ready.calls \subseteq 0..MaxCalls /\ DOMAIN ready.calls \subseteq Nat
        /\ \A i \in DOMAIN ready.calls : ready.calls[i] \in Call
    BY <2>1, CallsHaveLengths, WireBounds
  <2>3. Said(ready.calls) \in
          [role : {"user", "assistant", "tool"}, calls : Calls,
           call : Call \cup {NoCall}, result : Result \cup {Pending}]
    BY <2>1 DEF Said, Asked
  <2>4. \A i \in DOMAIN ready.calls :
          Answered(ready.calls[i], ready.results[ready.calls[i]]) \in
            [role : {"user", "assistant", "tool"}, calls : Calls,
             call : Call \cup {NoCall}, result : Result \cup {Pending}]
    BY <2>1, <2>2, NoCallsAreCalls DEF Answered, Asked
  <2>5. 0 \in 0..MaxCalls
    BY WireBounds
  <2>6. ASSUME NEW r \in GroupRows(ready) PROVE r \in Row
    <3>1. \/ r = [sequence |-> n + 1, group |-> ready.mid, index |-> 0,
                  entry |-> Said(ready.calls)]
          \/ \E i \in DOMAIN ready.calls :
               r = [sequence |-> n + 1 + i, group |-> ready.mid, index |-> i,
                    entry |-> Answered(ready.calls[i], ready.results[ready.calls[i]])]
      BY <1>2, <1>4 DEF GroupRows
    <3> QED BY <2>1, <2>2, <2>3, <2>4, <2>5, <3>1 DEF Row
  <2> QED BY <2>6
<1> QED BY <1>3, <1>4

LEMMA ReadTypes ==
  ASSUME StreamTypes, NEW e, Read(e),
         ReadRefused(e) \/ ReadTerminal(e) \/ ReadMessage(e) \/ ReadResult(e) \/ ReadProgress(e)
  PROVE  StreamTypes'
<1>1. /\ e \in Event /\ wire' \in Seq(Event)
      /\ UNCHANGED <<rpc, completed, lastSeq, cancelRequested, rows, turnRow, broken, faults>>
  BY DEF Read, StreamTypes
<1>2. CASE ReadRefused(e) \/ ReadTerminal(e)
  BY <1>1, <1>2 DEF ReadRefused, ReadTerminal, FinishAs, StreamTypes, RuntimeTypeOK, Final
<1>3. CASE ReadProgress(e)
  BY <1>1, <1>3 DEF ReadProgress, Ask, StreamTypes, RuntimeTypeOK
<1>4. CASE ReadMessage(e)
  <2> DEFINE group == [mid |-> e.mid, calls |-> e.calls, results |-> NoGroup.results]
  <2>1. group \in Group /\ e.mid \in Message
    BY <1>1, <1>4 DEF ReadMessage, BreaksProtocol, Event, Group, Results, NoGroup
  <2>2. /\ at' = "event" /\ io' = "asked" /\ event' = e /\ UNCHANGED <<final, refused>>
        /\ \/ ready' = group /\ pending' = pending
           \/ /\ ready' = NoGroup
              /\ pending' = [m \in DOMAIN pending \cup {e.mid} |->
                               IF m = e.mid THEN group ELSE pending[m]]
    BY <1>4 DEF ReadMessage, Ask
  <2> HIDE DEF group
  <2> QED BY <1>1, <2>1, <2>2 DEF StreamTypes, RuntimeTypeOK
<1>5. CASE ReadResult(e)
  <2>1. PICK m \in Holding(e.call) :
          LET group == [pending[m] EXCEPT !.results[e.call] = e.result] IN
          IF \A c \in Range(group.calls) : group.results[c] # Pending
          THEN Ask(e, group) /\ pending' = [k \in DOMAIN pending \ {m} |-> pending[k]]
          ELSE Ask(e, NoGroup) /\ pending' = [pending EXCEPT ![m] = group]
    BY <1>5 DEF ReadResult
  <2> DEFINE group == [pending[m] EXCEPT !.results[e.call] = e.result]
  <2>2. m \in DOMAIN pending /\ pending[m] \in Group
    BY <2>1 DEF Holding, StreamTypes, RuntimeTypeOK
  <2>3. group \in Group
    <3>1. e.result \in Result \cup {Pending}
      BY <1>1 DEF Event
    <3>2. [pending[m].results EXCEPT ![e.call] = e.result] \in Results
      BY <2>2, <3>1 DEF Group, Results
    <3> QED BY <2>2, <3>2 DEF Group
  <2>4. /\ at' = "event" /\ io' = "asked" /\ event' = e /\ UNCHANGED <<final, refused>>
        /\ \/ ready' = group /\ pending' = [k \in DOMAIN pending \ {m} |-> pending[k]]
           \/ ready' = NoGroup /\ pending' = [pending EXCEPT ![m] = group]
    BY <2>1 DEF Ask
  <2> HIDE DEF group
  <2> QED BY <1>1, <2>2, <2>3, <2>4 DEF StreamTypes, RuntimeTypeOK
<1> QED BY <1>2, <1>3, <1>4, <1>5

LEMMA FailTypes ==
  ASSUME StreamTypes, NEW b \in BOOLEAN, Fail(b)
  PROVE  /\ faults' \in 0..MaxFaults /\ broken' \in BOOLEAN /\ cancelRequested' \in BOOLEAN
         /\ rpc' \in {"none", "open", "ended", "broken", "cancelled"} /\ wire' \in Seq(Event)
  BY WireBounds DEF Fail, CancelCall, StreamTypes, RuntimeTypeOK

LEMMA StepTypes ==
  Inv /\ StreamTypes /\ [RuntimeNext \/ Peer]_streamVars => StreamTypes'
<1> SUFFICES ASSUME Inv, StreamTypes, [RuntimeNext \/ Peer]_streamVars PROVE StreamTypes'
  OBVIOUS
<1>1. CASE OnEvent
  <2>1. PICK e : ReadRefused(e) \/ ReadTerminal(e) \/ ReadMessage(e) \/ ReadResult(e)
                 \/ ReadProgress(e)
    BY <1>1 DEF OnEvent
  <2>2. Read(e)
    BY <2>1 DEF ReadRefused, ReadTerminal, ReadMessage, ReadResult, ReadProgress
  <2> QED BY <2>1, <2>2, ReadTypes
<1>2. CASE BeginCommit
  <2>1. NextSequence \in Nat
    <3>1. rows = {} /\ {r.sequence : r \in rows} = 1..0
      BY <1>2 DEF Inv, BeginsEmpty, BeginCommit
    <3> QED BY <3>1, NextIsLast
  <2>2. UserRow \in Row
    <3>1. 0 \in 0..MaxCalls
      BY WireBounds
    <3> QED BY <2>1, <3>1, NoCallsAreCalls DEF UserRow, Row, Asked
  <2> QED BY <1>2, <2>2 DEF BeginCommit, StreamTypes, RuntimeTypeOK
<1>3. CASE EventCommit
  BY <1>3, GroupRowsType DEF EventCommit, StreamTypes, RuntimeTypeOK
<1>4. CASE EventTakenUp
  <2>1. ready # NoGroup => ready.mid \in Message
    BY DEF StreamTypes, RuntimeTypeOK, Group
  <2>2. event.seq \in Nat
    BY DEF StreamTypes, RuntimeTypeOK, Event
  <2>3. completed' \subseteq Message /\ lastSeq' \in Nat /\ event' \in Event
    BY <1>4, <2>1, <2>2, NoCallsAreCalls DEF EventTakenUp, StreamTypes, RuntimeTypeOK
  <2>4. /\ at' = "reading" /\ ready' = NoGroup
        /\ UNCHANGED <<wire, rpc, io, pending, final, refused, cancelRequested, rows, turnRow,
                       broken, faults>>
    BY <1>4 DEF EventTakenUp
  <2> QED BY <2>3, <2>4 DEF StreamTypes, RuntimeTypeOK
<1>5. CASE BeginTakenUp \/ ReadCancelled \/ StreamOver \/ FinishCommit \/ Recover
  <2>1. /\ UNCHANGED <<wire, event, ready, pending, completed, lastSeq, refused,
                       cancelRequested, rows, broken, faults>>
        /\ rpc' \in {rpc, "open"}
    BY <1>5 DEF BeginTakenUp, ReadCancelled, StreamOver, FinishCommit, Recover
  <2>2. /\ at' \in {at, "finish", "reading"} /\ io' \in {io, "asked", "committed"}
        /\ final' \in {final, "cancelled", "failed"} /\ turnRow' \in {turnRow, final, "failed"}
    BY <1>5 DEF BeginTakenUp, ReadCancelled, StreamOver, FinishCommit, Recover, FinishAs
  <2>3. turnRow' \in Final \cup {"none", "in_progress"}
    <3>1. CASE FinishCommit
      BY <3>1 DEF FinishCommit, StreamTypes, RuntimeTypeOK, Final
    <3>2. CASE ~FinishCommit
      BY <1>5, <3>2 DEF BeginTakenUp, ReadCancelled, StreamOver, Recover, StreamTypes,
                        RuntimeTypeOK, Final
    <3> QED BY <3>1, <3>2
  <2>4. at' = "finish" => final' \in Final
    BY <1>5 DEF BeginTakenUp, ReadCancelled, StreamOver, FinishCommit, Recover, FinishAs,
                StreamTypes, Final
  <2> QED BY <2>1, <2>2, <2>3, <2>4 DEF StreamTypes, RuntimeTypeOK, Final
<1>6. CASE FinishTakenUp \/ Cancel
  <2>1. /\ wire' = << >> /\ rpc' \in {"none", "cancelled"}
        /\ UNCHANGED <<io, event, ready, lastSeq, final, refused, rows, turnRow, broken, faults>>
        /\ cancelRequested' \in BOOLEAN
    BY <1>6 DEF FinishTakenUp, Cancel, Close, CancelCall, StreamTypes, RuntimeTypeOK
  <2>2. \/ at' = "closed" /\ pending' = << >> /\ completed' = {}
        \/ UNCHANGED <<at, pending, completed>>
    BY <1>6 DEF FinishTakenUp, Cancel, Close
  <2> QED BY <2>1, <2>2 DEF StreamTypes, RuntimeTypeOK
<1>7. CASE WriteFails \/ FinishFails \/ ManagerFails
  <2>1. \E b \in BOOLEAN : Fail(b)
    BY <1>7 DEF WriteFails, FinishFails, ManagerFails
  <2>2. /\ faults' \in 0..MaxFaults /\ broken' \in BOOLEAN /\ cancelRequested' \in BOOLEAN
        /\ rpc' \in {"none", "open", "ended", "broken", "cancelled"} /\ wire' \in Seq(Event)
    BY <2>1, FailTypes
  <2> QED
    BY <1>7, <2>2, NoCallsAreCalls
       DEF WriteFails, FinishFails, ManagerFails, FinishAs, Close, StreamTypes, RuntimeTypeOK, Final
<1>8. CASE Peer \/ UNCHANGED streamVars
  BY <1>8 DEF Peer, streamVars, runtimeVars, StreamTypes, RuntimeTypeOK
<1> QED
  BY <1>1, <1>2, <1>3, <1>4, <1>5, <1>6, <1>7, <1>8 DEF RuntimeNext, RuntimeStep

LEMMA InitStreamTypes == StreamInit => StreamTypes
<1> SUFFICES ASSUME StreamInit PROVE StreamTypes
  OBVIOUS
<1>1. 0 \in 0..MaxFaults
  BY WireBounds
<1>2. DOMAIN pending = {} /\ wire \in Seq(Event)
  BY DEF StreamInit, RuntimeInit
<1> QED
  BY <1>1, <1>2, NoCallsAreCalls DEF StreamInit, RuntimeInit, StreamTypes, RuntimeTypeOK

(* Every variable of the runtime keeps its type, whatever is sent: groups  *)
(* are of messages the protocol can name, rows fit the table.              *)
THEOREM RuntimeTypes == StreamSpec => []RuntimeTypeOK
<1>1. StreamTypes => RuntimeTypeOK
  BY DEF StreamTypes
<1>2. StreamSpec => [](Inv /\ StreamTypes)
  BY InitStreamTypes, InitInv, NextInv, StepTypes, PTL DEF StreamSpec
<1> QED BY <1>1, <1>2, PTL
=============================================================================
