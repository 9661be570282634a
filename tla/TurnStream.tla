----------------------------- MODULE TurnStream -----------------------------
(***************************************************************************)
(* How a TurnRuntime turns the agent's events into the turn's messages     *)
(* (backend/services/turn_runtime.py, backend/crud/crud.py): it checks the *)
(* stream, keeps a message with tool calls until each has its result, and  *)
(* stores the group in one transaction.  One turn; the stream may hold any *)
(* event.  What the manager does beside the runtime is the subject of      *)
(* SessionTurns; here it can only cancel it, break and recover the turn.   *)
(***************************************************************************)
EXTENDS TurnWire, Functions

VARIABLES
  at,        \* the runtime: begin, reading, event, finish, closed
  io,        \* its write: asked (of the thread), committed (not taken up)
  event,     \* the event that is written, and
  ready,     \* the group that is complete with it
  pending,   \* pending_groups: groups by message identifier
  completed, \* completed_groups
  lastSeq,   \* last_seq
  final,     \* runtime.status: queued, or the final status
  refused,   \* the stream was found to break the protocol (runtime.error)
  cancelRequested,
  rows,      \* chat_messages of the turn
  turnRow,   \* chat_turns.status: none, in_progress or final
  broken,    \* manager.broken
  faults     \* failing database calls so far

runtimeVars == <<at, io, event, ready, pending, completed, lastSeq, final, refused,
                 cancelRequested, rows, turnRow, broken, faults>>

Final == {"completed", "failed", "cancelled"}
UserGroup == MaxMessages + 1

Results == [Call -> Result \cup {Pending}]
Group == [mid : Message, calls : Calls, results : Results]
NoGroup == [mid |-> NoMessage, calls |-> << >>, results |-> [c \in Call |-> Pending]]
NoEvent == Other("other")

(* sequence, group_id, group_index and what the row says.                  *)
Row == [sequence : Nat, group : Message \cup {UserGroup}, index : 0..MaxCalls,
        entry : [role : {"user", "assistant", "tool"}, calls : Calls,
                 call : Call \cup {NoCall}, result : Result \cup {Pending}]]

RuntimeTypeOK ==
  /\ at \in {"begin", "reading", "event", "finish", "closed"}
  /\ io \in {"asked", "committed"}
  /\ event \in Event
  /\ ready \in Group \cup {NoGroup}
  /\ DOMAIN pending \subseteq Message
  /\ \A m \in DOMAIN pending : pending[m] \in Group
  /\ completed \subseteq Message
  /\ lastSeq \in Nat
  /\ final \in Final \cup {"queued"}
  /\ refused \in BOOLEAN /\ cancelRequested \in BOOLEAN /\ broken \in BOOLEAN
  /\ rows \subseteq Row
  /\ turnRow \in Final \cup {"none", "in_progress"}
  /\ faults \in 0..MaxFaults

RuntimeInit ==
  /\ at = "begin" /\ io = "asked"
  /\ event = NoEvent /\ ready = NoGroup
  /\ pending = << >> /\ completed = {} /\ lastSeq = 0
  /\ final = "queued" /\ refused = FALSE /\ cancelRequested = FALSE
  /\ rows = {} /\ turnRow = "none"
  /\ broken = FALSE /\ faults = 0

-----------------------------------------------------------------------------
(* crud: the next sequence of the turn, and the unique indexes of the      *)
(* table.                                                                  *)
NextSequence ==
  LET taken == {r.sequence : r \in rows} \cup {0}
  IN 1 + CHOOSE n \in taken : \A k \in taken : k <= n

Insertable(new) ==
  \A old \in rows, r \in new :
    /\ old.sequence # r.sequence
    /\ old.group = r.group => old.index # r.index

(* Mutant of GroupRows: the results in the order of their arrival, which   *)
(* for two calls may be the other one.                                     *)
GroupRowsSwapped(g) ==
  LET n == Len(g.calls) IN
  IF g = NoGroup THEN {}
  ELSE {[sequence |-> NextSequence, group |-> g.mid, index |-> 0, entry |-> Said(g.calls)]}
       \cup {[sequence |-> NextSequence + n + 1 - i, group |-> g.mid, index |-> i,
              entry |-> Answered(g.calls[i], g.results[g.calls[i]])] : i \in DOMAIN g.calls}

(* _save_group: the message, then the results in the order of its calls.   *)
GroupRows(g) ==
  IF g = NoGroup THEN {}
  ELSE {[sequence |-> NextSequence, group |-> g.mid, index |-> 0, entry |-> Said(g.calls)]}
       \cup {[sequence |-> NextSequence + i, group |-> g.mid, index |-> i,
              entry |-> Answered(g.calls[i], g.results[g.calls[i]])] : i \in DOMAIN g.calls}

(* json.loads of each result, inside the transaction of the group.         *)
Parses(g) == \A c \in Range(g.calls) : g.results[c] # "garbled"

(* TurnView.apply raises for a message.created without the fields that the *)
(* backend gives its own.                                                  *)
Shows(e) == e.type # "created"

(* The begin transaction stores the question.                              *)
UserRow == [sequence |-> NextSequence, group |-> UserGroup, index |-> 0, entry |-> Asked]

(* _finish: the final status is decided, its write is asked for.           *)
FinishAs(status) ==
  /\ at' = "finish" /\ io' = "asked"
  /\ final' = status

(* call.cancel(): what is under way is lost. *)
CancelCall ==
  /\ rpc' = IF rpc = "none" THEN "none" ELSE "cancelled"
  /\ wire' = << >>

(* A transaction fails: manager.fail() cancels the runtime.                *)
Fail(mustBeFault) ==
  /\ mustBeFault => faults < MaxFaults
  /\ faults' = IF mustBeFault THEN faults + 1 ELSE faults
  /\ broken' = TRUE
  /\ cancelRequested' = TRUE
  /\ CancelCall

-----------------------------------------------------------------------------
BeginCommit ==
  /\ at = "begin" /\ io = "asked"
  /\ io' = "committed"
  /\ turnRow' = "in_progress"
  /\ rows' = {UserRow}
  /\ UNCHANGED <<wire, rpc, at, event, ready, pending, completed, lastSeq, final, refused,
                 cancelRequested, broken, faults>>

(* The call is opened, unless the turn was cancelled meanwhile.            *)
BeginTakenUp ==
  /\ at = "begin" /\ io = "committed"
  /\ IF cancelRequested THEN FinishAs("cancelled") /\ UNCHANGED rpc
     ELSE at' = "reading" /\ rpc' = "open" /\ UNCHANGED <<io, final>>
  /\ UNCHANGED <<wire, event, ready, pending, completed, lastSeq, refused,
                 cancelRequested, rows, turnRow, broken, faults>>

-----------------------------------------------------------------------------
(* _on_event.                                                              *)

(* A stream that was cancelled yields at most events that are not looked at *)
ReadCancelled ==
  /\ at = "reading" /\ cancelRequested
  /\ FinishAs("cancelled")
  /\ UNCHANGED <<wire, rpc, event, ready, pending, completed, lastSeq, refused,
                 cancelRequested, rows, turnRow, broken, faults>>

Holding(c) == {m \in DOMAIN pending : c \in Range(pending[m].calls)}

(* Mutant of BreaksProtocol: completed messages are not remembered. *)
BreaksProtocolForgetful(e) ==
  \/ e.seq # 0 /\ e.seq <= lastSeq
  \/ e.type \in {"text", "done"} /\ e.mid = NoMessage
  \/ e.type \in {"tool_started", "result"} /\ e.call = NoCall
  \/ e.type = "completed" /\ DOMAIN pending # {}
  \/ e.type = "done" /\ (e.mid \in DOMAIN pending \/ ~Distinct(e.calls) \/ ~e.named)
  \/ /\ e.type = "result"
     /\ \/ e.result = "missing"
        \/ Cardinality(Holding(e.call)) # 1
        \/ \E m \in Holding(e.call) : pending[m].results[e.call] # Pending

(* What the runtime raises ValueError for.                                 *)
BreaksProtocol(e) ==
  \/ e.seq # 0 /\ e.seq <= lastSeq
  \/ e.type \in {"text", "done"} /\ e.mid = NoMessage
  \/ e.type \in {"tool_started", "result"} /\ e.call = NoCall
  \/ e.type = "completed" /\ DOMAIN pending # {}
  \/ e.type = "done" /\ (e.mid \in completed \cup DOMAIN pending \/ ~Distinct(e.calls) \/ ~e.named)
  \/ /\ e.type = "result"
     /\ \/ e.result = "missing"
        \/ Cardinality(Holding(e.call)) # 1
        \/ \E m \in Holding(e.call) : pending[m].results[e.call] # Pending

Read(e) ==
  /\ at = "reading" /\ ~cancelRequested
  /\ wire # << >> /\ e = Head(wire)
  /\ wire' = Tail(wire)
  /\ UNCHANGED <<rpc, completed, lastSeq, cancelRequested, rows, turnRow, broken, faults>>

ReadRefused(e) ==
  /\ Read(e) /\ BreaksProtocol(e)
  /\ refused' = TRUE
  /\ FinishAs("failed")
  /\ UNCHANGED <<event, ready, pending>>

ReadTerminal(e) ==
  /\ Read(e) /\ ~BreaksProtocol(e) /\ e.type \in Final
  /\ FinishAs(e.type)
  /\ UNCHANGED <<event, ready, pending, refused>>

(* The event is written, with the group it completes.                      *)
Ask(e, group) ==
  /\ at' = "event" /\ io' = "asked"
  /\ event' = e
  /\ ready' = group
  /\ UNCHANGED <<final, refused>>

ReadMessage(e) ==
  /\ Read(e) /\ ~BreaksProtocol(e) /\ e.type = "done"
  /\ LET group == [mid |-> e.mid, calls |-> e.calls, results |-> NoGroup.results] IN
     IF e.calls = << >> THEN Ask(e, group) /\ UNCHANGED pending
     ELSE Ask(e, NoGroup) /\ pending' = [m \in DOMAIN pending \cup {e.mid} |->
                                           IF m = e.mid THEN group ELSE pending[m]]

ReadResult(e) ==
  /\ Read(e) /\ ~BreaksProtocol(e) /\ e.type = "result"
  /\ \E m \in Holding(e.call) :
       LET group == [pending[m] EXCEPT !.results[e.call] = e.result] IN
       IF \A c \in Range(group.calls) : group.results[c] # Pending
       THEN Ask(e, group) /\ pending' = [k \in DOMAIN pending \ {m} |-> pending[k]]
       ELSE Ask(e, NoGroup) /\ pending' = [pending EXCEPT ![m] = group]

ReadProgress(e) ==
  /\ Read(e) /\ ~BreaksProtocol(e) /\ e.type \in {"other", "created", "text", "tool_started"}
  /\ Ask(e, NoGroup)
  /\ UNCHANGED pending

(* The stream ends without a terminal event, or raises.  After a break,    *)
(* events that had arrived may still be read.                              *)
StreamOver ==
  /\ at = "reading" /\ ~cancelRequested
  /\ rpc = "ended" => wire = << >>
  /\ rpc \in {"ended", "broken"}
  /\ FinishAs("failed")
  /\ UNCHANGED <<wire, rpc, event, ready, pending, completed, lastSeq, refused,
                 cancelRequested, rows, turnRow, broken, faults>>

-----------------------------------------------------------------------------
EventCommit ==
  /\ at = "event" /\ io = "asked"
  /\ Insertable(GroupRows(ready)) /\ Parses(ready)
  /\ io' = "committed"
  /\ rows' = rows \cup GroupRows(ready)
  /\ UNCHANGED <<wire, rpc, at, event, ready, pending, completed, lastSeq, final, refused,
                 cancelRequested, turnRow, broken, faults>>

EventTakenUp ==
  /\ at = "event" /\ io = "committed" /\ Shows(event)
  /\ at' = "reading"
  /\ completed' = IF ready = NoGroup THEN completed ELSE completed \cup {ready.mid}
  /\ lastSeq' = IF event.seq = 0 THEN lastSeq ELSE event.seq
  /\ event' = NoEvent /\ ready' = NoGroup
  /\ UNCHANGED <<wire, rpc, io, pending, final, refused, cancelRequested, rows, turnRow,
                 broken, faults>>

FinishCommit ==
  /\ at = "finish" /\ io = "asked"
  /\ io' = "committed"
  /\ turnRow' = IF turnRow = "in_progress" THEN final ELSE turnRow
  /\ UNCHANGED <<wire, rpc, at, event, ready, pending, completed, lastSeq, final, refused,
                 cancelRequested, rows, broken, faults>>

Close ==
  /\ at' = "closed"
  /\ UNCHANGED <<io, event, ready, lastSeq, final, refused, rows, turnRow>>

FinishTakenUp ==
  /\ at = "finish" /\ io = "committed"
  /\ Close
  /\ pending' = << >> /\ completed' = {}
  /\ CancelCall
  /\ UNCHANGED <<cancelRequested, broken, faults>>

(* _write raises: by a fault, because its rows conflict with others or a   *)
(* result is not JSON, or after the commit, when the view refuses the      *)
(* event.                                                                  *)
WriteFails ==
  /\ \/ at = "begin" /\ io = "asked" /\ Fail(TRUE)
     \/ /\ at = "event" /\ io = "asked"
        /\ Fail(Insertable(GroupRows(ready)) /\ Parses(ready))
     \/ at = "event" /\ io = "committed" /\ ~Shows(event) /\ Fail(FALSE)
  /\ FinishAs("failed")
  /\ event' = NoEvent /\ ready' = NoGroup
  /\ UNCHANGED <<pending, completed, lastSeq, refused, rows, turnRow>>

FinishFails ==
  /\ at = "finish" /\ io = "asked"
  /\ Fail(TRUE)
  /\ Close
  /\ UNCHANGED <<pending, completed>>

-----------------------------------------------------------------------------
(* The manager.                                                            *)

Cancel ==
  /\ at # "closed" /\ ~cancelRequested
  /\ cancelRequested' = TRUE
  /\ CancelCall
  /\ UNCHANGED <<at, io, event, ready, pending, completed, lastSeq, final, refused,
                 rows, turnRow, broken, faults>>

(* A write of another command fails.                                       *)
ManagerFails ==
  /\ at # "closed" /\ ~broken
  /\ Fail(TRUE)
  /\ UNCHANGED <<at, io, event, ready, pending, completed, lastSeq, final, refused,
                 rows, turnRow>>

Recover ==
  /\ broken /\ turnRow = "in_progress"
  /\ turnRow' = "failed"
  /\ UNCHANGED <<wire, rpc, at, io, event, ready, pending, completed, lastSeq, final, refused,
                 cancelRequested, rows, broken, faults>>

-----------------------------------------------------------------------------
OnEvent ==
  \E e \in Range(wire) :
    ReadRefused(e) \/ ReadTerminal(e) \/ ReadMessage(e) \/ ReadResult(e) \/ ReadProgress(e)

RuntimeStep ==
  \/ BeginCommit \/ BeginTakenUp \/ ReadCancelled \/ OnEvent \/ StreamOver
  \/ EventCommit \/ EventTakenUp \/ FinishCommit \/ FinishTakenUp

RuntimeNext ==
  RuntimeStep \/ WriteFails \/ FinishFails \/ Cancel \/ ManagerFails \/ Recover

-----------------------------------------------------------------------------
(* The messages of the turn are numbered without a gap, and each message   *)
(* with tool calls is followed by exactly their results, in the order of   *)
(* the calls: the next model request reads them as they are.               *)
HistoryIsPaired ==
  /\ \A q, r \in rows : q.sequence = r.sequence => q = r
  /\ \A r \in rows : 1..r.sequence \subseteq {q.sequence : q \in rows}
  /\ \A r \in rows : r.entry.role = "assistant" =>
       \A i \in DOMAIN r.entry.calls : \E q \in rows :
         /\ q.sequence = r.sequence + i
         /\ q.entry.call = r.entry.calls[i] /\ q.entry.result # Pending
  /\ \A q \in rows : q.entry.role = "tool" =>
       \E r \in rows : /\ r.entry.role = "assistant" /\ r.group = q.group
                       /\ q.sequence - r.sequence \in DOMAIN r.entry.calls
                       /\ r.entry.calls[q.sequence - r.sequence] = q.entry.call

(* What a stream can do to the session, beyond failing its own turn: the   *)
(* manager breaks when the database fails, and of all streams only by a    *)
(* result that is not JSON or an event that only the backend makes.  No    *)
(* repeated, missing or misplaced message gets as far as the indexes.      *)
StreamSparesSession ==
  [][broken' /\ ~broken => faults' > faults \/ ~Parses(ready) \/ ~Shows(event)]_runtimeVars
=============================================================================
