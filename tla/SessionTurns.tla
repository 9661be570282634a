---------------------------- MODULE SessionTurns ----------------------------
(***************************************************************************)
(* One chat session of the backend: the database rows of its turns, the    *)
(* SessionManager that serialises its commands, the TurnRuntime tasks that *)
(* run its turns, and the registry operations that load, evict and restart *)
(* the manager (backend/services/session_manager.py, turn_runtime.py,      *)
(* session_registry.py).                                                   *)
(*                                                                         *)
(* Everything runs on one event loop, so a step is what runs between two   *)
(* suspension points.  A write is asked for by the loop, committed by a    *)
(* worker thread, and its result is taken up by the loop later: three      *)
(* steps, between which anybody else may run.  Subscribers and attach are  *)
(* left to the module of the event feed.                                   *)
(***************************************************************************)
EXTENDS Naturals, Sequences

CONSTANTS
  Turn,            \* identifiers of turns (uuid4 in the code)
  NoTurn,          \* the absent turn (None)
  QueueLimit,      \* settings.session_command_limit
  MaxFaults,       \* bound on failing database calls
  MaxCrashes,      \* bound on process deaths
  MaxRes           \* resource versions are counted modulo MaxRes + 1

ASSUME NoTurnAssumption == NoTurn \notin Turn
ASSUME BoundsAssumption ==
  /\ QueueLimit \in Nat \ {0}
  /\ MaxFaults \in Nat
  /\ MaxCrashes \in Nat
  /\ MaxRes \in Nat

Terminal == {"completed", "cancelled", "failed"}
TurnOrNone == Turn \cup {NoTurn}

(* What a transaction reads back: the session row and its resource rows.   *)
Session == [active : TurnOrNone, status : {"ready", "running"}, res : 0..MaxRes]
(* Mutant of Released: the claim is not cleared. *)
StatusOnlyReleased(s) == [s EXCEPT !.status = "ready"]
Released(s) == [s EXCEPT !.active = NoTurn, !.status = "ready"]
Claimed(s, t) == [s EXCEPT !.active = t, !.status = "running"]

Command == [op : {"create", "cancel", "replace", "stop"}, turn : TurnOrNone]

VARIABLES
  turnRow,    \* chat_turns.status of each turn, "none" before it exists
  sess,       \* the chat_sessions row and the version of its resources
  up,         \* the process: "up", "stopping" or "down"
  crashes,    \* process deaths so far
  faults,     \* failed database calls so far
  mgr,        \* registry entry: absent, loading, ready, closing, stopping
  cache,      \* manager.session and manager.resources
  current,    \* manager.runtime: a turn or NoTurn
  broken,     \* manager.broken
  pending,    \* the turn of manager.pending_cancel, or NoTurn
  queue,      \* manager.commands
  cmd,        \* the command _run is executing, and how far it is
  recoveries, \* _recover_active_turn tasks in the order of their creation
  recoveryTask, \* index of manager.recovery_task, 0 for None
  awaited,    \* the runtime close() waits for
  rt,         \* the runtime of each turn
  earlier,    \* <<x, y>>: x committed before y, neither result is taken up
  crossed,    \* history: a result was taken up before an earlier one, or the
              \* session loaded while a recovery task was still to write
  acked,      \* turns whose create command was answered
  told        \* answers given to cancel commands: <<turn, status>>

dbVars  == <<turnRow, sess>>
envVars == <<up, crashes, faults>>
mgrVars == <<mgr, cache, current, broken, pending, queue, cmd, recoveryTask, awaited>>
outVars == <<acked, told>>
vars    == <<dbVars, envVars, mgrVars, recoveries, rt, earlier, crossed, outVars>>

-----------------------------------------------------------------------------
(* A runtime.  step: where run() is; io: its write transaction is asked    *)
(* for, or committed with its result not yet taken up; own: its callbacks  *)
(* reach the loaded manager; other: active_turn_id of the manager that was *)
(* unloaded under it.                                                      *)
Runtime ==
  [step : {"unborn", "begin", "stream", "finish", "closed"},
   io : {"idle", "asked", "committed"},
   cancelRequested : BOOLEAN,
   status : {"queued"} \cup Terminal,
   begun : {"no", "ok", "error"},
   won : BOOLEAN,
   snap : Session,
   own : BOOLEAN,
   other : TurnOrNone]

NoSession == [active |-> NoTurn, status |-> "ready", res |-> 0]

Unborn ==
  [step |-> "unborn", io |-> "idle", cancelRequested |-> FALSE, status |-> "queued",
   begun |-> "no", won |-> FALSE, snap |-> NoSession, own |-> FALSE, other |-> NoTurn]

Started == [Unborn EXCEPT !.step = "begin", !.io = "asked", !.own = TRUE]

(* _finish: take the final status, then ask for the closing transaction.   *)
(* Mutant of Finishing: the final status is not taken before the write. *)
StatuslessFinishing(r, s) == [r EXCEPT !.step = "finish", !.io = "asked"]
Finishing(r, s) == [r EXCEPT !.step = "finish", !.status = s, !.io = "asked"]
Closed(r) == [r EXCEPT !.step = "closed", !.io = "idle"]
Committed(r, s, w) == [r EXCEPT !.io = "committed", !.snap = s, !.won = w]
Cancelled(r) == [r EXCEPT !.cancelRequested = TRUE]

(* A result is known by its turn, that of a replacement by NoTurn.  Each   *)
(* write has a thread of its own and the loop takes its result up when the *)
(* thread has told it, which may be after that of a later commit.          *)
Outstanding ==
  {t \in Turn : rt[t].io = "committed"} \cup
  (IF cmd.stage = "committed" THEN {NoTurn} ELSE {})
Lands(x) ==
  /\ earlier' = earlier \cup {<<y, x>> : y \in Outstanding}
  /\ UNCHANGED crossed
TakeUp(x) ==
  /\ earlier' = {p \in earlier : p[1] # x /\ p[2] # x}
  /\ crossed' = (crossed \/ \E y \in TurnOrNone : <<y, x>> \in earlier)

Unfinished(t) == turnRow[t] = "in_progress"
Live(t) == rt[t].step \in {"begin", "stream", "finish"}

Idle == [op |-> "none", turn |-> NoTurn, stage |-> "idle", snap |-> NoSession]
Running(op, t, stage) == [op |-> op, turn |-> t, stage |-> stage, snap |-> NoSession]

Executing ==
  [op : {"none", "create", "cancel", "replace"}, turn : TurnOrNone,
   stage : {"idle", "begun", "list", "wait", "prepare", "asked", "committed"},
   snap : Session]

Recovery == [turn : TurnOrNone, live : BOOLEAN]

RowsTypeOK ==
  /\ turnRow \in [Turn -> {"none", "in_progress"} \cup Terminal]
  /\ sess \in Session
ProcessTypeOK ==
  /\ up \in {"up", "stopping", "down"}
  /\ crashes \in 0..MaxCrashes
  /\ faults \in 0..MaxFaults
ManagerTypeOK ==
  /\ mgr \in {"absent", "loading", "ready", "closing", "stopping"}
  /\ cache \in Session
  /\ current \in TurnOrNone
  /\ broken \in BOOLEAN
  /\ pending \in TurnOrNone
  /\ queue \in Seq(Command)
  /\ cmd \in Executing
  /\ awaited \in TurnOrNone
RecoveryTypeOK ==
  /\ recoveries \in Seq(Recovery)
  /\ recoveryTask \in 0..Len(recoveries)
RuntimeTypeOK ==
  /\ rt \in [Turn -> Runtime]
  /\ earlier \subseteq TurnOrNone \X TurnOrNone
  /\ crossed \in BOOLEAN
AnswersTypeOK ==
  /\ acked \subseteq Turn
  /\ told \subseteq Turn \X Terminal
TypeOK ==
  /\ RowsTypeOK /\ ProcessTypeOK /\ ManagerTypeOK
  /\ RecoveryTypeOK /\ RuntimeTypeOK /\ AnswersTypeOK

Init ==
  /\ turnRow = [t \in Turn |-> "none"]
  /\ sess = NoSession
  /\ up = "up" /\ crashes = 0 /\ faults = 0
  /\ mgr = "absent"
  /\ cache = NoSession
  /\ current = NoTurn
  /\ broken = FALSE
  /\ pending = NoTurn
  /\ queue = << >>
  /\ cmd = Idle
  /\ recoveries = << >> /\ recoveryTask = 0
  /\ awaited = NoTurn
  /\ rt = [t \in Turn |-> Unborn]
  /\ earlier = {} /\ crossed = FALSE
  /\ acked = {} /\ told = {}

-----------------------------------------------------------------------------
(* SessionManager.fail(): drop and cancel the runtime, answer the pending  *)
(* cancel, and spawn one recovery task for the cached active turn.  The    *)
(* caller of fail() says what becomes of rt and of the running command.    *)

(* Mutant of CancelRuntime: the runtime is dropped but never told. *)
DropRuntime(runtimes) == runtimes

CancelRuntime(runtimes) ==
  IF current = NoTurn THEN runtimes
  ELSE [runtimes EXCEPT ![current] = Cancelled(runtimes[current])]

Spawn(t) == recoveries' = Append(recoveries, [turn |-> t, live |-> TRUE])

Fail ==
  /\ broken' = TRUE
  /\ current' = NoTurn
  /\ cache' = [cache EXCEPT !.active = NoTurn]
  /\ pending' = NoTurn
  /\ told' = IF pending = NoTurn THEN told ELSE told \cup {<<pending, "failed">>}
  /\ Spawn(cache.active)
  /\ recoveryTask' = Len(recoveries) + 1
  /\ UNCHANGED <<mgr, awaited>>

Fault == faults < MaxFaults /\ faults' = faults + 1 /\ UNCHANGED <<up, crashes>>

(* The waiting cancel handler returns as soon as its reply is set.         *)
AfterAnswer == IF pending = NoTurn THEN cmd ELSE Idle

-----------------------------------------------------------------------------
(* Clients: put_nowait on the command queue of the READY manager.          *)

Submit(c) ==
  /\ up = "up" /\ mgr = "ready"
  /\ Len(queue) < QueueLimit
  /\ queue' = Append(queue, c)
  /\ UNCHANGED <<dbVars, envVars, mgr, cache, current, broken, pending, cmd,
                 recoveryTask, awaited, recoveries, rt, outVars, earlier, crossed>>

(* The identifier is fresh: its only bound is the size of Turn.            *)
SubmitCreate(t) ==
  LET c == [op |-> "create", turn |-> t] IN
  /\ rt[t].step = "unborn" /\ \A i \in DOMAIN queue : queue[i] # c
  /\ Submit(c)
SubmitCancel(t) == Submit([op |-> "cancel", turn |-> t])
SubmitReplace == Submit([op |-> "replace", turn |-> NoTurn])

-----------------------------------------------------------------------------
(* _run: one command at a time, each handler to its end.                   *)

Take(op) ==
  /\ up # "down" /\ cmd = Idle
  /\ queue # << >> /\ Head(queue).op = op
  /\ queue' = Tail(queue)

(* A broken manager answers every command with an error.                   *)
RejectBroken ==
  /\ broken
  /\ \E op \in {"create", "cancel", "replace"} : Take(op)
  /\ UNCHANGED <<dbVars, envVars, mgr, cache, current, broken, pending, cmd,
                 recoveryTask, awaited, recoveries, rt, outVars, earlier, crossed>>

(* _handle_create, up to the wait for runtime.begun.                       *)
(* Mutant of HandleCreate: no test for an active turn. *)
HandleCreateAnyway(t) ==
  /\ ~broken /\ Take("create") /\ Head(queue).turn = t
  /\ rt[t].step = "unborn"
  /\ rt' = [rt EXCEPT ![t] = Started]
  /\ current' = t
  /\ cmd' = Running("create", t, "begun")
  /\ UNCHANGED <<dbVars, envVars, mgr, cache, broken, pending, recoveryTask,
                 awaited, recoveries, outVars, earlier, crossed>>

HandleCreate(t) ==
  /\ ~broken /\ Take("create") /\ Head(queue).turn = t
  /\ cache.active = NoTurn
  /\ rt[t].step = "unborn"
  /\ rt' = [rt EXCEPT ![t] = Started]
  /\ current' = t
  /\ cmd' = Running("create", t, "begun")
  /\ UNCHANGED <<dbVars, envVars, mgr, cache, broken, pending, recoveryTask,
                 awaited, recoveries, outVars, earlier, crossed>>

CreateConflict ==
  /\ ~broken /\ Take("create")
  /\ cache.active # NoTurn
  /\ UNCHANGED <<dbVars, envVars, mgr, cache, current, broken, pending, cmd,
                 recoveryTask, awaited, recoveries, rt, outVars, earlier, crossed>>

(* begun was set without an error: read the list of turns in a thread.     *)
(* Mutant of CreateBegun: the handler does not wait for the begin write. *)
CreateBegunEarly ==
  /\ cmd.op = "create" /\ cmd.stage = "begun"
  /\ cmd' = [cmd EXCEPT !.stage = "list"]
  /\ UNCHANGED <<dbVars, envVars, mgr, cache, current, broken, pending, queue,
                 recoveryTask, awaited, recoveries, rt, outVars, earlier, crossed>>

CreateBegun ==
  /\ cmd.op = "create" /\ cmd.stage = "begun" /\ rt[cmd.turn].begun = "ok"
  /\ cmd' = [cmd EXCEPT !.stage = "list"]
  /\ UNCHANGED <<dbVars, envVars, mgr, cache, current, broken, pending, queue,
                 recoveryTask, awaited, recoveries, rt, outVars, earlier, crossed>>

CreateAnswered ==
  /\ cmd.op = "create" /\ cmd.stage = "list"
  /\ acked' = acked \cup {cmd.turn}
  /\ cmd' = Idle
  /\ UNCHANGED <<dbVars, envVars, mgr, cache, current, broken, pending, queue,
                 recoveryTask, awaited, recoveries, rt, told, earlier, crossed>>

(* A sqlite3.Error out of a handler makes _run call fail().                *)
HandlerFails ==
  /\ Fail
  /\ cmd' = Idle
  /\ rt' = CancelRuntime(rt)
  /\ UNCHANGED <<dbVars, queue, acked, earlier, crossed>>

(* begin_error is re-raised by the handler, after _write already called    *)
(* fail() for the same error.                                              *)
CreateBeginError ==
  /\ cmd.op = "create" /\ cmd.stage = "begun" /\ rt[cmd.turn].begun = "error"
  /\ HandlerFails
  /\ UNCHANGED envVars

CreateListFault ==
  /\ cmd.op = "create" /\ cmd.stage = "list"
  /\ Fault
  /\ HandlerFails

(* _handle_cancel reads the turn row on the loop's own connection.         *)
CancelSettled(t) ==
  /\ ~broken /\ Take("cancel") /\ Head(queue).turn = t
  /\ \/ turnRow[t] = "none" /\ UNCHANGED told
     \/ turnRow[t] \in Terminal /\ told' = told \cup {<<t, turnRow[t]>>}
     \/ Unfinished(t) /\ cache.active # t /\ UNCHANGED told
  /\ UNCHANGED <<dbVars, envVars, mgr, cache, current, broken, pending, cmd,
                 recoveryTask, awaited, recoveries, rt, acked, earlier, crossed>>

(* Mutant of HandleCancel: answers without waiting for the runtime. *)
HandleCancelAtOnce(t) ==
  /\ ~broken /\ Take("cancel") /\ Head(queue).turn = t
  /\ Unfinished(t) /\ cache.active = t
  /\ rt' = CancelRuntime(rt)
  /\ told' = told \cup {<<t, "cancelled">>}
  /\ UNCHANGED <<dbVars, envVars, mgr, cache, current, broken, pending, cmd,
                 recoveryTask, awaited, recoveries, acked, earlier, crossed>>

(* Mutant of HandleCancel: writes the final status itself, then cancels. *)
HandleCancelWritesFirst(t) ==
  /\ ~broken /\ Take("cancel") /\ Head(queue).turn = t
  /\ Unfinished(t) /\ cache.active = t
  /\ turnRow' = [turnRow EXCEPT ![t] = "cancelled"]
  /\ sess' = Released(sess)
  /\ cache' = sess'
  /\ rt' = CancelRuntime(rt)
  /\ told' = told \cup {<<t, "cancelled">>}
  /\ UNCHANGED <<envVars, mgr, current, broken, pending, cmd, recoveryTask,
                 awaited, recoveries, acked, earlier, crossed>>

HandleCancel(t) ==
  /\ ~broken /\ Take("cancel") /\ Head(queue).turn = t
  /\ Unfinished(t) /\ cache.active = t
  /\ pending' = t
  /\ rt' = CancelRuntime(rt)
  /\ cmd' = Running("cancel", t, "wait")
  /\ UNCHANGED <<dbVars, envVars, mgr, cache, current, broken, recoveryTask,
                 awaited, recoveries, outVars, earlier, crossed>>

CancelFault ==
  /\ ~broken /\ Take("cancel")
  /\ Fault /\ Fail
  /\ rt' = CancelRuntime(rt)
  /\ UNCHANGED <<dbVars, cmd, acked, earlier, crossed>>

(* upload, remove and replace_resources: wait for the document service,    *)
(* which may refuse, then replace the resource rows in one transaction.    *)
HandleReplace ==
  /\ ~broken /\ Take("replace")
  /\ cmd' = Running("replace", NoTurn, "prepare")
  /\ UNCHANGED <<dbVars, envVars, mgr, cache, current, broken, pending,
                 recoveryTask, awaited, recoveries, rt, outVars, earlier, crossed>>

ReplacePrepared ==
  /\ cmd.op = "replace" /\ cmd.stage = "prepare"
  /\ cmd' \in {Idle, [cmd EXCEPT !.stage = "asked"]}
  /\ UNCHANGED <<dbVars, envVars, mgr, cache, current, broken, pending, queue,
                 recoveryTask, awaited, recoveries, rt, outVars, earlier, crossed>>

ReplaceCommit ==
  /\ cmd.op = "replace" /\ cmd.stage = "asked"
  /\ sess' = [sess EXCEPT !.res = (sess.res + 1) % (MaxRes + 1)]
  /\ Lands(NoTurn)
  /\ cmd' = [cmd EXCEPT !.stage = "committed", !.snap = sess']
  /\ UNCHANGED <<turnRow, envVars, mgr, cache, current, broken, pending, queue,
                 recoveryTask, awaited, recoveries, rt, outVars>>

ReplaceFault ==
  /\ cmd.op = "replace" /\ cmd.stage = "asked"
  /\ Fault
  /\ HandlerFails

ReplaceResume ==
  /\ cmd.op = "replace" /\ cmd.stage = "committed"
  /\ TakeUp(NoTurn)
  /\ cache' = cmd.snap
  /\ cmd' = Idle
  /\ UNCHANGED <<dbVars, envVars, mgr, current, broken, pending, queue,
                 recoveryTask, awaited, recoveries, rt, outVars>>

-----------------------------------------------------------------------------
(* TurnRuntime.run().                                                      *)

(* The worker thread commits the transaction the runtime asked for; what   *)
(* it wrote depends on the step, and the row it reads back goes to snap.   *)
(* Mutant of BeginCommit: the turn is created without claiming the session. *)
BeginWithoutClaim(t) ==
  /\ rt[t].step = "begin" /\ rt[t].io = "asked" /\ Lands(t)
  /\ turnRow' = [turnRow EXCEPT ![t] = "in_progress"]
  /\ rt' = [rt EXCEPT ![t] = Committed(rt[t], Claimed(sess, t), FALSE)]
  /\ UNCHANGED <<sess, envVars, mgrVars, recoveries, outVars>>

BeginCommit(t) ==
  /\ rt[t].step = "begin" /\ rt[t].io = "asked" /\ Lands(t)
  /\ turnRow' = [turnRow EXCEPT ![t] = "in_progress"]
  /\ sess' = Claimed(sess, t)
  /\ rt' = [rt EXCEPT ![t] = Committed(rt[t], sess', FALSE)]
  /\ UNCHANGED <<envVars, mgrVars, recoveries, outVars>>

EventCommit(t) ==
  /\ rt[t].step = "stream" /\ rt[t].io = "asked" /\ Lands(t)
  /\ rt' = [rt EXCEPT ![t] = Committed(rt[t], sess, FALSE)]
  /\ UNCHANGED <<dbVars, envVars, mgrVars, recoveries, outVars>>

(* Mutant of FinishCommit: update_turn without the status condition. *)
FinishCommitAlways(t) ==
  /\ rt[t].step = "finish" /\ rt[t].io = "asked" /\ Lands(t)
  /\ turnRow' = [turnRow EXCEPT ![t] = rt[t].status]
  /\ sess' = Released(sess)
  /\ rt' = [rt EXCEPT ![t] = Committed(rt[t], sess', TRUE)]
  /\ UNCHANGED <<envVars, mgrVars, recoveries, outVars>>

(* _finish_operation: only a turn that is not yet final is closed, and the *)
(* session is released with it.                                            *)
FinishCommit(t) ==
  /\ rt[t].step = "finish" /\ rt[t].io = "asked" /\ Lands(t)
  /\ turnRow' = IF Unfinished(t) THEN [turnRow EXCEPT ![t] = rt[t].status] ELSE turnRow
  /\ sess' = IF Unfinished(t) THEN Released(sess) ELSE sess
  /\ rt' = [rt EXCEPT ![t] = Committed(rt[t], sess', Unfinished(t))]
  /\ UNCHANGED <<envVars, mgrVars, recoveries, outVars>>

(* _refresh_state: the row read in the transaction becomes the cache.      *)
Refresh(t) == cache' = IF rt[t].own THEN rt[t].snap ELSE cache
Taken(r) == [r EXCEPT !.io = "idle", !.snap = NoSession, !.won = FALSE,
                      !.other = IF r.own THEN NoTurn ELSE r.snap.active]
Began(r) == IF r.cancelRequested THEN Finishing([r EXCEPT !.begun = "ok"], "cancelled")
            ELSE [r EXCEPT !.begun = "ok", !.step = "stream"]

BeginResume(t) ==
  /\ rt[t].step = "begin" /\ rt[t].io = "committed" /\ TakeUp(t)
  /\ Refresh(t)
  /\ rt' = [rt EXCEPT ![t] = Began(Taken(rt[t]))]
  /\ UNCHANGED <<dbVars, envVars, mgr, current, broken, pending, queue, cmd,
                 recoveryTask, awaited, recoveries, outVars>>

EventResume(t) ==
  /\ rt[t].step = "stream" /\ rt[t].io = "committed" /\ TakeUp(t)
  /\ Refresh(t)
  /\ rt' = [rt EXCEPT ![t] = Taken(rt[t])]
  /\ UNCHANGED <<dbVars, envVars, mgr, current, broken, pending, queue, cmd,
                 recoveryTask, awaited, recoveries, outVars>>

(* Mutant of FinishResume: the waiting cancel is not answered. *)
FinishResumeSilent(t) ==
  /\ rt[t].step = "finish" /\ rt[t].io = "committed" /\ TakeUp(t)
  /\ Refresh(t)
  /\ rt' = [rt EXCEPT ![t] = Closed(Taken(rt[t]))]
  /\ current' = IF rt[t].own /\ rt[t].won THEN NoTurn ELSE current
  /\ UNCHANGED <<dbVars, envVars, mgr, broken, pending, queue, cmd, recoveryTask,
                 awaited, recoveries, outVars>>

(* The closing transaction is taken up.  If it closed the turn, the        *)
(* terminal event is broadcast: the manager drops its runtime and answers  *)
(* the cancel that waits for this turn.                                    *)
FinishResume(t) ==
  /\ rt[t].step = "finish" /\ rt[t].io = "committed" /\ TakeUp(t)
  /\ Refresh(t)
  /\ rt' = [rt EXCEPT ![t] = Closed(Taken(rt[t]))]
  /\ IF rt[t].own /\ rt[t].won
     THEN /\ current' = NoTurn
          /\ IF pending = t
             THEN pending' = NoTurn /\ cmd' = Idle /\ told' = told \cup {<<t, rt[t].status>>}
             ELSE UNCHANGED <<pending, cmd, told>>
     ELSE UNCHANGED <<current, pending, cmd, told>>
  /\ UNCHANGED <<dbVars, envVars, mgr, broken, queue, recoveryTask, awaited,
                 recoveries, acked>>

(* The next message of the agent's stream: an event to store and forward.  *)
AgentEvent(t) ==
  /\ rt[t].step = "stream" /\ rt[t].io = "idle"
  /\ ~rt[t].cancelRequested
  /\ rt' = [rt EXCEPT ![t] = [rt[t] EXCEPT !.io = "asked"]]
  /\ UNCHANGED <<dbVars, envVars, mgrVars, recoveries, outVars, earlier, crossed>>

(* The stream ends: a completion.* event, an invalid event, an RPC error,  *)
(* or its end without a terminal event.  Once cancelled, the runtime no    *)
(* longer listens to a "completed" that is still on its way.               *)
StreamEnds(t) ==
  /\ rt[t].step = "stream" /\ rt[t].io = "idle"
  /\ \E s \in IF rt[t].cancelRequested THEN {"cancelled", "failed"} ELSE Terminal :
       rt' = [rt EXCEPT ![t] = Finishing(rt[t], s)]
  /\ UNCHANGED <<dbVars, envVars, mgrVars, recoveries, outVars, earlier, crossed>>

(* Mutant of AfterFault: a cancelled runtime closes its turn as cancelled. *)
AfterFaultCancelled(r) ==
  CASE r.step = "begin"  -> Finishing([r EXCEPT !.begun = "error"], "failed")
    [] r.step = "stream" -> Finishing(r, IF r.cancelRequested THEN "cancelled" ELSE "failed")
    [] OTHER             -> Closed(r)

(* A write of the runtime fails: fail(), then run() tries to close the     *)
(* turn as failed, unless it was the closing write itself that failed.     *)
AfterFault(r) ==
  CASE r.step = "begin"  -> Finishing([r EXCEPT !.begun = "error"], "failed")
    [] r.step = "stream" -> Finishing(r, "failed")
    [] OTHER             -> Closed(r)

WriteFault(t) ==
  /\ rt[t].io = "asked"
  /\ Fault
  /\ IF rt[t].own
     THEN /\ Fail /\ UNCHANGED queue
          /\ cmd' = AfterAnswer
          /\ rt' = CancelRuntime([rt EXCEPT ![t] = AfterFault(rt[t])])
     ELSE /\ Spawn(rt[t].other)
          /\ rt' = [rt EXCEPT ![t] = [AfterFault(rt[t]) EXCEPT !.other = NoTurn]]
          /\ UNCHANGED <<mgrVars, told>>
  /\ UNCHANGED <<dbVars, acked, earlier, crossed>>

-----------------------------------------------------------------------------
RecoveryEnds(i) ==
  recoveries' = [recoveries EXCEPT ![i] = [recoveries[i] EXCEPT !.live = FALSE]]

(* Mutant of RecoveryCommit: the turn is failed whatever its status is. *)
RecoveryCommitAlways(i) ==
  /\ recoveries[i].live
  /\ LET t == recoveries[i].turn IN
     turnRow' = IF t \in Turn THEN [turnRow EXCEPT ![t] = "failed"] ELSE turnRow
  /\ sess' = Released(sess)
  /\ RecoveryEnds(i)
  /\ UNCHANGED <<envVars, mgrVars, rt, outVars, earlier, crossed>>

(* _recover_active_turn: close the turn if it is still open, and release   *)
(* the session whoever holds it.  Its own failure is swallowed.            *)
RecoveryCommit(i) ==
  /\ recoveries[i].live
  /\ LET t == recoveries[i].turn IN
     turnRow' = IF t \in Turn /\ Unfinished(t) THEN [turnRow EXCEPT ![t] = "failed"]
                ELSE turnRow
  /\ sess' = Released(sess)
  /\ RecoveryEnds(i)
  /\ UNCHANGED <<envVars, mgrVars, rt, outVars, earlier, crossed>>

RecoveryFault(i) ==
  /\ recoveries[i].live
  /\ Fault
  /\ RecoveryEnds(i)
  /\ UNCHANGED <<dbVars, mgrVars, rt, outVars, earlier, crossed>>

-----------------------------------------------------------------------------
(* SessionRegistry: load, evict, shut down, die, restart.                  *)

(* _load_manager reads the rows in a thread; the entry is CREATING.        *)
(* Nothing makes it wait for recovery tasks of an earlier manager.         *)
LoadRead ==
  /\ up = "up" /\ mgr = "absent"
  /\ mgr' = "loading"
  /\ cache' = sess
  /\ crossed' = (crossed \/ \E i \in DOMAIN recoveries : recoveries[i].live)
  /\ UNCHANGED <<dbVars, envVars, current, broken, pending, queue, cmd,
                 recoveryTask, awaited, recoveries, rt, outVars, earlier>>

LoadReady ==
  /\ up = "up" /\ mgr = "loading"
  /\ mgr' = "ready"
  /\ UNCHANGED <<dbVars, envVars, cache, current, broken, pending, queue, cmd,
                 recoveryTask, awaited, recoveries, rt, outVars, earlier, crossed>>

(* idle(): what the reaper asks before it starts to close the manager.     *)
ManagerIdle == cache.active = NoTurn /\ current = NoTurn /\ queue = << >>

EvictIdle ==
  /\ up = "up" /\ mgr = "ready"
  /\ ManagerIdle
  /\ mgr' = "closing"
  /\ awaited' = NoTurn
  /\ UNCHANGED <<dbVars, envVars, cache, current, broken, pending, queue, cmd,
                 recoveryTask, recoveries, rt, outVars, earlier, crossed>>

(* Application shutdown: close() cancels the runtime and waits for it.     *)
Shutdown ==
  /\ up = "up" /\ mgr \in {"absent", "ready"}
  /\ up' = "stopping"
  /\ IF mgr = "ready"
     THEN /\ mgr' = "closing"
          /\ awaited' = IF broken THEN NoTurn ELSE current
          /\ rt' = IF broken THEN rt ELSE CancelRuntime(rt)
     ELSE UNCHANGED <<mgr, awaited, rt>>
  /\ UNCHANGED <<dbVars, crashes, faults, cache, current, broken, pending, queue,
                 cmd, recoveryTask, recoveries, outVars, earlier, crossed>>

(* close() after its waits: the stop command goes to the end of the queue. *)
CloseWaited ==
  /\ mgr = "closing"
  /\ awaited # NoTurn => rt[awaited].step = "closed"
  /\ recoveryTask # 0 => ~recoveries[recoveryTask].live
  /\ mgr' = "stopping"
  /\ Len(queue) < QueueLimit
  /\ queue' = Append(queue, [op |-> "stop", turn |-> NoTurn])
  /\ UNCHANGED <<dbVars, envVars, cache, current, broken, pending, cmd,
                 recoveryTask, awaited, recoveries, rt, outVars, earlier, crossed>>

(* The manager is gone: an unfinished runtime keeps its callbacks to it.   *)
Unloaded ==
  /\ mgr' = "absent"
  /\ cache' = NoSession
  /\ current' = NoTurn
  /\ broken' = FALSE
  /\ pending' = NoTurn
  /\ queue' = << >>
  /\ cmd' = Idle
  /\ recoveryTask' = 0
  /\ awaited' = NoTurn

Detached(r) == [r EXCEPT !.own = FALSE, !.other = cache.active]
HandleStop ==
  /\ Take("stop")
  /\ Unloaded
  /\ rt' = [t \in Turn |-> IF Live(t) /\ rt[t].own THEN Detached(rt[t]) ELSE rt[t]]
  /\ UNCHANGED <<dbVars, envVars, recoveries, outVars, earlier, crossed>>

(* The process ends, after a shutdown or by a crash: memory is lost.       *)
Die ==
  /\ up' = "down"
  /\ Unloaded
  /\ rt' = [t \in Turn |-> IF Live(t) THEN [Unborn EXCEPT !.step = "closed"] ELSE rt[t]]
  /\ recoveries' = << >> /\ earlier' = {}
  /\ UNCHANGED <<dbVars, faults, outVars, crossed>>

Exit == up = "stopping" /\ mgr = "absent" /\ Die /\ UNCHANGED crashes
Crash == up # "down" /\ crashes < MaxCrashes /\ crashes' = crashes + 1 /\ Die

(* SessionRegistry.start(): list_sessions_needing_recovery selects the     *)
(* session by its claim or its status; its open turns become failed.       *)
NeedsRecovery == sess.active # NoTurn \/ sess.status = "running"

(* Mutant of Restart: the claims are released, the turns are not settled. *)
RestartForgets ==
  /\ up = "down"
  /\ up' = "up"
  /\ sess' = IF NeedsRecovery THEN Released(sess) ELSE sess
  /\ UNCHANGED <<turnRow, crashes, faults, mgrVars, recoveries, rt, outVars, earlier, crossed>>

Restart ==
  /\ up = "down"
  /\ up' = "up"
  /\ turnRow' = IF NeedsRecovery
                THEN [t \in Turn |-> IF Unfinished(t) THEN "failed" ELSE turnRow[t]]
                ELSE turnRow
  /\ sess' = IF NeedsRecovery THEN Released(sess) ELSE sess
  /\ UNCHANGED <<crashes, faults, mgrVars, recoveries, rt, outVars, earlier, crossed>>

-----------------------------------------------------------------------------
Handlers ==
  \/ RejectBroken
  \/ \E t \in Turn : HandleCreate(t) \/ CancelSettled(t) \/ HandleCancel(t)
  \/ CreateConflict \/ CreateBegun \/ CreateAnswered \/ CreateBeginError
  \/ HandleReplace \/ ReplacePrepared \/ ReplaceCommit \/ ReplaceResume
  \/ HandleStop

HandlerFaults == CreateListFault \/ CancelFault \/ ReplaceFault

RuntimeStep(t) ==
  \/ BeginCommit(t) \/ EventCommit(t) \/ FinishCommit(t)
  \/ BeginResume(t) \/ EventResume(t) \/ FinishResume(t)

Clients == SubmitReplace \/ \E t \in Turn : SubmitCreate(t) \/ SubmitCancel(t)

Registry ==
  \/ LoadRead \/ LoadReady \/ EvictIdle \/ Shutdown \/ CloseWaited
  \/ Exit \/ Crash \/ Restart

Next ==
  \/ Clients \/ Handlers \/ HandlerFaults \/ Registry
  \/ \E t \in Turn : RuntimeStep(t) \/ AgentEvent(t) \/ StreamEnds(t) \/ WriteFault(t)
  \/ \E i \in DOMAIN recoveries : RecoveryCommit(i) \/ RecoveryFault(i)

Spec == Init /\ [][Next]_vars

(* The event loop, the worker threads and the restart script keep running; *)
(* the deadline of the RPC (1200 s) ends every stream, and that of the     *)
(* document service every preparation.  Clients, the agent's events,       *)
(* faults, eviction, shutdown and crashes are not fair.                    *)
Fairness ==
  /\ WF_vars(Handlers)
  /\ \A t \in Turn : WF_vars(RuntimeStep(t)) /\ SF_vars(StreamEnds(t))
  /\ WF_vars(\E i \in DOMAIN recoveries : RecoveryCommit(i))
  /\ WF_vars(LoadReady) /\ WF_vars(CloseWaited) /\ WF_vars(Exit) /\ WF_vars(Restart)

FairSpec == Spec /\ Fairness

-----------------------------------------------------------------------------
(* What the code does not defend against: a second failing database call,  *)
(* a result that the loop takes up after that of a later transaction       *)
(* (_write, _transaction: one thread each), and a session that is loaded   *)
(* while a recovery of its former manager is still to write (close() waits *)
(* for the last one only).  Once false, Orderly stays false.               *)
Orderly == faults <= 1 /\ ~crossed
Undisturbed == faults = 0 /\ ~crossed

(* While all is orderly, the claim of the session row names exactly the    *)
(* turn that is unfinished, so that a restart finds it and at most one     *)
(* turn is ever unfinished (update_session beside every update of the      *)
(* turn's status).                                                         *)
ClaimMatchesTurns ==
  Orderly =>
    /\ \A t \in Turn : Unfinished(t) <=> sess.active = t
    /\ sess.status = "running" <=> sess.active # NoTurn

(* While the process serves and all is orderly, a turn that listens to the *)
(* agent and was not told to stop is the one its loaded, healthy manager   *)
(* runs, and it holds the claim.  (A create still queued when the          *)
(* application shuts down runs after close() has waited for the runtime,   *)
(* and outlives its manager.)                                              *)
StreamingTurnOwnsSession ==
  \A t \in Turn :
    Orderly /\ up = "up" /\ rt[t].step = "stream" /\ ~rt[t].cancelRequested =>
      rt[t].own /\ ~broken /\ current = t /\ sess.active = t

(* A create command is answered only once its turn is in the database,     *)
(* whatever happens to the process afterwards.                             *)
AckedTurnIsDurable == \A t \in acked : turnRow[t] # "none"

(* A client that cancels and is told "completed" or "cancelled" was told   *)
(* the turn's recorded status, which stays: the terminal event answers it  *)
(* after the commit (broadcast, _handle_cancel).                           *)
RepliedStatusIsFinal == \A r \in told : r[2] = "failed" \/ turnRow[r[1]] = r[2]

(* While all is orderly, a client that is told "failed" is not told so of  *)
(* a turn that ends otherwise, although fail() answers before the recovery *)
(* writes.                                                                 *)
FailedReplyIsHonest ==
  Orderly =>
    \A r \in told : r[2] = "failed" => turnRow[r[1]] \in {"failed", "in_progress"}

(* While all is orderly, a cancel that waits for a turn has a cancelled    *)
(* runtime that will answer it: the handler holds the command queue until  *)
(* then.                                                                   *)
PendingCancelHasRuntime ==
  Orderly /\ pending # NoTurn =>
    /\ current = pending /\ Live(pending)
    /\ rt[pending].own /\ rt[pending].cancelRequested

(* completed, cancelled and failed are final: finish, recovery and restart *)
(* race for the same turn and only the first of them writes.               *)
TerminalIsFinal ==
  [][\A t \in Turn : turnRow[t] \in Terminal => turnRow'[t] = turnRow[t]]_vars

(* While all is orderly, the startup scan leaves no unfinished turn behind *)
(* although it looks only for claims.                                      *)
RestartSettlesTurns ==
  [][Orderly' /\ up = "down" /\ up' = "up"
       => \A t \in Turn : turnRow'[t] # "in_progress"]_vars

(* Until a database call fails or an order is crossed, no event of a turn  *)
(* is stored after the turn's final status.                                *)
NoEventAfterTerminal ==
  [][\A t \in Turn :
       Undisturbed /\ rt[t].step = "stream" /\ rt[t].io = "asked" /\ rt'[t].io = "committed"
         => Unfinished(t)]_vars

(* Until a database call fails or an order is crossed, a new turn reads    *)
(* the history only when no older turn can still write it (table.md: the   *)
(* old turn's last transaction comes before the new begin).                *)
BeginReadsSettledHistory ==
  [][\A t \in Turn : Undisturbed /\ turnRow[t] = "none" /\ turnRow'[t] # "none"
       => \A u \in Turn \ {t} : rt[u].step \notin {"begin", "stream"}]_vars

(* Every turn reaches a final status, while all is orderly.                *)
TurnsSettle == \A t \in Turn : Unfinished(t) ~> ~Unfinished(t) \/ ~Orderly

(* Every cancel that waits is answered, so that the queue moves on, while  *)
(* all is orderly.                                                         *)
OrderlyCancelsAnswered == pending # NoTurn ~> pending = NoTurn \/ ~Orderly

(* A session with an active turn refuses another create (SESSION_MANAGER.md, *)
(* section 2), so that it never has two unfinished turns.                  *)
OneTurnAtATime ==
  \A t, u \in Turn : Unfinished(t) /\ Unfinished(u) => t = u

(* The session implements the contract while all is orderly: one turn at a *)
(* time, settled once and as announced.                                    *)
Contract == INSTANCE TurnContract WITH trusted <- Orderly
ImplementsContract == Contract!Spec
=============================================================================
