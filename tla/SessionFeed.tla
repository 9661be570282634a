----------------------------- MODULE SessionFeed -----------------------------
(***************************************************************************)
(* How browser pages follow the turns of one session: the manager's attach *)
(* and create commands register a bounded subscription and capture the     *)
(* running turn, the request builds a snapshot from the database and this  *)
(* capture, sends it as the first frame and goes on with the subscription  *)
(* (backend/services/session_manager.py, subscription.py,                  *)
(* session_history.py, backend/routes/chat.py), and the page folds both    *)
(* and reconnects when its stream breaks (frontend/src/lib/use-session.ts, *)
(* session-state.ts).                                                      *)
(*                                                                         *)
(* A page has one connection at a time.  The runtime is reduced to what    *)
(* the feed sees of it: what it committed and what it published.  How a    *)
(* turn is settled after a failed write is the subject of SessionTurns.    *)
(***************************************************************************)
EXTENDS Naturals, Sequences, FiniteSets

CONSTANTS
  Page,         \* browser pages
  Turn,         \* identifiers of turns
  NoTurn,       \* the absent turn (None, null)
  MaxProgress,  \* bound on the events between turn.started and the end
  QueueLimit,   \* settings.session_command_limit
  FeedLimit,    \* settings.subscription_max_events
  IdleTicks,    \* settings.session_idle_seconds in retry delays of a page
                \* (at most 10 s); 0: the reaper may act at any time
  MaxFaults,    \* bound on failing database calls
  MaxLost       \* bound on failing snapshots and broken connections

ASSUME NoTurnAssumption == NoTurn \notin Turn
ASSUME BoundsAssumption ==
  /\ {MaxProgress, IdleTicks, MaxFaults, MaxLost} \subseteq Nat
  /\ {QueueLimit, FeedLimit} \subseteq Nat \ {0}

TurnOrNone == Turn \cup {NoTurn}

(* An event of a turn: its number, and whether it is the terminal one.     *)
Event == [turn : Turn, n : 1..(MaxProgress + 2), end : BOOLEAN]

VARIABLES
  row,     \* status of the turn's row: none, open, ended
  saved,   \* events of the turn that are committed
  seen,    \* events of the turn that were applied to its view and published
  phase,   \* the runtime: unborn, begin, stream, finish, closed
  mgr,     \* the registry entry: absent, ready, closing
  active,  \* manager.active_turn_id
  current, \* manager.runtime
  broken,  \* manager.broken
  queue,   \* manager.commands
  cmd,     \* the command _run is executing and where it waits
  sub,     \* the page's Subscription
  stage,   \* the page's request
  ctx,     \* the page's ResumeContext, then its snapshot
  view,    \* what the page shows of the turn it takes for active
  quiet,   \* ticks since manager.last_activity
  due,     \* pages whose retry timer is due in this tick
  faults, lost

turnVars  == <<row, saved, seen, phase>>
mgrVars   == <<mgr, active, current, broken>>
cmdVars   == <<queue, cmd>>
pageVars  == <<stage, ctx, view>>
clockVars == <<quiet, due>>
boundVars == <<faults, lost>>
vars == <<turnVars, mgrVars, cmdVars, sub, pageVars, clockVars, boundVars>>

-----------------------------------------------------------------------------
Command == [op : {"create", "attach", "detach"}, page : Page, turn : TurnOrNone]
Stop == [op |-> "stop"]

NoCommand == [op |-> "none"]
Executing ==
  {NoCommand} \cup
  [op : {"create", "attach"}, page : Page, turn : TurnOrNone, wait : {"begun", "list"}]

(* registered: in manager.subscribers, and not closed.  loaded: the manager *)
(* it was made by is not yet closed.                                       *)
Subscription == [registered : BOOLEAN, loaded : BOOLEAN, q : Seq(Event)]
NoSubscription == [registered |-> FALSE, loaded |-> TRUE, q |-> << >>]
NewSubscription == [NoSubscription EXCEPT !.registered = TRUE]
Stopped == [NoSubscription EXCEPT !.loaded = FALSE]

(* captured: current_turn holds a copy of the view.  shown, over: what of  *)
(* the active turn is captured, then what the snapshot holds of it.        *)
Context == [turn : TurnOrNone, captured : BOOLEAN, shown : Nat, over : BOOLEAN]
NoContext == [turn |-> NoTurn, captured |-> FALSE, shown |-> 0, over |-> FALSE]

(* over: the turn is shown with a final status.                            *)
View == [turn : TurnOrNone, shown : Nat, over : BOOLEAN]
NoView == [turn |-> NoTurn, shown |-> 0, over |-> FALSE]

(* asked: its command is queued or executed; dropped: so, but the caller   *)
(* was cancelled; replied: the reply is set; build, built: the snapshot is *)
(* read in a thread, and is read; leaving, parting: its detach is queued,  *)
(* and the page will retry or not.                                         *)
Stage == {"idle", "retry", "asked", "dropped", "replied", "build", "built",
          "stream", "leaving", "parting"}

TypeOK ==
  /\ row \in [Turn -> {"none", "open", "ended"}]
  /\ saved \in [Turn -> 0..(MaxProgress + 2)]
  /\ seen \in [Turn -> 0..(MaxProgress + 2)]
  /\ phase \in [Turn -> {"unborn", "begin", "stream", "finish", "closed"}]
  /\ mgr \in {"absent", "ready", "closing"}
  /\ active \in TurnOrNone /\ current \in TurnOrNone
  /\ broken \in BOOLEAN
  /\ queue \in Seq(Command \cup {Stop})
  /\ cmd \in Executing
  /\ sub \in [Page -> Subscription]
  /\ \A p \in Page : Len(sub[p].q) <= FeedLimit
  /\ stage \in [Page -> Stage]
  /\ ctx \in [Page -> Context]
  /\ view \in [Page -> View]
  /\ quiet \in 0..IdleTicks
  /\ due \subseteq Page
  /\ faults \in 0..MaxFaults
  /\ lost \in 0..MaxLost

Init ==
  /\ row = [t \in Turn |-> "none"]
  /\ saved = [t \in Turn |-> 0]
  /\ seen = [t \in Turn |-> 0]
  /\ phase = [t \in Turn |-> "unborn"]
  /\ mgr = "absent"
  /\ active = NoTurn /\ current = NoTurn
  /\ broken = FALSE
  /\ queue = << >> /\ cmd = NoCommand
  /\ sub = [p \in Page |-> NoSubscription]
  /\ stage = [p \in Page |-> "idle"]
  /\ ctx = [p \in Page |-> NoContext]
  /\ view = [p \in Page |-> NoView]
  /\ quiet = 0 /\ due = {}
  /\ faults = 0 /\ lost = 0

-----------------------------------------------------------------------------
(* Mutant of Published: one event more than the limit. *)
PublishedBeyond(s, e) ==
  IF ~s.registered THEN s
  ELSE IF Len(s.q) <= FeedLimit THEN [s EXCEPT !.q = Append(s.q, e)]
  ELSE NoSubscription

(* Mutant of Published: the event that does not fit is dropped. *)
PublishedLossy(s, e) ==
  IF s.registered /\ Len(s.q) < FeedLimit THEN [s EXCEPT !.q = Append(s.q, e)] ELSE s

(* Subscription.publish on every subscriber: an overflow closes the queue  *)
(* of this subscriber only, and drops what it held.                        *)
Published(s, e) ==
  IF ~s.registered THEN s
  ELSE IF Len(s.q) < FeedLimit THEN [s EXCEPT !.q = Append(s.q, e)]
  ELSE NoSubscription

Broadcast(e) == sub' = [p \in Page |-> Published(sub[p], e)]

(* SessionManager.fail(): the subscribers are closed, the claim and the    *)
(* runtime are dropped.                                                    *)
Fail ==
  /\ faults < MaxFaults /\ faults' = faults + 1
  /\ broken' = TRUE
  /\ active' = NoTurn
  /\ current' = NoTurn
  /\ sub' = [p \in Page |-> NoSubscription]
  /\ UNCHANGED <<mgr, lost>>

-----------------------------------------------------------------------------
(* The runtime: each event is committed by a thread, then taken up by the  *)
(* loop, which applies it to the view and publishes it.                    *)

BeginCommit(t) ==
  /\ phase[t] = "begin" /\ row[t] = "none"
  /\ row' = [row EXCEPT ![t] = "open"]
  /\ saved' = [saved EXCEPT ![t] = 1]
  /\ UNCHANGED <<seen, phase, mgrVars, cmdVars, sub, pageVars, clockVars, boundVars>>

TakeUp(t, end) ==
  /\ saved[t] = seen[t] + 1
  /\ seen' = [seen EXCEPT ![t] = saved[t]]
  /\ Broadcast([turn |-> t, n |-> saved[t], end |-> end])
  /\ UNCHANGED <<row, saved, mgr, broken, cmdVars, pageVars, clockVars, boundVars>>

BeginTakenUp(t) ==
  /\ phase[t] = "begin" /\ TakeUp(t, FALSE)
  /\ phase' = [phase EXCEPT ![t] = "stream"]
  /\ active' = t
  /\ UNCHANGED current

EventCommit(t) ==
  /\ phase[t] = "stream" /\ saved[t] = seen[t] /\ saved[t] <= MaxProgress
  /\ saved' = [saved EXCEPT ![t] = saved[t] + 1]
  /\ UNCHANGED <<row, seen, phase, mgrVars, cmdVars, sub, pageVars, clockVars, boundVars>>

EventTakenUp(t) ==
  /\ phase[t] = "stream" /\ TakeUp(t, FALSE)
  /\ UNCHANGED <<phase, active, current>>

(* From here the view is no longer captured: status is not "queued".       *)
FinishAsked(t) ==
  /\ phase[t] = "stream" /\ saved[t] = seen[t]
  /\ phase' = [phase EXCEPT ![t] = "finish"]
  /\ UNCHANGED <<row, saved, seen, mgrVars, cmdVars, sub, pageVars, clockVars, boundVars>>

FinishCommit(t) ==
  /\ phase[t] = "finish" /\ row[t] = "open"
  /\ row' = [row EXCEPT ![t] = "ended"]
  /\ saved' = [saved EXCEPT ![t] = saved[t] + 1]
  /\ UNCHANGED <<seen, phase, mgrVars, cmdVars, sub, pageVars, clockVars, boundVars>>

FinishTakenUp(t) ==
  /\ phase[t] = "finish" /\ TakeUp(t, TRUE)
  /\ phase' = [phase EXCEPT ![t] = "closed"]
  /\ active' = NoTurn
  /\ current' = NoTurn

(* A write fails: the runtime gives up and leaves the row to the recovery. *)
WriteFault(t) ==
  /\ \/ phase[t] = "begin" /\ row[t] = "none"
     \/ phase[t] = "stream" /\ saved[t] = seen[t]
     \/ phase[t] = "finish" /\ row[t] = "open"
  /\ phase' = [phase EXCEPT ![t] = "closed"]
  /\ Fail
  /\ UNCHANGED <<row, saved, seen, cmdVars, pageVars, clockVars>>

Orphaned(t) == phase[t] = "closed" /\ row[t] = "open"
Recover(t) ==
  /\ Orphaned(t)
  /\ row' = [row EXCEPT ![t] = "ended"]
  /\ saved' = [saved EXCEPT ![t] = saved[t] + 1]
  /\ UNCHANGED <<seen, phase, mgrVars, cmdVars, sub, pageVars, clockVars, boundVars>>

-----------------------------------------------------------------------------
(* The page's requests.  get_or_create and every command mark the manager  *)
(* as active.                                                              *)

Accepts == mgr = "ready" /\ Len(queue) < QueueLimit

Request(p, op, t) ==
  /\ ~sub[p].registered /\ mgr # "absent"
  /\ due' = due \ {p}
  /\ view' = [view EXCEPT ![p] = IF op = "create" THEN NoView ELSE @]
  /\ IF Accepts
     THEN /\ queue' = Append(queue, [op |-> op, page |-> p, turn |-> t])
          /\ stage' = [stage EXCEPT ![p] = "asked"]
     ELSE /\ stage' = [stage EXCEPT ![p] = "retry"]
          /\ UNCHANGED queue
  /\ quiet' = IF mgr = "ready" THEN 0 ELSE quiet
  /\ UNCHANGED <<turnVars, mgrVars, cmd, sub, ctx, boundVars>>

(* A page is opened, asks a question, or its retry timer fires: it never   *)
(* sends the question again.  The identifier of the turn to be is fresh.   *)
Open(p) == stage[p] = "idle" /\ Request(p, "attach", NoTurn)
Send(p, t) ==
  /\ stage[p] = "idle" /\ view[p].turn = NoTurn
  /\ phase[t] = "unborn"
  /\ \A i \in DOMAIN queue : queue[i].op = "create" => queue[i].turn # t
  /\ Request(p, "create", t)
Retry(p) == stage[p] = "retry" /\ Request(p, "attach", NoTurn)

(* The request is cancelled: what its command registers, or registered     *)
(* without being received, is recycled.                                    *)
CallerCancelled(p) ==
  /\ lost < MaxLost /\ lost' = lost + 1
  /\ \/ stage[p] = "asked" /\ stage' = [stage EXCEPT ![p] = "dropped"] /\ UNCHANGED sub
     \/ /\ stage[p] = "replied" /\ stage' = [stage EXCEPT ![p] = "idle"]
        /\ sub' = [sub EXCEPT ![p] = NoSubscription]
  /\ view' = [view EXCEPT ![p] = NoView]
  /\ UNCHANGED <<turnVars, mgrVars, cmdVars, ctx, clockVars, faults>>

-----------------------------------------------------------------------------
(* _run and the handlers.                                                  *)

Take(op, p, t) ==
  /\ cmd = NoCommand /\ queue # << >>
  /\ Head(queue) = [op |-> op, page |-> p, turn |-> t]
  /\ queue' = Tail(queue)
  /\ quiet' = 0 /\ UNCHANGED due

(* The handler raises: the request answers an error, the page retries.     *)
ErrorReply(p) ==
  stage' = [stage EXCEPT ![p] = IF @ = "dropped" THEN "idle" ELSE "retry"]

Rejected(p) ==
  /\ \/ Take("attach", p, NoTurn) /\ broken
     \/ \E t \in Turn : Take("create", p, t) /\ (broken \/ active # NoTurn)
  /\ ErrorReply(p)
  /\ UNCHANGED <<turnVars, mgrVars, cmd, sub, ctx, view, boundVars>>

Attach(p) ==
  /\ Take("attach", p, NoTurn) /\ ~broken
  /\ cmd' = [op |-> "attach", page |-> p, turn |-> NoTurn, wait |-> "list"]
  /\ UNCHANGED <<turnVars, mgrVars, sub, pageVars, boundVars>>

Create(p, t) ==
  /\ Take("create", p, t) /\ ~broken /\ active = NoTurn
  /\ phase' = [phase EXCEPT ![t] = "begin"]
  /\ current' = t
  /\ cmd' = [op |-> "create", page |-> p, turn |-> t, wait |-> "begun"]
  /\ UNCHANGED <<row, saved, seen, mgr, active, broken, sub, pageVars, boundVars>>

CreateBegun ==
  /\ cmd.op = "create" /\ cmd.wait = "begun" /\ seen[cmd.turn] > 0
  /\ cmd' = [cmd EXCEPT !.wait = "list"]
  /\ UNCHANGED <<turnVars, mgrVars, queue, sub, pageVars, clockVars, boundVars>>

CreateBeginError ==
  /\ cmd.op = "create" /\ cmd.wait = "begun"
  /\ phase[cmd.turn] = "closed" /\ seen[cmd.turn] = 0
  /\ ErrorReply(cmd.page)
  /\ cmd' = NoCommand
  /\ UNCHANGED <<turnVars, mgrVars, queue, sub, ctx, view, clockVars, boundVars>>

(* The end of _handle_attach and _handle_create: capture and registration  *)
(* are one step.  A create captures its own turn, an attach the running    *)
(* one while its status is "queued".                                       *)
Captured ==
  LET t == IF cmd.op = "create" THEN cmd.turn ELSE current
      taken == t # NoTurn /\ (cmd.op = "create" \/ phase[t] \in {"begin", "stream"})
  IN [turn |-> active, captured |-> taken,
      shown |-> IF taken THEN seen[t] ELSE 0, over |-> FALSE]

(* Mutant of Registered: the caller's cancellation is not noticed. *)
RegisteredAnyway ==
  /\ cmd # NoCommand /\ cmd.wait = "list"
  /\ cmd' = NoCommand
  /\ stage' = [stage EXCEPT ![cmd.page] = IF @ = "dropped" THEN "idle" ELSE "replied"]
  /\ sub' = [sub EXCEPT ![cmd.page] = NewSubscription]
  /\ ctx' = [ctx EXCEPT ![cmd.page] = Captured]
  /\ UNCHANGED <<turnVars, mgrVars, queue, view, clockVars, boundVars>>

Registered ==
  /\ cmd # NoCommand /\ cmd.wait = "list"
  /\ cmd' = NoCommand
  /\ LET p == cmd.page IN
     IF stage[p] = "dropped"
     THEN /\ stage' = [stage EXCEPT ![p] = "idle"]
          /\ UNCHANGED <<sub, ctx>>
     ELSE /\ stage' = [stage EXCEPT ![p] = "replied"]
          /\ sub' = [sub EXCEPT ![p] = NewSubscription]
          /\ ctx' = [ctx EXCEPT ![p] = Captured]
  /\ UNCHANGED <<turnVars, mgrVars, queue, view, clockVars, boundVars>>

ListFault ==
  /\ cmd # NoCommand /\ cmd.wait = "list"
  /\ Fail
  /\ phase' = IF current = NoTurn THEN phase ELSE [phase EXCEPT ![current] = "closed"]
  /\ ErrorReply(cmd.page)
  /\ cmd' = NoCommand
  /\ UNCHANGED <<row, saved, seen, queue, ctx, view, clockVars>>

Detach(p) ==
  /\ Take("detach", p, NoTurn)
  /\ sub' = [sub EXCEPT ![p] = NoSubscription]
  /\ stage' = [stage EXCEPT ![p] = IF @ = "leaving" THEN "retry" ELSE "idle"]
  /\ UNCHANGED <<turnVars, mgrVars, cmd, ctx, view, boundVars>>

-----------------------------------------------------------------------------
(* _response: snapshot, first frame, stream, and a detach on every way out *)
(* (refused by a full queue or a closing manager, void once it is closed). *)

After(retry) == IF retry THEN "retry" ELSE "idle"

Leave(p, retry) ==
  IF sub[p].loaded /\ Accepts
  THEN /\ queue' = Append(queue, [op |-> "detach", page |-> p, turn |-> NoTurn])
       /\ stage' = [stage EXCEPT ![p] = IF retry THEN "leaving" ELSE "parting"]
  ELSE /\ stage' = [stage EXCEPT ![p] = After(retry)]
       /\ UNCHANGED queue

ReplyTaken(p) ==
  /\ stage[p] = "replied"
  /\ stage' = [stage EXCEPT ![p] = "build"]
  /\ UNCHANGED <<turnVars, mgrVars, cmdVars, sub, ctx, view, clockVars, boundVars>>

(* Mutant of SnapshotRead: the captured view is ignored. *)
SnapshotReadRows(p) ==
  /\ stage[p] = "build"
  /\ stage' = [stage EXCEPT ![p] = "built"]
  /\ LET t == ctx[p].turn IN
     ctx' = IF t = NoTurn THEN ctx
            ELSE [ctx EXCEPT ![p].shown = saved[t], ![p].over = row[t] = "ended"]
  /\ UNCHANGED <<turnVars, mgrVars, cmdVars, sub, view, clockVars, boundVars>>

(* build_snapshot in its thread: the captured turn, or what the database   *)
(* holds of it by now.  A turn that is not captured is past its stream: an *)
(* event that no whole group of its rows holds by now never will be shown  *)
(* from them (_finish drops pending_groups), and is counted as dealt with. *)
SnapshotRead(p) ==
  /\ stage[p] = "build"
  /\ stage' = [stage EXCEPT ![p] = "built"]
  /\ LET c == ctx[p] IN
     ctx' = IF c.captured \/ c.turn = NoTurn THEN ctx
            ELSE [ctx EXCEPT ![p].shown = saved[c.turn], ![p].over = row[c.turn] = "ended"]
  /\ UNCHANGED <<turnVars, mgrVars, cmdVars, sub, view, clockVars, boundVars>>

(* The snapshot fails or takes too long, or the connection breaks: the     *)
(* page retries, or it was closed.                                         *)
Lost(p) ==
  /\ lost < MaxLost /\ lost' = lost + 1
  /\ \E retry \in BOOLEAN :
       /\ Leave(p, retry)
       /\ view' = IF retry THEN view ELSE [view EXCEPT ![p] = NoView]
  /\ UNCHANGED <<turnVars, mgrVars, cmd, sub, ctx, clockVars, faults>>

SnapshotFails(p) == stage[p] \in {"build", "built"} /\ Lost(p)
Disconnected(p) == stage[p] = "stream" /\ Lost(p)

(* A subscription that was closed meanwhile is not served.                 *)
FirstFrame(p) ==
  /\ stage[p] = "built"
  /\ IF sub[p].registered
     THEN /\ stage' = [stage EXCEPT ![p] = "stream"]
          /\ view' = [view EXCEPT ![p] =
                        [turn |-> ctx[p].turn, shown |-> ctx[p].shown, over |-> ctx[p].over]]
          /\ UNCHANGED queue
     ELSE Leave(p, TRUE) /\ UNCHANGED view
  /\ UNCHANGED <<turnVars, mgrVars, cmd, sub, ctx, clockVars, boundVars>>

(* applySessionEvent: nothing changes a turn that is shown as over.        *)
Applied(v, e) ==
  IF e.turn # v.turn \/ v.over THEN v
  ELSE [turn |-> IF e.end THEN NoTurn ELSE v.turn, shown |-> v.shown + 1, over |-> e.end]

(* The stream forwards the next event, and ends behind the terminal event  *)
(* of the turn that was active in its first frame.  A page that still      *)
(* shows an active turn then takes its stream for interrupted.             *)
EventSent(p) ==
  /\ stage[p] = "stream" /\ ctx[p].turn # NoTurn
  /\ sub[p].q # << >>
  /\ LET e == Head(sub[p].q) IN
     /\ sub' = [sub EXCEPT ![p].q = Tail(@)]
     /\ view' = [view EXCEPT ![p] = Applied(view[p], e)]
     /\ IF e.end /\ e.turn = ctx[p].turn
        THEN Leave(p, view'[p].turn # NoTurn)
        ELSE UNCHANGED <<stage, queue>>
  /\ UNCHANGED <<turnVars, mgrVars, cmd, ctx, clockVars, boundVars>>

(* Mutant of StreamEnds: a closed subscription counts as a normal end. *)
StreamEndsQuietly(p) ==
  /\ stage[p] = "stream"
  /\ ctx[p].turn = NoTurn \/ ~sub[p].registered
  /\ Leave(p, FALSE)
  /\ UNCHANGED <<turnVars, mgrVars, cmd, sub, ctx, view, clockVars, boundVars>>

(* No turn was active, or the subscription was closed.                     *)
StreamEnds(p) ==
  /\ stage[p] = "stream"
  /\ ctx[p].turn = NoTurn \/ ~sub[p].registered
  /\ Leave(p, view[p].turn # NoTurn)
  /\ UNCHANGED <<turnVars, mgrVars, cmd, sub, ctx, view, clockVars, boundVars>>

-----------------------------------------------------------------------------
(* The registry's side: the reaper, the stop command, a load.              *)

ManagerIdle ==
  /\ active = NoTurn /\ current = NoTurn /\ queue = << >>
  /\ \A p \in Page : ~sub[p].registered

Evict ==
  /\ mgr = "ready" /\ ManagerIdle /\ quiet = IdleTicks
  /\ mgr' = "closing"
  /\ queue' = <<Stop>>
  /\ UNCHANGED <<turnVars, active, current, broken, cmd, sub, pageVars, clockVars, boundVars>>

(* Behind the recovery close() waits for.                                  *)
HandleStop ==
  /\ cmd = NoCommand /\ queue # << >> /\ Head(queue) = Stop
  /\ \A t \in Turn : ~Orphaned(t)
  /\ mgr' = "absent" /\ active' = NoTurn /\ current' = NoTurn /\ broken' = FALSE
  /\ queue' = << >>
  /\ sub' = [p \in Page |-> Stopped]
  /\ UNCHANGED <<turnVars, cmd, pageVars, clockVars, boundVars>>

(* All turns are settled: the row that is loaded has no active turn.       *)
Load ==
  /\ mgr = "absent"
  /\ mgr' = "ready"
  /\ quiet' = 0
  /\ UNCHANGED <<turnVars, active, current, broken, cmdVars, sub, pageVars, due, boundVars>>

(* Time: a retry timer fires within the tick it is due in, and the queue   *)
(* and the database are quick compared with a tick.                        *)
Tick ==
  /\ due = {} /\ queue = << >> /\ cmd = NoCommand
  /\ quiet < IdleTicks
  /\ quiet' = quiet + 1
  /\ due' = {p \in Page : stage[p] = "retry"}
  /\ UNCHANGED <<turnVars, mgrVars, cmdVars, sub, pageVars, boundVars>>

-----------------------------------------------------------------------------
RuntimeStep(t) ==
  \/ BeginCommit(t) \/ BeginTakenUp(t) \/ EventCommit(t) \/ EventTakenUp(t)
  \/ FinishAsked(t) \/ FinishCommit(t) \/ FinishTakenUp(t) \/ Recover(t)

Handlers ==
  \/ \E p \in Page : Rejected(p) \/ Attach(p) \/ Detach(p) \/ \E t \in Turn : Create(p, t)
  \/ CreateBegun \/ CreateBeginError \/ Registered \/ HandleStop

Response(p) ==
  ReplyTaken(p) \/ SnapshotRead(p) \/ FirstFrame(p) \/ EventSent(p) \/ StreamEnds(p)

Next ==
  \/ Handlers \/ ListFault \/ Evict \/ Load \/ Tick
  \/ \E t \in Turn : RuntimeStep(t) \/ WriteFault(t)
  \/ \E p \in Page :
       \/ Open(p) \/ Retry(p) \/ (\E t \in Turn : Send(p, t))
       \/ CallerCancelled(p)
       \/ Response(p) \/ SnapshotFails(p) \/ Disconnected(p)

Spec == Init /\ [][Next]_vars

(* The event loop, its threads and the reaper go on, a turn ends (its RPC  *)
(* has a deadline) and the timer of a retrying page fires.                 *)
Fairness ==
  /\ WF_vars(Handlers) /\ WF_vars(Evict) /\ WF_vars(Load) /\ WF_vars(Tick)
  /\ \A t \in Turn : WF_vars(RuntimeStep(t)) /\ SF_vars(FinishAsked(t))
  /\ \A p \in Page : WF_vars(Retry(p)) /\ WF_vars(Response(p))

FairSpec == Spec /\ Fairness

-----------------------------------------------------------------------------
(* Events of turn t that wait for the page.                                *)
Waiting(p, t) == Cardinality({i \in DOMAIN sub[p].q : sub[p].q[i].turn = t})

(* As long as its subscription is open, what the page shows of the turn it *)
(* follows and what waits for it are together every event that was         *)
(* published, and none of them twice, unless the snapshot already showed   *)
(* the turn as over (SESSION_MANAGER.md section 7: no repeat, no gap).  In *)
(* a snapshot read from rows, events of unfinished groups show nothing.    *)
ExactlyOnce ==
  \A p \in Page :
    LET t == ctx[p].turn IN
    sub[p].registered /\ t # NoTurn =>
      /\ stage[p] \in {"replied", "build"} /\ ctx[p].captured
           => ctx[p].shown + Waiting(p, t) = seen[t]
      /\ stage[p] = "built" /\ ~ctx[p].over => ctx[p].shown + Waiting(p, t) = seen[t]
      /\ stage[p] = "stream" /\ ~view[p].over => view[p].shown + Waiting(p, t) = seen[t]

(* A reader that follows a turn will hear of its end: the turn still runs, *)
(* under the manager that will publish it, or its end waits in the queue.  *)
ReadersWillHear ==
  \A p \in Page :
    LET t == ctx[p].turn
        end == [turn |-> t, n |-> seen[t], end |-> TRUE]
    IN sub[p].registered /\ t # NoTurn
       /\ stage[p] \in {"replied", "build", "built", "stream"}
         => \/ current = t /\ phase[t] \in {"stream", "finish"}
            \/ \E i \in DOMAIN sub[p].q : sub[p].q[i] = end

(* A subscription of a manager that is not being closed has a request that *)
(* reads it or will detach it: _ask, _run and _response release it on      *)
(* every way out, unless the command queue refuses the detach.             *)
SubscriptionsAreRead ==
  \A p \in Page : mgr = "ready" /\ sub[p].registered =>
    stage[p] \in {"replied", "build", "built", "stream", "leaving", "parting"}

(* A page that shows an active turn does not show it for ever: the events  *)
(* or a new snapshot bring its end, whatever breaks in between.            *)
PagesSettle == \A p \in Page, t \in Turn : view[p].turn = t ~> view[p].turn # t
=============================================================================
