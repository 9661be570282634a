--------------------------- MODULE SessionRegistry ---------------------------
(***************************************************************************)
(* The registry of session managers (src/backend/services/                 *)
(* session_registry.py): requests that load a manager or find one, the     *)
(* reaper that closes idle ones, and the end of the application.           *)
(*                                                                         *)
(* The global lock guards sections without any await, so that each section *)
(* is one step and nobody ever waits for the lock; a request that gets a   *)
(* manager puts its command into the queue in the same step.  A manager is *)
(* reduced to its command queue, the command that is executed, and whether *)
(* it is busy: with a runtime or, for idle(), with a subscriber.           *)
(***************************************************************************)
EXTENDS Naturals, Sequences, SequencesExt, FiniteSets, FiniteSetsExt, TLC

CONSTANTS
    Session,
    Request,       \* the requests made to the application
    None,          \* no request, no session
    Stop,          \* the command that ends a manager
    MaxManagers    \* bound: managers made

ASSUME RegistryAssumption ==
    /\ None \notin Session \cup Request /\ Stop \notin Request
    /\ MaxManagers \in Nat

VARIABLES
    entry,         \* entries of the registry, by session
    manager,       \* the managers made so far
    request,       \* what each request is at
    reaper,        \* the managers it is closing, in order
    closing,       \* the managers that close() waits for
    app            \* "up", "closing" (the reaper is cancelled), "waiting", "closed"

vars == <<entry, manager, request, reaper, closing, app>>

Absent == [state |-> "absent", manager |-> 0]
Creating == [state |-> "CREATING", manager |-> 0]

(* state: "running", "waits" (for its runtime), "stopping", "stopped".     *)
Fresh(s) == [session |-> s, state |-> "running", queue |-> <<>>, command |-> None,
             busy |-> FALSE, quiet |-> FALSE]

Asking(s) == [at |-> "load", session |-> s, manager |-> 0]
Over(how) == [at |-> how, session |-> None, manager |-> 0]

Init ==
    /\ entry = [s \in Session |-> Absent]
    /\ manager = <<>>
    /\ request = [r \in Request |-> Over("unborn")]
    /\ reaper = <<>> /\ closing = {} /\ app = "up"

(* SessionManager.close up to its first await.                             *)
Closing(m) ==
    IF m.state # "running" THEN m
    ELSE IF m.busy THEN [m EXCEPT !.state = "waits"]
    ELSE [m EXCEPT !.state = "stopping", !.queue = Append(@, Stop)]

(***************************************************************************)
(* Requests                                                                *)
(***************************************************************************)

(* _ask, in the step in which the request gets the manager.                *)
Ask(managers, r, k) ==
    IF managers[k].state = "running"
    THEN /\ manager' = [managers EXCEPT ![k].queue = Append(@, r), ![k].quiet = FALSE]
         /\ request' = [request EXCEPT ![r] =
                          [at |-> "waits", session |-> managers[k].session, manager |-> k]]
    ELSE /\ manager' = managers
         /\ request' = [request EXCEPT ![r] = Over("refused")]

Arrives(r) == app = "up" /\ request[r].at = "unborn"

(* Mutant of GetOrCreate: whoever finds no manager loads one. *)
GetOrLoad(r, s) ==
    /\ Arrives(r)
    /\ IF entry[s].state = "READY"
       THEN Ask(manager, r, entry[s].manager) /\ UNCHANGED entry
       ELSE /\ entry' = [entry EXCEPT ![s] = Creating]
            /\ request' = [request EXCEPT ![r] = Asking(s)]
            /\ UNCHANGED manager
    /\ UNCHANGED <<reaper, closing, app>>

(* get_or_begin_create: the session's manager, the right to load it, or a  *)
(* conflict.                                                               *)
GetOrCreate(r, s) ==
    /\ Arrives(r)
    /\ CASE entry[s].state = "absent" ->
              /\ entry' = [entry EXCEPT ![s] = Creating]
              /\ request' = [request EXCEPT ![r] = Asking(s)]
              /\ UNCHANGED manager
         [] entry[s].state = "READY" ->
              Ask(manager, r, entry[s].manager) /\ UNCHANGED entry
         [] OTHER ->
              request' = [request EXCEPT ![r] = Over("refused")] /\ UNCHANGED <<entry, manager>>
    /\ UNCHANGED <<reaper, closing, app>>

(* get(), of a cancel: it never loads.                                     *)
Get(r, s) ==
    /\ Arrives(r)
    /\ IF entry[s].state = "READY"
       THEN Ask(manager, r, entry[s].manager)
       ELSE request' = [request EXCEPT ![r] = Over("refused")] /\ UNCHANGED manager
    /\ UNCHANGED <<entry, reaper, closing, app>>

(* Mutant of Aborted: only the failures of finish_create give it back. *)
AbortedNever(s) == entry

(* abort_create                                                            *)
Aborted(s) == IF entry[s].state = "CREATING" THEN [entry EXCEPT ![s] = Absent] ELSE entry

(* No such session, or the database fails.                                 *)
LoadFails(r) ==
    /\ request[r].at = "load"
    /\ entry' = Aborted(request[r].session)
    /\ request' = [request EXCEPT ![r] = Over("refused")]
    /\ UNCHANGED <<manager, reaper, closing, app>>

(* The thread has read the session: the manager is made and finish_create  *)
(* puts it into the registry.  It fails when close() dropped the entry,    *)
(* and the manager that nobody knows is closed again.                      *)
Loaded(r) ==
    LET s == request[r].session
        k == Len(manager) + 1
        managers == Append(manager, Fresh(s))
    IN /\ request[r].at = "load" /\ k <= MaxManagers
       /\ IF entry[s].state = "CREATING"
          THEN /\ entry' = [entry EXCEPT ![s] = [state |-> "READY", manager |-> k]]
               /\ Ask(managers, r, k)
          ELSE /\ manager' = [managers EXCEPT ![k] = Closing(@)]
               /\ request' = [request EXCEPT ![r].at = "discard", ![r].manager = k]
               /\ UNCHANGED entry
       /\ UNCHANGED <<reaper, closing, app>>

(* created.close() returned: abort_create, and the error is raised.        *)
Discarded(r) ==
    /\ request[r].at = "discard"
    /\ manager[request[r].manager].state = "stopped"
    /\ entry' = Aborted(request[r].session)
    /\ request' = [request EXCEPT ![r] = Over("refused")]
    /\ UNCHANGED <<manager, reaper, closing, app>>

(* The request's coroutine is cancelled: a load is given up, the wait for  *)
(* a manager's task cancels the task, a command stays in the queue.        *)
CallerCancelled(r) ==
    /\ request[r].at \in {"load", "discard", "waits"}
    /\ entry' = IF request[r].at = "waits" THEN entry ELSE Aborted(request[r].session)
    /\ manager' = IF request[r].at = "discard"
                  THEN [manager EXCEPT ![request[r].manager].state = "stopped"] ELSE manager
    /\ request' = [request EXCEPT ![r] = Over("cancelled")]
    /\ UNCHANGED <<reaper, closing, app>>

(***************************************************************************)
(* Managers                                                                *)
(***************************************************************************)

Works(k) == manager[k].state # "stopped" /\ manager[k].command = None

(* _run takes the next command; a create has a runtime, an attach a        *)
(* subscriber, from here on.                                               *)
Take(k) ==
    LET m == manager[k] IN
    /\ Works(k) /\ m.queue # <<>> /\ Head(m.queue) # Stop
    /\ \E starts \in BOOLEAN :
          manager' = [manager EXCEPT ![k] =
             [m EXCEPT !.command = Head(m.queue), !.queue = Tail(m.queue),
                       !.busy = m.busy \/ starts, !.quiet = FALSE]]
    /\ UNCHANGED <<entry, request, reaper, closing, app>>

Answer(k) ==
    LET r == manager[k].command IN
    /\ manager[k].state # "stopped" /\ r # None
    /\ manager' = [manager EXCEPT ![k].command = None]
    /\ request' = IF request[r].at = "waits"
                  THEN [request EXCEPT ![r] = Over("answered")] ELSE request
    /\ UNCHANGED <<entry, reaper, closing, app>>

(* The turn ends, the subscriber leaves.                                   *)
Rest(k) ==
    /\ manager[k].busy
    /\ manager' = [manager EXCEPT ![k].busy = FALSE]
    /\ UNCHANGED <<entry, request, reaper, closing, app>>

(* close(): the runtime it cancelled has ended.                            *)
RuntimeClosed(k) ==
    /\ manager[k].state = "waits" /\ ~manager[k].busy
    /\ manager' = [manager EXCEPT ![k].state = "stopping", ![k].queue = Append(@, Stop)]
    /\ UNCHANGED <<entry, request, reaper, closing, app>>

HandleStop(k) ==
    /\ Works(k) /\ manager[k].queue # <<>> /\ Head(manager[k].queue) = Stop
    /\ manager' = [manager EXCEPT ![k].queue = Tail(@), ![k].state = "stopped"]
    /\ UNCHANGED <<entry, request, reaper, closing, app>>

(***************************************************************************)
(* The reaper and the end of the application                               *)
(***************************************************************************)

(* Mutant of Idle: the command queue is not looked at. *)
IdleUnasked(m) == ~m.busy

(* idle(): the command that is being executed is not seen.                 *)
Idle(m) == ~m.busy /\ m.queue = <<>>

(* session_idle_seconds pass since last_activity: of interest only where   *)
(* evict_idle would look at it.                                            *)
GoQuiet(k) ==
    /\ app = "up" /\ manager[k].state = "running" /\ ~manager[k].quiet
    /\ Idle(manager[k])
    /\ manager' = [manager EXCEPT ![k].quiet = TRUE]
    /\ UNCHANGED <<entry, request, reaper, closing, app>>

(* evict_idle marks all that are idle, then closes one after the other.    *)
Evict ==
    LET chosen == {s \in Session : /\ entry[s].state = "READY"
                                   /\ Idle(manager[entry[s].manager])
                                   /\ manager[entry[s].manager].quiet}
    IN /\ app = "up" /\ reaper = <<>> /\ chosen # {}
       /\ \E order \in SetToSeqs({entry[s].manager : s \in chosen}) :
             /\ reaper' = order
             /\ manager' = [manager EXCEPT ![order[1]] = Closing(@)]
       /\ entry' = [s \in Session |->
                      IF s \in chosen THEN [entry[s] EXCEPT !.state = "CLOSING"] ELSE entry[s]]
       /\ UNCHANGED <<request, closing, app>>

(* Mutant of Unregistered: the entry keeps its manager. *)
UnregisteredHalf(k) ==
    [s \in Session |->
       IF entry[s].state = "CLOSING" /\ entry[s].manager = k
       THEN [entry[s] EXCEPT !.state = "absent"] ELSE entry[s]]

Unregistered(k) ==
    [s \in Session |->
       IF entry[s].state = "CLOSING" /\ entry[s].manager = k THEN Absent ELSE entry[s]]

(* close() returned: the entry goes, and the next manager is closed.       *)
Evicted ==
    /\ app = "up" /\ reaper # <<>> /\ manager[Head(reaper)].state = "stopped"
    /\ entry' = Unregistered(Head(reaper))
    /\ reaper' = Tail(reaper)
    /\ manager' = IF Len(reaper) > 1 THEN [manager EXCEPT ![reaper[2]] = Closing(@)] ELSE manager
    /\ UNCHANGED <<request, closing, app>>

(* SessionRegistry.close: the reaper is cancelled.                         *)
Shutdown ==
    /\ app = "up"
    /\ app' = "closing"
    /\ UNCHANGED <<entry, manager, request, reaper, closing>>

(* Mutant of CloseManagers: only managers in service are closed. *)
CloseReadyManagers ==
    LET dying == IF reaper = <<>> THEN {} ELSE {Head(reaper)}
        kept == IF dying = {} THEN entry ELSE Unregistered(Head(reaper))
        known == {kept[s].manager : s \in {u \in Session : kept[u].state = "READY"}}
    IN /\ app = "closing"
       /\ manager' = [k \in DOMAIN manager |->
                        IF k \in dying THEN [manager[k] EXCEPT !.state = "stopped"]
                        ELSE IF k \in known THEN Closing(manager[k]) ELSE manager[k]]
       /\ closing' = known
       /\ entry' = [s \in Session |-> Absent]
       /\ reaper' = <<>> /\ app' = "waiting"
       /\ UNCHANGED request

(* The reaper ends.  If it was waiting for a manager, its cancellation     *)
(* cancelled the manager's task, command and all.  Then the entries are    *)
(* cleared, those under a load with them, and all known managers closed.   *)
CloseManagers ==
    LET dying == IF reaper = <<>> THEN {} ELSE {Head(reaper)}
        kept == IF dying = {} THEN entry ELSE Unregistered(Head(reaper))
        known == {kept[s].manager : s \in Session} \ {0}
    IN /\ app = "closing"
       /\ manager' = [k \in DOMAIN manager |->
                        IF k \in dying THEN [manager[k] EXCEPT !.state = "stopped"]
                        ELSE IF k \in known THEN Closing(manager[k]) ELSE manager[k]]
       /\ closing' = known
       /\ entry' = [s \in Session |-> Absent]
       /\ reaper' = <<>> /\ app' = "waiting"
       /\ UNCHANGED request

Closed ==
    /\ app = "waiting" /\ \A k \in closing : manager[k].state = "stopped"
    /\ app' = "closed"
    /\ UNCHANGED <<entry, manager, request, reaper, closing>>

ManagerStep(k) == Take(k) \/ Answer(k) \/ Rest(k) \/ RuntimeClosed(k) \/ HandleStop(k)

RequestStep(r) == Loaded(r) \/ LoadFails(r) \/ Discarded(r)

Next ==
    \/ \E r \in Request :
          \/ \E s \in Session : GetOrCreate(r, s) \/ Get(r, s)
          \/ RequestStep(r)
          \/ CallerCancelled(r)
    \/ \E k \in DOMAIN manager : ManagerStep(k) \/ GoQuiet(k)
    \/ Evict \/ Evicted
    \/ Shutdown \/ CloseManagers \/ Closed

(* Threads, event loop and commands go on, turns end, and so does the      *)
(* reaper's wait; nobody has to call, to cancel or to shut down, and no    *)
(* manager has to become quiet.                                            *)
Fairness ==
    /\ \A r \in Request : WF_vars(RequestStep(r))
    /\ \A k \in 1 .. MaxManagers : WF_vars(k \in DOMAIN manager /\ ManagerStep(k))
    /\ WF_vars(Evicted) /\ WF_vars(CloseManagers) /\ WF_vars(Closed)

Spec == Init /\ [][Next]_vars
FairSpec == Spec /\ Fairness

(***************************************************************************)
(* Properties                                                              *)
(***************************************************************************)

(* Types; an entry has its manager exactly while it is READY or CLOSING.   *)
TypeOK ==
    /\ entry \in [Session -> [state : {"absent", "CREATING", "READY", "CLOSING"},
                              manager : 0 .. Len(manager)]]
    /\ \A s \in Session :
          entry[s].manager = 0 <=> entry[s].state \in {"absent", "CREATING"}
    /\ \A k \in DOMAIN manager :
          /\ manager[k].session \in Session
          /\ manager[k].state \in {"running", "waits", "stopping", "stopped"}
          /\ Range(manager[k].queue) \subseteq Request \cup {Stop}
          /\ manager[k].command \in Request \cup {None}
    /\ \A r \in Request :
          /\ request[r].at \in {"unborn", "load", "waits", "discard", "answered",
                                "refused", "cancelled"}
          /\ request[r].session \in Session \cup {None}
    /\ Range(reaper) \cup closing \subseteq DOMAIN manager
    /\ app \in {"up", "closing", "waiting", "closed"}

Live(s) == {k \in DOMAIN manager : manager[k].session = s /\ manager[k].state # "stopped"}
Loaders(s) == {r \in Request : request[r].at = "load" /\ request[r].session = s}

(* Of a session there is never more than one manager that works, or one    *)
(* request that makes one, whatever is cancelled or closed meanwhile; and  *)
(* until the application closes, the entry says who it is: CREATING has    *)
(* its loader, READY a manager that accepts commands, CLOSING one that the *)
(* reaper is going to close.                                               *)
SessionsHaveOneOwner ==
    \A s \in Session :
       /\ Cardinality(Live(s)) + Cardinality(Loaders(s)) <= 1
       /\ app = "up" =>
             /\ entry[s].state = "CREATING" <=> Loaders(s) # {}
             /\ entry[s].state = "READY" =>
                   /\ entry[s].manager \in Live(s)
                   /\ manager[entry[s].manager].state = "running"
             /\ entry[s].state = "CLOSING" => entry[s].manager \in Range(reaper)

(* An eviction, which does not see the command that is executed, loses no  *)
(* command and ends no turn.  When the application has closed, no manager  *)
(* works any more, but for one that its loader is closing.                 *)
NothingIsStranded ==
    /\ app = "up" =>
          /\ \A k \in DOMAIN manager :
                manager[k].state = "stopped" => ~manager[k].busy
          /\ \A r \in Request : request[r].at = "waits" =>
                LET m == manager[request[r].manager]
                IN m.state # "stopped" /\ r \in Range(m.queue) \cup {m.command}
    /\ app = "closed" =>
          \A s \in Session : \A k \in Live(s) :
             \E r \in Request : request[r].at = "discard" /\ request[r].manager = k

(* A request that was accepted comes to its end, a session that is loaded  *)
(* or closed becomes usable again, and a shutdown ends.                    *)
RequestsEnd ==
    /\ \A r \in Request :
          request[r].at \in {"load", "discard", "waits"}
             ~> request[r].at \in {"answered", "refused", "cancelled"} \/ app # "up"
    /\ \A s \in Session :
          entry[s].state \in {"CREATING", "CLOSING"} ~> entry[s].state \in {"READY", "absent"}
    /\ app = "closing" ~> app = "closed"
=============================================================================
