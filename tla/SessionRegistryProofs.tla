------------------------ MODULE SessionRegistryProofs ------------------------
(***************************************************************************)
(* For any sessions, requests and number of managers: the registry keeps   *)
(* its types, a session has one owner, and nothing is stranded.            *)
(*                                                                         *)
(* The safety properties are not inductive: that an entry says who owns    *)
(* its session depends on what the reaper's list holds, on which requests  *)
(* load, and on the application not having cleared the entries yet.  The   *)
(* invariant below says all of that; each action has a lemma that it keeps *)
(* it.                                                                     *)
(***************************************************************************)
EXTENDS SessionRegistry, FiniteSetTheorems, SequenceTheorems, TLAPS

(* The records that the variables are made of.                             *)
Manager ==
    [session : Session, state : {"running", "waits", "stopping", "stopped"},
     queue : Seq(Request \cup {Stop}), command : Request \cup {None},
     busy : BOOLEAN, quiet : BOOLEAN]

RequestState ==
    [at : {"unborn", "load", "waits", "discard", "answered", "refused", "cancelled"},
     session : Session \cup {None}, manager : Nat]

Entry == [state : {"absent", "CREATING", "READY", "CLOSING"}, manager : Nat]

Types ==
    /\ entry \in [Session -> Entry]
    /\ manager \in Seq(Manager)
    /\ request \in [Request -> RequestState]
    /\ reaper \in Seq(Nat)
    /\ app \in {"up", "closing", "waiting", "closed"}

(* What refers to a manager refers to one that was made.                   *)
Bounded ==
    /\ \A s \in Session :
          /\ entry[s].manager \in 0 .. Len(manager)
          /\ entry[s].manager = 0 <=> entry[s].state \in {"absent", "CREATING"}
    /\ \A r \in Request :
          /\ request[r].at = "load" => request[r].session \in Session
          /\ request[r].at \in {"waits", "discard"} => request[r].manager \in DOMAIN manager
    /\ \A i \in DOMAIN reaper : reaper[i] \in DOMAIN manager
    /\ closing \subseteq DOMAIN manager

(* Only a manager that was told to stop has the command in its queue.      *)
StopIsLast ==
    \A k \in DOMAIN manager : \A i \in DOMAIN manager[k].queue :
       manager[k].queue[i] = Stop => manager[k].state \in {"stopping", "stopped"}

(* SessionsHaveOneOwner, without counting: a manager that works, or a      *)
(* request that makes one.                                                 *)
OneEach ==
    \A s \in Session :
       /\ \A k, l \in Live(s) : k = l
       /\ \A r, q \in Loaders(s) : r = q
       /\ Live(s) = {} \/ Loaders(s) = {}

(* Until close() clears them, the entries and the owners know each other   *)
(* in both directions, and no loader finds its entry gone.                 *)
Registered ==
    /\ \A s \in Session :
          /\ entry[s].state = "CREATING" <=> Loaders(s) # {}
          /\ entry[s].state = "READY" => manager[entry[s].manager].state = "running"
          /\ entry[s].state = "CLOSING" => \E i \in DOMAIN reaper : reaper[i] = entry[s].manager
          /\ entry[s].manager # 0 => manager[entry[s].manager].session = s
    /\ \A k \in DOMAIN manager :
          manager[k].state # "stopped" => entry[manager[k].session].manager = k
    /\ \A r \in Request : request[r].at # "discard"

(* The reaper's list: managers that nobody asks any more, of which only    *)
(* the first was told to stop.                                             *)
Reaped ==
    /\ \A i, j \in DOMAIN reaper : reaper[i] = reaper[j] => i = j
    /\ \A i \in DOMAIN reaper :
          LET m == manager[reaper[i]] IN
          /\ entry[m.session].state = "CLOSING" /\ entry[m.session].manager = reaper[i]
          /\ ~m.busy
          /\ \A j \in DOMAIN m.queue : m.queue[j] = Stop
          /\ i > 1 => m.state = "running" /\ m.queue = <<>>
          /\ i = 1 => m.state \in {"stopping", "stopped"}

(* A request that waits is in the queue of a manager that works, or is the *)
(* command that it executes.                                               *)
Served ==
    /\ \A k \in DOMAIN manager : manager[k].state = "stopped" => ~manager[k].busy
    /\ \A r \in Request : request[r].at = "waits" =>
          LET m == manager[request[r].manager]
          IN /\ m.state # "stopped"
             /\ r = m.command \/ \E i \in DOMAIN m.queue : m.queue[i] = r

(* After close() cleared the entries, who works is waited for: by close()  *)
(* itself, or by the loader that came too late.                            *)
Ended ==
    /\ \A s \in Session : entry[s] = Absent
    /\ \A k \in DOMAIN manager :
          manager[k].state # "stopped" =>
             \/ k \in closing
             \/ \E r \in Request : request[r].at = "discard" /\ request[r].manager = k
    /\ app = "closed" => \A k \in closing : manager[k].state = "stopped"

Inv ==
    /\ Types /\ Bounded /\ StopIsLast /\ OneEach
    /\ app \in {"up", "closing"} => Registered /\ Reaped
    /\ app = "up" => Served
    /\ app \in {"waiting", "closed"} => Ended

(* What the steps of one manager have in common: the entries stay, nobody  *)
(* but a waiting request is answered, and the manager moves towards its    *)
(* end, quietly if it is the reaper's.                                     *)
Moves(k, m2) ==
    /\ manager' = [manager EXCEPT ![k] = m2]
    /\ UNCHANGED <<entry, reaper, closing, app>>
    /\ request' \in [Request -> RequestState]
    /\ \A r \in Request :
          \/ request'[r] = request[r]
          \/ request[r].at = "waits" /\ request'[r] = Over("answered")
    /\ m2.session = manager[k].session
    /\ manager[k].state = "stopped" => m2.state = "stopped"
    /\ manager[k].state = "running" => m2.state = "running"
    /\ \A i \in DOMAIN m2.queue : m2.queue[i] = Stop => m2.state \in {"stopping", "stopped"}
    /\ app \in {"up", "closing"} =>
          \A i \in DOMAIN reaper : reaper[i] = k =>
             /\ ~m2.busy
             /\ \A j \in DOMAIN m2.queue : m2.queue[j] = Stop
             /\ i > 1 => m2.state = "running" /\ m2.queue = <<>>
             /\ i = 1 => m2.state \in {"stopping", "stopped"}

(* A manager that only moves keeps the invariant, if it serves its         *)
(* requests.                                                               *)
LEMMA OneManagerMoves ==
    ASSUME Inv, NEW k \in DOMAIN manager, NEW m2 \in Manager, Moves(k, m2),
           app = "up" => Served'
    PROVE  Inv'
  <1> USE DEF Moves
  <1>1. /\ manager' \in Seq(Manager) /\ Len(manager') = Len(manager) /\ DOMAIN manager' = DOMAIN manager
        /\ manager'[k] = m2 /\ \A l \in DOMAIN manager : l # k => manager'[l] = manager[l]
    BY DEF Inv, Types
  <1>2. Types'
    BY <1>1 DEF Inv, Types
  <1>3. Bounded'
    BY <1>1 DEF Inv, Bounded, Over
  <1>4. StopIsLast'
    BY <1>1 DEF Inv, StopIsLast
  <1>5. \A s \in Session : Live(s)' \subseteq Live(s) /\ Loaders(s)' = Loaders(s)
    BY <1>1 DEF Live, Loaders, Over
  <1>6. OneEach'
    BY <1>5 DEF Inv, OneEach
  <1>7. ASSUME app \in {"up", "closing"} PROVE Registered'
    BY <1>1, <1>5, <1>7 DEF Inv, Registered, Over, Bounded, Types
  <1>8. ASSUME app \in {"up", "closing"} PROVE Reaped'
    BY <1>1, <1>8 DEF Inv, Reaped
  <1>9. ASSUME app \in {"waiting", "closed"} PROVE Ended'
    BY <1>1, <1>9 DEF Inv, Ended, Over, Bounded
  <1> QED BY <1>2, <1>3, <1>4, <1>6, <1>7, <1>8, <1>9 DEF Inv

(* Where the command of a waiting request is.                              *)
Holds(m, r) == r = m.command \/ \E i \in DOMAIN m.queue : m.queue[i] = r

(* A change of one manager serves the requests that were served.           *)
LEMMA ServedStill ==
    ASSUME Inv, Served, NEW k \in DOMAIN manager, NEW m2 \in Manager,
           manager' = [manager EXCEPT ![k] = m2],
           m2.state = "stopped" => ~m2.busy,
           \A r \in Request : request'[r].at = "waits" =>
              /\ request'[r] = request[r]
              /\ request[r].manager = k => m2.state # "stopped" /\ Holds(m2, r)
    PROVE  Served'
  <1>1. /\ DOMAIN manager' = DOMAIN manager
        /\ manager'[k] = m2 /\ \A l \in DOMAIN manager : l # k => manager'[l] = manager[l]
    BY DEF Inv, Types
  <1>2. \A r \in Request : request[r].at = "waits" => request[r].manager \in DOMAIN manager
    BY DEF Inv, Bounded
  <1> QED BY <1>1, <1>2 DEF Served, Holds

(* The queue of a manager that takes its next command.                     *)
LEMMA QueueTail ==
    ASSUME NEW m \in Manager, m.queue # <<>>
    PROVE  /\ Head(m.queue) \in Request \cup {Stop} /\ Tail(m.queue) \in Seq(Request \cup {Stop})
           /\ \A i \in DOMAIN Tail(m.queue) :
                 i + 1 \in DOMAIN m.queue /\ Tail(m.queue)[i] = m.queue[i + 1]
           /\ \A i \in DOMAIN m.queue :
                 m.queue[i] = Head(m.queue) \/ \E j \in DOMAIN Tail(m.queue) : Tail(m.queue)[j] = m.queue[i]
           /\ 1 \in DOMAIN m.queue /\ m.queue[1] = Head(m.queue)
  <1>1. m.queue \in Seq(Request \cup {Stop})
    BY DEF Manager
  <1>2. /\ Head(m.queue) = m.queue[1] /\ Len(m.queue) \in Nat /\ Len(m.queue) # 0
        /\ Tail(m.queue) \in Seq(Request \cup {Stop}) /\ Len(Tail(m.queue)) = Len(m.queue) - 1
        /\ \A i \in 1 .. Len(Tail(m.queue)) : Tail(m.queue)[i] = m.queue[i + 1]
    BY <1>1
  <1>3. ASSUME NEW i \in DOMAIN m.queue, i # 1
        PROVE i - 1 \in DOMAIN Tail(m.queue) /\ Tail(m.queue)[i - 1] = m.queue[i]
    BY <1>1, <1>2, <1>3
  <1>4. DOMAIN m.queue = 1 .. Len(m.queue) /\ DOMAIN Tail(m.queue) = 1 .. Len(Tail(m.queue))
    BY <1>1, <1>2
  <1>5. m.queue[1] \in Request \cup {Stop}
    BY <1>1, <1>2
  <1> QED BY <1>2, <1>3, <1>4, <1>5

(* _run takes a command: never of a manager on the reaper's list.          *)
LEMMA TakeStep ==
    ASSUME Inv, NEW k \in DOMAIN manager, Take(k)
    PROVE  Inv'
  <1> DEFINE m == manager[k]
  <1>1. m \in Manager /\ m.queue # <<>> /\ Head(m.queue) # Stop /\ m.command = None /\ m.state # "stopped"
    BY DEF Take, Works, Inv, Types
  <1>2. PICK starts \in BOOLEAN :
          manager' = [manager EXCEPT ![k] =
             [m EXCEPT !.command = Head(m.queue), !.queue = Tail(m.queue),
                       !.busy = m.busy \/ starts, !.quiet = FALSE]]
    BY DEF Take
  <1> DEFINE m2 == [m EXCEPT !.command = Head(m.queue), !.queue = Tail(m.queue),
                       !.busy = m.busy \/ starts, !.quiet = FALSE]
  <1>3. /\ m2 \in Manager /\ m2.state = m.state /\ m2.session = m.session
        /\ m2.queue = Tail(m.queue) /\ m2.command = Head(m.queue)
    BY <1>1, QueueTail DEF Manager
  <1>4. UNCHANGED <<entry, request, reaper, closing, app>>
    BY DEF Take
  <1>5. app \in {"up", "closing"} => \A i \in DOMAIN reaper : reaper[i] # k
    BY <1>1, QueueTail DEF Inv, Reaped
  <1>6. ASSUME app = "up" PROVE Served'
    <2>1. \A r \in Request : request[r].at = "waits" /\ request[r].manager = k => Holds(m2, r)
      BY <1>1, <1>3, <1>6, QueueTail, RegistryAssumption DEF Inv, Served, Holds
    <2>2. Inv /\ Served /\ manager' = [manager EXCEPT ![k] = m2] /\ m2.state # "stopped"
      BY <1>1, <1>2, <1>3, <1>6 DEF Inv
    <2>3. \A r \in Request : request'[r] = request[r]
      BY <1>4
    <2> HIDE DEF m2
    <2> QED BY <1>3, <2>1, <2>2, <2>3, ServedStill, ZenonT(30)
  <1>7. \A i \in DOMAIN m2.queue : m2.queue[i] = Stop => m2.state \in {"stopping", "stopped"}
    BY <1>1, <1>3, QueueTail DEF Inv, StopIsLast
  <1>8. manager' = [manager EXCEPT ![k] = m2] /\ request' \in [Request -> RequestState]
    BY <1>2, <1>4 DEF Inv, Types
  <1> HIDE DEF m2
  <1>9. Moves(k, m2)
    <2>1. /\ m2.session = manager[k].session
          /\ manager[k].state = "stopped" => m2.state = "stopped"
          /\ manager[k].state = "running" => m2.state = "running"
      BY <1>3
    <2>2. UNCHANGED <<entry, reaper, closing, app>> /\ \A r \in Request : request'[r] = request[r]
      BY <1>4
    <2> QED BY <1>5, <1>7, <1>8, <2>1, <2>2 DEF Moves
  <1> QED BY <1>3, <1>4, <1>6, <1>9, OneManagerMoves

(* A command is answered.                                                  *)
LEMMA AnswerStep ==
    ASSUME Inv, NEW k \in DOMAIN manager, Answer(k)
    PROVE  Inv'
  <1> DEFINE m == manager[k]
             m2 == [m EXCEPT !.command = None]
  <1>1. m \in Manager /\ m.state # "stopped" /\ m.command \in Request
    <2>1. m \in Manager
      BY DEF Inv, Types
    <2> QED BY <2>1 DEF Answer, Manager
  <1>2. /\ m2 \in Manager /\ m2.state = m.state /\ m2.session = m.session /\ m2.busy = m.busy
        /\ m2.queue = m.queue
    BY <1>1 DEF Manager
  <1>3. manager' = [manager EXCEPT ![k] = m2] /\ UNCHANGED <<entry, reaper, closing, app>>
    BY DEF Answer
  <1>4. /\ request' \in [Request -> RequestState]
        /\ \A r \in Request :
              \/ request'[r] = request[r] /\ (r = m.command => request[r].at # "waits")
              \/ request[r].at = "waits" /\ request'[r] = Over("answered")
    BY <1>1 DEF Answer, Inv, Types, RequestState, Over
  <1> HIDE DEF m2
  <1>5. Moves(k, m2)
    BY <1>1, <1>2, <1>3, <1>4 DEF Moves, Inv, Reaped, StopIsLast
  <1>6. ASSUME app = "up" PROVE Served'
    <2>1. m2.state = "stopped" => ~m2.busy
      BY <1>1, <1>2
    <2>2. \A r \in Request : request'[r].at = "waits" =>
              /\ request'[r] = request[r]
              /\ request[r].manager = k => m2.state # "stopped" /\ Holds(m2, r)
      BY <1>1, <1>2, <1>4, <1>6 DEF Inv, Served, Holds, Over
    <2> QED BY <1>2, <1>3, <1>6, <2>1, <2>2, ServedStill DEF Inv
  <1> QED BY <1>2, <1>5, <1>6, OneManagerMoves

(* A turn ends or a subscriber leaves.                                     *)
LEMMA RestStep ==
    ASSUME Inv, NEW k \in DOMAIN manager, Rest(k)
    PROVE  Inv'
  <1> DEFINE m == manager[k]
             m2 == [m EXCEPT !.busy = FALSE]
  <1>1. m \in Manager
    BY DEF Inv, Types
  <1>2. /\ m2 \in Manager /\ m2.state = m.state /\ m2.session = m.session /\ ~m2.busy
        /\ m2.queue = m.queue /\ m2.command = m.command
    BY <1>1 DEF Manager
  <1>3. manager' = [manager EXCEPT ![k] = m2] /\ UNCHANGED <<entry, request, reaper, closing, app>>
    BY DEF Rest
  <1> HIDE DEF m2
  <1>4. Moves(k, m2)
    BY <1>2, <1>3 DEF Moves, Inv, Types, Reaped, StopIsLast
  <1>5. ASSUME app = "up" PROVE Served'
    BY <1>2, <1>3, <1>5, ServedStill DEF Inv, Served, Holds
  <1> QED BY <1>2, <1>4, <1>5, OneManagerMoves

(* An idle manager becomes quiet.                                          *)
LEMMA GoQuietStep ==
    ASSUME Inv, NEW k \in DOMAIN manager, GoQuiet(k)
    PROVE  Inv'
  <1> DEFINE m == manager[k]
             m2 == [m EXCEPT !.quiet = TRUE]
  <1>1. m \in Manager
    BY DEF Inv, Types
  <1>2. /\ m2 \in Manager /\ m2.state = m.state /\ m2.session = m.session /\ m2.busy = m.busy
        /\ m2.queue = m.queue /\ m2.command = m.command
    BY <1>1 DEF Manager
  <1>3. manager' = [manager EXCEPT ![k] = m2] /\ UNCHANGED <<entry, request, reaper, closing, app>>
    BY DEF GoQuiet
  <1> HIDE DEF m2
  <1>4. Moves(k, m2)
    BY <1>2, <1>3 DEF Moves, Inv, Types, Reaped, StopIsLast
  <1>5. ASSUME app = "up" PROVE Served'
    BY <1>2, <1>3, <1>5, ServedStill DEF Inv, Served, Holds
  <1> QED BY <1>2, <1>4, <1>5, OneManagerMoves

(* The queue of a manager that is told to stop.                            *)
LEMMA StopAppended ==
    ASSUME NEW m \in Manager
    PROVE  /\ Append(m.queue, Stop) \in Seq(Request \cup {Stop})
           /\ \A i \in DOMAIN Append(m.queue, Stop) :
                 Append(m.queue, Stop)[i] = Stop
                   \/ (i \in DOMAIN m.queue /\ Append(m.queue, Stop)[i] = m.queue[i])
           /\ \A i \in DOMAIN m.queue :
                 i \in DOMAIN Append(m.queue, Stop) /\ Append(m.queue, Stop)[i] = m.queue[i]
  <1>1. m.queue \in Seq(Request \cup {Stop})
    BY DEF Manager
  <1> QED BY <1>1

(* close() goes on when the runtime has ended.                             *)
LEMMA RuntimeClosedStep ==
    ASSUME Inv, NEW k \in DOMAIN manager, RuntimeClosed(k)
    PROVE  Inv'
  <1> DEFINE m == manager[k]
             q == Append(m.queue, Stop)
             m2 == [m EXCEPT !.state = "stopping", !.queue = q]
  <1>1. m \in Manager /\ m.state = "waits" /\ ~m.busy
    BY DEF Inv, Types, RuntimeClosed
  <1>2. /\ q \in Seq(Request \cup {Stop})
        /\ \A i \in DOMAIN q : q[i] = Stop \/ (i \in DOMAIN m.queue /\ q[i] = m.queue[i])
        /\ \A i \in DOMAIN m.queue : i \in DOMAIN q /\ q[i] = m.queue[i]
    BY <1>1, StopAppended
  <1>3. manager' = [manager EXCEPT ![k] = m2] /\ UNCHANGED <<entry, request, reaper, closing, app>>
    BY DEF RuntimeClosed
  <1> HIDE DEF q
  <1>4. /\ m2 \in Manager /\ m2.state = "stopping" /\ m2.session = m.session /\ ~m2.busy
        /\ m2.queue = q /\ m2.command = m.command
    BY <1>1, <1>2 DEF Manager
  <1> HIDE DEF m2
  <1>5. app \in {"up", "closing"} => \A i \in DOMAIN reaper : reaper[i] # k
    BY <1>1 DEF Inv, Reaped, Types
  <1>6. Moves(k, m2)
    BY <1>1, <1>3, <1>4, <1>5 DEF Moves, Inv, Types
  <1>7. ASSUME app = "up" PROVE Served'
    BY <1>1, <1>2, <1>3, <1>4, <1>7, ServedStill DEF Inv, Served, Holds
  <1> QED BY <1>4, <1>6, <1>7, OneManagerMoves

(* A manager stops: on the reaper's list it was the first.                 *)
LEMMA HandleStopStep ==
    ASSUME Inv, NEW k \in DOMAIN manager, HandleStop(k)
    PROVE  Inv'
  <1> DEFINE m == manager[k]
             q == Tail(m.queue)
             m2 == [m EXCEPT !.queue = q, !.state = "stopped"]
  <1>1. /\ m \in Manager /\ m.state # "stopped" /\ m.command = None
        /\ m.queue # <<>> /\ Head(m.queue) = Stop
    BY DEF Inv, Types, HandleStop, Works
  <1>2. /\ q \in Seq(Request \cup {Stop}) /\ 1 \in DOMAIN m.queue /\ m.queue[1] = Stop
        /\ \A i \in DOMAIN q : i + 1 \in DOMAIN m.queue /\ q[i] = m.queue[i + 1]
    BY <1>1, QueueTail
  <1>3. manager' = [manager EXCEPT ![k] = m2] /\ UNCHANGED <<entry, request, reaper, closing, app>>
    BY DEF HandleStop
  <1> HIDE DEF q
  <1>4. /\ m2 \in Manager /\ m2.state = "stopped" /\ m2.session = m.session /\ m2.busy = m.busy
        /\ m2.queue = q
    BY <1>1, <1>2 DEF Manager
  <1> HIDE DEF m2
  <1>5. m.state = "stopping"
    BY <1>1, <1>2 DEF Inv, StopIsLast
  <1>6. app \in {"up", "closing"} => \E i \in DOMAIN reaper : reaper[i] = k
    <2>1. m.session \in Session
      BY <1>1 DEF Manager
    <2>2. app \in {"up", "closing"} =>
             entry[m.session].manager = k /\ entry[m.session].state \notin {"READY", "absent", "CREATING"}
      BY <1>1, <1>5, <2>1 DEF Inv, Registered, Bounded, Types
    <2>3. entry[m.session].state \in {"absent", "CREATING", "READY", "CLOSING"}
      BY <2>1 DEF Inv, Types, Entry
    <2> QED BY <2>1, <2>2, <2>3 DEF Inv, Registered
  <1>7. \A i \in DOMAIN reaper : app \in {"up", "closing"} /\ reaper[i] = k =>
           i = 1 /\ ~m2.busy /\ \A j \in DOMAIN q : q[j] = Stop
    <2> SUFFICES ASSUME NEW i \in DOMAIN reaper, app \in {"up", "closing"}, reaper[i] = k
                 PROVE  i = 1 /\ ~m2.busy /\ \A j \in DOMAIN q : q[j] = Stop
      OBVIOUS
    <2>1. /\ ~m.busy /\ \A j \in DOMAIN m.queue : m.queue[j] = Stop
          /\ i > 1 => m.state = "running"
      BY DEF Inv, Reaped
    <2>2. i \in Nat /\ i >= 1
      BY DEF Inv, Types
    <2> QED BY <1>2, <1>4, <1>5, <2>1, <2>2
  <1>8. Moves(k, m2)
    BY <1>1, <1>2, <1>3, <1>4, <1>5, <1>7 DEF Moves, Inv, Types
  <1>9. ASSUME app = "up" PROVE Served'
    <2>1. \A i \in DOMAIN m.queue : m.queue[i] = Stop
      BY <1>6, <1>9 DEF Inv, Reaped
    <2>2. \A r \in Request : ~(request[r].at = "waits" /\ request[r].manager = k)
      BY <1>1, <1>9, <2>1, RegistryAssumption DEF Inv, Served
    <2>3. m2.state = "stopped" => ~m2.busy
      BY <1>6, <1>7, <1>9
    <2>4. \A r \in Request : request'[r] = request[r]
      BY <1>3
    <2> QED BY <1>3, <1>4, <1>9, <2>2, <2>3, <2>4, ServedStill DEF Inv
  <1> QED BY <1>4, <1>8, <1>9, OneManagerMoves

(* States of a request.                                                    *)
LEMMA OverType ==
    /\ \A how \in {"unborn", "answered", "refused", "cancelled"} : Over(how) \in RequestState
    /\ \A s \in Session : Asking(s) \in RequestState
  BY DEF Over, Asking, RequestState

(* A request without a load or a manager of its own ends.                  *)
LEMMA RequestEnded ==
    ASSUME Inv, NEW r \in Request, NEW how \in {"answered", "refused", "cancelled"},
           request[r].at \notin {"load", "discard"},
           request' = [request EXCEPT ![r] = Over(how)],
           UNCHANGED <<entry, manager, reaper, closing, app>>
    PROVE  Inv'
  <1>1. /\ request' \in [Request -> RequestState] /\ request'[r] = Over(how)
        /\ \A q \in Request : q # r => request'[q] = request[q]
    BY OverType DEF Inv, Types
  <1>2. Types' /\ Bounded' /\ StopIsLast'
    BY <1>1 DEF Inv, Types, Bounded, StopIsLast, Over
  <1>3. \A s \in Session : Live(s)' = Live(s) /\ Loaders(s)' = Loaders(s)
    BY <1>1 DEF Live, Loaders, Over
  <1>4. OneEach'
    BY <1>3 DEF Inv, OneEach
  <1>5. ASSUME app \in {"up", "closing"} PROVE Registered' /\ Reaped'
    BY <1>1, <1>3, <1>5 DEF Inv, Registered, Reaped, Over
  <1>6. ASSUME app = "up" PROVE Served'
    BY <1>1, <1>6 DEF Inv, Served, Over
  <1>7. ASSUME app \in {"waiting", "closed"} PROVE Ended'
    BY <1>1, <1>7 DEF Inv, Ended, Over
  <1> QED BY <1>2, <1>4, <1>5, <1>6, <1>7 DEF Inv

(* The queue of a manager that is asked.                                   *)
LEMMA RequestAppended ==
    ASSUME NEW m \in Manager, NEW r \in Request
    PROVE  /\ Append(m.queue, r) \in Seq(Request \cup {Stop})
           /\ \A i \in DOMAIN Append(m.queue, r) :
                 Append(m.queue, r)[i] = r
                   \/ (i \in DOMAIN m.queue /\ Append(m.queue, r)[i] = m.queue[i])
           /\ \A i \in DOMAIN m.queue :
                 i \in DOMAIN Append(m.queue, r) /\ Append(m.queue, r)[i] = m.queue[i]
           /\ \E i \in DOMAIN Append(m.queue, r) : Append(m.queue, r)[i] = r
  <1>1. m.queue \in Seq(Request \cup {Stop})
    BY DEF Manager
  <1>2. Len(m.queue) + 1 \in DOMAIN Append(m.queue, r) /\ Append(m.queue, r)[Len(m.queue) + 1] = r
    BY <1>1
  <1> QED BY <1>1, <1>2

(* A manager in service gets the command in the step that finds it.        *)
LEMMA ReadyIsAsked ==
    ASSUME Inv, NEW r \in Request, NEW s \in Session, Arrives(r),
           entry[s].state = "READY", Ask(manager, r, entry[s].manager),
           UNCHANGED <<entry, reaper, closing, app>>
    PROVE  Inv'
  <1> DEFINE k == entry[s].manager
             m == manager[k]
             q == Append(m.queue, r)
             m2 == [m EXCEPT !.queue = q, !.quiet = FALSE]
  <1>1. /\ k \in DOMAIN manager /\ m \in Manager /\ m.state = "running" /\ m.session = s
        /\ app = "up" /\ request[r].at = "unborn" /\ r # Stop
    BY RegistryAssumption DEF Inv, Types, Bounded, Registered, Arrives, Entry
  <1>2. /\ q \in Seq(Request \cup {Stop})
        /\ \A i \in DOMAIN q : q[i] = r \/ (i \in DOMAIN m.queue /\ q[i] = m.queue[i])
        /\ \A i \in DOMAIN m.queue : i \in DOMAIN q /\ q[i] = m.queue[i]
        /\ \E i \in DOMAIN q : q[i] = r
    BY <1>1, RequestAppended
  <1>3. /\ manager' = [manager EXCEPT ![k] = m2]
        /\ request' = [request EXCEPT ![r] = [at |-> "waits", session |-> s, manager |-> k]]
    BY <1>1 DEF Ask
  <1> HIDE DEF q
  <1>4. /\ m2 \in Manager /\ m2.state = m.state /\ m2.session = m.session /\ m2.busy = m.busy
        /\ m2.queue = q /\ m2.command = m.command
    BY <1>1, <1>2 DEF Manager
  <1> HIDE DEF m2, m, k
  <1>5. /\ manager' \in Seq(Manager) /\ Len(manager') = Len(manager) /\ DOMAIN manager' = DOMAIN manager
        /\ manager'[k] = m2 /\ \A l \in DOMAIN manager : l # k => manager'[l] = manager[l]
    BY <1>1, <1>3, <1>4 DEF Inv, Types
  <1>6. /\ request' \in [Request -> RequestState]
        /\ request'[r].at = "waits" /\ request'[r].manager = k /\ request'[r].session = s
        /\ \A p \in Request : p # r => request'[p] = request[p]
    BY <1>1, <1>3 DEF Inv, Types, RequestState
  <1>7. Types' /\ Bounded'
    BY <1>1, <1>5, <1>6 DEF Inv, Types, Bounded
  <1>8. StopIsLast'
    BY <1>1, <1>2, <1>4, <1>5 DEF Inv, StopIsLast, m
  <1>9. \A t \in Session : Live(t)' = Live(t) /\ Loaders(t)' = Loaders(t)
    BY <1>1, <1>4, <1>5, <1>6 DEF Live, Loaders, m
  <1>10. OneEach'
    BY <1>9 DEF Inv, OneEach
  <1>11. Registered'
    BY <1>1, <1>4, <1>5, <1>6, <1>9 DEF Inv, Registered, Bounded, m
  <1>12. \A i \in DOMAIN reaper : reaper[i] # k
    BY <1>1 DEF Inv, Reaped, m, k
  <1>13. Reaped'
    BY <1>1, <1>5, <1>12 DEF Inv, Reaped, Bounded
  <1>14. Served'
    <2>1. \A l \in DOMAIN manager : manager'[l].state = "stopped" => ~manager'[l].busy
      BY <1>1, <1>4, <1>5 DEF Inv, Served, m
    <2>2. ASSUME NEW p \in Request, p # r, request[p].at = "waits"
          PROVE  /\ manager'[request[p].manager].state # "stopped"
                 /\ Holds(manager'[request[p].manager], p)
      <3>1. /\ request[p].manager \in DOMAIN manager
            /\ manager[request[p].manager].state # "stopped" /\ Holds(manager[request[p].manager], p)
        BY <1>1, <2>2 DEF Inv, Served, Bounded, Holds
      <3>2. Holds(m, p) => Holds(m2, p)
        BY <1>2, <1>4 DEF Holds
      <3> QED BY <1>1, <1>4, <1>5, <3>1, <3>2 DEF m
    <2>3. m2.state # "stopped" /\ \E i \in DOMAIN m2.queue : m2.queue[i] = r
      BY <1>1, <1>2, <1>4
    <2> QED BY <1>5, <1>6, <2>1, <2>2, <2>3 DEF Served, Holds
  <1> QED BY <1>1, <1>7, <1>8, <1>10, <1>11, <1>13, <1>14 DEF Inv

(* What the index of a manager says.                                       *)
LEMMA ManagersAre ==
    ASSUME Types
    PROVE  \A k \in DOMAIN manager :
              /\ k \in 1 .. Len(manager) /\ manager[k] \in Manager
              /\ manager[k].session \in Session
  <1>1. DOMAIN manager = 1 .. Len(manager) /\ \A k \in DOMAIN manager : manager[k] \in Manager
    BY DEF Types
  <1> QED BY <1>1 DEF Manager

(* A session of which there is nothing gets the right to load it.          *)
LEMMA LoadBegins ==
    ASSUME Inv, NEW r \in Request, NEW s \in Session, Arrives(r), entry[s].state = "absent",
           entry' = [entry EXCEPT ![s] = Creating],
           request' = [request EXCEPT ![r] = Asking(s)],
           UNCHANGED <<manager, reaper, closing, app>>
    PROVE  Inv'
  <1>1. app = "up" /\ request[r].at = "unborn" /\ entry[s].manager = 0
    BY DEF Arrives, Inv, Bounded
  <1>2. /\ entry' \in [Session -> Entry] /\ entry'[s] = Creating
        /\ \A u \in Session : u # s => entry'[u] = entry[u]
    BY DEF Inv, Types, Entry, Creating
  <1>3. /\ request' \in [Request -> RequestState] /\ request'[r] = Asking(s)
        /\ \A q \in Request : q # r => request'[q] = request[q]
    BY OverType DEF Inv, Types
  <1>4. Types' /\ Bounded' /\ StopIsLast'
    BY <1>2, <1>3 DEF Inv, Types, Bounded, StopIsLast, Creating, Asking
  <1>5. Live(s) = {} /\ Loaders(s) = {}
    <2>1. Loaders(s) = {}
      BY <1>1 DEF Inv, Registered
    <2>2. \A k \in DOMAIN manager : k # 0
      BY DEF Inv, Types
    <2> QED BY <1>1, <2>1, <2>2 DEF Inv, Registered, Live
  <1>6. /\ \A u \in Session : Live(u)' = Live(u)
        /\ Loaders(s)' = {r} /\ \A u \in Session : u # s => Loaders(u)' = Loaders(u)
    <2>1. \A u \in Session : Live(u)' = Live(u)
      BY DEF Live
    <2>2. Loaders(s)' = {r}
      BY <1>3, <1>5 DEF Loaders, Asking
    <2>3. \A u \in Session : u # s => Loaders(u)' = Loaders(u)
      BY <1>1, <1>3 DEF Loaders, Asking
    <2> QED BY <2>1, <2>2, <2>3
  <1>7. OneEach'
    BY <1>5, <1>6 DEF Inv, OneEach
  <1>8. Registered'
    <2>1. \A k \in DOMAIN manager : manager[k].state # "stopped" =>
             manager[k].session # s /\ manager[k].session \in Session
      BY <1>5, ManagersAre DEF Live, Inv
    <2>2. \A u \in Session : entry'[u].state = "CREATING" <=> Loaders(u)' # {}
      BY <1>1, <1>2, <1>6 DEF Inv, Registered, Creating
    <2>3. \A q \in Request : request'[q].at # "discard"
      BY <1>1, <1>3 DEF Inv, Registered, Asking
    <2> QED BY <1>1, <1>2, <2>1, <2>2, <2>3 DEF Inv, Registered, Creating
  <1>9. Reaped'
    BY <1>1, <1>2 DEF Inv, Reaped, Bounded, Types, Manager
  <1>10. Served'
    BY <1>1, <1>3 DEF Inv, Served, Asking
  <1> QED BY <1>1, <1>4, <1>7, <1>8, <1>9, <1>10 DEF Inv

(* get_or_begin_create keeps the invariant.                                *)
LEMMA GetOrCreateStep ==
    ASSUME Inv, NEW r \in Request, NEW s \in Session, GetOrCreate(r, s)
    PROVE  Inv'
  <1>1. Arrives(r) /\ request[r].at = "unborn"
    BY DEF GetOrCreate, Arrives
  <1>2. CASE entry[s].state = "absent"
    BY <1>1, <1>2, LoadBegins DEF GetOrCreate
  <1>3. CASE entry[s].state = "READY"
    BY <1>1, <1>3, ReadyIsAsked DEF GetOrCreate
  <1>4. CASE entry[s].state \notin {"absent", "READY"}
    BY <1>1, <1>4, RequestEnded DEF GetOrCreate
  <1> QED BY <1>2, <1>3, <1>4

(* get() keeps the invariant.                                              *)
LEMMA GetStep ==
    ASSUME Inv, NEW r \in Request, NEW s \in Session, Get(r, s)
    PROVE  Inv'
  <1>1. Arrives(r) /\ request[r].at = "unborn"
    BY DEF Get, Arrives
  <1>2. CASE entry[s].state = "READY"
    BY <1>1, <1>2, ReadyIsAsked DEF Get
  <1>3. CASE entry[s].state # "READY"
    BY <1>1, <1>3, RequestEnded DEF Get
  <1> QED BY <1>2, <1>3

(* A load that does not come to its end gives the session back.            *)
LEMMA LoadGivenUp ==
    ASSUME Inv, NEW r \in Request, NEW how \in {"refused", "cancelled"},
           request[r].at = "load",
           entry' = Aborted(request[r].session),
           request' = [request EXCEPT ![r] = Over(how)],
           UNCHANGED <<manager, reaper, closing, app>>
    PROVE  Inv'
  <1>1. PICK s \in Session : s = request[r].session /\ r \in Loaders(s)
    BY DEF Inv, Bounded, Loaders
  <1>2. /\ request' \in [Request -> RequestState] /\ request'[r] = Over(how)
        /\ \A q \in Request : q # r => request'[q] = request[q]
    BY OverType DEF Inv, Types
  <1>3. /\ entry' \in [Session -> Entry]
        /\ \A u \in Session : u # s => entry'[u] = entry[u]
        /\ entry'[s] = IF entry[s].state = "CREATING" THEN Absent ELSE entry[s]
    BY <1>1 DEF Inv, Types, Entry, Absent, Aborted
  <1>4. Types' /\ Bounded' /\ StopIsLast'
    BY <1>2, <1>3 DEF Inv, Types, Bounded, StopIsLast, Absent, Over
  <1>5. \A u \in Session : Live(u)' = Live(u) /\ Loaders(u)' = Loaders(u) \ {r}
    BY <1>2 DEF Live, Loaders, Over
  <1>6. OneEach'
    BY <1>5 DEF Inv, OneEach
  <1>7. Loaders(s)' = {} /\ Live(s) = {} /\ \A u \in Session : u # s => Loaders(u)' = Loaders(u)
    <2>1. Loaders(s) = {r} /\ Live(s) = {}
      BY <1>1 DEF Inv, OneEach
    <2>2. \A u \in Session : u # s => r \notin Loaders(u)
      BY <1>1 DEF Loaders
    <2>3. ASSUME NEW u \in Session, u # s PROVE Loaders(u)' = Loaders(u)
      <3>1. Loaders(u)' = Loaders(u) \ {r} /\ r \notin Loaders(u)
        BY <1>5, <2>2, <2>3
      <3> QED BY <3>1
    <2>4. Loaders(s)' = {}
      BY <1>1, <1>5, <2>1
    <2> QED BY <2>1, <2>3, <2>4
  <1>8. ASSUME app \in {"up", "closing"} PROVE Registered' /\ Reaped'
    <2>1. entry[s].state = "CREATING" /\ entry'[s] = Absent
      BY <1>1, <1>3, <1>8 DEF Inv, Registered
    <2>2. Registered'
      <3>1. \A k \in DOMAIN manager : manager[k].state # "stopped" =>
               manager[k].session # s /\ manager[k].session \in Session
        BY <1>7, ManagersAre DEF Live, Inv
      <3>2. \A u \in Session : entry'[u].state = "CREATING" <=> Loaders(u)' # {}
        <4>1. \A u \in Session : entry[u].state = "CREATING" <=> Loaders(u) # {}
          BY <1>8 DEF Inv, Registered
        <4>2. entry'[s].state # "CREATING"
          BY <2>1 DEF Absent
        <4> QED BY <1>3, <1>7, <4>1, <4>2
      <3>3. \A q \in Request : request'[q].at # "discard"
        BY <1>2, <1>8 DEF Inv, Registered, Over
      <3> QED BY <1>1, <1>3, <1>8, <2>1, <3>1, <3>2, <3>3 DEF Inv, Registered, Absent
    <2>3. Reaped'
      <3>1. \A i \in DOMAIN reaper : manager[reaper[i]].session # s /\ manager[reaper[i]].session \in Session
        BY <1>8, <2>1, ManagersAre DEF Inv, Reaped, Bounded
      <3> QED BY <1>3, <1>8, <3>1 DEF Inv, Reaped
    <2> QED BY <2>2, <2>3
  <1>9. ASSUME app = "up" PROVE Served'
    BY <1>2, <1>9 DEF Inv, Served, Over
  <1>10. ASSUME app \in {"waiting", "closed"} PROVE Ended'
    BY <1>1, <1>2, <1>3, <1>10 DEF Inv, Ended, Over, Absent
  <1> QED BY <1>4, <1>6, <1>8, <1>9, <1>10 DEF Inv

(* A load that fails keeps the invariant.                                  *)
LEMMA LoadFailsStep ==
    ASSUME Inv, NEW r \in Request, LoadFails(r)
    PROVE  Inv'
  BY LoadGivenUp DEF LoadFails

(* A manager that nobody knows ends, with the request that closes it.      *)
LEMMA DiscardEnds ==
    ASSUME Inv, NEW r \in Request, NEW how \in {"refused", "cancelled"},
           request[r].at = "discard",
           manager' = [manager EXCEPT ![request[r].manager].state = "stopped"],
           entry' = Aborted(request[r].session),
           request' = [request EXCEPT ![r] = Over(how)],
           UNCHANGED <<reaper, closing, app>>
    PROVE  Inv'
  <1> DEFINE k == request[r].manager
             m2 == [manager[k] EXCEPT !.state = "stopped"]
  <1>1. k \in DOMAIN manager /\ manager[k] \in Manager /\ app \in {"waiting", "closed"}
    BY DEF Inv, Bounded, Types, Registered
  <1>2. /\ m2 \in Manager /\ m2.state = "stopped" /\ m2.session = manager[k].session
        /\ m2.queue = manager[k].queue
    BY <1>1 DEF Manager
  <1>3. manager' = [manager EXCEPT ![k] = m2]
    OBVIOUS
  <1> HIDE DEF m2
  <1>4. /\ manager' \in Seq(Manager) /\ Len(manager') = Len(manager) /\ DOMAIN manager' = DOMAIN manager
        /\ manager'[k] = m2 /\ \A l \in DOMAIN manager : l # k => manager'[l] = manager[l]
    BY <1>1, <1>2, <1>3 DEF Inv, Types
  <1>5. /\ request' \in [Request -> RequestState] /\ request'[r] = Over(how)
        /\ \A q \in Request : q # r => request'[q] = request[q]
    BY OverType DEF Inv, Types
  <1>6. entry' = entry
    <2>1. \A s \in Session : entry[s].state # "CREATING"
      BY <1>1 DEF Inv, Ended, Absent
    <2>2. request[r].session \notin Session =>
            [entry EXCEPT ![request[r].session] = Absent] = entry
      BY DEF Inv, Types
    <2> QED BY <2>1, <2>2 DEF Aborted
  <1>7. Types' /\ Bounded'
    BY <1>4, <1>5, <1>6 DEF Inv, Types, Bounded, Over
  <1>8. StopIsLast'
    BY <1>2, <1>4 DEF Inv, StopIsLast
  <1>9. \A u \in Session : Live(u)' \subseteq Live(u) /\ Loaders(u)' = Loaders(u)
    BY <1>2, <1>4, <1>5 DEF Live, Loaders, Over
  <1>10. OneEach'
    BY <1>9 DEF Inv, OneEach
  <1>11. Ended'
    BY <1>1, <1>2, <1>4, <1>5, <1>6 DEF Inv, Ended, Over
  <1> QED BY <1>1, <1>7, <1>8, <1>10, <1>11 DEF Inv

(* The end of a refused manager keeps the invariant.                       *)
LEMMA DiscardedStep ==
    ASSUME Inv, NEW r \in Request, Discarded(r)
    PROVE  Inv'
  <1>1. manager = [manager EXCEPT ![request[r].manager].state = "stopped"]
    <2>1. request[r].manager \in DOMAIN manager /\ manager[request[r].manager] \in Manager
      BY DEF Discarded, Inv, Bounded, Types
    <2>2. manager[request[r].manager].state = "stopped"
      BY DEF Discarded
    <2>3. [manager[request[r].manager] EXCEPT !.state = "stopped"] = manager[request[r].manager]
      BY <2>1, <2>2 DEF Manager
    <2> QED BY <2>1, <2>3 DEF Inv, Types
  <1> QED BY <1>1, DiscardEnds DEF Discarded

(* The cancellation of a caller keeps the invariant.                       *)
LEMMA CallerCancelledStep ==
    ASSUME Inv, NEW r \in Request, CallerCancelled(r)
    PROVE  Inv'
  <1>1. CASE request[r].at = "load"
    BY <1>1, LoadGivenUp DEF CallerCancelled
  <1>2. CASE request[r].at = "discard"
    BY <1>2, DiscardEnds DEF CallerCancelled
  <1>3. CASE request[r].at = "waits"
    BY <1>3, RequestEnded DEF CallerCancelled
  <1> QED BY <1>1, <1>2, <1>3 DEF CallerCancelled

(* A load has made the manager c of its session.                           *)
MadeBy(r, s, c) ==
    /\ s \in Session /\ request[r].at = "load" /\ request[r].session = s
    /\ c \in Manager /\ c.session = s /\ c.state # "stopped" /\ ~c.busy
    /\ manager' = Append(manager, c)
    /\ request' \in [Request -> RequestState]
    /\ request'[r].at \in {"waits", "discard"} /\ request'[r].manager = Len(manager) + 1
    /\ \A q \in Request : q # r => request'[q] = request[q]
    /\ \A i \in DOMAIN c.queue : c.queue[i] = Stop => c.state = "stopping"
    /\ UNCHANGED <<reaper, closing, app>>

(* The new manager is the only owner of its session.                       *)
LEMMA ManagerMade ==
    ASSUME Inv, NEW r \in Request, NEW s, NEW c, MadeBy(r, s, c)
    PROVE  /\ manager' \in Seq(Manager) /\ Len(manager') = Len(manager) + 1
           /\ manager'[Len(manager) + 1] = c
           /\ DOMAIN manager' = DOMAIN manager \cup {Len(manager) + 1}
           /\ Len(manager) + 1 \in Nat \ {0} /\ Len(manager) + 1 \notin DOMAIN manager
           /\ \A l \in DOMAIN manager : manager'[l] = manager[l]
           /\ Live(s)' = {Len(manager) + 1} /\ Loaders(s)' = {}
           /\ \A u \in Session : u # s => Live(u)' = Live(u) /\ Loaders(u)' = Loaders(u)
           /\ OneEach' /\ StopIsLast'
  <1> USE DEF MadeBy
  <1>1. PICK k \in Nat \ {0} : k = Len(manager) + 1
    BY DEF Inv, Types
  <1>2. /\ manager' \in Seq(Manager) /\ Len(manager') = k /\ manager'[k] = c
        /\ DOMAIN manager' = DOMAIN manager \cup {k} /\ k \notin DOMAIN manager
        /\ \A l \in DOMAIN manager : manager'[l] = manager[l]
    <2>1. manager \in Seq(Manager) /\ Len(manager) \in Nat /\ DOMAIN manager = 1 .. Len(manager)
      BY DEF Inv, Types
    <2>2. /\ manager' \in Seq(Manager) /\ Len(manager') = k /\ manager'[k] = c
          /\ \A l \in 1 .. Len(manager) : manager'[l] = manager[l]
      BY <1>1, <2>1
    <2>3. DOMAIN manager' = 1 .. k
      BY <2>2
    <2> QED BY <1>1, <2>1, <2>2, <2>3
  <1>3. r \in Loaders(s) /\ Live(s) = {} /\ Loaders(s) = {r}
    BY DEF Inv, OneEach, Loaders
  <1>4. Live(s)' = {k}
    BY <1>2, <1>3 DEF Live
  <1>5. Loaders(s)' = {}
    BY <1>3 DEF Loaders
  <1>6. \A u \in Session : u # s => Live(u)' = Live(u)
    BY <1>2 DEF Live
  <1>7. \A u \in Session : u # s => Loaders(u)' = Loaders(u)
    BY DEF Loaders
  <1>8. OneEach'
    BY <1>4, <1>5, <1>6, <1>7 DEF Inv, OneEach
  <1>9. StopIsLast'
    BY <1>2 DEF Inv, StopIsLast
  <1> QED BY <1>1, <1>2, <1>4, <1>5, <1>6, <1>7, <1>8, <1>9

(* The load ends in time: the manager goes into service.                   *)
LEMMA ServiceBegins ==
    ASSUME Inv, NEW r \in Request, NEW s, NEW c, MadeBy(r, s, c), c.state = "running",
           request'[r].at = "waits", Holds(c, r), entry[s].state = "CREATING",
           entry' = [entry EXCEPT ![s] = [state |-> "READY", manager |-> Len(manager) + 1]]
    PROVE  Inv'
  <1>1. PICK k \in Nat \ {0} : k = Len(manager) + 1
    BY DEF Inv, Types
  <1>2. /\ manager' \in Seq(Manager) /\ Len(manager') = k /\ manager'[k] = c
        /\ DOMAIN manager' = DOMAIN manager \cup {k} /\ k \notin DOMAIN manager
        /\ \A l \in DOMAIN manager : manager'[l] = manager[l]
        /\ Live(s)' = {k} /\ Loaders(s)' = {}
        /\ \A u \in Session : u # s => Live(u)' = Live(u) /\ Loaders(u)' = Loaders(u)
        /\ OneEach' /\ StopIsLast'
    BY <1>1, ManagerMade
  <1>3. /\ s \in Session /\ request' \in [Request -> RequestState] /\ request'[r].manager = k
        /\ \A q \in Request : q # r => request'[q] = request[q]
        /\ c.session = s /\ ~c.busy /\ request[r].at = "load"
        /\ UNCHANGED <<reaper, closing, app>>
    BY <1>1 DEF MadeBy
  <1>4. /\ entry' \in [Session -> Entry] /\ entry'[s] = [state |-> "READY", manager |-> k]
        /\ \A u \in Session : u # s => entry'[u] = entry[u]
    BY <1>1, <1>3 DEF Inv, Types, Entry
  <1>5. app \in {"up", "closing"}
    BY <1>3 DEF Inv, Types, Ended, Absent
  <1>6. Types'
    BY <1>2, <1>3, <1>4 DEF Inv, Types
  <1>7. Bounded'
    <2>1. Len(manager) < k /\ Len(manager) \in Nat
      BY <1>1 DEF Inv, Types
    <2> QED BY <1>2, <1>3, <1>4, <2>1 DEF Inv, Bounded
  <1>8. \A l \in DOMAIN manager : manager[l].session = s => manager[l].state = "stopped"
    <2>1. r \in Loaders(s)
      BY <1>3 DEF Loaders, MadeBy
    <2>2. Live(s) = {}
      BY <1>3, <2>1 DEF Inv, OneEach
    <2> QED BY <2>2 DEF Live
  <1>9. Registered'
    <2>1. \A u \in Session : entry'[u].state = "CREATING" <=> Loaders(u)' # {}
      <3>1. \A u \in Session : entry[u].state = "CREATING" <=> Loaders(u) # {}
        BY <1>5 DEF Inv, Registered
      <3>2. entry'[s].state # "CREATING"
        BY <1>4
      <3> QED BY <1>2, <1>4, <3>1, <3>2
    <2>2. ASSUME NEW u \in Session
          PROVE  /\ entry'[u].state = "READY" => manager'[entry'[u].manager].state = "running"
                 /\ entry'[u].state = "CLOSING" => \E i \in DOMAIN reaper' : reaper'[i] = entry'[u].manager
                 /\ entry'[u].manager # 0 => manager'[entry'[u].manager].session = u
      <3>1. CASE u = s
        BY <1>2, <1>3, <1>4, <3>1
      <3>2. CASE u # s
        <4>1. entry[u].manager # 0 => entry[u].manager \in DOMAIN manager
          BY DEF Inv, Types, Bounded
        <4>2. entry[u].state \in {"READY", "CLOSING"} => entry[u].manager # 0
          BY DEF Inv, Bounded
        <4> QED BY <1>2, <1>3, <1>4, <1>5, <3>2, <4>1, <4>2 DEF Inv, Registered
      <3> QED BY <3>1, <3>2
    <2>3. \A l \in DOMAIN manager' :
             manager'[l].state # "stopped" => entry'[manager'[l].session].manager = l
      BY <1>2, <1>3, <1>4, <1>5, <1>8, ManagersAre DEF Inv, Registered
    <2>4. \A q \in Request : request'[q].at # "discard"
      BY <1>3, <1>5 DEF Inv, Registered
    <2> QED BY <2>1, <2>2, <2>3, <2>4 DEF Registered
  <1>10. Reaped'
    <2>1. \A i \in DOMAIN reaper :
             /\ reaper[i] \in DOMAIN manager /\ manager[reaper[i]].session # s
             /\ manager[reaper[i]].session \in Session
      BY <1>5, ManagersAre DEF Inv, Reaped, Bounded
    <2> QED BY <1>2, <1>3, <1>4, <1>5, <2>1 DEF Inv, Reaped
  <1>11. ASSUME app = "up" PROVE Served'
    <2>1. \A l \in DOMAIN manager' : manager'[l].state = "stopped" => ~manager'[l].busy
      BY <1>2, <1>3, <1>11 DEF Inv, Served
    <2>2. \A q \in Request : q # r /\ request[q].at = "waits" =>
             request[q].manager \in DOMAIN manager
      BY DEF Inv, Bounded
    <2> QED BY <1>2, <1>3, <1>11, <2>1, <2>2 DEF Inv, Served, Holds
  <1> QED BY <1>2, <1>3, <1>5, <1>6, <1>7, <1>9, <1>10, <1>11 DEF Inv

(* close() came first: nobody knows the manager, and it is closed again.   *)
LEMMA ServiceRefused ==
    ASSUME Inv, NEW r \in Request, NEW s, NEW c, MadeBy(r, s, c),
           request'[r].at = "discard", entry[s].state # "CREATING", UNCHANGED entry
    PROVE  Inv'
  <1>1. PICK k \in Nat \ {0} : k = Len(manager) + 1
    BY DEF Inv, Types
  <1>2. /\ manager' \in Seq(Manager) /\ Len(manager') = k /\ manager'[k] = c
        /\ DOMAIN manager' = DOMAIN manager \cup {k} /\ k \notin DOMAIN manager
        /\ \A l \in DOMAIN manager : manager'[l] = manager[l]
        /\ OneEach' /\ StopIsLast'
    BY <1>1, ManagerMade
  <1>3. /\ s \in Session /\ request' \in [Request -> RequestState] /\ request'[r].manager = k
        /\ \A q \in Request : q # r => request'[q] = request[q]
        /\ request[r].at = "load"
        /\ UNCHANGED <<reaper, closing, app>>
    BY <1>1 DEF MadeBy
  <1>4. app \in {"waiting", "closed"}
    <2>1. Loaders(s) # {}
      BY DEF Loaders, MadeBy
    <2> QED BY <1>3, <2>1 DEF Inv, Registered, Types
  <1>5. Types'
    BY <1>2, <1>3 DEF Inv, Types
  <1>6. Bounded'
    <2>1. Len(manager) < k /\ Len(manager) \in Nat
      BY <1>1 DEF Inv, Types
    <2> QED BY <1>2, <1>3, <2>1 DEF Inv, Bounded
  <1>7. Ended'
    <2>1. ASSUME NEW l \in DOMAIN manager', manager'[l].state # "stopped"
          PROVE  \/ l \in closing'
                 \/ \E q \in Request : request'[q].at = "discard" /\ request'[q].manager = l
      <3>1. CASE l = k
        BY <1>3, <3>1
      <3>2. CASE l # k
        <4>1. \/ l \in closing
              \/ \E q \in Request : request[q].at = "discard" /\ request[q].manager = l
          BY <1>2, <1>4, <2>1, <3>2 DEF Inv, Ended
        <4> QED BY <1>3, <4>1
      <3> QED BY <3>1, <3>2
    <2>2. app' = "closed" => \A l \in closing' : manager'[l].state = "stopped"
      BY <1>2, <1>3, <1>4 DEF Inv, Ended, Bounded
    <2> QED BY <1>4, <2>1, <2>2 DEF Inv, Ended
  <1> QED BY <1>2, <1>3, <1>4, <1>5, <1>6, <1>7 DEF Inv

(* The last element of a sequence is replaced.                             *)
LEMMA LastReplaced ==
    ASSUME NEW S, NEW seq \in Seq(S), NEW a \in S, NEW b \in S
    PROVE  [Append(seq, a) EXCEPT ![Len(seq) + 1] = b] = Append(seq, b)
  <1>1. /\ Append(seq, a) \in Seq(S) /\ Len(Append(seq, a)) = Len(seq) + 1
        /\ Append(seq, b) \in Seq(S) /\ Len(Append(seq, b)) = Len(seq) + 1
        /\ Append(seq, b)[Len(seq) + 1] = b /\ Len(seq) \in Nat
        /\ \A i \in 1 .. Len(seq) : Append(seq, a)[i] = seq[i] /\ Append(seq, b)[i] = seq[i]
    OBVIOUS
  <1> DEFINE x == [Append(seq, a) EXCEPT ![Len(seq) + 1] = b]
  <1>2. ASSUME NEW y \in Seq(S), NEW k \in 1 .. Len(y)
        PROVE  /\ [y EXCEPT ![k] = b] \in Seq(S) /\ Len([y EXCEPT ![k] = b]) = Len(y)
               /\ [y EXCEPT ![k] = b][k] = b
               /\ \A i \in 1 .. Len(y) : i # k => [y EXCEPT ![k] = b][i] = y[i]
    OBVIOUS
  <1>3. /\ x \in Seq(S) /\ Len(x) = Len(seq) + 1 /\ x[Len(seq) + 1] = b
        /\ \A i \in 1 .. Len(seq) : x[i] = seq[i]
    <2>1. Len(seq) + 1 \in 1 .. Len(Append(seq, a))
      BY <1>1
    <2> HIDE DEF x
    <2>2. /\ x \in Seq(S) /\ Len(x) = Len(Append(seq, a)) /\ x[Len(seq) + 1] = b
          /\ \A i \in 1 .. Len(Append(seq, a)) : i # Len(seq) + 1 => x[i] = Append(seq, a)[i]
      BY <1>1, <1>2, <2>1 DEF x
    <2> QED BY <1>1, <2>2
  <1>4. \A i \in 1 .. Len(x) : x[i] = Append(seq, b)[i]
    BY <1>1, <1>3
  <1> QED BY <1>1, <1>3, <1>4, SeqEqual

(* finish_create keeps the invariant, whether it succeeds or not.          *)
LEMMA LoadedStep ==
    ASSUME Inv, NEW r \in Request, Loaded(r)
    PROVE  Inv'
  <1>1. PICK s \in Session : s = request[r].session /\ request[r].at = "load"
    BY DEF Inv, Bounded, Loaded
  <1>2. PICK k \in Nat \ {0} : k = Len(manager) + 1
    BY DEF Inv, Types
  <1>3. /\ Fresh(s) \in Manager /\ Fresh(s).session = s /\ Fresh(s).state = "running"
        /\ Fresh(s).queue = <<>> /\ ~Fresh(s).busy /\ r # Stop
    BY RegistryAssumption DEF Fresh, Manager
  <1> DEFINE ms == Append(manager, Fresh(s))
  <1>4. /\ ms \in Seq(Manager) /\ Len(ms) = k /\ ms[k] = Fresh(s)
        /\ \A c \in Manager : [ms EXCEPT ![k] = c] = Append(manager, c)
    BY <1>2, <1>3, LastReplaced DEF Inv, Types
  <1>5. CASE entry[s].state = "CREATING"
    <2> DEFINE q == Append(Fresh(s).queue, r)
               c == [Fresh(s) EXCEPT !.queue = q, !.quiet = FALSE]
    <2>1. /\ q \in Seq(Request \cup {Stop})
          /\ \A i \in DOMAIN q : q[i] = r
          /\ \E i \in DOMAIN q : q[i] = r
      BY <1>3, RequestAppended
    <2>2. /\ manager' = [ms EXCEPT ![k] = c]
          /\ request' = [request EXCEPT ![r] = [at |-> "waits", session |-> s, manager |-> k]]
      <3>1. Ask(ms, r, k)
        BY <1>1, <1>2, <1>5 DEF Loaded
      <3> HIDE DEF ms
      <3> QED BY <1>3, <1>4, <3>1, ZenonT(30) DEF Ask
    <2> HIDE DEF q
    <2>3. /\ c \in Manager /\ c.session = s /\ c.state = "running" /\ ~c.busy
          /\ c.queue = q
      BY <1>3, <2>1 DEF Manager
    <2> HIDE DEF c
    <2>4. manager' = Append(manager, c)
      BY <1>4, <2>2, <2>3
    <2>5. /\ request' \in [Request -> RequestState] /\ request'[r].at = "waits"
          /\ request'[r].manager = k /\ \A p \in Request : p # r => request'[p] = request[p]
      BY <1>2, <2>2 DEF Inv, Types, RequestState
    <2>6. MadeBy(r, s, c) /\ Holds(c, r)
      BY <1>1, <1>2, <1>3, <2>1, <2>3, <2>4, <2>5 DEF MadeBy, Loaded, Holds
    <2>7. entry' = [entry EXCEPT ![s] = [state |-> "READY", manager |-> Len(manager) + 1]]
      BY <1>1, <1>5 DEF Loaded
    <2> QED BY <1>5, <2>3, <2>5, <2>6, <2>7, ServiceBegins
  <1>6. CASE entry[s].state # "CREATING"
    <2> DEFINE q == Append(Fresh(s).queue, Stop)
               c == [Fresh(s) EXCEPT !.state = "stopping", !.queue = q]
    <2>1. q \in Seq(Request \cup {Stop})
      BY <1>3, StopAppended
    <2>2. /\ manager' = [ms EXCEPT ![k] = c]
          /\ request' = [request EXCEPT ![r].at = "discard", ![r].manager = k]
      BY <1>1, <1>2, <1>3, <1>4, <1>6 DEF Loaded, Closing
    <2> HIDE DEF q
    <2>3. /\ c \in Manager /\ c.session = s /\ c.state = "stopping" /\ ~c.busy
      BY <1>3, <2>1 DEF Manager
    <2> HIDE DEF c
    <2>4. manager' = Append(manager, c)
      BY <1>4, <2>2, <2>3
    <2>5. /\ request' \in [Request -> RequestState] /\ request'[r].at = "discard"
          /\ request'[r].manager = k /\ \A p \in Request : p # r => request'[p] = request[p]
      BY <1>2, <2>2 DEF Inv, Types, RequestState
    <2>6. MadeBy(r, s, c)
      BY <1>1, <1>2, <2>3, <2>4, <2>5 DEF MadeBy, Loaded
    <2>7. UNCHANGED entry
      BY <1>1, <1>6 DEF Loaded
    <2> QED BY <1>6, <2>5, <2>6, <2>7, ServiceRefused
  <1> QED BY <1>5, <1>6

(* What a manager is after SessionManager.close has begun.                 *)
LEMMA ClosingManager ==
    ASSUME NEW m \in Manager
    PROVE  /\ Closing(m) \in Manager
           /\ Closing(m).session = m.session /\ Closing(m).busy = m.busy
           /\ Closing(m).command = m.command
           /\ Closing(m).state = "stopped" <=> m.state = "stopped"
           /\ \/ Closing(m) = m /\ m.state # "running"
              \/ Closing(m).state = "waits" /\ Closing(m).queue = m.queue /\ m.state = "running" /\ m.busy
              \/ Closing(m).state = "stopping" /\ ~m.busy /\ m.state = "running"
           /\ \A i \in DOMAIN Closing(m).queue :
                 \/ Closing(m).queue[i] = Stop
                 \/ i \in DOMAIN m.queue /\ Closing(m).queue[i] = m.queue[i]
           /\ \A i \in DOMAIN m.queue :
                 i \in DOMAIN Closing(m).queue /\ Closing(m).queue[i] = m.queue[i]
  <1> DEFINE q == Append(m.queue, Stop)
  <1>1. /\ q \in Seq(Request \cup {Stop})
        /\ \A i \in DOMAIN q : q[i] = Stop \/ (i \in DOMAIN m.queue /\ q[i] = m.queue[i])
        /\ \A i \in DOMAIN m.queue : i \in DOMAIN q /\ q[i] = m.queue[i]
    BY StopAppended
  <1>2. CASE m.state # "running"
    <2>1. Closing(m) = m
      BY <1>2 DEF Closing
    <2> QED BY <1>2, <2>1
  <1>3. CASE m.state = "running" /\ m.busy
    <2>1. Closing(m) = [m EXCEPT !.state = "waits"]
      BY <1>3 DEF Closing
    <2> QED BY <1>3, <2>1 DEF Manager
  <1>4. CASE m.state = "running" /\ ~m.busy
    <2>1. Closing(m) = [m EXCEPT !.state = "stopping", !.queue = q]
      BY <1>4 DEF Closing
    <2> HIDE DEF q
    <2> QED BY <1>1, <1>4, <2>1 DEF Manager
  <1> QED BY <1>2, <1>3, <1>4

(* An order in which a set of numbers is gone through.                     *)
LEMMA OrderOf ==
    ASSUME NEW n \in Nat, NEW S \in SUBSET (1 .. n), S # {}, NEW f \in SetToSeqs(S)
    PROVE  /\ f \in Seq(Nat) /\ 1 \in DOMAIN f
           /\ \A i \in DOMAIN f : f[i] \in S
           /\ \A x \in S : \E i \in DOMAIN f : f[i] = x
           /\ \A i, j \in DOMAIN f : f[i] = f[j] => i = j
  <1>1. IsFiniteSet(1 .. n)
    BY FS_Interval
  <1>2. IsFiniteSet(S)
    BY <1>1, FS_Subset
  <1>3. PICK c \in Nat : c = Cardinality(S)
    BY <1>2, FS_CardinalityType
  <1>4. c # 0
    BY <1>2, <1>3, FS_EmptySet
  <1>5. f \in [1 .. c -> S] /\ \A i, j \in 1 .. c : i # j => f[i] # f[j]
    BY <1>3 DEF SetToSeqs
  <1>6. f \in Injection(1 .. c, S)
    BY <1>5 DEF Injection, IsInjective
  <1>7. Cardinality(1 .. c) = Cardinality(S)
    BY <1>3, FS_Interval
  <1>8. f \in Surjection(1 .. c, S)
    BY <1>2, <1>6, <1>7, FS_Injection
  <1>9. \A x \in S : \E i \in 1 .. c : f[i] = x
    BY <1>8 DEF Surjection
  <1>10. DOMAIN f = 1 .. c /\ 1 \in 1 .. c
    BY <1>4, <1>5
  <1>11. f \in Seq(Nat)
    <2>1. \A x \in S : x \in Nat
      OBVIOUS
    <2>2. f \in [1 .. c -> Nat]
      BY <1>5, <2>1
    <2> QED BY <2>2
  <1> QED BY <1>5, <1>9, <1>10, <1>11

(* The reaper closes a manager of which it knows that it is idle.          *)
LEMMA IdleManagerStops ==
    ASSUME NEW m \in Manager, m.state = "running", ~m.busy, m.queue = <<>>
    PROVE  /\ Closing(m) \in Manager /\ Closing(m).state = "stopping"
           /\ Closing(m).session = m.session /\ ~Closing(m).busy
           /\ Closing(m).command = m.command
           /\ \A i \in DOMAIN Closing(m).queue : Closing(m).queue[i] = Stop
  <1>1. DOMAIN m.queue = {}
    OBVIOUS
  <1> QED BY <1>1, ClosingManager

(* What Evict and Evicted have in common: at most one manager, an idle one *)
(* that was running, is told to stop.                                      *)
OneStops(k) ==
    /\ k \in DOMAIN manager /\ manager[k].state = "running"
    /\ ~manager[k].busy /\ manager[k].queue = <<>>
    /\ manager' = [manager EXCEPT ![k] = Closing(manager[k])]

(* Telling an idle manager to stop takes nothing from anybody.             *)
LEMMA OneStopped ==
    ASSUME Inv, NEW k, OneStops(k), UNCHANGED request
    PROVE  /\ manager' \in Seq(Manager) /\ Len(manager') = Len(manager)
           /\ DOMAIN manager' = DOMAIN manager
           /\ \A l \in DOMAIN manager : l # k => manager'[l] = manager[l]
           /\ manager'[k].state = "stopping" /\ manager'[k].session = manager[k].session
           /\ ~manager'[k].busy
           /\ \A i \in DOMAIN manager'[k].queue : manager'[k].queue[i] = Stop
           /\ \A u \in Session : Live(u)' = Live(u)
           /\ StopIsLast' /\ (Served => Served')
  <1> USE DEF OneStops
  <1>1. PICK m2 \in Manager : m2 = Closing(manager[k])
    BY ManagersAre, IdleManagerStops DEF Inv
  <1>2. /\ m2.state = "stopping" /\ m2.session = manager[k].session /\ ~m2.busy
        /\ m2.command = manager[k].command
        /\ \A i \in DOMAIN m2.queue : m2.queue[i] = Stop
    BY <1>1, ManagersAre, IdleManagerStops DEF Inv
  <1>3. manager' = [manager EXCEPT ![k] = m2]
    BY <1>1
  <1>4. /\ manager' \in Seq(Manager) /\ Len(manager') = Len(manager)
        /\ DOMAIN manager' = DOMAIN manager /\ manager'[k] = m2
        /\ \A l \in DOMAIN manager : l # k => manager'[l] = manager[l]
    BY <1>3 DEF Inv, Types
  <1>5. \A u \in Session : Live(u)' = Live(u)
    BY <1>2, <1>4 DEF Live
  <1>6. StopIsLast'
    BY <1>2, <1>4 DEF Inv, StopIsLast
  <1>7. ASSUME Served PROVE Served'
    <2>1. ASSUME NEW r \in Request, request'[r].at = "waits", request[r].manager = k
          PROVE  m2.state # "stopped" /\ Holds(m2, r)
      <3>1. Holds(manager[k], r)
        BY <1>7, <2>1 DEF Served, Holds
      <3>2. DOMAIN manager[k].queue = {}
        OBVIOUS
      <3> QED BY <1>2, <3>1, <3>2 DEF Holds
    <2> QED BY <1>2, <1>3, <1>7, <2>1, ServedStill
  <1> QED BY <1>2, <1>4, <1>5, <1>6, <1>7

(* evict_idle keeps the invariant: who is marked was READY and idle.       *)
LEMMA EvictStep ==
    ASSUME Inv, Evict
    PROVE  Inv'
  <1>1. PICK chosen \in SUBSET Session :
           /\ chosen = {s \in Session : /\ entry[s].state = "READY"
                                        /\ Idle(manager[entry[s].manager])
                                        /\ manager[entry[s].manager].quiet}
           /\ chosen # {}
    BY DEF Evict
  <1>2. /\ app = "up" /\ reaper = <<>> /\ UNCHANGED <<request, closing, app>>
        /\ entry' = [s \in Session |->
                      IF s \in chosen THEN [entry[s] EXCEPT !.state = "CLOSING"] ELSE entry[s]]
    BY <1>1 DEF Evict
  <1>3. PICK S : S = {entry[s].manager : s \in chosen}
    OBVIOUS
  <1>4. PICK order \in SetToSeqs(S) :
           reaper' = order /\ manager' = [manager EXCEPT ![order[1]] = Closing(@)]
    BY <1>1, <1>3 DEF Evict
  <1>5. \A s \in chosen :
           /\ s \in Session /\ entry[s].state = "READY" /\ entry[s].manager \in DOMAIN manager
           /\ manager[entry[s].manager].state = "running"
           /\ ~manager[entry[s].manager].busy /\ manager[entry[s].manager].queue = <<>>
           /\ manager[entry[s].manager].session = s
    <2>1. DOMAIN manager = 1 .. Len(manager)
      BY DEF Inv, Types
    <2> QED BY <1>1, <1>2, <2>1 DEF Inv, Bounded, Registered, Idle
  <1>6. /\ order \in Seq(Nat) /\ 1 \in DOMAIN order
        /\ \A i \in DOMAIN order : order[i] \in S
        /\ \A x \in S : \E i \in DOMAIN order : order[i] = x
        /\ \A i, j \in DOMAIN order : order[i] = order[j] => i = j
    <2>1. S \in SUBSET (1 .. Len(manager)) /\ S # {} /\ Len(manager) \in Nat
      BY <1>1, <1>3, <1>5 DEF Inv, Types
    <2> QED BY <1>4, <2>1, OrderOf
  <1>7. PICK k : k = order[1] /\ k \in S
    BY <1>6
  <1>8. OneStops(k)
    BY <1>3, <1>4, <1>5, <1>7 DEF OneStops
  <1>9. /\ manager' \in Seq(Manager) /\ Len(manager') = Len(manager)
        /\ DOMAIN manager' = DOMAIN manager
        /\ \A l \in DOMAIN manager : l # k => manager'[l] = manager[l]
        /\ manager'[k].state = "stopping" /\ manager'[k].session = manager[k].session
        /\ ~manager'[k].busy
        /\ \A i \in DOMAIN manager'[k].queue : manager'[k].queue[i] = Stop
        /\ \A u \in Session : Live(u)' = Live(u)
        /\ StopIsLast' /\ Served'
    BY <1>2, <1>8, OneStopped DEF Inv
  <1>10. /\ entry' \in [Session -> Entry]
         /\ \A s \in chosen : entry'[s].state = "CLOSING" /\ entry'[s].manager = entry[s].manager
         /\ \A s \in Session : s \notin chosen => entry'[s] = entry[s]
    BY <1>2 DEF Inv, Types, Entry
  <1>11. Types' /\ Bounded'
    <2>1. \A i \in DOMAIN order : order[i] \in DOMAIN manager
      BY <1>3, <1>5, <1>6
    <2>2. ASSUME NEW s \in Session
          PROVE  /\ entry'[s].manager = entry[s].manager
                 /\ entry'[s].state \in {"absent", "CREATING"} <=> entry[s].state \in {"absent", "CREATING"}
      BY <1>5, <1>10
    <2> QED BY <1>2, <1>4, <1>6, <1>9, <1>10, <2>1, <2>2 DEF Inv, Types, Bounded
  <1>12. OneEach'
    <2>1. \A u \in Session : Loaders(u)' = Loaders(u)
      BY <1>2 DEF Loaders
    <2> QED BY <1>9, <2>1 DEF Inv, OneEach
  <1>13. Registered'
    <2>1. ASSUME NEW s \in Session
          PROVE  /\ entry'[s].state = "CREATING" <=> Loaders(s)' # {}
                 /\ entry'[s].state = "READY" => manager'[entry'[s].manager].state = "running"
                 /\ entry'[s].state = "CLOSING" => \E i \in DOMAIN reaper' : reaper'[i] = entry'[s].manager
                 /\ entry'[s].manager # 0 => manager'[entry'[s].manager].session = s
      <3>1. Loaders(s)' = Loaders(s) /\ (entry[s].state = "CREATING" <=> Loaders(s) # {})
        BY <1>2 DEF Inv, Registered, Loaders
      <3>2. entry[s].state # "CLOSING"
        BY <1>2 DEF Inv, Registered
      <3>3. /\ entry[s].manager # 0 => entry[s].manager \in DOMAIN manager
            /\ entry[s].manager # 0 => manager[entry[s].manager].session = s
            /\ entry[s].state = "READY" => entry[s].manager # 0
        BY <1>2 DEF Inv, Types, Bounded, Registered
      <3>4. entry[s].manager = k => s \in chosen
        BY <1>2, <1>3, <1>5, <1>7 DEF Inv, Registered, Types, Bounded
      <3>5. CASE s \in chosen
        <4>1. \E i \in DOMAIN order : order[i] = entry[s].manager
          BY <1>3, <1>6, <3>5
        <4> QED BY <1>4, <1>5, <1>9, <1>10, <3>1, <3>3, <3>5, <4>1
      <3>6. CASE s \notin chosen
        BY <1>2, <1>9, <1>10, <3>1, <3>2, <3>3, <3>4, <3>6 DEF Inv, Registered
      <3> QED BY <3>5, <3>6
    <2>2. ASSUME NEW l \in DOMAIN manager', manager'[l].state # "stopped"
          PROVE  entry'[manager'[l].session].manager = l
      <3>1. manager'[l].session = manager[l].session /\ manager[l].session \in Session
        BY <1>9, <2>2, ManagersAre DEF Inv
      <3>2. manager[l].state # "stopped"
        BY <1>5, <1>3, <1>7, <1>9, <2>2
      <3>3. entry[manager[l].session].manager = l
        BY <1>2, <1>9, <3>2 DEF Inv, Registered
      <3> QED BY <1>10, <3>1, <3>3
    <2>3. \A r \in Request : request'[r].at # "discard"
      BY <1>2 DEF Inv, Registered
    <2> QED BY <2>1, <2>2, <2>3 DEF Registered
  <1>14. Reaped'
    <2>1. ASSUME NEW i \in DOMAIN order
          PROVE  LET m == manager'[order[i]] IN
                 /\ entry'[m.session].state = "CLOSING" /\ entry'[m.session].manager = order[i]
                 /\ ~m.busy
                 /\ \A j \in DOMAIN m.queue : m.queue[j] = Stop
                 /\ i > 1 => m.state = "running" /\ m.queue = <<>>
                 /\ i = 1 => m.state \in {"stopping", "stopped"}
      <3>1. PICK s \in chosen : order[i] = entry[s].manager
        BY <1>3, <1>6
      <3>2. i # 1 => order[i] # k
        BY <1>6, <1>7
      <3>3. CASE i = 1
        BY <1>5, <1>7, <1>9, <1>10, <3>1, <3>3
      <3>4. CASE i # 1
        <4>1. DOMAIN manager[order[i]].queue = {}
          BY <1>5, <3>1
        <4> QED BY <1>5, <1>9, <1>10, <3>1, <3>2, <3>4, <4>1
      <3> QED BY <3>3, <3>4
    <2> QED BY <1>4, <1>6, <2>1 DEF Reaped
  <1> QED BY <1>2, <1>9, <1>11, <1>12, <1>13, <1>14 DEF Inv

(* The reaper's list when its first manager is gone.                       *)
LEMMA ReaperTail ==
    ASSUME Types, reaper # <<>>
    PROVE  /\ Tail(reaper) \in Seq(Nat) /\ Head(reaper) = reaper[1] /\ 1 \in DOMAIN reaper
           /\ \A i \in DOMAIN Tail(reaper) :
                 /\ i \in Nat \ {0} /\ i + 1 \in DOMAIN reaper /\ i + 1 # 1 /\ i + 1 > 1
                 /\ Tail(reaper)[i] = reaper[i + 1]
           /\ \A i \in DOMAIN reaper :
                 i # 1 => \E j \in DOMAIN Tail(reaper) : Tail(reaper)[j] = reaper[i]
           /\ 1 \in DOMAIN Tail(reaper) <=> Len(reaper) > 1
           /\ 2 \in DOMAIN reaper <=> Len(reaper) > 1
  <1>1. /\ reaper \in Seq(Nat) /\ Len(reaper) \in Nat /\ Len(reaper) # 0
        /\ DOMAIN reaper = 1 .. Len(reaper)
    BY DEF Types
  <1>2. /\ Tail(reaper) \in Seq(Nat) /\ Len(Tail(reaper)) = Len(reaper) - 1
        /\ \A i \in 1 .. Len(reaper) - 1 : Tail(reaper)[i] = reaper[i + 1]
        /\ DOMAIN Tail(reaper) = 1 .. Len(reaper) - 1
    BY <1>1
  <1>3. Head(reaper) = reaper[1]
    BY <1>1
  <1>4. ASSUME NEW i \in DOMAIN reaper, i # 1
        PROVE  \E j \in DOMAIN Tail(reaper) : Tail(reaper)[j] = reaper[i]
    <2>1. i - 1 \in 1 .. Len(reaper) - 1 /\ (i - 1) + 1 = i
      BY <1>1, <1>4
    <2> QED BY <1>2, <2>1
  <1> QED BY <1>1, <1>2, <1>3, <1>4

(* An entry that goes was that of the first on the list; the next is still *)
(* idle.                                                                   *)
LEMMA EvictedStep ==
    ASSUME Inv, Evicted
    PROVE  Inv'
  <1>1. /\ app = "up" /\ reaper # <<>> /\ reaper' = Tail(reaper)
        /\ UNCHANGED <<request, closing, app>>
    BY DEF Evicted
  <1>2. PICK h : h = reaper[1] /\ h = Head(reaper) /\ 1 \in DOMAIN reaper
    BY <1>1, ReaperTail DEF Inv
  <1>3. PICK s \in Session : /\ h \in DOMAIN manager /\ manager[h].session = s /\ manager[h].state = "stopped"
                             /\ entry[s].state = "CLOSING" /\ entry[s].manager = h
    BY <1>1, <1>2, ManagersAre DEF Inv, Reaped, Bounded, Evicted
  <1>4. \A u \in Session : u # s => entry[u].manager # h
    <2>1. h # 0
      BY <1>3, ManagersAre DEF Inv
    <2> QED BY <1>1, <1>3, <2>1 DEF Inv, Registered
  <1>5. /\ entry' \in [Session -> Entry] /\ entry'[s] = Absent
        /\ \A u \in Session : u # s => entry'[u] = entry[u]
    <2>1. entry' = [u \in Session |->
             IF entry[u].state = "CLOSING" /\ entry[u].manager = h THEN Absent ELSE entry[u]]
      BY <1>2 DEF Evicted, Unregistered
    <2>2. Absent \in Entry
      BY DEF Absent, Entry
    <2> QED BY <1>3, <1>4, <2>1, <2>2 DEF Inv, Types
  <1>6. \A i \in DOMAIN reaper : i # 1 =>
           /\ reaper[i] # h /\ reaper[i] \in DOMAIN manager /\ manager[reaper[i]].session \in Session
           /\ manager[reaper[i]].session # s
    BY <1>1, <1>2, <1>3, ManagersAre DEF Inv, Reaped, Bounded
  <1>7. ASSUME Len(reaper) > 1
        PROVE  /\ 2 \in DOMAIN reaper /\ OneStops(reaper[2])
    <2>1. 2 \in DOMAIN reaper
      BY <1>1, <1>7, ReaperTail DEF Inv
    <2>2. LET m == manager[reaper[2]] IN m.state = "running" /\ ~m.busy /\ m.queue = <<>>
      BY <1>1, <2>1 DEF Inv, Reaped
    <2>3. manager' = [manager EXCEPT ![reaper[2]] = Closing(manager[reaper[2]])]
      BY <1>7 DEF Evicted
    <2> QED BY <1>6, <2>1, <2>2, <2>3 DEF OneStops
  <1>8. /\ manager' \in Seq(Manager) /\ Len(manager') = Len(manager)
        /\ DOMAIN manager' = DOMAIN manager
        /\ \A l \in DOMAIN manager : manager'[l] = manager[l] \/ (2 \in DOMAIN reaper /\ l = reaper[2])
        /\ \A l \in DOMAIN manager : manager'[l].session = manager[l].session
        /\ \A u \in Session : Live(u)' = Live(u)
        /\ StopIsLast' /\ Served'
        /\ 2 \in DOMAIN reaper =>
              LET m == manager'[reaper[2]]
              IN m.state = "stopping" /\ ~m.busy /\ \A j \in DOMAIN m.queue : m.queue[j] = Stop
    <2>1. CASE Len(reaper) > 1
      BY <1>1, <1>7, <2>1, OneStopped DEF Inv
    <2>2. CASE ~(Len(reaper) > 1)
      <3>1. manager' = manager /\ 2 \notin DOMAIN reaper
        BY <1>1, <2>2, ReaperTail DEF Evicted, Inv
      <3> QED BY <1>1, <3>1 DEF Inv, Types, Live, StopIsLast, Served
    <2> QED BY <2>1, <2>2
  <1>9. /\ reaper' \in Seq(Nat)
        /\ \A i \in DOMAIN reaper' :
              /\ i \in Nat \ {0} /\ i + 1 \in DOMAIN reaper /\ i + 1 # 1 /\ i + 1 > 1
              /\ reaper'[i] = reaper[i + 1]
        /\ \A i \in DOMAIN reaper :
              i # 1 => \E j \in DOMAIN reaper' : reaper'[j] = reaper[i]
    BY <1>1, ReaperTail DEF Inv
  <1>10. Types' /\ Bounded'
    <2>1. \A i \in DOMAIN reaper' : reaper'[i] \in DOMAIN manager'
      BY <1>6, <1>8, <1>9
    <2>2. Types'
      BY <1>1, <1>5, <1>8, <1>9 DEF Inv, Types
    <2>3. \A u \in Session :
             /\ entry'[u].manager \in 0 .. Len(manager')
             /\ entry'[u].manager = 0 <=> entry'[u].state \in {"absent", "CREATING"}
      <3>1. 0 \in 0 .. Len(manager)
        BY DEF Inv, Types
      <3> QED BY <1>5, <1>8, <3>1 DEF Inv, Bounded, Absent
    <2> QED BY <1>1, <1>8, <2>1, <2>2, <2>3 DEF Inv, Bounded
  <1>11. OneEach'
    <2>1. \A u \in Session : Loaders(u)' = Loaders(u)
      BY <1>1 DEF Loaders
    <2> QED BY <1>8, <2>1 DEF Inv, OneEach
  <1>12. Registered'
    <2>1. ASSUME NEW u \in Session
          PROVE  /\ entry'[u].state = "CREATING" <=> Loaders(u)' # {}
                 /\ entry'[u].state = "READY" => manager'[entry'[u].manager].state = "running"
                 /\ entry'[u].state = "CLOSING" => \E i \in DOMAIN reaper' : reaper'[i] = entry'[u].manager
                 /\ entry'[u].manager # 0 => manager'[entry'[u].manager].session = u
      <3>1. Loaders(u)' = Loaders(u) /\ (entry[u].state = "CREATING" <=> Loaders(u) # {})
        BY <1>1 DEF Inv, Registered, Loaders
      <3>2. CASE u = s
        BY <1>3, <1>5, <3>1, <3>2 DEF Absent
      <3>3. CASE u # s
        <4>1. /\ entry[u].manager # 0 => /\ entry[u].manager \in DOMAIN manager
                                         /\ manager[entry[u].manager].session = u
              /\ entry[u].state \in {"READY", "CLOSING"} => entry[u].manager # 0
          BY <1>1 DEF Inv, Types, Bounded, Registered
        <4>2. ASSUME entry[u].state = "READY" PROVE manager'[entry[u].manager].state = "running"
          <5>1. 2 \in DOMAIN reaper => entry[manager[reaper[2]].session].state = "CLOSING"
            BY <1>1 DEF Inv, Reaped
          <5>2. manager[entry[u].manager].state = "running"
            BY <1>1, <4>2 DEF Inv, Registered
          <5> QED BY <1>8, <4>1, <4>2, <5>1, <5>2
        <4>3. ASSUME entry[u].state = "CLOSING"
              PROVE \E i \in DOMAIN reaper' : reaper'[i] = entry[u].manager
          <5>1. PICK i \in DOMAIN reaper : reaper[i] = entry[u].manager
            BY <1>1, <4>3 DEF Inv, Registered
          <5>2. i # 1
            BY <1>2, <1>4, <3>3, <5>1
          <5> QED BY <1>9, <5>1, <5>2
        <4> QED BY <1>5, <1>8, <3>1, <3>3, <4>1, <4>2, <4>3
      <3> QED BY <3>2, <3>3
    <2>2. ASSUME NEW l \in DOMAIN manager', manager'[l].state # "stopped"
          PROVE  entry'[manager'[l].session].manager = l
      <3>1. manager'[l].session = manager[l].session /\ manager[l].session \in Session
        BY <1>8, <2>2, ManagersAre DEF Inv
      <3>2. l \in Live(manager[l].session)
        BY <1>8, <2>2, <3>1 DEF Live
      <3>3. manager[l].state # "stopped" /\ entry[manager[l].session].manager = l
        BY <1>1, <3>1, <3>2 DEF Inv, Registered, Live
      <3>4. manager[l].session # s
        BY <1>3, <3>3
      <3> QED BY <1>5, <3>1, <3>3, <3>4
    <2>3. \A r \in Request : request'[r].at # "discard"
      BY <1>1 DEF Inv, Registered
    <2> QED BY <2>1, <2>2, <2>3 DEF Registered
  <1>13. Reaped'
    <2>1. \A i, j \in DOMAIN reaper' : reaper'[i] = reaper'[j] => i = j
      <3>1. ASSUME NEW i \in DOMAIN reaper', NEW j \in DOMAIN reaper', reaper'[i] = reaper'[j]
            PROVE i = j
        <4>1. i + 1 = j + 1
          BY <1>1, <1>9, <3>1 DEF Inv, Reaped
        <4> QED BY <1>9, <4>1
      <3> QED BY <3>1
    <2>2. ASSUME NEW i \in DOMAIN reaper'
          PROVE  LET m == manager'[reaper'[i]] IN
                 /\ entry'[m.session].state = "CLOSING" /\ entry'[m.session].manager = reaper'[i]
                 /\ ~m.busy
                 /\ \A j \in DOMAIN m.queue : m.queue[j] = Stop
                 /\ i > 1 => m.state = "running" /\ m.queue = <<>>
                 /\ i = 1 => m.state \in {"stopping", "stopped"}
      <3>1. PICK k : /\ k = reaper[i + 1] /\ reaper'[i] = k /\ k \in DOMAIN manager
                     /\ manager[k].session \in Session /\ manager[k].session # s
                     /\ manager'[k].session = manager[k].session
        BY <1>6, <1>8, <1>9
      <3>2. /\ entry[manager[k].session].state = "CLOSING" /\ entry[manager[k].session].manager = k
            /\ ~manager[k].busy /\ manager[k].state = "running" /\ manager[k].queue = <<>>
            /\ \A j \in DOMAIN manager[k].queue : manager[k].queue[j] = Stop
        BY <1>1, <1>9, <3>1 DEF Inv, Reaped
      <3>3. CASE i = 1
        <4>1. 2 \in DOMAIN reaper /\ k = reaper[2]
          BY <1>9, <3>1, <3>3
        <4> QED BY <1>5, <1>8, <3>1, <3>2, <3>3, <4>1
      <3>4. CASE i # 1
        <4>1. 2 \in DOMAIN reaper => k # reaper[2]
          <5>1. i + 1 # 2 /\ i + 1 \in DOMAIN reaper
            BY <1>9, <3>4
          <5> QED BY <1>1, <3>1, <5>1 DEF Inv, Reaped
        <4> QED BY <1>5, <1>8, <3>1, <3>2, <3>4, <4>1
      <3> QED BY <3>3, <3>4
    <2> QED BY <2>1, <2>2 DEF Reaped
  <1> QED BY <1>1, <1>8, <1>10, <1>11, <1>12, <1>13 DEF Inv

(* The beginning of close() keeps the invariant.                           *)
LEMMA ShutdownStep ==
    ASSUME Inv, Shutdown
    PROVE  Inv'
  <1>1. /\ app = "up" /\ app' = "closing"
        /\ UNCHANGED <<entry, manager, request, reaper, closing>>
    BY DEF Shutdown
  <1>2. Types' /\ Bounded' /\ StopIsLast'
    BY <1>1 DEF Inv, Types, Bounded, StopIsLast
  <1>3. \A u \in Session : Live(u)' = Live(u) /\ Loaders(u)' = Loaders(u)
    BY <1>1 DEF Live, Loaders
  <1>4. OneEach' /\ Registered'
    BY <1>1, <1>3 DEF Inv, OneEach, Registered
  <1>5. Reaped'
    BY <1>1 DEF Inv, Reaped
  <1> QED BY <1>1, <1>2, <1>4, <1>5 DEF Inv

(* Who works and is not killed is known, so that close() waits for it.     *)
LEMMA CloseManagersStep ==
    ASSUME Inv, CloseManagers
    PROVE  Inv'
  <1>1. PICK dying : dying = IF reaper = <<>> THEN {} ELSE {Head(reaper)}
    OBVIOUS
  <1>2. PICK kept : kept = IF dying = {} THEN entry ELSE Unregistered(Head(reaper))
    OBVIOUS
  <1>3. PICK known : known = {kept[s].manager : s \in Session} \ {0}
    OBVIOUS
  <1>4. /\ app = "closing" /\ app' = "waiting" /\ reaper' = <<>> /\ closing' = known
        /\ entry' = [s \in Session |-> Absent] /\ UNCHANGED request
        /\ manager' = [k \in DOMAIN manager |->
                         IF k \in dying THEN [manager[k] EXCEPT !.state = "stopped"]
                         ELSE IF k \in known THEN Closing(manager[k]) ELSE manager[k]]
    BY <1>1, <1>2, <1>3 DEF CloseManagers
  <1>5. ASSUME NEW s \in Session
        PROVE  /\ kept[s].manager \in 0 .. Len(manager)
               /\ entry[s].manager \notin dying => kept[s] = entry[s]
    <2>1. entry[s].manager \in 0 .. Len(manager) /\ Absent.manager \in 0 .. Len(manager)
      BY DEF Inv, Types, Bounded, Absent
    <2> QED BY <1>1, <1>2, <2>1 DEF Unregistered
  <1>6. ASSUME NEW k \in DOMAIN manager
        PROVE  /\ manager'[k] \in Manager /\ manager'[k].session = manager[k].session
               /\ manager[k].state = "stopped" => manager'[k].state = "stopped"
               /\ k \in dying => manager'[k].state = "stopped"
               /\ \A i \in DOMAIN manager'[k].queue :
                     manager'[k].queue[i] = Stop => manager'[k].state \in {"stopping", "stopped"}
    <2>1. /\ manager[k] \in Manager
          /\ \A i \in DOMAIN manager[k].queue :
                manager[k].queue[i] = Stop => manager[k].state \in {"stopping", "stopped"}
      BY ManagersAre DEF Inv, StopIsLast
    <2>2. CASE k \in dying
      <3>1. manager'[k] = [manager[k] EXCEPT !.state = "stopped"]
        BY <1>4, <2>2
      <3> QED BY <2>1, <2>2, <3>1 DEF Manager
    <2>3. CASE k \notin dying /\ k \in known
      <3>1. manager'[k] = Closing(manager[k])
        BY <1>4, <2>3
      <3>2. \A i \in DOMAIN Closing(manager[k]).queue :
               Closing(manager[k]).queue[i] = Stop => Closing(manager[k]).state \in {"stopping", "stopped"}
        BY <2>1, ClosingManager
      <3> QED BY <2>1, <2>3, <3>1, <3>2, ClosingManager
    <2>4. CASE k \notin dying /\ k \notin known
      BY <1>4, <2>1, <2>4
    <2> QED BY <2>2, <2>3, <2>4
  <1>7. /\ DOMAIN manager' = DOMAIN manager /\ manager' \in Seq(Manager)
        /\ Len(manager') = Len(manager)
    <2>1. DOMAIN manager = 1 .. Len(manager) /\ Len(manager) \in Nat
      BY DEF Inv, Types
    <2>2. DOMAIN manager' = DOMAIN manager
      BY <1>4
    <2>3. manager' \in [1 .. Len(manager) -> Manager]
      BY <1>4, <1>6, <2>1
    <2> QED BY <2>1, <2>2, <2>3
  <1>8. Types'
    <2>1. Absent \in Entry /\ <<>> \in Seq(Nat)
      BY DEF Absent, Entry
    <2> QED BY <1>4, <1>7, <2>1 DEF Inv, Types
  <1>9. Bounded'
    <2>1. known \subseteq DOMAIN manager
      BY <1>3, <1>5 DEF Inv, Types
    <2> QED BY <1>4, <1>7, <2>1 DEF Inv, Bounded, Types, Absent
  <1>10. StopIsLast'
    BY <1>6, <1>7 DEF StopIsLast
  <1>11. OneEach'
    <2>1. \A u \in Session : Live(u)' \subseteq Live(u) /\ Loaders(u)' = Loaders(u)
      BY <1>4, <1>6, <1>7 DEF Live, Loaders
    <2> QED BY <2>1 DEF Inv, OneEach
  <1>12. Ended'
    <2>1. ASSUME NEW k \in DOMAIN manager', manager'[k].state # "stopped"
          PROVE  k \in known
      <3>1. k \in DOMAIN manager /\ k \notin dying /\ manager[k].state # "stopped" /\ k # 0
        BY <1>6, <1>7, <2>1, ManagersAre DEF Inv
      <3>2. manager[k].session \in Session /\ entry[manager[k].session].manager = k
        BY <1>4, <3>1, ManagersAre DEF Inv, Registered
      <3> QED BY <1>3, <1>5, <3>1, <3>2
    <2> QED BY <1>4, <2>1 DEF Ended
  <1> QED BY <1>4, <1>8, <1>9, <1>10, <1>11, <1>12 DEF Inv

(* The end of close() keeps the invariant.                                 *)
LEMMA ClosedStep ==
    ASSUME Inv, Closed
    PROVE  Inv'
  <1>1. /\ app = "waiting" /\ app' = "closed" /\ \A k \in closing : manager[k].state = "stopped"
        /\ UNCHANGED <<entry, manager, request, reaper, closing>>
    BY DEF Closed
  <1>2. Types' /\ Bounded' /\ StopIsLast'
    BY <1>1 DEF Inv, Types, Bounded, StopIsLast
  <1>3. \A u \in Session : Live(u)' = Live(u) /\ Loaders(u)' = Loaders(u)
    BY <1>1 DEF Live, Loaders
  <1>4. OneEach' /\ Ended'
    BY <1>1, <1>3 DEF Inv, OneEach, Ended
  <1> QED BY <1>1, <1>2, <1>4 DEF Inv

(* The invariant holds initially.                                          *)
LEMMA InitInv == Init => Inv
  <1> SUFFICES ASSUME Init PROVE Inv
    OBVIOUS
  <1>1. /\ manager = <<>> /\ manager \in Seq(Manager) /\ reaper = <<>> /\ reaper \in Seq(Nat)
        /\ DOMAIN manager = {} /\ DOMAIN reaper = {} /\ Len(manager) = 0
        /\ app = "up" /\ closing = {}
    BY DEF Init
  <1>2. Absent \in Entry /\ Over("unborn") \in RequestState
    BY DEF Absent, Entry, Over, RequestState
  <1>3. entry = [s \in Session |-> Absent] /\ request = [r \in Request |-> Over("unborn")]
    BY DEF Init
  <1>4. Types /\ Bounded /\ StopIsLast
    BY <1>1, <1>2, <1>3 DEF Types, Bounded, StopIsLast, Absent, Over
  <1>5. \A s \in Session : Live(s) = {} /\ Loaders(s) = {}
    BY <1>1, <1>3 DEF Live, Loaders, Over
  <1>6. OneEach /\ Registered /\ Reaped /\ Served
    BY <1>1, <1>3, <1>5 DEF OneEach, Registered, Reaped, Served, Absent, Over
  <1> QED BY <1>1, <1>4, <1>6 DEF Inv

(* The invariant is about the variables only.                              *)
LEMMA StutterStep ==
    ASSUME Inv, UNCHANGED vars
    PROVE  Inv'
  <1>1. \A u \in Session : Live(u)' = Live(u) /\ Loaders(u)' = Loaders(u)
    BY DEF Live, Loaders, vars
  <1>2. OneEach'
    BY <1>1 DEF Inv, OneEach
  <1>3. app \in {"up", "closing"} => Registered'
    BY <1>1 DEF Inv, Registered, vars
  <1>4. app \in {"up", "closing"} => Reaped'
    BY DEF Inv, Reaped, vars
  <1>5. Types' /\ Bounded' /\ StopIsLast'
    BY DEF Inv, Types, Bounded, StopIsLast, vars
  <1>6. app = "up" => Served'
    BY DEF Inv, Served, vars
  <1>7. app \in {"waiting", "closed"} => Ended'
    BY DEF Inv, Ended, vars
  <1> QED BY <1>2, <1>3, <1>4, <1>5, <1>6, <1>7 DEF Inv, vars

(* Every step keeps the invariant.                                         *)
LEMMA NextInv == Inv /\ [Next]_vars => Inv'
  <1> SUFFICES ASSUME Inv, [Next]_vars PROVE Inv'
    OBVIOUS
  <1>1. CASE UNCHANGED vars
    BY <1>1, StutterStep
  <1>2. ASSUME NEW r \in Request, NEW s \in Session, GetOrCreate(r, s) \/ Get(r, s) PROVE Inv'
    BY <1>2, GetOrCreateStep, GetStep
  <1>3. ASSUME NEW r \in Request, RequestStep(r) \/ CallerCancelled(r) PROVE Inv'
    BY <1>3, LoadedStep, LoadFailsStep, DiscardedStep, CallerCancelledStep DEF RequestStep
  <1>4. ASSUME NEW k \in DOMAIN manager, ManagerStep(k) \/ GoQuiet(k) PROVE Inv'
    BY <1>4, TakeStep, AnswerStep, RestStep, RuntimeClosedStep, HandleStopStep, GoQuietStep
    DEF ManagerStep
  <1>5. CASE Evict \/ Evicted
    BY <1>5, EvictStep, EvictedStep
  <1>6. CASE Shutdown \/ CloseManagers \/ Closed
    BY <1>6, ShutdownStep, CloseManagersStep, ClosedStep
  <1> QED BY <1>1, <1>2, <1>3, <1>4, <1>5, <1>6 DEF Next

(* The invariant holds always.                                             *)
LEMMA RegistrySafe == Spec => []Inv
  BY InitInv, NextInv, PTL DEF Spec

(* Of a session there is at most one of two kinds of thing.                *)
LEMMA AtMostOne ==
    ASSUME NEW A, NEW B, \A x, y \in A : x = y, \A x, y \in B : x = y, A = {} \/ B = {}
    PROVE  Cardinality(A) + Cardinality(B) <= 1
  <1>1. ASSUME NEW C, \A x, y \in C : x = y
        PROVE  Cardinality(C) \in {0, 1}
    <2>1. CASE C = {}
      BY <2>1, FS_EmptySet
    <2>2. CASE C # {}
      <3>1. PICK x : x \in C
        BY <2>2
      <3>2. C = {x}
        BY <1>1, <3>1
      <3> QED BY <3>2, FS_Singleton
    <2> QED BY <2>1, <2>2
  <1>2. /\ Cardinality(A) \in {0, 1} /\ Cardinality(B) \in {0, 1}
        /\ A = {} => Cardinality(A) = 0
        /\ B = {} => Cardinality(B) = 0
    BY <1>1, FS_EmptySet
  <1> QED BY <1>2

(* It implies the types.                                                   *)
LEMMA InvTypes == Inv => TypeOK
  <1> SUFFICES ASSUME Inv PROVE TypeOK
    OBVIOUS
  <1>1. entry \in [Session -> [state : {"absent", "CREATING", "READY", "CLOSING"},
                               manager : 0 .. Len(manager)]]
    BY DEF Inv, Types, Bounded, Entry
  <1>2. ASSUME NEW k \in DOMAIN manager
        PROVE  /\ manager[k].session \in Session
               /\ manager[k].state \in {"running", "waits", "stopping", "stopped"}
               /\ Range(manager[k].queue) \subseteq Request \cup {Stop}
               /\ manager[k].command \in Request \cup {None}
    <2>1. manager[k] \in Manager
      BY ManagersAre DEF Inv
    <2>2. /\ manager[k].session \in Session /\ manager[k].queue \in Seq(Request \cup {Stop})
          /\ manager[k].state \in {"running", "waits", "stopping", "stopped"}
          /\ manager[k].command \in Request \cup {None}
      BY <2>1 DEF Manager
    <2>3. \A i \in DOMAIN manager[k].queue : manager[k].queue[i] \in Request \cup {Stop}
      BY <2>2
    <2> QED BY <2>2, <2>3 DEF Range
  <1>3. ASSUME NEW r \in Request
        PROVE  /\ request[r].at \in {"unborn", "load", "waits", "discard", "answered",
                                     "refused", "cancelled"}
               /\ request[r].session \in Session \cup {None}
    BY DEF Inv, Types, RequestState
  <1>4. Range(reaper) \cup closing \subseteq DOMAIN manager
    BY DEF Inv, Bounded, Range
  <1> QED BY <1>1, <1>2, <1>3, <1>4 DEF Inv, Types, Bounded, TypeOK

(* It implies that sessions have one owner.                                *)
LEMMA InvOwners == Inv => SessionsHaveOneOwner
  <1> SUFFICES ASSUME Inv, NEW s \in Session
               PROVE  /\ Cardinality(Live(s)) + Cardinality(Loaders(s)) <= 1
                      /\ app = "up" =>
                            /\ entry[s].state = "CREATING" <=> Loaders(s) # {}
                            /\ entry[s].state = "READY" =>
                                  /\ entry[s].manager \in Live(s)
                                  /\ manager[entry[s].manager].state = "running"
                            /\ entry[s].state = "CLOSING" => entry[s].manager \in Range(reaper)
    BY DEF SessionsHaveOneOwner
  <1>1. Cardinality(Live(s)) + Cardinality(Loaders(s)) <= 1
    BY AtMostOne DEF Inv, OneEach
  <1>2. ASSUME app = "up", entry[s].state = "READY"
        PROVE  entry[s].manager \in Live(s) /\ manager[entry[s].manager].state = "running"
    <2>1. entry[s].manager # 0 /\ entry[s].manager \in DOMAIN manager
      BY <1>2 DEF Inv, Types, Bounded
    <2> QED BY <1>2, <2>1 DEF Inv, Registered, Live
  <1>3. ASSUME app = "up", entry[s].state = "CLOSING"
        PROVE  entry[s].manager \in Range(reaper)
    BY <1>3 DEF Inv, Registered, Range
  <1> QED BY <1>1, <1>2, <1>3 DEF Inv, Registered

(* It implies that nothing is stranded.                                    *)
LEMMA InvStranded == Inv => NothingIsStranded
  <1> SUFFICES ASSUME Inv PROVE NothingIsStranded
    OBVIOUS
  <1>1. ASSUME app = "up", NEW r \in Request, request[r].at = "waits"
        PROVE  LET m == manager[request[r].manager]
               IN m.state # "stopped" /\ r \in Range(m.queue) \cup {m.command}
    BY <1>1 DEF Inv, Served, Range
  <1>2. ASSUME app = "up" PROVE \A k \in DOMAIN manager : manager[k].state = "stopped" => ~manager[k].busy
    BY <1>2 DEF Inv, Served
  <1>3. ASSUME app = "closed", NEW s \in Session, NEW k \in Live(s)
        PROVE  \E r \in Request : request[r].at = "discard" /\ request[r].manager = k
    BY <1>3 DEF Inv, Ended, Live
  <1> QED BY <1>1, <1>2, <1>3 DEF NothingIsStranded

(* Entries, managers, requests and the reaper's list have their types, and *)
(* an entry has a manager exactly while it is READY or CLOSING, for any    *)
(* sessions, requests and number of managers.                              *)
THEOREM RegistryTypes == Spec => []TypeOK
  BY RegistrySafe, InvTypes, PTL

(* Of a session there is never more than one working manager or loading    *)
(* request, and while the application is up its entry says who it is:      *)
(* get_or_begin_create, finish_create, abort_create, evict_idle and close, *)
(* in whatever order requests are made, fail and are cancelled.            *)
THEOREM OneOwnerEach == Spec => []SessionsHaveOneOwner
  BY RegistrySafe, InvOwners, PTL

(* idle() and evict_idle, which do not see the command being executed,     *)
(* take no manager away from a turn or from an accepted command, and after *)
(* close() only a manager that its own loader closes can be at work.       *)
THEOREM NobodyIsStranded == Spec => []NothingIsStranded
  BY RegistrySafe, InvStranded, PTL
==============================================================================
