-------------------------- MODULE SessionFeedProofs --------------------------
(***************************************************************************)
(* For any pages, turns and limits: what a page shows of the turn that it  *)
(* follows, with what waits in its subscription, is every published event  *)
(* once, and it hears of the turn's end; and when the command queue has    *)
(* room for one command of every page, no subscription is left behind.     *)
(***************************************************************************)
EXTENDS SessionFeed, FiniteSetTheorems, TLAPS

(* One runtime at a time, and how far the rows and the loop are with a     *)
(* turn.                                                                   *)
RuntimeInv ==
  /\ \A t \in Turn :
       /\ phase[t] \in {"begin", "stream", "finish"} <=> current = t
       /\ phase[t] \in {"stream", "finish"} <=> active = t
       /\ phase[t] = "unborn" => row[t] = "none"
       /\ row[t] = "none" => saved[t] = 0 /\ seen[t] = 0
       /\ phase[t] = "begin" => seen[t] = 0 /\ (row[t] = "open" => saved[t] = 1) /\ row[t] # "ended"
       /\ phase[t] = "stream" =>
            row[t] = "open" /\ seen[t] >= 1 /\ (saved[t] = seen[t] \/ saved[t] = seen[t] + 1)
       /\ phase[t] = "finish" =>
            \/ row[t] = "open" /\ saved[t] = seen[t] /\ seen[t] >= 1
            \/ row[t] = "ended" /\ saved[t] = seen[t] + 1
       /\ row[t] = "open" => saved[t] <= MaxProgress + 1
       /\ row[t] \in {"none", "open"} \/ phase[t] \in {"finish", "closed"}

(* Commands of a manager: a closing one has only its stop, the turn of a   *)
(* create is unborn until the command is taken, and the only runtime that  *)
(* has not begun is the one whose create waits for it.                     *)
CommandInv ==
  /\ \A i \in DOMAIN queue : queue[i] = Stop => mgr = "closing"
  /\ mgr = "closing" => queue = <<Stop>>
  /\ mgr = "absent" => queue = << >> /\ cmd = NoCommand
                       /\ \A p \in Page : ~sub[p].registered
  /\ mgr # "ready" => active = NoTurn /\ current = NoTurn
  /\ \A i \in DOMAIN queue : queue[i].op = "create" =>
       /\ queue[i].turn \in Turn /\ phase[queue[i].turn] = "unborn"
       /\ \A j \in DOMAIN queue : queue[j].op = "create" /\ queue[j].turn = queue[i].turn => i = j
  /\ cmd.op = "create" =>
       /\ cmd.turn \in Turn
       /\ phase[cmd.turn] # "unborn"
       /\ current # NoTurn => current = cmd.turn
       /\ cmd.wait = "list" => seen[cmd.turn] > 0
  /\ cmd.op = "attach" => cmd.wait = "list"
  /\ \A t \in Turn : phase[t] = "begin" => cmd.op = "create" /\ cmd.turn = t

(* The places of a turn's events in a queue.                               *)
Of(q, t) == {i \in DOMAIN q : q[i].turn = t}

(* What an open subscription and its page know together: a terminal event  *)
(* that waits is one of a settled turn; ...                                *)
EndsAreSettled(p) ==
  \A i \in DOMAIN sub[p].q : sub[p].q[i].end =>
     row[sub[p].q[i].turn] = "ended" /\ phase[sub[p].q[i].turn] = "closed"

(* ... the turn that a request follows runs, or its end waits; ...         *)
Following == {"replied", "build", "built", "stream"}
Hears(p) ==
  ctx[p].turn # NoTurn /\ stage[p] \in Following =>
    \/ current = ctx[p].turn /\ phase[ctx[p].turn] \in {"stream", "finish"}
    \/ \E i \in DOMAIN sub[p].q :
          sub[p].q[i] = [turn |-> ctx[p].turn, n |-> seen[ctx[p].turn], end |-> TRUE]

(* ... a captured view is as old as the subscription, and a turn that was  *)
(* not captured is being finished, with nothing more to come than its end, *)
(* or has ended; ...                                                       *)
CaptureCounts(p) ==
  ctx[p].turn # NoTurn /\ stage[p] \in {"replied", "build"} /\ ctx[p].captured =>
    ctx[p].shown + Cardinality(Of(sub[p].q, ctx[p].turn)) = seen[ctx[p].turn]
RowsWillCount(p) ==
  ctx[p].turn # NoTurn /\ stage[p] \in {"replied", "build"} /\ ~ctx[p].captured =>
    \/ row[ctx[p].turn] = "ended"
    \/ /\ phase[ctx[p].turn] = "finish"
       /\ \A i \in DOMAIN sub[p].q : sub[p].q[i].turn # ctx[p].turn

(* ... and so are the snapshot and what the page shows.                    *)
SnapshotCounts(p) ==
  ctx[p].turn # NoTurn /\ stage[p] = "built" /\ ~ctx[p].over =>
    ctx[p].shown + Cardinality(Of(sub[p].q, ctx[p].turn)) = seen[ctx[p].turn]
ViewCounts(p) ==
  ctx[p].turn # NoTurn /\ stage[p] = "stream" /\ ~view[p].over =>
    /\ view[p].turn = ctx[p].turn
    /\ view[p].shown + Cardinality(Of(sub[p].q, ctx[p].turn)) = seen[ctx[p].turn]

Follows(p) == sub[p].registered =>
  /\ EndsAreSettled(p) /\ Hears(p)
  /\ CaptureCounts(p) /\ RowsWillCount(p) /\ SnapshotCounts(p) /\ ViewCounts(p)

Inv == TypeOK /\ RuntimeInv /\ CommandInv /\ \A p \in Page : Follows(p)

(* A page has at most one command in the queue or under way, of the kind   *)
(* its request waits for, and an open subscription is one of the manager   *)
(* that serves it.                                                         *)
Asking == {"asked", "dropped"}
Ending == {"leaving", "parting"}
OneCommandEach ==
  /\ \A i \in DOMAIN queue : queue[i].op # "stop" =>
       /\ stage[queue[i].page] \in (IF queue[i].op = "detach" THEN Ending ELSE Asking)
       /\ cmd # NoCommand => queue[i].page # cmd.page
       /\ \A j \in DOMAIN queue : queue[j].op # "stop" /\ queue[i].page = queue[j].page => i = j
  /\ cmd # NoCommand => stage[cmd.page] \in Asking
  /\ \A p \in Page : sub[p].registered => sub[p].loaded

-----------------------------------------------------------------------------
(* A queue holds finitely many events of a turn.                           *)
LEMMA OfFinite ==
  ASSUME NEW q \in Seq(Event), NEW t
  PROVE  IsFiniteSet(Of(q, t)) /\ Cardinality(Of(q, t)) \in Nat
  <1>1. DOMAIN q = 1 .. Len(q) /\ Len(q) \in Nat
    OBVIOUS
  <1>2. IsFiniteSet(1 .. Len(q)) /\ Of(q, t) \in SUBSET (1 .. Len(q))
    BY <1>1, FS_Interval DEF Of
  <1>3. IsFiniteSet(Of(q, t))
    BY <1>2, FS_Subset
  <1> QED BY <1>3, FS_CardinalityType

(* An event behind a queue adds one to the events of its own turn and to   *)
(* no other's: what publish does to the count.                             *)
LEMMA OfAppended ==
  ASSUME NEW q \in Seq(Event), NEW e \in Event, NEW t
  PROVE  Cardinality(Of(Append(q, e), t)) =
           Cardinality(Of(q, t)) + (IF e.turn = t THEN 1 ELSE 0)
  <1> DEFINE n == Len(q) + 1
             a == Append(q, e)
  <1>1. /\ a \in Seq(Event) /\ DOMAIN a = 1 .. n /\ DOMAIN q = 1 .. Len(q) /\ Len(q) \in Nat
        /\ a[n] = e /\ \A i \in DOMAIN q : a[i] = q[i]
    OBVIOUS
  <1>2. n \notin Of(q, t) /\ DOMAIN a = DOMAIN q \cup {n} /\ n \notin DOMAIN q
    BY <1>1 DEF Of
  <1> HIDE DEF n, a
  <1>3. IsFiniteSet(Of(q, t)) /\ Cardinality(Of(q, t)) \in Nat
    BY OfFinite
  <1>4. CASE e.turn = t
    <2>1. Of(a, t) = Of(q, t) \cup {n}
      BY <1>1, <1>2, <1>4 DEF Of
    <2> QED BY <1>2, <1>3, <1>4, <2>1, FS_AddElement DEF a
  <1>5. CASE e.turn # t
    <2>1. Of(a, t) = Of(q, t)
      BY <1>1, <1>2, <1>5 DEF Of
    <2> QED BY <1>3, <1>5, <2>1 DEF a
  <1> QED BY <1>4, <1>5

(* The count without the head: what the stream's next event does to it.    *)
LEMMA OfTail ==
  ASSUME NEW q \in Seq(Event), q # << >>, NEW t
  PROVE  Cardinality(Of(q, t)) =
           Cardinality(Of(Tail(q), t)) + (IF Head(q).turn = t THEN 1 ELSE 0)
  <1>1. /\ Tail(q) \in Seq(Event) /\ Len(Tail(q)) = Len(q) - 1 /\ Len(q) \in Nat \ {0}
        /\ DOMAIN q = 1 .. Len(q) /\ DOMAIN Tail(q) = 1 .. Len(q) - 1
        /\ \A i \in 1 .. Len(q) - 1 : Tail(q)[i] = q[i + 1]
        /\ Head(q) = q[1]
    OBVIOUS
  <1> DEFINE A == Of(Tail(q), t)
             B == Of(q, t) \ {1}
             f == [i \in A |-> i + 1]
  <1>2. f \in Bijection(A, B)
    <2>1. \A i \in A : i \in Nat /\ i + 1 \in B
      BY <1>1 DEF Of
    <2>2. \A j \in B : j \in Nat /\ j - 1 \in A /\ (j - 1) + 1 = j
      BY <1>1 DEF Of
    <2>3. f \in Injection(A, B)
      BY <2>1 DEF Injection, IsInjective
    <2>4. f \in Surjection(A, B)
      BY <2>1, <2>2 DEF Surjection
    <2> QED BY <2>3, <2>4 DEF Bijection
  <1>3. IsFiniteSet(A) /\ Cardinality(A) \in Nat
    BY <1>1, OfFinite
  <1>4. Cardinality(B) = Cardinality(A)
    BY <1>2, <1>3, FS_Bijection DEF ExistsBijection
  <1>5. IsFiniteSet(Of(q, t)) /\ Cardinality(Of(q, t)) \in Nat
    BY OfFinite
  <1>6. 1 \in Of(q, t) <=> Head(q).turn = t
    BY <1>1 DEF Of
  <1>7. Cardinality(B) = IF 1 \in Of(q, t) THEN Cardinality(Of(q, t)) - 1 ELSE Cardinality(Of(q, t))
    BY <1>5, FS_RemoveElement
  <1> QED BY <1>3, <1>4, <1>5, <1>6, <1>7

(* No event of the turn, count zero.                                       *)
LEMMA OfNone ==
  ASSUME NEW q, NEW t, \A i \in DOMAIN q : q[i].turn # t
  PROVE  Cardinality(Of(q, t)) = 0
  <1>1. Of(q, t) = {}
    BY DEF Of
  <1> QED BY <1>1, FS_EmptySet

-----------------------------------------------------------------------------
(* The bounds are natural numbers, and the two queues hold something.      *)
LEMMA Bounds ==
  /\ MaxProgress \in Nat /\ IdleTicks \in Nat /\ MaxFaults \in Nat /\ MaxLost \in Nat
  /\ QueueLimit \in Nat /\ QueueLimit # 0 /\ FeedLimit \in Nat /\ FeedLimit # 0
  BY BoundsAssumption

(* The three subscriptions the code makes are subscriptions, empty, and    *)
(* only the new one is registered.                                         *)
LEMMA NewSubscriptions ==
  /\ NoSubscription \in Subscription /\ NewSubscription \in Subscription /\ Stopped \in Subscription
  /\ \A s \in {NoSubscription, NewSubscription, Stopped} : s.q = << >> /\ Len(s.q) <= FeedLimit
  /\ ~NoSubscription.registered /\ ~Stopped.registered /\ NewSubscription.registered
  <1>1. << >> \in Seq(Event) /\ Len(<< >>) <= FeedLimit
    BY BoundsAssumption
  <1>2. /\ NoSubscription \in Subscription /\ NoSubscription.q = << >>
        /\ ~NoSubscription.registered
    BY <1>1 DEF NoSubscription, Subscription
  <1>3. ASSUME NEW s \in Subscription, NEW b \in BOOLEAN
        PROVE  /\ [s EXCEPT !.registered = b] \in Subscription
               /\ [s EXCEPT !.registered = b].q = s.q
               /\ [s EXCEPT !.registered = b].registered = b
    BY DEF Subscription
  <1>4. ASSUME NEW s \in Subscription, NEW b \in BOOLEAN
        PROVE  /\ [s EXCEPT !.loaded = b] \in Subscription
               /\ [s EXCEPT !.loaded = b].q = s.q
               /\ [s EXCEPT !.loaded = b].registered = s.registered
    BY DEF Subscription
  <1>5. /\ NewSubscription \in Subscription /\ NewSubscription.q = << >>
        /\ NewSubscription.registered
    BY <1>2, <1>3 DEF NewSubscription
  <1>6. /\ Stopped \in Subscription /\ Stopped.q = << >>
        /\ ~Stopped.registered
    BY <1>2, <1>4 DEF Stopped
  <1> QED BY <1>1, <1>2, <1>5, <1>6

(* An overflow keeps a subscription within its limit                       *)
(* (Subscription.publish).                                                 *)
LEMMA PublishedType ==
  ASSUME NEW s \in Subscription, NEW e \in Event, Len(s.q) <= FeedLimit
  PROVE  Published(s, e) \in Subscription /\ Len(Published(s, e).q) <= FeedLimit
  <1>1. s.q \in Seq(Event) /\ s.registered \in BOOLEAN /\ s.loaded \in BOOLEAN
    BY DEF Subscription
  <1>2. FeedLimit \in Nat \ {0}
    BY BoundsAssumption
  <1>3. NoSubscription \in Subscription /\ Len(NoSubscription.q) <= FeedLimit
    BY <1>2 DEF NoSubscription, Subscription
  <1>4. CASE Len(s.q) < FeedLimit
    <2> DEFINE q == Append(s.q, e)
    <2>1. q \in Seq(Event) /\ Len(q) <= FeedLimit
      BY <1>1, <1>2, <1>4
    <2> HIDE DEF q
    <2>2. [s EXCEPT !.q = q] \in Subscription /\ [s EXCEPT !.q = q].q = q
      BY <2>1 DEF Subscription
    <2> QED BY <1>3, <1>4, <2>1, <2>2 DEF Published, q
  <1>5. CASE ~(Len(s.q) < FeedLimit)
    BY <1>3, <1>5 DEF Published
  <1> QED BY <1>4, <1>5

RowTypes ==
  /\ row \in [Turn -> {"none", "open", "ended"}]
  /\ saved \in [Turn -> 0..(MaxProgress + 2)]
  /\ seen \in [Turn -> 0..(MaxProgress + 2)]
  /\ phase \in [Turn -> {"unborn", "begin", "stream", "finish", "closed"}]
  /\ active \in TurnOrNone /\ current \in TurnOrNone

CommandTypes ==
  /\ mgr \in {"absent", "ready", "closing"} /\ broken \in BOOLEAN
  /\ queue \in Seq(Command \cup {Stop})
  /\ cmd \in Executing

SubTypes ==
  /\ sub \in [Page -> Subscription]
  /\ \A p \in Page : Len(sub[p].q) <= FeedLimit

PageTypes ==
  /\ stage \in [Page -> Stage]
  /\ ctx \in [Page -> Context]
  /\ view \in [Page -> View]

ClockTypes ==
  /\ quiet \in 0..IdleTicks
  /\ due \subseteq Page
  /\ faults \in 0..MaxFaults
  /\ lost \in 0..MaxLost

(* The type invariant is the conjunction of its parts.                     *)
LEMMA TypeParts ==
  TypeOK <=> RowTypes /\ CommandTypes /\ SubTypes /\ PageTypes /\ ClockTypes
  BY DEF TypeOK, RowTypes, CommandTypes, SubTypes, PageTypes, ClockTypes

(* Every step keeps the types of the rows and the runtimes: an event       *)
(* number never passes the bound, because an open turn has not got its     *)
(* last event.                                                             *)
LEMMA RowsTyped ==
  ASSUME TypeOK, RuntimeInv, CommandInv, [Next]_vars
  PROVE  RowTypes'
  <1> USE BoundsAssumption, NoTurnAssumption
      DEF RowTypes, turnVars, mgrVars, cmdVars, pageVars, clockVars, boundVars
  <1>1. RowTypes
    BY TypeParts
  <1>2. CASE UNCHANGED vars
    BY <1>1, <1>2 DEF vars
  <1>3. ASSUME NEW t \in Turn, RuntimeStep(t) PROVE RowTypes'
    BY <1>1, <1>3 DEF RuntimeStep, BeginCommit, BeginTakenUp, EventCommit, EventTakenUp, TakeUp,
       FinishAsked, FinishCommit, FinishTakenUp, Recover, Orphaned, RuntimeInv, TurnOrNone
  <1>4. ASSUME NEW t \in Turn, WriteFault(t) PROVE RowTypes'
    BY <1>1, <1>4 DEF WriteFault, Fail, TurnOrNone
  <1>5. CASE Handlers
    BY <1>1, <1>5 DEF Handlers, Rejected, Attach, Detach, Create, CreateBegun, CreateBeginError,
       Registered, HandleStop, TurnOrNone
  <1>6. CASE ListFault
    BY <1>1, <1>6 DEF ListFault, Fail, TurnOrNone
  <1>7. CASE Evict \/ Load \/ Tick
    BY <1>1, <1>7 DEF Evict, Load, Tick
  <1>8. ASSUME NEW p \in Page, Open(p) \/ Retry(p) \/ (\E t \in Turn : Send(p, t)) PROVE RowTypes'
    BY <1>1, <1>8 DEF Open, Retry, Send, Request
  <1>9. ASSUME NEW p \in Page, CallerCancelled(p) \/ SnapshotFails(p) \/ Disconnected(p) PROVE RowTypes'
    BY <1>1, <1>9 DEF CallerCancelled, SnapshotFails, Disconnected, Lost
  <1>10. ASSUME NEW p \in Page, Response(p) PROVE RowTypes'
    BY <1>1, <1>10 DEF Response, ReplyTaken, SnapshotRead, FirstFrame, EventSent, StreamEnds
  <1> QED BY <1>2, <1>3, <1>4, <1>5, <1>6, <1>7, <1>8, <1>9, <1>10 DEF Next

(* How the command queue grows, and how _run takes from it.                *)
LEMMA QueueGrows ==
  ASSUME queue \in Seq(Command \cup {Stop}), NEW c \in Command, queue' = Append(queue, c)
  PROVE  /\ queue' \in Seq(Command \cup {Stop}) /\ Len(queue') = Len(queue) + 1
         /\ Len(queue') \in DOMAIN queue' /\ queue'[Len(queue')] = c
         /\ \A i \in DOMAIN queue' :
               (i \in DOMAIN queue /\ queue'[i] = queue[i]) \/ (i = Len(queue') /\ queue'[i] = c)
  OBVIOUS

(* What _run leaves in the queue behind the command it takes.              *)
LEMMA QueueShrinks ==
  ASSUME queue \in Seq(Command \cup {Stop}), queue # << >>, queue' = Tail(queue)
  PROVE  /\ queue' \in Seq(Command \cup {Stop})
         /\ 1 \in DOMAIN queue /\ queue[1] = Head(queue)
         /\ \A i \in DOMAIN queue' :
               i \in Nat \ {0} /\ i + 1 \in DOMAIN queue /\ i + 1 # 1 /\ queue'[i] = queue[i + 1]
  OBVIOUS

(* The way out of a response: at most one detach, and one of four stages.  *)
LEMMA LeaveTypes ==
  ASSUME NEW p \in Page, NEW retry \in BOOLEAN, Leave(p, retry)
  PROVE  /\ \/ queue' = queue
            \/ mgr = "ready" /\ queue' = Append(queue, [op |-> "detach", page |-> p, turn |-> NoTurn])
         /\ \E s \in {"idle", "retry", "leaving", "parting"} : stage' = [stage EXCEPT ![p] = s]
         /\ [op |-> "detach", page |-> p, turn |-> NoTurn] \in Command
  BY DEF Leave, After, Command, TurnOrNone, Accepts

(* Every step keeps the types of the manager and its commands.             *)
LEMMA CommandsTyped ==
  ASSUME TypeOK, RuntimeInv, CommandInv, [Next]_vars
  PROVE  CommandTypes'
  <1> USE DEF CommandTypes, turnVars, mgrVars, cmdVars, pageVars, clockVars, boundVars
  <1>1. CommandTypes
    BY TypeParts
  <1>2. CASE UNCHANGED vars
    BY <1>1, <1>2 DEF vars
  <1>3. ASSUME NEW t \in Turn, RuntimeStep(t) PROVE CommandTypes'
    BY <1>1, <1>3 DEF RuntimeStep, BeginCommit, BeginTakenUp, EventCommit, EventTakenUp, TakeUp,
       FinishAsked, FinishCommit, FinishTakenUp, Recover
  <1>4. ASSUME NEW t \in Turn, WriteFault(t) PROVE CommandTypes'
    BY <1>1, <1>4 DEF WriteFault, Fail
  <1>5. CASE Handlers
    <2>1. ASSUME NEW p \in Page, Rejected(p) \/ Detach(p) PROVE CommandTypes'
      BY <1>1, <2>1, QueueShrinks DEF Rejected, Detach, Take
    <2>2. ASSUME NEW p \in Page, Attach(p) PROVE CommandTypes'
      BY <1>1, <2>2, QueueShrinks DEF Attach, Take, Executing, TurnOrNone
    <2>3. ASSUME NEW p \in Page, NEW t \in Turn, Create(p, t) PROVE CommandTypes'
      BY <1>1, <2>3, QueueShrinks DEF Create, Take, Executing, TurnOrNone
    <2>4. CASE CreateBegun \/ CreateBeginError \/ Registered
      BY <1>1, <2>4 DEF CreateBegun, CreateBeginError, Registered, Executing, NoCommand
    <2>5. CASE HandleStop
      <3>1. << >> \in Seq(Command \cup {Stop})
        OBVIOUS
      <3> QED BY <1>1, <2>5, <3>1 DEF HandleStop
    <2> QED BY <1>5, <2>1, <2>2, <2>3, <2>4, <2>5 DEF Handlers
  <1>6. CASE ListFault
    BY <1>1, <1>6 DEF ListFault, Fail, Executing
  <1>7. CASE Evict \/ Load \/ Tick
    <2>1. <<Stop>> \in Seq(Command \cup {Stop})
      OBVIOUS
    <2> QED BY <1>1, <1>7, <2>1 DEF Evict, Load, Tick
  <1>8. ASSUME NEW p \in Page, Open(p) \/ Retry(p) \/ (\E t \in Turn : Send(p, t)) PROVE CommandTypes'
    <2>1. PICK op \in {"create", "attach"}, t \in TurnOrNone : Request(p, op, t)
      BY <1>8 DEF Open, Retry, Send, TurnOrNone
    <2>2. [op |-> op, page |-> p, turn |-> t] \in Command
      BY DEF Command
    <2> QED BY <1>1, <2>1, <2>2, QueueGrows DEF Request
  <1>9. ASSUME NEW p \in Page, CallerCancelled(p) \/ SnapshotFails(p) \/ Disconnected(p) PROVE CommandTypes'
    BY <1>1, <1>9, LeaveTypes, QueueGrows DEF CallerCancelled, SnapshotFails, Disconnected, Lost
  <1>10. ASSUME NEW p \in Page, Response(p) PROVE CommandTypes'
    <2>1. UNCHANGED <<mgr, broken, cmd>> /\ (queue' = queue \/ \E retry \in BOOLEAN : Leave(p, retry))
      BY <1>10 DEF Response, ReplyTaken, SnapshotRead, FirstFrame, EventSent, StreamEnds
    <2> QED BY <1>1, <2>1, LeaveTypes, QueueGrows
  <1> QED BY <1>2, <1>3, <1>4, <1>5, <1>6, <1>7, <1>8, <1>9, <1>10 DEF Next

(* Every step keeps the subscriptions within their limit.                  *)
LEMMA SubsTyped ==
  ASSUME TypeOK, RuntimeInv, CommandInv, [Next]_vars
  PROVE  SubTypes'
  <1> USE DEF SubTypes, turnVars, mgrVars, cmdVars, pageVars, clockVars, boundVars
  <1>1. SubTypes /\ RowTypes
    BY TypeParts
  <1>2. /\ \A s \in {NoSubscription, NewSubscription, Stopped} :
             s \in Subscription /\ Len(s.q) <= FeedLimit
    BY NewSubscriptions
  <1>3. CASE UNCHANGED vars
    BY <1>1, <1>3 DEF vars
  <1>4. ASSUME NEW t \in Turn, NEW end \in BOOLEAN, TakeUp(t, end) PROVE SubTypes'
    <2>1. PICK e : e = [turn |-> t, n |-> saved[t], end |-> end]
      OBVIOUS
    <2>2. e \in Event
      BY <1>1, <1>4, <2>1, BoundsAssumption DEF Event, TakeUp, RowTypes
    <2>3. sub' = [p \in Page |-> Published(sub[p], e)]
      BY <1>4, <2>1 DEF TakeUp, Broadcast
    <2> QED BY <1>1, <2>2, <2>3, PublishedType
  <1>5. ASSUME NEW t \in Turn, RuntimeStep(t) PROVE SubTypes'
    BY <1>1, <1>4, <1>5 DEF RuntimeStep, BeginCommit, BeginTakenUp, EventCommit, EventTakenUp,
       FinishAsked, FinishCommit, FinishTakenUp, Recover
  <1>6. ASSUME Fail PROVE SubTypes'
    BY <1>2, <1>6 DEF Fail
  <1>7. CASE Handlers
    BY <1>1, <1>2, <1>7 DEF Handlers, Rejected, Attach, Detach, Create, CreateBegun, CreateBeginError,
       Registered, HandleStop
  <1>8. CASE Evict \/ Load \/ Tick
    BY <1>1, <1>8 DEF Evict, Load, Tick
  <1>9. ASSUME NEW p \in Page, Open(p) \/ Retry(p) \/ (\E t \in Turn : Send(p, t)) PROVE SubTypes'
    BY <1>1, <1>9 DEF Open, Retry, Send, Request
  <1>10. ASSUME NEW p \in Page, CallerCancelled(p) \/ SnapshotFails(p) \/ Disconnected(p) PROVE SubTypes'
    BY <1>1, <1>2, <1>10 DEF CallerCancelled, SnapshotFails, Disconnected, Lost
  <1>11. ASSUME NEW p \in Page, EventSent(p) PROVE SubTypes'
    <2>1. sub' = [sub EXCEPT ![p] = [sub[p] EXCEPT !.q = Tail(sub[p].q)]]
      BY <1>11 DEF EventSent
    <2>2. sub[p].q \in Seq(Event) /\ sub[p].q # << >> /\ sub[p] \in Subscription
      BY <1>1, <1>11 DEF EventSent, Subscription
    <2> DEFINE q == Tail(sub[p].q)
    <2>3. q \in Seq(Event) /\ Len(q) <= FeedLimit
      <3>1. /\ Tail(sub[p].q) \in Seq(Event) /\ Len(Tail(sub[p].q)) = Len(sub[p].q) - 1
            /\ Len(sub[p].q) \in Nat /\ Len(sub[p].q) <= FeedLimit
        BY <1>1, <2>2
      <3> QED BY <3>1, Bounds
    <2> HIDE DEF q
    <2>4. [sub[p] EXCEPT !.q = q] \in Subscription /\ [sub[p] EXCEPT !.q = q].q = q
      BY <2>2, <2>3 DEF Subscription
    <2> QED BY <1>1, <2>1, <2>3, <2>4 DEF q
  <1>12. ASSUME NEW p \in Page, Response(p) PROVE SubTypes'
    BY <1>1, <1>11, <1>12 DEF Response, ReplyTaken, SnapshotRead, FirstFrame, StreamEnds
  <1> QED BY <1>3, <1>5, <1>6, <1>7, <1>8, <1>9, <1>10, <1>12 DEF Next, WriteFault, ListFault

(* build_snapshot replaces two fields of one page's context.               *)
LEMMA SnapshotContext ==
  ASSUME ctx \in [Page -> Context], NEW p \in Page, NEW n \in Nat, NEW b \in BOOLEAN,
         NEW d, d = [ctx EXCEPT ![p].shown = n, ![p].over = b]
  PROVE  /\ d \in [Page -> Context]
         /\ \A x \in Page : x # p => d[x] = ctx[x]
         /\ d[p].turn = ctx[p].turn /\ d[p].captured = ctx[p].captured
         /\ d[p].shown = n /\ d[p].over = b
  <1>1. [[ctx[p] EXCEPT !.shown = n] EXCEPT !.over = b] \in Context
    BY DEF Context
  <1>2. d = [[ctx EXCEPT ![p] = [ctx[p] EXCEPT !.shown = n]]
               EXCEPT ![p] = [[ctx[p] EXCEPT !.shown = n] EXCEPT !.over = b]]
    OBVIOUS
  <1>3. ctx[p] \in Context
    OBVIOUS
  <1>4. d[p] = [[ctx[p] EXCEPT !.shown = n] EXCEPT !.over = b]
    BY <1>2
  <1>5. d \in [Page -> Context] /\ \A x \in Page : x # p => d[x] = ctx[x]
    BY <1>1, <1>2
  <1> QED BY <1>3, <1>4, <1>5 DEF Context

(* Every step keeps the types of what the pages hold.                      *)
LEMMA PagesTyped ==
  ASSUME TypeOK, RuntimeInv, CommandInv, [Next]_vars
  PROVE  PageTypes'
  <1> USE DEF PageTypes, turnVars, mgrVars, cmdVars, pageVars, clockVars, boundVars
  <1>1. PageTypes /\ RowTypes /\ CommandTypes /\ SubTypes
    BY TypeParts
  <1>2. \A s \in {"idle", "retry", "asked", "dropped", "replied", "build", "built",
                  "stream", "leaving", "parting"} : s \in Stage
    BY DEF Stage
  <1>3. NoView \in View
    BY DEF NoView, View, TurnOrNone
  <1>4. CASE UNCHANGED vars
    BY <1>1, <1>4 DEF vars
  <1>5. ASSUME NEW t \in Turn, RuntimeStep(t) \/ WriteFault(t) PROVE PageTypes'
    BY <1>1, <1>5 DEF RuntimeStep, BeginCommit, BeginTakenUp, EventCommit, EventTakenUp,
       FinishAsked, FinishCommit, FinishTakenUp, Recover, TakeUp, WriteFault
  <1>6. ASSUME cmd # NoCommand PROVE cmd.page \in Page
    BY <1>1, <1>6 DEF CommandTypes, Executing
  <1>7. CASE Handlers
    <2>1. ASSUME NEW p \in Page, Rejected(p) \/ Detach(p) \/ Attach(p) \/ \E t \in Turn : Create(p, t)
          PROVE  PageTypes'
      BY <1>1, <1>2, <2>1 DEF Rejected, Attach, Detach, Create, ErrorReply
    <2>2. CASE CreateBegun \/ CreateBeginError \/ HandleStop
      BY <1>1, <1>2, <2>2 DEF CreateBegun, CreateBeginError, HandleStop, ErrorReply
    <2>3. CASE Registered
      <3>1. cmd.page \in Page
        BY <1>6, <2>3 DEF Registered
      <3>2. Captured \in Context
        <4>1. CASE cmd.op = "create"
          <5>1. cmd.turn \in Turn
            BY <4>1 DEF CommandInv
          <5> QED BY <1>1, <4>1, <5>1, Bounds DEF Captured, Context, RowTypes
        <4>2. CASE cmd.op # "create"
          BY <1>1, <4>2, Bounds DEF Captured, Context, RowTypes, TurnOrNone
        <4> QED BY <4>1, <4>2
      <3> QED BY <1>1, <1>2, <2>3, <3>1, <3>2 DEF Registered
    <2> QED BY <1>7, <2>1, <2>2, <2>3 DEF Handlers
  <1>8. CASE ListFault
    BY <1>1, <1>2, <1>8 DEF ListFault, ErrorReply
  <1>9. CASE Evict \/ Load \/ Tick
    BY <1>1, <1>9 DEF Evict, Load, Tick
  <1>10. ASSUME NEW p \in Page, Open(p) \/ Retry(p) \/ (\E t \in Turn : Send(p, t)) PROVE PageTypes'
    <2>1. PICK op \in {"create", "attach"}, t \in TurnOrNone : Request(p, op, t)
      BY <1>10 DEF Open, Retry, Send, TurnOrNone
    <2>2. /\ \E s \in {"asked", "retry"} : stage' = [stage EXCEPT ![p] = s]
          /\ \E v \in {NoView, view[p]} : view' = [view EXCEPT ![p] = v]
          /\ ctx' = ctx
      BY <2>1 DEF Request
    <2>3. stage' \in [Page -> Stage]
      BY <1>1, <1>2, <2>2
    <2>4. view' \in [Page -> View]
      BY <1>1, <1>3, <2>2
    <2> QED BY <1>1, <2>2, <2>3, <2>4
  <1>11. ASSUME NEW p \in Page, NEW retry \in BOOLEAN, Leave(p, retry)
         PROVE  stage' \in [Page -> Stage]
    <2>1. PICK s \in {"idle", "retry", "leaving", "parting"} : stage' = [stage EXCEPT ![p] = s]
      BY <1>11, LeaveTypes
    <2>2. s \in Stage /\ stage \in [Page -> Stage]
      BY <1>1, <1>2
    <2> QED BY ONLY <2>1, <2>2
  <1>12. ASSUME NEW p \in Page, CallerCancelled(p) \/ SnapshotFails(p) \/ Disconnected(p) PROVE PageTypes'
    BY <1>1, <1>2, <1>3, <1>11, <1>12 DEF CallerCancelled, SnapshotFails, Disconnected, Lost
  <1>13. ASSUME NEW p \in Page, ReplyTaken(p) \/ StreamEnds(p) PROVE PageTypes'
    BY <1>1, <1>2, <1>11, <1>13 DEF ReplyTaken, StreamEnds
  <1>14. ASSUME NEW p \in Page, SnapshotRead(p) PROVE PageTypes'
    <2>1. ctx[p] \in Context /\ (ctx[p].turn # NoTurn => ctx[p].turn \in Turn)
      BY <1>1 DEF Context, TurnOrNone
    <2>2. CASE ctx' = ctx
      BY <1>1, <1>2, <1>14, <2>2 DEF SnapshotRead
    <2>3. CASE ctx' # ctx
      <3>1. ctx' = [ctx EXCEPT ![p].shown = saved[ctx[p].turn],
                               ![p].over = row[ctx[p].turn] = "ended"]
            /\ ctx[p].turn \in Turn
        BY <1>14, <2>1, <2>3 DEF SnapshotRead
      <3>2. saved[ctx[p].turn] \in Nat /\ (row[ctx[p].turn] = "ended") \in BOOLEAN
        BY <1>1, <3>1, Bounds DEF RowTypes
      <3>3. PICK n \in Nat, b \in BOOLEAN : ctx' = [ctx EXCEPT ![p].shown = n, ![p].over = b]
        BY <3>1, <3>2
      <3>4. ctx' \in [Page -> Context]
        BY <1>1, <3>3, SnapshotContext
      <3> QED BY <1>1, <1>2, <1>14, <3>4 DEF SnapshotRead
    <2> QED BY <2>2, <2>3
  <1>15. ASSUME NEW p \in Page, FirstFrame(p) PROVE PageTypes'
    <2>1. [turn |-> ctx[p].turn, shown |-> ctx[p].shown, over |-> ctx[p].over] \in View
      BY <1>1 DEF Context, View
    <2> QED BY <1>1, <1>2, <1>11, <1>15, <2>1 DEF FirstFrame
  <1>16. ASSUME NEW p \in Page, EventSent(p) PROVE PageTypes'
    <2>1. sub[p].q \in Seq(Event) /\ sub[p].q # << >>
      BY <1>1, <1>16 DEF EventSent, SubTypes, Subscription
    <2>2. Head(sub[p].q) \in Event
      BY <2>1
    <2>3. Applied(view[p], Head(sub[p].q)) \in View
      BY <1>1, <2>2 DEF Applied, View, Event, TurnOrNone
    <2>4. stage' \in [Page -> Stage]
      <3>1. stage' = stage \/ \E retry \in BOOLEAN : Leave(p, retry)
        BY <1>16 DEF EventSent
      <3> QED BY <1>1, <1>11, <3>1
    <2> QED BY <1>1, <1>16, <2>3, <2>4 DEF EventSent
  <1> QED BY <1>4, <1>5, <1>7, <1>8, <1>9, <1>10, <1>12, <1>13, <1>14, <1>15, <1>16 DEF Next, Response

(* Every step keeps the clocks and the bounds.                             *)
LEMMA ClockTyped ==
  ASSUME TypeOK, [Next]_vars
  PROVE  ClockTypes'
  <1> USE Bounds DEF ClockTypes, turnVars, mgrVars, cmdVars, pageVars, clockVars, boundVars
  <1>1. ClockTypes
    BY TypeParts
  <1>2. CASE UNCHANGED vars
    BY <1>1, <1>2 DEF vars
  <1>3. ASSUME NEW t \in Turn, RuntimeStep(t) \/ WriteFault(t) PROVE ClockTypes'
    BY <1>1, <1>3 DEF RuntimeStep, BeginCommit, BeginTakenUp, EventCommit, EventTakenUp,
       FinishAsked, FinishCommit, FinishTakenUp, Recover, TakeUp, WriteFault, Fail
  <1>4. CASE Handlers
    BY <1>1, <1>4 DEF Handlers, Rejected, Attach, Detach, Create, CreateBegun, CreateBeginError,
       Registered, HandleStop, Take
  <1>5. CASE ListFault \/ Evict \/ Load \/ Tick
    BY <1>1, <1>5 DEF ListFault, Fail, Evict, Load, Tick
  <1>6. ASSUME NEW p \in Page, Open(p) \/ Retry(p) \/ (\E t \in Turn : Send(p, t)) PROVE ClockTypes'
    <2>1. PICK op, t : Request(p, op, t)
      BY <1>6 DEF Open, Retry, Send
    <2> QED BY <1>1, <2>1 DEF Request
  <1>7. ASSUME NEW p \in Page, CallerCancelled(p) \/ SnapshotFails(p) \/ Disconnected(p) PROVE ClockTypes'
    BY <1>1, <1>7 DEF CallerCancelled, SnapshotFails, Disconnected, Lost
  <1>8. ASSUME NEW p \in Page, Response(p) PROVE ClockTypes'
    BY <1>1, <1>8 DEF Response, ReplyTaken, SnapshotRead, FirstFrame, EventSent, StreamEnds
  <1> QED BY <1>2, <1>3, <1>4, <1>5, <1>6, <1>7, <1>8 DEF Next
(* The type invariant is kept by every step.                               *)
LEMMA TypesKept ==
  ASSUME TypeOK, RuntimeInv, CommandInv, [Next]_vars
  PROVE  TypeOK'
  <1>1. RowTypes' /\ CommandTypes' /\ SubTypes' /\ PageTypes' /\ ClockTypes'
    BY RowsTyped, CommandsTyped, SubsTyped, PagesTyped, ClockTyped
  <1> QED BY <1>1 DEF TypeOK, RowTypes, CommandTypes, SubTypes, PageTypes, ClockTypes

-----------------------------------------------------------------------------
(* There is one runtime, and rows, numbers and phase of every turn go on   *)
(* together through commits, events, faults and recoveries.                *)
LEMMA RuntimeKept ==
  ASSUME TypeOK, RuntimeInv, CommandInv, [Next]_vars
  PROVE  RuntimeInv'
  <1> USE NoTurnAssumption, Bounds DEF RuntimeInv, turnVars, mgrVars, cmdVars, pageVars, clockVars, boundVars
  <1>1. RowTypes /\ CommandTypes /\ RowTypes' /\ CommandTypes'
    BY TypeParts, RowsTyped, CommandsTyped
  <1> USE DEF RowTypes, TurnOrNone
  <1>2. CASE UNCHANGED vars
    BY <1>1, <1>2 DEF vars
  <1>3. ASSUME NEW t \in Turn, RuntimeStep(t) PROVE RuntimeInv'
    <2>1. CASE BeginCommit(t)
      BY <1>1, <2>1 DEF BeginCommit
    <2>2. CASE BeginTakenUp(t)
      BY <1>1, <2>2 DEF BeginTakenUp, TakeUp
    <2>3. CASE EventCommit(t)
      BY <1>1, <2>3 DEF EventCommit
    <2>4. CASE EventTakenUp(t)
      BY <1>1, <2>4 DEF EventTakenUp, TakeUp
    <2>5. CASE FinishAsked(t)
      BY <1>1, <2>5 DEF FinishAsked
    <2>6. CASE FinishCommit(t)
      BY <1>1, <2>6 DEF FinishCommit
    <2>7. CASE FinishTakenUp(t)
      BY <1>1, <2>7 DEF FinishTakenUp, TakeUp
    <2>8. CASE Recover(t)
      BY <1>1, <2>8 DEF Recover, Orphaned
    <2> QED BY <1>3, <2>1, <2>2, <2>3, <2>4, <2>5, <2>6, <2>7, <2>8 DEF RuntimeStep
  <1>4. ASSUME NEW t \in Turn, WriteFault(t) PROVE RuntimeInv'
    BY <1>1, <1>4 DEF WriteFault, Fail
  <1>5. CASE ListFault
    BY <1>1, <1>5 DEF ListFault, Fail
  <1>6. CASE HandleStop
    <2>1. queue[1] = Stop /\ 1 \in DOMAIN queue
      BY <1>1, <1>6 DEF HandleStop, CommandTypes
    <2>2. active = NoTurn /\ current = NoTurn
      BY <2>1 DEF CommandInv
    <2> QED BY <1>6, <2>2 DEF HandleStop
  <1>7. ASSUME NEW p \in Page, NEW t \in Turn, Create(p, t) PROVE RuntimeInv'
    <2>1. 1 \in DOMAIN queue /\ queue[1] = [op |-> "create", page |-> p, turn |-> t]
      BY <1>1, <1>7 DEF Create, Take, CommandTypes
    <2>2. phase[t] = "unborn"
      BY <2>1 DEF CommandInv
    <2>3. cmd.op # "create"
      BY <1>7 DEF Create, Take, NoCommand
    <2>4. \A u \in Turn : phase[u] \notin {"begin", "stream", "finish"}
      BY <1>1, <1>7, <2>3 DEF Create, CommandInv
    <2>5. /\ row' = row /\ saved' = saved /\ seen' = seen /\ active' = NoTurn /\ current' = t
          /\ phase' = [phase EXCEPT ![t] = "begin"]
      BY <1>7 DEF Create
    <2> QED BY <1>1, <2>2, <2>4, <2>5
  <1>8. CASE UNCHANGED <<row, saved, seen, phase, active, current>>
    BY <1>8
  <1>9. CASE Handlers
    BY <1>6, <1>7, <1>8, <1>9 DEF Handlers, Rejected, Attach, Detach, CreateBegun, CreateBeginError,
       Registered
  <1>10. CASE Evict \/ Load \/ Tick
    BY <1>8, <1>10 DEF Evict, Load, Tick
  <1>11. ASSUME NEW p \in Page, Open(p) \/ Retry(p) \/ (\E t \in Turn : Send(p, t)) PROVE RuntimeInv'
    BY <1>8, <1>11 DEF Open, Retry, Send, Request
  <1>12. ASSUME NEW p \in Page, CallerCancelled(p) \/ SnapshotFails(p) \/ Disconnected(p) PROVE RuntimeInv'
    BY <1>8, <1>12 DEF CallerCancelled, SnapshotFails, Disconnected, Lost
  <1>13. ASSUME NEW p \in Page, Response(p) PROVE RuntimeInv'
    BY <1>8, <1>13 DEF Response, ReplyTaken, SnapshotRead, FirstFrame, EventSent, StreamEnds
  <1> QED BY <1>2, <1>3, <1>4, <1>5, <1>9, <1>10, <1>11, <1>12, <1>13 DEF Next

(* The creates in a queue: every turn once, and unborn.                    *)
Creates ==
  \A i \in DOMAIN queue : queue[i].op = "create" =>
    /\ queue[i].turn \in Turn /\ phase[queue[i].turn] = "unborn"
    /\ \A j \in DOMAIN queue : queue[j].op = "create" /\ queue[j].turn = queue[i].turn => i = j

Places ==
  /\ \A i \in DOMAIN queue : queue[i] = Stop => mgr = "closing"
  /\ mgr = "closing" => queue = <<Stop>>
  /\ mgr = "absent" => queue = << >> /\ cmd = NoCommand
                       /\ \A p \in Page : ~sub[p].registered
  /\ mgr # "ready" => active = NoTurn /\ current = NoTurn

Underway ==
  /\ cmd.op = "create" =>
       /\ cmd.turn \in Turn
       /\ phase[cmd.turn] # "unborn"
       /\ current # NoTurn => current = cmd.turn
       /\ cmd.wait = "list" => seen[cmd.turn] > 0
  /\ cmd.op = "attach" => cmd.wait = "list"
  /\ \A t \in Turn : phase[t] = "begin" => cmd.op = "create" /\ cmd.turn = t

(* The invariant of the commands, by what each part is about.              *)
LEMMA CommandParts == CommandInv <=> Creates /\ Places /\ Underway
  BY DEF CommandInv, Creates, Places, Underway

(* A queue that loses its head keeps its creates apart, when only the turn *)
(* of the head is born.                                                    *)
LEMMA CreatesShrink ==
  ASSUME queue \in Seq(Command \cup {Stop}), Creates, queue # << >>, queue' = Tail(queue),
         \A t \in Turn : phase[t] = "unborn" =>
            phase'[t] = "unborn" \/ (Head(queue).op = "create" /\ Head(queue).turn = t)
  PROVE  Creates'
  <1>1. /\ 1 \in DOMAIN queue /\ queue[1] = Head(queue)
        /\ \A i \in DOMAIN queue' :
               i \in Nat \ {0} /\ i + 1 \in DOMAIN queue /\ i + 1 # 1 /\ queue'[i] = queue[i + 1]
    BY QueueShrinks
  <1> QED BY <1>1 DEF Creates

(* A queue that gains a command keeps its creates apart, when the          *)
(* identifier is fresh.                                                    *)
LEMMA CreatesGrow ==
  ASSUME queue \in Seq(Command \cup {Stop}), Creates, phase' = phase,
         NEW c \in Command, queue' = Append(queue, c),
         c.op = "create" => /\ c.turn \in Turn /\ phase[c.turn] = "unborn"
                            /\ \A i \in DOMAIN queue : queue[i].op = "create" => queue[i].turn # c.turn
  PROVE  Creates'
  BY QueueGrows DEF Creates

(* Closing managers have their stop alone, creates name distinct unborn    *)
(* turns, and the runtime that has not begun is the one its create waits   *)
(* for: every step keeps this.                                             *)
LEMMA CommandKept ==
  ASSUME TypeOK, RuntimeInv, CommandInv, [Next]_vars
  PROVE  CommandInv'
  <1> USE NoTurnAssumption, Bounds DEF turnVars, mgrVars, cmdVars, pageVars, clockVars, boundVars
  <1>1. RowTypes /\ CommandTypes /\ SubTypes /\ RowTypes' /\ CommandTypes' /\ SubTypes'
    BY TypeParts, RowsTyped, CommandsTyped, SubsTyped
  <1>2. Creates /\ Places /\ Underway
    BY CommandParts
  <1>3. SUFFICES Creates' /\ Places' /\ Underway'
    BY DEF CommandInv, Creates, Places, Underway
  <1>4. CASE UNCHANGED vars
    BY <1>2, <1>4 DEF vars, Creates, Places, Underway
  <1>5. ASSUME NEW t \in Turn, RuntimeStep(t) PROVE Creates' /\ Places' /\ Underway'
    <2>1. UNCHANGED <<mgr, queue, cmd>>
      BY <1>5 DEF RuntimeStep, BeginCommit, BeginTakenUp, EventCommit, EventTakenUp, TakeUp,
         FinishAsked, FinishCommit, FinishTakenUp, Recover
    <2>2. \A u \in Turn :
             /\ phase[u] = "unborn" => phase'[u] = "unborn"
             /\ phase[u] # "unborn" => phase'[u] # "unborn"
             /\ phase'[u] = "begin" => phase[u] = "begin"
             /\ seen[u] > 0 => seen'[u] > 0
      BY <1>1, <1>5 DEF RuntimeStep, BeginCommit, BeginTakenUp, EventCommit, EventTakenUp, TakeUp,
         FinishAsked, FinishCommit, FinishTakenUp, Recover, RowTypes
    <2>3. current' = current \/ current' = NoTurn
      BY <1>5 DEF RuntimeStep, BeginCommit, BeginTakenUp, EventCommit, EventTakenUp, TakeUp,
         FinishAsked, FinishCommit, FinishTakenUp, Recover
    <2>4. active' \in {active, NoTurn} \/ current # NoTurn
      BY <1>5 DEF RuntimeStep, BeginCommit, BeginTakenUp, EventCommit, EventTakenUp, TakeUp,
         FinishAsked, FinishCommit, FinishTakenUp, Recover, RuntimeInv
    <2>5. \A p \in Page : sub[p].registered = FALSE => sub'[p].registered = FALSE
      <3>1. sub' = sub \/ \E e : Broadcast(e)
        BY <1>5 DEF RuntimeStep, BeginCommit, BeginTakenUp, EventCommit, EventTakenUp, TakeUp,
         FinishAsked, FinishCommit, FinishTakenUp, Recover
      <3> QED BY <1>1, <3>1 DEF Broadcast, Published
    <2>6. Creates'
      BY <1>2, <2>1, <2>2 DEF Creates
    <2>7. Places'
      BY <1>1, <1>2, <2>1, <2>3, <2>4, <2>5 DEF Places, SubTypes, Subscription
    <2>8. Underway'
      BY <1>2, <2>1, <2>2, <2>3 DEF Underway
    <2> QED BY <2>6, <2>7, <2>8
  <1>6. ASSUME NEW t \in Turn, WriteFault(t) PROVE Creates' /\ Places' /\ Underway'
    BY <1>1, <1>2, <1>6, NewSubscriptions DEF WriteFault, Fail, Creates, Places,
       Underway, RowTypes, RuntimeInv
  <1>7. CASE ListFault
    <2>1. current # NoTurn => current \in Turn /\ phase[current] # "unborn"
      BY <1>1 DEF RowTypes, TurnOrNone, RuntimeInv
    <2>2. UNCHANGED <<mgr, queue>> /\ cmd' = NoCommand /\ active' = NoTurn /\ current' = NoTurn
          /\ \A p \in Page : ~sub'[p].registered
      BY <1>7, NewSubscriptions DEF ListFault, Fail
    <2>3. \A t \in Turn : (phase[t] = "unborn" => phase'[t] = "unborn") /\ phase'[t] # "begin"
      BY <1>1, <1>7, <2>1 DEF ListFault, RowTypes, RuntimeInv
    <2>4. Creates'
      BY <1>2, <2>2, <2>3 DEF Creates
    <2>5. Places'
      BY <1>2, <2>2 DEF Places
    <2>6. Underway'
      BY <2>2, <2>3 DEF Underway, NoCommand
    <2> QED BY <2>4, <2>5, <2>6
  <1>8. CASE Handlers
    <2>1. ASSUME NEW p \in Page, Rejected(p) \/ Detach(p) PROVE Creates' /\ Places' /\ Underway'
      <3>1. /\ queue # << >> /\ queue' = Tail(queue) /\ cmd = NoCommand
            /\ UNCHANGED <<row, saved, seen, phase, mgr, active, current, cmd>>
            /\ Head(queue) # Stop
        BY <2>1 DEF Rejected, Detach, Take, Stop
      <3>2. mgr = "ready"
        BY <1>1, <1>2, <3>1, QueueShrinks DEF Places, CommandTypes
      <3>3. Creates'
        BY <1>1, <1>2, <3>1, CreatesShrink DEF CommandTypes
      <3>4. Places'
        BY <1>1, <1>2, <3>1, <3>2, QueueShrinks DEF Places, CommandTypes
      <3>5. Underway'
        BY <1>2, <3>1 DEF Underway
      <3> QED BY <3>3, <3>4, <3>5
    <2>2. ASSUME NEW p \in Page, Attach(p) PROVE Creates' /\ Places' /\ Underway'
      <3>1. /\ queue # << >> /\ queue' = Tail(queue) /\ cmd = NoCommand
            /\ UNCHANGED <<row, saved, seen, phase, mgr, active, current>>
            /\ cmd'.op = "attach" /\ cmd'.wait = "list"
            /\ Head(queue) # Stop
        BY <2>2 DEF Attach, Take, Stop
      <3>2. mgr = "ready"
        BY <1>1, <1>2, <3>1, QueueShrinks DEF Places, CommandTypes
      <3>3. Creates'
        BY <1>1, <1>2, <3>1, CreatesShrink DEF CommandTypes
      <3>4. Places'
        BY <1>1, <1>2, <3>1, <3>2, QueueShrinks DEF Places, CommandTypes
      <3>5. \A t \in Turn : phase[t] # "begin"
        BY <1>2, <3>1 DEF Underway, NoCommand
      <3>6. Underway'
        BY <3>1, <3>5 DEF Underway
      <3> QED BY <3>3, <3>4, <3>6
    <2>3. ASSUME NEW p \in Page, NEW t \in Turn, Create(p, t) PROVE Creates' /\ Places' /\ Underway'
      <3>1. /\ queue # << >> /\ queue' = Tail(queue) /\ cmd = NoCommand
            /\ UNCHANGED <<row, saved, seen, mgr, active>>
            /\ phase' = [phase EXCEPT ![t] = "begin"] /\ current' = t
            /\ cmd'.op = "create" /\ cmd'.wait = "begun" /\ cmd'.turn = t
            /\ Head(queue).op = "create" /\ Head(queue).turn = t
            /\ Head(queue) # Stop
        BY <2>3 DEF Create, Take, Stop
      <3>2. mgr = "ready"
        BY <1>1, <1>2, <3>1, QueueShrinks DEF Places, CommandTypes
      <3>3. Creates'
        BY <1>1, <1>2, <3>1, CreatesShrink DEF CommandTypes, RowTypes
      <3>4. Places'
        BY <1>1, <1>2, <3>1, <3>2, QueueShrinks DEF Places, CommandTypes
      <3>5. \A u \in Turn : phase[u] # "begin"
        BY <1>2, <3>1 DEF Underway, NoCommand
      <3>6. Underway'
        BY <1>1, <3>1, <3>5 DEF Underway, RowTypes
      <3> QED BY <3>3, <3>4, <3>6
    <2>4. CASE CreateBegun
      <3>1. /\ UNCHANGED <<row, saved, seen, phase, mgr, active, current, queue, sub>>
            /\ cmd.op = "create" /\ seen[cmd.turn] > 0
            /\ cmd'.op = "create" /\ cmd'.turn = cmd.turn /\ cmd # NoCommand
        BY <1>1, <2>4 DEF CreateBegun, CommandTypes, Executing, NoCommand
      <3> QED BY <1>2, <3>1 DEF Creates, Places, Underway
    <2>5. CASE CreateBeginError
      <3>1. /\ UNCHANGED <<row, saved, seen, phase, mgr, active, current, queue, sub>>
            /\ cmd.op = "create" /\ phase[cmd.turn] = "closed" /\ cmd' = NoCommand
        BY <2>5 DEF CreateBeginError
      <3>2. \A t \in Turn : phase[t] # "begin"
        BY <1>2, <3>1 DEF Underway
      <3> QED BY <1>2, <3>1, <3>2 DEF Creates, Places, Underway, NoCommand
    <2>6. CASE Registered
      <3>1. /\ UNCHANGED <<row, saved, seen, phase, mgr, active, current, queue>>
            /\ cmd # NoCommand /\ cmd.wait = "list" /\ cmd' = NoCommand
        BY <2>6 DEF Registered
      <3>2. \A t \in Turn : phase[t] # "begin"
        BY <1>2, <3>1 DEF Underway, RuntimeInv
      <3> QED BY <1>2, <3>1, <3>2 DEF Creates, Places, Underway, NoCommand
    <2>7. CASE HandleStop
      <3>1. /\ UNCHANGED <<row, saved, seen, phase, cmd>> /\ queue' = << >> /\ mgr' = "absent"
            /\ cmd = NoCommand /\ active' = NoTurn /\ current' = NoTurn
            /\ \A p \in Page : ~sub'[p].registered
        BY <2>7, NewSubscriptions DEF HandleStop
      <3> QED BY <1>2, <3>1 DEF Creates, Places, Underway, NoCommand
    <2> QED BY <1>8, <2>1, <2>2, <2>3, <2>4, <2>5, <2>6, <2>7 DEF Handlers
  <1>9. CASE Evict
    <2>1. /\ UNCHANGED <<row, saved, seen, phase, active, current, cmd>>
          /\ queue' = <<Stop>> /\ mgr' = "closing" /\ active = NoTurn /\ current = NoTurn
      BY <1>9 DEF Evict, ManagerIdle
    <2>2. Creates' /\ Places'
      BY <2>1 DEF Creates, Places, Stop
    <2>3. Underway'
      BY <1>2, <2>1 DEF Underway
    <2> QED BY <2>2, <2>3
  <1>10. CASE Load
    <2>1. /\ UNCHANGED <<row, saved, seen, phase, active, current, cmd, queue, sub>>
          /\ mgr' = "ready" /\ mgr = "absent"
      BY <1>10 DEF Load
    <2> QED BY <1>2, <2>1 DEF Creates, Places, Underway
  <1>11. CASE UNCHANGED <<row, saved, seen, phase, mgr, active, current, cmd, queue>>
         /\ \A p \in Page : sub[p].registered = FALSE => sub'[p].registered = FALSE
    BY <1>1, <1>2, <1>11 DEF Creates, Places, Underway, SubTypes, Subscription
  <1>12. CASE Tick
    BY <1>11, <1>12 DEF Tick
  <1>13. ASSUME mgr = "ready", NEW c \in Command, queue' = Append(queue, c), c.op # "create",
                UNCHANGED <<row, saved, seen, phase, mgr, active, current, cmd>>
         PROVE  Creates' /\ Places' /\ Underway'
    <2>1. Creates'
      BY <1>1, <1>2, <1>13, CreatesGrow DEF CommandTypes
    <2>2. c # Stop
      BY DEF Command, Stop
    <2>3. Places' /\ Underway'
      BY <1>1, <1>2, <1>13, <2>2, QueueGrows DEF Places, Underway, CommandTypes
    <2> QED BY <2>1, <2>3
  <1>14. ASSUME NEW p \in Page, NEW op \in {"create", "attach"}, NEW t \in TurnOrNone, Request(p, op, t),
                op = "create" =>
                  /\ t \in Turn /\ phase[t] = "unborn"
                  /\ \A i \in DOMAIN queue : queue[i].op = "create" => queue[i].turn # t
         PROVE  Creates' /\ Places' /\ Underway'
    <2>1. UNCHANGED <<row, saved, seen, phase, mgr, active, current, cmd, sub>>
      BY <1>14 DEF Request
    <2>2. CASE queue' = queue
      BY <1>11, <2>1, <2>2
    <2>3. CASE queue' # queue
      <3>1. mgr = "ready" /\ queue' = Append(queue, [op |-> op, page |-> p, turn |-> t])
        BY <1>14, <2>3 DEF Request, Accepts
      <3>2. PICK c \in Command : c = [op |-> op, page |-> p, turn |-> t]
        BY DEF Command
      <3>3. c # Stop /\ c.op = op /\ c.turn = t
        BY <3>2 DEF Stop
      <3>4. Creates'
        BY <1>1, <1>2, <1>14, <2>1, <3>1, <3>2, <3>3, CreatesGrow DEF CommandTypes
      <3>5. Places' /\ Underway'
        BY <1>1, <1>2, <2>1, <3>1, <3>2, <3>3, QueueGrows DEF Places, Underway, CommandTypes
      <3> QED BY <3>4, <3>5
    <2> QED BY <2>2, <2>3
  <1>15. ASSUME NEW p \in Page, Open(p) \/ Retry(p) \/ (\E t \in Turn : Send(p, t))
         PROVE  Creates' /\ Places' /\ Underway'
    <2>1. CASE Request(p, "attach", NoTurn)
      BY <1>14, <2>1 DEF TurnOrNone
    <2>2. ASSUME NEW t \in Turn, Send(p, t) PROVE Creates' /\ Places' /\ Underway'
      BY <1>14, <2>2 DEF Send, TurnOrNone
    <2> QED BY <1>15, <2>1, <2>2 DEF Open, Retry
  <1>16. ASSUME NEW p \in Page, NEW retry \in BOOLEAN, Leave(p, retry),
                UNCHANGED <<row, saved, seen, phase, mgr, active, current, cmd>>,
                \A x \in Page : sub[x].registered = FALSE => sub'[x].registered = FALSE
         PROVE  Creates' /\ Places' /\ Underway'
    <2>1. CASE queue' = queue
      BY <1>11, <1>16, <2>1
    <2>2. CASE queue' # queue
      <3>1. PICK c \in Command : mgr = "ready" /\ queue' = Append(queue, c) /\ c.op # "create"
        BY <1>16, <2>2, LeaveTypes
      <3> QED BY <1>13, <1>16, <3>1
    <2> QED BY <2>1, <2>2
  <1>17. ASSUME NEW p \in Page, CallerCancelled(p) PROVE Creates' /\ Places' /\ Underway'
    <2>1. /\ UNCHANGED <<row, saved, seen, phase, mgr, active, current, cmd, queue>>
          /\ sub' = sub \/ sub' = [sub EXCEPT ![p] = NoSubscription]
      BY <1>17 DEF CallerCancelled
    <2>2. \A x \in Page : sub[x].registered = FALSE => sub'[x].registered = FALSE
      BY <1>1, <2>1 DEF SubTypes, NoSubscription
    <2> QED BY <1>11, <2>1, <2>2
  <1>18. ASSUME NEW p \in Page, SnapshotFails(p) \/ Disconnected(p) PROVE Creates' /\ Places' /\ Underway'
    BY <1>16, <1>18 DEF SnapshotFails, Disconnected, Lost
  <1>19. ASSUME NEW p \in Page, Response(p) PROVE Creates' /\ Places' /\ Underway'
    <2>1. UNCHANGED <<row, saved, seen, phase, mgr, active, current, cmd>>
      BY <1>19 DEF Response, ReplyTaken, SnapshotRead, FirstFrame, EventSent, StreamEnds
    <2>2. queue' = queue \/ \E retry \in BOOLEAN : Leave(p, retry)
      BY <1>19 DEF Response, ReplyTaken, SnapshotRead, FirstFrame, EventSent, StreamEnds
    <2>3. \A x \in Page : sub[x].registered = FALSE => sub'[x].registered = FALSE
      <3>1. sub' = sub \/ sub' = [sub EXCEPT ![p].q = Tail(@)]
        BY <1>19 DEF Response, ReplyTaken, SnapshotRead, FirstFrame, EventSent, StreamEnds
      <3> QED BY <1>1, <3>1 DEF SubTypes, Subscription
    <2> QED BY <1>11, <1>16, <2>1, <2>2, <2>3
  <1> QED BY <1>4, <1>5, <1>6, <1>7, <1>8, <1>9, <1>10, <1>12, <1>15, <1>17, <1>18, <1>19 DEF Next

-----------------------------------------------------------------------------
(* What the types say about one subscription.                              *)
LEMMA QueueEvents ==
  ASSUME SubTypes, NEW p \in Page
  PROVE  /\ sub[p] \in Subscription /\ sub[p].q \in Seq(Event) /\ Len(sub[p].q) <= FeedLimit
         /\ \A i \in DOMAIN sub[p].q : sub[p].q[i] \in Event /\ sub[p].q[i].turn \in Turn
         /\ \A t : Cardinality(Of(sub[p].q, t)) \in Nat
  <1>1. sub[p] \in Subscription /\ sub[p].q \in Seq(Event) /\ Len(sub[p].q) <= FeedLimit
    BY DEF SubTypes, Subscription
  <1>2. \A i \in DOMAIN sub[p].q : sub[p].q[i] \in Event
    BY <1>1
  <1> QED BY <1>1, <1>2, OfFinite DEF Event

(* A step that publishes nothing to the page and neither moves its request *)
(* ahead nor settles its turn leaves what it follows intact.               *)
LEMMA FollowsQuiet ==
  ASSUME SubTypes, PageTypes, NEW p \in Page, Follows(p),
         sub'[p] = sub[p], ctx'[p] = ctx[p], seen' = seen,
         view'[p] = view[p] \/ stage'[p] # "stream",
         \/ stage'[p] = stage[p]
         \/ stage'[p] \notin Following
         \/ stage[p] = "replied" /\ stage'[p] = "build",
         \A t \in Turn : row[t] = "ended" => row'[t] = "ended",
         \A t \in Turn : phase[t] \in {"closed", "finish"} => phase'[t] = phase[t],
         \A t \in Turn : phase[t] = "stream" => phase'[t] \in {"stream", "finish"},
         current # NoTurn => current' = current
  PROVE  Follows(p)'
  <1>1. ctx[p].turn # NoTurn => ctx[p].turn \in Turn
    BY DEF PageTypes, Context, TurnOrNone
  <1>2. \A i \in DOMAIN sub[p].q : sub[p].q[i].turn \in Turn
    BY QueueEvents
  <1>3. SUFFICES ASSUME sub[p].registered PROVE Follows(p)'
    BY DEF Follows
  <1>4. EndsAreSettled(p)'
    BY <1>2, <1>3 DEF Follows, EndsAreSettled
  <1>5. stage'[p] \in Following => stage[p] \in Following
    BY DEF Following
  <1>6. Hears(p)'
    <2>1. ctx[p].turn # NoTurn /\ stage[p] \in Following =>
            \/ current = ctx[p].turn /\ phase[ctx[p].turn] \in {"stream", "finish"}
            \/ \E i \in DOMAIN sub[p].q :
                  sub[p].q[i] = [turn |-> ctx[p].turn, n |-> seen[ctx[p].turn], end |-> TRUE]
      BY <1>3 DEF Follows, Hears
    <2>2. ASSUME ctx[p].turn \in Turn, current = ctx[p].turn, phase[ctx[p].turn] \in {"stream", "finish"}
          PROVE  current' = ctx[p].turn /\ phase'[ctx[p].turn] \in {"stream", "finish"}
      BY <2>2, NoTurnAssumption
    <2>3. CASE ctx[p].turn # NoTurn /\ stage'[p] \in Following
      BY <1>1, <1>5, <2>1, <2>2, <2>3 DEF Hears
    <2> QED BY <2>3 DEF Hears
  <1>7. CaptureCounts(p)'
    BY <1>3 DEF Follows, CaptureCounts, Following
  <1>8. RowsWillCount(p)'
    BY <1>1, <1>3 DEF Follows, RowsWillCount, Following
  <1>9. SnapshotCounts(p)'
    BY <1>3 DEF Follows, SnapshotCounts, Following
  <1>10. ViewCounts(p)'
    BY <1>3 DEF Follows, ViewCounts, Following
  <1> QED BY <1>4, <1>6, <1>7, <1>8, <1>9, <1>10 DEF Follows

(* Nothing is promised to a closed subscription.                           *)
LEMMA FollowsClosed ==
  ASSUME NEW p \in Page, ~sub'[p].registered
  PROVE  Follows(p)'
  BY DEF Follows

(* The steps that leave a page, or all of them, as they are.               *)
Unmoved(p) ==
  /\ sub'[p] = sub[p] /\ ctx'[p] = ctx[p] /\ view'[p] = view[p] /\ stage'[p] = stage[p]

(* The same for a step of somebody else.                                   *)
LEMMA FollowsUnmoved ==
  ASSUME SubTypes, PageTypes, NEW p \in Page, Follows(p), Unmoved(p),
         UNCHANGED <<row, saved, seen, phase, current>>
  PROVE  Follows(p)'
  BY FollowsQuiet DEF Unmoved, RowTypes

(* An event is published to a reader.                                      *)
Extended(q, r, e) ==
  /\ \A i \in DOMAIN q : i \in DOMAIN r /\ r[i] = q[i]
  /\ \A i \in DOMAIN r : (i \in DOMAIN q /\ r[i] = q[i]) \/ r[i] = e
  /\ \E i \in DOMAIN r : r[i] = e
  /\ \A t : Cardinality(Of(r, t)) = Cardinality(Of(q, t)) + (IF e.turn = t THEN 1 ELSE 0)

(* A subscription that is still open behind publish has the event behind   *)
(* its queue.                                                              *)
LEMMA PublishedQueue ==
  ASSUME SubTypes, NEW p \in Page, NEW e \in Event, sub'[p] = Published(sub[p], e),
         sub'[p].registered
  PROVE  sub[p].registered /\ Extended(sub[p].q, sub'[p].q, e)
  <1>1. sub[p] \in Subscription /\ sub[p].q \in Seq(Event)
    BY QueueEvents
  <1>2. sub'[p] = Published(sub[p], e)
    OBVIOUS
  <1>3. sub[p].registered /\ sub'[p] = [sub[p] EXCEPT !.q = Append(sub[p].q, e)]
    BY <1>2 DEF Published, NoSubscription
  <1>4. sub'[p].q = Append(sub[p].q, e)
    BY <1>1, <1>3 DEF Subscription
  <1>5. ASSUME NEW q \in Seq(Event)
        PROVE  /\ \A i \in DOMAIN q : i \in DOMAIN Append(q, e) /\ Append(q, e)[i] = q[i]
               /\ \A i \in DOMAIN Append(q, e) :
                    (i \in DOMAIN q /\ Append(q, e)[i] = q[i]) \/ Append(q, e)[i] = e
               /\ \E i \in DOMAIN Append(q, e) : Append(q, e)[i] = e
    <2>1. Len(q) + 1 \in DOMAIN Append(q, e) /\ Append(q, e)[Len(q) + 1] = e
      OBVIOUS
    <2> QED BY <2>1
  <1>6. PICK q \in Seq(Event) : q = sub[p].q
    BY <1>1
  <1>7. sub'[p].q = Append(q, e)
    BY <1>4, <1>6
  <1>8. \A t : Cardinality(Of(sub'[p].q, t)) =
               Cardinality(Of(sub[p].q, t)) + (IF e.turn = t THEN 1 ELSE 0)
    <2>1. ASSUME NEW t
          PROVE  Cardinality(Of(Append(q, e), t)) =
                   Cardinality(Of(q, t)) + (IF e.turn = t THEN 1 ELSE 0)
      BY OfAppended
    <2> QED BY <1>6, <1>7, <2>1
  <1>9. \A i \in DOMAIN sub[p].q : i \in DOMAIN sub'[p].q /\ sub'[p].q[i] = sub[p].q[i]
    BY <1>5, <1>6, <1>7
  <1>10. \A i \in DOMAIN sub'[p].q :
            (i \in DOMAIN sub[p].q /\ sub'[p].q[i] = sub[p].q[i]) \/ sub'[p].q[i] = e
    BY <1>5, <1>6, <1>7
  <1>11. \E i \in DOMAIN sub'[p].q : sub'[p].q[i] = e
    BY <1>5, <1>7
  <1> QED BY <1>3, <1>8, <1>9, <1>10, <1>11 DEF Extended

(* A published event goes to every reader of the turn: it is counted once  *)
(* on both sides, and a terminal one settles its turn.                     *)
LEMMA FollowsPublished ==
  ASSUME TypeOK, RuntimeInv, NEW u \in Turn, NEW p \in Page, Follows(p),
         BeginTakenUp(u) \/ EventTakenUp(u) \/ FinishTakenUp(u)
  PROVE  Follows(p)'
  <1> USE NoTurnAssumption DEF turnVars, mgrVars, cmdVars, pageVars, clockVars, boundVars
  <1>1. RowTypes /\ SubTypes /\ PageTypes
    BY TypeParts
  <1>2. PICK end \in BOOLEAN : TakeUp(u, end) /\ (end <=> FinishTakenUp(u))
    BY DEF BeginTakenUp, EventTakenUp, FinishTakenUp
  <1> DEFINE v == [turn |-> u, n |-> saved[u], end |-> end]
  <1>20. PICK e \in Event : e = v
    BY <1>1, <1>2, Bounds DEF TakeUp, Event, RowTypes
  <1>21. sub'[p] = Published(sub[p], e)
    BY <1>2, <1>20 DEF TakeUp, Broadcast
  <1>22. e.turn = u /\ e.n = saved[u] /\ e.end = end
    BY <1>20
  <1> HIDE DEF v
  <1>3. /\ row' = row /\ UNCHANGED <<stage, ctx, view>>
        /\ seen' = [seen EXCEPT ![u] = saved[u]] /\ saved[u] = seen[u] + 1
        /\ phase[u] \in {"begin", "stream", "finish"} /\ current = u
        /\ \A x \in Turn : x # u => phase'[x] = phase[x]
        /\ FinishTakenUp(u) => phase[u] = "finish" /\ phase'[u] = "closed" /\ row[u] = "ended"
        /\ ~FinishTakenUp(u) => phase[u] # "finish" /\ phase'[u] = "stream" /\ current' = u
    BY <1>1 DEF BeginTakenUp, EventTakenUp, FinishTakenUp, TakeUp, RowTypes, RuntimeInv
  <1>4. SUFFICES ASSUME sub'[p].registered PROVE Follows(p)'
    BY FollowsClosed
  <1>5. /\ sub[p].registered
        /\ \A i \in DOMAIN sub[p].q : i \in DOMAIN sub'[p].q /\ sub'[p].q[i] = sub[p].q[i]
        /\ \A i \in DOMAIN sub'[p].q :
              (i \in DOMAIN sub[p].q /\ sub'[p].q[i] = sub[p].q[i]) \/ sub'[p].q[i] = e
        /\ \E i \in DOMAIN sub'[p].q : sub'[p].q[i] = e
        /\ \A x : Cardinality(Of(sub'[p].q, x)) =
                   Cardinality(Of(sub[p].q, x)) + (IF u = x THEN 1 ELSE 0)
    <2>1. sub[p].registered /\ Extended(sub[p].q, sub'[p].q, e)
      BY <1>1, <1>21, <1>4, PublishedQueue
    <2> QED BY <1>22, <2>1 DEF Extended
  <1>6. /\ ctx[p].turn # NoTurn => ctx[p].turn \in Turn
        /\ \A i \in DOMAIN sub[p].q : sub[p].q[i].turn \in Turn
        /\ ctx[p].shown \in Nat /\ view[p].shown \in Nat
        /\ \A x : Cardinality(Of(sub[p].q, x)) \in Nat
        /\ \A x \in Turn : seen[x] \in Nat
    <2>1. \A i \in DOMAIN sub[p].q : sub[p].q[i].turn \in Turn
      BY <1>1, QueueEvents
    <2>2. \A x : Cardinality(Of(sub[p].q, x)) \in Nat
      BY <1>1, QueueEvents
    <2>3. ctx[p] \in Context /\ view[p] \in View
      BY <1>1 DEF PageTypes
    <2> QED BY <1>1, <2>1, <2>2, <2>3, Bounds DEF Context, View, TurnOrNone, RowTypes
  <1>7. \A x \in Turn : seen'[x] = seen[x] + (IF u = x THEN 1 ELSE 0)
    BY <1>1, <1>3, <1>6 DEF RowTypes
  <1>8. EndsAreSettled(p)'
    BY <1>2, <1>22, <1>3, <1>5, <1>6 DEF Follows, EndsAreSettled
  <1>9. Hears(p)'
    <2> SUFFICES ASSUME ctx[p].turn # NoTurn, stage[p] \in Following
        PROVE  \/ current' = ctx[p].turn /\ phase'[ctx[p].turn] \in {"stream", "finish"}
               \/ \E i \in DOMAIN sub'[p].q :
                     sub'[p].q[i] = [turn |-> ctx[p].turn, n |-> seen'[ctx[p].turn], end |-> TRUE]
      BY <1>3 DEF Hears
    <2>1. CASE current = ctx[p].turn /\ FinishTakenUp(u)
      <3>1. ctx[p].turn = u /\ seen'[u] = saved[u]
        BY <1>1, <1>3, <2>1 DEF RowTypes
      <3>2. e = [turn |-> ctx[p].turn, n |-> seen'[ctx[p].turn], end |-> TRUE]
        BY <1>2, <1>20, <2>1, <3>1 DEF v
      <3> QED BY <1>5, <3>2
    <2>2. CASE current = ctx[p].turn /\ ~FinishTakenUp(u)
      BY <1>3, <2>2
    <2>3. CASE current # ctx[p].turn
      <3>1. PICK i \in DOMAIN sub[p].q :
              sub[p].q[i] = [turn |-> ctx[p].turn, n |-> seen[ctx[p].turn], end |-> TRUE]
        BY <1>5, <2>3 DEF Follows, Hears
      <3>2. seen'[ctx[p].turn] = seen[ctx[p].turn]
        BY <1>3, <1>6, <1>7, <2>3
      <3> QED BY <1>5, <3>1, <3>2
    <2> QED BY <2>1, <2>2, <2>3
  <1>10. RowsWillCount(p)'
    BY <1>2, <1>22, <1>3, <1>5, <1>6 DEF Follows, RowsWillCount
  <1>11. CaptureCounts(p)'
    BY <1>3, <1>5, <1>6, <1>7 DEF Follows, CaptureCounts
  <1>12. SnapshotCounts(p)'
    BY <1>3, <1>5, <1>6, <1>7 DEF Follows, SnapshotCounts
  <1>13. ViewCounts(p)'
    BY <1>3, <1>5, <1>6, <1>7 DEF Follows, ViewCounts
  <1> QED BY <1>8, <1>9, <1>10, <1>11, <1>12, <1>13 DEF Follows

(* A registration: an empty subscription, and the capture of the same step.*)
LEMMA FollowsRegistered ==
  ASSUME TypeOK, RuntimeInv, CommandInv, NEW p \in Page, Follows(p), Registered
  PROVE  Follows(p)'
  <1> USE NoTurnAssumption DEF turnVars, mgrVars, cmdVars, pageVars, clockVars, boundVars
  <1>1. RowTypes /\ SubTypes /\ PageTypes /\ CommandTypes
    BY TypeParts
  <1>2. UNCHANGED <<row, saved, seen, phase, current, active, view>> /\ cmd # NoCommand /\ cmd.wait = "list"
    BY DEF Registered
  <1>3. cmd.page \in Page
    BY <1>1, <1>2 DEF CommandTypes, Executing
  <1>4. CASE cmd.page # p
    <2>1. Unmoved(p)
      BY <1>1, <1>2, <1>3, <1>4 DEF Registered, Unmoved, SubTypes, PageTypes
    <2> QED BY <1>1, <1>2, <2>1, FollowsUnmoved
  <1>5. CASE cmd.page = p /\ stage[p] = "dropped"
    <2>1. sub'[p] = sub[p] /\ ctx'[p] = ctx[p] /\ stage'[p] = "idle"
      BY <1>1, <1>3, <1>5 DEF Registered, PageTypes
    <2> QED BY <1>1, <1>2, <2>1, FollowsQuiet DEF Following
  <1>6. CASE cmd.page = p /\ stage[p] # "dropped"
    <2>1. sub'[p] = NewSubscription /\ ctx'[p] = Captured /\ stage'[p] = "replied"
      BY <1>1, <1>3, <1>6 DEF Registered, PageTypes, SubTypes
    <2>2. sub'[p].q = << >> /\ DOMAIN << >> = {}
      BY <2>1, NewSubscriptions
    <2>3. \A t : Cardinality(Of(sub'[p].q, t)) = 0
      BY <2>2, OfNone
    <2>4. CASE active = NoTurn
      BY <1>2, <2>1, <2>2, <2>4 DEF Captured, Follows, EndsAreSettled, Hears, CaptureCounts,
         RowsWillCount, SnapshotCounts, ViewCounts
    <2>5. CASE active # NoTurn
      <3>1. active \in Turn /\ phase[active] \in {"stream", "finish"} /\ current = active
            /\ seen[active] \in Nat
        BY <1>1, <2>5, Bounds DEF RowTypes, TurnOrNone, RuntimeInv
      <3>2. cmd.op = "create" => cmd.turn = active
        BY <2>5, <3>1 DEF CommandInv
      <3>3. ctx'[p].turn = active /\ (ctx'[p].captured => ctx'[p].shown = seen[active])
            /\ (~ctx'[p].captured => phase[active] = "finish")
        <4>1. CASE cmd.op = "create"
          <5>1. Captured = [turn |-> active, captured |-> TRUE, shown |-> seen[active], over |-> FALSE]
            BY <2>5, <3>2, <4>1 DEF Captured
          <5> QED BY <2>1, <5>1
        <4>2. CASE cmd.op # "create" /\ phase[active] = "stream"
          <5>1. Captured = [turn |-> active, captured |-> TRUE, shown |-> seen[active], over |-> FALSE]
            BY <2>5, <3>1, <4>2 DEF Captured
          <5> QED BY <2>1, <5>1
        <4>3. CASE cmd.op # "create" /\ phase[active] = "finish"
          <5>1. Captured = [turn |-> active, captured |-> FALSE, shown |-> 0, over |-> FALSE]
            BY <2>5, <3>1, <4>3 DEF Captured
          <5> QED BY <2>1, <4>3, <5>1
        <4> QED BY <3>1, <4>1, <4>2, <4>3
      <3>4. EndsAreSettled(p)' /\ Hears(p)' /\ RowsWillCount(p)'
        BY <1>2, <2>1, <2>2, <3>1, <3>3 DEF EndsAreSettled, Hears, RowsWillCount
      <3>5. CaptureCounts(p)'
        BY <1>2, <2>3, <3>1, <3>3 DEF CaptureCounts
      <3>6. SnapshotCounts(p)' /\ ViewCounts(p)'
        BY <2>1 DEF SnapshotCounts, ViewCounts
      <3> QED BY <3>4, <3>5, <3>6 DEF Follows
    <2> QED BY <2>4, <2>5
  <1> QED BY <1>4, <1>5, <1>6

(* A turn that was not captured has all its events but the end behind it:  *)
(* the rows either hold what was published, or show the turn as over.      *)
LEMMA FollowsRead ==
  ASSUME TypeOK, RuntimeInv, NEW p \in Page, Follows(p), SnapshotRead(p)
  PROVE  Follows(p)'
  <1> USE NoTurnAssumption DEF turnVars, mgrVars, cmdVars, pageVars, clockVars, boundVars
  <1>1. RowTypes /\ SubTypes /\ PageTypes
    BY TypeParts
  <1>2. UNCHANGED <<row, saved, seen, phase, current, sub, view>>
        /\ stage[p] = "build" /\ stage'[p] = "built"
    BY <1>1 DEF SnapshotRead, PageTypes
  <1>3. SUFFICES ASSUME sub[p].registered PROVE Follows(p)'
    BY <1>2 DEF Follows
  <1>4. ctx[p].turn # NoTurn => ctx[p].turn \in Turn
    BY <1>1 DEF PageTypes, Context, TurnOrNone
  <1>5. CASE ctx[p].captured \/ ctx[p].turn = NoTurn
    <2>1. ctx' = ctx
      BY <1>5 DEF SnapshotRead
    <2> QED BY <1>2, <1>3, <1>5, <2>1 DEF Follows, EndsAreSettled, Hears, CaptureCounts,
               RowsWillCount, SnapshotCounts, ViewCounts, Following
  <1>6. CASE ~(ctx[p].captured \/ ctx[p].turn = NoTurn)
    <2>1. PICK n \in Nat, b \in BOOLEAN : n = saved[ctx[p].turn] /\ b = (row[ctx[p].turn] = "ended")
      <3>1. saved[ctx[p].turn] \in Nat /\ (row[ctx[p].turn] = "ended") \in BOOLEAN
        BY <1>1, <1>4, <1>6, Bounds DEF RowTypes
      <3> QED BY <3>1
    <2>2. ctx' = [ctx EXCEPT ![p].shown = n, ![p].over = b]
      BY <1>6, <2>1 DEF SnapshotRead
    <2>3. ctx'[p].turn = ctx[p].turn /\ ctx'[p].shown = n /\ ctx'[p].over = b
      BY <1>1, <2>2, SnapshotContext DEF PageTypes
    <2>4. EndsAreSettled(p)' /\ Hears(p)'
      BY <1>2, <1>3, <2>3 DEF Follows, EndsAreSettled, Hears, Following
    <2>5. SnapshotCounts(p)'
      <3>1. SUFFICES ASSUME ~b
                     PROVE  n + Cardinality(Of(sub[p].q, ctx[p].turn)) = seen[ctx[p].turn]
        BY <1>2, <2>3 DEF SnapshotCounts
      <3>2. phase[ctx[p].turn] = "finish" /\ \A i \in DOMAIN sub[p].q : sub[p].q[i].turn # ctx[p].turn
        BY <1>2, <1>3, <1>6, <2>1, <3>1 DEF Follows, RowsWillCount
      <3>3. Cardinality(Of(sub[p].q, ctx[p].turn)) = 0
        BY <3>2, OfNone
      <3>4. n = seen[ctx[p].turn]
        BY <1>4, <1>6, <2>1, <3>1, <3>2 DEF RuntimeInv
      <3> QED BY <3>3, <3>4
    <2>6. CaptureCounts(p)' /\ RowsWillCount(p)' /\ ViewCounts(p)'
      BY <1>2 DEF CaptureCounts, RowsWillCount, ViewCounts
    <2> QED BY <2>4, <2>5, <2>6 DEF Follows
  <1> QED BY <1>5, <1>6

(* Behind its way out a request no longer follows a turn.                  *)
LEMMA LeftStage ==
  ASSUME PageTypes, NEW p \in Page, NEW retry \in BOOLEAN, Leave(p, retry)
  PROVE  stage'[p] \in {"idle", "retry", "leaving", "parting"}
         /\ \A x \in Page : x # p => stage'[x] = stage[x]
  BY LeaveTypes DEF PageTypes

(* The first frame shows the snapshot.                                     *)
LEMMA FollowsFirst ==
  ASSUME TypeOK, NEW p \in Page, Follows(p), FirstFrame(p)
  PROVE  Follows(p)'
  <1> USE DEF turnVars, mgrVars, cmdVars, pageVars, clockVars, boundVars
  <1>1. SubTypes /\ PageTypes
    BY TypeParts
  <1>2. UNCHANGED <<row, saved, seen, phase, current, sub, ctx>> /\ stage[p] = "built"
    BY DEF FirstFrame
  <1>3. SUFFICES ASSUME sub[p].registered PROVE Follows(p)'
    BY <1>2 DEF Follows
  <1>4. /\ stage'[p] = "stream"
        /\ view'[p].turn = ctx[p].turn /\ view'[p].shown = ctx[p].shown /\ view'[p].over = ctx[p].over
    BY <1>1, <1>3 DEF FirstFrame, PageTypes
  <1>5. EndsAreSettled(p)' /\ Hears(p)'
    BY <1>2, <1>3, <1>4 DEF Follows, EndsAreSettled, Hears, Following
  <1>6. ViewCounts(p)'
    BY <1>2, <1>3, <1>4 DEF Follows, SnapshotCounts, ViewCounts
  <1>7. CaptureCounts(p)' /\ RowsWillCount(p)' /\ SnapshotCounts(p)'
    BY <1>4 DEF CaptureCounts, RowsWillCount, SnapshotCounts
  <1> QED BY <1>5, <1>6, <1>7 DEF Follows

(* The page takes the next event, and leaves behind the end of its turn.   *)
LEMMA FollowsSent ==
  ASSUME TypeOK, RuntimeInv, NEW p \in Page, Follows(p), EventSent(p)
  PROVE  Follows(p)'
  <1> USE NoTurnAssumption DEF turnVars, mgrVars, cmdVars, pageVars, clockVars, boundVars
  <1>1. RowTypes /\ SubTypes /\ PageTypes
    BY TypeParts
  <1>2. UNCHANGED <<row, saved, seen, phase, current, ctx>> /\ stage[p] = "stream"
        /\ ctx[p].turn # NoTurn /\ sub[p].q # << >>
    BY DEF EventSent
  <1>3. PICK q \in Seq(Event) : q = sub[p].q
    BY <1>1, QueueEvents
  <1>4. sub'[p].registered = sub[p].registered /\ sub'[p].q = Tail(q)
    BY <1>1, <1>3 DEF EventSent, SubTypes, Subscription
  <1>5. SUFFICES ASSUME sub[p].registered PROVE Follows(p)'
    BY <1>4 DEF Follows
  <1>6. PICK e \in Event : e = Head(q) /\ e = q[1] /\ 1 \in DOMAIN q
    BY <1>2, <1>3
  <1>7. /\ \A i \in DOMAIN Tail(q) : i + 1 \in DOMAIN q /\ Tail(q)[i] = q[i + 1]
        /\ \A i \in DOMAIN q : i # 1 => i - 1 \in DOMAIN Tail(q) /\ Tail(q)[i - 1] = q[i]
    BY <1>2, <1>3
  <1>8. EndsAreSettled(p)'
    BY <1>2, <1>3, <1>4, <1>5, <1>7 DEF Follows, EndsAreSettled
  <1>9. CASE e.end /\ e.turn = ctx[p].turn
    <2>1. \E retry \in BOOLEAN : Leave(p, retry)
      BY <1>3, <1>6, <1>9 DEF EventSent
    <2>2. stage'[p] \notin Following
      BY <1>1, <2>1, LeftStage DEF Following
    <2> QED BY <1>8, <2>2 DEF Follows, Hears, CaptureCounts, RowsWillCount, SnapshotCounts, ViewCounts,
               Following
  <1>10. CASE ~(e.end /\ e.turn = ctx[p].turn)
    <2>1. stage' = stage /\ view'[p] = Applied(view[p], e)
      BY <1>1, <1>3, <1>6, <1>10 DEF EventSent, PageTypes
    <2>2. Hears(p)'
      <3>1. SUFFICES ASSUME ~(current = ctx[p].turn /\ phase[ctx[p].turn] \in {"stream", "finish"})
                     PROVE  \E i \in DOMAIN Tail(q) :
                              Tail(q)[i] = [turn |-> ctx[p].turn, n |-> seen[ctx[p].turn], end |-> TRUE]
        BY <1>2, <1>4 DEF Hears
      <3>2. PICK i \in DOMAIN q : q[i] = [turn |-> ctx[p].turn, n |-> seen[ctx[p].turn], end |-> TRUE]
        BY <1>2, <1>3, <1>5, <3>1 DEF Follows, Hears, Following
      <3>3. i # 1
        BY <1>6, <1>10, <3>2
      <3> QED BY <1>7, <3>2, <3>3
    <2>3. ViewCounts(p)'
      <3>1. SUFFICES ASSUME ~view'[p].over
                     PROVE  /\ view'[p].turn = ctx[p].turn
                            /\ view'[p].shown + Cardinality(Of(Tail(q), ctx[p].turn)) = seen[ctx[p].turn]
        BY <1>2, <1>4 DEF ViewCounts
      <3>2. view[p] \in View /\ e.end \in BOOLEAN
        BY <1>1 DEF PageTypes, Event
      <3>3. ~view[p].over
        BY <2>1, <3>1, <3>2 DEF Applied
      <3>4. view[p].turn = ctx[p].turn
            /\ view[p].shown + Cardinality(Of(q, ctx[p].turn)) = seen[ctx[p].turn]
        BY <1>2, <1>3, <1>5, <3>3 DEF Follows, ViewCounts
      <3>5. Cardinality(Of(q, ctx[p].turn)) =
              Cardinality(Of(Tail(q), ctx[p].turn)) + (IF e.turn = ctx[p].turn THEN 1 ELSE 0)
        BY <1>2, <1>3, <1>6, OfTail
      <3>6. Tail(q) \in Seq(Event) /\ view[p].shown \in Nat
        BY <1>2, <1>3, <3>2 DEF View
      <3>7. Cardinality(Of(Tail(q), ctx[p].turn)) \in Nat
        BY <3>6, OfFinite
      <3> QED BY <1>10, <2>1, <3>2, <3>3, <3>4, <3>5, <3>6, <3>7 DEF Applied
    <2>4. CaptureCounts(p)' /\ RowsWillCount(p)' /\ SnapshotCounts(p)'
      BY <1>2, <2>1 DEF CaptureCounts, RowsWillCount, SnapshotCounts
    <2> QED BY <1>8, <2>2, <2>3, <2>4 DEF Follows
  <1> QED BY <1>9, <1>10

(* Every step keeps what an open subscription and its page know together.  *)
LEMMA FollowsKept ==
  ASSUME Inv, [Next]_vars, NEW p \in Page
  PROVE  Follows(p)'
  <1> USE NoTurnAssumption DEF turnVars, mgrVars, cmdVars, pageVars, clockVars, boundVars
  <1>1. RowTypes /\ SubTypes /\ PageTypes /\ CommandTypes
    BY TypeParts DEF Inv
  <1>2. TypeOK /\ RuntimeInv /\ CommandInv /\ Follows(p)
    BY DEF Inv
  <1>3. CASE UNCHANGED vars
    BY <1>1, <1>2, <1>3, FollowsUnmoved DEF vars, Unmoved
  <1>4. ASSUME NEW t \in Turn, RuntimeStep(t) PROVE Follows(p)'
    <2>1. CASE BeginTakenUp(t) \/ EventTakenUp(t) \/ FinishTakenUp(t)
      BY <1>2, <2>1, FollowsPublished
    <2>2. CASE BeginCommit(t) \/ EventCommit(t) \/ FinishAsked(t) \/ FinishCommit(t) \/ Recover(t)
      <3>1. UNCHANGED <<sub, stage, ctx, view, seen, current>>
        BY <2>2 DEF BeginCommit, EventCommit, FinishAsked, FinishCommit, Recover
      <3>2. \A u \in Turn : row[u] = "ended" => row'[u] = "ended"
        BY <1>1, <2>2 DEF BeginCommit, EventCommit, FinishAsked, FinishCommit, Recover, RowTypes
      <3>3. \A u \in Turn : phase'[u] = phase[u] \/ (phase[u] = "stream" /\ phase'[u] = "finish")
        BY <1>1, <2>2 DEF BeginCommit, EventCommit, FinishAsked, FinishCommit, Recover, RowTypes
      <3> QED BY <1>1, <1>2, <3>1, <3>2, <3>3, FollowsQuiet
    <2> QED BY <1>4, <2>1, <2>2 DEF RuntimeStep
  <1>5. CASE Fail \/ HandleStop
    BY <1>1, <1>5, NewSubscriptions, FollowsClosed DEF Fail, HandleStop
  <1>6. ASSUME NEW x \in Page, Rejected(x) \/ Attach(x) \/ Detach(x) PROVE Follows(p)'
    <2>1. UNCHANGED <<row, saved, seen, phase, current, ctx, view>>
      BY <1>6 DEF Rejected, Attach, Detach
    <2>2. \/ sub'[p] = sub[p] /\ (stage'[p] = stage[p] \/ stage'[p] \in {"idle", "retry"})
          \/ sub'[p] = NoSubscription
      BY <1>1, <1>6 DEF Rejected, Attach, Detach, ErrorReply, SubTypes, PageTypes
    <2> QED BY <1>1, <1>2, <2>1, <2>2, NewSubscriptions, FollowsQuiet, FollowsClosed DEF Following
  <1>7. ASSUME NEW x \in Page, NEW t \in Turn, Create(x, t) PROVE Follows(p)'
    <2>1. UNCHANGED <<row, saved, seen, sub, stage, ctx, view>> /\ phase' = [phase EXCEPT ![t] = "begin"]
      BY <1>7 DEF Create
    <2>2. queue \in Seq(Command \cup {Stop}) /\ queue # << >>
          /\ Head(queue) = [op |-> "create", page |-> x, turn |-> t]
      BY <1>1, <1>7 DEF Create, Take, CommandTypes
    <2>3. 1 \in DOMAIN queue /\ queue[1] = Head(queue)
      BY <2>2
    <2>4. phase[t] = "unborn"
      BY <1>2, <2>2, <2>3 DEF CommandInv
    <2>5. current = NoTurn
      <3>1. active = NoTurn /\ cmd.op # "create"
        BY <1>7 DEF Create, Take, NoCommand
      <3>2. \A u \in Turn : phase[u] \notin {"begin", "stream", "finish"}
        BY <1>1, <1>2, <3>1 DEF RuntimeInv, CommandInv
      <3> QED BY <1>1, <1>2, <3>2 DEF RuntimeInv, RowTypes, TurnOrNone
    <2>6. \A u \in Turn : phase'[u] = phase[u] \/ phase[u] = "unborn"
      BY <1>1, <2>1, <2>4 DEF RowTypes
    <2> QED BY <1>1, <1>2, <2>1, <2>5, <2>6, FollowsQuiet
  <1>8. CASE CreateBegun \/ CreateBeginError
    <2>1. UNCHANGED <<row, saved, seen, phase, current, sub, ctx, view>>
      BY <1>8 DEF CreateBegun, CreateBeginError
    <2>2. stage'[p] = stage[p] \/ stage'[p] \in {"idle", "retry"}
      BY <1>1, <1>8 DEF CreateBegun, CreateBeginError, ErrorReply, PageTypes
    <2> QED BY <1>1, <1>2, <2>1, <2>2, FollowsQuiet DEF Following
  <1>9. CASE Handlers
    BY <1>2, <1>5, <1>6, <1>7, <1>8, <1>9, FollowsRegistered DEF Handlers
  <1>10. CASE Evict \/ Load \/ Tick
    <2>1. UNCHANGED <<row, saved, seen, phase, current, sub, stage, ctx, view>>
      BY <1>10 DEF Evict, Load, Tick
    <2> QED BY <1>1, <1>2, <2>1, FollowsUnmoved DEF Unmoved
  <1>11. ASSUME NEW x \in Page, NEW op, NEW t, Request(x, op, t) PROVE Follows(p)'
    <2>1. UNCHANGED <<row, saved, seen, phase, current, sub, ctx>> /\ ~sub[x].registered
      BY <1>11 DEF Request
    <2>2. CASE x = p
      BY <2>1, <2>2, FollowsClosed
    <2>3. CASE x # p
      <3>1. view'[p] = view[p] /\ stage'[p] = stage[p]
        BY <1>1, <1>11, <2>3 DEF Request, PageTypes
      <3> QED BY <1>1, <1>2, <2>1, <3>1, FollowsUnmoved DEF Unmoved
    <2> QED BY <2>2, <2>3
  <1>12. ASSUME NEW x \in Page, Open(x) \/ Retry(x) \/ (\E t \in Turn : Send(x, t)) PROVE Follows(p)'
    BY <1>11, <1>12 DEF Open, Retry, Send
  <1>13. ASSUME NEW x \in Page, CallerCancelled(x) PROVE Follows(p)'
    <2>1. UNCHANGED <<row, saved, seen, phase, current, ctx>>
      BY <1>13 DEF CallerCancelled
    <2>2. \/ sub'[p] = NoSubscription
          \/ /\ sub'[p] = sub[p]
             /\ \/ stage'[p] = stage[p] /\ view'[p] = view[p]
                \/ stage'[p] = "dropped"
      BY <1>1, <1>13 DEF CallerCancelled, SubTypes, PageTypes
    <2> QED BY <1>1, <1>2, <2>1, <2>2, NewSubscriptions, FollowsQuiet, FollowsClosed DEF Following
  <1>14. ASSUME NEW x \in Page, x # p, Response(x) \/ SnapshotFails(x) \/ Disconnected(x)
         PROVE  Follows(p)'
    <2>1. UNCHANGED <<row, saved, seen, phase, current>>
      BY <1>14 DEF Response, ReplyTaken, SnapshotRead, FirstFrame, EventSent, StreamEnds,
         SnapshotFails, Disconnected, Lost
    <2>2. sub'[p] = sub[p] /\ ctx'[p] = ctx[p] /\ view'[p] = view[p]
      BY <1>1, <1>14 DEF Response, ReplyTaken, SnapshotRead, FirstFrame, EventSent, StreamEnds,
         SnapshotFails, Disconnected, Lost, SubTypes, PageTypes
    <2>3. \/ stage' = stage \/ (\E retry \in BOOLEAN : Leave(x, retry))
          \/ \E s \in Stage : stage' = [stage EXCEPT ![x] = s]
      BY <1>14 DEF Response, ReplyTaken, SnapshotRead, FirstFrame, EventSent, StreamEnds,
         SnapshotFails, Disconnected, Lost, Stage
    <2>4. stage'[p] = stage[p]
      BY <1>1, <1>14, <2>3, LeftStage DEF PageTypes
    <2> QED BY <1>1, <1>2, <2>1, <2>2, <2>4, FollowsUnmoved DEF Unmoved
  <1>15. CASE ReplyTaken(p)
    <2>1. UNCHANGED <<row, saved, seen, phase, current, sub, ctx, view>>
          /\ stage[p] = "replied" /\ stage'[p] = "build"
      BY <1>1, <1>15 DEF ReplyTaken, PageTypes
    <2> QED BY <1>1, <1>2, <2>1, FollowsQuiet
  <1>16. CASE StreamEnds(p) \/ SnapshotFails(p) \/ Disconnected(p)
    <2>1. UNCHANGED <<row, saved, seen, phase, current, sub, ctx>> /\ \E retry \in BOOLEAN : Leave(p, retry)
      BY <1>16 DEF StreamEnds, SnapshotFails, Disconnected, Lost
    <2>2. stage'[p] \notin Following
      BY <1>1, <2>1, LeftStage DEF Following
    <2> QED BY <1>1, <1>2, <2>1, <2>2, FollowsQuiet DEF Following
  <1>17. ASSUME NEW x \in Page, Response(x) \/ SnapshotFails(x) \/ Disconnected(x) PROVE Follows(p)'
    <2>1. CASE x = p
      BY <1>2, <1>15, <1>16, <1>17, <2>1, FollowsRead, FollowsFirst, FollowsSent DEF Response
    <2> QED BY <1>14, <1>17, <2>1
  <1> QED BY <1>3, <1>4, <1>5, <1>9, <1>10, <1>12, <1>13, <1>17 DEF Next, WriteFault, ListFault

-----------------------------------------------------------------------------
(* The inductive invariant holds at the start.                             *)
LEMMA Start ==
  ASSUME Init
  PROVE  Inv
  <1> USE NoTurnAssumption DEF Init
  <1>1. RowTypes /\ PageTypes /\ ClockTypes
    BY Bounds DEF RowTypes, PageTypes, ClockTypes, TurnOrNone, Stage, NoContext, Context, NoView, View
  <1>2. SubTypes /\ \A p \in Page : ~sub[p].registered
    BY NewSubscriptions DEF SubTypes
  <1>3. CommandTypes
    <2>1. << >> \in Seq(Command \cup {Stop})
      OBVIOUS
    <2> QED BY <2>1 DEF CommandTypes, Executing
  <1>4. RuntimeInv
    BY Bounds DEF RuntimeInv
  <1>5. CommandInv
    BY <1>2 DEF CommandInv, NoCommand
  <1>6. \A p \in Page : Follows(p)
    BY <1>2 DEF Follows
  <1> QED BY <1>1, <1>2, <1>3, <1>4, <1>5, <1>6, TypeParts DEF Inv

(* The inductive invariant is kept by every step.                          *)
LEMMA InvKept ==
  ASSUME Inv, [Next]_vars
  PROVE  Inv'
  <1>1. TypeOK' /\ RuntimeInv' /\ CommandInv'
    BY TypesKept, RuntimeKept, CommandKept DEF Inv
  <1>2. \A p \in Page : Follows(p)'
    BY FollowsKept
  <1> QED BY <1>1, <1>2 DEF Inv

(* The inductive invariant holds in every behaviour.                       *)
LEMMA Invariance == Spec => []Inv
  <1>1. Init => Inv
    BY Start
  <1>2. Inv /\ [Next]_vars => Inv'
    BY InvKept
  <1> QED BY <1>1, <1>2, PTL DEF Spec

(* A step that adds no command keeps the commands one to a page.           *)
LEMMA OneStays ==
  ASSUME CommandTypes, OneCommandEach, queue' = queue,
         cmd' = NoCommand \/ (cmd # NoCommand /\ cmd'.page = cmd.page),
         \A p \in Page : \/ stage'[p] = stage[p]
                         \/ stage[p] = "asked" /\ stage'[p] = "dropped"
                         \/ stage[p] \notin Asking \cup Ending
                         \/ cmd # NoCommand /\ cmd.page = p /\ cmd' = NoCommand,
         \A p \in Page : sub'[p].registered => sub'[p].loaded
  PROVE  OneCommandEach'
  <1>1. \A i \in DOMAIN queue : queue[i].op # "stop" => queue[i].page \in Page
    <2>1. \A i \in DOMAIN queue : queue[i] \in Command \cup {Stop}
      BY DEF CommandTypes
    <2> QED BY <2>1 DEF Command, Stop
  <1>2. cmd # NoCommand => cmd.page \in Page
    BY DEF CommandTypes, Executing
  <1>3. ASSUME NEW i \in DOMAIN queue, queue[i].op # "stop"
        PROVE  stage'[queue[i].page] \in (IF queue[i].op = "detach" THEN Ending ELSE Asking)
    BY <1>1, <1>3 DEF OneCommandEach, Asking, Ending
  <1> QED BY <1>1, <1>2, <1>3 DEF OneCommandEach, Asking, Ending

(* So does the step that takes one, ...                                    *)
LEMMA OneShrinks ==
  ASSUME CommandTypes, OneCommandEach, NEW p \in Page, NEW op \in {"create", "attach", "detach"}, NEW t,
         Take(op, p, t),
         \A x \in Page : x # p => stage'[x] = stage[x],
         \/ cmd' = NoCommand
         \/ cmd' # NoCommand /\ cmd'.page = p /\ stage'[p] \in Asking,
         \A x \in Page : sub'[x].registered => sub'[x].loaded
  PROVE  OneCommandEach' /\ stage[p] \in (IF op = "detach" THEN Ending ELSE Asking)
  <1>1. /\ queue \in Seq(Command \cup {Stop}) /\ queue # << >> /\ queue' = Tail(queue) /\ cmd = NoCommand
        /\ Head(queue) = [op |-> op, page |-> p, turn |-> t]
    BY DEF CommandTypes, Take
  <1>2. /\ 1 \in DOMAIN queue /\ queue[1] = Head(queue)
        /\ \A i \in DOMAIN queue' :
              i \in Nat \ {0} /\ i + 1 \in DOMAIN queue /\ i + 1 # 1 /\ queue'[i] = queue[i + 1]
    BY <1>1, QueueShrinks
  <1>3. queue[1].op = op /\ queue[1].page = p /\ op # "stop"
    BY <1>1, <1>2
  <1>4. \A i \in DOMAIN queue : queue[i].op # "stop" => queue[i].page \in Page
    <2>1. \A i \in DOMAIN queue : queue[i] \in Command \cup {Stop}
      BY <1>1
    <2> QED BY <2>1 DEF Command, Stop
  <1>5. ASSUME NEW i \in DOMAIN queue', queue'[i].op # "stop"
        PROVE  queue'[i].page # p /\ queue'[i].page \in Page
               /\ stage'[queue'[i].page] \in (IF queue'[i].op = "detach" THEN Ending ELSE Asking)
    <2>1. i + 1 \in DOMAIN queue /\ i + 1 # 1 /\ queue'[i] = queue[i + 1]
      BY <1>2
    <2>2. queue[i + 1].page # p
      BY <1>2, <1>3, <1>5, <2>1 DEF OneCommandEach
    <2> QED BY <1>4, <1>5, <2>1, <2>2 DEF OneCommandEach
  <1>6. ASSUME NEW i \in DOMAIN queue', NEW j \in DOMAIN queue', queue'[i].op # "stop",
               queue'[j].op # "stop", queue'[i].page = queue'[j].page
        PROVE  i = j
    <2>1. i + 1 = j + 1
      BY <1>2, <1>6 DEF OneCommandEach
    <2> QED BY <1>2, <2>1
  <1>7. stage[p] \in (IF op = "detach" THEN Ending ELSE Asking)
    BY <1>2, <1>3 DEF OneCommandEach
  <1> QED BY <1>5, <1>6, <1>7 DEF OneCommandEach

(* ... and the step of a page without one that adds it.                    *)
LEMMA OneGrows ==
  ASSUME CommandTypes, PageTypes, OneCommandEach, NEW c \in Command, queue' = Append(queue, c), cmd' = cmd,
         stage[c.page] \notin Asking \cup Ending,
         NEW s, stage' = [stage EXCEPT ![c.page] = s],
         s \in (IF c.op = "detach" THEN Ending ELSE Asking),
         \A x \in Page : sub'[x].registered => sub'[x].loaded
  PROVE  OneCommandEach'
  <1>1. c.page \in Page /\ c.op # "stop"
    BY DEF Command
  <1>2. queue \in Seq(Command \cup {Stop})
    BY DEF CommandTypes
  <1>3. \A i \in DOMAIN queue : queue[i].op # "stop" => queue[i].page \in Page /\ queue[i].page # c.page
    <2>1. \A i \in DOMAIN queue : queue[i] \in Command \cup {Stop}
      BY <1>2
    <2> QED BY <2>1 DEF Command, Stop, OneCommandEach
  <1>4. cmd # NoCommand => cmd.page \in Page /\ cmd.page # c.page
    BY DEF CommandTypes, Executing, OneCommandEach
  <1>5. \A i \in DOMAIN queue' :
          (i \in DOMAIN queue /\ queue'[i] = queue[i]) \/ (i = Len(queue') /\ queue'[i] = c)
    BY <1>2, QueueGrows
  <1>6. stage'[c.page] = s /\ \A x \in Page : x # c.page => stage'[x] = stage[x]
    BY <1>1 DEF PageTypes
  <1>7. ASSUME NEW i \in DOMAIN queue', queue'[i].op # "stop"
        PROVE  /\ stage'[queue'[i].page] \in (IF queue'[i].op = "detach" THEN Ending ELSE Asking)
               /\ cmd # NoCommand => queue'[i].page # cmd.page
    BY <1>3, <1>4, <1>5, <1>6, <1>7 DEF OneCommandEach
  <1>8. ASSUME NEW i \in DOMAIN queue', NEW j \in DOMAIN queue', queue'[i].op # "stop",
               queue'[j].op # "stop", queue'[i].page = queue'[j].page
        PROVE  i = j
    BY <1>3, <1>5, <1>8 DEF OneCommandEach
  <1> QED BY <1>4, <1>6, <1>7, <1>8 DEF OneCommandEach

(* A page that still reads has no command in the queue, which therefore    *)
(* has room for its detach.                                                *)
LEMMA RoomToLeave ==
  ASSUME CommandTypes, OneCommandEach, mgr = "ready", Places, NEW p \in Page,
         stage[p] \notin Asking \cup Ending,
         IsFiniteSet(Page), Cardinality(Page) <= QueueLimit
  PROVE  Accepts
  <1>1. queue \in Seq(Command \cup {Stop}) /\ Len(queue) \in Nat /\ DOMAIN queue = 1 .. Len(queue)
    BY DEF CommandTypes
  <1>2. \A i \in DOMAIN queue : queue[i] \in Command \cup {Stop} /\ queue[i] # Stop
    BY <1>1 DEF Places
  <1>3. \A i \in DOMAIN queue : queue[i].op # "stop" /\ queue[i].page \in Page
    BY <1>2 DEF Command
  <1>4. \A i \in DOMAIN queue : queue[i].page # p
    BY <1>3 DEF OneCommandEach
  <1> DEFINE S == DOMAIN queue
             T == Page \ {p}
             f == [i \in S |-> queue[i].page]
  <1>5. f \in Injection(S, T)
    <2>1. f \in [S -> T]
      BY <1>3, <1>4
    <2>2. \A i, j \in S : f[i] = f[j] => i = j
      BY <1>3 DEF OneCommandEach
    <2> QED BY <2>1, <2>2 DEF Injection, IsInjective
  <1>6. IsFiniteSet(T) /\ Cardinality(T) = Cardinality(Page) - 1
    BY FS_RemoveElement
  <1>7. Cardinality(S) <= Cardinality(T)
    BY <1>5, <1>6, FS_Injection
  <1>8. Cardinality(S) = Len(queue)
    BY <1>1, FS_Interval
  <1>9. Cardinality(Page) \in Nat
    BY FS_CardinalityType
  <1> QED BY <1>1, <1>6, <1>7, <1>8, <1>9, Bounds DEF Accepts

(* Every step keeps an open subscription with the manager that made it.    *)
LEMMA LoadedKept ==
  ASSUME Inv, [Next]_vars, OneCommandEach
  PROVE  \A p \in Page : sub'[p].registered => sub'[p].loaded
  <1> USE DEF turnVars, mgrVars, cmdVars, pageVars, clockVars, boundVars
  <1>1. SubTypes /\ CommandTypes /\ \A p \in Page : sub[p].registered => sub[p].loaded
    BY TypeParts DEF Inv, OneCommandEach
  <1>2. NewSubscription.loaded
    BY DEF NewSubscription, NoSubscription
  <1>3. CASE sub' = sub
    BY <1>1, <1>3
  <1>4. ASSUME NEW e, Broadcast(e) PROVE \A p \in Page : sub'[p].registered => sub'[p].loaded
    BY <1>1, <1>4, NewSubscriptions DEF Broadcast, Published, SubTypes, Subscription
  <1>5. ASSUME NEW t \in Turn, RuntimeStep(t) PROVE \A p \in Page : sub'[p].registered => sub'[p].loaded
    BY <1>3, <1>4, <1>5 DEF RuntimeStep, BeginCommit, BeginTakenUp, EventCommit, EventTakenUp,
       FinishAsked, FinishCommit, FinishTakenUp, Recover, TakeUp
  <1>6. CASE Fail \/ HandleStop
    BY <1>6, NewSubscriptions DEF Fail, HandleStop
  <1>7. ASSUME NEW x \in Page, sub' = [sub EXCEPT ![x] = NoSubscription]
        PROVE  \A p \in Page : sub'[p].registered => sub'[p].loaded
    BY <1>1, <1>7, NewSubscriptions DEF SubTypes
  <1>8. CASE Registered
    <2>1. cmd.page \in Page
      BY <1>1, <1>8 DEF Registered, CommandTypes, Executing
    <2>2. sub' = sub \/ sub' = [sub EXCEPT ![cmd.page] = NewSubscription]
      BY <1>8 DEF Registered
    <2> QED BY <1>1, <1>2, <2>1, <2>2 DEF SubTypes
  <1>9. CASE Handlers
    BY <1>3, <1>6, <1>7, <1>8, <1>9 DEF Handlers, Rejected, Attach, Detach, Create, CreateBegun,
       CreateBeginError
  <1>10. CASE Evict \/ Load \/ Tick
    BY <1>3, <1>10 DEF Evict, Load, Tick
  <1>11. ASSUME NEW p \in Page, Open(p) \/ Retry(p) \/ (\E t \in Turn : Send(p, t)) PROVE sub' = sub
    BY <1>11 DEF Open, Retry, Send, Request
  <1>12. ASSUME NEW x \in Page, CallerCancelled(x) \/ SnapshotFails(x) \/ Disconnected(x)
         PROVE  \A p \in Page : sub'[p].registered => sub'[p].loaded
    BY <1>3, <1>7, <1>12 DEF CallerCancelled, SnapshotFails, Disconnected, Lost
  <1>13. ASSUME NEW x \in Page, Response(x)
         PROVE  \A p \in Page : sub'[p].registered => sub'[p].loaded
    <2>1. sub' = sub \/ sub' = [sub EXCEPT ![x].q = Tail(@)]
      BY <1>13 DEF Response, ReplyTaken, SnapshotRead, FirstFrame, EventSent, StreamEnds
    <2> QED BY <1>1, <2>1 DEF SubTypes, Subscription
  <1> QED BY <1>3, <1>5, <1>6, <1>9, <1>10, <1>11, <1>12, <1>13 DEF Next, WriteFault, ListFault, vars

(* A page asks, reads and leaves in turn: it never has two commands in the *)
(* queue of its manager.                                                   *)
LEMMA OneKept ==
  ASSUME Inv, [Next]_vars, OneCommandEach
  PROVE  OneCommandEach'
  <1> USE DEF turnVars, mgrVars, cmdVars, pageVars, clockVars, boundVars
  <1>1. SubTypes /\ CommandTypes /\ PageTypes
    BY TypeParts DEF Inv
  <1>2. \A p \in Page : sub'[p].registered => sub'[p].loaded
    BY LoadedKept
  <1>3. CASE UNCHANGED <<queue, cmd, stage>>
    BY <1>1, <1>2, <1>3, OneStays
  <1>4. ASSUME NEW t \in Turn, RuntimeStep(t) \/ WriteFault(t) PROVE OneCommandEach'
    BY <1>3, <1>4 DEF RuntimeStep, BeginCommit, BeginTakenUp, EventCommit, EventTakenUp,
       FinishAsked, FinishCommit, FinishTakenUp, Recover, TakeUp, WriteFault
  <1>5. ASSUME NEW p \in Page, NEW op \in {"create", "attach", "detach"}, NEW t, Take(op, p, t),
               cmd' = NoCommand, ErrorReply(p) \/ Detach(p)
        PROVE  OneCommandEach'
    <2>1. \A x \in Page : x # p => stage'[x] = stage[x]
      BY <1>1, <1>5 DEF ErrorReply, Detach, PageTypes
    <2> QED BY <1>1, <1>2, <1>5, <2>1, OneShrinks
  <1>6. ASSUME NEW p \in Page, Rejected(p) PROVE OneCommandEach'
    <2>1. cmd' = NoCommand /\ ErrorReply(p)
          /\ (Take("attach", p, NoTurn) \/ \E t \in Turn : Take("create", p, t))
      BY <1>6 DEF Rejected, Take
    <2> QED BY <1>5, <2>1
  <1>7. ASSUME NEW p \in Page, Detach(p) PROVE OneCommandEach'
    <2>1. cmd' = NoCommand /\ Take("detach", p, NoTurn)
      BY <1>7 DEF Detach, Take
    <2> QED BY <1>5, <1>7, <2>1
  <1>8. ASSUME NEW p \in Page, NEW op \in {"create", "attach"}, NEW t, Take(op, p, t),
               stage' = stage, cmd'.page = p, cmd' # NoCommand
        PROVE  OneCommandEach'
    <2>1. 1 \in DOMAIN queue /\ queue[1] = [op |-> op, page |-> p, turn |-> t]
      BY <1>1, <1>8 DEF Take, CommandTypes
    <2>2. stage'[p] \in Asking
      BY <1>8, <2>1 DEF OneCommandEach
    <2> QED BY <1>1, <1>2, <1>8, <2>2, OneShrinks
  <1>9. ASSUME NEW p \in Page, Attach(p) PROVE OneCommandEach'
    <2>1. Take("attach", p, NoTurn) /\ stage' = stage /\ cmd'.page = p /\ cmd' # NoCommand
      BY <1>9 DEF Attach, NoCommand
    <2> QED BY <1>8, <2>1
  <1>10. ASSUME NEW p \in Page, NEW t \in Turn, Create(p, t) PROVE OneCommandEach'
    <2>1. Take("create", p, t) /\ stage' = stage /\ cmd'.page = p /\ cmd' # NoCommand
      BY <1>10 DEF Create, NoCommand
    <2> QED BY <1>8, <2>1
  <1>11. ASSUME cmd # NoCommand, cmd' = NoCommand, queue' = queue, NEW s,
                stage' = [stage EXCEPT ![cmd.page] = s]
         PROVE  OneCommandEach'
    <2>1. cmd.page \in Page
      BY <1>1, <1>11 DEF CommandTypes, Executing
    <2>2. \A x \in Page : x # cmd.page => stage'[x] = stage[x]
      BY <1>1, <1>11 DEF PageTypes
    <2> QED BY <1>1, <1>2, <1>11, <2>1, <2>2, OneStays
  <1>12. CASE CreateBegun
    <2>1. queue' = queue /\ stage' = stage /\ cmd # NoCommand /\ cmd'.page = cmd.page
      BY <1>1, <1>12 DEF CreateBegun, CommandTypes, Executing, NoCommand
    <2> QED BY <1>1, <1>2, <2>1, OneStays
  <1>13. CASE CreateBeginError
    <2>1. cmd # NoCommand
      BY <1>13 DEF CreateBeginError, NoCommand
    <2> QED BY <1>11, <1>13, <2>1 DEF CreateBeginError, ErrorReply
  <1>14. CASE Registered
    BY <1>11, <1>14 DEF Registered
  <1>15. CASE ListFault
    BY <1>11, <1>15 DEF ListFault, ErrorReply
  <1>16. CASE HandleStop
    <2>1. cmd' = NoCommand /\ queue' = << >> /\ DOMAIN << >> = {}
      BY <1>16 DEF HandleStop
    <2> QED BY <1>2, <2>1 DEF OneCommandEach
  <1>17. CASE Evict
    <2>1. cmd' = cmd /\ stage' = stage /\ queue' = <<Stop>>
      BY <1>17 DEF Evict
    <2>2. \A i \in DOMAIN queue' : queue'[i].op = "stop"
      BY <2>1 DEF Stop
    <2> QED BY <1>2, <2>1, <2>2 DEF OneCommandEach
  <1>18. CASE Load \/ Tick
    BY <1>3, <1>18 DEF Load, Tick
  <1>19. CASE Handlers
    BY <1>6, <1>7, <1>9, <1>10, <1>12, <1>13, <1>14, <1>16, <1>19 DEF Handlers
  <1>20. ASSUME NEW p \in Page, stage[p] \notin Asking \cup Ending, queue' = queue, cmd' = cmd,
                NEW s, stage' = [stage EXCEPT ![p] = s]
         PROVE  OneCommandEach'
    <2>1. \A x \in Page : x # p => stage'[x] = stage[x]
      BY <1>1, <1>20 DEF PageTypes
    <2> QED BY <1>1, <1>2, <1>20, <2>1, OneStays
  <1>21. ASSUME NEW p \in Page, NEW op \in {"create", "attach"}, NEW t \in TurnOrNone, Request(p, op, t),
                stage[p] \in {"idle", "retry"}
         PROVE  OneCommandEach'
    <2>1. stage[p] \notin Asking \cup Ending /\ cmd' = cmd
      BY <1>21 DEF Asking, Ending, Request
    <2>2. CASE Accepts
      <3>1. PICK c \in Command : c = [op |-> op, page |-> p, turn |-> t]
        BY DEF Command
      <3>2. queue' = Append(queue, c) /\ stage' = [stage EXCEPT ![p] = "asked"] /\ c.page = p /\ c.op = op
        BY <1>21, <2>2, <3>1 DEF Request
      <3>3. "asked" \in (IF c.op = "detach" THEN Ending ELSE Asking)
        BY <3>2 DEF Asking
      <3> QED BY <1>1, <1>2, <2>1, <3>2, <3>3, OneGrows
    <2>3. CASE ~Accepts
      BY <1>20, <1>21, <2>1, <2>3 DEF Request
    <2> QED BY <2>2, <2>3
  <1>22. ASSUME NEW p \in Page, Open(p) \/ Retry(p) \/ (\E t \in Turn : Send(p, t)) PROVE OneCommandEach'
    BY <1>21, <1>22 DEF Open, Retry, Send, TurnOrNone
  <1>23. ASSUME NEW p \in Page, CallerCancelled(p) PROVE OneCommandEach'
    <2>1. \A x \in Page : x # p => stage'[x] = stage[x]
      BY <1>1, <1>23 DEF CallerCancelled, PageTypes
    <2>2. \/ stage[p] = "asked" /\ stage'[p] = "dropped"
          \/ stage[p] = "replied"
      BY <1>1, <1>23 DEF CallerCancelled, PageTypes
    <2>3. "replied" \notin Asking \cup Ending /\ queue' = queue /\ cmd' = cmd
      BY <1>23 DEF CallerCancelled, Asking, Ending
    <2> QED BY <1>1, <1>2, <2>1, <2>2, <2>3, OneStays
  <1>24. ASSUME NEW p \in Page, NEW retry \in BOOLEAN, Leave(p, retry), cmd' = cmd,
                stage[p] \notin Asking \cup Ending
         PROVE  OneCommandEach'
    <2>1. CASE sub[p].loaded /\ Accepts
      <3>1. PICK c \in Command : c = [op |-> "detach", page |-> p, turn |-> NoTurn]
        BY DEF Command, TurnOrNone
      <3>2. PICK s \in Ending : stage' = [stage EXCEPT ![p] = s]
        BY <1>24, <2>1 DEF Leave, Ending
      <3>3. queue' = Append(queue, c) /\ c.page = p /\ c.op = "detach"
        BY <1>24, <2>1, <3>1 DEF Leave
      <3> QED BY <1>1, <1>2, <1>24, <3>2, <3>3, OneGrows
    <2>2. CASE ~(sub[p].loaded /\ Accepts)
      BY <1>20, <1>24, <2>2 DEF Leave
    <2> QED BY <2>1, <2>2
  <1>25. ASSUME NEW p \in Page, SnapshotFails(p) \/ Disconnected(p) \/ StreamEnds(p) PROVE OneCommandEach'
    <2>1. cmd' = cmd /\ stage[p] \notin Asking \cup Ending /\ \E retry \in BOOLEAN : Leave(p, retry)
      BY <1>25 DEF SnapshotFails, Disconnected, Lost, StreamEnds, Asking, Ending
    <2> QED BY <1>24, <2>1
  <1>26. ASSUME NEW p \in Page, ReplyTaken(p) \/ SnapshotRead(p) PROVE OneCommandEach'
    <2>1. cmd' = cmd /\ queue' = queue /\ stage[p] \notin Asking \cup Ending
          /\ \E s : stage' = [stage EXCEPT ![p] = s]
      BY <1>26 DEF ReplyTaken, SnapshotRead, Asking, Ending
    <2> QED BY <1>20, <2>1
  <1>27. ASSUME NEW p \in Page, FirstFrame(p) \/ EventSent(p) PROVE OneCommandEach'
    <2>1. cmd' = cmd /\ stage[p] \notin Asking \cup Ending
      BY <1>27 DEF FirstFrame, EventSent, Asking, Ending
    <2>2. \/ queue' = queue /\ stage' = stage
          \/ queue' = queue /\ stage' = [stage EXCEPT ![p] = "stream"]
          \/ \E retry \in BOOLEAN : Leave(p, retry)
      BY <1>27 DEF FirstFrame, EventSent
    <2> QED BY <1>3, <1>20, <1>24, <2>1, <2>2
  <1> QED BY <1>3, <1>4, <1>15, <1>17, <1>18, <1>19, <1>22, <1>23, <1>25, <1>26, <1>27
          DEF Next, Response, vars

Reading == Following \cup Ending

(* Every step leaves an open subscription of a manager that is not being   *)
(* closed with a request that reads it or has queued its detach.           *)
LEMMA ReadKept ==
  ASSUME Inv, [Next]_vars, OneCommandEach, SubscriptionsAreRead,
         IsFiniteSet(Page), Cardinality(Page) <= QueueLimit
  PROVE  SubscriptionsAreRead'
  <1> USE DEF turnVars, mgrVars, cmdVars, pageVars, clockVars, boundVars
  <1>1. SubTypes /\ CommandTypes /\ PageTypes /\ Places
    BY TypeParts, CommandParts DEF Inv
  <1>2. SUFFICES ASSUME mgr' = "ready", NEW p \in Page, sub'[p].registered PROVE stage'[p] \in Reading
    BY DEF SubscriptionsAreRead, Reading, Following, Ending
  <1>3. mgr = "ready" /\ sub[p].registered => stage[p] \in Reading
    BY DEF SubscriptionsAreRead, Reading, Following, Ending
  <1>4. /\ NoSubscription.registered = FALSE /\ Stopped.registered = FALSE
    BY DEF NoSubscription, Stopped
  <1>5. CASE mgr = "ready" /\ sub[p].registered /\ stage'[p] = stage[p]
    BY <1>3, <1>5
  <1>6. CASE UNCHANGED <<mgr, sub, stage>>
    BY <1>2, <1>5, <1>6
  <1>7. ASSUME NEW t \in Turn, RuntimeStep(t) PROVE stage'[p] \in Reading
    <2>1. mgr' = mgr /\ stage' = stage /\ (sub' = sub \/ \E e : Broadcast(e))
      BY <1>7 DEF RuntimeStep, BeginCommit, BeginTakenUp, EventCommit, EventTakenUp,
         FinishAsked, FinishCommit, FinishTakenUp, Recover, TakeUp
    <2>2. sub[p].registered
      BY <1>1, <1>2, <2>1 DEF Broadcast, Published
    <2> QED BY <1>2, <1>5, <2>1, <2>2
  <1>8. CASE Fail \/ HandleStop
    BY <1>2, <1>4, <1>8 DEF Fail, HandleStop
  <1>9. ASSUME NEW x \in Page, NEW op \in {"create", "attach", "detach"}, NEW t, Take(op, x, t),
               mgr' = mgr, sub' = sub, \A y \in Page : y # x => stage'[y] = stage[y],
               op \in {"create", "attach"}
        PROVE  stage'[p] \in Reading
    <2>1. CASE x = p
      <3>1. 1 \in DOMAIN queue /\ queue[1] = [op |-> op, page |-> x, turn |-> t]
        BY <1>1, <1>9 DEF Take, CommandTypes
      <3>2. stage[p] \in Asking
        BY <1>9, <2>1, <3>1 DEF OneCommandEach
      <3> QED BY <1>2, <1>3, <1>9, <3>2 DEF Reading, Following, Asking, Ending
    <2>2. CASE x # p
      BY <1>2, <1>5, <1>9, <2>2
    <2> QED BY <2>1, <2>2
  <1>10. ASSUME NEW x \in Page, Rejected(x) PROVE stage'[p] \in Reading
    <2>1. /\ mgr' = mgr /\ sub' = sub /\ \A y \in Page : y # x => stage'[y] = stage[y]
          /\ Take("attach", x, NoTurn) \/ \E t \in Turn : Take("create", x, t)
      BY <1>1, <1>10 DEF Rejected, ErrorReply, PageTypes
    <2> QED BY <1>9, <2>1
  <1>11. ASSUME NEW x \in Page, Attach(x) \/ \E t \in Turn : Create(x, t) PROVE stage'[p] \in Reading
    BY <1>6, <1>11 DEF Attach, Create
  <1>12. ASSUME NEW x \in Page, Detach(x) PROVE stage'[p] \in Reading
    <2>1. x # p /\ mgr' = mgr /\ sub'[p] = sub[p] /\ stage'[p] = stage[p]
      BY <1>1, <1>2, <1>4, <1>12 DEF Detach, SubTypes, PageTypes
    <2> QED BY <1>2, <1>5, <2>1
  <1>13. CASE CreateBegun
    BY <1>6, <1>13 DEF CreateBegun
  <1>14. ASSUME cmd # NoCommand, stage[cmd.page] \in Asking, mgr' = mgr, NEW s,
                stage' = [stage EXCEPT ![cmd.page] = s], sub' = sub
         PROVE  stage'[p] \in Reading
    <2>1. cmd.page # p
      BY <1>2, <1>3, <1>14 DEF Asking, Reading, Following, Ending
    <2>2. stage'[p] = stage[p]
      BY <1>1, <1>14, <2>1 DEF PageTypes
    <2> QED BY <1>2, <1>5, <1>14, <2>2
  <1>15. CASE CreateBeginError
    <2>1. cmd # NoCommand
      BY <1>15 DEF CreateBeginError, NoCommand
    <2> QED BY <1>14, <1>15, <2>1 DEF CreateBeginError, ErrorReply, OneCommandEach
  <1>16. CASE Registered
    <2>1. cmd.page \in Page /\ mgr' = mgr /\ cmd # NoCommand /\ stage[cmd.page] \in Asking
      BY <1>1, <1>16 DEF Registered, CommandTypes, Executing, OneCommandEach
    <2>2. CASE stage[cmd.page] = "dropped"
      BY <1>14, <1>16, <2>1, <2>2 DEF Registered
    <2>3. CASE stage[cmd.page] # "dropped" /\ cmd.page = p
      <3>1. stage'[p] = "replied"
        BY <1>1, <1>16, <2>3 DEF Registered, PageTypes
      <3> QED BY <3>1 DEF Reading, Following
    <2>4. CASE stage[cmd.page] # "dropped" /\ cmd.page # p
      <3>1. stage'[p] = stage[p] /\ sub'[p] = sub[p]
        BY <1>1, <1>16, <2>4 DEF Registered, PageTypes, SubTypes
      <3> QED BY <1>2, <1>5, <2>1, <3>1
    <2> QED BY <2>2, <2>3, <2>4
  <1>17. CASE Handlers
    BY <1>8, <1>10, <1>11, <1>12, <1>13, <1>15, <1>16, <1>17 DEF Handlers
  <1>18. CASE Evict
    BY <1>2, <1>18 DEF Evict
  <1>19. CASE Load
    BY <1>1, <1>2, <1>19 DEF Load, Places
  <1>20. CASE Tick
    BY <1>6, <1>20 DEF Tick
  <1>21. ASSUME NEW x \in Page, NEW op, NEW t, Request(x, op, t) PROVE stage'[p] \in Reading
    <2>1. x # p /\ mgr' = mgr /\ sub' = sub
      BY <1>2, <1>21 DEF Request
    <2>2. stage'[p] = stage[p]
      BY <1>1, <1>21, <2>1 DEF Request, PageTypes
    <2> QED BY <1>2, <1>5, <2>1, <2>2
  <1>22. ASSUME NEW x \in Page, Open(x) \/ Retry(x) \/ (\E t \in Turn : Send(x, t))
         PROVE  stage'[p] \in Reading
    BY <1>21, <1>22 DEF Open, Retry, Send
  <1>23. ASSUME NEW x \in Page, CallerCancelled(x) PROVE stage'[p] \in Reading
    <2>1. CASE x = p
      <3>1. mgr' = mgr /\ ((stage[p] = "asked" /\ sub' = sub) \/ sub'[p] = NoSubscription)
        BY <1>1, <1>23, <2>1 DEF CallerCancelled, SubTypes
      <3> QED BY <1>2, <1>3, <1>4, <3>1 DEF Reading, Following, Ending
    <2>2. CASE x # p
      <3>1. mgr' = mgr /\ stage'[p] = stage[p] /\ sub'[p] = sub[p]
        BY <1>1, <1>23, <2>2 DEF CallerCancelled, SubTypes, PageTypes
      <3> QED BY <1>2, <1>5, <3>1
    <2> QED BY <2>1, <2>2
  <1>24. ASSUME NEW x \in Page, NEW retry \in BOOLEAN, Leave(x, retry), mgr' = mgr,
                sub'[p].registered = sub[p].registered, stage[x] \in Following
         PROVE  stage'[p] \in Reading
    <2>1. CASE x = p
      <3>1. stage[x] \notin Asking \cup Ending
        BY <1>24 DEF Following, Asking, Ending
      <3>2. Accepts
        BY <1>1, <1>2, <1>24, <3>1, RoomToLeave
      <3>3. sub[p].loaded
        BY <1>2, <1>24 DEF OneCommandEach
      <3>4. stage'[p] \in Ending
        BY <1>1, <1>24, <2>1, <3>2, <3>3 DEF Leave, Ending, PageTypes
      <3> QED BY <3>4 DEF Reading
    <2>2. CASE x # p
      <3>1. stage'[p] = stage[p]
        BY <1>1, <1>24, <2>2, LeftStage
      <3> QED BY <1>2, <1>5, <1>24, <3>1
    <2> QED BY <2>1, <2>2
  <1>25. ASSUME NEW x \in Page, SnapshotFails(x) \/ Disconnected(x) \/ StreamEnds(x)
         PROVE  stage'[p] \in Reading
    <2>1. mgr' = mgr /\ sub' = sub /\ stage[x] \in Following /\ \E retry \in BOOLEAN : Leave(x, retry)
      BY <1>25 DEF SnapshotFails, Disconnected, Lost, StreamEnds, Following
    <2> QED BY <1>24, <2>1
  <1>26. ASSUME NEW x \in Page, NEW s \in Following, stage' = [stage EXCEPT ![x] = s], mgr' = mgr, sub' = sub
         PROVE  stage'[p] \in Reading
    BY <1>1, <1>2, <1>3, <1>26 DEF PageTypes, Reading
  <1>27. ASSUME NEW x \in Page, ReplyTaken(x) \/ SnapshotRead(x) PROVE stage'[p] \in Reading
    <2>1. mgr' = mgr /\ sub' = sub /\ \E s \in Following : stage' = [stage EXCEPT ![x] = s]
      BY <1>27 DEF ReplyTaken, SnapshotRead, Following
    <2> QED BY <1>26, <2>1
  <1>28. ASSUME NEW x \in Page, FirstFrame(x) PROVE stage'[p] \in Reading
    <2>1. mgr' = mgr /\ sub' = sub /\ stage[x] \in Following
          /\ (Leave(x, TRUE) \/ \E s \in Following : stage' = [stage EXCEPT ![x] = s])
      BY <1>28 DEF FirstFrame, Following
    <2> QED BY <1>24, <1>26, <2>1
  <1>29. ASSUME NEW x \in Page, EventSent(x) PROVE stage'[p] \in Reading
    <2>1. mgr' = mgr /\ stage[x] \in Following /\ (stage' = stage \/ \E retry \in BOOLEAN : Leave(x, retry))
      BY <1>29 DEF EventSent, Following
    <2>2. sub'[p].registered = sub[p].registered
      BY <1>1, <1>29 DEF EventSent, SubTypes, Subscription
    <2> QED BY <1>2, <1>5, <1>24, <2>1, <2>2
  <1> QED BY <1>6, <1>7, <1>8, <1>17, <1>18, <1>19, <1>20, <1>22, <1>23, <1>25, <1>27, <1>28, <1>29
          DEF Next, Response, vars, WriteFault, ListFault

(* The invariant counts every event once.                                  *)
LEMMA CountsHold ==
  ASSUME Inv
  PROVE  ExactlyOnce
  <1>1. \A p \in Page : \A t : Waiting(p, t) = Cardinality(Of(sub[p].q, t))
    BY DEF Waiting, Of
  <1> QED BY <1>1 DEF ExactlyOnce, Inv, Follows, CaptureCounts, SnapshotCounts, ViewCounts

(* The invariant keeps an end for every reader.                            *)
LEMMA ReadersHear ==
  ASSUME Inv
  PROVE  ReadersWillHear
  BY DEF ReadersWillHear, Inv, Follows, Hears, Following

(* The type invariant of the feed holds in every behaviour, for any pages, *)
(* turns and limits.                                                       *)
THEOREM FeedTypes == Spec => []TypeOK
  <1>1. Inv => TypeOK
    BY DEF Inv
  <1> QED BY <1>1, Invariance, PTL

(* What a page shows of the turn it follows and what waits in its          *)
(* subscription are every published event once (attach and create capture  *)
(* and register in one step, build_snapshot reads the rows later, publish  *)
(* closes what it cannot fill).                                            *)
THEOREM NoRepeatNoGap == Spec => []ExactlyOnce
  <1>1. Inv => ExactlyOnce
    BY CountsHold
  <1> QED BY <1>1, Invariance, PTL

(* A reader that follows a turn hears of its end: the turn runs, under the *)
(* manager that will publish its end, or the end waits in its queue.       *)
THEOREM EveryReaderHears == Spec => []ReadersWillHear
  <1>1. Inv => ReadersWillHear
    BY ReadersHear
  <1> QED BY <1>1, Invariance, PTL

(* When the command queue has room for one command of every page           *)
(* (session_command_limit is 64), no subscription of a manager in service  *)
(* is without a request that reads it or has queued its detach: the detach *)
(* is then never refused.                                                  *)
THEOREM EveryReaderIsServed ==
  ASSUME IsFiniteSet(Page), Cardinality(Page) <= QueueLimit
  PROVE  Spec => []SubscriptionsAreRead
  <1> DEFINE J == Inv /\ OneCommandEach /\ SubscriptionsAreRead
  <1>1. Init => J
    <2> SUFFICES ASSUME Init PROVE J
      OBVIOUS
    <2>1. /\ queue = << >> /\ DOMAIN << >> = {} /\ cmd = NoCommand /\ mgr = "absent"
          /\ \A p \in Page : ~sub[p].registered
      BY NewSubscriptions DEF Init
    <2> QED BY <2>1, Start DEF OneCommandEach, SubscriptionsAreRead
  <1>2. J /\ [Next]_vars => J'
    BY InvKept, OneKept, ReadKept
  <1>3. J => SubscriptionsAreRead
    OBVIOUS
  <1> QED BY <1>1, <1>2, <1>3, PTL DEF Spec

=============================================================================
