---------------------------- MODULE TurnContract ----------------------------
(***************************************************************************)
(* What a session promises to those who use it, whatever goes on inside:   *)
(* turns run one at a time, each reaches one final status and keeps it, a  *)
(* turn that was acknowledged exists, and the status a cancel was answered *)
(* with is the one the turn has or will get.  It promises this as long as  *)
(* it is trusted; who implements it says what ends that.                   *)
(***************************************************************************)
CONSTANTS Turn

Terminal == {"completed", "cancelled", "failed"}

VARIABLES
  turnRow,  \* the status of each turn, "none" before it exists
  acked,    \* turns whose creation was acknowledged
  told,     \* <<turn, status>>: answers given to cancel requests
  trusted   \* nothing has happened yet that the promise excepts

vars == <<turnRow, acked, told, trusted>>

Init ==
  /\ turnRow = [t \in Turn |-> "none"]
  /\ acked = {} /\ told = {}
  /\ trusted = TRUE

Begin(t) ==
  /\ turnRow[t] = "none"
  /\ \A u \in Turn : turnRow[u] # "in_progress"
  /\ turnRow' = [turnRow EXCEPT ![t] = "in_progress"]
  /\ UNCHANGED <<acked, told>>

(* A turn settles once, and as its canceller was told if it was told.      *)
Settle(t, s) ==
  /\ turnRow[t] = "in_progress"
  /\ \A r \in told : r[1] = t => r[2] = s
  /\ turnRow' = [turnRow EXCEPT ![t] = s]
  /\ UNCHANGED <<acked, told>>

Acknowledge(t) ==
  /\ turnRow[t] # "none"
  /\ acked' = acked \cup {t}
  /\ UNCHANGED <<turnRow, told>>

(* Only a failure may be announced before it is recorded.                  *)
Tell(t, s) ==
  /\ turnRow[t] = s \/ (s = "failed" /\ turnRow[t] = "in_progress")
  /\ told' = told \cup {<<t, s>>}
  /\ UNCHANGED <<turnRow, acked>>

Promised ==
  /\ trusted /\ trusted'
  /\ \E t \in Turn :
       \/ Begin(t) \/ Acknowledge(t)
       \/ \E s \in Terminal : Settle(t, s) \/ Tell(t, s)

Distrusted == ~trusted'

Next == Promised \/ Distrusted

Spec == Init /\ [][Next]_vars
=============================================================================
