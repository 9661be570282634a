------------------------- MODULE SessionTurnsProofs -------------------------
(***************************************************************************)
(* What holds of a session for every set of turns, queue limit, number of  *)
(* faults, crashes and resource versions.  First, whatever happens: types, *)
(* rows and answers.  Then, while all is Orderly: the claim of the session *)
(* row, the manager's copy of it and the runtimes agree, the event log     *)
(* ends with its turn, and the session implements TurnContract.            *)
(***************************************************************************)
EXTENDS SessionTurns, SequenceTheorems, TLAPS

-----------------------------------------------------------------------------
(* The type invariant is inductive together with where a command's turn    *)
(* and a runtime's final status come from.                                 *)
RuntimeOK(r) == r \in Runtime /\ (r.step = "finish" => r.status \in Terminal)
RuntimesOK(f) == f \in [Turn -> Runtime] /\ \A t \in Turn : RuntimeOK(f[t])

TypeInv ==
  /\ TypeOK
  /\ cmd.op = "create" => cmd.turn \in Turn
  /\ RuntimesOK(rt)

(* The lemmas on the pieces the actions are built from.                    *)

LEMMA FreshType ==
  /\ NoTurn \in TurnOrNone /\ \A t \in Turn : t \in TurnOrNone
  /\ NoSession \in Session
  /\ RuntimeOK(Unborn)
  /\ RuntimeOK([Unborn EXCEPT !.step = "closed"])
  /\ RuntimeOK(Started)
  /\ Idle \in Executing
<1>1. NoSession \in Session
  BY BoundsAssumption DEF NoSession, Session, TurnOrNone
<1>2. Unborn \in Runtime /\ Unborn.step = "unborn"
  BY <1>1 DEF Unborn, Runtime, TurnOrNone
<1>3. Started \in Runtime /\ Started.step = "begin"
  BY <1>2 DEF Started, Runtime
<1>4. [Unborn EXCEPT !.step = "closed"] \in Runtime
  BY <1>2 DEF Runtime
<1>5. [Unborn EXCEPT !.step = "closed"].step = "closed"
  BY DEF Unborn
<1>6. Idle \in Executing
  BY <1>1 DEF Idle, Executing, TurnOrNone
<1>. QED  BY <1>1, <1>2, <1>3, <1>4, <1>5, <1>6 DEF RuntimeOK, TurnOrNone

LEMMA SessionType ==
  ASSUME NEW s \in Session
  PROVE  /\ Released(s) \in Session
         /\ \A t \in Turn : Claimed(s, t) \in Session
         /\ [s EXCEPT !.active = NoTurn] \in Session
         /\ [s EXCEPT !.res = (s.res + 1) % (MaxRes + 1)] \in Session
         /\ s.active \in TurnOrNone
<1>1. (s.res + 1) % (MaxRes + 1) \in 0..MaxRes
  BY BoundsAssumption DEF Session
<1>. QED  BY <1>1 DEF Released, Claimed, Session, TurnOrNone

LEMMA RuntimeType ==
  ASSUME NEW r, RuntimeOK(r)
  PROVE  /\ RuntimeOK(Closed(r))
         /\ RuntimeOK(Cancelled(r))
         /\ \A s \in Terminal : RuntimeOK(Finishing(r, s))
         /\ \A s \in Session, w \in BOOLEAN : RuntimeOK(Committed(r, s, w))
         /\ RuntimeOK([r EXCEPT !.io = "asked"])
         /\ RuntimeOK(Taken(r))
         /\ RuntimeOK(Began(r))
         /\ RuntimeOK(AfterFault(r))
         /\ RuntimeOK([AfterFault(r) EXCEPT !.other = NoTurn])
<1>. USE DEF RuntimeOK, Runtime
<1>1. RuntimeOK(Closed(r))  BY DEF Closed
<1>2. RuntimeOK(Cancelled(r))  BY DEF Cancelled
<1>3. \A s \in Terminal : RuntimeOK(Finishing(r, s))  BY DEF Finishing, Terminal
<1>4. \A s \in Session, w \in BOOLEAN : RuntimeOK(Committed(r, s, w))
  BY DEF Committed
<1>5. RuntimeOK([r EXCEPT !.io = "asked"])  OBVIOUS
<1>6. RuntimeOK(Taken(r))
  BY FreshType, SessionType DEF Taken
<1>7. RuntimeOK(Began(r))
  BY DEF Began, Finishing, Terminal
<1>8. RuntimeOK(AfterFault(r))
  BY <1>1 DEF AfterFault, Finishing, Terminal
<1>9. RuntimeOK([AfterFault(r) EXCEPT !.other = NoTurn])
  BY <1>8, FreshType
<1>. QED  BY <1>1, <1>2, <1>3, <1>4, <1>5, <1>6, <1>7, <1>8, <1>9

LEMMA RuntimesType ==
  ASSUME NEW f, RuntimesOK(f), NEW t \in Turn, NEW r, RuntimeOK(r)
  PROVE  RuntimesOK([f EXCEPT ![t] = r])
  BY DEF RuntimesOK, RuntimeOK

LEMMA CancelType ==
  ASSUME NEW f, RuntimesOK(f), current \in TurnOrNone
  PROVE  RuntimesOK(CancelRuntime(f))
<1>1. CASE current = NoTurn  BY <1>1 DEF CancelRuntime
<1>2. CASE current \in Turn
  <2>1. RuntimeOK(Cancelled(f[current]))  BY <1>2, RuntimeType DEF RuntimesOK
  <2>2. CancelRuntime(f) = [f EXCEPT ![current] = Cancelled(f[current])]
    BY <1>2, NoTurnAssumption DEF CancelRuntime
  <2>. QED  BY <1>2, <2>1, <2>2 DEF RuntimesOK, RuntimeOK
<1>. QED  BY <1>1, <1>2 DEF TurnOrNone

LEMMA RecoveryType ==
  ASSUME RecoveryTypeOK, NEW i \in DOMAIN recoveries, RecoveryEnds(i),
         recoveryTask' = recoveryTask
  PROVE  RecoveryTypeOK'
<1>. DEFINE r == [recoveries[i] EXCEPT !.live = FALSE]
<1>1. i \in 1 .. Len(recoveries) /\ recoveries[i] \in Recovery
  BY DEF RecoveryTypeOK
<1>2. r \in Recovery  BY <1>1 DEF Recovery
<1>3. /\ [recoveries EXCEPT ![i] = r] \in Seq(Recovery)
      /\ Len([recoveries EXCEPT ![i] = r]) = Len(recoveries)
  <2>. HIDE DEF r
  <2>. QED  BY <1>1, <1>2, ExceptSeq DEF RecoveryTypeOK
<1>. QED  BY <1>3 DEF RecoveryTypeOK, RecoveryEnds

LEMMA InitType == Init => TypeInv
<1>. SUFFICES ASSUME Init PROVE TypeInv  OBVIOUS
<1>1. RowsTypeOK  BY FreshType DEF Init, RowsTypeOK
<1>2. ProcessTypeOK  BY BoundsAssumption DEF Init, ProcessTypeOK
<1>3. ManagerTypeOK
  <2>1. broken \in BOOLEAN  BY DEF Init
  <2>2. << >> \in Seq(Command)  OBVIOUS
  <2>. QED  BY <2>1, <2>2, FreshType DEF Init, ManagerTypeOK
<1>4. RecoveryTypeOK  BY DEF Init, RecoveryTypeOK
<1>5. RuntimesOK(rt)  BY FreshType DEF Init, RuntimesOK, RuntimeOK
<1>6. RuntimeTypeOK  BY <1>5 DEF Init, RuntimeTypeOK, RuntimesOK
<1>7. AnswersTypeOK  BY DEF Init, AnswersTypeOK
<1>8. cmd.op # "create"
  BY DEF Init, Idle
<1>. QED  BY <1>1, <1>2, <1>3, <1>4, <1>5, <1>6, <1>7, <1>8 DEF TypeInv, TypeOK

LEMMA SpawnType ==
  ASSUME TypeInv, NEW t \in TurnOrNone, Spawn(t),
         recoveryTask' = recoveryTask \/ recoveryTask' = Len(recoveries) + 1
  PROVE  RecoveryTypeOK'
<1>. DEFINE r == [turn |-> t, live |-> TRUE]
<1>1. r \in Recovery  BY DEF Recovery
<1>2. /\ Append(recoveries, r) \in Seq(Recovery)
      /\ Len(Append(recoveries, r)) = Len(recoveries) + 1
      /\ Len(recoveries) \in Nat
  <2>. HIDE DEF r
  <2>. QED  BY <1>1, AppendProperties DEF TypeInv, TypeOK, RecoveryTypeOK
<1>. QED  BY <1>2 DEF Spawn, TypeInv, TypeOK, RecoveryTypeOK

LEMMA FailType ==
  ASSUME TypeInv, Fail
  PROVE  /\ broken' \in BOOLEAN
         /\ current' \in TurnOrNone /\ pending' \in TurnOrNone
         /\ cache' \in Session
         /\ told' \subseteq Turn \X Terminal
         /\ mgr' = mgr /\ awaited' = awaited
         /\ RecoveryTypeOK'
<1>1. broken' \in BOOLEAN  BY DEF Fail
<1>2. cache' \in Session /\ cache.active \in TurnOrNone
  BY SessionType DEF Fail, TypeInv, TypeOK, ManagerTypeOK
<1>3. told' \subseteq Turn \X Terminal
  BY DEF Fail, TypeInv, TypeOK, ManagerTypeOK, AnswersTypeOK, TurnOrNone, Terminal
<1>4. RecoveryTypeOK'
  <2>1. recoveryTask' = Len(recoveries) + 1 /\ Spawn(cache.active)  BY DEF Fail
  <2>. QED  BY <1>2, <2>1, SpawnType
<1>. QED  BY <1>1, <1>2, <1>3, <1>4, FreshType DEF Fail

LEMMA TakeType ==
  ASSUME TypeInv, NEW op, Take(op)
  PROVE  queue' \in Seq(Command)
  BY HeadTailProperties DEF Take, TypeInv, TypeOK, ManagerTypeOK

LEMMA SubmitType ==
  ASSUME TypeInv, NEW c \in Command, Submit(c)
  PROVE  TypeInv'
<1>1. queue' \in Seq(Command)
  BY AppendProperties DEF Submit, TypeInv, TypeOK, ManagerTypeOK
<1>. QED
  BY <1>1 DEF Submit, TypeInv, TypeOK, RowsTypeOK, ProcessTypeOK, ManagerTypeOK,
    RecoveryTypeOK, RuntimeTypeOK, AnswersTypeOK, dbVars, envVars, outVars

LEMMA UnloadedType == 
  ASSUME Unloaded, recoveries' \in Seq(Recovery)
  PROVE  ManagerTypeOK' /\ RecoveryTypeOK' /\ cmd'.op # "create"
<1>1. broken' \in BOOLEAN  BY DEF Unloaded
<1>2. << >> \in Seq(Command)  OBVIOUS
<1>3. cmd'.op # "create"  BY DEF Unloaded, Idle
<1>4. ManagerTypeOK'  BY <1>1, <1>2, FreshType DEF Unloaded, ManagerTypeOK
<1>5. RecoveryTypeOK'
  BY LenProperties DEF Unloaded, RecoveryTypeOK
<1>. QED  BY <1>3, <1>4, <1>5

LEMMA ExecutingType ==
  ASSUME NEW t \in TurnOrNone
  PROVE  /\ Running("create", t, "begun") \in Executing
         /\ Running("cancel", t, "wait") \in Executing
         /\ Running("replace", t, "prepare") \in Executing
         /\ \A c \in Executing :
              /\ c.turn \in TurnOrNone /\ c.snap \in Session
              /\ [c EXCEPT !.stage = "list"] \in Executing
              /\ [c EXCEPT !.stage = "asked"] \in Executing
              /\ \A s \in Session : [c EXCEPT !.stage = "committed", !.snap = s] \in Executing
  BY FreshType DEF Running, Executing

-----------------------------------------------------------------------------
(* Every step preserves the type invariant, family by family.              *)

LEMMA ClientsType == TypeInv /\ Clients => TypeInv'
<1>1. ASSUME TypeInv, NEW t \in Turn
      PROVE  /\ [op |-> "create", turn |-> t] \in Command
             /\ [op |-> "cancel", turn |-> t] \in Command
             /\ [op |-> "replace", turn |-> NoTurn] \in Command
  BY FreshType DEF Command
<1>2. [op |-> "replace", turn |-> NoTurn] \in Command
  BY FreshType DEF Command
<1>. QED  BY <1>1, <1>2, SubmitType DEF Clients, SubmitCreate, SubmitCancel, SubmitReplace

LEMMA HandlersType == TypeInv /\ Handlers => TypeInv'
<1>. SUFFICES ASSUME TypeInv, Handlers PROVE TypeInv'  OBVIOUS
<1>. USE DEF TypeInv, TypeOK, RowsTypeOK, ProcessTypeOK, ManagerTypeOK, RecoveryTypeOK,
     RuntimeTypeOK, AnswersTypeOK, RuntimesOK, dbVars, envVars, mgrVars, outVars
<1>1. ASSUME RejectBroken PROVE TypeInv'
  BY <1>1, TakeType DEF RejectBroken
<1>2. ASSUME NEW t \in Turn, HandleCreate(t) PROVE TypeInv'
  BY <1>2, TakeType, ExecutingType, FreshType DEF HandleCreate, Running, RuntimeOK
<1>3. ASSUME NEW t \in Turn, CancelSettled(t) PROVE TypeInv'
  BY <1>3, TakeType DEF CancelSettled, Terminal
<1>4. ASSUME NEW t \in Turn, HandleCancel(t) PROVE TypeInv'
  BY <1>4, TakeType, ExecutingType, FreshType, CancelType DEF HandleCancel, Running
<1>5. ASSUME CreateConflict PROVE TypeInv'
  BY <1>5, TakeType DEF CreateConflict
<1>6. ASSUME CreateBegun PROVE TypeInv'
  <2>1. cmd' \in Executing /\ cmd'.turn = cmd.turn /\ cmd'.op = cmd.op
    BY <1>6 DEF CreateBegun, Executing
  <2>. QED  BY <1>6, <2>1 DEF CreateBegun
<1>7. ASSUME CreateAnswered PROVE TypeInv'
  BY <1>7, FreshType DEF CreateAnswered, Idle
<1>8. ASSUME CreateBeginError PROVE TypeInv'
  BY <1>8, FailType, FreshType, CancelType DEF CreateBeginError, HandlerFails, Idle
<1>9. ASSUME HandleReplace PROVE TypeInv'
  BY <1>9, TakeType, ExecutingType, FreshType DEF HandleReplace, Running
<1>10. ASSUME ReplacePrepared PROVE TypeInv'
  <2>1. cmd' \in Executing /\ cmd'.op # "create"
    BY <1>10, FreshType DEF ReplacePrepared, Executing, Idle
  <2>. QED  BY <1>10, <2>1 DEF ReplacePrepared
<1>11. ASSUME ReplaceCommit PROVE TypeInv'
  <2>1. sess' \in Session
    BY <1>11, SessionType DEF ReplaceCommit
  <2>2. cmd' \in Executing /\ cmd'.op # "create"
    BY <1>11, <2>1 DEF ReplaceCommit, Executing
  <2>3. earlier' \subseteq TurnOrNone \X TurnOrNone /\ crossed' = crossed
    BY <1>11, FreshType DEF ReplaceCommit, Lands, Outstanding
  <2>. QED  BY <1>11, <2>1, <2>2, <2>3 DEF ReplaceCommit
<1>12. ASSUME ReplaceResume PROVE TypeInv'
  BY <1>12, ExecutingType, FreshType DEF ReplaceResume, TakeUp, Idle
<1>13. ASSUME HandleStop PROVE TypeInv'
  <2>1. /\ ManagerTypeOK' /\ RecoveryTypeOK' /\ cmd'.op # "create"
    BY <1>13, UnloadedType DEF HandleStop
  <2>2. \A t \in Turn : RuntimeOK(Detached(rt[t]))
    BY SessionType, ZenonT(30) DEF Detached, RuntimeOK, Runtime
  <2>3. RuntimesOK(rt')
    BY <1>13, <2>2 DEF HandleStop, RuntimeOK
  <2>. QED  BY <1>13, <2>1, <2>3 DEF HandleStop
<1>. QED
  BY <1>1, <1>2, <1>3, <1>4, <1>5, <1>6, <1>7, <1>8, <1>9, <1>10, <1>11, <1>12, <1>13
     DEF Handlers

LEMMA HandlerFaultsType == TypeInv /\ HandlerFaults => TypeInv'
<1>. SUFFICES ASSUME TypeInv, HandlerFaults PROVE TypeInv'  OBVIOUS
<1>. USE BoundsAssumption
     DEF TypeInv, TypeOK, RowsTypeOK, ProcessTypeOK, ManagerTypeOK, RecoveryTypeOK,
     RuntimeTypeOK, AnswersTypeOK, RuntimesOK, dbVars, envVars, mgrVars, outVars, Fault
<1>1. ASSUME CreateListFault PROVE TypeInv'
  <2>1. Fail /\ cmd' = Idle /\ rt' = CancelRuntime(rt) /\ Fault
        /\ UNCHANGED <<dbVars, queue, acked, earlier, crossed>>
    BY <1>1 DEF CreateListFault, HandlerFails
  <2>2. RuntimesOK(rt') /\ Idle \in Executing  BY <2>1, CancelType, FreshType
  <2>. QED  BY <2>1, <2>2, FailType DEF Idle
<1>2. ASSUME CancelFault PROVE TypeInv'
  <2>1. queue' \in Seq(Command)  BY <1>2, TakeType DEF CancelFault
  <2>2. RuntimesOK(rt')  BY <1>2, CancelType DEF CancelFault
  <2>3. Fail  BY <1>2 DEF CancelFault
  <2>. QED  BY <1>2, <2>1, <2>2, <2>3, FailType DEF CancelFault
<1>3. ASSUME ReplaceFault PROVE TypeInv'
  <2>1. Fail /\ cmd' = Idle /\ rt' = CancelRuntime(rt) /\ Fault
        /\ UNCHANGED <<dbVars, queue, acked, earlier, crossed>>
    BY <1>3 DEF ReplaceFault, HandlerFails
  <2>2. RuntimesOK(rt') /\ Idle \in Executing  BY <2>1, CancelType, FreshType
  <2>. QED  BY <2>1, <2>2, FailType DEF Idle
<1>. QED  BY <1>1, <1>2, <1>3 DEF HandlerFaults

LEMMA RuntimeStepType ==
  ASSUME TypeInv, NEW t \in Turn,
         RuntimeStep(t) \/ AgentEvent(t) \/ StreamEnds(t) \/ WriteFault(t)
  PROVE  TypeInv'
<1>. USE DEF TypeInv, TypeOK, RowsTypeOK, ProcessTypeOK, ManagerTypeOK, RecoveryTypeOK,
     RuntimeTypeOK, AnswersTypeOK, dbVars, envVars, mgrVars, outVars
<1>1. RuntimeOK(rt[t])  BY DEF RuntimesOK
<1>2. ASSUME NEW r, RuntimeOK(r), rt' = [rt EXCEPT ![t] = r]
      PROVE  RuntimesOK(rt') /\ rt' \in [Turn -> Runtime]
  BY <1>2 DEF RuntimesOK, RuntimeOK
<1>3. \A s \in Session, w \in BOOLEAN : RuntimeOK(Committed(rt[t], s, w))
  BY <1>1, RuntimeType
<1>4. ASSUME Lands(t)
      PROVE  earlier' \subseteq TurnOrNone \X TurnOrNone /\ crossed' = crossed
  BY <1>4, FreshType DEF Lands, Outstanding
<1>5. RuntimeOK(Taken(rt[t])) /\ rt[t].snap \in Session
  BY <1>1, RuntimeType DEF RuntimeOK, Runtime
<1>6. ASSUME TakeUp(t), Refresh(t)
      PROVE  /\ earlier' \subseteq TurnOrNone \X TurnOrNone /\ crossed' \in BOOLEAN
             /\ cache' \in Session
  BY <1>5, <1>6 DEF TakeUp, Refresh
<1>7. ASSUME BeginCommit(t) PROVE TypeInv'
  <2>1. sess' \in Session  BY <1>7, SessionType DEF BeginCommit
  <2>2. RuntimesOK(rt') /\ rt' \in [Turn -> Runtime]
    BY <1>2, <1>3, <1>7, <2>1 DEF BeginCommit
  <2>. QED  BY <1>4, <1>7, <2>1, <2>2 DEF BeginCommit
<1>8. ASSUME EventCommit(t) PROVE TypeInv'
  <2>1. RuntimesOK(rt') /\ rt' \in [Turn -> Runtime]
    BY <1>2, <1>3, <1>8 DEF EventCommit
  <2>. QED  BY <1>4, <1>8, <2>1 DEF EventCommit
<1>9. ASSUME FinishCommit(t) PROVE TypeInv'
  <2>1. sess' \in Session  BY <1>9, SessionType DEF FinishCommit
  <2>2. Unfinished(t) \in BOOLEAN  BY DEF Unfinished
  <2>3. RuntimesOK(rt') /\ rt' \in [Turn -> Runtime]
    BY <1>2, <1>3, <1>9, <2>1, <2>2 DEF FinishCommit
  <2>4. turnRow' \in [Turn -> {"none", "in_progress"} \cup Terminal]
    BY <1>1, <1>9 DEF FinishCommit, RuntimeOK
  <2>. QED  BY <1>4, <1>9, <2>1, <2>3, <2>4 DEF FinishCommit
<1>10. ASSUME BeginResume(t) PROVE TypeInv'
  <2>1. RuntimeOK(Began(Taken(rt[t])))  BY <1>5, RuntimeType
  <2>2. RuntimesOK(rt') /\ rt' \in [Turn -> Runtime]
    BY <1>2, <1>10, <2>1 DEF BeginResume
  <2>. QED  BY <1>6, <1>10, <2>2 DEF BeginResume
<1>11. ASSUME EventResume(t) PROVE TypeInv'
  <2>1. RuntimesOK(rt') /\ rt' \in [Turn -> Runtime]
    BY <1>2, <1>5, <1>11 DEF EventResume
  <2>. QED  BY <1>6, <1>11, <2>1 DEF EventResume
<1>12. ASSUME FinishResume(t) PROVE TypeInv'
  <2>1. RuntimeOK(Closed(Taken(rt[t])))  BY <1>5, RuntimeType
  <2>2. RuntimesOK(rt') /\ rt' \in [Turn -> Runtime]
    BY <1>2, <1>12, <2>1 DEF FinishResume
  <2>3. told' \subseteq Turn \X Terminal
    BY <1>1, <1>12 DEF FinishResume, RuntimeOK
  <2>4. /\ current' \in TurnOrNone /\ pending' \in TurnOrNone
        /\ cmd' \in Executing /\ (cmd'.op = "create" => cmd'.turn \in Turn)
    BY <1>12, FreshType DEF FinishResume, Idle
  <2>. QED  BY <1>6, <1>12, <2>2, <2>3, <2>4 DEF FinishResume
<1>13. ASSUME AgentEvent(t) PROVE TypeInv'
  <2>1. RuntimeOK([rt[t] EXCEPT !.io = "asked"])  BY <1>1, RuntimeType
  <2>2. RuntimesOK(rt') /\ rt' \in [Turn -> Runtime]
    BY <1>2, <1>13, <2>1 DEF AgentEvent
  <2>. QED  BY <1>13, <2>2 DEF AgentEvent
<1>14. ASSUME StreamEnds(t) PROVE TypeInv'
  <2>1. PICK s \in Terminal : rt' = [rt EXCEPT ![t] = Finishing(rt[t], s)]
    BY <1>14 DEF StreamEnds, Terminal
  <2>2. RuntimeOK(Finishing(rt[t], s))  BY <1>1, RuntimeType
  <2>3. RuntimesOK(rt') /\ rt' \in [Turn -> Runtime]
    BY <1>2, <2>1, <2>2
  <2>. QED  BY <1>14, <2>3 DEF StreamEnds
<1>15. ASSUME WriteFault(t) PROVE TypeInv'
  <2>1. ProcessTypeOK'  BY <1>15, BoundsAssumption DEF WriteFault, Fault
  <2>2. CASE rt[t].own
    <3>1. RuntimesOK([rt EXCEPT ![t] = AfterFault(rt[t])])
      BY <1>1, RuntimeType DEF RuntimesOK, RuntimeOK
    <3>2. RuntimesOK(rt')  BY <1>15, <2>2, <3>1, CancelType DEF WriteFault
    <3>3. cmd' \in Executing /\ (cmd'.op = "create" => cmd'.turn \in Turn)
      BY <1>15, <2>2, FreshType DEF WriteFault, AfterAnswer, Idle
    <3>4. Fail  BY <1>15, <2>2 DEF WriteFault
    <3>5. rt' \in [Turn -> Runtime]  BY <3>2 DEF RuntimesOK
    <3>. QED
      BY <1>15, <2>1, <2>2, <3>2, <3>3, <3>4, <3>5, FailType DEF WriteFault
  <2>3. CASE ~rt[t].own
    <3>1. RuntimeOK([AfterFault(rt[t]) EXCEPT !.other = NoTurn])
      BY <1>1, RuntimeType
    <3>2. RuntimesOK(rt') /\ rt' \in [Turn -> Runtime]
      BY <1>2, <1>15, <2>3, <3>1 DEF WriteFault
    <3>3. rt[t].other \in TurnOrNone  BY <1>1 DEF RuntimeOK, Runtime
    <3>4. RecoveryTypeOK'
      BY <1>15, <2>3, <3>3, SpawnType DEF WriteFault
    <3>. QED  BY <1>15, <2>1, <2>3, <3>2, <3>4 DEF WriteFault
  <2>. QED  BY <2>2, <2>3
<1>. QED
  BY <1>7, <1>8, <1>9, <1>10, <1>11, <1>12, <1>13, <1>14, <1>15 DEF RuntimeStep

LEMMA RecoveriesType ==
  ASSUME TypeInv, NEW i \in DOMAIN recoveries, RecoveryCommit(i) \/ RecoveryFault(i)
  PROVE  TypeInv'
<1>. USE DEF TypeInv, TypeOK, RowsTypeOK, ProcessTypeOK, ManagerTypeOK,
     RuntimeTypeOK, AnswersTypeOK, dbVars, envVars, mgrVars, outVars
<1>1. RecoveryTypeOK'
  BY RecoveryType DEF RecoveryCommit, RecoveryFault
<1>2. CASE RecoveryCommit(i)
  <2>1. sess' \in Session  BY <1>2, SessionType DEF RecoveryCommit
  <2>2. turnRow' \in [Turn -> {"none", "in_progress"} \cup Terminal]
    BY <1>2 DEF RecoveryCommit, Terminal
  <2>. QED  BY <1>1, <1>2, <2>1, <2>2 DEF RecoveryCommit
<1>3. CASE RecoveryFault(i)
  BY <1>1, <1>3, BoundsAssumption DEF RecoveryFault, Fault
<1>. QED  BY <1>2, <1>3

LEMMA RegistryType == TypeInv /\ Registry => TypeInv'
<1>. SUFFICES ASSUME TypeInv, Registry PROVE TypeInv'  OBVIOUS
<1>. USE DEF TypeInv, TypeOK, RowsTypeOK, ProcessTypeOK, ManagerTypeOK, RecoveryTypeOK,
     RuntimeTypeOK, AnswersTypeOK, dbVars, envVars, mgrVars, outVars
<1>1. ASSUME LoadRead PROVE TypeInv'  BY <1>1 DEF LoadRead
<1>2. ASSUME LoadReady PROVE TypeInv'  BY <1>2 DEF LoadReady
<1>3. ASSUME EvictIdle PROVE TypeInv'  BY <1>3, FreshType DEF EvictIdle
<1>4. ASSUME Shutdown PROVE TypeInv'
  <2>1. RuntimesOK(rt')
    BY <1>4, CancelType DEF Shutdown
  <2>2. rt' \in [Turn -> Runtime]  BY <2>1 DEF RuntimesOK
  <2>3. mgr' \in {"absent", "loading", "ready", "closing", "stopping"} /\ awaited' \in TurnOrNone
    BY <1>4, FreshType DEF Shutdown
  <2>. QED  BY <1>4, <2>1, <2>2, <2>3 DEF Shutdown
<1>5. ASSUME CloseWaited PROVE TypeInv'
  <2>1. [op |-> "stop", turn |-> NoTurn] \in Command  BY FreshType DEF Command
  <2>2. Append(queue, [op |-> "stop", turn |-> NoTurn]) \in Seq(Command)
    BY <2>1, AppendProperties
  <2>. QED  BY <1>5, <2>2 DEF CloseWaited
<1>6. ASSUME Die PROVE RuntimesOK(rt') /\ ManagerTypeOK' /\ RecoveryTypeOK'
                       /\ earlier' = {} /\ crossed' = crossed /\ cmd'.op # "create"
  <2>1. RuntimesOK(rt')  BY <1>6, FreshType DEF Die, RuntimesOK, RuntimeOK
  <2>2. recoveries' \in Seq(Recovery)  BY <1>6 DEF Die
  <2>. QED  BY <1>6, <2>1, <2>2, UnloadedType DEF Die
<1>7. ASSUME Exit PROVE TypeInv'
  BY <1>6, <1>7 DEF Exit, Die, RuntimesOK
<1>8. ASSUME Crash PROVE TypeInv'
  <2>1. ProcessTypeOK'  BY <1>8, BoundsAssumption DEF Crash, Die
  <2>. QED  BY <1>6, <1>8, <2>1 DEF Crash, Die, RuntimesOK
<1>9. ASSUME Restart PROVE TypeInv'
  BY <1>9, SessionType DEF Restart, Terminal
<1>. QED
  BY <1>1, <1>2, <1>3, <1>4, <1>5, <1>7, <1>8, <1>9 DEF Registry

LEMMA TypeStep == TypeInv /\ [Next]_vars => TypeInv'
<1>1. ASSUME TypeInv, UNCHANGED vars PROVE TypeInv'
  BY <1>1 DEF vars, dbVars, envVars, mgrVars, outVars, TypeInv, TypeOK, RowsTypeOK,
    ProcessTypeOK, ManagerTypeOK, RecoveryTypeOK, RuntimeTypeOK, AnswersTypeOK
<1>. QED
  BY <1>1, ClientsType, HandlersType, HandlerFaultsType, RuntimeStepType, RecoveriesType,
     RegistryType DEF Next

(* Every variable of a session keeps its type, whatever the order of its   *)
(* handlers, threads, faults and crashes.                                  *)
THEOREM SessionTypeSafety == Spec => []TypeOK
<1>1. TypeInv => TypeOK  BY DEF TypeInv
<1>. QED  BY <1>1, InitType, TypeStep, PTL DEF Spec

-----------------------------------------------------------------------------
(* What a runtime, a running command and the answers given so far say of   *)
(* the rows of the turns.  A runtime may still take up a result when its   *)
(* row has been settled by a recovery, so the facts are one-sided.         *)
Matches(r, row) ==
  /\ r.step = "unborn" => row = "none"
  /\ r.step = "begin" /\ r.io = "asked" => row = "none"
  /\ r.step = "begin" /\ r.io = "committed" => row # "none"
  /\ r.begun = "ok" => row # "none"
  /\ r.won => r.step = "finish" /\ r.io = "committed" /\ row = r.status

RuntimesMatchRows == \A t \in Turn : Matches(rt[t], turnRow[t])

CommandMatchesRow == cmd.op = "create" /\ cmd.stage = "list" => turnRow[cmd.turn] # "none"

RowInv ==
  /\ TypeInv
  /\ RuntimesMatchRows
  /\ CommandMatchesRow
  /\ AckedTurnIsDurable
  /\ RepliedStatusIsFinal

(* Rows only move forward.                                                 *)
RowsAdvance ==
  \A t \in Turn :
    /\ turnRow[t] # "none" => turnRow'[t] # "none"
    /\ turnRow[t] \in Terminal => turnRow'[t] = turnRow[t]

SameProgress(f, g) ==
  \A t \in Turn :
    /\ g[t].step = f[t].step /\ g[t].io = f[t].io /\ g[t].begun = f[t].begun
    /\ g[t].won = f[t].won /\ g[t].status = f[t].status

LEMMA InitRow == Init => RowInv
<1>. SUFFICES ASSUME Init PROVE RowInv  OBVIOUS
<1>1. RuntimesMatchRows
  BY DEF Init, Unborn, RuntimesMatchRows, Matches
<1>. QED
  BY <1>1, InitType
     DEF Init, RowInv, CommandMatchesRow, Idle, AckedTurnIsDurable, RepliedStatusIsFinal

(* What each transformer of a runtime keeps.                              *)
LEMMA TransformersMatch ==
  ASSUME NEW r \in Runtime, NEW row, Matches(r, row)
  PROVE  /\ r.step # "begin" => \A s \in Session : Matches(Committed(r, s, FALSE), row)
         /\ Matches(Taken(r), row) \/ r.step \in {"unborn", "begin"}
         /\ row # "none" => Matches(Began(Taken(r)), row)
         /\ Matches(Closed(Taken(r)), row)
         /\ ~r.won => /\ Matches(AfterFault(r), row)
                      /\ \A s \in Terminal : Matches(Finishing(r, s), row)
<1>. USE DEF Runtime, Matches
<1>1. r.step # "begin" => \A s \in Session : Matches(Committed(r, s, FALSE), row)
  BY DEF Committed
<1>2. Matches(Taken(r), row) \/ r.step \in {"unborn", "begin"}
  BY DEF Taken
<1>3. row # "none" => Matches(Began(Taken(r)), row)
  BY DEF Taken, Began, Finishing
<1>4. Matches(Closed(Taken(r)), row)
  BY DEF Taken, Closed
<1>5. ~r.won => \A s \in Terminal : Matches(Finishing(r, s), row)
  BY DEF Finishing
<1>6. ~r.won => Matches(AfterFault(r), row)
  BY DEF Finishing, Closed, AfterFault
<1>. QED  BY <1>1, <1>2, <1>3, <1>4, <1>5, <1>6

LEMMA CommitMatches ==
  ASSUME NEW r \in Runtime, NEW row, NEW s \in Session, Matches(r, row)
  PROVE  /\ r.step = "begin" => Matches(Committed(r, s, FALSE), "in_progress")
         /\ r.step = "finish" => \A x \in Terminal :
              x = r.status => Matches(Committed(r, s, TRUE), x)
  BY DEF Runtime, Matches, Committed, Terminal

LEMMA CancelKeepsProgress ==
  ASSUME NEW f, f \in [Turn -> Runtime], current \in TurnOrNone
  PROVE  SameProgress(f, CancelRuntime(f))
<1>1. CASE current = NoTurn  BY <1>1 DEF CancelRuntime, SameProgress
<1>2. CASE current # NoTurn
  <2>1. CancelRuntime(f) = [f EXCEPT ![current] = Cancelled(f[current])] /\ current \in Turn
    BY <1>2 DEF CancelRuntime, TurnOrNone
  <2>2. f[current] \in Runtime  BY <2>1
  <2>3. /\ Cancelled(f[current]).step = f[current].step
        /\ Cancelled(f[current]).io = f[current].io
        /\ Cancelled(f[current]).begun = f[current].begun
        /\ Cancelled(f[current]).won = f[current].won
        /\ Cancelled(f[current]).status = f[current].status
    BY <2>2 DEF Cancelled, Runtime
  <2>. QED  BY <2>1, <2>3 DEF SameProgress
<1>. QED  BY <1>1, <1>2

(* The steps that neither write a row nor move a runtime on.               *)
LEMMA QuietHandlers ==
  ASSUME TypeInv, Handlers \/ HandlerFaults
  PROVE  /\ turnRow' = turnRow
         /\ (\E t \in Turn : HandleCreate(t)) \/ SameProgress(rt, rt')
<1>. USE DEF dbVars, envVars, mgrVars, outVars
<1>1. rt \in [Turn -> Runtime] /\ current \in TurnOrNone
  BY DEF TypeInv, TypeOK, RuntimeTypeOK, ManagerTypeOK
<1>2. SameProgress(rt, CancelRuntime(rt)) /\ SameProgress(rt, rt)
  BY <1>1, CancelKeepsProgress DEF SameProgress
<1>3. ASSUME HandleStop PROVE turnRow' = turnRow /\ SameProgress(rt, rt')
  <2>1. ASSUME NEW t \in Turn
        PROVE  /\ Detached(rt[t]).step = rt[t].step /\ Detached(rt[t]).io = rt[t].io
               /\ Detached(rt[t]).begun = rt[t].begun /\ Detached(rt[t]).won = rt[t].won
               /\ Detached(rt[t]).status = rt[t].status
    BY <1>1 DEF Detached, Runtime
  <2>. QED  BY <1>3, <2>1 DEF HandleStop, SameProgress
<1>4. ASSUME HandlerFaults PROVE turnRow' = turnRow /\ SameProgress(rt, rt')
  BY <1>2, <1>4 DEF HandlerFaults, CreateListFault, CancelFault, ReplaceFault, HandlerFails
<1>5. ASSUME CreateBeginError \/ \E t \in Turn : HandleCancel(t)
      PROVE  turnRow' = turnRow /\ SameProgress(rt, rt')
  BY <1>2, <1>5 DEF CreateBeginError, HandlerFails, HandleCancel
<1>6. ASSUME \/ RejectBroken \/ CreateConflict \/ CreateBegun \/ CreateAnswered
             \/ HandleReplace \/ ReplacePrepared \/ ReplaceCommit \/ ReplaceResume
             \/ \E t \in Turn : CancelSettled(t)
      PROVE  turnRow' = turnRow /\ rt' = rt
  BY <1>6 DEF RejectBroken, CreateConflict, CreateBegun, CreateAnswered, HandleReplace,
    ReplacePrepared, ReplaceCommit, ReplaceResume, CancelSettled
<1>7. ASSUME NEW t \in Turn, HandleCreate(t) PROVE turnRow' = turnRow
  BY <1>7 DEF HandleCreate
<1>. QED  BY <1>2, <1>3, <1>4, <1>5, <1>6, <1>7 DEF Handlers

LEMMA QuietRegistry ==
  ASSUME TypeInv, Registry
  PROVE  \/ turnRow' = turnRow /\ SameProgress(rt, rt')
         \/ Exit \/ Crash \/ Restart
<1>. USE DEF dbVars, envVars, mgrVars, outVars
<1>1. rt \in [Turn -> Runtime] /\ current \in TurnOrNone
  BY DEF TypeInv, TypeOK, RuntimeTypeOK, ManagerTypeOK
<1>2. SameProgress(rt, CancelRuntime(rt)) /\ SameProgress(rt, rt)
  BY <1>1, CancelKeepsProgress DEF SameProgress
<1>3. ASSUME Shutdown PROVE turnRow' = turnRow /\ SameProgress(rt, rt')
  BY <1>2, <1>3 DEF Shutdown
<1>4. ASSUME LoadRead \/ LoadReady \/ EvictIdle \/ CloseWaited
      PROVE  turnRow' = turnRow /\ rt' = rt
  BY <1>4 DEF LoadRead, LoadReady, EvictIdle, CloseWaited
<1>. QED  BY <1>2, <1>3, <1>4 DEF Registry

(* A step of a runtime: its own fields follow its row.                     *)
LEMMA RuntimeStepRow ==
  ASSUME RowInv, NEW t \in Turn,
         RuntimeStep(t) \/ AgentEvent(t) \/ StreamEnds(t) \/ WriteFault(t)
  PROVE  RowsAdvance /\ RuntimesMatchRows'
<1>. USE DEF dbVars, envVars, mgrVars, outVars
<1>1. /\ rt \in [Turn -> Runtime] /\ rt[t] \in Runtime /\ sess \in Session
      /\ turnRow \in [Turn -> {"none", "in_progress"} \cup Terminal]
      /\ current \in TurnOrNone
      /\ rt[t].step = "finish" => rt[t].status \in Terminal
      /\ RuntimesMatchRows
  BY DEF RowInv, TypeInv, TypeOK, RowsTypeOK, RuntimeTypeOK, ManagerTypeOK, RuntimesOK, RuntimeOK
<1>2. Matches(rt[t], turnRow[t])  BY <1>1 DEF RuntimesMatchRows
<1>3. ASSUME NEW r, Matches(r, turnRow'[t]), rt' = [rt EXCEPT ![t] = r],
             \A u \in Turn \ {t} : turnRow'[u] = turnRow[u]
      PROVE  RuntimesMatchRows'
  BY <1>1, <1>3 DEF RuntimesMatchRows
<1>4. ASSUME BeginCommit(t) PROVE RowsAdvance /\ RuntimesMatchRows'
  <2>1. turnRow[t] = "none" /\ turnRow'[t] = "in_progress"
    BY <1>1, <1>2, <1>4 DEF BeginCommit, Matches
  <2>2. RowsAdvance  BY <1>1, <1>4, <2>1 DEF BeginCommit, RowsAdvance, Terminal
  <2>3. Matches(Committed(rt[t], sess', FALSE), turnRow'[t])
    <3>1. sess' \in Session  BY <1>1, <1>4, SessionType DEF BeginCommit
    <3>. QED  BY <1>1, <1>2, <1>4, <2>1, <3>1, CommitMatches DEF BeginCommit
  <2>. QED  BY <1>1, <1>3, <1>4, <2>2, <2>3 DEF BeginCommit
<1>5. ASSUME EventCommit(t) PROVE RowsAdvance /\ RuntimesMatchRows'
  <2>1. Matches(Committed(rt[t], sess, FALSE), turnRow[t])
    BY <1>1, <1>2, <1>5, TransformersMatch DEF EventCommit
  <2>. QED  BY <1>3, <1>5, <2>1 DEF EventCommit, RowsAdvance
<1>6. ASSUME FinishCommit(t) PROVE RowsAdvance /\ RuntimesMatchRows'
  <2>1. RowsAdvance
    BY <1>1, <1>6 DEF FinishCommit, RowsAdvance, Unfinished, Terminal
  <2>3. sess' \in Session  BY <1>1, <1>6, SessionType DEF FinishCommit
  <2>4. rt[t].step = "finish"  BY <1>6 DEF FinishCommit
  <2>5. CASE Unfinished(t)
    <3>1. turnRow'[t] = rt[t].status  BY <1>1, <1>6, <2>5 DEF FinishCommit
    <3>2. Matches(Committed(rt[t], sess', TRUE), turnRow'[t])
      BY <1>1, <1>2, <2>3, <2>4, <3>1, CommitMatches
    <3>3. rt' = [rt EXCEPT ![t] = Committed(rt[t], sess', TRUE)]
      <4>1. Unfinished(t) = TRUE  BY <2>5 DEF Unfinished
      <4>. QED  BY <1>6, <4>1 DEF FinishCommit
    <3>. QED  BY <1>1, <1>3, <1>6, <2>1, <3>2, <3>3 DEF FinishCommit
  <2>6. CASE ~Unfinished(t)
    <3>1. turnRow' = turnRow  BY <1>6, <2>6 DEF FinishCommit
    <3>2. Matches(Committed(rt[t], sess', FALSE), turnRow'[t])
      BY <1>1, <1>2, <2>3, <2>4, <3>1, TransformersMatch
    <3>3. rt' = [rt EXCEPT ![t] = Committed(rt[t], sess', FALSE)]
      <4>1. Unfinished(t) = FALSE  BY <2>6 DEF Unfinished
      <4>. QED  BY <1>6, <4>1 DEF FinishCommit
    <3>. QED  BY <1>3, <2>1, <3>1, <3>2, <3>3
  <2>. QED  BY <2>5, <2>6
<1>8. ASSUME BeginResume(t) PROVE RowsAdvance /\ RuntimesMatchRows'
  <2>1. turnRow[t] # "none"  BY <1>2, <1>8 DEF BeginResume, Matches
  <2>2. Matches(Began(Taken(rt[t])), turnRow[t])
    BY <1>1, <1>2, <2>1, TransformersMatch
  <2>. QED  BY <1>3, <1>8, <2>2 DEF BeginResume, RowsAdvance
<1>9. ASSUME EventResume(t) PROVE RowsAdvance /\ RuntimesMatchRows'
  <2>1. Matches(Taken(rt[t]), turnRow[t])
    BY <1>1, <1>2, <1>9, TransformersMatch DEF EventResume
  <2>. QED  BY <1>3, <1>9, <2>1 DEF EventResume, RowsAdvance
<1>10. ASSUME FinishResume(t) PROVE RowsAdvance /\ RuntimesMatchRows'
  <2>1. Matches(Closed(Taken(rt[t])), turnRow[t])
    BY <1>1, <1>2, TransformersMatch
  <2>. QED  BY <1>3, <1>10, <2>1 DEF FinishResume, RowsAdvance
<1>11. ASSUME AgentEvent(t) PROVE RowsAdvance /\ RuntimesMatchRows'
  <2>1. Matches([rt[t] EXCEPT !.io = "asked"], turnRow[t])
    BY <1>1, <1>2, <1>11 DEF AgentEvent, Matches, Runtime
  <2>. QED  BY <1>3, <1>11, <2>1 DEF AgentEvent, RowsAdvance
<1>12. ASSUME StreamEnds(t) PROVE RowsAdvance /\ RuntimesMatchRows'
  <2>1. PICK s \in Terminal : rt' = [rt EXCEPT ![t] = Finishing(rt[t], s)]
    BY <1>12 DEF StreamEnds, Terminal
  <2>2. ~rt[t].won  BY <1>2, <1>12 DEF StreamEnds, Matches
  <2>3. Matches(Finishing(rt[t], s), turnRow[t])
    BY <1>1, <1>2, <2>2, TransformersMatch
  <2>. QED  BY <1>3, <1>12, <2>1, <2>3 DEF StreamEnds, RowsAdvance
<1>13. ASSUME WriteFault(t) PROVE RowsAdvance /\ RuntimesMatchRows'
  <2>. DEFINE f == [rt EXCEPT ![t] = AfterFault(rt[t])]
              o == [AfterFault(rt[t]) EXCEPT !.other = NoTurn]
  <2>1. turnRow' = turnRow /\ rt[t].io = "asked"  BY <1>13 DEF WriteFault
  <2>2. ~rt[t].won  BY <1>2, <2>1 DEF Matches
  <2>3. AfterFault(rt[t]) \in Runtime  BY <1>1, RuntimeType DEF RuntimeOK
  <2>4. Matches(AfterFault(rt[t]), turnRow[t])
    BY <1>1, <1>2, <2>2, TransformersMatch
  <2>5. CASE rt' = CancelRuntime(f)
    <3>1. f \in [Turn -> Runtime] /\ \A u \in Turn : Matches(f[u], turnRow[u])
      BY <1>1, <2>3, <2>4 DEF RuntimesMatchRows
    <3>2. SameProgress(f, rt')
      BY <1>1, <2>5, <3>1, CancelKeepsProgress
    <3>. HIDE DEF f
    <3>. QED
      BY <2>1, <3>1, <3>2 DEF SameProgress, RowsAdvance, RuntimesMatchRows, Matches
  <2>6. CASE rt' = [rt EXCEPT ![t] = o]
    <3>1. Matches(o, turnRow[t])
      BY <2>3, <2>4 DEF Matches, Runtime
    <3>. HIDE DEF o
    <3>. QED  BY <1>3, <2>1, <2>6, <3>1 DEF RowsAdvance
  <2>. QED  BY <1>13, <2>5, <2>6 DEF WriteFault
<1>. QED
  BY <1>4, <1>5, <1>6, <1>8, <1>9, <1>10, <1>11, <1>12, <1>13 DEF RuntimeStep

(* Any step.                                                               *)
LEMMA RowStep ==
  ASSUME RowInv, [Next]_vars
  PROVE  RowsAdvance /\ RuntimesMatchRows'
<1>. USE DEF dbVars, envVars, mgrVars, outVars
<1>1. /\ TypeInv /\ rt \in [Turn -> Runtime]
      /\ turnRow \in [Turn -> {"none", "in_progress"} \cup Terminal]
      /\ RuntimesMatchRows
  BY DEF RowInv, TypeInv, TypeOK, RowsTypeOK, RuntimeTypeOK
<1>2. ASSUME turnRow' = turnRow, SameProgress(rt, rt')
      PROVE  RowsAdvance /\ RuntimesMatchRows'
  BY <1>1, <1>2 DEF RowsAdvance, SameProgress, RuntimesMatchRows, Matches
<1>3. ASSUME NEW t \in Turn, HandleCreate(t)
      PROVE  RowsAdvance /\ RuntimesMatchRows'
  <2>1. Started.step = "begin" /\ Started.io = "asked" /\ Started.begun = "no" /\ ~Started.won
    BY DEF Started, Unborn
  <2>. QED
    BY <1>1, <1>3, <2>1 DEF HandleCreate, RowsAdvance, RuntimesMatchRows, Matches
<1>4. ASSUME Exit \/ Crash
      PROVE  RowsAdvance /\ RuntimesMatchRows'
  <2>. DEFINE d == [Unborn EXCEPT !.step = "closed"]
  <2>1. d.step = "closed" /\ d.begun = "no" /\ ~d.won  BY DEF Unborn
  <2>2. /\ turnRow' = turnRow
        /\ rt' = [t \in Turn |-> IF Live(t) THEN d ELSE rt[t]]
    BY <1>4 DEF Exit, Crash, Die
  <2>. HIDE DEF d
  <2>. QED  BY <1>1, <2>1, <2>2 DEF RowsAdvance, RuntimesMatchRows, Matches
<1>8. \A u \in Turn : rt[u].step = "finish" => rt[u].status \in Terminal
  BY DEF RowInv, TypeInv, RuntimesOK, RuntimeOK
<1>5. ASSUME Restart
      PROVE  RowsAdvance /\ RuntimesMatchRows'
  BY <1>1, <1>5, <1>8 DEF Restart, Unfinished, RowsAdvance, RuntimesMatchRows, Matches, Terminal
<1>6. ASSUME NEW i \in DOMAIN recoveries, RecoveryCommit(i)
      PROVE  RowsAdvance /\ RuntimesMatchRows'
  BY <1>1, <1>6, <1>8 DEF RecoveryCommit, Unfinished, RowsAdvance, RuntimesMatchRows, Matches, Terminal
<1>7. ASSUME \/ Clients \/ UNCHANGED vars
             \/ \E i \in DOMAIN recoveries : RecoveryFault(i)
      PROVE  turnRow' = turnRow /\ SameProgress(rt, rt')
  BY <1>7 DEF Clients, SubmitCreate, SubmitCancel, SubmitReplace, Submit, RecoveryFault,
    vars, SameProgress
<1>. QED
  BY <1>1, <1>2, <1>3, <1>4, <1>5, <1>6, <1>7, QuietHandlers, QuietRegistry, RuntimeStepRow
     DEF Next

(* The running command, the acknowledgements and the answers to cancels    *)
(* change in few ways.                                                     *)
Answering ==
  /\ cmd' = cmd \/ cmd'.op # "create" \/ cmd'.stage # "list" \/ CreateBegun
  /\ acked' = acked \/ CreateAnswered
  /\ \/ told' = told
     \/ told' = told \cup {<<pending, "failed">>}
     \/ \E t \in Turn : CancelSettled(t) \/ FinishResume(t)

LEMMA FailAnswers ==
  ASSUME Fail
  PROVE  told' = told \/ told' = told \cup {<<pending, "failed">>}
  BY DEF Fail

LEMMA HandlersAnswering ==
  ASSUME TypeInv, Handlers \/ HandlerFaults
  PROVE  Answering
<1>. USE FailAnswers DEF Answering, dbVars, envVars, mgrVars, outVars
<1>1. ASSUME \/ RejectBroken \/ CreateConflict \/ CreateBegun \/ CreateAnswered
             \/ ReplaceResume
             \/ \E t \in Turn : CancelSettled(t)
      PROVE  Answering
  BY <1>1 DEF RejectBroken, CreateConflict, CreateBegun, CreateAnswered, ReplaceResume,
    CancelSettled, Idle
<1>2. ASSUME CreateBeginError \/ HandlerFaults PROVE Answering
  BY <1>2 DEF CreateBeginError, HandlerFaults, CreateListFault, CancelFault, ReplaceFault,
    HandlerFails, Idle
<1>3. ASSUME NEW t \in Turn, HandleCreate(t) \/ HandleCancel(t) PROVE Answering
  BY <1>3 DEF HandleCreate, HandleCancel, Running
<1>4. ASSUME HandleReplace PROVE Answering
  BY <1>4 DEF HandleReplace, Running
<1>5. ASSUME HandleStop PROVE Answering
  BY <1>5 DEF HandleStop, Unloaded, Idle
<1>6. ASSUME ReplacePrepared \/ ReplaceCommit PROVE Answering
  <2>1. cmd \in Executing /\ cmd.op = "replace"
    BY <1>6 DEF ReplacePrepared, ReplaceCommit, TypeInv, TypeOK, ManagerTypeOK
  <2>2. [cmd EXCEPT !.stage = "asked"].op = "replace"  BY <2>1 DEF Executing
  <2>3. CASE ReplacePrepared
    <3>1. cmd' = Idle \/ cmd' = [cmd EXCEPT !.stage = "asked"]
      BY <2>3 DEF ReplacePrepared
    <3>2. Idle.op = "none"  BY DEF Idle
    <3>3. CASE cmd' = Idle  BY <2>3, <3>2, <3>3 DEF ReplacePrepared
    <3>4. CASE cmd' = [cmd EXCEPT !.stage = "asked"]
      <4>1. cmd'.op = "replace"  BY <2>2, <3>4
      <4>. QED  BY <2>3, <4>1 DEF ReplacePrepared
    <3>. QED  BY <3>1, <3>3, <3>4
  <2>4. CASE ReplaceCommit
    <3>1. cmd' = [cmd EXCEPT !.stage = "committed", !.snap = sess']
      BY <2>4 DEF ReplaceCommit
    <3>2. cmd'.op = "replace"  BY <2>1, <3>1 DEF Executing
    <3>. QED  BY <2>4, <3>2 DEF ReplaceCommit
  <2>. QED  BY <1>6, <2>3, <2>4
<1>. QED
  BY <1>1, <1>2, <1>3, <1>4, <1>5, <1>6 DEF Handlers

LEMMA NextAnswering ==
  ASSUME [Next]_vars, TypeInv
  PROVE  Answering
<1>. USE DEF Answering, dbVars, envVars, mgrVars, outVars
<1>1. ASSUME Registry PROVE Answering
  BY <1>1 DEF Registry, LoadRead, LoadReady, EvictIdle, Shutdown, CloseWaited, Exit, Crash,
    Die, Unloaded, Restart, Idle
<1>2. ASSUME NEW t \in Turn,
             RuntimeStep(t) \/ AgentEvent(t) \/ StreamEnds(t)
      PROVE  Answering
  <2>1. CASE FinishResume(t)
    <3>1. cmd' = cmd \/ cmd'.op # "create"  BY <2>1 DEF FinishResume, Idle
    <3>2. acked' = acked  BY <2>1 DEF FinishResume
    <3>. QED  BY <2>1, <3>1, <3>2
  <2>2. CASE BeginCommit(t) \/ EventCommit(t) \/ FinishCommit(t) \/ BeginResume(t)
             \/ EventResume(t) \/ AgentEvent(t) \/ StreamEnds(t)
    BY <2>2 DEF BeginCommit, EventCommit, FinishCommit, BeginResume, EventResume,
      AgentEvent, StreamEnds
  <2>. QED  BY <1>2, <2>1, <2>2 DEF RuntimeStep
<1>3. ASSUME NEW t \in Turn, WriteFault(t) PROVE Answering
  BY <1>3, FailAnswers DEF WriteFault, AfterAnswer, Idle
<1>4. ASSUME \/ Clients \/ UNCHANGED vars
             \/ \E i \in DOMAIN recoveries : RecoveryCommit(i) \/ RecoveryFault(i)
      PROVE  Answering
  BY <1>4 DEF Clients, SubmitCreate, SubmitCancel, SubmitReplace, Submit, RecoveryCommit,
    RecoveryFault, vars
<1>. QED  BY <1>1, <1>2, <1>3, <1>4, HandlersAnswering DEF Next

LEMMA RowInvStep == RowInv /\ [Next]_vars => RowInv'
<1>. SUFFICES ASSUME RowInv, [Next]_vars PROVE RowInv'  OBVIOUS
<1>1. TypeInv /\ TypeInv' /\ RowsAdvance /\ RuntimesMatchRows' /\ Answering
  BY TypeStep, RowStep, NextAnswering DEF RowInv
<1>2. /\ RuntimesMatchRows /\ CommandMatchesRow /\ AckedTurnIsDurable /\ RepliedStatusIsFinal
  BY DEF RowInv
<1>3. cmd.op = "create" => cmd.turn \in Turn  BY <1>1 DEF TypeInv
<1>4. /\ acked \subseteq Turn /\ told \subseteq Turn \X Terminal
  BY <1>1 DEF TypeInv, TypeOK, AnswersTypeOK
<1>5. CommandMatchesRow'
  <2>1. CASE cmd' = cmd
    BY <1>1, <1>2, <1>3, <2>1 DEF CommandMatchesRow, RowsAdvance
  <2>2. CASE CreateBegun
    <3>1. cmd'.turn = cmd.turn /\ cmd.turn \in Turn
      BY <1>1, <1>3, <2>2 DEF CreateBegun, TypeInv, TypeOK, ManagerTypeOK, Executing
    <3>2. turnRow[cmd.turn] # "none"
      BY <1>2, <2>2, <3>1 DEF CreateBegun, RuntimesMatchRows, Matches
    <3>. QED  BY <1>1, <3>1, <3>2 DEF CommandMatchesRow, RowsAdvance
  <2>. QED  BY <1>1, <2>1, <2>2 DEF Answering, CommandMatchesRow
<1>6. AckedTurnIsDurable'
  <2>1. CASE acked' = acked
    BY <1>1, <1>2, <1>4, <2>1 DEF AckedTurnIsDurable, RowsAdvance
  <2>2. CASE CreateAnswered
    <3>1. acked' = acked \cup {cmd.turn} /\ cmd.turn \in Turn /\ turnRow[cmd.turn] # "none"
      BY <1>2, <1>3, <2>2 DEF CreateAnswered, CommandMatchesRow
    <3>. QED  BY <1>1, <1>2, <1>4, <3>1 DEF AckedTurnIsDurable, RowsAdvance
  <2>. QED  BY <1>1, <2>1, <2>2 DEF Answering
<1>7. RepliedStatusIsFinal'
  <2>1. ASSUME NEW r \in told PROVE r[2] = "failed" \/ turnRow'[r[1]] = r[2]
    <3>1. r[1] \in Turn /\ r[2] \in Terminal  BY <1>4
    <3>. QED  BY <1>1, <1>2, <2>1, <3>1 DEF RepliedStatusIsFinal, RowsAdvance
  <2>2. CASE told' = told \/ told' = told \cup {<<pending, "failed">>}
    BY <2>1, <2>2 DEF RepliedStatusIsFinal
  <2>3. ASSUME NEW t \in Turn, CancelSettled(t) PROVE RepliedStatusIsFinal'
    <3>1. turnRow' = turnRow /\ (told' = told \/ told' = told \cup {<<t, turnRow[t]>>})
      BY <2>3 DEF CancelSettled, dbVars
    <3>. QED  BY <2>1, <3>1 DEF RepliedStatusIsFinal
  <2>4. ASSUME NEW t \in Turn, FinishResume(t) PROVE RepliedStatusIsFinal'
    <3>1. turnRow' = turnRow  BY <2>4 DEF FinishResume, dbVars
    <3>2. \/ told' = told
          \/ rt[t].won /\ told' = told \cup {<<t, rt[t].status>>}
      BY <2>4 DEF FinishResume
    <3>3. rt[t].won => turnRow[t] = rt[t].status
      BY <1>2 DEF RuntimesMatchRows, Matches
    <3>. QED  BY <2>1, <3>1, <3>2, <3>3 DEF RepliedStatusIsFinal
  <2>. QED  BY <1>1, <2>2, <2>3, <2>4 DEF Answering
<1>. QED  BY <1>1, <1>5, <1>6, <1>7 DEF RowInv

-----------------------------------------------------------------------------
(* A create command is answered only for a turn that is in the database,   *)
(* and the turn stays there: _handle_create waits for runtime.begun, which *)
(* run() sets after the begin transaction.                                 *)
THEOREM AckedTurnsAreDurable == Spec => []AckedTurnIsDurable
<1>1. RowInv => AckedTurnIsDurable  BY DEF RowInv
<1>. QED  BY <1>1, InitRow, RowInvStep, PTL DEF Spec

(* A cancel that is answered "completed" or "cancelled" was told the       *)
(* status the turn has in the database, for good: broadcast() answers      *)
(* after the commit of the closing transaction, and only if it wrote.      *)
THEOREM RepliedStatusesAreFinal == Spec => []RepliedStatusIsFinal
<1>1. RowInv => RepliedStatusIsFinal  BY DEF RowInv
<1>. QED  BY <1>1, InitRow, RowInvStep, PTL DEF Spec

(* A final status is never overwritten, by the runtime, by a recovery, by  *)
(* a second recovery or by the startup scan, whatever fails between them.  *)
THEOREM TerminalStatusesAreFinal == Spec => TerminalIsFinal
<1>1. RowInv /\ [Next]_vars
        => [\A t \in Turn : turnRow[t] \in Terminal => turnRow'[t] = turnRow[t]]_vars
  <2>. SUFFICES ASSUME RowInv, [Next]_vars
                PROVE  \A t \in Turn : turnRow[t] \in Terminal => turnRow'[t] = turnRow[t]
    OBVIOUS
  <2>. QED  BY RowStep DEF RowsAdvance
<1>. QED  BY <1>1, InitRow, RowInvStep, PTL DEF Spec, TerminalIsFinal

-----------------------------------------------------------------------------
(* Orderly, which ClaimMatchesTurns needs whole: after a second fault      *)
(* fail() finds the cached turn already cleared, and its recovery releases *)
(* the session without settling the turn; when a session is loaded before  *)
(* its recoveries have ended, one of them releases the claim of a turn     *)
(* begun since; and after an older result was taken up last, the cache     *)
(* hides a turn at work from the next create.  It never comes back.        *)
Grows ==
  /\ faults' = faults \/ faults' = faults + 1
  /\ crossed' = crossed \/ crossed' = TRUE

LEMMA TakeUpGrows ==
  ASSUME crossed \in BOOLEAN, NEW x, TakeUp(x)
  PROVE  crossed' = crossed \/ crossed' = TRUE
<1>1. CASE \E y \in TurnOrNone : <<y, x>> \in earlier  BY <1>1 DEF TakeUp
<1>2. CASE ~\E y \in TurnOrNone : <<y, x>> \in earlier  BY <1>2 DEF TakeUp
<1>. QED  BY <1>1, <1>2

LEMMA HistoryGrows ==
  ASSUME TypeInv, [Next]_vars
  PROVE  Grows
<1>. USE DEF vars, dbVars, envVars, mgrVars, outVars, Fault
<1>0. crossed \in BOOLEAN  BY DEF TypeInv, TypeOK, RuntimeTypeOK
<1>1. ASSUME Clients PROVE Grows
  BY <1>1 DEF Clients, SubmitCreate, SubmitCancel, SubmitReplace, Submit, Grows
<1>2. ASSUME Handlers PROVE Grows
  <2>1. ASSUME ReplaceResume PROVE Grows
    BY <1>0, <2>1, TakeUpGrows DEF ReplaceResume, Grows
  <2>2. ASSUME Handlers, ~ReplaceResume PROVE UNCHANGED <<faults, crossed>>
    <3>. HIDE DEF vars
    <3>1. CASE \/ RejectBroken \/ CreateConflict \/ CreateBegun \/ CreateAnswered
               \/ \E t \in Turn : HandleCreate(t) \/ CancelSettled(t) \/ HandleCancel(t)
      BY <3>1 DEF RejectBroken, CreateConflict, CreateBegun, CreateAnswered, HandleCreate,
        CancelSettled, HandleCancel
    <3>2. CASE CreateBeginError \/ HandleReplace \/ ReplacePrepared \/ ReplaceCommit \/ HandleStop
      BY <3>2 DEF CreateBeginError, HandlerFails, HandleReplace, ReplacePrepared,
        ReplaceCommit, HandleStop, Lands
    <3>. QED  BY <2>2, <3>1, <3>2 DEF Handlers
  <2>. QED  BY <1>2, <2>1, <2>2 DEF Grows
<1>3. ASSUME HandlerFaults PROVE Grows
  BY <1>3 DEF HandlerFaults, CreateListFault, CancelFault, ReplaceFault, HandlerFails, Grows
<1>4. ASSUME NEW t \in Turn, RuntimeStep(t) \/ AgentEvent(t) \/ StreamEnds(t) \/ WriteFault(t)
      PROVE  Grows
  <2>1. ASSUME BeginResume(t) \/ EventResume(t) \/ FinishResume(t) PROVE Grows
    <3>1. TakeUp(t) /\ faults' = faults  BY <2>1 DEF BeginResume, EventResume, FinishResume
    <3>. QED  BY <1>0, <3>1, TakeUpGrows DEF Grows
  <2>2. ASSUME BeginCommit(t) \/ EventCommit(t) \/ FinishCommit(t)
        PROVE  UNCHANGED <<faults, crossed>>
    BY <2>2 DEF BeginCommit, EventCommit, FinishCommit, Lands
  <2>3. ASSUME AgentEvent(t) \/ StreamEnds(t) PROVE UNCHANGED <<faults, crossed>>
    BY <2>3 DEF AgentEvent, StreamEnds
  <2>4. ASSUME WriteFault(t) PROVE Grows  BY <2>4 DEF WriteFault, Grows
  <2>. QED  BY <1>4, <2>1, <2>2, <2>3, <2>4 DEF RuntimeStep, Grows
<1>5. ASSUME NEW i \in DOMAIN recoveries, RecoveryCommit(i) \/ RecoveryFault(i)
      PROVE  Grows
  BY <1>5 DEF RecoveryCommit, RecoveryFault, Grows
<1>6. ASSUME Registry PROVE Grows
  <2>1. ASSUME LoadRead PROVE Grows
    <3>1. CASE \E i \in DOMAIN recoveries : recoveries[i].live
      BY <2>1, <3>1 DEF LoadRead, Grows
    <3>2. CASE ~\E i \in DOMAIN recoveries : recoveries[i].live
      BY <1>0, <2>1, <3>2 DEF LoadRead, Grows
    <3>. QED  BY <3>1, <3>2
  <2>2. ASSUME Registry, ~LoadRead PROVE UNCHANGED <<faults, crossed>>
    BY <2>2 DEF Registry, LoadReady, EvictIdle, Shutdown, CloseWaited, Exit, Crash, Die, Restart
  <2>. QED  BY <1>6, <2>1, <2>2 DEF Grows
<1>7. ASSUME UNCHANGED vars PROVE Grows  BY <1>7 DEF Grows
<1>. QED  BY <1>1, <1>2, <1>3, <1>4, <1>5, <1>6, <1>7 DEF Next

LEMMA OrderlyBefore ==
  ASSUME [Next]_vars, TypeInv, Orderly'
  PROVE  Orderly
<1>1. faults \in Nat  BY BoundsAssumption DEF TypeInv, TypeOK, ProcessTypeOK
<1>2. Grows  BY HistoryGrows
<1>3. faults <= 1  BY <1>1, <1>2 DEF Grows, Orderly
<1>4. ~crossed  BY <1>2, Zenon DEF Grows, Orderly
<1>. QED  BY <1>3, <1>4 DEF Orderly

-----------------------------------------------------------------------------
(* The inductive invariant, which holds while all is Orderly.              *)
ClaimAgrees ==
  /\ \A t \in Turn : Unfinished(t) <=> sess.active = t
  /\ sess.status = "running" <=> sess.active # NoTurn

(* What a command waits for, by its kind.                                  *)
CommandShape ==
  /\ cmd.op = "none" => cmd = Idle
  /\ cmd.op = "create" => cmd.stage \in {"begun", "list"}
  /\ cmd.op = "cancel" => cmd.stage = "wait"
  /\ cmd.op = "replace" => cmd.stage \in {"prepare", "asked", "committed"}

(* A manager that broke, that is not there yet or is being evicted has no  *)
(* runtime, and its stop is the last command.                              *)
Managers ==
  /\ broken => current = NoTurn /\ pending = NoTurn
  /\ mgr \in {"absent", "loading"} =>
       /\ ~broken /\ current = NoTurn /\ pending = NoTurn
       /\ queue = << >> /\ cmd = Idle
  /\ up = "down" => mgr = "absent" /\ recoveries = << >> /\ \A t \in Turn : ~Live(t)
  /\ up = "up" /\ mgr \in {"closing", "stopping"} =>
       current = NoTurn /\ \A i \in DOMAIN queue : queue[i].op = "stop"
  /\ \A i \in DOMAIN queue : queue[i].op = "stop" => mgr = "stopping"

(* A recovery runs after a fault, for the turn that holds the claim, while *)
(* no manager could claim it again; and while the process serves, a claim  *)
(* is that of the current runtime or has a recovery.                       *)
Recovers ==
  /\ \A i \in DOMAIN recoveries : recoveries[i].live =>
       /\ faults > 0
       /\ sess.active \in {NoTurn, recoveries[i].turn}
       /\ broken \/ mgr = "absent"
  /\ broken => faults > 0
  /\ up = "up" /\ sess.active # NoTurn =>
       \/ current = sess.active
       \/ \E i \in DOMAIN recoveries :
            recoveries[i].live /\ recoveries[i].turn = sess.active

(* Only the runtime that the running create command waits for begins, and  *)
(* the session is free until its transaction claims it.                    *)
Begins(t) ==
  /\ rt[t].step = "begin" =>
       /\ current = t /\ rt[t].begun = "no"
       /\ cmd.op = "create" /\ cmd.stage = "begun" /\ cmd.turn = t
       /\ cache.active = NoTurn
       /\ \/ rt[t].io = "asked" /\ sess.active = NoTurn
          \/ rt[t].io = "committed" /\ sess.active = t /\ rt[t].snap.active = t
  /\ rt[t].begun = "error" => faults > 0

BeginErrors ==
  cmd.op = "create" /\ cmd.stage = "begun" /\ rt[cmd.turn].begun = "error"
    => broken /\ sess.active = NoTurn

(* The current runtime holds the claim until it commits its end, and the   *)
(* cache says so; without a runtime a healthy manager finds a free session.*)
Runs ==
  /\ current # NoTurn =>
       /\ Live(current) /\ rt[current].own
       /\ rt[current].step = "stream" =>
            /\ cache.active = current /\ sess.active = current
            /\ rt[current].io = "committed" => rt[current].snap.active = current
       /\ rt[current].step = "finish" =>
            /\ cache.active = current
            /\ \/ rt[current].io = "asked" /\ sess.active = current
               \/ /\ rt[current].io = "committed" /\ sess.active = NoTurn
                  /\ rt[current].snap.active = NoTurn /\ rt[current].won
  /\ current = NoTurn /\ ~broken /\ mgr # "absent" =>
       cache.active = NoTurn /\ sess.active = NoTurn

(* Any other runtime was told to stop, by a fault or by the shutdown, and  *)
(* its callbacks know whom they may have to recover.                       *)
Left(t) ==
  Live(t) /\ current # t =>
    /\ rt[t].own => broken
    /\ up = "up" => \/ rt[t].step = "finish"
                    \/ rt[t].step = "stream" /\ rt[t].cancelRequested
    /\ faults = 0 =>
         /\ ~rt[t].own /\ up = "stopping" /\ mgr = "absent"
         /\ sess.active \in {NoTurn, t}
         /\ rt[t].step = "stream" => sess.active = t
         /\ rt[t].io = "committed" => sess.active = NoTurn \/ rt[t].snap.active = t
         /\ rt[t].io # "committed" => sess.active = NoTurn \/ rt[t].other = t

(* A write is under way only for a runtime that lives.                     *)
Rests(t) == rt[t].io # "idle" => Live(t)

TurnFacts == \A t \in Turn : Begins(t) /\ Left(t) /\ Rests(t)

(* A result is waiting; of those of the loaded manager, the one committed  *)
(* last is what the database holds.                                        *)
HasResult(x) == IF x = NoTurn THEN cmd.stage = "committed" ELSE rt[x].io = "committed"
TurnResult == current # NoTurn /\ rt[current].io = "committed"
ReplaceResult == cmd.stage = "committed"

Newest ==
  ~broken /\ mgr # "absent" =>
    /\ ~TurnResult /\ ~ReplaceResult => cache = sess
    /\ TurnResult /\ ~ReplaceResult => rt[current].snap = sess
    /\ ~TurnResult /\ ReplaceResult => cmd.snap = sess
    /\ TurnResult /\ ReplaceResult =>
         /\ \/ <<current, NoTurn>> \in earlier /\ cmd.snap = sess
            \/ <<NoTurn, current>> \in earlier /\ rt[current].snap = sess
         /\ <<NoTurn, current>> \in earlier => cmd.snap.active = current

Waiting == \A x, y \in TurnOrNone : <<x, y>> \in earlier => HasResult(x) /\ HasResult(y)

(* A cancel waits for the current runtime.                                 *)
Cancels ==
  pending # NoTurn => cmd.op = "cancel" /\ current = pending /\ rt[pending].cancelRequested

(* A turn that is said to have failed will not be recorded as anything     *)
(* else: its runtime has gone or is closing it as failed.                  *)
Honest ==
  \A p \in Turn : <<p, "failed">> \in told =>
    \/ turnRow[p] = "failed"
    \/ /\ turnRow[p] = "in_progress"
       /\ rt[p].step = "closed" \/ (rt[p].step = "finish" /\ rt[p].status = "failed")

ClaimInv ==
  /\ ClaimAgrees /\ CommandShape /\ Managers /\ Recovers
  /\ TurnFacts /\ BeginErrors /\ Runs
  /\ Newest /\ Waiting /\ Cancels /\ Honest

-----------------------------------------------------------------------------
(* The types, in the form the steps need them.                             *)
Types ==
  /\ turnRow \in [Turn -> {"none", "in_progress"} \cup Terminal]
  /\ sess \in Session /\ cache \in Session
  /\ up \in {"up", "stopping", "down"}
  /\ faults \in {0, 1}
  /\ mgr \in {"absent", "loading", "ready", "closing", "stopping"}
  /\ current \in TurnOrNone /\ pending \in TurnOrNone
  /\ broken \in BOOLEAN
  /\ cmd \in Executing /\ (cmd.op = "create" => cmd.turn \in Turn)
  /\ recoveries \in Seq(Recovery)
  /\ rt \in [Turn -> Runtime]
  /\ earlier \subseteq TurnOrNone \X TurnOrNone
  /\ told \subseteq Turn \X Terminal
  /\ \A i \in DOMAIN queue : queue[i] \in Command

LEMMA TypesHold ==
  ASSUME Orderly, TypeInv
  PROVE  Types
<1>1. faults \in {0, 1}
  BY BoundsAssumption DEF Orderly, TypeInv, TypeOK, ProcessTypeOK
<1>2. \A i \in DOMAIN queue : queue[i] \in Command
  BY DEF TypeInv, TypeOK, ManagerTypeOK
<1>. QED
  BY <1>1, <1>2 DEF Types, TypeInv, TypeOK, RowsTypeOK, ProcessTypeOK, ManagerTypeOK,
    RecoveryTypeOK, RuntimeTypeOK, AnswersTypeOK

LEMMA TypesHoldNext ==
  ASSUME Orderly', TypeInv'
  PROVE  Types'
<1>1. faults' \in {0, 1}
  BY BoundsAssumption DEF Orderly, TypeInv, TypeOK, ProcessTypeOK
<1>2. (\A i \in DOMAIN queue : queue[i] \in Command)'
  BY DEF TypeInv, TypeOK, ManagerTypeOK
<1>. QED
  BY <1>1, <1>2 DEF Types, TypeInv, TypeOK, RowsTypeOK, ProcessTypeOK, ManagerTypeOK,
    RecoveryTypeOK, RuntimeTypeOK, AnswersTypeOK

LEMMA LandsPairs ==
  ASSUME Types, NEW x, Lands(x)
  PROVE  /\ earlier \subseteq earlier'
         /\ \A y \in TurnOrNone : HasResult(y) => <<y, x>> \in earlier'
         /\ \A y, z \in TurnOrNone : <<y, z>> \in earlier' =>
              <<y, z>> \in earlier \/ (z = x /\ HasResult(y))
  BY NoTurnAssumption DEF Types, Lands, Outstanding, HasResult, TurnOrNone

LEMMA TakeUpPairs ==
  ASSUME Types, ~crossed', NEW x, TakeUp(x)
  PROVE  /\ \A y \in TurnOrNone : <<y, x>> \notin earlier
         /\ \A y, z : <<y, z>> \in earlier' <=> <<y, z>> \in earlier /\ y # x /\ z # x
  BY DEF Types, TakeUp

(* Steps that leave the rows, the cache, the runtimes and their results    *)
(* alone: they take or queue a command, or go on with one.                 *)
CommandGoesOn ==
  \/ cmd' = cmd
  \/ /\ cmd.stage # "committed" /\ cmd'.stage # "committed"
     /\ \A t \in Turn : rt[t].step # "begin"
     /\ pending = NoTurn
     /\ ~(cmd'.op = "create" /\ cmd'.stage = "begun")

LEMMA QuietStep ==
  ASSUME Types, ClaimInv,
         UNCHANGED <<dbVars, faults, up, cache, current, broken, pending, recoveries, rt, earlier>>,
         mgr' = "absent" <=> mgr = "absent",
         CommandGoesOn, CommandShape', Managers', Honest'
  PROVE  ClaimInv'
<1>. USE DEF dbVars
<1>1. ClaimAgrees'  BY DEF ClaimInv, ClaimAgrees, Unfinished
<1>2. Recovers'  BY DEF ClaimInv, Recovers
<1>3. TurnFacts'
  BY DEF ClaimInv, TurnFacts, Begins, Left, Rests, Live, CommandGoesOn
<1>4. BeginErrors'  BY DEF ClaimInv, BeginErrors, CommandGoesOn
<1>5. Runs'  BY DEF ClaimInv, Runs, Live
<1>6. Newest'
  BY DEF ClaimInv, Newest, TurnResult, ReplaceResult, CommandGoesOn
<1>7. Waiting'
  BY DEF ClaimInv, Waiting, HasResult, CommandGoesOn
<1>8. Cancels'  BY DEF ClaimInv, Cancels, CommandGoesOn
<1>. QED  BY <1>1, <1>2, <1>3, <1>4, <1>5, <1>6, <1>7, <1>8 DEF ClaimInv

LEMMA TakeLeaves ==
  ASSUME TypeInv, NEW op, Take(op)
  PROVE  /\ \A i \in DOMAIN queue' : \E j \in DOMAIN queue : queue'[i] = queue[j]
         /\ queue # << >> /\ Head(queue) = queue[1] /\ 1 \in DOMAIN queue
<1>1. queue \in Seq(Command) /\ queue # << >>
  BY DEF Take, TypeInv, TypeOK, ManagerTypeOK
<1>2. /\ Tail(queue) \in Seq(Command) /\ Len(queue) \in Nat \ {0}
      /\ Len(Tail(queue)) = Len(queue) - 1
      /\ \A i \in 1..Len(Tail(queue)) : Tail(queue)[i] = queue[i + 1]
  BY <1>1, HeadTailProperties
<1>3. DOMAIN Tail(queue) = 1..Len(Tail(queue)) /\ DOMAIN queue = 1..Len(queue)
  BY <1>1, <1>2
<1>4. \A i \in DOMAIN Tail(queue) : i + 1 \in DOMAIN queue  BY <1>2, <1>3
<1>5. Head(queue) = queue[1] /\ 1 \in DOMAIN queue  BY <1>1, <1>2, <1>3
<1>. QED  BY <1>1, <1>2, <1>3, <1>4, <1>5 DEF Take

(* A handler runs only under a manager that is there, with nobody waiting. *)
LEMMA HandlerFinds ==
  ASSUME TypeInv, Types, ClaimInv, NEW op, Take(op)
  PROVE  /\ cmd = Idle /\ cmd.op = "none" /\ cmd.stage = "idle" /\ pending = NoTurn
         /\ mgr \notin {"absent", "loading"} /\ up # "down"
         /\ \A t \in Turn : rt[t].step # "begin"
         /\ up = "up" /\ mgr \in {"closing", "stopping"} => op = "stop"
         /\ op = "stop" => mgr = "stopping"
<1>1. cmd = Idle /\ cmd.op = "none" /\ cmd.stage = "idle"  BY DEF Take, Idle
<1>2. queue # << >> /\ queue[1].op = op /\ 1 \in DOMAIN queue /\ up # "down"
  BY TakeLeaves DEF Take
<1>3. pending = NoTurn  BY <1>1 DEF ClaimInv, Cancels
<1>4. \A t \in Turn : rt[t].step # "begin"
  BY <1>1 DEF ClaimInv, TurnFacts, Begins
<1>. QED  BY <1>1, <1>2, <1>3, <1>4 DEF ClaimInv, Managers

(* The manager's part after a command was taken.                           *)
LEMMA TakenManagers ==
  ASSUME TypeInv, Types, ClaimInv, NEW op, Take(op), op # "stop",
         UNCHANGED <<up, mgr, broken, recoveries>>,
         \A t \in Turn : Live(t)' => up # "down",
         broken => current' = NoTurn /\ pending' = NoTurn,
         up = "up" /\ mgr \in {"closing", "stopping"} => current' = NoTurn
  PROVE  Managers'
<1>1. \A i \in DOMAIN queue' : \E j \in DOMAIN queue : queue'[i] = queue[j]
  BY TakeLeaves
<1>2. mgr \notin {"absent", "loading"} /\ up # "down"  BY HandlerFinds
<1>3. ~(up = "up" /\ mgr \in {"closing", "stopping"})  BY HandlerFinds
<1>. QED  BY <1>1, <1>2, <1>3 DEF ClaimInv, Managers

LEMMA QuietTakes ==
  ASSUME TypeInv, Types, ClaimInv, NEW op, Take(op), op # "stop",
         UNCHANGED <<dbVars, faults, up, mgr, cache, current, broken, pending, recoveries,
                     rt, earlier>>,
         cmd' = cmd \/ cmd' = Running("replace", NoTurn, "prepare"),
         Honest'
  PROVE  ClaimInv'
<1>1. CommandGoesOn
  BY HandlerFinds DEF CommandGoesOn, Running
<1>2. CommandShape'  BY DEF CommandShape, ClaimInv, Running
<1>3. \A t \in Turn : Live(t)' => up # "down"
  BY HandlerFinds
<1>4. Managers'
  BY <1>3, TakenManagers DEF ClaimInv, Managers
<1>. QED  BY <1>1, <1>2, <1>4, QuietStep

LEMMA QuietHonest ==
  ASSUME ClaimInv, turnRow' = turnRow, rt' = rt, told' = told
  PROVE  Honest'
  BY DEF ClaimInv, Honest

LEMMA AppendLeaves ==
  ASSUME TypeInv, NEW c \in Command, queue' = Append(queue, c)
  PROVE  \A i \in DOMAIN queue' : queue'[i] = c \/ \E j \in DOMAIN queue : queue'[i] = queue[j]
<1>1. queue \in Seq(Command)  BY DEF TypeInv, TypeOK, ManagerTypeOK
<1>2. /\ Append(queue, c) \in Seq(Command)
      /\ Len(Append(queue, c)) = Len(queue) + 1
      /\ \A i \in 1..Len(queue) : Append(queue, c)[i] = queue[i]
      /\ Append(queue, c)[Len(queue) + 1] = c
  BY <1>1, AppendProperties
<1>. QED  BY <1>1, <1>2

LEMMA ClientsClaim ==
  ASSUME TypeInv, Types, ClaimInv, Clients
  PROVE  ClaimInv'
<1>. USE DEF dbVars, envVars, mgrVars, outVars
<1>1. ASSUME NEW c \in Command, c.op # "stop", Submit(c) PROVE ClaimInv'
  <2>1. /\ UNCHANGED <<dbVars, faults, up, mgr, cache, current, broken, pending, recoveries,
                       rt, earlier, cmd, told>>
        /\ up = "up" /\ mgr = "ready"
    BY <1>1 DEF Submit
  <2>2. \A i \in DOMAIN queue' : queue'[i] = c \/ \E j \in DOMAIN queue : queue'[i] = queue[j]
    BY <1>1, AppendLeaves DEF Submit
  <2>3. Managers'
    BY <1>1, <2>1, <2>2 DEF ClaimInv, Managers, Live
  <2>4. CommandShape' /\ CommandGoesOn  BY <2>1 DEF ClaimInv, CommandShape, CommandGoesOn
  <2>. QED  BY <2>1, <2>3, <2>4, QuietHonest, QuietStep
<1>2. ASSUME NEW t \in Turn
      PROVE  /\ [op |-> "create", turn |-> t] \in Command
             /\ [op |-> "cancel", turn |-> t] \in Command
  BY FreshType DEF Command
<1>3. [op |-> "replace", turn |-> NoTurn] \in Command
  BY FreshType DEF Command
<1>4. ASSUME NEW t \in Turn, SubmitCreate(t) \/ SubmitCancel(t) PROVE ClaimInv'
  BY <1>1, <1>2, <1>4 DEF SubmitCreate, SubmitCancel
<1>5. CASE SubmitReplace  BY <1>1, <1>3, <1>5 DEF SubmitReplace
<1>. QED  BY <1>4, <1>5 DEF Clients

LEMMA QuietHandlersClaim ==
  ASSUME TypeInv, Types, ClaimInv,
         \/ RejectBroken \/ CreateConflict \/ HandleReplace
         \/ CreateBegun \/ CreateAnswered \/ ReplacePrepared
         \/ \E t \in Turn : CancelSettled(t)
  PROVE  ClaimInv'
<1>. USE DEF dbVars, envVars, mgrVars, outVars
<1>1. ASSUME RejectBroken \/ CreateConflict \/ HandleReplace PROVE ClaimInv'
  <2>1. PICK op \in {"create", "cancel", "replace"} : Take(op)
    BY <1>1 DEF RejectBroken, CreateConflict, HandleReplace
  <2>2. /\ UNCHANGED <<dbVars, faults, up, mgr, cache, current, broken, pending, recoveries,
                       rt, earlier, told>>
        /\ cmd' = cmd \/ cmd' = Running("replace", NoTurn, "prepare")
    BY <1>1 DEF RejectBroken, CreateConflict, HandleReplace
  <2>3. Honest'  BY <2>2, QuietHonest
  <2>. QED  BY <2>1, <2>2, <2>3, QuietTakes
<1>2. ASSUME NEW t \in Turn, CancelSettled(t) PROVE ClaimInv'
  <2>1. /\ UNCHANGED <<dbVars, faults, up, mgr, cache, current, broken, pending, recoveries,
                       rt, earlier, cmd>>
        /\ Take("cancel")
        /\ told' = told \/ (turnRow[t] \in Terminal /\ told' = told \cup {<<t, turnRow[t]>>})
    BY <1>2 DEF CancelSettled
  <2>2. Honest'  BY <2>1 DEF ClaimInv, Honest
  <2>. QED  BY <2>1, <2>2, QuietTakes
<1>3. ASSUME CreateBegun \/ CreateAnswered \/ ReplacePrepared PROVE ClaimInv'
  <2>1. /\ UNCHANGED <<dbVars, faults, up, mgr, cache, current, broken, pending, recoveries,
                       rt, earlier, told, queue>>
        /\ cmd.op \in {"create", "replace"} /\ cmd.stage \in {"begun", "list", "prepare"}
        /\ cmd.stage = "begun" => rt[cmd.turn].begun = "ok" /\ cmd.op = "create"
    BY <1>3 DEF CreateBegun, CreateAnswered, ReplacePrepared
  <2>2. \/ cmd' = Idle
        \/ cmd'.op = "create" /\ cmd'.stage = "list"
        \/ cmd'.op = "replace" /\ cmd'.stage = "asked"
    <3>1. cmd \in Executing  BY DEF Types
    <3>2. CASE CreateBegun  BY <3>1, <3>2 DEF CreateBegun, Executing
    <3>3. CASE CreateAnswered  BY <3>3 DEF CreateAnswered
    <3>4. CASE ReplacePrepared  BY <3>1, <3>4 DEF ReplacePrepared, Executing
    <3>. QED  BY <1>3, <3>2, <3>3, <3>4
  <2>3. pending = NoTurn  BY <2>1 DEF ClaimInv, Cancels
  <2>4. \A u \in Turn : rt[u].step # "begin"
    BY <2>1 DEF ClaimInv, TurnFacts, Begins
  <2>5. CommandGoesOn  BY <2>1, <2>2, <2>3, <2>4 DEF CommandGoesOn, Idle
  <2>6. CommandShape'  BY <2>2 DEF CommandShape, Idle
  <2>7. cmd # Idle  BY <2>1 DEF Idle
  <2>8. Managers'  BY <2>1, <2>7 DEF ClaimInv, Managers, Live
  <2>. QED  BY <2>1, <2>5, <2>6, <2>8, QuietHonest, QuietStep
<1>. QED  BY <1>1, <1>2, <1>3

LEMMA QuietRegistryClaim ==
  ASSUME TypeInv, Types, ClaimInv, LoadReady \/ EvictIdle \/ CloseWaited
  PROVE  ClaimInv'
<1>. USE DEF dbVars, envVars, mgrVars, outVars
<1>1. /\ UNCHANGED <<dbVars, faults, up, cache, current, broken, pending, recoveries,
                     rt, earlier, told, cmd>>
      /\ mgr # "absent" /\ mgr' # "absent"
  BY DEF LoadReady, EvictIdle, CloseWaited
<1>2. CommandGoesOn /\ CommandShape'
  BY <1>1 DEF CommandGoesOn, ClaimInv, CommandShape
<1>3. Managers'
  <2>1. CASE LoadReady
    BY <1>1, <2>1 DEF LoadReady, ClaimInv, Managers, Live
  <2>2. CASE EvictIdle
    <3>1. queue = << >> /\ queue' = queue /\ current = NoTurn /\ mgr = "ready" /\ mgr' = "closing"
      BY <2>2 DEF EvictIdle, ManagerIdle
    <3>2. DOMAIN queue' = {}  BY <3>1
    <3>. QED  BY <1>1, <3>1, <3>2 DEF ClaimInv, Managers, Live
  <2>3. CASE CloseWaited
    <3>1. [op |-> "stop", turn |-> NoTurn] \in Command  BY FreshType DEF Command
    <3>2. \A i \in DOMAIN queue' :
            \/ queue'[i] = [op |-> "stop", turn |-> NoTurn]
            \/ \E j \in DOMAIN queue : queue'[i] = queue[j]
      BY <2>3, <3>1, AppendLeaves DEF CloseWaited
    <3>3. mgr = "closing" /\ mgr' = "stopping"  BY <2>3 DEF CloseWaited
    <3>. QED  BY <1>1, <3>2, <3>3 DEF ClaimInv, Managers, Live
  <2>. QED  BY <2>1, <2>2, <2>3
<1>. QED  BY <1>1, <1>2, <1>3, QuietHonest, QuietStep

-----------------------------------------------------------------------------
(* fail(): the current runtime is told to stop, and whoever holds the      *)
(* claim gets a recovery.                                                  *)
SameButCancel(r, s) ==
  /\ s.step = r.step /\ s.io = r.io /\ s.status = r.status /\ s.begun = r.begun
  /\ s.won = r.won /\ s.snap = r.snap /\ s.own = r.own /\ s.other = r.other

LEMMA CancelTells ==
  ASSUME current \in TurnOrNone, NEW f \in [Turn -> Runtime]
  PROVE  /\ CancelRuntime(f) \in [Turn -> Runtime]
         /\ \A t \in Turn : SameButCancel(f[t], CancelRuntime(f)[t])
         /\ current # NoTurn => CancelRuntime(f)[current].cancelRequested
         /\ \A t \in Turn : t # current => CancelRuntime(f)[t] = f[t]
         /\ \A t \in Turn : f[t].cancelRequested => CancelRuntime(f)[t].cancelRequested
<1>1. CASE current = NoTurn
  BY <1>1, NoTurnAssumption DEF CancelRuntime, SameButCancel
<1>2. CASE current \in Turn
  <2>1. CancelRuntime(f) = [f EXCEPT ![current] = Cancelled(f[current])]
    BY <1>2, NoTurnAssumption DEF CancelRuntime
  <2>2. /\ Cancelled(f[current]) \in Runtime
        /\ SameButCancel(f[current], Cancelled(f[current]))
        /\ Cancelled(f[current]).cancelRequested
    BY <1>2 DEF Cancelled, Runtime, SameButCancel
  <2>3. \A t \in Turn : SameButCancel(f[t], f[t])  BY DEF SameButCancel
  <2>. HIDE DEF SameButCancel
  <2>. QED  BY <1>2, <2>1, <2>2, <2>3
<1>. QED  BY <1>1, <1>2 DEF TurnOrNone

LEMMA SpawnAdds ==
  ASSUME Types, NEW t, Spawn(t)
  PROVE  /\ \A i \in DOMAIN recoveries' :
              \/ i \in DOMAIN recoveries /\ recoveries'[i] = recoveries[i]
              \/ recoveries'[i] = [turn |-> t, live |-> TRUE]
         /\ \E i \in DOMAIN recoveries' : recoveries'[i] = [turn |-> t, live |-> TRUE]
         /\ \A i \in DOMAIN recoveries : i \in DOMAIN recoveries' /\ recoveries'[i] = recoveries[i]
<1>. DEFINE r == [turn |-> t, live |-> TRUE]
<1>1. recoveries \in Seq(Recovery \cup {r}) /\ r \in Recovery \cup {r}
  BY DEF Types
<1>2. recoveries' = Append(recoveries, r)  BY DEF Spawn
<1>. HIDE DEF r
<1>3. /\ Append(recoveries, r) \in Seq(Recovery \cup {r})
      /\ Len(Append(recoveries, r)) = Len(recoveries) + 1
      /\ \A i \in 1..Len(recoveries) : Append(recoveries, r)[i] = recoveries[i]
      /\ Append(recoveries, r)[Len(recoveries) + 1] = r
  BY <1>1, AppendProperties
<1>4. /\ \A i \in DOMAIN recoveries' :
              \/ i \in DOMAIN recoveries /\ recoveries'[i] = recoveries[i]
              \/ recoveries'[i] = r
      /\ \E i \in DOMAIN recoveries' : recoveries'[i] = r
      /\ \A i \in DOMAIN recoveries : i \in DOMAIN recoveries' /\ recoveries'[i] = recoveries[i]
  BY <1>1, <1>2, <1>3
<1>. QED  BY <1>4 DEF r

LEMMA FailStep ==
  ASSUME TypeInv, Types, Types', ClaimInv, Fail,
         rt' = CancelRuntime(rt), cmd' = Idle,
         UNCHANGED <<turnRow, sess, up, earlier>>,
         faults' > 0, pending = NoTurn, cmd.stage # "committed",
         up # "down", mgr \notin {"absent", "loading"},
         \A t \in Turn : rt[t].step # "begin",
         sess.active \in {NoTurn, cache.active},
         \A i \in DOMAIN queue' : \E j \in DOMAIN queue : queue'[i] = queue[j]
  PROVE  ClaimInv'
<1>1. /\ broken' /\ current' = NoTurn /\ pending' = NoTurn /\ told' = told /\ mgr' = mgr
      /\ Spawn(cache.active)
  BY DEF Fail
<1>2. /\ \A t \in Turn : SameButCancel(rt[t], rt'[t])
      /\ current # NoTurn => rt'[current].cancelRequested
      /\ \A t \in Turn : t # current => rt'[t] = rt[t]
  BY CancelTells DEF Types
<1>3. /\ \A i \in DOMAIN recoveries' :
           \/ i \in DOMAIN recoveries /\ recoveries'[i] = recoveries[i]
           \/ recoveries'[i] = [turn |-> cache.active, live |-> TRUE]
      /\ \E i \in DOMAIN recoveries' : recoveries'[i] = [turn |-> cache.active, live |-> TRUE]
  BY <1>1, SpawnAdds
<1>4. Idle.op = "none" /\ Idle.stage = "idle"  BY DEF Idle
<1>5. ClaimAgrees'  BY DEF ClaimInv, ClaimAgrees, Unfinished
<1>6. CommandShape'  BY <1>4 DEF CommandShape
<1>7. Managers'
  BY <1>1 DEF ClaimInv, Managers
<1>8. Recovers'
  <2>1. PICK k \in DOMAIN recoveries' :
          recoveries'[k].turn = cache.active /\ recoveries'[k].live
    BY <1>3
  <2>2. ASSUME NEW i \in DOMAIN recoveries', recoveries'[i].live
        PROVE  sess.active \in {NoTurn, recoveries'[i].turn}
    BY <1>3, <2>2 DEF ClaimInv, Recovers
  <2>. QED  BY <1>1, <2>1, <2>2 DEF Recovers
<1>9. TurnFacts'
  <2>1. ASSUME NEW t \in Turn PROVE Begins(t)'
    BY <1>2, <2>1 DEF Begins, SameButCancel
  <2>2. ASSUME NEW t \in Turn PROVE Left(t)'
    <3>1. CASE t = current
      BY <1>1, <1>2, <3>1, NoTurnAssumption DEF Left, Live, SameButCancel
    <3>2. CASE t # current
      BY <1>1, <1>2, <3>2 DEF Left, Live, SameButCancel, ClaimInv, TurnFacts
    <3>. QED  BY <3>1, <3>2
  <2>3. ASSUME NEW t \in Turn PROVE Rests(t)'
    BY <1>2, <2>3 DEF Rests, Live, SameButCancel, ClaimInv, TurnFacts
  <2>. QED  BY <2>1, <2>2, <2>3 DEF TurnFacts
<1>10. BeginErrors'  BY <1>4 DEF BeginErrors
<1>11. Runs'  BY <1>1 DEF Runs
<1>12. Newest'  BY <1>1 DEF Newest
<1>13. Waiting'
  <2>1. \A x \in TurnOrNone : HasResult(x) => HasResult(x)'
    BY <1>2, <1>4 DEF HasResult, SameButCancel, TurnOrNone
  <2>. QED  BY <2>1 DEF ClaimInv, Waiting
<1>14. Cancels'  BY <1>1 DEF Cancels
<1>15. Honest'  BY <1>1, <1>2 DEF ClaimInv, Honest, SameButCancel
<1>. QED
  BY <1>5, <1>6, <1>7, <1>8, <1>9, <1>10, <1>11, <1>12, <1>13, <1>14, <1>15 DEF ClaimInv

(* Whoever holds the claim while no transaction begins is in the cache.    *)
LEMMA CacheKnowsClaim ==
  ASSUME Types, ClaimInv, ~broken, mgr # "absent", \A t \in Turn : rt[t].step # "begin"
  PROVE  sess.active \in {NoTurn, cache.active}
<1>1. CASE current = NoTurn  BY <1>1 DEF ClaimInv, Runs
<1>2. CASE current \in Turn
  BY <1>2, NoTurnAssumption DEF ClaimInv, Runs, Live
<1>. QED  BY <1>1, <1>2 DEF Types, TurnOrNone

LEMMA FirstFault ==
  ASSUME Types, Types', Fault
  PROVE  faults = 0 /\ faults' = 1 /\ up' = up /\ crashes' = crashes
  BY DEF Types, Fault

LEMMA FailsClaim ==
  ASSUME TypeInv, Types, Types', ClaimInv, CreateBeginError \/ HandlerFaults
  PROVE  ClaimInv'
<1>. USE DEF dbVars, envVars, mgrVars, outVars
<1>1. ASSUME CreateBeginError PROVE ClaimInv'
  <2>1. /\ Fail /\ rt' = CancelRuntime(rt) /\ cmd' = Idle
        /\ UNCHANGED <<turnRow, sess, up, earlier, faults, queue>>
        /\ cmd.op = "create" /\ cmd.stage = "begun" /\ rt[cmd.turn].begun = "error"
    BY <1>1 DEF CreateBeginError, HandlerFails
  <2>2. cmd # Idle  BY <2>1 DEF Idle
  <2>3. broken /\ sess.active = NoTurn  BY <2>1 DEF ClaimInv, BeginErrors
  <2>4. faults > 0 /\ current = NoTurn /\ mgr \notin {"absent", "loading"} /\ up # "down"
    BY <2>2, <2>3 DEF ClaimInv, Recovers, Managers
  <2>5. pending = NoTurn  BY <2>3 DEF ClaimInv, Managers
  <2>6. \A t \in Turn : rt[t].step # "begin"
    BY <2>4, NoTurnAssumption DEF ClaimInv, TurnFacts, Begins
  <2>. QED  BY <2>1, <2>3, <2>4, <2>5, <2>6, FailStep
<1>2. ASSUME CreateListFault \/ ReplaceFault PROVE ClaimInv'
  <2>1. /\ Fail /\ rt' = CancelRuntime(rt) /\ cmd' = Idle /\ Fault
        /\ UNCHANGED <<turnRow, sess, earlier, queue>>
        /\ cmd.op \in {"create", "replace"} /\ cmd.stage \in {"list", "asked"}
    BY <1>2 DEF CreateListFault, ReplaceFault, HandlerFails
  <2>2. cmd # Idle  BY <2>1 DEF Idle
  <2>3. faults = 0 /\ faults' = 1 /\ up' = up  BY <2>1, FirstFault
  <2>4. ~broken /\ mgr \notin {"absent", "loading"} /\ up # "down"
    BY <2>2, <2>3 DEF ClaimInv, Recovers, Managers
  <2>5. pending = NoTurn  BY <2>1 DEF ClaimInv, Cancels
  <2>6. \A t \in Turn : rt[t].step # "begin"
    BY <2>1 DEF ClaimInv, TurnFacts, Begins
  <2>7. sess.active \in {NoTurn, cache.active}  BY <2>4, <2>6, CacheKnowsClaim
  <2>. QED  BY <2>1, <2>3, <2>4, <2>5, <2>6, <2>7, FailStep
<1>3. ASSUME CancelFault PROVE ClaimInv'
  <2>1. /\ Take("cancel") /\ Fail /\ rt' = CancelRuntime(rt) /\ cmd' = cmd /\ Fault
        /\ UNCHANGED <<turnRow, sess, earlier>>
    BY <1>3 DEF CancelFault
  <2>2. faults = 0 /\ faults' = 1 /\ up' = up  BY <2>1, FirstFault
  <2>3. /\ cmd = Idle /\ cmd.stage = "idle" /\ pending = NoTurn
        /\ mgr \notin {"absent", "loading"} /\ up # "down"
        /\ \A t \in Turn : rt[t].step # "begin"
    BY <2>1, HandlerFinds
  <2>4. ~broken  BY <2>2 DEF ClaimInv, Recovers
  <2>5. sess.active \in {NoTurn, cache.active}  BY <2>3, <2>4, CacheKnowsClaim
  <2>6. \A i \in DOMAIN queue' : \E j \in DOMAIN queue : queue'[i] = queue[j]
    BY <2>1, TakeLeaves
  <2>. QED  BY <2>1, <2>2, <2>3, <2>5, <2>6, FailStep
<1>. QED  BY <1>1, <1>2, <1>3 DEF HandlerFaults

-----------------------------------------------------------------------------
LEMMA HandleCreateClaim ==
  ASSUME TypeInv, Types, ClaimInv, NEW t \in Turn, HandleCreate(t)
  PROVE  ClaimInv'
<1>. USE NoTurnAssumption DEF dbVars, envVars, mgrVars, outVars
<1>1. /\ UNCHANGED <<turnRow, sess, faults, up, mgr, cache, broken, pending, recoveries,
                     earlier, told>>
      /\ ~broken /\ Take("create") /\ cache.active = NoTurn /\ rt[t].step = "unborn"
      /\ current' = t /\ cmd' = Running("create", t, "begun")
      /\ rt' = [rt EXCEPT ![t] = Started]
  BY DEF HandleCreate
<1>2. /\ cmd = Idle /\ cmd.op = "none" /\ cmd.stage = "idle" /\ pending = NoTurn
      /\ mgr \notin {"absent", "loading"} /\ up # "down"
      /\ \A u \in Turn : rt[u].step # "begin"
      /\ ~(up = "up" /\ mgr \in {"closing", "stopping"})
  BY <1>1, HandlerFinds
<1>3. current = NoTurn
  BY <1>1, <1>2 DEF ClaimInv, Runs, Live, Types, TurnOrNone
<1>4. sess.active = NoTurn  BY <1>1, <1>2, <1>3 DEF ClaimInv, Runs
<1>5. /\ rt'[t].step = "begin" /\ rt'[t].io = "asked" /\ rt'[t].own /\ rt'[t].begun = "no"
      /\ \A u \in Turn : u # t => rt'[u] = rt[u]
  BY <1>1 DEF Types, Started, Unborn
<1>6. cmd'.op = "create" /\ cmd'.stage = "begun" /\ cmd'.turn = t
  BY <1>1 DEF Running
<1>. HIDE DEF HandleCreate
<1>7. ClaimAgrees'  BY <1>1 DEF ClaimInv, ClaimAgrees, Unfinished
<1>8. CommandShape'  BY <1>6 DEF CommandShape
<1>9. Managers'
  BY <1>1, <1>2, TakeLeaves DEF ClaimInv, Managers
<1>10. Recovers'  BY <1>1, <1>4 DEF ClaimInv, Recovers
<1>11. TurnFacts'
  <2>1. ASSUME NEW u \in Turn PROVE Begins(u)' /\ Left(u)' /\ Rests(u)'
    <3>1. CASE u = t  BY <1>1, <1>4, <1>5, <1>6, <3>1 DEF Begins, Left, Rests, Live
    <3>2. CASE u # t
      BY <1>1, <1>2, <1>3, <1>4, <1>5, <3>2
         DEF ClaimInv, TurnFacts, Begins, Left, Rests, Live
    <3>. QED  BY <3>1, <3>2
  <2>. QED  BY <2>1 DEF TurnFacts
<1>12. BeginErrors'  BY <1>5, <1>6 DEF BeginErrors
<1>13. Runs'  BY <1>1, <1>5 DEF Runs, Live
<1>14. Newest'
  BY <1>1, <1>2, <1>3, <1>5, <1>6 DEF ClaimInv, Newest, TurnResult, ReplaceResult
<1>15. Waiting'
  <2>1. rt[t].io = "idle"
    BY <1>1 DEF ClaimInv, TurnFacts, Rests, Live
  <2>2. \A x \in TurnOrNone : HasResult(x) => HasResult(x)'
    BY <1>2, <1>5, <1>6, <2>1 DEF HasResult, TurnOrNone
  <2>. QED  BY <1>1, <2>2 DEF ClaimInv, Waiting
<1>16. Cancels'  BY <1>1, <1>2 DEF Cancels
<1>17. Honest'
  BY <1>1, <1>5 DEF ClaimInv, Honest
<1>. QED
  BY <1>7, <1>8, <1>9, <1>10, <1>11, <1>12, <1>13, <1>14, <1>15, <1>16, <1>17 DEF ClaimInv

LEMMA HandleCancelClaim ==
  ASSUME TypeInv, Types, ClaimInv, NEW t \in Turn, HandleCancel(t)
  PROVE  ClaimInv'
<1>. USE NoTurnAssumption DEF dbVars, envVars, mgrVars, outVars
<1>1. /\ UNCHANGED <<turnRow, sess, faults, up, mgr, cache, broken, current, recoveries,
                     earlier, told>>
      /\ ~broken /\ Take("cancel") /\ cache.active = t
      /\ pending' = t /\ cmd' = Running("cancel", t, "wait")
      /\ rt' = CancelRuntime(rt)
  BY DEF HandleCancel
<1>2. /\ cmd = Idle /\ cmd.op = "none" /\ cmd.stage = "idle" /\ pending = NoTurn
      /\ mgr \notin {"absent", "loading"} /\ up # "down"
      /\ \A u \in Turn : rt[u].step # "begin"
      /\ ~(up = "up" /\ mgr \in {"closing", "stopping"})
  BY <1>1, HandlerFinds
<1>3. current = t
  BY <1>1, <1>2 DEF ClaimInv, Runs, Live, Types, TurnOrNone
<1>4. /\ \A u \in Turn : SameButCancel(rt[u], rt'[u])
      /\ rt'[t].cancelRequested
      /\ \A u \in Turn : rt[u].cancelRequested => rt'[u].cancelRequested
  BY <1>1, <1>3, CancelTells DEF Types
<1>6. cmd'.op = "cancel" /\ cmd'.stage = "wait"
  BY <1>1 DEF Running
<1>7. ClaimAgrees'  BY <1>1 DEF ClaimInv, ClaimAgrees, Unfinished
<1>8. CommandShape'  BY <1>6 DEF CommandShape
<1>9. Managers'
  BY <1>1, <1>2, TakeLeaves DEF ClaimInv, Managers
<1>10. Recovers'  BY <1>1 DEF ClaimInv, Recovers
<1>11. TurnFacts'
  BY <1>1, <1>2, <1>4 DEF ClaimInv, TurnFacts, Begins, Left, Rests, Live, SameButCancel
<1>12. BeginErrors'  BY <1>6 DEF BeginErrors
<1>13. Runs'  BY <1>1, <1>3, <1>4 DEF ClaimInv, Runs, Live, SameButCancel
<1>14. Newest'
  BY <1>1, <1>2, <1>3, <1>4, <1>6
     DEF ClaimInv, Newest, TurnResult, ReplaceResult, SameButCancel
<1>15. Waiting'
  <2>2. \A x \in TurnOrNone : HasResult(x) => HasResult(x)'
    BY <1>2, <1>4, <1>6 DEF HasResult, TurnOrNone, SameButCancel
  <2>. QED  BY <1>1, <2>2 DEF ClaimInv, Waiting
<1>16. Cancels'  BY <1>1, <1>3, <1>4, <1>6 DEF Cancels
<1>17. Honest'
  BY <1>1, <1>4 DEF ClaimInv, Honest, SameButCancel
<1>. QED
  BY <1>7, <1>8, <1>9, <1>10, <1>11, <1>12, <1>13, <1>14, <1>15, <1>16, <1>17 DEF ClaimInv

LEMMA HandleStopClaim ==
  ASSUME TypeInv, Types, ClaimInv, HandleStop
  PROVE  ClaimInv'
<1>. USE NoTurnAssumption DEF dbVars, envVars, mgrVars, outVars
<1>1. /\ UNCHANGED <<turnRow, sess, faults, up, recoveries, earlier, told>>
      /\ Take("stop")
      /\ mgr' = "absent" /\ current' = NoTurn /\ ~broken' /\ pending' = NoTurn
      /\ queue' = << >> /\ cmd' = Idle
      /\ rt' = [t \in Turn |-> IF Live(t) /\ rt[t].own THEN Detached(rt[t]) ELSE rt[t]]
  BY DEF HandleStop, Unloaded
<1>2. /\ cmd = Idle /\ cmd.op = "none" /\ cmd.stage = "idle" /\ pending = NoTurn
      /\ mgr = "stopping" /\ up # "down"
      /\ \A u \in Turn : rt[u].step # "begin"
  BY <1>1, HandlerFinds
<1>3. ASSUME NEW u \in Turn
      PROVE  /\ rt'[u].step = rt[u].step /\ rt'[u].io = rt[u].io
             /\ rt'[u].status = rt[u].status /\ rt'[u].begun = rt[u].begun
             /\ rt'[u].snap = rt[u].snap
             /\ rt'[u].cancelRequested = rt[u].cancelRequested
             /\ Live(u) /\ rt[u].own => ~rt'[u].own /\ rt'[u].other = cache.active
             /\ ~(Live(u) /\ rt[u].own) => rt'[u] = rt[u]
  <2>1. rt[u] \in Runtime  BY DEF Types
  <2>2. CASE Live(u) /\ rt[u].own
    <3>1. rt'[u] = Detached(rt[u])  BY <1>1, <2>2
    <3>. QED  BY <2>1, <2>2, <3>1 DEF Detached, Runtime
  <2>3. CASE ~(Live(u) /\ rt[u].own)
    BY <1>1, <2>3
  <2>. QED  BY <2>2, <2>3
<1>4. DOMAIN queue' = {}  BY <1>1
<1>7. ClaimAgrees'  BY <1>1 DEF ClaimInv, ClaimAgrees, Unfinished
<1>8. CommandShape'  BY <1>1, <1>2 DEF CommandShape
<1>9. Managers'
  BY <1>1, <1>2, <1>4 DEF Managers
<1>10. Recovers'
  BY <1>1, <1>2 DEF ClaimInv, Recovers, Managers
<1>11. TurnFacts'
  <2>1. ASSUME NEW u \in Turn PROVE Begins(u)' /\ Rests(u)'
    BY <1>1, <1>2, <1>3 DEF ClaimInv, TurnFacts, Begins, Rests, Live
  <2>2. ASSUME NEW u \in Turn, Live(u) PROVE Left(u)'
    <3>1. CASE faults > 0
      <4>1. up = "up" => current = NoTurn  BY <1>2 DEF ClaimInv, Managers
      <4>2. ~rt'[u].own
        BY <1>3, <2>2
      <4>. QED
        BY <1>1, <1>3, <2>2, <3>1, <4>1, <4>2 DEF ClaimInv, TurnFacts, Left, Live
    <3>2. CASE faults = 0
      <4>1. ~broken  BY <3>2 DEF ClaimInv, Recovers
      <4>2. current = u
        BY <1>2, <2>2, <3>2 DEF ClaimInv, TurnFacts, Left
      <4>3. rt[u].own /\ up = "stopping"
        BY <1>2, <4>2 DEF ClaimInv, Runs, Managers, Types
      <4>4. rt'[u].other = cache.active /\ ~rt'[u].own  BY <1>3, <2>2, <4>3
      <4>5. rt[u].step \in {"stream", "finish"}  BY <1>2, <2>2 DEF Live
      <4>. QED
        BY <1>1, <1>2, <1>3, <2>2, <3>2, <4>2, <4>3, <4>4, <4>5 DEF ClaimInv, Runs, Left, Live
    <3>. QED  BY <3>1, <3>2 DEF Types
  <2>3. ASSUME NEW u \in Turn, ~Live(u) PROVE Left(u)'
    BY <1>3, <2>3 DEF Left, Live
  <2>. QED  BY <2>1, <2>2, <2>3 DEF TurnFacts
<1>12. BeginErrors'  BY <1>1, <1>2 DEF BeginErrors
<1>13. Runs'  BY <1>1 DEF Runs, Live
<1>14. Newest'  BY <1>1 DEF Newest
<1>15. Waiting'
  <2>2. \A x \in TurnOrNone : HasResult(x) => HasResult(x)'
    BY <1>1, <1>2, <1>3 DEF HasResult, TurnOrNone
  <2>. QED  BY <1>1, <2>2 DEF ClaimInv, Waiting
<1>16. Cancels'  BY <1>1 DEF Cancels
<1>17. Honest'
  BY <1>1, <1>3 DEF ClaimInv, Honest
<1>. QED
  BY <1>7, <1>8, <1>9, <1>10, <1>11, <1>12, <1>13, <1>14, <1>15, <1>16, <1>17 DEF ClaimInv

LEMMA ReplaceCommitClaim ==
  ASSUME TypeInv, Types, ClaimInv, ReplaceCommit
  PROVE  ClaimInv'
<1>. USE NoTurnAssumption DEF dbVars, envVars, mgrVars, outVars
<1>1. /\ UNCHANGED <<turnRow, faults, up, mgr, cache, current, broken, pending, queue,
                     recoveries, rt, told>>
      /\ cmd.op = "replace" /\ cmd.stage = "asked" /\ Lands(NoTurn)
      /\ sess' = [sess EXCEPT !.res = (sess.res + 1) % (MaxRes + 1)]
      /\ cmd' = [cmd EXCEPT !.stage = "committed", !.snap = sess']
  BY DEF ReplaceCommit
<1>2. sess'.active = sess.active /\ sess'.status = sess.status
  BY <1>1 DEF Types, Session
<1>3. cmd'.op = "replace" /\ cmd'.stage = "committed" /\ cmd'.snap = sess'
  BY <1>1 DEF Types, Executing
<1>4. /\ \A y \in TurnOrNone : HasResult(y) => <<y, NoTurn>> \in earlier'
      /\ \A y, z \in TurnOrNone : <<y, z>> \in earlier' =>
           <<y, z>> \in earlier \/ (z = NoTurn /\ HasResult(y))
  BY <1>1, LandsPairs
<1>5. cmd # Idle  BY <1>1 DEF Idle
<1>6. \A u \in Turn : rt[u].step # "begin"
  BY <1>1 DEF ClaimInv, TurnFacts, Begins
<1>. HIDE DEF ReplaceCommit
<1>7. ClaimAgrees'  BY <1>1, <1>2 DEF ClaimInv, ClaimAgrees, Unfinished
<1>8. CommandShape'  BY <1>3 DEF CommandShape
<1>9. Managers'
  BY <1>1, <1>5 DEF ClaimInv, Managers, Live
<1>10. Recovers'  BY <1>1, <1>2 DEF ClaimInv, Recovers
<1>11. TurnFacts'
  <2>1. ASSUME NEW u \in Turn PROVE Begins(u)' /\ Left(u)' /\ Rests(u)'
    BY <1>1, <1>2, <1>6 DEF ClaimInv, TurnFacts, Begins, Left, Rests, Live
  <2>. QED  BY <2>1 DEF TurnFacts
<1>12. BeginErrors'  BY <1>3 DEF BeginErrors
<1>13. Runs'  BY <1>1, <1>2 DEF ClaimInv, Runs, Live
<1>14. Newest'
  <2>1. TurnResult => <<current, NoTurn>> \in earlier'
    BY <1>4 DEF TurnResult, HasResult, Types
  <2>2. ASSUME TurnResult, <<NoTurn, current>> \in earlier' PROVE FALSE
    <3>1. <<NoTurn, current>> \in earlier
      BY <1>4, <2>2 DEF TurnResult, Types, TurnOrNone
    <3>2. HasResult(NoTurn)
      BY <3>1 DEF ClaimInv, Waiting, Types, TurnOrNone
    <3>. QED  BY <1>1, <3>2 DEF HasResult
  <2>3. /\ TurnResult' <=> TurnResult
        /\ ReplaceResult'
    BY <1>1, <1>3 DEF TurnResult, ReplaceResult
  <2>. QED  BY <1>1, <1>3, <2>1, <2>2, <2>3 DEF Newest
<1>15. Waiting'
  <2>1. \A x \in TurnOrNone : HasResult(x) => HasResult(x)'
    BY <1>1, <1>3 DEF HasResult, TurnOrNone
  <2>2. HasResult(NoTurn)'  BY <1>3 DEF HasResult
  <2>. QED  BY <1>4, <2>1, <2>2 DEF ClaimInv, Waiting
<1>16. Cancels'  BY <1>1 DEF ClaimInv, Cancels
<1>17. Honest'
  BY <1>1 DEF ClaimInv, Honest
<1>. QED
  BY <1>7, <1>8, <1>9, <1>10, <1>11, <1>12, <1>13, <1>14, <1>15, <1>16, <1>17 DEF ClaimInv

LEMMA ReplaceResumeClaim ==
  ASSUME ~crossed', TypeInv, Types, ClaimInv, ReplaceResume
  PROVE  ClaimInv'
<1>. USE NoTurnAssumption DEF dbVars, envVars, mgrVars, outVars
<1>1. /\ UNCHANGED <<turnRow, sess, faults, up, mgr, current, broken, pending, queue,
                     recoveries, rt, told>>
      /\ cmd.op = "replace" /\ cmd.stage = "committed" /\ TakeUp(NoTurn)
      /\ cache' = cmd.snap /\ cmd' = Idle
  BY DEF ReplaceResume
<1>2. Idle.op = "none" /\ Idle.stage = "idle"  BY DEF Idle
<1>3. /\ \A y \in TurnOrNone : <<y, NoTurn>> \notin earlier
      /\ \A y, z : <<y, z>> \in earlier' <=> <<y, z>> \in earlier /\ y # NoTurn /\ z # NoTurn
  BY <1>1, TakeUpPairs
<1>4. ReplaceResult  BY <1>1 DEF ReplaceResult
<1>5. cmd # Idle /\ pending = NoTurn  BY <1>1, <1>2 DEF ClaimInv, Cancels
<1>6. \A u \in Turn : rt[u].step # "begin"
  BY <1>1 DEF ClaimInv, TurnFacts, Begins
<1>18. mgr # "absent"  BY <1>5 DEF ClaimInv, Managers
<1>19. ASSUME ~broken
       PROVE  /\ TurnResult => rt[current].snap = sess
              /\ ~TurnResult => cmd.snap = sess
              /\ current # NoTurn => cmd.snap.active = current
              /\ current = NoTurn => cmd.snap.active = NoTurn
  <2>1. /\ ~TurnResult => cmd.snap = sess
        /\ TurnResult => rt[current].snap = sess /\ cmd.snap.active = current
    BY <1>3, <1>4, <1>18, <1>19 DEF ClaimInv, Newest, Types
  <2>2. CASE current = NoTurn
    BY <1>18, <1>19, <2>1, <2>2 DEF ClaimInv, Runs, TurnResult
  <2>3. CASE current \in Turn
    BY <1>6, <2>1, <2>3 DEF ClaimInv, Runs, TurnResult, Live
  <2>. QED  BY <2>1, <2>2, <2>3 DEF Types, TurnOrNone
<1>. HIDE DEF ReplaceResume
<1>7. ClaimAgrees'  BY <1>1 DEF ClaimInv, ClaimAgrees, Unfinished
<1>8. CommandShape'  BY <1>1, <1>2 DEF CommandShape
<1>9. Managers'
  BY <1>1, <1>5 DEF ClaimInv, Managers, Live
<1>10. Recovers'  BY <1>1 DEF ClaimInv, Recovers
<1>11. TurnFacts'
  <2>1. ASSUME NEW u \in Turn PROVE Begins(u)' /\ Left(u)' /\ Rests(u)'
    BY <1>1, <1>6 DEF ClaimInv, TurnFacts, Begins, Left, Rests, Live
  <2>. QED  BY <2>1 DEF TurnFacts
<1>12. BeginErrors'  BY <1>1, <1>2 DEF BeginErrors
<1>13. Runs'
  <2>1. current # NoTurn => ~broken  BY DEF ClaimInv, Managers
  <2>2. CASE current = NoTurn
    BY <1>1, <1>19, <2>2 DEF ClaimInv, Runs
  <2>3. CASE current # NoTurn
    BY <1>1, <1>19, <2>1, <2>3 DEF ClaimInv, Runs, Live
  <2>. QED  BY <2>2, <2>3
<1>14. Newest'
  BY <1>1, <1>2, <1>19 DEF Newest, TurnResult, ReplaceResult
<1>15. Waiting'
  BY <1>1, <1>3 DEF ClaimInv, Waiting, HasResult
<1>16. Cancels'  BY <1>1, <1>5 DEF ClaimInv, Cancels
<1>17. Honest'
  BY <1>1 DEF ClaimInv, Honest
<1>. QED
  BY <1>7, <1>8, <1>9, <1>10, <1>11, <1>12, <1>13, <1>14, <1>15, <1>16, <1>17 DEF ClaimInv

-----------------------------------------------------------------------------
LEMMA LoadReadClaim ==
  ASSUME ~crossed', TypeInv, Types, ClaimInv, LoadRead
  PROVE  ClaimInv'
<1>. USE NoTurnAssumption DEF dbVars, envVars, mgrVars, outVars
<1>1. /\ UNCHANGED <<turnRow, sess, faults, up, current, broken, pending, queue,
                     recoveries, rt, told, earlier, cmd>>
      /\ up = "up" /\ mgr = "absent" /\ mgr' = "loading" /\ cache' = sess
      /\ \A i \in DOMAIN recoveries : ~recoveries[i].live
  BY DEF LoadRead
<1>2. /\ ~broken /\ current = NoTurn /\ pending = NoTurn
      /\ queue = << >> /\ cmd = Idle
  BY <1>1 DEF ClaimInv, Managers
<1>3. Idle.op = "none" /\ Idle.stage = "idle"  BY DEF Idle
<1>4. sess.active = NoTurn  BY <1>1, <1>2 DEF ClaimInv, Recovers
<1>5. DOMAIN queue = {}  BY <1>2
<1>6. \A u \in Turn : rt[u].step # "begin"
  BY <1>2 DEF ClaimInv, TurnFacts, Begins
<1>7. ClaimAgrees'  BY <1>1 DEF ClaimInv, ClaimAgrees, Unfinished
<1>8. CommandShape'  BY <1>1, <1>2, <1>3 DEF CommandShape
<1>9. Managers'
  BY <1>1, <1>2, <1>5 DEF Managers
<1>10. Recovers'  BY <1>1, <1>2, <1>4 DEF ClaimInv, Recovers
<1>11. TurnFacts'
  <2>1. ASSUME NEW u \in Turn PROVE Begins(u)' /\ Left(u)' /\ Rests(u)'
    BY <1>1, <1>6 DEF ClaimInv, TurnFacts, Begins, Left, Rests, Live
  <2>. QED  BY <2>1 DEF TurnFacts
<1>12. BeginErrors'  BY <1>1, <1>2, <1>3 DEF BeginErrors
<1>13. Runs'  BY <1>1, <1>2, <1>4 DEF Runs
<1>14. Newest'
  BY <1>1, <1>2, <1>3 DEF Newest, TurnResult, ReplaceResult
<1>15. Waiting'
  BY <1>1 DEF ClaimInv, Waiting, HasResult
<1>16. Cancels'  BY <1>1 DEF ClaimInv, Cancels
<1>17. Honest'
  BY <1>1 DEF ClaimInv, Honest
<1>. QED
  BY <1>7, <1>8, <1>9, <1>10, <1>11, <1>12, <1>13, <1>14, <1>15, <1>16, <1>17 DEF ClaimInv

LEMMA ShutdownClaim ==
  ASSUME TypeInv, Types, ClaimInv, Shutdown
  PROVE  ClaimInv'
<1>. USE NoTurnAssumption DEF dbVars, envVars, mgrVars, outVars
<1>1. /\ UNCHANGED <<turnRow, sess, faults, cache, current, broken, pending, queue,
                     recoveries, told, earlier, cmd>>
      /\ up = "up" /\ up' = "stopping" /\ mgr \in {"absent", "ready"}
      /\ mgr' = "absent" <=> mgr = "absent"
      /\ mgr' \in {"absent", "closing"}
      /\ rt' \in {rt, CancelRuntime(rt)}
  BY DEF Shutdown
<1>2. /\ \A u \in Turn : SameButCancel(rt[u], rt'[u])
      /\ \A u \in Turn : rt[u].cancelRequested => rt'[u].cancelRequested
      /\ \A u \in Turn : u # current => rt'[u] = rt[u]
  <2>1. \A r : SameButCancel(r, r)  BY DEF SameButCancel
  <2>. QED  BY <1>1, <2>1, CancelTells DEF Types
<1>7. ClaimAgrees'  BY <1>1 DEF ClaimInv, ClaimAgrees, Unfinished
<1>8. CommandShape'  BY <1>1 DEF ClaimInv, CommandShape
<1>9. Managers'
  BY <1>1 DEF ClaimInv, Managers
<1>10. Recovers'  BY <1>1 DEF ClaimInv, Recovers
<1>11. TurnFacts'
  <2>1. ASSUME NEW u \in Turn PROVE Begins(u)' /\ Left(u)' /\ Rests(u)'
    BY <1>1, <1>2 DEF ClaimInv, TurnFacts, Begins, Left, Rests, Live, SameButCancel
  <2>. QED  BY <2>1 DEF TurnFacts
<1>12. BeginErrors'  BY <1>1, <1>2 DEF ClaimInv, BeginErrors, SameButCancel, Types
<1>13. Runs'  BY <1>1, <1>2 DEF ClaimInv, Runs, Live, SameButCancel, Types, TurnOrNone
<1>14. Newest'
  BY <1>1, <1>2 DEF ClaimInv, Newest, TurnResult, ReplaceResult, SameButCancel, Types, TurnOrNone
<1>15. Waiting'
  BY <1>1, <1>2 DEF ClaimInv, Waiting, HasResult, SameButCancel, TurnOrNone
<1>16. Cancels'  BY <1>1, <1>2 DEF ClaimInv, Cancels, Types, TurnOrNone
<1>17. Honest'
  BY <1>1, <1>2 DEF ClaimInv, Honest, SameButCancel
<1>. QED
  BY <1>7, <1>8, <1>9, <1>10, <1>11, <1>12, <1>13, <1>14, <1>15, <1>16, <1>17 DEF ClaimInv

LEMMA DieClaim ==
  ASSUME TypeInv, Types, ClaimInv, Exit \/ Crash
  PROVE  ClaimInv'
<1>. USE NoTurnAssumption DEF dbVars, envVars, mgrVars, outVars
<1>1. /\ UNCHANGED <<turnRow, sess, faults, told>>
      /\ up' = "down" /\ mgr' = "absent" /\ current' = NoTurn /\ ~broken' /\ pending' = NoTurn
      /\ queue' = << >> /\ cmd' = Idle /\ recoveries' = << >> /\ earlier' = {}
      /\ rt' = [t \in Turn |-> IF Live(t) THEN [Unborn EXCEPT !.step = "closed"] ELSE rt[t]]
  BY DEF Exit, Crash, Die, Unloaded
<1>2. Idle.op = "none" /\ Idle.stage = "idle"  BY DEF Idle
<1>3. ASSUME NEW u \in Turn
      PROVE  /\ rt'[u].step \in {"unborn", "closed"} /\ rt'[u].io = "idle"
             /\ rt'[u].begun = "error" => rt[u].begun = "error"
             /\ rt[u].step = "closed" \/ Live(u) => rt'[u].step = "closed"
  <2>1. CASE Live(u)
    <3>1. rt'[u] = [Unborn EXCEPT !.step = "closed"]  BY <1>1, <2>1
    <3>. QED  BY <2>1, <3>1 DEF Unborn
  <2>2. CASE ~Live(u)
    <3>1. rt'[u] = rt[u]  BY <1>1, <2>2
    <3>. QED  BY <2>2, <3>1 DEF ClaimInv, TurnFacts, Rests, Live, Types, Runtime
  <2>. QED  BY <2>1, <2>2
<1>4. DOMAIN queue' = {} /\ DOMAIN recoveries' = {}  BY <1>1
<1>7. ClaimAgrees'  BY <1>1 DEF ClaimInv, ClaimAgrees, Unfinished
<1>8. CommandShape'  BY <1>1, <1>2 DEF CommandShape
<1>9. Managers'
  BY <1>1, <1>3, <1>4 DEF Managers, Live
<1>10. Recovers'  BY <1>1, <1>4 DEF Recovers
<1>11. TurnFacts'
  <2>1. ASSUME NEW u \in Turn PROVE Begins(u)' /\ Left(u)' /\ Rests(u)'
    BY <1>1, <1>3 DEF ClaimInv, TurnFacts, Begins, Left, Rests, Live
  <2>. QED  BY <2>1 DEF TurnFacts
<1>12. BeginErrors'  BY <1>1, <1>2 DEF BeginErrors
<1>13. Runs'  BY <1>1 DEF Runs
<1>14. Newest'  BY <1>1 DEF Newest
<1>15. Waiting'  BY <1>1 DEF Waiting
<1>16. Cancels'  BY <1>1 DEF Cancels
<1>17. Honest'
  BY <1>1, <1>3 DEF ClaimInv, Honest, Live
<1>. QED
  BY <1>7, <1>8, <1>9, <1>10, <1>11, <1>12, <1>13, <1>14, <1>15, <1>16, <1>17 DEF ClaimInv

LEMMA RestartClaim ==
  ASSUME TypeInv, Types, ClaimInv, Restart
  PROVE  ClaimInv' /\ \A t \in Turn : turnRow'[t] # "in_progress"
<1>. USE NoTurnAssumption DEF dbVars, envVars, mgrVars, outVars
<1>1. /\ UNCHANGED <<faults, mgr, cache, current, broken, pending, queue, rt,
                     recoveries, told, earlier, cmd>>
      /\ up = "down" /\ up' = "up"
  BY DEF Restart
<1>2. /\ mgr = "absent" /\ recoveries = << >> /\ \A t \in Turn : ~Live(t)
      /\ current = NoTurn
  BY <1>1 DEF ClaimInv, Managers
<1>3. sess'.active = NoTurn /\ sess'.status = "ready"
  BY DEF Restart, NeedsRecovery, Released, Types, Session
<1>4. \A t \in Turn :
        /\ turnRow'[t] # "in_progress"
        /\ turnRow[t] # "in_progress" => turnRow'[t] = turnRow[t]
        /\ turnRow[t] = "in_progress" => turnRow'[t] = "failed"
  <2>1. CASE NeedsRecovery
    BY <2>1 DEF Restart, Unfinished, Types
  <2>2. CASE ~NeedsRecovery
    <3>1. turnRow' = turnRow /\ sess.active = NoTurn  BY <2>2 DEF Restart, NeedsRecovery
    <3>2. \A t \in Turn : ~Unfinished(t)  BY <3>1 DEF ClaimInv, ClaimAgrees
    <3>. QED  BY <3>1, <3>2 DEF Unfinished
  <2>. QED  BY <2>1, <2>2
<1>7. ClaimAgrees'  BY <1>3, <1>4 DEF ClaimAgrees, Unfinished
<1>8. CommandShape'  BY <1>1 DEF ClaimInv, CommandShape
<1>9. Managers'
  BY <1>1, <1>2 DEF ClaimInv, Managers
<1>10. Recovers'  BY <1>1, <1>2, <1>3 DEF ClaimInv, Recovers
<1>11. TurnFacts'
  <2>1. ASSUME NEW u \in Turn PROVE Begins(u)' /\ Left(u)' /\ Rests(u)'
    BY <1>1, <1>2 DEF ClaimInv, TurnFacts, Begins, Left, Rests, Live
  <2>. QED  BY <2>1 DEF TurnFacts
<1>12. BeginErrors'
  <2>1. cmd = Idle /\ Idle.op = "none"  BY <1>2 DEF ClaimInv, Managers, Idle
  <2>. QED  BY <1>1, <2>1 DEF BeginErrors
<1>13. Runs'  BY <1>1, <1>2 DEF Runs
<1>14. Newest'  BY <1>1, <1>2 DEF Newest
<1>15. Waiting'  BY <1>1 DEF ClaimInv, Waiting, HasResult
<1>16. Cancels'  BY <1>1 DEF ClaimInv, Cancels
<1>17. Honest'
  BY <1>1, <1>4 DEF ClaimInv, Honest
<1>. QED
  BY <1>4, <1>7, <1>8, <1>9, <1>10, <1>11, <1>12, <1>13, <1>14, <1>15, <1>16, <1>17 DEF ClaimInv

LEMMA RecoveriesClaim ==
  ASSUME TypeInv, Types, Types', ClaimInv, NEW i \in DOMAIN recoveries,
         RecoveryCommit(i) \/ RecoveryFault(i)
  PROVE  ClaimInv'
<1>. USE NoTurnAssumption DEF dbVars, envVars, mgrVars, outVars
<1>1. /\ recoveries[i].live /\ faults > 0
      /\ sess.active \in {NoTurn, recoveries[i].turn}
      /\ broken \/ mgr = "absent"
  BY DEF RecoveryCommit, RecoveryFault, ClaimInv, Recovers
<1>2. RecoveryCommit(i)
  BY <1>1, FirstFault DEF RecoveryFault
<1>3. /\ UNCHANGED <<faults, up, mgr, cache, current, broken, pending, queue, rt,
                     told, earlier, cmd>>
      /\ sess' = Released(sess) /\ RecoveryEnds(i)
  BY <1>2 DEF RecoveryCommit
<1>4. current = NoTurn  BY <1>1 DEF ClaimInv, Managers
<1>5. sess'.active = NoTurn /\ sess'.status = "ready"
  BY <1>3 DEF Released, Types, Session
<1>6. /\ DOMAIN recoveries' = DOMAIN recoveries
      /\ \A k \in DOMAIN recoveries : recoveries'[k].live =>
           k # i /\ recoveries'[k] = recoveries[k]
  <2>1. recoveries[i] \in Recovery  BY DEF Types
  <2>2. [recoveries[i] EXCEPT !.live = FALSE].live = FALSE  BY <2>1 DEF Recovery
  <2>. QED  BY <1>3, <2>2 DEF RecoveryEnds, Types
<1>18. \A t \in Turn :
         /\ turnRow'[t] # "in_progress"
         /\ turnRow[t] # "in_progress" => turnRow'[t] = turnRow[t]
         /\ turnRow[t] = "in_progress" => turnRow'[t] = "failed"
  <2>1. \A t \in Turn : turnRow[t] = "in_progress" => recoveries[i].turn = t
    BY <1>1 DEF ClaimInv, ClaimAgrees, Unfinished
  <2>. QED  BY <1>2, <2>1 DEF RecoveryCommit, Unfinished, Types
<1>7. ClaimAgrees'  BY <1>5, <1>18 DEF ClaimAgrees, Unfinished
<1>8. CommandShape'  BY <1>3 DEF ClaimInv, CommandShape
<1>9. Managers'
  <2>1. up # "down"
    <3>1. recoveries # << >>  OBVIOUS
    <3>. QED  BY <3>1 DEF ClaimInv, Managers
  <2>. QED  BY <1>3, <2>1 DEF ClaimInv, Managers
<1>10. Recovers'  BY <1>1, <1>3, <1>5, <1>6 DEF ClaimInv, Recovers
<1>11. TurnFacts'
  <2>1. ASSUME NEW u \in Turn PROVE Begins(u)' /\ Left(u)' /\ Rests(u)'
    BY <1>1, <1>3, <1>4 DEF ClaimInv, TurnFacts, Begins, Left, Rests, Live
  <2>. QED  BY <2>1 DEF TurnFacts
<1>12. BeginErrors'  BY <1>3, <1>5 DEF ClaimInv, BeginErrors
<1>13. Runs'  BY <1>1, <1>3, <1>4 DEF Runs
<1>14. Newest'  BY <1>1, <1>3 DEF Newest
<1>15. Waiting'  BY <1>3 DEF ClaimInv, Waiting, HasResult
<1>16. Cancels'  BY <1>3 DEF ClaimInv, Cancels
<1>17. Honest'
  BY <1>3, <1>18 DEF ClaimInv, Honest
<1>. QED
  BY <1>7, <1>8, <1>9, <1>10, <1>11, <1>12, <1>13, <1>14, <1>15, <1>16, <1>17 DEF ClaimInv


-----------------------------------------------------------------------------
LEMMA BeginCommitClaim ==
  ASSUME RowInv, Types, ClaimInv, NEW t \in Turn, BeginCommit(t)
  PROVE  ClaimInv'
<1>. USE NoTurnAssumption DEF dbVars, envVars, mgrVars, outVars
<1>1. /\ UNCHANGED <<faults, up, mgr, cache, current, broken, pending, queue, cmd,
                     recoveries, told>>
      /\ rt[t].step = "begin" /\ rt[t].io = "asked" /\ Lands(t)
      /\ turnRow' = [turnRow EXCEPT ![t] = "in_progress"]
      /\ sess' = Claimed(sess, t)
      /\ rt' = [rt EXCEPT ![t] = Committed(rt[t], sess', FALSE)]
  BY DEF BeginCommit
<1>2. /\ current = t /\ cmd.op = "create" /\ cmd.stage = "begun" /\ cmd.turn = t
      /\ rt[t].begun = "no" /\ cache.active = NoTurn /\ sess.active = NoTurn
      /\ ~broken /\ mgr # "absent"
  BY <1>1 DEF ClaimInv, TurnFacts, Begins, Managers
<1>3. sess'.active = t /\ sess'.status = "running"
  BY <1>1 DEF Claimed, Types, Session
<1>4. /\ rt'[t].step = "begin" /\ rt'[t].io = "committed" /\ rt'[t].snap = sess'
      /\ rt'[t].begun = rt[t].begun /\ rt'[t].own = rt[t].own
      /\ rt'[t].cancelRequested = rt[t].cancelRequested
      /\ \A u \in Turn : u # t => rt'[u] = rt[u]
  <2>1. rt[t] \in Runtime  BY DEF Types
  <2>. QED  BY <1>1, <2>1 DEF Committed, Runtime, Types
<1>5. /\ \A y \in TurnOrNone : HasResult(y) => <<y, t>> \in earlier'
      /\ \A y, z \in TurnOrNone : <<y, z>> \in earlier' =>
           <<y, z>> \in earlier \/ (z = t /\ HasResult(y))
  BY <1>1, LandsPairs
<1>6. turnRow[t] = "none"
  BY <1>1 DEF RowInv, RuntimesMatchRows, Matches
<1>18. \A i \in DOMAIN recoveries : ~recoveries[i].live
  BY <1>2 DEF ClaimInv, Recovers
<1>. HIDE DEF BeginCommit
<1>7. ClaimAgrees'
  BY <1>1, <1>2, <1>3 DEF ClaimInv, ClaimAgrees, Unfinished, Types
<1>8. CommandShape'  BY <1>1 DEF ClaimInv, CommandShape
<1>9. Managers'
  BY <1>1, <1>2, <1>4 DEF ClaimInv, Managers, Live
<1>10. Recovers'  BY <1>1, <1>2, <1>3, <1>18 DEF ClaimInv, Recovers
<1>11. TurnFacts'
  <2>1. Begins(t)' /\ Left(t)' /\ Rests(t)'
    BY <1>1, <1>2, <1>3, <1>4 DEF Begins, Left, Rests, Live
  <2>2. ASSUME NEW u \in Turn, u # t PROVE Begins(u)' /\ Left(u)' /\ Rests(u)'
    BY <1>1, <1>2, <1>4, <2>2 DEF ClaimInv, TurnFacts, Begins, Left, Rests, Live
  <2>. QED  BY <2>1, <2>2 DEF TurnFacts
<1>12. BeginErrors'  BY <1>1, <1>2, <1>4 DEF BeginErrors
<1>13. Runs'  BY <1>1, <1>2, <1>4 DEF ClaimInv, Runs, Live
<1>14. Newest'
  BY <1>1, <1>2, <1>4 DEF Newest, TurnResult, ReplaceResult
<1>15. Waiting'
  <2>1. \A x \in TurnOrNone : HasResult(x) => HasResult(x)'
    BY <1>1, <1>4 DEF HasResult, TurnOrNone
  <2>2. HasResult(t)'  BY <1>4 DEF HasResult
  <2>. QED  BY <1>5, <2>1, <2>2 DEF ClaimInv, Waiting
<1>16. Cancels'  BY <1>1, <1>2 DEF ClaimInv, Cancels
<1>17. Honest'
  BY <1>1, <1>2, <1>4, <1>6 DEF ClaimInv, Honest, Types
<1>. QED
  BY <1>7, <1>8, <1>9, <1>10, <1>11, <1>12, <1>13, <1>14, <1>15, <1>16, <1>17 DEF ClaimInv

LEMMA EventCommitClaim ==
  ASSUME RowInv, Types, ClaimInv, NEW t \in Turn, EventCommit(t)
  PROVE  ClaimInv'
<1>. USE NoTurnAssumption DEF dbVars, envVars, mgrVars, outVars
<1>1. /\ UNCHANGED <<turnRow, sess, faults, up, mgr, cache, current, broken, pending, queue,
                     cmd, recoveries, told>>
      /\ rt[t].step = "stream" /\ rt[t].io = "asked" /\ Lands(t)
      /\ rt' = [rt EXCEPT ![t] = Committed(rt[t], sess, FALSE)]
  BY DEF EventCommit
<1>4. /\ rt'[t].step = "stream" /\ rt'[t].io = "committed" /\ rt'[t].snap = sess
      /\ rt'[t].begun = rt[t].begun /\ rt'[t].own = rt[t].own
      /\ rt'[t].cancelRequested = rt[t].cancelRequested
      /\ \A u \in Turn : u # t => rt'[u] = rt[u]
  <2>1. rt[t] \in Runtime  BY DEF Types
  <2>. QED  BY <1>1, <2>1 DEF Committed, Runtime, Types
<1>5. /\ earlier \subseteq earlier'
      /\ \A y \in TurnOrNone : HasResult(y) => <<y, t>> \in earlier'
      /\ \A y, z \in TurnOrNone : <<y, z>> \in earlier' =>
           <<y, z>> \in earlier \/ (z = t /\ HasResult(y))
  BY <1>1, LandsPairs
<1>. HIDE DEF EventCommit
<1>7. ClaimAgrees'
  BY <1>1 DEF ClaimInv, ClaimAgrees, Unfinished
<1>8. CommandShape'  BY <1>1 DEF ClaimInv, CommandShape
<1>9. Managers'
  BY <1>1, <1>4 DEF ClaimInv, Managers, Live
<1>10. Recovers'  BY <1>1 DEF ClaimInv, Recovers
<1>11. TurnFacts'
  <2>1. Begins(t)' /\ Rests(t)'
    <3>1. Begins(t)  BY DEF ClaimInv, TurnFacts
    <3>2. Begins(t)'  BY <1>1, <1>4, <3>1 DEF Begins
    <3>3. Rests(t)'  BY <1>4 DEF Rests, Live
    <3>. QED  BY <3>2, <3>3
  <2>3. Left(t)'
    <3>1. Left(t)  BY DEF ClaimInv, TurnFacts
    <3>. QED  BY <1>1, <1>4, <3>1 DEF Left, Live
  <2>2. ASSUME NEW u \in Turn, u # t PROVE Begins(u)' /\ Left(u)' /\ Rests(u)'
    BY <1>1, <1>4, <2>2 DEF ClaimInv, TurnFacts, Begins, Left, Rests, Live
  <2>. QED  BY <2>1, <2>2, <2>3 DEF TurnFacts
<1>12. BeginErrors'
  BY <1>1, <1>4 DEF ClaimInv, BeginErrors, Types
<1>13. Runs'
  <2>1. CASE current = t  BY <1>1, <1>4, <2>1 DEF ClaimInv, Runs, Live
  <2>2. CASE current # t
    BY <1>1, <1>4, <2>2 DEF ClaimInv, Runs, Live, Types, TurnOrNone
  <2>. QED  BY <2>1, <2>2
<1>14. Newest'
  <2>1. CASE current = t
    <3>1. ~TurnResult /\ TurnResult' /\ (ReplaceResult' <=> ReplaceResult)
      BY <1>1, <1>4, <2>1 DEF TurnResult, ReplaceResult
    <3>2. rt'[current'].snap = sess' /\ sess.active = current
      BY <1>1, <1>4, <2>1 DEF ClaimInv, Runs
    <3>3. ReplaceResult => <<NoTurn, current>> \in earlier'
      BY <1>5, <2>1 DEF HasResult, ReplaceResult, TurnOrNone
    <3>. QED  BY <1>1, <3>1, <3>2, <3>3 DEF ClaimInv, Newest
  <2>2. CASE current # t
    <3>1. (TurnResult' <=> TurnResult) /\ (ReplaceResult' <=> ReplaceResult)
      BY <1>1, <1>4, <2>2 DEF TurnResult, ReplaceResult, Types, TurnOrNone
    <3>2. current # NoTurn => rt'[current'] = rt[current]
      BY <1>1, <1>4, <2>2 DEF Types, TurnOrNone
    <3>3. \A y \in TurnOrNone : <<y, current>> \in earlier' <=> <<y, current>> \in earlier
      BY <1>5, <2>2 DEF Types
    <3>. QED
      BY <1>1, <1>5, <3>1, <3>2, <3>3 DEF ClaimInv, Newest, TurnResult, TurnOrNone
  <2>. QED  BY <2>1, <2>2
<1>15. Waiting'
  <2>1. \A x \in TurnOrNone : HasResult(x) => HasResult(x)'
    BY <1>1, <1>4 DEF HasResult, TurnOrNone
  <2>2. HasResult(t)'  BY <1>4 DEF HasResult
  <2>. QED  BY <1>5, <2>1, <2>2 DEF ClaimInv, Waiting
<1>16. Cancels'
  BY <1>1, <1>4 DEF ClaimInv, Cancels, Types, TurnOrNone
<1>17. Honest'
  BY <1>1, <1>4 DEF ClaimInv, Honest
<1>. QED
  BY <1>7, <1>8, <1>9, <1>10, <1>11, <1>12, <1>13, <1>14, <1>15, <1>16, <1>17 DEF ClaimInv

(* The turn whose claim it is not writes nothing that a loaded manager     *)
(* would miss.                                                             *)
LEMMA OthersAreSettled ==
  ASSUME Types, ClaimInv, NEW t \in Turn, Live(t), current # t
  PROVE  /\ current # NoTurn => ~Unfinished(t)
         /\ ~broken /\ mgr # "absent" => ~Unfinished(t)
<1>. USE NoTurnAssumption
<1>1. Unfinished(t) => sess.active = t  BY DEF ClaimInv, ClaimAgrees
<1>2. current # NoTurn => sess.active \in {NoTurn, current}
  BY DEF ClaimInv, Runs, Live, TurnFacts, Begins, Types, TurnOrNone
<1>3. current = NoTurn /\ ~broken /\ mgr # "absent" => sess.active = NoTurn
  BY DEF ClaimInv, Runs
<1>. QED  BY <1>1, <1>2, <1>3

LEMMA FinishCommitClaim ==
  ASSUME RowInv, Types, ClaimInv, NEW t \in Turn, FinishCommit(t)
  PROVE  ClaimInv'
<1>. USE NoTurnAssumption DEF dbVars, envVars, mgrVars, outVars
<1>1. /\ UNCHANGED <<faults, up, mgr, cache, current, broken, pending, queue,
                     cmd, recoveries, told>>
      /\ rt[t].step = "finish" /\ rt[t].io = "asked" /\ Lands(t)
      /\ turnRow' = IF Unfinished(t) THEN [turnRow EXCEPT ![t] = rt[t].status] ELSE turnRow
      /\ sess' = IF Unfinished(t) THEN Released(sess) ELSE sess
      /\ rt' = [rt EXCEPT ![t] = Committed(rt[t], sess', Unfinished(t))]
  BY DEF FinishCommit
<1>2. rt[t].status \in Terminal /\ Live(t) /\ rt[t] \in Runtime
  BY <1>1 DEF RowInv, TypeInv, RuntimesOK, RuntimeOK, Live
<1>3. /\ Unfinished(t) => /\ sess'.active = NoTurn /\ sess'.status = "ready"
                          /\ turnRow'[t] = rt[t].status /\ sess.active = t
      /\ ~Unfinished(t) => sess' = sess /\ turnRow' = turnRow
      /\ \A u \in Turn : u # t => turnRow'[u] = turnRow[u]
  BY <1>1 DEF Released, Types, Session, ClaimInv, ClaimAgrees
<1>4. /\ rt'[t].step = "finish" /\ rt'[t].io = "committed" /\ rt'[t].snap = sess'
      /\ rt'[t].begun = rt[t].begun /\ rt'[t].own = rt[t].own
      /\ rt'[t].status = rt[t].status
      /\ rt'[t].cancelRequested = rt[t].cancelRequested
      /\ Unfinished(t) => rt'[t].won
      /\ \A u \in Turn : u # t => rt'[u] = rt[u]
  <2>1. PICK w \in BOOLEAN : w = Unfinished(t)  BY DEF Unfinished
  <2>2. rt' = [rt EXCEPT ![t] = Committed(rt[t], sess', w)]  BY <1>1, <2>1
  <2>3. rt'[t] = Committed(rt[t], sess', w)  BY <2>2 DEF Types
  <2>4. /\ Committed(rt[t], sess', w).step = "finish"
        /\ Committed(rt[t], sess', w).io = "committed"
        /\ Committed(rt[t], sess', w).snap = sess'
        /\ Committed(rt[t], sess', w).begun = rt[t].begun
        /\ Committed(rt[t], sess', w).own = rt[t].own
        /\ Committed(rt[t], sess', w).status = rt[t].status
        /\ Committed(rt[t], sess', w).cancelRequested = rt[t].cancelRequested
        /\ Committed(rt[t], sess', w).won = w
    BY <1>1, <1>2 DEF Committed, Runtime
  <2>. QED  BY <2>1, <2>2, <2>3, <2>4 DEF Types
<1>5. /\ earlier \subseteq earlier'
      /\ \A y \in TurnOrNone : HasResult(y) => <<y, t>> \in earlier'
      /\ \A y, z \in TurnOrNone : <<y, z>> \in earlier' =>
           <<y, z>> \in earlier \/ (z = t /\ HasResult(y))
  BY <1>1, LandsPairs
<1>6. current = t => Unfinished(t)
  BY <1>1 DEF ClaimInv, Runs, ClaimAgrees
<1>18. current # t =>
         /\ current # NoTurn => sess' = sess
         /\ ~broken /\ mgr # "absent" => sess' = sess
  BY <1>2, <1>3, OthersAreSettled
<1>. HIDE DEF FinishCommit
<1>7. ClaimAgrees'
  BY <1>2, <1>3 DEF ClaimInv, ClaimAgrees, Unfinished, Terminal
<1>8. CommandShape'  BY <1>1 DEF ClaimInv, CommandShape
<1>9. Managers'
  BY <1>1, <1>2, <1>4 DEF ClaimInv, Managers, Live
<1>10. Recovers'  BY <1>1, <1>3 DEF ClaimInv, Recovers
<1>11. TurnFacts'
  <2>1. Begins(t)' /\ Rests(t)'
    BY <1>1, <1>4 DEF ClaimInv, TurnFacts, Begins, Rests, Live
  <2>4. Left(t)'
    <3>1. Left(t)  BY DEF ClaimInv, TurnFacts
    <3>2. sess.active \in {NoTurn, t} => sess'.active \in {NoTurn, t}
      BY <1>3
    <3>. QED  BY <1>1, <1>2, <1>4, <3>1, <3>2 DEF Left, Live
  <2>2. ASSUME NEW u \in Turn, u # t PROVE Begins(u)' /\ Rests(u)'
    BY <1>1, <1>4, <1>18, <2>2 DEF ClaimInv, TurnFacts, Begins, Rests, Live
  <2>3. ASSUME NEW u \in Turn, u # t PROVE Left(u)'
    <3>1. Left(u)  BY DEF ClaimInv, TurnFacts
    <3>2. Unfinished(t) => sess.active # u /\ sess'.active = NoTurn
      BY <1>3, <2>3
    <3>. QED  BY <1>1, <1>3, <1>4, <2>3, <3>1, <3>2 DEF Left, Live
  <2>. QED  BY <2>1, <2>2, <2>3, <2>4 DEF TurnFacts
<1>12. BeginErrors'
  BY <1>1, <1>3, <1>4 DEF ClaimInv, BeginErrors, Types
<1>13. Runs'
  <2>1. CASE current = t
    <3>1. rt[t].own /\ cache.active = t  BY <1>1, <2>1 DEF ClaimInv, Runs
    <3>2. /\ current' = t /\ cache'.active = t /\ rt'[t].own /\ rt'[t].won
          /\ rt'[t].snap.active = NoTurn /\ sess'.active = NoTurn
      BY <1>1, <1>3, <1>4, <1>6, <2>1, <3>1
    <3>. QED  BY <1>4, <3>2 DEF Runs, Live
  <2>2. CASE current # t /\ current # NoTurn
    BY <1>1, <1>4, <1>18, <2>2 DEF ClaimInv, Runs, Live, Types, TurnOrNone
  <2>3. CASE current = NoTurn
    BY <1>1, <1>18, <2>3 DEF ClaimInv, Runs
  <2>. QED  BY <2>1, <2>2, <2>3
<1>14. Newest'
  <2>1. CASE current = t
    <3>1. ~TurnResult /\ TurnResult' /\ (ReplaceResult' <=> ReplaceResult)
      BY <1>1, <1>4, <2>1 DEF TurnResult, ReplaceResult
    <3>2. rt'[current'].snap = sess' /\ sess.active = current
      BY <1>1, <1>4, <2>1 DEF ClaimInv, Runs
    <3>3. ReplaceResult => <<NoTurn, current>> \in earlier'
      BY <1>5, <2>1 DEF HasResult, ReplaceResult, TurnOrNone
    <3>. QED  BY <1>1, <3>1, <3>2, <3>3 DEF ClaimInv, Newest
  <2>2. CASE current # t
    <3>1. (TurnResult' <=> TurnResult) /\ (ReplaceResult' <=> ReplaceResult)
      BY <1>1, <1>4, <2>2 DEF TurnResult, ReplaceResult, Types, TurnOrNone
    <3>2. current # NoTurn => rt'[current'] = rt[current]
      BY <1>1, <1>4, <2>2 DEF Types, TurnOrNone
    <3>3. \A y \in TurnOrNone : <<y, current>> \in earlier' <=> <<y, current>> \in earlier
      BY <1>5, <2>2 DEF Types
    <3>. QED
      BY <1>1, <1>5, <1>18, <2>2, <3>1, <3>2, <3>3 DEF ClaimInv, Newest, TurnResult, TurnOrNone
  <2>. QED  BY <2>1, <2>2
<1>15. Waiting'
  <2>1. \A x \in TurnOrNone : HasResult(x) => HasResult(x)'
    BY <1>1, <1>4 DEF HasResult, TurnOrNone
  <2>2. HasResult(t)'  BY <1>4 DEF HasResult
  <2>. QED  BY <1>5, <2>1, <2>2 DEF ClaimInv, Waiting
<1>16. Cancels'
  BY <1>1, <1>4 DEF ClaimInv, Cancels, Types, TurnOrNone
<1>17. Honest'
  BY <1>1, <1>3, <1>4 DEF ClaimInv, Honest, Unfinished
<1>. QED
  BY <1>7, <1>8, <1>9, <1>10, <1>11, <1>12, <1>13, <1>14, <1>15, <1>16, <1>17 DEF ClaimInv


-----------------------------------------------------------------------------
(* The loaded manager hears only of its current runtime.                   *)
LEMMA OnlyCurrentRefreshes ==
  ASSUME Types, ClaimInv, NEW t \in Turn, Live(t), Refresh(t), current # t
  PROVE  /\ current # NoTurn => cache' = cache
         /\ ~broken => cache' = cache
  BY DEF ClaimInv, TurnFacts, Left, Managers, Refresh

LEMMA BeginResumeClaim ==
  ASSUME ~crossed', RowInv, Types, ClaimInv, NEW t \in Turn, BeginResume(t)
  PROVE  ClaimInv'
<1>. USE NoTurnAssumption DEF dbVars, envVars, mgrVars, outVars
<1>1. /\ UNCHANGED <<turnRow, sess, faults, up, mgr, current, broken, pending, queue,
                     cmd, recoveries, told>>
      /\ rt[t].step = "begin" /\ rt[t].io = "committed" /\ TakeUp(t) /\ Refresh(t)
      /\ rt' = [rt EXCEPT ![t] = Began(Taken(rt[t]))]
  BY DEF BeginResume
<1>2. /\ current = t /\ cmd.op = "create" /\ cmd.stage = "begun" /\ cmd.turn = t
      /\ sess.active = t /\ rt[t].snap.active = t /\ rt[t].own
      /\ ~broken /\ mgr # "absent"
  BY <1>1 DEF ClaimInv, TurnFacts, Begins, Managers, Runs
<1>3. cache' = rt[t].snap /\ rt[t].snap = sess
  <2>1. TurnResult /\ ~ReplaceResult
    BY <1>1, <1>2 DEF TurnResult, ReplaceResult
  <2>. QED  BY <1>1, <1>2, <2>1 DEF Refresh, ClaimInv, Newest
<1>4. /\ \/ rt'[t].step = "stream" /\ rt'[t].io = "idle"
         \/ rt'[t].step = "finish" /\ rt'[t].io = "asked"
      /\ rt'[t].begun = "ok" /\ rt'[t].own
      /\ \A u \in Turn : u # t => rt'[u] = rt[u]
  <2>1. rt[t] \in Runtime  BY DEF Types
  <2>2. /\ Taken(rt[t]) \in Runtime /\ Taken(rt[t]).own /\ Taken(rt[t]).io = "idle"
    BY <1>2, <2>1, FreshType DEF Taken, Runtime
  <2>3. rt'[t] = Began(Taken(rt[t]))  BY <1>1 DEF Types
  <2>. HIDE DEF Taken
  <2>. QED  BY <1>1, <2>2, <2>3 DEF Began, Finishing, Runtime, Types
<1>5. \A y, z : <<y, z>> \in earlier' <=> <<y, z>> \in earlier /\ y # t /\ z # t
  BY <1>1, TakeUpPairs
<1>. HIDE DEF BeginResume
<1>7. ClaimAgrees'
  BY <1>1 DEF ClaimInv, ClaimAgrees, Unfinished
<1>8. CommandShape'  BY <1>1 DEF ClaimInv, CommandShape
<1>9. Managers'
  BY <1>1, <1>2, <1>4 DEF ClaimInv, Managers, Live
<1>10. Recovers'  BY <1>1 DEF ClaimInv, Recovers
<1>11. TurnFacts'
  <2>1. Begins(t)' /\ Left(t)' /\ Rests(t)'
    BY <1>1, <1>2, <1>4 DEF Begins, Left, Rests, Live
  <2>2. ASSUME NEW u \in Turn, u # t PROVE Begins(u)' /\ Left(u)' /\ Rests(u)'
    BY <1>1, <1>2, <1>4, <2>2 DEF ClaimInv, TurnFacts, Begins, Left, Rests, Live
  <2>. QED  BY <2>1, <2>2 DEF TurnFacts
<1>12. BeginErrors'
  BY <1>1, <1>2, <1>4 DEF BeginErrors
<1>13. Runs'
  BY <1>1, <1>2, <1>3, <1>4 DEF Runs, Live
<1>14. Newest'
  BY <1>1, <1>2, <1>3, <1>4 DEF Newest, TurnResult, ReplaceResult
<1>15. Waiting'
  BY <1>1, <1>4, <1>5 DEF ClaimInv, Waiting, HasResult, TurnOrNone
<1>16. Cancels'
  BY <1>1, <1>2 DEF ClaimInv, Cancels
<1>17. Honest'
  <2>1. turnRow[t] = "in_progress"
    BY <1>2 DEF ClaimInv, ClaimAgrees, Unfinished
  <2>. QED  BY <1>1, <1>4, <2>1 DEF ClaimInv, Honest
<1>. QED
  BY <1>7, <1>8, <1>9, <1>10, <1>11, <1>12, <1>13, <1>14, <1>15, <1>16, <1>17 DEF ClaimInv

LEMMA EventResumeClaim ==
  ASSUME ~crossed', RowInv, Types, ClaimInv, NEW t \in Turn, EventResume(t)
  PROVE  ClaimInv'
<1>. USE NoTurnAssumption DEF dbVars, envVars, mgrVars, outVars
<1>1. /\ UNCHANGED <<turnRow, sess, faults, up, mgr, current, broken, pending, queue,
                     cmd, recoveries, told>>
      /\ rt[t].step = "stream" /\ rt[t].io = "committed" /\ TakeUp(t) /\ Refresh(t)
      /\ rt' = [rt EXCEPT ![t] = Taken(rt[t])]
  BY DEF EventResume
<1>2. Live(t)  BY <1>1 DEF Live
<1>3. /\ current = t => cache' = rt[t].snap
      /\ current # t /\ current # NoTurn => cache' = cache
      /\ current # t /\ ~broken => cache' = cache
  <2>1. current = t => rt[t].own  BY DEF ClaimInv, Runs
  <2>2. current = t => cache' = rt[t].snap  BY <1>1, <2>1 DEF Refresh
  <2>. QED  BY <1>1, <1>2, <2>2, OnlyCurrentRefreshes
<1>4. /\ rt'[t].step = "stream" /\ rt'[t].io = "idle"
      /\ rt'[t].begun = rt[t].begun /\ rt'[t].own = rt[t].own
      /\ rt'[t].cancelRequested = rt[t].cancelRequested
      /\ ~rt[t].own => rt'[t].other = rt[t].snap.active
      /\ \A u \in Turn : u # t => rt'[u] = rt[u]
  <2>1. rt[t] \in Runtime  BY DEF Types
  <2>. QED  BY <1>1, <2>1 DEF Taken, Runtime, Types
<1>5. /\ \A y \in TurnOrNone : <<y, t>> \notin earlier
      /\ \A y, z : <<y, z>> \in earlier' <=> <<y, z>> \in earlier /\ y # t /\ z # t
  BY <1>1, TakeUpPairs
<1>. HIDE DEF EventResume
<1>7. ClaimAgrees'
  BY <1>1 DEF ClaimInv, ClaimAgrees, Unfinished
<1>8. CommandShape'  BY <1>1 DEF ClaimInv, CommandShape
<1>9. Managers'
  BY <1>1, <1>2, <1>4 DEF ClaimInv, Managers, Live
<1>10. Recovers'  BY <1>1 DEF ClaimInv, Recovers
<1>11. TurnFacts'
  <2>1. Begins(t)' /\ Rests(t)'
    <3>1. Begins(t)  BY DEF ClaimInv, TurnFacts
    <3>2. Begins(t)'  BY <1>1, <1>4, <3>1 DEF Begins
    <3>3. Rests(t)'  BY <1>4 DEF Rests, Live
    <3>. QED  BY <3>2, <3>3
  <2>3. Left(t)'
    <3>1. Left(t)  BY DEF ClaimInv, TurnFacts
    <3>. QED  BY <1>1, <1>4, <3>1 DEF Left, Live
  <2>2. ASSUME NEW u \in Turn, u # t PROVE Begins(u)' /\ Left(u)' /\ Rests(u)'
    BY <1>1, <1>3, <1>4, <2>2 DEF ClaimInv, TurnFacts, Begins, Left, Rests, Live
  <2>. QED  BY <2>1, <2>2, <2>3 DEF TurnFacts
<1>12. BeginErrors'
  BY <1>1, <1>4 DEF ClaimInv, BeginErrors, Types
<1>13. Runs'
  <2>1. CASE current = t
    <3>1. sess.active = t /\ rt[t].own /\ rt[t].snap.active = t
      BY <1>1, <2>1 DEF ClaimInv, Runs
    <3>. QED  BY <1>1, <1>3, <1>4, <2>1, <3>1 DEF Runs, Live
  <2>2. CASE current # t
    BY <1>1, <1>3, <1>4, <2>2 DEF ClaimInv, Runs, Live, Types, TurnOrNone
  <2>. QED  BY <2>1, <2>2
<1>14. Newest'
  <2>1. CASE current = t
    <3>1. TurnResult /\ ~TurnResult' /\ (ReplaceResult' <=> ReplaceResult)
      BY <1>1, <1>4, <2>1 DEF TurnResult, ReplaceResult
    <3>2. <<NoTurn, current>> \notin earlier  BY <1>5, <2>1 DEF TurnOrNone
    <3>. QED  BY <1>1, <1>3, <2>1, <3>1, <3>2 DEF ClaimInv, Newest
  <2>2. CASE current # t
    <3>1. (TurnResult' <=> TurnResult) /\ (ReplaceResult' <=> ReplaceResult)
      BY <1>1, <1>4, <2>2 DEF TurnResult, ReplaceResult, Types, TurnOrNone
    <3>2. current # NoTurn => rt'[current'] = rt[current]
      BY <1>1, <1>4, <2>2 DEF Types, TurnOrNone
    <3>3. /\ <<NoTurn, current>> \in earlier' <=> <<NoTurn, current>> \in earlier
          /\ <<current, NoTurn>> \in earlier' <=> <<current, NoTurn>> \in earlier
      BY <1>5, <2>2
    <3>. QED
      BY <1>1, <1>3, <2>2, <3>1, <3>2, <3>3 DEF ClaimInv, Newest, TurnResult
  <2>. QED  BY <2>1, <2>2
<1>15. Waiting'
  BY <1>1, <1>4, <1>5 DEF ClaimInv, Waiting, HasResult, TurnOrNone
<1>16. Cancels'
  BY <1>1, <1>4 DEF ClaimInv, Cancels, Types, TurnOrNone
<1>17. Honest'
  BY <1>1, <1>4 DEF ClaimInv, Honest
<1>. QED
  BY <1>7, <1>8, <1>9, <1>10, <1>11, <1>12, <1>13, <1>14, <1>15, <1>16, <1>17 DEF ClaimInv

LEMMA FinishResumeClaim ==
  ASSUME ~crossed', RowInv, Types, ClaimInv, NEW t \in Turn, FinishResume(t)
  PROVE  ClaimInv'
<1>. USE NoTurnAssumption DEF dbVars, envVars, mgrVars, outVars
<1>1. /\ UNCHANGED <<turnRow, sess, faults, up, mgr, broken, queue, recoveries>>
      /\ rt[t].step = "finish" /\ rt[t].io = "committed" /\ TakeUp(t) /\ Refresh(t)
      /\ rt' = [rt EXCEPT ![t] = Closed(Taken(rt[t]))]
  BY DEF FinishResume
<1>2. Live(t)  BY <1>1 DEF Live
<1>3. /\ current = t => cache' = rt[t].snap
      /\ current # t /\ current # NoTurn => cache' = cache
      /\ current # t /\ ~broken => cache' = cache
  <2>1. current = t => rt[t].own  BY DEF ClaimInv, Runs
  <2>2. current = t => cache' = rt[t].snap  BY <1>1, <2>1 DEF Refresh
  <2>. QED  BY <1>1, <1>2, <2>2, OnlyCurrentRefreshes
<1>4. /\ rt'[t].step = "closed" /\ rt'[t].io = "idle" /\ rt'[t].begun = rt[t].begun
      /\ \A u \in Turn : u # t => rt'[u] = rt[u]
  <2>1. rt[t] \in Runtime  BY DEF Types
  <2>. QED  BY <1>1, <2>1 DEF Taken, Closed, Runtime, Types
<1>5. /\ \A y \in TurnOrNone : <<y, t>> \notin earlier
      /\ \A y, z : <<y, z>> \in earlier' <=> <<y, z>> \in earlier /\ y # t /\ z # t
  BY <1>1, TakeUpPairs
<1>6. current # t => /\ UNCHANGED <<current, pending, cmd, told>>
  <2>1. ASSUME current # t, rt[t].own PROVE current = NoTurn /\ pending = NoTurn
    BY <1>2, <2>1 DEF ClaimInv, TurnFacts, Left, Managers
  <2>. QED  BY <2>1 DEF FinishResume
<1>18. current = t =>
         /\ rt[t].own /\ rt[t].won /\ rt[t].snap.active = NoTurn /\ sess.active = NoTurn
         /\ current' = NoTurn /\ pending' = NoTurn
         /\ cmd' = cmd \/ (pending = t /\ cmd' = Idle)
         /\ told' = told \/ told' = told \cup {<<t, rt[t].status>>}
         /\ ~broken /\ turnRow[t] = rt[t].status
  <2>1. ASSUME current = t
        PROVE  /\ rt[t].own /\ rt[t].won /\ rt[t].snap.active = NoTurn
               /\ sess.active = NoTurn /\ ~broken
               /\ pending \in {NoTurn, t}
    BY <1>1, <2>1 DEF ClaimInv, Runs, Managers, Cancels
  <2>2. rt[t].won => turnRow[t] = rt[t].status
    BY DEF RowInv, RuntimesMatchRows, Matches
  <2>. QED  BY <2>1, <2>2 DEF FinishResume
<1>19. Idle.op = "none" /\ Idle.stage = "idle"  BY DEF Idle
<1>20. \/ cmd' = cmd
       \/ cmd.op = "cancel" /\ cmd.stage = "wait" /\ cmd'.op = "none" /\ cmd'.stage = "idle"
          /\ cmd' = Idle
  BY <1>6, <1>18, <1>19 DEF ClaimInv, Cancels, CommandShape
<1>. HIDE DEF FinishResume
<1>7. ClaimAgrees'
  BY <1>1 DEF ClaimInv, ClaimAgrees, Unfinished
<1>8. CommandShape'  BY <1>20 DEF ClaimInv, CommandShape
<1>9. Managers'
  <2>1. mgr \in {"absent", "loading"} => cmd' = cmd
    BY <1>20, <1>19 DEF ClaimInv, Managers
  <2>2. up # "down"  BY <1>2 DEF ClaimInv, Managers
  <2>. QED  BY <1>1, <1>6, <1>18, <2>1, <2>2 DEF ClaimInv, Managers
<1>10. Recovers'  BY <1>1, <1>6, <1>18 DEF ClaimInv, Recovers
<1>11. TurnFacts'
  <2>1. Begins(t)' /\ Rests(t)' /\ Left(t)'
    BY <1>1, <1>4 DEF ClaimInv, TurnFacts, Begins, Rests, Left, Live
  <2>2. ASSUME NEW u \in Turn, u # t PROVE Begins(u)' /\ Rests(u)'
    BY <1>1, <1>3, <1>4, <1>6, <2>2 DEF ClaimInv, TurnFacts, Begins, Rests, Live
  <2>3. ASSUME NEW u \in Turn, u # t PROVE Left(u)'
    <3>1. Left(u)  BY DEF ClaimInv, TurnFacts
    <3>. QED  BY <1>1, <1>4, <1>6, <1>18, <2>3, <3>1 DEF Left, Live
  <2>. QED  BY <2>1, <2>2, <2>3 DEF TurnFacts
<1>12. BeginErrors'
  <2>1. \A u \in Turn : rt'[u].begun = rt[u].begun  BY <1>4
  <2>. QED  BY <1>1, <1>20, <2>1 DEF ClaimInv, BeginErrors, Types
<1>13. Runs'
  <2>1. CASE current = t
    BY <1>1, <1>3, <1>18, <2>1 DEF Runs
  <2>2. CASE current # t
    BY <1>1, <1>3, <1>4, <1>6, <2>2 DEF ClaimInv, Runs, Live, Types, TurnOrNone
  <2>. QED  BY <2>1, <2>2
<1>14. Newest'
  <2>3. ReplaceResult' <=> ReplaceResult  BY <1>20 DEF ReplaceResult
  <2>4. ReplaceResult => cmd' = cmd  BY <1>20 DEF ReplaceResult
  <2>1. CASE current = t
    <3>1. TurnResult /\ ~TurnResult'
      BY <1>1, <1>18, <2>1 DEF TurnResult
    <3>2. <<NoTurn, current>> \notin earlier  BY <1>5, <2>1 DEF TurnOrNone
    <3>. QED  BY <1>1, <1>3, <2>1, <2>3, <2>4, <3>1, <3>2 DEF ClaimInv, Newest
  <2>2. CASE current # t
    <3>1. TurnResult' <=> TurnResult
      BY <1>1, <1>4, <1>6, <2>2 DEF TurnResult, Types, TurnOrNone
    <3>2. current # NoTurn => rt'[current'] = rt[current]
      BY <1>1, <1>4, <1>6, <2>2 DEF Types, TurnOrNone
    <3>3. /\ <<NoTurn, current>> \in earlier' <=> <<NoTurn, current>> \in earlier
          /\ <<current, NoTurn>> \in earlier' <=> <<current, NoTurn>> \in earlier
      BY <1>5, <2>2
    <3>. QED
      BY <1>1, <1>3, <1>6, <2>2, <2>3, <3>1, <3>2, <3>3 DEF ClaimInv, Newest, TurnResult
  <2>. QED  BY <2>1, <2>2
<1>15. Waiting'
  BY <1>1, <1>4, <1>5, <1>20 DEF ClaimInv, Waiting, HasResult, TurnOrNone
<1>16. Cancels'
  BY <1>1, <1>4, <1>6, <1>18 DEF ClaimInv, Cancels, Types, TurnOrNone
<1>17. Honest'
  <2>1. ASSUME NEW p \in Turn, <<p, "failed">> \in told
        PROVE  \/ turnRow'[p] = "failed"
               \/ turnRow'[p] = "in_progress" /\ rt'[p].step = "closed"
               \/ turnRow'[p] = "in_progress" /\ rt'[p].step = "finish" /\ rt'[p].status = "failed"
    BY <1>1, <1>4, <2>1 DEF ClaimInv, Honest
  <2>2. told' = told \/ (told' = told \cup {<<t, rt[t].status>>} /\ turnRow[t] = rt[t].status)
    BY <1>6, <1>18
  <2>. QED  BY <1>1, <2>1, <2>2 DEF Honest
<1>. QED
  BY <1>7, <1>8, <1>9, <1>10, <1>11, <1>12, <1>13, <1>14, <1>15, <1>16, <1>17 DEF ClaimInv


LEMMA StreamClaim ==
  ASSUME TypeInv, Types, ClaimInv, NEW t \in Turn, AgentEvent(t) \/ StreamEnds(t)
  PROVE  ClaimInv'
<1>. USE NoTurnAssumption DEF dbVars, envVars, mgrVars, outVars
<1>1. /\ UNCHANGED <<turnRow, sess, faults, up, mgr, cache, current, broken, pending, queue,
                     cmd, recoveries, told, earlier>>
      /\ rt[t].step = "stream" /\ rt[t].io = "idle"
  BY DEF AgentEvent, StreamEnds
<1>4. /\ rt'[t].step \in {"stream", "finish"} /\ rt'[t].io = "asked"
      /\ rt'[t].begun = rt[t].begun /\ rt'[t].own = rt[t].own
      /\ rt'[t].cancelRequested = rt[t].cancelRequested
      /\ rt'[t].other = rt[t].other
      /\ \A u \in Turn : u # t => rt'[u] = rt[u]
  <2>1. rt[t] \in Runtime  BY DEF Types
  <2>2. CASE AgentEvent(t)
    BY <1>1, <2>1, <2>2 DEF AgentEvent, Runtime, Types
  <2>3. CASE StreamEnds(t)
    <3>1. PICK s \in Terminal : rt' = [rt EXCEPT ![t] = Finishing(rt[t], s)]
      BY <2>3 DEF StreamEnds, Terminal
    <3>. QED  BY <2>1, <3>1 DEF Finishing, Runtime, Types
  <2>. QED  BY <2>2, <2>3
<1>. HIDE DEF AgentEvent, StreamEnds
<1>7. ClaimAgrees'
  BY <1>1 DEF ClaimInv, ClaimAgrees, Unfinished
<1>8. CommandShape'  BY <1>1 DEF ClaimInv, CommandShape
<1>9. Managers'
  BY <1>1, <1>4 DEF ClaimInv, Managers, Live
<1>10. Recovers'  BY <1>1 DEF ClaimInv, Recovers
<1>11. TurnFacts'
  <2>1. Begins(t)' /\ Rests(t)'
    <3>1. Begins(t)  BY DEF ClaimInv, TurnFacts
    <3>2. Begins(t)'  BY <1>1, <1>4, <3>1 DEF Begins
    <3>3. Rests(t)'  BY <1>4 DEF Rests, Live
    <3>. QED  BY <3>2, <3>3
  <2>3. Left(t)'
    <3>1. Left(t)  BY DEF ClaimInv, TurnFacts
    <3>. QED  BY <1>1, <1>4, <3>1 DEF Left, Live
  <2>2. ASSUME NEW u \in Turn, u # t PROVE Begins(u)' /\ Left(u)' /\ Rests(u)'
    BY <1>1, <1>4, <2>2 DEF ClaimInv, TurnFacts, Begins, Left, Rests, Live
  <2>. QED  BY <2>1, <2>2, <2>3 DEF TurnFacts
<1>12. BeginErrors'
  BY <1>1, <1>4 DEF ClaimInv, BeginErrors, Types
<1>13. Runs'
  <2>1. CASE current = t
    <3>1. sess.active = t /\ rt[t].own /\ cache.active = t
      BY <1>1, <2>1 DEF ClaimInv, Runs
    <3>. QED  BY <1>1, <1>4, <2>1, <3>1 DEF Runs, Live
  <2>2. CASE current # t
    BY <1>1, <1>4, <2>2 DEF ClaimInv, Runs, Live, Types, TurnOrNone
  <2>. QED  BY <2>1, <2>2
<1>14. Newest'
  <2>1. (TurnResult' <=> TurnResult) /\ (ReplaceResult' <=> ReplaceResult)
    BY <1>1, <1>4 DEF TurnResult, ReplaceResult, Types, TurnOrNone
  <2>2. TurnResult => rt'[current'] = rt[current]
    BY <1>1, <1>4 DEF Types, TurnOrNone, TurnResult
  <2>. QED  BY <1>1, <2>1, <2>2 DEF ClaimInv, Newest
<1>15. Waiting'
  BY <1>1, <1>4 DEF ClaimInv, Waiting, HasResult, TurnOrNone
<1>16. Cancels'
  BY <1>1, <1>4 DEF ClaimInv, Cancels, Types, TurnOrNone
<1>17. Honest'
  BY <1>1, <1>4 DEF ClaimInv, Honest
<1>. QED
  BY <1>7, <1>8, <1>9, <1>10, <1>11, <1>12, <1>13, <1>14, <1>15, <1>16, <1>17 DEF ClaimInv

(* A write of the loaded manager's runtime fails: the first fault.         *)
LEMMA AfterFaultSteps ==
  ASSUME NEW r \in Runtime, r.io = "asked"
  PROVE  /\ AfterFault(r) \in Runtime
         /\ AfterFault(r).own = r.own /\ AfterFault(r).io # "committed"
         /\ r.step = "begin" => AfterFault(r).begun = "error"
         /\ r.step # "begin" => AfterFault(r).begun = r.begun
         /\ \/ AfterFault(r).step = "closed" /\ AfterFault(r).io = "idle"
            \/ AfterFault(r).step = "finish" /\ AfterFault(r).status = "failed"
  BY DEF AfterFault, Finishing, Closed, Runtime, Terminal

LEMMA OwnFaultClaim ==
  ASSUME RowInv, Types, Types', ClaimInv, NEW t \in Turn, WriteFault(t), rt[t].own
  PROVE  ClaimInv'
<1>. DEFINE f == [rt EXCEPT ![t] = AfterFault(rt[t])]
<1>. USE NoTurnAssumption DEF dbVars, envVars, mgrVars, outVars
<1>1. /\ UNCHANGED <<turnRow, sess, queue, earlier>>
      /\ rt[t].io = "asked" /\ Fault /\ Fail /\ cmd' = AfterAnswer
      /\ rt' = CancelRuntime(f)
  BY DEF WriteFault
<1>2. /\ faults = 0 /\ faults' = 1 /\ up' = up
      /\ Live(t) /\ ~broken /\ current = t
      /\ \A i \in DOMAIN recoveries : ~recoveries[i].live
  <2>1. faults = 0 /\ faults' = 1 /\ up' = up  BY <1>1, FirstFault
  <2>2. Live(t)  BY <1>1 DEF ClaimInv, TurnFacts, Rests
  <2>3. ~broken /\ \A i \in DOMAIN recoveries : ~recoveries[i].live
    BY <2>1 DEF ClaimInv, Recovers
  <2>. QED  BY <2>1, <2>2, <2>3 DEF ClaimInv, TurnFacts, Left
<1>3. /\ broken' /\ current' = NoTurn /\ pending' = NoTurn /\ mgr' = mgr
      /\ told' = IF pending = NoTurn THEN told ELSE told \cup {<<pending, "failed">>}
      /\ Spawn(cache.active)
  BY <1>1 DEF Fail
<1>4. /\ rt'[t].own /\ rt'[t].io # "committed"
      /\ rt[t].step # "begin" => rt'[t].begun = rt[t].begun
      /\ \/ rt'[t].step = "closed" /\ rt'[t].io = "idle"
         \/ rt'[t].step = "finish" /\ rt'[t].status = "failed"
      /\ \A u \in Turn : u # t => rt'[u] = rt[u]
  <2>1. rt[t] \in Runtime  BY DEF Types
  <2>2. f \in [Turn -> Runtime] /\ f[t] = AfterFault(rt[t]) /\ \A u \in Turn : u # t => f[u] = rt[u]
    BY <1>1, <2>1, AfterFaultSteps DEF Types
  <2>. HIDE DEF f
  <2>3. /\ SameButCancel(f[t], rt'[t])
        /\ \A u \in Turn : u # t => rt'[u] = f[u]
    BY <1>1, <1>2, <2>2, CancelTells DEF Types
  <2>. QED  BY <1>1, <2>1, <2>2, <2>3, AfterFaultSteps DEF SameButCancel
<1>5. mgr \notin {"absent", "loading"} /\ up # "down"
  BY <1>2 DEF ClaimInv, Managers
<1>6. /\ \A i \in DOMAIN recoveries' :
           \/ i \in DOMAIN recoveries /\ recoveries'[i] = recoveries[i]
           \/ recoveries'[i] = [turn |-> cache.active, live |-> TRUE]
      /\ \E i \in DOMAIN recoveries' : recoveries'[i] = [turn |-> cache.active, live |-> TRUE]
  BY <1>3, SpawnAdds
<1>18. /\ rt[t].step = "begin" => sess.active = NoTurn /\ cmd.op = "create" /\ cmd.turn = t
       /\ rt[t].step # "begin" => sess.active = t /\ cache.active = t
       /\ pending \in {NoTurn, t}
       /\ pending = t => cmd.op = "cancel" /\ rt[t].step # "begin"
  BY <1>1, <1>2 DEF ClaimInv, TurnFacts, Begins, Runs, Cancels, Live
<1>19. \/ cmd' = cmd
       \/ cmd.op = "cancel" /\ cmd' = Idle
  BY <1>1, <1>18 DEF AfterAnswer
<1>20. Idle.op = "none" /\ Idle.stage = "idle"  BY DEF Idle
<1>. HIDE DEF f
<1>7. ClaimAgrees'
  BY <1>1 DEF ClaimInv, ClaimAgrees, Unfinished
<1>8. CommandShape'  BY <1>19, <1>20 DEF ClaimInv, CommandShape
<1>9. Managers'
  BY <1>1, <1>2, <1>3, <1>5 DEF ClaimInv, Managers
<1>10. Recovers'
  <2>1. PICK k \in DOMAIN recoveries' :
          recoveries'[k].turn = cache.active /\ recoveries'[k].live
    BY <1>6
  <2>2. ASSUME NEW i \in DOMAIN recoveries', recoveries'[i].live
        PROVE  sess.active \in {NoTurn, recoveries'[i].turn}
    BY <1>2, <1>6, <1>18, <2>2
  <2>3. sess.active # NoTurn => sess.active = cache.active  BY <1>18
  <2>. QED  BY <1>1, <1>2, <1>3, <2>1, <2>2, <2>3 DEF Recovers
<1>11. TurnFacts'
  <2>1. Begins(t)' /\ Left(t)' /\ Rests(t)'
    BY <1>1, <1>2, <1>3, <1>4 DEF Begins, Left, Rests, Live
  <2>2. ASSUME NEW u \in Turn, u # t PROVE Begins(u)' /\ Left(u)' /\ Rests(u)'
    BY <1>1, <1>2, <1>3, <1>4, <2>2 DEF ClaimInv, TurnFacts, Begins, Left, Rests, Live
  <2>. QED  BY <2>1, <2>2 DEF TurnFacts
<1>12. BeginErrors'
  <2>1. ASSUME cmd' = cmd, cmd.op = "create", cmd.stage = "begun", rt'[cmd.turn].begun = "error"
        PROVE  sess.active = NoTurn
    <3>1. cmd.turn \in Turn  BY <2>1 DEF Types
    <3>2. CASE rt[cmd.turn].begun = "error"
      BY <2>1, <3>2 DEF ClaimInv, BeginErrors
    <3>3. CASE rt[cmd.turn].begun # "error"
      BY <1>4, <1>18, <2>1, <3>1, <3>3
    <3>. QED  BY <3>2, <3>3
  <2>. QED  BY <1>1, <1>3, <1>19, <1>20, <2>1 DEF BeginErrors
<1>13. Runs'  BY <1>3 DEF Runs
<1>14. Newest'  BY <1>3 DEF Newest
<1>15. Waiting'
  <2>1. \A x \in TurnOrNone : HasResult(x) => HasResult(x)'
    BY <1>1, <1>4, <1>19 DEF HasResult, TurnOrNone, ClaimInv, CommandShape
  <2>. QED  BY <1>1, <2>1 DEF ClaimInv, Waiting
<1>16. Cancels'  BY <1>3 DEF Cancels
<1>17. Honest'
  <2>1. rt[t].step # "begin" => turnRow[t] = "in_progress"
    BY <1>18 DEF ClaimInv, ClaimAgrees, Unfinished
  <2>2. ASSUME NEW p \in Turn, <<p, "failed">> \in told, p # t
        PROVE  \/ turnRow'[p] = "failed"
               \/ turnRow'[p] = "in_progress" /\ rt'[p].step = "closed"
               \/ turnRow'[p] = "in_progress" /\ rt'[p].step = "finish" /\ rt'[p].status = "failed"
    BY <1>1, <1>4, <2>2 DEF ClaimInv, Honest
  <2>3. ASSUME <<t, "failed">> \in told
        PROVE  turnRow[t] \in {"failed", "in_progress"}
    BY <2>3 DEF ClaimInv, Honest
  <2>4. <<t, "failed">> \in told' => turnRow'[t] \in {"failed", "in_progress"}
    <3>1. pending = t => turnRow[t] = "in_progress"  BY <1>18, <2>1
    <3>. QED  BY <1>1, <1>3, <1>18, <2>3, <3>1
  <2>5. \A p \in Turn : <<p, "failed">> \in told' => p = t \/ <<p, "failed">> \in told
    BY <1>3, <1>18
  <2>. QED  BY <1>4, <2>2, <2>4, <2>5 DEF Honest
<1>. QED
  BY <1>7, <1>8, <1>9, <1>10, <1>11, <1>12, <1>13, <1>14, <1>15, <1>16, <1>17 DEF ClaimInv

(* A write of a runtime fails that outlived its manager at the shutdown.   *)
LEMMA LeftFaultClaim ==
  ASSUME RowInv, Types, Types', ClaimInv, NEW t \in Turn, WriteFault(t), ~rt[t].own
  PROVE  ClaimInv'
<1>. DEFINE r == [AfterFault(rt[t]) EXCEPT !.other = NoTurn]
<1>. USE NoTurnAssumption DEF dbVars, envVars, mgrVars, outVars
<1>1. /\ UNCHANGED <<turnRow, sess, earlier, mgr, cache, current, broken, pending, queue,
                     cmd, told>>
      /\ rt[t].io = "asked" /\ Fault /\ Spawn(rt[t].other)
      /\ rt' = [rt EXCEPT ![t] = r]
  BY DEF WriteFault
<1>2. /\ faults = 0 /\ faults' = 1 /\ up' = up
      /\ Live(t) /\ current # t
  <2>1. faults = 0 /\ faults' = 1 /\ up' = up  BY <1>1, FirstFault
  <2>2. Live(t)  BY <1>1 DEF ClaimInv, TurnFacts, Rests
  <2>. QED  BY <2>1, <2>2 DEF ClaimInv, Runs
<1>3. /\ up = "stopping" /\ mgr = "absent" /\ current = NoTurn /\ rt[t].step # "begin"
      /\ sess.active \in {NoTurn, rt[t].other}
  BY <1>1, <1>2 DEF ClaimInv, TurnFacts, Left, Managers, Begins
<1>4. /\ ~rt'[t].own /\ rt'[t].io # "committed"
      /\ rt'[t].begun = rt[t].begun
      /\ \/ rt'[t].step = "closed" /\ rt'[t].io = "idle"
         \/ rt'[t].step = "finish" /\ rt'[t].status = "failed"
      /\ \A u \in Turn : u # t => rt'[u] = rt[u]
  <2>1. rt[t] \in Runtime  BY DEF Types
  <2>2. AfterFault(rt[t]) \in Runtime  BY <1>1, <2>1, AfterFaultSteps
  <2>3. /\ r.own = AfterFault(rt[t]).own /\ r.io = AfterFault(rt[t]).io
        /\ r.begun = AfterFault(rt[t]).begun /\ r.step = AfterFault(rt[t]).step
        /\ r.status = AfterFault(rt[t]).status
    BY <2>2 DEF Runtime
  <2>. HIDE DEF r
  <2>. QED  BY <1>1, <1>3, <2>1, <2>3, AfterFaultSteps DEF Types
<1>6. /\ \A i \in DOMAIN recoveries' :
           \/ i \in DOMAIN recoveries /\ recoveries'[i] = recoveries[i]
           \/ recoveries'[i] = [turn |-> rt[t].other, live |-> TRUE]
  BY <1>1, SpawnAdds
<1>. HIDE DEF r
<1>7. ClaimAgrees'
  BY <1>1 DEF ClaimInv, ClaimAgrees, Unfinished
<1>8. CommandShape'  BY <1>1 DEF ClaimInv, CommandShape
<1>9. Managers'
  BY <1>1, <1>2, <1>3 DEF ClaimInv, Managers
<1>10. Recovers'
  <2>2. ASSUME NEW i \in DOMAIN recoveries', recoveries'[i].live
        PROVE  sess.active \in {NoTurn, recoveries'[i].turn}
    BY <1>3, <1>6, <2>2 DEF ClaimInv, Recovers
  <2>. QED  BY <1>1, <1>2, <1>3, <2>2 DEF Recovers
<1>11. TurnFacts'
  <2>1. Begins(t)' /\ Left(t)' /\ Rests(t)'
    BY <1>1, <1>2, <1>3, <1>4 DEF Begins, Left, Rests, Live
  <2>2. ASSUME NEW u \in Turn, u # t PROVE Begins(u)' /\ Left(u)' /\ Rests(u)'
    BY <1>1, <1>2, <1>3, <1>4, <2>2 DEF ClaimInv, TurnFacts, Begins, Left, Rests, Live
  <2>. QED  BY <2>1, <2>2 DEF TurnFacts
<1>12. BeginErrors'
  BY <1>1, <1>4 DEF ClaimInv, BeginErrors, Types
<1>13. Runs'  BY <1>1, <1>3 DEF Runs
<1>14. Newest'  BY <1>1, <1>3 DEF Newest
<1>15. Waiting'
  <2>1. \A x \in TurnOrNone : HasResult(x) => HasResult(x)'
    BY <1>1, <1>4 DEF HasResult, TurnOrNone
  <2>. QED  BY <1>1, <2>1 DEF ClaimInv, Waiting
<1>16. Cancels'  BY <1>1, <1>3 DEF ClaimInv, Cancels
<1>17. Honest'
  BY <1>1, <1>2, <1>4 DEF ClaimInv, Honest, Live
<1>. QED
  BY <1>7, <1>8, <1>9, <1>10, <1>11, <1>12, <1>13, <1>14, <1>15, <1>16, <1>17 DEF ClaimInv

-----------------------------------------------------------------------------
LEMMA InitClaim == Init => ClaimInv
<1>. SUFFICES ASSUME Init PROVE ClaimInv  OBVIOUS
<1>. USE NoTurnAssumption DEF Init
<1>1. /\ \A t \in Turn : rt[t].step = "unborn" /\ rt[t].io = "idle" /\ rt[t].begun = "no"
      /\ Idle.op = "none" /\ Idle.stage = "idle"
  BY DEF Unborn, Idle
<1>2. sess.active = NoTurn /\ sess.status = "ready"  BY DEF NoSession
<1>3. ClaimAgrees  BY <1>2 DEF ClaimAgrees, Unfinished
<1>4. CommandShape  BY <1>1 DEF CommandShape
<1>5. Managers  BY DEF Managers
<1>6. Recovers  BY <1>2 DEF Recovers
<1>7. TurnFacts  BY <1>1 DEF TurnFacts, Begins, Left, Rests, Live
<1>8. BeginErrors  BY <1>1 DEF BeginErrors
<1>9. Runs  BY DEF Runs
<1>10. Newest /\ Waiting  BY DEF Newest, Waiting
<1>11. Cancels /\ Honest  BY DEF Cancels, Honest
<1>. QED
  BY <1>3, <1>4, <1>5, <1>6, <1>7, <1>8, <1>9, <1>10, <1>11 DEF ClaimInv

LEMMA StutterClaim ==
  ASSUME ClaimInv, UNCHANGED vars
  PROVE  ClaimInv'
<1>. USE DEF vars, dbVars, envVars, mgrVars, outVars
<1>1. ClaimAgrees' /\ CommandShape' /\ Managers' /\ Recovers'
  BY DEF ClaimInv, ClaimAgrees, Unfinished, CommandShape, Managers, Recovers, Live
<1>2. TurnFacts' /\ BeginErrors' /\ Runs'
  BY DEF ClaimInv, TurnFacts, Begins, Left, Rests, BeginErrors, Runs, Live
<1>3. Newest' /\ Waiting' /\ Cancels' /\ Honest'
  BY DEF ClaimInv, Newest, TurnResult, ReplaceResult, Waiting, HasResult, Cancels, Honest
<1>. QED  BY <1>1, <1>2, <1>3 DEF ClaimInv

LEMMA ClaimStep ==
  ASSUME Orderly, Orderly', RowInv, ClaimInv, [Next]_vars
  PROVE  ClaimInv'
<1>1. TypeInv /\ TypeInv'  BY TypeStep DEF RowInv
<1>2. Types  BY <1>1, TypesHold
<1>3. Types' /\ ~crossed'  BY <1>1, TypesHoldNext DEF Orderly
<1>4. CASE Clients  BY <1>1, <1>2, <1>4, ClientsClaim
<1>5. ASSUME Handlers PROVE ClaimInv'
  BY <1>1, <1>2, <1>3, <1>5, QuietHandlersClaim, HandleCreateClaim, HandleCancelClaim,
    FailsClaim, ReplaceCommitClaim, ReplaceResumeClaim, HandleStopClaim
     DEF Handlers
<1>6. CASE HandlerFaults  BY <1>1, <1>2, <1>3, <1>6, FailsClaim
<1>7. ASSUME Registry PROVE ClaimInv'
  BY <1>1, <1>2, <1>3, <1>7, LoadReadClaim, QuietRegistryClaim, ShutdownClaim, DieClaim, RestartClaim
     DEF Registry
<1>8. ASSUME NEW t \in Turn, RuntimeStep(t) PROVE ClaimInv'
  BY <1>1, <1>2, <1>3, <1>8, BeginCommitClaim, EventCommitClaim, FinishCommitClaim,
    BeginResumeClaim, EventResumeClaim, FinishResumeClaim
     DEF RuntimeStep
<1>9. ASSUME NEW t \in Turn, AgentEvent(t) \/ StreamEnds(t) PROVE ClaimInv'
  BY <1>1, <1>2, <1>9, StreamClaim
<1>10. ASSUME NEW t \in Turn, WriteFault(t) PROVE ClaimInv'
  BY <1>2, <1>3, <1>10, OwnFaultClaim, LeftFaultClaim
<1>11. ASSUME NEW i \in DOMAIN recoveries, RecoveryCommit(i) \/ RecoveryFault(i)
       PROVE  ClaimInv'
  BY <1>1, <1>2, <1>3, <1>11, RecoveriesClaim
<1>12. CASE UNCHANGED vars  BY <1>12, StutterClaim
<1>. QED
  BY <1>4, <1>5, <1>6, <1>7, <1>8, <1>9, <1>10, <1>11, <1>12 DEF Next

SessionInv == RowInv /\ (Orderly => ClaimInv)

LEMMA SessionStep ==
  ASSUME SessionInv, [Next]_vars
  PROVE  SessionInv'
<1>1. RowInv /\ RowInv' /\ TypeInv  BY RowInvStep DEF SessionInv, RowInv
<1>2. ASSUME Orderly' PROVE ClaimInv'
  BY <1>1, <1>2, OrderlyBefore, ClaimStep DEF SessionInv
<1>. QED  BY <1>1, <1>2 DEF SessionInv

LEMMA SessionInduction == Spec => []SessionInv
<1>1. Init => SessionInv  BY InitRow, InitClaim DEF SessionInv
<1>2. SessionInv /\ [Next]_vars => SessionInv'  BY SessionStep
<1>. QED  BY <1>1, <1>2, PTL DEF Spec

-----------------------------------------------------------------------------
(* Who starts the process, and who writes the rows of the turns.           *)
LEMMA OnlyRestartStarts ==
  ASSUME [Next]_vars, up = "down", up' = "up"
  PROVE  Restart
<1>. USE DEF vars, dbVars, envVars, mgrVars, outVars
<1>1. ~Clients
  BY DEF Clients, SubmitCreate, SubmitCancel, SubmitReplace, Submit
<1>2. ~Handlers
  BY DEF Handlers, RejectBroken, HandleCreate, CancelSettled, HandleCancel, CreateConflict,
    CreateBegun, CreateAnswered, CreateBeginError, HandleReplace, ReplacePrepared,
    ReplaceCommit, ReplaceResume, HandleStop
<1>3. ~HandlerFaults
  BY DEF HandlerFaults, CreateListFault, CancelFault, ReplaceFault, Fault
<1>4. ASSUME NEW t \in Turn
      PROVE  ~(RuntimeStep(t) \/ AgentEvent(t) \/ StreamEnds(t) \/ WriteFault(t))
  BY DEF RuntimeStep, BeginCommit, EventCommit, FinishCommit, BeginResume, EventResume,
    FinishResume, AgentEvent, StreamEnds, WriteFault, Fault
<1>5. ASSUME NEW i \in DOMAIN recoveries PROVE ~(RecoveryCommit(i) \/ RecoveryFault(i))
  BY DEF RecoveryCommit, RecoveryFault, Fault
<1>6. Registry => Restart
  BY DEF Registry, LoadRead, LoadReady, EvictIdle, Shutdown, CloseWaited, Exit, Crash, Die
<1>. QED  BY <1>1, <1>2, <1>3, <1>4, <1>5, <1>6 DEF Next

LEMMA WhoWritesRows ==
  ASSUME [Next]_vars
  PROVE  \/ turnRow' = turnRow
         \/ \E t \in Turn : BeginCommit(t) \/ FinishCommit(t)
         \/ \E i \in DOMAIN recoveries : RecoveryCommit(i)
         \/ Restart
<1>. USE DEF vars, dbVars, envVars, mgrVars, outVars
<1>1. Clients => turnRow' = turnRow
  BY DEF Clients, SubmitCreate, SubmitCancel, SubmitReplace, Submit
<1>2. Handlers => turnRow' = turnRow
  BY DEF Handlers, RejectBroken, HandleCreate, CancelSettled, HandleCancel, CreateConflict,
    CreateBegun, CreateAnswered, CreateBeginError, HandlerFails, HandleReplace,
    ReplacePrepared, ReplaceCommit, ReplaceResume, HandleStop
<1>3. HandlerFaults => turnRow' = turnRow
  BY DEF HandlerFaults, CreateListFault, CancelFault, ReplaceFault, HandlerFails
<1>4. ASSUME NEW t \in Turn,
             \/ RuntimeStep(t) /\ ~BeginCommit(t) /\ ~FinishCommit(t)
             \/ AgentEvent(t) \/ StreamEnds(t) \/ WriteFault(t)
      PROVE  turnRow' = turnRow
  BY <1>4 DEF RuntimeStep, EventCommit, BeginResume, EventResume, FinishResume,
    AgentEvent, StreamEnds, WriteFault
<1>5. ASSUME NEW i \in DOMAIN recoveries, RecoveryFault(i) PROVE turnRow' = turnRow
  BY <1>5 DEF RecoveryFault
<1>6. Registry => turnRow' = turnRow \/ Restart
  BY DEF Registry, LoadRead, LoadReady, EvictIdle, Shutdown, CloseWaited, Exit, Crash, Die
<1>. QED  BY <1>1, <1>2, <1>3, <1>4, <1>5, <1>6 DEF Next

LEMMA RowsBegin ==
  ASSUME RowInv, [Next]_vars, NEW t \in Turn, turnRow[t] = "none", turnRow'[t] # "none"
  PROVE  BeginCommit(t)
<1>1. turnRow \in [Turn -> {"none", "in_progress"} \cup Terminal]
  BY DEF RowInv, TypeInv, TypeOK, RowsTypeOK
<1>2. ASSUME NEW u \in Turn, BeginCommit(u) \/ FinishCommit(u) PROVE BeginCommit(t)
  BY <1>1, <1>2 DEF BeginCommit, FinishCommit, Unfinished
<1>3. ASSUME NEW i \in DOMAIN recoveries, RecoveryCommit(i) PROVE FALSE
  BY <1>1, <1>3 DEF RecoveryCommit, Unfinished
<1>4. ~Restart  BY <1>1 DEF Restart, Unfinished
<1>. QED  BY <1>2, <1>3, <1>4, WhoWritesRows

-----------------------------------------------------------------------------
(* While all is orderly the claim of the session row names exactly the     *)
(* unfinished turn: begin claims in the transaction that creates it, and   *)
(* finish, recovery and restart settle and release in one, so that a       *)
(* restart finds every unfinished turn.                                    *)
THEOREM ClaimFollowsTurns ==
  Spec => []ClaimMatchesTurns
<1>1. SessionInv => ClaimMatchesTurns
  BY DEF SessionInv, ClaimInv, ClaimAgrees, ClaimMatchesTurns
<1>. QED  BY <1>1, SessionInduction, PTL

(* While all is orderly and the process serves, a turn that listens to its *)
(* agent and was not told to stop is the one its healthy manager runs, and *)
(* it holds the claim: fail() and close() cancel the runtime before they   *)
(* drop it.                                                                *)
THEOREM StreamingTurnsOwnSession ==
  Spec => []StreamingTurnOwnsSession
<1>1. SessionInv => StreamingTurnOwnsSession
  <2>. SUFFICES ASSUME ClaimInv, NEW t \in Turn,
                       up = "up", rt[t].step = "stream", ~rt[t].cancelRequested
                PROVE  rt[t].own /\ ~broken /\ current = t /\ sess.active = t
    BY DEF SessionInv, StreamingTurnOwnsSession
  <2>1. Live(t)  BY DEF Live
  <2>2. current = t  BY <2>1 DEF ClaimInv, TurnFacts, Left
  <2>3. rt[t].own /\ sess.active = t  BY <2>2, NoTurnAssumption DEF ClaimInv, Runs
  <2>4. ~broken  BY <2>2, NoTurnAssumption DEF ClaimInv, Managers
  <2>. QED  BY <2>2, <2>3, <2>4
<1>. QED  BY <1>1, SessionInduction, PTL

(* While all is orderly, a client told "failed" is not told so of a turn   *)
(* that ends otherwise, although fail() answers before the recovery: the   *)
(* runtime it drops can only close its turn as failed, and of the writers  *)
(* left none closes it with another status.                                *)
THEOREM FailedRepliesAreHonest ==
  Spec => []FailedReplyIsHonest
<1>1. SessionInv => FailedReplyIsHonest
  <2>. SUFFICES ASSUME RowInv, ClaimInv, NEW r \in told, r[2] = "failed"
                PROVE  turnRow[r[1]] \in {"failed", "in_progress"}
    BY DEF SessionInv, FailedReplyIsHonest
  <2>1. r[1] \in Turn /\ r = <<r[1], "failed">>
    BY DEF RowInv, TypeInv, TypeOK, AnswersTypeOK
  <2>. QED  BY <2>1 DEF ClaimInv, Honest
<1>. QED  BY <1>1, SessionInduction, PTL

(* While all is orderly, a cancel that holds the queue waits for the       *)
(* current runtime, which lives, reports to this manager and was told to   *)
(* stop: it is not left waiting by a fault, an eviction or a shutdown.     *)
THEOREM PendingCancelsHaveRuntimes ==
  Spec => []PendingCancelHasRuntime
<1>1. SessionInv => PendingCancelHasRuntime
  BY DEF SessionInv, ClaimInv, Cancels, Runs, PendingCancelHasRuntime
<1>. QED  BY <1>1, SessionInduction, PTL

(* While all is orderly, the startup scan finds every unfinished turn by   *)
(* its claim, so that a restart leaves no turn unfinished.                 *)
THEOREM RestartsSettleTurns ==
  Spec => RestartSettlesTurns
<1>1. SessionInv /\ [Next]_vars =>
        [Orderly' /\ up = "down" /\ up' = "up" => \A t \in Turn : turnRow'[t] # "in_progress"]_vars
  <2>. SUFFICES ASSUME SessionInv, [Next]_vars, Orderly', up = "down", up' = "up"
                PROVE  \A t \in Turn : turnRow'[t] # "in_progress"
    OBVIOUS
  <2>1. Restart
    BY OnlyRestartStarts
  <2>2. Orderly /\ TypeInv  BY OrderlyBefore DEF SessionInv, RowInv
  <2>. QED  BY <2>1, <2>2, TypesHold, RestartClaim DEF SessionInv
<1>. QED  BY <1>1, SessionInduction, PTL DEF Spec, RestartSettlesTurns

(* No event of a turn is stored after the turn's final status: while       *)
(* nothing disturbed the session, a runtime that still stores events holds *)
(* the claim, under its manager or after a shutdown unloaded it.           *)
THEOREM NoEventFollowsTerminal ==
  Spec => NoEventAfterTerminal
<1>1. SessionInv /\ [Next]_vars =>
        [\A t \in Turn :
           Undisturbed /\ rt[t].step = "stream" /\ rt[t].io = "asked" /\ rt'[t].io = "committed"
             => Unfinished(t)]_vars
  <2>. SUFFICES ASSUME ClaimInv, NEW t \in Turn, faults = 0, rt[t].step = "stream"
                PROVE  Unfinished(t)
    BY DEF SessionInv, Undisturbed, Orderly
  <2>1. sess.active = t
    BY NoTurnAssumption DEF ClaimInv, TurnFacts, Left, Runs, Live
  <2>. QED  BY <2>1 DEF ClaimInv, ClaimAgrees
<1>. QED  BY <1>1, SessionInduction, PTL DEF Spec, NoEventAfterTerminal

(* A new turn reads the history only when no older turn can still write    *)
(* it, while nothing disturbed the session: _handle_create runs only with  *)
(* a free claim, and the claim is released with the old turn's last write  *)
(* (backend/docs/table.md).                                                *)
THEOREM BeginsReadSettledHistory ==
  Spec => BeginReadsSettledHistory
<1>1. SessionInv /\ [Next]_vars =>
        [\A t \in Turn : Undisturbed /\ turnRow[t] = "none" /\ turnRow'[t] # "none"
           => \A u \in Turn \ {t} : rt[u].step \notin {"begin", "stream"}]_vars
  <2>. SUFFICES ASSUME RowInv, ClaimInv, [Next]_vars, NEW t \in Turn,
                       faults = 0, turnRow[t] = "none", turnRow'[t] # "none",
                       NEW u \in Turn \ {t}
                PROVE  rt[u].step \notin {"begin", "stream"}
    BY DEF SessionInv, Undisturbed, Orderly
  <2>1. BeginCommit(t)  BY RowsBegin
  <2>2. current = t /\ mgr # "absent"
    BY <2>1, NoTurnAssumption DEF BeginCommit, ClaimInv, TurnFacts, Begins, Managers
  <2>3. rt[u].step # "begin"  BY <2>2 DEF ClaimInv, TurnFacts, Begins
  <2>4. rt[u].step # "stream"  BY <2>2 DEF ClaimInv, TurnFacts, Left, Live
  <2>. QED  BY <2>3, <2>4
<1>. QED  BY <1>1, SessionInduction, PTL DEF Spec, BeginReadsSettledHistory

-----------------------------------------------------------------------------
(* The refinement.  How a step of the session changes what its users see:  *)
(* no step changes two of the three variables of the contract.             *)
LEMMA QuietContract ==
  ASSUME UNCHANGED <<turnRow, acked, told>>, Orderly, Orderly'
  PROVE  [Contract!Next]_(Contract!vars)
  BY DEF Contract!vars

LEMMA SettleTold ==
  ASSUME RowInv, ClaimInv, NEW t \in Turn, Unfinished(t), NEW r \in told, r[1] = t
  PROVE  /\ r[2] = "failed"
         /\ rt[t].step = "closed" \/ (rt[t].step = "finish" /\ rt[t].status = "failed")
<1>1. turnRow[r[1]] # r[2]
  BY DEF Unfinished, RowInv, TypeInv, TypeOK, AnswersTypeOK, Terminal
<1>2. r[2] = "failed"  BY <1>1 DEF RowInv, RepliedStatusIsFinal
<1>3. <<t, "failed">> \in told
  BY <1>2 DEF RowInv, TypeInv, TypeOK, AnswersTypeOK
<1>. QED  BY <1>2, <1>3 DEF ClaimInv, Honest, Unfinished

(* A turn is settled as failed, whoever was told of it before.             *)
LEMMA SettlesFailed ==
  ASSUME RowInv, ClaimInv, NEW t \in Turn, Unfinished(t),
         turnRow' = [turnRow EXCEPT ![t] = "failed"], UNCHANGED <<acked, told>>
  PROVE  Contract!Settle(t, "failed")
  BY SettleTold DEF Contract!Settle, Unfinished

LEMMA WritersContract ==
  ASSUME RowInv, ClaimInv, Orderly, Orderly',
         \/ \E t \in Turn : BeginCommit(t) \/ FinishCommit(t)
         \/ \E i \in DOMAIN recoveries : RecoveryCommit(i)
         \/ Restart
  PROVE  [Contract!Next]_(Contract!vars)
<1>. USE DEF outVars
<1>0. turnRow \in [Turn -> {"none", "in_progress"} \cup Terminal] /\ TypeInv
  BY DEF RowInv, TypeInv, TypeOK, RowsTypeOK
<1>1. ASSUME NEW t \in Turn, BeginCommit(t) PROVE Contract!Begin(t)
  <2>1. turnRow[t] = "none"
    BY <1>1 DEF BeginCommit, RowInv, RuntimesMatchRows, Matches
  <2>2. sess.active = NoTurn
    BY <1>1 DEF BeginCommit, ClaimInv, TurnFacts, Begins
  <2>3. \A u \in Turn : turnRow[u] # "in_progress"
    BY <2>2, NoTurnAssumption DEF ClaimInv, ClaimAgrees, Unfinished
  <2>. QED  BY <1>1, <2>1, <2>3 DEF BeginCommit, Contract!Begin
<1>2. ASSUME NEW t \in Turn, FinishCommit(t)
      PROVE  UNCHANGED <<turnRow, acked, told>> \/ \E s \in Terminal : Contract!Settle(t, s)
  <2>1. rt[t].step = "finish" /\ rt[t].status \in Terminal
    BY <1>0, <1>2 DEF FinishCommit, TypeInv, RuntimesOK, RuntimeOK
  <2>2. CASE Unfinished(t)
    <3>1. \A r \in told : r[1] = t => r[2] = rt[t].status
      BY <2>1, <2>2, SettleTold
    <3>2. Contract!Settle(t, rt[t].status)
      BY <1>2, <2>2, <3>1 DEF FinishCommit, Unfinished, Contract!Settle
    <3>. QED  BY <2>1, <3>2
  <2>3. CASE ~Unfinished(t)
    BY <1>2, <2>3 DEF FinishCommit
  <2>. QED  BY <2>2, <2>3
<1>3. ASSUME NEW i \in DOMAIN recoveries, RecoveryCommit(i)
      PROVE  \/ UNCHANGED <<turnRow, acked, told>>
             \/ \E t \in Turn : Contract!Settle(t, "failed")
  <2>1. \/ turnRow' = turnRow
        \/ \E t \in Turn : Unfinished(t) /\ turnRow' = [turnRow EXCEPT ![t] = "failed"]
    BY <1>3 DEF RecoveryCommit
  <2>2. UNCHANGED <<acked, told>>  BY <1>3 DEF RecoveryCommit
  <2>. QED  BY <2>1, <2>2, SettlesFailed
<1>4. ASSUME Restart
      PROVE  \/ UNCHANGED <<turnRow, acked, told>>
             \/ \E t \in Turn : Contract!Settle(t, "failed")
  <2>1. UNCHANGED <<acked, told>>  BY <1>4 DEF Restart
  <2>2. CASE \E t \in Turn : Unfinished(t)
    <3>1. PICK t \in Turn : Unfinished(t)  BY <2>2
    <3>2. sess.active = t  BY <3>1 DEF ClaimInv, ClaimAgrees
    <3>3. \A u \in Turn : Unfinished(u) <=> u = t
      BY <3>1, <3>2 DEF ClaimInv, ClaimAgrees
    <3>4. NeedsRecovery  BY <3>2, NoTurnAssumption DEF NeedsRecovery
    <3>5. turnRow' = [u \in Turn |-> IF Unfinished(u) THEN "failed" ELSE turnRow[u]]
      BY <1>4, <3>4 DEF Restart
    <3>6. turnRow' = [turnRow EXCEPT ![t] = "failed"]  BY <1>0, <3>3, <3>5
    <3>. QED  BY <2>1, <3>1, <3>6, SettlesFailed
  <2>3. CASE ~\E t \in Turn : Unfinished(t)
    <3>1. turnRow' = turnRow  BY <1>0, <1>4, <2>3 DEF Restart
    <3>. QED  BY <2>1, <3>1
  <2>. QED  BY <2>2, <2>3
<1>5. "failed" \in Terminal  BY DEF Terminal
<1>6. Contract!Terminal = Terminal  BY DEF Contract!Terminal, Terminal
<1>. QED
  BY <1>1, <1>2, <1>3, <1>4, <1>5, <1>6, QuietContract DEF Contract!Next, Contract!Promised

(* The other steps acknowledge a turn or answer a cancel; that an answer   *)
(* "failed" is one the contract allows is what Honest says after the step. *)
LEMMA AnswersContract ==
  ASSUME RowInv, RowInv', ClaimInv', Orderly, Orderly', [Next]_vars, turnRow' = turnRow
  PROVE  [Contract!Next]_(Contract!vars)
<1>. USE DEF outVars
<1>1. Answering /\ TypeInv /\ TypeInv'  BY NextAnswering DEF RowInv
<1>2. ASSUME CreateAnswered PROVE \E t \in Turn : Contract!Acknowledge(t)
  <2>1. cmd.op = "create" /\ cmd.stage = "list" /\ cmd.turn \in Turn
    BY <1>1, <1>2 DEF CreateAnswered, TypeInv
  <2>2. turnRow[cmd.turn] # "none"  BY <2>1 DEF RowInv, CommandMatchesRow
  <2>3. acked' = acked \cup {cmd.turn} /\ UNCHANGED <<turnRow, told>>
    BY <1>2 DEF CreateAnswered, dbVars
  <2>. QED  BY <2>1, <2>2, <2>3 DEF Contract!Acknowledge
<1>3. ASSUME told' = told \cup {<<pending, "failed">>}, acked' = acked
      PROVE  \E t \in Turn : Contract!Tell(t, "failed")
  <2>1. <<pending, "failed">> \in told'  BY <1>3
  <2>2. pending \in Turn
    BY <1>1, <2>1 DEF TypeInv, TypeOK, AnswersTypeOK
  <2>3. turnRow[pending] \in {"failed", "in_progress"}
    BY <2>1, <2>2 DEF ClaimInv, Honest
  <2>. QED  BY <1>3, <2>2, <2>3 DEF Contract!Tell
<1>4. ASSUME NEW t \in Turn, CancelSettled(t)
      PROVE  \/ UNCHANGED <<turnRow, acked, told>>
             \/ \E s \in Terminal : Contract!Tell(t, s)
  BY <1>4 DEF CancelSettled, dbVars, Contract!Tell
<1>5. ASSUME NEW t \in Turn, FinishResume(t)
      PROVE  \/ UNCHANGED <<turnRow, acked, told>>
             \/ \E s \in Terminal : Contract!Tell(t, s)
  <2>1. UNCHANGED <<turnRow, acked>>  BY <1>5 DEF FinishResume, dbVars
  <2>2. told' = told \/ (rt[t].won /\ told' = told \cup {<<t, rt[t].status>>})
    BY <1>5 DEF FinishResume
  <2>3. rt[t].won => turnRow[t] = rt[t].status
    BY DEF RowInv, RuntimesMatchRows, Matches
  <2>4. rt[t].step = "finish" /\ rt[t].status \in Terminal
    BY <1>1, <1>5 DEF FinishResume, TypeInv, RuntimesOK, RuntimeOK
  <2>. QED  BY <2>1, <2>2, <2>3, <2>4 DEF Contract!Tell
<1>6. "failed" \in Terminal /\ Contract!Terminal = Terminal
  BY DEF Terminal, Contract!Terminal
<1>7. (\E t \in Turn : CancelSettled(t) \/ FinishResume(t)) => acked' = acked
  BY DEF CancelSettled, FinishResume
<1>8. CreateAnswered => told' = told  BY DEF CreateAnswered
<1>9. CASE CreateAnswered  BY <1>2, <1>9 DEF Contract!Next, Contract!Promised
<1>10. CASE acked' = acked
  BY <1>1, <1>3, <1>4, <1>5, <1>6, <1>10, QuietContract
     DEF Answering, Contract!Next, Contract!Promised
<1>. QED  BY <1>1, <1>9, <1>10 DEF Answering

(* While all is orderly the session implements its contract: turns run one *)
(* at a time, each is settled once, as those who cancelled it were told,   *)
(* an acknowledged turn exists, and only a failure is announced before it  *)
(* is recorded.                                                            *)
THEOREM SessionImplementsContract ==
  Spec => ImplementsContract
<1>1. Init => Contract!Init
  BY DEF Init, Contract!Init, Orderly
<1>2. SessionInv /\ [Next]_vars => [Contract!Next]_(Contract!vars)
  <2>. SUFFICES ASSUME SessionInv, [Next]_vars
                PROVE  [Contract!Next]_(Contract!vars)
    OBVIOUS
  <2>1. CASE ~Orderly'  BY <2>1 DEF Contract!Next, Contract!Distrusted
  <2>2. CASE Orderly'
    <3>1. Orderly /\ RowInv /\ ClaimInv
      BY <2>2, OrderlyBefore DEF SessionInv, RowInv
    <3>2. RowInv' /\ ClaimInv'  BY <2>2, <3>1, RowInvStep, ClaimStep
    <3>3. CASE turnRow' = turnRow  BY <2>2, <3>1, <3>2, <3>3, AnswersContract
    <3>4. CASE turnRow' # turnRow  BY <2>2, <3>1, <3>4, WhoWritesRows, WritersContract
    <3>. QED  BY <3>3, <3>4
  <2>. QED  BY <2>1, <2>2
<1>. QED  BY <1>1, <1>2, SessionInduction, PTL DEF Spec, ImplementsContract, Contract!Spec

=============================================================================
