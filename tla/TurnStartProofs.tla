-------------------------- MODULE TurnStartProofs ---------------------------
(***************************************************************************)
(* Proofs about TurnStart, for every set of turn ids and every bound: type *)
(* correctness, custody of the launch, and then what a failed launch may   *)
(* assume of the turn it may have started.                                 *)
(***************************************************************************)
EXTENDS TurnStart, SequenceTheorems, TLAPS

(* Types.  What the pump holds while it handles a notification is part of   *)
(* the invariant: it reads the head of the channel again in a later step.   *)
Started   == [kind : {"started"}, turn : Turns, route : {"null", "match", "conflict"}]
Completed == [kind : {"completed"}, status : {"completed", "interrupted", "failed"}]

(* The notification the pump has begun to handle is still the first one.    *)
PumpHolds ==
    /\ pc["pump"] = "p_project" => chan # <<>> /\ Head(chan) \in Started
    /\ pc["pump"] = "p_complete" => chan # <<>> /\ Head(chan) \in Completed

TInv == TypeOK /\ PumpHolds

-----------------------------------------------------------------------------
(* A step of one task to a location of the program.                         *)
LEMMA GotoTypes ==
    ASSUME ProcTypes, NEW p \in Procs, NEW loc \in Locs, Goto(p, loc)
    PROVE  pc' \in [Procs -> Locs] /\ pc'[p] = loc /\ \A q \in Procs \ {p} : pc'[q] = pc[q]
  BY DEF ProcTypes, Goto

(* A reconciliation that returns leaves well-typed locals, and no task in   *)
(* the middle of a notification.                                            *)
LEMMA ReturnTypes ==
    ASSUME TurnStartAssumption, ProcTypes, NEW p \in {"launcher", "pump", "maint"}, NEW o,
           Return(p, o), UNCHANGED aged
    PROVE  /\ ProcTypes' /\ pc'[p] \notin {"p_project", "p_complete"}
           /\ \A q \in Procs \ {p} : pc'[q] = pc[q]
  <1>1. p \in Procs /\ {"rc_receipt", "ct_begin", "l_err", "l_done", "idle"} \subseteq Locs
    BY DEF Procs, Locs, ReconcileLocs, ContainLocs, LaunchLocs
  <1>2. ASSUME NEW loc \in {"rc_receipt", "ct_begin"}, NEW st \in {"first", "final"},
               NEW n \in Nat, Again(p, loc, st, n)
        PROVE  ProcTypes' /\ pc'[p] = loc /\ \A q \in Procs \ {p} : pc'[q] = pc[q]
    BY <1>1, <1>2 DEF Again, Goto, ProcTypes
  <1>3. ASSUME NEW loc \in {"l_err", "l_done", "idle"}, Leave(p, loc)
        PROVE  ProcTypes' /\ pc'[p] = loc /\ \A q \in Procs \ {p} : pc'[q] = pc[q]
    BY <1>1, <1>3 DEF Leave, Goto, ProcTypes
  <1>4. polls \in Nat /\ polls + 1 \in Nat
    BY DEF ProcTypes
  <1> QED BY <1>2, <1>3, <1>4 DEF Return

(* A notification that arrives does not move the first one.                 *)
LEMMA AppendKeeps ==
    ASSUME chan \in Seq(Notifications), NEW n \in Notifications, chan' = Append(chan, n)
    PROVE  /\ chan' \in Seq(Notifications)
           /\ chan # <<>> => chan' # <<>> /\ Head(chan') = Head(chan)
  BY AppendProperties, HeadTailAppend

(* The first notification, by its kind.                                     *)
LEMMA HeadKinds ==
    ASSUME chan \in Seq(Notifications), chan # <<>>
    PROVE  /\ Tail(chan) \in Seq(Notifications)
           /\ Head(chan).kind = "started" => Head(chan) \in Started
           /\ Head(chan).kind = "completed" => Head(chan) \in Completed
  <1>1. Head(chan) \in Notifications /\ Tail(chan) \in Seq(Notifications)
    BY HeadTailProperties
  <1> QED BY <1>1 DEF Notifications, Started, Completed

-----------------------------------------------------------------------------
LEMMA TInvInit == ASSUME Init, TurnStartAssumption PROVE TInv
  <1>1. StoreTypes
    BY DEF Init, StoreTypes, AgentStates, AgentTerminal, TaskStates, RunStates, Routes
  <1>2. ProcTypes
    BY DEF Init, ProcTypes, Procs, Locs, LaunchLocs
  <1>3. ServerTypes
    <2>1. chan \in Seq(Notifications)
      BY DEF Init
    <2> QED BY <2>1 DEF Init, ServerTypes
  <1>4. PumpHolds
    BY DEF Init, PumpHolds, Procs
  <1> QED BY <1>1, <1>2, <1>3, <1>4 DEF TInv, TypeOK

(* The launcher.                                                            *)
LEMMA TInvLauncher == ASSUME TInv, TurnStartAssumption, Launcher PROVE TInv'
  <1> USE DEF TInv, TypeOK
  <1>a. "launcher" \in Procs /\ "pump" \in Procs /\ LaunchLocs \subseteq Locs /\ "rc_receipt" \in Locs
        /\ "ct_begin" \in Locs
    BY DEF Procs, Locs, ReconcileLocs, ContainLocs
  <1>b. ASSUME NEW loc \in Locs, Goto("launcher", loc) PROVE pc' \in [Procs -> Locs] /\ pc'["pump"] = pc["pump"]
    BY <1>a, <1>b, GotoTypes DEF Procs
  <1>c. ASSUME UNCHANGED chan, pc'["pump"] = pc["pump"] PROVE PumpHolds'
    BY <1>c DEF PumpHolds
  <1>1. CASE LauncherStartThread
    <2>1. \E loc \in Locs : Goto("launcher", loc)
      BY <1>1, <1>a DEF LauncherStartThread, LaunchLocs
    <2>2. StoreTypes' /\ ServerTypes'
      BY <1>1 DEF LauncherStartThread, StoreTypes, ServerTypes, AgentStates, AgentTerminal, bounds
    <2>3. ProcTypes' /\ UNCHANGED chan
      BY <1>1, <2>1, <1>b DEF LauncherStartThread, ProcTypes
    <2> QED BY <2>1, <2>2, <2>3, <1>b, <1>c
  <1>2. CASE LauncherSetGoal
    <2>1. \E loc \in Locs : Goto("launcher", loc)
      BY <1>2, <1>a DEF LauncherSetGoal, LaunchLocs
    <2>2. StoreTypes' /\ ServerTypes'
      BY <1>2 DEF LauncherSetGoal, StoreTypes, ServerTypes, AgentStates, AgentTerminal, bounds, server
    <2>3. ProcTypes' /\ UNCHANGED chan
      BY <1>2, <2>1, <1>b DEF LauncherSetGoal, ProcTypes, server
    <2> QED BY <2>1, <2>2, <2>3, <1>b, <1>c
  <1>3. CASE record_pending_turn_start
    <2>1. \E loc \in Locs : Goto("launcher", loc)
      BY <1>3, <1>a DEF record_pending_turn_start, LaunchLocs
    <2>2. StoreTypes' /\ ServerTypes'
      BY <1>3 DEF record_pending_turn_start, StoreTypes, ServerTypes, bounds, server
    <2>3. ProcTypes' /\ UNCHANGED chan
      BY <1>3, <2>1, <1>b DEF record_pending_turn_start, ProcTypes, server
    <2> QED BY <2>1, <2>2, <2>3, <1>b, <1>c
  <1>4. CASE LauncherSendTurnStart
    <2>1. \E loc \in Locs : Goto("launcher", loc)
      BY <1>4, <1>a DEF LauncherSendTurnStart, LaunchLocs
    <2>2. StoreTypes' /\ ServerTypes'
      BY <1>4 DEF LauncherSendTurnStart, StoreTypes, ServerTypes, bounds, store
    <2>3. ProcTypes' /\ UNCHANGED chan
      BY <1>4, <2>1, <1>b DEF LauncherSendTurnStart, ProcTypes
    <2> QED BY <2>1, <2>2, <2>3, <1>b, <1>c
  <1>5. CASE LauncherTakeAnswer
    <2>1. \E loc \in Locs : Goto("launcher", loc)
      BY <1>5, <1>a DEF LauncherTakeAnswer, LaunchLocs
    <2>2. StoreTypes' /\ ServerTypes'
      BY <1>5 DEF LauncherTakeAnswer, StoreTypes, ServerTypes, bounds, store
    <2>3. ProcTypes' /\ UNCHANGED chan
      BY <1>5, <2>1, <1>a, <1>b DEF LauncherTakeAnswer, ProcTypes
    <2> QED BY <2>1, <2>2, <2>3, <1>b, <1>c
  <1>6. CASE ResponseReadReceipt
    <2>1. StoreTypes' /\ ServerTypes' /\ UNCHANGED <<chan, aged>>
      BY <1>6 DEF ResponseReadReceipt, StoreTypes, ServerTypes, bounds, store, server
    <2>2. CASE Goto("launcher", "rs_marker") /\ UNCHANGED <<snap, stage, polls>>
      BY <2>1, <2>2, <1>a, <1>b, <1>c DEF ProcTypes, LaunchLocs
    <2>3. CASE \E o : Return("launcher", o)
      <3>1. ProcTypes' /\ pc'["pump"] = pc["pump"]
        BY <2>1, <2>3, <1>a, ReturnTypes
      <3> QED BY <3>1, <2>1, <1>c
    <2> QED BY <1>6, <2>2, <2>3 DEF ResponseReadReceipt
  <1>7. CASE ResponseReadMarker \/ ResponseReadAgent
    <2>1. \E loc \in Locs : Goto("launcher", loc)
      BY <1>7, <1>a DEF ResponseReadMarker, ResponseReadAgent, LaunchLocs
    <2>2. StoreTypes' /\ ServerTypes'
      BY <1>7 DEF ResponseReadMarker, ResponseReadAgent, StoreTypes, ServerTypes, bounds, store, server
    <2>3. ProcTypes' /\ UNCHANGED chan
      BY <1>7, <2>1, <1>b DEF ResponseReadMarker, ResponseReadAgent, ProcTypes, server
    <2> QED BY <2>1, <2>2, <2>3, <1>b, <1>c
  <1>8. CASE record_pending_turn_start_response
    <2>1. ServerTypes' /\ UNCHANGED <<chan, aged>>
      BY <1>8 DEF record_pending_turn_start_response, ServerTypes, bounds, server
    <2>2. snap["launcher"] \in Turns \cup {NoTurn}
      BY <1>a DEF ProcTypes
    <2>3. StoreTypes'
      BY <1>8, <2>2 DEF record_pending_turn_start_response, StoreTypes, AgentStates, Routes
    <2>4. CASE /\ \E loc \in {"rc_receipt", "ct_begin"} : Goto("launcher", loc)
               /\ UNCHANGED <<snap, stage, polls>>
      BY <2>1, <2>3, <2>4, <1>a, <1>b, <1>c DEF ProcTypes
    <2>5. CASE \E o : Return("launcher", o)
      <3>1. ProcTypes' /\ pc'["pump"] = pc["pump"]
        BY <2>1, <2>5, <1>a, ReturnTypes
      <3> QED BY <3>1, <2>1, <2>3, <1>c
    <2> QED BY <1>8, <2>4, <2>5 DEF record_pending_turn_start_response
  <1>9. CASE LauncherFailed
    <2>1. \E loc \in Locs : Goto("launcher", loc)
      BY <1>9, <1>a DEF LauncherFailed, LaunchLocs
    <2>4. task' \in TaskStates /\ lease' \in BOOLEAN
      BY <1>9 DEF LauncherFailed, StoreTypes, TaskStates
    <2>2. StoreTypes' /\ ServerTypes'
      BY <1>9, <2>4 DEF LauncherFailed, StoreTypes, ServerTypes, bounds, server
    <2>3. ProcTypes' /\ UNCHANGED chan
      BY <1>9, <2>1, <1>b DEF LauncherFailed, ProcTypes, server
    <2> QED BY <2>1, <2>2, <2>3, <1>b, <1>c
  <1> QED BY <1>1, <1>2, <1>3, <1>4, <1>5, <1>6, <1>7, <1>8, <1>9 DEF Launcher

(* The functions that resolve a receipt, whichever task runs them.          *)
LEMMA TInvResolve ==
    ASSUME TInv, TurnStartAssumption, NEW p \in {"launcher", "pump", "maint"}, Resolve(p)
    PROVE  TInv'
  <1> USE DEF TInv, TypeOK
  <1> DEFINE Held == {"p_project", "p_complete"}
             Moved == /\ ProcTypes' /\ pc'[p] \notin Held
                      /\ \A q \in Procs \ {p} : pc'[q] = pc[q]
             Here == ReconcileLocs \cup ContainLocs \cup FinalizeLocs
  <1>a. p \in Procs /\ "pump" \in Procs /\ Here \subseteq Locs
    BY DEF Procs, Locs
  <1>b. ASSUME NEW loc \in Here, Goto(p, loc), UNCHANGED <<snap, stage, polls, aged>>
        PROVE  Moved
    <2>1. loc \in Locs /\ loc \notin Held
      BY <1>a DEF ReconcileLocs, ContainLocs, FinalizeLocs
    <2>2. pc' \in [Procs -> Locs] /\ pc'[p] = loc /\ \A q \in Procs \ {p} : pc'[q] = pc[q]
      BY <1>a, <1>b, <2>1, GotoTypes
    <2> QED BY <1>b, <2>1, <2>2 DEF ProcTypes
  <1>c. ASSUME NEW o, Return(p, o), UNCHANGED aged PROVE Moved
    BY <1>c, ReturnTypes
  <1>d. ASSUME Moved, UNCHANGED chan PROVE ProcTypes' /\ PumpHolds'
    BY <1>a, <1>d DEF PumpHolds
  <1> HIDE DEF Moved
  <1>1. CASE ReconcileReadReceipt(p)
    <2>1. StoreTypes' /\ ServerTypes' /\ UNCHANGED <<chan, aged>>
      BY <1>1 DEF ReconcileReadReceipt, StoreTypes, ServerTypes, bounds, store, server
    <2>2. CASE Goto(p, "rc_marker") /\ UNCHANGED <<snap, stage, polls>>
      BY <2>1, <2>2, <1>b, <1>d DEF ReconcileLocs
    <2>3. CASE \E o : Return(p, o)
      BY <2>1, <2>3, <1>c, <1>d
    <2> QED BY <1>1, <2>2, <2>3 DEF ReconcileReadReceipt
  <1>2. CASE ReconcileReadMarker(p)
    <2>1. StoreTypes' /\ ServerTypes' /\ UNCHANGED <<chan, snap, stage, polls, aged>>
      BY <1>2 DEF ReconcileReadMarker, StoreTypes, ServerTypes, bounds, store, server
    <2>2. \E loc \in Here : Goto(p, loc)
      BY <1>2 DEF ReconcileReadMarker, ReconcileLocs, ContainLocs
    <2> QED BY <2>1, <2>2, <1>b, <1>d
  <1>3. CASE ReconcileReadAgent(p)
    <2>1. StoreTypes' /\ ServerTypes' /\ UNCHANGED <<chan, aged>>
      BY <1>3 DEF ReconcileReadAgent, StoreTypes, ServerTypes, bounds, store, server
    <2>2. CASE /\ snap' = [snap EXCEPT ![p] = activeTurn] /\ UNCHANGED <<stage, polls>>
               /\ \E loc \in {"rc_accept", "ct_begin"} : Goto(p, loc)
      <3>1. PICK loc \in {"rc_accept", "ct_begin"} : Goto(p, loc)
        BY <2>2
      <3>2. loc \in Locs /\ loc \notin Held
        BY <1>a DEF ReconcileLocs, ContainLocs
      <3>3. pc' \in [Procs -> Locs] /\ pc'[p] = loc /\ \A q \in Procs \ {p} : pc'[q] = pc[q]
        BY <1>a, <3>1, <3>2, GotoTypes
      <3>4. Moved
        BY <2>1, <2>2, <3>2, <3>3, <1>a DEF Moved, ProcTypes, StoreTypes
      <3> QED BY <3>4, <2>1, <1>d
    <2>3. CASE \E o : Return(p, o)
      BY <2>1, <2>3, <1>c, <1>d
    <2> QED BY <1>3, <2>2, <2>3 DEF ReconcileReadAgent
  <1>4. CASE accept_pending_turn_start_notification(p)
    <2>1. ServerTypes' /\ UNCHANGED <<chan, aged>>
      BY <1>4 DEF accept_pending_turn_start_notification, ServerTypes, bounds, server
    <2>2. snap[p] \in Turns \cup {NoTurn}
      BY <1>a DEF ProcTypes
    <2>3. StoreTypes'
      <3>1. CASE UNCHANGED store
        BY <3>1 DEF store, StoreTypes
      <3>2. CASE /\ receipt' = FALSE /\ acks' = acks + 1 /\ activeTurn' = snap[p]
                 /\ turnRoute' = [turnRoute EXCEPT ![snap[p]] = "match"]
                 /\ state' = "RUNNING"
                 /\ UNCHANGED <<marker, initiated, dels, raw, lease, task, run>>
        <4>1. receipt' \in BOOLEAN /\ state' \in AgentStates /\ activeTurn' \in Turns \cup {NoTurn}
          BY <3>2, <2>2 DEF StoreTypes, AgentStates
        <4>3. acks' \in Nat
          BY <3>2 DEF StoreTypes
        <4>2. turnRoute' \in [Turns -> Routes]
          BY <3>2, <2>2 DEF StoreTypes, Routes
        <4> QED BY <3>2, <4>1, <4>2, <4>3 DEF StoreTypes
      <3> QED BY <1>4, <3>1, <3>2 DEF accept_pending_turn_start_notification
    <2>4. CASE Goto(p, "ct_begin") /\ UNCHANGED <<snap, stage, polls>>
      BY <2>1, <2>3, <2>4, <1>b, <1>d DEF ContainLocs
    <2>5. CASE \E o : Return(p, o)
      BY <2>1, <2>3, <2>5, <1>c, <1>d
    <2> QED BY <1>4, <2>4, <2>5 DEF accept_pending_turn_start_notification
  <1>5. CASE begin_pending_turn_start_containment(p)
    <2>3. marker' \in BOOLEAN /\ initiated' \in BOOLEAN
      BY <1>5 DEF begin_pending_turn_start_containment, StoreTypes
    <2>1. StoreTypes' /\ ServerTypes' /\ UNCHANGED <<chan, snap, stage, polls, aged>>
      BY <1>5, <2>3 DEF begin_pending_turn_start_containment, StoreTypes, ServerTypes, bounds, server
    <2>2. \E loc \in Here : Goto(p, loc)
      BY <1>5 DEF begin_pending_turn_start_containment, ReconcileLocs, ContainLocs
    <2> QED BY <2>1, <2>2, <1>b, <1>d
  <1>6. CASE ContainDeleteThread(p)
    <2>1. StoreTypes' /\ UNCHANGED aged
      BY <1>6 DEF ContainDeleteThread, StoreTypes, AgentStates
    <2>2. Moved
      <3>1. CASE Goto(p, "fz_clear") /\ UNCHANGED <<snap, stage, polls>>
        BY <2>1, <3>1, <1>b DEF FinalizeLocs
      <3>2. CASE Return(p, "ContainmentPending")
        BY <2>1, <3>2, <1>c
      <3> QED BY <1>6, <3>1, <3>2 DEF ContainDeleteThread
    <2>3. \/ UNCHANGED chan
          \/ \E n \in Notifications : chan' = Append(chan, n)
      BY <1>6 DEF ContainDeleteThread, Notifications
    <2>4. chan \in Seq(Notifications)
      BY DEF ServerTypes
    <2>5. chan' \in Seq(Notifications) /\ (chan # <<>> => chan' # <<>> /\ Head(chan') = Head(chan))
      BY <2>3, <2>4, AppendKeeps
    <2>6. thread' \in {thread, "deleted"} /\ turnLive' \in {turnLive, FALSE}
      BY <1>6 DEF ContainDeleteThread
    <2>7. ServerTypes'
      BY <1>6, <2>5, <2>6 DEF ContainDeleteThread, ServerTypes, bounds
    <2>8. PumpHolds'
      BY <2>2, <2>5, <1>a DEF Moved, PumpHolds
    <2>9. ProcTypes'
      BY <2>2 DEF Moved
    <2> QED BY <2>1, <2>7, <2>8, <2>9
  <1>7. CASE FinalizeContained(p)
    <2>1. task' \in TaskStates /\ lease' \in BOOLEAN /\ state' \in AgentStates
          /\ activeTurn' \in Turns \cup {NoTurn}
      BY <1>7 DEF FinalizeContained, StoreTypes, TaskStates, AgentStates, AgentTerminal
    <2>2. StoreTypes' /\ ServerTypes' /\ UNCHANGED <<chan, snap, stage, polls, aged>>
      BY <1>7, <2>1 DEF FinalizeContained, StoreTypes, ServerTypes, bounds, server
    <2>3. \E loc \in Here : Goto(p, loc)
      BY <1>7 DEF FinalizeContained, FinalizeLocs
    <2> QED BY <2>2, <2>3, <1>b, <1>d
  <1>8. CASE resolve_pending_turn_start(p)
    <2>3. receipt' \in BOOLEAN /\ marker' \in BOOLEAN
      BY <1>8 DEF resolve_pending_turn_start, StoreTypes
    <2>4. dels' \in Nat
      BY <1>8 DEF resolve_pending_turn_start, StoreTypes
    <2>1. StoreTypes' /\ ServerTypes' /\ UNCHANGED <<chan, aged>>
      BY <1>8, <2>3, <2>4 DEF resolve_pending_turn_start, StoreTypes, ServerTypes, bounds, server
    <2>2. \E o : Return(p, o)
      BY <1>8 DEF resolve_pending_turn_start
    <2> QED BY <2>1, <2>2, <1>c, <1>d
  <1> QED BY <1>1, <1>2, <1>3, <1>4, <1>5, <1>6, <1>7, <1>8 DEF Resolve

(* Maintenance, the pump, the operator and the environment.                 *)
LEMMA TInvOther ==
    ASSUME TInv, TurnStartAssumption,
           MaintenanceReconcile \/ Pump \/ Operator \/ Environment
    PROVE  TInv'
  <1> USE DEF TInv, TypeOK
  <1>a. Procs = {"launcher", "pump", "maint", "operator"} /\ chan \in Seq(Notifications)
    BY DEF Procs, ServerTypes
  <1>b. {"rc_receipt", "p_project", "p_complete", "idle", "st_interrupt", "st_drain", "st_cancel"}
        \subseteq Locs
    BY DEF Locs, ReconcileLocs
  <1>c. ASSUME NEW p \in Procs, NEW loc \in Locs, Goto(p, loc), UNCHANGED <<snap, stage, polls, aged>>
        PROVE  ProcTypes' /\ pc'[p] = loc /\ \A q \in Procs \ {p} : pc'[q] = pc[q]
    <2>1. pc' \in [Procs -> Locs] /\ pc'[p] = loc /\ \A q \in Procs \ {p} : pc'[q] = pc[q]
      BY <1>c, GotoTypes
    <2> QED BY <1>c, <2>1 DEF ProcTypes
  <1>d. ASSUME NEW n \in Notifications, chan' = Append(chan, n), pc'["pump"] = pc["pump"]
        PROVE  chan' \in Seq(Notifications) /\ PumpHolds'
    BY <1>a, <1>d, AppendKeeps DEF PumpHolds
  <1>e. ASSUME UNCHANGED chan, pc'["pump"] = pc["pump"] PROVE PumpHolds'
    BY <1>e DEF PumpHolds
  <1>f. ASSUME reconcile_orphaned_sessions
        PROVE  state' \in AgentStates /\ activeTurn' \in Turns \cup {NoTurn} /\ task' \in TaskStates
    BY <1>f DEF reconcile_orphaned_sessions, StoreTypes, AgentStates, TaskStates
  <1>1. CASE MaintenanceReconcile
    <2>1. StoreTypes' /\ ServerTypes' /\ UNCHANGED chan
      BY <1>1 DEF MaintenanceReconcile, StoreTypes, ServerTypes, bounds, store, server
    <2>2. pc' \in [Procs -> Locs] /\ pc'["pump"] = pc["pump"]
      BY <1>1, <1>a, <1>b, GotoTypes DEF MaintenanceReconcile
    <2>3. ProcTypes'
      BY <1>1, <1>a, <2>2 DEF MaintenanceReconcile, ProcTypes
    <2> QED BY <2>1, <2>2, <2>3, <1>e
  <1>2. CASE PumpTurnStarted
    <2>1. ProcTypes' /\ pc'["pump"] = "p_project"
      BY <1>2, <1>a, <1>b, <1>c DEF PumpTurnStarted
    <2>2. Head(chan) \in Started /\ chan # <<>> /\ UNCHANGED chan
      BY <1>2, <1>a, HeadKinds DEF PumpTurnStarted, server
    <2>3. raw' \subseteq Turns
      BY <1>2, <2>2 DEF PumpTurnStarted, StoreTypes, Started
    <2>4. StoreTypes' /\ ServerTypes'
      BY <1>2, <2>3 DEF PumpTurnStarted, StoreTypes, ServerTypes, bounds, server
    <2>5. PumpHolds'
      BY <2>1, <2>2 DEF PumpHolds
    <2> QED BY <2>1, <2>4, <2>5
  <1>3. CASE project_turn_started
    <2>1. ProcTypes' /\ pc'["pump"] = "rc_receipt"
      BY <1>3, <1>a, <1>b, <1>c DEF project_turn_started
    <2>2. Head(chan) \in Started /\ chan # <<>>
      BY <1>3 DEF project_turn_started, PumpHolds
    <2>3. chan' \in Seq(Notifications)
      BY <1>3, <1>a, <2>2, HeadKinds DEF project_turn_started
    <2>4. Head(chan).turn \in Turns /\ Head(chan).route \in Routes
      BY <2>2 DEF Started, Routes
    <2>5. turnRoute' \in [Turns -> Routes]
      BY <1>3, <2>4 DEF project_turn_started, StoreTypes
    <2>6. state' \in AgentStates /\ activeTurn' \in Turns \cup {NoTurn}
      BY <1>3, <2>4 DEF project_turn_started, AgentStates
    <2>7. StoreTypes' /\ ServerTypes'
      BY <1>3, <2>3, <2>5, <2>6 DEF project_turn_started, StoreTypes, ServerTypes, bounds
    <2>8. PumpHolds'
      BY <2>1 DEF PumpHolds
    <2> QED BY <2>1, <2>7, <2>8
  <1>4. CASE project_turn_completed
    <2>1. ProcTypes' /\ pc'["pump"] = "p_complete"
      BY <1>4, <1>a, <1>b, <1>c DEF project_turn_completed
    <2>2. Head(chan) \in Completed /\ chan # <<>> /\ UNCHANGED chan
      BY <1>4, <1>a, HeadKinds DEF project_turn_completed, server
    <2>3. state' \in AgentStates
      BY <1>4 DEF project_turn_completed, AgentStates, AgentTerminal
    <2>4. StoreTypes' /\ ServerTypes'
      BY <1>4, <2>3 DEF project_turn_completed, StoreTypes, ServerTypes, bounds, server
    <2>5. PumpHolds'
      BY <2>1, <2>2 DEF PumpHolds
    <2> QED BY <2>1, <2>4, <2>5
  <1>5. CASE handle_turn_completed
    <2>1. ProcTypes' /\ pc'["pump"] = "idle"
      BY <1>5, <1>a, <1>b, <1>c DEF handle_turn_completed
    <2>2. chan # <<>>
      BY <1>5 DEF handle_turn_completed, PumpHolds
    <2>3. chan' \in Seq(Notifications)
      BY <1>5, <1>a, <2>2, HeadKinds DEF handle_turn_completed
    <2>4. /\ state' \in {state, "CANCELED", "COMPLETED", "FAILED"}
          /\ task' \in {task, "CANCELED", "REVIEW_READY", "NEEDS_HELP"}
          /\ lease' \in {lease, FALSE} /\ run' \in {run, "CANCELED"}
      BY <1>5 DEF handle_turn_completed, FinishStopping
    <2>5. state' \in AgentStates /\ task' \in TaskStates /\ lease' \in BOOLEAN /\ run' \in RunStates
      BY <2>4 DEF StoreTypes, AgentStates, AgentTerminal, TaskStates, RunStates
    <2>6. StoreTypes' /\ ServerTypes'
      BY <1>5, <2>3, <2>5 DEF handle_turn_completed, StoreTypes, ServerTypes, bounds
    <2>7. PumpHolds'
      BY <2>1 DEF PumpHolds
    <2> QED BY <2>1, <2>6, <2>7
  <1>6. CASE PumpProcessExit
    <2>1. chan' \in Seq(Notifications)
      BY <1>6, <1>a, HeadKinds DEF PumpProcessExit
    <2>2. state' \in AgentStates /\ activeTurn' \in Turns \cup {NoTurn} /\ task' \in TaskStates
      BY <1>6, <1>f DEF PumpProcessExit
    <2>3. StoreTypes' /\ ServerTypes' /\ ProcTypes'
      BY <1>6, <2>1, <2>2 DEF PumpProcessExit, StoreTypes, ServerTypes, ProcTypes, bounds, procs
    <2>4. PumpHolds'
      BY <1>6 DEF PumpProcessExit, PumpHolds, procs
    <2> QED BY <2>3, <2>4
  <1>7. CASE StopRun
    <2>1. \E loc \in Locs : Goto("operator", loc)
      BY <1>7, <1>b DEF StopRun
    <2>2. StoreTypes' /\ ServerTypes' /\ UNCHANGED chan
      BY <1>7 DEF StopRun, StoreTypes, ServerTypes, RunStates, bounds, server
    <2>3. ProcTypes' /\ pc'["pump"] = pc["pump"]
      BY <1>7, <1>a, <1>c, <2>1 DEF StopRun
    <2> QED BY <2>2, <2>3, <1>e
  <1>8. CASE StopInterrupt
    <2>1. ProcTypes' /\ pc'["pump"] = pc["pump"]
      BY <1>8, <1>a, <1>b, <1>c DEF StopInterrupt
    <2>2. UNCHANGED chan \/ \E n \in Notifications : chan' = Append(chan, n)
      BY <1>8 DEF StopInterrupt, Notifications
    <2>3. chan' \in Seq(Notifications) /\ PumpHolds'
      BY <1>a, <1>d, <1>e, <2>1, <2>2
    <2>4. state' \in AgentStates /\ task' \in TaskStates
      BY <1>8 DEF StopInterrupt, StoreTypes, AgentStates, AgentTerminal, TaskStates
    <2>5. turnLive' \in BOOLEAN
      BY <1>8 DEF StopInterrupt, ServerTypes
    <2>6. StoreTypes' /\ ServerTypes'
      BY <1>8, <2>3, <2>4, <2>5 DEF StopInterrupt, StoreTypes, ServerTypes, bounds
    <2> QED BY <2>1, <2>3, <2>6
  <1>9. CASE StopFinish
    <2>1. ProcTypes' /\ pc'["pump"] = pc["pump"] /\ UNCHANGED chan
      BY <1>9, <1>a, <1>b, <1>c DEF StopFinish, server
    <2>2. run' \in RunStates /\ lease' \in BOOLEAN /\ task' \in TaskStates
      BY <1>9 DEF StopFinish, FinishStopping, StoreTypes, RunStates, TaskStates
    <2>3. StoreTypes' /\ ServerTypes'
      BY <1>9, <2>2 DEF StopFinish, StoreTypes, ServerTypes, bounds, server
    <2> QED BY <2>1, <2>3, <1>e
  <1>10. CASE GraceExpires
    BY <1>10 DEF GraceExpires, StoreTypes, ProcTypes, ServerTypes, PumpHolds, bounds, store, server
  <1>11. CASE ServerStartTurn
    <2>1. PICK t \in Turns, r \in {"null", "match", "conflict"} :
            /\ srvTurn' = t /\ srvRoute' = r
            /\ chan' = Append(chan, [kind |-> "started", turn |-> t, route |-> r])
      BY <1>11 DEF ServerStartTurn
    <2>2. [kind |-> "started", turn |-> t, route |-> r] \in Notifications
      BY DEF Notifications
    <2>3. UNCHANGED pc
      BY <1>11 DEF ServerStartTurn, procs
    <2>4. chan' \in Seq(Notifications) /\ PumpHolds'
      BY <1>d, <2>1, <2>2, <2>3
    <2>5. StoreTypes' /\ ProcTypes'
      BY <1>11 DEF ServerStartTurn, StoreTypes, ProcTypes, store, procs
    <2>6. ServerTypes'
      BY <1>11, <2>1, <2>4 DEF ServerStartTurn, ServerTypes, bounds
    <2> QED BY <2>4, <2>5, <2>6
  <1>12. CASE ServerAnswer
    BY <1>12 DEF ServerAnswer, StoreTypes, ProcTypes, ServerTypes, PumpHolds, bounds, store, procs
  <1>13. CASE ServerTurnEnds
    <2>1. \E n \in Notifications : chan' = Append(chan, n)
      BY <1>13 DEF ServerTurnEnds, Notifications
    <2>2. UNCHANGED pc
      BY <1>13 DEF ServerTurnEnds, procs
    <2>3. chan' \in Seq(Notifications) /\ PumpHolds'
      BY <1>d, <2>1, <2>2
    <2>4. StoreTypes' /\ ProcTypes'
      BY <1>13 DEF ServerTurnEnds, StoreTypes, ProcTypes, store, procs
    <2>5. ServerTypes'
      BY <1>13, <2>3 DEF ServerTurnEnds, ServerTypes, bounds
    <2> QED BY <2>3, <2>4, <2>5
  <1>14. CASE ServerExit
    <2>1. \E n \in Notifications : chan' = Append(chan, n)
      BY <1>14 DEF ServerExit, Notifications
    <2>2. UNCHANGED pc
      BY <1>14 DEF ServerExit, procs
    <2>3. chan' \in Seq(Notifications) /\ PumpHolds'
      BY <1>d, <2>1, <2>2
    <2>4. StoreTypes' /\ ProcTypes'
      BY <1>14 DEF ServerExit, StoreTypes, ProcTypes, store, procs
    <2>5. rpc' \in {"none", "sent", "handled"} /\ turnLive' \in BOOLEAN
      BY <1>14 DEF ServerExit, ServerTypes
    <2>6. exits' \in Nat
      BY <1>14 DEF ServerExit, ServerTypes
    <2>7. ServerTypes'
      BY <1>14, <2>3, <2>5, <2>6 DEF ServerExit, ServerTypes
    <2> QED BY <2>3, <2>4, <2>7
  <1>15. CASE CrashRestart
    <2>1. chan' \in Seq(Notifications) /\ pc'["pump"] = "idle"
      BY <1>15, <1>a DEF CrashRestart
    <2>2. state' \in AgentStates /\ activeTurn' \in Turns \cup {NoTurn} /\ task' \in TaskStates
      BY <1>15, <1>f DEF CrashRestart
    <2>3. StoreTypes'
      BY <1>15, <2>2 DEF CrashRestart, StoreTypes
    <2>4. ProcTypes'
      BY <1>15 DEF CrashRestart, ProcTypes, Locs, LaunchLocs
    <2>5. rpc' \in {"none", "sent", "handled"} /\ turnLive' \in BOOLEAN
      BY <1>15 DEF CrashRestart, ServerTypes
    <2>6. crashes' \in Nat
      BY <1>15 DEF CrashRestart, ServerTypes
    <2>7. ServerTypes'
      BY <1>15, <2>1, <2>5, <2>6 DEF CrashRestart, ServerTypes
    <2>8. PumpHolds'
      BY <2>1 DEF PumpHolds
    <2> QED BY <2>3, <2>4, <2>7, <2>8
  <1> QED BY <1>1, <1>2, <1>3, <1>4, <1>5, <1>6, <1>7, <1>8, <1>9, <1>10, <1>11, <1>12, <1>13,
             <1>14, <1>15
      DEF Pump, Operator, Environment

LEMMA TInvAlways == Spec => []TInv
  <1>1. ASSUME TInv, TurnStartAssumption, [Next]_vars PROVE TInv'
    <2>1. CASE Next
      BY <1>1, <2>1, TInvLauncher, TInvResolve, TInvOther DEF Next
    <2>2. CASE UNCHANGED vars
      BY <1>1, <2>2 DEF TInv, TypeOK, StoreTypes, ProcTypes, ServerTypes, PumpHolds, vars, store,
                        procs, server, bounds
    <2> QED BY <1>1, <2>1, <2>2
  <1> QED BY TurnStartAssumption, TInvInit, <1>1, PTL DEF Spec

(* Every row, every local of the four tasks and every notification in the   *)
(* pipe keeps its type: in particular the session state is always one of    *)
(* the controller's, whatever status string turn/completed carried.         *)
THEOREM TypeOKHolds == Spec => []TypeOK
  BY TInvAlways, PTL DEF TInv

-----------------------------------------------------------------------------
Resolvers == {"launcher", "pump", "maint"}

(* The inductive invariant.  Its heart is Custody: while a receipt exists   *)
(* nothing has been resolved, a marker never outlives its receipt, and a    *)
(* task that has got past the containment decision can rely on the marker   *)
(* (or on a containment another task has completed).                        *)
ReceiptOpen ==
    /\ receipt => acks = 0 /\ dels = 0
    /\ marker => receipt /\ initiated
    /\ initiated => marker \/ dels = 1
    /\ acks + dels <= 1

(* The receipt precedes the request, the request precedes the turn.         *)
SentAfterReceipt ==
    /\ pc["launcher"] \in {"l_thread", "l_goal", "l_record"} =>
          rpc = "none" /\ ~receipt /\ acks = 0 /\ dels = 0
    /\ pc["launcher"] = "l_thread" => thread = "none"
    /\ pc["launcher"] \notin {"l_thread", "l_goal", "l_record"} /\ rpc # "none" =>
          receipt \/ acks + dels = 1
    /\ pc["launcher"] = "l_call" => rpc = "none" /\ (receipt \/ acks + dels = 1)
    /\ rpc # "handled" => ~turnLive

(* Past thread/delete nothing of the thread runs.                           *)
DeletedIsDead ==
    /\ thread # "live" => ~turnLive
    /\ dels = 1 => thread = "deleted"
    /\ \A p \in Resolvers : pc[p] \in FinalizeLocs => thread = "deleted"

DecisionIsDurable ==
    \A p \in Resolvers :
        pc[p] \in FinalizeLocs \cup {"ct_delete"} => marker \/ dels = 1

IInv == ReceiptOpen /\ SentAfterReceipt /\ DeletedIsDead /\ DecisionIsDurable

CustodyTypes ==
    /\ receipt \in BOOLEAN /\ marker \in BOOLEAN /\ initiated \in BOOLEAN
    /\ turnLive \in BOOLEAN
    /\ acks \in Nat /\ dels \in Nat
    /\ pc \in [Procs -> Locs]
    /\ thread \in {"none", "live", "deleted"}
    /\ rpc \in {"none", "sent", "handled"}

CInv == CustodyTypes /\ IInv

\* The variables the custody argument is about.
cvars == <<receipt, marker, initiated, acks, dels, turnLive, thread, rpc>>

\* Where a task may arrive without any obligation.
QuietLocs == Locs \ (FinalizeLocs \cup {"ct_delete", "l_thread", "l_goal",
                                        "l_record", "l_call"})

-----------------------------------------------------------------------------
(* A reconciliation that returns leaves its task at a quiet location and    *)
(* does not move any other task.                                            *)
LEMMA ReturnIsQuiet ==
    ASSUME CustodyTypes, NEW p \in Resolvers, NEW outcome, Return(p, outcome)
    PROVE  /\ pc' \in [Procs -> Locs]
           /\ \A q \in Procs : pc'[q] = pc[q] \/ pc'[q] \in QuietLocs
  BY DEF CustodyTypes, Resolvers, Return, Leave, Again, Goto, QuietLocs, Procs,
         Locs, FinalizeLocs, ReconcileLocs, ContainLocs, LaunchLocs

(* A single task that moves to a quiet location.                            *)
LEMMA GotoIsQuiet ==
    ASSUME CustodyTypes, NEW p \in Procs, NEW loc \in QuietLocs, Goto(p, loc)
    PROVE  /\ pc' \in [Procs -> Locs]
           /\ \A q \in Procs : pc'[q] = pc[q] \/ pc'[q] \in QuietLocs
  BY DEF CustodyTypes, Goto, QuietLocs

(* A step that leaves the custody variables alone and only moves tasks to   *)
(* quiet locations preserves the invariant.                                 *)
LEMMA QuietStep ==
    ASSUME CInv, UNCHANGED cvars,
           pc' \in [Procs -> Locs],
           \A q \in Procs : pc'[q] = pc[q] \/ pc'[q] \in QuietLocs
    PROVE  CInv'
  <1> USE DEF CInv, cvars
  <1>1. CustodyTypes'
    BY DEF CustodyTypes
  <1>2. ReceiptOpen'
    BY DEF IInv, ReceiptOpen
  <1>3. SentAfterReceipt'
    BY DEF IInv, SentAfterReceipt, QuietLocs, Procs, CustodyTypes
  <1>4. DeletedIsDead'
    BY DEF IInv, DeletedIsDead, QuietLocs, Procs, Resolvers
  <1>5. DecisionIsDurable'
    BY DEF IInv, DecisionIsDurable, QuietLocs, Procs, Resolvers
  <1> QED BY <1>1, <1>2, <1>3, <1>4, <1>5 DEF IInv

(* The receipt and the turn begin together with the launch.                 *)
LEMMA CInvInit == ASSUME Init PROVE CInv
  <1>1. /\ receipt = FALSE /\ marker = FALSE /\ initiated = FALSE
        /\ acks = 0 /\ dels = 0 /\ thread = "none" /\ rpc = "none"
        /\ turnLive = FALSE
    BY DEF Init
  <1>2. pc = [p \in Procs |-> IF p = "launcher" THEN "l_thread" ELSE "idle"]
    BY DEF Init
  <1>3. /\ pc \in [Procs -> Locs] /\ pc["launcher"] = "l_thread"
        /\ \A p \in Resolvers : pc[p] \in {"l_thread", "idle"}
    BY <1>2 DEF Procs, Locs, LaunchLocs, Resolvers
  <1>4. CustodyTypes
    BY <1>1, <1>3 DEF CustodyTypes
  <1>5. ReceiptOpen /\ SentAfterReceipt
    BY <1>1, <1>3 DEF ReceiptOpen, SentAfterReceipt
  <1>6. DeletedIsDead /\ DecisionIsDurable
    BY <1>1, <1>3 DEF DeletedIsDead, DecisionIsDurable, FinalizeLocs
  <1> QED BY <1>4, <1>5, <1>6 DEF CInv, IInv

-----------------------------------------------------------------------------
(* The steps of the launcher.                                               *)
LEMMA LauncherStep ==
    ASSUME CInv, Launcher
    PROVE  CInv'
  <1> USE DEF CInv
  <1> DEFINE Quiet == /\ UNCHANGED cvars /\ pc' \in [Procs -> Locs]
                      /\ \A q \in Procs : pc'[q] = pc[q] \/ pc'[q] \in QuietLocs
  <1>a. "launcher" \in Procs /\ "launcher" \in Resolvers
    BY DEF Procs, Resolvers
  <1>b. {"l_err", "l_err_task", "l_done", "l_wait", "ct_begin", "rs_receipt", "rs_marker",
         "rs_agent", "rs_record", "rc_receipt"} \subseteq QuietLocs
    BY DEF QuietLocs, Locs, FinalizeLocs, ReconcileLocs, ContainLocs, LaunchLocs
  <1>c. CustodyTypes
    OBVIOUS
  <1>d. ASSUME NEW loc \in QuietLocs, Goto("launcher", loc), UNCHANGED cvars
        PROVE  Quiet
    BY <1>a, <1>c, <1>d, GotoIsQuiet
  <1>e. ASSUME NEW o, Return("launcher", o), UNCHANGED cvars
        PROVE  Quiet
    BY <1>a, <1>c, <1>e, ReturnIsQuiet
  <1>f. ASSUME Quiet PROVE CInv'
    BY <1>f, QuietStep
  <1> HIDE DEF CInv, Quiet
  <1>1. CASE LauncherStartThread
    <2> USE DEF CInv, IInv
    <2>1. pc["launcher"] = "l_thread" /\ UNCHANGED <<receipt, marker, initiated, acks,
                                                    dels, rpc, turnLive>>
      BY <1>1 DEF LauncherStartThread
    <2>2. /\ pc' \in [Procs -> Locs] /\ pc'["launcher"] \in {"l_goal", "l_err"}
          /\ \A q \in Procs \ {"launcher"} : pc'[q] = pc[q]
      BY <1>1, <1>a DEF LauncherStartThread, Goto, CustodyTypes, Locs, LaunchLocs
    <2>3. thread' \in {"live", thread} /\ thread = "none"
      BY <1>1, <2>1 DEF LauncherStartThread, SentAfterReceipt
    <2>4. CustodyTypes'
      BY <2>1, <2>2, <2>3 DEF CustodyTypes
    <2>5. ReceiptOpen'
      BY <2>1 DEF ReceiptOpen
    <2>6. SentAfterReceipt'
      BY <2>1, <2>2, <2>3 DEF SentAfterReceipt
    <2>7. DeletedIsDead' /\ DecisionIsDurable'
      BY <2>1, <2>2, <2>3, <1>a
      DEF DeletedIsDead, DecisionIsDurable, SentAfterReceipt, FinalizeLocs, Resolvers, Procs,
          CustodyTypes
    <2> QED BY <2>4, <2>5, <2>6, <2>7
  <1>2. CASE LauncherSetGoal
    <2> USE DEF CInv, IInv
    <2>1. pc["launcher"] = "l_goal" /\ UNCHANGED cvars
      BY <1>2 DEF LauncherSetGoal, cvars, server
    <2>2. /\ pc' \in [Procs -> Locs] /\ pc'["launcher"] \in {"l_record", "l_err"}
          /\ \A q \in Procs \ {"launcher"} : pc'[q] = pc[q]
      BY <1>2, <1>a DEF LauncherSetGoal, Goto, CustodyTypes, Locs, LaunchLocs
    <2>3. CustodyTypes'
      BY <2>1, <2>2 DEF CustodyTypes, cvars
    <2>4. ReceiptOpen'
      BY <2>1 DEF ReceiptOpen, cvars
    <2>5. SentAfterReceipt'
      BY <2>1, <2>2 DEF SentAfterReceipt, cvars
    <2>6. DeletedIsDead' /\ DecisionIsDurable'
      BY <2>1, <2>2, <1>a
      DEF DeletedIsDead, DecisionIsDurable, FinalizeLocs, Resolvers, Procs, cvars
    <2> QED BY <2>3, <2>4, <2>5, <2>6
  <1>3. CASE record_pending_turn_start
    <2> USE DEF CInv, IInv
    <2>1. /\ pc["launcher"] = "l_record" /\ receipt' = TRUE
          /\ UNCHANGED <<marker, initiated, acks, dels, thread, rpc, turnLive>>
      BY <1>3 DEF record_pending_turn_start, server
    <2>2. /\ pc' \in [Procs -> Locs] /\ pc'["launcher"] = "l_call"
          /\ \A q \in Procs \ {"launcher"} : pc'[q] = pc[q]
      BY <1>3, <1>a DEF record_pending_turn_start, Goto, CustodyTypes, Locs, LaunchLocs
    <2>3. acks = 0 /\ dels = 0
      BY <2>1 DEF SentAfterReceipt
    <2>4. CustodyTypes'
      BY <2>1, <2>2 DEF CustodyTypes
    <2>5. ReceiptOpen'
      BY <2>1, <2>3 DEF ReceiptOpen
    <2>6. SentAfterReceipt'
      BY <2>1, <2>2 DEF SentAfterReceipt
    <2>7. DeletedIsDead' /\ DecisionIsDurable'
      BY <2>1, <2>2, <1>a
      DEF DeletedIsDead, DecisionIsDurable, FinalizeLocs, Resolvers, Procs
    <2> QED BY <2>4, <2>5, <2>6, <2>7
  <1>4. CASE LauncherSendTurnStart
    <2> USE DEF CInv, IInv
    <2>1. /\ pc["launcher"] = "l_call" /\ rpc' = "sent"
          /\ UNCHANGED <<receipt, marker, initiated, acks, dels, thread, turnLive>>
      BY <1>4 DEF LauncherSendTurnStart, store
    <2>2. /\ pc' \in [Procs -> Locs] /\ pc'["launcher"] = "l_wait"
          /\ \A q \in Procs \ {"launcher"} : pc'[q] = pc[q]
      BY <1>4, <1>a DEF LauncherSendTurnStart, Goto, CustodyTypes, Locs, LaunchLocs
    <2>4. CustodyTypes'
      BY <2>1, <2>2 DEF CustodyTypes
    <2>5. ReceiptOpen'
      BY <2>1 DEF ReceiptOpen
    <2>6. SentAfterReceipt'
      BY <2>1, <2>2 DEF SentAfterReceipt
    <2>7. DeletedIsDead' /\ DecisionIsDurable'
      BY <2>1, <2>2, <1>a
      DEF DeletedIsDead, DecisionIsDurable, FinalizeLocs, Resolvers, Procs
    <2> QED BY <2>4, <2>5, <2>6, <2>7
  <1>5. CASE LauncherTakeAnswer
    <2>1. UNCHANGED cvars
      BY <1>5 DEF LauncherTakeAnswer, store, cvars
    <2>2. \E loc \in QuietLocs : Goto("launcher", loc)
      BY <1>5, <1>b DEF LauncherTakeAnswer
    <2> QED BY <2>1, <2>2, <1>d, <1>f
  <1>6. CASE ResponseReadReceipt
    <2>1. UNCHANGED cvars
      BY <1>6 DEF ResponseReadReceipt, store, server, cvars
    <2>2. CASE Goto("launcher", "rs_marker")
      BY <2>1, <2>2, <1>b, <1>d, <1>f
    <2>3. CASE \E o : Return("launcher", o)
      BY <2>1, <2>3, <1>e, <1>f
    <2> QED BY <1>6, <2>2, <2>3 DEF ResponseReadReceipt
  <1>7. CASE ResponseReadMarker
    <2>1. UNCHANGED cvars
      BY <1>7 DEF ResponseReadMarker, store, server, cvars
    <2>2. \E loc \in QuietLocs : Goto("launcher", loc)
      BY <1>7, <1>b DEF ResponseReadMarker
    <2> QED BY <2>1, <2>2, <1>d, <1>f
  <1>8. CASE ResponseReadAgent
    <2>1. UNCHANGED cvars
      BY <1>8 DEF ResponseReadAgent, store, server, cvars
    <2>2. \E loc \in QuietLocs : Goto("launcher", loc)
      BY <1>8, <1>b DEF ResponseReadAgent
    <2> QED BY <2>1, <2>2, <1>d, <1>f
  <1>9. CASE record_pending_turn_start_response
    <2>1. UNCHANGED cvars
      BY <1>9 DEF record_pending_turn_start_response, server, cvars
    <2>2. CASE \E loc \in QuietLocs : Goto("launcher", loc)
      BY <2>1, <2>2, <1>d, <1>f
    <2>3. CASE \E o : Return("launcher", o)
      BY <2>1, <2>3, <1>e, <1>f
    <2> QED BY <1>9, <1>b, <2>2, <2>3 DEF record_pending_turn_start_response
  <1>10. CASE LauncherFailed
    <2>1. UNCHANGED cvars
      BY <1>10 DEF LauncherFailed, server, cvars
    <2>2. \E loc \in QuietLocs : Goto("launcher", loc)
      BY <1>10, <1>b DEF LauncherFailed
    <2> QED BY <2>1, <2>2, <1>d, <1>f
  <1> QED BY <1>1, <1>2, <1>3, <1>4, <1>5, <1>6, <1>7, <1>8, <1>9, <1>10 DEF Launcher

-----------------------------------------------------------------------------
(* The steps of a reconciliation, whichever task runs it.                   *)
LEMMA ResolveStep ==
    ASSUME CInv, NEW p \in Resolvers, Resolve(p)
    PROVE  CInv'
  <1> DEFINE Quiet == /\ UNCHANGED cvars /\ pc' \in [Procs -> Locs]
                      /\ \A q \in Procs : pc'[q] = pc[q] \/ pc'[q] \in QuietLocs
  <1>a. p \in Procs /\ Resolvers \subseteq Procs /\ "launcher" \in Procs
    BY DEF Procs, Resolvers
  <1>b. {"ct_begin", "rc_receipt", "rc_marker", "rc_agent", "rc_accept"} \subseteq QuietLocs
    BY DEF QuietLocs, Locs, FinalizeLocs, ReconcileLocs, ContainLocs, LaunchLocs
  <1>c. CustodyTypes
    BY DEF CInv
  <1>d. ASSUME NEW loc \in QuietLocs, Goto(p, loc), UNCHANGED cvars
        PROVE  Quiet
    BY <1>a, <1>c, <1>d, GotoIsQuiet
  <1>e. ASSUME NEW o, Return(p, o), UNCHANGED cvars
        PROVE  Quiet
    BY <1>a, <1>c, <1>e, ReturnIsQuiet
  <1>f. ASSUME Quiet PROVE CInv'
    BY <1>f, QuietStep
  <1> HIDE DEF Quiet
  <1>1. CASE ReconcileReadReceipt(p)
    <2>1. UNCHANGED cvars
      BY <1>1 DEF ReconcileReadReceipt, store, server, cvars
    <2>2. CASE Goto(p, "rc_marker")
      BY <2>1, <2>2, <1>b, <1>d, <1>f
    <2>3. CASE \E o : Return(p, o)
      BY <2>1, <2>3, <1>e, <1>f
    <2> QED BY <1>1, <2>2, <2>3 DEF ReconcileReadReceipt
  <1>2. CASE ReconcileReadMarker(p)
    <2>1. UNCHANGED cvars
      BY <1>2 DEF ReconcileReadMarker, store, server, cvars
    <2>2. \E loc \in QuietLocs : Goto(p, loc)
      BY <1>2, <1>b DEF ReconcileReadMarker
    <2> QED BY <2>1, <2>2, <1>d, <1>f
  <1>3. CASE ReconcileReadAgent(p)
    <2>1. UNCHANGED cvars
      BY <1>3 DEF ReconcileReadAgent, store, server, cvars
    <2>2. CASE \E loc \in QuietLocs : Goto(p, loc)
      BY <2>1, <2>2, <1>d, <1>f
    <2>3. CASE \E o : Return(p, o)
      BY <2>1, <2>3, <1>e, <1>f
    <2> QED BY <1>3, <1>b, <2>2, <2>3 DEF ReconcileReadAgent
  <1>4. CASE accept_pending_turn_start_notification(p)
    <2>1. CASE UNCHANGED store
      <3>1. UNCHANGED cvars
        BY <1>4, <2>1 DEF accept_pending_turn_start_notification, store, server, cvars
      <3>2. CASE Goto(p, "ct_begin")
        BY <3>1, <3>2, <1>b, <1>d, <1>f
      <3>3. CASE \E o : Return(p, o)
        BY <3>1, <3>3, <1>e, <1>f
      <3> QED BY <1>4, <3>2, <3>3 DEF accept_pending_turn_start_notification
    <2>2. CASE /\ receipt /\ ~marker /\ receipt' = FALSE /\ acks' = acks + 1
               /\ Return(p, "Reconciled")
               /\ UNCHANGED <<marker, initiated, dels, thread, rpc, turnLive>>
      <3> USE DEF CInv, IInv
      <3>1. /\ pc' \in [Procs -> Locs]
            /\ \A q \in Procs : pc'[q] = pc[q] \/ pc'[q] \in QuietLocs
        BY <1>c, <2>2, ReturnIsQuiet
      <3>2. acks = 0 /\ dels = 0 /\ acks' = 1
        BY <2>2 DEF ReceiptOpen
      <3>3. ~initiated /\ \A q \in Resolvers : pc[q] \notin FinalizeLocs \cup {"ct_delete"}
        BY <2>2, <3>2 DEF ReceiptOpen, DecisionIsDurable
      <3>4. pc["launcher"] \notin {"l_thread", "l_goal", "l_record"}
        BY <2>2 DEF SentAfterReceipt
      <3>5. CustodyTypes'
        <4>1. receipt' \in BOOLEAN /\ marker' \in BOOLEAN /\ initiated' \in BOOLEAN
              /\ turnLive' \in BOOLEAN
          BY <1>c, <2>2 DEF CustodyTypes
        <4>2. acks' \in Nat /\ dels' \in Nat
          BY <1>c, <2>2, <3>2 DEF CustodyTypes
        <4>3. thread' \in {"none", "live", "deleted"} /\ rpc' \in {"none", "sent", "handled"}
          BY <1>c, <2>2 DEF CustodyTypes
        <4> QED BY <4>1, <4>2, <4>3, <3>1 DEF CustodyTypes
      <3>6. ReceiptOpen'
        BY <2>2, <3>2, <3>3 DEF ReceiptOpen
      <3>7. SentAfterReceipt'
        BY <2>2, <3>1, <3>2, <3>4, <1>a DEF SentAfterReceipt, QuietLocs
      <3>8. DeletedIsDead' /\ DecisionIsDurable'
        BY <2>2, <3>1, <3>2, <3>3, <1>a DEF DeletedIsDead, DecisionIsDurable, QuietLocs
      <3> QED BY <3>5, <3>6, <3>7, <3>8
    <2> QED
      BY <1>4, <2>1, <2>2 DEF accept_pending_turn_start_notification, store, server
  <1>5. CASE begin_pending_turn_start_containment(p)
    <2>1. CASE ~receipt
      <3>1. UNCHANGED cvars /\ Goto(p, "rc_receipt")
        BY <1>5, <2>1 DEF begin_pending_turn_start_containment, store, server, cvars
      <3> QED BY <3>1, <1>b, <1>d, <1>f
    <2>2. CASE receipt
      <3> USE DEF CInv, IInv
      <3>1. /\ marker' = TRUE /\ initiated' = TRUE
            /\ UNCHANGED <<receipt, acks, dels, thread, rpc, turnLive>>
        BY <1>5, <2>2 DEF begin_pending_turn_start_containment, server
      <3>2. /\ pc' \in [Procs -> Locs] /\ pc'[p] = "ct_delete" /\ pc[p] = "ct_begin"
            /\ \A q \in Procs \ {p} : pc'[q] = pc[q]
        BY <1>5, <2>2, <1>a
        DEF begin_pending_turn_start_containment, Goto, CustodyTypes, Locs, ContainLocs
      <3>3. CustodyTypes'
        BY <3>1, <3>2 DEF CustodyTypes
      <3>4. ReceiptOpen'
        BY <3>1, <2>2 DEF ReceiptOpen
      <3>5. SentAfterReceipt'
        BY <2>2, <3>1, <3>2, <1>a DEF SentAfterReceipt
      <3>6. DeletedIsDead' /\ DecisionIsDurable'
        BY <2>2, <3>1, <3>2, <1>a DEF DeletedIsDead, DecisionIsDurable, FinalizeLocs
      <3> QED BY <3>3, <3>4, <3>5, <3>6
    <2> QED BY <2>1, <2>2
  <1>6. CASE ContainDeleteThread(p)
    <2> USE DEF CInv, IInv
    <2>1. UNCHANGED <<receipt, marker, initiated, acks, dels, rpc>>
      BY <1>6 DEF ContainDeleteThread
    <2>2. \/ thread' = "deleted" /\ turnLive' = FALSE
          \/ UNCHANGED <<thread, turnLive>> /\ \E o : Return(p, o)
      BY <1>6 DEF ContainDeleteThread
    <2>3. pc[p] = "ct_delete" /\ (marker \/ dels = 1)
      BY <1>6 DEF ContainDeleteThread, DecisionIsDurable
    <2>4. /\ pc' \in [Procs -> Locs]
          /\ pc'[p] = "fz_clear" \/ pc'[p] \in QuietLocs \cup {pc[p]}
          /\ \A q \in Procs \ {p} : pc'[q] = pc[q] \/ pc'[q] \in QuietLocs
      <3>1. CASE Goto(p, "fz_clear")
        BY <3>1, <1>a, <1>c DEF Goto, CustodyTypes, Locs, FinalizeLocs
      <3>2. CASE \E o : Return(p, o)
        BY <3>2, <1>a, <1>c, ReturnIsQuiet
      <3> QED BY <1>6, <3>1, <3>2 DEF ContainDeleteThread
    <2>5. thread' = "deleted" \/ pc'[p] \notin FinalizeLocs
      <3>1. CASE thread' = "deleted"
        BY <3>1
      <3>2. CASE \E o : Return(p, o)
        BY <3>2, <2>3, <1>a, <1>c, ReturnIsQuiet DEF QuietLocs, FinalizeLocs
      <3> QED BY <2>2, <3>1, <3>2
    <2>6. CustodyTypes'
      BY <2>1, <2>2, <2>4 DEF CustodyTypes
    <2>7. ReceiptOpen'
      BY <2>1 DEF ReceiptOpen
    <2>8. SentAfterReceipt'
      <3>1. \/ pc'["launcher"] = pc["launcher"]
            \/ pc'["launcher"] \notin {"l_thread", "l_goal", "l_record", "l_call"}
        BY <2>4, <1>a DEF QuietLocs
      <3>2. pc["launcher"] \notin {"l_thread", "l_goal", "l_record"}
        BY <2>1, <2>3 DEF SentAfterReceipt, ReceiptOpen
      <3> QED BY <2>1, <2>2, <3>1, <3>2 DEF SentAfterReceipt, CustodyTypes
    <2>9. DeletedIsDead'
      <3>1. thread' # "live" => ~turnLive'
        BY <2>2 DEF DeletedIsDead
      <3>2. dels' = 1 => thread' = "deleted"
        BY <2>1, <2>2 DEF DeletedIsDead
      <3>3. ASSUME NEW q \in Resolvers, pc'[q] \in FinalizeLocs PROVE thread' = "deleted"
        BY <2>2, <2>4, <2>5, <3>3, <1>a DEF DeletedIsDead, QuietLocs
      <3> QED BY <3>1, <3>2, <3>3 DEF DeletedIsDead
    <2>10. DecisionIsDurable'
      BY <2>1, <2>3 DEF DecisionIsDurable
    <2> QED BY <2>6, <2>7, <2>8, <2>9, <2>10
  <1>7. CASE FinalizeContained(p)
    <2> USE DEF CInv, IInv
    <2>1. UNCHANGED cvars
      BY <1>7 DEF FinalizeContained, server, cvars
    <2>2. /\ pc' \in [Procs -> Locs] /\ {pc[p], pc'[p]} \subseteq FinalizeLocs
          /\ \A q \in Procs \ {p} : pc'[q] = pc[q]
      BY <1>7, <1>a DEF FinalizeContained, Goto, CustodyTypes, Locs, FinalizeLocs
    <2>3. CustodyTypes' /\ ReceiptOpen'
      BY <2>1, <2>2 DEF CustodyTypes, ReceiptOpen, cvars
    <2>4. SentAfterReceipt'
      <3>1. \/ pc'["launcher"] = pc["launcher"]
            \/ {pc["launcher"], pc'["launcher"]} \subseteq FinalizeLocs
        BY <2>2, <1>a
      <3> QED BY <2>1, <3>1 DEF SentAfterReceipt, FinalizeLocs, cvars
    <2>5. DeletedIsDead' /\ DecisionIsDurable'
      BY <2>1, <2>2, <1>a DEF DeletedIsDead, DecisionIsDurable, cvars
    <2> QED BY <2>3, <2>4, <2>5
  <1>8. CASE resolve_pending_turn_start(p)
    <2>1. CASE ~receipt
      <3>1. UNCHANGED cvars /\ Return(p, "Error")
        BY <1>8, <2>1 DEF resolve_pending_turn_start, store, server, cvars
      <3> QED BY <3>1, <1>e, <1>f
    <2>2. CASE receipt
      <3> USE DEF CInv, IInv
      <3>1. /\ receipt' = FALSE /\ marker' = FALSE /\ dels' = dels + 1
            /\ Return(p, "Contained") /\ pc[p] = "fz_resolve"
            /\ UNCHANGED <<initiated, acks, thread, rpc, turnLive>>
        BY <1>8, <2>2 DEF resolve_pending_turn_start, server
      <3>2. /\ pc' \in [Procs -> Locs]
            /\ \A q \in Procs : pc'[q] = pc[q] \/ pc'[q] \in QuietLocs
        BY <1>c, <3>1, ReturnIsQuiet
      <3>3. acks = 0 /\ dels = 0 /\ dels' = 1 /\ thread = "deleted"
        BY <2>2, <3>1 DEF ReceiptOpen, DeletedIsDead, FinalizeLocs
      <3>4. pc["launcher"] \notin {"l_thread", "l_goal", "l_record"}
        BY <2>2 DEF SentAfterReceipt
      <3>5. CustodyTypes'
        <4>1. receipt' \in BOOLEAN /\ marker' \in BOOLEAN /\ initiated' \in BOOLEAN
              /\ turnLive' \in BOOLEAN
          BY <1>c, <3>1 DEF CustodyTypes
        <4>2. acks' \in Nat /\ dels' \in Nat
          BY <1>c, <3>1, <3>3 DEF CustodyTypes
        <4>3. thread' \in {"none", "live", "deleted"} /\ rpc' \in {"none", "sent", "handled"}
          BY <1>c, <3>1 DEF CustodyTypes
        <4> QED BY <4>1, <4>2, <4>3, <3>2 DEF CustodyTypes
      <3>6. ReceiptOpen'
        BY <3>1, <3>3 DEF ReceiptOpen
      <3>7. SentAfterReceipt'
        BY <3>1, <3>2, <3>3, <3>4, <1>a DEF SentAfterReceipt, QuietLocs
      <3>8. DeletedIsDead' /\ DecisionIsDurable'
        BY <3>1, <3>2, <3>3, <1>a DEF DeletedIsDead, DecisionIsDurable
      <3> QED BY <3>5, <3>6, <3>7, <3>8
    <2> QED BY <2>1, <2>2
  <1> QED BY <1>1, <1>2, <1>3, <1>4, <1>5, <1>6, <1>7, <1>8 DEF Resolve

-----------------------------------------------------------------------------
(* The remaining tasks, the App Server and failures.                        *)
LEMMA OtherStep ==
    ASSUME CInv, MaintenanceReconcile \/ Pump \/ Operator \/ Environment
    PROVE  CInv'
  <1> DEFINE Quiet == /\ UNCHANGED cvars /\ pc' \in [Procs -> Locs]
                      /\ \A q \in Procs : pc'[q] = pc[q] \/ pc'[q] \in QuietLocs
  <1>a. {"maint", "pump", "operator", "launcher"} \subseteq Procs /\ Resolvers \subseteq Procs
        /\ "launcher" \in Resolvers
    BY DEF Procs, Resolvers
  <1>b. {"idle", "rc_receipt", "p_project", "p_complete", "st_interrupt", "st_drain",
         "st_cancel", "l_done"} \subseteq QuietLocs
    BY DEF QuietLocs, Locs, FinalizeLocs, ReconcileLocs, ContainLocs, LaunchLocs
  <1>c. CustodyTypes
    BY DEF CInv
  <1>d. ASSUME NEW q \in Procs, NEW loc \in QuietLocs, Goto(q, loc), UNCHANGED cvars
        PROVE  CInv'
    BY <1>c, <1>d, GotoIsQuiet, QuietStep
  <1>e. ASSUME UNCHANGED <<cvars, pc>> PROVE CInv'
    BY <1>c, <1>e, QuietStep DEF CustodyTypes
  (* A turn can only end here, and tasks only move to quiet locations.      *)
  <1>f. ASSUME UNCHANGED <<receipt, marker, initiated, acks, dels, thread>>,
               turnLive' \in {turnLive, FALSE},
               rpc' = rpc \/ (rpc = "sent" /\ rpc' = "handled"),
               pc' \in [Procs -> Locs],
               \A q \in Procs : pc'[q] = pc[q] \/ pc'[q] \in QuietLocs
        PROVE  CInv'
    <2> USE DEF CInv, IInv
    <2>0. ~turnLive => ~turnLive'
      BY <1>f, Zenon
    <2>1. CustodyTypes'
      BY <1>f DEF CustodyTypes
    <2>2. ReceiptOpen'
      BY <1>f DEF ReceiptOpen
    <2>3. SentAfterReceipt'
      <3>1. \/ pc'["launcher"] = pc["launcher"]
            \/ pc'["launcher"] \notin {"l_thread", "l_goal", "l_record", "l_call"}
        BY <1>f, <1>a DEF QuietLocs
      <3>2. rpc # "none" => receipt \/ acks + dels = 1
        BY DEF SentAfterReceipt
      <3>3. (rpc' = "none" <=> rpc = "none") /\ (rpc' # "handled" => rpc # "handled")
        BY <1>f
      <3>4. UNCHANGED <<receipt, acks, dels, thread>>
        BY <1>f
      <3> QED BY <2>0, <3>1, <3>2, <3>3, <3>4 DEF SentAfterReceipt
    <2>4. DeletedIsDead' /\ DecisionIsDurable'
      <3>1. UNCHANGED <<marker, dels, thread>>
        BY <1>f
      <3>2. \A q \in Procs : pc'[q] = pc[q] \/ pc'[q] \in QuietLocs
        BY <1>f
      <3> QED BY <2>0, <3>1, <3>2, <1>a DEF DeletedIsDead, DecisionIsDurable, QuietLocs
    <2> QED BY <2>1, <2>2, <2>3, <2>4
  <1>1. CASE MaintenanceReconcile
    <2>1. UNCHANGED cvars /\ Goto("maint", "rc_receipt")
      BY <1>1 DEF MaintenanceReconcile, store, server, cvars
    <2> QED BY <2>1, <1>a, <1>b, <1>d
  <1>2. CASE Pump
    <2>1. CASE PumpTurnStarted
      <3>1. UNCHANGED cvars /\ Goto("pump", "p_project")
        BY <2>1 DEF PumpTurnStarted, server, cvars
      <3> QED BY <3>1, <1>a, <1>b, <1>d
    <2>2. CASE project_turn_started
      <3>1. UNCHANGED cvars /\ Goto("pump", "rc_receipt")
        BY <2>2 DEF project_turn_started, cvars
      <3> QED BY <3>1, <1>a, <1>b, <1>d
    <2>3. CASE project_turn_completed
      <3>1. UNCHANGED cvars /\ Goto("pump", "p_complete")
        BY <2>3 DEF project_turn_completed, server, cvars
      <3> QED BY <3>1, <1>a, <1>b, <1>d
    <2>4. CASE handle_turn_completed
      <3>1. UNCHANGED cvars /\ Goto("pump", "idle")
        BY <2>4 DEF handle_turn_completed, cvars
      <3> QED BY <3>1, <1>a, <1>b, <1>d
    <2>5. CASE PumpProcessExit
      <3>1. UNCHANGED <<cvars, pc>>
        BY <2>5 DEF PumpProcessExit, procs, cvars
      <3> QED BY <3>1, <1>e
    <2> QED BY <1>2, <2>1, <2>2, <2>3, <2>4, <2>5 DEF Pump
  <1>3. CASE Operator
    <2>1. CASE StopRun
      <3>1. UNCHANGED cvars /\ \E loc \in {"st_interrupt", "st_drain"} : Goto("operator", loc)
        BY <2>1 DEF StopRun, server, cvars
      <3> QED BY <3>1, <1>a, <1>b, <1>d
    <2>2. CASE StopInterrupt
      <3>1. /\ UNCHANGED <<receipt, marker, initiated, acks, dels, thread, rpc>>
            /\ turnLive' \in {turnLive, FALSE} /\ Goto("operator", "st_cancel")
        BY <2>2 DEF StopInterrupt
      <3> QED BY <3>1, <1>a, <1>b, <1>c, <1>f, GotoIsQuiet
    <2>3. CASE StopFinish
      <3>1. UNCHANGED cvars /\ Goto("operator", "idle")
        BY <2>3 DEF StopFinish, server, cvars
      <3> QED BY <3>1, <1>a, <1>b, <1>d
    <2> QED BY <1>3, <2>1, <2>2, <2>3 DEF Operator
  <1>4. CASE GraceExpires \/ ServerAnswer
    <2>1. UNCHANGED <<cvars, pc>>
      BY <1>4 DEF GraceExpires, ServerAnswer, store, procs, server, cvars
    <2> QED BY <2>1, <1>e
  <1>5. CASE ServerStartTurn
    <2> USE DEF CInv, IInv
    <2>1. /\ rpc = "sent" /\ rpc' = "handled" /\ thread = "live" /\ turnLive' = TRUE
          /\ UNCHANGED <<receipt, marker, initiated, acks, dels, thread, pc>>
      BY <1>5 DEF ServerStartTurn, store, procs
    <2>2. CustodyTypes' /\ ReceiptOpen'
      BY <2>1 DEF CustodyTypes, ReceiptOpen
    <2>3. SentAfterReceipt'
      BY <2>1 DEF SentAfterReceipt
    <2>4. DeletedIsDead' /\ DecisionIsDurable'
      BY <2>1 DEF DeletedIsDead, DecisionIsDurable
    <2> QED BY <2>2, <2>3, <2>4
  <1>6. CASE ServerTurnEnds \/ ServerExit
    <2>1. /\ UNCHANGED <<receipt, marker, initiated, acks, dels, thread, pc>>
          /\ turnLive' \in {turnLive, FALSE}
          /\ rpc' = rpc \/ (rpc = "sent" /\ rpc' = "handled")
      BY <1>6 DEF ServerTurnEnds, ServerExit, store, procs
    <2> QED BY <2>1, <1>c, <1>f DEF CustodyTypes
  <1>7. CASE CrashRestart
    <2>1. /\ UNCHANGED <<receipt, marker, initiated, acks, dels, thread>>
          /\ turnLive' \in {turnLive, FALSE}
          /\ rpc' = rpc \/ (rpc = "sent" /\ rpc' = "handled")
      BY <1>7 DEF CrashRestart
    <2>2. pc' \in [Procs -> Locs] /\ \A q \in Procs : pc'[q] \in QuietLocs
      BY <1>7, <1>b DEF CrashRestart, QuietLocs
    <2> QED BY <2>1, <2>2, <1>f
  <1> QED BY <1>1, <1>2, <1>3, <1>4, <1>5, <1>6, <1>7 DEF Environment

(* The inductive invariant is preserved by every step.                      *)
LEMMA CInvNext == ASSUME CInv, [Next]_vars PROVE CInv'
  <1>1. CASE UNCHANGED vars
    <2>1. UNCHANGED <<cvars, pc>>
      BY <1>1 DEF vars, store, procs, server, cvars
    <2> QED BY <2>1, QuietStep DEF CInv, CustodyTypes
  <1>2. CASE Next
    BY <1>2, LauncherStep, ResolveStep, OtherStep DEF Next, Resolvers
  <1> QED BY <1>1, <1>2

LEMMA CInvAlways == Spec => []CInv
  BY CInvInit, CInvNext, PTL DEF Spec

-----------------------------------------------------------------------------
(* Whichever of launcher, event pump and maintenance resolves a turn start, *)
(* it is resolved at most once.                                             *)
THEOREM ResolvedOnceHolds == Spec => []ResolvedOnce
  <1>1. CInv => ResolvedOnce
    BY DEF CInv, IInv, ReceiptOpen, ResolvedOnce
  <1> QED BY <1>1, CInvAlways, PTL

(* A durable containment decision is never reversed: no notification and no *)
(* response turns it into an acknowledgement.                               *)
THEOREM ContainmentIrreversibleHolds == Spec => []ContainmentIrreversible
  <1>1. CInv => ContainmentIrreversible
    BY DEF CInv, IInv, ReceiptOpen, CustodyTypes, ContainmentIrreversible
  <1> QED BY <1>1, CInvAlways, PTL

(* A turn that may be editing files has a receipt or an acknowledgement,    *)
(* whatever crashes, is lost or is delayed.                                 *)
THEOREM NoUntrackedTurnHolds == Spec => []NoUntrackedTurn
  <1>1. CInv => NoUntrackedTurn
    BY DEF CInv, IInv, ReceiptOpen, SentAfterReceipt, DeletedIsDead, CustodyTypes,
           NoUntrackedTurn
  <1> QED BY <1>1, CInvAlways, PTL

-----------------------------------------------------------------------------
(***************************************************************************)
(* What a failed launch may assume: start_agent reports failure, upon      *)
(* which the leases are released, only when the turn it may have started   *)
(* is over.  The argument is about the order of the notifications in the   *)
(* pipe: a completed turn or a dead process is only heard of after the     *)
(* fact, and whoever finds the receipt gone finds an acknowledged turn     *)
(* still active, unless it is over.                                        *)
(***************************************************************************)

ResponseLocs == {"rs_receipt", "rs_marker", "rs_agent", "rs_record"}
EndLocs      == {"l_err", "l_err_task", "l_done"}
ResolveLocs  == ReconcileLocs \cup ContainLocs \cup FinalizeLocs

(* No turn of this launch runs, and none can begin any more.                *)
Over ==
    /\ ~turnLive
    /\ \/ thread = "deleted"
       \/ rpc = "handled"
       \/ rpc = "none" /\ pc["launcher"] \in EndLocs

(* One request starts one turn: before it is handled there is nothing to    *)
(* hear of but exits, after that only one turn id is ever notified.         *)
OneTurn ==
    /\ raw \subseteq {srvTurn}
    /\ rpc # "handled" =>
          raw = {} /\ reply = "none" /\ \A i \in 1..Len(chan) : chan[i].kind = "exit"
    /\ \A i \in 1..Len(chan) : chan[i].kind = "started" => chan[i].turn = srvTurn
    /\ pc["pump"] = "p_project" => Head(chan).turn \in raw

(* A completion in the pipe is of a turn that is over; so is an exit,       *)
(* unless it happened before the turn began.                                *)
EndMeansOver ==
    \A i \in 1..Len(chan) :
       /\ chan[i].kind = "completed" => Over
       /\ chan[i].kind = "exit" =>
             Over \/ (raw = {} /\ \A j \in 1..(i - 1) : chan[j].kind # "started")

(* The turn a task is about to accept was notified; the one the launcher    *)
(* was answered with is the one the App Server started, if answers do that. *)
ReadersExact ==
    /\ \A p \in Resolvers : pc[p] = "rc_accept" => snap[p] \in raw
    /\ pc["launcher"] \in ResponseLocs =>
          rpc = "handled" /\ (AnswerNamesTurn => snap["launcher"] = srvTurn)
    /\ AnswerNamesTurn /\ reply \in Turns => reply = srvTurn

(* An acknowledged turn stays the active one as long as it may run.         *)
AckActive ==
    acks = 1 => /\ srvTurn \in raw /\ turnRoute[srvTurn] = "match"
                /\ activeTurn = srvTurn \/ Over

FailedMeansOver == state = "FAILED" => Over \/ initiated

(* Only a reconciliation that begins without a receipt ends start_agent.    *)
LauncherStage ==
    /\ pc["launcher"] \in {"l_thread", "l_goal", "l_record", "l_call", "l_wait"} =>
          stage["launcher"] = "first"
    /\ pc["launcher"] = "rc_receipt" /\ stage["launcher"] = "final" => ~receipt
    /\ pc["launcher"] \in {"rc_marker", "rc_agent", "rc_accept"} => stage["launcher"] = "first"

(* The turn/started of this launch is no longer in the pipe.                *)
Heard == rpc = "handled" /\ \A i \in 1..Len(chan) : chan[i].kind # "started"

(* One turn/started is sent, and while start_agent is under way only its    *)
(* projection sets the active turn: the route start_agent found to match    *)
(* is not projected again.                                                  *)
RouteSettled ==
    /\ \A i, j \in 1..Len(chan) :
          chan[i].kind = "started" /\ chan[j].kind = "started" => i = j
    /\ /\ pc["launcher"] \notin EndLocs
       /\ activeTurn # NoTurn \/ \E p \in Resolvers : pc[p] = "rc_accept"
       => Heard
    /\ pc["launcher"] = "rc_accept" => pending_turn_route_matches(turnRoute[snap["launcher"]])

FailureIsOver == AnswerNamesTurn /\ pc["launcher"] \in {"l_err", "l_err_task"} => Over

LeaseLostIsOver == AnswerNamesTurn /\ ~lease /\ run = "EXECUTING" => Over

LInv == /\ OneTurn /\ EndMeansOver /\ ReadersExact /\ AckActive /\ FailedMeansOver
        /\ LauncherStage /\ RouteSettled /\ FailureIsOver /\ LeaseLostIsOver

-----------------------------------------------------------------------------
(* What a reconciliation that returns leaves behind, and when it fails.     *)
LEMMA ReturnLocals ==
    ASSUME ProcTypes, NEW p \in Resolvers, NEW o, Return(p, o)
    PROVE  /\ pc'[p] \in {"rc_receipt", "ct_begin", "l_err", "l_done", "idle"}
           /\ pc'[p] = "rc_receipt" => stage'[p] = "first"
           /\ \A q \in Procs \ {p} : pc'[q] = pc[q] /\ stage'[q] = stage[q] /\ snap'[q] = snap[q]
           /\ pc'[p] = "l_err" => \/ o \in {"Contained", "Error"}
                                  \/ o = "AwaitingNotification" /\ stage[p] = "final"
  <1>1. p \in Procs
    BY DEF Resolvers, Procs
  <1>2. ASSUME NEW loc, NEW st, NEW n, Again(p, loc, st, n)
        PROVE  /\ pc'[p] = loc /\ stage'[p] = st
               /\ \A q \in Procs \ {p} : pc'[q] = pc[q] /\ stage'[q] = stage[q] /\ snap'[q] = snap[q]
    BY <1>1, <1>2 DEF Again, Goto, ProcTypes
  <1>3. ASSUME NEW loc, Leave(p, loc)
        PROVE  /\ pc'[p] = loc
               /\ \A q \in Procs \ {p} : pc'[q] = pc[q] /\ stage'[q] = stage[q] /\ snap'[q] = snap[q]
    BY <1>1, <1>3 DEF Leave, Goto, ProcTypes
  <1>4. stage[p] \in {"first", "final"}
    BY <1>1 DEF ProcTypes
  <1> QED BY <1>2, <1>3, <1>4 DEF Return

(* A task that resolves a receipt moves itself only, and never revives a    *)
(* turn, a thread or a request.                                             *)
LEMMA ResolveMoves ==
    ASSUME TInv, NEW p \in Resolvers, Resolve(p)
    PROVE  /\ pc[p] \in ResolveLocs /\ pc'[p] \in ResolveLocs \cup {"l_err", "l_done", "idle"}
           /\ \A q \in Procs \ {p} : pc'[q] = pc[q] /\ stage'[q] = stage[q] /\ snap'[q] = snap[q]
           /\ thread' \in {thread, "deleted"} /\ turnLive' \in {turnLive, FALSE}
           /\ UNCHANGED <<rpc, reply, srvTurn, raw, run>>
  <1> USE DEF ResolveLocs, ReconcileLocs, ContainLocs, FinalizeLocs
  <1>a. ProcTypes /\ p \in Procs
    BY DEF TInv, TypeOK, Resolvers, Procs
  <1> DEFINE Alone == /\ pc'[p] \in ResolveLocs \cup {"l_err", "l_done", "idle"}
                      /\ \A q \in Procs \ {p} : /\ pc'[q] = pc[q] /\ stage'[q] = stage[q]
                                                /\ snap'[q] = snap[q]
  <1>b. ASSUME NEW loc \in ResolveLocs, Goto(p, loc), snap' = snap \/ snap' = [snap EXCEPT ![p] = activeTurn],
               UNCHANGED stage
        PROVE  Alone
    BY <1>a, <1>b DEF Goto, ProcTypes
  <1>c. ASSUME NEW o, Return(p, o) PROVE Alone
    BY <1>a, <1>c, ReturnLocals
  <1> HIDE DEF Alone
  <1>1. CASE ReconcileReadReceipt(p)
    <2>1. Alone
      BY <1>1, <1>b, <1>c DEF ReconcileReadReceipt
    <2> QED BY <1>1, <2>1 DEF ReconcileReadReceipt, Alone, store, server
  <1>2. CASE ReconcileReadMarker(p)
    <2>1. Alone
      BY <1>2, <1>b DEF ReconcileReadMarker
    <2> QED BY <1>2, <2>1 DEF ReconcileReadMarker, Alone, store, server
  <1>3. CASE ReconcileReadAgent(p)
    <2>1. Alone
      BY <1>3, <1>b, <1>c DEF ReconcileReadAgent
    <2> QED BY <1>3, <2>1 DEF ReconcileReadAgent, Alone, store, server
  <1>4. CASE accept_pending_turn_start_notification(p)
    <2>1. Alone
      BY <1>4, <1>b, <1>c DEF accept_pending_turn_start_notification
    <2> QED BY <1>4, <2>1 DEF accept_pending_turn_start_notification, Alone, store, server
  <1>5. CASE begin_pending_turn_start_containment(p)
    <2>1. Alone
      BY <1>5, <1>b DEF begin_pending_turn_start_containment
    <2> QED BY <1>5, <2>1 DEF begin_pending_turn_start_containment, Alone, server
  <1>6. CASE ContainDeleteThread(p)
    <2>1. Alone
      BY <1>6, <1>b, <1>c DEF ContainDeleteThread
    <2> QED BY <1>6, <2>1 DEF ContainDeleteThread, Alone
  <1>7. CASE FinalizeContained(p)
    <2>1. Alone
      BY <1>7, <1>b DEF FinalizeContained
    <2> QED BY <1>7, <2>1 DEF FinalizeContained, Alone, server
  <1>8. CASE resolve_pending_turn_start(p)
    <2>1. Alone
      BY <1>8, <1>c DEF resolve_pending_turn_start
    <2> QED BY <1>8, <2>1 DEF resolve_pending_turn_start, Alone, server
  <1> QED BY <1>1, <1>2, <1>3, <1>4, <1>5, <1>6, <1>7, <1>8 DEF Resolve

-----------------------------------------------------------------------------
(* Once a launch is over it stays so.                                       *)
LEMMA OverStable == ASSUME CInv, TInv, Next, Over PROVE Over'
  <1>a. /\ "launcher" \in Procs /\ pc \in [Procs -> Locs]
        /\ pc["launcher"] = "l_thread" => thread = "none"
        /\ pc["launcher"] = "l_call" => rpc = "none"
        /\ turnLive \in BOOLEAN
    BY DEF Procs, TInv, TypeOK, ProcTypes, ServerTypes, CInv, IInv, SentAfterReceipt
  <1>b. ASSUME pc'["launcher"] = pc["launcher"] \/ pc["launcher"] \notin EndLocs \/ pc'["launcher"] \in EndLocs,
               thread' \in {thread, "deleted"}, turnLive' \in {turnLive, FALSE},
               rpc' = rpc \/ rpc' = "handled"
        PROVE  Over'
    <2>1. ~turnLive'
      BY <1>a, <1>b DEF Over
    <2>2. thread' = "deleted" \/ rpc' = "handled" \/ (rpc' = "none" /\ pc'["launcher"] \in EndLocs)
      BY <1>b DEF Over
    <2> QED BY <2>1, <2>2 DEF Over
  <1>1. CASE Launcher
    <2>1. CASE LauncherSendTurnStart
      <3>1. thread = "deleted" /\ UNCHANGED <<thread, turnLive>>
        BY <2>1, <1>a DEF LauncherSendTurnStart, Over, EndLocs
      <3> QED BY <3>1 DEF Over
    <2>2. CASE LauncherStartThread
      BY <2>2, <1>a DEF LauncherStartThread, Goto, Over, EndLocs
    <2>3. CASE LauncherFailed
      BY <2>3, <1>a, <1>b DEF LauncherFailed, Goto, EndLocs, server
    <2>4. CASE \/ LauncherSetGoal \/ record_pending_turn_start \/ LauncherTakeAnswer
               \/ ResponseReadReceipt \/ ResponseReadMarker \/ ResponseReadAgent
               \/ record_pending_turn_start_response
      <3>1. pc["launcher"] \notin EndLocs /\ UNCHANGED <<thread, turnLive, rpc>>
        BY <2>4 DEF EndLocs, LauncherSetGoal, record_pending_turn_start, LauncherTakeAnswer,
           ResponseReadReceipt, ResponseReadMarker, ResponseReadAgent,
           record_pending_turn_start_response, server
      <3> QED BY <3>1, <1>b
    <2> QED BY <1>1, <2>1, <2>2, <2>3, <2>4 DEF Launcher
  <1>2. CASE \E p \in {"launcher", "pump", "maint"} : Resolve(p)
    <2>1. PICK p \in Resolvers : Resolve(p)
      BY <1>2 DEF Resolvers
    <2>2. pc'["launcher"] = pc["launcher"] \/ pc["launcher"] \notin EndLocs
      BY <2>1, <1>a, ResolveMoves DEF ResolveLocs, ReconcileLocs, ContainLocs, FinalizeLocs, EndLocs
    <2> QED BY <2>1, <2>2, <1>b, ResolveMoves
  <1>3. CASE MaintenanceReconcile \/ Pump \/ StopRun \/ StopFinish \/ GraceExpires \/ ServerAnswer
    <2>1. UNCHANGED <<thread, turnLive, rpc>> /\ pc'["launcher"] = pc["launcher"]
      BY <1>3, <1>a DEF MaintenanceReconcile, Pump, PumpTurnStarted, project_turn_started,
         project_turn_completed, handle_turn_completed, PumpProcessExit, StopRun, StopFinish,
         GraceExpires, ServerAnswer, Goto, server, procs
    <2> QED BY <2>1, <1>b
  <1>4. CASE StopInterrupt \/ ServerTurnEnds \/ ServerExit
    <2>1. /\ UNCHANGED thread /\ turnLive' \in {turnLive, FALSE} /\ pc'["launcher"] = pc["launcher"]
          /\ rpc' = rpc \/ rpc' = "handled"
      BY <1>4, <1>a DEF StopInterrupt, ServerTurnEnds, ServerExit, Goto, procs
    <2> QED BY <2>1, <1>b
  <1>5. CASE ServerStartTurn
    BY <1>5 DEF ServerStartTurn, Over
  <1>6. CASE CrashRestart
    <2>1. /\ UNCHANGED thread /\ turnLive' = FALSE /\ pc'["launcher"] \in EndLocs
          /\ rpc' = rpc \/ rpc' = "handled"
      BY <1>6, <1>a DEF CrashRestart, EndLocs
    <2> QED BY <2>1, <1>b
  <1> QED BY <1>1, <1>2, <1>3, <1>4, <1>5, <1>6 DEF Next, Operator, Environment

-----------------------------------------------------------------------------
(* The pipe.  A step that leaves it alone ...                               *)
LEMMA PipeFrame ==
    ASSUME OneTurn, EndMeansOver, Over => Over', UNCHANGED <<chan, raw, srvTurn>>,
           rpc = "handled" => rpc' = "handled", rpc' # "handled" => reply' = "none",
           pc'["pump"] = "p_project" => pc["pump"] = "p_project"
    PROVE  OneTurn' /\ EndMeansOver'
  <1>1. OneTurn'
    BY DEF OneTurn
  <1>2. EndMeansOver'
    BY DEF EndMeansOver
  <1> QED BY <1>1, <1>2

(* ... that takes the first notification from it ...                        *)
LEMMA PipeTail ==
    ASSUME TInv, OneTurn, EndMeansOver, Over => Over', chan # <<>>, chan' = Tail(chan),
           UNCHANGED <<raw, srvTurn, rpc, reply>>, pc'["pump"] # "p_project"
    PROVE  OneTurn' /\ EndMeansOver'
  <1>1. /\ Len(chan') = Len(chan) - 1 /\ Len(chan) \in Nat
        /\ \A i \in 1..Len(chan') : chan'[i] = chan[i + 1]
    BY HeadTailProperties DEF TInv, TypeOK, ServerTypes
  <1>2. \A i \in 1..Len(chan') : i + 1 \in 1..Len(chan)
    BY <1>1
  <1>3. OneTurn'
    BY <1>1, <1>2 DEF OneTurn
  <1>4. ASSUME NEW i \in 1..Len(chan')
        PROVE  /\ chan'[i].kind = "completed" => Over'
               /\ chan'[i].kind = "exit" =>
                     Over' \/ (raw' = {} /\ \A j \in 1..(i - 1) : chan'[j].kind # "started")
    <2>1. i + 1 \in 1..Len(chan) /\ chan'[i] = chan[i + 1]
      BY <1>1, <1>2
    <2>2. ASSUME raw = {} /\ \A j \in 1..((i + 1) - 1) : chan[j].kind # "started", NEW j \in 1..(i - 1)
          PROVE  chan'[j].kind # "started"
      <3>1. j + 1 \in 1..((i + 1) - 1) /\ j \in 1..Len(chan')
        BY <1>1
      <3> QED BY <2>2, <3>1, <1>1
    <2> QED BY <2>1, <2>2 DEF EndMeansOver
  <1>5. EndMeansOver'
    BY <1>4 DEF EndMeansOver
  <1> QED BY <1>3, <1>5

(* ... and one that adds a completion or an exit to it.                     *)
LEMMA PipeAppend ==
    ASSUME TInv, OneTurn, EndMeansOver, Over => Over', NEW n, chan' = Append(chan, n),
           n \in Completed \/ n = [kind |-> "exit"],
           n.kind = "completed" => Over' /\ rpc' = "handled",
           n.kind = "exit" => Over' \/ (raw = {} /\ \A j \in 1..Len(chan) : chan[j].kind # "started"),
           UNCHANGED <<raw, srvTurn>>,
           rpc = "handled" => rpc' = "handled", rpc' # "handled" => reply' = "none",
           pc'["pump"] = "p_project" => pc["pump"] = "p_project"
    PROVE  OneTurn' /\ EndMeansOver'
  <1>0. chan \in Seq(Notifications) /\ n \in Notifications /\ n.kind \in {"completed", "exit"}
    BY DEF TInv, TypeOK, ServerTypes, Notifications, Completed
  <1>1. /\ Len(chan') = Len(chan) + 1 /\ Len(chan) \in Nat
        /\ \A i \in 1..Len(chan) : chan'[i] = chan[i]
        /\ chan'[Len(chan) + 1] = n
    BY <1>0, AppendProperties
  <1>2. \A i \in 1..Len(chan') : i \in 1..Len(chan) \/ i = Len(chan) + 1
    BY <1>1
  <1>3. pc["pump"] = "p_project" => Head(chan') = Head(chan)
    BY <1>0, AppendKeeps DEF TInv, PumpHolds
  <1>4. OneTurn'
    <2>1. raw' \subseteq {srvTurn'} /\ (pc'["pump"] = "p_project" => Head(chan').turn \in raw')
      BY <1>3 DEF OneTurn
    <2>2. ASSUME NEW i \in 1..Len(chan') PROVE chan'[i].kind = "started" => chan'[i].turn = srvTurn'
      BY <1>0, <1>1, <1>2 DEF OneTurn
    <2>3. ASSUME rpc' # "handled", NEW i \in 1..Len(chan') PROVE chan'[i].kind = "exit"
      BY <1>0, <1>1, <1>2, <2>3 DEF OneTurn
    <2>4. rpc' # "handled" => raw' = {} /\ reply' = "none"
      BY DEF OneTurn
    <2> QED BY <2>1, <2>2, <2>3, <2>4 DEF OneTurn
  <1>5. ASSUME NEW i \in 1..Len(chan')
        PROVE  /\ chan'[i].kind = "completed" => Over'
               /\ chan'[i].kind = "exit" =>
                     Over' \/ (raw' = {} /\ \A j \in 1..(i - 1) : chan'[j].kind # "started")
    <2>1. CASE i \in 1..Len(chan)
      <3>1. \A j \in 1..(i - 1) : j \in 1..Len(chan) /\ chan'[j] = chan[j]
        BY <1>1, <2>1
      <3> QED BY <1>1, <2>1, <3>1 DEF EndMeansOver
    <2>2. CASE i = Len(chan) + 1
      <3>1. \A j \in 1..(i - 1) : j \in 1..Len(chan) /\ chan'[j] = chan[j]
        BY <1>1, <2>2
      <3> QED BY <1>0, <1>1, <2>2, <3>1
    <2> QED BY <1>2, <2>1, <2>2
  <1>6. EndMeansOver'
    BY <1>5 DEF EndMeansOver
  <1> QED BY <1>4, <1>6

LEMMA HeadIsFirst ==
    ASSUME TInv, chan # <<>>
    PROVE  1 \in 1..Len(chan) /\ Head(chan) = chan[1]
  BY DEF TInv, TypeOK, ServerTypes

(* A turn that ends leaves nothing that could begin.                        *)
LEMMA EndedIsOver ==
    ASSUME CInv, turnLive, turnLive' = FALSE, UNCHANGED rpc PROVE Over' /\ rpc = "handled"
  BY DEF CInv, IInv, SentAfterReceipt, Over

LEMMA PipeStep ==
    ASSUME CInv, TInv, OneTurn, EndMeansOver, Next
    PROVE  OneTurn' /\ EndMeansOver'
  <1>a. /\ Over => Over'
        /\ "pump" \in Procs /\ pc \in [Procs -> Locs] /\ turnLive \in BOOLEAN
    BY OverStable DEF TInv, TypeOK, ServerTypes, ProcTypes, Procs
  <1>b. ASSUME UNCHANGED <<chan, raw, srvTurn, rpc, reply>>,
               pc'["pump"] = "p_project" => pc["pump"] = "p_project"
        PROVE  OneTurn' /\ EndMeansOver'
    BY <1>a, <1>b, PipeFrame DEF OneTurn
  <1>c. ASSUME NEW n \in Completed, chan' = Append(chan, n), turnLive, turnLive' = FALSE,
               UNCHANGED <<raw, srvTurn, rpc, reply>>,
               pc'["pump"] = "p_project" => pc["pump"] = "p_project"
        PROVE  OneTurn' /\ EndMeansOver'
    <2>1. Over' /\ rpc = "handled"
      BY <1>c, EndedIsOver
    <2>2. n.kind = "completed"
      BY DEF Completed
    <2> QED BY <1>a, <1>c, <2>1, <2>2, PipeAppend
  <1>1. CASE Launcher
    <2>1. pc'["pump"] = pc["pump"]
      <3>1. CASE \E o : Return("launcher", o)
        BY <3>1, <1>a, ReturnLocals DEF Resolvers, Procs, TInv, TypeOK
      <3>2. CASE \E loc : Goto("launcher", loc)
        BY <3>2, <1>a DEF Goto
      <3> QED BY <1>1, <3>1, <3>2 DEF Launcher, LauncherStartThread, LauncherSetGoal,
            record_pending_turn_start, LauncherSendTurnStart, LauncherTakeAnswer, ResponseReadReceipt,
            ResponseReadMarker, ResponseReadAgent, record_pending_turn_start_response, LauncherFailed
    <2>2. UNCHANGED <<chan, raw, srvTurn>>
      BY <1>1 DEF Launcher, LauncherStartThread, LauncherSetGoal,
         record_pending_turn_start, LauncherSendTurnStart, LauncherTakeAnswer, ResponseReadReceipt,
         ResponseReadMarker, ResponseReadAgent, record_pending_turn_start_response, LauncherFailed,
         store, server
    <2>3. CASE LauncherSendTurnStart
      <3>1. rpc = "none" /\ UNCHANGED reply
        BY <2>3 DEF LauncherSendTurnStart, CInv, IInv, SentAfterReceipt
      <3> QED BY <2>1, <2>2, <3>1, <1>a, PipeFrame DEF OneTurn
    <2>4. CASE LauncherTakeAnswer
      <3>1. UNCHANGED rpc /\ reply' = "none"
        BY <2>4 DEF LauncherTakeAnswer
      <3> QED BY <2>1, <2>2, <3>1, <1>a, PipeFrame
    <2>5. CASE ~LauncherSendTurnStart /\ ~LauncherTakeAnswer
      <3>1. UNCHANGED <<rpc, reply>>
        BY <1>1, <2>5 DEF Launcher, LauncherStartThread, LauncherSetGoal,
           record_pending_turn_start, ResponseReadReceipt,
           ResponseReadMarker, ResponseReadAgent, record_pending_turn_start_response, LauncherFailed,
           server
      <3> QED BY <2>1, <2>2, <3>1, <1>b
    <2> QED BY <2>3, <2>4, <2>5
  <1>2. CASE \E p \in {"launcher", "pump", "maint"} : Resolve(p)
    <2>1. PICK p \in Resolvers : Resolve(p)
      BY <1>2 DEF Resolvers
    <2>2. pc'["pump"] = "p_project" => pc["pump"] = "p_project"
      BY <2>1, <1>a, ResolveMoves DEF ResolveLocs, ReconcileLocs, ContainLocs, FinalizeLocs
    <2>3. UNCHANGED <<raw, srvTurn, rpc, reply>>
      BY <2>1, ResolveMoves
    <2>4. CASE UNCHANGED chan
      BY <2>2, <2>3, <2>4, <1>b
    <2>5. CASE ContainDeleteThread(p) /\ chan' # chan
      <3>1. /\ turnLive /\ turnLive' = FALSE
            /\ chan' = Append(chan, [kind |-> "completed", status |-> "interrupted"])
        BY <2>5, <1>a DEF ContainDeleteThread
      <3>2. [kind |-> "completed", status |-> "interrupted"] \in Completed
        BY DEF Completed
      <3> QED BY <2>2, <2>3, <3>1, <3>2, <1>c
    <2> QED BY <2>1, <2>4, <2>5 DEF Resolve, ReconcileReadReceipt, ReconcileReadMarker,
          ReconcileReadAgent, accept_pending_turn_start_notification,
          begin_pending_turn_start_containment, FinalizeContained, resolve_pending_turn_start, server
  <1>3. CASE MaintenanceReconcile \/ project_turn_completed \/ StopRun \/ StopFinish \/ GraceExpires
    <2>1. /\ UNCHANGED <<chan, raw, srvTurn, rpc, reply>>
          /\ pc'["pump"] = "p_project" => pc["pump"] = "p_project"
      BY <1>3, <1>a DEF MaintenanceReconcile, project_turn_completed, StopRun, StopFinish, GraceExpires,
         Goto, store, server
    <2> QED BY <2>1, <1>b
  <1>4. CASE PumpTurnStarted
    <2>1. /\ chan # <<>> /\ Head(chan).kind = "started" /\ raw' = raw \cup {Head(chan).turn}
          /\ UNCHANGED <<chan, srvTurn, rpc, reply>>
      BY <1>4 DEF PumpTurnStarted, server
    <2>2. 1 \in 1..Len(chan) /\ Head(chan) = chan[1]
      BY <2>1, HeadIsFirst
    <2>3. Head(chan).turn = srvTurn /\ rpc = "handled"
      BY <2>1, <2>2 DEF OneTurn
    <2>4. OneTurn'
      BY <2>1, <2>3 DEF OneTurn
    <2>5. ASSUME NEW i \in 1..Len(chan), chan[i].kind = "exit" PROVE Over
      <3>1. i # 1
        BY <2>1, <2>2, <2>5
      <3>2. 1 \in 1..(i - 1)
        BY <3>1, <2>2
      <3> QED BY <2>1, <2>2, <2>5, <3>2 DEF EndMeansOver
    <2>6. EndMeansOver'
      BY <2>1, <2>5, <1>a DEF EndMeansOver
    <2> QED BY <2>4, <2>6
  <1>5. CASE project_turn_started \/ handle_turn_completed \/ PumpProcessExit
    <2>1. chan # <<>> /\ chan' = Tail(chan) /\ UNCHANGED <<raw, srvTurn, rpc, reply>>
      BY <1>5 DEF project_turn_started, handle_turn_completed, PumpProcessExit, TInv, PumpHolds
    <2>2. pc'["pump"] # "p_project"
      BY <1>5, <1>a DEF project_turn_started, handle_turn_completed, PumpProcessExit, Goto, procs
    <2> QED BY <2>1, <2>2, <1>a, PipeTail
  <1>6. CASE StopInterrupt
    <2>1. UNCHANGED <<raw, srvTurn, rpc, reply>> /\ pc'["pump"] = pc["pump"]
      BY <1>6, <1>a DEF StopInterrupt, Goto
    <2>2. CASE UNCHANGED chan
      BY <2>1, <2>2, <1>b
    <2>3. CASE chan' # chan
      <3>1. /\ turnLive /\ turnLive' = FALSE
            /\ chan' = Append(chan, [kind |-> "completed", status |-> "interrupted"])
        BY <1>6, <2>3, <1>a DEF StopInterrupt
      <3>2. [kind |-> "completed", status |-> "interrupted"] \in Completed
        BY DEF Completed
      <3> QED BY <2>1, <3>1, <3>2, <1>c
    <2> QED BY <2>2, <2>3
  <1>7. CASE ServerStartTurn
    <2>1. PICK t \in Turns, r \in {"null", "match", "conflict"} :
            srvTurn' = t /\ chan' = Append(chan, [kind |-> "started", turn |-> t, route |-> r])
      BY <1>7 DEF ServerStartTurn
    <2> DEFINE n == [kind |-> "started", turn |-> t, route |-> r]
    <2>2. rpc = "sent" /\ thread = "live" /\ rpc' = "handled" /\ UNCHANGED <<raw, pc>>
      BY <1>7 DEF ServerStartTurn, store, procs
    <2>3. chan \in Seq(Notifications) /\ n \in Notifications
      BY DEF TInv, TypeOK, ServerTypes, Notifications
    <2>4. n.kind = "started" /\ n.turn = srvTurn'
      BY <2>1
    <2>5. /\ Len(chan') = Len(chan) + 1 /\ Len(chan) \in Nat
          /\ \A i \in 1..Len(chan) : chan'[i] = chan[i]
          /\ chan'[Len(chan) + 1] = n
      BY <2>1, <2>3, AppendProperties
    <2>6. \A i \in 1..Len(chan') : i \in 1..Len(chan) \/ i = Len(chan) + 1
      BY <2>5
    <2>7. raw = {} /\ \A i \in 1..Len(chan) : chan[i].kind = "exit"
      BY <2>2 DEF OneTurn
    <2> HIDE DEF n
    <2>8. pc["pump"] # "p_project"
      BY <2>7 DEF OneTurn
    <2>9. OneTurn'
      <3>1. ASSUME NEW i \in 1..Len(chan') PROVE chan'[i].kind = "started" => chan'[i].turn = srvTurn'
        BY <2>4, <2>5, <2>6, <2>7
      <3> QED BY <3>1, <2>2, <2>7, <2>8 DEF OneTurn
    <2>10. ASSUME NEW i \in 1..Len(chan')
           PROVE  /\ chan'[i].kind # "completed"
                  /\ chan'[i].kind = "exit" => \A j \in 1..(i - 1) : chan'[j].kind # "started"
      <3>1. CASE i \in 1..Len(chan)
        <4>1. \A j \in 1..(i - 1) : j \in 1..Len(chan)
          BY <3>1, <2>5
        <4> QED BY <2>5, <2>7, <3>1, <4>1
      <3>2. CASE i = Len(chan) + 1
        BY <2>4, <2>5, <3>2
      <3> QED BY <2>6, <3>1, <3>2
    <2>11. EndMeansOver'
      BY <2>2, <2>7, <2>10 DEF EndMeansOver
    <2> QED BY <2>9, <2>11
  <1>8. CASE ServerAnswer
    <2>1. rpc = "handled" /\ UNCHANGED <<chan, raw, srvTurn, rpc, pc>>
      BY <1>8 DEF ServerAnswer, store, procs
    <2> QED BY <2>1, <1>a, PipeFrame
  <1>9. CASE ServerTurnEnds
    <2>1. PICK st \in {"completed", "failed"} :
             chan' = Append(chan, [kind |-> "completed", status |-> st])
      BY <1>9 DEF ServerTurnEnds
    <2>2. turnLive /\ turnLive' = FALSE /\ UNCHANGED <<raw, srvTurn, rpc, reply, pc>>
      BY <1>9 DEF ServerTurnEnds, store, procs
    <2>3. [kind |-> "completed", status |-> st] \in Completed
      BY DEF Completed
    <2> QED BY <2>1, <2>2, <2>3, <1>c
  <1>10. CASE ServerExit
    <2> DEFINE n == [kind |-> "exit"]
    <2>1. /\ chan' = Append(chan, n) /\ turnLive' = FALSE /\ reply' = "none"
          /\ UNCHANGED <<raw, srvTurn, pc>>
          /\ rpc' = IF rpc = "sent" THEN "handled" ELSE rpc
      BY <1>10 DEF ServerExit, store, procs
    <2>2. n.kind = "exit"
      OBVIOUS
    <2>3. CASE rpc = "none"
      <3>1. raw = {} /\ \A j \in 1..Len(chan) : chan[j].kind # "started"
        BY <2>3 DEF OneTurn
      <3> QED BY <2>1, <2>2, <2>3, <3>1, <1>a, PipeAppend
    <2>4. CASE rpc # "none"
      <3>1. rpc' = "handled"
        BY <2>1, <2>4 DEF TInv, TypeOK, ServerTypes
      <3>2. Over'
        BY <2>1, <3>1 DEF Over
      <3> QED BY <2>1, <2>2, <3>1, <3>2, <1>a, PipeAppend
    <2> QED BY <2>3, <2>4
  <1>11. CASE CrashRestart
    <2>1. /\ chan' = <<>> /\ reply' = "none" /\ UNCHANGED <<raw, srvTurn>> /\ pc'["pump"] = "idle"
          /\ rpc = "handled" => rpc' = "handled"
      BY <1>11, <1>a DEF CrashRestart
    <2>2. 1..Len(chan') = {}
      BY <2>1
    <2> QED BY <2>1, <2>2 DEF OneTurn, EndMeansOver
  <1> QED BY <1>1, <1>2, <1>3, <1>4, <1>5, <1>6, <1>7, <1>8, <1>9, <1>10, <1>11
      DEF Next, Pump, Operator, Environment

-----------------------------------------------------------------------------
(* Every task that holds a turn id holds the notified one.                  *)
LEMMA ReadersStep ==
    ASSUME CInv, TInv, TurnStartAssumption, OneTurn, ReadersExact, Next
    PROVE  ReadersExact'
  <1>a. /\ Resolvers \subseteq Procs /\ "launcher" \in Resolvers /\ "pump" \in Procs
        /\ ProcTypes /\ pc \in [Procs -> Locs] /\ snap \in [Procs -> Turns \cup {NoTurn}]
        /\ "none" \notin Turns
    BY DEF Resolvers, Procs, TInv, TypeOK, ProcTypes, TurnStartAssumption
  <1>b. ASSUME \A p \in Resolvers : pc'[p] = "rc_accept" => pc[p] = "rc_accept" /\ snap'[p] = snap[p],
               pc'["launcher"] \in ResponseLocs =>
                  pc["launcher"] \in ResponseLocs /\ snap'["launcher"] = snap["launcher"],
               raw \subseteq raw', rpc = "handled" => rpc' = "handled",
               UNCHANGED srvTurn, reply' \in {reply, "none"}
        PROVE  ReadersExact'
    BY <1>a, <1>b DEF ReadersExact
  <1>1. CASE Launcher
    <2>1. CASE \/ LauncherStartThread \/ LauncherSetGoal \/ record_pending_turn_start
               \/ LauncherSendTurnStart \/ LauncherFailed
      <3>1. /\ pc'["launcher"] \notin ResponseLocs \cup {"rc_accept"}
            /\ \A q \in Procs \ {"launcher"} : pc'[q] = pc[q]
        BY <2>1, <1>a DEF LauncherStartThread, LauncherSetGoal, record_pending_turn_start,
           LauncherSendTurnStart, LauncherFailed, Goto, ResponseLocs
      <3>2. UNCHANGED <<snap, raw, srvTurn, reply>>
        BY <2>1 DEF LauncherStartThread, LauncherSetGoal, record_pending_turn_start,
           LauncherSendTurnStart, LauncherFailed, store, server
      <3>3. rpc = "handled" => rpc' = "handled"
        BY <2>1 DEF LauncherStartThread, LauncherSetGoal, record_pending_turn_start,
           LauncherSendTurnStart, LauncherFailed, server, CInv, IInv, SentAfterReceipt
      <3> QED BY <3>1, <3>2, <3>3, <1>a, <1>b
    <2>2. CASE LauncherTakeAnswer
      <3>1. /\ reply' = "none" /\ UNCHANGED <<raw, srvTurn, rpc>>
            /\ \A q \in Procs \ {"launcher"} : pc'[q] = pc[q] /\ snap'[q] = snap[q]
        BY <2>2, <1>a DEF LauncherTakeAnswer, Goto, store
      <3>2. CASE pc'["launcher"] \notin ResponseLocs \cup {"rc_accept"}
        BY <3>1, <3>2, <1>a, <1>b
      <3>3. CASE reply \in Turns /\ snap' = [snap EXCEPT !["launcher"] = reply]
                 /\ Goto("launcher", "rs_receipt")
        <4>1. snap'["launcher"] = reply /\ pc'["launcher"] = "rs_receipt" /\ reply # "none"
          BY <3>3, <1>a DEF Goto
        <4>2. rpc = "handled"
          BY <4>1 DEF OneTurn
        <4> QED BY <3>1, <3>3, <4>1, <4>2, <1>a DEF ReadersExact
      <3>4. pc'["launcher"] \in {"ct_begin", "rc_receipt"} => pc'["launcher"] \notin ResponseLocs \cup {"rc_accept"}
        BY DEF ResponseLocs
      <3> QED BY <2>2, <3>2, <3>3, <3>4, <1>a DEF LauncherTakeAnswer, Goto
    <2>3. CASE \/ ResponseReadReceipt \/ ResponseReadMarker \/ ResponseReadAgent
               \/ record_pending_turn_start_response
      <3>1. UNCHANGED <<raw, srvTurn, rpc, reply>> /\ pc["launcher"] \in ResponseLocs
        BY <2>3 DEF ResponseReadReceipt, ResponseReadMarker, ResponseReadAgent,
           record_pending_turn_start_response, store, server, ResponseLocs
      <3>2. CASE \E o : Return("launcher", o)
        <4>1. /\ pc'["launcher"] \notin ResponseLocs \cup {"rc_accept"}
              /\ \A q \in Procs \ {"launcher"} : pc'[q] = pc[q] /\ snap'[q] = snap[q]
          BY <3>2, <1>a, ReturnLocals DEF ResponseLocs
        <4> QED BY <3>1, <4>1, <1>a, <1>b
      <3>3. CASE /\ \E loc \in {"rs_marker", "rs_agent", "rs_record", "ct_begin", "rc_receipt"} :
                       Goto("launcher", loc)
                 /\ UNCHANGED snap
        <4>1. pc'["launcher"] # "rc_accept" /\ \A q \in Procs \ {"launcher"} : pc'[q] = pc[q]
          BY <3>3, <1>a DEF Goto
        <4> QED BY <3>1, <3>3, <4>1, <1>a, <1>b
      <3> QED BY <2>3, <3>2, <3>3 DEF ResponseReadReceipt, ResponseReadMarker, ResponseReadAgent,
            record_pending_turn_start_response
    <2> QED BY <1>1, <2>1, <2>2, <2>3 DEF Launcher
  <1>2. CASE \E p \in {"launcher", "pump", "maint"} : Resolve(p)
    <2>1. PICK p \in Resolvers : Resolve(p)
      BY <1>2 DEF Resolvers
    <2>2. /\ UNCHANGED <<rpc, reply, srvTurn, raw>>
          /\ \A q \in Procs \ {p} : pc'[q] = pc[q] /\ snap'[q] = snap[q]
          /\ pc'[p] \notin ResponseLocs
      BY <2>1, ResolveMoves DEF ResponseLocs, ResolveLocs, ReconcileLocs, ContainLocs, FinalizeLocs
    <2>3. pc'[p] = "rc_accept" => snap'[p] \in raw
      <3>1. CASE \E o : Return(p, o)
        BY <3>1, <1>a, ReturnLocals
      <3>2. CASE \E loc \in {"rc_marker", "ct_begin", "rc_agent", "rc_receipt", "ct_delete", "fz_clear",
                               "fz_failed", "fz_lease", "fz_task", "fz_resolve"} : Goto(p, loc)
        BY <3>2, <1>a DEF Goto
      <3>3. CASE activeTurn \in raw /\ snap' = [snap EXCEPT ![p] = activeTurn]
        BY <3>3, <1>a
      <3> QED BY <2>1, <3>1, <3>2, <3>3 DEF Resolve, ReconcileReadReceipt, ReconcileReadMarker,
            ReconcileReadAgent, accept_pending_turn_start_notification,
            begin_pending_turn_start_containment, ContainDeleteThread, FinalizeContained,
            resolve_pending_turn_start
    <2> QED BY <2>2, <2>3, <1>a DEF ReadersExact
  <1>3. CASE MaintenanceReconcile \/ Pump \/ Operator \/ GraceExpires \/ ServerTurnEnds \/ ServerExit
    <2>1. /\ raw \subseteq raw' /\ UNCHANGED <<snap, srvTurn>> /\ reply' \in {reply, "none"}
          /\ rpc = "handled" => rpc' = "handled"
      BY <1>3 DEF MaintenanceReconcile, Pump, PumpTurnStarted, project_turn_started,
         project_turn_completed, handle_turn_completed, PumpProcessExit, Operator, StopRun,
         StopInterrupt, StopFinish, GraceExpires, ServerTurnEnds, ServerExit, store, procs, server
    <2>2. /\ pc'["launcher"] = pc["launcher"]
          /\ \A p \in Resolvers : pc'[p] = pc[p] \/ pc'[p] # "rc_accept"
      BY <1>3, <1>a DEF MaintenanceReconcile, Pump, PumpTurnStarted, project_turn_started,
         project_turn_completed, handle_turn_completed, PumpProcessExit, Operator, StopRun,
         StopInterrupt, StopFinish, GraceExpires, ServerTurnEnds, ServerExit, procs, Goto
    <2> QED BY <2>1, <2>2, <1>a, <1>b
  <1>4. CASE ServerStartTurn
    <2>1. rpc = "sent" /\ UNCHANGED <<raw, pc, snap, reply>>
      BY <1>4 DEF ServerStartTurn, store, procs
    <2>2. pc["launcher"] \notin ResponseLocs /\ reply \notin Turns
      BY <2>1, <1>a DEF ReadersExact, OneTurn
    <2> QED BY <2>1, <2>2 DEF ReadersExact
  <1>5. CASE ServerAnswer
    <2>1. UNCHANGED <<raw, pc, snap, rpc, srvTurn>>
      BY <1>5 DEF ServerAnswer, store, procs
    <2>2. AnswerNamesTurn /\ reply' \in Turns => reply' = srvTurn'
      BY <1>5, <2>1 DEF ServerAnswer, TurnStartAssumption
    <2> QED BY <2>1, <2>2 DEF ReadersExact
  <1>6. CASE CrashRestart
    <2>1. /\ pc'["launcher"] = "l_done" /\ reply' = "none"
          /\ \A p \in Resolvers : pc'[p] \in {"idle", "l_done"}
      BY <1>6, <1>a DEF CrashRestart
    <2> QED BY <2>1, <1>a DEF ReadersExact, ResponseLocs
  <1> QED BY <1>1, <1>2, <1>3, <1>4, <1>5, <1>6 DEF Next, Environment

(* The acknowledged turn stays active until it is over.                     *)
LEMMA AckStep ==
    ASSUME CInv, TInv, OneTurn, EndMeansOver, ReadersExact, AckActive, Next
    PROVE  AckActive'
  <1>a. /\ Over => Over'
        /\ raw \subseteq Turns /\ turnRoute \in [Turns -> Routes] /\ acks \in Nat
        /\ Resolvers \subseteq Procs
    BY OverStable DEF TInv, TypeOK, StoreTypes, Resolvers, Procs
  <1>b. ASSUME UNCHANGED <<acks, srvTurn>>, raw \subseteq raw',
               acks = 1 => turnRoute'[srvTurn] = turnRoute[srvTurn],
               acks = 1 => activeTurn' \in {activeTurn, srvTurn} \/ Over'
        PROVE  AckActive'
    BY <1>a, <1>b DEF AckActive
  <1>c. ASSUME receipt PROVE acks = 0
    BY <1>c DEF CInv, IInv, ReceiptOpen
  <1>1. CASE Launcher
    <2>1. UNCHANGED <<acks, srvTurn, raw>>
      BY <1>1 DEF Launcher, LauncherStartThread, LauncherSetGoal, record_pending_turn_start,
         LauncherSendTurnStart, LauncherTakeAnswer, ResponseReadReceipt, ResponseReadMarker,
         ResponseReadAgent, record_pending_turn_start_response, LauncherFailed, store, server
    <2>2. UNCHANGED <<turnRoute, activeTurn>> \/ receipt
      BY <1>1 DEF Launcher, LauncherStartThread, LauncherSetGoal, record_pending_turn_start,
         LauncherSendTurnStart, LauncherTakeAnswer, ResponseReadReceipt, ResponseReadMarker,
         ResponseReadAgent, record_pending_turn_start_response, LauncherFailed, store, server
    <2> QED BY <2>1, <2>2, <1>b, <1>c
  <1>2. CASE \E p \in {"launcher", "pump", "maint"} : Resolve(p)
    <2>1. PICK p \in Resolvers : Resolve(p)
      BY <1>2 DEF Resolvers
    <2>2. UNCHANGED <<srvTurn, raw>>
      BY <2>1, ResolveMoves
    <2>3. CASE accept_pending_turn_start_notification(p)
      <3>1. CASE UNCHANGED store
        BY <3>1, <2>2, <1>b DEF store
      <3>2. CASE /\ receipt /\ acks' = acks + 1 /\ activeTurn' = snap[p]
                 /\ turnRoute' = [turnRoute EXCEPT ![snap[p]] = "match"]
        <4>1. snap[p] \in raw
          BY <2>3 DEF accept_pending_turn_start_notification, ReadersExact
        <4>2. snap[p] = srvTurn /\ srvTurn \in Turns
          BY <4>1, <1>a DEF OneTurn
        <4> QED BY <2>2, <3>2, <4>1, <4>2, <1>a DEF AckActive
      <3> QED BY <2>3, <3>1, <3>2 DEF accept_pending_turn_start_notification
    <2>4. CASE FinalizeContained(p)
      <3>1. UNCHANGED <<acks, turnRoute>>
        BY <2>4 DEF FinalizeContained
      <3>2. thread = "deleted" /\ ~turnLive
        BY <2>4 DEF FinalizeContained, FinalizeLocs, CInv, IInv, DeletedIsDead
      <3> QED BY <2>2, <3>1, <3>2, <1>a, <1>b DEF Over
    <2>5. CASE ~accept_pending_turn_start_notification(p) /\ ~FinalizeContained(p)
      <3>1. UNCHANGED <<acks, turnRoute, activeTurn>>
        BY <2>1, <2>5 DEF Resolve, ReconcileReadReceipt, ReconcileReadMarker, ReconcileReadAgent,
           begin_pending_turn_start_containment, ContainDeleteThread, resolve_pending_turn_start, store
      <3> QED BY <2>2, <3>1, <1>b
    <2> QED BY <2>3, <2>4, <2>5
  <1>3. CASE \/ MaintenanceReconcile \/ Operator \/ GraceExpires \/ ServerAnswer
             \/ ServerTurnEnds \/ ServerExit \/ PumpTurnStarted \/ handle_turn_completed
    <2>1. UNCHANGED <<acks, srvTurn, turnRoute, activeTurn>> /\ raw \subseteq raw'
      BY <1>3 DEF MaintenanceReconcile, Operator, StopRun, StopInterrupt, StopFinish, GraceExpires,
         ServerAnswer, ServerTurnEnds, ServerExit, PumpTurnStarted, handle_turn_completed, store, server
    <2> QED BY <2>1, <1>b
  <1>4. CASE project_turn_started
    <2>1. Head(chan) = chan[1] /\ 1 \in 1..Len(chan) /\ Head(chan).kind = "started"
      BY <1>4, HeadIsFirst DEF project_turn_started, TInv, PumpHolds, Started
    <2>2. Head(chan).turn = srvTurn
      BY <2>1 DEF OneTurn
    <2>3. activeTurn' = srvTurn /\ UNCHANGED <<acks, srvTurn, raw>>
      BY <1>4, <2>2 DEF project_turn_started
    <2>4. turnRoute' = [turnRoute EXCEPT ![srvTurn] =
                           IF @ \in {"norow", "null"} THEN Head(chan).route ELSE @]
      BY <1>4, <2>2 DEF project_turn_started
    <2>5. acks = 1 => turnRoute'[srvTurn] = turnRoute[srvTurn]
      BY <2>4, <1>a DEF AckActive
    <2> QED BY <2>3, <2>5, <1>b
  <1>5. CASE project_turn_completed
    <2>1. /\ Head(chan) = chan[1] /\ 1 \in 1..Len(chan) /\ Head(chan).kind = "completed"
          /\ UNCHANGED <<acks, srvTurn, raw, turnRoute>>
      BY <1>5, HeadIsFirst DEF project_turn_completed, server
    <2>2. Over
      BY <2>1 DEF EndMeansOver
    <2> QED BY <2>1, <2>2, <1>a, <1>b
  <1>6. CASE PumpProcessExit
    <2>1. /\ Head(chan) = chan[1] /\ 1 \in 1..Len(chan) /\ Head(chan).kind = "exit"
          /\ UNCHANGED <<acks, srvTurn, raw, turnRoute>>
      BY <1>6, HeadIsFirst DEF PumpProcessExit
    <2>2. Over \/ raw = {}
      BY <2>1 DEF EndMeansOver
    <2>3. acks = 1 => Over
      BY <2>2 DEF AckActive
    <2> QED BY <2>1, <2>3, <1>a, <1>b
  <1>7. CASE ServerStartTurn
    <2>1. rpc = "sent" /\ UNCHANGED <<acks, raw>>
      BY <1>7 DEF ServerStartTurn, store
    <2>2. acks # 1
      BY <2>1 DEF OneTurn, AckActive
    <2> QED BY <2>1, <2>2 DEF AckActive
  <1>8. CASE CrashRestart
    <2>1. /\ UNCHANGED <<acks, srvTurn, raw, turnRoute>> /\ turnLive' = FALSE
          /\ rpc = "handled" => rpc' = "handled"
      BY <1>8 DEF CrashRestart
    <2>2. acks = 1 => rpc = "handled"
      BY DEF OneTurn, AckActive
    <2>3. acks = 1 => Over'
      BY <2>1, <2>2 DEF Over
    <2> QED BY <2>1, <2>3, <1>b
  <1> QED BY <1>1, <1>2, <1>3, <1>4, <1>5, <1>6, <1>7, <1>8 DEF Next, Pump, Environment

(* A session is FAILED only when its launch is over, or contained.          *)
LEMMA FailedStep ==
    ASSUME CInv, TInv, EndMeansOver, FailedMeansOver, Next
    PROVE  FailedMeansOver'
  <1>a. (Over => Over') /\ "launcher" \in Procs /\ pc \in [Procs -> Locs]
    BY OverStable DEF TInv, TypeOK, ProcTypes, Procs
  <1>b. ASSUME initiated => initiated', state' = "FAILED" => state = "FAILED" \/ Over'
        PROVE  FailedMeansOver'
    BY <1>a, <1>b DEF FailedMeansOver
  <1>1. CASE Launcher
    <2>1. UNCHANGED initiated
      BY <1>1 DEF Launcher, LauncherStartThread, LauncherSetGoal, record_pending_turn_start,
         LauncherSendTurnStart, LauncherTakeAnswer, ResponseReadReceipt, ResponseReadMarker,
         ResponseReadAgent, record_pending_turn_start_response, LauncherFailed, store
    <2>2. CASE LauncherStartThread \/ LauncherSetGoal
      <3>1. pc["launcher"] \in {"l_thread", "l_goal"} /\ UNCHANGED <<rpc, turnLive>>
        BY <2>2 DEF LauncherStartThread, LauncherSetGoal, server
      <3>2. state' = state \/ pc'["launcher"] = "l_err"
        BY <2>2, <1>a DEF LauncherStartThread, LauncherSetGoal, Goto
      <3>3. rpc = "none" /\ ~turnLive
        BY <3>1 DEF CInv, IInv, SentAfterReceipt
      <3> QED BY <2>1, <3>1, <3>2, <3>3, <1>b DEF Over, EndLocs
    <2>3. CASE ~LauncherStartThread /\ ~LauncherSetGoal
      <3>1. state' = state \/ state' = "STARTING"
        BY <1>1, <2>3 DEF Launcher, record_pending_turn_start,
           LauncherSendTurnStart, LauncherTakeAnswer, ResponseReadReceipt, ResponseReadMarker,
           ResponseReadAgent, record_pending_turn_start_response, LauncherFailed, store
      <3> QED BY <2>1, <3>1, <1>b
    <2> QED BY <2>2, <2>3
  <1>2. CASE \E p \in {"launcher", "pump", "maint"} : Resolve(p)
    <2>1. PICK p \in Resolvers : Resolve(p)
      BY <1>2 DEF Resolvers
    <2>2. initiated => initiated'
      BY <2>1 DEF Resolve, ReconcileReadReceipt, ReconcileReadMarker, ReconcileReadAgent,
         accept_pending_turn_start_notification, begin_pending_turn_start_containment,
         ContainDeleteThread, FinalizeContained, resolve_pending_turn_start, store
    <2>3. CASE FinalizeContained(p)
      <3>1. thread = "deleted" /\ ~turnLive
        BY <2>3 DEF FinalizeContained, FinalizeLocs, CInv, IInv, DeletedIsDead
      <3> QED BY <2>2, <3>1, <1>a, <1>b DEF Over
    <2>4. CASE ~FinalizeContained(p)
      <3>1. state' \in {state, "STARTING", "RUNNING"}
        BY <2>1, <2>4 DEF Resolve, ReconcileReadReceipt, ReconcileReadMarker, ReconcileReadAgent,
           accept_pending_turn_start_notification, begin_pending_turn_start_containment,
           ContainDeleteThread, resolve_pending_turn_start, store
      <3> QED BY <2>2, <3>1, <1>b
    <2> QED BY <2>3, <2>4
  <1>3. CASE project_turn_completed \/ handle_turn_completed
    <2>1. chan # <<>> /\ Head(chan).kind = "completed" /\ UNCHANGED initiated
      BY <1>3 DEF project_turn_completed, handle_turn_completed, TInv, PumpHolds, Completed
    <2>2. Over
      BY <2>1, HeadIsFirst DEF EndMeansOver
    <2> QED BY <2>1, <2>2, <1>a, <1>b
  <1>4. CASE PumpTurnStarted \/ project_turn_started \/ PumpProcessExit \/ CrashRestart
    <2>1. UNCHANGED initiated /\ state' \in {state, "RUNNING", "STALLED"}
      BY <1>4 DEF PumpTurnStarted, project_turn_started, PumpProcessExit, CrashRestart,
         reconcile_orphaned_sessions
    <2> QED BY <2>1, <1>b
  <1>5. CASE \/ MaintenanceReconcile \/ Operator \/ GraceExpires \/ ServerStartTurn
             \/ ServerAnswer \/ ServerTurnEnds \/ ServerExit
    <2>1. UNCHANGED initiated /\ state' \in {state, "INTERRUPTED"}
      BY <1>5 DEF MaintenanceReconcile, Operator, StopRun, StopInterrupt, StopFinish, GraceExpires,
         ServerStartTurn, ServerAnswer, ServerTurnEnds, ServerExit, store
    <2> QED BY <2>1, <1>b
  <1> QED BY <1>1, <1>2, <1>3, <1>4, <1>5 DEF Next, Pump, Environment

(* A reconciliation that ends start_agent begins without a receipt.         *)
LEMMA StageStep ==
    ASSUME CInv, TInv, LauncherStage, Next
    PROVE  LauncherStage'
  <1>a. /\ "launcher" \in Procs /\ "launcher" \in Resolvers /\ ProcTypes /\ pc \in [Procs -> Locs]
        /\ stage \in [Procs -> {"first", "final"}]
    BY DEF Procs, Resolvers, TInv, TypeOK, ProcTypes
  <1>b. ASSUME pc'["launcher"] = pc["launcher"], stage'["launcher"] = stage["launcher"], receipt' => receipt
        PROVE  LauncherStage'
    BY <1>b DEF LauncherStage
  <1>c. ASSUME NEW o, Return("launcher", o) PROVE LauncherStage'
    <2>1. /\ pc'["launcher"] \in {"rc_receipt", "ct_begin", "l_err", "l_done", "idle"}
          /\ pc'["launcher"] = "rc_receipt" => stage'["launcher"] = "first"
      BY <1>a, <1>c, ReturnLocals
    <2> QED BY <2>1 DEF LauncherStage
  <1>1. CASE Launcher
    <2>1. CASE LauncherStartThread \/ LauncherSetGoal \/ record_pending_turn_start \/ LauncherSendTurnStart
      <3>1. /\ pc["launcher"] \in {"l_thread", "l_goal", "l_record", "l_call"} /\ UNCHANGED stage
            /\ pc'["launcher"] \in {"l_goal", "l_record", "l_call", "l_wait", "l_err"}
        BY <2>1, <1>a DEF LauncherStartThread, LauncherSetGoal, record_pending_turn_start,
           LauncherSendTurnStart, Goto
      <3> QED BY <3>1 DEF LauncherStage
    <2>2. CASE LauncherTakeAnswer
      <3>1. stage["launcher"] = "first"
        BY <2>2 DEF LauncherTakeAnswer, LauncherStage
      <3>2. pc'["launcher"] \in {"ct_begin", "rs_receipt"} \/
            (pc'["launcher"] = "rc_receipt" /\ UNCHANGED stage)
        BY <2>2, <1>a DEF LauncherTakeAnswer, Goto
      <3> QED BY <3>1, <3>2 DEF LauncherStage
    <2>3. CASE ResponseReadReceipt
      <3>1. CASE Goto("launcher", "rs_marker")
        BY <3>1, <1>a DEF Goto, LauncherStage
      <3> QED BY <2>3, <3>1, <1>c DEF ResponseReadReceipt
    <2>4. CASE ResponseReadMarker \/ ResponseReadAgent \/ LauncherFailed
      <3>1. pc'["launcher"] \in {"ct_begin", "rs_agent", "rs_record", "l_err_task", "l_done"}
        BY <2>4, <1>a DEF ResponseReadMarker, ResponseReadAgent, LauncherFailed, Goto
      <3> QED BY <3>1 DEF LauncherStage
    <2>5. CASE record_pending_turn_start_response
      <3>1. CASE ~receipt /\ Goto("launcher", "rc_receipt")
        <4>1. ~receipt' /\ pc'["launcher"] = "rc_receipt"
          BY <2>5, <3>1, <1>a DEF record_pending_turn_start_response, Goto
        <4> QED BY <4>1 DEF LauncherStage
      <3>2. CASE Goto("launcher", "ct_begin")
        BY <3>2, <1>a DEF Goto, LauncherStage
      <3> QED BY <2>5, <3>1, <3>2, <1>c DEF record_pending_turn_start_response
    <2> QED BY <1>1, <2>1, <2>2, <2>3, <2>4, <2>5 DEF Launcher
  <1>2. CASE \E p \in {"launcher", "pump", "maint"} : Resolve(p)
    <2>1. PICK p \in Resolvers : Resolve(p)
      BY <1>2 DEF Resolvers
    <2>2. receipt' => receipt
      BY <2>1 DEF Resolve, ReconcileReadReceipt, ReconcileReadMarker, ReconcileReadAgent,
         accept_pending_turn_start_notification, begin_pending_turn_start_containment,
         ContainDeleteThread, FinalizeContained, resolve_pending_turn_start, store
    <2>3. CASE p # "launcher"
      <3>1. pc'["launcher"] = pc["launcher"] /\ stage'["launcher"] = stage["launcher"]
        <4>1. "launcher" \in Procs \ {p}
          BY <2>3, <1>a
        <4>2. \A q \in Procs \ {p} : pc'[q] = pc[q] /\ stage'[q] = stage[q] /\ snap'[q] = snap[q]
          BY <2>1, ResolveMoves
        <4> QED BY <4>1, <4>2
      <3> QED BY <2>2, <3>1, <1>b
    <2>4. CASE p = "launcher"
      <3> DEFINE Here == {"ct_begin", "ct_delete", "fz_clear", "fz_failed", "fz_lease", "fz_task", "fz_resolve"}
      <3>1. CASE \E o : Return("launcher", o)
        BY <3>1, <1>c
      <3>2. CASE \E loc \in Here : Goto("launcher", loc)
        BY <3>2, <1>a DEF Goto, LauncherStage
      <3>3. CASE ReconcileReadReceipt("launcher") /\ Goto("launcher", "rc_marker")
        <4>1. CASE receipt /\ UNCHANGED stage
          BY <3>3, <4>1, <1>a DEF ReconcileReadReceipt, Goto, LauncherStage
        <4> QED BY <3>3, <4>1, <1>c DEF ReconcileReadReceipt
      <3>4. CASE ReconcileReadMarker("launcher") /\ Goto("launcher", "rc_agent")
        BY <3>4, <1>a DEF ReconcileReadMarker, Goto, LauncherStage
      <3>5. CASE ReconcileReadAgent("launcher") /\ Goto("launcher", "rc_accept")
        <4>1. CASE UNCHANGED stage
          BY <3>5, <4>1, <1>a DEF ReconcileReadAgent, Goto, LauncherStage
        <4> QED BY <3>5, <4>1, <1>c DEF ReconcileReadAgent
      <3>6. CASE begin_pending_turn_start_containment("launcher") /\ ~receipt /\ Goto("launcher", "rc_receipt")
        BY <3>6, <2>2, <1>a DEF Goto, LauncherStage
      <3> QED BY <2>1, <2>4, <3>1, <3>2, <3>3, <3>4, <3>5, <3>6
          DEF Resolve, ReconcileReadReceipt, ReconcileReadMarker, ReconcileReadAgent,
              accept_pending_turn_start_notification, begin_pending_turn_start_containment,
              ContainDeleteThread, FinalizeContained, resolve_pending_turn_start
    <2> QED BY <2>3, <2>4
  <1>3. CASE MaintenanceReconcile \/ Pump \/ Operator \/ GraceExpires \/ ServerStartTurn
             \/ ServerAnswer \/ ServerTurnEnds \/ ServerExit
    <2>1. pc'["launcher"] = pc["launcher"] /\ stage'["launcher"] = stage["launcher"]
      BY <1>3, <1>a DEF MaintenanceReconcile, Pump, PumpTurnStarted, project_turn_started,
         project_turn_completed, handle_turn_completed, PumpProcessExit, Operator, StopRun,
         StopInterrupt, StopFinish, GraceExpires, ServerStartTurn, ServerAnswer, ServerTurnEnds,
         ServerExit, Goto, procs
    <2>2. UNCHANGED receipt
      BY <1>3 DEF MaintenanceReconcile, Pump, PumpTurnStarted, project_turn_started,
         project_turn_completed, handle_turn_completed, PumpProcessExit, Operator, StopRun,
         StopInterrupt, StopFinish, GraceExpires, ServerStartTurn, ServerAnswer, ServerTurnEnds,
         ServerExit, store
    <2> QED BY <2>1, <2>2, <1>b
  <1>4. CASE CrashRestart
    BY <1>4, <1>a DEF CrashRestart, LauncherStage
  <1> QED BY <1>1, <1>2, <1>3, <1>4 DEF Next, Environment

(* What a step does to the pipe: nothing, or it takes the first             *)
(* notification, empties it, or adds one.  Only ServerStartTurn adds a      *)
(* turn/started.                                                            *)
LEMMA PipeMoves ==
    ASSUME TInv, Next
    PROVE  \/ UNCHANGED chan
           \/ chan' = <<>>
           \/ chan # <<>> /\ chan' = Tail(chan)
           \/ \E n \in Notifications : n.kind # "started" /\ chan' = Append(chan, n)
           \/ ServerStartTurn
  <1>a. /\ [kind |-> "completed", status |-> "interrupted"] \in Notifications
        /\ [kind |-> "completed", status |-> "completed"] \in Notifications
        /\ [kind |-> "completed", status |-> "failed"] \in Notifications
        /\ [kind |-> "exit"] \in Notifications
    BY DEF Notifications, Completed
  <1>1. CASE Launcher
    BY <1>1 DEF Launcher, LauncherStartThread, LauncherSetGoal, record_pending_turn_start,
       LauncherSendTurnStart, LauncherTakeAnswer, ResponseReadReceipt, ResponseReadMarker,
       ResponseReadAgent, record_pending_turn_start_response, LauncherFailed, server
  <1>2. CASE \E p \in {"launcher", "pump", "maint"} : Resolve(p)
    <2>1. PICK p \in Resolvers : Resolve(p)
      BY <1>2 DEF Resolvers
    <2>2. CASE ContainDeleteThread(p)
      BY <2>2, <1>a DEF ContainDeleteThread
    <2>3. CASE ~ContainDeleteThread(p)
      BY <2>1, <2>3 DEF Resolve, ReconcileReadReceipt, ReconcileReadMarker, ReconcileReadAgent,
         accept_pending_turn_start_notification, begin_pending_turn_start_containment,
         FinalizeContained, resolve_pending_turn_start, server
    <2> QED BY <2>2, <2>3
  <1>3. CASE MaintenanceReconcile \/ PumpTurnStarted \/ project_turn_completed \/ StopRun
             \/ StopFinish \/ GraceExpires \/ ServerAnswer
    BY <1>3 DEF MaintenanceReconcile, PumpTurnStarted, project_turn_completed, StopRun,
       StopFinish, GraceExpires, ServerAnswer, server
  <1>4. CASE project_turn_started \/ handle_turn_completed \/ PumpProcessExit
    <2>1. chan # <<>>
      BY <1>4 DEF TInv, PumpHolds, project_turn_started, handle_turn_completed, PumpProcessExit
    <2> QED BY <1>4, <2>1 DEF project_turn_started, handle_turn_completed, PumpProcessExit
  <1>5. CASE StopInterrupt \/ ServerTurnEnds \/ ServerExit \/ CrashRestart \/ ServerStartTurn
    BY <1>5, <1>a DEF StopInterrupt, ServerTurnEnds, ServerExit, CrashRestart
  <1> QED BY <1>1, <1>2, <1>3, <1>4, <1>5 DEF Next, Environment, Pump, Operator

(* The turn/started of a launch stays unique, and stays heard.              *)
LEMMA NoticeStep ==
    ASSUME TInv, CInv, OneTurn, RouteSettled, Next
    PROVE  /\ \A i, j \in 1..Len(chan') :
                 chan'[i].kind = "started" /\ chan'[j].kind = "started" => i = j
           /\ Heard => Heard'
  <1>a. chan \in Seq(Notifications) /\ Len(chan) \in Nat
    BY DEF TInv, TypeOK, ServerTypes
  <1>b. rpc = "handled" => rpc' = "handled"
    <2>1. CASE LauncherSendTurnStart
      BY <2>1 DEF LauncherSendTurnStart, CInv, IInv, SentAfterReceipt
    <2>2. CASE Launcher /\ ~LauncherSendTurnStart
      BY <2>2 DEF Launcher, LauncherStartThread, LauncherSetGoal, record_pending_turn_start,
         LauncherTakeAnswer, ResponseReadReceipt, ResponseReadMarker, ResponseReadAgent,
         record_pending_turn_start_response, LauncherFailed, server
    <2>3. CASE \E p \in {"launcher", "pump", "maint"} : Resolve(p)
      BY <2>3, ResolveMoves DEF Resolvers
    <2>4. CASE MaintenanceReconcile \/ Pump \/ Operator \/ Environment
      BY <2>4 DEF MaintenanceReconcile, Pump, PumpTurnStarted, project_turn_started,
         project_turn_completed, handle_turn_completed, PumpProcessExit, Operator, StopRun,
         StopInterrupt, StopFinish, Environment, GraceExpires, ServerStartTurn, ServerAnswer,
         ServerTurnEnds, ServerExit, CrashRestart, server
    <2> QED BY <2>1, <2>2, <2>3, <2>4 DEF Next
  <1>1. CASE UNCHANGED chan
    BY <1>1, <1>b DEF Heard, RouteSettled
  <1>2. CASE chan' = <<>>
    <2>1. 1..Len(chan') = {}
      BY <1>2
    <2> QED BY <2>1, <1>b DEF Heard
  <1>3. CASE chan # <<>> /\ chan' = Tail(chan)
    <2>1. /\ Len(chan') = Len(chan) - 1
          /\ \A i \in 1..Len(chan') : chan'[i] = chan[i + 1]
      BY <1>3, <1>a, HeadTailProperties
    <2>2. \A i \in 1..Len(chan') : i + 1 \in 1..Len(chan)
      BY <2>1, <1>a
    <2>3. ASSUME NEW i \in 1..Len(chan'), NEW j \in 1..Len(chan'),
                 chan'[i].kind = "started", chan'[j].kind = "started"
          PROVE  i = j
      <3>1. i + 1 = j + 1
        BY <2>1, <2>2, <2>3 DEF RouteSettled
      <3> QED BY <3>1
    <2> QED BY <2>1, <2>2, <2>3, <1>b DEF Heard
  <1>4. ASSUME NEW n \in Notifications, chan' = Append(chan, n),
               n.kind # "started" \/ \A i \in 1..Len(chan) : chan[i].kind # "started"
        PROVE  \A i, j \in 1..Len(chan') :
                  chan'[i].kind = "started" /\ chan'[j].kind = "started" => i = j
    <2>1. /\ Len(chan') = Len(chan) + 1 /\ chan'[Len(chan) + 1] = n
          /\ \A i \in 1..Len(chan) : chan'[i] = chan[i]
      BY <1>4, <1>a, AppendProperties
    <2>2. \A i \in 1..Len(chan') : i \in 1..Len(chan) \/ i = Len(chan) + 1
      BY <2>1, <1>a
    <2> QED BY <2>1, <2>2, <1>4 DEF RouteSettled
  <1>5. ASSUME NEW n \in Notifications, n.kind # "started", chan' = Append(chan, n)
        PROVE  Heard => Heard'
    <2>1. /\ Len(chan') = Len(chan) + 1 /\ chan'[Len(chan) + 1] = n
          /\ \A i \in 1..Len(chan) : chan'[i] = chan[i]
      BY <1>5, <1>a, AppendProperties
    <2>2. \A i \in 1..Len(chan') : i \in 1..Len(chan) \/ i = Len(chan) + 1
      BY <2>1, <1>a
    <2> QED BY <2>1, <2>2, <1>5, <1>b DEF Heard
  <1>6. CASE ServerStartTurn
    <2>1. PICK t \in Turns, r \in {"null", "match", "conflict"} :
             chan' = Append(chan, [kind |-> "started", turn |-> t, route |-> r])
      BY <1>6 DEF ServerStartTurn
    <2>2. [kind |-> "started", turn |-> t, route |-> r] \in Notifications
      BY DEF Notifications, Started
    <2>3. rpc # "handled" /\ \A i \in 1..Len(chan) : chan[i].kind # "started"
      BY <1>6 DEF ServerStartTurn, OneTurn
    <2> QED BY <2>1, <2>2, <2>3, <1>4 DEF Heard
  <1> QED BY <1>1, <1>2, <1>3, <1>4, <1>5, <1>6, PipeMoves

LEMMA RouteStep ==
    ASSUME CInv, TInv, OneTurn, ReadersExact, RouteSettled, Next
    PROVE  RouteSettled'
  <1>a. /\ "launcher" \in Procs /\ "launcher" \in Resolvers /\ "pump" \in Resolvers
        /\ Resolvers \subseteq Procs /\ ProcTypes /\ pc \in [Procs -> Locs]
    BY DEF Procs, Resolvers, TInv, TypeOK, ProcTypes
  <1> DEFINE Owed == /\ pc["launcher"] \notin EndLocs
                     /\ activeTurn # NoTurn \/ \E p \in Resolvers : pc[p] = "rc_accept"
             Fits == pc["launcher"] = "rc_accept" =>
                        pending_turn_route_matches(turnRoute[snap["launcher"]])
  <1>b. ASSUME Owed' => Owed \/ Heard', Fits' PROVE RouteSettled'
    BY <1>b, NoticeStep DEF RouteSettled
  <1>1. CASE Launcher
    <2>1. pc'["launcher"] # "rc_accept" /\ \A p \in Resolvers \ {"launcher"} : pc'[p] = pc[p]
      <3>1. CASE \E o : Return("launcher", o)
        BY <3>1, <1>a, ReturnLocals
      <3>2. CASE \E loc : loc # "rc_accept" /\ Goto("launcher", loc)
        BY <3>2, <1>a DEF Goto
      <3> QED BY <1>1, <3>1, <3>2 DEF Launcher, LauncherStartThread, LauncherSetGoal,
            record_pending_turn_start, LauncherSendTurnStart, LauncherTakeAnswer,
            ResponseReadReceipt, ResponseReadMarker, ResponseReadAgent,
            record_pending_turn_start_response, LauncherFailed
    <2>2. pc["launcher"] \in EndLocs => pc'["launcher"] \in EndLocs
      BY <1>1, <1>a DEF EndLocs, Launcher, LauncherStartThread, LauncherSetGoal,
         record_pending_turn_start, LauncherSendTurnStart, LauncherTakeAnswer,
         ResponseReadReceipt, ResponseReadMarker, ResponseReadAgent,
         record_pending_turn_start_response, LauncherFailed, Goto
    <2>3. UNCHANGED activeTurn \/ pc'["launcher"] \in EndLocs
      <3>1. CASE record_pending_turn_start_response /\ Return("launcher", "ResponseAcknowledged")
        BY <3>1, <1>a DEF Return, Leave, Goto, EndLocs
      <3>2. CASE UNCHANGED activeTurn
        BY <3>2
      <3> QED BY <1>1, <3>1, <3>2 DEF Launcher, LauncherStartThread, LauncherSetGoal,
            record_pending_turn_start, LauncherSendTurnStart, LauncherTakeAnswer,
            ResponseReadReceipt, ResponseReadMarker, ResponseReadAgent,
            record_pending_turn_start_response, LauncherFailed, store
    <2> QED BY <2>1, <2>2, <2>3, <1>b
  <1>2. CASE \E p \in {"launcher", "pump", "maint"} : Resolve(p)
    <2>1. PICK p \in Resolvers : Resolve(p)
      BY <1>2 DEF Resolvers
    <2>2. /\ pc[p] \in ResolveLocs
          /\ \A q \in Procs \ {p} : pc'[q] = pc[q] /\ snap'[q] = snap[q]
      BY <2>1, ResolveMoves
    <2>3. pc["launcher"] \in EndLocs => pc'["launcher"] \in EndLocs
      BY <2>2, <1>a DEF EndLocs, ResolveLocs, ReconcileLocs, ContainLocs, FinalizeLocs
    <2>4. CASE ReconcileReadAgent(p)
      <3>1. UNCHANGED <<activeTurn, turnRoute>>
        BY <2>4 DEF ReconcileReadAgent, store
      <3>2. CASE pc'[p] = "rc_accept"
        <4>1. /\ activeTurn # NoTurn /\ snap'[p] = activeTurn
              /\ pending_turn_route_matches(turnRoute[activeTurn])
          <5>1. CASE \E o : Return(p, o)
            BY <3>2, <5>1, <1>a, ReturnLocals
          <5>2. CASE /\ activeTurn # NoTurn /\ snap' = [snap EXCEPT ![p] = activeTurn]
                     /\ Goto(p, IF ExactTurn(activeTurn) THEN "rc_accept" ELSE "ct_begin")
            BY <3>2, <5>2, <1>a DEF Goto, ExactTurn, ProcTypes
          <5> QED BY <2>4, <5>1, <5>2 DEF ReconcileReadAgent
        <4>2. Owed' => Owed
          BY <4>1, <2>3
        <4>3. Fits'
          BY <4>1, <3>1, <2>2, <1>a DEF RouteSettled
        <4> QED BY <4>2, <4>3, <1>b
      <3>3. CASE pc'[p] # "rc_accept"
        <4>1. Owed' => Owed
          BY <3>1, <3>3, <2>2, <2>3, <1>a
        <4>2. Fits'
          BY <3>1, <3>3, <2>2, <1>a DEF RouteSettled
        <4> QED BY <4>1, <4>2, <1>b
      <3> QED BY <3>2, <3>3
    <2>5. CASE ~ReconcileReadAgent(p)
      <3>1. pc'[p] # "rc_accept"
        <4>1. CASE \E o : Return(p, o)
          BY <4>1, <1>a, ReturnLocals
        <4>2. CASE \E loc : loc # "rc_accept" /\ Goto(p, loc)
          BY <4>2, <1>a DEF Goto
        <4> QED BY <2>1, <2>5, <4>1, <4>2 DEF Resolve, ReconcileReadReceipt, ReconcileReadMarker,
              accept_pending_turn_start_notification, begin_pending_turn_start_containment,
              ContainDeleteThread, FinalizeContained, resolve_pending_turn_start
      <3>2. /\ UNCHANGED activeTurn \/ activeTurn' = NoTurn \/ pc[p] = "rc_accept"
            /\ turnRoute' = turnRoute \/ turnRoute' = [turnRoute EXCEPT ![snap[p]] = "match"]
        BY <2>1, <2>5 DEF Resolve, ReconcileReadReceipt, ReconcileReadMarker,
           accept_pending_turn_start_notification, begin_pending_turn_start_containment,
           ContainDeleteThread, FinalizeContained, resolve_pending_turn_start, store
      <3>3. Owed' => Owed
        BY <3>1, <3>2, <2>2, <2>3, <1>a
      <3>4. Fits'
        <4>1. SUFFICES ASSUME pc'["launcher"] = "rc_accept"
                       PROVE  pending_turn_route_matches(turnRoute'[snap'["launcher"]])
          OBVIOUS
        <4>2. pc["launcher"] = "rc_accept" /\ snap'["launcher"] = snap["launcher"]
          BY <4>1, <3>1, <2>2, <1>a
        <4>3. snap["launcher"] \in Turns /\ turnRoute \in [Turns -> Routes]
          BY <4>2, <1>a DEF ReadersExact, TInv, TypeOK, StoreTypes
        <4> QED BY <3>2, <4>2, <4>3 DEF RouteSettled, pending_turn_route_matches
      <3> QED BY <3>3, <3>4, <1>b
    <2> QED BY <2>4, <2>5
  <1>3. CASE project_turn_started
    <2>1. chan # <<>> /\ Head(chan).kind = "started" /\ chan' = Tail(chan) /\ UNCHANGED rpc
      BY <1>3 DEF TInv, PumpHolds, Started, project_turn_started
    <2>2. chan \in Seq(Notifications) /\ Len(chan) \in Nat /\ Len(chan) # 0 /\ Head(chan) = chan[1]
      BY <2>1 DEF TInv, TypeOK, ServerTypes
    <2>3. /\ Len(chan') = Len(chan) - 1
          /\ \A i \in 1..Len(chan') : chan'[i] = chan[i + 1]
      BY <2>1, <2>2, HeadTailProperties
    <2>4. \A i \in 1..Len(chan') : i + 1 \in 1..Len(chan) /\ i + 1 # 1
      BY <2>2, <2>3
    <2>5. 1 \in 1..Len(chan)
      BY <2>2
    <2>6. Heard'
      <3>1. rpc = "handled"
        BY <2>1, <2>2, <2>5 DEF OneTurn
      <3>2. \A i \in 1..Len(chan') : chan'[i].kind # "started"
        BY <2>1, <2>2, <2>3, <2>4, <2>5 DEF RouteSettled
      <3> QED BY <2>1, <3>1, <3>2 DEF Heard
    <2>7. ~Heard
      BY <2>1, <2>2, <2>5 DEF Heard
    <2>8. pc'["launcher"] = pc["launcher"]
      BY <1>3, <1>a DEF project_turn_started, Goto, Procs
    <2>9. pc["launcher"] # "rc_accept"
      BY <2>7, <1>a DEF RouteSettled, EndLocs
    <2> QED BY <2>6, <2>8, <2>9, <1>b
  <1>4. CASE MaintenanceReconcile \/ (Pump /\ ~project_turn_started) \/ Operator
             \/ GraceExpires \/ ServerStartTurn \/ ServerAnswer \/ ServerTurnEnds \/ ServerExit
    <2>1. /\ UNCHANGED turnRoute /\ activeTurn' \in {activeTurn, NoTurn}
          /\ snap'["launcher"] = snap["launcher"]
      BY <1>4 DEF MaintenanceReconcile, Pump, PumpTurnStarted,
         project_turn_completed, handle_turn_completed, PumpProcessExit, Operator, StopRun,
         StopInterrupt, StopFinish, GraceExpires, ServerStartTurn, ServerAnswer, ServerTurnEnds,
         ServerExit, reconcile_orphaned_sessions, store, procs
    <2>2. /\ pc'["launcher"] = pc["launcher"]
          /\ \A p \in Resolvers : pc'[p] = "rc_accept" => pc[p] = "rc_accept"
      <3>1. CASE UNCHANGED pc
        BY <3>1
      <3>2. CASE \E q \in Procs \ {"launcher"} : \E loc : loc # "rc_accept" /\ Goto(q, loc)
        BY <3>2, <1>a DEF Goto
      <3> QED BY <1>4, <3>1, <3>2 DEF MaintenanceReconcile, Pump, PumpTurnStarted,
         project_turn_completed, handle_turn_completed, PumpProcessExit, Operator, StopRun,
         StopInterrupt, StopFinish, GraceExpires, ServerStartTurn, ServerAnswer, ServerTurnEnds,
         ServerExit, procs, Procs
    <2> QED BY <2>1, <2>2, <1>b DEF RouteSettled
  <1>5. CASE CrashRestart
    <2>1. pc'["launcher"] = "l_done"
      BY <1>5, <1>a DEF CrashRestart
    <2> QED BY <2>1, <1>b DEF EndLocs
  <1> QED BY <1>1, <1>2, <1>3, <1>4, <1>5 DEF Next, Environment, Pump

-----------------------------------------------------------------------------
(* Whoever finds the receipt gone while the launch is not over finds the    *)
(* acknowledged turn active, notified and on the receipt's route.           *)
LEMMA GoneMeansActive ==
    ASSUME CInv, TInv, TurnStartAssumption, AckActive, ~receipt, ~Over, rpc # "none",
           pc["launcher"] \notin {"l_thread", "l_goal", "l_record"}
    PROVE  activeTurn = srvTurn /\ ExactTurn(srvTurn) /\ dels # 1
  <1>1. acks + dels = 1 /\ acks \in Nat /\ dels \in Nat
    BY DEF CInv, IInv, SentAfterReceipt, CustodyTypes
  <1>2. dels # 1
    BY DEF CInv, IInv, DeletedIsDead, Over
  <1>3. acks = 1
    BY <1>1, <1>2
  <1>4. srvTurn \in raw /\ turnRoute[srvTurn] = "match" /\ activeTurn = srvTurn
    BY <1>3 DEF AckActive
  <1>5. srvTurn # NoTurn
    BY <1>4 DEF TInv, TypeOK, StoreTypes, TurnStartAssumption
  <1> QED BY <1>2, <1>4, <1>5 DEF ExactTurn, pending_turn_route_matches

(* A FAILED session whose receipt is gone has no turn either.               *)
LEMMA FailedAndGone ==
    ASSUME CInv, FailedMeansOver, ~receipt, state = "FAILED" PROVE Over
  BY DEF CInv, IInv, CustodyTypes, ReceiptOpen, DeletedIsDead, FailedMeansOver, Over

(* start_agent fails only when its turn is over.                            *)
LEMMA FailureStep ==
    ASSUME CInv, TInv, TurnStartAssumption, OneTurn, ReadersExact, AckActive, FailedMeansOver,
           LauncherStage, RouteSettled, FailureIsOver, Next
    PROVE  FailureIsOver'
  <1>a. /\ Over => Over'
        /\ "launcher" \in Procs /\ "launcher" \in Resolvers /\ ProcTypes /\ pc \in [Procs -> Locs]
    BY OverStable DEF Procs, Resolvers, TInv, TypeOK, ProcTypes
  <1>b. ASSUME pc'["launcher"] \notin {"l_err", "l_err_task"} \/ Over PROVE FailureIsOver'
    BY <1>a, <1>b DEF FailureIsOver
  <1>c. ASSUME rpc = "none", UNCHANGED <<rpc, turnLive>> PROVE FailureIsOver'
    BY <1>c DEF CInv, IInv, SentAfterReceipt, FailureIsOver, Over, EndLocs
  <1>1. CASE Launcher
    <2>1. CASE LauncherStartThread \/ LauncherSetGoal
      <3>1. pc["launcher"] \in {"l_thread", "l_goal"} /\ UNCHANGED <<rpc, turnLive>>
        BY <2>1 DEF LauncherStartThread, LauncherSetGoal, server
      <3>2. rpc = "none"
        BY <3>1 DEF CInv, IInv, SentAfterReceipt
      <3> QED BY <3>1, <3>2, <1>c
    <2>2. CASE \/ record_pending_turn_start \/ LauncherSendTurnStart \/ LauncherTakeAnswer
               \/ ResponseReadMarker \/ ResponseReadAgent
      <3>1. pc'["launcher"] \notin {"l_err", "l_err_task"}
        BY <2>2, <1>a DEF record_pending_turn_start, LauncherSendTurnStart, LauncherTakeAnswer,
           ResponseReadMarker, ResponseReadAgent, Goto
      <3> QED BY <3>1, <1>b
    <2>3. CASE LauncherFailed
      <3>1. AnswerNamesTurn => Over \/ pc'["launcher"] = "l_done"
        BY <2>3, <1>a DEF LauncherFailed, FailureIsOver, Goto
      <3> QED BY <3>1, <1>a DEF FailureIsOver
    <2>4. CASE ResponseReadReceipt
      <3>1. UNCHANGED <<rpc, turnLive>> /\ pc["launcher"] = "rs_receipt"
        BY <2>4 DEF ResponseReadReceipt, server
      <3>2. CASE Goto("launcher", "rs_marker")
        BY <3>2, <1>a, <1>b DEF Goto
      <3>3. CASE ~receipt /\ Return("launcher",
                     IF state = "FAILED" THEN "Contained"
                     ELSE IF activeTurn = snap["launcher"] /\ ExactTurn(activeTurn)
                          THEN "Reconciled"
                          ELSE "AwaitingNotification")
        <4>1. CASE Over
          BY <4>1, <1>b
        <4>2. CASE ~Over /\ AnswerNamesTurn
          <5>1. rpc = "handled" /\ snap["launcher"] = srvTurn
            BY <3>1, <4>2 DEF ReadersExact, ResponseLocs
          <5>2. state # "FAILED"
            BY <3>3, <4>2, FailedAndGone
          <5>3. activeTurn = srvTurn /\ ExactTurn(srvTurn)
            BY <3>1, <3>3, <4>2, <5>1, GoneMeansActive
          <5>4. Return("launcher", "Reconciled")
            BY <3>3, <5>1, <5>2, <5>3
          <5>5. pc'["launcher"] \notin {"l_err", "l_err_task"}
            BY <5>4, <1>a, ReturnLocals
          <5> QED BY <5>5, <1>b
        <4>3. CASE ~AnswerNamesTurn
          BY <4>3 DEF FailureIsOver
        <4> QED BY <4>1, <4>2, <4>3
      <3> QED BY <2>4, <3>2, <3>3 DEF ResponseReadReceipt
    <2>5. CASE record_pending_turn_start_response
      <3>1. CASE \E loc \in {"rc_receipt", "ct_begin"} : Goto("launcher", loc)
        BY <3>1, <1>a, <1>b DEF Goto
      <3>2. CASE Return("launcher", "ResponseAcknowledged")
        BY <3>2, <1>a, <1>b, ReturnLocals
      <3> QED BY <2>5, <3>1, <3>2 DEF record_pending_turn_start_response
    <2> QED BY <1>1, <2>1, <2>2, <2>3, <2>4, <2>5 DEF Launcher
  <1>2. CASE \E p \in {"launcher", "pump", "maint"} : Resolve(p)
    <2>1. PICK p \in Resolvers : Resolve(p)
      BY <1>2 DEF Resolvers
    <2>2. CASE p # "launcher"
      <3>1. pc'["launcher"] = pc["launcher"]
        BY <2>1, <2>2, <1>a, ResolveMoves
      <3> QED BY <3>1, <1>a DEF FailureIsOver
    <2>3. CASE p = "launcher"
      <3>0. Resolve("launcher") /\ UNCHANGED rpc
        BY <2>1, <2>3, ResolveMoves
      <3>1. CASE \E loc \in ResolveLocs : Goto("launcher", loc)
        BY <3>1, <1>a, <1>b DEF Goto, ResolveLocs, ReconcileLocs, ContainLocs, FinalizeLocs
      <3>2. CASE ReconcileReadReceipt("launcher")
        <4>1. UNCHANGED turnLive /\ pc["launcher"] = "rc_receipt"
          BY <3>2 DEF ReconcileReadReceipt, server
        <4>2. CASE receipt
          BY <3>1, <3>2, <4>2 DEF ReconcileReadReceipt, ResolveLocs, ReconcileLocs
        <4>3. CASE rpc = "none" \/ Over
          BY <3>0, <4>1, <4>3, <1>b, <1>c
        <4>4. CASE ~receipt /\ rpc # "none" /\ ~Over
          <5>1. state # "FAILED"
            BY <4>4, FailedAndGone
          <5>2. activeTurn = srvTurn /\ ExactTurn(srvTurn)
            BY <4>1, <4>4, GoneMeansActive
          <5>3. Return("launcher", "Reconciled")
            BY <3>2, <4>4, <5>1, <5>2 DEF ReconcileReadReceipt
          <5> QED BY <5>3, <1>a, <1>b, ReturnLocals
        <4> QED BY <4>2, <4>3, <4>4
      <3>3. CASE ReconcileReadAgent("launcher")
        <4>1. stage["launcher"] = "first"
          BY <3>3 DEF ReconcileReadAgent, LauncherStage
        <4>2. CASE Return("launcher", "AwaitingNotification")
          BY <4>1, <4>2, <1>a, <1>b, ReturnLocals
        <4> QED BY <3>1, <3>3, <4>2 DEF ReconcileReadAgent, ResolveLocs, ReconcileLocs, ContainLocs
      <3>4. CASE accept_pending_turn_start_notification("launcher")
        <4>1. snap["launcher"] \in raw /\ pc["launcher"] = "rc_accept"
          BY <3>4, <1>a DEF accept_pending_turn_start_notification, ReadersExact
        <4>2. snap["launcher"] = srvTurn /\ rpc # "none"
          BY <4>1 DEF OneTurn
        <4>3. CASE receipt
          <5>1. CASE Return("launcher", "Reconciled")
            BY <5>1, <1>a, <1>b, ReturnLocals
          <5>2. pending_turn_route_matches(turnRoute[snap["launcher"]])
            BY <4>1 DEF RouteSettled
          <5> QED BY <3>1, <3>4, <4>3, <5>1, <5>2
              DEF accept_pending_turn_start_notification, ResolveLocs, ContainLocs
        <4>4. CASE ~receipt /\ ~Over
          <5>1. activeTurn = srvTurn /\ ExactTurn(srvTurn)
            BY <4>1, <4>2, <4>4, GoneMeansActive
          <5>2. Return("launcher", "Reconciled")
            BY <3>4, <4>2, <4>4, <5>1 DEF accept_pending_turn_start_notification
          <5> QED BY <5>2, <1>a, <1>b, ReturnLocals
        <4> QED BY <4>3, <4>4, <1>b
      <3>5. CASE ContainDeleteThread("launcher")
        <4>1. CASE Return("launcher", "ContainmentPending")
          BY <4>1, <1>a, <1>b, ReturnLocals
        <4> QED BY <3>1, <3>5, <4>1 DEF ContainDeleteThread, ResolveLocs, FinalizeLocs
      <3>6. CASE resolve_pending_turn_start("launcher")
        <4>1. thread = "deleted" /\ ~turnLive
          BY <3>6, <1>a DEF resolve_pending_turn_start, FinalizeLocs, CInv, IInv, DeletedIsDead
        <4> QED BY <4>1, <1>b DEF Over
      <3>7. CASE \/ ReconcileReadMarker("launcher") \/ begin_pending_turn_start_containment("launcher")
                 \/ FinalizeContained("launcher")
        BY <3>1, <3>7 DEF ReconcileReadMarker, begin_pending_turn_start_containment, FinalizeContained,
           ResolveLocs, ReconcileLocs, ContainLocs, FinalizeLocs
      <3> QED BY <3>0, <3>2, <3>3, <3>4, <3>5, <3>6, <3>7 DEF Resolve
    <2> QED BY <2>2, <2>3
  <1>3. CASE MaintenanceReconcile \/ Pump \/ Operator \/ GraceExpires \/ ServerStartTurn
             \/ ServerAnswer \/ ServerTurnEnds \/ ServerExit
    <2>1. pc'["launcher"] = pc["launcher"]
      BY <1>3, <1>a DEF MaintenanceReconcile, Pump, PumpTurnStarted, project_turn_started,
         project_turn_completed, handle_turn_completed, PumpProcessExit, Operator, StopRun,
         StopInterrupt, StopFinish, GraceExpires, ServerStartTurn, ServerAnswer, ServerTurnEnds,
         ServerExit, Goto, procs
    <2> QED BY <2>1, <1>a DEF FailureIsOver
  <1>4. CASE CrashRestart
    BY <1>4, <1>a, <1>b DEF CrashRestart
  <1> QED BY <1>1, <1>2, <1>3, <1>4 DEF Next, Environment

(* Nobody gives the leases up before that, unless the run is stopped.       *)
LEMMA LeaseStep ==
    ASSUME CInv, TInv, EndMeansOver, FailureIsOver, LeaseLostIsOver, Next
    PROVE  LeaseLostIsOver'
  <1>a. /\ Over => Over'
        /\ "launcher" \in Procs /\ run \in RunStates
    BY OverStable DEF Procs, TInv, TypeOK, StoreTypes
  <1>b. ASSUME run' = "EXECUTING" => run = "EXECUTING",
               lease' = lease \/ run' # "EXECUTING" \/ (AnswerNamesTurn => Over)
        PROVE  LeaseLostIsOver'
    BY <1>a, <1>b DEF LeaseLostIsOver
  <1>1. CASE Launcher
    <2>1. UNCHANGED run
      BY <1>1 DEF Launcher, LauncherStartThread, LauncherSetGoal, record_pending_turn_start,
         LauncherSendTurnStart, LauncherTakeAnswer, ResponseReadReceipt, ResponseReadMarker,
         ResponseReadAgent, record_pending_turn_start_response, LauncherFailed, store
    <2>2. UNCHANGED lease \/ pc["launcher"] = "l_err"
      BY <1>1 DEF Launcher, LauncherStartThread, LauncherSetGoal, record_pending_turn_start,
         LauncherSendTurnStart, LauncherTakeAnswer, ResponseReadReceipt, ResponseReadMarker,
         ResponseReadAgent, record_pending_turn_start_response, LauncherFailed, store
    <2> QED BY <2>1, <2>2, <1>b DEF FailureIsOver
  <1>2. CASE \E p \in {"launcher", "pump", "maint"} : Resolve(p)
    <2>1. PICK p \in Resolvers : Resolve(p)
      BY <1>2 DEF Resolvers
    <2>2. UNCHANGED run
      BY <2>1, ResolveMoves
    <2>3. CASE FinalizeContained(p)
      <3>1. thread = "deleted" /\ ~turnLive
        BY <2>3 DEF FinalizeContained, FinalizeLocs, CInv, IInv, DeletedIsDead
      <3> QED BY <2>2, <3>1, <1>b DEF Over
    <2>4. CASE ~FinalizeContained(p)
      <3>1. UNCHANGED lease
        BY <2>1, <2>4 DEF Resolve, ReconcileReadReceipt, ReconcileReadMarker, ReconcileReadAgent,
           accept_pending_turn_start_notification, begin_pending_turn_start_containment,
           ContainDeleteThread, resolve_pending_turn_start, store
      <3> QED BY <2>2, <3>1, <1>b
    <2> QED BY <2>3, <2>4
  <1>3. CASE handle_turn_completed
    <2>1. chan # <<>> /\ Head(chan).kind = "completed"
      BY <1>3 DEF handle_turn_completed, TInv, PumpHolds, Completed
    <2>2. Over
      BY <2>1, HeadIsFirst DEF EndMeansOver
    <2>3. run' = run \/ run' = "CANCELED"
      BY <1>3 DEF handle_turn_completed, FinishStopping
    <2> QED BY <2>2, <2>3, <1>b
  <1>4. CASE Operator
    <2>1. /\ run' = run \/ run' \in {"STOPPING", "CANCELED"}
          /\ lease' = lease \/ run' = "CANCELED"
      BY <1>4 DEF Operator, StopRun, StopInterrupt, StopFinish, FinishStopping
    <2> QED BY <2>1, <1>b
  <1>5. CASE \/ MaintenanceReconcile \/ Environment \/ PumpTurnStarted \/ project_turn_started
             \/ project_turn_completed \/ PumpProcessExit
    <2>1. UNCHANGED <<run, lease>>
      BY <1>5 DEF MaintenanceReconcile, Environment, PumpTurnStarted, project_turn_started,
         project_turn_completed, PumpProcessExit, GraceExpires, ServerStartTurn, ServerAnswer,
         ServerTurnEnds, ServerExit, CrashRestart, store
    <2> QED BY <2>1, <1>b
  <1> QED BY <1>1, <1>2, <1>3, <1>4, <1>5 DEF Next, Pump

-----------------------------------------------------------------------------
LEMMA LInvInit == ASSUME Init PROVE LInv
  <1>1. /\ raw = {} /\ reply = "none" /\ chan = <<>> /\ acks = 0 /\ state = "STARTING"
        /\ lease = TRUE /\ receipt = FALSE
        /\ pc = [p \in Procs |-> IF p = "launcher" THEN "l_thread" ELSE "idle"]
        /\ stage = [p \in Procs |-> "first"]
    BY DEF Init
  <1>2. /\ pc["launcher"] = "l_thread" /\ pc["pump"] = "idle" /\ stage["launcher"] = "first"
        /\ \A p \in Resolvers : pc[p] # "rc_accept"
    BY <1>1 DEF Procs, Resolvers
  <1>3. 1..Len(chan) = {}
    BY <1>1
  <1>4. OneTurn /\ EndMeansOver
    BY <1>1, <1>2, <1>3 DEF OneTurn, EndMeansOver
  <1>5. ReadersExact
    BY <1>1, <1>2, TurnStartAssumption DEF ReadersExact, ResponseLocs, TurnStartAssumption
  <1>6. AckActive /\ FailedMeansOver /\ LauncherStage /\ FailureIsOver /\ LeaseLostIsOver
    BY <1>1, <1>2 DEF AckActive, FailedMeansOver, LauncherStage, FailureIsOver, LeaseLostIsOver
  <1>7. RouteSettled
    BY <1>1, <1>2, <1>3 DEF RouteSettled, Init
  <1> QED BY <1>4, <1>5, <1>6, <1>7 DEF LInv

LEMMA LInvNext == ASSUME CInv, TInv, LInv, TurnStartAssumption, [Next]_vars PROVE LInv'
  <1>1. CASE Next
    BY <1>1, PipeStep, ReadersStep, AckStep, FailedStep, StageStep, RouteStep,
       FailureStep, LeaseStep DEF LInv
  <1>2. CASE UNCHANGED vars
    <2>1. UNCHANGED <<turnLive, thread, rpc, pc, raw, srvTurn, reply, chan, snap, acks, turnRoute,
                      activeTurn, state, initiated, stage, receipt, lease, run>>
      BY <1>2 DEF vars, store, procs, server
    <2>2. Over' <=> Over
      BY <2>1 DEF Over
    <2> QED BY <2>1, <2>2 DEF LInv, OneTurn, EndMeansOver, ReadersExact, AckActive, FailedMeansOver,
          LauncherStage, RouteSettled, Heard, FailureIsOver, LeaseLostIsOver
  <1> QED BY <1>1, <1>2

LEMMA LInvAlways == Spec => []LInv
  <1>1. CInv /\ TInv /\ LInv /\ [Next]_vars => LInv'
    BY LInvNext, TurnStartAssumption
  <1> QED BY <1>1, LInvInit, CInvAlways, TInvAlways, PTL DEF Spec

-----------------------------------------------------------------------------
(* An RPC answer alone never resolves a receipt: an acknowledged start has  *)
(* its raw turn/started notification on record, whatever the App Server     *)
(* answers.                                                                 *)
THEOREM AcknowledgedTurnObservedHolds == Spec => []AcknowledgedTurnObserved
  <1>1. LInv => AcknowledgedTurnObserved
    BY DEF LInv, AckActive, AcknowledgedTurnObserved
  <1> QED BY <1>1, LInvAlways, PTL

(* If answers name the turn that was started, then start_agent never        *)
(* reports a failure while its turn may still run.                          *)
THEOREM ReportsTruthfulHolds == AnswerNamesTurn => (Spec => []ReportsTruthful)
  <1> SUFFICES ASSUME AnswerNamesTurn PROVE Spec => []ReportsTruthful
    OBVIOUS
  <1>1. LInv => ReportsTruthful
    BY DEF LInv, AckActive, FailureIsOver, Over, AcknowledgedTurnObserved, FailureMeansNoTurn,
           ReportsTruthful
  <1> QED BY <1>1, LInvAlways, PTL

(* ... and the attempt holds its write leases for as long as its turn may   *)
(* run, unless the operator stops the run.                                  *)
THEOREM LeaseCoversTurnHolds == AnswerNamesTurn => (Spec => []LeaseCoversTurn)
  <1> SUFFICES ASSUME AnswerNamesTurn PROVE Spec => []LeaseCoversTurn
    OBVIOUS
  <1>1. LInv /\ TInv => LeaseCoversTurn
    BY DEF LInv, LeaseLostIsOver, Over, LeaseCoversTurn, TInv, TypeOK, StoreTypes
  <1> QED BY <1>1, LInvAlways, TInvAlways, PTL

-----------------------------------------------------------------------------
(* The refinement.  Nothing is acknowledged before the request is handled.  *)
LEMMA UnhandledIsOpen ==
    ASSUME CInv, LInv, rpc = "sent", thread = "live" PROVE receipt
  <1>1. pc["launcher"] \notin {"l_thread", "l_goal", "l_record"}
    BY DEF CInv, IInv, SentAfterReceipt
  <1>2. acks # 1 /\ dels # 1
    BY DEF CInv, IInv, DeletedIsDead, LInv, OneTurn, AckActive
  <1>3. acks \in Nat /\ dels \in Nat
    BY DEF CInv, CustodyTypes
  <1>4. acks + dels # 1
    BY <1>2, <1>3
  <1> QED BY <1>1, <1>4 DEF CInv, IInv, SentAfterReceipt

(* What a step does to the rows the custody phase is read from: nothing,    *)
(* the receipt's write, its acknowledgement, the decision to contain, or    *)
(* its resolution once the thread is gone.                                  *)
LEMMA CustodyEffect ==
    ASSUME CInv, TInv, LInv, Next
    PROVE  \/ /\ UNCHANGED <<receipt, marker, acks, dels>>
              /\ \/ turnLive' = turnLive \/ turnLive' = FALSE
                 \/ turnLive' = TRUE /\ receipt
           \/ /\ ~receipt /\ acks = 0 /\ dels = 0 /\ receipt' = TRUE
              /\ UNCHANGED <<marker, acks, dels, turnLive>>
           \/ /\ receipt /\ ~marker /\ receipt' = FALSE /\ acks' = acks + 1
              /\ UNCHANGED <<marker, dels, turnLive>>
           \/ /\ receipt /\ marker' = TRUE /\ UNCHANGED <<receipt, acks, dels, turnLive>>
           \/ /\ receipt /\ marker /\ ~turnLive /\ receipt' = FALSE /\ marker' = FALSE
              /\ dels' = dels + 1 /\ UNCHANGED <<acks, turnLive>>
  <1> DEFINE Idle == /\ UNCHANGED <<receipt, marker, acks, dels>>
                     /\ \/ turnLive' = turnLive \/ turnLive' = FALSE
                        \/ turnLive' = TRUE /\ receipt
  <1>1. CASE Launcher
    <2>1. CASE record_pending_turn_start
      BY <2>1 DEF record_pending_turn_start, server, CInv, IInv, SentAfterReceipt
    <2>2. CASE ~record_pending_turn_start
      <3>1. Idle
        BY <1>1, <2>2 DEF Launcher, LauncherStartThread, LauncherSetGoal, LauncherSendTurnStart,
           LauncherTakeAnswer, ResponseReadReceipt, ResponseReadMarker, ResponseReadAgent,
           record_pending_turn_start_response, LauncherFailed, store, server
      <3> QED BY <3>1
    <2> QED BY <2>1, <2>2
  <1>2. CASE \E p \in {"launcher", "pump", "maint"} : Resolve(p)
    <2>1. PICK p \in Resolvers : Resolve(p)
      BY <1>2 DEF Resolvers
    <2>2. CASE accept_pending_turn_start_notification(p)
      BY <2>2 DEF accept_pending_turn_start_notification, store, server
    <2>3. CASE begin_pending_turn_start_containment(p)
      BY <2>3 DEF begin_pending_turn_start_containment, server
    <2>4. CASE resolve_pending_turn_start(p)
      <3>1. pc[p] = "fz_resolve" /\ UNCHANGED <<acks, turnLive>>
        BY <2>4 DEF resolve_pending_turn_start, server
      <3>2. ~turnLive /\ (receipt => marker)
        BY <3>1 DEF CInv, IInv, DeletedIsDead, DecisionIsDurable, FinalizeLocs, ReceiptOpen
      <3> QED BY <2>4, <3>1, <3>2 DEF resolve_pending_turn_start
    <2>5. CASE \/ ReconcileReadReceipt(p) \/ ReconcileReadMarker(p) \/ ReconcileReadAgent(p)
               \/ ContainDeleteThread(p) \/ FinalizeContained(p)
      <3>1. Idle
        BY <2>5 DEF ReconcileReadReceipt, ReconcileReadMarker, ReconcileReadAgent, ContainDeleteThread,
           FinalizeContained, store, server
      <3> QED BY <3>1
    <2> QED BY <2>1, <2>2, <2>3, <2>4, <2>5 DEF Resolve
  <1>3. CASE MaintenanceReconcile \/ Pump \/ Operator
    <2>1. Idle
      BY <1>3 DEF MaintenanceReconcile, Pump, PumpTurnStarted, project_turn_started,
         project_turn_completed, handle_turn_completed, PumpProcessExit, Operator, StopRun,
         StopInterrupt, StopFinish, store, server
    <2> QED BY <2>1
  <1>4. CASE Environment
    <2>1. CASE ServerStartTurn
      BY <2>1, UnhandledIsOpen DEF ServerStartTurn, store
    <2>2. CASE ~ServerStartTurn
      <3>1. Idle
        BY <1>4, <2>2 DEF Environment, GraceExpires, ServerAnswer, ServerTurnEnds, ServerExit,
           CrashRestart, store, server
      <3> QED BY <3>1
    <2> QED BY <2>1, <2>2
  <1> QED BY <1>1, <1>2, <1>3, <1>4 DEF Next

LEMMA CustodyStep ==
    ASSUME CInv, TInv, LInv, [Next]_vars
    PROVE  [Custody!CustodyNext]_(Custody!custodyVars)
  <1>a. /\ receipt \in BOOLEAN /\ marker \in BOOLEAN /\ turnLive \in BOOLEAN
        /\ receipt => acks = 0 /\ dels = 0
        /\ marker => receipt
    BY DEF CInv, CustodyTypes, IInv, ReceiptOpen
  <1> USE DEF Custody!custodyVars, custodyPhase
  <1>1. CASE UNCHANGED vars
    BY <1>1 DEF vars, store, server
  <1>2. CASE UNCHANGED <<receipt, marker, acks, dels>> /\ (turnLive' = turnLive \/ turnLive' = FALSE)
    BY <1>2, <1>a DEF Custody!CustodyNext, Custody!TurnEnds
  <1>3. CASE UNCHANGED <<receipt, marker, acks, dels>> /\ turnLive' = TRUE /\ receipt
    BY <1>3, <1>a DEF Custody!CustodyNext, Custody!TurnBegins
  <1>4. CASE /\ ~receipt /\ acks = 0 /\ dels = 0 /\ receipt' = TRUE
             /\ UNCHANGED <<marker, acks, dels, turnLive>>
    BY <1>4, <1>a DEF Custody!CustodyNext, Custody!WriteReceipt
  <1>5. CASE /\ receipt /\ ~marker /\ receipt' = FALSE /\ acks' = acks + 1
             /\ UNCHANGED <<marker, dels, turnLive>>
    BY <1>5, <1>a DEF Custody!CustodyNext, Custody!Acknowledge
  <1>6. CASE receipt /\ marker' = TRUE /\ UNCHANGED <<receipt, acks, dels, turnLive>>
    BY <1>6, <1>a DEF Custody!CustodyNext, Custody!DecideContainment
  <1>7. CASE /\ receipt /\ marker /\ ~turnLive /\ receipt' = FALSE /\ marker' = FALSE
             /\ dels' = dels + 1 /\ UNCHANGED <<acks, turnLive>>
    BY <1>7, <1>a DEF Custody!CustodyNext, Custody!Contain
  <1> QED BY <1>1, <1>2, <1>3, <1>4, <1>5, <1>6, <1>7, CustodyEffect

(* Every interleaving of the four tasks, the crashes and the App Server is  *)
(* a behaviour of the custody specification.                                *)
THEOREM ImplementsCustodyHolds == Spec => ImplementsCustody
  <1>1. Init => Custody!CustodyInit
    BY DEF Init, custodyPhase, Custody!CustodyInit
  <1>2. CInv /\ TInv /\ LInv /\ [Next]_vars => [Custody!CustodyNext]_(Custody!custodyVars)
    BY CustodyStep
  <1> QED BY <1>1, <1>2, CInvAlways, TInvAlways, LInvAlways, PTL
      DEF Spec, ImplementsCustody, Custody!CustodySpec
=============================================================================
