----------------------- MODULE NativeLabEngine_proofs -----------------------
(***************************************************************************)
(* Proofs about the two halves of the native lab engine: about its         *)
(* lifecycle (NativeLabEngine), for every number of appliances, and, from  *)
(* the rule below ActiveAppliancesRun and RunningIsBooted on, about its    *)
(* frame fabric (NativeFabric), for every project, delay and bound.        *)
(***************************************************************************)
EXTENDS NativeLabEngine, NativeFabric, FiniteSetTheorems, WellFoundedInduction, TLAPS

(* Where a call may await, as the types of `task` see it.                     *)
LEMMA TaskTypes ==
  ASSUME NEW t \in [Ops -> Awaits], NEW op \in Ops,
         NEW pc \in {"idle", "init", "boot", "cleanup", "stop", "dispose", "down", "up", "iface"},
         NEW n \in Nodes \cup {0}
  PROVE  /\ [t EXCEPT ![op] = At(pc, n)] \in [Ops -> Awaits]
         /\ [t EXCEPT ![op] = Idle] \in [Ops -> Awaits]
BY DEF Awaits, At, Idle

LEMMA OpsFacts ==
  /\ Calls = {"start", "pause", "stop", "dispose"} \cup Toggles
  /\ Ops = {"start", "pause", "stop", "dispose", "cleanup"} \cup Toggles
  /\ "start" \in Ops /\ "pause" \in Ops /\ "stop" \in Ops /\ "dispose" \in Ops /\ "cleanup" \in Ops
  /\ "start" \in Calls /\ "pause" \in Calls /\ "stop" \in Calls /\ "dispose" \in Calls
  /\ \A t \in Toggles : /\ t \in Ops /\ t \in Calls
                        /\ t # "start" /\ t # "pause" /\ t # "stop" /\ t # "dispose" /\ t # "cleanup"
BY EngineAssumption DEF Ops, Calls, Methods

(* While no call but that of one method is outstanding, no toggle is.         *)
LEMMA TogglesIdle ==
  ASSUME NEW f, NEW op \in {"start", "pause", "stop", "dispose"},
         \A o \in Calls \ {op} : f[o] = Idle
  PROVE  \A t \in Toggles : f[t] = Idle /\ f[t].pc = "idle"
<1> SUFFICES ASSUME NEW t \in Toggles PROVE f[t] = Idle /\ f[t].pc = "idle"
  OBVIOUS
<1>1. t \in Calls \ {op}
  BY OpsFacts
<1>2. f[t] = Idle
  BY <1>1
<1> QED BY <1>2 DEF Idle

(* BeginCleanup keeps `task` and `cleanup` well typed.                        *)
LEMMA BeginCleanupType ==
  ASSUME TypeOK, NEW t \in [Ops -> Awaits], NEW r, BeginCleanup(t, r)
  PROVE  /\ task' \in [Ops -> Awaits]
         /\ cleanup' \in {"none", "running", "done"}
<1>1. CASE cleanup # "none"
  BY <1>1 DEF TypeOK, BeginCleanup
<1>2. CASE cleanup = "none" /\ inMap = {}
  BY <1>2 DEF TypeOK, BeginCleanup
<1>3. CASE cleanup = "none" /\ inMap # {}
  <2>1. PICK j \in inMap : task' = [t EXCEPT !["cleanup"] = ReleaseAt(j, r)]
    BY <1>3 DEF BeginCleanup
  <2>2. j \in Nodes /\ "cleanup" \in Ops
    BY DEF TypeOK, Ops
  <2>3. task' \in [Ops -> Awaits]
    BY <2>1, <2>2, TaskTypes DEF ReleaseAt
  <2> QED BY <1>3, <2>3 DEF BeginCleanup
<1> QED BY <1>1, <1>2, <1>3

LEMMA StartThrowsType ==
  ASSUME TypeOK, NEW r, StartThrows(r)
  PROVE  /\ task' \in [Ops -> Awaits]
         /\ cleanup' \in {"none", "running", "done"}
         /\ state' \in EngineStates
<1>1. [task EXCEPT !["start"] = At("cleanup", 0)] \in [Ops -> Awaits]
  BY TaskTypes, OpsFacts DEF TypeOK
<1> QED BY <1>1, BeginCleanupType DEF StartThrows, EngineStates

LEMMA ReleaseLoopType ==
  ASSUME TypeOK, NEW op \in Ops, NEW k, NEW r, ReleaseLoop(op, k, r)
  PROVE  /\ task' \in [Ops -> Awaits]
         /\ cleanup' \in {"none", "running", "done"}
         /\ state' \in EngineStates
         /\ inMap' \in SUBSET Nodes
         /\ pend' \in SUBSET Nodes
<1>1. CASE \E j \in inMap :
             /\ First(j, After(k, inMap))
             /\ task' = [task EXCEPT ![op] = ReleaseAt(j, r)]
             /\ UNCHANGED <<state, inMap, pend, cleanup>>
  <2>1. PICK j \in inMap : task' = [task EXCEPT ![op] = ReleaseAt(j, r)]
    BY <1>1
  <2>2. j \in Nodes
    BY DEF TypeOK
  <2>3. task' \in [Ops -> Awaits]
    BY <2>1, <2>2, TaskTypes DEF ReleaseAt, TypeOK
  <2> QED BY <1>1, <2>3 DEF TypeOK
<1>2. CASE After(k, inMap) = {} /\ task' = [task EXCEPT ![op] = Idle] /\ inMap' = {}
           /\ IF op = "cleanup"
              THEN cleanup' = "done" /\ UNCHANGED <<state, pend>>
              ELSE state' = "disposed" /\ pend' = {} /\ UNCHANGED cleanup
  <2>1. task' \in [Ops -> Awaits]
    BY <1>2, TaskTypes DEF TypeOK
  <2> QED BY <1>2, <2>1 DEF TypeOK, EngineStates
<1> QED BY <1>1, <1>2 DEF ReleaseLoop, Released

LEMMA StopLoopType ==
  ASSUME TypeOK, NEW op \in Ops, NEW k, NEW r,
         NEW transient \in EngineStates, NEW final \in EngineStates,
         StopLoop(op, k, transient, final, r)
  PROVE  /\ task' \in [Ops -> Awaits]
         /\ state' \in EngineStates
         /\ active' \in [Nodes -> BOOLEAN]
<1>1. active' \in [Nodes -> BOOLEAN] /\ state' \in EngineStates
  BY DEF StopLoop, TypeOK
<1>2. task' = [task EXCEPT ![op] = Idle] \/ \E j \in inMap : task' = [task EXCEPT ![op] = At("stop", j)]
  BY DEF StopLoop, After
<1>3. task' \in [Ops -> Awaits]
  BY <1>2, TaskTypes DEF TypeOK
<1> QED BY <1>1, <1>3

LEMMA BootFromType ==
  ASSUME TypeOK, NEW k, NEW st \in EngineStates, NEW r \in [Nodes -> RuntimeStates],
         BootFrom(k, st, r), slots' \in SUBSET Nodes
  PROVE  TypeOK'
<1>1. active' \in [Nodes -> BOOLEAN] /\ rt' \in [Nodes -> RuntimeStates]
  BY DEF BootFrom, TypeOK
<1>2. inMap' \in SUBSET Nodes /\ nodeUp' \in [Nodes -> BOOLEAN] /\ stopFailed' \in SUBSET Nodes
  BY DEF BootFrom, TypeOK, machine
<1>3. CASE \E a : EnterRunning(a, r)
  <2>0. PICK a : EnterRunning(a, r)
    BY <1>3
  <2>1. PICK due \in SUBSET pend :
          /\ pend' = pend \ due
          /\ \/ /\ Rejects(due, a, r)
                /\ StartThrows(r)
                /\ UNCHANGED timer
             \/ /\ ~Rejects(due, a, r)
                /\ state' = "running"
                /\ timer' = (pend \ due # {})
                /\ task' = [task EXCEPT !["start"] = Idle]
                /\ UNCHANGED cleanup
    BY <2>0 DEF EnterRunning
  <2>2. pend' \in SUBSET Nodes
    BY <2>1 DEF TypeOK
  <2>3. timer' \in BOOLEAN
    BY <2>1 DEF TypeOK
  <2>4. [task EXCEPT !["start"] = Idle] \in [Ops -> Awaits]
    BY TaskTypes, OpsFacts DEF TypeOK
  <2>5. state' \in EngineStates /\ task' \in [Ops -> Awaits] /\ cleanup' \in {"none", "running", "done"}
    BY <2>1, <2>4, StartThrowsType DEF TypeOK, EngineStates
  <2> QED BY <1>1, <1>2, <2>2, <2>3, <2>5 DEF TypeOK
<1>4. CASE /\ UNCHANGED fabric
           /\ \/ /\ state' = st
                 /\ \E j \in inMap : task' = [task EXCEPT !["start"] = At("boot", j)]
                 /\ UNCHANGED cleanup
              \/ StartThrows(r)
  <2>1. pend' \in SUBSET Nodes /\ timer' \in BOOLEAN
    BY <1>4 DEF TypeOK, fabric
  <2>2. \A j \in inMap : [task EXCEPT !["start"] = At("boot", j)] \in [Ops -> Awaits]
    BY TaskTypes, OpsFacts DEF TypeOK
  <2>3. state' \in EngineStates /\ task' \in [Ops -> Awaits] /\ cleanup' \in {"none", "running", "done"}
    BY <1>4, <2>2, StartThrowsType DEF TypeOK
  <2> QED BY <1>1, <1>2, <2>1, <2>3 DEF TypeOK
<1>5. (\E a : EnterRunning(a, r))
      \/ (/\ UNCHANGED fabric
          /\ \/ /\ state' = st
                /\ \E j \in inMap : task' = [task EXCEPT !["start"] = At("boot", j)]
                /\ UNCHANGED cleanup
             \/ StartThrows(r))
  BY DEF BootFrom, After
<1> QED BY <1>3, <1>4, <1>5

LEMMA ConstructType ==
  ASSUME TypeOK, NEW n \in Nodes, NEW st \in EngineStates, NEW r \in [Nodes -> RuntimeStates],
         Construct(n, st, r)
  PROVE  TypeOK'
<1>1. task' \in [Ops -> Awaits]
  BY TaskTypes, OpsFacts DEF Construct, TypeOK
<1> QED BY <1>1 DEF TypeOK, Construct, fabric, RuntimeStates

LEMMA FailType ==
  ASSUME TypeOK, NEW S, NEW t \in [Ops -> Awaits], Fail(S, t)
  PROVE  TypeOK'
<1> DEFINE r == [n \in Nodes |-> IF n \in S THEN "failed" ELSE rt[n]]
<1>1. rt' \in [Nodes -> RuntimeStates] /\ active' \in [Nodes -> BOOLEAN]
  BY DEF Fail, TypeOK, RuntimeStates
<1>2. /\ state' \in EngineStates
      /\ timer' \in BOOLEAN
  BY DEF Fail, TypeOK, EngineStates
<1>3. BeginCleanup(t, r) \/ (task' = t /\ UNCHANGED cleanup)
  BY DEF Fail
<1>4. task' \in [Ops -> Awaits] /\ cleanup' \in {"none", "running", "done"}
  BY <1>3, BeginCleanupType DEF TypeOK
<1> QED BY <1>1, <1>2, <1>4 DEF Fail, TypeOK, machine

(* The first value of every variable has its type.                            *)
LEMMA InitType == Init => TypeOK
<1> SUFFICES ASSUME Init PROVE TypeOK
  OBVIOUS
<1>1. task \in [Ops -> Awaits]
  BY DEF Init, Idle, Awaits
<1> QED BY <1>1 DEF Init, TypeOK, EngineStates, RuntimeStates

(* start() and the settling of its awaits.                                    *)
LEMMA StartType ==
  ASSUME TypeOK, Start \/ StartSettles
  PROVE  TypeOK'
<1>1. CASE Start
  <2>1. 1 \in Nodes /\ "starting" \in EngineStates
    BY EngineAssumption DEF Nodes, EngineStates
  <2>2. CASE inMap = {}
    BY <1>1, <2>1, <2>2, ConstructType DEF Start, TypeOK
  <2>3. CASE inMap # {}
    <3>1. BootFrom(0, "starting", rt)
      BY <1>1, <2>3 DEF Start
    <3>2. slots' \in SUBSET Nodes
      BY <3>1 DEF BootFrom, machine, TypeOK
    <3> QED BY <2>1, <3>1, <3>2, BootFromType DEF TypeOK
  <2> QED BY <2>2, <2>3
<1>2. CASE StartRejects
  <2>1. task' \in [Ops -> Awaits]
    BY <1>2, TaskTypes, OpsFacts DEF StartRejects, TypeOK
  <2> QED BY <1>2, <2>1 DEF StartRejects, TypeOK, fabric, machine
<1>3. ASSUME NEW n \in Nodes, InitResolves(n) PROVE TypeOK'
  <2> DEFINE r == [rt EXCEPT ![n] = "initialized"]
  <2>1. r \in [Nodes -> RuntimeStates] /\ state \in EngineStates
    BY DEF TypeOK, RuntimeStates
  <2>2. CASE n < N
    <3>1. n + 1 \in Nodes /\ Construct(n + 1, state, r)
      BY <1>3, <2>2, EngineAssumption DEF InitResolves, Nodes
    <3> QED BY <2>1, <3>1, ConstructType
  <2>3. CASE ~(n < N)
    <3>1. BootFrom(n, state, r) \/ BootFrom(0, state, r)
      BY <1>3, <2>3 DEF InitResolves
    <3>2. slots' \in SUBSET Nodes
      BY <3>1 DEF BootFrom, machine, TypeOK
    <3> QED BY <2>1, <3>1, <3>2, BootFromType
  <2> QED BY <2>2, <2>3
<1>4. ASSUME NEW n \in Nodes, BootResolves(n) PROVE TypeOK'
  <2> DEFINE r == [rt EXCEPT ![n] = "running"]
  <2>1. r \in [Nodes -> RuntimeStates] /\ state \in EngineStates
    BY DEF TypeOK, RuntimeStates
  <2>2. CASE BootFrom(n, state, r)
    <3>1. slots' \in SUBSET Nodes
      BY <2>2 DEF BootFrom, machine, TypeOK
    <3> QED BY <2>1, <2>2, <3>1, BootFromType
  <2>3. CASE rt' = r /\ StartThrows(r) /\ UNCHANGED <<inMap, active, nodeUp, fabric, machine>>
    BY <2>1, <2>3, StartThrowsType DEF TypeOK, fabric, machine
  <2> QED BY <1>4, <2>2, <2>3 DEF BootResolves
<1>5. ASSUME NEW n \in Nodes, StartCallRejects(n) PROVE TypeOK'
  <2> DEFINE r == [rt EXCEPT ![n] = "failed"]
  <2>1. r \in [Nodes -> RuntimeStates]
    BY DEF TypeOK, RuntimeStates
  <2>2. StartThrows(r) /\ rt' = r /\ UNCHANGED <<inMap, nodeUp, pend, machine>>
    BY <1>5 DEF StartCallRejects
  <2>3. active' \in [Nodes -> BOOLEAN] /\ timer' \in BOOLEAN
    BY <1>5 DEF StartCallRejects, TypeOK
  <2> QED BY <2>1, <2>2, <2>3, StartThrowsType DEF TypeOK, machine
<1> QED BY <1>1, <1>2, <1>3, <1>4, <1>5 DEF StartSettles

LEMMA StopSettlesType ==
  ASSUME TypeOK, NEW n \in Nodes, NEW ok, StopSettles(n, ok)
  PROVE  rt' \in [Nodes -> RuntimeStates] /\ stopFailed' \in SUBSET Nodes
BY DEF StopSettles, TypeOK, RuntimeStates

(* pause() and stop().                                                        *)
LEMMA StopType ==
  ASSUME TypeOK, Pause \/ PauseSettles \/ Stop \/ StopSettled
  PROVE  TypeOK'
<1> USE OpsFacts
<1>1. CASE Pause
  <2>1. PICK due \in SUBSET pend :
          /\ pend' = pend \ due
          /\ \/ UNCHANGED <<state, active, task>>
             \/ StopLoop("pause", 0, "pausing", "paused", rt)
    BY <1>1 DEF Pause
  <2>2. /\ task' \in [Ops -> Awaits]
        /\ state' \in EngineStates
        /\ active' \in [Nodes -> BOOLEAN]
    BY <2>1, StopLoopType DEF TypeOK, EngineStates
  <2> QED BY <1>1, <2>1, <2>2 DEF Pause, TypeOK, machine
<1>2. ASSUME NEW n \in Nodes, NEW ok \in BOOLEAN, PauseStopped(n, ok) PROVE TypeOK'
  <2>1. rt' \in [Nodes -> RuntimeStates] /\ stopFailed' \in SUBSET Nodes
    BY <1>2, StopSettlesType DEF PauseStopped
  <2>2. [task EXCEPT !["pause"] = Idle] \in [Ops -> Awaits]
    BY TaskTypes DEF TypeOK
  <2>3. /\ task' \in [Ops -> Awaits]
        /\ state' \in EngineStates
        /\ active' \in [Nodes -> BOOLEAN]
    <3>1. CASE ok
      <4>1. StopLoop("pause", n, state, "paused", rt')
        BY <1>2, <3>1 DEF PauseStopped
      <4>2. state \in EngineStates /\ "paused" \in EngineStates
        BY DEF TypeOK, EngineStates
      <4> QED BY <4>1, <4>2, StopLoopType
    <3>2. CASE ~ok
      BY <1>2, <2>2, <3>2 DEF PauseStopped, TypeOK
    <3> QED BY <3>1, <3>2
  <2> QED BY <1>2, <2>1, <2>3 DEF PauseStopped, TypeOK, fabric
<1>3. CASE Stop
  <2>1. StopLoop("stop", 0, "stopping", "stopped", rt)
    BY <1>3 DEF Stop
  <2>2. /\ task' \in [Ops -> Awaits]
        /\ state' \in EngineStates
        /\ active' \in [Nodes -> BOOLEAN]
    BY <2>1, StopLoopType DEF EngineStates
  <2> QED BY <1>3, <2>2 DEF Stop, TypeOK, machine
<1>4. ASSUME NEW n \in Nodes, NEW ok \in BOOLEAN, StopStopped(n, ok) PROVE TypeOK'
  <2>1. rt' \in [Nodes -> RuntimeStates] /\ stopFailed' \in SUBSET Nodes
    BY <1>4, StopSettlesType DEF StopStopped
  <2>2. StopLoop("stop", n, state, "stopped", rt')
    BY <1>4 DEF StopStopped
  <2>3. /\ task' \in [Ops -> Awaits]
        /\ state' \in EngineStates
        /\ active' \in [Nodes -> BOOLEAN]
    <3>1. state \in EngineStates /\ "stopped" \in EngineStates
      BY DEF TypeOK, EngineStates
    <3> QED BY <2>2, <3>1, StopLoopType
  <2> QED BY <1>4, <2>1, <2>3 DEF StopStopped, TypeOK
<1> QED BY <1>1, <1>2, <1>3, <1>4 DEF PauseSettles, StopSettled

(* dispose() and the failure cleanup.                                         *)
LEMMA ReleaseType ==
  ASSUME TypeOK, Dispose \/ DisposeSettles \/ ReleaseSettles("cleanup")
  PROVE  TypeOK'
<1> USE OpsFacts
<1>1. CASE Dispose
  <2>1. [task EXCEPT !["dispose"] = At("cleanup", 0)] \in [Ops -> Awaits]
    BY TaskTypes DEF TypeOK
  <2>2. CASE cleanup = "running"
    BY <1>1, <2>1, <2>2 DEF Dispose, TypeOK, machine
  <2>3. CASE cleanup # "running"
    <3>1. ReleaseLoop("dispose", 0, rt)
      BY <1>1, <2>3 DEF Dispose
    <3> QED BY <1>1, <3>1, ReleaseLoopType DEF Dispose, TypeOK, machine
  <2> QED BY <2>2, <2>3
<1>2. CASE DisposeProceeds
  <2>1. ReleaseLoop("dispose", 0, rt)
    BY <1>2 DEF DisposeProceeds
  <2> QED BY <1>2, <2>1, ReleaseLoopType DEF DisposeProceeds, TypeOK, machine
<1>3. ASSUME NEW op \in Ops, NEW n \in Nodes, NEW ok \in BOOLEAN, ReleaseStopped(op, n, ok)
      PROVE  TypeOK'
  <2>1. rt' \in [Nodes -> RuntimeStates] /\ stopFailed' \in SUBSET Nodes
    BY <1>3, StopSettlesType DEF ReleaseStopped
  <2>2. CASE ok
    <3>1. [task EXCEPT ![op] = At("dispose", n)] \in [Ops -> Awaits]
      BY TaskTypes DEF TypeOK
    <3> QED BY <1>3, <2>1, <2>2, <3>1 DEF ReleaseStopped, TypeOK
  <2>3. CASE ~ok
    <3>1. ReleaseLoop(op, n, rt)
      BY <1>3, <2>3 DEF ReleaseStopped
    <3> QED BY <1>3, <2>1, <3>1, ReleaseLoopType DEF ReleaseStopped, TypeOK
  <2> QED BY <2>2, <2>3
<1>4. ASSUME NEW op \in Ops, NEW n \in Nodes, ReleaseDisposed(op, n)
      PROVE  TypeOK'
  <2>1. ReleaseLoop(op, n, rt')
    BY <1>4 DEF ReleaseDisposed
  <2>2. rt' \in [Nodes -> RuntimeStates]
    BY <1>4 DEF ReleaseDisposed, TypeOK, RuntimeStates
  <2> QED BY <1>4, <2>1, <2>2, ReleaseLoopType DEF ReleaseDisposed, TypeOK
<1> QED BY <1>1, <1>2, <1>3, <1>4 DEF DisposeSettles, ReleaseSettles

(* setNodeState().                                                            *)
LEMMA ToggleType ==
  ASSUME TypeOK, NEW t \in Toggles,
         ToggleSettles(t) \/ \E n \in Nodes : SetNodeDown(t, n) \/ SetNodeUp(t, n)
  PROVE  TypeOK'
<1> USE OpsFacts
<1>0. [task EXCEPT ![t] = Idle] \in [Ops -> Awaits]
  BY TaskTypes DEF TypeOK
<1>1. ASSUME NEW n \in Nodes, SetNodeDown(t, n) PROVE TypeOK'
  <2>1. [task EXCEPT ![t] = At("down", n)] \in [Ops -> Awaits]
    BY TaskTypes DEF TypeOK
  <2> QED BY <1>1, <2>1 DEF SetNodeDown, NodeIsDown, Armed, TypeOK, machine
<1>2. ASSUME NEW n \in Nodes, SetNodeUp(t, n) PROVE TypeOK'
  <2>1. [task EXCEPT ![t] = At("up", n)] \in [Ops -> Awaits]
    BY TaskTypes DEF TypeOK
  <2> QED BY <1>2, <2>1 DEF SetNodeUp, Armed, TypeOK, machine
<1>3. ASSUME NEW n \in Nodes, NodeStarted(t, n) PROVE TypeOK'
  <2>1. [task EXCEPT ![t] = At("iface", n)] \in [Ops -> Awaits]
    BY TaskTypes DEF TypeOK
  <2> QED BY <1>3, <2>1 DEF NodeStarted, TypeOK, RuntimeStates, fabric, machine
<1>4. ASSUME NEW n \in Nodes, NodeStartRejects(t, n) PROVE TypeOK'
  BY <1>0, <1>4, FailType DEF NodeStartRejects
<1>5. ASSUME NEW n \in Nodes, NEW ok \in BOOLEAN, NodeStopped(t, n, ok) PROVE TypeOK'
  <2>1. rt' \in [Nodes -> RuntimeStates] /\ stopFailed' \in SUBSET Nodes
    BY <1>5, StopSettlesType DEF NodeStopped
  <2> QED BY <1>0, <1>5, <2>1 DEF NodeStopped, NodeIsDown, Armed, TypeOK
<1>6. ASSUME NEW n \in Nodes, NEW ok \in BOOLEAN, InterfacesSet(t, n, ok) PROVE TypeOK'
  BY <1>0, <1>6 DEF InterfacesSet, Armed, TypeOK, fabric, machine
<1> QED BY <1>1, <1>2, <1>3, <1>4, <1>5, <1>6 DEF ToggleSettles

LEMMA TypeStep == TypeOK /\ [Next]_vars => TypeOK'
<1> SUFFICES ASSUME TypeOK, [Next]_vars PROVE TypeOK'
  OBVIOUS
<1>1. CASE UNCHANGED vars
  BY <1>1 DEF vars, TypeOK
<1>2. CASE Start \/ StartSettles
  BY <1>2, StartType
<1>3. CASE Pause \/ PauseSettles \/ Stop \/ StopSettled
  BY <1>3, StopType
<1>4. CASE Dispose \/ DisposeSettles \/ ReleaseSettles("cleanup")
  BY <1>4, ReleaseType
<1>5. CASE \E t \in Toggles : \/ ToggleSettles(t)
                          \/ \E n \in Nodes : SetNodeDown(t, n) \/ SetNodeUp(t, n)
  BY <1>5, ToggleType
<1>6. CASE GuestStep
  <2>1. ASSUME NEW n \in Nodes, NEW m \in Nodes, TransmitFrame(n, m) PROVE TypeOK'
    BY <2>1 DEF TransmitFrame, Armed, TypeOK, machine
  <2>2. CASE MachineFails
    BY <2>2, FailType DEF MachineFails, TypeOK
  <2>3. ASSUME NEW n \in Nodes, NodeExits(n) PROVE TypeOK'
    BY <2>3, FailType DEF NodeExits, TypeOK
  <2> QED BY <1>6, <2>1, <2>2, <2>3 DEF GuestStep
<1>7. CASE TimerFires
  BY <1>7 DEF TimerFires, TypeOK, EngineStates, machine
<1> QED BY <1>1, <1>2, <1>3, <1>4, <1>5, <1>6, <1>7 DEF Next, ClientStep

(* Every field of the engine keeps its type, whatever the client calls and    *)
(* whichever runtimes fail.                                                   *)
THEOREM TypeCorrect == Spec => []TypeOK
BY InitType, TypeStep, PTL DEF Spec

-----------------------------------------------------------------------------
(* A client that awaits each call loses no guest node.                       *)

(* At most one call of the client is outstanding.                             *)
Sequential == \A a, b \in Calls : a # b => task[a] = Idle \/ task[b] = Idle

(* No call is outstanding, and no frame pending, in a disposed engine.        *)
AfterDisposed == state = "disposed" => pend = {} /\ \A op \in Calls : task[op] = Idle

(* Appliances are constructed only while no release loop can be under way.    *)
StartInit == task["start"].pc = "init" => state \in {"starting", "failed"} /\ cleanup # "running"

(* A cleanup under way still has the map it iterates over, unless dispose()   *)
(* overtakes it.                                                              *)
CleanupHasMap == cleanup = "running" =>
                   inMap # {} \/ task["dispose"] # Idle \/ state = "disposed"
CleanupTask == task["cleanup"] = Idle \/ cleanup = "running"

(* The entries a release loop has passed gave their slot back or refused to   *)
(* stop.                                                                      *)
Progress == \A op \in {"dispose", "cleanup"} :
              task[op].pc \in {"stop", "dispose"} =>
                \A j \in inMap : j < task[op].at /\ j \in slots => j \in stopFailed

IInv == /\ TypeOK
        /\ Sequential
        /\ AfterDisposed
        /\ StartInit
        /\ CleanupHasMap
        /\ CleanupTask
        /\ Progress
        /\ OnlyFailedStopsLeak

(* What a step may do to the failure cleanup: nothing, begin it at the first  *)
(* entry of the map, or find the map empty.                                   *)
CleanupMoves ==
  \/ /\ task'["cleanup"] = task["cleanup"]
     /\ cleanup' = cleanup \/ (cleanup = "none" /\ cleanup' = "done")
  \/ /\ cleanup = "none" /\ cleanup' = "running"
     /\ \E j \in inMap : First(j, inMap) /\ task'["cleanup"].at = j

LEMMA BeginCleanupMoves ==
  ASSUME TypeOK, NEW t \in [Ops -> Awaits], t["cleanup"] = task["cleanup"], NEW r,
         BeginCleanup(t, r)
  PROVE  CleanupMoves /\ \A op \in Calls : task'[op] = t[op]
<1>1. CASE cleanup # "none"
  BY <1>1 DEF BeginCleanup, CleanupMoves
<1>2. CASE cleanup = "none" /\ inMap = {}
  BY <1>2 DEF BeginCleanup, CleanupMoves
<1>3. CASE cleanup = "none" /\ inMap # {}
  <2>1. PICK j \in inMap : First(j, inMap) /\ task' = [t EXCEPT !["cleanup"] = ReleaseAt(j, r)]
    BY <1>3 DEF BeginCleanup
  <2>0. ReleaseAt(j, r).at = j
    BY DEF ReleaseAt, At
  <2>2. task'["cleanup"].at = j
    BY <2>0, <2>1, OpsFacts
  <2>3. \A op \in Calls : task'[op] = t[op]
    BY <2>1, OpsFacts
  <2> QED BY <1>3, <2>1, <2>2, <2>3 DEF BeginCleanup, CleanupMoves
<1> QED BY <1>1, <1>2, <1>3

(* A step that leaves the map, the slots and dispose() alone keeps the parts  *)
(* of the invariant about them.                                               *)
LEMMA FrameStep ==
  ASSUME IInv, inMap' = inMap, slots' = slots, stopFailed \subseteq stopFailed',
         task'["dispose"] = task["dispose"], state = "disposed" => state' = "disposed",
         CleanupMoves
  PROVE  CleanupHasMap' /\ CleanupTask' /\ Progress' /\ OnlyFailedStopsLeak'
<1>1. CleanupHasMap'
  BY DEF IInv, CleanupHasMap, CleanupMoves
<1>2. CleanupTask'
  BY DEF IInv, CleanupTask, CleanupMoves
<1>3. OnlyFailedStopsLeak'
  BY DEF IInv, OnlyFailedStopsLeak
<1>4. Progress'
  <2>1. inMap \subseteq Int
    BY EngineAssumption DEF IInv, TypeOK, Nodes
  <2>2. CASE task'["cleanup"] = task["cleanup"]
    BY <2>2 DEF IInv, Progress
  <2>3. CASE \E j \in inMap : First(j, inMap) /\ task'["cleanup"].at = j
    <3>0. PICK j \in inMap : First(j, inMap) /\ task'["cleanup"].at = j
      BY <2>3
    <3>1. \A i \in inMap' : ~(i < task'["cleanup"].at)
      <4>1. \A i \in inMap : i \in Int /\ j \in Int /\ j <= i
        BY <2>1, <3>0 DEF First
      <4> QED BY <3>0, <4>1
    <3>2. \A i \in inMap' : task'["dispose"].pc \in {"stop", "dispose"} /\ i < task'["dispose"].at /\ i \in slots'
             => i \in stopFailed'
      BY DEF IInv, Progress
    <3> QED BY <3>1, <3>2 DEF Progress
  <2> QED BY <2>2, <2>3 DEF CleanupMoves
<1> QED BY <1>1, <1>2, <1>3, <1>4

(* A step of one call, begun only when no other is outstanding.               *)
LEMMA SequentialStep ==
  ASSUME IInv, NEW op \in Calls,
         \A o \in Calls \ {op} : task'[o] = task[o],
         task[op] # Idle \/ \A o \in Calls \ {op} : task[o] = Idle
  PROVE  Sequential'
BY DEF IInv, Sequential

LEMMA MayCallAlone ==
  ASSUME Overlap = {}, NEW op \in Calls, MayCall(op)
  PROVE  \A o \in Calls : task[o] = Idle
BY DEF MayCall

(* What start() may do between two awaits once the appliances exist.          *)
StartMoves ==
  /\ CleanupMoves
  /\ \A op \in Calls \ {"start"} : task'[op] = task[op]
  /\ task'["start"].pc \in {"idle", "boot", "cleanup"}
  /\ state # "disposed" => state' # "disposed"

LEMMA StartThrowsMoves ==
  ASSUME TypeOK, NEW r, StartThrows(r)
  PROVE  StartMoves
<1> DEFINE t == [task EXCEPT !["start"] = At("cleanup", 0)]
<1>1. t \in [Ops -> Awaits] /\ t["cleanup"] = task["cleanup"]
  BY TaskTypes, OpsFacts DEF TypeOK
<1>2. CleanupMoves /\ \A op \in Calls : task'[op] = t[op]
  BY <1>1, BeginCleanupMoves DEF StartThrows
<1>3. t["start"].pc = "cleanup" /\ \A op \in Calls \ {"start"} : t[op] = task[op]
  BY OpsFacts DEF TypeOK, At, Calls, Methods
<1>4. "start" \in Calls
  BY DEF Calls, Methods
<1> QED BY <1>2, <1>3, <1>4 DEF StartThrows, StartMoves

LEMMA BootFromMoves ==
  ASSUME TypeOK, NEW k, NEW st, NEW r, BootFrom(k, st, r), st # "disposed"
  PROVE  StartMoves /\ UNCHANGED <<inMap, machine>>
<1>0. UNCHANGED <<inMap, machine>>
  BY DEF BootFrom
<1> SUFFICES StartMoves
  BY <1>0
<1>1. CASE StartThrows(r)
  BY <1>1, StartThrowsMoves
<1>2. CASE /\ state' = "running"
           /\ task' = [task EXCEPT !["start"] = Idle]
           /\ UNCHANGED cleanup
  BY <1>2, OpsFacts DEF StartMoves, CleanupMoves, TypeOK, Idle, Calls, Methods
<1>3. CASE /\ state' = st
           /\ \E j : task' = [task EXCEPT !["start"] = At("boot", j)]
           /\ UNCHANGED cleanup
  BY <1>3, OpsFacts DEF StartMoves, CleanupMoves, TypeOK, At, Calls, Methods
<1> QED BY <1>1, <1>2, <1>3 DEF BootFrom, EnterRunning

(* Such a step keeps the invariant.                                           *)
LEMMA StartMovesSafe ==
  ASSUME IInv, TypeOK', StartMoves, UNCHANGED <<inMap, machine>>,
         state # "disposed",
         task["start"] # Idle \/ \A op \in Calls : task[op] = Idle
  PROVE  IInv'
<1> USE DEF Calls, Methods
<1>1. Sequential'
  BY SequentialStep DEF StartMoves
<1>2. AfterDisposed' /\ StartInit'
  BY DEF StartMoves, AfterDisposed, StartInit
<1>3. CleanupHasMap' /\ CleanupTask' /\ Progress' /\ OnlyFailedStopsLeak'
  BY FrameStep DEF StartMoves, machine
<1> QED BY <1>1, <1>2, <1>3 DEF IInv

LEMMA ConstructSafe ==
  ASSUME IInv, TypeOK', NEW n \in Nodes, NEW st \in {"starting", "failed"}, NEW r,
         Construct(n, st, r), cleanup # "running", state # "disposed",
         \A op \in Calls \ {"start"} : task[op] = Idle
  PROVE  IInv'
<1>1. /\ \A op \in Ops \ {"start"} : task'[op] = Idle
      /\ task'["start"].pc = "init"
  BY OpsFacts DEF Construct, IInv, TypeOK, CleanupTask, At, Ops
<1>2. Sequential'
  BY <1>1 DEF Sequential, Ops
<1>3. AfterDisposed' /\ StartInit' /\ CleanupHasMap' /\ CleanupTask'
  BY <1>1, OpsFacts DEF Construct, AfterDisposed, StartInit, CleanupHasMap, CleanupTask
<1>4. Progress'
  BY <1>1, OpsFacts DEF Progress, Idle
<1>5. OnlyFailedStopsLeak'
  BY DEF IInv, OnlyFailedStopsLeak, Construct
<1> QED BY <1>2, <1>3, <1>4, <1>5 DEF IInv

LEMMA StartSafe ==
  ASSUME Overlap = {}, IInv, Start \/ StartSettles
  PROVE  IInv'
<1> USE OpsFacts
<1>0. TypeOK'
  BY StartType DEF IInv
<1>1. CASE Start
  <2>1. \A op \in Calls : task[op] = Idle
    BY <1>1, MayCallAlone DEF Start, Calls, Methods
  <2>2. state # "disposed" /\ 1 \in Nodes
    BY <1>1, EngineAssumption DEF Start, Nodes
  <2>3. CASE inMap = {}
    <3>1. cleanup # "running"
      BY <2>1, <2>2, <2>3 DEF IInv, CleanupHasMap, Calls, Methods
    <3> QED BY <1>0, <1>1, <2>1, <2>2, <2>3, <3>1, ConstructSafe DEF Start
  <2>4. CASE inMap # {}
    <3>1. BootFrom(0, "starting", rt)
      BY <1>1, <2>4 DEF Start
    <3>2. StartMoves /\ UNCHANGED <<inMap, machine>>
      BY <3>1, BootFromMoves DEF IInv
    <3> QED BY <1>0, <2>1, <2>2, <3>2, StartMovesSafe
  <2> QED BY <2>3, <2>4
<1>2. ASSUME task["start"] # Idle
      PROVE  state # "disposed" /\ \A op \in Calls \ {"start"} : task[op] = Idle
  BY <1>2 DEF IInv, AfterDisposed, Sequential, Calls, Methods
<1>3. CASE StartRejects
  <2>1. task["start"] # Idle
    BY <1>3 DEF StartRejects, Idle
  <2>2. StartMoves
    BY <1>3 DEF StartRejects, StartMoves, CleanupMoves, IInv, TypeOK, Idle, Calls, Methods
  <2> QED BY <1>0, <1>2, <1>3, <2>1, <2>2, StartMovesSafe DEF StartRejects
<1>4. ASSUME NEW n \in Nodes, InitResolves(n) PROVE IInv'
  <2> DEFINE r == [rt EXCEPT ![n] = "initialized"]
  <2>1. task["start"].pc = "init" /\ task["start"] # Idle
    BY <1>4 DEF InitResolves, Awaiting, At, Idle
  <2>2. state \in {"starting", "failed"} /\ cleanup # "running"
    BY <2>1 DEF IInv, StartInit
  <2>3. CASE n < N
    <3>1. n + 1 \in Nodes /\ Construct(n + 1, state, r)
      BY <1>4, <2>3, EngineAssumption DEF InitResolves, Nodes
    <3> QED BY <1>0, <1>2, <2>1, <2>2, <3>1, ConstructSafe
  <2>4. CASE ~(n < N)
    <3>1. BootFrom(0, state, r)
      BY <1>4, <2>4 DEF InitResolves
    <3>2. StartMoves /\ UNCHANGED <<inMap, machine>>
      BY <2>2, <3>1, BootFromMoves DEF IInv
    <3> QED BY <1>0, <1>2, <2>1, <3>2, StartMovesSafe
  <2> QED BY <2>3, <2>4
<1>5. ASSUME NEW n \in Nodes, BootResolves(n) PROVE IInv'
  <2> DEFINE r == [rt EXCEPT ![n] = "running"]
  <2>1. task["start"] # Idle
    BY <1>5 DEF BootResolves, Awaiting, At, Idle
  <2>2. state # "disposed"
    BY <1>2, <2>1
  <2>3. CASE BootFrom(n, state, r)
    BY <1>0, <2>1, <2>2, <2>3, BootFromMoves, StartMovesSafe DEF IInv
  <2>4. CASE StartThrows(r) /\ UNCHANGED <<inMap, machine>>
    BY <1>0, <2>1, <2>2, <2>4, StartThrowsMoves, StartMovesSafe DEF IInv
  <2> QED BY <1>5, <2>3, <2>4 DEF BootResolves
<1>6. ASSUME NEW n \in Nodes, StartCallRejects(n) PROVE IInv'
  <2> DEFINE r == [rt EXCEPT ![n] = "failed"]
  <2>1. task["start"] # Idle
    BY <1>6 DEF StartCallRejects, Awaiting, At, Idle
  <2>2. StartThrows(r) /\ UNCHANGED <<inMap, machine>>
    BY <1>6 DEF StartCallRejects
  <2> QED BY <1>0, <1>2, <2>1, <2>2, StartThrowsMoves, StartMovesSafe DEF IInv
<1> QED BY <1>1, <1>3, <1>4, <1>5, <1>6 DEF StartSettles

(* A step of pause(), stop() or setNodeState(), in which `task` need not      *)
(* change, and which leaves the map and the slots alone.                      *)
LEMMA CallMovesSafe ==
  ASSUME IInv, TypeOK', NEW op \in {"pause", "stop"} \cup Toggles,
         inMap' = inMap, slots' = slots, stopFailed \subseteq stopFailed', CleanupMoves,
         \A o \in Calls \ {op} : task'[o] = task[o],
         task[op] # Idle \/ \A o \in Calls : task[o] = Idle,
         state # "disposed" /\ state' # "disposed"
  PROVE  IInv'
<1> USE OpsFacts
<1>1. Sequential'
  BY SequentialStep
<1>2. AfterDisposed'
  BY DEF AfterDisposed
<1>3. StartInit'
  <2>1. task["start"].pc # "init"
    BY DEF IInv, Sequential, Idle
  <2> QED BY <2>1 DEF StartInit
<1>4. CleanupHasMap' /\ CleanupTask' /\ Progress' /\ OnlyFailedStopsLeak'
  BY FrameStep
<1> QED BY <1>1, <1>2, <1>3, <1>4 DEF IInv

(* A step of the guest or of the timer: no call moves.                        *)
LEMMA GuestMovesSafe ==
  ASSUME IInv, TypeOK', inMap' = inMap, slots' = slots, stopFailed' = stopFailed, CleanupMoves,
         \A o \in Calls : task'[o] = task[o],
         state' = state \/ (state # "disposed" /\ state' = "failed"),
         cleanup' = "running" => cleanup = "running" \/ state = "running",
         state = "disposed" => pend' = {}
  PROVE  IInv'
<1> USE DEF Calls, Methods
<1>1. Sequential'
  BY DEF IInv, Sequential
<1>2. AfterDisposed'
  BY DEF IInv, AfterDisposed
<1>3. StartInit'
  BY DEF IInv, StartInit
<1>4. CleanupHasMap' /\ CleanupTask' /\ Progress' /\ OnlyFailedStopsLeak'
  BY FrameStep
<1> QED BY <1>1, <1>2, <1>3, <1>4 DEF IInv

LEMMA StopLoopMoves ==
  ASSUME TypeOK, NEW op \in {"pause", "stop"}, NEW k, NEW r, NEW transient, NEW final,
         StopLoop(op, k, transient, final, r), UNCHANGED cleanup
  PROVE  /\ CleanupMoves
         /\ \A o \in Calls \ {op} : task'[o] = task[o]
         /\ state' \in {transient, final}
BY OpsFacts DEF StopLoop, CleanupMoves, TypeOK, Calls, Methods

(* In a disposed engine no call is outstanding, so none settles.              *)
LEMMA Outstanding ==
  ASSUME IInv, NEW op \in Calls, NEW pc, NEW n, Awaiting(op, pc, n), pc # "idle"
  PROVE  task[op] # Idle /\ state # "disposed"
BY DEF IInv, AfterDisposed, Awaiting, At, Idle

LEMMA StopSafe ==
  ASSUME Overlap = {}, IInv, Pause \/ PauseSettles \/ Stop \/ StopSettled
  PROVE  IInv'
<1> USE OpsFacts
<1>0. TypeOK'
  BY StopType DEF IInv
<1>1. CASE Pause
  <2>1. \A o \in Calls : task[o] = Idle
    BY <1>1, MayCallAlone DEF Pause, Calls, Methods
  <2>2. UNCHANGED <<state, task>> \/ StopLoop("pause", 0, "pausing", "paused", rt)
    BY <1>1 DEF Pause
  <2>3. state' # "disposed" /\ CleanupMoves /\ \A o \in Calls \ {"pause"} : task'[o] = task[o]
    BY <1>1, <2>2, StopLoopMoves DEF Pause, IInv, CleanupMoves
  <2> QED BY <1>0, <1>1, <2>1, <2>3, CallMovesSafe DEF Pause, machine
<1>2. ASSUME NEW n \in Nodes, NEW ok \in BOOLEAN, PauseStopped(n, ok) PROVE IInv'
  <2>1. task["pause"] # Idle /\ state # "disposed"
    BY <1>2, Outstanding DEF PauseStopped, Calls, Methods
  <2>2. (UNCHANGED state /\ task' = [task EXCEPT !["pause"] = Idle])
        \/ StopLoop("pause", n, state, "paused", rt')
    BY <1>2 DEF PauseStopped
  <2>3. state' # "disposed" /\ CleanupMoves /\ \A o \in Calls \ {"pause"} : task'[o] = task[o]
    BY <1>2, <2>1, <2>2, StopLoopMoves DEF PauseStopped, IInv, TypeOK, CleanupMoves, Calls, Methods
  <2>4. stopFailed \subseteq stopFailed'
    BY <1>2 DEF PauseStopped, StopSettles
  <2> QED BY <1>0, <1>2, <2>1, <2>3, <2>4, CallMovesSafe DEF PauseStopped
<1>3. CASE Stop
  <2>1. \A o \in Calls : task[o] = Idle
    BY <1>3, MayCallAlone DEF Stop, Calls, Methods
  <2>2. StopLoop("stop", 0, "stopping", "stopped", rt)
    BY <1>3 DEF Stop
  <2>3. state' # "disposed" /\ CleanupMoves /\ \A o \in Calls \ {"stop"} : task'[o] = task[o]
    <3>1. /\ CleanupMoves /\ \A o \in Calls \ {"stop"} : task'[o] = task[o]
          /\ state' \in {"stopping", "stopped"}
      BY <1>3, <2>2, StopLoopMoves DEF Stop, IInv
    <3> QED BY <3>1
  <2>4. state # "disposed"
    BY <1>3 DEF Stop
  <2> QED BY <1>0, <1>3, <2>1, <2>3, <2>4, CallMovesSafe DEF Stop, machine
<1>4. ASSUME NEW n \in Nodes, NEW ok \in BOOLEAN, StopStopped(n, ok) PROVE IInv'
  <2>1. task["stop"] # Idle /\ state # "disposed"
    BY <1>4, Outstanding DEF StopStopped, Calls, Methods
  <2>2. StopLoop("stop", n, state, "stopped", rt')
    BY <1>4 DEF StopStopped
  <2>3. state' # "disposed" /\ CleanupMoves /\ \A o \in Calls \ {"stop"} : task'[o] = task[o]
    <3>1. /\ CleanupMoves /\ \A o \in Calls \ {"stop"} : task'[o] = task[o]
          /\ state' \in {state, "stopped"}
      BY <1>4, <2>2, StopLoopMoves DEF StopStopped, IInv
    <3> QED BY <2>1, <3>1
  <2>4. stopFailed \subseteq stopFailed'
    BY <1>4 DEF StopStopped, StopSettles
  <2> QED BY <1>0, <1>4, <2>1, <2>3, <2>4, CallMovesSafe DEF StopStopped
<1> QED BY <1>1, <1>2, <1>3, <1>4 DEF PauseSettles, StopSettled

LEMMA FailMoves ==
  ASSUME TypeOK, NEW S, NEW t \in [Ops -> Awaits], t["cleanup"] = task["cleanup"], Fail(S, t)
  PROVE  /\ CleanupMoves /\ \A op \in Calls : task'[op] = t[op]
         /\ state' = state \/ (state # "disposed" /\ state' = "failed")
         /\ cleanup' = "running" => cleanup = "running" \/ state = "running"
         /\ UNCHANGED <<inMap, pend, slots, stopFailed>>
<1> DEFINE r == [n \in Nodes |-> IF n \in S THEN "failed" ELSE rt[n]]
<1>1. CASE BeginCleanup(t, r) /\ state = "running"
  BY <1>1, BeginCleanupMoves DEF Fail, machine
<1>2. CASE task' = t /\ UNCHANGED cleanup
  BY <1>2 DEF Fail, CleanupMoves, machine
<1> QED BY <1>1, <1>2 DEF Fail

LEMMA ToggleSafe ==
  ASSUME Overlap = {}, IInv, NEW t \in Toggles,
         ToggleSettles(t) \/ \E n \in Nodes : SetNodeDown(t, n) \/ SetNodeUp(t, n)
  PROVE  IInv'
<1> USE OpsFacts DEF Calls, Methods
<1>0. TypeOK'
  BY ToggleType DEF IInv
<1>1. ASSUME NEW n \in Nodes, SetNodeDown(t, n) \/ SetNodeUp(t, n) PROVE IInv'
  <2>1. \A o \in Calls : task[o] = Idle
    BY <1>1, MayCallAlone DEF SetNodeDown, SetNodeUp
  <2>2. state # "disposed" /\ state' # "disposed"
    BY <1>1 DEF SetNodeDown, SetNodeUp, Usable
  <2>3. CleanupMoves /\ \A o \in Calls \ {t} : task'[o] = task[o]
    BY <1>1 DEF SetNodeDown, SetNodeUp, IInv, TypeOK, CleanupMoves
  <2> QED BY <1>0, <1>1, <2>1, <2>2, <2>3, CallMovesSafe DEF SetNodeDown, SetNodeUp, machine
<1>2. ASSUME NEW n \in Nodes, NodeStarted(t, n) PROVE IInv'
  <2>1. task[t] # Idle /\ state # "disposed"
    BY <1>2, Outstanding DEF NodeStarted
  <2>2. CleanupMoves /\ \A o \in Calls \ {t} : task'[o] = task[o]
    BY <1>2 DEF NodeStarted, IInv, TypeOK, CleanupMoves
  <2> QED BY <1>0, <1>2, <2>1, <2>2, CallMovesSafe DEF NodeStarted, machine
<1>3. ASSUME NEW n \in Nodes, NodeStartRejects(t, n) PROVE IInv'
  <2>1. task[t] # Idle /\ state # "disposed"
    BY <1>3, Outstanding DEF NodeStartRejects
  <2> DEFINE u == [task EXCEPT ![t] = Idle]
  <2>2. u \in [Ops -> Awaits] /\ u["cleanup"] = task["cleanup"]
    BY TaskTypes DEF IInv, TypeOK
  <2>3. \A o \in Calls \ {t} : u[o] = task[o]
    BY DEF IInv, TypeOK
  <2>4. Fail({n}, u)
    BY <1>3 DEF NodeStartRejects
  <2>5. /\ CleanupMoves /\ \A op \in Calls : task'[op] = u[op]
        /\ state' # "disposed"
        /\ UNCHANGED <<inMap, slots, stopFailed>>
    BY <2>1, <2>2, <2>4, FailMoves DEF IInv
  <2> QED BY <1>0, <2>1, <2>3, <2>5, CallMovesSafe
<1>4. ASSUME NEW n \in Nodes, NEW ok \in BOOLEAN, NodeStopped(t, n, ok) PROVE IInv'
  <2>1. task[t] # Idle /\ state # "disposed"
    BY <1>4, Outstanding DEF NodeStopped
  <2>2. CleanupMoves /\ \A o \in Calls \ {t} : task'[o] = task[o]
    BY <1>4 DEF NodeStopped, IInv, TypeOK, CleanupMoves
  <2>3. stopFailed \subseteq stopFailed'
    BY <1>4 DEF NodeStopped, StopSettles
  <2> QED BY <1>0, <1>4, <2>1, <2>2, <2>3, CallMovesSafe DEF NodeStopped
<1>5. ASSUME NEW n \in Nodes, NEW ok \in BOOLEAN, InterfacesSet(t, n, ok) PROVE IInv'
  <2>1. task[t] # Idle /\ state # "disposed"
    BY <1>5, Outstanding DEF InterfacesSet
  <2>2. CleanupMoves /\ \A o \in Calls \ {t} : task'[o] = task[o]
    BY <1>5 DEF InterfacesSet, IInv, TypeOK, CleanupMoves
  <2> QED BY <1>0, <1>5, <2>1, <2>2, CallMovesSafe DEF InterfacesSet, machine
<1> QED BY <1>1, <1>2, <1>3, <1>4, <1>5 DEF ToggleSettles

LEMMA GuestSafe ==
  ASSUME IInv, TypeOK', GuestStep \/ TimerFires
  PROVE  IInv'
<1>1. ASSUME NEW n \in Nodes, NEW m \in Nodes, TransmitFrame(n, m) PROVE IInv'
  BY <1>1, GuestMovesSafe DEF TransmitFrame, CleanupMoves, machine
<1>2. ASSUME NEW S, Fail(S, task) PROVE IInv'
  BY <1>2, FailMoves, GuestMovesSafe DEF IInv, TypeOK, AfterDisposed
<1>3. CASE TimerFires
  <2>1. state' = state \/ (state # "disposed" /\ state' = "failed")
    BY <1>3 DEF TimerFires, IInv, AfterDisposed, Rejects
  <2>2. state = "disposed" => pend' = {}
    BY <1>3 DEF TimerFires, IInv, AfterDisposed
  <2> QED BY <1>3, <2>1, <2>2, GuestMovesSafe DEF TimerFires, CleanupMoves, machine
<1> QED BY <1>1, <1>2, <1>3 DEF GuestStep, NodeExits, MachineFails

(* A release loop that goes on after k, every entry up to k being released or *)
(* excused, keeps the invariant; at its end nothing else is left behind.      *)
LEMMA ReleaseLoopSafe ==
  ASSUME IInv, TypeOK', NEW op \in {"dispose", "cleanup"}, NEW k \in Int, NEW r,
         ReleaseLoop(op, k, r),
         \A j \in inMap : j <= k /\ j \in slots' => j \in stopFailed',
         slots' \subseteq slots, stopFailed \subseteq stopFailed',
         op = "dispose" => state # "disposed" /\ \A o \in Calls \ {"dispose"} : task[o] = Idle,
         op = "cleanup" => cleanup = "running"
  PROVE  IInv'
<1> USE OpsFacts DEF Calls, Methods
<1>0. inMap \subseteq Int
  BY EngineAssumption DEF IInv, TypeOK, Nodes
<1>1. ASSUME NEW j \in inMap, First(j, After(k, inMap)),
             task' = [task EXCEPT ![op] = ReleaseAt(j, r)],
             UNCHANGED <<state, inMap, pend, cleanup>>
      PROVE  IInv'
  <2>1. /\ \A o \in Ops \ {op} : task'[o] = task[o]
        /\ task'[op] # Idle /\ task'[op].at = j
    <3>1. ReleaseAt(j, r) # Idle /\ ReleaseAt(j, r).at = j
      BY DEF ReleaseAt, At, Idle
    <3> QED BY <1>1, <3>1 DEF IInv, TypeOK
  <2>2. \A i \in inMap : i < j => i <= k
    BY <1>0, <1>1 DEF First, After
  <2>3. Sequential' /\ AfterDisposed' /\ StartInit'
    BY <1>1, <2>1 DEF IInv, Sequential, AfterDisposed, StartInit, Ops
  <2>4. CleanupHasMap' /\ CleanupTask'
    BY <1>1, <2>1 DEF IInv, CleanupHasMap, CleanupTask, Ops
  <2>5. Progress'
    <3> SUFFICES ASSUME NEW o \in {"dispose", "cleanup"}, task'[o].pc \in {"stop", "dispose"},
                        NEW i \in inMap, i < task'[o].at, i \in slots'
                 PROVE  i \in stopFailed'
      BY <1>1 DEF Progress
    <3>1. CASE o = op
      BY <2>1, <2>2, <3>1
    <3>2. CASE o # op
      BY <2>1, <3>2 DEF IInv, Progress
    <3> QED BY <3>1, <3>2
  <2>6. OnlyFailedStopsLeak'
    BY <1>1 DEF IInv, OnlyFailedStopsLeak
  <2> QED BY <2>3, <2>4, <2>5, <2>6 DEF IInv
<1>2. ASSUME After(k, inMap) = {}, task' = [task EXCEPT ![op] = Idle], inMap' = {},
             IF op = "cleanup"
             THEN cleanup' = "done" /\ UNCHANGED <<state, pend>>
             ELSE state' = "disposed" /\ pend' = {} /\ UNCHANGED cleanup
      PROVE  IInv'
  <2>1. task'[op] = Idle /\ \A o \in Ops \ {op} : task'[o] = task[o]
    BY <1>2 DEF IInv, TypeOK
  <2>2. \A i \in inMap : i <= k
    BY <1>0, <1>2 DEF After
  <2>3. Sequential' /\ AfterDisposed' /\ StartInit'
    BY <1>2, <2>1 DEF IInv, Sequential, AfterDisposed, StartInit, Ops, Idle
  <2>4. CleanupHasMap' /\ CleanupTask' /\ Progress'
    BY <1>2, <2>1 DEF IInv, CleanupHasMap, CleanupTask, Progress, Ops
  <2>5. OnlyFailedStopsLeak'
    BY <1>2, <2>2 DEF IInv, OnlyFailedStopsLeak
  <2> QED BY <2>3, <2>4, <2>5 DEF IInv
<1> QED BY <1>1, <1>2 DEF ReleaseLoop, Released

(* dispose() and the failure cleanup keep the invariant.                      *)
LEMMA ReleaseSafe ==
  ASSUME Overlap = {}, IInv, Dispose \/ DisposeSettles \/ ReleaseSettles("cleanup")
  PROVE  IInv'
<1> USE OpsFacts DEF Calls, Methods
<1>0. TypeOK'
  BY ReleaseType DEF IInv
<1>a. inMap \subseteq 1 .. N /\ N \in Nat
  BY EngineAssumption DEF IInv, TypeOK, Nodes
<1>b. \A j \in inMap : ~(j <= 0)
  BY <1>a
<1>1. CASE Dispose
  <2>1. state # "disposed" /\ \A o \in Calls : task[o] = Idle
    BY <1>1, MayCallAlone DEF Dispose
  <2>2. CASE cleanup = "running"
    <3>1. /\ \A o \in Ops \ {"dispose"} : task'[o] = task[o]
          /\ task'["dispose"] # Idle /\ task'["dispose"].pc = "cleanup"
      BY <1>1, <2>2 DEF Dispose, IInv, TypeOK, At, Idle
    <3>2. UNCHANGED <<state, inMap, pend, cleanup, machine>>
      BY <1>1, <2>2 DEF Dispose
    <3>3. Sequential' /\ AfterDisposed' /\ StartInit'
      BY <2>1, <3>1, <3>2 DEF IInv, Sequential, AfterDisposed, StartInit, Ops
    <3>4. CleanupHasMap' /\ CleanupTask'
      BY <3>1, <3>2 DEF IInv, CleanupHasMap, CleanupTask, Ops
    <3>5. Progress' /\ OnlyFailedStopsLeak'
      BY <3>1, <3>2 DEF IInv, Progress, OnlyFailedStopsLeak, machine, Ops
    <3> QED BY <1>0, <3>3, <3>4, <3>5 DEF IInv
  <2>3. CASE cleanup # "running"
    <3>1. ReleaseLoop("dispose", 0, rt) /\ UNCHANGED machine
      BY <1>1, <2>3 DEF Dispose
    <3> QED BY <1>0, <1>b, <2>1, <3>1, ReleaseLoopSafe DEF machine
  <2> QED BY <2>2, <2>3
<1>2. ASSUME task["dispose"] # Idle
      PROVE  state # "disposed" /\ \A o \in Calls \ {"dispose"} : task[o] = Idle
  BY <1>2 DEF IInv, AfterDisposed, Sequential
<1>3. CASE DisposeProceeds
  <2>1. task["dispose"] # Idle
    BY <1>3 DEF DisposeProceeds, Idle
  <2>2. ReleaseLoop("dispose", 0, rt) /\ UNCHANGED machine
    BY <1>3 DEF DisposeProceeds
  <2> QED BY <1>0, <1>b, <1>2, <2>1, <2>2, ReleaseLoopSafe DEF machine
<1>4. ASSUME NEW op \in {"dispose", "cleanup"}, task[op] # Idle
      PROVE  /\ op = "dispose" => state # "disposed" /\ \A o \in Calls \ {"dispose"} : task[o] = Idle
             /\ op = "cleanup" => cleanup = "running"
  BY <1>2, <1>4 DEF IInv, CleanupTask
<1>5. ASSUME NEW op \in {"dispose", "cleanup"}, NEW n \in Nodes, NEW ok \in BOOLEAN,
             ReleaseStopped(op, n, ok)
      PROVE  IInv'
  <2>1. task[op] # Idle /\ task[op].at = n /\ task[op].pc = "stop" /\ n \in Int
    BY <1>5, EngineAssumption DEF ReleaseStopped, Awaiting, At, Idle, Nodes
  <2>2. \A j \in inMap : j < n /\ j \in slots => j \in stopFailed
    BY <2>1 DEF IInv, Progress
  <2>3. slots' = slots /\ stopFailed \subseteq stopFailed' /\ TypeOK'
    BY <1>0, <1>5 DEF ReleaseStopped, ReleaseLoop, StopSettles
  <2>4. CASE ok
    <3>1. /\ task' = [task EXCEPT ![op] = At("dispose", n)]
          /\ UNCHANGED <<state, inMap, pend, cleanup>>
      BY <1>5, <2>4 DEF ReleaseStopped
    <3>2. /\ \A o \in Ops \ {op} : task'[o] = task[o]
          /\ task'[op] # Idle /\ task'[op].at = n
      BY <3>1 DEF IInv, TypeOK, At, Idle
    <3>3. Sequential' /\ AfterDisposed' /\ StartInit'
      BY <1>4, <2>1, <3>1, <3>2 DEF IInv, Sequential, AfterDisposed, StartInit, Ops
    <3>4. CleanupHasMap' /\ CleanupTask'
      BY <1>4, <2>1, <3>1, <3>2 DEF IInv, CleanupHasMap, CleanupTask, Ops
    <3>5. Progress'
      <4> SUFFICES ASSUME NEW o \in {"dispose", "cleanup"}, task'[o].pc \in {"stop", "dispose"},
                          NEW i \in inMap, i < task'[o].at, i \in slots
                   PROVE  i \in stopFailed'
        BY <2>3, <3>1 DEF Progress
      <4>1. CASE o = op
        BY <2>2, <2>3, <3>2, <4>1
      <4>2. CASE o # op
        BY <2>3, <3>2, <4>2 DEF IInv, Progress
      <4> QED BY <4>1, <4>2
    <3>6. OnlyFailedStopsLeak'
      BY <2>3, <3>1 DEF IInv, OnlyFailedStopsLeak
    <3> QED BY <1>0, <3>3, <3>4, <3>5, <3>6 DEF IInv
  <2>5. CASE ~ok
    <3>1. ReleaseLoop(op, n, rt) /\ n \in stopFailed'
      BY <1>5, <2>5 DEF ReleaseStopped, StopSettles
    <3>2. \A j \in inMap : j <= n /\ j \in slots' => j \in stopFailed'
      <4>1. \A j \in inMap : j \in Int /\ n \in Int
        BY <1>a, <2>1
      <4>2. \A j \in inMap : j < n /\ j \in slots' => j \in stopFailed'
        BY <2>2, <2>3
      <4> QED BY <3>1, <4>1, <4>2
    <3> QED BY <1>0, <1>4, <2>1, <2>3, <3>1, <3>2, ReleaseLoopSafe
  <2> QED BY <2>4, <2>5
<1>6. ASSUME NEW op \in {"dispose", "cleanup"}, NEW n \in Nodes, ReleaseDisposed(op, n)
      PROVE  IInv'
  <2>1. task[op] # Idle /\ task[op].at = n /\ task[op].pc = "dispose" /\ n \in Int
    BY <1>6, EngineAssumption DEF ReleaseDisposed, Awaiting, At, Idle, Nodes
  <2>2. \A j \in inMap : j < n /\ j \in slots => j \in stopFailed
    BY <2>1 DEF IInv, Progress
  <2>3. ReleaseLoop(op, n, rt') /\ slots' = slots \ {n} /\ stopFailed' = stopFailed
    BY <1>6 DEF ReleaseDisposed
  <2>4. \A j \in inMap : j <= n /\ j \in slots' => j \in stopFailed'
    BY <1>a, <2>1, <2>2, <2>3
  <2> QED BY <1>0, <1>4, <2>1, <2>3, <2>4, ReleaseLoopSafe
<1> QED BY <1>1, <1>3, <1>5, <1>6 DEF DisposeSettles, ReleaseSettles

LEMMA IInvInit == Init => IInv
<1> SUFFICES ASSUME Init PROVE IInv
  OBVIOUS
<1>1. TypeOK
  BY InitType
<1>2. \A op \in Ops : task[op] = Idle /\ task[op].pc = "idle"
  BY DEF Init, Idle
<1>3. Sequential /\ AfterDisposed /\ StartInit
  BY <1>2, OpsFacts DEF Init, Sequential, AfterDisposed, StartInit, Calls, Methods
<1>4. CleanupHasMap /\ CleanupTask /\ Progress /\ OnlyFailedStopsLeak
  BY <1>2, OpsFacts DEF Init, CleanupHasMap, CleanupTask, Progress, OnlyFailedStopsLeak
<1> QED BY <1>1, <1>3, <1>4 DEF IInv

LEMMA IInvStep ==
  ASSUME Overlap = {}, IInv, [Next]_vars
  PROVE  IInv'
<1>0. TypeOK'
  BY TypeStep DEF IInv
<1>1. CASE UNCHANGED vars
  BY <1>0, <1>1 DEF vars, IInv, Sequential, AfterDisposed, StartInit, CleanupHasMap,
                   CleanupTask, Progress, OnlyFailedStopsLeak
<1>2. CASE Start \/ StartSettles
  BY <1>2, StartSafe
<1>3. CASE Pause \/ PauseSettles \/ Stop \/ StopSettled
  BY <1>3, StopSafe
<1>4. CASE Dispose \/ DisposeSettles \/ ReleaseSettles("cleanup")
  BY <1>4, ReleaseSafe
<1>5. CASE \E t \in Toggles : \/ ToggleSettles(t)
                          \/ \E n \in Nodes : SetNodeDown(t, n) \/ SetNodeUp(t, n)
  BY <1>5, ToggleSafe
<1>6. CASE GuestStep \/ TimerFires
  BY <1>0, <1>6, GuestSafe
<1> QED BY <1>1, <1>2, <1>3, <1>4, <1>5, <1>6 DEF Next, ClientStep

(* A client that awaits each call never loses a guest node other than one     *)
(* whose stop() rejected: for every number of appliances, any choice of       *)
(* methods and any pattern of runtime failures.                               *)
THEOREM NoLeak == ASSUME Overlap = {} PROVE Spec => []OnlyFailedStopsLeak
<1>1. IInv /\ [Next]_vars => IInv'
  BY IInvStep
<1>2. IInv => OnlyFailedStopsLeak
  BY DEF IInv
<1> QED BY IInvInit, <1>1, <1>2, PTL DEF Spec

-----------------------------------------------------------------------------
(* A paused or stopped lab of such a client is at rest.                       *)

(* The engine states in which a call can be outstanding.                      *)
CallStates ==
  /\ task["start"] # Idle => state \in {"starting", "failed"}
  /\ task["pause"] # Idle => state = "pausing"
  /\ task["stop"] # Idle => state = "stopping"
  /\ \A t \in Toggles : task[t].pc = "up" => state \in {"running", "failed"}

(* Only a running lab arms the wake, and only dispose() leaves it armed.      *)
TimerRunning == timer => state \in {"running", "disposed"}

(* Entry j has been passed by a loop that stops the appliances.               *)
Rested(j) == ~active[j] /\ (rt[j] = "running" => j \in stopFailed)

RestLoop == \A op \in {"pause", "stop"} :
              task[op].pc = "stop" => \A j \in inMap : j < task[op].at => Rested(j)

EntriesAtRest == state \in {"paused", "stopped"} => \A j \in inMap : Rested(j)

RestInv == IInv /\ CallStates /\ TimerRunning /\ RestLoop /\ EntriesAtRest

LEMMA RestIsAtRest == RestInv => AtRest
BY DEF RestInv, AtRest, EntriesAtRest, TimerRunning, Rested

(* A step that activates nothing and starts no runtime keeps what the loops   *)
(* have passed at rest.                                                       *)
LEMMA QuietStep ==
  ASSUME RestInv,
         \A n \in Nodes : (active'[n] => active[n]) /\ (rt'[n] = "running" => rt[n] = "running"),
         stopFailed \subseteq stopFailed', inMap' \subseteq inMap,
         \A op \in {"pause", "stop"} : task'[op] = task[op],
         state' = state \/ state' \in {"running", "failed", "disposed"}
  PROVE  RestLoop' /\ EntriesAtRest'
<1>1. \A j \in inMap' : j \in inMap /\ (Rested(j) => Rested(j)')
  BY DEF RestInv, IInv, TypeOK, Rested
<1> QED BY <1>1 DEF RestInv, RestLoop, EntriesAtRest

(* start(): no other call is outstanding, and the wake is not armed before    *)
(* the lab runs.                                                              *)
LEMMA StartRest ==
  ASSUME Overlap = {}, RestInv, Start \/ StartSettles
  PROVE  CallStates' /\ TimerRunning' /\ RestLoop' /\ EntriesAtRest'
<1> USE OpsFacts DEF Calls, Methods
<1>1. /\ \A op \in Calls \ {"start"} : task[op] = Idle
      /\ state \in {"new", "paused", "stopped", "starting", "failed"}
  <2>1. CASE Start
    BY <2>1, MayCallAlone DEF Start
  <2>2. CASE StartSettles
    <3>0. \/ task["start"].pc = "cleanup"
          \/ \E n \in Nodes : Awaiting("start", "init", n) \/ Awaiting("start", "boot", n)
      BY <2>2 DEF StartSettles, StartRejects, InitResolves, BootResolves, StartCallRejects
    <3>1. task["start"] # Idle
      <4>1. CASE task["start"].pc = "cleanup"
        BY <4>1 DEF Idle
      <4>2. ASSUME NEW n, Awaiting("start", "init", n) \/ Awaiting("start", "boot", n)
            PROVE  task["start"] # Idle
        BY <4>2 DEF Awaiting, At, Idle
      <4> QED BY <3>0, <4>1, <4>2
    <3> QED BY <3>1 DEF RestInv, CallStates, IInv, Sequential
  <2> QED BY <2>1, <2>2
<1>2. ~timer
  BY <1>1 DEF RestInv, TimerRunning
<1>3. ASSUME NEW r, StartThrows(r), timer' => timer
      PROVE  CallStates' /\ TimerRunning' /\ RestLoop' /\ EntriesAtRest'
  <2>1. \A op \in Calls \ {"start"} : task'[op] = Idle
    BY <1>1, <1>3, StartThrowsMoves DEF StartMoves, RestInv, IInv
  <2>2. state' = "failed"
    BY <1>3 DEF StartThrows
  <2> QED BY <1>2, <1>3, <2>1, <2>2
          DEF CallStates, TimerRunning, RestLoop, EntriesAtRest, Idle
<1>4. ASSUME NEW k, NEW st \in {"starting", "failed"}, NEW r, BootFrom(k, st, r)
      PROVE  CallStates' /\ TimerRunning' /\ RestLoop' /\ EntriesAtRest'
  <2>1. \A op \in Calls \ {"start"} : task'[op] = Idle
    BY <1>1, <1>4, BootFromMoves DEF StartMoves, RestInv, IInv
  <2>2. \/ StartThrows(r) /\ timer' = timer
        \/ state' = "running" /\ task'["start"] = Idle
        \/ state' = st /\ timer' = timer
    BY <1>4 DEF BootFrom, EnterRunning, fabric, RestInv, IInv, TypeOK
  <2>3. CASE state' = "running" /\ task'["start"] = Idle
    BY <2>1, <2>3 DEF CallStates, TimerRunning, RestLoop, EntriesAtRest, Idle
  <2>4. CASE state' = st /\ timer' = timer
    BY <1>2, <2>1, <2>4, TogglesIdle DEF CallStates, TimerRunning, RestLoop, EntriesAtRest, Idle
  <2> QED BY <1>3, <2>2, <2>3, <2>4
<1>5. ASSUME NEW n, NEW st \in {"starting", "failed"}, NEW r, Construct(n, st, r)
      PROVE  CallStates' /\ TimerRunning' /\ RestLoop' /\ EntriesAtRest'
  <2>1. \A op \in Calls \ {"start"} : task'[op] = Idle
    BY <1>1, <1>5 DEF Construct, RestInv, IInv, TypeOK
  <2> QED BY <1>2, <1>5, <2>1, TogglesIdle
          DEF Construct, fabric, CallStates, TimerRunning, RestLoop, EntriesAtRest, Idle
<1>6. ASSUME NEW pc, NEW n, Awaiting("start", pc, n), pc # "idle"
      PROVE  state \in {"starting", "failed"}
  BY <1>6 DEF Awaiting, At, Idle, RestInv, CallStates
<1>7. CASE Start
  BY <1>4, <1>5, <1>7 DEF Start
<1>8. CASE StartRejects
  <2>1. task'["start"] = Idle /\ \A op \in Calls \ {"start"} : task'[op] = Idle
    BY <1>1, <1>8 DEF StartRejects, RestInv, IInv, TypeOK
  <2> QED BY <1>1, <1>2, <1>8, <2>1, QuietStep, TogglesIdle
          DEF StartRejects, fabric, machine, CallStates, TimerRunning, Idle
<1>9. ASSUME NEW n \in Nodes, InitResolves(n) PROVE CallStates' /\ TimerRunning' /\ RestLoop' /\ EntriesAtRest'
  <2>1. state \in {"starting", "failed"}
    BY <1>6, <1>9 DEF InitResolves
  <2> QED BY <1>4, <1>5, <1>9, <2>1 DEF InitResolves
<1>10. ASSUME NEW n \in Nodes, BootResolves(n) PROVE CallStates' /\ TimerRunning' /\ RestLoop' /\ EntriesAtRest'
  <2>1. state \in {"starting", "failed"}
    BY <1>6, <1>10 DEF BootResolves
  <2> QED BY <1>3, <1>4, <1>10, <2>1 DEF BootResolves, fabric
<1>11. ASSUME NEW n \in Nodes, StartCallRejects(n) PROVE CallStates' /\ TimerRunning' /\ RestLoop' /\ EntriesAtRest'
  BY <1>3, <1>11 DEF StartCallRejects
<1> QED BY <1>7, <1>8, <1>9, <1>10, <1>11 DEF StartSettles

(* The loop of pause() or stop() goes on after k, which and the entries       *)
(* before which are at rest but for `active` of k.                            *)
LEMMA StopLoopRests ==
  ASSUME TypeOK, NEW op \in {"pause", "stop"}, NEW k \in Int, NEW transient, NEW final,
         StopLoop(op, k, transient, final, rt'),
         \A j \in inMap : j < k => ~active[j],
         \A j \in inMap : j <= k /\ rt'[j] = "running" => j \in stopFailed'
  PROVE  \/ /\ task'[op] = Idle /\ state' = final
            /\ \A j \in inMap : Rested(j)'
         \/ /\ task'[op].pc = "stop" /\ state' = transient
            /\ \A j \in inMap : j < task'[op].at => Rested(j)'
<1> USE OpsFacts
<1>0. inMap \subseteq Int /\ inMap \subseteq Nodes
  BY EngineAssumption DEF TypeOK, Nodes
<1> DEFINE rest == {j \in After(k, inMap) : rt'[j] = "running"}
           from == {j \in inMap : j >= k}
<1>1. CASE /\ rest = {}
           /\ active' = [n \in Nodes |-> active[n] /\ n \notin from]
           /\ task' = [task EXCEPT ![op] = Idle]
           /\ state' = final
  <2>1. task'[op] = Idle
    BY <1>1 DEF TypeOK
  <2>2. ASSUME NEW j \in inMap PROVE Rested(j)'
    <3>0. j \in from \/ ~active[j]
      BY <1>0
    <3>1. ~active'[j]
      BY <1>0, <1>1, <3>0
    <3>2. rt'[j] = "running" => j \in stopFailed'
      BY <1>0, <1>1 DEF After
    <3> QED BY <3>1, <3>2 DEF Rested
  <2> QED BY <1>1, <2>1, <2>2
<1>2. ASSUME NEW i \in rest, First(i, rest),
             active' = [n \in Nodes |-> active[n] /\ n \notin {x \in from : x < i}],
             task' = [task EXCEPT ![op] = At("stop", i)],
             state' = transient
      PROVE  /\ task'[op].pc = "stop"
             /\ \A j \in inMap : j < task'[op].at => Rested(j)'
  <2>1. task'[op].pc = "stop" /\ task'[op].at = i
    BY <1>2 DEF TypeOK, At
  <2>2. ASSUME NEW j \in inMap, j < i PROVE Rested(j)'
    <3>0. j \in {x \in from : x < i} \/ ~active[j]
      BY <1>0, <2>2
    <3>1. ~active'[j]
      BY <1>0, <1>2, <3>0
    <3>2. j \notin rest
      BY <1>0, <1>2, <2>2 DEF First, After
    <3>3. rt'[j] = "running" => j \in stopFailed'
      BY <1>0, <3>2 DEF After
    <3> QED BY <3>1, <3>3 DEF Rested
  <2> QED BY <2>1, <2>2
<1>3. \/ /\ rest = {}
         /\ active' = [n \in Nodes |-> active[n] /\ n \notin from]
         /\ task' = [task EXCEPT ![op] = Idle]
         /\ state' = final
      \/ \E i \in rest :
           /\ First(i, rest)
           /\ active' = [n \in Nodes |-> active[n] /\ n \notin {x \in from : x < i}]
           /\ task' = [task EXCEPT ![op] = At("stop", i)]
           /\ state' = transient
  BY DEF StopLoop
<1>4. CASE \E i \in rest : First(i, rest)
           /\ active' = [n \in Nodes |-> active[n] /\ n \notin {x \in from : x < i}]
           /\ task' = [task EXCEPT ![op] = At("stop", i)]
           /\ state' = transient
  <2> PICK i \in rest : /\ First(i, rest)
           /\ active' = [n \in Nodes |-> active[n] /\ n \notin {x \in from : x < i}]
           /\ task' = [task EXCEPT ![op] = At("stop", i)]
           /\ state' = transient
    BY <1>4
  <2> QED BY <1>2
<1> QED BY <1>1, <1>3, <1>4

(* pause() and stop(): at the end of the loop every entry is at rest.         *)
LEMMA StopRest ==
  ASSUME Overlap = {}, RestInv, Pause \/ PauseSettles \/ Stop \/ StopSettled
  PROVE  CallStates' /\ TimerRunning' /\ RestLoop' /\ EntriesAtRest'
<1> USE OpsFacts DEF Calls, Methods
<1>0. /\ TypeOK
      /\ \A j \in inMap : ~(j <= 0) /\ ~(j < 0)
      /\ inMap \subseteq Int
  BY EngineAssumption DEF RestInv, IInv, TypeOK, Nodes
<1>1. ASSUME NEW op \in {"pause", "stop"}, NEW k \in Int, NEW transient, NEW final,
             StopLoop(op, k, transient, final, rt'),
             op = "pause" => transient = "pausing" /\ final = "paused",
             op = "stop" => transient = "stopping" /\ final = "stopped",
             \A o \in Calls \ {op} : task[o] = Idle,
             inMap' = inMap, timer' => FALSE,
             \A j \in inMap : j < k => ~active[j],
             \A j \in inMap : j <= k /\ rt'[j] = "running" => j \in stopFailed'
      PROVE  CallStates' /\ TimerRunning' /\ RestLoop' /\ EntriesAtRest'
  <2>1. \A o \in Calls \ {op} : task'[o] = Idle
    BY <1>0, <1>1 DEF StopLoop, TypeOK
  <2>2. \/ /\ task'[op] = Idle /\ state' = final
           /\ \A j \in inMap : Rested(j)'
        \/ /\ task'[op].pc = "stop" /\ state' = transient
           /\ \A j \in inMap : j < task'[op].at => Rested(j)'
    BY <1>0, <1>1, StopLoopRests
  <2>3. CallStates' /\ TimerRunning'
    BY <1>1, <2>1, <2>2, TogglesIdle DEF CallStates, TimerRunning, Idle
  <2>4. RestLoop'
    BY <1>1, <2>1, <2>2 DEF RestLoop, Idle
  <2>5. EntriesAtRest'
    BY <1>1, <2>2 DEF EntriesAtRest
  <2> QED BY <2>3, <2>4, <2>5
<1>2. CASE Pause
  <2>1. \A o \in Calls : task[o] = Idle
    BY <1>2, MayCallAlone DEF Pause
  <2>2. ~timer' /\ inMap' = inMap /\ rt' = rt /\ stopFailed' = stopFailed /\ state = "running"
    BY <1>2 DEF Pause, machine
  <2>3. UNCHANGED <<state, active, task>> \/ StopLoop("pause", 0, "pausing", "paused", rt')
    BY <1>2, <2>2 DEF Pause
  <2>4. CASE UNCHANGED <<state, active, task>>
    BY <2>1, <2>2, <2>4, QuietStep DEF CallStates, TimerRunning, Idle
  <2>5. CASE StopLoop("pause", 0, "pausing", "paused", rt')
    BY <1>0, <1>1, <2>1, <2>2, <2>5
  <2> QED BY <2>3, <2>4, <2>5
<1>3. CASE Stop
  <2>1. \A o \in Calls : task[o] = Idle
    BY <1>3, MayCallAlone DEF Stop
  <2>2. ~timer' /\ inMap' = inMap /\ rt' = rt /\ StopLoop("stop", 0, "stopping", "stopped", rt')
    BY <1>3 DEF Stop
  <2> QED BY <1>0, <1>1, <2>1, <2>2
<1>4. ASSUME NEW op \in {"pause", "stop"}, NEW n \in Nodes, NEW ok \in BOOLEAN,
             Awaiting(op, "stop", n), StopSettles(n, ok)
      PROVE  /\ \A o \in Calls \ {op} : task[o] = Idle
             /\ state = IF op = "pause" THEN "pausing" ELSE "stopping"
             /\ ~timer
             /\ \A j \in inMap : j < n => ~active[j]
             /\ \A j \in inMap : j <= n /\ rt'[j] = "running" => j \in stopFailed'
             /\ n \in Int
  <2>1. task[op].pc = "stop" /\ task[op].at = n /\ task[op] # Idle
    BY <1>4 DEF Awaiting, At, Idle
  <2>2. \A o \in Calls \ {op} : task[o] = Idle
    BY <2>1 DEF RestInv, IInv, Sequential
  <2>3. state = IF op = "pause" THEN "pausing" ELSE "stopping"
    BY <2>1 DEF RestInv, CallStates
  <2>4. \A j \in inMap : j < n => Rested(j)
    BY <2>1 DEF RestInv, RestLoop
  <2>5. n \in Int
    BY EngineAssumption DEF Nodes
  <2>6. ASSUME NEW j \in inMap, j <= n, rt'[j] = "running" PROVE j \in stopFailed'
    <3>1. CASE j < n
      <4>1. rt[j] = "running" \/ rt'[j] = "stopped"
        BY <1>0, <1>4, <2>6 DEF StopSettles, TypeOK
      <4> QED BY <1>4, <2>4, <2>6, <3>1, <4>1 DEF Rested, StopSettles
    <3>2. CASE j = n
      BY <1>0, <1>4, <2>6, <3>2 DEF StopSettles, TypeOK
    <3> QED BY <1>0, <2>5, <2>6, <3>1, <3>2
  <2> QED BY <2>2, <2>3, <2>4, <2>5, <2>6 DEF Rested, RestInv, TimerRunning
<1>5. ASSUME NEW n \in Nodes, NEW ok \in BOOLEAN, PauseStopped(n, ok)
      PROVE  CallStates' /\ TimerRunning' /\ RestLoop' /\ EntriesAtRest'
  <2>1. /\ Awaiting("pause", "stop", n) /\ StopSettles(n, ok)
        /\ inMap' = inMap /\ timer' = timer
    BY <1>5 DEF PauseStopped, fabric
  <2>2. CASE ok
    <3>1. StopLoop("pause", n, state, "paused", rt')
      BY <1>5, <2>2 DEF PauseStopped
    <3> QED BY <1>1, <1>4, <2>1, <3>1
  <2>3. CASE ~ok
    <3>1. task' = [task EXCEPT !["pause"] = Idle] /\ state' = state
      BY <1>5, <2>3 DEF PauseStopped
    <3>2. \A o \in Calls : task'[o] = Idle
      BY <1>0, <1>4, <2>1, <3>1 DEF TypeOK
    <3> QED BY <1>4, <2>1, <3>1, <3>2, TogglesIdle
            DEF CallStates, TimerRunning, RestLoop, EntriesAtRest, Idle
  <2> QED BY <2>2, <2>3
<1>6. ASSUME NEW n \in Nodes, NEW ok \in BOOLEAN, StopStopped(n, ok)
      PROVE  CallStates' /\ TimerRunning' /\ RestLoop' /\ EntriesAtRest'
  BY <1>1, <1>4, <1>6 DEF StopStopped
<1> QED BY <1>2, <1>3, <1>5, <1>6 DEF PauseSettles, StopSettled

(* dispose() and the failure cleanup only stop and release.                   *)
LEMMA ReleaseRest ==
  ASSUME Overlap = {}, RestInv, Dispose \/ DisposeSettles \/ ReleaseSettles("cleanup")
  PROVE  CallStates' /\ TimerRunning' /\ RestLoop' /\ EntriesAtRest'
<1> USE OpsFacts DEF Calls, Methods
<1>1. ASSUME NEW op \in {"dispose", "cleanup"}, NEW k, NEW r, ReleaseLoop(op, k, r)
      PROVE  /\ \A o \in Calls \ {"dispose"} : task'[o] = task[o]
             /\ state' = state \/ (op = "dispose" /\ state' = "disposed")
             /\ inMap' \subseteq inMap
  BY <1>1 DEF ReleaseLoop, Released, RestInv, IInv, TypeOK
<1>2. ASSUME NEW n \in Nodes, NEW ok \in BOOLEAN, StopSettles(n, ok)
      PROVE  /\ \A x \in Nodes : rt'[x] = "running" => rt[x] = "running"
             /\ stopFailed \subseteq stopFailed'
  BY <1>2 DEF StopSettles, RestInv, IInv, TypeOK
<1>3. /\ \A o \in Calls \ {"dispose"} : task'[o] = task[o]
      /\ state' = state \/ (task["dispose"] # Idle /\ state' = "disposed")
                        \/ ((\A o \in Calls \ {"dispose"} : task[o] = Idle) /\ state' = "disposed")
      /\ inMap' \subseteq inMap
      /\ \A x \in Nodes : rt'[x] = "running" => rt[x] = "running"
      /\ active' = active
      /\ stopFailed \subseteq stopFailed'
      /\ timer' => timer
  <2>1. CASE Dispose
    <3>1. \A o \in Calls \ {"dispose"} : task[o] = Idle
      BY <2>1, MayCallAlone DEF Dispose
    <3>2. CASE cleanup = "running"
      BY <2>1, <3>1, <3>2 DEF Dispose, machine, RestInv, IInv, TypeOK
    <3>3. CASE cleanup # "running"
      BY <1>1, <2>1, <3>1, <3>3 DEF Dispose, machine
    <3> QED BY <3>2, <3>3
  <2>2. CASE DisposeProceeds
    <3>1. task["dispose"] # Idle
      BY <2>2 DEF DisposeProceeds, Idle
    <3> QED BY <1>1, <2>2, <3>1 DEF DisposeProceeds, machine
  <2>3. ASSUME NEW op \in {"dispose", "cleanup"}, NEW n \in Nodes, NEW ok \in BOOLEAN, ReleaseStopped(op, n, ok)
        PROVE  /\ \A o \in Calls \ {"dispose"} : task'[o] = task[o]
               /\ state' = state \/ (task["dispose"] # Idle /\ state' = "disposed")
               /\ inMap' \subseteq inMap
               /\ \A x \in Nodes : rt'[x] = "running" => rt[x] = "running"
               /\ active' = active
               /\ stopFailed \subseteq stopFailed'
               /\ timer' => timer
    <3>1. task[op] # Idle
      BY <2>3 DEF ReleaseStopped, Awaiting, At, Idle
    <3>2. CASE ok
      BY <1>2, <2>3, <3>2 DEF ReleaseStopped, RestInv, IInv, TypeOK
    <3>3. CASE ~ok
      BY <1>1, <1>2, <2>3, <3>1, <3>3 DEF ReleaseStopped
    <3> QED BY <3>2, <3>3
  <2>4. ASSUME NEW op \in {"dispose", "cleanup"}, NEW n \in Nodes, ReleaseDisposed(op, n)
        PROVE  /\ \A o \in Calls \ {"dispose"} : task'[o] = task[o]
               /\ state' = state \/ (task["dispose"] # Idle /\ state' = "disposed")
               /\ inMap' \subseteq inMap
               /\ \A x \in Nodes : rt'[x] = "running" => rt[x] = "running"
               /\ active' = active
               /\ stopFailed \subseteq stopFailed'
               /\ timer' => timer
    <3>1. task[op] # Idle
      BY <2>4 DEF ReleaseDisposed, Awaiting, At, Idle
    <3>2. \A x \in Nodes : rt'[x] = "running" => rt[x] = "running"
      BY <2>4 DEF ReleaseDisposed, RestInv, IInv, TypeOK
    <3>3. ReleaseLoop(op, n, rt')
      BY <2>4 DEF ReleaseDisposed
    <3> QED BY <1>1, <2>4, <3>1, <3>2, <3>3 DEF ReleaseDisposed
  <2> QED BY <2>1, <2>2, <2>3, <2>4 DEF DisposeSettles, ReleaseSettles
<1>4. RestLoop' /\ EntriesAtRest'
  BY <1>3, QuietStep
<1>5. state' = state \/ (state' = "disposed" /\ \A o \in Calls \ {"dispose"} : task'[o] = Idle)
  BY <1>3 DEF RestInv, IInv, Sequential
<1>6. \A t \in Toggles : task'[t] = task[t] /\ (state' = "disposed" /\ state # "disposed" => task'[t].pc = "idle")
  <2> SUFFICES ASSUME NEW t \in Toggles
               PROVE  task'[t] = task[t] /\ (state' = "disposed" /\ state # "disposed" => task'[t].pc = "idle")
    OBVIOUS
  <2>1. t \in Calls \ {"dispose"}
    BY OpsFacts
  <2> QED BY <1>3, <1>5, <2>1 DEF Idle
<1> QED BY <1>3, <1>4, <1>5, <1>6 DEF RestInv, CallStates, TimerRunning, Idle

(* setNodeState() starts an appliance only in a lab that was running.         *)
LEMMA ToggleRest ==
  ASSUME Overlap = {}, RestInv, NEW t \in Toggles,
         ToggleSettles(t) \/ \E n \in Nodes : SetNodeDown(t, n) \/ SetNodeUp(t, n)
  PROVE  CallStates' /\ TimerRunning' /\ RestLoop' /\ EntriesAtRest'
<1> USE OpsFacts DEF Calls, Methods
<1>1. \A o \in Calls \ {t} : task[o] = Idle
  <2>1. CASE \E n \in Nodes : SetNodeDown(t, n) \/ SetNodeUp(t, n)
    BY <2>1, MayCallAlone DEF SetNodeDown, SetNodeUp
  <2>2. CASE ToggleSettles(t)
    <3>1. \E n \in Nodes, pc \in {"up", "down", "iface"} : Awaiting(t, pc, n)
      BY <2>2 DEF ToggleSettles, NodeStarted, NodeStartRejects, NodeStopped, InterfacesSet
    <3>2. task[t] # Idle
      BY <3>1 DEF Awaiting, At, Idle
    <3> QED BY <3>2 DEF RestInv, IInv, Sequential
  <2> QED BY <2>1, <2>2
<1>2. ASSUME UNCHANGED <<state, inMap, rt, active, machine>>,
             \A o \in Calls \ {t} : task'[o] = Idle,
             task'[t].pc = "up" => state = "running",
             timer' => timer \/ state = "running"
      PROVE  CallStates' /\ TimerRunning' /\ RestLoop' /\ EntriesAtRest'
  BY <1>1, <1>2, QuietStep DEF machine, CallStates, TimerRunning, RestInv, Idle
<1>3. ASSUME NEW n \in Nodes, SetNodeDown(t, n)
      PROVE  CallStates' /\ TimerRunning' /\ RestLoop' /\ EntriesAtRest'
  <2>1. /\ \A o \in Calls \ {t} : task'[o] = Idle
        /\ task' = task \/ task'[t].pc = "down"
    BY <1>1, <1>3 DEF SetNodeDown, At, RestInv, IInv, TypeOK
  <2>2. task[t] = Idle
    BY <1>3, MayCallAlone DEF SetNodeDown
  <2>3. timer' => timer \/ state = "running"
    BY <1>3 DEF SetNodeDown, NodeIsDown, Armed
  <2> QED BY <1>2, <1>3, <2>1, <2>2, <2>3 DEF SetNodeDown, Idle
<1>4. ASSUME NEW n \in Nodes, SetNodeUp(t, n)
      PROVE  CallStates' /\ TimerRunning' /\ RestLoop' /\ EntriesAtRest'
  <2>1. /\ \A o \in Calls \ {t} : task'[o] = Idle
        /\ task' = task \/ state = "running"
    BY <1>1, <1>4 DEF SetNodeUp, At, RestInv, IInv, TypeOK
  <2>2. task[t] = Idle
    BY <1>4, MayCallAlone DEF SetNodeUp
  <2>3. timer' => timer \/ state = "running"
    BY <1>4 DEF SetNodeUp, Armed
  <2> QED BY <1>2, <1>4, <2>1, <2>2, <2>3 DEF SetNodeUp, Idle
<1>5. ASSUME NEW n \in Nodes, NodeStarted(t, n)
      PROVE  CallStates' /\ TimerRunning' /\ RestLoop' /\ EntriesAtRest'
  <2>1. state \in {"running", "failed"} /\ state' = state /\ timer' = timer
    BY <1>5 DEF NodeStarted, Awaiting, At, RestInv, CallStates, fabric
  <2>2. \A o \in Calls \ {t} : task'[o] = Idle
    BY <1>1, <1>5 DEF NodeStarted, RestInv, IInv, TypeOK
  <2>3. task'[t].pc # "up"
    BY <1>5 DEF NodeStarted, At, RestInv, IInv, TypeOK
  <2> QED BY <2>1, <2>2, <2>3
          DEF CallStates, TimerRunning, RestLoop, EntriesAtRest, RestInv, Idle
<1>6. ASSUME NEW n \in Nodes, NodeStartRejects(t, n)
      PROVE  CallStates' /\ TimerRunning' /\ RestLoop' /\ EntriesAtRest'
  <2>1. state \in {"running", "failed"}
    BY <1>6 DEF NodeStartRejects, Awaiting, At, RestInv, CallStates
  <2> DEFINE u == [task EXCEPT ![t] = Idle]
  <2>2. u \in [Ops -> Awaits] /\ u["cleanup"] = task["cleanup"] /\ Fail({n}, u) /\ TypeOK
    BY <1>6, TaskTypes DEF NodeStartRejects, RestInv, IInv, TypeOK
  <2>3. \A o \in Calls : u[o] = Idle
    BY <1>1 DEF RestInv, IInv, TypeOK
  <2>4. \A o \in Calls : task'[o] = Idle
    BY <2>2, <2>3, FailMoves, ZenonT(60)
  <2>5. state' = "failed" /\ (timer' => timer /\ state = "failed")
    BY <2>1, <2>2 DEF Fail
  <2> QED BY <2>4, <2>5
          DEF CallStates, TimerRunning, RestLoop, EntriesAtRest, RestInv, Idle
<1>7. ASSUME NEW n \in Nodes, NEW ok \in BOOLEAN, NodeStopped(t, n, ok)
      PROVE  CallStates' /\ TimerRunning' /\ RestLoop' /\ EntriesAtRest'
  <2>1. \A o \in Calls : task'[o] = Idle
    BY <1>1, <1>7 DEF NodeStopped, RestInv, IInv, TypeOK
  <2>2. /\ state' = state /\ inMap' = inMap /\ stopFailed \subseteq stopFailed'
        /\ timer' => timer \/ state = "running"
    BY <1>7 DEF NodeStopped, StopSettles, NodeIsDown, Armed
  <2>3. \A x \in Nodes : rt'[x] = "running" => rt[x] = "running"
    BY <1>7 DEF NodeStopped, StopSettles, RestInv, IInv, TypeOK
  <2>4. \A x \in Nodes : active'[x] => active[x]
    BY <1>7 DEF NodeStopped, RestInv, IInv, TypeOK
  <2>5. \A x \in Toggles : task'[x].pc # "up"
    <3>1. \A x \in Toggles : task'[x] = Idle
      BY <2>1 DEF Calls
    <3>2. Idle.pc # "up"
      BY DEF Idle
    <3> HIDE DEF Idle
    <3> QED BY <3>1, <3>2
  <2>6. \A op \in {"pause", "stop"} : task'[op] = task[op]
    BY <1>1, <2>1
  <2>7. RestLoop' /\ EntriesAtRest'
    BY <2>2, <2>3, <2>4, <2>6, QuietStep
  <2> QED BY <2>1, <2>2, <2>5, <2>7 DEF CallStates, TimerRunning, RestInv
<1>8. ASSUME NEW n \in Nodes, NEW ok \in BOOLEAN, InterfacesSet(t, n, ok)
      PROVE  CallStates' /\ TimerRunning' /\ RestLoop' /\ EntriesAtRest'
  <2>1. \A o \in Calls : task'[o] = Idle
    BY <1>1, <1>8 DEF InterfacesSet, RestInv, IInv, TypeOK
  <2>2. timer' => timer \/ state = "running"
    BY <1>8 DEF InterfacesSet, Armed, fabric
  <2>3. UNCHANGED <<state, inMap, rt, active, machine>>
    BY <1>8 DEF InterfacesSet
  <2>4. task'[t] = Idle
    BY <2>1, OpsFacts
  <2>5. task'[t].pc # "up"
    BY <2>4 DEF Idle
  <2> QED BY <1>2, <2>1, <2>2, <2>3, <2>5
<1> QED BY <1>3, <1>4, <1>5, <1>6, <1>7, <1>8 DEF ToggleSettles

(* Guests and the wake timer.                                                 *)
LEMMA GuestRest ==
  ASSUME RestInv, GuestStep \/ TimerFires
  PROVE  CallStates' /\ TimerRunning' /\ RestLoop' /\ EntriesAtRest'
<1> USE OpsFacts DEF Calls, Methods
<1>1. ASSUME NEW n \in Nodes, NEW m \in Nodes, TransmitFrame(n, m)
      PROVE  CallStates' /\ TimerRunning' /\ RestLoop' /\ EntriesAtRest'
  BY <1>1, QuietStep DEF TransmitFrame, Armed, machine, RestInv, CallStates, TimerRunning
<1>2. ASSUME NEW S, Fail(S, task)
      PROVE  CallStates' /\ TimerRunning' /\ RestLoop' /\ EntriesAtRest'
  <2>1. task \in [Ops -> Awaits] /\ TypeOK
    BY DEF RestInv, IInv, TypeOK
  <2>2. \A op \in Calls : task'[op] = task[op]
    BY <1>2, <2>1, FailMoves
  <2>3. /\ state' = state \/ (state \in {"running", "starting"} /\ state' = "failed")
        /\ timer' => timer /\ state' = state
        /\ inMap' = inMap /\ stopFailed' = stopFailed
    BY <1>2 DEF Fail, machine, RestInv, TimerRunning
  <2>4. \A n \in Nodes : active'[n] => active[n]
    BY <1>2 DEF Fail
  <2>5. \A n \in Nodes : rt'[n] = "running" => rt[n] = "running"
    BY <1>2 DEF Fail
  <2> QED BY <2>2, <2>3, <2>4, <2>5, QuietStep DEF RestInv, CallStates, TimerRunning
<1>3. CASE TimerFires
  <2>1. /\ state' = state \/ state' = "failed"
        /\ timer' => state' = "running"
        /\ timer
        /\ UNCHANGED <<inMap, rt, active, task, stopFailed>>
    BY <1>3 DEF TimerFires, machine
  <2> QED BY <2>1, QuietStep DEF RestInv, CallStates, TimerRunning, IInv, AfterDisposed, Idle
<1> QED BY <1>1, <1>2, <1>3 DEF GuestStep, NodeExits, MachineFails

LEMMA RestStep ==
  ASSUME Overlap = {}, RestInv, [Next]_vars
  PROVE  RestInv'
<1>0. IInv'
  BY IInvStep DEF RestInv
<1>1. CASE UNCHANGED vars
  BY <1>0, <1>1 DEF vars, RestInv, CallStates, TimerRunning, RestLoop, EntriesAtRest, Rested
<1>2. CASE Start \/ StartSettles
  BY <1>0, <1>2, StartRest DEF RestInv
<1>3. CASE Pause \/ PauseSettles \/ Stop \/ StopSettled
  BY <1>0, <1>3, StopRest DEF RestInv
<1>4. CASE Dispose \/ DisposeSettles \/ ReleaseSettles("cleanup")
  BY <1>0, <1>4, ReleaseRest DEF RestInv
<1>5. CASE \E t \in Toggles : \/ ToggleSettles(t)
                          \/ \E n \in Nodes : SetNodeDown(t, n) \/ SetNodeUp(t, n)
  BY <1>0, <1>5, ToggleRest DEF RestInv
<1>6. CASE GuestStep \/ TimerFires
  BY <1>0, <1>6, GuestRest DEF RestInv
<1> QED BY <1>1, <1>2, <1>3, <1>4, <1>5, <1>6 DEF Next, ClientStep

LEMMA RestInit == Init => RestInv
<1> SUFFICES ASSUME Init PROVE RestInv
  OBVIOUS
<1>1. \A op \in Calls : task[op] = Idle
  BY OpsFacts DEF Init, Calls, Methods
<1> QED BY <1>1, IInvInit, OpsFacts, TogglesIdle
        DEF Init, RestInv, CallStates, TimerRunning, RestLoop, EntriesAtRest, Idle

(* A paused or stopped lab of a client that awaits each call is at rest, for  *)
(* every number of appliances: no wake is armed, no appliance is stepped, and *)
(* only one whose stop() rejected still runs.                                 *)
THEOREM PausedIsAtRest == ASSUME Overlap = {} PROVE Spec => []AtRest
<1>1. RestInv /\ [Next]_vars => RestInv'
  BY RestStep
<1> QED BY RestInit, RestIsAtRest, <1>1, PTL DEF Spec

-----------------------------------------------------------------------------
(* The application's client: it may make any call while toggles of nodes are  *)
(* outstanding, none while start(), pause() or dispose() is, and it does not  *)
(* call stop(). The lab is booted when it runs, and what is active runs.      *)

(* One method at a time, each in the engine states it has entered.            *)
MethodsAlone == \A a, b \in Methods : a # b => task[a] = Idle \/ task[b] = Idle
MethodStates ==
  /\ task["start"] # Idle => state \in {"starting", "failed"}
  /\ task["pause"] # Idle => state = "pausing"

NoStop == task["stop"] = Idle /\ state \notin {"stopping", "stopped"}

(* Only a failed lab is cleaned up.                                           *)
CleanupFailed == cleanup # "none" => state \in {"failed", "disposed"}

(* start() constructs the appliances in order, all of them before the first   *)
(* boot.                                                                      *)
MapWhole == IF task["start"].pc = "init"
            THEN inMap = 1 .. task["start"].at
            ELSE state \in {"failed", "disposed"} \/ (state = "new" /\ inMap = {}) \/ inMap = Nodes

(* No toggle is outstanding until every appliance is constructed.             *)
NewQuiet == state = "new" \/ task["start"].pc = "init" => \A t \in Toggles : task[t] = Idle
InitFresh == task["start"].pc = "init" => cleanup = "none" /\ \A j \in inMap : ~active[j]

(* The appliances the boot loop has passed still run, unless a toggle took    *)
(* their node down, or the lab has failed.                                    *)
Booting == state = "starting" /\ task["start"].pc = "boot" =>
             \A j \in Nodes : j < task["start"].at /\ nodeUp[j] => rt[j] = "running" /\ active[j]

ActiveRuns == state \in {"new", "starting", "running", "pausing", "paused"} /\ task["dispose"] = Idle =>
                \A n \in inMap : active[n] => rt[n] = "running"

AppParts == /\ MethodsAlone /\ MethodStates /\ NoStop
            /\ TimerRunning /\ CleanupTask /\ CleanupFailed
            /\ MapWhole /\ NewQuiet /\ InitFresh /\ Booting /\ ActiveRuns
AppInv == TypeOK /\ AppParts

(* What entering 'running' promises.                                          *)
Boots == state # "running" /\ state' = "running" =>
           inMap' = Nodes /\ \A n \in Nodes : nodeUp'[n] => rt'[n] = "running" /\ active'[n]

LEMMA AppIsActive == AppInv => ActiveIsRunning
BY DEF AppInv, AppParts, NoStop, ActiveRuns, ActiveIsRunning

(* Whatever such a client calls, it calls while no method is outstanding.     *)
LEMMA MayCallApp ==
  ASSUME Overlap \subseteq Calls \X Toggles, NEW op \in Calls, MayCall(op)
  PROVE  \A o \in Methods : task[o] = Idle
<1> SUFFICES ASSUME NEW o \in Methods, o # op PROVE task[o] = Idle
  BY DEF MayCall
<1>1. o \in Calls \ {op} /\ o \notin Toggles
  BY EngineAssumption DEF Calls
<1>2. <<op, o>> \notin Overlap
  BY <1>1
<1> QED BY <1>1, <1>2 DEF MayCall

(* start() goes on with no other method outstanding and no wake armed.        *)
Starting == ~timer /\ \A o \in {"pause", "stop", "dispose"} : task[o] = Idle

LEMMA StartingApp ==
  ASSUME AppInv, task["start"] # Idle
  PROVE  Starting /\ state \in {"starting", "failed"}
BY DEF AppInv, AppParts, MethodsAlone, MethodStates, TimerRunning, Starting, Methods

(* The catch block of start() leaves a failed lab.                            *)
LEMMA StartThrowsApp ==
  ASSUME AppInv, NEW r, StartThrows(r), Starting, timer' => timer
  PROVE  AppParts' /\ Boots
<1>1. state' = "failed" /\ CleanupMoves /\ task'["start"].pc # "init"
  BY StartThrowsMoves DEF StartThrows, StartMoves, AppInv
<1>2. \A o \in {"pause", "stop", "dispose"} : task'[o] = Idle
  BY StartThrowsMoves, OpsFacts DEF StartMoves, AppInv, Starting
<1>3. CleanupTask'
  BY <1>1 DEF CleanupMoves, AppInv, AppParts, CleanupTask
<1>4. MethodsAlone' /\ MethodStates' /\ NoStop' /\ TimerRunning'
  BY <1>1, <1>2 DEF MethodsAlone, MethodStates, NoStop, TimerRunning, Methods, Starting
<1>5. CleanupFailed' /\ MapWhole' /\ NewQuiet' /\ InitFresh' /\ Booting' /\ ActiveRuns'
  BY <1>1 DEF CleanupFailed, MapWhole, NewQuiet, InitFresh, Booting, ActiveRuns
<1> QED BY <1>1, <1>3, <1>4, <1>5 DEF AppParts, Boots

(* The boot loop after k, when the appliances up to k are up and running.     *)
LEMMA BootFromApp ==
  ASSUME AppInv, NEW k \in Int, NEW st \in {"starting", "failed"},
         NEW r, BootFrom(k, st, r),
         inMap = Nodes, cleanup = "none", Starting,
         \A j \in Nodes : j < k /\ nodeUp[j] => r[j] = "running" /\ active[j],
         k \in Nodes => r[k] = "running",
         \A n \in Nodes : active[n] => r[n] = "running"
  PROVE  AppParts' /\ Boots
<1> USE OpsFacts
<1> DEFINE up      == {j \in After(k, inMap) : nodeUp[j]}
           waiting == {j \in up : r[j] # "running"}
           Activate(S) == [n \in Nodes |-> active[n] \/ n = k \/ n \in S]
<1>0. /\ inMap' = Nodes /\ nodeUp' = nodeUp /\ rt' = r /\ Nodes \subseteq Int
      /\ task \in [Ops -> Awaits]
  BY EngineAssumption DEF BootFrom, Nodes, AppInv, TypeOK
<1>1. CASE StartThrows(r) /\ timer' = timer
  BY <1>1, StartThrowsApp
<1>a. ASSUME UNCHANGED cleanup, \A o \in Ops \ {"start"} : task'[o] = task[o],
             task'["start"].pc # "init",
             task'["start"] # Idle => state' = st /\ ~timer',
             state' = st \/ state' = "running",
             timer' => state' = "running"
      PROVE  /\ MethodsAlone' /\ MethodStates' /\ NoStop' /\ TimerRunning' /\ CleanupTask'
             /\ CleanupFailed' /\ MapWhole' /\ NewQuiet' /\ InitFresh'
  <2>1. \A o \in {"pause", "stop", "dispose"} : task'[o] = Idle
    BY <1>a DEF Starting
  <2>2. MethodsAlone' /\ MethodStates' /\ NoStop' /\ TimerRunning'
    BY <1>a, <2>1 DEF MethodsAlone, MethodStates, NoStop, TimerRunning, Methods
  <2>3. CleanupTask' /\ CleanupFailed'
    BY <1>a DEF AppInv, AppParts, CleanupTask, CleanupFailed
  <2>4. MapWhole' /\ NewQuiet' /\ InitFresh'
    BY <1>0, <1>a DEF MapWhole, NewQuiet, InitFresh
  <2> QED BY <2>2, <2>3, <2>4
<1>2. CASE /\ waiting = {}
           /\ active' = Activate(up)
           /\ state' = "running"
           /\ task' = [task EXCEPT !["start"] = Idle]
           /\ UNCHANGED cleanup
  <2>1. \A j \in Nodes : nodeUp[j] => r[j] = "running" /\ active'[j]
    <3> SUFFICES ASSUME NEW j \in Nodes, nodeUp[j] PROVE r[j] = "running" /\ active'[j]
      OBVIOUS
    <3>1. CASE j < k
      BY <1>2, <3>1
    <3>2. CASE j = k
      BY <1>2, <3>2
    <3>3. CASE j > k
      <4>1. j \in up
        BY <1>0, <3>3 DEF After
      <4> QED BY <1>2, <4>1
    <3> QED BY <1>0, <3>1, <3>2, <3>3
  <2>2. \A n \in Nodes : active'[n] => r[n] = "running"
    <3> SUFFICES ASSUME NEW n \in Nodes, active'[n] PROVE r[n] = "running"
      OBVIOUS
    <3>1. active[n] \/ n = k \/ n \in up
      BY <1>2
    <3> QED BY <1>2, <3>1
  <2>3. task'["start"] = Idle /\ \A o \in Ops \ {"start"} : task'[o] = task[o]
    BY <1>0, <1>2
  <2>4. /\ MethodsAlone' /\ MethodStates' /\ NoStop' /\ TimerRunning' /\ CleanupTask'
        /\ CleanupFailed' /\ MapWhole' /\ NewQuiet' /\ InitFresh'
    BY <1>2, <1>a, <2>3 DEF Idle
  <2>5. Booting' /\ ActiveRuns' /\ Boots
    BY <1>0, <1>2, <2>1, <2>2, <2>3 DEF Booting, ActiveRuns, Boots, Idle
  <2> QED BY <2>4, <2>5 DEF AppParts
<1>3. ASSUME NEW j \in waiting, First(j, waiting),
             active' = Activate({i \in up : i < j}),
             state' = st, timer' = timer,
             task' = [task EXCEPT !["start"] = At("boot", j)],
             UNCHANGED cleanup
      PROVE  AppParts' /\ Boots
  <2>1. /\ task'["start"].pc = "boot" /\ task'["start"].at = j
        /\ \A o \in Ops \ {"start"} : task'[o] = task[o]
    BY <1>0, <1>3 DEF At
  <2>2. \A n \in Nodes : n < j /\ nodeUp[n] => r[n] = "running" /\ active'[n]
    <3> SUFFICES ASSUME NEW n \in Nodes, n < j, nodeUp[n] PROVE r[n] = "running" /\ active'[n]
      OBVIOUS
    <3>1. CASE n < k
      BY <1>3, <3>1
    <3>2. CASE n = k
      BY <1>3, <3>2
    <3>3. CASE n > k
      <4>0. j \in Int
        BY <1>0, <1>3 DEF After
      <4>1. n \in {i \in up : i < j} /\ n \notin waiting
        BY <1>0, <1>3, <3>3, <4>0 DEF After, First
      <4> QED BY <1>3, <4>1
    <3> QED BY <1>0, <3>1, <3>2, <3>3
  <2>3. \A n \in Nodes : active'[n] => r[n] = "running"
    <3> SUFFICES ASSUME NEW n \in Nodes, active'[n] PROVE r[n] = "running"
      OBVIOUS
    <3>0. j \in Int
      BY <1>0, <1>3 DEF After
    <3>1. active[n] \/ n = k \/ n \in {i \in up : i < j}
      BY <1>3
    <3>2. n \in {i \in up : i < j} => n \notin waiting
      BY <1>0, <1>3, <3>0 DEF First
    <3> QED BY <3>1, <3>2
  <2>4. /\ MethodsAlone' /\ MethodStates' /\ NoStop' /\ TimerRunning' /\ CleanupTask'
        /\ CleanupFailed' /\ MapWhole' /\ NewQuiet' /\ InitFresh'
    BY <1>3, <1>a, <2>1 DEF Starting
  <2>5. Booting' /\ ActiveRuns' /\ Boots
    BY <1>0, <1>3, <2>1, <2>2, <2>3 DEF Booting, ActiveRuns, Boots
  <2> QED BY <2>4, <2>5 DEF AppParts
<1>4. \/ StartThrows(r) /\ timer' = timer
      \/ /\ waiting = {}
         /\ active' = Activate(up)
         /\ state' = "running"
         /\ task' = [task EXCEPT !["start"] = Idle]
         /\ UNCHANGED cleanup
      \/ \E j \in waiting :
           /\ First(j, waiting)
           /\ active' = Activate({i \in up : i < j})
           /\ state' = st /\ timer' = timer
           /\ task' = [task EXCEPT !["start"] = At("boot", j)]
           /\ UNCHANGED cleanup
  BY DEF BootFrom, EnterRunning, fabric
<1> QED BY <1>1, <1>2, <1>3, <1>4

LEMMA ConstructApp ==
  ASSUME AppInv, NEW n \in Nodes, NEW st \in {"starting", "failed"}, NEW r,
         Construct(n, st, r), inMap = 1 .. (n - 1),
         cleanup = "none", Starting, \A j \in inMap : ~active[j], \A t \in Toggles : task[t] = Idle
  PROVE  AppParts' /\ Boots
<1>1. /\ task'["start"].pc = "init" /\ task'["start"].at = n
      /\ \A o \in Ops \ {"start"} : task'[o] = task[o]
      /\ cleanup' = "none" /\ state' = st /\ timer' = timer
  BY OpsFacts DEF Construct, At, AppInv, TypeOK, fabric
<1>2. inMap' = 1 .. n
  BY EngineAssumption DEF Construct, Nodes
<1>3. \A j \in inMap' : ~active'[j]
  <2> SUFFICES ASSUME NEW j \in inMap' PROVE ~active'[j]
    OBVIOUS
  <2>1. active' = [active EXCEPT ![n] = FALSE] /\ active \in [Nodes -> BOOLEAN]
    BY DEF Construct, AppInv, TypeOK
  <2>2. j = n \/ j \in inMap
    BY DEF Construct
  <2>3. j \in Nodes
    BY <2>2 DEF AppInv, TypeOK
  <2> QED BY <2>1, <2>2, <2>3
<1>4. \A o \in {"pause", "stop", "dispose"} : task'[o] = Idle
  BY <1>1, OpsFacts DEF Starting
<1>5. MethodsAlone' /\ MethodStates' /\ NoStop' /\ TimerRunning'
  BY <1>1, <1>4 DEF MethodsAlone, MethodStates, NoStop, TimerRunning, Methods, Starting
<1>6. CleanupTask' /\ CleanupFailed'
  BY <1>1, OpsFacts DEF AppInv, AppParts, CleanupTask, CleanupFailed
<1>7. NewQuiet'
  BY <1>1, OpsFacts DEF NewQuiet
<1>8. MapWhole' /\ InitFresh' /\ Booting' /\ ActiveRuns' /\ Boots
  BY <1>1, <1>2, <1>3 DEF MapWhole, InitFresh, Booting, ActiveRuns, Boots
<1> QED BY <1>5, <1>6, <1>7, <1>8 DEF AppParts

LEMMA StartApp ==
  ASSUME Overlap \subseteq Calls \X Toggles, AppInv, Start \/ StartSettles
  PROVE  AppParts' /\ Boots
<1> USE OpsFacts
<1>b. TypeOK /\ AppParts /\ N \in Nat \ {0} /\ Nodes \subseteq Int /\ 1 \in Nodes
  BY EngineAssumption DEF AppInv, Nodes
<1>1. CASE Start
  <2>1. /\ \A o \in Methods : task[o] = Idle
        /\ state \in {"new", "paused"}
    BY <1>b, <1>1, MayCallApp DEF Start, AppParts, NoStop
  <2>2. Starting
    BY <1>b, <2>1 DEF AppParts, TimerRunning, Starting, Methods
  <2>3. /\ task["start"] = Idle /\ task["dispose"] = Idle
        /\ (state = "new" /\ inMap = {}) \/ inMap = Nodes
        /\ cleanup = "none"
    BY <1>b, <2>1 DEF AppParts, MapWhole, CleanupFailed, Idle, Methods
  <2>4. CASE inMap = {}
    <3>1. Construct(1, "starting", rt)
      BY <1>1, <2>4 DEF Start
    <3>2. inMap = 1 .. (1 - 1)
      BY <2>4
    <3>3. \A t \in Toggles : task[t] = Idle
      BY <1>b, <2>3, <2>4 DEF AppParts, NewQuiet
    <3> QED BY <1>b, <2>2, <2>3, <2>4, <3>1, <3>2, <3>3, ConstructApp
  <2>5. CASE inMap # {}
    <3>1. BootFrom(0, "starting", rt)
      BY <1>1, <2>5 DEF Start
    <3>2. \A n \in Nodes : active[n] => rt[n] = "running"
      BY <1>b, <2>1, <2>3, <2>5 DEF AppParts, ActiveRuns
    <3>3. 0 \in Int /\ \A j \in Nodes : ~(j < 0) /\ j # 0
      BY <1>b DEF Nodes
    <3> QED BY <2>2, <2>3, <2>5, <3>1, <3>2, <3>3, BootFromApp
  <2> QED BY <2>4, <2>5
<1>2. CASE StartRejects
  <2>1. /\ task["start"] # Idle
        /\ task'["start"] = Idle /\ \A o \in Ops \ {"start"} : task'[o] = task[o]
        /\ UNCHANGED <<state, inMap, rt, active, nodeUp, timer, cleanup>>
    BY <1>2, <1>b DEF StartRejects, Idle, TypeOK, fabric
  <2>2. state = "failed" /\ Starting
    BY <1>2, <1>b, <2>1, StartingApp DEF StartRejects, AppParts, CleanupFailed
  <2>3. MethodsAlone' /\ MethodStates' /\ NoStop' /\ TimerRunning' /\ CleanupTask'
    BY <1>b, <2>1, <2>2 DEF AppParts, MethodsAlone, MethodStates, NoStop, TimerRunning, CleanupTask, Methods,
                            Starting
  <2> QED BY <1>b, <2>1, <2>2, <2>3
          DEF AppParts, CleanupFailed, MapWhole, NewQuiet, InitFresh, Booting, ActiveRuns, Boots, Idle
<1>3. ASSUME NEW n \in Nodes, InitResolves(n) PROVE AppParts' /\ Boots
  <2> DEFINE r == [rt EXCEPT ![n] = "initialized"]
  <2>1. task["start"].pc = "init" /\ task["start"].at = n
    BY <1>3 DEF InitResolves, Awaiting, At
  <2>2. state \in {"starting", "failed"} /\ Starting
    BY <2>1, StartingApp DEF Idle
  <2>3. /\ inMap = 1 .. n /\ cleanup = "none" /\ \A j \in inMap : ~active[j]
        /\ \A t \in Toggles : task[t] = Idle
    BY <1>b, <2>1 DEF AppParts, MapWhole, InitFresh, NewQuiet
  <2>4. CASE n < N
    <3>1. n + 1 \in Nodes /\ Construct(n + 1, state, r) /\ inMap = 1 .. ((n + 1) - 1)
      BY <1>3, <1>b, <2>3, <2>4 DEF InitResolves, Nodes
    <3> QED BY <2>2, <2>3, <3>1, ConstructApp
  <2>5. CASE ~(n < N)
    <3>1. BootFrom(0, state, r)
      BY <1>3, <2>5 DEF InitResolves
    <3>2. inMap = Nodes
      BY <1>b, <2>3, <2>5 DEF Nodes
    <3>3. 0 \in Int /\ \A j \in Nodes : ~(j < 0) /\ j # 0
      BY <1>b DEF Nodes
    <3> QED BY <2>2, <2>3, <3>1, <3>2, <3>3, BootFromApp
  <2> QED BY <2>4, <2>5
<1>4. ASSUME NEW n \in Nodes, BootResolves(n) PROVE AppParts' /\ Boots
  <2> DEFINE r == [rt EXCEPT ![n] = "running"]
  <2>1. task["start"].pc = "boot" /\ task["start"].at = n
    BY <1>4 DEF BootResolves, Awaiting, At
  <2>0. Starting /\ state \in {"starting", "failed"}
    BY <2>1, StartingApp DEF Idle
  <2>2. CASE state = "failed"
    <3>1. StartThrows(r) /\ timer' = timer
      BY <1>4, <2>2 DEF BootResolves, fabric
    <3> QED BY <2>0, <3>1, StartThrowsApp
  <2>3. CASE state # "failed"
    <3>1. state = "starting" /\ BootFrom(n, state, r)
      BY <1>4, <2>0, <2>3 DEF BootResolves
    <3>2. inMap = Nodes /\ cleanup = "none" /\ task["dispose"] = Idle
      BY <1>b, <2>0, <2>1, <3>1 DEF AppParts, MapWhole, CleanupFailed, Starting
    <3>3. /\ \A j \in Nodes : j < n /\ nodeUp[j] => rt[j] = "running" /\ active[j]
          /\ \A j \in Nodes : active[j] => rt[j] = "running"
      BY <1>b, <2>1, <3>1, <3>2 DEF AppParts, Booting, ActiveRuns
    <3>4. /\ \A j \in Nodes : rt[j] = "running" => r[j] = "running"
          /\ r[n] = "running" /\ n \in Int
      BY <1>b DEF TypeOK
    <3> QED BY <2>0, <3>1, <3>2, <3>3, <3>4, BootFromApp
  <2> QED BY <2>2, <2>3
<1>5. ASSUME NEW n \in Nodes, StartCallRejects(n) PROVE AppParts' /\ Boots
  <2>1. task["start"] # Idle
    BY <1>5 DEF StartCallRejects, Awaiting, At, Idle
  <2>2. Starting /\ (timer' => timer)
    BY <1>5, <2>1, StartingApp DEF StartCallRejects
  <2> QED BY <1>5, <2>2, StartThrowsApp DEF StartCallRejects
<1> QED BY <1>1, <1>2, <1>3, <1>4, <1>5 DEF StartSettles

(* pause(): the loop makes inactive what it has passed.                       *)
LEMMA StopApp ==
  ASSUME Overlap \subseteq Calls \X Toggles, "stop" \notin Client, AppInv,
         Pause \/ PauseSettles \/ Stop \/ StopSettled
  PROVE  AppParts' /\ Boots
<1> USE OpsFacts
<1>0. TypeOK /\ AppParts /\ task["stop"] = Idle /\ Nodes \subseteq Int
  BY EngineAssumption DEF AppInv, AppParts, NoStop, Nodes
<1>1. ~Stop /\ ~StopSettled
  <2>1. ~Stop
    BY DEF Stop, MayCall
  <2>2. \A n : ~Awaiting("stop", "stop", n)
    BY <1>0 DEF Awaiting, At, Idle
  <2> QED BY <2>1, <2>2 DEF StopSettled, StopStopped
<1>2. ASSUME state \in {"running", "pausing"}, state' \in {"running", "pausing", "paused"}, Boots,
             UNCHANGED <<inMap, cleanup>>, timer' => timer /\ state' = "running",
             \A o \in Ops \ {"pause"} : task'[o] = task[o],
             task["start"] = Idle /\ task["dispose"] = Idle,
             task'["pause"] # Idle => state' = "pausing",
             \A n \in inMap : active'[n] => active[n] /\ rt'[n] = rt[n]
      PROVE  AppParts' /\ Boots
  <2>1. \A o \in {"start", "stop", "dispose"} : task'[o] = Idle
    BY <1>0, <1>2
  <2>2. MethodsAlone' /\ MethodStates' /\ NoStop' /\ TimerRunning'
    BY <1>2, <2>1 DEF MethodsAlone, MethodStates, NoStop, TimerRunning, Methods
  <2>3. CleanupTask' /\ CleanupFailed'
    BY <1>0, <1>2 DEF AppParts, CleanupTask, CleanupFailed
  <2>4. MapWhole' /\ NewQuiet' /\ InitFresh' /\ Booting'
    BY <1>0, <1>2, <2>1 DEF AppParts, MapWhole, NewQuiet, InitFresh, Booting, Idle
  <2>5. ActiveRuns'
    BY <1>0, <1>2 DEF AppParts, ActiveRuns
  <2> QED BY <1>2, <2>2, <2>3, <2>4, <2>5 DEF AppParts
<1>3. ASSUME NEW k \in Int, NEW r, StopLoop("pause", k, "pausing", "paused", r)
      PROVE  /\ \A o \in Ops \ {"pause"} : task'[o] = task[o]
             /\ state' \in {"pausing", "paused"}
             /\ task'["pause"] # Idle => state' = "pausing"
             /\ \A n \in inMap : active'[n] => active[n] /\ n # k
  <2>1. inMap \subseteq Nodes
    BY <1>0 DEF TypeOK
  <2> DEFINE rest == {j \in After(k, inMap) : r[j] = "running"}
             from == {j \in inMap : j >= k}
             Deactivate(S) == [n \in Nodes |-> active[n] /\ n \notin S]
  <2>2. CASE /\ active' = Deactivate(from)
             /\ task' = [task EXCEPT !["pause"] = Idle]
             /\ state' = "paused"
    <3>1. task'["pause"] = Idle /\ \A o \in Ops \ {"pause"} : task'[o] = task[o]
      BY <1>0, <2>2 DEF TypeOK
    <3>2. \A n \in inMap : active'[n] => active[n] /\ n \notin from
      BY <2>1, <2>2
    <3>3. k \in inMap => k \in from
      OBVIOUS
    <3> QED BY <2>2, <3>1, <3>2, <3>3
  <2>3. ASSUME NEW j \in rest,
               active' = Deactivate({i \in from : i < j}),
               task' = [task EXCEPT !["pause"] = At("stop", j)],
               state' = "pausing"
        PROVE  /\ \A o \in Ops \ {"pause"} : task'[o] = task[o]
               /\ \A n \in inMap : active'[n] => active[n] /\ n # k
    <3>1. \A o \in Ops \ {"pause"} : task'[o] = task[o]
      BY <1>0, <2>3 DEF TypeOK
    <3>2. j \in Int /\ j > k
      BY <1>0, <2>1 DEF After
    <3>3. \A n \in inMap : active'[n] => active[n] /\ n \notin {i \in from : i < j}
      BY <2>1, <2>3
    <3>4. k \in inMap => k \in {i \in from : i < j}
      BY <3>2
    <3> QED BY <3>1, <3>3, <3>4
  <2> QED BY <1>3, <2>2, <2>3 DEF StopLoop
<1>4. CASE Pause
  <2>1. (\A o \in Methods : task[o] = Idle) /\ state = "running"
    BY <1>4, MayCallApp DEF Pause
  <2>2. task["start"] = Idle /\ task["dispose"] = Idle /\ task["pause"] = Idle
    BY <2>1 DEF Methods
  <2>3. CASE UNCHANGED <<state, active, task>>
    BY <1>2, <1>4, <2>1, <2>2, <2>3 DEF Pause, Boots
  <2>4. CASE StopLoop("pause", 0, "pausing", "paused", rt)
    <3>1. /\ \A o \in Ops \ {"pause"} : task'[o] = task[o]
          /\ state' \in {"pausing", "paused"}
          /\ task'["pause"] # Idle => state' = "pausing"
          /\ \A n \in inMap : active'[n] => active[n] /\ n # 0
      BY <1>3, <2>4
    <3> QED BY <1>2, <1>4, <2>1, <2>2, <3>1 DEF Pause, Boots
  <2> QED BY <1>4, <2>3, <2>4 DEF Pause
<1>5. ASSUME NEW n \in Nodes, NEW ok \in BOOLEAN, PauseStopped(n, ok) PROVE AppParts' /\ Boots
  <2>1. task["pause"] # Idle
    BY <1>5 DEF PauseStopped, Awaiting, At, Idle
  <2>2. state = "pausing" /\ task["start"] = Idle /\ task["dispose"] = Idle /\ ~timer
    BY <1>0, <2>1 DEF AppParts, MethodStates, MethodsAlone, Methods, TimerRunning
  <2>3. UNCHANGED <<inMap, cleanup, timer>>
    BY <1>5 DEF PauseStopped, fabric
  <2>4. CASE ok
    <3>1. StopLoop("pause", n, "pausing", "paused", rt') /\ rt' = [rt EXCEPT ![n] = "stopped"] /\ n \in Int
      BY <1>0, <1>5, <2>2, <2>4 DEF PauseStopped, StopSettles
    <3>2. /\ \A o \in Ops \ {"pause"} : task'[o] = task[o]
          /\ state' \in {"pausing", "paused"}
          /\ task'["pause"] # Idle => state' = "pausing"
          /\ \A x \in inMap : active'[x] => active[x] /\ x # n
      BY <1>3, <3>1
    <3>3. \A x \in inMap : active'[x] => active[x] /\ rt'[x] = rt[x]
      BY <1>0, <3>1, <3>2 DEF TypeOK
    <3> QED BY <1>2, <2>2, <2>3, <3>2, <3>3 DEF Boots
  <2>5. CASE ~ok
    <3>1. /\ task' = [task EXCEPT !["pause"] = Idle]
          /\ UNCHANGED <<state, active, rt>>
      BY <1>5, <2>5 DEF PauseStopped, StopSettles
    <3>2. task'["pause"] = Idle /\ \A o \in Ops \ {"pause"} : task'[o] = task[o]
      BY <1>0, <3>1 DEF TypeOK
    <3> QED BY <1>2, <2>2, <2>3, <3>1, <3>2 DEF Boots
  <2> QED BY <2>4, <2>5
<1> QED BY <1>1, <1>4, <1>5 DEF PauseSettles

(* dispose() and the failure cleanup only stop and release.                   *)
LEMMA ReleaseApp ==
  ASSUME Overlap \subseteq Calls \X Toggles, AppInv,
         Dispose \/ DisposeSettles \/ ReleaseSettles("cleanup")
  PROVE  AppParts' /\ Boots
<1> USE OpsFacts
<1>0. TypeOK /\ AppParts /\ task["stop"] = Idle
  BY DEF AppInv, AppParts, NoStop
<1>1. ASSUME \A o \in Methods \ {"dispose"} : task[o] = Idle,
             \A o \in Ops \ {"dispose"} : task'[o] = task[o],
             UNCHANGED cleanup, timer' => timer,
             \/ UNCHANGED <<state, inMap>> /\ task'["dispose"] # Idle
             \/ state' = "disposed"
      PROVE  AppParts' /\ Boots
  <2>1. \A o \in Methods \ {"dispose"} : task'[o] = Idle
    BY <1>1 DEF Methods
  <2>2. task'["start"] = Idle /\ task'["pause"] = Idle /\ task'["stop"] = Idle
    BY <2>1 DEF Methods
  <2>3. MethodsAlone' /\ MethodStates' /\ NoStop' /\ TimerRunning'
    BY <1>0, <1>1, <2>1, <2>2 DEF AppParts, MethodsAlone, MethodStates, NoStop, TimerRunning
  <2>4. task["start"].pc # "init" /\ task'["start"].pc # "init"
    BY <1>1, <2>2 DEF Idle, Methods
  <2>5. CleanupTask' /\ CleanupFailed' /\ MapWhole'
    BY <1>0, <1>1, <2>4 DEF AppParts, CleanupTask, CleanupFailed, MapWhole
  <2>6. NewQuiet'
    BY <1>0, <1>1, <2>4 DEF AppParts, NewQuiet
  <2>7. InitFresh' /\ Booting' /\ ActiveRuns' /\ Boots
    BY <1>1, <2>2 DEF InitFresh, Booting, ActiveRuns, Boots, Idle
  <2> QED BY <2>3, <2>5, <2>6, <2>7 DEF AppParts
<1>2. ASSUME cleanup = "running", state' = state, timer' => timer,
             \A o \in Calls : task'[o] = task[o], CleanupTask', cleanup' # "none"
      PROVE  AppParts' /\ Boots
  <2>1. state \in {"failed", "disposed"} /\ task["start"].pc # "init"
    BY <1>0, <1>2 DEF AppParts, CleanupFailed, InitFresh
  <2>2. MethodsAlone' /\ MethodStates' /\ NoStop' /\ TimerRunning'
    BY <1>0, <1>2 DEF AppParts, MethodsAlone, MethodStates, NoStop, TimerRunning, Methods
  <2> QED BY <1>2, <2>1, <2>2
          DEF AppParts, CleanupFailed, MapWhole, NewQuiet, InitFresh, Booting, ActiveRuns, Boots
<1>3. ASSUME NEW k, NEW r, ReleaseLoop("dispose", k, r)
      PROVE  /\ \A o \in Ops \ {"dispose"} : task'[o] = task[o]
             /\ UNCHANGED cleanup
             /\ \/ UNCHANGED <<state, inMap>> /\ task'["dispose"] # Idle
                \/ state' = "disposed"
  BY <1>0, <1>3 DEF ReleaseLoop, Released, ReleaseAt, At, Idle, TypeOK
<1>4. ASSUME NEW k, NEW r, ReleaseLoop("cleanup", k, r), cleanup = "running"
      PROVE  /\ \A o \in Calls : task'[o] = task[o]
             /\ state' = state /\ CleanupTask' /\ cleanup' # "none"
  BY <1>0, <1>4 DEF ReleaseLoop, Released, TypeOK, CleanupTask
<1>5. CASE Dispose
  <2>1. \A o \in Methods : task[o] = Idle
    BY <1>5, MayCallApp DEF Dispose
  <2>2. CASE cleanup = "running"
    <3>1. task' = [task EXCEPT !["dispose"] = At("cleanup", 0)] /\ UNCHANGED <<state, inMap, cleanup>> /\ ~timer'
      BY <1>5, <2>2 DEF Dispose
    <3>2. /\ \A o \in Ops \ {"dispose"} : task'[o] = task[o]
          /\ task'["dispose"] # Idle
      BY <1>0, <3>1 DEF At, Idle, TypeOK
    <3> QED BY <1>1, <2>1, <3>1, <3>2
  <2>3. CASE cleanup # "running"
    BY <1>1, <1>3, <1>5, <2>1, <2>3 DEF Dispose
  <2> QED BY <2>2, <2>3
<1>6. ASSUME task["dispose"] # Idle
      PROVE  \A o \in Methods \ {"dispose"} : task[o] = Idle
  BY <1>0, <1>6 DEF AppParts, MethodsAlone, Methods
<1>7. ASSUME task["cleanup"] # Idle PROVE cleanup = "running"
  BY <1>0, <1>7 DEF AppParts, CleanupTask
<1>8. CASE DisposeProceeds
  <2>1. task["dispose"] # Idle /\ ReleaseLoop("dispose", 0, rt) /\ timer' = timer
    BY <1>8 DEF DisposeProceeds, Idle
  <2> QED BY <1>1, <1>3, <1>6, <2>1
<1>9. ASSUME NEW n \in Nodes, NEW ok \in BOOLEAN, ReleaseStopped("dispose", n, ok)
      PROVE  AppParts' /\ Boots
  <2>1. task["dispose"] # Idle /\ timer' = timer
    BY <1>9 DEF ReleaseStopped, Awaiting, At, Idle
  <2>2. CASE ok
    <3>1. task' = [task EXCEPT !["dispose"] = At("dispose", n)] /\ UNCHANGED <<state, inMap, cleanup>>
      BY <1>9, <2>2 DEF ReleaseStopped
    <3>2. /\ \A o \in Ops \ {"dispose"} : task'[o] = task[o]
          /\ task'["dispose"] # Idle
      BY <1>0, <3>1 DEF At, Idle, TypeOK
    <3> QED BY <1>1, <1>6, <2>1, <3>1, <3>2
  <2>3. CASE ~ok
    <3>1. ReleaseLoop("dispose", n, rt)
      BY <1>9, <2>3 DEF ReleaseStopped
    <3> QED BY <1>1, <1>3, <1>6, <2>1, <3>1
  <2> QED BY <2>2, <2>3
<1>10. ASSUME NEW n \in Nodes, NEW ok \in BOOLEAN, ReleaseStopped("cleanup", n, ok)
      PROVE  AppParts' /\ Boots
  <2>1. task["cleanup"] # Idle /\ timer' = timer
    BY <1>10 DEF ReleaseStopped, Awaiting, At, Idle
  <2>2. CASE ok
    <3>1. task' = [task EXCEPT !["cleanup"] = At("dispose", n)] /\ UNCHANGED <<state, inMap, cleanup>>
      BY <1>10, <2>2 DEF ReleaseStopped
    <3>2. \A o \in Calls : task'[o] = task[o]
      BY <1>0, <3>1 DEF TypeOK
    <3>3. cleanup = "running" /\ CleanupTask' /\ cleanup' # "none"
      BY <1>7, <2>1, <3>1 DEF CleanupTask
    <3> QED BY <1>2, <2>1, <3>1, <3>2, <3>3
  <2>3. CASE ~ok
    <3>1. ReleaseLoop("cleanup", n, rt)
      BY <1>10, <2>3 DEF ReleaseStopped
    <3> QED BY <1>2, <1>4, <1>7, <2>1, <3>1
  <2> QED BY <2>2, <2>3
<1>11. ASSUME NEW n \in Nodes, ReleaseDisposed("dispose", n) PROVE AppParts' /\ Boots
  <2>1. task["dispose"] # Idle /\ ReleaseLoop("dispose", n, rt') /\ timer' = timer
    BY <1>11 DEF ReleaseDisposed, Awaiting, At, Idle
  <2> QED BY <1>1, <1>3, <1>6, <2>1
<1>12. ASSUME NEW n \in Nodes, ReleaseDisposed("cleanup", n) PROVE AppParts' /\ Boots
  <2>1. task["cleanup"] # Idle /\ ReleaseLoop("cleanup", n, rt') /\ timer' = timer
    BY <1>12 DEF ReleaseDisposed, Awaiting, At, Idle
  <2> QED BY <1>2, <1>4, <1>7, <2>1
<1> QED BY <1>5, <1>8, <1>9, <1>10, <1>11, <1>12 DEF DisposeSettles, ReleaseSettles

(* The failures of the runtimes in S: what becomes inactive no longer runs,   *)
(* and a lab that was booting or running has failed.                          *)
LEMMA FailApp ==
  ASSUME AppInv, NEW S, NEW u \in [Ops -> Awaits], u["cleanup"] = task["cleanup"],
         \A o \in Methods : u[o] = task[o],
         \A t \in Toggles : u[t] = task[t] \/ u[t] = Idle,
         Fail(S, u)
  PROVE  AppParts' /\ Boots
<1>0. TypeOK /\ AppParts
  BY DEF AppInv
<1>1. /\ \A o \in Methods : task'[o] = task[o]
      /\ \A t \in Toggles : task'[t] = task[t] \/ task'[t] = Idle
      /\ inMap' = inMap /\ CleanupMoves
  BY <1>0, FailMoves DEF Calls
<1>2. \/ state' = "failed" /\ cleanup' = cleanup
      \/ state = "running" /\ state' = "failed"
      \/ state' = state /\ state \notin {"running", "starting"} /\ cleanup' = cleanup
  BY DEF Fail
<1>3. \A n \in Nodes : (active'[n] => active[n]) /\ (active'[n] => rt'[n] = rt[n])
  BY DEF Fail
<1>4. state = "failed" \/ state = "starting" \/ state' = state \/ (state = "running" /\ state' = "failed")
  BY <1>0 DEF Fail
<1>5. inMap \subseteq Nodes
  BY <1>0 DEF TypeOK
<1>6. /\ task'["start"] = task["start"] /\ task'["pause"] = task["pause"]
      /\ task'["stop"] = task["stop"] /\ task'["dispose"] = task["dispose"]
  BY <1>1 DEF Methods
<1>7. MethodsAlone' /\ MethodStates' /\ NoStop'
  BY <1>0, <1>1, <1>2, <1>4, <1>6 DEF AppParts, MethodsAlone, MethodStates, NoStop
<1>8. TimerRunning'
  BY <1>0 DEF Fail, AppParts, TimerRunning
<1>9. CleanupTask'
  BY <1>0, <1>1 DEF CleanupMoves, AppParts, CleanupTask
<1>10. state = "running" => task["start"].pc # "init"
  BY <1>0 DEF AppParts, MethodStates, Idle
<1>11. CleanupFailed' /\ MapWhole' /\ Booting' /\ Boots
  BY <1>0, <1>1, <1>2, <1>6 DEF AppParts, CleanupFailed, MapWhole, Booting, Boots
<1>12. NewQuiet'
  BY <1>0, <1>1, <1>2, <1>6 DEF AppParts, NewQuiet
<1>13. InitFresh'
  BY <1>0, <1>1, <1>2, <1>3, <1>5, <1>6, <1>10 DEF AppParts, InitFresh
<1>14. ActiveRuns'
  BY <1>0, <1>1, <1>2, <1>3, <1>5, <1>6 DEF AppParts, ActiveRuns
<1> QED BY <1>7, <1>8, <1>9, <1>11, <1>12, <1>13, <1>14 DEF AppParts

(* A toggle, whatever method has overtaken it.                                *)
LEMMA ToggleApp ==
  ASSUME Overlap \subseteq Calls \X Toggles, AppInv, NEW t \in Toggles,
         ToggleSettles(t) \/ \E n \in Nodes : SetNodeDown(t, n) \/ SetNodeUp(t, n)
  PROVE  AppParts' /\ Boots
<1> USE OpsFacts
<1>0. TypeOK /\ AppParts /\ inMap \subseteq Nodes
  BY DEF AppInv, TypeOK
<1>1. ASSUME task[t] # Idle PROVE state # "new" /\ task["start"].pc # "init"
  BY <1>0, <1>1 DEF AppParts, NewQuiet
<1>2. ASSUME UNCHANGED <<state, inMap, cleanup>>,
             state # "new" /\ task["start"].pc # "init",
             \A o \in Ops \ {t} : task'[o] = task[o],
             timer' => timer \/ state = "running",
             \A n \in inMap : active'[n] => rt'[n] = "running" \/ (active[n] /\ rt'[n] = rt[n]),
             task["start"].pc = "boot" /\ inMap = Nodes =>
               \A n \in Nodes : nodeUp'[n] => /\ nodeUp[n]
                                              /\ rt[n] = "running" => rt'[n] = "running"
                                              /\ active[n] => active'[n]
      PROVE  AppParts' /\ Boots
  <2>1. \A o \in Methods : task'[o] = task[o]
    BY <1>2, EngineAssumption DEF Ops, Calls, Methods
  <2>2. /\ task'["start"] = task["start"] /\ task'["pause"] = task["pause"]
        /\ task'["stop"] = task["stop"] /\ task'["dispose"] = task["dispose"]
        /\ task'["cleanup"] = task["cleanup"]
    BY <1>2
  <2>3. MethodsAlone' /\ MethodStates' /\ NoStop' /\ TimerRunning'
    BY <1>0, <1>2, <2>1, <2>2 DEF AppParts, MethodsAlone, MethodStates, NoStop, TimerRunning
  <2>4. CleanupTask' /\ CleanupFailed' /\ MapWhole' /\ NewQuiet' /\ InitFresh'
    BY <1>0, <1>2, <2>2 DEF AppParts, CleanupTask, CleanupFailed, MapWhole, NewQuiet, InitFresh
  <2>5. Booting'
    <3>1. state = "starting" /\ task["start"].pc = "boot" => inMap = Nodes
      BY <1>0 DEF AppParts, MapWhole
    <3> QED BY <1>0, <1>2, <2>2, <3>1 DEF AppParts, Booting
  <2>6. ActiveRuns' /\ Boots
    BY <1>0, <1>2, <2>2 DEF AppParts, ActiveRuns, Boots
  <2> QED BY <2>3, <2>4, <2>5, <2>6 DEF AppParts
<1>3. ASSUME NEW n \in Nodes, SetNodeDown(t, n) \/ SetNodeUp(t, n) PROVE AppParts' /\ Boots
  <2>1. task["start"] = Idle /\ state # "new"
    BY <1>3, MayCallApp DEF SetNodeDown, SetNodeUp, Usable, Methods
  <2>2. UNCHANGED <<state, inMap, cleanup, rt, active>> /\ (timer' => timer \/ state = "running")
    BY <1>3 DEF SetNodeDown, SetNodeUp, NodeIsDown, Armed
  <2>3. \A o \in Ops \ {t} : task'[o] = task[o]
    BY <1>0, <1>3 DEF SetNodeDown, SetNodeUp, TypeOK
  <2>4. task["start"].pc = "idle"
    BY <2>1 DEF Idle
  <2>5. \A x \in inMap : active'[x] => rt'[x] = "running" \/ (active[x] /\ rt'[x] = rt[x])
    BY <2>2
  <2> QED BY <1>2, <2>1, <2>2, <2>3, <2>4, <2>5
<1>4. ASSUME NEW n \in Nodes, NodeStarted(t, n) PROVE AppParts' /\ Boots
  <2>1. /\ UNCHANGED <<state, inMap, cleanup, nodeUp, timer>> /\ task[t] # Idle
        /\ rt' = [rt EXCEPT ![n] = "running"] /\ active' = [active EXCEPT ![n] = n \in inMap]
    BY <1>4 DEF NodeStarted, fabric, Awaiting, At, Idle
  <2>2. \A o \in Ops \ {t} : task'[o] = task[o]
    BY <1>0, <1>4 DEF NodeStarted, TypeOK
  <2>3. /\ \A x \in inMap : active'[x] => rt'[x] = "running" \/ (active[x] /\ rt'[x] = rt[x])
        /\ inMap = Nodes => \A x \in Nodes : (rt[x] = "running" => rt'[x] = "running") /\ (active[x] => active'[x])
    BY <1>0, <2>1 DEF TypeOK
  <2> QED BY <1>1, <1>2, <2>1, <2>2, <2>3
<1>5. ASSUME NEW n \in Nodes, NodeStartRejects(t, n) PROVE AppParts' /\ Boots
  <2> DEFINE u == [task EXCEPT ![t] = Idle]
  <2>1. u \in [Ops -> Awaits] /\ Fail({n}, u)
    BY <1>0, <1>5, TaskTypes DEF NodeStartRejects, TypeOK
  <2>2. u["cleanup"] = task["cleanup"]
    BY <1>0 DEF TypeOK
  <2>3. \A o \in Methods : u[o] = task[o]
    BY <1>0, EngineAssumption DEF TypeOK, Ops, Calls, Methods
  <2>4. \A x \in Toggles : u[x] = task[x] \/ u[x] = Idle
    BY <1>0 DEF TypeOK
  <2> HIDE DEF u
  <2> QED BY <2>1, <2>2, <2>3, <2>4, FailApp
<1>6. ASSUME NEW n \in Nodes, NEW ok \in BOOLEAN, NodeStopped(t, n, ok) PROVE AppParts' /\ Boots
  <2>1. UNCHANGED <<state, inMap, cleanup>> /\ task[t] # Idle
    BY <1>6 DEF NodeStopped, Awaiting, At, Idle
  <2>2. \A o \in Ops \ {t} : task'[o] = task[o]
    BY <1>0, <1>6 DEF NodeStopped, TypeOK
  <2>3. CASE ok
    <3>1. /\ active' = [active EXCEPT ![n] = FALSE] /\ rt' = [rt EXCEPT ![n] = "stopped"]
          /\ nodeUp' = [nodeUp EXCEPT ![n] = FALSE] /\ timer' = Armed(state, pend)
      BY <1>6, <2>3 DEF NodeStopped, StopSettles, NodeIsDown
    <3>2. /\ \A x \in inMap : active'[x] => active[x] /\ rt'[x] = rt[x]
          /\ \A x \in Nodes : nodeUp'[x] => nodeUp[x] /\ rt'[x] = rt[x] /\ active'[x] = active[x]
      BY <1>0, <3>1 DEF TypeOK
    <3>3. timer' => timer \/ state = "running"
      BY <3>1 DEF Armed
    <3> QED BY <1>1, <1>2, <2>1, <2>2, <3>2, <3>3
  <2>4. CASE ~ok
    BY <1>1, <1>2, <1>6, <2>1, <2>2, <2>4 DEF NodeStopped, StopSettles
  <2> QED BY <2>3, <2>4
<1>7. ASSUME NEW n \in Nodes, NEW ok \in BOOLEAN, InterfacesSet(t, n, ok) PROVE AppParts' /\ Boots
  <2>1. UNCHANGED <<state, inMap, cleanup, rt, active, nodeUp>> /\ task[t] # Idle
    BY <1>7 DEF InterfacesSet, Awaiting, At, Idle
  <2>2. \A o \in Ops \ {t} : task'[o] = task[o]
    BY <1>0, <1>7 DEF InterfacesSet, TypeOK
  <2>3. timer' => timer \/ state = "running"
    BY <1>7 DEF InterfacesSet, Armed, fabric
  <2> QED BY <1>1, <1>2, <2>1, <2>2, <2>3
<1> QED BY <1>3, <1>4, <1>5, <1>6, <1>7 DEF ToggleSettles

LEMMA GuestApp ==
  ASSUME AppInv, GuestStep \/ TimerFires
  PROVE  AppParts' /\ Boots
<1>0. TypeOK /\ AppParts
  BY DEF AppInv
<1>1. ASSUME UNCHANGED <<inMap, rt, active, nodeUp, cleanup, task>>,
             state' = state \/ (state' = "failed" /\ state \in {"running", "disposed"}),
             timer' => (timer /\ state' = state) \/ state' = "running"
      PROVE  AppParts' /\ Boots
  <2>1. MethodsAlone' /\ MethodStates' /\ NoStop' /\ TimerRunning'
    BY <1>0, <1>1 DEF AppParts, MethodsAlone, MethodStates, NoStop, TimerRunning
  <2>2. state \in {"running", "disposed"} => task["start"].pc # "init"
    BY <1>0 DEF AppParts, MethodStates, Idle
  <2> QED BY <1>0, <1>1, <2>1, <2>2
          DEF AppParts, CleanupTask, CleanupFailed, MapWhole, NewQuiet, InitFresh, Booting, ActiveRuns, Boots
<1>2. ASSUME NEW n \in Nodes, NEW m \in Nodes, TransmitFrame(n, m) PROVE AppParts' /\ Boots
  BY <1>1, <1>2 DEF TransmitFrame, Armed
<1>3. ASSUME NEW S, Fail(S, task) PROVE AppParts' /\ Boots
  BY <1>0, <1>3, FailApp DEF TypeOK
<1>4. CASE TimerFires
  <2>1. state \in {"running", "disposed"}
    BY <1>0, <1>4 DEF TimerFires, AppParts, TimerRunning
  <2> QED BY <1>1, <1>4, <2>1 DEF TimerFires
<1> QED BY <1>2, <1>3, <1>4 DEF GuestStep, NodeExits, MachineFails

LEMMA AppStep ==
  ASSUME Overlap \subseteq Calls \X Toggles, "stop" \notin Client, AppInv, [Next]_vars
  PROVE  AppInv' /\ Boots
<1>0. TypeOK'
  BY TypeStep DEF AppInv
<1> SUFFICES AppParts' /\ Boots
  BY <1>0 DEF AppInv
<1>1. CASE UNCHANGED vars
  BY <1>1 DEF vars, AppInv, AppParts, MethodsAlone, MethodStates, NoStop, TimerRunning, CleanupTask,
              CleanupFailed, MapWhole, NewQuiet, InitFresh, Booting, ActiveRuns, Boots
<1>2. CASE Start \/ StartSettles
  BY <1>2, StartApp
<1>3. CASE Pause \/ PauseSettles \/ Stop \/ StopSettled
  BY <1>3, StopApp
<1>4. CASE Dispose \/ DisposeSettles \/ ReleaseSettles("cleanup")
  BY <1>4, ReleaseApp
<1>5. CASE \E t \in Toggles : \/ ToggleSettles(t)
                          \/ \E n \in Nodes : SetNodeDown(t, n) \/ SetNodeUp(t, n)
  BY <1>5, ToggleApp
<1>6. CASE GuestStep \/ TimerFires
  BY <1>6, GuestApp
<1> QED BY <1>1, <1>2, <1>3, <1>4, <1>5, <1>6 DEF Next, ClientStep

LEMMA AppInit == Init => AppInv
<1> SUFFICES ASSUME Init PROVE AppInv
  OBVIOUS
<1>1. \A op \in Ops : task[op] = Idle
  BY DEF Init
<1>2. TypeOK
  BY InitType
<1>3. MethodsAlone /\ MethodStates /\ NoStop /\ NewQuiet /\ CleanupTask
  BY <1>1, OpsFacts DEF Init, MethodsAlone, MethodStates, NoStop, NewQuiet, CleanupTask, Methods
<1>4. TimerRunning /\ CleanupFailed /\ MapWhole /\ InitFresh /\ Booting /\ ActiveRuns
  BY <1>1, OpsFacts DEF Init, TimerRunning, CleanupFailed, MapWhole, InitFresh, Booting, ActiveRuns, Idle
<1> QED BY <1>2, <1>3, <1>4 DEF AppInv, AppParts

(* Outside dispose() a lab whose client may toggle nodes without awaiting,    *)
(* but calls no stop() and overlaps no other calls, has no active appliance   *)
(* whose runtime is not running, which a drive of the fabric would reject: a  *)
(* pause, a start or a failure that overtakes a toggle does not break it.     *)
THEOREM ActiveAppliancesRun ==
  ASSUME Overlap \subseteq Calls \X Toggles, "stop" \notin Client
  PROVE  Spec => []ActiveIsRunning
<1>1. AppInv /\ [Next]_vars => AppInv'
  BY AppStep
<1> QED BY AppInit, AppIsActive, <1>1, PTL DEF Spec

(* The lab of such a client enters 'running' only when every appliance of an  *)
(* up node runs and is active, whatever failed, exited or was toggled while   *)
(* start() was awaiting.                                                      *)
THEOREM RunningIsBooted ==
  ASSUME Overlap \subseteq Calls \X Toggles, "stop" \notin Client
  PROVE  Spec => RunningMeansBooted
<1>1. AppInv /\ [Next]_vars => AppInv'
  BY AppStep
<1>2. AppInv /\ [Next]_vars =>
        [state # "running" /\ state' = "running" =>
           inMap' = Nodes /\ \A n \in Nodes : nodeUp'[n] => rt'[n] = "running" /\ active'[n]]_vars
  BY AppStep DEF Boots
<1> QED BY AppInit, <1>1, <1>2, PTL DEF Spec, RunningMeansBooted

-----------------------------------------------------------------------------
(***************************************************************************)
(* The frame fabric.  Frames that go the same way must not overtake each   *)
(* other, so the invariant relates all ways of which one leads along the   *)
(* other: of two frames on such ways the one sent first is on the same     *)
(* link and ahead in the queue (InOrder), or at a host before (Behind).    *)
(* That a step keeps this rests on when a frame was put on its link: by a  *)
(* switch, when it was due there, so not after what is due now or later    *)
(* (Forwarded); by its host, at a time of the lab that the clock has       *)
(* reached (Transmitted).  A flood is followed port by port; inductions    *)
(* go by the least number at which something fails.                        *)
(***************************************************************************)

(* A project of the model, and what may be on its links.                     *)
Ends == UNION {Range(net.ends[l]) : l \in Links(net)}
Senders == {t[1] : t \in net.talk}
Receivers == {t[2] : t \in net.talk}
Arrivals == [id : Nat, src : Senders, dst : Receivers, path : Seq(Links(net) \X Ends),
             to : Ends, due : Nat, order : Nat, hops : Nat]
Drives == [at : {"next", "arrivals", "steps"}, target : Nat, wake : BOOLEAN, final : BOOLEAN,
           processed : Int, before : Int, worked : BOOLEAN, turn : Nat \ {0},
           immediate : [Hosts(net) -> Int]]

FabricTypeOK ==
  /\ net \in Nets
  /\ running \in BOOLEAN
  /\ now \in Nat /\ wall \in Nat /\ wallLast \in Nat
  /\ pending \in Seq(Arrivals) /\ order \in Nat
  /\ deadline \in [Hosts(net) -> Nat]
  /\ drive \in {NoDrive} \cup Drives
  /\ sent \in Seq([src : Senders, dst : Receivers, crossed : BOOLEAN])
  /\ inbox \in [Hosts(net) -> Seq(Arrivals)]

(* A drive does not pass its target, and ends there.                         *)
ClockOK ==
  /\ wallLast <= wall
  /\ drive # NoDrive => /\ now <= drive.target
                        /\ drive.at # "next" /\ drive.final => now = drive.target

(* The queue of arrivals is sorted; no two are of one place in it.           *)
Sorted(queue) == \A i, j \in DOMAIN queue : i < j => Before(queue[i], queue[j])
QueueOK(queue, ord) ==
  /\ queue \in Seq(Arrivals) /\ ord \in Nat
  /\ Sorted(queue)
  /\ \A i \in DOMAIN queue : queue[i].order < ord

(* What has been sent and has a link behind it.                              *)
NumbersOK ==
  /\ \A a \in Range(pending) : a.id <= Len(sent) /\ Len(a.path) >= 1
  /\ \A h \in Hosts(net) : \A a \in Range(inbox[h]) : a.id <= Len(sent)

Along(p, q) == Len(p) <= Len(q) /\ \A i \in 1 .. Len(p) : q[i] = p[i]

Delay(l) == CHOOSE d \in net.delay[l] : TRUE
SentAt(a) == a.due - Delay(a.path[Len(a.path)][1])

(* What the lab's clock has reached: a drive that may end before its target   *)
(* and leave the lab running has come to where it is.                         *)
Horizon == (IF drive # NoDrive /\ drive.wake THEN drive.target ELSE now) + (wall - wallLast)

(* Of two frames of which one goes where the other has gone, the one sent    *)
(* first is ahead: on a link, ...                                            *)
InOrder(A) == \A c, d \in A : Along(c.path, d.path) /\ c.id < d.id
                => Len(c.path) = Len(d.path) /\ Before(c, d)
(* ... and at a host.                                                        *)
Behind(A) == \A c \in A, h \in Hosts(net) : \A k \in DOMAIN inbox[h] :
               Along(c.path, inbox[h][k].path) => inbox[h][k].id <= c.id

(* A frame that was forwarded was so when it was due, before all that is due *)
(* now or will be; one that a host sent, at the time that the lab had.       *)
Forwarded(A) == \A d \in A : Len(d.path) >= 2 =>
                  SentAt(d) <= now /\ \A c \in A : SentAt(d) <= c.due
Transmitted(A) == running => \A d \in A : Len(d.path) = 1 => SentAt(d) <= Horizon

FramesInOrder(A) == InOrder(A) /\ Behind(A) /\ Forwarded(A) /\ Transmitted(A)

InboxesInOrder ==
  \A h \in Hosts(net) : \A i, j \in DOMAIN inbox[h] :
    i < j /\ inbox[h][i].path = inbox[h][j].path => inbox[h][i].id <= inbox[h][j].id

FabricInv == /\ FabricTypeOK /\ ClockOK /\ QueueOK(pending, order) /\ NumbersOK
             /\ Fixed => FramesInOrder(Range(pending)) /\ InboxesInOrder
-----------------------------------------------------------------------------
(* Every set of natural numbers has a least one: induction without a         *)
(* predicate for a parameter.                                                *)
LEMMA Least ==
  ASSUME NEW S \in SUBSET Nat, S # {}
  PROVE  \E m \in S : \A k \in S : m <= k
<1> DEFINE R == {p \in Nat \X Nat : p[1] < p[2]}
<1>1. IsWellFoundedOn(R, Nat)
  BY NatLessThanWellFounded DEF OpToRel
<1>2. PICK x \in S : \A y \in S : ~(<<y, x>> \in R)
  <2> HIDE DEF R
  <2> QED BY <1>1, WFMin
<1>3. \A y \in S : x <= y
  <2> SUFFICES ASSUME NEW y \in S, y < x PROVE FALSE
    BY <1>2
  <2>1. <<y, x>> \in R
    OBVIOUS
  <2> QED BY <1>2, <2>1
<1> QED BY <1>3

(* The numbers below the least one that is missing are all there.            *)
LEMMA InitialSegment ==
  ASSUME NEW n \in Nat, NEW S \in SUBSET (1 .. n),
         \A i \in S : \A j \in 1 .. i : j \in S
  PROVE  \E k \in 0 .. n : S = 1 .. k /\ Cardinality(S) = k
<1> DEFINE T == {m \in Nat : m >= 1 /\ m \notin S}
<1>1. n + 1 \in T
  OBVIOUS
<1>2. PICK m \in T : \A j \in T : m <= j
  <2> T \in SUBSET Nat /\ T # {}
    BY <1>1
  <2> HIDE DEF T
  <2> QED BY Least
<1>3. S = 1 .. m - 1
  <2>1. ASSUME NEW i \in S PROVE i < m
    BY <1>2, <2>1
  <2>2. ASSUME NEW i \in 1 .. m - 1 PROVE i \in S
    BY <1>2, <2>2
  <2> HIDE DEF T
  <2>3. m \in Nat
    BY <1>2 DEF T
  <2>4. \A i : i \in S <=> i \in 1 .. m - 1
    <3>1. ASSUME NEW i \in S PROVE i \in 1 .. m - 1
      <4>1. i \in 1 .. n /\ i < m BY <2>1, <3>1
      <4> QED BY <4>1, <2>3
    <3> QED BY <3>1, <2>2
  <2> QED BY <2>4
<1>4. m - 1 \in 0 .. n
  BY <1>1, <1>2
<1>5. Cardinality(1 .. m - 1) = m - 1
  BY <1>4, FS_Interval
<1> QED BY <1>3, <1>4, <1>5

-----------------------------------------------------------------------------
LEMMA Parts ==
  ASSUME NEW T, NEW Q \in Seq(T), NEW m \in 1 .. Len(Q) + 1, NEW n \in (m - 1) .. Len(Q)
  PROVE  /\ SubSeq(Q, m, n) \in Seq(T) /\ Len(SubSeq(Q, m, n)) = n - m + 1
         /\ \A i \in 1 .. n - m + 1 : SubSeq(Q, m, n)[i] = Q[m + i - 1]
  OBVIOUS

LEMMA Joined ==
  ASSUME NEW T, NEW X \in Seq(T), NEW Z \in Seq(T), NEW a \in T
  PROVE  /\ X \o <<a>> \o Z \in Seq(T)
         /\ Len(X \o <<a>> \o Z) = Len(X) + 1 + Len(Z)
         /\ DOMAIN (X \o <<a>> \o Z) = 1 .. Len(X) + 1 + Len(Z)
         /\ \A i \in 1 .. Len(X) : (X \o <<a>> \o Z)[i] = X[i]
         /\ (X \o <<a>> \o Z)[Len(X) + 1] = a
         /\ \A i \in Len(X) + 2 .. Len(X) + 1 + Len(Z) : (X \o <<a>> \o Z)[i] = Z[i - Len(X) - 1]
  OBVIOUS

(* A sequence with one more element after its first k.                       *)
Splice(Q, k, a) == SubSeq(Q, 1, k) \o <<a>> \o SubSeq(Q, k + 1, Len(Q))
LEMMA Spliced ==
  ASSUME NEW T, NEW Q \in Seq(T), NEW k \in 0 .. Len(Q), NEW a \in T
  PROVE  /\ Splice(Q, k, a) \in Seq(T) /\ DOMAIN Splice(Q, k, a) = 1 .. Len(Q) + 1
         /\ \A i \in 1 .. k : Splice(Q, k, a)[i] = Q[i]
         /\ Splice(Q, k, a)[k + 1] = a
         /\ \A i \in k + 2 .. Len(Q) + 1 : Splice(Q, k, a)[i] = Q[i - 1]
<1> DEFINE X == SubSeq(Q, 1, k)
           Z == SubSeq(Q, k + 1, Len(Q))
           R == X \o <<a>> \o Z
<1>1. X \in Seq(T) /\ Len(X) = k /\ \A i \in 1 .. k : X[i] = Q[i]
  BY Parts
<1>2. /\ Z \in Seq(T) /\ Len(Z) = Len(Q) - k
      /\ \A i \in 1 .. Len(Q) - k : Z[i] = Q[k + i]
  BY Parts
<1> HIDE DEF X, Z
<1>3. /\ R \in Seq(T) /\ Len(R) = k + 1 + (Len(Q) - k) /\ DOMAIN R = 1 .. k + 1 + (Len(Q) - k)
      /\ \A i \in 1 .. k : R[i] = X[i]
      /\ R[k + 1] = a
      /\ \A i \in k + 2 .. k + 1 + (Len(Q) - k) : R[i] = Z[i - k - 1]
  <2>1. X \in Seq(T) /\ Z \in Seq(T)
    BY <1>1, <1>2
  <2>2. /\ R \in Seq(T)
        /\ Len(R) = Len(X) + 1 + Len(Z)
        /\ DOMAIN R = 1 .. Len(X) + 1 + Len(Z)
        /\ \A i \in 1 .. Len(X) : R[i] = X[i]
        /\ R[Len(X) + 1] = a
        /\ \A i \in Len(X) + 2 .. Len(X) + 1 + Len(Z) : R[i] = Z[i - Len(X) - 1]
    BY <2>1, Joined DEF R
  <2> HIDE DEF R
  <2> QED BY <1>1, <1>2, <2>2
<1> HIDE DEF R
<1>4. ASSUME NEW i \in k + 2 .. Len(Q) + 1
      PROVE  R[i] = Q[i - 1]
  <2>1. R[i] = Z[i - k - 1] BY <1>3
  <2>2. Z[i - k - 1] = Q[k + (i - k - 1)] BY <1>2
  <2>3. k + (i - k - 1) = i - 1 OBVIOUS
  <2> QED BY <2>1, <2>2, <2>3
<1>5. k + 1 + (Len(Q) - k) = Len(Q) + 1
  OBVIOUS
<1>6. Splice(Q, k, a) = R
  BY DEF R, X, Z, Splice
<1> QED BY <1>1, <1>3, <1>4, <1>5, <1>6

(* An arrival is inserted where those that come before it end.               *)
LEMMA InsertedIs ==
  ASSUME NEW Q \in Seq(Arrivals), Sorted(Q), NEW a \in Arrivals,
         \A i \in DOMAIN Q : Q[i].order < a.order
  PROVE  /\ Inserted(Q, a) \in Seq(Arrivals)
         /\ Sorted(Inserted(Q, a))
         /\ Range(Inserted(Q, a)) = Range(Q) \cup {a}
<1> DEFINE S == {i \in DOMAIN Q : Before(Q[i], a)}
<1>0. /\ \A i \in DOMAIN Q : Q[i].due \in Nat /\ Q[i].order \in Nat /\ Q[i] \in Arrivals
      /\ a.due \in Nat /\ a.order \in Nat
      /\ DOMAIN Q = 1 .. Len(Q) /\ Len(Q) \in Nat
  <2>1. /\ \A i \in DOMAIN Q : Q[i] \in Arrivals
        /\ DOMAIN Q = 1 .. Len(Q) /\ Len(Q) \in Nat
    OBVIOUS
  <2>2. \A x \in Arrivals : x.due \in Nat /\ x.order \in Nat
    BY DEF Arrivals
  <2> QED BY <2>1, <2>2
<1>1. PICK k \in 0 .. Len(Q) : S = 1 .. k /\ Cardinality(S) = k
  <2>1. S \in SUBSET (1 .. Len(Q))
    BY <1>0
  <2>2. ASSUME NEW i \in S, NEW j \in 1 .. i PROVE j \in S
    <3>1. CASE j = i BY <3>1
    <3>2. CASE j < i
      <4>1. Before(Q[j], Q[i]) /\ Before(Q[i], a)
        BY <3>2, <1>0 DEF Sorted
      <4> QED BY <4>1, <1>0 DEF Before
    <3> QED BY <3>1, <3>2
  <2> HIDE DEF S
  <2> QED BY <2>1, <2>2, <1>0, InitialSegment
<1> DEFINE R == Splice(Q, k, a)
<1>2. Inserted(Q, a) = R
  <2>1. Inserted(Q, a) = InsertAt(Q, 1 + k, a)
    BY <1>1 DEF Inserted
  <2>2. (1 + k) - 1 = k /\ 1 + k = k + 1
    OBVIOUS
  <2> QED BY <2>1, <2>2 DEF InsertAt, Splice
<1>3. /\ R \in Seq(Arrivals) /\ DOMAIN R = 1 .. Len(Q) + 1
      /\ \A i \in 1 .. k : R[i] = Q[i]
      /\ R[k + 1] = a
      /\ \A i \in k + 2 .. Len(Q) + 1 : R[i] = Q[i - 1]
  BY Spliced
<1> HIDE DEF R
<1>4. ASSUME NEW i \in DOMAIN R, NEW j \in DOMAIN R, i < j
      PROVE  Before(R[i], R[j])
  <2>1. ASSUME NEW x \in DOMAIN Q, x <= k PROVE Before(Q[x], a)
    BY <1>0, <1>1, <2>1
  <2>2. ASSUME NEW x \in DOMAIN Q, x > k PROVE Before(a, Q[x])
    <3>1. ~Before(Q[x], a)
      BY <1>0, <1>1, <2>2
    <3> QED BY <3>1, <1>0 DEF Before
  <2>3. CASE j <= k
    BY <1>3, <1>0, <1>4, <2>3 DEF Sorted
  <2>4. CASE j = k + 1
    BY <1>3, <1>0, <1>4, <2>1, <2>4
  <2>5. CASE j > k + 1
    <3>1. R[j] = Q[j - 1] /\ j - 1 \in DOMAIN Q /\ j - 1 > k
      BY <1>3, <1>0, <2>5
    <3>2. CASE i <= k
      <4>1. R[i] = Q[i] /\ i \in DOMAIN Q /\ i < j - 1
        BY <1>3, <1>0, <3>1, <3>2
      <4> QED BY <3>1, <4>1 DEF Sorted
    <3>3. CASE i = k + 1
      BY <1>3, <2>2, <3>1, <3>3
    <3>4. CASE i > k + 1
      <4>1. R[i] = Q[i - 1] /\ i - 1 \in DOMAIN Q /\ i - 1 < j - 1
        BY <1>3, <1>0, <1>4, <3>1, <3>4
      <4> QED BY <3>1, <4>1 DEF Sorted
    <3> QED BY <3>2, <3>3, <3>4, <1>3
  <2> QED BY <2>3, <2>4, <2>5, <1>3
<1>5. Range(R) = Range(Q) \cup {a}
  <2>1. ASSUME NEW i \in DOMAIN R PROVE R[i] \in Range(Q) \cup {a}
    <3>1. i > k + 1 => R[i] = Q[i - 1] /\ i - 1 \in DOMAIN Q
      BY <1>3, <1>0
    <3>2. i <= k => R[i] = Q[i] /\ i \in DOMAIN Q
      BY <1>3, <1>0
    <3>3. i = k + 1 => R[i] = a
      BY <1>3
    <3>4. i > k + 1 \/ i <= k \/ i = k + 1
      BY <1>3
    <3> QED BY <3>1, <3>2, <3>3, <3>4 DEF Range
  <2>2. ASSUME NEW i \in DOMAIN Q PROVE Q[i] \in Range(R)
    <3>2. i <= k => R[i] = Q[i] /\ i \in DOMAIN R BY <1>3, <1>0
    <3>3. i > k => R[i + 1] = Q[i] /\ i + 1 \in DOMAIN R BY <1>3, <1>0
    <3> QED BY <3>2, <3>3, <1>0 DEF Range
  <2>3. a \in Range(R)
    <3>1. R[k + 1] = a /\ k + 1 \in DOMAIN R BY <1>3, <1>0
    <3> QED BY <3>1 DEF Range
  <2> QED BY <2>1, <2>2, <2>3 DEF Range
<1> QED BY <1>2, <1>3, <1>4, <1>5 DEF Sorted

(* The first of a sorted queue comes before the others.                      *)
LEMMA HeadIsFirst ==
  ASSUME NEW ord, QueueOK(pending, ord), pending # <<>>
  PROVE  /\ Head(pending) \in Range(pending) /\ Head(pending) \in Arrivals
         /\ QueueOK(Tail(pending), ord)
         /\ Range(Tail(pending)) \subseteq Range(pending)
         /\ \A c \in Range(Tail(pending)) : Before(Head(pending), c)
         /\ Range(pending) = Range(Tail(pending)) \cup {Head(pending)}
<1> DEFINE T == Tail(pending)
<1>1. /\ DOMAIN pending = 1 .. Len(pending) /\ Len(pending) \in Nat \ {0}
      /\ Head(pending) = pending[1] /\ pending[1] \in Arrivals
      /\ T \in Seq(Arrivals) /\ DOMAIN T = 1 .. Len(pending) - 1
      /\ \A i \in DOMAIN T : T[i] = pending[i + 1]
  BY DEF QueueOK
<1> HIDE DEF T
<1>2. QueueOK(T, ord)
  BY <1>1, SMTT(60) DEF QueueOK, Sorted
<1>3. \A i \in DOMAIN T : Before(pending[1], T[i])
  BY <1>1 DEF QueueOK, Sorted
<1>4. Range(pending) = Range(T) \cup {pending[1]}
  <2>1. ASSUME NEW x \in Range(pending) PROVE x \in Range(T) \cup {pending[1]}
    <3>1. PICK i \in DOMAIN pending : x = pending[i] BY <2>1 DEF Range
    <3>2. i # 1 => i - 1 \in DOMAIN T /\ T[i - 1] = x BY <3>1, <1>1
    <3> QED BY <3>1, <3>2, <1>1 DEF Range
  <2>2. ASSUME NEW x \in Range(T) PROVE x \in Range(pending)
    BY <2>2, <1>1 DEF Range
  <2>3. pending[1] \in Range(pending)
    BY <1>1 DEF Range
  <2> QED BY <2>1, <2>2, <2>3
<1>5. \A c \in Range(T) : Before(pending[1], c)
  BY <1>3 DEF Range
<1> QED BY <1>1, <1>2, <1>4, <1>5 DEF T

-----------------------------------------------------------------------------
(* What a project fixes.                                                     *)
LEMMA NetIs ==
  ASSUME FabricTypeOK
  PROVE  \A l \in Links(net) :
           /\ IsFiniteSet(net.delay[l]) /\ net.delay[l] \subseteq Nat /\ net.delay[l] # {}
           /\ net.ends[l][1] \in Ends /\ net.ends[l][2] \in Ends
           /\ Delay(l) \in Nat
           /\ Fixed => \A d \in net.delay[l] : d = Delay(l)
<1> SUFFICES ASSUME NEW l \in Links(net)
             PROVE  /\ IsFiniteSet(net.delay[l]) /\ net.delay[l] \subseteq Nat /\ net.delay[l] # {}
                    /\ net.ends[l][1] \in Ends /\ net.ends[l][2] \in Ends
                    /\ Delay(l) \in Nat
                    /\ Fixed => \A d \in net.delay[l] : d = Delay(l)
  OBVIOUS
<1>1. /\ IsFiniteSet(net.delay[l]) /\ net.delay[l] \subseteq Nat /\ net.delay[l] # {}
      /\ DOMAIN net.ends[l] = 1 .. 2
  BY FabricAssumption DEF FabricTypeOK, Links
<1>2. net.ends[l][1] \in Ends /\ net.ends[l][2] \in Ends
  <2>1. net.ends[l][1] \in Range(net.ends[l]) /\ net.ends[l][2] \in Range(net.ends[l])
    BY <1>1 DEF Range
  <2> QED BY <2>1 DEF Ends
<1>3. Delay(l) \in net.delay[l]
  BY <1>1, Zenon DEF Delay
<1>4. Fixed => \A d \in net.delay[l] : d = Delay(l)
  <2> SUFFICES ASSUME Fixed, NEW d \in net.delay[l] PROVE d = Delay(l)
    OBVIOUS
  <2>1. Cardinality(net.delay[l]) = 1
    BY DEF Fixed
  <2>2. PICK x : net.delay[l] = {x}
    BY <1>1, <2>1, FS_Singleton
  <2> QED BY <1>3, <2>2
<1> QED BY <1>1, <1>2, <1>3, <1>4

(* The fields of an arrival.                                                 *)
LEMMA ArrivalIs ==
  ASSUME NEW a \in Arrivals
  PROVE  /\ a.id \in Nat /\ a.src \in Senders /\ a.dst \in Receivers
         /\ a.path \in Seq(Links(net) \X Ends)
         /\ a.to \in Ends /\ a.due \in Nat /\ a.order \in Nat /\ a.hops \in Nat
BY DEF Arrivals

(* A frame that crosses: its arrival on the link l of the endpoint e.        *)
Crossed(frame, e, l, hops, due, ord) ==
  [frame EXCEPT !.path = Append(@, <<l, e>>), !.to = OtherEnd(l, e),
                !.due = due, !.order = ord, !.hops = hops]
CrossedTo(a, frame, e, l, due, ord) ==
  /\ e \in Ends /\ a.id = frame.id /\ a.path = Append(frame.path, <<l, e>>)
  /\ a.due = due /\ a.order = ord

LEMMA CrossedIs ==
  ASSUME FabricTypeOK, NEW frame \in Arrivals, NEW e \in Ends, NEW l \in Links(net),
         NEW hops \in Nat, NEW due \in Nat, NEW ord \in Nat
  PROVE  /\ Crossed(frame, e, l, hops, due, ord) \in Arrivals
         /\ CrossedTo(Crossed(frame, e, l, hops, due, ord), frame, e, l, due, ord)
<1>1. OtherEnd(l, e) \in Ends
  BY NetIs DEF OtherEnd
<1>2. Append(frame.path, <<l, e>>) \in Seq(Links(net) \X Ends)
  <2>1. frame.path \in Seq(Links(net) \X Ends)
    BY ArrivalIs
  <2>2. <<l, e>> \in Links(net) \X Ends
    OBVIOUS
  <2> QED BY <2>1, <2>2
<1> QED BY <1>1, <1>2 DEF Crossed, CrossedTo, Arrivals

(* Either nothing leaves the endpoint, or one arrival is in the queue.       *)
Put(q, a) == [pending |-> Inserted(q.pending, a), order |-> q.order + 1]

LEMMA SendIs ==
  ASSUME FabricTypeOK, NEW q, NEW e, NEW frame \in Arrivals, NEW hops \in Nat,
         NEW at \in Nat, NEW chance \in Chances, q.order \in Nat
  PROVE  \/ SendAcrossLink(q, e, frame, hops, at, chance) = q
         \/ \E l \in Links(net) : \E d \in net.delay[l] : \E a \in Arrivals :
              /\ CrossedTo(a, frame, e, l, at + d, q.order)
              /\ SendAcrossLink(q, e, frame, hops, at, chance) = Put(q, a)
<1>1. CASE ~Crosses(e, frame, hops, chance)
  BY <1>1 DEF SendAcrossLink
<1>2. CASE Crosses(e, frame, hops, chance)
  <2> DEFINE l == CHOOSE l \in LinksAt(e) : TRUE
             d == chance.delay[l]
             a == Crossed(frame, e, l, hops, at + d, q.order)
  <2>1. l \in LinksAt(e)
    <3>1. LinksAt(e) # {}
      BY <1>2 DEF Crosses
    <3> QED BY <3>1, Zenon
  <2>2. SendAcrossLink(q, e, frame, hops, at, chance) = Put(q, a)
    BY <1>2, Zenon DEF SendAcrossLink, Crossed, Put
  <2> HIDE DEF l
  <2>3. l \in Links(net) /\ e \in Ends
    BY <2>1 DEF LinksAt, Ends
  <2>4. d \in net.delay[l]
    BY <2>3 DEF Chances
  <2> HIDE DEF d
  <2>5. at + d \in Nat
    BY <2>3, <2>4, NetIs
  <2>6. a \in Arrivals /\ CrossedTo(a, frame, e, l, at + d, q.order)
    BY <2>3, <2>5, CrossedIs
  <2> HIDE DEF a
  <2> QED BY <2>2, <2>3, <2>4, <2>6, Zenon
<1> QED BY <1>1, <1>2

-----------------------------------------------------------------------------
(* What holds between the first arrival, which a switch forwards, and those  *)
(* that are in the queue meanwhile.                                          *)
Ahead(b, A) ==
  /\ \A c \in A : b.due <= c.due
  /\ \A c \in A : Len(c.path) >= 2 => SentAt(c) <= b.due
  /\ \A c \in A : Along(c.path, b.path) => b.id <= c.id
  /\ \A c \in A : Along(b.path, c.path) /\ Len(b.path) < Len(c.path) => c.id <= b.id
  /\ \A h \in Hosts(net) : \A k \in DOMAIN inbox[h] :
       Along(b.path, inbox[h][k].path) => inbox[h][k].id <= b.id

LEMMA SentAtType ==
  ASSUME FabricTypeOK, NEW A \in SUBSET Arrivals, NEW c \in A, Len(c.path) >= 1
  PROVE  SentAt(c) \in Int
<1>1. c.path \in Seq(Links(net) \X Ends) /\ c.due \in Nat
  BY ArrivalIs
<1>2. c.path[Len(c.path)] \in Links(net) \X Ends
  BY <1>1
<1>3. Delay(c.path[Len(c.path)][1]) \in Nat
  BY <1>2, NetIs
<1> QED BY <1>1, <1>3 DEF SentAt

(* A way that is along another and one hop more.                             *)
LEMMA OneHopMore ==
  ASSUME NEW T, NEW p \in Seq(T), NEW q \in Seq(T), NEW x \in T
  PROVE  /\ Along(q, Append(p, x)) => Along(q, p) \/ (Len(q) = Len(p) + 1 /\ q[Len(q)] = x)
         /\ Along(Append(p, x), q) => Along(p, q) /\ Len(p) < Len(q)
<1>1. /\ Len(Append(p, x)) = Len(p) + 1 /\ Len(p) \in Nat /\ Len(q) \in Nat
      /\ Append(p, x)[Len(p) + 1] = x
      /\ \A i \in 1 .. Len(p) : Append(p, x)[i] = p[i]
  OBVIOUS
<1> DEFINE r == Append(p, x)
<1> HIDE DEF r
<1>2. /\ Len(r) = Len(p) + 1 /\ r[Len(p) + 1] = x
      /\ \A i \in 1 .. Len(p) : r[i] = p[i]
  BY <1>1 DEF r
<1>3. Along(q, r) => Along(q, p) \/ (Len(q) = Len(p) + 1 /\ q[Len(q)] = x)
  BY <1>1, <1>2 DEF Along
<1>4. Along(r, q) => Along(p, q) /\ Len(p) < Len(q)
  BY <1>1, <1>2 DEF Along
<1> QED BY <1>3, <1>4 DEF r

(* The forwarded frame is behind those that went this way before it, and     *)
(* ahead of those that it was ahead of.                                      *)
LEMMA ForwardJoins ==
  ASSUME FabricTypeOK, Fixed, NEW A \in SUBSET Arrivals, NEW b \in Arrivals,
         Len(b.path) >= 1, b.due <= now, FramesInOrder(A), Ahead(b, A),
         NEW e \in Ends, NEW l \in Links(net), NEW d \in net.delay[l],
         NEW a \in Arrivals, a.id = b.id, a.path = Append(b.path, <<l, e>>), a.due = b.due + d,
         \A c \in A : c.order < a.order
  PROVE  FramesInOrder(A \cup {a}) /\ Ahead(b, A \cup {a})
<1>1. d = Delay(l) /\ d \in Nat /\ a.due >= b.due /\ a.due \in Nat /\ b.due \in Nat
  BY NetIs, ArrivalIs
<1>2. /\ Len(a.path) = Len(b.path) + 1 /\ a.path[Len(a.path)] = <<l, e>>
      /\ Len(b.path) \in Nat
  <2>1. b.path \in Seq(Links(net) \X Ends) /\ <<l, e>> \in Links(net) \X Ends
    BY ArrivalIs
  <2> QED BY <2>1
<1>3. SentAt(a) = b.due
  BY <1>1, <1>2 DEF SentAt
<1>4. ASSUME NEW c \in A
      PROVE  /\ Along(c.path, a.path) =>
                  Along(c.path, b.path) \/ (Len(c.path) = Len(b.path) + 1 /\ SentAt(c) = c.due - d)
             /\ Along(a.path, c.path) => Along(b.path, c.path) /\ Len(b.path) < Len(c.path)
  <2>1. /\ b.path \in Seq(Links(net) \X Ends) /\ <<l, e>> \in Links(net) \X Ends
        /\ c.path \in Seq(Links(net) \X Ends)
    BY ArrivalIs
  <2>2. /\ Along(c.path, a.path) =>
                  Along(c.path, b.path) \/ (Len(c.path) = Len(b.path) + 1 /\ c.path[Len(c.path)] = <<l, e>>)
        /\ Along(a.path, c.path) => Along(b.path, c.path) /\ Len(b.path) < Len(c.path)
    BY <2>1, OneHopMore
  <2> QED BY <2>2, <1>1 DEF SentAt
<1>5. \A c \in A : c.id \in Nat /\ c.due \in Nat /\ c.order \in Nat /\ Len(c.path) \in Nat
  BY ArrivalIs
<1>6. InOrder(A \cup {a})
  <2>1. ASSUME NEW c \in A, Along(c.path, a.path), c.id < a.id
        PROVE  Len(c.path) = Len(a.path) /\ Before(c, a)
    <3>1. ~Along(c.path, b.path)
      BY <2>1, <1>5, ArrivalIs DEF Ahead
    <3>2. Len(c.path) = Len(b.path) + 1 /\ SentAt(c) = c.due - d
      BY <2>1, <3>1, <1>4
    <3>3. SentAt(c) <= b.due
      BY <3>2, <1>2 DEF Ahead
    <3>4. c.due <= a.due
      BY <3>2, <3>3, <1>1, <1>5
    <3> QED BY <3>2, <3>4, <1>1, <1>2, <1>5 DEF Before
  <2>2. ASSUME NEW c \in A, Along(a.path, c.path) PROVE ~(a.id < c.id)
    <3>1. Along(b.path, c.path) /\ Len(b.path) < Len(c.path)
      BY <2>2, <1>4
    <3>2. c.id <= b.id
      BY <3>1 DEF Ahead
    <3> QED BY <3>2, <1>5, ArrivalIs
  <2>3. ~(a.id < a.id)
    BY ArrivalIs
  <2>4. InOrder(A)
    BY DEF FramesInOrder
  <2> QED BY <2>1, <2>2, <2>3, <2>4 DEF InOrder
<1>7. Behind(A \cup {a})
  <2>1. Behind(A)
    BY DEF FramesInOrder
  <2>2. ASSUME NEW h \in Hosts(net), NEW k \in DOMAIN inbox[h], Along(a.path, inbox[h][k].path)
        PROVE  inbox[h][k].id <= a.id
    <3>1. inbox[h][k].path \in Seq(Links(net) \X Ends)
      <4>1. inbox[h] \in Seq(Arrivals)
        BY DEF FabricTypeOK
      <4>2. inbox[h][k] \in Arrivals
        BY <4>1
      <4> QED BY <4>2, ArrivalIs
    <3>2. Along(b.path, inbox[h][k].path)
      <4>1. b.path \in Seq(Links(net) \X Ends) /\ <<l, e>> \in Links(net) \X Ends
        BY ArrivalIs
      <4> QED BY <2>2, <3>1, <4>1, OneHopMore
    <3> QED BY <3>2 DEF Ahead
  <2> QED BY <2>1, <2>2 DEF Behind
<1>8. Forwarded(A \cup {a})
  <2>1. Forwarded(A)
    BY DEF FramesInOrder
  <2>2. SentAt(a) <= now /\ (\A c \in A : SentAt(a) <= c.due) /\ SentAt(a) <= a.due
    BY <1>3, <1>1 DEF Ahead
  <2>3. \A c \in A : Len(c.path) >= 2 => SentAt(c) <= a.due
    <3> SUFFICES ASSUME NEW c \in A, Len(c.path) >= 2 PROVE SentAt(c) <= a.due
      OBVIOUS
    <3>1. SentAt(c) <= b.due BY DEF Ahead
    <3>2. SentAt(c) \in Int BY SentAtType
    <3> QED BY <3>1, <3>2, <1>1
  <2> QED BY <2>1, <2>2, <2>3 DEF Forwarded
<1>9. Transmitted(A \cup {a})
  <2>1. Len(a.path) # 1
    BY <1>2
  <2> QED BY <2>1 DEF FramesInOrder, Transmitted
<1>10. Ahead(b, A \cup {a})
  <2>1. ~(Along(a.path, b.path))
    BY <1>2 DEF Along
  <2>2. a.id <= b.id /\ b.due <= a.due /\ SentAt(a) <= b.due
    BY <1>1, <1>3, ArrivalIs
  <2> QED BY <2>1, <2>2 DEF Ahead
<1> QED BY <1>6, <1>7, <1>8, <1>9, <1>10 DEF FramesInOrder

(* The frame that a host sends is behind all that it had sent before.        *)
LEMMA TransmitJoins ==
  ASSUME FabricTypeOK, ClockOK, NumbersOK, running, drive = NoDrive,
         Fixed, NEW A \in SUBSET Arrivals, FramesInOrder(A), \A c \in A : Len(c.path) >= 1,
         \A c \in A : c.id <= Len(sent),
         NEW e \in Ends, NEW l \in Links(net), NEW d \in net.delay[l],
         NEW a \in Arrivals, a.id = Len(sent) + 1, a.path = <<<<l, e>>>>, a.due = Projected + d,
         \A c \in A : c.order < a.order
  PROVE  FramesInOrder(A \cup {a})
<1>1. /\ d = Delay(l) /\ d \in Nat /\ a.due \in Nat /\ a.due >= now /\ now \in Nat
      /\ Projected = Horizon /\ Projected \in Nat /\ now <= Projected
  <2>1. d = Delay(l) /\ d \in Nat
    BY NetIs
  <2>2. Projected = Horizon /\ Projected \in Nat /\ now <= Projected /\ now \in Nat
    BY DEF FabricTypeOK, ClockOK, Projected, Horizon
  <2>3. a.due \in Nat
    BY ArrivalIs
  <2> QED BY <2>1, <2>2, <2>3
<1>2. Len(a.path) = 1 /\ a.path[Len(a.path)] = <<l, e>>
  OBVIOUS
<1>3. SentAt(a) = Projected
  BY <1>1, <1>2 DEF SentAt
<1>4. \A c \in A : /\ c.id \in Nat /\ c.due \in Nat /\ c.order \in Nat /\ Len(c.path) \in Nat
                   /\ Len(c.path) >= 1 /\ SentAt(c) \in Int /\ c.id < a.id
  BY ArrivalIs, SentAtType DEF FabricTypeOK
<1>5. InOrder(A \cup {a})
  <2>1. ASSUME NEW c \in A, Along(c.path, a.path)
        PROVE  Len(c.path) = Len(a.path) /\ Before(c, a)
    <3>1. Len(c.path) = 1 /\ c.path[1] = <<l, e>>
      <4>1. Len(c.path) = 1
        <5>1. Len(c.path) <= Len(a.path)
          BY <2>1 DEF Along
        <5>2. Len(c.path) \in Nat /\ Len(c.path) >= 1
          BY <1>4
        <5> DEFINE n == Len(c.path)
                   m == Len(a.path)
        <5>3. n <= m /\ n \in Nat /\ n >= 1 /\ m = 1
          BY <5>1, <5>2, <1>2
        <5> HIDE DEF n, m
        <5>4. n = 1
          BY <5>3
        <5> QED BY <5>4 DEF n
      <4>2. c.path[1] = a.path[1] /\ a.path[1] = <<l, e>>
        <5>1. \A i \in 1 .. Len(c.path) : a.path[i] = c.path[i]
          BY <2>1 DEF Along
        <5>2. 1 \in 1 .. Len(c.path)
          BY <4>1
        <5> QED BY <5>1, <5>2
      <4> QED BY <4>1, <4>2
    <3>2. SentAt(c) = c.due - d /\ SentAt(c) <= Horizon
      BY <3>1, <1>1 DEF SentAt, FramesInOrder, Transmitted
    <3>3. c.due <= a.due
      BY <3>2, <1>1, <1>4
    <3> QED BY <3>1, <3>3, <1>1, <1>2, <1>4 DEF Before
  <2>2. \A c \in A \cup {a} : ~(a.id < c.id)
    BY <1>4, ArrivalIs
  <2> QED BY <2>1, <2>2 DEF InOrder, FramesInOrder
<1>6. Behind(A \cup {a})
  <2>1. ASSUME NEW h \in Hosts(net), NEW k \in DOMAIN inbox[h]
        PROVE  inbox[h][k].id <= a.id
    <3>1. inbox[h] \in Seq(Arrivals)
      BY DEF FabricTypeOK
    <3>2. inbox[h][k] \in Range(inbox[h]) /\ inbox[h][k] \in Arrivals
      BY <3>1 DEF Range
    <3>3. inbox[h][k].id <= Len(sent) /\ inbox[h][k].id \in Nat
      BY <3>2, ArrivalIs DEF NumbersOK
    <3> QED BY <3>3 DEF FabricTypeOK
  <2> QED BY <2>1 DEF Behind, FramesInOrder
<1>7. Forwarded(A \cup {a})
  <2>1. ASSUME NEW c \in A, Len(c.path) >= 2 PROVE SentAt(c) <= a.due
    BY <2>1, <1>1, <1>4 DEF FramesInOrder, Forwarded
  <2> QED BY <2>1, <1>2 DEF FramesInOrder, Forwarded
<1>8. Transmitted(A \cup {a})
  BY <1>1, <1>3 DEF FramesInOrder, Transmitted
<1> QED BY <1>5, <1>6, <1>7, <1>8 DEF FramesInOrder

-----------------------------------------------------------------------------
(* The queue while a switch forwards b by one port after another.            *)
FloodOK(q, b) ==
  /\ QueueOK(q.pending, q.order)
  /\ \A a \in Range(q.pending) : a.id <= Len(sent) /\ Len(a.path) >= 1
  /\ Fixed => FramesInOrder(Range(q.pending)) /\ Ahead(b, Range(q.pending))

LEMMA RangeOf ==
  ASSUME NEW Q \in Seq(Arrivals)
  PROVE  /\ Range(Q) \in SUBSET Arrivals
         /\ \A i \in DOMAIN Q : Q[i] \in Range(Q)
BY DEF Range

(* One more in the queue.                                                    *)
LEMMA QueueGrows ==
  ASSUME NEW Q, NEW ord, QueueOK(Q, ord), NEW a \in Arrivals, a.order = ord
  PROVE  /\ QueueOK(Inserted(Q, a), ord + 1)
         /\ Range(Inserted(Q, a)) = Range(Q) \cup {a}
         /\ \A c \in Range(Q) : c.order < a.order
<1>1. \A i \in DOMAIN Q : Q[i].order < a.order
  BY DEF QueueOK
<1>2. /\ Inserted(Q, a) \in Seq(Arrivals) /\ Sorted(Inserted(Q, a))
      /\ Range(Inserted(Q, a)) = Range(Q) \cup {a}
  BY <1>1, InsertedIs DEF QueueOK
<1>3. \A c \in Range(Q) : c.order < a.order
  BY <1>1 DEF Range
<1>4. ASSUME NEW i \in DOMAIN Inserted(Q, a) PROVE Inserted(Q, a)[i].order < ord + 1
  <2>1. Inserted(Q, a)[i] \in Range(Q) \cup {a}
    BY <1>2, RangeOf
  <2>2. Inserted(Q, a)[i] \in Arrivals
    BY <1>2, RangeOf
  <2> QED BY <2>1, <2>2, <1>3, ArrivalIs DEF QueueOK
<1> QED BY <1>2, <1>3, <1>4 DEF QueueOK

LEMMA PutKeepsFlood ==
  ASSUME FabricTypeOK, NEW b \in Arrivals, Len(b.path) >= 1, b.id <= Len(sent), b.due <= now,
         NEW q, FloodOK(q, b), NEW e, NEW l \in Links(net), NEW d \in net.delay[l],
         NEW a \in Arrivals, CrossedTo(a, b, e, l, b.due + d, q.order)
  PROVE  FloodOK(Put(q, a), b)
<1> DEFINE A == Range(q.pending)
<1>1. /\ e \in Ends /\ a.id = b.id /\ a.path = Append(b.path, <<l, e>>) /\ a.due = b.due + d
      /\ a.order = q.order
  BY DEF CrossedTo
<1>2. /\ QueueOK(Inserted(q.pending, a), q.order + 1)
      /\ Range(Inserted(q.pending, a)) = A \cup {a}
      /\ \A c \in A : c.order < a.order
  BY <1>1, QueueGrows DEF FloodOK
<1>3. A \in SUBSET Arrivals
  BY RangeOf DEF FloodOK, QueueOK
<1>4. ASSUME Fixed
      PROVE  FramesInOrder(A \cup {a}) /\ Ahead(b, A \cup {a})
  <2>1. FramesInOrder(A) /\ Ahead(b, A)
    BY <1>4 DEF FloodOK
  <2> HIDE DEF A
  <2>2. \A c \in A : c.order < a.order
    BY <1>2
  <2> QED BY <1>1, <1>3, <1>4, <2>1, <2>2, ForwardJoins
<1>5. a.id <= Len(sent) /\ Len(a.path) >= 1
  <2>1. b.path \in Seq(Links(net) \X Ends)
    BY ArrivalIs
  <2> QED BY <2>1, <1>1
<1>6. Put(q, a).pending = Inserted(q.pending, a) /\ Put(q, a).order = q.order + 1
  BY DEF Put
<1> QED BY <1>2, <1>4, <1>5, <1>6 DEF FloodOK

LEMMA SendKeepsFlood ==
  ASSUME FabricTypeOK, NEW b \in Arrivals, Len(b.path) >= 1, b.id <= Len(sent), b.due <= now,
         NEW q, FloodOK(q, b), NEW e, NEW chance \in Chances
  PROVE  FloodOK(SendAcrossLink(q, e, b, b.hops + 1, b.due, chance), b)
<1> DEFINE s == SendAcrossLink(q, e, b, b.hops + 1, b.due, chance)
<1>1. s = q \/ \E l \in Links(net) : \E d \in net.delay[l] : \E a \in Arrivals :
                 CrossedTo(a, b, e, l, b.due + d, q.order) /\ s = Put(q, a)
  <2>1. b.due \in Nat /\ q.order \in Nat /\ b.hops \in Nat
    BY ArrivalIs DEF FloodOK, QueueOK
  <2>2. b.hops + 1 \in Nat
    BY <2>1
  <2> QED BY <2>1, <2>2, SendIs
<1> HIDE DEF s
<1>2. FloodOK(s, b)
  BY <1>1, PutKeepsFlood, Zenon
<1> QED BY <1>2 DEF s

LEMMA PortKeepsFlood ==
  ASSUME FabricTypeOK, NEW b \in Arrivals, Len(b.path) >= 1, b.id <= Len(sent), b.due <= now,
         NEW q, FloodOK(q, b), NEW i, NEW table, NEW chance \in Chances
  PROVE  FloodOK(ByPort(q, i, b, table, chance), b)
<1>1. FloodOK(SendAcrossLink(q, <<b.to[1], i>>, b, b.hops + 1, b.due, chance), b)
  BY SendKeepsFlood
<1> QED BY <1>1 DEF ByPort

(* The flood port by port: there is one such function, ...                   *)
PortByPort(f, n, q, b, table, chance) ==
  f = [i \in 0 .. n |-> IF i = 0 THEN q ELSE ByPort(f[i - 1], i, b, table, chance)]

LEMMA FloodIsDefined ==
  ASSUME NEW n \in Nat, NEW q, NEW b, NEW table, NEW chance
  PROVE  \E f : PortByPort(f, n, q, b, table, chance)
<1> DEFINE Is(m, f) == PortByPort(f, m, q, b, table, chance)
           S == {m \in Nat : ~\E f : Is(m, f)}
<1>1. CASE S = {}
  BY <1>1
<1>2. CASE S # {}
  <2>1. PICK m \in S : \A k \in S : m <= k
    <3>1. S \in SUBSET Nat
      OBVIOUS
    <3> HIDE DEF S
    <3> QED BY <1>2, <3>1, Least
  <2>2. m # 0
    <3>1. Is(0, [i \in 0 .. 0 |-> q])
      BY DEF PortByPort
    <3> QED BY <3>1
  <2>3. m - 1 \in Nat /\ m - 1 \notin S /\ m \in Nat
    BY <2>1, <2>2
  <2>4. PICK f : Is(m - 1, f)
    BY <2>3
  <2> DEFINE g == [i \in 0 .. m |-> IF i = m THEN ByPort(f[m - 1], m, b, table, chance) ELSE f[i]]
  <2>5. \A i \in 0 .. m - 1 :
          f[i] = IF i = 0 THEN q ELSE ByPort(f[i - 1], i, b, table, chance)
    BY <2>4 DEF PortByPort
  <2>6. ASSUME NEW i \in 0 .. m
        PROVE  g[i] = IF i = 0 THEN q ELSE ByPort(g[i - 1], i, b, table, chance)
    <3>1. i # 0 => i - 1 \in 0 .. m /\ i - 1 # m /\ g[i - 1] = f[i - 1]
      BY <2>3
    <3>2. CASE i = m
      BY <3>1, <3>2, <2>2
    <3>3. CASE i # m
      <4>1. i \in 0 .. m - 1
        BY <2>3, <3>3
      <4> QED BY <4>1, <3>1, <3>3, <2>5
    <3> QED BY <3>2, <3>3
  <2>7. Is(m, g)
    <3>1. g = [i \in 0 .. m |-> g[i]]
      OBVIOUS
    <3> HIDE DEF g
    <3>2. [i \in 0 .. m |-> g[i]]
            = [i \in 0 .. m |-> IF i = 0 THEN q ELSE ByPort(g[i - 1], i, b, table, chance)]
      BY <2>6
    <3> QED BY <3>1, <3>2 DEF PortByPort
  <2> HIDE DEF g, Is
  <2> QED BY <2>1, <2>7
<1> QED BY <1>1, <1>2

(* ... and it keeps the queue as it should be.                               *)
LEMMA FloodKeepsFlood ==
  ASSUME FabricTypeOK, NEW b \in Arrivals, Len(b.path) >= 1, b.id <= Len(sent), b.due <= now,
         NEW q, FloodOK(q, b), NEW table, NEW chance \in Chances,
         NEW n \in Nat, NEW f, PortByPort(f, n, q, b, table, chance)
  PROVE  FloodOK(f[n], b)
<1> DEFINE S == {i \in 0 .. n : ~FloodOK(f[i], b)}
<1>1. CASE S = {}
  BY <1>1
<1>2. CASE S # {}
  <2>1. PICK m \in S : \A k \in S : m <= k
    <3>1. S \in SUBSET Nat
      OBVIOUS
    <3> HIDE DEF S
    <3> QED BY <1>2, <3>1, Least
  <2>2. \A i \in 0 .. n : f[i] = IF i = 0 THEN q ELSE ByPort(f[i - 1], i, b, table, chance)
    BY DEF PortByPort
  <2>3. m # 0
    BY <2>1, <2>2
  <2>4. m - 1 \in 0 .. n /\ m - 1 \notin S
    BY <2>1, <2>3
  <2>5. FloodOK(ByPort(f[m - 1], m, b, table, chance), b)
    BY <2>4, PortKeepsFlood
  <2> QED BY <2>1, <2>2, <2>3, <2>5
<1> QED BY <1>1, <1>2

LEMMA ForwardKeepsFlood ==
  ASSUME FabricTypeOK, NEW b \in Arrivals, Len(b.path) >= 1, b.id <= Len(sent), b.due <= now,
         FloodOK([pending |-> Tail(pending), order |-> order], b), NEW table,
         NEW chance \in Chances, net.ports[b.to[1]] \in Nat
  PROVE  FloodOK(Forward(b, table, chance), b)
<1> DEFINE kept == [pending |-> Tail(pending), order |-> order]
           n == net.ports[b.to[1]]
           f == CHOOSE f : PortByPort(f, n, kept, b, table, chance)
<1>1. PortByPort(f, n, kept, b, table, chance)
  BY FloodIsDefined, Zenon
<1>2. Forward(b, table, chance) = IF b.hops >= MaxHops THEN kept ELSE f[n]
  BY Zenon DEF Forward, PortByPort
<1>3. FloodOK(kept, b)
  OBVIOUS
<1> HIDE DEF f, kept, n
<1>4. n \in Nat
  BY DEF n
<1>5. FloodOK(f[n], b)
  BY <1>1, <1>3, <1>4, FloodKeepsFlood
<1> QED BY <1>2, <1>3, <1>5

-----------------------------------------------------------------------------
(* The first arrival, and those behind it.                                   *)
LEMMA HeadIsAhead ==
  ASSUME FabricInv, pending # <<>>, Fixed
  PROVE  Ahead(Head(pending), Range(Tail(pending)))
<1> DEFINE b == Head(pending)
           T == Range(Tail(pending))
           A == Range(pending)
<1>1. /\ b \in A /\ b \in Arrivals /\ T \subseteq A
      /\ \A c \in T : Before(b, c)
  BY HeadIsFirst DEF FabricInv
<1>2. A \in SUBSET Arrivals
  BY RangeOf DEF FabricInv, FabricTypeOK
<1>3. InOrder(A) /\ Behind(A) /\ Forwarded(A)
  BY DEF FabricInv, FramesInOrder
<1>4. Len(b.path) \in Nat /\ b.id \in Nat /\ b.due \in Nat /\ b.order \in Nat
  BY <1>1, ArrivalIs
<1> HIDE DEF A, T, b
<1>5. ASSUME NEW c \in T
      PROVE  /\ b.due <= c.due
             /\ Len(c.path) >= 2 => SentAt(c) <= b.due
             /\ Along(c.path, b.path) => b.id <= c.id
             /\ Along(b.path, c.path) /\ Len(b.path) < Len(c.path) => c.id <= b.id
  <2>1. c \in A /\ c \in Arrivals /\ Before(b, c)
    BY <1>1, <1>2
  <2>2. Len(c.path) \in Nat /\ c.id \in Nat /\ c.due \in Nat /\ c.order \in Nat
    BY <2>1, ArrivalIs
  <2>3. b.due <= c.due /\ ~Before(c, b)
    BY <2>1, <2>2, <1>4 DEF Before
  <2>4. Len(c.path) >= 2 => SentAt(c) <= b.due
    BY <2>1, <1>1, <1>3 DEF Forwarded
  <2>5. Along(c.path, b.path) /\ c.id < b.id => Before(c, b)
    BY <2>1, <1>1, <1>3 DEF InOrder
  <2>6. Along(b.path, c.path) /\ b.id < c.id => Len(b.path) = Len(c.path)
    BY <2>1, <1>1, <1>3 DEF InOrder
  <2> QED BY <2>2, <2>3, <2>4, <2>5, <2>6, <1>4
<1>6. \A h \in Hosts(net) : \A k \in DOMAIN inbox[h] :
        Along(b.path, inbox[h][k].path) => inbox[h][k].id <= b.id
  BY <1>1, <1>3 DEF Behind
<1>7. Ahead(b, T)
  BY <1>5, <1>6 DEF Ahead
<1> QED BY <1>7 DEF b, T

LEMMA FewerInOrder ==
  ASSUME NEW A, NEW B \in SUBSET A, FramesInOrder(A)
  PROVE  FramesInOrder(B)
BY DEF FramesInOrder, InOrder, Behind, Forwarded, Transmitted

(* Nothing that the order rests on is disturbed as time goes by.             *)
LEMMA TimePasses ==
  ASSUME FabricTypeOK, now' \in Nat, Horizon \in Int, running' => Horizon' \in Int,
         NEW A \in SUBSET Arrivals, \A c \in A : Len(c.path) >= 1,
         FramesInOrder(A), UNCHANGED <<net, inbox>>, now <= now',
         running' => running /\ Horizon <= Horizon'
  PROVE  FramesInOrder(A)'
<1>1. \A c \in A : SentAt(c)' = SentAt(c) /\ SentAt(c) \in Int
  BY SentAtType DEF SentAt, Delay
<1>2. InOrder(A)'
  BY DEF FramesInOrder, InOrder, Along, Before
<1>3. Behind(A)'
  BY DEF FramesInOrder, Behind, Along, Hosts
<1>4. Forwarded(A)'
  <2>1. now \in Nat
    BY DEF FabricTypeOK
  <2> QED BY <1>1, <2>1 DEF FramesInOrder, Forwarded
<1>5. Transmitted(A)'
  BY <1>1 DEF FramesInOrder, Transmitted
<1> QED BY <1>2, <1>3, <1>4, <1>5 DEF FramesInOrder

LEMMA HorizonIs ==
  ASSUME FabricTypeOK
  PROVE  Horizon \in Int
<1>1. drive # NoDrive => drive.target \in Nat /\ drive.wake \in BOOLEAN
  BY DEF FabricTypeOK, Drives
<1> QED BY <1>1 DEF FabricTypeOK, Horizon

(* The steps that touch neither the queue nor a host.                        *)
LEMMA QuietFabricStep ==
  ASSUME FabricInv, FabricTypeOK', ClockOK', UNCHANGED <<net, pending, order, sent, inbox>>,
         now <= now', running' => running /\ Horizon <= Horizon'
  PROVE  FabricInv'
<1> USE DEF FabricInv
<1>1. QueueOK(pending, order)'
  BY DEF QueueOK, Sorted, Before, Arrivals, Ends, Links, Senders, Receivers
<1>2. NumbersOK'
  BY DEF NumbersOK, Hosts
<1>3. ASSUME Fixed' PROVE FramesInOrder(Range(pending))' /\ InboxesInOrder'
  <2>1. Fixed
    BY <1>3 DEF Fixed, Links
  <2>2. FramesInOrder(Range(pending)) /\ InboxesInOrder
    BY <2>1
  <2> DEFINE A == Range(pending)
  <2>3. A \in SUBSET Arrivals /\ \A c \in A : Len(c.path) >= 1
    BY RangeOf DEF FabricTypeOK, NumbersOK
  <2>4. Horizon \in Int /\ Horizon' \in Int
    <3>1. (drive # NoDrive)' => drive'.target \in Nat /\ drive'.wake \in BOOLEAN
      BY DEF FabricTypeOK, Drives
    <3>2. Horizon' \in Int
      BY <3>1 DEF FabricTypeOK, Horizon
    <3> QED BY <3>2, HorizonIs
  <2>5. A' = A
    OBVIOUS
  <2>6. now' \in Nat
    BY DEF FabricTypeOK
  <2> HIDE DEF A
  <2>7. ASSUME NEW B, B = A PROVE FramesInOrder(B)'
    BY <2>2, <2>3, <2>4, <2>6, <2>7, TimePasses DEF A
  <2>8. FramesInOrder(A)'
    BY <2>5, <2>7
  <2>9. InboxesInOrder'
    BY <2>2 DEF InboxesInOrder, Hosts
  <2> QED BY <2>8, <2>9 DEF A
<1> QED BY <1>1, <1>2, <1>3

-----------------------------------------------------------------------------
(* A drive begins.                                                           *)
LEMMA NewDrive ==
  ASSUME NEW t \in Nat, NEW w \in BOOLEAN
  PROVE  LET d == DriveTo(t, w)
         IN  /\ d \in Drives /\ d # NoDrive /\ d.target = t /\ d.wake = w
             /\ d.at = "next" /\ ~d.final
BY DEF Drives, NoDrive, DriveTo

LEMMA FabricStarts ==
  FabricInit => FabricInv
<1> SUFFICES ASSUME FabricInit PROVE FabricInv
  OBVIOUS
<1>1. drive \in Drives /\ drive.at = "next" /\ drive.target = 0 /\ ~drive.final
  BY NewDrive DEF FabricInit
<1>2. FabricTypeOK
  <2>1. pending \in Seq(Arrivals) /\ order \in Nat
    BY DEF FabricInit
  <2>2. deadline \in [Hosts(net) -> Nat] /\ inbox \in [Hosts(net) -> Seq(Arrivals)]
    <3>1. <<>> \in Seq(Arrivals)
      OBVIOUS
    <3> QED BY <3>1 DEF FabricInit
  <2>3. sent \in Seq([src : Senders, dst : Receivers, crossed : BOOLEAN])
    BY DEF FabricInit
  <2> QED BY <1>1, <2>1, <2>2, <2>3 DEF FabricInit, FabricTypeOK
<1>3. ClockOK
  <2>1. now = 0 /\ wall = 0 /\ wallLast = 0
    BY DEF FabricInit
  <2> QED BY <1>1, <2>1 DEF ClockOK
<1>4. QueueOK(pending, order)
  BY <1>2 DEF FabricInit, QueueOK, Sorted, FabricTypeOK
<1>5. Range(pending) = {} /\ \A h \in Hosts(net) : DOMAIN inbox[h] = {} /\ Range(inbox[h]) = {}
  BY DEF FabricInit, Range
<1>6. NumbersOK
  BY <1>5 DEF NumbersOK
<1>7. FramesInOrder(Range(pending)) /\ InboxesInOrder
  BY <1>5 DEF FramesInOrder, InOrder, Behind, Forwarded, Transmitted, InboxesInOrder
<1> QED BY <1>2, <1>3, <1>4, <1>6, <1>7 DEF FabricInv

(* The earliest of the times that a drive or the timer waits for.            *)
LEMMA NextWakeIs ==
  ASSUME FabricTypeOK
  PROVE  NextWake(pending, deadline) \in Nat
<1> DEFINE S == {Never} \cup Range(deadline) \cup {a.due : a \in Range(pending)}
<1>1. S \in SUBSET Nat /\ S # {}
  <2>1. \A x \in Range(deadline) : x \in Nat
    BY DEF FabricTypeOK, Range
  <2>2. \A a \in Range(pending) : a.due \in Nat
    BY RangeOf, ArrivalIs DEF FabricTypeOK
  <2> QED BY <2>1, <2>2, FabricAssumption
<1> HIDE DEF S
<1>2. \E t \in S : \A u \in S : t <= u
  BY <1>1, Least
<1>3. Earliest(S) \in S
  BY <1>2, Zenon DEF Earliest
<1> QED BY <1>1, <1>3 DEF NextWake, S

LEMMA DriveIs ==
  ASSUME FabricTypeOK, drive # NoDrive
  PROVE  /\ drive \in Drives
         /\ drive.at \in {"next", "arrivals", "steps"} /\ drive.target \in Nat
         /\ drive.wake \in BOOLEAN /\ drive.final \in BOOLEAN /\ drive.processed \in Int /\ drive.before \in Int
         /\ drive.worked \in BOOLEAN /\ drive.turn \in Nat \ {0}
         /\ drive.immediate \in [Hosts(net) -> Int]
         /\ Horizon = (IF drive.wake THEN drive.target ELSE now) + (wall - wallLast)
<1>1. drive \in Drives
  BY DEF FabricTypeOK
<1> QED BY <1>1 DEF Drives, Horizon

LEMMA Runs ==
  ASSUME FabricTypeOK, NEW at, drive.at = at, at \in {"next", "arrivals", "steps"}
  PROVE  drive # NoDrive
BY DEF NoDrive

(* The project stays, and so do the sets that it fixes.                      *)
LEMMA TypeKept ==
  ASSUME FabricTypeOK, net' = net, running' \in BOOLEAN, now' \in Nat, wall' \in Nat,
         wallLast' \in Nat, pending' \in Seq(Arrivals), order' \in Nat,
         deadline' \in [Hosts(net) -> Nat], drive' = NoDrive \/ drive' \in Drives,
         sent' \in Seq([src : Senders, dst : Receivers, crossed : BOOLEAN]),
         inbox' \in [Hosts(net) -> Seq(Arrivals)]
  PROVE  FabricTypeOK' /\ Arrivals' = Arrivals /\ Fixed' = Fixed /\ Hosts(net)' = Hosts(net)
<1>1. /\ Hosts(net)' = Hosts(net) /\ Links(net)' = Links(net) /\ Ends' = Ends
      /\ Senders' = Senders /\ Receivers' = Receivers /\ Fixed' = Fixed
  BY DEF Hosts, Links, Ends, Senders, Receivers, Fixed
<1>2. Arrivals' = Arrivals
  BY <1>1 DEF Arrivals
<1>3. Drives' = Drives
  BY <1>1 DEF Drives
<1>4. net' \in Nets
  BY DEF FabricTypeOK
<1>5. (pending \in Seq(Arrivals))' /\ (order \in Nat)'
  BY <1>2
<1>6. (sent \in Seq([src : Senders, dst : Receivers, crossed : BOOLEAN]))'
  BY <1>1
<1>7. (inbox \in [Hosts(net) -> Seq(Arrivals)])' /\ (deadline \in [Hosts(net) -> Nat])'
  BY <1>1, <1>2
<1>8. (drive \in {NoDrive} \cup Drives)'
  BY <1>3 DEF NoDrive
<1> QED BY <1>1, <1>2, <1>4, <1>5, <1>6, <1>7, <1>8 DEF FabricTypeOK

LEMMA ClockKeeps ==
  ASSUME FabricInv, Tick \/ WakeTimerFires \/ AdvanceBy
  PROVE  FabricInv'
<1>1. FabricTypeOK /\ ClockOK
  BY DEF FabricInv
<1>2. CASE Tick
  <2>1. FabricTypeOK'
    BY <1>1, <1>2, TypeKept DEF Tick, FabricTypeOK
  <2>2. ClockOK' /\ Horizon' = Horizon + 1
    BY <1>1, <1>2, DriveIs DEF Tick, FabricTypeOK, ClockOK, Horizon
  <2> QED BY <1>1, <1>2, <2>1, <2>2, HorizonIs, QuietFabricStep DEF Tick, FabricTypeOK
<1>3. CASE WakeTimerFires
  <2>1. Projected \in Nat /\ now <= Projected /\ (running => Horizon = Projected)
    BY <1>1, <1>3 DEF WakeTimerFires, Projected, FabricTypeOK, ClockOK, Horizon
  <2>2. /\ drive' \in Drives /\ drive' # NoDrive /\ drive'.target = Projected /\ drive'.wake
        /\ drive'.at = "next" /\ ~drive'.final
    BY <2>1, <1>3, NewDrive DEF WakeTimerFires
  <2>3. FabricTypeOK'
    BY <1>1, <1>3, <2>2, TypeKept DEF WakeTimerFires, FabricTypeOK
  <2>4. /\ UNCHANGED <<net, running, now, wall, pending, order, sent, inbox>>
        /\ wallLast' = wall
    BY <1>3 DEF WakeTimerFires
  <2>5. ClockOK' /\ Horizon' = Projected
    BY <1>1, <2>1, <2>2, <2>4 DEF FabricTypeOK, ClockOK, Horizon
  <2>6. running' => running /\ Horizon <= Horizon'
    BY <2>1, <2>4, <2>5
  <2>7. now <= now'
    BY <1>1, <2>4 DEF FabricTypeOK
  <2> QED BY <2>3, <2>4, <2>5, <2>6, <2>7, QuietFabricStep
<1>4. CASE AdvanceBy
  <2>1. PICK ms \in 0 .. 1 : drive' = DriveTo(now + ms, FALSE)
    BY <1>4 DEF AdvanceBy
  <2>2. now + ms \in Nat
    BY <1>1 DEF FabricTypeOK
  <2>3. /\ drive' \in Drives /\ drive' # NoDrive /\ drive'.target = now + ms /\ ~drive'.wake
        /\ drive'.at = "next" /\ ~drive'.final
    BY <2>1, <2>2, NewDrive
  <2>4. FabricTypeOK'
    BY <1>1, <1>4, <2>3, TypeKept DEF AdvanceBy, clock, FabricTypeOK
  <2>5. /\ UNCHANGED <<net, running, now, wall, wallLast, pending, order, sent, inbox>>
        /\ drive = NoDrive
    BY <1>4 DEF AdvanceBy, clock
  <2>6. ClockOK' /\ Horizon' = Horizon
    BY <1>1, <2>3, <2>5 DEF FabricTypeOK, ClockOK, Horizon
  <2>7. Horizon <= Horizon' /\ now <= now'
    BY <1>1, <2>5, <2>6, HorizonIs DEF FabricTypeOK
  <2> QED BY <2>4, <2>5, <2>6, <2>7, QuietFabricStep
<1> QED BY <1>2, <1>3, <1>4

-----------------------------------------------------------------------------
LEMMA DriveOnKeeps ==
  ASSUME FabricInv, DriveOn
  PROVE  FabricInv'
<1> DEFINE next == NextWake(pending, deadline)
           last == next > drive.target
<1>1. FabricTypeOK /\ ClockOK /\ drive # NoDrive
  BY Runs DEF FabricInv, DriveOn
<1>2. next \in Nat
  BY <1>1, NextWakeIs
<1>3. /\ now' = IF last THEN drive.target ELSE IF next > now THEN next ELSE now
      /\ drive' = [drive EXCEPT !.at = "arrivals", !.final = last,
                        !.before = drive.processed, !.worked = FALSE, !.turn = 1,
                        !.immediate = [h \in Hosts(net) |-> 0]]
  BY Zenon DEF DriveOn
<1> HIDE DEF next
<1>4. /\ drive' \in Drives /\ drive' # NoDrive /\ drive'.at = "arrivals"
      /\ drive'.target = drive.target /\ drive'.wake = drive.wake /\ drive'.final = last
  <2>1. [h \in Hosts(net) |-> 0] \in [Hosts(net) -> Int] /\ last \in BOOLEAN
    OBVIOUS
  <2>2. drive \in Drives /\ drive.processed \in Int /\ 1 \in Nat \ {0}
    BY <1>1, DriveIs
  <2> HIDE DEF last
  <2>3. drive' \in Drives
    BY <1>3, <2>1, <2>2 DEF Drives
  <2>4. /\ drive'.at = "arrivals" /\ drive'.target = drive.target /\ drive'.wake = drive.wake
        /\ drive'.final = last
    BY <1>3, <2>2 DEF Drives
  <2> QED BY <2>3, <2>4 DEF Drives, NoDrive
<1>5. /\ now <= drive.target /\ drive.target \in Nat /\ now \in Nat
      /\ now' \in Nat /\ now <= now' /\ now' <= drive.target /\ (last => now' = drive.target)
  BY <1>1, <1>2, <1>3, DriveIs DEF ClockOK, FabricTypeOK
<1>6. UNCHANGED <<net, running, wall, wallLast, pending, order, deadline, sent, inbox>>
  BY DEF DriveOn, clock
<1>7. FabricTypeOK'
  BY <1>1, <1>4, <1>5, <1>6, TypeKept DEF FabricTypeOK
<1>8. ClockOK' /\ Horizon <= Horizon'
  <2>1. ClockOK'
    BY <1>1, <1>4, <1>5, <1>6 DEF ClockOK
  <2>2. /\ Horizon = (IF drive.wake THEN drive.target ELSE now) + (wall - wallLast)
        /\ Horizon' = (IF drive.wake THEN drive.target ELSE now') + (wall - wallLast)
        /\ drive.wake \in BOOLEAN /\ wall \in Nat /\ wallLast \in Nat
    BY <1>1, <1>4, <1>6, DriveIs DEF Horizon, FabricTypeOK
  <2>3. CASE drive.wake
    BY <1>5, <2>1, <2>2, <2>3
  <2>4. CASE ~drive.wake
    <3>1. Horizon = now + (wall - wallLast) /\ Horizon' = now' + (wall - wallLast)
      BY <2>2, <2>4, Zenon
    <3> QED BY <1>5, <2>1, <2>2, <3>1
  <2> QED BY <2>1, <2>3, <2>4
<1> QED BY <1>5, <1>6, <1>7, <1>8, QuietFabricStep

(* A drive that stays where it is in time, or ends, or throws.               *)
LEMMA DriveKeeps ==
  ASSUME FabricInv, drive # NoDrive, UNCHANGED <<net, now, clock, pending, order, sent, inbox>>,
         deadline' \in [Hosts(net) -> Nat],
         \/ /\ drive' \in Drives /\ drive'.target = drive.target /\ drive'.wake = drive.wake
            /\ drive'.at # "next" /\ drive'.final => now = drive.target
            /\ running' = running
         \/ drive' = NoDrive /\ now = drive.target /\ running' = running
         \/ drive' = NoDrive /\ running' = (running /\ ~drive.wake)
  PROVE  FabricInv'
<1>1. FabricTypeOK /\ ClockOK
  BY DEF FabricInv
<1>2. FabricTypeOK'
  BY <1>1, TypeKept DEF FabricTypeOK, clock
<1>3. ClockOK'
  BY <1>1, DriveIs DEF FabricTypeOK, ClockOK, clock, NoDrive
<1>4. drive' \in Drives => drive' # NoDrive
  BY DEF Drives, NoDrive
<1>5. running' => running /\ Horizon' = Horizon
  BY <1>1, <1>4, DriveIs DEF Horizon, FabricTypeOK, clock
<1>6. Horizon \in Int
  BY <1>1, HorizonIs
<1>7. now <= now'
  BY <1>1 DEF FabricTypeOK
<1> QED BY <1>2, <1>3, <1>5, <1>6, <1>7, QuietFabricStep

LEMMA StepsBeginKeeps ==
  ASSUME FabricInv, StepsBegin
  PROVE  FabricInv'
<1>1. FabricTypeOK /\ ClockOK /\ drive # NoDrive /\ drive.at # "next"
  BY Runs DEF FabricInv, StepsBegin
<1>2. drive' \in Drives /\ drive'.target = drive.target /\ drive'.wake = drive.wake /\ drive'.final = drive.final
  <2>1. drive' = [drive EXCEPT !.at = "steps", !.turn = 1]
    BY DEF StepsBegin
  <2>2. drive \in Drives /\ 1 \in Nat \ {0}
    BY <1>1, DriveIs
  <2> QED BY <2>1, <2>2 DEF Drives
<1>3. drive'.final => now = drive.target
  BY <1>1, <1>2 DEF ClockOK
<1> QED BY <1>1, <1>2, <1>3, DriveKeeps DEF StepsBegin, FabricTypeOK

LEMMA StepAcceptedKeeps ==
  ASSUME FabricInv, drive # NoDrive, drive.at = "steps", NEW h \in Hosts(net),
         NEW r \in net.steps[h], StepAccepted(h, r),
         UNCHANGED <<net, now, clock, pending, order, links, sent, inbox, advances>>
  PROVE  FabricInv'
<1>1. FabricTypeOK /\ ClockOK
  BY DEF FabricInv
<1>2. r.items \in Nat /\ r.next \in Int
  BY <1>1, FabricAssumption DEF FabricTypeOK, Hosts
<1> DEFINE count == IF r.immediate THEN drive.immediate[h] + 1 ELSE 0
<1>3. count \in Int
  BY <1>1, DriveIs
<1>4. CASE r.next < 0 \/ count > MaxImmediate
  <2>1. drive' = NoDrive /\ running' = (running /\ ~drive.wake) /\ deadline' = deadline
    BY <1>4, Zenon DEF StepAccepted, Throws
  <2> QED BY <2>1, <1>1, DriveKeeps DEF FabricTypeOK
<1>5. CASE ~(r.next < 0 \/ count > MaxImmediate)
  <2>1. /\ deadline' = [deadline EXCEPT ![h] =
                IF r.immediate THEN now ELSE IF r.next = Never THEN Never
                ELSE now + r.next]
        /\ drive' = [drive EXCEPT !.turn = @ + 1, !.worked = TRUE,
                          !.processed = @ + IF r.items > 1 THEN r.items ELSE 1,
                          !.immediate[h] = count]
        /\ running' = running
    BY <1>5, Zenon DEF StepAccepted
  <2> HIDE DEF count
  <2>2. deadline' \in [Hosts(net) -> Nat]
    <3>1. now + r.next \in Nat /\ now \in Nat /\ Never \in Nat
      BY <1>1, <1>2, <1>5, FabricAssumption DEF FabricTypeOK
    <3> QED BY <1>1, <2>1, <3>1 DEF FabricTypeOK
  <2>3. [drive.immediate EXCEPT ![h] = count] \in [Hosts(net) -> Int]
    BY <1>1, <1>3, DriveIs
  <2>4. drive' \in Drives /\ drive'.target = drive.target /\ drive'.wake = drive.wake /\ drive'.final = drive.final
    <3> DEFINE work == IF r.items > 1 THEN r.items ELSE 1
               immediate == [drive.immediate EXCEPT ![h] = count]
    <3>1. drive \in Drives /\ drive.turn + 1 \in Nat \ {0} /\ drive.processed + work \in Int
      BY <1>1, <1>2, DriveIs
    <3>2. drive' = [drive EXCEPT !.turn = @ + 1, !.worked = TRUE,
                      !.processed = @ + work, !.immediate = immediate]
      BY <2>1
    <3>3. immediate \in [Hosts(net) -> Int]
      BY <2>3
    <3> HIDE DEF work, immediate
    <3> QED BY <3>1, <3>2, <3>3 DEF Drives
  <2>5. drive'.final => now = drive.target
    BY <1>1, <2>4 DEF ClockOK
  <2> QED BY <2>1, <2>2, <2>4, <2>5, DriveKeeps
<1> QED BY <1>4, <1>5

LEMMA StepRuntimeKeeps ==
  ASSUME FabricInv, StepRuntime
  PROVE  FabricInv'
<1>1. FabricTypeOK /\ ClockOK /\ drive # NoDrive /\ drive.at = "steps"
  BY Runs DEF FabricInv, StepRuntime
<1> DEFINE h == net.hosts[drive.turn]
<1>2. h \in Hosts(net)
  <2>1. net.hosts \in Seq(Range(net.hosts))
    BY <1>1, FabricAssumption DEF FabricTypeOK
  <2>2. drive.turn \in 1 .. Len(net.hosts)
    BY <1>1, DriveIs DEF StepRuntime
  <2> QED BY <2>1, <2>2 DEF Hosts
<1>3. UNCHANGED <<net, now, clock, pending, order, links, sent, inbox, advances>>
  BY DEF StepRuntime
<1>4. CASE deadline[h] > now
  <2>1. drive' = [drive EXCEPT !.turn = @ + 1] /\ UNCHANGED <<running, deadline>>
    BY <1>4 DEF StepRuntime
  <2>2. drive' \in Drives /\ drive'.target = drive.target /\ drive'.wake = drive.wake /\ drive'.final = drive.final
    BY <1>1, <2>1, DriveIs DEF Drives
  <2>3. drive'.final => now = drive.target
    BY <1>1, <2>2 DEF ClockOK
  <2> QED BY <1>1, <1>3, <2>1, <2>2, <2>3, DriveKeeps DEF FabricTypeOK
<1>5. CASE ~(deadline[h] > now)
  <2>1. PICK r \in net.steps[h] : StepAccepted(h, r)
    BY <1>5 DEF StepRuntime
  <2> HIDE DEF h
  <2> QED BY <1>1, <1>2, <1>3, <2>1, StepAcceptedKeeps
<1> QED BY <1>4, <1>5

LEMMA RoundEndsKeeps ==
  ASSUME FabricInv, RoundEnds
  PROVE  FabricInv'
<1>1. FabricTypeOK /\ ClockOK /\ drive # NoDrive /\ drive.at = "steps"
  BY Runs DEF FabricInv, RoundEnds
<1>2. drive.final => now = drive.target
  BY <1>1 DEF ClockOK
<1>3. UNCHANGED <<net, now, clock, pending, order, sent, inbox, deadline>>
  BY DEF RoundEnds, Throws
<1>4. deadline' \in [Hosts(net) -> Nat]
  BY <1>1, <1>3 DEF FabricTypeOK
<1>5. \/ drive' = [drive EXCEPT !.at = "arrivals", !.worked = FALSE] /\ running' = running
      \/ drive' = NoDrive /\ running' = (running /\ ~drive.wake)
      \/ drive.final /\ drive' = NoDrive /\ running' = running
      \/ ~drive.final /\ drive' = [drive EXCEPT !.at = "next"] /\ running' = running
  BY DEF RoundEnds, Throws
<1>6. CASE drive' = [drive EXCEPT !.at = "arrivals", !.worked = FALSE] /\ running' = running
  <2>1. drive' \in Drives /\ drive'.target = drive.target /\ drive'.wake = drive.wake /\ drive'.final = drive.final
    BY <1>1, <1>6, DriveIs DEF Drives
  <2> QED BY <1>1, <1>2, <1>3, <1>4, <1>6, <2>1, DriveKeeps
<1>7. CASE drive' = NoDrive /\ running' = (running /\ ~drive.wake)
  BY <1>1, <1>3, <1>4, <1>7, DriveKeeps
<1>8. CASE drive.final /\ drive' = NoDrive /\ running' = running
  BY <1>1, <1>2, <1>3, <1>4, <1>8, DriveKeeps
<1>9. CASE ~drive.final /\ drive' = [drive EXCEPT !.at = "next"] /\ running' = running
  <2>1. drive' \in Drives /\ drive'.target = drive.target /\ drive'.wake = drive.wake /\ drive'.at = "next"
    BY <1>1, <1>9, DriveIs DEF Drives
  <2> QED BY <1>1, <1>3, <1>4, <1>9, <2>1, DriveKeeps
<1> QED BY <1>5, <1>6, <1>7, <1>8, <1>9

(* Toggles and cleared tables: the queue and the clock are left alone.       *)
LEMMA ToggleKeeps ==
  ASSUME FabricInv, UNCHANGED <<net, running, now, clock, pending, order, deadline, drive, sent, inbox>>
  PROVE  FabricInv'
<1>1. FabricTypeOK /\ ClockOK
  BY DEF FabricInv
<1>2. FabricTypeOK'
  BY <1>1, TypeKept DEF FabricTypeOK, clock
<1>3. ClockOK' /\ Horizon' = Horizon /\ now <= now'
  BY <1>1 DEF ClockOK, Horizon, clock, FabricTypeOK
<1>4. Horizon <= Horizon'
  BY <1>1, <1>3, HorizonIs
<1> QED BY <1>2, <1>3, <1>4, QuietFabricStep

-----------------------------------------------------------------------------
(* The first arrival leaves the queue, and the drive counts it.              *)
LEMMA HeadTaken ==
  ASSUME FabricInv, drive.at = "arrivals", DueNow,
         UNCHANGED <<net, now, clock, deadline, sent>>,
         (drive' = Counted /\ running' = running) \/ Throws
  PROVE  /\ FabricTypeOK /\ ClockOK /\ pending # <<>> /\ drive # NoDrive
         /\ drive' = NoDrive \/ drive' \in Drives
         /\ ClockOK' /\ (running' => running /\ Horizon' = Horizon) /\ now <= now'
         /\ now' \in Nat /\ Horizon \in Int
         /\ Head(pending) \in Range(pending) /\ Head(pending) \in Arrivals
         /\ Head(pending).due <= now /\ Len(Head(pending).path) >= 1
         /\ Head(pending).id <= Len(sent)
<1>1. FabricTypeOK /\ ClockOK /\ NumbersOK /\ pending # <<>> /\ drive # NoDrive
  BY Runs DEF FabricInv, DueNow
<1>2. ASSUME drive' = Counted
      PROVE  /\ drive' \in Drives /\ drive'.target = drive.target /\ drive'.wake = drive.wake
             /\ drive'.final = drive.final /\ drive'.at = "arrivals" /\ drive' # NoDrive
  <2>1. drive' = [drive EXCEPT !.processed = @ + 1, !.worked = TRUE]
    BY <1>2 DEF Counted
  <2>2. drive \in Drives /\ drive.processed + 1 \in Int
    BY <1>1, DriveIs
  <2> QED BY <2>1, <2>2 DEF Drives, NoDrive
<1>3. ClockOK' /\ (running' => running /\ Horizon' = Horizon) /\ now <= now' /\ now' \in Nat
  <2>1. CASE drive' = Counted /\ running' = running
    BY <1>1, <1>2, <2>1 DEF ClockOK, Horizon, clock, FabricTypeOK
  <2>2. CASE Throws
    BY <1>1, <2>2, DriveIs DEF Throws, ClockOK, Horizon, clock, FabricTypeOK
  <2> QED BY <2>1, <2>2
<1>4. Horizon \in Int
  BY <1>1, HorizonIs
<1>5. Head(pending) \in Range(pending) /\ Head(pending) \in Arrivals
  BY <1>1, HeadIsFirst DEF FabricInv
<1>6. Head(pending).due <= now /\ Len(Head(pending).path) >= 1 /\ Head(pending).id <= Len(sent)
  BY <1>1, <1>5 DEF DueNow, NumbersOK
<1> QED BY <1>1, <1>2, <1>3, <1>4, <1>5, <1>6 DEF Throws

LEMMA TailKept ==
  ASSUME FabricInv, pending # <<>>
  PROVE  /\ QueueOK(Tail(pending), order) /\ Tail(pending) \in Seq(Arrivals)
         /\ Range(Tail(pending)) \subseteq Range(pending)
         /\ Range(Tail(pending)) \in SUBSET Arrivals
         /\ \A c \in Range(Tail(pending)) : c.id <= Len(sent) /\ Len(c.path) >= 1
         /\ Fixed => FramesInOrder(Range(Tail(pending)))
<1>1. QueueOK(Tail(pending), order) /\ Range(Tail(pending)) \subseteq Range(pending)
  BY HeadIsFirst DEF FabricInv
<1>2. Tail(pending) \in Seq(Arrivals)
  BY <1>1 DEF QueueOK
<1>3. Range(Tail(pending)) \in SUBSET Arrivals
  BY <1>2, RangeOf
<1>4. \A c \in Range(Tail(pending)) : c.id <= Len(sent) /\ Len(c.path) >= 1
  BY <1>1 DEF FabricInv, NumbersOK
<1>5. Fixed => FramesInOrder(Range(Tail(pending)))
  BY <1>1, FewerInOrder DEF FabricInv
<1> QED BY <1>1, <1>2, <1>3, <1>4, <1>5

(* What a step owes when the queue is another and the hosts' inboxes stay.   *)
LEMMA QueueStep ==
  ASSUME FabricInv, FabricTypeOK', ClockOK', UNCHANGED <<net, inbox>>,
         Len(sent) <= Len(sent)', QueueOK(pending', order'), Horizon \in Int,
         running' => Horizon' = Horizon,
         \A c \in Range(pending') : c.id <= Len(sent') /\ Len(c.path) >= 1,
         now <= now', running' => running,
         Fixed => FramesInOrder(Range(pending'))
  PROVE  FabricInv'
<1>1. FabricTypeOK /\ InboxesInOrder' = InboxesInOrder /\ Fixed' = Fixed /\ Hosts(net)' = Hosts(net)
  BY DEF FabricInv, InboxesInOrder, Fixed, Links, Hosts
<1>2. Arrivals' = Arrivals
  BY DEF Arrivals, Ends, Links, Senders, Receivers
<1>3. QueueOK(pending, order)'
  BY <1>2 DEF QueueOK, Sorted, Before
<1>4. NumbersOK'
  <2>1. ASSUME NEW h \in Hosts(net), NEW a \in Range(inbox[h]) PROVE a.id <= Len(sent)'
    <3>1. a \in Arrivals
      BY <1>1, RangeOf DEF FabricTypeOK
    <3>2. a.id <= Len(sent) /\ a.id \in Nat /\ Len(sent) \in Nat /\ Len(sent)' \in Nat
      BY <1>1, <3>1, ArrivalIs DEF FabricInv, NumbersOK, FabricTypeOK
    <3> QED BY <3>2
  <2> QED BY <1>1, <2>1 DEF NumbersOK
<1>5. ASSUME Fixed' PROVE FramesInOrder(Range(pending))'
  <2> DEFINE A == Range(pending')
  <2>1. A \in SUBSET Arrivals
    BY RangeOf DEF QueueOK
  <2>2. FramesInOrder(A) /\ now' \in Nat
    BY <1>1, <1>5 DEF FabricTypeOK
  <2>3. \A c \in A : Len(c.path) >= 1
    OBVIOUS
  <2> HIDE DEF A
  <2>4. ASSUME NEW B, B = A PROVE FramesInOrder(B)'
    BY <1>1, <2>1, <2>2, <2>3, <2>4, TimePasses
  <2>5. ASSUME NEW B, B = Range(pending') PROVE FramesInOrder(B)'
    BY <2>4, <2>5 DEF A
  <2> QED BY <2>5
<1>6. Fixed' => InboxesInOrder'
  BY <1>1 DEF FabricInv
<1> QED BY <1>3, <1>4, <1>5, <1>6 DEF FabricInv

LEMMA DroppedKeeps ==
  ASSUME FabricInv, ArrivalDropped \/ ArrivalRejected
  PROVE  FabricInv'
<1>1. /\ FabricTypeOK /\ pending # <<>> /\ (drive' = NoDrive \/ drive' \in Drives)
      /\ ClockOK' /\ (running' => running /\ Horizon' = Horizon)
      /\ now <= now' /\ Horizon \in Int
  BY HeadTaken DEF ArrivalDropped, ArrivalRejected, Throws
<1>2. /\ UNCHANGED <<net, now, wall, wallLast, order, deadline, sent, inbox>>
      /\ pending' = Tail(pending) /\ running' \in BOOLEAN
  BY <1>1 DEF ArrivalDropped, ArrivalRejected, Throws, clock, FabricTypeOK
<1>3. FabricTypeOK'
  BY <1>1, <1>2, TailKept, TypeKept DEF FabricTypeOK
<1> QED BY <1>1, <1>2, <1>3, TailKept, QueueStep DEF FabricTypeOK

LEMMA ForwardedKeeps ==
  ASSUME FabricInv, ArrivalForwarded
  PROVE  FabricInv'
<1> DEFINE b == Head(pending)
<1>1. /\ FabricTypeOK /\ pending # <<>> /\ (drive' = NoDrive \/ drive' \in Drives)
      /\ ClockOK' /\ (running' => Horizon' = Horizon) /\ now <= now' /\ Horizon \in Int
      /\ b \in Arrivals /\ b.due <= now /\ Len(b.path) >= 1 /\ b.id <= Len(sent)
  BY HeadTaken DEF ArrivalForwarded
<1> DEFINE table == IF b.hops >= MaxHops THEN learned[b.to[1]] ELSE Learnt(b)
<1>2. PICK chance \in Chances :
        pending' = Forward(b, table, chance).pending /\ order' = Forward(b, table, chance).order
  BY DEF ArrivalForwarded
<1>3. UNCHANGED <<net, running, now, wall, wallLast, deadline, sent, inbox>>
  BY DEF ArrivalForwarded, clock
<1>4. net.ports[b.to[1]] \in Nat
  BY <1>1, FabricAssumption DEF ArrivalForwarded, FabricTypeOK
<1>5. FloodOK([pending |-> Tail(pending), order |-> order], b)
  <2>1. Fixed => Ahead(b, Range(Tail(pending)))
    BY <1>1, HeadIsAhead
  <2> QED BY <1>1, <2>1, TailKept DEF FloodOK
<1> HIDE DEF b, table
<1>6. FloodOK(Forward(b, table, chance), b)
  BY <1>1, <1>4, <1>5, ForwardKeepsFlood DEF b
<1>7. /\ QueueOK(pending', order')
      /\ \A c \in Range(pending') : c.id <= Len(sent) /\ Len(c.path) >= 1
      /\ Fixed => FramesInOrder(Range(pending'))
  BY <1>2, <1>6 DEF FloodOK
<1>8. FabricTypeOK'
  BY <1>1, <1>3, <1>7, TypeKept DEF FabricTypeOK, QueueOK
<1> QED BY <1>1, <1>3, <1>7, <1>8, QueueStep DEF FabricTypeOK

(* A host receives what none that went the same way was sent after.          *)
LEMMA DeliveredKeeps ==
  ASSUME FabricInv, ArrivalDelivered
  PROVE  FabricInv'
<1> DEFINE b == Head(pending)
           T == Range(Tail(pending))
           host == b.to[1]
<1>1. /\ FabricTypeOK /\ pending # <<>> /\ (drive' = NoDrive \/ drive' \in Drives)
      /\ ClockOK' /\ (running' => Horizon' = Horizon) /\ now <= now' /\ Horizon \in Int
      /\ now' \in Nat
      /\ b \in Arrivals /\ b.id <= Len(sent)
  BY HeadTaken DEF ArrivalDelivered
<1>2. /\ UNCHANGED <<net, running, now, wall, wallLast, order, deadline, sent>>
      /\ pending' = Tail(pending) /\ host \in Hosts(net)
      /\ inbox' = [inbox EXCEPT ![host] = Append(@, b)]
  BY DEF ArrivalDelivered, clock
<1>3. /\ QueueOK(Tail(pending), order) /\ Tail(pending) \in Seq(Arrivals)
      /\ T \in SUBSET Arrivals
      /\ \A c \in T : c.id <= Len(sent) /\ Len(c.path) >= 1
      /\ Fixed => FramesInOrder(T)
      /\ Fixed => Ahead(b, T)
  BY <1>1, TailKept, HeadIsAhead
<1> HIDE DEF b, T, host
<1>4. ASSUME NEW h \in Hosts(net)
      PROVE  /\ inbox[h] \in Seq(Arrivals) /\ inbox'[h] \in Seq(Arrivals)
             /\ DOMAIN inbox[h] = 1 .. Len(inbox[h]) /\ Len(inbox[h]) \in Nat
             /\ h # host => inbox'[h] = inbox[h]
             /\ h = host => /\ DOMAIN inbox'[h] = 1 .. Len(inbox[h]) + 1
                            /\ inbox'[h][Len(inbox[h]) + 1] = b
                            /\ \A i \in 1 .. Len(inbox[h]) : inbox'[h][i] = inbox[h][i]
  <2>1. inbox[h] \in Seq(Arrivals) /\ inbox'[h] = IF h = host THEN Append(inbox[h], b) ELSE inbox[h]
    BY <1>1, <1>2 DEF FabricTypeOK
  <2>2. b \in Arrivals
    BY <1>1
  <2>3. /\ Append(inbox[h], b) \in Seq(Arrivals) /\ Len(inbox[h]) \in Nat
        /\ DOMAIN inbox[h] = 1 .. Len(inbox[h])
        /\ DOMAIN Append(inbox[h], b) = 1 .. Len(inbox[h]) + 1
        /\ Append(inbox[h], b)[Len(inbox[h]) + 1] = b
        /\ \A i \in 1 .. Len(inbox[h]) : Append(inbox[h], b)[i] = inbox[h][i]
    BY <2>1, <2>2
  <2> QED BY <2>1, <2>3
<1>5. FabricTypeOK' /\ Arrivals' = Arrivals /\ Fixed' = Fixed /\ Hosts(net)' = Hosts(net)
  <2>1. inbox' \in [Hosts(net) -> Seq(Arrivals)]
    BY <1>1, <1>2, <1>4 DEF FabricTypeOK
  <2> QED BY <1>1, <1>2, <1>3, <2>1, TypeKept DEF FabricTypeOK
<1>6. ASSUME NEW h \in Hosts(net), NEW k \in DOMAIN inbox'[h]
      PROVE  \/ inbox'[h][k] = b /\ h = host
             \/ k \in DOMAIN inbox[h] /\ inbox'[h][k] = inbox[h][k]
  <2>1. CASE h # host
    BY <1>4, <2>1
  <2>2. CASE h = host
    <3>1. k = Len(inbox[h]) + 1 \/ k \in 1 .. Len(inbox[h])
      BY <1>4, <2>2
    <3>2. DOMAIN inbox[h] = 1 .. Len(inbox[h])
      BY <1>4
    <3>3. CASE k = Len(inbox[h]) + 1
      <4>1. inbox'[h][Len(inbox[h]) + 1] = b
        BY <1>4, <2>2
      <4>2. inbox'[h][k] = b
        BY <3>3, <4>1, Zenon
      <4> QED BY <2>2, <4>2, Zenon
    <3>4. CASE k \in 1 .. Len(inbox[h])
      <4>1. inbox'[h][k] = inbox[h][k]
        BY <1>4, <2>2, <3>4
      <4> QED BY <3>2, <3>4, <4>1
    <3> QED BY <3>1, <3>3, <3>4
  <2> QED BY <2>1, <2>2
<1>7. QueueOK(pending, order)'
  BY <1>2, <1>3, <1>5 DEF QueueOK, Sorted, Before
<1>8. NumbersOK'
  <2>1. ASSUME NEW h \in Hosts(net), NEW a \in Range(inbox'[h]) PROVE a.id <= Len(sent)
    <3>1. PICK k \in DOMAIN inbox'[h] : a = inbox'[h][k]
      BY DEF Range
    <3>2. a = b \/ a \in Range(inbox[h])
      BY <1>6, <3>1 DEF Range
    <3> QED BY <1>1, <3>2 DEF FabricInv, NumbersOK
  <2> QED BY <1>2, <1>3, <1>5, <2>1 DEF NumbersOK, T
<1>9. ASSUME Fixed' PROVE FramesInOrder(Range(pending))' /\ InboxesInOrder'
  <2>1. Fixed /\ FramesInOrder(T) /\ Ahead(b, T) /\ InboxesInOrder /\ Behind(Range(pending))
    BY <1>3, <1>5, <1>9 DEF FabricInv, FramesInOrder
  <2>2. ASSUME NEW B, B = T PROVE FramesInOrder(B)'
    <3>1. InOrder(B)'
      BY <2>1, <2>2 DEF FramesInOrder, InOrder, Along, Before
    <3>2. Behind(B)'
      <4>1. ASSUME NEW c \in B, NEW h \in Hosts(net), NEW k \in DOMAIN inbox'[h],
                   Along(c.path, inbox'[h][k].path)
            PROVE  inbox'[h][k].id <= c.id
        BY <1>6, <2>1, <2>2, <4>1 DEF Ahead, FramesInOrder, Behind
      <4> QED BY <1>5, <4>1 DEF Behind, Along
    <3>3. \A c \in B : SentAt(c)' = SentAt(c)
      BY <1>2 DEF SentAt, Delay
    <3>4. Forwarded(B)' /\ Transmitted(B)'
      BY <1>1, <1>2, <2>1, <2>2, <3>3 DEF FramesInOrder, Forwarded, Transmitted
    <3> QED BY <3>1, <3>2, <3>4 DEF FramesInOrder
  <2>3. FramesInOrder(Range(pending))'
    <3>1. ASSUME NEW B, B = Range(pending') PROVE FramesInOrder(B)'
      BY <1>2, <2>2, <3>1 DEF T
    <3> QED BY <3>1
  <2>4. ASSUME NEW h \in Hosts(net), NEW i \in DOMAIN inbox'[h], NEW j \in DOMAIN inbox'[h], i < j,
               inbox'[h][i].path = inbox'[h][j].path
        PROVE  inbox'[h][i].id <= inbox'[h][j].id
    <3>1. j \in DOMAIN inbox[h] => i \in DOMAIN inbox[h]
      BY <1>4, <1>6, <2>4
    <3>2. CASE j \in DOMAIN inbox[h]
      <4>1. inbox'[h][i] = inbox[h][i] /\ inbox'[h][j] = inbox[h][j] /\ i \in DOMAIN inbox[h]
        BY <1>4, <3>1, <3>2
      <4> QED BY <2>1, <2>4, <3>2, <4>1 DEF InboxesInOrder
    <3>3. CASE j \notin DOMAIN inbox[h]
      <4>1. h = host /\ j = Len(inbox[h]) + 1 /\ inbox'[h][j] = b
        BY <1>4, <1>6, <3>3
      <4>2. i \in DOMAIN inbox[h] /\ inbox'[h][i] = inbox[h][i]
        BY <1>4, <2>4, <4>1
      <4>3. Along(b.path, inbox[h][i].path)
        <5>1. inbox[h][i].path = b.path /\ b.path \in Seq(Links(net) \X Ends)
          BY <1>1, <2>4, <4>1, <4>2, ArrivalIs
        <5> QED BY <5>1 DEF Along
      <4> QED BY <2>1, <4>1, <4>2, <4>3 DEF Ahead
    <3> QED BY <3>2, <3>3
  <2>5. InboxesInOrder'
    BY <1>5, <2>4 DEF InboxesInOrder
  <2> QED BY <2>3, <2>5
<1> QED BY <1>1, <1>5, <1>7, <1>8, <1>9 DEF FabricInv

-----------------------------------------------------------------------------
LEMMA TransmitKeeps ==
  ASSUME FabricInv, NEW t \in net.talk, Transmit(t[1], t[2])
  PROVE  FabricInv'
<1>1. FabricTypeOK /\ ClockOK /\ NumbersOK /\ drive = NoDrive /\ running
  BY DEF FabricInv, Transmit
<1> DEFINE q == [pending |-> pending, order |-> order]
           Frame(i) == [id |-> Len(sent) + 1, src |-> t[1], dst |-> t[2], path |-> <<>>,
                        to |-> <<t[1], i>>, due |-> 0, order |-> 0, hops |-> 0]
           Sent(i, chance) == SendAcrossLink(q, <<t[1], i>>, Frame(i), 0, Projected, chance)
<1>2. PICK chance \in Chances, i \in 1 .. net.ports[t[1]] :
        /\ pending' = Sent(i, chance).pending /\ order' = Sent(i, chance).order
        /\ sent' = Append(sent, [src |-> t[1], dst |-> t[2],
                                 crossed |-> Sent(i, chance).order > order])
  BY DEF Transmit
<1>3. UNCHANGED <<net, running, now, wall, wallLast, deadline, drive, inbox>>
  BY DEF Transmit, clock
<1> DEFINE frame == Frame(i)
           e == <<t[1], i>>
           s == Sent(i, chance)
           A == Range(pending)
<1>4. Projected \in Nat /\ order \in Nat /\ Len(sent) \in Nat /\ pending \in Seq(Arrivals)
      /\ QueueOK(pending, order) /\ now <= now' /\ Horizon \in Int /\ Horizon' = Horizon
  <2>1. Horizon' = Horizon
    BY <1>3 DEF Horizon
  <2> QED BY <1>1, <1>3, <2>1, HorizonIs DEF FabricInv, FabricTypeOK, ClockOK, Projected
<1>5. \/ s = q
      \/ \E l \in Links(net) : \E d \in net.delay[l] : \E a \in Arrivals :
           CrossedTo(a, frame, e, l, Projected + d, order) /\ s = Put(q, a)
  <2>1. CASE LinksAt(e) = {}
    <3>1. ~Crosses(e, frame, 0, chance)
      BY <2>1 DEF Crosses
    <3> QED BY <3>1 DEF SendAcrossLink
  <2>2. CASE LinksAt(e) # {}
    <3>1. e \in Ends
      BY <2>2 DEF LinksAt, Ends
    <3>2. frame \in Arrivals
      <4>1. t[1] \in Senders /\ t[2] \in Receivers /\ Len(sent) + 1 \in Nat
        BY <1>4 DEF Senders, Receivers
      <4>2. <<>> \in Seq(Links(net) \X Ends)
        OBVIOUS
      <4> HIDE DEF e
      <4>3. frame = [id |-> Len(sent) + 1, src |-> t[1], dst |-> t[2], path |-> <<>>,
                     to |-> e, due |-> 0, order |-> 0, hops |-> 0]
        BY DEF e
      <4> QED BY <3>1, <4>1, <4>2, <4>3 DEF Arrivals
    <3>3. q.order = order /\ q.order \in Nat /\ 0 \in Nat
      BY <1>4
    <3> HIDE DEF e, frame, q
    <3>4. s = SendAcrossLink(q, e, frame, 0, Projected, chance)
      BY DEF e, frame, q
    <3> HIDE DEF s
    <3> QED BY <1>1, <1>4, <3>2, <3>3, <3>4, SendIs
  <2> QED BY <2>1, <2>2
<1>6. sent' \in Seq([src : Senders, dst : Receivers, crossed : BOOLEAN]) /\ Len(sent') = Len(sent) + 1
  <2>1. [src |-> t[1], dst |-> t[2], crossed |-> s.order > order]
          \in [src : Senders, dst : Receivers, crossed : BOOLEAN]
    BY DEF Senders, Receivers
  <2> QED BY <1>1, <1>2, <2>1 DEF FabricTypeOK
<1>7. A \in SUBSET Arrivals /\ \A c \in A : c.id <= Len(sent) /\ Len(c.path) >= 1
  BY <1>1, <1>4, RangeOf DEF NumbersOK
<1> HIDE DEF e, s, A
<1>8. /\ QueueOK(pending', order')
      /\ \A c \in Range(pending') : c.id <= Len(sent') /\ Len(c.path) >= 1
      /\ Fixed => FramesInOrder(Range(pending'))
  <2>1. CASE s = q
    <3>1. pending' = pending /\ order' = order
      BY <1>2, <2>1 DEF s
    <3>2. \A c \in A : c.id <= Len(sent')
      <4>1. ASSUME NEW c \in A PROVE c.id <= Len(sent')
        BY <1>4, <1>6, <1>7, ArrivalIs
      <4> QED BY <4>1
    <3> QED BY <1>4, <1>7, <3>1, <3>2 DEF FabricInv, A
  <2>2. ASSUME NEW l \in Links(net), NEW d \in net.delay[l], NEW a \in Arrivals,
               CrossedTo(a, frame, e, l, Projected + d, order), s = Put(q, a)
        PROVE  /\ QueueOK(pending', order')
               /\ \A c \in Range(pending') : c.id <= Len(sent') /\ Len(c.path) >= 1
               /\ Fixed => FramesInOrder(Range(pending'))
    <3>1. /\ e \in Ends /\ a.id = Len(sent) + 1 /\ a.path = <<<<l, e>>>>
          /\ a.due = Projected + d /\ a.order = order
      BY <2>2 DEF CrossedTo
    <3>2. pending' = Inserted(pending, a) /\ order' = order + 1
      BY <1>2, <2>2 DEF Put, s
    <3>3. /\ QueueOK(pending', order') /\ Range(pending') = A \cup {a}
          /\ \A c \in A : c.order < a.order
      BY <1>4, <3>1, <3>2, QueueGrows DEF A
    <3>4. ASSUME Fixed PROVE FramesInOrder(A \cup {a})
      <4>1. FramesInOrder(A)
        BY <3>4 DEF FabricInv, A
      <4>2. \A c \in A : Len(c.path) >= 1 /\ c.id <= Len(sent) /\ c.order < a.order
        BY <1>7, <3>3
      <4> QED BY <1>1, <1>7, <3>1, <3>4, <4>1, <4>2, TransmitJoins
    <3>5. \A c \in A \cup {a} : c.id <= Len(sent') /\ Len(c.path) >= 1
      <4>1. ASSUME NEW c \in A PROVE c.id <= Len(sent')
        BY <1>4, <1>6, <1>7, ArrivalIs
      <4>2. Len(a.path) >= 1
        BY <3>1
      <4>3. a.id <= Len(sent')
        BY <1>4, <1>6, <3>1
      <4> QED BY <1>7, <4>1, <4>2, <4>3
    <3> QED BY <3>3, <3>4, <3>5
  <2> HIDE DEF q, frame
  <2> QED BY <1>5, <2>1, <2>2
<1>9. FabricTypeOK'
  BY <1>1, <1>3, <1>6, <1>8, TypeKept DEF FabricTypeOK, QueueOK
<1>10. ClockOK'
  BY <1>1, <1>3 DEF ClockOK
<1> QED BY <1>1, <1>3, <1>4, <1>6, <1>8, <1>9, <1>10, QueueStep

LEMMA FabricStep ==
  ASSUME FabricInv, [FabricNext]_fabricVars
  PROVE  FabricInv'
<1>1. CASE Tick \/ WakeTimerFires \/ AdvanceBy
  BY <1>1, ClockKeeps
<1>2. CASE Drive
  BY <1>2, DriveOnKeeps, DroppedKeeps, DeliveredKeeps, ForwardedKeeps, StepsBeginKeeps,
     StepRuntimeKeeps, RoundEndsKeeps, Zenon DEF Drive
<1>3. ASSUME NEW t \in net.talk, Transmit(t[1], t[2]) PROVE FabricInv'
  BY <1>3, TransmitKeeps
<1>4. ASSUME \/ \E l : ToggleLink(l)
             \/ \E e : ToggleInterface(e)
             \/ \E s : ToggleSwitch(s)
             \/ \E e : ClearLearning(e)
      PROVE  FabricInv'
  <2>1. UNCHANGED <<net, running, now, clock, pending, order, deadline, drive, sent, inbox>>
    BY <1>4 DEF ToggleLink, ToggleInterface, ToggleSwitch, ClearLearning
  <2> QED BY <2>1, ToggleKeeps
<1>5. CASE UNCHANGED fabricVars
  BY <1>5, ToggleKeeps DEF fabricVars
<1> QED BY <1>1, <1>2, <1>3, <1>4, <1>5 DEF FabricNext

(* OrderKept: of the frames of one host that went the same way to another,   *)
(* #processArrival delivers the one sent first first.                        *)
THEOREM FramesKeepTheirOrder == FabricSpec => []OrderKept
<1>1. FabricInv => OrderKept
  BY DEF FabricInv, OrderKept, InboxesInOrder
<1>2. FabricInit => FabricInv
  BY FabricStarts
<1>3. FabricInv /\ [FabricNext]_fabricVars => FabricInv'
  BY FabricStep
<1> QED BY <1>1, <1>2, <1>3, PTL DEF FabricSpec
=============================================================================
