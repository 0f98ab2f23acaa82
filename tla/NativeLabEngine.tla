--------------------------- MODULE NativeLabEngine ---------------------------
(***************************************************************************)
(* Lifecycle of NativeLabEngine (src/src/native/engine.ts): the engine     *)
(* state, the appliance map, the automatic-wake timer and the asynchronous *)
(* methods that start, pause, stop, dispose and clean up the appliances.   *)
(*                                                                         *)
(* JavaScript runs one callback at a time, so an action is everything a    *)
(* method does between two awaits that reach the guest.  The awaits that   *)
(* settle within the same macrotask (a drive of the fabric: step and       *)
(* deliverFrame of the v86 runtimes never wait) are not yield points.      *)
(*                                                                         *)
(* Appliances are numbered in project order, the insertion order of the    *)
(* Map #appliances, which is the order every loop visits them in.          *)
(***************************************************************************)
EXTENDS Integers, FiniteSets

CONSTANTS
  N,          (* Number of appliances (nodes other than switches).           *)
  Toggles,    (* Names for the calls of setNodeState() that may be           *)
              (* outstanding together.                                       *)
  Client,     (* The calls the client makes: a subset of Calls.              *)
  Overlap,    (* Pairs <<op, other>>: the client may call op while the call  *)
              (* other is outstanding. {} is a client that awaits each call; *)
              (* the application makes any call while toggles are            *)
              (* outstanding, and none while start, pause or dispose is.     *)
  StopMayFail (* Whether a runtime's stop() may reject (a NODE_STOP timeout).*)

Nodes == 1 .. N
Methods == {"start", "pause", "stop", "dispose"}
Calls == Methods \cup Toggles
Ops   == Calls \cup {"cleanup"}

ASSUME EngineAssumption ==
  /\ N \in Nat \ {0}
  /\ Toggles \cap (Methods \cup {"cleanup"}) = {}
  /\ Client \subseteq Calls
  /\ Overlap \subseteq Calls \X Calls
  /\ StopMayFail \in BOOLEAN

EngineStates == {"new", "starting", "running", "pausing", "paused",
                 "stopping", "stopped", "failed", "disposed"}
RuntimeStates == {"none", "new", "initialized", "running", "stopped",
                  "failed", "disposed"}

VARIABLES
  state,     (* #state                                                       *)
  inMap,     (* keys of #appliances                                          *)
  rt,        (* runtime.state of each appliance ("none": not constructed)    *)
  active,    (* entry.active                                                 *)
  nodeUp,    (* #nodeStates.get(id) = 'up'                                   *)
  pend,      (* destinations of the frames in #pendingArrivals               *)
  timer,     (* #timer # null                                                *)
  cleanup,   (* #failureCleanup: "none", "running" or "done"                 *)
  task,      (* for each method, where its outstanding call awaits           *)
  slots,     (* appliances that hold a slot of the machine: registered by    *)
             (* initialize() and not yet released by dispose()               *)
  stopFailed (* history: appliances whose runtime.stop() has rejected        *)

fabric == <<pend, timer>>
machine == <<slots, stopFailed>>
vars == <<state, inMap, rt, active, nodeUp, pend, timer, cleanup, task,
          slots, stopFailed>>

-----------------------------------------------------------------------------
Idle == [pc |-> "idle", at |-> 0]
At(pc, n) == [pc |-> pc, at |-> n]
Awaits == [pc : {"idle", "init", "boot", "cleanup", "stop", "dispose", "down", "up", "iface"},
           at : Nodes \cup {0}]
Awaiting(op, pc, n) == task[op] = At(pc, n)

(* The client discipline: a method is not re-entered, and while another call  *)
(* is outstanding only the pairs of Overlap are made.                         *)
MayCall(op) == /\ op \in Client
               /\ task[op] = Idle
               /\ \A other \in Calls \ {op} : task[other] = Idle \/ <<op, other>> \in Overlap

(* j is the first entry of S in map order.                                    *)
First(j, S) == j \in S /\ \A x \in S : j <= x
After(k, S) == {j \in S : j > k}

(* A loop over the entries after k stops and disposes: at j it awaits         *)
(* runtime.stop() if the runtime is running in r, else runtime.dispose().     *)
ReleaseAt(j, r) == At(IF r[j] = "running" THEN "stop" ELSE "dispose", j)

(* #beginFailureCleanup: the release loop runs only the first time (??=).     *)
(* t is `task` with the changes the caller makes to it.                       *)
BeginCleanup(t, r) ==
  \/ /\ cleanup # "none"
     /\ task' = t
     /\ UNCHANGED cleanup
  \/ /\ cleanup = "none" /\ inMap = {}
     /\ task' = t
     /\ cleanup' = "done"
  \/ /\ cleanup = "none"
     /\ \E j \in inMap : /\ First(j, inMap)
                         /\ task' = [t EXCEPT !["cleanup"] = ReleaseAt(j, r)]
     /\ cleanup' = "running"

(* #driveTo: deliver the due arrivals. A frame for an active appliance whose  *)
(* runtime is not running makes deliverFrame reject.                          *)
Rejects(due, a, r) ==
  \E m \in due : nodeUp[m] /\ m \in inMap /\ a[m] /\ r[m] # "running"

(* Mutant of Armed: the wake is scheduled whatever the engine's state.        *)
ArmedAlways(st, p) == p # {}

(* #scheduleAutomaticWake in engine state st with arrivals p pending.         *)
Armed(st, p) == IF st = "running" THEN p # {} ELSE timer

-----------------------------------------------------------------------------
Init ==
  /\ state = "new"
  /\ inMap = {}
  /\ rt = [n \in Nodes |-> "none"]
  /\ active = [n \in Nodes |-> FALSE]
  /\ nodeUp \in [Nodes -> BOOLEAN]
  /\ pend = {}
  /\ timer = FALSE
  /\ cleanup = "none"
  /\ task = [op \in Ops |-> Idle]
  /\ slots = {}
  /\ stopFailed = {}

-----------------------------------------------------------------------------
(* start(): initialise the appliances, boot those whose node is up, drive.   *)

(* The catch block of start(): 'failed', then await the failure cleanup.      *)
StartThrows(r) ==
  /\ state' = "failed"
  /\ BeginCleanup([task EXCEPT !["start"] = At("cleanup", 0)], r)

(* The end of start(): drive the due arrivals and enter 'running'.            *)
EnterRunning(a, r) ==
  \E due \in SUBSET pend :
    /\ pend' = pend \ due
    /\ \/ /\ Rejects(due, a, r)
          /\ StartThrows(r)
          /\ UNCHANGED timer
       \/ /\ ~Rejects(due, a, r)
          /\ state' = "running"
          /\ timer' = (pend \ due # {})
          /\ task' = [task EXCEPT !["start"] = Idle]
          /\ UNCHANGED cleanup

(* The boot loop after entry k in engine state st: a running appliance        *)
(* becomes active, one that is initialised or stopped is started and awaited, *)
(* any other makes start() throw. k itself (0: none) has just become running. *)
BootFrom(k, st, r) ==
  LET up      == {j \in After(k, inMap) : nodeUp[j]}
      waiting == {j \in up : r[j] # "running"}
      Activate(S) == [n \in Nodes |-> active[n] \/ n = k \/ n \in S]
  IN  /\ rt' = r
      /\ \/ /\ waiting = {}
            /\ active' = Activate(up)
            /\ EnterRunning(Activate(up), r)
         \/ \E j \in waiting :
              /\ First(j, waiting)
              /\ active' = Activate({i \in up : i < j})
              /\ \/ /\ r[j] \in {"initialized", "stopped"}
                    /\ state' = st
                    /\ task' = [task EXCEPT !["start"] = At("boot", j)]
                    /\ UNCHANGED cleanup
                 \/ /\ r[j] \notin {"initialized", "stopped"}
                    /\ StartThrows(r)
              /\ UNCHANGED fabric
      /\ UNCHANGED <<inMap, nodeUp, machine>>

(* #initializeAppliances constructs appliance n, adds it to the map and calls *)
(* its initialize(); r are the runtime states of the others.                  *)
Construct(n, st, r) ==
  /\ state' = st
  /\ inMap' = inMap \cup {n}
  /\ rt' = [r EXCEPT ![n] = "new"]
  /\ active' = [active EXCEPT ![n] = FALSE]
  /\ task' = [task EXCEPT !["start"] = At("init", n)]
  /\ slots' = slots \cup {n}
  /\ UNCHANGED <<nodeUp, fabric, cleanup, stopFailed>>

Start ==
  /\ MayCall("start")
  /\ state \in {"new", "paused", "stopped"}
  /\ IF inMap = {} THEN Construct(1, "starting", rt) ELSE BootFrom(0, "starting", rt)

(* runtime.initialize() of n resolves; it rejects if the machine failed.      *)
InitResolves(n) ==
  LET r == [rt EXCEPT ![n] = "initialized"]
  IN  /\ Awaiting("start", "init", n)
      /\ rt[n] # "failed"
      /\ IF n < N THEN Construct(n + 1, state, r) ELSE BootFrom(0, state, r)

(* The await that start() is in, for n, rejects: the runtime's own 'failed'   *)
(* event makes n inactive and stops the timer before the catch block runs.    *)
StartCallRejects(n) ==
  LET r == [rt EXCEPT ![n] = "failed"]
  IN  /\ Awaiting("start", "init", n) \/ Awaiting("start", "boot", n)
      /\ rt' = r
      /\ active' = [active EXCEPT ![n] = FALSE]
      /\ timer' = IF state \in {"running", "starting"} THEN FALSE ELSE timer
      /\ StartThrows(r)
      /\ UNCHANGED <<inMap, nodeUp, pend, machine>>

(* No request for n that the guest answers first is outstanding: the guest    *)
(* executes the requests of a node in the order they were sent.               *)
NoStopPending(n) == \A op \in Ops : ~Awaiting(op, "stop", n) /\ ~Awaiting(op, "down", n)

(* Mutant of BootResolves: start() does not look at #state after the await.   *)
BootResolvesUnchecked(n) ==
  /\ Awaiting("start", "boot", n)
  /\ rt[n] # "disposed"
  /\ BootFrom(n, state, [rt EXCEPT ![n] = "running"])

(* runtime.start() of n resolves, also when the answer and a failure came in  *)
(* one chunk. The loop goes on unless the lab has failed in the meantime.     *)
BootResolves(n) ==
  LET r == [rt EXCEPT ![n] = "running"]
  IN  /\ Awaiting("start", "boot", n)
      /\ rt[n] # "disposed"
      /\ \/ /\ state # "failed"
            /\ BootFrom(n, state, r)
         \/ /\ state = "failed"
            /\ rt' = r
            /\ StartThrows(r)
            /\ UNCHANGED <<inMap, active, nodeUp, fabric, machine>>

(* The failure cleanup that start() awaits has settled: start() rejects.      *)
StartRejects ==
  /\ task["start"].pc = "cleanup"
  /\ cleanup = "done"
  /\ task' = [task EXCEPT !["start"] = Idle]
  /\ UNCHANGED <<state, inMap, rt, active, nodeUp, fabric, cleanup, machine>>

-----------------------------------------------------------------------------
(* A loop of runtime.stop() calls: pause() and stop().                       *)

(* runtime.stop() of n settles; when it rejects the runtime keeps its state.  *)
StopSettles(n, ok) ==
  /\ ok \/ StopMayFail
  /\ rt' = IF ok THEN [rt EXCEPT ![n] = "stopped"] ELSE rt
  /\ stopFailed' = IF ok THEN stopFailed ELSE stopFailed \cup {n}

(* The loop of op from entry k on, which no longer awaits: the entries it     *)
(* passes lose `active`; it awaits the next running one or ends in `final`.   *)
StopLoop(op, k, transient, final, r) ==
  LET rest == {j \in After(k, inMap) : r[j] = "running"}
      Deactivate(S) == [n \in Nodes |-> active[n] /\ n \notin S]
      from == {j \in inMap : j >= k}
  IN  \/ /\ rest = {}
         /\ active' = Deactivate(from)
         /\ task' = [task EXCEPT ![op] = Idle]
         /\ state' = final
      \/ \E j \in rest :
           /\ First(j, rest)
           /\ active' = Deactivate({i \in from : i < j})
           /\ task' = [task EXCEPT ![op] = At("stop", j)]
           /\ state' = transient

Pause ==
  /\ MayCall("pause")
  /\ state = "running"
  /\ timer' = FALSE
  /\ \E due \in SUBSET pend :
       /\ pend' = pend \ due
       /\ \/ /\ Rejects(due, active, rt)
             /\ UNCHANGED <<state, active, task>>
          \/ /\ ~Rejects(due, active, rt)
             /\ StopLoop("pause", 0, "pausing", "paused", rt)
  /\ UNCHANGED <<inMap, rt, nodeUp, cleanup, machine>>

(* A rejected stop() leaves pause() at once, in state 'pausing'.              *)
PauseStopped(n, ok) ==
  /\ Awaiting("pause", "stop", n)
  /\ StopSettles(n, ok)
  /\ IF ok
     THEN StopLoop("pause", n, state, "paused", rt')
     ELSE /\ task' = [task EXCEPT !["pause"] = Idle]
          /\ UNCHANGED <<state, active>>
  /\ UNCHANGED <<inMap, nodeUp, fabric, cleanup, slots>>

Stop ==
  /\ MayCall("stop")
  /\ state \in {"new", "starting", "running", "paused", "failed"}
  /\ timer' = FALSE
  /\ StopLoop("stop", 0, "stopping", "stopped", rt)
  /\ pend' = IF task'["stop"] = Idle THEN {} ELSE pend
  /\ UNCHANGED <<inMap, rt, nodeUp, cleanup, machine>>

(* stop() collects the failures and goes on.                                  *)
StopStopped(n, ok) ==
  /\ Awaiting("stop", "stop", n)
  /\ StopSettles(n, ok)
  /\ StopLoop("stop", n, state, "stopped", rt')
  /\ pend' = IF task'["stop"] = Idle THEN {} ELSE pend
  /\ UNCHANGED <<inMap, nodeUp, timer, cleanup, slots>>

-----------------------------------------------------------------------------
(* The release loop of dispose() and of #disposeAppliancesAfterFailure: stop  *)
(* each running appliance and dispose it; a rejection skips to the next one.  *)

(* What follows the loop of op: the map is cleared.                           *)
Released(op) ==
  /\ task' = [task EXCEPT ![op] = Idle]
  /\ inMap' = {}
  /\ IF op = "cleanup"
     THEN /\ cleanup' = "done"
          /\ UNCHANGED <<state, pend>>
     ELSE /\ state' = "disposed"
          /\ pend' = {}
          /\ UNCHANGED cleanup

(* Mutant of ReleaseLoop: only running appliances are released.               *)
ReleaseRunningOnly(op, k, r) ==
  LET rest == {j \in After(k, inMap) : r[j] = "running"}
  IN  \/ \E j \in rest :
           /\ First(j, rest)
           /\ task' = [task EXCEPT ![op] = ReleaseAt(j, r)]
           /\ UNCHANGED <<state, inMap, pend, cleanup>>
      \/ rest = {} /\ Released(op)

(* The loop of op goes on after entry k; at its end the map is cleared.       *)
ReleaseLoop(op, k, r) ==
  \/ \E j \in inMap :
       /\ First(j, After(k, inMap))
       /\ task' = [task EXCEPT ![op] = ReleaseAt(j, r)]
       /\ UNCHANGED <<state, inMap, pend, cleanup>>
  \/ After(k, inMap) = {} /\ Released(op)

(* dispose() first awaits a failure cleanup that is under way.                *)
Dispose ==
  /\ MayCall("dispose")
  /\ state # "disposed"
  /\ timer' = FALSE
  /\ IF cleanup = "running"
     THEN /\ task' = [task EXCEPT !["dispose"] = At("cleanup", 0)]
          /\ UNCHANGED <<state, inMap, pend, cleanup>>
     ELSE ReleaseLoop("dispose", 0, rt)
  /\ UNCHANGED <<rt, active, nodeUp, machine>>

DisposeProceeds ==
  /\ task["dispose"].pc = "cleanup"
  /\ cleanup = "done"
  /\ ReleaseLoop("dispose", 0, rt)
  /\ UNCHANGED <<rt, active, nodeUp, timer, machine>>

(* Mutant of ReleaseStopped: the rejection is not caught and ends the loop.   *)
ReleaseStoppedUncaught(op, n, ok) ==
  /\ Awaiting(op, "stop", n)
  /\ StopSettles(n, ok)
  /\ task' = [task EXCEPT ![op] = IF ok THEN At("dispose", n) ELSE Idle]
  /\ UNCHANGED <<state, inMap, active, nodeUp, pend, timer, cleanup, slots>>

(* runtime.stop() of n settles; when it rejects the catch passes over dispose.*)
ReleaseStopped(op, n, ok) ==
  /\ Awaiting(op, "stop", n)
  /\ StopSettles(n, ok)
  /\ IF ok
     THEN /\ task' = [task EXCEPT ![op] = At("dispose", n)]
          /\ UNCHANGED <<state, inMap, pend, cleanup>>
     ELSE ReleaseLoop(op, n, rt)
  /\ UNCHANGED <<active, nodeUp, timer, slots>>

(* runtime.dispose() never rejects (SharedV86Machine.disposeNode).            *)
ReleaseDisposed(op, n) ==
  /\ Awaiting(op, "dispose", n)
  /\ NoStopPending(n)
  /\ rt' = [rt EXCEPT ![n] = "disposed"]
  /\ slots' = slots \ {n}
  /\ ReleaseLoop(op, n, rt')
  /\ UNCHANGED <<active, nodeUp, timer, stopFailed>>

-----------------------------------------------------------------------------
(* setNodeState(n, 'down') and setNodeState(n, 'up').                        *)

Usable == state \in {"running", "paused", "stopped"}

(* The end of setNodeState(n, 'down'): the node is down, the wake rescheduled.*)
NodeIsDown(n) ==
  /\ nodeUp' = [nodeUp EXCEPT ![n] = FALSE]
  /\ timer' = Armed(state, pend)

SetNodeDown(t, n) ==
  /\ MayCall(t)
  /\ Usable
  /\ nodeUp[n]
  /\ \/ /\ n \in inMap /\ rt[n] = "running"
        /\ task' = [task EXCEPT ![t] = At("down", n)]
        /\ UNCHANGED <<nodeUp, timer>>
     \/ /\ ~(n \in inMap /\ rt[n] = "running")
        /\ NodeIsDown(n)
        /\ UNCHANGED task
  /\ UNCHANGED <<state, inMap, rt, active, pend, cleanup, machine>>

(* Mutant of NodeStopped: the entry of the stopped node stays active.         *)
NodeStoppedActive(t, n, ok) ==
  /\ Awaiting(t, "down", n)
  /\ StopSettles(n, ok)
  /\ task' = [task EXCEPT ![t] = Idle]
  /\ IF ok THEN NodeIsDown(n) ELSE UNCHANGED <<nodeUp, timer>>
  /\ UNCHANGED <<state, inMap, active, pend, cleanup, slots>>

NodeStopped(t, n, ok) ==
  /\ Awaiting(t, "down", n)
  /\ StopSettles(n, ok)
  /\ task' = [task EXCEPT ![t] = Idle]
  /\ IF ok
     THEN /\ active' = [active EXCEPT ![n] = FALSE]
          /\ NodeIsDown(n)
     ELSE UNCHANGED <<active, nodeUp, timer>>
  /\ UNCHANGED <<state, inMap, pend, cleanup, slots>>

(* Only a running lab starts the appliance; a runtime in another state than   *)
(* initialised or stopped makes the call throw with the node already 'up'.    *)
SetNodeUp(t, n) ==
  /\ MayCall(t)
  /\ Usable
  /\ ~nodeUp[n]
  /\ nodeUp' = [nodeUp EXCEPT ![n] = TRUE]
  /\ \/ /\ n \in inMap /\ state = "running" /\ rt[n] \in {"initialized", "stopped"}
        /\ task' = [task EXCEPT ![t] = At("up", n)]
        /\ UNCHANGED timer
     \/ /\ n \in inMap /\ state = "running" /\ rt[n] \notin {"initialized", "stopped"}
        /\ UNCHANGED <<task, timer>>
     \/ /\ ~(n \in inMap /\ state = "running")
        /\ timer' = Armed(state, pend)
        /\ UNCHANGED task
  /\ UNCHANGED <<state, inMap, rt, active, pend, cleanup, machine>>

(* runtime.start() resolves (a failure may have come in the same chunk, and   *)
(* a start() of the lab may await the same node): the entry is active         *)
(* whatever the lab's state is now, and its interfaces are set to theirs.     *)
NodeStarted(t, n) ==
  /\ Awaiting(t, "up", n)
  /\ rt[n] # "disposed"
  /\ rt' = [rt EXCEPT ![n] = "running"]
  /\ active' = [active EXCEPT ![n] = n \in inMap]
  /\ task' = [task EXCEPT ![t] = At("iface", n)]
  /\ UNCHANGED <<state, inMap, nodeUp, fabric, cleanup, machine>>

(* setInterfaceState settles; if it resolves, the call ends with a drive.     *)
InterfacesSet(t, n, ok) ==
  /\ Awaiting(t, "iface", n)
  /\ task' = [task EXCEPT ![t] = Idle]
  /\ \/ /\ ok
        /\ \E due \in SUBSET pend :
             /\ pend' = pend \ due
             /\ timer' = IF Rejects(due, active, rt) THEN timer ELSE Armed(state, pend')
     \/ /\ ~ok
        /\ UNCHANGED fabric
  /\ UNCHANGED <<state, inMap, rt, active, nodeUp, cleanup, machine>>

-----------------------------------------------------------------------------
(* #handleRuntimeEvent for the 'failed' events of the runtimes in S, which a  *)
(* single callback emits (t: `task` as that callback leaves it). start() does *)
(* its own cleanup.                                                           *)
Fail(S, t) ==
  LET r == [n \in Nodes |-> IF n \in S THEN "failed" ELSE rt[n]]
  IN  /\ rt' = r
      /\ active' = [n \in Nodes |-> active[n] /\ n \notin S]
      /\ \/ /\ state = "running"
            /\ state' = "failed"
            /\ timer' = FALSE
            /\ BeginCleanup(t, r)
         \/ /\ state = "starting"
            /\ state' = "failed"
            /\ timer' = FALSE
            /\ task' = t
            /\ UNCHANGED cleanup
         \/ /\ state \notin {"running", "starting"}
            /\ task' = t
            /\ UNCHANGED <<state, timer, cleanup>>
      /\ UNCHANGED <<inMap, nodeUp, pend, machine>>

(* The guest reports NODE_EXIT of a running node.                             *)
NodeExits(n) == rt[n] = "running" /\ Fail({n}, task)

(* The v86 machine fails: every runtime on it that is not disposed fails.     *)
MachineFails ==
  LET S == {n \in Nodes : rt[n] \notin {"none", "disposed"}}
  IN  S # {} /\ Fail(S, task)

(* runtime.start() in setNodeState(n, 'up') rejects, and the runtime fails.   *)
NodeStartRejects(t, n) ==
  /\ Awaiting(t, "up", n)
  /\ Fail({n}, [task EXCEPT ![t] = Idle])

(* A guest frame from n for m (host.transmitFrame).                           *)
TransmitFrame(n, m) ==
  /\ rt[n] = "running"
  /\ state \in {"running", "starting"}
  /\ nodeUp[n] /\ nodeUp[m]
  /\ pend' = pend \cup {m}
  /\ timer' = Armed(state, pend')
  /\ UNCHANGED <<state, inMap, rt, active, nodeUp, cleanup, task, machine>>

(* The automatic wake: a drive; an error in it fails the lab without cleanup. *)
TimerFires ==
  /\ timer
  /\ \E due \in SUBSET pend :
       /\ pend' = pend \ due
       /\ \/ /\ Rejects(due, active, rt)
             /\ state' = "failed"
             /\ timer' = FALSE
          \/ /\ ~Rejects(due, active, rt)
             /\ timer' = (state = "running" /\ pend' # {})
             /\ UNCHANGED state
  /\ UNCHANGED <<inMap, rt, active, nodeUp, cleanup, task, machine>>

-----------------------------------------------------------------------------
ClientStep == \/ Start \/ Pause \/ Stop \/ Dispose
              \/ \E t \in Toggles, n \in Nodes : SetNodeDown(t, n) \/ SetNodeUp(t, n)

(* What settles an await: every guest request has a timeout.                  *)
StartSettles == StartRejects \/ \E n \in Nodes : InitResolves(n) \/ BootResolves(n) \/ StartCallRejects(n)
PauseSettles == \E n \in Nodes, ok \in BOOLEAN : PauseStopped(n, ok)
StopSettled == \E n \in Nodes, ok \in BOOLEAN : StopStopped(n, ok)
ReleaseSettles(op) == \E n \in Nodes : \/ ReleaseDisposed(op, n)
                                       \/ \E ok \in BOOLEAN : ReleaseStopped(op, n, ok)
DisposeSettles == DisposeProceeds \/ ReleaseSettles("dispose")
ToggleSettles(t) == \E n \in Nodes : \/ NodeStarted(t, n) \/ NodeStartRejects(t, n)
                                  \/ \E ok \in BOOLEAN : NodeStopped(t, n, ok) \/ InterfacesSet(t, n, ok)

GuestStep == \/ MachineFails
             \/ \E n \in Nodes : NodeExits(n)
             \/ \E n, m \in Nodes : n # m /\ TransmitFrame(n, m)

Next == \/ ClientStep \/ StartSettles \/ PauseSettles \/ StopSettled
        \/ DisposeSettles \/ ReleaseSettles("cleanup")
        \/ \E t \in Toggles : ToggleSettles(t)
        \/ GuestStep \/ TimerFires

Fairness == /\ WF_vars(StartSettles) /\ WF_vars(PauseSettles) /\ WF_vars(StopSettled)
            /\ WF_vars(DisposeSettles) /\ WF_vars(ReleaseSettles("cleanup"))
            /\ \A t \in Toggles : WF_vars(ToggleSettles(t))
            /\ WF_vars(TimerFires)

Spec == Init /\ [][Next]_vars
FairSpec == Spec /\ Fairness

-----------------------------------------------------------------------------
(* Properties. *)

(* Types of the engine's fields.                                              *)
TypeOK ==
  /\ state \in EngineStates
  /\ inMap \in SUBSET Nodes
  /\ rt \in [Nodes -> RuntimeStates]
  /\ active \in [Nodes -> BOOLEAN]
  /\ nodeUp \in [Nodes -> BOOLEAN]
  /\ pend \in SUBSET Nodes
  /\ timer \in BOOLEAN
  /\ cleanup \in {"none", "running", "done"}
  /\ task \in [Ops -> Awaits]
  /\ slots \in SUBSET Nodes
  /\ stopFailed \in SUBSET Nodes

(* An appliance that the engine no longer holds has given its slot back, or   *)
(* its stop() rejected: no other path of dispose(), of the failure cleanup or *)
(* of a start() that throws loses a guest node.                               *)
OnlyFailedStopsLeak == slots \ inMap \subseteq stopFailed

(* The engine enters 'running' only with every appliance of an 'up' node      *)
(* running, whatever failed or exited while start() was awaiting another.     *)
RunningMeansBooted ==
  [][state # "running" /\ state' = "running" =>
       inMap' = Nodes /\ \A n \in Nodes : nodeUp'[n] => rt'[n] = "running" /\ active'[n]]_vars

(* Outside dispose(), whose loop leaves `active` set, no frame reaches a      *)
(* runtime that is not running: no drive rejects on that account, and the     *)
(* wake timer does not fail a healthy lab.                                    *)
ActiveIsRunning ==
  state \in {"running", "starting", "paused", "stopped"} /\ task["dispose"] = Idle
    => \A n \in inMap : active[n] => rt[n] = "running"

(* A paused or stopped lab is at rest: no appliance is stepped, no wake is    *)
(* armed, and only an appliance whose stop() rejected still runs.             *)
AtRest == state \in {"paused", "stopped"} =>
            /\ ~timer
            /\ \A n \in inMap : ~active[n]
            /\ \A n \in inMap : rt[n] = "running" => n \in stopFailed

(* Every call of the client returns, and every failure cleanup ends.          *)
CallsReturn == \A op \in Ops : task[op] # Idle ~> task[op] = Idle

=============================================================================
