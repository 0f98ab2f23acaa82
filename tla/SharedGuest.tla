----------------------------- MODULE SharedGuest -----------------------------
(***************************************************************************)
(* The shared virtual machine: SharedV86Machine and its per-node facades   *)
(* SharedV86ApplianceRuntime (src/src/appliances/v86/shared-runtime.ts) at *)
(* one end of the control line, the guest supervisor labd                  *)
(* (src/appliances/v86/buildroot/package/anycast-labd/src/labd.c) at the   *)
(* other.                                                                  *)
(*                                                                         *)
(* The browser's side is single-threaded.  An action is a callback with    *)
(* the code it runs up to the next await; a continuation of a promise that *)
(* has settled is a microtask, and a new macrotask waits for all of them   *)
(* (Quiet).  The lines that arrive in one chunk of bytes are handled in    *)
(* one macrotask: no continuation runs between them (chunk).               *)
(*                                                                         *)
(* A method that awaits is recorded by where it does: call[t][n] is the    *)
(* await of the outstanding call of track t on node n.  "user" is the      *)
(* caller of initialize, start and stop; "release" is the engine's cleanup *)
(* or dispose(), which stops and disposes a node whatever else is          *)
(* outstanding on it.                                                      *)
(***************************************************************************)
EXTENDS Integers, Sequences, FiniteSets

CONSTANTS
  N,           (* Number of appliances, registered in order: slots 1 .. N.   *)
  MaxInFlight, (* Bound: control messages on the line when a call is made.   *)
  Uses         (* Ways the machine is used: the client, the faults that may  *)
               (* happen, and a bound on the timers that fire although an    *)
               (* answer may still come.  A client is "serial": one call at  *)
               (* a time, as in the loops of the engine; "node": nodes are   *)
               (* started and stopped one call at a time on each, as when    *)
               (* the user toggles them, and disposed of when nothing is     *)
               (* outstanding; or "any": a node may be released, whatever is *)
               (* outstanding on it, as when another has failed.             *)

AllFaults == {"prepare", "bootstrap", "download", "line", "exit", "START_FAILED",
              "LINK_FAILED", "STOP_FAILED", "DELETE_FAILED"}

ASSUME GuestAssumption ==
  /\ N \in Nat \ {0}
  /\ MaxInFlight \in Nat \ {0}
  /\ Uses \subseteq [client : {"serial", "node", "any"}, faults : SUBSET AllFaults, timeouts : Nat]

Nodes == 1 .. N
Tracks == {"user", "release"}
Ids == 1 .. MaxInFlight + 4 * N      (* A call leaves at most two behind.     *)
Lifecycle == {"new", "initialized", "running", "stopped", "failed", "disposed"}

(* The awaits that are control requests, with the command they send.          *)
Command == [NODE_START |-> "NODE_START", LINK |-> "LINK", undo |-> "NODE_STOP",
            stop |-> "NODE_STOP", dstop |-> "NODE_STOP", NODE_DELETE |-> "NODE_DELETE"]
Asking == DOMAIN Command
Starting == {"bootstrap", "boot", "NODE_START", "ready", "LINK"}
Awaits == {"idle", "prepare", "halt", "halted", "dhalt", "dhalted", "destroy"} \cup Starting \cup Asking

Requests == [id : Ids, cmd : {"NODE_START", "LINK", "NODE_STOP", "NODE_DELETE"}, node : Nodes]
Lines == [type : {"response"}, of : Ids, ok : BOOLEAN]
           \cup [type : {"node-ready", "node-exit"}, of : Nodes, ok : {TRUE}]
           \cup [type : {"machine-ready", "malformed"}, of : {0}, ok : {TRUE}]

VARIABLES
  use,        (* the way the machine is used, which never changes            *)
  rt,         (* state of each facade                                        *)
  registered, (* slots in #nodes                                             *)
  active,     (* node.active                                                 *)
  startup,    (* node.readiness and startupFailure: "none" (no start),       *)
              (* "pending", "ready", "exited" or "failed"                    *)
  call,       (* where the outstanding call of a track on a node awaits      *)
  queue,      (* control operations chained on #controlTail: <<track, node>> *)
  head,       (* the first of them: "queued", "sent", "ok" or "error"        *)
  waiter,     (* the request id in #controlWaiters, while head is "sent"     *)
  prep,       (* #preparePromise: "none", "load", "boot", "ok" or "failed"   *)
  sealed,     (* #sealed                                                     *)
  failed,     (* #failure # null                                             *)
  ready,      (* #machineReady: "pending", "ok" or "failed"                  *)
  destroyed,  (* #destroyed                                                  *)
  emulator,   (* "none", "idle", "running" or "stopping"                     *)
  chunk,      (* more lines of the chunk being handled follow                *)
  booted,     (* labd has written READY                                      *)
  guest,      (* labd's node: "off", "starting", "running", "dying" (exit    *)
              (* reported, not reaped), "stuck" (stopping failed), "deleted" *)
  input,      (* requests on the line to labd                                *)
  output,     (* lines from labd to the browser                              *)
  timeouts    (* timers that fired early so far                              *)

control == <<queue, head, waiter>>
machine == <<prep, sealed, failed, ready, destroyed, emulator>>
nodes == <<rt, registered, active, startup>>
labd == <<booted, guest, input, output>>
vars == <<use, rt, registered, active, startup, call, queue, head, waiter, prep, sealed, failed,
          ready, destroyed, emulator, chunk, booted, guest, input, output, timeouts>>

-----------------------------------------------------------------------------
Idle(n) == \A t \in Tracks : call[t][n] = "idle"
AllIdle == \A n \in Nodes : Idle(n)
MayUse(n) == \/ AllIdle
             \/ use.client = "node" /\ Idle(n) /\ \A m \in Nodes : call["release"][m] = "idle"
             \/ use.client = "any" /\ Idle(n)
MayRelease(n) == AllIdle \/ (use.client = "any" /\ call["release"][n] = "idle")
HeadAt(cmds) == queue # <<>> /\ call[Head(queue)[1]][Head(queue)[2]] \in cmds
Runs == emulator \in {"running", "stopping"}         (* emulator.is_running() *)

(* A continuation is due: everything awaited here has settled.                *)
Quiet ==
  /\ queue # <<>> => head = "sent" /\ ~(/\ HeadAt({"NODE_START", "LINK"})
                                        /\ startup[Head(queue)[2]] = "exited")
  /\ \A t \in Tracks, n \in Nodes :
       /\ call[t][n] \notin {"halted", "dhalted"}
       /\ call[t][n] = "prepare" => prep \in {"load", "boot"}
       /\ call[t][n] = "boot" => ready = "pending"
       /\ call[t][n] = "ready" => startup[n] = "pending"
(* Request ids are never reused: an id is free once nothing on the line       *)
(* carries it.                                                                *)
InFlight == {input[i].id : i \in DOMAIN input}
              \cup {output[i].of : i \in {j \in DOMAIN output : output[j].type = "response"}}
LineIsClear == Cardinality(InFlight) <= MaxInFlight

Macrotask == Quiet /\ ~chunk
Microtask == ~chunk

(* The call of t on n goes on to await pc; q is the control queue it leaves.  *)
Goto(t, n, pc, q) ==
  /\ call' = [call EXCEPT ![t][n] = pc]
  /\ queue' = IF pc \in Asking THEN Append(q, <<t, n>>) ELSE q

(* #failMachine: everything that waits on the machine fails.                  *)
Failing ==
  /\ failed' = TRUE
  /\ ready' = IF ready = "pending" THEN "failed" ELSE ready
  /\ head' = IF head = "sent" THEN "error" ELSE head
  /\ startup' = [n \in Nodes |-> IF n \in registered /\ startup[n] = "pending"
                                 THEN "failed" ELSE startup[n]]
  /\ rt' = [n \in Nodes |-> IF n \in registered /\ rt[n] # "disposed" THEN "failed" ELSE rt[n]]

-----------------------------------------------------------------------------
(* initialize(), prepare() and #prepare().                                    *)

(* The engine initializes its appliances one after the other, and register()  *)
(* refuses a machine that is sealed, failed or destroyed.                     *)
Initialize(n) ==
  /\ rt[n] = "new" /\ MayUse(n)
  /\ \A m \in 1 .. n - 1 : rt[m] \notin {"new", "disposed"} /\ call["user"][m] = "idle"
  /\ ~sealed /\ ~failed /\ ~destroyed
  /\ registered' = registered \cup {n}
  /\ call' = [call EXCEPT !["user"][n] = "prepare"]
  /\ prep' = IF prep = "none" THEN "load" ELSE prep
  /\ UNCHANGED <<rt, active, startup, control, sealed, failed, ready, destroyed, emulator,
                 chunk, labd, timeouts, use>>

(* The artifacts are there and the emulator is created, or they are not.      *)
Loaded ==
  /\ Macrotask /\ prep = "load"
  /\ \/ /\ prep' = "boot" /\ emulator' = "idle"
        /\ UNCHANGED <<failed, ready, head, startup, rt>>
     \/ /\ "prepare" \in use.faults
        /\ prep' = "failed" /\ Failing
        /\ UNCHANGED emulator
  /\ UNCHANGED <<registered, active, call, queue, waiter, sealed, destroyed, chunk, labd, timeouts, use>>

(* The event emulator-ready, or its timeout.                                  *)
EmulatorReady ==
  /\ Macrotask /\ prep = "boot"
  /\ \/ /\ ~(destroyed /\ emulator = "none")
        /\ prep' = "ok"
        /\ UNCHANGED <<failed, ready, head, startup, rt>>
     \/ /\ "prepare" \in use.faults \/ destroyed
        /\ prep' = "failed" /\ Failing
  /\ UNCHANGED <<registered, active, call, queue, waiter, sealed, destroyed, emulator, chunk,
                 labd, timeouts, use>>

Initialized(n) ==
  /\ Microtask /\ call["user"][n] = "prepare" /\ prep \in {"ok", "failed"}
  /\ rt' = [rt EXCEPT ![n] = IF prep = "ok" THEN "initialized" ELSE "failed"]
  /\ call' = [call EXCEPT !["user"][n] = "idle"]
  /\ UNCHANGED <<registered, active, startup, control, machine, chunk, labd, timeouts, use>>

(* A download-error event.                                                    *)
DownloadError ==
  /\ Macrotask /\ "download" \in use.faults
  /\ emulator # "none" /\ prep # "load" /\ ~failed
  /\ Failing
  /\ prep' = IF prep = "boot" THEN "failed" ELSE prep
  /\ UNCHANGED <<registered, active, call, queue, waiter, sealed, destroyed, emulator, chunk,
                 labd, timeouts, use>>

-----------------------------------------------------------------------------
(* start() and startNode().                                                   *)

Reject(n) == /\ rt' = [rt EXCEPT ![n] = "failed"]
             /\ call' = [call EXCEPT !["user"][n] = "idle"]

(* createBootstrapArchive throws unless the slots left are 1, 2, ...          *)
NoDrift == registered = 1 .. Cardinality(registered)

Start(n) ==
  /\ rt[n] \in {"initialized", "stopped"} /\ MayUse(n) /\ LineIsClear
  /\ \A m \in Nodes : rt[m] # "new" /\ call["user"][m] # "prepare"
  /\ \/ /\ emulator # "none" /\ ~sealed /\ NoDrift
        /\ call' = [call EXCEPT !["user"][n] = "bootstrap"]
        /\ UNCHANGED <<rt, startup, head, failed, ready, emulator>>
     \/ /\ emulator # "none" /\ ~failed /\ ~sealed /\ ~NoDrift
        /\ Failing
        /\ UNCHANGED <<call, emulator>>
     \/ /\ emulator # "none" /\ ~failed /\ sealed
        /\ emulator' = IF Runs THEN emulator ELSE "running"
        /\ call' = [call EXCEPT !["user"][n] = "boot"]
        /\ UNCHANGED <<rt, startup, head, failed, ready>>
     \/ /\ emulator = "none" \/ failed
        /\ Reject(n)
        /\ UNCHANGED <<startup, head, failed, ready, emulator>>
  /\ UNCHANGED <<registered, active, queue, waiter, prep, sealed, destroyed, chunk, labd, timeouts, use>>

(* create_file of the bootstrap archive settles; the emulator then runs.      *)
Bootstrapped(n) ==
  /\ Macrotask /\ call["user"][n] = "bootstrap"
  /\ \/ /\ sealed' = TRUE
        /\ emulator' = IF emulator = "idle" THEN "running" ELSE emulator
        /\ call' = [call EXCEPT !["user"][n] = "boot"]
        /\ UNCHANGED <<rt, startup, head, failed, ready>>
     \/ /\ "bootstrap" \in use.faults
        /\ Failing
        /\ call' = [call EXCEPT !["user"][n] = "idle"]
        /\ UNCHANGED <<sealed, emulator>>
  /\ UNCHANGED <<registered, active, queue, waiter, prep, destroyed, chunk, labd, timeouts, use>>

Booted(n) ==
  /\ Microtask /\ call["user"][n] = "boot" /\ ready # "pending"
  /\ IF ready = "failed" \/ failed
     THEN Reject(n) /\ UNCHANGED <<startup, queue>>
     ELSE /\ startup' = [startup EXCEPT ![n] = "pending"]
          /\ Goto("user", n, "NODE_START", queue)
          /\ UNCHANGED rt
  /\ UNCHANGED <<registered, active, head, waiter, machine, chunk, labd, timeouts, use>>

(* A timer fires: early, or because nothing can answer any more.              *)
Fire(unanswerable) == \/ unanswerable /\ UNCHANGED <<timeouts, use>>
                      \/ timeouts < use.timeouts /\ timeouts' = timeouts + 1 /\ UNCHANGED use

BootTimeout(n) ==
  /\ Macrotask /\ call["user"][n] = "boot" /\ ready = "pending"
  /\ Fire(~Runs) /\ Reject(n)
  /\ UNCHANGED <<registered, active, startup, control, machine, chunk, labd>>

(* Mutant of StartFails: the node is left as it is.                           *)
StartFailsOnly(n, q) ==
  /\ active' = active \ {n} /\ queue' = q
  /\ Reject(n) /\ startup' = [startup EXCEPT ![n] = "none"]

(* The catch of startNode: NODE_STOP if the emulator runs, and rethrow.       *)
StartFails(n, q) ==
  /\ active' = active \ {n}
  /\ IF Runs
     THEN Goto("user", n, "undo", q) /\ UNCHANGED <<rt, startup>>
     ELSE Reject(n) /\ queue' = q /\ startup' = [startup EXCEPT ![n] = "none"]

(* The readiness promise settles, or its timer fires first.                   *)
Ready(n) ==
  /\ Microtask /\ call["user"][n] = "ready" /\ startup[n] # "pending"
  /\ IF startup[n] = "ready"
     THEN Goto("user", n, "LINK", queue) /\ UNCHANGED <<rt, active, startup>>
     ELSE StartFails(n, queue)
  /\ UNCHANGED <<registered, head, waiter, machine, chunk, labd, timeouts, use>>

ReadyTimeout(n) ==
  /\ Macrotask /\ call["user"][n] = "ready" /\ startup[n] = "pending"
  /\ Fire(~Runs \/ n \notin registered \/ (guest[n] # "starting" /\ output = <<>>))
  /\ StartFails(n, queue)
  /\ UNCHANGED <<registered, head, waiter, machine, chunk, labd>>

-----------------------------------------------------------------------------
(* stop(), stopNode(), dispose() and disposeNode().                           *)

Stop(t, n) ==
  /\ rt[n] = "running" /\ LineIsClear
  /\ \/ t = "user" /\ MayUse(n)
     \/ t = "release" /\ use.client = "any" /\ MayRelease(n)
  /\ IF n \in active
     THEN Goto(t, n, "stop", queue) /\ UNCHANGED rt
     ELSE rt' = [rt EXCEPT ![n] = "stopped"] /\ UNCHANGED <<call, queue>>
  /\ UNCHANGED <<registered, active, startup, head, waiter, machine, chunk, labd, timeouts, use>>

(* The last active node has stopped: the emulator stops too, if it runs.      *)
LastActive(n) == registered \cap active \subseteq {n}

(* disposeNode goes on after the node was stopped: NODE_DELETE if the         *)
(* emulator runs, else the node is forgotten, and with the last the machine.  *)
Forget(n, q) ==
  /\ registered' = registered \ {n}
  /\ IF registered' = {} /\ ~destroyed
     THEN /\ destroyed' = TRUE
          /\ head' = IF q # queue THEN "queued" ELSE IF head = "sent" THEN "error" ELSE head
          /\ emulator' = "none"
          /\ guest' = [m \in Nodes |-> "off"] /\ input' = <<>> /\ output' = <<>>
          /\ IF emulator = "none"
             THEN rt' = [rt EXCEPT ![n] = "disposed"] /\ Goto("release", n, "idle", q)
             ELSE Goto("release", n, "destroy", q) /\ UNCHANGED rt
     ELSE /\ rt' = [rt EXCEPT ![n] = "disposed"] /\ Goto("release", n, "idle", q)
          /\ head' = IF q = queue THEN head ELSE "queued"
          /\ UNCHANGED <<destroyed, emulator, guest, input, output>>

Delete(n, q) ==
  IF Runs
  THEN /\ Goto("release", n, "NODE_DELETE", q)
       /\ head' = IF q = queue THEN head ELSE "queued"
       /\ UNCHANGED <<rt, registered, destroyed, emulator, guest, input, output>>
  ELSE Forget(n, q)

Dispose(n) ==
  /\ rt[n] # "disposed" /\ MayRelease(n)
  /\ \/ /\ n \notin registered
        /\ rt' = [rt EXCEPT ![n] = "disposed"]
        /\ UNCHANGED <<registered, call, queue, head, destroyed, emulator, guest, input, output>>
     \/ /\ n \in registered /\ n \in active
        /\ Goto("release", n, "dstop", queue)
        /\ UNCHANGED <<rt, registered, head, destroyed, emulator, guest, input, output>>
     \/ /\ n \in registered /\ n \notin active
        /\ Delete(n, queue)
  /\ chunk' = (chunk /\ output' # <<>>)
  /\ UNCHANGED <<active, startup, waiter, prep, sealed, failed, ready, booted, timeouts, use>>

(* emulator.stop() settles for every call that awaits it.                     *)
EmulatorStopped ==
  /\ Macrotask /\ emulator = "stopping"
  /\ emulator' = "idle"
  /\ call' = [t \in Tracks |-> [n \in Nodes |->
                CASE call[t][n] = "halt" -> "halted"
                  [] call[t][n] = "dhalt" -> "dhalted"
                  [] OTHER -> call[t][n]]]
  /\ UNCHANGED <<nodes, control, prep, sealed, failed, ready, destroyed, chunk, labd, timeouts, use>>

Halted(t, n) ==
  /\ Microtask /\ call[t][n] = "halted"
  /\ rt' = [rt EXCEPT ![n] = "stopped"]
  /\ call' = [call EXCEPT ![t][n] = "idle"]
  /\ UNCHANGED <<registered, active, startup, control, machine, chunk, labd, timeouts, use>>

DisposeHalted(n) ==
  /\ Microtask /\ call["release"][n] = "dhalted"
  /\ Delete(n, queue)
  /\ UNCHANGED <<active, startup, waiter, prep, sealed, failed, ready, booted, chunk, timeouts, use>>

(* emulator.destroy() settles.                                                *)
Destroyed(n) ==
  /\ Macrotask /\ call["release"][n] = "destroy"
  /\ rt' = [rt EXCEPT ![n] = "disposed"]
  /\ call' = [call EXCEPT !["release"][n] = "idle"]
  /\ UNCHANGED <<registered, active, startup, control, machine, chunk, labd, timeouts, use>>

-----------------------------------------------------------------------------
(* #control(): one request at a time.                                         *)

Issue ==
  /\ Microtask /\ queue # <<>> /\ head = "queued"
  /\ LET t == Head(queue)[1]
         n == Head(queue)[2]
     IN  IF failed \/ emulator = "none"
         THEN head' = "error" /\ UNCHANGED <<waiter, input>>
         ELSE /\ \E i \in Ids \ InFlight :
                   /\ \A j \in Ids \ InFlight : i <= j
                   /\ waiter' = i
                   /\ input' = Append(input, [id |-> i, cmd |-> Command[call[t][n]], node |-> n])
              /\ head' = "sent"
  /\ UNCHANGED <<nodes, call, queue, machine, chunk, booted, guest, output, timeouts, use>>

(* Mutant of ControlTimeout: the waiter goes, and nobody tells its promise.    *)
ControlTimeoutSilent ==
  /\ Macrotask /\ queue # <<>> /\ head = "sent"
  /\ Fire(~Runs)
  /\ UNCHANGED <<nodes, call, control, machine, chunk, labd>>

ControlTimeout ==
  /\ Macrotask /\ queue # <<>> /\ head = "sent"
  /\ Fire(~Runs)
  /\ head' = "error"
  /\ UNCHANGED <<nodes, call, queue, waiter, machine, chunk, labd>>

(* failureSignal: the node's exit rejects its NODE_START or LINK request.     *)
ExitSignal ==
  /\ Microtask /\ head = "sent" /\ HeadAt({"NODE_START", "LINK"})
  /\ startup[Head(queue)[2]] = "exited"
  /\ head' = "error"
  /\ UNCHANGED <<nodes, call, queue, waiter, machine, chunk, labd, timeouts, use>>

(* The first operation has settled and its caller goes on.                    *)
Settled(t, n, pc) ==
  /\ Microtask /\ queue # <<>> /\ Head(queue) = <<t, n>> /\ call[t][n] = pc
  /\ head \in {"ok", "error"}

StartSettled(n) ==
  /\ Settled("user", n, "NODE_START")
  /\ head' = "queued"
  /\ IF head = "ok"
     THEN Goto("user", n, "ready", Tail(queue)) /\ UNCHANGED <<rt, active, startup>>
     ELSE StartFails(n, Tail(queue))
  /\ UNCHANGED <<registered, waiter, machine, chunk, labd, timeouts, use>>

(* Mutant of LinkSettled: the exit that arrived behind the answer is missed.   *)
LinkSettledBlindly(n) ==
  /\ Settled("user", n, "LINK")
  /\ head' = "queued"
  /\ IF head = "ok"
     THEN /\ active' = active \cup {n}
          /\ startup' = [startup EXCEPT ![n] = "none"]
          /\ rt' = [rt EXCEPT ![n] = "running"]
          /\ Goto("user", n, "idle", Tail(queue))
     ELSE StartFails(n, Tail(queue))
  /\ UNCHANGED <<registered, waiter, machine, chunk, labd, timeouts, use>>

LinkSettled(n) ==
  /\ Settled("user", n, "LINK")
  /\ head' = "queued"
  /\ IF head = "ok" /\ startup[n] # "exited"
     THEN /\ active' = active \cup {n}
          /\ startup' = [startup EXCEPT ![n] = "none"]
          /\ rt' = [rt EXCEPT ![n] = "running"]
          /\ Goto("user", n, "idle", Tail(queue))
     ELSE StartFails(n, Tail(queue))
  /\ UNCHANGED <<registered, waiter, machine, chunk, labd, timeouts, use>>

UndoSettled(n) ==
  /\ Settled("user", n, "undo")
  /\ head' = "queued" /\ queue' = Tail(queue)
  /\ Reject(n)
  /\ startup' = [startup EXCEPT ![n] = "none"]
  /\ UNCHANGED <<registered, active, waiter, machine, chunk, labd, timeouts, use>>

StopSettled(t, n) ==
  /\ Settled(t, n, "stop")
  /\ head' = "queued" /\ queue' = Tail(queue)
  /\ \/ /\ head = "error"
        /\ call' = [call EXCEPT ![t][n] = "idle"]
        /\ UNCHANGED <<rt, active, emulator>>
     \/ /\ head = "ok" /\ LastActive(n) /\ Runs
        /\ active' = active \ {n} /\ emulator' = "stopping"
        /\ call' = [call EXCEPT ![t][n] = "halt"]
        /\ UNCHANGED rt
     \/ /\ head = "ok" /\ ~(LastActive(n) /\ Runs)
        /\ active' = active \ {n}
        /\ rt' = [rt EXCEPT ![n] = "stopped"]
        /\ call' = [call EXCEPT ![t][n] = "idle"]
        /\ UNCHANGED emulator
  /\ UNCHANGED <<registered, startup, waiter, prep, sealed, failed, ready, destroyed, chunk,
                 labd, timeouts, use>>

DisposeStopSettled(n) ==
  /\ Settled("release", n, "dstop")
  /\ active' = active \ {n}
  /\ IF head = "ok" /\ LastActive(n) /\ Runs
     THEN /\ emulator' = "stopping" /\ head' = "queued"
          /\ Goto("release", n, "dhalt", Tail(queue))
          /\ UNCHANGED <<rt, registered, destroyed, guest, input, output>>
     ELSE Delete(n, Tail(queue))
  /\ UNCHANGED <<startup, waiter, prep, sealed, failed, ready, booted, chunk, timeouts, use>>

DeleteSettled(n) ==
  /\ Settled("release", n, "NODE_DELETE")
  /\ Forget(n, Tail(queue))
  /\ UNCHANGED <<active, startup, waiter, prep, sealed, failed, ready, booted, chunk, timeouts, use>>

-----------------------------------------------------------------------------
(* #onControlBytes and #handleMessage: a line, and whether more follow it in  *)
(* the same chunk.                                                            *)

Arrives(type) ==
  /\ output # <<>> /\ Head(output).type = type
  /\ chunk \/ Macrotask
  /\ Runs
  /\ output' = Tail(output)
  /\ chunk' \in IF output' = <<>> THEN {FALSE} ELSE BOOLEAN
  /\ UNCHANGED <<registered, call, queue, waiter, prep, sealed, destroyed, emulator,
                 booted, guest, input, timeouts, use>>

MachineReadyLine ==
  /\ Arrives("machine-ready")
  /\ ready' = IF ready = "pending" THEN "ok" ELSE ready
  /\ UNCHANGED <<rt, active, startup, head, failed>>

NodeReadyLine ==
  /\ Arrives("node-ready")
  /\ LET n == Head(output).of
     IN  startup' = IF n \in registered /\ startup[n] = "pending"
                    THEN [startup EXCEPT ![n] = "ready"] ELSE startup
  /\ UNCHANGED <<rt, active, head, ready, failed>>

NodeExitLine ==
  /\ Arrives("node-exit")
  /\ LET n == Head(output).of
     IN  IF n \in registered
         THEN /\ active' = active \ {n}
              /\ startup' = IF startup[n] = "none" THEN startup
                            ELSE [startup EXCEPT ![n] = "exited"]
              /\ rt' = IF rt[n] = "running" THEN [rt EXCEPT ![n] = "failed"] ELSE rt
         ELSE UNCHANGED <<rt, active, startup>>
  /\ UNCHANGED <<head, ready, failed>>

(* parseSharedGuestMessage throws, or the buffer exceeds its limit.           *)
MalformedLine ==
  /\ Arrives("malformed")
  /\ Failing
  /\ UNCHANGED active

(* Mutant of ResponseLine: an answer settles whatever request is waiting.      *)
ResponseInOrder ==
  /\ Arrives("response")
  /\ head' = IF queue # <<>> /\ head = "sent"
             THEN (IF Head(output).ok THEN "ok" ELSE "error") ELSE head
  /\ UNCHANGED <<rt, active, startup, ready, failed>>

ResponseLine ==
  /\ Arrives("response")
  /\ head' = IF queue # <<>> /\ head = "sent" /\ waiter = Head(output).of
             THEN (IF Head(output).ok THEN "ok" ELSE "error") ELSE head
  /\ UNCHANGED <<rt, active, startup, ready, failed>>

-----------------------------------------------------------------------------
(* labd.  It serves a request at a time and reports what becomes of a node.   *)

Alive == {"starting", "running", "dying", "stuck"}       (* namespace_alive   *)

GuestStep == Macrotask /\ Runs
LabdUnchanged == UNCHANGED <<nodes, call, control, machine, chunk, timeouts, use>>

GuestBoots ==
  /\ GuestStep /\ ~booted
  /\ booted' = TRUE
  /\ output' = Append(output, [type |-> "machine-ready", of |-> 0, ok |-> TRUE])
  /\ UNCHANGED <<guest, input>> /\ LabdUnchanged

(* Bytes on the control device that are not a message of labd's.              *)
Noise ==
  /\ GuestStep /\ "line" \in use.faults /\ ~failed
  /\ \A i \in DOMAIN output : output[i].type # "malformed"
  /\ output' = Append(output, [type |-> "malformed", of |-> 0, ok |-> TRUE])
  /\ UNCHANGED <<booted, guest, input>> /\ LabdUnchanged

(* handle_control_line: a request that finds its node in one of the states    *)
(* from leaves it in state to, and is answered with OK or an error.           *)
Serve(cmd, from, to, ok) ==
  /\ GuestStep /\ booted /\ input # <<>>
  /\ LET request == Head(input)
     IN  /\ request.cmd = cmd /\ guest[request.node] \in from
         /\ guest' = [guest EXCEPT ![request.node] = to]
         /\ output' = Append(output, [type |-> "response", of |-> request.id, ok |-> ok])
  /\ input' = Tail(input)
  /\ UNCHANGED booted /\ LabdUnchanged

Refuse(cmd, from) == \E g \in from : Serve(cmd, {g}, g, FALSE)

ServeStart ==
  \/ Serve("NODE_START", {"off"}, "starting", TRUE)
  \/ "START_FAILED" \in use.faults /\ Refuse("NODE_START", {"off"})
  \/ Refuse("NODE_START", Alive \cup {"deleted"})

ServeLink ==
  \/ Serve("LINK", {"running"}, "running", TRUE)
  \/ "LINK_FAILED" \in use.faults /\ Refuse("LINK", {"running"})
  \/ Refuse("LINK", (Alive \ {"running"}) \cup {"off", "deleted"})

(* stop_node terminates the namespace and cleans it up, or gives up.          *)
ServeStop ==
  \/ Serve("NODE_STOP", Alive \cup {"off"}, "off", TRUE)
  \/ "STOP_FAILED" \in use.faults /\ Serve("NODE_STOP", Alive, "stuck", FALSE)
  \/ Refuse("NODE_STOP", {"deleted"})

ServeDelete ==
  \/ Serve("NODE_DELETE", Alive \cup {"off"}, "deleted", TRUE)
  \/ "STOP_FAILED" \in use.faults /\ Serve("NODE_DELETE", Alive, "stuck", FALSE)
  \/ "DELETE_FAILED" \in use.faults /\ Serve("NODE_DELETE", Alive \cup {"off"}, "off", FALSE)
  \/ Refuse("NODE_DELETE", {"deleted"})

Reports(n, from, to, type) ==
  /\ GuestStep /\ guest[n] \in from
  /\ guest' = [guest EXCEPT ![n] = to]
  /\ output' = Append(output, [type |-> type, of |-> n, ok |-> TRUE])
  /\ UNCHANGED <<booted, input>> /\ LabdUnchanged

NodeReady(n) == Reports(n, {"starting"}, "running", "node-ready")
NodeExit(n) == "exit" \in use.faults /\ Reports(n, {"starting", "running"}, "dying", "node-exit")

(* reap_children: no report, the exit was reported or the node is stopping.   *)
Reap(n) ==
  /\ GuestStep /\ guest[n] \in {"dying", "stuck"}
  /\ guest' = [guest EXCEPT ![n] = "off"]
  /\ UNCHANGED <<booted, input, output>> /\ LabdUnchanged

-----------------------------------------------------------------------------
Init ==
  /\ use \in Uses
  /\ rt = [n \in Nodes |-> "new"] /\ registered = {} /\ active = {}
  /\ startup = [n \in Nodes |-> "none"]
  /\ call = [t \in Tracks |-> [n \in Nodes |-> "idle"]]
  /\ queue = <<>> /\ head = "queued" /\ waiter = 1
  /\ prep = "none" /\ sealed = FALSE /\ failed = FALSE /\ ready = "pending"
  /\ destroyed = FALSE /\ emulator = "none" /\ chunk = FALSE
  /\ booted = FALSE /\ guest = [n \in Nodes |-> "off"] /\ input = <<>> /\ output = <<>>
  /\ timeouts = 0

Calls(n) == Initialize(n) \/ Start(n) \/ (\E t \in Tracks : Stop(t, n)) \/ Dispose(n)

Continuations(n) ==
  \/ Initialized(n) \/ Booted(n) \/ Ready(n) \/ StartSettled(n) \/ LinkSettled(n) \/ UndoSettled(n)
  \/ \E t \in Tracks : StopSettled(t, n) \/ Halted(t, n)
  \/ DisposeStopSettled(n) \/ DisposeHalted(n) \/ DeleteSettled(n)

AnyLine == MalformedLine \/ MachineReadyLine \/ NodeReadyLine \/ NodeExitLine \/ ResponseLine

Timers(n) == BootTimeout(n) \/ ReadyTimeout(n)

Labd == \/ GuestBoots \/ Noise \/ ServeStart \/ ServeLink \/ ServeStop \/ ServeDelete
        \/ \E n \in Nodes : NodeReady(n) \/ NodeExit(n) \/ Reap(n)

Next ==
  \/ \E n \in Nodes : Calls(n) \/ Continuations(n) \/ Timers(n) \/ Bootstrapped(n) \/ Destroyed(n)
  \/ Loaded \/ EmulatorReady \/ DownloadError \/ EmulatorStopped
  \/ Issue \/ ControlTimeout \/ ExitSignal
  \/ AnyLine
  \/ Labd

Spec == Init /\ [][Next]_vars

(* Labd runs nothing of the node.                                             *)
Down(n) == guest[n] \notin {"starting", "running"}
ExitOnTheWay(n) == \E i \in DOMAIN output : output[i].type = "node-exit" /\ output[i].of = n

(* With one call at a time, as long as no timer fires early: a facade that is *)
(* running has its node running in the guest, or the report of its exit is on *)
(* the line.                                                                  *)
RunningIsUp ==
  use.client = "serial" /\ timeouts = 0 => \A n \in Nodes : rt[n] = "running" /\ Idle(n) =>
    emulator = "running" /\ (guest[n] = "running" \/ ExitOnTheWay(n))

(* With one call at a time, as long as no timer fires early and the machine   *)
(* works: a node that nobody is starting or running, its facade having        *)
(* stopped, failed or been disposed, does not run in the guest.               *)
OnlyRunningRuns ==
  use.client = "serial" /\ timeouts = 0 /\ ~failed =>
    \A n \in Nodes : rt[n] \in {"stopped", "failed", "disposed"} /\ Idle(n) => Down(n)

(* Even if answers are late and calls overlap, a facade that has stopped has  *)
(* stopped its node.                                                          *)
StoppedIsDown ==
  \A n \in Nodes : rt[n] = "stopped" /\ call["user"][n] \notin Starting \cup {"undo"} => Down(n)

(* The microtasks that are due run, and so do the lines of a chunk; a         *)
(* macrotask that is due again and again gets its turn of the event loop, and *)
(* so does the guest, while its CPU runs.                                     *)
Drain == \/ chunk /\ AnyLine
         \/ \E n \in Nodes : Continuations(n)
         \/ Issue \/ ExitSignal

Fairness ==
  /\ WF_vars(Drain)
  /\ \A n \in Nodes : SF_vars(Timers(n) \/ Bootstrapped(n) \/ Destroyed(n) \/ NodeReady(n))
  /\ SF_vars(Loaded \/ EmulatorReady \/ EmulatorStopped)
  /\ SF_vars(AnyLine \/ ControlTimeout \/ GuestBoots \/ ServeStart \/ ServeLink \/ ServeStop \/ ServeDelete)

FairSpec == Spec /\ Fairness

(* Every call returns: no answer that is lost, late or impossible leaves its   *)
(* caller waiting.                                                            *)
CallsSettle == \A t \in Tracks, n \in Nodes : call[t][n] # "idle" ~> call[t][n] = "idle"

=============================================================================
