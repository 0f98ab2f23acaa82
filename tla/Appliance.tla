------------------------------ MODULE Appliance ------------------------------
(***************************************************************************)
(* The runtime that gives one appliance a virtual machine of its own       *)
(* (src/appliances/v86/runtime.ts) behind the dispatcher of its worker     *)
(* (src/appliances/worker-server.ts).  Requests are answered concurrently: *)
(* every await of a call is a place where others go on.  The guest has one *)
(* interface and the files Paths; a version of a file is a number, and 0   *)
(* says that there is no such file.                                        *)
(*                                                                         *)
(* The browser's tasks: a line of the guest is handled in the step in      *)
(* which the guest emits it (the console is a synchronous event), the      *)
(* effect of an emulator call (run, stop, create_file) is that of its      *)
(* synchronous part.                                                       *)
(***************************************************************************)
EXTENDS Integers, FiniteSets, Sequences, SequencesExt

CONSTANTS MaxCalls,   \* the requests a client keeps in flight
          Paths,      \* files of the appliance
          Plans       \* clients: what they send, how often, and whether in order

Calls == 1 .. MaxCalls

Rts == 1 .. 2         \* the runtimes one worker creates, one after the other

(* What is asked of a runtime: requests of the worker's protocol, and the   *)
(* collection of profiles.                                                  *)
Ops == {"initialize", "start", "write", "link", "read", "collect", "stop", "dispose"}

ASSUME PlansAssumption ==
    /\ MaxCalls \in Nat \ {0}
    /\ Plans \subseteq [inOrder : BOOLEAN, faults : SUBSET {"refuse", "exit", "init"},
                        budget : [Ops -> Nat]]

VARIABLES plan,    \* the client of this behaviour
          left,    \* how many requests of each kind it may still send
          server,  \* #runtime of the worker server, 0 for null
          calls,   \* the dispatched requests
          rt,      \* the runtimes
          guest,   \* their guests
          doubt    \* history: a request whose effect the host does not know

vars == <<plan, left, server, calls, rt, guest, doubt>>

Idle == [op |-> "none", at |-> "none", rt |-> 0, path |-> "", arg |-> 0, seen |-> {}]

(***************************************************************************)
(* A runtime object: `later` is pendingFilePaths, in order of insertion,   *)
(* and `laterLink` pendingInterfaceIds; `tail` the operations chained to   *)
(* controlTail, the first of them running; `ref` says that #emulator is    *)
(* set.                                                                    *)
(***************************************************************************)
NewRuntime == [state |-> "new", booted |-> FALSE, files |-> [p \in Paths |-> 0], up |-> TRUE,
               later |-> <<>>, laterLink |-> FALSE, tail |-> <<>>, ready |-> "pending",
               pgo |-> FALSE, ref |-> FALSE, url |-> FALSE]

(* The machine and the guest in it: what the bootstrap archive holds, the  *)
(* input and output archives, the requests on the control line.            *)
NewGuest == [machine |-> "none", on |-> "off", boot |-> [p \in Paths |-> 0], bootUp |-> TRUE,
             files |-> [p \in Paths |-> 0], up |-> TRUE, input |-> <<>>, output |-> <<>>,
             requests |-> <<>>]

Init == /\ plan \in Plans
        /\ left = plan.budget
        /\ server = 0
        /\ calls = [c \in Calls |-> Idle]
        /\ rt = [r \in Rts |-> NewRuntime]
        /\ guest = [r \in Rts |-> NewGuest]
        /\ doubt = [r \in Rts |-> FALSE]

-----------------------------------------------------------------------------
(* Helpers.                                                                *)

Usable(r) == rt[r].state \in {"initialized", "running", "stopped"}
Live(r) == rt[r].state = "running" /\ rt[r].booted
InFlight(r) == {c \in Calls : calls[c].rt = r}
Answered(c) == calls' = [calls EXCEPT ![c] = Idle]
At(c, place) == calls' = [calls EXCEPT ![c].at = place]
Calling(c, op, place) == calls[c].op = op /\ calls[c].at = place

(* #writeBootstrapArchive. *)
BootArchive(r, files, up) ==
    guest' = [guest EXCEPT ![r].boot = files, ![r].bootUp = up]

(* Settled(r): the running operation of #controlTail ends. *)
Settled(r) == Tail(rt[r].tail)

(* The waiters of `who` are gone: the answers to their requests find none. *)
Forgotten(r, who) == [i \in DOMAIN guest[r].requests |->
    IF guest[r].requests[i].id \in who THEN [guest[r].requests[i] EXCEPT !.id = 0]
                                       ELSE guest[r].requests[i]]

(***************************************************************************)
(* receive and #dispatch.  A client that sends in order leaves initialize  *)
(* and start alone; the others overlap as they like.                       *)
(***************************************************************************)
Alone == {"initialize", "start"}
MaySend(op) ==
    /\ left[op] > 0
    /\ plan.inOrder =>
         /\ op \in Alone => \A c \in Calls : calls[c] = Idle
         /\ \A c \in Calls : calls[c].op \notin Alone

Dispatched(c, op, r, path, arg, place) ==
    calls' = [calls EXCEPT ![c] =
        [op |-> op, at |-> place, rt |-> r, path |-> path, arg |-> arg, seen |-> {}]]

Send(c, op) == /\ calls[c] = Idle
               /\ \A d \in 1 .. (c - 1) : calls[d] # Idle      \* the first free place
               /\ MaySend(op)
               /\ left' = [left EXCEPT ![op] = @ - 1]
               /\ UNCHANGED <<plan, doubt>>

(* #dispatch of 'initialize': the check comes before the await, the        *)
(* assignment after it (InitReady).                                        *)
Initialize(c) ==
    /\ Send(c, "initialize")
    /\ server = 0
    /\ \E r \in Rts : /\ rt[r].state = "new" /\ InFlight(r) = {}
                      /\ \A s \in 1 .. (r - 1) : rt[s].state # "new" \/ InFlight(s) # {}
                      /\ Dispatched(c, "initialize", r, "", 0, "artifacts")
    /\ UNCHANGED <<server, rt, guest>>

InitLoaded(c) ==
    /\ Calling(c, "initialize", "artifacts")
    /\ LET r == calls[c].rt IN
         /\ rt' = [rt EXCEPT ![r].url = TRUE, ![r].ref = TRUE]
         /\ guest' = [guest EXCEPT ![r].machine = "stopped"]
    /\ At(c, "emulator")
    /\ UNCHANGED <<plan, left, server, doubt>>

(* emulator-ready, #writeBootstrapArchive, the transition, and #runtime. *)
InitReady(c) ==
    /\ Calling(c, "initialize", "emulator")
    /\ LET r == calls[c].rt IN
         /\ rt' = [rt EXCEPT ![r].state = "initialized"]
         /\ BootArchive(r, rt[r].files, rt[r].up)
         /\ server' = r
    /\ Answered(c)
    /\ UNCHANGED <<plan, left, doubt>>

(* An artifact, the download of the emulator or its readiness fails. *)
InitFails(c) ==
    /\ calls[c].op = "initialize"
    /\ "init" \in plan.faults
    /\ rt' = [rt EXCEPT ![calls[c].rt].state = "failed"]
    /\ Answered(c)
    /\ UNCHANGED <<plan, left, server, guest, doubt>>

-----------------------------------------------------------------------------
(***************************************************************************)
(* start().                                                                *)
(***************************************************************************)
Start(c) ==
    /\ Send(c, "start")
    /\ server # 0
    /\ rt[server].state \in {"initialized", "stopped"}
    /\ rt[server].ref
    /\ rt' = [rt EXCEPT ![server].state = "running"]
    /\ guest' = [guest EXCEPT ![server].machine = "running",
                              ![server].on = IF @ = "off" THEN "booting" ELSE @]
    /\ Dispatched(c, "start", server, "", 1, "ready")
    /\ UNCHANGED server

StartFailed(c) == /\ rt' = [rt EXCEPT ![calls[c].rt].state = "failed"]
                  /\ Answered(c)

(* The guest is ready: the appliance must still run, and what was written  *)
(* while the machine was stopped is applied.                               *)
StartReady(c) ==
    /\ Calling(c, "start", "ready")
    /\ LET r == calls[c].rt IN
         /\ rt[r].ready = "resolved"
         /\ \/ rt[r].state # "running" /\ StartFailed(c)
            \/ /\ rt[r].state = "running" /\ ~rt[r].booted
               /\ rt' = [rt EXCEPT ![r].booted = TRUE]
               /\ Answered(c)
            \/ /\ rt[r].state = "running" /\ rt[r].booted
               /\ At(c, "pending")
               /\ UNCHANGED rt
    /\ UNCHANGED <<plan, left, server, guest, doubt>>

(* The guest reports a failed startup, or a timer fires: that of the guest's *)
(* readiness, or, after it, that of the serial shell.  Both stay resolved    *)
(* once the appliance has booted.                                            *)
StartFails(c) ==
    /\ Calling(c, "start", "ready")
    /\ ~rt[calls[c].rt].booted
    /\ StartFailed(c)
    /\ UNCHANGED <<plan, left, server, guest, doubt>>

(* Mutant: the links that changed while the machine stood still are          *)
(* forgotten.                                                                *)
ApplyPendingFiles(c) ==
    /\ Calling(c, "start", "pending")
    /\ LET r == calls[c].rt
           i == calls[c].arg
       IN  IF i <= Len(rt[r].later)
             THEN /\ calls' = [calls EXCEPT ![c].at = "apply", ![c].path = rt[r].later[i]]
                  /\ rt' = [rt EXCEPT ![r].tail = Append(@, <<c, rt[r].files[rt[r].later[i]]>>)]
             ELSE /\ rt' = [rt EXCEPT ![r].later = <<>>, ![r].laterLink = FALSE]
                  /\ Answered(c)
    /\ UNCHANGED <<plan, left, server, guest, doubt>>

(***************************************************************************)
(* #applyPendingChanges: `arg` counts the pending files.  The contents of  *)
(* a file are read when its turn comes, and the operation is then chained. *)
(***************************************************************************)
ApplyPending(c) ==
    /\ Calling(c, "start", "pending")
    /\ LET r == calls[c].rt
           i == calls[c].arg
       IN  IF i <= Len(rt[r].later)
             THEN /\ calls' = [calls EXCEPT ![c].at = "apply", ![c].path = rt[r].later[i]]
                  /\ rt' = [rt EXCEPT ![r].tail = Append(@, <<c, rt[r].files[rt[r].later[i]]>>)]
             ELSE IF rt[r].laterLink
               THEN /\ At(c, "link")
                    /\ rt' = [rt EXCEPT ![r].later = <<>>,
                                        ![r].tail = Append(@, <<c, IF rt[r].up THEN 1 ELSE 0>>)]
               ELSE /\ rt' = [rt EXCEPT ![r].later = <<>>]
                    /\ Answered(c)
    /\ UNCHANGED <<plan, left, server, guest, doubt>>

-----------------------------------------------------------------------------
(***************************************************************************)
(* writeFile, setInterfaceState, readFile and collectPgoProfiles up to     *)
(* their first await.                                                      *)
(***************************************************************************)
Queued(r, c, value) == [rt[r] EXCEPT !.tail = Append(@, <<c, value>>)]
Noted(seq, p) == IF p \in ToSet(seq) THEN seq ELSE Append(seq, p)

NewVersion == plan.budget["write"] - left["write"] + 1   \* every write has contents of its own

WriteFile(c) == \E p \in Paths :
    /\ Send(c, "write")
    /\ server # 0
    /\ Usable(server)
    /\ \/ /\ Live(server)
          /\ rt' = [rt EXCEPT ![server] = Queued(server, c, NewVersion)]
          /\ Dispatched(c, "write", server, p, NewVersion, "apply")
          /\ UNCHANGED guest
       \/ /\ rt[server].state = "initialized" /\ ~rt[server].booted
          /\ rt' = [rt EXCEPT ![server].files[p] = NewVersion]
          /\ BootArchive(server, rt'[server].files, rt[server].up)
          /\ UNCHANGED calls
       \/ /\ ~Live(server)
          /\ ~(rt[server].state = "initialized" /\ ~rt[server].booted)
          /\ rt' = [rt EXCEPT ![server].files[p] = NewVersion, ![server].later = Noted(@, p)]
          /\ UNCHANGED <<calls, guest>>
    /\ UNCHANGED server

SetInterfaceState(c) ==
    /\ Send(c, "link")
    /\ server # 0
    /\ Usable(server)
    /\ LET up == ~rt[server].up      \* a request for the present state returns at once
           bit == IF up THEN 1 ELSE 0
       IN  \/ /\ Live(server)
              /\ rt' = [rt EXCEPT ![server].up = up, ![server].tail = Append(@, <<c, bit>>)]
              /\ Dispatched(c, "link", server, "", bit, "link")
              /\ UNCHANGED guest
           \/ /\ rt[server].state = "initialized" /\ ~rt[server].booted
              /\ rt' = [rt EXCEPT ![server].up = up]
              /\ BootArchive(server, rt[server].files, up)
              /\ UNCHANGED calls
           \/ /\ ~Live(server)
              /\ ~(rt[server].state = "initialized" /\ ~rt[server].booted)
              /\ rt' = [rt EXCEPT ![server].up = up, ![server].laterLink = TRUE]
              /\ UNCHANGED <<calls, guest>>
    /\ UNCHANGED server

(* Only the running guest is asked; else the answer is the host's copy. *)
ReadFile(c) == \E p \in Paths :
    /\ Send(c, "read")
    /\ server # 0
    /\ Live(server)
    /\ rt' = [rt EXCEPT ![server] = Queued(server, c, 0)]
    /\ calls' = [calls EXCEPT ![c] = [op |-> "read", at |-> "read", rt |-> server, path |-> p,
                                      arg |-> 0, seen |-> {guest[server].files[p]}]]
    /\ UNCHANGED <<server, guest>>

CollectPgoProfiles(c) ==
    /\ Send(c, "collect")
    /\ server # 0
    /\ rt[server].state = "running"
    /\ rt' = [rt EXCEPT ![server] = Queued(server, c, 0)]
    /\ Dispatched(c, "collect", server, "", 0, "collect")
    /\ UNCHANGED <<server, guest>>

-----------------------------------------------------------------------------
(***************************************************************************)
(* #enqueueControl: the first operation of the tail runs.  A file is put   *)
(* into the input archive before APPLY is sent.                            *)
(***************************************************************************)
Request(c, value) ==
    CASE calls[c].at = "apply" -> [do |-> "APPLY", id |-> c, path |-> "", value |-> 0]
      [] calls[c].at = "link" -> [do |-> "LINK", id |-> c, path |-> "", value |-> value]
      [] calls[c].at = "read" -> [do |-> "READ", id |-> c, path |-> calls[c].path, value |-> 0]
      [] calls[c].at = "collect" -> [do |-> "COLLECT_PGO", id |-> c, path |-> "", value |-> 0]

MayRun(c, r) == /\ rt[r].ref
                /\ calls[c].op = "collect" => rt[r].state = "running"

(* Mutant: requests are not chained to controlTail.                          *)
SendControlAtOnce(c) ==
    /\ calls[c].at \in {"apply", "link", "read", "collect"}
    /\ LET r == calls[c].rt IN \E i \in DOMAIN rt[r].tail :
           /\ rt[r].tail[i][1] = c
           /\ MayRun(c, r)
           /\ guest' = [guest EXCEPT
                ![r].input = IF calls[c].at = "apply" THEN <<calls[c].path, rt[r].tail[i][2]>> ELSE @,
                ![r].requests = Append(@, Request(c, rt[r].tail[i][2]))]
           /\ rt' = [rt EXCEPT ![r].pgo = (calls[c].op = "collect") \/ @]
    /\ At(c, "sent")
    /\ UNCHANGED <<plan, left, server, doubt>>

SendControl(c) ==
    /\ calls[c].at \in {"apply", "link", "read", "collect"}
    /\ LET r == calls[c].rt
           first == Head(rt[r].tail)
       IN  /\ first[1] = c
           /\ MayRun(c, r)
           /\ guest' = [guest EXCEPT
                ![r].input = IF calls[c].at = "apply" THEN <<calls[c].path, first[2]>> ELSE @,
                ![r].requests = Append(@, Request(c, first[2]))]
           /\ rt' = [rt EXCEPT ![r].pgo = (calls[c].op = "collect") \/ @]
    /\ At(c, "sent")
    /\ UNCHANGED <<plan, left, server, doubt>>

(* The emulator is gone, or the appliance no longer runs: it throws. *)
SendRefused(c) ==
    /\ calls[c].at \in {"apply", "link", "read", "collect"}
    /\ LET r == calls[c].rt IN
         /\ Head(rt[r].tail)[1] = c
         /\ ~MayRun(c, r)
         /\ rt' = [rt EXCEPT ![r].tail = Settled(r),
                             ![r].state = IF calls[c].op = "start" THEN "failed" ELSE @]
    /\ Answered(c)
    /\ UNCHANGED <<plan, left, server, guest, doubt>>

-----------------------------------------------------------------------------
(***************************************************************************)
(* What a call does when its control request is answered, refused or timed *)
(* out.  The continuation runs before the next operation of the tail.      *)
(***************************************************************************)
Acknowledged(c) ==
    /\ calls[c].at = "ok"
    /\ calls[c].op \in {"write", "link"}
    /\ LET r == calls[c].rt IN
         rt' = [rt EXCEPT ![r].tail = Settled(r),
                          ![r].files = IF calls[c].op = "link" THEN @
                                       ELSE [@ EXCEPT ![calls[c].path] = calls[c].arg]]
    /\ Answered(c)
    /\ UNCHANGED <<plan, left, server, guest, doubt>>

(* start() goes on with the next pending file, or after the link. *)
PendingApplied(c) ==
    /\ Calling(c, "start", "ok")
    /\ LET r == calls[c].rt IN
         IF rt[r].later # <<>>
           THEN /\ rt' = [rt EXCEPT ![r].tail = Settled(r)]
                /\ calls' = [calls EXCEPT ![c].at = "pending", ![c].arg = @ + 1]
           ELSE /\ rt' = [rt EXCEPT ![r].tail = Settled(r), ![r].laterLink = FALSE]
                /\ Answered(c)
    /\ UNCHANGED <<plan, left, server, guest, doubt>>

(* readFile reads the output archive; -1 stands for "Guest export did not  *)
(* contain".                                                               *)
Exported(c) == LET output == guest[calls[c].rt].output IN
    IF output # <<>> /\ output[1] = calls[c].path THEN output[2] ELSE -1

ReadBack(c) ==
    /\ Calling(c, "read", "ok")
    /\ LET r == calls[c].rt IN
         rt' = [rt EXCEPT ![r].files[calls[c].path] = IF Exported(c) >= 0 THEN Exported(c) ELSE @,
                          ![r].tail = Settled(r)]
    /\ calls' = [calls EXCEPT ![c].at = "answer", ![c].arg = Exported(c)]
    /\ UNCHANGED <<plan, left, server, guest, doubt>>

ReadAnswered(c) ==
    /\ Calling(c, "read", "answer")
    /\ Answered(c)
    /\ UNCHANGED <<plan, left, server, rt, guest, doubt>>

(* collectPgoProfiles reads the archive and stops the machine. *)
Collected(c) ==
    /\ Calling(c, "collect", "ok")
    /\ guest' = [guest EXCEPT ![calls[c].rt].machine = IF @ = "running" THEN "stopped" ELSE @]
    /\ At(c, "collected")
    /\ UNCHANGED <<plan, left, server, rt, doubt>>

CollectEnds(c) ==
    /\ Calling(c, "collect", "collected")
    /\ LET r == calls[c].rt IN
         rt' = [rt EXCEPT ![r].state = "stopped", ![r].pgo = FALSE, ![r].tail = Settled(r)]
    /\ Answered(c)
    /\ UNCHANGED <<plan, left, server, guest, doubt>>

(* Mutant: an operation that rejects breaks the chain.                       *)
RefusedKeepsTail(c) ==
    /\ calls[c].at = "error"
    /\ LET r == calls[c].rt
           op == calls[c].op
           fails == \/ op = "start"
                    \/ op = "collect" /\ rt[r].state \notin {"disposed", "failed"}
       IN  rt' = [rt EXCEPT ![r].pgo = @ /\ op # "collect",
                            ![r].state = IF fails THEN "failed" ELSE @]
    /\ Answered(c)
    /\ UNCHANGED <<plan, left, server, guest, doubt>>

(* The catch of each call: a start fails its runtime, and so does a        *)
(* collection, unless the runtime is disposed or failed by now.            *)
Refused(c) ==
    /\ calls[c].at = "error"
    /\ LET r == calls[c].rt
           op == calls[c].op
           fails == \/ op = "start"
                    \/ op = "collect" /\ rt[r].state \notin {"disposed", "failed"}
       IN  rt' = [rt EXCEPT ![r].tail = Settled(r),
                            ![r].pgo = @ /\ op # "collect",
                            ![r].state = IF fails THEN "failed" ELSE @]
    /\ Answered(c)
    /\ UNCHANGED <<plan, left, server, guest, doubt>>

(* The timer of a control request: the guest may still carry it out. *)
ControlTimeout(c) ==
    /\ calls[c].at = "sent"
    /\ guest' = [guest EXCEPT ![calls[c].rt].requests = Forgotten(calls[c].rt, {c})]
    /\ doubt' = [doubt EXCEPT ![calls[c].rt] = TRUE]
    /\ At(c, "error")
    /\ UNCHANGED <<plan, left, server, rt>>

-----------------------------------------------------------------------------
(***************************************************************************)
(* stop() and dispose().                                                   *)
(***************************************************************************)
Stop(c) ==
    /\ Send(c, "stop")
    /\ server # 0
    /\ rt[server].state = "running"
    /\ rt[server].ref
    /\ guest' = [guest EXCEPT ![server].machine = IF @ = "running" THEN "stopped" ELSE @]
    /\ Dispatched(c, "stop", server, "", 0, "stopping")
    /\ UNCHANGED <<server, rt>>

StopEnds(c) ==
    /\ Calling(c, "stop", "stopping")
    /\ rt' = [rt EXCEPT ![calls[c].rt].state = "stopped"]
    /\ Answered(c)
    /\ UNCHANGED <<plan, left, server, guest, doubt>>

Waiting(r) == {c \in InFlight(r) : calls[c].at = "sent"}

Dispose(c) ==
    /\ Send(c, "dispose")
    /\ server # 0
    /\ rt[server].state # "disposed"
    /\ guest' = [guest EXCEPT ![server].requests = Forgotten(server, Waiting(server)),
                              ![server].machine = IF rt[server].ref THEN "destroyed" ELSE @]
    /\ calls' = [d \in Calls |->
         IF d = c THEN [op |-> "dispose", at |-> "destroying", rt |-> server, path |-> "",
                        arg |-> 0, seen |-> {}]
         ELSE IF d \in Waiting(server) THEN [calls[d] EXCEPT !.at = "error"]
         ELSE calls[d]]
    /\ UNCHANGED <<server, rt>>

DisposeEnds(c) ==
    /\ Calling(c, "dispose", "destroying")
    /\ rt' = [rt EXCEPT ![calls[c].rt].url = FALSE, ![calls[c].rt].state = "disposed",
                        ![calls[c].rt].ref = FALSE]
    /\ server' = 0
    /\ Answered(c)
    /\ UNCHANGED <<plan, left, guest, doubt>>

-----------------------------------------------------------------------------
(***************************************************************************)
(* The guest (external): it boots from the bootstrap archive, and answers  *)
(* the requests one by one.  #handleControlLine is the host's part.        *)
(***************************************************************************)
Runs(r) == guest[r].machine = "running"

GuestReady(r) ==
    /\ Runs(r) /\ guest[r].on = "booting"
    /\ guest' = [guest EXCEPT ![r].on = "up", ![r].files = guest[r].boot, ![r].up = guest[r].bootUp]
    /\ rt' = [rt EXCEPT ![r].ready = IF @ = "pending" THEN "resolved" ELSE @]
    /\ UNCHANGED <<plan, left, server, calls, doubt>>

GuestFailed(r) ==
    /\ Runs(r) /\ guest[r].on = "booting"
    /\ "exit" \in plan.faults
    /\ guest' = [guest EXCEPT ![r].on = "gone"]
    /\ rt' = [rt EXCEPT ![r].ready = IF @ = "pending" THEN "rejected" ELSE @]
    /\ UNCHANGED <<plan, left, server, calls, doubt>>

(* EXIT: expected while profiles are collected, else the runtime fails. *)
ExitHandled(r) == IF rt[r].state = "running" /\ ~rt[r].pgo
                    THEN [rt EXCEPT ![r].state = "failed"] ELSE rt

GuestExit(r) ==
    /\ Runs(r) /\ guest[r].on = "up"
    /\ "exit" \in plan.faults
    /\ guest' = [guest EXCEPT ![r].on = "gone"]
    /\ rt' = ExitHandled(r)
    /\ UNCHANGED <<plan, left, server, calls, doubt>>

(* What the guest has done when it answers, and what the waiter is told. *)
Told(r, status) == LET id == Head(guest[r].requests).id IN
    [d \in Calls |->
       IF d = id THEN [calls[d] EXCEPT !.at = status]
       ELSE IF calls[d].op = "read" /\ calls[d].rt = r
         THEN [calls[d] EXCEPT !.seen = @ \cup {guest'[r].files[calls[d].path]}]
         ELSE calls[d]]

GuestAnswers(r) ==
    /\ Runs(r) /\ guest[r].on = "up" /\ guest[r].requests # <<>>
    /\ LET q == Head(guest[r].requests)
           g == [guest[r] EXCEPT !.requests = Tail(@)]
       IN  \/ /\ q.do = "APPLY"
              /\ guest' = [guest EXCEPT ![r] = [g EXCEPT !.files[g.input[1]] = g.input[2]]]
              /\ calls' = Told(r, "ok")
              /\ UNCHANGED rt
           \/ /\ q.do = "LINK"
              /\ guest' = [guest EXCEPT ![r] = [g EXCEPT !.up = (q.value = 1)]]
              /\ calls' = Told(r, "ok")
              /\ UNCHANGED rt
           \/ /\ q.do = "READ" /\ g.files[q.path] # 0
              /\ guest' = [guest EXCEPT ![r] = [g EXCEPT !.output = <<q.path, g.files[q.path]>>]]
              /\ calls' = Told(r, "ok")
              /\ UNCHANGED rt
           \/ /\ q.do = "COLLECT_PGO"
              /\ guest' = [guest EXCEPT ![r] = g]
              /\ calls' = Told(r, "ok")
              /\ rt' = ExitHandled(r)
    /\ UNCHANGED <<plan, left, server, doubt>>

(* ENOENT of a READ is the answer null; any other refusal rejects.  The    *)
(* host has noted the state of a link already (setInterfaceState).         *)
GuestRefuses(r) ==
    /\ Runs(r) /\ guest[r].on = "up" /\ guest[r].requests # <<>>
    /\ LET q == Head(guest[r].requests) IN
         /\ \/ q.do = "READ" /\ guest[r].files[q.path] = 0
            \/ "refuse" \in plan.faults
         /\ guest' = [guest EXCEPT ![r].requests = Tail(@)]
         /\ calls' = Told(r, "error")
         /\ doubt' = [doubt EXCEPT ![r] = @ \/ q.do = "LINK"]
    /\ UNCHANGED <<plan, left, server, rt>>

-----------------------------------------------------------------------------
CallStep(c) ==
    \/ InitLoaded(c) \/ InitReady(c) \/ StartReady(c) \/ StartFails(c) \/ ApplyPending(c)
    \/ SendControl(c) \/ SendRefused(c) \/ Acknowledged(c) \/ PendingApplied(c) \/ ReadBack(c)
    \/ ReadAnswered(c) \/ Collected(c) \/ CollectEnds(c) \/ Refused(c) \/ ControlTimeout(c)
    \/ StopEnds(c) \/ DisposeEnds(c)

Next == \/ \E c \in Calls :
             \/ Initialize(c) \/ Start(c) \/ WriteFile(c) \/ SetInterfaceState(c) \/ ReadFile(c)
             \/ CollectPgoProfiles(c) \/ Stop(c) \/ Dispose(c) \/ InitFails(c)
             \/ CallStep(c)
        \/ \E r \in Rts : \/ GuestReady(r) \/ GuestFailed(r) \/ GuestExit(r)
                          \/ GuestAnswers(r) \/ GuestRefuses(r)

Spec == Init /\ [][Next]_vars

(* The browser runs its timers and the continuations of settled promises.  *)
(* Nothing is asked of the guest.                                          *)
FairSpec == Spec /\ \A c \in Calls : WF_vars(CallStep(c))

-----------------------------------------------------------------------------
(* When nothing is in flight, the files and the link of a running guest are *)
(* those the host shows: what was written before the first start, while the *)
(* machine stood still, and while it ran has all arrived, in order.  Not    *)
(* claimed: after a request whose effect is unknown (a timeout, a refused   *)
(* LINK), and for clients that write while a start is in flight.            *)
GuestAgrees ==
    \A r \in Rts : plan.inOrder /\ Live(r) /\ InFlight(r) = {} /\ guest[r].on = "up" /\ ~doubt[r]
                   => guest[r].files = rt[r].files /\ guest[r].up = rt[r].up

(* readFile answers with contents that the guest's file had at some moment  *)
(* of the call: no other request's archive, and no earlier one.             *)
ReadIsFresh ==
    \A c \in Calls : Calling(c, "read", "answer") => calls[c].arg \in calls[c].seen

(* Every request is answered, whatever the guest does. *)
CallsReturn == \A c \in Calls : calls[c] # Idle ~> calls[c] = Idle
=============================================================================
