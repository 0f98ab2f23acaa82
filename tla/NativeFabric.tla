---------------------------- MODULE NativeFabric ----------------------------
(***************************************************************************)
(* The Ethernet fabric of NativeLabEngine (src/src/native/engine.ts) while *)
(* the lab is running: frames cross links with a delay, switches learn and *)
(* flood, and one wake timer drives laboratory time after the wall clock.  *)
(*                                                                         *)
(* What a lab runs on settles in microtasks, so no timer, frame of a guest *)
(* or call of the client comes into a drive; the steps of `drive` are the  *)
(* iterations of #driveTo and #runCurrentTime.  MTU, malformed frames and  *)
(* random loss are one thing here: a link of `lossy` may drop any frame.   *)
(* Frame bytes and the capture are left out.                               *)
(***************************************************************************)
EXTENDS Integers, Sequences, FiniteSets, SequencesExt

CONSTANTS
  Nets,         (* The projects, one of which is chosen at the start, each   *)
                (* with bounds: who may talk to whom, which hosts may reject *)
                (* a frame, how many toggles of what is fragile or a port of *)
                (* what is weak, and how many calls of advanceBy().          *)
  MaxHops,      (* MAX_SWITCH_HOPS                                           *)
  MaxEvents,    (* options.maxEventsPerAdvance                               *)
  MaxImmediate, (* options.maxImmediateSteps                                 *)
  MaxFrames,    (* Bound: frames the hosts transmit.                         *)
  LastSend,     (* Bound: the wall-clock time of the last of them.           *)
  MaxWall,      (* Bound: the wall clock.                                    *)
  Never         (* Later than every time of the model: no deadline.          *)

ASSUME FabricAssumption ==
  /\ Never \in Nat
  /\ \A n \in Nets :
       /\ n.hosts \in Seq(Range(n.hosts))
       /\ \A h \in Range(n.hosts) : \A r \in n.steps[h] : r.items \in Nat /\ r.next \in Int
       /\ \A s \in n.switches : n.ports[s] \in Nat
       /\ \A l \in DOMAIN n.ends :
            /\ DOMAIN n.ends[l] = 1 .. 2
            /\ IsFiniteSet(n.delay[l]) /\ n.delay[l] \subseteq Nat /\ n.delay[l] # {}

Broadcast == "broadcast"

VARIABLES
  net,      (* the project                                                   *)
  running,  (* #state is 'running'; else it is 'failed'                      *)
  now,      (* #nowNs                                                        *)
  wall,     (* performance.now()                                             *)
  wallLast, (* #wallLastMs                                                   *)
  timerDue, (* #timerDueNs, Never if #timer is null                          *)
  pending,  (* #pendingArrivals                                              *)
  order,    (* #nextArrivalOrder                                             *)
  learned,  (* #switchLearning: a partial map from hosts to ports            *)
  linksUp,  (* links, endpoints and nodes whose state is 'up': #linkStates,  *)
  portsUp,  (* #interfaceStates                                              *)
  nodesUp,  (* and #nodeStates                                               *)
  clearing, (* endpoints whose learning a toggle clears after its await      *)
  deadline, (* entry.nextDeadlineNs of each host                             *)
  drive,    (* #driveTo under way: at most one                               *)
  sent,     (* history: the frames the hosts transmitted                     *)
  inbox,    (* history: the arrivals delivered to each host                  *)
  toggles,  (* toggles so far                                                *)
  advances  (* calls of advanceBy() so far                                   *)

links == <<linksUp, portsUp, nodesUp, clearing, toggles>>
clock == <<wall, wallLast>>
fabricVars == <<net, running, now, clock, timerDue, pending, order, learned, links,
                deadline, drive, sent, inbox, advances>>

Hosts(n) == Range(n.hosts)
Ports(n, node) == { <<node, i>> : i \in 1 .. n.ports[node] }
Endpoints(n) == UNION { Ports(n, node) : node \in DOMAIN n.ports }
Links(n) == DOMAIN n.ends

NoDrive == [at |-> "idle"]

(* #driveTo(target): wake tells the drives whose failure fails the lab, those *)
(* of start() and of the timer, from those of advanceBy().                   *)
DriveTo(target, wake) ==
  [at |-> "next", target |-> target, wake |-> wake, final |-> FALSE, processed |-> 0,
   before |-> 0, worked |-> FALSE, turn |-> 1, immediate |-> [h \in Hosts(net) |-> 0]]

FabricInit ==
  /\ net \in Nets
  /\ running = TRUE /\ now = 0 /\ wall = 0 /\ wallLast = 0 /\ timerDue = Never
  /\ pending = <<>> /\ order = 0
  /\ learned = [s \in net.switches |-> <<>>]
  /\ linksUp = Links(net) /\ portsUp = Endpoints(net)
  /\ nodesUp = net.switches \cup Hosts(net)
  /\ clearing = {} /\ toggles = 0 /\ advances = 0
  /\ deadline = [h \in Hosts(net) |-> 0]
  /\ drive = DriveTo(0, TRUE)
  /\ sent = <<>> /\ inbox = [h \in Hosts(net) |-> <<>>]

-----------------------------------------------------------------------------
(* The topology: at most one link ends at an endpoint.                      *)

LinksAt(e) == { l \in Links(net) : e \in Range(net.ends[l]) }
OtherEnd(l, e) == IF net.ends[l][1] = e THEN net.ends[l][2] ELSE net.ends[l][1]
Operational(e) ==
  e[1] \in nodesUp /\ e \in portsUp /\ LinksAt(e) \subseteq linksUp

(* Lab time as of the wall clock.                                           *)
Projected == IF running THEN now + (wall - wallLast) ELSE now

Before(a, b) == a.due < b.due \/ (a.due = b.due /\ a.order < b.order)

(* A plausible mistake: equal due times are inserted in front.              *)
InsertedInFront(queue, a) ==
  InsertAt(queue, 1 + Cardinality({ i \in DOMAIN queue : queue[i].due < a.due }), a)

(* #insertArrival keeps #pendingArrivals sorted by due time, then order.    *)
Inserted(queue, a) ==
  InsertAt(queue, 1 + Cardinality({ i \in DOMAIN queue : Before(queue[i], a) }), a)

-----------------------------------------------------------------------------
(* #sendAcrossLink: frame, with the path it came and the hops it made, is   *)
(* sent from endpoint e at time at.  q is the state [pending, order] to add *)
(* to, chance what the random stream holds: the links that lose the frame   *)
(* and the delay of each.                                                   *)

Crosses(e, frame, hops, chance) ==
  /\ e[1] \in nodesUp /\ e \in portsUp
  /\ \E l \in LinksAt(e) :
        /\ <<l, e>> \notin Range(frame.path) /\ hops <= MaxHops
        /\ l \in linksUp /\ Operational(OtherEnd(l, e))
        /\ l \notin chance.lost

SendAcrossLink(q, e, frame, hops, at, chance) ==
  IF ~Crosses(e, frame, hops, chance) THEN q
  ELSE LET l == CHOOSE l \in LinksAt(e) : TRUE
       IN  [pending |-> Inserted(q.pending,
              [frame EXCEPT !.path = Append(@, <<l, e>>), !.to = OtherEnd(l, e),
                            !.due = at + chance.delay[l], !.order = q.order,
                            !.hops = hops]),
            order |-> q.order + 1]

Chances == [lost : SUBSET net.lossy,
            delay : { d \in [Links(net) -> UNION Range(net.delay)] :
                        \A l \in Links(net) : d[l] \in net.delay[l] }]

(* #forwardThroughSwitch: the ports a frame leaves by.                      *)
Outputs(frame, table) ==
  LET switch == frame.to[1]
      known == IF frame.dst \in DOMAIN table THEN {table[frame.dst]}
               ELSE 1 .. net.ports[switch]
  IN  { <<switch, i>> : i \in known \ {frame.to[2]} }

ByPort(q, i, frame, table, chance) ==
  IF /\ <<frame.to[1], i>> \in Outputs(frame, table)
     /\ Operational(<<frame.to[1], i>>)
  THEN SendAcrossLink(q, <<frame.to[1], i>>, frame, frame.hops + 1, frame.due, chance)
  ELSE q

Forward(frame, table, chance) ==
  LET kept == [pending |-> Tail(pending), order |-> order]
      upTo[i \in 0 .. net.ports[frame.to[1]]] ==
        IF i = 0 THEN kept ELSE ByPort(upTo[i - 1], i, frame, table, chance)
  IN  IF frame.hops >= MaxHops THEN kept ELSE upTo[net.ports[frame.to[1]]]

-----------------------------------------------------------------------------
(* The wake timer.                                                          *)

Earliest(S) == CHOOSE t \in S : \A u \in S : t <= u
NextWake(queue, due) ==
  Earliest({Never} \cup Range(due) \cup { a.due : a \in Range(queue) })

(* #scheduleAutomaticWake: a timer that fires earlier is left alone.        *)
Scheduled(next) ==
  IF ~running THEN timerDue
  ELSE IF next = Never THEN Never
  ELSE IF timerDue # Never /\ timerDue <= next THEN timerDue ELSE next

(* #handleTransmitFrame: a guest sends a frame, at any time.                *)
Transmit(h, dst) ==
  /\ drive = NoDrive /\ running /\ Len(sent) < MaxFrames /\ wall <= LastSend
  /\ \E chance \in Chances, i \in 1 .. net.ports[h] :
       LET frame == [id |-> Len(sent) + 1, src |-> h, dst |-> dst, path |-> <<>>,
                     to |-> <<h, i>>, due |-> 0, order |-> 0, hops |-> 0]
           q == SendAcrossLink([pending |-> pending, order |-> order],
                               <<h, i>>, frame, 0, Projected, chance)
       IN  /\ pending' = q.pending /\ order' = q.order
           /\ timerDue' = Scheduled(NextWake(q.pending, deadline))
           /\ sent' = Append(sent, [src |-> h, dst |-> dst,
                                    crossed |-> q.order > order])
  /\ UNCHANGED <<net, running, now, clock, learned, links, deadline, drive,
                 inbox, advances>>

(* The timer's callback: #advanceFromWallClock, inside #enqueueDrive.       *)
WakeTimerFires ==
  /\ drive = NoDrive /\ timerDue # Never /\ timerDue <= Projected
  /\ timerDue' = Never
  /\ drive' = DriveTo(Projected, TRUE)
  /\ wallLast' = wall
  /\ UNCHANGED <<net, running, now, wall, pending, order, learned, links,
                 deadline, sent, inbox, advances>>

(* advanceBy(): laboratory time runs ahead of the wall clock.               *)
AdvanceBy ==
  /\ drive = NoDrive /\ running /\ advances < net.advances
  /\ advances' = advances + 1
  /\ \E ms \in 0 .. 1 : drive' = DriveTo(now + ms, FALSE)
  /\ UNCHANGED <<net, running, now, clock, timerDue, pending, order, learned,
                 links, deadline, sent, inbox>>

Tick ==
  /\ drive = NoDrive /\ wall < MaxWall
  /\ wall' = wall + 1
  /\ UNCHANGED <<net, running, now, wallLast, timerDue, pending, order, learned,
                 links, deadline, drive, sent, inbox, advances>>

-----------------------------------------------------------------------------
(* #driveTo and #runCurrentTime.                                            *)

DueNow == pending # <<>> /\ Head(pending).due <= now

(* The next time at which something is due, or at last the target.          *)
DriveOn ==
  /\ drive.at = "next"
  /\ LET next == NextWake(pending, deadline)
         last == next > drive.target
     IN  /\ now' = IF last THEN drive.target ELSE IF next > now THEN next ELSE now
         /\ drive' = [drive EXCEPT !.at = "arrivals", !.final = last,
                        !.before = drive.processed, !.worked = FALSE, !.turn = 1,
                        !.immediate = [h \in Hosts(net) |-> 0]]
  /\ UNCHANGED <<net, running, clock, timerDue, pending, order, learned, links,
                 deadline, sent, inbox, advances>>

(* #processArrival: the link or the endpoint may have gone down since.      *)
Arrives(a) == a.path[Len(a.path)][1] \in linksUp /\ Operational(a.to)

(* The drive throws.  In the timer's callback and in start() the lab fails;  *)
(* advanceBy() lets the error pass, before it looks at the timer.            *)
Throws ==
  /\ drive' = NoDrive /\ running' = (running /\ ~drive.wake)
  /\ timerDue' = IF drive.wake THEN Never ELSE timerDue
  /\ UNCHANGED deadline

Counted == [drive EXCEPT !.processed = @ + 1, !.worked = TRUE]

ArrivalDropped ==
  /\ drive.at = "arrivals" /\ DueNow /\ ~Arrives(Head(pending))
  /\ pending' = Tail(pending) /\ drive' = Counted
  /\ UNCHANGED <<net, running, now, clock, timerDue, order, learned, links,
                 deadline, sent, inbox, advances>>

ArrivalDelivered ==
  /\ drive.at = "arrivals" /\ DueNow /\ Arrives(Head(pending))
  /\ Head(pending).to[1] \in Hosts(net)
  /\ pending' = Tail(pending) /\ drive' = Counted
  /\ inbox' = [inbox EXCEPT ![Head(pending).to[1]] = Append(@, Head(pending))]
  /\ UNCHANGED <<net, running, now, clock, timerDue, order, learned, links,
                 deadline, sent, advances>>

(* The runtime rejects the frame.                                           *)
ArrivalRejected ==
  /\ drive.at = "arrivals" /\ DueNow /\ Arrives(Head(pending))
  /\ Head(pending).to[1] \in net.rejects
  /\ pending' = Tail(pending) /\ Throws
  /\ UNCHANGED <<net, now, clock, order, learned, links, sent, inbox, advances>>

(* A plausible mistake: a host is learned where a flood would find it last, *)
(* and stays there.                                                         *)
LearntFirst(a) == [h \in DOMAIN learned[a.to[1]] \cup {a.src} |->
                     IF h \in DOMAIN learned[a.to[1]] THEN learned[a.to[1]][h]
                     ELSE net.ports[a.to[1]]]

Learnt(a) == [h \in DOMAIN learned[a.to[1]] \cup {a.src} |->
                IF h = a.src THEN a.to[2] ELSE learned[a.to[1]][h]]

ArrivalForwarded ==
  /\ drive.at = "arrivals" /\ DueNow /\ Arrives(Head(pending))
  /\ Head(pending).to[1] \in net.switches
  /\ LET a == Head(pending)
         table == IF a.hops >= MaxHops THEN learned[a.to[1]] ELSE Learnt(a)
     IN  /\ learned' = [learned EXCEPT ![a.to[1]] = table]
         /\ \E chance \in Chances :
               LET q == Forward(a, table, chance)
               IN  pending' = q.pending /\ order' = q.order
  /\ drive' = Counted
  /\ UNCHANGED <<net, running, now, clock, timerDue, links, deadline, sent, inbox,
                 advances>>

StepsBegin ==
  /\ drive.at = "arrivals" /\ ~DueNow
  /\ drive' = [drive EXCEPT !.at = "steps", !.turn = 1]
  /\ UNCHANGED <<net, running, now, clock, timerDue, pending, order, learned,
                 links, deadline, sent, inbox, advances>>

(* A plausible mistake: a step that did nothing counts for nothing.         *)
StepAcceptedIdle(h, r) ==
  LET count == IF r.immediate THEN drive.immediate[h] + 1 ELSE 0
  IN  IF r.next < 0 \/ count > MaxImmediate THEN Throws
      ELSE /\ deadline' = [deadline EXCEPT ![h] =
                IF r.immediate THEN now ELSE IF r.next = Never THEN Never
                ELSE now + r.next]
           /\ drive' = [drive EXCEPT !.turn = @ + 1, !.worked = TRUE,
                          !.processed = @ + r.items, !.immediate[h] = count]
           /\ UNCHANGED <<running, timerDue>>

(* A runtime's step: r.next is relative to now; a past deadline and too     *)
(* many immediate steps at one time throw.                                  *)
StepAccepted(h, r) ==
  LET count == IF r.immediate THEN drive.immediate[h] + 1 ELSE 0
  IN  IF r.next < 0 \/ count > MaxImmediate THEN Throws
      ELSE /\ deadline' = [deadline EXCEPT ![h] =
                IF r.immediate THEN now ELSE IF r.next = Never THEN Never
                ELSE now + r.next]
           /\ drive' = [drive EXCEPT !.turn = @ + 1, !.worked = TRUE,
                          !.processed = @ + IF r.items > 1 THEN r.items ELSE 1,
                          !.immediate[h] = count]
           /\ UNCHANGED <<running, timerDue>>

StepRuntime ==
  /\ drive.at = "steps" /\ drive.turn <= Len(net.hosts)
  /\ LET h == net.hosts[drive.turn]
     IN  IF deadline[h] > now
         THEN /\ drive' = [drive EXCEPT !.turn = @ + 1]
              /\ UNCHANGED <<running, timerDue, deadline>>
         ELSE \E r \in net.steps[h] : StepAccepted(h, r)
  /\ UNCHANGED <<net, now, clock, pending, order, learned, links, sent, inbox,
                 advances>>

(* Another round at the same time, the next time, or the end of the drive.  *)
RoundEnds ==
  /\ drive.at = "steps" /\ drive.turn > Len(net.hosts)
  /\ LET over == drive.processed - drive.before > MaxEvents
         again == /\ drive.worked /\ ~over
                  /\ DueNow \/ \E h \in Hosts(net) : deadline[h] <= now
     IN  IF again
         THEN /\ drive' = [drive EXCEPT !.at = "arrivals", !.worked = FALSE]
              /\ UNCHANGED <<running, timerDue, deadline>>
         ELSE IF drive.processed > MaxEvents THEN Throws
         ELSE /\ IF drive.final
                 THEN /\ drive' = NoDrive
                      /\ timerDue' = Scheduled(NextWake(pending, deadline))
                 ELSE /\ drive' = [drive EXCEPT !.at = "next"]
                      /\ UNCHANGED timerDue
              /\ UNCHANGED <<running, deadline>>
  /\ UNCHANGED <<net, now, clock, pending, order, learned, links, sent, inbox,
                 advances>>

-----------------------------------------------------------------------------
(* setLinkState, setInterfaceState and, for a switch, setNodeState.  What a *)
(* toggle tells the guests is the subject of GuestServices; here it awaits  *)
(* them and then clears what the switches at its ends have learned.         *)

Flipped(S, x) == IF x \in S THEN S \ {x} ELSE S \cup {x}

ToggleLink(l) ==
  /\ drive = NoDrive /\ running /\ toggles < net.toggles
  /\ linksUp' = Flipped(linksUp, l) /\ toggles' = toggles + 1
  /\ clearing' = IF l \in linksUp THEN clearing \cup Range(net.ends[l]) ELSE clearing
  /\ UNCHANGED <<net, running, now, clock, timerDue, pending, order, learned,
                 portsUp, nodesUp, deadline, drive, sent, inbox, advances>>

ToggleInterface(e) ==
  /\ drive = NoDrive /\ running /\ toggles < net.toggles
  /\ portsUp' = Flipped(portsUp, e) /\ toggles' = toggles + 1
  /\ clearing' = clearing \cup {e}
  /\ UNCHANGED <<net, running, now, clock, timerDue, pending, order, learned,
                 linksUp, nodesUp, deadline, drive, sent, inbox, advances>>

ToggleSwitch(s) ==
  /\ drive = NoDrive /\ running /\ toggles < net.toggles
  /\ nodesUp' = Flipped(nodesUp, s) /\ toggles' = toggles + 1
  /\ learned' = IF s \in nodesUp THEN [learned EXCEPT ![s] = <<>>] ELSE learned
  /\ timerDue' = Scheduled(NextWake(pending, deadline))
  /\ UNCHANGED <<net, running, now, clock, pending, order, linksUp, portsUp,
                 clearing, deadline, drive, sent, inbox, advances>>

ClearLearning(e) ==
  /\ drive = NoDrive
  /\ clearing' = clearing \ {e}
  /\ learned' = IF e[1] \in net.switches THEN [learned EXCEPT ![e[1]] = <<>>]
                ELSE learned
  /\ UNCHANGED <<net, running, now, clock, timerDue, pending, order, linksUp, portsUp,
                 nodesUp, toggles, deadline, drive, sent, inbox, advances>>

-----------------------------------------------------------------------------
Drive ==
  /\ drive # NoDrive
  /\ \/ DriveOn \/ ArrivalDropped \/ ArrivalDelivered \/ ArrivalRejected
     \/ ArrivalForwarded \/ StepsBegin \/ StepRuntime \/ RoundEnds

FabricNext ==
  \/ Tick \/ WakeTimerFires \/ Drive \/ AdvanceBy
  \/ \E t \in net.talk : Transmit(t[1], t[2])
  \/ \E l \in Links(net) \cap net.fragile : ToggleLink(l)
  \/ \E e \in { e \in Endpoints(net) : e[1] \in net.weak } : ToggleInterface(e)
  \/ \E s \in net.switches \cap net.fragile : ToggleSwitch(s)
  \/ \E e \in clearing : ClearLearning(e)

FabricSpec == FabricInit /\ [][FabricNext]_fabricVars

(* The event loop runs the microtasks of a drive, the browser fires timers  *)
(* and the clock goes on.  The first conjunct is WF_fabricVars(Drive) with  *)
(* its ENABLED written out: Drive can step whenever there is a drive.       *)
FairFabricSpec ==
  /\ FabricSpec /\ ([]<>(drive = NoDrive) \/ []<><<Drive>>_fabricVars)
  /\ WF_fabricVars(WakeTimerFires) /\ WF_fabricVars(Tick)

-----------------------------------------------------------------------------
Tree == net.tree
Fixed == \A l \in Links(net) : Cardinality(net.delay[l]) = 1

(* Frames of one host that go the same way arrive in the order in which it  *)
(* sent them, whatever loops, switches and drives come between, unless the  *)
(* delay of a link varies: #insertArrival breaks ties of #processArrival.   *)
OrderKept ==
  Fixed => \A h \in Hosts(net) : \A i, j \in DOMAIN inbox[h] :
             i < j /\ inbox[h][i].path = inbox[h][j].path
               => inbox[h][i].id <= inbox[h][j].id

(* Every drive ends, however the runtimes behave and whatever loops the     *)
(* links form (maxEventsPerAdvance, maxImmediateSteps, the visited          *)
(* directions).                                                             *)
DrivesEnd == (drive # NoDrive) ~> (drive = NoDrive)

(* Every frame comes to rest; in a tree that loses nothing and is left      *)
(* alone, it comes to rest at the host it was sent to, whichever ports the  *)
(* switches have learned, unless that host may reject it or the lab fails:  *)
(* a drive of advanceBy() that throws leaves the others to the wake timer.  *)
Arrived(k) ==
  /\ \A i \in DOMAIN pending : pending[i].id # k
  /\ (Tree /\ net.lossy = {} /\ toggles = 0)
       => \A h \in Hosts(net) \ net.rejects :
            (sent[k].dst = h \/ (sent[k].dst = Broadcast /\ sent[k].src # h))
              => \E i \in DOMAIN inbox[h] : inbox[h][i].id = k
FramesArrive ==
  \A k \in 1 .. MaxFrames :
    (k <= Len(sent)) ~> (~running \/ (k <= Len(sent) /\ Arrived(k)))
=============================================================================
