------------------------------ MODULE Simulator ------------------------------
(***************************************************************************)
(* The compatibility simulator (src/core/engine.ts): a control plane of    *)
(* BGP and OSPF sessions over a topology, computed in one synchronous call *)
(* (converge), a packet trace over its routes, and scenario events that    *)
(* the scheduler runs as the simulated clock advances.                     *)
(*                                                                         *)
(* A lab is what LabEngine.create gets and the parsers make of its files:  *)
(*   nodes     1 .. n, in the order of the project                         *)
(*   switches  those of them that only carry frames                        *)
(*   links     records [a, b, latency]                                     *)
(*   family    the address family of each prefix                           *)
(*   serves    the prefixes a node owns (service addresses)                *)
(*   statics   records [node, prefix, hop], hop 0 for a blackhole          *)
(*   bgp       the neighbours, in the order of nodes, instances and        *)
(*             neighbours: records [node, instance, as, peer, peerAs,      *)
(*             families, import, export, networks, client], where import   *)
(*             and export are the prefixes the policies allow, networks    *)
(*             those that a router may originate, client says rs client    *)
(*   ospf      records [node, family, area], in the order of nodes         *)
(*   inside    of each destination, the prefixes that hold it, the longest *)
(*             first                                                       *)
(*   events    the scenario: records [at, kind, id, up]                    *)
(* Two nodes share at most one link.  Prefixes are their normal forms, and *)
(* the subnets of links are left out; of the random numbers only that no   *)
(* link loses packets.                                                     *)
(***************************************************************************)
EXTENDS Integers, FiniteSets, Sequences, SequencesExt, Scheduler

CONSTANTS Labs,         \* labs, with the uses [converge, toggle, edit, run] a client makes
          MaxRounds,    \* settings.maxConvergenceIterations
          Ttl,          \* settings.defaultTtl
          MaxSize,      \* no lab has more nodes, or more links
          Times         \* what runUntil is called with

VARIABLES lab,          \* the project
          up,           \* the links and the nodes that are up
          reloads,      \* the nodes whose new files their runtime is still parsing, in order
          policies,     \* what their files say: the nodes whose routers export nothing
          routes,       \* of each node, its routes, the installed ones marked
          sessions,     \* the sessions of the last converge
          converged,
          now, heap,    \* the scheduler
          phase,        \* live, closing (the runtimes are being shut down) or disposed
          left,         \* the calls the client may still make
          ran,          \* history: the scenario events that ran, with their times
          overtaken,    \* history: a scenario event ran inside converge()
          diverged      \* history: a converge() threw

control == <<routes, sessions>>
clock == <<now, heap, up, ran>>
history == <<overtaken, diverged>>
vars == <<lab, reloads, policies, converged, phase, left, control, clock, history>>

Nodes == 1 .. lab.nodes
Links == DOMAIN lab.links
Routers == Nodes \ lab.switches
Far == 1000000

-----------------------------------------------------------------------------
(***************************************************************************)
(* TopologyIndex.  The distance of two nodes in layer 2: over links that   *)
(* are up with both ends, and through switches only.                       *)
(***************************************************************************)
Latency(a, b) ==
    LET open == {l \in Links : /\ up.link[l] /\ up.node[a] /\ up.node[b]
                               /\ {lab.links[l].a, lab.links[l].b} = {a, b}}
    IN  IF a = b THEN 0 ELSE IF open = {} THEN Far ELSE lab.links[CHOOSE l \in open : TRUE].latency

Through[k \in 0 .. lab.nodes] ==
    IF k = 0 THEN [a, b \in Nodes |-> Latency(a, b)]
    ELSE LET d == Through[k - 1] IN
           [a, b \in Nodes |->
              IF k \in lab.switches /\ d[a, k] + d[k, b] < d[a, b] THEN d[a, k] + d[k, b] ELSE d[a, b]]
Distances == Through[lab.nodes]
Near(dist, a, b) == a # b /\ dist[a, b] < Far

(* destinationOwners. *)
Owners(d) == {n \in Routers : lab.serves[n] \cap ToSet(lab.inside[d]) # {}}

-----------------------------------------------------------------------------
(***************************************************************************)
(* Routes (fib.ts).  `from` is learnedFromNodeId, `hop` nextHopNodeId, and *)
(* both are 0 where there is none.                                         *)
(***************************************************************************)
Distance == [connected |-> 0, static |-> 1, ebgp |-> 20, ospf |-> 110, ibgp |-> 200]

Route(prefix, source, kind) ==
    [prefix |-> prefix, source |-> source, distance |-> Distance[kind], from |-> 0, hop |-> 0,
     instance |-> "", path |-> <<>>, igp |-> source = "connected", metric |-> 0,
     forward |-> TRUE, best |-> FALSE]

(* compareRoutePreference; what the ids decide is the number of the peer.  *)
Preferred(r, s) ==
    LET bgp == r.source = "bgp" /\ s.source = "bgp"
        key(x) == <<x.distance,
                    IF bgp THEN Len(x.path) ELSE 0,
                    IF bgp /\ ~x.igp THEN 2 ELSE 0,
                    x.metric, x.from>>
        differ == {i \in 1 .. 5 : key(r)[i] # key(s)[i]}
    IN  differ # {} /\ LET i == CHOOSE i \in differ : \A j \in differ : i <= j
                       IN  key(r)[i] < key(s)[i]

(* installBestRoutes. *)
Install(set) == {[r EXCEPT !.best = ~\E s \in set : s.prefix = r.prefix /\ Preferred(s, r)] : r \in set}

(* changedRoutes compares ids, what equivalentRoute looks at, and whether  *)
(* the route is installed: neither the metric nor what the route forwards. *)
Shown(r) == [r EXCEPT !.metric = 0, !.igp = TRUE, !.distance = 0, !.forward = TRUE]
Changed(before, after) == {Shown(r) : r \in before} # {Shown(r) : r \in after}

Installed(set) == {r \in set : r.best}

(* rebuildBaseRoutes. *)
BaseRoutes(n) ==
    IF ~up.node[n] \/ n \in lab.switches THEN {}
    ELSE Install({Route(p, "connected", "connected") : p \in lab.serves[n]} \cup
                 {[Route(s.prefix, "static", "static") EXCEPT !.hop = s.hop, !.forward = (s.hop # 0)]
                    : s \in {t \in lab.statics : t.node = n}})

-----------------------------------------------------------------------------
(***************************************************************************)
(* Sessions.  A BGP session is one family of one neighbour; it is          *)
(* established when the neighbour is a direct peer that names this node as *)
(* its neighbour, with this family, and both have the other's AS.          *)
(***************************************************************************)
Exports(e) == IF e.node \in policies THEN {} ELSE e.export

Answers(e, family) == {f \in ToSet(lab.bgp) : f.node = e.peer /\ f.peer = e.node /\ family \in f.families}
Remote(e, family) == CHOOSE f \in Answers(e, family) : TRUE

BgpUp(dist, e, family) ==
    /\ up.node[e.node] /\ up.node[e.peer] /\ Near(dist, e.node, e.peer)
    /\ \E f \in Answers(e, family) : e.peerAs = f.as /\ f.peerAs = e.as

BgpSessions(dist) ==
    FlattenSeq([i \in DOMAIN lab.bgp |->
        LET e == lab.bgp[i] IN
        SelectSeq([k \in 1 .. 2 |-> [protocol |-> "bgp", end |-> e, family |-> k,
                                     latency |-> dist[e.node, e.peer]]],
                  LAMBDA s : s.family \in e.families /\ BgpUp(dist, e, s.family))])

(* An OSPF session is a pair of direct peers with routers of one family    *)
(* and one area; the peers of a node come in the order of their distance.  *)
OspfPeers(dist, o) ==
    SetToSortSeq({p \in ToSet(lab.ospf) : /\ Near(dist, o.node, p.node) /\ p.family = o.family
                                          /\ p.area = o.area /\ up.node[p.node]},
                 LAMBDA p, q : \/ dist[o.node, p.node] < dist[o.node, q.node]
                               \/ dist[o.node, p.node] = dist[o.node, q.node] /\ p.node < q.node)

OspfSessions(dist) ==
    FlattenSeq([i \in DOMAIN lab.ospf |->
        LET o == lab.ospf[i]
            peers == IF up.node[o.node] THEN OspfPeers(dist, o) ELSE <<>>
        IN  [j \in DOMAIN peers |->
               [protocol |-> "ospf", end |-> [node |-> o.node, peer |-> peers[j].node],
                family |-> o.family, latency |-> dist[o.node, peers[j].node]]]])

-----------------------------------------------------------------------------
(***************************************************************************)
(* propagateBgp and propagateOspf for one session: what the node learns    *)
(* from its peer replaces what it had learned from it.                     *)
(***************************************************************************)
Passes(e, r, family) ==
    LET f == Remote(e, family) IN
    /\ lab.family[r.prefix] = family
    /\ ~(r.source = "bgp" /\ r.from = e.node)
    /\ r.source # "bgp" => r.prefix \in f.networks
    /\ r.prefix \in Exports(f) \cap e.import

PathFrom(e, f, r) == IF e.as # f.as /\ ~f.client /\ ~(r.path # <<>> /\ Head(r.path) = f.as)
                       THEN <<f.as>> \o r.path ELSE r.path

LearnedBgp(table, s) ==
    LET e == s.end
        f == Remote(e, s.family)
        offered == {r \in Installed(table[e.peer]) : Passes(e, r, s.family)}
        taken == {r \in offered : e.as \notin ToSet(PathFrom(e, f, r))}
    IN  {[Route(r.prefix, "bgp", IF e.as # f.as THEN "ebgp" ELSE "ibgp") EXCEPT
            !.from = e.peer, !.hop = e.peer, !.instance = e.instance, !.path = PathFrom(e, f, r),
            !.igp = r.igp, !.metric = s.latency] : r \in taken}

(* Mutant: what was learned by OSPF is not passed on. *)
LearnedOspfOnce(table, s) ==
    {[Route(r.prefix, "ospf", "ospf") EXCEPT
        !.from = s.end.peer, !.hop = s.end.peer, !.instance = "ospf", !.forward = r.forward,
        !.metric = r.metric + (IF s.latency > 1 THEN s.latency ELSE 1)]
       : r \in {q \in Installed(table[s.end.peer]) : /\ lab.family[q.prefix] = s.family
                                                     /\ q.source \in {"connected", "static"}}}

LearnedOspf(table, s) ==
    {[Route(r.prefix, "ospf", "ospf") EXCEPT
        !.from = s.end.peer, !.hop = s.end.peer, !.instance = "ospf", !.forward = r.forward,
        !.metric = r.metric + (IF s.latency > 1 THEN s.latency ELSE 1)]
       : r \in {q \in Installed(table[s.end.peer]) : /\ lab.family[q.prefix] = s.family
                                                     /\ q.source \in {"connected", "ospf", "static"}}}

(* Mutant: what a peer announces replaces what any peer had announced. *)
FromAnyPeer(r, s) == r.source = s.protocol

FromPeer(r, s) == /\ r.source = s.protocol /\ r.from = s.end.peer
                  /\ s.protocol = "bgp" => r.instance = s.end.instance

Propagate(state, s) ==
    LET n == s.end.node
        learned == IF s.protocol = "bgp" THEN LearnedBgp(state.table, s) ELSE LearnedOspf(state.table, s)
        next == Install({r \in state.table[n] : ~FromPeer(r, s)} \cup learned)
    IN  IF Changed(state.table[n], next) THEN [table |-> [state.table EXCEPT ![n] = next], changed |-> TRUE]
                                         ELSE state

Round(table, list) == FoldLeft(Propagate, [table |-> table, changed |-> FALSE], list)

(* The loop of converge(): BGP only has its turn when OSPF changes nothing. *)
RECURSIVE Settle(_, _, _)
Settle(table, list, rounds) ==
    LET ospf == Round(table, SelectSeq(list, LAMBDA s : s.protocol = "ospf"))
        bgp == Round(ospf.table, SelectSeq(list, LAMBDA s : s.protocol = "bgp"))
        after == IF ospf.changed THEN ospf ELSE bgp
    IN  IF rounds = 0 THEN [table |-> table, settled |-> FALSE]
        ELSE IF after.changed THEN Settle(after.table, list, rounds - 1)
        ELSE [table |-> after.table, settled |-> TRUE]

Computed == LET dist == Distances
                list == BgpSessions(dist) \o OspfSessions(dist)
            IN  [sessions |-> list, result |-> Settle([n \in Nodes |-> BaseRoutes(n)], list, MaxRounds)]

-----------------------------------------------------------------------------
(* lookupRoute. *)
Lookup(n, d) == LET held == SelectSeq(lab.inside[d], LAMBDA p : \E r \in Installed(routes[n]) : r.prefix = p)
                IN  {r \in Installed(routes[n]) : held # <<>> /\ r.prefix = Head(held)}

NextHop(dist, n, r, d) ==
    IF r.hop # 0 /\ Near(dist, n, r.hop) THEN {r.hop}
    ELSE LET near == {o \in Owners(d) : Near(dist, n, o)}
         IN  {o \in near : \A q \in near : o <= q}

RECURSIVE Walk(_, _, _, _)
Walk(dist, n, d, visited) ==
    LET found == Lookup(n, d)
        r == CHOOSE r \in found : TRUE
        next == NextHop(dist, n, r, d)
        end == IF n \in visited THEN "loop"
               ELSE IF found = {} THEN "no-route"
               ELSE IF ~r.forward THEN "blackhole"
               ELSE IF next = {} THEN "unreachable" ELSE "forwarded"
    IN  IF n \notin visited /\ n \in Owners(d) THEN "delivered"
        ELSE IF Cardinality(visited) + 1 >= Ttl THEN "ttl-exceeded"
        ELSE IF end = "forwarded" THEN Walk(dist, CHOOSE m \in next : TRUE, d, visited \cup {n})
        ELSE end

Trace(dist, n, d) == IF up.node[n] THEN Walk(dist, n, d, {}) ELSE "unreachable"

-----------------------------------------------------------------------------
(* boot: the scenario is scheduled, in the order of the project. *)
Scheduled(l) == FoldLeft(Push, <<>>, [i \in DOMAIN l.events |->
    [at |-> l.events[i].at, order |-> i, kind |-> l.events[i].kind, id |-> l.events[i].id, up |-> l.events[i].up]])

Init == /\ lab \in Labs
        /\ up = [link |-> [l \in Links |-> TRUE], node |-> [n \in Nodes |-> TRUE]]
        /\ reloads = <<>> /\ policies = {}
        /\ routes = [n \in Nodes |-> {}] /\ sessions = <<>> /\ converged = FALSE
        /\ now = 0 /\ heap = Scheduled(lab) /\ ran = <<>>
        /\ phase = "live" /\ left = lab.uses
        /\ overtaken = FALSE /\ diverged = FALSE

(* assertActive, and one of the calls the client still makes. *)
Call(kind) == phase # "disposed" /\ left[kind] > 0 /\ left' = [left EXCEPT ![kind] = @ - 1]

(* Mutant: what the scenario changes leaves the lab converged. *)
RunNextConverged(st) ==
    LET task == Head(st.heap) IN
    [heap |-> Pop(st.heap), now |-> task.at,
     up |-> [st.up EXCEPT ![task.kind][task.id] = task.up],
     converged |-> st.converged, ran |-> Append(st.ran, task)]

(* runNext, up to a time: the callback of a task is setLinkState or        *)
(* setNodeState.                                                           *)
RunNext(st) ==
    LET task == Head(st.heap) IN
    [heap |-> Pop(st.heap), now |-> task.at,
     up |-> [st.up EXCEPT ![task.kind][task.id] = task.up],
     converged |-> st.converged /\ st.up[task.kind][task.id] = task.up,
     ran |-> Append(st.ran, task)]

RECURSIVE RunTasks(_, _)
RunTasks(st, target) == IF st.heap = <<>> \/ Head(st.heap).at > target
                          THEN st ELSE RunTasks(RunNext(st), target)

Clock(fresh) == [heap |-> heap, now |-> now, up |-> up, converged |-> fresh, ran |-> ran]
SetClock(st) == heap' = st.heap /\ now' = st.now /\ up' = st.up /\ ran' = st.ran

(* setLinkState and setNodeState. *)
SetState(kind, id) ==
    /\ Call("toggle")
    /\ id \in DOMAIN up[kind]
    /\ up' = [up EXCEPT ![kind][id] = ~@]
    /\ converged' = FALSE
    /\ UNCHANGED <<lab, reloads, policies, phase, control, now, heap, ran, history>>

SetLinkState(l) == SetState("link", l)
SetNodeState(n) == SetState("node", n)

(* converge: the clock goes on until every session is up, and what the     *)
(* scenario changes meanwhile is forgotten.                                *)
SinceMs(s) == (IF s.protocol = "bgp" THEN 100 ELSE 40) + 2 * s.latency
ConvergenceDelay(list) == FoldLeft(LAMBDA most, s : IF SinceMs(s) > most THEN SinceMs(s) ELSE most, 1, list)

Settled(computed) ==
    LET st == RunTasks(Clock(TRUE), now + ConvergenceDelay(computed.sessions)) IN
    /\ SetClock([st EXCEPT !.now = now + ConvergenceDelay(computed.sessions)])
    /\ converged' = TRUE /\ overtaken' = ~st.converged
    /\ UNCHANGED diverged

Diverges == /\ converged' = FALSE /\ diverged' = TRUE
            /\ UNCHANGED <<clock, overtaken>>

Converge ==
    /\ Call("converge")
    /\ LET computed == Computed IN
         /\ sessions' = computed.sessions /\ routes' = computed.result.table
         /\ IF computed.result.settled THEN Settled(computed) ELSE Diverges
    /\ UNCHANGED <<lab, reloads, policies, phase>>

(* runUntil, which does not run backwards, and runUntilIdle. *)
RunUntil(t) ==
    /\ Call("run") /\ t >= now
    /\ LET st == RunTasks(Clock(converged), t) IN
         /\ SetClock([st EXCEPT !.now = t]) /\ converged' = st.converged
    /\ UNCHANGED <<lab, reloads, policies, phase, control, history>>

RunUntilIdle ==
    /\ Call("run") /\ heap # <<>>
    /\ LET st == RunTasks(Clock(converged), Far) IN SetClock(st) /\ converged' = st.converged
    /\ UNCHANGED <<lab, reloads, policies, phase, control, history>>

(* updateNodeFiles: the engine takes the new configuration when the        *)
(* runtime has parsed it, and answers with a snapshot if it still can.     *)
UpdateNodeFiles(n) ==
    /\ Call("edit") /\ n \in Routers
    /\ reloads' = Append(reloads, n)
    /\ UNCHANGED <<lab, policies, converged, phase, control, clock, history>>

Reloaded ==
    /\ reloads # <<>>
    /\ LET n == Head(reloads) IN
         policies' = IF n \in policies THEN policies \ {n} ELSE policies \cup {n}
    /\ reloads' = Tail(reloads) /\ converged' = FALSE
    /\ UNCHANGED <<lab, phase, left, control, clock, history>>

(* dispose, and its continuation when the runtimes are shut down. *)
Dispose == /\ phase = "live" /\ phase' = "closing"
           /\ UNCHANGED <<lab, reloads, policies, converged, left, control, clock, history>>

Disposed == /\ phase = "closing" /\ phase' = "disposed" /\ heap' = <<>>
            /\ UNCHANGED <<lab, reloads, policies, converged, left, control, now, up, ran, history>>

Next == \/ Converge \/ RunUntilIdle \/ Reloaded \/ Dispose \/ Disposed
        \/ \E l \in 1 .. MaxSize : SetLinkState(l)
        \/ \E n \in 1 .. MaxSize : SetNodeState(n)
        \/ \E n \in 1 .. MaxSize : UpdateNodeFiles(n)
        \/ \E t \in Times : RunUntil(t)

Spec == Init /\ [][Next]_vars

-----------------------------------------------------------------------------
(***************************************************************************)
(* Properties                                                              *)
(***************************************************************************)
Steady == phase # "disposed" /\ converged /\ ~overtaken

(* What the engine reports as converged is what a control plane started on *)
(* the present topology and the present files would come to: nothing that  *)
(* changes either, by a call, by the scenario or by a reload that ends     *)
(* late, leaves the old routes marked as converged.  (An event inside      *)
(* converge() does, see overtaken.)                                        *)
ConvergedIsCurrent ==
    Steady => LET computed == Computed IN
              routes = computed.result.table /\ sessions = computed.sessions

(* The control plane settles, and its routes fit together: no lab in which *)
(* a speaker has one session with each peer makes converge() give up, and  *)
(* in a converged lab no packet comes back to a router it has left or runs *)
(* out of hops, although each node chose its routes from what its          *)
(* neighbours had installed at some point of the propagation.  (Meshes of  *)
(* more than two internal BGP speakers are not among the labs: there       *)
(* packets may loop.)                                                      *)
SettlesWithoutLoops ==
    /\ ~diverged
    /\ Steady => LET dist == Distances IN
                 \A n \in Routers, d \in DOMAIN lab.inside :
                   Trace(dist, n, d) \notin {"loop", "ttl-exceeded"}

(* Where every router speaks one protocol, no policy withholds anything    *)
(* and no static route interferes, a chain of established sessions from an *)
(* owner of a destination to a node is enough for the node to reach the    *)
(* destination: neither the checks of the AS path, nor the replacement of  *)
(* what a peer had announced, nor a propagation that stops too early loses *)
(* a prefix.                                                               *)
Hears(s, set) == set \cup {e \in Routers : \E i \in DOMAIN s : s[i].end.node = e /\ s[i].end.peer \in set}
Open == /\ policies = {} /\ lab.statics = {}
        /\ \A i, j \in DOMAIN sessions : sessions[i].protocol = sessions[j].protocol
        /\ \A i \in DOMAIN lab.bgp : /\ lab.bgp[i].import = DOMAIN lab.family
                                     /\ lab.bgp[i].export = DOMAIN lab.family

HeardIsReached ==
    Steady /\ Open =>
      LET dist == Distances IN
      \A d \in DOMAIN lab.inside :
        LET heard == FoldLeft(LAMBDA set, i : Hears(sessions, set),
                              {o \in Owners(d) : up.node[o]}, [i \in Nodes |-> i])
        IN  \A n \in heard : Trace(dist, n, d) = "delivered"

(* The scenario runs in the order of its times, events of one time in the  *)
(* order of the project, each at its own time, and none is skipped,        *)
(* repeated or left behind by the clock, whatever the calls that advance   *)
(* the clock.                                                              *)
EventsInOrder ==
    LET before(t, u) == t.at < u.at \/ (t.at = u.at /\ t.order < u.order)
        done == {t.order : t \in ToSet(ran)}
    IN  /\ \A i, j \in DOMAIN ran : i < j => before(ran[i], ran[j])
        /\ \A t \in ToSet(ran) : t.at <= now
        /\ phase # "disposed" =>
             /\ Len(ran) + Len(heap) = Len(lab.events)
             /\ done \cup {t.order : t \in ToSet(heap)} = DOMAIN lab.events
             /\ \A t \in ToSet(heap) : t.at >= now /\ \A u \in ToSet(ran) : before(u, t)
=============================================================================
