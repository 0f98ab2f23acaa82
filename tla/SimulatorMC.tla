----------------------------- MODULE SimulatorMC -----------------------------
(***************************************************************************)
(* Small labs for the compatibility simulator.                             *)
(***************************************************************************)
EXTENDS Simulator

Link(a, b, latency) == [a |-> a, b |-> b, latency |-> latency]
Family == [p |-> 1, q |-> 1, agg |-> 1, all |-> 1, six |-> 2]
Every == DOMAIN Family

(* Both ends of a session, with every prefix allowed. *)
Speaker(node, as, peer, peerAs) ==
    [node |-> node, instance |-> "bgp", as |-> as, peer |-> peer, peerAs |-> peerAs, families |-> {1},
     import |-> Every, export |-> Every, networks |-> Every, client |-> FALSE]
Pair(a, b) == <<Speaker(a, a, b, b), Speaker(b, b, a, a)>>
Router(node) == [node |-> node, family |-> 1, area |-> 0]
Event(at, kind, id, upNow) == [at |-> at, kind |-> kind, id |-> id, up |-> upNow]

Empty == [nodes |-> 4, switches |-> {}, links |-> <<>>, family |-> Family,
          serves |-> [n \in 1 .. 4 |-> {}], statics |-> {}, bgp |-> <<>>, ospf |-> <<>>,
          inside |-> [p |-> <<"p", "agg", "all">>], events |-> <<>>,
          uses |-> [converge |-> 2, toggle |-> 2, edit |-> 1, run |-> 1]]

(* An anycast prefix at two points of presence, behind a transit and a     *)
(* client with a default route; one point goes down while sessions rise.   *)
Anycast == [Empty EXCEPT
    !.links = <<Link(1, 2, 1), Link(2, 3, 10), Link(2, 4, 5)>>,
    !.serves = [n \in 1 .. 4 |-> IF n > 2 THEN {"p"} ELSE {}],
    !.statics = {[node |-> 1, prefix |-> "all", hop |-> 2]},
    !.bgp = Pair(2, 3) \o Pair(2, 4),
    !.events = <<Event(300, "link", 3, TRUE), Event(115, "node", 4, FALSE), Event(300, "link", 3, FALSE)>>]

(* A ring of OSPF routers with one slow link. *)
OspfRing == [Empty EXCEPT
    !.links = <<Link(1, 2, 1), Link(2, 3, 1), Link(3, 4, 1), Link(4, 1, 10)>>,
    !.serves = [n \in 1 .. 4 |-> IF n = 1 THEN {"p"} ELSE {}],
    !.ospf = [n \in 1 .. 4 |-> Router(n)], !.uses.edit = 0,
    !.events = <<Event(70, "link", 2, FALSE), Event(70, "link", 2, TRUE), Event(60, "link", 4, FALSE),
                 Event(50, "node", 3, FALSE), Event(65, "node", 3, TRUE), Event(130, "link", 1, FALSE)>>]

(* A ring of four autonomous systems. *)
BgpRing == [Empty EXCEPT
    !.links = <<Link(1, 2, 1), Link(2, 3, 1), Link(3, 4, 1), Link(4, 1, 10)>>,
    !.serves = [n \in 1 .. 4 |-> IF n = 1 THEN {"p"} ELSE {}],
    !.bgp = Pair(1, 2) \o Pair(2, 3) \o Pair(3, 4) \o Pair(4, 1)]

(* A route server and its two clients on a switch. *)
RouteServer == [Empty EXCEPT
    !.switches = {4}, !.uses.edit = 2,
    !.links = <<Link(1, 4, 1), Link(2, 4, 2), Link(3, 4, 3)>>,
    !.serves = [n \in 1 .. 4 |-> IF n = 2 THEN {"p"} ELSE {}],
    !.bgp = <<[Speaker(1, 1, 2, 2) EXCEPT !.client = TRUE], [Speaker(1, 1, 3, 3) EXCEPT !.client = TRUE],
              Speaker(2, 2, 1, 1), Speaker(3, 3, 1, 1)>>]

(* OSPF inside, BGP outside: node 2 announces an aggregate that it holds   *)
(* as a blackhole, and has its default route to the neighbour that hears   *)
(* it.                                                                     *)
Aggregate == [Empty EXCEPT
    !.nodes = 3,
    !.links = <<Link(1, 2, 1), Link(2, 3, 4)>>,
    !.serves = [n \in 1 .. 3 |-> IF n = 1 THEN {"p"} ELSE {}],
    !.statics = {[node |-> 2, prefix |-> "agg", hop |-> 0], [node |-> 2, prefix |-> "all", hop |-> 3]},
    !.ospf = <<Router(1), Router(2)>>,
    !.bgp = <<[Speaker(2, 2, 3, 3) EXCEPT !.export = {"agg"}], Speaker(3, 3, 2, 2)>>]

MCLabs == {Anycast, OspfRing, BgpRing, RouteServer, Aggregate}
MCTimes == {65, 300}
=============================================================================
