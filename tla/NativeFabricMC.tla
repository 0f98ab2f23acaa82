--------------------------- MODULE NativeFabricMC ---------------------------
(* Small projects for NativeFabric.                                          *)
EXTENDS NativeFabric

(* What a step of the shared runtime returns, as the engine sees it.         *)
Nothing == [items |-> 0, next |-> Never, immediate |-> FALSE]
(* Runtimes that poll, once or again and again, or work without a pause.     *)
Polling == {Nothing, [items |-> 0, next |-> 0, immediate |-> FALSE],
            [items |-> 1, next |-> Never, immediate |-> TRUE]}
(* Two switches in a row, a host at each and a third at the second.          *)
Line == [hosts |-> <<"a", "b", "c">>, switches |-> {"s", "t"},
         ports |-> [a |-> 1, b |-> 1, c |-> 1, s |-> 2, t |-> 3],
         ends |-> [as |-> <<<<"a", 1>>, <<"s", 1>>>>,
                   st |-> <<<<"s", 2>>, <<"t", 1>>>>,
                   tb |-> <<<<"t", 2>>, <<"b", 1>>>>,
                   tc |-> <<<<"t", 3>>, <<"c", 1>>>>],
         delay |-> [as |-> {1}, st |-> {0}, tb |-> {1}, tc |-> {0}],
         lossy |-> {}, tree |-> TRUE, fragile |-> {}, weak |-> {}, toggles |-> 0,
         talk |-> {<<"a", "c">>, <<"c", "a">>, <<"a", Broadcast>>, <<"b", "a">>}, advances |-> 1, rejects |-> {},
         steps |-> [h \in {"a", "b", "c"} |-> {Nothing}]]

(* Three switches in a ring, with a host at two of them.                     *)
Ring == [hosts |-> <<"a", "b">>, switches |-> {"s", "t", "u"},
         ports |-> [a |-> 1, b |-> 1, s |-> 3, t |-> 3, u |-> 2],
         ends |-> [as |-> <<<<"a", 1>>, <<"s", 1>>>>,
                   st |-> <<<<"s", 2>>, <<"t", 1>>>>,
                   tu |-> <<<<"t", 2>>, <<"u", 1>>>>,
                   us |-> <<<<"u", 2>>, <<"s", 3>>>>,
                   tb |-> <<<<"t", 3>>, <<"b", 1>>>>],
         delay |-> [as |-> {0}, st |-> {0}, tu |-> {1}, us |-> {0}, tb |-> {1}],
         lossy |-> {}, tree |-> FALSE, fragile |-> {"st", "u"}, weak |-> {"a"}, toggles |-> 1,
         talk |-> {<<"a", Broadcast>>, <<"b", "a">>}, advances |-> 0, rejects |-> {},
         steps |-> [h \in {"a", "b"} |-> {Nothing}]]

(* A direct link with loss and jitter.                                       *)
Direct == [hosts |-> <<"a", "b">>, switches |-> {},
           ports |-> [a |-> 1, b |-> 1],
           ends |-> [ab |-> <<<<"a", 1>>, <<"b", 1>>>>],
           delay |-> [ab |-> {0, 1}], lossy |-> {"ab"}, tree |-> TRUE, fragile |-> {"ab"}, weak |-> {"b"}, toggles |-> 1,
           talk |-> {<<"a", "b">>, <<"b", Broadcast>>}, advances |-> 0, rejects |-> {},
           steps |-> [a |-> Polling, b |-> {Nothing}]]

(* The row again, where a host may reject what it receives.                  *)
Refusing == [Line EXCEPT !.rejects = {"c"}, !.talk = {<<"a", "c">>, <<"a", Broadcast>>, <<"b", "a">>}]

Projects == {Line, Ring, Direct, Refusing}

=============================================================================
