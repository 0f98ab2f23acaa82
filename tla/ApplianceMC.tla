---------------------------- MODULE ApplianceMC ----------------------------
(* Clients for TLC: one that sends in order through two starts, one whose  *)
(* guest fails and refuses, one that starts over, one that reads, and one   *)
(* that sends everything at any time.                                       *)
EXTENDS Appliance

None == [op \in Ops |-> 0]
With(counts) == [op \in Ops |-> IF op \in DOMAIN counts THEN counts[op] ELSE 0]

MCPlans ==
    {[inOrder |-> TRUE, faults |-> {},
      budget |-> With([initialize |-> 1, start |-> 2, write |-> 2, link |-> 1, stop |-> 1])],
     [inOrder |-> TRUE, faults |-> {"refuse", "exit"},
      budget |-> With([initialize |-> 1, start |-> 1, write |-> 1, read |-> 1, link |-> 1, collect |-> 1, dispose |-> 1])],
     [inOrder |-> TRUE, faults |-> {"init", "exit"},
      budget |-> With([initialize |-> 2, start |-> 2, write |-> 1, collect |-> 1, stop |-> 1, dispose |-> 2])],
     [inOrder |-> TRUE, faults |-> {},
      budget |-> With([initialize |-> 1, start |-> 1, write |-> 2, read |-> 2])],
     [inOrder |-> FALSE, faults |-> {},
      budget |-> With([initialize |-> 2, start |-> 1, write |-> 1, read |-> 1, stop |-> 1, dispose |-> 1])]}
=============================================================================
