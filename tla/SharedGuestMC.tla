---------------------------- MODULE SharedGuestMC ----------------------------
(* Values of SharedGuest's constants that a .cfg cannot write.                *)
EXTENDS SharedGuest

(* The engine's client, one call at a time: every fault but a stop that labd  *)
(* fails, and one timer that fires early.                                     *)
Loops == [client |-> "serial", timeouts |-> 1,
          faults |-> AllFaults \ {"STOP_FAILED"}]

(* Nodes are released while other calls are outstanding on them, and labd may *)
(* fail to stop a node.                                                       *)
Releases == [client |-> "any", faults |-> {"STOP_FAILED"}, timeouts |-> 0]

(* The user toggles nodes, and nodes exit.                                    *)
Toggles == [client |-> "node", faults |-> {"exit"}, timeouts |-> 0]

EngineUses == {Loops, Releases}
UserUses == {Toggles}
=============================================================================
