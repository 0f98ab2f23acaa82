----------------------------- MODULE OutputQueue -----------------------------
(***************************************************************************)
(* What the guest supervisor promises the browser about its control line:  *)
(* a bounded first-in first-out queue of whole protocol lines, from which  *)
(* the bytes leave in order, and which once it has refused a line accepts  *)
(* no later one: the browser never sees a gap.                             *)
(***************************************************************************)
EXTENDS Integers, Sequences

CONSTANTS
  Capacity, (* Bytes that the queue holds.                                   *)
  Lines     (* The protocol lines, each a sequence of bytes.                 *)

VARIABLES
  queue,    (* bytes accepted and not yet written                            *)
  wire,     (* bytes written, in the order the browser receives them         *)
  closed    (* a line was refused or a write failed: nothing more is accepted*)

vars == <<queue, wire, closed>>

Init == queue = <<>> /\ wire = <<>> /\ closed = FALSE

Accept(line) ==
  /\ ~closed
  /\ Len(queue) + Len(line) <= Capacity
  /\ queue' = queue \o line
  /\ UNCHANGED <<wire, closed>>

Deliver(n) ==
  /\ wire' = wire \o SubSeq(queue, 1, n)
  /\ queue' = SubSeq(queue, n + 1, Len(queue))
  /\ UNCHANGED closed

Close == closed' = TRUE /\ UNCHANGED <<queue, wire>>

Next == \/ \E line \in Lines : Accept(line)
        \/ \E n \in 1 .. Len(queue) : Deliver(n)
        \/ Close

Spec == Init /\ [][Next]_vars
=============================================================================
