------------------------------ MODULE Scheduler ------------------------------
(***************************************************************************)
(* The heap of the discrete-event scheduler (src/core/scheduler.ts): tasks *)
(* are records with the time `at` and the number `order` in which they     *)
(* were scheduled.  Nothing cancels a task of the engine.                  *)
(* Sequences count from one here: the parent of i is i \div 2.             *)
(***************************************************************************)
EXTENDS Naturals, Sequences

(* Mutant: tasks of one time have no order. *)
LessByTime(a, b) == a.at < b.at

(* less. *)
Less(a, b) == a.at < b.at \/ (a.at = b.at /\ a.order < b.order)

Swapped(heap, i, j) == [heap EXCEPT ![i] = heap[j], ![j] = heap[i]]

(* push: the new task climbs while it is less than its parent. *)
RECURSIVE Up(_, _)
Up(heap, i) ==
    IF i > 1 /\ Less(heap[i], heap[i \div 2]) THEN Up(Swapped(heap, i, i \div 2), i \div 2)
                                              ELSE heap
Push(heap, task) == Up(Append(heap, task), Len(heap) + 1)

(* pop: the last task takes the place of the first and sinks below the     *)
(* smaller of its children, the left one of equals.                        *)
RECURSIVE Down(_, _)
Down(heap, i) ==
    LET left == IF 2 * i <= Len(heap) /\ Less(heap[2 * i], heap[i]) THEN 2 * i ELSE i
        least == IF 2 * i + 1 <= Len(heap) /\ Less(heap[2 * i + 1], heap[left]) THEN 2 * i + 1 ELSE left
    IN  IF least = i THEN heap ELSE Down(Swapped(heap, i, least), least)

Pop(heap) == LET rest == SubSeq(heap, 1, Len(heap) - 1) IN
    IF rest = <<>> THEN <<>> ELSE Down([rest EXCEPT ![1] = heap[Len(heap)]], 1)
=============================================================================
