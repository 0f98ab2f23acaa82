---------------------------- MODULE ControlOutput ----------------------------
(***************************************************************************)
(* The output side of the guest supervisor's control line: the ring buffer *)
(* of protocol.c and the poll loop of labd.c that fills and empties it     *)
(* (src/appliances/v86/buildroot/package/anycast-labd/src).  The loop is   *)
(* one thread; the actor it interleaves with is the console device, which  *)
(* takes as many bytes of a write as it likes.                             *)
(***************************************************************************)
EXTENDS Integers, Sequences

CONSTANTS
  Cap,         (* LABD_CONTROL_OUTPUT_BYTES                                  *)
  MaxLine,     (* LABD_MAX_PROTOCOL_OUTPUT_LINE                              *)
  MaxAttempts, (* Rounds of drain_control_output (20 in the code).           *)
  Byte,        (* The bytes: numbers.                                        *)
  Lines,       (* The lines that handlers emit.                              *)
  MaxLines     (* Bound: lines emitted in a run.                             *)

ASSUME OutputAssumption ==
  /\ Cap \in Nat \ {0} /\ MaxLine \in Nat /\ MaxAttempts \in Nat /\ MaxLines \in Nat
  /\ 0 \in Byte /\ Lines \subseteq Seq(Byte)

VARIABLES
  data, head, length, (* struct labd_output_queue                            *)
  failed,    (* control_output_failed                                        *)
  at,        (* where the supervisor is in its loop                          *)
  pollin,    (* the pass polls for input: nothing was pending when it began  *)
  stopping,  (* shutting_down                                                *)
  draining,  (* the loop is over: drain_control_output                       *)
  attempts,  (* rounds of drain_control_output                               *)
  lines,     (* lines emitted so far                                         *)
  wire,      (* history: bytes that write() has taken                        *)
  burst,     (* history: bytes that handlers emitted since the last moment   *)
             (* the loop found nothing pending                               *)
  overflow   (* history: a line was refused for want of room                 *)

ring == <<data, head, length>>
loop == <<pollin, stopping, draining, attempts>>
history == <<burst, overflow>>
vars == <<data, head, length, failed, at, pollin, stopping, draining, attempts, lines,
          wire, burst, overflow>>

Slots == 0 .. Cap - 1
Points == {"boot", "poll", "control", "input", "flush", "events", "handler", "signals",
           "drain", "wait", "exited"}

-----------------------------------------------------------------------------
Init ==
  /\ data = [i \in Slots |-> 0] /\ head = 0 /\ length = 0
  /\ failed = FALSE
  /\ at = "boot" /\ pollin = TRUE /\ stopping = FALSE
  /\ draining = FALSE /\ attempts = 0 /\ lines = 0
  /\ wire = <<>> /\ burst = 0 /\ overflow = FALSE

(* labd_output_enqueue: two copies, up to the end of the array and from its   *)
(* start.                                                                     *)
Enqueue(line) ==
  LET tail  == (head + length) % Cap
      first == IF Cap - tail > Len(line) THEN Len(line) ELSE Cap - tail
  IN  /\ data' = [i \in Slots |->
                    IF i >= tail /\ i < tail + first THEN line[i - tail + 1]
                    ELSE IF i < Len(line) - first THEN line[first + i + 1]
                    ELSE data[i]]
      /\ length' = length + Len(line)
      /\ UNCHANGED head

TooLong(line) == Len(line) > MaxLine
NoRoom(line) == Len(line) > Cap - length

(* A line that is emitted while nothing has failed is queued or refused       *)
(* (EMSGSIZE, ENOBUFS).                                                       *)
Queued(line) ==
  /\ burst' = burst + Len(line)
  /\ overflow' = (~TooLong(line) /\ NoRoom(line))
  /\ \/ (TooLong(line) \/ NoRoom(line)) /\ failed' = TRUE /\ UNCHANGED ring
     \/ ~TooLong(line) /\ ~NoRoom(line) /\ Enqueue(line) /\ UNCHANGED failed

(* Mutant of Emit: a line that was refused does not stop the later ones.      *)
EmitAnyway(line) ==
  /\ lines < MaxLines
  /\ lines' = lines + 1
  /\ Queued(line)

(* protocol_line: after a failure no line is queued any more.                 *)
Emit(line) ==
  /\ lines < MaxLines
  /\ lines' = lines + 1
  /\ \/ failed /\ UNCHANGED <<ring, failed, history>>
     \/ ~failed /\ Queued(line)

(* Nothing is pending: what handlers emit from here on is counted anew.       *)
CountAnew == burst' = (IF failed THEN burst ELSE 0) /\ UNCHANGED overflow

-----------------------------------------------------------------------------
(* main: the bootstrap, then passes over the polled descriptors.             *)

(* The bootstrap ends with READY, or with a log line when it fails.           *)
Boot(line, ok) ==
  /\ at = "boot"
  /\ Emit(line)
  /\ at' = IF ok THEN "poll" ELSE "drain"
  /\ draining' = ~ok
  /\ UNCHANGED <<pollin, stopping, attempts, wire>>

(* A pass polls the control line for output while output is pending, for      *)
(* input otherwise; a failing poll ends the loop.                             *)
Poll(ok) ==
  /\ at = "poll"
  /\ pollin' = (length = 0)
  /\ at' = IF ok THEN "control" ELSE "drain"
  /\ draining' = ~ok
  /\ IF length = 0 THEN CountAnew ELSE UNCHANGED history
  /\ UNCHANGED <<ring, failed, stopping, attempts, lines, wire>>

(* The control line: not ready, hung up, readable or writable.                *)
Control ==
  /\ at = "control"
  /\ \/ at' = "events" /\ UNCHANGED stopping
     \/ at' = "events" /\ stopping' = TRUE
     \/ pollin /\ at' = "input" /\ UNCHANGED stopping
     \/ ~pollin /\ at' = "flush" /\ UNCHANGED stopping
  /\ UNCHANGED <<ring, failed, pollin, draining, attempts, lines, wire, history>>

(* A handler emits a line: of consume_control_input, which handles every      *)
(* request of one read, of a node or terminal event, or of reap_children.     *)
HandlerEmits(line) ==
  /\ at \in {"input", "handler", "signals"}
  /\ Emit(line)
  /\ UNCHANGED <<at, loop, wire>>

(* consume_control_input returns; a malformed line or the end of the input    *)
(* ends the loop.                                                             *)
InputEnds(ok) ==
  /\ at = "input"
  /\ at' = "events"
  /\ stopping' = (stopping \/ ~ok)
  /\ UNCHANGED <<ring, failed, pollin, draining, attempts, lines, wire, history>>

(* Mutant of EventReady: an event is handled whatever is pending.             *)
EventReadyAlways == at = "events" /\ at' = "handler" /\ CountAnew

(* A node or terminal descriptor, polled in a pass for input, is handled only *)
(* while nothing is pending.                                                  *)
EventReady == at = "events" /\ pollin /\ length = 0 /\ at' = "handler" /\ CountAnew

Events ==
  /\ \/ EventReady
     \/ at = "events" /\ at' = "signals" /\ UNCHANGED history
     \/ at = "handler" /\ at' = "events" /\ UNCHANGED history
  /\ UNCHANGED <<ring, failed, loop, lines, wire>>

(* The signal descriptor is the last one of the pass; a termination signal,   *)
(* or a failure anywhere in the pass, ends the loop.                          *)
PassEnds(term) ==
  /\ at = "signals"
  /\ stopping' = (stopping \/ term \/ failed)
  /\ draining' = stopping'
  /\ at' = IF stopping' THEN "drain" ELSE "poll"
  /\ UNCHANGED <<ring, failed, pollin, attempts, lines, wire, history>>

-----------------------------------------------------------------------------
(* labd_output_flush, from the main loop or from drain_control_output.       *)

(* The bytes up to the end of the array.                                      *)
Contiguous == IF Cap - head > length THEN length ELSE Cap - head

(* write() takes n bytes.                                                     *)
Write(n) ==
  /\ at = "flush"
  /\ n \in 1 .. Contiguous
  /\ wire' = wire \o [i \in 1 .. n |-> data[head + i - 1]]
  /\ head' = (head + n) % Cap
  /\ length' = length - n
  /\ UNCHANGED <<data, failed, at, loop, lines, history>>

(* Where a flush returns to.                                                  *)
FlushReturns == at' = IF draining THEN "wait" ELSE "events"

(* The ring is empty: it starts again at its first slot.                      *)
FlushDone ==
  /\ at = "flush" /\ length = 0
  /\ head' = 0
  /\ FlushReturns
  /\ UNCHANGED <<data, length, failed, loop, lines, wire, history>>

(* Mutant of WriteBlocks: the ring starts again at its first slot.            *)
WriteBlocksReset ==
  /\ at = "flush" /\ length > 0
  /\ FlushReturns
  /\ head' = 0
  /\ UNCHANGED <<data, length, failed, loop, lines, wire, history>>

(* EAGAIN.                                                                    *)
WriteBlocks ==
  /\ at = "flush" /\ length > 0
  /\ FlushReturns
  /\ UNCHANGED <<ring, failed, loop, lines, wire, history>>

(* write() fails: the loop ends at the end of the pass; a drain ends at once. *)
WriteFails ==
  /\ at = "flush" /\ length > 0
  /\ IF draining
     THEN at' = "exited" /\ UNCHANGED <<failed, stopping>>
     ELSE at' = "events" /\ failed' = TRUE /\ stopping' = TRUE
  /\ UNCHANGED <<ring, pollin, draining, attempts, lines, wire, history>>

-----------------------------------------------------------------------------
(* Mutant of DrainRound: the rounds are not counted.                          *)
DrainRoundForever ==
  /\ at = "drain"
  /\ at' = IF length > 0 THEN "flush" ELSE "exited"
  /\ UNCHANGED <<ring, failed, loop, lines, wire, history>>

(* drain_control_output: a round flushes, unless nothing is pending.          *)
DrainRound ==
  /\ at = "drain"
  /\ IF attempts < MaxAttempts /\ length > 0
     THEN at' = "flush" /\ attempts' = attempts + 1
     ELSE at' = "exited" /\ UNCHANGED attempts
  /\ UNCHANGED <<ring, failed, pollin, stopping, draining, lines, wire, history>>

(* It waits up to 50 ms for the device to take more.                          *)
DrainWaits(ready) ==
  /\ at = "wait"
  /\ at' = IF ready /\ length > 0 THEN "drain" ELSE "exited"
  /\ UNCHANGED <<ring, failed, loop, lines, wire, history>>

-----------------------------------------------------------------------------
Step == \/ \E line \in Lines, ok \in BOOLEAN : Boot(line, ok)
        \/ \E ok \in BOOLEAN : Poll(ok) \/ InputEnds(ok) \/ PassEnds(ok) \/ DrainWaits(ok)
        \/ Control \/ Events
        \/ \E line \in Lines : HandlerEmits(line)
        \/ \E n \in 1 .. Cap : Write(n)
        \/ FlushDone \/ WriteBlocks \/ WriteFails
        \/ DrainRound

Next == Step

(* Draining: write() returns (a signal that interrupts it is not repeated     *)
(* forever) and poll() has a timeout.                                         *)
DrainSteps == /\ draining
              /\ \/ DrainRound \/ FlushDone \/ WriteBlocks \/ WriteFails
                 \/ \E n \in 1 .. Cap : Write(n)
                 \/ \E ready \in BOOLEAN : DrainWaits(ready)

Spec == Init /\ [][Next]_vars
FairSpec == Spec /\ WF_vars(DrainSteps)

-----------------------------------------------------------------------------
(* Properties. *)

(* Types of the ring and of the loop.                                         *)
TypeOK ==
  /\ data \in [Slots -> Byte]
  /\ head \in Slots
  /\ length \in 0 .. Cap
  /\ at \in Points
  /\ failed \in BOOLEAN /\ pollin \in BOOLEAN /\ stopping \in BOOLEAN /\ draining \in BOOLEAN
  /\ attempts \in 0 .. MaxAttempts /\ lines \in 0 .. MaxLines
  /\ wire \in Seq(Byte)
  /\ burst \in Nat /\ overflow \in BOOLEAN

(* Input, nodes and terminals wait while output is pending: however long they *)
(* go on, a line that is not too long is refused only when what one of them   *)
(* emitted, with the children reaped since, exceeds the whole ring.           *)
OverflowNeedsBurst == overflow => burst > Cap

(* The pending bytes, oldest first.                                           *)
Contents == [i \in 1 .. length |-> data[(head + i - 1) % Cap]]

Queue == INSTANCE OutputQueue WITH
  Capacity <- Cap, queue <- Contents, closed <- failed

(* The ring with its partial writes, wrap-around and reset of head is the     *)
(* bounded queue of whole lines: nothing is reordered, repeated or cut, and   *)
(* nothing follows a line that was lost.                                      *)
ImplementsQueue == Queue!Spec

(* A browser that stops reading does not hold up the supervisor's end.        *)
DrainEnds == draining ~> at = "exited"
=============================================================================
