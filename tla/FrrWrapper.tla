----------------------------- MODULE FrrWrapper -----------------------------
(***************************************************************************)
(* The shell program that runs FRR in a node's namespace                   *)
(* (FRR_WRAPPER_SOURCE in src/src/native/boot.ts): it starts FRR as a job  *)
(* in a session of its own, waits for the status that the job leaves, then *)
(* for watchfrr, and from then on shows in a file whether watchfrr is      *)
(* there.                                                                  *)
(*                                                                         *)
(* The job, watchfrr, the stop command and the supervisor that signals     *)
(* the wrapper take their steps between any two tests of the wrapper.  A   *)
(* child that exited can still be signalled until the shell has reaped it, *)
(* which it does whenever it has waited for another child, a sleep.  A     *)
(* trap runs when the sleep of the moment is over.                         *)
(***************************************************************************)
EXTENDS Integers

CONSTANTS
  SessionWait,  (* 5: sleeps for the file of the session                     *)
  StartWait,    (* 75: sleeps for the status of the start                    *)
  Grace,        (* 5: sleeps between a request to end and a KILL             *)
  ReadyBudget,  (* 90: sleeps for the start and for watchfrr together        *)
  Tolerated,    (* 3: failed probes that make a failure                      *)
  MaxSignals    (* Bound: signals of the supervisor                          *)

ASSUME FrrWrapperAssumption ==
  /\ {SessionWait, StartWait, Grace, MaxSignals} \subseteq Nat
  /\ ReadyBudget \in Nat /\ StartWait < ReadyBudget /\ Tolerated \in Nat \ {0}

VARIABLES
  at,       (* where the wrapper is                                          *)
  after,    (* what follows terminate_start_job                              *)
  sleeps,   (* the counter of the loop that it is in                         *)
  elapsed,  (* start_elapsed                                                 *)
  adopted,  (* start_pid is set                                              *)
  job,      (* the start job: "none", "launched", "running", "wrote",        *)
            (* "gone", "reaped"                                              *)
  session,  (* start_session_file is there                                   *)
  done,     (* start_done_file: "none", "ok" or "bad" (also after the cleanup)   *)
  watch,    (* watchfrr is "none", "up" or "down"                            *)
  stopper,  (* the stop command: "none", "running", "gone", "reaped"         *)
  ready,    (* frr.ready is there                                            *)
  failure,  (* the failure file: "none", or what it says                     *)
  trapped,  (* the traps are set                                             *)
  signals   (* signals sent, and whether one waits for its trap              *)

frrVars == <<at, after, sleeps, elapsed, adopted, job, session, done, watch, stopper,
             ready, failure, trapped, signals>>
world == <<job, session, done, watch, stopper, signals>>
shown == <<ready, failure>>

Gone == {"none", "gone", "reaped"}
Over == {"exited", "killed"}

(* The wrapper is at p and no trap is due.                                    *)
At(p) == at = p /\ ~signals.due

(* A sleep ends: children that exited are reaped.                             *)
Reaped(child) == IF child = "gone" THEN "reaped" ELSE child
Sleeps == job' = Reaped(job) /\ stopper' = Reaped(stopper)

InitFrr ==
  /\ at = "session" /\ after = "none" /\ sleeps = 0 /\ elapsed = 0 /\ adopted = FALSE
  /\ job = "launched" /\ session = FALSE /\ done = "none" /\ watch = "none"
  /\ stopper = "none" /\ ready = FALSE /\ failure = "none"
  /\ trapped = TRUE /\ signals = [sent |-> 0, due |-> FALSE]

-----------------------------------------------------------------------------
(* The start.                                                                 *)

(* while [ ! -f start_session_file ]: the job's own number, or the launcher's *)
AwaitSession ==
  /\ At("session") /\ ~session /\ sleeps < SessionWait
  /\ sleeps' = sleeps + 1 /\ Sleeps
  /\ UNCHANGED <<at, after, elapsed, adopted, session, done, watch, shown, trapped, signals>>

Adopt ==
  /\ At("session") /\ (session \/ sleeps = SessionWait)
  /\ adopted' = TRUE /\ at' = "start"
  /\ UNCHANGED <<after, sleeps, elapsed, world, shown, trapped>>

(* while [ ! -f start_done_file ] && [ start_elapsed -lt 75 ]                 *)
AwaitStart ==
  /\ At("start")
  /\ at' = IF done = "none" /\ elapsed < StartWait THEN "alive" ELSE "recheck"
  /\ UNCHANGED <<after, sleeps, elapsed, adopted, world, shown, trapped>>

(* if ! kill -0 start_pid; then break                                         *)
CheckAlive ==
  /\ At("alive")
  /\ at' = IF job = "reaped" THEN "recheck" ELSE "nap"
  /\ UNCHANGED <<after, sleeps, elapsed, adopted, world, shown, trapped>>

Nap ==
  /\ At("nap") /\ at' = "start" /\ elapsed' = elapsed + 1 /\ Sleeps
  /\ UNCHANGED <<after, sleeps, adopted, session, done, watch, shown, trapped, signals>>

(* Mutant: a job that is gone is taken to have left nothing.                  *)
RecheckNothing ==
  /\ At("recheck")
  /\ IF elapsed = StartWait \/ job = "reaped"
     THEN /\ at' = "terminate" /\ after' = IF elapsed = StartWait THEN "timeout" ELSE "exited"
     ELSE at' = "reap" /\ UNCHANGED after
  /\ UNCHANGED <<sleeps, elapsed, adopted, world, shown, trapped>>

(* if [ ! -f start_done_file ]: the job has not left its status even now.     *)
Recheck ==
  /\ At("recheck")
  /\ IF done = "none"
     THEN /\ at' = "terminate" /\ after' = IF elapsed = StartWait THEN "timeout" ELSE "exited"
     ELSE at' = "reap" /\ UNCHANGED after
  /\ UNCHANGED <<sleeps, elapsed, adopted, world, shown, trapped>>

(* wait start_launcher_pid, and the status that it left.                      *)
Reap ==
  /\ At("reap") /\ job \in Gone
  /\ job' = "none" /\ adopted' = FALSE /\ sleeps' = 0
  /\ IF done = "ok" THEN at' = "probe" /\ UNCHANGED failure
     ELSE at' = "cleanup" /\ failure' = "failed"
  /\ UNCHANGED <<after, elapsed, session, done, watch, stopper, ready, trapped, signals>>

(* The readiness loop has what the start left of its budget, one try at least.*)
Probe ==
  /\ At("probe")
  /\ IF watch = "up"
     THEN at' = "health" /\ ready' = TRUE /\ sleeps' = 0 /\ UNCHANGED <<job, stopper, failure>>
     ELSE /\ sleeps' = sleeps + 1 /\ Sleeps
          /\ IF sleeps + 1 < ReadyBudget - elapsed
             THEN UNCHANGED <<at, shown>>
             ELSE at' = "cleanup" /\ failure' = "unready" /\ UNCHANGED ready
  /\ UNCHANGED <<after, elapsed, adopted, session, done, watch, trapped, signals>>

(* Mutant: a failure that was shown stays.                                    *)
HealthUncleared ==
  /\ At("health") /\ Sleeps
  /\ IF watch = "up" THEN sleeps' = 0 /\ UNCHANGED failure
     ELSE /\ sleeps' = IF sleeps < Tolerated THEN sleeps + 1 ELSE Tolerated
          /\ failure' = IF sleeps + 1 < Tolerated THEN failure ELSE "health"
  /\ UNCHANGED <<at, after, elapsed, adopted, session, done, watch, ready, trapped, signals>>

(* The health loop: sleep 2, and a probe.                                     *)
Health ==
  /\ At("health") /\ Sleeps
  /\ IF watch = "up" THEN sleeps' = 0 /\ failure' = "none"
     ELSE /\ sleeps' = IF sleeps < Tolerated THEN sleeps + 1 ELSE Tolerated
          /\ failure' = IF sleeps + 1 < Tolerated THEN failure ELSE "health"
  /\ UNCHANGED <<at, after, elapsed, adopted, session, done, watch, ready, trapped, signals>>

-----------------------------------------------------------------------------
(* The end.                                                                   *)

(* terminate_start_job: TERM if the job's number is known ...                 *)
Terminate ==
  /\ At("terminate")
  /\ sleeps' = 0 /\ at' = IF adopted THEN "grace" ELSE "join"
  /\ UNCHANGED <<after, elapsed, adopted, world, shown, trapped>>

Wait ==
  /\ At("grace") /\ job # "reaped" /\ sleeps < Grace
  /\ sleeps' = sleeps + 1 /\ Sleeps
  /\ UNCHANGED <<at, after, elapsed, adopted, session, done, watch, shown, trapped, signals>>

(* ... and KILL in the end, whether or not it is gone ...                     *)
KillJob ==
  /\ At("grace") /\ (job = "reaped" \/ sleeps = Grace)
  /\ at' = "join" /\ job' = IF job \in Gone THEN job ELSE "gone"
  /\ UNCHANGED <<after, sleeps, elapsed, adopted, session, done, watch, stopper, shown, trapped, signals>>

(* ... and wait for it.  A failure of the start is recorded, and the exit     *)
(* runs its trap; in the trap itself, the stop follows.                       *)
Join ==
  /\ At("join") /\ job \in Gone
  /\ job' = "none" /\ adopted' = FALSE /\ sleeps' = 0
  /\ IF after = "stop" THEN at' = "stop" /\ ready' = FALSE /\ UNCHANGED failure
     ELSE at' = "cleanup" /\ failure' = after /\ UNCHANGED ready
  /\ UNCHANGED <<after, elapsed, session, done, watch, stopper, trapped, signals>>

(* cleanup: no further trap, the start job, the files, the daemons.           *)
Cleanup ==
  /\ At("cleanup")
  /\ trapped' = FALSE /\ at' = "terminate" /\ after' = "stop"
  /\ UNCHANGED <<sleeps, elapsed, adopted, world, shown>>

(* trap 'exit 0' INT TERM; a signal that finds no trap ends the shell.        *)
Signalled ==
  /\ signals.due /\ at \notin Over
  /\ signals' = [signals EXCEPT !.due = FALSE]
  /\ at' = IF trapped THEN "cleanup" ELSE "killed"
  /\ UNCHANGED <<after, sleeps, elapsed, adopted, job, session, done, watch, stopper, shown, trapped>>

(* stop_daemons: in the background and for a while, or, in a build that       *)
(* collects profiles, for as long as the stop command takes.                  *)
Stop ==
  /\ At("stop") /\ at' \in {"stopping", "waiting"} /\ stopper' = "running"
  /\ UNCHANGED <<after, sleeps, elapsed, adopted, job, session, done, watch, shown, trapped, signals>>

Stopping ==
  /\ At("stopping") /\ stopper # "reaped" /\ sleeps < Grace
  /\ sleeps' = sleeps + 1 /\ Sleeps
  /\ UNCHANGED <<at, after, elapsed, adopted, session, done, watch, shown, trapped, signals>>

Exit ==
  /\ \/ At("stopping") /\ (stopper = "reaped" \/ sleeps = Grace)
     \/ At("waiting") /\ stopper \in Gone
  /\ at' = "exited" /\ stopper' = "none"
  /\ UNCHANGED <<after, sleeps, elapsed, adopted, job, session, done, watch, shown, trapped, signals>>

-----------------------------------------------------------------------------
(* The others.                                                                *)

wrapper == <<at, after, sleeps, elapsed, adopted, shown, trapped>>

(* The session shell of the job: its number, FRR's start, its status.         *)
JobBegins ==
  /\ job = "launched" /\ job' = "running" /\ session' = TRUE
  /\ UNCHANGED <<wrapper, done, watch, stopper, signals>>

JobWrites ==
  /\ job = "running" /\ job' = "wrote"
  /\ \/ done' = "ok" /\ watch' = "up"
     \/ done' = "bad" /\ UNCHANGED watch
  /\ UNCHANGED <<wrapper, session, stopper, signals>>

(* It exits, or something ends it before.                                     *)
JobEnds ==
  /\ job \in {"launched", "running", "wrote"} /\ job' = "gone"
  /\ UNCHANGED <<wrapper, session, done, watch, stopper, signals>>

(* watchfrr dies, or somebody repairs it.                                     *)
WatchTurns ==
  /\ watch # "none" /\ watch' = IF watch = "up" THEN "down" ELSE "up"
  /\ UNCHANGED <<wrapper, job, session, done, stopper, signals>>

StopEnds ==
  /\ stopper = "running" /\ stopper' = "gone"
  /\ watch' = IF watch = "none" THEN "none" ELSE "down"
  /\ UNCHANGED <<wrapper, job, session, done, signals>>

(* The supervisor stops the node.                                             *)
Signal ==
  /\ signals.sent < MaxSignals /\ at \notin Over
  /\ signals' = [sent |-> signals.sent + 1, due |-> TRUE]
  /\ UNCHANGED <<wrapper, job, session, done, watch, stopper>>

Shell ==
  \/ AwaitSession \/ Adopt \/ AwaitStart \/ CheckAlive \/ Nap \/ Recheck \/ Reap
  \/ Probe \/ Health \/ Terminate \/ Wait \/ KillJob \/ Join \/ Cleanup \/ Signalled
  \/ Stop \/ Stopping \/ Exit

World == JobBegins \/ JobWrites \/ JobEnds \/ WatchTurns \/ StopEnds \/ Signal
=============================================================================
