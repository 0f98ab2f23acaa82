------------------------------ MODULE Autosave ------------------------------
(***************************************************************************)
(* AutosaveCoordinator (src/src/persistence/autosave.ts) over one project  *)
(* of the repository (src/src/persistence/repository.ts), which another    *)
(* tab of the browser writes too.                                          *)
(*                                                                         *)
(* A snapshot handed to schedule() is a number: edits are numbered in the  *)
(* order they are scheduled, and 0 stands for `undefined`.  An action is a *)
(* macrotask with the microtasks it releases.  When a drain settles, its   *)
(* owner's `finally` runs first (it awaited the promise first), then the   *)
(* flushes that wait on the same promise, in the order they were called.   *)
(***************************************************************************)
EXTENDS Integers, Sequences, FiniteSets

CONSTANTS
  MaxEdits,   (* Bound: calls of schedule().                                 *)
  MaxWaiters, (* Bound: flushes waiting on one drain.                        *)
  MaxForeign, (* Bound: writes and deletions by the other tab.               *)
  Delays      (* The options: TRUE if delayMs > 0 (a timer), FALSE if it is 0*)
              (* (as in App.tsx: schedule() flushes at once).                *)

ASSUME AutosaveAssumption ==
  /\ MaxEdits \in Nat /\ MaxWaiters \in Nat /\ MaxForeign \in Nat
  /\ Delays \subseteq BOOLEAN

None == 0
LastWriterWins == -1          (* No revision is expected of the project.     *)
Edits == 1 .. MaxEdits
Revisions == Nat              (* 0: the project is not stored.               *)
Expectations == Revisions \cup {LastWriterWins}
Statuses == {"idle", "scheduled", "saving", "saved", "error", "disposed"}
Flushes == [kind : {"auto", "flush", "dispose"}, upto : Edits \cup {None}]
Drains == [id : Edits, snap : Edits, at : {"sent", "stored"}, owner : Flushes,
           expect : Expectations, fresh : BOOLEAN, revision : Revisions]

VARIABLES
  delayed,   (* delayMs > 0                                                  *)
  pending,   (* the snapshot to save next                                    *)
  timer,     (* timer # undefined                                            *)
  promise,   (* drainPromise: the id of a drain                              *)
  drains,    (* drain() calls that await repository.save: id is the drain's  *)
             (* first snapshot, snap its current one, expect the revision    *)
             (* passed to save, fresh whether that entry is still in the map *)
  waiters,   (* flush() calls that await drainPromise                        *)
  expected,  (* the project's entry of expectedRevisions                     *)
  status,    (* state.status                                                 *)
  disposed,  (* disposed                                                     *)
  stored,    (* revision of the record in the repository                     *)
  foreign,   (* writes and deletions by the other tab so far                 *)
  last,      (* history: the latest edit scheduled                           *)
  durable,   (* history: the edit this coordinator stored last               *)
  dropped,   (* history: edits up to this one were dropped on purpose        *)
  vouched,   (* history: the edits that a flush answered for by resolving    *)
             (* while they were neither stored nor dropped                   *)
  reported,  (* history: the latest edit when a failure was last reported    *)
  seen,      (* history: the stored record was read or written by this tab   *)
  deleted    (* history: the other tab has deleted the project               *)

options == delayed
repository == <<stored, foreign, durable, seen, deleted>>
vars == <<delayed, pending, timer, promise, drains, waiters, expected, status,
          disposed, stored, foreign, last, durable, dropped, vouched, reported,
          seen, deleted>>

-----------------------------------------------------------------------------
Init ==
  /\ delayed \in Delays
  /\ pending = None /\ timer = FALSE /\ promise = None /\ drains = {} /\ waiters = <<>>
  /\ stored \in {0, 1} /\ expected = stored
  /\ status = "idle" /\ disposed = FALSE
  /\ foreign = 0 /\ seen = TRUE /\ deleted = FALSE
  /\ last = None /\ durable = None /\ dropped = None /\ vouched = {} /\ reported = None

(* A drain that has just taken snapshot p and called repository.save.         *)
Drain(id, p, owner, expect) ==
  [id |-> id, snap |-> p, at |-> "sent", owner |-> owner, expect |-> expect,
   fresh |-> TRUE, revision |-> 0]

(* The flushes of S resolve, the coordinator being in status st; a dispose()  *)
(* among them ends the coordinator.                                           *)
Resolve(S, st) ==
  LET ends == \E f \in S : f.kind = "dispose"
      calls == {f \in S : f.kind # "auto" /\ f.upto > durable /\ f.upto > dropped}
  IN  /\ vouched' = vouched \cup {f.upto : f \in calls}
      /\ disposed' = (disposed \/ ends)
      /\ status' = IF ends THEN "disposed" ELSE st

(* flush() with p pending and edits up to `upto` scheduled, in status st.     *)
FlushFrom(kind, p, upto, st) ==
  LET flush == [kind |-> kind, upto |-> upto]
  IN  /\ timer' = FALSE
      /\ \/ /\ promise # None
            /\ Len(waiters) < MaxWaiters
            /\ waiters' = Append(waiters, flush)
            /\ pending' = p
            /\ status' = st
            /\ UNCHANGED <<promise, drains, vouched, disposed>>
         \/ /\ promise = None /\ p = None
            /\ pending' = p
            /\ Resolve({flush}, st)
            /\ UNCHANGED <<promise, drains, waiters>>
         \/ /\ promise = None /\ p # None
            /\ pending' = None
            /\ promise' = p
            /\ drains' = drains \cup {Drain(p, p, flush, expected)}
            /\ status' = "saving"
            /\ UNCHANGED <<waiters, vouched, disposed>>

-----------------------------------------------------------------------------
(* The calls of the client, which makes none once it has called dispose().    *)
Outstanding == {waiters[i] : i \in DOMAIN waiters} \cup {d.owner : d \in drains}
Open == ~disposed /\ \A f \in Outstanding : f.kind # "dispose"

(* schedule(): the snapshot replaces a pending one; with no delay it is       *)
(* flushed at once.                                                           *)
Schedule ==
  LET v  == last + 1
      st == IF promise = None THEN "scheduled" ELSE "saving"
  IN  /\ Open
      /\ v \in Edits
      /\ last' = v
      /\ \/ /\ delayed
            /\ pending' = v
            /\ timer' = TRUE
            /\ status' = st
            /\ UNCHANGED <<promise, drains, waiters, vouched, disposed>>
         \/ ~delayed /\ FlushFrom("auto", v, v, st)
      /\ UNCHANGED <<options, expected, repository, dropped, reported>>

TimerFires ==
  /\ timer
  /\ FlushFrom("auto", pending, last, status)
  /\ UNCHANGED <<options, expected, repository, last, dropped, reported>>

Flush ==
  /\ Open
  /\ FlushFrom("flush", pending, last, status)
  /\ UNCHANGED <<options, expected, repository, last, dropped, reported>>

(* cancel(): a save in flight is not touched.                                 *)
Cancel ==
  /\ Open
  /\ timer' = FALSE
  /\ pending' = None
  /\ status' = "idle"
  /\ dropped' = last
  /\ UNCHANGED <<options, promise, drains, waiters, expected, disposed, repository,
                 last, vouched, reported>>

(* dispose(): flushes, and is disposed when that flush resolves.              *)
Dispose ==
  /\ Open
  /\ FlushFrom("dispose", pending, last, status)
  /\ UNCHANGED <<options, expected, repository, last, dropped, reported>>

(* dispose({ flush: false })                                                  *)
DisposeNow ==
  /\ Open
  /\ timer' = FALSE
  /\ pending' = None
  /\ disposed' = TRUE
  /\ status' = "disposed"
  /\ dropped' = last
  /\ UNCHANGED <<options, promise, drains, waiters, expected, repository, last,
                 vouched, reported>>

(* What the client may expect: the stored revision it has just read, one it   *)
(* read before the latest save, or none.                                      *)
Readable == {stored, LastWriterWins} \cup {r \in {stored - 1} : r >= 0}

(* setExpectedRevision(r). The entry a save in flight was given is replaced.  *)
SetExpectedRevision(r) ==
  /\ Open
  /\ expected' = r
  /\ drains' = {[d EXCEPT !.fresh = FALSE] : d \in drains}
  /\ seen' = (seen \/ r = stored)
  /\ UNCHANGED <<options, pending, timer, promise, waiters, status, disposed, stored,
                 foreign, last, durable, dropped, vouched, reported, deleted>>

-----------------------------------------------------------------------------
(* repository.save: one read-write transaction, then its promise settles.     *)

(* The transaction reads the record, finds the expected revision, stores.     *)
SaveStored(d) ==
  /\ d.at = "sent"
  /\ d.expect \in {stored, LastWriterWins}
  /\ stored' = stored + 1
  /\ durable' = d.snap
  /\ seen' = TRUE
  /\ drains' = (drains \ {d}) \cup {[d EXCEPT !.at = "stored", !.revision = stored + 1]}
  /\ UNCHANGED <<options, pending, timer, promise, waiters, expected, status, disposed,
                 foreign, last, dropped, vouched, reported, deleted>>

(* Mutant of Advanced: the expectation follows the stored revision.           *)
AdvancedToStored(d) ==
  IF d.expect # LastWriterWins /\ d.fresh THEN stored ELSE expected

(* The expectation when the save of d has resolved: its own revision, unless  *)
(* setExpectedRevision was called in the meantime.                            *)
Advanced(d) ==
  IF d.expect # LastWriterWins /\ d.fresh THEN d.revision ELSE expected

(* Mutant of SaveResolves: the drain does not look for a newer snapshot.      *)
SaveResolvesOnce(d) ==
  /\ d.at = "stored"
  /\ expected' = Advanced(d)
  /\ drains' = drains \ {d}
  /\ promise' = IF promise = d.id THEN None ELSE promise
  /\ waiters' = <<>>
  /\ Resolve({d.owner} \cup {waiters[i] : i \in DOMAIN waiters}, "saved")
  /\ UNCHANGED <<options, pending, timer, repository, last, dropped, reported>>

(* The save resolves: the drain goes on with a newer snapshot, or ends and    *)
(* releases its owner and the waiting flushes, which find nothing pending.    *)
SaveResolves(d) ==
  /\ d.at = "stored"
  /\ expected' = Advanced(d)
  /\ \/ /\ pending # None
        /\ drains' = (drains \ {d}) \cup {Drain(d.id, pending, d.owner, Advanced(d))}
        /\ pending' = None
        /\ status' = "saving"
        /\ UNCHANGED <<promise, waiters, vouched, disposed>>
     \/ /\ pending = None
        /\ drains' = drains \ {d}
        /\ promise' = IF promise = d.id THEN None ELSE promise
        /\ waiters' = <<>>
        /\ Resolve({d.owner} \cup {waiters[i] : i \in DOMAIN waiters}, "saved")
        /\ UNCHANGED pending
  /\ UNCHANGED <<options, timer, repository, last, dropped, reported>>

(* Mutant of Retained: the failed snapshot replaces a newer one.               *)
RetainedAlways(d) == d.snap
(* What is pending when the save of d has failed: pending ??= snapshot.       *)
Retained(d) == IF pending = None THEN d.snap ELSE pending

(* The save rejects (a conflict, the quota): the owner rejects; the first     *)
(* waiting flush drains again, and the others find nothing pending, in status *)
(* 'saving'.                                                                  *)
SaveRejects(d) ==
  /\ d.at = "sent"
  /\ reported' = last
  /\ \/ /\ waiters = <<>>
        /\ drains' = drains \ {d}
        /\ promise' = IF promise = d.id THEN None ELSE promise
        /\ pending' = Retained(d)
        /\ status' = "error"
        /\ UNCHANGED <<waiters, vouched, disposed>>
     \/ /\ waiters # <<>>
        /\ drains' = (drains \ {d}) \cup {Drain(Retained(d), Retained(d), Head(waiters), expected)}
        /\ promise' = Retained(d)
        /\ pending' = None
        /\ waiters' = <<>>
        /\ Resolve({waiters[i] : i \in DOMAIN waiters \ {1}}, "saving")
  /\ UNCHANGED <<options, timer, expected, repository, last, dropped>>

-----------------------------------------------------------------------------
(* The other tab saves what it has read, or deletes the project.              *)
OtherTabSaves ==
  /\ foreign < MaxForeign
  /\ foreign' = foreign + 1
  /\ stored' = stored + 1
  /\ seen' = FALSE
  /\ UNCHANGED <<options, pending, timer, promise, drains, waiters, expected, status,
                 disposed, last, durable, dropped, vouched, reported, deleted>>

OtherTabDeletes ==
  /\ foreign < MaxForeign
  /\ stored > 0
  /\ foreign' = foreign + 1
  /\ stored' = 0
  /\ seen' = FALSE
  /\ deleted' = TRUE
  /\ UNCHANGED <<options, pending, timer, promise, drains, waiters, expected, status,
                 disposed, last, durable, dropped, vouched, reported>>

-----------------------------------------------------------------------------
ClientCalls == \/ Schedule \/ Flush \/ Cancel \/ Dispose \/ DisposeNow
               \/ \E r \in Readable : SetExpectedRevision(r)
SaveSettles == \E d \in drains : SaveStored(d) \/ SaveResolves(d) \/ SaveRejects(d)
OtherTab == OtherTabSaves \/ OtherTabDeletes

Next == ClientCalls \/ TimerFires \/ SaveSettles \/ OtherTab

(* A transaction of IndexedDB completes or aborts, and a timer fires.         *)
Fairness == WF_vars(SaveSettles) /\ WF_vars(TimerFires)

Spec == Init /\ [][Next]_vars
FairSpec == Spec /\ Fairness

-----------------------------------------------------------------------------
(* Properties. *)

(* Types of the coordinator's fields.                                         *)
TypeOK ==
  /\ delayed \in BOOLEAN /\ timer \in BOOLEAN /\ disposed \in BOOLEAN
  /\ pending \in Edits \cup {None}
  /\ promise \in Edits \cup {None}
  /\ drains \in SUBSET Drains
  /\ waiters \in Seq(Flushes)
  /\ expected \in Expectations
  /\ status \in Statuses
  /\ stored \in Revisions
  /\ foreign \in Nat
  /\ last \in Edits \cup {None} /\ durable \in Edits \cup {None}
  /\ dropped \in Edits \cup {None} /\ reported \in Edits \cup {None}
  /\ vouched \in SUBSET (Edits \cup {None})
  /\ seen \in BOOLEAN /\ deleted \in BOOLEAN

(* 'serializes writes' (autosave.ts:36-39): at most one drain awaits a save,  *)
(* though flush() does not look at drainPromise again after waiting for it,   *)
(* and only then do flushes wait.                                             *)
SerialWrites ==
  /\ \A d, e \in drains : d = e
  /\ \A d \in drains : promise = d.id
  /\ drains = {} => promise = None /\ waiters = <<>>

(* The latest edit is pending, being saved, stored or dropped on purpose:     *)
(* neither a failed save nor a newer edit during one loses it.                *)
NoLostEdit ==
  \/ last \in {pending, durable} \/ last <= dropped
  \/ \E d \in drains : d.snap = last

(* The coordinator stores an edit only after every older one is settled: the  *)
(* record never goes back to an older edit.                                   *)
NeverRegresses == [][durable' >= durable]_vars

(* 'saved' is shown only when the latest edit is stored.                      *)
SavedMeansStored ==
  status = "saved" => /\ pending = None /\ drains = {}
                      /\ last = durable \/ last <= dropped

(* With an expected revision, a save never overwrites a record that the other *)
(* tab wrote and this one has not read, unless the project was deleted and    *)
(* recreated, which starts its revisions again.                               *)
NoBlindOverwrite ==
  [][\A d \in drains : /\ d.expect # LastWriterWins
                       /\ durable' = d.snap /\ durable # d.snap
                       => seen \/ deleted]_vars

(* A flush that resolves leaves no edit idle that it was called for: one that *)
(* is neither stored nor dropped has been reported as failed or is still      *)
(* being saved.                                                               *)
ResolvedFlushIsCovered ==
  \A v \in vouched : v <= durable \/ v <= dropped \/ v <= reported \/ drains # {}

=============================================================================
