----------------------------- MODULE Workspace -----------------------------
(***************************************************************************)
(* The workspace: App.tsx with its store (src/src/app/store.ts), the       *)
(* replacement of the open project (src/src/app/project-replacement.ts),   *)
(* the project manager, the autosave coordinator, the repository that      *)
(* another tab shares, and the native engine as the application drives it. *)
(*                                                                         *)
(* A project is an id and a version: the version stands for `updatedAt`    *)
(* and the content, a new one for every change.  The page is single-       *)
(* threaded: an action is an event with the code it runs up to the next    *)
(* await; the continuation of an await that has settled runs before the    *)
(* next event (Quiet).  Transactions of IndexedDB on the one object store  *)
(* run in the order they were created (io.txs); the other tab's fall       *)
(* between any two of them.                                                *)
(***************************************************************************)
EXTENDS Integers, Sequences

CONSTANTS
  MaxProjects, (* Bound: projects in the life of the page.                   *)
  Plans        (* What may happen: bounds on versions, clicks on Save,       *)
               (* uploads, failing writes and changes by the other tab, and  *)
               (* the operations the user may call.                          *)

Transitions == {"open", "create", "duplicate", "delete", "import"}
RuntimeCalls == {"run", "reset"}
ManagerCalls == {"rename", "rename-other", "delete-other"}

ASSUME WorkspaceAssumption ==
  /\ MaxProjects \in Nat \ {0, 1}
  /\ Plans \subseteq [versions : Nat, clicks : Nat, uploads : Nat, failures : Nat,
                      foreign : Nat, calls : SUBSET (Transitions \cup RuntimeCalls \cup ManagerCalls)]

Ids == 1 .. MaxProjects
None == [id |-> 0, ver |-> 0]
Nobody == "nobody"
LastWriterWins == -1                 (* No revision is expected.             *)
Flushers == {"auto", "op", "manager", "save"}
NoSave == [snap |-> None, expect |-> 0, fresh |-> FALSE, owner |-> Nobody]
NoOp == [kind |-> "none", at |-> "idle", from |-> 0, target |-> None, rev |-> 0, new |-> FALSE]
Idle == [kind |-> "none", at |-> "idle", target |-> None, rev |-> 0]

VARIABLES
  plan,      (* the plan, which never changes                                *)
  project,   (* store.project                                                *)
  dirty,     (* store.dirty                                                  *)
  running,   (* store.running                                                *)
  locked,    (* nativeProjectLocked                                          *)
  engine,    (* nativeEngineRef: "none" or the state of the engine           *)
  replacing, (* projectReplacementRef                                        *)
  op,        (* the holder of runtimeOperationRef and where it awaits, the   *)
             (* project it reads, the one it will install with its revision, *)
             (* and whether that one is new                                  *)
  manager,   (* the project manager's action that does not take the lock     *)
  importing, (* an archive is being read                                     *)
  uploads,   (* files being read for the configuration editor                *)
  boot,      (* the start-up effect: where it awaits, the project it saw,    *)
             (* whether that was dirty, and the one it is about to read      *)
  booted,    (* bootedRef, and persistenceReady                              *)
  io,        (* the coordinator's pending snapshot, its save in flight, the  *)
             (* flushes that wait, and the transactions in order             *)
  expected,  (* expectedRevisions                                            *)
  db,        (* the repository: revision (0: absent) and version             *)
  clock,     (* versions given so far                                        *)
  made,      (* projects made so far                                         *)
  used,      (* of the plan's bounds, what is spent                          *)
  touched,   (* history: projects that the other tab wrote or deleted        *)
  late,      (* history: the versions made during a replacement or while     *)
             (* autosave was suppressed,                                     *)
  missed,    (* and those of them made while a rename suppressed it          *)
  crossed,   (* history: a project was installed over a snapshot of the last *)
             (* one that was pending or being saved                          *)
  leaked     (* history: an engine did not dispose properly                  *)

ui == <<project, dirty>>
native == <<running, locked, engine, leaked>>
history == <<touched, late, missed, crossed>>
vars == <<plan, ui, native, replacing, op, manager, importing, uploads, boot, booted, io,
          expected, db, clock, made, used, history>>

-----------------------------------------------------------------------------
Stored == {i \in Ids : db[i].rev > 0}
New(i, v) == [id |-> i, ver |-> v]
Spend(what) == used[what] < plan[what] /\ used' = [used EXCEPT ![what] = @ + 1]
CanVersion == clock < plan.versions

(* Continuations that are due run before anything else.                       *)
Quiet == op.at \notin {"begin", "disposed", "drained", "undrained"} /\ manager.at # "drained"
Busy == op.kind # "none"
(* The project manager is modal, and stays open while its action runs.        *)
Free == Quiet /\ ~Busy /\ manager.kind = "none"

(* IndexedDB: the first transaction is the caller's.                          *)
Turn(who) == Quiet /\ io.txs # <<>> /\ Head(io.txs) = who
Done(i) == [i EXCEPT !.txs = Tail(@)]
Ask(i, who) == [i EXCEPT !.txs = Append(@, who)]

Fits(p, expect) == expect \in {db[p.id].rev, LastWriterWins}
Put(p) == [db EXCEPT ![p.id] = [rev |-> @.rev + 1, ver |-> p.ver]]
Gone(i) == [db EXCEPT ![i] = [rev |-> 0, ver |-> 0]]

-----------------------------------------------------------------------------
(* AutosaveCoordinator with delayMs 0: module Autosave has it in full.        *)

(* A save of p starts, with the revision expected of it in e.                 *)
Drain(i, p, owner, e) ==
  Ask([i EXCEPT !.pending = None,
                !.save = [snap |-> p, expect |-> e[p.id], fresh |-> TRUE, owner |-> owner]], "auto")

(* flush(), which resolves at once when nothing is pending or in flight.      *)
Flush(i, who) ==
  IF i.save # NoSave THEN [i EXCEPT !.waiters = Append(@, who)]
  ELSE IF i.pending = None THEN i ELSE Drain(i, i.pending, who, expected)
Drained(i) == i.save = NoSave /\ i.pending = None

(* Mutant: a snapshot is kept, and no save of it is started.                  *)
ScheduleOnly(i, p) == [i EXCEPT !.pending = p]

Schedule(i, p) == Flush([i EXCEPT !.pending = p], "auto")

(* setExpectedRevision(p.id, r): a save in flight no longer advances it.      *)
Expect(i, p, r) ==
  /\ expected' = [expected EXCEPT ![p.id] = r]
  /\ io' = IF i.save.snap.id = p.id THEN [i EXCEPT !.save.fresh = FALSE] ELSE i

(* The flushes of `ok` resolve and those of `failed` reject.                  *)
Settle(ok, failed) ==
  /\ op' = IF "op" \in ok THEN [op EXCEPT !.at = "drained"]
           ELSE IF "op" \in failed THEN [op EXCEPT !.at = "undrained"] ELSE op
  /\ manager' = IF "manager" \in ok \cup failed THEN [manager EXCEPT !.at = "drained"] ELSE manager

(* Mutant: any save of the open project counts as a save of what it is now.   *)
MarkSavedById(p) == dirty' = (dirty /\ p.id # project.id)

MarkSaved(p) == dirty' = (dirty /\ p # project)

SaveStored ==
  /\ Turn("auto") /\ Fits(io.save.snap, io.save.expect)
  /\ LET s == io.save
         e == IF s.fresh /\ s.expect # LastWriterWins
              THEN [expected EXCEPT ![s.snap.id] = db[s.snap.id].rev + 1] ELSE expected
     IN  /\ db' = Put(s.snap) /\ expected' = e
         /\ MarkSaved(s.snap)
         /\ IF io.pending # None
            THEN io' = Drain(Done(io), io.pending, s.owner, e) /\ UNCHANGED <<op, manager>>
            ELSE /\ io' = [Done(io) EXCEPT !.save = NoSave, !.waiters = <<>>]
                 /\ Settle({s.owner} \cup {io.waiters[k] : k \in DOMAIN io.waiters}, {})
  /\ UNCHANGED <<plan, project, native, replacing, importing, uploads, boot, booted, clock, made,
                 used, history>>

(* A conflict, or the browser refuses the write.  The snapshot is kept unless *)
(* a newer one is pending; the first flush that waits tries again, and the    *)
(* others resolve.                                                            *)
SaveRefused ==
  /\ Turn("auto")
  /\ IF Fits(io.save.snap, io.save.expect) THEN Spend("failures") ELSE UNCHANGED used
  /\ LET kept == IF io.pending = None THEN io.save.snap ELSE io.pending
         left == [Done(io) EXCEPT !.save = NoSave, !.pending = kept, !.waiters = <<>>]
     IN  IF io.waiters = <<>>
         THEN io' = left /\ Settle({}, {io.save.owner})
         ELSE /\ io' = Drain(left, kept, Head(io.waiters), expected)
              /\ Settle({io.waiters[k] : k \in 2 .. Len(io.waiters)}, {io.save.owner})
  /\ UNCHANGED <<plan, ui, native, replacing, importing, uploads, boot, booted, expected, db,
                 clock, made, history>>

-----------------------------------------------------------------------------
(* Edits: markChanged, and the subscription that hands the project over.      *)
Saves == booted /\ ~replacing

Changed(i) ==
  LET p == New(project.id, clock + 1)
  IN  /\ CanVersion
      /\ project' = p /\ dirty' = TRUE /\ clock' = clock + 1
      /\ io' = IF Saves THEN Schedule(i, p) ELSE i
      /\ late' = IF booted /\ (~Saves \/ op.kind \in Transitions) THEN late \cup {p.ver} ELSE late
      /\ missed' = IF booted /\ ~Saves /\ manager.kind = "rename" THEN missed \cup {p.ver} ELSE missed
      /\ UNCHANGED <<touched, crossed>>

Edit ==
  /\ Free
  /\ Changed(io)
  /\ UNCHANGED <<plan, native, replacing, op, manager, importing, uploads, boot, booted, expected,
                 db, made, used>>

(* A file chosen for upload is read, and becomes an edit whenever it is read. *)
Upload ==
  /\ Free /\ ~locked /\ Spend("uploads")
  /\ uploads' = uploads + 1
  /\ UNCHANGED <<plan, ui, native, replacing, op, manager, importing, boot, booted, io, expected,
                 db, clock, made, history>>

Uploaded ==
  /\ Quiet /\ uploads > 0
  /\ uploads' = uploads - 1
  /\ Changed(io)
  /\ UNCHANGED <<plan, native, replacing, op, manager, importing, boot, booted, expected, db, made,
                 used>>

(* saveNow()                                                                  *)
SaveNow ==
  /\ Free /\ booted /\ Spend("clicks")
  /\ io' = Flush(Schedule(io, project), "save")
  /\ UNCHANGED <<plan, ui, native, replacing, op, manager, importing, uploads, boot, booted,
                 expected, db, clock, made, history>>

-----------------------------------------------------------------------------
(* The start-up effect.                                                       *)
Seen == [boot EXCEPT !.target = project, !.dirty = dirty]

BootAsks(b, at) == boot' = [b EXCEPT !.at = at] /\ io' = Ask(Done(io), "boot")

(* The repository is open, and a last project is remembered or none is.       *)
BootOpened ==
  /\ Quiet /\ boot.at = "open"
  /\ io' = Ask(io, "boot")
  /\ boot' = IF boot.last # 0 THEN [boot EXCEPT !.at = "last"]
             ELSE IF dirty THEN [Seen EXCEPT !.at = "active"] ELSE [boot EXCEPT !.at = "recent"]
  /\ UNCHANGED <<plan, ui, native, replacing, op, manager, importing, uploads, booted, expected,
                 db, clock, made, used, history>>

(* A stored project replaces the demo unless the demo has been edited.        *)
Restore(p) == project' = p /\ boot' = [boot EXCEPT !.target = p, !.dirty = FALSE, !.at = "active"]

BootLast ==
  /\ Turn("boot") /\ boot.at = "last"
  /\ io' = Ask(Done(io), "boot")
  /\ \/ ~dirty /\ boot.last \in Stored /\ Restore(New(boot.last, db[boot.last].ver))
     \/ ~dirty /\ boot.last \notin Stored /\ boot' = [boot EXCEPT !.at = "recent"] /\ UNCHANGED project
     \/ dirty /\ boot' = [Seen EXCEPT !.at = "active"] /\ UNCHANGED project
  /\ UNCHANGED <<plan, dirty, native, replacing, op, manager, importing, uploads, booted, expected,
                 db, clock, made, used, history>>

(* list(): its first project is read next.                                    *)
BootRecent ==
  /\ Turn("boot") /\ boot.at = "recent"
  /\ io' = Ask(Done(io), "boot")
  /\ IF Stored = {} THEN boot' = [Seen EXCEPT !.at = "active"]
     ELSE \E i \in Stored : boot' = [boot EXCEPT !.at = "fallback", !.last = i]
  /\ UNCHANGED <<plan, ui, native, replacing, op, manager, importing, uploads, booted, expected,
                 db, clock, made, used, history>>

(* By then the demo may have been edited, or the project deleted.             *)
BootFallback ==
  /\ Turn("boot") /\ boot.at = "fallback"
  /\ io' = Ask(Done(io), "boot")
  /\ IF dirty \/ boot.last \notin Stored THEN boot' = [Seen EXCEPT !.at = "active"] /\ UNCHANGED project
     ELSE Restore(New(boot.last, db[boot.last].ver))
  /\ UNCHANGED <<plan, dirty, native, replacing, op, manager, importing, uploads, booted, expected,
                 db, clock, made, used, history>>

(* Mutant: the project is taken for one that was never stored.                *)
SeedUnstored(r) ==
  /\ boot' = [boot EXCEPT !.at = "opened"]
  /\ Expect(Ask(Done(io), "boot"), boot.target, 0)

(* The revision of the open project is learnt, or the project is stored.      *)
Seed(r) ==
  /\ boot' = [boot EXCEPT !.at = "opened"]
  /\ Expect(Ask(Done(io), "boot"), boot.target, r)

BootActive ==
  /\ Turn("boot") /\ boot.at = "active"
  /\ IF boot.target.id \notin Stored /\ ~boot.dirty
     THEN BootAsks(boot, "store") /\ UNCHANGED expected
     ELSE Seed(db[boot.target.id].rev)
  /\ UNCHANGED <<plan, ui, native, replacing, op, manager, importing, uploads, booted, db, clock,
                 made, used, history>>

BootStored ==
  /\ Turn("boot") /\ boot.at = "store"
  /\ \/ /\ Fits(boot.target, 0)
        /\ db' = Put(boot.target) /\ Seed(1) /\ UNCHANGED used
     \/ /\ IF Fits(boot.target, 0) THEN Spend("failures") ELSE UNCHANGED used
        /\ boot' = [boot EXCEPT !.at = "failed"] /\ io' = Done(io) /\ UNCHANGED <<db, expected>>
  /\ UNCHANGED <<plan, ui, native, replacing, op, manager, importing, uploads, booted, clock, made,
                 history>>

(* markOpened and list; then the edits made in the meantime are scheduled.    *)
BootDone ==
  /\ Turn("boot") /\ boot.at = "opened"
  /\ boot' = [boot EXCEPT !.at = "done"] /\ booted' = TRUE
  /\ io' = IF dirty THEN Schedule(Done(io), project) ELSE Done(io)
  /\ UNCHANGED <<plan, ui, native, replacing, op, manager, importing, uploads, expected, db, clock,
                 made, used, history>>

-----------------------------------------------------------------------------
(* The project manager's actions that do not take the lock.                   *)

(* renameManagedProject of the open project.                                  *)
Rename ==
  /\ Free /\ booted /\ "rename" \in plan.calls /\ CanVersion
  /\ LET p == New(project.id, clock + 1)
     IN  /\ project' = p /\ dirty' = TRUE /\ clock' = clock + 1
         /\ io' = Flush(Schedule(io, p), "manager")
  /\ replacing' = TRUE
  /\ manager' = [Idle EXCEPT !.kind = "rename", !.at = "flush"]
  /\ UNCHANGED <<plan, native, op, importing, uploads, boot, booted, expected, db, made, used, history>>

RenameDrained ==
  /\ manager.at = "drained"
  /\ replacing' = FALSE /\ manager' = Idle
  /\ UNCHANGED <<plan, ui, native, op, importing, uploads, boot, booted, io, expected, db, clock,
                 made, used, history>>

(* Another project is renamed (read, then written) or deleted.                *)
ManageOther(kind, i) ==
  /\ Free /\ booted /\ kind \in plan.calls /\ i # project.id /\ i <= made
  /\ manager' = [Idle EXCEPT !.kind = kind, !.target = New(i, 0),
                             !.at = IF kind = "rename-other" THEN "get" ELSE "erase"]
  /\ io' = Ask(io, "manager")
  /\ UNCHANGED <<plan, ui, native, replacing, op, importing, uploads, boot, booted, expected, db,
                 clock, made, used, history>>

OtherRead ==
  /\ Turn("manager") /\ manager.at = "get"
  /\ \/ /\ manager.target.id \in Stored /\ CanVersion
        /\ manager' = [manager EXCEPT !.at = "put", !.rev = db[manager.target.id].rev,
                                      !.target.ver = clock + 1]
        /\ clock' = clock + 1 /\ io' = Ask(Done(io), "manager")
     \/ /\ manager.target.id \notin Stored \/ ~CanVersion
        /\ manager' = Idle /\ io' = Done(io) /\ UNCHANGED clock
  /\ UNCHANGED <<plan, ui, native, replacing, op, importing, uploads, boot, booted, expected, db,
                 made, used, history>>

OtherWritten ==
  /\ Turn("manager") /\ manager.at \in {"put", "erase"}
  /\ io' = Done(io) /\ manager' = Idle
  /\ \/ manager.at = "put" /\ Fits(manager.target, manager.rev) /\ db' = Put(manager.target)
     \/ manager.at = "erase" /\ db' = Gone(manager.target.id)
     \/ manager.at = "put" /\ ~Fits(manager.target, manager.rev) /\ UNCHANGED db
  /\ UNCHANGED <<plan, ui, native, replacing, op, importing, uploads, boot, booted, expected, clock,
                 made, used, history>>

-----------------------------------------------------------------------------
(* performProjectTransition and activatePersistedProject.  The id and the     *)
(* version that the operation may need are taken when it begins.              *)
Begin(kind, at, i) ==
  /\ booted /\ Quiet /\ ~Busy /\ kind \in plan.calls
  /\ IF kind = "open" THEN UNCHANGED <<clock, made>>
     ELSE made < MaxProjects /\ CanVersion /\ made' = made + 1 /\ clock' = clock + 1
  /\ replacing' = TRUE
  /\ op' = [NoOp EXCEPT !.kind = kind, !.at = at, !.from = i, !.target = New(made', clock')]
  /\ io' = IF at = "begin" THEN io ELSE Ask(io, "op")
  /\ UNCHANGED <<plan, ui, native, manager, uploads, boot, booted, expected, db, used, history>>

Open(i) == Free /\ i # project.id /\ i <= made /\ Begin("open", "get", i) /\ UNCHANGED importing
Duplicate(i) ==
  Free /\ i <= made /\ Begin("duplicate", IF i = project.id THEN "list" ELSE "get", i) /\ UNCHANGED importing
Delete == Free /\ Begin("delete", "list", project.id) /\ UNCHANGED importing
Create == Free /\ Begin("create", "begin", 0) /\ UNCHANGED importing

(* An archive is chosen, read and validated; its project may exist already.   *)
Import ==
  /\ Free /\ booted /\ ~importing /\ "import" \in plan.calls
  /\ importing' = TRUE
  /\ UNCHANGED <<plan, ui, native, replacing, op, manager, uploads, boot, booted, io, expected, db,
                 clock, made, used, history>>
ImportRead(i) ==
  /\ importing /\ i <= made + 1 /\ Begin("import", "get", i)
  /\ importing' = FALSE
ImportRejected ==     (* an invalid archive, or another operation has begun   *)
  /\ importing /\ Quiet
  /\ importing' = FALSE
  /\ UNCHANGED <<plan, ui, native, replacing, op, manager, uploads, boot, booted, io, expected, db,
                 clock, made, used, history>>

(* disposeRuntime(): the engine is let go of before its dispose() is awaited. *)
DisposeThen(o, i) ==
  /\ op' = [o EXCEPT !.at = IF engine = "none" THEN "disposed" ELSE "dispose"]
  /\ engine' = "none" /\ locked' = FALSE
  /\ io' = i
  /\ UNCHANGED <<running, replacing>>

(* Mutant: the edits that the replacement suppressed are not handed over.     *)
FinishOnly(i) == replacing' = FALSE /\ op' = NoOp /\ io' = i

(* The finally clause.                                                        *)
Finish(i) ==
  /\ replacing' = FALSE /\ op' = NoOp
  /\ io' = IF booted /\ dirty THEN Schedule(i, project) ELSE i
Abort(i, disposing) == Finish(i) /\ running' = (running /\ ~disposing)

Prepared ==
  /\ (op.at = "get" /\ Turn("op")) \/ op.at = "begin"
  /\ LET i == IF op.at = "get" THEN Done(io) ELSE io
         there == op.from \in Stored
         stored == [op EXCEPT !.target = New(op.from, db[op.from].ver), !.rev = db[op.from].rev]
         new == [op EXCEPT !.rev = 1, !.new = TRUE]
     IN  \/ /\ op.kind = "create" \/ (op.kind = "delete" /\ ~there)
            /\ DisposeThen(new, i)
         \/ /\ op.kind = "import" /\ ~there
            /\ DisposeThen([new EXCEPT !.target.id = op.from], i)
         \/ /\ op.kind \in {"open", "delete"} /\ there
            /\ DisposeThen(stored, i)
         \/ /\ op.kind \in {"duplicate", "import"} /\ there
            /\ op' = [op EXCEPT !.at = "list"] /\ io' = Ask(i, "op")
            /\ UNCHANGED <<engine, locked, running, replacing>>
         \/ /\ op.kind \in {"open", "duplicate"} /\ ~there
            /\ Abort(i, FALSE) /\ UNCHANGED <<engine, locked>>
  /\ UNCHANGED <<plan, ui, leaked, manager, importing, uploads, boot, booted, expected, db, clock,
                 made, used, history>>

(* The list of the projects: for a name that is not taken, or for the project *)
(* that takes the place of the deleted one.                                   *)
Listed ==
  /\ Turn("op") /\ op.at = "list"
  /\ \/ /\ op.kind # "delete" \/ Stored \ {project.id} = {}
        /\ DisposeThen([op EXCEPT !.rev = 1, !.new = TRUE], Done(io))
     \/ /\ op.kind = "delete"
        /\ \E i \in Stored \ {project.id} : op' = [op EXCEPT !.at = "get", !.from = i]
        /\ io' = Ask(Done(io), "op") /\ UNCHANGED <<engine, locked, running, replacing>>
  /\ UNCHANGED <<plan, ui, leaked, manager, importing, uploads, boot, booted,
                 expected, db, clock, made, used, history>>

(* The engine's dispose() settles.                                            *)
Disposal ==
  /\ Quiet /\ op.at = "dispose" /\ op.kind \in Transitions
  /\ \/ op' = [op EXCEPT !.at = "disposed"] /\ UNCHANGED <<running, leaked, replacing, io>>
     \/ leaked' = TRUE /\ Abort(io, TRUE)
  /\ UNCHANGED <<plan, ui, locked, engine, manager, importing, uploads, boot, booted, expected, db,
                 clock, made, used, history>>

(* Mutant: the edits are flushed before the disposal only.                    *)
DisposedOnly ==
  /\ op.at = "disposed" /\ op.kind \in Transitions
  /\ op' = [op EXCEPT !.at = "drained"]
  /\ UNCHANGED <<plan, ui, native, replacing, manager, importing, uploads, boot, booted, io, expected,
                 db, clock, made, used, history>>

Disposed ==
  /\ op.at = "disposed" /\ op.kind \in Transitions
  /\ op' = [op EXCEPT !.at = IF Drained(io) THEN "drained" ELSE "flush"]
  /\ io' = Flush(io, "op")
  /\ UNCHANGED <<plan, ui, native, replacing, manager, importing, uploads, boot, booted, expected,
                 db, clock, made, used, history>>

(* setProject, setExpectedRevision and resetRuntime.                          *)
Install(i) ==
  /\ project' = op.target /\ dirty' = FALSE /\ running' = FALSE
  /\ Expect(Ask(i, "op"), op.target, op.rev)
  /\ op' = [op EXCEPT !.at = "opened"]
  /\ crossed' = (crossed \/ ~Drained(i))
  /\ UNCHANGED <<replacing, touched, late, missed>>

Erase(i) == op' = [op EXCEPT !.at = "erase"] /\ io' = Ask(i, "op")

(* The project that is left is stored, as far as flush() says; cancel().      *)
Cancelled ==
  /\ op.at = "drained"
  /\ LET i == [io EXCEPT !.pending = None]
     IN  \/ /\ op.new
            /\ op' = [op EXCEPT !.at = "store"] /\ io' = Ask(i, "op")
            /\ UNCHANGED <<ui, running, replacing, expected, history>>
         \/ /\ ~op.new /\ op.kind = "delete"
            /\ Erase(i) /\ UNCHANGED <<ui, running, replacing, expected, history>>
         \/ ~op.new /\ op.kind # "delete" /\ Install(i)
  /\ UNCHANGED <<plan, locked, engine, leaked, manager, importing, uploads, boot, booted, db, clock,
                 made, used>>

NotDrained ==
  /\ op.at = "undrained"
  /\ Abort(io, TRUE)
  /\ UNCHANGED <<plan, ui, locked, engine, leaked, manager, importing, uploads, boot, booted, expected,
                 db, clock, made, used, history>>

(* beforeInstall: the new project is stored, the deleted one is removed.      *)
NewStored ==
  /\ Turn("op") /\ op.at = "store"
  /\ \/ /\ Fits(op.target, 0)
        /\ db' = Put(op.target) /\ UNCHANGED used
        /\ IF op.kind = "delete"
           THEN Erase(Done(io)) /\ UNCHANGED <<ui, running, replacing, expected, history>>
           ELSE Install(Done(io))
     \/ /\ IF Fits(op.target, 0) THEN Spend("failures") ELSE UNCHANGED used
        /\ Abort(Done(io), TRUE) /\ UNCHANGED <<ui, expected, db, history>>
  /\ UNCHANGED <<plan, locked, engine, leaked, manager, importing, uploads, boot, booted, clock, made>>

Erased ==
  /\ Turn("op") /\ op.at = "erase"
  /\ db' = Gone(project.id)
  /\ IF project.id \in Stored THEN Install(Done(io))
     ELSE Abort(Done(io), TRUE) /\ UNCHANGED <<ui, expected, history>>
  /\ UNCHANGED <<plan, locked, engine, leaked, manager, importing, uploads, boot, booted, clock, made,
                 used>>

(* markOpened and list.                                                       *)
Opened ==
  /\ Turn("op") /\ op.at = "opened"
  /\ Finish(Done(io))
  /\ UNCHANGED <<plan, ui, native, manager, importing, uploads, boot, booted, expected, db, clock, made,
                 used, history>>

-----------------------------------------------------------------------------
(* run() and resetRuntime().                                                  *)
Holds(kind, at) == op' = [NoOp EXCEPT !.kind = kind, !.at = at]

Pause ==
  /\ Free /\ "run" \in plan.calls /\ running
  /\ IF engine = "none" THEN running' = FALSE /\ UNCHANGED <<op, engine>>
     ELSE Holds("run", "pause") /\ engine' = "pausing" /\ UNCHANGED running
  /\ UNCHANGED <<plan, ui, locked, leaked, replacing, manager, importing, uploads, boot, booted, io,
                 expected, db, clock, made, used, history>>

(* A paused engine resumes; any other is disposed of before a new one starts. *)
Run ==
  /\ Free /\ "run" \in plan.calls /\ ~running
  /\ running' = TRUE /\ locked' = TRUE
  /\ CASE engine = "paused" -> engine' = "starting" /\ Holds("run", "start")
       [] engine = "none" -> engine' = "starting" /\ Holds("run", "start")
       [] OTHER -> engine' = "none" /\ Holds("run", "clear")
  /\ UNCHANGED <<plan, ui, leaked, replacing, manager, importing, uploads, boot, booted, io, expected,
                 db, clock, made, used, history>>

RunSettles ==
  /\ Quiet /\ op.kind = "run"
  /\ \/ /\ op.at = "clear"
        /\ engine' = "starting" /\ Holds("run", "start") /\ UNCHANGED <<running, locked, leaked>>
     \/ /\ op.at = "clear"
        /\ leaked' = TRUE /\ running' = FALSE /\ locked' = FALSE /\ op' = NoOp /\ UNCHANGED engine
     \/ /\ op.at = "start" /\ engine = "starting"
        /\ engine' = "running" /\ op' = NoOp /\ UNCHANGED <<running, locked, leaked>>
     \/ /\ op.at = "start"
        /\ engine' = "failed" /\ running' = FALSE /\ locked' = FALSE /\ op' = NoOp /\ UNCHANGED leaked
     \/ /\ op.at = "pause"
        /\ engine' = "paused" /\ running' = FALSE /\ op' = NoOp /\ UNCHANGED <<locked, leaked>>
     \/ /\ op.at = "pause"
        /\ running' = FALSE /\ locked' = FALSE /\ op' = NoOp /\ UNCHANGED <<engine, leaked>>
  /\ UNCHANGED <<plan, ui, replacing, manager, importing, uploads, boot, booted, io, expected, db,
                 clock, made, used, history>>

(* The engine reports that it has failed.                                     *)
EngineFails ==
  /\ Quiet /\ engine \in {"starting", "running", "pausing", "paused"}
  /\ engine' = "failed" /\ running' = FALSE /\ locked' = FALSE
  /\ UNCHANGED <<plan, ui, leaked, replacing, op, manager, importing, uploads, boot, booted, io,
                 expected, db, clock, made, used, history>>

(* resetRuntime(), and changeRuntimeMode(), which awaits the same disposal.   *)
Reset ==
  /\ Free /\ "reset" \in plan.calls
  /\ DisposeThen([NoOp EXCEPT !.kind = "reset"], io)
  /\ UNCHANGED <<plan, ui, leaked, manager, importing, uploads, boot, booted, expected, db, clock,
                 made, used, history>>

ResetSettles ==
  /\ op.kind = "reset"
  /\ \/ running' = FALSE /\ UNCHANGED leaked
     \/ op.at = "dispose" /\ leaked' = TRUE /\ UNCHANGED running
  /\ op' = NoOp
  /\ UNCHANGED <<plan, ui, locked, engine, replacing, manager, importing, uploads, boot, booted, io,
                 expected, db, clock, made, used, history>>

(* changeRuntimeMode() sets the mode in the project: an edit.                 *)
ModeChanged ==
  /\ op.kind = "reset"
  /\ running' = FALSE /\ op' = NoOp
  /\ Changed(io)
  /\ UNCHANGED <<plan, locked, engine, leaked, replacing, manager, importing, uploads, boot, booted,
                 expected, db, made, used>>

-----------------------------------------------------------------------------
(* Another tab saves or deletes a project.                                    *)
OtherTab(i) ==
  /\ Quiet /\ i \in Stored /\ Spend("foreign")
  /\ \/ CanVersion /\ db' = Put(New(i, clock + 1)) /\ clock' = clock + 1
     \/ db' = Gone(i) /\ UNCHANGED clock
  /\ touched' = touched \cup {i}
  /\ UNCHANGED <<plan, ui, native, replacing, op, manager, importing, uploads, boot, booted, io,
                 expected, made, late, missed, crossed>>

-----------------------------------------------------------------------------
Init ==
  /\ plan \in Plans
  /\ project = New(1, 1) /\ dirty = FALSE
  /\ running = FALSE /\ locked = FALSE /\ engine = "none" /\ leaked = FALSE
  /\ replacing = FALSE /\ op = NoOp /\ manager = Idle /\ importing = FALSE /\ uploads = 0
  /\ db \in {[i \in Ids |-> IF i \in kept THEN [rev |-> 1, ver |-> i] ELSE [rev |-> 0, ver |-> 0]] :
             kept \in {{}, {2}}}
  /\ boot \in [at : {"open"}, target : {None}, dirty : {FALSE}, last : {0, 2}]
  /\ booted = FALSE
  /\ io = [pending |-> None, save |-> NoSave, waiters |-> <<>>, txs |-> <<>>]
  /\ expected = [i \in Ids |-> LastWriterWins]
  /\ clock = 2 /\ made = 2
  /\ used = [clicks |-> 0, uploads |-> 0, failures |-> 0, foreign |-> 0]
  /\ touched = {} /\ late = {} /\ missed = {} /\ crossed = FALSE

Answers ==
  \/ SaveStored \/ SaveRefused \/ Uploaded
  \/ BootOpened \/ BootLast \/ BootRecent \/ BootFallback \/ BootActive \/ BootStored \/ BootDone
  \/ RenameDrained \/ OtherRead \/ OtherWritten
  \/ Prepared \/ Listed \/ Disposal \/ Disposed \/ Cancelled \/ NotDrained \/ NewStored \/ Erased \/ Opened
  \/ RunSettles \/ ResetSettles \/ ModeChanged

Calls ==
  \/ Edit \/ Upload \/ SaveNow \/ Rename \/ Create \/ Delete \/ Import \/ ImportRejected
  \/ Pause \/ Run \/ Reset
  \/ \E i \in Ids : \/ Open(i) \/ Duplicate(i) \/ ImportRead(i)
                   \/ \E kind \in ManagerCalls \ {"rename"} : ManageOther(kind, i)

Next == Answers \/ Calls \/ EngineFails \/ \E i \in Ids : OtherTab(i)

Spec == Init /\ [][Next]_vars

(* Transactions and disposals settle.                                         *)
FairSpec == Spec /\ WF_vars(Answers)

-----------------------------------------------------------------------------
(* Once the workspace is open, an edit that is not stored is with the         *)
(* coordinator, to be stored.  Startup and a replacement suppress the         *)
(* subscription, and must hand the edits they missed over at their end (a     *)
(* rename does not: an upload that ends during one waits for the next edit).  *)
EditCovered ==
  booted /\ ~replacing /\ dirty /\ project.ver \notin missed
    => project \in {io.pending, io.save.snap}

(* A replacement may overtake a save.  A flush that waits for a write that    *)
(* fails can resolve before its snapshot is stored; and an import that begins *)
(* during a rename has the subscription back as soon as the rename is over,   *)
(* so that an edit is being saved when its project is replaced.  What is      *)
(* promised here is promised until that happens (crossed).                    *)

(* A project that another takes the place of is left stored as it was, even   *)
(* when it is about to be deleted: the flush awaited after the disposal must  *)
(* have covered the last edit.  An edit made during the replacement is not,   *)
(* and a flush that waits for a write that fails may resolve.                 *)
ReplacedIsStored ==
  [][ (booted /\ project'.id # project.id /\ project.ver \notin late
       /\ project.id \notin touched /\ used.failures = 0 /\ ~crossed)
        => db[project.id].ver = project.ver ]_vars

(* The workspace says that the project is saved only if the repository has    *)
(* this very version, however many writes have failed.                        *)
CleanMeansStored ==
  booted /\ ~dirty /\ project.id \notin touched /\ ~crossed
    => db[project.id].ver = project.ver

(* Revisions are there to find another tab's changes.  A write of this tab is *)
(* refused for its revision only when there was one, or when it imports the   *)
(* open project, whose first save came after the import looked for it.        *)
NoFalseConflict ==
  ~crossed =>
    /\ io.save # NoSave /\ ~Fits(io.save.snap, io.save.expect) => io.save.snap.id \in touched
    /\ op.at = "store" => Fits(op.target, 0) \/ op.target.id \in touched \cup {project.id}

(* Where no write fails and no other tab interferes, an edit gets stored.     *)
EditsSettle ==
  (plan.failures = 0 /\ plan.foreign = 0 /\ booted /\ dirty) ~> (~dirty \/ project.ver \in missed)
=============================================================================
