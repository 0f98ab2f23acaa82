--------------------------- MODULE LabBoot_proofs ---------------------------
(***************************************************************************)
(* That what the FRR wrapper says agrees with the status that the start    *)
(* job left, for every number of sleeps; and that the archive of a         *)
(* project comes back as it was, for every project, every archive and      *)
(* every change that another program makes to one.                         *)
(***************************************************************************)
EXTENDS LabBoot, FiniteSetTheorems, TLAPS

Started == {"recheck", "reap", "probe", "health", "terminate", "grace", "join", "cleanup",
            "stop", "stopping", "waiting", "exited", "killed"}
Starting == {"session", "start", "alive", "nap"}

(* The wrapper's places and what it counts and says.                          *)
FrrTypeOK ==
  /\ at \in Started \cup Starting
  /\ after \in {"none", "timeout", "exited", "stop"}
  /\ elapsed \in 0 .. StartWait
  /\ job \in {"none", "launched", "running", "wrote", "gone", "reaped"}
  /\ done \in {"none", "ok", "bad"}

(* The status is written once, by a job that runs, and FRR watches only when  *)
(* it says "ok".                                                              *)
StatusOnce ==
  /\ done # "none" => job \notin {"launched", "running"}
  /\ watch # "none" => done = "ok"
  /\ ready => done = "ok"

(* While it starts, the wrapper has said nothing, and has time.               *)
StillStarting ==
  /\ at \in Starting => after = "none" /\ failure = "none"
  /\ at \in {"alive", "nap"} => elapsed < StartWait
  /\ at = "recheck" => done # "none" \/ elapsed = StartWait \/ job = "reaped"
  /\ at = "reap" => done # "none"

(* Nothing can come any more of a job that has been reaped.                   *)
OverWithout == done = "none" /\ job \in {"reaped", "none"}

(* What it is about to say, and what it has said, of a start that failed.     *)
FailureTrue ==
  /\ after = "exited" => OverWithout
  /\ after = "timeout" => elapsed = StartWait
  /\ failure = "exited" => OverWithout
  /\ failure = "failed" => done = "bad"
  /\ failure = "timeout" => elapsed = StartWait

FrrInv == FrrTypeOK /\ StatusOnce /\ StillStarting /\ FailureTrue

LEMMA InitHolds == Init => FrrInv
BY FrrWrapperAssumption
DEF Init, InitFrr, FrrInv, FrrTypeOK, StatusOnce, StillStarting, FailureTrue, OverWithout,
    Started, Starting

(* The start: nothing is said before the recheck, which finds a status, an    *)
(* end without one, or no time left.                                          *)
LEMMA StartSteps ==
  ASSUME FrrInv, AwaitSession \/ Adopt \/ AwaitStart \/ CheckAlive \/ Nap \/ Recheck \/ Reap
  PROVE  FrrInv'
<1> USE FrrWrapperAssumption
    DEF FrrInv, FrrTypeOK, StatusOnce, StillStarting, FailureTrue, OverWithout, Started, Starting,
        At, Sleeps, Reaped, world, shown
<1>1. CASE AwaitSession
  BY <1>1 DEF AwaitSession
<1>2. CASE Adopt
  BY <1>2 DEF Adopt
<1>3. CASE AwaitStart
  BY <1>3 DEF AwaitStart
<1>4. CASE CheckAlive
  BY <1>4 DEF CheckAlive
<1>5. CASE Nap
  BY <1>5 DEF Nap
<1>6. CASE Recheck
  BY <1>6 DEF Recheck
<1>7. CASE Reap
  BY <1>7 DEF Reap, Gone
<1> QED BY <1>1, <1>2, <1>3, <1>4, <1>5, <1>6, <1>7

(* The loops that watch, and the end.                                         *)
LEMMA LaterSteps ==
  ASSUME FrrInv, \/ Probe \/ Health \/ Terminate \/ Wait \/ KillJob \/ Join \/ Cleanup
                 \/ Signalled \/ Stop \/ Stopping \/ Exit
  PROVE  FrrInv'
<1> USE FrrWrapperAssumption
    DEF FrrInv, FrrTypeOK, StatusOnce, StillStarting, FailureTrue, OverWithout, Started, Starting,
        At, Sleeps, Reaped, world, shown
<1>1. CASE Probe
  BY <1>1 DEF Probe
<1>2. CASE Health
  BY <1>2 DEF Health
<1>3. CASE Terminate
  BY <1>3 DEF Terminate
<1>4. CASE Wait
  BY <1>4 DEF Wait
<1>5. CASE KillJob
  BY <1>5 DEF KillJob, Gone
<1>6. CASE Join
  BY <1>6 DEF Join, Gone
<1>7. CASE Cleanup
  BY <1>7 DEF Cleanup
<1>8. CASE Signalled
  BY <1>8 DEF Signalled, Over
<1>9. CASE Stop
  BY <1>9 DEF Stop
<1>10. CASE Stopping
  BY <1>10 DEF Stopping
<1>11. CASE Exit
  BY <1>11 DEF Exit
<1> QED BY <1>1, <1>2, <1>3, <1>4, <1>5, <1>6, <1>7, <1>8, <1>9, <1>10, <1>11

(* The job, watchfrr, the stop command and the supervisor.                    *)
LEMMA WorldSteps ==
  ASSUME FrrInv, World
  PROVE  FrrInv'
<1> USE DEF FrrInv, FrrTypeOK, StatusOnce, StillStarting, FailureTrue, OverWithout, Started,
        Starting, wrapper, shown
<1>1. CASE JobBegins
  BY <1>1 DEF JobBegins
<1>2. CASE JobWrites
  BY <1>2 DEF JobWrites
<1>3. CASE JobEnds
  BY <1>3 DEF JobEnds
<1>4. CASE WatchTurns
  BY <1>4 DEF WatchTurns
<1>5. CASE StopEnds
  BY <1>5 DEF StopEnds
<1>6. CASE Signal
  BY <1>6 DEF Signal
<1> QED BY <1>1, <1>2, <1>3, <1>4, <1>5, <1>6 DEF World

LEMMA FrrUntouched ==
  ASSUME FrrInv, UNCHANGED frrVars
  PROVE  FrrInv'
BY DEF FrrInv, FrrTypeOK, StatusOnce, StillStarting, FailureTrue, OverWithout, frrVars

LEMMA StepHolds == FrrInv /\ [Next]_vars => FrrInv'
<1> SUFFICES ASSUME FrrInv, [Next]_vars PROVE FrrInv'
  OBVIOUS
<1>1. CASE Export \/ Rewrite \/ Import \/ Keep \/ Analyse \/ Initialize \/ Seal \/ UNCHANGED vars
  <2>1. UNCHANGED frrVars
    BY <1>1 DEF Export, Rewrite, Import, Keep, Analyse, Initialize, Seal, vars
  <2> QED BY <2>1, FrrUntouched
<1>2. CASE World
  BY <1>2, WorldSteps
<1>3. CASE AwaitSession \/ Adopt \/ AwaitStart \/ CheckAlive \/ Nap \/ Recheck \/ Reap
  BY <1>3, StartSteps
<1>4. CASE \/ Probe \/ Health \/ Terminate \/ Wait \/ KillJob \/ Join \/ Cleanup
           \/ Signalled \/ Stop \/ Stopping \/ Exit
  BY <1>4, LaterSteps
<1> QED BY <1>1, <1>2, <1>3, <1>4 DEF Next, Run, World

(* What the wrapper says agrees with the status that the start job left:      *)
(* frr.ready only after "ok", each failure text only of the end it names,     *)
(* however long it is told to wait, wherever the job ends and however often   *)
(* it is signalled.                                                           *)
THEOREM StartIsTrue == Spec => []StartTruth
<1>1. FrrInv => StartTruth
  BY DEF FrrInv, StatusOnce, FailureTrue, OverWithout, StartTruth
<1> QED BY InitHolds, StepHolds, <1>1, PTL DEF Spec

-----------------------------------------------------------------------------
(* A list is distinct if and only if no two of its places have the same.      *)
LEMMA DistinctPlaces ==
  ASSUME NEW n \in Nat, NEW q, q = [i \in 1 .. n |-> q[i]]
  PROVE  Distinct(q) <=> \A i, j \in 1 .. n : q[i] = q[j] => i = j
<1> DEFINE T == ToSet(q)
<1>1. q \in Seq(T) /\ Len(q) = n /\ T = {q[i] : i \in 1 .. n}
  BY DEF ToSet
<1>2. q \in Surjection(1 .. n, T)
  BY <1>1 DEF Surjection
<1>3. IsFiniteSet(1 .. n) /\ Cardinality(1 .. n) = n
  BY FS_Interval
<1>4. Cardinality(T) = n <=> q \in Injection(1 .. n, T)
  BY <1>2, <1>3, FS_Surjection
<1>5. q \in Injection(1 .. n, T) <=> \A i, j \in 1 .. n : q[i] = q[j] => i = j
  <2> HIDE DEF T
  <2>1. q \in [1 .. n -> T]
    BY <1>2 DEF Surjection
  <2> QED BY <2>1 DEF Injection, IsInjective
<1> QED
  BY <1>1, <1>4, <1>5 DEF Distinct

(* A list is the function of its places.                                      *)
LEMMA ListShape ==
  ASSUME NEW s, IsList(s)
  PROVE  Len(s) \in Nat /\ DOMAIN s = 1 .. Len(s) /\ s = [i \in 1 .. Len(s) |-> s[i]]
BY DEF IsList

(* The parts of a document.                                                   *)
LEMMA NodesShape ==
  ASSUME NEW doc, IsDocument(doc)
  PROVE  /\ Len(doc.nodes) \in Nat /\ DOMAIN doc.nodes = 1 .. Len(doc.nodes)
         /\ doc.nodes = [n \in 1 .. Len(doc.nodes) |-> doc.nodes[n]]
<1>1. IsList(doc.nodes)
  BY DEF IsDocument
<1> QED BY <1>1, ListShape

(* The files of a node of a document.                                         *)
LEMMA FilesShape ==
  ASSUME NEW doc, IsDocument(doc), NEW n \in DOMAIN doc.nodes
  PROVE  LET files == doc.nodes[n].files
         IN  /\ Len(files) \in Nat /\ DOMAIN files = 1 .. Len(files)
             /\ files = [f \in 1 .. Len(files) |-> files[f]]
<1>1. IsList(doc.nodes[n].files)
  BY DEF IsDocument
<1> QED BY <1>1, ListShape

(* A slot of a document is a node of it and a file of that node, ...          *)
LEMMA SlotPlace ==
  ASSUME NEW doc, IsDocument(doc), NEW s \in Slots(doc)
  PROVE  /\ s[1] \in DOMAIN doc.nodes /\ s[2] \in DOMAIN doc.nodes[s[1]].files
         /\ s = <<s[1], s[2]>> /\ s[1] \in Nat /\ s[2] \in Nat
<1>1. PICK n \in DOMAIN doc.nodes : s \in {n} \X DOMAIN doc.nodes[n].files
  BY DEF Slots
<1>2. s[1] = n /\ s[2] \in DOMAIN doc.nodes[n].files /\ s = <<s[1], s[2]>>
  BY <1>1
<1>3. DOMAIN doc.nodes \subseteq Nat
  BY NodesShape, SMTT(60)
<1>4. DOMAIN doc.nodes[n].files \subseteq Nat
  BY <1>1, FilesShape
<1> QED
  BY <1>2, <1>3, <1>4

(* ... every file has its slot, ...                                           *)
LEMMA PlaceSlot ==
  ASSUME NEW doc, NEW n \in DOMAIN doc.nodes, NEW f \in DOMAIN doc.nodes[n].files
  PROVE  <<n, f>> \in Slots(doc)
BY DEF Slots

(* ... and there are finitely many.                                           *)
LEMMA SlotsFinite ==
  ASSUME NEW doc, IsDocument(doc)
  PROVE  IsFiniteSet(Slots(doc))
<1> DEFINE N == DOMAIN doc.nodes
           F == [n \in N |-> {n} \X DOMAIN doc.nodes[n].files]
           T == {F[n] : n \in N}
<1>1. IsFiniteSet(N)
  <2>1. DOMAIN doc.nodes = 1 .. Len(doc.nodes) /\ Len(doc.nodes) \in Int
    BY NodesShape
  <2>2. IsFiniteSet(1 .. Len(doc.nodes))
    BY <2>1, FS_Interval
  <2> QED BY <2>1, <2>2
<1>2. F \in Surjection(N, T)
  BY DEF Surjection
<1>3. IsFiniteSet(T)
  <2> HIDE DEF F, T, N
  <2> QED BY <1>1, <1>2, FS_Surjection
<1>4. ASSUME NEW n \in N PROVE IsFiniteSet(F[n])
  <2> DEFINE files == doc.nodes[n].files
  <2>3. DOMAIN files = 1 .. Len(files) /\ Len(files) \in Int
    BY FilesShape
  <2>4. IsFiniteSet(1 .. Len(files))
    BY <2>3, FS_Interval
  <2>1. IsFiniteSet({n}) /\ IsFiniteSet(DOMAIN files)
    BY <2>3, <2>4, FS_Singleton
  <2>2. IsFiniteSet({n} \X DOMAIN doc.nodes[n].files)
    BY <2>1, FS_Product
  <2> QED BY <2>2
<1>5. IsFiniteSet(UNION T)
  BY <1>3, <1>4, FS_UNION
<1>6. UNION T = Slots(doc)
  BY DEF Slots
<1> QED BY <1>5, <1>6

(* What is left of a document whose files get other contents.                 *)
SameDocument(W, doc) ==
  /\ IsRecord(W, DOMAIN doc) /\ DOMAIN W = DOMAIN doc
  /\ \A f \in DOMAIN doc \ {"nodes"} : W[f] = doc[f]
  /\ DOMAIN W.nodes = DOMAIN doc.nodes
  /\ W.nodes = [n \in 1 .. Len(doc.nodes) |-> W.nodes[n]]
  /\ Slots(W) = Slots(doc)
SameNode(v, node) ==
  /\ IsRecord(v, DOMAIN node) /\ DOMAIN v = DOMAIN node /\ v.id = node.id
  /\ \A f \in DOMAIN node \ {"files"} : v[f] = node[f]
  /\ DOMAIN v.files = DOMAIN node.files
  /\ v.files = [f \in 1 .. Len(node.files) |-> v.files[f]]
SameFile(v, file, content) ==
  /\ v = [file EXCEPT !.content = content]
  /\ v.path = file.path /\ v.content = content

(* WithContents changes the contents of the files and nothing else.           *)
LEMMA OtherContents ==
  ASSUME NEW doc, IsDocument(doc), NEW contents
  PROVE  LET W == WithContents(doc, contents)
         IN  /\ SameDocument(W, doc)
             /\ \A n \in DOMAIN doc.nodes : SameNode(W.nodes[n], doc.nodes[n])
             /\ \A s \in Slots(doc) : SameFile(FileAt(W, s), FileAt(doc, s), contents[s])
<1> DEFINE W == WithContents(doc, contents)
           Files(n) == [f \in DOMAIN doc.nodes[n].files |->
                          [doc.nodes[n].files[f] EXCEPT !.content = contents[<<n, f>>]]]
           V == [n \in DOMAIN doc.nodes |-> [doc.nodes[n] EXCEPT !.files = Files(n)]]
<1>1. W = [doc EXCEPT !.nodes = V]
  BY DEF WithContents
<1>2. IsRecord(doc, {"schema", "id", "name", "missing", "nodes"})
  BY DEF IsDocument
<1>3. W.nodes = V /\ IsRecord(W, DOMAIN doc) /\ DOMAIN W = DOMAIN doc
      /\ \A f \in DOMAIN doc \ {"nodes"} : W[f] = doc[f]
  <2> HIDE DEF V
  <2> QED BY <1>1, <1>2 DEF IsRecord
<1>4. ASSUME NEW n \in DOMAIN doc.nodes
      PROVE  /\ IsRecord(W.nodes[n], DOMAIN doc.nodes[n])
             /\ W.nodes[n].id = doc.nodes[n].id /\ DOMAIN W.nodes[n] = DOMAIN doc.nodes[n]
             /\ \A f \in DOMAIN doc.nodes[n] \ {"files"} : W.nodes[n][f] = doc.nodes[n][f]
             /\ W.nodes[n].files = Files(n)
  <2>1. IsRecord(doc.nodes[n], {"id", "files"})
    BY DEF IsDocument
  <2>2. W.nodes[n] = [doc.nodes[n] EXCEPT !.files = Files(n)]
    BY <1>3
  <2> HIDE DEF Files
  <2> QED BY <2>1, <2>2 DEF IsRecord
<1>5. \A n \in DOMAIN doc.nodes :
        /\ DOMAIN W.nodes[n].files = DOMAIN doc.nodes[n].files
        /\ W.nodes[n].files = [f \in 1 .. Len(doc.nodes[n].files) |-> W.nodes[n].files[f]]
  <2> TAKE n \in DOMAIN doc.nodes
  <2>1. W.nodes[n].files = Files(n)
    BY <1>4
  <2>2. DOMAIN doc.nodes[n].files = 1 .. Len(doc.nodes[n].files)
    BY FilesShape
  <2>3. DOMAIN Files(n) = DOMAIN doc.nodes[n].files /\ Files(n) = [f \in DOMAIN doc.nodes[n].files |-> Files(n)[f]]
    OBVIOUS
  <2> HIDE DEF Files, W
  <2> QED BY <2>1, <2>2, <2>3
<1>6. DOMAIN W.nodes = DOMAIN doc.nodes /\ W.nodes = [n \in 1 .. Len(doc.nodes) |-> W.nodes[n]]
  <2>1. DOMAIN V = DOMAIN doc.nodes /\ V = [n \in DOMAIN doc.nodes |-> V[n]]
    OBVIOUS
  <2> QED BY <1>3, <2>1, NodesShape
<1>7. Slots(W) = Slots(doc)
  BY <1>5, <1>6 DEF Slots
<1>8. ASSUME NEW s \in Slots(doc)
      PROVE  /\ FileAt(W, s) = [FileAt(doc, s) EXCEPT !.content = contents[s]]
             /\ FileAt(W, s).path = FileAt(doc, s).path
             /\ FileAt(W, s).content = contents[s]
  <2>1. /\ s[1] \in DOMAIN doc.nodes /\ s[2] \in DOMAIN doc.nodes[s[1]].files
        /\ s = <<s[1], s[2]>>
    BY SlotPlace
  <2>2. IsRecord(FileAt(doc, s), {"path", "content"})
    BY <2>1 DEF IsDocument, IsFile, FileAt
  <2>3. FileAt(W, s) = [FileAt(doc, s) EXCEPT !.content = contents[s]]
    <3>1. W.nodes[s[1]].files = Files(s[1])
      BY <2>1, <1>4
    <3>2. Files(s[1])[s[2]] = [FileAt(doc, s) EXCEPT !.content = contents[<<s[1], s[2]>>]]
      BY <2>1 DEF FileAt
    <3>3. contents[<<s[1], s[2]>>] = contents[s]
      BY <2>1
    <3> QED BY <3>1, <3>2, <3>3 DEF FileAt
  <2> QED BY <2>2, <2>3 DEF IsRecord
<1>9. SameDocument(W, doc)
  <2> HIDE DEF W
  <2> QED BY <1>3, <1>6, <1>7 DEF SameDocument
<1>10. ASSUME NEW n \in DOMAIN doc.nodes PROVE SameNode(W.nodes[n], doc.nodes[n])
  <2> HIDE DEF W
  <2> QED BY <1>4, <1>5 DEF SameNode
<1>11. ASSUME NEW s \in Slots(doc) PROVE SameFile(FileAt(W, s), FileAt(doc, s), contents[s])
  <2> HIDE DEF W
  <2> QED BY <1>8 DEF SameFile
<1> QED BY <1>9, <1>10, <1>11
-----------------------------------------------------------------------------
(* An archive that is accepted has a file for each of its rows, and no file   *)
(* but those is other than in its document.                                   *)
LEMMA RowsOnce ==
  ASSUME NEW a, IsArchive(a), ValidRows(a)
  PROVE  \A i, j \in DOMAIN a.rows : a.rows[i].id = a.rows[j].id => i = j
<1> DEFINE q == Field(a.rows, "id")
<1>1. DOMAIN a.rows = 1 .. Len(a.rows) /\ Len(a.rows) \in Nat
  BY ListShape DEF IsArchive
<1>2. q = [i \in 1 .. Len(a.rows) |-> a.rows[i].id]
  BY <1>1 DEF Field
<1>3. q = [i \in 1 .. Len(a.rows) |-> q[i]]
  BY <1>2
<1>4. Distinct(q)
  BY DEF ValidRows
<1>5. \A i, j \in 1 .. Len(a.rows) : q[i] = q[j] => i = j
  <2> HIDE DEF q
  <2> QED BY <1>1, <1>3, <1>4, DistinctPlaces
<1> QED BY <1>1, <1>2, <1>5

(* What an archive that is accepted has passed, and what it becomes.          *)
LEMMA DecodedAs ==
  ASSUME NEW a, Decoded(a).ok
  PROVE  /\ Unpacks(a) /\ Restorable(a)
         /\ Decoded(a).project = Migrated(Restored(a)) /\ Valid(Migrated(Restored(a)))
<1>1. CASE ~Unpacks(a) \/ ~Restorable(a) \/ a.document.schema # a.schema \/ TooNew(a.document)
  BY <1>1 DEF Decoded, Refused
<1>2. CASE ~(~Unpacks(a) \/ ~Restorable(a) \/ a.document.schema # a.schema \/ TooNew(a.document))
  BY <1>2 DEF Decoded, Refused
<1> QED BY <1>1, <1>2

(* The migration leaves the nodes as they are.                                *)
LEMMA MigratedNodes ==
  ASSUME NEW doc, IsRecord(doc, {"schema", "id", "name", "missing", "nodes"})
  PROVE  /\ Migrated(doc).nodes = doc.nodes
         /\ Migrated(doc).id = doc.id /\ Migrated(doc).name = doc.name
BY DEF Migrated, FromUnversioned, IsRecord

(* What the file at s of the document of a is read from the entries.          *)
ReadFrom(a, s) ==
  LET row == CHOOSE r \in ToSet(a.rows) : r.id = Referred(a, s)
  IN  [kind |-> row.encoding, value |-> a.entries[row.at].value]

(* What an import puts together: the document, with the files it refers to.   *)
LEMMA RestoredAs ==
  ASSUME NEW a, IsArchive(a)
  PROVE  Restored(a) = WithContents(a.document, [s \in Slots(a.document) |->
           IF s \in References(a) THEN ReadFrom(a, s) ELSE FileAt(a.document, s).content])
BY DEF Restored, ReadFrom

(* A file that refers to the id of a row gets what that row says.             *)
LEMMA ReadRow ==
  ASSUME NEW a, IsArchive(a), ValidRows(a), NEW i \in DOMAIN a.rows, NEW s,
         Referred(a, s) = a.rows[i].id
  PROVE  ReadFrom(a, s) = [kind |-> a.rows[i].encoding, value |-> a.entries[a.rows[i].at].value]
<1> DEFINE row == CHOOSE r \in ToSet(a.rows) : r.id = Referred(a, s)
<1>1. a.rows[i] \in ToSet(a.rows)
  BY DEF ToSet
<1>2. row \in ToSet(a.rows) /\ row.id = Referred(a, s)
  BY <1>1
<1>3. PICK j \in DOMAIN a.rows : row = a.rows[j]
  BY <1>2 DEF ToSet
<1>4. i = j
  BY <1>2, <1>3, RowsOnce
<1> QED BY <1>3, <1>4 DEF ReadFrom
(* Every row is what one file refers to: there are as many of both.           *)
LEMMA RowReferred ==
  ASSUME NEW a, IsArchive(a), Restorable(a), NEW i \in DOMAIN a.rows
  PROVE  \E s \in References(a) : Referred(a, s) = a.rows[i].id
<1> DEFINE R == References(a)
           q == Field(a.rows, "id")
           T == ToSet(q)
           F == [s \in R |-> Referred(a, s)]
<1>1. DOMAIN a.rows = 1 .. Len(a.rows) /\ Len(a.rows) \in Nat
  BY ListShape DEF IsArchive
<1>2. q = [j \in 1 .. Len(a.rows) |-> a.rows[j].id]
  BY <1>1 DEF Field
<1>3. Len(q) = Len(a.rows) /\ T = {a.rows[j].id : j \in DOMAIN a.rows}
  <2>1. q = [j \in 1 .. Len(a.rows) |-> q[j]] /\ DOMAIN q = DOMAIN a.rows
    BY <1>1, <1>2
  <2>2. q \in Seq(T)
    <3> HIDE DEF q
    <3> QED BY <2>1, <1>1 DEF ToSet
  <2>3. Len(q) = Len(a.rows)
    <3> HIDE DEF q, T
    <3> QED BY <2>1, <2>2, <1>1
  <2> QED BY <2>1, <2>3, <1>2 DEF ToSet
<1>4. Cardinality(T) = Len(a.rows)
  BY <1>3 DEF Restorable, ValidRows, Distinct
<1>5. IsFiniteSet(T)
  <2>1. [j \in 1 .. Len(a.rows) |-> a.rows[j].id] \in Surjection(1 .. Len(a.rows), T)
    BY <1>1, <1>3 DEF Surjection
  <2>2. IsFiniteSet(1 .. Len(a.rows))
    BY <1>1, FS_Interval
  <2> HIDE DEF T
  <2> QED BY <2>1, <2>2, FS_Surjection
<1>6. F \in Injection(R, T)
  <2>1. ASSUME NEW s \in R PROVE Referred(a, s) \in T
    <3>1. PICK row \in ToSet(a.rows) : Refers(a, s, row)
      BY DEF Restorable
    <3>2. row.id = Referred(a, s)
      BY <3>1 DEF Refers
    <3> QED BY <3>1, <3>2, <1>3 DEF ToSet
  <2>2. \A s, t \in R : Referred(a, s) = Referred(a, t) => s = t
    BY DEF Restorable
  <2> HIDE DEF R, T
  <2> QED BY <2>1, <2>2 DEF Injection, IsInjective
<1>7. F \in Surjection(R, T)
  <2>1. Cardinality(R) = Cardinality(T)
    BY <1>4 DEF Restorable
  <2> HIDE DEF R, T, F
  <2> QED BY <1>5, <1>6, <2>1, FS_Injection
<1>8. a.rows[i].id \in T
  BY <1>3
<1>9. PICK s \in R : F[s] = a.rows[i].id
  <2> HIDE DEF R, T, F
  <2> QED BY <1>7, <1>8 DEF Surjection
<1> QED BY <1>9

(* A project that is valid has no two files of one path in one node.          *)
LEMMA SlotNamed ==
  ASSUME NEW doc, NEW n \in Nat, doc.nodes = [k \in 1 .. n |-> doc.nodes[k]], Valid(doc),
         \A k \in 1 .. n : /\ Len(doc.nodes[k].files) \in Nat
                           /\ DOMAIN doc.nodes[k].files = 1 .. Len(doc.nodes[k].files),
         NEW s \in Slots(doc), NEW t \in Slots(doc), s = <<s[1], s[2]>>, t = <<t[1], t[2]>>,
         s[1] \in 1 .. n, t[1] \in 1 .. n,
         s[2] \in DOMAIN doc.nodes[s[1]].files, t[2] \in DOMAIN doc.nodes[t[1]].files,
         doc.nodes[s[1]].id = doc.nodes[t[1]].id, FileAt(doc, s).path = FileAt(doc, t).path
  PROVE  s = t
<1>1. DOMAIN doc.nodes = 1 .. n
  OBVIOUS
<1>2. Distinct(Field(doc.nodes, "id")) /\ ValidNode(doc.nodes[s[1]])
  BY <1>1 DEF Valid, ValidNodes
<1>3. s[1] = t[1]
  <2> DEFINE q == Field(doc.nodes, "id")
  <2>1. q = [k \in 1 .. n |-> doc.nodes[k].id]
    BY <1>1 DEF Field
  <2>2. q = [k \in 1 .. n |-> q[k]]
    BY <2>1
  <2>3. \A i, j \in 1 .. n : q[i] = q[j] => i = j
    <3> HIDE DEF q
    <3> QED BY <2>2, <1>2, DistinctPlaces DEF q
  <2> QED BY <2>1, <2>3
<1>4. s[2] = t[2]
  <2> DEFINE files == doc.nodes[s[1]].files
             q == Field(files, "path")
             m == Len(files)
  <2>1. DOMAIN files = 1 .. m /\ m \in Nat
    OBVIOUS
  <2>2. q = [k \in 1 .. m |-> files[k].path]
    BY <2>1 DEF Field
  <2>3. q = [k \in 1 .. m |-> q[k]]
    BY <2>2
  <2>4. Distinct(q)
    BY <1>2 DEF ValidNode, ValidFiles
  <2>5. \A i, j \in 1 .. m : q[i] = q[j] => i = j
    <3> HIDE DEF q, m
    <3> QED BY <2>1, <2>3, <2>4, DistinctPlaces
  <2>6. q[s[2]] = q[t[2]] /\ s[2] \in 1 .. m /\ t[2] \in 1 .. m
    BY <2>1, <2>2, <1>3, ZenonT(60) DEF FileAt
  <2> HIDE DEF q, m
  <2> QED BY <2>5, <2>6
<1> QED BY <1>3, <1>4

(* What ImportedWhole says of the archive a that was accepted as the project  *)
(* P.                                                                         *)
Whole(a, P) ==
  /\ Valid(P)
  /\ \A row \in ToSet(a.rows) :
       Cardinality({ s \in Slots(P) :
         /\ P.nodes[s[1]].id = row.node /\ FileAt(P, s).path = row.path
         /\ FileAt(P, s).content = [kind |-> "text", value |-> a.entries[row.at].value]
         /\ FileAt(a.document, s).content # FileAt(P, s).content }) = 1
  /\ Cardinality({ s \in Slots(P) :
       FileAt(a.document, s).content # FileAt(P, s).content }) = Len(a.rows)

LEMMA ImportWhole ==
  ASSUME NEW a, IsArchive(a), Decoded(a).ok, NEW P, P = Decoded(a).project
  PROVE  Whole(a, P)
<1> DEFINE D == a.document
           C == [s \in Slots(D) |-> IF s \in References(a) THEN ReadFrom(a, s) ELSE FileAt(D, s).content]
           W == WithContents(D, C)
           R == References(a)
           Differ == { s \in Slots(P) : FileAt(D, s).content # FileAt(P, s).content }
<1>1. IsDocument(D) /\ Restorable(a) /\ ValidRows(a) /\ P = Migrated(W) /\ Valid(P)
  BY DecodedAs, RestoredAs DEF IsArchive, Restorable
<1>2. /\ SameDocument(W, D)
      /\ \A n \in DOMAIN D.nodes : SameNode(W.nodes[n], D.nodes[n])
      /\ \A s \in Slots(D) : SameFile(FileAt(W, s), FileAt(D, s), C[s])
  <2> HIDE DEF C, D
  <2> QED BY <1>1, OtherContents
<1>3. P.nodes = W.nodes
  <2>1. {"schema", "id", "name", "missing", "nodes"} \subseteq DOMAIN D
    BY <1>1 DEF IsDocument, IsRecord
  <2>2. IsRecord(W, {"schema", "id", "name", "missing", "nodes"})
    BY <1>2, <2>1 DEF IsRecord, SameDocument
  <2> QED BY <1>1, <2>2, MigratedNodes
<1>4. Slots(P) = Slots(D)
  <2>1. Slots(P) = Slots(W)
    <3> HIDE DEF W
    <3> QED BY <1>3 DEF Slots
  <2> QED BY <1>2, <2>1 DEF SameDocument
<1>10. ASSUME NEW s \in Slots(D)
       PROVE  FileAt(P, s).path = FileAt(D, s).path /\ FileAt(P, s).content = C[s]
  <2>1. FileAt(P, s) = FileAt(W, s)
    <3> HIDE DEF W
    <3> QED BY <1>3 DEF FileAt
  <2>2. SameFile(FileAt(W, s), FileAt(D, s), C[s])
    BY <1>2
  <2> HIDE DEF W, C
  <2> QED BY <2>1, <2>2 DEF SameFile
<1>11. ASSUME NEW n \in DOMAIN D.nodes
       PROVE  /\ n \in DOMAIN P.nodes /\ P.nodes[n].id = D.nodes[n].id
              /\ DOMAIN P.nodes[n].files = DOMAIN D.nodes[n].files
              /\ P.nodes[n].files = [f \in 1 .. Len(D.nodes[n].files) |-> P.nodes[n].files[f]]
  <2>1. SameNode(P.nodes[n], D.nodes[n]) /\ DOMAIN P.nodes = DOMAIN D.nodes
    <3> HIDE DEF W
    <3> QED BY <1>2, <1>3 DEF SameDocument
  <2> QED BY <2>1 DEF SameNode
<1>5. ASSUME NEW s \in Slots(D), NEW t \in Slots(D),
             P.nodes[s[1]].id = P.nodes[t[1]].id, FileAt(P, s).path = FileAt(P, t).path
      PROVE  s = t
  <2>1. /\ s = <<s[1], s[2]>> /\ s[1] \in DOMAIN D.nodes /\ s[2] \in DOMAIN D.nodes[s[1]].files
        /\ t = <<t[1], t[2]>> /\ t[1] \in DOMAIN D.nodes /\ t[2] \in DOMAIN D.nodes[t[1]].files
    BY <1>1, SlotPlace
  <2>2. Len(D.nodes) \in Nat /\ DOMAIN D.nodes = 1 .. Len(D.nodes)
    BY <1>1, NodesShape
  <2>3. P.nodes = [k \in 1 .. Len(D.nodes) |-> P.nodes[k]]
    BY <1>2, <1>3 DEF SameDocument
  <2>4. ASSUME NEW k \in 1 .. Len(D.nodes)
        PROVE  /\ Len(P.nodes[k].files) \in Nat
               /\ DOMAIN P.nodes[k].files = 1 .. Len(P.nodes[k].files)
               /\ DOMAIN P.nodes[k].files = DOMAIN D.nodes[k].files
    <3> DEFINE m == Len(D.nodes[k].files)
               files == P.nodes[k].files
    <3>1. m \in Nat /\ DOMAIN D.nodes[k].files = 1 .. m
      BY <1>1, <2>2, FilesShape
    <3>2. files = [f \in 1 .. m |-> files[f]]
      BY <1>11, <2>2
    <3>3. Len(files) = m /\ DOMAIN files = 1 .. m
      <4> HIDE DEF m, files
      <4>1. files \in Seq({files[f] : f \in 1 .. m})
        BY <3>1, <3>2
      <4> QED BY <3>1, <3>2, <4>1
    <3> QED BY <3>3, <1>11, <2>2
  <2>5. s \in Slots(P) /\ t \in Slots(P)
    BY <1>4
  <2>6. /\ s[1] \in 1 .. Len(D.nodes) /\ t[1] \in 1 .. Len(D.nodes)
        /\ s[2] \in DOMAIN P.nodes[s[1]].files /\ t[2] \in DOMAIN P.nodes[t[1]].files
    BY <2>1, <2>2, <2>4
  <2> HIDE DEF D
  <2> QED BY <1>1, <1>5, <2>6, <2>1, <2>2, <2>3, <2>4, <2>5, SlotNamed
<1>6. ASSUME NEW s \in R, NEW i \in DOMAIN a.rows, Referred(a, s) = a.rows[i].id
      PROVE  /\ s \in Slots(D)
             /\ D.nodes[s[1]].id = a.rows[i].node /\ FileAt(D, s).path = a.rows[i].path
             /\ FileAt(P, s).content = [kind |-> "text", value |-> a.entries[a.rows[i].at].value]
             /\ FileAt(D, s).content # FileAt(P, s).content
  <2>1. s \in Slots(D) /\ FileAt(D, s).content.kind = "ref"
    BY DEF References
  <2>2. PICK row \in ToSet(a.rows) : Refers(a, s, row)
    BY <1>1 DEF Restorable
  <2>3. PICK j \in DOMAIN a.rows : row = a.rows[j]
    BY DEF ToSet
  <2>4. j = i
    <3>1. a.rows[j].id = a.rows[i].id
      BY <1>6, <2>2, <2>3 DEF Refers
    <3> QED BY <1>1, <3>1, RowsOnce
  <2>5. FileAt(P, s).content = [kind |-> a.rows[i].encoding, value |-> a.entries[a.rows[i].at].value]
    <3>1. FileAt(P, s).content = ReadFrom(a, s)
      BY <1>10, <2>1
    <3>2. Referred(a, s) = a.rows[i].id
      BY <1>6
    <3> QED BY <1>1, <3>1, <3>2, ReadRow
  <2>6. a.rows[i].encoding \in {"text", "data"}
    BY <1>1 DEF ValidRows
  <2>7. FileAt(P, s).content.kind \in {"text", "lone"}
    <3>1. /\ s[1] \in DOMAIN P.nodes /\ s[2] \in DOMAIN P.nodes[s[1]].files
      <4>1. s[1] \in DOMAIN D.nodes /\ s[2] \in DOMAIN D.nodes[s[1]].files
        BY <1>1, <2>1, SlotPlace
      <4> QED BY <4>1, <1>11
    <3>2. ValidFiles(P.nodes[s[1]])
      BY <1>1, <3>1 DEF Valid, ValidNodes, ValidNode
    <3> QED BY <3>1, <3>2 DEF ValidFiles, FileAt
  <2>8. a.rows[i].encoding = "text"
    BY <2>5, <2>6, <2>7
  <2>9. FileAt(D, s).content # FileAt(P, s).content
    BY <2>1, <2>5, <2>8
  <2> QED BY <2>1, <2>2, <2>3, <2>4, <2>5, <2>8, <2>9 DEF Refers
<1>7. Differ = R
  <2>1. ASSUME NEW s \in R PROVE s \in Differ
    <3>1. PICK row \in ToSet(a.rows) : Refers(a, s, row)
      BY <1>1 DEF Restorable
    <3>2. PICK i \in DOMAIN a.rows : row = a.rows[i]
      BY DEF ToSet
    <3>3. Referred(a, s) = a.rows[i].id
      BY <3>1, <3>2 DEF Refers
    <3> QED BY <3>3, <1>4, <1>6
  <2>2. ASSUME NEW s \in Differ PROVE s \in R
    <3>1. s \in Slots(D) /\ FileAt(P, s).content = C[s]
      BY <1>4, <1>10
    <3> QED BY <3>1
  <2> QED BY <2>1, <2>2
<1>8. Cardinality(Differ) = Len(a.rows)
  BY <1>1, <1>7 DEF Restorable
<1>9. ASSUME NEW row \in ToSet(a.rows)
      PROVE  Cardinality({ s \in Slots(P) :
                /\ P.nodes[s[1]].id = row.node /\ FileAt(P, s).path = row.path
                /\ FileAt(P, s).content = [kind |-> "text", value |-> a.entries[row.at].value]
                /\ FileAt(D, s).content # FileAt(P, s).content }) = 1
  <2> DEFINE Its == { s \in Slots(P) :
                /\ P.nodes[s[1]].id = row.node /\ FileAt(P, s).path = row.path
                /\ FileAt(P, s).content = [kind |-> "text", value |-> a.entries[row.at].value]
                /\ FileAt(D, s).content # FileAt(P, s).content }
  <2>1. PICK i \in DOMAIN a.rows : row = a.rows[i]
    BY DEF ToSet
  <2>2. PICK s \in R : Referred(a, s) = row.id
    BY <1>1, <2>1, RowReferred
  <2>3. /\ s \in Slots(D) /\ D.nodes[s[1]].id = row.node /\ FileAt(D, s).path = row.path
        /\ FileAt(P, s).content = [kind |-> "text", value |-> a.entries[row.at].value]
        /\ FileAt(D, s).content # FileAt(P, s).content
    BY <1>6, <2>1, <2>2
  <2>4. P.nodes[s[1]].id = D.nodes[s[1]].id
    <3>1. s[1] \in DOMAIN D.nodes
      BY <1>1, <2>3, SlotPlace
    <3> QED BY <3>1, <1>11
  <2>5. s \in Its
    BY <2>3, <2>4, <1>4, <1>10
  <2>6. \A t \in Its : t = s
    BY <2>5, <1>4, <1>5
  <2>7. Its = {s}
    <3> HIDE DEF Its
    <3> QED BY <2>5, <2>6
  <2> QED BY <2>7, FS_Singleton
<1> QED BY <1>1, <1>8, <1>9 DEF Whole
-----------------------------------------------------------------------------
(* Slots are in an order.                                                     *)
LEMMA SlotOrder ==
  ASSUME NEW doc, IsDocument(doc), NEW s \in Slots(doc), NEW t \in Slots(doc), NEW u \in Slots(doc)
  PROVE  /\ ~Earlier(s, s)
         /\ Earlier(s, t) /\ Earlier(t, u) => Earlier(s, u)
         /\ Earlier(s, t) \/ s = t \/ Earlier(t, s)
<1>1. /\ s[1] \in Nat /\ s[2] \in Nat /\ t[1] \in Nat /\ t[2] \in Nat /\ u[1] \in Nat /\ u[2] \in Nat
      /\ s = <<s[1], s[2]>> /\ t = <<t[1], t[2]>>
  BY SlotPlace
<1>2. s[1] = t[1] /\ s[2] = t[2] => s = t
  BY <1>1
<1> QED BY <1>1, <1>2 DEF Earlier

(* The files that an export carries are numbered from 0, in their order.      *)
LEMMA Numbers ==
  ASSUME NEW doc, IsDocument(doc)
  PROVE  LET C == Carried(doc) IN
         /\ Cardinality(C) \in Nat /\ IsFiniteSet(C)
         /\ \A s \in C : Number(doc, s) \in 0 .. Cardinality(C) - 1
         /\ \A s, t \in C : Number(doc, s) = Number(doc, t) => s = t
         /\ \A k \in 0 .. Cardinality(C) - 1 : \E s \in C : Number(doc, s) = k
<1> DEFINE C == Carried(doc)
           Before(s) == { t \in C : Earlier(t, s) }
           N == Cardinality(C)
           F == [s \in C |-> Number(doc, s)]
<1>1. C \subseteq Slots(doc) /\ IsFiniteSet(C) /\ N \in Nat
  <2>1. C \in SUBSET Slots(doc)
    BY DEF Carried
  <2>2. IsFiniteSet(C)
    <3> HIDE DEF C
    <3> QED BY <2>1, SlotsFinite, FS_Subset
  <2> QED BY <2>1, <2>2, FS_CardinalityType
<1> HIDE DEF C
<1>2. ASSUME NEW s \in C
      PROVE  /\ IsFiniteSet(Before(s)) /\ Number(doc, s) = Cardinality(Before(s))
             /\ Number(doc, s) \in Nat /\ s \notin Before(s)
  <2>1. Before(s) \in SUBSET C
    OBVIOUS
  <2>2. IsFiniteSet(Before(s))
    <3> HIDE DEF Before
    <3> QED BY <2>1, <1>1, FS_Subset
  <2>3. Number(doc, s) = Cardinality(Before(s))
    BY DEF Number, C
  <2>4. Cardinality(Before(s)) \in Nat
    <3> HIDE DEF Before
    <3> QED BY <2>2, FS_CardinalityType
  <2>5. ~Earlier(s, s)
    BY <1>1, SlotOrder
  <2> QED BY <2>2, <2>3, <2>4, <2>5
<1>4. ASSUME NEW s \in C, NEW t \in C, Earlier(s, t)
      PROVE  Number(doc, s) < Number(doc, t)
  <2> DEFINE S == Before(s) \cup {s}
  <2>1. S \subseteq Before(t)
    <3>1. \A u \in C : Earlier(u, s) => Earlier(u, t)
      BY <1>1, <1>4, SlotOrder
    <3> QED BY <3>1, <1>4
  <2>2. IsFiniteSet(S) /\ Cardinality(S) = Cardinality(Before(s)) + 1
    <3> HIDE DEF Before
    <3> QED BY <1>2, FS_AddElement
  <2>3. Cardinality(S) <= Cardinality(Before(t))
    <3> HIDE DEF Before, S
    <3> QED BY <1>2, <2>1, FS_Subset
  <2>4. /\ Number(doc, s) = Cardinality(Before(s)) /\ Number(doc, s) \in Nat
        /\ Number(doc, t) = Cardinality(Before(t)) /\ Number(doc, t) \in Nat
    BY <1>2
  <2> HIDE DEF Before, S
  <2> QED BY <2>2, <2>3, <2>4
<1>5. ASSUME NEW s \in C PROVE Number(doc, s) \in 0 .. N - 1
  <2> DEFINE S == Before(s) \cup {s}
  <2>1. S \in SUBSET C
    OBVIOUS
  <2>2. IsFiniteSet(S) /\ Cardinality(S) = Cardinality(Before(s)) + 1
    <3> HIDE DEF Before
    <3> QED BY <1>2, FS_AddElement
  <2>3. Cardinality(S) <= N
    <3> HIDE DEF Before, S
    <3> QED BY <1>1, <2>1, FS_Subset
  <2>4. Number(doc, s) = Cardinality(Before(s)) /\ Number(doc, s) \in Nat
    BY <1>2
  <2> HIDE DEF Before, S, N
  <2> QED BY <1>1, <2>2, <2>3, <2>4
<1>6. ASSUME NEW s \in C, NEW t \in C, Number(doc, s) = Number(doc, t)
      PROVE  s = t
  <2>1. Earlier(s, t) \/ s = t \/ Earlier(t, s)
    BY <1>1, SlotOrder
  <2>2. Number(doc, s) \in Nat /\ Number(doc, t) \in Nat
    BY <1>2
  <2> QED BY <2>1, <2>2, <1>4, <1>6
<1>7. F \in Injection(C, 0 .. N - 1)
  <2> HIDE DEF N
  <2> QED BY <1>5, <1>6 DEF Injection, IsInjective
<1>8. IsFiniteSet(0 .. N - 1) /\ Cardinality(0 .. N - 1) = N
  <2> HIDE DEF N
  <2> QED BY <1>1, FS_Interval
<1>9. F \in Surjection(C, 0 .. N - 1)
  <2> DEFINE T == 0 .. N - 1
  <2>1. Cardinality(C) = Cardinality(T) /\ IsFiniteSet(T) /\ F \in Injection(C, T)
    BY <1>7, <1>8
  <2>2. F \in Surjection(C, T)
    <3> HIDE DEF T, F
    <3> QED BY <2>1, FS_Injection
  <2> QED BY <2>2
<1>10. \A k \in 0 .. N - 1 : \E s \in C : Number(doc, s) = k
  <2> HIDE DEF N
  <2> QED BY <1>9 DEF Surjection
<1> QED BY <1>1, <1>5, <1>6, <1>10 DEF C
(* What an export has for the file at s, and where.                           *)
LEMMA NumberedAt ==
  ASSUME NEW doc, IsDocument(doc), NEW s \in Carried(doc)
  PROVE  Numbered(doc, Number(doc, s)) = s
<1> DEFINE C == Carried(doc)
           k == Number(doc, s)
           t == CHOOSE u \in C : Number(doc, u) = k
<1>1. \A u, v \in C : Number(doc, u) = Number(doc, v) => u = v
  BY Numbers
<1>2. t \in C /\ Number(doc, t) = k
  OBVIOUS
<1> HIDE DEF C, k
<1>3. t = s
  BY <1>1, <1>2 DEF k, C
<1> QED BY <1>3 DEF Numbered, k, C

(* Every number below the count of the files is that of a file.               *)
LEMMA NumberedFile ==
  ASSUME NEW doc, IsDocument(doc), NEW k \in 0 .. Cardinality(Carried(doc)) - 1
  PROVE  Numbered(doc, k) \in Carried(doc) /\ Number(doc, Numbered(doc, k)) = k
<1>1. \E s \in Carried(doc) : Number(doc, s) = k
  BY Numbers
<1> QED BY <1>1 DEF Numbered

(* The contents that an export writes: the files it carries by number.        *)
ExportedContents(doc) == [s \in Slots(doc) |->
  IF s \in Carried(doc) THEN [kind |-> "ref", value |-> Number(doc, s)] ELSE FileAt(doc, s).content]

(* What an export that is not refused has written.                            *)
LEMMA ExportedAs ==
  ASSUME NEW doc, NEW large, Exported(doc, large).ok
  PROVE  LET a == Exported(doc, large)
             count == Cardinality(Carried(doc))
         IN  /\ \A s \in Slots(doc) : FileAt(doc, s).content.kind # "lone"
             /\ a.id = doc.id /\ a.name = doc.name /\ a.schema = doc.schema
             /\ a.document = WithContents(doc, ExportedContents(doc))
             /\ a.rows = [i \in 1 .. count |-> Row(doc, Numbered(doc, i - 1), i - 1)]
             /\ a.entries = [k \in 0 .. count - 1 |->
                  [value |-> FileAt(doc, Numbered(doc, k)).content.value,
                   utf8 |-> FileAt(doc, Numbered(doc, k)).content.kind = "text"]]
<1> DEFINE a == Exported(doc, large)
           all == Extracted(doc)
<1>1. CASE \E s \in Slots(doc) : FileAt(doc, s).content.kind = "lone"
  BY <1>1 DEF Exported, Refused
<1>2. CASE ~\E s \in Slots(doc) : FileAt(doc, s).content.kind = "lone"
  <2>1. a = [ok |-> TRUE, large |-> large, sound |-> {"zip", "manifest", "project"},
             id |-> doc.id, name |-> doc.name, schema |-> doc.schema,
             rows |-> all.rows, entries |-> all.entries, document |-> all.document]
    BY <1>2 DEF Exported
  <2>2. /\ a.id = doc.id /\ a.name = doc.name /\ a.schema = doc.schema
        /\ a.document = all.document /\ a.rows = all.rows /\ a.entries = all.entries
    <3> HIDE DEF a, all
    <3> QED BY <2>1
  <2>3. /\ all.document = WithContents(doc, ExportedContents(doc))
        /\ all.rows = [i \in 1 .. Cardinality(Carried(doc)) |-> Row(doc, Numbered(doc, i - 1), i - 1)]
        /\ all.entries = [k \in 0 .. Cardinality(Carried(doc)) - 1 |->
              [value |-> FileAt(doc, Numbered(doc, k)).content.value,
               utf8 |-> FileAt(doc, Numbered(doc, k)).content.kind = "text"]]
    BY DEF Extracted, ExportedContents
  <2> QED BY <1>2, <2>2, <2>3
<1> QED BY <1>1, <1>2

(* The export of a document is an archive.                                    *)
LEMMA ExportedShape ==
  ASSUME NEW doc, IsDocument(doc), NEW large, Exported(doc, large).ok
  PROVE  LET a == Exported(doc, large)
             D == a.document
         IN  /\ IsArchive(a)
             /\ DOMAIN a.rows = 1 .. Cardinality(Carried(doc))
             /\ Len(a.rows) = Cardinality(Carried(doc))
             /\ Slots(D) = Slots(doc)
             /\ \A n \in DOMAIN doc.nodes : D.nodes[n].id = doc.nodes[n].id
             /\ \A s \in Slots(doc) : /\ FileAt(D, s).path = FileAt(doc, s).path
                                      /\ FileAt(D, s).content = ExportedContents(doc)[s]
<1> DEFINE a == Exported(doc, large)
           D == a.document
           N == Cardinality(Carried(doc))
           E == ExportedContents(doc)
<1>1. N \in Nat /\ a.rows = [i \in 1 .. N |-> Row(doc, Numbered(doc, i - 1), i - 1)] /\ D = WithContents(doc, E)
  BY Numbers, ExportedAs
<1>2. a.rows = [i \in 1 .. N |-> a.rows[i]] /\ DOMAIN a.rows = 1 .. N
  <2> HIDE DEF a, N
  <2> QED BY <1>1
<1>3. IsList(a.rows) /\ Len(a.rows) = N
  <2> DEFINE rows == a.rows
  <2>1. rows = [i \in 1 .. N |-> rows[i]] /\ DOMAIN rows = 1 .. N /\ N \in Nat
    BY <1>1, <1>2
  <2> HIDE DEF rows, N
  <2>2. rows \in Seq(ToSet(rows))
    BY <2>1 DEF ToSet
  <2>3. Len(rows) = N
    BY <2>1, <2>2
  <2> QED BY <2>2, <2>3 DEF IsList, rows
<1>4. /\ SameDocument(D, doc)
      /\ \A n \in DOMAIN doc.nodes : SameNode(D.nodes[n], doc.nodes[n])
      /\ \A s \in Slots(doc) : SameFile(FileAt(D, s), FileAt(doc, s), E[s])
  <2>1. LET W == WithContents(doc, E)
        IN  /\ SameDocument(W, doc)
            /\ \A n \in DOMAIN doc.nodes : SameNode(W.nodes[n], doc.nodes[n])
            /\ \A s \in Slots(doc) : SameFile(FileAt(W, s), FileAt(doc, s), E[s])
    <3> HIDE DEF E
    <3> QED BY OtherContents
  <2> HIDE DEF D, E
  <2> QED BY <1>1, <2>1
<1> HIDE DEF D, E
<1>5. ASSUME NEW n \in DOMAIN doc.nodes
      PROVE  /\ D.nodes[n].id = doc.nodes[n].id
             /\ IsRecord(D.nodes[n], {"id", "files"}) /\ IsList(D.nodes[n].files)
             /\ \A f \in DOMAIN D.nodes[n].files : IsFile(D.nodes[n].files[f])
  <2>1. SameNode(D.nodes[n], doc.nodes[n])
    BY <1>4
  <2>2. IsRecord(doc.nodes[n], {"id", "files"})
    BY DEF IsDocument
  <2>3. IsRecord(D.nodes[n], {"id", "files"})
    BY <2>1, <2>2 DEF IsRecord, SameNode
  <2>4. Len(doc.nodes[n].files) \in Nat /\ DOMAIN doc.nodes[n].files = 1 .. Len(doc.nodes[n].files)
    BY FilesShape
  <2>5. IsList(D.nodes[n].files)
    <3> DEFINE files == D.nodes[n].files
    <3>1. files = [f \in 1 .. Len(doc.nodes[n].files) |-> files[f]]
      BY <2>1 DEF SameNode
    <3> HIDE DEF files
    <3>2. files \in Seq(ToSet(files))
      BY <2>4, <3>1 DEF ToSet
    <3> QED BY <3>2 DEF IsList, files
  <2>6. ASSUME NEW f \in DOMAIN D.nodes[n].files PROVE IsFile(D.nodes[n].files[f])
    <3>1. f \in DOMAIN doc.nodes[n].files
      BY <2>1 DEF SameNode
    <3>2. <<n, f>> \in Slots(doc)
      BY <3>1, PlaceSlot
    <3>3. SameFile(FileAt(D, <<n, f>>), FileAt(doc, <<n, f>>), E[<<n, f>>])
      BY <1>4, <3>2
    <3>4. SameFile(D.nodes[n].files[f], doc.nodes[n].files[f], E[<<n, f>>])
      BY <3>3 DEF FileAt
    <3>5. IsFile(doc.nodes[n].files[f])
      BY <3>1 DEF IsDocument
    <3>6. IsRecord(D.nodes[n].files[f], {"path", "content"})
      BY <3>4, <3>5 DEF SameFile, IsFile, IsRecord
    <3>7. E[<<n, f>>] = IF <<n, f>> \in Carried(doc) THEN [kind |-> "ref", value |-> Number(doc, <<n, f>>)]
                        ELSE doc.nodes[n].files[f].content
      BY <3>2 DEF E, ExportedContents, FileAt
    <3>8. <<n, f>> \notin Carried(doc) => doc.nodes[n].files[f].content.kind \notin {"text", "data"}
      BY <3>2 DEF Carried, FileAt
    <3>9. D.nodes[n].files[f].content.kind \notin {"text", "data"}
      BY <3>4, <3>7, <3>8 DEF SameFile
    <3> QED BY <3>6, <3>9 DEF IsFile
  <2> QED BY <2>1, <2>3, <2>5, <2>6 DEF SameNode
<1>6. IsDocument(D)
  <2>1. IsRecord(D, {"schema", "id", "name", "missing", "nodes"}) /\ DOMAIN D.nodes = DOMAIN doc.nodes
    BY <1>4 DEF IsDocument, IsRecord, SameDocument
  <2>2. IsList(D.nodes)
    <3> DEFINE nodes1 == D.nodes
    <3>1. nodes1 = [n \in 1 .. Len(doc.nodes) |-> nodes1[n]] /\ Len(doc.nodes) \in Nat
      BY <1>4, NodesShape DEF SameDocument
    <3> HIDE DEF nodes1
    <3>2. nodes1 \in Seq(ToSet(nodes1))
      BY <3>1 DEF ToSet
    <3> QED BY <3>2 DEF IsList, nodes1
  <2> QED BY <1>5, <2>1, <2>2 DEF IsDocument
<1>7. Slots(D) = Slots(doc) /\ \A s \in Slots(doc) : FileAt(D, s).path = FileAt(doc, s).path /\ FileAt(D, s).content = E[s]
  BY <1>4 DEF SameDocument, SameFile
<1> QED BY <1>2, <1>3, <1>5, <1>6, <1>7 DEF IsArchive, D, E

(* The row of the file at s.                                                  *)
LEMMA ExportedRow ==
  ASSUME NEW doc, IsDocument(doc), NEW large, Exported(doc, large).ok, NEW s \in Carried(doc)
  PROVE  LET a == Exported(doc, large)
             k == Number(doc, s)
             content == FileAt(doc, s).content
         IN  /\ k \in 0 .. Cardinality(Carried(doc)) - 1 /\ k + 1 \in DOMAIN a.rows
             /\ a.rows[k + 1] = Row(doc, s, k)
             /\ k \in DOMAIN a.entries
             /\ a.entries[k] = [value |-> content.value, utf8 |-> content.kind = "text"]
<1> DEFINE a == Exported(doc, large)
           N == Cardinality(Carried(doc))
           k == Number(doc, s)
<1>1. N \in Nat /\ k \in 0 .. N - 1
  BY Numbers
<1>2. Numbered(doc, k) = s
  BY NumberedAt
<1>3. /\ a.rows = [i \in 1 .. N |-> Row(doc, Numbered(doc, i - 1), i - 1)]
      /\ a.entries = [j \in 0 .. N - 1 |->
            [value |-> FileAt(doc, Numbered(doc, j)).content.value,
             utf8 |-> FileAt(doc, Numbered(doc, j)).content.kind = "text"]]
  BY ExportedAs
<1> HIDE DEF a, N, k
<1>4. k + 1 \in 1 .. N /\ (k + 1) - 1 = k
  BY <1>1
<1>5. a.rows[k + 1] = Row(doc, s, k) /\ k + 1 \in DOMAIN a.rows
  BY <1>2, <1>3, <1>4
<1> QED BY <1>1, <1>2, <1>3, <1>5 DEF a, N, k

(* What an export refers to: what it carries, and what the document referred  *)
(* to before.                                                                 *)
LEMMA ExportedReferences ==
  ASSUME NEW doc, IsDocument(doc), NEW large, Exported(doc, large).ok
  PROVE  LET a == Exported(doc, large)
         IN  /\ Carried(doc) \subseteq References(a)
             /\ References(a) \subseteq Slots(doc)
             /\ \A s \in Carried(doc) : Referred(a, s) = Number(doc, s)
             /\ \A s \in Slots(doc) \ Carried(doc) :
                  s \in References(a) <=> FileAt(doc, s).content.kind = "ref"
<1> DEFINE a == Exported(doc, large)
           D == a.document
<1>1. Slots(D) = Slots(doc) /\ \A s \in Slots(doc) : FileAt(D, s).content = ExportedContents(doc)[s]
  BY ExportedShape
<1>2. Carried(doc) \subseteq Slots(doc)
  BY DEF Carried
<1>3. \A s \in Carried(doc) : FileAt(D, s).content = [kind |-> "ref", value |-> Number(doc, s)]
  BY <1>1, <1>2 DEF ExportedContents
<1>4. \A s \in Slots(doc) \ Carried(doc) : FileAt(D, s).content = FileAt(doc, s).content
  BY <1>1 DEF ExportedContents
<1>5. References(a) = { s \in Slots(doc) : FileAt(D, s).content.kind = "ref" }
  BY <1>1 DEF References
<1>6. \A s \in Slots(doc) : Referred(a, s) = FileAt(D, s).content.value
  BY DEF Referred
<1>7. Carried(doc) \subseteq References(a) /\ References(a) \subseteq Slots(doc)
  <2>1. ASSUME NEW s \in Carried(doc) PROVE s \in Slots(doc) /\ FileAt(D, s).content.kind = "ref"
    <3>1. s \in Slots(doc) /\ FileAt(D, s).content = [kind |-> "ref", value |-> Number(doc, s)]
      BY <1>2, <1>3
    <3> HIDE DEF a, D
    <3> QED BY <3>1
  <2> QED BY <1>5, <2>1
<1>8. \A s \in Carried(doc) : Referred(a, s) = Number(doc, s)
  <2> TAKE s \in Carried(doc)
  <2>1. s \in Slots(doc) /\ FileAt(D, s).content = [kind |-> "ref", value |-> Number(doc, s)]
    BY <1>2, <1>3
  <2>2. Referred(a, s) = FileAt(D, s).content.value
    BY <1>6, <2>1
  <2> HIDE DEF a, D
  <2> QED BY <2>1, <2>2
<1>9. \A s \in Slots(doc) \ Carried(doc) : s \in References(a) <=> FileAt(doc, s).content.kind = "ref"
  <2> HIDE DEF a, D
  <2> QED BY <1>4, <1>5
<1> QED BY <1>7, <1>8, <1>9

(* Records with the same fields are the same.                                 *)
LEMMA SameRecord ==
  ASSUME NEW r, NEW q, r = [f \in DOMAIN r |-> r[f]], q = [f \in DOMAIN q |-> q[f]],
         DOMAIN r = DOMAIN q, \A f \in DOMAIN q : r[f] = q[f]
  PROVE  r = q
OBVIOUS

(* A document that gets its own contents back is what it was.                 *)
LEMMA BackAgain ==
  ASSUME NEW doc, IsDocument(doc), NEW first, NEW D, D = WithContents(doc, first), IsDocument(D),
         NEW second, \A s \in Slots(doc) : second[s] = FileAt(doc, s).content
  PROVE  WithContents(D, second) = doc
<1> DEFINE W == WithContents(D, second)
<1>1. /\ SameDocument(D, doc)
      /\ \A n \in DOMAIN doc.nodes : SameNode(D.nodes[n], doc.nodes[n])
      /\ \A s \in Slots(doc) : SameFile(FileAt(D, s), FileAt(doc, s), first[s])
  BY OtherContents
<1>2. /\ SameDocument(W, D)
      /\ \A n \in DOMAIN D.nodes : SameNode(W.nodes[n], D.nodes[n])
      /\ \A s \in Slots(D) : SameFile(FileAt(W, s), FileAt(D, s), second[s])
  BY OtherContents
<1> HIDE DEF W
<1>3. DOMAIN D.nodes = DOMAIN doc.nodes /\ Slots(D) = Slots(doc)
  BY <1>1 DEF SameDocument
<1>4. ASSUME NEW n \in DOMAIN doc.nodes PROVE W.nodes[n] = doc.nodes[n]
  <2> DEFINE w == W.nodes[n]
             v == D.nodes[n]
             node == doc.nodes[n]
  <2>1. SameNode(v, node) /\ SameNode(w, v) /\ IsRecord(node, {"id", "files"})
    BY <1>1, <1>2, <1>3 DEF IsDocument
  <2>2. ASSUME NEW f \in DOMAIN node.files PROVE w.files[f] = node.files[f]
    <3>1. <<n, f>> \in Slots(doc)
      BY PlaceSlot
    <3>2. /\ SameFile(FileAt(D, <<n, f>>), FileAt(doc, <<n, f>>), first[<<n, f>>])
          /\ SameFile(FileAt(W, <<n, f>>), FileAt(D, <<n, f>>), second[<<n, f>>])
          /\ second[<<n, f>>] = FileAt(doc, <<n, f>>).content
      BY <3>1, <1>1, <1>2, <1>3
    <3>3. /\ SameFile(v.files[f], node.files[f], first[<<n, f>>])
          /\ SameFile(w.files[f], v.files[f], node.files[f].content)
      BY <3>2 DEF FileAt
    <3>4. IsRecord(node.files[f], {"path", "content"})
      BY DEF IsDocument, IsFile
    <3> HIDE DEF w, v, node
    <3> QED BY <3>3, <3>4 DEF SameFile, IsRecord
  <2>3. w.files = node.files
    <3>1. DOMAIN node.files = 1 .. Len(node.files) /\ node.files = [f \in 1 .. Len(node.files) |-> node.files[f]]
      BY FilesShape
    <3>2. DOMAIN w.files = DOMAIN node.files
      BY <2>1 DEF SameNode
    <3>3. w.files = [f \in 1 .. Len(v.files) |-> w.files[f]]
      BY <2>1 DEF SameNode
    <3>4. w.files = [f \in DOMAIN w.files |-> w.files[f]]
      <4> DEFINE x == w.files
                 m == 1 .. Len(v.files)
      <4>1. x = [f \in m |-> x[f]]
        BY <3>3
      <4> HIDE DEF x, m
      <4>2. x = [f \in DOMAIN x |-> x[f]]
        BY <4>1
      <4> QED BY <4>2 DEF x
    <3>5. node.files = [f \in DOMAIN node.files |-> node.files[f]]
      BY <3>1
    <3> HIDE DEF w, v, node
    <3> QED BY <2>2, <3>2, <3>4, <3>5, SameRecord
  <2>4. DOMAIN w = DOMAIN node /\ w = [f \in DOMAIN w |-> w[f]] /\ node = [f \in DOMAIN node |-> node[f]]
        /\ "files" \in DOMAIN node
    <3> HIDE DEF w, v, node
    <3> QED BY <2>1 DEF SameNode, IsRecord
  <2>5. \A f \in DOMAIN node \ {"files"} : w[f] = node[f]
    <3> HIDE DEF w, v, node
    <3> QED BY <2>1 DEF SameNode
  <2>6. \A f \in DOMAIN node : w[f] = node[f]
    <3> HIDE DEF w, v, node
    <3> QED BY <2>3, <2>5
  <2> HIDE DEF w, v, node
  <2> QED BY <2>4, <2>6, SameRecord DEF w, node
<1>5. W.nodes = doc.nodes
  <2>1. doc.nodes = [n \in 1 .. Len(doc.nodes) |-> doc.nodes[n]] /\ DOMAIN doc.nodes = 1 .. Len(doc.nodes)
    BY NodesShape
  <2>2. W.nodes = [n \in 1 .. Len(D.nodes) |-> W.nodes[n]] /\ DOMAIN W.nodes = DOMAIN doc.nodes
    BY <1>2, <1>3 DEF SameDocument
  <2>3. W.nodes = [n \in DOMAIN W.nodes |-> W.nodes[n]]
    <3> DEFINE x == W.nodes
               m == 1 .. Len(D.nodes)
    <3>1. x = [n \in m |-> x[n]]
      BY <2>2
    <3> HIDE DEF x, m
    <3>2. x = [n \in DOMAIN x |-> x[n]]
      BY <3>1
    <3> QED BY <3>2 DEF x
  <2>4. doc.nodes = [n \in DOMAIN doc.nodes |-> doc.nodes[n]]
    BY <2>1
  <2> QED BY <1>4, <2>2, <2>3, <2>4, SameRecord
<1>6. /\ DOMAIN W = DOMAIN doc /\ W = [f \in DOMAIN W |-> W[f]] /\ doc = [f \in DOMAIN doc |-> doc[f]]
  BY <1>1, <1>2 DEF SameDocument, IsRecord, IsDocument
<1>7. \A f \in DOMAIN doc \ {"nodes"} : W[f] = doc[f]
  BY <1>1, <1>2 DEF SameDocument
<1>8. \A f \in DOMAIN doc : W[f] = doc[f]
  BY <1>5, <1>7
<1> QED BY <1>6, <1>8, SameRecord DEF W

(* An export that refers to nothing but what it carries gives it back.        *)
LEMMA RestoresWhole ==
  ASSUME NEW doc, IsDocument(doc), NEW large, Exported(doc, large).ok,
         ValidRows(Exported(doc, large)), References(Exported(doc, large)) = Carried(doc)
  PROVE  Restored(Exported(doc, large)) = doc
<1> DEFINE a == Exported(doc, large)
           D == a.document
           C == [s \in Slots(D) |-> IF s \in References(a) THEN ReadFrom(a, s) ELSE FileAt(D, s).content]
           W == WithContents(D, C)
<1>1. /\ IsArchive(a) /\ IsDocument(D) /\ Slots(D) = Slots(doc)
      /\ \A s \in Slots(doc) : FileAt(D, s).path = FileAt(doc, s).path /\ FileAt(D, s).content = ExportedContents(doc)[s]
  BY ExportedShape DEF IsArchive
<1>2. Restored(a) = W
  BY <1>1, RestoredAs
<1>3. ASSUME NEW s \in Slots(doc) PROVE C[s] = FileAt(doc, s).content
  <2>1. CASE s \notin Carried(doc)
    BY <1>1, <2>1 DEF ExportedContents
  <2>2. CASE s \in Carried(doc)
    <3> DEFINE k == Number(doc, s)
               content == FileAt(doc, s).content
    <3>1. C[s] = ReadFrom(a, s)
      BY <1>1, <2>2
    <3>2. /\ k \in Nat /\ k + 1 \in DOMAIN a.rows /\ a.rows[k + 1] = Row(doc, s, k)
          /\ a.entries[k] = [value |-> content.value, utf8 |-> content.kind = "text"]
      BY <2>2, ExportedRow, Numbers
    <3>3. /\ a.rows[k + 1].id = k /\ a.rows[k + 1].at = k
          /\ a.rows[k + 1].encoding = content.kind
      BY <3>2 DEF Row
    <3>4. Referred(a, s) = k
      BY <2>2, ExportedReferences
    <3> HIDE DEF k
    <3>5. ReadFrom(a, s) = [kind |-> a.rows[k + 1].encoding, value |-> a.entries[a.rows[k + 1].at].value]
      BY <1>1, <3>2, <3>3, <3>4, ReadRow
    <3>6. content.kind \in {"text", "data"}
      BY <2>2 DEF Carried
    <3>7. content = [kind |-> content.kind, value |-> content.value]
      <4>1. IsFile(FileAt(doc, s))
        <5>1. s[1] \in DOMAIN doc.nodes /\ s[2] \in DOMAIN doc.nodes[s[1]].files
          BY SlotPlace
        <5> QED BY <5>1 DEF IsDocument, FileAt
      <4> QED BY <3>6, <4>1 DEF IsFile
    <3>8. ReadFrom(a, s) = [kind |-> content.kind, value |-> content.value]
      BY <3>2, <3>3, <3>5
    <3> QED BY <3>1, <3>7, <3>8
  <2> QED BY <2>1, <2>2
<1>4. D = WithContents(doc, ExportedContents(doc))
  BY ExportedAs
<1> HIDE DEF C
<1>5. W = doc
  BY <1>1, <1>3, <1>4, BackAgain
<1> QED BY <1>2, <1>5

(* A document of which nothing but text is left refers to nothing.            *)
LEMMA ValidKinds ==
  ASSUME NEW doc, IsDocument(doc), Valid(Migrated(doc)), NEW s \in Slots(doc)
  PROVE  FileAt(doc, s).content.kind \in {"text", "lone"}
<1>1. s[1] \in DOMAIN doc.nodes /\ s[2] \in DOMAIN doc.nodes[s[1]].files
  BY SlotPlace
<1>2. Migrated(doc).nodes = doc.nodes
  BY MigratedNodes DEF IsDocument
<1>3. ValidFiles(doc.nodes[s[1]])
  BY <1>1, <1>2 DEF Valid, ValidNodes, ValidNode
<1> QED BY <1>1, <1>3 DEF ValidFiles, FileAt

(* The rows of an export are as they should be.                               *)
LEMMA ExportedRows ==
  ASSUME NEW doc, IsDocument(doc), NEW large, Exported(doc, large).ok
  PROVE  ValidRows(Exported(doc, large))
<1> DEFINE a == Exported(doc, large)
           N == Cardinality(Carried(doc))
           ids == Field(a.rows, "id")
           ats == Field(a.rows, "at")
<1>1. N \in Nat /\ a.rows = [i \in 1 .. N |-> Row(doc, Numbered(doc, i - 1), i - 1)]
  BY Numbers, ExportedAs
<1>2. ASSUME NEW i \in 1 .. N
      PROVE  /\ a.rows[i].id = i - 1 /\ a.rows[i].at = i - 1
             /\ a.rows[i].encoding \in {"text", "data"}
  <2>1. a.rows[i] = Row(doc, Numbered(doc, i - 1), i - 1)
    <3> HIDE DEF a, N
    <3> QED BY <1>1
  <2>2. i - 1 \in 0 .. N - 1
    <3> HIDE DEF N
    <3> QED BY <1>1
  <2>3. Numbered(doc, i - 1) \in Carried(doc)
    BY <2>2, NumberedFile
  <2> HIDE DEF a, N
  <2> QED BY <2>1, <2>3 DEF Row, Carried
<1> HIDE DEF a, N
<1>3. DOMAIN a.rows = 1 .. N
  BY <1>1
<1>4. ids = [i \in 1 .. N |-> i - 1] /\ ats = [i \in 1 .. N |-> i - 1]
  BY <1>2, <1>3 DEF Field
<1>5. Distinct([i \in 1 .. N |-> i - 1])
  <2> DEFINE q == [i \in 1 .. N |-> i - 1]
  <2>1. q = [i \in 1 .. N |-> q[i]]
    OBVIOUS
  <2>2. \A i, j \in 1 .. N : q[i] = q[j] => i = j
    BY <1>1
  <2> HIDE DEF q
  <2> QED BY <1>1, <2>1, <2>2, DistinctPlaces
<1>6. Distinct(ids) /\ Distinct(ats)
  BY <1>4, <1>5
<1>7. \A i \in DOMAIN a.rows : a.rows[i].at >= 0 /\ a.rows[i].encoding \in {"text", "data"}
  BY <1>1, <1>2, <1>3
<1> QED BY <1>6, <1>7 DEF ValidRows, a

(* An archive that was just exported has every file of a document that has no *)
(* reference of its own, and gives the same document back.                    *)
LEMMA ExportComplete ==
  ASSUME NEW doc, IsDocument(doc), NEW large, NEW a, a = Exported(doc, large), a.ok,
         HasNoReference(doc)
  PROVE  Restorable(a) /\ Restored(a) = doc
<1>1. /\ IsArchive(a) /\ ValidRows(a) /\ Len(a.rows) = Cardinality(Carried(doc))
  BY ExportedRows, ExportedShape
<1>2. References(a) = Carried(doc)
  <2>1. /\ Carried(doc) \subseteq References(a) /\ References(a) \subseteq Slots(doc)
        /\ \A s \in Slots(doc) \ Carried(doc) : s \in References(a) <=> FileAt(doc, s).content.kind = "ref"
    BY ExportedReferences
  <2> QED BY <2>1 DEF HasNoReference
<1>3. ASSUME NEW s \in Carried(doc)
      PROVE  \E row \in ToSet(a.rows) : Refers(a, s, row)
  <2> DEFINE k == Number(doc, s)
             content == FileAt(doc, s).content
  <2>1. /\ k + 1 \in DOMAIN a.rows /\ a.rows[k + 1] = Row(doc, s, k) /\ k \in DOMAIN a.entries
        /\ a.entries[k] = [value |-> content.value, utf8 |-> content.kind = "text"]
    BY ExportedRow
  <2>2. Referred(a, s) = k
    BY ExportedReferences
  <2>3. s \in Slots(doc) /\ s[1] \in DOMAIN doc.nodes
    BY SlotPlace DEF Carried
  <2>4. a.document.nodes[s[1]].id = doc.nodes[s[1]].id /\ FileAt(a.document, s).path = FileAt(doc, s).path
    BY <2>3, ExportedShape
  <2>5. a.rows[k + 1] \in ToSet(a.rows)
    BY <2>1 DEF ToSet
  <2>6. Refers(a, s, a.rows[k + 1])
    <3> DEFINE row == a.rows[k + 1]
    <3>1. /\ row.id = k /\ row.at = k /\ row.node = doc.nodes[s[1]].id
          /\ row.path = FileAt(doc, s).path /\ row.bytes = content.value
      BY <2>1 DEF Row
    <3>2. a.entries[k].value = content.value /\ (content.kind = "text" => a.entries[k].utf8)
      <4> DEFINE utf8 == content.kind = "text"
      <4>1. a.entries[k] = [value |-> content.value, utf8 |-> utf8]
        BY <2>1
      <4> HIDE DEF utf8
      <4>2. a.entries[k].value = content.value /\ a.entries[k].utf8 = utf8
        BY <4>1
      <4> QED BY <4>2 DEF utf8
    <3>3. row.encoding = content.kind
      BY <2>1 DEF Row
    <3> HIDE DEF row, k, content
    <3> QED BY <2>1, <2>2, <2>4, <3>1, <3>2, <3>3 DEF Refers, row
  <2> QED BY <2>5, <2>6
<1>4. \A s, t \in Carried(doc) : Referred(a, s) = Referred(a, t) => s = t
  <2>1. \A s \in Carried(doc) : Referred(a, s) = Number(doc, s)
    BY ExportedReferences
  <2>2. \A s, t \in Carried(doc) : Number(doc, s) = Number(doc, t) => s = t
    BY Numbers
  <2> QED BY <2>1, <2>2
<1>5. Restorable(a)
  BY <1>1, <1>2, <1>3, <1>4 DEF Restorable
<1> QED BY <1>1, <1>2, <1>5, RestoresWhole

(* An archive that was just exported gives back its document, and is refused  *)
(* for nothing but what the importer does not take.                           *)
LEMMA ExportRestores ==
  ASSUME NEW doc, IsDocument(doc), NEW large, NEW a, a = Exported(doc, large), a.ok
  PROVE  /\ Decoded(a).ok => Decoded(a).project = Migrated(doc)
         /\ \/ Decoded(a).ok \/ TooNew(doc) \/ ~Valid(Migrated(doc)) \/ ~Unpacks(a)
<1>1. /\ IsArchive(a) /\ ValidRows(a) /\ Len(a.rows) = Cardinality(Carried(doc))
  BY ExportedRows, ExportedShape
<1>2. IsFiniteSet(References(a))
  <2>1. References(a) \in SUBSET Slots(doc)
    BY ExportedReferences
  <2> QED BY <2>1, SlotsFinite, FS_Subset
<1>3. References(a) = Carried(doc) => Restored(a) = doc
  BY <1>1, RestoresWhole
<1>4. Restorable(a) => References(a) = Carried(doc)
  <2> SUFFICES ASSUME Restorable(a) PROVE References(a) = Carried(doc)
    OBVIOUS
  <2>1. Cardinality(References(a)) = Cardinality(Carried(doc))
    BY <1>1 DEF Restorable
  <2>2. Carried(doc) \in SUBSET References(a)
    BY ExportedReferences
  <2> QED BY <1>2, <2>1, <2>2, FS_Subset
<1>5. Decoded(a).ok => Decoded(a).project = Migrated(doc)
  BY <1>3, <1>4, DecodedAs
<1>6. ASSUME ~TooNew(doc), Valid(Migrated(doc)), Unpacks(a)
      PROVE  Decoded(a).ok
  <2>1. \A s \in Slots(doc) : FileAt(doc, s).content.kind = "text"
    BY <1>6, ValidKinds, ExportedAs
  <2>2. HasNoReference(doc)
    BY <2>1 DEF HasNoReference
  <2>3. Restorable(a) /\ Restored(a) = doc
    BY <2>2, ExportComplete
  <2>4. a.document.schema = a.schema /\ a.schema = doc.schema /\ ~TooNew(a.document)
    <3>1. a.document = WithContents(doc, ExportedContents(doc)) /\ a.schema = doc.schema
      BY ExportedAs
    <3>2. SameDocument(a.document, doc)
      BY <3>1, OtherContents
    <3>3. "schema" \in DOMAIN doc
      BY DEF IsDocument, IsRecord
    <3>4. a.document.schema = doc.schema
      BY <3>2, <3>3 DEF SameDocument
    <3> QED BY <1>6, <3>1, <3>4 DEF TooNew
  <2>5. Migrated(doc).id = a.id /\ Migrated(doc).name = a.name
    <3>1. Migrated(doc).id = doc.id /\ Migrated(doc).name = doc.name
      BY MigratedNodes DEF IsDocument
    <3> QED BY <3>1, ExportedAs
  <2>6. Decoded(a) = [ok |-> TRUE, project |-> Migrated(doc)]
    BY <1>6, <2>3, <2>4, <2>5 DEF Decoded
  <2> QED BY <2>6
<1> QED BY <1>5, <1>6

-----------------------------------------------------------------------------
(* What the archive is: the export of the project of the plan, or what        *)
(* another program has made of one.                                           *)
Fresh == \E large \in BOOLEAN : archive = Exported(plan.project, large)
Reworked == \E large \in BOOLEAN :
  Exported(plan.project, large).ok /\ archive = Change(Exported(plan.project, large), plan.change)
Given == IF plan.change = "none" THEN archive.ok /\ Fresh ELSE Reworked
Accepted == Decoded(archive).ok /\ ValidName(Decoded(archive).project.name)

(* From its export to its import the archive is the one that was written, or  *)
(* the one that another program made of it.                                   *)
ArchiveInv ==
  /\ plan \in Plans
  /\ phase \in {"made", "exported", "rewritten", "imported"} => plan.archived
  /\ phase = "made" => project = plan.project /\ archive = Refused
  /\ phase = "exported" => archive.ok /\ Fresh
  /\ phase = "rewritten" => plan.change # "none" /\ Reworked
  /\ phase = "imported" => Given /\ Accepted /\ project = Decoded(archive).project
  /\ phase = "refused" /\ plan.change = "none" /\ archive.ok => Fresh /\ ~Accepted

(* It holds of a new lab, ...                                                 *)
LEMMA ArchiveInit == Init => ArchiveInv
BY DEF Init, ArchiveInv

(* ... every step keeps it, ...                                               *)
LEMMA ArchiveStep == ArchiveInv /\ [Next]_vars => ArchiveInv'
<1> SUFFICES ASSUME ArchiveInv, [Next]_vars PROVE ArchiveInv'
  OBVIOUS
<1>1. CASE Export
  <2>1. PICK large \in BOOLEAN : archive' = Exported(project, large)
    BY <1>1 DEF Export
  <2>2. /\ phase = "made" /\ phase' = IF archive'.ok THEN "exported" ELSE "refused"
        /\ plan' = plan /\ project = plan.project
    BY <1>1 DEF Export, ArchiveInv
  <2>3. Fresh'
    BY <2>1, <2>2 DEF Fresh
  <2> QED BY <2>2, <2>3 DEF ArchiveInv
<1>2. CASE Rewrite
  <2>1. /\ phase = "exported" /\ plan.change # "none" /\ archive' = Change(archive, plan.change)
        /\ phase' = "rewritten" /\ plan' = plan /\ archive.ok /\ Fresh
    BY <1>2 DEF Rewrite, ArchiveInv
  <2>2. Reworked'
    BY <2>1 DEF Fresh, Reworked
  <2> QED BY <2>1, <2>2 DEF ArchiveInv
<1>3. CASE Import
  <2>1. /\ plan' = plan /\ archive' = archive
        /\ \/ phase = "exported" /\ plan.change = "none" /\ archive.ok /\ Fresh
           \/ phase = "rewritten" /\ plan.change # "none" /\ Reworked
    BY <1>3 DEF Import, ArchiveInv
  <2>2. (Fresh' <=> Fresh) /\ (Reworked' <=> Reworked) /\ (Accepted' <=> Accepted)
    BY <2>1 DEF Fresh, Reworked, Accepted
  <2>3. \/ Accepted /\ phase' = "imported" /\ project' = Decoded(archive).project
        \/ ~Accepted /\ phase' = "refused"
    BY <1>3 DEF Import, Accepted
  <2> QED BY <2>1, <2>2, <2>3 DEF ArchiveInv, Given
<1>4. CASE Keep \/ Analyse \/ Initialize \/ Seal
  <2>1. plan' = plan /\ phase' \in {"stored", "booting", "ineligible", "failed", "sealed"}
    BY <1>4 DEF Keep, Analyse, Initialize, Seal
  <2> QED BY <2>1 DEF ArchiveInv
<1>5. CASE UNCHANGED bootVars
  BY <1>5 DEF bootVars, ArchiveInv, Fresh, Reworked, Given, Accepted
<1> QED BY <1>1, <1>2, <1>3, <1>4, <1>5 DEF Next, Run, vars

(* ... and so it always holds.                                                *)
LEMMA ArchiveAlways == Spec => []ArchiveInv
BY ArchiveInit, ArchiveStep, PTL DEF Spec

(* Whatever another program has done to an archive: if it is accepted, every  *)
(* file that its manifest lists is in the project once, where the manifest    *)
(* says, and nothing else is other than in its document.                      *)
THEOREM ImportsAreWhole == Spec => []ImportedWhole
<1>1. ArchiveInv => ImportedWhole
  <2> SUFFICES ASSUME ArchiveInv, phase = "imported" PROVE ImportedWhole
    BY DEF ImportedWhole
  <2>1. plan \in Plans /\ plan.archived /\ Given /\ Decoded(archive).ok /\ project = Decoded(archive).project
    BY DEF ArchiveInv, Accepted
  <2>2. IsArchive(archive)
    <3>1. CASE plan.change = "none"
      BY <2>1, <3>1, DocumentsAssumption, ExportedShape DEF Given, Fresh
    <3>2. CASE plan.change # "none"
      BY <2>1, <3>2, DocumentsAssumption DEF Given, Reworked
    <3> QED BY <3>1, <3>2
  <2>3. Whole(archive, project)
    BY <2>1, <2>2, ImportWhole
  <2> QED BY <2>3 DEF Whole, ImportedWhole
<1> QED BY <1>1, ArchiveAlways, PTL

(* An archive that nobody has changed has the project that was exported, file *)
(* by file, and gives it back as the migration leaves it, or is refused for a *)
(* reason.                                                                    *)
THEOREM ExportsComeBack == Spec => []ArchiveRestores
<1>1. ArchiveInv => ArchiveRestores
  <2> SUFFICES ASSUME ArchiveInv, plan.archived, plan.change = "none", archive.ok
               PROVE  /\ phase = "exported" /\ HasNoReference(plan.project) =>
                           Restorable(archive) /\ Restored(archive) = plan.project
                      /\ phase = "imported" => project = Migrated(plan.project)
                      /\ phase = "refused" =>
                           \/ TooNew(plan.project) \/ ~Valid(Migrated(plan.project)) \/ ~Unpacks(archive)
                           \/ ~ValidName(plan.project.name)
    BY DEF ArchiveRestores
  <2> DEFINE doc == plan.project
  <2>1. IsDocument(doc)
    BY DocumentsAssumption DEF ArchiveInv
  <2>2. ASSUME Fresh
        PROVE  /\ Decoded(archive).ok => Decoded(archive).project = Migrated(doc)
               /\ \/ Decoded(archive).ok \/ TooNew(doc) \/ ~Valid(Migrated(doc)) \/ ~Unpacks(archive)
               /\ HasNoReference(doc) => Restorable(archive) /\ Restored(archive) = doc
    <3>1. PICK large \in BOOLEAN : archive = Exported(doc, large)
      BY <2>2 DEF Fresh
    <3> HIDE DEF doc
    <3> QED BY <2>1, <3>1, ExportRestores, ExportComplete
  <2>3. Migrated(doc).name = doc.name
    BY <2>1, MigratedNodes DEF IsDocument
  <2>4. phase = "imported" => project = Migrated(doc)
    BY <2>2 DEF ArchiveInv, Given, Accepted
  <2>5. phase = "refused" => \/ TooNew(doc) \/ ~Valid(Migrated(doc)) \/ ~Unpacks(archive) \/ ~ValidName(doc.name)
    BY <2>2, <2>3 DEF ArchiveInv, Accepted
  <2>6. phase = "exported" => Fresh
    BY DEF ArchiveInv
  <2> QED BY <2>2, <2>4, <2>5, <2>6
<1> QED BY <1>1, ArchiveAlways, PTL

=============================================================================
