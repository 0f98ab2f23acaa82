--------------------------- MODULE Autosave_proofs ---------------------------
(***************************************************************************)
(* Proofs about Autosave, for any number of edits, waiting flushes and     *)
(* writes of the other tab.                                                *)
(***************************************************************************)
EXTENDS Autosave, TLAPS

(* The inductive invariant. Edits are saved in the order they were scheduled. *)
Ordered ==
  /\ durable <= last
  /\ \A d \in drains : /\ d.snap <= last
                       /\ d.at = "sent" => durable < d.snap
                       /\ d.at = "stored" => durable = d.snap
                       /\ pending # None => d.snap < pending
  /\ pending # None => durable < pending /\ pending <= last

(* A snapshot pending is the latest edit, or it came back to `pending` after  *)
(* everything was dropped.                                                    *)
Latest == pending # None => pending = last \/ last <= dropped

(* A flush answers only for edits that were scheduled.                        *)
Answers ==
  /\ \A v \in vouched : v <= last
  /\ \A f \in Outstanding : f.upto <= last

(* A revision this tab expects, or has obtained, is that of a record it knows.*)
Knows(r) == r # LastWriterWins => r <= stored /\ (r = stored => seen)
Known ==
  deleted \/ /\ Knows(expected)
             /\ \A d \in drains : /\ Knows(d.expect)
                                  /\ d.at = "stored" => Knows(d.revision)

IInv ==
  /\ TypeOK /\ SerialWrites /\ Ordered /\ Latest /\ NoLostEdit /\ SavedMeansStored
  /\ Answers /\ ResolvedFlushIsCovered /\ Known

-----------------------------------------------------------------------------
(* The steps, as the proofs tell them apart. *)

(* schedule() with a delay.                                                   *)
Debounces ==
  /\ last' = last + 1 /\ last' \in Edits
  /\ pending' = last' /\ timer' = TRUE
  /\ status' \in {"scheduled", "saving"}
  /\ UNCHANGED <<delayed, promise, drains, waiters, expected, disposed, stored, foreign,
                 durable, dropped, vouched, reported, seen, deleted>>

(* A flush with p pending, in status st, schedule()'s own or another.         *)
Given(p, st) ==
  /\ \/ p = pending /\ last' = last /\ st = status
     \/ p = last' /\ last' = last + 1 /\ last' \in Edits /\ st \in {"scheduled", "saving"}
  /\ timer' = FALSE
  /\ UNCHANGED <<delayed, expected, stored, foreign, durable, dropped, reported, seen, deleted>>

(* It waits for the drain under way, finds nothing to do, or drains.          *)
Waits(p, st, f) ==
  /\ Given(p, st) /\ promise # None
  /\ waiters' = Append(waiters, f)
  /\ pending' = p /\ status' = st
  /\ UNCHANGED <<promise, drains, vouched, disposed>>
Returns(p, st, f) ==
  /\ Given(p, st) /\ promise = None /\ p = None
  /\ pending' = p
  /\ Resolve({f}, st)
  /\ UNCHANGED <<promise, drains, waiters>>
Begins(p, st, f) ==
  /\ Given(p, st) /\ promise = None /\ p # None
  /\ pending' = None /\ promise' = p
  /\ drains' = drains \cup {Drain(p, p, f, expected)}
  /\ status' = "saving"
  /\ UNCHANGED <<waiters, vouched, disposed>>

(* cancel() and dispose({ flush: false }).                                    *)
Drops ==
  /\ timer' = FALSE /\ pending' = None /\ dropped' = last
  /\ disposed' \in BOOLEAN /\ status' \in {"idle", "disposed"}
  /\ UNCHANGED <<delayed, promise, drains, waiters, expected, stored, foreign, last,
                 durable, vouched, reported, seen, deleted>>

FlushBy(kind, upto) == [kind |-> kind, upto |-> upto]

(* The cases of FlushFrom, called with edits up to last' scheduled.           *)
LEMMA FlushCases ==
  ASSUME NEW kind, NEW p, NEW st, Given(p, st), FlushFrom(kind, p, last', st)
  PROVE  LET f == FlushBy(kind, last')
         IN  Waits(p, st, f) \/ Returns(p, st, f) \/ Begins(p, st, f)
BY DEF FlushFrom, Waits, Returns, Begins, FlushBy

(* Every step is one of these.                                                *)
LEMMA Cases ==
  ASSUME TypeOK, [Next]_vars
  PROVE  \/ Debounces
         \/ \E kind \in {"auto", "flush", "dispose"}, p \in Edits \cup {None}, st \in Statuses :
              LET f == FlushBy(kind, last')
              IN  Waits(p, st, f) \/ Returns(p, st, f) \/ Begins(p, st, f)
         \/ Drops
         \/ \E r \in Readable : SetExpectedRevision(r)
         \/ \E d \in drains : SaveStored(d)
         \/ \E d \in drains : SaveResolves(d)
         \/ \E d \in drains : SaveRejects(d)
         \/ OtherTab
         \/ UNCHANGED vars
<1> DEFINE Flushing == \E kind \in {"auto", "flush", "dispose"}, p \in Edits \cup {None}, st \in Statuses :
              LET f == FlushBy(kind, last')
              IN  Waits(p, st, f) \/ Returns(p, st, f) \/ Begins(p, st, f)
<1>1. ASSUME NEW kind \in {"auto", "flush", "dispose"}, FlushFrom(kind, pending, last, status),
             UNCHANGED <<options, expected, repository, last, dropped, reported>>
      PROVE  Flushing
  <2>1. Given(pending, status) /\ last' = last
    BY <1>1 DEF Given, FlushFrom, options, repository
  <2>2. LET f == FlushBy(kind, last')
        IN  Waits(pending, status, f) \/ Returns(pending, status, f) \/ Begins(pending, status, f)
    <3>1. FlushFrom(kind, pending, last', status)
      BY <1>1, <2>1
    <3> QED BY <2>1, <3>1, FlushCases
  <2>3. pending \in Edits \cup {None} /\ status \in Statuses
    BY DEF TypeOK
  <2> QED BY <2>2, <2>3
<1>2. CASE Schedule
  <2> DEFINE st == IF promise = None THEN "scheduled" ELSE "saving"
  <2>1. CASE delayed
    BY <1>2, <2>1 DEF Schedule, Debounces, options, repository
  <2>2. CASE ~delayed
    <3>1. FlushFrom("auto", last', last', st) /\ last' = last + 1 /\ last' \in Edits
      BY <1>2, <2>2 DEF Schedule
    <3>2. Given(last', st)
      BY <1>2, <3>1 DEF Schedule, Given, FlushFrom, options, repository
    <3>3. st \in Statuses
      BY DEF Statuses
    <3> QED BY <3>1, <3>2, <3>3, FlushCases
  <2> QED BY <2>1, <2>2
<1>3. CASE TimerFires \/ Flush \/ Dispose
  BY <1>1, <1>3 DEF TimerFires, Flush, Dispose
<1>4. CASE Cancel \/ DisposeNow
  BY <1>4 DEF Cancel, DisposeNow, Drops, options, repository, TypeOK
<1> QED BY <1>2, <1>3, <1>4 DEF Next, ClientCalls, SaveSettles

-----------------------------------------------------------------------------
LEMMA InitSafe == Init => IInv
<1> SUFFICES ASSUME Init PROVE IInv
  OBVIOUS
<1>1. TypeOK
  <2>1. delayed \in BOOLEAN
    BY AutosaveAssumption DEF Init
  <2>2. waiters \in Seq(Flushes) /\ drains \in SUBSET Drains
    BY DEF Init
  <2>3. stored \in Nat /\ expected \in Expectations /\ foreign \in Nat
    BY DEF Init, Expectations, Revisions
  <2>4. status \in Statuses /\ vouched \in SUBSET (Edits \cup {None})
    BY DEF Init, Statuses
  <2> QED BY <2>1, <2>2, <2>3, <2>4 DEF Init, TypeOK, Revisions
<1>2. Outstanding = {}
  BY DEF Init, Outstanding
<1>3. Answers
  BY <1>2 DEF Init, Answers
<1>4. Known
  BY DEF Init, Known, Knows
<1>5. SerialWrites /\ Ordered /\ Latest /\ NoLostEdit /\ SavedMeansStored /\ ResolvedFlushIsCovered
  BY DEF Init, SerialWrites, Ordered, Latest, NoLostEdit, SavedMeansStored,
         ResolvedFlushIsCovered, None
<1> QED BY <1>1, <1>3, <1>4, <1>5 DEF IInv

LEMMA AppendEntries ==
  ASSUME NEW S, NEW s \in Seq(S), NEW e \in S
  PROVE  \A i \in DOMAIN Append(s, e) :
           Append(s, e)[i] = e \/ (i \in DOMAIN s /\ Append(s, e)[i] = s[i])
OBVIOUS

LEMMA OutstandingType ==
  ASSUME TypeOK
  PROVE  /\ \A f \in Outstanding : f \in Flushes /\ f.upto \in Nat
         /\ \A v \in vouched : v \in Nat
<1>1. \A i \in DOMAIN waiters : waiters[i] \in Flushes
  <2>1. waiters \in Seq(Flushes)
    BY DEF TypeOK
  <2> QED BY <2>1
<1>2. \A d \in drains : d.owner \in Flushes
  BY DEF TypeOK, Drains
<1>3. \A f \in Flushes : f.upto \in Nat
  BY DEF Flushes, Edits, None
<1>4. \A v \in vouched : v \in Nat
  BY DEF TypeOK, Edits, None
<1> QED BY <1>1, <1>2, <1>3, <1>4 DEF Outstanding

(* What is known of a flush when it is called.                                *)
LEMMA GivenFacts ==
  ASSUME IInv, NEW p, NEW st, Given(p, st)
  PROVE  /\ p \in Edits \cup {None} /\ st \in Statuses
         /\ last \in Nat /\ last' \in Edits \cup {None} /\ last <= last'
         /\ p # None => durable < p /\ p <= last' /\ (p = last' \/ last' <= dropped)
         /\ p # None => \A d \in drains : d.snap < p
         /\ last' \in {p, durable} \/ last' <= dropped \/ \E d \in drains : d.snap = last'
         /\ st = "saved" => /\ p = None /\ drains = {}
                            /\ last' = durable \/ last' <= dropped
         /\ dropped \in Nat /\ durable \in Nat /\ durable <= last
<1>1. TypeOK
  BY DEF IInv
<1>2. p \in Edits \cup {None} /\ last' \in Edits \cup {None} /\ st \in Statuses
  BY <1>1 DEF Given, TypeOK, Statuses
<1>3. last \in Nat /\ dropped \in Nat /\ durable \in Nat /\ \A d \in drains : d.snap \in Nat
  BY <1>1 DEF TypeOK, Edits, None, Drains
<1>4. CASE p = pending /\ last' = last /\ st = status
  BY <1>2, <1>3, <1>4 DEF IInv, Ordered, Latest, NoLostEdit, SavedMeansStored
<1>5. CASE p = last' /\ last' = last + 1 /\ st \in {"scheduled", "saving"}
  BY <1>2, <1>3, <1>5 DEF IInv, Ordered
<1> QED BY <1>4, <1>5 DEF Given

LEMMA FlushType ==
  ASSUME TypeOK, NEW kind \in {"auto", "flush", "dispose"}, last' \in Edits \cup {None}
  PROVE  FlushBy(kind, last') \in Flushes
BY DEF FlushBy, Flushes

(* schedule() with a delay keeps the invariant.                               *)
LEMMA DebouncesSafe == ASSUME IInv, Debounces PROVE IInv'
<1>1. TypeOK'
  BY DEF IInv, Debounces, TypeOK, Statuses
<1>2. last \in Nat /\ last' > last /\ dropped \in Nat /\ durable \in Nat
      /\ \A d \in drains : d.snap \in Nat
  BY DEF IInv, Debounces, TypeOK, Edits, None, Drains
<1>3. Ordered' /\ Latest' /\ NoLostEdit'
  BY <1>2 DEF IInv, Debounces, Ordered, Latest, NoLostEdit
<1>4. SerialWrites' /\ SavedMeansStored' /\ ResolvedFlushIsCovered' /\ Known'
  BY DEF IInv, Debounces, SerialWrites, SavedMeansStored, ResolvedFlushIsCovered, Known, Knows
<1>5. Answers'
  <2>1. Outstanding' = Outstanding /\ vouched' = vouched
    BY DEF Debounces, Outstanding
  <2>2. /\ \A f \in Outstanding : f.upto \in Nat /\ f.upto <= last
        /\ \A v \in vouched : v \in Nat /\ v <= last
    BY OutstandingType DEF IInv, Answers
  <2>3. last' \in Nat
    BY <1>1 DEF TypeOK, Edits, None
  <2> QED BY <1>2, <2>1, <2>2, <2>3 DEF Answers
<1> QED BY <1>1, <1>3, <1>4, <1>5 DEF IInv

(* A flush that waits keeps the invariant.                                    *)
LEMMA WaitsSafe ==
  ASSUME IInv, NEW kind \in {"auto", "flush", "dispose"}, NEW p, NEW st,
         Waits(p, st, FlushBy(kind, last'))
  PROVE  IInv'
<1> DEFINE f == FlushBy(kind, last')
<1>0. Given(p, st) /\ TypeOK
  BY DEF Waits, IInv
<1>f. f \in Flushes /\ f.upto = last'
  BY <1>0, FlushType, GivenFacts DEF FlushBy
<1>1. TypeOK'
  <2>1. waiters \in Seq(Flushes)
    BY <1>0 DEF TypeOK
  <2>2. waiters' \in Seq(Flushes)
    BY <1>f, <2>1 DEF Waits
  <2>3. p \in Edits \cup {None} /\ st \in Statuses /\ last' \in Edits \cup {None}
    BY <1>0, GivenFacts
  <2> QED BY <1>0, <2>2, <2>3 DEF Waits, TypeOK, Given
<1>2. Ordered' /\ Latest' /\ NoLostEdit'
  <2>1. \A d \in drains : d.snap \in Nat /\ d.snap <= last
    BY DEF IInv, Ordered, TypeOK, Drains, Edits
  <2>2. drains' = drains /\ pending' = p /\ durable' = durable /\ dropped' = dropped
    BY DEF Waits, Given
  <2>3. last' \in Nat
    BY <1>0, GivenFacts DEF Edits, None
  <2>4. Ordered'
    BY <1>0, <2>1, <2>2, <2>3, GivenFacts DEF IInv, Ordered
  <2>5. Latest' /\ NoLostEdit'
    BY <1>0, <2>2, GivenFacts DEF Latest, NoLostEdit
  <2> QED BY <2>4, <2>5
<1>3. SerialWrites'
  BY DEF IInv, Waits, SerialWrites
<1>4. SavedMeansStored'
  BY <1>0, GivenFacts DEF Waits, Given, SavedMeansStored
<1>5. Answers'
  <2>1. \A i \in DOMAIN waiters' : waiters'[i] = f \/ (i \in DOMAIN waiters /\ waiters'[i] = waiters[i])
    <3>1. waiters \in Seq(Flushes) /\ waiters' = Append(waiters, f)
      BY <1>0 DEF Waits, TypeOK
    <3>2. f \in Flushes
      BY <1>f
    <3> HIDE DEF f
    <3>3. \A i \in DOMAIN Append(waiters, f) :
            Append(waiters, f)[i] = f \/ (i \in DOMAIN waiters /\ Append(waiters, f)[i] = waiters[i])
      BY <3>1, <3>2, AppendEntries
    <3> QED BY <3>1, <3>3
  <2>2. Outstanding' \subseteq Outstanding \cup {f}
    BY <2>1 DEF Outstanding, Waits
  <2>3. /\ \A g \in Outstanding : g.upto \in Nat
        /\ \A v \in vouched : v \in Nat
    BY <1>0, OutstandingType
  <2>5. last \in Nat /\ last' \in Nat /\ last <= last'
    BY <1>0, GivenFacts DEF Edits, None
  <2> QED BY <1>f, <2>2, <2>3, <2>5 DEF IInv, Answers, Waits
<1>6. ResolvedFlushIsCovered' /\ Known'
  BY DEF IInv, Waits, Given, ResolvedFlushIsCovered, Known, Knows
<1> QED BY <1>1, <1>2, <1>3, <1>4, <1>5, <1>6 DEF IInv

(* What resolving the flushes of S records.                                   *)
LEMMA ResolveFacts ==
  ASSUME TypeOK, NEW S \in SUBSET Flushes, NEW st \in Statuses, Resolve(S, st)
  PROVE  /\ \A v \in vouched' : v \in vouched \/ \E f \in S : v = f.upto
         /\ vouched' \in SUBSET (Edits \cup {None})
         /\ disposed' \in BOOLEAN
         /\ status' \in Statuses
         /\ status' = "saved" => st = "saved"
<1>1. \A v \in vouched' : v \in vouched \/ \E f \in S : v = f.upto
  BY DEF Resolve
<1>2. \A f \in S : f.upto \in Edits \cup {None}
  BY DEF Flushes
<1> QED BY <1>1, <1>2 DEF Resolve, TypeOK, Statuses

(* A flush that finds nothing to save keeps the invariant.                    *)
LEMMA ReturnsSafe ==
  ASSUME IInv, NEW kind \in {"auto", "flush", "dispose"}, NEW p, NEW st,
         Returns(p, st, FlushBy(kind, last'))
  PROVE  IInv'
<1> DEFINE f == FlushBy(kind, last')
<1>0. Given(p, st) /\ TypeOK
  BY DEF Returns, IInv
<1>f. f \in Flushes /\ f.upto = last'
  BY <1>0, FlushType, GivenFacts DEF FlushBy
<1>g. /\ st \in Statuses /\ last \in Nat /\ last' \in Nat /\ last' \in Edits \cup {None} /\ last <= last'
      /\ dropped \in Nat /\ durable \in Nat /\ durable <= last
      /\ last' \in {p, durable} \/ last' <= dropped \/ \E d \in drains : d.snap = last'
      /\ p = None /\ pending' = None
  BY <1>0, GivenFacts DEF Edits, None, Returns
<1>d. drains = {} /\ drains' = {} /\ waiters' = <<>> /\ promise' = None
  BY DEF Returns, IInv, SerialWrites, TypeOK, Drains, Edits, None
<1>r. /\ \A v \in vouched' : v \in vouched \/ v = last'
      /\ vouched' \in SUBSET (Edits \cup {None})
      /\ disposed' \in BOOLEAN
      /\ status' \in Statuses
      /\ status' = "saved" => st = "saved"
  <2> HIDE DEF f
  <2>1. Resolve({f}, st) /\ {f} \in SUBSET Flushes
    BY <1>f DEF Returns, f
  <2> QED BY <1>0, <1>f, <1>g, <2>1, ResolveFacts
<1>1. TypeOK'
  <2>1. waiters' \in Seq(Flushes) /\ drains' \in SUBSET Drains
    BY <1>d
  <2>2. pending' \in Edits \cup {None} /\ promise' \in Edits \cup {None}
    BY <1>d, <1>g
  <2> HIDE DEF f
  <2> QED BY <1>0, <1>g, <1>r, <2>1, <2>2 DEF TypeOK, Given
<1>2. Ordered' /\ Latest' /\ NoLostEdit'
  <2>1. durable' = durable /\ dropped' = dropped
    BY <1>0 DEF Given
  <2>2. last' \in {None, durable} \/ last' <= dropped
    BY <1>d, <1>g
  <2> QED BY <1>d, <1>g, <2>1, <2>2 DEF Ordered, Latest, NoLostEdit
<1>3. SerialWrites'
  BY <1>d DEF SerialWrites
<1>4. SavedMeansStored'
  BY <1>0, <1>r, <1>d, <1>g, GivenFacts DEF Given, SavedMeansStored
<1>5. Answers'
  <2>1. Outstanding' = {}
    BY <1>d DEF Outstanding
  <2>2. \A v \in vouched : v \in Nat /\ v <= last
    BY <1>0, OutstandingType DEF IInv, Answers
  <2> QED BY <1>g, <1>r, <2>1, <2>2 DEF Answers
<1>6. ResolvedFlushIsCovered'
  <2>1. durable' = durable /\ dropped' = dropped /\ reported' = reported
    BY <1>0 DEF Given
  <2>2. last' <= durable \/ last' <= dropped
    BY <1>d, <1>g DEF None
  <2> QED BY <1>r, <1>d, <2>1, <2>2 DEF IInv, ResolvedFlushIsCovered
<1>7. Known'
  BY <1>0, <1>d DEF IInv, Given, Known, Knows
<1> QED BY <1>1, <1>2, <1>3, <1>4, <1>5, <1>6, <1>7 DEF IInv

(* The fields of the drain that begins with snapshot p.                       *)
LEMMA DrainFacts ==
  ASSUME NEW id \in Edits, NEW p \in Edits, NEW f \in Flushes, NEW e \in Expectations
  PROVE  /\ Drain(id, p, f, e) \in Drains
         /\ Drain(id, p, f, e).id = id /\ Drain(id, p, f, e).snap = p
         /\ Drain(id, p, f, e).at = "sent" /\ Drain(id, p, f, e).owner = f
         /\ Drain(id, p, f, e).expect = e
BY DEF Drain, Drains, Revisions

(* A flush that drains keeps the invariant.                                   *)
LEMMA BeginsSafe ==
  ASSUME IInv, NEW kind \in {"auto", "flush", "dispose"}, NEW p, NEW st,
         Begins(p, st, FlushBy(kind, last'))
  PROVE  IInv'
<1> DEFINE f == FlushBy(kind, last')
           new == Drain(p, p, f, expected)
<1>0. Given(p, st) /\ TypeOK
  BY DEF Begins, IInv
<1>f. f \in Flushes /\ f.upto = last'
  BY <1>0, FlushType, GivenFacts DEF FlushBy
<1>g. /\ last \in Nat /\ last' \in Nat /\ last' \in Edits \cup {None} /\ last <= last'
      /\ dropped \in Nat /\ durable \in Nat
      /\ p \in Edits /\ p \in Nat /\ durable < p /\ p <= last' /\ (p = last' \/ last' <= dropped)
      /\ pending' = None /\ promise' = p
      /\ durable' = durable /\ dropped' = dropped
  <2>1. p # None /\ pending' = None /\ promise' = p /\ durable' = durable /\ dropped' = dropped
    BY <1>0 DEF Begins, Given
  <2>2. p \in Edits
    BY <1>0, <2>1, GivenFacts
  <2> QED BY <1>0, <2>1, <2>2, GivenFacts DEF Edits, None
<1>d. drains = {} /\ drains' = {new} /\ waiters' = <<>>
  BY DEF Begins, IInv, SerialWrites, TypeOK, Drains, Edits, None
<1>n. /\ new \in Drains /\ new.id = p /\ new.snap = p /\ new.at = "sent"
      /\ new.owner = f /\ new.expect = expected
  BY <1>0, <1>f, <1>g, DrainFacts DEF TypeOK
<1> HIDE DEF f, new
<1>1. TypeOK'
  BY <1>0, <1>g, <1>d, <1>n DEF Begins, TypeOK, Given, Statuses
<1>2. Ordered' /\ Latest' /\ NoLostEdit'
  BY <1>d, <1>g, <1>n DEF Ordered, Latest, NoLostEdit
<1>3. SerialWrites'
  BY <1>d, <1>g, <1>n DEF SerialWrites
<1>4. SavedMeansStored' /\ ResolvedFlushIsCovered'
  BY <1>d DEF Begins, SavedMeansStored, ResolvedFlushIsCovered
<1>5. Answers'
  <2>1. Outstanding' = {f}
    BY <1>d, <1>n DEF Outstanding
  <2>2. \A v \in vouched : v \in Nat /\ v <= last
    BY <1>0, OutstandingType DEF IInv, Answers
  <2> QED BY <1>f, <1>g, <2>1, <2>2 DEF Answers, Begins
<1>6. Known'
  BY <1>0, <1>d, <1>n DEF IInv, Given, Known, Knows
<1> QED BY <1>1, <1>2, <1>3, <1>4, <1>5, <1>6 DEF IInv

(* cancel() and dispose({ flush: false }) keep the invariant.                 *)
LEMMA DropsSafe == ASSUME IInv, Drops PROVE IInv'
<1>0. last \in Nat /\ durable \in Nat /\ \A d \in drains : d.snap \in Nat
  BY DEF IInv, TypeOK, Edits, None, Drains
<1>1. TypeOK'
  BY DEF IInv, Drops, TypeOK, Statuses
<1>2. Ordered' /\ Latest' /\ NoLostEdit'
  BY <1>0 DEF IInv, Drops, Ordered, Latest, NoLostEdit
<1>3. SerialWrites' /\ SavedMeansStored' /\ Known'
  BY DEF IInv, Drops, SerialWrites, SavedMeansStored, Known, Knows
<1>4. Answers' /\ ResolvedFlushIsCovered'
  <2>1. Outstanding' = Outstanding
    BY DEF Drops, Outstanding
  <2> QED BY <2>1 DEF IInv, Drops, Answers, ResolvedFlushIsCovered
<1> QED BY <1>1, <1>2, <1>3, <1>4 DEF IInv

(* Whether drain e differs from d only in what SetExpectedRevision touches.   *)
Alike(e, d) == /\ e.id = d.id /\ e.snap = d.snap /\ e.at = d.at /\ e.owner = d.owner
               /\ e.expect = d.expect /\ e.revision = d.revision

(* setExpectedRevision keeps the invariant.                                   *)
LEMMA SetExpectedSafe ==
  ASSUME IInv, NEW r \in Readable, SetExpectedRevision(r)
  PROVE  IInv'
<1>0. TypeOK /\ stored \in Nat
  BY DEF IInv, TypeOK, Revisions
<1>u. UNCHANGED <<delayed, pending, timer, promise, waiters, status, disposed, stored,
                  foreign, last, durable, dropped, vouched, reported, deleted>>
  BY DEF SetExpectedRevision, options
<1>d. drains' = {[d EXCEPT !.fresh = FALSE] : d \in drains}
  BY DEF SetExpectedRevision
<1>a. \A d \in drains : LET e == [d EXCEPT !.fresh = FALSE] IN e \in Drains /\ Alike(e, d)
  BY <1>0 DEF TypeOK, Drains, Alike
<1>b. \A e \in drains' : e \in Drains /\ \E d \in drains : Alike(e, d)
  BY <1>d, <1>a
<1>c. \A d \in drains : \E e \in drains' : Alike(e, d)
  BY <1>d, <1>a
<1>r. r \in Expectations /\ (r # LastWriterWins => r <= stored)
  BY <1>0 DEF Readable, Expectations, Revisions, LastWriterWins
<1>1. TypeOK'
  BY <1>0, <1>u, <1>b, <1>r DEF TypeOK, SetExpectedRevision
<1>2. Ordered' /\ Latest' /\ NoLostEdit'
  BY <1>u, <1>b, <1>c DEF IInv, Ordered, Latest, NoLostEdit, Alike
<1>3. SerialWrites' /\ SavedMeansStored' /\ ResolvedFlushIsCovered'
  <2>1. \A d, e \in drains' : d = e
    BY <1>d DEF IInv, SerialWrites
  <2>2. \A e \in drains' : promise' = e.id
    BY <1>u, <1>b DEF IInv, SerialWrites, Alike
  <2>3. drains' = {} <=> drains = {}
    BY <1>d
  <2> QED BY <1>u, <2>1, <2>2, <2>3 DEF IInv, SerialWrites, SavedMeansStored, ResolvedFlushIsCovered
<1>4. Answers'
  <2>1. Outstanding' \subseteq Outstanding
    BY <1>u, <1>b DEF Outstanding, Alike
  <2> QED BY <1>u, <2>1 DEF IInv, Answers
<1>5. Known'
  <2>1. expected' = r /\ seen' = (seen \/ r = stored)
    BY DEF SetExpectedRevision
  <2> QED BY <1>0, <1>u, <1>b, <1>r, <2>1, ZenonT(60) DEF IInv, Known, Knows, Alike
<1> QED BY <1>1, <1>2, <1>3, <1>4, <1>5 DEF IInv

(* What is known of the one drain d that awaits a save.                       *)
LEMMA DrainIs ==
  ASSUME IInv, NEW d \in drains
  PROVE  /\ drains = {d} /\ promise = d.id
         /\ d \in Drains /\ d.id \in Edits /\ d.snap \in Edits /\ d.snap \in Nat
         /\ d.owner \in Flushes /\ d.expect \in Expectations /\ d.revision \in Nat
         /\ last \in Nat /\ durable \in Nat /\ dropped \in Nat /\ pending \in Nat /\ stored \in Nat
         /\ d.snap <= last /\ durable <= last
BY DEF IInv, SerialWrites, Ordered, TypeOK, Drains, Edits, None, Revisions

(* The transaction of a save keeps the invariant.                             *)
LEMMA StoredSafe ==
  ASSUME IInv, NEW d \in drains, SaveStored(d)
  PROVE  IInv'
<1> DEFINE e == [d EXCEPT !.at = "stored", !.revision = stored + 1]
<1>0. TypeOK
  BY DEF IInv
<1>u. UNCHANGED <<delayed, pending, timer, promise, waiters, expected, status, disposed,
                  foreign, last, dropped, vouched, reported, deleted>>
  BY DEF SaveStored, options
<1>d. /\ drains' = {e} /\ durable' = d.snap /\ stored' = stored + 1 /\ seen' = TRUE
      /\ d.at = "sent" /\ durable < d.snap
  BY DrainIs DEF SaveStored, IInv, Ordered
<1>e. /\ e \in Drains /\ e.id = d.id /\ e.snap = d.snap /\ e.at = "stored"
      /\ e.owner = d.owner /\ e.expect = d.expect /\ e.revision = stored + 1
  <2>1. d \in Drains /\ stored + 1 \in Nat
    BY DrainIs
  <2> QED BY <2>1 DEF Drains, Revisions
<1> HIDE DEF e
<1>1. TypeOK'
  BY <1>0, <1>u, <1>d, <1>e, DrainIs DEF TypeOK, Revisions
<1>2. Ordered' /\ Latest' /\ NoLostEdit'
  BY <1>u, <1>d, <1>e, DrainIs DEF IInv, Ordered, Latest, NoLostEdit
<1>3. SerialWrites' /\ SavedMeansStored' /\ ResolvedFlushIsCovered'
  BY <1>u, <1>d, <1>e, DrainIs DEF IInv, SerialWrites, SavedMeansStored, ResolvedFlushIsCovered
<1>4. Answers'
  <2>1. Outstanding' = Outstanding
    BY <1>u, <1>d, <1>e, DrainIs DEF Outstanding
  <2> QED BY <1>u, <2>1 DEF IInv, Answers
<1>5. Known'
  <2>1. stored \in Nat /\ d.expect \in Expectations /\ expected \in Expectations
    BY <1>0, DrainIs DEF TypeOK
  <2> QED BY <1>u, <1>d, <1>e, <2>1 DEF IInv, Known, Knows, Expectations, Revisions, LastWriterWins
<1> QED BY <1>1, <1>2, <1>3, <1>4, <1>5 DEF IInv

(* A save that resolves keeps the invariant.                                  *)
LEMMA ResolvesSafe ==
  ASSUME IInv, NEW d \in drains, SaveResolves(d)
  PROVE  IInv'
<1>0. TypeOK /\ d.at = "stored" /\ durable = d.snap
  BY DEF IInv, SaveResolves, Ordered
<1>u. UNCHANGED <<delayed, timer, stored, foreign, durable, seen, deleted, last, dropped, reported>>
  BY DEF SaveResolves, options, repository
<1>e. /\ Advanced(d) \in Expectations /\ expected' = Advanced(d)
      /\ deleted \/ Knows(Advanced(d))
  BY <1>0, DrainIs DEF SaveResolves, Advanced, IInv, Known, TypeOK, Expectations, Revisions
<1>w. \A f \in Outstanding : f \in Flushes /\ f.upto <= last
  BY <1>0, OutstandingType DEF IInv, Answers
<1>1. CASE pending # None
  <2> DEFINE new == Drain(d.id, pending, d.owner, Advanced(d))
  <2>1. /\ pending \in Edits /\ durable < pending /\ pending <= last
        /\ pending = last \/ last <= dropped
    BY <1>0, <1>1 DEF IInv, TypeOK, Ordered, Latest
  <2>2. /\ drains' = {new} /\ pending' = None /\ status' = "saving"
        /\ UNCHANGED <<promise, waiters, vouched, disposed>>
    BY <1>1, DrainIs DEF SaveResolves
  <2>3. /\ new \in Drains /\ new.id = d.id /\ new.snap = pending /\ new.at = "sent"
        /\ new.owner = d.owner /\ new.expect = Advanced(d)
    BY <1>e, <2>1, DrainIs, DrainFacts
  <2> HIDE DEF new
  <2>4. TypeOK'
    BY <1>0, <1>u, <1>e, <2>2, <2>3 DEF TypeOK, Statuses
  <2>5. Ordered' /\ Latest' /\ NoLostEdit'
    BY <1>u, <2>1, <2>2, <2>3, DrainIs DEF Ordered, Latest, NoLostEdit
  <2>6. SerialWrites' /\ SavedMeansStored' /\ ResolvedFlushIsCovered'
    BY <2>2, <2>3, DrainIs DEF SerialWrites, SavedMeansStored, ResolvedFlushIsCovered
  <2>7. Answers'
    <3>1. Outstanding' = Outstanding
      BY <2>2, <2>3, DrainIs DEF Outstanding
    <3> QED BY <1>u, <2>2, <3>1 DEF IInv, Answers
  <2>8. Known'
    BY <1>u, <1>e, <2>2, <2>3 DEF Known, Knows
  <2> QED BY <2>4, <2>5, <2>6, <2>7, <2>8 DEF IInv
<1>2. CASE pending = None
  <2> DEFINE S == {d.owner} \cup {waiters[i] : i \in DOMAIN waiters}
  <2>1. /\ drains' = {} /\ promise' = None /\ waiters' = <<>> /\ pending' = None
        /\ Resolve(S, "saved")
    BY <1>2, DrainIs DEF SaveResolves, None, Edits
  <2>2. S \subseteq Outstanding
    BY DEF Outstanding
  <2>3. S \in SUBSET Flushes /\ \A f \in S : f.upto <= last
    BY <1>w, <2>2
  <2> HIDE DEF S
  <2>4. /\ \A v \in vouched' : v \in vouched \/ \E f \in S : v = f.upto
        /\ vouched' \in SUBSET (Edits \cup {None})
        /\ disposed' \in BOOLEAN /\ status' \in Statuses
    BY <1>0, <2>1, <2>3, ResolveFacts DEF Statuses
  <2>5. last = durable \/ last <= dropped
    BY <1>0, <1>2, DrainIs DEF IInv, NoLostEdit, None
  <2>6. \A v \in vouched' : v \in Nat /\ v <= last
    BY <1>0, <2>3, <2>4, OutstandingType DEF IInv, Answers, Edits, None
  <2>7. TypeOK'
    <3>1. waiters' \in Seq(Flushes) /\ drains' \in SUBSET Drains
      BY <2>1
    <3> QED BY <1>0, <1>u, <1>e, <2>1, <2>4, <3>1 DEF TypeOK
  <2>8. Ordered' /\ Latest' /\ NoLostEdit' /\ SerialWrites' /\ SavedMeansStored'
    BY <1>u, <2>1, <2>5, DrainIs DEF Ordered, Latest, NoLostEdit, SerialWrites, SavedMeansStored
  <2>9. ResolvedFlushIsCovered'
    BY <1>u, <2>5, <2>6, DrainIs DEF ResolvedFlushIsCovered
  <2>10. Answers'
    BY <1>u, <2>1, <2>6 DEF Answers, Outstanding
  <2>11. Known'
    BY <1>u, <1>e, <2>1 DEF Known, Knows
  <2> QED BY <2>7, <2>8, <2>9, <2>10, <2>11 DEF IInv
<1> QED BY <1>1, <1>2

(* A save that rejects keeps the invariant.                                   *)
LEMMA RejectsSafe ==
  ASSUME IInv, NEW d \in drains, SaveRejects(d)
  PROVE  IInv'
<1>0. TypeOK /\ durable < d.snap /\ (pending # None => d.snap < pending /\ pending <= last)
  BY DEF IInv, SaveRejects, Ordered
<1>u. /\ UNCHANGED <<delayed, timer, expected, stored, foreign, durable, seen, deleted, last, dropped>>
      /\ reported' = last
  BY DEF SaveRejects, options, repository
<1>p. /\ Retained(d) \in Edits /\ Retained(d) \in Nat
      /\ durable < Retained(d) /\ Retained(d) <= last
      /\ Retained(d) = last \/ last <= dropped
  <2>1. CASE pending = None
    <3>1. Retained(d) = d.snap
      BY <2>1 DEF Retained
    <3>2. d.snap = last \/ last <= dropped
      BY <1>0, <2>1, DrainIs DEF IInv, NoLostEdit, None
    <3> QED BY <1>0, <3>1, <3>2, DrainIs
  <2>2. CASE pending # None
    <3>1. Retained(d) = pending /\ pending \in Edits
      BY <1>0, <2>2 DEF Retained, TypeOK
    <3> QED BY <1>0, <2>2, <3>1, DrainIs DEF IInv, Latest
  <2> QED BY <2>1, <2>2
<1>w. \A f \in Outstanding : f \in Flushes /\ f.upto <= last
  BY <1>0, OutstandingType DEF IInv, Answers
<1>v. \A v \in vouched : v \in Nat /\ v <= last
  BY <1>0, OutstandingType DEF IInv, Answers
<1>1. CASE waiters = <<>>
  <2>1. /\ drains' = {} /\ promise' = None /\ pending' = Retained(d) /\ status' = "error"
        /\ waiters' = <<>> /\ vouched' = vouched /\ disposed' = disposed
    BY <1>1, DrainIs DEF SaveRejects
  <2>2. TypeOK'
    BY <1>0, <1>u, <1>p, <2>1, DrainIs DEF TypeOK, Statuses
  <2>3. Ordered' /\ Latest' /\ NoLostEdit' /\ SerialWrites' /\ SavedMeansStored'
    BY <1>u, <1>p, <2>1, DrainIs DEF Ordered, Latest, NoLostEdit, SerialWrites, SavedMeansStored
  <2>4. Answers' /\ ResolvedFlushIsCovered'
    BY <1>u, <1>v, <2>1 DEF Answers, Outstanding, ResolvedFlushIsCovered
  <2>5. Known'
    BY <1>u, <2>1 DEF IInv, Known, Knows
  <2> QED BY <2>2, <2>3, <2>4, <2>5 DEF IInv
<1>2. CASE waiters # <<>>
  <2> DEFINE head == Head(waiters)
             new == Drain(Retained(d), Retained(d), head, expected)
             S == {waiters[i] : i \in DOMAIN waiters \ {1}}
  <2>1. /\ drains' = {new} /\ promise' = Retained(d) /\ pending' = None /\ waiters' = <<>>
        /\ Resolve(S, "saving")
    BY <1>2, DrainIs DEF SaveRejects
  <2>2. head \in Outstanding
    <3>1. waiters \in Seq(Flushes) /\ waiters # <<>>
      BY <1>0, <1>2 DEF TypeOK
    <3>2. 1 \in DOMAIN waiters /\ head = waiters[1]
      BY <3>1
    <3> QED BY <3>2 DEF Outstanding
  <2>3. /\ new \in Drains /\ new.id = Retained(d) /\ new.snap = Retained(d) /\ new.at = "sent"
        /\ new.owner = head /\ new.expect = expected
    BY <1>0, <1>p, <1>w, <2>2, DrainFacts DEF TypeOK
  <2>4. S \subseteq Outstanding
    BY DEF Outstanding
  <2>5. S \in SUBSET Flushes /\ \A f \in S : f.upto <= last
    BY <1>w, <2>4
  <2> HIDE DEF S, new, head
  <2>6. /\ \A v \in vouched' : v \in vouched \/ \E f \in S : v = f.upto
        /\ vouched' \in SUBSET (Edits \cup {None})
        /\ disposed' \in BOOLEAN /\ status' \in Statuses
        /\ status' # "saved"
    BY <1>0, <2>1, <2>5, ResolveFacts DEF Statuses
  <2>7. TypeOK'
    <3>1. waiters' \in Seq(Flushes) /\ drains' \in SUBSET Drains
      BY <2>1, <2>3
    <3>2. promise' \in Edits \cup {None} /\ pending' \in Edits \cup {None} /\ reported' \in Edits \cup {None}
      BY <1>0, <1>u, <1>p, <2>1 DEF TypeOK
    <3> QED BY <1>0, <1>u, <2>6, <3>1, <3>2 DEF TypeOK
  <2>8. Ordered' /\ Latest' /\ NoLostEdit' /\ SerialWrites' /\ SavedMeansStored' /\ ResolvedFlushIsCovered'
    BY <1>u, <1>p, <2>1, <2>3, <2>6, DrainIs
       DEF Ordered, Latest, NoLostEdit, SerialWrites, SavedMeansStored, ResolvedFlushIsCovered
  <2>9. Answers'
    <3>1. Outstanding' = {head}
      BY <2>1, <2>3 DEF Outstanding
    <3>2. \A v \in vouched' : v <= last
      BY <1>v, <2>5, <2>6
    <3> QED BY <1>u, <1>w, <2>2, <3>1, <3>2 DEF Answers
  <2>10. Known'
    BY <1>u, <2>1, <2>3 DEF IInv, Known, Knows
  <2> QED BY <2>7, <2>8, <2>9, <2>10 DEF IInv
<1> QED BY <1>1, <1>2

(* A write or a deletion by the other tab keeps the invariant.                *)
LEMMA OtherTabSafe == ASSUME IInv, OtherTab PROVE IInv'
<1>0. TypeOK /\ stored \in Nat
  BY DEF IInv, TypeOK, Revisions
<1>u. UNCHANGED <<delayed, pending, timer, promise, drains, waiters, expected, status,
                  disposed, last, durable, dropped, vouched, reported>>
  BY DEF OtherTab, OtherTabSaves, OtherTabDeletes, options
<1>s. /\ foreign' = foreign + 1 /\ seen' = FALSE /\ deleted' \in BOOLEAN
      /\ deleted' \/ (stored' = stored + 1 /\ deleted' = deleted)
      /\ stored' \in Nat
  <2>1. CASE OtherTabSaves
    BY <1>0, <2>1 DEF OtherTabSaves, TypeOK
  <2>2. CASE OtherTabDeletes
    BY <1>0, <2>2 DEF OtherTabDeletes, TypeOK
  <2> QED BY <2>1, <2>2 DEF OtherTab
<1>1. TypeOK'
  <2>1. foreign' \in Nat /\ stored' \in Revisions /\ seen' \in BOOLEAN /\ deleted' \in BOOLEAN
    <3>1. foreign' = foreign + 1 /\ foreign \in Nat /\ stored' \in Nat
      BY <1>0, <1>s DEF TypeOK
    <3>2. seen' \in BOOLEAN /\ deleted' \in BOOLEAN
      BY <1>s, Zenon
    <3> QED BY <3>1, <3>2 DEF Revisions
  <2> QED BY <1>0, <1>u, <2>1 DEF TypeOK
<1>2. Outstanding' = Outstanding
  BY <1>u DEF Outstanding
<1>3. Ordered' /\ Latest' /\ NoLostEdit' /\ SerialWrites' /\ SavedMeansStored'
      /\ Answers' /\ ResolvedFlushIsCovered'
  BY <1>u, <1>2 DEF IInv, Ordered, Latest, NoLostEdit, SerialWrites, SavedMeansStored,
                    Answers, ResolvedFlushIsCovered
<1>4. Known'
  <2>1. ASSUME NEW r \in Expectations, Knows(r), stored' = stored + 1
        PROVE  Knows(r)'
    BY <1>0, <2>1 DEF Knows, Expectations, Revisions, LastWriterWins
  <2>2. /\ expected \in Expectations
        /\ \A d \in drains : d.expect \in Expectations /\ d.revision \in Expectations
    BY <1>0 DEF TypeOK, Drains, Expectations
  <2> QED BY <1>u, <1>s, <2>1, <2>2 DEF IInv, Known
<1> QED BY <1>1, <1>3, <1>4 DEF IInv

-----------------------------------------------------------------------------
LEMMA Inductive == IInv /\ [Next]_vars => IInv'
<1> SUFFICES ASSUME IInv, [Next]_vars PROVE IInv'
  OBVIOUS
<1>0. TypeOK
  BY DEF IInv
<1>1. CASE Debounces \/ Drops \/ OtherTab
  BY <1>1, DebouncesSafe, DropsSafe, OtherTabSafe
<1>2. ASSUME NEW kind \in {"auto", "flush", "dispose"}, NEW p, NEW st,
             LET f == FlushBy(kind, last')
             IN  Waits(p, st, f) \/ Returns(p, st, f) \/ Begins(p, st, f)
      PROVE  IInv'
  BY <1>2, WaitsSafe, ReturnsSafe, BeginsSafe
<1>3. ASSUME NEW r \in Readable, SetExpectedRevision(r) PROVE IInv'
  BY <1>3, SetExpectedSafe
<1>4. ASSUME NEW d \in drains, SaveStored(d) \/ SaveResolves(d) \/ SaveRejects(d) PROVE IInv'
  BY <1>4, StoredSafe, ResolvesSafe, RejectsSafe
<1>5. CASE UNCHANGED vars
  BY <1>5 DEF vars, IInv, TypeOK, SerialWrites, Ordered, Latest, NoLostEdit, SavedMeansStored,
              Answers, Outstanding, ResolvedFlushIsCovered, Known, Knows
<1> QED BY <1>0, <1>1, <1>2, <1>3, <1>4, <1>5, Cases

LEMMA Invariance == Spec => []IInv
BY InitSafe, Inductive, PTL DEF Spec

(* The coordinator's fields keep their types.                                 *)
THEOREM TypeCorrect == Spec => []TypeOK
<1>1. IInv => TypeOK
  BY DEF IInv
<1> QED BY <1>1, Invariance, PTL

(* However flushes, failures and edits interleave, one drain at a time saves. *)
THEOREM WritesAreSerial == Spec => []SerialWrites
<1>1. IInv => SerialWrites
  BY DEF IInv
<1> QED BY <1>1, Invariance, PTL

(* The latest edit survives any number of failed saves and newer edits.       *)
THEOREM NoEditIsLost == Spec => []NoLostEdit
<1>1. IInv => NoLostEdit
  BY DEF IInv
<1> QED BY <1>1, Invariance, PTL

(* 'saved' is never shown over an edit that is not stored.                    *)
THEOREM SavedIsStored == Spec => []SavedMeansStored
<1>1. IInv => SavedMeansStored
  BY DEF IInv
<1> QED BY <1>1, Invariance, PTL

(* A flush that resolves over an edit that is not stored leaves it being      *)
(* saved, or its failure reported.                                            *)
THEOREM FlushIsCovered == Spec => []ResolvedFlushIsCovered
<1>1. IInv => ResolvedFlushIsCovered
  BY DEF IInv
<1> QED BY <1>1, Invariance, PTL

(* Only SaveStored changes `durable`.                                         *)
LEMMA DurableChanges ==
  ASSUME TypeOK, [Next]_vars, durable' # durable
  PROVE  \E d \in drains : SaveStored(d)
<1>1. ~Debounces /\ ~Drops /\ ~OtherTab /\ ~UNCHANGED vars
  BY DEF Debounces, Drops, OtherTab, OtherTabSaves, OtherTabDeletes, vars
<1>2. \A p, st, f : ~Waits(p, st, f) /\ ~Returns(p, st, f) /\ ~Begins(p, st, f)
  BY DEF Waits, Returns, Begins, Given
<1>3. /\ \A r : ~SetExpectedRevision(r)
      /\ \A d : ~SaveResolves(d) /\ ~SaveRejects(d)
  BY DEF SetExpectedRevision, SaveResolves, SaveRejects, repository
<1> QED BY <1>1, <1>2, <1>3, Cases

(* Edits are stored in the order they were scheduled.                         *)
THEOREM StoredInOrder == Spec => NeverRegresses
<1>1. IInv /\ [Next]_vars => [durable' >= durable]_vars
  <2> SUFFICES ASSUME IInv, [Next]_vars PROVE durable' >= durable
    OBVIOUS
  <2>1. TypeOK /\ durable \in Nat
    BY DEF IInv, TypeOK, Edits, None
  <2>2. CASE durable' # durable
    <3>1. PICK d \in drains : SaveStored(d)
      BY <2>1, <2>2, DurableChanges
    <3> QED BY <2>1, <3>1, DrainIs DEF IInv, Ordered, SaveStored
  <2> QED BY <2>1, <2>2
<1> QED BY <1>1, Invariance, PTL DEF Spec, NeverRegresses

(* With an expected revision no record of the other tab is overwritten that   *)
(* this tab has not read, unless the project was deleted.                     *)
THEOREM NoBlindWrite == Spec => NoBlindOverwrite
<1> DEFINE Blind == \A d \in drains : /\ d.expect # LastWriterWins
                                      /\ durable' = d.snap /\ durable # d.snap
                                      => seen \/ deleted
<1>1. IInv /\ [Next]_vars => [Blind]_vars
  <2> SUFFICES ASSUME IInv, [Next]_vars, NEW d \in drains, d.expect # LastWriterWins,
                      durable' = d.snap, durable # d.snap
               PROVE  seen \/ deleted
    OBVIOUS
  <2>1. PICK e \in drains : SaveStored(e)
    BY DurableChanges DEF IInv
  <2>2. d.expect = stored
    BY <2>1 DEF IInv, SerialWrites, SaveStored
  <2> QED BY <2>2 DEF IInv, Known, Knows
<1> QED BY <1>1, Invariance, PTL DEF Spec, NoBlindOverwrite
=============================================================================
