------------------------- MODULE ControlOutput_proofs -------------------------
(***************************************************************************)
(* The ring of ControlOutput implements OutputQueue, whatever its capacity *)
(* and the lines, and overflows only on a burst.                           *)
(***************************************************************************)
EXTENDS ControlOutput, TLAPS

-----------------------------------------------------------------------------
(* Remainders of the positions that the ring computes, all below 2 * Cap.     *)

LEMMA Division ==
  ASSUME NEW n \in Nat, NEW d \in Nat \ {0}
  PROVE  n = d * (n \div d) + (n % d) /\ n % d \in 0 .. d - 1 /\ n \div d \in Nat
  BY Z3

LEMMA Unwrapped == ASSUME NEW i \in Slots PROVE i % Cap = i
  BY OutputAssumption, Z3 DEF Slots

LEMMA Wrapped ==
  ASSUME NEW i \in Cap .. 2 * Cap - 1
  PROVE  i % Cap = i - Cap
<1> DEFINE q == i \div Cap
           r == i % Cap
<1>1. i = Cap * q + r /\ r \in 0 .. Cap - 1 /\ q \in Nat
  <2>1. i \in Nat /\ Cap \in Nat \ {0}  BY OutputAssumption
  <2> QED BY <2>1, Division
<1> HIDE DEF q, r
<1>2. q >= 2 => Cap * q >= 2 * Cap
  BY <1>1, OutputAssumption, Z3
<1>3. q = 1
  <2>1. q # 0  BY <1>1, OutputAssumption
  <2>2. ~(q >= 2)  BY <1>1, <1>2, OutputAssumption
  <2> QED BY <1>1, <2>1, <2>2
<1> QED BY <1>1, <1>3, OutputAssumption DEF r

(* A position that has wrapped at most once.                                  *)
Wrap(i) == IF i < Cap THEN i ELSE i - Cap

LEMMA Position ==
  ASSUME NEW i \in 0 .. 2 * Cap - 1
  PROVE  i % Cap = Wrap(i) /\ Wrap(i) \in Slots
<1>1. CASE i < Cap
  BY <1>1, Unwrapped, OutputAssumption DEF Wrap, Slots
<1>2. CASE i >= Cap
  BY <1>2, Wrapped, OutputAssumption DEF Wrap, Slots
<1> QED BY <1>1, <1>2, OutputAssumption

-----------------------------------------------------------------------------
LEMMA SameSequence ==
  ASSUME NEW S, NEW s \in Seq(S), NEW t \in Seq(S), Len(s) = Len(t),
         \A i \in 1 .. Len(s) : s[i] = t[i]
  PROVE  s = t
  OBVIOUS

(* The two operations of the ring, on the bytes it holds.                     *)

RingOK == data \in [Slots -> Byte] /\ head \in Slots /\ length \in 0 .. Cap

LEMMA ContentsAt ==
  ASSUME RingOK
  PROVE  /\ Contents \in Seq(Byte) /\ Len(Contents) = length
         /\ \A i \in 1 .. length : Contents[i] = data[Wrap(head + i - 1)]
<1>1. \A i \in 1 .. length : /\ (head + i - 1) % Cap = Wrap(head + i - 1)
                             /\ Wrap(head + i - 1) \in Slots
  BY Position, OutputAssumption, SMTT(60) DEF RingOK, Slots
<1>2. Contents = [i \in 1 .. length |-> data[Wrap(head + i - 1)]]
  BY <1>1 DEF Contents
<1>3. \A i \in 1 .. length : data[Wrap(head + i - 1)] \in Byte
  BY <1>1 DEF RingOK
<1>4. length \in Nat BY OutputAssumption DEF RingOK
<1> HIDE DEF Contents
<1> QED BY <1>2, <1>3, <1>4

LEMMA ContentsAtNext ==
  ASSUME RingOK'
  PROVE  /\ Contents' \in Seq(Byte) /\ Len(Contents') = length'
         /\ \A i \in 1 .. length' : Contents'[i] = data'[Wrap(head' + i - 1)]
<1>1. head' \in 0 .. Cap - 1 /\ length' \in 0 .. Cap /\ Cap \in Nat \ {0}
  BY OutputAssumption DEF RingOK, Slots
<1>2. ASSUME NEW i \in 1 .. length'
      PROVE  (head' + i - 1) % Cap = Wrap(head' + i - 1) /\ Wrap(head' + i - 1) \in Slots
  <2>1. \A h \in 0 .. Cap - 1, k \in 0 .. Cap : \A m \in 1 .. k : h + m - 1 \in 0 .. 2 * Cap - 1
    BY OutputAssumption
  <2>2. head' + i - 1 \in 0 .. 2 * Cap - 1
    BY <1>1, <2>1
  <2> QED BY <2>2, Position
<1>3. Contents' = [i \in 1 .. length' |-> data'[Wrap(head' + i - 1)]]
  BY <1>2 DEF Contents
<1>4. \A i \in 1 .. length' : data'[Wrap(head' + i - 1)] \in Byte
  BY <1>2 DEF RingOK
<1>5. length' \in Nat
  BY <1>1
<1> HIDE DEF Contents
<1> QED BY <1>3, <1>4, <1>5

LEMMA EnqueueAppends ==
  ASSUME RingOK, NEW line \in Seq(Byte), ~NoRoom(line), Enqueue(line)
  PROVE  RingOK' /\ Contents' = Contents \o line
<1> DEFINE tail  == (head + length) % Cap
           L     == Len(line)
           first == IF Cap - tail > L THEN L ELSE Cap - tail
<1>1. /\ L \in Nat /\ length + L <= Cap /\ length \in Nat /\ head \in 0 .. Cap - 1 /\ Cap \in Nat \ {0}
      /\ length \in 0 .. Cap
  BY OutputAssumption DEF RingOK, NoRoom, Slots
<1>2. tail = Wrap(head + length) /\ tail \in Slots
  <2>1. head + length \in 0 .. 2 * Cap - 1  BY <1>1
  <2> QED BY <2>1, Position
<1>3. /\ data' = [i \in Slots |->
                    IF i >= tail /\ i < tail + first THEN line[i - tail + 1]
                    ELSE IF i < L - first THEN line[first + i + 1]
                    ELSE data[i]]
      /\ length' = length + L
      /\ head' = head
  BY DEF Enqueue
<1> HIDE DEF tail
<1>4. tail \in 0 .. Cap - 1
  BY <1>2 DEF Slots
<1>5. \A i \in 1 .. L : line[i] \in Byte
  OBVIOUS
<1> HIDE DEF L
<1>6. first \in Nat /\ first <= L /\ tail + first <= Cap
  BY <1>1, <1>4
<1> HIDE DEF first
<1>7. data' \in [Slots -> Byte]
  <2> SUFFICES ASSUME NEW i \in Slots PROVE data'[i] \in Byte
    BY <1>3
  <2>1. CASE i >= tail /\ i < tail + first
    <3>1. i - tail + 1 \in 1 .. L  BY <2>1, <1>1, <1>4, <1>6 DEF Slots
    <3> QED BY <2>1, <3>1, <1>3, <1>5
  <2>2. CASE ~(i >= tail /\ i < tail + first) /\ i < L - first
    <3>1. first + i + 1 \in 1 .. L  BY <2>2, <1>1, <1>6 DEF Slots
    <3> QED BY <2>2, <3>1, <1>3, <1>5
  <2>3. CASE ~(i >= tail /\ i < tail + first) /\ ~(i < L - first)
    BY <2>3, <1>3 DEF RingOK
  <2> QED BY <2>1, <2>2, <2>3
<1>8. RingOK'
  BY <1>1, <1>3, <1>7 DEF RingOK, Slots
<1>9. /\ Contents' \in Seq(Byte) /\ Len(Contents') = length'
      /\ \A i \in 1 .. length' : Contents'[i] = data'[Wrap(head' + i - 1)]
  BY <1>8, ContentsAtNext
<1>10. ASSUME NEW i \in 1 .. length
       PROVE  data'[Wrap(head + i - 1)] = data[Wrap(head + i - 1)]
  <2> DEFINE s == Wrap(head + i - 1)
  <2>1. s \in Slots
    BY Position, <1>1
  <2>2. ~(s >= tail /\ s < tail + first) /\ ~(s < L - first)
    BY <1>1, <1>2, <1>4 DEF Wrap, first
  <2> HIDE DEF s
  <2> QED BY <2>1, <2>2, <1>3 DEF s
<1>11. ASSUME NEW i \in length + 1 .. length + L
       PROVE  data'[Wrap(head + i - 1)] = line[i - length]
  <2> DEFINE s == Wrap(head + i - 1)
             j == i - length
  <2>1. s \in Slots
    BY Position, <1>1
  <2>2. CASE j <= first
    <3>1. s >= tail /\ s < tail + first /\ s - tail + 1 = j
      BY <2>2, <1>1, <1>2, <1>4 DEF Wrap, first
    <3> HIDE DEF s, j
    <3> QED BY <2>1, <3>1, <1>3 DEF s, j
  <2>3. CASE j > first
    <3>1. ~(s >= tail /\ s < tail + first) /\ s < L - first /\ first + s + 1 = j
      BY <2>3, <1>1, <1>2, <1>4 DEF Wrap, first
    <3> HIDE DEF s, j
    <3> QED BY <2>1, <3>1, <1>3 DEF s, j
  <2> QED BY <2>2, <2>3, <1>1, <1>6
<1>12. /\ Contents \in Seq(Byte) /\ Len(Contents) = length
       /\ \A i \in 1 .. length : Contents[i] = data[Wrap(head + i - 1)]
  BY ContentsAt
<1> HIDE DEF Contents
<1>13. /\ Contents \o line \in Seq(Byte)
       /\ Len(Contents \o line) = length + L
       /\ \A i \in 1 .. length : (Contents \o line)[i] = Contents[i]
       /\ \A i \in length + 1 .. length + L : (Contents \o line)[i] = line[i - length]
  BY <1>1, <1>12, SMTT(60) DEF L
<1>14. \A i \in 1 .. length + L : Contents'[i] = (Contents \o line)[i]
  <2> SUFFICES ASSUME NEW i \in 1 .. length + L PROVE Contents'[i] = (Contents \o line)[i]
    OBVIOUS
  <2>0. Contents'[i] = data'[Wrap(head + i - 1)]
    BY <1>3, <1>9
  <2>1. ASSUME i \in 1 .. length PROVE Contents'[i] = (Contents \o line)[i]
    BY <2>0, <2>1, <1>10, <1>12, <1>13
  <2>2. ASSUME i \in length + 1 .. length + L PROVE Contents'[i] = (Contents \o line)[i]
    BY <2>0, <2>2, <1>11, <1>13
  <2>3. i \in 1 .. length \/ i \in length + 1 .. length + L
    BY <1>1
  <2> QED BY <2>1, <2>2, <2>3
<1>15. Len(Contents') = length + L
  BY <1>3, <1>9
<1>16. Contents' = Contents \o line
  BY <1>9, <1>13, <1>14, <1>15, SameSequence
<1> QED BY <1>8, <1>16

LEMMA WriteDelivers ==
  ASSUME RingOK, wire \in Seq(Byte), NEW n, Write(n)
  PROVE  /\ RingOK' /\ wire' \in Seq(Byte)
         /\ n \in 1 .. Len(Contents)
         /\ wire' = wire \o SubSeq(Contents, 1, n)
         /\ Contents' = SubSeq(Contents, n + 1, Len(Contents))
<1> DEFINE taken == [i \in 1 .. n |-> data[head + i - 1]]
<1>1. /\ head \in 0 .. Cap - 1 /\ length \in 0 .. Cap /\ Cap \in Nat \ {0}
      /\ data \in [0 .. Cap - 1 -> Byte]
  BY OutputAssumption DEF RingOK, Slots
<1>2. n \in 1 .. length /\ head + n <= Cap
  BY <1>1 DEF Write, Contiguous
<1>3. /\ wire' = wire \o taken /\ head' = (head + n) % Cap /\ length' = length - n /\ data' = data
  BY DEF Write
<1>4. head' = Wrap(head + n) /\ head' \in Slots
  <2>1. head + n \in 0 .. 2 * Cap - 1
    BY <1>1, <1>2
  <2> QED BY <2>1, <1>3, Position
<1>5. RingOK'
  BY <1>1, <1>2, <1>3, <1>4 DEF RingOK, Slots
<1>6. /\ Contents \in Seq(Byte) /\ Len(Contents) = length
      /\ \A i \in 1 .. length : Contents[i] = data[Wrap(head + i - 1)]
  BY ContentsAt
<1>7. /\ Contents' \in Seq(Byte) /\ Len(Contents') = length'
      /\ \A i \in 1 .. length' : Contents'[i] = data'[Wrap(head' + i - 1)]
  BY <1>5, ContentsAtNext
<1> HIDE DEF Contents
<1>8. /\ SubSeq(Contents, 1, n) \in Seq(Byte) /\ Len(SubSeq(Contents, 1, n)) = n
      /\ \A i \in 1 .. n : SubSeq(Contents, 1, n)[i] = Contents[i]
  BY <1>1, <1>2, <1>6
<1>9. /\ SubSeq(Contents, n + 1, length) \in Seq(Byte)
      /\ Len(SubSeq(Contents, n + 1, length)) = length - n
      /\ \A i \in 1 .. length - n : SubSeq(Contents, n + 1, length)[i] = Contents[n + i]
  BY <1>1, <1>2, <1>6
<1>10. taken = SubSeq(Contents, 1, n)
  <2>1. \A i \in 1 .. n : data[head + i - 1] = Contents[i] /\ data[head + i - 1] \in Byte
    BY <1>1, <1>2, <1>6 DEF Wrap
  <2>2. taken \in Seq(Byte) /\ Len(taken) = n
    <3>1. n \in Nat  BY <1>1, <1>2
    <3> QED BY <2>1, <3>1
  <2>3. \A i \in 1 .. n : taken[i] = SubSeq(Contents, 1, n)[i]
    BY <2>1, <1>8
  <2> HIDE DEF taken
  <2> QED BY <2>2, <2>3, <1>8, SameSequence
<1>11. Contents' = SubSeq(Contents, n + 1, length)
  <2>1. ASSUME NEW i \in 1 .. length - n
        PROVE  Contents'[i] = SubSeq(Contents, n + 1, length)[i]
    <3>1. Wrap(head' + i - 1) = Wrap(head + (n + i) - 1)
      BY <1>1, <1>2, <1>4 DEF Wrap
    <3>2. n + i \in 1 .. length
      BY <1>1, <1>2
    <3>3. Contents[n + i] = data[Wrap(head + (n + i) - 1)]
      BY <3>2, <1>6
    <3> QED BY <3>1, <3>3, <1>3, <1>7, <1>9
  <2>2. length' = length - n
    BY <1>3
  <2> QED BY <2>1, <2>2, <1>7, <1>9, SameSequence
<1>12. wire' \in Seq(Byte)
  <2> HIDE DEF taken
  <2> QED BY <1>3, <1>8, <1>10
<1> HIDE DEF taken
<1> QED BY <1>1, <1>2, <1>3, <1>5, <1>6, <1>10, <1>11, <1>12

-----------------------------------------------------------------------------
(* The inductive invariant: the pending bytes are among those of the burst.   *)

Counted == /\ ~failed => length <= burst
           /\ overflow => failed /\ burst > Cap

IInv == TypeOK /\ Counted

(* The queue as an emitted line leaves it.                                    *)
LEMMA EmitAccepts ==
  ASSUME IInv, NEW line \in Lines, Emit(line), UNCHANGED wire
  PROVE  /\ RingOK' /\ failed' \in BOOLEAN /\ lines' \in 0 .. MaxLines
         /\ burst' \in Nat /\ overflow' \in BOOLEAN
         /\ Counted'
         /\ Queue!Accept(line) \/ Queue!Close \/ UNCHANGED <<Contents, failed>>
<1>1. /\ RingOK /\ length \in 0 .. Cap /\ burst \in Nat /\ Cap \in Nat \ {0}
      /\ lines \in 0 .. MaxLines /\ MaxLines \in Nat /\ failed \in BOOLEAN /\ overflow \in BOOLEAN
  BY OutputAssumption DEF IInv, TypeOK, RingOK
<1>2. line \in Seq(Byte) /\ Len(line) \in Nat
  BY OutputAssumption
<1>3. lines' \in 0 .. MaxLines
  BY <1>1 DEF Emit
<1>4. ASSUME UNCHANGED ring PROVE RingOK' /\ Contents' = Contents
  BY <1>1, <1>4 DEF ring, RingOK, Contents
<1>5. CASE failed /\ UNCHANGED <<ring, failed, history>>
  BY <1>1, <1>3, <1>4, <1>5 DEF history, ring, IInv, Counted
<1>6. CASE ~failed /\ Queued(line)
  <2>1. burst' = burst + Len(line) /\ burst' \in Nat
    BY <1>1, <1>2, <1>6 DEF Queued
  <2>2. overflow' \in BOOLEAN /\ (overflow' => NoRoom(line))
    BY <1>6 DEF Queued
  <2>3. CASE (TooLong(line) \/ NoRoom(line)) /\ failed' = TRUE /\ UNCHANGED ring
    <3>1. NoRoom(line) => burst' > Cap
      BY <1>1, <1>2, <1>6, <2>1 DEF NoRoom, IInv, Counted
    <3>2. Counted'
      BY <2>2, <2>3, <3>1 DEF Counted
    <3>3. Queue!Close
      BY <1>4, <2>3 DEF Queue!Close
    <3> QED BY <1>3, <1>4, <2>1, <2>2, <2>3, <3>2, <3>3
  <2>4. CASE ~TooLong(line) /\ ~NoRoom(line) /\ Enqueue(line) /\ UNCHANGED failed
    <3>1. RingOK' /\ Contents' = Contents \o line
      BY <1>1, <1>2, <2>4, EnqueueAppends
    <3>2. Counted'
      <4>1. length' = length + Len(line)
        BY <2>4 DEF Enqueue
      <4>2. length <= burst /\ ~overflow' /\ ~failed'
        BY <1>6, <2>2, <2>4 DEF IInv, Counted
      <4> QED BY <1>1, <1>2, <2>1, <4>1, <4>2 DEF Counted
    <3>3. Len(Contents) + Len(line) <= Cap
      <4>1. Len(Contents) = length
        BY <1>1, ContentsAt
      <4> QED BY <4>1, <1>1, <1>2, <2>4 DEF NoRoom
    <3>4. Queue!Accept(line)
      BY <1>6, <2>4, <3>1, <3>3 DEF Queue!Accept
    <3> QED BY <1>1, <1>3, <2>1, <2>2, <2>4, <3>1, <3>2, <3>4
  <2> QED BY <1>6, <2>3, <2>4 DEF Queued
<1> QED BY <1>5, <1>6 DEF Emit

(* What an action that leaves the ring's bytes alone does to them.            *)
LEMMA ContentsKept ==
  ASSUME UNCHANGED ring
  PROVE  Contents' = Contents
  BY DEF ring, Contents

(* An empty ring holds the empty sequence wherever its head is.               *)
LEMMA ContentsEmpty ==
  ASSUME RingOK, RingOK', length = 0, length' = 0
  PROVE  Contents' = Contents
<1>1. /\ Contents \in Seq(Byte) /\ Len(Contents) = 0
      /\ Contents' \in Seq(Byte) /\ Len(Contents') = 0
  BY ContentsAt, ContentsAtNext
<1> HIDE DEF Contents
<1> QED BY <1>1

(* A step of the supervisor is a step of the queue or leaves it as it is.     *)
QueueStep == Queue!Next \/ UNCHANGED <<Contents, wire, failed>>

LEMMA StepKeeps ==
  ASSUME IInv, Next
  PROVE  IInv' /\ QueueStep
<1>1. /\ RingOK /\ length \in 0 .. Cap /\ head \in Slots /\ data \in [Slots -> Byte]
      /\ at \in Points /\ failed \in BOOLEAN /\ pollin \in BOOLEAN /\ stopping \in BOOLEAN
      /\ draining \in BOOLEAN /\ attempts \in 0 .. MaxAttempts /\ lines \in 0 .. MaxLines
      /\ wire \in Seq(Byte) /\ burst \in Nat /\ overflow \in BOOLEAN /\ Counted
  BY DEF IInv, TypeOK, RingOK
<1>2. Cap \in Nat \ {0} /\ MaxAttempts \in Nat /\ MaxLines \in Nat
  BY OutputAssumption
<1>3. \A b \in BOOLEAN : /\ IF b THEN "poll" \in Points ELSE "drain" \in Points
                          /\ "control" \in Points /\ "events" \in Points /\ "exited" \in Points
  BY DEF Points
<1>4. ASSUME NEW line \in Lines, Emit(line), UNCHANGED wire,
             at' \in Points, pollin' \in BOOLEAN, stopping' \in BOOLEAN, draining' \in BOOLEAN,
             attempts' \in 0 .. MaxAttempts
      PROVE  IInv' /\ QueueStep
  <2>1. /\ RingOK' /\ failed' \in BOOLEAN /\ lines' \in 0 .. MaxLines
        /\ burst' \in Nat /\ overflow' \in BOOLEAN
        /\ Counted'
        /\ Queue!Accept(line) \/ Queue!Close \/ UNCHANGED <<Contents, failed>>
    BY <1>4, EmitAccepts
  <2>2. IInv'
    BY <1>1, <1>4, <2>1 DEF IInv, TypeOK, RingOK
  <2>3. QueueStep
    BY <1>4, <2>1 DEF QueueStep, Queue!Next
  <2> QED BY <2>2, <2>3
<1>5. CASE \E line \in Lines, ok \in BOOLEAN : Boot(line, ok)
  BY <1>1, <1>4, <1>5 DEF Boot, Points
<1>6. CASE \E line \in Lines : HandlerEmits(line)
  BY <1>1, <1>4, <1>6 DEF HandlerEmits, loop
(* The steps that keep the ring.                                              *)
<1>7. ASSUME UNCHANGED <<ring, wire, failed, lines>>,
             at' \in Points, pollin' \in BOOLEAN, stopping' \in BOOLEAN, draining' \in BOOLEAN,
             attempts' \in 0 .. MaxAttempts,
             UNCHANGED history \/ (length = 0 /\ CountAnew)
      PROVE  IInv' /\ QueueStep
  <2>1. QueueStep
    BY <1>7, ContentsKept DEF QueueStep
  <2>2. burst' \in Nat /\ overflow' \in BOOLEAN
    BY <1>1, <1>7 DEF history, CountAnew
  <2>3. Counted'
    <3>1. CASE UNCHANGED history
      BY <1>1, <1>7, <3>1 DEF history, Counted, ring
    <3>2. CASE length = 0 /\ CountAnew
      BY <1>1, <1>7, <3>2 DEF CountAnew, Counted, ring
    <3> QED BY <1>7, <3>1, <3>2
  <2>4. TypeOK'
    BY <1>1, <1>7, <2>2 DEF TypeOK, ring
  <2> QED BY <2>1, <2>3, <2>4 DEF IInv
<1>8. CASE \E ok \in BOOLEAN : Poll(ok)
  BY <1>1, <1>7, <1>8 DEF Poll, Points
<1>9. CASE \E ok \in BOOLEAN : InputEnds(ok)
  BY <1>1, <1>7, <1>9 DEF InputEnds, Points
<1>10. CASE \E term \in BOOLEAN : PassEnds(term)
  BY <1>1, <1>7, <1>10 DEF PassEnds, Points
<1>11. CASE \E ready \in BOOLEAN : DrainWaits(ready)
  BY <1>1, <1>7, <1>11 DEF DrainWaits, loop, Points
<1>12. CASE Control
  BY <1>1, <1>7, <1>12 DEF Control, Points
<1>13. CASE Events
  BY <1>1, <1>7, <1>13 DEF Events, EventReady, loop, Points
<1>14. CASE DrainRound
  BY <1>1, <1>2, <1>7, <1>14 DEF DrainRound, Points
<1>15. CASE WriteBlocks
  BY <1>1, <1>7, <1>15 DEF WriteBlocks, FlushReturns, loop, Points
<1>16. CASE \E n \in 1 .. Cap : Write(n)
  <2> PICK n \in 1 .. Cap : Write(n)
    BY <1>16
  <2>1. /\ RingOK' /\ wire' \in Seq(Byte)
        /\ n \in 1 .. Len(Contents)
        /\ wire' = wire \o SubSeq(Contents, 1, n)
        /\ Contents' = SubSeq(Contents, n + 1, Len(Contents))
    BY <1>1, WriteDelivers
  <2>2. UNCHANGED <<failed, at, loop, lines, history>> /\ length' = length - n
    BY DEF Write
  <2>3. QueueStep
    BY <2>1, <2>2 DEF QueueStep, Queue!Next, Queue!Deliver
  <2>4. Counted'
    BY <1>1, <2>2 DEF Counted, history
  <2>5. TypeOK'
    BY <1>1, <2>1, <2>2 DEF TypeOK, RingOK, loop, history
  <2> QED BY <2>3, <2>4, <2>5 DEF IInv
<1>17. CASE FlushDone
  <2>1. /\ head' = 0 /\ data' = data /\ length = 0 /\ length' = 0
        /\ UNCHANGED <<failed, loop, lines, wire, history>>
        /\ at' \in Points
    BY <1>17 DEF FlushDone, FlushReturns, Points
  <2>2. RingOK'
    BY <1>1, <1>2, <2>1 DEF RingOK, Slots
  <2>3. QueueStep
    BY <1>1, <2>1, <2>2, ContentsEmpty DEF QueueStep
  <2>4. Counted'
    BY <1>1, <2>1 DEF Counted, history
  <2>5. TypeOK'
    BY <1>1, <2>1, <2>2 DEF TypeOK, RingOK, loop, history
  <2> QED BY <2>3, <2>4, <2>5 DEF IInv
<1>18. CASE WriteFails
  <2>1. /\ UNCHANGED <<ring, pollin, draining, attempts, lines, wire, history>>
        /\ at' \in Points /\ failed' \in BOOLEAN /\ stopping' \in BOOLEAN
        /\ (failed' = failed) \/ (failed' = TRUE)
    BY <1>1, <1>18 DEF WriteFails, Points
  <2>2. Contents' = Contents
    BY <2>1, ContentsKept
  <2>3. QueueStep
    BY <2>1, <2>2 DEF QueueStep, Queue!Next, Queue!Close
  <2>4. Counted'
    BY <1>1, <2>1 DEF Counted, history, ring
  <2>5. TypeOK'
    BY <1>1, <2>1 DEF TypeOK, ring, history
  <2> QED BY <2>3, <2>4, <2>5 DEF IInv
<1> QED BY <1>5, <1>6, <1>8, <1>9, <1>10, <1>11, <1>12, <1>13, <1>14, <1>15, <1>16, <1>17, <1>18
        DEF Next, Step

LEMMA InitHolds == Init => IInv
<1> SUFFICES ASSUME Init PROVE IInv
  OBVIOUS
<1>1. TypeOK
  <2>1. data \in [Slots -> Byte] /\ head \in Slots /\ length \in 0 .. Cap
    BY OutputAssumption DEF Init, Slots
  <2>2. attempts \in 0 .. MaxAttempts /\ lines \in 0 .. MaxLines /\ burst \in Nat
    BY OutputAssumption DEF Init
  <2>3. wire \in Seq(Byte) /\ at \in Points
    BY DEF Init, Points
  <2> QED BY <2>1, <2>2, <2>3 DEF Init, TypeOK
<1>2. Counted
  BY DEF Init, Counted
<1> QED BY <1>1, <1>2 DEF IInv

LEMMA StutterKeeps ==
  ASSUME IInv, UNCHANGED vars
  PROVE  IInv' /\ QueueStep
<1>1. UNCHANGED ring
  BY DEF vars, ring
<1>2. QueueStep
  BY <1>1, ContentsKept DEF QueueStep, vars
<1>3. IInv'
  BY DEF IInv, TypeOK, Counted, vars
<1> QED BY <1>2, <1>3

(* The supervisor's state is always one that IInv allows.                     *)
THEOREM Invariance == Spec => []IInv
<1>1. IInv /\ [Next]_vars => IInv'
  BY StepKeeps, StutterKeeps
<1> QED BY InitHolds, <1>1, PTL DEF Spec

(* The fields of the ring and of the loop keep their types: head stays inside *)
(* the array and length never exceeds it.                                     *)
THEOREM TypeCorrect == Spec => []TypeOK
<1>1. IInv => TypeOK
  BY DEF IInv
<1> QED BY Invariance, <1>1, PTL

(* A line that is not too long is refused only on a burst larger than the     *)
(* ring.                                                                      *)
THEOREM RefusalNeedsBurst == Spec => []OverflowNeedsBurst
<1>1. IInv => OverflowNeedsBurst
  BY DEF IInv, Counted, OverflowNeedsBurst
<1> QED BY Invariance, <1>1, PTL

(* The ring of protocol.c is the bounded queue of whole lines.                *)
THEOREM Refinement == Spec => ImplementsQueue
<1>1. Init => Queue!Init
  <2> SUFFICES ASSUME Init PROVE Queue!Init
    OBVIOUS
  <2>1. RingOK
    BY InitHolds DEF IInv, TypeOK, RingOK
  <2>2. Contents = <<>>
    <3>1. Contents \in Seq(Byte) /\ Len(Contents) = 0
      BY <2>1, ContentsAt DEF Init
    <3> HIDE DEF Contents
    <3> QED BY <3>1
  <2> QED BY <2>2 DEF Init, Queue!Init
<1>2. IInv /\ [Next]_vars => [Queue!Next]_(Queue!vars)
  BY StepKeeps, StutterKeeps DEF QueueStep, Queue!vars
<1> QED BY Invariance, <1>1, <1>2, PTL DEF Spec, ImplementsQueue, Queue!Spec
=============================================================================
