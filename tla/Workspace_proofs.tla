-------------------------- MODULE Workspace_proofs --------------------------
(***************************************************************************)
(* That no edit of the workspace is forgotten, and that its saves meet no  *)
(* conflict of their own making, for every plan: any number of versions,   *)
(* clicks, uploads, failing writes and changes by another tab.             *)
(***************************************************************************)
EXTENDS Workspace, TLAPS

Project == [id : Ids, ver : Nat]
Ref == [id : 0 .. MaxProjects, ver : Nat]

(* Whose transactions there are, and where their owners await them.           *)
Asking == {"auto", "boot", "op", "manager"}
OpAsks == {"get", "list", "store", "erase", "opened"}
ManagerAsks == {"get", "put", "erase"}
BootAsking == {"last", "recent", "fallback", "active", "store", "opened"}

(* A transition reads, then leaves the old project, then installs the new.    *)
Early == {"begin", "get", "list"}
Leaving == {"dispose", "disposed", "flush", "drained", "undrained", "store", "erase"}
RunAts == {"pause", "start", "clear"}

Coordinator ==
  [pending : Project \cup {None},
   save    : [snap : Project, expect : Int, fresh : BOOLEAN, owner : Flushers] \cup {NoSave},
   waiters : Seq(Flushers),
   txs     : Seq(Asking)]

Operation ==
  [kind : {"none"} \cup Transitions \cup RuntimeCalls,
   at : {"idle", "opened"} \cup Early \cup Leaving \cup RunAts,
   from : 0 .. MaxProjects, target : Ref, rev : Nat, new : BOOLEAN]

Manager ==
  [kind : {"none"} \cup ManagerCalls, at : {"idle", "flush", "drained"} \cup ManagerAsks,
   target : Ref, rev : Nat]

Boot ==
  [at : {"open", "failed", "done"} \cup BootAsking, target : Ref, dirty : BOOLEAN, last : 0 .. MaxProjects]

Repository == [Ids -> [rev : Nat, ver : Nat]]
Expectations == [Ids -> Int]
Spending == [clicks : Nat, uploads : Nat, failures : Nat, foreign : Nat]

(* What the engine and the reading of files keep.                             *)
AsideOK ==
  /\ plan \in Plans
  /\ running \in BOOLEAN /\ locked \in BOOLEAN /\ leaked \in BOOLEAN
  /\ engine \in {"none", "starting", "running", "pausing", "paused", "failed"}
  /\ importing \in BOOLEAN /\ uploads \in Nat /\ used \in Spending

HistoryOK == touched \subseteq Ids /\ late \subseteq Nat /\ missed \subseteq Nat /\ crossed \in BOOLEAN

TypeOK ==
  /\ AsideOK /\ HistoryOK
  /\ project \in Project /\ dirty \in BOOLEAN /\ replacing \in BOOLEAN
  /\ op \in Operation /\ manager \in Manager /\ boot \in Boot /\ booted \in BOOLEAN
  /\ io \in Coordinator /\ expected \in Expectations /\ db \in Repository
  /\ clock \in Nat /\ made \in 2 .. MaxProjects

-----------------------------------------------------------------------------
(* What is in a queue, how often, and in which order.                         *)
Has(s, x) == \E k \in 1 .. Len(s) : s[k] = x
Once(s, x) == \A k, l \in 1 .. Len(s) : s[k] = x /\ s[l] = x => k = l
Before(s, x, y) == \E k, l \in 1 .. Len(s) : k < l /\ s[k] = x /\ s[l] = y

LEMMA HasAppend ==
  ASSUME NEW S, NEW s \in Seq(S), NEW x \in S, NEW y
  PROVE  Has(Append(s, x), y) <=> (Has(s, y) \/ x = y)
<1>1. Append(s, x) \in Seq(S) /\ Len(Append(s, x)) = Len(s) + 1 /\ Len(s) \in Nat
  OBVIOUS
<1>2. \A k \in 1 .. Len(s) : Append(s, x)[k] = s[k]
  OBVIOUS
<1>3. Append(s, x)[Len(s) + 1] = x
  OBVIOUS
<1> QED
  BY <1>1, <1>2, <1>3 DEF Has

LEMMA OnceAppend ==
  ASSUME NEW S, NEW s \in Seq(S), NEW x \in S, NEW y, Once(s, y), x = y => ~Has(s, y)
  PROVE  Once(Append(s, x), y)
<1>1. Append(s, x) \in Seq(S) /\ Len(Append(s, x)) = Len(s) + 1 /\ Len(s) \in Nat
  OBVIOUS
<1>2. \A k \in 1 .. Len(s) : Append(s, x)[k] = s[k]
  OBVIOUS
<1>3. Append(s, x)[Len(s) + 1] = x
  OBVIOUS
<1> QED
  BY <1>1, <1>2, <1>3 DEF Has, Once

LEMMA BeforeAppend ==
  ASSUME NEW S, NEW s \in Seq(S), NEW x \in S, NEW y, NEW z
  PROVE  /\ Before(s, y, z) => Before(Append(s, x), y, z)
         /\ Has(s, y) => Before(Append(s, x), y, x)
<1>1. Append(s, x) \in Seq(S) /\ Len(Append(s, x)) = Len(s) + 1 /\ Len(s) \in Nat
  OBVIOUS
<1>2. \A k \in 1 .. Len(s) : Append(s, x)[k] = s[k]
  OBVIOUS
<1>3. Append(s, x)[Len(s) + 1] = x
  OBVIOUS
<1> QED
  BY <1>1, <1>2, <1>3 DEF Has, Before

LEMMA TailIs ==
  ASSUME NEW S, NEW s \in Seq(S), s # <<>>
  PROVE  /\ Tail(s) \in Seq(S) /\ Len(Tail(s)) = Len(s) - 1 /\ Len(s) \in Nat \ {0}
         /\ \A k \in 1 .. Len(s) - 1 : Tail(s)[k] = s[k + 1]
         /\ Head(s) = s[1] /\ Head(s) \in S
OBVIOUS

LEMMA HasTail ==
  ASSUME NEW S, NEW s \in Seq(S), s # <<>>, NEW y
  PROVE  /\ Has(Tail(s), y) => Has(s, y)
         /\ Once(s, y) => Once(Tail(s), y)
         /\ Once(s, Head(s)) => ~Has(Tail(s), Head(s))
         /\ Has(s, Head(s))
<1>1. \A k \in 1 .. Len(s) - 1 : k + 1 \in 1 .. Len(s)
  BY TailIs
<1>2. Has(Tail(s), y) => Has(s, y)
  BY <1>1, TailIs DEF Has
<1>3. ASSUME Once(s, y) PROVE Once(Tail(s), y)
  <2> SUFFICES ASSUME NEW k \in 1 .. Len(Tail(s)), NEW l \in 1 .. Len(Tail(s)),
                      Tail(s)[k] = y, Tail(s)[l] = y
               PROVE  k = l
    BY DEF Once
  <2>1. k + 1 \in 1 .. Len(s) /\ l + 1 \in 1 .. Len(s) /\ Tail(s)[k] = s[k + 1] /\ Tail(s)[l] = s[l + 1]
    BY TailIs
  <2>2. s[k + 1] = y /\ s[l + 1] = y => k + 1 = l + 1
    BY <1>3, <2>1 DEF Once
  <2> QED
    BY <2>1, <2>2
<1>4. Once(s, Head(s)) => ~Has(Tail(s), Head(s))
  <2> SUFFICES ASSUME Once(s, Head(s)), NEW k \in 1 .. Len(Tail(s)), Tail(s)[k] = Head(s)
               PROVE  FALSE
    BY DEF Has
  <2>1. k + 1 \in 1 .. Len(s) /\ Tail(s)[k] = s[k + 1] /\ 1 \in 1 .. Len(s) /\ Head(s) = s[1] /\ k + 1 # 1
    BY TailIs
  <2> QED
    BY <2>1 DEF Once
<1>5. Has(s, Head(s))
  BY TailIs DEF Has
<1> QED
  BY <1>2, <1>3, <1>4, <1>5

LEMMA BeforeTail ==
  ASSUME NEW S, NEW s \in Seq(S), s # <<>>, NEW x, NEW y, Before(s, x, y)
  PROVE  /\ Has(s, x) /\ Has(s, y)
         /\ Head(s) # x => Before(Tail(s), x, y)
         /\ Once(s, y) => Head(s) # y
<1>1. PICK k, l \in 1 .. Len(s) : k < l /\ s[k] = x /\ s[l] = y
  BY DEF Before
<1>2. Has(s, x) /\ Has(s, y)
  BY <1>1 DEF Has
<1>3. ASSUME Head(s) # x PROVE Before(Tail(s), x, y)
  <2>1. k # 1 /\ k - 1 \in 1 .. Len(Tail(s)) /\ l - 1 \in 1 .. Len(Tail(s)) /\ k - 1 < l - 1
    BY <1>1, <1>3, TailIs
  <2>2. Tail(s)[k - 1] = s[(k - 1) + 1] /\ Tail(s)[l - 1] = s[(l - 1) + 1]
    BY <2>1, TailIs
  <2>3. (k - 1) + 1 = k /\ (l - 1) + 1 = l
    BY <1>1
  <2> QED
    BY <1>1, <2>1, <2>2, <2>3 DEF Before
<1>4. Once(s, y) => Head(s) # y
  BY <1>1, TailIs DEF Once
<1> QED
  BY <1>2, <1>3, <1>4

-----------------------------------------------------------------------------
(* The coordinator by itself.                                                 *)

(* A transaction of the coordinator is that of its save, every flush of an    *)
(* operation or of the manager waits once, and none waits for nothing.        *)
Sound(i) ==
  /\ \A who \in Asking : Once(i.txs, who)
  /\ Has(i.txs, "auto") => i.save # NoSave
  /\ i.save = NoSave => i.waiters = <<>>
  /\ \A who \in {"op", "manager"} : Once(i.waiters, who) /\ (i.save.owner = who => ~Has(i.waiters, who))

Awaited(i, who) == i.save.owner = who \/ Has(i.waiters, who)

(* The newest snapshot that it has.                                           *)
Covers(i, p) == IF i.pending # None THEN p = i.pending ELSE p = i.save.snap

(* It holds snapshots of the project id only, and expects the revision r.     *)
Own(i, id) == (i.pending = None \/ i.pending.id = id) /\ (i.save = NoSave \/ i.save.snap.id = id)
Expects(i, r) == i.save # NoSave => i.save.expect = r

Unclaimed(i) == i.save # NoSave => i.save.fresh

(* Its snapshots, and that a newer one than a save of p is p again.           *)
Snaps(i) == {i.pending, i.save.snap}
Newest(i, p) == i.save.snap = p => i.pending \in {None, p}

(* The same is asked in i as in j, but for the coordinator's own.             *)
SameAsked(i, j) ==
  /\ \A who \in {"op", "manager", "boot"} : Has(i.txs, who) <=> Has(j.txs, who)
  /\ Before(j.txs, "manager", "op") => Before(i.txs, "manager", "op")

LEMMA NoneIs == None \notin Project /\ NoSave \notin [snap : Project, expect : Int, fresh : BOOLEAN, owner : Flushers]
BY WorkspaceAssumption DEF None, NoSave, Project, Ids, Flushers, Nobody

LEMMA DrainIs ==
  ASSUME NEW i \in Coordinator, NEW p \in Project, NEW owner \in Flushers, NEW e \in [Ids -> Int]
  PROVE  /\ Drain(i, p, owner, e) \in Coordinator
         /\ Drain(i, p, owner, e).pending = None
         /\ Drain(i, p, owner, e).save = [snap |-> p, expect |-> e[p.id], fresh |-> TRUE, owner |-> owner]
         /\ Drain(i, p, owner, e).save # NoSave
         /\ Drain(i, p, owner, e).waiters = i.waiters
         /\ Drain(i, p, owner, e).txs = Append(i.txs, "auto")
<1> DEFINE new == [snap |-> p, expect |-> e[p.id], fresh |-> TRUE, owner |-> owner]
<1>1. e[p.id] \in Int
  BY DEF Project
<1>2. new \in [snap : Project, expect : Int, fresh : BOOLEAN, owner : Flushers]
  BY <1>1
<1>3. new # NoSave
  BY <1>2, NoneIs
<1>4. Append(i.txs, "auto") \in Seq(Asking)
  BY DEF Coordinator, Asking
<1> QED
  BY <1>2, <1>3, <1>4 DEF Drain, Ask, Coordinator

LEMMA FlushIs ==
  ASSUME NEW i \in Coordinator, NEW who \in Flushers, expected \in [Ids -> Int]
  PROVE  /\ Flush(i, who) \in Coordinator
         /\ i.save # NoSave => Flush(i, who) = [i EXCEPT !.waiters = Append(@, who)]
         /\ i.save = NoSave /\ i.pending = None => Flush(i, who) = i
         /\ i.save = NoSave /\ i.pending # None =>
              i.pending \in Project /\ Flush(i, who) = Drain(i, i.pending, who, expected)
<1>1. CASE i.save # NoSave
  BY <1>1, SMTT(60) DEF Flush, Coordinator
<1>2. CASE i.save = NoSave /\ i.pending = None
  BY <1>2 DEF Flush
<1>3. CASE i.save = NoSave /\ i.pending # None
  <2>1. i.pending \in Project
    BY <1>3 DEF Coordinator
  <2> QED
    BY <1>3, <2>1, DrainIs DEF Flush
<1> QED
  BY <1>1, <1>2, <1>3

(* A save that starts.                                                        *)
LEMMA DrainKeeps ==
  ASSUME NEW i \in Coordinator, NEW p \in Project, NEW owner \in Flushers, NEW e \in [Ids -> Int],
         Sound(i), ~Has(i.txs, "auto"), owner \in {"op", "manager"} => ~Has(i.waiters, owner)
  PROVE  LET j == Drain(i, p, owner, e)
         IN  /\ j \in Coordinator /\ Sound(j) /\ SameAsked(j, i)
             /\ \A who \in {"op", "manager"} : Awaited(j, who) => who = owner \/ Awaited(i, who)
             /\ Covers(j, p) /\ Own(j, p.id) /\ Unclaimed(j) /\ Expects(j, e[p.id])
             /\ j.pending = None /\ j.save # NoSave /\ Snaps(j) = {None, p}
<1> DEFINE j == Drain(i, p, owner, e)
<1>1. /\ j \in Coordinator /\ j.pending = None /\ j.waiters = i.waiters
      /\ j.save = [snap |-> p, expect |-> e[p.id], fresh |-> TRUE, owner |-> owner]
      /\ j.save # NoSave /\ j.txs = Append(i.txs, "auto")
  BY DrainIs
<1>2. i.txs \in Seq(Asking) /\ "auto" \in Asking
  BY DEF Coordinator, Asking
<1> HIDE DEF j
<1>3. \A who \in Asking : Once(j.txs, who)
  BY <1>1, <1>2, OnceAppend DEF Sound
<1>4. \A who \in {"op", "manager"} : Once(j.waiters, who) /\ (j.save.owner = who => ~Has(j.waiters, who))
  BY <1>1 DEF Sound
<1>5. Sound(j)
  BY <1>1, <1>3, <1>4 DEF Sound
<1>6. SameAsked(j, i)
  <2>1. \A who \in {"op", "manager", "boot"} : Has(j.txs, who) <=> Has(i.txs, who)
    BY <1>1, <1>2, HasAppend
  <2> QED
    BY <1>1, <1>2, <2>1, BeforeAppend DEF SameAsked
<1>7. \A who \in {"op", "manager"} : Awaited(j, who) => who = owner \/ Awaited(i, who)
  BY <1>1 DEF Awaited
<1> QED
  BY <1>1, <1>5, <1>6, <1>7 DEF Covers, Own, Unclaimed, Expects, Snaps, j

LEMMA FlushKeeps ==
  ASSUME NEW i \in Coordinator, NEW who \in Flushers, expected \in [Ids -> Int],
         Sound(i), who \in {"op", "manager"} => ~Awaited(i, who)
  PROVE  LET j == Flush(i, who)
         IN  /\ j \in Coordinator /\ Sound(j) /\ SameAsked(j, i)
             /\ \A w \in {"op", "manager"} : Awaited(j, w) => w = who \/ Awaited(i, w)
             /\ \A p \in Project : Covers(i, p) => Covers(j, p)
             /\ \A id \in Ids : Own(i, id) => Own(j, id)
             /\ Unclaimed(i) => Unclaimed(j)
             /\ \A id \in Ids : Own(i, id) /\ Expects(i, expected[id]) => Expects(j, expected[id])
             /\ i.pending = None => j.pending = None
             /\ Snaps(j) \subseteq Snaps(i) \cup {None}
             /\ \A p \in Project : Newest(i, p) => Newest(j, p)
             /\ Drained(j) <=> Drained(i)
<1> DEFINE j == Flush(i, who)
<1>1. CASE i.save # NoSave
  <2>1. j = [i EXCEPT !.waiters = Append(@, who)] /\ j \in Coordinator
    BY <1>1, FlushIs
  <2>2. /\ j.save = i.save /\ j.pending = i.pending /\ j.txs = i.txs
        /\ j.waiters = Append(i.waiters, who)
    BY <2>1 DEF Coordinator
  <2>3. i.waiters \in Seq(Flushers)
    BY DEF Coordinator
  <2> HIDE DEF j
  <2>4. \A w \in {"op", "manager"} : Once(j.waiters, w)
    BY <2>2, <2>3, OnceAppend DEF Sound, Awaited
  <2>5. \A w \in {"op", "manager"} : j.save.owner = w => ~Has(j.waiters, w)
    BY <2>2, <2>3, HasAppend DEF Sound, Awaited
  <2>6. \A w \in {"op", "manager"} : Awaited(j, w) => w = who \/ Awaited(i, w)
    BY <2>2, <2>3, HasAppend DEF Awaited
  <2>7. Sound(j)
    BY <1>1, <2>2, <2>4, <2>5 DEF Sound
  <2> QED
    BY <1>1, <2>1, <2>2, <2>6, <2>7
    DEF SameAsked, Covers, Own, Unclaimed, Expects, Drained, Snaps, Newest, j
<1>2. CASE i.save = NoSave /\ i.pending = None
  <2>1. j = i
    BY <1>2, FlushIs
  <2> QED
    BY <1>2, <2>1 DEF SameAsked
<1>3. CASE i.save = NoSave /\ i.pending # None
  <2>1. i.pending \in Project /\ j = Drain(i, i.pending, who, expected)
    BY <1>3, FlushIs
  <2>2. ~Has(i.txs, "auto") /\ ~Has(i.waiters, who)
    <3>1. i.waiters = <<>> /\ Len(<<>>) = 0
      BY <1>3 DEF Sound
    <3> QED
      BY <1>3, <3>1 DEF Sound, Has
  <2>3. /\ j \in Coordinator /\ Sound(j) /\ SameAsked(j, i)
        /\ \A w \in {"op", "manager"} : Awaited(j, w) => w = who \/ Awaited(i, w)
        /\ Covers(j, i.pending) /\ Own(j, i.pending.id) /\ Unclaimed(j)
        /\ Expects(j, expected[i.pending.id])
        /\ j.pending = None /\ j.save # NoSave /\ Snaps(j) = {None, i.pending}
    BY <2>1, <2>2, DrainKeeps
  <2> HIDE DEF j
  <2>4. \A p \in Project : Covers(i, p) => Covers(j, p)
    BY <1>3, <2>3 DEF Covers
  <2>5. \A id \in Ids : Own(i, id) => id = i.pending.id
    BY <1>3 DEF Own
  <2> QED
    BY <1>3, <2>3, <2>4, <2>5 DEF Drained, Snaps, Newest, j
<1> QED
  BY <1>1, <1>2, <1>3

LEMMA ScheduleKeeps ==
  ASSUME NEW i \in Coordinator, NEW p \in Project, expected \in [Ids -> Int], Sound(i)
  PROVE  LET j == Schedule(i, p)
         IN  /\ j \in Coordinator /\ Sound(j) /\ SameAsked(j, i)
             /\ \A w \in {"op", "manager"} : Awaited(j, w) => Awaited(i, w)
             /\ Covers(j, p)
             /\ Own(i, p.id) => Own(j, p.id)
             /\ Unclaimed(i) => Unclaimed(j)
             /\ Own(i, p.id) /\ Expects(i, expected[p.id]) => Expects(j, expected[p.id])
             /\ Snaps(j) \subseteq Snaps(i) \cup {None, p} /\ Newest(j, p)
             /\ ~Drained(j)
<1> DEFINE k == [i EXCEPT !.pending = p]
           j == Flush(k, "auto")
<1>1. /\ k \in Coordinator /\ k.pending = p /\ k.save = i.save /\ k.waiters = i.waiters /\ k.txs = i.txs
  BY DEF Coordinator
<1>2. Schedule(i, p) = j /\ "auto" \in Flushers /\ "auto" \notin {"op", "manager"} /\ p.id \in Ids /\ p # None
  BY NoneIs DEF Schedule, Flushers, Project
<1> HIDE DEF k
<1>3. Sound(k) /\ SameAsked(k, i) /\ Covers(k, p) /\ (Unclaimed(i) => Unclaimed(k)) /\ ~Drained(k)
  BY <1>1, <1>2 DEF Sound, SameAsked, Covers, Unclaimed, Drained
<1>7. Newest(k, p) /\ Snaps(k) \subseteq Snaps(i) \cup {p}
  BY <1>1 DEF Newest, Snaps
<1>4. /\ Own(i, p.id) => Own(k, p.id)
      /\ Expects(i, expected[p.id]) => Expects(k, expected[p.id])
      /\ \A w \in {"op", "manager"} : Awaited(k, w) => Awaited(i, w)
  BY <1>1 DEF Own, Expects, Awaited
<1>5. /\ j \in Coordinator /\ Sound(j) /\ SameAsked(j, k)
      /\ \A w \in {"op", "manager"} : Awaited(j, w) => w = "auto" \/ Awaited(k, w)
      /\ Covers(k, p) => Covers(j, p)
      /\ Own(k, p.id) => Own(j, p.id)
      /\ Unclaimed(k) => Unclaimed(j)
      /\ Own(k, p.id) /\ Expects(k, expected[p.id]) => Expects(j, expected[p.id])
      /\ Snaps(j) \subseteq Snaps(k) \cup {None} /\ (Newest(k, p) => Newest(j, p))
      /\ Drained(j) <=> Drained(k)
  BY <1>1, <1>2, <1>3, FlushKeeps
<1> HIDE DEF j
<1>6. SameAsked(j, i)
  BY <1>3, <1>5 DEF SameAsked
<1> QED
  BY <1>2, <1>3, <1>4, <1>5, <1>6, <1>7

LEMMA AskKeeps ==
  ASSUME NEW i \in Coordinator, Sound(i), NEW who \in {"op", "manager", "boot"}, ~Has(i.txs, who)
  PROVE  LET j == Ask(i, who)
         IN  /\ j \in Coordinator /\ Sound(j)
             /\ j.pending = i.pending /\ j.save = i.save /\ j.waiters = i.waiters
             /\ \A w \in Asking : Has(j.txs, w) <=> (w = who \/ Has(i.txs, w))
             /\ Before(i.txs, "manager", "op") => Before(j.txs, "manager", "op")
             /\ who = "op" /\ Has(i.txs, "manager") => Before(j.txs, "manager", "op")
<1> DEFINE j == Ask(i, who)
<1>1. i.txs \in Seq(Asking) /\ who \in Asking /\ who # "auto"
  BY DEF Coordinator, Asking
<1>2. /\ j \in Coordinator /\ j.txs = Append(i.txs, who)
      /\ j.pending = i.pending /\ j.save = i.save /\ j.waiters = i.waiters
  <2>1. Append(i.txs, who) \in Seq(Asking)
    BY <1>1
  <2> QED
    BY <2>1 DEF Ask, Coordinator
<1> HIDE DEF j
<1>3. \A w \in Asking : Has(j.txs, w) <=> (w = who \/ Has(i.txs, w))
  BY <1>1, <1>2, HasAppend
<1>4. \A w \in Asking : Once(j.txs, w)
  BY <1>1, <1>2, OnceAppend DEF Sound
<1>5. /\ Before(i.txs, "manager", "op") => Before(j.txs, "manager", "op")
      /\ who = "op" /\ Has(i.txs, "manager") => Before(j.txs, "manager", "op")
  BY <1>1, <1>2, BeforeAppend
<1>6. Sound(j)
  BY <1>1, <1>2, <1>3, <1>4 DEF Sound, Asking
<1> QED
  BY <1>2, <1>3, <1>5, <1>6 DEF j

LEMMA DoneKeeps ==
  ASSUME NEW i \in Coordinator, Sound(i), i.txs # <<>>
  PROVE  LET j == Done(i)
         IN  /\ j \in Coordinator /\ Sound(j)
             /\ j.pending = i.pending /\ j.save = i.save /\ j.waiters = i.waiters
             /\ \A w \in Asking : Has(j.txs, w) => Has(i.txs, w)
             /\ \A w \in Asking : Has(i.txs, w) /\ w # Head(i.txs) => Has(j.txs, w)
             /\ ~Has(j.txs, Head(i.txs)) /\ Has(i.txs, Head(i.txs)) /\ Head(i.txs) \in Asking
             /\ Before(i.txs, "manager", "op") =>
                  Head(i.txs) # "op" /\ (Head(i.txs) # "manager" => Before(j.txs, "manager", "op"))
<1> DEFINE j == Done(i)
<1>1. i.txs \in Seq(Asking)
  BY DEF Coordinator
<1>2. /\ j \in Coordinator /\ j.txs = Tail(i.txs) /\ Head(i.txs) \in Asking
      /\ j.pending = i.pending /\ j.save = i.save /\ j.waiters = i.waiters
  BY <1>1, TailIs DEF Done, Coordinator
<1> HIDE DEF j
<1>3. \A w \in Asking : /\ Has(j.txs, w) => Has(i.txs, w)
                        /\ Once(i.txs, w) => Once(j.txs, w)
  BY <1>1, <1>2, HasTail
<1>4. ~Has(j.txs, Head(i.txs)) /\ Has(i.txs, Head(i.txs))
  BY <1>1, <1>2, HasTail DEF Sound
<1>5. Before(i.txs, "manager", "op") =>
        Head(i.txs) # "op" /\ (Head(i.txs) # "manager" => Before(j.txs, "manager", "op"))
  BY <1>1, <1>2, BeforeTail DEF Sound, Asking
<1>6. Sound(j)
  BY <1>2, <1>3 DEF Sound, Asking
<1>7. \A w \in Asking : Has(i.txs, w) /\ w # Head(i.txs) => Has(j.txs, w)
  <2> SUFFICES ASSUME NEW w \in Asking, w # Head(i.txs), NEW k \in 1 .. Len(i.txs), i.txs[k] = w
               PROVE  Has(j.txs, w)
    BY DEF Has
  <2>1. k # 1 /\ k - 1 \in 1 .. Len(Tail(i.txs)) /\ (k - 1) + 1 = k
    BY <1>1, TailIs
  <2>2. Tail(i.txs)[k - 1] = i.txs[(k - 1) + 1]
    BY <1>1, <2>1, TailIs
  <2> QED
    BY <1>2, <2>1, <2>2 DEF Has
<1> QED
  BY <1>2, <1>3, <1>4, <1>5, <1>6, <1>7 DEF j

(* setExpectedRevision                                                        *)
LEMMA ExpectKeeps ==
  ASSUME NEW i \in Coordinator, Sound(i), NEW p \in Project, NEW r, Expect(i, p, r)
  PROVE  /\ io' \in Coordinator /\ Sound(io')
         /\ io'.pending = i.pending /\ io'.waiters = i.waiters /\ io'.txs = i.txs
         /\ io'.save.snap = i.save.snap /\ io'.save.owner = i.save.owner
         /\ Drained(i) => io' = i /\ Drained(io')
         /\ expected' = [expected EXCEPT ![p.id] = r]
<1>1. CASE i.save.snap.id = p.id
  <2>1. i.save # NoSave
    BY <1>1 DEF NoSave, None, Project, Ids
  <2>2. i.save \in [snap : Project, expect : Int, fresh : BOOLEAN, owner : Flushers]
    BY <2>1 DEF Coordinator
  <2>3. io' = [i EXCEPT !.save.fresh = FALSE]
    BY <1>1 DEF Expect
  <2>4. /\ io'.save = [i.save EXCEPT !.fresh = FALSE] /\ io' \in Coordinator
        /\ io'.pending = i.pending /\ io'.waiters = i.waiters /\ io'.txs = i.txs
    BY <2>2, <2>3 DEF Coordinator
  <2>5. /\ io'.save \in [snap : Project, expect : Int, fresh : BOOLEAN, owner : Flushers]
        /\ io'.save.snap = i.save.snap /\ io'.save.owner = i.save.owner
    BY <2>2, <2>4
  <2>6. io'.save # NoSave
    BY <2>5, NoneIs
  <2> QED
    BY <2>1, <2>4, <2>5, <2>6 DEF Sound, Drained, Expect
<1>2. CASE i.save.snap.id # p.id
  BY <1>2 DEF Expect
<1> QED
  BY <1>1, <1>2

-----------------------------------------------------------------------------
(* The invariant.                                                             *)
Moves == op.kind \in Transitions

(* A transaction and a flush have an owner who awaits them.                   *)
QueueOK ==
  /\ Sound(io)
  /\ Has(io.txs, "op") => op.at \in OpAsks
  /\ Has(io.txs, "manager") <=> manager.at \in ManagerAsks
  /\ Has(io.txs, "boot") => boot.at \in BootAsking
  /\ Awaited(io, "op") => op.at = "flush"
  /\ Awaited(io, "manager") => manager.at = "flush"

(* Who can be where, and beside whom.                                         *)
StageOK ==
  /\ op.at = "idle" <=> op.kind = "none"
  /\ op.at \in RunAts <=> op.kind = "run"
  /\ op.kind = "reset" => op.at \in {"dispose", "disposed"}
  /\ manager.kind = "rename" <=> manager.at \in {"flush", "drained"}
  /\ manager.kind = "none" <=> manager.at = "idle"
  /\ booted <=> boot.at = "done"
  /\ ~booted => ~Moves /\ manager.kind = "none" /\ ~replacing /\ Drained(io) /\ ~crossed
  /\ Moves /\ manager.kind # "none" => op.kind = "import"
  /\ op.at = "drained" => io.pending = None
  /\ Moves => op.target \in Project
  /\ op.kind = "import" => op.from \in Ids
  /\ op.at = "store" => op.new
  /\ manager.at \in ManagerAsks => manager.target.id \in Ids
  /\ manager.at = "put" => manager.rev > 0
  /\ \A i \in Ids : db[i].rev = 0 => db[i].ver = 0

(* Every version has been given.                                              *)
VersionOK ==
  /\ project.ver <= clock /\ op.target.ver <= clock /\ boot.target.ver <= clock
  /\ manager.target.ver <= clock
  /\ \A p \in Snaps(io) : p.ver <= clock
  /\ \A i \in Ids : db[i].ver <= clock

(* An unsaved edit is the coordinator's newest snapshot, unless autosave has  *)
(* been suppressed since it was made.                                         *)
Cover ==
  booted /\ dirty
    /\ (project.ver \notin late
         \/ (project.ver \notin missed /\ (~replacing \/ manager.kind = "rename")))
  => Covers(io, project)

(* The demo is not stored while the start-up effect looks for a project; what *)
(* the effect has seen then is what is open, or that was edited.              *)
BootOK ==
  /\ boot.at \in {"open", "last", "recent", "fallback"} => db[project.id].rev = 0
  /\ boot.at \in {"active", "store", "opened"} =>
       /\ boot.target.id = project.id
       /\ ~dirty => boot.target = project /\ ~boot.dirty
       /\ ~dirty /\ project.id \notin touched /\ db[project.id].rev > 0
            => db[project.id].ver = project.ver

(* A transition's new project is absent until it is stored, and a stored one  *)
(* is as it was read, but for another tab.                                    *)
OpOK ==
  Moves =>
    /\ op.from <= made
    /\ op.at = "list" => op.kind # "open"
    /\ op.at \in Early =>
         /\ ~op.new
         /\ op.kind = "open" => op.from # project.id
         /\ op.kind = "delete" /\ op.at # "list" => op.from # project.id
         /\ op.kind # "open" => op.target.id = made /\ project.id # made /\ db[made].rev = 0
    /\ op.at \in Leaving =>
         /\ op.target.id <= made
         /\ op.kind \in {"open", "delete"} => op.target.id # project.id
         /\ op.new /\ op.at # "erase" =>
              /\ op.rev = 1
              /\ op.target.id \notin touched \cup {project.id} => db[op.target.id].rev = 0
         /\ ~op.new \/ op.at = "erase" =>
              /\ op.kind \in {"open", "delete"}
              /\ op.target.id \notin touched =>
                   db[op.target.id].rev = op.rev /\ db[op.target.id].ver = op.target.ver

(* The project manager is never at the open project, except by another tab.   *)
ManagerOK ==
  /\ manager.at \in {"get", "erase"} =>
       /\ manager.target.id # project.id
       /\ Moves => op.at = "get" /\ Before(io.txs, "manager", "op")
  /\ manager.at = "put" /\ manager.target.id \notin touched =>
       manager.target.id # project.id /\ db[manager.target.id].rev = manager.rev

OwnOK ==
  /\ Own(io, project.id) /\ project.id <= made
  /\ \A i \in Ids : i > made => db[i].rev = 0

Known == booted \/ boot.at = "opened"

RevisionOK ==
  /\ Known /\ project.id \notin touched => expected[project.id] = db[project.id].rev
  /\ Unclaimed(io)
  /\ project.id \notin touched => Expects(io, db[project.id].rev)

Clean ==
  /\ Newest(io, project)
  /\ ~dirty => Snaps(io) \subseteq {None, project}
  /\ Known /\ ~dirty /\ project.id \notin touched => db[project.id].ver = project.ver

(* What is left behind has been saved.                                        *)
Left ==
  Moves /\ op.at \in {"drained", "store", "erase"} /\ project.id \notin touched
    /\ used.failures = 0 /\ project.ver \notin late => ~dirty

Orderly == OpOK /\ ManagerOK /\ OwnOK /\ RevisionOK /\ Clean /\ Left

IInv ==
  TypeOK /\ QueueOK /\ StageOK /\ VersionOK /\ Cover /\ BootOK /\ (~crossed => Orderly)

LEMMA InitHolds == Init => IInv
<1> SUFFICES ASSUME Init PROVE IInv
  OBVIOUS
<1>1. MaxProjects \in Nat /\ MaxProjects >= 2
  BY WorkspaceAssumption
<1>2. io = [pending |-> None, save |-> NoSave, waiters |-> <<>>, txs |-> <<>>]
  BY DEF Init
<1>3. io \in Coordinator /\ io.pending = None /\ io.save = NoSave /\ io.waiters = <<>> /\ io.txs = <<>>
  BY <1>2 DEF Coordinator
<1>4. db \in [Ids -> [rev : Nat, ver : Nat]] /\ (\A i \in Ids : db[i].ver <= 2 /\ (db[i].rev = 0 => db[i].ver = 0))
      /\ \A i \in Ids : i > 2 => db[i].rev = 0
  <2>1. PICK kept \in {{}, {2}} :
          db = [i \in Ids |-> IF i \in kept THEN [rev |-> 1, ver |-> i] ELSE [rev |-> 0, ver |-> 0]]
    BY DEF Init
  <2> QED
    BY <1>1, <2>1 DEF Ids
<1>5. TypeOK
  <2>1. project \in Project /\ None \in Ref
    BY <1>1 DEF Init, Project, Ref, Ids, New, None
  <2>2. boot \in Boot
    <3>1. boot \in [at : {"open"}, target : {None}, dirty : {FALSE}, last : {0, 2}]
      BY DEF Init
    <3>2. {0, 2} \subseteq 0 .. MaxProjects
      BY <1>1
    <3> QED
      BY <2>1, <3>1, <3>2 DEF Boot
  <2>3. op \in Operation /\ manager \in Manager
    BY <1>1, <2>1 DEF Init, NoOp, Idle, Operation, Manager
  <2>4. expected \in Expectations /\ made \in 2 .. MaxProjects /\ clock \in Nat
    BY <1>1 DEF Init, LastWriterWins, Expectations
  <2>5. AsideOK /\ HistoryOK
    BY DEF Init, AsideOK, HistoryOK, Spending
  <2> QED
    BY <1>3, <1>4, <2>1, <2>2, <2>3, <2>4, <2>5 DEF Init, TypeOK, Repository
<1>6. \A x : ~Has(io.txs, x) /\ ~Has(io.waiters, x) /\ Once(io.txs, x) /\ Once(io.waiters, x)
  BY <1>3 DEF Has, Once
<1>7. QueueOK
  BY <1>3, <1>6 DEF QueueOK, Sound, Awaited, Init, Idle, ManagerAsks, NoSave, Nobody
<1>8. StageOK
  BY <1>3, <1>4
  DEF Init, StageOK, Moves, Drained, NoOp, Idle, Transitions, RunAts, ManagerAsks
<1>9. VersionOK
  BY <1>3, <1>4 DEF Init, VersionOK, New, NoOp, Idle, None, Snaps, NoSave
<1>10. Cover /\ BootOK
  <2>1. PICK kept \in {{}, {2}} :
          db = [i \in Ids |-> IF i \in kept THEN [rev |-> 1, ver |-> i] ELSE [rev |-> 0, ver |-> 0]]
    BY DEF Init
  <2>2. project.id = 1 /\ 1 \in Ids /\ 1 \notin kept
    BY <1>1, <2>1 DEF Init, New, Ids
  <2> QED
    BY <2>1, <2>2 DEF Init, Cover, BootOK
<1>11. OpOK /\ Left /\ ManagerOK
  BY DEF Init, OpOK, ManagerOK, Left, Moves, NoOp, Idle, Transitions
<1>12. OwnOK /\ RevisionOK
  BY <1>1, <1>3, <1>4 DEF Init, OwnOK, RevisionOK, Own, Unclaimed, Expects, Known, New
<1>13. Clean
  BY <1>3 DEF Init, Clean, Newest, Snaps, Known, NoSave
<1> QED
  BY <1>5, <1>7, <1>8, <1>9, <1>10, <1>11, <1>12, <1>13 DEF IInv, Orderly

(* An operation that is none, or one of the runtime.                          *)
RuntimeOp(o) ==
  /\ o \in Operation /\ o.kind \notin Transitions /\ o.target = None
  /\ o.at = "idle" <=> o.kind = "none"
  /\ o.at \in RunAts <=> o.kind = "run"
  /\ o.kind = "reset" => o.at \in {"dispose", "disposed"}
  /\ o.at \in {"idle", "dispose", "disposed"} \cup RunAts

LEMMA RuntimeOps ==
  /\ RuntimeOp(NoOp) /\ NoOp.kind = "none"
  /\ \A at \in RunAts : RuntimeOp([NoOp EXCEPT !.kind = "run", !.at = at])
  /\ \A at \in {"dispose", "disposed"} : RuntimeOp([NoOp EXCEPT !.kind = "reset", !.at = at])
<1>1. None \in Ref /\ 0 \in 0 .. MaxProjects
  BY WorkspaceAssumption DEF None, Ref
<1> QED
  BY <1>1 DEF NoOp, Leaving, Operation, RuntimeOp, RunAts, Transitions, RuntimeCalls

(* Nothing that the invariant is about changes but an operation that is not a *)
(* transition.                                                                *)
LEMMA Elsewhere ==
  ASSUME IInv, AsideOK',
         UNCHANGED <<project, dirty, replacing, manager, boot, booted, io, expected, db, clock, made>>,
         UNCHANGED history,
         used'.failures = 0 => used.failures = 0,
         op' = op \/ (~Moves /\ RuntimeOp(op'))
  PROVE  IInv'
<1>0. /\ TypeOK /\ QueueOK /\ StageOK /\ VersionOK /\ Cover /\ BootOK
      /\ (~crossed => Orderly)
  BY DEF IInv
<1>1. project' = project /\ dirty' = dirty /\ replacing' = replacing /\ manager' = manager
      /\ boot' = boot /\ booted' = booted /\ io' = io /\ expected' = expected /\ db' = db
      /\ clock' = clock /\ made' = made /\ touched' = touched /\ late' = late /\ missed' = missed
      /\ crossed' = crossed
  BY DEF history
<1>2. ~Moves => ~Has(io.txs, "op") /\ ~Awaited(io, "op")
  BY <1>0 DEF QueueOK, StageOK, Moves, OpAsks, RunAts, TypeOK, Operation, RuntimeCalls
<1>3. QueueOK'
  BY <1>0, <1>1, <1>2 DEF QueueOK
<1>4. StageOK'
  BY <1>0, <1>1 DEF StageOK, Moves, RuntimeOp, Transitions, RunAts
<1>5. VersionOK'
  BY <1>0, <1>1 DEF VersionOK, None, TypeOK, RuntimeOp
<1>6. Cover' /\ BootOK'
  BY <1>0, <1>1 DEF Cover, BootOK
<1>7. ASSUME ~crossed' PROVE Orderly'
  <2>1. Orderly
    BY <1>0, <1>1, <1>7
  <2>2. OpOK'
    BY <2>1, <1>1 DEF Orderly, OpOK, Moves, RuntimeOp
  <2>3. ManagerOK'
    BY <2>1, <1>1 DEF Orderly, ManagerOK, Moves, RuntimeOp
  <2>4. OwnOK' /\ RevisionOK' /\ Clean'
    BY <2>1, <1>1 DEF Orderly, OwnOK, RevisionOK, Clean, Known
  <2>5. Left'
    BY <2>1, <1>1 DEF Orderly, Left, Moves, RuntimeOp
  <2> QED
    BY <2>2, <2>3, <2>4, <2>5 DEF Orderly
<1>8. TypeOK'
  BY <1>0, <1>1 DEF TypeOK, HistoryOK, RuntimeOp
<1> QED
  BY <1>3, <1>4, <1>5, <1>6, <1>7, <1>8 DEF IInv

LEMMA SpendKeeps ==
  ASSUME TypeOK, NEW what \in {"clicks", "uploads", "failures", "foreign"}, Spend(what)
  PROVE  /\ used' \in Spending
         /\ used'.failures = 0 => used.failures = 0
         /\ what = "failures" => used'.failures # 0
<1>1. used \in [clicks : Nat, uploads : Nat, failures : Nat, foreign : Nat]
  BY DEF TypeOK, AsideOK, Spending
<1>2. CASE what = "clicks"
  BY <1>1, <1>2 DEF Spend, Spending
<1>3. CASE what = "uploads"
  BY <1>1, <1>3 DEF Spend, Spending
<1>4. CASE what = "failures"
  BY <1>1, <1>4 DEF Spend, Spending
<1>5. CASE what = "foreign"
  BY <1>1, <1>5 DEF Spend, Spending
<1> QED
  BY <1>2, <1>3, <1>4, <1>5

LEMMA UnlockedSteps ==
  ASSUME IInv, Upload \/ Import \/ ImportRejected \/ EngineFails
  PROVE  IInv'
<1>0. TypeOK /\ AsideOK
  BY DEF IInv, TypeOK
<1>1. CASE Upload
  <2>1. used' \in Spending /\ (used'.failures = 0 => used.failures = 0)
    BY <1>0, <1>1, SpendKeeps DEF Upload
  <2>2. AsideOK'
    BY <1>0, <1>1, <2>1 DEF Upload, AsideOK, native
  <2> QED
    BY <1>1, <2>1, <2>2, Elsewhere DEF Upload, ui
<1>2. CASE Import
  <2>1. AsideOK'
    BY <1>0, <1>2 DEF Import, AsideOK, native
  <2> QED
    BY <1>2, <2>1, Elsewhere DEF Import, ui
<1>3. CASE ImportRejected
  <2>1. AsideOK'
    BY <1>0, <1>3 DEF ImportRejected, AsideOK, native
  <2> QED
    BY <1>3, <2>1, Elsewhere DEF ImportRejected, ui
<1>4. CASE EngineFails
  <2>1. AsideOK'
    BY <1>0, <1>4 DEF EngineFails, AsideOK
  <2> QED
    BY <1>4, <2>1, Elsewhere DEF EngineFails, ui
<1> QED
  BY <1>1, <1>2, <1>3, <1>4

(* run() and resetRuntime() take the lock and no part in a replacement.       *)
LEMMA RunSteps ==
  ASSUME IInv, Pause \/ Run \/ RunSettles \/ Reset \/ ResetSettles
  PROVE  IInv'
<1>0. TypeOK /\ StageOK /\ AsideOK
  BY DEF IInv, TypeOK
<1>1. Free => ~Moves
  BY DEF Free, Busy, Moves, Transitions
<1>2. CASE Pause
  <2>1. op' = op \/ RuntimeOp(op')
    BY <1>2, RuntimeOps DEF Pause, Holds, RunAts
  <2>2. AsideOK'
    BY <1>0, <1>2 DEF Pause, AsideOK
  <2> QED
    BY <1>1, <1>2, <2>1, <2>2, Elsewhere DEF Pause, ui
<1>3. CASE Run
  <2>1. RuntimeOp(op') /\ engine' \in {"none", "starting"}
    BY <1>3, RuntimeOps DEF Run, Holds, RunAts
  <2>2. AsideOK'
    BY <1>0, <1>3, <2>1 DEF Run, AsideOK
  <2> QED
    BY <1>1, <1>3, <2>1, <2>2, Elsewhere DEF Run, ui
<1>4. CASE RunSettles
  <2>1. RuntimeOp(op') /\ ~Moves
    BY <1>4, RuntimeOps DEF RunSettles, Holds, RunAts, Moves, Transitions
  <2>2. AsideOK'
    BY <1>0, <1>4 DEF RunSettles, AsideOK
  <2> QED
    BY <1>4, <2>1, <2>2, Elsewhere DEF RunSettles, ui
<1>5. CASE Reset
  <2>1. op' = [NoOp EXCEPT !.kind = "reset", !.at = "dispose"]
          \/ op' = [NoOp EXCEPT !.kind = "reset", !.at = "disposed"]
    BY <1>5 DEF Reset, DisposeThen
  <2>2. RuntimeOp(op')
    BY <2>1, RuntimeOps
  <2>3. AsideOK'
    BY <1>0, <1>5 DEF Reset, DisposeThen, AsideOK
  <2> QED
    BY <1>1, <1>5, <2>2, <2>3, Elsewhere DEF Reset, DisposeThen, ui
<1>6. CASE ResetSettles
  <2>1. RuntimeOp(op') /\ ~Moves
    BY <1>6, RuntimeOps DEF ResetSettles, Moves, Transitions
  <2>2. AsideOK'
    BY <1>0, <1>6 DEF ResetSettles, AsideOK
  <2> QED
    BY <1>6, <2>1, <2>2, Elsewhere DEF ResetSettles, ui
<1> QED
  BY <1>2, <1>3, <1>4, <1>5, <1>6

LEMMA Parts ==
  ASSUME IInv
  PROVE  /\ TypeOK /\ QueueOK /\ StageOK /\ VersionOK /\ Cover /\ BootOK
         /\ AsideOK /\ HistoryOK
         /\ ~crossed => OpOK /\ ManagerOK /\ OwnOK /\ RevisionOK /\ Clean /\ Left
         /\ project \in Project /\ project.id \in Ids /\ project # None
         /\ io \in Coordinator /\ Sound(io) /\ expected \in [Ids -> Int]
         /\ ~booted => Drained(io) /\ ~crossed /\ ~Moves /\ ~replacing
         /\ Free => ~Moves /\ op.at = "idle" /\ manager.at = "idle" /\ manager.kind = "none"
BY NoneIs
DEF IInv, Orderly, TypeOK, QueueOK, StageOK, Project, Expectations, Free, Busy, Moves, Transitions

(* A change of the open project.                                              *)
LEMMA ChangeSteps ==
  ASSUME IInv, Edit \/ Uploaded \/ ModeChanged
  PROVE  IInv'
<1>0. /\ TypeOK /\ QueueOK /\ StageOK /\ VersionOK /\ Cover /\ BootOK
      /\ AsideOK /\ HistoryOK
      /\ ~crossed => OpOK /\ ManagerOK /\ OwnOK /\ RevisionOK /\ Clean /\ Left
      /\ project \in Project /\ project.id \in Ids
      /\ io \in Coordinator /\ Sound(io) /\ expected \in [Ids -> Int]
      /\ ~booted => Drained(io) /\ ~crossed /\ ~Moves /\ ~replacing
  BY Parts
<1>1. /\ UNCHANGED <<plan, replacing, manager, importing, boot, booted, expected, db, made, used>>
      /\ uploads' \in Nat /\ Changed(io) /\ op.at # "drained"
      /\ op' = op \/ (~Moves /\ RuntimeOp(op'))
  <2>1. CASE Edit
    BY <1>0, <2>1 DEF Edit, Free, Quiet, AsideOK
  <2>2. CASE Uploaded
    BY <1>0, <2>2 DEF Uploaded, Quiet, AsideOK
  <2>3. CASE ModeChanged
    <3>1. ~Moves /\ RuntimeOp(op') /\ op.at # "drained"
      BY <1>0, <2>3, RuntimeOps DEF ModeChanged, StageOK, Moves, Transitions
    <3> QED
      BY <1>0, <2>3, <3>1 DEF ModeChanged, AsideOK
  <2> QED
    BY <2>1, <2>2, <2>3
<1>21. AsideOK'
  BY <1>0, <1>1 DEF Edit, Uploaded, ModeChanged, AsideOK, native
<1>22. op' \in Operation /\ op'.target.ver <= clock
  BY <1>0, <1>1 DEF TypeOK, VersionOK, RuntimeOp, None
<1>23. ~Moves => ~Has(io.txs, "op") /\ ~Awaited(io, "op")
  BY <1>0 DEF QueueOK, StageOK, Moves, OpAsks, RunAts, TypeOK, Operation, RuntimeCalls
<1>24. RuntimeOp(op') => ~Moves'
  BY DEF RuntimeOp, Moves
<1> DEFINE p == New(project.id, clock + 1)
<1>2. /\ p \in Project /\ p.id = project.id /\ p.ver = clock + 1 /\ clock' = clock + 1 /\ clock \in Nat
      /\ project' = p /\ dirty' = TRUE /\ touched' = touched /\ crossed' = crossed
      /\ io' = IF Saves THEN Schedule(io, p) ELSE io
      /\ late' = IF booted /\ (~Saves \/ Moves) THEN late \cup {p.ver} ELSE late
      /\ missed' = IF booted /\ ~Saves /\ manager.kind = "rename" THEN missed \cup {p.ver} ELSE missed
  BY <1>0, <1>1 DEF Changed, New, Project, TypeOK, Moves
<1> HIDE DEF p
<1>3. /\ io' \in Coordinator /\ Sound(io') /\ SameAsked(io', io)
      /\ \A w \in {"op", "manager"} : Awaited(io', w) => Awaited(io, w)
      /\ Snaps(io') \subseteq Snaps(io) \cup {None, p}
      /\ Saves => Covers(io', p)
      /\ ~booted => io' = io
  <2>1. CASE Saves
    BY <1>0, <1>2, <2>1, ScheduleKeeps DEF Saves
  <2>2. CASE ~Saves
    BY <1>0, <1>2, <2>2 DEF SameAsked
  <2> QED
    BY <2>1, <2>2
<1>4. TypeOK'
  BY <1>0, <1>1, <1>2, <1>3, <1>21, <1>22 DEF TypeOK, HistoryOK
<1>5. QueueOK'
  <2>1. CASE op' = op
    BY <1>0, <1>1, <1>3, <2>1 DEF QueueOK, SameAsked
  <2>2. CASE ~Moves /\ RuntimeOp(op')
    <3>1. ~Has(io'.txs, "op") /\ ~Awaited(io', "op")
      BY <1>3, <1>23, <2>2 DEF SameAsked
    <3> QED
      BY <1>0, <1>1, <1>3, <3>1 DEF QueueOK, SameAsked
  <2> QED
    BY <1>1, <2>1, <2>2
<1>6. StageOK'
  BY <1>0, <1>1, <1>2, <1>3 DEF StageOK, Moves, RuntimeOp, Transitions, RunAts
<1>7. VersionOK'
  <2>1. \A q \in Snaps(io') : q.ver <= clock + 1
    <3> TAKE q \in Snaps(io')
    <3>1. CASE q = p
      BY <1>2, <3>1
    <3>2. CASE q = None
      BY <1>2, <3>2 DEF None
    <3>3. CASE q \in Snaps(io)
      <4>1. q \in Project \cup {None}
        BY <1>0, <3>3 DEF Snaps, Coordinator, NoSave
      <4> QED
        BY <1>0, <1>2, <3>3, <4>1 DEF VersionOK, Project, None
    <3> QED
      BY <1>3, <3>1, <3>2, <3>3
  <2>2. op.target.ver \in Int /\ boot.target.ver \in Int /\ manager.target.ver \in Int
        /\ \A i \in Ids : db[i].ver \in Int
    BY <1>0 DEF TypeOK, Operation, Boot, Manager, Ref, Repository
  <2> QED
    <3>1. op'.target.ver \in Int
      BY <1>22 DEF Operation, Ref
    <3> QED
      BY <1>0, <1>1, <1>2, <1>22, <2>1, <2>2, <3>1 DEF VersionOK
<1>8. Cover'
  BY <1>0, <1>1, <1>2, <1>3 DEF Cover, Saves
<1>9. BootOK'
  BY <1>0, <1>1, <1>2 DEF BootOK
<1>10. ASSUME ~crossed' PROVE Orderly'
  <2>0. OpOK /\ ManagerOK /\ OwnOK /\ RevisionOK /\ Clean /\ Left
    BY <1>0, <1>2, <1>10
  <2>1. OpOK'
    <3>1. CASE op' = op
      BY <2>0, <1>1, <1>2, <3>1 DEF OpOK, Moves
    <3>2. CASE RuntimeOp(op')
      BY <1>24, <3>2 DEF OpOK
    <3> QED
      BY <1>1, <3>1, <3>2
  <2>2. ManagerOK'
    <3>1. CASE op' = op
      BY <2>0, <1>1, <1>2, <1>3, <3>1 DEF ManagerOK, Moves, SameAsked
    <3>2. CASE RuntimeOp(op')
      BY <2>0, <1>1, <1>2, <1>24, <3>2 DEF ManagerOK
    <3> QED
      BY <1>1, <3>1, <3>2
  <2>3. OwnOK'
    <3>1. CASE Saves
      BY <1>0, <1>1, <1>2, <2>0, <3>1, ScheduleKeeps DEF OwnOK
    <3>2. CASE ~Saves
      BY <1>1, <1>2, <2>0, <3>2 DEF OwnOK
    <3> QED
      BY <3>1, <3>2
  <2>4. RevisionOK'
    <3>1. CASE Saves
      <4>1. project.id \notin touched => expected[project.id] = db[project.id].rev
        BY <2>0, <3>1 DEF RevisionOK, Known, Saves
      <4>2. Unclaimed(io')
        BY <1>0, <1>2, <2>0, <3>1, ScheduleKeeps DEF RevisionOK
      <4>3. project.id \notin touched => Expects(io', db[project.id].rev)
        BY <1>0, <1>2, <2>0, <3>1, <4>1, ScheduleKeeps DEF RevisionOK, OwnOK
      <4> QED
        BY <1>1, <1>2, <4>1, <4>2, <4>3 DEF RevisionOK, Known
    <3>2. CASE ~Saves
      BY <1>1, <1>2, <2>0, <3>2 DEF RevisionOK, Known
    <3> QED
      BY <3>1, <3>2
  <2>5. Clean'
    <3>1. CASE Saves
      BY <1>0, <1>2, <3>1, ScheduleKeeps DEF Clean
    <3>2. CASE ~Saves
      <4>1. io.save.snap # p
        BY <1>0, <1>2 DEF VersionOK, Snaps, Project
      <4> QED
        BY <1>2, <3>2, <4>1 DEF Clean, Newest
    <3> QED
      BY <3>1, <3>2
  <2>6. Left'
    <3>1. CASE op' = op
      BY <1>0, <1>1, <1>2, <3>1 DEF Left, Moves
    <3>2. CASE RuntimeOp(op')
      BY <1>24, <3>2 DEF Left
    <3> QED
      BY <1>1, <3>1, <3>2
  <2> QED
    BY <2>1, <2>2, <2>3, <2>4, <2>5, <2>6 DEF Orderly
<1> QED
  BY <1>4, <1>5, <1>6, <1>7, <1>8, <1>9, <1>10 DEF IInv

-----------------------------------------------------------------------------
(* What the invariant says of the coordinator passes from i to j, while the   *)
(* project and what the repository has of it are the same.                    *)
Kept(i, j) ==
  /\ j \in Coordinator /\ Sound(j)
  /\ Snaps(j) \subseteq Snaps(i) \cup {None, project}
  /\ Newest(i, project) => Newest(j, project)
  /\ Covers(i, project) => Covers(j, project)
  /\ Own(i, project.id) => Own(j, project.id)
  /\ Unclaimed(i) => Unclaimed(j)
  /\ (Own(i, project.id) /\ Expects(i, expected[project.id])) => Expects(j, expected[project.id])

LEMMA KeptTransitive ==
  ASSUME NEW i, NEW j, NEW k, Kept(i, j), Kept(j, k)
  PROVE  Kept(i, k)
BY DEF Kept

LEMMA AskKept ==
  ASSUME NEW i \in Coordinator, Sound(i), NEW who \in {"op", "manager", "boot"}, ~Has(i.txs, who)
  PROVE  Kept(i, Ask(i, who))
BY AskKeeps DEF Kept, Snaps, Newest, Covers, Own, Unclaimed, Expects

LEMMA DoneKept ==
  ASSUME NEW i \in Coordinator, Sound(i), i.txs # <<>>
  PROVE  Kept(i, Done(i))
BY DoneKeeps DEF Kept, Snaps, Newest, Covers, Own, Unclaimed, Expects

LEMMA FlushKept ==
  ASSUME NEW i \in Coordinator, Sound(i), NEW who \in Flushers, expected \in [Ids -> Int],
         project \in Project, who \in {"op", "manager"} => ~Awaited(i, who)
  PROVE  Kept(i, Flush(i, who))
<1>1. project.id \in Ids
  BY DEF Project
<1> QED
  BY <1>1, FlushKeeps DEF Kept

LEMMA ScheduleKept ==
  ASSUME NEW i \in Coordinator, Sound(i), expected \in [Ids -> Int], project \in Project
  PROVE  Kept(i, Schedule(i, project))
BY ScheduleKeeps DEF Kept

(* The open project is the same, and the repository has the same of it unless *)
(* the other tab has been there.                                              *)
LEMMA SameOpen ==
  ASSUME IInv, AsideOK', QueueOK', StageOK', Kept(io, io'),
         UNCHANGED <<project, dirty, boot, booted, expected, late, missed, crossed>>,
         clock' \in Nat, clock <= clock', made' \in 2 .. MaxProjects, made <= made',
         replacing' \in BOOLEAN, op' \in Operation, manager' \in Manager,
         op'.target.ver <= clock', manager'.target.ver <= clock',
         dirty => \/ Covers(io', project)
                  \/ ~replacing' \/ manager'.kind = "rename" => ~replacing \/ manager.kind = "rename",
         db' \in Repository, touched' \subseteq Ids, touched \subseteq touched',
         \A i \in Ids : db'[i].ver <= clock',
         ~crossed /\ project.id \notin touched' => db'[project.id] = db[project.id],
         ~booted /\ project.id \notin touched' => db'[project.id] = db[project.id],
         ~booted /\ db[project.id].rev = 0 => db'[project.id].rev = 0,
         ~crossed => \A i \in Ids : i > made' => db'[i].rev = 0,
         ~crossed => OpOK' /\ ManagerOK' /\ Left'
  PROVE  IInv'
<1>0. /\ TypeOK /\ QueueOK /\ StageOK /\ VersionOK /\ Cover /\ BootOK
      /\ AsideOK /\ HistoryOK
      /\ ~crossed => OpOK /\ ManagerOK /\ OwnOK /\ RevisionOK /\ Clean /\ Left
      /\ project \in Project /\ project.id \in Ids
      /\ io \in Coordinator /\ clock \in Nat
  BY Parts DEF TypeOK
<1>1. /\ project' = project /\ dirty' = dirty /\ boot' = boot /\ booted' = booted
      /\ expected' = expected /\ late' = late /\ missed' = missed /\ crossed' = crossed
  OBVIOUS
<1>2. TypeOK'
  BY <1>0, <1>1 DEF TypeOK, HistoryOK, Kept
<1>3. VersionOK'
  <2>1. \A q \in Snaps(io') : q.ver <= clock'
    <3> TAKE q \in Snaps(io')
    <3>1. CASE q = project
      BY <1>0, <3>1 DEF VersionOK, Project
    <3>2. CASE q = None
      BY <3>2 DEF None
    <3>3. CASE q \in Snaps(io)
      <4>1. q \in Project \cup {None}
        BY <1>0, <3>3 DEF Snaps, Coordinator, NoSave
      <4> QED
        BY <1>0, <3>3, <4>1 DEF VersionOK, Project, None
    <3> QED
      BY <3>1, <3>2, <3>3 DEF Kept
  <2>2. boot.target.ver \in Int /\ project.ver \in Int
    BY <1>0 DEF TypeOK, Boot, Ref, Project
  <2> QED
    BY <1>0, <1>1, <2>1, <2>2 DEF VersionOK
<1>4. Cover'
  <2>1. CASE dirty /\ ~Covers(io', project)
    BY <1>0, <1>1, <2>1 DEF Cover, Kept
  <2>2. CASE ~dirty \/ Covers(io', project)
    BY <1>1, <2>2 DEF Cover
  <2> QED
    BY <2>1, <2>2
<1>5. BootOK'
  BY <1>0, <1>1 DEF BootOK, StageOK
<1>6. ASSUME ~crossed' PROVE Orderly'
  <2>0. OpOK' /\ ManagerOK' /\ Left' /\ OwnOK /\ RevisionOK /\ Clean
        /\ (project.id \notin touched' => project.id \notin touched /\ db'[project.id] = db[project.id])
    BY <1>0, <1>1, <1>6
  <2>1. OwnOK'
    BY <1>0, <1>1, <1>6, <2>0 DEF OwnOK, Kept, TypeOK, Ids
  <2>2. Unclaimed(io')
    BY <2>0 DEF RevisionOK, Kept
  <2>3. project.id \notin touched => Expects(io', db[project.id].rev)
    <3>1. CASE ~booted
      BY <1>1, <3>1 DEF StageOK, Drained, Expects
    <3>2. CASE booted
      BY <2>0, <3>2 DEF RevisionOK, OwnOK, Known, Kept
    <3> QED
      BY <3>1, <3>2
  <2>4. RevisionOK'
    BY <1>1, <2>0, <2>2, <2>3 DEF RevisionOK, Known
  <2>5. Clean'
    BY <1>1, <2>0 DEF Clean, Known, Kept
  <2> QED
    BY <2>0, <2>1, <2>4, <2>5 DEF Orderly
<1> QED
  BY <1>2, <1>3, <1>4, <1>5, <1>6 DEF IInv

(* The repository is the same, too.                                           *)
LEMMA SameProject ==
  ASSUME IInv, AsideOK', QueueOK', StageOK', Kept(io, io'),
         UNCHANGED <<project, dirty, boot, booted, expected, db>>, UNCHANGED history,
         clock' \in Nat, clock <= clock', made' \in 2 .. MaxProjects, made <= made',
         replacing' \in BOOLEAN, op' \in Operation, manager' \in Manager,
         op'.target.ver <= clock', manager'.target.ver <= clock',
         dirty => \/ Covers(io', project)
                  \/ ~replacing' \/ manager'.kind = "rename" => ~replacing \/ manager.kind = "rename",
         ~crossed => OpOK' /\ ManagerOK' /\ Left'
  PROVE  IInv'
<1>0. /\ TypeOK /\ VersionOK /\ HistoryOK /\ clock \in Nat
      /\ ~crossed => OwnOK
  BY Parts DEF TypeOK
<1>1. /\ db' = db /\ touched' = touched /\ late' = late /\ missed' = missed /\ crossed' = crossed
  BY DEF history
<1>2. db' \in Repository /\ touched' \subseteq Ids /\ touched \subseteq touched'
  BY <1>0, <1>1 DEF TypeOK, HistoryOK
<1>3. \A i \in Ids : db'[i].ver <= clock'
  BY <1>0, <1>1 DEF VersionOK, TypeOK, Repository
<1>4. ~crossed => \A i \in Ids : i > made' => db'[i].rev = 0
  BY <1>0, <1>1 DEF OwnOK, TypeOK, Ids
<1> QED
  BY <1>1, <1>2, <1>3, <1>4, SameOpen

LEMMA SaveNowStep ==
  ASSUME IInv, SaveNow
  PROVE  IInv'
<1>0. /\ TypeOK /\ QueueOK /\ StageOK /\ VersionOK /\ AsideOK
      /\ ~crossed => OpOK /\ ManagerOK /\ Left
      /\ project \in Project /\ io \in Coordinator /\ Sound(io) /\ expected \in [Ids -> Int]
  BY Parts
<1>1. /\ UNCHANGED <<plan, ui, native, replacing, op, manager, importing, uploads, boot, booted,
                     expected, db, clock, made, history>>
      /\ io' = Flush(Schedule(io, project), "save") /\ booted /\ op.at # "drained"
  BY DEF SaveNow, Free, Quiet
<1>2. used' \in Spending /\ (used'.failures = 0 => used.failures = 0)
  BY <1>0, SpendKeeps DEF SaveNow
<1> DEFINE i == Schedule(io, project)
<1>3. /\ i \in Coordinator /\ Sound(i) /\ SameAsked(i, io)
      /\ \A w \in {"op", "manager"} : Awaited(i, w) => Awaited(io, w)
      /\ Kept(io, i)
  BY <1>0, ScheduleKeeps, ScheduleKept
<1> HIDE DEF i
<1>4. /\ io' \in Coordinator /\ Sound(io') /\ SameAsked(io', i)
      /\ \A w \in {"op", "manager"} : Awaited(io', w) => Awaited(i, w)
      /\ Kept(i, io')
  <2>1. "save" \in Flushers /\ "save" \notin {"op", "manager"}
    BY DEF Flushers
  <2> QED
    BY <1>0, <1>1, <1>3, <2>1, FlushKeeps, FlushKept DEF i
<1>5. Kept(io, io') /\ SameAsked(io', io)
  BY <1>3, <1>4, KeptTransitive DEF SameAsked
<1>6. AsideOK'
  BY <1>0, <1>1, <1>2 DEF AsideOK, native
<1>7. QueueOK'
  BY <1>0, <1>1, <1>3, <1>4, <1>5 DEF QueueOK, SameAsked
<1>8. StageOK'
  BY <1>0, <1>1 DEF StageOK, Moves
<1>9. ~crossed => OpOK' /\ ManagerOK' /\ Left'
  BY <1>0, <1>1, <1>2, <1>5 DEF OpOK, ManagerOK, Left, Moves, SameAsked, ui, history
<1> QED
  BY <1>0, <1>1, <1>5, <1>6, <1>7, <1>8, <1>9, SameProject DEF TypeOK, VersionOK, ui

(* A rename is a change, whose save the project manager awaits.               *)
LEMMA RenameStep ==
  ASSUME IInv, Rename
  PROVE  IInv'
<1>0. /\ TypeOK /\ QueueOK /\ StageOK /\ VersionOK /\ Cover /\ BootOK
      /\ AsideOK /\ HistoryOK
      /\ ~crossed => OpOK /\ ManagerOK /\ OwnOK /\ RevisionOK /\ Clean /\ Left
      /\ project \in Project /\ project.id \in Ids
      /\ io \in Coordinator /\ Sound(io) /\ expected \in [Ids -> Int]
      /\ Free => ~Moves /\ op.at = "idle" /\ manager.at = "idle" /\ manager.kind = "none"
  BY Parts
<1> DEFINE p == New(project.id, clock + 1)
           i == Schedule(io, p)
<1>1. /\ UNCHANGED <<plan, native, op, importing, uploads, boot, booted, expected, db, made, used,
                     history>>
      /\ project' = p /\ dirty' = TRUE /\ clock' = clock + 1 /\ replacing' = TRUE
      /\ io' = Flush(i, "manager") /\ booted /\ Free
      /\ manager' = [Idle EXCEPT !.kind = "rename", !.at = "flush"]
  BY DEF Rename
<1>2. p \in Project /\ p.id = project.id /\ p.ver = clock + 1 /\ clock \in Nat
  BY <1>0 DEF New, Project, TypeOK
<1>3. manager' \in Manager /\ manager'.kind = "rename" /\ manager'.at = "flush" /\ manager'.target = None
  <2>1. None \in Ref
    BY WorkspaceAssumption DEF None, Ref
  <2> QED
    BY <1>1, <2>1 DEF Manager, Idle, ManagerCalls
<1> HIDE DEF p
<1>4. /\ i \in Coordinator /\ Sound(i) /\ SameAsked(i, io)
      /\ \A w \in {"op", "manager"} : Awaited(i, w) => Awaited(io, w)
      /\ Covers(i, p) /\ Snaps(i) \subseteq Snaps(io) \cup {None, p} /\ Newest(i, p)
      /\ Own(io, p.id) => Own(i, p.id)
      /\ Unclaimed(io) => Unclaimed(i)
      /\ Own(io, p.id) /\ Expects(io, expected[p.id]) => Expects(i, expected[p.id])
  BY <1>0, <1>2, ScheduleKeeps
<1>5. ~Awaited(i, "manager") /\ ~Awaited(i, "op")
  BY <1>0, <1>1, <1>4 DEF QueueOK
<1> HIDE DEF i
<1>6. /\ io' \in Coordinator /\ Sound(io') /\ SameAsked(io', i)
      /\ ~Awaited(io', "op")
      /\ Covers(io', p) /\ Snaps(io') \subseteq Snaps(i) \cup {None} /\ Newest(io', p)
      /\ Own(i, p.id) => Own(io', p.id)
      /\ Unclaimed(i) => Unclaimed(io')
      /\ Own(i, p.id) /\ Expects(i, expected[p.id]) => Expects(io', expected[p.id])
  BY <1>0, <1>1, <1>2, <1>4, <1>5, FlushKeeps DEF Flushers
<1>7. TypeOK'
  BY <1>0, <1>1, <1>2, <1>3, <1>6 DEF TypeOK, AsideOK, HistoryOK, native, history
<1>8. QueueOK'
  BY <1>0, <1>1, <1>3, <1>4, <1>6 DEF QueueOK, SameAsked, ManagerAsks
<1>9. StageOK'
  BY <1>0, <1>1, <1>3 DEF StageOK, Moves, history, ManagerAsks
<1>10. VersionOK'
  <2>1. \A q \in Snaps(io') : q.ver <= clock + 1
    <3> TAKE q \in Snaps(io')
    <3>1. CASE q = p
      BY <1>2, <3>1
    <3>2. CASE q = None
      BY <1>2, <3>2 DEF None
    <3>3. CASE q \in Snaps(io)
      <4>1. q \in Project \cup {None}
        BY <1>0, <3>3 DEF Snaps, Coordinator, NoSave
      <4> QED
        BY <1>0, <1>2, <3>3, <4>1 DEF VersionOK, Project, None
    <3> QED
      BY <1>4, <1>6, <3>1, <3>2, <3>3
  <2>2. op.target.ver \in Int /\ boot.target.ver \in Int /\ \A k \in Ids : db[k].ver \in Int
    BY <1>0 DEF TypeOK, Operation, Boot, Ref, Repository
  <2> QED
    BY <1>0, <1>1, <1>2, <1>3, <2>1, <2>2 DEF VersionOK, None
<1>11. Cover' /\ BootOK'
  BY <1>0, <1>1, <1>6 DEF Cover, BootOK, StageOK
<1>12. ASSUME ~crossed' PROVE Orderly'
  <2>0. ~crossed /\ OwnOK /\ RevisionOK /\ db' = db /\ touched' = touched /\ made' = made
        /\ expected' = expected /\ booted' = booted /\ boot' = boot
    BY <1>0, <1>1, <1>12 DEF history
  <2>1. OpOK' /\ Left'
    BY <1>0, <1>1 DEF OpOK, Left, Moves
  <2>2. ManagerOK'
    BY <1>3 DEF ManagerOK
  <2>3. OwnOK'
    BY <1>1, <1>2, <1>4, <1>6, <2>0 DEF OwnOK
  <2>4. RevisionOK'
    <3>1. project.id \notin touched => expected[p.id] = db[p.id].rev
      BY <1>1, <1>2, <2>0 DEF RevisionOK, Known
    <3>2. project.id \notin touched => Expects(io', db[p.id].rev)
      BY <1>2, <1>4, <1>6, <2>0, <3>1 DEF RevisionOK, OwnOK
    <3> QED
      BY <1>1, <1>2, <1>4, <1>6, <2>0, <3>1, <3>2 DEF RevisionOK, Known
  <2>5. Clean'
    BY <1>1, <1>6 DEF Clean
  <2> QED
    BY <2>1, <2>2, <2>3, <2>4, <2>5 DEF Orderly
<1> QED
  BY <1>7, <1>8, <1>9, <1>10, <1>11, <1>12 DEF IInv

LEMMA IdleIs == Idle \in Manager /\ Idle.kind = "none" /\ Idle.at = "idle" /\ Idle.target = None
BY WorkspaceAssumption DEF Idle, Manager, None, Ref

LEMMA SelfKept == ASSUME NEW i \in Coordinator, Sound(i) PROVE Kept(i, i) /\ SameAsked(i, i)
BY DEF Kept, SameAsked

LEMMA RenameDrainedStep ==
  ASSUME IInv, RenameDrained
  PROVE  IInv'
<1>0. /\ TypeOK /\ QueueOK /\ StageOK /\ VersionOK /\ AsideOK
      /\ ~crossed => OpOK /\ ManagerOK /\ Left
      /\ io \in Coordinator /\ Sound(io)
  BY Parts
<1>1. /\ UNCHANGED <<plan, project, dirty, native, op, importing, uploads, boot, booted, io, expected,
                     db, clock, made, used>> /\ UNCHANGED history
      /\ replacing' = FALSE /\ manager' = Idle /\ manager.at = "drained"
  BY DEF RenameDrained, ui
<1>2. manager.kind = "rename" /\ ~Has(io.txs, "manager") /\ ~Awaited(io, "manager")
  BY <1>0, <1>1 DEF StageOK, QueueOK, ManagerAsks
<1>3. AsideOK'
  BY <1>0, <1>1 DEF AsideOK, native
<1>4. QueueOK'
  BY <1>0, <1>1, <1>2, IdleIs DEF QueueOK, ManagerAsks
<1>5. StageOK'
  BY <1>0, <1>1, IdleIs DEF StageOK, Moves, ManagerAsks, history
<1>6. ~crossed => OpOK' /\ ManagerOK' /\ Left'
  BY <1>0, <1>1, IdleIs DEF OpOK, ManagerOK, Left, Moves, history
<1>7. Kept(io, io') /\ manager' \in Manager /\ manager'.target.ver = 0
  BY <1>0, <1>1, IdleIs, SelfKept DEF None
<1>8. /\ clock' \in Nat /\ clock <= clock' /\ made' \in 2 .. MaxProjects /\ made <= made'
  BY <1>0, <1>1 DEF TypeOK
<1>9. /\ replacing' \in BOOLEAN 
  BY <1>1
<1>10. op' \in Operation /\ op'.target.ver <= clock' 
  BY <1>0, <1>1 DEF TypeOK, VersionOK
<1>11. manager'.target.ver <= clock'
  BY <1>7, <1>8
<1> QED
  BY <1>1, <1>2, <1>3, <1>4, <1>5, <1>6, <1>7, <1>8, <1>9, <1>10, <1>11, SameProject

(* Another project is renamed or deleted.                                     *)
LEMMA ManageOtherStep ==
  ASSUME IInv, NEW kind \in ManagerCalls \ {"rename"}, NEW i \in Ids, ManageOther(kind, i)
  PROVE  IInv'
<1>0. /\ TypeOK /\ QueueOK /\ StageOK /\ VersionOK /\ AsideOK
      /\ ~crossed => OpOK /\ ManagerOK /\ Left
      /\ io \in Coordinator /\ Sound(io)
      /\ Free => ~Moves /\ op.at = "idle" /\ manager.at = "idle" /\ manager.kind = "none"
  BY Parts
<1> DEFINE at == IF kind = "rename-other" THEN "get" ELSE "erase"
<1>1. /\ UNCHANGED <<plan, project, dirty, native, replacing, op, importing, uploads, boot, booted,
                     expected, db, clock, made, used>> /\ UNCHANGED history
      /\ manager' = [Idle EXCEPT !.kind = kind, !.target = New(i, 0), !.at = at]
      /\ io' = Ask(io, "manager") /\ Free /\ booted /\ i # project.id
  BY DEF ManageOther, ui
<1>2. /\ manager' \in Manager /\ manager'.kind = kind /\ manager'.at = at /\ manager'.target.id = i
      /\ manager'.target.ver = 0
  <2>1. New(i, 0) \in Ref /\ New(i, 0).id = i /\ New(i, 0).ver = 0
    BY DEF New, Ref, Ids
  <2> QED
    BY <1>1, <2>1 DEF Manager, Idle, ManagerAsks
<1>3. at \in {"get", "erase"} /\ kind # "rename" /\ kind # "none"
  BY DEF ManagerCalls
<1> HIDE DEF at
<1>4. ~Has(io.txs, "manager")
  BY <1>0, <1>1 DEF QueueOK, ManagerAsks
<1>5. /\ io' \in Coordinator /\ Sound(io')
      /\ io'.pending = io.pending /\ io'.save = io.save /\ io'.waiters = io.waiters
      /\ \A w \in Asking : Has(io'.txs, w) <=> (w = "manager" \/ Has(io.txs, w))
  BY <1>0, <1>1, <1>4, AskKeeps
<1>6. Kept(io, io')
  BY <1>0, <1>1, <1>4, AskKept
<1>7. AsideOK'
  BY <1>0, <1>1 DEF AsideOK, native
<1>8. QueueOK'
  BY <1>0, <1>1, <1>2, <1>3, <1>5 DEF QueueOK, ManagerAsks, Asking, Awaited
<1>9. StageOK'
  BY <1>0, <1>1, <1>2, <1>3, <1>5 DEF StageOK, Moves, ManagerAsks, history, Drained
<1>10. ~crossed => OpOK' /\ ManagerOK' /\ Left'
  BY <1>0, <1>1, <1>2, <1>3 DEF OpOK, ManagerOK, Left, Moves
<1> QED
  BY <1>0, <1>1, <1>2, <1>3, <1>6, <1>7, <1>8, <1>9, <1>10, SameProject DEF TypeOK, VersionOK

LEMMA TurnIs ==
  ASSUME IInv, NEW who \in Asking, Turn(who)
  PROVE  /\ io.txs # <<>> /\ Head(io.txs) = who /\ Has(io.txs, who) /\ Quiet
         /\ Done(io) \in Coordinator /\ Sound(Done(io)) /\ Kept(io, Done(io))
         /\ Done(io).pending = io.pending /\ Done(io).save = io.save /\ Done(io).waiters = io.waiters
         /\ ~Has(Done(io).txs, who)
         /\ \A w \in Asking : Has(Done(io).txs, w) <=> (Has(io.txs, w) /\ w # who)
         /\ Before(io.txs, "manager", "op") =>
              who # "op" /\ (who # "manager" => Before(Done(io).txs, "manager", "op"))
BY Parts, DoneKeeps, DoneKept DEF Turn

(* The manager has read the project that it will write.                       *)
LEMMA OtherReadStep ==
  ASSUME IInv, OtherRead
  PROVE  IInv'
<1>0. /\ TypeOK /\ QueueOK /\ StageOK /\ VersionOK /\ AsideOK
      /\ ~crossed => OpOK /\ ManagerOK /\ Left
      /\ io \in Coordinator /\ Sound(io) /\ clock \in Nat
  BY Parts DEF TypeOK
<1>1. /\ UNCHANGED <<plan, project, dirty, native, replacing, op, importing, uploads, boot, booted,
                     expected, db, made, used>> /\ UNCHANGED history
      /\ Turn("manager") /\ manager.at = "get"
  BY DEF OtherRead, ui
<1>2. "manager" \in Asking /\ manager.target.id \in Ids /\ op.at # "drained" /\ manager.kind # "rename"
  BY <1>0, <1>1 DEF Asking, StageOK, ManagerAsks, Turn, Quiet
<1> DEFINE d == Done(io)
<1>3. /\ d \in Coordinator /\ Sound(d) /\ Kept(io, d)
      /\ d.pending = io.pending /\ d.save = io.save /\ d.waiters = io.waiters
      /\ \A w \in Asking : Has(d.txs, w) <=> (Has(io.txs, w) /\ w # "manager")
  BY <1>1, <1>2, TurnIs
<1>4. \A w \in {"op", "manager"} : Awaited(d, w) <=> Awaited(io, w)
  BY <1>3 DEF Awaited
<1>5. AsideOK' /\ made' \in 2 .. MaxProjects /\ made <= made' /\ replacing' \in BOOLEAN /\ op' \in Operation
      /\ op'.target.ver = op.target.ver /\ op.target.ver \in Nat
  BY <1>0, <1>1 DEF AsideOK, native, TypeOK, Operation, Ref
<1> HIDE DEF d
<1>6. CASE /\ manager.target.id \in Stored /\ CanVersion
           /\ manager' = [manager EXCEPT !.at = "put", !.rev = db[manager.target.id].rev,
                                         !.target.ver = clock + 1]
           /\ clock' = clock + 1 /\ io' = Ask(d, "manager")
  <2>1. db[manager.target.id].rev \in Nat /\ db[manager.target.id].rev > 0
    BY <1>0, <1>2, <1>6 DEF Stored, TypeOK, Repository
  <2>2. /\ manager' \in Manager /\ manager'.at = "put" /\ manager'.kind = manager.kind
        /\ manager'.rev = db[manager.target.id].rev /\ manager'.target.id = manager.target.id
        /\ manager'.target.ver = clock + 1
    <3>1. manager.target \in Ref /\ manager \in Manager
      BY <1>0 DEF TypeOK, Manager
    <3>2. [manager.target EXCEPT !.ver = clock + 1] \in Ref
      BY <1>0, <3>1 DEF Ref
    <3>3. manager' = [manager EXCEPT !.at = "put", !.rev = db[manager.target.id].rev,
                                     !.target = [manager.target EXCEPT !.ver = clock + 1]]
      BY <1>6
    <3> QED
      BY <1>0, <2>1, <3>1, <3>2, <3>3 DEF Manager, ManagerAsks, Ref
  <2>3. ~Has(d.txs, "manager")
    BY <1>2, <1>3
  <2>4. /\ io' \in Coordinator /\ Sound(io')
        /\ io'.pending = d.pending /\ io'.save = d.save /\ io'.waiters = d.waiters
        /\ \A w \in Asking : Has(io'.txs, w) <=> (w = "manager" \/ Has(d.txs, w))
        /\ Kept(d, io')
    BY <1>3, <1>6, <2>3, AskKeeps, AskKept
  <2>5. Kept(io, io')
    BY <1>3, <2>4, KeptTransitive
  <2>6. QueueOK'
    BY <1>0, <1>1, <1>3, <2>2, <2>4 DEF QueueOK, ManagerAsks, Asking, Awaited
  <2>7. StageOK'
    BY <1>0, <1>1, <1>2, <1>3, <2>1, <2>2, <2>4 DEF StageOK, Moves, ManagerAsks, history, Drained
  <2>8. ~crossed => OpOK' /\ ManagerOK' /\ Left'
    BY <1>0, <1>1, <2>2 DEF OpOK, ManagerOK, Left, Moves, history
  <2>9. op'.target.ver <= clock' /\ manager'.target.ver <= clock' /\ clock' \in Nat /\ clock <= clock'
    BY <1>0, <1>1, <1>5, <1>6, <2>2 DEF VersionOK
  <2> QED
    BY <1>0, <1>1, <1>5, <2>2, <2>5, <2>6, <2>7, <2>8, <2>9, SameProject
<1>7. CASE manager' = Idle /\ io' = d /\ clock' = clock
  <2>1. QueueOK'
    BY <1>0, <1>1, <1>3, <1>4, <1>7, IdleIs DEF QueueOK, ManagerAsks, Asking
  <2>2. StageOK'
    BY <1>0, <1>1, <1>2, <1>3, <1>7, IdleIs DEF StageOK, Moves, ManagerAsks, history, Drained
  <2>3. ~crossed => OpOK' /\ ManagerOK' /\ Left'
    BY <1>0, <1>1, <1>7, IdleIs DEF OpOK, ManagerOK, Left, Moves, history
  <2>4. op'.target.ver <= clock' /\ manager'.target.ver <= clock' /\ clock' \in Nat /\ clock <= clock'
    BY <1>0, <1>1, <1>5, <1>7, IdleIs DEF VersionOK, None
  <2> QED
    BY <1>0, <1>1, <1>3, <1>5, <1>7, <2>1, <2>2, <2>3, <2>4, IdleIs, SameProject
<1> QED
  BY <1>6, <1>7 DEF OtherRead, d

(* The repository after a write.                                              *)
LEMMA PutIs ==
  ASSUME db \in Repository, NEW p \in Project
  PROVE  /\ Put(p) \in Repository
         /\ Put(p)[p.id].rev = db[p.id].rev + 1 /\ Put(p)[p.id].ver = p.ver /\ Put(p)[p.id].rev > 0
         /\ \A i \in Ids \ {p.id} : Put(p)[i] = db[i]
<1>1. p.id \in Ids /\ p.ver \in Nat
  BY DEF Project
<1> QED
  BY <1>1 DEF Put, Repository

LEMMA GoneIs ==
  ASSUME db \in Repository, NEW i \in Ids
  PROVE  /\ Gone(i) \in Repository /\ Gone(i)[i].rev = 0 /\ Gone(i)[i].ver = 0
         /\ \A j \in Ids \ {i} : Gone(i)[j] = db[j]
BY DEF Gone, Repository

(* The manager has written.                                                   *)
LEMMA OtherWrittenStep ==
  ASSUME IInv, OtherWritten
  PROVE  IInv'
<1>0. /\ TypeOK /\ QueueOK /\ StageOK /\ VersionOK /\ AsideOK /\ HistoryOK
      /\ ~crossed => OpOK /\ ManagerOK /\ Left /\ OwnOK
      /\ io \in Coordinator /\ Sound(io) /\ clock \in Nat /\ db \in Repository
      /\ made \in 2 .. MaxProjects
  BY Parts DEF TypeOK
<1>1. /\ UNCHANGED <<plan, project, dirty, native, replacing, op, importing, uploads, boot, booted,
                     expected, clock, made, used>> /\ UNCHANGED history
      /\ Turn("manager") /\ manager.at \in {"put", "erase"}
      /\ io' = Done(io) /\ manager' = Idle
      /\ touched' = touched /\ late' = late /\ missed' = missed /\ crossed' = crossed
  BY DEF OtherWritten, ui, history
<1>2. "manager" \in Asking /\ manager.target.id \in Ids /\ op.at # "drained" /\ manager.kind # "rename"
      /\ manager.kind # "none" /\ booted
      /\ (manager.at = "put" => manager.rev > 0)
  BY <1>0, <1>1 DEF Asking, StageOK, ManagerAsks, Turn, Quiet
<1>3. /\ io' \in Coordinator /\ Sound(io') /\ Kept(io, io')
      /\ io'.pending = io.pending /\ io'.save = io.save /\ io'.waiters = io.waiters
      /\ \A w \in Asking : Has(io'.txs, w) <=> (Has(io.txs, w) /\ w # "manager")
      /\ Head(io.txs) = "manager"
  BY <1>1, <1>2, TurnIs
<1>4. \A w \in {"op", "manager"} : Awaited(io', w) <=> Awaited(io, w)
  BY <1>3 DEF Awaited
<1> DEFINE t == manager.target
<1>5. t \in Project /\ manager.rev \in Nat /\ t.ver <= clock
  BY <1>0, <1>2 DEF TypeOK, Manager, Ref, Project, VersionOK
<1>6. \/ manager.at = "put" /\ Fits(t, manager.rev) /\ db' = Put(t)
      \/ manager.at = "erase" /\ db' = Gone(t.id)
      \/ manager.at = "put" /\ ~Fits(t, manager.rev) /\ db' = db
  BY DEF OtherWritten
<1>7. /\ db' \in Repository
      /\ \A i \in Ids \ {t.id} : db'[i] = db[i]
      /\ db'[t.id] = db[t.id] \/ (manager.at = "erase" /\ db'[t.id].rev = 0 /\ db'[t.id].ver = 0)
           \/ (manager.at = "put" /\ db[t.id].rev > 0 /\ db'[t.id].rev > 0 /\ db'[t.id].ver = t.ver)
  <2>1. Fits(t, manager.rev) => db[t.id].rev = manager.rev
    BY <1>5 DEF Fits, LastWriterWins
  <2> QED
    BY <1>0, <1>2, <1>5, <1>6, <2>1, PutIs, GoneIs
<1>8. /\ \A i \in Ids : db'[i].ver <= clock'
      /\ \A i \in Ids : db'[i].rev = 0 => db'[i].ver = 0
  BY <1>0, <1>1, <1>2, <1>5, <1>7 DEF VersionOK, StageOK
<1>9. ~crossed =>
        /\ project.id \notin touched => t.id # project.id
        /\ manager.at = "erase" => t.id # project.id /\ (Moves => op.at = "get" /\ Before(io.txs, "manager", "op"))
  BY <1>0, <1>1, <1>2 DEF ManagerOK
<1> HIDE DEF t
<1>10. AsideOK'
  BY <1>0, <1>1 DEF AsideOK, native
<1>11. QueueOK'
  BY <1>0, <1>1, <1>3, <1>4, IdleIs DEF QueueOK, ManagerAsks, Asking
<1>12. StageOK'
  BY <1>0, <1>1, <1>2, <1>3, <1>8, IdleIs DEF StageOK, Moves, ManagerAsks, Drained
<1>13. ~crossed /\ project.id \notin touched' => db'[project.id] = db[project.id]
  BY <1>0, <1>1, <1>5, <1>7, <1>9 DEF TypeOK, Project
<1>14. ~crossed => \A i \in Ids : i > made' => db'[i].rev = 0
  BY <1>0, <1>1, <1>7, <1>5 DEF OwnOK, Project
<1>15. ASSUME ~crossed PROVE OpOK' /\ ManagerOK' /\ Left'
  <2>1. ManagerOK'
    BY <1>1, IdleIs DEF ManagerOK
  <2>2. Left'
    BY <1>0, <1>1, <1>15 DEF Left, Moves
  <2>3. ASSUME Moves PROVE OpOK'
    <3>1. op.kind = "import"
      BY <1>0, <1>2, <2>3 DEF StageOK
    <3>2. OpOK /\ op' = op /\ made' = made /\ project' = project /\ made \in Ids /\ op.target \in Project
      BY <1>0, <1>1, <1>15, <2>3 DEF Ids, StageOK
    <3>3. db[made].rev = 0 => db'[made].rev = 0
      BY <1>0, <1>7, <3>2
    <3>4. op.at \in Leaving => op.at \notin {"get"} /\ manager.at = "put"
      BY <1>1, <1>9, <1>15, <2>3 DEF Leaving
    <3>5. op.at \in Leaving => op.new /\ op.at # "erase" /\ op.rev = 1
            /\ (op.target.id \notin touched \cup {project.id} => db[op.target.id].rev = 0)
      BY <2>3, <3>1, <3>2 DEF OpOK
    <3>6. op.at \in Leaving /\ op.target.id \notin touched \cup {project.id} => db'[op.target.id].rev = 0
      <4>1. op.target.id \in Ids
        BY <3>2 DEF Project
      <4> QED
        BY <1>0, <1>7, <3>4, <3>5, <4>1
    <3> QED
      BY <1>1, <3>1, <3>2, <3>3, <3>5, <3>6 DEF OpOK, Moves
  <2>4. ASSUME ~Moves PROVE OpOK'
    BY <1>1, <2>4 DEF OpOK, Moves
  <2> QED
    BY <2>1, <2>2, <2>3, <2>4
<1>16. /\ made' \in 2 .. MaxProjects /\ made <= made' /\ clock' \in Nat /\ clock <= clock'
       /\ replacing' \in BOOLEAN /\ op' \in Operation
       /\ op'.target.ver <= clock' /\ manager' \in Manager /\ manager'.target.ver <= clock'
  BY <1>0, <1>1, IdleIs DEF TypeOK, VersionOK, None
<1>17. touched' \subseteq Ids /\ touched \subseteq touched'
  BY <1>0, <1>1 DEF HistoryOK
<1> QED
  BY <1>1, <1>2, <1>3, <1>7, <1>8, <1>10, <1>11, <1>12, <1>13, <1>14, <1>15, <1>16, <1>17, IdleIs, SameOpen

(* Another tab saves or deletes a project.                                    *)
LEMMA OtherTabStep ==
  ASSUME IInv, NEW i \in Ids, OtherTab(i)
  PROVE  IInv'
<1>0. /\ TypeOK /\ QueueOK /\ StageOK /\ VersionOK /\ AsideOK /\ HistoryOK
      /\ ~crossed => OpOK /\ ManagerOK /\ Left /\ OwnOK
      /\ io \in Coordinator /\ Sound(io) /\ clock \in Nat /\ db \in Repository
      /\ made \in 2 .. MaxProjects
  BY Parts DEF TypeOK
<1>1. /\ UNCHANGED <<plan, project, dirty, native, replacing, op, manager, importing, uploads, boot, booted,
                     io, expected, made, late, missed, crossed>>
      /\ touched' = touched \cup {i} /\ db[i].rev > 0 /\ op.at # "drained"
  BY DEF OtherTab, ui, Stored, Quiet
<1>2. used' \in Spending /\ (used'.failures = 0 => used.failures = 0)
  BY <1>0, SpendKeeps DEF OtherTab
<1>3. \/ db' = Put(New(i, clock + 1)) /\ clock' = clock + 1
      \/ db' = Gone(i) /\ clock' = clock
  BY DEF OtherTab
<1>4. New(i, clock + 1) \in Project /\ New(i, clock + 1).id = i /\ New(i, clock + 1).ver = clock + 1
  BY <1>0 DEF New, Project
<1>5. /\ db' \in Repository /\ clock' \in Nat /\ clock <= clock'
      /\ \A j \in Ids \ {i} : db'[j] = db[j]
      /\ \/ db'[i].rev > 0 /\ db'[i].ver = clock'
         \/ db'[i].rev = 0 /\ db'[i].ver = 0
  BY <1>0, <1>3, <1>4, PutIs, GoneIs
<1>6. /\ \A j \in Ids : db'[j].ver <= clock'
      /\ \A j \in Ids : db'[j].rev = 0 => db'[j].ver = 0
  <2>1. \A j \in Ids : db[j].ver \in Nat
    BY <1>0 DEF Repository
  <2> QED
    BY <1>0, <1>1, <1>5, <2>1 DEF VersionOK, StageOK
<1>7. AsideOK'
  BY <1>0, <1>1, <1>2 DEF AsideOK, native
<1>8. QueueOK'
  BY <1>0, <1>1 DEF QueueOK
<1>9. StageOK'
  BY <1>0, <1>1, <1>6 DEF StageOK, Moves
<1>10. project.id \notin touched' => db'[project.id] = db[project.id]
  BY <1>0, <1>1, <1>5 DEF TypeOK, Project
<1>11. ~crossed => \A j \in Ids : j > made' => db'[j].rev = 0
  BY <1>0, <1>1, <1>5 DEF OwnOK
<1>12. ASSUME ~crossed PROVE OpOK' /\ ManagerOK' /\ Left'
  <2>1. ManagerOK'
    <3>1. manager.at \in ManagerAsks => manager.target.id \in Ids
      BY <1>0 DEF StageOK
    <3> QED
      BY <1>0, <1>1, <1>5, <1>12, <3>1 DEF ManagerOK, Moves, ManagerAsks
  <2>2. Left'
    BY <1>0, <1>1, <1>2, <1>12 DEF Left, Moves
  <2>3. OpOK'
    <3>1. OpOK /\ op' = op /\ made' = made /\ project' = project /\ made \in Ids
      BY <1>0, <1>1, <1>12 DEF Ids
    <3>2. db[made].rev = 0 => db'[made].rev = 0
      BY <1>1, <1>5, <3>1
    <3>3. Moves => op.target.id \in Ids
      BY <1>0 DEF StageOK, Project
    <3>4. Moves /\ op.target.id \notin touched' =>
            op.target.id \notin touched /\ db'[op.target.id] = db[op.target.id]
      BY <1>1, <1>5, <3>3
    <3> QED
      BY <1>1, <3>1, <3>2, <3>4 DEF OpOK, Moves
  <2> QED
    BY <2>1, <2>2, <2>3
<1>13. /\ made' \in 2 .. MaxProjects /\ made <= made'
       /\ replacing' \in BOOLEAN /\ op' \in Operation /\ manager' \in Manager
  BY <1>0, <1>1 DEF TypeOK
<1>14. op'.target.ver <= clock' /\ manager'.target.ver <= clock'
  <2>1. op.target.ver \in Nat /\ manager.target.ver \in Nat
    BY <1>0 DEF TypeOK, Operation, Manager, Ref
  <2> QED
    BY <1>0, <1>1, <1>5, <2>1 DEF VersionOK
<1>15. touched' \subseteq Ids /\ touched \subseteq touched' /\ Kept(io, io')
  BY <1>0, <1>1, SelfKept DEF HistoryOK
<1> QED
  BY <1>1, <1>5, <1>6, <1>7, <1>8, <1>9, <1>10, <1>11, <1>12, <1>13, <1>14, <1>15, SameOpen

LEMMA SettleIs ==
  ASSUME NEW ok, NEW failed, Settle(ok, failed), op \in Operation, manager \in Manager,
         "op" \in ok \cup failed => op.at = "flush",
         "manager" \in ok \cup failed => manager.at = "flush"
  PROVE  /\ op' \in Operation /\ op'.kind = op.kind /\ op'.from = op.from /\ op'.target = op.target
         /\ op'.rev = op.rev /\ op'.new = op.new
         /\ op' = op \/ (op.at = "flush" /\ op'.at \in {"drained", "undrained"})
         /\ "op" \in ok \cup failed => op'.at # "flush"
         /\ "op" \notin ok \cup failed => op' = op
         /\ op'.at = "drained" => op.at = "drained" \/ "op" \in ok
         /\ manager' \in Manager /\ manager'.kind = manager.kind /\ manager'.target = manager.target
         /\ manager' = manager \/ (manager.at = "flush" /\ manager'.at = "drained")
         /\ "manager" \in ok \cup failed => manager'.at # "flush"
         /\ "manager" \notin ok \cup failed => manager' = manager
BY DEF Settle, Operation, Manager, Leaving

(* The save whose transaction is next.                                        *)
LEMMA SaveIs ==
  ASSUME IInv, Turn("auto")
  PROVE  /\ io.save # NoSave
         /\ io.save.snap \in Project /\ io.save.expect \in Int /\ io.save.fresh \in BOOLEAN
         /\ io.save.owner \in Flushers
         /\ booted /\ Quiet /\ ~Has(Done(io).txs, "auto")
         /\ Done(io) \in Coordinator /\ Sound(Done(io))
         /\ Done(io).pending = io.pending /\ Done(io).save = io.save /\ Done(io).waiters = io.waiters
         /\ \A w \in Asking : Has(Done(io).txs, w) <=> (Has(io.txs, w) /\ w # "auto")
         /\ Before(io.txs, "manager", "op") => Before(Done(io).txs, "manager", "op")
         /\ ~crossed => io.save.snap.id = project.id /\ (io.pending # None => io.pending.id = project.id)
         /\ io.pending # None => io.pending \in Project
<1>0. "auto" \in Asking
  BY DEF Asking
<1>1. io.save # NoSave /\ io \in Coordinator
  BY <1>0, TurnIs, Parts DEF Sound
<1>2. io.save \in [snap : Project, expect : Int, fresh : BOOLEAN, owner : Flushers]
      /\ (io.pending # None => io.pending \in Project)
  BY <1>1 DEF Coordinator
<1>3. booted
  BY <1>1, Parts DEF StageOK, Drained
<1>4. ~crossed => Own(io, project.id)
  BY Parts DEF OwnOK
<1> QED
  BY <1>0, <1>1, <1>2, <1>3, <1>4, TurnIs DEF Own

(* A save that is stored, of a project that the open one is or was.           *)
LEMMA SaveStoredStep ==
  ASSUME IInv, SaveStored
  PROVE  IInv'
<1>0. /\ TypeOK /\ QueueOK /\ StageOK /\ VersionOK /\ Cover /\ BootOK
      /\ AsideOK /\ HistoryOK
      /\ ~crossed => OpOK /\ ManagerOK /\ OwnOK /\ RevisionOK /\ Clean /\ Left
      /\ project \in Project /\ project.id \in Ids
      /\ io \in Coordinator /\ Sound(io) /\ expected \in [Ids -> Int]
  BY Parts
<1> DEFINE s == io.save
           d == Done(io)
           e == IF s.fresh /\ s.expect # LastWriterWins
                THEN [expected EXCEPT ![s.snap.id] = db[s.snap.id].rev + 1] ELSE expected
<1>1. /\ UNCHANGED <<plan, project, native, replacing, importing, uploads, boot, booted, clock, made,
                     used, touched, late, missed, crossed>>
      /\ Turn("auto") /\ db' = Put(s.snap) /\ expected' = e
      /\ dirty' = (dirty /\ s.snap # project)
  BY DEF SaveStored, MarkSaved, history
<1>2. /\ s # NoSave /\ s.snap \in Project /\ s.expect \in Int /\ s.fresh \in BOOLEAN /\ s.owner \in Flushers
      /\ booted /\ op.at # "drained" /\ ~Has(d.txs, "auto")
      /\ d \in Coordinator /\ Sound(d)
      /\ d.pending = io.pending /\ d.save = s /\ d.waiters = io.waiters
      /\ \A w \in Asking : Has(d.txs, w) <=> (Has(io.txs, w) /\ w # "auto")
      /\ Before(io.txs, "manager", "op") => Before(d.txs, "manager", "op")
      /\ ~crossed => s.snap.id = project.id /\ (io.pending # None => io.pending.id = project.id)
      /\ io.pending # None => io.pending \in Project
  BY <1>1, SaveIs DEF Quiet
<1>3. s.snap.id \in Ids /\ db[s.snap.id].rev \in Nat /\ clock \in Nat /\ db \in Repository
  BY <1>0, <1>2 DEF TypeOK, Repository, Project
<1>4. e \in [Ids -> Int]
  BY <1>0, <1>3
<1>5. /\ db' \in Repository
      /\ db'[s.snap.id].rev = db[s.snap.id].rev + 1 /\ db'[s.snap.id].ver = s.snap.ver
      /\ db'[s.snap.id].rev > 0
      /\ \A i \in Ids \ {s.snap.id} : db'[i] = db[i]
  BY <1>1, <1>2, <1>3, PutIs
<1>6. \A i \in Ids : db'[i].ver <= clock
  BY <1>0, <1>2, <1>5 DEF VersionOK, Snaps
<1>7. AsideOK'
  BY <1>0, <1>1 DEF AsideOK, native
<1>8. ~crossed /\ project.id \notin touched =>
        e[project.id] = db'[project.id].rev
  <2>1. ASSUME ~crossed, project.id \notin touched PROVE e[project.id] = db'[project.id].rev
    <3>1. s.fresh /\ s.expect = db[project.id].rev
      BY <1>0, <1>2, <2>1 DEF RevisionOK, Unclaimed, Expects
    <3> QED
      BY <1>0, <1>2, <1>3, <1>5, <2>1, <3>1 DEF LastWriterWins
  <2> QED
    BY <2>1
<1>9. ASSUME ~crossed PROVE /\ ~dirty' => s.snap = project
                            /\ (~dirty' /\ io.pending # None) => io.pending = project
  BY <1>0, <1>1, <1>2, <1>9, NoneIs DEF Clean, Snaps, Newest
<1>10. /\ TypeOK /\ db' \in Repository /\ expected' \in Expectations /\ dirty' \in BOOLEAN
  BY <1>0, <1>1, <1>4, <1>5 DEF TypeOK, Expectations
<1> HIDE DEF e
<1>11. ASSUME ~crossed PROVE OwnOK /\ (\A i \in Ids : i > made => db'[i].rev = 0)
                             /\ (\A i \in Ids : i # project.id => db'[i] = db[i])
  BY <1>0, <1>2, <1>5, <1>11 DEF OwnOK, Ids, TypeOK
<1> HIDE DEF s, d
<1>12. CASE io.pending # None
  <2>1. io' = Drain(d, io.pending, s.owner, e) /\ op' = op /\ manager' = manager
    BY <1>12 DEF SaveStored, s, d, e
  <2>2. s.owner \in {"op", "manager"} => ~Has(d.waiters, s.owner)
    BY <1>0, <1>2 DEF Sound, s
  <2>3. /\ io' \in Coordinator /\ Sound(io') /\ SameAsked(io', d)
        /\ \A who \in {"op", "manager"} : Awaited(io', who) => who = s.owner \/ Awaited(d, who)
        /\ Covers(io', io.pending) /\ Own(io', io.pending.id) /\ Unclaimed(io')
        /\ Expects(io', e[io.pending.id])
        /\ io'.pending = None /\ io'.save # NoSave /\ Snaps(io') = {None, io.pending}
    BY <1>2, <1>4, <1>12, <2>1, <2>2, DrainKeeps
  <2>4. \A who \in {"op", "manager"} : Awaited(io', who) => Awaited(io, who)
    BY <1>2, <2>3 DEF Awaited, s
  <2>5. TypeOK'
    BY <1>1, <1>7, <1>10, <2>1, <2>3 DEF TypeOK, HistoryOK
  <2>6. QueueOK'
    BY <1>0, <1>2, <2>1, <1>1, <2>3, <2>4 DEF QueueOK, SameAsked, Asking
  <2>7. StageOK'
    BY <1>0, <1>1, <1>2, <1>5, <2>1 DEF StageOK, Moves, Project
  <2>8. VersionOK'
    <3>1. io.pending.ver <= clock
      BY <1>0 DEF VersionOK, Snaps
    <3> QED
      BY <1>0, <1>1, <1>3, <1>6, <2>1, <2>3, <3>1 DEF VersionOK, None
  <2>9. Cover' /\ BootOK'
    BY <1>0, <1>1, <1>2, <1>12, <2>1, <2>3 DEF Cover, BootOK, Covers, StageOK
  <2>10. ASSUME ~crossed' PROVE Orderly'
    <3>0. ~crossed /\ OpOK /\ ManagerOK /\ Left /\ io.pending.id = project.id
      BY <1>0, <1>1, <1>2, <1>12, <2>10
    <3>1. OpOK'
      <4>1. made \in Ids /\ (Moves => op.target.id \in Ids)
        BY <1>0 DEF TypeOK, StageOK, Project, Ids
      <4> QED
        BY <1>1, <1>11, <2>1, <3>0, <4>1 DEF OpOK, Moves
    <3>2. ManagerOK'
      <4>1. manager.at = "put" => manager.target.id \in Ids
        BY <1>0 DEF StageOK, ManagerAsks
      <4> QED
        BY <1>1, <1>2, <1>11, <2>1, <2>3, <3>0, <4>1 DEF ManagerOK, Moves, SameAsked
    <3>3. OwnOK'
      BY <1>1, <1>11, <2>3, <3>0 DEF OwnOK
    <3>4. RevisionOK'
      BY <1>1, <1>8, <2>3, <3>0 DEF RevisionOK
    <3>5. Newest(io', project) /\ (~dirty' => Snaps(io') \subseteq {None, project})
      BY <1>9, <1>12, <2>3, <3>0 DEF Newest
    <3>6. ~dirty' => db'[project.id].ver = project.ver
      BY <1>5, <1>9, <3>0
    <3>7. Clean'
      BY <1>1, <3>5, <3>6 DEF Clean
    <3>8. Left'
      BY <1>1, <2>1, <3>0 DEF Left, Moves
    <3> QED
      BY <3>1, <3>2, <3>3, <3>4, <3>7, <3>8 DEF Orderly
  <2> QED
    BY <2>5, <2>6, <2>7, <2>8, <2>9, <2>10 DEF IInv
<1>13. CASE io.pending = None
  <2> DEFINE ok == {s.owner} \cup {io.waiters[k] : k \in DOMAIN io.waiters}
  <2>1. io' = [d EXCEPT !.save = NoSave, !.waiters = <<>>] /\ Settle(ok, {})
    BY <1>13 DEF SaveStored, s, d
  <2>2. /\ io' \in Coordinator /\ io'.save = NoSave /\ io'.waiters = <<>> /\ io'.pending = None
        /\ io'.txs = d.txs
    <3>1. <<>> \in Seq(Flushers) /\ d.txs \in Seq(Asking) /\ d.pending = None
      BY <1>2, <1>13 DEF Coordinator
    <3>2. io' = [pending |-> None, save |-> NoSave, waiters |-> <<>>, txs |-> d.txs]
      BY <1>2, <1>13, <2>1 DEF Coordinator
    <3> QED
      BY <3>1, <3>2 DEF Coordinator
  <2>3. \A who : who \in ok <=> Awaited(io, who)
    BY <1>0 DEF Awaited, Has, Coordinator, s
  <2> HIDE DEF ok
  <2>4. ("op" \in ok => op.at = "flush") /\ ("manager" \in ok => manager.at = "flush")
    BY <1>0, <2>3 DEF QueueOK
  <2>5. op \in Operation /\ manager \in Manager
    BY <1>0 DEF TypeOK
  <2>6. /\ op' \in Operation /\ op'.kind = op.kind /\ op'.from = op.from /\ op'.target = op.target
        /\ op'.rev = op.rev /\ op'.new = op.new
        /\ op' = op \/ (op.at = "flush" /\ op'.at \in {"drained", "undrained"})
        /\ op'.at = "drained" => "op" \in ok
        /\ manager' \in Manager /\ manager'.kind = manager.kind /\ manager'.target = manager.target
        /\ manager' = manager \/ (manager.at = "flush" /\ manager'.at = "drained")
    BY <1>2, <2>1, <2>4, <2>5, SettleIs
  <2>7. \A who : ~Has(io'.waiters, who) /\ Once(io'.waiters, who)
    BY <2>2 DEF Has, Once
  <2>8. Sound(io') /\ ~Awaited(io', "op") /\ ~Awaited(io', "manager")
    BY <1>2, <2>2, <2>7 DEF Sound, Awaited, NoSave, Nobody
  <2>9. TypeOK'
    BY <1>1, <1>7, <1>10, <2>2, <2>6 DEF TypeOK, HistoryOK
  <2>10. QueueOK'
    BY <1>0, <1>1, <1>2, <2>2, <2>6, <2>8 DEF QueueOK, Asking, OpAsks, ManagerAsks
  <2>11. StageOK'
    BY <1>0, <1>1, <1>2, <1>5, <2>2, <2>6 DEF StageOK, Moves, Project, RunAts, ManagerAsks
  <2>12. VersionOK'
    BY <1>0, <1>1, <1>3, <1>6, <2>2, <2>6 DEF VersionOK, None, Snaps, NoSave
  <2>13. ~(Cover /\ dirty /\ Covers(io, project) /\ dirty')
    BY <1>1, <1>13 DEF Covers, s
  <2>14. Cover' /\ BootOK'
    BY <1>0, <1>1, <1>2, <2>6, <2>13 DEF Cover, BootOK, StageOK
  <2>15. ASSUME ~crossed' PROVE Orderly'
    <3>0. ~crossed /\ OpOK /\ ManagerOK /\ Left
      BY <1>0, <1>1, <2>15
    <3>1. OpOK'
      <4>1. made \in Ids /\ (Moves => op.target.id \in Ids)
        BY <1>0 DEF TypeOK, StageOK, Project, Ids
      <4> QED
        BY <1>1, <1>11, <2>6, <3>0, <4>1 DEF OpOK, Moves, Early, Leaving
    <3>2. ManagerOK'
      <4>1. manager.at = "put" => manager.target.id \in Ids
        BY <1>0 DEF StageOK, ManagerAsks
      <4> QED
        BY <1>1, <1>2, <1>11, <2>2, <2>6, <3>0, <4>1 DEF ManagerOK, Moves
    <3>3. OwnOK'
      BY <1>1, <1>11, <2>2, <3>0 DEF OwnOK, Own
    <3>4. RevisionOK'
      BY <1>1, <1>8, <2>2, <3>0 DEF RevisionOK, Expects, Unclaimed
    <3>5. Newest(io', project) /\ (~dirty' => Snaps(io') \subseteq {None, project})
      BY <2>2 DEF Newest, Snaps, NoSave
    <3>6. ~dirty' => db'[project.id].ver = project.ver
      BY <1>5, <1>9, <3>0
    <3>7. Clean'
      BY <1>1, <3>5, <3>6 DEF Clean
    <3>8. Left'
      <4>1. CASE op' = op
        BY <1>1, <3>0, <4>1 DEF Left, Moves
      <4>2. CASE op.at = "flush" /\ op'.at \in {"drained", "undrained"}
        BY <1>0, <1>1, <1>2, <2>13, <4>2 DEF Left, Cover
      <4> QED
        BY <2>6, <4>1, <4>2
    <3> QED
      BY <3>1, <3>2, <3>3, <3>4, <3>7, <3>8 DEF Orderly
  <2> QED
    BY <2>9, <2>10, <2>11, <2>12, <2>14, <2>15 DEF IInv
<1> QED
  BY <1>12, <1>13

(* A save that is refused: what it was to store stays with the coordinator,   *)
(* or is being saved again.                                                   *)
LEMMA SaveRefusedStep ==
  ASSUME IInv, SaveRefused
  PROVE  IInv'
<1>0. /\ TypeOK /\ QueueOK /\ StageOK /\ VersionOK /\ Cover /\ BootOK
      /\ AsideOK /\ HistoryOK
      /\ ~crossed => OpOK /\ ManagerOK /\ OwnOK /\ RevisionOK /\ Clean /\ Left
      /\ project \in Project /\ project.id \in Ids
      /\ io \in Coordinator /\ Sound(io) /\ expected \in [Ids -> Int]
  BY Parts
<1> DEFINE s == io.save
           d == Done(io)
           kept == IF io.pending = None THEN s.snap ELSE io.pending
           left == [d EXCEPT !.save = NoSave, !.pending = kept, !.waiters = <<>>]
           ok == IF io.waiters = <<>> THEN {} ELSE {io.waiters[k] : k \in 2 .. Len(io.waiters)}
           failed == {s.owner}
<1>1. /\ UNCHANGED <<plan, project, dirty, native, replacing, importing, uploads, boot, booted,
                     expected, db, clock, made, touched, late, missed, crossed>>
      /\ Turn("auto") /\ Settle(ok, failed)
      /\ IF io.waiters = <<>> THEN io' = left ELSE io' = Drain(left, kept, Head(io.waiters), expected)
  BY DEF SaveRefused, history, ui
<1>2. /\ s # NoSave /\ s.snap \in Project /\ s.expect \in Int /\ s.owner \in Flushers
      /\ booted /\ op.at # "drained" /\ ~Has(d.txs, "auto")
      /\ d \in Coordinator /\ Sound(d)
      /\ d.pending = io.pending /\ d.save = s /\ d.waiters = io.waiters
      /\ \A w \in Asking : Has(d.txs, w) <=> (Has(io.txs, w) /\ w # "auto")
      /\ Before(io.txs, "manager", "op") => Before(d.txs, "manager", "op")
      /\ ~crossed => s.snap.id = project.id /\ (io.pending # None => io.pending.id = project.id)
      /\ io.pending # None => io.pending \in Project
  BY <1>1, SaveIs DEF Quiet
<1>3. /\ kept \in Project /\ kept \in Snaps(io) /\ kept # None /\ (~crossed => kept.id = project.id)
      /\ Covers(io, project) => kept = project
  BY <1>2, NoneIs DEF Snaps, Covers
<1>4. used' \in Spending
      /\ (used'.failures = 0 => used.failures = 0 /\ ~Fits(s.snap, s.expect))
  <2>1. CASE Fits(s.snap, s.expect)
    <3>1. used \in Spending /\ used' = [used EXCEPT !["failures"] = @ + 1]
      BY <1>0, <2>1 DEF SaveRefused, Spend, AsideOK
    <3> QED
      BY <3>1 DEF Spending
  <2>2. CASE ~Fits(s.snap, s.expect)
    BY <1>0, <2>2 DEF SaveRefused, AsideOK
  <2> QED
    BY <2>1, <2>2
<1>5. /\ left \in Coordinator /\ left.save = NoSave /\ left.pending = kept /\ left.waiters = <<>>
      /\ left.txs = d.txs
  <2>1. <<>> \in Seq(Flushers) /\ d.txs \in Seq(Asking)
    BY <1>2 DEF Coordinator
  <2> HIDE DEF kept, s, d
  <2> DEFINE d1 == [d EXCEPT !.save = NoSave]
             d2 == [d1 EXCEPT !.pending = kept]
  <2>2. d1 = [pending |-> d.pending, save |-> NoSave, waiters |-> d.waiters, txs |-> d.txs]
    BY <1>2 DEF Coordinator
  <2>4. left = [d2 EXCEPT !.waiters = <<>>]
    OBVIOUS
  <2> HIDE DEF d1
  <2>3. d2 = [pending |-> kept, save |-> NoSave, waiters |-> d.waiters, txs |-> d.txs]
    BY <2>2
  <2> HIDE DEF d2
  <2>5. left = [pending |-> kept, save |-> NoSave, waiters |-> <<>>, txs |-> d.txs]
    BY <2>3, <2>4
  <2> QED
    BY <1>3, <2>1, <2>5 DEF Coordinator
<1>6. \A who : /\ who \in ok => Has(io.waiters, who)
               /\ who \in failed => s.owner = who
  BY <1>0 DEF Has, Coordinator
<1>7. ("op" \in ok \cup failed => op.at = "flush") /\ ("manager" \in ok \cup failed => manager.at = "flush")
  BY <1>0, <1>6 DEF QueueOK, Awaited
<1>8. op \in Operation /\ manager \in Manager
  BY <1>0 DEF TypeOK
<1>9. \A who \in {"op", "manager"} : Awaited(io, who) =>
        who \in ok \cup failed \/ (io.waiters # <<>> /\ who = Head(io.waiters))
  BY <1>0 DEF Awaited, Has, Coordinator
<1>10. \A who \in {"op", "manager"} : io.waiters # <<>> /\ who = Head(io.waiters) =>
         /\ Awaited(io, who) /\ who \notin ok \cup failed
  <2> SUFFICES ASSUME NEW who \in {"op", "manager"}, io.waiters # <<>>, who = Head(io.waiters)
               PROVE  Awaited(io, who) /\ who \notin ok \cup failed
    OBVIOUS
  <2>1. io.waiters \in Seq(Flushers) /\ Len(io.waiters) \in Nat /\ 1 \in 1 .. Len(io.waiters)
        /\ io.waiters[1] = who
    BY <1>0 DEF Coordinator
  <2>2. Has(io.waiters, who)
    BY <2>1 DEF Has
  <2>3. s.owner # who
    BY <1>0, <2>2 DEF Sound
  <2>4. \A k \in 2 .. Len(io.waiters) : k \in 1 .. Len(io.waiters) /\ k # 1
    BY <2>1
  <2>5. who \notin ok
    BY <1>0, <2>1, <2>4 DEF Sound, Once
  <2> QED
    BY <2>2, <2>3, <2>5 DEF Awaited
<1> HIDE DEF kept, left, ok, failed
<1>11. /\ op' \in Operation /\ op'.kind = op.kind /\ op'.from = op.from /\ op'.target = op.target
       /\ op'.rev = op.rev /\ op'.new = op.new
       /\ op' = op \/ (op.at = "flush" /\ op'.at \in {"drained", "undrained"})
       /\ "op" \in ok \cup failed => op'.at # "flush"
       /\ "op" \notin ok \cup failed => op' = op
       /\ op'.at = "drained" => "op" \in ok
       /\ manager' \in Manager /\ manager'.kind = manager.kind /\ manager'.target = manager.target
       /\ manager' = manager \/ (manager.at = "flush" /\ manager'.at = "drained")
       /\ "manager" \notin ok \cup failed => manager' = manager
  BY <1>1, <1>2, <1>7, <1>8, SettleIs
<1>12. \A who : ~Has(left.waiters, who) /\ Once(left.waiters, who)
  BY <1>5 DEF Has, Once
<1>13. Sound(left) /\ ~Has(left.txs, "auto") /\ ~Awaited(left, "op") /\ ~Awaited(left, "manager")
       /\ Covers(left, kept) /\ (~crossed => Own(left, project.id)) /\ Unclaimed(left)
       /\ Expects(left, expected[kept.id]) /\ Snaps(left) = {None, kept}
  BY <1>2, <1>3, <1>5, <1>12 DEF Sound, Awaited, NoSave, Nobody, Covers, Own, Unclaimed, Expects, Snaps
<1>14. /\ io' \in Coordinator /\ Sound(io')
       /\ \A w \in {"op", "manager", "boot"} : Has(io'.txs, w) <=> Has(d.txs, w)
       /\ Before(d.txs, "manager", "op") => Before(io'.txs, "manager", "op")
       /\ \A w \in {"op", "manager"} : Awaited(io', w) => io.waiters # <<>> /\ w = Head(io.waiters)
       /\ Covers(io', kept) /\ (~crossed => Own(io', project.id)) /\ Unclaimed(io')
       /\ Expects(io', expected[kept.id]) /\ Snaps(io') = {None, kept}
       /\ io'.save.snap = kept => io'.pending = None
       /\ op'.at = "drained" => io'.pending = None
  <2>1. CASE io.waiters = <<>>
    <3>1. io' = left /\ op'.at # "drained"
      BY <1>1, <1>2, <1>11, <2>1 DEF ok
    <3>2. left.save.snap # kept
      BY <1>3, <1>5 DEF NoSave
    <3> QED
      BY <1>5, <1>13, <3>1, <3>2
  <2>2. CASE io.waiters # <<>>
    <3>1. io' = Drain(left, kept, Head(io.waiters), expected) /\ Head(io.waiters) \in Flushers
      BY <1>0, <1>1, <2>2 DEF Coordinator
    <3>2. /\ io' \in Coordinator /\ Sound(io') /\ SameAsked(io', left)
          /\ \A who \in {"op", "manager"} : Awaited(io', who) => who = Head(io.waiters) \/ Awaited(left, who)
          /\ Covers(io', kept) /\ Own(io', kept.id) /\ Unclaimed(io') /\ Expects(io', expected[kept.id])
          /\ io'.pending = None /\ io'.save # NoSave /\ Snaps(io') = {None, kept}
      BY <1>0, <1>3, <1>5, <1>12, <1>13, <3>1, DrainKeeps
    <3> QED
      BY <1>3, <1>5, <1>13, <2>2, <3>2 DEF SameAsked
  <2> QED
    BY <2>1, <2>2
<1>15. AsideOK'
  BY <1>0, <1>1, <1>4 DEF AsideOK, native
<1>16. QueueOK'
  <2>1. Has(io'.txs, "op") => op'.at \in OpAsks
    BY <1>0, <1>2, <1>11, <1>14 DEF QueueOK, Asking, OpAsks
  <2>2. Has(io'.txs, "manager") <=> manager'.at \in ManagerAsks
    BY <1>0, <1>2, <1>11, <1>14 DEF QueueOK, Asking, ManagerAsks
  <2>3. Has(io'.txs, "boot") => boot'.at \in BootAsking
    BY <1>0, <1>1, <1>2, <1>14 DEF QueueOK, Asking
  <2>4. (Awaited(io', "op") => op'.at = "flush") /\ (Awaited(io', "manager") => manager'.at = "flush")
    BY <1>0, <1>10, <1>11, <1>14 DEF QueueOK
  <2> QED
    BY <1>14, <2>1, <2>2, <2>3, <2>4 DEF QueueOK
<1>17. TypeOK' /\ StageOK' /\ VersionOK'
  <2>1. TypeOK'
    BY <1>0, <1>1, <1>11, <1>14, <1>15 DEF TypeOK, HistoryOK
  <2>2. StageOK'
    BY <1>0, <1>1, <1>2, <1>11, <1>14 DEF StageOK, Moves, RunAts, ManagerAsks
  <2>3. VersionOK'
    BY <1>0, <1>1, <1>3, <1>11, <1>14 DEF VersionOK, None, TypeOK
  <2> QED
    BY <2>1, <2>2, <2>3
<1>18. Cover' /\ BootOK'
  BY <1>0, <1>1, <1>2, <1>3, <1>11, <1>14 DEF Cover, BootOK, StageOK
<1>19. ASSUME ~crossed' PROVE Orderly'
  <2>0. ~crossed /\ OpOK /\ ManagerOK /\ Left /\ RevisionOK /\ OwnOK /\ Clean
    BY <1>0, <1>1, <1>19
  <2>1. OpOK'
    BY <1>1, <1>11, <2>0 DEF OpOK, Moves, Early, Leaving
  <2>2. ManagerOK'
    BY <1>1, <1>2, <1>11, <1>14, <2>0 DEF ManagerOK, Moves
  <2>3. OwnOK'
    BY <1>1, <1>14, <2>0 DEF OwnOK
  <2>4. RevisionOK'
    BY <1>1, <1>2, <1>3, <1>14, <2>0 DEF RevisionOK, Known
  <2>5. Clean'
    <3>1. Newest(io', project)
      BY <1>3, <1>14, <2>0, NoneIs, <1>0 DEF Newest, Snaps
    <3>2. ~dirty => kept = project
      BY <1>3, <2>0, NoneIs DEF Clean
    <3> QED
      BY <1>1, <1>14, <2>0, <3>1, <3>2 DEF Clean, Known
  <2>6. Left'
    <3>1. project.id \notin touched => Fits(s.snap, s.expect)
      BY <1>2, <2>0 DEF RevisionOK, Expects, Fits
    <3> QED
      BY <1>1, <1>4, <1>11, <2>0, <3>1 DEF Left, Moves
  <2> QED
    BY <2>1, <2>2, <2>3, <2>4, <2>5, <2>6 DEF Orderly
<1> QED
  BY <1>16, <1>17, <1>18, <1>19 DEF IInv

-----------------------------------------------------------------------------
(* The start-up effect, during which the coordinator has nothing.             *)
LEMMA StartingIs ==
  ASSUME IInv, ~booted
  PROVE  /\ ~Moves /\ manager.kind = "none" /\ manager.at = "idle" /\ ~replacing /\ Drained(io) /\ ~crossed
         /\ Orderly /\ ~Has(io.txs, "manager") /\ ~Has(io.txs, "auto") /\ op.at # "drained" /\ boot.at # "done"
<1>1. /\ QueueOK /\ StageOK /\ (~crossed => Orderly) /\ TypeOK /\ Sound(io)
  BY Parts DEF IInv
<1>2. /\ ~Moves /\ manager.kind = "none" /\ manager.at = "idle" /\ ~replacing /\ Drained(io) /\ ~crossed
      /\ boot.at # "done"
  BY <1>1 DEF StageOK
<1>3. op.at # "drained"
  BY <1>1, <1>2 DEF StageOK, Moves, TypeOK, Operation, RunAts, RuntimeCalls
<1> QED
  BY <1>1, <1>2, <1>3 DEF QueueOK, ManagerAsks, Sound, Drained

LEMMA Starting ==
  ASSUME IInv, ~booted, AsideOK', StageOK', BootOK',
         UNCHANGED <<dirty, replacing, op, manager, booted, clock, made>>, UNCHANGED history,
         boot' \in Boot, boot'.target.ver <= clock,
         io' \in Coordinator, Sound(io'), Drained(io'), ~Has(io'.txs, "manager"),
         Has(io'.txs, "op") => Has(io.txs, "op"),
         Has(io'.txs, "boot") => boot'.at \in BootAsking,
         project' \in Project, project'.id <= made, project'.ver <= clock,
         db' \in Repository, expected' \in Expectations,
         \A i \in Ids : db'[i].ver <= clock /\ (i > made => db'[i].rev = 0),
         boot'.at = "opened" =>
           /\ expected'[project'.id] = db'[project'.id].rev
           /\ ~dirty /\ project'.id \notin touched => db'[project'.id].ver = project'.ver
  PROVE  IInv'
<1>0. /\ TypeOK /\ QueueOK /\ StageOK /\ VersionOK /\ HistoryOK
      /\ ~Moves /\ manager.kind = "none" /\ manager.at = "idle" /\ ~replacing /\ Drained(io) /\ ~crossed
      /\ clock \in Nat
  BY Parts, StartingIs DEF TypeOK
<1>1. io'.save = NoSave /\ io'.pending = None /\ io'.waiters = <<>> /\ Snaps(io') = {None}
      /\ NoSave.snap = None /\ NoSave.owner = Nobody
  BY DEF Drained, Sound, Snaps, NoSave
<1>2. \A who \in {"op", "manager"} : ~Awaited(io', who)
  <2>1. \A who : ~Has(<<>>, who)
    BY DEF Has
  <2> QED
    BY <1>1, <2>1 DEF Awaited, Nobody
<1>3. TypeOK'
  BY <1>0 DEF TypeOK, HistoryOK, history
<1>4. QueueOK'
  BY <1>0, <1>2 DEF QueueOK, ManagerAsks
<1>5. VersionOK'
  BY <1>0, <1>1 DEF VersionOK, None
<1>6. Cover'
  BY DEF Cover
<1>7. OpOK' /\ ManagerOK' /\ Left'
  BY <1>0 DEF OpOK, ManagerOK, Left, Moves
<1>8. OwnOK'
  BY <1>1 DEF OwnOK, Own
<1>9. RevisionOK'
  BY <1>1 DEF RevisionOK, Known, Unclaimed, Expects, history
<1>10. Clean'
  <2>1. project' # None
    BY NoneIs
  <2> QED
    BY <1>1, <2>1 DEF Clean, Newest, Known, history
<1> QED
  BY <1>3, <1>4, <1>5, <1>6, <1>7, <1>8, <1>9, <1>10 DEF IInv, Orderly

(* The coordinator when the start-up effect has its answer, and asks again.   *)
LEMMA BootDoneIs ==
  ASSUME IInv, ~booted, Turn("boot")
  PROVE  LET d == Done(io)
         IN  /\ d \in Coordinator /\ Sound(d) /\ Drained(d) /\ ~Has(d.txs, "manager") /\ ~Has(d.txs, "boot")
             /\ Has(d.txs, "op") => Has(io.txs, "op")
<1>1. "boot" \in Asking /\ "op" \in Asking /\ "manager" \in Asking
  BY DEF Asking
<1>2. Drained(io) /\ ~Has(io.txs, "manager")
  BY StartingIs
<1> QED
  BY <1>1, <1>2, TurnIs DEF Drained

LEMMA BootAskIs ==
  ASSUME NEW i \in Coordinator, Sound(i), Drained(i), ~Has(i.txs, "manager"), ~Has(i.txs, "boot")
  PROVE  LET j == Ask(i, "boot")
         IN  /\ j \in Coordinator /\ Sound(j) /\ Drained(j) /\ ~Has(j.txs, "manager")
             /\ Has(j.txs, "op") => Has(i.txs, "op")
<1>1. "boot" \in Asking /\ "op" \in Asking /\ "manager" \in Asking
  BY DEF Asking
<1> QED
  BY <1>1, AskKeeps DEF Drained

LEMMA BootOpenedStep ==
  ASSUME IInv, BootOpened
  PROVE  IInv'
<1>0. /\ TypeOK /\ StageOK /\ VersionOK /\ AsideOK /\ HistoryOK
      /\ project \in Project /\ boot \in Boot /\ boot.target \in Ref /\ clock \in Nat
      /\ boot.at = "open" /\ ~booted /\ db[project.id].rev = 0
      /\ expected \in Expectations /\ db \in Repository /\ dirty \in BOOLEAN
  BY Parts DEF BootOpened, TypeOK, StageOK, BootOK, Boot
<1>1. /\ UNCHANGED <<plan, project, dirty, native, replacing, op, manager, importing, uploads, booted, expected,
                     db, clock, made, used>> /\ UNCHANGED history
      /\ io' = Ask(io, "boot")
  BY DEF BootOpened, ui
<1>2. \/ boot' = [boot EXCEPT !.at = "last"]
      \/ dirty /\ boot' = [Seen EXCEPT !.at = "active"]
      \/ boot' = [boot EXCEPT !.at = "recent"]
  BY DEF BootOpened
<1>3. /\ Orderly /\ Drained(io)
      /\ io' \in Coordinator /\ Sound(io') /\ Drained(io') /\ ~Has(io'.txs, "manager")
      /\ Has(io'.txs, "op") => Has(io.txs, "op")
  <2>1. Orderly /\ boot.at \notin BootAsking
    BY <1>0, StartingIs DEF BootAsking
  <2>2. Drained(io)
    BY <1>0, StartingIs
  <2>3. LET j == Ask(io, "boot")
        IN  /\ j \in Coordinator /\ Sound(j) /\ Drained(j) /\ ~Has(j.txs, "manager")
            /\ Has(j.txs, "op") => Has(io.txs, "op")
    <3>1. io \in Coordinator /\ Sound(io) /\ ~Has(io.txs, "manager") /\ ~Has(io.txs, "boot")
      BY <1>0, <2>1, Parts, StartingIs DEF QueueOK
    <3> QED
      BY <2>2, <3>1, BootAskIs
  <2>4. io' = Ask(io, "boot")
    BY <1>1
  <2> QED
    BY <2>1, <2>2, <2>3, <2>4
<1>4. /\ boot' \in Boot /\ boot'.at \in {"last", "recent", "active"}
      /\ boot'.at = "active" => boot'.target = project /\ dirty
      /\ boot'.target.ver <= clock
  <2>1. project \in Ref
    BY <1>0 DEF Project, Ref, Ids
  <2> QED
    BY <1>0, <1>2, <2>1 DEF Boot, Seen, VersionOK, BootAsking
<1>5. AsideOK' /\ StageOK' /\ BootOK'
  <2>1. AsideOK'
    BY <1>0, <1>1 DEF AsideOK, native
  <2>2. StageOK'
    BY <1>0, <1>1, <1>3, <1>4 DEF StageOK, Moves, history, Drained
  <2>3. BootOK'
    BY <1>0, <1>1, <1>4 DEF BootOK
  <2> QED
    BY <2>1, <2>2, <2>3
<1>6. \A i \in Ids : db[i].ver <= clock /\ (i > made => db[i].rev = 0)
  BY <1>0, <1>3 DEF VersionOK, OwnOK, Orderly
<1>7. project.id <= made /\ project.ver <= clock
  BY <1>0, <1>3 DEF Orderly, OwnOK, VersionOK
<1> QED
  BY <1>0, <1>1, <1>3, <1>4, <1>5, <1>6, <1>7, Starting DEF BootAsking

(* A stored project is restored, or the demo stays.                           *)
LEMMA BootReadStep ==
  ASSUME IInv, BootLast \/ BootRecent \/ BootFallback
  PROVE  IInv'
<1>0. /\ TypeOK /\ StageOK /\ VersionOK /\ AsideOK /\ HistoryOK
      /\ project \in Project /\ boot \in Boot /\ boot.target \in Ref /\ clock \in Nat
      /\ boot.at \in {"last", "recent", "fallback"} /\ ~booted /\ db[project.id].rev = 0
      /\ expected \in Expectations /\ db \in Repository /\ dirty \in BOOLEAN
  BY Parts DEF BootLast, BootRecent, BootFallback, TypeOK, StageOK, BootOK, Boot
<1>1. /\ UNCHANGED <<plan, dirty, native, replacing, op, manager, importing, uploads, booted, expected,
                     db, clock, made, used>> /\ UNCHANGED history
      /\ io' = Ask(Done(io), "boot") /\ Turn("boot")
  BY DEF BootLast, BootRecent, BootFallback, ui
<1>2. \/ ~dirty /\ \E i \in Stored : Restore(New(i, db[i].ver))
      \/ boot' = [boot EXCEPT !.at = "recent"] /\ project' = project
      \/ /\ \E i \in Stored : boot' = [boot EXCEPT !.at = "fallback", !.last = i]
         /\ project' = project
      \/ boot' = [Seen EXCEPT !.at = "active"] /\ project' = project
  BY DEF BootLast, BootRecent, BootFallback, ui
<1>3. /\ Orderly /\ Drained(io)
      /\ io' \in Coordinator /\ Sound(io') /\ Drained(io') /\ ~Has(io'.txs, "manager")
      /\ Has(io'.txs, "op") => Has(io.txs, "op")
  BY <1>0, <1>1, StartingIs, BootDoneIs, BootAskIs
<1>4. \A i \in Ids : db[i].ver <= clock /\ (i > made => db[i].rev = 0)
  BY <1>0, <1>3 DEF VersionOK, OwnOK, Orderly
<1>5. project.id <= made /\ project.ver <= clock /\ project \in Ref
  BY <1>0, <1>3 DEF Orderly, OwnOK, VersionOK, Project, Ref, Ids
<1>6. /\ project' \in Project /\ project'.id <= made /\ project'.ver <= clock
      /\ boot' \in Boot /\ boot'.at \in {"recent", "fallback", "active"} /\ boot'.target.ver <= clock
      /\ boot'.at # "active" => project' = project
      /\ boot'.at = "active" =>
           /\ boot'.target = project' /\ (~dirty => ~boot'.dirty)
           /\ ~dirty /\ db[project'.id].rev > 0 => db[project'.id].ver = project'.ver
  <2>1. CASE ~dirty /\ \E i \in Stored : Restore(New(i, db[i].ver))
    <3>1. PICK i \in Stored : Restore(New(i, db[i].ver))
      BY <2>1
    <3> DEFINE p == New(i, db[i].ver)
    <3>2. i \in Ids /\ db[i].rev > 0 /\ db[i].ver \in Nat /\ db[i].ver <= clock
      BY <1>0, <1>4 DEF Stored, Repository
    <3>3. p \in Project /\ p.id = i /\ p.ver = db[i].ver /\ p \in Ref
      BY <3>2 DEF New, Project, Ref, Ids
    <3>4. p.id <= made
      BY <1>0, <1>4, <3>2, <3>3 DEF Ids, TypeOK
    <3>5. project' = p /\ boot' = [boot EXCEPT !.target = p, !.dirty = FALSE, !.at = "active"]
      BY <3>1 DEF Restore
    <3> HIDE DEF p
    <3>6. boot' \in Boot /\ boot'.target = p /\ ~boot'.dirty /\ boot'.at = "active"
      BY <1>0, <3>3, <3>5 DEF Boot, BootAsking
    <3> QED
      BY <3>2, <3>3, <3>4, <3>5, <3>6
  <2>2. CASE boot' = [boot EXCEPT !.at = "recent"] /\ project' = project
    BY <1>0, <1>5, <2>2 DEF Boot, BootAsking, VersionOK
  <2>4. CASE /\ \E i \in Stored : boot' = [boot EXCEPT !.at = "fallback", !.last = i]
             /\ project' = project
    <3>1. PICK i \in Stored : boot' = [boot EXCEPT !.at = "fallback", !.last = i]
      BY <2>4
    <3>2. i \in 0 .. MaxProjects
      BY <3>1 DEF Stored, Ids
    <3> QED
      BY <1>0, <1>5, <2>4, <3>1, <3>2 DEF Boot, BootAsking, VersionOK
  <2>3. CASE boot' = [Seen EXCEPT !.at = "active"] /\ project' = project
    <3>1. ~(db[project.id].rev > 0)
      BY <1>0
    <3>2. boot' \in Boot /\ boot'.at = "active" /\ boot'.target = project /\ boot'.dirty = dirty
      BY <1>0, <1>5, <2>3 DEF Boot, BootAsking, Seen
    <3> QED
      BY <1>0, <1>5, <2>3, <3>1, <3>2
  <2> QED
    BY <1>2, <2>1, <2>2, <2>3, <2>4
<1>7. AsideOK' /\ StageOK' /\ BootOK'
  <2>1. AsideOK'
    BY <1>0, <1>1 DEF AsideOK, native
  <2>2. StageOK'
    BY <1>0, <1>1, <1>3, <1>6 DEF StageOK, Moves, history, Drained
  <2>3. BootOK'
    BY <1>0, <1>1, <1>6 DEF BootOK
  <2> QED
    BY <2>1, <2>2, <2>3
<1> QED
  BY <1>0, <1>1, <1>3, <1>4, <1>6, <1>7, Starting DEF BootAsking

(* The revision of the open project is learnt.                                *)
LEMMA SeedIs ==
  ASSUME IInv, ~booted, Turn("boot"), boot.at \in {"active", "store"}, NEW r \in Nat, Seed(r)
  PROVE  /\ boot' = [boot EXCEPT !.at = "opened"]
         /\ io' = Ask(Done(io), "boot")
         /\ expected' = [expected EXCEPT ![project.id] = r] /\ expected' \in Expectations
         /\ boot.target.id = project.id /\ boot.target \in Project
<1>1. TypeOK /\ BootOK /\ project \in Project /\ boot.target \in Ref /\ expected \in [Ids -> Int]
  BY Parts DEF TypeOK, Boot
<1>2. boot.target.id = project.id /\ boot.target \in Project
  BY <1>1 DEF BootOK, Project, Ref
<1> DEFINE i == Ask(Done(io), "boot")
<1>3. i \in Coordinator /\ Sound(i) /\ Drained(i)
  BY BootDoneIs, BootAskIs
<1>4. boot' = [boot EXCEPT !.at = "opened"] /\ Expect(i, boot.target, r)
  BY DEF Seed
<1> HIDE DEF i
<1>5. io' = i /\ expected' = [expected EXCEPT ![boot.target.id] = r]
  BY <1>2, <1>3, <1>4, ExpectKeeps
<1> QED
  <2>1. expected' = [expected EXCEPT ![project.id] = r]
    BY <1>2, <1>5
  <2>2. expected' \in Expectations
    <3>1. expected \in [Ids -> Int] /\ r \in Int
      BY <1>1
    <3> QED
      BY <2>1, <3>1 DEF Expectations
  <2>3. io' = Ask(Done(io), "boot")
    BY <1>5 DEF i
  <2> QED
    BY <1>2, <1>4, <2>1, <2>2, <2>3

LEMMA BootActiveStep ==
  ASSUME IInv, BootActive
  PROVE  IInv'
<1>0. /\ TypeOK /\ StageOK /\ VersionOK /\ BootOK /\ AsideOK /\ HistoryOK
      /\ project \in Project /\ project.id \in Ids /\ boot \in Boot /\ clock \in Nat
      /\ boot.at = "active" /\ ~booted /\ boot.target.ver <= clock
      /\ boot.target.id = project.id /\ (~dirty => boot.target = project /\ ~boot.dirty)
      /\ expected \in Expectations /\ db \in Repository /\ db[project.id].rev \in Nat
  BY Parts DEF BootActive, TypeOK, StageOK, BootOK, VersionOK, Repository
<1>1. /\ UNCHANGED <<plan, project, dirty, native, replacing, op, manager, importing, uploads, booted,
                     db, clock, made, used>> /\ UNCHANGED history
      /\ Turn("boot")
  BY DEF BootActive, ui
<1>2. \/ boot' = [boot EXCEPT !.at = "store"] /\ io' = Ask(Done(io), "boot") /\ expected' = expected
      \/ /\ boot' = [boot EXCEPT !.at = "opened"] /\ io' = Ask(Done(io), "boot")
         /\ expected' \in Expectations /\ expected'[project.id] = db[project.id].rev
         /\ db[project.id].rev > 0 \/ dirty
  <2>1. CASE boot.target.id \notin Stored /\ ~boot.dirty
    BY <2>1 DEF BootActive, BootAsks
  <2>2. CASE ~(boot.target.id \notin Stored /\ ~boot.dirty)
    <3>1. Seed(db[project.id].rev)
      BY <1>0, <2>2 DEF BootActive
    <3>2. db[project.id].rev > 0 \/ dirty
      BY <1>0, <2>2 DEF Stored
    <3> QED
      BY <1>0, <1>1, <3>1, <3>2, SeedIs DEF Expectations
  <2> QED
    BY <2>1, <2>2
<1>3. /\ Orderly /\ Drained(io)
      /\ io' \in Coordinator /\ Sound(io') /\ Drained(io') /\ ~Has(io'.txs, "manager")
      /\ Has(io'.txs, "op") => Has(io.txs, "op")
  BY <1>0, <1>1, <1>2, StartingIs, BootDoneIs, BootAskIs
<1>4. \A i \in Ids : db[i].ver <= clock /\ (i > made => db[i].rev = 0)
  BY <1>0, <1>3 DEF VersionOK, OwnOK, Orderly
<1>5. project.id <= made /\ project.ver <= clock
  BY <1>0, <1>3 DEF Orderly, OwnOK, VersionOK
<1>6. /\ boot' \in Boot /\ boot'.at \in {"store", "opened"} /\ boot'.target = boot.target
      /\ boot'.dirty = boot.dirty
  BY <1>0, <1>2 DEF Boot, BootAsking
<1>7. ~dirty /\ project.id \notin touched /\ db[project.id].rev > 0 => db[project.id].ver = project.ver
  BY <1>0 DEF BootOK
<1>8. AsideOK' /\ StageOK' /\ BootOK'
  <2>1. AsideOK'
    BY <1>0, <1>1 DEF AsideOK, native
  <2>2. StageOK'
    BY <1>0, <1>1, <1>3, <1>6 DEF StageOK, Moves, history, Drained
  <2>3. BootOK'
    BY <1>0, <1>1, <1>6, <1>7 DEF BootOK, history
  <2> QED
    BY <2>1, <2>2, <2>3
<1>9. boot'.at = "opened" =>
        /\ expected'[project'.id] = db'[project'.id].rev
        /\ ~dirty /\ project'.id \notin touched => db'[project'.id].ver = project'.ver
  BY <1>0, <1>1, <1>2, <1>6, <1>7 DEF Boot
<1>10. expected' \in Expectations
  BY <1>0, <1>2
<1> QED
  BY <1>0, <1>1, <1>3, <1>4, <1>5, <1>6, <1>8, <1>9, <1>10, Starting DEF BootAsking

LEMMA BootStoredStep ==
  ASSUME IInv, BootStored
  PROVE  IInv'
<1>0. /\ TypeOK /\ StageOK /\ VersionOK /\ BootOK /\ AsideOK /\ HistoryOK
      /\ project \in Project /\ project.id \in Ids /\ boot \in Boot /\ clock \in Nat
      /\ boot.at = "store" /\ ~booted /\ boot.target.ver <= clock
      /\ boot.target.id = project.id /\ (~dirty => boot.target = project /\ ~boot.dirty)
      /\ boot.target \in Project
      /\ expected \in Expectations /\ db \in Repository /\ db[project.id].rev \in Nat
  BY Parts DEF BootStored, TypeOK, StageOK, BootOK, VersionOK, Repository, Boot, Ref, Project
<1>1. /\ UNCHANGED <<plan, project, dirty, native, replacing, op, manager, importing, uploads, booted,
                     clock, made>> /\ UNCHANGED history
      /\ Turn("boot")
  BY DEF BootStored, ui
<1>2. \/ /\ db' = Put(boot.target) /\ db[project.id].rev = 0 /\ used' = used
         /\ boot' = [boot EXCEPT !.at = "opened"] /\ io' = Ask(Done(io), "boot")
         /\ expected' \in Expectations /\ expected'[project.id] = 1
      \/ /\ db' = db /\ expected' = expected /\ used' \in Spending
         /\ boot' = [boot EXCEPT !.at = "failed"] /\ io' = Done(io)
  <2>1. CASE Fits(boot.target, 0) /\ db' = Put(boot.target) /\ Seed(1) /\ UNCHANGED used
    <3>1. db[project.id].rev = 0
      BY <1>0, <2>1 DEF Fits, LastWriterWins
    <3> QED
      BY <1>0, <1>1, <2>1, <3>1, SeedIs DEF Expectations
  <2>2. CASE /\ IF Fits(boot.target, 0) THEN Spend("failures") ELSE UNCHANGED used
             /\ boot' = [boot EXCEPT !.at = "failed"] /\ io' = Done(io) /\ UNCHANGED <<db, expected>>
    <3>1. used' \in Spending
      BY <1>0, <2>2, SpendKeeps DEF AsideOK
    <3> QED
      BY <2>2, <3>1
  <2> QED
    BY <2>1, <2>2 DEF BootStored
<1>3. /\ Orderly /\ Drained(io)
      /\ io' \in Coordinator /\ Sound(io') /\ Drained(io') /\ ~Has(io'.txs, "manager")
      /\ Has(io'.txs, "op") => Has(io.txs, "op")
      /\ Has(io'.txs, "boot") => boot'.at # "failed"
  <2>1. boot'.at = "failed" => io' = Done(io)
    BY <1>0, <1>2 DEF Boot
  <2> QED
    BY <1>0, <1>1, <1>2, <2>1, StartingIs, BootDoneIs, BootAskIs
<1>4. \A i \in Ids : db[i].ver <= clock /\ (i > made => db[i].rev = 0)
  BY <1>0, <1>3 DEF VersionOK, OwnOK, Orderly
<1>5. project.id <= made /\ project.ver <= clock
  BY <1>0, <1>3 DEF Orderly, OwnOK, VersionOK
<1>6. /\ boot' \in Boot /\ boot'.at \in {"failed", "opened"} /\ boot'.target = boot.target
      /\ boot'.dirty = boot.dirty
  BY <1>0, <1>2 DEF Boot, BootAsking
<1>7. /\ db' \in Repository /\ expected' \in Expectations /\ used' \in Spending
      /\ \A i \in Ids : db'[i].ver <= clock /\ (i > made => db'[i].rev = 0) /\ (db'[i].rev = 0 => db'[i].ver = 0)
      /\ boot'.at = "opened" => /\ expected'[project.id] = db'[project.id].rev
                                /\ db'[project.id].ver = boot.target.ver
  <2>1. CASE db' = Put(boot.target) /\ db[project.id].rev = 0 /\ used' = used /\ expected' \in Expectations
             /\ expected'[project.id] = 1
    <3>1. /\ db' \in Repository /\ db'[project.id].rev = 1 /\ db'[project.id].ver = boot.target.ver
          /\ \A i \in Ids \ {project.id} : db'[i] = db[i]
      BY <1>0, <2>1, PutIs
    <3>2. project.id \in Nat /\ made \in Nat
      BY <1>0 DEF TypeOK, Ids
    <3> QED
      BY <1>0, <1>4, <1>5, <2>1, <3>1, <3>2 DEF AsideOK, StageOK
  <2>2. CASE db' = db /\ expected' = expected /\ used' \in Spending /\ boot'.at = "failed"
    BY <1>0, <1>4, <2>2 DEF StageOK
  <2> QED
    BY <1>0, <1>2, <2>1, <2>2 DEF Boot
<1>8. AsideOK' /\ StageOK' /\ BootOK'
  <2>1. AsideOK'
    BY <1>0, <1>1, <1>7 DEF AsideOK, native
  <2>2. StageOK'
    BY <1>0, <1>1, <1>3, <1>6, <1>7 DEF StageOK, Moves, history, Drained
  <2>3. BootOK'
    BY <1>0, <1>1, <1>6, <1>7 DEF BootOK, history
  <2> QED
    BY <2>1, <2>2, <2>3
<1>9. boot'.at = "opened" =>
        /\ expected'[project'.id] = db'[project'.id].rev
        /\ ~dirty /\ project'.id \notin touched => db'[project'.id].ver = project'.ver
  BY <1>0, <1>1, <1>7
<1>10. \A i \in Ids : db'[i].ver <= clock /\ (i > made => db'[i].rev = 0)
  BY <1>7
<1>11. Has(io'.txs, "boot") => boot'.at \in BootAsking
  BY <1>3, <1>6 DEF BootAsking
<1> QED
  BY <1>0, <1>1, <1>3, <1>5, <1>6, <1>7, <1>8, <1>9, <1>10, <1>11, Starting

(* The workspace is open: what was edited meanwhile is handed over.           *)
LEMMA BootDoneStep ==
  ASSUME IInv, BootDone
  PROVE  IInv'
<1>0. /\ TypeOK /\ StageOK /\ VersionOK /\ BootOK /\ AsideOK /\ HistoryOK /\ QueueOK
      /\ project \in Project /\ project.id \in Ids /\ boot \in Boot /\ clock \in Nat
      /\ boot.at = "opened" /\ ~booted
      /\ expected \in [Ids -> Int]
      /\ ~Moves /\ manager.kind = "none" /\ manager.at = "idle" /\ ~replacing /\ Drained(io) /\ ~crossed
      /\ Orderly
  BY Parts, StartingIs DEF BootDone, TypeOK, StageOK
<1> DEFINE d == Done(io)
<1>1. /\ UNCHANGED <<plan, project, dirty, native, replacing, op, manager, importing, uploads, expected,
                     db, clock, made, used>> /\ UNCHANGED history
      /\ Turn("boot") /\ booted' = TRUE /\ boot' = [boot EXCEPT !.at = "done"]
      /\ io' = IF dirty THEN Schedule(d, project) ELSE d
  BY DEF BootDone, ui
<1>2. /\ d \in Coordinator /\ Sound(d) /\ Drained(d) /\ ~Has(d.txs, "manager") /\ ~Has(d.txs, "boot")
      /\ Has(d.txs, "op") => Has(io.txs, "op")
  BY <1>0, <1>1, BootDoneIs
<1> HIDE DEF d
<1>3. /\ \A who : ~Awaited(d, who) \/ who = Nobody
      /\ Snaps(d) = {None} /\ Own(d, project.id) /\ Unclaimed(d) /\ Expects(d, expected[project.id])
      /\ d.save.snap = None
  <2>1. d.save = NoSave /\ d.pending = None /\ d.waiters = <<>>
    BY <1>2 DEF Drained, Sound
  <2> QED
    BY <2>1 DEF Awaited, Has, NoSave, Snaps, Own, Unclaimed, Expects
<1>4. /\ io' \in Coordinator /\ Sound(io')
      /\ ~Has(io'.txs, "manager") /\ ~Has(io'.txs, "boot") /\ (Has(io'.txs, "op") => Has(io.txs, "op"))
      /\ \A w \in {"op", "manager"} : ~Awaited(io', w)
      /\ dirty => Covers(io', project)
      /\ Own(io', project.id) /\ Unclaimed(io') /\ Expects(io', expected[project.id])
      /\ Snaps(io') \subseteq {None, project} /\ Newest(io', project)
      /\ ~dirty => Snaps(io') = {None}
  <2>1. CASE dirty
    <3>1. io' = Schedule(d, project)
      BY <1>1, <2>1
    <3> QED
      BY <1>0, <1>2, <1>3, <2>1, <3>1, ScheduleKeeps DEF SameAsked, Nobody
  <2>2. CASE ~dirty
    <3>1. io' = d
      BY <1>1, <2>2
    <3>2. project # None
      BY <1>0, NoneIs
    <3> QED
      BY <1>2, <1>3, <2>2, <3>1, <3>2 DEF Newest, Nobody
  <2> QED
    BY <2>1, <2>2
<1>5. boot' \in Boot /\ boot'.at = "done" /\ boot'.target = boot.target
  BY <1>0, <1>1 DEF Boot
<1>6. TypeOK'
  BY <1>0, <1>1, <1>4, <1>5 DEF TypeOK, AsideOK, HistoryOK, native, history
<1>7. QueueOK'
  BY <1>0, <1>1, <1>4 DEF QueueOK, ManagerAsks
<1>8. StageOK'
  <2>1. op.at # "drained"
    BY <1>0, StartingIs
  <2> QED
    BY <1>0, <1>1, <1>5, <2>1 DEF StageOK, Moves, ManagerAsks
<1>9. VersionOK'
  BY <1>0, <1>1, <1>4, <1>5 DEF VersionOK, None
<1>10. Cover' /\ BootOK'
  BY <1>1, <1>4, <1>5 DEF Cover, BootOK
<1>11. Orderly'
  <2>1. OpOK' /\ ManagerOK' /\ Left'
    BY <1>0, <1>1 DEF OpOK, ManagerOK, Left, Moves
  <2>2. OwnOK'
    BY <1>0, <1>1, <1>4 DEF Orderly, OwnOK
  <2>3. RevisionOK'
    BY <1>0, <1>1, <1>4 DEF Orderly, RevisionOK, Known, history
  <2>4. Clean'
    BY <1>0, <1>1, <1>4 DEF Orderly, Clean, Known, history
  <2> QED
    BY <2>1, <2>2, <2>3, <2>4 DEF Orderly
<1> QED
  BY <1>6, <1>7, <1>8, <1>9, <1>10, <1>11 DEF IInv

-----------------------------------------------------------------------------
(* A transition begins.                                                       *)
LEMMA BeginStep ==
  ASSUME IInv, NEW kind \in Transitions, NEW at \in Early, NEW i \in 0 .. MaxProjects, Begin(kind, at, i),
         importing' \in BOOLEAN, ~crossed => i <= made',
         manager.kind # "none" => kind = "import",
         kind = "import" => i \in Ids /\ at = "get",
         kind = "open" => at # "list" /\ i # project.id,
         kind = "delete" => at = "list"
  PROVE  IInv'
<1>0. /\ TypeOK /\ QueueOK /\ StageOK /\ VersionOK /\ AsideOK
      /\ ~crossed => OpOK /\ ManagerOK /\ OwnOK /\ Left
      /\ io \in Coordinator /\ Sound(io) /\ project \in Project /\ project.id \in Ids
      /\ clock \in Nat /\ made \in 2 .. MaxProjects /\ MaxProjects \in Nat
  BY Parts, WorkspaceAssumption DEF TypeOK
<1>1. /\ UNCHANGED <<plan, project, dirty, native, manager, uploads, boot, booted, expected, db, used>>
      /\ UNCHANGED history /\ replacing' = TRUE
      /\ op' = [NoOp EXCEPT !.kind = kind, !.at = at, !.from = i, !.target = New(made', clock')]
      /\ io' = (IF at = "begin" THEN io ELSE Ask(io, "op"))
      /\ booted /\ op.kind = "none" /\ op.at # "drained"
  BY DEF Begin, ui, Busy, Quiet
<1>2. \/ kind = "open" /\ clock' = clock /\ made' = made
      \/ made' = made + 1 /\ clock' = clock + 1 /\ made < MaxProjects
  BY DEF Begin
<1>3. made' \in 2 .. MaxProjects /\ made <= made' /\ clock' \in Nat /\ clock <= clock' /\ made' \in Ids
  BY <1>0, <1>2 DEF Ids
<1>4. /\ op' \in Operation /\ op'.kind = kind /\ op'.at = at /\ op'.from = i /\ ~op'.new
      /\ op'.target = New(made', clock') /\ op'.target \in Project /\ op'.target.id = made'
      /\ op'.target.ver = clock'
  <2>1. New(made', clock') \in Project /\ New(made', clock') \in Ref
        /\ New(made', clock').id = made' /\ New(made', clock').ver = clock'
    BY <1>0, <1>3 DEF New, Project, Ref, Ids
  <2>2. op' = [kind |-> kind, at |-> at, from |-> i, target |-> New(made', clock'), rev |-> 0, new |-> FALSE]
    BY <1>1 DEF NoOp
  <2> QED
    BY <1>0, <2>1, <2>2 DEF Operation
<1>5. op.at = "idle" /\ ~Moves /\ ~Has(io.txs, "op") /\ ~Awaited(io, "op") /\ Moves'
  BY <1>0, <1>1, <1>4 DEF StageOK, QueueOK, Moves, OpAsks, Transitions
<1>6. CASE at = "begin"
  <2>1. io' = io
    BY <1>1, <1>6
  <2>2. Kept(io, io')
    BY <1>0, <2>1, SelfKept
  <2>3. QueueOK'
    BY <1>0, <1>1, <1>5, <2>1 DEF QueueOK
  <2>4. manager.at \in {"get", "erase"} => op'.at = "get"
    BY <1>0, <1>6 DEF StageOK, ManagerAsks
  <2> QED
    <3>1. AsideOK'
      BY <1>0, <1>1 DEF AsideOK, native
    <3>2. StageOK'
      BY <1>0, <1>1, <1>3, <1>4, <1>5, <2>1 DEF StageOK, Moves, Transitions, RunAts, Early, history
    <3>3. ~crossed => OpOK' /\ ManagerOK' /\ Left'
      <4>1. ASSUME ~crossed PROVE OpOK'
        BY <1>0, <1>1, <1>2, <1>3, <1>4, <4>1 DEF OpOK, OwnOK, Early, Leaving, Ids
      <4>2. ASSUME ~crossed PROVE ManagerOK'
        BY <1>0, <1>1, <1>6, <4>2, <2>4 DEF ManagerOK, history, StageOK, ManagerAsks, Moves
      <4>3. Left'
        BY <1>4 DEF Left, Early
      <4> QED
        BY <4>1, <4>2, <4>3
    <3>4. manager' \in Manager /\ manager'.target.ver <= clock'
      BY <1>0, <1>1, <1>3 DEF TypeOK, Manager, Ref, VersionOK
    <3> QED
      BY <1>1, <1>3, <1>4, <2>2, <2>3, <3>1, <3>2, <3>3, <3>4, SameProject
<1>7. CASE at # "begin"
  <2>1. io' = Ask(io, "op") /\ at \in OpAsks
    BY <1>1, <1>7 DEF Early, OpAsks
  <2>2. /\ io' \in Coordinator /\ Sound(io')
        /\ io'.pending = io.pending /\ io'.save = io.save /\ io'.waiters = io.waiters
        /\ \A w \in Asking : Has(io'.txs, w) <=> (w = "op" \/ Has(io.txs, w))
        /\ Has(io.txs, "manager") => Before(io'.txs, "manager", "op")
        /\ Kept(io, io')
    BY <1>0, <1>5, <2>1, AskKeeps, AskKept
  <2>3. QueueOK'
    BY <1>0, <1>1, <1>4, <1>5, <2>1, <2>2 DEF QueueOK, Asking, Awaited
  <2> QED
    <3>1. AsideOK'
      BY <1>0, <1>1 DEF AsideOK, native
    <3>2. StageOK'
      BY <1>0, <1>1, <1>3, <1>4, <1>5, <2>2 DEF StageOK, Moves, Transitions, RunAts, Early, history, Drained
    <3>3. ~crossed => OpOK' /\ ManagerOK' /\ Left'
      <4>1. ASSUME ~crossed PROVE OpOK'
        BY <1>0, <1>1, <1>2, <1>3, <1>4, <4>1 DEF OpOK, OwnOK, Early, Leaving, Ids
      <4>2. ASSUME ~crossed PROVE ManagerOK'
        <5>1. manager.at \in {"get", "erase"} => at = "get" /\ Before(io'.txs, "manager", "op")
          BY <1>0, <2>2 DEF StageOK, QueueOK, ManagerAsks
        <5> QED
          BY <1>0, <1>1, <1>4, <4>2, <5>1 DEF ManagerOK, history
      <4>3. Left'
        BY <1>4 DEF Left, Early
      <4> QED
        BY <4>1, <4>2, <4>3
    <3>4. manager' \in Manager /\ manager'.target.ver <= clock'
      BY <1>0, <1>1, <1>3 DEF TypeOK, Manager, Ref, VersionOK
    <3> QED
      BY <1>1, <1>3, <1>4, <2>2, <2>3, <3>1, <3>2, <3>3, <3>4, SameProject
<1> QED
  BY <1>6, <1>7

LEMMA BeginSteps ==
  ASSUME IInv,
         Delete \/ Create \/ \E i \in Ids : Open(i) \/ Duplicate(i) \/ ImportRead(i)
  PROVE  IInv'
<1>0. /\ project.id \in Ids /\ importing \in BOOLEAN /\ made \in 2 .. MaxProjects /\ MaxProjects \in Nat
      /\ Free => manager.kind = "none"
  BY Parts, WorkspaceAssumption DEF TypeOK, AsideOK
<1>1. \A kind, at, i : Begin(kind, at, i) => made' = made \/ (kind # "open" /\ made' = made + 1)
  BY DEF Begin
<1>2. \A kind, at, i : Begin(kind, at, i) /\ kind # "open" => made' = made + 1
  BY DEF Begin
<1>3. CASE Delete
  <2>1. Begin("delete", "list", project.id) /\ importing' = importing /\ manager.kind = "none"
    BY <1>0, <1>3 DEF Delete
  <2>2. ~crossed => project.id <= made
    BY Parts DEF OwnOK
  <2>3. ~crossed => project.id <= made'
    BY <1>0, <1>1, <2>1, <2>2 DEF Ids
  <2> QED
    BY <1>0, <2>1, <2>3, BeginStep DEF Transitions, Early, Ids
<1>4. CASE Create
  <2>1. Begin("create", "begin", 0) /\ importing' = importing /\ manager.kind = "none"
    BY <1>0, <1>4 DEF Create
  <2>2. 0 <= made'
    BY <1>0, <1>1, <2>1
  <2> QED
    BY <1>0, <2>1, <2>2, BeginStep DEF Transitions, Early
<1>5. ASSUME NEW i \in Ids, Open(i) PROVE IInv'
  <2>1. Begin("open", "get", i) /\ importing' = importing /\ i # project.id /\ i <= made /\ manager.kind = "none"
    BY <1>0, <1>5 DEF Open
  <2>2. i <= made'
    BY <1>0, <1>1, <2>1 DEF Ids
  <2> QED
    BY <1>0, <2>1, <2>2, BeginStep DEF Transitions, Early, Ids
<1>6. ASSUME NEW i \in Ids, Duplicate(i) PROVE IInv'
  <2> DEFINE at == IF i = project.id THEN "list" ELSE "get"
  <2>1. Begin("duplicate", at, i) /\ importing' = importing /\ i <= made /\ manager.kind = "none"
        /\ at \in Early
    BY <1>0, <1>6 DEF Duplicate, Early
  <2>2. i <= made'
    BY <1>0, <1>1, <2>1 DEF Ids
  <2> HIDE DEF at
  <2> QED
    BY <1>0, <2>1, <2>2, BeginStep DEF Transitions, Ids
<1>7. ASSUME NEW i \in Ids, ImportRead(i) PROVE IInv'
  <2>1. Begin("import", "get", i) /\ importing' = FALSE /\ i <= made + 1
    BY <1>0, <1>7 DEF ImportRead
  <2>2. i <= made'
    BY <1>0, <1>2, <2>1 DEF Ids
  <2>3. i \in 0 .. MaxProjects /\ "import" \in Transitions /\ "get" \in Early
    BY <1>0 DEF Transitions, Early, Ids
  <2>4. importing' \in BOOLEAN
    BY <2>1
  <2> QED
    BY <2>1, <2>2, <2>3, <2>4, BeginStep
<1> QED
  BY <1>3, <1>4, <1>5, <1>6, <1>7

(* The coordinator when the operation has its answer, or awaits none of it,   *)
(* and when it asks again.                                                    *)
Ready(i) == (i = io /\ ~Has(io.txs, "op")) \/ (i = Done(io) /\ Turn("op"))

LEMMA ReadyIs ==
  ASSUME IInv, NEW i, Ready(i), op.at # "flush"
  PROVE  /\ i \in Coordinator /\ Sound(i) /\ Kept(io, i)
         /\ i.pending = io.pending /\ i.save = io.save /\ i.waiters = io.waiters
         /\ ~Has(i.txs, "op") /\ ~Awaited(i, "op") /\ (Awaited(i, "manager") <=> Awaited(io, "manager"))
         /\ \A w \in {"auto", "manager", "boot"} : Has(i.txs, w) <=> Has(io.txs, w)
         /\ ~crossed /\ Moves => manager.at \notin {"get", "erase"}
<1>0. /\ QueueOK /\ io \in Coordinator /\ Sound(io) /\ (~crossed => ManagerOK)
  BY Parts
<1>1. ~Awaited(io, "op")
  BY <1>0 DEF QueueOK
<1>2. CASE i = io /\ ~Has(io.txs, "op")
  <2>1. ~Before(io.txs, "manager", "op")
    BY <1>2 DEF Before, Has
  <2> QED
    BY <1>0, <1>1, <1>2, <2>1, SelfKept DEF ManagerOK
<1>3. CASE i = Done(io) /\ Turn("op")
  <2>1. "op" \in Asking /\ {"auto", "manager", "boot"} \subseteq Asking
    BY DEF Asking
  <2>2. /\ Done(io) \in Coordinator /\ Sound(Done(io)) /\ Kept(io, Done(io))
        /\ Done(io).pending = io.pending /\ Done(io).save = io.save /\ Done(io).waiters = io.waiters
        /\ ~Has(Done(io).txs, "op")
        /\ \A w \in Asking : Has(Done(io).txs, w) <=> (Has(io.txs, w) /\ w # "op")
        /\ ~Before(io.txs, "manager", "op")
    BY <1>3, <2>1, TurnIs
  <2>3. \A w \in {"op", "manager"} : Awaited(i, w) <=> Awaited(io, w)
    BY <1>3, <2>2 DEF Awaited
  <2>4. \A w \in {"auto", "manager", "boot"} : Has(i.txs, w) <=> Has(io.txs, w)
    BY <1>3, <2>1, <2>2
  <2> QED
    BY <1>0, <1>1, <1>3, <2>2, <2>3, <2>4 DEF ManagerOK
<1> QED
  BY <1>2, <1>3 DEF Ready

LEMMA ReadyAsks ==
  ASSUME IInv, NEW i, Ready(i), op.at # "flush"
  PROVE  LET j == Ask(i, "op")
         IN  /\ j \in Coordinator /\ Sound(j) /\ Kept(io, j)
             /\ j.pending = io.pending /\ j.save = io.save /\ j.waiters = io.waiters
             /\ ~Awaited(j, "op") /\ (Awaited(j, "manager") <=> Awaited(io, "manager"))
             /\ \A w \in {"auto", "manager", "boot"} : Has(j.txs, w) <=> Has(io.txs, w)
<1>1. /\ i \in Coordinator /\ Sound(i) /\ Kept(io, i)
      /\ i.pending = io.pending /\ i.save = io.save /\ i.waiters = io.waiters
      /\ ~Has(i.txs, "op") /\ ~Awaited(i, "op") /\ (Awaited(i, "manager") <=> Awaited(io, "manager"))
      /\ \A w \in {"auto", "manager", "boot"} : Has(i.txs, w) <=> Has(io.txs, w)
  BY ReadyIs
<1> DEFINE j == Ask(i, "op")
<1>2. /\ j \in Coordinator /\ Sound(j)
      /\ j.pending = i.pending /\ j.save = i.save /\ j.waiters = i.waiters
      /\ \A w \in Asking : Has(j.txs, w) <=> (w = "op" \/ Has(i.txs, w))
  BY <1>1, AskKeeps
<1>3. Kept(io, j)
  BY <1>1, AskKept, KeptTransitive
<1> HIDE DEF j
<1>4. \A w \in {"auto", "manager", "boot"} : Has(j.txs, w) <=> Has(io.txs, w)
  BY <1>1, <1>2 DEF Asking
<1>5. ~Awaited(j, "op") /\ (Awaited(j, "manager") <=> Awaited(io, "manager"))
  BY <1>1, <1>2 DEF Awaited
<1> QED
  BY <1>1, <1>2, <1>3, <1>4, <1>5 DEF j

(* A transition is over, and what was edited meanwhile is handed over.        *)
LEMMA FinishStep ==
  ASSUME IInv, Moves, NEW i, Ready(i), op.at # "flush", Finish(i), AsideOK',
         UNCHANGED <<project, dirty, manager, boot, booted, expected, db, clock, made>>, UNCHANGED history
  PROVE  IInv'
<1>0. /\ TypeOK /\ QueueOK /\ StageOK /\ VersionOK
      /\ ~crossed => ManagerOK
      /\ project \in Project /\ expected \in [Ids -> Int] /\ clock \in Nat
  BY Parts DEF TypeOK
<1>1. booted
  BY <1>0 DEF StageOK
<1>2. /\ i \in Coordinator /\ Sound(i) /\ Kept(io, i)
      /\ ~Has(i.txs, "op") /\ ~Awaited(i, "op") /\ (Awaited(i, "manager") <=> Awaited(io, "manager"))
      /\ \A w \in {"auto", "manager", "boot"} : Has(i.txs, w) <=> Has(io.txs, w)
  BY ReadyIs
<1>3. /\ replacing' = FALSE /\ op' = NoOp
      /\ io' = IF dirty THEN Schedule(i, project) ELSE i
  BY <1>1 DEF Finish
<1>4. /\ io' \in Coordinator /\ Sound(io') /\ Kept(io, io')
      /\ ~Has(io'.txs, "op") /\ ~Awaited(io', "op") /\ (Awaited(io', "manager") => Awaited(io, "manager"))
      /\ \A w \in {"manager", "boot"} : Has(io'.txs, w) <=> Has(io.txs, w)
      /\ dirty => Covers(io', project)
  <2>1. CASE dirty
    <3>1. io' = Schedule(i, project)
      BY <1>3, <2>1
    <3>2. Kept(i, Schedule(i, project))
      BY <1>0, <1>2, ScheduleKept
    <3>3. /\ io' \in Coordinator /\ Sound(io') /\ SameAsked(io', i)
          /\ \A w \in {"op", "manager"} : Awaited(io', w) => Awaited(i, w)
          /\ Covers(io', project)
      BY <1>0, <1>2, <3>1, ScheduleKeeps
    <3> QED
      BY <1>2, <3>1, <3>2, <3>3, KeptTransitive DEF SameAsked
  <2>2. CASE ~dirty
    BY <1>2, <1>3, <2>2
  <2> QED
    BY <2>1, <2>2
<1>5. op' \in Operation /\ op'.kind = "none" /\ op'.at = "idle" /\ op'.target.ver <= clock /\ ~Moves'
  <2>1. RuntimeOp(NoOp) /\ NoOp.kind = "none"
    BY RuntimeOps
  <2>2. NoOp.at = "idle" /\ NoOp.target.ver = 0 /\ NoOp \in Operation
    BY <2>1 DEF NoOp, None, RuntimeOp
  <2> QED
    BY <1>0, <1>3, <2>1, <2>2 DEF Moves, Transitions
<1>6. QueueOK'
  BY <1>0, <1>4 DEF QueueOK
<1>7. StageOK'
  BY <1>0, <1>1, <1>5 DEF StageOK, Moves, RunAts, Transitions
<1>8. ~crossed => OpOK' /\ ManagerOK' /\ Left'
  BY <1>0, <1>5 DEF OpOK, ManagerOK, Left, history
<1>9. /\ clock' \in Nat /\ clock <= clock' /\ made' \in 2 .. MaxProjects /\ made <= made'
      /\ manager' \in Manager /\ manager'.target.ver <= clock'
  BY <1>0 DEF TypeOK, VersionOK
<1>10. replacing' \in BOOLEAN /\ op'.target.ver <= clock'
  BY <1>3, <1>5
<1> QED
  BY <1>4, <1>5, <1>6, <1>7, <1>8, <1>9, <1>10, SameProject

(* A transition reads on, or leaves the old project.                          *)
LEMMA GoesOn ==
  ASSUME IInv, Moves, NEW i, Ready(i), op.at # "flush", AsideOK',
         UNCHANGED <<project, dirty, replacing, manager, boot, booted, expected, db, clock, made>>,
         UNCHANGED history,
         op' \in Operation, op'.kind = op.kind, op'.target \in Project, op'.target.ver <= clock,
         op'.kind = "import" => op'.from \in Ids,
         \/ io' = i /\ op'.at \in {"dispose", "disposed"}
         \/ io' = Ask(i, "op") /\ op'.at \in {"get", "list"},
         ~crossed => OpOK'
  PROVE  IInv'
<1>0. /\ TypeOK /\ QueueOK /\ StageOK /\ VersionOK
      /\ ~crossed => ManagerOK
      /\ clock \in Nat /\ booted
  BY Parts DEF TypeOK, StageOK
<1>1. /\ io' \in Coordinator /\ Sound(io') /\ Kept(io, io')
      /\ ~Awaited(io', "op") /\ (Awaited(io', "manager") <=> Awaited(io, "manager"))
      /\ \A w \in {"auto", "manager", "boot"} : Has(io'.txs, w) <=> Has(io.txs, w)
      /\ Has(io'.txs, "op") => op'.at \in {"get", "list"}
      /\ ~crossed => manager.at \notin {"get", "erase"}
  BY ReadyIs, ReadyAsks
<1>2. QueueOK'
  BY <1>0, <1>1 DEF QueueOK, OpAsks
<1>3. StageOK'
  BY <1>0 DEF StageOK, Moves, RunAts, Transitions, history
<1>4. ~crossed => ManagerOK' /\ Left'
  BY <1>0, <1>1 DEF ManagerOK, Left, history
<1>5. /\ clock' \in Nat /\ clock <= clock' /\ made' \in 2 .. MaxProjects /\ made <= made'
      /\ manager' \in Manager /\ manager'.target.ver <= clock' /\ replacing' \in BOOLEAN
  BY <1>0 DEF TypeOK, VersionOK
<1> QED
  BY <1>0, <1>1, <1>2, <1>3, <1>4, <1>5, SameProject

LEMMA DisposeIs ==
  ASSUME AsideOK, NEW o \in Operation, NEW i, DisposeThen(o, i),
         UNCHANGED <<plan, leaked, importing, uploads, used>>
  PROVE  /\ op' \in Operation /\ op'.at \in {"dispose", "disposed"} /\ io' = i
         /\ op'.kind = o.kind /\ op'.from = o.from /\ op'.target = o.target /\ op'.rev = o.rev
         /\ op'.new = o.new
         /\ AsideOK' /\ replacing' = replacing
<1>1. op' = [o EXCEPT !.at = IF engine = "none" THEN "disposed" ELSE "dispose"]
  BY DEF DisposeThen
<1>2. AsideOK'
  BY DEF AsideOK, DisposeThen
<1> QED
  BY <1>1, <1>2 DEF DisposeThen, Operation, Leaving

(* The transition has read what it installs, or there is no such project.     *)
LEMMA PreparedStep ==
  ASSUME IInv, Prepared
  PROVE  IInv'
<1> DEFINE i == IF op.at = "get" THEN Done(io) ELSE io
           there == op.from \in Stored
           stored == [op EXCEPT !.target = New(op.from, db[op.from].ver), !.rev = db[op.from].rev]
           new == [op EXCEPT !.rev = 1, !.new = TRUE]
           aimed == [new EXCEPT !.target.id = op.from]
<1>0. /\ TypeOK /\ QueueOK /\ StageOK /\ VersionOK /\ AsideOK
      /\ ~crossed => OpOK
      /\ op \in Operation /\ db \in Repository /\ clock \in Nat /\ made \in 2 .. MaxProjects
  BY Parts DEF TypeOK
<1>1. /\ UNCHANGED <<plan, project, dirty, leaked, manager, importing, uploads, boot, booted, expected, db,
                     clock, made, used>> /\ UNCHANGED history
      /\ (op.at = "get" /\ Turn("op")) \/ op.at = "begin"
  BY DEF Prepared, ui
<1>2. Moves /\ op.at \in Early /\ op.at # "flush" /\ op.at # "list"
  BY <1>0, <1>1 DEF StageOK, Moves, Early, Operation, RunAts, RuntimeCalls
<1>3. Ready(i)
  BY <1>0, <1>1 DEF Ready, QueueOK, OpAsks
<1>4. op.target \in Project /\ op.target.ver <= clock /\ (op.kind = "import" => op.from \in Ids)
      /\ op.target \in Ref
  BY <1>0, <1>2 DEF StageOK, VersionOK, Operation
<1>5. there => /\ op.from \in Ids /\ db[op.from].rev > 0 /\ db[op.from].ver \in Nat
               /\ db[op.from].ver <= clock /\ db[op.from].rev \in Nat
  BY <1>0 DEF Stored, VersionOK, Repository
<1>6. CASE DisposeThen(new, i) /\ (op.kind = "create" \/ op.kind = "delete")
  <2>1. new \in Operation /\ new.kind = op.kind /\ new.from = op.from /\ new.target = op.target
        /\ new.rev = 1 /\ new.new
    BY <1>0 DEF Operation
  <2> HIDE DEF new, i
  <2>2. /\ op' \in Operation /\ op'.at \in {"dispose", "disposed"} /\ io' = i
        /\ op'.kind = op.kind /\ op'.from = op.from /\ op'.target = op.target /\ op'.rev = 1
        /\ op'.new /\ AsideOK' /\ replacing' = replacing
    BY <1>0, <1>1, <1>6, <2>1, DisposeIs
  <2>3. ~crossed => OpOK'
    BY <1>0, <1>1, <1>2, <1>6, <2>2 DEF OpOK, Moves, Early, history
  <2> QED
    BY <1>0, <1>1, <1>2, <1>3, <1>4, <2>2, <2>3, GoesOn
<1>7. CASE DisposeThen(aimed, i) /\ op.kind = "import" /\ ~there
  <2>0. op.from \in Ids /\ db[op.from].rev = 0
    BY <1>0, <1>4, <1>7 DEF Stored, Repository
  <2>1. /\ aimed \in Operation /\ aimed.kind = op.kind /\ aimed.from = op.from
        /\ aimed.target = [op.target EXCEPT !.id = op.from]
        /\ aimed.rev = 1 /\ aimed.new
    <3>1. [op.target EXCEPT !.id = op.from] \in Ref
      BY <1>4, <2>0 DEF Ref, Ids
    <3>2. new \in Operation /\ new.kind = op.kind /\ new.from = op.from /\ new.target = op.target
          /\ new.rev = 1 /\ new.new
      BY <1>0 DEF Operation
    <3>3. aimed = [new EXCEPT !.target = [new.target EXCEPT !.id = op.from]]
      OBVIOUS
    <3> HIDE DEF new
    <3>4. aimed = [new EXCEPT !.target = [op.target EXCEPT !.id = op.from]]
      BY <3>2, <3>3
    <3> QED
      BY <1>0, <3>1, <3>2, <3>4 DEF Operation
  <2>2. [op.target EXCEPT !.id = op.from] \in Project /\ [op.target EXCEPT !.id = op.from].ver = op.target.ver
        /\ [op.target EXCEPT !.id = op.from].id = op.from
    BY <1>4, <2>0 DEF Project
  <2> HIDE DEF aimed, i
  <2>3. /\ op' \in Operation /\ op'.at \in {"dispose", "disposed"} /\ io' = i
        /\ op'.kind = op.kind /\ op'.from = op.from
        /\ op'.target \in Project /\ op'.target.id = op.from /\ op'.target.ver = op.target.ver
        /\ op'.rev = 1 /\ op'.new /\ AsideOK' /\ replacing' = replacing
    BY <1>0, <1>1, <1>7, <2>1, <2>2, DisposeIs, ZenonT(60)
  <2>4. ~crossed => OpOK'
    BY <1>0, <1>1, <1>2, <1>7, <2>0, <2>3 DEF OpOK, Moves, Early, history
  <2> QED
    BY <1>0, <1>1, <1>2, <1>3, <1>4, <2>3, <2>4, GoesOn
<1>8. CASE DisposeThen(stored, i) /\ op.kind \in {"open", "delete"} /\ there
  <2>1. New(op.from, db[op.from].ver) \in Project /\ New(op.from, db[op.from].ver) \in Ref
        /\ New(op.from, db[op.from].ver).id = op.from /\ New(op.from, db[op.from].ver).ver = db[op.from].ver
    BY <1>5, <1>8 DEF New, Project, Ref, Ids
  <2>2. stored \in Operation /\ stored.kind = op.kind /\ stored.from = op.from
        /\ stored.target = New(op.from, db[op.from].ver)
        /\ stored.rev = db[op.from].rev /\ stored.new = op.new
    <3> DEFINE t == New(op.from, db[op.from].ver)
               r == db[op.from].rev
    <3>1. t \in Ref /\ r \in Nat
      BY <1>5, <1>8, <2>1
    <3>2. stored = [op EXCEPT !.target = t, !.rev = r]
      OBVIOUS
    <3> HIDE DEF stored, t, r
    <3>3. stored \in Operation /\ stored.kind = op.kind /\ stored.from = op.from /\ stored.target = t
          /\ stored.rev = r /\ stored.new = op.new
      BY <1>0, <3>1, <3>2 DEF Operation
    <3> QED
      BY <3>3 DEF t, r
  <2> HIDE DEF stored, i
  <2>3. /\ op' \in Operation /\ op'.at \in {"dispose", "disposed"} /\ io' = i
        /\ op'.kind = op.kind /\ op'.from = op.from
        /\ op'.target \in Project /\ op'.target.id = op.from /\ op'.target.ver = db[op.from].ver
        /\ op'.rev = db[op.from].rev /\ op'.new = op.new /\ AsideOK' /\ replacing' = replacing
    BY <1>0, <1>1, <1>8, <2>1, <2>2, DisposeIs
  <2>4. ~crossed => OpOK'
    BY <1>0, <1>1, <1>2, <1>8, <2>3 DEF OpOK, Moves, Early, history
  <2> QED
    BY <1>0, <1>1, <1>2, <1>3, <1>5, <1>8, <2>3, <2>4, GoesOn
<1>9. CASE /\ op.kind \in {"duplicate", "import"}
           /\ op' = [op EXCEPT !.at = "list"] /\ io' = Ask(i, "op")
           /\ UNCHANGED <<engine, locked, running, replacing>>
  <2>1. /\ op' \in Operation /\ op'.at = "list" /\ op'.kind = op.kind /\ op'.from = op.from
        /\ op'.target = op.target /\ op'.rev = op.rev /\ op'.new = op.new
    BY <1>0, <1>9 DEF Operation, Early
  <2>2. AsideOK'
    BY <1>0, <1>1, <1>9 DEF AsideOK
  <2>3. ~crossed => OpOK'
    BY <1>0, <1>1, <1>2, <1>9, <2>1 DEF OpOK, Moves, Early, Leaving, history
  <2> HIDE DEF i
  <2> QED
    BY <1>0, <1>1, <1>2, <1>3, <1>4, <1>9, <2>1, <2>2, <2>3, GoesOn
<1>10. CASE Abort(i, FALSE) /\ UNCHANGED <<engine, locked>>
  <2>1. AsideOK' /\ Finish(i)
    BY <1>0, <1>1, <1>10 DEF AsideOK, Abort
  <2> HIDE DEF i
  <2> QED
    BY <1>1, <1>2, <1>3, <2>1, FinishStep
<1> QED
  BY <1>6, <1>7, <1>8, <1>9, <1>10 DEF Prepared

LEMMA ListedStep ==
  ASSUME IInv, Listed
  PROVE  IInv'
<1> DEFINE i == Done(io)
           new == [op EXCEPT !.rev = 1, !.new = TRUE]
<1>0. /\ TypeOK /\ QueueOK /\ StageOK /\ VersionOK /\ AsideOK
      /\ ~crossed => OpOK /\ OwnOK
      /\ op \in Operation /\ db \in Repository /\ clock \in Nat /\ made \in 2 .. MaxProjects
  BY Parts DEF TypeOK
<1>1. /\ UNCHANGED <<plan, project, dirty, leaked, manager, importing, uploads, boot, booted, expected, db,
                     clock, made, used>> /\ UNCHANGED history
      /\ Turn("op") /\ op.at = "list"
  BY DEF Listed, ui
<1>2. Moves /\ op.at \in Early /\ op.at # "flush" /\ Ready(i)
  BY <1>0, <1>1 DEF StageOK, Moves, Early, Operation, RunAts, RuntimeCalls, Ready
<1>3. op.target \in Project /\ op.target.ver <= clock /\ (op.kind = "import" => op.from \in Ids)
  BY <1>0, <1>2 DEF StageOK, VersionOK
<1>4. CASE DisposeThen(new, i)
  <2>1. new \in Operation /\ new.kind = op.kind /\ new.from = op.from /\ new.target = op.target
        /\ new.rev = 1 /\ new.new
    BY <1>0 DEF Operation
  <2> HIDE DEF new, i
  <2>2. /\ op' \in Operation /\ op'.at \in {"dispose", "disposed"} /\ io' = i
        /\ op'.kind = op.kind /\ op'.from = op.from /\ op'.target = op.target /\ op'.rev = 1
        /\ op'.new /\ AsideOK' /\ replacing' = replacing
    BY <1>0, <1>1, <1>4, <2>1, DisposeIs
  <2>3. ~crossed => OpOK'
    BY <1>0, <1>1, <1>2, <2>2 DEF OpOK, Moves, Early, history
  <2> QED
    BY <1>0, <1>1, <1>2, <1>3, <2>2, <2>3, GoesOn
<1>5. CASE /\ op.kind = "delete"
           /\ \E k \in Stored \ {project.id} : op' = [op EXCEPT !.at = "get", !.from = k]
           /\ io' = Ask(i, "op") /\ UNCHANGED <<engine, locked, running, replacing>>
  <2>1. PICK k \in Stored \ {project.id} : op' = [op EXCEPT !.at = "get", !.from = k]
    BY <1>5
  <2>2. k \in Ids /\ k # project.id /\ db[k].rev > 0 /\ k \in 0 .. MaxProjects
    BY DEF Stored, Ids
  <2>3. /\ op' \in Operation /\ op'.at = "get" /\ op'.kind = op.kind /\ op'.from = k
        /\ op'.target = op.target /\ op'.rev = op.rev /\ op'.new = op.new
    BY <1>0, <2>1, <2>2 DEF Operation, Early
  <2>4. AsideOK'
    BY <1>0, <1>1, <1>5 DEF AsideOK
  <2>5. ~crossed => k <= made
    BY <1>0, <2>2 DEF OwnOK, Ids
  <2>6. ~crossed => OpOK'
    BY <1>0, <1>1, <1>2, <1>5, <2>2, <2>3, <2>5 DEF OpOK, Moves, Early, Leaving, history
  <2> HIDE DEF i
  <2> QED
    BY <1>0, <1>1, <1>2, <1>3, <1>5, <2>3, <2>4, <2>6, GoesOn
<1> QED
  BY <1>4, <1>5 DEF Listed

LEMMA DisposalStep ==
  ASSUME IInv, Disposal
  PROVE  IInv'
<1>0. /\ TypeOK /\ QueueOK /\ StageOK /\ VersionOK /\ AsideOK
      /\ ~crossed => OpOK /\ OwnOK
      /\ op \in Operation
  BY Parts DEF TypeOK
<1>1. /\ UNCHANGED <<plan, project, dirty, locked, engine, manager, importing, uploads, boot, booted, expected,
                     db, clock, made, used>> /\ UNCHANGED history
      /\ op.at = "dispose" /\ Moves
  BY DEF Disposal, ui, Moves
<1>2. op.at # "flush" /\ Ready(io)
  BY <1>0, <1>1 DEF Ready, QueueOK, OpAsks
<1>3. op.target \in Project /\ op.target.ver <= clock /\ (op.kind = "import" => op.from \in Ids)
  BY <1>0, <1>1 DEF StageOK, VersionOK
<1>4. CASE op' = [op EXCEPT !.at = "disposed"] /\ UNCHANGED <<running, leaked, replacing, io>>
  <2>1. /\ op' \in Operation /\ op'.at = "disposed" /\ op'.kind = op.kind /\ op'.from = op.from
        /\ op'.target = op.target /\ op'.rev = op.rev /\ op'.new = op.new
    BY <1>0, <1>4 DEF Operation, Leaving
  <2>2. AsideOK'
    BY <1>0, <1>1, <1>4 DEF AsideOK
  <2>3. ~crossed => OpOK'
    BY <1>0, <1>1, <2>1 DEF OpOK, Moves, Early, Leaving, history
  <2>4. io' = io
    BY <1>4
  <2> QED
    BY <1>0, <1>1, <1>2, <1>3, <1>4, <2>1, <2>2, <2>3, <2>4, GoesOn
<1>5. CASE leaked' = TRUE /\ Abort(io, TRUE)
  <2>1. AsideOK' /\ Finish(io)
    BY <1>0, <1>1, <1>5 DEF AsideOK, Abort
  <2> QED
    BY <1>1, <1>2, <2>1, FinishStep
<1> QED
  BY <1>4, <1>5 DEF Disposal

(* What is left is saved, unless it is.                                       *)
LEMMA DisposedStep ==
  ASSUME IInv, Disposed
  PROVE  IInv'
<1>0. /\ TypeOK /\ QueueOK /\ StageOK /\ VersionOK /\ AsideOK /\ Cover
      /\ ~crossed => OpOK /\ ManagerOK
      /\ op \in Operation /\ io \in Coordinator /\ Sound(io) /\ expected \in [Ids -> Int]
      /\ project \in Project
  BY Parts DEF TypeOK
<1>1. /\ UNCHANGED <<plan, project, dirty, native, replacing, manager, importing, uploads, boot, booted,
                     expected, db, clock, made, used>> /\ UNCHANGED history
      /\ op.at = "disposed" /\ Moves
      /\ op' = [op EXCEPT !.at = IF Drained(io) THEN "drained" ELSE "flush"]
      /\ io' = Flush(io, "op")
  BY DEF Disposed, ui, Moves
<1>2. ~Awaited(io, "op") /\ ~Has(io.txs, "op") /\ booted
  BY <1>0, <1>1 DEF QueueOK, OpAsks, StageOK
<1>3. /\ op' \in Operation /\ op'.kind = op.kind /\ op'.from = op.from
      /\ op'.target = op.target /\ op'.rev = op.rev /\ op'.new = op.new
      /\ op'.at = IF Drained(io) THEN "drained" ELSE "flush"
  BY <1>0, <1>1 DEF Operation, Leaving
<1>4. /\ io' \in Coordinator /\ Sound(io') /\ SameAsked(io', io)
      /\ \A w \in {"op", "manager"} : Awaited(io', w) => w = "op" \/ Awaited(io, w)
      /\ io.pending = None => io'.pending = None
      /\ Kept(io, io')
  BY <1>0, <1>1, <1>2, FlushKeeps, FlushKept DEF Flushers
<1>5. Drained(io) => io' = io
  BY <1>1 DEF Flush, Drained
<1>6. AsideOK'
  BY <1>0, <1>1 DEF AsideOK, native
<1>7. QueueOK'
  BY <1>0, <1>1, <1>2, <1>3, <1>4, <1>5 DEF QueueOK, SameAsked
<1>8. StageOK'
  BY <1>0, <1>1, <1>3, <1>4, <1>2 DEF StageOK, Moves, RunAts, Transitions, history, Drained
<1>9. ASSUME ~crossed PROVE OpOK' /\ ManagerOK' /\ Left'
  <2>1. OpOK'
    BY <1>0, <1>1, <1>3, <1>9 DEF OpOK, Moves, Early, Leaving, history
  <2>2. ManagerOK'
    BY <1>0, <1>1, <1>9 DEF ManagerOK, history
  <2>3. Left'
    <3>1. Drained(io) => ~Covers(io, project)
      BY <1>0, NoneIs DEF Drained, Covers, NoSave
    <3> QED
      BY <1>0, <1>1, <1>2, <1>3, <3>1 DEF Left, Cover, history
  <2> QED
    BY <2>1, <2>2, <2>3
<1>10. /\ clock' \in Nat /\ clock <= clock' /\ made' \in 2 .. MaxProjects /\ made <= made'
       /\ manager' \in Manager /\ manager'.target.ver <= clock' /\ replacing' \in BOOLEAN
       /\ op'.target.ver <= clock'
  BY <1>0, <1>1, <1>3 DEF TypeOK, VersionOK
<1> QED
  BY <1>1, <1>3, <1>4, <1>6, <1>7, <1>8, <1>9, <1>10, SameProject

(* The transition writes before it installs.                                  *)
LEMMA StepsOn ==
  ASSUME IInv, Moves, NEW i, Ready(i), op.at \in {"drained", "store"}, AsideOK', used' = used,
         UNCHANGED <<project, dirty, replacing, manager, boot, booted, expected, clock, made>>,
         UNCHANGED history,
         NEW at \in {"store", "erase"}, op' = [op EXCEPT !.at = at], at = "store" => op.new,
         io' = Ask(i, "op"), db' \in Repository,
         \A k \in Ids : db'[k].ver <= clock /\ (db'[k].rev = 0 => db'[k].ver = 0),
         ~crossed => db'[project.id] = db[project.id],
         ~crossed => \A k \in Ids : k > made => db'[k].rev = 0,
         ~crossed => OpOK' /\ ManagerOK'
  PROVE  IInv'
<1>0. /\ TypeOK /\ QueueOK /\ StageOK /\ VersionOK /\ HistoryOK
      /\ ~crossed => Left
      /\ clock \in Nat /\ booted /\ op \in Operation
  BY Parts DEF TypeOK, StageOK
<1>1. /\ io' \in Coordinator /\ Sound(io') /\ Kept(io, io')
      /\ ~Awaited(io', "op") /\ (Awaited(io', "manager") <=> Awaited(io, "manager"))
      /\ \A w \in {"auto", "manager", "boot"} : Has(io'.txs, w) <=> Has(io.txs, w)
  BY ReadyAsks
<1>2. /\ op' \in Operation /\ op'.kind = op.kind /\ op'.from = op.from /\ op'.target = op.target
      /\ op'.rev = op.rev /\ op'.new = op.new /\ op'.at = at
  BY <1>0 DEF Operation, Leaving
<1>3. QueueOK'
  BY <1>0, <1>1, <1>2 DEF QueueOK, OpAsks
<1>4. StageOK'
  BY <1>0, <1>2 DEF StageOK, Moves, RunAts, Transitions, history
<1>5. ~crossed => Left'
  BY <1>0, <1>2 DEF Left, Moves, history
<1>6. /\ clock' \in Nat /\ clock <= clock' /\ made' \in 2 .. MaxProjects /\ made <= made'
      /\ manager' \in Manager /\ manager'.target.ver <= clock' /\ replacing' \in BOOLEAN
      /\ op'.target.ver <= clock'
  BY <1>0, <1>2 DEF TypeOK, VersionOK
<1>7. touched' \subseteq Ids /\ touched \subseteq touched' /\ late' = late /\ missed' = missed
      /\ crossed' = crossed
  BY <1>0 DEF HistoryOK, history
<1>8. \A k \in Ids : db'[k].ver <= clock'
  OBVIOUS
<1> QED
  BY <1>0, <1>1, <1>2, <1>3, <1>4, <1>5, <1>6, <1>7, <1>8, SameOpen

(* The new project takes the place of the old one.                            *)
LEMMA InstallStep ==
  ASSUME IInv, Moves, NEW i, Ready(i), op.at # "flush", Install(i), AsideOK',
         UNCHANGED <<manager, boot, booted, clock, made>>,
         db' \in Repository,
         \A k \in Ids : db'[k].ver <= clock /\ (db'[k].rev = 0 => db'[k].ver = 0),
         ~crossed =>
           /\ op.target.id <= made
           /\ \A k \in Ids : k > made => db'[k].rev = 0
           /\ op.target.id \notin touched =>
                db'[op.target.id].rev = op.rev /\ db'[op.target.id].ver = op.target.ver
           /\ manager.at = "put" /\ manager.target.id \notin touched =>
                manager.target.id # op.target.id /\ db'[manager.target.id].rev = manager.rev
  PROVE  IInv'
<1>0. /\ TypeOK /\ QueueOK /\ StageOK /\ VersionOK /\ HistoryOK
      /\ ~crossed => OpOK /\ Left /\ RevisionOK
      /\ clock \in Nat /\ booted /\ op \in Operation /\ op.target \in Project /\ op.rev \in Nat
      /\ expected \in [Ids -> Int] /\ boot.at = "done"
  BY Parts DEF TypeOK, StageOK, Operation
<1> DEFINE j == Ask(i, "op")
<1>1. /\ j \in Coordinator /\ Sound(j)
      /\ j.pending = io.pending /\ j.save = io.save /\ j.waiters = io.waiters
      /\ ~Awaited(j, "op") /\ (Awaited(j, "manager") <=> Awaited(io, "manager"))
      /\ \A w \in {"auto", "manager", "boot"} : Has(j.txs, w) <=> Has(io.txs, w)
  BY ReadyAsks
<1>2. /\ i.pending = io.pending /\ i.save = io.save
      /\ ~crossed => manager.at \notin {"get", "erase"}
  BY ReadyIs
<1>3. /\ project' = op.target /\ dirty' = FALSE /\ Expect(j, op.target, op.rev)
      /\ op' = [op EXCEPT !.at = "opened"] /\ crossed' = (crossed \/ ~Drained(i))
      /\ replacing' = replacing /\ touched' = touched /\ late' = late /\ missed' = missed
  BY DEF Install
<1> HIDE DEF j
<1>4. /\ io' \in Coordinator /\ Sound(io')
      /\ io'.pending = j.pending /\ io'.waiters = j.waiters /\ io'.txs = j.txs
      /\ io'.save.snap = j.save.snap /\ io'.save.owner = j.save.owner
      /\ Drained(j) => io' = j /\ Drained(io')
      /\ expected' = [expected EXCEPT ![op.target.id] = op.rev]
  BY <1>0, <1>1, <1>3, ExpectKeeps
<1>5. \A w \in {"op", "manager"} : Awaited(io', w) <=> Awaited(j, w)
  BY <1>4 DEF Awaited
<1>6. /\ op' \in Operation /\ op'.kind = op.kind /\ op'.from = op.from /\ op'.target = op.target
      /\ op'.at = "opened"
  BY <1>0, <1>3 DEF Operation
<1>7. expected' \in Expectations /\ expected'[op.target.id] = op.rev /\ op.target.id \in Ids
  BY <1>0, <1>4 DEF Expectations, Project
<1>8. TypeOK'
  BY <1>0, <1>3, <1>4, <1>6, <1>7 DEF TypeOK, HistoryOK
<1>9. QueueOK'
  BY <1>0, <1>1, <1>4, <1>5, <1>6 DEF QueueOK, OpAsks
<1>10. StageOK'
  BY <1>0, <1>6 DEF StageOK, Moves, RunAts, Transitions
<1>11. VersionOK'
  BY <1>0, <1>1, <1>3, <1>4, <1>6 DEF VersionOK, Snaps
<1>12. Cover' /\ BootOK'
  BY <1>0, <1>3 DEF Cover, BootOK
<1>13. ASSUME ~crossed' PROVE Orderly'
  <2>0. ~crossed /\ OpOK /\ Drained(io') /\ Drained(i)
    BY <1>0, <1>1, <1>2, <1>3, <1>4, <1>13 DEF Drained
  <2>1. /\ io'.save = NoSave /\ io'.pending = None /\ NoSave.snap = None
    BY <2>0 DEF Drained, NoSave
  <2>2. OpOK' /\ Left'
    BY <1>6, <2>0 DEF OpOK, Left, Moves, Early, Leaving
  <2>3. ManagerOK'
    BY <1>2, <1>3, <2>0 DEF ManagerOK
  <2>4. OwnOK'
    BY <1>3, <2>0, <2>1 DEF OwnOK, Own
  <2>5. RevisionOK'
    BY <1>3, <1>7, <2>0, <2>1 DEF RevisionOK, Unclaimed, Expects
  <2>6. Clean'
    <3>1. project' # None
      BY <1>0, <1>3, NoneIs
    <3> QED
      BY <1>3, <2>0, <2>1, <3>1 DEF Clean, Newest, Snaps
  <2> QED
    BY <2>2, <2>3, <2>4, <2>5, <2>6 DEF Orderly
<1> QED
  BY <1>8, <1>9, <1>10, <1>11, <1>12, <1>13 DEF IInv

LEMMA CancelledStep ==
  ASSUME IInv, Cancelled
  PROVE  IInv'
<1>0. /\ TypeOK /\ QueueOK /\ StageOK /\ VersionOK /\ HistoryOK /\ AsideOK
      /\ ~crossed => OpOK /\ OwnOK /\ ManagerOK
      /\ io \in Coordinator /\ op \in Operation /\ db \in Repository /\ clock \in Nat
      /\ op.at = "drained" /\ io.pending = None /\ used \in Spending
  BY Parts DEF TypeOK, StageOK, Cancelled, AsideOK
<1>1. /\ UNCHANGED <<plan, locked, engine, leaked, manager, importing, uploads, boot, booted, db, clock,
                     made, used>>
  BY DEF Cancelled
<1>2. Moves /\ op.at # "flush" /\ Ready(io)
  BY <1>0 DEF StageOK, Moves, Operation, RunAts, RuntimeCalls, Ready, QueueOK, OpAsks
<1>3. [io EXCEPT !.pending = None] = io
  BY <1>0 DEF Coordinator
<1>4. \A k \in Ids : db[k].ver <= clock /\ (db[k].rev = 0 => db[k].ver = 0)
  BY <1>0 DEF VersionOK, StageOK
<1>5. ~crossed => \A k \in Ids : k > made => db[k].rev = 0
  BY <1>0 DEF OwnOK
<1>6. CASE /\ op.new
           /\ op' = [op EXCEPT !.at = "store"] /\ io' = Ask(io, "op")
           /\ UNCHANGED <<ui, running, replacing, expected, history>>
  <2>1. AsideOK'
    BY <1>0, <1>1, <1>6 DEF AsideOK
  <2>2. /\ op' \in Operation /\ op'.kind = op.kind /\ op'.from = op.from /\ op'.target = op.target
        /\ op'.rev = op.rev /\ op'.new = op.new /\ op'.at = "store"
    BY <1>0, <1>6 DEF Operation, Leaving
  <2>3. ~crossed => OpOK' /\ ManagerOK'
    BY <1>0, <1>1, <1>2, <1>6, <2>2 DEF OpOK, ManagerOK, Moves, Early, Leaving, ui, history
  <2>4. UNCHANGED <<project, dirty, replacing, manager, boot, booted, expected, clock, made>>
        /\ UNCHANGED history
    BY <1>1, <1>6 DEF ui
  <2>5. db' = db /\ io' = Ask(io, "op") /\ op' = [op EXCEPT !.at = "store"] /\ op.new /\ used' = used
    BY <1>1, <1>6
  <2> QED
    BY <1>0, <1>2, <1>4, <1>5, <2>1, <2>3, <2>4, <2>5, StepsOn
<1>7. CASE /\ ~op.new /\ op.kind = "delete" /\ Erase(io)
           /\ UNCHANGED <<ui, running, replacing, expected, history>>
  <2>1. AsideOK'
    BY <1>0, <1>1, <1>7 DEF AsideOK
  <2>2. /\ op' \in Operation /\ op'.kind = op.kind /\ op'.from = op.from /\ op'.target = op.target
        /\ op'.rev = op.rev /\ op'.new = op.new /\ op'.at = "erase"
    BY <1>0, <1>7 DEF Operation, Leaving, Erase
  <2>3. ~crossed => OpOK' /\ ManagerOK'
    BY <1>0, <1>1, <1>2, <1>7, <2>2 DEF OpOK, ManagerOK, Moves, Early, Leaving, ui, history
  <2>4. UNCHANGED <<project, dirty, replacing, manager, boot, booted, expected, clock, made>>
        /\ UNCHANGED history
    BY <1>1, <1>7 DEF ui
  <2>5. db' = db /\ io' = Ask(io, "op") /\ op' = [op EXCEPT !.at = "erase"] /\ used' = used
    BY <1>1, <1>7 DEF Erase
  <2> QED
    BY <1>0, <1>2, <1>4, <1>5, <2>1, <2>3, <2>4, <2>5, StepsOn
<1>8. CASE ~op.new /\ op.kind # "delete" /\ Install(io)
  <2>1. AsideOK'
    BY <1>0, <1>1, <1>8 DEF AsideOK, Install
  <2>2. ~crossed =>
           /\ op.target.id <= made
           /\ op.target.id \notin touched =>
                db[op.target.id].rev = op.rev /\ db[op.target.id].ver = op.target.ver
           /\ manager.at # "put"
    BY <1>0, <1>2, <1>8 DEF OpOK, Leaving, StageOK, ManagerAsks
  <2>3. db' = db /\ UNCHANGED <<manager, boot, booted, clock, made>>
    BY <1>1
  <2> QED
    BY <1>0, <1>2, <1>4, <1>5, <1>8, <2>1, <2>2, <2>3, InstallStep
<1> QED
  BY <1>3, <1>6, <1>7, <1>8 DEF Cancelled

LEMMA NotDrainedStep ==
  ASSUME IInv, NotDrained
  PROVE  IInv'
<1>1. /\ QueueOK /\ StageOK /\ AsideOK /\ op \in Operation /\ op.at = "undrained"
      /\ UNCHANGED <<plan, project, dirty, locked, engine, leaked, manager, importing, uploads, boot, booted,
                     expected, db, clock, made, used>> /\ UNCHANGED history
      /\ Finish(io) /\ running' = FALSE
  BY Parts DEF NotDrained, Abort, ui, TypeOK
<1>2. Moves /\ op.at # "flush" /\ Ready(io)
  BY <1>1 DEF StageOK, Moves, Operation, RunAts, RuntimeCalls, Ready, QueueOK, OpAsks
<1>3. AsideOK'
  BY <1>1 DEF AsideOK
<1> QED
  BY <1>1, <1>2, <1>3, FinishStep

LEMMA OpenedStep ==
  ASSUME IInv, Opened
  PROVE  IInv'
<1>1. /\ QueueOK /\ StageOK /\ AsideOK /\ op \in Operation /\ op.at = "opened"
      /\ UNCHANGED <<plan, project, dirty, native, manager, importing, uploads, boot, booted,
                     expected, db, clock, made, used>> /\ UNCHANGED history
      /\ Finish(Done(io)) /\ Turn("op")
  BY Parts DEF Opened, ui, TypeOK
<1>2. Moves /\ op.at # "flush" /\ Ready(Done(io))
  BY <1>1 DEF StageOK, Moves, Operation, RunAts, RuntimeCalls, Ready
<1>3. AsideOK'
  BY <1>1 DEF AsideOK, native
<1> QED
  BY <1>1, <1>2, <1>3, FinishStep

LEMMA NewStoredStep ==
  ASSUME IInv, NewStored
  PROVE  IInv'
<1> DEFINE i == Done(io)
<1>0. /\ TypeOK /\ QueueOK /\ StageOK /\ VersionOK /\ HistoryOK /\ AsideOK
      /\ ~crossed => OpOK /\ OwnOK /\ ManagerOK
      /\ op \in Operation /\ db \in Repository /\ clock \in Nat /\ made \in 2 .. MaxProjects
      /\ op.at = "store" /\ used \in Spending /\ project \in Project /\ project.id \in Ids
  BY Parts DEF TypeOK, StageOK, NewStored, AsideOK
<1>1. UNCHANGED <<plan, locked, engine, leaked, manager, importing, uploads, boot, booted, clock, made>>
      /\ Turn("op")
  BY DEF NewStored
<1>2. Moves /\ op.at # "flush" /\ Ready(i) /\ op.new /\ op.target \in Project /\ op.target.id \in Ids
  BY <1>0, <1>1 DEF StageOK, Moves, Operation, RunAts, RuntimeCalls, Ready, Project
<1> HIDE DEF i
<1>3. ~crossed =>
        /\ op.rev = 1 /\ op.target.id <= made /\ op.from <= made
        /\ op.kind = "delete" => op.target.id # project.id
        /\ manager.at \in ManagerAsks => manager.at = "put" /\ op.kind # "delete"
        /\ op.target.id \notin touched \cup {project.id} => db[op.target.id].rev = 0
  BY <1>0, <1>2, ReadyIs DEF OpOK, Leaving, StageOK, ManagerAsks
<1>4. CASE Fits(op.target, 0) /\ db' = Put(op.target) /\ used' = used
  <2>1. /\ db' \in Repository /\ db'[op.target.id].rev = 1 /\ db'[op.target.id].ver = op.target.ver
        /\ \A k \in Ids \ {op.target.id} : db'[k] = db[k]
        /\ db[op.target.id].rev = 0
    <3>1. db[op.target.id].rev = 0
      BY <1>0, <1>2, <1>4 DEF Fits, LastWriterWins, Repository
    <3> QED
      BY <1>0, <1>2, <1>4, <3>1, PutIs
  <2>2. \A k \in Ids : db'[k].ver <= clock /\ (db'[k].rev = 0 => db'[k].ver = 0)
    BY <1>0, <1>2, <2>1 DEF VersionOK, StageOK
  <2>3. ~crossed => \A k \in Ids : k > made => db'[k].rev = 0
    BY <1>0, <1>2, <1>3, <2>1 DEF OwnOK, Ids
  <2>4. CASE op.kind = "delete" /\ Erase(i) /\ UNCHANGED <<ui, running, replacing, expected, history>>
    <3>1. AsideOK'
      BY <1>0, <1>1, <1>4, <2>4 DEF AsideOK
    <3>2. /\ op' \in Operation /\ op'.kind = op.kind /\ op'.from = op.from /\ op'.target = op.target
          /\ op'.rev = op.rev /\ op'.new = op.new /\ op'.at = "erase"
      BY <1>0, <2>4 DEF Operation, Leaving, Erase
    <3>3. ~crossed => OpOK' /\ ManagerOK'
      <4>1. ASSUME ~crossed PROVE OpOK'
        BY <1>0, <1>1, <1>3, <2>1, <2>4, <3>2, <4>1 DEF OpOK, Early, Leaving, Moves, ui, history
      <4>2. ASSUME ~crossed PROVE ManagerOK'
        BY <1>0, <1>1, <1>3, <2>4, <4>2 DEF ManagerOK, ManagerAsks
      <4> QED
        BY <4>1, <4>2
    <3>4. UNCHANGED <<project, dirty, replacing, manager, boot, booted, expected, clock, made>>
          /\ UNCHANGED history
      BY <1>1, <2>4 DEF ui
    <3>5. io' = Ask(i, "op") /\ op' = [op EXCEPT !.at = "erase"] /\ used' = used
      BY <1>4, <2>4 DEF Erase
    <3>6. ~crossed => db'[project.id] = db[project.id]
      BY <1>0, <1>3, <2>1, <2>4
    <3> QED
      BY <1>0, <1>2, <2>1, <2>2, <2>3, <3>1, <3>3, <3>4, <3>5, <3>6, StepsOn
  <2>5. CASE op.kind # "delete" /\ Install(i)
    <3>1. AsideOK'
      BY <1>0, <1>1, <1>4, <2>5 DEF AsideOK, Install
    <3>2. ASSUME ~crossed, manager.at = "put", manager.target.id \notin touched
          PROVE  manager.target.id # op.target.id /\ db'[manager.target.id].rev = manager.rev
      <4>1. /\ manager.target.id # project.id /\ db[manager.target.id].rev = manager.rev /\ manager.rev > 0
            /\ manager.target.id \in Ids
        BY <1>0, <3>2 DEF ManagerOK, StageOK, ManagerAsks
      <4> QED
        BY <1>3, <2>1, <3>2, <4>1
    <3>3. UNCHANGED <<manager, boot, booted, clock, made>>
      BY <1>1
    <3> QED
      BY <1>0, <1>2, <1>3, <2>1, <2>2, <2>3, <2>5, <3>1, <3>2, <3>3, InstallStep
  <2> QED
    BY <1>4, <2>4, <2>5, <1>2, <2>1 DEF NewStored, i, Fits, Abort, Finish
<1>5. CASE /\ IF Fits(op.target, 0) THEN Spend("failures") ELSE UNCHANGED used
           /\ Abort(i, TRUE) /\ UNCHANGED <<ui, expected, db, history>>
  <2>1. used' \in Spending
    BY <1>0, <1>5, SpendKeeps
  <2>2. AsideOK' /\ Finish(i)
    BY <1>0, <1>1, <1>5, <2>1 DEF AsideOK, Abort
  <2>3. UNCHANGED <<project, dirty, manager, boot, booted, expected, db, clock, made>> /\ UNCHANGED history
    BY <1>1, <1>5 DEF ui
  <2> QED
    BY <1>2, <2>2, <2>3, FinishStep
<1> QED
  BY <1>4, <1>5 DEF NewStored, i

LEMMA ErasedStep ==
  ASSUME IInv, Erased
  PROVE  IInv'
<1> DEFINE i == Done(io)
<1>0. /\ TypeOK /\ QueueOK /\ StageOK /\ VersionOK /\ HistoryOK /\ AsideOK
      /\ ~crossed => OpOK /\ OwnOK /\ ManagerOK
      /\ op \in Operation /\ db \in Repository /\ clock \in Nat /\ made \in 2 .. MaxProjects
      /\ op.at = "erase" /\ project \in Project /\ project.id \in Ids
  BY Parts DEF TypeOK, StageOK, Erased
<1>1. UNCHANGED <<plan, locked, engine, leaked, manager, importing, uploads, boot, booted, clock, made, used>>
      /\ Turn("op") /\ db' = Gone(project.id)
  BY DEF Erased
<1>2. Moves /\ op.at # "flush" /\ Ready(i) /\ op.target \in Project /\ op.target.id \in Ids
  BY <1>0, <1>1 DEF StageOK, Moves, Operation, RunAts, RuntimeCalls, Ready, Project
<1>3. /\ db' \in Repository /\ db'[project.id].rev = 0 /\ db'[project.id].ver = 0
      /\ \A k \in Ids \ {project.id} : db'[k] = db[k]
  BY <1>0, <1>1, GoneIs
<1>4. ~crossed =>
        /\ op.target.id <= made /\ op.target.id # project.id
        /\ op.target.id \notin touched =>
             db[op.target.id].rev = op.rev /\ db[op.target.id].ver = op.target.ver
        /\ manager.at # "put"
  BY <1>0, <1>2 DEF OpOK, Leaving, StageOK, ManagerAsks
<1> HIDE DEF i
<1>5. CASE project.id \in Stored /\ Install(i)
  <2>1. AsideOK'
    BY <1>0, <1>1, <1>5 DEF AsideOK, Install
  <2>2. \A k \in Ids : db'[k].ver <= clock /\ (db'[k].rev = 0 => db'[k].ver = 0)
    BY <1>0, <1>3 DEF VersionOK, StageOK
  <2>3. ~crossed => \A k \in Ids : k > made => db'[k].rev = 0
    BY <1>0, <1>3 DEF OwnOK
  <2>4. UNCHANGED <<manager, boot, booted, clock, made>>
    BY <1>1
  <2> QED
    BY <1>2, <1>3, <1>4, <1>5, <2>1, <2>2, <2>3, <2>4, InstallStep
<1>6. CASE project.id \notin Stored /\ Abort(i, TRUE) /\ UNCHANGED <<ui, expected, history>>
  <2>1. db[project.id].rev = 0 /\ db[project.id].ver = 0 /\ db[project.id] \in [rev : Nat, ver : Nat]
    BY <1>0, <1>6 DEF Stored, StageOK, Repository
  <2>2. db' = db
    BY <1>0, <1>1, <2>1 DEF Gone, Repository
  <2>3. AsideOK' /\ Finish(i)
    BY <1>0, <1>1, <1>6 DEF AsideOK, Abort
  <2>4. UNCHANGED <<project, dirty, manager, boot, booted, expected, db, clock, made>> /\ UNCHANGED history
    BY <1>1, <1>6, <2>2 DEF ui
  <2> QED
    BY <1>2, <2>3, <2>4, FinishStep
<1> QED
  BY <1>5, <1>6 DEF Erased, i

-----------------------------------------------------------------------------
(* The invariant holds throughout.                                            *)
LEMMA StepKeeps ==
  ASSUME IInv, [Next]_vars
  PROVE  IInv'
<1>1. CASE Answers
  BY <1>1, SaveStoredStep, SaveRefusedStep, ChangeSteps, BootOpenedStep, BootReadStep, BootActiveStep,
     BootStoredStep, BootDoneStep, RenameDrainedStep, OtherReadStep, OtherWrittenStep, PreparedStep,
     ListedStep, DisposalStep, DisposedStep, CancelledStep, NotDrainedStep, NewStoredStep, ErasedStep,
     OpenedStep, RunSteps DEF Answers
<1>2. CASE Calls
  BY <1>2, ChangeSteps, UnlockedSteps, SaveNowStep, RenameStep, BeginSteps, RunSteps, ManageOtherStep
  DEF Calls
<1>3. CASE EngineFails
  BY <1>3, UnlockedSteps
<1>4. ASSUME NEW i \in Ids, OtherTab(i) PROVE IInv'
  BY <1>4, OtherTabStep
<1>5. CASE UNCHANGED vars
  BY <1>5 DEF vars, ui, native, history, IInv, TypeOK, AsideOK, HistoryOK, QueueOK, StageOK, VersionOK,
     Cover, BootOK, Orderly, OpOK, ManagerOK, OwnOK, RevisionOK, Clean, Left, Moves, Known
<1> QED
  BY <1>1, <1>2, <1>3, <1>4, <1>5 DEF Next

LEMMA Invariant == Spec => []IInv
<1>1. Init => IInv
  BY InitHolds
<1>2. IInv /\ [Next]_vars => IInv'
  BY StepKeeps
<1> QED
  BY <1>1, <1>2, PTL DEF Spec

(* Every variable keeps to its type: the coordinator's queue has transactions *)
(* of its owners only, and a repository entry is never negative.              *)
THEOREM TypeCorrect == Spec => []TypeOK
<1>1. IInv => TypeOK
  BY DEF IInv
<1> QED
  BY <1>1, Invariant, PTL

(* Once the workspace is open, an edit that is not stored is with the         *)
(* coordinator, whatever fails, is replaced or is renamed.                    *)
THEOREM EditsAreCovered == Spec => []EditCovered
<1>1. IInv => EditCovered
  BY DEF IInv, Cover, EditCovered, Covers
<1> QED
  BY <1>1, Invariant, PTL

(* The workspace says that the project is saved only if the repository has    *)
(* this very version.                                                         *)
THEOREM CleanIsStored == Spec => []CleanMeansStored
<1>1. IInv => CleanMeansStored
  BY DEF IInv, Orderly, Clean, Known, CleanMeansStored
<1> QED
  BY <1>1, Invariant, PTL

(* No write of this tab is refused for a revision that the tab itself made.   *)
THEOREM ConflictsAreReal == Spec => []NoFalseConflict
<1>1. ASSUME IInv, ~crossed
      PROVE  /\ io.save # NoSave /\ ~Fits(io.save.snap, io.save.expect) => io.save.snap.id \in touched
             /\ op.at = "store" => Fits(op.target, 0) \/ op.target.id \in touched \cup {project.id}
  <2>1. QueueOK /\ StageOK /\ OpOK /\ OwnOK /\ RevisionOK /\ op \in Operation
    BY <1>1, Parts DEF TypeOK
  <2>2. io.save # NoSave /\ io.save.snap.id \notin touched => Fits(io.save.snap, io.save.expect)
    BY <2>1 DEF OwnOK, Own, RevisionOK, Expects, Fits
  <2>3. op.at = "store" => Moves /\ op.new /\ op.at \in Leaving
    BY <2>1 DEF StageOK, Moves, Operation, RunAts, RuntimeCalls, Leaving
  <2>4. op.at = "store" => Fits(op.target, 0) \/ op.target.id \in touched \cup {project.id}
    BY <2>1, <2>3 DEF OpOK, Fits
  <2> QED
    BY <2>2, <2>4
<1>2. IInv => NoFalseConflict
  BY <1>1 DEF NoFalseConflict
<1> QED
  BY <1>2, Invariant, PTL

(* Nothing but a transition that has left the old project replaces it.        *)
LEMMA ReplacedWhen ==
  ASSUME IInv, booted, [Next]_vars, project'.id # project.id
  PROVE  Moves /\ op.at \in {"drained", "store", "erase"}
<1>0. StageOK /\ op \in Operation /\ boot.at = "done"
  BY Parts DEF TypeOK, StageOK
<1>1. op.at \in {"drained", "store", "erase"} => Moves
  BY <1>0 DEF StageOK, Moves, Operation, RunAts, RuntimeCalls
<1>2. CASE Answers
  <2>1. CASE Cancelled \/ NewStored \/ Erased
    BY <1>1, <2>1 DEF Cancelled, NewStored, Erased
  <2>2. CASE BootOpened \/ BootLast \/ BootRecent \/ BootFallback \/ BootActive \/ BootStored \/ BootDone
    BY <1>0, <2>2 DEF BootOpened, BootLast, BootRecent, BootFallback, BootActive, BootStored, BootDone
  <2>3. CASE Uploaded \/ ModeChanged
    <3>1. Changed(io)
      BY <2>3 DEF Uploaded, ModeChanged
    <3> QED
      BY <3>1 DEF Changed, New
  <2>4. CASE \/ SaveStored \/ SaveRefused \/ RenameDrained \/ OtherRead \/ OtherWritten
             \/ Prepared \/ Listed \/ Disposal \/ Disposed \/ NotDrained \/ Opened
             \/ RunSettles \/ ResetSettles
    <3>1. project' = project
      BY <2>4 DEF SaveStored, SaveRefused, RenameDrained, OtherRead, OtherWritten, Prepared, Listed,
         Disposal, Disposed, NotDrained, Opened, RunSettles, ResetSettles, ui
    <3> QED
      BY <3>1
  <2> QED
    BY <1>2, <2>1, <2>2, <2>3, <2>4 DEF Answers
<1>3. CASE Calls
  <2>1. CASE Edit \/ Rename
    <3>1. CASE Edit
      BY <3>1 DEF Edit, Changed, New
    <3>2. CASE Rename
      BY <3>2 DEF Rename, New
    <3> QED
      BY <2>1, <3>1, <3>2
  <2>2. CASE ~(Edit \/ Rename)
    <3>1. project' = project
      BY <1>3, <2>2 DEF Calls, Upload, SaveNow, Create, Delete, Import, ImportRejected, Pause, Run, Reset,
         Open, Duplicate, ImportRead, ManageOther, Begin, ui
    <3> QED
      BY <3>1
  <2> QED
    BY <2>1, <2>2
<1>4. CASE EngineFails \/ \E i \in Ids : OtherTab(i)
  <2>1. project' = project
    BY <1>4 DEF EngineFails, OtherTab, ui
  <2> QED
    BY <2>1
<1>5. CASE UNCHANGED vars
  BY <1>5 DEF vars, ui
<1> QED
  BY <1>2, <1>3, <1>4, <1>5 DEF Next

(* A project that another takes the place of is left stored as it was: the    *)
(* flush after the disposal covers every edit made before the replacement.    *)
THEOREM ReplacedIsLeftStored == Spec => ReplacedIsStored
<1> DEFINE Stays == (booted /\ project'.id # project.id /\ project.ver \notin late
                     /\ project.id \notin touched /\ used.failures = 0 /\ ~crossed)
                       => db[project.id].ver = project.ver
<1>1. IInv /\ [Next]_vars => Stays
  <2> SUFFICES ASSUME IInv, [Next]_vars, booted, project'.id # project.id, project.ver \notin late,
                      project.id \notin touched, used.failures = 0, ~crossed
               PROVE  db[project.id].ver = project.ver
    OBVIOUS
  <2>1. Moves /\ op.at \in {"drained", "store", "erase"} /\ Left /\ Clean
    BY ReplacedWhen, Parts
  <2> QED
    BY <2>1 DEF Left, Clean, Known
<1>2. IInv /\ [Next]_vars => [Stays]_vars
  BY <1>1
<1> QED
  BY <1>2, Invariant, PTL DEF Spec, ReplacedIsStored
=============================================================================
