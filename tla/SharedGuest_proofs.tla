------------------------- MODULE SharedGuest_proofs -------------------------
(***************************************************************************)
(* That a facade that has stopped has stopped its node, for every number   *)
(* of nodes, of requests on the line and of timers that fire early, and    *)
(* however the calls overlap; and, when they do not, that a facade that    *)
(* runs has its node running, and no other node runs.                      *)
(***************************************************************************)
EXTENDS SharedGuest, TLAPS

(* What labd may still do for n: it runs, or a NODE_START is on its way.      *)
Asked(n) == \E i \in DOMAIN input : input[i].cmd = "NODE_START" /\ input[i].node = n
Hot(n) == ~Down(n) \/ Asked(n)

Begun == Starting \cup {"undo"}      (* A start whose end will say so.         *)
Unwound == {"dhalt", "dhalted", "NODE_DELETE", "destroy"}
Ending == {"undo", "stop", "dstop", "NODE_DELETE"}
Stopping == {"stop", "halt", "halted"}

Callers == Tracks \X Nodes
At(c, x) == c[x[1]][x[2]]

NodesType ==
  /\ rt \in [Nodes -> Lifecycle] /\ registered \subseteq Nodes /\ active \subseteq Nodes
  /\ startup \in [Nodes -> {"none", "pending", "ready", "exited", "failed"}]

CallType == call \in [Tracks -> [Nodes -> Awaits]]

ControlType ==
  queue \in Seq(Callers) /\ head \in {"queued", "sent", "ok", "error"} /\ waiter \in Ids

MachineType ==
  /\ use \in Uses /\ timeouts \in Nat
  /\ prep \in {"none", "load", "boot", "ok", "failed"}
  /\ sealed \in BOOLEAN /\ failed \in BOOLEAN /\ ready \in {"pending", "ok", "failed"}
  /\ destroyed \in BOOLEAN /\ emulator \in {"none", "idle", "running", "stopping"}
  /\ chunk \in BOOLEAN

LabdType ==
  /\ booted \in BOOLEAN
  /\ guest \in [Nodes -> {"off", "starting", "running", "dying", "stuck", "deleted"}]
  /\ input \in Seq(Requests) /\ output \in Seq(Lines)

TypeOK == NodesType /\ CallType /\ ControlType /\ MachineType /\ LabdType

(* The awaits of each track.                                                  *)
TracksOK == \A n \in Nodes :
  /\ call["user"][n] \notin {"dstop", "NODE_DELETE", "dhalt", "dhalted", "destroy"}
  /\ call["release"][n] \notin {"prepare"} \cup Begun

(* controlTail: each operation once, and the first of them has its turn.      *)
Chained == \A i \in DOMAIN queue :
  At(call, queue[i]) \in Asking /\ \A j \in DOMAIN queue : queue[i] = queue[j] => i = j

Answers(i) == output[i].type = "response" /\ output[i].of = waiter

(* The request that x waits for is the last on the line, as long as it is not *)
(* answered, and no other answer can be taken for its own.                    *)
Sole(x) ==
  \A i \in DOMAIN input : input[i].id = waiter =>
    /\ i = Len(input) /\ input[i].node = x[2] /\ input[i].cmd = Command[At(call, x)]
    /\ \A j \in DOMAIN output : ~Answers(j)

(* What x has been told to be over is.                                        *)
Over(x) == At(call, x) \in Ending => ~Hot(x[2])

ControlOK ==
  /\ Chained
  /\ queue = <<>> => head = "queued"
  /\ head = "sent" =>
       Sole(Head(queue)) /\ \A i \in DOMAIN output : Answers(i) => Over(Head(queue))
  /\ head = "ok" => Over(Head(queue))

(* What is stopping does not start, and what has stopped is down.             *)
NodeOK(n) ==
  /\ \A t \in Tracks : call[t][n] \in {"halt", "halted"} => ~Hot(n)
  /\ call["release"][n] \in Stopping => call["user"][n] \notin Begun
  /\ rt[n] = "running" => call["user"][n] \notin Begun
  /\ rt[n] = "running" /\ n \notin active => ~Hot(n) \/ call["release"][n] \in Unwound
  /\ rt[n] \in {"new", "initialized", "stopped"} /\ call["user"][n] \notin Begun => ~Hot(n)
  /\ call["user"][n] \in {"prepare", "bootstrap"} => ~Hot(n)

StopOK == TracksOK /\ ControlOK /\ \A n \in Nodes : NodeOK(n)
StopInv == TypeOK /\ StopOK
-----------------------------------------------------------------------------
(* The sets of names are disjoint where the proofs need it.                   *)
LEMMA Names ==
  /\ Asking = {"NODE_START", "LINK", "undo", "stop", "dstop", "NODE_DELETE"}
  /\ Asking \subseteq Awaits /\ Starting \subseteq Awaits
  /\ {"idle", "prepare", "halt", "halted", "dhalt", "dhalted", "destroy", "bootstrap", "boot",
      "ready"} \subseteq Awaits \ Asking
BY DEF Asking, Command, Awaits, Starting

LEMMA Commands ==
  \A x \in Asking : Command[x] = IF x \in {"undo", "stop", "dstop"} THEN "NODE_STOP" ELSE x
<1>1. \A x \in Asking : x \in {"NODE_START", "LINK", "undo", "stop", "dstop", "NODE_DELETE"}
  BY Names
<1>2. /\ Command["NODE_START"] = "NODE_START" /\ Command["LINK"] = "LINK" /\ Command["undo"] = "NODE_STOP"
      /\ Command["stop"] = "NODE_STOP" /\ Command["dstop"] = "NODE_STOP"
      /\ Command["NODE_DELETE"] = "NODE_DELETE"
  BY DEF Command
<1> QED
  BY <1>1, <1>2

LEMMA HeadTail ==
  ASSUME NEW S, NEW s \in Seq(S), s # <<>>
  PROVE  /\ Tail(s) \in Seq(S) /\ Len(Tail(s)) = Len(s) - 1 /\ Len(s) \in Nat \ {0}
         /\ \A k \in 1 .. Len(s) - 1 : Tail(s)[k] = s[k + 1] /\ k + 1 \in DOMAIN s
         /\ Head(s) = s[1] /\ Head(s) \in S /\ 1 \in DOMAIN s
         /\ DOMAIN Tail(s) = 1 .. Len(s) - 1 /\ DOMAIN s = 1 .. Len(s)
OBVIOUS

LEMMA TailIsNew == ASSUME NEW S, NEW s \in Seq(S), s # <<>> PROVE Tail(s) # s
BY HeadTail

LEMMA AppendIs ==
  ASSUME NEW S, NEW s \in Seq(S), NEW x \in S
  PROVE  /\ Append(s, x) \in Seq(S) /\ Append(s, x) # <<>> /\ Len(Append(s, x)) = Len(s) + 1
         /\ DOMAIN Append(s, x) = 1 .. Len(s) + 1 /\ DOMAIN s = 1 .. Len(s) /\ Len(s) \in Nat
         /\ \A k \in 1 .. Len(s) : Append(s, x)[k] = s[k]
         /\ Append(s, x)[Len(s) + 1] = x
         /\ s # <<>> => Head(Append(s, x)) = Head(s)
<1>1. /\ Append(s, x) \in Seq(S) /\ Len(Append(s, x)) = Len(s) + 1 /\ Len(s) \in Nat
      /\ \A k \in 1 .. Len(s) : Append(s, x)[k] = s[k]
      /\ Append(s, x)[Len(s) + 1] = x
  OBVIOUS
<1>2. DOMAIN Append(s, x) = 1 .. Len(s) + 1 /\ DOMAIN s = 1 .. Len(s) /\ Append(s, x) # <<>>
  BY <1>1
<1>3. s # <<>> => Head(Append(s, x)) = Head(s)
  OBVIOUS
<1> QED
  BY <1>1, <1>2, <1>3

LEMMA IndexIn == ASSUME NEW S, NEW s \in Seq(S), NEW i \in DOMAIN s PROVE s[i] \in S
OBVIOUS

-----------------------------------------------------------------------------
(* One call moves: that of t on n goes on to await pc.                        *)
Moved(t, n, pc) ==
  /\ call' \in [Tracks -> [Nodes -> Awaits]]
  /\ \A u \in Tracks, m \in Nodes : call'[u][m] = IF u = t /\ m = n THEN pc ELSE call[u][m]

LEMMA CallMoves ==
  ASSUME CallType, NEW t \in Tracks, NEW n \in Nodes, NEW pc \in Awaits,
         call' = [call EXCEPT ![t][n] = pc]
  PROVE  Moved(t, n, pc)
BY Zenon DEF CallType, Moved

LEMMA AtMoved ==
  ASSUME NEW t \in Tracks, NEW n \in Nodes, NEW pc, Moved(t, n, pc), NEW x \in Callers
  PROVE  At(call', x) = IF x = <<t, n>> THEN pc ELSE At(call, x)
<1>1. x[1] \in Tracks /\ x[2] \in Nodes /\ x = <<x[1], x[2]>>
  BY DEF Callers
<1> QED
  BY <1>1 DEF At, Moved

(* Nothing is written to the line, or read from it.                           *)
SameLine == UNCHANGED <<guest, input, output>>

LEMMA HotSame ==
  ASSUME SameLine
  PROVE  \A n : Hot(n)' <=> Hot(n)
BY DEF SameLine, Hot, Down, Asked

(* The first operation keeps its turn, or loses it.                           *)
Kept == UNCHANGED waiter /\ (UNCHANGED head \/ (head = "sent" /\ head' = "error"))

LEMMA TurnKept ==
  ASSUME ControlType, ControlOK, SameLine, Kept, queue' \in Seq(Callers), Chained',
         queue # <<>> => /\ queue' # <<>> /\ Head(queue') = Head(queue)
                         /\ At(call', Head(queue)) = At(call, Head(queue))
  PROVE  ControlOK' /\ ControlType'
<1>1. head' \in {"queued", "sent", "ok", "error"} /\ waiter' \in Ids
  BY DEF ControlType, Kept
<1>2. CASE queue = <<>>
  <2>1. head' = "queued"
    BY <1>2 DEF ControlOK, Kept
  <2> QED
    BY <1>1, <2>1 DEF ControlOK, ControlType
<1>3. CASE queue # <<>>
  <2>1. PICK x \in Callers : x = Head(queue)
    BY <1>3, HeadTail DEF ControlType
  <2>2. At(call', x) = At(call, x) /\ Head(queue') = x /\ queue' # <<>>
    BY <1>3, <2>1
  <2>3. Over(x)' <=> Over(x)
    BY <2>2, HotSame DEF Over
  <2>4. waiter' = waiter => (Sole(x) <=> Sole(x)')
    BY <2>2 DEF Sole, SameLine, Answers
  <2>5. waiter' = waiter => \A i : Answers(i)' <=> Answers(i)
    BY DEF Answers, SameLine
  <2>6. ASSUME head' = "sent" PROVE Sole(x)' /\ \A i \in DOMAIN output' : Answers(i)' => Over(x)'
    <3>1. head = "sent" /\ waiter' = waiter
      BY <2>6 DEF Kept
    <3>2. Sole(x) /\ \A i \in DOMAIN output : Answers(i) => Over(x)
      BY <3>1, <2>1 DEF ControlOK
    <3>3. output' = output
      BY DEF SameLine
    <3> QED
      BY <3>1, <3>2, <3>3, <2>3, <2>4, <2>5
  <2>7. head' = "ok" => Over(x)'
    BY <2>3, <2>1 DEF ControlOK, Kept
  <2> QED
    BY <1>1, <2>2, <2>6, <2>7 DEF ControlOK, ControlType
<1> QED
  BY <1>2, <1>3

(* The calls and the queue stay.                                              *)
LEMMA SameTurn ==
  ASSUME ControlType, ControlOK, SameLine, Kept, UNCHANGED <<call, queue>>
  PROVE  ControlOK' /\ ControlType'
<1>1. Chained'
  BY DEF Chained, ControlOK
<1>2. queue' \in Seq(Callers)
  BY DEF ControlType
<1>3. queue # <<>> => /\ queue' # <<>> /\ Head(queue') = Head(queue)
                      /\ At(call', Head(queue)) = At(call, Head(queue))
  OBVIOUS
<1> QED
  BY <1>1, <1>2, <1>3, TurnKept

(* A call that has no operation goes on, and may ask for one.                 *)
LEMMA NewCall ==
  ASSUME CallType, ControlType, ControlOK,
         NEW t \in Tracks, NEW n \in Nodes, NEW pc \in Awaits,
         call[t][n] \notin Asking, Goto(t, n, pc, queue)
  PROVE  /\ Moved(t, n, pc) /\ queue' \in Seq(Callers) /\ Chained'
         /\ queue # <<>> => /\ queue' # <<>> /\ Head(queue') = Head(queue)
                            /\ At(call', Head(queue)) = At(call, Head(queue))
<1>1. Moved(t, n, pc)
  BY CallMoves DEF Goto
<1>2. PICK x \in Callers : x = <<t, n>>
  BY DEF Callers
<1>3. queue \in Seq(Callers) /\ At(call, x) = call[t][n] /\ At(call', x) = pc
  BY <1>1, <1>2 DEF ControlType, At, Moved
<1>4. \A i \in DOMAIN queue : /\ queue[i] \in Callers /\ queue[i] # x
                              /\ At(call', queue[i]) = At(call, queue[i])
                              /\ At(call, queue[i]) \in Asking
  <2> SUFFICES ASSUME NEW i \in DOMAIN queue
               PROVE  /\ queue[i] \in Callers /\ queue[i] # x
                      /\ At(call', queue[i]) = At(call, queue[i])
                      /\ At(call, queue[i]) \in Asking
    OBVIOUS
  <2>1. queue[i] \in Callers
    BY <1>3, IndexIn
  <2>2. At(call, queue[i]) \in Asking
    BY DEF ControlOK, Chained
  <2> QED
    BY <2>1, <2>2, <1>1, <1>2, <1>3, AtMoved
<1>5. \A i, j \in DOMAIN queue : queue[i] = queue[j] => i = j
  BY DEF ControlOK, Chained
<1>6. queue' \in Seq(Callers) /\ Chained'
  <2>1. CASE pc \notin Asking
    <3>1. queue' = queue
      BY <2>1 DEF Goto
    <3> QED
      BY <3>1, <1>3, <1>4, <1>5 DEF Chained
  <2>2. CASE pc \in Asking
    <3>1. queue' = Append(queue, x)
      BY <2>2, <1>2 DEF Goto
    <3>2. queue' \in Seq(Callers) /\ DOMAIN queue' = 1 .. Len(queue) + 1 /\ DOMAIN queue = 1 .. Len(queue)
      BY <3>1, <1>3, AppendIs
    <3>3. Len(queue) \in Nat /\ queue'[Len(queue) + 1] = x /\ \A k \in 1 .. Len(queue) : queue'[k] = queue[k]
      BY <3>1, <1>3, AppendIs
    <3>4. \A i \in DOMAIN queue' : At(call', queue'[i]) \in Asking
      BY <3>2, <3>3, <2>2, <1>3, <1>4
    <3>5. \A i, j \in DOMAIN queue' : queue'[i] = queue'[j] => i = j
      BY <3>2, <3>3, <1>4, <1>5
    <3> QED
      BY <3>2, <3>4, <3>5 DEF Chained
  <2> QED
    BY <2>1, <2>2
<1>7. ASSUME queue # <<>>
      PROVE  /\ queue' # <<>> /\ Head(queue') = Head(queue)
             /\ At(call', Head(queue)) = At(call, Head(queue))
  <2>1. Head(queue) = queue[1] /\ 1 \in DOMAIN queue
    BY <1>7, <1>3, HeadTail
  <2>2. queue' = queue \/ queue' = Append(queue, x)
    BY <1>2 DEF Goto
  <2> QED
    BY <2>1, <2>2, <1>3, <1>4, <1>7, AppendIs
<1> QED
  BY <1>1, <1>6, <1>7

LEMMA NewTurn ==
  ASSUME CallType, ControlType, ControlOK, SameLine, Kept,
         NEW t \in Tracks, NEW n \in Nodes, NEW pc \in Awaits,
         call[t][n] \notin Asking, Goto(t, n, pc, queue)
  PROVE  Moved(t, n, pc) /\ ControlOK' /\ ControlType'
BY NewCall, TurnKept

(* The first operation has settled: its call goes on, perhaps to another.     *)
LEMMA NextTurn ==
  ASSUME CallType, ControlType, ControlOK, head' = "queued", UNCHANGED waiter,
         NEW t \in Tracks, NEW n \in Nodes, NEW pc \in Awaits,
         queue # <<>>, Head(queue) = <<t, n>>, Goto(t, n, pc, Tail(queue))
  PROVE  Moved(t, n, pc) /\ ControlOK' /\ ControlType'
<1>1. Moved(t, n, pc)
  BY CallMoves DEF Goto
<1>2. PICK x \in Callers : x = <<t, n>> /\ x = Head(queue)
  BY DEF Callers
<1>3. queue \in Seq(Callers) /\ At(call', x) = pc
  BY <1>1, <1>2 DEF ControlType, At, Moved
<1>4. /\ Tail(queue) \in Seq(Callers) /\ Len(queue) \in Nat \ {0} /\ x = queue[1]
      /\ DOMAIN Tail(queue) = 1 .. Len(queue) - 1 /\ Len(Tail(queue)) = Len(queue) - 1
      /\ \A k \in DOMAIN Tail(queue) : Tail(queue)[k] = queue[k + 1] /\ k + 1 \in DOMAIN queue
      /\ 1 \in DOMAIN queue
  BY <1>2, <1>3, HeadTail
<1>5. \A i, j \in DOMAIN queue : queue[i] = queue[j] => i = j
  BY DEF ControlOK, Chained
<1>6. PICK q \in Seq(Callers) : q = Tail(queue)
  BY <1>4
<1>7. \A i \in DOMAIN q : q[i] \in Callers /\ q[i] # x /\ At(call', q[i]) \in Asking
  <2> SUFFICES ASSUME NEW i \in DOMAIN q
               PROVE  q[i] \in Callers /\ q[i] # x /\ At(call', q[i]) \in Asking
    OBVIOUS
  <2>1. q[i] \in Callers
    BY IndexIn
  <2>2. q[i] = queue[i + 1] /\ i + 1 \in DOMAIN queue /\ i + 1 # 1
    BY <1>4, <1>6
  <2>3. q[i] # x
    BY <2>2, <1>4, <1>5
  <2>4. At(call, q[i]) \in Asking
    BY <2>2 DEF ControlOK, Chained
  <2> QED
    BY <2>1, <2>3, <2>4, <1>1, <1>2, AtMoved
<1>8. \A i, j \in DOMAIN q : q[i] = q[j] => i = j
  <2> SUFFICES ASSUME NEW i \in DOMAIN q, NEW j \in DOMAIN q, q[i] = q[j] PROVE i = j
    OBVIOUS
  <2>1. i \in 1 .. Len(queue) - 1 /\ j \in 1 .. Len(queue) - 1
    BY <1>4, <1>6
  <2>2. i + 1 = j + 1
    BY <1>4, <1>5, <1>6
  <2> QED
    BY <2>1, <2>2, <1>4
<1>9. queue' \in Seq(Callers) /\ Chained'
  <2>1. CASE pc \notin Asking
    <3>1. queue' = q
      BY <2>1, <1>6 DEF Goto
    <3> QED
      BY <3>1, <1>7, <1>8 DEF Chained
  <2>2. CASE pc \in Asking
    <3>1. queue' = Append(q, x)
      BY <2>2, <1>2, <1>6 DEF Goto
    <3>2. queue' \in Seq(Callers) /\ DOMAIN queue' = 1 .. Len(q) + 1 /\ DOMAIN q = 1 .. Len(q)
      BY <3>1, AppendIs
    <3>3. Len(q) \in Nat /\ queue'[Len(q) + 1] = x /\ \A k \in 1 .. Len(q) : queue'[k] = q[k]
      BY <3>1, AppendIs
    <3>4. \A i \in DOMAIN queue' : At(call', queue'[i]) \in Asking
      BY <3>2, <3>3, <2>2, <1>3, <1>7
    <3>5. \A i, j \in DOMAIN queue' : queue'[i] = queue'[j] => i = j
      BY <3>2, <3>3, <1>7, <1>8
    <3> QED
      BY <3>2, <3>4, <3>5 DEF Chained
  <2> QED
    BY <2>1, <2>2
<1>10. waiter' \in Ids /\ head' \in {"queued", "sent", "ok", "error"}
  BY DEF ControlType
<1> QED
  BY <1>1, <1>9, <1>10 DEF ControlOK, ControlType

-----------------------------------------------------------------------------
(* A node of which no more is asked is as before.                             *)
LEMMA CalmerIsOK ==
  ASSUME NEW m \in Nodes, NodeOK(m), rt'[m] \in {rt[m], "failed"},
         (m \in active' <=> m \in active) \/ rt'[m] # "running",
         Hot(m)' => Hot(m), \A u \in Tracks : call'[u][m] = call[u][m]
  PROVE  NodeOK(m)'
<1>1. "user" \in Tracks /\ "release" \in Tracks
  BY DEF Tracks
<1> QED
  BY <1>1 DEF NodeOK

(* A step of the browser that moves no call.                                  *)
LEMMA Unmoved ==
  ASSUME StopInv, UNCHANGED call, NodesType', MachineType', LabdType', ControlType', ControlOK',
         \A m \in Nodes : /\ rt'[m] \in {rt[m], "failed"}
                          /\ (m \in active' <=> m \in active) \/ rt'[m] # "running"
                          /\ Hot(m)' => Hot(m)
  PROVE  StopInv'
<1>1. CallType' /\ TracksOK'
  BY DEF StopInv, StopOK, TypeOK, CallType, TracksOK
<1>2. \A m \in Nodes : NodeOK(m)'
  BY CalmerIsOK DEF StopInv, StopOK
<1> QED
  BY <1>1, <1>2 DEF StopInv, StopOK, TypeOK

(* A step that moves the call of t on n, and disturbs no other node.          *)
LEMMA MovedOne ==
  ASSUME StopInv, NEW t \in Tracks, NEW n \in Nodes, NEW pc, Moved(t, n, pc),
         NodesType', MachineType', LabdType', ControlType', ControlOK',
         t = "user" => pc \notin {"dstop", "NODE_DELETE", "dhalt", "dhalted", "destroy"},
         t = "release" => pc \notin {"prepare"} \cup Begun,
         \A m \in Nodes \ {n} : /\ rt'[m] \in {rt[m], "failed"}
                                /\ m \in active' <=> m \in active
                                /\ Hot(m)' => Hot(m),
         NodeOK(n)'
  PROVE  StopInv'
<1>1. "user" \in Tracks /\ "release" \in Tracks
  BY DEF Tracks
<1>2. CallType' /\ TracksOK'
  BY <1>1 DEF StopInv, StopOK, TracksOK, Moved, CallType
<1>3. \A m \in Nodes \ {n} : NodeOK(m)'
  <2> SUFFICES ASSUME NEW m \in Nodes \ {n} PROVE NodeOK(m)'
    OBVIOUS
  <2>1. \A u \in Tracks : call'[u][m] = call[u][m]
    BY DEF Moved
  <2> QED
    BY <2>1, CalmerIsOK DEF StopInv, StopOK
<1> QED
  BY <1>2, <1>3 DEF StopInv, StopOK, TypeOK

(* The facts of a state that every step starts from.                          *)
LEMMA Facts ==
  ASSUME StopInv, NEW n \in Nodes
  PROVE  /\ NodesType /\ CallType /\ ControlType /\ MachineType /\ LabdType
         /\ TracksOK /\ ControlOK /\ NodeOK(n)
         /\ "user" \in Tracks /\ "release" \in Tracks
         /\ call["user"][n] \in Awaits /\ call["release"][n] \in Awaits
         /\ rt[n] \in Lifecycle
BY DEF StopInv, StopOK, TypeOK, Tracks, CallType, NodesType

LEMMA LineTyped == ASSUME LabdType, SameLine, UNCHANGED booted PROVE LabdType'
BY DEF LabdType, SameLine

(* #failMachine: every facade fails, and the operation that waits.            *)
LEMMA FailingIs ==
  ASSUME NodesType, MachineType, Failing, UNCHANGED waiter
  PROVE  /\ Kept /\ failed' \in BOOLEAN /\ ready' \in {"pending", "ok", "failed"}
         /\ rt' \in [Nodes -> Lifecycle] /\ \A m \in Nodes : rt'[m] \in {rt[m], "failed"}
         /\ startup' \in [Nodes -> {"none", "pending", "ready", "exited", "failed"}]
<1>1. Kept
  BY DEF Failing, Kept
<1>2. failed' \in BOOLEAN /\ ready' \in {"pending", "ok", "failed"}
  BY DEF Failing, MachineType
<1>3. rt' \in [Nodes -> Lifecycle] /\ \A m \in Nodes : rt'[m] \in {rt[m], "failed"}
  BY DEF Failing, NodesType, Lifecycle
<1>4. startup' \in [Nodes -> {"none", "pending", "ready", "exited", "failed"}]
  BY DEF Failing, NodesType
<1> QED
  BY <1>1, <1>2, <1>3, <1>4

-----------------------------------------------------------------------------
(* initialize() and prepare().                                                *)

LEMMA InitializeStops ==
  ASSUME StopInv, NEW n \in Nodes, Initialize(n)
  PROVE  StopInv'
<1>1. SameLine /\ Kept /\ UNCHANGED booted
  BY DEF Initialize, labd, control, SameLine, Kept
<1>2. Idle(n) /\ rt[n] = "new" /\ UNCHANGED <<rt, active, startup>>
  BY DEF Initialize, MayUse, AllIdle
<1>3. call["user"][n] = "idle" /\ call["release"][n] = "idle"
  BY <1>2, Facts DEF Idle
<1>4. Goto("user", n, "prepare", queue)
  BY Names DEF Initialize, Goto, control
<1>5. Moved("user", n, "prepare") /\ ControlOK' /\ ControlType'
  BY <1>1, <1>3, <1>4, NewTurn, Facts, Names
<1>6. NodesType' /\ MachineType' /\ LabdType'
  BY <1>1, Facts, LineTyped DEF Initialize, NodesType, MachineType
<1>7. NodeOK(n)'
  BY <1>1, <1>2, <1>3, <1>5, Facts, HotSame DEF NodeOK, Moved, Tracks, Begun, Starting, Stopping
<1> QED
  BY <1>1, <1>2, <1>5, <1>6, <1>7, Facts, HotSame, MovedOne DEF Begun, Starting

LEMMA LoadedStops ==
  ASSUME StopInv, Loaded \/ EmulatorReady \/ DownloadError
  PROVE  StopInv'
<1>1. SameLine /\ UNCHANGED <<booted, call, queue, waiter, active, registered, sealed, destroyed>>
  BY DEF Loaded, EmulatorReady, DownloadError, labd, SameLine
<1>2. NodesType /\ MachineType /\ LabdType /\ ControlType /\ ControlOK
  BY DEF StopInv, StopOK, TypeOK
<1>3. \/ Failing
      \/ UNCHANGED <<failed, ready, head, startup, rt>>
  BY DEF Loaded, EmulatorReady, DownloadError
<1>4. Kept /\ (\A m \in Nodes : rt'[m] \in {rt[m], "failed"}) /\ NodesType'
        /\ failed' \in BOOLEAN /\ ready' \in {"pending", "ok", "failed"}
  <2>1. CASE Failing
    BY <2>1, <1>1, <1>2, FailingIs DEF NodesType
  <2>2. CASE UNCHANGED <<failed, ready, head, startup, rt>>
    BY <2>2, <1>1, <1>2 DEF NodesType, MachineType, Kept
  <2> QED
    BY <1>3, <2>1, <2>2
<1>5. MachineType' /\ LabdType'
  BY <1>1, <1>2, <1>4, LineTyped DEF MachineType, Loaded, EmulatorReady, DownloadError
<1>6. ControlOK' /\ ControlType'
  BY <1>1, <1>2, <1>4, SameTurn
<1> QED
  BY <1>1, <1>4, <1>5, <1>6, HotSame, Unmoved

LEMMA InitializedStops ==
  ASSUME StopInv, NEW n \in Nodes, Initialized(n)
  PROVE  StopInv'
<1>1. SameLine /\ Kept /\ UNCHANGED booted
  BY DEF Initialized, labd, control, SameLine, Kept
<1>2. call["user"][n] = "prepare" /\ UNCHANGED <<active, startup, registered>>
  BY DEF Initialized
<1>3. Goto("user", n, "idle", queue)
  BY Names DEF Initialized, Goto, control
<1>4. Moved("user", n, "idle") /\ ControlOK' /\ ControlType'
  BY <1>1, <1>2, <1>3, NewTurn, Facts, Names
<1>5. /\ rt' \in [Nodes -> Lifecycle] /\ rt'[n] \in {"initialized", "failed"}
      /\ \A m \in Nodes \ {n} : rt'[m] = rt[m]
  BY Facts DEF Initialized, NodesType, Lifecycle
<1>6. NodesType' /\ MachineType' /\ LabdType'
  BY <1>1, <1>2, <1>5, Facts, LineTyped DEF Initialized, machine, NodesType, MachineType
<1>7. NodeOK(n)'
  BY <1>1, <1>2, <1>4, <1>5, Facts, HotSame DEF NodeOK, Moved, Tracks, Begun, Starting, Stopping
<1> QED
  BY <1>1, <1>2, <1>4, <1>5, <1>6, <1>7, Facts, HotSame, MovedOne DEF Begun, Starting

-----------------------------------------------------------------------------
(* start() and startNode().                                                   *)

LEMMA StartStops ==
  ASSUME StopInv, NEW n \in Nodes, Start(n)
  PROVE  StopInv'
<1>1. SameLine /\ UNCHANGED <<booted, queue, waiter, active, registered>>
  BY DEF Start, labd, SameLine
<1>2. Idle(n) /\ rt[n] \in {"initialized", "stopped"}
  BY DEF Start, MayUse, AllIdle
<1>3. call["user"][n] = "idle" /\ call["release"][n] = "idle"
  BY <1>2, Facts DEF Idle
<1>4. CASE Failing /\ UNCHANGED <<call, emulator>>
  <2>1. Kept /\ (\A m \in Nodes : rt'[m] \in {rt[m], "failed"}) /\ NodesType'
          /\ failed' \in BOOLEAN /\ ready' \in {"pending", "ok", "failed"}
    BY <1>1, <1>4, Facts, FailingIs DEF NodesType
  <2>2. MachineType' /\ LabdType'
    BY <1>1, <1>4, <2>1, Facts, LineTyped DEF MachineType, Start
  <2>3. ControlOK' /\ ControlType'
    BY <1>1, <1>4, <2>1, Facts, SameTurn
  <2> QED
    BY <1>1, <1>4, <2>1, <2>2, <2>3, HotSame, Unmoved
<1>5. CASE \E pc \in {"bootstrap", "boot"} :
             /\ call' = [call EXCEPT !["user"][n] = pc]
             /\ emulator' \in {emulator, "running"}
             /\ UNCHANGED <<rt, startup, head, failed, ready>>
  <2>1. PICK pc \in {"bootstrap", "boot"} : call' = [call EXCEPT !["user"][n] = pc]
    BY <1>5
  <2>2. Goto("user", n, pc, queue)
    BY <1>1, <2>1, Names DEF Goto
  <2>3. Moved("user", n, pc) /\ ControlOK' /\ ControlType'
    BY <1>1, <1>3, <1>5, <2>2, NewTurn, Facts, Names DEF Kept
  <2>4. NodesType' /\ MachineType' /\ LabdType'
    BY <1>1, <1>5, Facts, LineTyped DEF Start, NodesType, MachineType
  <2>5. NodeOK(n)'
    BY <1>1, <1>2, <1>3, <1>5, <2>3, Facts, HotSame DEF NodeOK, Moved, Tracks, Begun, Starting, Stopping
  <2> QED
    BY <1>1, <1>5, <2>3, <2>4, <2>5, Facts, HotSame, MovedOne DEF Begun, Starting
<1>6. CASE Reject(n) /\ UNCHANGED <<startup, head, failed, ready, emulator>>
  <2>1. Goto("user", n, "idle", queue)
    BY <1>1, <1>6, Names DEF Goto, Reject
  <2>2. Moved("user", n, "idle") /\ ControlOK' /\ ControlType'
    BY <1>1, <1>3, <1>6, <2>1, NewTurn, Facts, Names DEF Kept
  <2>3. rt' \in [Nodes -> Lifecycle] /\ rt'[n] = "failed" /\ \A m \in Nodes \ {n} : rt'[m] = rt[m]
    BY <1>6, Facts DEF Reject, NodesType, Lifecycle
  <2>4. NodesType' /\ MachineType' /\ LabdType'
    BY <1>1, <1>6, <2>3, Facts, LineTyped DEF Start, NodesType, MachineType
  <2>5. NodeOK(n)'
    BY <1>1, <1>3, <2>2, <2>3, Facts, HotSame DEF NodeOK, Moved, Tracks, Begun, Starting, Stopping
  <2> QED
    BY <1>1, <2>2, <2>3, <2>4, <2>5, Facts, HotSame, MovedOne DEF Begun, Starting
<1> QED
  BY <1>4, <1>5, <1>6 DEF Start

LEMMA BootstrappedStops ==
  ASSUME StopInv, NEW n \in Nodes, Bootstrapped(n)
  PROVE  StopInv'
<1>1. SameLine /\ UNCHANGED <<booted, queue, waiter, active, registered>>
  BY DEF Bootstrapped, labd, SameLine
<1>2. call["user"][n] = "bootstrap"
  BY DEF Bootstrapped
<1>3. PICK pc \in {"boot", "idle"} : call' = [call EXCEPT !["user"][n] = pc]
  BY DEF Bootstrapped
<1>4. Kept /\ (\A m \in Nodes : rt'[m] \in {rt[m], "failed"}) /\ NodesType'
        /\ failed' \in BOOLEAN /\ ready' \in {"pending", "ok", "failed"}
  <2>1. CASE Failing
    BY <2>1, <1>1, Facts, FailingIs DEF NodesType
  <2>2. CASE UNCHANGED <<failed, ready, head, startup, rt>>
    BY <2>2, <1>1, Facts DEF NodesType, MachineType, Kept
  <2> QED
    BY <2>1, <2>2 DEF Bootstrapped
<1>5. Goto("user", n, pc, queue)
  BY <1>1, <1>3, Names DEF Goto
<1>6. Moved("user", n, pc) /\ ControlOK' /\ ControlType'
  BY <1>1, <1>2, <1>4, <1>5, NewTurn, Facts, Names
<1>7. MachineType' /\ LabdType'
  BY <1>1, <1>4, Facts, LineTyped DEF Bootstrapped, MachineType
<1>8. NodeOK(n)'
  BY <1>1, <1>2, <1>4, <1>6, Facts, HotSame DEF NodeOK, Moved, Tracks, Begun, Starting, Stopping
<1> QED
  BY <1>1, <1>4, <1>6, <1>7, <1>8, Facts, HotSame, MovedOne DEF Begun, Starting

(* A start that fails leaves its node failed.                                 *)
LEMMA RejectStops ==
  ASSUME StopInv, NEW n \in Nodes, SameLine, UNCHANGED <<booted, registered>>,
         rt' = [rt EXCEPT ![n] = "failed"], MachineType', startup' \in [Nodes -> {"none", "pending", "ready", "exited", "failed"}],
         active' \in {active, active \ {n}}, Moved("user", n, "idle"), ControlOK', ControlType'
  PROVE  StopInv'
<1>1. rt' \in [Nodes -> Lifecycle] /\ rt'[n] = "failed" /\ \A m \in Nodes \ {n} : rt'[m] = rt[m]
  BY Facts DEF NodesType, Lifecycle
<1>2. NodesType' /\ LabdType'
  BY <1>1, Facts, LineTyped DEF NodesType
<1>3. NodeOK(n)'
  BY <1>1, Facts, HotSame DEF NodeOK, Moved, Tracks, Begun, Starting, Stopping
<1> QED
  BY <1>1, <1>2, <1>3, Facts, HotSame, MovedOne DEF Begun, Starting

LEMMA BootedStops ==
  ASSUME StopInv, NEW n \in Nodes, Booted(n)
  PROVE  StopInv'
<1>1. SameLine /\ Kept /\ UNCHANGED <<booted, active, registered>>
  BY DEF Booted, labd, SameLine, Kept
<1>2. call["user"][n] = "boot"
  BY DEF Booted
<1>3. MachineType'
  BY Facts DEF Booted, machine, MachineType
<1>4. CASE Reject(n) /\ UNCHANGED <<startup, queue>>
  <2>1. Goto("user", n, "idle", queue)
    BY <1>1, <1>4, Names DEF Goto, Reject
  <2>2. Moved("user", n, "idle") /\ ControlOK' /\ ControlType'
    BY <1>1, <1>2, <2>1, NewTurn, Facts, Names
  <2> QED
    BY <1>1, <1>3, <1>4, <2>2, RejectStops, Facts DEF Reject, NodesType
<1>5. CASE /\ startup' = [startup EXCEPT ![n] = "pending"]
           /\ Goto("user", n, "NODE_START", queue)
           /\ UNCHANGED rt
  <2>1. Moved("user", n, "NODE_START") /\ ControlOK' /\ ControlType'
    BY <1>1, <1>2, <1>5, NewTurn, Facts, Names
  <2>2. NodesType' /\ LabdType'
    BY <1>1, <1>5, Facts, LineTyped DEF NodesType
  <2>3. NodeOK(n)'
    BY <1>1, <1>2, <1>5, <2>1, Facts, HotSame DEF NodeOK, Moved, Tracks, Begun, Starting, Stopping
  <2> QED
    BY <1>1, <1>3, <1>5, <2>1, <2>2, <2>3, Facts, HotSame, MovedOne DEF Begun, Starting
<1> QED
  BY <1>4, <1>5 DEF Booted

LEMMA BootTimeoutStops ==
  ASSUME StopInv, NEW n \in Nodes, BootTimeout(n)
  PROVE  StopInv'
<1>1. SameLine /\ Kept /\ UNCHANGED <<booted, active, registered, startup>>
  BY DEF BootTimeout, labd, control, SameLine, Kept
<1>2. call["user"][n] = "boot" /\ Reject(n)
  BY DEF BootTimeout
<1>3. MachineType'
  BY Facts DEF BootTimeout, machine, MachineType, Fire
<1>4. Goto("user", n, "idle", queue)
  BY <1>2, Names DEF BootTimeout, control, Goto, Reject
<1>5. Moved("user", n, "idle") /\ ControlOK' /\ ControlType'
  BY <1>1, <1>2, <1>4, NewTurn, Facts, Names
<1> QED
  BY <1>1, <1>2, <1>3, <1>5, RejectStops, Facts DEF Reject, NodesType

(* The catch of startNode, whatever it is that the start awaited.             *)
LEMMA StartFailsStops ==
  ASSUME StopInv, NEW n \in Nodes, NEW q, StartFails(n, q), SameLine,
         UNCHANGED <<booted, registered>>, MachineType', call["user"][n] \in Begun,
         \A pc \in {"undo", "idle"} : Goto("user", n, pc, q) =>
            Moved("user", n, pc) /\ ControlOK' /\ ControlType'
  PROVE  StopInv'
<1>1. CASE Goto("user", n, "undo", q) /\ UNCHANGED <<rt, startup>> /\ active' = active \ {n}
  <2>1. Moved("user", n, "undo") /\ ControlOK' /\ ControlType'
    BY <1>1
  <2>2. NodesType' /\ LabdType'
    BY <1>1, Facts, LineTyped DEF NodesType
  <2>3. NodeOK(n)'
    BY <1>1, <2>1, Facts, HotSame DEF NodeOK, Moved, Tracks, Begun, Starting, Stopping
  <2> QED
    BY <1>1, <2>1, <2>2, <2>3, Facts, HotSame, MovedOne DEF Begun, Starting
<1>2. CASE Reject(n) /\ queue' = q /\ startup' = [startup EXCEPT ![n] = "none"] /\ active' = active \ {n}
  <2>1. Goto("user", n, "idle", q)
    BY <1>2, Names DEF Goto, Reject
  <2>2. startup' \in [Nodes -> {"none", "pending", "ready", "exited", "failed"}]
    BY <1>2, Facts DEF NodesType
  <2> QED
    BY <1>2, <2>1, <2>2, RejectStops DEF Reject
<1> QED
  BY <1>1, <1>2 DEF StartFails

LEMMA ReadyStops ==
  ASSUME StopInv, NEW n \in Nodes, Ready(n) \/ ReadyTimeout(n)
  PROVE  StopInv'
<1>1. SameLine /\ Kept /\ UNCHANGED <<booted, registered>>
  BY DEF Ready, ReadyTimeout, labd, SameLine, Kept
<1>2. call["user"][n] = "ready"
  BY DEF Ready, ReadyTimeout
<1>3. MachineType'
  BY Facts DEF Ready, ReadyTimeout, machine, MachineType, Fire
<1>4. \A pc \in {"undo", "idle", "LINK"} : Goto("user", n, pc, queue) =>
        Moved("user", n, pc) /\ ControlOK' /\ ControlType'
  BY <1>1, <1>2, NewTurn, Facts, Names
<1>5. CASE StartFails(n, queue)
  BY <1>1, <1>2, <1>3, <1>4, <1>5, StartFailsStops DEF Begun, Starting
<1>6. CASE Goto("user", n, "LINK", queue) /\ UNCHANGED <<rt, active, startup>>
  <2>1. Moved("user", n, "LINK") /\ ControlOK' /\ ControlType'
    BY <1>4, <1>6
  <2>2. NodesType' /\ LabdType'
    BY <1>1, <1>6, Facts, LineTyped DEF NodesType
  <2>3. NodeOK(n)'
    BY <1>1, <1>2, <1>6, <2>1, Facts, HotSame DEF NodeOK, Moved, Tracks, Begun, Starting, Stopping
  <2> QED
    BY <1>1, <1>3, <1>6, <2>1, <2>2, <2>3, Facts, HotSame, MovedOne DEF Begun, Starting
<1> QED
  BY <1>5, <1>6 DEF Ready, ReadyTimeout

-----------------------------------------------------------------------------
(* The first operation has settled.                                           *)

LEMMA StartSettledStops ==
  ASSUME StopInv, NEW n \in Nodes, StartSettled(n) \/ LinkSettled(n)
  PROVE  StopInv'
<1>1. SameLine /\ UNCHANGED <<booted, registered, waiter>> /\ head' = "queued"
  BY DEF StartSettled, LinkSettled, labd, SameLine
<1>2. call["user"][n] \in {"NODE_START", "LINK"} /\ queue # <<>> /\ Head(queue) = <<"user", n>>
  BY DEF StartSettled, LinkSettled, Settled
<1>3. MachineType'
  BY Facts DEF StartSettled, LinkSettled, machine, MachineType
<1>4. \A pc \in {"undo", "idle", "ready"} : Goto("user", n, pc, Tail(queue)) =>
        Moved("user", n, pc) /\ ControlOK' /\ ControlType'
  BY <1>1, <1>2, NextTurn, Facts, Names
<1>5. CASE StartFails(n, Tail(queue))
  BY <1>1, <1>2, <1>3, <1>4, <1>5, StartFailsStops DEF Begun, Starting
<1>6. CASE Goto("user", n, "ready", Tail(queue)) /\ UNCHANGED <<rt, active, startup>>
  <2>1. Moved("user", n, "ready") /\ ControlOK' /\ ControlType'
    BY <1>4, <1>6
  <2>2. NodesType' /\ LabdType'
    BY <1>1, <1>6, Facts, LineTyped DEF NodesType
  <2>3. NodeOK(n)'
    BY <1>1, <1>2, <1>6, <2>1, Facts, HotSame DEF NodeOK, Moved, Tracks, Begun, Starting, Stopping
  <2> QED
    BY <1>1, <1>3, <1>6, <2>1, <2>2, <2>3, Facts, HotSame, MovedOne DEF Begun, Starting
<1>7. CASE /\ active' = active \cup {n}
           /\ startup' = [startup EXCEPT ![n] = "none"]
           /\ rt' = [rt EXCEPT ![n] = "running"]
           /\ Goto("user", n, "idle", Tail(queue))
  <2>1. Moved("user", n, "idle") /\ ControlOK' /\ ControlType'
    BY <1>4, <1>7
  <2>2. rt' \in [Nodes -> Lifecycle] /\ rt'[n] = "running" /\ \A m \in Nodes \ {n} : rt'[m] = rt[m]
    BY <1>7, Facts DEF NodesType, Lifecycle
  <2>3. NodesType' /\ LabdType'
    BY <1>1, <1>7, <2>2, Facts, LineTyped DEF NodesType
  <2>4. NodeOK(n)'
    BY <1>1, <1>2, <1>7, <2>1, <2>2, Facts, HotSame DEF NodeOK, Moved, Tracks, Begun, Starting, Stopping
  <2> QED
    BY <1>1, <1>3, <1>7, <2>1, <2>2, <2>3, <2>4, Facts, HotSame, MovedOne DEF Begun, Starting
<1> QED
  BY <1>5, <1>6, <1>7 DEF StartSettled, LinkSettled

LEMMA UndoSettledStops ==
  ASSUME StopInv, NEW n \in Nodes, UndoSettled(n)
  PROVE  StopInv'
<1>1. SameLine /\ UNCHANGED <<booted, registered, waiter, active>> /\ head' = "queued" /\ Reject(n)
  BY DEF UndoSettled, labd, SameLine
<1>2. queue # <<>> /\ Head(queue) = <<"user", n>>
  BY DEF UndoSettled, Settled
<1>3. Goto("user", n, "idle", Tail(queue))
  BY <1>1, Names DEF UndoSettled, Goto, Reject
<1>4. Moved("user", n, "idle") /\ ControlOK' /\ ControlType'
  BY <1>1, <1>2, <1>3, NextTurn, Facts, Names
<1>5. MachineType' /\ startup' \in [Nodes -> {"none", "pending", "ready", "exited", "failed"}]
  BY Facts DEF UndoSettled, machine, MachineType, NodesType
<1> QED
  BY <1>1, <1>4, <1>5, RejectStops DEF Reject

-----------------------------------------------------------------------------
(* stop() and stopNode().                                                     *)

LEMMA StopStops ==
  ASSUME StopInv, NEW t \in Tracks, NEW n \in Nodes, Stop(t, n)
  PROVE  StopInv'
<1>1. SameLine /\ Kept /\ UNCHANGED <<booted, registered, active, startup>>
  BY DEF Stop, labd, SameLine, Kept
<1>2. call[t][n] = "idle" /\ rt[n] = "running" /\ (t = "user" => call["release"][n] = "idle")
  BY Facts DEF Stop, MayUse, MayRelease, AllIdle, Idle
<1>3. MachineType'
  BY Facts DEF Stop, machine, MachineType
<1>4. CASE n \in active /\ Goto(t, n, "stop", queue) /\ UNCHANGED rt
  <2>1. Moved(t, n, "stop") /\ ControlOK' /\ ControlType'
    BY <1>1, <1>2, <1>4, NewTurn, Facts, Names
  <2>2. NodesType' /\ LabdType'
    BY <1>1, <1>4, Facts, LineTyped DEF NodesType
  <2>3. NodeOK(n)'
    BY <1>1, <1>2, <1>4, <2>1, Facts, HotSame DEF NodeOK, Moved, Tracks, Begun, Starting, Stopping
  <2> QED
    BY <1>1, <1>3, <1>4, <2>1, <2>2, <2>3, Facts, HotSame, MovedOne DEF Begun, Starting
<1>5. CASE n \notin active /\ rt' = [rt EXCEPT ![n] = "stopped"] /\ UNCHANGED <<call, queue>>
  <2>1. ControlOK' /\ ControlType'
    BY <1>1, <1>5, SameTurn, Facts
  <2>2. rt' \in [Nodes -> Lifecycle] /\ rt'[n] = "stopped" /\ \A m \in Nodes \ {n} : rt'[m] = rt[m]
    BY <1>5, Facts DEF NodesType, Lifecycle
  <2>3. NodesType' /\ LabdType'
    BY <1>1, <2>2, Facts, LineTyped DEF NodesType
  <2>4. Moved(t, n, "idle")
    BY <1>2, <1>5, Facts, Names DEF Moved, CallType
  <2>5. NodeOK(n)'
    BY <1>1, <1>2, <1>5, <2>2, Facts, HotSame DEF NodeOK, Tracks, Begun, Starting, Stopping, Unwound
  <2> QED
    BY <1>1, <1>3, <2>1, <2>2, <2>3, <2>4, <2>5, Facts, HotSame, MovedOne DEF Begun, Starting
<1> QED
  BY <1>4, <1>5 DEF Stop

LEMMA StopSettledStops ==
  ASSUME StopInv, NEW t \in Tracks, NEW n \in Nodes, StopSettled(t, n)
  PROVE  StopInv'
<1>1. SameLine /\ UNCHANGED <<booted, registered, startup, waiter>> /\ head' = "queued"
  BY DEF StopSettled, labd, SameLine
<1>2. queue # <<>> /\ Head(queue) = <<t, n>> /\ queue' = Tail(queue) /\ call[t][n] = "stop"
  BY DEF StopSettled, Settled
<1>3. PICK pc \in {"idle", "halt"} :
        /\ call' = [call EXCEPT ![t][n] = pc]
        /\ \/ head = "error" /\ pc = "idle" /\ UNCHANGED <<rt, active>>
           \/ head = "ok" /\ active' = active \ {n} /\ pc = "halt" /\ UNCHANGED rt
           \/ head = "ok" /\ active' = active \ {n} /\ rt' = [rt EXCEPT ![n] = "stopped"] /\ pc = "idle"
  BY DEF StopSettled
<1>4. Goto(t, n, pc, Tail(queue))
  BY <1>2, <1>3, Names DEF Goto
<1>5. Moved(t, n, pc) /\ ControlOK' /\ ControlType'
  BY <1>1, <1>2, <1>4, NextTurn, Facts, Names
<1>6. head = "ok" => ~Hot(n)
  <2>1. PICK x \in Callers : x = <<t, n>>
    BY DEF Callers
  <2>2. At(call, x) = "stop"
    BY <1>2, <2>1 DEF At
  <2> QED
    BY <1>2, <2>1, <2>2, Facts DEF ControlOK, Over, Ending
<1>7. /\ rt' \in [Nodes -> Lifecycle] /\ \A m \in Nodes \ {n} : rt'[m] = rt[m]
      /\ rt'[n] = rt[n] \/ (head = "ok" /\ rt'[n] = "stopped")
      /\ active' = active \/ (head = "ok" /\ active' = active \ {n})
  BY <1>3, Facts DEF NodesType, Lifecycle
<1>8. NodesType' /\ MachineType' /\ LabdType'
  BY <1>1, <1>7, Facts, LineTyped DEF NodesType, MachineType, StopSettled
<1>9. NodeOK(n)'
  BY <1>1, <1>2, <1>3, <1>5, <1>6, <1>7, Facts, HotSame
    DEF NodeOK, Moved, Tracks, Begun, Starting, Stopping, Unwound
<1> QED
  BY <1>1, <1>5, <1>7, <1>8, <1>9, Facts, HotSame, MovedOne DEF Begun, Starting

LEMMA HaltedStops ==
  ASSUME StopInv, NEW t \in Tracks, NEW n \in Nodes, Halted(t, n)
  PROVE  StopInv'
<1>1. SameLine /\ Kept /\ UNCHANGED <<booted, registered, startup, active>>
  BY DEF Halted, labd, control, SameLine, Kept
<1>2. call[t][n] = "halted"
  BY DEF Halted
<1>3. Goto(t, n, "idle", queue)
  BY Names DEF Halted, control, Goto
<1>4. Moved(t, n, "idle") /\ ControlOK' /\ ControlType'
  BY <1>1, <1>2, <1>3, NewTurn, Facts, Names
<1>5. rt' \in [Nodes -> Lifecycle] /\ rt'[n] = "stopped" /\ \A m \in Nodes \ {n} : rt'[m] = rt[m]
  BY Facts DEF Halted, NodesType, Lifecycle
<1>6. NodesType' /\ MachineType' /\ LabdType'
  BY <1>1, <1>5, Facts, LineTyped DEF Halted, machine, NodesType, MachineType
<1>7. NodeOK(n)'
  BY <1>1, <1>2, <1>4, <1>5, Facts, HotSame DEF NodeOK, Moved, Tracks, Begun, Starting, Stopping
<1> QED
  BY <1>1, <1>4, <1>5, <1>6, <1>7, Facts, HotSame, MovedOne DEF Begun, Starting

(* Every call that awaits emulator.stop() goes on.                            *)
LEMMA EmulatorStoppedStops ==
  ASSUME StopInv, EmulatorStopped
  PROVE  StopInv'
<1>1. SameLine /\ Kept /\ UNCHANGED <<booted, queue, rt, registered, active, startup>>
  BY DEF EmulatorStopped, labd, control, nodes, SameLine, Kept
<1>2. NodesType /\ MachineType /\ LabdType /\ ControlType /\ ControlOK /\ CallType /\ TracksOK
  BY DEF StopInv, StopOK, TypeOK
<1>3. \A t \in Tracks, m \in Nodes :
        call'[t][m] = CASE call[t][m] = "halt" -> "halted"
                        [] call[t][m] = "dhalt" -> "dhalted"
                        [] OTHER -> call[t][m]
  BY DEF EmulatorStopped
<1>4. CallType'
  <2>1. \A t \in Tracks, m \in Nodes : call[t][m] \in Awaits
    BY <1>2 DEF CallType
  <2>2. "halted" \in Awaits /\ "dhalted" \in Awaits
    BY DEF Awaits
  <2> QED
    BY <2>1, <2>2 DEF CallType, EmulatorStopped
<1>5. \A x \in Callers : At(call, x) \in Asking => At(call', x) = At(call, x)
  <2> SUFFICES ASSUME NEW x \in Callers, At(call, x) \in Asking PROVE At(call', x) = At(call, x)
    OBVIOUS
  <2>1. x[1] \in Tracks /\ x[2] \in Nodes
    BY DEF Callers
  <2> QED
    BY <1>3, <2>1, Names DEF At
<1>6. \A i \in DOMAIN queue : queue[i] \in Callers /\ At(call, queue[i]) \in Asking
  BY <1>2, IndexIn DEF ControlType, ControlOK, Chained
<1>7. Chained'
  BY <1>1, <1>2, <1>5, <1>6 DEF ControlOK, Chained
<1>8. queue # <<>> => At(call', Head(queue)) = At(call, Head(queue))
  BY <1>2, <1>5, <1>6, HeadTail DEF ControlType
<1>9. ControlOK' /\ ControlType'
  BY <1>1, <1>2, <1>7, <1>8, TurnKept DEF ControlType
<1>10. NodesType' /\ MachineType' /\ LabdType'
  BY <1>1, <1>2, LineTyped DEF EmulatorStopped, NodesType, MachineType
<1>11. "user" \in Tracks /\ "release" \in Tracks
  BY DEF Tracks
<1>12. TracksOK'
  BY <1>2, <1>3, <1>11 DEF TracksOK, Begun, Starting
<1>13. \A m \in Nodes : NodeOK(m)'
  <2> SUFFICES ASSUME NEW m \in Nodes PROVE NodeOK(m)'
    OBVIOUS
  <2>1. NodeOK(m) /\ rt'[m] = rt[m] /\ (m \in active' <=> m \in active) /\ (Hot(m)' <=> Hot(m))
    BY <1>1, Facts, HotSame
  <2>2. \A t \in Tracks : call'[t][m] = call[t][m]
          \/ (call[t][m] = "halt" /\ call'[t][m] = "halted")
          \/ (call[t][m] = "dhalt" /\ call'[t][m] = "dhalted")
    BY <1>3
  <2> QED
    BY <1>11, <2>1, <2>2 DEF NodeOK, Begun, Starting, Stopping, Unwound
<1> QED
  BY <1>4, <1>9, <1>10, <1>12, <1>13 DEF StopInv, StopOK, TypeOK

-----------------------------------------------------------------------------
(* dispose() and disposeNode().                                               *)

(* q is the queue as the release of n finds it: as it is, or behind its own   *)
(* operation, which has settled.                                              *)
Free(n, q) ==
  \/ q = queue /\ call["release"][n] \notin Asking
  \/ q = Tail(queue) /\ queue # <<>> /\ Head(queue) = <<"release", n>>

(* The release of n goes on, and nothing changes on the line.                 *)
LEMMA ReleaseTurn ==
  ASSUME StopInv, NEW n \in Nodes, NEW q, Free(n, q), NEW pc \in Awaits,
         Goto("release", n, pc, q), SameLine, UNCHANGED waiter,
         head' = IF q = queue THEN head ELSE "queued"
  PROVE  Moved("release", n, pc) /\ ControlOK' /\ ControlType'
<1>1. CASE q = queue /\ call["release"][n] \notin Asking
  BY <1>1, NewTurn, Facts DEF Kept
<1>2. CASE q = Tail(queue) /\ queue # <<>> /\ Head(queue) = <<"release", n>>
  <2>1. head' = "queued"
    BY <1>2, TailIsNew, Facts DEF ControlType
  <2> QED
    BY <1>2, <2>1, NextTurn, Facts
<1> QED
  BY <1>1, <1>2 DEF Free

(* ... or the line is cleared with the machine.                               *)
LEMMA ClearTurn ==
  ASSUME StopInv, NEW n \in Nodes, NEW q, Free(n, q), NEW pc \in Awaits \ Asking,
         Goto("release", n, pc, q), UNCHANGED waiter,
         head' = IF q # queue THEN "queued" ELSE IF head = "sent" THEN "error" ELSE head,
         \A m \in Nodes : ~Hot(m)'
  PROVE  Moved("release", n, pc) /\ ControlOK' /\ ControlType'
<1>1. CASE q = queue /\ call["release"][n] \notin Asking
  <2>1. /\ Moved("release", n, pc) /\ queue' \in Seq(Callers) /\ Chained' /\ queue' = queue
        /\ queue # <<>> => /\ queue' # <<>> /\ Head(queue') = Head(queue)
                            /\ At(call', Head(queue)) = At(call, Head(queue))
    BY <1>1, NewCall, Facts DEF Goto
  <2>2. head' \in {"queued", "ok", "error"} /\ waiter' \in Ids /\ (queue' = <<>> => head' = "queued")
    BY <1>1, <2>1, Facts DEF ControlType, ControlOK
  <2>3. ASSUME queue # <<>> PROVE Over(Head(queue))'
    <3>1. PICK x \in Callers : x = Head(queue)
      BY <2>3, Facts, HeadTail DEF ControlType
    <3>2. x[2] \in Nodes
      BY DEF Callers
    <3>3. Over(x)'
      BY <3>2 DEF Over
    <3> QED
      BY <3>1, <3>3, <2>1, <2>3 DEF Over
  <2> QED
    BY <2>1, <2>2, <2>3 DEF ControlOK, ControlType
<1>2. CASE q = Tail(queue) /\ queue # <<>> /\ Head(queue) = <<"release", n>>
  <2>1. head' = "queued"
    BY <1>2, TailIsNew, Facts DEF ControlType
  <2> QED
    BY <1>2, <2>1, NextTurn, Facts
<1> QED
  BY <1>1, <1>2 DEF Free

(* What the release of n leaves alone.                                        *)
ReleaseRest(n) ==
  /\ active' \in {active, active \ {n}} /\ chunk' \in BOOLEAN
  /\ UNCHANGED <<startup, waiter, prep, sealed, failed, ready, booted, timeouts, use>>

(* The release of n goes on in one of the ways that ask nothing of others.    *)
LEMMA ReleaseMoves ==
  ASSUME StopInv, NEW n \in Nodes, NEW pc, Moved("release", n, pc), ControlOK', ControlType', SameLine,
         ReleaseRest(n), registered' \in {registered, registered \ {n}}, destroyed' = destroyed,
         emulator' \in {emulator, "stopping"},
         \/ pc \in Unwound /\ UNCHANGED rt
         \/ pc = "dstop" /\ UNCHANGED <<rt, active>> /\ n \in active
         \/ pc = "idle" /\ rt' = [rt EXCEPT ![n] = "disposed"]
  PROVE  StopInv'
<1>1. /\ rt' \in [Nodes -> Lifecycle] /\ (\A m \in Nodes \ {n} : rt'[m] = rt[m])
      /\ \/ pc \in Unwound /\ rt'[n] = rt[n]
         \/ pc = "dstop" /\ rt'[n] = rt[n] /\ n \in active'
         \/ pc = "idle" /\ rt'[n] = "disposed"
  BY Facts DEF NodesType, Lifecycle
<1>2. NodesType' /\ MachineType' /\ LabdType'
  BY <1>1, Facts, LineTyped DEF NodesType, MachineType, ReleaseRest
<1>3. NodeOK(n)'
  BY <1>1, Facts, HotSame DEF NodeOK, Moved, Tracks, Begun, Starting, Stopping, Unwound
<1>4. \A m \in Nodes \ {n} : (m \in active' <=> m \in active)
  BY DEF ReleaseRest
<1>5. pc \notin {"prepare"} \cup Begun
  BY <1>1 DEF Unwound, Begun, Starting
<1> QED
  BY <1>1, <1>2, <1>3, <1>4, <1>5, Facts, HotSame, MovedOne

LEMMA ForgetStops ==
  ASSUME StopInv, NEW n \in Nodes, NEW q, Free(n, q), Forget(n, q), ReleaseRest(n)
  PROVE  StopInv'
<1>1. UNCHANGED <<waiter, booted>> /\ registered' = registered \ {n}
  BY DEF ReleaseRest, Forget
<1>2. CASE /\ rt' = [rt EXCEPT ![n] = "disposed"] /\ Goto("release", n, "idle", q)
           /\ head' = IF q = queue THEN head ELSE "queued"
           /\ UNCHANGED <<destroyed, emulator, guest, input, output>>
  <2>1. SameLine
    BY <1>2 DEF SameLine
  <2>2. Moved("release", n, "idle") /\ ControlOK' /\ ControlType'
    BY <1>1, <1>2, <2>1, ReleaseTurn, Names
  <2> QED
    BY <1>1, <1>2, <2>1, <2>2, ReleaseMoves
<1>3. CASE /\ destroyed' = TRUE
           /\ head' = IF q # queue THEN "queued" ELSE IF head = "sent" THEN "error" ELSE head
           /\ emulator' = "none"
           /\ guest' = [m \in Nodes |-> "off"] /\ input' = <<>> /\ output' = <<>>
           /\ \/ rt' = [rt EXCEPT ![n] = "disposed"] /\ Goto("release", n, "idle", q)
              \/ Goto("release", n, "destroy", q) /\ UNCHANGED rt
  <2>1. \A m \in Nodes : ~Hot(m)'
    BY <1>3 DEF Hot, Down, Asked
  <2>2. LabdType'
    <3>1. input' \in Seq(Requests) /\ output' \in Seq(Lines)
      BY <1>3
    <3> QED
      BY <1>1, <1>3, <3>1, Facts DEF LabdType
  <2>3. PICK pc \in {"idle", "destroy"} : Goto("release", n, pc, q)
    BY <1>3
  <2>4. pc \in Awaits \ Asking
    BY Names
  <2>5. Moved("release", n, pc) /\ ControlOK' /\ ControlType'
    BY <1>1, <1>3, <2>1, <2>3, <2>4, ClearTurn
  <2>6. rt' \in [Nodes -> Lifecycle] /\ (\A m \in Nodes \ {n} : rt'[m] = rt[m]) /\ rt'[n] \in {rt[n], "disposed"}
    BY <1>3, Facts DEF NodesType, Lifecycle
  <2>7. NodesType' /\ MachineType'
    BY <1>1, <1>3, <2>6, Facts DEF NodesType, MachineType, ReleaseRest
  <2>8. NodeOK(n)'
    BY <2>1, <2>3, <2>5, <2>6, Facts DEF NodeOK, Moved, Tracks, Begun, Starting, Stopping
  <2>9. \A m \in Nodes \ {n} : (m \in active' <=> m \in active)
    BY DEF ReleaseRest
  <2> QED
    BY <2>1, <2>2, <2>5, <2>6, <2>7, <2>8, <2>9, Facts, MovedOne DEF Begun, Starting
<1> QED
  BY <1>2, <1>3 DEF Forget

LEMMA DeleteStops ==
  ASSUME StopInv, NEW n \in Nodes, NEW q, Free(n, q), Delete(n, q), ReleaseRest(n)
  PROVE  StopInv'
<1>1. CASE /\ Goto("release", n, "NODE_DELETE", q)
           /\ head' = IF q = queue THEN head ELSE "queued"
           /\ UNCHANGED <<rt, registered, destroyed, emulator, guest, input, output>>
  <2>1. SameLine /\ UNCHANGED waiter
    BY <1>1 DEF SameLine, ReleaseRest
  <2>2. Moved("release", n, "NODE_DELETE") /\ ControlOK' /\ ControlType'
    BY <1>1, <2>1, ReleaseTurn, Names
  <2> QED
    BY <1>1, <2>1, <2>2, ReleaseMoves DEF Unwound
<1> QED
  BY <1>1, ForgetStops DEF Delete

LEMMA DisposeStops ==
  ASSUME StopInv, NEW n \in Nodes, Dispose(n)
  PROVE  StopInv'
<1>1. call["release"][n] = "idle"
  BY Facts DEF Dispose, MayRelease, AllIdle, Idle
<1>2. Free(n, queue)
  BY <1>1, Names DEF Free
<1>3. chunk' \in BOOLEAN
  BY Facts DEF Dispose, MachineType
<1>4. ReleaseRest(n)
  BY <1>3 DEF Dispose, ReleaseRest
<1>5. CASE /\ rt' = [rt EXCEPT ![n] = "disposed"]
           /\ UNCHANGED <<registered, call, queue, head, destroyed, emulator, guest, input, output>>
  <2>1. SameLine /\ Kept
    BY <1>4, <1>5 DEF SameLine, Kept, ReleaseRest
  <2>2. ControlOK' /\ ControlType'
    BY <1>5, <2>1, SameTurn, Facts
  <2>3. Moved("release", n, "idle")
    BY <1>1, <1>5, Facts, Names DEF Moved, CallType
  <2> QED
    BY <1>4, <1>5, <2>1, <2>2, <2>3, ReleaseMoves
<1>6. CASE /\ n \in active /\ Goto("release", n, "dstop", queue)
           /\ UNCHANGED <<rt, registered, head, destroyed, emulator, guest, input, output>>
  <2>1. SameLine /\ UNCHANGED <<waiter, active>>
    BY <1>4, <1>6 DEF SameLine, ReleaseRest, Dispose
  <2>2. Moved("release", n, "dstop") /\ ControlOK' /\ ControlType'
    BY <1>2, <1>6, <2>1, ReleaseTurn, Names
  <2> QED
    BY <1>4, <1>6, <2>1, <2>2, ReleaseMoves
<1>7. CASE Delete(n, queue)
  BY <1>2, <1>4, <1>7, DeleteStops
<1> QED
  BY <1>5, <1>6, <1>7 DEF Dispose

LEMMA DisposeStopSettledStops ==
  ASSUME StopInv, NEW n \in Nodes, DisposeStopSettled(n)
  PROVE  StopInv'
<1>1. Free(n, Tail(queue)) /\ queue # <<>>
  BY DEF DisposeStopSettled, Settled, Free
<1>2. ReleaseRest(n)
  BY Facts DEF DisposeStopSettled, ReleaseRest, MachineType
<1>3. CASE /\ emulator' = "stopping" /\ head' = "queued"
           /\ Goto("release", n, "dhalt", Tail(queue))
           /\ UNCHANGED <<rt, registered, destroyed, guest, input, output>>
  <2>1. SameLine /\ UNCHANGED waiter /\ Tail(queue) # queue
    BY <1>1, <1>2, <1>3, TailIsNew, Facts DEF SameLine, ReleaseRest, ControlType
  <2>2. Moved("release", n, "dhalt") /\ ControlOK' /\ ControlType'
    BY <1>1, <1>3, <2>1, ReleaseTurn, Names
  <2> QED
    BY <1>2, <1>3, <2>1, <2>2, ReleaseMoves DEF Unwound
<1>4. CASE Delete(n, Tail(queue))
  BY <1>1, <1>2, <1>4, DeleteStops
<1> QED
  BY <1>3, <1>4 DEF DisposeStopSettled

LEMMA DisposeGoesOnStops ==
  ASSUME StopInv, NEW n \in Nodes, DisposeHalted(n) \/ DeleteSettled(n)
  PROVE  StopInv'
<1>1. ReleaseRest(n)
  BY Facts DEF DisposeHalted, DeleteSettled, ReleaseRest, MachineType
<1>2. CASE DisposeHalted(n)
  <2>1. Free(n, queue) /\ Delete(n, queue)
    BY <1>2, Names DEF DisposeHalted, Free
  <2> QED
    BY <1>1, <2>1, DeleteStops
<1>3. CASE DeleteSettled(n)
  <2>1. Free(n, Tail(queue)) /\ Forget(n, Tail(queue))
    BY <1>3 DEF DeleteSettled, Settled, Free
  <2> QED
    BY <1>1, <2>1, ForgetStops
<1> QED
  BY <1>2, <1>3

LEMMA DestroyedStops ==
  ASSUME StopInv, NEW n \in Nodes, Destroyed(n)
  PROVE  StopInv'
<1>1. SameLine /\ ReleaseRest(n) /\ UNCHANGED <<registered, destroyed, emulator, queue, head, waiter>>
  BY Facts DEF Destroyed, SameLine, ReleaseRest, labd, machine, control, MachineType
<1>2. Free(n, queue) /\ Goto("release", n, "idle", queue)
  BY Names DEF Destroyed, Free, Goto, control
<1>3. Moved("release", n, "idle") /\ ControlOK' /\ ControlType'
  BY <1>1, <1>2, ReleaseTurn, Names
<1> QED
  BY <1>1, <1>3, ReleaseMoves DEF Destroyed

-----------------------------------------------------------------------------
(* What only moves the first operation.                                       *)
LEMMA TimeoutStops ==
  ASSUME StopInv, ControlTimeout \/ ExitSignal
  PROVE  StopInv'
<1>1. SameLine /\ Kept /\ UNCHANGED <<booted, call, queue, rt, registered, active, startup>>
  BY DEF ControlTimeout, ExitSignal, labd, nodes, SameLine, Kept
<1>2. NodesType /\ MachineType /\ LabdType /\ ControlType /\ ControlOK
  BY DEF StopInv, StopOK, TypeOK
<1>3. ControlOK' /\ ControlType'
  BY <1>1, <1>2, SameTurn
<1>4. NodesType' /\ MachineType' /\ LabdType'
  BY <1>1, <1>2, LineTyped DEF ControlTimeout, ExitSignal, machine, Fire, NodesType, MachineType
<1> QED
  BY <1>1, <1>3, <1>4, HotSame, Unmoved

-----------------------------------------------------------------------------
(* Lines that arrive.                                                         *)

LEMMA ArrivesTurn ==
  ASSUME StopInv, NEW type, Arrives(type),
         \/ UNCHANGED head
         \/ head' = "error" /\ head = "sent"
         \/ head = "sent" /\ queue # <<>> /\ head' = "ok" /\ Answers(1)
  PROVE  ControlOK' /\ ControlType'
<1>1. ControlType /\ ControlOK /\ LabdType
  BY DEF StopInv, StopOK, TypeOK
<1>2. UNCHANGED <<call, queue, waiter, guest, input>> /\ output # <<>> /\ output' = Tail(output)
  BY DEF Arrives
<1>3. Chained' /\ (queue' = <<>> => head' = "queued") /\ ControlType'
  BY <1>1, <1>2 DEF ControlOK, Chained, ControlType
<1>4. CASE queue = <<>>
  BY <1>1, <1>2, <1>3, <1>4 DEF ControlOK
<1>5. CASE queue # <<>>
  <2>1. PICK x \in Callers : x = Head(queue) /\ x = Head(queue')
    BY <1>1, <1>2, <1>5, HeadTail DEF ControlType
  <2>2. Over(x)' <=> Over(x)
    BY <1>2 DEF Over, Hot, Down, Asked
  <2>3. \A i \in DOMAIN output' : Answers(i)' => \E j \in DOMAIN output : Answers(j)
    <3>1. \A i \in DOMAIN output' : i + 1 \in DOMAIN output /\ output'[i] = output[i + 1]
      BY <1>1, <1>2, HeadTail DEF LabdType
    <3> QED
      BY <3>1, <1>2 DEF Answers
  <2>4. 1 \in DOMAIN output
    BY <1>1, <1>2, HeadTail DEF LabdType
  <2>5. head' = "sent" => head = "sent"
    OBVIOUS
  <2>6. head' = "sent" => Sole(x)' /\ \A i \in DOMAIN output' : Answers(i)' => Over(x)'
    <3>1. Sole(x) => Sole(x)'
      BY <1>2, <2>3 DEF Sole
    <3> QED
      BY <1>1, <2>1, <2>2, <2>3, <2>5, <3>1 DEF ControlOK
  <2>7. head' = "ok" => Over(x)'
    BY <1>1, <2>1, <2>2, <2>4 DEF ControlOK
  <2> QED
    BY <1>3, <2>1, <2>6, <2>7 DEF ControlOK
<1> QED
  BY <1>4, <1>5

LEMMA LineStops ==
  ASSUME StopInv, AnyLine
  PROVE  StopInv'
<1>1. PICK type : Arrives(type)
  BY DEF AnyLine, MalformedLine, MachineReadyLine, NodeReadyLine, NodeExitLine, ResponseLine
<1>2. NodesType /\ MachineType /\ LabdType
  BY DEF StopInv, TypeOK
<1>3. /\ output # <<>> /\ output' = Tail(output) /\ chunk' \in BOOLEAN
      /\ UNCHANGED <<registered, call, queue, waiter, prep, sealed, destroyed, emulator,
                     booted, guest, input, timeouts, use>>
  BY <1>1 DEF Arrives
<1>4. LabdType' /\ Head(output) \in Lines
  BY <1>2, <1>3, HeadTail DEF LabdType
<1>5. \A m : Hot(m)' <=> Hot(m)
  BY <1>3 DEF Hot, Down, Asked
<1>6. CASE MalformedLine
  <2>1. UNCHANGED active /\ Failing
    BY <1>6 DEF MalformedLine
  <2>2. /\ Kept /\ failed' \in BOOLEAN /\ ready' \in {"pending", "ok", "failed"}
        /\ rt' \in [Nodes -> Lifecycle] /\ \A m \in Nodes : rt'[m] \in {rt[m], "failed"}
        /\ startup' \in [Nodes -> {"none", "pending", "ready", "exited", "failed"}]
    BY <2>1, <1>2, <1>3, FailingIs
  <2>3. ControlOK' /\ ControlType'
    BY <1>1, <2>2, ArrivesTurn DEF Kept
  <2>4. NodesType' /\ MachineType'
    BY <1>2, <1>3, <2>1, <2>2 DEF NodesType, MachineType
  <2> QED
    BY <1>3, <1>4, <1>5, <2>1, <2>2, <2>3, <2>4, Unmoved
<1>7. CASE MachineReadyLine
  <2>1. UNCHANGED <<rt, active, startup, head, failed>> /\ ready' \in {ready, "ok"}
    BY <1>7 DEF MachineReadyLine
  <2>2. ControlOK' /\ ControlType'
    BY <1>1, <2>1, ArrivesTurn
  <2>3. NodesType' /\ MachineType'
    BY <1>2, <1>3, <2>1 DEF NodesType, MachineType
  <2> QED
    BY <1>3, <1>4, <1>5, <2>1, <2>2, <2>3, Unmoved
<1>8. CASE NodeReadyLine
  <2>1. UNCHANGED <<rt, active, head, ready, failed>>
    BY <1>8 DEF NodeReadyLine
  <2>2. PICK n : startup' = IF n \in registered /\ startup[n] = "pending"
                            THEN [startup EXCEPT ![n] = "ready"] ELSE startup
    BY <1>8 DEF NodeReadyLine
  <2>3. ControlOK' /\ ControlType'
    BY <1>1, <2>1, ArrivesTurn
  <2>4. NodesType' /\ MachineType'
    BY <1>2, <1>3, <2>1, <2>2 DEF NodesType, MachineType
  <2> QED
    BY <1>3, <1>4, <1>5, <2>1, <2>3, <2>4, Unmoved
<1>9. CASE NodeExitLine
  <2>1. UNCHANGED <<head, ready, failed>>
    BY <1>9 DEF NodeExitLine
  <2>2. PICK n : IF n \in registered
                 THEN /\ active' = active \ {n}
                      /\ startup' = IF startup[n] = "none" THEN startup
                                    ELSE [startup EXCEPT ![n] = "exited"]
                      /\ rt' = IF rt[n] = "running" THEN [rt EXCEPT ![n] = "failed"] ELSE rt
                 ELSE UNCHANGED <<rt, active, startup>>
    BY <1>9 DEF NodeExitLine
  <2>3. ControlOK' /\ ControlType'
    BY <1>1, <2>1, ArrivesTurn
  <2>4. NodesType' /\ \A m \in Nodes : /\ rt'[m] \in {rt[m], "failed"}
                                       /\ (m \in active' <=> m \in active) \/ rt'[m] # "running"
    BY <1>2, <1>3, <2>2 DEF NodesType, Lifecycle
  <2>5. MachineType'
    BY <1>2, <1>3, <2>1 DEF MachineType
  <2> QED
    BY <1>3, <1>4, <1>5, <2>3, <2>4, <2>5, Unmoved
<1>10. CASE ResponseLine
  <2>1. /\ UNCHANGED <<rt, active, startup, ready, failed>>
        /\ Head(output).type = "response"
        /\ head' = IF queue # <<>> /\ head = "sent" /\ waiter = Head(output).of
                   THEN (IF Head(output).ok THEN "ok" ELSE "error") ELSE head
    BY <1>10 DEF ResponseLine, Arrives
  <2>2. waiter = Head(output).of => Answers(1)
    BY <1>2, <1>3, <2>1, HeadTail DEF Answers, LabdType
  <2>3. ControlOK' /\ ControlType'
    BY <1>1, <2>1, <2>2, ArrivesTurn
  <2>4. NodesType' /\ MachineType'
    BY <1>2, <1>3, <2>1 DEF NodesType, MachineType
  <2> QED
    BY <1>3, <1>4, <1>5, <2>1, <2>3, <2>4, Unmoved
<1> QED
  BY <1>6, <1>7, <1>8, <1>9, <1>10 DEF AnyLine

-----------------------------------------------------------------------------
(* labd.                                                                      *)

LEMMA RequestIs ==
  ASSUME NEW r \in Requests
  PROVE  r.id \in Ids /\ r.node \in Nodes /\ r.cmd \in {"NODE_START", "LINK", "NODE_STOP", "NODE_DELETE"}
BY DEF Requests

LEMMA RequestMade ==
  ASSUME NEW i \in Ids, NEW n \in Nodes, NEW cmd \in {"NODE_START", "LINK", "NODE_STOP", "NODE_DELETE"}
  PROVE  [id |-> i, cmd |-> cmd, node |-> n] \in Requests
BY DEF Requests

LEMMA ResponseIs ==
  ASSUME NEW i \in Ids, NEW ok \in BOOLEAN
  PROVE  [type |-> "response", of |-> i, ok |-> ok] \in Lines
BY DEF Lines

LEMMA ReportIs ==
  /\ \A n \in Nodes, type \in {"node-ready", "node-exit"} : [type |-> type, of |-> n, ok |-> TRUE] \in Lines
  /\ \A type \in {"machine-ready", "malformed"} : [type |-> type, of |-> 0, ok |-> TRUE] \in Lines
BY DEF Lines

(* What labd writes that is no answer, and what it does to a node by itself.  *)
LEMMA ReportStops ==
  ASSUME StopInv, LabdUnchanged, booted' \in BOOLEAN, UNCHANGED input,
         guest' \in [Nodes -> {"off", "starting", "running", "dying", "stuck", "deleted"}],
         \A m \in Nodes : Down(m) => Down(m)',
         \/ UNCHANGED output
         \/ \E l \in Lines : l.type # "response" /\ output' = Append(output, l)
  PROVE  StopInv'
<1>1. NodesType /\ CallType /\ MachineType /\ ControlType /\ ControlOK /\ LabdType
  BY DEF StopInv, StopOK, TypeOK
<1>2. UNCHANGED <<rt, registered, active, startup, call, queue, head, waiter, prep, sealed, failed,
                  ready, destroyed, emulator, chunk, timeouts, use>>
  BY DEF LabdUnchanged, nodes, control, machine
<1>3. NodesType' /\ MachineType' /\ ControlType'
  BY <1>1, <1>2 DEF NodesType, MachineType, ControlType
<1>4. /\ LabdType'
      /\ \A i \in DOMAIN output' : Answers(i)' => \E j \in DOMAIN output : Answers(j)
  <2>1. CASE UNCHANGED output
    BY <1>1, <1>2, <2>1 DEF LabdType, Answers
  <2>2. CASE \E l \in Lines : l.type # "response" /\ output' = Append(output, l)
    <3>1. PICK l \in Lines : l.type # "response" /\ output' = Append(output, l)
      BY <2>2
    <3>2. /\ output' \in Seq(Lines) /\ DOMAIN output' = 1 .. Len(output) + 1
          /\ DOMAIN output = 1 .. Len(output) /\ Len(output) \in Nat
          /\ \A k \in 1 .. Len(output) : output'[k] = output[k]
          /\ output'[Len(output) + 1] = l
      BY <1>1, <3>1, AppendIs DEF LabdType
    <3>3. \A i \in DOMAIN output' : i \in DOMAIN output \/ i = Len(output) + 1
      BY <3>2
    <3> QED
      BY <1>1, <1>2, <3>1, <3>2, <3>3 DEF LabdType, Answers
  <2> QED
    BY <2>1, <2>2
<1>5. \A m \in Nodes : Hot(m)' => Hot(m)
  BY DEF Hot, Asked
<1>6. ControlOK'
  <2>1. Chained' /\ (queue' = <<>> => head' = "queued")
    BY <1>1, <1>2 DEF ControlOK, Chained
  <2>2. CASE queue = <<>>
    BY <1>1, <1>2, <2>1, <2>2 DEF ControlOK
  <2>3. CASE queue # <<>>
    <3>1. PICK x \in Callers : x = Head(queue) /\ x = Head(queue')
      BY <1>1, <1>2, <2>3, HeadTail DEF ControlType
    <3>2. x[2] \in Nodes
      BY DEF Callers
    <3>3. (Over(x) => Over(x)') /\ (Sole(x) => Sole(x)')
      BY <1>2, <1>4, <1>5, <3>2 DEF Over, Sole
    <3> QED
      BY <1>1, <1>2, <1>4, <2>1, <3>1, <3>3 DEF ControlOK
  <2> QED
    BY <2>2, <2>3
<1> QED
  BY <1>2, <1>3, <1>4, <1>5, <1>6, Unmoved

(* A request is served: only a NODE_START starts a node.                      *)
Serving(cmd, from, to) ==
  /\ to \in {"off", "starting", "running", "dying", "stuck", "deleted"}
  /\ cmd \in {"NODE_STOP", "NODE_DELETE"} => to \notin {"starting", "running"}
  /\ to \in {"starting", "running"} => cmd = "NODE_START" \/ from \subseteq {"starting", "running"}

LEMMA ServeStops ==
  ASSUME StopInv, NEW cmd, NEW from, NEW to, NEW ok \in BOOLEAN,
         Serving(cmd, from, to), Serve(cmd, from, to, ok)
  PROVE  StopInv'
<1>1. NodesType /\ CallType /\ MachineType /\ ControlType /\ ControlOK /\ LabdType
  BY DEF StopInv, StopOK, TypeOK
<1>2. UNCHANGED <<rt, registered, active, startup, call, queue, head, waiter, prep, sealed, failed,
                  ready, destroyed, emulator, chunk, timeouts, use, booted>>
  BY DEF Serve, LabdUnchanged, nodes, control, machine
<1>3. NodesType' /\ MachineType' /\ ControlType'
  BY <1>1, <1>2 DEF NodesType, MachineType, ControlType
<1>4. PICK r \in Requests : r = Head(input) /\ r = input[1] /\ 1 \in DOMAIN input
  BY <1>1, HeadTail DEF Serve, LabdType
<1>5. /\ r.cmd = cmd /\ guest[r.node] \in from /\ guest' = [guest EXCEPT ![r.node] = to]
      /\ output' = Append(output, [type |-> "response", of |-> r.id, ok |-> ok])
      /\ input # <<>> /\ input' = Tail(input)
  BY <1>4 DEF Serve
<1>6. r.id \in Ids /\ r.node \in Nodes
  BY RequestIs
<1>7. PICK l \in Lines : l = [type |-> "response", of |-> r.id, ok |-> ok]
  BY <1>6, ResponseIs
<1>8. /\ output' \in Seq(Lines) /\ DOMAIN output' = 1 .. Len(output) + 1
      /\ DOMAIN output = 1 .. Len(output) /\ Len(output) \in Nat
      /\ \A k \in 1 .. Len(output) : output'[k] = output[k]
      /\ output'[Len(output) + 1] = l
  BY <1>1, <1>5, <1>7, AppendIs DEF LabdType
<1>9. /\ input' \in Seq(Requests) /\ Len(input') = Len(input) - 1 /\ Len(input) \in Nat \ {0}
      /\ \A i \in DOMAIN input' : input'[i] = input[i + 1] /\ i + 1 \in DOMAIN input
      /\ DOMAIN input' = 1 .. Len(input) - 1
  BY <1>1, <1>5, HeadTail DEF LabdType
<1>10. /\ guest' \in [Nodes -> {"off", "starting", "running", "dying", "stuck", "deleted"}]
       /\ guest'[r.node] = to /\ \A m \in Nodes \ {r.node} : guest'[m] = guest[m]
  BY <1>1, <1>5, <1>6 DEF LabdType, Serving
<1>11. LabdType'
  BY <1>1, <1>2, <1>8, <1>9, <1>10 DEF LabdType
<1>12. \A m \in Nodes : Asked(m)' => Asked(m)
  BY <1>9 DEF Asked
<1>13. \A m \in Nodes : Hot(m)' => Hot(m)
  <2> SUFFICES ASSUME NEW m \in Nodes, Down(m), ~Down(m)' PROVE Asked(m)
    BY <1>12 DEF Hot
  <2>1. m = r.node /\ to \in {"starting", "running"}
    BY <1>10 DEF Down
  <2>2. r.cmd = "NODE_START"
    BY <1>5, <2>1 DEF Serving, Down
  <2> QED
    BY <1>4, <2>1, <2>2 DEF Asked
<1>14. ControlOK'
  <2>1. Chained' /\ (queue' = <<>> => head' = "queued")
    BY <1>1, <1>2 DEF ControlOK, Chained
  <2>2. CASE queue = <<>>
    BY <1>1, <1>2, <2>1, <2>2 DEF ControlOK
  <2>3. CASE queue # <<>>
    <3>1. PICK x \in Callers : x = Head(queue) /\ x = Head(queue')
      BY <1>1, <1>2, <2>3, HeadTail DEF ControlType
    <3>2. x[2] \in Nodes /\ At(call', x) = At(call, x)
      BY <1>2 DEF Callers, At
    <3>3. Over(x) => Over(x)'
      BY <1>13, <3>2 DEF Over
    <3>4. ASSUME head = "sent"
          PROVE  Sole(x)' /\ \A i \in DOMAIN output' : Answers(i)' => Over(x)'
      <4>1. Sole(x) /\ \A i \in DOMAIN output : Answers(i) => Over(x)
        BY <1>1, <3>1, <3>4 DEF ControlOK
      <4>2. Sole(x)'
        <5> SUFFICES ASSUME NEW i \in DOMAIN input', input'[i].id = waiter
                     PROVE  /\ i = Len(input') /\ input'[i].node = x[2]
                            /\ input'[i].cmd = Command[At(call, x)]
                            /\ \A j \in DOMAIN output' : ~Answers(j)'
          BY <1>2, <3>2 DEF Sole
        <5>1. i + 1 \in DOMAIN input /\ input[i + 1] = input'[i]
          BY <1>9
        <5>2. i + 1 = Len(input) /\ input[i + 1].node = x[2] /\ input[i + 1].cmd = Command[At(call, x)]
          BY <4>1, <5>1 DEF Sole
        <5>3. \A j \in DOMAIN output : ~Answers(j)'
          BY <1>2, <1>8, <4>1, <5>1 DEF Sole, Answers
        <5>4. r.id # waiter
          <6>1. r.id = waiter => 1 = Len(input)
            BY <1>4, <4>1 DEF Sole
          <6> QED
            BY <1>9, <5>1, <5>2, <6>1
        <5>5. \A j \in DOMAIN output' : ~Answers(j)'
          BY <1>2, <1>7, <1>8, <5>3, <5>4 DEF Answers
        <5> QED
          BY <1>9, <5>1, <5>2, <5>5
      <4>3. \A i \in DOMAIN output : Answers(i)' => Over(x)'
        BY <1>2, <1>8, <3>3, <4>1 DEF Answers
      <4>4. ASSUME NEW k, k = Len(output) + 1, Answers(k)', At(call, x) \in Ending PROVE ~Hot(x[2])'
        <5>1. r.id = waiter
          BY <1>2, <1>7, <1>8, <4>4 DEF Answers
        <5>2. 1 = Len(input) /\ r.node = x[2] /\ r.cmd = Command[At(call, x)]
          BY <1>4, <4>1, <5>1 DEF Sole
        <5>3. r.cmd \in {"NODE_STOP", "NODE_DELETE"}
          BY <4>4, <5>2, Commands, Names DEF Ending
        <5>4. \A i \in DOMAIN input' : FALSE
          <6> SUFFICES ASSUME NEW i \in DOMAIN input' PROVE FALSE
            OBVIOUS
          <6>1. i \in 1 .. Len(input) - 1
            BY <1>9
          <6>2. Len(input) = 1
            BY <5>2
          <6>3. 1 .. 1 - 1 = {}
            OBVIOUS
          <6> QED
            BY <6>1, <6>2, <6>3
        <5>5. Down(x[2])'
          BY <1>5, <1>10, <5>2, <5>3 DEF Serving, Down
        <5> QED
          BY <5>4, <5>5 DEF Hot, Asked
      <4> QED
        BY <1>8, <3>2, <4>2, <4>3, <4>4 DEF Over
    <3> QED
      BY <1>1, <1>2, <2>1, <3>1, <3>3, <3>4 DEF ControlOK
  <2> QED
    BY <2>2, <2>3
<1> QED
  BY <1>2, <1>3, <1>11, <1>13, <1>14, Unmoved

LEMMA LabdStops ==
  ASSUME StopInv, Labd
  PROVE  StopInv'
<1> DEFINE Some == \E cmd, from, to : \E ok \in BOOLEAN : Serving(cmd, from, to) /\ Serve(cmd, from, to, ok)
<1>1. ASSUME NEW cmd, NEW from, Refuse(cmd, from),
             from \subseteq Alive \cup {"off", "deleted"},
             cmd \in {"NODE_STOP", "NODE_DELETE"} => from = {"deleted"}
      PROVE  Some
  <2>1. PICK g \in from : Serve(cmd, {g}, g, FALSE)
    BY <1>1 DEF Refuse
  <2>2. Serving(cmd, {g}, g)
    BY <1>1 DEF Serving, Alive
  <2> QED
    BY <2>1, <2>2
<1>2. CASE ServeStart
  <2>1. Serving("NODE_START", {"off"}, "starting")
    BY DEF Serving
  <2> QED
    BY <1>1, <1>2, <2>1, ServeStops DEF ServeStart, Alive
<1>3. CASE ServeLink
  <2>1. Serving("LINK", {"running"}, "running")
    BY DEF Serving
  <2> QED
    BY <1>1, <1>3, <2>1, ServeStops DEF ServeLink, Alive
<1>4. CASE ServeStop
  <2>1. Serving("NODE_STOP", Alive \cup {"off"}, "off") /\ Serving("NODE_STOP", Alive, "stuck")
    BY DEF Serving
  <2> QED
    BY <1>1, <1>4, <2>1, ServeStops DEF ServeStop
<1>5. CASE ServeDelete
  <2>1. /\ Serving("NODE_DELETE", Alive \cup {"off"}, "deleted") /\ Serving("NODE_DELETE", Alive, "stuck")
        /\ Serving("NODE_DELETE", Alive \cup {"off"}, "off")
    BY DEF Serving
  <2> QED
    BY <1>1, <1>5, <2>1, ServeStops DEF ServeDelete
<1>6. LabdType
  BY DEF StopInv, TypeOK
<1>7. CASE GuestBoots \/ Noise
  <2>1. LabdUnchanged /\ UNCHANGED <<guest, input>> /\ booted' \in BOOLEAN
    BY <1>6, <1>7 DEF GuestBoots, Noise, LabdType
  <2>2. \A m \in Nodes : Down(m) => Down(m)'
    BY <2>1 DEF Down
  <2>3. \E l \in Lines : l.type # "response" /\ output' = Append(output, l)
    BY <1>7, ReportIs DEF GuestBoots, Noise
  <2> QED
    BY <1>6, <2>1, <2>2, <2>3, ReportStops DEF LabdType
<1>8. ASSUME NEW n \in Nodes, NEW to \in {"running", "dying", "off"}, guest' = [guest EXCEPT ![n] = to],
             to = "running" => guest[n] = "starting"
      PROVE  /\ guest' \in [Nodes -> {"off", "starting", "running", "dying", "stuck", "deleted"}]
             /\ \A m \in Nodes : Down(m) => Down(m)'
  BY <1>6, <1>8 DEF LabdType, Down
<1>9. CASE \E n \in Nodes : NodeReady(n) \/ NodeExit(n)
  <2>1. PICK n \in Nodes, to \in {"running", "dying"}, type \in {"node-ready", "node-exit"} :
          /\ guest' = [guest EXCEPT ![n] = to] /\ (to = "running" => guest[n] = "starting")
          /\ output' = Append(output, [type |-> type, of |-> n, ok |-> TRUE])
          /\ UNCHANGED <<booted, input>> /\ LabdUnchanged
    BY <1>9 DEF NodeReady, NodeExit, Reports
  <2>2. \E l \in Lines : l.type # "response" /\ output' = Append(output, l)
    BY <2>1, ReportIs
  <2> QED
    BY <1>6, <1>8, <2>1, <2>2, ReportStops DEF LabdType
<1>10. CASE \E n \in Nodes : Reap(n)
  BY <1>6, <1>8, <1>10, ReportStops DEF Reap, LabdType
<1> QED
  BY <1>2, <1>3, <1>4, <1>5, <1>7, <1>9, <1>10 DEF Labd

-----------------------------------------------------------------------------
(* The first operation has its turn: the only step that asks more of a node.  *)
LEMMA IssueStops ==
  ASSUME StopInv, Issue
  PROVE  StopInv'
<1>1. NodesType /\ CallType /\ MachineType /\ ControlType /\ ControlOK /\ LabdType
  BY DEF StopInv, StopOK, TypeOK
<1>2. UNCHANGED <<rt, registered, active, startup, call, queue, prep, sealed, failed,
                  ready, destroyed, emulator, chunk, timeouts, use, booted, guest, output>>
  BY DEF Issue, nodes, machine
<1>3. NodesType' /\ MachineType'
  BY <1>1, <1>2 DEF NodesType, MachineType
<1>4. queue # <<>> /\ head = "queued"
  BY DEF Issue
<1>5. PICK x \in Callers : x = Head(queue) /\ x = Head(queue')
  BY <1>1, <1>2, <1>4, HeadTail DEF ControlType
<1>6. x[1] \in Tracks /\ x[2] \in Nodes /\ At(call, x) \in Asking
  BY <1>1, <1>4, <1>5, HeadTail DEF ControlType, ControlOK, Chained, Callers
<1>7. Chained' /\ queue' \in Seq(Callers)
  BY <1>1, <1>2 DEF ControlOK, Chained, ControlType
<1>8. CASE head' = "error" /\ UNCHANGED <<waiter, input>>
  <2>1. ControlOK' /\ ControlType' /\ LabdType'
    BY <1>1, <1>2, <1>4, <1>7, <1>8 DEF ControlOK, ControlType, LabdType
  <2>2. \A m : Hot(m)' <=> Hot(m)
    BY <1>2, <1>8 DEF Hot, Down, Asked
  <2> QED
    BY <1>2, <1>3, <2>1, <2>2, Unmoved
<1>9. CASE \E i \in Ids \ InFlight :
             /\ waiter' = i /\ head' = "sent"
             /\ input' = Append(input, [id |-> i, cmd |-> Command[At(call, x)], node |-> x[2]])
  <2>1. PICK i \in Ids \ InFlight :
               /\ waiter' = i /\ head' = "sent"
               /\ input' = Append(input, [id |-> i, cmd |-> Command[At(call, x)], node |-> x[2]])
    BY <1>9
  <2>2. PICK r \in Requests : /\ r = [id |-> i, cmd |-> Command[At(call, x)], node |-> x[2]]
                              /\ r.id = i /\ r.cmd = Command[At(call, x)] /\ r.node = x[2]
    <3>1. Command[At(call, x)] \in {"NODE_START", "LINK", "NODE_STOP", "NODE_DELETE"}
      BY <1>6, Commands, Names
    <3> QED
      BY <1>6, <3>1, RequestMade
  <2>3. /\ input' \in Seq(Requests) /\ DOMAIN input' = 1 .. Len(input) + 1 /\ Len(input') = Len(input) + 1
        /\ DOMAIN input = 1 .. Len(input) /\ Len(input) \in Nat
        /\ \A k \in 1 .. Len(input) : input'[k] = input[k]
        /\ input'[Len(input) + 1] = r
    BY <1>1, <2>1, <2>2, AppendIs DEF LabdType
  <2>4. /\ \A k \in DOMAIN input : input[k].id # i
        /\ \A k \in DOMAIN output : output[k].type = "response" => output[k].of # i
    BY DEF InFlight
  <2>5. ControlType' /\ LabdType'
    BY <1>1, <1>2, <1>7, <2>1, <2>3 DEF ControlType, LabdType
  <2>6. \A k \in DOMAIN output' : ~Answers(k)'
    BY <1>2, <2>1, <2>4 DEF Answers
  <2>7. Sole(x)'
    BY <1>2, <2>1, <2>2, <2>3, <2>4, <2>6 DEF Sole
  <2>8. ControlOK'
    BY <1>2, <1>4, <1>5, <1>7, <2>1, <2>6, <2>7 DEF ControlOK
  <2>9. \A m \in Nodes : Hot(m)' => Hot(m) \/ (m = x[2] /\ At(call, x) = "NODE_START")
    <3> SUFFICES ASSUME NEW m \in Nodes, Asked(m)'
                 PROVE  Asked(m) \/ (m = x[2] /\ At(call, x) = "NODE_START")
      BY <1>2 DEF Hot, Down
    <3>1. PICK k \in DOMAIN input' : input'[k].cmd = "NODE_START" /\ input'[k].node = m
      BY DEF Asked
    <3>2. CASE k \in DOMAIN input
      BY <2>3, <3>1, <3>2 DEF Asked
    <3>3. CASE k = Len(input) + 1
      BY <1>6, <2>2, <2>3, <3>1, <3>3, Commands, Names
    <3> QED
      BY <2>3, <3>2, <3>3
  <2>10. CallType' /\ TracksOK' /\ TracksOK
    BY <1>1, <1>2 DEF StopInv, StopOK, CallType, TracksOK
  <2>11. \A m \in Nodes : NodeOK(m)'
    <3> SUFFICES ASSUME NEW m \in Nodes PROVE NodeOK(m)'
      OBVIOUS
    <3>1. NodeOK(m)
      BY DEF StopInv, StopOK
    <3>2. CASE Hot(m)' => Hot(m)
      BY <1>2, <3>1, <3>2, CalmerIsOK
    <3>3. CASE m = x[2] /\ At(call, x) = "NODE_START"
      <4>1. x[1] = "user" /\ call["user"][m] = "NODE_START"
        BY <1>6, <2>10, <3>3 DEF TracksOK, At, Tracks, Begun, Starting
      <4>2. call["release"][m] \notin Stopping /\ rt[m] # "running"
        BY <3>1, <4>1 DEF NodeOK, Begun, Starting
      <4>3. \A t \in Tracks : call[t][m] \notin {"halt", "halted"}
        BY <4>1, <4>2 DEF Tracks, Stopping
      <4> QED
        BY <1>2, <4>1, <4>2, <4>3 DEF NodeOK, Begun, Starting, Tracks
    <3> QED
      BY <2>9, <3>2, <3>3
  <2> QED
    BY <1>3, <2>5, <2>8, <2>10, <2>11 DEF StopInv, StopOK, TypeOK
<1> QED
  BY <1>5, <1>8, <1>9 DEF Issue, At

-----------------------------------------------------------------------------
LEMMA StopInit ==
  ASSUME Init
  PROVE  StopInv
<1>1. NodesType /\ CallType /\ MachineType
  BY DEF Init, NodesType, CallType, MachineType, Lifecycle, Awaits
<1>2. queue \in Seq(Callers) /\ input \in Seq(Requests) /\ output \in Seq(Lines)
  BY DEF Init
<1>3. 1 \in Ids
  BY GuestAssumption DEF Ids
<1>4. ControlType /\ LabdType
  BY <1>2, <1>3 DEF Init, ControlType, LabdType
<1>5. ControlOK
  BY DEF Init, ControlOK, Chained
<1>6. \A n \in Nodes : ~Hot(n)
  BY DEF Init, Hot, Down, Asked
<1>7. \A t \in Tracks, n \in Nodes : call[t][n] = "idle" /\ rt[n] = "new"
  BY DEF Init
<1>8. TracksOK /\ \A n \in Nodes : NodeOK(n)
  BY <1>6, <1>7 DEF TracksOK, NodeOK, Tracks, Begun, Starting, Stopping
<1> QED
  BY <1>1, <1>4, <1>5, <1>8 DEF StopInv, StopOK, TypeOK

LEMMA StopStep ==
  ASSUME StopInv, [Next]_vars
  PROVE  StopInv'
<1>1. ASSUME NEW n \in Nodes, Calls(n) PROVE StopInv'
  BY <1>1, InitializeStops, StartStops, StopStops, DisposeStops DEF Calls
<1>2. ASSUME NEW n \in Nodes, Continuations(n) PROVE StopInv'
  BY <1>2, InitializedStops, BootedStops, ReadyStops, StartSettledStops, UndoSettledStops, StopSettledStops,
     HaltedStops, DisposeStopSettledStops, DisposeGoesOnStops DEF Continuations
<1>3. ASSUME NEW n \in Nodes, Timers(n) \/ Bootstrapped(n) \/ Destroyed(n) PROVE StopInv'
  BY <1>3, BootTimeoutStops, ReadyStops, BootstrappedStops, DestroyedStops DEF Timers
<1>4. CASE UNCHANGED vars
  <2>1. NodesType' /\ MachineType' /\ LabdType' /\ ControlType' /\ ControlOK'
    <3>1. SameLine /\ Kept /\ UNCHANGED <<call, queue>>
      BY <1>4 DEF vars, SameLine, Kept
    <3>2. NodesType /\ MachineType /\ LabdType /\ ControlType /\ ControlOK
      BY DEF StopInv, StopOK, TypeOK
    <3> QED
      BY <1>4, <3>1, <3>2, SameTurn, LineTyped DEF vars, NodesType, MachineType
  <2>2. \A m : Hot(m)' <=> Hot(m)
    BY <1>4 DEF vars, Hot, Down, Asked
  <2> QED
    BY <1>4, <2>1, <2>2, Unmoved DEF vars
<1> QED
  BY <1>1, <1>2, <1>3, <1>4, LoadedStops, EmulatorStoppedStops, IssueStops, TimeoutStops, LineStops, LabdStops
    DEF Next

(* Even if answers are late, calls overlap, timers fire early and the machine *)
(* fails: a facade that has stopped has stopped its node in the guest.        *)
THEOREM StoppedStaysDown == Spec => []StoppedIsDown
<1>1. Init => StopInv
  BY StopInit
<1>2. StopInv /\ [Next]_vars => StopInv'
  BY StopStep
<1>3. StopInv => StoppedIsDown
  BY DEF StopInv, StopOK, NodeOK, StoppedIsDown, Hot, Begun
<1> QED
  BY <1>1, <1>2, <1>3, PTL DEF Spec

-----------------------------------------------------------------------------
(* One call at a time, and no timer that fires early.                         *)
Serial == use.client = "serial" /\ timeouts = 0

Up == {"boot", "NODE_START", "ready", "LINK", "undo", "stop"}
Leaving(n) == \E t \in Tracks : call[t][n] \in {"halt", "halted"} \cup Unwound
Fresh(n) == ~Hot(n) /\ ~ExitOnTheWay(n)

OneCall == \A t, u \in Tracks, n, m \in Nodes :
  call[t][n] # "idle" /\ call[u][m] # "idle" => t = u /\ n = m

(* What the browser knows of n and of the machine.                            *)
Placed(n) ==
  /\ rt[n] \notin {"new", "disposed"} /\ call["release"][n] # "destroy" => n \in registered
  /\ n \in active => rt[n] = "running" \/ failed
  /\ rt[n] = "running" => n \in active \/ Leaving(n)
  /\ Leaving(n) => n \notin active
  /\ rt[n] = "running" /\ Idle(n) => emulator = "running"
  /\ call["user"][n] # "idle" => n \in registered /\ rt[n] # "disposed"
  /\ call["user"][n] = "prepare" => rt[n] \in {"new", "failed"}
  /\ call["user"][n] = "bootstrap" => emulator # "none"
  /\ call["user"][n] \in Up => emulator = "running"
  /\ call["user"][n] \in {"NODE_START", "ready", "LINK"} => startup[n] # "none"
  /\ call["release"][n] \notin Stopping
  /\ call["user"][n] = "stop" => rt[n] \in {"running", "failed"}
  /\ call["release"][n] = "dstop" /\ ~failed => emulator = "running"

MachineOK ==
  /\ emulator = "stopping" => \E t \in Tracks, n \in Nodes : call[t][n] \in {"halt", "dhalt"}
  /\ prep \in {"none", "load"} => emulator = "none"
  /\ failed => head # "sent"

(* No exit of an earlier life is on the line when n is started, and a call    *)
(* that has failed, or is over, has left nothing that runs.                   *)
ExitsFirst(n) == \A i, j \in DOMAIN output :
  Answers(i) /\ output[j].type = "node-exit" /\ output[j].of = n => j < i

Cold(n) ==
  /\ ExitOnTheWay(n) => ~Hot(n)
  /\ Asked(n) => Down(n) /\ startup[n] # "exited"
  /\ Idle(n) /\ rt[n] \in {"new", "initialized", "stopped"} => ~ExitOnTheWay(n)
  /\ Idle(n) /\ rt[n] \in {"failed", "disposed"} => ~Hot(n)
  /\ call["user"][n] \in {"prepare", "bootstrap", "boot", "halt", "halted"} => Fresh(n)
  /\ call["user"][n] = "NODE_START" /\ head = "queued" => Fresh(n) /\ startup[n] # "exited"
  /\ call["user"][n] = "stop" /\ head = "ok" => ~ExitOnTheWay(n)
  /\ call["user"][n] = "stop" /\ head = "sent" => ExitsFirst(n)
  /\ call["release"][n] \in Unwound => ~Hot(n)
  /\ head = "error" /\ (\E t \in Tracks : call[t][n] \in {"stop", "undo", "dstop"}) => ~Hot(n)

OneStart == \A i \in DOMAIN input :
  input[i].cmd = "NODE_START" => head = "sent" /\ input[i].id = waiter

(* Nothing is asked of a node that runs, and its exit is not missed.          *)
Unasked(n) == \A i \in DOMAIN input : input[i].node # n
Live(n) == Unasked(n) /\ (guest[n] = "running" \/ ExitOnTheWay(n))
Deleted(n) == \/ guest[n] = "deleted"
              \/ \E i \in DOMAIN input : input[i].cmd = "NODE_DELETE" /\ input[i].node = n
Answered == head = "ok" \/ (head = "sent" /\ \E i \in DOMAIN output : Answers(i) /\ output[i].ok)

Reached(n) ==
  /\ rt[n] = "running" /\ (Idle(n) \/ (call["user"][n] = "stop" /\ head \in {"queued", "error"}))
       => Live(n)
  /\ call["user"][n] = "LINK" /\ Answered =>
       Unasked(n) /\ (guest[n] = "running" \/ ExitOnTheWay(n) \/ startup[n] = "exited")
  /\ Deleted(n) => rt[n] = "disposed" \/ call["release"][n] # "idle"
  /\ call["user"][n] = "stop" /\ head = "sent" => \A i \in DOMAIN output : Answers(i) => output[i].ok

Works == "STOP_FAILED" \notin use.faults

SerialInv ==
  /\ OneCall /\ MachineOK
  /\ \A n \in Nodes : Placed(n)
  /\ ~failed => OneStart /\ \A n \in Nodes : Cold(n)
  /\ Works => \A n \in Nodes : Reached(n)

SerialOK == Serial => SerialInv

-----------------------------------------------------------------------------
(* The one call.                                                              *)

LEMMA Alone ==
  ASSUME OneCall, NEW t \in Tracks, NEW n \in Nodes, AllIdle \/ call[t][n] # "idle"
  PROVE  /\ \A m \in Nodes \ {n} : Idle(m)
         /\ \A u \in Tracks \ {t} : call[u][n] = "idle"
BY DEF OneCall, AllIdle, Idle

LEMMA StillAlone ==
  ASSUME OneCall, NEW t \in Tracks, NEW n \in Nodes, NEW pc, AllIdle \/ call[t][n] # "idle",
         Moved(t, n, pc)
  PROVE  /\ OneCall'
         /\ \A m \in Nodes \ {n} : Idle(m) /\ Idle(m)'
         /\ \A u \in Tracks \ {t} : call[u][n] = "idle" /\ call'[u][n] = "idle"
<1>1. /\ \A m \in Nodes \ {n} : Idle(m)
      /\ \A u \in Tracks \ {t} : call[u][n] = "idle"
  BY Alone
<1>2. \A u \in Tracks, m \in Nodes : u # t \/ m # n => call[u][m] = "idle" /\ call'[u][m] = "idle"
  BY <1>1 DEF Idle, Moved
<1>3. OneCall'
  BY <1>2 DEF OneCall
<1>4. \A m \in Nodes \ {n} : Idle(m)'
  BY <1>2 DEF Idle
<1> QED
  BY <1>1, <1>2, <1>3, <1>4

(* No operation is chained but that of the one call.                          *)
LEMMA NoQueue ==
  ASSUME StopInv, OneCall, NEW t \in Tracks, NEW n \in Nodes,
         AllIdle \/ call[t][n] # "idle", call[t][n] \notin Asking
  PROVE  queue = <<>> /\ head = "queued"
<1>1. ControlType /\ ControlOK
  BY DEF StopInv, StopOK, TypeOK
<1>2. SUFFICES ASSUME queue # <<>> PROVE FALSE
  BY <1>1 DEF ControlOK
<1>3. PICK x \in Callers : x = Head(queue) /\ x = queue[1] /\ 1 \in DOMAIN queue
  BY <1>1, <1>2, HeadTail DEF ControlType
<1>4. x[1] \in Tracks /\ x[2] \in Nodes /\ call[x[1]][x[2]] \in Asking
  BY <1>1, <1>3 DEF ControlOK, Chained, At, Callers
<1>5. call[x[1]][x[2]] # "idle"
  BY <1>4, Names
<1>6. x[1] = t /\ x[2] = n
  BY <1>4, <1>5 DEF OneCall, AllIdle, Idle
<1> QED
  BY <1>4, <1>6

LEMMA HeadIs ==
  ASSUME StopInv, OneCall, NEW t \in Tracks, NEW n \in Nodes, call[t][n] # "idle", head # "queued"
  PROVE  /\ queue # <<>> /\ Head(queue) = <<t, n>> /\ call[t][n] \in Asking
         /\ head = "ok" /\ call[t][n] \in Ending => ~Hot(n)
         /\ head = "sent" => \A i \in DOMAIN output : Answers(i) /\ call[t][n] \in Ending => ~Hot(n)
         /\ head = "sent" => \A i \in DOMAIN input : input[i].id = waiter =>
                               /\ i = Len(input) /\ input[i].node = n
                               /\ input[i].cmd = Command[call[t][n]]
                               /\ \A j \in DOMAIN output : ~Answers(j)
<1>1. ControlType /\ ControlOK
  BY DEF StopInv, StopOK, TypeOK
<1>2. queue # <<>>
  BY <1>1 DEF ControlOK
<1>3. PICK x \in Callers : x = Head(queue) /\ x = queue[1] /\ 1 \in DOMAIN queue
  BY <1>1, <1>2, HeadTail DEF ControlType
<1>4. /\ x[1] \in Tracks /\ x[2] \in Nodes /\ x = <<x[1], x[2]>>
      /\ call[x[1]][x[2]] \in Asking /\ At(call, x) = call[x[1]][x[2]]
  BY <1>1, <1>3 DEF ControlOK, Chained, At, Callers
<1>5. call[x[1]][x[2]] # "idle"
  BY <1>4, Names
<1>6. x[1] = t /\ x[2] = n
  BY <1>4, <1>5 DEF OneCall
<1>7. head = "ok" => Over(x)
  BY <1>1, <1>3 DEF ControlOK
<1>8. head = "sent" => Sole(x) /\ \A i \in DOMAIN output : Answers(i) => Over(x)
  BY <1>1, <1>3 DEF ControlOK
<1>9. Over(x) => (call[t][n] \in Ending => ~Hot(n))
  BY <1>4, <1>6 DEF Over
<1>10. Sole(x) => \A i \in DOMAIN input : input[i].id = waiter =>
                               /\ i = Len(input) /\ input[i].node = n
                               /\ input[i].cmd = Command[call[t][n]]
                               /\ \A j \in DOMAIN output : ~Answers(j)
  BY <1>4, <1>6 DEF Sole
<1> QED
  BY <1>2, <1>3, <1>4, <1>6, <1>7, <1>8, <1>9, <1>10

(* What SerialInv says of n, and of a machine that has not failed.            *)
LEMMA SerialFacts ==
  ASSUME SerialInv, NEW n \in Nodes
  PROVE  /\ OneCall /\ MachineOK /\ Placed(n)
         /\ ~failed => OneStart /\ Cold(n)
         /\ Works => Reached(n)
BY DEF SerialInv

(* Nothing is written, so nothing that is read of the line changes.           *)
SameSigns(n) ==
  /\ Hot(n)' <=> Hot(n)
  /\ Asked(n)' <=> Asked(n)
  /\ Down(n)' <=> Down(n)
  /\ ExitOnTheWay(n)' <=> ExitOnTheWay(n)
  /\ Fresh(n)' <=> Fresh(n)
  /\ Unasked(n)' <=> Unasked(n)
  /\ Live(n)' <=> Live(n)
  /\ Deleted(n)' <=> Deleted(n)
  /\ guest'[n] = guest[n]

LEMMA SignsStay == ASSUME SameLine PROVE \A n : SameSigns(n)
BY DEF SameLine, SameSigns, Hot, Asked, Down, ExitOnTheWay, Fresh, Unasked, Live, Deleted

LEMMA AnswersStay ==
  ASSUME SameLine, UNCHANGED <<waiter, head>>
  PROVE  /\ Answered' <=> Answered
         /\ \A n : ExitsFirst(n)' <=> ExitsFirst(n)
         /\ (\A i \in DOMAIN output' : Answers(i)' => output'[i].ok)
              <=> (\A i \in DOMAIN output : Answers(i) => output[i].ok)
<1>1. \A i : Answers(i)' <=> Answers(i)
  BY DEF SameLine, Answers
<1> QED
  BY <1>1 DEF SameLine, Answered, ExitsFirst

-----------------------------------------------------------------------------
(* A node that nothing is outstanding on, while the call of another moves.    *)
Bystander(m) ==
  /\ m \in active' <=> m \in active
  /\ m \in registered' <=> m \in registered
  /\ rt'[m] = "running" /\ emulator = "running" => emulator' = "running"
  /\ \/ rt'[m] = rt[m]
     \/ failed' /\ rt'[m] = "failed" /\ m \in registered /\ rt[m] # "disposed"
  /\ startup'[m] = startup[m] \/ failed'

LEMMA BystanderIsOK ==
  ASSUME NEW m \in Nodes, Idle(m), Idle(m)', SameLine, Bystander(m), failed => failed', Placed(m),
         ~failed => Cold(m), Works => Reached(m), UNCHANGED use
  PROVE  Placed(m)' /\ (~failed' => Cold(m)') /\ (Works' => Reached(m)')
<1>1. /\ call["user"][m] = "idle" /\ call["release"][m] = "idle"
      /\ call'["user"][m] = "idle" /\ call'["release"][m] = "idle"
      /\ \A t \in Tracks : call[t][m] = "idle" /\ call'[t][m] = "idle"
  BY DEF Idle, Tracks
<1>2. ~Leaving(m) /\ ~Leaving(m)'
  BY <1>1 DEF Leaving, Unwound
<1>3. Placed(m)'
  BY <1>1, <1>2 DEF Placed, Bystander, Up, Stopping
<1>4. SameSigns(m)
  BY SignsStay
<1>5. ASSUME ~failed' PROVE Cold(m)'
  <2>1. Cold(m) /\ rt'[m] = rt[m] /\ startup'[m] = startup[m]
    BY <1>5 DEF Bystander
  <2> QED
    BY <1>1, <1>4, <2>1 DEF Cold, SameSigns, Unwound
<1>6. ASSUME Works' PROVE Reached(m)'
  <2>1. Reached(m)
    BY <1>6 DEF Works
  <2>2. rt'[m] = "running" => rt[m] = "running"
    BY DEF Bystander
  <2>3. rt[m] = "disposed" => rt'[m] = "disposed"
    BY DEF Bystander
  <2> QED
    BY <1>1, <1>4, <2>1, <2>2, <2>3 DEF Reached, SameSigns
<1> QED
  BY <1>3, <1>5, <1>6

(* The one call moves, and nothing is written to the line.                    *)
MovedAlone(t, n, pc) ==
  /\ AllIdle \/ call[t][n] \notin {"idle", "halt", "dhalt"}
  /\ Moved(t, n, pc) /\ SameLine /\ UNCHANGED <<use, waiter>>
  /\ \/ UNCHANGED head
     \/ head' = "queued" /\ head \in {"ok", "error"}
     \/ head' = "error" /\ failed'
  /\ failed => failed'
  /\ failed' => failed \/ head' # "sent"
  /\ emulator' = "stopping" => emulator = "stopping" \/ pc \in {"halt", "dhalt"}
  /\ prep' \in {"none", "load"} => emulator' = "none"
  /\ \A m \in Nodes \ {n} : Bystander(m)

LEMMA NotStopping ==
  ASSUME SerialInv, NEW t \in Tracks, NEW n \in Nodes, AllIdle \/ call[t][n] \notin {"idle", "halt", "dhalt"}
  PROVE  emulator # "stopping"
<1>1. ASSUME NEW u \in Tracks, NEW m \in Nodes, call[u][m] \in {"halt", "dhalt"} PROVE FALSE
  BY <1>1 DEF SerialInv, OneCall, AllIdle, Idle
<1> QED
  BY <1>1 DEF SerialInv, MachineOK

LEMMA SerialMove ==
  ASSUME StopInv, SerialInv, NEW t \in Tracks, NEW n \in Nodes, NEW pc, MovedAlone(t, n, pc),
         Placed(n)', ~failed' => Cold(n)', Works => Reached(n)'
  PROVE  SerialInv'
<1>1. /\ OneCall'
      /\ \A m \in Nodes \ {n} : Idle(m) /\ Idle(m)'
  BY StillAlone DEF MovedAlone, SerialInv
<1>2. \A m \in Nodes \ {n} : Placed(m)' /\ (~failed' => Cold(m)') /\ (Works' => Reached(m)')
  <2> SUFFICES ASSUME NEW m \in Nodes \ {n}
               PROVE  Placed(m)' /\ (~failed' => Cold(m)') /\ (Works' => Reached(m)')
    OBVIOUS
  <2>1. Bystander(m) /\ SameLine /\ UNCHANGED use /\ (failed => failed')
    BY DEF MovedAlone
  <2> QED
    BY <1>1, <2>1, SerialFacts, BystanderIsOK
<1>3. MachineOK'
  <2>1. emulator # "stopping"
    BY NotStopping DEF MovedAlone
  <2>2. emulator' = "stopping" => call'[t][n] \in {"halt", "dhalt"}
    BY <2>1 DEF MovedAlone, Moved
  <2>3. failed' => head' # "sent"
    BY SerialFacts DEF MovedAlone, MachineOK
  <2> QED
    BY <2>2, <2>3 DEF MovedAlone, MachineOK
<1>4. ASSUME ~failed' PROVE OneStart'
  <2>1. OneStart /\ UNCHANGED <<input, waiter>>
    BY <1>4, SerialFacts DEF MovedAlone, SameLine
  <2>2. head' = head \/ head # "sent"
    BY <1>4 DEF MovedAlone
  <2> QED
    BY <2>1, <2>2 DEF OneStart
<1>5. Works' <=> Works
  BY DEF Works, MovedAlone
<1> QED
  BY <1>1, <1>2, <1>3, <1>4, <1>5 DEF SerialInv

-----------------------------------------------------------------------------
(* Where the one call is, when it is the user's of n, or the release of n.    *)
UserAt(n, pc) ==
  /\ call["release"][n] = "idle" /\ call'["release"][n] = "idle" /\ call'["user"][n] = pc
  /\ Idle(n)' <=> pc = "idle"
  /\ Leaving(n)' <=> pc \in {"halt", "halted"} \cup Unwound
  /\ (\E t \in Tracks : call[t][n] \in {"stop", "undo", "dstop"})' <=> pc \in {"stop", "undo", "dstop"}

ReleaseAt(n, pc) ==
  /\ call["user"][n] = "idle" /\ call'["user"][n] = "idle" /\ call'["release"][n] = pc
  /\ Idle(n)' <=> pc = "idle"
  /\ Leaving(n)' <=> pc \in {"halt", "halted"} \cup Unwound
  /\ (\E t \in Tracks : call[t][n] \in {"stop", "undo", "dstop"})' <=> pc \in {"stop", "undo", "dstop"}

LEMMA UserMoves ==
  ASSUME SerialInv, NEW n \in Nodes, NEW pc, AllIdle \/ call["user"][n] # "idle", Moved("user", n, pc)
  PROVE  UserAt(n, pc)
<1>1. Tracks = {"user", "release"}
  BY DEF Tracks
<1>2. call["release"][n] = "idle" /\ call'["release"][n] = "idle"
  BY <1>1, SerialFacts, StillAlone
<1>3. call'["user"][n] = pc
  BY <1>1 DEF Moved
<1> QED
  BY <1>1, <1>2, <1>3 DEF UserAt, Idle, Leaving, Unwound

LEMMA ReleaseMovesOn ==
  ASSUME SerialInv, NEW n \in Nodes, NEW pc, AllIdle \/ call["release"][n] # "idle", Moved("release", n, pc)
  PROVE  ReleaseAt(n, pc)
<1>1. Tracks = {"user", "release"}
  BY DEF Tracks
<1>2. call["user"][n] = "idle" /\ call'["user"][n] = "idle"
  BY <1>1, SerialFacts, StillAlone
<1>3. call'["release"][n] = pc
  BY <1>1 DEF Moved
<1> QED
  BY <1>1, <1>2, <1>3 DEF ReleaseAt, Idle, Leaving, Unwound

LEMMA SerialCalls ==
  ASSUME Serial, NEW n \in Nodes, MayUse(n) \/ MayRelease(n)
  PROVE  AllIdle /\ Idle(n) /\ call["user"][n] = "idle" /\ call["release"][n] = "idle" /\ ~Leaving(n)
<1>1. AllIdle
  BY DEF Serial, MayUse, MayRelease
<1> QED
  BY <1>1 DEF AllIdle, Idle, Tracks, Leaving, Unwound

LEMMA InitializeSerial ==
  ASSUME StopInv, Serial, SerialInv, NEW n \in Nodes, Initialize(n)
  PROVE  SerialInv'
<1>1. SameLine /\ UNCHANGED <<use, waiter, head, rt, active, startup, failed, emulator>>
  BY DEF Initialize, labd, control, SameLine
<1>2. AllIdle /\ Idle(n) /\ call["user"][n] = "idle" /\ ~Leaving(n)
  BY SerialCalls DEF Initialize
<1>3. Moved("user", n, "prepare")
  BY Facts, Names, CallMoves DEF Initialize
<1>4. UserAt(n, "prepare")
  BY <1>2, <1>3, UserMoves
<1>5. rt[n] = "new" /\ registered' = registered \cup {n} /\ ~failed
        /\ prep' = IF prep = "none" THEN "load" ELSE prep
  BY DEF Initialize
<1>6. MovedAlone("user", n, "prepare")
  BY <1>1, <1>2, <1>3, <1>5, SerialFacts DEF MovedAlone, Bystander, MachineOK
<1>7. Placed(n)'
  BY <1>1, <1>2, <1>4, <1>5, SerialFacts DEF Placed, UserAt, Up, Stopping, Unwound
<1>8. ~Hot(n) /\ SameSigns(n)
  BY <1>1, <1>2, <1>5, Facts, SignsStay DEF NodeOK, Begun, Starting
<1>9. Cold(n)'
  BY <1>1, <1>2, <1>4, <1>5, <1>8, SerialFacts DEF Cold, UserAt, SameSigns, Fresh, Unwound
<1>10. Works => Reached(n)'
  BY <1>1, <1>2, <1>4, <1>5, <1>8, SerialFacts DEF Reached, UserAt, SameSigns, Idle
<1> QED
  BY <1>6, <1>7, <1>9, <1>10, SerialMove DEF Tracks

(* A call of the user ends, and leaves its node failed.                       *)
LEMMA RejectSerial ==
  ASSUME StopInv, Serial, SerialInv, NEW n \in Nodes, MovedAlone("user", n, "idle"),
         rt' = [rt EXCEPT ![n] = "failed"], registered' = registered, active' \in {active, active \ {n}},
         rt[n] \notin {"running", "disposed"}, ~failed => ~Hot(n), n \in registered
  PROVE  SerialInv'
<1>1. "user" \in Tracks /\ SameLine /\ Moved("user", n, "idle") /\ (AllIdle \/ call["user"][n] # "idle")
  BY DEF MovedAlone, Tracks
<1>2. UserAt(n, "idle")
  BY <1>1, UserMoves
<1>3. rt'[n] = "failed" /\ (failed => failed')
  BY Facts DEF NodesType, MovedAlone
<1>4. Placed(n)'
  BY <1>2, <1>3, SerialFacts DEF Placed, UserAt, Up, Stopping, Unwound
<1>5. SameSigns(n)
  BY <1>1, SignsStay
<1>6. ASSUME ~failed' PROVE Cold(n)'
  <2>1. ~Hot(n) /\ Cold(n)
    BY <1>3, <1>6, SerialFacts
  <2> QED
    BY <1>2, <1>3, <1>5, <2>1 DEF Cold, UserAt, SameSigns, Hot, Unwound
<1>7. ASSUME Works PROVE Reached(n)'
  <2>1. ~Deleted(n)
    BY <1>2, <1>7, SerialFacts DEF Reached, UserAt
  <2> QED
    BY <1>2, <1>3, <1>5, <2>1 DEF Reached, UserAt, SameSigns
<1> QED
  BY <1>1, <1>4, <1>6, <1>7, SerialMove

(* A call of the user goes on, its node as it is.                             *)
GoesOn(n, pc) ==
  /\ MovedAlone("user", n, pc) /\ UNCHANGED <<rt, registered, failed>>
  /\ pc \in Up \ {"stop"} /\ emulator' = "running"
  /\ rt[n] \notin {"running", "disposed"} /\ n \in registered

LEMMA GoesOnSerial ==
  ASSUME StopInv, Serial, SerialInv, NEW n \in Nodes, NEW pc, GoesOn(n, pc),
         active' \in {active, active \ {n}},
         pc \in {"NODE_START", "ready", "LINK"} => startup'[n] # "none",
         ~failed => /\ pc = "boot" => Fresh(n)
                    /\ pc = "NODE_START" => Fresh(n) /\ startup'[n] # "exited"
                    /\ Asked(n) => startup'[n] # "exited",
         head' = "queued"
  PROVE  SerialInv'
<1>1. /\ "user" \in Tracks /\ SameLine /\ Moved("user", n, pc) /\ (AllIdle \/ call["user"][n] # "idle")
      /\ UNCHANGED <<rt, registered, failed>> /\ emulator' = "running"
      /\ pc \in {"boot", "NODE_START", "ready", "LINK", "undo"}
      /\ rt[n] \notin {"running", "disposed"} /\ n \in registered
  BY DEF MovedAlone, GoesOn, Tracks, Up
<1>2. UserAt(n, pc)
  BY <1>1, UserMoves
<1>3. Placed(n)'
  BY <1>1, <1>2, SerialFacts DEF Placed, UserAt, Up, Stopping, Unwound
<1>4. SameSigns(n)
  BY <1>1, SignsStay
<1>5. ASSUME ~failed' PROVE Cold(n)'
  <2>1. ~failed /\ Cold(n)
    BY <1>1, <1>5, SerialFacts
  <2> QED
    BY <1>1, <1>2, <1>4, <2>1 DEF Cold, UserAt, SameSigns, Unwound
<1>6. ASSUME Works PROVE Reached(n)'
  <2>1. ~Deleted(n)
    BY <1>1, <1>2, <1>6, SerialFacts DEF Reached, UserAt
  <2> QED
    BY <1>1, <1>2, <1>4, <2>1 DEF Reached, UserAt, SameSigns, Answered
<1> QED
  BY <1>1, <1>3, <1>5, <1>6, SerialMove DEF GoesOn

(* The user's call on n, as it is found.                                      *)
LEMMA UserFacts ==
  ASSUME StopInv, SerialInv, NEW n \in Nodes, call["user"][n] # "idle"
  PROVE  /\ n \in registered /\ rt[n] # "disposed"
         /\ call["user"][n] \in Begun \cup {"prepare"} => rt[n] # "running"
         /\ call["user"][n] \in Up => emulator = "running"
         /\ call["user"][n] \notin Asking => queue = <<>> /\ head = "queued"
BY Facts, SerialFacts, NoQueue DEF Placed, NodeOK

LEMMA FailingSpares ==
  ASSUME NodesType, Failing, UNCHANGED <<active, registered, emulator>>
  PROVE  \A m \in Nodes : Bystander(m)
BY DEF NodesType, Failing, Bystander

(* #failMachine, while the call stays where it is.                            *)
LEMMA FailSerial ==
  ASSUME StopInv, SerialInv, Failing, UNCHANGED <<call, registered, active, emulator, use, guest, input>>,
         prep' \in {"none", "load"} => prep \in {"none", "load"},
         \A n \in Nodes : ExitOnTheWay(n) => ExitOnTheWay(n)'
  PROVE  SerialInv'
<1>1. failed' /\ head' # "sent" /\ (head' = "ok" => head = "ok") /\ (head' = "queued" => head = "queued")
  BY DEF Failing
<1>2. OneCall' /\ MachineOK'
  BY <1>1 DEF SerialInv, OneCall, MachineOK
<1>3. ASSUME NEW n \in Nodes PROVE Placed(n)' /\ (Works => Reached(n)')
  <2>1. /\ rt'[n] = IF n \in registered /\ rt[n] # "disposed" THEN "failed" ELSE rt[n]
        /\ startup'[n] = IF n \in registered /\ startup[n] = "pending" THEN "failed" ELSE startup[n]
    BY DEF Failing
  <2>2. (Idle(n)' <=> Idle(n)) /\ (Leaving(n)' <=> Leaving(n))
    BY DEF Idle, Leaving
  <2>3. Placed(n)'
    BY <1>1, <2>1, <2>2, SerialFacts DEF Placed
  <2>4. ASSUME Works PROVE Reached(n)'
    <3>1. Reached(n) /\ Placed(n)
      BY <2>4, SerialFacts
    <3>2. /\ Unasked(n)' <=> Unasked(n)
          /\ Deleted(n)' <=> Deleted(n)
          /\ ExitOnTheWay(n) => ExitOnTheWay(n)'
      BY DEF Unasked, Deleted
    <3>3. Live(n) => Live(n)'
      BY <3>2 DEF Live
    <3>4. Answered' => Answered
      BY <1>1 DEF Answered
    <3>5. rt'[n] = "running" => call["release"][n] = "destroy"
      BY <2>1, <3>1 DEF Placed
    <3>6. call["release"][n] = "destroy" => ~Idle(n) /\ call["user"][n] = "idle"
      BY SerialFacts DEF OneCall, Idle, Tracks
    <3> QED
      BY <1>1, <2>1, <2>2, <3>1, <3>2, <3>4, <3>5, <3>6 DEF Reached
  <2> QED
    BY <2>3, <2>4
<1>4. Works' <=> Works
  BY DEF Works
<1> QED
  BY <1>1, <1>2, <1>3, <1>4 DEF SerialInv

LEMMA StaySerial ==
  ASSUME StopInv, SerialInv, SameLine, UNCHANGED <<call, rt, registered, active, startup, head, waiter, failed, use>>,
         emulator' = emulator \/ (emulator = "none" /\ emulator' = "idle"),
         prep' \in {"none", "load"} => emulator' = "none"
  PROVE  SerialInv'
<1>1. OneCall' /\ MachineOK'
  BY DEF SerialInv, OneCall, MachineOK
<1>2. ASSUME NEW n \in Nodes PROVE Placed(n)' /\ (~failed => Cold(n)') /\ (Works => Reached(n)')
  <2>1. (Idle(n)' <=> Idle(n)) /\ (Leaving(n)' <=> Leaving(n)) /\ SameSigns(n)
    BY SignsStay DEF Idle, Leaving
  <2>2. Placed(n)'
    BY <2>1, SerialFacts DEF Placed
  <2>3. ~failed => Cold(n)'
    BY <2>1, SerialFacts, AnswersStay DEF Cold, SameSigns
  <2>4. Works => Reached(n)'
    BY <2>1, SerialFacts, AnswersStay DEF Reached, SameSigns
  <2> QED
    BY <2>2, <2>3, <2>4
<1>3. ~failed => OneStart'
  BY DEF SerialInv, OneStart, SameLine
<1>4. Works' <=> Works
  BY DEF Works
<1> QED
  BY <1>1, <1>2, <1>3, <1>4 DEF SerialInv

LEMMA LoadedSerial ==
  ASSUME StopInv, Serial, SerialInv, Loaded \/ EmulatorReady \/ DownloadError
  PROVE  SerialInv'
<1>1. SameLine /\ UNCHANGED <<call, waiter, active, registered, use, guest, input, output>>
  BY DEF Loaded, EmulatorReady, DownloadError, labd, SameLine
<1>2. prep \in {"none", "load"} => emulator = "none"
  BY DEF SerialInv, MachineOK
<1>3. CASE Failing /\ UNCHANGED emulator
  <2>2. prep' \in {"none", "load"} => prep \in {"none", "load"}
    BY DEF Loaded, EmulatorReady, DownloadError
  <2>3. \A n \in Nodes : ExitOnTheWay(n) => ExitOnTheWay(n)'
    BY <1>1 DEF ExitOnTheWay
  <2> QED
    BY <1>1, <1>3, <2>2, <2>3, FailSerial
<1>4. CASE UNCHANGED <<failed, ready, head, startup, rt>>
  <2>1. emulator' = emulator \/ (emulator = "none" /\ emulator' = "idle")
    BY <1>2 DEF Loaded, EmulatorReady, DownloadError
  <2>2. prep' \in {"none", "load"} => emulator' = "none"
    BY <1>2 DEF Loaded, EmulatorReady, DownloadError
  <2> QED
    BY <1>1, <1>4, <2>1, <2>2, StaySerial
<1> QED
  BY <1>3, <1>4 DEF Loaded, EmulatorReady, DownloadError

LEMMA InitializedSerial ==
  ASSUME StopInv, Serial, SerialInv, NEW n \in Nodes, Initialized(n)
  PROVE  SerialInv'
<1>1. SameLine /\ UNCHANGED <<use, waiter, head, registered, active, startup, failed, emulator, prep>>
  BY DEF Initialized, labd, control, machine, SameLine
<1>2. call["user"][n] = "prepare" /\ (prep = "ok" \/ prep = "failed")
  BY DEF Initialized
<1>3. Moved("user", n, "idle")
  BY Facts, Names, CallMoves DEF Initialized
<1>4. UserAt(n, "idle")
  BY <1>2, <1>3, UserMoves
<1>5. n \in registered /\ rt[n] \notin {"running", "disposed"}
  BY <1>2, UserFacts
<1>6. \A m \in Nodes \ {n} : rt'[m] = rt[m]
  BY Facts DEF Initialized, NodesType
<1>7. MovedAlone("user", n, "idle")
  BY <1>1, <1>2, <1>3, <1>6, SerialFacts DEF MovedAlone, Bystander, MachineOK
<1>8. ~failed => Fresh(n)
  BY <1>2, SerialFacts DEF Cold
<1>9. CASE prep = "failed"
  <2>1. rt' = [rt EXCEPT ![n] = "failed"]
    BY <1>9 DEF Initialized
  <2> QED
    BY <1>1, <1>5, <1>7, <1>8, <2>1, RejectSerial DEF Fresh
<1>10. CASE prep = "ok"
  <2>1. rt'[n] = "initialized"
    BY <1>10, Facts DEF Initialized, NodesType
  <2>2. Placed(n)'
    BY <1>1, <1>4, <1>5, <2>1, SerialFacts DEF Placed, UserAt, Up, Stopping, Unwound
  <2>3. SameSigns(n)
    BY <1>1, SignsStay
  <2>4. ~failed => Cold(n)'
    BY <1>1, <1>4, <1>8, <2>1, <2>3, SerialFacts DEF Cold, UserAt, SameSigns, Fresh, Unwound
  <2>5. Works => Reached(n)'
    BY <1>1, <1>4, <1>5, <2>1, <2>3, SerialFacts DEF Reached, UserAt, SameSigns
  <2> QED
    BY <1>1, <1>7, <2>2, <2>4, <2>5, SerialMove DEF Tracks
<1> QED
  BY <1>2, <1>9, <1>10

LEMMA StartSerial ==
  ASSUME StopInv, Serial, SerialInv, NEW n \in Nodes, Start(n)
  PROVE  SerialInv'
<1>1. /\ SameLine /\ UNCHANGED <<use, waiter, active, registered, prep, guest, input, output>>
      /\ rt[n] \in {"initialized", "stopped"}
  BY DEF Start, labd, SameLine
<1>2. AllIdle /\ Idle(n) /\ call["user"][n] = "idle" /\ call["release"][n] = "idle"
  BY SerialCalls DEF Start
<1>3. queue = <<>> /\ head = "queued"
  BY <1>2, SerialFacts, NoQueue, Names DEF Tracks
<1>4. n \in registered /\ emulator # "stopping" /\ (prep \in {"none", "load"} => emulator = "none")
  BY <1>1, <1>2, SerialFacts, NotStopping DEF Placed, Tracks, MachineOK
<1>5. ~Hot(n)
  BY <1>1, <1>2, Facts DEF NodeOK, Begun, Starting
<1>6. ~failed => Fresh(n) /\ (Asked(n) => startup[n] # "exited")
  BY <1>1, <1>2, <1>5, SerialFacts DEF Cold, Fresh
<1>7. CASE Failing /\ UNCHANGED <<call, emulator>>
  BY <1>1, <1>7, FailSerial DEF ExitOnTheWay
<1>8. ASSUME NEW pc \in {"bootstrap", "boot"}, call' = [call EXCEPT !["user"][n] = pc],
             emulator # "none", emulator' = emulator \/ emulator' = "running",
             pc = "boot" => emulator' = "running",
             UNCHANGED <<rt, startup, head, failed, ready>>
      PROVE  SerialInv'
  <2>1. Moved("user", n, pc)
    BY <1>8, Facts, Names, CallMoves
  <2>2. UserAt(n, pc)
    BY <1>2, <2>1, UserMoves
  <2>3. MovedAlone("user", n, pc)
    BY <1>1, <1>2, <1>4, <1>8, <2>1, SerialFacts DEF MovedAlone, Bystander, MachineOK
  <2>4. Placed(n)'
    BY <1>1, <1>2, <1>4, <1>8, <2>2, SerialFacts DEF Placed, UserAt, Up, Stopping, Unwound
  <2>5. SameSigns(n)
    BY <1>1, SignsStay
  <2>6. ~failed => Cold(n)'
    BY <1>6, <1>8, <2>2, <2>5, SerialFacts DEF Cold, UserAt, SameSigns, Fresh, Unwound
  <2>7. Works => Reached(n)'
    BY <1>1, <1>2, <1>8, <2>2, <2>5, SerialFacts DEF Reached, UserAt, SameSigns
  <2> QED
    BY <1>8, <2>3, <2>4, <2>6, <2>7, SerialMove DEF Tracks
<1>9. CASE Reject(n) /\ UNCHANGED <<startup, head, failed, ready, emulator>>
  <2>1. Moved("user", n, "idle")
    BY <1>9, Facts, Names, CallMoves DEF Reject
  <2>2. \A m \in Nodes \ {n} : rt'[m] = rt[m]
    BY <1>9, Facts DEF Reject, NodesType
  <2>3. MovedAlone("user", n, "idle")
    BY <1>1, <1>2, <1>4, <1>9, <2>1, <2>2, SerialFacts DEF MovedAlone, Bystander, MachineOK
  <2> QED
    BY <1>1, <1>4, <1>5, <1>9, <2>3, RejectSerial DEF Reject
<1>10. ASSUME emulator' = IF Runs THEN emulator ELSE "running"
       PROVE  emulator' = "running"
  BY <1>4, <1>10 DEF Runs
<1> QED
  BY <1>7, <1>8, <1>9, <1>10 DEF Start

LEMMA BootstrappedSerial ==
  ASSUME StopInv, Serial, SerialInv, NEW n \in Nodes, Bootstrapped(n)
  PROVE  SerialInv'
<1>1. SameLine /\ UNCHANGED <<use, waiter, active, registered, prep>>
  BY DEF Bootstrapped, labd, SameLine
<1>2. call["user"][n] = "bootstrap" /\ call["user"][n] \notin {"idle", "halt", "dhalt"}
  BY DEF Bootstrapped
<1>3. /\ queue = <<>> /\ head = "queued" /\ n \in registered /\ rt[n] \notin {"running", "disposed"}
      /\ emulator # "stopping"
  BY <1>2, UserFacts, NotStopping, Names DEF Begun, Starting, Tracks
<1>4. emulator \in {"idle", "running"} /\ prep \notin {"none", "load"}
  BY <1>2, <1>3, Facts, SerialFacts DEF Placed, MachineOK, MachineType
<1>5. ~failed => Fresh(n) /\ (Asked(n) => startup[n] # "exited")
  BY <1>2, SerialFacts DEF Cold
<1>6. CASE /\ emulator' = IF emulator = "idle" THEN "running" ELSE emulator
           /\ call' = [call EXCEPT !["user"][n] = "boot"]
           /\ UNCHANGED <<rt, startup, head, failed, ready>>
  <2>1. Moved("user", n, "boot")
    BY <1>6, Facts, Names, CallMoves
  <2>2. emulator' = "running"
    BY <1>4, <1>6
  <2>3. MovedAlone("user", n, "boot")
    BY <1>1, <1>2, <1>4, <1>6, <2>1, <2>2 DEF MovedAlone, Bystander
  <2>4. GoesOn(n, "boot")
    BY <1>1, <1>3, <1>6, <2>2, <2>3 DEF GoesOn, Up
  <2> QED
    BY <1>1, <1>3, <1>5, <1>6, <2>4, GoesOnSerial
<1>7. CASE Failing /\ call' = [call EXCEPT !["user"][n] = "idle"] /\ UNCHANGED emulator
  <2>1. Moved("user", n, "idle")
    BY <1>7, Facts, Names, CallMoves
  <2>2. failed' /\ head' # "sent" /\ UNCHANGED head
    BY <1>3, <1>7 DEF Failing
  <2>3. \A m \in Nodes \ {n} : Bystander(m)
    BY <1>1, <1>7, Facts, FailingSpares
  <2>4. MovedAlone("user", n, "idle")
    BY <1>1, <1>2, <1>3, <1>4, <1>7, <2>1, <2>2, <2>3 DEF MovedAlone
  <2>5. rt'[n] = "failed"
    BY <1>3, <1>7 DEF Failing
  <2>7. UserAt(n, "idle")
    BY <1>2, <2>1, UserMoves
  <2>8. Placed(n)'
    BY <1>1, <1>3, <2>2, <2>5, <2>7, SerialFacts DEF Placed, UserAt, Up, Stopping, Unwound
  <2>9. SameSigns(n)
    BY <1>1, SignsStay
  <2>10. Works => Reached(n)'
    BY <1>2, <1>3, <2>5, <2>7, <2>9, SerialFacts DEF Reached, UserAt, SameSigns
  <2> QED
    BY <2>2, <2>4, <2>8, <2>10, SerialMove DEF Tracks
<1> QED
  BY <1>6, <1>7 DEF Bootstrapped

LEMMA BootedSerial ==
  ASSUME StopInv, Serial, SerialInv, NEW n \in Nodes, Booted(n)
  PROVE  SerialInv'
<1>1. SameLine /\ UNCHANGED <<use, waiter, head, active, registered, prep, failed, emulator>>
  BY DEF Booted, labd, machine, SameLine
<1>2. call["user"][n] = "boot" /\ call["user"][n] \notin {"idle", "halt", "dhalt"}
  BY DEF Booted
<1>3. /\ queue = <<>> /\ head = "queued" /\ n \in registered /\ rt[n] \notin {"running", "disposed"}
      /\ emulator = "running" /\ prep \notin {"none", "load"}
  BY <1>2, UserFacts, SerialFacts, Names DEF Begun, Starting, Up, MachineOK
<1>4. ~failed => Fresh(n)
  BY <1>2, SerialFacts DEF Cold
<1>5. CASE Reject(n) /\ UNCHANGED <<startup, queue>>
  <2>1. Moved("user", n, "idle")
    BY <1>5, Facts, Names, CallMoves DEF Reject
  <2>2. \A m \in Nodes \ {n} : rt'[m] = rt[m]
    BY <1>5, Facts DEF Reject, NodesType
  <2>3. MovedAlone("user", n, "idle")
    BY <1>1, <1>2, <1>3, <1>5, <2>1, <2>2 DEF MovedAlone, Bystander
  <2> QED
    BY <1>1, <1>3, <1>4, <1>5, <2>3, RejectSerial DEF Reject, Fresh
<1>6. CASE /\ startup' = [startup EXCEPT ![n] = "pending"]
           /\ Goto("user", n, "NODE_START", queue)
           /\ UNCHANGED rt
  <2>1. Moved("user", n, "NODE_START")
    BY <1>6, Facts, Names, CallMoves DEF Goto
  <2>2. startup'[n] = "pending" /\ \A m \in Nodes \ {n} : startup'[m] = startup[m]
    BY <1>6, Facts DEF NodesType
  <2>3. MovedAlone("user", n, "NODE_START")
    BY <1>1, <1>2, <1>3, <1>6, <2>1, <2>2 DEF MovedAlone, Bystander
  <2>4. GoesOn(n, "NODE_START")
    BY <1>1, <1>3, <1>6, <2>3 DEF GoesOn, Up
  <2> QED
    BY <1>1, <1>3, <1>4, <2>2, <2>4, GoesOnSerial
<1> QED
  BY <1>5, <1>6 DEF Booted

(* No timer fires while an answer may come.                                   *)
LEMMA BootTimeoutSerial ==
  ASSUME StopInv, Serial, SerialInv, Serial', NEW n \in Nodes, BootTimeout(n)
  PROVE  FALSE
<1>1. call["user"][n] = "boot" /\ Fire(~Runs) /\ timeouts' = timeouts
  BY Facts DEF BootTimeout, Serial
<1>2. Runs
  BY <1>1, SerialFacts DEF Placed, Up, Runs
<1> QED
  BY <1>1, <1>2 DEF Fire, Serial

(* The catch of startNode: the machine runs, so the node is told to stop.     *)
LEMMA StartFailsSerial ==
  ASSUME StopInv, Serial, SerialInv, NEW n \in Nodes, NEW q, StartFails(n, q), SameLine,
         UNCHANGED <<use, waiter, registered, prep, failed, emulator>>,
         call["user"][n] \in {"NODE_START", "ready", "LINK"}, head' = "queued",
         head \in {"queued", "ok", "error"}
  PROVE  SerialInv'
<1>1. /\ n \in registered /\ rt[n] \notin {"running", "disposed"}
      /\ emulator = "running" /\ prep \notin {"none", "load"}
  BY UserFacts, SerialFacts DEF Begun, Starting, Up, MachineOK
<1>2. active' = active \ {n} /\ Goto("user", n, "undo", q) /\ UNCHANGED <<rt, startup>>
  BY <1>1 DEF StartFails, Runs
<1>3. Moved("user", n, "undo")
  BY <1>2, Facts, Names, CallMoves DEF Goto
<1>4. MovedAlone("user", n, "undo")
  BY <1>1, <1>2, <1>3 DEF MovedAlone, Bystander
<1>5. GoesOn(n, "undo")
  BY <1>1, <1>2, <1>4 DEF GoesOn, Up
<1>6. ~failed => (Asked(n) => startup'[n] # "exited")
  BY <1>2, SerialFacts DEF Cold
<1> QED
  BY <1>2, <1>5, <1>6, GoesOnSerial

LEMMA ReadySerial ==
  ASSUME StopInv, Serial, SerialInv, NEW n \in Nodes, Ready(n) \/ ReadyTimeout(n)
  PROVE  SerialInv'
<1>1. SameLine /\ UNCHANGED <<use, waiter, head, registered, prep, failed, emulator>>
  BY DEF Ready, ReadyTimeout, Fire, labd, machine, SameLine
<1>2. call["user"][n] = "ready" /\ call["user"][n] \notin {"idle", "halt", "dhalt"}
  BY DEF Ready, ReadyTimeout
<1>3. /\ queue = <<>> /\ head = "queued" /\ n \in registered /\ rt[n] \notin {"running", "disposed"}
      /\ emulator = "running" /\ prep \notin {"none", "load"}
  BY <1>2, UserFacts, SerialFacts, Names DEF Begun, Starting, Up, MachineOK
<1>4. CASE StartFails(n, queue)
  BY <1>1, <1>2, <1>3, <1>4, StartFailsSerial
<1>5. CASE Goto("user", n, "LINK", queue) /\ UNCHANGED <<rt, active, startup>>
  <2>1. Moved("user", n, "LINK")
    BY <1>5, Facts, Names, CallMoves DEF Goto
  <2>2. MovedAlone("user", n, "LINK")
    BY <1>1, <1>2, <1>3, <1>5, <2>1 DEF MovedAlone, Bystander
  <2>3. GoesOn(n, "LINK")
    BY <1>1, <1>3, <1>5, <2>2 DEF GoesOn, Up
  <2>4. startup[n] # "none" /\ (~failed => (Asked(n) => startup[n] # "exited"))
    BY <1>2, SerialFacts DEF Placed, Cold
  <2> QED
    BY <1>1, <1>3, <1>5, <2>3, <2>4, GoesOnSerial
<1> QED
  BY <1>4, <1>5 DEF Ready, ReadyTimeout

-----------------------------------------------------------------------------
(* The first operation has settled.                                           *)

(* What every step of a settled call of the user's finds.                     *)
LEMMA SettledFacts ==
  ASSUME StopInv, Serial, SerialInv, NEW n \in Nodes, NEW pc \in {"NODE_START", "LINK", "undo"},
         Settled("user", n, pc)
  PROVE  /\ call["user"][n] = pc /\ call["user"][n] \notin {"idle", "halt", "dhalt"}
         /\ head \in {"ok", "error"} /\ n \in registered /\ rt[n] \notin {"running", "disposed"}
         /\ emulator = "running" /\ prep \notin {"none", "load"}
BY UserFacts, SerialFacts DEF Settled, Begun, Starting, Up, MachineOK

LEMMA StartSettledSerial ==
  ASSUME StopInv, Serial, SerialInv, NEW n \in Nodes, StartSettled(n)
  PROVE  SerialInv'
<1>1. /\ SameLine /\ UNCHANGED <<use, waiter, registered, prep, failed, emulator>>
      /\ head' = "queued" /\ Settled("user", n, "NODE_START")
  BY DEF StartSettled, labd, machine, SameLine
<1>2. /\ call["user"][n] = "NODE_START" /\ call["user"][n] \notin {"idle", "halt", "dhalt"}
      /\ head \in {"ok", "error"} /\ n \in registered /\ rt[n] \notin {"running", "disposed"}
      /\ emulator = "running" /\ prep \notin {"none", "load"}
  BY <1>1, SettledFacts
<1>3. CASE StartFails(n, Tail(queue))
  BY <1>1, <1>2, <1>3, StartFailsSerial
<1>4. CASE Goto("user", n, "ready", Tail(queue)) /\ UNCHANGED <<rt, active, startup>>
  <2>1. Moved("user", n, "ready")
    BY <1>4, Facts, Names, CallMoves DEF Goto
  <2>2. MovedAlone("user", n, "ready")
    BY <1>1, <1>2, <1>4, <2>1 DEF MovedAlone, Bystander
  <2>3. GoesOn(n, "ready")
    BY <1>1, <1>2, <1>4, <2>2 DEF GoesOn, Up
  <2>4. startup[n] # "none" /\ (~failed => (Asked(n) => startup[n] # "exited"))
    BY <1>2, SerialFacts DEF Placed, Cold
  <2> QED
    BY <1>1, <1>4, <2>3, <2>4, GoesOnSerial
<1> QED
  BY <1>3, <1>4 DEF StartSettled

LEMMA LinkSettledSerial ==
  ASSUME StopInv, Serial, SerialInv, NEW n \in Nodes, LinkSettled(n)
  PROVE  SerialInv'
<1>1. /\ SameLine /\ UNCHANGED <<use, waiter, registered, prep, failed, emulator>>
      /\ head' = "queued" /\ Settled("user", n, "LINK")
  BY DEF LinkSettled, labd, machine, SameLine
<1>2. /\ call["user"][n] = "LINK" /\ call["user"][n] \notin {"idle", "halt", "dhalt"}
      /\ head \in {"ok", "error"} /\ n \in registered /\ rt[n] \notin {"running", "disposed"}
      /\ emulator = "running" /\ prep \notin {"none", "load"}
  BY <1>1, SettledFacts
<1>3. CASE StartFails(n, Tail(queue))
  BY <1>1, <1>2, <1>3, StartFailsSerial
<1>4. CASE /\ head = "ok" /\ startup[n] # "exited"
           /\ active' = active \cup {n}
           /\ startup' = [startup EXCEPT ![n] = "none"]
           /\ rt' = [rt EXCEPT ![n] = "running"]
           /\ Goto("user", n, "idle", Tail(queue))
  <2>1. Moved("user", n, "idle")
    BY <1>4, Facts, Names, CallMoves DEF Goto
  <2>2. /\ rt'[n] = "running" /\ startup'[n] = "none"
        /\ \A m \in Nodes \ {n} : rt'[m] = rt[m] /\ startup'[m] = startup[m]
    BY <1>4, Facts DEF NodesType
  <2>3. MovedAlone("user", n, "idle")
    BY <1>1, <1>2, <1>4, <2>1, <2>2 DEF MovedAlone, Bystander
  <2>4. UserAt(n, "idle")
    BY <1>2, <2>1, UserMoves
  <2>5. Placed(n)'
    BY <1>1, <1>2, <1>4, <2>2, <2>4, SerialFacts DEF Placed, UserAt, Up, Stopping, Unwound
  <2>6. SameSigns(n)
    BY <1>1, SignsStay
  <2>7. ~failed => Cold(n)'
    BY <1>1, <2>2, <2>4, <2>6, SerialFacts DEF Cold, UserAt, SameSigns, Unwound
  <2>8. ASSUME Works PROVE Reached(n)'
    <3>1. Live(n) /\ ~Deleted(n)
      BY <1>2, <1>4, <2>4, <2>8, SerialFacts DEF Reached, UserAt, Answered, Live
    <3> QED
      BY <2>2, <2>4, <2>6, <3>1 DEF Reached, UserAt, SameSigns
  <2> QED
    BY <1>1, <2>3, <2>5, <2>7, <2>8, SerialMove DEF Tracks
<1> QED
  BY <1>3, <1>4 DEF LinkSettled

LEMMA UndoSettledSerial ==
  ASSUME StopInv, Serial, SerialInv, NEW n \in Nodes, UndoSettled(n)
  PROVE  SerialInv'
<1>1. /\ SameLine /\ UNCHANGED <<use, waiter, registered, active, prep, failed, emulator>>
      /\ head' = "queued" /\ Settled("user", n, "undo")
      /\ Reject(n) /\ startup' = [startup EXCEPT ![n] = "none"]
  BY DEF UndoSettled, labd, machine, SameLine
<1>2. /\ call["user"][n] = "undo" /\ call["user"][n] \notin {"idle", "halt", "dhalt"}
      /\ head \in {"ok", "error"} /\ n \in registered /\ rt[n] \notin {"running", "disposed"}
      /\ emulator = "running" /\ prep \notin {"none", "load"}
  BY <1>1, SettledFacts
<1>3. Moved("user", n, "idle")
  BY <1>1, Facts, Names, CallMoves DEF Reject
<1>4. \A m \in Nodes \ {n} : rt'[m] = rt[m] /\ startup'[m] = startup[m]
  BY <1>1, Facts DEF Reject, NodesType
<1>5. MovedAlone("user", n, "idle")
  BY <1>1, <1>2, <1>3, <1>4 DEF MovedAlone, Bystander
<1>6. ~failed => ~Hot(n)
  <2>1. CASE head = "ok"
    BY <1>2, <2>1, HeadIs, SerialFacts DEF Ending, Tracks
  <2>2. CASE head = "error"
    BY <1>2, <2>2, SerialFacts DEF Cold, Tracks
  <2> QED
    BY <1>2, <2>1, <2>2
<1> QED
  BY <1>1, <1>2, <1>5, <1>6, RejectSerial DEF Reject

-----------------------------------------------------------------------------
(* stop() and stopNode(), and the emulator that stops with the last node.     *)

LEMMA StopSerial ==
  ASSUME StopInv, Serial, SerialInv, NEW t \in Tracks, NEW n \in Nodes, Stop(t, n)
  PROVE  SerialInv'
<1>1. /\ SameLine /\ rt[n] = "running" /\ t = "user"
      /\ UNCHANGED <<use, waiter, head, registered, active, startup, prep, failed, emulator>>
  BY DEF Stop, labd, machine, SameLine, Serial
<1>2. AllIdle /\ Idle(n) /\ call["user"][n] = "idle" /\ call["release"][n] = "idle" /\ ~Leaving(n)
  BY SerialCalls DEF Stop
<1>3. /\ n \in active /\ n \in registered /\ emulator = "running" /\ prep \notin {"none", "load"}
      /\ head = "queued"
  BY <1>1, <1>2, SerialFacts, NoQueue, Names DEF Placed, MachineOK
<1>4. Goto("user", n, "stop", queue) /\ UNCHANGED rt
  BY <1>1, <1>3 DEF Stop
<1>5. Moved("user", n, "stop")
  BY <1>4, Facts, Names, CallMoves DEF Goto
<1>6. MovedAlone("user", n, "stop")
  BY <1>1, <1>2, <1>3, <1>4, <1>5 DEF MovedAlone, Bystander
<1>7. UserAt(n, "stop")
  BY <1>2, <1>5, UserMoves
<1>8. Placed(n)'
  BY <1>1, <1>2, <1>3, <1>4, <1>7, SerialFacts DEF Placed, UserAt, Up, Stopping, Unwound
<1>9. SameSigns(n)
  BY <1>1, SignsStay
<1>10. ~failed => Cold(n)'
  BY <1>1, <1>3, <1>4, <1>7, <1>9, SerialFacts DEF Cold, UserAt, SameSigns, Unwound
<1>11. ASSUME Works PROVE Reached(n)'
  <2>1. Live(n) /\ ~Deleted(n)
    BY <1>1, <1>2, <1>11, SerialFacts DEF Reached
  <2> QED
    BY <1>1, <1>3, <1>4, <1>7, <1>9, <2>1 DEF Reached, UserAt, SameSigns
<1> QED
  BY <1>1, <1>6, <1>8, <1>10, <1>11, SerialMove DEF Tracks

LEMMA StopSettledSerial ==
  ASSUME StopInv, Serial, SerialInv, NEW t \in Tracks, NEW n \in Nodes, StopSettled(t, n)
  PROVE  SerialInv'
<1>1. /\ SameLine /\ UNCHANGED <<use, waiter, registered, startup, prep, failed>>
      /\ head' = "queued" /\ head \in {"ok", "error"} /\ call[t][n] = "stop"
  BY DEF StopSettled, Settled, labd, SameLine
<1>2. t = "user"
  BY <1>1, SerialFacts DEF Placed, Stopping, Tracks
<1>3. /\ n \in registered /\ rt[n] \in {"running", "failed"} /\ emulator = "running"
      /\ prep \notin {"none", "load"} /\ call["user"][n] = "stop"
      /\ call["user"][n] \notin {"idle", "halt", "dhalt"}
  BY <1>1, <1>2, UserFacts, SerialFacts DEF Placed, Up, MachineOK
<1>4. call["release"][n] = "idle" /\ ~Leaving(n) /\ \A m \in Nodes \ {n} : Idle(m) /\ ~Leaving(m)
  <2>1. call["release"][n] = "idle" /\ \A m \in Nodes \ {n} : Idle(m)
    BY <1>3, Alone, SerialFacts DEF Tracks
  <2> QED
    BY <1>3, <2>1 DEF Leaving, Idle, Tracks, Unwound
<1>5. head = "ok" => ~Hot(n) /\ (~failed => Fresh(n))
  BY <1>2, <1>3, HeadIs, SerialFacts DEF Ending, Cold, Fresh
<1>6. SameSigns(n)
  BY <1>1, SignsStay
<1>7. Works => ~Deleted(n)
  BY <1>3, <1>4, SerialFacts DEF Reached
<1>8. CASE /\ head = "error" /\ call' = [call EXCEPT ![t][n] = "idle"]
           /\ UNCHANGED <<rt, active, emulator>>
  <2>1. Moved("user", n, "idle")
    BY <1>2, <1>8, Facts, Names, CallMoves
  <2>2. MovedAlone("user", n, "idle")
    BY <1>1, <1>3, <1>8, <2>1 DEF MovedAlone, Bystander
  <2>3. UserAt(n, "idle")
    BY <1>3, <2>1, UserMoves
  <2>4. Placed(n)'
    BY <1>1, <1>3, <1>4, <1>8, <2>3, SerialFacts DEF Placed, UserAt, Up, Stopping, Unwound
  <2>5. ~failed => Cold(n)'
    BY <1>1, <1>2, <1>3, <1>6, <1>8, <2>3, SerialFacts DEF Cold, UserAt, SameSigns, Unwound
  <2>6. Works => Reached(n)'
    BY <1>1, <1>3, <1>6, <1>7, <1>8, <2>3, SerialFacts DEF Reached, UserAt, SameSigns
  <2> QED
    BY <1>1, <1>2, <2>2, <2>4, <2>5, <2>6, SerialMove
<1>9. CASE /\ head = "ok" /\ LastActive(n) /\ active' = active \ {n} /\ emulator' = "stopping"
           /\ call' = [call EXCEPT ![t][n] = "halt"] /\ UNCHANGED rt
  <2>1. Moved("user", n, "halt")
    BY <1>2, <1>9, Facts, Names, CallMoves
  <2>2. \A m \in Nodes \ {n} : rt[m] # "running"
    BY <1>4, <1>9, SerialFacts DEF Placed, LastActive, Idle, Tracks
  <2>3. MovedAlone("user", n, "halt")
    BY <1>1, <1>3, <1>9, <2>1, <2>2 DEF MovedAlone, Bystander
  <2>4. UserAt(n, "halt")
    BY <1>3, <2>1, UserMoves
  <2>5. Placed(n)'
    BY <1>1, <1>3, <1>4, <1>9, <2>4, SerialFacts DEF Placed, UserAt, Up, Stopping, Unwound
  <2>6. ~failed => Cold(n)'
    BY <1>1, <1>5, <1>6, <1>9, <2>4, SerialFacts DEF Cold, UserAt, SameSigns, Fresh, Unwound
  <2>7. Works => Reached(n)'
    BY <1>1, <1>6, <1>7, <1>9, <2>4 DEF Reached, UserAt, SameSigns
  <2> QED
    BY <1>1, <1>2, <2>3, <2>5, <2>6, <2>7, SerialMove
<1>10. CASE /\ head = "ok" /\ active' = active \ {n} /\ rt' = [rt EXCEPT ![n] = "stopped"]
            /\ call' = [call EXCEPT ![t][n] = "idle"] /\ UNCHANGED emulator
  <2>1. Moved("user", n, "idle")
    BY <1>2, <1>10, Facts, Names, CallMoves
  <2>2. rt'[n] = "stopped" /\ \A m \in Nodes \ {n} : rt'[m] = rt[m]
    BY <1>10, Facts DEF NodesType
  <2>3. MovedAlone("user", n, "idle")
    BY <1>1, <1>3, <1>10, <2>1, <2>2 DEF MovedAlone, Bystander
  <2>4. UserAt(n, "idle")
    BY <1>3, <2>1, UserMoves
  <2>5. Placed(n)'
    BY <1>1, <1>3, <1>4, <1>10, <2>2, <2>4, SerialFacts DEF Placed, UserAt, Up, Stopping, Unwound
  <2>6. ~failed => Cold(n)'
    BY <1>1, <1>5, <1>6, <1>10, <2>2, <2>4, SerialFacts DEF Cold, UserAt, SameSigns, Fresh, Unwound
  <2>7. Works => Reached(n)'
    BY <1>1, <1>6, <1>7, <1>10, <2>2, <2>4 DEF Reached, UserAt, SameSigns
  <2> QED
    BY <1>1, <1>2, <2>3, <2>5, <2>6, <2>7, SerialMove
<1> QED
  BY <1>8, <1>9, <1>10 DEF StopSettled

LEMMA HaltedSerial ==
  ASSUME StopInv, Serial, SerialInv, NEW t \in Tracks, NEW n \in Nodes, Halted(t, n)
  PROVE  SerialInv'
<1>1. /\ SameLine /\ UNCHANGED <<use, waiter, head, registered, active, startup, prep, failed, emulator>>
      /\ call[t][n] = "halted"
  BY DEF Halted, labd, control, machine, SameLine
<1>2. t = "user"
  BY <1>1, SerialFacts DEF Placed, Stopping, Tracks
<1>3. /\ n \in registered /\ rt[n] # "disposed" /\ n \notin active /\ call["user"][n] = "halted"
      /\ (prep \in {"none", "load"} => emulator = "none")
  BY <1>1, <1>2, SerialFacts DEF Placed, Leaving, MachineOK
<1>4. Moved("user", n, "idle")
  BY <1>2, Facts, Names, CallMoves DEF Halted
<1>5. rt'[n] = "stopped" /\ \A m \in Nodes \ {n} : rt'[m] = rt[m]
  BY Facts DEF Halted, NodesType
<1>6. MovedAlone("user", n, "idle")
  BY <1>1, <1>3, <1>4, <1>5, SerialFacts DEF MovedAlone, Bystander, MachineOK
<1>7. UserAt(n, "idle")
  BY <1>3, <1>4, UserMoves
<1>8. Placed(n)'
  BY <1>1, <1>3, <1>5, <1>7, SerialFacts DEF Placed, UserAt, Up, Stopping, Unwound
<1>9. SameSigns(n)
  BY <1>1, SignsStay
<1>10. ~failed => Cold(n)'
  BY <1>1, <1>3, <1>5, <1>7, <1>9, SerialFacts DEF Cold, UserAt, SameSigns, Fresh, Unwound
<1>11. Works => Reached(n)'
  BY <1>1, <1>3, <1>5, <1>7, <1>9, SerialFacts DEF Reached, UserAt, SameSigns
<1> QED
  BY <1>1, <1>2, <1>6, <1>8, <1>10, <1>11, SerialMove

(* Only the one call awaits the emulator, and no facade runs meanwhile.       *)
LEMMA EmulatorStoppedSerial ==
  ASSUME StopInv, Serial, SerialInv, EmulatorStopped
  PROVE  SerialInv'
<1>1. /\ SameLine /\ emulator = "stopping" /\ emulator' = "idle"
      /\ UNCHANGED <<use, waiter, head, rt, registered, active, startup, prep, failed>>
  BY DEF EmulatorStopped, labd, control, nodes, SameLine
<1>2. PICK t \in Tracks, n \in Nodes : call[t][n] \in {"halt", "dhalt"}
  BY <1>1, SerialFacts DEF SerialInv, MachineOK
<1>3. \/ t = "user" /\ call[t][n] = "halt"
      \/ t = "release" /\ call[t][n] = "dhalt"
  BY <1>2, Facts, SerialFacts DEF Tracks, TracksOK, Placed, Stopping
<1>4. PICK pc \in {"halted", "dhalted"} : pc = IF t = "user" THEN "halted" ELSE "dhalted"
  OBVIOUS
<1>5. \A m \in Nodes \ {n} : Idle(m)
  BY <1>2, Alone, SerialFacts
<1>6. \A u \in Tracks \ {t} : call[u][n] = "idle"
  BY <1>2, Alone, SerialFacts
<1>7. Moved(t, n, pc)
  <2>1. \A u \in Tracks, m \in Nodes : u # t \/ m # n => call[u][m] = "idle"
    BY <1>5, <1>6 DEF Idle
  <2>2. \A u \in Tracks, m \in Nodes :
          call'[u][m] = CASE call[u][m] = "halt" -> "halted"
                          [] call[u][m] = "dhalt" -> "dhalted"
                          [] OTHER -> call[u][m]
    BY DEF EmulatorStopped
  <2>3. \A u \in Tracks, m \in Nodes : call'[u][m] = IF u = t /\ m = n THEN pc ELSE call[u][m]
    BY <1>3, <1>4, <2>1, <2>2
  <2>4. call' \in [Tracks -> [Nodes -> Awaits]]
    <3>1. \A u \in Tracks, m \in Nodes : call'[u][m] \in Awaits
      BY <2>3, <1>4, Facts, Names DEF CallType
    <3>2. call' = [u \in Tracks |-> [m \in Nodes |-> call'[u][m]]]
      BY DEF EmulatorStopped
    <3> QED
      BY <3>1, <3>2
  <2> QED
    BY <2>3, <2>4 DEF Moved
<1>8. OneCall' /\ \A m \in Nodes \ {n} : Idle(m)'
  BY <1>2, <1>7, StillAlone, SerialFacts
<1>9. \A m \in Nodes \ {n} : Placed(m)' /\ (~failed' => Cold(m)') /\ (Works' => Reached(m)')
  <2> SUFFICES ASSUME NEW m \in Nodes \ {n}
               PROVE  Placed(m)' /\ (~failed' => Cold(m)') /\ (Works' => Reached(m)')
    OBVIOUS
  <2>1. Bystander(m)
    BY <1>1 DEF Bystander
  <2> QED
    BY <1>1, <1>5, <1>8, <2>1, SerialFacts, BystanderIsOK
<1>10. SameSigns(n)
  BY <1>1, SignsStay
<1>11. CASE t = "user"
  <2>1. UserAt(n, "halted") /\ call["user"][n] = "halt" /\ Leaving(n)
    BY <1>2, <1>3, <1>4, <1>7, <1>11, UserMoves DEF Leaving
  <2>2. Placed(n)'
    BY <1>1, <2>1, SerialFacts DEF Placed, UserAt, Up, Stopping, Unwound
  <2>3. ~failed => Cold(n)'
    BY <1>1, <1>10, <2>1, SerialFacts DEF Cold, UserAt, SameSigns, Fresh, Unwound
  <2>4. Works => Reached(n)'
    BY <1>1, <1>10, <2>1, SerialFacts DEF Reached, UserAt, SameSigns
  <2> QED
    BY <1>1, <1>8, <1>9, <2>2, <2>3, <2>4, SerialFacts DEF SerialInv, MachineOK, OneStart, SameLine, Works
<1>12. CASE t = "release"
  <2>1. ReleaseAt(n, "dhalted") /\ call["release"][n] = "dhalt" /\ Leaving(n)
    BY <1>2, <1>3, <1>4, <1>7, <1>12, ReleaseMovesOn DEF Leaving, Unwound
  <2>2. Placed(n)'
    BY <1>1, <2>1, SerialFacts DEF Placed, ReleaseAt, Up, Stopping, Unwound
  <2>3. ~failed => Cold(n)'
    BY <1>1, <1>10, <2>1, SerialFacts DEF Cold, ReleaseAt, SameSigns, Fresh, Unwound
  <2>4. Works => Reached(n)'
    BY <1>1, <1>10, <2>1, SerialFacts DEF Reached, ReleaseAt, SameSigns
  <2> QED
    BY <1>1, <1>8, <1>9, <2>2, <2>3, <2>4, SerialFacts DEF SerialInv, MachineOK, OneStart, SameLine, Works
<1> QED
  BY <1>3, <1>11, <1>12

-----------------------------------------------------------------------------
(* dispose() and disposeNode().                                               *)

(* The release of n is done with stopping it.                                 *)
ReleaseGoesOn(n, q) ==
  /\ AllIdle \/ call["release"][n] \in {"dstop", "dhalted", "NODE_DELETE"}
  /\ q = queue \/ head \in {"ok", "error"}
  /\ ReleaseRest(n) /\ n \notin active'
  /\ ~failed => ~Hot(n)

LEMMA ForgetSerial ==
  ASSUME StopInv, Serial, SerialInv, NEW n \in Nodes, NEW q, ReleaseGoesOn(n, q), Forget(n, q)
  PROVE  SerialInv'
<1>1. /\ UNCHANGED <<use, waiter, startup, prep, failed>> /\ registered' = registered \ {n}
      /\ active' \in {active, active \ {n}} /\ n \notin active'
      /\ "release" \in Tracks
      /\ AllIdle \/ call["release"][n] \notin {"idle", "halt", "dhalt"}
      /\ AllIdle \/ call["release"][n] # "idle"
  BY DEF ReleaseGoesOn, ReleaseRest, Forget, Tracks
<1>2. emulator # "stopping" /\ (prep \in {"none", "load"} => emulator = "none")
  BY <1>1, NotStopping, SerialFacts DEF MachineOK
<1>3. CASE /\ rt' = [rt EXCEPT ![n] = "disposed"] /\ Goto("release", n, "idle", q)
           /\ head' = IF q = queue THEN head ELSE "queued"
           /\ UNCHANGED <<destroyed, emulator, guest, input, output>>
  <2>1. Moved("release", n, "idle") /\ SameLine
    BY <1>3, Facts, Names, CallMoves DEF Goto, SameLine
  <2>2. rt'[n] = "disposed" /\ \A m \in Nodes \ {n} : rt'[m] = rt[m]
    BY <1>3, Facts DEF NodesType
  <2>3. UNCHANGED head \/ (head' = "queued" /\ head \in {"ok", "error"})
    BY <1>3 DEF ReleaseGoesOn
  <2>4. MovedAlone("release", n, "idle")
    BY <1>1, <1>2, <1>3, <2>1, <2>2, <2>3 DEF MovedAlone, Bystander
  <2>5. ReleaseAt(n, "idle")
    BY <1>1, <2>1, ReleaseMovesOn
  <2>6. Placed(n)'
    BY <1>1, <2>2, <2>5, SerialFacts DEF Placed, ReleaseAt, Up, Stopping, Unwound
  <2>7. SameSigns(n)
    BY <2>1, SignsStay
  <2>8. ASSUME ~failed PROVE Cold(n)'
    <3>1. ~Hot(n)
      BY <2>8 DEF ReleaseGoesOn
    <3> QED
      BY <2>2, <2>5, <2>7, <3>1 DEF Cold, ReleaseAt, SameSigns, Hot, Unwound
  <2>9. Works => Reached(n)'
    BY <2>2, <2>5 DEF Reached, ReleaseAt
  <2> QED
    BY <1>1, <2>4, <2>6, <2>8, <2>9, SerialMove
<1>4. CASE /\ registered' = {}
           /\ head' = IF q # queue THEN "queued" ELSE IF head = "sent" THEN "error" ELSE head
           /\ emulator' = "none"
           /\ guest' = [m \in Nodes |-> "off"] /\ input' = <<>> /\ output' = <<>>
           /\ \/ rt' = [rt EXCEPT ![n] = "disposed"] /\ Goto("release", n, "idle", q)
              \/ Goto("release", n, "destroy", q) /\ UNCHANGED rt
  <2>1. PICK pc \in {"idle", "destroy"} :
          /\ Goto("release", n, pc, q)
          /\ pc = "idle" => rt' = [rt EXCEPT ![n] = "disposed"]
          /\ pc = "destroy" => UNCHANGED rt
    BY <1>4
  <2>2. Moved("release", n, pc)
    BY <2>1, Facts, Names, CallMoves DEF Goto
  <2>3. /\ \A m \in Nodes \ {n} : rt'[m] = rt[m]
        /\ pc = "idle" => rt'[n] = "disposed"
    BY <2>1, Facts DEF NodesType
  <2>4. ReleaseAt(n, pc)
    BY <1>1, <2>2, ReleaseMovesOn
  <2>5. OneCall' /\ \A m \in Nodes \ {n} : Idle(m) /\ Idle(m)'
    BY <1>1, <2>2, StillAlone, SerialFacts
  <2>6. \A m \in Nodes : /\ ~Hot(m)' /\ ~Asked(m)' /\ ~ExitOnTheWay(m)' /\ Fresh(m)' /\ ~Deleted(m)'
    BY <1>4 DEF Hot, Down, Asked, ExitOnTheWay, Fresh, Deleted
  <2>7. \A m \in Nodes : Cold(m)'
    <3>1. \A m \in Nodes : ExitsFirst(m)'
      BY <1>4 DEF ExitsFirst
    <3>2. \A m \in Nodes : call'["user"][m] = "idle"
      BY <2>4, <2>5 DEF ReleaseAt, Idle, Tracks
    <3> QED
      BY <2>6, <3>1, <3>2 DEF Cold
  <2>8. Placed(n)'
    BY <1>1, <2>1, <2>3, <2>4, SerialFacts DEF Placed, ReleaseAt, Up, Stopping, Unwound
  <2>9. Reached(n)'
    BY <1>4, <2>1, <2>3, <2>4, <2>6 DEF Reached, ReleaseAt
  <2>10. \A m \in Nodes \ {n} : Placed(m)' /\ Reached(m)'
    <3> SUFFICES ASSUME NEW m \in Nodes \ {n} PROVE Placed(m)' /\ Reached(m)'
      OBVIOUS
    <3>1. /\ call["user"][m] = "idle" /\ call["release"][m] = "idle"
          /\ call'["user"][m] = "idle" /\ call'["release"][m] = "idle"
          /\ ~Leaving(m)' /\ Idle(m)
      BY <2>5 DEF Idle, Tracks, Leaving, Unwound
    <3>2. rt'[m] = rt[m] /\ rt[m] \in {"new", "disposed"}
      BY <1>1, <1>4, <2>3, <3>1, SerialFacts DEF Placed
    <3>3. m \in active' => m \in active
      BY <1>1
    <3>4. Placed(m)'
      BY <1>1, <3>1, <3>2, <3>3, SerialFacts DEF Placed, Up, Stopping
    <3>5. Reached(m)'
      BY <2>6, <3>1, <3>2 DEF Reached
    <3> QED
      BY <3>4, <3>5
  <2>11. MachineOK' /\ OneStart'
    BY <1>1, <1>4, SerialFacts DEF MachineOK, OneStart
  <2> QED
    BY <2>5, <2>7, <2>8, <2>9, <2>10, <2>11 DEF SerialInv
<1> QED
  BY <1>3, <1>4 DEF Forget

LEMMA DeleteSerial ==
  ASSUME StopInv, Serial, SerialInv, NEW n \in Nodes, NEW q, ReleaseGoesOn(n, q), Delete(n, q)
  PROVE  SerialInv'
<1>1. CASE /\ Goto("release", n, "NODE_DELETE", q)
           /\ head' = IF q = queue THEN head ELSE "queued"
           /\ UNCHANGED <<rt, registered, destroyed, emulator, guest, input, output>>
  <2>1. /\ UNCHANGED <<use, waiter, startup, prep, failed>> /\ SameLine
        /\ active' \in {active, active \ {n}} /\ n \notin active'
        /\ "release" \in Tracks
        /\ AllIdle \/ call["release"][n] \notin {"idle", "halt", "dhalt"}
        /\ AllIdle \/ call["release"][n] # "idle"
        /\ call["release"][n] # "destroy"
    BY <1>1 DEF ReleaseGoesOn, ReleaseRest, SameLine, Tracks, AllIdle, Idle
  <2>2. emulator # "stopping" /\ (prep \in {"none", "load"} => emulator = "none")
    BY <2>1, NotStopping, SerialFacts DEF MachineOK
  <2>3. Moved("release", n, "NODE_DELETE")
    BY <1>1, Facts, Names, CallMoves DEF Goto
  <2>4. UNCHANGED head \/ (head' = "queued" /\ head \in {"ok", "error"})
    BY <1>1 DEF ReleaseGoesOn
  <2>5. MovedAlone("release", n, "NODE_DELETE")
    BY <1>1, <2>1, <2>2, <2>3, <2>4 DEF MovedAlone, Bystander
  <2>6. ReleaseAt(n, "NODE_DELETE")
    BY <2>1, <2>3, ReleaseMovesOn
  <2>7. Placed(n)'
    BY <1>1, <2>1, <2>6, SerialFacts DEF Placed, ReleaseAt, Up, Stopping, Unwound
  <2>8. SameSigns(n)
    BY <2>1, SignsStay
  <2>9. ASSUME ~failed PROVE Cold(n)'
    <3>1. ~Hot(n)
      BY <2>9 DEF ReleaseGoesOn
    <3> QED
      BY <2>6, <2>8, <3>1 DEF Cold, ReleaseAt, SameSigns, Hot, Unwound
  <2>10. Works => Reached(n)'
    BY <2>6 DEF Reached, ReleaseAt
  <2> QED
    BY <2>1, <2>5, <2>7, <2>9, <2>10, SerialMove
<1> QED
  BY <1>1, ForgetSerial DEF Delete

LEMMA DisposeSerial ==
  ASSUME StopInv, Serial, SerialInv, NEW n \in Nodes, Dispose(n)
  PROVE  SerialInv'
<1>1. AllIdle /\ Idle(n) /\ call["user"][n] = "idle" /\ call["release"][n] = "idle" /\ ~Leaving(n)
  BY SerialCalls DEF Dispose
<1>2. /\ UNCHANGED <<use, waiter, startup, active, prep, failed>> /\ "release" \in Tracks
      /\ rt[n] # "disposed"
  BY DEF Dispose, Tracks
<1>3. chunk' \in BOOLEAN
  BY Facts DEF Dispose, MachineType
<1>4. ReleaseRest(n)
  BY <1>3 DEF Dispose, ReleaseRest
<1>5. /\ head = "queued" /\ emulator # "stopping" /\ (prep \in {"none", "load"} => emulator = "none")
  BY <1>1, <1>2, NoQueue, NotStopping, SerialFacts, Names DEF MachineOK
<1>6. CASE /\ n \notin registered /\ rt' = [rt EXCEPT ![n] = "disposed"]
           /\ UNCHANGED <<registered, call, queue, head, destroyed, emulator, guest, input, output>>
  <2>1. Moved("release", n, "idle") /\ SameLine
    BY <1>1, <1>6, Facts, Names DEF Moved, CallType, SameLine
  <2>2. rt'[n] = "disposed" /\ \A m \in Nodes \ {n} : rt'[m] = rt[m]
    BY <1>6, Facts DEF NodesType
  <2>3. rt[n] = "new"
    BY <1>1, <1>2, <1>6, SerialFacts DEF Placed
  <2>4. ~Hot(n)
    BY <1>1, <2>3, Facts DEF NodeOK, Begun, Starting
  <2>5. MovedAlone("release", n, "idle")
    BY <1>1, <1>2, <1>5, <1>6, <2>1, <2>2 DEF MovedAlone, Bystander
  <2>6. ReleaseAt(n, "idle")
    BY <1>1, <2>1, ReleaseMovesOn
  <2>7. Placed(n)'
    BY <1>2, <2>2, <2>3, <2>6, SerialFacts DEF Placed, ReleaseAt, Up, Stopping, Unwound
  <2>8. SameSigns(n)
    BY <2>1, SignsStay
  <2>9. Cold(n)'
    BY <2>2, <2>4, <2>6, <2>8 DEF Cold, ReleaseAt, SameSigns, Hot, Unwound
  <2>10. Reached(n)'
    BY <2>2, <2>6 DEF Reached, ReleaseAt
  <2> QED
    BY <1>2, <2>5, <2>7, <2>9, <2>10, SerialMove
<1>7. CASE /\ n \in registered /\ n \in active /\ Goto("release", n, "dstop", queue)
           /\ UNCHANGED <<rt, registered, head, destroyed, emulator, guest, input, output>>
  <2>1. Moved("release", n, "dstop") /\ SameLine
    BY <1>7, Facts, Names, CallMoves DEF Goto, SameLine
  <2>2. MovedAlone("release", n, "dstop")
    BY <1>1, <1>2, <1>5, <1>7, <2>1 DEF MovedAlone, Bystander
  <2>3. ReleaseAt(n, "dstop")
    BY <1>1, <2>1, ReleaseMovesOn
  <2>4. Placed(n)'
    BY <1>1, <1>2, <1>7, <2>3, SerialFacts DEF Placed, ReleaseAt, Up, Stopping, Unwound
  <2>5. SameSigns(n)
    BY <2>1, SignsStay
  <2>6. ~failed => Cold(n)'
    BY <1>2, <1>5, <1>7, <2>3, <2>5, SerialFacts DEF Cold, ReleaseAt, SameSigns, Unwound
  <2>7. Reached(n)'
    BY <2>3 DEF Reached, ReleaseAt
  <2> QED
    BY <1>2, <2>2, <2>4, <2>6, <2>7, SerialMove
<1>8. CASE n \notin active /\ Delete(n, queue)
  <2>1. rt[n] # "running"
    BY <1>1, <1>8, SerialFacts DEF Placed
  <2>2. ~failed => ~Hot(n)
    BY <1>1, <2>1, Facts, SerialFacts DEF NodeOK, Cold, Begun, Starting, Lifecycle
  <2>3. ReleaseGoesOn(n, queue)
    BY <1>1, <1>2, <1>4, <1>8, <2>2 DEF ReleaseGoesOn
  <2> QED
    BY <1>8, <2>3, DeleteSerial
<1> QED
  BY <1>6, <1>7, <1>8 DEF Dispose

LEMMA DisposeStopSettledSerial ==
  ASSUME StopInv, Serial, SerialInv, NEW n \in Nodes, DisposeStopSettled(n)
  PROVE  SerialInv'
<1>1. /\ UNCHANGED <<use, waiter, startup, prep, failed>> /\ "release" \in Tracks
      /\ active' = active \ {n} /\ head \in {"ok", "error"} /\ call["release"][n] = "dstop"
      /\ call["release"][n] \notin {"idle", "halt", "dhalt"} /\ queue # <<>>
  BY DEF DisposeStopSettled, Settled, Tracks
<1>2. ReleaseRest(n)
  BY Facts DEF DisposeStopSettled, ReleaseRest, MachineType
<1>3. ~failed => ~Hot(n)
  BY <1>1, HeadIs, SerialFacts DEF Ending, Cold
<1>4. CASE /\ LastActive(n) /\ Runs /\ emulator' = "stopping" /\ head' = "queued"
           /\ Goto("release", n, "dhalt", Tail(queue))
           /\ UNCHANGED <<rt, registered, destroyed, guest, input, output>>
  <2>1. Moved("release", n, "dhalt") /\ SameLine
    BY <1>4, Facts, Names, CallMoves DEF Goto, SameLine
  <2>2. prep \notin {"none", "load"}
    BY <1>4, SerialFacts DEF MachineOK, Runs
  <2>3. \A m \in Nodes \ {n} : rt[m] # "running"
    <3>1. \A m \in Nodes \ {n} : Idle(m)
      BY <1>1, Alone, SerialFacts
    <3>2. \A m \in Nodes \ {n} : ~Leaving(m)
      BY <3>1 DEF Leaving, Idle, Unwound
    <3> QED
      BY <1>4, <3>1, <3>2, SerialFacts DEF Placed, LastActive, Idle, Tracks
  <2>4. MovedAlone("release", n, "dhalt")
    BY <1>1, <1>4, <2>1, <2>2, <2>3 DEF MovedAlone, Bystander
  <2>5. ReleaseAt(n, "dhalt")
    BY <1>1, <2>1, ReleaseMovesOn
  <2>6. Placed(n)'
    BY <1>1, <1>4, <2>5, SerialFacts DEF Placed, ReleaseAt, Up, Stopping, Unwound
  <2>7. SameSigns(n)
    BY <2>1, SignsStay
  <2>8. ~failed => Cold(n)'
    BY <1>3, <1>4, <2>5, <2>7 DEF Cold, ReleaseAt, SameSigns, Hot, Unwound
  <2>9. Reached(n)'
    BY <2>5 DEF Reached, ReleaseAt
  <2> QED
    BY <1>1, <2>4, <2>6, <2>8, <2>9, SerialMove
<1>5. CASE Delete(n, Tail(queue))
  <2>1. ReleaseGoesOn(n, Tail(queue))
    BY <1>1, <1>2, <1>3 DEF ReleaseGoesOn
  <2> QED
    BY <1>5, <2>1, DeleteSerial
<1> QED
  BY <1>4, <1>5 DEF DisposeStopSettled

LEMMA DisposeGoesOnSerial ==
  ASSUME StopInv, Serial, SerialInv, NEW n \in Nodes, DisposeHalted(n) \/ DeleteSettled(n)
  PROVE  SerialInv'
<1>1. ReleaseRest(n) /\ UNCHANGED active
  BY Facts DEF DisposeHalted, DeleteSettled, ReleaseRest, MachineType
<1>2. call["release"][n] \in {"dhalted", "NODE_DELETE"}
  BY DEF DisposeHalted, DeleteSettled, Settled
<1>3. n \notin active /\ (~failed => ~Hot(n))
  BY <1>2, SerialFacts DEF Placed, Cold, Leaving, Unwound, Tracks
<1>4. CASE DisposeHalted(n)
  <2>1. ReleaseGoesOn(n, queue)
    BY <1>1, <1>2, <1>3 DEF ReleaseGoesOn
  <2> QED
    BY <1>4, <2>1, DeleteSerial DEF DisposeHalted
<1>5. CASE DeleteSettled(n)
  <2>1. ReleaseGoesOn(n, Tail(queue))
    BY <1>1, <1>2, <1>3, <1>5 DEF ReleaseGoesOn, DeleteSettled, Settled
  <2> QED
    BY <1>5, <2>1, ForgetSerial DEF DeleteSettled
<1> QED
  BY <1>4, <1>5

LEMMA DestroyedSerial ==
  ASSUME StopInv, Serial, SerialInv, NEW n \in Nodes, Destroyed(n)
  PROVE  SerialInv'
<1>1. /\ UNCHANGED <<use, waiter, head, startup, registered, active, prep, failed, emulator>> /\ SameLine
      /\ call["release"][n] = "destroy" /\ "release" \in Tracks
  BY DEF Destroyed, labd, control, machine, SameLine, Tracks
<1>2. Moved("release", n, "idle")
  BY Facts, Names, CallMoves DEF Destroyed
<1>3. rt'[n] = "disposed" /\ \A m \in Nodes \ {n} : rt'[m] = rt[m]
  BY Facts DEF Destroyed, NodesType
<1>4. n \notin active /\ (~failed => ~Hot(n))
  BY <1>1, SerialFacts DEF Placed, Cold, Leaving, Unwound
<1>5. MovedAlone("release", n, "idle")
  BY <1>1, <1>2, <1>3, SerialFacts DEF MovedAlone, Bystander, MachineOK
<1>6. ReleaseAt(n, "idle")
  BY <1>1, <1>2, ReleaseMovesOn
<1>7. Placed(n)'
  BY <1>1, <1>3, <1>4, <1>6, SerialFacts DEF Placed, ReleaseAt, Up, Stopping, Unwound
<1>8. SameSigns(n)
  BY <1>1, SignsStay
<1>9. ~failed => Cold(n)'
  BY <1>3, <1>4, <1>6, <1>8 DEF Cold, ReleaseAt, SameSigns, Hot, Unwound
<1>10. Reached(n)'
  BY <1>3, <1>6 DEF Reached, ReleaseAt
<1> QED
  BY <1>1, <1>5, <1>7, <1>9, <1>10, SerialMove

-----------------------------------------------------------------------------
(* #control() and its timers.                                                 *)

(* Whose operation is the first.                                              *)
LEMMA HeadOf ==
  ASSUME StopInv, OneCall, queue # <<>>
  PROVE  \E t \in Tracks, n \in Nodes :
           /\ Head(queue) = <<t, n>> /\ call[t][n] \in Asking /\ call[t][n] # "idle"
           /\ \A m \in Nodes \ {n} : Idle(m)
           /\ \A u \in Tracks \ {t} : call[u][n] = "idle"
<1>1. ControlType /\ ControlOK
  BY DEF StopInv, StopOK, TypeOK
<1>2. PICK x \in Callers : x = Head(queue) /\ x = queue[1] /\ 1 \in DOMAIN queue
  BY <1>1, HeadTail DEF ControlType
<1>3. PICK t \in Tracks, n \in Nodes : x = <<t, n>> /\ t = x[1] /\ n = x[2]
  BY DEF Callers
<1>4. call[t][n] \in Asking
  BY <1>1, <1>2, <1>3 DEF ControlOK, Chained, At
<1>5. call[t][n] # "idle"
  BY <1>4, Names
<1>6. \A m \in Nodes \ {n} : Idle(m)
  BY <1>5, Alone
<1>7. \A u \in Tracks \ {t} : call[u][n] = "idle"
  BY <1>5, Alone
<1> QED
  BY <1>2, <1>3, <1>4, <1>5, <1>6, <1>7

(* The operations of each track.                                              *)
LEMMA AskingIs ==
  ASSUME StopInv, SerialInv, NEW t \in Tracks, NEW n \in Nodes, call[t][n] \in Asking
  PROVE  /\ t = "user" => call[t][n] \in {"NODE_START", "LINK", "undo", "stop"} /\ emulator = "running"
         /\ t = "release" => call[t][n] \in {"dstop", "NODE_DELETE"}
         /\ call[t][n] = "dstop" /\ ~failed => emulator = "running"
<1>1. call[t][n] \in {"NODE_START", "LINK", "undo", "stop", "dstop", "NODE_DELETE"}
  BY Names
<1>2. t = "user" => call[t][n] \in {"NODE_START", "LINK", "undo", "stop"}
  BY <1>1, Facts DEF TracksOK
<1>3. t = "release" => call[t][n] \in {"dstop", "NODE_DELETE"}
  BY <1>1, Facts, SerialFacts DEF TracksOK, Placed, Stopping, Begun, Starting
<1>4. t = "user" \/ t = "release"
  BY DEF Tracks
<1> QED
  BY <1>2, <1>3, <1>4, SerialFacts DEF Placed, Up

LEMMA PlacedStays ==
  ASSUME UNCHANGED <<rt, registered, active, startup, call, failed, emulator>>
  PROVE  \A n : /\ Placed(n)' <=> Placed(n)
                /\ Idle(n)' <=> Idle(n)
                /\ Leaving(n)' <=> Leaving(n)
BY DEF Placed, Idle, Leaving

(* The first operation fails, and nothing is heard of it.                     *)
LEMMA HeadFailsSerial ==
  ASSUME StopInv, SerialInv, NEW t \in Tracks, NEW n \in Nodes, call[t][n] # "idle",
         head' = "error", SameLine, UNCHANGED <<rt, registered, active, startup, call, waiter, prep,
                                                failed, emulator, use>>,
         ~failed => /\ call[t][n] \in {"NODE_START", "LINK", "NODE_DELETE"}
                    /\ \A i \in DOMAIN input : input[i].cmd # "NODE_START",
         call[t][n] = "stop" => head = "queued"
  PROVE  SerialInv'
<1>1. \A m \in Nodes \ {n} : Idle(m)
  BY Alone, SerialFacts
<1>2. \A u \in Tracks \ {t} : call[u][n] = "idle"
  BY Alone, SerialFacts
<1>3. OneCall' /\ MachineOK'
  BY SerialFacts DEF OneCall, MachineOK
<1>4. \A m \in Nodes : Placed(m)' /\ SameSigns(m) /\ (Idle(m)' <=> Idle(m))
  BY PlacedStays, SignsStay, SerialFacts
<1>5. \A u \in Tracks, m \in Nodes : call[u][m] = "idle" \/ (u = t /\ m = n)
  BY <1>1, <1>2 DEF Idle
<1>6. ASSUME ~failed, NEW m \in Nodes PROVE Cold(m)'
  <2>1. \A u \in Tracks : call[u][m] \in {"idle", "NODE_START", "LINK", "NODE_DELETE"}
    BY <1>5, <1>6
  <2>2. Cold(m)
    BY <1>6, SerialFacts
  <2> QED
    BY <1>4, <2>1, <2>2 DEF Cold, SameSigns, Tracks
<1>7. ~failed => OneStart'
  BY DEF OneStart, SameLine
<1>8. ASSUME Works, NEW m \in Nodes PROVE Reached(m)'
  <2>1. Reached(m)
    BY <1>8, SerialFacts
  <2>2. call["user"][m] = "stop" => head = "queued"
    BY <1>5 DEF Tracks
  <2> QED
    BY <1>4, <2>1, <2>2 DEF Reached, SameSigns, Answered
<1> QED
  BY <1>3, <1>4, <1>6, <1>7, <1>8 DEF SerialInv, Works

LEMMA ControlTimeoutSerial ==
  ASSUME StopInv, Serial, SerialInv, Serial', ControlTimeout
  PROVE  SerialInv'
<1>1. /\ SameLine /\ queue # <<>> /\ head = "sent" /\ head' = "error" /\ timeouts' = timeouts /\ Fire(~Runs)
      /\ UNCHANGED <<rt, registered, active, startup, call, waiter, prep, failed, emulator, use>>
  BY DEF ControlTimeout, nodes, machine, labd, SameLine, Serial, Fire
<1>2. ~Runs
  BY <1>1 DEF Fire, Serial
<1>3. PICK t \in Tracks, n \in Nodes : Head(queue) = <<t, n>> /\ call[t][n] \in Asking /\ call[t][n] # "idle"
  BY <1>1, HeadOf DEF SerialInv
<1>4. ~failed
  BY <1>1, <1>3, SerialFacts DEF MachineOK
<1>5. t = "release" /\ call[t][n] = "NODE_DELETE"
  <2>1. t = "user" => emulator = "running"
    BY <1>3, AskingIs
  <2>2. call[t][n] = "dstop" => emulator = "running"
    BY <1>3, <1>4, AskingIs
  <2>3. t = "release" => call[t][n] \in {"dstop", "NODE_DELETE"}
    BY <1>3, AskingIs
  <2> QED
    BY <1>2, <2>1, <2>2, <2>3 DEF Runs, Tracks
<1>6. ASSUME NEW i \in DOMAIN input, input[i].cmd = "NODE_START" PROVE FALSE
  <2>1. input[i].id = waiter
    BY <1>3, <1>4, <1>6, SerialFacts DEF OneStart
  <2>2. input[i].cmd = Command[call[t][n]]
    BY <1>1, <1>3, <2>1, HeadIs, SerialFacts
  <2> QED
    BY <1>3, <1>5, <1>6, <2>2, Commands
<1> QED
  BY <1>1, <1>3, <1>5, <1>6, HeadFailsSerial

LEMMA ExitSignalSerial ==
  ASSUME StopInv, Serial, SerialInv, ExitSignal
  PROVE  SerialInv'
<1>1. /\ SameLine /\ queue # <<>> /\ head = "sent" /\ head' = "error"
      /\ UNCHANGED <<rt, registered, active, startup, call, waiter, prep, failed, emulator, use>>
  BY DEF ExitSignal, HeadAt, nodes, machine, labd, SameLine
<1>2. PICK t \in Tracks, n \in Nodes : Head(queue) = <<t, n>> /\ call[t][n] \in Asking /\ call[t][n] # "idle"
  BY <1>1, HeadOf DEF SerialInv
<1>3. call[t][n] \in {"NODE_START", "LINK"} /\ startup[n] = "exited"
  BY <1>2 DEF ExitSignal, HeadAt
<1>4. ASSUME ~failed, NEW i \in DOMAIN input, input[i].cmd = "NODE_START" PROVE FALSE
  <2>1. input[i].id = waiter
    BY <1>2, <1>4, SerialFacts DEF OneStart
  <2>2. input[i].node = n
    BY <1>1, <1>2, <2>1, HeadIs, SerialFacts
  <2>3. Asked(n)
    BY <1>4, <2>2 DEF Asked
  <2> QED
    BY <1>3, <1>4, <2>3, SerialFacts DEF Cold
<1> QED
  BY <1>1, <1>2, <1>3, <1>4, HeadFailsSerial

(* A request goes out under an id that nothing on the line carries.           *)
LEMMA SendSerial ==
  ASSUME StopInv, SerialInv, NEW t \in Tracks, NEW n \in Nodes, call[t][n] \in Asking, call[t][n] # "idle",
         NEW r \in Requests, r.cmd = Command[call[t][n]], r.node = n, r.id \notin InFlight,
         ~failed, head = "queued", head' = "sent", waiter' = r.id, input' = Append(input, r),
         UNCHANGED <<rt, registered, active, startup, call, prep, failed, emulator, use, guest, output>>
  PROVE  SerialInv'
<1>1. \A u \in Tracks, m \in Nodes : call[u][m] = "idle" \/ (u = t /\ m = n)
  BY Alone, SerialFacts DEF Idle
<1>2. OneCall' /\ MachineOK'
  BY SerialFacts DEF OneCall, MachineOK
<1>3. \A m \in Nodes : Placed(m)' /\ (Idle(m)' <=> Idle(m))
  BY PlacedStays, SerialFacts
<1>4. /\ DOMAIN input' = 1 .. Len(input) + 1 /\ DOMAIN input = 1 .. Len(input) /\ Len(input) \in Nat
      /\ \A k \in 1 .. Len(input) : input'[k] = input[k]
      /\ input'[Len(input) + 1] = r
  BY Facts, AppendIs DEF LabdType
<1>5. \A i \in DOMAIN output : ~Answers(i)'
  BY DEF InFlight, Answers
<1>6. \A i \in DOMAIN input : input[i].cmd # "NODE_START"
  BY SerialFacts DEF OneStart
<1>7. r.cmd = "NODE_START" <=> call[t][n] = "NODE_START"
  BY Commands
<1>8. OneStart'
  BY <1>4, <1>6 DEF OneStart
<1>9. \A m \in Nodes : /\ Asked(m)' <=> m = n /\ call[t][n] = "NODE_START"
                       /\ ~Asked(m)
                       /\ Down(m)' <=> Down(m)
                       /\ ExitOnTheWay(m)' <=> ExitOnTheWay(m)
                       /\ ExitsFirst(m)'
  BY <1>4, <1>5, <1>6, <1>7 DEF Asked, Down, ExitOnTheWay, ExitsFirst
<1>10. call[t][n] = "NODE_START" => t = "user"
  BY AskingIs DEF Tracks
<1>11. ASSUME NEW m \in Nodes PROVE Cold(m)'
  <2>1. Cold(m)
    BY SerialFacts
  <2>2. CASE m = n /\ call[t][n] = "NODE_START"
    <3>1. Fresh(m) /\ startup[m] # "exited" /\ t = "user"
      BY <1>10, <2>1, <2>2 DEF Cold
    <3>2. call["user"][m] = "NODE_START" /\ call["release"][m] = "idle" /\ ~Idle(m)
      BY <1>1, <2>2, <3>1 DEF Tracks, Idle
    <3> QED
      BY <1>3, <1>9, <3>1, <3>2 DEF Cold, Fresh, Hot, Unwound
  <2>3. CASE ~(m = n /\ call[t][n] = "NODE_START")
    <3>1. (Hot(m)' <=> Hot(m)) /\ ~Asked(m)'
      BY <1>9, <2>3 DEF Hot
    <3>2. Fresh(m)' <=> Fresh(m)
      BY <1>9, <3>1 DEF Fresh
    <3> QED
      BY <1>3, <1>9, <2>1, <3>1, <3>2 DEF Cold
  <2> QED
    BY <2>2, <2>3
<1>12. ASSUME Works, NEW m \in Nodes PROVE Reached(m)'
  <2>1. Reached(m)
    BY <1>12, SerialFacts
  <2>2. ~Answered' /\ \A i \in DOMAIN output' : ~Answers(i)'
    BY <1>5 DEF Answered
  <2>3. CASE m = n
    <3>1. call[t][n] = "NODE_DELETE" => t = "release"
      BY AskingIs DEF Tracks
    <3>2. r.cmd = "NODE_DELETE" <=> call[t][n] = "NODE_DELETE"
      BY Commands
    <3>3. Deleted(m)' => Deleted(m) \/ r.cmd = "NODE_DELETE"
      BY <1>4 DEF Deleted
    <3>4. ~Idle(m)'
      BY <1>3, <2>3 DEF Idle
    <3> QED
      BY <2>1, <2>2, <2>3, <3>1, <3>2, <3>3, <3>4 DEF Reached
  <2>4. CASE m # n
    <3>1. Unasked(m) => Unasked(m)'
      BY <1>4, <2>4 DEF Unasked
    <3>2. Deleted(m)' => Deleted(m)
      BY <1>4, <2>4 DEF Deleted
    <3>3. Live(m) => Live(m)'
      BY <1>9, <3>1 DEF Live
    <3>4. call["user"][m] = "idle"
      BY <1>1, <2>4 DEF Tracks
    <3> QED
      BY <1>3, <2>1, <3>2, <3>3, <3>4 DEF Reached
  <2> QED
    BY <2>3, <2>4
<1> QED
  BY <1>2, <1>3, <1>8, <1>11, <1>12 DEF SerialInv, Works

LEMMA IssueSerial ==
  ASSUME StopInv, Serial, SerialInv, Issue
  PROVE  SerialInv'
<1>1. /\ queue # <<>> /\ head = "queued"
      /\ UNCHANGED <<rt, registered, active, startup, call, prep, failed, emulator, use, guest, output>>
  BY DEF Issue, nodes, machine
<1>2. PICK t \in Tracks, n \in Nodes : Head(queue) = <<t, n>> /\ call[t][n] \in Asking /\ call[t][n] # "idle"
  BY <1>1, HeadOf DEF SerialInv
<1>3. CASE (failed \/ emulator = "none") /\ head' = "error" /\ UNCHANGED <<waiter, input>>
  <2>1. SameLine
    BY <1>1, <1>3 DEF SameLine
  <2>2. ASSUME ~failed
        PROVE  /\ call[t][n] = "NODE_DELETE"
               /\ \A i \in DOMAIN input : input[i].cmd # "NODE_START"
    <3>1. call[t][n] = "NODE_DELETE"
      BY <1>2, <1>3, <2>2, AskingIs DEF Tracks
    <3> QED
      BY <1>1, <1>2, <2>2, <3>1, SerialFacts DEF OneStart
  <2> QED
    BY <1>1, <1>2, <1>3, <2>1, <2>2, HeadFailsSerial
<1>4. CASE /\ ~failed /\ head' = "sent"
           /\ \E i \in Ids \ InFlight :
                /\ waiter' = i
                /\ input' = Append(input, [id |-> i, cmd |-> Command[call[t][n]], node |-> n])
  <2>1. PICK i \in Ids \ InFlight :
          /\ waiter' = i
          /\ input' = Append(input, [id |-> i, cmd |-> Command[call[t][n]], node |-> n])
    BY <1>4
  <2>2. Command[call[t][n]] \in {"NODE_START", "LINK", "NODE_STOP", "NODE_DELETE"}
    BY <1>2, Commands, Names
  <2>3. PICK r \in Requests : r = [id |-> i, cmd |-> Command[call[t][n]], node |-> n]
    BY <2>2, RequestMade
  <2>4. r.cmd = Command[call[t][n]] /\ r.node = n /\ r.id = i
    BY <2>3
  <2> QED
    BY <1>1, <1>2, <1>4, <2>1, <2>3, <2>4, SendSerial
<1>5. Head(queue)[1] = t /\ Head(queue)[2] = n
  BY <1>2
<1>6. IF failed \/ emulator = "none"
      THEN head' = "error" /\ UNCHANGED <<waiter, input>>
      ELSE /\ \E i \in Ids \ InFlight :
                /\ \A j \in Ids \ InFlight : i <= j
                /\ waiter' = i
                /\ input' = Append(input, [id |-> i, cmd |-> Command[call[t][n]], node |-> n])
           /\ head' = "sent"
  BY <1>5, Zenon DEF Issue
<1> QED
  BY <1>3, <1>4, <1>6, Zenon

-----------------------------------------------------------------------------
(* Lines that arrive.                                                         *)

LEMMA ArrivedSigns ==
  ASSUME LabdType, NEW type, Arrives(type)
  PROVE  /\ \A m : /\ Hot(m)' <=> Hot(m)
                   /\ Asked(m)' <=> Asked(m)
                   /\ Down(m)' <=> Down(m)
                   /\ Unasked(m)' <=> Unasked(m)
                   /\ Deleted(m)' <=> Deleted(m)
                   /\ ExitOnTheWay(m)' => ExitOnTheWay(m)
                   /\ ExitOnTheWay(m) => \/ ExitOnTheWay(m)'
                                         \/ type = "node-exit" /\ m = Head(output).of
                   /\ Fresh(m) => Fresh(m)'
                   /\ ExitsFirst(m) => ExitsFirst(m)'
                   /\ guest'[m] = guest[m]
         /\ \A i \in DOMAIN output' : Answers(i)' =>
              \E j \in DOMAIN output : Answers(j) /\ output[j] = output'[i]
<1>1. UNCHANGED <<guest, input, waiter>> /\ output # <<>> /\ output' = Tail(output) /\ Head(output).type = type
  BY DEF Arrives
<1>2. /\ \A i \in DOMAIN output' : i + 1 \in DOMAIN output /\ output'[i] = output[i + 1] /\ i \in Nat
      /\ \A j \in DOMAIN output : /\ j \in Nat
                                  /\ j = 1 \/ (j - 1 \in DOMAIN output' /\ output'[j - 1] = output[j])
      /\ Head(output) = output[1]
  <2>1. /\ Len(output) \in Nat \ {0} /\ DOMAIN output' = 1 .. Len(output) - 1
        /\ DOMAIN output = 1 .. Len(output) /\ Head(output) = output[1]
        /\ \A k \in 1 .. Len(output) - 1 : output'[k] = output[k + 1]
    BY <1>1, HeadTail DEF LabdType
  <2> QED
    BY <2>1
<1>3. \A m : /\ Hot(m)' <=> Hot(m)
             /\ Asked(m)' <=> Asked(m)
             /\ Down(m)' <=> Down(m)
             /\ Unasked(m)' <=> Unasked(m)
             /\ Deleted(m)' <=> Deleted(m)
             /\ guest'[m] = guest[m]
  BY <1>1 DEF Hot, Down, Asked, Unasked, Deleted
<1>4. \A i \in DOMAIN output' : (Answers(i)' <=> Answers(i + 1)) /\ output'[i] = output[i + 1]
  BY <1>1, <1>2 DEF Answers
<1>5. \A m : /\ ExitOnTheWay(m)' => ExitOnTheWay(m)
             /\ ExitOnTheWay(m) => ExitOnTheWay(m)' \/ (type = "node-exit" /\ m = Head(output).of)
  <2>1. ASSUME NEW m, ExitOnTheWay(m)' PROVE ExitOnTheWay(m)
    <3>1. PICK i \in DOMAIN output' : output'[i].type = "node-exit" /\ output'[i].of = m
      BY <2>1 DEF ExitOnTheWay
    <3> QED
      BY <1>2, <3>1 DEF ExitOnTheWay
  <2>2. ASSUME NEW m, ExitOnTheWay(m)
        PROVE  ExitOnTheWay(m)' \/ (type = "node-exit" /\ m = Head(output).of)
    <3>1. PICK j \in DOMAIN output : output[j].type = "node-exit" /\ output[j].of = m
      BY <2>2 DEF ExitOnTheWay
    <3>2. CASE j = 1
      BY <1>1, <1>2, <3>1, <3>2
    <3>3. CASE j # 1
      BY <1>2, <3>1, <3>3 DEF ExitOnTheWay
    <3> QED
      BY <3>2, <3>3
  <2> QED
    BY <2>1, <2>2
<1>6. ASSUME NEW m, ExitsFirst(m) PROVE ExitsFirst(m)'
  <2> SUFFICES ASSUME NEW i \in DOMAIN output', NEW j \in DOMAIN output',
                      Answers(i)', output'[j].type = "node-exit", output'[j].of = m
               PROVE  j < i
    BY DEF ExitsFirst
  <2>1. /\ i + 1 \in DOMAIN output /\ j + 1 \in DOMAIN output /\ i \in Nat /\ j \in Nat
        /\ Answers(i + 1) /\ output[j + 1].type = "node-exit" /\ output[j + 1].of = m
    BY <1>2, <1>4
  <2>2. j + 1 < i + 1
    BY <1>6, <2>1 DEF ExitsFirst
  <2> QED
    BY <2>1, <2>2
<1>7. \A m : Fresh(m) => Fresh(m)'
  BY <1>3, <1>5 DEF Fresh
<1> QED
  BY <1>2, <1>3, <1>4, <1>5, <1>6, <1>7

(* A line that is no exit, and settles nothing.                               *)
LEMMA LineSerial ==
  ASSUME StopInv, SerialInv, NEW type, Arrives(type), type # "node-exit",
         UNCHANGED <<rt, active, head, failed>>,
         \A m \in Nodes : startup'[m] = startup[m] \/ (startup[m] = "pending" /\ startup'[m] = "ready")
  PROVE  SerialInv'
<1>1. UNCHANGED <<registered, call, waiter, prep, emulator, use, input>>
  BY DEF Arrives
<1>2. OneCall' /\ MachineOK' /\ (~failed => OneStart')
  BY <1>1, SerialFacts DEF SerialInv, OneCall, MachineOK, OneStart
<1>3. LabdType
  BY DEF StopInv, TypeOK
<1>4. \A i \in DOMAIN output' : Answers(i)' =>
              \E j \in DOMAIN output : Answers(j) /\ output[j] = output'[i]
  BY <1>3, ArrivedSigns
<1>5. ASSUME NEW m \in Nodes PROVE Placed(m)' /\ (~failed => Cold(m)') /\ (Works => Reached(m)')
  <2>1. (Idle(m)' <=> Idle(m)) /\ (Leaving(m)' <=> Leaving(m))
    BY <1>1 DEF Idle, Leaving
  <2>2. /\ Hot(m)' <=> Hot(m)
        /\ Asked(m)' <=> Asked(m)
        /\ Down(m)' <=> Down(m)
        /\ Unasked(m)' <=> Unasked(m)
        /\ Deleted(m)' <=> Deleted(m)
        /\ ExitOnTheWay(m)' <=> ExitOnTheWay(m)
        /\ Fresh(m) => Fresh(m)'
        /\ ExitsFirst(m) => ExitsFirst(m)'
        /\ guest'[m] = guest[m]
    BY <1>3, ArrivedSigns
  <2>3. /\ startup'[m] = "none" <=> startup[m] = "none"
        /\ startup'[m] = "exited" <=> startup[m] = "exited"
    OBVIOUS
  <2>4. Placed(m)'
    BY <1>1, <2>1, <2>3, SerialFacts DEF Placed
  <2>5. ~failed => Cold(m)'
    BY <1>1, <2>1, <2>2, <2>3, SerialFacts DEF Cold
  <2>6. ASSUME Works PROVE Reached(m)'
    <3>1. Reached(m) /\ (Answered' => Answered)
      BY <1>4, <2>6, SerialFacts DEF Answered
    <3>2. Live(m)' <=> Live(m)
      BY <2>2 DEF Live
    <3> QED
      BY <1>1, <1>4, <2>1, <2>2, <2>3, <3>1, <3>2 DEF Reached
  <2> QED
    BY <2>4, <2>5, <2>6
<1> QED
  BY <1>1, <1>2, <1>5 DEF SerialInv, Works

LEMMA NodeExitLineSerial ==
  ASSUME StopInv, Serial, SerialInv, NodeExitLine
  PROVE  SerialInv'
<1>1. UNCHANGED <<registered, call, waiter, prep, emulator, use, input, head, failed>> /\ Arrives("node-exit")
  BY DEF NodeExitLine, Arrives
<1>2. OneCall' /\ MachineOK' /\ (~failed => OneStart')
  BY <1>1, SerialFacts DEF SerialInv, OneCall, MachineOK, OneStart
<1>3. LabdType /\ NodesType
  BY DEF StopInv, TypeOK
<1>4. \A i \in DOMAIN output' : Answers(i)' =>
              \E j \in DOMAIN output : Answers(j) /\ output[j] = output'[i]
  BY <1>1, <1>3, ArrivedSigns
<1>5. PICK n : n = Head(output).of
  OBVIOUS
<1>6. IF n \in registered
      THEN /\ active' = active \ {n}
           /\ startup' = IF startup[n] = "none" THEN startup ELSE [startup EXCEPT ![n] = "exited"]
           /\ rt' = IF rt[n] = "running" THEN [rt EXCEPT ![n] = "failed"] ELSE rt
      ELSE UNCHANGED <<rt, active, startup>>
  BY <1>5, Zenon DEF NodeExitLine
<1>7. ExitOnTheWay(n)
  <2>1. 1 \in DOMAIN output /\ output[1].type = "node-exit" /\ output[1].of = n
    BY <1>1, <1>3, <1>5, HeadTail DEF Arrives, LabdType
  <2> QED
    BY <2>1 DEF ExitOnTheWay
<1>8. ASSUME NEW m \in Nodes PROVE Placed(m)' /\ (~failed => Cold(m)') /\ (Works => Reached(m)')
  <2>1. (Idle(m)' <=> Idle(m)) /\ (Leaving(m)' <=> Leaving(m))
    BY <1>1 DEF Idle, Leaving
  <2>2. /\ Hot(m)' <=> Hot(m)
        /\ Asked(m)' <=> Asked(m)
        /\ Down(m)' <=> Down(m)
        /\ Unasked(m)' <=> Unasked(m)
        /\ Deleted(m)' <=> Deleted(m)
        /\ ExitOnTheWay(m)' => ExitOnTheWay(m)
        /\ Fresh(m) => Fresh(m)'
        /\ ExitsFirst(m) => ExitsFirst(m)'
        /\ guest'[m] = guest[m]
    BY <1>1, <1>3, ArrivedSigns
  <2>3. Placed(m) /\ (~failed => Cold(m)) /\ (Works => Reached(m)) /\ (Answered' => Answered)
    BY <1>1, <1>4, SerialFacts DEF Answered
  <2>4. CASE m = n /\ n \in registered
    <3>1. /\ m \notin active' /\ rt'[m] = IF rt[m] = "running" THEN "failed" ELSE rt[m]
          /\ startup'[m] = IF startup[m] = "none" THEN "none" ELSE "exited"
      BY <1>3, <1>6, <2>4 DEF NodesType
    <3>2. Placed(m)'
      BY <1>1, <2>1, <2>3, <3>1 DEF Placed
    <3>3. ASSUME ~failed PROVE Cold(m)'
      <4>1. ExitOnTheWay(m) /\ ~Hot(m) /\ ~Asked(m)
        BY <1>7, <2>3, <2>4, <3>3 DEF Cold, Hot
      <4> QED
        BY <1>1, <2>1, <2>2, <2>3, <3>1, <3>3, <4>1 DEF Cold, Fresh
    <3>4. Works => Reached(m)'
      BY <1>1, <1>4, <2>1, <2>2, <2>3, <3>1 DEF Reached, Placed
    <3> QED
      BY <3>2, <3>3, <3>4
  <2>5. CASE ~(m = n /\ n \in registered)
    <3>1. rt'[m] = rt[m] /\ startup'[m] = startup[m] /\ (m \in active' <=> m \in active)
      BY <1>3, <1>6, <2>5 DEF NodesType
    <3>2. Placed(m)'
      BY <1>1, <2>1, <2>3, <3>1 DEF Placed
    <3>3. ~failed => Cold(m)'
      BY <1>1, <2>1, <2>2, <2>3, <3>1 DEF Cold
    <3>4. ASSUME Works PROVE Reached(m)'
      <4>1. CASE m \notin registered
        <5>1. call["user"][m] = "idle" /\ (rt[m] = "running" => call["release"][m] # "idle")
          BY <2>3, <4>1 DEF Placed
        <5>2. rt[m] = "running" => ~Idle(m)
          BY <5>1 DEF Idle, Tracks
        <5> QED
          BY <1>1, <2>1, <2>2, <2>3, <3>1, <3>4, <5>1, <5>2 DEF Reached
      <4>2. CASE m # n
        <5>1. ExitOnTheWay(m)' <=> ExitOnTheWay(m)
          BY <1>1, <1>3, <1>5, <4>2, ArrivedSigns
        <5>2. Live(m)' <=> Live(m)
          BY <2>2, <5>1 DEF Live
        <5> QED
          BY <1>1, <1>4, <2>1, <2>2, <2>3, <3>1, <3>4, <5>1, <5>2 DEF Reached
      <4> QED
        BY <2>5, <4>1, <4>2
    <3> QED
      BY <3>2, <3>3, <3>4
  <2> QED
    BY <2>4, <2>5
<1> QED
  BY <1>1, <1>2, <1>8 DEF SerialInv, Works

LEMMA ResponseLineSerial ==
  ASSUME StopInv, Serial, SerialInv, ResponseLine
  PROVE  SerialInv'
<1>1. /\ UNCHANGED <<registered, call, waiter, prep, emulator, use, input, rt, active, startup, failed>>
      /\ Arrives("response") /\ output # <<>> /\ Head(output).type = "response"
  BY DEF ResponseLine, Arrives
<1>2. LabdType
  BY DEF StopInv, TypeOK
<1>3. Head(output) = output[1] /\ 1 \in DOMAIN output
  BY <1>1, <1>2, HeadTail DEF LabdType
<1>4. CASE UNCHANGED head
  BY <1>1, <1>4, LineSerial
<1>5. CASE /\ queue # <<>> /\ head = "sent" /\ waiter = Head(output).of
           /\ head' = IF Head(output).ok THEN "ok" ELSE "error"
  <2>1. Answers(1) /\ ~failed
    BY <1>1, <1>3, <1>5, SerialFacts DEF Answers, SerialInv, MachineOK
  <2>2. PICK t \in Tracks, n \in Nodes :
          /\ Head(queue) = <<t, n>> /\ call[t][n] \in Asking /\ call[t][n] # "idle"
          /\ \A m \in Nodes \ {n} : Idle(m)
          /\ \A u \in Tracks \ {t} : call[u][n] = "idle"
    BY <1>5, HeadOf DEF SerialInv
  <2>3. \A i \in DOMAIN input : input[i].id # waiter
    BY <1>3, <1>5, <2>1, <2>2, HeadIs, SerialFacts
  <2>4. call[t][n] \in Ending => ~Hot(n)
    BY <1>3, <1>5, <2>1, <2>2, HeadIs, SerialFacts
  <2>5. OneCall' /\ MachineOK' /\ OneStart'
    BY <1>1, <1>5, <2>1, <2>3, SerialFacts DEF SerialInv, OneCall, MachineOK, OneStart
  <2>6. ASSUME NEW m \in Nodes PROVE Placed(m)' /\ Cold(m)' /\ (Works => Reached(m)')
    <3>1. (Idle(m)' <=> Idle(m)) /\ Placed(m)'
      BY <1>1, PlacedStays, SerialFacts
    <3>2. /\ Hot(m)' <=> Hot(m)
          /\ Asked(m)' <=> Asked(m)
          /\ Down(m)' <=> Down(m)
          /\ Unasked(m)' <=> Unasked(m)
          /\ Deleted(m)' <=> Deleted(m)
          /\ ExitOnTheWay(m)' <=> ExitOnTheWay(m)
          /\ Fresh(m) => Fresh(m)'
          /\ guest'[m] = guest[m]
      BY <1>1, <1>2, ArrivedSigns
    <3>3. Cold(m) /\ (Works => Reached(m))
      BY <2>1, SerialFacts
    <3>4. \A u \in Tracks : call[u][m] = "idle" \/ (u = t /\ m = n)
      BY <2>2 DEF Idle
    <3>5. call["user"][m] = "stop" => ~ExitOnTheWay(m)
      <4> SUFFICES ASSUME call["user"][m] = "stop", ExitOnTheWay(m) PROVE FALSE
        OBVIOUS
      <4>1. ExitsFirst(m)
        BY <1>5, <3>3 DEF Cold
      <4>2. PICK j \in DOMAIN output : output[j].type = "node-exit" /\ output[j].of = m
        BY DEF ExitOnTheWay
      <4>3. j < 1 /\ j \in Nat \ {0}
        BY <1>2, <1>3, <2>1, <4>1, <4>2 DEF ExitsFirst, LabdType
      <4> QED
        BY <4>3
    <3>6. (\E u \in Tracks : call[u][m] \in {"stop", "undo", "dstop"}) => ~Hot(m)
      BY <2>4, <3>4 DEF Ending
    <3>7. Cold(m)'
      BY <1>1, <1>5, <3>1, <3>2, <3>3, <3>5, <3>6 DEF Cold
    <3>8. ASSUME Works PROVE Reached(m)'
      <4>1. Answered' => Answered
        BY <1>3, <1>5, <2>1 DEF Answered
      <4>2. call["user"][m] = "stop" => head' = "ok"
        BY <1>3, <1>5, <2>1, <3>3, <3>8 DEF Reached
      <4>3. Live(m)' <=> Live(m)
        BY <3>2 DEF Live
      <4> QED
        BY <1>1, <1>5, <3>1, <3>2, <3>3, <3>8, <4>1, <4>2, <4>3 DEF Reached
    <3> QED
      BY <3>1, <3>7, <3>8
  <2> QED
    BY <1>1, <2>5, <2>6 DEF SerialInv, Works
<1> QED
  BY <1>4, <1>5, Zenon DEF ResponseLine

LEMMA AnyLineSerial ==
  ASSUME StopInv, Serial, SerialInv, AnyLine
  PROVE  SerialInv'
<1>1. LabdType /\ NodesType
  BY DEF StopInv, TypeOK
<1>2. CASE MalformedLine
  <2>1. Arrives("malformed") /\ Failing /\ UNCHANGED active
    BY <1>2 DEF MalformedLine
  <2>2. UNCHANGED <<call, registered, emulator, use, guest, input, prep>>
    BY <2>1 DEF Arrives
  <2>3. \A n \in Nodes : ExitOnTheWay(n) => ExitOnTheWay(n)'
    BY <1>1, <2>1, ArrivedSigns
  <2> QED
    BY <2>1, <2>2, <2>3, FailSerial
<1>3. CASE MachineReadyLine
  <2>1. Arrives("machine-ready") /\ UNCHANGED <<rt, active, startup, head, failed>>
    BY <1>3 DEF MachineReadyLine
  <2> QED
    BY <2>1, LineSerial
<1>4. CASE NodeReadyLine
  <2>1. Arrives("node-ready") /\ UNCHANGED <<rt, active, head, failed>>
    BY <1>4 DEF NodeReadyLine
  <2>2. PICK n : startup' = IF n \in registered /\ startup[n] = "pending"
                            THEN [startup EXCEPT ![n] = "ready"] ELSE startup
    BY <1>4 DEF NodeReadyLine
  <2>3. \A m \in Nodes : startup'[m] = startup[m] \/ (startup[m] = "pending" /\ startup'[m] = "ready")
    BY <1>1, <2>2 DEF NodesType
  <2> QED
    BY <2>1, <2>3, LineSerial
<1> QED
  BY <1>2, <1>3, <1>4, NodeExitLineSerial, ResponseLineSerial DEF AnyLine

-----------------------------------------------------------------------------
(* labd.                                                                      *)

LEMMA LabdSerial ==
  ASSUME SerialInv, LabdUnchanged,
         ~failed => OneStart' /\ \A m \in Nodes : Cold(m)',
         Works => \A m \in Nodes : Reached(m)'
  PROVE  SerialInv'
<1>1. UNCHANGED <<rt, registered, active, startup, call, head, prep, failed, emulator, use>>
  BY DEF LabdUnchanged, nodes, control, machine
<1>2. OneCall' /\ MachineOK' /\ \A m \in Nodes : Placed(m)'
  BY <1>1, PlacedStays DEF SerialInv, OneCall, MachineOK
<1> QED
  BY <1>1, <1>2 DEF SerialInv, Works

(* A line is written behind the others.                                       *)
LEMMA WrittenSigns ==
  ASSUME LabdType, NEW l \in Lines, output' = Append(output, l), UNCHANGED waiter
  PROVE  /\ \A m : /\ ExitOnTheWay(m)' <=> ExitOnTheWay(m) \/ (l.type = "node-exit" /\ l.of = m)
                   /\ ExitsFirst(m) /\ (l.type = "node-exit" => \A i \in DOMAIN output : ~Answers(i))
                        => ExitsFirst(m)'
         /\ \A i \in DOMAIN output' : Answers(i)' =>
              \/ i \in DOMAIN output /\ Answers(i) /\ output'[i] = output[i]
              \/ output'[i] = l /\ l.type = "response" /\ l.of = waiter
<1>1. /\ DOMAIN output' = 1 .. Len(output) + 1 /\ DOMAIN output = 1 .. Len(output) /\ Len(output) \in Nat
      /\ \A k \in 1 .. Len(output) : output'[k] = output[k]
      /\ output'[Len(output) + 1] = l
  BY AppendIs DEF LabdType
<1>2. \A i \in DOMAIN output' : i \in DOMAIN output \/ i = Len(output) + 1
  BY <1>1
<1>3. \A i \in DOMAIN output' : Answers(i)' =>
        \/ i \in DOMAIN output /\ Answers(i) /\ output'[i] = output[i]
        \/ output'[i] = l /\ l.type = "response" /\ l.of = waiter
  BY <1>1, <1>2 DEF Answers
<1>4. ASSUME NEW m, ExitOnTheWay(m)' PROVE ExitOnTheWay(m) \/ (l.type = "node-exit" /\ l.of = m)
  <2>1. PICK i \in DOMAIN output' : output'[i].type = "node-exit" /\ output'[i].of = m
    BY <1>4 DEF ExitOnTheWay
  <2> QED
    BY <1>1, <1>2, <2>1 DEF ExitOnTheWay
<1>5. ASSUME NEW m, ExitOnTheWay(m) \/ (l.type = "node-exit" /\ l.of = m) PROVE ExitOnTheWay(m)'
  BY <1>1, <1>5 DEF ExitOnTheWay
<1>6. ASSUME NEW m, ExitsFirst(m), l.type = "node-exit" => \A i \in DOMAIN output : ~Answers(i)
      PROVE  ExitsFirst(m)'
  <2> SUFFICES ASSUME NEW i \in DOMAIN output', NEW j \in DOMAIN output',
                      Answers(i)', output'[j].type = "node-exit", output'[j].of = m
               PROVE  j < i
    BY DEF ExitsFirst
  <2>1. CASE i \in DOMAIN output /\ Answers(i)
    <3>1. j \in DOMAIN output /\ output[j] = output'[j]
      BY <1>1, <1>2, <1>6, <2>1
    <3> QED
      BY <1>6, <2>1, <3>1 DEF ExitsFirst
  <2>2. CASE i = Len(output) + 1 /\ l.type = "response"
    <3>1. j \in DOMAIN output
      BY <1>1, <1>2, <2>2
    <3> QED
      BY <1>1, <2>2, <3>1
  <2>3. i = Len(output) + 1 => l.type = "response"
    BY <1>1 DEF Answers
  <2>4. i \in DOMAIN output => Answers(i)
    BY <1>1 DEF Answers
  <2> QED
    BY <1>2, <2>1, <2>2, <2>3, <2>4
<1> QED
  BY <1>3, <1>4, <1>5, <1>6

(* What labd does by itself to a node that does not fall, and what it says    *)
(* of one that has risen.                                                     *)
LEMMA QuietSerial ==
  ASSUME StopInv, SerialInv, LabdUnchanged, UNCHANGED input,
         \A m \in Nodes : /\ Down(m)' <=> Down(m)
                          /\ guest[m] = "running" => guest'[m] = "running"
                          /\ guest'[m] = "deleted" => guest[m] = "deleted",
         \/ UNCHANGED output
         \/ \E l \in Lines : l.type \notin {"response", "node-exit"} /\ output' = Append(output, l)
  PROVE  SerialInv'
<1>1. UNCHANGED <<rt, startup, call, head, waiter, failed>>
  BY DEF LabdUnchanged, nodes, control, machine
<1>2. /\ \A m : /\ ExitOnTheWay(m)' <=> ExitOnTheWay(m)
                /\ ExitsFirst(m) => ExitsFirst(m)'
      /\ \A i \in DOMAIN output' : Answers(i)' =>
           i \in DOMAIN output /\ Answers(i) /\ output'[i] = output[i]
  <2>1. CASE UNCHANGED output
    BY <1>1, <2>1 DEF ExitOnTheWay, ExitsFirst, Answers
  <2>2. CASE \E l \in Lines : l.type \notin {"response", "node-exit"} /\ output' = Append(output, l)
    <3>1. PICK l \in Lines : l.type \notin {"response", "node-exit"} /\ output' = Append(output, l)
      BY <2>2
    <3>2. LabdType
      BY DEF StopInv, TypeOK
    <3> QED
      BY <1>1, <3>1, <3>2, WrittenSigns
  <2> QED
    BY <2>1, <2>2
<1>3. ASSUME NEW m \in Nodes PROVE (~failed => Cold(m)') /\ (Works => Reached(m)')
  <2>1. (Idle(m)' <=> Idle(m)) /\ (Asked(m)' <=> Asked(m)) /\ (Unasked(m)' <=> Unasked(m))
    BY <1>1 DEF Idle, Asked, Unasked
  <2>2. /\ Hot(m)' <=> Hot(m)
        /\ Fresh(m)' <=> Fresh(m)
        /\ Live(m) => Live(m)'
        /\ Deleted(m)' => Deleted(m)
    BY <1>2, <2>1 DEF Hot, Fresh, Live, Deleted
  <2>3. ~failed => Cold(m)'
    BY <1>1, <1>2, <2>1, <2>2, SerialFacts DEF Cold
  <2>4. ASSUME Works PROVE Reached(m)'
    <3>1. Reached(m) /\ (Answered' => Answered)
      BY <1>1, <1>2, <2>4, SerialFacts DEF Answered
    <3> QED
      BY <1>1, <1>2, <2>1, <2>2, <3>1 DEF Reached
  <2> QED
    BY <2>3, <2>4
<1>4. ~failed => OneStart'
  BY <1>1, SerialFacts DEF SerialInv, OneStart
<1> QED
  BY <1>3, <1>4, LabdSerial

LEMMA NodeExitSerial ==
  ASSUME StopInv, SerialInv, NEW n \in Nodes, NodeExit(n)
  PROVE  SerialInv'
<1>1. /\ LabdUnchanged /\ UNCHANGED input /\ guest[n] \in {"starting", "running"}
      /\ guest' = [guest EXCEPT ![n] = "dying"]
  BY DEF NodeExit, Reports
<1>2. UNCHANGED <<rt, startup, call, head, waiter, failed>>
  BY <1>1 DEF LabdUnchanged, nodes, control, machine
<1>3. LabdType
  BY DEF StopInv, TypeOK
<1>4. PICK l \in Lines : /\ output' = Append(output, l)
                         /\ l = [type |-> "node-exit", of |-> n, ok |-> TRUE]
  BY ReportIs DEF NodeExit, Reports
<1>5. l.type = "node-exit" /\ l.of = n
  BY <1>4
<1>6. /\ \A m : ExitOnTheWay(m)' <=> ExitOnTheWay(m) \/ m = n
      /\ \A i \in DOMAIN output' : Answers(i)' =>
           i \in DOMAIN output /\ Answers(i) /\ output'[i] = output[i]
  BY <1>2, <1>3, <1>4, <1>5, WrittenSigns
<1>7. guest'[n] = "dying" /\ \A m \in Nodes \ {n} : guest'[m] = guest[m]
  BY <1>1, <1>3 DEF LabdType
<1>8. Hot(n) /\ ~Down(n) /\ Down(n)'
  BY <1>1, <1>7 DEF Hot, Down
<1>9. ASSUME ~failed, NEW m \in Nodes PROVE Cold(m)'
  <2>1. (Idle(m)' <=> Idle(m)) /\ (Asked(m)' <=> Asked(m)) /\ Cold(m)
    BY <1>1, <1>2, <1>9, SerialFacts DEF Idle, Asked
  <2>2. call["user"][m] = "stop" /\ head = "sent" => ExitsFirst(m)'
    <3> SUFFICES ASSUME call["user"][m] = "stop", head = "sent" PROVE ExitsFirst(m)'
      OBVIOUS
    <3>1. ExitsFirst(m)
      BY <2>1 DEF Cold
    <3>2. CASE \A i \in DOMAIN output : ~Answers(i)
      BY <1>2, <1>3, <1>4, <3>1, <3>2, WrittenSigns
    <3>3. CASE \E i \in DOMAIN output : Answers(i)
      <4>1. ~Hot(m)
        BY <3>3, HeadIs, SerialFacts DEF Ending, Tracks
      <4>2. m # n
        BY <1>8, <4>1
      <4>3. \A i \in DOMAIN output' : output'[i].type = "node-exit" /\ output'[i].of = m => i \in DOMAIN output /\ output'[i] = output[i]
        <5>1. /\ DOMAIN output' = 1 .. Len(output) + 1 /\ DOMAIN output = 1 .. Len(output) /\ Len(output) \in Nat
              /\ \A k \in 1 .. Len(output) : output'[k] = output[k]
              /\ output'[Len(output) + 1] = l
          BY <1>3, <1>4, AppendIs DEF LabdType
        <5>2. \A i \in DOMAIN output' : i \in DOMAIN output \/ i = Len(output) + 1
          BY <5>1
        <5> QED
          BY <1>5, <4>2, <5>1, <5>2
      <4> QED
        BY <1>6, <3>1, <4>3 DEF ExitsFirst
    <3> QED
      BY <3>2, <3>3
  <2>3. CASE m # n
    <3>1. (ExitOnTheWay(m)' <=> ExitOnTheWay(m)) /\ (Down(m)' <=> Down(m))
      BY <1>6, <1>7, <2>3 DEF Down
    <3>2. (Hot(m)' <=> Hot(m)) /\ (Fresh(m)' <=> Fresh(m))
      BY <2>1, <3>1 DEF Hot, Fresh
    <3> QED
      BY <1>2, <2>1, <2>2, <3>1, <3>2 DEF Cold
  <2>4. CASE m = n
    <3>1. ~Asked(m) /\ ~Hot(m)' /\ ~Fresh(m)
      BY <1>8, <2>1, <2>4 DEF Cold, Hot, Fresh
    <3>2. ~(Idle(m) /\ rt[m] \in {"new", "initialized", "stopped", "failed", "disposed"})
      BY <1>8, <2>1, <2>4, Facts DEF Cold, NodeOK, Idle, Begun, Starting
    <3>3. ~(call["user"][m] = "stop" /\ head = "ok")
      BY <1>8, <2>4, HeadIs, SerialFacts DEF Ending, Tracks
    <3> QED
      BY <1>2, <1>8, <2>1, <2>2, <2>4, <3>1, <3>2, <3>3 DEF Cold
  <2> QED
    BY <2>3, <2>4
<1>10. ASSUME Works, NEW m \in Nodes PROVE Reached(m)'
  <2>1. /\ Idle(m)' <=> Idle(m)
        /\ Unasked(m)' <=> Unasked(m)
        /\ Reached(m)
    BY <1>1, <1>2, <1>10, SerialFacts DEF Idle, Unasked
  <2>2. (ExitOnTheWay(m) => ExitOnTheWay(m)') /\ (m = n => ExitOnTheWay(m)') /\ (Answered' => Answered)
    BY <1>2, <1>6 DEF Answered
  <2>3. guest'[m] = guest[m] \/ m = n
    BY <1>7
  <2>4. Live(m) => Live(m)'
    BY <2>1, <2>2, <2>3 DEF Live
  <2>5. Deleted(m)' => Deleted(m)
    BY <1>1, <1>7 DEF Deleted
  <2> QED
    BY <1>2, <1>6, <2>1, <2>2, <2>3, <2>4, <2>5 DEF Reached
<1>11. ~failed => OneStart'
  BY <1>1, <1>2, SerialFacts DEF SerialInv, OneStart
<1> QED
  BY <1>1, <1>9, <1>10, <1>11, LabdSerial

(* A request is served: what labd says of it is so.                           *)
Truthful(cmd, from, to, ok) ==
  /\ cmd = "LINK" /\ ok => from = {"running"} /\ to = "running"
  /\ to = "deleted" => cmd = "NODE_DELETE" \/ from = {"deleted"}
  /\ cmd = "NODE_STOP" /\ ~ok /\ Works => from = {"deleted"}

LEMMA ServeSerial ==
  ASSUME StopInv, SerialInv, NEW cmd, NEW from, NEW to, NEW ok \in BOOLEAN,
         Serving(cmd, from, to), Truthful(cmd, from, to, ok), Serve(cmd, from, to, ok)
  PROVE  SerialInv'
<1>1. LabdUnchanged /\ UNCHANGED <<rt, startup, call, head, waiter, failed>>
  BY DEF Serve, LabdUnchanged, nodes, control, machine
<1>2. LabdType
  BY DEF StopInv, TypeOK
<1>3. PICK r \in Requests : r = Head(input) /\ r = input[1] /\ 1 \in DOMAIN input
  BY <1>2, HeadTail DEF Serve, LabdType
<1>4. /\ r.cmd = cmd /\ guest[r.node] \in from /\ guest' = [guest EXCEPT ![r.node] = to]
      /\ output' = Append(output, [type |-> "response", of |-> r.id, ok |-> ok])
      /\ input # <<>> /\ input' = Tail(input) /\ r.id \in Ids /\ r.node \in Nodes
  BY <1>3, RequestIs DEF Serve
<1>5. PICK l \in Lines : l = [type |-> "response", of |-> r.id, ok |-> ok]
  BY <1>4, ResponseIs
<1>6. l.type = "response" /\ l.of = r.id /\ l.ok = ok /\ output' = Append(output, l)
  BY <1>4, <1>5
<1>7. /\ Len(input) \in Nat \ {0}
      /\ \A i \in DOMAIN input' : input'[i] = input[i + 1] /\ i + 1 \in DOMAIN input /\ i \in Nat \ {0}
      /\ DOMAIN input' = 1 .. Len(input) - 1
  BY <1>2, <1>4, HeadTail DEF LabdType
<1>8. guest'[r.node] = to /\ \A m \in Nodes \ {r.node} : guest'[m] = guest[m]
  BY <1>2, <1>4 DEF LabdType
<1>9. /\ \A m : /\ ExitOnTheWay(m)' <=> ExitOnTheWay(m)
                /\ ExitsFirst(m) => ExitsFirst(m)'
      /\ \A i \in DOMAIN output' : Answers(i)' =>
           \/ i \in DOMAIN output /\ Answers(i) /\ output'[i] = output[i]
           \/ output'[i] = l /\ r.id = waiter
  BY <1>1, <1>2, <1>6, WrittenSigns
<1>10. \A m \in Nodes : Asked(m)' => Asked(m)
  BY <1>7 DEF Asked
<1>11. \A m \in Nodes : Hot(m)' => Hot(m)
  <2> SUFFICES ASSUME NEW m \in Nodes, Down(m), ~Down(m)' PROVE Asked(m)
    BY <1>10 DEF Hot
  <2>1. m = r.node /\ to \in {"starting", "running"}
    BY <1>8 DEF Down
  <2>2. r.cmd = "NODE_START"
    BY <1>4, <2>1 DEF Serving, Down
  <2> QED
    BY <1>3, <2>1, <2>2 DEF Asked
(* The request that the one call waits for is the only one left.              *)
<1>12. ASSUME NEW t \in Tracks, NEW n \in Nodes, call[t][n] # "idle", head = "sent", r.id = waiter
       PROVE  r.node = n /\ cmd = Command[call[t][n]] /\ \A i \in DOMAIN input' : FALSE
  <2>1. OneCall
    BY DEF SerialInv
  <2>2. \A i \in DOMAIN input : input[i].id = waiter =>
          i = Len(input) /\ input[i].node = n /\ input[i].cmd = Command[call[t][n]]
    BY <1>12, <2>1, HeadIs
  <2>3. 1 = Len(input) /\ r.node = n /\ r.cmd = Command[call[t][n]]
    BY <1>3, <1>12, <2>2
  <2>4. \A i \in DOMAIN input' : i \in 1 .. 1 - 1
    BY <1>7, <2>3
  <2>5. 1 .. 1 - 1 = {}
    OBVIOUS
  <2> QED
    BY <1>4, <2>3, <2>4, <2>5
<1>13. ASSUME ~failed, NEW m \in Nodes PROVE Cold(m)'
  <2>1. (Idle(m)' <=> Idle(m)) /\ Cold(m) /\ OneStart
    BY <1>1, <1>13, SerialFacts DEF Idle
  <2>2. Fresh(m) => Fresh(m)'
    BY <1>9, <1>11 DEF Fresh
  <2>3. ASSUME Asked(m)' PROVE Down(m)' /\ startup[m] # "exited"
    <3>1. Down(m) /\ startup[m] # "exited"
      BY <1>10, <2>1, <2>3 DEF Cold
    <3>2. ASSUME ~Down(m)' PROVE FALSE
      <4>1. m = r.node /\ to \in {"starting", "running"}
        BY <1>8, <3>1, <3>2 DEF Down
      <4>2. r.cmd = "NODE_START"
        BY <1>4, <3>1, <4>1 DEF Serving, Down
      <4>3. r.id = waiter /\ head = "sent"
        BY <1>3, <2>1, <4>2 DEF OneStart
      <4>4. queue # <<>>
        BY <4>3, Facts DEF ControlOK
      <4>5. PICK t \in Tracks, n \in Nodes : call[t][n] # "idle"
        BY <4>4, HeadOf DEF SerialInv
      <4> QED
        BY <1>12, <2>3, <4>3, <4>5 DEF Asked
    <3> QED
      BY <3>1, <3>2
  <2>4. /\ ExitOnTheWay(m)' <=> ExitOnTheWay(m)
        /\ ExitsFirst(m) => ExitsFirst(m)'
        /\ Hot(m)' => Hot(m)
    BY <1>9, <1>11
  <2> QED
    BY <1>1, <2>1, <2>2, <2>3, <2>4 DEF Cold
<1>14. ASSUME Works, NEW m \in Nodes PROVE Reached(m)'
  <2>1. (Idle(m)' <=> Idle(m)) /\ Reached(m) /\ Placed(m)
    BY <1>1, <1>14, SerialFacts DEF Idle
  <2>2. Unasked(m) => Unasked(m)' /\ guest'[m] = guest[m]
    <3>1. Unasked(m) => Unasked(m)'
      BY <1>7 DEF Unasked
    <3>2. Unasked(m) => r.node # m
      BY <1>3 DEF Unasked
    <3> QED
      BY <1>8, <3>1, <3>2
  <2>3. ExitOnTheWay(m)' <=> ExitOnTheWay(m)
    BY <1>9
  <2>4. Live(m) => Live(m)'
    BY <2>2, <2>3 DEF Live
  <2>5. Deleted(m)' => Deleted(m)
    <3>1. CASE guest'[m] = "deleted"
      <4>1. CASE m = r.node /\ to = "deleted"
        <5>1. cmd = "NODE_DELETE" \/ guest[m] = "deleted"
          BY <1>4, <4>1 DEF Truthful
        <5> QED
          BY <1>3, <1>4, <4>1, <5>1 DEF Deleted
      <4>2. CASE guest[m] = "deleted"
        BY <4>2 DEF Deleted
      <4> QED
        BY <1>8, <3>1, <4>1, <4>2
    <3>2. CASE \E i \in DOMAIN input' : input'[i].cmd = "NODE_DELETE" /\ input'[i].node = m
      BY <1>7, <3>2 DEF Deleted
    <3> QED
      BY <3>1, <3>2 DEF Deleted
  <2>6. ASSUME call["user"][m] = "LINK", Answered'
        PROVE  Unasked(m)' /\ (guest'[m] = "running" \/ ExitOnTheWay(m)' \/ startup[m] = "exited")
    <3>1. CASE Answered
      BY <2>1, <2>2, <2>3, <2>6, <3>1 DEF Reached
    <3>2. CASE head = "sent" /\ r.id = waiter /\ ok
      <4>1. r.node = m /\ cmd = Command["LINK"] /\ \A i \in DOMAIN input' : FALSE
        BY <1>12, <2>6, <3>2 DEF Tracks
      <4>2. guest'[m] = "running"
        BY <1>8, <3>2, <4>1 DEF Truthful, Command
      <4> QED
        BY <4>1, <4>2 DEF Unasked
    <3> QED
      BY <1>1, <1>6, <1>9, <2>6, <3>1, <3>2 DEF Answered
  <2>7. ASSUME call["user"][m] = "stop", head = "sent", NEW i \in DOMAIN output', Answers(i)'
        PROVE  output'[i].ok
    <3>1. CASE i \in DOMAIN output /\ Answers(i) /\ output'[i] = output[i]
      BY <2>1, <2>7, <3>1 DEF Reached
    <3>2. CASE output'[i] = l /\ r.id = waiter
      <4>1. r.node = m /\ cmd = Command["stop"]
        BY <1>12, <2>7, <3>2 DEF Tracks
      <4>2. cmd = "NODE_STOP"
        BY <4>1 DEF Command
      <4>3. ~Deleted(m)
        <5>1. call["release"][m] = "idle"
          BY <2>7, Alone, SerialFacts DEF Tracks
        <5> QED
          BY <2>1, <2>7, <5>1 DEF Reached, Placed
      <4>4. guest[m] # "deleted"
        BY <4>3 DEF Deleted
      <4>5. ok = TRUE
        BY <1>4, <1>14, <4>1, <4>2, <4>4 DEF Truthful
      <4> QED
        BY <1>6, <3>2, <4>5
    <3> QED
      BY <1>9, <2>7, <3>1, <3>2
  <2> QED
    BY <1>1, <2>1, <2>4, <2>5, <2>6, <2>7 DEF Reached
<1>15. ASSUME ~failed PROVE OneStart'
  <2>1. OneStart
    BY <1>15, SerialFacts DEF SerialInv
  <2> QED
    BY <1>1, <1>7, <2>1 DEF OneStart
<1> QED
  BY <1>1, <1>13, <1>14, <1>15, LabdSerial

LEMMA LabdStepSerial ==
  ASSUME StopInv, SerialInv, Labd
  PROVE  SerialInv'
<1> DEFINE Some == \E cmd, from, to : \E ok \in BOOLEAN :
                     Serving(cmd, from, to) /\ Truthful(cmd, from, to, ok) /\ Serve(cmd, from, to, ok)
<1>1. Some => SerialInv'
  BY ServeSerial
<1>2. ASSUME NEW cmd, NEW from, Refuse(cmd, from),
             from \subseteq Alive \cup {"off", "deleted"},
             cmd \in {"NODE_STOP", "NODE_DELETE"} => from = {"deleted"}
      PROVE  Some
  <2>1. PICK g \in from : Serve(cmd, {g}, g, FALSE)
    BY <1>2 DEF Refuse
  <2>2. Serving(cmd, {g}, g) /\ Truthful(cmd, {g}, g, FALSE)
    BY <1>2 DEF Serving, Truthful, Alive
  <2> QED
    BY <2>1, <2>2
<1>3. CASE ServeStart
  <2>1. Serving("NODE_START", {"off"}, "starting") /\ Truthful("NODE_START", {"off"}, "starting", TRUE)
    BY DEF Serving, Truthful
  <2>2. Some
    BY <1>2, <1>3, <2>1 DEF ServeStart, Alive
  <2> QED
    BY <1>1, <2>2
<1>4. CASE ServeLink
  <2>1. Serving("LINK", {"running"}, "running") /\ Truthful("LINK", {"running"}, "running", TRUE)
    BY DEF Serving, Truthful
  <2>2. Some
    BY <1>2, <1>4, <2>1 DEF ServeLink, Alive
  <2> QED
    BY <1>1, <2>2
<1>5. CASE ServeStop
  <2>1. /\ Serving("NODE_STOP", Alive \cup {"off"}, "off") /\ Serving("NODE_STOP", Alive, "stuck")
        /\ Truthful("NODE_STOP", Alive \cup {"off"}, "off", TRUE)
        /\ "STOP_FAILED" \in use.faults => Truthful("NODE_STOP", Alive, "stuck", FALSE)
    BY DEF Serving, Truthful, Works
  <2>2. Some
    BY <1>2, <1>5, <2>1 DEF ServeStop
  <2> QED
    BY <1>1, <2>2
<1>6. CASE ServeDelete
  <2>1. /\ Serving("NODE_DELETE", Alive \cup {"off"}, "deleted") /\ Serving("NODE_DELETE", Alive, "stuck")
        /\ Serving("NODE_DELETE", Alive \cup {"off"}, "off")
        /\ Truthful("NODE_DELETE", Alive \cup {"off"}, "deleted", TRUE)
        /\ Truthful("NODE_DELETE", Alive, "stuck", FALSE)
        /\ Truthful("NODE_DELETE", Alive \cup {"off"}, "off", FALSE)
    BY DEF Serving, Truthful
  <2>2. Some
    BY <1>2, <1>6, <2>1 DEF ServeDelete
  <2> QED
    BY <1>1, <2>2
<1>7. LabdType
  BY DEF StopInv, TypeOK
<1>8. CASE GuestBoots \/ Noise
  <2>1. LabdUnchanged /\ UNCHANGED <<guest, input>>
    BY <1>8 DEF GuestBoots, Noise
  <2>2. \E l \in Lines : l.type \notin {"response", "node-exit"} /\ output' = Append(output, l)
    BY <1>8, ReportIs DEF GuestBoots, Noise
  <2> QED
    BY <2>1, <2>2, QuietSerial DEF Down
<1>9. CASE \E n \in Nodes : NodeReady(n)
  <2>1. PICK n \in Nodes :
          /\ guest' = [guest EXCEPT ![n] = "running"] /\ guest[n] = "starting"
          /\ output' = Append(output, [type |-> "node-ready", of |-> n, ok |-> TRUE])
          /\ UNCHANGED input /\ LabdUnchanged
    BY <1>9 DEF NodeReady, Reports
  <2>2. \E l \in Lines : l.type \notin {"response", "node-exit"} /\ output' = Append(output, l)
    BY <2>1, ReportIs
  <2> QED
    BY <1>7, <2>1, <2>2, QuietSerial DEF LabdType, Down
<1>10. CASE \E n \in Nodes : NodeExit(n)
  BY <1>10, NodeExitSerial
<1>11. CASE \E n \in Nodes : Reap(n)
  <2>1. PICK n \in Nodes :
          /\ guest' = [guest EXCEPT ![n] = "off"] /\ guest[n] \in {"dying", "stuck"}
          /\ UNCHANGED <<input, output>> /\ LabdUnchanged
    BY <1>11 DEF Reap
  <2> QED
    BY <1>7, <2>1, QuietSerial DEF LabdType, Down
<1> QED
  BY <1>3, <1>4, <1>5, <1>6, <1>8, <1>9, <1>10, <1>11 DEF Labd

-----------------------------------------------------------------------------
LEMMA SerialInit ==
  ASSUME Init
  PROVE  SerialInv
<1>1. \A n \in Nodes : /\ rt[n] = "new" /\ guest[n] = "off" /\ n \notin active
                       /\ call["user"][n] = "idle" /\ call["release"][n] = "idle"
  BY DEF Init, Tracks
<1>2. OneCall /\ MachineOK
  BY DEF Init, OneCall, MachineOK
<1>3. \A n \in Nodes : ~Hot(n) /\ ~Asked(n) /\ ~ExitOnTheWay(n) /\ ~Deleted(n) /\ ~Leaving(n)
  BY <1>1 DEF Init, Hot, Down, Asked, ExitOnTheWay, Deleted, Leaving, Tracks, Unwound
<1>4. \A n \in Nodes : Placed(n)
  BY <1>1, <1>3 DEF Init, Placed, Up, Stopping
<1>5. \A n \in Nodes : Cold(n)
  BY <1>1, <1>3 DEF Init, Cold, Unwound
<1>6. \A n \in Nodes : Reached(n)
  BY <1>1, <1>3 DEF Reached
<1>7. OneStart
  BY DEF Init, OneStart
<1> QED
  BY <1>2, <1>4, <1>5, <1>6, <1>7 DEF SerialInv

(* The way the machine is used stays, and a timer that fired has fired.       *)
LEMMA UseStays ==
  ASSUME [Next]_vars
  PROVE  use' = use /\ (timeouts' = timeouts \/ timeouts' = timeouts + 1)
<1>1. ASSUME NEW n \in Nodes, Calls(n) PROVE UNCHANGED <<use, timeouts>>
  BY <1>1 DEF Calls, Initialize, Start, Stop, Dispose
<1>2. ASSUME NEW n \in Nodes, Continuations(n) PROVE UNCHANGED <<use, timeouts>>
  <2>1. CASE Initialized(n) \/ Booted(n) \/ Ready(n) \/ StartSettled(n) \/ LinkSettled(n) \/ UndoSettled(n)
    BY <2>1 DEF Initialized, Booted, Ready, StartSettled, LinkSettled, UndoSettled
  <2>2. CASE \E t \in Tracks : StopSettled(t, n) \/ Halted(t, n)
    BY <2>2 DEF StopSettled, Halted
  <2>3. CASE DisposeStopSettled(n) \/ DisposeHalted(n) \/ DeleteSettled(n)
    BY <2>3 DEF DisposeStopSettled, DisposeHalted, DeleteSettled
  <2> QED
    BY <1>2, <2>1, <2>2, <2>3 DEF Continuations
<1>3. ASSUME NEW n \in Nodes, Timers(n) \/ Bootstrapped(n) \/ Destroyed(n)
      PROVE  use' = use /\ (timeouts' = timeouts \/ timeouts' = timeouts + 1)
  BY <1>3 DEF Timers, BootTimeout, ReadyTimeout, Fire, Bootstrapped, Destroyed
<1>4. CASE Loaded \/ EmulatorReady \/ DownloadError \/ EmulatorStopped \/ Issue \/ ExitSignal
  BY <1>4 DEF Loaded, EmulatorReady, DownloadError, EmulatorStopped, Issue, ExitSignal
<1>5. CASE ControlTimeout
  BY <1>5 DEF ControlTimeout, Fire
<1>6. CASE AnyLine
  BY <1>6 DEF AnyLine, MalformedLine, MachineReadyLine, NodeReadyLine, NodeExitLine, ResponseLine, Arrives
<1>7. CASE Labd
  <2>1. LabdUnchanged
    BY <1>7 DEF Labd, GuestBoots, Noise, ServeStart, ServeLink, ServeStop, ServeDelete, Refuse, Serve,
                NodeReady, NodeExit, Reports, Reap
  <2> QED
    BY <2>1 DEF LabdUnchanged
<1> QED
  BY <1>1, <1>2, <1>3, <1>4, <1>5, <1>6, <1>7 DEF Next, vars

LEMMA SerialStep ==
  ASSUME StopInv, SerialOK, [Next]_vars
  PROVE  SerialOK'
<1> SUFFICES ASSUME Serial' PROVE SerialInv'
  BY DEF SerialOK
<1>1. Serial
  <2>1. timeouts \in Nat
    BY DEF StopInv, TypeOK, MachineType
  <2> QED
    BY <2>1, UseStays DEF Serial
<1>2. SerialInv
  BY <1>1 DEF SerialOK
<1>3. ASSUME NEW n \in Nodes, Calls(n) PROVE SerialInv'
  BY <1>1, <1>2, <1>3, InitializeSerial, StartSerial, StopSerial, DisposeSerial DEF Calls
<1>4. ASSUME NEW n \in Nodes, Continuations(n) PROVE SerialInv'
  BY <1>1, <1>2, <1>4, InitializedSerial, BootedSerial, ReadySerial, StartSettledSerial, LinkSettledSerial,
     UndoSettledSerial, StopSettledSerial, HaltedSerial, DisposeStopSettledSerial, DisposeGoesOnSerial
    DEF Continuations
<1>5. ASSUME NEW n \in Nodes, Timers(n) \/ Bootstrapped(n) \/ Destroyed(n) PROVE SerialInv'
  BY <1>1, <1>2, <1>5, BootTimeoutSerial, ReadySerial, BootstrappedSerial, DestroyedSerial DEF Timers
<1>6. CASE UNCHANGED vars
  BY <1>2, <1>6, StaySerial DEF vars, SameLine, SerialInv, MachineOK
<1> QED
  BY <1>1, <1>2, <1>3, <1>4, <1>5, <1>6, LoadedSerial, EmulatorStoppedSerial, IssueSerial, ControlTimeoutSerial,
     ExitSignalSerial, AnyLineSerial, LabdStepSerial DEF Next

LEMMA SerialAlways == Spec => [](StopInv /\ SerialOK)
<1>1. Init => StopInv /\ SerialOK
  BY StopInit, SerialInit DEF SerialOK
<1>2. StopInv /\ SerialOK /\ [Next]_vars => StopInv' /\ SerialOK'
  BY StopStep, SerialStep
<1> QED
  BY <1>1, <1>2, PTL DEF Spec

(* With one call at a time, as long as no timer fires early and the machine   *)
(* works: a node whose facade has stopped, failed or been disposed does not   *)
(* run in the guest, whatever of its start, its stop and its exit failed.     *)
THEOREM NoneRunsUnowned == Spec => []OnlyRunningRuns
<1>1. StopInv /\ SerialOK => OnlyRunningRuns
  <2> SUFFICES ASSUME StopInv, SerialOK, Serial, ~failed, NEW n \in Nodes,
                      rt[n] \in {"stopped", "failed", "disposed"}, Idle(n)
               PROVE  Down(n)
    BY DEF OnlyRunningRuns, Serial
  <2>1. NodeOK(n) /\ Cold(n) /\ call["user"][n] = "idle"
    BY Facts, SerialFacts DEF SerialOK, Idle
  <2> QED
    BY <2>1 DEF NodeOK, Cold, Hot, Begun, Starting
<1> QED
  BY <1>1, SerialAlways, PTL

(* With one call at a time, as long as no timer fires early, and if labd      *)
(* never gives up on stopping a node: a facade that runs has its node running *)
(* in a guest whose CPU runs, or is about to read that the node has exited.   *)
THEOREM RunningHasItsNode ==
  ASSUME \A u \in Uses : u.client = "serial" => "STOP_FAILED" \notin u.faults
  PROVE  Spec => []RunningIsUp
<1>1. StopInv /\ SerialOK => RunningIsUp
  <2> SUFFICES ASSUME StopInv, SerialOK, Serial, NEW n \in Nodes, rt[n] = "running", Idle(n)
               PROVE  emulator = "running" /\ (guest[n] = "running" \/ ExitOnTheWay(n))
    BY DEF RunningIsUp, Serial
  <2>1. use \in Uses
    BY DEF StopInv, TypeOK, MachineType
  <2>2. Works
    BY <2>1 DEF Serial, Works
  <2>3. Placed(n) /\ Reached(n)
    BY <2>2, SerialFacts DEF SerialOK
  <2> QED
    BY <2>3 DEF Placed, Reached, Live
<1> QED
  BY <1>1, SerialAlways, PTL
=============================================================================
