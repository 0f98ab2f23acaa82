-------------------------- MODULE Appliance_proofs --------------------------
(***************************************************************************)
(* The runtime of one appliance: what has to hold between the calls under  *)
(* way, controlTail and the guest for a read to answer with contents of    *)
(* the guest's file.  The first part says what each action changes of it;  *)
(* the second, from "What a step keeps of the chain", that the calls keep  *)
(* their order from controlTail to the guest and back, and so that a read  *)
(* answers with such contents.                                             *)
(***************************************************************************)
EXTENDS Appliance, TLAPS

Chained == {"apply", "link", "read", "collect"}
InTurn == {"sent", "ok", "error", "collected"}
OnTail == Chained \cup InTurn

Ats == {"none", "artifacts", "emulator", "ready", "pending", "answer", "stopping", "destroying"}
         \cup Chained \cup InTurn

CallType == [op : Ops \cup {"none"}, at : Ats, rt : 0 .. 2, path : Paths \cup {""},
             arg : Int, seen : SUBSET Int]

States == {"new", "initialized", "running", "stopped", "failed", "disposed"}

RuntimeType == [state : States,
                booted : BOOLEAN, files : [Paths -> Int], up : BOOLEAN, later : Seq(Paths),
                laterLink : BOOLEAN, tail : Seq(Calls \X Int),
                ready : {"pending", "resolved", "rejected"},
                pgo : BOOLEAN, ref : BOOLEAN, url : BOOLEAN]

RequestType == [do : {"APPLY", "LINK", "READ", "COLLECT_PGO"}, id : 0 .. MaxCalls,
                path : Paths \cup {""}, value : Int]

GuestType == [machine : {"none", "stopped", "running", "destroyed"},
              on : {"off", "booting", "up", "gone"},
              boot : [Paths -> Int], bootUp : BOOLEAN, files : [Paths -> Int], up : BOOLEAN,
              input : {<<>>} \cup (Paths \X Int), output : {<<>>} \cup (Paths \X Int),
              requests : Seq(RequestType)]

TypeOK == /\ plan \in Plans
          /\ left \in [Ops -> Int]
          /\ server \in {0} \cup Rts
          /\ calls \in [Calls -> CallType]
          /\ rt \in [Rts -> RuntimeType]
          /\ guest \in [Rts -> GuestType]
          /\ doubt \in [Rts -> BOOLEAN]

(* Where a call is agrees with what it asks, and on which runtime.          *)
Placed(op, at) ==
    /\ op = "initialize" => at \in {"artifacts", "emulator"}
    /\ op = "start" => at \in {"ready", "pending", "apply", "link", "sent", "ok", "error"}
    /\ op = "write" => at \in {"apply", "sent", "ok", "error"}
    /\ op = "link" => at \in {"link", "sent", "ok", "error"}
    /\ op = "read" => at \in {"read", "sent", "ok", "error", "answer"}
    /\ op = "collect" => at \in {"collect", "sent", "ok", "error", "collected"}
    /\ op = "stop" => at = "stopping"
    /\ op = "dispose" => at = "destroying"

CallOK(c) ==
    /\ Placed(calls[c].op, calls[c].at)
    /\ calls[c].op = "none" => calls[c] = Idle
    /\ calls[c].op # "none" => calls[c].rt \in Rts
    /\ calls[c].op \in {"write", "read"} \/ calls[c].at = "apply" => calls[c].path \in Paths
    /\ calls[c].op = "start" => calls[c].arg >= 1

CallsOK == \A c \in Calls : CallOK(c)

(* The tail holds the calls that wait for their turn, each of them once;   *)
(* the first has it.                                                       *)
Turn(t, i) == t[i][1]

TailOK == /\ \A r \in Rts : \A i \in DOMAIN rt[r].tail :
               /\ calls[Turn(rt[r].tail, i)].rt = r
               /\ calls[Turn(rt[r].tail, i)].at \in OnTail
               /\ \A j \in DOMAIN rt[r].tail : Turn(rt[r].tail, i) = Turn(rt[r].tail, j) => i = j
          /\ \A c \in Calls : calls[c].at \in OnTail =>
               \E i \in DOMAIN rt[calls[c].rt].tail : Turn(rt[calls[c].rt].tail, i) = c
          /\ \A c \in Calls : calls[c].at \in InTurn => Turn(rt[calls[c].rt].tail, 1) = c

(* The value a link or a write carries on the tail is the call's own.       *)
ValuesOK == \A r \in Rts : \A i \in DOMAIN rt[r].tail :
    LET c == Turn(rt[r].tail, i) IN
      calls[c].op \in {"write", "link"} => rt[r].tail[i][2] = calls[c].arg

(* What the request of a call that waits for the guest says.                *)
Asks(call, q, input) ==
    /\ call.op = "write" => q.do = "APPLY" /\ input = <<call.path, call.arg>>
    /\ call.op = "link" => q.do = "LINK" /\ q.value = call.arg
    /\ call.op = "read" => q.do = "READ" /\ q.path = call.path
    /\ call.op = "collect" => q.do = "COLLECT_PGO"

(* A request whose waiter is still there is the last on the line.           *)
LineOK == /\ \A r \in Rts : \A i \in DOMAIN guest[r].requests :
               LET q == guest[r].requests[i] IN
                 /\ q.do = "APPLY" => guest[r].input # <<>>
                 /\ q.do = "READ" => q.path \in Paths
                 /\ q.id # 0 => /\ i = Len(guest[r].requests)
                                /\ calls[q.id].rt = r
                                /\ calls[q.id].at = "sent"
          /\ \A c \in Calls : calls[c].at = "sent" =>
               LET line == guest[calls[c].rt].requests IN
                 line # <<>> /\ line[Len(line)].id = c /\ Asks(calls[c], line[Len(line)], guest[calls[c].rt].input)
          /\ \A c \in Calls : calls[c].at \in {"ok", "collected"} =>
               guest[calls[c].rt].requests = <<>>

BootOK == \A r \in Rts :
    /\ rt[r].booted => rt[r].ready = "resolved"
    /\ rt[r].ready = "resolved" => guest[r].on \in {"up", "gone"}

ReadOK == \A c \in Calls : calls[c].op = "read" =>
    /\ rt[calls[c].rt].booted
    /\ calls[c].at # "answer" => guest[calls[c].rt].files[calls[c].path] \in calls[c].seen
    /\ calls[c].at = "ok" =>
         guest[calls[c].rt].output = <<calls[c].path, guest[calls[c].rt].files[calls[c].path]>>
    /\ calls[c].at = "answer" => calls[c].arg \in calls[c].seen

ChainInv == TypeOK /\ CallsOK /\ TailOK /\ ValuesOK /\ LineOK /\ BootOK /\ ReadOK

-----------------------------------------------------------------------------
(* What is left alone when the fields F of a record change.               *)
RtSame(x, y, F) ==
    /\ "state" \in F \/ y.state = x.state
    /\ "booted" \in F \/ y.booted = x.booted
    /\ "files" \in F \/ y.files = x.files
    /\ "up" \in F \/ y.up = x.up
    /\ "later" \in F \/ y.later = x.later
    /\ "laterLink" \in F \/ y.laterLink = x.laterLink
    /\ "tail" \in F \/ y.tail = x.tail
    /\ "ready" \in F \/ y.ready = x.ready
    /\ "pgo" \in F \/ y.pgo = x.pgo
    /\ "ref" \in F \/ y.ref = x.ref
    /\ "url" \in F \/ y.url = x.url

GuestSame(x, y, F) ==
    /\ "machine" \in F \/ y.machine = x.machine
    /\ "on" \in F \/ y.on = x.on
    /\ "boot" \in F \/ y.boot = x.boot
    /\ "bootUp" \in F \/ y.bootUp = x.bootUp
    /\ "files" \in F \/ y.files = x.files
    /\ "up" \in F \/ y.up = x.up
    /\ "input" \in F \/ y.input = x.input
    /\ "output" \in F \/ y.output = x.output
    /\ "requests" \in F \/ y.requests = x.requests

CallSame(x, y, F) ==
    /\ "op" \in F \/ y.op = x.op
    /\ "at" \in F \/ y.at = x.at
    /\ "rt" \in F \/ y.rt = x.rt
    /\ "path" \in F \/ y.path = x.path
    /\ "arg" \in F \/ y.arg = x.arg
    /\ "seen" \in F \/ y.seen = x.seen

(* A runtime after its field state is set. *)
LEMMA RtState ==
  ASSUME NEW x \in RuntimeType, NEW v \in States, NEW y, y = [x EXCEPT !.state = v]
  PROVE  y \in RuntimeType /\ y.state = v /\ RtSame(x, y, {"state"})
BY ZenonT(30) DEF RuntimeType, RtSame

(* A runtime after its field booted is set. *)
LEMMA RtBooted ==
  ASSUME NEW x \in RuntimeType, NEW v \in BOOLEAN, NEW y, y = [x EXCEPT !.booted = v]
  PROVE  y \in RuntimeType /\ y.booted = v /\ RtSame(x, y, {"booted"})
BY ZenonT(30) DEF RuntimeType, RtSame

(* A runtime after its field files is set. *)
LEMMA RtFiles ==
  ASSUME NEW x \in RuntimeType, NEW v \in [Paths -> Int], NEW y, y = [x EXCEPT !.files = v]
  PROVE  y \in RuntimeType /\ y.files = v /\ RtSame(x, y, {"files"})
BY ZenonT(30) DEF RuntimeType, RtSame

(* A runtime after its field up is set. *)
LEMMA RtUp ==
  ASSUME NEW x \in RuntimeType, NEW v \in BOOLEAN, NEW y, y = [x EXCEPT !.up = v]
  PROVE  y \in RuntimeType /\ y.up = v /\ RtSame(x, y, {"up"})
BY ZenonT(30) DEF RuntimeType, RtSame

(* A runtime after its field later is set. *)
LEMMA RtLater ==
  ASSUME NEW x \in RuntimeType, NEW v \in Seq(Paths), NEW y, y = [x EXCEPT !.later = v]
  PROVE  y \in RuntimeType /\ y.later = v /\ RtSame(x, y, {"later"})
BY ZenonT(30) DEF RuntimeType, RtSame

(* A runtime after its field laterLink is set. *)
LEMMA RtLaterLink ==
  ASSUME NEW x \in RuntimeType, NEW v \in BOOLEAN, NEW y, y = [x EXCEPT !.laterLink = v]
  PROVE  y \in RuntimeType /\ y.laterLink = v /\ RtSame(x, y, {"laterLink"})
BY ZenonT(30) DEF RuntimeType, RtSame

(* A runtime after its field tail is set. *)
LEMMA RtTail ==
  ASSUME NEW x \in RuntimeType, NEW v \in Seq(Calls \X Int), NEW y, y = [x EXCEPT !.tail = v]
  PROVE  y \in RuntimeType /\ y.tail = v /\ RtSame(x, y, {"tail"})
BY ZenonT(30) DEF RuntimeType, RtSame

(* A runtime after its field ready is set. *)
LEMMA RtReady ==
  ASSUME NEW x \in RuntimeType, NEW v \in {"pending", "resolved", "rejected"}, NEW y, y = [x EXCEPT !.ready = v]
  PROVE  y \in RuntimeType /\ y.ready = v /\ RtSame(x, y, {"ready"})
BY ZenonT(30) DEF RuntimeType, RtSame

(* A runtime after its field pgo is set. *)
LEMMA RtPgo ==
  ASSUME NEW x \in RuntimeType, NEW v \in BOOLEAN, NEW y, y = [x EXCEPT !.pgo = v]
  PROVE  y \in RuntimeType /\ y.pgo = v /\ RtSame(x, y, {"pgo"})
BY ZenonT(30) DEF RuntimeType, RtSame

(* A runtime after its field ref is set. *)
LEMMA RtRef ==
  ASSUME NEW x \in RuntimeType, NEW v \in BOOLEAN, NEW y, y = [x EXCEPT !.ref = v]
  PROVE  y \in RuntimeType /\ y.ref = v /\ RtSame(x, y, {"ref"})
BY ZenonT(30) DEF RuntimeType, RtSame

(* A runtime after its field url is set. *)
LEMMA RtUrl ==
  ASSUME NEW x \in RuntimeType, NEW v \in BOOLEAN, NEW y, y = [x EXCEPT !.url = v]
  PROVE  y \in RuntimeType /\ y.url = v /\ RtSame(x, y, {"url"})
BY ZenonT(30) DEF RuntimeType, RtSame

(* A guest after its field machine is set. *)
LEMMA GuestMachine ==
  ASSUME NEW x \in GuestType, NEW v \in {"none", "stopped", "running", "destroyed"}, NEW y, y = [x EXCEPT !.machine = v]
  PROVE  y \in GuestType /\ y.machine = v /\ GuestSame(x, y, {"machine"})
BY ZenonT(30) DEF GuestType, GuestSame

(* A guest after its field on is set. *)
LEMMA GuestOn ==
  ASSUME NEW x \in GuestType, NEW v \in {"off", "booting", "up", "gone"}, NEW y, y = [x EXCEPT !.on = v]
  PROVE  y \in GuestType /\ y.on = v /\ GuestSame(x, y, {"on"})
BY ZenonT(30) DEF GuestType, GuestSame

(* A guest after its field boot is set. *)
LEMMA GuestBoot ==
  ASSUME NEW x \in GuestType, NEW v \in [Paths -> Int], NEW y, y = [x EXCEPT !.boot = v]
  PROVE  y \in GuestType /\ y.boot = v /\ GuestSame(x, y, {"boot"})
BY ZenonT(30) DEF GuestType, GuestSame

(* A guest after its field bootUp is set. *)
LEMMA GuestBootUp ==
  ASSUME NEW x \in GuestType, NEW v \in BOOLEAN, NEW y, y = [x EXCEPT !.bootUp = v]
  PROVE  y \in GuestType /\ y.bootUp = v /\ GuestSame(x, y, {"bootUp"})
BY ZenonT(30) DEF GuestType, GuestSame

(* A guest after its field files is set. *)
LEMMA GuestFiles ==
  ASSUME NEW x \in GuestType, NEW v \in [Paths -> Int], NEW y, y = [x EXCEPT !.files = v]
  PROVE  y \in GuestType /\ y.files = v /\ GuestSame(x, y, {"files"})
BY ZenonT(30) DEF GuestType, GuestSame

(* A guest after its field up is set. *)
LEMMA GuestUp ==
  ASSUME NEW x \in GuestType, NEW v \in BOOLEAN, NEW y, y = [x EXCEPT !.up = v]
  PROVE  y \in GuestType /\ y.up = v /\ GuestSame(x, y, {"up"})
BY ZenonT(30) DEF GuestType, GuestSame

(* A guest after its field input is set. *)
LEMMA GuestInput ==
  ASSUME NEW x \in GuestType, NEW v \in {<<>>} \cup (Paths \X Int), NEW y, y = [x EXCEPT !.input = v]
  PROVE  y \in GuestType /\ y.input = v /\ GuestSame(x, y, {"input"})
BY ZenonT(30) DEF GuestType, GuestSame

(* A guest after its field output is set. *)
LEMMA GuestOutput ==
  ASSUME NEW x \in GuestType, NEW v \in {<<>>} \cup (Paths \X Int), NEW y, y = [x EXCEPT !.output = v]
  PROVE  y \in GuestType /\ y.output = v /\ GuestSame(x, y, {"output"})
BY ZenonT(30) DEF GuestType, GuestSame

(* A guest after its field requests is set. *)
LEMMA GuestRequests ==
  ASSUME NEW x \in GuestType, NEW v \in Seq(RequestType), NEW y, y = [x EXCEPT !.requests = v]
  PROVE  y \in GuestType /\ y.requests = v /\ GuestSame(x, y, {"requests"})
BY ZenonT(30) DEF GuestType, GuestSame

(* A call after its field at is set. *)
LEMMA CallAt ==
  ASSUME NEW x \in CallType, NEW v \in Ats, NEW y, y = [x EXCEPT !.at = v]
  PROVE  y \in CallType /\ y.at = v /\ CallSame(x, y, {"at"})
BY ZenonT(30) DEF CallType, CallSame

(* A call after its field path is set. *)
LEMMA CallPath ==
  ASSUME NEW x \in CallType, NEW v \in Paths \cup {""}, NEW y, y = [x EXCEPT !.path = v]
  PROVE  y \in CallType /\ y.path = v /\ CallSame(x, y, {"path"})
BY ZenonT(30) DEF CallType, CallSame

(* A call after its field arg is set. *)
LEMMA CallArg ==
  ASSUME NEW x \in CallType, NEW v \in Int, NEW y, y = [x EXCEPT !.arg = v]
  PROVE  y \in CallType /\ y.arg = v /\ CallSame(x, y, {"arg"})
BY ZenonT(30) DEF CallType, CallSame

(* A call after its field seen is set. *)
LEMMA CallSeen ==
  ASSUME NEW x \in CallType, NEW v \in SUBSET Int, NEW y, y = [x EXCEPT !.seen = v]
  PROVE  y \in CallType /\ y.seen = v /\ CallSame(x, y, {"seen"})
BY ZenonT(30) DEF CallType, CallSame
-----------------------------------------------------------------------------
(* Sequences.                                                              *)
LEMMA AppendIs ==
  ASSUME NEW S, NEW s \in Seq(S), NEW x \in S
  PROVE  /\ Append(s, x) \in Seq(S) /\ Len(s) \in Nat
         /\ DOMAIN s = 1 .. Len(s) /\ DOMAIN Append(s, x) = 1 .. Len(s) + 1
         /\ Len(Append(s, x)) = Len(s) + 1
         /\ \A k \in 1 .. Len(s) : Append(s, x)[k] = s[k]
         /\ Append(s, x)[Len(s) + 1] = x
OBVIOUS

(* The sequence left when the first element is taken. *)
LEMMA TailIs ==
  ASSUME NEW S, NEW s \in Seq(S), s # <<>>
  PROVE  /\ Tail(s) \in Seq(S) /\ Len(s) \in Nat /\ Len(s) >= 1 /\ Len(Tail(s)) = Len(s) - 1
         /\ DOMAIN s = 1 .. Len(s) /\ DOMAIN Tail(s) = 1 .. Len(s) - 1
         /\ \A k \in 1 .. Len(s) - 1 : Tail(s)[k] = s[k + 1]
         /\ Head(s) = s[1]
OBVIOUS

(* Who waits where: the types that every step below starts from.           *)
LEMMA Types ==
  ASSUME TypeOK
  PROVE  /\ \A r \in Rts : /\ rt[r].tail \in Seq(Calls \X Int) /\ DOMAIN rt[r].tail = 1 .. Len(rt[r].tail)
                           /\ Len(rt[r].tail) \in Nat
                           /\ \A i \in DOMAIN rt[r].tail : Turn(rt[r].tail, i) \in Calls /\ rt[r].tail[i][2] \in Int
                           /\ rt[r].files \in [Paths -> Int] /\ rt[r].later \in Seq(Paths)
                           /\ rt[r].up \in BOOLEAN /\ rt[r].booted \in BOOLEAN
         /\ \A r \in Rts : /\ guest[r].requests \in Seq(RequestType)
                           /\ guest[r].files \in [Paths -> Int] /\ guest[r].up \in BOOLEAN
                           /\ guest[r].boot \in [Paths -> Int] /\ guest[r].bootUp \in BOOLEAN
         /\ \A c \in Calls : /\ calls[c].op \in Ops \cup {"none"} /\ calls[c].at \in Ats
                             /\ calls[c].rt \in 0 .. 2 /\ calls[c].path \in Paths \cup {""}
                             /\ calls[c].arg \in Int /\ calls[c].seen \in SUBSET Int
<1>1. ASSUME NEW r \in Rts
      PROVE  /\ rt[r].tail \in Seq(Calls \X Int) /\ rt[r].files \in [Paths -> Int]
             /\ rt[r].later \in Seq(Paths) /\ rt[r].up \in BOOLEAN /\ rt[r].booted \in BOOLEAN
  <2>1. rt[r] \in RuntimeType BY DEF TypeOK
  <2> QED BY <2>1, Zenon DEF RuntimeType
<1>2. ASSUME NEW r \in Rts
      PROVE  /\ DOMAIN rt[r].tail = 1 .. Len(rt[r].tail) /\ Len(rt[r].tail) \in Nat
             /\ \A i \in DOMAIN rt[r].tail : Turn(rt[r].tail, i) \in Calls /\ rt[r].tail[i][2] \in Int
  <2>1. rt[r].tail \in Seq(Calls \X Int) BY <1>1
  <2> QED BY <2>1 DEF Turn
<1>3. ASSUME NEW r \in Rts
      PROVE  /\ guest[r].requests \in Seq(RequestType)
             /\ guest[r].files \in [Paths -> Int] /\ guest[r].up \in BOOLEAN
             /\ guest[r].boot \in [Paths -> Int] /\ guest[r].bootUp \in BOOLEAN
  <2>1. guest[r] \in GuestType BY DEF TypeOK
  <2> QED BY <2>1, Zenon DEF GuestType
<1>4. ASSUME NEW c \in Calls
      PROVE  /\ calls[c].op \in Ops \cup {"none"} /\ calls[c].at \in Ats
             /\ calls[c].rt \in 0 .. 2 /\ calls[c].path \in Paths \cup {""}
             /\ calls[c].arg \in Int /\ calls[c].seen \in SUBSET Int
  <2>1. calls[c] \in CallType BY DEF TypeOK
  <2> QED BY <2>1, Zenon DEF CallType
<1> QED BY <1>1, <1>2, <1>3, <1>4, Zenon

(* A call on controlTail is one of a runtime that exists. *)
LEMMA InFlightIs ==
  ASSUME CallsOK, NEW c \in Calls, calls[c].at \in OnTail
  PROVE  calls[c].rt \in Rts /\ calls[c].op # "none"
<1>1. Idle.at = "none" BY DEF Idle
<1>2. calls[c].at # "none" BY DEF OnTail, Chained, InTurn
<1> QED BY <1>1, <1>2 DEF CallsOK, CallOK

-----------------------------------------------------------------------------
OthersKept(c) == \A d \in Calls : d # c => calls'[d] = calls[d]

(* What each action changes.                                               *)
RtChanges(r, F) == /\ rt' \in [Rts -> RuntimeType]
                   /\ \A s \in Rts : s # r => rt'[s] = rt[s]
                   /\ RtSame(rt[r], rt'[r], F)
GuestChanges(r, F) == /\ guest' \in [Rts -> GuestType]
                      /\ \A s \in Rts : s # r => guest'[s] = guest[s]
                      /\ GuestSame(guest[r], guest'[r], F)
CallChanges(c, F) == /\ calls' \in [Calls -> CallType]
                     /\ OthersKept(c)
                     /\ CallSame(calls[c], calls'[c], F)

(* The fields of a call written out. *)
LEMMA CallFields ==
  ASSUME NEW op, NEW at, NEW r, NEW path, NEW arg, NEW seen, NEW x,
         x = [op |-> op, at |-> at, rt |-> r, path |-> path, arg |-> arg, seen |-> seen]
  PROVE  x.op = op /\ x.at = at /\ x.rt = r /\ x.path = path /\ x.arg = arg /\ x.seen = seen
BY Zenon

(* No call is a call of the right type. *)
LEMMA IdleType == Idle \in CallType
BY DEF Idle, CallType, Ats

(* controlTail with one call more has its type. *)
LEMMA QueueType ==
  ASSUME ChainInv, NEW r \in Rts, NEW c \in Calls, NEW v \in Int
  PROVE  Append(rt[r].tail, <<c, v>>) \in Seq(Calls \X Int)
<1>1. rt[r].tail \in Seq(Calls \X Int) BY Types, Zenon DEF ChainInv
<1> QED BY <1>1

(* The same for a call that carries the state of an interface. *)
LEMMA FlagType ==
  ASSUME ChainInv, NEW r \in Rts, NEW c \in Calls, NEW b \in BOOLEAN
  PROVE  Append(rt[r].tail, <<c, IF b THEN 1 ELSE 0>>) \in Seq(Calls \X Int)
<1>1. (IF b THEN 1 ELSE 0) \in Int OBVIOUS
<1> QED BY <1>1, QueueType

(* The pending file that a start has come to, and its contents. *)
LEMMA PendingFile ==
  ASSUME ChainInv, NEW c \in Calls, calls[c].op = "start", calls[c].arg <= Len(rt[calls[c].rt].later)
  PROVE  LET r == calls[c].rt IN
         /\ rt[r].later[calls[c].arg] \in Paths
         /\ rt[r].files[rt[r].later[calls[c].arg]] \in Int
<1> DEFINE r == calls[c].rt
           l == rt[r].later
<1>1. TypeOK /\ CallsOK BY DEF ChainInv
<1>2. r \in Rts /\ calls[c].arg >= 1 BY <1>1 DEF CallsOK, CallOK
<1>3. l \in Seq(Paths) /\ rt[r].files \in [Paths -> Int] /\ calls[c].arg \in Int
  BY <1>1, <1>2, Types, Zenon
<1>4. calls[c].arg \in 1 .. Len(l)
  <2> HIDE DEF l, r
  <2>1. Len(l) \in Nat BY <1>3
  <2>2. calls[c].arg <= Len(l) BY DEF l, r
  <2> QED BY <2>1, <2>2, <1>2, <1>3
<1>5. l[calls[c].arg] \in Paths
  <2> HIDE DEF l, r
  <2> QED BY <1>3, <1>4
<1> QED BY <1>3, <1>5

(* The types of a runtime's fields. *)
LEMMA RtParts ==
  ASSUME NEW x \in RuntimeType
  PROVE  /\ x.state \in States /\ x.booted \in BOOLEAN /\ x.files \in [Paths -> Int] /\ x.up \in BOOLEAN
         /\ x.later \in Seq(Paths) /\ x.laterLink \in BOOLEAN /\ x.tail \in Seq(Calls \X Int)
         /\ x.ready \in {"pending", "resolved", "rejected"}
         /\ x.pgo \in BOOLEAN /\ x.ref \in BOOLEAN /\ x.url \in BOOLEAN
BY Zenon DEF RuntimeType

(* A start may count on. *)
LEMMA CallArgType ==
  ASSUME NEW k \in CallType
  PROVE  k.arg + 1 \in Int
<1>1. k.arg \in Int BY Zenon DEF CallType
<1> QED BY <1>1

(* The types of a guest's fields. *)
LEMMA GuestParts ==
  ASSUME NEW g \in GuestType
  PROVE  /\ g.machine \in {"none", "stopped", "running", "destroyed"}
         /\ g.on \in {"off", "booting", "up", "gone"}
         /\ g.boot \in [Paths -> Int] /\ g.bootUp \in BOOLEAN
         /\ g.files \in [Paths -> Int] /\ g.up \in BOOLEAN
         /\ g.input \in {<<>>} \cup (Paths \X Int) /\ g.output \in {<<>>} \cup (Paths \X Int)
         /\ g.requests \in Seq(RequestType)
BY Zenon DEF GuestType

(* The types of a waiter. *)
LEMMA RequestOf ==
  ASSUME ChainInv, NEW r \in Rts, NEW i \in DOMAIN guest[r].requests
  PROVE  /\ guest[r].requests[i] \in RequestType /\ guest[r].requests[i].id \in {0} \cup Calls
         /\ guest[r].requests[i].do \in {"APPLY", "LINK", "READ", "COLLECT_PGO"}
<1>1. guest[r].requests \in Seq(RequestType) BY Types, Zenon DEF ChainInv
<1>2. guest[r].requests[i] \in RequestType BY <1>1
<1>3. guest[r].requests[i].id \in 0 .. MaxCalls /\ guest[r].requests[i].do \in {"APPLY", "LINK", "READ", "COLLECT_PGO"}
  BY <1>2, Zenon DEF RequestType
<1> QED BY <1>2, <1>3, PlansAssumption DEF Calls

(* A guest that applies has an archive, a guest that reads has a path. *)
LEMMA InputIs ==
  ASSUME ChainInv, NEW r \in Rts, guest[r].requests # <<>>
  PROVE  /\ Head(guest[r].requests).do = "APPLY" => guest[r].input \in Paths \X Int
         /\ Head(guest[r].requests).do = "READ" => Head(guest[r].requests).path \in Paths
<1>1. guest[r].requests \in Seq(RequestType) /\ guest[r] \in GuestType BY Types, Zenon
     DEF ChainInv, TypeOK
<1>2. Head(guest[r].requests) = guest[r].requests[1] /\ 1 \in DOMAIN guest[r].requests
  BY <1>1
<1>3. guest[r].input \in {<<>>} \cup (Paths \X Int) BY <1>1, GuestParts
<1>4. LET q == guest[r].requests[1] IN
        /\ q.do = "APPLY" => guest[r].input # <<>>
        /\ q.do = "READ" => q.path \in Paths
  BY <1>2 DEF ChainInv, LineOK
<1> QED BY <1>2, <1>3, <1>4

(* What export gives is a value. *)
LEMMA ExportedType ==
  ASSUME TypeOK, NEW c \in Calls, calls[c].rt \in Rts
  PROVE  Exported(c) \in Int
<1>1. guest[calls[c].rt] \in GuestType BY DEF TypeOK
<1>2. guest[calls[c].rt].output \in {<<>>} \cup (Paths \X Int) BY <1>1, GuestParts
<1> QED BY <1>2 DEF Exported

(* The waiters that are forgotten, and nothing else.                        *)
LEMMA ForgottenIs ==
  ASSUME TypeOK, NEW r \in Rts, NEW who
  PROVE  LET line == guest[r].requests
             rest == Forgotten(r, who)
         IN  /\ rest \in Seq(RequestType) /\ DOMAIN rest = DOMAIN line /\ Len(rest) = Len(line)
             /\ rest = <<>> <=> line = <<>>
             /\ \A i \in DOMAIN line :
                  /\ rest[i].do = line[i].do /\ rest[i].path = line[i].path /\ rest[i].value = line[i].value
                  /\ rest[i].id = IF line[i].id \in who THEN 0 ELSE line[i].id
<1> DEFINE line == guest[r].requests
           rest == Forgotten(r, who)
<1>1. line \in Seq(RequestType) BY Types, Zenon
<1>2. rest = [i \in DOMAIN line |-> IF line[i].id \in who THEN [line[i] EXCEPT !.id = 0] ELSE line[i]]
  BY DEF Forgotten
<1> HIDE DEF line, rest
<1>3. ASSUME NEW q \in RequestType, NEW p, p = [q EXCEPT !.id = 0]
      PROVE  p \in RequestType /\ p.do = q.do /\ p.path = q.path /\ p.value = q.value /\ p.id = 0
  <2>1. 0 \in 0 .. MaxCalls BY PlansAssumption
  <2> QED BY <2>1, <1>3, Zenon DEF RequestType
<1>4. \A i \in DOMAIN line : line[i] \in RequestType BY <1>1
<1>5. \A i \in DOMAIN line :
        /\ rest[i] \in RequestType
        /\ rest[i].do = line[i].do /\ rest[i].path = line[i].path /\ rest[i].value = line[i].value
        /\ rest[i].id = IF line[i].id \in who THEN 0 ELSE line[i].id
  BY <1>2, <1>3, <1>4
<1>6. DOMAIN rest = DOMAIN line BY <1>2
<1>7. DOMAIN line = 1 .. Len(line) /\ Len(line) \in Nat BY <1>1
<1>8. rest = [i \in 1 .. Len(line) |-> rest[i]] BY <1>2, <1>7
<1>9. rest \in Seq(RequestType) BY <1>5, <1>6, <1>7, <1>8
<1>10. Len(rest) = Len(line) BY <1>6, <1>7, <1>9
<1>11. rest = <<>> <=> line = <<>> BY <1>1, <1>9, <1>10
<1> QED BY <1>5, <1>6, <1>9, <1>10, <1>11 DEF line, rest

(* A runtime with a call on controlTail has a first one. *)
LEMMA TailsOf ==
  ASSUME ChainInv, NEW r \in Rts
  PROVE  /\ rt[r].tail \in Seq(Calls \X Int)
         /\ \A c \in Calls : calls[c].rt = r /\ calls[c].at \in OnTail => rt[r].tail # <<>>
<1>1. rt[r].tail \in Seq(Calls \X Int) BY Types, Zenon DEF ChainInv
<1>2. ASSUME NEW c \in Calls, calls[c].rt = r, calls[c].at \in OnTail PROVE rt[r].tail # <<>>
  <2>1. \E i \in DOMAIN rt[r].tail : Turn(rt[r].tail, i) = c
    BY <1>2 DEF ChainInv, TailOK
  <2> QED BY <2>1, <1>1
<1> QED BY <1>1, <1>2

(* controlTail without its first call has its type. *)
LEMMA SettledType ==
  ASSUME ChainInv, NEW c \in Calls, calls[c].at \in OnTail, calls[c].rt \in Rts
  PROVE  Tail(rt[calls[c].rt].tail) \in Seq(Calls \X Int)
<1>1. rt[calls[c].rt].tail \in Seq(Calls \X Int) /\ rt[calls[c].rt].tail # <<>>
  BY TailsOf
<1> QED BY <1>1, TailIs

(* The request made of a call on controlTail, and the waiter it leaves. *)
LEMMA RequestIs ==
  ASSUME ChainInv, NEW c \in Calls, calls[c].at \in Chained, calls[c].rt \in Rts
  PROVE  LET t == rt[calls[c].rt].tail
             q == Request(c, t[1][2])
         IN  /\ q \in RequestType /\ t[1][2] \in Int /\ Head(t) = t[1]
             /\ q.id = c
             /\ calls[c].at = "apply" => q.do = "APPLY"
             /\ calls[c].at = "link" => q.do = "LINK" /\ q.value = t[1][2]
             /\ calls[c].at = "read" => q.do = "READ" /\ q.path = calls[c].path
             /\ calls[c].at = "collect" => q.do = "COLLECT_PGO"
<1> DEFINE t == rt[calls[c].rt].tail
<1>1. t \in Seq(Calls \X Int) /\ t # <<>> BY TailsOf DEF OnTail
<1>2. t[1][2] \in Int /\ Head(t) = t[1] BY <1>1
<1> DEFINE v == t[1][2]
<1> HIDE DEF v, t
<1>3. calls[c].path \in Paths \cup {""} BY Types, Zenon DEF ChainInv
<1>4. c \in 0 .. MaxCalls BY PlansAssumption DEF Calls
<1>5. "" \in Paths \cup {""} BY Zenon
<1>10. 0 \in Int OBVIOUS
<1>11. \A do \in {"APPLY", "LINK", "READ", "COLLECT_PGO"}, p \in Paths \cup {""}, n \in Int :
         [do |-> do, id |-> c, path |-> p, value |-> n] \in RequestType
  BY <1>4, Zenon DEF RequestType
<1>12. v \in Int BY <1>2 DEF v
<1> DEFINE q == Request(c, v)
           Said == /\ q \in RequestType /\ q.id = c
                   /\ calls[c].at = "apply" => q.do = "APPLY"
                   /\ calls[c].at = "link" => q.do = "LINK" /\ q.value = v
                   /\ calls[c].at = "read" => q.do = "READ" /\ q.path = calls[c].path
                   /\ calls[c].at = "collect" => q.do = "COLLECT_PGO"
<1>6. ASSUME calls[c].at = "apply" PROVE Said
  <2>1. q = [do |-> "APPLY", id |-> c, path |-> "", value |-> 0] BY <1>6 DEF Request
  <2>2. q \in RequestType BY <2>1, <1>3, <1>5, <1>10, <1>11, <1>12, Zenon
  <2> HIDE DEF q
  <2> QED BY <2>1, <2>2, <1>6, Zenon
<1>7. ASSUME calls[c].at = "link" PROVE Said
  <2>1. q = [do |-> "LINK", id |-> c, path |-> "", value |-> v] BY <1>7 DEF Request
  <2>2. q \in RequestType BY <2>1, <1>3, <1>5, <1>10, <1>11, <1>12, Zenon
  <2> HIDE DEF q
  <2> QED BY <2>1, <2>2, <1>7, Zenon
<1>8. ASSUME calls[c].at = "read" PROVE Said
  <2>1. q = [do |-> "READ", id |-> c, path |-> calls[c].path, value |-> 0] BY <1>8 DEF Request
  <2>2. q \in RequestType BY <2>1, <1>3, <1>5, <1>10, <1>11, <1>12, Zenon
  <2> HIDE DEF q
  <2> QED BY <2>1, <2>2, <1>8
<1>9. ASSUME calls[c].at = "collect" PROVE Said
  <2>1. q = [do |-> "COLLECT_PGO", id |-> c, path |-> "", value |-> 0] BY <1>9 DEF Request
  <2>2. q \in RequestType BY <2>1, <1>3, <1>5, <1>10, <1>11, <1>12, Zenon
  <2> HIDE DEF q
  <2> QED BY <2>1, <2>2, <1>9, Zenon
<1>13. Said BY <1>6, <1>7, <1>8, <1>9 DEF Chained
<1> HIDE DEF q
<1> QED BY <1>13, <1>2 DEF q, v, t

(* What InitLoaded changes. *)
LEMMA InitLoadedEffect ==
  ASSUME ChainInv, NEW c \in Calls, InitLoaded(c)
  PROVE  LET r == calls[c].rt IN
         /\ r \in Rts
         /\ RtChanges(r, {"url", "ref"})
         /\ rt'[r].url = TRUE
         /\ rt'[r].ref = TRUE
         /\ GuestChanges(r, {"machine"})
         /\ guest'[r].machine = "stopped"
         /\ CallChanges(c, {"at"})
         /\ calls'[c].at = "emulator"
         /\ UNCHANGED <<plan, left, server, doubt>>
<1> DEFINE r == calls[c].rt
<1>i. TypeOK /\ CallsOK BY DEF ChainInv
<1>a. InitLoaded(c) OBVIOUS
<1>r0. r \in Rts
  BY <1>i, <1>a DEF CallsOK, CallOK, Calling, InitLoaded
<1>r. r \in Rts /\ c \in Calls BY <1>r0
<1> DEFINE x == rt[r]
           y1 == [x EXCEPT !.url = TRUE]
           y2 == [y1 EXCEPT !.ref = TRUE]
<1>y0. x \in RuntimeType BY <1>r, <1>i DEF TypeOK
<1>ye. rt' = [rt EXCEPT ![r] = y2]
  BY <1>a DEF InitLoaded
<1> HIDE DEF x
<1>y1. y1 \in RuntimeType /\ y1.url = TRUE /\ RtSame(x, y1, {"url"})
  BY <1>y0, RtUrl
<1> HIDE DEF y1
<1>y2. y2 \in RuntimeType /\ y2.ref = TRUE /\ RtSame(y1, y2, {"ref"})
  BY <1>y1, RtRef
<1> HIDE DEF y2
<1>ys. RtSame(x, y2, {"url", "ref"}) /\ y2.url = TRUE
  BY <1>y1, <1>y2 DEF RtSame
<1>yf. rt' \in [Rts -> RuntimeType] /\ rt'[r] = y2 /\ \A s \in Rts : s # r => rt'[s] = rt[s]
  BY <1>ye, <1>r, <1>y2, <1>i DEF TypeOK
<1>y. RtChanges(r, {"url", "ref"}) /\ rt'[r].url = TRUE /\ rt'[r].ref = TRUE
  BY <1>y2, <1>ys, <1>yf DEF x, RtChanges
<1> DEFINE g == guest[r]
           h1 == [g EXCEPT !.machine = "stopped"]
<1>h0. g \in GuestType BY <1>r, <1>i DEF TypeOK
<1>he. guest' = [guest EXCEPT ![r] = h1]
  BY <1>a DEF InitLoaded
<1> HIDE DEF g
<1>h1. h1 \in GuestType /\ h1.machine = "stopped" /\ GuestSame(g, h1, {"machine"})
  BY <1>h0, GuestMachine
<1> HIDE DEF h1
<1>hs. GuestSame(g, h1, {"machine"})
  BY <1>h1 DEF GuestSame
<1>hf. guest' \in [Rts -> GuestType] /\ guest'[r] = h1 /\ \A s \in Rts : s # r => guest'[s] = guest[s]
  BY <1>he, <1>r, <1>h1, <1>i DEF TypeOK
<1>h. GuestChanges(r, {"machine"}) /\ guest'[r].machine = "stopped"
  BY <1>h1, <1>hs, <1>hf DEF g, GuestChanges
<1> DEFINE k == calls[c]
           z1 == [k EXCEPT !.at = "emulator"]
<1>z0. k \in CallType BY <1>r, <1>i DEF TypeOK
<1>ze. calls' = [calls EXCEPT ![c] = z1]
  BY <1>a DEF InitLoaded, At
<1> HIDE DEF k
<1>z1. z1 \in CallType /\ z1.at = "emulator" /\ CallSame(k, z1, {"at"})
  BY <1>z0, CallAt DEF Ats, Chained, InTurn
<1> HIDE DEF z1
<1>zs. CallSame(k, z1, {"at"})
  BY <1>z1 DEF CallSame
<1>zf. calls' \in [Calls -> CallType] /\ calls'[c] = z1 /\ \A s \in Calls : s # c => calls'[s] = calls[s]
  BY <1>ze, <1>r, <1>z1, <1>i DEF TypeOK
<1>z. CallChanges(c, {"at"}) /\ calls'[c].at = "emulator"
  BY <1>z1, <1>zs, <1>zf DEF k, CallChanges, OthersKept
<1>o. UNCHANGED <<plan, left, server, doubt>>
  BY <1>a DEF InitLoaded
<1>. QED BY <1>r, <1>y, <1>h, <1>z, <1>o DEF x, g, k

(* What InitReady changes. *)
LEMMA InitReadyEffect ==
  ASSUME ChainInv, NEW c \in Calls, InitReady(c)
  PROVE  LET r == calls[c].rt IN
         /\ r \in Rts
         /\ RtChanges(r, {"state"})
         /\ rt'[r].state = "initialized"
         /\ GuestChanges(r, {"boot", "bootUp"})
         /\ guest'[r].boot = rt[r].files
         /\ guest'[r].bootUp = rt[r].up
         /\ calls' \in [Calls -> CallType] /\ OthersKept(c) /\ calls'[c] = Idle
         /\ UNCHANGED <<plan, left, doubt>> /\ server' = r
<1> DEFINE r == calls[c].rt
<1>i. TypeOK /\ CallsOK BY DEF ChainInv
<1>a. InitReady(c) OBVIOUS
<1>r0. r \in Rts
  BY <1>i, <1>a DEF CallsOK, CallOK, Calling, InitReady, BootArchive
<1>r. r \in Rts /\ c \in Calls BY <1>r0
<1> DEFINE x == rt[r]
           y1 == [x EXCEPT !.state = "initialized"]
<1>y0. x \in RuntimeType BY <1>r, <1>i DEF TypeOK
<1>ye. rt' = [rt EXCEPT ![r] = y1]
  BY <1>a DEF InitReady, BootArchive
<1> HIDE DEF x
<1>y1. y1 \in RuntimeType /\ y1.state = "initialized" /\ RtSame(x, y1, {"state"})
  BY <1>y0, RtState DEF States
<1> HIDE DEF y1
<1>ys. RtSame(x, y1, {"state"})
  BY <1>y1 DEF RtSame
<1>yf. rt' \in [Rts -> RuntimeType] /\ rt'[r] = y1 /\ \A s \in Rts : s # r => rt'[s] = rt[s]
  BY <1>ye, <1>r, <1>y1, <1>i DEF TypeOK
<1>y. RtChanges(r, {"state"}) /\ rt'[r].state = "initialized"
  BY <1>y1, <1>ys, <1>yf DEF x, RtChanges
<1> DEFINE g == guest[r]
           hw1 == rt[r].files
           hw2 == rt[r].up
           h1 == [g EXCEPT !.boot = hw1]
           h2 == [h1 EXCEPT !.bootUp = hw2]
<1>h0. g \in GuestType BY <1>r, <1>i DEF TypeOK
<1>hv1. hw1 \in [Paths -> Int]
  BY <1>i, <1>r, Types, Zenon
<1>hv2. hw2 \in BOOLEAN
  BY <1>i, <1>r, Types, Zenon
<1>he. guest' = [guest EXCEPT ![r] = h2]
  BY <1>a DEF InitReady, BootArchive
<1> HIDE DEF g, hw1, hw2
<1>h1. h1 \in GuestType /\ h1.boot = hw1 /\ GuestSame(g, h1, {"boot"})
  BY <1>h0, <1>hv1, GuestBoot
<1> HIDE DEF h1
<1>h2. h2 \in GuestType /\ h2.bootUp = hw2 /\ GuestSame(h1, h2, {"bootUp"})
  BY <1>h1, <1>hv2, GuestBootUp
<1> HIDE DEF h2
<1>hs. GuestSame(g, h2, {"boot", "bootUp"}) /\ h2.boot = hw1
  BY <1>h1, <1>h2 DEF GuestSame
<1>hf. guest' \in [Rts -> GuestType] /\ guest'[r] = h2 /\ \A s \in Rts : s # r => guest'[s] = guest[s]
  BY <1>he, <1>r, <1>h2, <1>i DEF TypeOK
<1>h. GuestChanges(r, {"boot", "bootUp"}) /\ guest'[r].boot = hw1 /\ guest'[r].bootUp = hw2
  BY <1>h2, <1>hs, <1>hf DEF g, GuestChanges
<1>k. calls' = [calls EXCEPT ![c] = Idle] BY <1>a DEF Answered, InitReady, BootArchive
<1>kk. calls' \in [Calls -> CallType] /\ OthersKept(c) /\ calls'[c] = Idle
  BY <1>k, <1>i, <1>r, IdleType DEF TypeOK, OthersKept
<1>o. UNCHANGED <<plan, left, doubt>> /\ server' = r
  BY <1>a DEF InitReady, BootArchive
<1>. QED BY <1>r, <1>y, <1>h, <1>kk, <1>o DEF x, g, hw1, hw2

(* What InitFails changes. *)
LEMMA InitFailsEffect ==
  ASSUME ChainInv, NEW c \in Calls, InitFails(c)
  PROVE  LET r == calls[c].rt IN
         /\ r \in Rts
         /\ RtChanges(r, {"state"})
         /\ rt'[r].state = "failed"
         /\ calls' \in [Calls -> CallType] /\ OthersKept(c) /\ calls'[c] = Idle
         /\ guest' = guest /\ UNCHANGED <<plan, left, server, doubt>>
<1> DEFINE r == calls[c].rt
<1>i. TypeOK /\ CallsOK BY DEF ChainInv
<1>a. InitFails(c) OBVIOUS
<1>r0. r \in Rts
  BY <1>i, <1>a DEF CallsOK, CallOK, Calling, InitFails
<1>r. r \in Rts /\ c \in Calls BY <1>r0
<1> DEFINE x == rt[r]
           y1 == [x EXCEPT !.state = "failed"]
<1>y0. x \in RuntimeType BY <1>r, <1>i DEF TypeOK
<1>ye. rt' = [rt EXCEPT ![r] = y1]
  BY <1>a DEF InitFails
<1> HIDE DEF x
<1>y1. y1 \in RuntimeType /\ y1.state = "failed" /\ RtSame(x, y1, {"state"})
  BY <1>y0, RtState DEF States
<1> HIDE DEF y1
<1>ys. RtSame(x, y1, {"state"})
  BY <1>y1 DEF RtSame
<1>yf. rt' \in [Rts -> RuntimeType] /\ rt'[r] = y1 /\ \A s \in Rts : s # r => rt'[s] = rt[s]
  BY <1>ye, <1>r, <1>y1, <1>i DEF TypeOK
<1>y. RtChanges(r, {"state"}) /\ rt'[r].state = "failed"
  BY <1>y1, <1>ys, <1>yf DEF x, RtChanges
<1>k. calls' = [calls EXCEPT ![c] = Idle] BY <1>a DEF Answered, InitFails
<1>kk. calls' \in [Calls -> CallType] /\ OthersKept(c) /\ calls'[c] = Idle
  BY <1>k, <1>i, <1>r, IdleType DEF TypeOK, OthersKept
<1>o. guest' = guest /\ UNCHANGED <<plan, left, server, doubt>>
  BY <1>a DEF InitFails
<1>. QED BY <1>r, <1>y, <1>kk, <1>o DEF x

(* What StartFails changes. *)
LEMMA StartFailsEffect ==
  ASSUME ChainInv, NEW c \in Calls, StartFails(c)
  PROVE  LET r == calls[c].rt IN
         /\ r \in Rts
         /\ RtChanges(r, {"state"})
         /\ rt'[r].state = "failed"
         /\ calls' \in [Calls -> CallType] /\ OthersKept(c) /\ calls'[c] = Idle
         /\ guest' = guest /\ UNCHANGED <<plan, left, server, doubt>>
<1> DEFINE r == calls[c].rt
<1>i. TypeOK /\ CallsOK BY DEF ChainInv
<1>a. StartFails(c) OBVIOUS
<1>r0. r \in Rts
  BY <1>i, <1>a DEF CallsOK, CallOK, Calling, StartFails, StartFailed
<1>r. r \in Rts /\ c \in Calls BY <1>r0
<1> DEFINE x == rt[r]
           y1 == [x EXCEPT !.state = "failed"]
<1>y0. x \in RuntimeType BY <1>r, <1>i DEF TypeOK
<1>ye. rt' = [rt EXCEPT ![r] = y1]
  BY <1>a DEF StartFails, StartFailed
<1> HIDE DEF x
<1>y1. y1 \in RuntimeType /\ y1.state = "failed" /\ RtSame(x, y1, {"state"})
  BY <1>y0, RtState DEF States
<1> HIDE DEF y1
<1>ys. RtSame(x, y1, {"state"})
  BY <1>y1 DEF RtSame
<1>yf. rt' \in [Rts -> RuntimeType] /\ rt'[r] = y1 /\ \A s \in Rts : s # r => rt'[s] = rt[s]
  BY <1>ye, <1>r, <1>y1, <1>i DEF TypeOK
<1>y. RtChanges(r, {"state"}) /\ rt'[r].state = "failed"
  BY <1>y1, <1>ys, <1>yf DEF x, RtChanges
<1>k. calls' = [calls EXCEPT ![c] = Idle] BY <1>a DEF Answered, StartFails, StartFailed
<1>kk. calls' \in [Calls -> CallType] /\ OthersKept(c) /\ calls'[c] = Idle
  BY <1>k, <1>i, <1>r, IdleType DEF TypeOK, OthersKept
<1>o. guest' = guest /\ UNCHANGED <<plan, left, server, doubt>>
  BY <1>a DEF StartFails, StartFailed
<1>. QED BY <1>r, <1>y, <1>kk, <1>o DEF x

(* What StopEnds changes. *)
LEMMA StopEndsEffect ==
  ASSUME ChainInv, NEW c \in Calls, StopEnds(c)
  PROVE  LET r == calls[c].rt IN
         /\ r \in Rts
         /\ RtChanges(r, {"state"})
         /\ rt'[r].state = "stopped"
         /\ calls' \in [Calls -> CallType] /\ OthersKept(c) /\ calls'[c] = Idle
         /\ guest' = guest /\ UNCHANGED <<plan, left, server, doubt>>
<1> DEFINE r == calls[c].rt
<1>i. TypeOK /\ CallsOK BY DEF ChainInv
<1>a. StopEnds(c) OBVIOUS
<1>r0. r \in Rts
  BY <1>i, <1>a DEF CallsOK, CallOK, Calling, StopEnds
<1>r. r \in Rts /\ c \in Calls BY <1>r0
<1> DEFINE x == rt[r]
           y1 == [x EXCEPT !.state = "stopped"]
<1>y0. x \in RuntimeType BY <1>r, <1>i DEF TypeOK
<1>ye. rt' = [rt EXCEPT ![r] = y1]
  BY <1>a DEF StopEnds
<1> HIDE DEF x
<1>y1. y1 \in RuntimeType /\ y1.state = "stopped" /\ RtSame(x, y1, {"state"})
  BY <1>y0, RtState DEF States
<1> HIDE DEF y1
<1>ys. RtSame(x, y1, {"state"})
  BY <1>y1 DEF RtSame
<1>yf. rt' \in [Rts -> RuntimeType] /\ rt'[r] = y1 /\ \A s \in Rts : s # r => rt'[s] = rt[s]
  BY <1>ye, <1>r, <1>y1, <1>i DEF TypeOK
<1>y. RtChanges(r, {"state"}) /\ rt'[r].state = "stopped"
  BY <1>y1, <1>ys, <1>yf DEF x, RtChanges
<1>k. calls' = [calls EXCEPT ![c] = Idle] BY <1>a DEF Answered, StopEnds
<1>kk. calls' \in [Calls -> CallType] /\ OthersKept(c) /\ calls'[c] = Idle
  BY <1>k, <1>i, <1>r, IdleType DEF TypeOK, OthersKept
<1>o. guest' = guest /\ UNCHANGED <<plan, left, server, doubt>>
  BY <1>a DEF StopEnds
<1>. QED BY <1>r, <1>y, <1>kk, <1>o DEF x

(* What DisposeEnds changes. *)
LEMMA DisposeEndsEffect ==
  ASSUME ChainInv, NEW c \in Calls, DisposeEnds(c)
  PROVE  LET r == calls[c].rt IN
         /\ r \in Rts
         /\ RtChanges(r, {"url", "state", "ref"})
         /\ rt'[r].url = FALSE
         /\ rt'[r].state = "disposed"
         /\ rt'[r].ref = FALSE
         /\ calls' \in [Calls -> CallType] /\ OthersKept(c) /\ calls'[c] = Idle
         /\ guest' = guest /\ UNCHANGED <<plan, left, doubt>> /\ server' = 0
<1> DEFINE r == calls[c].rt
<1>i. TypeOK /\ CallsOK BY DEF ChainInv
<1>a. DisposeEnds(c) OBVIOUS
<1>r0. r \in Rts
  BY <1>i, <1>a DEF CallsOK, CallOK, Calling, DisposeEnds
<1>r. r \in Rts /\ c \in Calls BY <1>r0
<1> DEFINE x == rt[r]
           y1 == [x EXCEPT !.url = FALSE]
           y2 == [y1 EXCEPT !.state = "disposed"]
           y3 == [y2 EXCEPT !.ref = FALSE]
<1>y0. x \in RuntimeType BY <1>r, <1>i DEF TypeOK
<1>ye. rt' = [rt EXCEPT ![r] = y3]
  BY <1>a DEF DisposeEnds
<1> HIDE DEF x
<1>y1. y1 \in RuntimeType /\ y1.url = FALSE /\ RtSame(x, y1, {"url"})
  BY <1>y0, RtUrl
<1> HIDE DEF y1
<1>y2. y2 \in RuntimeType /\ y2.state = "disposed" /\ RtSame(y1, y2, {"state"})
  BY <1>y1, RtState DEF States
<1> HIDE DEF y2
<1>y3. y3 \in RuntimeType /\ y3.ref = FALSE /\ RtSame(y2, y3, {"ref"})
  BY <1>y2, RtRef
<1> HIDE DEF y3
<1>ys. RtSame(x, y3, {"url", "state", "ref"}) /\ y3.url = FALSE /\ y3.state = "disposed"
  BY <1>y1, <1>y2, <1>y3 DEF RtSame
<1>yf. rt' \in [Rts -> RuntimeType] /\ rt'[r] = y3 /\ \A s \in Rts : s # r => rt'[s] = rt[s]
  BY <1>ye, <1>r, <1>y3, <1>i DEF TypeOK
<1>y. RtChanges(r, {"url", "state", "ref"}) /\ rt'[r].url = FALSE /\ rt'[r].state = "disposed" /\ rt'[r].ref = FALSE
  BY <1>y3, <1>ys, <1>yf DEF x, RtChanges
<1>k. calls' = [calls EXCEPT ![c] = Idle] BY <1>a DEF Answered, DisposeEnds
<1>kk. calls' \in [Calls -> CallType] /\ OthersKept(c) /\ calls'[c] = Idle
  BY <1>k, <1>i, <1>r, IdleType DEF TypeOK, OthersKept
<1>o. guest' = guest /\ UNCHANGED <<plan, left, doubt>> /\ server' = 0
  BY <1>a DEF DisposeEnds
<1>. QED BY <1>r, <1>y, <1>kk, <1>o DEF x

(* What ReadAnswered changes. *)
LEMMA ReadAnsweredEffect ==
  ASSUME ChainInv, NEW c \in Calls, ReadAnswered(c)
  PROVE  LET r == calls[c].rt IN
         /\ r \in Rts
         /\ calls' \in [Calls -> CallType] /\ OthersKept(c) /\ calls'[c] = Idle
         /\ rt' = rt /\ guest' = guest /\ UNCHANGED <<plan, left, server, doubt>>
<1> DEFINE r == calls[c].rt
<1>i. TypeOK /\ CallsOK BY DEF ChainInv
<1>a. ReadAnswered(c) OBVIOUS
<1>r0. r \in Rts
  BY <1>i, <1>a DEF CallsOK, CallOK, Calling, ReadAnswered
<1>r. r \in Rts /\ c \in Calls BY <1>r0
<1>k. calls' = [calls EXCEPT ![c] = Idle] BY <1>a DEF Answered, ReadAnswered
<1>kk. calls' \in [Calls -> CallType] /\ OthersKept(c) /\ calls'[c] = Idle
  BY <1>k, <1>i, <1>r, IdleType DEF TypeOK, OthersKept
<1>o. rt' = rt /\ guest' = guest /\ UNCHANGED <<plan, left, server, doubt>>
  BY <1>a DEF ReadAnswered
<1>. QED BY <1>r, <1>kk, <1>o

(* What Collected changes. *)
LEMMA CollectedEffect ==
  ASSUME ChainInv, NEW c \in Calls, Collected(c)
  PROVE  LET r == calls[c].rt IN
         /\ r \in Rts
         /\ GuestChanges(r, {"machine"})
         /\ guest'[r].machine = IF guest[r].machine = "running" THEN "stopped" ELSE guest[r].machine
         /\ CallChanges(c, {"at"})
         /\ calls'[c].at = "collected"
         /\ rt' = rt /\ UNCHANGED <<plan, left, server, doubt>>
<1> DEFINE r == calls[c].rt
<1>i. TypeOK /\ CallsOK BY DEF ChainInv
<1>a. Collected(c) OBVIOUS
<1>r0. r \in Rts
  BY <1>i, <1>a DEF CallsOK, CallOK, Calling, Collected
<1>r. r \in Rts /\ c \in Calls BY <1>r0
<1> DEFINE g == guest[r]
           hw1 == IF g.machine = "running" THEN "stopped" ELSE g.machine
           h1 == [g EXCEPT !.machine = hw1]
<1>h0. g \in GuestType BY <1>r, <1>i DEF TypeOK
<1>hv1. hw1 \in {"none", "stopped", "running", "destroyed"}
  BY <1>h0, GuestParts
<1>he. guest' = [guest EXCEPT ![r] = h1]
  BY <1>a DEF Collected
<1> HIDE DEF g, hw1
<1>h1. h1 \in GuestType /\ h1.machine = hw1 /\ GuestSame(g, h1, {"machine"})
  BY <1>h0, <1>hv1, GuestMachine
<1> HIDE DEF h1
<1>hs. GuestSame(g, h1, {"machine"})
  BY <1>h1 DEF GuestSame
<1>hf. guest' \in [Rts -> GuestType] /\ guest'[r] = h1 /\ \A s \in Rts : s # r => guest'[s] = guest[s]
  BY <1>he, <1>r, <1>h1, <1>i DEF TypeOK
<1>h. GuestChanges(r, {"machine"}) /\ guest'[r].machine = hw1
  BY <1>h1, <1>hs, <1>hf DEF g, GuestChanges
<1> DEFINE k == calls[c]
           z1 == [k EXCEPT !.at = "collected"]
<1>z0. k \in CallType BY <1>r, <1>i DEF TypeOK
<1>ze. calls' = [calls EXCEPT ![c] = z1]
  BY <1>a DEF Collected, At
<1> HIDE DEF k
<1>z1. z1 \in CallType /\ z1.at = "collected" /\ CallSame(k, z1, {"at"})
  BY <1>z0, CallAt DEF Ats, Chained, InTurn
<1> HIDE DEF z1
<1>zs. CallSame(k, z1, {"at"})
  BY <1>z1 DEF CallSame
<1>zf. calls' \in [Calls -> CallType] /\ calls'[c] = z1 /\ \A s \in Calls : s # c => calls'[s] = calls[s]
  BY <1>ze, <1>r, <1>z1, <1>i DEF TypeOK
<1>z. CallChanges(c, {"at"}) /\ calls'[c].at = "collected"
  BY <1>z1, <1>zs, <1>zf DEF k, CallChanges, OthersKept
<1>o. rt' = rt /\ UNCHANGED <<plan, left, server, doubt>>
  BY <1>a DEF Collected
<1>. QED BY <1>r, <1>h, <1>z, <1>o DEF g, hw1, k

(* What CollectEnds changes. *)
LEMMA CollectEndsEffect ==
  ASSUME ChainInv, NEW c \in Calls, CollectEnds(c)
  PROVE  LET r == calls[c].rt IN
         /\ r \in Rts
         /\ RtChanges(r, {"state", "pgo", "tail"})
         /\ rt'[r].state = "stopped"
         /\ rt'[r].pgo = FALSE
         /\ rt'[r].tail = Tail(rt[r].tail)
         /\ calls' \in [Calls -> CallType] /\ OthersKept(c) /\ calls'[c] = Idle
         /\ guest' = guest /\ UNCHANGED <<plan, left, server, doubt>>
<1> DEFINE r == calls[c].rt
<1>i. TypeOK /\ CallsOK BY DEF ChainInv
<1>a. CollectEnds(c) OBVIOUS
<1>r0. r \in Rts
  BY <1>i, <1>a DEF CallsOK, CallOK, Calling, CollectEnds, Settled
<1>r. r \in Rts /\ c \in Calls BY <1>r0
<1> DEFINE x == rt[r]
           yw3 == Tail(x.tail)
           y1 == [x EXCEPT !.state = "stopped"]
           y2 == [y1 EXCEPT !.pgo = FALSE]
           y3 == [y2 EXCEPT !.tail = yw3]
<1>y0. x \in RuntimeType BY <1>r, <1>i DEF TypeOK
<1>yv3. yw3 \in Seq(Calls \X Int)
  BY <1>a, <1>r, SettledType DEF OnTail, InTurn, Chained, Calling, CollectEnds
<1>ye. rt' = [rt EXCEPT ![r] = y3]
  BY <1>a DEF CollectEnds, Settled
<1> HIDE DEF x, yw3
<1>y1. y1 \in RuntimeType /\ y1.state = "stopped" /\ RtSame(x, y1, {"state"})
  BY <1>y0, RtState DEF States
<1> HIDE DEF y1
<1>y2. y2 \in RuntimeType /\ y2.pgo = FALSE /\ RtSame(y1, y2, {"pgo"})
  BY <1>y1, RtPgo
<1> HIDE DEF y2
<1>y3. y3 \in RuntimeType /\ y3.tail = yw3 /\ RtSame(y2, y3, {"tail"})
  BY <1>y2, <1>yv3, RtTail
<1> HIDE DEF y3
<1>ys. RtSame(x, y3, {"state", "pgo", "tail"}) /\ y3.state = "stopped" /\ y3.pgo = FALSE
  BY <1>y1, <1>y2, <1>y3 DEF RtSame
<1>yf. rt' \in [Rts -> RuntimeType] /\ rt'[r] = y3 /\ \A s \in Rts : s # r => rt'[s] = rt[s]
  BY <1>ye, <1>r, <1>y3, <1>i DEF TypeOK
<1>y. RtChanges(r, {"state", "pgo", "tail"}) /\ rt'[r].state = "stopped" /\ rt'[r].pgo = FALSE /\ rt'[r].tail = yw3
  BY <1>y3, <1>ys, <1>yf DEF x, RtChanges
<1>k. calls' = [calls EXCEPT ![c] = Idle] BY <1>a DEF Answered, CollectEnds, Settled
<1>kk. calls' \in [Calls -> CallType] /\ OthersKept(c) /\ calls'[c] = Idle
  BY <1>k, <1>i, <1>r, IdleType DEF TypeOK, OthersKept
<1>o. guest' = guest /\ UNCHANGED <<plan, left, server, doubt>>
  BY <1>a DEF CollectEnds, Settled
<1>. QED BY <1>r, <1>y, <1>kk, <1>o DEF x, yw3

(* What SendRefused changes. *)
LEMMA SendRefusedEffect ==
  ASSUME ChainInv, NEW c \in Calls, SendRefused(c)
  PROVE  LET r == calls[c].rt IN
         /\ r \in Rts
         /\ RtChanges(r, {"tail", "state"})
         /\ rt'[r].tail = Tail(rt[r].tail)
         /\ rt'[r].state = IF calls[c].op = "start" THEN "failed" ELSE rt[r].state
         /\ calls' \in [Calls -> CallType] /\ OthersKept(c) /\ calls'[c] = Idle
         /\ guest' = guest /\ UNCHANGED <<plan, left, server, doubt>>
<1> DEFINE r == calls[c].rt
<1>i. TypeOK /\ CallsOK BY DEF ChainInv
<1>a. SendRefused(c) OBVIOUS
<1>r0. r \in Rts
  BY <1>i, <1>a, InFlightIs DEF OnTail, InTurn, Chained, SendRefused
<1>r. r \in Rts /\ c \in Calls BY <1>r0
<1> DEFINE x == rt[r]
           yw1 == Tail(x.tail)
           yw2 == IF calls[c].op = "start" THEN "failed" ELSE x.state
           y1 == [x EXCEPT !.tail = yw1]
           y2 == [y1 EXCEPT !.state = yw2]
<1>y0. x \in RuntimeType BY <1>r, <1>i DEF TypeOK
<1>yv1. yw1 \in Seq(Calls \X Int)
  BY <1>a, <1>r, SettledType DEF OnTail, InTurn, Chained, Calling, SendRefused
<1>yv2. yw2 \in States
  BY <1>y0, RtParts DEF States
<1>ye. rt' = [rt EXCEPT ![r] = y2]
  BY <1>a DEF SendRefused, Settled
<1> HIDE DEF x, yw1, yw2
<1>y1. y1 \in RuntimeType /\ y1.tail = yw1 /\ RtSame(x, y1, {"tail"})
  BY <1>y0, <1>yv1, RtTail
<1> HIDE DEF y1
<1>y2. y2 \in RuntimeType /\ y2.state = yw2 /\ RtSame(y1, y2, {"state"})
  BY <1>y1, <1>yv2, RtState
<1> HIDE DEF y2
<1>ys. RtSame(x, y2, {"tail", "state"}) /\ y2.tail = yw1
  BY <1>y1, <1>y2 DEF RtSame
<1>yf. rt' \in [Rts -> RuntimeType] /\ rt'[r] = y2 /\ \A s \in Rts : s # r => rt'[s] = rt[s]
  BY <1>ye, <1>r, <1>y2, <1>i DEF TypeOK
<1>y. RtChanges(r, {"tail", "state"}) /\ rt'[r].tail = yw1 /\ rt'[r].state = yw2
  BY <1>y2, <1>ys, <1>yf DEF x, RtChanges
<1>k. calls' = [calls EXCEPT ![c] = Idle] BY <1>a DEF Answered, SendRefused, Settled
<1>kk. calls' \in [Calls -> CallType] /\ OthersKept(c) /\ calls'[c] = Idle
  BY <1>k, <1>i, <1>r, IdleType DEF TypeOK, OthersKept
<1>o. guest' = guest /\ UNCHANGED <<plan, left, server, doubt>>
  BY <1>a DEF SendRefused, Settled
<1>. QED BY <1>r, <1>y, <1>kk, <1>o DEF x, yw1, yw2

(* What Refused changes. *)
LEMMA RefusedEffect ==
  ASSUME ChainInv, NEW c \in Calls, Refused(c)
  PROVE  LET r == calls[c].rt IN
         /\ r \in Rts
         /\ RtChanges(r, {"tail", "pgo", "state"})
         /\ rt'[r].tail = Tail(rt[r].tail)
         /\ rt'[r].pgo = (rt[r].pgo /\ calls[c].op # "collect")
         /\ rt'[r].state = IF calls[c].op = "start" \/ (calls[c].op = "collect" /\ rt[r].state \notin {"disposed", "failed"}) THEN "failed" ELSE rt[r].state
         /\ calls' \in [Calls -> CallType] /\ OthersKept(c) /\ calls'[c] = Idle
         /\ guest' = guest /\ UNCHANGED <<plan, left, server, doubt>>
<1> DEFINE r == calls[c].rt
<1>i. TypeOK /\ CallsOK BY DEF ChainInv
<1>a. Refused(c) OBVIOUS
<1>r0. r \in Rts
  BY <1>i, <1>a, InFlightIs DEF OnTail, InTurn, Chained, Refused
<1>r. r \in Rts /\ c \in Calls BY <1>r0
<1> DEFINE x == rt[r]
           yw1 == Tail(x.tail)
           yw2 == (x.pgo /\ calls[c].op # "collect")
           yw3 == IF calls[c].op = "start" \/ (calls[c].op = "collect" /\ x.state \notin {"disposed", "failed"}) THEN "failed" ELSE x.state
           y1 == [x EXCEPT !.tail = yw1]
           y2 == [y1 EXCEPT !.pgo = yw2]
           y3 == [y2 EXCEPT !.state = yw3]
<1>y0. x \in RuntimeType BY <1>r, <1>i DEF TypeOK
<1>yv1. yw1 \in Seq(Calls \X Int)
  BY <1>a, <1>r, SettledType DEF OnTail, InTurn, Chained, Calling, Refused
<1>yv2. yw2 \in BOOLEAN
  BY <1>y0, RtParts
<1>yv3. yw3 \in States
  BY <1>y0, RtParts DEF States
<1>ye. rt' = [rt EXCEPT ![r] = y3]
  BY <1>a DEF Refused, Settled
<1> HIDE DEF x, yw1, yw2, yw3
<1>y1. y1 \in RuntimeType /\ y1.tail = yw1 /\ RtSame(x, y1, {"tail"})
  BY <1>y0, <1>yv1, RtTail
<1> HIDE DEF y1
<1>y2. y2 \in RuntimeType /\ y2.pgo = yw2 /\ RtSame(y1, y2, {"pgo"})
  BY <1>y1, <1>yv2, RtPgo
<1> HIDE DEF y2
<1>y3. y3 \in RuntimeType /\ y3.state = yw3 /\ RtSame(y2, y3, {"state"})
  BY <1>y2, <1>yv3, RtState
<1> HIDE DEF y3
<1>ys. RtSame(x, y3, {"tail", "pgo", "state"}) /\ y3.tail = yw1 /\ y3.pgo = yw2
  BY <1>y1, <1>y2, <1>y3 DEF RtSame
<1>yf. rt' \in [Rts -> RuntimeType] /\ rt'[r] = y3 /\ \A s \in Rts : s # r => rt'[s] = rt[s]
  BY <1>ye, <1>r, <1>y3, <1>i DEF TypeOK
<1>y. RtChanges(r, {"tail", "pgo", "state"}) /\ rt'[r].tail = yw1 /\ rt'[r].pgo = yw2 /\ rt'[r].state = yw3
  BY <1>y3, <1>ys, <1>yf DEF x, RtChanges
<1>k. calls' = [calls EXCEPT ![c] = Idle] BY <1>a DEF Answered, Refused, Settled
<1>kk. calls' \in [Calls -> CallType] /\ OthersKept(c) /\ calls'[c] = Idle
  BY <1>k, <1>i, <1>r, IdleType DEF TypeOK, OthersKept
<1>o. guest' = guest /\ UNCHANGED <<plan, left, server, doubt>>
  BY <1>a DEF Refused, Settled
<1>. QED BY <1>r, <1>y, <1>kk, <1>o DEF x, yw1, yw2, yw3

(* The guest is ready for a start that has been overtaken. *)
LEMMA StartReadyTooLate ==
  ASSUME ChainInv, NEW c \in Calls, StartReady(c), rt[calls[c].rt].state # "running"
  PROVE  LET r == calls[c].rt IN
         /\ r \in Rts
         /\ RtChanges(r, {"state"})
         /\ rt'[r].state = "failed"
         /\ calls' \in [Calls -> CallType] /\ OthersKept(c) /\ calls'[c] = Idle
         /\ guest' = guest /\ UNCHANGED <<plan, left, server, doubt>>
<1> DEFINE r == calls[c].rt
<1>i. TypeOK /\ CallsOK BY DEF ChainInv
<1>a. StartReady(c) /\ rt[calls[c].rt].state # "running" OBVIOUS
<1>r0. r \in Rts
  BY <1>i, <1>a DEF CallsOK, CallOK, Calling, StartReady, StartFailed
<1>r. r \in Rts /\ c \in Calls BY <1>r0
<1> DEFINE x == rt[r]
           y1 == [x EXCEPT !.state = "failed"]
<1>y0. x \in RuntimeType BY <1>r, <1>i DEF TypeOK
<1>ye. rt' = [rt EXCEPT ![r] = y1]
  BY <1>a DEF StartReady, StartFailed
<1> HIDE DEF x
<1>y1. y1 \in RuntimeType /\ y1.state = "failed" /\ RtSame(x, y1, {"state"})
  BY <1>y0, RtState DEF States
<1> HIDE DEF y1
<1>ys. RtSame(x, y1, {"state"})
  BY <1>y1 DEF RtSame
<1>yf. rt' \in [Rts -> RuntimeType] /\ rt'[r] = y1 /\ \A s \in Rts : s # r => rt'[s] = rt[s]
  BY <1>ye, <1>r, <1>y1, <1>i DEF TypeOK
<1>y. RtChanges(r, {"state"}) /\ rt'[r].state = "failed"
  BY <1>y1, <1>ys, <1>yf DEF x, RtChanges
<1>k. calls' = [calls EXCEPT ![c] = Idle] BY <1>a DEF Answered, StartReady, StartFailed
<1>kk. calls' \in [Calls -> CallType] /\ OthersKept(c) /\ calls'[c] = Idle
  BY <1>k, <1>i, <1>r, IdleType DEF TypeOK, OthersKept
<1>o. guest' = guest /\ UNCHANGED <<plan, left, server, doubt>>
  BY <1>a DEF StartReady, StartFailed
<1>. QED BY <1>r, <1>y, <1>kk, <1>o DEF x

(* The guest is ready for its first start. *)
LEMMA StartReadyFirst ==
  ASSUME ChainInv, NEW c \in Calls, StartReady(c), rt[calls[c].rt].state = "running", ~rt[calls[c].rt].booted
  PROVE  LET r == calls[c].rt IN
         /\ r \in Rts
         /\ RtChanges(r, {"booted"})
         /\ rt'[r].booted = TRUE
         /\ calls' \in [Calls -> CallType] /\ OthersKept(c) /\ calls'[c] = Idle
         /\ guest' = guest /\ UNCHANGED <<plan, left, server, doubt>>
<1> DEFINE r == calls[c].rt
<1>i. TypeOK /\ CallsOK BY DEF ChainInv
<1>a. StartReady(c) /\ rt[calls[c].rt].state = "running" /\ ~rt[calls[c].rt].booted OBVIOUS
<1>r0. r \in Rts
  BY <1>i, <1>a DEF CallsOK, CallOK, Calling, StartReady
<1>r. r \in Rts /\ c \in Calls BY <1>r0
<1> DEFINE x == rt[r]
           y1 == [x EXCEPT !.booted = TRUE]
<1>y0. x \in RuntimeType BY <1>r, <1>i DEF TypeOK
<1>ye. rt' = [rt EXCEPT ![r] = y1]
  BY <1>a DEF StartReady
<1> HIDE DEF x
<1>y1. y1 \in RuntimeType /\ y1.booted = TRUE /\ RtSame(x, y1, {"booted"})
  BY <1>y0, RtBooted
<1> HIDE DEF y1
<1>ys. RtSame(x, y1, {"booted"})
  BY <1>y1 DEF RtSame
<1>yf. rt' \in [Rts -> RuntimeType] /\ rt'[r] = y1 /\ \A s \in Rts : s # r => rt'[s] = rt[s]
  BY <1>ye, <1>r, <1>y1, <1>i DEF TypeOK
<1>y. RtChanges(r, {"booted"}) /\ rt'[r].booted = TRUE
  BY <1>y1, <1>ys, <1>yf DEF x, RtChanges
<1>k. calls' = [calls EXCEPT ![c] = Idle] BY <1>a DEF Answered, StartReady
<1>kk. calls' \in [Calls -> CallType] /\ OthersKept(c) /\ calls'[c] = Idle
  BY <1>k, <1>i, <1>r, IdleType DEF TypeOK, OthersKept
<1>o. guest' = guest /\ UNCHANGED <<plan, left, server, doubt>>
  BY <1>a DEF StartReady
<1>. QED BY <1>r, <1>y, <1>kk, <1>o DEF x

(* The guest is ready for a start that resumes it. *)
LEMMA StartReadyAgain ==
  ASSUME ChainInv, NEW c \in Calls, StartReady(c), rt[calls[c].rt].state = "running", rt[calls[c].rt].booted
  PROVE  LET r == calls[c].rt IN
         /\ r \in Rts
         /\ CallChanges(c, {"at"})
         /\ calls'[c].at = "pending"
         /\ rt' = rt /\ guest' = guest /\ UNCHANGED <<plan, left, server, doubt>>
<1> DEFINE r == calls[c].rt
<1>i. TypeOK /\ CallsOK BY DEF ChainInv
<1>a. StartReady(c) /\ rt[calls[c].rt].state = "running" /\ rt[calls[c].rt].booted OBVIOUS
<1>r0. r \in Rts
  BY <1>i, <1>a DEF CallsOK, CallOK, Calling, StartReady
<1>r. r \in Rts /\ c \in Calls BY <1>r0
<1> DEFINE k == calls[c]
           z1 == [k EXCEPT !.at = "pending"]
<1>z0. k \in CallType BY <1>r, <1>i DEF TypeOK
<1>ze. calls' = [calls EXCEPT ![c] = z1]
  BY <1>a DEF StartReady, At
<1> HIDE DEF k
<1>z1. z1 \in CallType /\ z1.at = "pending" /\ CallSame(k, z1, {"at"})
  BY <1>z0, CallAt DEF Ats, Chained, InTurn
<1> HIDE DEF z1
<1>zs. CallSame(k, z1, {"at"})
  BY <1>z1 DEF CallSame
<1>zf. calls' \in [Calls -> CallType] /\ calls'[c] = z1 /\ \A s \in Calls : s # c => calls'[s] = calls[s]
  BY <1>ze, <1>r, <1>z1, <1>i DEF TypeOK
<1>z. CallChanges(c, {"at"}) /\ calls'[c].at = "pending"
  BY <1>z1, <1>zs, <1>zf DEF k, CallChanges, OthersKept
<1>o. rt' = rt /\ guest' = guest /\ UNCHANGED <<plan, left, server, doubt>>
  BY <1>a DEF StartReady
<1>. QED BY <1>r, <1>z, <1>o DEF k

(* A start's next pending file is chained. *)
LEMMA ApplyPendingFile ==
  ASSUME ChainInv, NEW c \in Calls, ApplyPending(c), calls[c].arg <= Len(rt[calls[c].rt].later)
  PROVE  LET r == calls[c].rt IN
         /\ r \in Rts
         /\ RtChanges(r, {"tail"})
         /\ rt'[r].tail = Append(rt[r].tail, <<c, rt[r].files[rt[r].later[calls[c].arg]]>>)
         /\ CallChanges(c, {"at", "path"})
         /\ calls'[c].at = "apply"
         /\ calls'[c].path = rt[r].later[calls[c].arg]
         /\ guest' = guest /\ UNCHANGED <<plan, left, server, doubt>>
<1> DEFINE r == calls[c].rt
<1>i. TypeOK /\ CallsOK BY DEF ChainInv
<1>a. ApplyPending(c) /\ calls[c].arg <= Len(rt[calls[c].rt].later) OBVIOUS
<1>r0. r \in Rts
  BY <1>i, <1>a DEF CallsOK, CallOK, Calling, ApplyPending, Calling
<1>r. r \in Rts /\ c \in Calls BY <1>r0
<1> DEFINE x == rt[r]
           yw1 == Append(x.tail, <<c, x.files[x.later[calls[c].arg]]>>)
           y1 == [x EXCEPT !.tail = yw1]
<1>y0. x \in RuntimeType BY <1>r, <1>i DEF TypeOK
<1>yv1. yw1 \in Seq(Calls \X Int)
  BY <1>r, <1>a, PendingFile, QueueType, Zenon DEF ApplyPending, Calling
<1>ye. rt' = [rt EXCEPT ![r] = y1]
  BY <1>a DEF ApplyPending, Calling
<1> HIDE DEF x, yw1
<1>y1. y1 \in RuntimeType /\ y1.tail = yw1 /\ RtSame(x, y1, {"tail"})
  BY <1>y0, <1>yv1, RtTail
<1> HIDE DEF y1
<1>ys. RtSame(x, y1, {"tail"})
  BY <1>y1 DEF RtSame
<1>yf. rt' \in [Rts -> RuntimeType] /\ rt'[r] = y1 /\ \A s \in Rts : s # r => rt'[s] = rt[s]
  BY <1>ye, <1>r, <1>y1, <1>i DEF TypeOK
<1>y. RtChanges(r, {"tail"}) /\ rt'[r].tail = yw1
  BY <1>y1, <1>ys, <1>yf DEF x, RtChanges
<1> DEFINE k == calls[c]
           zw2 == rt[r].later[calls[c].arg]
           z1 == [k EXCEPT !.at = "apply"]
           z2 == [z1 EXCEPT !.path = zw2]
<1>z0. k \in CallType BY <1>r, <1>i DEF TypeOK
<1>zv2. zw2 \in Paths \cup {""}
  BY <1>a, PendingFile, Zenon DEF ApplyPending, Calling
<1>ze. calls' = [calls EXCEPT ![c] = z2]
  BY <1>a DEF ApplyPending, Calling, At
<1> HIDE DEF k, zw2
<1>z1. z1 \in CallType /\ z1.at = "apply" /\ CallSame(k, z1, {"at"})
  BY <1>z0, CallAt DEF Ats, Chained, InTurn
<1> HIDE DEF z1
<1>z2. z2 \in CallType /\ z2.path = zw2 /\ CallSame(z1, z2, {"path"})
  BY <1>z1, <1>zv2, CallPath, Zenon
<1> HIDE DEF z2
<1>zs. CallSame(k, z2, {"at", "path"}) /\ z2.at = "apply"
  BY <1>z1, <1>z2 DEF CallSame
<1>zf. calls' \in [Calls -> CallType] /\ calls'[c] = z2 /\ \A s \in Calls : s # c => calls'[s] = calls[s]
  BY <1>ze, <1>r, <1>z2, <1>i DEF TypeOK
<1>z. CallChanges(c, {"at", "path"}) /\ calls'[c].at = "apply" /\ calls'[c].path = zw2
  BY <1>z2, <1>zs, <1>zf DEF k, CallChanges, OthersKept
<1>o. guest' = guest /\ UNCHANGED <<plan, left, server, doubt>>
  BY <1>a DEF ApplyPending, Calling
<1>. QED BY <1>r, <1>y, <1>z, <1>o, Zenon DEF x, yw1, k, zw2

(* A start's pending interface state is chained. *)
LEMMA ApplyPendingLink ==
  ASSUME ChainInv, NEW c \in Calls, ApplyPending(c), ~(calls[c].arg <= Len(rt[calls[c].rt].later)), rt[calls[c].rt].laterLink
  PROVE  LET r == calls[c].rt IN
         /\ r \in Rts
         /\ RtChanges(r, {"later", "tail"})
         /\ rt'[r].later = <<>>
         /\ rt'[r].tail = Append(rt[r].tail, <<c, IF rt[r].up THEN 1 ELSE 0>>)
         /\ CallChanges(c, {"at"})
         /\ calls'[c].at = "link"
         /\ guest' = guest /\ UNCHANGED <<plan, left, server, doubt>>
<1> DEFINE r == calls[c].rt
<1>i. TypeOK /\ CallsOK BY DEF ChainInv
<1>a. ApplyPending(c) /\ ~(calls[c].arg <= Len(rt[calls[c].rt].later)) /\ rt[calls[c].rt].laterLink OBVIOUS
<1>r0. r \in Rts
  BY <1>i, <1>a DEF CallsOK, CallOK, Calling, ApplyPending
<1>r. r \in Rts /\ c \in Calls BY <1>r0
<1> DEFINE x == rt[r]
           yw1 == <<>>
           yw2 == Append(x.tail, <<c, IF x.up THEN 1 ELSE 0>>)
           y1 == [x EXCEPT !.later = yw1]
           y2 == [y1 EXCEPT !.tail = yw2]
<1>y0. x \in RuntimeType BY <1>r, <1>i DEF TypeOK
<1>yv1. yw1 \in Seq(Paths)
  OBVIOUS
<1>yv2. yw2 \in Seq(Calls \X Int)
  BY <1>r, <1>y0, RtParts, FlagType
<1>ye. rt' = [rt EXCEPT ![r] = y2]
  BY <1>a DEF ApplyPending
<1> HIDE DEF x, yw1, yw2
<1>y1. y1 \in RuntimeType /\ y1.later = yw1 /\ RtSame(x, y1, {"later"})
  BY <1>y0, <1>yv1, RtLater
<1> HIDE DEF y1
<1>y2. y2 \in RuntimeType /\ y2.tail = yw2 /\ RtSame(y1, y2, {"tail"})
  BY <1>y1, <1>yv2, RtTail
<1> HIDE DEF y2
<1>ys. RtSame(x, y2, {"later", "tail"}) /\ y2.later = yw1
  BY <1>y1, <1>y2 DEF RtSame
<1>yf. rt' \in [Rts -> RuntimeType] /\ rt'[r] = y2 /\ \A s \in Rts : s # r => rt'[s] = rt[s]
  BY <1>ye, <1>r, <1>y2, <1>i DEF TypeOK
<1>y. RtChanges(r, {"later", "tail"}) /\ rt'[r].later = yw1 /\ rt'[r].tail = yw2
  BY <1>y2, <1>ys, <1>yf DEF x, RtChanges
<1> DEFINE k == calls[c]
           z1 == [k EXCEPT !.at = "link"]
<1>z0. k \in CallType BY <1>r, <1>i DEF TypeOK
<1>ze. calls' = [calls EXCEPT ![c] = z1]
  BY <1>a DEF ApplyPending, At
<1> HIDE DEF k
<1>z1. z1 \in CallType /\ z1.at = "link" /\ CallSame(k, z1, {"at"})
  BY <1>z0, CallAt DEF Ats, Chained, InTurn
<1> HIDE DEF z1
<1>zs. CallSame(k, z1, {"at"})
  BY <1>z1 DEF CallSame
<1>zf. calls' \in [Calls -> CallType] /\ calls'[c] = z1 /\ \A s \in Calls : s # c => calls'[s] = calls[s]
  BY <1>ze, <1>r, <1>z1, <1>i DEF TypeOK
<1>z. CallChanges(c, {"at"}) /\ calls'[c].at = "link"
  BY <1>z1, <1>zs, <1>zf DEF k, CallChanges, OthersKept
<1>o. guest' = guest /\ UNCHANGED <<plan, left, server, doubt>>
  BY <1>a DEF ApplyPending
<1>. QED BY <1>r, <1>y, <1>z, <1>o, Zenon DEF x, yw1, yw2, k

(* A start with nothing pending answers. *)
LEMMA ApplyPendingDone ==
  ASSUME ChainInv, NEW c \in Calls, ApplyPending(c), ~(calls[c].arg <= Len(rt[calls[c].rt].later)), ~rt[calls[c].rt].laterLink
  PROVE  LET r == calls[c].rt IN
         /\ r \in Rts
         /\ RtChanges(r, {"later"})
         /\ rt'[r].later = <<>>
         /\ calls' \in [Calls -> CallType] /\ OthersKept(c) /\ calls'[c] = Idle
         /\ guest' = guest /\ UNCHANGED <<plan, left, server, doubt>>
<1> DEFINE r == calls[c].rt
<1>i. TypeOK /\ CallsOK BY DEF ChainInv
<1>a. ApplyPending(c) /\ ~(calls[c].arg <= Len(rt[calls[c].rt].later)) /\ ~rt[calls[c].rt].laterLink OBVIOUS
<1>r0. r \in Rts
  BY <1>i, <1>a DEF CallsOK, CallOK, Calling, ApplyPending
<1>r. r \in Rts /\ c \in Calls BY <1>r0
<1> DEFINE x == rt[r]
           yw1 == <<>>
           y1 == [x EXCEPT !.later = yw1]
<1>y0. x \in RuntimeType BY <1>r, <1>i DEF TypeOK
<1>yv1. yw1 \in Seq(Paths)
  OBVIOUS
<1>ye. rt' = [rt EXCEPT ![r] = y1]
  BY <1>a DEF ApplyPending
<1> HIDE DEF x, yw1
<1>y1. y1 \in RuntimeType /\ y1.later = yw1 /\ RtSame(x, y1, {"later"})
  BY <1>y0, <1>yv1, RtLater
<1> HIDE DEF y1
<1>ys. RtSame(x, y1, {"later"})
  BY <1>y1 DEF RtSame
<1>yf. rt' \in [Rts -> RuntimeType] /\ rt'[r] = y1 /\ \A s \in Rts : s # r => rt'[s] = rt[s]
  BY <1>ye, <1>r, <1>y1, <1>i DEF TypeOK
<1>y. RtChanges(r, {"later"}) /\ rt'[r].later = yw1
  BY <1>y1, <1>ys, <1>yf DEF x, RtChanges
<1>k. calls' = [calls EXCEPT ![c] = Idle] BY <1>a DEF Answered, ApplyPending
<1>kk. calls' \in [Calls -> CallType] /\ OthersKept(c) /\ calls'[c] = Idle
  BY <1>k, <1>i, <1>r, IdleType DEF TypeOK, OthersKept
<1>o. guest' = guest /\ UNCHANGED <<plan, left, server, doubt>>
  BY <1>a DEF ApplyPending
<1>. QED BY <1>r, <1>y, <1>kk, <1>o DEF x, yw1

(* A request the client sends has a runtime. *)
LEMMA SendIs ==
  ASSUME TypeOK, NEW c, NEW op \in Ops, Send(c, op)
  PROVE  plan' = plan /\ doubt' = doubt /\ left' \in [Ops -> Int] /\ calls[c] = Idle /\ MaySend(op)
BY DEF TypeOK, Send

(* The contents of a write are a value. *)
LEMMA NewVersionType ==
  ASSUME TypeOK PROVE NewVersion \in Int
<1>1. plan.budget \in [Ops -> Nat] BY PlansAssumption DEF TypeOK
<1>2. "write" \in Ops BY DEF Ops
<1> QED BY <1>1, <1>2 DEF TypeOK, NewVersion

(* The state of an interface as a number. *)
LEMMA BitType == \A b \in BOOLEAN : (IF b THEN 1 ELSE 0) \in Int
OBVIOUS

(* What Start changes. *)
LEMMA StartEffect ==
  ASSUME ChainInv, NEW c \in Calls, Start(c)
  PROVE  LET r == server IN
         /\ r \in Rts
         /\ RtChanges(r, {"state"})
         /\ rt'[r].state = "running"
         /\ GuestChanges(r, {"machine", "on"})
         /\ guest'[r].machine = "running"
         /\ guest'[r].on = IF guest[r].on = "off" THEN "booting" ELSE guest[r].on
         /\ calls' \in [Calls -> CallType] /\ OthersKept(c)
         /\ calls'[c].op = "start"
         /\ calls'[c].at = "ready"
         /\ calls'[c].rt = server
         /\ calls'[c].path = ""
         /\ calls'[c].arg = 1
         /\ calls'[c].seen = {}
         /\ UNCHANGED <<plan, server, doubt>> /\ left' \in [Ops -> Int] /\ calls[c] = Idle /\ MaySend("start")
<1> DEFINE r == server
<1>i. TypeOK /\ CallsOK BY DEF ChainInv
<1>a. Start(c) OBVIOUS
<1>r0. r \in Rts
  BY <1>i, <1>a, Zenon DEF TypeOK, Start
<1>r. r \in Rts /\ c \in Calls BY <1>r0
<1> DEFINE x == rt[r]
           y1 == [x EXCEPT !.state = "running"]
<1>y0. x \in RuntimeType BY <1>r, <1>i DEF TypeOK
<1>ye. rt' = [rt EXCEPT ![r] = y1]
  BY <1>a, Zenon DEF Start
<1> HIDE DEF x
<1>y1. y1 \in RuntimeType /\ y1.state = "running" /\ RtSame(x, y1, {"state"})
  BY <1>y0, RtState DEF States
<1> HIDE DEF y1
<1>ys. RtSame(x, y1, {"state"})
  BY <1>y1 DEF RtSame
<1>yf. rt' \in [Rts -> RuntimeType] /\ rt'[r] = y1 /\ \A s \in Rts : s # r => rt'[s] = rt[s]
  BY <1>ye, <1>r, <1>y1, <1>i DEF TypeOK
<1>y. RtChanges(r, {"state"}) /\ rt'[r].state = "running"
  BY <1>y1, <1>ys, <1>yf DEF x, RtChanges
<1> DEFINE g == guest[r]
           hw2 == IF g.on = "off" THEN "booting" ELSE g.on
           h1 == [g EXCEPT !.machine = "running"]
           h2 == [h1 EXCEPT !.on = hw2]
<1>h0. g \in GuestType BY <1>r, <1>i DEF TypeOK
<1>hv2. hw2 \in {"off", "booting", "up", "gone"}
  BY <1>h0, GuestParts
<1>he. guest' = [guest EXCEPT ![r] = h2]
  BY <1>a, Zenon DEF Start
<1> HIDE DEF g, hw2
<1>h1. h1 \in GuestType /\ h1.machine = "running" /\ GuestSame(g, h1, {"machine"})
  BY <1>h0, GuestMachine
<1> HIDE DEF h1
<1>h2. h2 \in GuestType /\ h2.on = hw2 /\ GuestSame(h1, h2, {"on"})
  BY <1>h1, <1>hv2, GuestOn
<1> HIDE DEF h2
<1>hs. GuestSame(g, h2, {"machine", "on"}) /\ h2.machine = "running"
  BY <1>h1, <1>h2 DEF GuestSame
<1>hf. guest' \in [Rts -> GuestType] /\ guest'[r] = h2 /\ \A s \in Rts : s # r => guest'[s] = guest[s]
  BY <1>he, <1>r, <1>h2, <1>i DEF TypeOK
<1>h. GuestChanges(r, {"machine", "on"}) /\ guest'[r].machine = "running" /\ guest'[r].on = hw2
  BY <1>h2, <1>hs, <1>hf DEF g, GuestChanges
<1> DEFINE call == [op |-> "start", at |-> "ready", rt |-> server, path |-> "", arg |-> 1, seen |-> {}]
<1>kr. call \in CallType
  BY <1>r DEF CallType, Ats, Ops, Rts
<1>k. calls' = [calls EXCEPT ![c] = call] BY <1>a, Zenon DEF Dispatched, Start
<1>kg. call.op = "start" /\ call.at = "ready" /\ call.rt = server /\ call.path = "" /\ call.arg = 1 /\ call.seen = {}
  BY CallFields
<1> HIDE DEF call
<1>kk. calls' \in [Calls -> CallType] /\ OthersKept(c) /\ calls'[c] = call
  BY <1>k, <1>kr, <1>i, <1>r DEF TypeOK, OthersKept
<1>o. UNCHANGED <<plan, server, doubt>> /\ left' \in [Ops -> Int] /\ calls[c] = Idle /\ MaySend("start")
  BY <1>a, <1>i, SendIs, Zenon DEF Start, Ops
<1>. QED BY <1>r, <1>y, <1>h, <1>kk, <1>kg, <1>o, Zenon DEF x, g, hw2

(* A write to a running guest is chained. *)
LEMMA WriteLive ==
  ASSUME ChainInv, NEW c \in Calls, NEW p \in Paths, WriteFile(c)!(p), Live(server)
  PROVE  LET r == server IN
         /\ r \in Rts
         /\ RtChanges(r, {"tail"})
         /\ rt'[r].tail = Append(rt[r].tail, <<c, NewVersion>>)
         /\ calls' \in [Calls -> CallType] /\ OthersKept(c)
         /\ calls'[c].op = "write"
         /\ calls'[c].at = "apply"
         /\ calls'[c].rt = server
         /\ calls'[c].path = p
         /\ calls'[c].arg = NewVersion
         /\ calls'[c].seen = {}
         /\ guest' = guest /\ UNCHANGED <<plan, server, doubt>> /\ left' \in [Ops -> Int] /\ calls[c] = Idle /\ MaySend("write")
<1> DEFINE r == server
<1>i. TypeOK /\ CallsOK BY DEF ChainInv
<1>a. WriteFile(c)!(p) /\ Live(server) OBVIOUS
<1>r0. r \in Rts
  BY <1>i, <1>a DEF TypeOK, Queued, Live
<1>r. r \in Rts /\ c \in Calls BY <1>r0
<1>rd. NewVersion \in Int /\ {} \in SUBSET Int BY <1>i, NewVersionType
<1>re. "write" \in Ops \cup {"none"} /\ "apply" \in Ats /\ server \in 0 .. 2
  BY <1>r DEF Ops, Ats, Chained, Rts
<1>rp. p \in Paths \cup {""} BY Zenon
<1> DEFINE x == rt[r]
           yw1 == Append(x.tail, <<c, NewVersion>>)
           y1 == [x EXCEPT !.tail = yw1]
<1>y0. x \in RuntimeType BY <1>r, <1>i DEF TypeOK
<1>yv1. yw1 \in Seq(Calls \X Int)
  BY <1>r, <1>i, NewVersionType, QueueType
<1>ye. rt' = [rt EXCEPT ![r] = y1]
  BY <1>a DEF Queued, Live
<1> HIDE DEF x, yw1
<1>y1. y1 \in RuntimeType /\ y1.tail = yw1 /\ RtSame(x, y1, {"tail"})
  BY <1>y0, <1>yv1, RtTail
<1> HIDE DEF y1
<1>ys. RtSame(x, y1, {"tail"})
  BY <1>y1 DEF RtSame
<1>yf. rt' \in [Rts -> RuntimeType] /\ rt'[r] = y1 /\ \A s \in Rts : s # r => rt'[s] = rt[s]
  BY <1>ye, <1>r, <1>y1, <1>i DEF TypeOK
<1>y. RtChanges(r, {"tail"}) /\ rt'[r].tail = yw1
  BY <1>y1, <1>ys, <1>yf DEF x, RtChanges
<1> DEFINE call == [op |-> "write", at |-> "apply", rt |-> server, path |-> p, arg |-> NewVersion, seen |-> {}]
<1>kr. call \in CallType
  BY <1>rd, <1>re, <1>rp, Zenon DEF CallType
<1>k. calls' = [calls EXCEPT ![c] = call] BY <1>a DEF Dispatched, Queued, Live
<1>kg. call.op = "write" /\ call.at = "apply" /\ call.rt = server /\ call.path = p /\ call.arg = NewVersion /\ call.seen = {}
  BY CallFields
<1> HIDE DEF call
<1>kk. calls' \in [Calls -> CallType] /\ OthersKept(c) /\ calls'[c] = call
  BY <1>k, <1>kr, <1>i, <1>r DEF TypeOK, OthersKept
<1>o. guest' = guest /\ UNCHANGED <<plan, server, doubt>> /\ left' \in [Ops -> Int] /\ calls[c] = Idle /\ MaySend("write")
  BY <1>a, <1>i, SendIs DEF Queued, Live, Ops
<1>. QED BY <1>r, <1>y, <1>kk, <1>kg, <1>o DEF x, yw1

(* A write before the first boot changes the host's copy. *)
LEMMA WriteEarly ==
  ASSUME ChainInv, NEW c \in Calls, NEW p \in Paths, WriteFile(c)!(p), ~Live(server), rt[server].state = "initialized", ~rt[server].booted
  PROVE  LET r == server IN
         /\ r \in Rts
         /\ RtChanges(r, {"files"})
         /\ rt'[r].files = [rt[r].files EXCEPT ![p] = NewVersion]
         /\ GuestChanges(r, {"boot", "bootUp"})
         /\ guest'[r].boot = rt'[r].files
         /\ guest'[r].bootUp = rt[r].up
         /\ calls' = calls /\ UNCHANGED <<plan, server, doubt>> /\ left' \in [Ops -> Int] /\ calls[c] = Idle /\ MaySend("write")
<1> DEFINE r == server
<1>i. TypeOK /\ CallsOK BY DEF ChainInv
<1>a. WriteFile(c)!(p) /\ ~Live(server) /\ rt[server].state = "initialized" /\ ~rt[server].booted OBVIOUS
<1>r0. r \in Rts
  BY <1>i, <1>a DEF TypeOK, BootArchive
<1>r. r \in Rts /\ c \in Calls BY <1>r0
<1> DEFINE x == rt[r]
           yw1 == [x.files EXCEPT ![p] = NewVersion]
           y1 == [x EXCEPT !.files = yw1]
<1>y0. x \in RuntimeType BY <1>r, <1>i DEF TypeOK
<1>yv1. yw1 \in [Paths -> Int]
  BY <1>y0, <1>i, NewVersionType, RtParts
<1>ye. rt' = [rt EXCEPT ![r] = y1]
  BY <1>a DEF BootArchive
<1> HIDE DEF x, yw1
<1>y1. y1 \in RuntimeType /\ y1.files = yw1 /\ RtSame(x, y1, {"files"})
  BY <1>y0, <1>yv1, RtFiles
<1> HIDE DEF y1
<1>ys. RtSame(x, y1, {"files"})
  BY <1>y1 DEF RtSame
<1>yf. rt' \in [Rts -> RuntimeType] /\ rt'[r] = y1 /\ \A s \in Rts : s # r => rt'[s] = rt[s]
  BY <1>ye, <1>r, <1>y1, <1>i DEF TypeOK
<1>y. RtChanges(r, {"files"}) /\ rt'[r].files = yw1
  BY <1>y1, <1>ys, <1>yf DEF x, RtChanges
<1> DEFINE g == guest[r]
           hw1 == rt'[r].files
           hw2 == rt[r].up
           h1 == [g EXCEPT !.boot = hw1]
           h2 == [h1 EXCEPT !.bootUp = hw2]
<1>h0. g \in GuestType BY <1>r, <1>i DEF TypeOK
<1>hv1. hw1 \in [Paths -> Int]
  BY <1>y, <1>i, <1>r, RtParts DEF RtChanges
<1>hv2. hw2 \in BOOLEAN
  BY <1>i, <1>r, Types, Zenon
<1>he. guest' = [guest EXCEPT ![r] = h2]
  BY <1>a DEF BootArchive
<1> HIDE DEF g, hw1, hw2
<1>h1. h1 \in GuestType /\ h1.boot = hw1 /\ GuestSame(g, h1, {"boot"})
  BY <1>h0, <1>hv1, GuestBoot
<1> HIDE DEF h1
<1>h2. h2 \in GuestType /\ h2.bootUp = hw2 /\ GuestSame(h1, h2, {"bootUp"})
  BY <1>h1, <1>hv2, GuestBootUp
<1> HIDE DEF h2
<1>hs. GuestSame(g, h2, {"boot", "bootUp"}) /\ h2.boot = hw1
  BY <1>h1, <1>h2 DEF GuestSame
<1>hf. guest' \in [Rts -> GuestType] /\ guest'[r] = h2 /\ \A s \in Rts : s # r => guest'[s] = guest[s]
  BY <1>he, <1>r, <1>h2, <1>i DEF TypeOK
<1>h. GuestChanges(r, {"boot", "bootUp"}) /\ guest'[r].boot = hw1 /\ guest'[r].bootUp = hw2
  BY <1>h2, <1>hs, <1>hf DEF g, GuestChanges
<1>o. calls' = calls /\ UNCHANGED <<plan, server, doubt>> /\ left' \in [Ops -> Int] /\ calls[c] = Idle /\ MaySend("write")
  BY <1>a, <1>i, SendIs DEF BootArchive, Ops
<1>. QED BY <1>r, <1>y, <1>h, <1>o DEF x, yw1, g, hw1, hw2

(* A write to a stopped guest is left pending. *)
LEMMA WriteLater ==
  ASSUME ChainInv, NEW c \in Calls, NEW p \in Paths, WriteFile(c)!(p), ~Live(server), ~(rt[server].state = "initialized" /\ ~rt[server].booted)
  PROVE  LET r == server IN
         /\ r \in Rts
         /\ RtChanges(r, {"files", "later"})
         /\ rt'[r].files = [rt[r].files EXCEPT ![p] = NewVersion]
         /\ rt'[r].later = Noted(rt[r].later, p)
         /\ guest' = guest /\ calls' = calls /\ UNCHANGED <<plan, server, doubt>> /\ left' \in [Ops -> Int] /\ calls[c] = Idle /\ MaySend("write")
<1> DEFINE r == server
<1>i. TypeOK /\ CallsOK BY DEF ChainInv
<1>a. WriteFile(c)!(p) /\ ~Live(server) /\ ~(rt[server].state = "initialized" /\ ~rt[server].booted) OBVIOUS
<1>r0. r \in Rts
  BY <1>i, <1>a DEF TypeOK, Live
<1>r. r \in Rts /\ c \in Calls BY <1>r0
<1> DEFINE x == rt[r]
           yw1 == [x.files EXCEPT ![p] = NewVersion]
           yw2 == Noted(x.later, p)
           y1 == [x EXCEPT !.files = yw1]
           y2 == [y1 EXCEPT !.later = yw2]
<1>y0. x \in RuntimeType BY <1>r, <1>i DEF TypeOK
<1>yv1. yw1 \in [Paths -> Int]
  BY <1>y0, <1>i, NewVersionType, RtParts
<1>yv2. yw2 \in Seq(Paths)
  BY <1>y0, RtParts DEF Noted
<1>ye. rt' = [rt EXCEPT ![r] = y2]
  BY <1>a DEF Live
<1> HIDE DEF x, yw1, yw2
<1>y1. y1 \in RuntimeType /\ y1.files = yw1 /\ RtSame(x, y1, {"files"})
  BY <1>y0, <1>yv1, RtFiles
<1> HIDE DEF y1
<1>y2. y2 \in RuntimeType /\ y2.later = yw2 /\ RtSame(y1, y2, {"later"})
  BY <1>y1, <1>yv2, RtLater
<1> HIDE DEF y2
<1>ys. RtSame(x, y2, {"files", "later"}) /\ y2.files = yw1
  BY <1>y1, <1>y2 DEF RtSame
<1>yf. rt' \in [Rts -> RuntimeType] /\ rt'[r] = y2 /\ \A s \in Rts : s # r => rt'[s] = rt[s]
  BY <1>ye, <1>r, <1>y2, <1>i DEF TypeOK
<1>y. RtChanges(r, {"files", "later"}) /\ rt'[r].files = yw1 /\ rt'[r].later = yw2
  BY <1>y2, <1>ys, <1>yf DEF x, RtChanges
<1>o. guest' = guest /\ calls' = calls /\ UNCHANGED <<plan, server, doubt>> /\ left' \in [Ops -> Int] /\ calls[c] = Idle /\ MaySend("write")
  BY <1>a, <1>i, SendIs DEF Live, Ops
<1>. QED BY <1>r, <1>y, <1>o DEF x, yw1, yw2

(* A setInterfaceState of a running guest is chained. *)
LEMMA LinkLive ==
  ASSUME ChainInv, NEW c \in Calls, SetInterfaceState(c), Live(server)
  PROVE  LET r == server IN
         /\ r \in Rts
         /\ RtChanges(r, {"up", "tail"})
         /\ rt'[r].up = ~rt[r].up
         /\ rt'[r].tail = Append(rt[r].tail, <<c, IF ~rt[r].up THEN 1 ELSE 0>>)
         /\ calls' \in [Calls -> CallType] /\ OthersKept(c)
         /\ calls'[c].op = "link"
         /\ calls'[c].at = "link"
         /\ calls'[c].rt = server
         /\ calls'[c].path = ""
         /\ calls'[c].arg = IF ~rt[server].up THEN 1 ELSE 0
         /\ calls'[c].seen = {}
         /\ guest' = guest /\ UNCHANGED <<plan, server, doubt>> /\ left' \in [Ops -> Int] /\ calls[c] = Idle /\ MaySend("link")
<1> DEFINE r == server
<1>i. TypeOK /\ CallsOK BY DEF ChainInv
<1>a. SetInterfaceState(c) /\ Live(server) OBVIOUS
<1>r0. r \in Rts
  BY <1>i, <1>a, Zenon DEF TypeOK, SetInterfaceState, Live
<1>r. r \in Rts /\ c \in Calls BY <1>r0
<1> DEFINE bit == IF ~rt[server].up THEN 1 ELSE 0
<1> DEFINE x == rt[r]
           yw1 == ~x.up
           yw2 == Append(x.tail, <<c, IF ~x.up THEN 1 ELSE 0>>)
           y1 == [x EXCEPT !.up = yw1]
           y2 == [y1 EXCEPT !.tail = yw2]
<1>y0. x \in RuntimeType BY <1>r, <1>i DEF TypeOK
<1>yv1. yw1 \in BOOLEAN
  BY <1>y0, RtParts
<1>yv2. yw2 \in Seq(Calls \X Int)
  BY <1>r, <1>y0, RtParts, FlagType
<1>ye. rt' = [rt EXCEPT ![r] = y2]
  BY <1>a, Zenon DEF SetInterfaceState, Live
<1> HIDE DEF x, yw1, yw2
<1>y1. y1 \in RuntimeType /\ y1.up = yw1 /\ RtSame(x, y1, {"up"})
  BY <1>y0, <1>yv1, RtUp
<1> HIDE DEF y1
<1>y2. y2 \in RuntimeType /\ y2.tail = yw2 /\ RtSame(y1, y2, {"tail"})
  BY <1>y1, <1>yv2, RtTail
<1> HIDE DEF y2
<1>ys. RtSame(x, y2, {"up", "tail"}) /\ y2.up = yw1
  BY <1>y1, <1>y2 DEF RtSame
<1>yf. rt' \in [Rts -> RuntimeType] /\ rt'[r] = y2 /\ \A s \in Rts : s # r => rt'[s] = rt[s]
  BY <1>ye, <1>r, <1>y2, <1>i DEF TypeOK
<1>y. RtChanges(r, {"up", "tail"}) /\ rt'[r].up = yw1 /\ rt'[r].tail = yw2
  BY <1>y2, <1>ys, <1>yf DEF x, RtChanges
<1> DEFINE call == [op |-> "link", at |-> "link", rt |-> server, path |-> "", arg |-> bit, seen |-> {}]
<1>kr. call \in CallType
  BY <1>r, BitType DEF CallType, Ats, Chained, Ops, Rts
<1>k. calls' = [calls EXCEPT ![c] = call] BY <1>a, Zenon DEF Dispatched, SetInterfaceState, Live
<1> HIDE DEF bit
<1>kg. call.op = "link" /\ call.at = "link" /\ call.rt = server /\ call.path = "" /\ call.arg = bit /\ call.seen = {}
  BY CallFields
<1> HIDE DEF call
<1>kk. calls' \in [Calls -> CallType] /\ OthersKept(c) /\ calls'[c] = call
  BY <1>k, <1>kr, <1>i, <1>r DEF TypeOK, OthersKept
<1>o. guest' = guest /\ UNCHANGED <<plan, server, doubt>> /\ left' \in [Ops -> Int] /\ calls[c] = Idle /\ MaySend("link")
  BY <1>a, <1>i, SendIs, Zenon DEF SetInterfaceState, Live, Ops
<1>. QED BY <1>r, <1>y, <1>kk, <1>kg, <1>o, Zenon DEF bit, x, yw1, yw2

(* Before the first boot it changes the host's copy. *)
LEMMA LinkEarly ==
  ASSUME ChainInv, NEW c \in Calls, SetInterfaceState(c), ~Live(server), rt[server].state = "initialized", ~rt[server].booted
  PROVE  LET r == server IN
         /\ r \in Rts
         /\ RtChanges(r, {"up"})
         /\ rt'[r].up = ~rt[r].up
         /\ GuestChanges(r, {"boot", "bootUp"})
         /\ guest'[r].boot = rt[r].files
         /\ guest'[r].bootUp = ~rt[r].up
         /\ calls' = calls /\ UNCHANGED <<plan, server, doubt>> /\ left' \in [Ops -> Int] /\ calls[c] = Idle /\ MaySend("link")
<1> DEFINE r == server
<1>i. TypeOK /\ CallsOK BY DEF ChainInv
<1>a. SetInterfaceState(c) /\ ~Live(server) /\ rt[server].state = "initialized" /\ ~rt[server].booted OBVIOUS
<1>r0. r \in Rts
  BY <1>i, <1>a, Zenon DEF TypeOK, SetInterfaceState, BootArchive
<1>r. r \in Rts /\ c \in Calls BY <1>r0
<1> DEFINE x == rt[r]
           yw1 == ~x.up
           y1 == [x EXCEPT !.up = yw1]
<1>y0. x \in RuntimeType BY <1>r, <1>i DEF TypeOK
<1>yv1. yw1 \in BOOLEAN
  BY <1>y0, RtParts
<1>ye. rt' = [rt EXCEPT ![r] = y1]
  BY <1>a, Zenon DEF SetInterfaceState, BootArchive
<1> HIDE DEF x, yw1
<1>y1. y1 \in RuntimeType /\ y1.up = yw1 /\ RtSame(x, y1, {"up"})
  BY <1>y0, <1>yv1, RtUp
<1> HIDE DEF y1
<1>ys. RtSame(x, y1, {"up"})
  BY <1>y1 DEF RtSame
<1>yf. rt' \in [Rts -> RuntimeType] /\ rt'[r] = y1 /\ \A s \in Rts : s # r => rt'[s] = rt[s]
  BY <1>ye, <1>r, <1>y1, <1>i DEF TypeOK
<1>y. RtChanges(r, {"up"}) /\ rt'[r].up = yw1
  BY <1>y1, <1>ys, <1>yf DEF x, RtChanges
<1> DEFINE g == guest[r]
           hw1 == rt[r].files
           hw2 == ~rt[r].up
           h1 == [g EXCEPT !.boot = hw1]
           h2 == [h1 EXCEPT !.bootUp = hw2]
<1>h0. g \in GuestType BY <1>r, <1>i DEF TypeOK
<1>hv1. hw1 \in [Paths -> Int]
  BY <1>i, <1>r, Types, Zenon
<1>hv2. hw2 \in BOOLEAN
  BY <1>i, <1>r, Types, Zenon
<1>he. guest' = [guest EXCEPT ![r] = h2]
  BY <1>a, Zenon DEF SetInterfaceState, BootArchive
<1> HIDE DEF g, hw1, hw2
<1>h1. h1 \in GuestType /\ h1.boot = hw1 /\ GuestSame(g, h1, {"boot"})
  BY <1>h0, <1>hv1, GuestBoot
<1> HIDE DEF h1
<1>h2. h2 \in GuestType /\ h2.bootUp = hw2 /\ GuestSame(h1, h2, {"bootUp"})
  BY <1>h1, <1>hv2, GuestBootUp
<1> HIDE DEF h2
<1>hs. GuestSame(g, h2, {"boot", "bootUp"}) /\ h2.boot = hw1
  BY <1>h1, <1>h2 DEF GuestSame
<1>hf. guest' \in [Rts -> GuestType] /\ guest'[r] = h2 /\ \A s \in Rts : s # r => guest'[s] = guest[s]
  BY <1>he, <1>r, <1>h2, <1>i DEF TypeOK
<1>h. GuestChanges(r, {"boot", "bootUp"}) /\ guest'[r].boot = hw1 /\ guest'[r].bootUp = hw2
  BY <1>h2, <1>hs, <1>hf DEF g, GuestChanges
<1>o. calls' = calls /\ UNCHANGED <<plan, server, doubt>> /\ left' \in [Ops -> Int] /\ calls[c] = Idle /\ MaySend("link")
  BY <1>a, <1>i, SendIs, Zenon DEF SetInterfaceState, BootArchive, Ops
<1>. QED BY <1>r, <1>y, <1>h, <1>o DEF x, yw1, g, hw1, hw2

(* For a stopped guest it is left pending. *)
LEMMA LinkLater ==
  ASSUME ChainInv, NEW c \in Calls, SetInterfaceState(c), ~Live(server), ~(rt[server].state = "initialized" /\ ~rt[server].booted)
  PROVE  LET r == server IN
         /\ r \in Rts
         /\ RtChanges(r, {"up", "laterLink"})
         /\ rt'[r].up = ~rt[r].up
         /\ rt'[r].laterLink = TRUE
         /\ guest' = guest /\ calls' = calls /\ UNCHANGED <<plan, server, doubt>> /\ left' \in [Ops -> Int] /\ calls[c] = Idle /\ MaySend("link")
<1> DEFINE r == server
<1>i. TypeOK /\ CallsOK BY DEF ChainInv
<1>a. SetInterfaceState(c) /\ ~Live(server) /\ ~(rt[server].state = "initialized" /\ ~rt[server].booted) OBVIOUS
<1>r0. r \in Rts
  BY <1>i, <1>a, Zenon DEF TypeOK, SetInterfaceState
<1>r. r \in Rts /\ c \in Calls BY <1>r0
<1> DEFINE x == rt[r]
           yw1 == ~x.up
           y1 == [x EXCEPT !.up = yw1]
           y2 == [y1 EXCEPT !.laterLink = TRUE]
<1>y0. x \in RuntimeType BY <1>r, <1>i DEF TypeOK
<1>yv1. yw1 \in BOOLEAN
  BY <1>y0, RtParts
<1>ye. rt' = [rt EXCEPT ![r] = y2]
  BY <1>a, Zenon DEF SetInterfaceState
<1> HIDE DEF x, yw1
<1>y1. y1 \in RuntimeType /\ y1.up = yw1 /\ RtSame(x, y1, {"up"})
  BY <1>y0, <1>yv1, RtUp
<1> HIDE DEF y1
<1>y2. y2 \in RuntimeType /\ y2.laterLink = TRUE /\ RtSame(y1, y2, {"laterLink"})
  BY <1>y1, RtLaterLink
<1> HIDE DEF y2
<1>ys. RtSame(x, y2, {"up", "laterLink"}) /\ y2.up = yw1
  BY <1>y1, <1>y2 DEF RtSame
<1>yf. rt' \in [Rts -> RuntimeType] /\ rt'[r] = y2 /\ \A s \in Rts : s # r => rt'[s] = rt[s]
  BY <1>ye, <1>r, <1>y2, <1>i DEF TypeOK
<1>y. RtChanges(r, {"up", "laterLink"}) /\ rt'[r].up = yw1 /\ rt'[r].laterLink = TRUE
  BY <1>y2, <1>ys, <1>yf DEF x, RtChanges
<1>o. guest' = guest /\ calls' = calls /\ UNCHANGED <<plan, server, doubt>> /\ left' \in [Ops -> Int] /\ calls[c] = Idle /\ MaySend("link")
  BY <1>a, <1>i, SendIs, Zenon DEF SetInterfaceState, Ops
<1>. QED BY <1>r, <1>y, <1>o DEF x, yw1

(* What ReadFile changes. *)
LEMMA ReadFileEffect ==
  ASSUME ChainInv, NEW c \in Calls, NEW p \in Paths, ReadFile(c)!(p)
  PROVE  LET r == server IN
         /\ r \in Rts
         /\ RtChanges(r, {"tail"})
         /\ rt'[r].tail = Append(rt[r].tail, <<c, 0>>)
         /\ calls' \in [Calls -> CallType] /\ OthersKept(c)
         /\ calls'[c].op = "read"
         /\ calls'[c].at = "read"
         /\ calls'[c].rt = server
         /\ calls'[c].path = p
         /\ calls'[c].arg = 0
         /\ calls'[c].seen = {guest[server].files[p]}
         /\ guest' = guest /\ UNCHANGED <<plan, server, doubt>> /\ left' \in [Ops -> Int] /\ calls[c] = Idle /\ MaySend("read")
<1> DEFINE r == server
<1>i. TypeOK /\ CallsOK BY DEF ChainInv
<1>a. ReadFile(c)!(p) OBVIOUS
<1>r0. r \in Rts
  BY <1>i, <1>a DEF TypeOK, Queued
<1>r. r \in Rts /\ c \in Calls BY <1>r0
<1>re. "read" \in Ops \cup {"none"} /\ "read" \in Ats /\ server \in 0 .. 2
  BY <1>r DEF Ops, Ats, Chained, Rts
<1>rp. p \in Paths \cup {""} BY Zenon
<1>rd. 0 \in Int /\ {guest[server].files[p]} \in SUBSET Int
  <2>1. guest[server].files \in [Paths -> Int] BY <1>i, <1>r, Types, Zenon
  <2> QED BY <2>1
<1> DEFINE x == rt[r]
           yw1 == Append(x.tail, <<c, 0>>)
           y1 == [x EXCEPT !.tail = yw1]
<1>y0. x \in RuntimeType BY <1>r, <1>i DEF TypeOK
<1>yv1. yw1 \in Seq(Calls \X Int)
  BY <1>r, QueueType
<1>ye. rt' = [rt EXCEPT ![r] = y1]
  BY <1>a DEF Queued
<1> HIDE DEF x, yw1
<1>y1. y1 \in RuntimeType /\ y1.tail = yw1 /\ RtSame(x, y1, {"tail"})
  BY <1>y0, <1>yv1, RtTail
<1> HIDE DEF y1
<1>ys. RtSame(x, y1, {"tail"})
  BY <1>y1 DEF RtSame
<1>yf. rt' \in [Rts -> RuntimeType] /\ rt'[r] = y1 /\ \A s \in Rts : s # r => rt'[s] = rt[s]
  BY <1>ye, <1>r, <1>y1, <1>i DEF TypeOK
<1>y. RtChanges(r, {"tail"}) /\ rt'[r].tail = yw1
  BY <1>y1, <1>ys, <1>yf DEF x, RtChanges
<1> DEFINE call == [op |-> "read", at |-> "read", rt |-> server, path |-> p, arg |-> 0, seen |-> {guest[server].files[p]}]
<1>kr. call \in CallType
  BY <1>rd, <1>re, <1>rp, Zenon DEF CallType
<1>k. calls' = [calls EXCEPT ![c] = call] BY <1>a DEF Dispatched, Queued
<1>kg. call.op = "read" /\ call.at = "read" /\ call.rt = server /\ call.path = p /\ call.arg = 0 /\ call.seen = {guest[server].files[p]}
  BY CallFields
<1> HIDE DEF call
<1>kk. calls' \in [Calls -> CallType] /\ OthersKept(c) /\ calls'[c] = call
  BY <1>k, <1>kr, <1>i, <1>r DEF TypeOK, OthersKept
<1>o. guest' = guest /\ UNCHANGED <<plan, server, doubt>> /\ left' \in [Ops -> Int] /\ calls[c] = Idle /\ MaySend("read")
  BY <1>a, <1>i, SendIs DEF Queued, Ops
<1>. QED BY <1>r, <1>y, <1>kk, <1>kg, <1>o DEF x, yw1

(* What Collect changes. *)
LEMMA CollectEffect ==
  ASSUME ChainInv, NEW c \in Calls, CollectPgoProfiles(c)
  PROVE  LET r == server IN
         /\ r \in Rts
         /\ RtChanges(r, {"tail"})
         /\ rt'[r].tail = Append(rt[r].tail, <<c, 0>>)
         /\ calls' \in [Calls -> CallType] /\ OthersKept(c)
         /\ calls'[c].op = "collect"
         /\ calls'[c].at = "collect"
         /\ calls'[c].rt = server
         /\ calls'[c].path = ""
         /\ calls'[c].arg = 0
         /\ calls'[c].seen = {}
         /\ guest' = guest /\ UNCHANGED <<plan, server, doubt>> /\ left' \in [Ops -> Int] /\ calls[c] = Idle /\ MaySend("collect")
<1> DEFINE r == server
<1>i. TypeOK /\ CallsOK BY DEF ChainInv
<1>a. CollectPgoProfiles(c) OBVIOUS
<1>r0. r \in Rts
  BY <1>i, <1>a, Zenon DEF TypeOK, CollectPgoProfiles, Queued
<1>r. r \in Rts /\ c \in Calls BY <1>r0
<1> DEFINE x == rt[r]
           yw1 == Append(x.tail, <<c, 0>>)
           y1 == [x EXCEPT !.tail = yw1]
<1>y0. x \in RuntimeType BY <1>r, <1>i DEF TypeOK
<1>yv1. yw1 \in Seq(Calls \X Int)
  BY <1>r, QueueType
<1>ye. rt' = [rt EXCEPT ![r] = y1]
  BY <1>a, Zenon DEF CollectPgoProfiles, Queued
<1> HIDE DEF x, yw1
<1>y1. y1 \in RuntimeType /\ y1.tail = yw1 /\ RtSame(x, y1, {"tail"})
  BY <1>y0, <1>yv1, RtTail
<1> HIDE DEF y1
<1>ys. RtSame(x, y1, {"tail"})
  BY <1>y1 DEF RtSame
<1>yf. rt' \in [Rts -> RuntimeType] /\ rt'[r] = y1 /\ \A s \in Rts : s # r => rt'[s] = rt[s]
  BY <1>ye, <1>r, <1>y1, <1>i DEF TypeOK
<1>y. RtChanges(r, {"tail"}) /\ rt'[r].tail = yw1
  BY <1>y1, <1>ys, <1>yf DEF x, RtChanges
<1> DEFINE call == [op |-> "collect", at |-> "collect", rt |-> server, path |-> "", arg |-> 0, seen |-> {}]
<1>kr. call \in CallType
  BY <1>r DEF CallType, Ats, Chained, Ops, Rts
<1>k. calls' = [calls EXCEPT ![c] = call] BY <1>a, Zenon DEF Dispatched, CollectPgoProfiles, Queued
<1>kg. call.op = "collect" /\ call.at = "collect" /\ call.rt = server /\ call.path = "" /\ call.arg = 0 /\ call.seen = {}
  BY CallFields
<1> HIDE DEF call
<1>kk. calls' \in [Calls -> CallType] /\ OthersKept(c) /\ calls'[c] = call
  BY <1>k, <1>kr, <1>i, <1>r DEF TypeOK, OthersKept
<1>o. guest' = guest /\ UNCHANGED <<plan, server, doubt>> /\ left' \in [Ops -> Int] /\ calls[c] = Idle /\ MaySend("collect")
  BY <1>a, <1>i, SendIs, Zenon DEF CollectPgoProfiles, Queued, Ops
<1>. QED BY <1>r, <1>y, <1>kk, <1>kg, <1>o, Zenon DEF x, yw1

(* What Stop changes. *)
LEMMA StopEffect ==
  ASSUME ChainInv, NEW c \in Calls, Stop(c)
  PROVE  LET r == server IN
         /\ r \in Rts
         /\ GuestChanges(r, {"machine"})
         /\ guest'[r].machine = IF guest[r].machine = "running" THEN "stopped" ELSE guest[r].machine
         /\ calls' \in [Calls -> CallType] /\ OthersKept(c)
         /\ calls'[c].op = "stop"
         /\ calls'[c].at = "stopping"
         /\ calls'[c].rt = server
         /\ calls'[c].path = ""
         /\ calls'[c].arg = 0
         /\ calls'[c].seen = {}
         /\ rt' = rt /\ UNCHANGED <<plan, server, doubt>> /\ left' \in [Ops -> Int] /\ calls[c] = Idle /\ MaySend("stop")
<1> DEFINE r == server
<1>i. TypeOK /\ CallsOK BY DEF ChainInv
<1>a. Stop(c) OBVIOUS
<1>r0. r \in Rts
  BY <1>i, <1>a, Zenon DEF TypeOK, Stop
<1>r. r \in Rts /\ c \in Calls BY <1>r0
<1> DEFINE g == guest[r]
           hw1 == IF g.machine = "running" THEN "stopped" ELSE g.machine
           h1 == [g EXCEPT !.machine = hw1]
<1>h0. g \in GuestType BY <1>r, <1>i DEF TypeOK
<1>hv1. hw1 \in {"none", "stopped", "running", "destroyed"}
  BY <1>h0, GuestParts
<1>he. guest' = [guest EXCEPT ![r] = h1]
  BY <1>a, Zenon DEF Stop
<1> HIDE DEF g, hw1
<1>h1. h1 \in GuestType /\ h1.machine = hw1 /\ GuestSame(g, h1, {"machine"})
  BY <1>h0, <1>hv1, GuestMachine
<1> HIDE DEF h1
<1>hs. GuestSame(g, h1, {"machine"})
  BY <1>h1 DEF GuestSame
<1>hf. guest' \in [Rts -> GuestType] /\ guest'[r] = h1 /\ \A s \in Rts : s # r => guest'[s] = guest[s]
  BY <1>he, <1>r, <1>h1, <1>i DEF TypeOK
<1>h. GuestChanges(r, {"machine"}) /\ guest'[r].machine = hw1
  BY <1>h1, <1>hs, <1>hf DEF g, GuestChanges
<1> DEFINE call == [op |-> "stop", at |-> "stopping", rt |-> server, path |-> "", arg |-> 0, seen |-> {}]
<1>kr. call \in CallType
  BY <1>r DEF CallType, Ats, Ops, Rts
<1>k. calls' = [calls EXCEPT ![c] = call] BY <1>a, Zenon DEF Dispatched, Stop
<1>kg. call.op = "stop" /\ call.at = "stopping" /\ call.rt = server /\ call.path = "" /\ call.arg = 0 /\ call.seen = {}
  BY CallFields
<1> HIDE DEF call
<1>kk. calls' \in [Calls -> CallType] /\ OthersKept(c) /\ calls'[c] = call
  BY <1>k, <1>kr, <1>i, <1>r DEF TypeOK, OthersKept
<1>o. rt' = rt /\ UNCHANGED <<plan, server, doubt>> /\ left' \in [Ops -> Int] /\ calls[c] = Idle /\ MaySend("stop")
  BY <1>a, <1>i, SendIs, Zenon DEF Stop, Ops
<1>. QED BY <1>r, <1>h, <1>kk, <1>kg, <1>o, Zenon DEF g, hw1

(* A write whose APPLY was answered settles. *)
LEMMA AcknowledgedWrite ==
  ASSUME ChainInv, NEW c \in Calls, Acknowledged(c), calls[c].op = "write"
  PROVE  LET r == calls[c].rt IN
         /\ r \in Rts
         /\ RtChanges(r, {"tail", "files"})
         /\ rt'[r].tail = Tail(rt[r].tail)
         /\ rt'[r].files = [rt[r].files EXCEPT ![calls[c].path] = calls[c].arg]
         /\ calls' \in [Calls -> CallType] /\ OthersKept(c) /\ calls'[c] = Idle
         /\ guest' = guest /\ UNCHANGED <<plan, left, server, doubt>>
<1> DEFINE r == calls[c].rt
<1>i. TypeOK /\ CallsOK BY DEF ChainInv
<1>a. Acknowledged(c) /\ calls[c].op = "write" OBVIOUS
<1>r0. r \in Rts
  BY <1>i, <1>a DEF CallsOK, CallOK, Calling, Acknowledged, Settled
<1>r. r \in Rts /\ c \in Calls BY <1>r0
<1> DEFINE x == rt[r]
           yw1 == Tail(x.tail)
           yw2 == [x.files EXCEPT ![calls[c].path] = calls[c].arg]
           y1 == [x EXCEPT !.tail = yw1]
           y2 == [y1 EXCEPT !.files = yw2]
<1>y0. x \in RuntimeType BY <1>r, <1>i DEF TypeOK
<1>yv1. yw1 \in Seq(Calls \X Int)
  BY <1>a, <1>r, SettledType DEF OnTail, InTurn, Chained, Calling, Acknowledged
<1>yv2. yw2 \in [Paths -> Int]
  BY <1>y0, <1>i, <1>r, Types, RtParts, Zenon
<1>ye. rt' = [rt EXCEPT ![r] = y2]
  BY <1>a DEF Acknowledged, Settled
<1> HIDE DEF x, yw1, yw2
<1>y1. y1 \in RuntimeType /\ y1.tail = yw1 /\ RtSame(x, y1, {"tail"})
  BY <1>y0, <1>yv1, RtTail
<1> HIDE DEF y1
<1>y2. y2 \in RuntimeType /\ y2.files = yw2 /\ RtSame(y1, y2, {"files"})
  BY <1>y1, <1>yv2, RtFiles
<1> HIDE DEF y2
<1>ys. RtSame(x, y2, {"tail", "files"}) /\ y2.tail = yw1
  BY <1>y1, <1>y2 DEF RtSame
<1>yf. rt' \in [Rts -> RuntimeType] /\ rt'[r] = y2 /\ \A s \in Rts : s # r => rt'[s] = rt[s]
  BY <1>ye, <1>r, <1>y2, <1>i DEF TypeOK
<1>y. RtChanges(r, {"tail", "files"}) /\ rt'[r].tail = yw1 /\ rt'[r].files = yw2
  BY <1>y2, <1>ys, <1>yf DEF x, RtChanges
<1>k. calls' = [calls EXCEPT ![c] = Idle] BY <1>a DEF Answered, Acknowledged, Settled
<1>kk. calls' \in [Calls -> CallType] /\ OthersKept(c) /\ calls'[c] = Idle
  BY <1>k, <1>i, <1>r, IdleType DEF TypeOK, OthersKept
<1>o. guest' = guest /\ UNCHANGED <<plan, left, server, doubt>>
  BY <1>a DEF Acknowledged, Settled
<1>. QED BY <1>r, <1>y, <1>kk, <1>o DEF x, yw1, yw2

(* A setInterfaceState whose LINK was answered settles. *)
LEMMA AcknowledgedLink ==
  ASSUME ChainInv, NEW c \in Calls, Acknowledged(c), calls[c].op = "link"
  PROVE  LET r == calls[c].rt IN
         /\ r \in Rts
         /\ RtChanges(r, {"tail", "files"})
         /\ rt'[r].tail = Tail(rt[r].tail)
         /\ rt'[r].files = rt[r].files
         /\ calls' \in [Calls -> CallType] /\ OthersKept(c) /\ calls'[c] = Idle
         /\ guest' = guest /\ UNCHANGED <<plan, left, server, doubt>>
<1> DEFINE r == calls[c].rt
<1>i. TypeOK /\ CallsOK BY DEF ChainInv
<1>a. Acknowledged(c) /\ calls[c].op = "link" OBVIOUS
<1>r0. r \in Rts
  BY <1>i, <1>a DEF CallsOK, CallOK, Calling, Acknowledged, Settled
<1>r. r \in Rts /\ c \in Calls BY <1>r0
<1> DEFINE x == rt[r]
           yw1 == Tail(x.tail)
           yw2 == x.files
           y1 == [x EXCEPT !.tail = yw1]
           y2 == [y1 EXCEPT !.files = yw2]
<1>y0. x \in RuntimeType BY <1>r, <1>i DEF TypeOK
<1>yv1. yw1 \in Seq(Calls \X Int)
  BY <1>a, <1>r, SettledType DEF OnTail, InTurn, Chained, Calling, Acknowledged
<1>yv2. yw2 \in [Paths -> Int]
  BY <1>y0, RtParts
<1>ye. rt' = [rt EXCEPT ![r] = y2]
  BY <1>a DEF Acknowledged, Settled
<1> HIDE DEF x, yw1, yw2
<1>y1. y1 \in RuntimeType /\ y1.tail = yw1 /\ RtSame(x, y1, {"tail"})
  BY <1>y0, <1>yv1, RtTail
<1> HIDE DEF y1
<1>y2. y2 \in RuntimeType /\ y2.files = yw2 /\ RtSame(y1, y2, {"files"})
  BY <1>y1, <1>yv2, RtFiles
<1> HIDE DEF y2
<1>ys. RtSame(x, y2, {"tail", "files"}) /\ y2.tail = yw1
  BY <1>y1, <1>y2 DEF RtSame
<1>yf. rt' \in [Rts -> RuntimeType] /\ rt'[r] = y2 /\ \A s \in Rts : s # r => rt'[s] = rt[s]
  BY <1>ye, <1>r, <1>y2, <1>i DEF TypeOK
<1>y. RtChanges(r, {"tail", "files"}) /\ rt'[r].tail = yw1 /\ rt'[r].files = yw2
  BY <1>y2, <1>ys, <1>yf DEF x, RtChanges
<1>k. calls' = [calls EXCEPT ![c] = Idle] BY <1>a DEF Answered, Acknowledged, Settled
<1>kk. calls' \in [Calls -> CallType] /\ OthersKept(c) /\ calls'[c] = Idle
  BY <1>k, <1>i, <1>r, IdleType DEF TypeOK, OthersKept
<1>o. guest' = guest /\ UNCHANGED <<plan, left, server, doubt>>
  BY <1>a DEF Acknowledged, Settled
<1>. QED BY <1>r, <1>y, <1>kk, <1>o DEF x, yw1, yw2

(* A start's pending file was applied. *)
LEMMA PendingAppliedFile ==
  ASSUME ChainInv, NEW c \in Calls, PendingApplied(c), rt[calls[c].rt].later # <<>>
  PROVE  LET r == calls[c].rt IN
         /\ r \in Rts
         /\ RtChanges(r, {"tail"})
         /\ rt'[r].tail = Tail(rt[r].tail)
         /\ CallChanges(c, {"at", "arg"})
         /\ calls'[c].at = "pending"
         /\ calls'[c].arg = calls[c].arg + 1
         /\ guest' = guest /\ UNCHANGED <<plan, left, server, doubt>>
<1> DEFINE r == calls[c].rt
<1>i. TypeOK /\ CallsOK BY DEF ChainInv
<1>a. PendingApplied(c) /\ rt[calls[c].rt].later # <<>> OBVIOUS
<1>r0. r \in Rts
  BY <1>i, <1>a DEF CallsOK, CallOK, Calling, PendingApplied, Settled
<1>r. r \in Rts /\ c \in Calls BY <1>r0
<1> DEFINE x == rt[r]
           yw1 == Tail(x.tail)
           y1 == [x EXCEPT !.tail = yw1]
<1>y0. x \in RuntimeType BY <1>r, <1>i DEF TypeOK
<1>yv1. yw1 \in Seq(Calls \X Int)
  BY <1>a, <1>r, SettledType DEF OnTail, InTurn, Chained, Calling, PendingApplied
<1>ye. rt' = [rt EXCEPT ![r] = y1]
  BY <1>a DEF PendingApplied, Settled
<1> HIDE DEF x, yw1
<1>y1. y1 \in RuntimeType /\ y1.tail = yw1 /\ RtSame(x, y1, {"tail"})
  BY <1>y0, <1>yv1, RtTail
<1> HIDE DEF y1
<1>ys. RtSame(x, y1, {"tail"})
  BY <1>y1 DEF RtSame
<1>yf. rt' \in [Rts -> RuntimeType] /\ rt'[r] = y1 /\ \A s \in Rts : s # r => rt'[s] = rt[s]
  BY <1>ye, <1>r, <1>y1, <1>i DEF TypeOK
<1>y. RtChanges(r, {"tail"}) /\ rt'[r].tail = yw1
  BY <1>y1, <1>ys, <1>yf DEF x, RtChanges
<1> DEFINE k == calls[c]
           zw2 == k.arg + 1
           z1 == [k EXCEPT !.at = "pending"]
           z2 == [z1 EXCEPT !.arg = zw2]
<1>z0. k \in CallType BY <1>r, <1>i DEF TypeOK
<1>zv2. zw2 \in Int
  BY <1>z0, CallArgType
<1>ze. calls' = [calls EXCEPT ![c] = z2]
  BY <1>a DEF PendingApplied, Settled, At
<1> HIDE DEF k, zw2
<1>z1. z1 \in CallType /\ z1.at = "pending" /\ CallSame(k, z1, {"at"})
  BY <1>z0, CallAt DEF Ats, Chained, InTurn
<1> HIDE DEF z1
<1>z2. z2 \in CallType /\ z2.arg = zw2 /\ CallSame(z1, z2, {"arg"})
  BY <1>z1, <1>zv2, CallArg
<1> HIDE DEF z2
<1>zs. CallSame(k, z2, {"at", "arg"}) /\ z2.at = "pending"
  BY <1>z1, <1>z2 DEF CallSame
<1>zf. calls' \in [Calls -> CallType] /\ calls'[c] = z2 /\ \A s \in Calls : s # c => calls'[s] = calls[s]
  BY <1>ze, <1>r, <1>z2, <1>i DEF TypeOK
<1>z. CallChanges(c, {"at", "arg"}) /\ calls'[c].at = "pending" /\ calls'[c].arg = zw2
  BY <1>z2, <1>zs, <1>zf DEF k, CallChanges, OthersKept
<1>o. guest' = guest /\ UNCHANGED <<plan, left, server, doubt>>
  BY <1>a DEF PendingApplied, Settled
<1>. QED BY <1>r, <1>y, <1>z, <1>o DEF x, yw1, k, zw2

(* A start's pending interface state was applied. *)
LEMMA PendingAppliedLink ==
  ASSUME ChainInv, NEW c \in Calls, PendingApplied(c), rt[calls[c].rt].later = <<>>
  PROVE  LET r == calls[c].rt IN
         /\ r \in Rts
         /\ RtChanges(r, {"tail", "laterLink"})
         /\ rt'[r].tail = Tail(rt[r].tail)
         /\ rt'[r].laterLink = FALSE
         /\ calls' \in [Calls -> CallType] /\ OthersKept(c) /\ calls'[c] = Idle
         /\ guest' = guest /\ UNCHANGED <<plan, left, server, doubt>>
<1> DEFINE r == calls[c].rt
<1>i. TypeOK /\ CallsOK BY DEF ChainInv
<1>a. PendingApplied(c) /\ rt[calls[c].rt].later = <<>> OBVIOUS
<1>r0. r \in Rts
  BY <1>i, <1>a DEF CallsOK, CallOK, Calling, PendingApplied, Settled
<1>r. r \in Rts /\ c \in Calls BY <1>r0
<1> DEFINE x == rt[r]
           yw1 == Tail(x.tail)
           y1 == [x EXCEPT !.tail = yw1]
           y2 == [y1 EXCEPT !.laterLink = FALSE]
<1>y0. x \in RuntimeType BY <1>r, <1>i DEF TypeOK
<1>yv1. yw1 \in Seq(Calls \X Int)
  BY <1>a, <1>r, SettledType DEF OnTail, InTurn, Chained, Calling, PendingApplied
<1>ye. rt' = [rt EXCEPT ![r] = y2]
  BY <1>a DEF PendingApplied, Settled
<1> HIDE DEF x, yw1
<1>y1. y1 \in RuntimeType /\ y1.tail = yw1 /\ RtSame(x, y1, {"tail"})
  BY <1>y0, <1>yv1, RtTail
<1> HIDE DEF y1
<1>y2. y2 \in RuntimeType /\ y2.laterLink = FALSE /\ RtSame(y1, y2, {"laterLink"})
  BY <1>y1, RtLaterLink
<1> HIDE DEF y2
<1>ys. RtSame(x, y2, {"tail", "laterLink"}) /\ y2.tail = yw1
  BY <1>y1, <1>y2 DEF RtSame
<1>yf. rt' \in [Rts -> RuntimeType] /\ rt'[r] = y2 /\ \A s \in Rts : s # r => rt'[s] = rt[s]
  BY <1>ye, <1>r, <1>y2, <1>i DEF TypeOK
<1>y. RtChanges(r, {"tail", "laterLink"}) /\ rt'[r].tail = yw1 /\ rt'[r].laterLink = FALSE
  BY <1>y2, <1>ys, <1>yf DEF x, RtChanges
<1>k. calls' = [calls EXCEPT ![c] = Idle] BY <1>a DEF Answered, PendingApplied, Settled
<1>kk. calls' \in [Calls -> CallType] /\ OthersKept(c) /\ calls'[c] = Idle
  BY <1>k, <1>i, <1>r, IdleType DEF TypeOK, OthersKept
<1>o. guest' = guest /\ UNCHANGED <<plan, left, server, doubt>>
  BY <1>a DEF PendingApplied, Settled
<1>. QED BY <1>r, <1>y, <1>kk, <1>o DEF x, yw1

(* What ReadBack changes. *)
LEMMA ReadBackEffect ==
  ASSUME ChainInv, NEW c \in Calls, ReadBack(c)
  PROVE  LET r == calls[c].rt IN
         /\ r \in Rts
         /\ RtChanges(r, {"files", "tail"})
         /\ rt'[r].files = [rt[r].files EXCEPT ![calls[c].path] = IF Exported(c) >= 0 THEN Exported(c) ELSE @]
         /\ rt'[r].tail = Tail(rt[r].tail)
         /\ CallChanges(c, {"at", "arg"})
         /\ calls'[c].at = "answer"
         /\ calls'[c].arg = Exported(c)
         /\ guest' = guest /\ UNCHANGED <<plan, left, server, doubt>>
<1> DEFINE r == calls[c].rt
<1>i. TypeOK /\ CallsOK BY DEF ChainInv
<1>a. ReadBack(c) OBVIOUS
<1>r0. r \in Rts
  BY <1>i, <1>a DEF CallsOK, CallOK, Calling, ReadBack, Settled
<1>r. r \in Rts /\ c \in Calls BY <1>r0
<1> DEFINE x == rt[r]
           yw1 == [x.files EXCEPT ![calls[c].path] = IF Exported(c) >= 0 THEN Exported(c) ELSE @]
           yw2 == Tail(x.tail)
           y1 == [x EXCEPT !.files = yw1]
           y2 == [y1 EXCEPT !.tail = yw2]
<1>y0. x \in RuntimeType BY <1>r, <1>i DEF TypeOK
<1>yv1. yw1 \in [Paths -> Int]
  <2>1. x.files \in [Paths -> Int] BY <1>y0, RtParts
  <2>2. Exported(c) \in Int BY <1>i, <1>r, ExportedType
  <2> HIDE DEF x
  <2> QED BY <2>1, <2>2
<1>yv2. yw2 \in Seq(Calls \X Int)
  BY <1>a, <1>r, SettledType DEF OnTail, InTurn, Chained, Calling, ReadBack
<1>ye. rt' = [rt EXCEPT ![r] = y2]
  BY <1>a, Zenon DEF ReadBack, Settled
<1> HIDE DEF x, yw1, yw2
<1>y1. y1 \in RuntimeType /\ y1.files = yw1 /\ RtSame(x, y1, {"files"})
  BY <1>y0, <1>yv1, RtFiles
<1> HIDE DEF y1
<1>y2. y2 \in RuntimeType /\ y2.tail = yw2 /\ RtSame(y1, y2, {"tail"})
  BY <1>y1, <1>yv2, RtTail
<1> HIDE DEF y2
<1>ys. RtSame(x, y2, {"files", "tail"}) /\ y2.files = yw1
  BY <1>y1, <1>y2 DEF RtSame
<1>yf. rt' \in [Rts -> RuntimeType] /\ rt'[r] = y2 /\ \A s \in Rts : s # r => rt'[s] = rt[s]
  BY <1>ye, <1>r, <1>y2, <1>i DEF TypeOK
<1>y. RtChanges(r, {"files", "tail"}) /\ rt'[r].files = yw1 /\ rt'[r].tail = yw2
  BY <1>y2, <1>ys, <1>yf DEF x, RtChanges
<1> DEFINE k == calls[c]
           zw2 == Exported(c)
           z1 == [k EXCEPT !.at = "answer"]
           z2 == [z1 EXCEPT !.arg = zw2]
<1>z0. k \in CallType BY <1>r, <1>i DEF TypeOK
<1>zv2. zw2 \in Int
  BY <1>r, <1>i, <1>r0, ExportedType
<1>ze. calls' = [calls EXCEPT ![c] = z2]
  BY <1>a DEF ReadBack, Settled, At
<1> HIDE DEF k, zw2
<1>z1. z1 \in CallType /\ z1.at = "answer" /\ CallSame(k, z1, {"at"})
  BY <1>z0, CallAt DEF Ats, Chained, InTurn
<1> HIDE DEF z1
<1>z2. z2 \in CallType /\ z2.arg = zw2 /\ CallSame(z1, z2, {"arg"})
  BY <1>z1, <1>zv2, CallArg
<1> HIDE DEF z2
<1>zs. CallSame(k, z2, {"at", "arg"}) /\ z2.at = "answer"
  BY <1>z1, <1>z2 DEF CallSame
<1>zf. calls' \in [Calls -> CallType] /\ calls'[c] = z2 /\ \A s \in Calls : s # c => calls'[s] = calls[s]
  BY <1>ze, <1>r, <1>z2, <1>i DEF TypeOK
<1>z. CallChanges(c, {"at", "arg"}) /\ calls'[c].at = "answer" /\ calls'[c].arg = zw2
  BY <1>z2, <1>zs, <1>zf DEF k, CallChanges, OthersKept
<1>o. guest' = guest /\ UNCHANGED <<plan, left, server, doubt>>
  BY <1>a DEF ReadBack, Settled
<1>. QED BY <1>r, <1>y, <1>z, <1>o DEF x, yw1, yw2, k, zw2

(* What ControlTimeout changes. *)
LEMMA ControlTimeoutEffect ==
  ASSUME ChainInv, NEW c \in Calls, ControlTimeout(c)
  PROVE  LET r == calls[c].rt IN
         /\ r \in Rts
         /\ GuestChanges(r, {"requests"})
         /\ guest'[r].requests = Forgotten(r, {c})
         /\ CallChanges(c, {"at"})
         /\ calls'[c].at = "error"
         /\ rt' = rt /\ UNCHANGED <<plan, left, server>> /\ doubt' = [doubt EXCEPT ![r] = TRUE]
<1> DEFINE r == calls[c].rt
<1>i. TypeOK /\ CallsOK BY DEF ChainInv
<1>a. ControlTimeout(c) OBVIOUS
<1>r0. r \in Rts
  BY <1>i, <1>a, InFlightIs DEF OnTail, InTurn, Chained, ControlTimeout
<1>r. r \in Rts /\ c \in Calls BY <1>r0
<1> DEFINE g == guest[r]
           hw1 == Forgotten(r, {c})
           h1 == [g EXCEPT !.requests = hw1]
<1>h0. g \in GuestType BY <1>r, <1>i DEF TypeOK
<1>hv1. hw1 \in Seq(RequestType)
  BY <1>i, <1>r, ForgottenIs
<1>he. guest' = [guest EXCEPT ![r] = h1]
  BY <1>a DEF ControlTimeout
<1> HIDE DEF g, hw1
<1>h1. h1 \in GuestType /\ h1.requests = hw1 /\ GuestSame(g, h1, {"requests"})
  BY <1>h0, <1>hv1, GuestRequests
<1> HIDE DEF h1
<1>hs. GuestSame(g, h1, {"requests"})
  BY <1>h1 DEF GuestSame
<1>hf. guest' \in [Rts -> GuestType] /\ guest'[r] = h1 /\ \A s \in Rts : s # r => guest'[s] = guest[s]
  BY <1>he, <1>r, <1>h1, <1>i DEF TypeOK
<1>h. GuestChanges(r, {"requests"}) /\ guest'[r].requests = hw1
  BY <1>h1, <1>hs, <1>hf DEF g, GuestChanges
<1> DEFINE k == calls[c]
           z1 == [k EXCEPT !.at = "error"]
<1>z0. k \in CallType BY <1>r, <1>i DEF TypeOK
<1>ze. calls' = [calls EXCEPT ![c] = z1]
  BY <1>a DEF ControlTimeout, At
<1> HIDE DEF k
<1>z1. z1 \in CallType /\ z1.at = "error" /\ CallSame(k, z1, {"at"})
  BY <1>z0, CallAt DEF Ats, Chained, InTurn
<1> HIDE DEF z1
<1>zs. CallSame(k, z1, {"at"})
  BY <1>z1 DEF CallSame
<1>zf. calls' \in [Calls -> CallType] /\ calls'[c] = z1 /\ \A s \in Calls : s # c => calls'[s] = calls[s]
  BY <1>ze, <1>r, <1>z1, <1>i DEF TypeOK
<1>z. CallChanges(c, {"at"}) /\ calls'[c].at = "error"
  BY <1>z1, <1>zs, <1>zf DEF k, CallChanges, OthersKept
<1>o. rt' = rt /\ UNCHANGED <<plan, left, server>> /\ doubt' = [doubt EXCEPT ![r] = TRUE]
  BY <1>a DEF ControlTimeout
<1>. QED BY <1>r, <1>h, <1>z, <1>o DEF g, hw1, k

(* What SendControl changes. *)
LEMMA SendControlEffect ==
  ASSUME ChainInv, NEW c \in Calls, SendControl(c)
  PROVE  LET r == calls[c].rt IN
         /\ r \in Rts
         /\ RtChanges(r, {"pgo"})
         /\ rt'[r].pgo = (calls[c].op = "collect" \/ rt[r].pgo)
         /\ GuestChanges(r, {"input", "requests"})
         /\ guest'[r].input = IF calls[c].at = "apply" THEN <<calls[c].path, rt[r].tail[1][2]>> ELSE guest[r].input
         /\ guest'[r].requests = Append(guest[r].requests, Request(c, rt[r].tail[1][2]))
         /\ CallChanges(c, {"at"})
         /\ calls'[c].at = "sent"
         /\ UNCHANGED <<plan, left, server, doubt>>
<1> DEFINE r == calls[c].rt
<1>i. TypeOK /\ CallsOK BY DEF ChainInv
<1>a. SendControl(c) OBVIOUS
<1>r0. r \in Rts
  BY <1>i, <1>a, InFlightIs DEF OnTail, InTurn, Chained, SendControl
<1>r. r \in Rts /\ c \in Calls BY <1>r0
<1>q. Request(c, rt[r].tail[1][2]) \in RequestType /\ rt[r].tail[1][2] \in Int /\ Head(rt[r].tail) = rt[r].tail[1]
  BY <1>a, <1>r, RequestIs, Zenon DEF SendControl, Chained
<1> DEFINE x == rt[r]
           yw1 == (calls[c].op = "collect" \/ x.pgo)
           y1 == [x EXCEPT !.pgo = yw1]
<1>y0. x \in RuntimeType BY <1>r, <1>i DEF TypeOK
<1>yv1. yw1 \in BOOLEAN
  BY <1>y0, RtParts
<1>ye. rt' = [rt EXCEPT ![r] = y1]
  BY <1>a DEF SendControl
<1> HIDE DEF x, yw1
<1>y1. y1 \in RuntimeType /\ y1.pgo = yw1 /\ RtSame(x, y1, {"pgo"})
  BY <1>y0, <1>yv1, RtPgo
<1> HIDE DEF y1
<1>ys. RtSame(x, y1, {"pgo"})
  BY <1>y1 DEF RtSame
<1>yf. rt' \in [Rts -> RuntimeType] /\ rt'[r] = y1 /\ \A s \in Rts : s # r => rt'[s] = rt[s]
  BY <1>ye, <1>r, <1>y1, <1>i DEF TypeOK
<1>y. RtChanges(r, {"pgo"}) /\ rt'[r].pgo = yw1
  BY <1>y1, <1>ys, <1>yf DEF x, RtChanges
<1> DEFINE g == guest[r]
           hw1 == IF calls[c].at = "apply" THEN <<calls[c].path, rt[r].tail[1][2]>> ELSE g.input
           hw2 == Append(g.requests, Request(c, rt[r].tail[1][2]))
           h1 == [g EXCEPT !.input = hw1]
           h2 == [h1 EXCEPT !.requests = hw2]
<1>h0. g \in GuestType BY <1>r, <1>i DEF TypeOK
<1>hv1. hw1 \in {<<>>} \cup (Paths \X Int)
  BY <1>q, <1>h0, <1>i, <1>r, GuestParts DEF CallsOK, CallOK
<1>hv2. hw2 \in Seq(RequestType)
  BY <1>q, <1>h0, GuestParts
<1>he. guest' = [guest EXCEPT ![r] = h2]
  <2> DEFINE first == Head(rt[r].tail)
  <2>1. guest' = [guest EXCEPT ![r] = [[guest[r] EXCEPT
           !.input = IF calls[c].at = "apply" THEN <<calls[c].path, first[2]>> ELSE guest[r].input] EXCEPT
           !.requests = Append(guest[r].requests, Request(c, first[2]))]]
    BY <1>a, Zenon DEF SendControl
  <2>2. first = rt[r].tail[1] BY <1>q
  <2> QED BY <2>1, <2>2, Zenon
<1> HIDE DEF g, hw1, hw2
<1>h1. h1 \in GuestType /\ h1.input = hw1 /\ GuestSame(g, h1, {"input"})
  BY <1>h0, <1>hv1, GuestInput
<1> HIDE DEF h1
<1>h2. h2 \in GuestType /\ h2.requests = hw2 /\ GuestSame(h1, h2, {"requests"})
  BY <1>h1, <1>hv2, GuestRequests
<1> HIDE DEF h2
<1>hs. GuestSame(g, h2, {"input", "requests"}) /\ h2.input = hw1
  BY <1>h1, <1>h2 DEF GuestSame
<1>hf. guest' \in [Rts -> GuestType] /\ guest'[r] = h2 /\ \A s \in Rts : s # r => guest'[s] = guest[s]
  BY <1>he, <1>r, <1>h2, <1>i DEF TypeOK
<1>h. GuestChanges(r, {"input", "requests"}) /\ guest'[r].input = hw1 /\ guest'[r].requests = hw2
  BY <1>h2, <1>hs, <1>hf DEF g, GuestChanges
<1> DEFINE k == calls[c]
           z1 == [k EXCEPT !.at = "sent"]
<1>z0. k \in CallType BY <1>r, <1>i DEF TypeOK
<1>ze. calls' = [calls EXCEPT ![c] = z1]
  BY <1>a DEF SendControl, At
<1> HIDE DEF k
<1>z1. z1 \in CallType /\ z1.at = "sent" /\ CallSame(k, z1, {"at"})
  BY <1>z0, CallAt DEF Ats, Chained, InTurn
<1> HIDE DEF z1
<1>zs. CallSame(k, z1, {"at"})
  BY <1>z1 DEF CallSame
<1>zf. calls' \in [Calls -> CallType] /\ calls'[c] = z1 /\ \A s \in Calls : s # c => calls'[s] = calls[s]
  BY <1>ze, <1>r, <1>z1, <1>i DEF TypeOK
<1>z. CallChanges(c, {"at"}) /\ calls'[c].at = "sent"
  BY <1>z1, <1>zs, <1>zf DEF k, CallChanges, OthersKept
<1>o. UNCHANGED <<plan, left, server, doubt>>
  BY <1>a DEF SendControl
<1>. QED BY <1>r, <1>y, <1>h, <1>z, <1>o DEF x, yw1, g, hw1, hw2, k

(* What GuestReady changes. *)
LEMMA GuestReadyEffect ==
  ASSUME ChainInv, NEW r \in Rts, GuestReady(r)
  PROVE  /\ RtChanges(r, {"ready"})
         /\ rt'[r].ready = IF rt[r].ready = "pending" THEN "resolved" ELSE rt[r].ready
         /\ GuestChanges(r, {"on", "files", "up"})
         /\ guest'[r].on = "up"
         /\ guest'[r].files = guest[r].boot
         /\ guest'[r].up = guest[r].bootUp
         /\ calls' = calls /\ UNCHANGED <<plan, left, server, doubt>>
<1>i. TypeOK /\ CallsOK BY DEF ChainInv
<1>a. GuestReady(r) OBVIOUS
<1>r. r \in Rts OBVIOUS
<1> DEFINE x == rt[r]
           yw1 == IF x.ready = "pending" THEN "resolved" ELSE x.ready
           y1 == [x EXCEPT !.ready = yw1]
<1>y0. x \in RuntimeType BY <1>r, <1>i DEF TypeOK
<1>yv1. yw1 \in {"pending", "resolved", "rejected"}
  BY <1>y0, RtParts
<1>ye. rt' = [rt EXCEPT ![r] = y1]
  BY <1>a DEF GuestReady
<1> HIDE DEF x, yw1
<1>y1. y1 \in RuntimeType /\ y1.ready = yw1 /\ RtSame(x, y1, {"ready"})
  BY <1>y0, <1>yv1, RtReady
<1> HIDE DEF y1
<1>ys. RtSame(x, y1, {"ready"})
  BY <1>y1 DEF RtSame
<1>yf. rt' \in [Rts -> RuntimeType] /\ rt'[r] = y1 /\ \A s \in Rts : s # r => rt'[s] = rt[s]
  BY <1>ye, <1>r, <1>y1, <1>i DEF TypeOK
<1>y. RtChanges(r, {"ready"}) /\ rt'[r].ready = yw1
  BY <1>y1, <1>ys, <1>yf DEF x, RtChanges
<1> DEFINE g == guest[r]
           hw2 == g.boot
           hw3 == g.bootUp
           h1 == [g EXCEPT !.on = "up"]
           h2 == [h1 EXCEPT !.files = hw2]
           h3 == [h2 EXCEPT !.up = hw3]
<1>h0. g \in GuestType BY <1>r, <1>i DEF TypeOK
<1>hv2. hw2 \in [Paths -> Int]
  BY <1>h0, GuestParts
<1>hv3. hw3 \in BOOLEAN
  BY <1>h0, GuestParts
<1>he. guest' = [guest EXCEPT ![r] = h3]
  BY <1>a DEF GuestReady
<1> HIDE DEF g, hw2, hw3
<1>h1. h1 \in GuestType /\ h1.on = "up" /\ GuestSame(g, h1, {"on"})
  BY <1>h0, GuestOn
<1> HIDE DEF h1
<1>h2. h2 \in GuestType /\ h2.files = hw2 /\ GuestSame(h1, h2, {"files"})
  BY <1>h1, <1>hv2, GuestFiles
<1> HIDE DEF h2
<1>h3. h3 \in GuestType /\ h3.up = hw3 /\ GuestSame(h2, h3, {"up"})
  BY <1>h2, <1>hv3, GuestUp
<1> HIDE DEF h3
<1>hs. GuestSame(g, h3, {"on", "files", "up"}) /\ h3.on = "up" /\ h3.files = hw2
  BY <1>h1, <1>h2, <1>h3 DEF GuestSame
<1>hf. guest' \in [Rts -> GuestType] /\ guest'[r] = h3 /\ \A s \in Rts : s # r => guest'[s] = guest[s]
  BY <1>he, <1>r, <1>h3, <1>i DEF TypeOK
<1>h. GuestChanges(r, {"on", "files", "up"}) /\ guest'[r].on = "up" /\ guest'[r].files = hw2 /\ guest'[r].up = hw3
  BY <1>h3, <1>hs, <1>hf DEF g, GuestChanges
<1>o. calls' = calls /\ UNCHANGED <<plan, left, server, doubt>>
  BY <1>a DEF GuestReady
<1>. QED BY <1>r, <1>y, <1>h, <1>o DEF x, yw1, g, hw2, hw3

(* What GuestFailed changes. *)
LEMMA GuestFailedEffect ==
  ASSUME ChainInv, NEW r \in Rts, GuestFailed(r)
  PROVE  /\ RtChanges(r, {"ready"})
         /\ rt'[r].ready = IF rt[r].ready = "pending" THEN "rejected" ELSE rt[r].ready
         /\ GuestChanges(r, {"on"})
         /\ guest'[r].on = "gone"
         /\ calls' = calls /\ UNCHANGED <<plan, left, server, doubt>>
<1>i. TypeOK /\ CallsOK BY DEF ChainInv
<1>a. GuestFailed(r) OBVIOUS
<1>r. r \in Rts OBVIOUS
<1> DEFINE x == rt[r]
           yw1 == IF x.ready = "pending" THEN "rejected" ELSE x.ready
           y1 == [x EXCEPT !.ready = yw1]
<1>y0. x \in RuntimeType BY <1>r, <1>i DEF TypeOK
<1>yv1. yw1 \in {"pending", "resolved", "rejected"}
  BY <1>y0, RtParts
<1>ye. rt' = [rt EXCEPT ![r] = y1]
  BY <1>a DEF GuestFailed
<1> HIDE DEF x, yw1
<1>y1. y1 \in RuntimeType /\ y1.ready = yw1 /\ RtSame(x, y1, {"ready"})
  BY <1>y0, <1>yv1, RtReady
<1> HIDE DEF y1
<1>ys. RtSame(x, y1, {"ready"})
  BY <1>y1 DEF RtSame
<1>yf. rt' \in [Rts -> RuntimeType] /\ rt'[r] = y1 /\ \A s \in Rts : s # r => rt'[s] = rt[s]
  BY <1>ye, <1>r, <1>y1, <1>i DEF TypeOK
<1>y. RtChanges(r, {"ready"}) /\ rt'[r].ready = yw1
  BY <1>y1, <1>ys, <1>yf DEF x, RtChanges
<1> DEFINE g == guest[r]
           h1 == [g EXCEPT !.on = "gone"]
<1>h0. g \in GuestType BY <1>r, <1>i DEF TypeOK
<1>he. guest' = [guest EXCEPT ![r] = h1]
  BY <1>a DEF GuestFailed
<1> HIDE DEF g
<1>h1. h1 \in GuestType /\ h1.on = "gone" /\ GuestSame(g, h1, {"on"})
  BY <1>h0, GuestOn
<1> HIDE DEF h1
<1>hs. GuestSame(g, h1, {"on"})
  BY <1>h1 DEF GuestSame
<1>hf. guest' \in [Rts -> GuestType] /\ guest'[r] = h1 /\ \A s \in Rts : s # r => guest'[s] = guest[s]
  BY <1>he, <1>r, <1>h1, <1>i DEF TypeOK
<1>h. GuestChanges(r, {"on"}) /\ guest'[r].on = "gone"
  BY <1>h1, <1>hs, <1>hf DEF g, GuestChanges
<1>o. calls' = calls /\ UNCHANGED <<plan, left, server, doubt>>
  BY <1>a DEF GuestFailed
<1>. QED BY <1>r, <1>y, <1>h, <1>o DEF x, yw1, g

ExitChange(r) ==
    /\ RtChanges(r, {"state"})
    /\ \/ rt'[r].state = rt[r].state
       \/ rt[r].state = "running" /\ rt'[r].state = "failed"

(* What a guest that is gone leaves. *)
LEMMA ExitIs ==
  ASSUME TypeOK, NEW r \in Rts, rt' = ExitHandled(r)
  PROVE  ExitChange(r)
<1>1. rt[r] \in RuntimeType /\ rt \in [Rts -> RuntimeType] BY DEF TypeOK
<1>2. CASE rt' = rt
  BY <1>1, <1>2 DEF ExitChange, RtChanges, RtSame
<1>3. CASE rt' = [rt EXCEPT ![r].state = "failed"] /\ rt[r].state = "running"
  <2> DEFINE x == rt[r]
             y == [x EXCEPT !.state = "failed"]
  <2>1. rt' = [rt EXCEPT ![r] = y] BY <1>3
  <2>2. x = rt[r] /\ x \in RuntimeType BY <1>1
  <2> HIDE DEF x
  <2>3. y \in RuntimeType /\ y.state = "failed" /\ RtSame(x, y, {"state"})
    BY <2>2, RtState DEF States
  <2> HIDE DEF y
  <2> QED BY <2>1, <2>2, <2>3, <1>1, <1>3 DEF ExitChange, RtChanges
<1> QED BY <1>2, <1>3 DEF ExitHandled

(* What GuestExit changes. *)
LEMMA GuestExitEffect ==
  ASSUME ChainInv, NEW r \in Rts, GuestExit(r)
  PROVE  /\ GuestChanges(r, {"on"})
         /\ guest'[r].on = "gone"
         /\ ExitChange(r) /\ calls' = calls /\ UNCHANGED <<plan, left, server, doubt>>
<1>i. TypeOK /\ CallsOK BY DEF ChainInv
<1>a. GuestExit(r) OBVIOUS
<1>r. r \in Rts OBVIOUS
<1> DEFINE g == guest[r]
           h1 == [g EXCEPT !.on = "gone"]
<1>h0. g \in GuestType BY <1>r, <1>i DEF TypeOK
<1>he. guest' = [guest EXCEPT ![r] = h1]
  BY <1>a DEF GuestExit
<1> HIDE DEF g
<1>h1. h1 \in GuestType /\ h1.on = "gone" /\ GuestSame(g, h1, {"on"})
  BY <1>h0, GuestOn
<1> HIDE DEF h1
<1>hs. GuestSame(g, h1, {"on"})
  BY <1>h1 DEF GuestSame
<1>hf. guest' \in [Rts -> GuestType] /\ guest'[r] = h1 /\ \A s \in Rts : s # r => guest'[s] = guest[s]
  BY <1>he, <1>r, <1>h1, <1>i DEF TypeOK
<1>h. GuestChanges(r, {"on"}) /\ guest'[r].on = "gone"
  BY <1>h1, <1>hs, <1>hf DEF g, GuestChanges
<1>o. ExitChange(r) /\ calls' = calls /\ UNCHANGED <<plan, left, server, doubt>>
  BY <1>a, <1>i, <1>r, ExitIs DEF GuestExit
<1>. QED BY <1>r, <1>h, <1>o DEF g

(* The guest answers APPLY. *)
LEMMA AnswersApply ==
  ASSUME ChainInv, NEW r \in Rts, GuestAnswers(r), Head(guest[r].requests).do = "APPLY"
  PROVE  /\ GuestChanges(r, {"requests", "files"})
         /\ guest'[r].requests = Tail(guest[r].requests)
         /\ guest'[r].files = [guest[r].files EXCEPT ![guest[r].input[1]] = guest[r].input[2]]
         /\ rt' = rt /\ calls' = Told(r, "ok") /\ UNCHANGED <<plan, left, server, doubt>>
<1>i. TypeOK /\ CallsOK BY DEF ChainInv
<1>a. GuestAnswers(r) /\ Head(guest[r].requests).do = "APPLY" OBVIOUS
<1>r. r \in Rts OBVIOUS
<1>in. guest[r].input \in Paths \X Int BY <1>r, <1>a, InputIs DEF GuestAnswers
<1> DEFINE g == guest[r]
           hw1 == Tail(g.requests)
           hw2 == [g.files EXCEPT ![g.input[1]] = g.input[2]]
           h1 == [g EXCEPT !.requests = hw1]
           h2 == [h1 EXCEPT !.files = hw2]
<1>h0. g \in GuestType BY <1>r, <1>i DEF TypeOK
<1>hv1. hw1 \in Seq(RequestType)
  BY <1>h0, <1>a, GuestParts, TailIs DEF GuestAnswers
<1>hv2. hw2 \in [Paths -> Int]
  BY <1>h0, <1>in, GuestParts
<1>he. guest' = [guest EXCEPT ![r] = h2]
  BY <1>a DEF GuestAnswers
<1> HIDE DEF g, hw1, hw2
<1>h1. h1 \in GuestType /\ h1.requests = hw1 /\ GuestSame(g, h1, {"requests"})
  BY <1>h0, <1>hv1, GuestRequests
<1> HIDE DEF h1
<1>h2. h2 \in GuestType /\ h2.files = hw2 /\ GuestSame(h1, h2, {"files"})
  BY <1>h1, <1>hv2, GuestFiles
<1> HIDE DEF h2
<1>hs. GuestSame(g, h2, {"requests", "files"}) /\ h2.requests = hw1
  BY <1>h1, <1>h2 DEF GuestSame
<1>hf. guest' \in [Rts -> GuestType] /\ guest'[r] = h2 /\ \A s \in Rts : s # r => guest'[s] = guest[s]
  BY <1>he, <1>r, <1>h2, <1>i DEF TypeOK
<1>h. GuestChanges(r, {"requests", "files"}) /\ guest'[r].requests = hw1 /\ guest'[r].files = hw2
  BY <1>h2, <1>hs, <1>hf DEF g, GuestChanges
<1>o. rt' = rt /\ calls' = Told(r, "ok") /\ UNCHANGED <<plan, left, server, doubt>>
  BY <1>a DEF GuestAnswers
<1>. QED BY <1>r, <1>h, <1>o DEF g, hw1, hw2

(* The guest answers LINK. *)
LEMMA AnswersLink ==
  ASSUME ChainInv, NEW r \in Rts, GuestAnswers(r), Head(guest[r].requests).do = "LINK"
  PROVE  /\ GuestChanges(r, {"requests", "up"})
         /\ guest'[r].requests = Tail(guest[r].requests)
         /\ guest'[r].up = (Head(guest[r].requests).value = 1)
         /\ rt' = rt /\ calls' = Told(r, "ok") /\ UNCHANGED <<plan, left, server, doubt>>
<1>i. TypeOK /\ CallsOK BY DEF ChainInv
<1>a. GuestAnswers(r) /\ Head(guest[r].requests).do = "LINK" OBVIOUS
<1>r. r \in Rts OBVIOUS
<1> DEFINE g == guest[r]
           hw1 == Tail(g.requests)
           hw2 == (Head(g.requests).value = 1)
           h1 == [g EXCEPT !.requests = hw1]
           h2 == [h1 EXCEPT !.up = hw2]
<1>h0. g \in GuestType BY <1>r, <1>i DEF TypeOK
<1>hv1. hw1 \in Seq(RequestType)
  BY <1>h0, <1>a, GuestParts, TailIs DEF GuestAnswers
<1>hv2. hw2 \in BOOLEAN
  OBVIOUS
<1>he. guest' = [guest EXCEPT ![r] = h2]
  BY <1>a DEF GuestAnswers
<1> HIDE DEF g, hw1, hw2
<1>h1. h1 \in GuestType /\ h1.requests = hw1 /\ GuestSame(g, h1, {"requests"})
  BY <1>h0, <1>hv1, GuestRequests
<1> HIDE DEF h1
<1>h2. h2 \in GuestType /\ h2.up = hw2 /\ GuestSame(h1, h2, {"up"})
  BY <1>h1, <1>hv2, GuestUp
<1> HIDE DEF h2
<1>hs. GuestSame(g, h2, {"requests", "up"}) /\ h2.requests = hw1
  BY <1>h1, <1>h2 DEF GuestSame
<1>hf. guest' \in [Rts -> GuestType] /\ guest'[r] = h2 /\ \A s \in Rts : s # r => guest'[s] = guest[s]
  BY <1>he, <1>r, <1>h2, <1>i DEF TypeOK
<1>h. GuestChanges(r, {"requests", "up"}) /\ guest'[r].requests = hw1 /\ guest'[r].up = hw2
  BY <1>h2, <1>hs, <1>hf DEF g, GuestChanges
<1>o. rt' = rt /\ calls' = Told(r, "ok") /\ UNCHANGED <<plan, left, server, doubt>>
  BY <1>a DEF GuestAnswers
<1>. QED BY <1>r, <1>h, <1>o DEF g, hw1, hw2

(* The guest answers READ. *)
LEMMA AnswersRead ==
  ASSUME ChainInv, NEW r \in Rts, GuestAnswers(r), Head(guest[r].requests).do = "READ"
  PROVE  /\ GuestChanges(r, {"requests", "output"})
         /\ guest'[r].requests = Tail(guest[r].requests)
         /\ guest'[r].output = <<Head(guest[r].requests).path, guest[r].files[Head(guest[r].requests).path]>>
         /\ rt' = rt /\ calls' = Told(r, "ok") /\ UNCHANGED <<plan, left, server, doubt>>
<1>i. TypeOK /\ CallsOK BY DEF ChainInv
<1>a. GuestAnswers(r) /\ Head(guest[r].requests).do = "READ" OBVIOUS
<1>r. r \in Rts OBVIOUS
<1>in. Head(guest[r].requests).path \in Paths BY <1>r, <1>a, InputIs DEF GuestAnswers
<1> DEFINE g == guest[r]
           hw1 == Tail(g.requests)
           hw2 == <<Head(g.requests).path, g.files[Head(g.requests).path]>>
           h1 == [g EXCEPT !.requests = hw1]
           h2 == [h1 EXCEPT !.output = hw2]
<1>h0. g \in GuestType BY <1>r, <1>i DEF TypeOK
<1>hv1. hw1 \in Seq(RequestType)
  BY <1>h0, <1>a, GuestParts, TailIs DEF GuestAnswers
<1>hv2. hw2 \in {<<>>} \cup (Paths \X Int)
  BY <1>h0, <1>in, GuestParts
<1>he. guest' = [guest EXCEPT ![r] = h2]
  BY <1>a DEF GuestAnswers
<1> HIDE DEF g, hw1, hw2
<1>h1. h1 \in GuestType /\ h1.requests = hw1 /\ GuestSame(g, h1, {"requests"})
  BY <1>h0, <1>hv1, GuestRequests
<1> HIDE DEF h1
<1>h2. h2 \in GuestType /\ h2.output = hw2 /\ GuestSame(h1, h2, {"output"})
  BY <1>h1, <1>hv2, GuestOutput
<1> HIDE DEF h2
<1>hs. GuestSame(g, h2, {"requests", "output"}) /\ h2.requests = hw1
  BY <1>h1, <1>h2 DEF GuestSame
<1>hf. guest' \in [Rts -> GuestType] /\ guest'[r] = h2 /\ \A s \in Rts : s # r => guest'[s] = guest[s]
  BY <1>he, <1>r, <1>h2, <1>i DEF TypeOK
<1>h. GuestChanges(r, {"requests", "output"}) /\ guest'[r].requests = hw1 /\ guest'[r].output = hw2
  BY <1>h2, <1>hs, <1>hf DEF g, GuestChanges
<1>o. rt' = rt /\ calls' = Told(r, "ok") /\ UNCHANGED <<plan, left, server, doubt>>
  BY <1>a DEF GuestAnswers
<1>. QED BY <1>r, <1>h, <1>o DEF g, hw1, hw2

(* The guest answers COLLECT_PGO. *)
LEMMA AnswersCollect ==
  ASSUME ChainInv, NEW r \in Rts, GuestAnswers(r), Head(guest[r].requests).do = "COLLECT_PGO"
  PROVE  /\ GuestChanges(r, {"requests"})
         /\ guest'[r].requests = Tail(guest[r].requests)
         /\ ExitChange(r) /\ calls' = Told(r, "ok") /\ UNCHANGED <<plan, left, server, doubt>>
<1>i. TypeOK /\ CallsOK BY DEF ChainInv
<1>a. GuestAnswers(r) /\ Head(guest[r].requests).do = "COLLECT_PGO" OBVIOUS
<1>r. r \in Rts OBVIOUS
<1> DEFINE g == guest[r]
           hw1 == Tail(g.requests)
           h1 == [g EXCEPT !.requests = hw1]
<1>h0. g \in GuestType BY <1>r, <1>i DEF TypeOK
<1>hv1. hw1 \in Seq(RequestType)
  BY <1>h0, <1>a, GuestParts, TailIs DEF GuestAnswers
<1>he. guest' = [guest EXCEPT ![r] = h1]
  BY <1>a DEF GuestAnswers
<1> HIDE DEF g, hw1
<1>h1. h1 \in GuestType /\ h1.requests = hw1 /\ GuestSame(g, h1, {"requests"})
  BY <1>h0, <1>hv1, GuestRequests
<1> HIDE DEF h1
<1>hs. GuestSame(g, h1, {"requests"})
  BY <1>h1 DEF GuestSame
<1>hf. guest' \in [Rts -> GuestType] /\ guest'[r] = h1 /\ \A s \in Rts : s # r => guest'[s] = guest[s]
  BY <1>he, <1>r, <1>h1, <1>i DEF TypeOK
<1>h. GuestChanges(r, {"requests"}) /\ guest'[r].requests = hw1
  BY <1>h1, <1>hs, <1>hf DEF g, GuestChanges
<1>o. ExitChange(r) /\ calls' = Told(r, "ok") /\ UNCHANGED <<plan, left, server, doubt>>
  BY <1>a, <1>i, <1>r, ExitIs DEF GuestAnswers
<1>. QED BY <1>r, <1>h, <1>o DEF g, hw1

(* What GuestRefuses changes. *)
LEMMA GuestRefusesEffect ==
  ASSUME ChainInv, NEW r \in Rts, GuestRefuses(r)
  PROVE  /\ GuestChanges(r, {"requests"})
         /\ guest'[r].requests = Tail(guest[r].requests)
         /\ rt' = rt /\ calls' = Told(r, "error") /\ UNCHANGED <<plan, left, server>> /\ doubt' = [doubt EXCEPT ![r] = @ \/ Head(guest[r].requests).do = "LINK"]
<1>i. TypeOK /\ CallsOK BY DEF ChainInv
<1>a. GuestRefuses(r) OBVIOUS
<1>r. r \in Rts OBVIOUS
<1> DEFINE g == guest[r]
           hw1 == Tail(g.requests)
           h1 == [g EXCEPT !.requests = hw1]
<1>h0. g \in GuestType BY <1>r, <1>i DEF TypeOK
<1>hv1. hw1 \in Seq(RequestType)
  BY <1>h0, <1>a, GuestParts, TailIs DEF GuestRefuses
<1>he. guest' = [guest EXCEPT ![r] = h1]
  BY <1>a DEF GuestRefuses
<1> HIDE DEF g, hw1
<1>h1. h1 \in GuestType /\ h1.requests = hw1 /\ GuestSame(g, h1, {"requests"})
  BY <1>h0, <1>hv1, GuestRequests
<1> HIDE DEF h1
<1>hs. GuestSame(g, h1, {"requests"})
  BY <1>h1 DEF GuestSame
<1>hf. guest' \in [Rts -> GuestType] /\ guest'[r] = h1 /\ \A s \in Rts : s # r => guest'[s] = guest[s]
  BY <1>he, <1>r, <1>h1, <1>i DEF TypeOK
<1>h. GuestChanges(r, {"requests"}) /\ guest'[r].requests = hw1
  BY <1>h1, <1>hs, <1>hf DEF g, GuestChanges
<1>o. rt' = rt /\ calls' = Told(r, "error") /\ UNCHANGED <<plan, left, server>> /\ doubt' = [doubt EXCEPT ![r] = @ \/ Head(guest[r].requests).do = "LINK"]
  BY <1>a DEF GuestRefuses
<1>. QED BY <1>r, <1>h, <1>o DEF g, hw1

(* What Initialize changes. *)
LEMMA InitializeEffect ==
  ASSUME ChainInv, NEW c \in Calls, Initialize(c)
  PROVE  \E r \in Rts :
         /\ rt[r].state = "new" /\ InFlight(r) = {}
         /\ calls' \in [Calls -> CallType] /\ OthersKept(c)
         /\ calls'[c].op = "initialize" /\ calls'[c].at = "artifacts" /\ calls'[c].rt = r
         /\ rt' = rt /\ guest' = guest /\ UNCHANGED <<plan, server, doubt>>
         /\ left' \in [Ops -> Int] /\ calls[c] = Idle /\ MaySend("initialize") /\ server = 0
<1>i. TypeOK BY DEF ChainInv
<1>1. PICK r \in Rts : /\ rt[r].state = "new" /\ InFlight(r) = {}
                       /\ Dispatched(c, "initialize", r, "", 0, "artifacts")
  BY Zenon DEF Initialize
<1> DEFINE call == [op |-> "initialize", at |-> "artifacts", rt |-> r, path |-> "", arg |-> 0, seen |-> {}]
<1>2. call \in CallType BY DEF CallType, Ats, Ops, Rts
<1>3. calls' = [calls EXCEPT ![c] = call] BY <1>1, Zenon DEF Dispatched
<1>6. call.op = "initialize" /\ call.at = "artifacts" /\ call.rt = r BY CallFields
<1> HIDE DEF call
<1>4. calls' \in [Calls -> CallType] /\ OthersKept(c) /\ calls'[c] = call
  BY <1>2, <1>3, <1>i DEF TypeOK, OthersKept
<1>5. /\ rt' = rt /\ guest' = guest /\ UNCHANGED <<plan, server, doubt>>
      /\ left' \in [Ops -> Int] /\ calls[c] = Idle /\ MaySend("initialize") /\ server = 0
  BY <1>i, SendIs, Zenon DEF Initialize, Ops
<1> QED BY <1>1, <1>4, <1>5, <1>6, Zenon

(* A dispose gives up the requests that wait for the guest.                 *)
LEMMA DisposeEffect ==
  ASSUME ChainInv, NEW c \in Calls, Dispose(c)
  PROVE  LET r == server IN
         /\ r \in Rts
         /\ GuestChanges(r, {"requests", "machine"})
         /\ guest'[r].requests = Forgotten(r, Waiting(r))
         /\ guest'[r].machine = IF rt[r].ref THEN "destroyed" ELSE guest[r].machine
         /\ calls' \in [Calls -> CallType]
         /\ calls'[c].op = "dispose" /\ calls'[c].at = "destroying" /\ calls'[c].rt = r
         /\ \A d \in Calls \ {c} :
              IF calls[d].rt = r /\ calls[d].at = "sent"
                THEN calls'[d].at = "error" /\ CallSame(calls[d], calls'[d], {"at"})
                ELSE calls'[d] = calls[d]
         /\ rt' = rt /\ UNCHANGED <<plan, server, doubt>>
         /\ left' \in [Ops -> Int] /\ calls[c] = Idle /\ MaySend("dispose")
<1> DEFINE r == server
<1>i. TypeOK /\ CallsOK BY DEF ChainInv
<1>a. Dispose(c) OBVIOUS
<1>r. r \in Rts /\ c \in Calls BY <1>i, <1>a, Zenon DEF TypeOK, Dispose
<1> DEFINE g == guest[r]
           hw1 == Forgotten(r, Waiting(r))
           hw2 == IF rt[r].ref THEN "destroyed" ELSE g.machine
           h1 == [g EXCEPT !.requests = hw1]
           h2 == [h1 EXCEPT !.machine = hw2]
<1>h0. g \in GuestType BY <1>r, <1>i DEF TypeOK
<1>hv1. hw1 \in Seq(RequestType) BY <1>i, <1>r, ForgottenIs
<1>hv2. hw2 \in {"none", "stopped", "running", "destroyed"} BY <1>h0, GuestParts
<1>he. guest' = [guest EXCEPT ![r] = h2] BY <1>a, Zenon DEF Dispose
<1> HIDE DEF g, hw1, hw2
<1>h1. h1 \in GuestType /\ h1.requests = hw1 /\ GuestSame(g, h1, {"requests"})
  BY <1>h0, <1>hv1, GuestRequests
<1> HIDE DEF h1
<1>h2. h2 \in GuestType /\ h2.machine = hw2 /\ GuestSame(h1, h2, {"machine"})
  BY <1>h1, <1>hv2, GuestMachine
<1> HIDE DEF h2
<1>hs. GuestSame(g, h2, {"requests", "machine"}) /\ h2.requests = hw1
  BY <1>h1, <1>h2 DEF GuestSame
<1>hf. guest' \in [Rts -> GuestType] /\ guest'[r] = h2 /\ \A s \in Rts : s # r => guest'[s] = guest[s]
  BY <1>he, <1>r, <1>h2, <1>i DEF TypeOK
<1>h. GuestChanges(r, {"requests", "machine"}) /\ guest'[r].requests = hw1 /\ guest'[r].machine = hw2
  BY <1>h2, <1>hs, <1>hf DEF g, GuestChanges
<1> DEFINE call == [op |-> "dispose", at |-> "destroying", rt |-> r, path |-> "", arg |-> 0, seen |-> {}]
           e(d) == [calls[d] EXCEPT !.at = "error"]
<1>1. call \in CallType BY <1>r DEF CallType, Ats, Ops, Rts
<1>2. call.op = "dispose" /\ call.at = "destroying" /\ call.rt = r BY CallFields
<1>3. ASSUME NEW d \in Calls
      PROVE  e(d) \in CallType /\ e(d).at = "error" /\ CallSame(calls[d], e(d), {"at"})
  <2>1. calls[d] \in CallType BY <1>i DEF TypeOK
  <2> QED BY <2>1, CallAt DEF Ats, InTurn
<1>4. calls' = [d \in Calls |-> IF d = c THEN call
                                ELSE IF d \in Waiting(r) THEN e(d) ELSE calls[d]]
  BY <1>a, Zenon DEF Dispose
<1>5. \A d \in Calls : d \in Waiting(r) <=> calls[d].rt = r /\ calls[d].at = "sent"
  BY DEF Waiting, InFlight
<1>6. calls \in [Calls -> CallType] BY <1>i DEF TypeOK
<1>7. \A d \in Calls : calls[d] \in CallType BY <1>6
<1> HIDE DEF call, e, r
<1>8. calls' \in [Calls -> CallType] BY <1>1, <1>3, <1>4, <1>7
<1>9. calls'[c] = call BY <1>4
<1>10. ASSUME NEW d \in Calls \ {c}
       PROVE  IF calls[d].rt = r /\ calls[d].at = "sent"
                THEN calls'[d].at = "error" /\ CallSame(calls[d], calls'[d], {"at"})
                ELSE calls'[d] = calls[d]
  BY <1>3, <1>4, <1>5
<1>o. /\ rt' = rt /\ UNCHANGED <<plan, server, doubt>>
      /\ left' \in [Ops -> Int] /\ calls[c] = Idle /\ MaySend("dispose")
  BY <1>a, <1>i, SendIs, Zenon DEF Dispose, Ops
<1> QED BY <1>r, <1>h, <1>8, <1>9, <1>10, <1>o, <1>2 DEF g, hw1, hw2, r

(* What the calls are told when the guest has dealt with a request.         *)
LEMMA ToldIs ==
  ASSUME TypeOK, NEW r \in Rts, NEW id, id = Head(guest[r].requests).id,
         NEW status \in Ats, calls' = Told(r, status), NEW f \in [Paths -> Int], guest'[r].files = f,
         \A d \in Calls : calls[d].op = "read" /\ calls[d].rt = r => calls[d].path \in Paths
  PROVE  /\ calls' \in [Calls -> CallType]
         /\ \A d \in Calls :
              /\ d = id => calls'[d].at = status /\ CallSame(calls[d], calls'[d], {"at"})
              /\ d # id /\ calls[d].op = "read" /\ calls[d].rt = r =>
                   /\ calls'[d].seen = calls[d].seen \cup {f[calls[d].path]}
                   /\ CallSame(calls[d], calls'[d], {"seen"})
              /\ d # id /\ ~(calls[d].op = "read" /\ calls[d].rt = r) => calls'[d] = calls[d]
<1> DEFINE a(d) == [calls[d] EXCEPT !.at = status]
           s(d) == calls[d].seen \cup {f[calls[d].path]}
           b(d) == [calls[d] EXCEPT !.seen = s(d)]
<1>1. calls' = [d \in Calls |-> IF d = id THEN a(d)
                                ELSE IF calls[d].op = "read" /\ calls[d].rt = r THEN b(d) ELSE calls[d]]
  BY DEF Told
<1>2. \A d \in Calls : calls[d] \in CallType BY DEF TypeOK
<1>3. ASSUME NEW d \in Calls
      PROVE  a(d) \in CallType /\ a(d).at = status /\ CallSame(calls[d], a(d), {"at"})
  BY <1>2, CallAt
<1>4. ASSUME NEW d \in Calls, calls[d].op = "read", calls[d].rt = r
      PROVE  b(d) \in CallType /\ b(d).seen = s(d) /\ CallSame(calls[d], b(d), {"seen"})
  <2>1. s(d) \in SUBSET Int
    <3>1. calls[d].seen \in SUBSET Int /\ calls[d].path \in Paths BY <1>4, Types, Zenon
    <3> QED BY <3>1
  <2> HIDE DEF s
  <2> QED BY <1>2, <2>1, CallSeen
<1> HIDE DEF a, b
<1>5. calls' \in [Calls -> CallType] BY <1>1, <1>2, <1>3, <1>4
<1> QED BY <1>1, <1>3, <1>4, <1>5

-----------------------------------------------------------------------------
(* What a step keeps of the chain.                                         *)
TailsKept == \A s \in Rts : rt'[s].tail = rt[s].tail
LinesKept == \A s \in Rts : /\ guest'[s].requests = guest[s].requests
                            /\ guest'[s].input = guest[s].input
FilesKept == \A s \in Rts : /\ guest'[s].files = guest[s].files
                            /\ guest'[s].output = guest[s].output
                            /\ rt[s].booted => rt'[s].booted

(* The call keeps its place on the tail, or is on none.                     *)
LEMMA TailKept ==
  ASSUME TypeOK, CallsOK, TailOK, ValuesOK, TailsKept,
         \A d \in Calls : /\ calls[d].at \in OnTail <=> calls'[d].at \in OnTail
                          /\ calls[d].at \in OnTail =>
                               /\ calls'[d].rt = calls[d].rt /\ calls'[d].op = calls[d].op
                               /\ calls'[d].arg = calls[d].arg
                          /\ calls'[d].at \in InTurn =>
                               calls[d].at \in InTurn \/ (/\ calls[d].at \in OnTail
                                                          /\ Turn(rt[calls[d].rt].tail, 1) = d)
  PROVE  TailOK' /\ ValuesOK'
<1>2. \A r \in Rts : /\ rt'[r].tail = rt[r].tail
                     /\ \A i \in DOMAIN rt[r].tail : Turn(rt[r].tail, i) \in Calls
  BY Types, Zenon DEF TailsKept
<1>3. \A d \in Calls : calls[d].at \in OnTail => calls'[d].rt \in Rts /\ calls'[d].rt = calls[d].rt
  BY InFlightIs
<1>4. \A d \in Calls : calls'[d].at \in InTurn => calls[d].at \in OnTail
  BY DEF OnTail
<1>5. TailOK'
  <2>1. ASSUME NEW r \in Rts, NEW i \in DOMAIN rt'[r].tail
        PROVE  /\ calls'[Turn(rt'[r].tail, i)].rt = r /\ calls'[Turn(rt'[r].tail, i)].at \in OnTail
               /\ \A j \in DOMAIN rt'[r].tail : Turn(rt'[r].tail, i) = Turn(rt'[r].tail, j) => i = j
    BY <1>2, <2>1 DEF TailOK
  <2>2. ASSUME NEW d \in Calls, calls'[d].at \in OnTail
        PROVE  \E i \in DOMAIN rt'[calls'[d].rt].tail : Turn(rt'[calls'[d].rt].tail, i) = d
    BY <1>2, <1>3, <2>2 DEF TailOK
  <2>3. ASSUME NEW d \in Calls, calls'[d].at \in InTurn
        PROVE  Turn(rt'[calls'[d].rt].tail, 1) = d
    BY <1>2, <1>3, <1>4, <2>3 DEF TailOK
  <2> QED BY <2>1, <2>2, <2>3 DEF TailOK
<1>6. ValuesOK'
  BY <1>2 DEF ValuesOK, TailOK
<1> QED BY <1>5, <1>6

(* The requests and the waiters of a runtime are untouched. *)
LEMMA LineKept ==
  ASSUME TypeOK, CallsOK, LineOK, LinesKept,
         \A d \in Calls : /\ calls'[d].at = "sent" <=> calls[d].at = "sent"
                          /\ calls[d].at = "sent" => calls'[d] = calls[d]
                          /\ calls'[d].at \in {"ok", "collected"} =>
                               calls[d].at \in {"ok", "collected"} /\ calls'[d].rt = calls[d].rt
  PROVE  LineOK'
<1>1. ASSUME NEW d \in Calls, calls[d].at \in {"sent", "ok", "collected"} PROVE calls[d].rt \in Rts
  BY <1>1, InFlightIs DEF OnTail, InTurn
<1>2. ASSUME NEW r \in Rts, NEW i \in DOMAIN guest[r].requests
      PROVE  guest[r].requests[i].id \in 0 .. MaxCalls
  <2>0. guest[r].requests \in Seq(RequestType) BY Types, Zenon
  <2>1. guest[r].requests[i] \in RequestType BY <2>0, <1>2
  <2> QED BY <2>1, Zenon DEF RequestType
<1>3. \A n \in 0 .. MaxCalls : n # 0 => n \in Calls
  BY PlansAssumption DEF Calls
<1>4. ASSUME NEW r \in Rts, NEW i \in DOMAIN guest'[r].requests
      PROVE  LET q == guest'[r].requests[i] IN
                 /\ q.do = "APPLY" => guest'[r].input # <<>>
                 /\ q.do = "READ" => q.path \in Paths
                 /\ q.id # 0 => /\ i = Len(guest'[r].requests)
                                /\ calls'[q.id].rt = r
                                /\ calls'[q.id].at = "sent"
  <2>1. guest'[r].requests = guest[r].requests /\ guest'[r].input = guest[r].input
    BY DEF LinesKept
  <2>2. LET q == guest[r].requests[i] IN
          /\ q.do = "APPLY" => guest[r].input # <<>>
          /\ q.do = "READ" => q.path \in Paths
          /\ q.id # 0 => /\ i = Len(guest[r].requests)
                         /\ calls[q.id].rt = r
                         /\ calls[q.id].at = "sent"
    BY <1>4, <2>1 DEF LineOK
  <2>3. guest[r].requests[i].id # 0 => guest[r].requests[i].id \in Calls
    BY <1>2, <1>3, <1>4, <2>1
  <2> QED BY <2>1, <2>2, <2>3
<1>5. ASSUME NEW d \in Calls, calls'[d].at = "sent"
      PROVE  LET line == guest'[calls'[d].rt].requests IN
                 line # <<>> /\ line[Len(line)].id = d
                   /\ Asks(calls'[d], line[Len(line)], guest'[calls'[d].rt].input)
  <2>1. calls'[d] = calls[d] /\ calls[d].at = "sent" /\ calls[d].rt \in Rts
    BY <1>1, <1>5
  <2> QED BY <2>1 DEF LineOK, LinesKept
<1>6. ASSUME NEW d \in Calls, calls'[d].at \in {"ok", "collected"}
      PROVE  guest'[calls'[d].rt].requests = <<>>
  BY <1>1, <1>6 DEF LineOK, LinesKept
<1> QED BY <1>4, <1>5, <1>6 DEF LineOK

(* What the reads may answer is untouched. *)
LEMMA ReadKept ==
  ASSUME TypeOK, CallsOK, ReadOK, FilesKept,
         \A d \in Calls : calls'[d].op = "read" =>
            \/ calls'[d] = calls[d]
            \/ /\ calls[d].op = "read" /\ calls[d].at # "answer"
               /\ calls'[d].rt = calls[d].rt /\ calls'[d].path = calls[d].path
               /\ calls'[d].seen = calls[d].seen
               /\ calls'[d].at \in {"read", "sent", "error"}
  PROVE  ReadOK'
<1>1. \A d \in Calls : calls[d].op = "read" => calls[d].rt \in Rts
  BY DEF CallsOK, CallOK
<1> QED BY <1>1 DEF ReadOK, FilesKept

-----------------------------------------------------------------------------
(* A tail: its calls, one longer, one shorter.                             *)
Longer(t, u, c, v) ==
    /\ DOMAIN t = 1 .. Len(t) /\ DOMAIN u = 1 .. Len(t) + 1 /\ Len(t) \in Nat
    /\ \A k \in 1 .. Len(t) : u[k] = t[k] /\ Turn(u, k) = Turn(t, k) /\ Turn(t, k) \in Calls
    /\ u[Len(t) + 1] = <<c, v>> /\ Turn(u, Len(t) + 1) = c

Shorter(t, u) ==
    /\ DOMAIN t = 1 .. Len(t) /\ DOMAIN u = 1 .. Len(t) - 1 /\ Len(t) \in Nat /\ Len(t) >= 1
    /\ \A k \in 1 .. Len(t) - 1 : u[k] = t[k + 1] /\ Turn(u, k) = Turn(t, k + 1)
    /\ \A k \in 1 .. Len(t) : Turn(t, k) \in Calls

(* One call more at the end of controlTail. *)
LEMMA Lengthened ==
  ASSUME NEW t \in Seq(Calls \X Int), NEW c \in Calls, NEW v \in Int
  PROVE  Longer(t, Append(t, <<c, v>>), c, v)
<1> DEFINE u == Append(t, <<c, v>>)
<1>1. <<c, v>> \in Calls \X Int OBVIOUS
<1>2. /\ DOMAIN t = 1 .. Len(t) /\ DOMAIN u = 1 .. Len(t) + 1 /\ Len(t) \in Nat
      /\ \A k \in 1 .. Len(t) : u[k] = t[k]
      /\ u[Len(t) + 1] = <<c, v>>
  BY <1>1, AppendIs
<1>3. \A k \in 1 .. Len(t) : t[k][1] \in Calls OBVIOUS
<1> HIDE DEF u
<1>4. Longer(t, u, c, v)
  BY <1>2, <1>3 DEF Turn, Longer
<1> QED BY <1>4 DEF u

(* controlTail after its first call has settled. *)
LEMMA Shortened ==
  ASSUME NEW t \in Seq(Calls \X Int), t # <<>>
  PROVE  Shorter(t, Tail(t))
<1> DEFINE u == Tail(t)
<1>1. /\ DOMAIN t = 1 .. Len(t) /\ DOMAIN u = 1 .. Len(t) - 1 /\ Len(t) \in Nat /\ Len(t) >= 1
      /\ \A k \in 1 .. Len(t) - 1 : u[k] = t[k + 1]
  BY TailIs
<1>2. \A k \in 1 .. Len(t) : t[k][1] \in Calls OBVIOUS
<1> HIDE DEF u
<1>3. Shorter(t, u) BY <1>1, <1>2 DEF Turn, Shorter
<1> QED BY <1>3 DEF u

-----------------------------------------------------------------------------
(* Steps of a call that waits for no turn, before and after.               *)
LEMMA Aside ==
  ASSUME ChainInv, TypeOK', BootOK', NEW c \in Calls, OthersKept(c), CallOK(c)',
         calls[c].at \notin OnTail, calls'[c].at \notin OnTail, calls'[c].op # "read",
         TailsKept, LinesKept, FilesKept
  PROVE  ChainInv'
<1>1. CallsOK'
  BY DEF ChainInv, CallsOK, CallOK, OthersKept
<1>2. \A at \in {"sent", "ok", "collected"} \cup InTurn : at \in OnTail
  BY DEF OnTail, InTurn
<1>3. TailOK' /\ ValuesOK'
  BY <1>2, TailKept DEF ChainInv, OthersKept
<1>4. LineOK'
  BY <1>2, LineKept DEF ChainInv, OthersKept
<1>5. ReadOK'
  BY ReadKept DEF ChainInv, OthersKept
<1> QED BY <1>1, <1>3, <1>4, <1>5 DEF ChainInv

(* Steps of the runtime and the guest that no call sees.                   *)
LEMMA Beside ==
  ASSUME ChainInv, TypeOK', BootOK', calls' = calls, TailsKept, LinesKept, FilesKept
  PROVE  ChainInv'
<1>1. CallsOK'
  BY DEF ChainInv, CallsOK, CallOK
<1>2. \A at \in InTurn : at \in OnTail
  BY DEF OnTail
<1>3. TailOK' /\ ValuesOK'
  BY <1>2, TailKept DEF ChainInv
<1>4. LineOK'
  BY LineKept DEF ChainInv
<1>5. ReadOK'
  BY ReadKept DEF ChainInv
<1> QED BY <1>1, <1>3, <1>4, <1>5 DEF ChainInv

TailsElsewhereKept(r) == \A s \in Rts : s # r => rt'[s].tail = rt[s].tail

(* A call is chained to the tail.                                          *)
LEMMA Joins ==
  ASSUME ChainInv, TypeOK', BootOK', NEW c \in Calls, OthersKept(c), CallOK(c)',
         NEW r \in Rts, NEW v \in Int,
         calls[c].at \notin OnTail, calls'[c].at \in Chained, calls'[c].rt = r,
         rt'[r].tail = Append(rt[r].tail, <<c, v>>), TailsElsewhereKept(r),
         calls'[c].op \in {"write", "link"} => v = calls'[c].arg,
         calls'[c].op = "read" => /\ rt'[r].booted
                                  /\ guest[r].files[calls'[c].path] \in calls'[c].seen,
         LinesKept, FilesKept
  PROVE  ChainInv'
<1> DEFINE t == rt[r].tail
           u == rt'[r].tail
<1>i. TypeOK /\ CallsOK /\ TailOK /\ ValuesOK /\ LineOK /\ ReadOK
  BY DEF ChainInv
<1>u. t = rt[r].tail /\ u = rt'[r].tail /\ t \in Seq(Calls \X Int)
  BY <1>i, Types, Zenon
<1>k. /\ \A k \in DOMAIN t : calls[Turn(t, k)].rt = r /\ calls[Turn(t, k)].at \in OnTail
      /\ \A k, l \in DOMAIN t : Turn(t, k) = Turn(t, l) => k = l
      /\ \A k \in DOMAIN t : calls[Turn(t, k)].op \in {"write", "link"} => t[k][2] = calls[Turn(t, k)].arg
  BY <1>i DEF TailOK, ValuesOK
<1>l. \A s \in Rts : \A i \in DOMAIN rt[s].tail : Turn(rt[s].tail, i) \in Calls
  BY <1>i, Types, Zenon
<1>1. CallsOK'
  BY DEF ChainInv, CallsOK, CallOK, OthersKept
<1>2. \A at \in {"sent", "ok", "collected"} \cup InTurn : at \in OnTail /\ at \notin Chained
  BY DEF OnTail, InTurn, Chained
<1>m. Longer(t, u, c, v)
  BY <1>u, Lengthened
<1> HIDE DEF t, u
<1>s. /\ DOMAIN t = 1 .. Len(t) /\ DOMAIN u = 1 .. Len(t) + 1 /\ Len(t) \in Nat
      /\ \A k \in 1 .. Len(t) : u[k] = t[k] /\ Turn(u, k) = Turn(t, k) /\ Turn(t, k) \in Calls
      /\ u[Len(t) + 1] = <<c, v>> /\ Turn(u, Len(t) + 1) = c
  BY <1>m DEF Longer
<1>t. \A s \in Rts : s # r => rt'[s].tail = rt[s].tail
  BY DEF TailsElsewhereKept
<1>n. \A k \in 1 .. Len(t) : Turn(t, k) # c
  BY <1>s, <1>k
<1>o. \A s \in Rts : \A i \in DOMAIN rt[s].tail : Turn(rt[s].tail, i) \in Calls \ {c}
  BY <1>i, <1>l DEF TailOK
<1>3. TailOK'
  <2>1. ASSUME NEW s \in Rts, NEW i \in DOMAIN rt'[s].tail
        PROVE  /\ calls'[Turn(rt'[s].tail, i)].rt = s /\ calls'[Turn(rt'[s].tail, i)].at \in OnTail
               /\ \A j \in DOMAIN rt'[s].tail : Turn(rt'[s].tail, i) = Turn(rt'[s].tail, j) => i = j
    <3>1. CASE s # r
      BY <3>1, <2>1, <1>t, <1>o, <1>i DEF TailOK, OthersKept
    <3>2. CASE s = r
      <4>1. \A k \in 1 .. Len(t) : calls[Turn(t, k)].rt = r /\ calls[Turn(t, k)].at \in OnTail
        BY <1>s, <1>k
      <4>2. \A k, l \in 1 .. Len(t) : Turn(t, k) = Turn(t, l) => k = l
        BY <1>s, <1>k
      <4>3. \A k \in 1 .. Len(t) : calls'[Turn(u, k)] = calls[Turn(t, k)]
        BY <1>s, <1>n DEF OthersKept
      <4>4. i \in 1 .. Len(t) \/ i = Len(t) + 1
        <5>1. rt'[s].tail = u BY <3>2, <1>u
        <5>2. i \in DOMAIN u BY <5>1, <2>1
        <5> QED BY <5>2, <1>s
      <4>5. calls'[Turn(u, i)].rt = r /\ calls'[Turn(u, i)].at \in OnTail
        <5>1. CASE i \in 1 .. Len(t) BY <5>1, <4>1, <4>3, <1>s
        <5>2. CASE i = Len(t) + 1 BY <5>2, <1>s DEF OnTail
        <5> QED BY <5>1, <5>2, <4>4
      <4>6. \A j \in 1 .. Len(t) + 1 : Turn(u, i) = Turn(u, j) => i = j
        BY <1>s, <1>n, <4>2, <4>4
      <4>7. rt'[s].tail = u /\ DOMAIN rt'[s].tail = 1 .. Len(t) + 1 BY <3>2, <1>u, <1>s
      <4> QED BY <3>2, <4>5, <4>6, <4>7, Zenon
    <3> QED BY <3>1, <3>2
  <2>2. ASSUME NEW d \in Calls, calls'[d].at \in OnTail
        PROVE  \E i \in DOMAIN rt'[calls'[d].rt].tail : Turn(rt'[calls'[d].rt].tail, i) = d
    <3>1. CASE d = c
      <4>1. Len(t) + 1 \in DOMAIN u /\ Turn(u, Len(t) + 1) = d
        BY <3>1, <1>s
      <4> QED BY <3>1, <4>1, <1>u
    <3>2. CASE d # c
      <4>1. calls'[d] = calls[d] /\ calls[d].rt \in Rts
        BY <3>2, <2>2, <1>i, InFlightIs DEF OthersKept
      <4>2. PICK i \in DOMAIN rt[calls[d].rt].tail : Turn(rt[calls[d].rt].tail, i) = d
        BY <4>1, <2>2, <1>i DEF TailOK
      <4>3. CASE calls[d].rt # r
        BY <4>1, <4>2, <4>3, <1>t
      <4>4. CASE calls[d].rt = r
        <5>1. i \in 1 .. Len(t) /\ i \in DOMAIN u /\ Turn(u, i) = d
          <6>1. rt[calls[d].rt].tail = t BY <4>4, <1>u
          <6>2. i \in DOMAIN t /\ Turn(t, i) = d BY <4>2, <6>1
          <6> QED BY <6>2, <1>s
        <5> QED BY <4>1, <4>4, <5>1, <1>u
      <4> QED BY <4>3, <4>4
    <3> QED BY <3>1, <3>2
  <2>3. ASSUME NEW d \in Calls, calls'[d].at \in InTurn
        PROVE  Turn(rt'[calls'[d].rt].tail, 1) = d
    <3>1. d # c BY <1>2, <2>3
    <3>2. calls'[d] = calls[d] /\ calls[d].rt \in Rts /\ calls[d].at \in OnTail
      BY <3>1, <2>3, <1>2, <1>i, InFlightIs DEF OthersKept
    <3>3. Turn(rt[calls[d].rt].tail, 1) = d
      BY <3>2, <2>3, <1>i DEF TailOK
    <3>4. PICK i \in DOMAIN rt[calls[d].rt].tail : Turn(rt[calls[d].rt].tail, i) = d
      BY <3>2, <2>3, <1>i DEF TailOK
    <3>5. CASE calls[d].rt # r
      BY <3>2, <3>3, <3>5, <1>t
    <3>6. CASE calls[d].rt = r
      <4>1. 1 \in 1 .. Len(t)
        BY <3>4, <3>6, <1>s, <1>u
      <4>2. Turn(u, 1) = d
        <5>1. Turn(t, 1) = d BY <3>3, <3>6, <1>u, Zenon
        <5> QED BY <4>1, <5>1, <1>s, Zenon
      <4> QED BY <4>2, <3>2, <3>6, <1>u
    <3> QED BY <3>5, <3>6
  <2> QED BY <2>1, <2>2, <2>3 DEF TailOK
<1>4. ValuesOK'
  <2> SUFFICES ASSUME NEW s \in Rts, NEW i \in DOMAIN rt'[s].tail,
                      calls'[Turn(rt'[s].tail, i)].op \in {"write", "link"}
               PROVE  rt'[s].tail[i][2] = calls'[Turn(rt'[s].tail, i)].arg
    BY DEF ValuesOK
  <2>1. CASE s # r
    BY <2>1, <1>t, <1>o, <1>i DEF ValuesOK, OthersKept
  <2>2. CASE s = r /\ i = Len(t) + 1
    <3>1. Turn(rt'[s].tail, i) = c /\ rt'[s].tail[i] = <<c, v>>
      BY <2>2, <1>s, <1>u
    <3> QED BY <3>1
  <2>3. CASE s = r /\ i \in 1 .. Len(t)
    <3>1. u[i] = t[i] /\ Turn(u, i) = Turn(t, i) /\ calls'[Turn(t, i)] = calls[Turn(t, i)]
      BY <2>3, <1>s, <1>n DEF OthersKept
    <3>2. i \in DOMAIN t BY <2>3, <1>s
    <3>3. rt'[s].tail = u BY <2>3, <1>u
    <3> QED BY <3>1, <3>2, <3>3, <1>k
  <2>4. s = r => i \in 1 .. Len(t) \/ i = Len(t) + 1
    <3>1. s = r => i \in DOMAIN u BY <1>u
    <3> QED BY <3>1, <1>s
  <2> QED BY <2>1, <2>2, <2>3, <2>4
<1>5. LineOK'
  BY <1>2, LineKept DEF ChainInv, OthersKept, OnTail
<1>6. ReadOK'
  <2>1. calls'[c].op = "read" => calls'[c].at = "read"
    BY DEF CallOK, Placed, Chained
  <2>2. \A d \in Calls : calls[d].op = "read" => calls[d].rt \in Rts
    BY DEF ChainInv, CallsOK, CallOK
  <2>3. ASSUME NEW d \in Calls, calls'[d].op = "read", d # c
        PROVE  /\ rt'[calls'[d].rt].booted
               /\ calls'[d].at # "answer" => guest'[calls'[d].rt].files[calls'[d].path] \in calls'[d].seen
               /\ calls'[d].at = "ok" => guest'[calls'[d].rt].output
                     = <<calls'[d].path, guest'[calls'[d].rt].files[calls'[d].path]>>
               /\ calls'[d].at = "answer" => calls'[d].arg \in calls'[d].seen
    <3>1. calls'[d] = calls[d] /\ calls[d].op = "read" /\ calls[d].rt \in Rts
      BY <2>2, <2>3 DEF OthersKept
    <3>2. /\ rt[calls[d].rt].booted
          /\ calls[d].at # "answer" => guest[calls[d].rt].files[calls[d].path] \in calls[d].seen
          /\ calls[d].at = "ok" => guest[calls[d].rt].output
                = <<calls[d].path, guest[calls[d].rt].files[calls[d].path]>>
          /\ calls[d].at = "answer" => calls[d].arg \in calls[d].seen
      BY <3>1, <1>i DEF ReadOK
    <3>3. /\ guest'[calls[d].rt].files = guest[calls[d].rt].files
          /\ guest'[calls[d].rt].output = guest[calls[d].rt].output
          /\ rt[calls[d].rt].booted => rt'[calls[d].rt].booted
      BY <3>1 DEF FilesKept
    <3> QED BY <3>1, <3>2, <3>3
  <2>4. calls'[c].op = "read" => /\ rt'[r].booted
                                 /\ guest'[r].files[calls'[c].path] \in calls'[c].seen
    BY DEF FilesKept
  <2> QED BY <2>1, <2>3, <2>4 DEF ReadOK
<1> QED BY <1>1, <1>3, <1>4, <1>5, <1>6 DEF ChainInv

(* The call at the head of the tail is done with its turn.                 *)
LEMMA Leaves ==
  ASSUME ChainInv, TypeOK', BootOK', NEW c \in Calls, OthersKept(c), CallOK(c)',
         NEW r \in Rts, calls[c].rt = r, calls[c].at \in OnTail, calls[c].at # "sent",
         Turn(rt[r].tail, 1) = c, calls'[c].at \notin OnTail,
         rt'[r].tail = Tail(rt[r].tail), TailsElsewhereKept(r),
         calls'[c].op = "read" => /\ calls'[c].at = "answer" /\ rt'[calls'[c].rt].booted
                                  /\ calls'[c].arg \in calls'[c].seen,
         LinesKept, FilesKept
  PROVE  ChainInv'
<1> DEFINE t == rt[r].tail
           u == rt'[r].tail
<1>i. TypeOK /\ CallsOK /\ TailOK /\ ValuesOK /\ LineOK /\ ReadOK
  BY DEF ChainInv
<1>u. t = rt[r].tail /\ u = rt'[r].tail /\ t \in Seq(Calls \X Int)
  BY <1>i, Types, Zenon
<1>k. /\ \A k \in DOMAIN t : calls[Turn(t, k)].rt = r /\ calls[Turn(t, k)].at \in OnTail
      /\ \A k, l \in DOMAIN t : Turn(t, k) = Turn(t, l) => k = l
      /\ \A k \in DOMAIN t : calls[Turn(t, k)].op \in {"write", "link"} => t[k][2] = calls[Turn(t, k)].arg
  BY <1>i DEF TailOK, ValuesOK
<1>l. \A s \in Rts : \A i \in DOMAIN rt[s].tail : Turn(rt[s].tail, i) \in Calls
  BY <1>i, Types, Zenon
<1>1. CallsOK'
  BY DEF ChainInv, CallsOK, CallOK, OthersKept
<1>2. \A at \in {"sent", "ok", "collected"} \cup InTurn : at \in OnTail
  BY DEF OnTail, InTurn
<1>e. t # <<>> /\ t \in Seq(Calls \X Int)
  <2>1. \E i \in DOMAIN t : Turn(t, i) = c
    BY <1>i DEF TailOK
  <2> QED BY <2>1, <1>u
<1>s. /\ DOMAIN t = 1 .. Len(t) /\ DOMAIN u = 1 .. Len(t) - 1 /\ Len(t) \in Nat /\ Len(t) >= 1
      /\ \A k \in 1 .. Len(t) - 1 : u[k] = t[k + 1] /\ Turn(u, k) = Turn(t, k + 1)
      /\ \A k \in 1 .. Len(t) : Turn(t, k) \in Calls
      /\ Turn(t, 1) = c
  <2>1. u = Tail(t) OBVIOUS
  <2>2. Turn(t, 1) = c OBVIOUS
  <2> HIDE DEF t, u
  <2>3. Shorter(t, u) BY <1>e, <2>1, Shortened
  <2> QED BY <2>2, <2>3 DEF Shorter
<1> HIDE DEF t, u
<1>t. \A s \in Rts : s # r => rt'[s].tail = rt[s].tail
  BY DEF TailsElsewhereKept
<1>p. /\ \A k \in 1 .. Len(t) : calls[Turn(t, k)].rt = r /\ calls[Turn(t, k)].at \in OnTail
      /\ \A k, l \in 1 .. Len(t) : Turn(t, k) = Turn(t, l) => k = l
  BY <1>s, <1>k
<1>n. \A k \in 1 .. Len(t) - 1 : k + 1 \in 1 .. Len(t) /\ Turn(u, k) # c /\ Turn(u, k) \in Calls
  BY <1>s, <1>p
<1>o. \A s \in Rts : s # r => \A i \in DOMAIN rt[s].tail : Turn(rt[s].tail, i) \in Calls \ {c}
  BY <1>i, <1>l DEF TailOK
<1>3. TailOK'
  <2>1. ASSUME NEW s \in Rts, NEW i \in DOMAIN rt'[s].tail
        PROVE  /\ calls'[Turn(rt'[s].tail, i)].rt = s /\ calls'[Turn(rt'[s].tail, i)].at \in OnTail
               /\ \A j \in DOMAIN rt'[s].tail : Turn(rt'[s].tail, i) = Turn(rt'[s].tail, j) => i = j
    <3>1. CASE s # r
      BY <3>1, <2>1, <1>t, <1>o, <1>i DEF TailOK, OthersKept
    <3>2. CASE s = r
      <4>1. i \in 1 .. Len(t) - 1 BY <2>1, <3>2, <1>s, <1>u
      <4>2. calls'[Turn(u, i)] = calls[Turn(t, i + 1)] /\ i + 1 \in 1 .. Len(t)
        BY <4>1, <1>s, <1>n DEF OthersKept
      <4>3. \A j \in 1 .. Len(t) - 1 : Turn(u, i) = Turn(u, j) => i + 1 = j + 1
        BY <4>1, <1>s, <1>n, <1>p
      <4>4. \A j \in 1 .. Len(t) - 1 : i + 1 = j + 1 => i = j
        BY <4>1
      <4>5. calls'[Turn(u, i)].rt = r /\ calls'[Turn(u, i)].at \in OnTail
        BY <4>2, <1>p
      <4>6. \A j \in DOMAIN u : Turn(u, i) = Turn(u, j) => i = j
        BY <4>3, <4>4, <1>s
      <4> QED BY <3>2, <4>5, <4>6, <1>u
    <3> QED BY <3>1, <3>2
  <2>2. ASSUME NEW d \in Calls, calls'[d].at \in OnTail
        PROVE  \E i \in DOMAIN rt'[calls'[d].rt].tail : Turn(rt'[calls'[d].rt].tail, i) = d
    <3>1. d # c /\ calls'[d] = calls[d] /\ calls[d].rt \in Rts
      BY <2>2, <1>i, InFlightIs DEF OthersKept
    <3>2. PICK i \in DOMAIN rt[calls[d].rt].tail : Turn(rt[calls[d].rt].tail, i) = d
      BY <3>1, <2>2, <1>i DEF TailOK
    <3>3. CASE calls[d].rt # r
      BY <3>1, <3>2, <3>3, <1>t
    <3>4. CASE calls[d].rt = r
      <4>1. i # 1 /\ i - 1 \in 1 .. Len(t) - 1 /\ (i - 1) + 1 = i
        <5>1. rt[calls[d].rt].tail = t BY <3>4, <1>u
        <5>2. i \in 1 .. Len(t) /\ Turn(t, i) = d BY <3>2, <5>1, <1>s
        <5> QED BY <3>1, <5>2, <1>s
      <4>2. Turn(u, i - 1) = d
        BY <4>1, <3>2, <3>4, <1>s, <1>u
      <4>3. i - 1 \in DOMAIN u BY <4>1, <1>s
      <4> QED BY <3>1, <3>4, <4>2, <4>3, <1>u
    <3> QED BY <3>3, <3>4
  <2>3. ASSUME NEW d \in Calls, calls'[d].at \in InTurn
        PROVE  Turn(rt'[calls'[d].rt].tail, 1) = d
    <3>1. d # c /\ calls'[d] = calls[d] /\ calls[d].rt \in Rts /\ Turn(rt[calls[d].rt].tail, 1) = d
      BY <2>3, <1>2, <1>i, InFlightIs DEF OthersKept, TailOK
    <3>2. calls[d].rt # r BY <3>1, <1>s, <1>u
    <3> QED BY <3>1, <3>2, <1>t
  <2> QED BY <2>1, <2>2, <2>3 DEF TailOK
<1>4. ValuesOK'
  <2> SUFFICES ASSUME NEW s \in Rts, NEW i \in DOMAIN rt'[s].tail,
                      calls'[Turn(rt'[s].tail, i)].op \in {"write", "link"}
               PROVE  rt'[s].tail[i][2] = calls'[Turn(rt'[s].tail, i)].arg
    BY DEF ValuesOK
  <2>1. CASE s # r
    BY <2>1, <1>t, <1>o, <1>i DEF ValuesOK, OthersKept
  <2>2. CASE s = r
    <3>1. i \in 1 .. Len(t) - 1 BY <2>2, <1>s, <1>u
    <3>2. u[i] = t[i + 1] /\ Turn(u, i) = Turn(t, i + 1) /\ i + 1 \in DOMAIN t
      BY <3>1, <1>s
    <3>3. calls'[Turn(u, i)] = calls[Turn(t, i + 1)]
      BY <3>1, <3>2, <1>n DEF OthersKept
    <3>4. rt'[s].tail = u BY <2>2, <1>u
    <3>5. t[i + 1][2] = calls[Turn(t, i + 1)].arg
      BY <3>2, <3>3, <3>4, <1>k
    <3> QED BY <3>2, <3>3, <3>4, <3>5
  <2> QED BY <2>1, <2>2
<1>5. LineOK'
  BY <1>2, LineKept DEF ChainInv, OthersKept
<1>6. ReadOK'
  <2>2. \A d \in Calls : calls[d].op = "read" => calls[d].rt \in Rts
    BY DEF ChainInv, CallsOK, CallOK
  <2>3. ASSUME NEW d \in Calls, calls'[d].op = "read", d # c
        PROVE  /\ rt'[calls'[d].rt].booted
               /\ calls'[d].at # "answer" => guest'[calls'[d].rt].files[calls'[d].path] \in calls'[d].seen
               /\ calls'[d].at = "ok" => guest'[calls'[d].rt].output
                     = <<calls'[d].path, guest'[calls'[d].rt].files[calls'[d].path]>>
               /\ calls'[d].at = "answer" => calls'[d].arg \in calls'[d].seen
    <3>1. calls'[d] = calls[d] /\ calls[d].op = "read" /\ calls[d].rt \in Rts
      BY <2>2, <2>3 DEF OthersKept
    <3>2. /\ rt[calls[d].rt].booted
          /\ calls[d].at # "answer" => guest[calls[d].rt].files[calls[d].path] \in calls[d].seen
          /\ calls[d].at = "ok" => guest[calls[d].rt].output
                = <<calls[d].path, guest[calls[d].rt].files[calls[d].path]>>
          /\ calls[d].at = "answer" => calls[d].arg \in calls[d].seen
      BY <3>1, <1>i DEF ReadOK
    <3>3. /\ guest'[calls[d].rt].files = guest[calls[d].rt].files
          /\ guest'[calls[d].rt].output = guest[calls[d].rt].output
          /\ rt[calls[d].rt].booted => rt'[calls[d].rt].booted
      BY <3>1 DEF FilesKept
    <3> QED BY <3>1, <3>2, <3>3
  <2> QED BY <2>3 DEF ReadOK
<1> QED BY <1>1, <1>3, <1>4, <1>5, <1>6 DEF ChainInv

-----------------------------------------------------------------------------
(* What the changes of a step leave alone.                                  *)
LEMMA NoChange ==
  ASSUME TypeOK, NEW r
  PROVE  /\ rt' = rt => RtChanges(r, {})
         /\ guest' = guest => GuestChanges(r, {})
BY DEF TypeOK, RtChanges, GuestChanges, RtSame, GuestSame

(* What a step that changes the fields F and G keeps of the chain. *)
LEMMA Frame ==
  ASSUME ChainInv, NEW r \in Rts, NEW F, NEW G, RtChanges(r, F), GuestChanges(r, G)
  PROVE  /\ rt' \in [Rts -> RuntimeType] /\ guest' \in [Rts -> GuestType]
         /\ TailsElsewhereKept(r)
         /\ "tail" \notin F => TailsKept
         /\ "requests" \notin G /\ "input" \notin G => LinesKept
         /\ "files" \notin G /\ "output" \notin G /\ "booted" \notin F => FilesKept
         /\ "ready" \notin F /\ "booted" \notin F /\ "on" \notin G => BootOK'
<1>1. /\ rt' \in [Rts -> RuntimeType] /\ guest' \in [Rts -> GuestType]
      /\ \A s \in Rts : s # r => rt'[s] = rt[s] /\ guest'[s] = guest[s]
      /\ RtSame(rt[r], rt'[r], F) /\ GuestSame(guest[r], guest'[r], G)
  BY DEF RtChanges, GuestChanges
<1>2. TailsElsewhereKept(r) BY <1>1 DEF TailsElsewhereKept
<1>3. "tail" \notin F => TailsKept BY <1>1 DEF TailsKept, RtSame
<1>4. "requests" \notin G /\ "input" \notin G => LinesKept
  BY <1>1 DEF LinesKept, GuestSame
<1>5. "files" \notin G /\ "output" \notin G /\ "booted" \notin F => FilesKept
  BY <1>1 DEF FilesKept, GuestSame, RtSame
<1>6. "ready" \notin F /\ "booted" \notin F /\ "on" \notin G => BootOK'
  BY <1>1 DEF ChainInv, BootOK, GuestSame, RtSame
<1> QED BY <1>1, <1>2, <1>3, <1>4, <1>5, <1>6

(* A call that is none is on no controlTail. *)
LEMMA IdleIs ==
  ASSUME NEW c \in Calls
  PROVE  /\ calls[c] = Idle => calls[c].at \notin OnTail /\ calls[c].op = "none" /\ calls[c].rt \notin Rts
         /\ calls'[c] = Idle => CallOK(c)' /\ calls'[c].at \notin OnTail /\ calls'[c].op = "none"
<1>1. Idle.op = "none" /\ Idle.at = "none" /\ Idle.rt = 0
  BY DEF Idle
<1>2. "none" \notin OnTail /\ 0 \notin Rts
  BY DEF OnTail, Chained, InTurn, Rts
<1>3. calls'[c] = Idle => CallOK(c)'
  BY <1>1 DEF CallOK, Placed
<1> QED BY <1>1, <1>2, <1>3

(* The call in question was on its way to the guest, or was not.            *)
LEMMA OnTailIs ==
  /\ \A at \in {"apply", "link", "read", "collect"} : at \in Chained /\ at \in OnTail /\ at \notin InTurn
  /\ \A at \in {"sent", "ok", "error", "collected"} : at \in InTurn /\ at \in OnTail /\ at \notin Chained
  /\ \A at \in {"none", "artifacts", "emulator", "ready", "pending", "answer", "stopping", "destroying"} :
       at \notin OnTail
BY DEF OnTail, Chained, InTurn

-----------------------------------------------------------------------------
(* The chain is kept by every action.                                       *)

(* Initialize keeps the chain. *)
LEMMA InitializeChain ==
  ASSUME ChainInv, NEW c \in Calls, Initialize(c)
  PROVE  ChainInv'
<1>1. PICK r \in Rts :
         /\ calls' \in [Calls -> CallType] /\ OthersKept(c)
         /\ calls'[c].op = "initialize" /\ calls'[c].at = "artifacts" /\ calls'[c].rt = r
         /\ rt' = rt /\ guest' = guest /\ UNCHANGED <<plan, server, doubt>>
         /\ left' \in [Ops -> Int] /\ calls[c] = Idle
  BY InitializeEffect
<1>2. RtChanges(r, {}) /\ GuestChanges(r, {})
  BY <1>1, NoChange DEF ChainInv
<1>3. TailsKept /\ LinesKept /\ FilesKept /\ BootOK'
  BY <1>2, Frame
<1>4. TypeOK'
  BY <1>1, <1>2 DEF ChainInv, TypeOK, RtChanges, GuestChanges
<1>5. calls[c].at \notin OnTail /\ calls'[c].at \notin OnTail /\ calls'[c].op # "read" /\ CallOK(c)'
  <2>1. calls'[c].op = "initialize" /\ calls'[c].at = "artifacts" /\ calls'[c].rt = r
    BY <1>1
  <2> QED BY <2>1, <1>1, IdleIs, OnTailIs DEF CallOK, Placed
<1> QED BY <1>1, <1>3, <1>4, <1>5, Aside

(* InitLoaded keeps the chain. *)
LEMMA InitLoadedChain ==
  ASSUME ChainInv, NEW c \in Calls, InitLoaded(c)
  PROVE  ChainInv'
<1> DEFINE r == calls[c].rt
<1>1. /\ r \in Rts /\ RtChanges(r, {"url", "ref"}) /\ GuestChanges(r, {"machine"})
      /\ calls' \in [Calls -> CallType] /\ OthersKept(c)
      /\ plan' = plan /\ left' \in [Ops -> Int] /\ server' \in {0} \cup Rts /\ doubt' \in [Rts -> BOOLEAN]
  BY InitLoadedEffect DEF ChainInv, TypeOK, CallChanges
<1>2. RtChanges(r, {"url", "ref"}) /\ GuestChanges(r, {"machine"})
  BY <1>1, NoChange DEF ChainInv
<1> HIDE DEF r
<1>3. TailsKept /\ LinesKept /\ FilesKept /\ BootOK'
  BY <1>1, <1>2, Frame
<1>4. TypeOK'
  BY <1>1, <1>2 DEF ChainInv, TypeOK, RtChanges, GuestChanges
<1>5. calls[c].at \notin OnTail /\ calls'[c].at \notin OnTail /\ calls'[c].op # "read" /\ CallOK(c)'
  <2>1. calls[c].op = "initialize" /\ calls[c].at = "artifacts" BY DEF InitLoaded, Calling
  <2>2. calls'[c].at = "emulator" /\ CallSame(calls[c], calls'[c], {"at"}) BY InitLoadedEffect
       DEF CallChanges
  <2> QED BY <2>1, <2>2, OnTailIs DEF CallSame, ChainInv, CallsOK, CallOK, Placed
<1> QED BY <1>1, <1>3, <1>4, <1>5, Aside

(* InitReady keeps the chain. *)
LEMMA InitReadyChain ==
  ASSUME ChainInv, NEW c \in Calls, InitReady(c)
  PROVE  ChainInv'
<1> DEFINE r == calls[c].rt
<1>1. /\ r \in Rts /\ RtChanges(r, {"state"}) /\ GuestChanges(r, {"boot", "bootUp"})
      /\ calls' \in [Calls -> CallType] /\ OthersKept(c)
      /\ plan' = plan /\ left' \in [Ops -> Int] /\ server' \in {0} \cup Rts /\ doubt' \in [Rts -> BOOLEAN]
  BY InitReadyEffect DEF ChainInv, TypeOK, CallChanges
<1>2. RtChanges(r, {"state"}) /\ GuestChanges(r, {"boot", "bootUp"})
  BY <1>1, NoChange DEF ChainInv
<1> HIDE DEF r
<1>3. TailsKept /\ LinesKept /\ FilesKept /\ BootOK'
  BY <1>1, <1>2, Frame
<1>4. TypeOK'
  BY <1>1, <1>2 DEF ChainInv, TypeOK, RtChanges, GuestChanges
<1>5. calls[c].at \notin OnTail /\ calls'[c].at \notin OnTail /\ calls'[c].op # "read" /\ CallOK(c)'
  <2>1. calls[c].at \in {"emulator"} BY DEF InitReady, Calling
  <2>2. calls'[c] = Idle BY InitReadyEffect
  <2> QED BY <2>1, <2>2, IdleIs, OnTailIs
<1> QED BY <1>1, <1>3, <1>4, <1>5, Aside

(* InitFails keeps the chain. *)
LEMMA InitFailsChain ==
  ASSUME ChainInv, NEW c \in Calls, InitFails(c)
  PROVE  ChainInv'
<1> DEFINE r == calls[c].rt
<1>1. /\ r \in Rts /\ RtChanges(r, {"state"}) /\ guest' = guest
      /\ calls' \in [Calls -> CallType] /\ OthersKept(c)
      /\ plan' = plan /\ left' \in [Ops -> Int] /\ server' \in {0} \cup Rts /\ doubt' \in [Rts -> BOOLEAN]
  BY InitFailsEffect DEF ChainInv, TypeOK, CallChanges
<1>2. RtChanges(r, {"state"}) /\ GuestChanges(r, {})
  BY <1>1, NoChange DEF ChainInv
<1> HIDE DEF r
<1>3. TailsKept /\ LinesKept /\ FilesKept /\ BootOK'
  BY <1>1, <1>2, Frame
<1>4. TypeOK'
  BY <1>1, <1>2 DEF ChainInv, TypeOK, RtChanges, GuestChanges
<1>5. calls[c].at \notin OnTail /\ calls'[c].at \notin OnTail /\ calls'[c].op # "read" /\ CallOK(c)'
  <2>1. calls[c].at \in {"artifacts", "emulator"} BY
       DEF InitFails, ChainInv, CallsOK, CallOK, Placed
  <2>2. calls'[c] = Idle BY InitFailsEffect
  <2> QED BY <2>1, <2>2, IdleIs, OnTailIs
<1> QED BY <1>1, <1>3, <1>4, <1>5, Aside

(* StartFails keeps the chain. *)
LEMMA StartFailsChain ==
  ASSUME ChainInv, NEW c \in Calls, StartFails(c)
  PROVE  ChainInv'
<1> DEFINE r == calls[c].rt
<1>1. /\ r \in Rts /\ RtChanges(r, {"state"}) /\ guest' = guest
      /\ calls' \in [Calls -> CallType] /\ OthersKept(c)
      /\ plan' = plan /\ left' \in [Ops -> Int] /\ server' \in {0} \cup Rts /\ doubt' \in [Rts -> BOOLEAN]
  BY StartFailsEffect DEF ChainInv, TypeOK, CallChanges
<1>2. RtChanges(r, {"state"}) /\ GuestChanges(r, {})
  BY <1>1, NoChange DEF ChainInv
<1> HIDE DEF r
<1>3. TailsKept /\ LinesKept /\ FilesKept /\ BootOK'
  BY <1>1, <1>2, Frame
<1>4. TypeOK'
  BY <1>1, <1>2 DEF ChainInv, TypeOK, RtChanges, GuestChanges
<1>5. calls[c].at \notin OnTail /\ calls'[c].at \notin OnTail /\ calls'[c].op # "read" /\ CallOK(c)'
  <2>1. calls[c].at \in {"ready"} BY DEF StartFails, Calling
  <2>2. calls'[c] = Idle BY StartFailsEffect
  <2> QED BY <2>1, <2>2, IdleIs, OnTailIs
<1> QED BY <1>1, <1>3, <1>4, <1>5, Aside

(* StopEnds keeps the chain. *)
LEMMA StopEndsChain ==
  ASSUME ChainInv, NEW c \in Calls, StopEnds(c)
  PROVE  ChainInv'
<1> DEFINE r == calls[c].rt
<1>1. /\ r \in Rts /\ RtChanges(r, {"state"}) /\ guest' = guest
      /\ calls' \in [Calls -> CallType] /\ OthersKept(c)
      /\ plan' = plan /\ left' \in [Ops -> Int] /\ server' \in {0} \cup Rts /\ doubt' \in [Rts -> BOOLEAN]
  BY StopEndsEffect DEF ChainInv, TypeOK, CallChanges
<1>2. RtChanges(r, {"state"}) /\ GuestChanges(r, {})
  BY <1>1, NoChange DEF ChainInv
<1> HIDE DEF r
<1>3. TailsKept /\ LinesKept /\ FilesKept /\ BootOK'
  BY <1>1, <1>2, Frame
<1>4. TypeOK'
  BY <1>1, <1>2 DEF ChainInv, TypeOK, RtChanges, GuestChanges
<1>5. calls[c].at \notin OnTail /\ calls'[c].at \notin OnTail /\ calls'[c].op # "read" /\ CallOK(c)'
  <2>1. calls[c].at \in {"stopping"} BY DEF StopEnds, Calling
  <2>2. calls'[c] = Idle BY StopEndsEffect
  <2> QED BY <2>1, <2>2, IdleIs, OnTailIs
<1> QED BY <1>1, <1>3, <1>4, <1>5, Aside

(* DisposeEnds keeps the chain. *)
LEMMA DisposeEndsChain ==
  ASSUME ChainInv, NEW c \in Calls, DisposeEnds(c)
  PROVE  ChainInv'
<1> DEFINE r == calls[c].rt
<1>1. /\ r \in Rts /\ RtChanges(r, {"url", "state", "ref"}) /\ guest' = guest
      /\ calls' \in [Calls -> CallType] /\ OthersKept(c)
      /\ plan' = plan /\ left' \in [Ops -> Int] /\ server' \in {0} \cup Rts /\ doubt' \in [Rts -> BOOLEAN]
  BY DisposeEndsEffect DEF ChainInv, TypeOK, CallChanges
<1>2. RtChanges(r, {"url", "state", "ref"}) /\ GuestChanges(r, {})
  BY <1>1, NoChange DEF ChainInv
<1> HIDE DEF r
<1>3. TailsKept /\ LinesKept /\ FilesKept /\ BootOK'
  BY <1>1, <1>2, Frame
<1>4. TypeOK'
  BY <1>1, <1>2 DEF ChainInv, TypeOK, RtChanges, GuestChanges
<1>5. calls[c].at \notin OnTail /\ calls'[c].at \notin OnTail /\ calls'[c].op # "read" /\ CallOK(c)'
  <2>1. calls[c].at \in {"destroying"} BY DEF DisposeEnds, Calling
  <2>2. calls'[c] = Idle BY DisposeEndsEffect
  <2> QED BY <2>1, <2>2, IdleIs, OnTailIs
<1> QED BY <1>1, <1>3, <1>4, <1>5, Aside

(* ReadAnswered keeps the chain. *)
LEMMA ReadAnsweredChain ==
  ASSUME ChainInv, NEW c \in Calls, ReadAnswered(c)
  PROVE  ChainInv'
<1> DEFINE r == calls[c].rt
<1>1. /\ r \in Rts /\ rt' = rt /\ guest' = guest
      /\ calls' \in [Calls -> CallType] /\ OthersKept(c)
      /\ plan' = plan /\ left' \in [Ops -> Int] /\ server' \in {0} \cup Rts /\ doubt' \in [Rts -> BOOLEAN]
  <2>1. calls[c].op = "read" BY DEF ReadAnswered, Calling
  <2>2. r \in Rts BY <2>1 DEF ChainInv, CallsOK, CallOK
  <2> QED BY <2>2, ReadAnsweredEffect DEF ChainInv, TypeOK
<1>2. RtChanges(r, {}) /\ GuestChanges(r, {})
  BY <1>1, NoChange DEF ChainInv
<1> HIDE DEF r
<1>3. TailsKept /\ LinesKept /\ FilesKept /\ BootOK'
  BY <1>1, <1>2, Frame
<1>4. TypeOK'
  BY <1>1, <1>2 DEF ChainInv, TypeOK, RtChanges, GuestChanges
<1>5. calls[c].at \notin OnTail /\ calls'[c].at \notin OnTail /\ calls'[c].op # "read" /\ CallOK(c)'
  <2>1. calls[c].at \in {"answer"} BY DEF ReadAnswered, Calling
  <2>2. calls'[c] = Idle BY ReadAnsweredEffect
  <2> QED BY <2>1, <2>2, IdleIs, OnTailIs
<1> QED BY <1>1, <1>3, <1>4, <1>5, Aside

(* StartReadyTooLate keeps the chain. *)
LEMMA StartReadyTooLateChain ==
  ASSUME ChainInv, NEW c \in Calls, StartReady(c), rt[calls[c].rt].state # "running"
  PROVE  ChainInv'
<1> DEFINE r == calls[c].rt
<1>1. /\ r \in Rts /\ RtChanges(r, {"state"}) /\ guest' = guest
      /\ calls' \in [Calls -> CallType] /\ OthersKept(c)
      /\ plan' = plan /\ left' \in [Ops -> Int] /\ server' \in {0} \cup Rts /\ doubt' \in [Rts -> BOOLEAN]
  BY StartReadyTooLate DEF ChainInv, TypeOK, CallChanges
<1>2. RtChanges(r, {"state"}) /\ GuestChanges(r, {})
  BY <1>1, NoChange DEF ChainInv
<1> HIDE DEF r
<1>3. TailsKept /\ LinesKept /\ FilesKept /\ BootOK'
  BY <1>1, <1>2, Frame
<1>4. TypeOK'
  BY <1>1, <1>2 DEF ChainInv, TypeOK, RtChanges, GuestChanges
<1>5. calls[c].at \notin OnTail /\ calls'[c].at \notin OnTail /\ calls'[c].op # "read" /\ CallOK(c)'
  <2>1. calls[c].at \in {"ready"} BY DEF StartReady, Calling
  <2>2. calls'[c] = Idle BY StartReadyTooLate
  <2> QED BY <2>1, <2>2, IdleIs, OnTailIs
<1> QED BY <1>1, <1>3, <1>4, <1>5, Aside

(* StartReadyFirst keeps the chain. *)
LEMMA StartReadyFirstChain ==
  ASSUME ChainInv, NEW c \in Calls, StartReady(c), rt[calls[c].rt].state = "running", ~rt[calls[c].rt].booted
  PROVE  ChainInv'
<1> DEFINE r == calls[c].rt
<1>0. rt[r].ready = "resolved" /\ rt'[r].booted = TRUE BY StartReadyFirst DEF StartReady
<1>1. /\ r \in Rts /\ RtChanges(r, {"booted"}) /\ guest' = guest
      /\ calls' \in [Calls -> CallType] /\ OthersKept(c)
      /\ plan' = plan /\ left' \in [Ops -> Int] /\ server' \in {0} \cup Rts /\ doubt' \in [Rts -> BOOLEAN]
  BY StartReadyFirst DEF ChainInv, TypeOK, CallChanges
<1>2. RtChanges(r, {"booted"}) /\ GuestChanges(r, {})
  BY <1>1, NoChange DEF ChainInv
<1> HIDE DEF r
<1>3. TailsKept /\ LinesKept
  BY <1>1, <1>2, Frame
<1>f. FilesKept
  BY <1>0, <1>1, <1>2 DEF FilesKept, RtChanges
<1>b. BootOK'
  BY <1>0, <1>1, <1>2 DEF ChainInv, BootOK, RtChanges, RtSame
<1>4. TypeOK'
  BY <1>1, <1>2 DEF ChainInv, TypeOK, RtChanges, GuestChanges
<1>5. calls[c].at \notin OnTail /\ calls'[c].at \notin OnTail /\ calls'[c].op # "read" /\ CallOK(c)'
  <2>1. calls[c].at \in {"ready"} BY DEF StartReady, Calling
  <2>2. calls'[c] = Idle BY StartReadyFirst
  <2> QED BY <2>1, <2>2, IdleIs, OnTailIs
<1> QED BY <1>1, <1>3, <1>4, <1>5, <1>f, <1>b, Aside

(* StartReadyAgain keeps the chain. *)
LEMMA StartReadyAgainChain ==
  ASSUME ChainInv, NEW c \in Calls, StartReady(c), rt[calls[c].rt].state = "running", rt[calls[c].rt].booted
  PROVE  ChainInv'
<1> DEFINE r == calls[c].rt
<1>0. r \in Rts
  <2>1. calls[c].op = "start" BY DEF StartReady, Calling
  <2> QED BY <2>1 DEF ChainInv, CallsOK, CallOK
<1>1. /\ r \in Rts /\ rt' = rt /\ guest' = guest
      /\ calls' \in [Calls -> CallType] /\ OthersKept(c)
      /\ plan' = plan /\ left' \in [Ops -> Int] /\ server' \in {0} \cup Rts /\ doubt' \in [Rts -> BOOLEAN]
  BY <1>0, StartReadyAgain DEF ChainInv, TypeOK, CallChanges
<1>2. RtChanges(r, {}) /\ GuestChanges(r, {})
  BY <1>1, NoChange DEF ChainInv
<1> HIDE DEF r
<1>3. TailsKept /\ LinesKept /\ FilesKept /\ BootOK'
  BY <1>1, <1>2, Frame
<1>4. TypeOK'
  BY <1>1, <1>2 DEF ChainInv, TypeOK, RtChanges, GuestChanges
<1>5. calls[c].at \notin OnTail /\ calls'[c].at \notin OnTail /\ calls'[c].op # "read" /\ CallOK(c)'
  <2>1. calls[c].op = "start" /\ calls[c].at = "ready" BY DEF StartReady, Calling
  <2>2. calls'[c].at = "pending" /\ CallSame(calls[c], calls'[c], {"at"}) BY StartReadyAgain
       DEF CallChanges
  <2> QED BY <2>1, <2>2, OnTailIs DEF CallSame, ChainInv, CallsOK, CallOK, Placed
<1> QED BY <1>1, <1>3, <1>4, <1>5, Aside

(* ApplyPendingDone keeps the chain. *)
LEMMA ApplyPendingDoneChain ==
  ASSUME ChainInv, NEW c \in Calls, ApplyPending(c), ~(calls[c].arg <= Len(rt[calls[c].rt].later)), ~rt[calls[c].rt].laterLink
  PROVE  ChainInv'
<1> DEFINE r == calls[c].rt
<1>1. /\ r \in Rts /\ RtChanges(r, {"later"}) /\ guest' = guest
      /\ calls' \in [Calls -> CallType] /\ OthersKept(c)
      /\ plan' = plan /\ left' \in [Ops -> Int] /\ server' \in {0} \cup Rts /\ doubt' \in [Rts -> BOOLEAN]
  BY ApplyPendingDone DEF ChainInv, TypeOK, CallChanges
<1>2. RtChanges(r, {"later"}) /\ GuestChanges(r, {})
  BY <1>1, NoChange DEF ChainInv
<1> HIDE DEF r
<1>3. TailsKept /\ LinesKept /\ FilesKept /\ BootOK'
  BY <1>1, <1>2, Frame
<1>4. TypeOK'
  BY <1>1, <1>2 DEF ChainInv, TypeOK, RtChanges, GuestChanges
<1>5. calls[c].at \notin OnTail /\ calls'[c].at \notin OnTail /\ calls'[c].op # "read" /\ CallOK(c)'
  <2>1. calls[c].at \in {"pending"} BY DEF ApplyPending, Calling
  <2>2. calls'[c] = Idle BY ApplyPendingDone
  <2> QED BY <2>1, <2>2, IdleIs, OnTailIs
<1> QED BY <1>1, <1>3, <1>4, <1>5, Aside

(* Start keeps the chain. *)
LEMMA StartChain ==
  ASSUME ChainInv, NEW c \in Calls, Start(c)
  PROVE  ChainInv'
<1> DEFINE r == server
<1>0. guest'[r].on = IF guest[r].on = "off" THEN "booting" ELSE guest[r].on BY StartEffect, Zenon
<1>1. /\ r \in Rts /\ RtChanges(r, {"state"}) /\ GuestChanges(r, {"machine", "on"})
      /\ calls' \in [Calls -> CallType] /\ OthersKept(c)
      /\ plan' = plan /\ left' \in [Ops -> Int] /\ server' \in {0} \cup Rts /\ doubt' \in [Rts -> BOOLEAN]
  BY StartEffect, Zenon DEF ChainInv, TypeOK, CallChanges
<1>2. RtChanges(r, {"state"}) /\ GuestChanges(r, {"machine", "on"})
  BY <1>1, NoChange DEF ChainInv
<1> HIDE DEF r
<1>3. TailsKept /\ LinesKept /\ FilesKept
  BY <1>1, <1>2, Frame
<1>b. BootOK'
  BY <1>0, <1>1, <1>2 DEF ChainInv, BootOK, RtChanges, RtSame, GuestChanges, GuestSame
<1>4. TypeOK'
  BY <1>1, <1>2 DEF ChainInv, TypeOK, RtChanges, GuestChanges
<1>5. calls[c].at \notin OnTail /\ calls'[c].at \notin OnTail /\ calls'[c].op # "read" /\ CallOK(c)'
  <2>1. calls'[c].op = "start" /\ calls'[c].at = "ready" /\ calls'[c].rt = r /\ calls'[c].arg = 1
    BY StartEffect, Zenon DEF r
  <2>2. calls[c] = Idle BY StartEffect, Zenon
  <2> QED BY <2>1, <2>2, <1>1, IdleIs, OnTailIs DEF CallOK, Placed
<1> QED BY <1>1, <1>3, <1>4, <1>5, <1>b, Aside

(* Stop keeps the chain. *)
LEMMA StopChain ==
  ASSUME ChainInv, NEW c \in Calls, Stop(c)
  PROVE  ChainInv'
<1> DEFINE r == server
<1>1. /\ r \in Rts /\ rt' = rt /\ GuestChanges(r, {"machine"})
      /\ calls' \in [Calls -> CallType] /\ OthersKept(c)
      /\ plan' = plan /\ left' \in [Ops -> Int] /\ server' \in {0} \cup Rts /\ doubt' \in [Rts -> BOOLEAN]
  BY StopEffect, Zenon DEF ChainInv, TypeOK, CallChanges
<1>2. RtChanges(r, {}) /\ GuestChanges(r, {"machine"})
  BY <1>1, NoChange DEF ChainInv
<1> HIDE DEF r
<1>3. TailsKept /\ LinesKept /\ FilesKept /\ BootOK'
  BY <1>1, <1>2, Frame
<1>4. TypeOK'
  BY <1>1, <1>2 DEF ChainInv, TypeOK, RtChanges, GuestChanges
<1>5. calls[c].at \notin OnTail /\ calls'[c].at \notin OnTail /\ calls'[c].op # "read" /\ CallOK(c)'
  <2>1. calls'[c].op = "stop" /\ calls'[c].at = "stopping" /\ calls'[c].rt = r /\ calls'[c].arg = 0
    BY StopEffect, Zenon DEF r
  <2>2. calls[c] = Idle BY StopEffect, Zenon
  <2> QED BY <2>1, <2>2, <1>1, IdleIs, OnTailIs DEF CallOK, Placed
<1> QED BY <1>1, <1>3, <1>4, <1>5, Aside

(* WriteEarly keeps the chain. *)
LEMMA WriteEarlyChain ==
  ASSUME ChainInv, NEW c \in Calls, NEW p \in Paths, WriteFile(c)!(p), ~Live(server), rt[server].state = "initialized", ~rt[server].booted
  PROVE  ChainInv'
<1> DEFINE r == server
<1>1. /\ r \in Rts /\ RtChanges(r, {"files"}) /\ GuestChanges(r, {"boot", "bootUp"})
      /\ calls' = calls /\ plan' = plan /\ left' \in [Ops -> Int] /\ server' = server /\ doubt' = doubt
  BY WriteEarly DEF ChainInv, TypeOK
<1>2. GuestChanges(r, {"boot", "bootUp"})
  BY <1>1, NoChange DEF ChainInv
<1> HIDE DEF r
<1>3. TailsKept /\ LinesKept /\ FilesKept /\ BootOK'
  BY <1>1, <1>2, Frame
<1>4. TypeOK'
  BY <1>1, <1>2 DEF ChainInv, TypeOK, RtChanges, GuestChanges
<1> QED BY <1>1, <1>3, <1>4, Beside

(* WriteLater keeps the chain. *)
LEMMA WriteLaterChain ==
  ASSUME ChainInv, NEW c \in Calls, NEW p \in Paths, WriteFile(c)!(p), ~Live(server), ~(rt[server].state = "initialized" /\ ~rt[server].booted)
  PROVE  ChainInv'
<1> DEFINE r == server
<1>1. /\ r \in Rts /\ RtChanges(r, {"files", "later"}) /\ guest' = guest
      /\ calls' = calls /\ plan' = plan /\ left' \in [Ops -> Int] /\ server' = server /\ doubt' = doubt
  BY WriteLater DEF ChainInv, TypeOK
<1>2. GuestChanges(r, {})
  BY <1>1, NoChange DEF ChainInv
<1> HIDE DEF r
<1>3. TailsKept /\ LinesKept /\ FilesKept /\ BootOK'
  BY <1>1, <1>2, Frame
<1>4. TypeOK'
  BY <1>1, <1>2 DEF ChainInv, TypeOK, RtChanges, GuestChanges
<1> QED BY <1>1, <1>3, <1>4, Beside

(* LinkEarly keeps the chain. *)
LEMMA LinkEarlyChain ==
  ASSUME ChainInv, NEW c \in Calls, SetInterfaceState(c), ~Live(server), rt[server].state = "initialized", ~rt[server].booted
  PROVE  ChainInv'
<1> DEFINE r == server
<1>1. /\ r \in Rts /\ RtChanges(r, {"up"}) /\ GuestChanges(r, {"boot", "bootUp"})
      /\ calls' = calls /\ plan' = plan /\ left' \in [Ops -> Int] /\ server' = server /\ doubt' = doubt
  BY LinkEarly DEF ChainInv, TypeOK
<1>2. GuestChanges(r, {"boot", "bootUp"})
  BY <1>1, NoChange DEF ChainInv
<1> HIDE DEF r
<1>3. TailsKept /\ LinesKept /\ FilesKept /\ BootOK'
  BY <1>1, <1>2, Frame
<1>4. TypeOK'
  BY <1>1, <1>2 DEF ChainInv, TypeOK, RtChanges, GuestChanges
<1> QED BY <1>1, <1>3, <1>4, Beside

(* LinkLater keeps the chain. *)
LEMMA LinkLaterChain ==
  ASSUME ChainInv, NEW c \in Calls, SetInterfaceState(c), ~Live(server), ~(rt[server].state = "initialized" /\ ~rt[server].booted)
  PROVE  ChainInv'
<1> DEFINE r == server
<1>1. /\ r \in Rts /\ RtChanges(r, {"up", "laterLink"}) /\ guest' = guest
      /\ calls' = calls /\ plan' = plan /\ left' \in [Ops -> Int] /\ server' = server /\ doubt' = doubt
  BY LinkLater DEF ChainInv, TypeOK
<1>2. GuestChanges(r, {})
  BY <1>1, NoChange DEF ChainInv
<1> HIDE DEF r
<1>3. TailsKept /\ LinesKept /\ FilesKept /\ BootOK'
  BY <1>1, <1>2, Frame
<1>4. TypeOK'
  BY <1>1, <1>2 DEF ChainInv, TypeOK, RtChanges, GuestChanges
<1> QED BY <1>1, <1>3, <1>4, Beside

(* GuestFailed keeps the chain. *)
LEMMA GuestFailedChain ==
  ASSUME ChainInv, NEW r \in Rts, GuestFailed(r)
  PROVE  ChainInv'
<1>1. /\ r \in Rts /\ RtChanges(r, {"ready"}) /\ GuestChanges(r, {"on"})
      /\ calls' = calls /\ plan' = plan /\ left' \in [Ops -> Int] /\ server' = server /\ doubt' = doubt
  BY GuestFailedEffect DEF ChainInv, TypeOK
<1>2. GuestChanges(r, {"on"})
  BY <1>1, NoChange DEF ChainInv
<1>3. TailsKept /\ LinesKept /\ FilesKept
  BY <1>1, <1>2, Frame
<1>b. BootOK'
  <2>1. guest[r].on = "booting" BY DEF GuestFailed
  <2>2. rt[r].ready # "resolved" BY <2>1 DEF ChainInv, BootOK
  <2>3. rt'[r].ready = IF rt[r].ready = "pending" THEN "rejected" ELSE rt[r].ready BY GuestFailedEffect
  <2> QED BY <1>1, <2>2, <2>3 DEF ChainInv, BootOK, RtChanges, RtSame, GuestChanges, GuestSame
<1>4. TypeOK'
  BY <1>1, <1>2 DEF ChainInv, TypeOK, RtChanges, GuestChanges
<1> QED BY <1>1, <1>3, <1>4, Beside, <1>b

(* GuestExit keeps the chain. *)
LEMMA GuestExitChain ==
  ASSUME ChainInv, NEW r \in Rts, GuestExit(r)
  PROVE  ChainInv'
<1>1. /\ r \in Rts /\ RtChanges(r, {"state"}) /\ GuestChanges(r, {"on"})
      /\ calls' = calls /\ plan' = plan /\ left' \in [Ops -> Int] /\ server' = server /\ doubt' = doubt
  BY GuestExitEffect DEF ChainInv, TypeOK, ExitChange
<1>2. GuestChanges(r, {"on"})
  BY <1>1, NoChange DEF ChainInv
<1>3. TailsKept /\ LinesKept /\ FilesKept
  BY <1>1, <1>2, Frame
<1>b. BootOK'
  <2>1. guest'[r].on = "gone" BY GuestExitEffect
  <2> QED BY <1>1, <2>1 DEF ChainInv, BootOK, RtChanges, RtSame, GuestChanges, GuestSame
<1>4. TypeOK'
  BY <1>1, <1>2 DEF ChainInv, TypeOK, RtChanges, GuestChanges
<1> QED BY <1>1, <1>3, <1>4, Beside, <1>b

(* WriteLive keeps the chain. *)
LEMMA WriteLiveChain ==
  ASSUME ChainInv, NEW c \in Calls, NEW p \in Paths, WriteFile(c)!(p), Live(server)
  PROVE  ChainInv'
<1> DEFINE r == server
           v == NewVersion
<1>1. /\ r \in Rts /\ RtChanges(r, {"tail"}) /\ guest' = guest
      /\ calls' \in [Calls -> CallType] /\ OthersKept(c)
      /\ plan' = plan /\ left' \in [Ops -> Int] /\ server' = server /\ doubt' = doubt
      /\ rt'[r].tail = Append(rt[r].tail, <<c, v>>)
  BY WriteLive DEF ChainInv, TypeOK, CallChanges
<1>v. v \in Int
  BY NewVersionType DEF ChainInv
<1>5. /\ calls[c].at \notin OnTail /\ calls'[c].at \in Chained /\ calls'[c].rt = r /\ CallOK(c)'
      /\ calls'[c].op \in {"write", "link"} => v = calls'[c].arg
      /\ calls'[c].op = "read" => rt'[r].booted /\ guest[r].files[calls'[c].path] \in calls'[c].seen
  <2>1. /\ calls'[c].op = "write" /\ calls'[c].at = "apply" /\ calls'[c].rt = r /\ calls'[c].arg = v
    BY WriteLive
  <2>2. calls[c] = Idle BY WriteLive
  <2>3. calls'[c].path = p BY WriteLive
  <2> QED BY <2>1, <2>2, <2>3, <1>1, IdleIs, OnTailIs DEF CallOK, Placed
<1>2. GuestChanges(r, {})
  BY <1>1, NoChange DEF ChainInv
<1> HIDE DEF r, v
<1>3. TailsElsewhereKept(r) /\ LinesKept /\ FilesKept /\ BootOK'
  <2>1. r \in Rts /\ RtChanges(r, {"tail"}) BY <1>1
  <2> QED BY <2>1, <1>2, Frame
<1>4. TypeOK'
  BY <1>1, <1>2 DEF ChainInv, TypeOK, RtChanges, GuestChanges
<1> QED BY <1>1, <1>v, <1>3, <1>4, <1>5, Joins

(* LinkLive keeps the chain. *)
LEMMA LinkLiveChain ==
  ASSUME ChainInv, NEW c \in Calls, SetInterfaceState(c), Live(server)
  PROVE  ChainInv'
<1> DEFINE r == server
           v == IF ~rt[server].up THEN 1 ELSE 0
<1>1. /\ r \in Rts /\ RtChanges(r, {"up", "tail"}) /\ guest' = guest
      /\ calls' \in [Calls -> CallType] /\ OthersKept(c)
      /\ plan' = plan /\ left' \in [Ops -> Int] /\ server' = server /\ doubt' = doubt
      /\ rt'[r].tail = Append(rt[r].tail, <<c, v>>)
  BY LinkLive, Zenon DEF ChainInv, TypeOK, CallChanges
<1>v. v \in Int
  OBVIOUS
<1>5. /\ calls[c].at \notin OnTail /\ calls'[c].at \in Chained /\ calls'[c].rt = r /\ CallOK(c)'
      /\ calls'[c].op \in {"write", "link"} => v = calls'[c].arg
      /\ calls'[c].op = "read" => rt'[r].booted /\ guest[r].files[calls'[c].path] \in calls'[c].seen
  <2>1. /\ calls'[c].op = "link" /\ calls'[c].at = "link" /\ calls'[c].rt = r /\ calls'[c].arg = v
    BY LinkLive, Zenon
  <2>2. calls[c] = Idle BY LinkLive, Zenon
  <2> QED BY <2>1, <2>2, <1>1, IdleIs, OnTailIs DEF CallOK, Placed
<1>2. GuestChanges(r, {})
  BY <1>1, NoChange DEF ChainInv
<1> HIDE DEF r, v
<1>3. TailsElsewhereKept(r) /\ LinesKept /\ FilesKept /\ BootOK'
  <2>1. r \in Rts /\ RtChanges(r, {"up", "tail"}) BY <1>1
  <2> QED BY <2>1, <1>2, Frame
<1>4. TypeOK'
  BY <1>1, <1>2 DEF ChainInv, TypeOK, RtChanges, GuestChanges
<1> QED BY <1>1, <1>v, <1>3, <1>4, <1>5, Joins

(* Collect keeps the chain. *)
LEMMA CollectChain ==
  ASSUME ChainInv, NEW c \in Calls, CollectPgoProfiles(c)
  PROVE  ChainInv'
<1> DEFINE r == server
           v == 0
<1>1. /\ r \in Rts /\ RtChanges(r, {"tail"}) /\ guest' = guest
      /\ calls' \in [Calls -> CallType] /\ OthersKept(c)
      /\ plan' = plan /\ left' \in [Ops -> Int] /\ server' = server /\ doubt' = doubt
      /\ rt'[r].tail = Append(rt[r].tail, <<c, v>>)
  BY CollectEffect, Zenon DEF ChainInv, TypeOK, CallChanges
<1>v. v \in Int
  OBVIOUS
<1>5. /\ calls[c].at \notin OnTail /\ calls'[c].at \in Chained /\ calls'[c].rt = r /\ CallOK(c)'
      /\ calls'[c].op \in {"write", "link"} => v = calls'[c].arg
      /\ calls'[c].op = "read" => rt'[r].booted /\ guest[r].files[calls'[c].path] \in calls'[c].seen
  <2>1. /\ calls'[c].op = "collect" /\ calls'[c].at = "collect" /\ calls'[c].rt = r /\ calls'[c].arg = v
    BY CollectEffect, Zenon
  <2>2. calls[c] = Idle BY CollectEffect, Zenon
  <2> QED BY <2>1, <2>2, <1>1, IdleIs, OnTailIs DEF CallOK, Placed
<1>2. GuestChanges(r, {})
  BY <1>1, NoChange DEF ChainInv
<1> HIDE DEF r, v
<1>3. TailsElsewhereKept(r) /\ LinesKept /\ FilesKept /\ BootOK'
  <2>1. r \in Rts /\ RtChanges(r, {"tail"}) BY <1>1
  <2> QED BY <2>1, <1>2, Frame
<1>4. TypeOK'
  BY <1>1, <1>2 DEF ChainInv, TypeOK, RtChanges, GuestChanges
<1> QED BY <1>1, <1>v, <1>3, <1>4, <1>5, Joins

(* ReadFile keeps the chain. *)
LEMMA ReadFileChain ==
  ASSUME ChainInv, NEW c \in Calls, NEW p \in Paths, ReadFile(c)!(p)
  PROVE  ChainInv'
<1> DEFINE r == server
           v == 0
<1>1. /\ r \in Rts /\ RtChanges(r, {"tail"}) /\ guest' = guest
      /\ calls' \in [Calls -> CallType] /\ OthersKept(c)
      /\ plan' = plan /\ left' \in [Ops -> Int] /\ server' = server /\ doubt' = doubt
      /\ rt'[r].tail = Append(rt[r].tail, <<c, v>>)
  BY ReadFileEffect DEF ChainInv, TypeOK, CallChanges
<1>v. v \in Int
  OBVIOUS
<1>5. /\ calls[c].at \notin OnTail /\ calls'[c].at \in Chained /\ calls'[c].rt = r /\ CallOK(c)'
      /\ calls'[c].op \in {"write", "link"} => v = calls'[c].arg
      /\ calls'[c].op = "read" => rt'[r].booted /\ guest[r].files[calls'[c].path] \in calls'[c].seen
  <2>1. rt[r].booted /\ rt'[r].booted = rt[r].booted
    BY ReadFileEffect DEF Live, RtChanges, RtSame
  <2>2. calls[c].at \notin OnTail /\ calls'[c].at = "read" /\ calls'[c].op = "read" /\ calls'[c].rt = r
        /\ calls'[c].path \in Paths /\ guest[r].files[calls'[c].path] \in calls'[c].seen
    BY ReadFileEffect, IdleIs, Zenon
  <2>3. CallOK(c)' BY <1>1, <2>2 DEF CallOK, Placed
  <2> QED BY <1>1, <2>1, <2>2, <2>3, OnTailIs, Zenon
<1>2. GuestChanges(r, {})
  BY <1>1, NoChange DEF ChainInv
<1> HIDE DEF r, v
<1>3. TailsElsewhereKept(r) /\ LinesKept /\ FilesKept /\ BootOK'
  <2>1. r \in Rts /\ RtChanges(r, {"tail"}) BY <1>1
  <2> QED BY <2>1, <1>2, Frame
<1>4. TypeOK'
  BY <1>1, <1>2 DEF ChainInv, TypeOK, RtChanges, GuestChanges
<1> QED BY <1>1, <1>v, <1>3, <1>4, <1>5, Joins

(* ApplyPendingFile keeps the chain. *)
LEMMA ApplyPendingFileChain ==
  ASSUME ChainInv, NEW c \in Calls, ApplyPending(c), calls[c].arg <= Len(rt[calls[c].rt].later)
  PROVE  ChainInv'
<1> DEFINE r == calls[c].rt
           v == rt[calls[c].rt].files[rt[calls[c].rt].later[calls[c].arg]]
<1>1. /\ r \in Rts /\ RtChanges(r, {"tail"}) /\ guest' = guest
      /\ calls' \in [Calls -> CallType] /\ OthersKept(c)
      /\ plan' = plan /\ left' \in [Ops -> Int] /\ server' = server /\ doubt' = doubt
      /\ rt'[r].tail = Append(rt[r].tail, <<c, v>>)
  BY ApplyPendingFile, Zenon DEF ChainInv, TypeOK, CallChanges
<1>v. v \in Int
  <2>1. calls[c].op = "start" /\ calls[c].at = "pending" BY DEF ApplyPending, Calling
  <2> QED BY <2>1, PendingFile
<1>5. /\ calls[c].at \notin OnTail /\ calls'[c].at \in Chained /\ calls'[c].rt = r /\ CallOK(c)'
      /\ calls'[c].op \in {"write", "link"} => v = calls'[c].arg
      /\ calls'[c].op = "read" => rt'[r].booted /\ guest[r].files[calls'[c].path] \in calls'[c].seen
  <2>1. calls[c].op = "start" /\ calls[c].at = "pending" BY DEF ApplyPending, Calling
  <2>2. /\ calls'[c].at = "apply" /\ calls'[c].path = rt[r].later[calls[c].arg]
        /\ CallSame(calls[c], calls'[c], {"at", "path"})
    BY ApplyPendingFile, Zenon DEF CallChanges
  <2>3. calls'[c].path \in Paths BY <2>1, <2>2, PendingFile, Zenon
  <2> QED BY <2>1, <2>2, <2>3, <1>1, OnTailIs, Zenon DEF CallSame, ChainInv, CallsOK, CallOK, Placed
<1>2. GuestChanges(r, {})
  BY <1>1, NoChange, Zenon DEF ChainInv
<1> HIDE DEF r, v
<1>3. TailsElsewhereKept(r) /\ LinesKept /\ FilesKept /\ BootOK'
  <2>1. r \in Rts /\ RtChanges(r, {"tail"}) BY <1>1
  <2> QED BY <2>1, <1>2, Frame
<1>4. TypeOK'
  BY <1>1, <1>2 DEF ChainInv, TypeOK, RtChanges, GuestChanges
<1> QED BY <1>1, <1>v, <1>3, <1>4, <1>5, Joins, Zenon

(* ApplyPendingLink keeps the chain. *)
LEMMA ApplyPendingLinkChain ==
  ASSUME ChainInv, NEW c \in Calls, ApplyPending(c), ~(calls[c].arg <= Len(rt[calls[c].rt].later)), rt[calls[c].rt].laterLink
  PROVE  ChainInv'
<1> DEFINE r == calls[c].rt
           v == IF rt[calls[c].rt].up THEN 1 ELSE 0
<1>1. /\ r \in Rts /\ RtChanges(r, {"later", "tail"}) /\ guest' = guest
      /\ calls' \in [Calls -> CallType] /\ OthersKept(c)
      /\ plan' = plan /\ left' \in [Ops -> Int] /\ server' = server /\ doubt' = doubt
      /\ rt'[r].tail = Append(rt[r].tail, <<c, v>>)
  BY ApplyPendingLink DEF ChainInv, TypeOK, CallChanges
<1>v. v \in Int
  OBVIOUS
<1>5. /\ calls[c].at \notin OnTail /\ calls'[c].at \in Chained /\ calls'[c].rt = r /\ CallOK(c)'
      /\ calls'[c].op \in {"write", "link"} => v = calls'[c].arg
      /\ calls'[c].op = "read" => rt'[r].booted /\ guest[r].files[calls'[c].path] \in calls'[c].seen
  <2>1. calls[c].op = "start" /\ calls[c].at = "pending" BY DEF ApplyPending, Calling
  <2>2. /\ calls'[c].at = "link" /\ CallSame(calls[c], calls'[c], {"at"})
    BY ApplyPendingLink DEF CallChanges
  <2> QED BY <2>1, <2>2, <1>1, OnTailIs, Zenon DEF CallSame, ChainInv, CallsOK, CallOK, Placed
<1>2. GuestChanges(r, {})
  BY <1>1, NoChange, Zenon DEF ChainInv
<1> HIDE DEF r, v
<1>3. TailsElsewhereKept(r) /\ LinesKept /\ FilesKept /\ BootOK'
  <2>1. r \in Rts /\ RtChanges(r, {"later", "tail"}) BY <1>1
  <2> QED BY <2>1, <1>2, Frame
<1>4. TypeOK'
  BY <1>1, <1>2 DEF ChainInv, TypeOK, RtChanges, GuestChanges
<1> QED BY <1>1, <1>v, <1>3, <1>4, <1>5, Joins

(* SendRefused keeps the chain. *)
LEMMA SendRefusedChain ==
  ASSUME ChainInv, NEW c \in Calls, SendRefused(c)
  PROVE  ChainInv'
<1> DEFINE r == calls[c].rt
<1>1. /\ r \in Rts /\ RtChanges(r, {"tail", "state"}) /\ guest' = guest
      /\ calls' \in [Calls -> CallType] /\ OthersKept(c)
      /\ UNCHANGED <<plan, left, server, doubt>>
      /\ rt'[r].tail = Tail(rt[r].tail)
  BY SendRefusedEffect DEF CallChanges
<1>0. calls[c].at \in OnTail /\ calls[c].at # "sent"
  BY OnTailIs DEF SendRefused, Calling
<1>t. Turn(rt[r].tail, 1) = c
  <2>1. rt[r].tail \in Seq(Calls \X Int) /\ rt[r].tail # <<>> BY <1>0, <1>1, TailsOf
  <2>2. Head(rt[r].tail) = rt[r].tail[1] BY <2>1
  <2> QED BY <2>2 DEF SendRefused, Turn
<1>5. /\ calls'[c].at \notin OnTail /\ CallOK(c)'
      /\ calls'[c].op = "read" => /\ calls'[c].at = "answer" /\ rt'[calls'[c].rt].booted
                                /\ calls'[c].arg \in calls'[c].seen
  BY SendRefusedEffect, IdleIs
<1>2. GuestChanges(r, {})
  BY <1>1, NoChange DEF ChainInv
<1>6. calls[c].rt = r OBVIOUS
<1> HIDE DEF r
<1>3. TailsElsewhereKept(r) /\ LinesKept /\ FilesKept /\ BootOK'
  BY <1>1, <1>2, Frame
<1>4. TypeOK'
  BY <1>1, <1>2 DEF ChainInv, TypeOK, RtChanges, GuestChanges
<1> QED BY <1>0, <1>1, <1>t, <1>3, <1>4, <1>5, <1>6, Leaves

(* Refused keeps the chain. *)
LEMMA RefusedChain ==
  ASSUME ChainInv, NEW c \in Calls, Refused(c)
  PROVE  ChainInv'
<1> DEFINE r == calls[c].rt
<1>1. /\ r \in Rts /\ RtChanges(r, {"tail", "pgo", "state"}) /\ guest' = guest
      /\ calls' \in [Calls -> CallType] /\ OthersKept(c)
      /\ UNCHANGED <<plan, left, server, doubt>>
      /\ rt'[r].tail = Tail(rt[r].tail)
  BY RefusedEffect DEF CallChanges
<1>0. calls[c].at \in OnTail /\ calls[c].at # "sent" /\ calls[c].at \in InTurn
  BY OnTailIs DEF Refused, Calling
<1>t. Turn(rt[r].tail, 1) = c
  BY <1>0 DEF ChainInv, TailOK
<1>5. /\ calls'[c].at \notin OnTail /\ CallOK(c)'
      /\ calls'[c].op = "read" => /\ calls'[c].at = "answer" /\ rt'[calls'[c].rt].booted
                                /\ calls'[c].arg \in calls'[c].seen
  BY RefusedEffect, IdleIs
<1>2. GuestChanges(r, {})
  BY <1>1, NoChange DEF ChainInv
<1>6. calls[c].rt = r OBVIOUS
<1> HIDE DEF r
<1>3. TailsElsewhereKept(r) /\ LinesKept /\ FilesKept /\ BootOK'
  BY <1>1, <1>2, Frame
<1>4. TypeOK'
  BY <1>1, <1>2 DEF ChainInv, TypeOK, RtChanges, GuestChanges
<1> QED BY <1>0, <1>1, <1>t, <1>3, <1>4, <1>5, <1>6, Leaves

(* CollectEnds keeps the chain. *)
LEMMA CollectEndsChain ==
  ASSUME ChainInv, NEW c \in Calls, CollectEnds(c)
  PROVE  ChainInv'
<1> DEFINE r == calls[c].rt
<1>1. /\ r \in Rts /\ RtChanges(r, {"state", "pgo", "tail"}) /\ guest' = guest
      /\ calls' \in [Calls -> CallType] /\ OthersKept(c)
      /\ UNCHANGED <<plan, left, server, doubt>>
      /\ rt'[r].tail = Tail(rt[r].tail)
  BY CollectEndsEffect DEF CallChanges
<1>0. calls[c].at \in OnTail /\ calls[c].at # "sent" /\ calls[c].at \in InTurn
  BY OnTailIs DEF CollectEnds, Calling
<1>t. Turn(rt[r].tail, 1) = c
  BY <1>0 DEF ChainInv, TailOK
<1>5. /\ calls'[c].at \notin OnTail /\ CallOK(c)'
      /\ calls'[c].op = "read" => /\ calls'[c].at = "answer" /\ rt'[calls'[c].rt].booted
                                /\ calls'[c].arg \in calls'[c].seen
  BY CollectEndsEffect, IdleIs
<1>2. GuestChanges(r, {})
  BY <1>1, NoChange DEF ChainInv
<1>6. calls[c].rt = r OBVIOUS
<1> HIDE DEF r
<1>3. TailsElsewhereKept(r) /\ LinesKept /\ FilesKept /\ BootOK'
  BY <1>1, <1>2, Frame
<1>4. TypeOK'
  BY <1>1, <1>2 DEF ChainInv, TypeOK, RtChanges, GuestChanges
<1> QED BY <1>0, <1>1, <1>t, <1>3, <1>4, <1>5, <1>6, Leaves

(* AcknowledgedWrite keeps the chain. *)
LEMMA AcknowledgedWriteChain ==
  ASSUME ChainInv, NEW c \in Calls, Acknowledged(c), calls[c].op = "write"
  PROVE  ChainInv'
<1> DEFINE r == calls[c].rt
<1>1. /\ r \in Rts /\ RtChanges(r, {"tail", "files"}) /\ guest' = guest
      /\ calls' \in [Calls -> CallType] /\ OthersKept(c)
      /\ UNCHANGED <<plan, left, server, doubt>>
      /\ rt'[r].tail = Tail(rt[r].tail)
  BY AcknowledgedWrite DEF CallChanges
<1>0. calls[c].at \in OnTail /\ calls[c].at # "sent" /\ calls[c].at \in InTurn
  BY OnTailIs DEF Acknowledged, Calling
<1>t. Turn(rt[r].tail, 1) = c
  BY <1>0 DEF ChainInv, TailOK
<1>5. /\ calls'[c].at \notin OnTail /\ CallOK(c)'
      /\ calls'[c].op = "read" => /\ calls'[c].at = "answer" /\ rt'[calls'[c].rt].booted
                                /\ calls'[c].arg \in calls'[c].seen
  BY AcknowledgedWrite, IdleIs
<1>2. GuestChanges(r, {})
  BY <1>1, NoChange DEF ChainInv
<1>6. calls[c].rt = r OBVIOUS
<1> HIDE DEF r
<1>3. TailsElsewhereKept(r) /\ LinesKept /\ FilesKept /\ BootOK'
  BY <1>1, <1>2, Frame
<1>4. TypeOK'
  BY <1>1, <1>2 DEF ChainInv, TypeOK, RtChanges, GuestChanges
<1> QED BY <1>0, <1>1, <1>t, <1>3, <1>4, <1>5, <1>6, Leaves

(* AcknowledgedLink keeps the chain. *)
LEMMA AcknowledgedLinkChain ==
  ASSUME ChainInv, NEW c \in Calls, Acknowledged(c), calls[c].op = "link"
  PROVE  ChainInv'
<1> DEFINE r == calls[c].rt
<1>1. /\ r \in Rts /\ RtChanges(r, {"tail", "files"}) /\ guest' = guest
      /\ calls' \in [Calls -> CallType] /\ OthersKept(c)
      /\ UNCHANGED <<plan, left, server, doubt>>
      /\ rt'[r].tail = Tail(rt[r].tail)
  BY AcknowledgedLink DEF CallChanges
<1>0. calls[c].at \in OnTail /\ calls[c].at # "sent" /\ calls[c].at \in InTurn
  BY OnTailIs DEF Acknowledged, Calling
<1>t. Turn(rt[r].tail, 1) = c
  BY <1>0 DEF ChainInv, TailOK
<1>5. /\ calls'[c].at \notin OnTail /\ CallOK(c)'
      /\ calls'[c].op = "read" => /\ calls'[c].at = "answer" /\ rt'[calls'[c].rt].booted
                                /\ calls'[c].arg \in calls'[c].seen
  BY AcknowledgedLink, IdleIs
<1>2. GuestChanges(r, {})
  BY <1>1, NoChange DEF ChainInv
<1>6. calls[c].rt = r OBVIOUS
<1> HIDE DEF r
<1>3. TailsElsewhereKept(r) /\ LinesKept /\ FilesKept /\ BootOK'
  BY <1>1, <1>2, Frame
<1>4. TypeOK'
  BY <1>1, <1>2 DEF ChainInv, TypeOK, RtChanges, GuestChanges
<1> QED BY <1>0, <1>1, <1>t, <1>3, <1>4, <1>5, <1>6, Leaves

(* PendingAppliedLink keeps the chain. *)
LEMMA PendingAppliedLinkChain ==
  ASSUME ChainInv, NEW c \in Calls, PendingApplied(c), rt[calls[c].rt].later = <<>>
  PROVE  ChainInv'
<1> DEFINE r == calls[c].rt
<1>1. /\ r \in Rts /\ RtChanges(r, {"tail", "laterLink"}) /\ guest' = guest
      /\ calls' \in [Calls -> CallType] /\ OthersKept(c)
      /\ UNCHANGED <<plan, left, server, doubt>>
      /\ rt'[r].tail = Tail(rt[r].tail)
  BY PendingAppliedLink DEF CallChanges
<1>0. calls[c].at \in OnTail /\ calls[c].at # "sent" /\ calls[c].at \in InTurn
  BY OnTailIs DEF PendingApplied, Calling
<1>t. Turn(rt[r].tail, 1) = c
  BY <1>0 DEF ChainInv, TailOK
<1>5. /\ calls'[c].at \notin OnTail /\ CallOK(c)'
      /\ calls'[c].op = "read" => /\ calls'[c].at = "answer" /\ rt'[calls'[c].rt].booted
                                /\ calls'[c].arg \in calls'[c].seen
  BY PendingAppliedLink, IdleIs
<1>2. GuestChanges(r, {})
  BY <1>1, NoChange DEF ChainInv
<1>6. calls[c].rt = r OBVIOUS
<1> HIDE DEF r
<1>3. TailsElsewhereKept(r) /\ LinesKept /\ FilesKept /\ BootOK'
  BY <1>1, <1>2, Frame
<1>4. TypeOK'
  BY <1>1, <1>2 DEF ChainInv, TypeOK, RtChanges, GuestChanges
<1> QED BY <1>0, <1>1, <1>t, <1>3, <1>4, <1>5, <1>6, Leaves

(* PendingAppliedFile keeps the chain. *)
LEMMA PendingAppliedFileChain ==
  ASSUME ChainInv, NEW c \in Calls, PendingApplied(c), rt[calls[c].rt].later # <<>>
  PROVE  ChainInv'
<1> DEFINE r == calls[c].rt
<1>1. /\ r \in Rts /\ RtChanges(r, {"tail"}) /\ guest' = guest
      /\ calls' \in [Calls -> CallType] /\ OthersKept(c)
      /\ UNCHANGED <<plan, left, server, doubt>>
      /\ rt'[r].tail = Tail(rt[r].tail)
  BY PendingAppliedFile DEF CallChanges
<1>0. calls[c].at \in OnTail /\ calls[c].at # "sent" /\ calls[c].at \in InTurn
  BY OnTailIs DEF PendingApplied, Calling
<1>t. Turn(rt[r].tail, 1) = c
  BY <1>0 DEF ChainInv, TailOK
<1>5. /\ calls'[c].at \notin OnTail /\ CallOK(c)'
      /\ calls'[c].op = "read" => /\ calls'[c].at = "answer" /\ rt'[calls'[c].rt].booted
                                /\ calls'[c].arg \in calls'[c].seen
  <2>1. calls[c].op = "start" BY DEF PendingApplied, Calling
  <2>2. /\ calls'[c].at = "pending" /\ calls'[c].arg = calls[c].arg + 1
        /\ CallSame(calls[c], calls'[c], {"at", "arg"})
    BY PendingAppliedFile DEF CallChanges
  <2>3. calls[c].arg \in Int /\ calls[c].arg >= 1 BY <2>1, Types, Zenon
       DEF ChainInv, CallsOK, CallOK
  <2>4. calls'[c].arg >= 1 BY <2>2, <2>3
  <2> QED BY <2>1, <2>2, <2>4, <1>1, OnTailIs DEF CallSame, CallOK, Placed
<1>2. GuestChanges(r, {})
  BY <1>1, NoChange DEF ChainInv
<1>6. calls[c].rt = r OBVIOUS
<1> HIDE DEF r
<1>3. TailsElsewhereKept(r) /\ LinesKept /\ FilesKept /\ BootOK'
  BY <1>1, <1>2, Frame
<1>4. TypeOK'
  BY <1>1, <1>2 DEF ChainInv, TypeOK, RtChanges, GuestChanges
<1> QED BY <1>0, <1>1, <1>t, <1>3, <1>4, <1>5, <1>6, Leaves

(* ReadBack keeps the chain. *)
LEMMA ReadBackChain ==
  ASSUME ChainInv, NEW c \in Calls, ReadBack(c)
  PROVE  ChainInv'
<1> DEFINE r == calls[c].rt
<1>1. /\ r \in Rts /\ RtChanges(r, {"files", "tail"}) /\ guest' = guest
      /\ calls' \in [Calls -> CallType] /\ OthersKept(c)
      /\ UNCHANGED <<plan, left, server, doubt>>
      /\ rt'[r].tail = Tail(rt[r].tail)
  BY ReadBackEffect DEF CallChanges
<1>0. calls[c].at \in OnTail /\ calls[c].at # "sent" /\ calls[c].at \in InTurn
  BY OnTailIs DEF ReadBack, Calling
<1>t. Turn(rt[r].tail, 1) = c
  BY <1>0 DEF ChainInv, TailOK
<1>5. /\ calls'[c].at \notin OnTail /\ CallOK(c)'
      /\ calls'[c].op = "read" => /\ calls'[c].at = "answer" /\ rt'[calls'[c].rt].booted
                                /\ calls'[c].arg \in calls'[c].seen
  <2>1. calls[c].op = "read" /\ calls[c].at = "ok" BY DEF ReadBack, Calling
  <2>2. /\ calls'[c].at = "answer" /\ calls'[c].arg = Exported(c)
        /\ CallSame(calls[c], calls'[c], {"at", "arg"})
    BY ReadBackEffect DEF CallChanges
  <2>3. /\ rt[r].booted /\ calls[c].path \in Paths
        /\ guest[r].files[calls[c].path] \in calls[c].seen
        /\ guest[r].output = <<calls[c].path, guest[r].files[calls[c].path]>>
    BY <2>1 DEF ChainInv, ReadOK, CallsOK, CallOK
  <2>4. Exported(c) = guest[r].files[calls[c].path] BY <2>3 DEF Exported
  <2>5. rt'[r].booted BY <1>1, <2>3 DEF RtChanges, RtSame
  <2> QED BY <2>1, <2>2, <2>3, <2>4, <2>5, <1>1, OnTailIs DEF CallSame, CallOK, Placed
<1>2. GuestChanges(r, {})
  BY <1>1, NoChange DEF ChainInv
<1>6. calls[c].rt = r OBVIOUS
<1> HIDE DEF r
<1>3. TailsElsewhereKept(r) /\ LinesKept /\ FilesKept /\ BootOK'
  BY <1>1, <1>2, Frame
<1>4. TypeOK'
  BY <1>1, <1>2 DEF ChainInv, TypeOK, RtChanges, GuestChanges
<1> QED BY <1>0, <1>1, <1>t, <1>3, <1>4, <1>5, <1>6, Leaves

(* One call at most has its turn on a runtime. *)
LEMMA TurnIsOnes ==
  ASSUME ChainInv, NEW c \in Calls, NEW d \in Calls, calls[c].rt = calls[d].rt,
         calls[d].at \in InTurn, Turn(rt[calls[c].rt].tail, 1) = c
  PROVE  d = c
BY DEF ChainInv, TailOK

(* Nobody waits for an answer of the runtime whose turn is another's.       *)
LEMMA NobodyWaits ==
  ASSUME ChainInv, NEW c \in Calls, NEW r \in Rts, calls[c].rt = r,
         Turn(rt[r].tail, 1) = c, calls[c].at # "sent"
  PROVE  \A i \in DOMAIN guest[r].requests : guest[r].requests[i].id = 0
<1> SUFFICES ASSUME NEW i \in DOMAIN guest[r].requests, guest[r].requests[i].id # 0
             PROVE  FALSE
  OBVIOUS
<1> DEFINE d == guest[r].requests[i].id
<1>1. d \in Calls BY RequestOf
<1>2. calls[d].rt = r /\ calls[d].at = "sent" BY DEF ChainInv, LineOK
<1> QED BY <1>1, <1>2, TurnIsOnes, OnTailIs

(* SendControl keeps the chain. *)
LEMMA SendControlChain ==
  ASSUME ChainInv, NEW c \in Calls, SendControl(c)
  PROVE  ChainInv'
<1> DEFINE r == calls[c].rt
           t == rt[r].tail
           v == t[1][2]
           q == Request(c, v)
           line == guest[r].requests
           input == guest'[r].input
<1>i. TypeOK /\ CallsOK /\ TailOK /\ ValuesOK /\ LineOK /\ ReadOK
  BY DEF ChainInv
<1>0. calls[c].at \in Chained /\ calls[c].at \in OnTail
  BY OnTailIs DEF SendControl
<1>1. /\ r \in Rts /\ RtChanges(r, {"pgo"}) /\ GuestChanges(r, {"input", "requests"})
      /\ input = IF calls[c].at = "apply" THEN <<calls[c].path, v>> ELSE guest[r].input
      /\ guest'[r].requests = Append(line, q)
      /\ CallChanges(c, {"at"}) /\ calls'[c].at = "sent"
      /\ UNCHANGED <<plan, left, server, doubt>>
  BY SendControlEffect
<1>2. /\ q \in RequestType /\ v \in Int /\ q.id = c /\ Head(t) = t[1]
      /\ calls[c].at = "apply" => q.do = "APPLY"
      /\ calls[c].at = "link" => q.do = "LINK" /\ q.value = v
      /\ calls[c].at = "read" => q.do = "READ" /\ q.path = calls[c].path
      /\ calls[c].at = "collect" => q.do = "COLLECT_PGO"
  BY <1>0, <1>1, RequestIs, Zenon
<1>3. Turn(t, 1) = c BY <1>2, Zenon DEF SendControl, Turn
<1>e. /\ r = calls[c].rt /\ t = rt[r].tail /\ v = t[1][2] /\ line = guest[r].requests
      /\ input = guest'[r].input
  OBVIOUS
<1> HIDE DEF r, t, v, q, line, input
<1>4. line \in Seq(RequestType) BY <1>e, <1>1, <1>i, Types, Zenon
<1>5. \A i \in DOMAIN line : line[i].id = 0
  BY <1>e, <1>0, <1>1, <1>3, NobodyWaits DEF Chained
<1>6. TailsKept /\ FilesKept /\ BootOK'
  BY <1>e, <1>1, Frame
<1>7. TypeOK'
  BY <1>e, <1>1, <1>i DEF TypeOK, RtChanges, GuestChanges, CallChanges
<1>8. /\ OthersKept(c) /\ calls'[c].op = calls[c].op /\ calls'[c].rt = r
      /\ calls'[c].path = calls[c].path /\ calls'[c].arg = calls[c].arg /\ calls'[c].seen = calls[c].seen
  BY <1>e, <1>1 DEF CallChanges, CallSame
<1>9. /\ calls[c].op \in {"start", "write", "link", "read", "collect"}
      /\ calls[c].op = "write" => calls[c].at = "apply"
      /\ calls[c].op = "link" => calls[c].at = "link"
      /\ calls[c].op = "read" <=> calls[c].at = "read"
      /\ calls[c].op = "collect" => calls[c].at = "collect"
      /\ calls[c].at = "apply" \/ calls[c].op = "read" => calls[c].path \in Paths
  <2>1. CallOK(c) BY <1>e, <1>i DEF CallsOK
  <2>2. calls[c].at \in {"apply", "link", "read", "collect"} BY <1>e, <1>0 DEF Chained
  <2>3. calls[c].op \in Ops \cup {"none"} BY <1>e, <1>i, Types, Zenon
  <2>4. calls[c].op # "none" BY <1>e, <1>0, IdleIs, <2>1 DEF CallOK
  <2> QED BY <1>e, <2>1, <2>2, <2>3, <2>4 DEF CallOK, Placed, Ops
<1>10. CallsOK'
  <2>1. CallOK(c)' BY <1>e, <1>1, <1>8, <1>9, <1>i DEF CallsOK, CallOK, Placed
  <2> QED BY <1>e, <2>1, <1>8, <1>i DEF CallsOK, CallOK, OthersKept
<1>11. TailOK' /\ ValuesOK'
  BY <1>e, <1>0, <1>1, <1>3, <1>6, <1>8, <1>i, OnTailIs, TailKept DEF OthersKept
<1>12. calls[c].op \in {"write", "link"} => v = calls[c].arg
  <2>1. 1 \in DOMAIN t BY <1>e, <1>0, <1>1, TailsOf
  <2> QED BY <1>e, <2>1, <1>1, <1>3, <1>i DEF ValuesOK
<1>13. Asks(calls'[c], q, input)
  BY <1>e, <1>1, <1>2, <1>8, <1>9, <1>12 DEF Asks
<1>14. /\ q.do = "APPLY" => calls[c].at = "apply"
       /\ q.do = "READ" => calls[c].at = "read"
  BY <1>e, <1>0, <1>2 DEF Chained
<1>15. guest[r].input # <<>> \/ calls[c].at = "apply" => input # <<>>
  BY <1>e, <1>1
<1>16. \A s \in Rts : s # r => guest'[s] = guest[s]
  BY <1>e, <1>1 DEF GuestChanges
<1>l. /\ DOMAIN guest'[r].requests = 1 .. Len(line) + 1 /\ Len(guest'[r].requests) = Len(line) + 1
      /\ DOMAIN line = 1 .. Len(line) /\ Len(line) \in Nat /\ guest'[r].requests # <<>>
      /\ \A i \in 1 .. Len(line) : guest'[r].requests[i] = line[i]
      /\ guest'[r].requests[Len(line) + 1] = q
  <2> DEFINE l == Append(line, q)
  <2>1. q \in RequestType BY <1>e, <1>2
  <2>2. guest'[r].requests = l BY <1>e, <1>1
  <2>3. /\ l \in Seq(RequestType) /\ Len(line) \in Nat
        /\ DOMAIN line = 1 .. Len(line) /\ DOMAIN l = 1 .. Len(line) + 1
        /\ Len(l) = Len(line) + 1
        /\ \A k \in 1 .. Len(line) : l[k] = line[k]
        /\ l[Len(line) + 1] = q
    BY <1>e, <1>4, <2>1, AppendIs
  <2>4. l # <<>> BY <1>e, <2>3
  <2> HIDE DEF l
  <2> QED BY <1>e, <2>2, <2>3, <2>4
<1>17. ASSUME NEW s \in Rts, NEW i \in DOMAIN guest'[s].requests
       PROVE  LET x == guest'[s].requests[i] IN
                 /\ x.do = "APPLY" => guest'[s].input # <<>>
                 /\ x.do = "READ" => x.path \in Paths
                 /\ x.id # 0 => /\ i = Len(guest'[s].requests)
                                /\ calls'[x.id].rt = s
                                /\ calls'[x.id].at = "sent"
  <2>1. CASE s # r
    <3>1. guest'[s] = guest[s] /\ i \in DOMAIN guest[s].requests BY <1>e, <2>1, <1>16, <1>17
    <3>2. guest[s].requests[i].id # 0 => /\ guest[s].requests[i].id \in Calls
                                         /\ calls[guest[s].requests[i].id].rt = s
      BY <1>e, <3>1, <1>i, RequestOf DEF LineOK
    <3>3. LET x == guest[s].requests[i] IN
            /\ x.do = "APPLY" => guest[s].input # <<>>
            /\ x.do = "READ" => x.path \in Paths
            /\ x.id # 0 => i = Len(guest[s].requests) /\ calls[x.id].at = "sent"
      BY <3>1, <1>i DEF LineOK
    <3>4. guest[s].requests[i].id # 0 =>
            calls'[guest[s].requests[i].id] = calls[guest[s].requests[i].id]
      BY <1>e, <1>8, <3>2, <2>1 DEF OthersKept
    <3> QED BY <3>1, <3>2, <3>3, <3>4, Zenon
  <2>2. CASE s = r /\ i = Len(line) + 1
    <3>1. guest'[s].requests[i] = q BY <1>e, <2>2, <1>l
    <3> QED BY <1>e, <3>1, <2>2, <1>1, <1>2, <1>8, <1>9, <1>14, <1>15, <1>l, Zenon
  <2>3. CASE s = r /\ i \in 1 .. Len(line)
    <3>1. guest'[s].requests[i] = line[i] /\ i \in DOMAIN line BY <1>e, <2>3, <1>l
    <3>2. /\ line[i].do = "APPLY" => guest[r].input # <<>>
          /\ line[i].do = "READ" => line[i].path \in Paths
      BY <1>e, <3>1, <1>1, <1>i, Zenon DEF LineOK
    <3> QED BY <1>e, <3>1, <3>2, <2>3, <1>5, <1>15
  <2>4. s = r => i = Len(line) + 1 \/ i \in 1 .. Len(line)
    <3>1. s = r => i \in DOMAIN guest'[r].requests BY <1>e, <1>17
    <3>2. DOMAIN guest'[r].requests = 1 .. Len(line) + 1 /\ Len(line) \in Nat BY <1>e, <1>l
    <3> QED BY <3>1, <3>2
  <2> QED BY <1>e, <2>1, <2>2, <2>3, <2>4
<1>18. ASSUME NEW d \in Calls, calls'[d].at = "sent"
       PROVE  LET l == guest'[calls'[d].rt].requests IN
                 l # <<>> /\ l[Len(l)].id = d
                   /\ Asks(calls'[d], l[Len(l)], guest'[calls'[d].rt].input)
  <2>1. CASE d = c
    BY <1>e, <2>1, <1>2, <1>8, <1>13, <1>l
  <2>2. CASE d # c
    <3>1. calls'[d] = calls[d] /\ calls[d].at \in InTurn
      BY <1>e, <2>2, <1>8, <1>18, OnTailIs DEF OthersKept
    <3>2. calls[d].rt \in Rts /\ calls[d].rt # r
      BY <1>e, <3>1, <2>2, <1>3, <1>i, InFlightIs, TurnIsOnes DEF OnTail
    <3> QED BY <1>e, <3>1, <3>2, <1>16, <1>18, <1>i DEF LineOK
  <2> QED BY <1>e, <2>1, <2>2
<1>19. ASSUME NEW d \in Calls, calls'[d].at \in {"ok", "collected"}
       PROVE  guest'[calls'[d].rt].requests = <<>>
  <2>1. d # c BY <1>e, <1>1, <1>19
  <2>2. calls'[d] = calls[d] /\ calls[d].at \in InTurn
    BY <1>e, <2>1, <1>8, <1>19, OnTailIs DEF OthersKept
  <2>3. calls[d].rt \in Rts /\ calls[d].rt # r
    BY <1>e, <2>1, <2>2, <1>3, <1>i, InFlightIs, TurnIsOnes DEF OnTail
  <2> QED BY <1>e, <2>2, <2>3, <1>16, <1>19, <1>i DEF LineOK
<1>20. LineOK'
  BY <1>e, <1>17, <1>18, <1>19 DEF LineOK
<1>21. ReadOK'
  BY <1>e, <1>0, <1>1, <1>6, <1>8, <1>i, ReadKept DEF OthersKept, Chained
<1> QED BY <1>e, <1>6, <1>7, <1>10, <1>11, <1>20, <1>21 DEF ChainInv

(* The profiles are exported. *)
LEMMA CollectedChain ==
  ASSUME ChainInv, NEW c \in Calls, Collected(c)
  PROVE  ChainInv'
<1> DEFINE r == calls[c].rt
<1>i. TypeOK /\ CallsOK /\ TailOK /\ ValuesOK /\ LineOK /\ ReadOK
  BY DEF ChainInv
<1>0. calls[c].op = "collect" /\ calls[c].at = "ok" BY DEF Collected, Calling
<1>1. /\ r \in Rts /\ rt' = rt /\ GuestChanges(r, {"machine"})
      /\ CallChanges(c, {"at"}) /\ calls'[c].at = "collected"
      /\ UNCHANGED <<plan, left, server, doubt>>
  BY CollectedEffect
<1>2. RtChanges(r, {}) BY <1>1, <1>i, NoChange
<1>6. TailsKept /\ LinesKept /\ FilesKept /\ BootOK'
  BY <1>1, <1>2, Frame
<1>7. TypeOK'
  BY <1>1, <1>2, <1>i DEF TypeOK, RtChanges, GuestChanges, CallChanges
<1>8. /\ OthersKept(c) /\ calls'[c].op = calls[c].op /\ calls'[c].rt = r
      /\ calls'[c].path = calls[c].path /\ calls'[c].arg = calls[c].arg /\ calls'[c].seen = calls[c].seen
  BY <1>1 DEF CallChanges, CallSame
<1>10. CallsOK'
  <2>1. CallOK(c)' BY <1>0, <1>1, <1>8, <1>i DEF CallsOK, CallOK, Placed
  <2> QED BY <2>1, <1>8, <1>i DEF CallsOK, CallOK, OthersKept
<1>11. TailOK' /\ ValuesOK'
  BY <1>0, <1>1, <1>6, <1>8, <1>i, OnTailIs, TailKept DEF OthersKept
<1>20. LineOK'
  BY <1>0, <1>1, <1>6, <1>8, <1>i, LineKept DEF OthersKept
<1>21. ReadOK'
  BY <1>0, <1>1, <1>6, <1>8, <1>i, ReadKept DEF OthersKept
<1> QED BY <1>6, <1>7, <1>10, <1>11, <1>20, <1>21 DEF ChainInv

(* Calls give up waiting: the answers to their requests will find nobody.   *)
LEMMA Forgets ==
  ASSUME ChainInv, TypeOK', BootOK', NEW r \in Rts, NEW who \in SUBSET Calls,
         \A d \in who : calls[d].at = "sent" /\ calls[d].rt = r,
         \A d \in Calls : calls[d].at = "sent" /\ calls[d].rt = r => d \in who,
         \A d \in who : calls'[d].at = "error" /\ CallSame(calls[d], calls'[d], {"at"}),
         \A d \in Calls \ who :
            \/ calls'[d] = calls[d]
            \/ calls[d] = Idle /\ CallOK(d)' /\ calls'[d].at \notin OnTail /\ calls'[d].op # "read",
         guest'[r].requests = Forgotten(r, who), guest'[r].input = guest[r].input,
         \A s \in Rts : s # r => guest'[s] = guest[s],
         TailsKept, FilesKept
  PROVE  ChainInv'
<1>i. TypeOK /\ CallsOK /\ TailOK /\ ValuesOK /\ LineOK /\ ReadOK
  BY DEF ChainInv
<1>1. \A d \in who : /\ d \in Calls /\ calls'[d].op = calls[d].op /\ calls'[d].rt = calls[d].rt
                     /\ calls'[d].path = calls[d].path /\ calls'[d].arg = calls[d].arg
                     /\ calls'[d].seen = calls[d].seen
  BY DEF CallSame
<1>2. CallsOK'
  <2>1. ASSUME NEW d \in who PROVE CallOK(d)'
    <3>1. CallOK(d) /\ calls[d].op \in Ops \cup {"none"} BY <1>1, <1>i, Types, Zenon DEF CallsOK
    <3>2. calls[d].op # "none" BY <1>1, <1>i, InFlightIs, OnTailIs
    <3> QED BY <3>1, <3>2, <1>1 DEF CallOK, Placed, Ops
  <2>2. ASSUME NEW d \in Calls \ who PROVE CallOK(d)'
    BY <1>i DEF CallsOK, CallOK
  <2> QED BY <2>1, <2>2 DEF CallsOK
<1>3. TailOK' /\ ValuesOK'
  <2>1. \A d \in Calls : /\ calls[d].at \in OnTail <=> calls'[d].at \in OnTail
                         /\ calls[d].at \in OnTail =>
                              /\ calls'[d].rt = calls[d].rt /\ calls'[d].op = calls[d].op
                              /\ calls'[d].arg = calls[d].arg
                         /\ calls'[d].at \in InTurn => calls[d].at \in InTurn
    <3>1. \A d \in who : calls[d].at \in InTurn /\ calls[d].at \in OnTail /\ calls'[d].at \in OnTail
      BY OnTailIs
    <3>2. \A d \in Calls : calls'[d].at \in InTurn => calls'[d].at \in OnTail BY DEF OnTail
    <3> QED BY <3>1, <3>2, <1>1, IdleIs
  <2> QED BY <2>1, <1>i, TailKept
<1>4. LET line == guest[r].requests
          rest == guest'[r].requests
      IN  /\ DOMAIN rest = DOMAIN line /\ Len(rest) = Len(line)
          /\ rest = <<>> <=> line = <<>>
          /\ \A i \in DOMAIN line :
               /\ rest[i].do = line[i].do /\ rest[i].path = line[i].path
               /\ rest[i].id = IF line[i].id \in who THEN 0 ELSE line[i].id
  BY <1>i, ForgottenIs
<1>5. \A d \in Calls : calls'[d].at = "sent" => calls'[d] = calls[d] /\ calls[d].at = "sent" /\ calls[d].rt # r
  BY OnTailIs
<1>6. \A d \in Calls : calls'[d].at \in {"ok", "collected"} => calls'[d] = calls[d]
  BY OnTailIs
<1>7. \A d \in Calls : calls[d].at \in InTurn => calls[d].rt \in Rts
  BY <1>i, InFlightIs DEF OnTail
<1>8. LineOK'
  <2>1. ASSUME NEW s \in Rts, NEW i \in DOMAIN guest'[s].requests
        PROVE  LET x == guest'[s].requests[i] IN
                 /\ x.do = "APPLY" => guest'[s].input # <<>>
                 /\ x.do = "READ" => x.path \in Paths
                 /\ x.id # 0 => /\ i = Len(guest'[s].requests)
                                /\ calls'[x.id].rt = s
                                /\ calls'[x.id].at = "sent"
    <3>1. CASE s # r
      <4>1. guest'[s] = guest[s] /\ i \in DOMAIN guest[s].requests BY <3>1, <2>1
      <4>2. guest[s].requests[i].id # 0 => /\ guest[s].requests[i].id \in Calls
                                           /\ calls[guest[s].requests[i].id].rt = s
                                           /\ calls[guest[s].requests[i].id].at = "sent"
        BY <4>1, <1>i, RequestOf DEF LineOK
      <4>3. \A d \in Calls : calls[d].at = "sent" => calls[d] # Idle BY IdleIs, OnTailIs
      <4> QED BY <4>1, <4>2, <4>3, <3>1, <1>i, IdleIs, OnTailIs DEF LineOK
    <3>2. CASE s = r
      <4>1. i \in DOMAIN guest[r].requests BY <3>2, <2>1, <1>4
      <4>2. guest[r].requests[i].id # 0 => guest[r].requests[i].id \in who
        BY <4>1, <1>i, RequestOf DEF LineOK
      <4>3. guest'[r].requests[i].id = 0 BY <4>1, <4>2, <1>4
      <4> QED BY <4>1, <4>3, <3>2, <1>4, <1>i, SMTT(60) DEF LineOK
    <3> QED BY <3>1, <3>2
  <2>2. ASSUME NEW d \in Calls, calls'[d].at = "sent"
        PROVE  LET l == guest'[calls'[d].rt].requests IN
                 l # <<>> /\ l[Len(l)].id = d
                   /\ Asks(calls'[d], l[Len(l)], guest'[calls'[d].rt].input)
    <3>1. calls'[d] = calls[d] /\ calls[d].at = "sent" /\ calls[d].rt \in Rts /\ calls[d].rt # r
      BY <2>2, <1>5, <1>7, OnTailIs
    <3> QED BY <3>1, <1>i, SMTT(60) DEF LineOK
  <2>3. ASSUME NEW d \in Calls, calls'[d].at \in {"ok", "collected"}
        PROVE  guest'[calls'[d].rt].requests = <<>>
    <3>1. calls'[d] = calls[d] /\ calls[d].rt \in Rts
      BY <2>3, <1>6, <1>7, OnTailIs
    <3>2. guest[calls[d].rt].requests = <<>> BY <3>1, <2>3, <1>i DEF LineOK
    <3> QED BY <3>1, <3>2, <1>4
  <2> QED BY <2>1, <2>2, <2>3 DEF LineOK
<1>9. ReadOK'
  <2>1. \A d \in Calls : calls'[d].op = "read" =>
            \/ calls'[d] = calls[d]
            \/ /\ calls[d].op = "read" /\ calls[d].at # "answer"
               /\ calls'[d].rt = calls[d].rt /\ calls'[d].path = calls[d].path
               /\ calls'[d].seen = calls[d].seen
               /\ calls'[d].at \in {"read", "sent", "error"}
    BY <1>1
  <2> QED BY <2>1, <1>i, ReadKept
<1> QED BY <1>2, <1>3, <1>8, <1>9 DEF ChainInv

(* Dispose keeps the chain. *)
LEMMA DisposeChain ==
  ASSUME ChainInv, NEW c \in Calls, Dispose(c)
  PROVE  ChainInv'
<1> DEFINE r == server
           who == Waiting(r)
<1>i. TypeOK BY DEF ChainInv
<1>1. /\ r \in Rts /\ GuestChanges(r, {"requests", "machine"})
      /\ guest'[r].requests = Forgotten(r, who)
      /\ calls' \in [Calls -> CallType] /\ calls[c] = Idle
      /\ calls'[c].op = "dispose" /\ calls'[c].at = "destroying" /\ calls'[c].rt = r
      /\ \A d \in Calls \ {c} :
           IF calls[d].rt = r /\ calls[d].at = "sent"
             THEN calls'[d].at = "error" /\ CallSame(calls[d], calls'[d], {"at"})
             ELSE calls'[d] = calls[d]
      /\ rt' = rt /\ UNCHANGED <<plan, server, doubt>> /\ left' \in [Ops -> Int]
  BY DisposeEffect
<1>2. RtChanges(r, {}) BY <1>1, <1>i, NoChange
<1>3. TailsKept /\ FilesKept /\ BootOK'
  BY <1>1, <1>2, Frame
<1>4. TypeOK'
  BY <1>1, <1>2, <1>i DEF TypeOK, RtChanges, GuestChanges
<1>5. who = {d \in Calls : calls[d].rt = r /\ calls[d].at = "sent"}
  BY DEF Waiting, InFlight
<1>6. c \notin who /\ calls[c].at # "sent" BY <1>1, <1>5, IdleIs, OnTailIs
<1>7. CallOK(c)' /\ calls'[c].at \notin OnTail /\ calls'[c].op # "read"
  BY <1>1, OnTailIs DEF CallOK, Placed
<1>8. guest'[r].input = guest[r].input /\ \A s \in Rts : s # r => guest'[s] = guest[s]
  BY <1>1 DEF GuestChanges, GuestSame
<1> HIDE DEF r, who
<1>9. /\ who \in SUBSET Calls
      /\ \A d \in who : calls[d].at = "sent" /\ calls[d].rt = r
      /\ \A d \in Calls : calls[d].at = "sent" /\ calls[d].rt = r => d \in who
      /\ \A d \in who : calls'[d].at = "error" /\ CallSame(calls[d], calls'[d], {"at"})
      /\ \A d \in Calls \ who :
            \/ calls'[d] = calls[d]
            \/ calls[d] = Idle /\ CallOK(d)' /\ calls'[d].at \notin OnTail /\ calls'[d].op # "read"
  BY <1>1, <1>5, <1>6, <1>7
<1> QED BY <1>1, <1>3, <1>4, <1>8, <1>9, Forgets

(* ControlTimeout keeps the chain. *)
LEMMA ControlTimeoutChain ==
  ASSUME ChainInv, NEW c \in Calls, ControlTimeout(c)
  PROVE  ChainInv'
<1> DEFINE r == calls[c].rt
           who == {c}
<1>i. TypeOK /\ CallsOK /\ TailOK BY DEF ChainInv
<1>0. calls[c].at = "sent" BY DEF ControlTimeout
<1>1. /\ r \in Rts /\ GuestChanges(r, {"requests"})
      /\ guest'[r].requests = Forgotten(r, {c})
      /\ CallChanges(c, {"at"}) /\ calls'[c].at = "error"
      /\ rt' = rt /\ UNCHANGED <<plan, left, server>> /\ doubt' = [doubt EXCEPT ![r] = TRUE]
  BY ControlTimeoutEffect
<1>2. RtChanges(r, {}) BY <1>1, <1>i, NoChange
<1>3. TailsKept /\ FilesKept /\ BootOK'
  BY <1>1, <1>2, Frame
<1>4. TypeOK'
  BY <1>1, <1>2, <1>i DEF TypeOK, RtChanges, GuestChanges, CallChanges
<1>5. guest'[r].input = guest[r].input /\ \A s \in Rts : s # r => guest'[s] = guest[s]
  BY <1>1 DEF GuestChanges, GuestSame
<1>6. \A d \in Calls : calls[d].at = "sent" /\ calls[d].rt = r => d = c
  <2>1. Turn(rt[r].tail, 1) = c BY <1>0, <1>i, OnTailIs DEF TailOK
  <2> QED BY <2>1, OnTailIs, TurnIsOnes
<1>7. /\ \A d \in who : calls[d].at = "sent" /\ calls[d].rt = r
      /\ \A d \in who : calls'[d].at = "error" /\ CallSame(calls[d], calls'[d], {"at"})
  BY <1>0, <1>1 DEF CallChanges
<1>8. \A d \in Calls : d # c => calls'[d] = calls[d]
  BY <1>1 DEF CallChanges, OthersKept
<1>9. /\ who \in SUBSET Calls
      /\ \A d \in Calls : calls[d].at = "sent" /\ calls[d].rt = r => d \in who
      /\ \A d \in Calls \ who : calls'[d] = calls[d]
      /\ guest'[r].requests = Forgotten(r, who)
  BY <1>1, <1>6, <1>8
<1> HIDE DEF who, r
<1> QED BY <1>1, <1>3, <1>4, <1>5, <1>7, <1>9, Forgets

(* GuestReady keeps the chain. *)
LEMMA GuestReadyChain ==
  ASSUME ChainInv, NEW r \in Rts, GuestReady(r)
  PROVE  ChainInv'
<1>i. TypeOK /\ CallsOK /\ TailOK /\ ValuesOK /\ LineOK /\ ReadOK /\ BootOK
  BY DEF ChainInv
<1>0. guest[r].on = "booting" BY DEF GuestReady
<1>1. /\ RtChanges(r, {"ready"}) /\ GuestChanges(r, {"on", "files", "up"})
      /\ guest'[r].on = "up" /\ calls' = calls /\ UNCHANGED <<plan, left, server, doubt>>
  BY GuestReadyEffect
<1>2. TailsKept /\ LinesKept
  BY <1>1, Frame
<1>3. BootOK'
  <2>1. rt'[r].booted = rt[r].booted BY <1>1 DEF RtChanges, RtSame
  <2>2. rt'[r].ready = IF rt[r].ready = "pending" THEN "resolved" ELSE rt[r].ready BY GuestReadyEffect
  <2>3. \A s \in Rts : s # r => rt'[s] = rt[s] /\ guest'[s] = guest[s]
    BY <1>1 DEF RtChanges, GuestChanges
  <2>4. rt'[r].booted => rt'[r].ready = "resolved" BY <2>1, <2>2, <1>i DEF BootOK
  <2> QED BY <2>3, <2>4, <1>1, <1>i DEF BootOK
<1>4. TypeOK'
  BY <1>1, <1>i DEF TypeOK, RtChanges, GuestChanges
<1>5. CallsOK' BY <1>1, <1>i DEF CallsOK, CallOK
<1>6. \A at \in InTurn : at \in OnTail BY DEF OnTail
<1>7. TailOK' /\ ValuesOK'
  BY <1>1, <1>2, <1>i, <1>6, TailKept
<1>8. LineOK'
  BY <1>1, <1>2, <1>i, LineKept
<1>9. ReadOK'
  <2>1. ~rt[r].booted BY <1>0, <1>i DEF BootOK
  <2>2. \A s \in Rts : s # r => rt'[s] = rt[s] /\ guest'[s] = guest[s]
    BY <1>1 DEF RtChanges, GuestChanges
  <2>3. \A d \in Calls : calls[d].op = "read" => calls[d].rt \in Rts /\ calls[d].rt # r
    BY <2>1, <1>i DEF ReadOK, CallsOK, CallOK
  <2> QED BY <2>2, <2>3, <1>1, <1>i DEF ReadOK
<1> QED BY <1>3, <1>4, <1>5, <1>7, <1>8, <1>9 DEF ChainInv

(* The guest has dealt with the first request on its line, in whatever way. *)
LEMMA Answer ==
  ASSUME ChainInv, TypeOK', BootOK', NEW r \in Rts, guest[r].requests # <<>>,
         NEW status \in {"ok", "error"}, calls' = Told(r, status),
         NEW f \in [Paths -> Int], guest'[r].files = f,
         guest'[r].requests = Tail(guest[r].requests), guest'[r].input = guest[r].input,
         guest[r].output = guest'[r].output \/ Head(guest[r].requests).do = "READ",
         \A s \in Rts : s # r => guest'[s] = guest[s],
         TailsKept, \A s \in Rts : rt'[s].booted = rt[s].booted,
         Head(guest[r].requests).do = "READ" => f = guest[r].files,
         Head(guest[r].requests).do = "READ" /\ status = "ok" =>
            guest'[r].output = <<Head(guest[r].requests).path, f[Head(guest[r].requests).path]>>
  PROVE  ChainInv'
<1> DEFINE line == guest[r].requests
           rest == Tail(line)
           id == line[1].id
<1>i. TypeOK /\ CallsOK /\ TailOK /\ ValuesOK /\ LineOK /\ ReadOK
  BY DEF ChainInv
<1>l. /\ line \in Seq(RequestType) /\ rest \in Seq(RequestType)
      /\ Len(line) \in Nat /\ Len(line) >= 1 /\ Len(rest) = Len(line) - 1
      /\ DOMAIN line = 1 .. Len(line) /\ DOMAIN rest = 1 .. Len(line) - 1
      /\ \A k \in 1 .. Len(line) - 1 : rest[k] = line[k + 1]
      /\ Head(line) = line[1]
  BY <1>i, Types, TailIs, Zenon
<1>1. id \in {0} \cup Calls
  <2>1. 1 \in DOMAIN line BY <1>l
  <2> QED BY <2>1, RequestOf
<1>2. id # 0 => Len(line) = 1 /\ calls[id].rt = r /\ calls[id].at = "sent" /\ Asks(calls[id], line[1], guest[r].input)
  <2>1. 1 \in DOMAIN line BY <1>l
  <2>2. id # 0 => 1 = Len(line) /\ calls[id].rt = r /\ calls[id].at = "sent" BY <2>1, <1>i
       DEF LineOK
  <2>3. id # 0 => Asks(calls[id], line[Len(line)], guest[r].input) BY <2>2, <1>1, <1>i DEF LineOK
  <2> QED BY <2>2, <2>3
<1>3. /\ \A d \in Calls :
              /\ d = id => calls'[d].at = status /\ CallSame(calls[d], calls'[d], {"at"})
              /\ d # id /\ calls[d].op = "read" /\ calls[d].rt = r =>
                   /\ calls'[d].seen = calls[d].seen \cup {f[calls[d].path]}
                   /\ CallSame(calls[d], calls'[d], {"seen"})
              /\ d # id /\ ~(calls[d].op = "read" /\ calls[d].rt = r) => calls'[d] = calls[d]
  <2>1. \A d \in Calls : calls[d].op = "read" /\ calls[d].rt = r => calls[d].path \in Paths
    BY <1>i DEF CallsOK, CallOK
  <2>2. status \in Ats BY DEF Ats, InTurn
  <2>3. id = Head(guest[r].requests).id BY <1>l
  <2> HIDE DEF id, line
  <2> QED BY <2>1, <2>2, <2>3, <1>i, ToldIs
<1>4. /\ guest'[r].requests = rest /\ line = guest[r].requests
      /\ status \in InTurn /\ status \in OnTail /\ "sent" \in InTurn /\ "sent" \in OnTail
  BY OnTailIs
<1> HIDE DEF line, rest, id
<1>5. \A d \in Calls : /\ calls'[d].op = calls[d].op /\ calls'[d].rt = calls[d].rt
                       /\ calls'[d].path = calls[d].path /\ calls'[d].arg = calls[d].arg
                       /\ calls[d].seen \subseteq calls'[d].seen
                       /\ calls'[d].at = IF d = id THEN status ELSE calls[d].at
  BY <1>3 DEF CallSame
<1>z. \A d \in Calls : d # 0 BY DEF Calls
<1>6. CallsOK'
  <2>1. ASSUME NEW d \in Calls, d # id PROVE CallOK(d)'
    BY <2>1, <1>3, <1>5, <1>i DEF CallsOK, CallOK
  <2>2. ASSUME NEW d \in Calls, d = id PROVE CallOK(d)'
    <3>1. CallOK(d) /\ calls[d].op \in Ops \cup {"none"} /\ calls[d].at = "sent"
      BY <2>2, <1>z, <1>2, <1>i, Types, Zenon DEF CallsOK
    <3>2. calls[d].op # "none" BY <3>1, <1>4, <1>i, InFlightIs
    <3>3. calls'[d].at \in {"ok", "error"} BY <2>2, <1>5
    <3> QED BY <3>1, <3>2, <3>3, <1>5 DEF CallOK, Placed, Ops
  <2> QED BY <2>1, <2>2 DEF CallsOK
<1>7. TailOK' /\ ValuesOK'
  <2>1. \A d \in Calls : /\ calls[d].at \in OnTail <=> calls'[d].at \in OnTail
                         /\ calls'[d].at \in InTurn => calls[d].at \in InTurn
    BY <1>2, <1>4, <1>5, <1>z
  <2> QED BY <2>1, <1>5, <1>i, TailKept
<1>8. ASSUME NEW d \in Calls, calls'[d].at = "sent"
      PROVE  d # id /\ calls[d].at = "sent" /\ calls[d].rt \in Rts
  BY <1>4, <1>5, <1>8, <1>i, InFlightIs
<1>9. LineOK'
  <2>1. ASSUME NEW s \in Rts, NEW i \in DOMAIN guest'[s].requests
        PROVE  LET x == guest'[s].requests[i] IN
                 /\ x.do = "APPLY" => guest'[s].input # <<>>
                 /\ x.do = "READ" => x.path \in Paths
                 /\ x.id # 0 => /\ i = Len(guest'[s].requests)
                                /\ calls'[x.id].rt = s
                                /\ calls'[x.id].at = "sent"
    <3>1. CASE s # r
      <4>1. guest'[s] = guest[s] /\ i \in DOMAIN guest[s].requests BY <3>1, <2>1
      <4>2. guest[s].requests[i].id # 0 => /\ guest[s].requests[i].id \in Calls
                                           /\ calls[guest[s].requests[i].id].rt = s
                                           /\ calls[guest[s].requests[i].id].at = "sent"
        BY <4>1, <1>i, RequestOf DEF LineOK
      <4>3. guest[s].requests[i].id # 0 => guest[s].requests[i].id # id
        BY <4>2, <3>1, <1>2
      <4>4. LET x == guest[s].requests[i] IN
              /\ x.do = "APPLY" => guest[s].input # <<>>
              /\ x.do = "READ" => x.path \in Paths
              /\ x.id # 0 => i = Len(guest[s].requests)
        BY <4>1, <1>i DEF LineOK
      <4>5. guest[s].requests[i].id # 0 =>
              /\ calls'[guest[s].requests[i].id].rt = s
              /\ calls'[guest[s].requests[i].id].at = "sent"
        BY <4>2, <4>3, <1>5
      <4> QED BY <4>1, <4>4, <4>5, Zenon
    <3>2. CASE s = r
      <4>1. i \in DOMAIN rest BY <3>2, <2>1, <1>4
      <4>2. i \in 1 .. Len(line) - 1 /\ i + 1 \in DOMAIN line /\ i + 1 # 1 /\ Len(line) # 1
        BY <4>1, <1>l
      <4>3. guest'[r].requests[i] = line[i + 1] BY <4>2, <1>4, <1>l
      <4>4. LET x == line[i + 1] IN
              /\ x.do = "APPLY" => guest[r].input # <<>>
              /\ x.do = "READ" => x.path \in Paths
              /\ x.id # 0 => i + 1 = Len(line) /\ calls[x.id].rt = r /\ calls[x.id].at = "sent"
        BY <4>2, <1>4, <1>i DEF LineOK
      <4>5. line[i + 1].id # 0 => line[i + 1].id \in Calls
        BY <4>2, <1>4, RequestOf
      <4>6. i + 1 = Len(line) => i = Len(guest'[r].requests)
        BY <4>2, <1>4, <1>l
      <4>7. id = 0 BY <4>2, <1>2
      <4> QED BY <3>2, <4>3, <4>4, <4>5, <4>6, <4>7, <1>5
    <3> QED BY <3>1, <3>2
  <2>2. ASSUME NEW d \in Calls, calls'[d].at = "sent"
        PROVE  LET l == guest'[calls'[d].rt].requests IN
                 l # <<>> /\ l[Len(l)].id = d
                   /\ Asks(calls'[d], l[Len(l)], guest'[calls'[d].rt].input)
    <3>1. d # id /\ calls[d].at = "sent" /\ calls[d].rt \in Rts BY <2>2, <1>8
    <3>2. LET l == guest[calls[d].rt].requests IN
                 l # <<>> /\ l[Len(l)].id = d
                   /\ Asks(calls[d], l[Len(l)], guest[calls[d].rt].input)
      BY <3>1, <1>i DEF LineOK
    <3>3. CASE calls[d].rt # r
      <4>1. calls'[d] = calls[d] BY <3>1, <3>3, <1>3
      <4> QED BY <4>1, <3>1, <3>2, <3>3
    <3>4. CASE calls[d].rt = r
      <4>1. line[Len(line)].id = d /\ Asks(calls[d], line[Len(line)], guest[r].input)
        BY <3>2, <3>4, <1>4
      <4>2. Len(line) # 1
        <5>1. id = line[1].id BY DEF id
        <5> QED BY <5>1, <4>1, <3>1
      <4>3. Len(rest) \in 1 .. Len(line) - 1 /\ Len(rest) + 1 = Len(line) /\ rest # <<>>
        BY <4>2, <1>l
      <4>4. rest[Len(rest)] = line[Len(line)] BY <4>3, <1>l
      <4>5. Asks(calls'[d], line[Len(line)], guest[r].input) BY <4>1, <1>5 DEF Asks
      <4> QED BY <3>4, <4>1, <4>3, <4>4, <4>5, <1>4, <1>5
    <3> QED BY <3>3, <3>4
  <2>3. ASSUME NEW d \in Calls, calls'[d].at \in {"ok", "collected"}
        PROVE  guest'[calls'[d].rt].requests = <<>>
    <3>1. CASE d = id
      <4>1. Len(line) = 1 /\ calls[d].rt = r BY <3>1, <1>2, <1>z
      <4>2. rest = <<>> BY <4>1, <1>l
      <4> QED BY <4>1, <4>2, <1>4, <1>5
    <3>2. CASE d # id
      <4>1. calls[d].at \in {"ok", "collected"} /\ calls[d].rt \in Rts
        BY <3>2, <2>3, <1>5, <1>i, OnTailIs, InFlightIs
      <4>2. guest[calls[d].rt].requests = <<>> BY <4>1, <1>i DEF LineOK
      <4>3. calls[d].rt # r BY <4>2
      <4> QED BY <4>1, <4>2, <4>3, <1>5
    <3> QED BY <3>1, <3>2
  <2> QED BY <2>1, <2>2, <2>3 DEF LineOK
<1>10. ReadOK'
  <2> SUFFICES ASSUME NEW d \in Calls, calls'[d].op = "read"
               PROVE  /\ rt'[calls'[d].rt].booted
                      /\ calls'[d].at # "answer" =>
                           guest'[calls'[d].rt].files[calls'[d].path] \in calls'[d].seen
                      /\ calls'[d].at = "ok" => guest'[calls'[d].rt].output
                           = <<calls'[d].path, guest'[calls'[d].rt].files[calls'[d].path]>>
                      /\ calls'[d].at = "answer" => calls'[d].arg \in calls'[d].seen
    BY DEF ReadOK
  <2>1. calls[d].op = "read" /\ calls[d].rt \in Rts BY <1>5, <1>i DEF CallsOK, CallOK
  <2>2. /\ rt[calls[d].rt].booted
        /\ calls[d].at # "answer" => guest[calls[d].rt].files[calls[d].path] \in calls[d].seen
        /\ calls[d].at = "ok" =>
             guest[calls[d].rt].output = <<calls[d].path, guest[calls[d].rt].files[calls[d].path]>>
        /\ calls[d].at = "answer" => calls[d].arg \in calls[d].seen
    BY <2>1, <1>i DEF ReadOK
  <2>3. CASE calls[d].rt # r
    <3>1. d # id BY <2>3, <1>2, <1>z
    <3>2. calls'[d] = calls[d] BY <2>3, <3>1, <1>3
    <3> QED BY <3>2, <2>1, <2>2, <2>3
  <2>4. CASE d = id
    <3>1. calls[d].rt = r /\ calls[d].at = "sent" /\ Asks(calls[d], line[1], guest[r].input)
      BY <2>4, <1>2, <1>z
    <3>2. line[1].do = "READ" /\ line[1].path = calls[d].path
      BY <3>1, <2>1 DEF Asks
    <3>3. f = guest[r].files /\ (status = "ok" => guest'[r].output = <<calls[d].path, f[calls[d].path]>>)
      BY <3>2, <1>4, <1>l
    <3>4. calls'[d].at = status /\ calls'[d].rt = r /\ calls'[d].path = calls[d].path
          /\ calls[d].seen \subseteq calls'[d].seen
      BY <2>4, <3>1, <1>5
    <3> QED BY <3>1, <3>3, <3>4, <2>2
  <2>5. CASE d # id /\ calls[d].rt = r
    <3>1. /\ calls'[d].seen = calls[d].seen \cup {f[calls[d].path]}
          /\ calls'[d].at = calls[d].at /\ calls'[d].rt = r /\ calls'[d].path = calls[d].path
          /\ calls'[d].arg = calls[d].arg
      BY <2>1, <2>5, <1>3, <1>5
    <3>2. calls[d].at # "ok"
      <4>1. calls[d].at = "ok" => guest[r].requests = <<>> BY <2>5, <1>i DEF LineOK
      <4> QED BY <4>1
    <3> QED BY <3>1, <3>2, <2>2, <2>5
  <2> QED BY <2>3, <2>4, <2>5
<1> QED BY <1>6, <1>7, <1>9, <1>10 DEF ChainInv

(* What an answer leaves of the guest has its type. *)
LEMMA AnswerTypes ==
  ASSUME ChainInv, NEW r \in Rts, NEW F, NEW G, RtChanges(r, F), GuestChanges(r, G),
         guest[r].requests # <<>>, guest'[r].files \in [Paths -> Int],
         NEW status \in {"ok", "error"}, calls' = Told(r, status),
         UNCHANGED <<plan, left, server>>, doubt' \in [Rts -> BOOLEAN]
  PROVE  TypeOK'
<1>i. TypeOK /\ CallsOK BY DEF ChainInv
<1> DEFINE f == guest'[r].files
           id == Head(guest[r].requests).id
<1>1. status \in Ats BY DEF Ats, InTurn
<1>2. \A d \in Calls : calls[d].op = "read" /\ calls[d].rt = r => calls[d].path \in Paths
  BY <1>i DEF CallsOK, CallOK
<1>3. f \in [Paths -> Int] /\ f = guest'[r].files /\ id = Head(guest[r].requests).id OBVIOUS
<1> HIDE DEF f, id
<1>4. calls' \in [Calls -> CallType] BY <1>1, <1>2, <1>3, <1>i, ToldIs
<1> QED BY <1>4, <1>i DEF TypeOK, RtChanges, GuestChanges

(* AnswersApply keeps the chain. *)
LEMMA AnswersApplyChain ==
  ASSUME ChainInv, NEW r \in Rts, GuestAnswers(r), Head(guest[r].requests).do = "APPLY"
  PROVE  ChainInv'
<1> DEFINE f == [guest[r].files EXCEPT ![guest[r].input[1]] = guest[r].input[2]]
<1>1. /\ GuestChanges(r, {"requests", "files"}) /\ rt' = rt
      /\ guest'[r].requests = Tail(guest[r].requests) /\ guest'[r].files = f
      /\ calls' = Told(r, "ok") /\ UNCHANGED <<plan, left, server>>
  BY AnswersApply DEF GuestChanges, GuestSame
<1>2. guest[r].requests # <<>> BY DEF GuestAnswers
<1>3. f \in [Paths -> Int]
  <2>1. guest[r].input \in Paths \X Int BY <1>2, InputIs
  <2>2. guest[r].files \in [Paths -> Int] BY Types, Zenon DEF ChainInv
  <2> QED BY <2>1, <2>2
<1>d. doubt' \in [Rts -> BOOLEAN]
  BY AnswersApply DEF ChainInv, TypeOK
<1> HIDE DEF f
<1>a. /\ "ok" \in {"ok", "error"} /\ calls' = Told(r, "ok")
      /\ guest[r].requests # <<>> /\ guest'[r].requests = Tail(guest[r].requests)
      /\ f \in [Paths -> Int] /\ guest'[r].files = f /\ guest'[r].files \in [Paths -> Int]
  BY <1>1, <1>2, <1>3
<1>4. RtChanges(r, {})
  BY <1>1, NoChange DEF ChainInv
<1>5. TailsKept /\ BootOK'
  BY <1>1, <1>4, Frame
<1>6. \A s \in Rts : rt'[s].booted = rt[s].booted
  BY <1>4 DEF RtChanges, RtSame
<1>7. TypeOK'
  BY <1>a, <1>d, <1>1, <1>4, AnswerTypes
<1>8. /\ guest'[r].input = guest[r].input
      /\ \A s \in Rts : s # r => guest'[s] = guest[s]
  BY <1>1 DEF GuestChanges, GuestSame
<1>9. /\ guest'[r].output = guest[r].output
      /\ Head(guest[r].requests).do # "READ"
  BY <1>1 DEF GuestChanges, GuestSame
<1> QED BY <1>a, <1>5, <1>6, <1>7, <1>8, <1>9, Answer

(* AnswersLink keeps the chain. *)
LEMMA AnswersLinkChain ==
  ASSUME ChainInv, NEW r \in Rts, GuestAnswers(r), Head(guest[r].requests).do = "LINK"
  PROVE  ChainInv'
<1> DEFINE f == guest[r].files
<1>1. /\ GuestChanges(r, {"requests", "up"}) /\ rt' = rt
      /\ guest'[r].requests = Tail(guest[r].requests) /\ guest'[r].files = f
      /\ calls' = Told(r, "ok") /\ UNCHANGED <<plan, left, server>>
  BY AnswersLink DEF GuestChanges, GuestSame
<1>2. guest[r].requests # <<>> BY DEF GuestAnswers
<1>3. f \in [Paths -> Int]
  BY Types, Zenon DEF ChainInv
<1>d. doubt' \in [Rts -> BOOLEAN]
  BY AnswersLink DEF ChainInv, TypeOK
<1> HIDE DEF f
<1>a. /\ "ok" \in {"ok", "error"} /\ calls' = Told(r, "ok")
      /\ guest[r].requests # <<>> /\ guest'[r].requests = Tail(guest[r].requests)
      /\ f \in [Paths -> Int] /\ guest'[r].files = f /\ guest'[r].files \in [Paths -> Int]
  BY <1>1, <1>2, <1>3
<1>4. RtChanges(r, {})
  BY <1>1, NoChange DEF ChainInv
<1>5. TailsKept /\ BootOK'
  BY <1>1, <1>4, Frame
<1>6. \A s \in Rts : rt'[s].booted = rt[s].booted
  BY <1>4 DEF RtChanges, RtSame
<1>7. TypeOK'
  BY <1>a, <1>d, <1>1, <1>4, AnswerTypes
<1>8. /\ guest'[r].input = guest[r].input
      /\ \A s \in Rts : s # r => guest'[s] = guest[s]
  BY <1>1 DEF GuestChanges, GuestSame
<1>9. /\ guest'[r].output = guest[r].output
      /\ Head(guest[r].requests).do # "READ"
  BY <1>1 DEF GuestChanges, GuestSame
<1> QED BY <1>a, <1>5, <1>6, <1>7, <1>8, <1>9, Answer

(* AnswersCollect keeps the chain. *)
LEMMA AnswersCollectChain ==
  ASSUME ChainInv, NEW r \in Rts, GuestAnswers(r), Head(guest[r].requests).do = "COLLECT_PGO"
  PROVE  ChainInv'
<1> DEFINE f == guest[r].files
<1>1. /\ GuestChanges(r, {"requests"}) /\ RtChanges(r, {"state"})
      /\ guest'[r].requests = Tail(guest[r].requests) /\ guest'[r].files = f
      /\ calls' = Told(r, "ok") /\ UNCHANGED <<plan, left, server>>
  BY AnswersCollect DEF GuestChanges, GuestSame, ExitChange
<1>2. guest[r].requests # <<>> BY DEF GuestAnswers
<1>3. f \in [Paths -> Int]
  BY Types, Zenon DEF ChainInv
<1>d. doubt' \in [Rts -> BOOLEAN]
  BY AnswersCollect DEF ChainInv, TypeOK
<1> HIDE DEF f
<1>a. /\ "ok" \in {"ok", "error"} /\ calls' = Told(r, "ok")
      /\ guest[r].requests # <<>> /\ guest'[r].requests = Tail(guest[r].requests)
      /\ f \in [Paths -> Int] /\ guest'[r].files = f /\ guest'[r].files \in [Paths -> Int]
  BY <1>1, <1>2, <1>3
<1>4. RtChanges(r, {"state"})
  BY <1>1, NoChange DEF ChainInv
<1>5. TailsKept /\ BootOK'
  BY <1>1, <1>4, Frame
<1>6. \A s \in Rts : rt'[s].booted = rt[s].booted
  BY <1>4 DEF RtChanges, RtSame
<1>7. TypeOK'
  BY <1>a, <1>d, <1>1, <1>4, AnswerTypes
<1>8. /\ guest'[r].input = guest[r].input
      /\ \A s \in Rts : s # r => guest'[s] = guest[s]
  BY <1>1 DEF GuestChanges, GuestSame
<1>9. /\ guest'[r].output = guest[r].output
      /\ Head(guest[r].requests).do # "READ"
  BY <1>1 DEF GuestChanges, GuestSame
<1> QED BY <1>a, <1>5, <1>6, <1>7, <1>8, <1>9, Answer

(* AnswersRead keeps the chain. *)
LEMMA AnswersReadChain ==
  ASSUME ChainInv, NEW r \in Rts, GuestAnswers(r), Head(guest[r].requests).do = "READ"
  PROVE  ChainInv'
<1> DEFINE f == guest[r].files
<1>1. /\ GuestChanges(r, {"requests", "output"}) /\ rt' = rt
      /\ guest'[r].requests = Tail(guest[r].requests) /\ guest'[r].files = f
      /\ calls' = Told(r, "ok") /\ UNCHANGED <<plan, left, server>>
  BY AnswersRead DEF GuestChanges, GuestSame
<1>2. guest[r].requests # <<>> BY DEF GuestAnswers
<1>3. f \in [Paths -> Int]
  BY Types, Zenon DEF ChainInv
<1>d. doubt' \in [Rts -> BOOLEAN]
  BY AnswersRead DEF ChainInv, TypeOK
<1> HIDE DEF f
<1>a. /\ "ok" \in {"ok", "error"} /\ calls' = Told(r, "ok")
      /\ guest[r].requests # <<>> /\ guest'[r].requests = Tail(guest[r].requests)
      /\ f \in [Paths -> Int] /\ guest'[r].files = f /\ guest'[r].files \in [Paths -> Int]
  BY <1>1, <1>2, <1>3
<1>4. RtChanges(r, {})
  BY <1>1, NoChange DEF ChainInv
<1>5. TailsKept /\ BootOK'
  BY <1>1, <1>4, Frame
<1>6. \A s \in Rts : rt'[s].booted = rt[s].booted
  BY <1>4 DEF RtChanges, RtSame
<1>7. TypeOK'
  BY <1>a, <1>d, <1>1, <1>4, AnswerTypes
<1>8. /\ guest'[r].input = guest[r].input
      /\ \A s \in Rts : s # r => guest'[s] = guest[s]
  BY <1>1 DEF GuestChanges, GuestSame
<1>9. /\ Head(guest[r].requests).do = "READ" /\ f = guest[r].files
      /\ guest'[r].output = <<Head(guest[r].requests).path, f[Head(guest[r].requests).path]>>
  BY AnswersRead DEF f
<1> QED BY <1>a, <1>5, <1>6, <1>7, <1>8, <1>9, Answer

(* GuestRefuses keeps the chain. *)
LEMMA GuestRefusesChain ==
  ASSUME ChainInv, NEW r \in Rts, GuestRefuses(r)
  PROVE  ChainInv'
<1> DEFINE f == guest[r].files
<1>1. /\ GuestChanges(r, {"requests"}) /\ rt' = rt
      /\ guest'[r].requests = Tail(guest[r].requests) /\ guest'[r].files = f
      /\ calls' = Told(r, "error") /\ UNCHANGED <<plan, left, server>>
  BY GuestRefusesEffect DEF GuestChanges, GuestSame
<1>2. guest[r].requests # <<>> BY DEF GuestRefuses
<1>3. f \in [Paths -> Int]
  BY Types, Zenon DEF ChainInv
<1>d. doubt' \in [Rts -> BOOLEAN]
  BY GuestRefusesEffect DEF ChainInv, TypeOK
<1> HIDE DEF f
<1>a. /\ "error" \in {"ok", "error"} /\ calls' = Told(r, "error")
      /\ guest[r].requests # <<>> /\ guest'[r].requests = Tail(guest[r].requests)
      /\ f \in [Paths -> Int] /\ guest'[r].files = f /\ guest'[r].files \in [Paths -> Int]
  BY <1>1, <1>2, <1>3
<1>4. RtChanges(r, {})
  BY <1>1, NoChange DEF ChainInv
<1>5. TailsKept /\ BootOK'
  BY <1>1, <1>4, Frame
<1>6. \A s \in Rts : rt'[s].booted = rt[s].booted
  BY <1>4 DEF RtChanges, RtSame
<1>7. TypeOK'
  BY <1>a, <1>d, <1>1, <1>4, AnswerTypes
<1>8. /\ guest'[r].input = guest[r].input
      /\ \A s \in Rts : s # r => guest'[s] = guest[s]
  BY <1>1 DEF GuestChanges, GuestSame
<1>9. guest'[r].output = guest[r].output /\ f = guest[r].files /\ "error" # "ok"
  BY <1>1 DEF GuestChanges, GuestSame, f
<1> QED BY <1>a, <1>5, <1>6, <1>7, <1>8, <1>9, Answer

(* A fresh page has no chain. *)
LEMMA InitChain == Init => ChainInv
<1> SUFFICES ASSUME Init PROVE ChainInv OBVIOUS
<1>1. plan \in Plans /\ plan.budget \in [Ops -> Nat] BY PlansAssumption DEF Init
<1>2. left \in [Ops -> Int]
  <2>1. \A o \in Ops : plan.budget[o] \in Nat BY <1>1
  <2> QED BY <1>1, <2>1 DEF Init
<1>3. NewRuntime \in RuntimeType /\ NewRuntime.tail = <<>> /\ NewRuntime.booted = FALSE /\ NewRuntime.ready = "pending"
  <2>1. <<>> \in Seq(Paths) /\ <<>> \in Seq(Calls \X Int) /\ [p \in Paths |-> 0] \in [Paths -> Int] OBVIOUS
  <2>2. NewRuntime \in RuntimeType BY <2>1, ZenonT(30) DEF NewRuntime, RuntimeType, States
  <2> QED BY <2>2, ZenonT(30) DEF NewRuntime
<1>4. NewGuest \in GuestType /\ NewGuest.requests = <<>>
  <2>1. <<>> \in Seq(RequestType) /\ [p \in Paths |-> 0] \in [Paths -> Int] OBVIOUS
  <2>2. NewGuest \in GuestType BY <2>1, ZenonT(30) DEF NewGuest, GuestType
  <2> QED BY <2>2, ZenonT(30) DEF NewGuest
<1>5. TypeOK
  <2>1. plan \in Plans /\ left \in [Ops -> Int] /\ server \in {0} \cup Rts /\ doubt \in [Rts -> BOOLEAN]
    BY <1>1, <1>2 DEF Init
  <2>2. calls \in [Calls -> CallType] BY IdleType DEF Init
  <2>3. rt \in [Rts -> RuntimeType] /\ guest \in [Rts -> GuestType] BY <1>3, <1>4 DEF Init
  <2> QED BY <2>1, <2>2, <2>3 DEF TypeOK
<1>6. \A c \in Calls : calls[c] = Idle /\ calls[c].at = "none" /\ calls[c].op = "none" /\ calls[c].at \notin OnTail
  <2>1. \A c \in Calls : calls[c] = Idle BY DEF Init
  <2>2. Idle.at = "none" /\ Idle.op = "none" BY DEF Idle
  <2> QED BY <2>1, <2>2, OnTailIs
<1>7. \A r \in Rts : /\ rt[r].tail = <<>> /\ ~rt[r].booted /\ rt[r].ready = "pending"
                     /\ guest[r].requests = <<>>
  BY <1>3, <1>4 DEF Init
<1>8. CallsOK BY <1>6 DEF CallsOK, CallOK, Placed
<1>9. TailOK /\ ValuesOK
  <2>1. \A r \in Rts : DOMAIN rt[r].tail = {} BY <1>7
  <2>2. \A c \in Calls : calls[c].at \notin OnTail /\ calls[c].at \notin InTurn BY <1>6 DEF OnTail
  <2>3. ValuesOK BY <2>1 DEF ValuesOK
  <2>4. TailOK BY <2>1, <2>2 DEF TailOK
  <2> QED BY <2>3, <2>4
<1>10. LineOK BY <1>6, <1>7 DEF LineOK
<1>11. BootOK /\ ReadOK BY <1>6, <1>7 DEF BootOK, ReadOK
<1> QED BY <1>5, <1>8, <1>9, <1>10, <1>11 DEF ChainInv

(* StartReady keeps the chain. *)
LEMMA StartReadyChain ==
  ASSUME ChainInv, NEW c \in Calls, StartReady(c) PROVE ChainInv'
BY StartReadyTooLateChain, StartReadyFirstChain, StartReadyAgainChain DEF StartReady

(* ApplyPending keeps the chain. *)
LEMMA ApplyPendingChain ==
  ASSUME ChainInv, NEW c \in Calls, ApplyPending(c) PROVE ChainInv'
BY ApplyPendingFileChain, ApplyPendingLinkChain, ApplyPendingDoneChain

(* Acknowledged keeps the chain. *)
LEMMA AcknowledgedChain ==
  ASSUME ChainInv, NEW c \in Calls, Acknowledged(c) PROVE ChainInv'
BY AcknowledgedWriteChain, AcknowledgedLinkChain DEF Acknowledged

(* PendingApplied keeps the chain. *)
LEMMA PendingAppliedChain ==
  ASSUME ChainInv, NEW c \in Calls, PendingApplied(c) PROVE ChainInv'
BY PendingAppliedFileChain, PendingAppliedLinkChain

(* WriteFile keeps the chain. *)
LEMMA WriteFileChain ==
  ASSUME ChainInv, NEW c \in Calls, WriteFile(c) PROVE ChainInv'
<1>1. PICK p \in Paths : WriteFile(c)!(p) BY DEF WriteFile
<1> QED BY <1>1, WriteLiveChain, WriteEarlyChain, WriteLaterChain

(* SetInterfaceState keeps the chain. *)
LEMMA SetInterfaceStateChain ==
  ASSUME ChainInv, NEW c \in Calls, SetInterfaceState(c) PROVE ChainInv'
BY LinkLiveChain, LinkEarlyChain, LinkLaterChain

(* Read keeps the chain. *)
LEMMA ReadChain ==
  ASSUME ChainInv, NEW c \in Calls, ReadFile(c) PROVE ChainInv'
<1>1. PICK p \in Paths : ReadFile(c)!(p) BY DEF ReadFile
<1> QED BY <1>1, ReadFileChain

(* GuestAnswers keeps the chain. *)
LEMMA GuestAnswersChain ==
  ASSUME ChainInv, NEW r \in Rts, GuestAnswers(r) PROVE ChainInv'
<1>1. Head(guest[r].requests).do \in {"APPLY", "LINK", "READ", "COLLECT_PGO"} BY DEF GuestAnswers
<1> QED BY <1>1, AnswersApplyChain, AnswersLinkChain, AnswersReadChain, AnswersCollectChain

(* Every step of the model keeps the chain. *)
LEMMA ChainKept == ChainInv /\ [Next]_vars => ChainInv'
<1> SUFFICES ASSUME ChainInv, [Next]_vars PROVE ChainInv'
  OBVIOUS
<1>1. ASSUME NEW c \in Calls,
             \/ Initialize(c) \/ Start(c) \/ WriteFile(c) \/ SetInterfaceState(c) \/ ReadFile(c)
             \/ CollectPgoProfiles(c) \/ Stop(c) \/ Dispose(c) \/ InitFails(c)
      PROVE  ChainInv'
  BY <1>1, InitializeChain, StartChain, WriteFileChain, SetInterfaceStateChain, ReadChain,
     CollectChain, StopChain, DisposeChain, InitFailsChain
<1>2. ASSUME NEW c \in Calls, CallStep(c)
      PROVE  ChainInv'
  BY <1>2, InitLoadedChain, InitReadyChain, StartReadyChain, StartFailsChain, ApplyPendingChain,
     SendControlChain, SendRefusedChain, AcknowledgedChain, PendingAppliedChain, ReadBackChain,
     ReadAnsweredChain, CollectedChain, CollectEndsChain, RefusedChain, ControlTimeoutChain,
     StopEndsChain, DisposeEndsChain
     DEF CallStep
<1>3. ASSUME NEW r \in Rts,
             GuestReady(r) \/ GuestFailed(r) \/ GuestExit(r) \/ GuestAnswers(r) \/ GuestRefuses(r)
      PROVE  ChainInv'
  BY <1>3, GuestReadyChain, GuestFailedChain, GuestExitChain, GuestAnswersChain, GuestRefusesChain
<1>4. CASE UNCHANGED vars
  <2>1. calls' = calls /\ TailsKept /\ LinesKept /\ FilesKept
    BY <1>4 DEF vars, TailsKept, LinesKept, FilesKept
  <2>2. TypeOK' /\ BootOK' BY <1>4 DEF vars, ChainInv, TypeOK, BootOK
  <2> QED BY <2>1, <2>2, Beside
<1> QED BY <1>1, <1>2, <1>3, <1>4 DEF Next

(* Whatever the client overlaps, whatever the guest refuses and whichever   *)
(* timers fire, a readFile that answers gives contents the guest's file had *)
(* at some moment of the call.                                              *)
THEOREM ReadsAreFresh == Spec => []ReadIsFresh
<1>1. ChainInv => ReadIsFresh
  BY DEF ChainInv, ReadOK, ReadIsFresh, Calling
<1> QED BY InitChain, ChainKept, <1>1, PTL DEF Spec
====
