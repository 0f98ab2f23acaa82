---------------------------- MODULE BootRequests ----------------------------
(***************************************************************************)
(* How a project becomes boot requests of the shared machine: the analysis *)
(* that says whether it is eligible and the requests themselves            *)
(* (src/src/native/boot.ts), the guest's limits that both are held against *)
(* (src/src/appliances/v86/shared-guest-contract.ts), and the bootstrap    *)
(* archive they end up in (shared-bootstrap.ts and tar.ts).                *)
(*                                                                         *)
(* The documents are those of module Projects.  Text is measured by its    *)
(* length, an argument is the number of its bytes, a MAC address a number  *)
(* (0: none, -1: malformed), an address a record whose text is canonical.  *)
(***************************************************************************)
EXTENDS Projects

CONSTANTS
  Limits,           (* SHARED_GUEST_LIMITS                                   *)
  Block,            (* TAR_BLOCK_BYTES                                       *)
  Generated(_, _),  (* generatedMac of an interface's key and a salt         *)
  Multicast,        (* MAC addresses that are not unicast                    *)
  BadNames,         (* interface names that Linux does not take              *)
  TakenNames,       (* isLinuxInterfaceName: "lo", "labtrunk0", ".", ".."     *)
  ReservedPaths,    (* RESERVED_GUEST_PATHS                                  *)
  Vlans,            (* SHARED_LAB_VLAN_BASE and SHARED_LAB_VLAN_MAX          *)
  WrapperBytes,     (* the size of FRR_WRAPPER_SOURCE                        *)
  DaemonsBytes,     (* the size of DEFAULT_FRR_DAEMONS                       *)
  Runtimes          (* the registered runtimes, in compareFactories' order   *)

BirdConfigs == << <<"etc", "bird", "bird.conf">>, <<"etc", "bird.conf">> >>
FrrConfig == <<"etc", "frr", "frr.conf">>
FrrDaemons == <<"etc", "frr", "daemons">>
FrrWrapperPath == <<"run", "anycastlab", "frr-entrypoint.sh">>
Bird == <<"usr", "sbin", "bird">>
ShellPath == <<"bin", "sh">>

Positions(s, Test(_)) == { i \in DOMAIN s : Test(s[i]) }
Digits(n) == Len(ToString(n))

-----------------------------------------------------------------------------
(* The node of a boot request.                                                *)

(* runtimeKindForNode                                                         *)
RuntimeKind(node) ==
  CASE node.kind = "switch" -> "none"
    [] node.kind \in {"client", "service"} -> "client"
    [] node.kind \notin {"switch", "client", "service"} ->
         IF node.appliance \in {"bird", "frr"} THEN node.appliance ELSE "none"

Guests(project) == SelectSeq(project.nodes, LAMBDA n : n.kind # "switch")
Paths(node) == ToSet(Field(node.files, "path"))

(* selectConfig: the file asked for, the one that is marked, or a usual one.  *)
SelectConfig(node, fallbacks) ==
  LET marked == SelectSeq(node.files, LAMBDA f : f.entry)
      found == SelectSeq(fallbacks, LAMBDA p : p \in Paths(node))
  IN  IF node.entrypoint # Nowhere
      THEN IF node.entrypoint \in Paths(node) THEN node.entrypoint ELSE Nowhere
      ELSE IF marked # <<>> THEN Head(marked).path
      ELSE IF found # <<>> THEN Head(found) ELSE Nowhere

(* linuxHostname.  A name is the sequence of "x" and "-" that its slug is; a  *)
(* node without one is named after its id, which has letters only.            *)
Hostname(node) ==
  LET letters == Positions(node.name, LAMBDA c : c # "-")
      Least(S) == CHOOSE i \in S : \A j \in S : i <= j
      Most(S) == CHOOSE i \in S : \A j \in S : j <= i
      slug == IF letters = {} THEN [i \in 1 .. Len(node.id) |-> "x"]
              ELSE SubSeq(node.name, Least(letters), Most(letters))
  IN  SubSeq(slug, 1, IF Len(slug) < Limits.hostname THEN Len(slug) ELSE Limits.hostname)

(* The interfaces of a project, in the order in which they get addresses.     *)
Endpoints(project) == FlattenSeq(Map(LAMBDA n :
  Map(LAMBDA i : [key |-> <<n.id, i.id>>, mac |-> i.mac], n.interfaces), project.nodes))

(* The first generated address that is not used.                              *)
FreeMac(key, used) ==
  LET salts == { s \in 0 .. Cardinality(used) : Generated(key, s) \notin used }
  IN  Generated(key, CHOOSE s \in salts : \A t \in salts : s <= t)

(* allocateMacAddresses: an address of the project's own that is malformed or *)
(* used already, by an interface before it, is -1 here and fails the request. *)
Macs(project) ==
  FoldLeft(LAMBDA macs, e : Append(macs,
             IF e.mac = 0 THEN FreeMac(e.key, ToSet(macs))
             ELSE IF e.mac \in ToSet(macs) THEN -1 ELSE e.mac),
           <<>>, Endpoints(project))

MacOf(project, key) ==
  Macs(project)[CHOOSE e \in DOMAIN Endpoints(project) : Endpoints(project)[e].key = key]

(* The addresses of interface i: those of a service go to its first one.      *)
AddressesOf(node, i) ==
  FoldLeft(LAMBDA all, a : IF a \in ToSet(all) THEN all ELSE Append(all, a),
           node.interfaces[i].addresses,
           IF node.kind = "service" /\ i = 1 THEN node.service ELSE <<>>)

Interfaces(project, node) ==
  [i \in DOMAIN node.interfaces |->
     LET n == node.interfaces[i] IN
     [id |-> n.id, name |-> n.name, mac |-> MacOf(project, <<node.id, n.id>>),
      mtu |-> IF n.mtu = 0 THEN 1500 ELSE n.mtu, up |-> n.up /\ node.up,
      addresses |-> AddressesOf(node, i)]]

(* clientStartupScript: a default route for each gateway, then a loop.        *)
GatewayOf(node, i) ==
  IF node.interfaces[i].gateway # "none" THEN node.interfaces[i].gateway
  ELSE IF i = 1 THEN node.gateway ELSE "none"

ScriptBytes(node) ==
  LET routes == { i \in DOMAIN node.interfaces :
                    /\ GatewayOf(node, i) # "none"
                    /\ \A j \in 1 .. i - 1 : GatewayOf(node, j) # GatewayOf(node, i) }
      Line(i) == Len("ip route replace default via '' dev ''") + Len(GatewayOf(node, i))
                   + Len(node.interfaces[i].name) + 1
  IN  Len("set -eu") + 1 + FoldFunction(+, 0, [i \in routes |-> Line(i)])
        + Len("while :; do sleep 3600; done")

(* toApplianceFile                                                            *)
GuestFiles(node) == [f \in DOMAIN node.files |->
  [path |-> node.files[f].path, bytes |-> node.files[f].content.value]]

FrrFiles(node) ==
  GuestFiles(node)
    \o (IF FrrDaemons \in Paths(node) THEN <<>> ELSE <<[path |-> FrrDaemons, bytes |-> DaemonsBytes]>>)
    \o <<[path |-> FrrWrapperPath, bytes |-> WrapperBytes]>>

(* What a node needs besides its interfaces.                                  *)
Configured(node) ==
  CASE RuntimeKind(node) = "bird" -> SelectConfig(node, BirdConfigs) # Nowhere
    [] RuntimeKind(node) = "frr" ->
         SelectConfig(node, <<FrrConfig>>) = FrrConfig /\ FrrWrapperPath \notin Paths(node)
    [] RuntimeKind(node) = "client" ->
         \A i \in DOMAIN node.interfaces : GatewayOf(node, i) # "bad"
    [] RuntimeKind(node) = "none" -> FALSE

(* buildNativeBootRequest: whether it throws, and what it makes.              *)
Builds(project, node) ==
  /\ Configured(node)
  /\ -1 \notin ToSet(Macs(project))
  /\ \A i \in DOMAIN node.interfaces : \A a \in ToSet(AddressesOf(node, i)) : a.length >= 0

Request(project, node) ==
  LET kind == RuntimeKind(node)
  IN  [kind |-> kind, nodeId |-> node.id, hostname |-> Hostname(node),
       entrypoint |-> CASE kind = "bird" -> Bird [] kind = "frr" -> FrrWrapperPath [] kind = "client" -> ShellPath,
       argv |-> CASE kind = "bird" -> <<Len("-f"), Len("-c"), PathBytes(SelectConfig(node, BirdConfigs))>>
                  [] kind = "frr" -> <<>>
                  [] kind = "client" -> <<Len("-c"), ScriptBytes(node)>>,
       env |-> <<[name |-> "ANYCAST_LAB_NODE_ID", bytes |-> Len(node.id)],
                 [name |-> "ANYCAST_LAB_PROJECT_ID", bytes |-> Len(project.id)]>>,
       interfaces |-> Interfaces(project, node),
       files |-> IF kind = "frr" THEN FrrFiles(node) ELSE GuestFiles(node)]

-----------------------------------------------------------------------------
(* Sizes.  Every size that the browser predicts is computed a second time     *)
(* from the parts of what is really written.                                  *)

TarEntryBytes(payload) == Block + Block * ((payload + Block - 1) \div Block)
TokenBytes(bytes) == IF bytes = 0 THEN 1 ELSE 4 * ((bytes + 2) \div 3)

(* serializedNodeConfigBytes, for a slot and the VLANs of the interfaces.     *)
NodeConfigBytes(r, slot, vlans) ==
  LET Argument(a) == 4 + TokenBytes(a) + 1
      Variable(v) == 4 + Len(v.name) + 1 + TokenBytes(v.bytes) + 1
      Address(i, a) == 8 + TokenBytes(Len(i.id)) + 1 + Len(a.text) + 1 + Digits(a.length) + 1
      Interface(n) == LET i == r.interfaces[n] IN
        10 + Digits(vlans[n]) + 1 + TokenBytes(Len(i.id)) + 1 + TokenBytes(Len(i.name)) + 1
           + 17 + 1 + Digits(i.mtu) + 1 + (IF i.up THEN 2 ELSE 4) + 1
           + Total(Map(LAMBDA a : Address(i, a), i.addresses))
  IN  Len("ANYCASTLAB_NODE/1") + 1
        + 5 + Digits(slot) + 1 + Len(r.kind) + 1
        + TokenBytes(Len(r.nodeId)) + 1 + TokenBytes(Len(r.hostname)) + 1
        + 11 + TokenBytes(PathBytes(r.entrypoint)) + 1
        + Total(Map(Argument, r.argv)) + Total(Map(Variable, r.env))
        + Total([n \in DOMAIN r.interfaces |-> Interface(n)])

(* serializeNode: lines of tokens, of which the lengths are left.             *)
NodeLines(r, slot, vlans) ==
  LET Interface(n) == LET i == r.interfaces[n] IN
        <<Len("interface"), Digits(vlans[n]), TokenBytes(Len(i.id)), TokenBytes(Len(i.name)),
          17, Digits(i.mtu), IF i.up THEN Len("up") ELSE Len("down")>>
      Address(i, a) == <<Len("address"), TokenBytes(Len(i.id)), Len(a.text), Digits(a.length)>>
  IN  << <<Len("ANYCASTLAB_NODE/1")>>,
         <<Len("node"), Digits(slot), Len(r.kind), TokenBytes(Len(r.nodeId)), TokenBytes(Len(r.hostname))>>,
         <<Len("entrypoint"), TokenBytes(PathBytes(r.entrypoint))>> >>
      \o Map(LAMBDA a : <<Len("arg"), TokenBytes(a)>>, r.argv)
      \o Map(LAMBDA v : <<Len("env"), Len(v.name), TokenBytes(v.bytes)>>, r.env)
      \o FlattenSeq([n \in DOMAIN r.interfaces |->
           <<Interface(n)>> \o Map(LAMBDA a : Address(r.interfaces[n], a), r.interfaces[n].addresses)])

SerializedBytes(r, slot, vlans) == Total(Map(LAMBDA line : Total(line) + Len(line), NodeLines(r, slot, vlans)))

Parents(path) == { SubSeq(path, 1, k) : k \in 1 .. Len(path) - 1 }
Directories(files) == UNION { Parents(f.path) : f \in ToSet(files) }

(* measureUstarArchive, and what inspectRootArchive measures.                 *)
Envelope(files) ==
  [bytes |-> 2 * Block + Total(Map(LAMBDA f : TarEntryBytes(f.bytes), files))
               + Block * Cardinality(Directories(files)),
   payload |-> Total(Field(files, "bytes")),
   entries |-> Len(files) + Cardinality(Directories(files))]

(* fitsUstarPath                                                              *)
FitsUstar(path) ==
  \/ PathBytes(path) - 1 <= Limits.tarName
  \/ \E k \in 1 .. Len(path) - 1 :
       /\ PathBytes(SubSeq(path, 1, k)) - 1 <= Limits.tarPrefix
       /\ PathBytes(SubSeq(path, k + 1, Len(path))) - 1 <= Limits.tarName

(* splitUstarPath of an entry, where a directory ends in a slash.             *)
FitsUstarEntry(path, directory) ==
  LET slash == IF directory THEN 1 ELSE 0 IN
  \/ PathBytes(path) - 1 + slash <= Limits.tarName
  \/ \E k \in 1 .. Len(path) - 1 + slash :
       /\ PathBytes(SubSeq(path, 1, k)) - 1 <= Limits.tarPrefix
       /\ PathBytes(SubSeq(path, k + 1, Len(path))) - 1 + slash <= Limits.tarName

(* createUstarArchive: the directories and the files, each with its blocks.   *)
UstarArchive(files) ==
  [directories |-> Directories(files), files |-> files,
   bytes |-> Block * (Cardinality(Directories(files)) + 2
               + Total(Map(LAMBDA f : 1 + (f.bytes + Block - 1) \div Block, files)))]

(* Mutant: the directory of each node is forgotten.                           *)
BootstrapEnvelopeFlat(metrics) ==
  LET count == Digits(Len(metrics)) + 1
      directories == 4
  IN  [bytes |-> directories * Block + 2 * Block + TarEntryBytes(count)
         + Total(Map(LAMBDA m : TarEntryBytes(m.config) + TarEntryBytes(m.root.bytes), metrics)),
       payload |-> count + Total(Map(LAMBDA m : m.config + m.root.bytes, metrics)),
       entries |-> directories + 2 * Len(metrics) + 1]

(* inspectSharedBootstrapArchive, from the metrics of the nodes.              *)
BootstrapEnvelope(metrics) ==
  LET count == Digits(Len(metrics)) + 1
      directories == 4 + Len(metrics)
  IN  [bytes |-> directories * Block + 2 * Block + TarEntryBytes(count)
         + Total(Map(LAMBDA m : TarEntryBytes(m.config) + TarEntryBytes(m.root.bytes), metrics)),
       payload |-> count + Total(Map(LAMBDA m : m.config + m.root.bytes, metrics)),
       entries |-> directories + 2 * Len(metrics) + 1]

(* What seal() puts in the archive.                                           *)
BootstrapFiles(nodes) ==
  LET Directory(s) == <<"run", "anycastlab", "bootstrap", "nodes", ToString(s)>>
  IN  FlattenSeq([s \in DOMAIN nodes |->
        <<[path |-> Append(Directory(s), "node.conf"),
           bytes |-> SerializedBytes(nodes[s].request, s, nodes[s].vlans)],
          [path |-> Append(Directory(s), "root.tar"),
           bytes |-> UstarArchive(nodes[s].request.files).bytes]>>])
      \o <<[path |-> <<"run", "anycastlab", "bootstrap", "node-count">>,
            bytes |-> Digits(Len(nodes)) + 1]>>

-----------------------------------------------------------------------------
(* The guest's limits.                                                        *)

DecodedBytes(r) ==
  Total(<<Len(r.nodeId), Len(r.hostname), PathBytes(r.entrypoint)>>) + 3
    + Total(r.argv) + Len(r.argv) + Total(Field(r.env, "bytes")) + Len(r.env)
    + Total(Map(LAMBDA i : Len(i.id) + Len(i.name) + 2, r.interfaces))

BadText(r) ==
  \/ Len(r.nodeId) > Limits.nodeId
  \/ Len(r.hostname) > Limits.hostname \/ r.hostname = <<>>
  \/ r.hostname[1] = "-" \/ r.hostname[Len(r.hostname)] = "-"
  \/ PathBytes(r.entrypoint) > Limits.entrypoint
  \/ Len(r.argv) > Limits.arguments \/ \E a \in ToSet(r.argv) : a > Limits.argument
  \/ \E v \in ToSet(r.env) : v.bytes > Limits.environmentValue

BadInterfaces(r) ==
  \/ Len(r.interfaces) > Limits.interfaces
  \/ Total(Map(LAMBDA i : Len(i.addresses), r.interfaces)) > Limits.addresses
  \/ ~Distinct(Field(r.interfaces, "id")) \/ ~Distinct(Field(r.interfaces, "name"))
  \/ ~Distinct(Field(r.interfaces, "mac"))
  \/ \E i \in ToSet(r.interfaces) :
       \/ i.name \in BadNames \cup TakenNames \/ Len(i.id) > Limits.interfaceId
       \/ i.mac \in Multicast
       \/ i.mtu \notin Limits.minimumMtu .. Limits.maximumMtu

BadFiles(files) ==
  LET all == Envelope(files) IN
  \/ all.payload > Limits.rootPayload \/ all.entries > Limits.rootEntries
  \/ all.bytes > Limits.rootBytes
  \/ ~Distinct(Field(files, "path"))
  \/ \E f \in ToSet(files) :
       \/ f.bytes > Limits.file \/ ~IsWritable(f.path) \/ ~FitsUstar(f.path)
       \/ \E k \in 1 .. Len(f.path) : SubSeq(f.path, 1, k) \in ReservedPaths

(* inspectSharedGuestBootRequest, for what is known of slot and VLANs.        *)
Metrics(r, slot, vlans) == [config |-> NodeConfigBytes(r, slot, vlans), root |-> Envelope(r.files)]

Violates(r, slot, vlans) ==
  \/ BadText(r) \/ BadInterfaces(r) \/ BadFiles(r.files)
  \/ DecodedBytes(r) > Limits.decoded \/ NodeConfigBytes(r, slot, vlans) > Limits.config

(* validateSharedBootstrapEnvelope                                            *)
TooLarge(all) ==
  \/ all.payload > Limits.bootstrapPayload \/ all.entries > Limits.bootstrapEntries
  \/ all.bytes > Limits.bootstrapBytes

(* validateV86BootRequest gives no slot, no VLANs and no kind, for which the  *)
(* inspector takes the longest: the last slot and VLAN, and "client".         *)
Rejected(r) == Violates([r EXCEPT !.kind = "client"], Limits.nodes,
                        [n \in DOMAIN r.interfaces |-> Vlans[2]])

-----------------------------------------------------------------------------
(* The analysis.                                                              *)

(* ApplianceRuntimeRegistry.resolve: the first native runtime of the kind     *)
(* and, but for clients, of the version.                                      *)
Matching(node) == SelectSeq(Runtimes, LAMBDA f :
  /\ f.kind = RuntimeKind(node) /\ f.native
  /\ RuntimeKind(node) = "client" \/ node.version = "any" \/ f.version = node.version)

HasRuntime(node) == Matching(node) # <<>> /\ Head(Matching(node)).complete

(* The slot and the VLANs that each guest will get.                           *)
SlotOf(project, node) == CHOOSE s \in DOMAIN Guests(project) : Guests(project)[s] = node
VlansOf(project, node) ==
  LET before == SubSeq(Guests(project), 1, SlotOf(project, node) - 1)
      first == Vlans[1] + Total(Map(LAMBDA n : Len(n.interfaces), before))
  IN  [i \in DOMAIN node.interfaces |-> first + i - 1]

Alone(project, node) == [project EXCEPT !.nodes = <<node>>]
AloneRequest(project, node) == Request(Alone(project, node), node)

(* The explicit addresses, which are compared over the whole project.         *)
OwnMacs(project) == SelectSeq(Field(Endpoints(project), "mac"), LAMBDA m : m # 0)

(* The diagnostics of one node that are errors.                               *)
NodeErrs(project, node) ==
  \/ node.kind # "switch" /\ (RuntimeKind(node) = "none" \/ node.runtime # "wasm")
  \/ node.kind = "switch" /\ node.appliance # "switch"
  \/ ~Distinct(Field(node.interfaces, "name"))
  \/ \E i \in ToSet(node.interfaces) :
       i.name \in BadNames \/ i.mac = -1 \/ \E a \in ToSet(i.addresses) : a.length < 0
  \/ RuntimeKind(node) # "none" /\ ~Configured(node)
  \/ node.kind = "service" /\ node.interfaces = <<>> /\ node.service # <<>>

GuestErrs(project, node) ==
  IF ~Builds(Alone(project, node), node) THEN TRUE
  ELSE \/ Violates(AloneRequest(project, node), SlotOf(project, node), VlansOf(project, node))
       \/ ~HasRuntime(node)

LinkErrs(project) ==
  \/ ~Distinct(Ends(project))
  \/ ~(ToSet(Ends(project)) \subseteq ToSet(Field(Endpoints(project), "key")))

AnalysedBootstrap(project) ==
  BootstrapEnvelope(Map(LAMBDA n :
    Metrics(AloneRequest(project, n), SlotOf(project, n), VlansOf(project, n)), Guests(project)))

(* Mutant: each node is analysed for itself.                                  *)
EligibleAlone(project) ==
  /\ Len(Guests(project)) <= Limits.nodes
  /\ \A n \in ToSet(project.nodes) : ~NodeErrs(project, n)
  /\ \A n \in ToSet(Guests(project)) : ~GuestErrs(project, n)
  /\ ~LinkErrs(project)
  /\ ~TooLarge(AnalysedBootstrap(project))

(* analyzeNativeProject                                                       *)
Eligible(project) ==
  /\ Len(Guests(project)) <= Limits.nodes
  /\ \A n \in ToSet(project.nodes) : ~NodeErrs(project, n)
  /\ Distinct(OwnMacs(project))
  /\ \A n \in ToSet(Guests(project)) : ~GuestErrs(project, n)
  /\ ~LinkErrs(project)
  /\ ~TooLarge(AnalysedBootstrap(project))
=============================================================================
