------------------------------- MODULE Release -------------------------------
(***************************************************************************)
(* How a guest image comes to the browser.  The scripts of the release     *)
(* verify the bundle that was built (verify-manifest.mjs,                  *)
(* filesystem-layout.mjs), describe it (release-status.mjs) and lay it out *)
(* for the site (sync-native-artifacts.mjs); the page reads the site's     *)
(* status (src/src/app/native-runtime.ts) and then the manifest            *)
(* (src/src/appliances/v86/manifest.ts).  Both sides check on their own.   *)
(*                                                                         *)
(* A digest is "this", that of the bytes it goes with, "other", or         *)
(* "malformed"; a pinned field is "pinned", "other" or "malformed".  A     *)
(* place is where a manifest lies, with its artifacts beside it: "runtime" *)
(* on the site itself, "objects" under its own digest on another origin,   *)
(* with the filesystems as "blobs" under theirs, "named" after its digest  *)
(* in another way, "plain" elsewhere.                                      *)
(***************************************************************************)
EXTENDS Integers, Sequences, FiniteSets

IsDigest(d) == d \in {"this", "other"}
PowerOfTwo(n) == \E k \in 0 .. 12 : n = 2 ^ k

(* What the pinned versions are of.                                           *)
Pins == {"schemaVersion", "imageId", "buildId", "sourceDateEpoch", "buildroot", "buildroot.sha256",
         "v86", "daemons", "toolchain"}

(* The five filesystems: what each one is mounted upon, and in which order.   *)
Filesystem(id, boot, after, order) ==
  [id |-> id, boot |-> boot, after |-> after, order |-> order]

LayerContract == <<
  Filesystem("complete", TRUE, {}, 0), Filesystem("base", FALSE, {}, 0),
  Filesystem("bird", FALSE, {"base"}, 10), Filesystem("frr", FALSE, {"base"}, 20),
  Filesystem("toolbox", FALSE, {"base"}, 30)>>

Positions == 1 .. Len(LayerContract)

(* The projection of the layers that the identity of the set is a digest of.  *)
CacheKey(layers) ==
  [i \in DOMAIN layers |-> [of |-> layers[i].of, object |-> layers[i].object,
                            size |-> layers[i].size, sha256 |-> layers[i].sha256]]

-----------------------------------------------------------------------------
(* The scripts: filesystem-layout.mjs                                         *)

(* normalizedLayer: the contract, and a content address that is its own.      *)
NormalizedLayer(layer, definition) ==
  /\ layer.of = definition
  /\ IsDigest(layer.sha256) /\ layer.size # "invalid"
  /\ layer.object = layer.sha256 /\ layer.cacheKey = layer.sha256

(* createFilesystemMetadata, of files that have these digests.                *)
CreateFilesystemMetadata ==
  LET layers == [i \in Positions |-> [of |-> LayerContract[i], size |-> "right", sha256 |-> "this",
                                      object |-> "this", cacheKey |-> "this"]]
  IN  [layout |-> "pinned", layers |-> layers, namespace |-> "pinned", key |-> CacheKey(layers)]

ValidateFilesystemMetadata(f) ==
  /\ f.layout = "pinned" /\ f.namespace = "pinned"
  /\ Len(f.layers) = Len(LayerContract)
  /\ \A i \in Positions : NormalizedLayer(f.layers[i], LayerContract[i])
  /\ f.key = CacheKey(f.layers)

-----------------------------------------------------------------------------
(* The scripts: verify-manifest.mjs                                           *)

VerifyPgo(pgo) ==
  /\ pgo.mode \in {"none", "generate", "use"} /\ IsDigest(pgo.context)
  /\ \A i \in 1 .. 3 : IF pgo.mode = "use" THEN IsDigest(pgo.profiles[i])
                                           ELSE pgo.profiles[i] = "none"

VerifyMachine(machine) ==
  /\ machine.model = "shared-namespaces"
  /\ PowerOfTwo(machine.memory) /\ PowerOfTwo(machine.vga)
  /\ machine.trunkMtu \in 1504 .. 65535

(* Every artifact once, under its fixed name, with the bytes that it has.     *)
VerifyArtifacts(entries, required) ==
  /\ Len(entries) = Cardinality(required)
  /\ { entries[i].id : i \in DOMAIN entries } = required
  /\ \A i \in DOMAIN entries : /\ entries[i].file = "fixed"
                               /\ entries[i].size = "right" /\ entries[i].sha256 = "this"

VerifyFilesystem(f, needed) ==
  IF f.layout = "absent" THEN ~needed
  ELSE /\ ValidateFilesystemMetadata(f)
       /\ \A i \in Positions : f.layers[i].size = "right" /\ f.layers[i].sha256 = "this"

(* verifyV86ArtifactBundle, with the digest recorded beside the manifest.     *)
VerifyBundle(b, required, filesystem, pgoUse) ==
  LET m == b.manifest
  IN  /\ b.recorded = "this"
      /\ \A p \in Pins : m.pins[p] = "pinned"
      /\ VerifyPgo(m.pgo) /\ (pgoUse => m.pgo.mode = "use")
      /\ VerifyMachine(m.machine)
      /\ VerifyArtifacts(m.artifacts, required)
      /\ VerifyFilesystem(m.filesystem, filesystem)

-----------------------------------------------------------------------------
(* The scripts: release-status.mjs                                            *)

Url(to, scheme, loopback, secret) ==
  [to |-> to, scheme |-> scheme, loopback |-> loopback, secret |-> secret]
NoUrl == Url("none", "none", FALSE, FALSE)

NoDocument ==
  [served |-> "missing", schema |-> 1, native |-> "missing", pointer |-> NoUrl, manifest |-> NoUrl,
   sha256 |-> "malformed", build |-> "missing", memory |-> 0, described |-> FALSE]

(* A URL without secrets that is named after the digest it leads to.          *)
AssertManifestUrl(url) == url.scheme = "https" /\ ~url.secret /\ url.to \in {"objects", "named"}

CreateReleaseStatus(b, url, described) ==
  [NoDocument EXCEPT !.served = "json", !.native = "yes", !.manifest = url, !.sha256 = "this",
                     !.build = b.manifest.pins["buildId"], !.memory = b.manifest.machine.memory,
                     !.described = described]

(* What createReleaseStatus asks for before it writes that.                   *)
CreatesReleaseStatus(b, required, url, described) ==
  VerifyBundle(b, required, FALSE, FALSE) /\ AssertManifestUrl(url) /\ described

(* validateReleaseStatus, for the bundle and the URL at hand.                 *)
ValidateReleaseStatus(doc, b, required, url) ==
  /\ doc.schema = 1 /\ doc.native = "yes" /\ IsDigest(doc.sha256)
  /\ AssertManifestUrl(doc.manifest) /\ doc.build # "missing" /\ doc.memory > 0 /\ doc.described
  /\ CreatesReleaseStatus(b, required, url, doc.described)
  /\ doc = CreateReleaseStatus(b, url, doc.described)

(* publish-oci.sh: everything under its digest, and the status after that.    *)
ObjectsUrl == Url("objects", "https", FALSE, FALSE)
Publishes(r, required) ==
  VerifyBundle(r.bundle, required, TRUE, TRUE)
  /\ ValidateReleaseStatus(r.document, r.bundle, required, ObjectsUrl)

(* The other origin, as publish-oci.sh or something else has left it.         *)
Origin(r, required) ==
  IF r.checked /\ ~Publishes(r, required)
  THEN [document |-> NoDocument, places |-> {}]
  ELSE LET at == r.document.manifest.to
       IN  [document |-> r.document,
            places |-> ({at} \ {"none"}) \cup (IF at = "objects" THEN {"blobs"} ELSE {})]

-----------------------------------------------------------------------------
(* The scripts: sync-native-artifacts.mjs                                     *)

ParseExternalStatusUrl(url) == (url.scheme = "https" \/ url.loopback) /\ ~url.secret

NoNative == [NoDocument EXCEPT !.served = "json", !.native = "no"]
Pointer(url) == [NoDocument EXCEPT !.served = "json", !.native = "yes", !.pointer = url]
LocalStatus(b) ==
  [NoDocument EXCEPT !.served = "json", !.native = "yes", !.sha256 = "this",
                     !.build = b.manifest.pins["buildId"], !.memory = b.manifest.machine.memory]

External(r) == r.pointer.to # "none" /\ r.mode \in {"auto", "external"}
Local(r) == ~External(r) /\ r.mode \in {"auto", "local"} /\ r.bundle.present

(* A build that throws leaves the site as it was: without a runtime, here.    *)
SyncFails(r, required) ==
  CASE External(r) -> ~ParseExternalStatusUrl(r.pointer)
    [] Local(r) -> ~VerifyBundle(r.bundle, required, TRUE, FALSE)
    [] OTHER -> r.requireNative

(* What the scripts have verified and laid out for the page to find.          *)
Offered(r, required) ==
  /\ ~SyncFails(r, required)
  /\ Local(r) \/ (External(r) /\ r.checked /\ Publishes(r, required))

Synced(r, required) ==
  LET origin == Origin(r, required)
      status == CASE External(r) -> Pointer(r.pointer)
                  [] Local(r) -> LocalStatus(r.bundle)
                  [] OTHER -> NoNative
  IN  [status |-> IF SyncFails(r, required) THEN NoDocument ELSE status,
       places |-> origin.places
                  \cup (IF Local(r) /\ ~SyncFails(r, required) THEN {"runtime"} ELSE {}),
       origin |-> origin.document, offered |-> Offered(r, required), replaced |-> FALSE]

-----------------------------------------------------------------------------
(* The page: native-runtime.ts                                                *)

Checking == [state |-> "checking", at |-> "none", sha256 |-> "malformed"]
Unavailable == [Checking EXCEPT !.state = "no"]

RuntimeUrl(url) == url.to # "none" /\ (url.scheme = "https" \/ url.loopback) /\ ~url.secret

(* parseNativeRuntimeStatus; without a URL, the manifest is beside the status.*)
ParseNativeRuntimeStatus(doc) ==
  IF /\ doc.schema = 1 /\ doc.native = "yes"
     /\ IsDigest(doc.sha256) /\ doc.build = "pinned" /\ doc.memory > 0
     /\ doc.manifest.to # "none" => RuntimeUrl(doc.manifest)
  THEN [state |-> "yes", sha256 |-> doc.sha256,
        at |-> IF doc.manifest.to = "none" THEN "runtime" ELSE doc.manifest.to]
  ELSE Unavailable

(* loadNativeRuntimeAvailability: one pointer to another origin is followed.  *)
LoadNativeRuntimeAvailability(s) ==
  CASE s.status.served # "json" -> Unavailable
    [] s.status.pointer.to = "none" -> ParseNativeRuntimeStatus(s.status)
    [] OTHER ->
         IF /\ s.status.schema = 1 /\ s.status.native = "yes" /\ RuntimeUrl(s.status.pointer)
            /\ s.origin.served = "json" /\ s.origin.pointer.to = "none"
         THEN ParseNativeRuntimeStatus(s.origin)
         ELSE Unavailable

-----------------------------------------------------------------------------
(* The page: manifest.ts                                                      *)

ParseIdentity(pins) ==
  /\ \A p \in Pins \ {"sourceDateEpoch", "buildroot.sha256"} : pins[p] = "pinned"
  /\ pins["sourceDateEpoch"] # "malformed" /\ pins["buildroot.sha256"] # "malformed"

ParsePgo(pgo) ==
  /\ pgo.mode \in {"none", "generate", "use"} /\ IsDigest(pgo.context)
  /\ IF pgo.mode = "use" THEN \A i \in 1 .. 3 : IsDigest(pgo.profiles[i])
                         ELSE \A i \in 1 .. 3 : pgo.profiles[i] = "none"

ParseMachine(machine) ==
  /\ machine.model = "shared-namespaces"
  /\ PowerOfTwo(machine.memory) /\ PowerOfTwo(machine.vga)
  /\ machine.trunkMtu >= 1504 /\ machine.trunkMtu <= 65535

(* Every required id once and no other one, under a name that is safe.        *)
ParseArtifacts(entries, required) ==
  /\ \A i, j \in DOMAIN entries : entries[i].id = entries[j].id => i = j
  /\ { entries[i].id : i \in DOMAIN entries } = required
  /\ \A i \in DOMAIN entries : /\ entries[i].file \in {"fixed", "safe"}
                               /\ entries[i].size # "invalid" /\ IsDigest(entries[i].sha256)

ParseLayer(layer, contract) ==
  /\ layer.of = contract /\ layer.size # "invalid" /\ IsDigest(layer.sha256)
  /\ layer.object = layer.sha256 /\ layer.cacheKey = layer.sha256

ParseV86FilesystemManifest(f) ==
  /\ f.layout = "pinned" /\ Len(f.layers) = Len(LayerContract)
  /\ \A i \in Positions : ParseLayer(f.layers[i], LayerContract[i])
  /\ f.namespace = "pinned" /\ f.key = CacheKey(f.layers)

ParseV86ArtifactManifest(m, required) ==
  /\ ParseIdentity(m.pins) /\ ParsePgo(m.pgo) /\ ParseMachine(m.machine)
  /\ ParseV86FilesystemManifest(m.filesystem) /\ ParseArtifacts(m.artifacts, required)

(* filesystemLayerUrl: blobs have a place of their own on the other origin.   *)
FilesystemLayerUrl(at) == IF at = "objects" THEN "blobs" ELSE at

-----------------------------------------------------------------------------
(* v86 accepts the sizes, and the trunk carries a tag on a full frame.        *)
Fits(machine) ==
  PowerOfTwo(machine.memory) /\ PowerOfTwo(machine.vga) /\ machine.trunkMtu - 4 >= 1500

(* Where the manifest lists an artifact under its own digest.                 *)
Listed(m, id) == { i \in DOMAIN m.artifacts : m.artifacts[i].id = id /\ m.artifacts[i].sha256 = "this" }

(* No layer is mounted before what it lies upon, and each is what it is called.*)
Mountable(layers) ==
  \A i, j \in DOMAIN layers :
    /\ layers[i].object = layers[i].sha256
    /\ layers[i].of.id \in layers[j].of.after => layers[i].of.order < layers[j].of.order
    /\ layers[i].of.id = layers[j].of.id => i = j

(* An image that can be booted: every artifact is there once, and the machine *)
(* and the layers are as they have to be.                                     *)
Bootable(m, required) ==
  /\ Fits(m.machine)
  /\ \A id \in required : Cardinality(Listed(m, id)) = 1
  /\ Mountable(m.filesystem.layers)
=============================================================================
