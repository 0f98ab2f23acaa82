---------------------------- MODULE ArtifactsMC ----------------------------
EXTENDS Artifacts

-----------------------------------------------------------------------------
(* Manifests: a good one, and others that differ in one place.                *)
Entry1(id) == [id |-> id, file |-> "fixed", size |-> "right", sha256 |-> "this"]
Digests(d) == <<d, d, d>>
Pgo(mode, profiles) == [mode |-> mode, context |-> "this", profiles |-> profiles]
Good(ids) ==
  [pins |-> [p \in Pins |-> "pinned"], pgo |-> Pgo("use", Digests("this")),
   machine |-> [model |-> "shared-namespaces", memory |-> 512, vga |-> 8, trunkMtu |-> 1504],
   filesystem |-> CreateFilesystemMetadata, artifacts |-> [i \in DOMAIN ids |-> Entry1(ids[i])]]

Two == Good(<<"bios", "bzimage">>)

Pgos == { Pgo(mode, Digests(d)) : mode \in {"none", "generate", "use", "unknown"},
                                  d \in {"none", "this", "malformed"} }
        \cup { Pgo(mode, <<"this", "this", "none">>) : mode \in {"none", "use"} }
        \cup { [Pgo("use", Digests("this")) EXCEPT !.context = "malformed"] }
Machines ==
  LET m == Two.machine
  IN  { [m EXCEPT !.memory = n] : n \in {0, 3} } \cup { [m EXCEPT !.vga = n] : n \in {0, 6} }
      \cup { [m EXCEPT !.trunkMtu = n] : n \in {1500, 1503, 65535, 65536} }
      \cup { [m EXCEPT !.model = "other"] }
ArtifactLists ==
  LET a == Two.artifacts
  IN  {<<>>, <<a[1]>>, <<a[1], a[1]>>, <<a[2], a[1]>>, Append(a, a[2]), Append(a, Entry1("other"))}
      \cup { [a EXCEPT ![1].file = f] : f \in {"safe", "unsafe"} }
      \cup { [a EXCEPT ![2].size = s] : s \in {"wrong", "invalid"} }
      \cup { [a EXCEPT ![2].sha256 = d] : d \in {"other", "malformed"} }
Readdressed(layer, d) == [layer EXCEPT !.sha256 = d, !.object = d, !.cacheKey = d]
LayerEdits(f, i) ==
  { [f EXCEPT !.layers[i].of.order = @ + 1], [f EXCEPT !.layers[i].of.after = {"base", "frr"}],
    [f EXCEPT !.layers[i].of.boot = ~@], [f EXCEPT !.layers[i].sha256 = "other"],
    [f EXCEPT !.layers[i] = Readdressed(@, "other")],
    [f EXCEPT !.layers[i] = Readdressed(@, "malformed")],
    [f EXCEPT !.layers[i].object = "other"], [f EXCEPT !.layers[i].cacheKey = "other"],
    [f EXCEPT !.layers[i].size = "wrong"], [f EXCEPT !.layers[i].size = "invalid"] }
Rekeyed(f) == [f EXCEPT !.key = CacheKey(f.layers)]
Filesystems ==
  LET f == Two.filesystem
      swapped == [f EXCEPT !.layers = <<@[1], @[3], @[2], @[4], @[5]>>]
      edits == LayerEdits(f, 1) \cup LayerEdits(f, 3)
               \cup {swapped, [f EXCEPT !.layers = SubSeq(@, 1, 4)]}
  IN  edits \cup { Rekeyed(e) : e \in edits }
      \cup { [f EXCEPT !.layout = l] : l \in {"absent", "other"} }
      \cup { [f EXCEPT !.namespace = "other"], [f EXCEPT !.key = <<>>] }
Manifests ==
  {Two} \cup { [Two EXCEPT !.pins[p] = v] : p \in Pins, v \in {"other", "malformed"} }
  \cup { [Two EXCEPT !.pgo = g] : g \in Pgos } \cup { [Two EXCEPT !.machine = m] : m \in Machines }
  \cup { [Two EXCEPT !.artifacts = a] : a \in ArtifactLists }
  \cup { [Two EXCEPT !.filesystem = f] : f \in Filesystems }

-----------------------------------------------------------------------------
(* Releases: a manifest laid out on the site, published elsewhere with all of *)
(* the checks or put there without them, and odd settings and statuses.       *)
Of(m) == [present |-> TRUE, recorded |-> "this", manifest |-> m]
Named1(to) == Url(to, "https", FALSE, FALSE)
Status == Named1("status")
LocalRelease(m) ==
  [mode |-> "auto", pointer |-> NoUrl, requireNative |-> FALSE, checked |-> FALSE,
   document |-> NoDocument, bundle |-> Of(m)]
Raw(m, to) ==
  [LocalRelease(m) EXCEPT !.pointer = Status, !.document = CreateReleaseStatus(Of(m), Named1(to), TRUE)]
Published(m) == [Raw(m, "objects") EXCEPT !.checked = TRUE]

Urls(to) == {NoUrl, Named1(to), Url(to, "http", TRUE, FALSE), Url(to, "http", FALSE, FALSE),
             Url(to, "https", FALSE, TRUE)}
Settings ==
  { [Published(Two) EXCEPT !.mode = mode, !.pointer = url, !.requireNative = needed,
                           !.bundle.present = here] :
      mode \in {"auto", "external", "local", "disabled"}, url \in Urls("status"),
      needed \in BOOLEAN, here \in BOOLEAN }
  \cup { [r EXCEPT !.bundle.recorded = d] :
           r \in {LocalRelease(Two), Published(Two)}, d \in {"other", "malformed"} }
Documents(d) ==
  { [d EXCEPT !.served = s] : s \in {"missing", "html"} } \cup { [d EXCEPT !.schema = 2] }
  \cup { [d EXCEPT !.native = n] : n \in {"no", "missing"} } \cup { [d EXCEPT !.pointer = Status] }
  \cup { [d EXCEPT !.manifest = u] :
           u \in UNION { Urls(to) : to \in {"objects", "named", "plain"} } }
  \cup { [d EXCEPT !.sha256 = s] : s \in {"other", "malformed"} }
  \cup { [d EXCEPT !.build = b] : b \in {"other", "missing"} }
  \cup { [d EXCEPT !.memory = n] : n \in {0, 256} } \cup { [d EXCEPT !.described = FALSE] }
Releases ==
  { LocalRelease(m) : m \in Manifests } \cup { Published(m) : m \in Manifests }
  \cup { Raw(m, to) : m \in Manifests, to \in {"objects", "plain"} } \cup Settings
  \cup { [r EXCEPT !.document = d] : r \in {Published(Two), Raw(Two, "objects")},
                                     d \in Documents(Published(Two).document) }

-----------------------------------------------------------------------------
(* Contents of up to two blocks and a byte, in three chunks, of which some    *)
(* are empty, or byte by byte.                                                *)
Stream(n, ends) == [bytes |-> [i \in 1 .. n |-> i], ends |-> ends]
TestStreams ==
  { Stream(c[1], <<c[2], c[3], c[1]>>) :
      c \in { c \in (1 .. 9) \X (0 .. 9) \X (0 .. 9) : c[2] <= c[3] /\ c[3] <= c[1] } }
  \cup { Stream(n, [i \in 1 .. n |-> i]) : n \in 1 .. 9 }

(* What the theorems about the loading of these streams suppose.              *)
ASSUME TestStreamsTold == StreamsTold

(* One page with two machines that are prepared, or two pages; there is a     *)
(* failure or a page is closed.                                               *)
Plan(pages, calls, failures, closes, how) ==
  [pages |-> pages, callers |-> calls, regular |-> {"bios"}, failures |-> failures,
   closes |-> closes, cache |-> how, release |-> LocalRelease(Good(<<"bios">>)), upgrades |-> FALSE,
   kept |-> {"none", "short", "wrong", "whole"}, stream |-> Stream(1, <<1>>)]
Alone(how, failures) == Plan({"a"}, {1, 2}, failures, 1 - failures, how)
Both(how, failures) ==
  [Plan({"a", "b"}, {1}, failures, 1 - failures, how) EXCEPT !.kept = {"none", "wrong", "whole"}]

(* One machine: every stream, every release, and a build that is laid out     *)
(* over that of the page.                                                     *)
Once(how) == [Plan({"a"}, {1}, 0, 0, how) EXCEPT !.kept = {"none"}]
ChunkPlans == { [Once("move") EXCEPT !.failures = 1, !.stream = s] : s \in TestStreams }
ReleasePlans ==
  { [Once("none") EXCEPT !.regular = {"bios", "bzimage"}, !.release = r] : r \in Releases }
UpgradePlans ==
  { [Once(how) EXCEPT !.upgrades = TRUE, !.release = r, !.failures = 1] :
      how \in {"none", "move"},
      r \in {LocalRelease(Good(<<"bios">>)), Published(Good(<<"bios">>))} }

TestPlans ==
  { Alone(how, failures) : how \in {"move", "copy", "none"}, failures \in {0, 1} }
  \cup { Both(how, failures) : how \in {"move", "copy"}, failures \in {0, 1} }
  \cup ChunkPlans \cup ReleasePlans \cup UpgradePlans
=============================================================================
