----------------------------- MODULE Artifacts -----------------------------
(***************************************************************************)
(* The loading of the guest image: loadArtifacts in nativeRegistry         *)
(* (src/src/App.tsx), loadVerifiedV86Artifacts                             *)
(* (src/src/appliances/v86/manifest.ts) and the content-addressed cache    *)
(* that it fills (src/src/appliances/v86/artifact-cache.ts).  What the     *)
(* site offers and what the page makes of it is in Release, how contents   *)
(* are verified as they arrive in StreamingHash.                           *)
(*                                                                         *)
(* Pages of one origin share the directory `dir`: the file of every digest *)
(* is absent, "short" (not of its size), "wrong" (of its size, with other  *)
(* contents) or "whole".  A step ends at an await on the file system or    *)
(* the network, and other pages' steps fall between any two of them.  A    *)
(* File is a snapshot: it cannot be relied on once its entry has changed,  *)
(* and an entry with an open writer cannot be removed.                     *)
(***************************************************************************)
EXTENDS StreamingHash, Release

CONSTANTS
  Plans,       (* What may happen: the pages, their callers, the artifacts,  *)
               (* how a file is promoted ("move", "copy", or no cache), the  *)
               (* failures of disk and network, the pages closed, the        *)
               (* release, whether the site is replaced under the page, what *)
               (* the directory may hold, and how a file comes.              *)
  Pages, Callers, Regular,  (* All of the pages, callers and artifacts that   *)
               (* are read as a whole.                                       *)
  Streams,     (* The bytes of a file, and where their chunks end.           *)
  Layer,       (* The filesystem that the machine boots from.                *)
  MaxAttempts  (* Bound: loads of one page that overlap.                     *)

ASSUME ArtifactsAssumption ==
  /\ MaxAttempts \in Nat \ {0} /\ Layer \notin Regular
  /\ \A p \in Plans :
       /\ p.cache \in {"move", "copy", "none"} /\ p.stream \in Streams
       /\ p.pages \subseteq Pages /\ p.callers \subseteq Callers /\ p.regular \subseteq Regular
       /\ p.failures \in Nat /\ p.closes \in Nat
       /\ p.upgrades => p.closes = 0 /\ Cardinality(p.pages) = 1
       /\ IsFiniteSet(p.pages) /\ IsFiniteSet(p.callers)
       /\ p.kept \subseteq {"none", "short", "wrong", "whole"}
       /\ LET m == p.release.bundle.manifest
          IN  /\ m.machine.trunkMtu \in Int
              /\ DOMAIN m.filesystem.layers = 1 .. Len(m.filesystem.layers)
              /\ "whole" \in p.kept => \A i \in DOMAIN m.artifacts : m.artifacts[i].sha256 = "this"

VARIABLES
  plan,      (* the plan, which never changes                                *)
  site,      (* what the servers have                                        *)
  avail,     (* nativeAvailability of each page                              *)
  dir,       (* the files of the directory that have a digest for a name     *)
  partials,  (* the temporary files, except those that a closed page or a    *)
             (* writer that could not be had left for good                   *)
  fresh,     (* the Files whose entry has not changed                        *)
  verified,  (* #verified of each page                                       *)
  stores,    (* #stores: for each digest the attempt that stores it, or 0    *)
  work,      (* where loadCachedBlob is, for each attempt and artifact       *)
  load,      (* where each attempt to load everything is                     *)
  promise,   (* artifactPromise: an attempt, or 0                            *)
  callers,   (* what each caller waits for, Nothing, or Bundle               *)
  used       (* failures and closed pages so far                             *)

shared == <<dir, partials>>
page == <<load, promise, callers>>
net == <<plan, site, avail>>
vars == <<net, shared, fresh, verified, stores, work, page, used>>

Attempts == 1 .. MaxAttempts
Files == Regular \cup {Layer}
Nothing == 0
Bundle == -1
New == [at |-> "idle", body |-> "whole", file |-> "none"]
Settled == {"idle", "done", "failed"}

Fails(what) == used[what] < plan[what] /\ used' = [used EXCEPT ![what] = @ + 1]

(* The entry of d becomes c: earlier snapshots of it go stale.                *)
Entry(d, c) == dir' = [dir EXCEPT ![d] = c]
Stale(d) == { f \in fresh : f[3] # d }

(* A writer on the entry of d is open, somewhere.                             *)
Locked(d) == \E t \in Pages, a \in Attempts : work[t][a][d].at = "copying"

At(t, a, d, where) == work[t][a][d].at = where
Goes(t, a, d, where) == work' = [work EXCEPT ![t][a][d].at = where]

-----------------------------------------------------------------------------
(* What a file holds, and the chunks in which it arrives.                     *)
Bytes(s, file) ==
  IF file = "whole" THEN s.bytes ELSE [s.bytes EXCEPT ![Len(s.bytes)] = @ + 1]
Chunks(s, file) ==
  [i \in DOMAIN s.ends |->
     SubSeq(Bytes(s, file), IF i = 1 THEN 1 ELSE s.ends[i - 1] + 1, s.ends[i])]
Identity(s) == [sha256 |-> Sha256(s.bytes), size |-> Len(s.bytes)]

(* consumeVerifiedStream, of a stream that ends: for every file, whether it   *)
(* turns out to be the artifact that the manifest names.                      *)
ConsumeVerifiedStream ==
  [s \in Streams |->
     [file \in {"whole", "wrong"} |-> Sha256Stream(Chunks(s, file)) = Identity(s)]]
Verified(file) == ConsumeVerifiedStream[plan.stream][file]

(* A file of the right size with other contents is not taken for the artifact,*)
(* in whichever chunks it comes.                                              *)
StreamsTold == \A s \in Streams : Sha256Stream(Chunks(s, "wrong")) # Identity(s)

(* What the servers have for the artifact d of a page.                        *)
Manifest == plan.release.bundle.manifest
Named(d) == IF d = Layer THEN Manifest.filesystem.layers[1]
            ELSE CHOOSE e \in { Manifest.artifacts[i] : i \in DOMAIN Manifest.artifacts } : e.id = d
Place(t, d) == IF d = Layer THEN FilesystemLayerUrl(avail[t].at) ELSE avail[t].at
Served(t, d) ==
  IF Place(t, d) \notin site.places THEN "none"
  ELSE IF \/ site.replaced /\ Place(t, d) = "runtime"
          \/ Named(d).sha256 # "this" \/ Named(d).size # "right" THEN "wrong"
  ELSE "whole"

(* get(): a store in progress is awaited, or the directory is asked.          *)
Asked(t, d) ==
  [New EXCEPT !.at = IF plan.cache = "none" THEN "fetch"
                     ELSE IF stores[t][d] # 0 THEN "shared" ELSE "lookup"]

(* Those who wait for the attempts in A learn of it.                          *)
Told(t, A, what) ==
  callers' = [callers EXCEPT ![t] = [c \in Callers |-> IF @[c] \in A THEN what ELSE @[c]]]

(* Mutant: the promise of a load that failed is kept.                         *)
RejectKeeping(t, A) ==
  /\ load' = [load EXCEPT ![t] = [a \in Attempts |-> IF a \in A THEN "failed" ELSE @[a]]]
  /\ Told(t, A, Nothing)
  /\ UNCHANGED promise

(* Promise.all and its caller reject at the first failure; what else the      *)
(* attempt has begun goes on.                                                 *)
Reject(t, A) ==
  /\ load' = [load EXCEPT ![t] = [a \in Attempts |-> IF a \in A THEN "failed" ELSE @[a]]]
  /\ promise' = [promise EXCEPT ![t] = IF @ \in A THEN 0 ELSE @]
  /\ Told(t, A, Nothing)

Loading(t, S) == { a \in Attempts : load[t][a] \in {"regular", "layer"} /\ \E s \in S : s[1] = a }

(* The works in S, of the artifact d, fail.                                   *)
Failed(t, S) ==
  /\ work' = [work EXCEPT ![t] = [a \in Attempts |-> [d \in Files |->
                IF <<a, d>> \in S THEN [@[a][d] EXCEPT !.at = "failed"] ELSE @[a][d]]]]
  /\ Reject(t, Loading(t, S))

(* They have the File of d, or its bytes: a filesystem stays a File, the      *)
(* bytes of the others are read.                                              *)
Got(t, d, S, file) ==
  /\ work' = [work EXCEPT ![t] = [a \in Attempts |->
                IF <<a, d>> \in S
                THEN [@[a] EXCEPT ![d].at = IF d = Layer THEN "done" ELSE "read", ![d].file = file]
                ELSE @[a]]]
  /\ LET A == IF d = Layer THEN Loading(t, S) ELSE {}
     IN  /\ load' = [load EXCEPT ![t] = [a \in Attempts |-> IF a \in A THEN "loaded" ELSE @[a]]]
         /\ Told(t, A, Bundle)
  /\ UNCHANGED promise

-----------------------------------------------------------------------------
Init ==
  /\ plan \in Plans
  /\ \E r \in {plan.release} : site = Synced(r, plan.regular)
  /\ avail = [t \in Pages |-> Checking]
  /\ dir \in [Files -> plan.kept]
  /\ \A d \in Files : dir[d] # "none" => plan.cache # "none" /\ d \in plan.regular \cup {Layer}
  /\ partials = {} /\ fresh = {}
  /\ verified = [t \in Pages |-> {}]
  /\ stores = [t \in Pages |-> [d \in Files |-> 0]]
  /\ work = [t \in Pages |-> [a \in Attempts |-> [d \in Files |-> New]]]
  /\ load = [t \in Pages |-> [a \in Attempts |-> "idle"]]
  /\ promise = [t \in Pages |-> 0]
  /\ callers = [t \in Pages |-> [c \in Callers |-> Nothing]]
  /\ used = [failures |-> 0, closes |-> 0]

(* The status is read once in the life of a page.                             *)
StatusLoaded(t) ==
  /\ t \in plan.pages /\ avail[t].state = "checking"
  /\ avail' = [avail EXCEPT ![t] = LoadNativeRuntimeAvailability(site)]
  /\ UNCHANGED <<plan, site, shared, fresh, verified, stores, work, page, used>>

StatusFails(t) ==
  /\ t \in plan.pages /\ avail[t].state = "checking" /\ Fails("failures")
  /\ avail' = [avail EXCEPT ![t] = Unavailable]
  /\ UNCHANGED <<plan, site, shared, fresh, verified, stores, work, page>>

(* Another build is laid out where the one that the page knows of was.        *)
Upgrade ==
  /\ plan.upgrades /\ ~site.replaced /\ \A t \in plan.pages : avail[t].state # "checking"
  /\ site' = [site EXCEPT !.replaced = TRUE]
  /\ UNCHANGED <<plan, avail, shared, fresh, verified, stores, work, page, used>>

Free(t, a) ==
  load[t][a] \in {"idle", "failed"} /\ \A d \in Files : work[t][a][d].at \in Settled

Begin(t, c) ==
  \E a \in Attempts :
    /\ Free(t, a) /\ \A b \in 1 .. a - 1 : ~Free(t, b)
    /\ load' = [load EXCEPT ![t][a] = "manifest"]
    /\ work' = [work EXCEPT ![t][a] = [d \in Files |-> New]]
    /\ fresh' = { f \in fresh : <<f[1], f[2]>> # <<t, a>> }
    /\ promise' = [promise EXCEPT ![t] = a]
    /\ callers' = [callers EXCEPT ![t][c] = a]

(* Mutant: the promise is given up when only the filesystem is missing.       *)
LoadAfresh(t, c) ==
  /\ avail[t].state = "yes" /\ c \in plan.callers /\ callers[t][c] = Nothing
  /\ LET a == promise[t]
     IN  IF a # 0 /\ load[t][a] \in {"manifest", "regular"}
         THEN callers' = [callers EXCEPT ![t][c] = a] /\ UNCHANGED <<work, load, promise, fresh>>
         ELSE Begin(t, c)
  /\ UNCHANGED <<net, shared, verified, stores, used>>

(* loadArtifacts(): a machine is being prepared.                              *)
LoadArtifacts(t, c) ==
  /\ avail[t].state = "yes" /\ c \in plan.callers /\ callers[t][c] = Nothing
  /\ \/ /\ promise[t] # 0
        /\ callers' = [callers EXCEPT ![t][c] =
                         IF load[t][promise[t]] = "loaded" THEN Bundle ELSE promise[t]]
        /\ UNCHANGED <<work, load, promise, fresh>>
     \/ promise[t] = 0 /\ Begin(t, c)
  /\ UNCHANGED <<net, shared, verified, stores, used>>

(* loadVerifiedV86Artifacts(): the manifest, then its artifacts at once.      *)
ManifestLoaded(t, a) ==
  /\ load[t][a] = "manifest"
  /\ IF /\ avail[t].at \in site.places /\ ~(site.replaced /\ avail[t].at = "runtime")
        /\ avail[t].sha256 = "this" /\ ParseV86ArtifactManifest(Manifest, plan.regular)
     THEN /\ load' = [load EXCEPT ![t][a] = "regular"]
          /\ work' = [work EXCEPT ![t][a] =
                        [d \in Files |-> IF d \in plan.regular THEN Asked(t, d) ELSE New]]
          /\ UNCHANGED <<promise, callers>>
     ELSE Reject(t, {a}) /\ UNCHANGED work
  /\ UNCHANGED <<net, shared, fresh, verified, stores, used>>

ManifestFails(t, a) ==
  /\ load[t][a] = "manifest" /\ Fails("failures")
  /\ Reject(t, {a})
  /\ UNCHANGED <<net, shared, fresh, verified, stores, work>>

(* The bytes of a regular artifact are read; after the last one the           *)
(* filesystem is asked for.                                                   *)
ReadBlob(t, a, d) ==
  /\ At(t, a, d, "read")
  /\ LET last == load[t][a] = "regular"
                 /\ \A e \in plan.regular \ {d} : At(t, a, e, "done")
     IN  /\ load' = IF last THEN [load EXCEPT ![t][a] = "layer"] ELSE load
         /\ work' = [work EXCEPT ![t][a][d].at = "done",
                                 ![t][a][Layer] = IF last THEN Asked(t, Layer) ELSE @]
  /\ UNCHANGED <<net, shared, fresh, verified, stores, promise, callers, used>>

ReadBlobFails(t, a, d) ==
  /\ At(t, a, d, "read") /\ plan.cache # "none" /\ <<t, a, d>> \notin fresh
  /\ Failed(t, {<<a, d>>})
  /\ UNCHANGED <<net, shared, fresh, verified, stores, used>>

-----------------------------------------------------------------------------
(* OpfsV86ArtifactCache.get                                                   *)
LookedUp(t, a, d) ==
  /\ At(t, a, d, "lookup")
  /\ Goes(t, a, d, IF dir[d] = "none" THEN "fetch" ELSE "handle")
  /\ UNCHANGED <<net, shared, fresh, verified, stores, page, used>>

(* Mutant: what has the right size is taken for what was asked for.           *)
GotFileUnread(t, a, d) ==
  /\ At(t, a, d, "handle")
  /\ CASE dir[d] = "none" -> Failed(t, {<<a, d>>}) /\ UNCHANGED fresh
       [] dir[d] = "short" ->
            work' = [work EXCEPT ![t][a][d] = [@ EXCEPT !.at = "evict", !.file = "short"]]
            /\ UNCHANGED <<page, fresh>>
       [] OTHER -> Got(t, d, {<<a, d>>}, dir[d]) /\ fresh' = fresh \cup {<<t, a, d>>}
  /\ UNCHANGED <<net, shared, verified, stores, used>>

(* getFile(): the entry may be gone by now, or have changed.                  *)
GotFile(t, a, d) ==
  /\ At(t, a, d, "handle")
  /\ CASE dir[d] = "none" -> Failed(t, {<<a, d>>}) /\ UNCHANGED fresh
       [] dir[d] = "short" ->
            work' = [work EXCEPT ![t][a][d] = [@ EXCEPT !.at = "evict", !.file = "short"]]
            /\ UNCHANGED <<page, fresh>>
       [] dir[d] \in {"wrong", "whole"} /\ d \in verified[t] ->
            Got(t, d, {<<a, d>>}, dir[d]) /\ fresh' = fresh \cup {<<t, a, d>>}
       [] OTHER ->
            work' = [work EXCEPT ![t][a][d] = [@ EXCEPT !.at = "digest", !.file = dir[d]]]
            /\ fresh' = fresh \cup {<<t, a, d>>} /\ UNCHANGED page
  /\ UNCHANGED <<net, shared, verified, stores, used>>

(* The whole File is read once in the life of a page.                         *)
Digested(t, a, d) ==
  /\ At(t, a, d, "digest")
  /\ IF Verified(work[t][a][d].file)
     THEN Got(t, d, {<<a, d>>}, "whole") /\ verified' = [verified EXCEPT ![t] = @ \cup {d}]
     ELSE Goes(t, a, d, "evict") /\ UNCHANGED <<page, verified>>
  /\ UNCHANGED <<net, shared, fresh, stores, used>>

DigestFails(t, a, d) ==
  /\ At(t, a, d, "digest") /\ <<t, a, d>> \notin fresh
  /\ Failed(t, {<<a, d>>})
  /\ UNCHANGED <<net, shared, fresh, verified, stores, used>>

(* The entry is removed, whatever it has become.                              *)
Evicted(t, a, d) ==
  /\ At(t, a, d, "evict")
  /\ IF Locked(d) THEN Failed(t, {<<a, d>>}) /\ UNCHANGED <<dir, fresh, verified>>
     ELSE /\ Entry(d, "none") /\ fresh' = Stale(d)
          /\ verified' = IF work[t][a][d].file = "short"
                         THEN [verified EXCEPT ![t] = @ \ {d}] ELSE verified
          /\ Goes(t, a, d, "fetch") /\ UNCHANGED page
  /\ UNCHANGED <<net, partials, stores, used>>

-----------------------------------------------------------------------------
(* loadCachedBlob: what the cache does not have is fetched and stored.        *)
Fetched(t, a, d) ==
  /\ At(t, a, d, "fetch")
  /\ LET body == Served(t, d)
     IN  CASE body = "none" \/ (plan.cache = "none" /\ ~Verified(body)) ->
                Failed(t, {<<a, d>>}) /\ UNCHANGED stores
           [] body # "none" /\ plan.cache = "none" /\ Verified(body) ->
                Got(t, d, {<<a, d>>}, body) /\ UNCHANGED stores
           [] OTHER ->
                /\ UNCHANGED page
                /\ IF stores[t][d] # 0 THEN Goes(t, a, d, "shared") /\ UNCHANGED stores
                   ELSE /\ stores' = [stores EXCEPT ![t][d] = a]
                        /\ work' = [work EXCEPT ![t][a][d] = [@ EXCEPT !.at = "temp", !.body = body]]
  /\ UNCHANGED <<net, shared, fresh, verified, used>>

(* The server answers with an error, or sends something else.                 *)
FetchFails(t, a, d) ==
  /\ At(t, a, d, "fetch") /\ Fails("failures")
  /\ Failed(t, {<<a, d>>})
  /\ UNCHANGED <<net, shared, fresh, verified, stores>>

FetchedWrong(t, a, d) ==
  /\ At(t, a, d, "fetch") /\ plan.cache # "none" /\ stores[t][d] = 0 /\ Fails("failures")
  /\ stores' = [stores EXCEPT ![t][d] = a]
  /\ work' = [work EXCEPT ![t][a][d] = [@ EXCEPT !.at = "temp", !.body = "wrong"]]
  /\ UNCHANGED <<net, shared, fresh, verified, page>>

(* The store of d settles, for its own attempt and for those that share it.   *)
Sharing(t, a, d) == {<<a, d>>} \cup { <<b, d>> : b \in { b \in Attempts : At(t, b, d, "shared") } }

StoreEnds(t, d) == stores' = [stores EXCEPT ![t][d] = 0]

StoreFails(t, a, d) ==
  /\ StoreEnds(t, d) /\ Failed(t, Sharing(t, a, d))
  /\ partials' = partials \ {<<t, a, d>>}
  /\ UNCHANGED <<dir, fresh, verified>>

(* #storeExclusive                                                            *)
TempOpened(t, a, d) ==
  /\ At(t, a, d, "temp")
  /\ partials' = partials \cup {<<t, a, d>>}
  /\ Goes(t, a, d, "stream")
  /\ UNCHANGED <<net, dir, fresh, verified, stores, page, used>>

(* No writer can be had: the empty file stays.                                *)
TempFails(t, a, d) ==
  /\ At(t, a, d, "temp") /\ Fails("failures")
  /\ StoreEnds(t, d) /\ Failed(t, Sharing(t, a, d))
  /\ UNCHANGED <<net, dir, partials, fresh, verified>>

(* The stream ends, and is what it should be or not.                          *)
Streamed(t, a, d) ==
  /\ At(t, a, d, "stream")
  /\ IF Verified(work[t][a][d].body)
     THEN Goes(t, a, d, IF plan.cache = "move" THEN "clear" ELSE "create")
          /\ UNCHANGED <<shared, fresh, verified, stores, page>>
     ELSE StoreFails(t, a, d)
  /\ UNCHANGED <<net, used>>

StreamFails(t, a, d) ==
  /\ At(t, a, d, "stream") /\ work[t][a][d].body = "whole" /\ Fails("failures")
  /\ StoreFails(t, a, d)
  /\ UNCHANGED net

(* #promote with move(): the old file is removed, the new one gets its name.  *)
Cleared(t, a, d) ==
  /\ At(t, a, d, "clear")
  /\ Entry(d, "none") /\ fresh' = Stale(d)
  /\ Goes(t, a, d, "move")
  /\ UNCHANGED <<net, partials, verified, stores, page, used>>

Moved(t, a, d) ==
  /\ At(t, a, d, "move")
  /\ Entry(d, work[t][a][d].body) /\ fresh' = Stale(d)
  /\ partials' = partials \ {<<t, a, d>>}
  /\ Goes(t, a, d, "check")
  /\ UNCHANGED <<net, verified, stores, page, used>>

(* Another page has promoted its own: the browser may refuse to replace it.   *)
MoveFails(t, a, d) ==
  /\ At(t, a, d, "move") /\ dir[d] # "none"
  /\ StoreFails(t, a, d)
  /\ UNCHANGED <<net, used>>

(* #promote without it: an entry, a writer, and a copy that close() installs. *)
Created(t, a, d) ==
  /\ At(t, a, d, "create")
  /\ Entry(d, IF dir[d] = "none" THEN "short" ELSE dir[d])
  /\ Goes(t, a, d, "open")
  /\ UNCHANGED <<net, partials, fresh, verified, stores, page, used>>

CopyOpened(t, a, d) ==
  /\ At(t, a, d, "open")
  /\ IF dir[d] = "none" THEN StoreFails(t, a, d)
     ELSE Goes(t, a, d, "copying") /\ UNCHANGED <<shared, fresh, verified, stores, page>>
  /\ UNCHANGED <<net, used>>

Copied(t, a, d) ==
  /\ At(t, a, d, "copying")
  /\ Entry(d, work[t][a][d].body) /\ fresh' = Stale(d)
  /\ Goes(t, a, d, "check")
  /\ UNCHANGED <<net, partials, verified, stores, page, used>>

CopyFails(t, a, d) ==
  /\ At(t, a, d, "copying") /\ Fails("failures")
  /\ Goes(t, a, d, "undo")
  /\ UNCHANGED <<net, shared, fresh, verified, stores, page>>

(* The entry goes, unless another page's writer holds it.                     *)
CopyUndone(t, a, d) ==
  /\ At(t, a, d, "undo")
  /\ IF Locked(d) THEN UNCHANGED <<dir, fresh>> ELSE Entry(d, "none") /\ fresh' = Stale(d)
  /\ partials' = partials \ {<<t, a, d>>}
  /\ StoreEnds(t, d) /\ Failed(t, Sharing(t, a, d))
  /\ UNCHANGED <<net, verified, used>>

(* The promoted file is opened: another page may have removed it.             *)
Promoted(t, a, d) ==
  /\ At(t, a, d, "check")
  /\ IF dir[d] \in {"none", "short"} THEN StoreFails(t, a, d)
     ELSE /\ Got(t, d, Sharing(t, a, d), dir[d])
          /\ fresh' = fresh \cup { <<t, s[1], d>> : s \in Sharing(t, a, d) }
          /\ verified' = [verified EXCEPT ![t] = @ \cup {d}]
          /\ partials' = partials \ {<<t, a, d>>}
          /\ StoreEnds(t, d)
          /\ UNCHANGED dir
  /\ UNCHANGED <<net, used>>

-----------------------------------------------------------------------------
(* A page is closed, wherever it is, and opened again.                        *)
PageCloses(t) ==
  /\ \E c \in Callers : callers[t][c] # Nothing
  /\ Fails("closes")
  /\ verified' = [verified EXCEPT ![t] = {}]
  /\ stores' = [stores EXCEPT ![t] = [d \in Files |-> 0]]
  /\ work' = [work EXCEPT ![t] = [a \in Attempts |-> [d \in Files |-> New]]]
  /\ load' = [load EXCEPT ![t] = [a \in Attempts |-> "idle"]]
  /\ promise' = [promise EXCEPT ![t] = 0]
  /\ callers' = [callers EXCEPT ![t] = [c \in Callers |-> Nothing]]
  /\ fresh' = { f \in fresh : f[1] # t }
  /\ partials' = { p \in partials : p[1] # t }
  /\ avail' = [avail EXCEPT ![t] = Checking]
  /\ UNCHANGED <<plan, site, dir>>

(* What happens of itself to an artifact of an attempt.                       *)
Cache(t, a, d) ==
  \/ LookedUp(t, a, d) \/ GotFile(t, a, d) \/ Digested(t, a, d) \/ Evicted(t, a, d)
  \/ Fetched(t, a, d) \/ TempOpened(t, a, d) \/ Streamed(t, a, d)
  \/ Cleared(t, a, d) \/ Moved(t, a, d)
  \/ Created(t, a, d) \/ CopyOpened(t, a, d) \/ Copied(t, a, d) \/ CopyUndone(t, a, d)
  \/ Promoted(t, a, d) \/ ReadBlob(t, a, d)

Fault(t, a, d) ==
  \/ ReadBlobFails(t, a, d) \/ DigestFails(t, a, d) \/ FetchFails(t, a, d)
  \/ FetchedWrong(t, a, d) \/ TempFails(t, a, d) \/ StreamFails(t, a, d)
  \/ MoveFails(t, a, d) \/ CopyFails(t, a, d)

Loads(t) ==
  \/ StatusLoaded(t)
  \/ \E a \in Attempts : ManifestLoaded(t, a) \/ \E d \in Files : Cache(t, a, d)

Calls(t) == \E c \in Callers : LoadArtifacts(t, c)

Next ==
  \E t \in Pages :
    \/ Loads(t) \/ Calls(t) \/ PageCloses(t) \/ StatusFails(t) \/ Upgrade
    \/ \E a \in Attempts : ManifestFails(t, a) \/ \E d \in Files : Fault(t, a, d)

Spec == Init /\ [][Next]_vars

(* The disk and the network answer, and a user whose lab did not start tries  *)
(* again.                                                                     *)
FairSpec == Spec /\ WF_vars(\E t \in Pages : Loads(t))
                 /\ WF_vars(\E t \in Pages : Calls(t))

-----------------------------------------------------------------------------
(* A machine is never prepared with anything but what the manifest names,     *)
(* whatever the directory held, whichever page wrote it and in which chunks   *)
(* it came, nor with an image that cannot be booted, whoever released it.     *)
VerifiedOnly ==
  \A t \in Pages, a \in Attempts :
    load[t][a] = "loaded" =>
      /\ \A d \in plan.regular \cup {Layer} : work[t][a][d].file = "whole"
      /\ Bootable(Manifest, plan.regular)

(* The filesystem that a machine pages from stays readable for as long as it  *)
(* runs, although other loads of the page, abandoned or not, use the cache.   *)
(* (Two pages that download it at the same time do not have this.)            *)
LayerReadable ==
  Cardinality(plan.pages) = 1 /\ plan.cache # "none" =>
    \A t \in Pages, a \in Attempts :
      load[t][a] = "loaded" => <<t, a, Layer>> \in fresh

(* What the scripts of the release have verified is loaded by the page, and   *)
(* whatever a crash, a failure or an abandoned load left behind, a user who   *)
(* tries again gets the lab started.  (A status that did not arrive is not    *)
(* asked for again, and a build that is laid out over the one of the page     *)
(* makes it stop loading for good.)                                           *)
RetriesWork ==
  \A t \in Pages :
    <>(\/ ~site.offered \/ Cardinality(plan.pages) > 1
       \/ t \notin plan.pages
       \/ avail[t].state = "no" /\ used.failures > 0
       \/ site.replaced /\ avail[t].at = "runtime"
       \/ \A c \in plan.callers : callers[t][c] = Bundle)
=============================================================================
