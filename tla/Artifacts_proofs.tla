-------------------------- MODULE Artifacts_proofs --------------------------
(***************************************************************************)
(* That a machine is prepared with nothing but what the manifest names,    *)
(* and that its filesystem stays readable, for any number of pages, loads, *)
(* artifacts and failures, if the incremental digest tells the wrong       *)
(* contents of a file from the right ones (StreamsTold, which TLC finds    *)
(* true of the streams of the run).                                        *)
(***************************************************************************)
EXTENDS Artifacts, FiniteSetTheorems, TLAPS

Contents == {"none", "short", "wrong", "whole"}
Cached == {"lookup", "handle", "digest", "evict"}
Promoting == {"clear", "move", "create", "open", "copying", "check"}
Storing == {"temp", "stream", "undo"} \cup Promoting
Held == {"read", "done"}
WorkType ==
  [at : {"idle", "failed", "fetch", "shared"} \cup Cached \cup Storing \cup Held,
   body : {"whole", "wrong"}, file : Contents]

TypeOK ==
  /\ plan \in Plans
  /\ dir \in [Files -> Contents]
  /\ verified \in [Pages -> SUBSET Files]
  /\ stores \in [Pages -> [Files -> Attempts \cup {0}]]
  /\ work \in [Pages -> [Attempts -> [Files -> WorkType]]]
  /\ load \in [Pages -> [Attempts -> {"idle", "manifest", "regular", "layer", "loaded", "failed"}]]
  /\ promise \in [Pages -> Attempts \cup {0}]
  /\ avail = [t \in Pages |-> avail[t]]

Needed == plan.regular \cup {Layer}
Parsed == ParseV86ArtifactManifest(Manifest, plan.regular)

(* The manifest gives the digest of the contents that were released.          *)
Honest(d) == Parsed /\ d \in plan.regular => Named(d).sha256 = "this"

(* What is promoted, or handed on, is the artifact.                           *)
Sound(w, d) ==
  /\ w.at \in Promoting => w.body = "whole"
  /\ w.at = "digest" => w.file \in {"wrong", "whole"}
  /\ w.at \in Held => w.file = "whole"
  /\ w.at = "read" => d # Layer
  /\ w.file = "whole" \/ (w.at \in Storing /\ w.body = "whole") => Honest(d)
  /\ w.at # "idle" => d \in Needed

(* An entry that may be taken on trust is not a wrong one.                    *)
Trusted(d) ==
  \/ \E t \in Pages : d \in verified[t]
  \/ \E t \in Pages, a \in Attempts :
       At(t, a, d, "check") \/ (At(t, a, d, "digest") /\ work[t][a][d].file = "whole")

EntryOK(d) == /\ dir[d] = "wrong" => ~Trusted(d)
              /\ dir[d] = "whole" => Honest(d)

Under(t, a) == load[t][a] \notin {"idle", "failed"}

(* One load at a time gets to the filesystem, with everything else at hand.   *)
LoadOK(t, a) ==
  /\ Under(t, a) => promise[t] = a
  /\ load[t][a] # "idle" => t \in plan.pages
  /\ load[t][a] \in {"regular", "layer", "loaded"} => Parsed
  /\ load[t][a] \in {"layer", "loaded"} => \A d \in plan.regular : At(t, a, d, "done")
  /\ load[t][a] = "loaded" => At(t, a, Layer, "done")
  /\ work[t][a][Layer].at \notin Settled => load[t][a] = "layer"

Single == Cardinality(plan.pages) = 1 /\ plan.cache # "none"
FreshOK(t, a) ==
  Single /\ (load[t][a] = "loaded" \/ At(t, a, Layer, "digest")) => <<t, a, Layer>> \in fresh

IInv ==
  /\ TypeOK
  /\ \A t \in Pages : avail[t].state = "yes" => t \in plan.pages
  /\ \A t \in Pages, a \in Attempts, d \in Files : Sound(work[t][a][d], d)
  /\ \A d \in Files : EntryOK(d)
  /\ \A t \in Pages, a \in Attempts : LoadOK(t, a) /\ FreshOK(t, a)
-----------------------------------------------------------------------------
(* Where the fields of a work can be.                                         *)
LEMMA WorkFields ==
  ASSUME NEW w \in WorkType
  PROVE  /\ w.at \in {"idle", "failed", "fetch", "shared"} \cup Cached \cup Storing \cup Held
         /\ w.body \in {"whole", "wrong"} /\ w.file \in Contents
BY DEF WorkType

LEMMA WorkGoes ==
  ASSUME NEW w \in WorkType, NEW x \in {"idle", "failed", "fetch", "shared"} \cup Cached \cup Storing \cup Held,
         NEW v, v = [w EXCEPT !.at = x]
  PROVE  v \in WorkType /\ v.at = x /\ v.body = w.body /\ v.file = w.file
BY DEF WorkType

LEMMA WorkStores ==
  ASSUME NEW w \in WorkType, NEW b \in {"whole", "wrong"},
         NEW v, v = [w EXCEPT !.at = "temp", !.body = b]
  PROVE  v \in WorkType /\ v.at = "temp" /\ v.body = b /\ v.file = w.file
BY DEF WorkType, Storing

LEMMA WorkReads ==
  ASSUME NEW w \in WorkType, NEW x \in Cached \cup Held, NEW f \in Contents,
         NEW v, v = [w EXCEPT !.at = x, !.file = f]
  PROVE  v \in WorkType /\ v.at = x /\ v.body = w.body /\ v.file = f
BY DEF WorkType

LEMMA WorkNew ==
  ASSUME NEW x \in {"idle", "failed", "fetch", "shared"} \cup Cached \cup Storing \cup Held
  PROVE  /\ New \in WorkType /\ New.at = "idle" /\ New.file = "none" /\ New.body = "whole"
         /\ [New EXCEPT !.at = x] \in WorkType /\ [New EXCEPT !.at = x].at = x
         /\ [New EXCEPT !.at = x].file = "none"
BY DEF New, WorkType, Contents

(* What the assumptions say of the plan.                                      *)
LEMMA PlanFacts ==
  ASSUME TypeOK
  PROVE  /\ plan.regular \subseteq Regular /\ Layer \notin plan.regular /\ Needed \subseteq Files
         /\ plan.pages \subseteq Pages /\ IsFiniteSet(plan.pages) /\ plan.kept \subseteq Contents
         /\ plan.cache \in {"move", "copy", "none"} /\ plan.stream \in Streams
         /\ Manifest.machine.trunkMtu \in Int
         /\ DOMAIN Manifest.filesystem.layers = 1 .. Len(Manifest.filesystem.layers)
         /\ "whole" \in plan.kept => \A i \in DOMAIN Manifest.artifacts : Manifest.artifacts[i].sha256 = "this"
         /\ 1 \in Attempts /\ 0 \notin Attempts
<1>1. plan \in Plans
  BY DEF TypeOK
<1>2. 1 \in Attempts /\ 0 \notin Attempts
  BY ArtifactsAssumption DEF Attempts
<1> QED
  BY <1>1, <1>2, ArtifactsAssumption, Zenon DEF Manifest, Needed, Files, Contents

LEMMA WorkIs ==
  ASSUME TypeOK, NEW t \in Pages, NEW a \in Attempts, NEW d \in Files
  PROVE  work[t][a][d] \in WorkType
BY DEF TypeOK

(* What depends on the plan alone.                                            *)
LEMMA PlanStays ==
  ASSUME UNCHANGED plan
  PROVE  /\ Manifest' = Manifest /\ Needed' = Needed /\ (Parsed' <=> Parsed) /\ (Single' <=> Single)
         /\ \A d : (Honest(d)' <=> Honest(d)) /\ Named(d)' = Named(d)
         /\ \A d, w : Sound(w, d)' <=> Sound(w, d)
<1>1. Manifest' = Manifest /\ Needed' = Needed /\ (Single' <=> Single)
  BY DEF Manifest, Needed, Single
<1>2. Parsed' <=> Parsed
  BY <1>1 DEF Parsed
<1>3. \A d : Named(d)' = Named(d)
  BY <1>1 DEF Named
<1>4. \A d : Honest(d)' <=> Honest(d)
  BY <1>2, <1>3 DEF Honest
<1> QED
  BY <1>1, <1>2, <1>3, <1>4 DEF Sound

-----------------------------------------------------------------------------
(* What a step makes of the works of a page on one artifact.                  *)
WorksKept(t, d) ==
  /\ work' \in [Pages -> [Attempts -> [Files -> WorkType]]]
  /\ \A u \in Pages, b \in Attempts, e \in Files :
       u # t \/ e # d => work'[u][b][e] = work[u][b][e]
  /\ \A b \in Attempts :
       /\ Sound(work'[t][b][d], d)
       /\ work'[t][b][d] = work[t][b][d] \/ work[t][b][d].at \notin Settled
       /\ work'[t][b][d].at \notin Settled => load'[t][b] = load[t][b]

(* ... and of its loads, which may fail with a work, or be over with the last.*)
LoadsKept(t, d) ==
  /\ load' \in [Pages -> [Attempts -> {"idle", "manifest", "regular", "layer", "loaded", "failed"}]]
  /\ promise' \in [Pages -> Attempts \cup {0}]
  /\ \A u \in Pages : u # t => load'[u] = load[u] /\ promise'[u] = promise[u]
  /\ \A b \in Attempts :
       /\ \/ load'[t][b] = load[t][b]
          \/ /\ load[t][b] \in {"regular", "layer"} /\ load'[t][b] = "failed"
             /\ work[t][b][d].at \notin Settled
          \/ d = Layer /\ load[t][b] = "layer" /\ load'[t][b] = "loaded" /\ work'[t][b][d].at = "done"
       /\ load'[t][b] \notin {"idle", "failed"} => promise'[t] = promise[t]

(* ... and of the entry.                                                      *)
EntryKept(t, d) ==
  /\ dir' \in [Files -> Contents] /\ verified' \in [Pages -> SUBSET Files]
  /\ \A e \in Files : e # d => dir'[e] = dir[e] /\ \A u \in Pages : e \in verified'[u] => e \in verified[u]
  /\ dir'[d] = "whole" => Honest(d)
  /\ dir'[d] = "wrong" =>
       /\ dir[d] = "wrong"
       /\ \A u \in Pages : d \in verified'[u] => d \in verified[u]
       /\ \A b \in Attempts : work'[t][b][d] # work[t][b][d] =>
            /\ work'[t][b][d].at # "check"
            /\ work'[t][b][d].at = "digest" => work'[t][b][d].file # "whole"

LEMMA EntryStep ==
  ASSUME IInv, NEW t \in Pages, NEW d \in Files, UNCHANGED plan, WorksKept(t, d), EntryKept(t, d),
         NEW e \in Files
  PROVE  EntryOK(e)'
<1>1. EntryOK(e)
  BY DEF IInv
<1>2. dir'[e] = "whole" => Honest(e)'
  BY <1>1, PlanStays DEF EntryOK, EntryKept
<1>3. ASSUME dir'[e] = "wrong" PROVE ~Trusted(e)'
  <2>1. dir[e] = "wrong" /\ ~Trusted(e)
    BY <1>1, <1>3 DEF EntryKept, EntryOK
  <2>2. \A u \in Pages : e \notin verified'[u]
    BY <2>1, <1>3 DEF EntryKept, Trusted
  <2>3. ASSUME NEW u \in Pages, NEW b \in Attempts
        PROVE  /\ work'[u][b][e].at # "check"
               /\ work'[u][b][e].at = "digest" => work'[u][b][e].file # "whole"
    <3>1. CASE work'[u][b][e] = work[u][b][e]
      BY <2>1, <3>1 DEF Trusted, At
    <3>2. CASE work'[u][b][e] # work[u][b][e]
      <4>1. u = t /\ e = d
        BY <3>2 DEF WorksKept
      <4> QED
        BY <1>3, <3>2, <4>1 DEF EntryKept
    <3> QED
      BY <3>1, <3>2
  <2> QED
    BY <2>2, <2>3 DEF Trusted, At
<1> QED
  BY <1>2, <1>3 DEF EntryOK

LEMMA LoadStep ==
  ASSUME IInv, NEW t \in Pages, NEW d \in Files, UNCHANGED plan, WorksKept(t, d), LoadsKept(t, d),
         NEW u \in Pages, NEW b \in Attempts
  PROVE  LoadOK(u, b)'
<1>1. LoadOK(u, b) /\ Layer \in Files /\ plan.regular \subseteq Files /\ Layer \notin plan.regular
  BY PlanFacts DEF IInv, Files, Needed
<1>2. (Parsed' <=> Parsed) /\ Needed' = Needed
  BY PlanStays
<1>3. CASE u # t
  <2>1. load'[u] = load[u] /\ promise'[u] = promise[u] /\ \A e \in Files : work'[u][b][e] = work[u][b][e]
    BY <1>3 DEF WorksKept, LoadsKept
  <2> QED
    BY <1>1, <1>2, <2>1 DEF LoadOK, Under, At
<1>4. CASE u = t
  <2>1. load'[t][b] \notin {"idle", "failed"} => promise'[t] = b /\ load[t][b] \notin {"idle", "failed"}
    BY <1>1, <1>4 DEF LoadsKept, LoadOK, Under
  <2>2. load'[t][b] # "idle" => t \in plan.pages
    BY <1>1, <1>4 DEF LoadsKept, LoadOK
  <2>3. load'[t][b] \in {"regular", "layer", "loaded"} => Parsed
    BY <1>1, <1>4 DEF LoadsKept, LoadOK
  <2>4. ASSUME load'[t][b] \in {"layer", "loaded"}, NEW e \in plan.regular
        PROVE  work'[t][b][e].at = "done"
    <3>1. work[t][b][e].at = "done" /\ e \in Files
      BY <1>1, <1>4, <2>4 DEF LoadsKept, LoadOK, At
    <3> QED
      BY <3>1 DEF WorksKept, Settled
  <2>5. ASSUME load'[t][b] = "loaded" PROVE work'[t][b][Layer].at = "done"
    <3>1. CASE load[t][b] = "loaded"
      <4>1. work[t][b][Layer].at = "done"
        BY <1>1, <1>4, <3>1 DEF LoadOK, At
      <4> QED
        BY <1>1, <4>1 DEF WorksKept, Settled
    <3>2. CASE d = Layer /\ work'[t][b][d].at = "done"
      BY <3>2
    <3> QED
      BY <2>5, <3>1, <3>2 DEF LoadsKept
  <2>6. ASSUME work'[t][b][Layer].at \notin Settled PROVE load'[t][b] = "layer"
    <3>1. CASE d = Layer
      <4>1. load'[t][b] = load[t][b] /\ work[t][b][Layer].at \notin Settled
        BY <2>6, <3>1 DEF WorksKept
      <4> QED
        BY <1>1, <1>4, <4>1 DEF LoadOK
    <3>2. CASE d # Layer
      <4>1. work'[t][b][Layer] = work[t][b][Layer] /\ load[t][b] = "layer"
        BY <1>1, <1>4, <2>6, <3>2 DEF WorksKept, LoadOK
      <4>2. work[t][b][d].at \in Settled
        <5>1. CASE d \in plan.regular
          BY <1>1, <1>4, <4>1, <5>1 DEF LoadOK, At, Settled
        <5>2. CASE d \notin plan.regular
          <6>1. Sound(work[t][b][d], d)
            BY DEF IInv
          <6> QED
            BY <3>2, <5>2, <6>1 DEF Sound, Needed, Settled
        <5> QED
          BY <5>1, <5>2
      <4> QED
        BY <3>2, <4>1, <4>2 DEF LoadsKept
    <3> QED
      BY <3>1, <3>2
  <2> QED
    BY <1>2, <1>4, <2>1, <2>2, <2>3, <2>4, <2>5, <2>6 DEF LoadOK, Under, At
<1> QED
  BY <1>3, <1>4

(* Where a machine has its filesystem, no other load of the page is at it.    *)
FreshKept(t, d) ==
  \/ /\ fresh \subseteq fresh'
     /\ \A b \in Attempts :
          d = Layer /\ (work'[t][b][d].at = "digest" \/ load'[t][b] = "loaded") =>
            \/ At(t, b, d, "digest") \/ load[t][b] = "loaded" \/ plan.cache = "none"
            \/ <<t, b, d>> \in fresh'
  \/ /\ fresh' = Stale(d)
     /\ \E a \in Attempts : /\ work[t][a][d].at \notin Settled /\ work'[t][a][d].at # "digest"
                            /\ load'[t][a] # "loaded"

LEMMA OneAtLayer ==
  ASSUME IInv, Single, NEW t \in Pages, NEW a \in Attempts, work[t][a][Layer].at \notin Settled,
         NEW u \in Pages, NEW b \in Attempts, Under(u, b)
  PROVE  u = t /\ b = a
<1>1. LoadOK(t, a) /\ LoadOK(u, b) /\ TypeOK
  BY DEF IInv
<1>2. Under(t, a)
  BY <1>1 DEF LoadOK, Under
<1>3. t \in plan.pages /\ u \in plan.pages /\ promise[t] = a /\ promise[u] = b
  BY <1>1, <1>2 DEF LoadOK, Under
<1>4. PICK x : plan.pages = {x}
  BY <1>1, PlanFacts, FS_Singleton DEF Single
<1> QED
  BY <1>3, <1>4

LEMMA FreshStep ==
  ASSUME IInv, NEW t \in Pages, NEW d \in Files, UNCHANGED plan, WorksKept(t, d), LoadsKept(t, d),
         FreshKept(t, d), NEW u \in Pages, NEW b \in Attempts
  PROVE  FreshOK(u, b)'
<1> SUFFICES ASSUME Single, load'[u][b] = "loaded" \/ work'[u][b][Layer].at = "digest"
             PROVE  <<u, b, Layer>> \in fresh'
  BY PlanStays DEF FreshOK, At
<1>1. FreshOK(u, b) /\ LoadOK(u, b) /\ LoadOK(u, b)' /\ Layer \in Files
  BY LoadStep DEF IInv, Files
<1>2. Under(u, b) /\ load'[u][b] \notin {"idle", "failed"}
  <2>1. load'[u][b] \notin {"idle", "failed"}
    BY <1>1 DEF LoadOK, Settled
  <2> QED
    BY <2>1 DEF LoadsKept, Under
<1>3. (load[u][b] = "loaded" \/ At(u, b, Layer, "digest")) => <<u, b, Layer>> \in fresh
  BY <1>1 DEF FreshOK
<1>4. ASSUME u # t \/ d # Layer PROVE <<u, b, Layer>> \in fresh
  <2>1. work'[u][b][Layer] = work[u][b][Layer]
    BY <1>1, <1>4 DEF WorksKept
  <2>2. load'[u][b] = "loaded" => load[u][b] = "loaded"
    BY <1>4 DEF LoadsKept
  <2> QED
    BY <1>3, <2>1, <2>2 DEF At
<1>5. CASE fresh' = Stale(d) /\ \E a \in Attempts :
             /\ work[t][a][d].at \notin Settled /\ work'[t][a][d].at # "digest" /\ load'[t][a] # "loaded"
  <2>1. PICK a \in Attempts : /\ work[t][a][d].at \notin Settled /\ work'[t][a][d].at # "digest"
                              /\ load'[t][a] # "loaded"
    BY <1>5
  <2>2. CASE d = Layer
    <3>1. u = t /\ b = a
      BY <1>2, <2>1, <2>2, OneAtLayer
    <3> QED
      BY <2>1, <2>2, <3>1
  <2>3. CASE d # Layer
    <3>1. <<u, b, Layer>> \in fresh /\ <<u, b, Layer>>[3] = Layer
      BY <1>4, <2>3
    <3> QED
      BY <1>5, <2>3, <3>1 DEF Stale
  <2> QED
    BY <2>2, <2>3
<1>6. CASE fresh \subseteq fresh' /\ u = t /\ d = Layer
  <2>1. plan.cache # "none"
    BY DEF Single
  <2>2. CASE At(t, b, d, "digest") \/ load[t][b] = "loaded"
    BY <1>3, <1>6, <2>2
  <2>3. CASE <<t, b, d>> \in fresh'
    BY <1>6, <2>3
  <2> QED
    BY <1>5, <1>6, <2>1, <2>2, <2>3 DEF FreshKept
<1> QED
  BY <1>4, <1>5, <1>6 DEF FreshKept

(* A step that keeps all of it keeps the invariant.                           *)
LEMMA Kept ==
  ASSUME IInv, NEW t \in Pages, NEW d \in Files, UNCHANGED <<plan, avail>>,
         WorksKept(t, d), LoadsKept(t, d), EntryKept(t, d), FreshKept(t, d),
         stores' \in [Pages -> [Files -> Attempts \cup {0}]]
  PROVE  IInv'
<1>1. TypeOK'
  BY DEF IInv, TypeOK, WorksKept, LoadsKept, EntryKept
<1>2. ASSUME NEW u \in Pages, NEW b \in Attempts, NEW e \in Files
      PROVE  Sound(work[u][b][e], e)'
  <2>1. Sound(work'[u][b][e], e)
    BY SMTT(60) DEF WorksKept, IInv
  <2> QED
    BY <2>1, PlanStays DEF Sound
<1>3. \A u \in Pages : avail'[u].state = "yes" => u \in plan'.pages
  BY DEF IInv
<1> QED
  BY <1>1, <1>2, <1>3, EntryStep, LoadStep, FreshStep DEF IInv

-----------------------------------------------------------------------------
(* The ways in which a work goes on: it is set to w, ...                      *)
Becomes(t, a, d, w) == work' = [work EXCEPT ![t][a][d] = w]

LEMMA BecomesKept ==
  ASSUME IInv, NEW t \in Pages, NEW a \in Attempts, NEW d \in Files, NEW w \in WorkType,
         work[t][a][d].at \notin Settled, Sound(w, d), Becomes(t, a, d, w), UNCHANGED <<load, promise>>
  PROVE  /\ WorksKept(t, d) /\ LoadsKept(t, d)
         /\ work'[t][a][d] = w /\ \A b \in Attempts \ {a} : work'[t][b][d] = work[t][b][d]
<1>1. work' \in [Pages -> [Attempts -> [Files -> WorkType]]]
  BY DEF IInv, TypeOK, Becomes
<1>2. work'[t][a][d] = w
  BY DEF IInv, TypeOK, Becomes
<1>3. \A u \in Pages, b \in Attempts, e \in Files :
        <<u, b, e>> # <<t, a, d>> => work'[u][b][e] = work[u][b][e]
  BY DEF IInv, TypeOK, Becomes
<1>4. \A b \in Attempts : Sound(work'[t][b][d], d)
  <2> TAKE b \in Attempts
  <2>1. CASE b = a
    BY <1>2, <2>1
  <2>2. CASE b # a
    <3>1. work'[t][b][d] = work[t][b][d]
      BY <1>3, <2>2
    <3> QED
      BY <3>1 DEF IInv
  <2> QED
    BY <2>1, <2>2
<1>5. WorksKept(t, d)
  BY <1>1, <1>2, <1>3, <1>4 DEF WorksKept
<1>6. LoadsKept(t, d)
  BY DEF LoadsKept, IInv, TypeOK
<1> QED
  BY <1>2, <1>3, <1>5, <1>6

(* ... it fails, with those that share it, ...                                *)
FailedEffect(t, d, B) ==
  /\ WorksKept(t, d) /\ LoadsKept(t, d)
  /\ \A b \in B : work'[t][b][d].at = "failed" /\ load'[t][b] # "loaded"
  /\ \A b \in Attempts : load'[t][b] = "loaded" => load[t][b] = "loaded"
  /\ \A b \in Attempts \ B : work'[t][b][d] = work[t][b][d]

LEMMA FailedKept ==
  ASSUME IInv, NEW t \in Pages, NEW d \in Files, NEW B \in SUBSET Attempts, NEW S, S = { <<b, d>> : b \in B },
         \A b \in B : work[t][b][d].at \notin Settled, Failed(t, S)
  PROVE  FailedEffect(t, d, B)
<1> DEFINE A == Loading(t, S)
           f(b, e) == IF <<b, e>> \in S THEN [work[t][b][e] EXCEPT !.at = "failed"] ELSE work[t][b][e]
<1>1. \A b \in Attempts, e \in Files : <<b, e>> \in S <=> b \in B /\ e = d
  OBVIOUS
<1>2. work' = [work EXCEPT ![t] = [b \in Attempts |-> [e \in Files |-> f(b, e)]]]
  BY Zenon DEF Failed
<1>3. \A b \in Attempts, e \in Files : f(b, e) \in WorkType
  BY WorkGoes, WorkIs DEF IInv
<1> HIDE DEF f
<1>4. work' \in [Pages -> [Attempts -> [Files -> WorkType]]]
  BY <1>2, <1>3 DEF IInv, TypeOK
<1>5. \A b \in Attempts, e \in Files : work'[t][b][e] = f(b, e)
  BY <1>2 DEF IInv, TypeOK
<1>6. \A u \in Pages \ {t} : work'[u] = work[u]
  BY <1>2 DEF IInv, TypeOK
<1>7. \A b \in Attempts, e \in Files : b \notin B \/ e # d => work'[t][b][e] = work[t][b][e]
  BY <1>1, <1>5 DEF f
<1>8. \A b \in B : work'[t][b][d] = [work[t][b][d] EXCEPT !.at = "failed"]
  BY <1>1, <1>5 DEF f
<1>9. \A b \in B : /\ work'[t][b][d].at = "failed" /\ work'[t][b][d].body = work[t][b][d].body
                   /\ work'[t][b][d].file = work[t][b][d].file
  <2> TAKE b \in B
  <2>1. work[t][b][d] \in WorkType
    BY WorkIs DEF IInv
  <2>2. "failed" \in {"idle", "failed", "fetch", "shared"} \cup Cached \cup Storing \cup Held
    OBVIOUS
  <2>3. PICK w \in WorkType : w = work[t][b][d]
    BY <2>1
  <2>4. PICK v : v = work'[t][b][d]
    OBVIOUS
  <2>5. v = [w EXCEPT !.at = "failed"]
    BY <1>8, <2>3, <2>4, Zenon
  <2>6. v.at = "failed" /\ v.body = w.body /\ v.file = w.file
    BY <2>2, <2>5, WorkGoes, ZenonT(60)
  <2> QED
    BY <2>3, <2>4, <2>6
<1>10. A \subseteq B /\ \A b \in A : load[t][b] \in {"regular", "layer"}
  <2> SUFFICES ASSUME NEW b \in A PROVE b \in B /\ load[t][b] \in {"regular", "layer"}
    OBVIOUS
  <2>1. PICK s \in S : s[1] = b
    BY DEF Loading
  <2> QED
    BY <2>1 DEF Loading
<1>11. load' = [load EXCEPT ![t] = [b \in Attempts |-> IF b \in A THEN "failed" ELSE load[t][b]]]
  BY DEF Failed, Reject, IInv, TypeOK
<1>12. promise' = [promise EXCEPT ![t] = IF promise[t] \in A THEN 0 ELSE promise[t]]
  BY DEF Failed, Reject, IInv, TypeOK
<1> HIDE DEF A
<1>13. \A b \in Attempts : load'[t][b] = IF b \in A THEN "failed" ELSE load[t][b]
  BY <1>11 DEF IInv, TypeOK
<1>14. ASSUME NEW b \in Attempts PROVE Sound(work'[t][b][d], d)
  <2>1. Sound(work[t][b][d], d)
    BY DEF IInv
  <2>2. CASE b \in B
    BY <1>9, <2>1, <2>2 DEF Sound, Settled, Promoting, Held, Storing
  <2>3. CASE b \notin B
    BY <1>7, <2>1, <2>3
  <2> QED
    BY <2>2, <2>3
<1>15. WorksKept(t, d)
  <2>1. \A b \in Attempts : work'[t][b][d] = work[t][b][d] \/ work[t][b][d].at \notin Settled
    BY <1>7
  <2>2. \A b \in Attempts : work'[t][b][d].at \notin Settled => load'[t][b] = load[t][b]
    BY <1>9, <1>10, <1>13 DEF Settled
  <2> QED
    BY <1>4, <1>6, <1>7, <1>14, <2>1, <2>2 DEF WorksKept
<1>16. LoadsKept(t, d)
  <2>1. load' \in [Pages -> [Attempts -> {"idle", "manifest", "regular", "layer", "loaded", "failed"}]]
    BY <1>11 DEF IInv, TypeOK
  <2>2. promise' \in [Pages -> Attempts \cup {0}]
    BY <1>12 DEF IInv, TypeOK
  <2>3. \A u \in Pages : u # t => load'[u] = load[u] /\ promise'[u] = promise[u]
    BY <1>11, <1>12 DEF IInv, TypeOK
  <2>4. ASSUME NEW b \in Attempts, load'[t][b] \notin {"idle", "failed"} PROVE promise'[t] = promise[t]
    <3>1. b \notin A /\ load[t][b] \notin {"idle", "failed"}
      BY <1>13, <2>4
    <3>2. promise[t] = b
      BY <3>1 DEF IInv, LoadOK, Under
    <3> QED
      BY <1>12, <3>1, <3>2 DEF IInv, TypeOK
  <2> QED
    BY <1>10, <1>13, <2>1, <2>2, <2>3, <2>4 DEF LoadsKept
<1>17. ASSUME NEW b \in B PROVE load[t][b] # "loaded"
  <2>1. LoadOK(t, b) /\ Sound(work[t][b][d], d)
    BY DEF IInv
  <2>2. d \in Needed /\ ~At(t, b, d, "done")
    BY <2>1 DEF Sound, Settled, At
  <2> QED
    BY <2>1, <2>2 DEF LoadOK, Needed
<1> QED
  BY <1>7, <1>9, <1>10, <1>13, <1>15, <1>16, <1>17 DEF FailedEffect

(* ... or it has the file.                                                    *)
GotEffect(t, d, B) ==
  /\ WorksKept(t, d) /\ LoadsKept(t, d)
  /\ \A b \in Attempts : load'[t][b] = "loaded" => load[t][b] = "loaded" \/ b \in B
  /\ \A b \in B : work'[t][b][d].at \in Held
  /\ \A b \in Attempts \ B : work'[t][b][d] = work[t][b][d]

LEMMA GotKept ==
  ASSUME IInv, NEW t \in Pages, NEW d \in Files, NEW B \in SUBSET Attempts, NEW S, S = { <<b, d>> : b \in B },
         \A b \in B : work[t][b][d].at \notin Settled, Got(t, d, S, "whole"), Honest(d)
  PROVE  GotEffect(t, d, B)
<1> DEFINE A == IF d = Layer THEN Loading(t, S) ELSE {}
           x == IF d = Layer THEN "done" ELSE "read"
           f(b) == IF <<b, d>> \in S THEN [work[t][b] EXCEPT ![d].at = x, ![d].file = "whole"] ELSE work[t][b]
<1>1. \A b \in Attempts : <<b, d>> \in S <=> b \in B
  OBVIOUS
<1>2. work' = [work EXCEPT ![t] = [b \in Attempts |-> f(b)]]
  BY Zenon DEF Got
<1>3. ASSUME NEW b \in B
      PROVE  /\ f(b) \in [Files -> WorkType] /\ f(b)[d] = [work[t][b][d] EXCEPT !.at = x, !.file = "whole"]
             /\ \A e \in Files \ {d} : f(b)[e] = work[t][b][e]
  <2>1. work[t][b] \in [Files -> WorkType] /\ f(b) = [work[t][b] EXCEPT ![d].at = x, ![d].file = "whole"]
    BY <1>1 DEF IInv, TypeOK
  <2>2. x \in Held
    BY DEF Held
  <2> HIDE DEF x, f
  <2>3. f(b) = [work[t][b] EXCEPT ![d] = [work[t][b][d] EXCEPT !.at = x, !.file = "whole"]]
    BY <2>1
  <2>4. [work[t][b][d] EXCEPT !.at = x, !.file = "whole"] \in WorkType
    <3>1. work[t][b][d] \in WorkType /\ x \in Cached \cup Held /\ "whole" \in Contents
      BY <2>1, <2>2 DEF Contents
    <3> QED
      BY <3>1, WorkReads, ZenonT(60)
  <2> QED
    BY <2>1, <2>3, <2>4
<1>4. x \in Held /\ (d = Layer => x = "done") /\ (d # Layer => x = "read")
  BY DEF Held
<1>5. \A b \in Attempts \ B : f(b) = work[t][b]
  BY <1>1
<1>6. \A b \in Attempts : f(b) \in [Files -> WorkType]
  <2> TAKE b \in Attempts
  <2>1. work[t][b] \in [Files -> WorkType]
    BY DEF IInv, TypeOK
  <2> HIDE DEF f, x
  <2> QED
    BY <1>3, <1>5, <2>1
<1> HIDE DEF f, x
<1>7. work' \in [Pages -> [Attempts -> [Files -> WorkType]]] /\ \A b \in Attempts : work'[t][b] = f(b)
  BY <1>2, <1>6 DEF IInv, TypeOK
<1>8. \A u \in Pages \ {t} : work'[u] = work[u]
  BY <1>2 DEF IInv, TypeOK
<1>9. \A b \in Attempts, e \in Files : b \notin B \/ e # d => work'[t][b][e] = work[t][b][e]
  <2> SUFFICES ASSUME NEW b \in Attempts, NEW e \in Files, b \notin B \/ e # d
               PROVE  f(b)[e] = work[t][b][e]
    BY <1>7
  <2> QED
    BY <1>3, <1>5
<1>10. \A b \in B : work'[t][b][d].at = x /\ work'[t][b][d].file = "whole"
  <2> TAKE b \in B
  <2>1. work[t][b][d] \in WorkType
    BY WorkIs DEF IInv
  <2>2. work'[t][b][d] = [work[t][b][d] EXCEPT !.at = x, !.file = "whole"]
    BY <1>3, <1>7
  <2>3. x \in Cached \cup Held /\ "whole" \in Contents
    BY <1>4 DEF Contents
  <2>4. PICK w \in WorkType : w = work[t][b][d]
    BY <2>1
  <2>5. PICK v : v = work'[t][b][d]
    OBVIOUS
  <2>6. PICK y \in Cached \cup Held : y = x
    BY <2>3
  <2>7. v = [w EXCEPT !.at = y, !.file = "whole"]
    BY <2>2, <2>4, <2>5, <2>6, Zenon
  <2>8. v.at = y /\ v.file = "whole"
    BY <2>3, <2>7 DEF WorkType
  <2> QED
    BY <2>5, <2>6, <2>8
<1>11. A \subseteq B /\ (d # Layer => A = {})
  <2> SUFFICES ASSUME NEW b \in A PROVE b \in B /\ d = Layer
    OBVIOUS
  <2>1. PICK s \in S : s[1] = b
    BY DEF Loading
  <2> QED
    BY <2>1
<1>12. load' = [load EXCEPT ![t] = [b \in Attempts |-> IF b \in A THEN "loaded" ELSE load[t][b]]]
  BY DEF Got, IInv, TypeOK
<1>13. UNCHANGED promise
  BY DEF Got
<1>14. ASSUME NEW b \in A PROVE load[t][b] = "layer" /\ b \in Attempts
  <2>1. d = Layer /\ b \in B /\ b \in Attempts
    BY <1>11, <1>14
  <2> QED
    BY <2>1 DEF IInv, LoadOK
<1> HIDE DEF A
<1>15. \A b \in Attempts : load'[t][b] = IF b \in A THEN "loaded" ELSE load[t][b]
  BY <1>12 DEF IInv, TypeOK
<1>16. ASSUME NEW b \in Attempts PROVE Sound(work'[t][b][d], d)
  <2>1. Sound(work[t][b][d], d)
    BY DEF IInv
  <2>2. CASE b \in B
    BY <1>4, <1>10, <2>1, <2>2 DEF Sound, Settled, Promoting, Held, Storing
  <2>3. CASE b \notin B
    BY <1>9, <2>1, <2>3
  <2> QED
    BY <2>2, <2>3
<1>17. WorksKept(t, d)
  <2>1. \A b \in Attempts : work'[t][b][d] = work[t][b][d] \/ work[t][b][d].at \notin Settled
    BY <1>9
  <2>2. \A b \in Attempts : work'[t][b][d].at \notin Settled => load'[t][b] = load[t][b]
    BY <1>4, <1>10, <1>11, <1>15 DEF Settled
  <2> QED
    BY <1>7, <1>8, <1>9, <1>16, <2>1, <2>2 DEF WorksKept
<1>18. LoadsKept(t, d)
  <2>1. load' \in [Pages -> [Attempts -> {"idle", "manifest", "regular", "layer", "loaded", "failed"}]]
    BY <1>12 DEF IInv, TypeOK
  <2>2. promise' \in [Pages -> Attempts \cup {0}]
    BY <1>13 DEF IInv, TypeOK
  <2>3. \A u \in Pages : u # t => load'[u] = load[u] /\ promise'[u] = promise[u]
    BY <1>12, <1>13 DEF IInv, TypeOK
  <2>4. \A b \in A : d = Layer /\ work'[t][b][d].at = "done"
    BY <1>4, <1>10, <1>11
  <2> QED
    BY <1>13, <1>14, <1>15, <2>1, <2>2, <2>3, <2>4 DEF LoadsKept
<1> QED
  BY <1>4, <1>9, <1>10, <1>11, <1>15, <1>17, <1>18 DEF GotEffect

LEMMA GoesKept ==
  ASSUME IInv, NEW t \in Pages, NEW a \in Attempts, NEW d \in Files,
         NEW x \in {"idle", "failed", "fetch", "shared"} \cup Cached \cup Storing \cup Held,
         x \notin {"digest"} \cup Held, work[t][a][d].at \notin Settled,
         x \in Promoting => work[t][a][d].body = "whole",
         x \in Storing /\ work[t][a][d].body = "whole" => Honest(d),
         Goes(t, a, d, x), UNCHANGED <<load, promise>>
  PROVE  /\ WorksKept(t, d) /\ LoadsKept(t, d)
         /\ \A b \in Attempts \ {a} : work'[t][b][d] = work[t][b][d]
         /\ work'[t][a][d].at = x /\ work'[t][a][d].file = work[t][a][d].file
<1>1. TypeOK
  BY DEF IInv
<1>2. PICK w \in WorkType : w = [work[t][a][d] EXCEPT !.at = x]
  <2>1. work[t][a][d] \in WorkType
    BY <1>1, WorkIs
  <2> QED
    BY <2>1, WorkGoes, Zenon
<1>3. w.at = x /\ w.body = work[t][a][d].body /\ w.file = work[t][a][d].file
  <2>1. PICK v \in WorkType : v = work[t][a][d]
    BY <1>1, WorkIs
  <2>2. w = [v EXCEPT !.at = x]
    BY <1>2, <2>1, Zenon
  <2>3. w.at = x /\ w.body = v.body /\ w.file = v.file
    BY <2>2, WorkGoes, ZenonT(60)
  <2> QED
    BY <2>1, <2>3
<1>4. Becomes(t, a, d, w)
  <2>1. work' = [work EXCEPT ![t][a][d] = [work[t][a][d] EXCEPT !.at = x]]
    BY <1>1 DEF Goes, TypeOK
  <2> QED
    BY <1>2, <2>1, Zenon DEF Becomes
<1>5. Sound(w, d)
  <2>1. Sound(work[t][a][d], d)
    BY DEF IInv
  <2> QED
    BY <1>3, <2>1 DEF Sound, Settled, Held
<1> QED
  BY <1>3, <1>4, <1>5, BecomesKept

(* The entry and the Files stay as they are.                                  *)
LEMMA QuietKept ==
  ASSUME IInv, NEW t \in Pages, NEW d \in Files, UNCHANGED <<plan, avail, dir, verified, fresh>>,
         WorksKept(t, d), LoadsKept(t, d), stores' \in [Pages -> [Files -> Attempts \cup {0}]],
         \A b \in Attempts :
           /\ work'[t][b][d] # work[t][b][d] => work'[t][b][d].at \notin {"check", "digest"}
           /\ load'[t][b] = "loaded" => load[t][b] = "loaded" \/ plan.cache = "none"
  PROVE  IInv'
<1>1. EntryKept(t, d)
  BY DEF EntryKept, IInv, TypeOK, EntryOK
<1>2. FreshKept(t, d)
  BY DEF FreshKept, At
<1> QED
  BY <1>1, <1>2, Kept

LEMMA QuietlyGoes ==
  ASSUME IInv, NEW t \in Pages, NEW a \in Attempts, NEW d \in Files,
         NEW x \in {"idle", "failed", "fetch", "shared"} \cup Cached \cup Storing \cup Held,
         x \notin {"digest", "check"} \cup Held, work[t][a][d].at \notin Settled,
         x \in Promoting => work[t][a][d].body = "whole",
         x \in Storing /\ work[t][a][d].body = "whole" => Honest(d),
         Goes(t, a, d, x), UNCHANGED <<plan, avail, dir, verified, fresh, stores, load, promise>>
  PROVE  IInv'
<1>1. /\ WorksKept(t, d) /\ LoadsKept(t, d)
      /\ \A b \in Attempts \ {a} : work'[t][b][d] = work[t][b][d]
      /\ work'[t][a][d].at = x
  BY GoesKept
<1>2. stores' \in [Pages -> [Files -> Attempts \cup {0}]]
  BY DEF IInv, TypeOK
<1> QED
  BY <1>1, <1>2, QuietKept

LEMMA QuietlyFails ==
  ASSUME IInv, NEW t \in Pages, NEW d \in Files, NEW B \in SUBSET Attempts, NEW S, S = { <<b, d>> : b \in B },
         \A b \in B : work[t][b][d].at \notin Settled, Failed(t, S),
         UNCHANGED <<plan, avail, dir, verified, fresh>>,
         stores' \in [Pages -> [Files -> Attempts \cup {0}]]
  PROVE  IInv'
<1>1. FailedEffect(t, d, B)
  BY FailedKept, Zenon
<1> QED
  BY <1>1, QuietKept DEF FailedEffect

(* Those who share a store.                                                   *)
LEMMA SharingIs ==
  ASSUME NEW t \in Pages, NEW a \in Attempts, NEW d \in Files, work[t][a][d].at \notin Settled
  PROVE  \E B \in SUBSET Attempts :
           /\ Sharing(t, a, d) = { <<b, d>> : b \in B } /\ a \in B
           /\ \A b \in B : work[t][b][d].at \notin Settled
<1> DEFINE B == {a} \cup { b \in Attempts : At(t, b, d, "shared") }
<1>1. Sharing(t, a, d) = { <<b, d>> : b \in B }
  BY DEF Sharing
<1>2. \A b \in B : work[t][b][d].at \notin Settled
  BY DEF At, Settled
<1> QED
  BY <1>1, <1>2

LEMMA StoresEnd ==
  ASSUME TypeOK, NEW t \in Pages, NEW d \in Files, StoreEnds(t, d)
  PROVE  stores' \in [Pages -> [Files -> Attempts \cup {0}]]
BY DEF TypeOK, StoreEnds

LEMMA StoreFailsKept ==
  ASSUME IInv, NEW t \in Pages, NEW a \in Attempts, NEW d \in Files, work[t][a][d].at \notin Settled,
         StoreEnds(t, d), Failed(t, Sharing(t, a, d)), UNCHANGED <<plan, avail, dir, verified, fresh>>
  PROVE  IInv'
<1>1. PICK B \in SUBSET Attempts :
         /\ Sharing(t, a, d) = { <<b, d>> : b \in B } /\ a \in B
         /\ \A b \in B : work[t][b][d].at \notin Settled
  BY SharingIs
<1>2. stores' \in [Pages -> [Files -> Attempts \cup {0}]]
  BY StoresEnd DEF IInv
<1> QED
  BY <1>1, <1>2, QuietlyFails

(* The entry changes.                                                         *)
LEMMA EntryChanges ==
  ASSUME IInv, NEW t \in Pages, NEW a \in Attempts, NEW d \in Files, NEW c \in {"none", "short", "whole"},
         Entry(d, c), fresh' = Stale(d), c = "whole" => Honest(d), UNCHANGED <<plan, avail>>,
         verified' \in [Pages -> SUBSET Files],
         \A u \in Pages, e \in Files : e # d /\ e \in verified'[u] => e \in verified[u],
         WorksKept(t, d), LoadsKept(t, d), stores' \in [Pages -> [Files -> Attempts \cup {0}]],
         work[t][a][d].at \notin Settled, work'[t][a][d].at # "digest", load'[t][a] # "loaded"
  PROVE  IInv'
<1>1. dir' \in [Files -> Contents] /\ dir'[d] = c /\ \A e \in Files \ {d} : dir'[e] = dir[e]
  BY DEF Entry, IInv, TypeOK, Contents
<1>2. EntryKept(t, d)
  BY <1>1 DEF EntryKept
<1>3. FreshKept(t, d)
  BY DEF FreshKept
<1> QED
  BY <1>2, <1>3, Kept

LEMMA NotLoaded ==
  ASSUME IInv, NEW t \in Pages, NEW a \in Attempts, NEW d \in Files, work[t][a][d].at \notin Settled
  PROVE  load[t][a] # "loaded" /\ d \in Needed
<1>1. LoadOK(t, a) /\ Sound(work[t][a][d], d)
  BY DEF IInv
<1>2. d \in Needed /\ ~At(t, a, d, "done")
  BY <1>1 DEF Sound, Settled, At
<1> QED
  BY <1>1, <1>2 DEF LoadOK, Needed

-----------------------------------------------------------------------------
(* What happens to an artifact of an attempt, action by action.               *)
LEMMA FailsAlone ==
  ASSUME IInv, NEW t \in Pages, NEW a \in Attempts, NEW d \in Files, work[t][a][d].at \notin Settled,
         Failed(t, {<<a, d>>}), UNCHANGED <<plan, avail, dir, verified, fresh>>,
         stores' \in [Pages -> [Files -> Attempts \cup {0}]]
  PROVE  IInv'
<1>1. {<<a, d>>} = { <<b, d>> : b \in {a} } /\ {a} \in SUBSET Attempts
  OBVIOUS
<1>2. \A b \in {a} : work[t][b][d].at \notin Settled
  OBVIOUS
<1> QED
  BY <1>1, <1>2, QuietlyFails, Zenon

LEMMA StoresStay ==
  ASSUME TypeOK, UNCHANGED stores
  PROVE  stores' \in [Pages -> [Files -> Attempts \cup {0}]]
BY DEF TypeOK

LEMMA LookedUpKeeps ==
  ASSUME IInv, NEW t \in Pages, NEW a \in Attempts, NEW d \in Files, LookedUp(t, a, d)
  PROVE  IInv'
<1>1. PICK x \in {"fetch", "handle"} : Goes(t, a, d, x)
  <2>1. CASE dir[d] = "none"
    BY <2>1 DEF LookedUp
  <2>2. CASE dir[d] # "none"
    BY <2>2 DEF LookedUp
  <2> QED
    BY <2>1, <2>2
<1>2. work[t][a][d].at \notin Settled /\ UNCHANGED <<plan, avail, dir, verified, fresh, stores, load, promise>>
  BY DEF LookedUp, At, Settled, net, shared, page
<1> QED
  BY <1>1, <1>2, QuietlyGoes DEF Cached, Held, Promoting, Storing

(* A work is set to one that is somewhere else.                               *)
LEMMA BecomesQuietly ==
  ASSUME IInv, NEW t \in Pages, NEW a \in Attempts, NEW d \in Files, NEW w \in WorkType,
         work[t][a][d].at \notin Settled, Sound(w, d), w.at \notin {"digest", "check"},
         Becomes(t, a, d, w), UNCHANGED <<plan, avail, dir, verified, fresh, load, promise>>,
         stores' \in [Pages -> [Files -> Attempts \cup {0}]]
  PROVE  IInv'
<1>1. /\ WorksKept(t, d) /\ LoadsKept(t, d)
      /\ work'[t][a][d] = w /\ \A b \in Attempts \ {a} : work'[t][b][d] = work[t][b][d]
  BY BecomesKept
<1>2. \A b \in Attempts : work'[t][b][d] # work[t][b][d] => work'[t][b][d].at \notin {"check", "digest"}
  BY <1>1
<1> QED
  BY <1>1, <1>2, QuietKept

LEMMA GotAlone ==
  ASSUME IInv, NEW t \in Pages, NEW a \in Attempts, NEW d \in Files, work[t][a][d].at \notin Settled,
         Got(t, d, {<<a, d>>}, "whole"), Honest(d)
  PROVE  GotEffect(t, d, {a})
<1>1. {<<a, d>>} = { <<b, d>> : b \in {a} } /\ {a} \in SUBSET Attempts
  OBVIOUS
<1>2. \A b \in {a} : work[t][b][d].at \notin Settled
  OBVIOUS
<1> QED
  BY <1>1, <1>2, GotKept, Zenon

LEMMA GotFileKeeps ==
  ASSUME IInv, NEW t \in Pages, NEW a \in Attempts, NEW d \in Files, GotFile(t, a, d)
  PROVE  IInv'
<1>1. /\ work[t][a][d].at = "handle" /\ work[t][a][d].at \notin Settled
      /\ UNCHANGED <<plan, avail, dir, verified, stores>>
  BY DEF GotFile, At, Settled, net, shared
<1>2. TypeOK /\ dir[d] \in Contents /\ EntryOK(d) /\ Sound(work[t][a][d], d)
  BY DEF IInv, TypeOK
<1>3. stores' \in [Pages -> [Files -> Attempts \cup {0}]]
  BY <1>1, <1>2, StoresStay
<1>4. PICK v \in WorkType : v = work[t][a][d]
  BY <1>2, WorkIs
<1>5. CASE dir[d] = "none"
  <2>1. Failed(t, {<<a, d>>}) /\ UNCHANGED fresh
    BY <1>5 DEF GotFile
  <2> QED
    BY <1>1, <1>3, <2>1, FailsAlone
<1>6. CASE dir[d] = "short"
  <2>1. /\ work' = [work EXCEPT ![t][a][d] = [work[t][a][d] EXCEPT !.at = "evict", !.file = "short"]]
        /\ UNCHANGED <<page, fresh>>
    BY <1>2, <1>6 DEF GotFile, TypeOK
  <2>2. PICK w : w = [v EXCEPT !.at = "evict", !.file = "short"]
    OBVIOUS
  <2>3. w \in WorkType /\ w.at = "evict" /\ w.file = "short"
    BY <2>2 DEF WorkType, Cached, Contents
  <2>4. Becomes(t, a, d, w)
    BY <1>4, <2>1, <2>2, Zenon DEF Becomes
  <2>5. Sound(w, d)
    BY <1>1, <1>2, <2>3 DEF Sound, Promoting, Storing, Held
  <2> QED
    BY <1>1, <1>3, <2>1, <2>3, <2>4, <2>5, BecomesQuietly DEF page
<1>7. CASE dir[d] \in {"wrong", "whole"} /\ d \in verified[t]
  <2>1. Got(t, d, {<<a, d>>}, dir[d]) /\ fresh' = fresh \cup {<<t, a, d>>}
    BY <1>7 DEF GotFile
  <2>2. dir[d] = "whole" /\ Honest(d)
    BY <1>2, <1>7 DEF EntryOK, Trusted
  <2>3. GotEffect(t, d, {a})
    BY <1>1, <2>1, <2>2, GotAlone
  <2>4. EntryKept(t, d)
    BY <1>1, <2>2 DEF EntryKept, IInv, TypeOK
  <2>5. FreshKept(t, d)
    BY <2>1, <2>3 DEF FreshKept, GotEffect, At, Held
  <2> QED
    BY <1>1, <1>3, <2>3, <2>4, <2>5, Kept DEF GotEffect
<1>8. CASE dir[d] \in {"wrong", "whole"} /\ d \notin verified[t]
  <2>1. /\ work' = [work EXCEPT ![t][a][d] = [work[t][a][d] EXCEPT !.at = "digest", !.file = dir[d]]]
        /\ fresh' = fresh \cup {<<t, a, d>>} /\ UNCHANGED page
    BY <1>2, <1>8 DEF GotFile, TypeOK
  <2>2. PICK w : w = [v EXCEPT !.at = "digest", !.file = dir[d]]
    OBVIOUS
  <2>3. w \in WorkType /\ w.at = "digest" /\ w.file = dir[d]
    BY <1>2, <2>2 DEF WorkType, Cached
  <2>4. Becomes(t, a, d, w)
    BY <1>4, <2>1, <2>2, Zenon DEF Becomes
  <2>5. Sound(w, d)
    BY <1>1, <1>2, <1>8, <2>3 DEF Sound, Promoting, Storing, Held, EntryOK
  <2>6. /\ WorksKept(t, d) /\ LoadsKept(t, d)
        /\ work'[t][a][d] = w /\ \A b \in Attempts \ {a} : work'[t][b][d] = work[t][b][d]
    BY <1>1, <2>1, <2>3, <2>4, <2>5, BecomesKept, ZenonT(60) DEF page
  <2>7. EntryKept(t, d)
    BY <1>1, <1>2, <2>3, <2>6 DEF EntryKept, IInv, TypeOK, EntryOK
  <2>8. FreshKept(t, d)
    BY <2>1, <2>6 DEF FreshKept, At, page
  <2> QED
    BY <1>1, <1>3, <2>6, <2>7, <2>8, Kept
<1> QED
  BY <1>2, <1>5, <1>6, <1>7, <1>8 DEF Contents

LEMMA DigestedKeeps ==
  ASSUME StreamsTold, IInv, NEW t \in Pages, NEW a \in Attempts, NEW d \in Files, Digested(t, a, d)
  PROVE  IInv'
<1>1. /\ work[t][a][d].at = "digest" /\ work[t][a][d].at \notin Settled
      /\ UNCHANGED <<plan, avail, dir, fresh, stores>>
  BY DEF Digested, At, Settled, net, shared
<1>2. TypeOK /\ EntryOK(d) /\ Sound(work[t][a][d], d)
  BY DEF IInv
<1>3. stores' \in [Pages -> [Files -> Attempts \cup {0}]]
  BY <1>1, <1>2, StoresStay
<1>4. CASE Verified(work[t][a][d].file)
  <2>1. Got(t, d, {<<a, d>>}, "whole") /\ verified' = [verified EXCEPT ![t] = @ \cup {d}]
    BY <1>4 DEF Digested
  <2>2. work[t][a][d].file = "whole" /\ Honest(d)
    <3>1. plan.stream \in Streams
      BY <1>2, PlanFacts
    <3>2. ~Verified("wrong")
      BY <3>1 DEF Verified, ConsumeVerifiedStream, StreamsTold
    <3> QED
      BY <1>1, <1>2, <1>4, <3>2 DEF Sound
  <2>3. GotEffect(t, d, {a})
    BY <1>1, <2>1, <2>2, GotAlone
  <2>4. dir[d] # "wrong"
    BY <1>1, <1>2, <2>2 DEF EntryOK, Trusted, At
  <2>5. verified' \in [Pages -> SUBSET Files] /\ \A u \in Pages, e \in Files \ {d} : e \in verified'[u] => e \in verified[u]
    BY <1>2, <2>1 DEF TypeOK
  <2>6. EntryKept(t, d)
    BY <1>1, <2>2, <2>4, <2>5 DEF EntryKept, IInv, TypeOK
  <2>7. FreshKept(t, d)
    BY <1>1, <2>3 DEF FreshKept, GotEffect, At, Held
  <2> QED
    BY <1>1, <1>3, <2>3, <2>6, <2>7, Kept DEF GotEffect
<1>5. CASE ~Verified(work[t][a][d].file)
  <2>1. Goes(t, a, d, "evict") /\ UNCHANGED <<page, verified>>
    BY <1>5 DEF Digested
  <2> QED
    BY <1>1, <2>1, QuietlyGoes DEF Cached, Held, Promoting, Storing, page
<1> QED
  BY <1>4, <1>5

LEMMA EvictedKeeps ==
  ASSUME IInv, NEW t \in Pages, NEW a \in Attempts, NEW d \in Files, Evicted(t, a, d)
  PROVE  IInv'
<1>1. work[t][a][d].at = "evict" /\ work[t][a][d].at \notin Settled /\ UNCHANGED <<plan, avail, stores>>
  BY DEF Evicted, At, Settled, net
<1>2. TypeOK /\ Sound(work[t][a][d], d) /\ load[t][a] # "loaded"
  BY <1>1, NotLoaded DEF IInv
<1>3. stores' \in [Pages -> [Files -> Attempts \cup {0}]]
  BY <1>1, <1>2, StoresStay
<1>4. CASE Locked(d)
  <2>1. Failed(t, {<<a, d>>}) /\ UNCHANGED <<dir, fresh, verified>>
    BY <1>4 DEF Evicted
  <2> QED
    BY <1>1, <1>3, <2>1, FailsAlone
<1>5. CASE ~Locked(d)
  <2>1. /\ Entry(d, "none") /\ fresh' = Stale(d) /\ Goes(t, a, d, "fetch") /\ UNCHANGED <<load, promise>>
        /\ verified' = IF work[t][a][d].file = "short" THEN [verified EXCEPT ![t] = @ \ {d}] ELSE verified
    BY <1>5 DEF Evicted, page
  <2>2. /\ verified' \in [Pages -> SUBSET Files]
        /\ \A u \in Pages, e \in Files : e # d /\ e \in verified'[u] => e \in verified[u]
    BY <1>2, <2>1 DEF TypeOK
  <2>3. WorksKept(t, d) /\ LoadsKept(t, d) /\ work'[t][a][d].at = "fetch"
    BY <1>1, <2>1, GoesKept DEF Promoting, Storing, Held
  <2> QED
    BY <1>1, <1>2, <1>3, <2>1, <2>2, <2>3, EntryChanges
<1> QED
  BY <1>4, <1>5

(* A download is begun with what has come.                                    *)
LEMMA StoreBegins ==
  ASSUME IInv, NEW t \in Pages, NEW a \in Attempts, NEW d \in Files, NEW b \in {"whole", "wrong"},
         work[t][a][d].at = "fetch", b = "whole" => Honest(d),
         work' = [work EXCEPT ![t][a][d] = [work[t][a][d] EXCEPT !.at = "temp", !.body = b]],
         stores' = [stores EXCEPT ![t][d] = a],
         UNCHANGED <<plan, avail, dir, verified, fresh, load, promise>>
  PROVE  IInv'
<1>1. TypeOK /\ Sound(work[t][a][d], d)
  BY DEF IInv
<1>2. PICK v \in WorkType : v = work[t][a][d]
  BY <1>1, WorkIs
<1>3. PICK w : w = [v EXCEPT !.at = "temp", !.body = b]
  OBVIOUS
<1>4. w \in WorkType /\ w.at = "temp" /\ w.body = b /\ w.file = v.file
  BY <1>3, WorkStores, ZenonT(60)
<1>5. Becomes(t, a, d, w)
  BY <1>2, <1>3, Zenon DEF Becomes
<1>6. Sound(w, d)
  BY <1>1, <1>2, <1>4 DEF Sound, Promoting, Storing, Held
<1>7. stores' \in [Pages -> [Files -> Attempts \cup {0}]]
  BY <1>1 DEF TypeOK
<1> QED
  BY <1>4, <1>5, <1>6, <1>7, BecomesQuietly DEF Settled

LEMMA ServedIs ==
  ASSUME NEW t \in Pages, NEW d \in Files
  PROVE  /\ Served(t, d) \in {"none", "wrong", "whole"}
         /\ Served(t, d) = "whole" => Honest(d)
BY Zenon DEF Served, Honest

LEMMA ToldWrong ==
  ASSUME StreamsTold, TypeOK
  PROVE  ~Verified("wrong")
<1>1. plan.stream \in Streams
  BY PlanFacts
<1> QED
  BY <1>1 DEF Verified, ConsumeVerifiedStream, StreamsTold

LEMMA FetchedKeeps ==
  ASSUME StreamsTold, IInv, NEW t \in Pages, NEW a \in Attempts, NEW d \in Files, Fetched(t, a, d)
  PROVE  IInv'
<1>1. /\ work[t][a][d].at = "fetch" /\ work[t][a][d].at \notin Settled
      /\ UNCHANGED <<plan, avail, dir, verified, fresh>>
  BY DEF Fetched, At, Settled, net, shared
<1>2. TypeOK /\ Sound(work[t][a][d], d) /\ EntryOK(d)
  BY DEF IInv
<1>3. PICK body \in {"none", "wrong", "whole"} : body = Served(t, d) /\ (body = "whole" => Honest(d))
  BY ServedIs
<1>4. CASE body = "none" \/ (plan.cache = "none" /\ ~Verified(body))
  <2>1. Failed(t, {<<a, d>>}) /\ UNCHANGED stores
    <3>1. /\ body = "none" => Failed(t, {<<a, d>>})
          /\ body = "none" => UNCHANGED stores
      BY <1>3 DEF Fetched
    <3>2. CASE body # "none" /\ plan.cache = "none" /\ ~Verified(body)
      BY <1>3, <3>2 DEF Fetched
    <3> QED
      BY <1>4, <3>1, <3>2
  <2>2. stores' \in [Pages -> [Files -> Attempts \cup {0}]]
    BY <1>2, <2>1, StoresStay
  <2> QED
    BY <1>1, <2>1, <2>2, FailsAlone
<1>5. CASE body # "none" /\ plan.cache = "none" /\ Verified(body)
  <2>1. Got(t, d, {<<a, d>>}, body) /\ UNCHANGED stores
    BY <1>3, <1>5 DEF Fetched
  <2>2. body = "whole"
    BY <1>2, <1>3, <1>5, ToldWrong
  <2>3. GotEffect(t, d, {a})
    BY <1>1, <1>3, <2>1, <2>2, GotAlone
  <2>4. EntryKept(t, d)
    BY <1>1, <1>2, <2>3 DEF EntryKept, IInv, TypeOK, EntryOK, GotEffect, Held
  <2>5. FreshKept(t, d)
    BY <1>1, <1>5 DEF FreshKept
  <2>6. stores' \in [Pages -> [Files -> Attempts \cup {0}]]
    BY <1>2, <2>1, StoresStay
  <2> QED
    BY <1>1, <2>3, <2>4, <2>5, <2>6, Kept DEF GotEffect
<1>6. CASE body # "none" /\ plan.cache # "none"
  <2>1. /\ UNCHANGED <<load, promise>>
        /\ IF stores[t][d] # 0 THEN Goes(t, a, d, "shared") /\ UNCHANGED stores
           ELSE /\ stores' = [stores EXCEPT ![t][d] = a]
                /\ work' = [work EXCEPT ![t][a][d] = [work[t][a][d] EXCEPT !.at = "temp", !.body = body]]
    BY <1>2, <1>3, <1>6 DEF Fetched, page, TypeOK
  <2>2. CASE stores[t][d] # 0
    BY <1>1, <2>1, <2>2, QuietlyGoes DEF Cached, Held, Promoting, Storing
  <2>3. CASE stores[t][d] = 0
    <3>1. body \in {"whole", "wrong"}
      BY <1>3, <1>6
    <3>2. /\ stores' = [stores EXCEPT ![t][d] = a]
          /\ work' = [work EXCEPT ![t][a][d] = [work[t][a][d] EXCEPT !.at = "temp", !.body = body]]
      BY <2>1, <2>3
    <3> QED
      BY <1>1, <1>3, <2>1, <3>1, <3>2, StoreBegins, Zenon
  <2> QED
    BY <2>2, <2>3
<1> QED
  BY <1>4, <1>5, <1>6

LEMMA FetchFailsKeeps ==
  ASSUME IInv, NEW t \in Pages, NEW a \in Attempts, NEW d \in Files, FetchFails(t, a, d)
  PROVE  IInv'
<1>1. /\ work[t][a][d].at \notin Settled /\ Failed(t, {<<a, d>>})
      /\ UNCHANGED <<plan, avail, dir, verified, fresh, stores>>
  BY DEF FetchFails, At, Settled, net, shared
<1>2. stores' \in [Pages -> [Files -> Attempts \cup {0}]]
  BY <1>1, StoresStay DEF IInv
<1> QED
  BY <1>1, <1>2, FailsAlone

LEMMA ReadBlobFailsKeeps ==
  ASSUME IInv, NEW t \in Pages, NEW a \in Attempts, NEW d \in Files, ReadBlobFails(t, a, d)
  PROVE  IInv'
<1>1. /\ work[t][a][d].at \notin Settled /\ Failed(t, {<<a, d>>})
      /\ UNCHANGED <<plan, avail, dir, verified, fresh, stores>>
  BY DEF ReadBlobFails, At, Settled, net, shared
<1>2. stores' \in [Pages -> [Files -> Attempts \cup {0}]]
  BY <1>1, StoresStay DEF IInv
<1> QED
  BY <1>1, <1>2, FailsAlone

LEMMA DigestFailsKeeps ==
  ASSUME IInv, NEW t \in Pages, NEW a \in Attempts, NEW d \in Files, DigestFails(t, a, d)
  PROVE  IInv'
<1>1. /\ work[t][a][d].at \notin Settled /\ Failed(t, {<<a, d>>})
      /\ UNCHANGED <<plan, avail, dir, verified, fresh, stores>>
  BY DEF DigestFails, At, Settled, net, shared
<1>2. stores' \in [Pages -> [Files -> Attempts \cup {0}]]
  BY <1>1, StoresStay DEF IInv
<1> QED
  BY <1>1, <1>2, FailsAlone

LEMMA FetchedWrongKeeps ==
  ASSUME IInv, NEW t \in Pages, NEW a \in Attempts, NEW d \in Files, FetchedWrong(t, a, d)
  PROVE  IInv'
<1>1. /\ work[t][a][d].at = "fetch" /\ stores' = [stores EXCEPT ![t][d] = a]
      /\ UNCHANGED <<plan, avail, dir, verified, fresh, load, promise>>
  BY DEF FetchedWrong, At, net, shared, page
<1>2. work' = [work EXCEPT ![t][a][d] = [work[t][a][d] EXCEPT !.at = "temp", !.body = "wrong"]]
  BY DEF FetchedWrong, IInv, TypeOK
<1> QED
  BY <1>1, <1>2, StoreBegins

LEMMA TempOpenedKeeps ==
  ASSUME IInv, NEW t \in Pages, NEW a \in Attempts, NEW d \in Files, TempOpened(t, a, d)
  PROVE  IInv'
<1>1. /\ work[t][a][d].at = "temp" /\ work[t][a][d].at \notin Settled /\ Goes(t, a, d, "stream")
      /\ UNCHANGED <<plan, avail, dir, verified, fresh, stores, load, promise>>
  BY DEF TempOpened, At, Settled, net, page
<1>2. Sound(work[t][a][d], d)
  BY DEF IInv
<1> QED
  BY <1>1, <1>2, QuietlyGoes DEF Sound, Cached, Held, Promoting, Storing

LEMMA TempFailsKeeps ==
  ASSUME IInv, NEW t \in Pages, NEW a \in Attempts, NEW d \in Files, TempFails(t, a, d)
  PROVE  IInv'
<1>1. /\ work[t][a][d].at \notin Settled /\ StoreEnds(t, d) /\ Failed(t, Sharing(t, a, d))
      /\ UNCHANGED <<plan, avail, dir, verified, fresh>>
  BY DEF TempFails, At, Settled, net
<1> QED
  BY <1>1, StoreFailsKept

LEMMA StreamedKeeps ==
  ASSUME StreamsTold, IInv, NEW t \in Pages, NEW a \in Attempts, NEW d \in Files, Streamed(t, a, d)
  PROVE  IInv'
<1>1. /\ work[t][a][d].at = "stream" /\ work[t][a][d].at \notin Settled /\ UNCHANGED <<plan, avail>>
  BY DEF Streamed, At, Settled, net
<1>2. TypeOK /\ Sound(work[t][a][d], d) /\ work[t][a][d] \in WorkType
  BY WorkIs DEF IInv
<1>3. CASE Verified(work[t][a][d].body)
  <2>1. PICK x \in {"clear", "create"} : Goes(t, a, d, x)
    BY <1>3 DEF Streamed
  <2>2. UNCHANGED <<dir, verified, fresh, stores, load, promise>>
    BY <1>3 DEF Streamed, shared, page
  <2>3. work[t][a][d].body = "whole"
    BY <1>2, <1>3, ToldWrong, WorkFields
  <2> QED
    BY <1>1, <1>2, <2>1, <2>2, <2>3, QuietlyGoes DEF Sound, Cached, Held, Promoting, Storing
<1>4. CASE ~Verified(work[t][a][d].body)
  <2>1. StoreEnds(t, d) /\ Failed(t, Sharing(t, a, d)) /\ UNCHANGED <<dir, fresh, verified>>
    BY <1>4 DEF Streamed, StoreFails
  <2> QED
    BY <1>1, <2>1, StoreFailsKept
<1> QED
  BY <1>3, <1>4

LEMMA StreamFailsKeeps ==
  ASSUME IInv, NEW t \in Pages, NEW a \in Attempts, NEW d \in Files,
         StreamFails(t, a, d) \/ MoveFails(t, a, d)
  PROVE  IInv'
<1>1. /\ work[t][a][d].at \notin Settled /\ StoreFails(t, a, d) /\ UNCHANGED <<plan, avail>>
  BY DEF StreamFails, MoveFails, At, Settled, net
<1>2. StoreEnds(t, d) /\ Failed(t, Sharing(t, a, d)) /\ UNCHANGED <<dir, fresh, verified>>
  BY <1>1 DEF StoreFails
<1> QED
  BY <1>1, <1>2, StoreFailsKept

LEMMA ClearedKeeps ==
  ASSUME IInv, NEW t \in Pages, NEW a \in Attempts, NEW d \in Files, Cleared(t, a, d)
  PROVE  IInv'
<1>1. /\ work[t][a][d].at = "clear" /\ work[t][a][d].at \notin Settled /\ Entry(d, "none")
      /\ fresh' = Stale(d) /\ Goes(t, a, d, "move")
      /\ UNCHANGED <<plan, avail, verified, stores, load, promise>>
  BY DEF Cleared, At, Settled, net, page
<1>2. TypeOK /\ Sound(work[t][a][d], d) /\ load[t][a] # "loaded"
  BY <1>1, NotLoaded DEF IInv
<1>3. WorksKept(t, d) /\ LoadsKept(t, d) /\ work'[t][a][d].at = "move"
  BY <1>1, <1>2, GoesKept DEF Sound, Promoting, Storing, Held
<1>4. stores' \in [Pages -> [Files -> Attempts \cup {0}]] /\ verified' \in [Pages -> SUBSET Files]
  BY <1>1, <1>2 DEF TypeOK
<1> QED
  BY <1>1, <1>2, <1>3, <1>4, EntryChanges

(* The entry becomes the file that was verified as it came.                   *)
LEMMA CopiedKeeps ==
  ASSUME IInv, NEW t \in Pages, NEW a \in Attempts, NEW d \in Files, Moved(t, a, d) \/ Copied(t, a, d)
  PROVE  IInv'
<1>1. /\ work[t][a][d].at \in Promoting /\ work[t][a][d].at \notin Settled /\ Entry(d, work[t][a][d].body)
      /\ fresh' = Stale(d) /\ Goes(t, a, d, "check")
      /\ UNCHANGED <<plan, avail, verified, stores, load, promise>>
  BY DEF Moved, Copied, At, Settled, Promoting, net, page
<1>2. TypeOK /\ Sound(work[t][a][d], d) /\ load[t][a] # "loaded"
  BY <1>1, NotLoaded DEF IInv
<1>3. work[t][a][d].body = "whole" /\ Honest(d)
  BY <1>1, <1>2 DEF Sound, Storing
<1>4. WorksKept(t, d) /\ LoadsKept(t, d) /\ work'[t][a][d].at = "check"
  BY <1>1, <1>2, <1>3, GoesKept DEF Promoting, Storing, Held
<1>5. stores' \in [Pages -> [Files -> Attempts \cup {0}]] /\ verified' \in [Pages -> SUBSET Files]
  BY <1>1, <1>2 DEF TypeOK
<1>6. Entry(d, "whole")
  BY <1>1, <1>3 DEF Entry
<1> QED
  BY <1>1, <1>2, <1>3, <1>4, <1>5, <1>6, EntryChanges

LEMMA CreatedKeeps ==
  ASSUME IInv, NEW t \in Pages, NEW a \in Attempts, NEW d \in Files, Created(t, a, d)
  PROVE  IInv'
<1>1. /\ work[t][a][d].at = "create" /\ work[t][a][d].at \notin Settled
      /\ dir' = [dir EXCEPT ![d] = IF dir[d] = "none" THEN "short" ELSE dir[d]]
      /\ Goes(t, a, d, "open") /\ UNCHANGED <<plan, avail, fresh, verified, stores, load, promise>>
  BY DEF Created, At, Settled, Entry, net, page
<1>2. TypeOK /\ Sound(work[t][a][d], d) /\ EntryOK(d)
  BY DEF IInv
<1>3. /\ WorksKept(t, d) /\ LoadsKept(t, d) /\ work'[t][a][d].at = "open"
      /\ \A b \in Attempts \ {a} : work'[t][b][d] = work[t][b][d]
  BY <1>1, <1>2, GoesKept DEF Sound, Promoting, Storing, Held
<1>4. stores' \in [Pages -> [Files -> Attempts \cup {0}]]
  BY <1>1, <1>2 DEF TypeOK
<1>5. EntryKept(t, d)
  <2>1. dir' \in [Files -> Contents] /\ \A e \in Files \ {d} : dir'[e] = dir[e]
    BY <1>1, <1>2 DEF TypeOK, Contents
  <2>2. dir'[d] # "short" => dir'[d] = dir[d]
    BY <1>1, <1>2 DEF TypeOK
  <2> QED
    BY <1>1, <1>2, <1>3, <2>1, <2>2 DEF EntryKept, EntryOK, TypeOK
<1>6. FreshKept(t, d)
  BY <1>1, <1>3 DEF FreshKept, At
<1> QED
  BY <1>1, <1>3, <1>4, <1>5, <1>6, Kept

LEMMA CopyOpenedKeeps ==
  ASSUME IInv, NEW t \in Pages, NEW a \in Attempts, NEW d \in Files, CopyOpened(t, a, d)
  PROVE  IInv'
<1>1. work[t][a][d].at = "open" /\ work[t][a][d].at \notin Settled /\ UNCHANGED <<plan, avail>>
  BY DEF CopyOpened, At, Settled, net
<1>2. Sound(work[t][a][d], d)
  BY DEF IInv
<1>3. CASE dir[d] = "none"
  <2>1. StoreEnds(t, d) /\ Failed(t, Sharing(t, a, d)) /\ UNCHANGED <<dir, fresh, verified>>
    BY <1>3 DEF CopyOpened, StoreFails
  <2> QED
    BY <1>1, <2>1, StoreFailsKept
<1>4. CASE dir[d] # "none"
  <2>1. Goes(t, a, d, "copying") /\ UNCHANGED <<dir, verified, fresh, stores, load, promise>>
    BY <1>4 DEF CopyOpened, shared, page
  <2> QED
    BY <1>1, <1>2, <2>1, QuietlyGoes DEF Sound, Promoting, Storing, Held
<1> QED
  BY <1>3, <1>4

LEMMA CopyFailsKeeps ==
  ASSUME IInv, NEW t \in Pages, NEW a \in Attempts, NEW d \in Files, CopyFails(t, a, d)
  PROVE  IInv'
<1>1. /\ work[t][a][d].at = "copying" /\ work[t][a][d].at \notin Settled /\ Goes(t, a, d, "undo")
      /\ UNCHANGED <<plan, avail, dir, verified, fresh, stores, load, promise>>
  BY DEF CopyFails, At, Settled, net, shared, page
<1>2. Sound(work[t][a][d], d)
  BY DEF IInv
<1> QED
  BY <1>1, <1>2, QuietlyGoes DEF Sound, Promoting, Storing, Held

LEMMA CopyUndoneKeeps ==
  ASSUME IInv, NEW t \in Pages, NEW a \in Attempts, NEW d \in Files, CopyUndone(t, a, d)
  PROVE  IInv'
<1>1. /\ work[t][a][d].at \notin Settled /\ UNCHANGED <<plan, avail, verified>>
      /\ StoreEnds(t, d) /\ Failed(t, Sharing(t, a, d))
  BY DEF CopyUndone, At, Settled, net
<1>2. TypeOK
  BY DEF IInv
<1>3. CASE Locked(d)
  <2>1. UNCHANGED <<dir, fresh>>
    BY <1>3 DEF CopyUndone
  <2> QED
    BY <1>1, <2>1, StoreFailsKept
<1>4. CASE ~Locked(d)
  <2>1. Entry(d, "none") /\ fresh' = Stale(d)
    BY <1>4 DEF CopyUndone
  <2>2. PICK B \in SUBSET Attempts :
           /\ Sharing(t, a, d) = { <<b, d>> : b \in B } /\ a \in B
           /\ \A b \in B : work[t][b][d].at \notin Settled
    BY <1>1, SharingIs
  <2>3. FailedEffect(t, d, B)
    BY <1>1, <2>2, FailedKept
  <2>4. /\ WorksKept(t, d) /\ LoadsKept(t, d)
        /\ work'[t][a][d].at = "failed" /\ load'[t][a] # "loaded"
    BY <2>2, <2>3 DEF FailedEffect
  <2>5. stores' \in [Pages -> [Files -> Attempts \cup {0}]] /\ verified' \in [Pages -> SUBSET Files]
    BY <1>1, <1>2, StoresEnd DEF TypeOK
  <2> QED
    BY <1>1, <2>1, <2>4, <2>5, EntryChanges
<1> QED
  BY <1>3, <1>4

LEMMA PromotedKeeps ==
  ASSUME IInv, NEW t \in Pages, NEW a \in Attempts, NEW d \in Files, Promoted(t, a, d)
  PROVE  IInv'
<1>1. work[t][a][d].at = "check" /\ work[t][a][d].at \notin Settled /\ UNCHANGED <<plan, avail>>
  BY DEF Promoted, At, Settled, net
<1>2. TypeOK /\ EntryOK(d) /\ dir[d] \in Contents
  BY DEF IInv, TypeOK
<1>3. CASE dir[d] \in {"none", "short"}
  <2>1. StoreEnds(t, d) /\ Failed(t, Sharing(t, a, d)) /\ UNCHANGED <<dir, fresh, verified>>
    BY <1>3 DEF Promoted, StoreFails
  <2> QED
    BY <1>1, <2>1, StoreFailsKept
<1>4. CASE dir[d] \notin {"none", "short"}
  <2>1. /\ Got(t, d, Sharing(t, a, d), dir[d]) /\ StoreEnds(t, d) /\ UNCHANGED dir
        /\ fresh' = fresh \cup { <<t, s[1], d>> : s \in Sharing(t, a, d) }
        /\ verified' = [verified EXCEPT ![t] = @ \cup {d}]
    BY <1>4 DEF Promoted
  <2>2. dir[d] = "whole" /\ Honest(d)
    BY <1>1, <1>2, <1>4 DEF EntryOK, Trusted, At, Contents
  <2>3. PICK B \in SUBSET Attempts :
           /\ Sharing(t, a, d) = { <<b, d>> : b \in B } /\ a \in B
           /\ \A b \in B : work[t][b][d].at \notin Settled
    BY <1>1, SharingIs
  <2>4. Got(t, d, Sharing(t, a, d), "whole")
    BY <2>1, <2>2
  <2>5. GotEffect(t, d, B)
    BY <2>2, <2>3, <2>4, GotKept
  <2>6. /\ verified' \in [Pages -> SUBSET Files]
        /\ \A u \in Pages, e \in Files \ {d} : e \in verified'[u] => e \in verified[u]
    BY <1>2, <2>1 DEF TypeOK
  <2>7. EntryKept(t, d)
    BY <1>2, <2>1, <2>2, <2>6 DEF EntryKept, TypeOK
  <2>8. fresh \subseteq fresh' /\ \A b \in B : <<t, b, d>> \in fresh'
    <3> SUFFICES ASSUME NEW b \in B PROVE <<t, b, d>> \in { <<t, s[1], d>> : s \in Sharing(t, a, d) }
      BY <2>1
    <3>1. <<b, d>> \in Sharing(t, a, d) /\ <<b, d>>[1] = b
      BY <2>3
    <3> QED
      BY <3>1
  <2>9. FreshKept(t, d)
    <3> SUFFICES ASSUME NEW b \in Attempts, work'[t][b][d].at = "digest" \/ load'[t][b] = "loaded"
                 PROVE  \/ At(t, b, d, "digest") \/ load[t][b] = "loaded"
                        \/ <<t, b, d>> \in fresh'
      BY <2>8 DEF FreshKept
    <3> QED
      BY <2>5, <2>8 DEF GotEffect, At, Held
  <2>10. stores' \in [Pages -> [Files -> Attempts \cup {0}]]
    BY <1>2, <2>1, StoresEnd
  <2> QED
    BY <1>1, <2>5, <2>7, <2>9, <2>10, Kept DEF GotEffect
<1> QED
  BY <1>3, <1>4

-----------------------------------------------------------------------------
(* A page does something of its own, with the directory as it was.            *)
LEMMA PageStep ==
  ASSUME IInv, NEW t \in Pages, UNCHANGED <<plan, dir>>,
         avail' = [u \in Pages |-> avail'[u]], \A u \in Pages : avail'[u].state = "yes" => u \in plan.pages,
         verified' \in [Pages -> SUBSET Files], \A u \in Pages : verified'[u] \subseteq verified[u],
         stores' \in [Pages -> [Files -> Attempts \cup {0}]],
         work' \in [Pages -> [Attempts -> [Files -> WorkType]]],
         load' \in [Pages -> [Attempts -> {"idle", "manifest", "regular", "layer", "loaded", "failed"}]],
         promise' \in [Pages -> Attempts \cup {0}],
         \A u \in Pages \ {t} : /\ work'[u] = work[u] /\ load'[u] = load[u] /\ promise'[u] = promise[u]
                                /\ \A b \in Attempts : <<u, b, Layer>> \in fresh => <<u, b, Layer>> \in fresh',
         \A b \in Attempts, d \in Files :
           /\ Sound(work'[t][b][d], d)
           /\ work'[t][b][d] = work[t][b][d] \/ work'[t][b][d].at \notin {"check", "digest"},
         \A b \in Attempts : LoadOK(t, b)' /\ FreshOK(t, b)'
  PROVE  IInv'
<1>1. TypeOK'
  BY DEF IInv, TypeOK
<1>2. ASSUME NEW u \in Pages, NEW b \in Attempts, NEW d \in Files PROVE Sound(work[u][b][d], d)'
  <2>1. Sound(work'[u][b][d], d)
    BY DEF IInv
  <2> QED
    BY <2>1, PlanStays DEF Sound
<1>3. ASSUME NEW d \in Files PROVE EntryOK(d)'
  <2>1. EntryOK(d) /\ (Honest(d)' <=> Honest(d))
    BY PlanStays DEF IInv
  <2>2. Trusted(d)' => Trusted(d)
    <3>1. ASSUME NEW u \in Pages, NEW b \in Attempts
          PROVE  work'[u][b][d] = work[u][b][d] \/ work'[u][b][d].at \notin {"check", "digest"}
      BY <3>1
    <3>2. \A u \in Pages : d \in verified'[u] => d \in verified[u]
      OBVIOUS
    <3>3. ASSUME NEW u \in Pages, NEW b \in Attempts,
                 \/ work'[u][b][d].at = "check"
                 \/ work'[u][b][d].at = "digest" /\ work'[u][b][d].file = "whole"
          PROVE  \/ work[u][b][d].at = "check"
                 \/ work[u][b][d].at = "digest" /\ work[u][b][d].file = "whole"
      <4>1. work'[u][b][d] = work[u][b][d]
        BY <3>1, <3>3
      <4> QED
        BY <3>3, <4>1
    <3> QED
      BY <3>2, <3>3 DEF Trusted, At
  <2> QED
    BY <2>1, <2>2 DEF EntryOK
<1>4. ASSUME NEW u \in Pages, NEW b \in Attempts PROVE LoadOK(u, b)' /\ FreshOK(u, b)'
  <2>1. CASE u = t
    BY <2>1
  <2>2. CASE u # t
    <3>1. LoadOK(u, b) /\ FreshOK(u, b)
      BY DEF IInv
    <3>2. /\ work'[u][b] = work[u][b] /\ load'[u][b] = load[u][b] /\ promise'[u] = promise[u]
          /\ <<u, b, Layer>> \in fresh => <<u, b, Layer>> \in fresh'
      BY <2>2
    <3>3. LoadOK(u, b)'
      BY <3>1, <3>2, PlanStays DEF LoadOK, Under, At
    <3>4. FreshOK(u, b)'
      BY <3>1, <3>2, PlanStays DEF FreshOK, At
    <3> QED
      BY <3>3, <3>4
  <2> QED
    BY <2>1, <2>2
<1>5. \A u \in Pages : avail'[u].state = "yes" => u \in plan'.pages
  OBVIOUS
<1> QED
  BY <1>1, <1>2, <1>3, <1>4, <1>5 DEF IInv

(* ... with one of its loads.                                                 *)
LEMMA AttemptStep ==
  ASSUME IInv, NEW t \in Pages, NEW a \in Attempts, UNCHANGED <<plan, avail, dir, verified, stores>>,
         work' \in [Pages -> [Attempts -> [Files -> WorkType]]],
         load' \in [Pages -> [Attempts -> {"idle", "manifest", "regular", "layer", "loaded", "failed"}]],
         promise' \in [Pages -> Attempts \cup {0}],
         \A u \in Pages, b \in Attempts : <<u, b>> # <<t, a>> =>
           /\ work'[u][b] = work[u][b] /\ load'[u][b] = load[u][b]
           /\ <<u, b, Layer>> \in fresh => <<u, b, Layer>> \in fresh',
         \A u \in Pages \ {t} : promise'[u] = promise[u],
         \A b \in Attempts \ {a} : Under(t, b) => promise'[t] = promise[t],
         \A d \in Files :
           /\ Sound(work'[t][a][d], d)
           /\ work'[t][a][d] = work[t][a][d] \/ work'[t][a][d].at \notin {"check", "digest"},
         LoadOK(t, a)', load'[t][a] # "loaded", work'[t][a][Layer].at # "digest"
  PROVE  IInv'
<1>1. ASSUME NEW u \in Pages \ {t}
      PROVE  /\ work'[u] = work[u] /\ load'[u] = load[u] /\ promise'[u] = promise[u]
             /\ \A b \in Attempts : <<u, b, Layer>> \in fresh => <<u, b, Layer>> \in fresh'
  <2>1. \A b \in Attempts : <<u, b>> # <<t, a>>
    OBVIOUS
  <2>2. \A b \in Attempts : work'[u][b] = work[u][b]
    BY <2>1
  <2>3. \A b \in Attempts : load'[u][b] = load[u][b]
    BY <2>1
  <2>4. /\ work'[u] \in [Attempts -> [Files -> WorkType]] /\ work[u] \in [Attempts -> [Files -> WorkType]]
    BY DEF IInv, TypeOK
  <2>5. work'[u] = work[u]
    BY <2>2, <2>4
  <2>6. load'[u] = load[u]
    <3>1. load'[u] = [b \in Attempts |-> load'[u][b]] /\ load[u] = [b \in Attempts |-> load[u][b]]
      BY DEF IInv, TypeOK
    <3> QED
      BY <2>3, <3>1
  <2> QED
    BY <2>1, <2>5, <2>6
<1>2. ASSUME NEW b \in Attempts, NEW d \in Files
      PROVE  /\ Sound(work'[t][b][d], d)
             /\ work'[t][b][d] = work[t][b][d] \/ work'[t][b][d].at \notin {"check", "digest"}
  <2>1. CASE b = a
    BY <2>1
  <2>2. CASE b # a
    <3>1. work'[t][b][d] = work[t][b][d]
      BY <2>2
    <3>2. Sound(work[t][b][d], d)
      BY DEF IInv
    <3> QED
      BY <3>1, <3>2
  <2> QED
    BY <2>1, <2>2
<1>3. ASSUME NEW b \in Attempts PROVE LoadOK(t, b)' /\ FreshOK(t, b)'
  <2>1. CASE b = a
    BY <2>1 DEF FreshOK, At
  <2>2. CASE b # a
    <3>1. LoadOK(t, b) /\ FreshOK(t, b)
      BY DEF IInv
    <3>2. /\ work'[t][b] = work[t][b] /\ load'[t][b] = load[t][b] /\ (Under(t, b) => promise'[t] = promise[t])
          /\ <<t, b, Layer>> \in fresh => <<t, b, Layer>> \in fresh'
      BY <2>2
    <3>3. LoadOK(t, b)'
      BY <3>1, <3>2, PlanStays DEF LoadOK, Under, At
    <3>4. FreshOK(t, b)'
      BY <3>1, <3>2, PlanStays DEF FreshOK, At
    <3> QED
      BY <3>3, <3>4
  <2> QED
    BY <2>1, <2>2
<1>4. /\ avail' = [u \in Pages |-> avail'[u]] /\ \A u \in Pages : avail'[u].state = "yes" => u \in plan.pages
      /\ verified' \in [Pages -> SUBSET Files] /\ \A u \in Pages : verified'[u] \subseteq verified[u]
      /\ stores' \in [Pages -> [Files -> Attempts \cup {0}]]
  BY DEF IInv, TypeOK
<1> QED
  BY <1>1, <1>2, <1>3, <1>4, PageStep

(* A work that has only been begun.                                           *)
LEMMA AskedIs ==
  ASSUME TypeOK, NEW t \in Pages, NEW d \in Files
  PROVE  /\ Asked(t, d) \in WorkType /\ Asked(t, d).at \in {"fetch", "shared", "lookup"}
         /\ d \in Needed => Sound(Asked(t, d), d)
         /\ Sound(New, d)
<1>1. PICK x \in {"fetch", "shared", "lookup"} : Asked(t, d) = [New EXCEPT !.at = x]
  BY DEF Asked
<1>2. /\ New.at = "idle" /\ New.file = "none"
      /\ Asked(t, d) \in WorkType /\ Asked(t, d).at = x /\ Asked(t, d).file = "none"
  BY <1>1, WorkNew DEF Cached
<1> QED
  BY <1>2 DEF Sound, Promoting, Storing, Held

(* A load fails before it has begun anything.                                 *)
LEMMA RejectKeeps ==
  ASSUME IInv, NEW t \in Pages, NEW a \in Attempts, load[t][a] = "manifest", Reject(t, {a}),
         UNCHANGED <<plan, avail, dir, verified, stores, work, fresh>>
  PROVE  IInv'
<1>1. TypeOK /\ LoadOK(t, a)
  BY DEF IInv
<1>2. /\ load' = [load EXCEPT ![t] = [b \in Attempts |-> IF b = a THEN "failed" ELSE load[t][b]]]
      /\ promise' = [promise EXCEPT ![t] = IF promise[t] = a THEN 0 ELSE promise[t]]
  BY <1>1 DEF Reject, TypeOK
<1>3. /\ load' \in [Pages -> [Attempts -> {"idle", "manifest", "regular", "layer", "loaded", "failed"}]]
      /\ promise' \in [Pages -> Attempts \cup {0}] /\ load'[t][a] = "failed"
      /\ \A u \in Pages, b \in Attempts : <<u, b>> # <<t, a>> => load'[u][b] = load[u][b]
      /\ \A u \in Pages \ {t} : promise'[u] = promise[u]
      /\ promise[t] # a => promise'[t] = promise[t]
  BY <1>1, <1>2 DEF TypeOK
<1>4. \A b \in Attempts \ {a} : Under(t, b) => promise'[t] = promise[t]
  BY <1>3 DEF IInv, LoadOK
<1>5. LoadOK(t, a)'
  BY <1>1, <1>3 DEF LoadOK, Under
<1>6. work \in [Pages -> [Attempts -> [Files -> WorkType]]] /\ work'[t][a][Layer].at # "digest"
  BY <1>1 DEF TypeOK, LoadOK, Settled
<1>7. \A d \in Files : Sound(work'[t][a][d], d)
  BY DEF IInv
<1> QED
  BY <1>3, <1>4, <1>5, <1>6, <1>7, AttemptStep

LEMMA ManifestLoadedKeeps ==
  ASSUME IInv, NEW t \in Pages, NEW a \in Attempts, ManifestLoaded(t, a)
  PROVE  IInv'
<1>1. load[t][a] = "manifest" /\ UNCHANGED <<plan, avail, dir, verified, stores, fresh>>
  BY DEF ManifestLoaded, net, shared
<1>2. TypeOK /\ LoadOK(t, a)
  BY DEF IInv
<1>3. PICK q \in BOOLEAN : q <=> /\ avail[t].at \in site.places /\ ~(site.replaced /\ avail[t].at = "runtime")
                                 /\ avail[t].sha256 = "this" /\ Parsed
  OBVIOUS
<1>4. CASE q
  <2> DEFINE f(d) == IF d \in plan.regular THEN Asked(t, d) ELSE New
  <2>1. /\ load' = [load EXCEPT ![t][a] = "regular"] /\ UNCHANGED promise
        /\ work' = [work EXCEPT ![t][a] = [d \in Files |-> f(d)]]
    BY <1>3, <1>4 DEF ManifestLoaded, Parsed
  <2>2. /\ \A d \in Files : f(d) \in WorkType /\ Sound(f(d), d) /\ f(d).at \notin {"check", "digest"}
        /\ f(Layer).at = "idle"
    BY <1>2, AskedIs, WorkNew, PlanFacts DEF Needed
  <2> HIDE DEF f
  <2>3. /\ work' \in [Pages -> [Attempts -> [Files -> WorkType]]] /\ \A d \in Files : work'[t][a][d] = f(d)
        /\ \A u \in Pages, b \in Attempts : <<u, b>> # <<t, a>> => work'[u][b] = work[u][b]
    BY <1>2, <2>1, <2>2 DEF TypeOK
  <2>4. /\ load' \in [Pages -> [Attempts -> {"idle", "manifest", "regular", "layer", "loaded", "failed"}]]
        /\ promise' \in [Pages -> Attempts \cup {0}] /\ load'[t][a] = "regular"
        /\ \A u \in Pages, b \in Attempts : <<u, b>> # <<t, a>> => load'[u][b] = load[u][b]
    BY <1>2, <2>1 DEF TypeOK
  <2>5. Layer \in Files
    BY DEF Files
  <2>6. LoadOK(t, a)'
    BY <1>1, <1>2, <1>3, <1>4, <2>1, <2>2, <2>3, <2>4, <2>5, PlanStays DEF LoadOK, Under, Settled
  <2> QED
    BY <1>1, <2>1, <2>2, <2>3, <2>4, <2>5, <2>6, AttemptStep
<1>5. CASE ~q
  <2>1. Reject(t, {a}) /\ UNCHANGED work
    BY <1>3, <1>5 DEF ManifestLoaded, Parsed
  <2> QED
    BY <1>1, <2>1, RejectKeeps
<1> QED
  BY <1>4, <1>5

LEMMA ManifestFailsKeeps ==
  ASSUME IInv, NEW t \in Pages, NEW a \in Attempts, ManifestFails(t, a)
  PROVE  IInv'
<1>1. /\ load[t][a] = "manifest" /\ Reject(t, {a})
      /\ UNCHANGED <<plan, avail, dir, verified, stores, work, fresh>>
  BY DEF ManifestFails, net, shared
<1> QED
  BY <1>1, RejectKeeps

(* Two works of an attempt are set at once.                                   *)
LEMMA TwoSet ==
  ASSUME NEW f \in [Pages -> [Attempts -> [Files -> WorkType]]], NEW t \in Pages, NEW a \in Attempts,
         NEW d \in Files, NEW e \in Files, d # e, NEW w \in WorkType, NEW v \in WorkType,
         NEW g, g = [f EXCEPT ![t] = [f[t] EXCEPT ![a] = [f[t][a] EXCEPT ![d] = w, ![e] = v]]]
  PROVE  /\ g \in [Pages -> [Attempts -> [Files -> WorkType]]] /\ g[t][a][d] = w /\ g[t][a][e] = v
         /\ \A x \in Files \ {d, e} : g[t][a][x] = f[t][a][x]
         /\ \A u \in Pages, b \in Attempts : <<u, b>> # <<t, a>> => g[u][b] = f[u][b]
<1>1. PICK h : h = [f[t][a] EXCEPT ![d] = w, ![e] = v]
  OBVIOUS
<1>2. f[t][a] \in [Files -> WorkType]
  OBVIOUS
<1>3. h \in [Files -> WorkType] /\ h[d] = w /\ h[e] = v /\ \A x \in Files \ {d, e} : h[x] = f[t][a][x]
  BY <1>1, <1>2
<1>4. g = [f EXCEPT ![t] = [f[t] EXCEPT ![a] = h]]
  BY <1>1
<1>5. /\ g \in [Pages -> [Attempts -> [Files -> WorkType]]] /\ g[t][a] = h
      /\ \A u \in Pages, b \in Attempts : <<u, b>> # <<t, a>> => g[u][b] = f[u][b]
  BY <1>3, <1>4
<1> QED
  BY <1>3, <1>5

(* The last of the regular artifacts has been read.                           *)
AsksLayer(t, a, d) == work' = [work EXCEPT ![t][a][d].at = "done", ![t][a][Layer] = Asked(t, Layer)]
GetsToLayer(t, a) == load' = [load EXCEPT ![t][a] = "layer"]

LEMMA LastRead ==
  ASSUME IInv, NEW t \in Pages, NEW a \in Attempts, NEW d \in Files, work[t][a][d].at = "read",
         load[t][a] = "regular", \A e \in plan.regular \ {d} : work[t][a][e].at = "done",
         GetsToLayer(t, a), AsksLayer(t, a, d),
         UNCHANGED <<plan, avail, dir, verified, stores, fresh, promise>>
  PROVE  IInv'
<1>1. /\ TypeOK /\ LoadOK(t, a) /\ Sound(work[t][a][d], d) /\ Layer \in Files /\ Layer \in Needed
      /\ plan.regular \subseteq Files
  BY PlanFacts DEF IInv, Files, Needed
<1>2. d # Layer
  BY <1>1 DEF Sound
<1>3. PICK v \in WorkType : v = work[t][a][d]
  BY <1>1, WorkIs
<1>4. PICK w : w = [v EXCEPT !.at = "done"]
  OBVIOUS
<1>5. w \in WorkType /\ w.at = "done" /\ w.body = v.body /\ w.file = v.file
  BY <1>4, WorkGoes DEF Held
<1>6. work' = [work EXCEPT ![t] = [work[t] EXCEPT ![a] = [work[t][a] EXCEPT ![d] = w, ![Layer] = Asked(t, Layer)]]]
  <2>1. work' = [work EXCEPT ![t] = [work[t] EXCEPT ![a] =
                   [work[t][a] EXCEPT ![d] = [work[t][a][d] EXCEPT !.at = "done"], ![Layer] = Asked(t, Layer)]]]
    BY <1>1, <1>2 DEF TypeOK, AsksLayer
  <2> QED
    BY <1>3, <1>4, <2>1, Zenon
<1>7. Asked(t, Layer) \in WorkType /\ Asked(t, Layer).at \in {"fetch", "shared", "lookup"} /\ Sound(Asked(t, Layer), Layer)
  BY <1>1, AskedIs
<1>8. work \in [Pages -> [Attempts -> [Files -> WorkType]]]
  BY <1>1 DEF TypeOK
<1>9. /\ work' \in [Pages -> [Attempts -> [Files -> WorkType]]]
      /\ work'[t][a][d] = w /\ work'[t][a][Layer] = Asked(t, Layer)
      /\ \A e \in Files \ {d, Layer} : work'[t][a][e] = work[t][a][e]
      /\ \A u \in Pages, b \in Attempts : <<u, b>> # <<t, a>> => work'[u][b] = work[u][b]
  <2>1. Layer \in Files /\ Layer # d
    BY <1>1, <1>2
  <2>2. PICK x \in WorkType : x = Asked(t, Layer)
    BY <1>7
  <2>3. PICK f \in [Pages -> [Attempts -> [Files -> WorkType]]] : f = work
    BY <1>8
  <2>4. PICK g : g = work'
    OBVIOUS
  <2>5. g = [f EXCEPT ![t] = [f[t] EXCEPT ![a] = [f[t][a] EXCEPT ![d] = w, ![Layer] = x]]]
    BY <1>6, <2>2, <2>3, <2>4, Zenon
  <2>6. /\ g \in [Pages -> [Attempts -> [Files -> WorkType]]] /\ g[t][a][d] = w /\ g[t][a][Layer] = x
        /\ \A y \in Files \ {d, Layer} : g[t][a][y] = f[t][a][y]
        /\ \A u \in Pages, b \in Attempts : <<u, b>> # <<t, a>> => g[u][b] = f[u][b]
    BY <1>5, <2>1, <2>5, TwoSet
  <2> QED
    BY <2>2, <2>3, <2>4, <2>6
<1>10. /\ load' \in [Pages -> [Attempts -> {"idle", "manifest", "regular", "layer", "loaded", "failed"}]]
       /\ promise' \in [Pages -> Attempts \cup {0}] /\ load'[t][a] = "layer"
       /\ \A u \in Pages, b \in Attempts : <<u, b>> # <<t, a>> => load'[u][b] = load[u][b]
  BY <1>1 DEF TypeOK, GetsToLayer
<1>11. ASSUME NEW e \in Files
       PROVE  /\ Sound(work'[t][a][e], e)
              /\ work'[t][a][e] = work[t][a][e] \/ work'[t][a][e].at \notin {"check", "digest"}
  <2>1. CASE e = d
    BY <1>1, <1>2, <1>3, <1>5, <1>9, <2>1 DEF Sound, Promoting, Storing, Held
  <2>2. CASE e = Layer
    BY <1>7, <1>9, <2>2
  <2>3. CASE e \notin {d, Layer}
    BY <1>9, <2>3 DEF IInv
  <2> QED
    BY <2>1, <2>2, <2>3
<1>12. LoadOK(t, a)'
  <2>1. \A e \in plan.regular : work'[t][a][e].at = "done"
    <3> TAKE e \in plan.regular
    <3>1. e # Layer /\ e \in Files
      BY <1>1, PlanFacts
    <3> QED
      BY <1>5, <1>9, <3>1
  <2> QED
    BY <1>1, <1>10, <2>1, PlanStays DEF LoadOK, Under, At
<1>13. /\ load'[t][a] # "loaded" /\ work'[t][a][Layer].at # "digest"
       /\ \A u \in Pages : promise'[u] = promise[u]
       /\ \A u \in Pages, b \in Attempts : <<u, b, Layer>> \in fresh => <<u, b, Layer>> \in fresh'
  BY <1>7, <1>9, <1>10
<1> QED
  BY <1>9, <1>10, <1>11, <1>12, <1>13, AttemptStep, ZenonT(60)

LEMMA ReadBlobKeeps ==
  ASSUME IInv, NEW t \in Pages, NEW a \in Attempts, NEW d \in Files, ReadBlob(t, a, d)
  PROVE  IInv'
<1>1. /\ work[t][a][d].at = "read" /\ work[t][a][d].at \notin Settled
      /\ UNCHANGED <<plan, avail, dir, verified, stores, fresh, promise>>
  BY DEF ReadBlob, At, Settled, net, shared
<1>2. TypeOK /\ Sound(work[t][a][d], d) /\ Layer \in Files
  BY DEF IInv, Files
<1>3. d # Layer
  BY <1>1, <1>2 DEF Sound
<1> DEFINE last == load[t][a] = "regular" /\ \A e \in plan.regular \ {d} : At(t, a, e, "done")
<1>4. CASE last
  <2>1. GetsToLayer(t, a) /\ AsksLayer(t, a, d)
    BY <1>2, <1>3, <1>4 DEF ReadBlob, TypeOK, GetsToLayer, AsksLayer
  <2> QED
    BY <1>1, <1>4, <2>1, LastRead DEF At
<1>5. CASE ~last
  <2>1. PICK v \in WorkType : v = work[t][a][d]
    BY <1>2, WorkIs
  <2>2. PICK w : w = [v EXCEPT !.at = "done"]
    OBVIOUS
  <2>3. w \in WorkType /\ w.at = "done" /\ w.body = v.body /\ w.file = v.file
    BY <2>2, WorkGoes DEF Held
  <2>4. UNCHANGED load /\ work' = [work EXCEPT ![t][a][d] = [work[t][a][d] EXCEPT !.at = "done"]]
    <3>1. UNCHANGED load /\ work' = [work EXCEPT ![t][a][d].at = "done", ![t][a][Layer] = @]
      BY <1>5 DEF ReadBlob
    <3>2. PICK f \in [Pages -> [Attempts -> [Files -> WorkType]]] : f = work
      BY <1>2 DEF TypeOK
    <3>3. work' = [[f EXCEPT ![t][a][d].at = "done"] EXCEPT ![t][a][Layer] = f[t][a][Layer]]
      BY <1>2, <1>3, <3>1, <3>2
    <3>4. PICK g : g = [f EXCEPT ![t][a][d].at = "done"]
      OBVIOUS
    <3>5. g \in [Pages -> [Attempts -> [Files -> WorkType]]] /\ g[t][a][Layer] = f[t][a][Layer]
      <4>1. \E x \in WorkType : g = [f EXCEPT ![t][a][d] = x]
        BY <2>1, <2>2, <2>3, <3>2, <3>4, Zenon
      <4> QED
        BY <1>2, <1>3, <4>1
    <3>6. [g EXCEPT ![t][a][Layer] = f[t][a][Layer]] = g
      BY <1>2, <3>5
    <3> QED
      BY <3>1, <3>2, <3>3, <3>4, <3>6, Zenon
  <2>5. Becomes(t, a, d, w)
    BY <2>1, <2>2, <2>4, Zenon DEF Becomes
  <2>6. Sound(w, d)
    BY <1>1, <1>2, <2>1, <2>3 DEF Sound, Promoting, Storing, Held
  <2>7. stores' \in [Pages -> [Files -> Attempts \cup {0}]]
    BY <1>1, <1>2, StoresStay
  <2> QED
    BY <1>1, <2>3, <2>4, <2>5, <2>6, <2>7, BecomesQuietly
<1> QED
  BY <1>4, <1>5

-----------------------------------------------------------------------------
(* A page and its callers.                                                    *)
LEMMA StatusKeeps ==
  ASSUME IInv, NEW t \in Pages, StatusLoaded(t) \/ StatusFails(t) \/ Upgrade
  PROVE  IInv'
<1>1. /\ UNCHANGED <<plan, dir, verified, stores, work, load, promise, fresh>>
      /\ UNCHANGED avail \/ (t \in plan.pages /\ \E x : avail' = [avail EXCEPT ![t] = x])
  <2>1. CASE StatusLoaded(t)
    <3>1. t \in plan.pages /\ avail' = [avail EXCEPT ![t] = LoadNativeRuntimeAvailability(site)]
      BY <2>1, Zenon DEF StatusLoaded
    <3>2. UNCHANGED <<plan, dir, verified, stores, work, load, promise, fresh>>
      BY <2>1 DEF StatusLoaded, shared, page
    <3> QED
      BY <3>1, <3>2
  <2>2. CASE StatusFails(t)
    <3>1. t \in plan.pages /\ avail' = [avail EXCEPT ![t] = Unavailable]
      BY <2>2, Zenon DEF StatusFails
    <3>2. UNCHANGED <<plan, dir, verified, stores, work, load, promise, fresh>>
      BY <2>2 DEF StatusFails, shared, page
    <3> QED
      BY <3>1, <3>2
  <2>3. CASE Upgrade
    <3>1. UNCHANGED <<plan, avail, shared, fresh, verified, stores, work, page>>
      BY <2>3, Zenon DEF Upgrade
    <3>2. UNCHANGED <<plan, dir, verified, stores, work, load, promise, fresh>> /\ UNCHANGED avail
      BY <3>1 DEF shared, page
    <3> QED
      BY <3>2
  <2> QED
    BY <2>1, <2>2, <2>3
<1>2. TypeOK
  BY DEF IInv
<1>3. avail' = [u \in Pages |-> avail'[u]] /\ \A u \in Pages : avail'[u].state = "yes" => u \in plan.pages
  <2>1. CASE UNCHANGED avail
    BY <1>2, <2>1 DEF TypeOK, IInv
  <2>2. CASE t \in plan.pages /\ \E x : avail' = [avail EXCEPT ![t] = x]
    <3>1. PICK x : avail' = [avail EXCEPT ![t] = x]
      BY <2>2
    <3>2. /\ avail' = [u \in Pages |-> avail'[u]]
          /\ \A u \in Pages \ {t} : avail'[u] = avail[u]
      BY <1>2, <3>1 DEF TypeOK
    <3> QED
      BY <2>2, <3>2 DEF IInv
  <2> QED
    BY <1>1, <2>1, <2>2
<1>4. \A b \in Attempts : LoadOK(t, b)' /\ FreshOK(t, b)'
  <2> TAKE b \in Attempts
  <2>1. LoadOK(t, b) /\ FreshOK(t, b)
    BY DEF IInv
  <2> QED
    BY <1>1, <2>1, PlanStays DEF LoadOK, FreshOK, Under, At
<1>5. \A b \in Attempts, d \in Files : Sound(work'[t][b][d], d)
  BY <1>1 DEF IInv
<1>6. /\ verified' \in [Pages -> SUBSET Files] /\ \A u \in Pages : verified'[u] \subseteq verified[u]
      /\ stores' \in [Pages -> [Files -> Attempts \cup {0}]]
      /\ work' \in [Pages -> [Attempts -> [Files -> WorkType]]]
      /\ load' \in [Pages -> [Attempts -> {"idle", "manifest", "regular", "layer", "loaded", "failed"}]]
      /\ promise' \in [Pages -> Attempts \cup {0}]
  BY <1>1, <1>2 DEF TypeOK
<1> QED
  BY <1>1, <1>3, <1>4, <1>5, <1>6, PageStep

(* A load begins when no other one of its page is under way.                  *)
LEMMA BeginKeeps ==
  ASSUME IInv, NEW t \in Pages, NEW c \in Callers, avail[t].state = "yes", promise[t] = 0, Begin(t, c),
         UNCHANGED <<plan, avail, dir, verified, stores>>
  PROVE  IInv'
<1>1. PICK a \in Attempts :
         /\ Free(t, a) /\ load' = [load EXCEPT ![t][a] = "manifest"]
         /\ work' = [work EXCEPT ![t][a] = [d \in Files |-> New]]
         /\ fresh' = { f \in fresh : <<f[1], f[2]>> # <<t, a>> }
         /\ promise' = [promise EXCEPT ![t] = a]
  BY Zenon DEF Begin
<1>2. TypeOK /\ t \in plan.pages /\ Layer \in Files
  BY DEF IInv, Files
<1>3. New \in WorkType /\ New.at = "idle"
  BY WorkNew
<1>4. [d \in Files |-> New] \in [Files -> WorkType]
  BY <1>3
<1>5. /\ work' \in [Pages -> [Attempts -> [Files -> WorkType]]]
      /\ work'[t][a] = [d \in Files |-> New]
      /\ \A u \in Pages, b \in Attempts : <<u, b>> # <<t, a>> => work'[u][b] = work[u][b]
  <2>1. PICK v \in [Files -> WorkType] : v = [d \in Files |-> New]
    BY <1>4
  <2>2. work' = [work EXCEPT ![t][a] = v]
    BY <1>1, <2>1, Zenon
  <2> QED
    BY <1>2, <2>1, <2>2 DEF TypeOK
<1>6. /\ load' \in [Pages -> [Attempts -> {"idle", "manifest", "regular", "layer", "loaded", "failed"}]]
      /\ load'[t][a] = "manifest"
      /\ \A u \in Pages, b \in Attempts : <<u, b>> # <<t, a>> => load'[u][b] = load[u][b]
  BY <1>1, <1>2 DEF TypeOK
<1>7. /\ promise' \in [Pages -> Attempts \cup {0}] /\ promise'[t] = a
      /\ \A u \in Pages \ {t} : promise'[u] = promise[u]
  BY <1>1, <1>2 DEF TypeOK
<1>8. \A b \in Attempts : ~Under(t, b)
  BY PlanFacts DEF IInv, LoadOK
<1>9. \A u \in Pages, b \in Attempts : <<u, b>> # <<t, a>> /\ <<u, b, Layer>> \in fresh => <<u, b, Layer>> \in fresh'
  BY <1>1
<1>10. \A d \in Files : work'[t][a][d] = New
  BY <1>5
<1>11. \A d \in Files : Sound(work'[t][a][d], d) /\ work'[t][a][d].at \notin {"check", "digest"}
  BY <1>2, <1>3, <1>10, AskedIs
<1>12. LoadOK(t, a)'
  BY <1>1, <1>2, <1>3, <1>6, <1>7, <1>10 DEF LoadOK, Under, Settled
<1>13. load'[t][a] # "loaded" /\ work'[t][a][Layer].at # "digest"
  BY <1>2, <1>6, <1>11
<1>14. \A u \in Pages, b \in Attempts : <<u, b>> # <<t, a>> =>
         /\ work'[u][b] = work[u][b] /\ load'[u][b] = load[u][b]
         /\ <<u, b, Layer>> \in fresh => <<u, b, Layer>> \in fresh'
  BY <1>5, <1>6, <1>9
<1>15. /\ \A b \in Attempts \ {a} : Under(t, b) => promise'[t] = promise[t]
       /\ \A u \in Pages \ {t} : promise'[u] = promise[u]
       /\ promise' \in [Pages -> Attempts \cup {0}]
       /\ work' \in [Pages -> [Attempts -> [Files -> WorkType]]]
       /\ load' \in [Pages -> [Attempts -> {"idle", "manifest", "regular", "layer", "loaded", "failed"}]]
  BY <1>5, <1>6, <1>7, <1>8
<1> QED
  BY <1>11, <1>12, <1>13, <1>14, <1>15, AttemptStep

LEMMA LoadArtifactsKeeps ==
  ASSUME IInv, NEW t \in Pages, NEW c \in Callers, LoadArtifacts(t, c)
  PROVE  IInv'
<1>1. avail[t].state = "yes" /\ UNCHANGED <<plan, avail, dir, verified, stores>>
  BY DEF LoadArtifacts, net, shared
<1>2. CASE UNCHANGED <<work, load, promise, fresh>>
  <2>1. \A b \in Attempts : LoadOK(t, b)' /\ FreshOK(t, b)'
    <3> TAKE b \in Attempts
    <3>1. LoadOK(t, b) /\ FreshOK(t, b)
      BY DEF IInv
    <3> QED
      BY <1>1, <1>2, <3>1, PlanStays DEF LoadOK, FreshOK, Under, At
  <2>2. \A b \in Attempts, d \in Files : Sound(work'[t][b][d], d)
    BY <1>2 DEF IInv
  <2>3. /\ avail' = [u \in Pages |-> avail'[u]] /\ \A u \in Pages : avail'[u].state = "yes" => u \in plan.pages
        /\ verified' \in [Pages -> SUBSET Files] /\ \A u \in Pages : verified'[u] \subseteq verified[u]
        /\ stores' \in [Pages -> [Files -> Attempts \cup {0}]]
        /\ work' \in [Pages -> [Attempts -> [Files -> WorkType]]]
        /\ load' \in [Pages -> [Attempts -> {"idle", "manifest", "regular", "layer", "loaded", "failed"}]]
        /\ promise' \in [Pages -> Attempts \cup {0}]
    BY <1>1, <1>2 DEF IInv, TypeOK
  <2> QED
    BY <1>1, <1>2, <2>1, <2>2, <2>3, PageStep
<1>3. CASE promise[t] = 0 /\ Begin(t, c)
  BY <1>1, <1>3, BeginKeeps
<1> QED
  BY <1>2, <1>3 DEF LoadArtifacts

LEMMA PageClosesKeeps ==
  ASSUME IInv, NEW t \in Pages, PageCloses(t)
  PROVE  IInv'
<1>1. TypeOK /\ Layer \in Files
  BY DEF IInv, Files
<1>2. New \in WorkType /\ New.at = "idle"
  BY WorkNew
<1>3. /\ work' \in [Pages -> [Attempts -> [Files -> WorkType]]] /\ \A u \in Pages \ {t} : work'[u] = work[u]
      /\ \A b \in Attempts, d \in Files : work'[t][b][d] = New
  <2>1. PICK v : v = New
    OBVIOUS
  <2>2. work' = [work EXCEPT ![t] = [a \in Attempts |-> [d \in Files |-> v]]]
    BY <2>1, Zenon DEF PageCloses
  <2> QED
    BY <1>1, <1>2, <2>1, <2>2 DEF TypeOK
<1>4. /\ load' \in [Pages -> [Attempts -> {"idle", "manifest", "regular", "layer", "loaded", "failed"}]]
      /\ \A u \in Pages \ {t} : load'[u] = load[u]
      /\ \A b \in Attempts : load'[t][b] = "idle"
  <2>1. load' = [load EXCEPT ![t] = [a \in Attempts |-> "idle"]]
    BY DEF PageCloses
  <2> QED
    BY <1>1, <2>1 DEF TypeOK
<1>5. promise' \in [Pages -> Attempts \cup {0}] /\ \A u \in Pages \ {t} : promise'[u] = promise[u]
  <2>1. promise' = [promise EXCEPT ![t] = 0]
    BY DEF PageCloses
  <2> QED
    BY <1>1, <2>1 DEF TypeOK
<1>6. stores' \in [Pages -> [Files -> Attempts \cup {0}]]
  <2>1. stores' = [stores EXCEPT ![t] = [d \in Files |-> 0]]
    BY DEF PageCloses
  <2> QED
    BY <1>1, <2>1 DEF TypeOK
<1>7. verified' \in [Pages -> SUBSET Files] /\ \A u \in Pages : verified'[u] \subseteq verified[u]
  <2>1. verified' = [verified EXCEPT ![t] = {}]
    BY DEF PageCloses
  <2> QED
    BY <1>1, <2>1 DEF TypeOK
<1>8. avail' = [u \in Pages |-> avail'[u]] /\ \A u \in Pages : avail'[u].state = "yes" => u \in plan.pages
  <2>1. avail' = [avail EXCEPT ![t] = Checking] /\ Checking.state # "yes"
    BY DEF PageCloses, Checking
  <2> HIDE DEF Checking
  <2>2. avail' = [u \in Pages |-> avail'[u]] /\ avail'[t] = Checking /\ \A u \in Pages \ {t} : avail'[u] = avail[u]
    BY <1>1, <2>1 DEF TypeOK
  <2> QED
    BY <2>1, <2>2 DEF IInv
<1>9. \A u \in Pages \ {t}, b \in Attempts : <<u, b, Layer>> \in fresh => <<u, b, Layer>> \in fresh'
  <2>1. fresh' = { f \in fresh : f[1] # t }
    BY DEF PageCloses
  <2> QED
    BY <2>1
<1>10. \A b \in Attempts, d \in Files : Sound(work'[t][b][d], d) /\ work'[t][b][d].at \notin {"check", "digest"}
  BY <1>1, <1>2, <1>3, AskedIs
<1>11. \A b \in Attempts : LoadOK(t, b)' /\ FreshOK(t, b)'
  BY <1>1, <1>2, <1>3, <1>4 DEF LoadOK, FreshOK, Under, At, Settled
<1>12. UNCHANGED <<plan, dir>>
  BY DEF PageCloses
<1> QED
  BY <1>3, <1>4, <1>5, <1>6, <1>7, <1>8, <1>9, <1>10, <1>11, <1>12, PageStep

-----------------------------------------------------------------------------
(* The directory holds what other visits have left in it.                     *)
LEMMA InitIInv == Init => IInv
<1> SUFFICES ASSUME Init PROVE IInv
  OBVIOUS
<1>1. Layer \in Files /\ New \in WorkType /\ New.at = "idle" /\ plan \in Plans
  BY WorkNew DEF Init, Files
<1>2. work = [t \in Pages |-> [a \in Attempts |-> [d \in Files |-> New]]]
  BY DEF Init
<1>3. /\ work \in [Pages -> [Attempts -> [Files -> WorkType]]]
      /\ \A t \in Pages, a \in Attempts, d \in Files : work[t][a][d] = New
  <2>1. PICK v \in WorkType : v = New
    BY <1>1
  <2>2. work = [t \in Pages |-> [a \in Attempts |-> [d \in Files |-> v]]]
    BY <1>2, <2>1, Zenon
  <2> QED
    BY <2>1, <2>2
<1>4. TypeOK
  <2>1. dir \in [Files -> Contents]
    <3>1. plan.kept \subseteq Contents /\ dir \in [Files -> plan.kept]
      BY <1>1, ArtifactsAssumption DEF Init, Contents
    <3> QED
      BY <3>1
  <2>2. verified \in [Pages -> SUBSET Files] /\ promise \in [Pages -> Attempts \cup {0}]
    BY DEF Init
  <2>3. stores \in [Pages -> [Files -> Attempts \cup {0}]]
    BY DEF Init
  <2>4. load \in [Pages -> [Attempts -> {"idle", "manifest", "regular", "layer", "loaded", "failed"}]]
    BY DEF Init
  <2>5. avail = [t \in Pages |-> avail[t]]
    <3>1. avail = [t \in Pages |-> Checking]
      BY DEF Init
    <3> HIDE DEF Checking
    <3> QED
      BY <3>1
  <2> QED
    BY <1>1, <1>3, <2>1, <2>2, <2>3, <2>4, <2>5 DEF TypeOK
<1>5. \A t \in Pages : avail[t].state # "yes"
  <2>1. avail = [t \in Pages |-> Checking] /\ Checking.state # "yes"
    BY DEF Init, Checking
  <2> HIDE DEF Checking
  <2> QED
    BY <2>1
<1>6. \A t \in Pages, a \in Attempts, d \in Files : Sound(work[t][a][d], d)
  BY <1>3, <1>4, AskedIs
<1>7. ASSUME NEW d \in Files PROVE EntryOK(d)
  <2>1. ~Trusted(d)
    <3>1. \A t \in Pages : verified[t] = {}
      BY DEF Init
    <3> QED
      BY <1>1, <1>3, <3>1 DEF Trusted, At
  <2>2. ASSUME dir[d] = "whole", Parsed, d \in plan.regular PROVE Named(d).sha256 = "this"
    <3>1. "whole" \in plan.kept
      BY <2>2 DEF Init
    <3>2. \A i \in DOMAIN Manifest.artifacts : Manifest.artifacts[i].sha256 = "this"
      BY <1>4, <3>1, PlanFacts
    <3>3. \E e \in { Manifest.artifacts[i] : i \in DOMAIN Manifest.artifacts } : e.id = d
      <4>1. d \in { Manifest.artifacts[i].id : i \in DOMAIN Manifest.artifacts }
        BY <2>2 DEF Parsed, ParseV86ArtifactManifest, ParseArtifacts
      <4>2. PICK i \in DOMAIN Manifest.artifacts : Manifest.artifacts[i].id = d
        BY <4>1
      <4> QED
        BY <4>2
    <3>4. d # Layer
      BY <1>4, <2>2, PlanFacts
    <3>5. Named(d) \in { Manifest.artifacts[i] : i \in DOMAIN Manifest.artifacts }
      BY <3>3, <3>4 DEF Named
    <3> QED
      BY <3>2, <3>5
  <2> QED
    BY <2>1, <2>2 DEF EntryOK, Honest
<1>8. \A t \in Pages, a \in Attempts : LoadOK(t, a) /\ FreshOK(t, a)
  <2>1. \A t \in Pages, a \in Attempts : load[t][a] = "idle"
    BY DEF Init
  <2> QED
    BY <1>1, <1>3, <2>1 DEF LoadOK, FreshOK, Under, At, Settled
<1> QED
  BY <1>4, <1>5, <1>6, <1>7, <1>8 DEF IInv

(* Every step keeps it.                                                       *)
LEMMA NextIInv == ASSUME StreamsTold PROVE IInv /\ [Next]_vars => IInv'
<1> SUFFICES ASSUME IInv, [Next]_vars PROVE IInv'
  OBVIOUS
<1>1. ASSUME NEW t \in Pages, NEW a \in Attempts, NEW d \in Files, Cache(t, a, d) PROVE IInv'
  <2>1. CASE LookedUp(t, a, d)
    BY <2>1, LookedUpKeeps
  <2>2. CASE GotFile(t, a, d)
    BY <2>2, GotFileKeeps
  <2>3. CASE Digested(t, a, d)
    BY <2>3, DigestedKeeps
  <2>4. CASE Evicted(t, a, d)
    BY <2>4, EvictedKeeps
  <2>5. CASE Fetched(t, a, d)
    BY <2>5, FetchedKeeps
  <2>6. CASE TempOpened(t, a, d)
    BY <2>6, TempOpenedKeeps
  <2>7. CASE Streamed(t, a, d)
    BY <2>7, StreamedKeeps
  <2>8. CASE Cleared(t, a, d)
    BY <2>8, ClearedKeeps
  <2>9. CASE Moved(t, a, d) \/ Copied(t, a, d)
    BY <2>9, CopiedKeeps
  <2>10. CASE Created(t, a, d)
    BY <2>10, CreatedKeeps
  <2>11. CASE CopyOpened(t, a, d)
    BY <2>11, CopyOpenedKeeps
  <2>12. CASE CopyUndone(t, a, d)
    BY <2>12, CopyUndoneKeeps
  <2>13. CASE Promoted(t, a, d)
    BY <2>13, PromotedKeeps
  <2>14. CASE ReadBlob(t, a, d)
    BY <2>14, ReadBlobKeeps
  <2> QED
    BY <1>1, <2>1, <2>2, <2>3, <2>4, <2>5, <2>6, <2>7, <2>8, <2>9, <2>10, <2>11, <2>12, <2>13, <2>14 DEF Cache
<1>2. ASSUME NEW t \in Pages, NEW a \in Attempts, NEW d \in Files, Fault(t, a, d) PROVE IInv'
  <2>1. CASE ReadBlobFails(t, a, d)
    BY <2>1, ReadBlobFailsKeeps
  <2>2. CASE DigestFails(t, a, d)
    BY <2>2, DigestFailsKeeps
  <2>3. CASE FetchFails(t, a, d)
    BY <2>3, FetchFailsKeeps
  <2>4. CASE FetchedWrong(t, a, d)
    BY <2>4, FetchedWrongKeeps
  <2>5. CASE TempFails(t, a, d)
    BY <2>5, TempFailsKeeps
  <2>6. CASE StreamFails(t, a, d) \/ MoveFails(t, a, d)
    BY <2>6, StreamFailsKeeps
  <2>7. CASE CopyFails(t, a, d)
    BY <2>7, CopyFailsKeeps
  <2> QED
    BY <1>2, <2>1, <2>2, <2>3, <2>4, <2>5, <2>6, <2>7 DEF Fault
<1>3. ASSUME NEW t \in Pages, Loads(t) PROVE IInv'
  <2>1. CASE StatusLoaded(t)
    BY <2>1, StatusKeeps
  <2>2. CASE \E a \in Attempts : ManifestLoaded(t, a) \/ \E d \in Files : Cache(t, a, d)
    BY <1>1, <2>2, ManifestLoadedKeeps
  <2> QED
    BY <1>3, <2>1, <2>2 DEF Loads
<1>4. ASSUME NEW t \in Pages, Calls(t) PROVE IInv'
  BY <1>4, LoadArtifactsKeeps DEF Calls
<1>5. CASE Next
  <2>1. PICK t \in Pages :
          \/ Loads(t) \/ Calls(t) \/ PageCloses(t) \/ StatusFails(t) \/ Upgrade
          \/ \E a \in Attempts : ManifestFails(t, a) \/ \E d \in Files : Fault(t, a, d)
    BY <1>5 DEF Next
  <2> QED
    BY <1>2, <1>3, <1>4, <2>1, PageClosesKeeps, StatusKeeps, ManifestFailsKeeps
<1>6. CASE UNCHANGED vars
  <2>1. /\ UNCHANGED <<plan, dir, verified, stores, work, load, promise, fresh>> /\ UNCHANGED avail
    BY <1>6 DEF vars, net, shared, page
  <2>2. TypeOK' /\ \A t \in Pages : (avail[t].state = "yes" => t \in plan.pages)'
    BY <2>1 DEF IInv, TypeOK
  <2>3. \A t \in Pages, a \in Attempts, d \in Files : Sound(work'[t][a][d], d)
    BY <2>1 DEF IInv
  <2>4. ASSUME NEW t \in Pages, NEW a \in Attempts PROVE LoadOK(t, a)' /\ FreshOK(t, a)'
    <3>1. LoadOK(t, a) /\ FreshOK(t, a)
      BY DEF IInv
    <3> QED
      BY <2>1, <3>1, PlanStays DEF LoadOK, FreshOK, Under, At
  <2>5. ASSUME NEW d \in Files PROVE EntryOK(d)'
    <3>1. EntryOK(d) /\ (Honest(d)' <=> Honest(d))
      BY <2>1, PlanStays DEF IInv
    <3> QED
      BY <2>1, <3>1 DEF EntryOK, Trusted, At
  <2>6. \A t \in Pages, a \in Attempts, d \in Files : Sound(work[t][a][d], d)'
    BY <2>1, <2>3, PlanStays DEF Sound
  <2> QED
    BY <2>2, <2>4, <2>5, <2>6 DEF IInv
<1> QED
  BY <1>5, <1>6

LEMMA AlwaysIInv == ASSUME StreamsTold PROVE Spec => []IInv
<1>1. Init => IInv
  BY InitIInv
<1>2. IInv /\ [Next]_vars => IInv'
  BY NextIInv
<1> QED
  BY <1>1, <1>2, PTL DEF Spec

(* The filesystem of a machine stays readable, in a single page with a cache. *)
THEOREM FilesystemStaysReadable == ASSUME StreamsTold PROVE Spec => []LayerReadable
<1>1. IInv => LayerReadable
  BY DEF IInv, FreshOK, Single, LayerReadable
<1>2. Spec => []IInv
  BY AlwaysIInv
<1> QED
  BY <1>1, <1>2, PTL

-----------------------------------------------------------------------------
(* No filesystem is mounted before what it lies upon.                         *)
LEMMA Contract ==
  /\ DOMAIN LayerContract = 1 .. 5 /\ Len(LayerContract) = 5 /\ Positions = 1 .. 5
  /\ \A i, j \in 1 .. 5 :
       /\ LayerContract[i].id \in LayerContract[j].after => LayerContract[i].order < LayerContract[j].order
       /\ LayerContract[i].id = LayerContract[j].id => i = j
<1>1. /\ LayerContract[1].id = "complete" /\ LayerContract[1].after = {} /\ LayerContract[1].order = 0
      /\ LayerContract[2].id = "base" /\ LayerContract[2].after = {} /\ LayerContract[2].order = 0
      /\ LayerContract[3].id = "bird" /\ LayerContract[3].after = {"base"} /\ LayerContract[3].order = 10
      /\ LayerContract[4].id = "frr" /\ LayerContract[4].after = {"base"} /\ LayerContract[4].order = 20
      /\ LayerContract[5].id = "toolbox" /\ LayerContract[5].after = {"base"} /\ LayerContract[5].order = 30
  BY DEF LayerContract, Filesystem
<1>2. DOMAIN LayerContract = 1 .. 5 /\ Len(LayerContract) = 5 /\ Positions = 1 .. 5
  BY DEF LayerContract, Positions
<1> HIDE DEF LayerContract
<1>3. ASSUME NEW i \in 1 .. 5, NEW j \in 1 .. 5
      PROVE  /\ LayerContract[i].id \in LayerContract[j].after => LayerContract[i].order < LayerContract[j].order
             /\ LayerContract[i].id = LayerContract[j].id => i = j
  <2>1. i \in {1, 2, 3, 4, 5} /\ j \in {1, 2, 3, 4, 5}
    OBVIOUS
  <2> QED
    BY <1>1, <2>1
<1> QED
  BY <1>2, <1>3

LEMMA BootableIs ==
  ASSUME NEW m, NEW required, Fits(m.machine), \A id \in required : Cardinality(Listed(m, id)) = 1,
         Mountable(m.filesystem.layers)
  PROVE  Bootable(m, required)
BY DEF Bootable

(* What the page accepts can be booted, when the digests are the right ones.  *)
LEMMA ParsedBoots ==
  ASSUME NEW m, NEW required, ParseV86ArtifactManifest(m, required), m.machine.trunkMtu \in Int,
         DOMAIN m.filesystem.layers = 1 .. Len(m.filesystem.layers),
         \A i \in DOMAIN m.artifacts : m.artifacts[i].sha256 = "this"
  PROVE  Bootable(m, required)
<1>1. /\ ParseMachine(m.machine) /\ ParseV86FilesystemManifest(m.filesystem)
      /\ ParseArtifacts(m.artifacts, required)
  BY DEF ParseV86ArtifactManifest
<1>2. Fits(m.machine)
  BY <1>1 DEF ParseMachine, Fits
<1>3. \A id \in required : Cardinality(Listed(m, id)) = 1
  <2> TAKE id \in required
  <2>1. PICK i \in DOMAIN m.artifacts : m.artifacts[i].id = id
    <3>1. id \in { m.artifacts[i].id : i \in DOMAIN m.artifacts }
      BY <1>1 DEF ParseArtifacts
    <3> QED
      BY <3>1
  <2>2. \A j \in DOMAIN m.artifacts : m.artifacts[j].id = id => j = i
    BY <1>1, <2>1 DEF ParseArtifacts
  <2>3. Listed(m, id) = {i}
    BY <2>1, <2>2 DEF Listed
  <2> QED
    BY <2>3, FS_Singleton
<1>4. ASSUME NEW i \in DOMAIN m.filesystem.layers, NEW j \in DOMAIN m.filesystem.layers
      PROVE  /\ m.filesystem.layers[i].object = m.filesystem.layers[i].sha256
             /\ m.filesystem.layers[i].of.id \in m.filesystem.layers[j].of.after
                  => m.filesystem.layers[i].of.order < m.filesystem.layers[j].of.order
             /\ m.filesystem.layers[i].of.id = m.filesystem.layers[j].of.id => i = j
  <2>1. i \in 1 .. 5 /\ j \in 1 .. 5
    BY <1>1, Contract DEF ParseV86FilesystemManifest
  <2>2. \A k \in 1 .. 5 : /\ m.filesystem.layers[k].of = LayerContract[k]
                          /\ m.filesystem.layers[k].object = m.filesystem.layers[k].sha256
    BY <1>1, Contract DEF ParseV86FilesystemManifest, ParseLayer
  <2>3. /\ m.filesystem.layers[i].of = LayerContract[i] /\ m.filesystem.layers[j].of = LayerContract[j]
        /\ m.filesystem.layers[i].object = m.filesystem.layers[i].sha256
    BY <2>1, <2>2
  <2>4. /\ LayerContract[i].id \in LayerContract[j].after => LayerContract[i].order < LayerContract[j].order
        /\ LayerContract[i].id = LayerContract[j].id => i = j
    BY <2>1, Contract
  <2> QED
    BY <2>3, <2>4, Zenon
<1>5. Mountable(m.filesystem.layers)
  BY <1>4 DEF Mountable
<1> QED
  BY <1>2, <1>3, <1>5, BootableIs

(* The digests of the artifacts are those of their names.                     *)
LEMMA NamedAll ==
  ASSUME TypeOK, Parsed, \A d \in plan.regular : Named(d).sha256 = "this", NEW i \in DOMAIN Manifest.artifacts
  PROVE  Manifest.artifacts[i].sha256 = "this"
<1> DEFINE E == { Manifest.artifacts[j] : j \in DOMAIN Manifest.artifacts }
           id == Manifest.artifacts[i].id
<1>1. /\ { Manifest.artifacts[j].id : j \in DOMAIN Manifest.artifacts } = plan.regular
      /\ \A j, k \in DOMAIN Manifest.artifacts : Manifest.artifacts[j].id = Manifest.artifacts[k].id => j = k
  BY DEF Parsed, ParseV86ArtifactManifest, ParseArtifacts
<1>2. id \in plan.regular /\ id # Layer
  BY <1>1, PlanFacts
<1>3. Named(id) \in E /\ Named(id).id = id
  <2>1. \E e \in E : e.id = id
    OBVIOUS
  <2> QED
    BY <1>2, <2>1 DEF Named
<1>4. Named(id) = Manifest.artifacts[i]
  BY <1>1, <1>3
<1> QED
  BY <1>2, <1>4

(* A machine is prepared with nothing but what the manifest names, and only   *)
(* from an image that can be booted.                                          *)
THEOREM NothingElseLoaded == ASSUME StreamsTold PROVE Spec => []VerifiedOnly
<1>1. IInv => VerifiedOnly
  <2> SUFFICES ASSUME IInv, NEW t \in Pages, NEW a \in Attempts, load[t][a] = "loaded"
               PROVE  /\ \A d \in plan.regular \cup {Layer} : work[t][a][d].file = "whole"
                      /\ Bootable(Manifest, plan.regular)
    BY DEF VerifiedOnly
  <2>1. TypeOK /\ LoadOK(t, a)
    BY DEF IInv
  <2>2. Needed \subseteq Files
    BY <2>1, PlanFacts
  <2>3. ASSUME NEW d \in plan.regular \cup {Layer} PROVE work[t][a][d].file = "whole" /\ Honest(d)
    <3>1. d \in Files /\ work[t][a][d].at = "done"
      BY <2>1, <2>2 DEF LoadOK, Needed, At
    <3>2. Sound(work[t][a][d], d)
      BY <3>1 DEF IInv
    <3> QED
      BY <3>1, <3>2 DEF Sound, Held
  <2>4. Parsed /\ \A d \in plan.regular : Named(d).sha256 = "this"
    BY <2>1, <2>3 DEF LoadOK, Honest
  <2>5. \A i \in DOMAIN Manifest.artifacts : Manifest.artifacts[i].sha256 = "this"
    BY <2>1, <2>4, NamedAll
  <2>6. Bootable(Manifest, plan.regular)
    BY <2>1, <2>4, <2>5, PlanFacts, ParsedBoots DEF Parsed
  <2> QED
    BY <2>3, <2>6
<1>2. Spec => []IInv
  BY AlwaysIInv
<1> QED
  BY <1>1, <1>2, PTL
=============================================================================
