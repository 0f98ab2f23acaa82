------------------------------ MODULE LabBoot ------------------------------
(***************************************************************************)
(* A project on its way to running nodes: it is exported to an archive,    *)
(* the file may be changed by other programs, it is imported, stored under *)
(* an id that nobody has (exportProject and importProject in               *)
(* src/src/App.tsx), analysed, turned into one boot request per node       *)
(* (#initializeAppliances in src/src/native/engine.ts) and sealed into the *)
(* bootstrap archive of the shared machine                                 *)
(* (SharedV86BootstrapBuilder in shared-bootstrap.ts), in which the FRR    *)
(* wrapper runs.                                                           *)
(***************************************************************************)
EXTENDS BootRequests, FrrWrapper

CONSTANTS
  Plans,      (* What happens: a project, whether it is archived first, what *)
              (* is done to the archive, and whether the nodes run.          *)
  Catalog,    (* The id and name of each project that is stored.             *)
  FreshIds,   (* What randomUUID may return.                                 *)
  Change(_, _) (* What a change does to an archive.                          *)

(* Every project has the shape of a document, and what another program makes  *)
(* of its archive has still the shape of an archive.                          *)
ASSUME DocumentsAssumption ==
  \A p \in Plans :
    /\ IsDocument(p.project)
    /\ p.archived /\ p.change # "none" => \A large \in BOOLEAN :
         LET a == Exported(p.project, large) IN a.ok => IsArchive(Change(a, p.change))

VARIABLES
  plan,       (* the plan, which never changes                               *)
  phase,      (* "made", "exported", "imported", "stored", "booting",        *)
              (* "sealed", or an end: "refused", "ineligible", "failed"      *)
  archive,    (* the archive, or Refused                                     *)
  project,    (* the project that is open                                    *)
  stored,     (* the id and name of each project that is stored              *)
  nodes       (* what the builder has: requests with their VLANs, by slot    *)

bootVars == <<plan, phase, archive, project, stored, nodes>>
vars == <<bootVars, frrVars>>

Init ==
  /\ plan \in Plans
  /\ project = plan.project /\ stored = Catalog
  /\ phase = IF plan.archived THEN "made" ELSE "stored"
  /\ archive = Refused /\ nodes = <<>>
  /\ InitFrr

-----------------------------------------------------------------------------
(* exportProject, of this version of the program or of another: the document  *)
(* may be of an older or a newer schema, and is not validated.                *)
Export ==
  /\ phase = "made"
  /\ \E large \in BOOLEAN : archive' = Exported(project, large)
  /\ phase' = IF archive'.ok THEN "exported" ELSE "refused"
  /\ UNCHANGED <<plan, project, stored, nodes, frrVars>>

(* Another program rewrites the file.                                         *)
Rewrite ==
  /\ phase = "exported" /\ plan.change # "none"
  /\ archive' = Change(archive, plan.change)
  /\ phase' = "rewritten"
  /\ UNCHANGED <<plan, project, stored, nodes, frrVars>>

(* importProject: the archive is decoded and the name has to be a valid one.  *)
Import ==
  /\ phase \in {"exported", "rewritten"}
  /\ (phase = "exported" => plan.change = "none")
  /\ LET result == Decoded(archive)
     IN  IF result.ok /\ ValidName(result.project.name)
         THEN phase' = "imported" /\ project' = result.project
         ELSE phase' = "refused" /\ UNCHANGED project
  /\ UNCHANGED <<plan, archive, stored, nodes, frrVars>>

(* A project whose id is taken is stored as a copy.                           *)
Keep ==
  /\ phase = "imported"
  /\ IF \E p \in stored : p.id = project.id
     THEN \E id \in FreshIds \ ({ p.id : p \in stored } \cup {project.id}) :
            project' = Duplicate(project, id, { p.name : p \in stored })
     ELSE UNCHANGED project
  /\ stored' = stored \cup {[id |-> project'.id, name |-> project'.name]}
  /\ phase' = "stored"
  /\ UNCHANGED <<plan, archive, nodes, frrVars>>

-----------------------------------------------------------------------------
(* start(): the project is analysed before anything is created.               *)
Analyse ==
  /\ phase = "stored"
  /\ phase' = IF Eligible(project) THEN "booting" ELSE "ineligible"
  /\ UNCHANGED <<plan, archive, project, stored, nodes, frrVars>>

(* #endpointOperational, as the project has it.                               *)
Operational(node, i) ==
  /\ node.up /\ node.interfaces[i].up
  /\ \A l \in ToSet(project.links) : <<node.id, node.interfaces[i].id>> \in ToSet(l.ends) => l.up

BootRequest(node) ==
  LET r == Request(project, node)
  IN  [r EXCEPT !.interfaces = [i \in DOMAIN r.interfaces |->
         [r.interfaces[i] EXCEPT !.up = Operational(node, i)]]]

(* The VLANs that come after those of the nodes before.                       *)
NextVlan == Vlans[1] + Total(Map(LAMBDA n : Len(n.vlans), nodes))

(* register(), of the machine and of its builder.                             *)
Registers(r) ==
  /\ ~Rejected(r) /\ Len(nodes) < Limits.nodes
  /\ Len(r.interfaces) <= Vlans[2] - NextVlan + 1

Initialize ==
  /\ phase = "booting" /\ Len(nodes) < Len(Guests(project))
  /\ LET node == Guests(project)[Len(nodes) + 1]
     IN  IF Builds(project, node) /\ HasRuntime(node) /\ Registers(BootRequest(node))
         THEN /\ nodes' = Append(nodes, [request |-> BootRequest(node),
                   vlans |-> [i \in DOMAIN node.interfaces |-> NextVlan + i - 1]])
              /\ UNCHANGED phase
         ELSE phase' = "failed" /\ UNCHANGED nodes
  /\ UNCHANGED <<plan, archive, project, stored, frrVars>>

NodeMetrics == [s \in DOMAIN nodes |-> Metrics(nodes[s].request, s, nodes[s].vlans)]

(* seal(): what is predicted is checked, and then what is written.            *)
Seal ==
  /\ phase = "booting" /\ nodes # <<>> /\ Len(nodes) = Len(Guests(project))
  /\ phase' = IF TooLarge(BootstrapEnvelope(NodeMetrics)) \/ TooLarge(Envelope(BootstrapFiles(nodes)))
              THEN "failed" ELSE "sealed"
  /\ UNCHANGED <<plan, archive, project, stored, nodes, frrVars>>

-----------------------------------------------------------------------------
(* The wrapper of a node of the machine that was sealed.                      *)
Run(A) == phase = "sealed" /\ plan.runs /\ A /\ UNCHANGED bootVars

Next ==
  \/ Export \/ Rewrite \/ Import \/ Keep \/ Analyse \/ Initialize \/ Seal
  \/ Run(AwaitSession) \/ Run(Adopt) \/ Run(AwaitStart) \/ Run(CheckAlive) \/ Run(Nap)
  \/ Run(Recheck) \/ Run(Reap) \/ Run(Probe) \/ Run(Health) \/ Run(Terminate) \/ Run(Wait)
  \/ Run(KillJob) \/ Run(Join) \/ Run(Cleanup) \/ Run(Signalled) \/ Run(Stop)
  \/ Run(Stopping) \/ Run(Exit)
  \/ Run(JobBegins) \/ Run(JobWrites) \/ Run(JobEnds) \/ Run(WatchTurns)
  \/ Run(StopEnds) \/ Run(Signal)

Spec == Init /\ [][Next]_vars /\ WF_vars(Run(Shell))

-----------------------------------------------------------------------------
(* A document that has no reference to an archived file of its own.           *)
HasNoReference(doc) == \A s \in Slots(doc) : FileAt(doc, s).content.kind # "ref"

(* An archive that nobody changed gives back the project that was exported:   *)
(* before anything is validated the same document, also where some files      *)
(* carry no contents; then migrated to the schema of today, and refused only  *)
(* if that is no valid project, or by a limit of the import.                  *)
ArchiveRestores ==
  plan.archived /\ plan.change = "none" /\ archive.ok =>
    /\ phase = "exported" /\ HasNoReference(plan.project) =>
         Restorable(archive) /\ Restored(archive) = plan.project
    /\ phase = "imported" => project = Migrated(plan.project)
    /\ phase = "refused" =>
         \/ TooNew(plan.project) \/ ~Valid(Migrated(plan.project)) \/ ~Unpacks(archive)
         \/ ~ValidName(plan.project.name)

(* Whatever was done to an archive that is accepted: every file that its      *)
(* manifest lists is in the project once, where the manifest says and with    *)
(* the contents of its entry; what is not listed was in the document itself;  *)
(* and the project is valid.                                                  *)
ImportedWhole ==
  phase = "imported" =>
    /\ Valid(project)
    /\ \A row \in ToSet(archive.rows) :
         Cardinality({ s \in Slots(project) :
           /\ project.nodes[s[1]].id = row.node /\ FileAt(project, s).path = row.path
           /\ FileAt(project, s).content = [kind |-> "text", value |-> archive.entries[row.at].value]
           /\ FileAt(archive.document, s).content # FileAt(project, s).content }) = 1
    /\ Cardinality({ s \in Slots(project) :
         FileAt(archive.document, s).content # FileAt(project, s).content }) = Len(archive.rows)

(* A MAC address of the project's own is generated for an earlier interface.  *)
MacClash == \E i, j \in DOMAIN Endpoints(project) :
  /\ i < j /\ Endpoints(project)[i].mac = 0
  /\ Endpoints(project)[j].mac \notin {0, -1} /\ Endpoints(project)[j].mac = Macs(project)[i]
LinksUp == \A l \in ToSet(project.links) : l.up

(* A project that the analysis calls eligible boots: every node gets its boot *)
(* request, the machine and its bootstrap take them all, and no path is too   *)
(* long for the archives; unless a MAC address of the project's own is        *)
(* generated for an earlier interface, or a link is down, which the analysis  *)
(* does not look at.                                                          *)
EligibleBoots ==
  /\ phase = "failed" => MacClash \/ ~LinksUp
  /\ phase = "sealed" => \A s \in DOMAIN nodes :
       \A d \in Directories(nodes[s].request.files) \cup ToSet(Field(nodes[s].request.files, "path")) :
         FitsUstarEntry(d, d \in Directories(nodes[s].request.files))

(* The sizes that the analysis and the preflight of the bootstrap predict are *)
(* those of the archives that are then written.                               *)
MeasuredExactly ==
  phase = "sealed" =>
    /\ \A s \in DOMAIN nodes :
         /\ NodeMetrics[s].config = SerializedBytes(nodes[s].request, s, nodes[s].vlans)
         /\ NodeMetrics[s].root.bytes = UstarArchive(nodes[s].request.files).bytes
    /\ BootstrapEnvelope(NodeMetrics) = Envelope(BootstrapFiles(nodes))
    /\ LinksUp => AnalysedBootstrap(project) = BootstrapEnvelope(NodeMetrics)

(* What the wrapper says of FRR's start is true: frr.ready is there only      *)
(* after a start that succeeded, and no start that left a status is said to   *)
(* have exited without one, however its end falls between two tests.          *)
StartTruth ==
  /\ ready => done = "ok"
  /\ failure = "exited" => done = "none"
  /\ failure = "failed" => done = "bad"
  /\ failure = "timeout" => elapsed = StartWait

(* While the wrapper watches, a watchfrr that stays away ends up in the       *)
(* failure file, and one that is back and stays takes it away again.          *)
DegradationShown ==
  /\ <>[](at = "health" /\ watch # "up") => <>[](failure = "health")
  /\ <>[](at = "health" /\ watch = "up") => <>[](failure = "none")
=============================================================================
