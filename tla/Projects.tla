------------------------------ MODULE Projects ------------------------------
(***************************************************************************)
(* Project documents: the migration (src/src/persistence/migrations.ts)    *)
(* and validation (src/src/core/validation.ts) of a project, the           *)
(* `.anycastlab` archive it is exported to and imported from               *)
(* (src/src/persistence/archive.ts), and the copy that an import makes of  *)
(* a project whose id is taken (src/src/app/project-management.ts).        *)
(*                                                                         *)
(* A document is a record.  Its scalar fields stand only for whether the   *)
(* validator takes them: `missing` has the top-level fields that are       *)
(* absent or of another type, `flaws` the fields of the right type whose   *)
(* value it refuses; nodes, interfaces, links and events have `flaws` of   *)
(* their own, and a list that is no array is a flaw and empty.  What the   *)
(* checks compare with something else is there: ids, names, paths, ends,   *)
(* targets and contents.  A path is the sequence of its components, a      *)
(* relative one starting with ".".                                         *)
(***************************************************************************)
EXTENDS Integers, FiniteSets, Sequences, SequencesExt, TLC

CONSTANTS
  Roots,         (* WRITABLE_APPLIANCE_ROOTS                                 *)
  MaxEntries,    (* DEFAULT_MAX_ENTRIES                                      *)
  MaxExpanded,   (* DEFAULT_MAX_UNCOMPRESSED_BYTES                           *)
  MaxNameLength, (* MAX_PROJECT_NAME_LENGTH                                  *)
  MaxPathBytes   (* 4096: the bytes of a path stay below it                  *)

ASSUME ProjectsAssumption ==
  /\ MaxEntries \in Nat \ {0} /\ MaxExpanded \in Nat \ {0}
  /\ MaxNameLength \in Nat \ {0} /\ MaxPathBytes \in Nat \ {0}

CurrentSchema == 1
JsonBytes == 1  (* of manifest.json and of project.json, in units of content *)
Refused == [ok |-> FALSE]
Nowhere == <<>>

Distinct(s) == Cardinality(ToSet(s)) = Len(s)
Field(s, f) == [i \in DOMAIN s |-> s[i][f]]
Total(s) == FoldLeft(+, 0, s)
Map(Op(_), s) == [i \in DOMAIN s |-> Op(s[i])]

-----------------------------------------------------------------------------
(* The migration.                                                             *)

Defaulted == {"createdAt", "updatedAt", "seed", "nodes", "links", "scenarioEvents", "settings"}

(* A document without schemaVersion gets what is missing, and keeps the rest  *)
(* as it is.                                                                  *)
FromUnversioned(doc) == [doc EXCEPT !.schema = 1, !.missing = @ \ Defaulted]

Migrated(doc) == IF doc.schema = 0 THEN FromUnversioned(doc) ELSE doc
TooNew(doc) == doc.schema > CurrentSchema

-----------------------------------------------------------------------------
(* The validator.                                                             *)

PathBytes(path) == Total(Map(Len, path)) + Len(path)
IsNormalized(path) == /\ path # <<>> /\ PathBytes(path) < MaxPathBytes
                      /\ \A i \in DOMAIN path : path[i] \notin {"", ".", ".."}
IsWritable(path) == IsNormalized(path) /\ Head(path) \in Roots

(* An address that does not parse has a negative length.                      *)
ValidAddresses(addresses) == \A a \in ToSet(addresses) : a.length >= 0

ValidInterfaces(node) ==
  /\ \A n \in ToSet(node.interfaces) :
       /\ n.flaws = {} /\ n.gateway # "bad" /\ n.mtu \in {0} \cup 576 .. 65535
       /\ ValidAddresses(n.addresses)
  /\ Distinct(Field(node.interfaces, "id"))
  /\ Distinct(Field(node.interfaces, "name"))

ValidFiles(node) ==
  /\ \A i \in DOMAIN node.files :
       /\ IF node.runtime = "wasm" THEN IsWritable(node.files[i].path)
                                   ELSE IsNormalized(node.files[i].path)
       /\ node.files[i].content.kind \in {"text", "lone"}
  /\ Distinct(Field(node.files, "path"))
  /\ Cardinality({ i \in DOMAIN node.files : node.files[i].entry }) <= 1
  /\ node.entrypoint # Nowhere => node.entrypoint \in ToSet(Field(node.files, "path"))

ValidNode(node) ==
  /\ node.flaws = {} /\ ValidInterfaces(node) /\ ValidFiles(node)
  /\ node.kind = "service" => ValidAddresses(node.service)

ValidNodes(doc) ==
  /\ \A n \in DOMAIN doc.nodes : ValidNode(doc.nodes[n])
  /\ Distinct(Field(doc.nodes, "id"))

(* The ends of all links, in order.                                           *)
Ends(doc) == FlattenSeq(Field(doc.links, "ends"))

ValidLinks(doc) ==
  /\ Distinct(Field(doc.links, "id"))
  /\ \A l \in DOMAIN doc.links : doc.links[l].flaws = {} /\ Len(doc.links[l].ends) = 2
  /\ \A e \in ToSet(Ends(doc)) : \E n \in DOMAIN doc.nodes :
       /\ doc.nodes[n].id = e[1]
       /\ e[2] \in ToSet(Field(doc.nodes[n].interfaces, "id"))
  /\ Distinct(Ends(doc))

ValidEvents(doc) ==
  /\ Distinct(Field(doc.events, "id"))
  /\ \A i \in DOMAIN doc.events : LET e == doc.events[i] IN
       /\ e.flaws = {}
       /\ \/ e.on = "link" /\ e.target \in ToSet(Field(doc.links, "id"))
          \/ e.on = "node" /\ e.target \in ToSet(Field(doc.nodes, "id"))

(* validateProject                                                            *)
Valid(doc) ==
  /\ doc.schema = CurrentSchema /\ doc.missing = {} /\ doc.flaws = {}
  /\ ValidNodes(doc) /\ ValidLinks(doc) /\ ValidEvents(doc)

-----------------------------------------------------------------------------
(* Export.  The contents of a file are "text", text that UTF-8 does not keep  *)
(* ("lone"), bytes ("data"), a reference to an archived file ("ref") or       *)
(* something "other"; content v is v bytes long.                              *)

(* What every document and archive is made of, whatever it says.              *)
IsRecord(r, fields) == r = [f \in DOMAIN r |-> r[f]] /\ fields \subseteq DOMAIN r
IsList(s) == s \in Seq(ToSet(s))
IsFile(file) ==
  /\ IsRecord(file, {"path", "content"})
  /\ file.content.kind \in {"text", "data"}
       => file.content = [kind |-> file.content.kind, value |-> file.content.value]
IsDocument(doc) ==
  /\ IsRecord(doc, {"schema", "id", "name", "missing", "nodes"}) /\ IsList(doc.nodes)
  /\ \A n \in DOMAIN doc.nodes :
       /\ IsRecord(doc.nodes[n], {"id", "files"}) /\ IsList(doc.nodes[n].files)
       /\ \A f \in DOMAIN doc.nodes[n].files : IsFile(doc.nodes[n].files[f])
IsArchive(a) == IsDocument(a.document) /\ IsList(a.rows)

(* A slot is the numbers of a node and of one of its files.                   *)
Slots(doc) == UNION { {n} \X DOMAIN doc.nodes[n].files : n \in DOMAIN doc.nodes }
Earlier(s, t) == s[1] < t[1] \/ (s[1] = t[1] /\ s[2] < t[2])
FileAt(doc, s) == doc.nodes[s[1]].files[s[2]]

(* The document with other contents, given by slot.                           *)
WithContents(doc, contents) ==
  [doc EXCEPT !.nodes = [n \in DOMAIN doc.nodes |->
     [doc.nodes[n] EXCEPT !.files = [f \in DOMAIN doc.nodes[n].files |->
        [doc.nodes[n].files[f] EXCEPT !.content = contents[<<n, f>>]]]]]]

Carried(doc) == { s \in Slots(doc) : FileAt(doc, s).content.kind \in {"text", "data"} }

(* The file at s is archived after those before it.                           *)
Number(doc, s) == Cardinality({ t \in Carried(doc) : Earlier(t, s) })
Numbered(doc, k) == CHOOSE s \in Carried(doc) : Number(doc, s) = k

(* Mutant: the rows count the entries from one.                               *)
RowFromOne(doc, s, k) ==
  [id |-> k, at |-> k + 1, node |-> doc.nodes[s[1]].id, path |-> FileAt(doc, s).path,
   encoding |-> FileAt(doc, s).content.kind, bytes |-> FileAt(doc, s).content.value]

(* The row of the manifest for file number k, which is at s.                  *)
Row(doc, s, k) ==
  [id |-> k, at |-> k, node |-> doc.nodes[s[1]].id, path |-> FileAt(doc, s).path,
   encoding |-> FileAt(doc, s).content.kind, bytes |-> FileAt(doc, s).content.value]

(* extractProjectFiles                                                        *)
Extracted(doc) ==
  LET count == Cardinality(Carried(doc))
  IN  [rows |-> [i \in 1 .. count |-> Row(doc, Numbered(doc, i - 1), i - 1)],
       entries |-> [k \in 0 .. count - 1 |->
                      LET content == FileAt(doc, Numbered(doc, k)).content
                      IN  [value |-> content.value, utf8 |-> content.kind = "text"]],
       document |-> WithContents(doc, [s \in Slots(doc) |->
                      IF s \in Carried(doc) THEN [kind |-> "ref", value |-> Number(doc, s)]
                                            ELSE FileAt(doc, s).content])]

(* exportProjectArchive.  An archive has the size limit of imports unless it  *)
(* is large; `sound` are the parts that can be read.                          *)
Exported(doc, large) ==
  LET all == Extracted(doc)
  IN  IF \E s \in Slots(doc) : FileAt(doc, s).content.kind = "lone"
      THEN Refused
      ELSE [ok |-> TRUE, large |-> large, sound |-> {"zip", "manifest", "project"},
            id |-> doc.id, name |-> doc.name, schema |-> doc.schema,
            rows |-> all.rows, entries |-> all.entries, document |-> all.document]

-----------------------------------------------------------------------------
(* Import.  Entries are named by numbers; those below 0 are not under files/. *)

Unpacks(a) ==
  /\ ~a.large /\ a.sound = {"zip", "manifest", "project"}
  /\ 2 + Cardinality(DOMAIN a.entries) <= MaxEntries
  /\ 2 * JsonBytes + FoldFunction(+, 0, [k \in DOMAIN a.entries |-> a.entries[k].value])
       <= MaxExpanded

ValidRows(a) ==
  /\ \A i \in DOMAIN a.rows : a.rows[i].at >= 0 /\ a.rows[i].encoding \in {"text", "data"}
  /\ Distinct(Field(a.rows, "id")) /\ Distinct(Field(a.rows, "at"))

References(a) == { s \in Slots(a.document) : FileAt(a.document, s).content.kind = "ref" }
Referred(a, s) == FileAt(a.document, s).content.value

(* The row that the file at s refers to is its row.                           *)
Refers(a, s, row) ==
  /\ row.id = Referred(a, s)
  /\ row.node = a.document.nodes[s[1]].id /\ row.path = FileAt(a.document, s).path
  /\ row.at \in DOMAIN a.entries
  /\ row.bytes = a.entries[row.at].value
  /\ row.encoding = "text" => a.entries[row.at].utf8

(* Mutant: rows that no file refers to are not noticed.                       *)
RestorableInPart(a) ==
  /\ ValidRows(a)
  /\ \A s \in References(a) : \E row \in ToSet(a.rows) : Refers(a, s, row)
  /\ \A s, t \in References(a) : Referred(a, s) = Referred(a, t) => s = t

(* restoreProjectFiles takes every reference and uses every row once.         *)
Restorable(a) ==
  /\ ValidRows(a)
  /\ \A s \in References(a) : \E row \in ToSet(a.rows) : Refers(a, s, row)
  /\ \A s, t \in References(a) : Referred(a, s) = Referred(a, t) => s = t
  /\ Cardinality(References(a)) = Len(a.rows)

Restored(a) ==
  LET Read(id) == LET row == CHOOSE r \in ToSet(a.rows) : r.id = id
                  IN  [kind |-> row.encoding, value |-> a.entries[row.at].value]
  IN  WithContents(a.document, [s \in Slots(a.document) |->
        IF s \in References(a) THEN Read(Referred(a, s))
                               ELSE FileAt(a.document, s).content])

(* decodeProjectArchive                                                       *)
Decoded(a) ==
  IF ~Unpacks(a) \/ ~Restorable(a) \/ a.document.schema # a.schema \/ TooNew(a.document)
  THEN Refused
  ELSE LET project == Migrated(Restored(a))
       IN  IF Valid(project) /\ project.id = a.id /\ project.name = a.name
           THEN [ok |-> TRUE, project |-> project] ELSE Refused

-----------------------------------------------------------------------------
(* The copy of a project.  A name is a sequence of symbols, each of which     *)
(* stands for the characters that a search does not tell apart; none begins   *)
(* with a blank.                                                              *)

TrimmedEnd(name) ==
  LET ends == { i \in DOMAIN name : name[i] # " " }
  IN  IF ends = {} THEN <<>> ELSE SubSeq(name, 1, CHOOSE i \in ends : \A j \in ends : j <= i)

Suffix(number) == IF number = 1 THEN <<"copy">> ELSE <<"copy", ToString(number)>>

ValidName(name) == TrimmedEnd(name) # <<>> /\ Len(TrimmedEnd(name)) <= MaxNameLength
                     /\ \A i \in DOMAIN name : name[i] # "control"

(* appendNameSuffix                                                           *)
WithSuffix(name, suffix) ==
  LET room == MaxNameLength - Len(suffix)
  IN  TrimmedEnd(SubSeq(name, 1, IF Len(name) < room THEN Len(name) ELSE room)) \o suffix

(* createDuplicateProjectName: the first of as many names as one needs.       *)
CopyName(name, taken) ==
  LET Candidate(i) == WithSuffix(TrimmedEnd(name), Suffix(i))
      free == { i \in 1 .. Cardinality(taken) + 2 : Candidate(i) \notin taken }
  IN  Candidate(CHOOSE i \in free : \A j \in free : i <= j)

(* duplicateProject, with an id that nobody has.                              *)
Duplicate(project, id, names) == [project EXCEPT !.id = id, !.name = CopyName(project.name, names)]
=============================================================================
