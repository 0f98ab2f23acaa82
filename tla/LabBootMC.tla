----------------------------- MODULE LabBootMC -----------------------------
EXTENDS LabBoot

(* Limits small enough for every one of them to be met by one or two edits.   *)
TestLimits ==
  [nodes |-> 3, arguments |-> 3, interfaces |-> 2, addresses |-> 3, nodeId |-> 4, hostname |-> 3,
   entrypoint |-> 40, argument |-> 110, environmentValue |-> 8, interfaceId |-> 4,
   minimumMtu |-> 576, maximumMtu |-> 65531, decoded |-> 190, config |-> 800,
   file |-> 40, rootPayload |-> 60, rootEntries |-> 10, rootBytes |-> 180, tarName |-> 26,
   tarPrefix |-> 30, bootstrapPayload |-> 970, bootstrapEntries |-> 14, bootstrapBytes |-> 1044]

TestRoots == {"etc", "run", "var"}
TestReserved == { <<"run", "anycastlab", "start.sh">> }
TestVlans == <<98, 104>>
TestRuntimes == << [kind |-> "bird", version |-> "2", native |-> TRUE, complete |-> TRUE],
                   [kind |-> "client", version |-> "1", native |-> TRUE, complete |-> TRUE],
                   [kind |-> "frr", version |-> "10", native |-> TRUE, complete |-> TRUE],
                   [kind |-> "bird", version |-> "3", native |-> FALSE, complete |-> TRUE] >>

(* Two interfaces have the same first choice of an address.                   *)
TestGenerated(key, salt) ==
  salt + (IF key[1] \in {"r1", "sw"} THEN 10 ELSE IF key[1] = "r2" THEN 20 ELSE 30)

Text(n) == [kind |-> "text", value |-> n]
File(path, n) == [path |-> path, content |-> Text(n), entry |-> FALSE]
Nic(id, name) == [id |-> id, name |-> name, mac |-> 0, mtu |-> 0, up |-> TRUE, flaws |-> {},
                  addresses |-> <<[text |-> "10.0.0.1", length |-> 24]>>, gateway |-> "none"]
Node(id, kind, appliance, files) ==
  [id |-> id, name |-> <<"x", "x">>, kind |-> kind, appliance |-> appliance, runtime |-> "wasm",
   version |-> "any", entrypoint |-> <<>>, up |-> TRUE, flaws |-> {}, interfaces |-> <<Nic("i1", "eth0")>>,
   files |-> files, service |-> <<>>, gateway |-> "none"]

Lab ==
  [schema |-> 1, id |-> "lab", name |-> <<"l", "a">>, missing |-> {}, flaws |-> {},
   nodes |-> << Node("r1", "router", "bird", <<File(BirdConfigs[1], 5), File(<<"etc", "b">>, 3)>>),
                Node("r2", "router", "frr", <<File(FrrConfig, 7)>>),
                Node("c1", "client", "client", <<>>),
                Node("sw", "switch", "switch", <<>>) >>,
   links |-> << [id |-> "l1", flaws |-> {}, up |-> TRUE, ends |-> << <<"r1", "i1">>, <<"r2", "i1">> >>],
                [id |-> "l2", flaws |-> {}, up |-> TRUE, ends |-> << <<"c1", "i1">>, <<"sw", "i1">> >>] >>,
   events |-> << [id |-> "e1", flaws |-> {}, on |-> "link", target |-> "l1"] >>]

SetNic(d, n, f, v) == [d EXCEPT !.nodes[n].interfaces[1] = [@ EXCEPT ![f] = v]]
AddFile(d, n, file) == [d EXCEPT !.nodes[n].files = Append(@, file)]

(* One thing that is different about the project.                             *)
Edit(d, e) ==
  CASE e = "legacy" -> [d EXCEPT !.schema = 0, !.missing = {"seed", "settings"}]
    [] e = "bare" -> [d EXCEPT !.schema = 0, !.missing = Defaulted, !.nodes = <<>>, !.links = <<>>, !.events = <<>>]
    [] e = "newer" -> [d EXCEPT !.schema = 2]
    [] e = "seedless" -> [d EXCEPT !.missing = {"seed"}]
    [] e = "badSeed" -> [d EXCEPT !.flaws = {"seed"}]
    [] e = "badName" -> [d EXCEPT !.name = <<"l", "control">>]
    [] e = "sameNode" -> [d EXCEPT !.nodes[3].id = "r1"]
    [] e = "sameNic" -> [d EXCEPT !.nodes[1].interfaces = @ \o @]
    [] e = "sameFile" -> AddFile(d, 1, File(BirdConfigs[1], 2))
    [] e = "twoEntries" -> [d EXCEPT !.nodes[1].files = << [@[1] EXCEPT !.entry = TRUE], [@[2] EXCEPT !.entry = TRUE] >>]
    [] e = "entry" -> [d EXCEPT !.nodes[1].files = << @[1], [@[2] EXCEPT !.entry = TRUE] >>]
    [] e = "noEntrypoint" -> [d EXCEPT !.nodes[1].entrypoint = <<"etc", "x">>]
    [] e = "entrypoint" -> [d EXCEPT !.nodes[1].entrypoint = <<"etc", "b">>]
    [] e = "linkTwice" -> [d EXCEPT !.links[2].ends = << <<"r1", "i1">>, @[2] >>]
    [] e = "noEnd" -> [d EXCEPT !.links[2].ends = << <<"c1", "i9">>, @[2] >>]
    [] e = "noTarget" -> [d EXCEPT !.events[1].target = "l9"]
    [] e = "nodeEvent" -> [d EXCEPT !.events[1] = [@ EXCEPT !.on = "node", !.target = "sw"]]
    [] e = "lone" -> [d EXCEPT !.nodes[1].files[2].content.kind = "lone"]
    [] e = "data" -> [d EXCEPT !.nodes[1].files[2].content.kind = "data"]
    [] e = "noContent" -> [d EXCEPT !.nodes[1].files[1].content = [kind |-> "other"]]
    [] e = "overlong" -> AddFile(d, 1, File(<<"etc", "abcdefghijklmnop", "qrstuvwxyz0123456">>, 2))
    [] e = "dots" -> AddFile(d, 1, File(<<"etc", "..", "b">>, 2))
    [] e = "usrCompat" -> AddFile([d EXCEPT !.nodes[1].runtime = "compatibility"], 1, File(<<"usr", "b">>, 2))
    [] e = "usr" -> AddFile(d, 1, File(<<"usr", "b">>, 2))
    [] e = "ownMac" -> SetNic(d, 3, "mac", 10)
    [] e = "ownMacs" -> SetNic(SetNic(d, 3, "mac", 50), 4, "mac", 50)
    [] e = "badMac" -> SetNic(d, 3, "mac", -1)
    [] e = "multicast" -> SetNic(d, 3, "mac", 99)
    [] e = "lo" -> SetNic(d, 3, "name", "lo")
    [] e = "badNic" -> SetNic(d, 4, "name", "eth 0")
    [] e = "mtu" -> SetNic(d, 3, "mtu", 65532)
    [] e = "badAddress" -> SetNic(d, 3, "addresses", <<[text |-> "x", length |-> -1]>>)
    [] e = "addresses" -> SetNic(d, 3, "addresses", [i \in 1 .. 4 |-> [text |-> "::1", length |-> 100 + i]])
    [] e = "nics" -> [d EXCEPT !.nodes[3].interfaces = <<@[1], Nic("i2", "eth1"), Nic("i3", "eth2")>>]
    [] e = "nic2" -> [d EXCEPT !.nodes[1].interfaces = <<@[1], Nic("i2", "eth1")>>]
    [] e = "noConfig" -> [d EXCEPT !.nodes[1].files = <<>>]
    [] e = "frrPath" -> [d EXCEPT !.nodes[2].files[1].path = <<"etc", "frr.conf">>]
    [] e = "frrEntry" -> AddFile(d, 2, [File(<<"etc", "f">>, 1) EXCEPT !.entry = TRUE])
    [] e = "wrapperFile" -> AddFile(d, 2, File(FrrWrapperPath, 1))
    [] e = "daemons" -> AddFile(d, 2, File(FrrDaemons, 2))
    [] e = "reserved" -> AddFile(d, 3, File(<<"run", "anycastlab", "start.sh", "a">>, 1))
    [] e = "longPath" -> AddFile(d, 3, File(<<"etc", "abcdefghijklmnopqrstuvwxyz0">>, 1))
    [] e = "splitPath" -> AddFile(d, 3, File(<<"etc", "abcdefghijkl", "mnopqrstuvwx", "y">>, 1))
    [] e = "longDirectory" -> AddFile(d, 3, File(<<"etc", "abcdefghijklmnopqrstuvwxyz", "y">>, 1))
    [] e = "manyFiles" -> [d EXCEPT !.nodes[3].files = [i \in 1 .. 9 |-> File(<<"var", ToString(i), "a">>, 1)]]
    [] e = "bigFile" -> AddFile(d, 3, File(<<"etc", "b">>, 41))
    [] e = "service" -> [d EXCEPT !.nodes[3] = [@ EXCEPT !.kind = "service",
                           !.service = << [text |-> "10.0.0.1", length |-> 24], [text |-> "10.9.9.9", length |-> 32],
                                          [text |-> "10.9.9.9", length |-> 32] >>]]
    [] e = "badService" -> [d EXCEPT !.nodes[3] = [@ EXCEPT !.kind = "service",
                              !.service = << [text |-> "x", length |-> -1] >>]]
    [] e = "noNic" -> [d EXCEPT !.nodes[3].interfaces = <<>>, !.links = <<@[1]>>]
    [] e = "gateway" -> SetNic(d, 3, "gateway", "10.0.0.254")
    [] e = "badGateway" -> SetNic(d, 3, "gateway", "bad")
    [] e = "badDefault" -> [d EXCEPT !.nodes[3].gateway = "bad"]
    [] e = "trailing" -> [d EXCEPT !.nodes[3].name = <<"-", "x", "-", "x", "x">>]
    [] e = "hyphen" -> [d EXCEPT !.nodes[3].name = <<"x", "x", "-", "x">>]
    [] e = "nameless" -> [d EXCEPT !.nodes[3].name = <<"-">>]
    [] e = "version" -> [d EXCEPT !.nodes[1].version = "3"]
    [] e = "kind" -> [d EXCEPT !.nodes[2].appliance = "switch"]
    [] e = "switchKind" -> [d EXCEPT !.nodes[4].appliance = "bird"]
    [] e = "fourth" -> [d EXCEPT !.nodes = Append(@, Node("c2", "client", "client", <<>>))]
    [] e = "down" -> [d EXCEPT !.links[1].up = FALSE, !.links[2].up = FALSE]
    [] e = "off" -> [d EXCEPT !.nodes[3].up = FALSE]

Edits == {"legacy", "bare", "newer", "seedless", "badSeed", "badName", "sameNode", "sameNic", "sameFile",
          "twoEntries", "entry", "noEntrypoint", "entrypoint", "linkTwice", "noEnd", "noTarget", "nodeEvent",
          "lone", "data", "noContent", "overlong", "dots", "usrCompat", "usr", "ownMac", "ownMacs", "badMac", "multicast", "lo",
          "badNic", "mtu", "badAddress", "addresses", "nics", "nic2", "noConfig", "frrPath", "frrEntry",
          "wrapperFile", "daemons", "reserved", "longPath", "splitPath", "longDirectory", "manyFiles",
          "bigFile", "service", "badService", "noNic", "gateway", "badGateway", "badDefault", "trailing",
          "hyphen", "nameless", "version", "kind", "switchKind", "fourth", "down", "off"}

(* Files that make the archive larger by a block at a time.                   *)
Sized(d, n) == IF n = 0 THEN d ELSE AddFile(d, 1, File(<<"etc", "n">>, n))

Changes == {"none", "noZip", "noManifest", "noEntry", "shorter", "otherText", "notText", "dropRow", "rowTwice",
            "otherNode", "otherPath", "outside", "dropReference", "referenceTwice", "swapReferences",
            "inline", "extra", "tooMany", "otherId", "otherName", "otherSchema", "asData", "dropNode"}

TestChange(a, c) ==
  CASE c = "noZip" -> [a EXCEPT !.sound = {}]
    [] c = "noManifest" -> [a EXCEPT !.sound = @ \ {"manifest"}]
    [] c = "noEntry" -> [a EXCEPT !.entries = [k \in DOMAIN @ \ {0} |-> @[k]]]
    [] c = "shorter" -> [a EXCEPT !.entries[0].value = 1]
    [] c = "otherText" -> [a EXCEPT !.entries[0].value = 9, !.rows[1].bytes = 9]
    [] c = "notText" -> [a EXCEPT !.entries[0].utf8 = FALSE]
    [] c = "dropRow" -> [a EXCEPT !.rows = Tail(@)]
    [] c = "rowTwice" -> [a EXCEPT !.rows = Append(@, [@[1] EXCEPT !.id = 7, !.at = 7]),
                                   !.entries = @ @@ (7 :> @[0])]
    [] c = "otherNode" -> [a EXCEPT !.rows[1].node = "r2"]
    [] c = "otherPath" -> [a EXCEPT !.rows[1].path = <<"etc", "x">>]
    [] c = "outside" -> [a EXCEPT !.rows[1].at = -1, !.entries = @ @@ (-1 :> @[0])]
    [] c = "dropReference" -> [a EXCEPT !.document.nodes[1].files = Tail(@)]
    [] c = "referenceTwice" -> [a EXCEPT !.document.nodes[1].files[2] = a.document.nodes[1].files[1]]
    [] c = "swapReferences" ->
         [a EXCEPT !.document.nodes[1].files[1].content = a.document.nodes[1].files[2].content,
                   !.document.nodes[1].files[2].content = a.document.nodes[1].files[1].content]
    [] c = "inline" -> [a EXCEPT !.document.nodes[1].files[1].content = Text(5)]
    [] c = "extra" -> [a EXCEPT !.entries = @ @@ (8 :> @[0])]
    [] c = "tooMany" -> [a EXCEPT !.entries = @ @@ [k \in 10 .. 20 |-> @[0]]]
    [] c = "otherId" -> [a EXCEPT !.id = "other"]
    [] c = "otherName" -> [a EXCEPT !.name = <<"o">>]
    [] c = "otherSchema" -> [a EXCEPT !.schema = 2]
    [] c = "asData" -> [a EXCEPT !.rows[1].encoding = "data"]
    [] c = "dropNode" -> [a EXCEPT !.document.nodes = Tail(@)]

TestCatalog == { [id |-> "lab", name |-> <<"l", "a">>], [id |-> "p2", name |-> <<"l", "a", "copy">>] }

Plan(d, archived, change, runs) ==
  [project |-> d, archived |-> archived, change |-> change, runs |-> runs]

(* Edits that the validator takes, and two of them together.                  *)
Fit == { e \in Edits : Valid(Edit(Lab, e)) }
Pairs == { p \in (Fit \ {"bare", "noConfig", "noNic"}) \X Fit :
             p[1] # p[2] /\ p # <<"entrypoint", "noConfig">> }
Valids == { Edit(Lab, e) : e \in Fit } \cup { Edit(Edit(Lab, p[1]), p[2]) : p \in Pairs }

(* What the inspector takes without a check.                                  *)
Typed == { Edit(Lab, e) : e \in {"badAddress", "badService", "badGateway"} }
TestPlans ==
  { Plan(Edit(Lab, e), TRUE, "none", FALSE) : e \in Edits }
    \cup { Plan([Edit(Lab, e) EXCEPT !.id = "new"], TRUE, "none", FALSE) : e \in {"nodeEvent", "legacy"} }
    \cup { Plan(Lab, TRUE, c, FALSE) : c \in Changes }
    \cup { Plan(d, FALSE, "none", FALSE) : d \in Valids \cup Typed }
    \cup { Plan(Sized(Edit(Edit(Lab, "gateway"), e), n), FALSE, "none", FALSE) : e \in {"gateway", "down"}, n \in 1 .. 40 }
    \cup { Plan(Lab, FALSE, "none", TRUE) }
=============================================================================
