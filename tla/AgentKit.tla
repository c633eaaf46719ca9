------------------------------ MODULE AgentKit ------------------------------
(***************************************************************************)
(* The Agent Kit: build-agent-kit.mjs makes it from the sources and writes *)
(* it with a receipt, accept-published-agent-kit.mjs unpacks a published   *)
(* one, and `useful agent probe` inside the kit checks the directory it    *)
(* runs from (verifyAgentKit in agent-probe.mjs).  File names are the      *)
(* kit's; the bytes of a file are its name and the revision it was read    *)
(* at.                                                                     *)
(***************************************************************************)
EXTENDS Naturals, FiniteSets, FiniteSetsExt, Sequences, SequencesExt, Functions, TLC

CONSTANTS Builders,        \* processes that run the builder
          DependencySets,  \* what may be bundled: sets of third-party packages
          MaxSourceEdits, MaxBuildKills,   \* bounds
          Absent           \* what a path holds that no file is at

(* A revision counts the edits and commits there have been, and a file is   *)
(* never mistaken for the absence of one.                                   *)
KitRevisions == 0..(MaxSourceEdits + 1)
ASSUME KitAssumption ==
    /\ MaxSourceEdits \in Nat
    /\ Absent \notin [by : Builders, whole : BOOLEAN,
                      kit : {Absent} \union [read : KitRevisions, named : KitRevisions]]

KitCommands == {"useful", "useful-runtime", "useful-mcp"}
KitEntry(c) == <<"lib", c>>
Posix(c) == <<"bin", c>>
Windows(c) == <<"bin", c, "cmd">>
WorkerThreads == {<<"lib", "regex-worker-thread">>, <<"lib", "office-worker-thread">>}
Bundles == {KitEntry(c) : c \in KitCommands} \union WorkerThreads
Launchers == {Posix(c) : c \in KitCommands} \union {Windows(c) : c \in KitCommands}
RootLegal == {<<f>> : f \in {"LICENSE", "LICENSES.md", "NOTICE", "THIRD_PARTY_NOTICES.md", "TRADEMARKS.md"}}
OwnLicenses == {<<"licenses", f>> : f \in {"README", "MPL-2.0", "Apache-2.0", "AGPL-3.0-or-later", "CC-BY-4.0"}}
LicenseIndex == <<"THIRD_PARTY-LICENSES.json">>
Legal == RootLegal \union OwnLicenses \union {LicenseIndex}
Texts == {<<"README.txt">>, <<"package.json">>}
Manifest == <<"MANIFEST.json">>

(* addRuntimeResources: sources kept for provenance, each with its types    *)
(* where it is a module of the protocol, and every schema.                  *)
Provenance(package, files) == {<<"provenance", package, f>> : f \in files}
Typed(package, files) == Provenance(package, files) \union {<<"provenance", package, f, "d.ts">> : f \in files}
ProbeProvenance ==
    Typed("protocol", {"agent-probe", "computer-use-probe"})
    \union Typed("computer-use-contract", {"index"}) \union Typed("computer-use-browser-adapter", {"index"})
ProbeSchemas == {<<"schemas", "agent-probe">>, <<"schemas", "computer-use-probe">>}
RuntimeResources ==
    ProbeProvenance \union ProbeSchemas
    \union Typed("protocol", {"agent-connection", "agent-integration", "agent-connection-verification",
                              "agent-connection-verification-set"})
    \union Typed("agent-integrations", {"integration"})
    \union Provenance("action-runtime", {"action-suggest", "builtins", "catalog", "recipe", "semantics", "node-hash",
           "node-regex", "regex-worker-thread", "utility-actions", "office-actions", "node-office", "office-worker-thread"})
    \union Provenance("office-core", {"index", "errors", "limits", "xml", "zip", "docx", "pptx", "xlsx", "csv",
           "table-markdown", "markdown", "pdf"})
    \union Provenance("host-actions", {"index", "useful.host-actions.v1.schema"})
    \union {<<"lib", "useful.plugin-action.v1.schema">>}

(* What the probe of a kit will not do without.                             *)
ProbeRequires == Legal \union Launchers \union Bundles \union Texts \union ProbeProvenance \union ProbeSchemas

VARIABLES
    head, work,   \* the repository: HEAD, and the revision the files are those of (0: edited)
    deps,         \* the third-party packages that are bundled
    build,        \* builder -> how far it is and what it has read
    out,          \* the output directory: the zip and its receipt
    copy,         \* an archive on its way to a user, maybe altered
    disk,         \* the directory the user unpacked it to, maybe altered: name -> bytes, or Absent
    probed,       \* what the kit's probe said of disk
    sourceEdits, buildKills

kitVars == <<head, work, deps, build, out, copy, disk, probed, sourceEdits, buildKills>>
repoVars == <<head, work, deps, sourceEdits>>
userVars == <<copy, disk, probed>>

KitInit ==
    /\ head = 1 /\ work = 1 /\ deps \in DependencySets
    /\ build = [b \in Builders |-> [pc |-> "new"]]
    /\ out = [zip |-> Absent, receipt |-> Absent]
    /\ copy = Absent /\ disk = Absent /\ probed = "never"
    /\ sourceEdits = 0 /\ buildKills = 0

----------------------------------------------------------------------------
(* The repository moves on while a builder runs.                            *)
EditSource == sourceEdits < MaxSourceEdits /\ sourceEdits' = sourceEdits + 1
              /\ work' = 0 /\ UNCHANGED <<head, deps>>
CommitSource == sourceEdits < MaxSourceEdits /\ sourceEdits' = sourceEdits + 1
                /\ head' = head + 1 /\ work' = head + 1 /\ UNCHANGED deps

Goes(b, pc) == build' = [build EXCEPT ![b].pc = pc]
Stops(b) == Goes(b, "failed") /\ UNCHANGED out

(* assertCleanSource: git status.                                           *)
CheckClean(b) ==
    /\ build[b].pc = "new"
    /\ IF work # head THEN Stops(b)
       ELSE build' = [build EXCEPT ![b] = [pc |-> "clean", since |-> sourceEdits]] /\ UNCHANGED out

(* rev-parse HEAD.                                                          *)
ReadRevision(b) ==
    /\ build[b].pc = "clean"
    /\ build' = [build EXCEPT ![b] = [pc |-> "at", since |-> build[b].since, revision |-> head]]
    /\ UNCHANGED out

(* collectThirdPartyPackages: every input that reached a bundle is ours or  *)
(* a package with a licence file; two copies of one package agree.          *)
LegalName(d, f) == <<"third-party", d.name, d.version, f>>
Licensed(d) == "LICENSE" \in d.legal
Conflict(d, e) == d.name = e.name /\ d.version = e.version /\ d.legal # e.legal
BundleRefused ==
    \/ deps = {} \/ \E d \in deps : ~d.attributed \/ ~Licensed(d)
    \/ \E d, e \in deps : Conflict(d, e)
ThirdParty == UNION {{LegalName(d, f) : f \in d.legal} : d \in deps}

(* createPayload: the files of the kit, launchers executable; the manifest  *)
(* lists all of them but itself.                                            *)
PayloadNames == Bundles \union RuntimeResources \union Legal \union Texts \union Launchers
Mode(n) == IF \E c \in KitCommands : Posix(c) = n THEN "755" ELSE "644"
Payload(revision) == [n \in PayloadNames \union ThirdParty |-> <<n, revision>>]
KitManifest(files, revision) == [revision |-> revision, files |-> files, legal |-> ThirdParty]

(* zipBytes: members one behind the other, then the directory; a member has *)
(* a local header and one in the directory.                                 *)
ZipBytes(files, manifest) ==
    LET all == files @@ (Manifest :> <<Manifest, manifest>>)
        names == FoldSet(LAMBDA n, s : Append(s, n), <<>>, DOMAIN all) IN
    [members |-> [i \in DOMAIN names |->
         [name |-> names[i], folded |-> names[i], data |-> all[names[i]], mode |-> Mode(names[i]),
          start |-> i - 1, end |-> i, agrees |-> TRUE]],
     directoryAt |-> Len(names)]

(* A kit is known by the revision its files were read at and the one its    *)
(* manifest names.                                                          *)
Archive(kit) == LET files == Payload(kit.read) IN ZipBytes(files, KitManifest(files, kit.named))

Members(a) == Range(a.members)
Names(a) == {m.name : m \in Members(a)}
At(a, n) == CHOOSE m \in Members(a) : m.name = n
ManifestOf(a) == At(a, Manifest).data[2]
DifferInCase(a) == Cardinality({m.folded : m \in Members(a)}) = Len(a.members)

(* readAgentKitZip: names differ whatever their case, modes are those of    *)
(* files, both headers and the checksum agree, and the members fill the     *)
(* archive up to its directory without a gap and without an overlap.        *)
Laid(a) ==
    LET starts == {m.start : m \in Members(a)}
        ends == {m.end : m \in Members(a)} IN
    /\ Cardinality(starts) = Len(a.members) /\ Cardinality(ends) = Len(a.members)
    /\ starts \union {a.directoryAt} = ends \union {0} /\ a.directoryAt \in ends
    /\ \A m \in Members(a) : m.end > m.start
Readable(a) ==
    /\ DifferInCase(a) /\ Laid(a)
    /\ \A m \in Members(a) : m.mode \in {"644", "755"} /\ m.agrees

(* assertThirdPartyLicenseManifest: the index and the directory agree.      *)
LegalClosed(a, legal) == {n \in Names(a) : n[1] = "third-party"} = legal

(* Faulty variant: the manifest is checked one way, for the files it lists. *)
ListedOnly(a, files) == DOMAIN files \subseteq Names(a) \ {Manifest}
(* assertClosedManifest: exactly the files listed, with their bytes and the *)
(* canonical modes.                                                         *)
ExactlyListed(a, files) == Names(a) \ {Manifest} = DOMAIN files
Matches(a, m) ==
    /\ ExactlyListed(a, m.files)
    /\ \A x \in Members(a) : x.name # Manifest => x.name \notin DOMAIN m.files \/ x.data = m.files[x.name]
Inspected(a) ==
    /\ Readable(a) /\ Manifest \in Names(a)
    /\ LET m == ManifestOf(a) IN
           /\ Matches(a, m)
           /\ \A x \in Members(a) : x.mode = Mode(x.name)
           /\ {KitEntry(c) : c \in KitCommands} \union Launchers \union Legal \subseteq DOMAIN m.files
           /\ LegalClosed(a, m.legal)

(* createPayload and the roundtrip, from what the files hold by now.        *)
ReadSources(b) ==
    /\ build[b].pc = "at"
    /\ IF BundleRefused THEN Stops(b)
       ELSE LET kit == [read |-> work, named |-> build[b].revision] IN
            IF ~Inspected(Archive(kit)) \/ out.zip # Absent \/ out.receipt # Absent THEN Stops(b)
            ELSE /\ build' = [build EXCEPT ![b] = [pc |-> "packed", kit |-> kit, quiet |-> build[b].since = sourceEdits]]
                 /\ UNCHANGED out

----------------------------------------------------------------------------
(* reserveAndWrite: both files are opened exclusively before either is      *)
(* written; a failure removes what this call created.                       *)
Empty(b) == [by |-> b, whole |-> FALSE, kit |-> Absent]
Whole(b) == [by |-> b, whole |-> TRUE, kit |-> build[b].kit]
ReserveZip(b) ==
    /\ build[b].pc = "packed"
    /\ IF out.zip # Absent THEN Stops(b)
       ELSE out' = [out EXCEPT !.zip = Empty(b)] /\ Goes(b, "zip reserved")
ReserveReceipt(b) ==
    /\ build[b].pc = "zip reserved"
    /\ IF out.receipt # Absent THEN out' = [out EXCEPT !.zip = Absent] /\ Goes(b, "failed")
       ELSE out' = [out EXCEPT !.receipt = Empty(b)] /\ Goes(b, "reserved")
WriteZip(b) ==
    /\ build[b].pc = "reserved"
    /\ out' = [out EXCEPT !.zip = Whole(b)] /\ Goes(b, "zip written")
WriteReceipt(b) ==
    /\ build[b].pc = "zip written"
    /\ out' = [out EXCEPT !.receipt = Whole(b)] /\ Goes(b, "ok")
WriteFails(b) ==
    /\ build[b].pc \in {"reserved", "zip written"}
    /\ out' = [zip |-> Absent, receipt |-> Absent] /\ Goes(b, "failed")

(* A builder is killed; when none runs any more, a person clears what it    *)
(* left and starts again.                                                   *)
KillBuilder(b) ==
    /\ buildKills < MaxBuildKills /\ buildKills' = buildKills + 1
    /\ build[b].pc \notin {"new", "ok", "failed", "killed"}
    /\ Goes(b, "killed") /\ UNCHANGED out
Clear ==
    /\ \A b \in Builders : build[b].pc \in {"new", "failed", "killed"}
    /\ \E b \in Builders : build[b].pc = "killed"
    /\ out' = [zip |-> Absent, receipt |-> Absent]
    /\ build' = [b \in Builders |-> IF build[b].pc = "killed" THEN [pc |-> "new"] ELSE build[b]]

----------------------------------------------------------------------------
(* A user gets the archive with its receipt.  On the way one thing of it    *)
(* may change, and so may one file of what was unpacked.                    *)
Fetch ==
    /\ copy = Absent /\ out.receipt # Absent /\ out.receipt.whole
    /\ \A b \in Builders : build[b].pc \in {"ok", "failed"}
    /\ copy' = [archive |-> Archive(out.zip.kit), published |-> Archive(out.receipt.kit), altered |-> FALSE]
    /\ UNCHANGED <<disk, probed>>

Touched == {KitEntry("useful"), Posix("useful"), <<"NOTICE">>, Manifest}
Foreign == MaxSourceEdits + 2     \* a revision that was never there
Extra == <<"lib", "extra">>
Alterations(a) ==
    LET change(i, m) == [a EXCEPT !.members[i] = m]
        add(m) == [members |-> Append(a.members, [m EXCEPT !.start = a.directoryAt, !.end = a.directoryAt + 1]),
                   directoryAt |-> a.directoryAt + 1] IN
    UNION {LET m == a.members[i] IN
           {change(i, [m EXCEPT !.name = Extra, !.folded = Extra]),
            change(i, [m EXCEPT !.mode = "link"]),
            change(i, [m EXCEPT !.mode = IF @ = "755" THEN "644" ELSE "755"]),
            change(i, [m EXCEPT !.agrees = FALSE]),
            change(i, [m EXCEPT !.end = @ + 1]), change(i, [m EXCEPT !.start = @ + 1]),
            [a EXCEPT !.members = RemoveAt(a.members, i)],
            add([m EXCEPT !.name = Extra]), add([m EXCEPT !.name = Extra, !.folded = Extra]),
            change(i, IF m.name = Manifest THEN [m EXCEPT !.data[2].revision = Foreign] ELSE [m EXCEPT !.data = <<m.name, Foreign>>])}
           : i \in {i \in DOMAIN a.members : a.members[i].name \in Touched}}
Alter ==
    /\ copy # Absent /\ ~copy.altered /\ disk = Absent
    /\ \E a \in Alterations(copy.archive) : copy' = [copy EXCEPT !.archive = a, !.altered = TRUE]
    /\ UNCHANGED <<disk, probed>>

(* accept: the digest published for the archive, safe names, launchers one  *)
(* may run, and the manifest against the files.                             *)
Accepted(a, published) ==
    /\ a = published
    /\ DifferInCase(a)
    /\ \A m \in Members(a) : m.mode # "link" /\ (\A c \in KitCommands : m.name = Posix(c) => m.mode = "755")
    /\ Manifest \in Names(a) /\ Matches(a, ManifestOf(a))

(* Unpacked by any tool, which checks nothing but the names.                *)
Extract ==
    /\ copy # Absent /\ disk = Absent /\ DifferInCase(copy.archive)
    /\ disk' = [n \in Names(copy.archive) |-> At(copy.archive, n).data]
    /\ UNCHANGED <<copy, probed>>
EditDisk ==
    /\ disk # Absent /\ probed = "never" /\ ~copy.altered
    /\ \E n \in Touched \ {Manifest} :
           \/ disk' = [x \in DOMAIN disk \ {n} |-> disk[x]]
           \/ disk' = (n :> <<n, Foreign>>) @@ disk
           \/ disk' = (Extra :> <<Extra, Foreign>>) @@ disk
    /\ copy' = [copy EXCEPT !.altered = TRUE]
    /\ UNCHANGED probed

(* verifyAgentKit: the directory is exactly what its manifest lists, and it *)
(* holds all the probe needs.                                               *)
ProbeAccepts(files) ==
    /\ Manifest \in DOMAIN files
    /\ LET m == files[Manifest][2] IN
           /\ DOMAIN files \ {Manifest} = DOMAIN m.files
           /\ ProbeRequires \subseteq DOMAIN m.files
           /\ \A n \in DOMAIN m.files : files[n] = m.files[n]
ProbeKit ==
    /\ disk # Absent /\ probed = "never"
    /\ probed' = IF ProbeAccepts(disk) THEN "ok" ELSE "refused"
    /\ UNCHANGED <<copy, disk>>

KitNext ==
    \/ (EditSource \/ CommitSource) /\ UNCHANGED <<build, out, buildKills, userVars>>
    \/ \E b \in Builders :
           \/ (\/ CheckClean(b) \/ ReadRevision(b) \/ ReadSources(b) \/ ReserveZip(b) \/ ReserveReceipt(b)
               \/ WriteZip(b) \/ WriteReceipt(b) \/ WriteFails(b)) /\ UNCHANGED <<repoVars, buildKills, userVars>>
           \/ KillBuilder(b) /\ UNCHANGED <<repoVars, userVars>>
    \/ Clear /\ UNCHANGED <<repoVars, buildKills, userVars>>
    \/ (Fetch \/ Alter \/ Extract \/ EditDisk \/ ProbeKit) /\ UNCHANGED <<repoVars, build, out, buildKills>>

KitSpec == KitInit /\ [][KitNext]_kitVars

----------------------------------------------------------------------------
(* A receipt that says something stands beside the whole archive it is the  *)
(* digest of, whoever was killed or failed; a builder that reports success  *)
(* left both; two builders never write into each other's output.            *)
ReceiptMeansArchive ==
    /\ out.receipt # Absent /\ out.receipt.whole =>
           out.zip # Absent /\ out.zip.whole /\ out.zip.kit = out.receipt.kit
    /\ \A b \in Builders : build[b].pc = "ok" =>
           out.zip # Absent /\ out.receipt # Absent /\ out.zip.by = b /\ out.receipt.by = b
    /\ out.zip # Absent /\ out.receipt # Absent => out.zip.by = out.receipt.by

(* If the repository stood still while a builder read it, its kit holds the *)
(* files of the revision it names, and a licence of every package in it.    *)
KitOfItsRevision ==
    \A b \in Builders : build[b].pc \in {"packed", "ok"} =>
        LET a == Archive(build[b].kit)
            m == ManifestOf(a) IN
        /\ build[b].quiet => \A n \in DOMAIN m.files : m.files[n] = <<n, m.revision>>
        /\ \A d \in deps : LegalName(d, "LICENSE") \in Names(a)

(* Three readers of a kit agree: what the builder made passes its own       *)
(* inspection, acceptance and the probe it carries; one change on the way   *)
(* fails acceptance, and the inspection unless it is the manifest's say on  *)
(* what the files came from; and the probe passes only what was built.      *)
PublishedFiles == {<<m.name, m.data>> : m \in Members(copy.published)}
ReadersAgree ==
    /\ copy # Absent /\ disk = Absent =>
           IF copy.altered
           THEN /\ ~Accepted(copy.archive, copy.published)
                /\ Inspected(copy.archive) => \A m \in Members(copy.archive) :
                       m.name # Manifest => m \in Members(copy.published)
           ELSE Accepted(copy.archive, copy.published) /\ Inspected(copy.archive)
    /\ probed = "refused" => copy.altered
    /\ probed = "ok" => {<<n, disk[n]>> : n \in DOMAIN disk \ {Manifest}}
                          = {f \in PublishedFiles : f[1] # Manifest}

AgentKitSafe == ReceiptMeansArchive /\ KitOfItsRevision /\ ReadersAgree
=============================================================================
