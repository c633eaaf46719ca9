------------------------------ MODULE MCBuild ------------------------------
(***************************************************************************)
(* Model checking of what builds, publishes and installs: the source       *)
(* command of useful-cli, the workflow checker, the public snapshot and    *)
(* the policy it is made under, the release gates, the size gate, the      *)
(* media packs and the update keys, and the source centre where a person   *)
(* picks what was published.                                               *)
(* They share no state; `focus` says which one a behaviour is about, so    *)
(* that one run explores the sum of their state spaces.                    *)
(***************************************************************************)
EXTENDS SourceCli, WorkflowPolicy, PublicSource, SourceCenter, ReleaseGates, SizeBudget, MediaPacks, UpdateTrust,
        PublicPolicy

CONSTANTS s1, s2, l1

VARIABLE focus
buildVars == <<focus, sourceVars, workflowVars, publicVars, centreVars, gatesVars, sizeVars, packsVars, trustVars,
              policyVars>>
othersOfSize == <<sourceVars, workflowVars, publicVars, centreVars, gatesVars>>
dataVars == <<sizeVars, packsVars, trustVars, policyVars>>

----------------------------------------------------------------------------
(* The workflows of the repository: triggers, inputs, and jobs with their   *)
(* needs, conditions, permissions and steps.                                *)
Step(role) == [is |-> role, hard |-> TRUE, on |-> "", exact |-> TRUE, pinned |-> TRUE,
               trusts |-> FALSE, phrases |-> {}]
Saying(role, phrases) == [Step(role) EXCEPT !.phrases = phrases]
On(role, condition) == [Step(role) EXCEPT !.on = condition]
WfJob(needs, when, permissions, steps) ==
    [needs |-> needs, when |-> when, permissions |-> permissions,
     environment |-> IF permissions = "write" THEN "release" ELSE "none",
     steps |-> <<Saying("checkout", {"clean"})>> \o steps]
Bootstrap == <<Step("pnpm"), Step("node"), Step("install"), Step("sdk build")>>
Desk == {"desktop"}
Workflow(file, inputs, jobs) == [file |-> file, triggers |-> {"workflow_dispatch"}, inputs |-> inputs,
    permissions |-> "read", trusts |-> FALSE, jobs |-> jobs]

ReleaseWorkflow == Workflow("release", "closed",
 [j \in RequiredJobs |->
   CASE j = "identity" -> WfJob({}, {}, "read", <<Saying("gate", Contract.identity)>>)
     [] j = "verify" -> WfJob({"identity"}, Desk, "read",
          <<Step("source check"), Step("brand"), Step("policy"), Step("readiness"), Step("workspace test"),
            Saying("test", Contract.verify), Step("race test")>>)
     [] j = "verify-compose" -> WfJob({"identity"}, Desk, "read", Bootstrap)
     [] j = "sbom" -> WfJob(Gates, Desk, "read", <<Step("upload sbom")>>)
     [] j = "agent-kit" -> WfJob(Gates, Desk, "read", <<Saying("kit", {"kit contract"}), Step("upload")>>)
     [] j = "source-agent-kit" -> WfJob({"identity"}, {"source"}, "read",
          <<Saying("kit", {"kit contract", "source evidence"}), Step("upload")>>)
     [] j = "build" -> WfJob(Gates, Desk, "read",
          <<Saying("icons", Contract.build), Step("compile"), Step("windows cert"), Step("macos cert"),
            Step("bundle"), Step("bundle"), On("fetch media", "full"), On("package", "windows"),
            On("size", "windows"), Step("upload"), On("windows cleanup", "always"), On("macos cleanup", "always")>>)
     [] j = "assemble" -> WfJob({"build", "agent-kit", "sbom", "identity"}, Desk, "read",
          <<Step("source check"), Step("download"), Saying("assemble", Contract.assemble), Step("upload")>>)
     [] j = "publish" -> WfJob({"assemble", "identity"}, Desk \union {"publish"}, "write",
          <<Step("source check"), Step("download"), Saying("checksums", {"closed set", "set first"}),
            Saying("create", Contract.publish \union {"tag first", "exact tag"})>>)
     [] j = "publish-source-agent-kit" -> WfJob({"identity", "source-agent-kit"}, {"source", "publish"}, "write",
          <<Step("pnpm"), Step("node"), Step("install"), Step("source check"), Step("download"),
            Saying("create", {"source evidence", "revalidate", "tag first", "exact tag"})>>)])

CiWorkflow == Workflow("ci", "none",
 [j \in {"build-and-test", "compose-e2e", "platform-limited-matrix", "linux-rust-lint", "fuzz-smoke"} |->
   CASE j = "build-and-test" -> WfJob({}, {}, "read",
          <<Step("brand"), Step("policy"), Step("readiness"), Step("workspace test"),
            [Step("preview build") EXCEPT !.trusts = TRUE], Step("package"), Step("size"),
            Step("upload"), Step("upload sbom")>>)
     [] j = "compose-e2e" -> WfJob({}, {}, "read", Bootstrap \o <<Step("policy")>>)
     [] j = "platform-limited-matrix" -> WfJob({}, {}, "read", Bootstrap \o <<Step("scenario")>>)
     [] j = "linux-rust-lint" -> WfJob({}, {}, "read",
          <<Step("pnpm"), Step("node"), Step("install"), Step("workspace build"),
            Saying("clippy", {"linux packages"}), Step("test")>>)
     [] j = "fuzz-smoke" -> WfJob({}, {}, "read", <<Saying("fuzz", {"lowercase id"}), Saying("fuzz", {"sigstore bundle"}),
            Saying("fuzz", {"tuf verify"}), Saying("fuzz", {"metadata name"})>>)])

BundlesWorkflow == Workflow("platform-bundles", "pinned",
 [j \in {"agent-kit-acceptance", "bundle"} |->
    IF j = "bundle"
    THEN WfJob({}, {}, "read", <<Step("icons"), Step("frontend"), Step("native check"),
                                 [Step("preview build") EXCEPT !.trusts = TRUE]>>)
    ELSE WfJob({}, {}, "read", <<Step("pnpm"), Step("node"), Step("install"), Step("accept kit"), Step("upload")>>)])

MCWorkflows == {ReleaseWorkflow, CiWorkflow, BundlesWorkflow,
   Workflow("codeql", "none", [j \in {"analyze"} |-> WfJob({}, {}, "read", <<Step("codeql init")>>)]),
   Workflow("dependency-review", "none",
            [j \in {"dependency-review"} |-> WfJob({}, {}, "read", <<Step("guard"), Step("review")>>)])}

----------------------------------------------------------------------------
(* Commit 1 holds two files of the policy, commit 2 one of them.            *)
MCTree == <<{1, 2}, {1}>>

(* Two TRP sources and one legacy catalogue.  The first source may publish  *)
(* a new version, the second may show another key, and its second version   *)
(* names a candidate that does not fit.                                     *)
MCTrp == {s1, s2}
MCMalformed == {<<s2, 2>>}
CentreStart ==
    /\ rows \in {[s \in AllSources |-> IF s = s2 THEN r ELSE "enabled"] : r \in {"absent", "enabled"}}
    /\ CentreInit
    /\ published = [s \in TrpSources |-> IF s = s1 THEN 1 ELSE 2]
    /\ fingerprint = [s \in TrpSources |-> IF s = s1 THEN 2 ELSE 1]
    /\ (origin # Nothing => (origin.source = s1 /\ rows[s2] = "enabled"))
    /\ view.name = IF origin = Nothing THEN "sources" ELSE "shop"
CentreFirst == CentreStart /\ origin = Nothing /\ rows[s2] = "enabled"

(* Acceptance stages, what a report may find, and what a release may bring. *)
MCStages == <<"git-state", "quality", "evidence">>
GoodFacts == [rootPinned |-> TRUE, present |-> TRUE, complete |-> {1, 2}, clean |-> TRUE, origin |-> TRUE,
  sound |-> {1, 2}, dependabot |-> TRUE, workflows |-> TRUE, brand |-> TRUE, version |-> 2, observed |-> {2},
  identifier |-> "io.github.redeati.useful", overrides |-> {},
  readmes |-> [f \in {"README.md"} |-> [fields |-> ReleaseFields, versions |-> {2}]],
  documents |-> [f \in {"SECURITY.md"} |-> [there |-> TRUE, required |-> {"contact"}, fields |-> {"contact"}]],
  tracked |-> {<<"src", "a">>, <<"docs", "b">>, <<"LICENSE", "">>}, exact |-> {<<"LICENSE", "">>},
  prefixes |-> <<"src", "docs">>, packages |-> {"p"}, expectedPackages |-> {"p"}, mapped |-> TRUE,
  bodiesPinned |-> TRUE, gh |-> TRUE]
MCFacts == {GoodFacts, [GoodFacts EXCEPT !.gh = FALSE], [GoodFacts EXCEPT !.rootPinned = FALSE],
  [GoodFacts EXCEPT !.complete = {1}], [GoodFacts EXCEPT !.sound = {1}], [GoodFacts EXCEPT !.clean = FALSE],
  [GoodFacts EXCEPT !.observed = {1, 2}], [GoodFacts EXCEPT !.readmes["README.md"].versions = {1, 2}],
  [GoodFacts EXCEPT !.documents["SECURITY.md"].fields = {}], [GoodFacts EXCEPT !.prefixes = <<"docs">>],
  [GoodFacts EXCEPT !.packages = {"p", "q"}], [GoodFacts EXCEPT !.overrides = {"windows"}]}

MediaSource(name, digest) == [name |-> name, there |-> TRUE, committed |-> digest, digest |-> digest, claimed |-> digest]
MediaComponent(name, archive, digest) == [name |-> name, archive |-> archive, files |-> {MediaSource(name, digest)}]
GoodCase(scope, channel, publish) ==
 [publish |-> publish, scope |-> scope, channel |-> channel, versionChannel |-> channel, version |-> 1, tag |-> 1,
  ready |-> TRUE, repository |-> "expected", visibility |-> "public", actor |-> "owner", actors |-> {"owner"},
  root |-> "production", feed |-> "https template", ceremony |-> TRUE,
  evidence |-> [digest |-> 5, pinned |-> 5, lock |-> 4,
                components |-> <<MediaComponent("ffmpeg", 11, 21), MediaComponent("mpv", 12, 22)>>],
  lock |-> [digest |-> 4, components |-> <<[name |-> "ffmpeg", archive |-> 11, extracted |-> 31],
                                           [name |-> "mpv", archive |-> 12, extracted |-> 0]>>],
  binaries |-> <<31, 32>>, checksums |-> <<31, 32>>,
  stableEvidence |-> [tag |-> 1, root |-> "production", proved |-> TRUE],
  receipts |-> [i \in DOMAIN PlatformsOf(scope) |-> Receipt(PlatformsOf(scope)[i],
                  IF PlatformsOf(scope)[i] \in SignedPlatforms THEN "verified" ELSE "not-applicable")],
  uploads |-> [name \in AssetNames |-> IF name \in ExpectedAssets(scope) THEN IF name \in Kit THEN 2 ELSE 1 ELSE 0]]
GoodCases == {GoodCase(scope, channel, publish) :
           scope \in {"desktop-lite", "desktop-full"}, channel \in {"beta", "stable"}, publish \in BOOLEAN}
CaseEdits(c) == {[c EXCEPT !.versionChannel = "nightly"], [c EXCEPT !.tag = 2], [c EXCEPT !.ready = FALSE],
  [c EXCEPT !.actor = "other"], [c EXCEPT !.root = "development"], [c EXCEPT !.ceremony = FALSE],
  [c EXCEPT !.evidence = NoEvidence], [c EXCEPT !.evidence.lock = 3], [c EXCEPT !.evidence.digest = 6],
  [c EXCEPT !.evidence.components = Tail(@)], [c EXCEPT !.evidence.components[2].files = {}],
  [c EXCEPT !.evidence.components[1].files = {[MediaSource("ffmpeg", 21) EXCEPT !.committed = 20]}],
  [c EXCEPT !.binaries[1] = 33, !.checksums[1] = 33], [c EXCEPT !.binaries[2] = 0], [c EXCEPT !.checksums[2] = 35],
  [c EXCEPT !.stableEvidence.tag = 2], [c EXCEPT !.receipts[1] = Receipt("windows/x64", "unsigned")],
  [c EXCEPT !.receipts[1].proof = "not-performed"], [c EXCEPT !.receipts = Tail(@)],
  [c EXCEPT !.uploads["setup-lite.exe"] = 0], [c EXCEPT !.uploads["agent-kit.zip.sha256"] = 3]}
MCCases == GoodCases \union UNION {CaseEdits(c) : c \in GoodCases}


(* Frontend builds: a good one, one of the same total whose first load is   *)
(* heavier, one that loads the panel at once, heavier or stray files.       *)
Chunk(file, imports) == [file |-> file, imports |-> imports, dynamicImports |-> {}, assets |-> {}, entry |-> FALSE, dynamic |-> FALSE]
LazyChunk(file, imports) == [Chunk(file, imports) EXCEPT !.dynamic = TRUE]
GoodManifest == [k \in {"index.html", "vendor", "AgentProfilePanel.vue"} |->
   CASE k = "index.html" -> [Chunk("index.js", {"vendor"}) EXCEPT !.entry = TRUE, !.dynamicImports = {"AgentProfilePanel.vue"}]
     [] k = "vendor" -> [Chunk("vendor.js", {}) EXCEPT !.assets = {"style.css"}]
     [] OTHER -> LazyChunk("agent.js", {"vendor"})]
GoodFiles == [f \in {"index.html", "index.js", "vendor.js", "agent.js", "style.css"} \union Workers |->
   IF f \in {"index.js", "agent.js"} THEN <<2, 1>> ELSE <<1, 1>>]
GoodBuild == [files |-> GoodFiles, folders |-> {}, manifest |-> GoodManifest]
MCBuilds == {GoodBuild,
  [GoodBuild EXCEPT !.files["index.js"] = <<3, 2>>, !.files["agent.js"] = <<1, 2>>],
  [GoodBuild EXCEPT !.files["index.js"] = <<2, 3>>, !.manifest["index.html"].imports = {"vendor", "AgentProfilePanel.vue"}],
  [GoodBuild EXCEPT !.files["style.css"] = <<2, 2>>],
  [GoodBuild EXCEPT !.files = [f \in DOMAIN GoodFiles \union {"view.js"} |-> IF f \in DOMAIN GoodFiles THEN GoodFiles[f] ELSE <<1, 1>>]],
  [GoodBuild EXCEPT !.files["officeWorker.js"] = <<0, 1>>],
  [GoodBuild EXCEPT !.folders = {"empty"}]}
GoodBudgets == [limits |-> [m \in Metrics |-> CASE m = "frontendDistBytes" -> 10 [] m = "frontendAppBytes" -> 9
    [] m = "officeWorkerBytes" -> 1 [] m = "initialJsBytes" -> 3 [] OTHER -> 2], profiles |-> [p \in Profiles |-> RequiredBy(p)]]
MCBudgets == {GoodBudgets, [GoodBudgets EXCEPT !.limits["frontendDistBytes"] = 11],
   [GoodBudgets EXCEPT !.profiles["release"] = RequiredBy("ci")]}
MCNative == {[a \in ReleaseArtifacts |-> <<2, 1>>], [a \in ReleaseArtifacts |-> IF a = "usefulExe" THEN <<3, 1>> ELSE <<1, 2>>],
   [a \in ReleaseArtifacts |-> IF a = "portableFullZip" THEN Unmeasured ELSE <<1, 1>>]}

(* Two locks that differ in one pack, for the media packs.                  *)
MCLocks == {[p \in PackIds |-> 1], [p \in PackIds |-> IF p = "preview" THEN 2 ELSE 1]}
PacksStart ==
    /\ PacksInit
    /\ packFiles.lock = [p \in PackIds |-> 1] /\ packFiles.archive["preview"] = 1
    /\ packFiles.manifest["preview"] # NoPackFile
    /\ (packFiles.manifest["transcode"] = NoPackFile => packPlan.expiry = 1)

(* A repository for the policy: the static example with one archive, a      *)
(* committed fixture that may be broken, and commits that differ from it in *)
(* one file each.  HEAD moves between the first two; behaviours that start  *)
(* at another commit have one change.                                       *)
PathFact == [portable |-> TRUE, branded |-> FALSE, class |-> "public", prohibited |-> FALSE, key |-> "",
             place |-> <<>>, fixture |-> "none", archive |-> FALSE, required |-> FALSE]
StaticFact(place) == [PathFact EXCEPT !.place = place, !.archive = place[1] = "archive"]
MCPathFacts == [p \in 1..15 |-> [(
  CASE p = 1 -> [PathFact EXCEPT !.required = TRUE]
    [] p = 4 -> [PathFact EXCEPT !.class = "excluded"]
    [] p = 5 -> [PathFact EXCEPT !.prohibited = TRUE]
    [] p = 6 -> [PathFact EXCEPT !.class = "other"]
    [] p = 7 -> StaticFact(<<"timestamp">>)
    [] p = 8 -> StaticFact(<<"snapshot", 1>>)
    [] p = 9 -> StaticFact(<<"targets", 1>>)
    [] p = 10 -> StaticFact(<<"catalog">>)
    [] p = 11 -> StaticFact(<<"archive", 21, "tool">>)
    [] p = 12 -> StaticFact(<<"archive", 22, "stray">>)
    [] p = 13 -> [PathFact EXCEPT !.fixture = "may be broken", !.archive = TRUE]
    [] p = 14 -> [PathFact EXCEPT !.branded = TRUE]
    [] p = 15 -> [PathFact EXCEPT !.portable = FALSE]
    [] OTHER -> PathFact) EXCEPT !.key = IF p = 3 THEN 2 ELSE p]]
NoDoc == [type |-> "none"]
Text(digest) == [digest |-> digest, bytes |-> 1, secret |-> FALSE, brand |-> FALSE, text |-> TRUE,
                 image |-> FALSE, entries |-> Broken, doc |-> NoDoc]
StaticText(digest, doc) == [Text(digest) EXCEPT !.doc = doc]
ZipEntry == [name |-> Text(31), kind |-> "file", size |-> 1, nested |-> FALSE, data |-> Text(32)]
Zip(digest, entries) == [Text(digest) EXCEPT !.text = FALSE, !.entries = entries]
Target == [name |-> "tool", digest |-> 21, identity |-> 51, proved |-> TRUE]
File(content) == [mode |-> "100644", content |-> content]
BasePaths == {1, 2, 7, 8, 9, 10, 11, 13}
BaseTree == [p \in BasePaths |-> File(
  CASE p = 7 -> StaticText(7, [type |-> "timestamp", version |-> 1, next |-> 1, digest |-> 8])
    [] p = 8 -> StaticText(8, [type |-> "snapshot", version |-> 1, next |-> 1, digest |-> 9])
    [] p = 9 -> StaticText(9, [type |-> "targets", version |-> 1, targets |-> {Target}])
    [] p = 10 -> StaticText(10, [type |-> "catalog", rows |-> <<51>>])
    [] p = 11 -> Zip(21, <<ZipEntry>>)
    [] p = 13 -> Zip(13, Broken)
    [] OTHER -> Text(p))]
With(p, content) == [q \in BasePaths \union {p} |-> IF q = p THEN File(content) ELSE BaseTree[q]]
Without(p) == [q \in BasePaths \ {p} |-> BaseTree[q]]
MCSourceTrees == <<BaseTree, With(5, Text(5)), With(4, Text(4)), With(3, Text(3)),
  With(2, [Text(2) EXCEPT !.secret = TRUE]), Without(1),
  With(9, StaticText(19, [type |-> "targets", version |-> 1, targets |-> {Target}])),
  With(10, StaticText(10, [type |-> "catalog", rows |-> <<51, 51>>])), With(12, Zip(22, <<ZipEntry>>)),
  [BaseTree EXCEPT ![2] = [mode |-> "120000", content |-> Link]],
  With(11, Zip(21, <<[ZipEntry EXCEPT !.nested = TRUE]>>)),
  With(11, Zip(21, <<ZipEntry, [ZipEntry EXCEPT !.size = 3]>>)),
  With(14, Text(14)), With(15, Text(15)), With(2, [Text(2) EXCEPT !.bytes = 3]), With(11, Zip(21, Broken))>>
MCEdits == {<<2, Gone>>, <<2, Text(2)>>, <<2, [Text(2) EXCEPT !.secret = TRUE]>>, <<6, Text(6)>>,
  <<6, Gone>>, <<11, Link>>}
PolicyMoves == PolicyNext /\ head' \in {1, 2, head} /\ (inspect.expected # 1 => sourceMoves' <= 1)
PolicyFirst ==
    /\ PolicyInit /\ head = 1
    /\ inspect.purpose = "check" /\ ~inspect.allowDirty /\ ~inspect.fixed

(* The source command: where nothing tells processes or packages apart, the *)
(* same one of them starts.                                                 *)
Some(set) == CHOOSE x \in set : TRUE
SourceMoves ==
    /\ SourceNext
    /\ lock = Free /\ (\A p \in Commands : cmd[p] = Idle) => \A p \in Commands \ {Some(Commands)} : cmd'[p] = Idle
    /\ edits = 0 => \A p \in Commands : cmd'[p].pc = "adding" => cmd'[p].row[3] = Some(Bytes)

(* The workflow checker: a second edit is of the job of the first, or of    *)
(* any part of a workflow that is accepted with the first alone.  Nothing   *)
(* is said of a workflow that is refused with two.                          *)
EditedJobs == LET base == CHOOSE b \in BaseWorkflows : b.file = workflow.file IN
                {j \in Jobs : Job(j) # base.jobs[j]}
WorkflowMoves ==
    \/ changes = 0 /\ WorkflowNext
    \/ changes = 1 /\ (CheckWorkflow \/ IF Accepted THEN Edit ELSE EditAmong(EditedJobs))
    \/ changes = 2 /\ CheckWorkflow /\ accepted' = "yes"

BuildInit ==
    /\ focus \in {"source", "workflow", "public", "centre", "downloads", "accept", "ready", "release", "size", "packs", "trust",
                  "policy"}
    /\ IF focus = "centre" THEN CentreStart ELSE CentreFirst
    /\ SourceInit /\ PublicInit /\ TrustInit
    /\ WorkflowInit /\ (focus # "workflow" => workflow = CHOOSE w \in BaseWorkflows : TRUE)
    /\ IF focus = "accept" THEN AcceptInit ELSE AcceptInit /\ tree = 1
    /\ IF focus = "ready" THEN ReadyInit ELSE ReadyInit /\ facts = GoodFacts
    /\ IF focus = "release" THEN ReleaseInit ELSE ReleaseInit /\ release.case = GoodCase("desktop-lite", "beta", TRUE)
    /\ IF focus = "size" THEN SizeInit /\ (dist # GoodBuild => sizeBudgets = GoodBudgets) ELSE SizeInit /\ dist = GoodBuild /\ sizeBudgets = GoodBudgets
    /\ IF focus = "policy" THEN PolicyInit /\ (head # 1 => ~inspect.allowDirty) ELSE PolicyFirst
    /\ IF focus = "packs" THEN PacksStart
       ELSE PacksStart /\ packFiles.manifest["transcode"] # NoPackFile /\ packPlan.expiry = 1

BuildNext ==
    /\ UNCHANGED focus
    /\ \/ focus = "source" /\ SourceMoves /\ UNCHANGED <<workflowVars, publicVars, centreVars, gatesVars, dataVars>>
       \/ focus = "workflow" /\ WorkflowMoves /\ UNCHANGED <<sourceVars, publicVars, centreVars, gatesVars, dataVars>>
       \/ focus = "public" /\ PublicNext /\ UNCHANGED <<sourceVars, workflowVars, centreVars, gatesVars, dataVars>>
       \/ focus = "centre" /\ CentreNext /\ UNCHANGED <<sourceVars, workflowVars, publicVars, gatesVars, dataVars>>
       \/ focus = "downloads" /\ DownloadsNext /\ UNCHANGED <<sourceVars, workflowVars, publicVars, gatesVars, dataVars>>
       \/ /\ \/ focus = "accept" /\ AcceptNext
             \/ focus = "ready" /\ ReadyNext
             \/ focus = "release" /\ ReleaseNext
          /\ UNCHANGED <<sourceVars, workflowVars, publicVars, centreVars, dataVars>>
       \/ focus = "size" /\ SizeNext /\ UNCHANGED <<othersOfSize, packsVars, trustVars, policyVars>>
       \/ focus = "packs" /\ PacksNext /\ UNCHANGED <<othersOfSize, sizeVars, trustVars, policyVars>>
       \/ focus = "trust" /\ TrustNext /\ UNCHANGED <<othersOfSize, sizeVars, packsVars, policyVars>>
       \/ focus = "policy" /\ PolicyMoves /\ UNCHANGED <<othersOfSize, sizeVars, packsVars, trustVars>>

BuildSpec == BuildInit /\ [][BuildNext]_buildVars
SourceSpec == BuildInit /\ focus = "source" /\ [][BuildNext]_buildVars

(* The workflows of the repository are accepted as they are.                *)
BaseAccepted == changes = 0 => accepted # "no"

(* What the size gate passes fits the budgets, what a verified catalogue of *)
(* the media packs lists is what was signed, and an update root or manifest *)
(* that verifies is signed by the keys it names (appupdate.mjs).  What the  *)
(* policy lets through is what its commit publishes, in an order that the   *)
(* repository cannot change while it is read (public-source-policy.mjs).    *)
(* The workflows that make these artefacts are accepted unedited.           *)
ArtifactsBound == BaseAccepted /\ CheckedFits /\ PacksBound /\ UpdateTrustRight /\ InspectionBinds
============================================================================
