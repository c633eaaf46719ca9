----------------------------- MODULE SizeBudget -----------------------------
(***************************************************************************)
(* The size gate of the desktop program.  A capture turns the frontend's   *)
(* dist and its manifest into a report (scripts/frontend-size-report.mjs), *)
(* a measurement adds the native files to it, and the check compares the   *)
(* report with what is on the disk, with the budgets and with the profile  *)
(* it is asked about (size-budget.mjs).  Builds, commits and other runs go *)
(* on in between.  A file is <<bytes, digest>>.                            *)
(***************************************************************************)
EXTENDS Naturals, FiniteSets, Sequences, FiniteSetsExt

CONSTANTS
  SizeBuilds,      \* dists a build may leave: [files, folders, manifest]
  NativeSizes,     \* what a native build may leave: a file or Unmeasured
  SizeBudgets,     \* the budget files a check may meet
  MaxBuilds, MaxMeasured,   \* bounds: builds, and captures, measurements and checks
  Unmeasured       \* null in a report, or no file on the disk

(* A build leaves files, folders and a manifest: `build` of                 *)
(* src/apps/useful/package.json is `vite build --manifest`.                 *)
ASSUME SizeAssumption ==
  \A b \in SizeBuilds : DOMAIN b = {"files", "folders", "manifest"} /\ b.manifest # <<>>

VARIABLES
  dist,            \* the frontend on the disk, with its manifest or without
  nativeFiles,     \* native files by <<artifact, layout>>
  sizeHead,        \* the commit checked out
  sizeReport,      \* the report on the disk, Unmeasured if there is none
  sizeBudgets,     \* the budget file
  sizing,          \* the command that runs
  sizeBuilds, sizeRuns

sizeVars == <<dist, nativeFiles, sizeHead, sizeReport, sizeBudgets, sizing, sizeBuilds, sizeRuns>>

----------------------------------------------------------------------------
FrontendMetrics == {"frontendAppBytes", "officeWorkerBytes", "frontendDistBytes",
                    "initialJsBytes", "agentProfileChunkBytes"}
ReleaseArtifacts == {"usefulExe", "bootstrapExe", "portableLiteZip", "setupLite", "portableFullZip"}
Metrics == FrontendMetrics \union ReleaseArtifacts
CiRequired == FrontendMetrics \union {"usefulExe", "bootstrapExe", "portableLiteZip"}
RequiredBy(profile) ==
  CASE profile = "frontend" -> FrontendMetrics
    [] profile = "ci" -> CiRequired
    [] profile = "release-lite" -> CiRequired \union {"setupLite"}
    [] profile = "release" -> Metrics
Profiles == {"frontend", "ci", "release-lite", "release"}

(* The budgets: a limit for each metric, the dist's being the sum of its    *)
(* two parts, and the profiles exactly as above.                            *)
BudgetsHold(b) ==
  /\ DOMAIN b.limits = Metrics /\ \A m \in Metrics : b.limits[m] > 0
  /\ b.limits["frontendDistBytes"] = b.limits["frontendAppBytes"] + b.limits["officeWorkerBytes"]
  /\ b.profiles = [p \in Profiles |-> RequiredBy(p)]

----------------------------------------------------------------------------
(* The manifest: chunks by key, with their output file and their imports.   *)
(* What the entry loads at once is the least set closed under imports.      *)
BytesOf(files, names) == MapThenSumSet(LAMBDA n : files[n][1], names)
ClosedUnder(manifest, keys) == \A k \in keys : manifest[k].imports \subseteq keys
InitialChunks(manifest) ==
  {k \in DOMAIN manifest : \A keys \in SUBSET DOMAIN manifest :
     "index.html" \in keys /\ ClosedUnder(manifest, keys) => k \in keys}
Workers == {"fileHashWorker.js", "regexWorker.js", "officeWorker.js"}
ManifestOutputs(manifest) == UNION {{manifest[k].file} \union manifest[k].assets : k \in DOMAIN manifest}
JavaScript == {"index.js", "agent.js", "view.js", "vendor.js"} \union Workers

ClosedSet(manifest, d) ==
  /\ DOMAIN d.files = {"index.html"} \union ManifestOutputs(manifest) \union Workers
  /\ \A w \in Workers : d.files[w][1] > 0
  /\ d.folders = {}                              \* no folder without a file
OneEntry(manifest) ==
  /\ {k \in DOMAIN manifest : manifest[k].entry} = {"index.html"}
  /\ \A k \in InitialChunks(manifest) : manifest[k].file \in JavaScript
LazyAgent(manifest) ==
  /\ "AgentProfilePanel.vue" \in DOMAIN manifest /\ manifest["AgentProfilePanel.vue"].dynamic
  /\ manifest["AgentProfilePanel.vue"].file \in JavaScript
  /\ manifest["AgentProfilePanel.vue"].file \notin {manifest[k].file : k \in InitialChunks(manifest)}
WellFormed(manifest) ==
  /\ manifest # <<>>
  /\ \A k, l \in DOMAIN manifest : manifest[k].file = manifest[l].file => k = l
  /\ \A k \in DOMAIN manifest : manifest[k].imports \union manifest[k].dynamicImports \subseteq DOMAIN manifest
Analysable(manifest, d) ==
  WellFormed(manifest) /\ ClosedSet(manifest, d) /\ OneEntry(manifest) /\ LazyAgent(manifest)

FrontendFacts(files, initial, agent) ==
  [m \in FrontendMetrics |->
     CASE m = "frontendDistBytes" -> BytesOf(files, DOMAIN files)
       [] m = "officeWorkerBytes" -> files["officeWorker.js"][1]
       [] m = "frontendAppBytes" -> BytesOf(files, DOMAIN files \ {"officeWorker.js"})
       [] m = "initialJsBytes" -> BytesOf(files, initial)
       [] m = "agentProfileChunkBytes" -> files[agent][1]]
NothingNative == [a \in ReleaseArtifacts |-> Unmeasured]
FrontendReport(manifest, files, commit) ==
  LET initial == {manifest[k].file : k \in InitialChunks(manifest)}
      agent == manifest["AgentProfilePanel.vue"].file
  IN [commit |-> commit, entry |-> manifest["index.html"].file, initial |-> initial, agent |-> agent,
      files |-> files, metrics |-> FrontendFacts(files, initial, agent), artifacts |-> NothingNative]

----------------------------------------------------------------------------
SizeIdle == [pc |-> "idle", profile |-> "frontend", commit |-> 0, manifest |-> Unmeasured, report |-> Unmeasured,
             left |-> {}, seen |-> [a \in ReleaseArtifacts |-> Unmeasured], seenDist |-> Unmeasured, verdict |-> "none"]
SizeInit ==
  /\ dist \in SizeBuilds /\ dist.manifest # <<>>
  /\ nativeFiles = [f \in ReleaseArtifacts \X {"ci", "release"} |-> Unmeasured]
  /\ sizeBudgets \in SizeBudgets
  /\ sizeHead = 1 /\ sizeReport = Unmeasured /\ sizing = SizeIdle /\ sizeBuilds = 0 /\ sizeRuns = 0

Working(pc) == sizing.pc = pc
StartSizing(command) == sizeRuns < MaxMeasured /\ sizeRuns' = sizeRuns + 1 /\ sizing' = command
SizeStep(command) == sizing' = command /\ UNCHANGED sizeRuns
SizeFails == SizeStep(SizeIdle)

(* A capture reads HEAD, takes the manifest out of the dist whatever it     *)
(* then finds in it, reads the files, and writes the report anew.           *)
BeginCapture ==
  /\ Working("idle") /\ StartSizing([SizeIdle EXCEPT !.pc = "manifest", !.commit = sizeHead])
  /\ UNCHANGED <<dist, nativeFiles, sizeHead, sizeReport, sizeBudgets, sizeBuilds>>
ConsumeManifest ==
  /\ Working("manifest")
  /\ IF dist.manifest = <<>> THEN SizeFails /\ UNCHANGED dist
     ELSE /\ SizeStep([sizing EXCEPT !.pc = "analyse", !.manifest = dist.manifest])
          /\ dist' = [dist EXCEPT !.manifest = <<>>]
  /\ UNCHANGED <<nativeFiles, sizeHead, sizeReport, sizeBudgets, sizeBuilds>>
(* Files found beside a manifest that was put back meanwhile do not fit.    *)
AnalyseDist ==
  /\ Working("analyse")
  /\ IF dist.manifest = <<>> /\ Analysable(sizing.manifest, dist)
     THEN SizeStep([sizing EXCEPT !.pc = "write", !.report = FrontendReport(sizing.manifest, dist.files, sizing.commit)])
     ELSE SizeFails
  /\ UNCHANGED <<dist, nativeFiles, sizeHead, sizeReport, sizeBudgets, sizeBuilds>>
WriteFrontendReport ==
  /\ Working("write")
  /\ sizeReport' = sizing.report /\ SizeFails
  /\ UNCHANGED <<dist, nativeFiles, sizeHead, sizeBudgets, sizeBuilds>>

(* The measurement of one layout: what is there is added, the rest is null. *)
MeasureNative(layout) ==
  /\ Working("idle") /\ sizeReport # Unmeasured /\ sizeReport.commit = sizeHead
  /\ LET Kept(a) == IF layout = "ci" /\ a \in {"setupLite", "portableFullZip"} THEN Unmeasured ELSE nativeFiles[<<a, layout>>] IN
       sizeReport' = [sizeReport EXCEPT !.artifacts = [a \in ReleaseArtifacts |->
         IF Kept(a) = Unmeasured THEN Unmeasured ELSE [layout |-> layout, file |-> Kept(a)]]]
  /\ StartSizing(SizeIdle)
  /\ UNCHANGED <<dist, nativeFiles, sizeHead, sizeBudgets, sizeBuilds>>

(* The check: the commit, the three documents, the dist, then each file.    *)
BeginCheck(profile, expected) ==
  /\ Working("idle")
  /\ expected = sizeHead
  /\ StartSizing([SizeIdle EXCEPT !.pc = "documents", !.profile = profile, !.commit = expected])
  /\ UNCHANGED <<dist, nativeFiles, sizeHead, sizeReport, sizeBudgets, sizeBuilds>>
Weight(report, m) ==
  IF m \in FrontendMetrics THEN report.metrics[m]
  ELSE IF report.artifacts[m] = Unmeasured THEN 0 ELSE report.artifacts[m].file[1]
ReportHolds(r) ==
  /\ r.entry \in r.initial /\ r.agent \notin r.initial
  /\ {"index.html", r.agent, "officeWorker.js"} \union r.initial \subseteq DOMAIN r.files
  /\ r.metrics = FrontendFacts(r.files, r.initial, r.agent)
ReadDocuments ==
  /\ Working("documents")
  /\ IF sizeReport # Unmeasured /\ BudgetsHold(sizeBudgets) /\ ReportHolds(sizeReport) /\ sizeReport.commit = sizing.commit
     THEN SizeStep([sizing EXCEPT !.pc = "dist", !.report = sizeReport])
     ELSE SizeFails
  /\ UNCHANGED <<dist, nativeFiles, sizeHead, sizeReport, sizeBudgets, sizeBuilds>>
(* Faulty variant: only the total is compared.                              *)
SameTotal(d, report) == BytesOf(d.files, DOMAIN d.files) = report.metrics["frontendDistBytes"]
SameDist(d, report) == d.files = report.files /\ d.folders = {} /\ d.manifest = <<>>
LayoutOf(profile) == IF profile = "ci" THEN "ci" ELSE "release"
EvidenceFits(profile, report) ==
  \A a \in ReleaseArtifacts :
    IF a \in RequiredBy(profile) THEN report.artifacts[a] # Unmeasured /\ report.artifacts[a].layout = LayoutOf(profile)
    ELSE report.artifacts[a] = Unmeasured
CheckDist ==
  /\ Working("dist")
  /\ IF SameDist(dist, sizing.report) /\ EvidenceFits(sizing.profile, sizing.report)
     THEN SizeStep([sizing EXCEPT !.pc = "files", !.seenDist = dist.files,
            !.left = {a \in ReleaseArtifacts : sizing.report.artifacts[a] # Unmeasured}])
     ELSE SizeFails
  /\ UNCHANGED <<dist, nativeFiles, sizeHead, sizeReport, sizeBudgets, sizeBuilds>>
CheckFile ==
  /\ Working("files") /\ sizing.left # {}
  /\ \E a \in sizing.left :
       LET evidence == sizing.report.artifacts[a] IN
       IF nativeFiles[<<a, evidence.layout>>] = evidence.file
       THEN SizeStep([sizing EXCEPT !.left = @ \ {a}, !.seen[a] = evidence.file])
       ELSE SizeFails
  /\ UNCHANGED <<dist, nativeFiles, sizeHead, sizeReport, sizeBudgets, sizeBuilds>>
SizeVerdict ==
  /\ Working("files") /\ sizing.left = {}
  /\ SizeStep([sizing EXCEPT !.pc = "done", !.verdict =
       IF \A m \in Metrics : Weight(sizing.report, m) <= sizeBudgets.limits[m] THEN "ok" ELSE "exceeded"])
  /\ UNCHANGED <<dist, nativeFiles, sizeHead, sizeReport, sizeBudgets, sizeBuilds>>
EndCheck == Working("done") /\ SizeFails /\ UNCHANGED <<dist, nativeFiles, sizeHead, sizeReport, sizeBudgets, sizeBuilds>>

(* What goes on beside: builds, a commit, and a command that is killed; a   *)
(* killed write leaves a report that cannot be read.                        *)
BuildFrontend ==
  /\ sizeBuilds < MaxBuilds /\ sizeBuilds' = sizeBuilds + 1
  /\ dist' \in SizeBuilds \ {dist}
  /\ UNCHANGED <<nativeFiles, sizeHead, sizeReport, sizeBudgets, sizing, sizeRuns>>
BuildNative ==
  /\ sizeBuilds < MaxBuilds /\ sizeBuilds' = sizeBuilds + 1
  /\ \E layout \in {"ci", "release"}, files \in NativeSizes :
       nativeFiles' = [f \in DOMAIN nativeFiles |-> IF f[2] = layout THEN files[f[1]] ELSE nativeFiles[f]]
  /\ UNCHANGED <<dist, sizeHead, sizeReport, sizeBudgets, sizing, sizeRuns>>
CommitMoves ==
  /\ sizeBuilds < MaxBuilds /\ sizeBuilds' = sizeBuilds + 1
  /\ sizeHead' = sizeHead + 1
  /\ UNCHANGED <<dist, nativeFiles, sizeReport, sizeBudgets, sizing, sizeRuns>>
KillSizing ==
  /\ sizing.pc \notin {"idle", "done"}
  /\ sizeReport' \in IF Working("write") THEN {sizeReport, Unmeasured} ELSE {sizeReport}
  /\ SizeFails
  /\ UNCHANGED <<dist, nativeFiles, sizeHead, sizeBudgets, sizeBuilds>>

SizeNext ==
  \/ BeginCapture \/ ConsumeManifest \/ AnalyseDist \/ WriteFrontendReport
  \/ \E layout \in {"ci", "release"} : MeasureNative(layout)
  \/ \E profile \in Profiles : BeginCheck(profile, sizeHead)
  \/ ReadDocuments \/ CheckDist \/ CheckFile \/ SizeVerdict \/ EndCheck
  \/ BuildFrontend \/ BuildNative \/ CommitMoves \/ KillSizing

SizeSpec == SizeInit /\ [][SizeNext]_sizeVars

----------------------------------------------------------------------------
(* When a check says yes, the frontend it saw is one a build left, and by   *)
(* that build's own manifest it fits: what is loaded at once, the lazy      *)
(* panel, the worker and the rest; so do the native files it saw, which are *)
(* all the profile asks for and nothing else.                               *)
CheckedFits ==
  sizing.verdict = "ok" =>
    /\ \E b \in SizeBuilds :
         /\ b.files = sizing.seenDist /\ b.manifest # <<>> /\ Analysable(b.manifest, b)
         /\ LET initial == {b.manifest[k].file : k \in InitialChunks(b.manifest)}
                agent == b.manifest["AgentProfilePanel.vue"].file
            IN \A m \in FrontendMetrics : FrontendFacts(b.files, initial, agent)[m] <= sizeBudgets.limits[m]
    /\ {a \in ReleaseArtifacts : sizing.seen[a] # Unmeasured} = RequiredBy(sizing.profile) \ FrontendMetrics
    /\ \A a \in ReleaseArtifacts : sizing.seen[a] # Unmeasured => sizing.seen[a][1] <= sizeBudgets.limits[a]
=============================================================================
