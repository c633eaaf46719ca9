--------------------------- MODULE ReleaseGates ---------------------------
(***************************************************************************)
(* The gates a release passes: the acceptance run that can be resumed      *)
(* after a failure (scripts/verify-release.mjs), the local readiness       *)
(* report (release-readiness.mjs with check-version-drift.mjs), and the    *)
(* chain of a published release: its identity (release-metadata.mjs), the  *)
(* publish gate (release-publish-gate.mjs), the media manifest             *)
(* (release-metadata-media.mjs) and the signing status that is aggregated  *)
(* in one job and validated in another (release-signing-status.mjs).       *)
(* Digests and versions are numbers.                                       *)
(***************************************************************************)
EXTENDS Naturals, FiniteSets, Sequences

CONSTANTS
  GateStages,       \* the stages of an acceptance run, in order
  Trees,            \* the source trees a run may meet
  DirtyTrees,       \* those with uncommitted changes
  MaxGateRuns, MaxGateKills,   \* bounds: runs started or resumed, runs killed
  ReadinessFacts,   \* what a readiness report may find in the repository
  MaxHeadMoves,     \* bound: how often HEAD moves during a report
  ReleaseCases,     \* what a release is started with
  NoEvidence

(* The first stage of an acceptance run looks at the working tree, and what *)
(* a report finds is found or not.                                          *)
FoundFacts == {"rootPinned", "present", "clean", "origin", "dependabot", "workflows", "brand", "mapped", "bodiesPinned", "gh"}
ASSUME GateBounds ==
  /\ GateStages \in Seq(STRING) /\ GateStages # <<>> /\ GateStages[1] = "git-state"
  /\ MaxGateRuns \in Nat /\ MaxGateKills \in Nat /\ MaxHeadMoves \in Nat
  /\ NoEvidence \notin Trees
  /\ \A f \in ReadinessFacts : \A name \in FoundFacts : f[name] \in BOOLEAN
ASSUME ReleaseCasesSound ==
  \A c \in ReleaseCases : /\ DOMAIN c.binaries = DOMAIN c.lock.components
                          /\ DOMAIN c.receipts = 1..Len(c.receipts)

VARIABLES
  tree,                       \* the source in the working directory
  gate, runner, gateRuns, gateKills,   \* the newest gate directory, the run
  facts, headAt, headMoves, preflight, \* the repository and a report about it
  release, assets, tampered             \* a release on its way, its downloaded files

acceptVars == <<tree, gate, runner, gateRuns, gateKills>>
readyVars == <<facts, headAt, headMoves, preflight>>
releaseVars == <<release, assets, tampered>>
gatesVars == <<acceptVars, readyVars, releaseVars>>

----------------------------------------------------------------------------
(* The acceptance run.  A gate directory holds result.json, the evidence    *)
(* of each stage, and the digests of that evidence when it was last sealed. *)
NoGate == [source |-> NoEvidence, stages |-> <<>>, status |-> "none", evidence |-> [i \in DOMAIN GateStages |-> 0],
           sealed |-> NoEvidence, skipped |-> FALSE]
IdleRunner == [pc |-> "idle", next |-> 1, source |-> NoEvidence, kept |-> <<>>, ok |-> TRUE]

AcceptInit ==
  /\ tree \in Trees
  /\ gate = NoGate /\ runner = IdleRunner /\ gateRuns = 0 /\ gateKills = 0

PassedStages(results) == {r.index : r \in {results[k] : k \in {j \in DOMAIN results : results[j].ok}}}

StartGate ==
  /\ runner.pc = "idle" /\ gateRuns < MaxGateRuns
  /\ gateRuns' = gateRuns + 1
  /\ gate' = [NoGate EXCEPT !.source = tree, !.status = "running"]
  /\ runner' = [IdleRunner EXCEPT !.pc = "stage", !.source = tree]
  /\ UNCHANGED <<tree, gateKills>>

SealIntact == \A i \in DOMAIN gate.sealed : gate.sealed[i] = gate.evidence[i]
(* Results stand in the order of their stages, so those of the stages       *)
(* before the chosen one come first.                                        *)
KeptResults(results, start) ==
  SubSeq(results, 1, Cardinality({k \in DOMAIN results : results[k].index < start}))

(* Resuming checks the source and the sealed evidence, not that the stages  *)
(* before the chosen one have passed: the run remembers when they had not.  *)
ResumeGate(start) ==
  /\ runner.pc = "idle" /\ gateRuns < MaxGateRuns
  /\ gate.status # "none" /\ gate.source = tree
  /\ gate.sealed # NoEvidence /\ SealIntact
  /\ LET kept == KeptResults(gate.stages, start) IN
       /\ gate' = [gate EXCEPT !.stages = kept, !.status = "running",
                     !.skipped = \E i \in 1..(start - 1) : i \notin PassedStages(gate.stages)]
       /\ runner' = [IdleRunner EXCEPT !.pc = "stage", !.next = start, !.source = tree, !.kept = kept]
  /\ gateRuns' = gateRuns + 1
  /\ UNCHANGED <<tree, gateKills>>

(* A stage runs and leaves its log and its check; the first one looks at    *)
(* the working tree as it was when the run started.                         *)
RunStage ==
  /\ runner.pc = "stage" /\ runner.next \in DOMAIN GateStages
  /\ \E ok \in BOOLEAN :
       /\ GateStages[runner.next] = "git-state" => ok = (runner.source \notin DirtyTrees)
       /\ runner' = [runner EXCEPT !.pc = "ran", !.ok = ok,
            !.kept = Append(@, [index |-> runner.next, ok |-> ok, source |-> runner.source])]
  /\ gate' = [gate EXCEPT !.evidence[runner.next] = @ + 1]
  /\ UNCHANGED <<tree, gateRuns, gateKills>>
RecordStage ==
  /\ runner.pc = "ran"
  /\ gate' = [gate EXCEPT !.stages = runner.kept, !.status = IF runner.ok THEN "running" ELSE "failed"]
  /\ runner' = IF runner.ok THEN [runner EXCEPT !.pc = "stage", !.next = @ + 1] ELSE [runner EXCEPT !.pc = "seal"]
  /\ UNCHANGED <<tree, gateRuns, gateKills>>
PassGate ==
  /\ runner.pc = "stage" /\ runner.next \notin DOMAIN GateStages
  /\ gate' = [gate EXCEPT !.status = "passed"]
  /\ runner' = [runner EXCEPT !.pc = "seal"]
  /\ UNCHANGED <<tree, gateRuns, gateKills>>
SealEvidence ==
  /\ runner.pc = "seal"
  /\ gate' = [gate EXCEPT !.sealed = [i \in PassedStages(runner.kept) |-> gate.evidence[i]]]
  /\ runner' = IdleRunner
  /\ UNCHANGED <<tree, gateRuns, gateKills>>

KillGate ==
  /\ runner.pc # "idle" /\ gateKills < MaxGateKills
  /\ runner' = IdleRunner /\ gateKills' = gateKills + 1
  /\ UNCHANGED <<tree, gate, gateRuns>>
EditTree ==
  /\ tree' \in Trees \ {tree}
  /\ UNCHANGED <<gate, runner, gateRuns, gateKills>>

AcceptNext ==
  /\ \/ StartGate \/ RunStage \/ RecordStage \/ PassGate \/ SealEvidence \/ KillGate \/ EditTree
     \/ \E start \in DOMAIN GateStages : ResumeGate(start)
  /\ UNCHANGED <<readyVars, releaseVars>>

----------------------------------------------------------------------------
(* The readiness report.  A commit is a number; facts say what is found.    *)
ReleaseFields == {"releaseTag", "portableLiteAsset", "setupLiteAsset", "checksumAsset"}
IdentifierSound(f) == f.identifier = "io.github.redeati.useful" /\ f.overrides = {}
ReadmesSound(f) == \A file \in DOMAIN f.readmes :
  f.readmes[file].fields = ReleaseFields /\ f.readmes[file].versions \subseteq {f.version}
DocumentsSound(f) == \A file \in DOMAIN f.documents :
  f.documents[file].there /\ f.documents[file].required \subseteq f.documents[file].fields
NoVersionDrift(f) ==
  f.observed \subseteq {f.version} /\ IdentifierSound(f) /\ ReadmesSound(f) /\ DocumentsSound(f)

(* A path has the licence of its exact entry, else of the first prefix.     *)
ApprovedLicense(f, path) ==
  LET prefixes == {i \in DOMAIN f.prefixes : f.prefixes[i] = path[1]} IN
  IF path \in f.exact THEN "exact" ELSE IF prefixes # {} THEN "prefix" ELSE "none"
MappingComplete(f) == \A path \in f.tracked : ApprovedLicense(f, path) # "none"
PackagesLicensed(f) == f.packages = f.expectedPackages /\ f.mapped /\ f.bodiesPinned

HardGates == {"root-license", "required-public-files-worktree", "required-public-files-head",
  "worktree-clean-for-public-prepare", "canonical-git-remote", "public-source-preparation-policy",
  "dependabot-inactive", "workflows-manual-only", "legacy-brand-zero", "version-drift",
  "component-license-map-owner-approval", "package-license-metadata"}

ReadyInit ==
  /\ facts \in ReadinessFacts /\ headAt = 1 /\ headMoves = 0
  /\ preflight = [pc |-> "worktree", gates |-> <<>>, head |-> 0, listed |-> 0, report |-> "none"]

(* Gates are pushed as <<id, passed>>; a git command may fail.              *)
Push(results, pc) == preflight' = [preflight EXCEPT !.gates = @ \o results, !.pc = pc]
Result(id, ok) == <<id, ok>>
CheckWorktree ==
  /\ preflight.pc = "worktree"
  /\ Push(<<Result("root-license", facts.rootPinned), Result("required-public-files-worktree", facts.present)>>, "head")
  /\ UNCHANGED <<facts, headAt, headMoves>>
ReadHead ==
  /\ preflight.pc = "head"
  /\ preflight' = [preflight EXCEPT !.head = headAt, !.pc = "list"]
  /\ UNCHANGED <<facts, headAt, headMoves>>
(* The status is read, then the tree of whatever HEAD is by now.            *)
ListHead ==
  /\ preflight.pc = "list"
  /\ preflight' = [preflight EXCEPT !.listed = headAt, !.pc = "policy",
       !.gates = @ \o <<Result("required-public-files-head", headAt \in facts.complete),
                        Result("worktree-clean-for-public-prepare", facts.clean),
                        Result("canonical-git-remote", facts.origin)>>]
  /\ UNCHANGED <<facts, headAt, headMoves>>
GitFails ==
  /\ preflight.pc \in {"head", "list"}
  /\ Push(<<Result("git-inspection", FALSE)>>, IF preflight.pc = "head" THEN "rest" ELSE "policy")
  /\ UNCHANGED <<facts, headAt, headMoves>>
(* Faulty variant: the policy is asked about whatever HEAD is.              *)
PolicyOfHead == headAt \in facts.sound
PolicyHolds == headAt = preflight.head /\ headAt \in facts.sound
InspectPolicy ==
  /\ preflight.pc = "policy"
  /\ Push(<<Result("public-source-preparation-policy", PolicyHolds)>>, "rest")
  /\ UNCHANGED <<facts, headAt, headMoves>>
CheckRest ==
  /\ preflight.pc = "rest"
  /\ \/ Push(<<Result("dependabot-inactive", facts.dependabot), Result("workflows-manual-only", facts.workflows),
               Result("legacy-brand-zero", facts.brand), Result("version-drift", NoVersionDrift(facts)),
               Result("component-license-map-owner-approval", MappingComplete(facts)),
               Result("package-license-metadata", PackagesLicensed(facts)), Result("gh-cli", facts.gh)>>, "report")
     \/ preflight' = [preflight EXCEPT !.pc = "done", !.report = "error"]
  /\ UNCHANGED <<facts, headAt, headMoves>>
Report ==
  /\ preflight.pc = "report"
  /\ preflight' = [preflight EXCEPT !.pc = "done",
       !.report = IF \A i \in DOMAIN preflight.gates : preflight.gates[i][1] = "gh-cli" \/ preflight.gates[i][2]
                  THEN "pass" ELSE "blocked"]
  /\ UNCHANGED <<facts, headAt, headMoves>>
MoveHead ==
  /\ headMoves < MaxHeadMoves /\ preflight.pc # "done"
  /\ headAt' \in {1, 2} \ {headAt} /\ headMoves' = headMoves + 1
  /\ UNCHANGED <<facts, preflight>>
ReadyNext ==
  /\ CheckWorktree \/ ReadHead \/ ListHead \/ GitFails \/ InspectPolicy \/ CheckRest \/ Report \/ MoveHead
  /\ UNCHANGED <<acceptVars, releaseVars>>

----------------------------------------------------------------------------
(* A release.  Its case says what was asked, what the repository variables  *)
(* and evidence files hold, and what the build jobs uploaded.               *)
Lite == <<"windows/x64">>
Full == <<"windows/x64", "macos/x64", "macos/arm64", "linux/x64">>
PlatformsOf(scope) == IF scope = "desktop-lite" THEN Lite ELSE Full
SignedPlatforms == {"windows/x64", "macos/x64", "macos/arm64"}
Kit == {"agent-kit.zip", "agent-kit.zip.sha256"}
FilesOf(platform, scope) ==
  CASE platform = "windows/x64" ->
         {"setup-lite.exe", "portable-lite.zip"} \union
         (IF scope = "desktop-full" THEN {"portable-full.zip", "MEDIA-RUNTIMES.json"} ELSE {})
    [] platform = "macos/x64" -> {"macos-x64.dmg"}
    [] platform = "macos/arm64" -> {"macos-arm64.dmg"}
    [] platform = "linux/x64" -> {"linux-x64.AppImage", "linux-x64.deb"}
ExpectedAssets(scope) == Kit \union UNION {FilesOf(PlatformsOf(scope)[i], scope) : i \in DOMAIN PlatformsOf(scope)}
AssetNames == ExpectedAssets("desktop-full")

IdentityHolds(c) ==
  /\ c.channel \in {"stable", "beta", "nightly"} /\ c.versionChannel = c.channel
  /\ c.tag = c.version
  /\ c.channel = "stable" => c.ready

(* The publish gate: who, where, which update trust; media and stable       *)
(* evidence only for what is published.                                     *)
TrustHolds(c) == c.repository = "expected" /\ c.visibility = "public" /\ c.actor \in c.actors
                 /\ c.root = "production" /\ c.feed = "https template" /\ c.ceremony
Committed(file) == file.there /\ file.committed = file.digest /\ file.digest # 0
EvidenceBinds(c, i) ==
  LET component == c.evidence.components[i] IN
  /\ component.name = c.lock.components[i].name /\ component.archive = c.lock.components[i].archive
  /\ component.files # {}
  /\ \A file \in component.files : Committed(file) /\ file.digest = file.claimed
MediaCompliant(c) ==
  /\ c.evidence # NoEvidence
  /\ c.evidence.digest = c.evidence.pinned /\ c.evidence.lock = c.lock.digest
  /\ Len(c.evidence.components) = Len(c.lock.components)
  /\ \A i \in DOMAIN c.lock.components : EvidenceBinds(c, i)
  /\ \A i, j \in DOMAIN c.evidence.components : \A a \in c.evidence.components[i].files, b \in c.evidence.components[j].files :
       a.name = b.name => a.digest = b.digest
StableProved(c) == c.stableEvidence = [tag |-> c.tag, root |-> c.root, proved |-> TRUE]
GateHolds(c) ==
  /\ TrustHolds(c)
  /\ c.scope = "desktop-full" /\ c.publish => MediaCompliant(c)
  /\ c.channel = "stable" /\ c.publish => StableProved(c)

(* The media manifest: every binary as its checksum and its lock say.       *)
MediaManifest(c) ==
  IF \A i \in DOMAIN c.lock.components :
       /\ c.binaries[i] # 0 /\ c.checksums[i] = c.binaries[i]
       /\ c.lock.components[i].extracted \in {0, c.binaries[i]}
  THEN [i \in DOMAIN c.lock.components |->
         [name |-> c.lock.components[i].name, archive |-> c.lock.components[i].archive, extracted |-> c.binaries[i]]]
  ELSE NoEvidence
ManifestHolds(c, manifest) ==
  /\ manifest # NoEvidence /\ Len(manifest) = Len(c.lock.components)
  /\ \A i \in DOMAIN manifest :
       /\ manifest[i].name = c.lock.components[i].name /\ manifest[i].archive = c.lock.components[i].archive
       /\ manifest[i].extracted # 0 /\ c.lock.components[i].extracted \in {0, manifest[i].extracted}

(* Signing receipts, one for each platform, say what was verified.          *)
Receipt(platform, status) == [platform |-> platform, status |-> status,
  proof |-> CASE status = "verified" -> IF platform = "windows/x64" THEN "authenticode" ELSE "notarization"
              [] status = "unsigned" -> "not-performed" [] OTHER -> status, version |-> 1]
ReceiptHolds(c, r) ==
  /\ r.version = c.version
  /\ r.status \in (IF r.platform \in SignedPlatforms THEN {"verified", "unsigned"} ELSE {"not-applicable"})
  /\ r.proof = Receipt(r.platform, r.status).proof
ReceiptsHold(c) ==
  /\ Len(c.receipts) = Len(PlatformsOf(c.scope))
  /\ {c.receipts[i].platform : i \in DOMAIN c.receipts} = {PlatformsOf(c.scope)[i] : i \in DOMAIN PlatformsOf(c.scope)}
  /\ \A i \in DOMAIN c.receipts : ReceiptHolds(c, c.receipts[i])

(* The files found under the root: each expected one once, not empty, and   *)
(* the kit as its own receipt says.                                         *)
FilesFound(c, files) ==
  /\ {name \in DOMAIN files : files[name] # 0} = ExpectedAssets(c.scope)
  /\ files["agent-kit.zip.sha256"] = files["agent-kit.zip"]
Listed(names, files) == [name \in names |-> files[name]]
AllVerified(platforms) == \A i \in DOMAIN platforms :
  platforms[i].receipt.platform \in SignedPlatforms => platforms[i].receipt.status = "verified"
StatusOf(c, files) ==
  LET ReceiptOf(p) == c.receipts[CHOOSE i \in DOMAIN c.receipts : c.receipts[i].platform = p]
      platforms == [i \in DOMAIN PlatformsOf(c.scope) |->
        [receipt |-> ReceiptOf(PlatformsOf(c.scope)[i]),
         files |-> Listed(FilesOf(PlatformsOf(c.scope)[i], c.scope), files)]]
  IN [version |-> c.version, scope |-> c.scope, platforms |-> platforms, kit |-> Listed(Kit, files),
      files |-> Listed(ExpectedAssets(c.scope), files), signed |-> AllVerified(platforms)]
StatusHolds(c, status, files) ==
  /\ status.version = c.version /\ status.scope = c.scope
  /\ Len(status.platforms) = Len(PlatformsOf(c.scope))
  /\ \A i \in DOMAIN status.platforms :
       /\ status.platforms[i].receipt.platform = PlatformsOf(c.scope)[i]
       /\ ReceiptHolds(c, status.platforms[i].receipt)
       /\ status.platforms[i].files = Listed(FilesOf(PlatformsOf(c.scope)[i], c.scope), files)
  /\ status.files = Listed(ExpectedAssets(c.scope), files) /\ status.kit = Listed(Kit, files)
  /\ status.signed = AllVerified(status.platforms)
MetadataOf(c, status) ==
  IF c.channel = "stable" /\ ~status.signed THEN NoEvidence
  ELSE [preview |-> ~status.signed /\ c.channel # "stable", prerelease |-> c.channel # "stable", latest |-> c.channel = "stable"]

ReleaseInit ==
  /\ \E c \in ReleaseCases :
       /\ release = [pc |-> "identity", case |-> c, status |-> NoEvidence, metadata |-> NoEvidence, manifest |-> NoEvidence]
       /\ assets = c.uploads
  /\ tampered = FALSE

ReleaseGoes(holds, pc) == release' = [release EXCEPT !.pc = IF holds THEN pc ELSE "refused"]
CheckIdentity ==
  /\ release.pc = "identity" /\ ReleaseGoes(IdentityHolds(release.case), "gate")
  /\ UNCHANGED <<assets, tampered>>
CheckGate ==
  /\ release.pc = "gate" /\ ReleaseGoes(GateHolds(release.case), "build")
  /\ UNCHANGED <<assets, tampered>>
BuildManifest ==
  /\ release.pc = "build"
  /\ LET manifest == IF release.case.scope = "desktop-full" THEN MediaManifest(release.case) ELSE NoEvidence IN
       release' = [release EXCEPT !.manifest = manifest,
         !.pc = IF release.case.scope = "desktop-lite" \/ ManifestHolds(release.case, manifest) THEN "assemble" ELSE "refused"]
  /\ UNCHANGED <<assets, tampered>>
Assemble ==
  /\ release.pc = "assemble"
  /\ LET c == release.case IN
     IF ReceiptsHold(c) /\ FilesFound(c, assets)
     THEN LET status == StatusOf(c, assets) IN
          release' = [release EXCEPT !.status = status, !.metadata = MetadataOf(c, status),
            !.pc = IF MetadataOf(c, status) = NoEvidence THEN "refused" ELSE IF c.publish THEN "publish" ELSE "assembled"]
     ELSE ReleaseGoes(FALSE, "publish")
  /\ UNCHANGED <<assets, tampered>>
(* Between the two jobs a file may change, or go, or the status itself: one *)
(* platform says it is verified, with or without the proof, or the summary  *)
(* says the opposite.                                                       *)
ForgedStatuses(status) ==
  {[status EXCEPT !.signed = ~@]} \union
  UNION {{[status EXCEPT !.platforms[i].receipt.status = "verified"],
          [status EXCEPT !.platforms[i].receipt = Receipt(@.platform, "verified")]} : i \in DOMAIN status.platforms}
Meddle ==
  /\ release.pc = "publish" /\ ~tampered
  /\ \/ \E name \in ExpectedAssets(release.case.scope), digest \in {0, 9} :
          assets' = [assets EXCEPT ![name] = digest] /\ UNCHANGED release
     \/ /\ \E status \in ForgedStatuses(release.status) : release' = [release EXCEPT !.status = status]
        /\ UNCHANGED assets
  /\ tampered' = TRUE
PublishRelease ==
  /\ release.pc = "publish"
  /\ ReleaseGoes(FilesFound(release.case, assets) /\ StatusHolds(release.case, release.status, assets), "published")
  /\ UNCHANGED <<assets, tampered>>
ReleaseNext ==
  /\ CheckIdentity \/ CheckGate \/ BuildManifest \/ Assemble \/ Meddle \/ PublishRelease
  /\ UNCHANGED <<acceptVars, readyVars>>

GatesNext == AcceptNext \/ ReadyNext \/ ReleaseNext
GatesSafetySpec == AcceptInit /\ ReadyInit /\ ReleaseInit /\ [][GatesNext]_gatesVars

----------------------------------------------------------------------------
(* A run that passed ran every stage once, in order, all on the source it   *)
(* names, unless a resume began beyond a stage that had not passed.         *)
GatePassedWhole ==
  gate.status = "passed" /\ ~gate.skipped =>
    gate.stages = [i \in DOMAIN GateStages |-> [index |-> i, ok |-> TRUE, source |-> gate.source]]
    /\ gate.source \notin DirtyTrees

(* A report that passes evaluated every hard gate, about one commit (a HEAD *)
(* that moves away and back goes unnoticed).                                *)
ReportWhole ==
  preflight.report = "pass" =>
    /\ HardGates \subseteq {preflight.gates[i][1] : i \in DOMAIN preflight.gates}
    /\ preflight.listed = preflight.head \/ headMoves > 1

(* What is published: its files are the ones its status lists, a stable one *)
(* has every signature, and an unsigned one says so; media only goes out    *)
(* with its sources, and no release carries the development update root.    *)
PublishedWhole ==
  release.pc = "published" =>
    LET c == release.case IN
    /\ c.root = "production" /\ c.tag = c.version /\ c.versionChannel = c.channel
    /\ release.status.files = Listed(ExpectedAssets(c.scope), assets)
    /\ release.metadata.latest => StableProved(c) /\ \A i \in DOMAIN c.receipts : c.receipts[i].status # "unsigned"
    /\ (\E i \in DOMAIN c.receipts : c.receipts[i].status = "unsigned") => release.metadata.preview
    /\ "portable-full.zip" \in DOMAIN release.status.files =>
         \A i \in DOMAIN c.binaries :
           /\ c.lock.components[i].extracted \in {0, c.binaries[i]}
           /\ \E file \in c.evidence.components[i].files : file.digest = file.committed /\ file.digest # 0

(* The gates of a release (verify-release.mjs, release-readiness.mjs,       *)
(* release-signing-status.mjs and the gates before it), taken together.     *)
ReleaseGatesSafe == GatePassedWhole /\ ReportWhole /\ PublishedWhole
============================================================================
