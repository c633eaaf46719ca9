-------------------------- MODULE WorkflowPolicy --------------------------
(***************************************************************************)
(* scripts/check-workflows.mjs: the static policy every GitHub workflow of *)
(* the repository must meet.  A workflow is edited, the checker accepts or *)
(* refuses it, and what an accepted one does when it runs is what the      *)
(* properties are about.  A step is its role, the phrases of its text the  *)
(* checker looks for, whether its text is the exact command, its condition *)
(* and whether its failure stops the job; names, versions and hashes are   *)
(* exact or not.                                                           *)
(***************************************************************************)
EXTENDS Integers, Sequences, FiniteSets, FiniteSetsExt

CONSTANTS BaseWorkflows,  \* the workflows of the repository
          MaxChanges      \* edits made to one of them

VARIABLES workflow, changes, accepted
workflowVars == <<workflow, changes, accepted>>

Jobs == DOMAIN workflow.jobs
StepsOf(j) == IF j \in Jobs THEN workflow.jobs[j].steps ELSE <<>>
Places == UNION {{j} \X DOMAIN StepsOf(j) : j \in Jobs}
StepAt(place) == StepsOf(place[1])[place[2]]

(* A workflow has finitely many jobs, and a job is a list of steps.         *)
IsList(s) == Len(s) \in Nat /\ s = [i \in 1..Len(s) |-> s[i]]
HasJobs(w) ==
    /\ "jobs" \in DOMAIN w /\ IsFiniteSet(DOMAIN w.jobs)
    /\ \A j \in DOMAIN w.jobs : "steps" \in DOMAIN w.jobs[j] /\ IsList(w.jobs[j].steps)
ASSUME BaseWorkflowsAssumption == \A w \in BaseWorkflows : HasJobs(w)

----------------------------------------------------------------------------
(* Predicates on steps.                                                     *)
Runnable(s, condition) == s.hard /\ s.on = condition
RunsExact(s, role) == s.is = role /\ Runnable(s, "") /\ s.exact

First(indexes) == IF indexes = {} THEN 0 ELSE Min(indexes)
At(steps, roles) == First({i \in DOMAIN steps : steps[i].is \in roles})
AtExact(steps, role) == First({i \in DOMAIN steps : RunsExact(steps[i], role)})
AtRunnable(steps, role) ==
    First({i \in DOMAIN steps : steps[i].is = role /\ Runnable(steps[i], "")})
(* A set-up action of the version the repository uses, on any condition.    *)
AtVersion(steps, role) == First({i \in DOMAIN steps : steps[i].is = role /\ steps[i].exact})
Before(i, k) == i # 0 /\ k # 0 /\ i < k

Phrases(steps) == UNION {steps[i].phrases : i \in DOMAIN steps}
Uploads == {"upload", "upload sbom"}

(* hasFrozenPnpmBootstrap                                                   *)
FrozenBootstrap(steps) ==
    /\ Before(AtVersion(steps, "pnpm"), AtVersion(steps, "node"))
    /\ Before(AtVersion(steps, "node"), AtExact(steps, "install"))
    /\ Before(AtExact(steps, "install"), AtExact(steps, "sdk build"))

(* inspectSteps                                                             *)
Pinned(steps) == \A i \in DOMAIN steps : steps[i].pinned

(* inspectFirstPublicActivation and the permissions of workflow and jobs.   *)
ManualOnly == workflow.triggers = {"workflow_dispatch"}
Common ==
    /\ ManualOnly
    /\ workflow.permissions \notin {"missing", "write-all"}
    /\ \A j \in Jobs : workflow.jobs[j].permissions # "write-all" /\ Pinned(StepsOf(j))

(* inspectUploadPathClosure: the uploads are the expected ones, once each.  *)
UploadsClosed(expected) ==
    LET ups == {p \in Places : StepAt(p).is \in Uploads} IN
    /\ Cardinality(ups) = Cardinality(expected)
    /\ \A e \in expected :
           Cardinality({p \in ups : p[1] = e[1] /\ StepAt(p).is = e[2] /\ StepAt(p).exact}) = 1

(* inspectPreviewWorkflow: one build trusts development keys, and only it.  *)
Trusting == {p \in Places : StepAt(p).trusts}
Builds(role) == {p \in Places : StepAt(p).is = role}
PreviewAccepted ==
    /\ Cardinality(Builds("preview build")) = 1
    /\ Trusting = Builds("preview build") /\ ~workflow.trusts

----------------------------------------------------------------------------
(* inspectCodeqlWorkflow, inspectDependencyReviewWorkflow                   *)
CodeqlAccepted == \E i \in DOMAIN StepsOf("analyze") :
                      StepsOf("analyze")[i].is = "codeql init" /\ StepsOf("analyze")[i].exact
ReviewAccepted ==
    LET steps == StepsOf("dependency-review")
        guard == First({i \in DOMAIN steps : steps[i].is = "guard" /\ steps[i].exact}) IN
    Before(guard, At(steps, {"review"}))

(* Package, then its size budget, then the first upload that is sure to run.*)
(* Faulty variant: the budget may come after the upload.                    *)
GateAnywhere(steps, package, condition) ==
    /\ package # 0 /\ AtRunnable(steps, "upload") # 0
    /\ \E i \in DOMAIN steps : steps[i].is = "size" /\ Runnable(steps[i], condition) /\ steps[i].exact
SizeGate(steps, package, condition) ==
    LET sizes == {i \in DOMAIN steps : steps[i].is = "size"}
        upload == First({i \in DOMAIN steps : steps[i].is \in Uploads /\ Runnable(steps[i], "")}) IN
    /\ Cardinality(sizes) = 1
    /\ Before(package, First(sizes)) /\ Before(First(sizes), upload)
    /\ Runnable(steps[First(sizes)], condition) /\ steps[First(sizes)].exact

(* inspectCiWorkflow                                                        *)
LintAccepted(steps) ==
    LET clippy == AtExact(steps, "clippy") IN
    /\ Before(AtVersion(steps, "pnpm"), AtVersion(steps, "node"))
    /\ Before(AtVersion(steps, "node"), AtExact(steps, "install"))
    /\ Before(AtExact(steps, "install"), AtExact(steps, "workspace build"))
    /\ Before(AtExact(steps, "workspace build"), clippy)
    /\ Before(clippy, AtExact(steps, "test"))
    /\ "linux packages" \in Phrases(steps)

CiCommands == {"brand", "policy", "readiness", "workspace test"}
FuzzTargets == {"lowercase id", "sigstore bundle", "tuf verify", "metadata name"}
CiAccepted ==
    LET build == StepsOf("build-and-test")
        packages == {i \in DOMAIN build : RunsExact(build[i], "package")} IN
    /\ \A command \in CiCommands : AtExact(build, command) # 0
    /\ "full edition" \notin UNION {Phrases(StepsOf(j)) : j \in Jobs}
    /\ FrozenBootstrap(StepsOf("compose-e2e")) /\ AtExact(StepsOf("compose-e2e"), "policy") # 0
    /\ FrozenBootstrap(StepsOf("platform-limited-matrix"))
    /\ AtExact(StepsOf("platform-limited-matrix"), "scenario") # 0
    /\ LintAccepted(StepsOf("linux-rust-lint"))
    /\ \A target \in FuzzTargets : \E k \in DOMAIN StepsOf("fuzz-smoke") :
           RunsExact(StepsOf("fuzz-smoke")[k], "fuzz") /\ target \in StepsOf("fuzz-smoke")[k].phrases
    /\ UploadsClosed({<<"build-and-test", "upload">>, <<"build-and-test", "upload sbom">>})
    /\ Cardinality(packages) = 1 /\ SizeGate(build, First(packages), "")

(* inspectPlatformBundlesWorkflow                                           *)
OneCleanCheckout(steps) ==
    LET checkouts == {i \in DOMAIN steps : steps[i].is = "checkout"} IN
    Cardinality(checkouts) = 1 /\ steps[First(checkouts)].exact
BundlesAccepted ==
    LET kit == StepsOf("agent-kit-acceptance")  bundle == StepsOf("bundle") IN
    /\ workflow.inputs = "pinned"
    /\ OneCleanCheckout(kit) /\ OneCleanCheckout(bundle)
    /\ AtVersion(kit, "pnpm") # 0 /\ AtVersion(kit, "node") # 0 /\ AtExact(kit, "install") # 0
    /\ AtRunnable(kit, "accept kit") # 0 /\ At(kit, {"upload"}) # 0
    /\ AtRunnable(bundle, "icons") # 0
    /\ Before(AtExact(bundle, "frontend"), AtExact(bundle, "native check"))
    /\ AtExact(bundle, "preview build") # 0

----------------------------------------------------------------------------
(* inspectReleaseWorkflow                                                   *)
RequiredJobs == {"identity", "verify", "verify-compose", "source-agent-kit",
                 "publish-source-agent-kit", "sbom", "agent-kit", "build", "assemble", "publish"}
PublishJobs == {"publish", "publish-source-agent-kit"}
Gates == {"identity", "verify", "verify-compose"}
DesktopJobs == {"verify", "verify-compose", "sbom", "agent-kit", "build", "assemble", "publish"}
Job(j) == workflow.jobs[j]

NeedsGates ==
    /\ \A j \in {"build", "sbom", "agent-kit"} : Gates \subseteq Job(j).needs
    /\ "agent-kit" \in Job("assemble").needs
    /\ "identity" \in Job("source-agent-kit").needs
    /\ {"identity", "source-agent-kit"} \subseteq Job("publish-source-agent-kit").needs

ScopesGate ==
    /\ \A j \in DesktopJobs : "desktop" \in Job(j).when
    /\ \A j \in {"source-agent-kit", "publish-source-agent-kit"} : "source" \in Job(j).when
    /\ \A j \in PublishJobs : /\ "publish" \in Job(j).when /\ Job(j).permissions = "write"
                              /\ Job(j).environment = "release"
    /\ \A j \in Jobs \ PublishJobs : Job(j).permissions # "write"

CleanJobs ==
    \A j \in Jobs : /\ OneCleanCheckout(StepsOf(j)) /\ "clean" \in Phrases(StepsOf(j))
                    /\ "inline context" \notin Phrases(StepsOf(j))

(* The phrases a job's commands must hold.                                  *)
Contract ==
    [identity |-> {"manual tag", "platform checks", "owner gate", "publish gate"},
     publish |-> {"platform checks", "revalidate", "remote tag"},
     assemble |-> {"evidence", "noclobber"},
     build |-> {"no development trust", "linux packages"},
     verify |-> {"linux packages", "server build"}]
ContractsHeld ==
    /\ \A j \in DOMAIN Contract : Contract[j] \subseteq Phrases(StepsOf(j))
    /\ {"kit contract"} \subseteq Phrases(StepsOf("agent-kit"))
    /\ {"kit contract", "source evidence"} \subseteq Phrases(StepsOf("source-agent-kit"))
    /\ {"source evidence", "revalidate"} \subseteq Phrases(StepsOf("publish-source-agent-kit"))
    /\ "desktop gate" \notin Phrases(StepsOf("source-agent-kit"))

VerifyCommands == CiCommands \union {"source check", "test", "race test"}
VerifyAccepted ==
    /\ \A command \in VerifyCommands : AtExact(StepsOf("verify"), command) # 0
    /\ FrozenBootstrap(StepsOf("verify-compose"))

(* The asset is created in one step, after the remote tag is looked at.     *)
TagBeforeCreate(steps) ==
    LET create == At(steps, {"create"}) IN
    create # 0 /\ {"tag first", "exact tag"} \subseteq steps[create].phrases
SourceCheckFirst(steps) == Before(At(steps, {"source check"}), At(steps, {"download"}))
SourcePublishAccepted(steps) ==
    /\ Before(AtRunnable(steps, "checkout"),
              First({i \in DOMAIN steps : steps[i].is = "pnpm" /\ Runnable(steps[i], "") /\ steps[i].exact}))
    /\ Before(First({i \in DOMAIN steps : steps[i].is = "pnpm" /\ Runnable(steps[i], "") /\ steps[i].exact}),
              First({i \in DOMAIN steps : steps[i].is = "node" /\ Runnable(steps[i], "") /\ steps[i].exact}))
    /\ Before(First({i \in DOMAIN steps : steps[i].is = "node" /\ Runnable(steps[i], "") /\ steps[i].exact}),
              AtExact(steps, "install"))
    /\ Before(AtExact(steps, "install"), At(steps, {"source check"}))
    /\ SourceCheckFirst(steps) /\ TagBeforeCreate(steps)

(* The closed set of names is compared before the sums are.                 *)
ChecksumAccepted(steps) ==
    LET sums == At(steps, {"checksums"}) IN
    sums # 0 /\ {"closed set", "set first"} \subseteq steps[sums].phrases

(* Signing material is imported, used by one step and removed at the end.   *)
SigningAccepted(steps) ==
    /\ \A role \in {"windows cert", "macos cert"} : At(steps, {role}) # 0 /\ steps[At(steps, {role})].exact
    /\ At(steps, {"windows cleanup"}) # 0 /\ steps[At(steps, {"windows cleanup"})].on = "always"
    /\ At(steps, {"macos cleanup"}) # 0 /\ steps[At(steps, {"macos cleanup"})].on = "always"

BuildAccepted(steps) ==
    LET package == First({i \in DOMAIN steps : steps[i].is = "package" /\ Runnable(steps[i], "windows")})
        fetch == At(steps, {"fetch media"}) IN
    /\ AtRunnable(steps, "icons") # 0 /\ Before(At(steps, {"icons"}), At(steps, {"compile"}))
    /\ Cardinality({i \in DOMAIN steps : steps[i].is = "bundle"}) = 2
    /\ fetch # 0 /\ steps[fetch].hard /\ steps[fetch].on = "full"
    /\ \A i \in DOMAIN steps : steps[i].is = "bundle" => i < fetch
    /\ SizeGate(steps, package, "windows")
    /\ SigningAccepted(steps)

ReleaseUploads == {<<"source-agent-kit", "upload">>, <<"sbom", "upload sbom">>,
                   <<"agent-kit", "upload">>, <<"build", "upload">>, <<"assemble", "upload">>}
ReleaseAccepted ==
    /\ workflow.inputs = "closed" /\ ~workflow.trusts /\ Trusting = {}
    /\ RequiredJobs \subseteq Jobs
    /\ NeedsGates /\ ScopesGate /\ CleanJobs /\ ContractsHeld /\ VerifyAccepted
    /\ SourcePublishAccepted(StepsOf("publish-source-agent-kit"))
    /\ TagBeforeCreate(StepsOf("publish")) /\ ChecksumAccepted(StepsOf("publish"))
    /\ SourceCheckFirst(StepsOf("assemble")) /\ SourceCheckFirst(StepsOf("publish"))
    /\ BuildAccepted(StepsOf("build"))
    /\ UploadsClosed(ReleaseUploads)

Accepted ==
    /\ Common
    /\ workflow.file \in {"ci", "platform-bundles"} => PreviewAccepted
    /\ workflow.file = "ci" => CiAccepted
    /\ workflow.file = "codeql" => CodeqlAccepted
    /\ workflow.file = "dependency-review" => ReviewAccepted
    /\ workflow.file = "platform-bundles" => BundlesAccepted
    /\ workflow.file = "release" => ReleaseAccepted

----------------------------------------------------------------------------
WorkflowInit == workflow \in BaseWorkflows /\ changes = 0 /\ accepted = "unchecked"

(* Somebody edits a step or a job.                                          *)
Becomes(j, steps) == workflow' = [workflow EXCEPT !.jobs[j].steps = steps]
EditStep(j, i) ==
    LET steps == StepsOf(j) IN
    \/ Becomes(j, [k \in 1..Len(steps) - 1 |-> IF k < i THEN steps[k] ELSE steps[k + 1]])
    \/ i < Len(steps) /\ Becomes(j, [steps EXCEPT ![i] = steps[i + 1], ![i + 1] = steps[i]])
    \/ Becomes(j, [steps EXCEPT ![i].hard = FALSE])
    \/ \E c \in {"never", "always", "windows"} : Becomes(j, [steps EXCEPT ![i].on = c])
    \/ Becomes(j, [steps EXCEPT ![i].exact = FALSE])
    \/ Becomes(j, [steps EXCEPT ![i].pinned = FALSE])
    \/ Becomes(j, [steps EXCEPT ![i].trusts = ~@])
    \/ \E p \in steps[i].phrases : Becomes(j, [steps EXCEPT ![i].phrases = @ \ {p}])
EditJob(j) ==
    \/ \E n \in Job(j).needs : workflow' = [workflow EXCEPT !.jobs[j].needs = @ \ {n}]
    \/ \E w \in Job(j).when : workflow' = [workflow EXCEPT !.jobs[j].when = @ \ {w}]
    \/ \E p \in {"read", "write", "write-all"} : workflow' = [workflow EXCEPT !.jobs[j].permissions = p]
EditWorkflow ==
    \/ workflow' = [workflow EXCEPT !.triggers = @ \union {"push"}]
    \/ workflow' = [workflow EXCEPT !.inputs = "open"]
    \/ workflow' = [workflow EXCEPT !.trusts = TRUE]
EditAmong(names) ==
    /\ accepted = "unchecked" /\ changes < MaxChanges
    /\ changes' = changes + 1
    /\ EditWorkflow \/ \E j \in names : EditJob(j) \/ \E i \in DOMAIN StepsOf(j) : EditStep(j, i)
    /\ UNCHANGED accepted
Edit == EditAmong(Jobs)

CheckWorkflow ==
    /\ accepted = "unchecked"
    /\ accepted' = IF Accepted THEN "yes" ELSE "no"
    /\ UNCHANGED <<workflow, changes>>

WorkflowNext == Edit \/ CheckWorkflow
WorkflowSpec == WorkflowInit /\ [][WorkflowNext]_workflowVars

----------------------------------------------------------------------------
(* How a runner runs a job's steps, `failing` being those whose command     *)
(* fails: a failure that counts stops the steps that do not ask to run      *)
(* always.                                                                  *)
Runs(steps, i, failing) ==
    /\ steps[i].on # "never"
    /\ steps[i].on = "always" \/ ~\E k \in failing : k < i /\ steps[k].hard /\ steps[k].on # "never"
Passed(steps, role, i, failing) ==
    \E k \in DOMAIN steps : k < i /\ steps[k].is = role /\ Runs(steps, k, failing) /\ k \notin failing

(* What the jobs before job j make sure of.                                 *)
Ancestors(j) == Job(j).needs \union UNION {Job(n).needs : n \in Job(j).needs}

(* A Windows desktop build of an accepted release, whatever fails in it,    *)
(* uploads nothing that was not packaged and measured against its budget.   *)
MeasuredBeforeUpload(steps) ==
    \A failing \in {{}} \union {{i} : i \in DOMAIN steps} : \A i \in DOMAIN steps :
        steps[i].is \in Uploads /\ Runs(steps, i, failing) =>
            Passed(steps, "package", i, failing) /\ Passed(steps, "size", i, failing)

(* A source publication downloads its candidate into a checkout whose       *)
(* dependencies were installed first, and no step that failed goes unseen.  *)
InstalledBeforeDownload(steps) ==
    \A failing \in {{}} \union {{i} : i \in DOMAIN steps} : \A i \in DOMAIN steps :
        steps[i].is = "download" /\ steps[i].on # "always" /\ Runs(steps, i, failing) =>
            \A role \in {"checkout", "pnpm", "node", "install"} : Passed(steps, role, i, failing)

SafeToRun ==
    /\ workflow.triggers = {"workflow_dispatch"}
    /\ workflow.file = "release" =>
           /\ \A j \in {"build", "sbom", "agent-kit", "assemble"} : Gates \subseteq Ancestors(j)
           /\ \A j \in Jobs : Job(j).permissions \in {"write", "write-all"} =>
                  "publish" \in Job(j).when /\ Job(j).environment = "release"
           /\ MeasuredBeforeUpload(StepsOf("build"))
           /\ InstalledBeforeDownload(StepsOf("publish-source-agent-kit"))
    /\ workflow.file = "ci" =>
           LET lint == StepsOf("linux-rust-lint") IN
           \A i \in DOMAIN lint : RunsExact(lint[i], "test")
               => \E k \in 1..i - 1 : RunsExact(lint[k], "clippy")

(* A release the checker accepts starts by hand only, publishes only when   *)
(* asked to, builds nothing before its gates, and keeps the order of its    *)
(* gates under any failing step; a CI run lints what it built.              *)
AcceptedIsSafe == accepted = "yes" => SafeToRun
==========================================================================
