-------------------------- MODULE PluginActions --------------------------
(***************************************************************************)
(* Actions that come out of a signed archive (packages/plugin-actions/src: *)
(* artifact.mjs, pipeline.mjs): the archive and its manifest, the          *)
(* publisher's signature beside it, the action specifications inside, the  *)
(* pipeline of builtin actions each of them runs, and its test vectors.    *)
(* A JSON value is the set of its fields, its size their number; a path is *)
(* the sequence of its parts.                                              *)
(***************************************************************************)
EXTENDS ActionRegistry

CONSTANTS PipelineActions,   \* the builtin actions a pipeline may call: what they take and give
          PipelineSteps,          \* PIPELINE_LIMITS.steps
          ExpandedBytes,       \* PIPELINE_LIMITS.expandedBytes
          PipelineBytes,   \* PIPELINE_LIMITS.intermediateBytes
          ArchiveEntries, EntryBytes, ArchiveBytes   \* USEFUL_LIMITS

(* safeArchivePath, and what inspectUsefulArtifact refuses in an archive.   *)
PathSafe(path) ==
    path # <<>> /\ path[1] # "" /\ ToSet(path) \intersect {"..", "."} = {}

Total(entries) == FoldLeft(LAMBDA sum, e : sum + e.size, 0, entries)
ArchiveSound(a) ==
    /\ Len(a.entries) <= ArchiveEntries
    /\ \A i \in DOMAIN a.entries :
           /\ PathSafe(a.entries[i].path)
           /\ \A j \in DOMAIN a.entries : i # j => a.entries[i].path # a.entries[j].path
           /\ a.entries[i].type \in {"file", "directory"}
           /\ a.entries[i].size <= EntryBytes
    /\ Total(a.entries) <= ArchiveBytes
    /\ \E i \in DOMAIN a.entries : a.entries[i].path = <<"manifest.json">>

(* validateRuntimeManifest: an id outside the builtin namespace, and only a *)
(* launcher asks for a permission, the declared one.                        *)
ManifestValid(m) ==
    /\ Head(m.id) # "builtin" /\ Len(m.id) > 0
    /\ m.entry \in {"web", "launcher", "worker"}
    /\ IF m.entry = "launcher" THEN "process.launch.declared" \in m.permissions ELSE m.permissions = {}

(* verifyPublisherSidecar: a statement on this archive, signed by the key   *)
(* that it names.                                                           *)
SidecarRefusal(a, s) ==
    IF s.tool # a.manifest.id \/ s.version # a.manifest.version THEN "SIGNATURE_IDENTITY_MISMATCH"
    ELSE IF s.sha # a.sha THEN "SIGNATURE_ARTIFACT_MISMATCH"
    ELSE IF s.signed # <<s.key, s.tool, s.version, s.sha>> THEN "SIGNATURE_INVALID"
    ELSE "none"

(* validateManifestActionContributions: names in the plugin's namespace, no *)
(* name and no file twice.                                                  *)
ContributionsRefusal(m) ==
    IF \E i \in DOMAIN m.actions : m.actions[i].action \in ReservedNames
    THEN "PLUGIN_ACTION_RESERVED_NAME"
    ELSE IF \E i, j \in DOMAIN m.actions :
                \/ ~IsStrictPrefix(m.id, m.actions[i].action)
                \/ i # j /\ m.actions[i].action = m.actions[j].action
         THEN "PLUGIN_ACTION_NAMESPACE_INVALID"
    ELSE IF \E i, j \in DOMAIN m.actions :
                i # j /\ m.actions[i].path = m.actions[j].path THEN "MANIFEST_ACTIONS_INVALID"
    ELSE "none"

----------------------------------------------------------------------------
(* A template names the fields it builds and, by <<step, field>>, what they *)
(* are taken from: step 0 is the input.                                     *)

(* validateReference, validateTemplate: backwards only.                     *)
RefsBackward(template, completed) == \A r \in template.refs : r[1] = 0 \/ r[1] \in completed

StepIds(steps) == {steps[i].id : i \in DOMAIN steps}

(* validatePluginActionSpec.                                                *)
SpecRefusal(spec) ==
    IF spec.aliases \intersect ReservedNames # {} THEN "PLUGIN_ACTION_RESERVED_NAME"
    ELSE IF spec.vectors = {} THEN "PLUGIN_TEST_VECTOR_REQUIRED"
    ELSE IF Len(spec.steps) \notin 1 .. PipelineSteps THEN "PIPELINE_STEP_LIMIT"
    ELSE IF Cardinality(StepIds(spec.steps)) # Len(spec.steps) THEN "PIPELINE_STEP_ID_INVALID"
    ELSE IF \E i \in DOMAIN spec.steps : spec.steps[i].action \notin DOMAIN PipelineActions
         THEN "PIPELINE_ACTION_NOT_ALLOWED"
    ELSE IF \/ ~RefsBackward(spec.out, StepIds(spec.steps))
            \/ \E i \in DOMAIN spec.steps :
                   ~RefsBackward(spec.steps[i].input, StepIds(SubSeq(spec.steps, 1, i - 1)))
         THEN "PIPELINE_FORWARD_REFERENCE"
    ELSE "none"

(* derivePluginAction: whatever the archive says, the action is pure, asks  *)
(* for nothing and carries the publisher's key.                             *)
DerivedDescriptor(m, action, key, spec) ==
    [id |-> action, aliases |-> spec.aliases, version |-> m.version, kind |-> "plugin",
     tool |-> m.id, publisher |-> key, mode |-> "pure", readOnly |-> TRUE, destructive |-> FALSE,
     idempotent |-> TRUE, openWorld |-> FALSE, effects |-> {}, confirm |-> FALSE, needs |-> {},
     inputs |-> spec.inputs, outputs |-> spec.outputs, sensitive |-> {}, title |-> spec.title,
     keywords |-> {}, description |-> spec.title]

(* expandTemplate: the value, when everything it refers to is there.        *)
Present(template, values) ==
    \A r \in template.refs : r[1] \in DOMAIN values /\ r[2] \in values[r[1]]

(* One step of createPipelineHandler: expand, count, run, count.            *)
PipelineStep(acc, step) ==
    LET bytes == acc.bytes + Cardinality(step.input.fields)
        used  == PipelineActions[step.action]
        after == bytes + Cardinality(used.gives)
    IN  IF acc.code # "none" THEN acc
        ELSE IF ~Present(step.input, acc.values) THEN [acc EXCEPT !.code = "PIPELINE_REFERENCE_MISSING"]
        ELSE IF Cardinality(step.input.fields) > ExpandedBytes THEN [acc EXCEPT !.code = "PIPELINE_EXPANSION_TOO_LARGE"]
        ELSE IF bytes > PipelineBytes THEN [acc EXCEPT !.code = "PIPELINE_INTERMEDIATE_TOO_LARGE"]
        ELSE IF step.input.fields # used.takes THEN [acc EXCEPT !.code = "INPUT_INVALID"]
        ELSE IF after > PipelineBytes THEN [acc EXCEPT !.code = "PIPELINE_INTERMEDIATE_TOO_LARGE"]
        ELSE [acc EXCEPT !.values = @ @@ (step.id :> used.gives), !.bytes = after]

PipelineRun(spec, given) ==
    LET last == FoldLeft(PipelineStep, [code |-> "none", values |-> (0 :> given),
                                        bytes |-> Cardinality(given)], spec.steps)
    IN  IF last.code = "none" /\ ~Present(spec.out, last.values)
        THEN "PIPELINE_REFERENCE_MISSING" ELSE last.code

(* What ActionExecutor makes of it: the input and the output fit their      *)
(* schemas, and a failure inside is told as ACTION_FAILED.                  *)
PipelineOutcome(spec, given) ==
    IF given # spec.inputs THEN "INPUT_INVALID"
    ELSE IF PipelineRun(spec, given) # "none" THEN "ACTION_FAILED"
    ELSE IF spec.out.fields # spec.outputs THEN "OUTPUT_INVALID" ELSE "ok"

(* verifyTestVectors: every vector comes out as it says.                    *)
VectorsHold(spec) == \A v \in spec.vectors : PipelineOutcome(spec, v.input) = v.outcome

(* loadSignedPlugin after the signature: per contribution the file is in    *)
(* the archive, its specification valid, its vectors true.  The first       *)
(* contribution refused ends it.                                            *)
ContributionRefusal(a, key, c) ==
    IF ~\E i \in DOMAIN a.entries : a.entries[i].path = c.path /\ a.entries[i].type = "file"
    THEN "ACTION_SPEC_MISSING"
    ELSE LET spec == a.specs[c.path]
         IN  IF SpecRefusal(spec) # "none" THEN SpecRefusal(spec)
             ELSE IF ~DescriptorValid(DerivedDescriptor(a.manifest, c.action, key, spec))
                  THEN "PLUGIN_DESCRIPTOR_INVALID"
             ELSE IF ~VectorsHold(spec) THEN "PLUGIN_TEST_VECTOR_MISMATCH"
             ELSE "none"

PluginRefusal(a, key) ==
    IF ContributionsRefusal(a.manifest) # "none" THEN ContributionsRefusal(a.manifest)
    ELSE FoldLeft(LAMBDA code, c : IF code # "none" THEN code ELSE ContributionRefusal(a, key, c),
                  "none", a.manifest.actions)

PluginEntries(a, key) ==
    [i \in DOMAIN a.manifest.actions |->
        LET c == a.manifest.actions[i]
        IN  [d |-> DerivedDescriptor(a.manifest, c.action, key, a.specs[c.path]),
             from |-> <<"plugin", a.sha, key>>, spec |-> a.specs[c.path]]]
==========================================================================
