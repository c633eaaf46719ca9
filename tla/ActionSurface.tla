-------------------------- MODULE ActionSurface --------------------------
(***************************************************************************)
(* The two programs that offer actions: the command line                   *)
(* (packages/useful-runtime) and the MCP server (packages/useful-mcp).     *)
(* Both build one registry at their start, from the builtin actions, the   *)
(* signed plugins of a configuration, the host actions of another, and     *)
(* show the part an agent profile names; then they answer requests.  The   *)
(* archive and the signature of a plugin are two files another program may *)
(* replace between the reads.                                              *)
(***************************************************************************)
EXTENDS PluginActions

CONSTANTS Starts,        \* command lines: surface, plugins, host, profile, files on disk
          Replacements,  \* other contents the files of a plugin may get
          BuiltinEntries,\* the entries of the builtin registry
          SurfaceRequests,  \* what clients ask
          MaxReplaced    \* how often a file is replaced while the program starts

VARIABLES
    given,     \* the command line with its configuration files
    shelf,     \* the files of each plugin: archive and sidecar
    start,     \* how far the start is, what it has read and loaded, why it refused
    regs,      \* the registry: builtin, plugin and host entries
    offered,   \* the entries this surface shows
    answer,    \* the last answer
    paging,    \* a client that follows the cursors of a search
    replaced   \* how often files were replaced
surfaceVars == <<given, shelf, start, regs, offered, answer, paging, replaced>>

NoAnswer == [op |-> "none", name |-> <<>>, code |-> "none", ran |-> <<>>, preset |-> {}, confirmed |-> FALSE, exit |-> 0]
NoPaging == [q |-> <<>>, limit |-> 1, got |-> <<>>, next |-> <<>>, open |-> FALSE]

SurfaceInit ==
    /\ given \in Starts
    /\ shelf = given.shelf
    /\ start = [pc |-> "inspect", k |-> 1, held |-> <<>>, loaded |-> <<>>, code |-> "none"]
    /\ regs = BuiltinEntries /\ offered = <<>>
    /\ answer = NoAnswer /\ paging = NoPaging /\ replaced = 0

Refused(code) == start' = [start EXCEPT !.pc = "refused", !.code = code]

----------------------------------------------------------------------------
(* loadPluginConfig, one plugin after the other.  The archive is read once; *)
(* everything later comes out of the bytes held.                            *)

InspectArtifact ==
    /\ start.pc = "inspect" /\ start.k <= Len(given.plugins)
    /\ LET entry == given.plugins[start.k]
           a     == shelf[entry.path].archive
       IN  IF ~ArchiveSound(a) THEN Refused("ARCHIVE_INVALID")
           ELSE IF ~ManifestValid(a.manifest) THEN Refused("MANIFEST_MISSING_OR_INVALID")
           ELSE IF a.sha # entry.sha THEN Refused("ARTIFACT_PIN_MISMATCH")
           ELSE start' = [start EXCEPT !.pc = "sidecar", !.held = <<a>>]
    /\ UNCHANGED <<given, shelf, regs, offered, answer, paging, replaced>>

ReadSidecar ==
    /\ start.pc = "sidecar"
    /\ LET entry == given.plugins[start.k]
           s     == shelf[entry.path].sidecar
       IN  IF SidecarRefusal(start.held[1], s) # "none" THEN Refused(SidecarRefusal(start.held[1], s))
           ELSE IF s.key # entry.key THEN Refused("PUBLISHER_PIN_MISMATCH")
           ELSE start' = [start EXCEPT !.pc = "derive"]
    /\ UNCHANGED <<given, shelf, regs, offered, answer, paging, replaced>>

\* Faulty variant: the file at the configured path is opened again.
SourceReopened == shelf[given.plugins[start.k].path].archive

(* The archive the actions are taken from.                                  *)
Source == start.held[1]

DeriveActions ==
    /\ start.pc = "derive"
    /\ LET key == given.plugins[start.k].key
       IN  IF PluginRefusal(Source, key) # "none" THEN Refused(PluginRefusal(Source, key))
           ELSE start' = [start EXCEPT !.pc = "inspect", !.k = @ + 1, !.held = <<>>,
                                       !.loaded = @ \o PluginEntries(Source, key)]
    /\ UNCHANGED <<given, shelf, regs, offered, answer, paging, replaced>>

RegisterPlugins ==
    /\ start.pc = "inspect" /\ start.k > Len(given.plugins)
    /\ LET r == Registered(regs, start.loaded)
       IN  IF r.code # "none" THEN Refused(r.code) /\ UNCHANGED regs
           ELSE start' = [start EXCEPT !.pc = "host"] /\ regs' = r.reg
    /\ UNCHANGED <<given, shelf, offered, answer, paging, replaced>>

(* validateConfigDocument, loadHostActionConfig: an enabled action has what *)
(* it needs; terminating a process needs Windows.                           *)
HostRefusal(h) ==
    IF \/ "probe" \in h.enabled /\ (h.readRoots = {} \/ ~h.ffprobe)
       \/ "export" \in h.enabled /\ (h.readRoots = {} \/ h.writeRoots = {} \/ ~h.ffmpeg)
    THEN "HOST_CONFIG_INVALID"
    ELSE IF h.overwrite THEN "HOST_CONFIG_OVERWRITE_UNSUPPORTED"
    ELSE IF "snapshot" \in h.enabled /\ ~h.processTool THEN "PROCESS_SNAPSHOT_UNAVAILABLE"
    ELSE IF "terminate" \in h.enabled /\ (~h.windows \/ ~h.processTool) THEN "PROCESS_TERMINATE_UNSUPPORTED"
    ELSE "none"

(* descriptorSet: reading is read-only; exporting and terminating destroy   *)
(* and ask for confirmation.                                                *)
HostNeeds(name) ==
    CASE name = "probe" -> {"fs.read", "ffprobe", "host.video"}
      [] name = "export" -> {"fs.read", "fs.write", "ffmpeg", "host.video"}
      [] name = "snapshot" -> {"process.read", "host.process"}
      [] name = "terminate" -> {"process.terminate", "host.process", "platform.windows"}
HostInputs(name) ==
    CASE name = "probe" -> {"path"} [] name = "export" -> {"inputPath", "outputPath"}
      [] name = "snapshot" -> {} [] name = "terminate" -> {"pid", "startTime"}
HostDescriptor(name) ==
    LET harms == name \in {"export", "terminate"}
    IN  [BuiltinDescriptor([id |-> <<"builtin", "host", name>>, aliases |-> {}, mode |-> "host",
                            idempotent |-> ~harms, inputs |-> HostInputs(name), outputs |-> {},
                            sensitive |-> HostInputs(name), title |-> <<name>>, keywords |-> {},
                            description |-> <<name>>])
            EXCEPT !.readOnly = ~harms, !.destructive = harms, !.confirm = harms,
                   !.needs = HostNeeds(name), !.effects = {"process"}]
HostEntries(h) ==
    LET names == SelectSeq(<<"probe", "export", "snapshot", "terminate">>, LAMBDA n : n \in h.enabled)
    IN  [i \in DOMAIN names |-> [d |-> HostDescriptor(names[i]), from |-> <<"host">>, spec |-> <<>>]]

AddHostActions ==
    /\ start.pc = "host"
    /\ IF given.host = <<>> THEN start' = [start EXCEPT !.pc = "profile"] /\ UNCHANGED regs
       ELSE LET h == given.host[1]
                r == Registered(regs, HostEntries(h))
            IN  IF HostRefusal(h) # "none" THEN Refused(HostRefusal(h)) /\ UNCHANGED regs
                ELSE IF r.code # "none" THEN Refused(r.code) /\ UNCHANGED regs
                ELSE start' = [start EXCEPT !.pc = "profile"] /\ regs' = r.reg
    /\ UNCHANGED <<given, shelf, offered, answer, paging, replaced>>

(* The registry of the surface: all of it, or what the profile exposes,     *)
(* registered again under the names the profile gives.                      *)
ApplyProfile ==
    /\ start.pc = "profile"
    /\ IF given.profile = <<>> THEN start' = [start EXCEPT !.pc = "ready"] /\ offered' = regs
       ELSE LET refusal == ProfileRefusal(given.profile[1], regs)
                r       == Registered(<<>>, Exposed(given.profile[1], regs, given.surface))
            IN  IF refusal # "none" THEN Refused(refusal) /\ UNCHANGED offered
                ELSE IF r.code # "none" THEN Refused(r.code) /\ UNCHANGED offered
                ELSE start' = [start EXCEPT !.pc = "ready"] /\ offered' = r.reg
    /\ UNCHANGED <<given, shelf, regs, answer, paging, replaced>>

(* Another program puts other files in the place of a plugin's.             *)
ReplaceFiles ==
    /\ start.pc \in {"inspect", "sidecar", "derive"} /\ replaced < MaxReplaced
    /\ \E p \in DOMAIN shelf, f \in Replacements :
           shelf' = [shelf EXCEPT ![p] = f] /\ shelf' # shelf
    /\ replaced' = replaced + 1
    /\ UNCHANGED <<given, start, regs, offered, answer, paging>>

----------------------------------------------------------------------------
(* Requests.                                                                *)

FromHost(e) == e.from = <<"host">>
Harmless(d) == d.readOnly /\ ~d.destructive /\ ~d.confirm

(* The permissions a surface grants: those of the host actions the          *)
(* configuration enables; the MCP server only of the read-only ones.        *)
Granted(e) ==
    IF FromHost(e) /\ (given.surface = "cli" \/ Harmless(e.d)) THEN e.d.needs ELSE {}

(* ActionExecutor.execute up to the handler, and the pipeline of a plugin.  *)
Outcome(e, fields, confirmed) ==
    IF e.d.mode = "ui-only" THEN "NOT_HEADLESS"
    ELSE IF e.d.confirm /\ ~confirmed THEN "CONFIRMATION_REQUIRED"
    ELSE IF ~(e.d.needs \subseteq Granted(e)) THEN "PERMISSION_DENIED"
    ELSE IF fields # e.d.inputs THEN "INPUT_INVALID"
    ELSE IF e.spec # <<>> THEN PipelineOutcome(e.spec, fields) ELSE "ok"

(* exitCodeFor.                                                             *)
ExitCode(code) ==
    CASE code = "ok" -> 0
      [] code \in {"USAGE", "INPUT_INVALID", "OUTPUT_INVALID", "RECIPE_INVALID"} -> 2
      [] code \in {"UNKNOWN_ACTION", "RECIPE_UNKNOWN_ACTION"} -> 3
      [] code \in {"PERMISSION_DENIED", "CONFIRMATION_REQUIRED", "NOT_HEADLESS", "RECIPE_ACTION_NOT_ALLOWED",
                   "AGENT_PROFILE_SURFACE_DISABLED", "AGENT_PROFILE_PRESET_UNKNOWN"} -> 4
      [] OTHER -> 70

(* One answer of this surface; a command ends the command line program.     *)
Answered(op, name, code, ran, preset, confirmed) ==
    /\ answer' = [op |-> op, name |-> name, code |-> code, ran |-> ran, preset |-> preset,
                  confirmed |-> confirmed, exit |-> IF given.surface = "cli" THEN ExitCode(code) ELSE 0]
    /\ start' = IF given.surface = "cli" THEN [start EXCEPT !.pc = "exited"] ELSE start
    /\ UNCHANGED <<given, shelf, regs, offered, paging, replaced>>

Ran(e, code) == IF code \in {"ok", "ACTION_FAILED", "OUTPUT_INVALID"} THEN <<e>> ELSE <<>>
PresetOf(item, id) == {s \in item.presets : s.id = id}

(* `actions run` with a profile: the profile resolves the name, the preset  *)
(* gives what the input leaves out, and the whole registry executes.        *)
RunByProfile(r) ==
    LET items == Items(given.profile[1], r.name, "cli")
        item  == CHOOSE i \in items : TRUE
        e     == Resolve(regs, item.action)
        sets  == PresetOf(item, r.preset)
        extra == IF r.preset = "none" THEN {} ELSE UNION {s.fields : s \in sets}
        code  == Outcome(e, extra \union r.fields, r.confirmed)
    IN  IF items = {} THEN Answered("run", r.name, "AGENT_PROFILE_SURFACE_DISABLED", <<>>, {}, FALSE)
        ELSE IF r.preset # "none" /\ sets = {}
             THEN Answered("run", r.name, "AGENT_PROFILE_PRESET_UNKNOWN", <<>>, {}, FALSE)
        ELSE Answered("run", r.name, code, Ran(e, code), extra, r.confirmed)

RunCommand(r) ==
    /\ start.pc = "ready" /\ given.surface = "cli"
    /\ IF given.profile # <<>> THEN RunByProfile(r)
       ELSE IF r.preset # "none" THEN Answered("run", r.name, "USAGE", <<>>, {}, FALSE)
       ELSE IF r.name \notin RegistryNames(regs) THEN Answered("run", r.name, "UNKNOWN_ACTION", <<>>, {}, FALSE)
       ELSE LET e    == Resolve(regs, r.name)
                code == Outcome(e, r.fields, r.confirmed)
            IN  Answered("run", r.name, code, Ran(e, code), {}, r.confirmed)

(* A tool of the MCP server: an entry shown, by its id, never confirmed.    *)
CallTool(r) ==
    /\ start.pc = "ready" /\ given.surface = "mcp"
    /\ \E i \in DOMAIN offered :
           /\ offered[i].d.id = r.name /\ offered[i].d.mode # "ui-only"
           /\ LET code == Outcome(offered[i], r.fields, FALSE)
              IN  Answered("run", r.name, code, Ran(offered[i], code), {}, FALSE)

(* A recipe is a list of actions, each of them shown under its own id and   *)
(* without any effect, run without grants.                                  *)
RecipeEligible(d) ==
    Harmless(d) /\ d.mode # "ui-only" /\ d.idempotent /\ ~d.openWorld /\ d.effects = {} /\ d.needs = {}

RunRecipe(r) ==
    /\ start.pc = "ready"
    /\ IF r.name \notin RegistryNames(offered) THEN Answered("recipe", r.name, "RECIPE_UNKNOWN_ACTION", <<>>, {}, FALSE)
       ELSE LET shown == Resolve(offered, r.name)
                e     == Resolve(IF given.surface = "cli" THEN regs ELSE offered, shown.d.id)
                code  == Outcome(e, r.fields, FALSE)
            IN  IF shown.d.id # r.name THEN Answered("recipe", r.name, "RECIPE_INVALID", <<>>, {}, FALSE)
                ELSE IF ~RecipeEligible(shown.d)
                     THEN Answered("recipe", r.name, "RECIPE_ACTION_NOT_ALLOWED", <<>>, {}, FALSE)
                ELSE Answered("recipe", r.name, code, Ran(e, code), {}, FALSE)

(* `describe` and useful.actions.describe.                                  *)
Describe(r) ==
    /\ start.pc = "ready"
    /\ LET known == IF given.profile # <<>> THEN Items(given.profile[1], r.name, given.surface) # {}
                    ELSE r.name \in RegistryNames(regs)
       IN  Answered("describe", r.name,
                    IF known THEN "ok"
                    ELSE IF given.profile # <<>> /\ given.surface = "cli"
                         THEN "AGENT_PROFILE_SURFACE_DISABLED" ELSE "UNKNOWN_ACTION", <<>>, {}, FALSE)

Descriptors(reg) == [i \in DOMAIN reg |-> reg[i].d]

(* useful.actions.search: a client asks, then follows the cursors.  Nothing *)
(* another request does is read by it, so it is looked at alone.            *)
AskSearch(q, limit) ==
    /\ start.pc = "ready" /\ given.surface = "mcp" /\ paging = NoPaging /\ answer = NoAnswer
    /\ LET page == Page(Ranked(Descriptors(offered), q), 0, limit)
       IN  paging' = [q |-> <<q>>, limit |-> limit, got |-> page.actions, next |-> page.next, open |-> page.next # <<>>]
    /\ UNCHANGED <<given, shelf, start, regs, offered, answer, replaced>>
FollowCursor ==
    /\ paging.open
    /\ LET page == Page(Ranked(Descriptors(offered), paging.q[1]), paging.next[1], paging.limit)
       IN  paging' = [paging EXCEPT !.got = @ \o page.actions, !.next = page.next, !.open = page.next # <<>>]
    /\ UNCHANGED <<given, shelf, start, regs, offered, answer, replaced>>

(* useful.actions.suggest: signals found in a text, per action a score.     *)
AskSuggest(signals, limit) ==
    /\ start.pc = "ready" /\ given.surface = "mcp" /\ paging = NoPaging /\ answer = NoAnswer
    /\ paging' = [paging EXCEPT !.got = Suggestions(Descriptors(offered), signals, limit, 50)]
    /\ UNCHANGED <<given, shelf, start, regs, offered, answer, replaced>>

SurfaceNext ==
    \/ InspectArtifact \/ ReadSidecar \/ DeriveActions \/ RegisterPlugins
    \/ AddHostActions \/ ApplyProfile \/ ReplaceFiles
    \/ /\ paging = NoPaging
       /\ \E r \in SurfaceRequests.runs : RunCommand(r) \/ CallTool(r) \/ RunRecipe(r) \/ Describe(r)
    \/ \E q \in SurfaceRequests.queries, limit \in SurfaceRequests.limits : AskSearch(q, limit)
    \/ \E signals \in SurfaceRequests.signals, limit \in SurfaceRequests.limits : AskSuggest(signals, limit)
    \/ FollowCursor

----------------------------------------------------------------------------
Ready == start.pc \in {"ready", "exited"}

(* One name leads to one action, and no plugin answers to a builtin name.   *)
NamesOwned ==
    \A i, j \in DOMAIN regs :
        /\ i # j => NamesOf(regs[i].d) \intersect NamesOf(regs[j].d) = {}
        /\ regs[i].from[1] = "plugin" => \A n \in NamesOf(regs[i].d) : ~Builtin(n)

(* A plugin's action comes out of the very archive one entry of the         *)
(* configuration pins, whatever was put in its place meanwhile, and asks    *)
(* for nothing.                                                             *)
Pinned ==
    \A i \in DOMAIN regs : regs[i].from[1] = "plugin" =>
        \E p \in ToSet(given.plugins), f \in given.files :
            /\ regs[i].from = <<"plugin", p.sha, p.key>> /\ f.archive.sha = p.sha
            /\ \E c \in ToSet(f.archive.manifest.actions) :
                   c.action = regs[i].d.id /\ f.archive.specs[c.path] = regs[i].spec
            /\ regs[i].d.publisher = p.key /\ regs[i].d.needs = {}

(* What ran was shown on this surface by an item of the profile that pins   *)
(* the version and the publisher of the very action, and whose presets hold *)
(* nothing sensitive.                                                       *)
RanAsShown ==
    answer.ran # <<>> /\ given.profile # <<>> =>
        \E item \in ToSet(given.profile[1]) :
            /\ ShownOn(item, given.surface)
            /\ \/ answer.name = item.action
               \/ given.surface = "cli" /\ answer.name \in item.aliases
            /\ LET d == answer.ran[1].d
               IN  /\ d.id = item.action /\ d.version = item.version /\ d.publisher = item.publisher
                   /\ answer.preset \intersect d.sensitive = {}

(* A destructive action runs by a confirmed command only; the MCP server    *)
(* runs nothing that changes anything, a recipe nothing with any effect.    *)
RanAllowed ==
    answer.ran # <<>> =>
        LET e == answer.ran[1]
        IN  /\ e.d.destructive => given.surface = "cli" /\ answer.confirmed
            /\ e.d.needs # {} => FromHost(e) /\ e \in ToSet(HostEntries(given.host[1]))
            /\ given.surface = "mcp" => e.d.readOnly
            /\ answer.op = "recipe" => e.d.effects = {} /\ e.d.needs = {}

(* The pages a client followed to the end are the matching actions, each    *)
(* once, none before a better one.                                          *)
PagesComplete ==
    paging.q # <<>> /\ ~paging.open =>
        LET got == paging.got
            q   == paging.q[1]
            all == Descriptors(offered)
        IN  /\ Len(got) = Cardinality(ToSet(got))
            /\ ToSet(got) = {all[i] : i \in {j \in DOMAIN all :
                    /\ Matched(all[j], q.tokens) /\ all[j].kind \in q.kinds
                    /\ all[j].mode \in q.modes /\ (q.readOnly => all[j].readOnly)}}
            /\ q.sort = "relevance" /\ q.direction = "desc" =>
                   \A i \in 1 .. Len(got) - 1 : Relevance(got[i], q.tokens) >= Relevance(got[i + 1], q.tokens)

(* Suggested are shown actions that run without a window, each once.        *)
SuggestedShown ==
    paging.q = <<>> =>
        /\ Len(paging.got) = Cardinality(ToSet(paging.got))
        /\ \A k \in DOMAIN paging.got : \E i \in DOMAIN offered :
               offered[i].d.id = paging.got[k][1] /\ offered[i].d.mode # "ui-only"
        /\ \A k \in 1 .. Len(paging.got) - 1 : paging.got[k][2] >= paging.got[k + 1][2]

(* The surface keeps to its configuration: names have one owner, plugins    *)
(* their pins, requests the profile and the grants, pages the listing, and  *)
(* the command line exits with zero only when its command succeeded         *)
(* (useful-runtime.mjs:217-437, useful-mcp/src/server.mjs, artifact.mjs).   *)
ActionSurfaceSafe ==
    /\ NamesOwned /\ Pinned /\ RanAsShown /\ RanAllowed /\ PagesComplete /\ SuggestedShown
    /\ answer.exit = 0 /\ given.surface = "cli" /\ answer.op # "none" => answer.code = "ok"
    /\ start.pc = "refused" => answer = NoAnswer /\ offered = <<>>

SurfaceTypeOK ==
    /\ start.pc \in {"inspect", "sidecar", "derive", "host", "profile", "ready", "exited", "refused"}
    /\ start.k \in 1 .. Len(given.plugins) + 1 /\ replaced \in 0 .. MaxReplaced
==========================================================================
