-------------------------- MODULE MCAgentTools --------------------------
(***************************************************************************)
(* Model checking of what an agent uses on a machine: the session, leases  *)
(* and destinations of Computer Use, the surfaces that offer actions and   *)
(* the host actions.  They share no state; `focus` says which of them a    *)
(* behaviour is about, so that one run explores the sum of their state     *)
(* spaces and not the product.                                             *)
(***************************************************************************)
EXTENDS ComputerUse, BrowserResources, DestinationPolicy, ActionSurface, HostActions

CONSTANTS h1, h2

VARIABLE focus

mcVars == <<focus, sessionVars, leaseVars, policyVars, surfaceVars, hostVars>>

(* Hosts: an allowed name, another one, a local name, a private literal.    *)
Host(name, kind, bytes) == [name |-> name, kind |-> kind, bytes |-> bytes]
Site  == Host("site", "name", <<>>)
Other == Host("other", "name", <<>>)
Local == Host("local", "local name", <<>>)
Lan   == Host("lan", "literal", <<192, 168, 0, 1>>)
Bad   == Host("bad", "not canonical", <<>>)

BasePolicy == [environment |-> "isolated-browser", maxSteps |-> 25, stepDeadlineMs |-> 1,
               totalDeadlineMs |-> 1, maxRedirects |-> 1, developmentMode |-> FALSE,
               allowPrivateDomains |-> FALSE, allowDomains |-> <<Site>>]

SomePolicies ==
    {BasePolicy,
     [BasePolicy EXCEPT !.allowDomains = <<>>],
     [BasePolicy EXCEPT !.allowDomains = <<Site, Other>>, !.maxRedirects = 0],
     [BasePolicy EXCEPT !.allowDomains = <<Site, Site>>],
     [BasePolicy EXCEPT !.allowDomains = <<Bad>>],
     [BasePolicy EXCEPT !.allowDomains = <<Local>>],
     [BasePolicy EXCEPT !.allowDomains = <<Lan>>],
     [BasePolicy EXCEPT !.allowDomains = <<Lan, Site>>, !.developmentMode = TRUE,
                        !.allowPrivateDomains = TRUE],
     [BasePolicy EXCEPT !.allowPrivateDomains = TRUE],
     [BasePolicy EXCEPT !.environment = "host-desktop"],
     [BasePolicy EXCEPT !.maxSteps = 0],
     [BasePolicy EXCEPT !.stepDeadlineMs = 2]}

V4(a, b, c, d) == [version |-> 4, bytes |-> <<a, b, c, d>>]
V6(left, right, gap) == [version |-> 6, left |-> left, right |-> right, gap |-> gap]

(* Octets at the edges of the blocks.                                       *)
EdgeAddresses ==
    {V4(a, b, c, 1) : a \in {0, 1, 10, 100, 127, 128, 169, 172, 192, 198, 203, 223, 224, 240, 255},
                      b \in {0, 15, 16, 17, 18, 19, 20, 31, 32, 51, 63, 64, 88, 127, 128, 168, 254},
                      c \in {0, 2, 99, 100, 113}}
    \union {V6(<<g>>, <<1>>, TRUE) : g \in {0, 1, 64511, 64512, 65023, 65024, 65151, 65152,
                                            65215, 65216, 65279, 65280, 65535}}
    \union {V6(<<8193, g>>, <<k>>, TRUE) : g \in {3511, 3512, 3513}, k \in {0, 1}}
    \union {V6(<<>>, <<g, 49320, 1>>, TRUE) : g \in {0, 65534, 65535}}
    \union {V6(<<>>, <<1, 65535, 49320, 1>>, TRUE), V6(<<1>>, <<>>, FALSE),
            V6(<<1, 2, 3, 4>>, <<5, 6, 7, 8>>, FALSE), V6(<<1, 2, 3, 4>>, <<5, 6, 7, 8>>, TRUE)}

Url(host) == [scheme |-> "https", credentials |-> FALSE, host |-> host]
Hop(host, ip) == [url |-> Url(host), resolvedIps |-> <<ip>>]
Report(hops) == [reported |-> TRUE, complete |-> TRUE, hops |-> hops]
Public == V4(1, 1, 1, 1)

SomeEvidences ==
    {Report(<<Hop(x, Public), Hop(y, ip)>>) :
               x \in {Site, Other, Lan}, y \in {Site, Other, Lan}, ip \in {Public, V4(10, 0, 0, 1)}}
    \union {[reported |-> FALSE, complete |-> FALSE, hops |-> <<>>],
            [Report(<<Hop(Site, Public)>>) EXCEPT !.complete = FALSE],
            Report(<<>>),
            Report(<<[url |-> [Url(Site) EXCEPT !.credentials = TRUE], resolvedIps |-> <<Public>>]>>),
            Report(<<[url |-> Url(Site), resolvedIps |-> <<>>]>>)}

MCCases ==
    (SomePolicies \X SomeEvidences)
    \union ({BasePolicy} \X {Report(<<Hop(Site, ip)>>) : ip \in EdgeAddresses})

----------------------------------------------------------------------------
(* The surfaces: names, descriptors, plugins, profiles, requests.           *)

MCReserved == {<<"useful", "actions", "search">>}

(* Names in the order of their code points.                                 *)
NJson == <<"builtin", "utilities", "json">>
NUuid == <<"builtin", "utilities", "uuid">>
NPanel == <<"builtin", "office", "panel">>
AFmt == <<"acme", "fmt">>
ADeep == <<"acme", "deep", "run">>
MCOrder == <<ADeep, AFmt, <<"builtin", "host", "export">>, <<"builtin", "host", "probe">>,
             <<"builtin", "host", "snapshot">>, <<"builtin", "host", "terminate">>,
             NPanel, NJson, NUuid>>

MCBuiltin(id, alias, mode, idem, ins, title, keys) ==
    [d |-> BuiltinDescriptor([id |-> id, aliases |-> alias, mode |-> mode, idempotent |-> idem,
                              inputs |-> ins, outputs |-> {"text"}, sensitive |-> {"text"} \intersect ins,
                              title |-> title, keywords |-> keys, description |-> <<"format", "text">>]),
     from |-> <<"builtin">>, spec |-> <<>>]
MCBuiltins == <<MCBuiltin(NJson, {<<"beautify">>}, "pure", TRUE, {"text", "indent"}, <<"json", "format">>, {<<"json">>}),
                MCBuiltin(NUuid, {<<"guid">>}, "pure", FALSE, {"count"}, <<"uuid">>, {<<"random">>}),
                MCBuiltin(NPanel, {}, "ui-only", TRUE, {}, <<"panel">>, {<<"json", "office">>})>>

MCPipeline == [json |-> [takes |-> {"text"}, gives |-> {"text"}],
               hash |-> [takes |-> {"text", "algorithm"}, gives |-> {"hex"}]]
Tpl(fields, refs) == [fields |-> fields, refs |-> refs]
PStep(id, action, fields, refs) == [id |-> id, action |-> action, input |-> Tpl(fields, refs)]
GoodSpec == [aliases |-> {<<"tidy">>}, inputs |-> {"text"}, outputs |-> {"hex"}, title |-> <<"tidy", "json">>,
             steps |-> <<PStep(1, "json", {"text"}, {<<0, "text">>}),
                         PStep(2, "hash", {"text", "algorithm"}, {<<1, "text">>})>>,
             out |-> Tpl({"hex"}, {<<2, "hex">>}),
             vectors |-> {[input |-> {"text"}, outcome |-> "ok"], [input |-> {}, outcome |-> "INPUT_INVALID"]}]
Specs == {GoodSpec,
          [GoodSpec EXCEPT !.aliases = {<<"beautify">>}],
          [GoodSpec EXCEPT !.aliases = {<<"builtin", "tidy">>}],
          [GoodSpec EXCEPT !.aliases = {<<"useful", "actions", "search">>}],
          [GoodSpec EXCEPT !.aliases = {ADeep}],
          [GoodSpec EXCEPT !.steps[1].input.refs = {<<2, "hex">>}],
          [GoodSpec EXCEPT !.steps[2].input.refs = {<<1, "hex">>}],
          [GoodSpec EXCEPT !.steps[2].id = 1],
          [GoodSpec EXCEPT !.steps[1].action = "uuid"],
          [GoodSpec EXCEPT !.steps = <<>>],
          [GoodSpec EXCEPT !.vectors = {}],
          [GoodSpec EXCEPT !.out.fields = {"text"}],
          [GoodSpec EXCEPT !.steps[2].input.fields = {"text"},
                           !.vectors = {[input |-> {"text"}, outcome |-> "ACTION_FAILED"]}]}

File(path, size) == [path |-> path, type |-> "file", size |-> size]
Acme == [id |-> <<"acme">>, version |-> "1", entry |-> "web", permissions |-> {},
         actions |-> <<[action |-> AFmt, path |-> <<"a">>]>>]
Archive(sha, m, spec) == [sha |-> sha, manifest |-> m, specs |-> <<"a">> :> spec @@ <<"b">> :> GoodSpec,
                          entries |-> <<File(<<"manifest.json">>, 1), File(<<"a">>, 1), File(<<"b">>, 1)>>]
Signed(key, m, sha) == [key |-> key, tool |-> m.id, version |-> m.version, sha |-> sha,
                        signed |-> <<key, m.id, m.version, sha>>]
Files(sha, m, spec, key) == [archive |-> Archive(sha, m, spec), sidecar |-> Signed(key, m, sha)]

Good == Files("s1", Acme, GoodSpec, "k1")
Evil == Files("s2", Acme, [GoodSpec EXCEPT !.aliases = {}], "k2")
DeepM == [Acme EXCEPT !.id = <<"acme", "deep">>, !.actions = <<[action |-> ADeep, path |-> <<"a">>]>>]
Deep == Files("s3", DeepM, [GoodSpec EXCEPT !.aliases = {}], "k3")
Manifests == {[Acme EXCEPT !.id = <<"builtin">>],
              [Acme EXCEPT !.entry = "launcher"],
              [Acme EXCEPT !.permissions = {"process.launch.declared"}],
              [Acme EXCEPT !.actions = @ \o <<[action |-> ADeep, path |-> <<"b">>]>>],
              [Acme EXCEPT !.actions = @ \o @],
              [Acme EXCEPT !.actions = <<[action |-> NJson, path |-> <<"a">>]>>],
              [Acme EXCEPT !.actions = @ \o <<[action |-> ADeep, path |-> <<"a">>]>>],
              [Acme EXCEPT !.actions = <<[action |-> AFmt, path |-> <<"c">>]>>]}
FileVariants ==
    {Files("s1", Acme, s, "k1") : s \in Specs} \union {Files("s1", m, GoodSpec, "k1") : m \in Manifests}
    \union {[Good EXCEPT !.archive.entries = @ \o <<e>>] :
                e \in {File(<<"a">>, 1), File(<<"..", "x">>, 1), File(<<"", "x">>, 1), File(<<"x">>, 3),
                       [File(<<"x">>, 1) EXCEPT !.type = "link"]}}
    \union {[Good EXCEPT !.sidecar.signed = <<"k2", <<"acme">>, "1", "s1">>],
            [Good EXCEPT !.sidecar = Signed("k2", Acme, "s1")],
            [Good EXCEPT !.sidecar = Signed("k1", Acme, "s2")],
            [Good EXCEPT !.sidecar = Signed("k1", DeepM, "s1")]}

Conf(path, f) == [path |-> path, key |-> f.sidecar.key, sha |-> f.archive.sha]
HostConf == [enabled |-> {"snapshot", "terminate"}, readRoots |-> {}, writeRoots |-> {}, ffmpeg |-> FALSE,
             ffprobe |-> FALSE, processTool |-> TRUE, windows |-> TRUE, overwrite |-> FALSE]
HostConfs == {HostConf, [HostConf EXCEPT !.windows = FALSE], [HostConf EXCEPT !.overwrite = TRUE],
              [HostConf EXCEPT !.processTool = FALSE, !.enabled = {"snapshot"}],
              [HostConf EXCEPT !.enabled = {"probe", "export"}],
              [HostConf EXCEPT !.enabled = {"probe", "export"}, !.readRoots = {"r"}, !.ffprobe = TRUE,
                               !.ffmpeg = TRUE, !.writeRoots = {"w"}]}

Item(id, kind, publisher, cli, mcp) ==
    [action |-> id, version |-> IF kind = "plugin" THEN "1" ELSE "1.0.0", kind |-> kind,
     publisher |-> publisher, cli |-> cli, mcp |-> mcp, aliases |-> {}, presets |-> {}]
PJson == [Item(NJson, "builtin", "useful.project", TRUE, FALSE)
            EXCEPT !.aliases = {<<"j">>}, !.presets = {[id |-> "two", fields |-> {"indent"}]}]
PFmt == Item(AFmt, "plugin", "k1", TRUE, TRUE)
PKill == [Item(<<"builtin", "host", "terminate">>, "builtin", "useful.project", FALSE, TRUE) EXCEPT !.aliases = {<<"kill">>}]
Profiles == {<<PFmt, PJson>>, <<PJson, PKill>>, <<PJson, PJson>>,
             <<[PFmt EXCEPT !.publisher = "k2"]>>, <<[PJson EXCEPT !.version = "1"]>>,
             <<PJson, [PFmt EXCEPT !.aliases = {<<"j">>}]>>,
             <<[PJson EXCEPT !.aliases = {<<"beautify">>}]>>,
             <<[PJson EXCEPT !.aliases = {<<"x", "y">>}]>>,
             <<[PJson EXCEPT !.action = <<"tidy">>]>>,
             <<[PJson EXCEPT !.presets = {[id |-> "two", fields |-> {"text"}]}]>>,
             <<[PJson EXCEPT !.presets = {[id |-> "two", fields |-> {"nope"}]}]>>,
             <<[PJson EXCEPT !.presets = {[id |-> "two", fields |-> {"indent"}], [id |-> "two", fields |-> {}]}]>>,
             <<PJson, [PKill EXCEPT !.action = AFmt]>>}

StartOf(where, plugins, disk, host, profile) ==
    [surface |-> where, plugins |-> plugins, shelf |-> disk, host |-> host, profile |-> profile,
     files |-> {disk[i] : i \in DOMAIN disk}]
GoodPlugins == <<Conf(1, Good), Conf(2, Deep)>>
MCStarts ==
    {StartOf("cli", <<Conf(1, Good)>>, <<f>>, <<>>, <<>>) : f \in FileVariants}
    \union {StartOf(w, GoodPlugins, <<Good, Deep>>, <<HostConf>>, p) : w \in {"cli", "mcp"},
               p \in {<<>>} \union {<<q>> : q \in Profiles} \union {<<DefaultProfile(MCBuiltins)>>}}
    \union {StartOf(w, <<>>, <<>>, <<conf>>, <<>>) : w \in {"cli", "mcp"}, conf \in HostConfs}
    \union {StartOf("cli", GoodPlugins, <<[Good EXCEPT !.archive.specs = (<<"a">> :> [GoodSpec EXCEPT !.aliases = {ADeep}])], Deep>>, <<>>, <<>>)}

RunRequest(name, fields, preset, confirmed) ==
    [name |-> name, fields |-> fields, preset |-> preset, confirmed |-> confirmed]
MCRuns ==
    {RunRequest(n, f, p, c) : n \in {NJson, <<"beautify">>, <<"j">>}, f \in {{"text"}, {"text", "indent"}},
                              p \in {"none", "two", "three"}, c \in {FALSE}}
    \union {RunRequest(n, {"pid", "startTime"}, "none", c) :
               n \in {<<"builtin", "host", "terminate">>, <<"kill">>}, c \in BOOLEAN}
    \union {RunRequest(n, {"text"}, "none", TRUE) : n \in {AFmt, <<"tidy">>, ADeep}}
    \union {RunRequest(n, {}, "none", FALSE) : n \in {<<"builtin", "host", "snapshot">>, NPanel, <<"nobody">>}}
    \union {RunRequest(NUuid, {"count"}, "none", FALSE)}
AllModes == {"pure", "host", "worker", "ui-only"}
Query(tokens, sort, direction, ro) ==
    [tokens |-> tokens, sort |-> sort, direction |-> direction, kinds |-> {"builtin", "plugin"},
     modes |-> AllModes, readOnly |-> ro]
MCRequests ==
    [runs |-> MCRuns, limits |-> {1, 2, 4},
     signals |-> {{[id |-> NJson, score |-> 90], [id |-> NJson, score |-> 40], [id |-> NUuid, score |-> n],
                   [id |-> NPanel, score |-> 95], [id |-> AFmt, score |-> 60]} : n \in {40, 60, 95}},
     queries |-> {Query(<<>>, "id", d, ro) : d \in {"asc", "desc"}, ro \in BOOLEAN}
                 \union {Query(t, "relevance", "desc", FALSE) :
                            t \in {<<<<"json">>>>, <<<<"json">>, <<"format">>>>, <<<<"acme">>>>, <<<<"text">>>>}}
                 \union {[Query(<<>>, "id", "asc", FALSE) EXCEPT !.kinds = {"plugin"}, !.modes = {"pure"}]}]
MCReplacements == {Evil, Deep, [Good EXCEPT !.sidecar = Evil.sidecar]}

----------------------------------------------------------------------------
(* Host actions asked for together, and what other programs do meanwhile.   *)

HArg(kind, readable) == [kind |-> kind, target |-> "t1", readable |-> readable]
HPlan(a, b, events, receipts) == [args |-> h1 :> a @@ h2 :> b, events |-> events, receipts |-> receipts]
MCHostPlans ==
   {HPlan(HArg("export", TRUE), HArg("export", r), {e}, FALSE) :
       r \in BOOLEAN, e \in {"redirect", "file"}}
   \union {HPlan(HArg("snapshot", TRUE), HArg("terminate", TRUE), {"reuse"}, FALSE),
           HPlan(HArg("probe", TRUE), HArg("probe", FALSE), {}, TRUE)}

----------------------------------------------------------------------------
Parts == {"session", "leases", "destinations", "surface", "host"}
IdleStart == StartOf("cli", <<>>, <<>>, <<HostConf>>, <<>>)
IdlePlan == HPlan(HArg("export", TRUE), HArg("export", TRUE), {"file"}, FALSE)

AgentToolsInit ==
    /\ focus \in Parts
    /\ SessionInit /\ LeaseInit
    /\ IF focus = "destinations" THEN PolicyInit
       ELSE policy = BasePolicy /\ evidence = Report(<<>>) /\ verdict = "unchecked" /\ domain = NoHost
    /\ IF focus = "surface" THEN SurfaceInit ELSE given = IdleStart /\ SurfaceInit
    /\ IF focus = "host" THEN HostInit ELSE hplan = IdlePlan /\ HostInit

AgentToolsNext ==
    /\ UNCHANGED focus
    /\ \/ /\ focus = "session" /\ SessionNext
          /\ UNCHANGED <<leaseVars, policyVars, surfaceVars, hostVars>>
       \/ /\ focus = "leases" /\ LeaseNext
          /\ UNCHANGED <<sessionVars, policyVars, surfaceVars, hostVars>>
       \/ /\ focus = "destinations" /\ PolicyNext
          /\ UNCHANGED <<sessionVars, leaseVars, surfaceVars, hostVars>>
       \/ /\ focus = "surface" /\ SurfaceNext
          /\ UNCHANGED <<sessionVars, leaseVars, policyVars, hostVars>>
       \/ /\ focus = "host" /\ HostNext
          /\ UNCHANGED <<sessionVars, leaseVars, policyVars, surfaceVars>>

AgentToolsSafetySpec == AgentToolsInit /\ [][AgentToolsNext]_mcVars

(* The fairness of a part that this behaviour is not about asks nothing: no *)
(* action it names is enabled in its initial state.                         *)
AgentToolsSpec ==
    AgentToolsSafetySpec /\ SessionFairness /\ LeaseFairness /\ HostFairness
==========================================================================
