----------------------------- MODULE MCClients -----------------------------
(***************************************************************************)
(* Model checking of what runs on a user's machine: the action runtime and *)
(* its office operations, the Agent Kit from its build to its probe, and    *)
(* the verification of agent connections.                                  *)
(* They share no state; `focus` says which one a behaviour is about.       *)
(***************************************************************************)
EXTENDS ActionRun, OfficeOperations, AgentKit, AgentVerify

VARIABLE focus
clientVars == <<focus, runVars, officeVars, kitVars, verifyVars>>

----------------------------------------------------------------------------
(* Recipes and direct calls.                                                *)
ReadAction == [mode |-> "headless", harmless |-> TRUE, confirm |-> FALSE, permissions |-> {}, worker |-> TRUE]
LocalAction == [ReadAction EXCEPT !.worker = FALSE]
AskAction == [LocalAction EXCEPT !.harmless = FALSE, !.confirm = TRUE, !.permissions = {"file"}]
UiAction == [LocalAction EXCEPT !.mode = "ui-only"]
ActionStep(id, a, refs, in, res) == [id |-> id, action |-> a, alias |-> FALSE, refs |-> refs, bytes |-> 1, input |-> in, output |-> res, outputs |-> {1, 3}]
Recipe(steps) == [recipe |-> TRUE, steps |-> steps, outRefs |-> {}, inputBytes |-> 1, outBytes |-> 1, confirmed |-> FALSE, granted |-> {}]
Direct(a, in, confirmed, granted) == [Recipe(<<ActionStep("only", a, {}, in, "valid")>>) EXCEPT !.recipe = FALSE, !.confirmed = confirmed, !.granted = granted]
MCJobs ==
  {Recipe(<<ActionStep("a", x, {}, "valid", "valid"), ActionStep("b", y, refs, "valid", res)>>) : x \in {ReadAction, LocalAction, AskAction, UiAction}, y \in {ReadAction, LocalAction}, refs \in {{}, {"a"}, {"b"}, {"c"}}, res \in {"valid", "invalid", "too large"}}
  \union {Recipe(<<ActionStep("a", ReadAction, {}, in, "valid")>>) : in \in {"valid", "invalid", "too large"}}
  \union {Recipe(<<ActionStep("a", ReadAction, {}, "valid", "valid"), ActionStep("a", ReadAction, {}, "valid", "valid")>>), Recipe(<<>>),
          Recipe(<<ActionStep("a", ReadAction, {"b"}, "valid", "valid"), ActionStep("b", ReadAction, {}, "valid", "valid")>>),
          [Recipe(<<ActionStep("a", ReadAction, {}, "valid", "valid")>>) EXCEPT !.outRefs = {"z"}],
          Recipe(<<[ActionStep("a", ReadAction, {}, "valid", "valid") EXCEPT !.alias = TRUE]>>),
          Recipe([i \in 1..4 |-> ActionStep(<<"a","b","c","d">>[i], ReadAction, {}, "valid", "valid")]),
          Recipe([i \in 1..3 |-> ActionStep(<<"a","b","c","d">>[i], ReadAction, {}, "valid", "valid")])}
  \union {Direct(a, in, c, g) : a \in {ReadAction, LocalAction, AskAction, UiAction}, in \in {"valid", "invalid", "too large"}, c \in BOOLEAN, g \in {{}, {"file"}}}

----------------------------------------------------------------------------
(* Office requests: every key set near what an operation takes, sizes at    *)
(* the limits, and requests of the desktop client.                          *)
OfficeRequest(a, op, fmt, keys) ==
  [side |-> "action", action |-> a, op |-> op, format |-> fmt, keys |-> keys, base64 |-> 8, json |-> 100,
   total |-> 8, bytes |-> 100, text |-> 0, escape |-> 1, failure |-> "none"]
AllKeys == UNION {Schema[a].properties : a \in DOMAIN Schema} \union {"macro"}
OfficeOp(a, e) == IF a # "spreadsheet" THEN <<e, "none">>
            ELSE IF e \in {"to-markdown xlsx", "to-markdown csv"} THEN <<"to-markdown", IF e = "to-markdown xlsx" THEN "xlsx" ELSE "csv">>
            ELSE IF e \in {"from-markdown xlsx", "from-markdown csv"} THEN <<"from-markdown", IF e = "from-markdown xlsx" THEN "xlsx" ELSE "csv">>
            ELSE <<e, "none">>
KeyCases == UNION {UNION {{OfficeRequest(a, OfficeOp(a, e)[1], OfficeOp(a, e)[2], ks) :
                 ks \in {ThreadKeys[a][e].required, ThreadKeys[a][e].all}
                     \union {ThreadKeys[a][e].required \union {k} : k \in AllKeys}
                     \union {ThreadKeys[a][e].required \ {k} : k \in ThreadKeys[a][e].required}} : e \in DOMAIN ThreadKeys[a]} : a \in DOMAIN ThreadKeys}
MergeRequest == OfficeRequest("pdf", "merge", "none", {"documentsBase64"})
SizeCases ==
  {[MergeRequest EXCEPT !.base64 = b, !.json = j, !.total = t] :
      b \in {7, 8, MaxBase64Chars, MaxBase64Chars + 4}, j \in {100, MaxInputJson, MaxInputJson + 1},
      t \in {MaxTotalBinaryInput, MaxTotalBinaryInput + 1}}
  \union {[MergeRequest EXCEPT !.bytes = b, !.text = t, !.escape = e] :
      b \in {0, MaxBinaryOutput - 1, MaxBinaryOutput, MaxBinaryOutput + 1}, t \in {0, MaxOutputText, MaxOutputText + 1}, e \in {1, 3, 6}}
  \union {[MergeRequest EXCEPT !.failure = f] : f \in {"OUTPUT_TOO_LARGE", "TOO_LARGE", "TOO_MANY", "RATIO_EXCEEDED", "other office error", "bug"}}
DesktopCases == {[side |-> "desktop", op |-> op, keys |-> ks, options |-> o] :
   op \in DesktopOperations \union {"docx.run"}, ks \in {{"json"}, {"text"}, {"markdown"}, {"markdown", "sheetName"}, {"markdown", "title"}, {"inputs"}, {"input", "optionsJson"}, {"input"}, {"input", "title"}},
   o \in {"json", "not json", "no list"}}
MCOfficeCases == KeyCases \union SizeCases \union DesktopCases

----------------------------------------------------------------------------
(* What is bundled: two sound packages, two copies that differ, one without *)
(* a licence, none, and one that belongs to nobody.                         *)
Package(name, legal) == [name |-> name, version |-> 1, legal |-> legal, attributed |-> TRUE]
SoundPackages == {Package("ajv", {"LICENSE"}), Package("yaml", {"LICENSE", "NOTICE"})}
MCDependencySets == {SoundPackages,
   {Package("ajv", {"LICENSE"}), Package("ajv", {"LICENSE", "NOTICE"})}, {Package("ajv", {"NOTICE"})}, {},
   {[Package("ajv", {"LICENSE"}) EXCEPT !.attributed = FALSE]}}

----------------------------------------------------------------------------
(* Connections: installations, commands and hosts; the two parsers read     *)
(* every set that is one change of one record away from a sound one, and    *)
(* the changes made alike in all four.                                      *)
MCHostPlatform == "linux"
Install(m, r, v) == [mode |-> m, artifactVerified |-> (m = "agent-kit"), revision |-> r, version |-> v]
(* A worktree whose branch is packed, loose in the common directory with an *)
(* old packed entry, moved on by a commit, detached, unbound; and a kit.    *)
Refs(w, m) == [worktree |-> w, common |-> m]
Checkout(kind, points, loose, packed) ==
  [mode |-> "source", version |-> 1, intact |-> TRUE, manifest |-> 0,
   git |-> [kind |-> kind, bound |-> TRUE, head |-> points, commit |-> 1, loose |-> loose, packed |-> packed]]
PackedCheckout == Checkout("worktree", "ref", Refs(0, 0), Refs(0, 1))
MCInstalls == {PackedCheckout, Checkout("worktree", "ref", Refs(0, 1), Refs(0, 2)), Checkout("worktree", "ref", Refs(0, 2), Refs(0, 1)),
   [PackedCheckout EXCEPT !.git.bound = FALSE],
   [PackedCheckout EXCEPT !.mode = "agent-kit", !.manifest = 1]}
Order(c, t, s, d, e, l, sh) == [command |-> c, target |-> t, scope |-> s, directory |-> d, env |-> e, launcher |-> l, shape |-> sh]
Proj == <<"posix", "project">>
VO == Order("verify-all", "codex", "user", None, {}, FixedEntry, "exact")
One(t, s, e) == Order("verify", t, s, IF s = "user" THEN None ELSE Proj, e, FixedEntry, "exact")
MCOrders == {VO, [VO EXCEPT !.launcher = <<"posix", "other">>], [VO EXCEPT !.shape = "unknown field"],
   One("codex", "user", {<<"USEFUL_PROFILE", "named">>}), One("codex", "project", {<<"NO_COLOR", "1">>}),
   One("codex", "user", {<<"NO_COLOR", "2">>}), One("claude-desktop", "user", {}), One("claude-desktop", "project", {})}
MCHosts == {[nodeFile |-> TRUE, nodeMajor |-> 20, directory |-> TRUE], [nodeFile |-> TRUE, nodeMajor |-> 18, directory |-> TRUE],
   [nodeFile |-> TRUE, nodeMajor |-> 20, directory |-> FALSE]}
GoodProbe == [shape |-> "exact", installation |-> Install("source", 1, 1), server |-> 1, tools |-> ToolClosure,
   proved |-> TRUE, closed |-> TRUE, stderr |-> 0]
GoodSet == VerificationSet([i \in DOMAIN Targets |-> Connection(Plan(Targets[i], "user", None, FixedEntry, {}))], GoodProbe)
PlanEdits(p) ==
  {[p EXCEPT !.shape = "other"], [p EXCEPT !.directory = Proj], [p EXCEPT !.scope = "project"],
   [p EXCEPT !.scope = "project", !.directory = Proj], [p EXCEPT !.node = <<"posix", "other">>], [p EXCEPT !.launcher = <<"windows", "entry">>],
   [p EXCEPT !.launcher = <<"unc", "entry">>],
   [p EXCEPT !.env = {<<"NO_COLOR", "1">>}], [p EXCEPT !.env = {<<"TOKEN", "1">>}]} \union {[p EXCEPT !.target = t] : t \in {"codex", "claude-code", "claude-desktop", "other"}}
ConnectionEdits(cn) ==
  {[cn EXCEPT !.shape = "other"], [cn EXCEPT !.output = [kind |-> "other"]]} \union {[cn EXCEPT !.platform = p] : p \in {"win32", "darwin", "plan9"}}
  \union {[cn EXCEPT !.plan = p] : p \in PlanEdits(cn.plan)}
  \union {[cn EXCEPT !.plan = p, !.output = Render(p)] : p \in PlanEdits(cn.plan)}
ProbeEdits(p) ==
  {[p EXCEPT !.shape = "other"], [p EXCEPT !.server = 2], [p EXCEPT !.proved = FALSE], [p EXCEPT !.closed = FALSE],
   [p EXCEPT !.stderr = StderrLimit], [p EXCEPT !.stderr = StderrLimit + 1],
   [p EXCEPT !.tools.count = 41, !.tools.helpers = 5], [p EXCEPT !.tools.names = "others"]}
  \union {[p EXCEPT !.installation = i] : i \in {Install("source", 2, 1), Install("source", 1, 2), Install("agent-kit", 1, 1)} \union {[Install("source", 1, 1) EXCEPT !.artifactVerified = TRUE]}}
VerificationEdits(v) ==
  {[v EXCEPT !.shape = "other"], [v EXCEPT !.claims = "other"], [v EXCEPT !.endpoint.version = 2], [v EXCEPT !.endpoint.launcher = <<"posix", "other">>]}
  \union {[v EXCEPT !.connection = cn] : cn \in ConnectionEdits(v.connection)}
  \union {Verification(cn, v.probe) : cn \in ConnectionEdits(v.connection)}
  \union {[v EXCEPT !.probe = p] : p \in ProbeEdits(v.probe)} \union {Verification(v.connection, p) : p \in ProbeEdits(v.probe)}
Swapped(set, i, j) == [set EXCEPT !.verifications[i] = set.verifications[j], !.verifications[j] = set.verifications[i]]
MCSetCases == {GoodSet, [GoodSet EXCEPT !.shape = "other"], [GoodSet EXCEPT !.claims = "other"], [GoodSet EXCEPT !.verifications = SubSeq(@, 1, 3)],
    [GoodSet EXCEPT !.verifications = Append(@, @[1])]}
  \union {[GoodSet EXCEPT !.depth = d, !.nodes = n] : d \in {MaxDepth, MaxDepth + 1}, n \in {MaxNodes, MaxNodes + 1}}
  \union {Swapped(GoodSet, i, j) : i \in 1..2, j \in 3..4}
  \union UNION {{[GoodSet EXCEPT !.verifications[i] = v] : v \in VerificationEdits(GoodSet.verifications[i])} : i \in {1, 2, 4}}
  \union {[GoodSet EXCEPT !.verifications = [i \in DOMAIN Targets |-> Verification(GoodSet.verifications[i].connection, p)]] : p \in ProbeEdits(GoodProbe)}
  \union UNION {{[GoodSet EXCEPT !.verifications = [i \in DOMAIN Targets |-> Verification(Connection(Plan(Targets[i], s, d, l, e)), GoodProbe)]] :
       s \in {"user", "project"}, d \in {None, Proj}, l \in {FixedEntry, <<"posix", "other">>}} : e \in {{}, {<<"NO_COLOR", "1">>}}}
----------------------------------------------------------------------------
(* An initial state of each part for the behaviours that are not about it.  *)
RunRefused == job = Recipe(<<>>) /\ run = [pc |-> "failed", bytes |-> 0, receipts |-> <<>>,
               code |-> "refused", timedOut |-> FALSE] /\ call = NoCall /\ worker = "none" /\ caller = "live"

(* The parsers are compared, or one order runs: its host is sound unless    *)
(* the order is the plain one, where the installation may change twice.     *)
VerifyFocus == (setCase # GoodSet => order = VO /\ host.nodeMajor = 18)
    /\ install = PackedCheckout /\ (order.scope = "user" => host.directory)
VerifyIdle == order = VO /\ host = [nodeFile |-> TRUE, nodeMajor |-> 18, directory |-> TRUE]
    /\ install = PackedCheckout /\ changes = 0
    /\ verifier = [pc |-> "failed", code |-> "resolution", initial |-> Broken, probed |-> Broken, connections |-> <<>>, set |-> None]
    /\ session = NewSession /\ due = FALSE /\ setCase = GoodSet /\ setVerdict = "unread"

ClientInit ==
    /\ focus \in {"run", "office", "kit", "verify"}
    /\ IF focus = "run" THEN RunInit ELSE RunRefused
    /\ IF focus = "office" THEN OfficeInit
       ELSE officeCase = MergeRequest /\ officeVerdict = "unchecked"
    /\ KitInit /\ (focus # "kit" => deps = SoundPackages)
    /\ IF focus = "verify" THEN VerifyInit /\ VerifyFocus ELSE VerifyIdle

ClientNext ==
    /\ UNCHANGED focus
    /\ \/ focus = "run" /\ RunNext /\ UNCHANGED <<officeVars, kitVars, verifyVars>>
       \/ focus = "office" /\ RunOfficeCase /\ UNCHANGED <<runVars, kitVars, verifyVars>>
       \/ focus = "kit" /\ KitNext /\ UNCHANGED <<runVars, officeVars, verifyVars>>
       \/ focus = "verify" /\ (RunSetCase \/ VerifyNext) /\ (order # VO => UNCHANGED changes) /\ UNCHANGED <<runVars, officeVars, kitVars>>

ClientSpec == ClientInit /\ [][ClientNext]_clientVars /\ (focus = "run" => RunFairness)
              /\ VerifyFairness
============================================================================
