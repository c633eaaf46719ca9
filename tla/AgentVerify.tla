---------------------------- MODULE AgentVerify ----------------------------
(***************************************************************************)
(* `useful agent verify` and `agent verify-all`                            *)
(* (packages/useful-cli/bin/agent-connection-verify.mjs and                *)
(* agent-connection-verify-all.mjs): the installation is resolved, the     *)
(* connection documents of one target or of all four are built, the self   *)
(* probe (agent-probe.mjs) starts Useful's MCP server and questions it     *)
(* under one deadline, and the documents are bound to its result.  Two     *)
(* parsers read the result of verify-all: protocol/src                     *)
(* /agent-connection-verification-set.mjs and, in a browser,               *)
(* useful-cli-verify-all-browser.mjs.                                      *)
(***************************************************************************)
EXTENDS Naturals, FiniteSets, Sequences

CONSTANTS
  Installs,          \* the states of an installation: records as below
  Broken,            \* what does not resolve
  Orders,            \* the commands that are tried
  Hosts,             \* what the doctor finds on the host
  HostPlatform,      \* process.platform
  MaxInstallChanges, \* how often the installation changes meanwhile
  SetCases           \* the documents the two parsers are compared on

VARIABLES
  order, host,       \* the command and its host
  install,           \* the installation as it is now
  changes,           \* how often it has changed
  verifier,          \* the verify process
  session,           \* its MCP session
  due,               \* the thirty seconds are over
  setCase, setVerdict
verifyVars == <<order, host, install, changes, verifier, session, due, setCase, setVerdict>>

Targets == <<"codex", "claude-code", "claude-desktop", "mcp-servers-json">>
FragmentTargets == {"claude-desktop", "mcp-servers-json"}
HostPlatforms == {"win32", "linux", "darwin"}
Proofs == <<"handshake", "list", "search", "describe", "safeCall">>
StderrLimit == 65536
None == <<>>

----------------------------------------------------------------------------
(* The revision of a source installation is read from its .git by hand: in  *)
(* a worktree the loose reference is looked up in the worktree's directory, *)
(* then in the common one, and only then the packed ones, in that order.    *)
RefRoots(git) == IF git.kind = "worktree" THEN <<"worktree", "common">> ELSE <<"common">>
FirstKnown(refs, roots) ==
  LET known == {i \in DOMAIN roots : refs[roots[i]] # 0} IN
    IF known = {} THEN 0 ELSE refs[roots[CHOOSE i \in known : \A j \in known : i <= j]]
SourceRevision(git) ==
  CASE git.kind \notin {"directory", "worktree"} -> 0
    [] git.kind = "worktree" /\ ~git.bound -> 0
    [] git.head # "ref" -> git.commit
    [] OTHER -> LET loose == FirstKnown(git.loose, RefRoots(git)) IN
                  IF loose # 0 THEN loose ELSE FirstKnown(git.packed, RefRoots(git))

(* resolveAgentProbeInstallation: a kit verifies its own files, a source    *)
(* checkout its layout and revision.                                        *)
Resolve(i) ==
  LET revision == IF i.mode = "source" THEN SourceRevision(i.git) ELSE i.manifest IN
    IF ~i.intact \/ revision = 0 THEN Broken
    ELSE [mode |-> i.mode, artifactVerified |-> (i.mode = "agent-kit"),
          revision |-> revision, version |-> i.version]

----------------------------------------------------------------------------
(* The documents.  A path is <<style, name>>; the literals and the field    *)
(* set of a record are its `shape`, "exact" when they are the closed ones.  *)
PathFits(path, platform) ==
  path # None /\ path[1] = (IF platform = "win32" THEN "windows" ELSE "posix")

AllowedEnv == {<<"NO_COLOR", "1">>} \union {<<"USEFUL_LOG_LEVEL", l>> : l \in {"error", "warn", "info"}}
EnvAllowed(env) == \A e \in env : e \in AllowedEnv \/ e = <<"USEFUL_PROFILE", "named">>

Plan(target, scope, directory, launcher, env) ==
  [shape |-> "exact", target |-> target, scope |-> scope, directory |-> directory,
   node |-> <<launcher[1], "node">>, launcher |-> launcher, env |-> env]

PlanParses(plan, platform) ==
  /\ plan.shape = "exact"
  /\ \E i \in DOMAIN Targets : plan.target = Targets[i]
  /\ plan.scope \in {"user", "project"}
  /\ plan.scope = "project" => plan.target \notin FragmentTargets /\ PathFits(plan.directory, platform)
  /\ plan.scope = "user" => plan.directory = None
  /\ EnvAllowed(plan.env)
  /\ PathFits(plan.node, platform) /\ PathFits(plan.launcher, platform)

(* What the person is asked to run or to merge.                             *)
Render(plan) ==
  CASE plan.target = "codex" /\ plan.scope = "project" ->
         [kind |-> "toml fragment", at |-> plan.directory, server |-> <<plan.node, plan.launcher>>, env |-> plan.env]
    [] plan.target \in FragmentTargets ->
         [kind |-> "json fragment", server |-> <<plan.node, plan.launcher>>, env |-> plan.env]
    [] OTHER ->
         [kind |-> "command", argv |-> <<plan.target, IF plan.target = "codex" THEN None ELSE <<plan.scope>>,
                                         plan.env, plan.node, plan.launcher>>,
          at |-> IF plan.scope = "project" THEN plan.directory ELSE None]

BrowserRender(plan) ==
  IF plan.target \in FragmentTargets
  THEN [kind |-> "json fragment", server |-> <<plan.node, plan.launcher>>, env |-> {}]
  ELSE [kind |-> "command", argv |-> <<plan.target, IF plan.target = "codex" THEN None ELSE <<"user">>,
                                       {}, plan.node, plan.launcher>>, at |-> None]

Connection(plan) == [shape |-> "exact", platform |-> HostPlatform, plan |-> plan, output |-> Render(plan)]
ConnectionParses(c) ==
  /\ c.shape = "exact"
  /\ c.platform \in HostPlatforms
  /\ PlanParses(c.plan, c.platform)
  /\ c.output = Render(c.plan)

Endpoint(c, probe) ==
  [node |-> c.plan.node, launcher |-> c.plan.launcher, mode |-> probe.installation.mode,
   revision |-> probe.installation.revision, version |-> probe.installation.version]

ToolClosure == [count |-> 40, actions |-> 36, helpers |-> 4, names |-> "of the default tools"]
InstallationParses(i) ==
  i.mode \in {"source", "agent-kit"} /\ i.artifactVerified = (i.mode = "agent-kit")
  /\ i.revision \in Nat /\ i.version \in Nat
ProbeParses(p) ==
  /\ p.shape = "exact"
  /\ InstallationParses(p.installation)
  /\ p.proved /\ p.closed
  /\ p.stderr \in 0..StderrLimit
  /\ p.server \in Nat
  /\ p.tools.count = p.tools.actions + p.tools.helpers
BoundProbeParses(p) == ProbeParses(p) /\ p.tools = ToolClosure

VerificationParses(v) ==
  /\ v.shape = "exact" /\ v.claims = "exact"
  /\ ConnectionParses(v.connection)
  /\ BoundProbeParses(v.probe)
  /\ v.endpoint = Endpoint(v.connection, v.probe)
Verification(c, probe) ==
  [shape |-> "exact", claims |-> "exact", connection |-> c, probe |-> probe, endpoint |-> Endpoint(c, probe)]

MaxDepth == 64
MaxNodes == 4096
WithinBudget(set) == set.depth <= MaxDepth /\ set.nodes <= MaxNodes
SetParses(set) ==
  /\ WithinBudget(set)
  /\ set.shape = "exact" /\ set.claims = "exact"
  /\ Len(set.verifications) = Len(Targets)
  /\ \A i \in DOMAIN set.verifications :
       LET v == set.verifications[i] IN
         /\ VerificationParses(v)
         /\ v.connection.plan.target = Targets[i]
         /\ v.connection.plan.scope = "user"
         /\ v.connection.plan.env = {}
         /\ v.endpoint = set.verifications[1].endpoint
         /\ v.probe = set.verifications[1].probe

BrowserPlanParses(plan, platform, target) ==
  /\ plan.shape = "exact" /\ plan.directory = None
  /\ plan.target = target /\ plan.scope = "user" /\ plan.env = {}
  /\ PathFits(plan.launcher, platform) /\ PathFits(plan.node, platform)
BrowserConnectionParses(c, target) ==
  /\ c.shape = "exact"
  /\ c.platform \in HostPlatforms
  /\ BrowserPlanParses(c.plan, c.platform, target)
  /\ c.output = BrowserRender(c.plan)
BrowserProbeParses(p) ==
  /\ p.shape = "exact" /\ InstallationParses(p.installation) /\ p.server \in Nat
  /\ p.tools = ToolClosure
  /\ p.proved /\ p.closed /\ p.stderr \in 0..StderrLimit
BrowserVerificationParses(v, target) ==
  /\ v.shape = "exact" /\ v.claims = "exact"
  /\ BrowserConnectionParses(v.connection, target)
  /\ BrowserProbeParses(v.probe)
  /\ v.endpoint = Endpoint(v.connection, v.probe)
BrowserParses(set) ==
  /\ WithinBudget(set)
  /\ set.shape = "exact" /\ set.claims = "exact"
  /\ Len(set.verifications) = Len(Targets)
  /\ \A i \in DOMAIN Targets : BrowserVerificationParses(set.verifications[i], Targets[i])
  /\ \A i \in DOMAIN Targets :
       /\ set.verifications[i].endpoint = set.verifications[1].endpoint
       /\ set.verifications[i].probe = set.verifications[1].probe

VerificationSet(connections, probe) ==
  [shape |-> "exact", claims |-> "exact", depth |-> 10, nodes |-> 400,
   verifications |-> [i \in DOMAIN connections |-> Verification(connections[i], probe)]]

RunSetCase ==
  /\ setVerdict = "unread"
  /\ setVerdict' = IF SetParses(setCase) THEN "accepted" ELSE "refused"
  /\ UNCHANGED <<order, host, install, changes, verifier, session, due, setCase>>

----------------------------------------------------------------------------
(* The command.  A command's launcher is <<style, kind of file>>.           *)
FixedEntry == <<IF HostPlatform = "win32" THEN "windows" ELSE "posix", "entry">>
NewSession == [pc |-> "off", asked |-> 0, timedOut |-> FALSE, exceeded |-> FALSE, stderr |-> 0,
               clientClosed |-> FALSE, closeFailed |-> FALSE, alive |-> FALSE, code |-> "none"]

VerifyInit ==
  /\ order \in Orders /\ host \in Hosts
  /\ install \in Installs /\ changes = 0
  /\ verifier = [pc |-> "start", code |-> "none", initial |-> Broken, probed |-> Broken,
                 connections |-> <<>>, set |-> None]
  /\ session = NewSession /\ due = FALSE
  /\ setCase \in SetCases /\ setVerdict = "unread"

Fail(code) == verifier' = [verifier EXCEPT !.pc = "failed", !.code = code]
Unmoved == UNCHANGED <<order, host, install, changes, setCase, setVerdict>>

InputAccepted(o) == o.shape = "exact"
HasProfile(env) == \E e \in env : e[1] = "USEFUL_PROFILE"
IsFixedLauncher(path) == path = FixedEntry

(* prepare: the first resolution, the input, no profile, the fixed launcher.*)
Prepare ==
  /\ verifier.pc = "start"
  /\ CASE Resolve(install) = Broken -> Fail("resolution")
       [] ~InputAccepted(order) -> Fail("AGENT_VERIFY_INPUT_INVALID")
       [] HasProfile(order.env) -> Fail("AGENT_VERIFY_PROFILE_NOT_SUPPORTED")
       [] ~IsFixedLauncher(order.launcher) -> Fail("AGENT_VERIFY_LAUNCHER_MISMATCH")
       [] OTHER -> verifier' = [verifier EXCEPT !.pc = "prepared", !.initial = Resolve(install)]
  /\ UNCHANGED <<session, due>> /\ Unmoved

PlanOf(target) ==
  IF order.command = "verify-all" THEN Plan(target, "user", None, FixedEntry, {})
  ELSE Plan(target, order.scope, order.directory, FixedEntry, order.env)
DoctorAccepts(plan) ==
  /\ PlanParses(plan, HostPlatform)
  /\ host.nodeFile /\ host.nodeMajor >= 20
  /\ plan.scope = "project" => host.directory

(* buildCandidate for each target, before anything is started.              *)
Build ==
  LET targets == IF order.command = "verify-all" THEN Targets ELSE <<order.target>>
      plans == [i \in DOMAIN targets |-> PlanOf(targets[i])] IN
  /\ verifier.pc = "prepared"
  /\ IF \A i \in DOMAIN plans : DoctorAccepts(plans[i])
     THEN verifier' = [verifier EXCEPT !.pc = "built",
                         !.connections = [i \in DOMAIN plans |-> Connection(plans[i])]]
     ELSE Fail("AGENT_INTEGRATION_DOCTOR_FAILED")
  /\ UNCHANGED <<session, due>> /\ Unmoved

(* runAgentSelfProbe resolves again; the transport's constructor may fail   *)
(* (on Windows, SystemRoot), and then nothing was started.                  *)
StartProbe ==
  /\ verifier.pc = "built"
  /\ IF Resolve(install) = Broken THEN Fail("resolution") /\ UNCHANGED session
     ELSE /\ verifier' = [verifier EXCEPT !.pc = "probing", !.probed = Resolve(install)]
          /\ \/ session' = [session EXCEPT !.pc = "asking", !.asked = 1, !.alive = TRUE]
             \/ session' = [session EXCEPT !.pc = "settling", !.code = "SYSTEM_ROOT_INVALID"]
  /\ UNCHANGED due /\ Unmoved

Aborted == session.timedOut \/ session.exceeded
ErrorCode == IF session.timedOut THEN "AGENT_PROBE_TIMEOUT"
             ELSE IF session.exceeded THEN "AGENT_PROBE_STDERR_LIMIT_EXCEEDED" ELSE "MCP_PROBE_FAILED"
Stop(code) == session' = [session EXCEPT !.pc = "closing client", !.code = code]

(* An answer: as expected, not as expected, or an error.  Connecting does   *)
(* not heed the abort, which is why it is checked after it.                 *)
AnswerRight ==
  /\ session.pc = "asking" /\ (session.asked = 1 \/ ~Aborted)
  /\ IF session.asked = 1 /\ Aborted THEN Stop(ErrorCode)
     ELSE IF session.asked < Len(Proofs) THEN session' = [session EXCEPT !.asked = @ + 1]
     ELSE session' = [session EXCEPT !.pc = "closing client", !.asked = @ + 1]
  /\ UNCHANGED <<verifier, due>> /\ Unmoved
AnswerWrong ==
  /\ session.pc = "asking" /\ ~Aborted
  /\ Stop(Proofs[session.asked])
  /\ UNCHANGED <<verifier, due>> /\ Unmoved
AnswerError ==
  /\ session.pc = "asking"
  /\ Stop(ErrorCode)
  /\ UNCHANGED <<verifier, due>> /\ Unmoved

(* The request's own timer and the abort signal end a request.              *)
RequestEnds ==
  /\ session.pc = "asking" /\ (due \/ Aborted)
  /\ Stop(ErrorCode)
  /\ UNCHANGED <<verifier, due>> /\ Unmoved

SessionOpen == session.pc \in {"asking", "closing client", "closing transport"}
DeadlinePasses ==
  /\ SessionOpen /\ ~due /\ due' = TRUE
  /\ UNCHANGED <<verifier, session>> /\ Unmoved
TimerFires ==
  /\ SessionOpen /\ due /\ ~session.timedOut
  /\ session' = [session EXCEPT !.timedOut = TRUE]
  /\ UNCHANGED <<verifier, due>> /\ Unmoved
ServerLogs ==
  /\ SessionOpen /\ session.alive /\ session.stderr <= StderrLimit
  /\ \E n \in {StderrLimit, StderrLimit + 1} :
       /\ n > session.stderr
       /\ session' = [session EXCEPT !.stderr = n, !.exceeded = n > StderrLimit]
  /\ UNCHANGED <<verifier, due>> /\ Unmoved

(* boundedClose: closing confirms the end of the process, resolves without  *)
(* it, or fails, at the latest when the remaining time is over.             *)
CloseClient ==
  /\ session.pc = "closing client"
  /\ \E ended \in BOOLEAN :
       session' = [session EXCEPT !.pc = "settling", !.clientClosed = TRUE, !.alive = ~ended]
  /\ UNCHANGED <<verifier, due>> /\ Unmoved
CloseClientFails ==
  /\ session.pc = "closing client"
  /\ session' = [session EXCEPT !.pc = "closing transport", !.closeFailed = TRUE]
  /\ UNCHANGED <<verifier, due>> /\ Unmoved
CloseTransport ==
  /\ session.pc = "closing transport"
  /\ \E failed \in BOOLEAN, ended \in BOOLEAN :
       session' = [session EXCEPT !.pc = "settling", !.closeFailed = @ \/ failed, !.alive = ~ended]
  /\ UNCHANGED <<verifier, due>> /\ Unmoved

(* After the finally block: timer cleared, one code chosen.                 *)
PrimaryCode == IF session.code # "none" THEN session.code
               ELSE IF Aborted THEN ErrorCode ELSE "none"
(* Faulty variant: what went wrong before hides that closing failed.        *)
EarlierErrorWins == IF PrimaryCode # "none" THEN PrimaryCode
                    ELSE IF session.closeFailed \/ session.alive THEN "MCP_TRANSPORT_CLOSE_FAILED" ELSE "none"
SettleCode == IF session.closeFailed \/ session.alive THEN "MCP_TRANSPORT_CLOSE_FAILED" ELSE PrimaryCode
Settle ==
  /\ session.pc = "settling"
  /\ session' = [session EXCEPT !.pc = "ended"]
  /\ IF SettleCode = "none" THEN verifier' = [verifier EXCEPT !.pc = "probed"] ELSE Fail(SettleCode)
  /\ UNCHANGED due /\ Unmoved

ProbeResult ==
  [shape |-> "exact", installation |-> verifier.probed, server |-> 1, tools |-> ToolClosure,
   proved |-> TRUE, closed |-> TRUE, stderr |-> session.stderr]
Drifted(final) == verifier.initial # verifier.probed \/ verifier.initial # final

(* assertIdentity, then the documents: all of them or an error.             *)
Finish ==
  LET set == VerificationSet(verifier.connections, ProbeResult)
      accepted == IF order.command = "verify-all" THEN SetParses(set)
                  ELSE VerificationParses(set.verifications[1]) IN
  /\ verifier.pc = "probed"
  /\ CASE Resolve(install) = Broken -> Fail("resolution")
       [] Resolve(install) # Broken /\ Drifted(Resolve(install)) -> Fail("AGENT_VERIFY_INSTALLATION_DRIFT")
       [] OTHER -> IF accepted THEN verifier' = [verifier EXCEPT !.pc = "done", !.set = set]
                   ELSE Fail("document")
  /\ UNCHANGED <<session, due>> /\ Unmoved

(* The installation is updated, checked out anew or damaged meanwhile.  It  *)
(* is read by the three resolutions only: a change while the session is     *)
(* open is one made right before it ends.                                   *)
ChangeInstall ==
  /\ verifier.pc \notin {"done", "failed"} /\ changes < MaxInstallChanges
  /\ session.pc \in {"off", "ended"}
  /\ install' \in Installs \ {install}
  /\ changes' = changes + 1
  /\ UNCHANGED <<order, host, verifier, session, due, setCase, setVerdict>>

ProbeStep == AnswerRight \/ AnswerWrong \/ AnswerError \/ CloseClient \/ CloseClientFails \/ CloseTransport
OwnStep == Prepare \/ Build \/ StartProbe \/ Settle \/ Finish
VerifyNext == OwnStep \/ ProbeStep \/ RequestEnds \/ DeadlinePasses \/ TimerFires \/ ServerLogs \/ ChangeInstall

(* The process's own steps and its timers; nothing is asked of the server.  *)
VerifyFairness ==
  /\ WF_verifyVars(OwnStep)
  /\ WF_verifyVars(DeadlinePasses)
  /\ WF_verifyVars(RequestEnds)
  /\ WF_verifyVars(CloseClientFails)
  /\ WF_verifyVars(CloseTransport)

----------------------------------------------------------------------------
(* Documents come from one completed probe of one installation, over a      *)
(* closed transport, and from nothing else; both readers take them.         *)
Ready ==
  verifier.pc = "done" =>
    /\ session.asked = Len(Proofs) + 1 /\ ~Aborted /\ ~session.alive /\ ~session.closeFailed
    /\ verifier.initial = verifier.probed /\ Resolve(install) = verifier.probed
    /\ order.command = "verify-all" => BrowserParses(verifier.set)
    /\ \A i \in DOMAIN verifier.set.verifications :
         /\ verifier.set.verifications[i].endpoint.launcher = FixedEntry
         /\ ~HasProfile(verifier.set.verifications[i].connection.plan.env)
(* No document, and no server left without saying so; reasons are true.     *)
RefusalIsTrue ==
  verifier.pc = "failed" =>
    /\ verifier.set = None
    /\ session.alive => verifier.code = "MCP_TRANSPORT_CLOSE_FAILED"
    /\ verifier.code = "AGENT_PROBE_TIMEOUT" => session.timedOut
    /\ verifier.code = "AGENT_PROBE_STDERR_LIMIT_EXCEEDED" => session.exceeded
    /\ verifier.code = "AGENT_VERIFY_INSTALLATION_DRIFT" => changes > 0
    /\ verifier.code # "document"

(* The verification of an agent connection (agent-connection-verify.mjs,    *)
(* agent-probe.mjs): documents only from a complete, closed, timely probe   *)
(* of an unchanged installation; no server is left running unreported; the  *)
(* two parsers of a set agree; and the command always ends.                 *)
AgentVerifySafe ==
  /\ [](Ready /\ RefusalIsTrue /\ (setVerdict = "accepted" => BrowserParses(setCase))
        /\ (setVerdict = "refused" => ~BrowserParses(setCase)))
  /\ <>(verifier.pc \in {"done", "failed"})
============================================================================
