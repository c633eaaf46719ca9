----------------------------- MODULE UpdateTrust -----------------------------
(***************************************************************************)
(* The update root and the update manifests of `useful key` and `useful    *)
(* app-update`: a directory with a root.json (roles, keys, revoked keys,   *)
(* signatures) and the private key files beside it, and one manifest.      *)
(*                                                                         *)
(* A command works in memory, writes its private key files one at a time   *)
(* and root.json last, and may be killed before any of these writes.  A    *)
(* signature is the key and what was signed, so that it holds for nothing  *)
(* else.  The two commands that verify change nothing: they are operators, *)
(* and the properties ask what they would answer in every state.           *)
(***************************************************************************)
EXTENDS Integers, FiniteSets, Sequences

LOCAL INSTANCE SequencesExt

CONSTANTS
    RootCount,          \* how many root keys init-root makes
    MaxTrustKeys,       \* bound: keys ever made
    MaxTrustCommands,   \* bound: commands that change root.json
    MaxTrustKills,      \* bound: commands killed
    NoTrustRoot,        \* there is no root.json
    NoUpdate            \* there is no manifest

ASSUME TrustAssumption == RootCount \in Nat \ {0} /\ MaxTrustKeys \in Nat

Environments == {"test", "production"}
TrustRoles == {"root", "release"}

VARIABLES
    trustRoot,      \* root.json
    keyFiles,       \* the private key files: name -> key
    updateManifest, \* the manifest of the update
    trustCommand,   \* the command under way: key files and the root it has yet to write
    keysMade,       \* the environment each key was made for, in the order they were made
    trustRuns,      \* [commands, kills] so far
    keysTorn            \* init-root was killed over the files of another root

trustVars == <<trustRoot, keyFiles, updateManifest, trustCommand, keysMade, trustRuns, keysTorn>>

AtRest == [is |-> "none"]

TrustInit ==
    /\ trustRoot = NoTrustRoot
    /\ keyFiles = <<>>
    /\ updateManifest = NoUpdate
    /\ trustCommand = AtRest
    /\ keysMade = <<>>
    /\ trustRuns = [commands |-> 0, kills |-> 0]
    /\ keysTorn = FALSE

----------------------------------------------------------------------------
(* What a signature covers, and what it is worth.                           *)

RootSignedPortion(r) == [r EXCEPT !.signatures = <<>>]

(* A signature also binds the environment of the manifest as its domain.    *)
SigningDomain(m) == [domain |-> m.environment, payload |-> [m EXCEPT !.signatures = <<>>]]

(* Signing again replaces the signature of the same key.                    *)
(* Faulty variant: the signature is added to those already there.           *)
SignedTwice(object, k, portion) ==
    [object EXCEPT !.signatures = Append(@, [keyid |-> k, over |-> portion])]
SignedBy(object, k, portion) ==
    [object EXCEPT !.signatures = Append(SelectSeq(@, LAMBDA s : s.keyid # k), [keyid |-> k, over |-> portion])]

Valid(signatures, keys, roles, portion) ==
    {n \in DOMAIN signatures : /\ signatures[n].keyid \in DOMAIN keys
                               /\ keys[signatures[n].keyid] \in roles
                               /\ signatures[n].over = portion}

(* keyVerifyCeremony: what `key verify-ceremony` finds of a root.           *)
CeremonyPasses(r, production) ==
    LET valid == Valid(r.signatures, r.keys, TrustRoles, RootSignedPortion(r)) IN
    /\ production => r.environment = "production"
    /\ Cardinality(r.keyids["root"]) >= r.threshold
    /\ valid = DOMAIN r.signatures
    /\ Cardinality(valid) >= r.threshold

(* appUpdateVerify: what `app-update verify` finds of a manifest.           *)
(* Faulty variant: the revoked keys are not looked at.                      *)
VerifiesRevoked(m, r, production) ==
    LET valid == Valid(m.signatures, r.keys, {"release"}, SigningDomain(m)) IN
    /\ production => r.environment = "production" /\ m.environment = "production"
    /\ valid = DOMAIN m.signatures
    /\ Cardinality(valid) >= 1
UpdateVerifies(m, r, production) ==
    LET valid == Valid(m.signatures, r.keys, {"release"}, SigningDomain(m)) IN
    /\ production => r.environment = "production" /\ m.environment = "production"
    /\ \A n \in DOMAIN m.signatures : m.signatures[n].keyid \notin r.revoked
    /\ valid = DOMAIN m.signatures
    /\ Cardinality(valid) >= 1

----------------------------------------------------------------------------
(* The commands on the root.                                                *)

(* The keys of one command, in the order it makes them, and those on disk.  *)
Fresh(count) == [n \in 1..count |-> Len(keysMade) + n]
FreshKeys(count) == {Len(keysMade) + n : n \in 1..count}
KeysOnDisk == {keyFiles[f] : f \in DOMAIN keyFiles}

RootFile(version, n) == <<"root", version, n>>

Begin(what, environment, writes, root) ==
    /\ trustCommand = AtRest
    /\ trustRuns.commands < MaxTrustCommands
    /\ Len(keysMade) + Len(writes) <= MaxTrustKeys
    /\ trustRuns' = [trustRuns EXCEPT !.commands = @ + 1]
    /\ keysMade' = keysMade \o [n \in 1..Len(writes) |-> environment]
    /\ trustCommand' = [is |-> what, writes |-> writes, root |-> root]
    /\ UNCHANGED <<trustRoot, keyFiles, updateManifest, keysTorn>>

(* keyInitRoot makes a root whether or not there is one, and for production *)
(* only when the owner has acknowledged it; otherwise it leaves a checklist.*)
KeyInitRoot(environment, threshold, acknowledged) ==
    LET made == Fresh(RootCount + 1)
        release == made[RootCount + 1] IN
    /\ threshold \in 1..RootCount
    /\ environment = "production" => acknowledged
    /\ Begin("init-root", environment,
         [n \in 1..(RootCount + 1) |-> <<IF n <= RootCount THEN RootFile(1, n) ELSE <<"release">>, made[n]>>],
         [environment |-> environment, version |-> 1, threshold |-> threshold,
          keyids |-> [r \in TrustRoles |-> IF r = "root" THEN {made[n] : n \in 1..RootCount} ELSE {release}],
          keys |-> [k \in FreshKeys(RootCount + 1) |-> IF k = release THEN "release" ELSE "root"],
          revoked |-> {}, signatures |-> <<>>])

(* keyGenerateRole adds a key to a role; the signatures go.                 *)
(* Faulty variant: the signatures stay.                                     *)
WithRoleKeepSigned(r, role, k) ==
    [r EXCEPT !.keys = [x \in DOMAIN @ \union {k} |-> IF x = k THEN role ELSE @[x]],
              !.keyids[role] = @ \union {k}]
WithRole(r, role, k) ==
    [r EXCEPT !.keys = [x \in DOMAIN @ \union {k} |-> IF x = k THEN role ELSE @[x]],
              !.keyids[role] = @ \union {k}, !.signatures = <<>>]
KeyGenerateRole(role) ==
    LET k == Len(keysMade) + 1 IN
    /\ trustRoot # NoTrustRoot
    /\ Begin("generate-role", trustRoot.environment, << <<<<role, k>>, k>> >>, WithRole(trustRoot, role, k))

(* keySignRoot: only with the private key of a root role key.               *)
KeySignRoot(k) ==
    /\ trustRoot # NoTrustRoot
    /\ k \in KeysOnDisk \intersect trustRoot.keyids["root"]
    /\ Begin("sign-root", trustRoot.environment, <<>>, SignedBy(trustRoot, k, RootSignedPortion(trustRoot)))

(* keyRotateRoot: as many new root keys as there were; the old ones are     *)
(* revoked but remain among the keys.                                       *)
(* Faulty variant: the files have the names init-root gave them.            *)
RotatedFileSame(r, n) == RootFile(1, n)
RotatedFile(r, n) == RootFile(r.version + 1, n)
KeyRotateRoot ==
    /\ trustRoot # NoTrustRoot
    /\ LET r == trustRoot
           count == Cardinality(r.keyids["root"])
           made == Fresh(count) IN
       Begin("rotate-root", r.environment, [n \in DOMAIN made |-> <<RotatedFile(r, n), made[n]>>],
         [r EXCEPT !.keys = [x \in DOMAIN @ \union FreshKeys(count) |-> IF x \in FreshKeys(count) THEN "root" ELSE @[x]],
                   !.revoked = @ \union r.keyids["root"],
                   !.keyids["root"] = FreshKeys(count),
                   !.version = @ + 1, !.signatures = <<>>])

KeyRevoke(k) ==
    /\ trustRoot # NoTrustRoot
    /\ Begin("revoke", trustRoot.environment, <<>>,
         [trustRoot EXCEPT !.revoked = @ \union {k},
                           !.keyids = [r \in TrustRoles |-> @[r] \ {k}], !.signatures = <<>>])

(* writePrivateKey, then root.json as a whole.                              *)
WritePrivateKey ==
    /\ trustCommand # AtRest /\ trustCommand.writes # <<>>
    /\ LET w == Head(trustCommand.writes) IN
       keyFiles' = [x \in DOMAIN keyFiles \union {w[1]} |-> IF x = w[1] THEN w[2] ELSE keyFiles[x]]
    /\ trustCommand' = [trustCommand EXCEPT !.writes = Tail(@)]
    /\ UNCHANGED <<trustRoot, updateManifest, keysMade, trustRuns, keysTorn>>

WriteRoot ==
    /\ trustCommand # AtRest /\ trustCommand.writes = <<>>
    /\ trustRoot' = trustCommand.root
    /\ keysTorn' = (keysTorn /\ trustCommand.is # "init-root")
    /\ trustCommand' = AtRest
    /\ UNCHANGED <<keyFiles, updateManifest, keysMade, trustRuns>>

KillCommand ==
    /\ trustCommand # AtRest
    /\ trustRuns.kills < MaxTrustKills
    /\ trustRuns' = [trustRuns EXCEPT !.kills = @ + 1]
    /\ keysTorn' = (keysTorn \/ (trustCommand.is = "init-root" /\ trustRoot # NoTrustRoot))
    /\ trustCommand' = AtRest
    /\ UNCHANGED <<trustRoot, keyFiles, updateManifest, keysMade>>

----------------------------------------------------------------------------
(* The commands on the manifest: each writes the file once.                 *)

AppUpdateCreate(environment, artifact) ==
    /\ trustCommand = AtRest
    /\ updateManifest' = [environment |-> environment, artifact |-> artifact, signatures |-> <<>>]
    /\ UNCHANGED <<trustRoot, keyFiles, trustCommand, keysMade, trustRuns, keysTorn>>

AppUpdateSign(k) ==
    /\ trustCommand = AtRest
    /\ updateManifest # NoUpdate /\ trustRoot # NoTrustRoot
    /\ trustRoot.environment = updateManifest.environment
    /\ k \in KeysOnDisk \intersect trustRoot.keyids["release"]
    /\ updateManifest' = SignedBy(updateManifest, k, SigningDomain(updateManifest))
    /\ UNCHANGED <<trustRoot, keyFiles, trustCommand, keysMade, trustRuns, keysTorn>>

TrustNext ==
    \/ \E environment \in Environments, threshold \in 1..RootCount, acknowledged \in BOOLEAN :
          KeyInitRoot(environment, threshold, acknowledged)
    \/ \E role \in TrustRoles : KeyGenerateRole(role)
    \/ \E k \in 1..Len(keysMade) : KeySignRoot(k) \/ KeyRevoke(k) \/ AppUpdateSign(k)
    \/ KeyRotateRoot
    \/ WritePrivateKey \/ WriteRoot \/ KillCommand
    \/ \E environment \in Environments, artifact \in {1, 2} : AppUpdateCreate(environment, artifact)

TrustSpec == TrustInit /\ [][TrustNext]_trustVars

----------------------------------------------------------------------------
(* A root that `verify-ceremony` accepts is signed, as it now stands, by as *)
(* many different root keys as its threshold asks, none of them revoked,    *)
(* and the check for production takes no root of another environment.       *)
CeremonyHolds ==
    trustRoot # NoTrustRoot => \A production \in BOOLEAN : CeremonyPasses(trustRoot, production) =>
        LET signers == {s.keyid : s \in {x \in ToSet(trustRoot.signatures) : x.over = RootSignedPortion(trustRoot)}} IN
        /\ Cardinality(signers \intersect (trustRoot.keyids["root"] \ trustRoot.revoked)) >= trustRoot.threshold
        /\ production => \A k \in signers : keysMade[k] = "production"

(* No command leaves a signature over an older root behind: the holders of  *)
(* the root keys can always bring the root to its threshold again.          *)
NoStaleSignature ==
    trustRoot # NoTrustRoot =>
        \A s \in ToSet(trustRoot.signatures) :
            s.over = RootSignedPortion(trustRoot) /\ s.keyid \in trustRoot.keyids["root"]

(* A manifest that `app-update verify` accepts was signed as it now stands  *)
(* by a release key that is still one and was made for the environment of   *)
(* the manifest; a signature of the test domain never counts in production. *)
AcceptedUpdateIsSigned ==
    (trustRoot # NoTrustRoot /\ updateManifest # NoUpdate) =>
        \A production \in BOOLEAN : UpdateVerifies(updateManifest, trustRoot, production) =>
            \E s \in ToSet(updateManifest.signatures) :
                /\ s.over = SigningDomain(updateManifest)
                /\ s.keyid \in trustRoot.keyids["release"] \ trustRoot.revoked
                /\ keysMade[s.keyid] = (IF production THEN "production" ELSE updateManifest.environment)

(* Whatever command is killed, the private key of every key that has a role *)
(* is on disk, except after init-root over another root was killed.         *)
KeysAtHand ==
    (trustRoot # NoTrustRoot /\ ~keysTorn /\ trustCommand = AtRest) =>
        \A role \in TrustRoles : trustRoot.keyids[role] \subseteq KeysOnDisk

(* The signatures of the update root and of the updates say what they seem  *)
(* to say, and the keys that must sign the next root are not lost.          *)
UpdateTrustRight == CeremonyHolds /\ NoStaleSignature /\ AcceptedUpdateIsSigned /\ KeysAtHand
=============================================================================
