--------------------------- MODULE PublicSource ---------------------------
(***************************************************************************)
(* Publishing the source tree: scripts/prepare-public-source.mjs generates *)
(* a snapshot of a clean commit under a transaction marker, the owner      *)
(* commits the snapshot as a new repository, and verify-public-commit.mjs  *)
(* compares that commit with the receipt and the marker.  Generators may   *)
(* run at the same time on the same three paths, may be killed, and other  *)
(* programs may commit, edit files in place, and replace or remove what is *)
(* at a path.  An object is what stands at a path; its id is its device    *)
(* and inode.                                                              *)
(***************************************************************************)
EXTENDS Integers, FiniteSets, FiniteSetsExt

CONSTANTS Generators,
          Tree,           \* commit -> the files the policy includes
          MaxMeddling,    \* bounds: what other programs do,
          MaxPublic,      \*   commits in the snapshot,
          NoObject        \* what a path holds that nothing is at

Nobody == "other"

ASSUME PublicSourceBounds ==
    /\ MaxMeddling \in Nat /\ MaxPublic \in Nat /\ 1 \in DOMAIN Tree
    /\ Nobody \notin Generators

VARIABLES
    repo,       \* the private repository: HEAD and whether it is dirty
    at,         \* "output", "receipt", "marker" -> object
    gen,        \* generator -> how far it is and what it made
    ids, meddled,
    verified    \* what verify-public-commit last said, with what it looked at

publicVars == <<repo, at, gen, ids, meddled, verified>>

New(by, data) == [id |-> ids + 1, by |-> by, data |-> data]
Is(p, id) == at[p] # NoObject /\ at[p].id = id
Contents(c) == {<<f, c>> : f \in Tree[c]}

PublicInit ==
    /\ repo = [commit |-> 1, dirty |-> FALSE]
    /\ at = [p \in {"output", "receipt", "marker"} |-> NoObject]
    /\ gen = [g \in Generators |-> [pc |-> "new"]]
    /\ ids = 0 /\ meddled = 0
    /\ verified = "never"

Goes(g, pc) == gen' = [gen EXCEPT ![g].pc = pc]
Fails(g) == Goes(g, "failing") /\ UNCHANGED <<at, ids>>
Others == <<repo, meddled, verified>>

(* The checks every step of a generator starts with.                        *)
MarkerOwned(g) == Is("marker", gen[g].marker)
OutputOwned(g) == Is("output", gen[g].output)
ReceiptOwned(g) == Is("receipt", gen[g].receipt)
SourceStable(g) == ~repo.dirty /\ repo.commit = gen[g].commit

Preflight(g) ==
    /\ gen[g].pc = "new"
    /\ IF (\E p \in DOMAIN at : at[p] # NoObject) \/ repo.dirty
       THEN gen' = [gen EXCEPT ![g].pc = "failed"]
       ELSE gen' = [gen EXCEPT ![g] = [pc |-> "inspected", commit |-> repo.commit, todo |-> Tree[repo.commit],
                                       marker |-> 0, output |-> 0, receipt |-> 0]]
    /\ UNCHANGED <<at, ids, Others>>

Made(w, p, pc) == [pc |-> pc, commit |-> w.commit, todo |-> w.todo,
                   marker |-> IF p = "marker" THEN ids + 1 ELSE w.marker,
                   output |-> IF p = "output" THEN ids + 1 ELSE w.output,
                   receipt |-> IF p = "receipt" THEN ids + 1 ELSE w.receipt]
Creates(g, p, data, pc) ==
    /\ at' = [at EXCEPT ![p] = New(g, data)]
    /\ ids' = ids + 1
    /\ gen' = [gen EXCEPT ![g] = Made(@, p, pc)]

(* Every object is created exclusively: what is there already is a failure. *)
StartTransaction(g) ==
    /\ gen[g].pc = "inspected"
    /\ IF at["marker"] # NoObject THEN Goes(g, "failed") /\ UNCHANGED <<at, ids>>
       ELSE Creates(g, "marker", [phase |-> "incomplete"], "marked")
    /\ UNCHANGED Others

ReserveOutput(g) ==
    /\ gen[g].pc = "marked"
    /\ IF ~MarkerOwned(g) \/ at["output"] # NoObject THEN Fails(g)
       ELSE Creates(g, "output", [files |-> {}, commits |-> 0, committed |-> {}], "copying")
    /\ UNCHANGED Others

(* The bytes come from the Git object, never from the checkout.             *)
CopyGitEntry(g) ==
    /\ gen[g].pc = "copying" /\ gen[g].todo # {}
    /\ LET f == Min(gen[g].todo) IN
       IF ~OutputOwned(g) \/ ~MarkerOwned(g) \/ (\E e \in at["output"].data.files : e[1] = f)
       THEN Fails(g)
       ELSE /\ at' = [at EXCEPT !["output"].data.files = @ \union {<<f, gen[g].commit>>}]
            /\ gen' = [gen EXCEPT ![g].todo = @ \ {f}]
            /\ UNCHANGED ids
    /\ UNCHANGED Others

ValidateSnapshot(g) ==
    /\ gen[g].pc = "copying" /\ gen[g].todo = {}
    /\ IF OutputOwned(g) /\ MarkerOwned(g) /\ SourceStable(g)
          /\ at["output"].data.files = Contents(gen[g].commit)
       THEN Goes(g, "validated") /\ UNCHANGED <<at, ids>>
       ELSE Fails(g)
    /\ UNCHANGED Others

WriteReceipt(g) ==
    /\ gen[g].pc = "validated"
    /\ IF at["receipt"] # NoObject THEN Fails(g)
       ELSE Creates(g, "receipt", [commit |-> gen[g].commit, files |-> Contents(gen[g].commit)], "receipted")
    /\ UNCHANGED Others

AllOwned(g) == OutputOwned(g) /\ ReceiptOwned(g) /\ MarkerOwned(g) /\ SourceStable(g)

(* The marker is rewritten in place, through a handle that is still it.     *)
CompleteMarker(g) ==
    /\ gen[g].pc = "receipted"
    /\ IF ~AllOwned(g) THEN Fails(g)
       ELSE /\ at' = [at EXCEPT !["marker"].data =
                        [phase |-> "complete", commit |-> gen[g].commit,
                         output |-> gen[g].output, receipt |-> gen[g].receipt, marker |-> gen[g].marker]]
            /\ Goes(g, "completed") /\ UNCHANGED ids
    /\ UNCHANGED Others

Confirm(g) ==
    /\ gen[g].pc = "completed"
    /\ IF AllOwned(g) THEN Goes(g, "ok") /\ UNCHANGED <<at, ids>> ELSE Fails(g)
    /\ UNCHANGED Others

(* Faulty variant: a marker that is already complete is left as it is.      *)
IncompleteOnlyIfOpen(g) ==
    at' = IF MarkerOwned(g) /\ at["marker"].data.phase # "complete"
          THEN [at EXCEPT !["marker"].data = [phase |-> "incomplete"]] ELSE at
Incomplete(g) ==
    at' = IF MarkerOwned(g) THEN [at EXCEPT !["marker"].data = [phase |-> "incomplete"]] ELSE at
MarkIncomplete(g) ==
    /\ gen[g].pc = "failing"
    /\ Incomplete(g)
    /\ Goes(g, "failed")
    /\ UNCHANGED <<ids, Others>>

KillGenerator(g) ==
    /\ gen[g].pc \notin {"new", "ok", "failed", "killed"}
    /\ Goes(g, "killed")
    /\ UNCHANGED <<at, ids, Others>>

----------------------------------------------------------------------------
(* What other programs do.                                                  *)
Meddles == meddled < MaxMeddling /\ meddled' = meddled + 1

CommitSource ==
    /\ Meddles /\ repo.commit + 1 \in DOMAIN Tree
    /\ repo' = [commit |-> repo.commit + 1, dirty |-> FALSE]
    /\ UNCHANGED <<at, gen, ids, verified>>
TouchSource ==
    /\ Meddles
    /\ repo' = [repo EXCEPT !.dirty = ~@]
    /\ UNCHANGED <<at, gen, ids, verified>>
Remove(p) ==
    /\ Meddles /\ at[p] # NoObject
    /\ at' = [at EXCEPT ![p] = NoObject]
    /\ UNCHANGED <<repo, gen, ids, verified>>
Replace(p) ==
    /\ Meddles
    /\ at' = [at EXCEPT ![p] = New(Nobody, IF at[p] = NoObject THEN [phase |-> "complete"] ELSE at[p].data)]
    /\ ids' = ids + 1
    /\ UNCHANGED <<repo, gen, verified>>
EditFile ==
    /\ Meddles /\ at["output"] # NoObject /\ at["output"].by # Nobody
    /\ \E e \in at["output"].data.files :
           at' = [at EXCEPT !["output"].data.files = (@ \ {e}) \union {<<e[1], 0>>}]
    /\ UNCHANGED <<repo, gen, ids, verified>>

(* The owner commits the snapshot where it was generated.                   *)
CommitPublic ==
    /\ at["output"] # NoObject /\ at["output"].by # Nobody
    /\ at["output"].data.commits < MaxPublic
    /\ at' = [at EXCEPT !["output"].data = [files |-> @.files, commits |-> @.commits + 1,
                                            committed |-> @.files]]
    /\ UNCHANGED <<repo, gen, ids, meddled, verified>>

(* verifyPublicCommit: receipt, marker and its identities, one clean root   *)
(* commit, and exactly the files of the receipt.                            *)
IdentitiesMatch(m) ==
    /\ m.output = at["output"].id /\ m.receipt = at["receipt"].id /\ m.marker = at["marker"].id
    /\ m.commit = at["receipt"].data.commit
PublicCommitAccepted ==
    /\ \A p \in DOMAIN at : at[p] # NoObject
    /\ at["receipt"].by # Nobody /\ at["output"].by # Nobody /\ at["marker"].by # Nobody
    /\ at["marker"].data.phase = "complete" /\ IdentitiesMatch(at["marker"].data)
    /\ at["output"].data.commits = 1
    /\ at["output"].data.committed = at["output"].data.files
    /\ at["output"].data.committed = at["receipt"].data.files
Verify ==
    /\ at["output"] # NoObject /\ at["output"].by # Nobody /\ at["output"].data.commits > 0
    /\ verified' = IF PublicCommitAccepted THEN "ok" ELSE "refused"
    /\ UNCHANGED <<repo, at, gen, ids, meddled>>

PublicNext ==
    \/ \E g \in Generators :
           \/ Preflight(g) \/ StartTransaction(g) \/ ReserveOutput(g) \/ CopyGitEntry(g)
           \/ ValidateSnapshot(g) \/ WriteReceipt(g) \/ CompleteMarker(g) \/ Confirm(g)
           \/ MarkIncomplete(g) \/ KillGenerator(g)
    \/ CommitSource \/ TouchSource \/ EditFile \/ CommitPublic \/ Verify
    \/ \E p \in DOMAIN at : Remove(p) \/ Replace(p)

PublicSafetySpec == PublicInit /\ [][PublicNext]_publicVars

----------------------------------------------------------------------------
(* A generator wrote in no object but its own, and with its own commit's    *)
(* bytes, so two of them never mix.                                         *)
NoMixture ==
    at["output"] # NoObject /\ at["output"].by # Nobody =>
        \A e \in at["output"].data.files : e[2] \in {0, gen[at["output"].by].commit}

(* A complete marker whose identities still match stands over a whole       *)
(* snapshot of one commit, even when its generator was killed; only an edit *)
(* in place can have changed it since.                                      *)
CompleteMeansWhole ==
    LET m == at["marker"] IN
    m # NoObject /\ m.by # Nobody /\ m.data.phase = "complete"
    /\ Is("output", m.data.output) /\ Is("receipt", m.data.receipt) =>
        /\ at["receipt"].data.files = Contents(m.data.commit)
        /\ {e[1] : e \in at["output"].data.files} = Tree[m.data.commit]
        /\ (\A e \in at["output"].data.files : e[2] # 0) =>
               at["output"].data.files = Contents(m.data.commit)

(* A generator that reported a failure left no marker of its own that says  *)
(* complete.                                                                *)
FailureIsMarked ==
    \A g \in Generators : gen[g].pc = "failed" /\ at["marker"] # NoObject /\ at["marker"].by = g
                              => at["marker"].data.phase = "incomplete"

PublicInv == NoMixture /\ CompleteMeansWhole /\ FailureIsMarked

(* What verification accepts is the one root commit of a whole snapshot of  *)
(* one private commit.                                                      *)
VerifiedIsTheTree ==
    [][verified' = "ok" /\ verified # "ok" =>
           \E c \in DOMAIN Tree : at["output"].data.committed = Contents(c)
                                  /\ at["output"].data.commits = 1]_publicVars

(* At most one of the generators that found the paths free succeeds while   *)
(* nobody else removes anything.                                            *)
OneSucceeds == meddled = 0 => Cardinality({g \in Generators : gen[g].pc = "ok"}) <= 1

PublicSourceSafe == [](PublicInv /\ OneSucceeds) /\ VerifiedIsTheTree
===========================================================================
