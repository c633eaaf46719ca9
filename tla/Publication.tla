---------------------------- MODULE Publication ----------------------------
(***************************************************************************)
(* Publication pipeline of the source server                               *)
(* (services/internal/publishers/service.go): a staged artifact is         *)
(* scanned, approved or rejected, listed in signed TUF metadata, and       *)
(* possibly withdrawn.  Several server and worker processes run these      *)
(* operations at once over one database, one object store and one publish  *)
(* lease; any of them may fail at a step, crash and boot again.            *)
(*                                                                         *)
(* An artifact enters this module as CreateRelease leaves it: a row with   *)
(* status "staged", a session, and the uploaded object under staging/.     *)
(***************************************************************************)
EXTENDS Naturals, FiniteSets

CONSTANTS
    Procs,          \* server and worker processes
    Arts,           \* artifact rows
    Failing,        \* artifacts whose package the scan refuses
    Native,         \* artifacts the scan finds to be native workers
    Legacy,         \* rows published before publisher proofs were recorded
    AutoApprove,    \* Service.AutoApprove (development mode)
    Foreign,        \* metadata versions already taken by other content
    Stray,          \* that content: no set of artifacts
    Candidates,     \* what the Unix clock may propose as a version
    MaxAttempts,    \* maxMetadataVersionAttempts
    None,           \* no process, no artifact
    LeaseMayDrop,   \* the lease's database session may be lost under its holder
    MaxOps,         \* bound: operations started
    MaxCrashes,     \* bound: process crashes
    MaxFaults       \* bound: store or database calls that return an error

ASSUME PublicationAssumption ==
    /\ Failing \subseteq Arts /\ Native \subseteq Arts /\ Legacy \subseteq Arts
    /\ AutoApprove \in BOOLEAN /\ LeaseMayDrop \in BOOLEAN
    /\ Foreign \subseteq Nat \ {0, 1}
    /\ Candidates \subseteq Nat \ {0} /\ Candidates # {}
    /\ \A content \in SUBSET Arts : content # Stray
    /\ None \notin Procs \cup Arts
    /\ MaxAttempts \in Nat \ {0}
    /\ MaxOps \in Nat /\ MaxCrashes \in Nat /\ MaxFaults \in Nat

VARIABLES
    status,       \* artifacts.status
    reviewed,     \* artifacts.official_review_passed
    lastVersion,  \* tuf_metadata_state.last_version
    lease,        \* holder of the metadata publish lease
    staging,      \* artifacts whose staging object exists
    blobs,        \* artifacts whose published object exists
    targetsAt,    \* metadata/<v>.targets.json: version -> artifacts listed
    snapshotAt,   \* metadata/<v>.snapshot.json: version -> targets it hashes
    timestamp,    \* metadata/timestamp.json
    pc,           \* per process: position in the operation it runs
    my,           \* per process: that operation's local variables
    ops, crashes, faults

dbVars == <<status, reviewed, lastVersion>>
metadataVars == <<targetsAt, snapshotAt, timestamp>>
storeVars == <<staging, blobs, metadataVars>>
bounds == <<ops, crashes, faults>>
vars == <<dbVars, lease, storeVars, pc, my, bounds>>

Statuses == {"staged", "scanned", "publish-pending", "published",
             "withdraw-pending", "withdrawn", "rejected"}

\* Positions held under the lease, and all others.
Leased == {"decide", "copy", "intend", "retire", "listPublished", "listPublishing",
           "listRetiring", "version", "putTargets", "putSnapshot", "putTimestamp",
           "finish", "confirm"}
PCs == Leased \cup {"idle", "scanning", "dropStaging", "acquire", "down"}

\* Faulty variant: a release already published may still be rejected.
CanTransitionTooMuch(from, to) ==
    \/ from = to
    \/ from = "staged" /\ to \in {"scanned", "rejected"}
    \/ from \in {"scanned", "published"} /\ to \in {"publish-pending", "rejected"}
    \/ from = "publish-pending" /\ to = "published"
    \/ from = "published" /\ to = "withdraw-pending"
    \/ from = "withdraw-pending" /\ to = "withdrawn"

CanTransitionArtifactStatus(from, to) ==
    \/ from = to
    \/ from = "staged" /\ to \in {"scanned", "rejected"}
    \/ from = "scanned" /\ to \in {"publish-pending", "rejected"}
    \/ from = "publish-pending" /\ to = "published"
    \/ from = "published" /\ to = "withdraw-pending"
    \/ from = "withdraw-pending" /\ to = "withdrawn"

WithStatus(s) == {a \in Arts : status[a] = s}
Listed == timestamp.targets

\* The locals of a process: operation, artifact in hand, artifacts read for the
\* new targets, intents left to finalize, allocated version, attempts made.
LocalVars == [op : {"none", "scan", "reject", "approve", "withdraw", "boot"},
              art : Arts \cup {None}, want : SUBSET Arts, publishing : SUBSET Arts,
              retiring : SUBSET Arts, ver : Nat, tries : Nat]
Locals(o, a) == [op |-> o, art |-> a, want |-> {}, publishing |-> {}, retiring |-> {},
                 ver |-> 0, tries |-> 0]

Init ==
    /\ status = [a \in Arts |-> IF a \in Legacy THEN "published" ELSE "staged"]
    /\ reviewed = [a \in Arts |-> a \in Legacy]
    /\ lastVersion = 1
    /\ lease = None
    /\ staging = Arts \ Legacy
    /\ blobs = Legacy
    /\ targetsAt = [v \in Foreign \cup {1} |-> IF v = 1 THEN Legacy ELSE Stray]
    /\ snapshotAt = targetsAt
    /\ timestamp = [ver |-> 1, targets |-> Legacy]
    /\ pc = [p \in Procs |-> "idle"]
    /\ my = [p \in Procs |-> Locals("none", None)]
    /\ ops = 0 /\ crashes = 0 /\ faults = 0

Goto(p, there) == pc' = [pc EXCEPT ![p] = there]
Step(p, here, there) == pc[p] = here /\ Goto(p, there)
Keep(p, locals) == my' = [my EXCEPT ![p] = locals]
SetStatus(a, s) == status' = [status EXCEPT ![a] = s]

\* A process begins operation o on artifact a.
Begin(p, o, a, there) ==
    /\ Step(p, "idle", there)
    /\ Keep(p, Locals(o, a))
    /\ ops < MaxOps /\ ops' = ops + 1
    /\ UNCHANGED <<crashes, faults>>

\* The operation returns, and its deferred lease.Release has run.  A process whose
\* boot-time reconciliation failed does not start.
Release(p) == lease' = IF lease = p THEN None ELSE lease
Leave(p, there) ==
    /\ Goto(p, there)
    /\ Keep(p, Locals("none", None))
Abort(p) == Release(p) /\ Leave(p, IF my[p].op = "boot" THEN "down" ELSE "idle")
GoOn(p, there) == Goto(p, there) /\ UNCHANGED <<lease, my>>

\* --------------------------------------------------------- faulty variants
\* Each is an operation below with a plausible mistake.  They are not part of Next;
\* a property of this module is only worth stating if one of them breaks it.

ScanPassesAnything(p) ==
    LET a == my[p].art IN
    /\ pc[p] = "scanning" /\ a \in staging
    /\ SetStatus(a, "scanned")
    /\ Goto(p, "acquire") /\ Keep(p, Locals("approve", a))
    /\ UNCHANGED <<reviewed, lastVersion, lease, storeVars, bounds>>

RejectForgetsStatus(p, a) ==
    /\ Begin(p, "reject", a, "dropStaging")
    /\ UNCHANGED <<dbVars, lease, storeVars>>

AcquireShared(p) ==
    /\ lease' = p
    /\ Step(p, "acquire", IF my[p].op = "boot" THEN "listPublished" ELSE "decide")
    /\ UNCHANGED <<dbVars, storeVars, my, bounds>>

CopyNothing(p) ==
    /\ pc[p] = "copy" /\ GoOn(p, "intend")
    /\ UNCHANGED <<dbVars, storeVars, bounds>>

ListPublishingOnly(p) ==
    /\ Step(p, "listPublishing", "listRetiring")
    /\ Keep(p, [my[p] EXCEPT !.publishing = WithStatus("publish-pending")])
    /\ UNCHANGED <<dbVars, lease, storeVars, bounds>>

NextVersionByClock(p) ==
    /\ pc[p] = "version" /\ lease = p
    /\ \E candidate \in Candidates :
          /\ lastVersion' = candidate
          /\ Keep(p, [my[p] EXCEPT !.ver = candidate])
    /\ Goto(p, "putTargets")
    /\ UNCHANGED <<status, reviewed, lease, storeVars, bounds>>

PutNoSnapshot(p) ==
    /\ pc[p] = "putSnapshot" /\ GoOn(p, "putTimestamp")
    /\ UNCHANGED <<dbVars, storeVars, bounds>>

FinishKeepingLease(p) ==
    /\ pc[p] = "finish" /\ my[p].publishing = {} /\ my[p].retiring = {}
    /\ Leave(p, "idle")
    /\ UNCHANGED <<dbVars, lease, storeVars, bounds>>

BootWithoutReconciling(p) ==
    /\ Step(p, "down", "idle")
    /\ UNCHANGED <<dbVars, lease, storeVars, my, bounds>>

\* ------------------------------------------------------------ scan, reject

StartScan(p, a) ==
    /\ status[a] = "staged"
    /\ Begin(p, "scan", a, "scanning")
    /\ UNCHANGED <<dbVars, lease, storeVars>>

\* The whole-row Update takes the new status only when the current one permits it.
ScanPasses(p) ==
    LET a == my[p].art IN
    /\ pc[p] = "scanning" /\ a \in staging /\ a \notin Failing
    /\ IF CanTransitionArtifactStatus(status[a], "scanned")
       THEN /\ SetStatus(a, "scanned")
            /\ IF AutoApprove /\ a \notin Native
               THEN Goto(p, "acquire") /\ Keep(p, Locals("approve", a))
               ELSE Leave(p, "idle")
       ELSE Leave(p, "idle") /\ UNCHANGED status
    /\ UNCHANGED <<reviewed, lastVersion, lease, storeVars, bounds>>

\* A refused package: the error of the Update is dropped, and the staging object
\* goes whether or not the row became "rejected".
ScanRefuses(p) ==
    LET a == my[p].art IN
    /\ pc[p] = "scanning" /\ a \in staging /\ a \in Failing
    /\ \/ /\ CanTransitionArtifactStatus(status[a], "rejected")
          /\ SetStatus(a, "rejected") /\ UNCHANGED faults
       \/ /\ ~CanTransitionArtifactStatus(status[a], "rejected")
          /\ UNCHANGED <<status, faults>>
       \/ /\ faults < MaxFaults
          /\ faults' = faults + 1 /\ UNCHANGED status
    /\ GoOn(p, "dropStaging")
    /\ UNCHANGED <<reviewed, lastVersion, storeVars, ops, crashes>>

\* No staging object: scanPackage returns an error.
ScanFindsNothing(p) ==
    /\ pc[p] = "scanning" /\ my[p].art \notin staging
    /\ Leave(p, "idle")
    /\ UNCHANGED <<dbVars, lease, storeVars, bounds>>

Reject(p, a) ==
    /\ CanTransitionArtifactStatus(status[a], "rejected")
    /\ SetStatus(a, "rejected")
    /\ Begin(p, "reject", a, "dropStaging")
    /\ UNCHANGED <<reviewed, lastVersion, lease, storeVars>>

DropStaging(p) ==
    /\ pc[p] = "dropStaging"
    /\ staging' = staging \ {my[p].art}
    /\ Leave(p, "idle")
    /\ UNCHANGED <<dbVars, lease, blobs, metadataVars, bounds>>

\* ------------------------------------------- operations under the lease

Approve(p, a) ==
    /\ Begin(p, "approve", a, "acquire")
    /\ UNCHANGED <<dbVars, lease, storeVars>>

Withdraw(p, a) ==
    /\ Begin(p, "withdraw", a, "acquire")
    /\ UNCHANGED <<dbVars, lease, storeVars>>

Acquire(p) ==
    /\ lease = None
    /\ lease' = p
    /\ Step(p, "acquire", IF my[p].op = "boot" THEN "listPublished" ELSE "decide")
    /\ UNCHANGED <<dbVars, storeVars, my, bounds>>

\* Approve's switch on the status it reads, with the publisher proof of the row.
DecideApprove(p) ==
    LET a == my[p].art IN
    /\ pc[p] = "decide" /\ my[p].op = "approve"
    /\ \/ status[a] = "scanned" /\ a \notin Legacy /\ GoOn(p, "copy")
       \/ status[a] = "publish-pending" /\ a \notin Legacy /\ GoOn(p, "listPublished")
       \/ status[a] \notin {"scanned", "publish-pending"} /\ Abort(p)
       \/ a \in Legacy /\ Abort(p)
    /\ UNCHANGED <<dbVars, storeVars, bounds>>

DecideWithdraw(p) ==
    LET a == my[p].art IN
    /\ pc[p] = "decide" /\ my[p].op = "withdraw"
    /\ \/ status[a] = "published" /\ GoOn(p, "retire")
       \/ status[a] = "withdraw-pending" /\ GoOn(p, "listPublished")
       \/ status[a] \notin {"published", "withdraw-pending"} /\ Abort(p)
    /\ UNCHANGED <<dbVars, storeVars, bounds>>

CopyToPublished(p) ==
    LET a == my[p].art IN
    /\ pc[p] = "copy"
    /\ \/ a \in staging /\ blobs' = blobs \cup {a} /\ GoOn(p, "intend")
       \/ a \notin staging /\ Abort(p) /\ UNCHANGED blobs
    /\ UNCHANGED <<dbVars, staging, metadataVars, bounds>>

\* The durable publish intent: the row read as "scanned" is written back with
\* the review flag, unless it was rejected in between.
PersistPublishIntent(p) ==
    LET a == my[p].art IN
    /\ pc[p] = "intend"
    /\ IF CanTransitionArtifactStatus(status[a], "publish-pending")
       THEN /\ SetStatus(a, "publish-pending")
            /\ reviewed' = [reviewed EXCEPT ![a] = TRUE]
            /\ GoOn(p, "listPublished")
       ELSE Abort(p) /\ UNCHANGED <<status, reviewed>>
    /\ UNCHANGED <<lastVersion, storeVars, bounds>>

PersistWithdrawIntent(p) ==
    LET a == my[p].art IN
    /\ pc[p] = "retire"
    /\ IF CanTransitionArtifactStatus(status[a], "withdraw-pending")
       THEN SetStatus(a, "withdraw-pending") /\ GoOn(p, "listPublished")
       ELSE Abort(p) /\ UNCHANGED status
    /\ UNCHANGED <<reviewed, lastVersion, storeVars, bounds>>

\* --------------------------------------------------- publishMetadataLocked

ListPublished(p) ==
    /\ Step(p, "listPublished", "listPublishing")
    /\ Keep(p, [my[p] EXCEPT !.want = WithStatus("published")])
    /\ UNCHANGED <<dbVars, lease, storeVars, bounds>>

ListPublishing(p) ==
    /\ Step(p, "listPublishing", "listRetiring")
    /\ Keep(p, [my[p] EXCEPT !.publishing = WithStatus("publish-pending"),
                             !.want = @ \cup WithStatus("publish-pending")])
    /\ UNCHANGED <<dbVars, lease, storeVars, bounds>>

\* The last read, then the publisher proof of every artifact to list.
ListRetiring(p) ==
    /\ pc[p] = "listRetiring"
    /\ IF my[p].want \cap Legacy = {}
       THEN /\ Goto(p, "version") /\ UNCHANGED lease
            /\ Keep(p, [my[p] EXCEPT !.retiring = WithStatus("withdraw-pending")])
       ELSE Abort(p)
    /\ UNCHANGED <<dbVars, storeVars, bounds>>

\* MetadataPublishLease.NextVersion, on the lease's own connection: the clock's
\* candidate or the successor of the last version, whichever is larger.  On a
\* retry the candidate, read once, is no larger than the last version.
NextVersion(p) ==
    /\ pc[p] = "version"
    /\ IF lease = p
       THEN \E candidate \in Candidates :
              LET next == IF my[p].tries = 0 /\ candidate > lastVersion
                          THEN candidate ELSE lastVersion + 1
              IN  /\ lastVersion' = next
                  /\ Keep(p, [my[p] EXCEPT !.ver = next])
                  /\ Goto(p, "putTargets") /\ UNCHANGED lease
       ELSE Abort(p) /\ UNCHANGED lastVersion
    /\ UNCHANGED <<status, reviewed, storeVars, bounds>>

\* Store.PutIfAbsentOrSame of metadata/<v>.<role>.json: the object is created, or
\* was there with the same content; anything else is a conflict.
Free(objects, v, content) == v \in DOMAIN objects => objects[v] = content
Added(objects, v, content) ==
    [x \in DOMAIN objects \cup {v} |-> IF x = v THEN content ELSE objects[x]]

\* ErrObjectConflict: try the next version, or give up after MaxAttempts.
Conflict(p) ==
    IF my[p].tries + 1 < MaxAttempts
    THEN /\ Goto(p, "version") /\ UNCHANGED lease
         /\ Keep(p, [my[p] EXCEPT !.tries = @ + 1])
    ELSE Abort(p)

PutTargets(p) ==
    /\ pc[p] = "putTargets"
    /\ IF Free(targetsAt, my[p].ver, my[p].want)
       THEN /\ targetsAt' = Added(targetsAt, my[p].ver, my[p].want)
            /\ GoOn(p, "putSnapshot")
       ELSE Conflict(p) /\ UNCHANGED targetsAt
    /\ UNCHANGED <<dbVars, staging, blobs, snapshotAt, timestamp, bounds>>

PutSnapshot(p) ==
    /\ pc[p] = "putSnapshot"
    /\ IF Free(snapshotAt, my[p].ver, my[p].want)
       THEN /\ snapshotAt' = Added(snapshotAt, my[p].ver, my[p].want)
            /\ GoOn(p, "putTimestamp")
       ELSE Conflict(p) /\ UNCHANGED snapshotAt
    /\ UNCHANGED <<dbVars, staging, blobs, targetsAt, timestamp, bounds>>

\* The single mutable pointer, replaced atomically and last.
PutTimestamp(p) ==
    /\ Step(p, "putTimestamp", "finish")
    /\ timestamp' = [ver |-> my[p].ver, targets |-> my[p].want]
    /\ UNCHANGED <<dbVars, lease, staging, blobs, targetsAt, snapshotAt, my, bounds>>

\* Finalization of one publish intent: drop its staging object, then the status.
ClearStaging(p, a) ==
    /\ a \in my[p].publishing
    /\ Step(p, "finish", "confirm")
    /\ Keep(p, [my[p] EXCEPT !.art = a])
    /\ staging' = staging \ {a}
    /\ UNCHANGED <<dbVars, lease, blobs, metadataVars, bounds>>

ConfirmPublished(p) ==
    LET a == my[p].art IN
    /\ pc[p] = "confirm"
    /\ IF CanTransitionArtifactStatus(status[a], "published")
       THEN /\ SetStatus(a, "published")
            /\ Keep(p, [my[p] EXCEPT !.publishing = @ \ {a}])
            /\ Goto(p, "finish") /\ UNCHANGED lease
       ELSE Abort(p) /\ UNCHANGED status
    /\ UNCHANGED <<reviewed, lastVersion, storeVars, bounds>>

ConfirmWithdrawn(p, a) ==
    /\ pc[p] = "finish" /\ my[p].publishing = {} /\ a \in my[p].retiring
    /\ IF CanTransitionArtifactStatus(status[a], "withdrawn")
       THEN /\ SetStatus(a, "withdrawn")
            /\ Keep(p, [my[p] EXCEPT !.retiring = @ \ {a}])
            /\ UNCHANGED <<pc, lease>>
       ELSE Abort(p) /\ UNCHANGED status
    /\ UNCHANGED <<reviewed, lastVersion, storeVars, bounds>>

Finish(p) ==
    /\ pc[p] = "finish" /\ my[p].publishing = {} /\ my[p].retiring = {}
    /\ Release(p) /\ Leave(p, "idle")
    /\ UNCHANGED <<dbVars, storeVars, bounds>>

\* ------------------------------------------------------ faults and restart

\* A store or database call returns an error.  The callers return it, except the
\* deletion after a rejection, whose error is dropped.
Fail(p) ==
    /\ faults < MaxFaults
    /\ pc[p] \in Leased \cup {"scanning", "dropStaging", "acquire"}
    /\ Abort(p)
    /\ faults' = faults + 1
    /\ UNCHANGED <<dbVars, storeVars, ops, crashes>>

\* The process dies; its database session, and with it the lease, goes too.
Crash(p) ==
    /\ crashes < MaxCrashes
    /\ pc[p] # "down"
    /\ Release(p) /\ Leave(p, "down")
    /\ crashes' = crashes + 1
    /\ UNCHANGED <<dbVars, storeVars, ops, faults>>

\* app.Build: ReconcilePublications runs before the process serves anything.
Boot(p) ==
    /\ pc[p] = "down"
    /\ IF WithStatus("publish-pending") \cup WithStatus("withdraw-pending") = {}
       THEN Goto(p, "idle") /\ UNCHANGED my
       ELSE Goto(p, "acquire") /\ Keep(p, Locals("boot", None))
    /\ UNCHANGED <<dbVars, lease, storeVars, bounds>>

\* The connection that holds the advisory lock breaks; the holder goes on.
DropLease(p) ==
    /\ LeaseMayDrop
    /\ lease = p
    /\ lease' = None
    /\ UNCHANGED <<dbVars, storeVars, pc, my, bounds>>

\* Every operation the bound allows has been run.
Quiescent ==
    /\ ops = MaxOps /\ \A p \in Procs : pc[p] = "idle"
    /\ UNCHANGED vars

Continue(p) ==
    \/ ScanPasses(p) \/ ScanRefuses(p) \/ ScanFindsNothing(p) \/ DropStaging(p)
    \/ Acquire(p) \/ DecideApprove(p) \/ DecideWithdraw(p) \/ CopyToPublished(p)
    \/ PersistPublishIntent(p) \/ PersistWithdrawIntent(p)
    \/ ListPublished(p) \/ ListPublishing(p) \/ ListRetiring(p) \/ NextVersion(p)
    \/ PutTargets(p) \/ PutSnapshot(p) \/ PutTimestamp(p)
    \/ \E a \in Arts : ClearStaging(p, a) \/ ConfirmWithdrawn(p, a)
    \/ ConfirmPublished(p) \/ Finish(p) \/ Boot(p)

Next ==
    \/ \E p \in Procs : Continue(p) \/ Fail(p) \/ Crash(p) \/ DropLease(p)
    \/ \E p \in Procs, a \in Arts :
         StartScan(p, a) \/ Reject(p, a) \/ Approve(p, a) \/ Withdraw(p, a)
    \/ Quiescent

Spec == Init /\ [][Next]_vars

\* A process keeps working, and PostgreSQL serves advisory-lock waiters in turn.
Fairness == \A p \in Procs : WF_vars(Continue(p)) /\ SF_vars(Acquire(p))
FairSpec == Spec /\ Fairness
\* ------------------------------------------------------------- properties

\* Every row, object and local keeps its shape through operations, faults and boots.
TypeOK ==
    /\ status \in [Arts -> Statuses]
    /\ reviewed \in [Arts -> BOOLEAN]
    /\ lastVersion \in Nat \ {0}
    /\ lease \in Procs \cup {None}
    /\ staging \subseteq Arts /\ blobs \subseteq Arts
    /\ DOMAIN targetsAt \subseteq Nat /\ DOMAIN snapshotAt \subseteq Nat
    /\ timestamp \in [ver : Nat, targets : SUBSET Arts]
    /\ pc \in [Procs -> PCs]
    /\ my \in [Procs -> LocalVars]
    /\ ops \in 0..MaxOps /\ crashes \in 0..MaxCrashes /\ faults \in 0..MaxFaults

\* What clients are told agrees with the rows: a published artifact is listed by
\* the metadata timestamp.json points to, and nothing is listed that was never
\* approved, was rejected, or whose withdrawal has completed.
MetadataMatchesStatus ==
    /\ WithStatus("published") \subseteq Listed
    /\ \A a \in Listed :
         status[a] \in {"publish-pending", "published", "withdraw-pending"}

\* Whatever is listed can be downloaded and has been reviewed: the published
\* object was in place before the metadata that names it.
ListedIsServable == \A a \in Listed : a \in blobs /\ reviewed[a]

\* A client that follows timestamp.json finds the snapshot and the targets of
\* that very version, with the content their hashes promise.
ConsistentSnapshot ==
    /\ timestamp.ver \in DOMAIN targetsAt \cap DOMAIN snapshotAt
    /\ targetsAt[timestamp.ver] = Listed
    /\ snapshotAt[timestamp.ver] = Listed

\* An artifact still to be decided keeps the upload its decision needs.
UndecidedKeepsUpload == WithStatus("staged") \cup WithStatus("scanned") \subseteq staging

\* timestamp.json never moves to an older version, nor changes under the same one.
TimestampAdvances == [][timestamp' # timestamp => timestamp'.ver > timestamp.ver]_vars

\* The inductive invariant behind MetadataMatchesStatus, ListedIsServable and
\* TimestampAdvances: only the lease holder is inside the leased section, what it
\* has read is still what the rows say, and its version is newer than the one
\* timestamp.json names.
Holding(p) == pc[p] \in Leased <=> lease = p

InHand(p) ==
    /\ pc[p] \in {"scanning", "dropStaging", "decide", "copy", "intend", "retire"} =>
         my[p].art \in Arts
    /\ pc[p] = "acquire" /\ my[p].op # "boot" => my[p].art \in Arts
    /\ pc[p] = "intend" => my[p].art \in blobs

ReadsAreCurrent(p) ==
    /\ pc[p] = "listPublishing" => my[p].want = WithStatus("published")
    /\ pc[p] \in {"listRetiring", "version", "putTargets", "putSnapshot", "putTimestamp"} =>
         /\ my[p].want = WithStatus("published") \cup WithStatus("publish-pending")
         /\ my[p].publishing = WithStatus("publish-pending")
    /\ pc[p] \in {"version", "putTargets", "putSnapshot", "putTimestamp"} =>
         my[p].retiring = WithStatus("withdraw-pending")

WritesAreNewer(p) ==
    /\ pc[p] \in {"putTargets", "putSnapshot", "putTimestamp"} =>
         my[p].ver = lastVersion /\ my[p].ver > timestamp.ver
    /\ pc[p] \in {"putSnapshot", "putTimestamp"} =>
         my[p].ver \in DOMAIN targetsAt /\ targetsAt[my[p].ver] = my[p].want
    /\ pc[p] = "putTimestamp" =>
         my[p].ver \in DOMAIN snapshotAt /\ snapshotAt[my[p].ver] = my[p].want

FinalizesWhatIsListed(p) ==
    /\ pc[p] \in {"finish", "confirm"} =>
         /\ my[p].publishing \subseteq Listed \cap WithStatus("publish-pending")
         /\ my[p].retiring \subseteq WithStatus("withdraw-pending") \ Listed
    /\ pc[p] = "confirm" => my[p].art \in my[p].publishing

IntentsAreServable ==
    \A a \in Arts :
        status[a] \in {"publish-pending", "published", "withdraw-pending"} =>
            a \in blobs /\ reviewed[a]

SharedInv ==
    /\ MetadataMatchesStatus /\ IntentsAreServable /\ ConsistentSnapshot
    /\ timestamp.ver <= lastVersion
ProcessInv(p) ==
    /\ Holding(p) /\ InHand(p) /\ ReadsAreCurrent(p)
    /\ WritesAreNewer(p) /\ FinalizesWhatIsListed(p)
IInv == TypeOK /\ SharedInv /\ \A p \in Procs : ProcessInv(p)

\* A durable intent, to publish or to withdraw, is carried out, whoever crashes on the
\* way (ReconcilePublications).
IntentsComplete ==
    \A a \in Arts :
        /\ status[a] = "publish-pending" ~> status[a] = "published"
        /\ status[a] = "withdraw-pending" ~> status[a] = "withdrawn"

\* A process that is down gets to serve again.
BootsEventually == \A p \in Procs : pc[p] = "down" ~> pc[p] = "idle"

\* A package the scan refused is rejected before its upload is dropped, and is never
\* offered to a client, however its scans, approvals and crashes interleave (RunScan).
RefusedStaysRefused ==
    /\ \A p \in Procs : pc[p] = "dropStaging" => status[my[p].art] = "rejected"
    /\ Listed \cap Failing = {}

\* The register of releases this pipeline implements.
PhaseOf(s) == CASE s \in {"staged", "scanned"} -> "undecided"
                [] s = "rejected" -> "refused"
                [] s = "publish-pending" -> "intended"
                [] s = "published" -> "live"
                [] s = "withdraw-pending" -> "retiring"
                [] s = "withdrawn" -> "gone"
Phase == [a \in Arts |-> PhaseOf(status[a])]
Register == INSTANCE ReleaseRegister WITH phase <- Phase, listed <- Listed,
                                          epoch <- timestamp.ver

\* The whole pipeline, with its faults, crashes and boots, is a register of releases:
\* every step either leaves rows and metadata as they are or is one step of it.
ImplementsRegister == Register!Spec
=============================================================================
