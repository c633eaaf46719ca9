--------------------------- MODULE UploadPipeline ---------------------------
(***************************************************************************)
(* From an upload session to a published object, before and beside the     *)
(* metadata that module Publication models: CreateUploadSession,           *)
(* ReceiveContent and CreateRelease of services/internal/publishers, the   *)
(* scan job queue of the repository, the loop of source-worker and the     *)
(* copy an approval makes.  Here the bytes matter: a content is named by   *)
(* the SHA-256 it has, so it matches a declared digest when it equals it.  *)
(***************************************************************************)
EXTENDS Naturals, FiniteSets

CONSTANTS
    Procs,       \* request handlers and workers
    Sessions,    \* upload session ids
    Arts,        \* artifact ids (random in the code)
    Ids,         \* release identities: tool, version, platform, architecture
    Contents,    \* byte strings of the declared size
    Sound,       \* those that are a package with the manifest the request names
    Overlap,     \* sessions to which two requests may upload at a time
    None,
    MaxOps, MaxCrashes, MaxFaults   \* bounds

ASSUME UploadAssumption ==
    /\ Sound \subseteq Contents
    /\ Overlap \subseteq Sessions
    /\ None \notin Procs \cup Sessions \cup Arts \cup Ids \cup Contents
    /\ MaxOps \in Nat /\ MaxCrashes \in Nat /\ MaxFaults \in Nat

VARIABLES
    session,   \* upload_sessions.status, "absent" before the row exists
    declared,  \* upload_sessions.declared_sha256
    attached,  \* upload_sessions.artifact_id
    staged,    \* the object under staging/<session>
    row,       \* artifacts: status, sha256, identity
    job,       \* job_queue: status of the scan job of an artifact
    attempts,  \* job_queue.attempts
    blob,      \* artifacts/sha256/<digest>: the bytes under that key
    pc, my,    \* per process: position in its operation, and its locals
    ops, crashes, faults

uploads == <<session, declared, attached>>
queue == <<job, attempts>>
bounds == <<ops, crashes, faults>>
vars == <<uploads, staged, row, queue, blob, pc, my, bounds>>

MaxAttempts == 3
SessionStatuses == {"absent", "open", "completed", "failed", "release-claimed"}
RowStatuses == {"absent", "staged", "scanned", "publish-pending", "published"}
JobStatuses == {"none", "queued", "running", "done", "failed"}
Claiming == {"inspect", "create", "attach", "enqueue"}
PCs == Claiming \cup {"idle", "put", "judge", "dropBad", "claim", "scan", "complete",
                      "copy", "intend", "finalize"}

\* Locals: the session and the artifact in hand, the requested identity, the bytes
\* received, and whether the scan succeeded.
LocalVars == [ses : Sessions \cup {None}, art : Arts \cup {None}, id : Ids \cup {None},
              body : Contents \cup {None}, ok : BOOLEAN]
Locals(s, a, i) == [ses |-> s, art |-> a, id |-> i, body |-> None, ok |-> FALSE]
NoRow == [status |-> "absent", sha |-> None, id |-> None]

Init ==
    /\ session = [s \in Sessions |-> "absent"]
    /\ declared = [s \in Sessions |-> None]
    /\ attached = [s \in Sessions |-> None]
    /\ staged = [s \in Sessions |-> None]
    /\ row = [a \in Arts |-> NoRow]
    /\ job = [a \in Arts |-> "none"] /\ attempts = [a \in Arts |-> 0]
    /\ blob = [c \in Contents |-> None]
    /\ pc = [p \in Procs |-> "idle"]
    /\ my = [p \in Procs |-> Locals(None, None, None)]
    /\ ops = 0 /\ crashes = 0 /\ faults = 0

Goto(p, there) == pc' = [pc EXCEPT ![p] = there]
Step(p, here, there) == pc[p] = here /\ Goto(p, there)
Keep(p, locals) == my' = [my EXCEPT ![p] = locals]
GoOn(p, there) == Goto(p, there) /\ UNCHANGED my
Leave(p) == Goto(p, "idle") /\ Keep(p, Locals(None, None, None))

\* A process begins an operation; MaxOps bounds how many there are.
Begin(p, there, locals) ==
    /\ Step(p, "idle", there) /\ Keep(p, locals)
    /\ ops < MaxOps /\ ops' = ops + 1
    /\ UNCHANGED <<crashes, faults>>

\* Faulty variant: the rewrite of a stale session object is always accepted.
CanRewriteSession(s, to, art) == session[s] # "absent"

\* uploadRepo.Update: which rewrite of a session row, by a caller that read it
\* earlier, the database accepts.
CanUpdateSession(s, to, art) ==
    \/ session[s] = to /\ to # "release-claimed" /\ attached[s] = art
    \/ session[s] = "open" /\ to \in {"completed", "failed"} /\ art = None
    \/ session[s] = "release-claimed" /\ to = "release-claimed" /\ attached[s] \in {None, art}

\* --------------------------------------------------------- faulty variants
\* Operations below with a plausible mistake; no part of Next.

JudgeByStoredObject(p) ==
    LET s == my[p].ses IN
    /\ pc[p] = "judge"
    /\ IF CanUpdateSession(s, "completed", None)
       THEN session' = [session EXCEPT ![s] = "completed"]
       ELSE UNCHANGED session
    /\ Leave(p)
    /\ UNCHANGED <<declared, attached, staged, row, queue, blob, bounds>>

ClaimReleased(p) ==
    LET s == my[p].ses IN
    /\ pc[p] = "claim" /\ session[s] \in {"completed", "release-claimed"}
    /\ session' = [session EXCEPT ![s] = "release-claimed"] /\ GoOn(p, "inspect")
    /\ UNCHANGED <<declared, attached, staged, row, queue, blob, bounds>>

AttachAnything(p) ==
    /\ Step(p, "attach", "enqueue")
    /\ \E s \in Sessions : attached' = [attached EXCEPT ![s] = my[p].art]
    /\ UNCHANGED <<session, declared, staged, row, queue, blob, my, bounds>>

FinalizeOtherStaging(p) ==
    LET a == my[p].art IN
    /\ pc[p] = "finalize"
    /\ staged' = [s \in Sessions |-> None]
    /\ row' = [row EXCEPT ![a].status = "published"]
    /\ Leave(p)
    /\ UNCHANGED <<uploads, queue, blob, bounds>>

\* ------------------------------------------------------------------ upload

CreateUploadSession(p, s, c) ==
    /\ pc[p] = "idle" /\ session[s] = "absent"
    /\ session' = [session EXCEPT ![s] = "open"]
    /\ declared' = [declared EXCEPT ![s] = c]
    /\ UNCHANGED <<attached, staged, row, queue, blob, pc, my, bounds>>

ReceiveContent(p, s) ==
    /\ session[s] = "open"
    /\ s \in Overlap \/ \A q \in Procs : pc[q] \in {"put", "judge", "dropBad"} => my[q].ses # s
    /\ Begin(p, "put", Locals(s, None, None))
    /\ UNCHANGED <<uploads, staged, row, queue, blob>>

\* Store.Put replaces the staging object by a complete one.
PutContent(p, c) ==
    /\ Step(p, "put", "judge")
    /\ staged' = [staged EXCEPT ![my[p].ses] = c]
    /\ Keep(p, [my[p] EXCEPT !.body = c])
    /\ UNCHANGED <<uploads, row, queue, blob, bounds>>

\* Store.Put fails (a body of another size, an I/O error): the session fails, unless
\* it has moved on, and the object that was there stays.
PutRefused(p) ==
    LET s == my[p].ses IN
    /\ pc[p] = "put"
    /\ IF CanUpdateSession(s, "failed", None)
       THEN session' = [session EXCEPT ![s] = "failed"]
       ELSE UNCHANGED session
    /\ Leave(p)
    /\ UNCHANGED <<declared, attached, staged, row, queue, blob, bounds>>

\* The digest of the bytes this request streamed decides the session.
AcceptContent(p) ==
    LET s == my[p].ses IN
    /\ pc[p] = "judge" /\ my[p].body = declared[s]
    /\ IF CanUpdateSession(s, "completed", None)
       THEN session' = [session EXCEPT ![s] = "completed"]
       ELSE UNCHANGED session
    /\ Leave(p)
    /\ UNCHANGED <<declared, attached, staged, row, queue, blob, bounds>>

RefuseContent(p) ==
    LET s == my[p].ses IN
    /\ pc[p] = "judge" /\ my[p].body # declared[s]
    /\ IF CanUpdateSession(s, "failed", None)
       THEN session' = [session EXCEPT ![s] = "failed"]
       ELSE UNCHANGED session
    /\ GoOn(p, "dropBad")
    /\ UNCHANGED <<declared, attached, staged, row, queue, blob, bounds>>

DropBad(p) ==
    /\ pc[p] = "dropBad"
    /\ staged' = [staged EXCEPT ![my[p].ses] = None]
    /\ Leave(p)
    /\ UNCHANGED <<uploads, row, queue, blob, bounds>>

\* ----------------------------------------------------------------- release

\* Reads the session and verifies the publisher's signature over the declared digest;
\* an identity whose release is pending is refused.
CreateRelease(p, s, i) ==
    /\ session[s] # "absent"
    /\ \A a \in Arts : row[a].id = i => row[a].status # "publish-pending"
    /\ Begin(p, "claim", Locals(s, None, i))
    /\ UNCHANGED <<uploads, staged, row, queue, blob>>

\* Uploads.ClaimCompleted: one statement, completed -> release-claimed.
ClaimCompleted(p) ==
    LET s == my[p].ses IN
    /\ pc[p] = "claim"
    /\ IF session[s] = "completed"
       THEN session' = [session EXCEPT ![s] = "release-claimed"] /\ GoOn(p, "inspect")
       ELSE Leave(p) /\ UNCHANGED session
    /\ UNCHANGED <<declared, attached, staged, row, queue, blob, bounds>>

\* What every reader of a staged package checks: the object is there with the declared
\* size, and is an archive with a valid manifest.  Its digest is not computed again.
IsPackage(object) == object \in Sound

InspectPackage(p) ==
    /\ pc[p] = "inspect"
    /\ IF IsPackage(staged[my[p].ses]) THEN GoOn(p, "create") ELSE Leave(p)
    /\ UNCHANGED <<uploads, staged, row, queue, blob, bounds>>

\* Artifacts.Create under the unique constraints on the identity and on sha256.
Taken(c, i) == \E a \in Arts : row[a].sha = c \/ row[a].id = i
CreateArtifact(p) ==
    LET c == declared[my[p].ses] IN
    /\ pc[p] = "create"
    /\ \/ /\ Taken(c, my[p].id) /\ Leave(p) /\ UNCHANGED row
       \/ /\ ~Taken(c, my[p].id)
          /\ \E a \in {x \in Arts : row[x] = NoRow} :
                /\ row' = [row EXCEPT ![a] = [status |-> "staged", sha |-> c, id |-> my[p].id]]
                /\ Keep(p, [my[p] EXCEPT !.art = a])
          /\ Goto(p, "attach")
    /\ UNCHANGED <<uploads, staged, queue, blob, bounds>>

\* Uploads.Update with the artifact id.
AttachSession(p) ==
    LET s == my[p].ses IN
    /\ pc[p] = "attach"
    /\ IF CanUpdateSession(s, "release-claimed", my[p].art)
       THEN attached' = [attached EXCEPT ![s] = my[p].art] /\ GoOn(p, "enqueue")
       ELSE Leave(p) /\ UNCHANGED attached
    /\ UNCHANGED <<session, declared, staged, row, queue, blob, bounds>>

EnqueueScan(p) ==
    /\ pc[p] = "enqueue"
    /\ job' = [job EXCEPT ![my[p].art] = "queued"]
    /\ Leave(p)
    /\ UNCHANGED <<uploads, staged, row, attempts, blob, bounds>>

\* ------------------------------------------------------------------ worker

\* Jobs.ClaimNext (FOR UPDATE SKIP LOCKED): no two workers get one job.
ClaimNext(p, a) ==
    /\ Step(p, "idle", "scan") /\ Keep(p, Locals(None, a, None))
    /\ job[a] = "queued"
    /\ job' = [job EXCEPT ![a] = "running"]
    /\ attempts' = [attempts EXCEPT ![a] = @ + 1]
    /\ UNCHANGED <<uploads, staged, row, blob, bounds>>

\* RunScan: a row that is no longer staged is a success; otherwise the package of the
\* session that names the artifact is read and the row becomes "scanned".
SessionsOf(a) == {s \in Sessions : attached[s] = a}
RunScan(p) ==
    LET a == my[p].art
        readable == \E s \in SessionsOf(a) : IsPackage(staged[s])
    IN  /\ Step(p, "scan", "complete")
        /\ IF row[a].status = "staged" /\ readable
           THEN row' = [row EXCEPT ![a].status = "scanned"] ELSE UNCHANGED row
        /\ Keep(p, [my[p] EXCEPT !.ok = row[a].status # "staged" \/ readable])
        /\ UNCHANGED <<uploads, staged, queue, blob, bounds>>

\* Jobs.Complete: an error requeues the job until its third attempt.
CompleteJob(p) ==
    LET a == my[p].art IN
    /\ pc[p] = "complete"
    /\ job' = [job EXCEPT ![a] = IF my[p].ok THEN "done"
                                 ELSE IF attempts[a] < MaxAttempts THEN "queued" ELSE "failed"]
    /\ Leave(p)
    /\ UNCHANGED <<uploads, staged, row, attempts, blob, bounds>>

\* ---------------------------------------------------------------- approval

\* Approve's effect on the objects and on this row; Publication has the rest.
Approve(p, a) ==
    /\ row[a].status = "scanned"
    /\ \A q \in Procs : pc[q] \notin {"copy", "intend", "finalize"}   \* the publish lease
    /\ Begin(p, "copy", Locals(None, a, None))
    /\ UNCHANGED <<uploads, staged, row, queue, blob>>

\* Store.CopyToPublished: whatever is staged goes under the declared digest, unless
\* other bytes are there.
CopyToPublished(p) ==
    LET key == row[my[p].art].sha IN
    /\ pc[p] = "copy"
    /\ \E s \in SessionsOf(my[p].art) :
          IF staged[s] # None /\ blob[key] \in {None, staged[s]}
          THEN blob' = [blob EXCEPT ![key] = staged[s]] /\ GoOn(p, "intend")
          ELSE Leave(p) /\ UNCHANGED blob
    /\ UNCHANGED <<uploads, staged, row, queue, bounds>>

PersistIntent(p) ==
    /\ Step(p, "intend", "finalize")
    /\ row' = [row EXCEPT ![my[p].art].status = "publish-pending"]
    /\ UNCHANGED <<uploads, staged, queue, blob, my, bounds>>

Finalize(p) ==
    LET a == my[p].art IN
    /\ pc[p] = "finalize"
    /\ staged' = [s \in Sessions |-> IF attached[s] = a THEN None ELSE staged[s]]
    /\ row' = [row EXCEPT ![a].status = "published"]
    /\ Leave(p)
    /\ UNCHANGED <<uploads, queue, blob, bounds>>

\* ------------------------------------------------------ faults and crashes

\* A store or database call returns an error: a request ends with it, a scan reports
\* it to the queue, and the error of Complete itself is dropped.
Fail(p) ==
    /\ faults < MaxFaults /\ faults' = faults + 1
    /\ pc[p] # "idle"
    /\ IF pc[p] = "scan" THEN GoOn(p, "complete") ELSE Leave(p)
    /\ UNCHANGED <<uploads, staged, row, queue, blob, ops, crashes>>

Crash(p) ==
    /\ crashes < MaxCrashes /\ crashes' = crashes + 1
    /\ pc[p] # "idle"
    /\ Leave(p)
    /\ UNCHANGED <<uploads, staged, row, queue, blob, ops, faults>>

Quiescent ==
    /\ \A p \in Procs : pc[p] = "idle"
    /\ \A a \in Arts : job[a] # "queued"
    /\ UNCHANGED vars

Continue(p) ==
    \/ \E c \in Contents : PutContent(p, c)
    \/ PutRefused(p) \/ AcceptContent(p) \/ RefuseContent(p) \/ DropBad(p)
    \/ ClaimCompleted(p) \/ InspectPackage(p) \/ CreateArtifact(p) \/ AttachSession(p)
    \/ EnqueueScan(p) \/ RunScan(p) \/ CompleteJob(p)
    \/ CopyToPublished(p) \/ PersistIntent(p) \/ Finalize(p)

Next ==
    \/ \E p \in Procs : Continue(p) \/ Fail(p) \/ Crash(p)
    \/ \E p \in Procs, s \in Sessions, c \in Contents : CreateUploadSession(p, s, c)
    \/ \E p \in Procs, s \in Sessions : ReceiveContent(p, s)
    \/ \E p \in Procs, s \in Sessions, i \in Ids : CreateRelease(p, s, i)
    \/ \E p \in Procs, a \in Arts : ClaimNext(p, a) \/ Approve(p, a)
    \/ Quiescent

Spec == Init /\ [][Next]_vars

\* ------------------------------------------------------------- properties

\* Rows, queue and objects keep their shape, and no job runs a fourth time.
TypeOK ==
    /\ session \in [Sessions -> SessionStatuses]
    /\ declared \in [Sessions -> Contents \cup {None}]
    /\ attached \in [Sessions -> Arts \cup {None}]
    /\ staged \in [Sessions -> Contents \cup {None}]
    /\ row \in [Arts -> [status : RowStatuses, sha : Contents \cup {None},
                         id : Ids \cup {None}]]
    /\ job \in [Arts -> JobStatuses] /\ attempts \in [Arts -> 0..MaxAttempts]
    /\ blob \in [Contents -> Contents \cup {None}]
    /\ pc \in [Procs -> PCs] /\ my \in [Procs -> LocalVars]
    /\ ops \in 0..MaxOps /\ crashes \in 0..MaxCrashes /\ faults \in 0..MaxFaults

\* The claim is one-shot: no two CreateRelease calls hold one session, whatever stale
\* session objects uploads write back meanwhile.
ClaimIsExclusive ==
    \A p, q \in Procs :
        pc[p] \in Claiming /\ pc[q] \in Claiming /\ my[p].ses = my[q].ses => p = q

\* A session names at most one artifact, of its own digest, and for good; one that
\* has failed or was claimed never comes back.
SessionsSettle ==
    [][\A s \in Sessions :
         /\ session[s] \in {"failed", "release-claimed"} => session'[s] = session[s]
         /\ attached[s] # None => attached'[s] = attached[s]
         /\ attached'[s] # None => row'[attached'[s]].sha = declared[s]]_vars

\* A job the worker reports done has decided its artifact, at whatever attempt.
DoneMeansDecided ==
    \A a \in Arts : job[a] = "done" => row[a].status \notin {"absent", "staged"}

\* The queue and the sessions at any moment: types, the one-shot claim, decided jobs.
UploadInv == TypeOK /\ ClaimIsExclusive /\ DoneMeansDecided

\* What is stored under a digest has that digest (service.go:5, storage.go:45).
PublishedIsContentAddressed == \A c \in Contents : blob[c] \in {None, c}

\* The same for the releases whose session took one upload at a time, over retries,
\* crashes and the uploads and publications of the other sessions.
PublishedAsDeclared ==
    \A s \in Sessions \ Overlap :
        attached[s] # None /\ row[attached[s]].status \in {"publish-pending", "published"}
        => blob[declared[s]] = declared[s]

\* Such an upload, once accepted, stays in staging until its artifact is published.
AcceptedUploadStays ==
    \A s \in Sessions \ Overlap :
        \/ session[s] = "completed"
        \/ attached[s] # None /\ row[attached[s]].status \in {"staged", "scanned"}
        => staged[s] = declared[s]
=============================================================================
